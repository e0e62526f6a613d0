------------------------------ MODULE MCRelay ------------------------------
(* Instances of Relay for TLC: one sync command and one receiver thread.   *)
EXTENDS Relay

CONSTANTS sync, thread

MCWorkers   == {sync, thread}
MCReceivers == {thread}
=============================================================================
