------------------------------- MODULE Outbox -------------------------------
(***************************************************************************)
(* What the relay promises of one ledger: the events of its log reach      *)
(* iplanic in order, and an event that never will is dead-lettered, for an *)
(* operator to see, before any later one arrives.  Nothing is dropped in   *)
(* silence and nothing is taken back.                                      *)
(***************************************************************************)
EXTENDS Integers

VARIABLES
    log,       \* the number of events the ledger projects to
    ingested,  \* the events iplanic holds
    dead       \* the events in the dead-letter sink

vars == <<log, ingested, dead>>

Init == log \in Nat /\ ingested = {} /\ dead = {}

\* Event e may be dealt with once every earlier one has been.
Due(e) == 1 .. e - 1 \subseteq ingested \cup dead

Grow    == log' = log + 1 /\ UNCHANGED <<ingested, dead>>
Arrive  == \E e \in 1 .. log : Due(e) /\ ingested' = ingested \cup {e} /\ UNCHANGED <<log, dead>>
GiveUp  == \E e \in 1 .. log : Due(e) /\ dead' = dead \cup {e} /\ UNCHANGED <<log, ingested>>

Next == Grow \/ Arrive \/ GiveUp

Spec == Init /\ [][Next]_vars
=============================================================================
