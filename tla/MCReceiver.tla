----------------------------- MODULE MCReceiver -----------------------------
(* Instances of Receiver for TLC: two tasks of one plan.                   *)
EXTENDS Receiver

CONSTANTS k1, k2, plan, d1, d2

MCKeys     == {k1, k2}
MCLedgers  == {plan}
MCLedgerOf == [k \in MCKeys |-> plan]
MCDirs     == {d1, d2}
MCDirOf    == [k \in MCKeys |-> IF k = k1 THEN d1 ELSE d2]
=============================================================================
