------------------------------ MODULE TaskLife ------------------------------
(***************************************************************************)
(* What the receiver promises of the rows of accepted_task: a task is      *)
(* accepted, run once, and ends; an end is final, and only a row that has  *)
(* ended is ever deleted, after which the task counts as new.              *)
(***************************************************************************)
EXTENDS Integers

CONSTANT Keys

VARIABLES
    row,   \* key -> "none", "accepted", "running", "done" or "failed"
    runs   \* key -> how often the task was run

vars == <<row, runs>>

Init == row = [k \in Keys |-> "none"] /\ runs = [k \in Keys |-> 0]

Becomes(k, before, after) == row[k] = before /\ row' = [row EXCEPT ![k] = after]

Take(k)  == Becomes(k, "none", "accepted") /\ UNCHANGED runs
Start(k) == Becomes(k, "accepted", "running") /\ runs' = [runs EXCEPT ![k] = @ + 1]
End(k)   == (\E end \in {"done", "failed"} : Becomes(k, "running", end)) /\ UNCHANGED runs

Sweep(gone) ==
    /\ \A k \in gone : row[k] \in {"done", "failed"}
    /\ row' = [k \in Keys |-> IF k \in gone THEN "none" ELSE row[k]]
    /\ UNCHANGED runs

Next ==
    \/ \E k \in Keys : Take(k) \/ Start(k) \/ End(k)
    \/ \E gone \in SUBSET Keys : Sweep(gone)

Spec == Init /\ [][Next]_vars
=============================================================================
