---------------------------- MODULE MCRunLoop ----------------------------
(* Instances of RunLoop for TLC. *)
EXTENDS RunLoop

NoDeps == [t \in Tasks |-> {}]
\* Every task depends on the one before it.
Chain  == [t \in Tasks |-> {u \in Tasks : u = t - 1}]
\* Every task depends on all the others; topo_order breaks the cycle.
Cycle  == [t \in Tasks |-> Tasks \ {t}]

MCGraphs == {NoDeps, Chain, Cycle}

\* The last task depends on the one before it, the others on nothing.
OneGraph == {[t \in Tasks |-> {u \in Tasks : u = t - 1 /\ t + 1 \notin Tasks}]}

Result(o, touched, ev, rt) ==
    [outcome |-> o, touched |-> touched, evidence |-> ev, retriable |-> rt]

Success == Result("success", "inside", TRUE, FALSE)
Failure == Result("failure", "none", FALSE, FALSE)

\* Success with evidence; success with edits outside the roots and no evidence; a timeout,
\* which is retriable, that left partial edits.
MCResults == {Success, Result("success", "outside", FALSE, FALSE),
              Result("failure", "inside", FALSE, TRUE)}

\* The outcomes that decide statuses only.
PlainResults == {Success, Failure}
==========================================================================
