------------------------------ MODULE MCChain ------------------------------
(* Instances of Chain for TLC.                                             *)
EXTENDS Chain

\* No order given, and one that contradicts most dependencies.
MCOrders == {[p \in Plans |-> NoOrder], [p \in Plans |-> 4 - p]}

good == [schema |-> TRUE, source |-> TRUE, version |-> TRUE, approved |-> TRUE,
         score |-> 90, scope |-> TRUE,
         tasks |-> {[id |-> 1, title |-> TRUE, acceptance |-> TRUE, depends_on |-> {}]}]

\* All manifests there; one missing and one that is not approved.
MCIPlans == {[p \in Plans |-> good],
             [p \in Plans \ {3} |-> IF p = 2 THEN [good EXCEPT !.score = 89] ELSE good]}

MCLeases == {{[resource |-> 1, from |-> 1, to |-> 3], [resource |-> 1, from |-> 2, to |-> 4]}}
=============================================================================
