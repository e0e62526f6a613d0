------------------------------- MODULE Chain -------------------------------
(***************************************************************************)
(* A chain of IPLANs: orchestrator/chain.py, validation/chain_rules.py and *)
(* the run-chain command.  The plans run one after the other, each through *)
(* the run loop; here a run of a plan only returns whether its ledger was  *)
(* reconciled (RunLoop says when that is), or raises.                      *)
(***************************************************************************)
EXTENDS Intake, Sequences, FiniteSets

CONSTANTS
    Plans,     \* iplan_ids of the chain, compared like the strings they are
    Known,     \* ids a depends_on may name: the plans, and ids of no plan
    Orders,    \* the `order' a chain may give its plans: [Plans -> Nat or NoOrder]
    IPlans,    \* the manifests a chain may come with: functions on sets of plans
    Leases,    \* cross_plan_leases a chain may declare: sets of [resource, from, to]
    Controls   \* may run_chain be given a control callable? (the CLI: {FALSE})

NoOrder  == -1
NoPlan   == 0
NoLedger == [status |-> "none"]

ASSUME ChainAssumption ==
    /\ Plans \subseteq Nat \ {NoPlan} /\ IsFiniteSet(Plans)
    /\ Plans \subseteq Known
    /\ Orders \subseteq [Plans -> Nat \cup {NoOrder}]
    /\ Controls \subseteq BOOLEAN

VARIABLES
    deps, order, iplans, leases,  \* the chain file
    controlled,  \* TRUE: a control callable was passed
    control,     \* what it returns
    place,       \* where run_chain is
    remaining,   \* plans the loop has not visited
    cur,         \* the plan that runs
    reconciled,  \* plan -> "unset", "yes" or "no"
    ran,         \* the plans with a sub-ledger begun, in order
    ledger       \* the chain ledger, or NoLedger

fileVars == <<deps, order, iplans, leases>>
vars == <<fileVars, controlled, control, place, remaining, cur, reconciled, ran, ledger>>

-----------------------------------------------------------------------------
key(p) == IF order[p] = NoOrder THEN 0 ELSE order[p]
before(p, q) == key(p) < key(q) \/ (key(p) = key(q) /\ p <= q)
first(S) == CHOOSE p \in S : \A q \in S : before(p, q)

\* Mutant: the plans run in the order the file gives them.
chain_next_listed(S) == first(S)

\* The choice chain_order makes when the plans of S are left.
chain_next(S) ==
    LET ready == {p \in S : deps[p] \subseteq Plans \ S}
    IN  first(IF ready # {} THEN ready ELSE S)

\* What is left of the order when the plans of S are left.
order_from[S \in SUBSET Plans] ==
    IF S = {} THEN <<>> ELSE <<chain_next(S)>> \o order_from[S \ {chain_next(S)}]

chain_order == order_from[Plans]

\* Mutant: only the flags that were set are looked at.
all_set_reconciled == \A p \in Plans : reconciled[p] # "no"

all_reconciled == \A p \in Plans : reconciled[p] = "yes"

build_chain_ledger ==
    [status |-> IF all_reconciled THEN "completed" ELSE "blocked",
     iplan_chain |-> [p \in Plans |-> reconciled[p] = "yes"],
     execution_order |-> chain_order]

leases_overlap(a, b) == a.from < b.to /\ b.from < a.to

\* validate of the chain ledger.  An absent order is compared with nothing, an id
\* of no plan has no order and no flag.
validate_chain(l) ==
    LET edges == {e \in Plans \X Plans : e[2] \in deps[e[1]]}
    IN  fired([ORDER_INVALID |->
                   \E e \in edges : NoOrder \notin {order[e[1]], order[e[2]]}
                                    /\ order[e[1]] <= order[e[2]],
               UPSTREAM_UNRECONCILED |-> \E e \in edges : ~l.iplan_chain[e[2]],
               LEASE_OVERLAP |->
                   \E a, b \in leases : a # b /\ a.resource = b.resource
                                        /\ leases_overlap(a, b)])

-----------------------------------------------------------------------------
Init ==
    /\ deps \in [Plans -> SUBSET Known]
    /\ order \in Orders
    /\ iplans \in IPlans
    /\ leases \in Leases
    /\ controlled \in Controls
    /\ control = "running"
    /\ place = "loop"
    /\ remaining = Plans
    /\ cur = NoPlan
    /\ reconciled = [p \in Plans |-> "unset"]
    /\ ran = <<>>
    /\ ledger = NoLedger

Stopped == controlled /\ control \in {"aborted", "paused"}

\* Mutant: a dependency without a flag is no obstacle.
none_unreconciled(p) == \A d \in deps[p] : d \in Plans => reconciled[d] # "no"

\* all(reconciled.get(d) for d in depends_on)
upstream_reconciled(p) == \A d \in deps[p] : d \in Plans /\ reconciled[d] = "yes"

\* Mutant: no fallback when no plan is ready.
VisitReady(p) ==
    /\ place = "loop" /\ remaining # {} /\ ~Stopped
    /\ p = chain_next(remaining) /\ deps[p] \cap remaining = {}
    /\ remaining' = remaining \ {p}

\* The loop reaches plan p.
Visit(p) ==
    /\ place = "loop"
    /\ remaining # {}
    /\ ~Stopped
    /\ p = chain_next(remaining)
    /\ remaining' = remaining \ {p}

SkipPlan(p) ==
    /\ Visit(p)
    /\ ~upstream_reconciled(p)
    /\ reconciled' = [reconciled EXCEPT ![p] = "no"]
    /\ UNCHANGED <<fileVars, controlled, control, place, cur, ran, ledger>>

\* The run of the plan begins.  KeyError when the file lacks its manifest,
\* ValueError when the manifest fails validate_intake: either ends run_chain.
StartPlan(p) ==
    /\ Visit(p)
    /\ upstream_reconciled(p)
    /\ IF p \in DOMAIN iplans /\ run_accepts(iplans[p])
       THEN place' = "run" /\ cur' = p /\ ran' = Append(ran, p)
       ELSE place' = "raised" /\ UNCHANGED <<cur, ran>>
    /\ UNCHANGED <<fileVars, controlled, control, reconciled, ledger>>

flag(ok) == IF ok THEN "yes" ELSE "no"

PlanReturns(ok) ==
    /\ place = "run"
    /\ place' = "loop"
    /\ reconciled' = [reconciled EXCEPT ![cur] = flag(ok)]
    /\ UNCHANGED <<fileVars, controlled, control, remaining, cur, ran, ledger>>

\* An exception of an executor leaves run and run_chain; no chain ledger is built.
PlanRaises ==
    /\ place = "run"
    /\ place' = "raised"
    /\ UNCHANGED <<fileVars, controlled, control, remaining, cur, reconciled, ran, ledger>>

Finish ==
    /\ place = "loop"
    /\ remaining = {} \/ Stopped
    /\ place' = "done"
    /\ ledger' = build_chain_ledger
    /\ UNCHANGED <<fileVars, controlled, control, remaining, cur, reconciled, ran>>

\* An operator pauses, aborts or sets going, at any moment; run_chain looks at it
\* between two plans only.
Operate(c) ==
    /\ controlled /\ place \in {"loop", "run"}
    /\ control # c
    /\ control' = c
    /\ UNCHANGED <<fileVars, controlled, place, remaining, cur, reconciled, ran, ledger>>

Step ==
    \/ \E p \in Plans : SkipPlan(p) \/ StartPlan(p)
    \/ \E ok \in BOOLEAN : PlanReturns(ok)
    \/ PlanRaises
    \/ Finish

Next == Step \/ \E c \in {"running", "paused", "aborted"} : Operate(c)

Spec == Init /\ [][Next]_vars

\* The process goes on as long as it can, and the run of a plan returns.
FairSpec == Spec /\ WF_vars(Step)

-----------------------------------------------------------------------------
(* Properties.                                                             *)

\* The type of the state.
TypeOK ==
    /\ control \in {"running", "paused", "aborted"}
    /\ place \in {"loop", "run", "done", "raised"}
    /\ remaining \subseteq Plans
    /\ cur \in Plans \cup {NoPlan}
    /\ reconciled \in [Plans -> {"unset", "yes", "no"}]
    /\ ran \in Seq(Plans) /\ Len(ran) <= Cardinality(Plans)
    /\ ledger.status \in {"none", "completed", "blocked"}

\* The ids plan p rests on, directly or not: the smallest set that is closed.
ancestors(p) ==
    {a \in Known : \A S \in SUBSET Known :
        (deps[p] \subseteq S /\ \A q \in S \cap Plans : deps[q] \subseteq S) => a \in S}

\* Upstream gating (run_chain) is transitive: when a plan runs, every plan it rests
\* on, directly or not, has run before it and was reconciled.  So a plan that rests
\* on itself or on an id of no plan never runs, although chain_order lists it.
AncestorsReconciled ==
    \A i \in DOMAIN ran : \A a \in ancestors(ran[i]) :
        a \in Plans /\ reconciled[a] = "yes" /\ \E j \in 1 .. i - 1 : ran[j] = a

\* No plan is passed over for an upstream that is still to come: when the chain has
\* been walked to the end, each plan that did not run has a dependency that is not
\* reconciled in the end.  This is what chain_order has to be topological for.
NoPlanPassedOver ==
    (place = "done" /\ remaining = {}) =>
        \A p \in Plans : (\A i \in DOMAIN ran : ran[i] # p)
            => \E d \in deps[p] : d \notin Plans \/ reconciled[d] # "yes"

\* The chain ledger is truthful (build_chain_ledger, also after a pause or an abort):
\* `completed' only when every plan ran, in the order the ledger gives, and was
\* reconciled; and a plan held back by another plan is reported by validate_chain.
LedgerTruthful ==
    ledger # NoLedger =>
        /\ ledger.status = "completed" =>
               /\ ran = ledger.execution_order
               /\ \A p \in Plans : reconciled[p] = "yes"
               /\ "UPSTREAM_UNRECONCILED" \notin validate_chain(ledger)
        /\ (\E p \in Plans : \E d \in deps[p] \cap Plans : reconciled[d] # "yes")
               => "UPSTREAM_UNRECONCILED" \in validate_chain(ledger)

\* A chain comes to an end, whatever cycles and unknown ids its depends_on has and
\* whatever the operator does to the control flag.
ChainEnds == <>(place \in {"done", "raised"})

-----------------------------------------------------------------------------
(* The inductive invariant behind the safety properties.                   *)

\* The chain file keeps its type.
FileOK ==
    /\ deps \in [Plans -> SUBSET Known]
    /\ order \in [Plans -> Nat \cup {NoOrder}]
    /\ controlled \in BOOLEAN

HasRun(p) == \E i \in DOMAIN ran : ran[i] = p

\* A plan is visited once: what the loop has not visited has no flag and has not run,
\* what it has visited has one, but for the plan that runs; the flag "yes" is of a
\* plan that has run.  The chain ledger is there at the end only.
Visits ==
    /\ \A p \in remaining : reconciled[p] = "unset" /\ ~HasRun(p)
    /\ \A p \in Plans : reconciled[p] = "yes" => HasRun(p)
    /\ place = "run" => cur \in Plans \ remaining /\ reconciled[cur] = "unset" /\ HasRun(cur)
    /\ place # "raised" => \A p \in Plans \ remaining :
                               reconciled[p] = "unset" => place = "run" /\ p = cur
    /\ Len(ran) + Cardinality(remaining) <= Cardinality(Plans)
    /\ place # "done" => ledger = NoLedger

\* What a plan that has run depends on has run before it, and is reconciled.
Gated ==
    \A i \in DOMAIN ran : \A d \in deps[ran[i]] :
        d \in Plans /\ reconciled[d] = "yes" /\ \E j \in 1 .. i - 1 : ran[j] = d

\* Plans of which none can run: each waits for an id of no plan, or for one of them.
Deadlocked(H) ==
    /\ \A p \in H : ~HasRun(p)
    /\ \A p \in H : \E d \in deps[p] : d \notin Plans \/ d \in H

\* A plan that was skipped waits for an id of no plan, for a deadlocked plan, or for
\* one that is not reconciled and will not be.
SkippedForGood ==
    place # "raised" =>
        \E H \in SUBSET Plans :
            /\ Deadlocked(H)
            /\ \A p \in Plans \ remaining :
                   HasRun(p) \/ \E d \in deps[p] : d \notin Plans \/ d \in H \/ reconciled[d] = "no"

\* As long as no plan was skipped or failed, the plans run in the order of chain_order.
InOrder ==
    (place # "raised" /\ \A p \in Plans : reconciled[p] # "no")
        => ran \o order_from[remaining] = order_from[Plans]

ChainInv ==
    /\ TypeOK /\ FileOK
    /\ Visits /\ Gated /\ SkippedForGood /\ InOrder
    /\ NoPlanPassedOver /\ LedgerTruthful
=============================================================================
