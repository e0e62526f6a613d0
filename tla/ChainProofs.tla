---------------------------- MODULE ChainProofs ----------------------------
(***************************************************************************)
(* Theorems about Chain, for every chain file: however many plans it has,  *)
(* whatever they depend on (themselves and ids of no plan included) and    *)
(* whatever order it gives them.                                           *)
(***************************************************************************)
EXTENDS Chain, FiniteSetTheorems, SequenceTheorems, WellFoundedInduction, TLAPS

\* The least-number principle.
LEMMA LeastNumber ==
    ASSUME NEW T, T \subseteq Nat, T # {}
    PROVE  \E x \in T : \A y \in T : x <= y
  <1> DEFINE R == {ss \in Nat \X Nat : ss[1] < ss[2]}
  <1>1. IsWellFoundedOn(R, Nat)
    BY NatLessThanWellFounded DEF OpToRel
  <1>2. \A m, n \in Nat : <<m, n>> \in R <=> m < n
    OBVIOUS
  <1> HIDE DEF R
  <1>3. PICK x \in T : \A y \in T : ~(<<y, x>> \in R)
    BY <1>1, WFMin
  <1>4. \A y \in T : ~(y < x)
    BY <1>2, <1>3
  <1>5. x \in Nat /\ \A y \in T : y \in Nat
    OBVIOUS
  <1> QED
    BY <1>4, <1>5

-----------------------------------------------------------------------------
(* chain_order.                                                            *)

\* first chooses a member, because the sort key of chain_order is well-founded.
LEMMA FirstIn ==
    ASSUME FileOK, NEW S \in SUBSET Plans, S # {}
    PROVE  first(S) \in S
  <1>0. Plans \subseteq Nat
    BY ChainAssumption
  <1>k. \A p \in S : key(p) \in Nat
    BY <1>0 DEF FileOK, key, NoOrder
  <1> DEFINE K == {key(p) : p \in S}
  <1>1. PICK k \in K : \A l \in K : k <= l
    <2>1. K # {} /\ K \in SUBSET Nat
      BY <1>k
    <2> HIDE DEF K
    <2> QED
      BY <2>1, LeastNumber
  <1> DEFINE M == {p \in S : key(p) = k}
  <1>2. M # {} /\ M \subseteq Nat
    BY <1>0
  <1>3. PICK p \in M : \A q \in M : p <= q
    BY <1>2, LeastNumber
  <1>4. \A q \in S : before(p, q)
    <2> SUFFICES ASSUME NEW q \in S PROVE before(p, q)
      OBVIOUS
    <2>1. k \in Nat /\ key(q) \in Nat /\ k <= key(q) /\ key(p) = k
      BY <1>1, <1>3, <1>k
    <2>2. key(q) = k => p <= q
      BY <1>3
    <2> QED
      BY <2>1, <2>2 DEF before
  <1> QED
    BY <1>3, <1>4 DEF first

\* chain_next is one of the plans that are left; its dependencies are not among them,
\* unless each of these plans has one that is or that is no plan.
LEMMA NextIn ==
    ASSUME FileOK, NEW S \in SUBSET Plans, S # {}
    PROVE  /\ chain_next(S) \in S
           /\ \/ deps[chain_next(S)] \subseteq Plans \ S
              \/ \A p \in S : \E d \in deps[p] : d \notin Plans \/ d \in S
  <1> DEFINE ready == {p \in S : deps[p] \subseteq Plans \ S}
  <1>1. CASE ready # {}
    <2>1. first(ready) \in ready
      BY <1>1, FirstIn
    <2>2. chain_next(S) = first(ready)
      BY <1>1 DEF chain_next
    <2> QED
      BY <2>1, <2>2
  <1>2. CASE ready = {}
    <2>1. chain_next(S) = first(S) /\ first(S) \in S
      BY <1>2, FirstIn DEF chain_next
    <2>2. \A p \in S : \E d \in deps[p] : d \notin Plans \ S
      BY <1>2
    <2> QED
      BY <2>1, <2>2
  <1> QED
    BY <1>1, <1>2

\* The equation order_from is to solve.
OrderEquation(f, D) ==
    f = [S \in D |-> IF S = {} THEN <<>> ELSE <<chain_next(S)>> \o f[S \ {chain_next(S)}]]

UpTo(n) == {S \in SUBSET Plans : Cardinality(S) <= n}

\* What is left when a plan is taken from a set of plans.
LEMMA OneLess ==
    ASSUME FileOK, NEW S \in SUBSET Plans, S # {}
    PROVE  LET R == S \ {chain_next(S)}
           IN  /\ R \in SUBSET Plans
               /\ Cardinality(R) \in Nat /\ Cardinality(S) = Cardinality(R) + 1
  <1>1. IsFiniteSet(S)
    BY ChainAssumption, FS_Subset
  <1>2. chain_next(S) \in S
    BY NextIn
  <1> DEFINE R == S \ {chain_next(S)}
  <1>3. IsFiniteSet(R) /\ Cardinality(R) = Cardinality(S) - 1
    BY <1>1, <1>2, FS_RemoveElement
  <1>4. Cardinality(R) \in Nat /\ Cardinality(S) \in Nat
    BY <1>1, <1>3, FS_CardinalityType
  <1> QED
    BY <1>3, <1>4

\* The equation has a solution on the sets of at most n plans: otherwise there is a
\* least n for which it has none, and one step extends the solution for n - 1.
LEMMA OrderExists ==
    ASSUME FileOK, NEW n \in Nat
    PROVE  \E f : OrderEquation(f, UpTo(n))
  <1> DEFINE Bad == {m \in Nat : ~\E f : OrderEquation(f, UpTo(m))}
  <1> SUFFICES ASSUME Bad # {} PROVE FALSE
    OBVIOUS
  <1>1. PICK m \in Bad : \A l \in Bad : m <= l
    BY LeastNumber
  <1>2. \A S \in SUBSET Plans : Cardinality(S) \in Nat /\ (Cardinality(S) = 0 <=> S = {})
    BY ChainAssumption, FS_Subset, FS_CardinalityType, FS_EmptySet
  <1>3. CASE m = 0
    <2> DEFINE g == [S \in UpTo(0) |-> <<>>]
    <2>1. OrderEquation(g, UpTo(0))
      BY <1>2 DEF UpTo, OrderEquation
    <2> QED
      BY <1>3, <2>1
  <1>4. CASE m # 0
    <2>1. m - 1 \in Nat /\ m - 1 \notin Bad
      BY <1>1, <1>4
    <2>2. PICK f : OrderEquation(f, UpTo(m - 1))
      BY <2>1
    <2> DEFINE body(S) == IF S = {} THEN <<>> ELSE <<chain_next(S)>> \o f[S \ {chain_next(S)}]
    <2> DEFINE g == [S \in UpTo(m) |-> body(S)]
    <2>3. \A S \in UpTo(m - 1) : f[S] = body(S) /\ S \in UpTo(m)
      <3>1. \A S \in UpTo(m - 1) : f[S] = body(S)
        BY <2>2 DEF OrderEquation
      <3>2. \A S \in UpTo(m - 1) : S \in UpTo(m)
        BY <1>2, <2>1 DEF UpTo
      <3> QED
        BY <3>1, <3>2
    <2>4. \A S \in UpTo(m) : S # {} => S \ {chain_next(S)} \in UpTo(m - 1)
      BY OneLess DEF UpTo
    <2>5. \A S \in UpTo(m) : S # {} => g[S \ {chain_next(S)}] = f[S \ {chain_next(S)}]
      BY <2>3, <2>4
    <2>6. OrderEquation(g, UpTo(m))
      BY <2>5 DEF OrderEquation
    <2> QED
      BY <2>6
  <1> QED
    BY <1>3, <1>4

\* order_from unfolds as it is written: the first of the order is chain_next, the
\* rest the order of the plans that are left.
LEMMA OrderUnfolds ==
    ASSUME FileOK
    PROVE  /\ order_from[{}] = <<>>
           /\ \A S \in (SUBSET Plans) \ {{}} :
                  order_from[S] = <<chain_next(S)>> \o order_from[S \ {chain_next(S)}]
  <1>1. Cardinality(Plans) \in Nat /\ \A S \in SUBSET Plans : Cardinality(S) <= Cardinality(Plans)
    BY ChainAssumption, FS_Subset, FS_CardinalityType
  <1>2. UpTo(Cardinality(Plans)) = SUBSET Plans
    BY <1>1 DEF UpTo
  <1>3. PICK f : OrderEquation(f, SUBSET Plans)
    BY <1>1, <1>2, OrderExists
  <1>4. OrderEquation(order_from, SUBSET Plans)
    BY <1>3 DEF OrderEquation, order_from
  <1>5. \A S \in SUBSET Plans :
           order_from[S] = IF S = {} THEN <<>> ELSE <<chain_next(S)>> \o order_from[S \ {chain_next(S)}]
    BY <1>4 DEF OrderEquation
  <1> QED
    BY <1>5

\* The order lists plans.
LEMMA OrderType ==
    ASSUME FileOK, NEW S \in SUBSET Plans
    PROVE  order_from[S] \in Seq(Plans)
  <1> DEFINE Bad == {n \in Nat : \E T \in SUBSET Plans :
                         Cardinality(T) = n /\ order_from[T] \notin Seq(Plans)}
  <1>1. \A T \in SUBSET Plans : Cardinality(T) \in Nat
    BY ChainAssumption, FS_Subset, FS_CardinalityType
  <1> SUFFICES ASSUME Bad # {} PROVE FALSE
    BY <1>1
  <1>2. PICK m \in Bad : \A l \in Bad : m <= l
    BY LeastNumber
  <1>3. PICK T \in SUBSET Plans : Cardinality(T) = m /\ order_from[T] \notin Seq(Plans)
    OBVIOUS
  <1>4. T # {}
    <2>1. <<>> \in Seq(Plans)
      OBVIOUS
    <2> QED
      BY <1>3, <2>1, OrderUnfolds
  <1> DEFINE R == T \ {chain_next(T)}
  <1>5. R \in SUBSET Plans /\ Cardinality(R) \in Nat /\ m = Cardinality(R) + 1
    BY <1>3, <1>4, OneLess
  <1>6. Cardinality(R) \notin Bad
    <2>1. ~(m <= Cardinality(R))
      BY <1>5
    <2> QED
      BY <1>2, <2>1
  <1>7. order_from[R] \in Seq(Plans)
    BY <1>5, <1>6
  <1>8. chain_next(T) \in Plans
    BY <1>4, NextIn
  <1>9. <<chain_next(T)>> \o order_from[R] \in Seq(Plans)
    BY <1>7, <1>8
  <1> QED
    BY <1>3, <1>4, <1>9, OrderUnfolds

\* The order depends on the chain file only.
LEMMA OrderSame ==
    ASSUME deps' = deps, order' = order
    PROVE  order_from' = order_from
  BY DEF order_from, chain_next, first, before, key

\* The invariant at the start.
LEMMA InitInv == Init => ChainInv
  <1> SUFFICES ASSUME Init PROVE ChainInv
    OBVIOUS
  <1> USE DEF Init
  <1>1. FileOK
    BY ChainAssumption DEF FileOK
  <1>2. Cardinality(Plans) \in Nat
    BY ChainAssumption, FS_CardinalityType
  <1>3. ran \in Seq(Plans) /\ Len(ran) = 0 /\ DOMAIN ran = {}
    OBVIOUS
  <1>4. TypeOK
    BY <1>2, <1>3 DEF TypeOK, NoLedger
  <1>5. Visits
    BY <1>2, <1>3 DEF Visits, HasRun
  <1>6. Gated
    BY <1>3 DEF Gated
  <1>7. SkippedForGood
    <2>1. Deadlocked({})
      BY DEF Deadlocked
    <2> QED
      BY <2>1 DEF SkippedForGood
  <1>8. InOrder
    <2>1. order_from[Plans] \in Seq(Plans)
      BY <1>1, OrderType
    <2>2. <<>> \o order_from[Plans] = order_from[Plans]
      BY <2>1
    <2> QED
      BY <2>2 DEF InOrder
  <1>9. NoPlanPassedOver /\ LedgerTruthful
    BY DEF NoPlanPassedOver, LedgerTruthful
  <1> QED
    BY <1>1, <1>4, <1>5, <1>6, <1>7, <1>8, <1>9 DEF ChainInv

\* A plan is skipped.
LEMMA SkipKeeps ==
    ASSUME ChainInv, NEW p \in Plans, SkipPlan(p)
    PROVE  ChainInv'
  <1> USE DEF ChainInv
  <1>0. /\ place = "loop" /\ remaining # {} /\ p = chain_next(remaining)
        /\ remaining' = remaining \ {p}
        /\ ~upstream_reconciled(p)
        /\ reconciled' = [reconciled EXCEPT ![p] = "no"]
        /\ UNCHANGED <<deps, order, iplans, leases, controlled, control, place, cur, ran, ledger>>
    BY DEF SkipPlan, Visit, fileVars
  <1>1. p \in remaining /\ remaining \subseteq Plans
    BY <1>0, NextIn DEF TypeOK
  <1>2. /\ reconciled \in [Plans -> {"unset", "yes", "no"}]
        /\ reconciled[p] = "unset" /\ reconciled'[p] = "no"
        /\ \A q \in Plans \ {p} : reconciled'[q] = reconciled[q]
    BY <1>0, <1>1 DEF TypeOK, Visits
  <1>3. \A q : HasRun(q)' <=> HasRun(q)
    BY <1>0 DEF HasRun
  <1>4. TypeOK' /\ FileOK'
    BY <1>0, <1>1, <1>2 DEF TypeOK, FileOK
  <1>5. Visits'
    <2>1. Len(ran') + Cardinality(remaining') <= Cardinality(Plans)
      <3>1. IsFiniteSet(remaining)
        BY <1>1, ChainAssumption, FS_Subset
      <3>2. Cardinality(remaining') = Cardinality(remaining) - 1 /\ Cardinality(remaining) \in Nat
        BY <1>0, <1>1, <3>1, FS_RemoveElement, FS_CardinalityType
      <3>3. Cardinality(Plans) \in Nat /\ Len(ran) \in Nat
        BY ChainAssumption, FS_CardinalityType DEF TypeOK
      <3> QED
        BY <1>0, <3>2, <3>3 DEF Visits
    <2>2. \A q \in Plans : reconciled'[q] = "yes" => reconciled[q] = "yes"
      BY <1>2
    <2> QED
      BY <1>0, <1>1, <1>2, <1>3, <2>1, <2>2 DEF Visits
  <1>6. Gated'
    <2>1. \A d \in Plans : reconciled[d] = "yes" => reconciled'[d] = "yes"
      BY <1>2
    <2> QED
      BY <1>0, <2>1 DEF Gated
  <1>7. SkippedForGood'
    <2>1. PICK H \in SUBSET Plans :
            /\ Deadlocked(H)
            /\ \A q \in Plans \ remaining :
                   HasRun(q) \/ \E d \in deps[q] : d \notin Plans \/ d \in H \/ reconciled[d] = "no"
      BY <1>0 DEF SkippedForGood
    <2> DEFINE Waits(q, G) == \E d \in deps[q] : d \notin Plans \/ d \in G \/ reconciled'[d] = "no"
    <2>n. \A q \in Plans \ remaining : HasRun(q) \/ Waits(q, H)
      <3>1. \A d : (d \notin Plans \/ d \in H \/ reconciled[d] = "no")
                     => (d \notin Plans \/ d \in H \/ reconciled'[d] = "no")
        BY <1>2
      <3> QED
        BY <2>1, <3>1
    <2>m. Plans \ remaining' = (Plans \ remaining) \cup {p}
      BY <1>0, <1>1
    <2>2. CASE deps[p] \subseteq Plans \ remaining
      <3>1. PICK d \in deps[p] : d \notin Plans \/ reconciled[d] # "yes"
        BY <1>0 DEF upstream_reconciled
      <3>2. d \in Plans \ remaining /\ reconciled[d] = "no"
        BY <1>0, <1>2, <2>2, <3>1 DEF Visits
      <3>3. Deadlocked(H)'
        BY <1>0, <1>3, <2>1 DEF Deadlocked
      <3>4. Waits(p, H)
        BY <1>2, <1>1, <3>2
      <3>5. \A q \in Plans \ remaining' : HasRun(q)' \/ Waits(q, H)
        BY <1>3, <2>m, <2>n, <3>4
      <3> QED
        BY <1>0, <3>3, <3>5 DEF SkippedForGood
    <2>3. CASE \A q \in remaining : \E d \in deps[q] : d \notin Plans \/ d \in remaining
      <3>g. PICK G : G = H \cup remaining
        OBVIOUS
      <3>1. Deadlocked(G)'
        BY <1>0, <1>3, <2>1, <2>3, <3>g DEF Deadlocked, Visits
      <3>2. \A q \in Plans \ remaining' : HasRun(q)' \/ Waits(q, G)
        <4>1. Waits(p, G)
          BY <1>1, <2>3, <3>g
        <4>2. \A q \in Plans \ remaining : HasRun(q) \/ Waits(q, G)
          BY <2>n, <3>g
        <4> QED
          BY <1>3, <2>m, <4>1, <4>2
      <3>3. G \in SUBSET Plans
        BY <1>1, <3>g
      <3> QED
        BY <1>0, <3>1, <3>2, <3>3 DEF SkippedForGood
    <2> QED
      BY <1>0, <1>1, <2>2, <2>3, NextIn
  <1>8. InOrder'
    BY <1>2 DEF InOrder
  <1>9. NoPlanPassedOver' /\ LedgerTruthful'
    BY <1>0 DEF NoPlanPassedOver, LedgerTruthful, Visits
  <1> QED
    BY <1>4, <1>5, <1>6, <1>7, <1>8, <1>9

\* The run of a plan begins, or run_chain raises on its manifest.
LEMMA StartKeeps ==
    ASSUME ChainInv, NEW p \in Plans, StartPlan(p)
    PROVE  ChainInv'
  <1> USE DEF ChainInv
  <1>0. /\ place = "loop" /\ remaining # {} /\ p = chain_next(remaining)
        /\ remaining' = remaining \ {p}
        /\ upstream_reconciled(p)
        /\ UNCHANGED <<deps, order, iplans, leases, controlled, control, reconciled, ledger>>
        /\ \/ place' = "run" /\ cur' = p /\ ran' = Append(ran, p)
           \/ place' = "raised" /\ cur' = cur /\ ran' = ran
    BY DEF StartPlan, Visit, fileVars
  <1>1. p \in remaining /\ remaining \subseteq Plans
    BY <1>0, NextIn DEF TypeOK
  <1>2. reconciled \in [Plans -> {"unset", "yes", "no"}] /\ reconciled[p] = "unset"
    BY <1>1 DEF TypeOK, Visits
  <1>t. ran \in Seq(Plans) /\ Len(ran) \in Nat /\ DOMAIN ran = 1 .. Len(ran)
    BY DEF TypeOK
  <1>c. Len(ran) + 1 + Cardinality(remaining') <= Cardinality(Plans) /\ Cardinality(remaining') \in Nat
    <2>1. IsFiniteSet(remaining)
      BY <1>1, ChainAssumption, FS_Subset
    <2>2. Cardinality(remaining') = Cardinality(remaining) - 1 /\ Cardinality(remaining) \in Nat
      BY <1>0, <1>1, <2>1, FS_RemoveElement, FS_CardinalityType
    <2>3. IsFiniteSet(remaining') /\ Cardinality(remaining') \in Nat
      BY <1>0, <2>1, FS_RemoveElement, FS_CardinalityType
    <2>4. Cardinality(Plans) \in Nat
      BY ChainAssumption, FS_CardinalityType
    <2> QED
      BY <1>t, <2>2, <2>3, <2>4 DEF Visits
  <1>n. Cardinality(Plans) \in Nat
    BY ChainAssumption, FS_CardinalityType
  <1>3. CASE place' = "raised" /\ cur' = cur /\ ran' = ran
    <2>1. \A q : HasRun(q)' <=> HasRun(q)
      BY <1>3 DEF HasRun
    <2>2. TypeOK' /\ FileOK'
      BY <1>0, <1>1, <1>3 DEF TypeOK, FileOK
    <2>3. Visits'
      <3>1. Len(ran') + Cardinality(remaining') <= Cardinality(Plans)
        BY <1>3, <1>c, <1>t, <1>n
      <3> QED
        BY <1>0, <1>1, <1>3, <2>1, <3>1 DEF Visits
    <2>4. Gated' /\ SkippedForGood' /\ InOrder'
      BY <1>0, <1>3 DEF Gated, SkippedForGood, InOrder
    <2>5. NoPlanPassedOver' /\ LedgerTruthful'
      BY <1>0, <1>3 DEF NoPlanPassedOver, LedgerTruthful, Visits
    <2> QED
      BY <2>2, <2>3, <2>4, <2>5
  <1>4. CASE place' = "run" /\ cur' = p /\ ran' = Append(ran, p)
    <2>1. /\ ran' \in Seq(Plans) /\ Len(ran') = Len(ran) + 1
          /\ DOMAIN ran' = 1 .. Len(ran) + 1
          /\ \A i \in 1 .. Len(ran) : ran'[i] = ran[i]
          /\ ran'[Len(ran) + 1] = p
      BY <1>4, <1>t
    <2> HIDE DEF ChainInv
    <2>2. \A q : HasRun(q)' <=> (HasRun(q) \/ q = p)
      BY <1>t, <2>1 DEF HasRun
    <2> USE DEF ChainInv
    <2>3. TypeOK' /\ FileOK'
      BY <1>0, <1>1, <1>4, <2>1, <1>c, <1>t, <1>n DEF TypeOK, FileOK
    <2>4. Visits'
      <3>1. Len(ran') + Cardinality(remaining') <= Cardinality(Plans)
        BY <2>1, <1>c
      <3> QED
        BY <1>0, <1>1, <1>2, <1>4, <2>2, <3>1 DEF Visits
    <2>5. Gated'
      <3> SUFFICES ASSUME NEW i \in DOMAIN ran', NEW d \in deps[ran'[i]]
                   PROVE  d \in Plans /\ reconciled[d] = "yes" /\ \E j \in 1 .. i - 1 : ran'[j] = d
        BY <1>0 DEF Gated
      <3>1. CASE i = Len(ran) + 1
        <4>1. d \in Plans /\ reconciled[d] = "yes"
          BY <1>0, <2>1, <3>1 DEF upstream_reconciled
        <4>2. PICK j \in DOMAIN ran : ran[j] = d
          BY <4>1 DEF Visits, HasRun
        <4> QED
          BY <1>t, <2>1, <3>1, <4>1, <4>2
      <3>2. CASE i \in 1 .. Len(ran)
        <4>1. /\ d \in Plans /\ reconciled[d] = "yes"
              /\ \E j \in 1 .. i - 1 : ran[j] = d
          BY <1>t, <2>1, <3>2 DEF Gated
        <4> QED
          BY <1>t, <2>1, <3>2, <4>1
      <3> QED
        BY <1>t, <2>1, <3>1, <3>2
    <2>6. SkippedForGood'
      <3>1. PICK H \in SUBSET Plans :
              /\ Deadlocked(H)
              /\ \A q \in Plans \ remaining : HasRun(q)
                    \/ \E d \in deps[q] : d \notin Plans \/ d \in H \/ reconciled[d] = "no"
        BY <1>0 DEF SkippedForGood
      <3>2. p \notin H
        BY <1>0, <3>1 DEF Deadlocked, upstream_reconciled, Visits
      <3>3. Deadlocked(H)'
        BY <1>0, <2>2, <3>1, <3>2 DEF Deadlocked
      <3>4. \A q \in Plans \ remaining' : HasRun(q)'
               \/ \E d \in deps[q] : d \notin Plans \/ d \in H \/ reconciled[d] = "no"
        BY <1>0, <2>2, <3>1
      <3> QED
        BY <1>0, <3>3, <3>4 DEF SkippedForGood
    <2>7. InOrder'
      <3> SUFFICES ASSUME \A q \in Plans : reconciled[q] # "no"
                   PROVE  ran' \o order_from[remaining'] = order_from[Plans]
        BY <1>0, OrderSame DEF InOrder
      <3>1. ran \o order_from[remaining] = order_from[Plans]
        BY <1>0 DEF InOrder
      <3>2. order_from[remaining] = <<p>> \o order_from[remaining']
        BY <1>0, <1>1, OrderUnfolds
      <3>3. order_from[remaining'] \in Seq(Plans)
        BY <1>0, <1>1, OrderType
      <3>4. ASSUME NEW s \in Seq(Plans) PROVE Append(ran, p) \o s = ran \o (<<p>> \o s)
        <4>1. p \in Plans /\ <<p>> \in Seq(Plans)
          OBVIOUS
        <4>2. Append(ran, p) = ran \o <<p>>
          BY <1>t, <4>1, AppendIsConcat
        <4> QED
          BY <1>t, <4>1, <4>2, ConcatAssociative
      <3> QED
        BY <1>4, <3>1, <3>2, <3>3, <3>4
    <2>8. NoPlanPassedOver' /\ LedgerTruthful'
      BY <1>0, <1>4 DEF NoPlanPassedOver, LedgerTruthful, Visits
    <2> QED
      BY <2>3, <2>4, <2>5, <2>6, <2>7, <2>8
  <1> QED
    BY <1>0, <1>3, <1>4

\* The run of a plan returns, with its ledger reconciled or not.
LEMMA ReturnsKeeps ==
    ASSUME ChainInv, NEW ok \in BOOLEAN, PlanReturns(ok)
    PROVE  ChainInv'
  <1> USE DEF ChainInv
  <1>f. PICK v : v = flag(ok)
    OBVIOUS
  <1>0. /\ place = "run" /\ place' = "loop"
        /\ reconciled' = [reconciled EXCEPT ![cur] = v] /\ v \in {"yes", "no"}
        /\ UNCHANGED <<deps, order, iplans, leases, controlled, control, remaining, cur, ran, ledger>>
    BY <1>f DEF PlanReturns, flag, fileVars
  <1>1. cur \in Plans \ remaining /\ reconciled[cur] = "unset" /\ HasRun(cur)
    BY <1>0 DEF Visits
  <1>2. /\ reconciled \in [Plans -> {"unset", "yes", "no"}]
        /\ reconciled'[cur] = v
        /\ \A q \in Plans \ {cur} : reconciled'[q] = reconciled[q]
    BY <1>0, <1>1 DEF TypeOK
  <1>3. \A q : HasRun(q)' <=> HasRun(q)
    BY <1>0 DEF HasRun
  <1>4. TypeOK' /\ FileOK'
    BY <1>0, <1>1, <1>2 DEF TypeOK, FileOK
  <1>5. Visits'
    BY <1>0, <1>1, <1>2, <1>3 DEF Visits
  <1>6. Gated'
    <2>1. \A d \in Plans : reconciled[d] = "yes" => reconciled'[d] = "yes"
      BY <1>1, <1>2
    <2> QED
      BY <1>0, <2>1 DEF Gated
  <1>7. SkippedForGood'
    <2>1. PICK H \in SUBSET Plans :
            /\ Deadlocked(H)
            /\ \A q \in Plans \ remaining :
                   HasRun(q) \/ \E d \in deps[q] : d \notin Plans \/ d \in H \/ reconciled[d] = "no"
      BY <1>0 DEF SkippedForGood
    <2>2. \A d : (d \notin Plans \/ d \in H \/ reconciled[d] = "no")
                   => (d \notin Plans \/ d \in H \/ reconciled'[d] = "no")
      BY <1>1, <1>2
    <2>3. Deadlocked(H)'
      BY <1>0, <1>3, <2>1 DEF Deadlocked
    <2>4. \A q \in Plans \ remaining' : HasRun(q)'
             \/ \E d \in deps[q] : d \notin Plans \/ d \in H \/ reconciled'[d] = "no"
      BY <1>0, <1>3, <2>1, <2>2
    <2> QED
      BY <1>0, <2>3, <2>4 DEF SkippedForGood
  <1>8. InOrder'
    <2>1. (\A q \in Plans : reconciled'[q] # "no") => \A q \in Plans : reconciled[q] # "no"
      BY <1>1, <1>2
    <2> QED
      BY <1>0, <2>1, OrderSame DEF InOrder
  <1>9. NoPlanPassedOver' /\ LedgerTruthful'
    BY <1>0 DEF NoPlanPassedOver, LedgerTruthful, Visits
  <1> QED
    BY <1>4, <1>5, <1>6, <1>7, <1>8, <1>9

\* A step that leaves the chain as it is keeps all of the invariant that does not
\* speak of the end.
LEMMA SameChain ==
    ASSUME ChainInv, place # "raised",
           UNCHANGED <<fileVars, controlled, remaining, cur, reconciled, ran>>
    PROVE  FileOK' /\ Gated' /\ SkippedForGood' /\ InOrder' /\ (\A q : HasRun(q)' <=> HasRun(q))
  <1> USE DEF ChainInv, fileVars
  <1>1. \A q : HasRun(q)' <=> HasRun(q)
    BY DEF HasRun
  <1>2. FileOK' /\ Gated'
    BY DEF FileOK, Gated
  <1>3. \A H : Deadlocked(H)' <=> Deadlocked(H)
    BY <1>1 DEF Deadlocked
  <1>4. SkippedForGood'
    BY <1>1, <1>3 DEF SkippedForGood
  <1>5. InOrder'
    BY OrderSame DEF InOrder
  <1> QED
    BY <1>1, <1>2, <1>4, <1>5

\* An executor raises, or the operator changes the control flag.
LEMMA OthersKeep ==
    ASSUME ChainInv, PlanRaises \/ \E c \in {"running", "paused", "aborted"} : Operate(c)
    PROVE  ChainInv'
  <1> USE DEF ChainInv
  <1>0. /\ place \in {"loop", "run"} /\ place' \in {place, "raised"}
        /\ control' \in {"running", "paused", "aborted"}
        /\ UNCHANGED <<deps, order, iplans, leases, controlled, remaining, cur>>
        /\ UNCHANGED <<reconciled, ran, ledger>>
    BY DEF PlanRaises, Operate, TypeOK, fileVars
  <1>1. /\ FileOK' /\ Gated' /\ SkippedForGood' /\ InOrder'
        /\ \A q : HasRun(q)' <=> HasRun(q)
    BY <1>0, SameChain DEF fileVars
  <1>2. TypeOK'
    BY <1>0 DEF TypeOK
  <1>3. Visits'
    BY <1>0, <1>1 DEF Visits
  <1>4. NoPlanPassedOver' /\ LedgerTruthful'
    BY <1>0 DEF NoPlanPassedOver, LedgerTruthful, Visits
  <1> QED
    BY <1>1, <1>2, <1>3, <1>4

\* run_chain returns: here the two properties of the end are established.
LEMMA FinishKeeps ==
    ASSUME ChainInv, Finish
    PROVE  ChainInv'
  <1> USE DEF ChainInv
  <1>0. /\ place = "loop" /\ place' = "done"
        /\ ledger' = build_chain_ledger
        /\ UNCHANGED <<deps, order, iplans, leases, controlled, control>>
        /\ UNCHANGED <<remaining, cur, reconciled, ran>>
    BY DEF Finish, fileVars
  <1>1. /\ FileOK' /\ Gated' /\ SkippedForGood' /\ InOrder'
        /\ \A q : HasRun(q)' <=> HasRun(q)
    BY <1>0, SameChain DEF fileVars
  <1>2. TypeOK'
    BY <1>0 DEF TypeOK, build_chain_ledger
  <1>3. Visits'
    BY <1>0, <1>1 DEF Visits
  <1>4. NoPlanPassedOver'
    <2> SUFFICES ASSUME remaining = {}, NEW p \in Plans, ~HasRun(p)
                 PROVE  \E d \in deps[p] : d \notin Plans \/ reconciled[d] # "yes"
      BY <1>0 DEF NoPlanPassedOver, HasRun
    <2>1. PICK H \in SUBSET Plans :
            /\ Deadlocked(H)
            /\ \A q \in Plans \ remaining :
                   HasRun(q) \/ \E d \in deps[q] : d \notin Plans \/ d \in H \/ reconciled[d] = "no"
      BY <1>0 DEF SkippedForGood
    <2>2. PICK d \in deps[p] : d \notin Plans \/ d \in H \/ reconciled[d] = "no"
      BY <2>1
    <2>3. d \in H => reconciled[d] # "yes"
      BY <2>1 DEF Deadlocked, Visits
    <2> QED
      BY <2>2, <2>3
  <1>5. LedgerTruthful'
    <2>1. /\ ledger'.status = "completed" <=> all_reconciled
          /\ ledger'.iplan_chain = [p \in Plans |-> reconciled[p] = "yes"]
          /\ ledger'.execution_order = order_from[Plans]
      BY <1>0 DEF build_chain_ledger, chain_order
    <2>2. "UPSTREAM_UNRECONCILED" \in validate_chain(ledger)'
            <=> \E p \in Plans : \E d \in deps[p] \cap Plans : reconciled[d] # "yes"
      <3>1. "UPSTREAM_UNRECONCILED" \in validate_chain(ledger)'
              <=> \E e \in Plans \X Plans : e[2] \in deps[e[1]] /\ ~ledger'.iplan_chain[e[2]]
        BY <1>0 DEF validate_chain, fired
      <3>2. \A d \in Plans : ledger'.iplan_chain[d] <=> reconciled[d] = "yes"
        BY <2>1
      <3>3. ASSUME NEW e \in Plans \X Plans, e[2] \in deps[e[1]], ~ledger'.iplan_chain[e[2]]
            PROVE  \E p \in Plans : \E d \in deps[p] \cap Plans : reconciled[d] # "yes"
        BY <3>2, <3>3
      <3>4. ASSUME NEW p \in Plans, NEW d \in deps[p] \cap Plans, reconciled[d] # "yes"
            PROVE  \E e \in Plans \X Plans : e[2] \in deps[e[1]] /\ ~ledger'.iplan_chain[e[2]]
        <4>1. <<p, d>> \in Plans \X Plans /\ <<p, d>>[1] = p /\ <<p, d>>[2] = d
          OBVIOUS
        <4> QED
          BY <3>2, <3>4, <4>1
      <3> QED
        BY <3>1, <3>3, <3>4
    <2>3. ASSUME all_reconciled PROVE ran = order_from[Plans]
      <3>1. remaining = {}
        BY <2>3 DEF all_reconciled, TypeOK, Visits
      <3>2. ran \o order_from[remaining] = order_from[Plans]
        BY <1>0, <2>3 DEF InOrder, all_reconciled
      <3>3. order_from[remaining] = <<>>
        BY <3>1, OrderUnfolds
      <3>4. ran \in Seq(Plans)
        BY DEF TypeOK
      <3>5. ran \o <<>> = ran
        BY <3>4
      <3> QED
        BY <3>2, <3>3, <3>5
    <2> QED
      BY <1>0, <2>1, <2>2, <2>3 DEF LedgerTruthful, all_reconciled
  <1> QED
    BY <1>1, <1>2, <1>3, <1>4, <1>5

\* ChainInv is inductive.
LEMMA NextKeeps == ChainInv /\ [Next]_vars => ChainInv'
  <1> SUFFICES ASSUME ChainInv, [Next]_vars PROVE ChainInv'
    OBVIOUS
  <1>1. CASE UNCHANGED vars
    <2> USE <1>1 DEF vars, fileVars, ChainInv
    <2>1. \A q : HasRun(q)' <=> HasRun(q)
      BY DEF HasRun
    <2>2. TypeOK' /\ FileOK' /\ Visits' /\ Gated'
      BY <2>1 DEF TypeOK, FileOK, Visits, Gated
    <2>3. \A H : Deadlocked(H)' <=> Deadlocked(H)
      BY <2>1 DEF Deadlocked
    <2>4. SkippedForGood'
      BY <2>1, <2>3 DEF SkippedForGood
    <2>5. InOrder'
      BY OrderSame DEF InOrder
    <2>6. NoPlanPassedOver'
      BY DEF NoPlanPassedOver
    <2>7. LedgerTruthful'
      BY DEF LedgerTruthful, validate_chain, fired, leases_overlap
    <2> QED
      BY <2>2, <2>4, <2>5, <2>6, <2>7
  <1> QED
    BY <1>1, SkipKeeps, StartKeeps, ReturnsKeeps, OthersKeep, FinishKeeps DEF Next, Step

\* Upstream gating is transitive: the plans that ran before ran[i] and are reconciled
\* are closed under depends_on, so they contain all that ran[i] rests on.
LEMMA InvAncestors == ChainInv => AncestorsReconciled
  <1> SUFFICES ASSUME ChainInv, NEW i \in DOMAIN ran, NEW a \in ancestors(ran[i])
               PROVE  a \in Plans /\ reconciled[a] = "yes" /\ \E j \in 1 .. i - 1 : ran[j] = a
    BY DEF AncestorsReconciled
  <1>0. ran \in Seq(Plans) /\ Len(ran) \in Nat /\ DOMAIN ran = 1 .. Len(ran)
    BY DEF ChainInv, TypeOK
  <1>1. \A k \in 1 .. Len(ran) : \A d \in deps[ran[k]] :
           d \in Plans /\ reconciled[d] = "yes" /\ \E j \in 1 .. k - 1 : ran[j] = d
    BY <1>0 DEF ChainInv, Gated
  <1> DEFINE S == {d \in Plans : reconciled[d] = "yes" /\ \E j \in 1 .. i - 1 : ran[j] = d}
  <1>2. deps[ran[i]] \subseteq S
    BY <1>0, <1>1
  <1>3. ASSUME NEW q \in S, NEW d \in deps[q] PROVE d \in S
    <2>1. PICK k \in 1 .. i - 1 : ran[k] = q
      OBVIOUS
    <2>2. k \in 1 .. Len(ran) /\ \A j \in 1 .. k - 1 : j \in 1 .. i - 1
      BY <1>0, <2>1
    <2> QED
      BY <1>1, <1>3, <2>1, <2>2
  <1>4. S \in SUBSET Known
    BY ChainAssumption
  <1>5. a \in S
    BY <1>2, <1>3, <1>4 DEF ancestors
  <1> QED
    BY <1>5

-----------------------------------------------------------------------------
(* The theorems.                                                           *)

\* The state of run_chain keeps its type, and a plan is visited at most once.
THEOREM TypeCorrect == Spec => []TypeOK
  <1>1. ChainInv => TypeOK
    BY DEF ChainInv
  <1> QED
    BY <1>1, InitInv, NextKeeps, PTL DEF Spec

\* Upstream gating (run_chain) is transitive, whatever the file says: a plan runs only
\* after every plan it rests on, directly or not, has run and was reconciled; a plan
\* that rests on itself or on an id of no plan never runs.
THEOREM UpstreamGating == Spec => []AncestorsReconciled
  BY InvAncestors, InitInv, NextKeeps, PTL DEF Spec

\* chain_order is as topological as the file allows: in a chain walked to the end, a
\* plan that did not run waits for something that is not reconciled in the end.
THEOREM NothingPassedOver == Spec => []NoPlanPassedOver
  <1>1. ChainInv => NoPlanPassedOver
    BY DEF ChainInv
  <1> QED
    BY <1>1, InitInv, NextKeeps, PTL DEF Spec

\* The chain ledger tells what happened: `completed' only when all plans ran in the
\* order chain_order gives and were reconciled; a plan held back is reported.
THEOREM LedgerTells == Spec => []LedgerTruthful
  <1>1. ChainInv => LedgerTruthful
    BY DEF ChainInv
  <1> QED
    BY <1>1, InitInv, NextKeeps, PTL DEF Spec
=============================================================================
