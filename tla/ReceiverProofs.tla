--------------------------- MODULE ReceiverProofs ---------------------------
(***************************************************************************)
(* The receiver's invariants, for any number of tasks, plans, threads,     *)
(* slots, faults and crashes.                                              *)
(***************************************************************************)
EXTENDS Receiver, FiniteSetTheorems, TLAPS

USE DEF At

\* Where a thread can be, which task it is about, what its drain reported.
ThreadStates == [pc : Places, key : Keys \cup {NoKey}, ok : BOOLEAN]

\* A step of thread t: it ends at pc, about task k, and no other thread moves.
Moves(t, pc, k) ==
    /\ thread' \in [Threads -> ThreadStates]
    /\ thread'[t].pc = pc /\ thread'[t].key = k
    /\ \A u \in Threads \ {t} : thread'[u] = thread[u]

-----------------------------------------------------------------------------
(* Threads and slots.                                                      *)

\* Goto changes the place of one thread.
LEMMA GotoMoves ==
    ASSUME TypeOK, NEW t \in Threads, NEW pc \in Places, Goto(t, pc)
    PROVE  Moves(t, pc, thread[t].key)
  BY DEF TypeOK, Goto, Moves, ThreadStates

\* A thread that ends leaves the others alone.
LEMMA IdleMoves ==
    ASSUME TypeOK, NEW t \in Threads, thread' = [thread EXCEPT ![t] = Idle]
    PROVE  Moves(t, "idle", NoKey)
  BY DEF TypeOK, Idle, Moves, ThreadStates, Places

\* The threads in flight are finitely many.
LEMMA FlightFinite == IsFiniteSet(InFlight) /\ Cardinality(InFlight) \in Nat
  <1>1. InFlight \subseteq Threads
    BY DEF InFlight
  <1>2. IsFiniteSet(InFlight)
    BY <1>1, FS_Subset, ReceiverAssumption
  <1>3. QED
    BY <1>2, FS_CardinalityType

\* A thread that keeps its slot changes nothing about the slots.
LEMMA FlightSame ==
    ASSUME NEW t \in Threads, NEW pc, NEW k, Moves(t, pc, k),
           pc \in Holding <=> thread[t].pc \in Holding
    PROVE  InFlight' = InFlight
  <1>1. \A u \in Threads : thread'[u].pc \in Holding <=> thread[u].pc \in Holding
    BY DEF Moves
  <1>2. QED
    BY <1>1 DEF InFlight

\* A thread that takes a slot is one more in flight.
LEMMA FlightMore ==
    ASSUME NEW t \in Threads, NEW pc \in Holding, NEW k, Moves(t, pc, k), thread[t].pc \notin Holding
    PROVE  Cardinality(InFlight') = Cardinality(InFlight) + 1
  <1>1. InFlight' = InFlight \cup {t} /\ t \notin InFlight
    <2>1. \A u \in Threads \ {t} : thread'[u].pc \in Holding <=> thread[u].pc \in Holding
      BY DEF Moves
    <2>2. QED
      BY <2>1 DEF InFlight, Moves
  <1>2. QED
    BY <1>1, FlightFinite, FS_AddElement

\* A thread that gives its slot back is one less.
LEMMA FlightLess ==
    ASSUME NEW t \in Threads, NEW pc, NEW k, Moves(t, pc, k), pc \notin Holding,
           thread[t].pc \in Holding
    PROVE  /\ Cardinality(InFlight') = Cardinality(InFlight) - 1
           /\ Cardinality(InFlight) >= 1
  <1>1. InFlight' = InFlight \ {t} /\ t \in InFlight
    <2>1. \A u \in Threads \ {t} : thread'[u].pc \in Holding <=> thread[u].pc \in Holding
      BY DEF Moves
    <2>2. QED
      BY <2>1 DEF InFlight, Moves
  <1>2. Cardinality(InFlight') = Cardinality(InFlight) - 1
    BY <1>1, FlightFinite, FS_RemoveElement
  <1>3. InFlight # {}
    BY <1>1
  <1>4. Cardinality(InFlight) # 0
    BY <1>3, FlightFinite, FS_EmptySet
  <1>5. QED
    BY <1>2, <1>4, FlightFinite

-----------------------------------------------------------------------------
(* What a step of one thread keeps.                                        *)

\* A thread that keeps its slot, or that has none before and after, keeps the count.
LEMMA SlotsKept ==
    ASSUME IInv, NEW t \in Threads, NEW pc, NEW k, Moves(t, pc, k),
           pc \in Holding <=> thread[t].pc \in Holding, UNCHANGED pool
    PROVE  SlotsExact'
  <1>1. InFlight' = InFlight
    BY FlightSame
  <1> QED
    BY <1>1 DEF IInv, SlotsExact, pool

\* Where rows only move forward, no run is added and none deleted.
LEMMA RunsKept ==
    ASSUME IInv, UNCHANGED <<runs, pruned>>,
           \A k \in Keys : row'[k] \in {"none", "accepted"} => row[k] \in {"none", "accepted"}
    PROVE  RunsInv'
  BY DEF IInv, TypeOK, RunsInv

\* A thread that does not take over a task leaves one worker per task.
LEMMA UniqueKept ==
    ASSUME IInv, NEW t \in Threads, NEW pc, NEW k, Moves(t, pc, k),
           pc \in Working => thread[t].pc \in Working /\ k = thread[t].key
    PROVE  UniqueInv'
  BY DEF IInv, UniqueInv, Moves

\* A thread that leaves the directories alone, does not begin to run and keeps working
\* if it was, leaves every clone to its owner.
LEMMA CloneKept ==
    ASSUME IInv, NEW t \in Threads, NEW pc, NEW k, Moves(t, pc, k), UNCHANGED <<dir, crashes>>,
           pc # "run", thread[t].pc \in Working => pc \in Working /\ k = thread[t].key
    PROVE  CloneOwned' /\ CloneInv'
  <1>1. CloneInv'
    BY DEF IInv, CloneInv, Moves
  <1>2. ASSUME NEW u \in Threads, thread'[u].pc = "run", thread'[u].key \in Cloned,
               \A j \in Cloned : (DirOf[j] = DirOf[thread'[u].key] => j = thread'[u].key)
        PROVE  dir'[DirOf[thread'[u].key]] = thread'[u].key
    <2>1. thread'[u] = thread[u]
      BY <1>2 DEF Moves
    <2> QED
      BY <1>2, <2>1 DEF IInv, CloneOwned
  <1>3. ASSUME \A u \in Threads : thread'[u].pc = "idle", crashes' = 0, NEW d \in Dirs
        PROVE  dir'[d] = NoKey
    BY <1>1, <1>3 DEF CloneInv, Working, Owning
  <1> QED
    BY <1>1, <1>2, <1>3 DEF CloneOwned

\* The part of the invariant about rows, slots and threads.
Control ==
    /\ SlotsExact /\ RunsInv /\ OldInv /\ ThreadInv /\ UniqueInv /\ OwnerInv /\ AckedAccounted

\* A thread that goes on with its task and touches no row keeps it.
LEMMA OwningStep ==
    ASSUME IInv, NEW t \in Threads, NEW pc \in Owning, Moves(t, pc, thread[t].key),
           thread[t].pc \in Owning,
           UNCHANGED <<tables, pool, acked, lost, runs, pruned>>
    PROVE  Control'
  <1>1. SlotsExact'
    BY SlotsKept DEF Owning, Holding, Places
  <1>2. RunsInv'
    BY RunsKept DEF tables
  <1>3. UniqueInv'
    BY UniqueKept DEF Working
  <1>4. OldInv'
    BY DEF IInv, OldInv, Moves, tables
  <1>5. ThreadInv'
    BY DEF IInv, ThreadInv, Moves, Working, Owning, tables
  <1>6. OwnerInv'
    BY DEF IInv, OwnerInv, Moves, tables
  <1>7. AckedAccounted'
    BY DEF IInv, AckedAccounted, Moves, Owning, tables
  <1> QED
    BY <1>1, <1>2, <1>3, <1>4, <1>5, <1>6, <1>7 DEF Control

\* A thread that settles its task, or could not, and cleans up after it.
LEMMA SettleStep ==
    ASSUME IInv, NEW t \in Threads, Moves(t, "prune", thread[t].key), thread[t].pc \in Owning,
           \/ /\ \E s \in Settled : row' = [row EXCEPT ![thread[t].key] = s]
              /\ UNCHANGED lost
           \/ UNCHANGED row /\ lost' = lost \cup {thread[t].key},
           UNCHANGED <<old, pool, acked, runs, pruned>>
    PROVE  Control' /\ row' \in [Keys -> Statuses] /\ lost' \subseteq Keys
  <1> DEFINE k == thread[t].key
  <1>0. k \in Keys /\ row[k] = "running" /\ k \notin old
    BY DEF IInv, ThreadInv, OldInv, Owning
  <1>t. row \in [Keys -> Statuses] /\ lost \subseteq Keys /\ acked \subseteq Keys /\ old \subseteq Keys
    BY DEF IInv, TypeOK
  <1>r. /\ row' \in [Keys -> Statuses] /\ lost' \subseteq Keys /\ lost \subseteq lost'
        /\ row'[k] \in {"running", "done", "failed"}
        /\ row'[k] = "running" => k \in lost'
        /\ \A j \in Keys \ {k} : row'[j] = row[j]
    BY <1>0, <1>t DEF Statuses, Settled
  <1> HIDE DEF k
  <1>m. /\ thread'[t].pc = "prune" /\ thread'[t].key = k /\ thread[t].key = k
        /\ \A u \in Threads \ {t} : thread'[u] = thread[u]
    BY DEF Moves, k
  <1>1. SlotsExact'
    BY SlotsKept DEF Owning, Holding, Places
  <1>2. RunsInv'
    BY <1>0, <1>r, RunsKept
  <1>3. UniqueInv'
    BY UniqueKept DEF Working
  <1>4. OldInv'
    BY <1>0, <1>r, <1>m, <1>t DEF IInv, OldInv
  <1>5. ThreadInv'
    <2>1. SUFFICES ASSUME NEW u \in Threads, thread'[u].pc # "idle"
                   PROVE  /\ thread'[u].key \in Keys
                          /\ row'[thread'[u].key] # "none"
                          /\ thread'[u].pc \in Working => row'[thread'[u].key] # "accepted"
                          /\ thread'[u].pc \in Owning => row'[thread'[u].key] = "running"
      BY DEF ThreadInv
    <2>2. CASE u = t
      BY <2>2, <1>0, <1>r, <1>m DEF Owning
    <2>3. CASE u # t
      <3>1. thread'[u] = thread[u]
        BY <2>3, <1>m
      <3>2. thread[u].pc \in Owning => thread[u].key # k
        BY <2>3, <1>m DEF IInv, UniqueInv, Working
      <3> QED
        BY <3>1, <3>2, <2>1, <1>r DEF IInv, ThreadInv
    <2> QED
      BY <2>2, <2>3
  <1>6. OwnerInv'
    <2>1. SUFFICES ASSUME NEW j \in Keys, row'[j] = "running", j \notin lost'
                   PROVE  \E u \in Threads : thread'[u].pc \in Owning /\ thread'[u].key = j
      BY DEF OwnerInv
    <2>2. j # k /\ row[j] = "running" /\ j \notin lost
      BY <2>1, <1>r
    <2>3. PICK u \in Threads : thread[u].pc \in Owning /\ thread[u].key = j
      BY <2>2 DEF IInv, OwnerInv
    <2> QED
      BY <2>2, <2>3, <1>m
  <1>7. AckedAccounted'
    <2>1. SUFFICES ASSUME NEW j \in acked
                   PROVE  \/ row'[j] \in {"running", "done", "failed"}
                          \/ \E u \in Threads : thread'[u].pc = "claim" /\ thread'[u].key = j
                          \/ j \in lost'
      BY DEF AckedAccounted
    <2>2. CASE j = k
      BY <2>2, <1>r
    <2>3. CASE j # k
      BY <2>3, <1>r, <1>m, <1>t DEF IInv, AckedAccounted
    <2> QED
      BY <2>2, <2>3
  <1> QED
    BY <1>1, <1>2, <1>3, <1>4, <1>5, <1>6, <1>7, <1>r DEF Control

-----------------------------------------------------------------------------
(* The sweep.                                                              *)

\* The sweep deletes settled rows no thread is about, and nothing else.
LEMMA Sweep ==
    ASSUME IInv, prune_settled
    PROVE  /\ row' \in [Keys -> Statuses] /\ pruned' \in [Keys -> Nat]
           /\ old' \subseteq old /\ acked' \subseteq acked
           /\ \A k \in Keys :
                \/ row'[k] = row[k] /\ pruned'[k] = pruned[k]
                \/ /\ row'[k] = "none" /\ pruned'[k] = pruned[k] + 1
                   /\ row[k] \in Settled /\ k \notin old' /\ k \notin acked'
                   /\ \A t \in Threads : thread[t].key # k
  BY DEF IInv, TypeOK, OldInv, prune_settled, Statuses, Settled

\* With no thread moving, the sweep keeps what the invariant says of rows and runs.
LEMMA SweepRuns ==
    ASSUME IInv, prune_settled, UNCHANGED runs
    PROVE  RunsInv'
  <1>1. runs \in [Keys -> Nat] /\ pruned \in [Keys -> Nat] /\ RunsInv
    BY DEF IInv, TypeOK
  <1>2. SUFFICES ASSUME NEW k \in Keys
                 PROVE  runs[k] <= pruned'[k] + (IF row'[k] \in {"none", "accepted"} THEN 0 ELSE 1)
    BY DEF RunsInv
  <1>3. runs[k] \in Nat /\ pruned[k] \in Nat
    BY <1>1
  <1>4. runs[k] <= pruned[k] + (IF row[k] \in {"none", "accepted"} THEN 0 ELSE 1)
    BY <1>1 DEF RunsInv
  <1>5. CASE row'[k] = row[k] /\ pruned'[k] = pruned[k]
    BY <1>4, <1>5
  <1>6. CASE row'[k] = "none" /\ pruned'[k] = pruned[k] + 1 /\ row[k] \in Settled
    BY <1>3, <1>4, <1>6 DEF Settled
  <1> QED
    BY <1>5, <1>6, Sweep

\* What the sweep leaves of the other parts, when a thread that worked is done with its
\* task or no thread moves.
LEMMA SweepRows ==
    ASSUME IInv, prune_settled, UNCHANGED lost,
           \/ UNCHANGED thread
           \/ \E t \in Threads : Moves(t, "release", thread[t].key) /\ thread[t].pc = "prune"
    PROVE  OldInv' /\ ThreadInv' /\ OwnerInv' /\ AckedAccounted'
  <1>0. /\ row \in [Keys -> Statuses] /\ old \subseteq Keys /\ acked \subseteq Keys
        /\ OldInv /\ ThreadInv /\ OwnerInv /\ AckedAccounted
    BY DEF IInv, TypeOK
  <1>1. \A u \in Threads :
            /\ thread'[u].key = thread[u].key
            /\ \/ thread'[u] = thread[u]
               \/ thread[u].pc = "prune" /\ thread'[u].pc = "release"
    BY DEF Moves
  <1>2. OldInv'
    BY <1>0, <1>1, Sweep DEF OldInv, Settled
  <1>3. ThreadInv'
    <2>1. SUFFICES ASSUME NEW u \in Threads, thread'[u].pc # "idle"
                   PROVE  /\ thread'[u].key \in Keys
                          /\ row'[thread'[u].key] # "none"
                          /\ thread'[u].pc \in Working => row'[thread'[u].key] # "accepted"
                          /\ thread'[u].pc \in Owning => row'[thread'[u].key] = "running"
      BY DEF ThreadInv
    <2>2. thread[u].pc # "idle" /\ thread'[u].key = thread[u].key
      BY <2>1, <1>1
    <2>3. thread[u].key \in Keys
      BY <2>2, <1>0 DEF ThreadInv
    <2>4. row'[thread[u].key] = row[thread[u].key]
      BY <2>3, Sweep
    <2> QED
      BY <2>2, <2>3, <2>4, <1>0, <1>1 DEF ThreadInv, Working, Owning
  <1>4. OwnerInv'
    <2>1. SUFFICES ASSUME NEW k \in Keys, row'[k] = "running", k \notin lost
                   PROVE  \E u \in Threads : thread'[u].pc \in Owning /\ thread'[u].key = k
      BY DEF OwnerInv
    <2>2. row[k] = "running"
      BY <2>1, Sweep
    <2>3. PICK u \in Threads : thread[u].pc \in Owning /\ thread[u].key = k
      BY <2>1, <2>2, <1>0 DEF OwnerInv
    <2> QED
      BY <2>3, <1>1 DEF Owning
  <1>5. AckedAccounted'
    <2>1. SUFFICES ASSUME NEW k \in acked'
                   PROVE  \/ row'[k] \in {"running", "done", "failed"}
                          \/ \E u \in Threads : thread'[u].pc = "claim" /\ thread'[u].key = k
                          \/ k \in lost
      BY DEF AckedAccounted
    <2>2. k \in acked /\ k \in Keys /\ row'[k] = row[k]
      BY <2>1, <1>0, Sweep
    <2>3. CASE \E u \in Threads : thread[u].pc = "claim" /\ thread[u].key = k
      BY <2>3, <1>1
    <2> QED
      BY <2>2, <2>3, <1>0 DEF AckedAccounted
  <1> QED
    BY <1>2, <1>3, <1>4, <1>5

-----------------------------------------------------------------------------
(* One lemma per action.                                                   *)

\* accept_task takes over an `accepted' row, which no thread works on, and never an old one.
LEMMA AcceptStep ==
    ASSUME IInv, NEW t \in Threads, Accept(t)
    PROVE  IInv'
  <1>t. /\ row \in [Keys -> Statuses] /\ old \subseteq Keys /\ acked \subseteq Keys
        /\ calls' \in Nat /\ NoKey \notin Keys
    BY ReceiverAssumption DEF IInv, TypeOK, Accept
  <1>1. PICK k \in Keys :
          \/ /\ accept_task(k) = "accept"
             /\ row' = [row EXCEPT ![k] = "accepted"]
             /\ thread' = [thread EXCEPT ![t] = [pc |-> "accepted", key |-> k, ok |-> FALSE]]
             /\ UNCHANGED acked
          \/ /\ accept_task(k) = "replay"
             /\ acked' = acked \cup {k}
             /\ UNCHANGED <<row, thread>>
    BY DEF Accept
  <1>2. CASE /\ accept_task(k) = "accept"
             /\ row' = [row EXCEPT ![k] = "accepted"]
             /\ thread' = [thread EXCEPT ![t] = [pc |-> "accepted", key |-> k, ok |-> FALSE]]
             /\ UNCHANGED acked
    <2>1. row[k] \in {"none", "accepted"} /\ k \notin old
      BY <1>2 DEF accept_task, IInv, OldInv, Settled
    <2>2. Moves(t, "accepted", k)
      BY <1>2 DEF IInv, TypeOK, Moves, ThreadStates, Places
    <2>3. /\ row' \in [Keys -> Statuses] /\ row'[k] = "accepted"
          /\ \A j \in Keys \ {k} : row'[j] = row[j]
      BY <1>2, <1>t DEF Statuses
    <2>4. \A u \in Threads : thread[u].pc \in Working => u # t /\ thread[u].key # k
      BY <2>1 DEF Accept, IInv, ThreadInv, Working, Owning
    <2>5. TypeOK'
      BY <1>2, <1>t, <2>2, <2>3 DEF Accept, IInv, TypeOK, Moves, ThreadStates, pool, files
    <2>6. SlotsExact'
      BY <2>2, SlotsKept DEF Accept, Holding
    <2>7. RunsInv'
      BY <2>1, <2>3, RunsKept DEF Accept
    <2>8. UniqueInv'
      BY <2>2, UniqueKept DEF Working, Owning
    <2>9. CloneOwned' /\ CloneInv'
      BY <2>2, <2>4, CloneKept DEF Accept, files
    <2>10. OldInv'
      BY <2>1, <2>2, <2>3, <1>t DEF Accept, IInv, OldInv, Moves
    <2>11. ThreadInv'
      <3>1. SUFFICES ASSUME NEW u \in Threads, thread'[u].pc # "idle"
                     PROVE  /\ thread'[u].key \in Keys
                            /\ row'[thread'[u].key] # "none"
                            /\ thread'[u].pc \in Working => row'[thread'[u].key] # "accepted"
                            /\ thread'[u].pc \in Owning => row'[thread'[u].key] = "running"
        BY DEF ThreadInv
      <3>2. CASE u = t
        BY <3>2, <2>2, <2>3 DEF Moves, Working, Owning
      <3>3. CASE u # t
        <4>1. thread'[u] = thread[u]
          BY <3>3, <2>2 DEF Moves
        <4> QED
          BY <4>1, <3>1, <2>3, <2>4 DEF IInv, ThreadInv, Working
      <3> QED
        BY <3>2, <3>3
    <2>12. OwnerInv'
      <3>1. SUFFICES ASSUME NEW j \in Keys, row'[j] = "running", j \notin lost
                     PROVE  \E u \in Threads : thread'[u].pc \in Owning /\ thread'[u].key = j
        BY DEF OwnerInv, Accept
      <3>2. PICK u \in Threads : thread[u].pc \in Owning /\ thread[u].key = j
        BY <3>1, <2>3 DEF IInv, OwnerInv
      <3> QED
        BY <3>2, <2>2, <2>4 DEF Moves, Working
    <2>13. AckedAccounted'
      <3>1. SUFFICES ASSUME NEW j \in acked
                     PROVE  \/ row'[j] \in {"running", "done", "failed"}
                            \/ \E u \in Threads : thread'[u].pc = "claim" /\ thread'[u].key = j
                            \/ j \in lost
        BY <1>2 DEF AckedAccounted, Accept
      <3>2. CASE row[j] \in {"running", "done", "failed"}
        BY <3>2, <2>1, <2>3, <1>t
      <3>3. CASE \E u \in Threads : thread[u].pc = "claim" /\ thread[u].key = j
        BY <3>3, <2>2 DEF Moves, Accept
      <3> QED
        BY <3>2, <3>3 DEF IInv, AckedAccounted
    <2> QED
      BY <2>5, <2>6, <2>7, <2>8, <2>9, <2>10, <2>11, <2>12, <2>13 DEF IInv
  <1>3. CASE /\ accept_task(k) = "replay"
             /\ acked' = acked \cup {k}
             /\ UNCHANGED <<row, thread>>
    <2>1. row[k] \in {"running", "done", "failed"}
      BY <1>3, <1>t DEF accept_task, Statuses
    <2>2. TypeOK'
      BY <1>3, <1>t DEF Accept, IInv, TypeOK, pool, files
    <2>3. AckedAccounted'
      BY <1>3, <2>1 DEF Accept, IInv, AckedAccounted
    <2>4. SlotsExact' /\ CloneOwned' /\ CloneInv'
      BY <1>3 DEF Accept, IInv, SlotsExact, InFlight, CloneOwned, CloneInv, pool, files
    <2>5. RunsInv' /\ OldInv' /\ ThreadInv' /\ UniqueInv' /\ OwnerInv'
      BY <1>3 DEF Accept, IInv, RunsInv, OldInv, ThreadInv, UniqueInv, OwnerInv
    <2> QED
      BY <2>2, <2>3, <2>4, <2>5 DEF IInv
  <1> QED
    BY <1>1, <1>2, <1>3

\* A refused POST only ends its thread.
LEMMA BusyStep ==
    ASSUME IInv, NEW t \in Threads, Busy(t)
    PROVE  IInv'
  <1>1. Moves(t, "idle", NoKey) /\ thread[t].pc = "accepted"
    BY IdleMoves DEF IInv, Busy
  <1>k. NoKey \notin Keys /\ old \subseteq Keys
    BY ReceiverAssumption DEF IInv, TypeOK
  <1>2. TypeOK'
    BY <1>1 DEF Busy, IInv, TypeOK, Moves, ThreadStates, tables, pool, files, bounds
  <1>3. SlotsExact'
    BY <1>1, SlotsKept DEF Busy, Holding
  <1>4. RunsInv'
    BY RunsKept DEF Busy, tables
  <1>5. UniqueInv' /\ CloneOwned' /\ CloneInv'
    BY <1>1, UniqueKept, CloneKept DEF Busy, Working, Owning, files, bounds
  <1>6. OldInv' /\ ThreadInv'
    BY <1>1, <1>k DEF Busy, IInv, OldInv, ThreadInv, Moves, tables
  <1>7. OwnerInv' /\ AckedAccounted'
    BY <1>1 DEF Busy, IInv, OwnerInv, AckedAccounted, Moves, Owning, tables
  <1> QED
    BY <1>2, <1>3, <1>4, <1>5, <1>6, <1>7 DEF IInv

\* The worker thread takes its slot before the 202.
LEMMA SpawnStep ==
    ASSUME IInv, NEW t \in Threads, Spawn(t)
    PROVE  IInv'
  <1>1. Moves(t, "claim", thread[t].key) /\ thread[t].pc = "accepted" /\ thread[t].key \in Keys
    BY GotoMoves DEF IInv, ThreadInv, Spawn, Places
  <1>t. slots \in Nat /\ leaked \in Nat /\ MaxParallel \in Nat /\ slots <= MaxParallel
    BY ReceiverAssumption DEF IInv, TypeOK
  <1>2. TypeOK'
    <2>1. slots' \in 0 .. MaxParallel
      BY <1>t DEF Spawn
    <2> QED
      BY <1>1, <2>1 DEF Spawn, IInv, TypeOK, Moves, ThreadStates, tables, files, bounds
  <1>3. SlotsExact'
    <2>1. Cardinality(InFlight') = Cardinality(InFlight) + 1
      BY <1>1, FlightMore DEF Holding, Places
    <2> QED
      BY <1>t, <2>1, FlightFinite DEF IInv, SlotsExact, Spawn
  <1>4. RunsInv'
    BY RunsKept DEF Spawn, tables
  <1>5. UniqueInv' /\ CloneOwned' /\ CloneInv'
    BY <1>1, UniqueKept, CloneKept DEF Spawn, Working, Owning, files, bounds
  <1>6. OldInv' /\ ThreadInv'
    BY <1>1 DEF Spawn, IInv, OldInv, ThreadInv, Moves, tables, Working, Owning
  <1>7. OwnerInv' /\ AckedAccounted'
    BY <1>1 DEF Spawn, IInv, OwnerInv, AckedAccounted, Moves, Owning, tables
  <1> QED
    BY <1>2, <1>3, <1>4, <1>5, <1>6, <1>7 DEF IInv

\* A thread that cannot be started leaves its slot taken, which `leaked' counts.
LEMMA SpawnFailsStep ==
    ASSUME IInv, NEW t \in Threads, SpawnFails(t)
    PROVE  IInv'
  <1>1. Moves(t, "idle", NoKey) /\ thread[t].pc = "accepted"
    BY IdleMoves DEF IInv, SpawnFails
  <1>k. NoKey \notin Keys /\ old \subseteq Keys
    BY ReceiverAssumption DEF IInv, TypeOK
  <1>t. slots \in Nat /\ leaked \in Nat /\ MaxParallel \in Nat /\ slots <= MaxParallel
    BY ReceiverAssumption DEF IInv, TypeOK
  <1>2. TypeOK'
    <2>1. slots' \in 0 .. MaxParallel /\ leaked' \in 0 .. MaxParallel
      BY <1>t, FlightFinite DEF SpawnFails, IInv, SlotsExact
    <2> QED
      BY <1>1, <2>1 DEF SpawnFails, Fault, IInv, TypeOK, Moves, ThreadStates, tables, files
  <1>3. SlotsExact'
    <2>1. InFlight' = InFlight
      BY <1>1, FlightSame DEF Holding
    <2> QED
      BY <1>t, <2>1, FlightFinite DEF IInv, SlotsExact, SpawnFails
  <1>4. RunsInv'
    BY RunsKept DEF SpawnFails, tables
  <1>5. UniqueInv' /\ CloneOwned' /\ CloneInv'
    BY <1>1, UniqueKept, CloneKept DEF SpawnFails, Fault, Working, Owning, files
  <1>6. OldInv' /\ ThreadInv'
    BY <1>1, <1>k DEF SpawnFails, IInv, OldInv, ThreadInv, Moves, tables
  <1>7. OwnerInv' /\ AckedAccounted'
    BY <1>1 DEF SpawnFails, IInv, OwnerInv, AckedAccounted, Moves, Owning, tables
  <1> QED
    BY <1>2, <1>3, <1>4, <1>5, <1>6, <1>7 DEF IInv

\* The claim: an `accepted' row has no worker, so the winner is the only one.
LEMMA ClaimWins ==
    ASSUME IInv, NEW t \in Threads, NEW k, k = thread[t].key, At(t, "claim"), claim_task(k),
           row' = [row EXCEPT ![k] = "running"], runs' = [runs EXCEPT ![k] = @ + 1],
           lost' = lost \ {k}, Goto(t, "provision"),
           UNCHANGED <<old, pool, files, acked, pruned, bounds>>
    PROVE  IInv'
  <1>1. Moves(t, "provision", k) /\ k \in Keys /\ row[k] = "accepted" /\ k \notin old
    BY GotoMoves DEF IInv, ThreadInv, OldInv, claim_task, Places, Settled
  <1>t. /\ row \in [Keys -> Statuses] /\ lost \subseteq Keys /\ acked \subseteq Keys
        /\ old \subseteq Keys /\ runs \in [Keys -> Nat] /\ pruned \in [Keys -> Nat]
    BY DEF IInv, TypeOK
  <1>r. /\ row' \in [Keys -> Statuses] /\ row'[k] = "running"
        /\ \A j \in Keys \ {k} : row'[j] = row[j]
    BY <1>1, <1>t DEF Statuses
  <1>m. /\ thread'[t].pc = "provision" /\ thread'[t].key = k
        /\ \A u \in Threads \ {t} : thread'[u] = thread[u]
    BY <1>1 DEF Moves
  <1>w. \A u \in Threads : thread[u].pc \in Working => u # t /\ thread[u].key # k
    BY <1>1 DEF IInv, ThreadInv, Working, Owning
  <1>2. TypeOK'
    BY <1>1, <1>t, <1>r DEF IInv, TypeOK, Moves, ThreadStates, pool, files, bounds
  <1>3. SlotsExact'
    BY <1>1, SlotsKept DEF Holding, Places
  <1>4. RunsInv'
    <2>1. SUFFICES ASSUME NEW j \in Keys
                   PROVE  runs'[j] <= pruned[j] + (IF row'[j] \in {"none", "accepted"} THEN 0 ELSE 1)
      BY DEF RunsInv
    <2>2. runs[j] \in Nat /\ pruned[j] \in Nat
      BY <1>t
    <2>3. runs[j] <= pruned[j] + (IF row[j] \in {"none", "accepted"} THEN 0 ELSE 1)
      BY DEF IInv, RunsInv
    <2>4. CASE j = k
      <3>1. runs'[j] = runs[j] + 1
        BY <2>4, <1>t
      <3> QED
        BY <2>2, <2>3, <2>4, <3>1, <1>1, <1>r
    <2>5. CASE j # k
      <3>1. runs'[j] = runs[j]
        BY <2>5, <1>t
      <3> QED
        BY <2>3, <2>5, <3>1, <1>r
    <2> QED
      BY <2>4, <2>5
  <1>5. UniqueInv'
    <2>1. SUFFICES ASSUME NEW u \in Threads, NEW v \in Threads, thread'[u].pc \in Working,
                          thread'[v].pc \in Working, thread'[u].key = thread'[v].key
                   PROVE  u = v
      BY DEF UniqueInv
    <2>2. CASE u = t \/ v = t
      BY <2>1, <2>2, <1>m, <1>w
    <2>3. CASE u # t /\ v # t
      BY <2>1, <2>3, <1>m DEF IInv, UniqueInv
    <2> QED
      BY <2>2, <2>3
  <1>6. CloneOwned' /\ CloneInv'
    BY <1>1, <1>w, CloneKept DEF files, bounds
  <1>7. OldInv'
    BY <1>1, <1>r, <1>m, <1>t DEF IInv, OldInv
  <1>8. ThreadInv'
    <2>1. SUFFICES ASSUME NEW u \in Threads, thread'[u].pc # "idle"
                   PROVE  /\ thread'[u].key \in Keys
                          /\ row'[thread'[u].key] # "none"
                          /\ thread'[u].pc \in Working => row'[thread'[u].key] # "accepted"
                          /\ thread'[u].pc \in Owning => row'[thread'[u].key] = "running"
      BY DEF ThreadInv
    <2>2. CASE u = t
      BY <2>2, <1>1, <1>r, <1>m
    <2>3. CASE u # t
      <3>1. thread'[u] = thread[u]
        BY <2>3, <1>m
      <3> QED
        BY <3>1, <2>1, <1>r DEF IInv, ThreadInv
    <2> QED
      BY <2>2, <2>3
  <1>9. OwnerInv'
    <2>1. SUFFICES ASSUME NEW j \in Keys, row'[j] = "running", j \notin lost'
                   PROVE  \E u \in Threads : thread'[u].pc \in Owning /\ thread'[u].key = j
      BY DEF OwnerInv
    <2>2. CASE j = k
      BY <2>2, <1>m DEF Owning
    <2>3. CASE j # k
      <3>1. PICK u \in Threads : thread[u].pc \in Owning /\ thread[u].key = j
        BY <2>1, <2>3, <1>r DEF IInv, OwnerInv
      <3> QED
        BY <3>1, <1>m, <1>w DEF Working
    <2> QED
      BY <2>2, <2>3
  <1>10. AckedAccounted'
    <2>1. SUFFICES ASSUME NEW j \in acked
                   PROVE  \/ row'[j] \in {"running", "done", "failed"}
                          \/ \E u \in Threads : thread'[u].pc = "claim" /\ thread'[u].key = j
                          \/ j \in lost'
      BY DEF AckedAccounted
    <2>2. CASE j = k
      BY <2>2, <1>r
    <2>3. CASE j # k
      BY <2>3, <1>r, <1>m, <1>t DEF IInv, AckedAccounted
    <2> QED
      BY <2>2, <2>3
  <1> QED
    BY <1>2, <1>3, <1>4, <1>5, <1>6, <1>7, <1>8, <1>9, <1>10 DEF IInv

\* A thread that does not get the claim gives its slot back; the task it was about is
\* past `accepted', or lost.
LEMMA ClaimLost ==
    ASSUME IInv, NEW t \in Threads, At(t, "claim"), Goto(t, "release"),
           \/ ~claim_task(thread[t].key) /\ UNCHANGED lost
           \/ lost' = lost \cup {thread[t].key},
           faults' \in Nat, UNCHANGED <<tables, pool, files, acked, runs, pruned, calls, crashes, ages>>
    PROVE  IInv'
  <1> DEFINE k == thread[t].key
  <1>1. Moves(t, "release", k) /\ k \in Keys /\ row[k] # "none"
    BY GotoMoves DEF IInv, ThreadInv, Places
  <1>t. row \in [Keys -> Statuses] /\ lost \subseteq Keys
    BY DEF IInv, TypeOK
  <1>r. /\ row[k] \in {"running", "done", "failed"} \/ k \in lost'
        /\ lost \subseteq lost' /\ lost' \subseteq Keys
    BY <1>1, <1>t DEF claim_task, Statuses
  <1> HIDE DEF k
  <1>m. /\ thread'[t].pc = "release" /\ thread'[t].key = k /\ thread[t].key = k
        /\ \A u \in Threads \ {t} : thread'[u] = thread[u]
    BY <1>1 DEF Moves, k
  <1>2. TypeOK'
    BY <1>1, <1>r DEF IInv, TypeOK, Moves, ThreadStates, tables, pool, files
  <1>3. SlotsExact'
    BY <1>1, SlotsKept DEF Holding, Places
  <1>4. RunsInv'
    BY RunsKept DEF tables
  <1>5. UniqueInv' /\ CloneOwned' /\ CloneInv'
    BY <1>1, UniqueKept, CloneKept DEF Working, Owning, files
  <1>6. OldInv' /\ ThreadInv'
    BY <1>1, <1>m DEF IInv, OldInv, ThreadInv, tables, Working, Owning
  <1>7. OwnerInv'
    BY <1>m, <1>r DEF IInv, OwnerInv, Owning, tables
  <1>8. AckedAccounted'
    <2>1. SUFFICES ASSUME NEW j \in acked
                   PROVE  \/ row[j] \in {"running", "done", "failed"}
                          \/ \E u \in Threads : thread'[u].pc = "claim" /\ thread'[u].key = j
                          \/ j \in lost'
      BY DEF AckedAccounted, tables
    <2>2. CASE j = k
      BY <2>2, <1>r
    <2>3. CASE j # k
      BY <2>3, <1>r, <1>m DEF IInv, AckedAccounted
    <2> QED
      BY <2>2, <2>3
  <1> QED
    BY <1>2, <1>3, <1>4, <1>5, <1>6, <1>7, <1>8 DEF IInv

\* The three ends of claim_task: won, lost, raised.
LEMMA ClaimStep ==
    ASSUME IInv, NEW t \in Threads, Claim(t) \/ ClaimFails(t)
    PROVE  IInv'
  <1>t. faults \in Nat
    BY DEF IInv, TypeOK
  <1>1. CASE ClaimFails(t)
    <2>1. faults' \in Nat
      BY <1>1, <1>t DEF ClaimFails, Fault
    <2> QED
      BY <1>1, <2>1, ClaimLost DEF ClaimFails, Fault
  <1>2. CASE Claim(t) /\ claim_task(thread[t].key)
    <2> QED
      BY <1>2, ClaimWins DEF Claim
  <1>3. CASE Claim(t) /\ ~claim_task(thread[t].key)
    <2> QED
      BY <1>3, <1>t, ClaimLost DEF Claim, tables, bounds
  <1> QED
    BY <1>1, <1>2, <1>3

\* The clone a thread makes is not taken from a thread that runs: that one would work
\* on the same task.
LEMMA ProvisionStep ==
    ASSUME IInv, NEW t \in Threads, Provision(t)
    PROVE  IInv'
  <1> DEFINE k == thread[t].key
  <1>0. thread[t].pc = "provision" /\ k \in Keys
    BY DEF Provision, IInv, ThreadInv
  <1>1. PICK pc \in {"run", "except"} : Moves(t, pc, k)
    BY GotoMoves DEF Provision, IInv, Places
  <1>d. /\ dir \in [Dirs -> Keys \cup {NoKey}] /\ DirOf[k] \in Dirs /\ NoKey \notin Keys
        /\ dir' = IF k \in Cloned THEN [dir EXCEPT ![DirOf[k]] = k] ELSE dir
        /\ crashes' = crashes
    BY <1>0, ReceiverAssumption DEF IInv, TypeOK, Provision, bounds
  <1>e. /\ dir' \in [Dirs -> Keys \cup {NoKey}]
        /\ k \in Cloned => dir'[DirOf[k]] = k
        /\ \A d \in Dirs : dir'[d] = dir[d] \/ (k \in Cloned /\ d = DirOf[k] /\ dir'[d] = k)
    BY <1>0, <1>d
  <1> HIDE DEF k
  <1>m. /\ thread'[t].pc = pc /\ thread'[t].key = k /\ thread[t].key = k
        /\ \A u \in Threads \ {t} : thread'[u] = thread[u]
    BY <1>1 DEF Moves, k
  <1>2. TypeOK'
    BY <1>1, <1>e DEF Provision, IInv, TypeOK, Moves, ThreadStates, tables, pool, bounds
  <1>3. Control'
    BY <1>0, <1>1, OwningStep DEF Provision, Owning, k
  <1>4. CloneInv'
    <2>1. SUFFICES ASSUME crashes = 0, NEW d \in Dirs, dir'[d] # NoKey
                   PROVE  \E u \in Threads : /\ thread'[u].pc \in Working
                                             /\ thread'[u].key = dir'[d]
                                             /\ dir'[d] \in Cloned /\ DirOf[dir'[d]] = d
      BY <1>d DEF CloneInv
    <2>2. CASE k \in Cloned /\ d = DirOf[k] /\ dir'[d] = k
      BY <2>2, <1>m DEF Working, Owning
    <2>3. CASE dir'[d] = dir[d]
      <3>1. PICK u \in Threads : /\ thread[u].pc \in Working
                                 /\ thread[u].key = dir[d]
                                 /\ dir[d] \in Cloned /\ DirOf[dir[d]] = d
        BY <2>1, <2>3 DEF IInv, CloneInv
      <3>2. thread'[u].pc \in Working /\ thread'[u].key = dir'[d]
        BY <3>1, <2>3, <1>m DEF Working, Owning
      <3> QED
        BY <3>1, <3>2, <2>3
    <2> QED
      BY <2>2, <2>3, <1>e
  <1>5. CloneOwned'
    <2>1. ASSUME NEW u \in Threads, thread'[u].pc = "run", thread'[u].key \in Cloned,
                 \A j \in Cloned : (DirOf[j] = DirOf[thread'[u].key] => j = thread'[u].key)
          PROVE  dir'[DirOf[thread'[u].key]] = thread'[u].key
      <3>1. CASE u = t
        BY <3>1, <2>1, <1>m, <1>e
      <3>2. CASE u # t
        <4>1. thread'[u] = thread[u] /\ thread[u].pc = "run"
          BY <3>2, <2>1, <1>m
        <4>2. thread[u].key # k
          BY <3>2, <4>1, <1>0, <1>m DEF IInv, UniqueInv, Working, Owning
        <4>3. dir[DirOf[thread[u].key]] = thread[u].key
          BY <4>1, <2>1 DEF IInv, CloneOwned
        <4>4. DirOf[thread[u].key] \in Dirs
          BY <4>1, <2>1, ReceiverAssumption
        <4>5. ~(k \in Cloned /\ DirOf[k] = DirOf[thread[u].key])
          BY <4>1, <4>2, <2>1
        <4> QED
          BY <4>1, <4>3, <4>4, <4>5, <1>e
      <3> QED
        BY <3>1, <3>2
    <2>2. ~ \A u \in Threads : thread'[u].pc = "idle"
      BY <1>m
    <2> QED
      BY <2>1, <2>2 DEF CloneOwned
  <1> QED
    BY <1>2, <1>3, <1>4, <1>5 DEF IInv, Control

\* The run touches neither rows nor clones.
LEMMA RunStep ==
    ASSUME IInv, NEW t \in Threads, RunTask(t)
    PROVE  IInv'
  <1>0. thread[t].pc = "run"
    BY DEF RunTask
  <1>1. PICK pc \in {"save", "except"} : Moves(t, pc, thread[t].key)
    BY GotoMoves DEF RunTask, IInv, Places
  <1>2. TypeOK'
    BY <1>1 DEF RunTask, IInv, TypeOK, Moves, ThreadStates, tables, pool, files, bounds
  <1>3. Control'
    BY <1>0, <1>1, OwningStep DEF RunTask, Owning
  <1>4. CloneOwned' /\ CloneInv'
    BY <1>1, CloneKept DEF RunTask, Working, Owning, files, bounds
  <1> QED
    BY <1>2, <1>3, <1>4 DEF IInv, Control

\* Saving the ledger and the identity touches neither rows nor clones.
LEMMA SaveStep ==
    ASSUME IInv, NEW t \in Threads, SaveLedger(t) \/ SaveIdentity(t)
    PROVE  IInv'
  <1>0. thread[t].pc \in {"save", "identity"} /\ thread[t].key \in Keys
    BY DEF SaveLedger, SaveIdentity, IInv, ThreadInv
  <1>1. PICK pc \in {"identity", "drain"} : Moves(t, pc, thread[t].key)
    BY GotoMoves DEF SaveLedger, SaveIdentity, IInv, Places
  <1>2. TypeOK'
    <2>1. /\ file' \in [Ledgers -> Keys \cup {NoKey}]
          /\ identity' \in [Ledgers -> Keys \cup {NoKey}]
          /\ unsent' \subseteq Keys /\ dir' = dir
      BY <1>0 DEF SaveLedger, SaveIdentity, IInv, TypeOK
    <2> QED
      BY <1>1, <2>1 DEF SaveLedger, SaveIdentity, IInv, TypeOK, Moves, ThreadStates,
                        tables, pool, bounds
  <1>3. Control'
    BY <1>0, <1>1, OwningStep DEF SaveLedger, SaveIdentity, Owning
  <1>4. CloneOwned' /\ CloneInv'
    BY <1>1, CloneKept DEF SaveLedger, SaveIdentity, Working, Owning, bounds
  <1> QED
    BY <1>2, <1>3, <1>4 DEF IInv, Control

\* Nor does the drain, however it ends.
LEMMA DrainStep ==
    ASSUME IInv, NEW t \in Threads, Drain(t)
    PROVE  IInv'
  <1>0. thread[t].pc = "drain" /\ thread \in [Threads -> ThreadStates]
    BY DEF Drain, IInv, TypeOK, ThreadStates
  <1>1. PICK pc \in {"settle", "except"} : Moves(t, pc, thread[t].key)
    <2>1. CASE Goto(t, "except")
      BY <2>1, GotoMoves DEF IInv, Places
    <2>2. CASE \E ok \in BOOLEAN : thread' = [thread EXCEPT ![t].pc = "settle", ![t].ok = ok]
      <3>1. PICK ok \in BOOLEAN : thread' = [thread EXCEPT ![t].pc = "settle", ![t].ok = ok]
        BY <2>2
      <3>2. /\ thread'[t] = [thread[t] EXCEPT !.pc = "settle", !.ok = ok]
            /\ \A u \in Threads \ {t} : thread'[u] = thread[u]
            /\ thread' = [u \in Threads |-> thread'[u]]
        BY <3>1, <1>0
      <3>3. thread[t] \in ThreadStates
        BY <1>0
      <3>4. thread'[t] = [pc |-> "settle", key |-> thread[t].key, ok |-> ok]
        BY <3>2, <3>3 DEF ThreadStates
      <3>5. "settle" \in Places /\ thread[t].key \in Keys \cup {NoKey}
        BY <3>3 DEF ThreadStates, Places
      <3>6. thread'[t] \in ThreadStates /\ thread'[t].pc = "settle" /\ thread'[t].key = thread[t].key
        BY <3>4, <3>5 DEF ThreadStates
      <3>7. thread' \in [Threads -> ThreadStates]
        BY <3>2, <3>6, <1>0
      <3> QED
        BY <3>2, <3>6, <3>7 DEF Moves
    <2> QED
      BY <2>1, <2>2 DEF Drain
  <1>2. TypeOK'
    BY <1>1 DEF Drain, IInv, TypeOK, Moves, ThreadStates, tables, pool, bounds
  <1>3. Control'
    BY <1>0, <1>1, OwningStep DEF Drain, Owning
  <1>4. CloneOwned' /\ CloneInv'
    BY <1>1, CloneKept DEF Drain, Working, Owning, bounds
  <1> QED
    BY <1>2, <1>3, <1>4 DEF IInv, Control

\* A write that raises leads to the handler, with the claim kept.
LEMMA StoreFailsStep ==
    ASSUME IInv, NEW t \in Threads, StoreFails(t)
    PROVE  IInv'
  <1>1. Moves(t, "except", thread[t].key)
    BY GotoMoves DEF StoreFails, IInv, Places
  <1>2. TypeOK'
    BY <1>1 DEF StoreFails, Fault, IInv, TypeOK, Moves, ThreadStates, tables, pool, files
  <1>3. Control'
    BY <1>1, OwningStep DEF StoreFails, Owning
  <1>4. CloneOwned' /\ CloneInv'
    BY <1>1, CloneKept DEF StoreFails, Fault, Working, Owning, files
  <1> QED
    BY <1>2, <1>3, <1>4 DEF IInv, Control

\* Settling, in the try or in its handler, ends the ownership and leaves the clone to the clean-up.
LEMMA SettlesStep ==
    ASSUME IInv, NEW t \in Threads, Settle(t) \/ Except(t) \/ ExceptFails(t)
    PROVE  IInv'
  <1>0. thread[t].pc \in {"settle", "except"}
    BY DEF Settle, Except, ExceptFails
  <1>1. Moves(t, "prune", thread[t].key)
    BY GotoMoves DEF Settle, Except, ExceptFails, IInv, Places
  <1>2. Control' /\ row' \in [Keys -> Statuses] /\ lost' \subseteq Keys
    <2>1. \/ /\ \E s \in Settled : row' = [row EXCEPT ![thread[t].key] = s]
             /\ UNCHANGED lost
          \/ UNCHANGED row /\ lost' = lost \cup {thread[t].key}
      BY DEF Settle, Except, ExceptFails, Settled, tables
    <2>2. UNCHANGED <<old, pool, acked, runs, pruned>>
      BY DEF Settle, Except, ExceptFails, tables
    <2> QED
      BY <1>0, <1>1, <2>1, <2>2, SettleStep DEF Owning
  <1>3. TypeOK'
    <2>1. {calls', crashes', faults', ages'} \subseteq Nat
      BY DEF Settle, Except, ExceptFails, Fault, IInv, TypeOK, bounds
    <2> QED
      BY <1>1, <1>2, <2>1 DEF Settle, Except, ExceptFails, IInv, TypeOK, Moves, ThreadStates,
                              tables, pool, files
  <1>4. CloneOwned' /\ CloneInv'
    BY <1>1, CloneKept DEF Settle, Except, ExceptFails, Fault, Working, Owning, files, bounds
  <1> QED
    BY <1>2, <1>3, <1>4 DEF IInv, Control

\* The clean-up removes the clone of a task no other thread works on.
LEMMA PruneStep ==
    ASSUME IInv, NEW t \in Threads, Prune(t)
    PROVE  IInv'
  <1> DEFINE k == thread[t].key
  <1>0. thread[t].pc = "prune" /\ k \in Keys
    BY DEF Prune, IInv, ThreadInv
  <1>1. Moves(t, "release", k)
    BY GotoMoves DEF Prune, IInv, Places
  <1>d. /\ dir \in [Dirs -> Keys \cup {NoKey}] /\ DirOf[k] \in Dirs /\ NoKey \notin Keys
        /\ dir' = IF k \in Cloned THEN [dir EXCEPT ![DirOf[k]] = NoKey] ELSE dir
        /\ crashes' = crashes /\ {calls', crashes', faults', ages'} \subseteq Nat
    BY <1>0, ReceiverAssumption DEF IInv, TypeOK, Prune, Fault, bounds
  <1>e. /\ dir' \in [Dirs -> Keys \cup {NoKey}]
        /\ k \in Cloned => dir'[DirOf[k]] = NoKey
        /\ \A d \in Dirs : dir'[d] = dir[d] \/ (k \in Cloned /\ d = DirOf[k] /\ dir'[d] = NoKey)
    BY <1>0, <1>d
  <1>s. \/ prune_settled
        \/ UNCHANGED <<row, old, pruned, acked>>
    BY DEF Prune
  <1>u. UNCHANGED <<lost, runs, pool, file, identity, unsent>>
    BY DEF Prune
  <1> HIDE DEF k
  <1>m. /\ thread'[t].pc = "release" /\ thread'[t].key = k /\ thread[t].key = k
        /\ \A u \in Threads \ {t} : thread'[u] = thread[u]
    BY <1>1 DEF Moves, k
  <1>2. TypeOK'
    <2>1. /\ row' \in [Keys -> Statuses] /\ pruned' \in [Keys -> Nat]
          /\ old' \subseteq Keys /\ acked' \subseteq Keys
      BY <1>s, Sweep DEF IInv, TypeOK
    <2> QED
      BY <1>1, <1>d, <1>e, <1>u, <2>1 DEF IInv, TypeOK, Moves, ThreadStates, pool
  <1>3. SlotsExact' /\ UniqueInv'
    BY <1>0, <1>1, <1>u, SlotsKept, UniqueKept DEF Holding, Places, Working, Owning
  <1>4. RunsInv'
    BY <1>s, <1>u, SweepRuns, RunsKept
  <1>5. OldInv' /\ ThreadInv' /\ OwnerInv' /\ AckedAccounted'
    <2>1. CASE prune_settled
      BY <2>1, <1>0, <1>1, <1>u, SweepRows DEF k
    <2>2. CASE UNCHANGED <<row, old, pruned, acked>>
      <3>1. OldInv' /\ ThreadInv'
        BY <2>2, <1>0, <1>m DEF IInv, OldInv, ThreadInv, Working, Owning
      <3>2. OwnerInv' /\ AckedAccounted'
        BY <2>2, <1>0, <1>m, <1>u DEF IInv, OwnerInv, AckedAccounted, Owning
      <3> QED
        BY <3>1, <3>2
    <2> QED
      BY <2>1, <2>2, <1>s
  <1>6. CloneInv'
    <2>1. SUFFICES ASSUME crashes = 0, NEW d \in Dirs, dir'[d] # NoKey
                   PROVE  \E u \in Threads : /\ thread'[u].pc \in Working
                                             /\ thread'[u].key = dir'[d]
                                             /\ dir'[d] \in Cloned /\ DirOf[dir'[d]] = d
      BY <1>d DEF CloneInv
    <2>2. dir'[d] = dir[d]
      BY <2>1, <1>e
    <2>3. PICK u \in Threads : /\ thread[u].pc \in Working
                               /\ thread[u].key = dir[d]
                               /\ dir[d] \in Cloned /\ DirOf[dir[d]] = d
      BY <2>1, <2>2 DEF IInv, CloneInv
    <2>4. u # t
      BY <2>1, <2>3, <1>e, <1>m
    <2> QED
      BY <2>2, <2>3, <2>4, <1>m
  <1>7. CloneOwned'
    <2>1. ASSUME NEW u \in Threads, thread'[u].pc = "run", thread'[u].key \in Cloned,
                 \A j \in Cloned : (DirOf[j] = DirOf[thread'[u].key] => j = thread'[u].key)
          PROVE  dir'[DirOf[thread'[u].key]] = thread'[u].key
      <3>1. thread'[u] = thread[u] /\ thread[u].pc = "run" /\ u # t
        BY <2>1, <1>m
      <3>2. thread[u].key # k
        BY <3>1, <1>0, <1>m DEF IInv, UniqueInv, Working, Owning
      <3>3. dir[DirOf[thread[u].key]] = thread[u].key
        BY <3>1, <2>1 DEF IInv, CloneOwned
      <3>4. DirOf[thread[u].key] \in Dirs
        BY <3>1, <2>1, ReceiverAssumption
      <3>5. ~(k \in Cloned /\ DirOf[k] = DirOf[thread[u].key])
        BY <3>1, <3>2, <2>1
      <3> QED
        BY <3>1, <3>3, <3>4, <3>5, <1>e
    <2>2. ~ \A u \in Threads : thread'[u].pc = "idle"
      BY <1>m
    <2> QED
      BY <2>1, <2>2 DEF CloneOwned
  <1> QED
    BY <1>2, <1>3, <1>4, <1>5, <1>6, <1>7 DEF IInv

\* A slot is given back by a thread that held one, so the semaphore does not overflow.
LEMMA ReleaseStep ==
    ASSUME IInv, NEW t \in Threads, Release(t)
    PROVE  IInv'
  <1>1. Moves(t, "idle", NoKey) /\ thread[t].pc = "release"
    BY IdleMoves DEF IInv, Release
  <1>k. NoKey \notin Keys /\ old \subseteq Keys
    BY ReceiverAssumption DEF IInv, TypeOK
  <1>t. slots \in Nat /\ leaked \in Nat /\ MaxParallel \in Nat
    BY ReceiverAssumption DEF IInv, TypeOK
  <1>2. Cardinality(InFlight') = Cardinality(InFlight) - 1 /\ Cardinality(InFlight) >= 1
    BY <1>1, FlightLess DEF Holding, Places
  <1>3. TypeOK'
    <2>1. slots' \in 0 .. MaxParallel
      BY <1>t, <1>2, FlightFinite DEF Release, IInv, SlotsExact
    <2> QED
      BY <1>1, <2>1 DEF Release, IInv, TypeOK, Moves, ThreadStates, tables, files, bounds
  <1>4. SlotsExact'
    BY <1>t, <1>2, FlightFinite DEF IInv, SlotsExact, Release
  <1>5. RunsInv'
    BY RunsKept DEF Release, tables
  <1>6. UniqueInv' /\ CloneOwned' /\ CloneInv'
    BY <1>1, UniqueKept, CloneKept DEF Release, Working, Owning, files, bounds
  <1>7. OldInv' /\ ThreadInv'
    BY <1>1, <1>k DEF Release, IInv, OldInv, ThreadInv, Moves, tables
  <1>8. OwnerInv' /\ AckedAccounted'
    BY <1>1 DEF Release, IInv, OwnerInv, AckedAccounted, Moves, Owning, tables
  <1> QED
    BY <1>3, <1>4, <1>5, <1>6, <1>7, <1>8 DEF IInv

\* With every thread idle nothing is in flight.
LEMMA NoFlight ==
    ASSUME \A t \in Threads : thread[t] = Idle
    PROVE  Cardinality(InFlight) = 0
  <1>1. InFlight = {}
    BY DEF InFlight, Holding, Idle
  <1> QED
    BY <1>1, FS_EmptySet

\* A crash takes every thread away: what they owned is lost, what they held is free.
LEMMA CrashStep ==
    ASSUME IInv, Crash
    PROVE  IInv'
  <1>1. \A t \in Threads : thread'[t] = Idle
    BY DEF Crash
  <1>k. /\ NoKey \notin Keys /\ old \subseteq Keys /\ acked \subseteq Keys /\ MaxParallel \in Nat
        /\ crashes \in Nat
    BY ReceiverAssumption DEF IInv, TypeOK
  <1>l. /\ lost \subseteq lost'
        /\ \A t \in Threads : thread[t].pc \in Owning \cup {"claim"} => thread[t].key \in lost'
        /\ lost' \subseteq Keys
    <2>1. \A t \in Threads : thread[t].pc \in Owning \cup {"claim"} => thread[t].key \in Keys
      BY DEF IInv, ThreadInv, Owning
    <2> QED
      BY <2>1 DEF Crash, IInv, TypeOK
  <1>2. TypeOK'
    <2>1. thread' \in [Threads -> ThreadStates]
      BY DEF Crash, Idle, ThreadStates, Places
    <2> QED
      BY <1>k, <1>l, <2>1 DEF Crash, IInv, TypeOK, ThreadStates, tables, files
  <1>3. SlotsExact'
    <2>1. InFlight' = {}
      BY <1>1 DEF InFlight, Holding, Idle
    <2> QED
      BY <1>k, <2>1, FS_EmptySet DEF SlotsExact, Crash
  <1>4. RunsInv'
    BY RunsKept DEF Crash, tables
  <1>5. OldInv' /\ ThreadInv' /\ UniqueInv'
    BY <1>1, <1>k DEF Crash, IInv, OldInv, ThreadInv, UniqueInv, Idle, Working, Owning, tables
  <1>6. OwnerInv' /\ AckedAccounted'
    BY <1>l DEF Crash, IInv, OwnerInv, AckedAccounted, tables
  <1>7. CloneOwned' /\ CloneInv'
    <2>1. crashes' # 0
      BY <1>k DEF Crash
    <2> QED
      BY <1>1, <2>1 DEF CloneOwned, CloneInv, Idle
  <1> QED
    BY <1>2, <1>3, <1>4, <1>5, <1>6, <1>7 DEF IInv

\* A row ages when it is settled and no thread is about its task.
LEMMA AgeStep ==
    ASSUME IInv, Age
    PROVE  IInv'
  <1>1. TypeOK'
    BY DEF Age, IInv, TypeOK, pool, files
  <1>2. SlotsExact' /\ CloneOwned' /\ CloneInv'
    BY DEF Age, IInv, SlotsExact, InFlight, CloneOwned, CloneInv, pool, files
  <1>3. RunsInv' /\ ThreadInv' /\ UniqueInv' /\ OwnerInv' /\ AckedAccounted'
    BY DEF Age, IInv, RunsInv, ThreadInv, UniqueInv, OwnerInv, AckedAccounted
  <1>4. OldInv'
    BY DEF Age, IInv, OldInv
  <1> QED
    BY <1>1, <1>2, <1>3, <1>4 DEF IInv

\* A sync moves no thread; its sweep is that of the threads.
LEMMA SyncStep ==
    ASSUME IInv, Sync
    PROVE  IInv'
  <1>1. PICK l \in Ledgers, k \in Keys :
          /\ identity' = [identity EXCEPT ![l] = k]
          /\ \/ prune_settled /\ unsent' \in {unsent, unsent \ ({file[l]} \cap {k})}
             \/ UNCHANGED <<tables, pruned, acked, unsent>>
    BY DEF Sync
  <1>2. TypeOK'
    <2>1. /\ row' \in [Keys -> Statuses] /\ pruned' \in [Keys -> Nat]
          /\ old' \subseteq Keys /\ acked' \subseteq Keys /\ unsent' \subseteq Keys
      BY <1>1, Sweep DEF IInv, TypeOK, tables
    <2>2. identity' \in [Ledgers -> Keys \cup {NoKey}]
      BY <1>1 DEF IInv, TypeOK
    <2> QED
      BY <2>1, <2>2 DEF Sync, IInv, TypeOK, pool
  <1>3. SlotsExact' /\ CloneOwned' /\ CloneInv' /\ UniqueInv'
    BY DEF Sync, IInv, SlotsExact, InFlight, CloneOwned, CloneInv, UniqueInv, pool
  <1>4. RunsInv'
    BY <1>1, SweepRuns, RunsKept DEF Sync, tables
  <1>5. OldInv' /\ ThreadInv' /\ OwnerInv' /\ AckedAccounted'
    <2>1. CASE prune_settled
      BY <2>1, SweepRows DEF Sync
    <2>2. CASE UNCHANGED <<tables, pruned, acked, unsent>>
      BY <2>2 DEF Sync, IInv, OldInv, ThreadInv, OwnerInv, AckedAccounted, tables
    <2> QED
      BY <2>1, <2>2, <1>1
  <1> QED
    BY <1>2, <1>3, <1>4, <1>5 DEF IInv

-----------------------------------------------------------------------------
(* The invariant, and what follows from it.                                *)

\* The server starts with free slots, no rows and no clones.
LEMMA InitInv == Init => IInv
  <1>0. SUFFICES ASSUME Init PROVE IInv
    OBVIOUS
  <1>k. NoKey \notin Keys /\ MaxParallel \in Nat
    BY ReceiverAssumption
  <1>1. \A t \in Threads : thread[t] = Idle
    BY <1>0 DEF Init
  <1>2. TypeOK
    <2>1. thread \in [Threads -> ThreadStates]
      BY <1>0 DEF Init, Idle, ThreadStates, Places
    <2> QED
      BY <1>0, <1>k, <2>1 DEF Init, TypeOK, ThreadStates, Statuses
  <1>3. SlotsExact
    BY <1>0, <1>1, <1>k, NoFlight DEF Init, SlotsExact
  <1>4. RunsInv /\ OldInv /\ OwnerInv /\ AckedAccounted
    BY <1>0 DEF Init, RunsInv, OldInv, OwnerInv, AckedAccounted
  <1>5. ThreadInv /\ UniqueInv
    BY <1>1 DEF ThreadInv, UniqueInv, Idle, Working, Owning
  <1>6. CloneOwned /\ CloneInv
    BY <1>0, <1>1 DEF Init, CloneOwned, CloneInv, Idle
  <1> QED
    BY <1>2, <1>3, <1>4, <1>5, <1>6 DEF IInv

\* Each step of each thread, each fault, a crash, the clock and a sync keep the invariant.
LEMMA NextInv == IInv /\ [Next]_vars => IInv'
  <1>0. SUFFICES ASSUME IInv, [Next]_vars PROVE IInv'
    OBVIOUS
  <1>1. ASSUME NEW t \in Threads, Accept(t) \/ Step(t) \/ Fails(t)
        PROVE  IInv'
    <2>1. CASE Accept(t)
      BY <1>0, <2>1, AcceptStep
    <2>2. CASE Step(t)
      BY <1>0, <2>2, BusyStep, SpawnStep, ClaimStep, ProvisionStep, RunStep, SaveStep,
         DrainStep, SettlesStep, PruneStep, ReleaseStep DEF Step
    <2>3. CASE Fails(t)
      BY <1>0, <2>3, SpawnFailsStep, ClaimStep, StoreFailsStep, SettlesStep DEF Fails
    <2> QED
      BY <1>1, <2>1, <2>2, <2>3
  <1>2. CASE Crash \/ Age \/ Sync
    BY <1>0, <1>2, CrashStep, AgeStep, SyncStep
  <1>3. CASE UNCHANGED vars
    <2>1. TypeOK' /\ SlotsExact' /\ CloneOwned' /\ CloneInv'
      BY <1>0, <1>3 DEF IInv, TypeOK, SlotsExact, InFlight, CloneOwned, CloneInv, vars, files, bounds
    <2>2. RunsInv' /\ OldInv' /\ ThreadInv' /\ UniqueInv' /\ OwnerInv' /\ AckedAccounted'
      BY <1>0, <1>3 DEF IInv, RunsInv, OldInv, ThreadInv, UniqueInv, OwnerInv, AckedAccounted, vars
    <2> QED
      BY <2>1, <2>2 DEF IInv
  <1> QED
    BY <1>0, <1>1, <1>2, <1>3 DEF Next

\* At most one run per row, from the runs a row is worth.
LEMMA InvRunsOnce == IInv => RunsOnce
  <1>1. ASSUME IInv, NEW k \in Keys PROVE runs[k] <= 1 + pruned[k]
    <2>1. runs[k] \in Nat /\ pruned[k] \in Nat
      BY <1>1 DEF IInv, TypeOK
    <2> QED
      BY <1>1, <2>1 DEF IInv, RunsInv
  <1> QED
    BY <1>1 DEF RunsOnce

\* The owners of a task, from the one thread that works on it.
LEMMA InvRunningOwned == IInv => RunningOwned
  <1>1. SUFFICES ASSUME IInv, NEW k \in Keys, NEW owners,
                        owners = {t \in Threads : thread[t].pc \in Owning /\ thread[t].key = k}
                 PROVE  /\ Cardinality(owners) <= 1
                        /\ owners # {} => row[k] = "running"
                        /\ row[k] = "running" /\ k \notin lost => owners # {}
    BY DEF RunningOwned
  <1>2. Cardinality(owners) <= 1
    <2>1. CASE owners = {}
      BY <2>1, FS_EmptySet
    <2>2. CASE owners # {}
      <3>1. PICK t \in owners : TRUE
        BY <2>2
      <3>2. owners = {t}
        BY <1>1, <3>1 DEF IInv, UniqueInv, Working
      <3> QED
        BY <3>2, FS_Singleton
    <2> QED
      BY <2>1, <2>2
  <1>3. owners # {} => row[k] = "running"
    BY <1>1 DEF IInv, ThreadInv, Owning
  <1>4. row[k] = "running" /\ k \notin lost => owners # {}
    BY <1>1 DEF IInv, OwnerInv
  <1> QED
    BY <1>2, <1>3, <1>4

\* The invariant holds in every state the receiver can reach.
THEOREM ReceiverInvariant == Spec => []IInv
  BY InitInv, NextInv, PTL DEF Spec

\* The state of the receiver keeps its type; in particular the semaphore never has more
\* slots than it was made with.
THEOREM TypeCorrect == Spec => []TypeOK
  <1>1. IInv => TypeOK
    BY DEF IInv
  <1> QED
    BY <1>1, ReceiverInvariant, PTL

\* However often a task is dispatched, and whatever fails or crashes, claim_task lets
\* it run once for each row made for it.
THEOREM RunsOnceHolds == Spec => []RunsOnce
  BY InvRunsOnce, ReceiverInvariant, PTL

\* Every slot of the semaphore is free, held by a worker thread or leaked by a thread
\* that could not be started: no path through do_POST and execute loses another one.
THEOREM SlotsExactHolds == Spec => []SlotsExact
  <1>1. IInv => SlotsExact
    BY DEF IInv
  <1> QED
    BY <1>1, ReceiverInvariant, PTL

\* A task answered with 202 is claimed, about to be, or was lost with its thread.
THEOREM AckedAccountedHolds == Spec => []AckedAccounted
  <1>1. IInv => AckedAccounted
    BY DEF IInv
  <1> QED
    BY <1>1, ReceiverInvariant, PTL

\* A running row has one thread that works on it, or lost that thread.
THEOREM RunningOwnedHolds == Spec => []RunningOwned
  BY InvRunningOwned, ReceiverInvariant, PTL

\* A running task has its own clone, and threads that end without a crash leave none.
THEOREM CloneOwnedHolds == Spec => []CloneOwned
  <1>1. IInv => CloneOwned
    BY DEF IInv
  <1> QED
    BY <1>1, ReceiverInvariant, PTL

-----------------------------------------------------------------------------
(* The table implements TaskLife.                                          *)

\* A sweep takes rows that have ended (prune_settled, in Prune and in Sync).
LEMMA SweepLives ==
    ASSUME IInv, prune_settled, UNCHANGED runs
    PROVE  Life!Next
  <1> DEFINE gone == {k \in old : row[k] \in Settled}
  <1>1. gone \in SUBSET Keys
    BY DEF IInv, TypeOK
  <1>2. row' = [k \in Keys |-> IF k \in gone THEN "none" ELSE row[k]]
    BY DEF prune_settled
  <1>3. \A k \in gone : row[k] \in {"done", "failed"}
    BY DEF Settled
  <1> HIDE DEF gone
  <1>4. Life!Sweep(gone)
    BY <1>2, <1>3 DEF Life!Sweep
  <1> QED
    BY <1>1, <1>4 DEF Life!Next

\* Every step of the receiver is a step in the life of one task, a sweep, or none.
LEMMA LifeSteps == IInv /\ [Next]_vars => [Life!Next]_(Life!vars)
  <1> SUFFICES ASSUME IInv, [Next]_vars PROVE Life!Next \/ UNCHANGED <<row, runs>>
    BY DEF Life!vars
  <1>0. row \in [Keys -> Statuses]
    BY DEF IInv, TypeOK
  <1>1. ASSUME NEW t \in Threads, Accept(t) PROVE Life!Next \/ UNCHANGED <<row, runs>>
    <2>1. CASE UNCHANGED row
      BY <1>1, <2>1 DEF Accept
    <2>2. CASE row' # row
      <3>1. PICK k \in Keys : row' = [row EXCEPT ![k] = "accepted"] /\ accept_task(k) = "accept"
        BY <1>1, <2>2 DEF Accept
      <3>2. row[k] = "none"
        BY <1>0, <2>2, <3>1 DEF accept_task
      <3>3. Life!Take(k)
        BY <1>1, <3>1, <3>2 DEF Accept, Life!Take, Life!Becomes
      <3> QED
        BY <3>3 DEF Life!Next
    <2> QED
      BY <2>1, <2>2
  <1>2. ASSUME NEW t \in Threads, Claim(t) PROVE Life!Next \/ UNCHANGED <<row, runs>>
    <2> DEFINE k == thread[t].key
    <2>1. CASE claim_task(k)
      <3>1. k \in Keys
        BY <1>2 DEF IInv, ThreadInv, Claim
      <3>2. row' = [row EXCEPT ![k] = "running"] /\ runs' = [runs EXCEPT ![k] = @ + 1]
        BY <1>2, <2>1 DEF Claim
      <3>3. Life!Start(k)
        BY <2>1, <3>2 DEF claim_task, Life!Start, Life!Becomes
      <3> QED
        BY <3>1, <3>3 DEF Life!Next
    <2>2. CASE ~claim_task(k)
      BY <1>2, <2>2 DEF Claim
    <2> QED
      BY <2>1, <2>2
  <1>3. ASSUME NEW t \in Threads, Settle(t) \/ Except(t) PROVE Life!Next
    <2> DEFINE k == thread[t].key
    <2>1. k \in Keys /\ row[k] = "running"
      BY <1>3 DEF IInv, ThreadInv, Settle, Except, Owning
    <2>2. PICK end \in {"done", "failed"} : row' = [row EXCEPT ![k] = end]
      BY <1>3 DEF Settle, Except
    <2>3. UNCHANGED runs
      BY <1>3 DEF Settle, Except
    <2>4. Life!End(k)
      BY <2>1, <2>2, <2>3 DEF Life!End, Life!Becomes
    <2> QED
      BY <2>1, <2>4 DEF Life!Next
  <1>4. ASSUME NEW t \in Threads, Prune(t) PROVE Life!Next \/ UNCHANGED <<row, runs>>
    BY <1>4, SweepLives DEF Prune
  <1>5. CASE Sync
    <2>1. UNCHANGED runs /\ (prune_settled \/ UNCHANGED row)
      BY <1>5 DEF Sync, tables
    <2> QED
      BY <2>1, SweepLives
  <1>6. ASSUME NEW t \in Threads,
               \/ Busy(t) \/ Spawn(t) \/ Provision(t) \/ RunTask(t) \/ SaveLedger(t)
               \/ SaveIdentity(t) \/ Drain(t) \/ Release(t) \/ Fails(t)
        PROVE  UNCHANGED <<row, runs>>
    BY <1>6 DEF Busy, Spawn, Provision, RunTask, SaveLedger, SaveIdentity, Drain, Release, Fails,
                SpawnFails, ClaimFails, StoreFails, ExceptFails, tables
  <1>7. CASE Crash \/ Age \/ UNCHANGED vars
    BY <1>7 DEF Crash, Age, tables, vars
  <1> QED
    BY <1>1, <1>2, <1>3, <1>4, <1>5, <1>6, <1>7 DEF Next, Step

\* Whatever dispatches, threads, failing statements, crashes and sweeps do at the same
\* time, the rows of accepted_task live as TaskLife says: one run from accepted to an
\* end, which is final (store.accept_task, claim_task, settle_task, prune_settled).
THEOREM TasksLive == Spec => TaskLives
  <1>1. Init => Life!Init
    BY DEF Init, Life!Init
  <1> QED
    BY <1>1, LifeSteps, ReceiverInvariant, PTL DEF Spec, TaskLives, Life!Spec
=============================================================================
