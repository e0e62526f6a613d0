------------------------------ MODULE Receiver ------------------------------
(***************************************************************************)
(* The inbound task door of an engine: receiver/http.py (do_POST),         *)
(* receiver/service.py (execute) and the accepted_task and identity tables *)
(* of relay/store.py.                                                      *)
(*                                                                         *)
(* A key is the (run_id, task_id) of a dispatched task.  The thread that   *)
(* handles a POST only has its answer left to write when it has started    *)
(* the worker thread, so one thread stands for both.  Requests that are    *)
(* refused before accept_task (401, 400, 404, 413) change nothing and are  *)
(* left out.                                                               *)
(***************************************************************************)
EXTENDS Integers, FiniteSets

CONSTANTS
    Keys,          \* the (run_id, task_id) pairs that are dispatched
    Ledgers,       \* ledger ids
    LedgerOf,      \* key -> "LEDGER-" + iplan_id: tasks of one plan share it
    Cloned,        \* keys dispatched with a repository to clone (an object, not a path)
    Dirs,          \* clone directories
    DirOf,         \* key -> <workspace>/_slug(run_id)/_slug(task_id)
    Threads,       \* threads of the server, numbered
    MaxParallel,   \* receiver.max_parallel
    NoKey,         \* no file, no identity
    MaxCalls,      \* bound: dispatches and sync commands
    MaxFailures,   \* bound: crashes of the server, "database is locked" and the like
    MaxAges        \* bound: rows that outlive the retention window

ASSUME ReceiverAssumption ==
    /\ LedgerOf \in [Keys -> Ledgers]
    /\ NoKey \notin Keys
    /\ Cloned \subseteq Keys
    /\ DirOf \in [Keys -> Dirs]
    /\ {MaxParallel, MaxCalls, MaxFailures, MaxAges} \subseteq Nat
    /\ IsFiniteSet(Threads) /\ Threads \subseteq Nat

VARIABLES
    row,        \* accepted_task: key -> status, "none" if there is no row
    old,        \* keys whose row is older than the retention window
    slots,      \* the semaphore
    leaked,     \* its slots taken for threads that could not be started
    thread,     \* where each thread is, for which key, and report.ok
    file,       \* ledger id -> the task whose ledger the store holds
    identity,   \* ledger id -> the task whose identity the store holds
    dir,        \* clone directory -> the task whose clone it holds
    unsent,     \* tasks whose ledger was saved and whose events are not all settled
    \* history
    acked,      \* tasks iplanic got a 202 for, since their row was made
    lost,       \* tasks whose thread a crash or the database took away
    runs,       \* how often a task was run
    pruned,     \* how often its row was deleted
    calls, crashes, faults, ages

tables == <<row, old>>
pool   == <<slots, leaked>>
files  == <<file, identity, unsent, dir>>
bounds == <<calls, crashes, faults, ages>>
vars   == <<row, old, slots, leaked, thread, files, acked, lost, runs, pruned, bounds>>

Statuses == {"none", "accepted", "running", "done", "failed"}
Settled  == {"done", "failed"}

\* The lines of do_POST and execute a thread can be at.
Places == {"idle", "accepted", "claim", "provision", "run", "save", "identity", "drain", "settle",
           "except", "prune", "release"}
\* With a slot of the semaphore, and with the claim on its task.
Holding == Places \ {"idle", "accepted"}
Owning  == {"provision", "run", "save", "identity", "drain", "settle", "except"}

Idle == [pc |-> "idle", key |-> NoKey, ok |-> FALSE]
Goto(t, pc) == thread' = [thread EXCEPT ![t].pc = pc]
At(t, pc) == thread[t].pc = pc

-----------------------------------------------------------------------------
(* store.py: the accepted_task table.                                      *)

\* Mutant: any row means that the task has been seen.
accept_seen(k) == IF row[k] = "none" THEN "accept" ELSE "replay"

\* Mutant: a dispatch makes the row anew (INSERT OR REPLACE).
accept_anew(k) == "accept"

\* A fresh row or a bare `accepted' one is run, anything past it is a replay.
accept_task(k) == IF row[k] \in {"none", "accepted"} THEN "accept" ELSE "replay"

\* Mutant: an UPDATE without its condition on the status.
claim_any(k) == row[k] # "none"

\* UPDATE ... WHERE status = 'accepted': did this caller win?
claim_task(k) == row[k] = "accepted"

prune_settled ==
    LET gone == {k \in old : row[k] \in Settled}
    IN  /\ row' = [k \in Keys |-> IF k \in gone THEN "none" ELSE row[k]]
        /\ old' = old \ gone
        /\ pruned' = [k \in Keys |-> IF k \in gone THEN pruned[k] + 1 ELSE pruned[k]]
        /\ acked' = acked \ gone

-----------------------------------------------------------------------------
Init ==
    /\ row = [k \in Keys |-> "none"] /\ old = {}
    /\ slots = MaxParallel /\ leaked = 0
    /\ thread = [t \in Threads |-> Idle]
    /\ file = [l \in Ledgers |-> NoKey] /\ identity = [l \in Ledgers |-> NoKey]
    /\ unsent = {} /\ dir = [d \in Dirs |-> NoKey]
    /\ acked = {} /\ lost = {}
    /\ runs = [k \in Keys |-> 0] /\ pruned = [k \in Keys |-> 0]
    /\ calls = 0 /\ crashes = 0 /\ faults = 0 /\ ages = 0

\* The database refuses a statement, or writing a file fails.
Fault ==
    /\ crashes + faults < MaxFailures
    /\ faults' = faults + 1
    /\ UNCHANGED <<calls, crashes, ages>>

\* A POST reaches accept_task; a replay is answered 202 at once.  A request has a thread
\* of its own, so it may as well be the first that is free.
Accept(t) ==
    /\ At(t, "idle")
    /\ \A u \in Threads : u < t => ~At(u, "idle")
    /\ calls < MaxCalls
    /\ calls' = calls + 1
    /\ \E k \in Keys :
        \/ /\ accept_task(k) = "accept"
           /\ row' = [row EXCEPT ![k] = "accepted"]
           /\ thread' = [thread EXCEPT ![t] = [pc |-> "accepted", key |-> k, ok |-> FALSE]]
           /\ UNCHANGED acked
        \/ /\ accept_task(k) = "replay"
           /\ acked' = acked \cup {k}
           /\ UNCHANGED <<row, thread>>
    /\ UNCHANGED <<old, pool, files, lost, runs, pruned, crashes, faults, ages>>

\* 503 receiver_busy; the accepted row stays.
Busy(t) ==
    /\ At(t, "accepted")
    /\ slots = 0
    /\ thread' = [thread EXCEPT ![t] = Idle]
    /\ UNCHANGED <<tables, pool, files, acked, lost, runs, pruned, bounds>>

\* slots.acquire, the worker thread, and 202.
Spawn(t) ==
    /\ At(t, "accepted")
    /\ slots > 0
    /\ slots' = slots - 1
    /\ Goto(t, "claim")
    /\ acked' = acked \cup {thread[t].key}
    /\ UNCHANGED <<tables, leaked, files, lost, runs, pruned, bounds>>

\* Thread.start raises (no more threads): the slot stays taken, no answer is written.
SpawnFails(t) ==
    /\ At(t, "accepted")
    /\ slots > 0
    /\ Fault
    /\ slots' = slots - 1 /\ leaked' = leaked + 1
    /\ thread' = [thread EXCEPT ![t] = Idle]
    /\ UNCHANGED <<tables, files, acked, lost, runs, pruned>>

\* Mutant: a lost claim ends the thread without its release.
ClaimLeaks(t) ==
    /\ At(t, "claim")
    /\ LET k == thread[t].key
       IN  \/ /\ claim_task(k)
              /\ row' = [row EXCEPT ![k] = "running"]
              /\ runs' = [runs EXCEPT ![k] = @ + 1]
              /\ lost' = lost \ {k}
              /\ Goto(t, "provision")
           \/ /\ ~claim_task(k)
              /\ thread' = [thread EXCEPT ![t] = Idle]
              /\ UNCHANGED <<row, lost, runs>>
    /\ UNCHANGED <<old, pool, files, acked, pruned, bounds>>

\* The thread that wins the claim runs the task; one that loses is done.
Claim(t) ==
    /\ At(t, "claim")
    /\ LET k == thread[t].key
       IN  \/ /\ claim_task(k)
              /\ row' = [row EXCEPT ![k] = "running"]
              /\ runs' = [runs EXCEPT ![k] = @ + 1]
              /\ lost' = lost \ {k}
              /\ Goto(t, "provision")
           \/ /\ ~claim_task(k)
              /\ Goto(t, "release")
              /\ UNCHANGED <<row, lost, runs>>
    /\ UNCHANGED <<old, pool, files, acked, pruned, bounds>>

\* claim_task is outside the try of execute: the exception ends the thread.
ClaimFails(t) ==
    /\ At(t, "claim")
    /\ Fault
    /\ Goto(t, "release")
    /\ lost' = lost \cup {thread[t].key}
    /\ UNCHANGED <<tables, pool, files, acked, runs, pruned>>

\* provision_workspace: what an earlier run left in the task's directory is removed and
\* the repository cloned into it; a clone that fails leaves a part of it.
Provision(t) ==
    /\ At(t, "provision")
    /\ LET k == thread[t].key
       IN  /\ dir' = IF k \in Cloned THEN [dir EXCEPT ![DirOf[k]] = k] ELSE dir
           /\ Goto(t, "run") \/ (k \in Cloned /\ Goto(t, "except"))
    /\ UNCHANGED <<tables, pool, file, identity, unsent, acked, lost, runs, pruned, bounds>>

\* Intake and engine.run, in the workspace: they return, or one of them raises.
RunTask(t) ==
    /\ At(t, "run")
    /\ Goto(t, "save") \/ Goto(t, "except")
    /\ UNCHANGED <<tables, pool, files, acked, lost, runs, pruned, bounds>>

\* save(ledger): every task of the plan has the same file.
SaveLedger(t) ==
    /\ At(t, "save")
    /\ LET k == thread[t].key
       IN  /\ file' = [file EXCEPT ![LedgerOf[k]] = k]
           /\ unsent' = unsent \cup {k}
    /\ Goto(t, "identity")
    /\ UNCHANGED <<tables, pool, identity, dir, acked, lost, runs, pruned, bounds>>

SaveIdentity(t) ==
    /\ At(t, "identity")
    /\ identity' = [identity EXCEPT ![LedgerOf[thread[t].key]] = thread[t].key]
    /\ Goto(t, "drain")
    /\ UNCHANGED <<tables, pool, file, unsent, dir, acked, lost, runs, pruned, bounds>>

\* Mutant: a drain that leaves events pending is begun again from its identity.
DrainRepeats(t) ==
    /\ At(t, "drain")
    /\ \/ /\ unsent' = unsent \ {thread[t].key}
          /\ thread' = [thread EXCEPT ![t].pc = "settle", ![t].ok = TRUE]
       \/ Goto(t, "identity") /\ UNCHANGED unsent
    /\ UNCHANGED <<tables, pool, file, identity, dir, acked, lost, runs, pruned, bounds>>

\* drain settles everything, stops on RETRY (ok, with events pending), stops on HALT
\* (not ok) or raises TransportError.
Drain(t) ==
    /\ At(t, "drain")
    /\ \/ /\ unsent' = unsent \ {thread[t].key}
          /\ thread' = [thread EXCEPT ![t].pc = "settle", ![t].ok = TRUE]
       \/ /\ \E ok \in BOOLEAN : thread' = [thread EXCEPT ![t].pc = "settle", ![t].ok = ok]
          /\ UNCHANGED unsent
       \/ Goto(t, "except") /\ UNCHANGED unsent
    /\ UNCHANGED <<tables, pool, file, identity, dir, acked, lost, runs, pruned, bounds>>

\* settle_task(ok=report.ok).
Settle(t) ==
    /\ At(t, "settle")
    /\ row' = [row EXCEPT ![thread[t].key] = IF thread[t].ok THEN "done" ELSE "failed"]
    /\ Goto(t, "prune")
    /\ UNCHANGED <<old, pool, files, acked, lost, runs, pruned, bounds>>

\* save, save_identity or settle_task raises inside the try.
StoreFails(t) ==
    /\ thread[t].pc \in {"save", "identity", "drain", "settle"}
    /\ Fault
    /\ Goto(t, "except")
    /\ UNCHANGED <<tables, pool, files, acked, lost, runs, pruned>>

\* Mutant: the handler of the exception only logs it.
ExceptLogs(t) ==
    /\ At(t, "except")
    /\ Goto(t, "prune")
    /\ UNCHANGED <<tables, pool, files, acked, lost, runs, pruned, bounds>>

\* except: settle_task(ok=False).
Except(t) ==
    /\ At(t, "except")
    /\ row' = [row EXCEPT ![thread[t].key] = "failed"]
    /\ Goto(t, "prune")
    /\ UNCHANGED <<old, pool, files, acked, lost, runs, pruned, bounds>>

\* settle_task raises again, in the handler: the row stays `running'.
ExceptFails(t) ==
    /\ At(t, "except")
    /\ Fault
    /\ Goto(t, "prune")
    /\ lost' = lost \cup {thread[t].key}
    /\ UNCHANGED <<tables, pool, files, acked, runs, pruned>>

\* Mutant: the clean-up removes the directory above the clone.
PruneRoot(t) ==
    /\ At(t, "prune")
    /\ dir' = IF thread[t].key \in Cloned THEN [d \in Dirs |-> NoKey] ELSE dir
    /\ Goto(t, "release")
    /\ \/ prune_settled /\ UNCHANGED bounds
       \/ Fault /\ UNCHANGED <<row, old, pruned, acked>>
    /\ UNCHANGED <<pool, file, identity, unsent, lost, runs>>

\* finally: the clone is removed, then the sweep, which may be skipped.
Prune(t) ==
    /\ At(t, "prune")
    /\ LET k == thread[t].key
       IN  dir' = IF k \in Cloned THEN [dir EXCEPT ![DirOf[k]] = NoKey] ELSE dir
    /\ Goto(t, "release")
    /\ \/ prune_settled /\ UNCHANGED bounds
       \/ Fault /\ UNCHANGED <<row, old, pruned, acked>>
    /\ UNCHANGED <<pool, file, identity, unsent, lost, runs>>

\* Mutant: the slot is given back twice.
ReleaseTwice(t) ==
    /\ At(t, "release")
    /\ slots' = slots + 2
    /\ thread' = [thread EXCEPT ![t] = Idle]
    /\ UNCHANGED <<tables, leaked, files, acked, lost, runs, pruned, bounds>>

\* finally of _work: slots.release().
Release(t) ==
    /\ At(t, "release")
    /\ slots' = slots + 1
    /\ thread' = [thread EXCEPT ![t] = Idle]
    /\ UNCHANGED <<tables, leaked, files, acked, lost, runs, pruned, bounds>>

\* The server dies with all its daemon threads, and starts again.
Crash ==
    /\ crashes + faults < MaxFailures
    /\ crashes' = crashes + 1
    /\ lost' = lost \cup {thread[t].key : t \in {u \in Threads :
                              thread[u].pc \in Owning \cup {"claim"}}}
    /\ thread' = [t \in Threads |-> Idle]
    /\ slots' = MaxParallel /\ leaked' = 0
    /\ UNCHANGED <<tables, files, acked, runs, pruned, calls, faults, ages>>

\* A settled row outlives the retention window, which is far longer than the last
\* lines of the thread that settled it.
Age ==
    /\ ages < MaxAges
    /\ ages' = ages + 1
    /\ \E k \in Keys \ old :
        /\ row[k] \in Settled
        /\ \A t \in Threads : thread[t].key # k
        /\ old' = old \cup {k}
    /\ UNCHANGED <<row, pool, thread, files, acked, lost, runs, pruned,
                   calls, crashes, faults>>

\* sync drains the ledger the store holds, as the task of the stored identity or of
\* --payload, which it stores.  The keys of the events hold the run_id, so a drain as
\* another task settles none of file[l]'s.  The sweep follows unless the drain raises.
Sync ==
    /\ calls < MaxCalls
    /\ calls' = calls + 1
    /\ \E l \in Ledgers : \E k \in {j \in Keys : LedgerOf[j] = l} :
        /\ file[l] # NoKey
        /\ identity' = [identity EXCEPT ![l] = k]
        /\ \/ prune_settled /\ unsent' \in {unsent, unsent \ ({file[l]} \cap {k})}
           \/ UNCHANGED <<tables, pruned, acked, unsent>>
    /\ UNCHANGED <<pool, thread, file, dir, lost, runs, crashes, faults, ages>>

\* The steps a thread takes by itself.
Step(t) ==
    \/ Busy(t) \/ Spawn(t) \/ Claim(t) \/ Provision(t) \/ RunTask(t) \/ SaveLedger(t)
    \/ SaveIdentity(t) \/ Drain(t) \/ Settle(t) \/ Except(t) \/ Prune(t) \/ Release(t)

Fails(t) == SpawnFails(t) \/ ClaimFails(t) \/ StoreFails(t) \/ ExceptFails(t)

Next ==
    \/ \E t \in Threads : Accept(t) \/ Step(t) \/ Fails(t)
    \/ Crash \/ Age \/ Sync

Spec == Init /\ [][Next]_vars

\* A thread that can go on does: the run and its drain return (run_loop and relay
\* show under which conditions).
FairSpec == Spec /\ \A t \in Threads : WF_vars(Step(t))

-----------------------------------------------------------------------------
(* Properties.                                                             *)

\* The type of the state; the slots are between 0 and max_parallel.
TypeOK ==
    /\ row \in [Keys -> Statuses]
    /\ old \subseteq Keys
    /\ slots \in 0 .. MaxParallel /\ leaked \in 0 .. MaxParallel
    /\ thread \in [Threads -> [pc : Places, key : Keys \cup {NoKey}, ok : BOOLEAN]]
    /\ dir \in [Dirs -> Keys \cup {NoKey}]
    /\ file \in [Ledgers -> Keys \cup {NoKey}]
    /\ identity \in [Ledgers -> Keys \cup {NoKey}]
    /\ {unsent, acked, lost} \subseteq SUBSET Keys
    /\ runs \in [Keys -> Nat] /\ pruned \in [Keys -> Nat]
    /\ {calls, crashes, faults, ages} \subseteq Nat

\* However often and however concurrently a task is dispatched, and across crashes, it
\* is run once; only a row deleted by the retention sweep allows another run
\* (claim_task: "exactly one run happens").
RunsOnce == \A k \in Keys : runs[k] <= 1 + pruned[k]

InFlight == {t \in Threads : thread[t].pc \in Holding}

\* The semaphore counts the worker threads exactly, whichever of them lose the claim,
\* fail, or die: max_parallel is never exceeded, and no slot leaks but those of threads
\* that could not be started.
SlotsExact == slots + Cardinality(InFlight) + leaked = MaxParallel

\* A 202 is never given for a task nobody takes care of: it has been claimed, or a
\* thread that has not yet claimed it is there, or the thread died under it.  In
\* particular a POST refused with 503 leaves a row that the next dispatch runs.
AckedAccounted ==
    \A k \in acked :
        \/ row[k] \in {"running", "done", "failed"}
        \/ \E t \in Threads : thread[t].pc = "claim" /\ thread[t].key = k
        \/ k \in lost

\* A row says `running' exactly while one thread works on the task; it is left behind
\* only when a crash or a failing database took the thread away.
RunningOwned ==
    \A k \in Keys :
        LET owners == {t \in Threads : thread[t].pc \in Owning /\ thread[t].key = k}
        IN  /\ Cardinality(owners) <= 1
            /\ owners # {} => row[k] = "running"
            /\ row[k] = "running" /\ k \notin lost => owners # {}

\* A task is run in its own clone, made for this run: no other thread, earlier run or
\* clean-up takes it away, as long as different tasks have different directories; and
\* when all threads are done, only a crash has left a clone behind.
CloneOwned ==
    /\ \A t \in Threads :
        LET k == thread[t].key
        IN  (At(t, "run") /\ k \in Cloned /\ \A j \in Cloned : (DirOf[j] = DirOf[k] => j = k))
                => dir[DirOf[k]] = k
    /\ (\A t \in Threads : At(t, "idle")) /\ crashes = 0 => \A d \in Dirs : dir[d] = NoKey

\* The table implements TaskLife: however dispatches, threads, failing statements, syncs
\* and sweeps interleave, a row goes from accepted to running to its end, each run is
\* one such passage, a settled task is neither run again nor settled differently, and
\* a sweep takes settled rows only (accept_task, claim_task, settle_task, prune_settled).
Life      == INSTANCE TaskLife
TaskLives == Life!Spec

\* A claimed task is settled, unless its thread is lost.
TaskSettles == \A k \in Keys : row[k] = "running" ~> (row[k] \in Settled \/ k \in lost)

-----------------------------------------------------------------------------
(* Why the invariants hold: what is always true of rows, threads, clones.  *)

\* With the claim on its task, or cleaning up after it.
Working == Owning \cup {"prune"}

\* A row past `accepted' is worth one run, a deleted row one more.
RunsInv ==
    \A k \in Keys : runs[k] <= pruned[k] + (IF row[k] \in {"none", "accepted"} THEN 0 ELSE 1)

\* A row that may be swept is settled, and no thread is about its task.
OldInv == \A k \in old : row[k] \in Settled /\ \A t \in Threads : thread[t].key # k

\* The row of a thread's task is there; it is past `accepted' when the thread has the
\* claim, and `running' as long as it has not settled it.
ThreadInv ==
    \A t \in Threads : thread[t].pc # "idle" =>
        /\ thread[t].key \in Keys
        /\ row[thread[t].key] # "none"
        /\ thread[t].pc \in Working => row[thread[t].key] # "accepted"
        /\ thread[t].pc \in Owning => row[thread[t].key] = "running"

\* One thread works on a task.
UniqueInv ==
    \A t, u \in Threads :
        (thread[t].pc \in Working /\ thread[u].pc \in Working /\ thread[t].key = thread[u].key)
            => t = u

\* A running row has an owner, or lost it.
OwnerInv ==
    \A k \in Keys : row[k] = "running" /\ k \notin lost
        => \E t \in Threads : thread[t].pc \in Owning /\ thread[t].key = k

\* Without a crash, the clone in a directory is that of a thread that still works.
CloneInv ==
    crashes = 0 => \A d \in Dirs : dir[d] # NoKey =>
        \E t \in Threads : /\ thread[t].pc \in Working
                           /\ thread[t].key = dir[d] /\ dir[d] \in Cloned /\ DirOf[dir[d]] = d

IInv ==
    /\ TypeOK /\ SlotsExact /\ RunsInv /\ OldInv /\ ThreadInv /\ UniqueInv /\ OwnerInv
    /\ AckedAccounted /\ CloneOwned /\ CloneInv

-----------------------------------------------------------------------------
\* What the documents say and the code does not keep.

\* The events of a task whose drain did not settle them all stay in the ledger the store
\* holds, for a later sync.  (Every task of a plan saves its ledger under the id of the
\* plan, so the next task of the plan replaces it, and no sync finds those events.)
PendingSyncable == \A k \in unsent : row[k] \in Settled => file[LedgerOf[k]] = k
=============================================================================
