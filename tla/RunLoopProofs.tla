--------------------------- MODULE RunLoopProofs ---------------------------
(***************************************************************************)
(* Proofs about RunLoop, for every set of tasks, every dependency graph    *)
(* and every value of the bounds.                                          *)
(***************************************************************************)
EXTENDS RunLoop, SequenceTheorems, WellFoundedInduction, TLAPS

-----------------------------------------------------------------------------
(* What the operators on ledgers do: the type of the result, and the       *)
(* fields the invariant looks at.                                          *)

\* The events the operators append are well-formed.
LEMMA EventType ==
    ASSUME NEW type \in EventTypes, NEW t \in Tasks \cup {NoTask}, NEW touched \in Touched
    PROVE  /\ event(type, t, touched) \in Event
           /\ event(type, t, touched).type = type
           /\ event(type, t, touched).task = t
  BY DEF event, Event

\* A fresh ledger is a ledger.
LEMMA InitLedgerType == init_ledger \in Ledger
  BY EmptySeq DEF init_ledger, Ledger, TaskStates, RunStates

\* Blocking a task keeps the type of the ledger.
LEMMA BlockType ==
    ASSUME NEW l \in Ledger, NEW t \in Tasks, NEW n \in Nat, NEW from \in TaskStates
    PROVE  block(l, t, n, from) \in Ledger
  <1>1. Append(l.execution_log, event("task_blocked", t, "none")) \in Seq(Event)
    BY AppendProperties DEF Ledger, Event, event, EventTypes, Touched
  <1>2. Append(l.execution_history, [task |-> t, from |-> from, to |-> "blocked"])
           \in Seq(Change)
    BY AppendProperties DEF Ledger, Change, TaskStates
  <1>3. [at |-> Len(l.execution_log), id |-> n, task |-> t] \in Blocker
    BY LenProperties DEF Ledger, Blocker
  <1> QED
    BY <1>1, <1>2, <1>3
       DEF Ledger, block, append_event, add_history, set_status, TaskStates

\* A started task has a pending transaction at the end of the journal.
LEMMA BeginFields ==
    ASSUME NEW l \in Ledger, NEW t \in Tasks
    PROVE  LET m == begin_task(l, t) IN
           /\ m.task = [l.task EXCEPT ![t] = "in_progress"]
           /\ m.execution_log = Append(l.execution_log, event("task_started", t, "none"))
           /\ m.saga_journal = Append(l.saga_journal, [task |-> t, status |-> "pending"])
           /\ m.blockers = l.blockers
           /\ m.allowed = l.allowed
  BY DEF Ledger, begin_task, append_event, add_history, set_status

\* Starting a task keeps the type of the ledger.
LEMMA BeginType ==
    ASSUME NEW l \in Ledger, NEW t \in Tasks
    PROVE  begin_task(l, t) \in Ledger
  <1>1. Append(l.execution_log, event("task_started", t, "none")) \in Seq(Event)
    BY AppendProperties DEF Ledger, Event, event, EventTypes, Touched
  <1>2. Append(l.execution_history, [task |-> t, from |-> "pending", to |-> "in_progress"])
           \in Seq(Change)
    BY AppendProperties DEF Ledger, Change, TaskStates
  <1>3. Append(l.saga_journal, [task |-> t, status |-> "pending"]) \in Seq(Txn)
    BY AppendProperties DEF Ledger, Txn, TxnStates
  <1>4. Append(l.agent_leases, [task |-> t, expires_at |-> NoExpiry, released |-> FALSE])
           \in Seq(Lease)
    BY AppendProperties DEF Ledger, Lease
  <1> QED
    BY <1>1, <1>2, <1>3, <1>4
       DEF Ledger, begin_task, append_event, add_history, set_status, TaskStates

\* Settling the transaction in flight and releasing its lease keep the type.
LEMMA SetTxnType ==
    ASSUME NEW l \in Ledger, l.saga_journal # <<>>, NEW new \in TxnStates
    PROVE  /\ set_txn(l, new) \in Ledger
           /\ Len(l.saga_journal) \in 1 .. Len(l.saga_journal)
           /\ set_txn(l, new).saga_journal =
                 [l.saga_journal EXCEPT ![Len(l.saga_journal)] =
                     [task |-> l.saga_journal[Len(l.saga_journal)].task, status |-> new]]
  <1> DEFINE j == l.saga_journal
             n == Len(j)
             x == [task |-> j[n].task, status |-> new]
  <1>1. j \in Seq(Txn)
    BY DEF Ledger
  <1>2. n \in 1 .. n
    BY <1>1, LenProperties, EmptySeq
  <1>3. j[n] \in Txn /\ x \in Txn
    BY <1>1, <1>2, ElementOfSeq DEF Txn
  <1>4. [j[n] EXCEPT !.status = new] = x
    BY <1>3 DEF Txn
  <1>5. [j EXCEPT ![n] = x] \in Seq(Txn)
    BY <1>1, <1>2, <1>3, ExceptSeq
  <1>6. set_txn(l, new) = [l EXCEPT !.saga_journal = [j EXCEPT ![n] = x]]
    BY <1>4 DEF set_txn, Ledger
  <1> QED
    BY <1>2, <1>5, <1>6 DEF Ledger

\* The same for the lease of the task in flight.
LEMMA ReleaseType ==
    ASSUME NEW l \in Ledger, l.agent_leases # <<>>
    PROVE  release(l) \in Ledger
  <1> DEFINE j == l.agent_leases
             n == Len(j)
             x == [j[n] EXCEPT !.released = TRUE]
  <1>1. j \in Seq(Lease)
    BY DEF Ledger
  <1>2. n \in 1 .. n
    BY <1>1, LenProperties, EmptySeq
  <1>3. j[n] \in Lease
    BY <1>1, <1>2, ElementOfSeq
  <1>4. x \in Lease
    BY <1>3 DEF Lease
  <1>5. [j EXCEPT ![n] = x] \in Seq(Lease)
    BY <1>1, <1>2, <1>4, ExceptSeq
  <1>6. release(l) = [l EXCEPT !.agent_leases = [j EXCEPT ![n] = x]]
    BY DEF release, Ledger
  <1> QED
    BY <1>5, <1>6 DEF Ledger

\* The log of a task that succeeded: an edit, perhaps, and the completion.
SuccessLog(l, t, r) ==
    Append(IF r.touched = "none" THEN l.execution_log
           ELSE Append(l.execution_log, event("file_edited", t, r.touched)),
           event("task_completed", t, "none"))

\* Success completes the task and commits its transaction, the last of the journal.
LEMMA SucceedsFields ==
    ASSUME NEW l \in Ledger, NEW t \in Tasks, NEW r \in ExecutorResult
    PROVE  LET m == task_succeeds(l, t, r) IN
           /\ m.task = [l.task EXCEPT ![t] = "completed"]
           /\ m.execution_log = SuccessLog(l, t, r)
           /\ m.saga_journal =
                 [l.saga_journal EXCEPT ![Len(l.saga_journal)].status = "committed"]
           /\ m.blockers = l.blockers
           /\ m.allowed = l.allowed
  <1>1. CASE r.touched = "none"
    BY <1>1 DEF Ledger, SuccessLog, task_succeeds, release, set_txn, append_event,
                add_history, set_status
  <1>2. CASE r.touched # "none"
    BY <1>2, ZenonT(40) DEF Ledger, SuccessLog, task_succeeds, release, set_txn, append_event,
                add_history, set_status
  <1> QED
    BY <1>1, <1>2

\* A failure may log a compensation; then the task is blocked.
UndoneLog(l, t, r) ==
    IF r.touched = "none" THEN l.execution_log
    ELSE Append(l.execution_log, event("compensation", t, r.touched))
UndoneJournal(l, r) ==
    IF r.touched = "none" THEN l.saga_journal
    ELSE [l.saga_journal EXCEPT ![Len(l.saga_journal)].status = "compensated"]

\* Failure blocks the task with a new blocker; its transaction does not commit.
LEMMA FailsFields ==
    ASSUME NEW l \in Ledger, NEW t \in Tasks, NEW r \in ExecutorResult, NEW n \in Nat
    PROVE  LET m == task_fails(l, t, r, n) IN
           /\ m.task = [l.task EXCEPT ![t] = "blocked"]
           /\ m.execution_log = Append(UndoneLog(l, t, r), event("task_blocked", t, "none"))
           /\ m.saga_journal = UndoneJournal(l, r)
           /\ m.blockers = l.blockers \cup
                 {[at |-> Len(UndoneLog(l, t, r)), id |-> n, task |-> t]}
           /\ m.allowed = l.allowed
  <1>1. CASE r.touched = "none"
    BY <1>1 DEF Ledger, UndoneLog, UndoneJournal, task_fails, release, set_txn, append_event,
                add_history, set_status, block, escalate
  <1>2. CASE r.touched # "none"
    BY <1>2 DEF Ledger, UndoneLog, UndoneJournal, task_fails, release, set_txn, append_event,
                add_history, set_status, block, escalate
  <1> QED
    BY <1>1, <1>2

-----------------------------------------------------------------------------
(* What one more entry does to a log and to a journal.                     *)

\* An appended entry is the last one and leaves the others in place.
LEMMA AppendAt ==
    ASSUME NEW S, NEW s \in Seq(S), NEW x \in S
    PROVE  /\ Append(s, x) \in Seq(S)
           /\ Len(s) \in Nat
           /\ DOMAIN s = 1 .. Len(s)
           /\ DOMAIN Append(s, x) = 1 .. Len(s) + 1
           /\ \A i \in 1 .. Len(s) : Append(s, x)[i] = s[i]
           /\ Append(s, x)[Len(s) + 1] = x
           /\ Append(s, x) # <<>>
           /\ Len(Append(s, x)) = Len(s) + 1
  BY AppendProperties, LenProperties

\* An event that completes no task leaves what was completed, and how often, alone.
LEMMA AppendOther ==
    ASSUME NEW log \in Seq(Event), NEW e \in Event, e.type # "task_completed"
    PROVE  /\ \A t \in Tasks : LoggedComplete(Append(log, e), t) <=> LoggedComplete(log, t)
           /\ CompletesOnce(log) => CompletesOnce(Append(log, e))
  BY AppendAt DEF LoggedComplete, CompletesOnce

\* The first task_completed of a task keeps completions unique.
LEMMA AppendCompleted ==
    ASSUME NEW log \in Seq(Event), NEW e \in Event, e.type = "task_completed",
           ~LoggedComplete(log, e.task)
    PROVE  /\ \A t \in Tasks : LoggedComplete(Append(log, e), t)
                                  <=> (LoggedComplete(log, t) \/ t = e.task)
           /\ CompletesOnce(log) => CompletesOnce(Append(log, e))
  BY AppendAt DEF LoggedComplete, CompletesOnce

\* A task may start when its dependencies are logged complete; other events may
\* come at any time.
LEMMA AppendDeps ==
    ASSUME NEW log \in Seq(Event), NEW e \in Event, NEW g,
           StartsAfterDeps(log, g),
           e.type = "task_started" => \A d \in g[e.task] : LoggedComplete(log, d)
    PROVE  StartsAfterDeps(Append(log, e), g)
  <1> DEFINE new == Append(log, e)
  <1>1. \A i \in 1 .. Len(log) : new[i] = log[i]
    BY AppendAt
  <1>2. SUFFICES ASSUME NEW i \in DOMAIN new, new[i].type = "task_started",
                        NEW d \in g[new[i].task]
                 PROVE  \E j \in 1 .. i - 1 :
                            new[j].type = "task_completed" /\ new[j].task = d
    BY DEF StartsAfterDeps
  <1>3. CASE i \in 1 .. Len(log)
    <2>1. PICK j \in 1 .. i - 1 : log[j].type = "task_completed" /\ log[j].task = d
      <3>1. i \in DOMAIN log /\ log[i].type = "task_started" /\ d \in g[log[i].task]
        BY <1>1, <1>2, <1>3, AppendAt
      <3> QED
        BY <3>1, Zenon DEF StartsAfterDeps
    <2>2. j \in 1 .. Len(log)
      BY <1>3, <2>1, AppendAt
    <2> QED
      BY <1>1, <2>1, <2>2
  <1>4. CASE i = Len(log) + 1
    <2>1. new[i] = e
      BY <1>4, AppendAt
    <2>2. PICK j \in DOMAIN log : log[j].type = "task_completed" /\ log[j].task = d
      BY <1>2, <2>1 DEF LoggedComplete
    <2>3. j \in 1 .. Len(log) /\ j \in 1 .. i - 1
      BY <1>4, <2>2, AppendAt
    <2> QED
      BY <1>1, <2>2, <2>3
  <1> QED
    BY <1>2, <1>3, <1>4, AppendAt

\* already_committed on the journal alone.
CommittedIn(journal, t) ==
    \E i \in DOMAIN journal : journal[i].task = t /\ journal[i].status = "committed"

\* They say the same.
LEMMA CommittedInJournal ==
    \A l, t : already_committed(l, t) <=> CommittedIn(l.saga_journal, t)
  BY DEF already_committed, CommittedIn

\* A new transaction that is not committed changes nothing about commits.
LEMMA AppendTxn ==
    ASSUME NEW j \in Seq(Txn), NEW x \in Txn, x.status # "committed"
    PROVE  /\ \A t \in Tasks : CommittedIn(Append(j, x), t) <=> CommittedIn(j, t)
           /\ JournalCommitsOnce(j) => JournalCommitsOnce(Append(j, x))
  BY AppendAt DEF CommittedIn, JournalCommitsOnce

\* Settling the last transaction of a journal whose task has not committed.
LEMMA SettleTxn ==
    ASSUME NEW j \in Seq(Txn), j # <<>>, NEW new \in TxnStates,
           ~CommittedIn(j, j[Len(j)].task),
           NEW k, k = [j EXCEPT ![Len(j)] = [task |-> j[Len(j)].task, status |-> new]]
    PROVE  /\ \A t \in Tasks : CommittedIn(k, t) <=>
                 (CommittedIn(j, t) \/ (new = "committed" /\ t = j[Len(j)].task))
           /\ JournalCommitsOnce(j) => JournalCommitsOnce(k)
  <1>1. DOMAIN j = 1 .. Len(j) /\ Len(j) \in DOMAIN j /\ DOMAIN k = DOMAIN j
    BY LenProperties, EmptySeq
  <1>2. \A i \in DOMAIN j : i # Len(j) => k[i] = j[i]
    BY <1>1
  <1>3. k[Len(j)] = [task |-> j[Len(j)].task, status |-> new]
    BY <1>1
  <1> QED
    BY <1>1, <1>2, <1>3 DEF CommittedIn, JournalCommitsOnce

-----------------------------------------------------------------------------
(* Each operation on a ledger keeps its invariant.                         *)

\* Blocking a task that is not completed, with the next id.
LEMMA BlockKeeps ==
    ASSUME NEW l \in Ledger, NEW g, NEW n \in Nat, NEW t \in Tasks, NEW from \in TaskStates,
           LedgerInv(l, g), l.task[t] # "completed"
    PROVE  LET m == block(l, t, n + 1, from) IN
           /\ LedgerInv(m, g)
           /\ \A u \in Tasks : LoggedComplete(l.execution_log, u)
                                  => LoggedComplete(m.execution_log, u)
  <1> DEFINE m == block(l, t, n + 1, from)
             e == event("task_blocked", t, "none")
             b0 == [at |-> Len(l.execution_log), id |-> n + 1, task |-> t]
  <1>1. /\ m.task = [l.task EXCEPT ![t] = "blocked"]
        /\ m.execution_log = Append(l.execution_log, e)
        /\ m.blockers = l.blockers \cup {b0}
        /\ m.allowed = l.allowed
        /\ m.saga_journal = l.saga_journal
    BY DEF Ledger, block, append_event, add_history, set_status
  <1>2. /\ e \in Event
        /\ e.type = "task_blocked"
    BY EventType DEF EventTypes, Touched
  <1>3. l.execution_log \in Seq(Event) /\ l.task \in [Tasks -> TaskStates]
    BY DEF Ledger
  <1>0. b0.id = n + 1 /\ b0.task = t
    OBVIOUS
  <1> HIDE DEF m, e, b0
  <1>4. \A u \in Tasks : LoggedComplete(m.execution_log, u)
                            <=> LoggedComplete(l.execution_log, u)
    BY <1>1, <1>2, <1>3, AppendOther
  <1>5. CommitInv(m)
    <2>1. CompletesOnce(m.execution_log)
      BY <1>1, <1>2, <1>3, AppendOther DEF LedgerInv, CommitInv
    <2> QED
      BY <1>1, <1>3, <1>4, <2>1 DEF LedgerInv, CommitInv, already_committed
  <1>6. StartsAfterDeps(m.execution_log, g)
    BY <1>1, <1>2, <1>3, AppendDeps DEF LedgerInv
  <1> QED
    BY <1>4, <1>5, <1>6 DEF LedgerInv, m

\* Starting a task that is neither completed nor committed, its dependencies being
\* logged complete.
LEMMA BeginKeeps ==
    ASSUME NEW l \in Ledger, NEW g, NEW t \in Tasks,
           LedgerInv(l, g), l.task[t] # "completed", ~already_committed(l, t),
           \A d \in g[t] : LoggedComplete(l.execution_log, d)
    PROVE  LET m == begin_task(l, t) IN
           /\ LedgerInv(m, g)
           /\ \A u \in Tasks : LoggedComplete(l.execution_log, u)
                                  => LoggedComplete(m.execution_log, u)
           /\ m.task[t] = "in_progress"
           /\ ~already_committed(m, t)
           /\ m.saga_journal # <<>> /\ m.agent_leases # <<>>
           /\ m.saga_journal[Len(m.saga_journal)].task = t
  <1> DEFINE m == begin_task(l, t)
             e == event("task_started", t, "none")
             x == [task |-> t, status |-> "pending"]
             y == [task |-> t, expires_at |-> NoExpiry, released |-> FALSE]
  <1>1. /\ m.task = [l.task EXCEPT ![t] = "in_progress"]
        /\ m.execution_log = Append(l.execution_log, e)
        /\ m.saga_journal = Append(l.saga_journal, x)
        /\ m.blockers = l.blockers
        /\ m.allowed = l.allowed
    BY BeginFields
  <1>2. e \in Event /\ e.type = "task_started" /\ e.task = t
    BY EventType DEF EventTypes, Touched
  <1>3. /\ l.execution_log \in Seq(Event)
        /\ l.task \in [Tasks -> TaskStates]
        /\ l.saga_journal \in Seq(Txn)
        /\ l.agent_leases \in Seq(Lease)
    BY DEF Ledger
  <1>4. x \in Txn /\ x.status # "committed" /\ x.task = t
    BY DEF Txn, TxnStates
  <1>0. m.agent_leases = Append(l.agent_leases, y) /\ y \in Lease
    BY DEF Ledger, Lease, begin_task, append_event, add_history, set_status
  <1> HIDE DEF m, e, x, y
  <1>5. \A u \in Tasks : LoggedComplete(m.execution_log, u)
                            <=> LoggedComplete(l.execution_log, u)
    BY <1>1, <1>2, <1>3, AppendOther, SMTT(30)
  <1>6. \A u \in Tasks : already_committed(m, u) <=> already_committed(l, u)
    <2>1. \A u \in Tasks : CommittedIn(m.saga_journal, u) <=> CommittedIn(l.saga_journal, u)
      BY <1>1, <1>3, <1>4, AppendTxn
    <2> QED
      BY <2>1, CommittedInJournal
  <1>7. CommitInv(m)
    <2>1. CompletesOnce(m.execution_log)
      BY <1>1, <1>2, <1>3, AppendOther DEF LedgerInv, CommitInv
    <2>2. JournalCommitsOnce(m.saga_journal)
      BY <1>1, <1>3, <1>4, AppendTxn DEF LedgerInv, CommitInv
    <2> QED
      BY <1>1, <1>3, <1>5, <1>6, <2>1, <2>2 DEF LedgerInv, CommitInv
  <1>8. StartsAfterDeps(m.execution_log, g)
    BY <1>1, <1>2, <1>3, AppendDeps DEF LedgerInv
  <1>10. m.saga_journal # <<>> /\ m.saga_journal[Len(m.saga_journal)] = x
    BY <1>1, <1>3, <1>4, AppendAt
  <1>11. m.agent_leases # <<>>
    BY <1>3, <1>0, AppendAt
  <1>12. m.task[t] = "in_progress"
    BY <1>1, <1>3
  <1> QED
    BY <1>4, <1>5, <1>6, <1>7, <1>8, <1>10, <1>11, <1>12 DEF LedgerInv, m

\* A task is in flight: what _run_task may rely on when the executor returns.
InFlight(l, t) ==
    /\ l.task[t] = "in_progress"
    /\ ~already_committed(l, t)
    /\ l.saga_journal # <<>> /\ l.agent_leases # <<>>
    /\ l.saga_journal[Len(l.saga_journal)].task = t

\* Success of the task in flight.
LEMMA SucceedsKeeps ==
    ASSUME NEW l \in Ledger, NEW g, NEW t \in Tasks, NEW r \in ExecutorResult,
           LedgerInv(l, g), InFlight(l, t)
    PROVE  LET m == task_succeeds(l, t, r) IN
           /\ LedgerInv(m, g)
           /\ \A u \in Tasks : LoggedComplete(m.execution_log, u) <=>
                                  (LoggedComplete(l.execution_log, u) \/ u = t)
  <1> DEFINE m == task_succeeds(l, t, r)
             f == event("file_edited", t, r.touched)
             e == event("task_completed", t, "none")
             log == IF r.touched = "none" THEN l.execution_log
                    ELSE Append(l.execution_log, f)
             j == l.saga_journal
             k == [j EXCEPT ![Len(j)] = [task |-> j[Len(j)].task, status |-> "committed"]]
  <1>1. /\ m.task = [l.task EXCEPT ![t] = "completed"]
        /\ m.execution_log = Append(log, e)
        /\ m.saga_journal = [j EXCEPT ![Len(j)].status = "committed"]
        /\ m.blockers = l.blockers
        /\ m.allowed = l.allowed
    BY SucceedsFields DEF SuccessLog
  <1>2. m.saga_journal = k
    BY <1>1, SetTxnType DEF InFlight, set_txn, TxnStates, Ledger
  <1>3. /\ l.execution_log \in Seq(Event)
        /\ l.task \in [Tasks -> TaskStates]
        /\ j \in Seq(Txn)
    BY DEF Ledger
  <1>4. f \in Event /\ f.type = "file_edited"
    BY EventType DEF EventTypes, ExecutorResult
  <1>5. e \in Event /\ e.type = "task_completed" /\ e.task = t
    BY EventType DEF EventTypes, Touched
  <1>6. log \in Seq(Event)
    BY <1>3, <1>4, AppendAt
  <1>7. \A u \in Tasks : LoggedComplete(log, u) <=> LoggedComplete(l.execution_log, u)
    BY <1>3, <1>4, AppendOther
  <1>8. CompletesOnce(log) /\ StartsAfterDeps(log, g)
    BY <1>3, <1>4, AppendOther, AppendDeps DEF LedgerInv, CommitInv
  <1> HIDE DEF m, e, f, log
  <1>9. ~LoggedComplete(log, t)
    BY <1>7 DEF InFlight, LedgerInv, CommitInv
  <1>10. \A u \in Tasks : LoggedComplete(m.execution_log, u) <=>
                              (LoggedComplete(l.execution_log, u) \/ u = t)
    BY <1>1, <1>5, <1>6, <1>7, <1>9, AppendCompleted
  <1>11. /\ \A u \in Tasks : already_committed(m, u) <=> (already_committed(l, u) \/ u = t)
         /\ JournalCommitsOnce(m.saga_journal)
    BY <1>2, <1>3, SettleTxn, CommittedInJournal DEF InFlight, LedgerInv, CommitInv, TxnStates
  <1>12. CommitInv(m)
    <2>1. CompletesOnce(m.execution_log)
      BY <1>1, <1>5, <1>6, <1>8, <1>9, AppendCompleted
    <2> QED
      BY <1>1, <1>3, <1>10, <1>11, <2>1 DEF LedgerInv, CommitInv
  <1>13. StartsAfterDeps(m.execution_log, g)
    BY <1>1, <1>5, <1>6, <1>8, AppendDeps
  <1> QED
    BY <1>10, <1>12, <1>13 DEF LedgerInv, m

\* Failure of the task in flight, which gets the next id.
LEMMA FailsKeeps ==
    ASSUME NEW l \in Ledger, NEW g, NEW n \in Nat, NEW k \in Nat, k = n + 1,
           NEW t \in Tasks, NEW r \in ExecutorResult,
           LedgerInv(l, g), InFlight(l, t)
    PROVE  LET m == task_fails(l, t, r, k) IN
           /\ LedgerInv(m, g)
           /\ \A u \in Tasks : LoggedComplete(l.execution_log, u)
                                  => LoggedComplete(m.execution_log, u)
  <1> DEFINE m == task_fails(l, t, r, k)
             f == event("compensation", t, r.touched)
             e == event("task_blocked", t, "none")
             log == UndoneLog(l, t, r)
             b0 == [at |-> Len(log), id |-> k, task |-> t]
             j == l.saga_journal
             j2 == [j EXCEPT ![Len(j)] = [task |-> j[Len(j)].task, status |-> "compensated"]]
  <1>1. /\ m.task = [l.task EXCEPT ![t] = "blocked"]
        /\ m.execution_log = Append(log, e)
        /\ m.saga_journal = UndoneJournal(l, r)
        /\ m.blockers = l.blockers \cup {b0}
        /\ m.allowed = l.allowed
    BY FailsFields
  <1>2. b0.id = k /\ b0.task = t
    OBVIOUS
  <1>3. m.saga_journal = IF r.touched = "none" THEN j ELSE j2
    BY <1>1, SetTxnType DEF InFlight, UndoneJournal, set_txn, TxnStates, Ledger
  <1>4. /\ l.execution_log \in Seq(Event)
        /\ l.task \in [Tasks -> TaskStates]
        /\ j \in Seq(Txn)
    BY DEF Ledger
  <1>5. f \in Event /\ f.type = "compensation"
    BY EventType DEF EventTypes, ExecutorResult
  <1>6. e \in Event /\ e.type = "task_blocked"
    BY EventType DEF EventTypes, Touched
  <1>7. log \in Seq(Event)
    BY <1>4, <1>5, AppendAt DEF UndoneLog
  <1>8. \A u \in Tasks : LoggedComplete(log, u) <=> LoggedComplete(l.execution_log, u)
    BY <1>4, <1>5, AppendOther DEF UndoneLog
  <1>9. CompletesOnce(log) /\ StartsAfterDeps(log, g)
    BY <1>4, <1>5, AppendOther, AppendDeps DEF UndoneLog, LedgerInv, CommitInv
  <1> HIDE DEF m, e, f, log, b0
  <1>10. \A u \in Tasks : LoggedComplete(m.execution_log, u)
                              <=> LoggedComplete(l.execution_log, u)
    BY <1>1, <1>6, <1>7, <1>8, AppendOther
  <1>11. /\ \A u \in Tasks : already_committed(m, u) <=> already_committed(l, u)
         /\ JournalCommitsOnce(m.saga_journal)
    <2>1. CASE r.touched = "none"
      BY <2>1, <1>3 DEF LedgerInv, CommitInv, already_committed
    <2>2. CASE r.touched # "none"
      BY <2>2, <1>3, <1>4, SettleTxn, CommittedInJournal
         DEF InFlight, LedgerInv, CommitInv, TxnStates
    <2> QED
      BY <2>1, <2>2
  <1>12. CommitInv(m)
    <2>1. CompletesOnce(m.execution_log)
      BY <1>1, <1>6, <1>7, <1>9, AppendOther
    <2> QED
      BY <1>1, <1>4, <1>10, <1>11, <2>1 DEF LedgerInv, CommitInv
  <1>13. StartsAfterDeps(m.execution_log, g)
    BY <1>1, <1>6, <1>7, <1>9, AppendDeps
  <1> QED
    BY <1>10, <1>12, <1>13 DEF LedgerInv, m

\* The end of _drive records what it finds and touches neither log nor journal.
LEMMA ReturnKeeps ==
    ASSUME NEW l \in Ledger, NEW g, NEW s \in RunStates, LedgerInv(l, g)
    PROVE  LET m == reconcile([l EXCEPT !.run_state = s]) IN
           /\ m \in Ledger
           /\ LedgerInv(m, g)
           /\ m.execution_log = l.execution_log
  <1> DEFINE m == reconcile([l EXCEPT !.run_state = s])
             pending == {t \in Tasks : l.task[t] \in {"pending", "in_progress"}}
  <1>1. /\ m \in Ledger
        /\ m.execution_log = l.execution_log
        /\ m.saga_journal = l.saga_journal
        /\ m.task = l.task
        /\ m.blockers = l.blockers
        /\ m.allowed => pending = {} /\ l.blockers = {}
    <2> DEFINE p == [l EXCEPT !.run_state = s]
    <2>1. p \in Ledger /\ p.task = l.task /\ p.blockers = l.blockers
                       /\ p.execution_log = l.execution_log /\ p.saga_journal = l.saga_journal
      BY DEF Ledger
    <2>2. m = [p EXCEPT !.allowed = (pending = {} /\ l.blockers = {}),
                        !.status = IF pending = {} /\ l.blockers = {} THEN "completed"
                                   ELSE IF l.blockers # {} THEN "blocked" ELSE p.status]
      BY <2>1 DEF reconcile
    <2> HIDE DEF p, m, pending
    <2>3. CASE pending = {} /\ l.blockers = {}
      <3>1. m = [p EXCEPT !.allowed = TRUE, !.status = "completed"]
        BY <2>2, <2>3
      <3> QED
        BY <2>1, <2>3, <3>1 DEF Ledger
    <2>4. CASE ~(pending = {} /\ l.blockers = {})
      <3>1. m = [p EXCEPT !.allowed = FALSE,
                          !.status = IF l.blockers # {} THEN "blocked" ELSE p.status]
        BY <2>2, <2>4
      <3> QED
        BY <2>1, <3>1 DEF Ledger
    <2> QED
      BY <2>3, <2>4
  <1>2. CommitInv(m) /\ StartsAfterDeps(m.execution_log, g)
    BY <1>1 DEF LedgerInv, CommitInv, already_committed
  <1> QED
    BY <1>1, <1>2 DEF LedgerInv

\* Landing appends one event and counts a commit.
LEMMA LandKeeps ==
    ASSUME NEW l \in Ledger, NEW g, LedgerInv(l, g)
    PROVE  LET m == land(l) IN
           /\ m \in Ledger
           /\ LedgerInv(m, g)
           /\ \A u \in Tasks : LoggedComplete(l.execution_log, u)
                                  => LoggedComplete(m.execution_log, u)
  <1> DEFINE m == land(l)
             e == event("commit", NoTask, "none")
  <1>1. e \in Event /\ e.type = "commit"
    BY EventType DEF EventTypes, Touched
  <1>2. l.execution_log \in Seq(Event) /\ Append(l.execution_log, e) \in Seq(Event)
    BY <1>1, AppendAt DEF Ledger
  <1>3. /\ m \in Ledger
        /\ m.execution_log = Append(l.execution_log, e)
        /\ m.saga_journal = l.saga_journal
        /\ m.task = l.task
        /\ m.blockers = l.blockers
        /\ m.allowed = l.allowed
    <2>1. l.commits + 1 \in Nat
      BY DEF Ledger
    <2>2. m = [l EXCEPT !.execution_log = Append(l.execution_log, e),
                        !.commits = l.commits + 1, !.requires_landing = TRUE]
      BY DEF Ledger, land, append_event
    <2> HIDE DEF m, e
    <2> QED
      BY <1>2, <2>1, <2>2 DEF Ledger
  <1> HIDE DEF m, e
  <1>4. \A u \in Tasks : LoggedComplete(m.execution_log, u)
                            <=> LoggedComplete(l.execution_log, u)
    BY <1>1, <1>2, <1>3, AppendOther
  <1>5. CompletesOnce(m.execution_log) /\ StartsAfterDeps(m.execution_log, g)
    BY <1>1, <1>2, <1>3, AppendOther, AppendDeps DEF LedgerInv, CommitInv
  <1>6. CommitInv(m)
    BY <1>3, <1>4, <1>5 DEF LedgerInv, CommitInv, already_committed
  <1> QED
    BY <1>3, <1>4, <1>5, <1>6 DEF LedgerInv, m

\* The steps of success one after the other keep the type of the ledger.
LEMMA SucceedsType ==
    ASSUME NEW l \in Ledger, NEW t \in Tasks, NEW r \in ExecutorResult,
           l.saga_journal # <<>>, l.agent_leases # <<>>
    PROVE  task_succeeds(l, t, r) \in Ledger
  <1> DEFINE f == event("file_edited", t, r.touched)
             e == event("task_completed", t, "none")
             h == [task |-> t, from |-> "in_progress", to |-> "completed"]
             edited == IF r.touched = "none" THEN l ELSE append_event(l, f)
             proved == IF r.evidence
                       THEN [edited EXCEPT !.evidence = @ \cup {t}, !.accepted = @ \cup {t}]
                       ELSE edited
             noted  == add_history(set_status(proved, t, "completed"),
                                   t, "in_progress", "completed")
             done   == append_event(noted, e)
             settled == set_txn(done, "committed")
             Same(m) == m.saga_journal = l.saga_journal /\ m.agent_leases = l.agent_leases
  <1>1. f \in Event /\ e \in Event /\ h \in Change
    BY EventType DEF EventTypes, ExecutorResult, Touched, Change, TaskStates
  <1>2. edited \in Ledger /\ Same(edited)
    <2>1. Append(l.execution_log, f) \in Seq(Event)
      BY <1>1, AppendAt DEF Ledger
    <2> HIDE DEF f
    <2> QED
      BY <2>1 DEF Ledger, append_event
  <1> HIDE DEF edited
  <1>3. proved \in Ledger /\ Same(proved)
    BY <1>2 DEF Ledger
  <1> HIDE DEF proved
  <1>4. noted \in Ledger /\ Same(noted)
    <2>1. Append(proved.execution_history, h) \in Seq(Change)
      BY <1>1, <1>3, AppendAt DEF Ledger
    <2> QED
      BY <1>3, <2>1 DEF Ledger, add_history, set_status, TaskStates
  <1> HIDE DEF noted
  <1>5. done \in Ledger /\ Same(done)
    <2>1. Append(noted.execution_log, e) \in Seq(Event)
      BY <1>1, <1>4, AppendAt DEF Ledger
    <2> HIDE DEF e
    <2> QED
      BY <1>4, <2>1 DEF Ledger, append_event
  <1> HIDE DEF done
  <1>6. settled \in Ledger /\ settled.agent_leases = l.agent_leases
    <2>1. settled \in Ledger
      BY <1>5, SetTxnType DEF TxnStates
    <2> QED
      BY <1>5, <2>1 DEF Ledger, set_txn
  <1> HIDE DEF settled
  <1>7. release(settled) \in Ledger
    BY <1>6, ReleaseType
  <1> QED
    BY <1>7 DEF task_succeeds, edited, proved, noted, done, settled

\* The same for failure.
LEMMA FailsType ==
    ASSUME NEW l \in Ledger, NEW t \in Tasks, NEW r \in ExecutorResult, NEW n \in Nat,
           l.saga_journal # <<>>, l.agent_leases # <<>>
    PROVE  task_fails(l, t, r, n) \in Ledger
  <1> DEFINE f == event("compensation", t, r.touched)
             noted  == append_event(l, f)
             undone == IF r.touched = "none" THEN l ELSE set_txn(noted, "compensated")
             listed == escalate(undone, t, n)
  <1>1. noted \in Ledger /\ noted.saga_journal = l.saga_journal
                         /\ noted.agent_leases = l.agent_leases
    <2>1. f \in Event
      BY EventType DEF EventTypes, ExecutorResult
    <2>2. Append(l.execution_log, f) \in Seq(Event)
      BY <2>1, AppendAt DEF Ledger
    <2> HIDE DEF f
    <2> QED
      BY <2>2 DEF Ledger, append_event
  <1> HIDE DEF noted
  <1>2. undone \in Ledger /\ undone.agent_leases = l.agent_leases
    <2>1. set_txn(noted, "compensated") \in Ledger
      BY <1>1, SetTxnType DEF TxnStates
    <2>2. set_txn(noted, "compensated").agent_leases = l.agent_leases
      BY <1>1, <2>1 DEF Ledger, set_txn
    <2> QED
      BY <2>1, <2>2
  <1> HIDE DEF undone
  <1>3. listed \in Ledger /\ listed.agent_leases = l.agent_leases
    <2>1. listed \in Ledger
      BY <1>2, BlockType DEF escalate, TaskStates
    <2> QED
      BY <1>2, <2>1 DEF Ledger, escalate, block, append_event, add_history, set_status
  <1> HIDE DEF listed
  <1>4. release(listed) \in Ledger
    BY <1>3, ReleaseType
  <1> QED
    BY <1>4 DEF task_fails, noted, undone, listed

\* A non-empty set of blockers has a first one in the list.
LEMMA FirstBlocker ==
    ASSUME NEW S \in SUBSET Blocker, S # {}
    PROVE  \E b \in S : \A c \in S : b.at <= c.at
  <1> DEFINE T == {b.at : b \in S}
             R == OpToRel(<, Nat)
  <1>1. T \subseteq Nat /\ T # {}
    BY DEF Blocker
  <1>2. PICK x \in T : \A y \in T : ~(<<y, x>> \in R)
    BY <1>1, NatLessThanWellFounded, WFMin, Zenon
  <1>3. \A y, z \in Nat : y < z => <<y, z>> \in R
    BY DEF OpToRel
  <1>4. \A y \in T : x <= y
    <2> HIDE DEF T, R
    <2> TAKE y \in T
    <2>1. x \in Nat /\ y \in Nat
      BY <1>1
    <2>2. ~(y < x)
      BY <1>2, <1>3, <2>1, Zenon
    <2> QED
      BY <2>1, <2>2
  <1> QED
    BY <1>2, <1>4

\* A decision about a blocker id: an override closes the blockers with that id and puts
\* the task of the first back to pending.
LEMMA ResolveKeeps ==
    ASSUME NEW l \in Ledger, NEW g, NEW id \in Nat, NEW decision \in Decisions,
           LedgerInv(l, g)
    PROVE  LET m == resolve_blocker(l, id, decision) IN
           /\ m \in Ledger
           /\ LedgerInv(m, g)
  <1> DEFINE m == resolve_blocker(l, id, decision)
             matching == {b \in l.blockers : b.id = id}
             b0 == CHOOSE b \in matching : \A c \in matching : b.at <= c.at
             t == IF matching # {} THEN b0.task ELSE NoTask
             e == event("resolution", t, "none")
             x == [at |-> Len(l.execution_log) + 1, id |-> id, decision |-> decision]
             noted == [l EXCEPT !.resolutions = Append(@, x)]
             decided == IF decision = "override" /\ matching # {}
                        THEN [noted EXCEPT !.blockers = @ \ matching, !.task[t] = "pending"]
                        ELSE noted
  <1>1. matching # {} => b0 \in matching
    <2> SUFFICES ASSUME matching # {}
                 PROVE  \E b \in matching : \A c \in matching : b.at <= c.at
      OBVIOUS
    <2> QED
      BY FirstBlocker DEF Ledger
  <1>2. /\ matching # {} => t \in Tasks
        /\ t \in Tasks \cup {NoTask}
    BY <1>1 DEF Ledger, Blocker
  <1>3. e \in Event /\ e.type = "resolution"
    BY <1>2, EventType DEF EventTypes, Touched
  <1>4. m = append_event(decided, e)
    BY DEF resolve_blocker
  <1> HIDE DEF m, e, t, b0
  <1>7. /\ noted \in Ledger
        /\ noted.execution_log = l.execution_log
        /\ noted.saga_journal = l.saga_journal
        /\ noted.task = l.task
        /\ noted.blockers = l.blockers
        /\ noted.allowed = l.allowed
    <2>1. Append(l.resolutions, x) \in Seq(Resolution)
      <3>1. Len(l.execution_log) + 1 \in Nat
        BY LenProperties DEF Ledger
      <3>2. x \in Resolution
        BY <3>1 DEF Resolution
      <3> HIDE DEF x
      <3> QED
        BY <3>2, AppendProperties DEF Ledger
    <2> HIDE DEF x
    <2> QED
      BY <2>1 DEF Ledger
  <1> HIDE DEF noted, x
  <1>8. /\ decided \in Ledger
        /\ decided.execution_log = l.execution_log
        /\ decided.saga_journal = l.saga_journal
        /\ decided.allowed = l.allowed
        /\ \/ decided.task = l.task /\ decided.blockers = l.blockers
           \/ /\ matching # {}
              /\ decided.task = [l.task EXCEPT ![t] = "pending"]
              /\ decided.blockers = l.blockers \ matching
    <2>1. CASE decision = "override" /\ matching # {}
      <3>1. decided = [noted EXCEPT !.blockers = @ \ matching, !.task[t] = "pending"]
        BY <2>1
      <3> HIDE DEF decided, matching
      <3> QED
        BY <1>2, <1>7, <2>1, <3>1 DEF Ledger, TaskStates
    <2>2. CASE ~(decision = "override" /\ matching # {})
      BY <1>7, <2>2
    <2> QED
      BY <2>1, <2>2
  <1> HIDE DEF decided
  <1>9. l.execution_log \in Seq(Event) /\ l.task \in [Tasks -> TaskStates]
    BY DEF Ledger
  <1>10. Append(l.execution_log, e) \in Seq(Event)
    BY <1>3, <1>9, AppendAt
  <1>11. /\ m \in Ledger
         /\ m.execution_log = Append(l.execution_log, e)
         /\ m.saga_journal = l.saga_journal
         /\ m.allowed = l.allowed
         /\ m.task = decided.task
         /\ m.blockers = decided.blockers
    BY <1>4, <1>8, <1>10 DEF Ledger, append_event
  <1>12. \A u \in Tasks : LoggedComplete(m.execution_log, u)
                             <=> LoggedComplete(l.execution_log, u)
    BY <1>3, <1>9, <1>11, AppendOther
  <1>13. CompletesOnce(m.execution_log) /\ StartsAfterDeps(m.execution_log, g)
    BY <1>3, <1>9, <1>11, AppendOther, AppendDeps DEF LedgerInv, CommitInv
  <1>14. \A u \in Tasks : m.task[u] = l.task[u] \/ m.task[u] = "pending"
    BY <1>8, <1>9, <1>11
  <1>15. CommitInv(m)
    BY <1>11, <1>12, <1>13, <1>14 DEF LedgerInv, CommitInv, already_committed
  <1> QED
    BY <1>11, <1>13, <1>15 DEF LedgerInv, m

\* A fresh ledger satisfies the invariant.
LEMMA InitLedgerInv ==
    ASSUME NEW g
    PROVE  LedgerInv(init_ledger, g)
  <1>1. DOMAIN init_ledger.execution_log = {} /\ DOMAIN init_ledger.saga_journal = {}
    BY DEF init_ledger
  <1>2. /\ init_ledger.task = [t \in Tasks |-> "pending"]
        /\ init_ledger.blockers = {}
        /\ init_ledger.allowed = FALSE
    BY DEF init_ledger
  <1> QED
    BY <1>1, <1>2 DEF LedgerInv, CommitInv, StartsAfterDeps, CompletesOnce,
                      JournalCommitsOnce, LoggedComplete, already_committed

\* Only the parts of a ledger the invariant looks at matter to it.
LEMMA SameParts ==
    ASSUME NEW l, NEW m, NEW g,
           LedgerInv(l, g),
           m.execution_log = l.execution_log, m.saga_journal = l.saga_journal,
           m.task = l.task, m.blockers = l.blockers, m.allowed = l.allowed
    PROVE  LedgerInv(m, g)
  BY DEF LedgerInv, CommitInv, already_committed

-----------------------------------------------------------------------------
(* The invariant holds initially and every step keeps it.                  *)

\* It holds before the first command.
LEMMA InitInv == Init => IInv
  <1> SUFFICES ASSUME Init PROVE IInv
    OBVIOUS
  <1>1. 0 \in 0 .. MaxRetries + 1
    BY BoundsAssumption
  <1>2. TypeOK
    <2>1. /\ {commands, resolutions, leases, controls, crashes} \subseteq Nat
          /\ now \in Nat /\ ids \in Nat /\ attempt \in 0 .. MaxRetries + 1
      BY <1>1 DEF Init
    <2>2. controlled \in BOOLEAN /\ remaining \subseteq Tasks /\ completed \subseteq Tasks
      BY DEF Init
    <2>3. current \in Tasks \cup {NoTask} /\ phase # "exec"
      BY DEF Init
    <2> QED
      BY <2>1, <2>2, <2>3 DEF Init, TypeOK
  <1> QED
    BY <1>2 DEF Init, IInv, ProcInv

\* A command starts, from whatever well-formed ledger.
LEMMA StartInv ==
    ASSUME IInv,
           NEW c \in {"run", "resume"}, NEW l \in Ledger, NEW done, NEW ctrl \in BOOLEAN,
           Start(c, l, done, ctrl),
           LedgerInv(l, deps),
           done \subseteq {t \in Tasks : l.task[t] = "completed"},
           control' \in {"running", "paused", "aborted"}
    PROVE  IInv'
  <1>0. TypeOK /\ (stored # NoLedger => LedgerInv(stored, deps)) /\ ids \in Nat
    BY DEF IInv, TypeOK
  <1>1. l # NoLedger
    BY NoLedgerAssumption
  <1>2. ids' \in Nat /\ deps' = deps
    BY <1>0, BoundsAssumption DEF Start
  <1>3. LedgerInv(ledger', deps')
    BY <1>2 DEF Start, LedgerInv
  <1>4. stored' # NoLedger => LedgerInv(stored', deps')
    BY <1>0, <1>2 DEF Start, LedgerInv
  <1>5. TypeOK'
    BY <1>0, <1>1, <1>2 DEF Start, TypeOK
  <1>6. ProcInv'
    <2>1. \A t \in done : LoggedComplete(l.execution_log, t)
      BY DEF LedgerInv, CommitInv
    <2> QED
      BY <2>1 DEF Start, ProcInv
  <1> QED
    BY <1>3, <1>4, <1>5, <1>6 DEF IInv

\* run starts from a fresh ledger.
LEMMA RunInv == IInv /\ Run => IInv'
  <1> SUFFICES ASSUME IInv, Run PROVE IInv'
    OBVIOUS
  <1>1. PICK ctrl \in Controls : Start("run", init_ledger, {}, ctrl)
    BY DEF Run
  <1>2. ctrl \in BOOLEAN /\ control' \in {"running", "paused", "aborted"} /\ ids \in Nat
    BY BoundsAssumption DEF Run, IInv, TypeOK
  <1> QED
    BY <1>1, <1>2, InitLedgerType, InitLedgerInv, StartInv

\* resume starts from the stored ledger.
LEMMA ResumeInv == IInv /\ Resume => IInv'
  <1> SUFFICES ASSUME IInv, Resume PROVE IInv'
    OBVIOUS
  <1> DEFINE l == [stored EXCEPT !.run_state = "running"]
             done == {t \in Tasks : l.task[t] = "completed"}
  <1>1. stored \in Ledger /\ LedgerInv(stored, deps)
    BY DEF Resume, IInv, TypeOK
  <1>2. /\ l \in Ledger
        /\ l.execution_log = stored.execution_log
        /\ l.saga_journal = stored.saga_journal
        /\ l.task = stored.task
        /\ l.blockers = stored.blockers
        /\ l.allowed = stored.allowed
    BY <1>1 DEF Ledger, RunStates
  <1>3. Start("resume", l, done, TRUE) /\ control' = "running"
    BY <1>2 DEF Resume
  <1> HIDE DEF l
  <1>4. LedgerInv(l, deps)
    BY <1>1, <1>2, SameParts
  <1>5. done \subseteq {t \in Tasks : l.task[t] = "completed"}
    OBVIOUS
  <1> HIDE DEF done
  <1> QED
    BY <1>2, <1>3, <1>4, <1>5, StartInv

\* What a visit to a task leaves of the invariant, given what it makes of the ledger.
LEMMA VisitInv ==
    ASSUME IInv, phase \in {"drive", "exec"}, OutsideLoop,
           phase' = "drive",
           ledger' \in Ledger,
           ids' \in Nat, ids <= ids',
           LedgerInv(ledger', deps),
           remaining' \subseteq Tasks,
           completed' \subseteq Tasks,
           \A u \in completed' : LoggedComplete(ledger'.execution_log, u),
           UNCHANGED <<current, attempt>>
    PROVE  IInv'
  <1>1. TypeOK /\ deps' = deps /\ stored' = stored
    BY DEF IInv, OutsideLoop
  <1>2. TypeOK'
    BY <1>1, NoLedgerAssumption DEF TypeOK, OutsideLoop, boundVars
  <1>3. stored' # NoLedger => LedgerInv(stored', deps')
    BY <1>1 DEF IInv
  <1>4. ProcInv'
    BY DEF ProcInv
  <1> QED
    BY <1>1, <1>2, <1>3, <1>4 DEF IInv

\* The facts every visit to a task starts from.
LEMMA Visiting ==
    ASSUME IInv, NEW t \in Tasks, Visit(t)
    PROVE  /\ phase = "drive" /\ ids \in Nat
           /\ ledger \in Ledger /\ LedgerInv(ledger, deps)
           /\ remaining' \subseteq Tasks
           /\ completed \subseteq Tasks
           /\ \A u \in completed : LoggedComplete(ledger.execution_log, u)
  BY DEF IInv, TypeOK, ProcInv, Visit

\* The visits that execute nothing: completed before, committed before, blocked.
LEMMA SkipInv == IInv /\ (SkipCompleted \/ SkipCommitted) => IInv'
  <1> SUFFICES ASSUME IInv, SkipCompleted \/ SkipCommitted PROVE IInv'
    OBVIOUS
  <1>1. PICK t \in Tasks : /\ Visit(t) /\ OutsideLoop
                           /\ \/ /\ ledger.task[t] = "completed"
                                 /\ completed' = completed \cup {t}
                              \/ completed' = completed
                           /\ UNCHANGED <<phase, ledger, current, attempt, ids>>
    BY DEF SkipCompleted, SkipCommitted, Reached
  <1>2. /\ phase = "drive" /\ ids \in Nat
        /\ ledger \in Ledger /\ LedgerInv(ledger, deps)
        /\ remaining' \subseteq Tasks
        /\ completed \subseteq Tasks
        /\ \A u \in completed : LoggedComplete(ledger.execution_log, u)
    BY <1>1, Visiting
  <1>3. ledger.task[t] = "completed" => LoggedComplete(ledger.execution_log, t)
    BY <1>2 DEF LedgerInv, CommitInv
  <1>4. /\ completed' \subseteq Tasks
        /\ \A u \in completed' : LoggedComplete(ledger'.execution_log, u)
    BY <1>1, <1>2, <1>3
  <1>5. /\ phase' = "drive" /\ ledger' \in Ledger /\ ids' \in Nat /\ ids <= ids'
        /\ LedgerInv(ledger', deps)
        /\ UNCHANGED <<current, attempt>>
    BY <1>1, <1>2
  <1> QED
    BY <1>1, <1>2, <1>4, <1>5, VisitInv

\* A task is blocked for its dependencies or for a lease.
LEMMA BlockedInv == IInv /\ (BlockUnmetDeps \/ LeaseConflict) => IInv'
  <1> SUFFICES ASSUME IInv, BlockUnmetDeps \/ LeaseConflict PROVE IInv'
    OBVIOUS
  <1>1. PICK t \in Tasks, from \in TaskStates :
            /\ Visit(t) /\ OutsideLoop
            /\ ledger.task[t] # "completed"
            /\ ids' = ids + 1
            /\ ledger' = block(ledger, t, ids', from)
            /\ UNCHANGED <<phase, completed, current, attempt>>
    <2>1. "pending" \in TaskStates /\ "in_progress" \in TaskStates
      BY DEF TaskStates
    <2> QED
      BY <2>1 DEF BlockUnmetDeps, LeaseConflict, Reached, block_unmet_deps, escalate
  <1>2. /\ phase = "drive" /\ ids \in Nat
        /\ ledger \in Ledger /\ LedgerInv(ledger, deps)
        /\ remaining' \subseteq Tasks
        /\ completed \subseteq Tasks
        /\ \A u \in completed : LoggedComplete(ledger.execution_log, u)
    BY <1>1, Visiting
  <1>3. ids' \in Nat /\ ids <= ids'
    BY <1>1, <1>2
  <1>4. ledger' \in Ledger
    BY <1>1, <1>2, <1>3, BlockType
  <1>5. /\ LedgerInv(ledger', deps)
        /\ \A u \in Tasks : LoggedComplete(ledger.execution_log, u)
                               => LoggedComplete(ledger'.execution_log, u)
    BY <1>1, <1>2, BlockKeeps
  <1>6. completed' \subseteq Tasks /\ phase' = "drive"
        /\ \A u \in completed' : LoggedComplete(ledger'.execution_log, u)
    BY <1>1, <1>2, <1>5
  <1> QED
    BY <1>1, <1>2, <1>3, <1>4, <1>5, <1>6, VisitInv

\* A task starts: its dependencies are in `completed', hence in the log.
LEMMA BeginInv == IInv /\ BeginTask => IInv'
  <1> SUFFICES ASSUME IInv, BeginTask PROVE IInv'
    OBVIOUS
  <1>1. PICK t \in Tasks :
            /\ Visit(t) /\ OutsideLoop
            /\ ledger.task[t] # "completed"
            /\ deps[t] \subseteq completed
            /\ ~already_committed(ledger, t)
            /\ ledger' = begin_task(ledger, t)
            /\ phase' = "exec" /\ current' = t /\ attempt' = 1
            /\ UNCHANGED <<completed, ids>>
    BY DEF BeginTask, Reached, deps_met
  <1>2. /\ phase = "drive" /\ ids \in Nat
        /\ ledger \in Ledger /\ LedgerInv(ledger, deps)
        /\ remaining' \subseteq Tasks
        /\ completed \subseteq Tasks
        /\ \A u \in completed : LoggedComplete(ledger.execution_log, u)
    BY <1>1, Visiting
  <1>3. ledger' \in Ledger
    BY <1>1, <1>2, BeginType
  <1>4. \A d \in deps[t] : LoggedComplete(ledger.execution_log, d)
    BY <1>1, <1>2
  <1>5. /\ LedgerInv(ledger', deps)
        /\ \A u \in Tasks : LoggedComplete(ledger.execution_log, u)
                               => LoggedComplete(ledger'.execution_log, u)
        /\ ledger'.task[t] = "in_progress"
        /\ ~already_committed(ledger', t)
        /\ ledger'.saga_journal # <<>> /\ ledger'.agent_leases # <<>>
        /\ ledger'.saga_journal[Len(ledger'.saga_journal)].task = t
    BY <1>1, <1>2, <1>4, BeginKeeps
  <1>6. TypeOK'
    <2>1. 1 \in 0 .. MaxRetries + 1
      BY BoundsAssumption
    <2>2. TypeOK
      BY DEF IInv
    <2> QED
      BY <1>1, <1>2, <1>3, <2>1, <2>2, NoLedgerAssumption DEF TypeOK, OutsideLoop, boundVars
  <1>7. ProcInv'
    BY <1>1, <1>2, <1>5 DEF ProcInv
  <1>8. deps' = deps /\ stored' = stored /\ ids' = ids
    BY <1>1 DEF OutsideLoop
  <1> QED
    BY <1>5, <1>6, <1>7, <1>8 DEF IInv

\* Another attempt at the task in flight changes nothing but the count.
LEMMA RetryInv == IInv /\ RetryAttempt => IInv'
  <1> SUFFICES ASSUME IInv, RetryAttempt PROVE IInv'
    OBVIOUS
  <1>1. attempt' \in 0 .. MaxRetries + 1
    BY BoundsAssumption DEF RetryAttempt, retry, IInv, TypeOK
  <1>2. /\ UNCHANGED <<deps, stored, control, now, cmd, controlled, gate_result, boundVars>>
        /\ UNCHANGED <<phase, ledger, remaining, completed, current, ids>>
    BY DEF RetryAttempt, OutsideLoop
  <1>3. TypeOK'
    <2>1. TypeOK
      BY DEF IInv
    <2> QED
      BY <1>1, <1>2, <2>1 DEF TypeOK, boundVars
  <1> QED
    BY <1>2, <1>3 DEF IInv, ProcInv

\* The task in flight ends.
LEMMA Flying ==
    ASSUME IInv, phase = "exec"
    PROVE  /\ ids \in Nat
           /\ ledger \in Ledger /\ LedgerInv(ledger, deps)
           /\ current \in Tasks
           /\ InFlight(ledger, current)
           /\ remaining \subseteq Tasks
           /\ completed \subseteq Tasks
           /\ \A u \in completed : LoggedComplete(ledger.execution_log, u)
  BY DEF IInv, TypeOK, ProcInv, InFlight

\* It succeeds: the transaction commits and the task counts as completed.
LEMMA SucceedInv == IInv /\ TaskSucceeds => IInv'
  <1> SUFFICES ASSUME IInv, TaskSucceeds PROVE IInv'
    OBVIOUS
  <1>1. PICK r \in ExecutorResults :
            /\ phase = "exec" /\ OutsideLoop /\ phase' = "drive"
            /\ ledger' = task_succeeds(ledger, current, r)
            /\ completed' = completed \cup {current}
            /\ UNCHANGED <<remaining, current, attempt, ids>>
    BY DEF TaskSucceeds
  <1>2. r \in ExecutorResult
    BY ResultsAssumption
  <1>3. /\ ids \in Nat
        /\ ledger \in Ledger /\ LedgerInv(ledger, deps)
        /\ current \in Tasks
        /\ InFlight(ledger, current)
        /\ remaining \subseteq Tasks
        /\ completed \subseteq Tasks
        /\ \A u \in completed : LoggedComplete(ledger.execution_log, u)
    BY <1>1, Flying
  <1>4. ledger' \in Ledger
    BY <1>1, <1>2, <1>3, SucceedsType DEF InFlight
  <1>5. /\ LedgerInv(ledger', deps)
        /\ \A u \in Tasks : LoggedComplete(ledger'.execution_log, u) <=>
                               (LoggedComplete(ledger.execution_log, u) \/ u = current)
    BY <1>1, <1>2, <1>3, SucceedsKeeps
  <1>6. /\ remaining' \subseteq Tasks /\ completed' \subseteq Tasks
        /\ \A u \in completed' : LoggedComplete(ledger'.execution_log, u)
        /\ ids' \in Nat /\ ids <= ids' /\ ids' = ids
        /\ UNCHANGED <<current, attempt>>
    BY <1>1, <1>3, <1>5
  <1> QED
    BY <1>1, <1>4, <1>5, <1>6, VisitInv

\* It fails: it is blocked with a new id.
LEMMA FailInv == IInv /\ TaskFails => IInv'
  <1> SUFFICES ASSUME IInv, TaskFails PROVE IInv'
    OBVIOUS
  <1>1. PICK r \in ExecutorResults :
            /\ phase = "exec" /\ OutsideLoop /\ phase' = "drive"
            /\ ids' = ids + 1
            /\ ledger' = task_fails(ledger, current, r, ids')
            /\ UNCHANGED <<remaining, completed, current, attempt>>
    BY DEF TaskFails
  <1>2. r \in ExecutorResult
    BY ResultsAssumption
  <1>3. /\ ids \in Nat
        /\ ledger \in Ledger /\ LedgerInv(ledger, deps)
        /\ current \in Tasks
        /\ InFlight(ledger, current)
        /\ remaining \subseteq Tasks
        /\ completed \subseteq Tasks
        /\ \A u \in completed : LoggedComplete(ledger.execution_log, u)
    BY <1>1, Flying
  <1>4. ids' \in Nat /\ ids <= ids'
    BY <1>1, <1>3
  <1>5. ledger' \in Ledger
    BY <1>1, <1>2, <1>3, <1>4, FailsType DEF InFlight
  <1>6. /\ LedgerInv(ledger', deps)
        /\ \A u \in Tasks : LoggedComplete(ledger.execution_log, u)
                               => LoggedComplete(ledger'.execution_log, u)
    BY <1>1, <1>2, <1>3, <1>4, FailsKeeps
  <1>7. /\ remaining' \subseteq Tasks /\ completed' \subseteq Tasks
        /\ \A u \in completed' : LoggedComplete(ledger'.execution_log, u)
        /\ UNCHANGED <<current, attempt>>
    BY <1>1, <1>3, <1>6
  <1> QED
    BY <1>1, <1>4, <1>5, <1>6, <1>7, VisitInv

\* The loop ends, by itself or because the control flag says so.
LEMMA ReturnInv == IInv /\ (Stop \/ Finish) => IInv'
  <1> SUFFICES ASSUME IInv, Stop \/ Finish PROVE IInv'
    OBVIOUS
  <1>0. TypeOK /\ phase = "drive" /\ ledger \in Ledger /\ ids \in Nat
               /\ LedgerInv(ledger, deps)
    BY DEF IInv, TypeOK, Stop, Finish
  <1>1. PICK s \in RunStates : Return(s)
    BY <1>0 DEF Stop, Stopped, Finish, RunStates
  <1>2. /\ ledger' \in Ledger
        /\ LedgerInv(ledger', deps)
        /\ ledger'.execution_log = ledger.execution_log
    BY <1>0, <1>1, ReturnKeeps DEF Return
  <1>3. gate_result' \in {"none", "passed", "failed"}
    BY <1>1 DEF Return, run_gate
  <1>4. TypeOK'
    BY <1>0, <1>1, <1>2, <1>3, NoLedgerAssumption DEF TypeOK, Return, boundVars
  <1>5. ProcInv'
    BY <1>0, <1>1, <1>2 DEF IInv, ProcInv, Return
  <1> QED
    BY <1>1, <1>2, <1>4, <1>5 DEF IInv, Return

\* The run lands.
LEMMA LandInv == IInv /\ Land => IInv'
  <1> SUFFICES ASSUME IInv, Land PROVE IInv'
    OBVIOUS
  <1>0. TypeOK /\ phase = "returned" /\ ledger \in Ledger /\ ids \in Nat
               /\ completed \subseteq Tasks /\ LedgerInv(ledger, deps)
    BY DEF IInv, TypeOK, Land
  <1>1. /\ ledger' \in Ledger
        /\ LedgerInv(ledger', deps)
        /\ \A u \in Tasks : LoggedComplete(ledger.execution_log, u)
                               => LoggedComplete(ledger'.execution_log, u)
    BY <1>0, LandKeeps DEF Land
  <1>2. gate_result' \in {"none", "passed", "failed"}
    BY DEF Land, run_gate
  <1>3. TypeOK'
    BY <1>0, <1>1, <1>2, NoLedgerAssumption DEF TypeOK, Land, boundVars
  <1>4. ProcInv'
    BY <1>0, <1>1 DEF IInv, ProcInv, Land
  <1> QED
    BY <1>1, <1>3, <1>4 DEF IInv, Land

\* The process ends, with its ledger saved or lost.
LEMMA EndInv == IInv /\ (Save \/ Crash) => IInv'
  <1> SUFFICES ASSUME IInv, Save \/ Crash PROVE IInv'
    OBVIOUS
  <1>0. TypeOK /\ phase # "idle"
    BY DEF IInv, Save, Crash
  <1>1. /\ EndProcess
        /\ stored' \in {ledger, stored}
        /\ crashes' \in Nat
    BY <1>0 DEF Save, Crash, TypeOK
  <1>2. 0 \in 0 .. MaxRetries + 1
    BY BoundsAssumption
  <1>3. TypeOK'
    <2>1. /\ stored' \in Ledger \cup {NoLedger}
          /\ attempt' \in 0 .. MaxRetries + 1
          /\ remaining' \subseteq Tasks /\ completed' \subseteq Tasks
          /\ current' \in Tasks \cup {NoTask}
          /\ controlled' \in BOOLEAN
      BY <1>0, <1>1, <1>2 DEF TypeOK, EndProcess
    <2> QED
      BY <1>0, <1>1, <2>1 DEF TypeOK, EndProcess
  <1>4. ProcInv' /\ ledger' = NoLedger
    BY <1>1 DEF ProcInv, EndProcess
  <1>5. stored' # NoLedger => LedgerInv(stored', deps')
    BY <1>1 DEF IInv, EndProcess
  <1> QED
    BY <1>3, <1>4, <1>5 DEF IInv

\* An operator or another agent changes the stored ledger.
LEMMA StoreInv == IInv /\ (Resolve \/ AcquireLease) => IInv'
  <1> SUFFICES ASSUME IInv, Resolve \/ AcquireLease PROVE IInv'
    OBVIOUS
  <1>0. TypeOK /\ stored \in Ledger /\ ids \in Nat /\ LedgerInv(stored, deps)
    BY DEF IInv, TypeOK, Resolve, AcquireLease
  <1>1. /\ UNCHANGED <<deps, control, now, procVars, commands, controls, crashes>>
        /\ resolutions' \in Nat /\ leases' \in Nat
    BY <1>0 DEF Resolve, AcquireLease, TypeOK
  <1>2. stored' \in Ledger /\ LedgerInv(stored', deps)
    <2>1. CASE Resolve
      <3>1. PICK n \in {b.id : b \in stored.blockers} \cup UnknownIds, d \in Decisions :
                stored' = resolve_blocker(stored, n, d)
        BY <2>1 DEF Resolve
      <3>2. n \in Nat
        <4>1. stored.blockers \subseteq Blocker
          BY <1>0 DEF Ledger
        <4>2. \A b \in stored.blockers : b.id \in Nat
          BY <4>1 DEF Blocker
        <4>3. \A k \in UnknownIds : k \in Nat
          BY BoundsAssumption
        <4> QED
          BY <4>2, <4>3
      <3> QED
        BY <1>0, <3>1, <3>2, ResolveKeeps
    <2>2. CASE AcquireLease
      <3>1. PICK t \in Tasks, x \in {now, NoExpiry} :
                stored' = [stored EXCEPT !.agent_leases =
                     Append(@, [task |-> t, expires_at |-> x, released |-> FALSE])]
        BY <2>2 DEF AcquireLease
      <3> DEFINE leased == Append(stored.agent_leases,
                                  [task |-> t, expires_at |-> x, released |-> FALSE])
      <3>2. leased \in Seq(Lease)
        BY <1>0, AppendProperties DEF Ledger, Lease, TypeOK
      <3>3. stored' = [stored EXCEPT !.agent_leases = leased]
        BY <3>1
      <3> HIDE DEF leased
      <3>4. /\ stored' \in Ledger
            /\ stored'.execution_log = stored.execution_log
            /\ stored'.saga_journal = stored.saga_journal
            /\ stored'.task = stored.task
            /\ stored'.blockers = stored.blockers
            /\ stored'.allowed = stored.allowed
        BY <1>0, <3>2, <3>3 DEF Ledger
      <3> QED
        BY <1>0, <3>4, SameParts
    <2> QED
      BY <2>1, <2>2
  <1>3. TypeOK'
    BY <1>0, <1>1, <1>2 DEF TypeOK, procVars
  <1>4. ProcInv'
    BY <1>1 DEF IInv, ProcInv, procVars
  <1> QED
    BY <1>1, <1>2, <1>3, <1>4 DEF IInv, procVars

\* The control flag, the clock and a step that changes nothing.
LEMMA QuietInv == IInv /\ (SetControl \/ Tick \/ UNCHANGED vars) => IInv'
  <1> SUFFICES ASSUME IInv, SetControl \/ Tick \/ UNCHANGED vars PROVE IInv'
    OBVIOUS
  <1>1. TypeOK
    BY DEF IInv
  <1>2. /\ UNCHANGED <<deps, stored, procVars, commands, resolutions, leases, crashes>>
        /\ control' \in {"running", "paused", "aborted"}
        /\ now' \in Nat /\ controls' \in Nat
    BY <1>1 DEF SetControl, Tick, vars, boundVars, TypeOK
  <1>3. TypeOK'
    BY <1>1, <1>2 DEF TypeOK, procVars
  <1> QED
    BY <1>2, <1>3 DEF IInv, ProcInv, procVars

\* Every step keeps the invariant.
LEMMA NextInv == IInv /\ [Next]_vars => IInv'
  BY RunInv, ResumeInv, SkipInv, BlockedInv, BeginInv, RetryInv, SucceedInv, FailInv,
     ReturnInv, LandInv, EndInv, StoreInv, QuietInv
     DEF Next, Step

\* The inductive invariant holds in every reachable state.
THEOREM Inductive == Spec => []IInv
  <1>1. Init => IInv
    BY InitInv
  <1>2. IInv /\ [Next]_vars => IInv'
    BY NextInv
  <1> QED
    BY <1>1, <1>2, PTL DEF Spec

-----------------------------------------------------------------------------
(* What follows from it.                                                   *)

\* Every variable keeps its type; in particular a task is attempted at most
\* MaxRetries + 1 times (execute_with_retry).
THEOREM TypeCorrect == Spec => []TypeOK
  <1>1. IInv => TypeOK
    BY DEF IInv
  <1> QED
    BY <1>1, Inductive, PTL

\* The effects of a task are applied once, however often it is retried, resumed or
\* overridden, whoever gives out the ids (already_committed in _run_task).
THEOREM CommitsOnceHolds == Spec => []CommitsOnce
  <1>1. IInv => CommitsOnce
    BY DEF IInv, LedgerInv, CommitInv, CommitsOnce, Ledgers
  <1> QED
    BY <1>1, Inductive, PTL

\* No task starts before its dependencies completed, for every graph, cyclic ones
\* included (_drive).
THEOREM DependenciesFirstHolds == Spec => []DependenciesFirst
  <1>1. IInv => DependenciesFirst
    BY DEF IInv, LedgerInv, DependenciesFirst, Ledgers
  <1> QED
    BY <1>1, Inductive, PTL

-----------------------------------------------------------------------------
(* Blocked tasks are held: each has an open blocker, which is what the     *)
(* reconciliation and the receipt look at.                                 *)

\* Blocking a task opens a blocker for it.
LEMMA BlockHolds ==
    ASSUME NEW l \in Ledger, NEW n \in Nat, NEW t \in Tasks, NEW from \in TaskStates,
           HeldInv(l), l.task[t] # "completed"
    PROVE  HeldInv(block(l, t, n, from))
  <1> DEFINE m == block(l, t, n, from)
             b0 == [at |-> Len(l.execution_log), id |-> n, task |-> t]
  <1>1. /\ m.task = [l.task EXCEPT ![t] = "blocked"]
        /\ m.blockers = l.blockers \cup {b0}
        /\ m.allowed = l.allowed
    BY DEF Ledger, block, append_event, add_history, set_status
  <1>2. b0.task = t /\ l.task \in [Tasks -> TaskStates]
    BY DEF Ledger
  <1> HIDE DEF m, b0
  <1>3. ~l.allowed
    BY DEF HeldInv
  <1>4. \A u \in Tasks : m.task[u] = "blocked" => \E b \in m.blockers : b.task = u
    BY <1>1, <1>2 DEF HeldInv
  <1>5. HeldInv(m)
    BY <1>1, <1>3, <1>4 DEF HeldInv
  <1> QED
    BY <1>5 DEF m

\* Any other change of a task's status opens nothing and blocks nobody.
LEMMA StatusHolds ==
    ASSUME NEW l \in Ledger, NEW m, NEW t \in Tasks, NEW s \in TaskStates \ {"blocked"},
           HeldInv(l), l.task[t] # "completed",
           m.task = [l.task EXCEPT ![t] = s], m.blockers = l.blockers, m.allowed = l.allowed
    PROVE  HeldInv(m)
  <1>1. l.task \in [Tasks -> TaskStates]
    BY DEF Ledger
  <1> QED
    BY <1>1 DEF HeldInv

\* The end of _drive allows reconciliation only with no blocker and nothing pending, so
\* nothing is blocked either.
LEMMA ReturnHolds ==
    ASSUME NEW l \in Ledger, NEW s \in RunStates, HeldInv(l)
    PROVE  HeldInv(reconcile([l EXCEPT !.run_state = s]))
  <1> DEFINE m == reconcile([l EXCEPT !.run_state = s])
             pending == {t \in Tasks : l.task[t] \in {"pending", "in_progress"}}
  <1>1. /\ m.task = l.task /\ m.blockers = l.blockers
        /\ m.allowed => pending = {} /\ l.blockers = {}
    BY DEF Ledger, reconcile
  <1>2. \A t \in Tasks : l.task[t] \in TaskStates
    BY DEF Ledger
  <1> HIDE DEF m
  <1>3. HeldInv(m)
    BY <1>1, <1>2 DEF HeldInv, TaskStates
  <1> QED
    BY <1>3 DEF m

\* An override that closes one blocker leaves every other blocked task its own.
LEMMA ResolveHolds ==
    ASSUME NEW l \in Ledger, NEW id \in Nat, NEW decision \in Decisions, HeldInv(l),
           \A b, c \in l.blockers \ resolve_blocker(l, id, decision).blockers : b = c
    PROVE  HeldInv(resolve_blocker(l, id, decision))
  <1> DEFINE m == resolve_blocker(l, id, decision)
             matching == {b \in l.blockers : b.id = id}
             b0 == CHOOSE b \in matching : \A c \in matching : b.at <= c.at
             t == IF matching # {} THEN b0.task ELSE NoTask
             x == [at |-> Len(l.execution_log) + 1, id |-> id, decision |-> decision]
             noted == [l EXCEPT !.resolutions = Append(@, x)]
             decided == IF decision = "override" /\ matching # {}
                        THEN [noted EXCEPT !.blockers = @ \ matching, !.task[t] = "pending"]
                        ELSE noted
  <1>1. matching # {} => b0 \in matching /\ t = b0.task
    <2> SUFFICES ASSUME matching # {}
                 PROVE  \E b \in matching : \A c \in matching : b.at <= c.at
      OBVIOUS
    <2> QED
      BY FirstBlocker DEF Ledger
  <1>2. m = append_event(decided, event("resolution", t, "none"))
    BY DEF resolve_blocker
  <1> HIDE DEF m, t, b0
  <1>3. noted.task = l.task /\ noted.blockers = l.blockers /\ noted.allowed = l.allowed
    BY DEF Ledger
  <1> HIDE DEF x
  <1>4. m.task = decided.task /\ m.blockers = decided.blockers /\ m.allowed = decided.allowed
    BY <1>2 DEF append_event, Ledger
  <1>5. CASE ~(decision = "override" /\ matching # {})
    <2>1. m.task = l.task /\ m.blockers = l.blockers /\ m.allowed = l.allowed
      BY <1>3, <1>4, <1>5
    <2>2. HeldInv(m)
      BY <2>1 DEF HeldInv
    <2> QED
      BY <2>2 DEF m
  <1>6. CASE decision = "override" /\ matching # {}
    <2>1. /\ m.task = [l.task EXCEPT ![t] = "pending"]
          /\ m.blockers = l.blockers \ matching /\ m.allowed = l.allowed
      <3>1. decided = [noted EXCEPT !.blockers = @ \ matching, !.task[t] = "pending"]
        BY <1>6
      <3> HIDE DEF decided, matching
      <3> QED
        BY <1>4, <3>1 DEF Ledger
    <2>2. b0 \in matching /\ b0 \in l.blockers /\ b0.task = t
      BY <1>1, <1>6
    <2>3. \A b \in matching : b = b0
      <3>1. \A b, c \in l.blockers \ m.blockers : b = c
        BY DEF m
      <3> QED
        BY <2>1, <2>2, <3>1
    <2> HIDE DEF matching
    <2>4. ~l.allowed
      BY <2>2 DEF HeldInv
    <2>5. ASSUME NEW u \in Tasks, m.task[u] = "blocked"
          PROVE  \E b \in m.blockers : b.task = u
      <3>1. l.task \in [Tasks -> TaskStates]
        BY DEF Ledger
      <3>2. u # t /\ l.task[u] = "blocked"
        BY <2>1, <2>5, <3>1
      <3>3. PICK b \in l.blockers : b.task = u
        BY <3>2 DEF HeldInv
      <3>4. b \notin matching
        BY <2>2, <2>3, <3>2, <3>3
      <3> QED
        BY <2>1, <3>3, <3>4
    <2>6. HeldInv(m)
      BY <2>1, <2>4, <2>5 DEF HeldInv
    <2> QED
      BY <2>6 DEF m
  <1> QED
    BY <1>5, <1>6

\* It holds of all ledgers after a step that changes the one in memory only.
LEMMA MemoryHolds ==
    ASSUME AllHeld, UNCHANGED stored, ledger' = NoLedger \/ HeldInv(ledger')
    PROVE  AllHeld'
  BY DEF AllHeld, Ledgers, HeldInv

\* The steps of a command keep it.
LEMMA StepHolds ==
    ASSUME IInv, AllHeld, Run \/ Resume \/ Step \/ Land \/ Crash
    PROVE  AllHeld'
  <1>1. CASE Run
    <2>1. HeldInv(init_ledger)
      BY DEF HeldInv, init_ledger
    <2> QED
      BY <1>1, <2>1, MemoryHolds DEF Run, Start
  <1>2. CASE Resume
    <2>1. stored \in Ledger /\ HeldInv(stored) /\ UNCHANGED stored
          /\ ledger' = [stored EXCEPT !.run_state = "running"]
      BY <1>2 DEF Resume, Start, IInv, TypeOK, AllHeld, Ledgers
    <2>2. /\ ledger'.task = stored.task /\ ledger'.blockers = stored.blockers
          /\ ledger'.allowed = stored.allowed
      BY <2>1 DEF Ledger
    <2>3. HeldInv(ledger')
      BY <2>1, <2>2 DEF HeldInv
    <2> QED
      BY <2>1, <2>3, MemoryHolds
  <1>3. CASE SkipCompleted \/ SkipCommitted \/ RetryAttempt
    BY <1>3 DEF SkipCompleted, SkipCommitted, RetryAttempt, Reached, OutsideLoop, AllHeld, Ledgers,
                HeldInv
  <1>4. CASE BlockUnmetDeps \/ LeaseConflict
    <2>1. PICK t \in Tasks, from \in TaskStates :
              /\ Visit(t) /\ UNCHANGED stored /\ ledger.task[t] # "completed"
              /\ ids' = ids + 1 /\ ledger' = block(ledger, t, ids', from)
      <3>1. "pending" \in TaskStates /\ "in_progress" \in TaskStates
        BY DEF TaskStates
      <3> QED
        BY <1>4, <3>1 DEF BlockUnmetDeps, LeaseConflict, Reached, OutsideLoop,
                          block_unmet_deps, escalate
    <2>2. ledger \in Ledger /\ ids \in Nat /\ ids' \in Nat /\ HeldInv(ledger)
      BY <2>1, Visiting, NoLedgerAssumption DEF AllHeld, Ledgers
    <2> QED
      BY <2>1, <2>2, BlockHolds, MemoryHolds
  <1>5. CASE BeginTask
    <2>1. PICK t \in Tasks : /\ Visit(t) /\ UNCHANGED stored /\ ledger.task[t] # "completed"
                             /\ ledger' = begin_task(ledger, t)
      BY <1>5 DEF BeginTask, Reached, OutsideLoop
    <2>2. ledger \in Ledger /\ HeldInv(ledger)
      BY <2>1, Visiting, NoLedgerAssumption DEF AllHeld, Ledgers
    <2>3. /\ ledger'.task = [ledger.task EXCEPT ![t] = "in_progress"]
          /\ ledger'.blockers = ledger.blockers /\ ledger'.allowed = ledger.allowed
      BY <2>1, <2>2, BeginFields
    <2>4. HeldInv(ledger')
      BY <2>1, <2>2, <2>3, StatusHolds DEF TaskStates
    <2> QED
      BY <2>1, <2>4, MemoryHolds
  <1>6. CASE TaskSucceeds \/ TaskFails
    <2>1. /\ ids \in Nat /\ ledger \in Ledger /\ current \in Tasks /\ UNCHANGED stored
          /\ ledger.task[current] = "in_progress" /\ HeldInv(ledger)
      BY <1>6, Flying, NoLedgerAssumption
         DEF TaskSucceeds, TaskFails, OutsideLoop, InFlight, AllHeld, Ledgers
    <2>2. CASE TaskSucceeds
      <3>1. PICK r \in ExecutorResult : ledger' = task_succeeds(ledger, current, r)
        BY <2>2, ResultsAssumption DEF TaskSucceeds
      <3>2. /\ ledger'.task = [ledger.task EXCEPT ![current] = "completed"]
            /\ ledger'.blockers = ledger.blockers /\ ledger'.allowed = ledger.allowed
        BY <2>1, <3>1, SucceedsFields
      <3>3. HeldInv(ledger')
        BY <2>1, <3>2, StatusHolds DEF TaskStates
      <3> QED
        BY <2>1, <3>3, MemoryHolds
    <2>3. CASE TaskFails
      <3>1. PICK r \in ExecutorResult : ledger' = task_fails(ledger, current, r, ids + 1)
        BY <2>3, ResultsAssumption DEF TaskFails
      <3> DEFINE b0 == [at |-> Len(UndoneLog(ledger, current, r)), id |-> ids + 1,
                        task |-> current]
      <3>2. /\ ledger'.task = [ledger.task EXCEPT ![current] = "blocked"]
            /\ ledger'.blockers = ledger.blockers \cup {b0}
            /\ ledger'.allowed = ledger.allowed
        BY <2>1, <3>1, FailsFields
      <3>3. b0.task = current
        OBVIOUS
      <3> HIDE DEF b0
      <3>4. ledger.task \in [Tasks -> TaskStates] /\ ~ledger.allowed
        BY <2>1 DEF Ledger, HeldInv
      <3>5. HeldInv(ledger')
        BY <2>1, <3>2, <3>3, <3>4 DEF HeldInv
      <3> QED
        BY <2>1, <3>5, MemoryHolds
    <2> QED
      BY <1>6, <2>2, <2>3
  <1>7. CASE Stop \/ Finish
    <2>1. phase = "drive" /\ ledger \in Ledger /\ HeldInv(ledger)
      BY <1>7, NoLedgerAssumption DEF Stop, Finish, IInv, TypeOK, AllHeld, Ledgers
    <2>2. PICK s \in RunStates : Return(s)
      BY <1>7 DEF Stop, Stopped, Finish, RunStates, IInv, TypeOK
    <2> QED
      BY <2>1, <2>2, ReturnHolds, MemoryHolds DEF Return
  <1>8. CASE Land
    <2>1. ledger \in Ledger /\ HeldInv(ledger) /\ UNCHANGED stored /\ ledger' = land(ledger)
      BY <1>8, NoLedgerAssumption DEF Land, IInv, TypeOK, AllHeld, Ledgers
    <2>2. /\ ledger'.task = ledger.task /\ ledger'.blockers = ledger.blockers
          /\ ledger'.allowed = ledger.allowed
      BY <2>1 DEF land, append_event, Ledger
    <2>3. HeldInv(ledger')
      BY <2>1, <2>2 DEF HeldInv
    <2> QED
      BY <2>1, <2>3, MemoryHolds
  <1>9. CASE Save \/ Crash
    BY <1>9 DEF Save, Crash, EndProcess, AllHeld, Ledgers, HeldInv
  <1> QED
    BY <1>1, <1>2, <1>3, <1>4, <1>5, <1>6, <1>7, <1>8, <1>9 DEF Step

\* A decision that closes one blocker, or another agent's lease, keeps it.
LEMMA StoreHolds ==
    ASSUME IInv, AllHeld, OneClosed, Resolve \/ AcquireLease
    PROVE  AllHeld'
  <1>1. stored \in Ledger /\ HeldInv(stored) /\ ledger' = ledger
    BY DEF IInv, TypeOK, Resolve, AcquireLease, procVars, AllHeld, Ledgers
  <1>2. HeldInv(stored')
    <2>1. CASE Resolve
      <3>1. PICK n \in {b.id : b \in stored.blockers} \cup UnknownIds, d \in Decisions :
                stored' = resolve_blocker(stored, n, d)
        BY <2>1 DEF Resolve
      <3>2. n \in Nat
        <4>1. \A b \in stored.blockers : b.id \in Nat
          BY <1>1 DEF Ledger, Blocker
        <4>2. \A k \in UnknownIds : k \in Nat
          BY BoundsAssumption
        <4> QED
          BY <4>1, <4>2
      <3> QED
        BY <1>1, <2>1, <3>1, <3>2, ResolveHolds DEF OneClosed
    <2>2. CASE AcquireLease
      <3>1. PICK ls : stored' = [stored EXCEPT !.agent_leases = ls]
        BY <2>2 DEF AcquireLease
      <3>2. /\ stored'.task = stored.task /\ stored'.blockers = stored.blockers
            /\ stored'.allowed = stored.allowed
        BY <1>1, <3>1 DEF Ledger
      <3> QED
        BY <1>1, <3>2 DEF HeldInv
    <2> QED
      BY <2>1, <2>2
  <1> QED
    BY <1>1, <1>2 DEF AllHeld, Ledgers, HeldInv

\* As long as no override closes two blockers at once, every blocked task has an open
\* blocker, and reconciliation is allowed only when everything is completed.
LEMMA HeldHolds == Spec /\ [][OneClosed]_vars => []AllHeld
  <1>1. Init => AllHeld
    BY DEF Init, AllHeld, Ledgers
  <1>2. IInv /\ AllHeld /\ [Next]_vars /\ [OneClosed]_vars => AllHeld'
    <2> SUFFICES ASSUME IInv, AllHeld, [Next]_vars, [OneClosed]_vars PROVE AllHeld'
      OBVIOUS
    <2>1. CASE UNCHANGED vars \/ SetControl \/ Tick
      BY <2>1 DEF vars, procVars, SetControl, Tick, AllHeld, Ledgers, HeldInv
    <2>2. CASE Run \/ Resume \/ Step \/ Land \/ Crash
      BY <2>2, StepHolds
    <2>3. CASE vars' # vars /\ (Resolve \/ AcquireLease)
      BY <2>3, StoreHolds
    <2> QED
      BY <2>1, <2>2, <2>3 DEF Next
  <1> QED
    BY <1>1, <1>2, Inductive, PTL DEF Spec

\* A false receipt has one cause.  However commands number their blockers, with an
\* IdSource each (cli/commands.py) or with one for all: as long as no override closes two
\* blockers that share an id (resolve_blocker drops them all and resets one task), a
\* receipt that says "completed" tells the truth (_reconcile, run_gate,
\* build_handover_receipt).
THEOREM HandoverSoundHolds == Spec /\ [][OneClosed]_vars => []HandoverSound
  <1>1. AllHeld => HandoverSound
    <2> SUFFICES ASSUME AllHeld, stored # NoLedger,
                        handover_status(stored, run_gate(stored)) = "completed"
                 PROVE  /\ \A t \in Tasks : stored.task[t] = "completed"
                        /\ Tasks \subseteq stored.evidence \cap stored.accepted
                        /\ \A i \in DOMAIN stored.execution_log :
                               stored.execution_log[i].touched # "outside"
      BY DEF HandoverSound
    <2>1. stored.allowed /\ run_gate(stored) = "passed"
      BY DEF handover_status
    <2>2. \A t \in Tasks : stored.task[t] = "completed"
      BY <2>1 DEF AllHeld, Ledgers, HeldInv
    <2>3. ~fires(stored)["EVIDENCE_REQUIRED"] /\ ~fires(stored)["ACCEPTANCE_WEAK"]
          /\ ~fires(stored)["PATH_OUTSIDE_ROOTS"]
      BY <2>1 DEF run_gate, default_gate
    <2>4. /\ \A t \in Tasks : t \in stored.evidence /\ t \in stored.accepted
          /\ \A i \in DOMAIN stored.execution_log :
                 stored.execution_log[i].touched # "outside"
      BY <2>2, <2>3 DEF fires
    <2> QED
      BY <2>2, <2>4
  <1> QED
    BY <1>1, HeldHolds, PTL
=============================================================================
