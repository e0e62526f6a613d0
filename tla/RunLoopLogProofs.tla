-------------------------- MODULE RunLoopLogProofs --------------------------
(***************************************************************************)
(* More about RunLoop, on top of the invariant of RunLoopProofs: what the  *)
(* log says of the statuses, what is left in a saved ledger, who holds a   *)
(* lease, and that the stored history goes on, for every set of tasks,     *)
(* every graph and every value of the bounds.                              *)
(***************************************************************************)
EXTENDS RunLoopProofs, FiniteSetTheorems

-----------------------------------------------------------------------------
(* What one more event does to what a log says.                            *)

\* The event just appended, if it settles its task, is the last one that does.
LEMMA ToldAfter ==
    ASSUME NEW log \in Seq(Event), NEW e \in Event, NEW ov, NEW t, NEW s,
           e.task = t,
           \/ e.type \in ProjectedEvents
           \/ e.type = "resolution" /\ Len(log) + 1 \in ov,
           s = StatusAfter(e.type)
    PROVE  Told(Append(log, e), ov, t, s)
  <1> PICK new : new = Append(log, e)
    OBVIOUS
  <1>1. /\ Len(log) \in Nat /\ DOMAIN new = 1 .. Len(log) + 1
        /\ new[Len(log) + 1] = e
    BY AppendAt
  <1> DEFINE about == Settles(new, ov, t)
  <1>2. Len(log) + 1 \in about /\ \A i \in about : i \in Int /\ i <= Len(log) + 1
    BY <1>1 DEF Settles
  <1> HIDE DEF about
  <1>3. ASSUME NEW i \in about, \A j \in about : j <= i
        PROVE  s = StatusAfter(new[i].type)
    <2>1. i = Len(log) + 1
      BY <1>1, <1>2, <1>3
    <2> QED
      BY <2>1, <1>1
  <1>4. about # {}
    BY <1>2
  <1> QED
    BY <1>3, <1>4 DEF Told, about

\* An event that settles nothing about the task says nothing new of it.
LEMMA ToldBefore ==
    ASSUME NEW log \in Seq(Event), NEW e \in Event, NEW old, NEW ov, NEW t, NEW s,
           \/ e.task # t
           \/ /\ e.type \notin ProjectedEvents
              /\ e.type = "resolution" => Len(log) + 1 \notin ov,
           \A i \in 1 .. Len(log) : i \in ov <=> i \in old,
           Told(log, old, t, s)
    PROVE  Told(Append(log, e), ov, t, s)
  <1> PICK new : new = Append(log, e)
    OBVIOUS
  <1>1. /\ Len(log) \in Nat /\ DOMAIN log = 1 .. Len(log)
        /\ DOMAIN new = 1 .. Len(log) + 1
        /\ \A i \in 1 .. Len(log) : new[i] = log[i]
        /\ new[Len(log) + 1] = e
    BY AppendAt
  <1> DEFINE about == Settles(new, ov, t)
             before == Settles(log, old, t)
  <1>2. about = before
    BY <1>1 DEF Settles
  <1>3. \A i \in about : new[i] = log[i]
    BY <1>1, <1>2 DEF Settles
  <1> HIDE DEF about, before
  <1>4. /\ before = {} => s = "pending"
        /\ \A i \in before : (\A j \in before : j <= i) => s = StatusAfter(log[i].type)
    BY DEF Told, before
  <1>5. /\ about = {} => s = "pending"
        /\ \A i \in about : (\A j \in about : j <= i) => s = StatusAfter(new[i].type)
    BY <1>2, <1>3, <1>4
  <1> QED
    BY <1>5 DEF Told, about

\* The log of a ledger agrees with all its statuses, and has the events its resolutions
\* are dated by.
AllTold(l) ==
    /\ \A t \in Tasks : Told(l.execution_log, Overrides(l), t, l.task[t])
    /\ Dated(l)

\* Only these parts of a ledger matter to it.
LEMMA SameTold ==
    ASSUME NEW l, NEW m, AllTold(l), m.execution_log = l.execution_log, m.task = l.task,
           m.resolutions = l.resolutions
    PROVE  AllTold(m)
  BY DEF AllTold, Overrides, Dated

\* A resolution is dated with a number.
LEMMA ResolutionAt ==
    ASSUME NEW s \in Seq(Resolution), NEW k \in DOMAIN s
    PROVE  s[k].at \in Nat
  <1>1. DOMAIN s = 1 .. Len(s)
    BY LenProperties
  <1>2. s[k] \in Resolution
    BY <1>1, ElementOfSeq
  <1> QED
    BY <1>2 DEF Resolution

\* A longer log has the events it had.
LEMMA DatedOn ==
    ASSUME NEW l \in Ledger, NEW m, NEW e \in Event, Dated(l),
           m.execution_log = Append(l.execution_log, e), m.resolutions = l.resolutions
    PROVE  Dated(m)
  <1>1. l.execution_log \in Seq(Event) /\ l.resolutions \in Seq(Resolution)
    BY DEF Ledger
  <1>2. Len(m.execution_log) = Len(l.execution_log) + 1 /\ Len(l.execution_log) \in Nat
    BY <1>1, AppendAt
  <1>3. \A k \in DOMAIN l.resolutions : l.resolutions[k].at \in Nat
    BY <1>1, ResolutionAt
  <1> QED
    BY <1>2, <1>3 DEF Dated

\* A task changes its status together with an event that says so.
LEMMA ToldChange ==
    ASSUME NEW l \in Ledger, NEW m, NEW e \in Event, NEW t \in Tasks, NEW s,
           AllTold(l), e.task = t, e.type \in ProjectedEvents, s = StatusAfter(e.type),
           m.execution_log = Append(l.execution_log, e), m.task = [l.task EXCEPT ![t] = s],
           m.resolutions = l.resolutions
    PROVE  AllTold(m)
  <1>1. l.execution_log \in Seq(Event) /\ l.task \in [Tasks -> TaskStates]
    BY DEF Ledger
  <1>2. Overrides(m) = Overrides(l)
    BY DEF Overrides
  <1>3. Dated(m)
    BY DatedOn DEF AllTold
  <1>4. ASSUME NEW u \in Tasks PROVE Told(m.execution_log, Overrides(m), u, m.task[u])
    <2>1. CASE u = t
      <3>1. m.task[u] = s
        BY <1>1, <2>1
      <3> PICK log : log = l.execution_log
        OBVIOUS
      <3>2. Told(Append(log, e), Overrides(m), t, s)
        BY <1>1, ToldAfter
      <3> QED
        BY <2>1, <3>1, <3>2
    <2>2. CASE u # t
      <3>1. m.task[u] = l.task[u] /\ Told(l.execution_log, Overrides(l), u, l.task[u])
        BY <1>1, <2>2 DEF AllTold
      <3> QED
        BY <1>1, <1>2, <2>2, <3>1, ToldBefore
    <2> QED
      BY <2>1, <2>2
  <1> QED
    BY <1>3, <1>4 DEF AllTold

\* Events that settle nothing may come at any time.
LEMMA ToldOther ==
    ASSUME NEW l \in Ledger, NEW m, NEW e \in Event, AllTold(l),
           e.type \notin ProjectedEvents \cup {"resolution"},
           m.execution_log = Append(l.execution_log, e), m.task = l.task,
           m.resolutions = l.resolutions
    PROVE  AllTold(m)
  <1>1. l.execution_log \in Seq(Event)
    BY DEF Ledger
  <1>2. Overrides(m) = Overrides(l)
    BY DEF Overrides
  <1>3. Dated(m)
    BY DatedOn DEF AllTold
  <1>4. ASSUME NEW u \in Tasks PROVE Told(m.execution_log, Overrides(m), u, m.task[u])
    <2>1. Told(l.execution_log, Overrides(l), u, l.task[u])
      BY DEF AllTold
    <2> QED
      BY <1>1, <1>2, <2>1, ToldBefore
  <1> QED
    BY <1>3, <1>4 DEF AllTold

-----------------------------------------------------------------------------
(* What a lease more, and a lease released, does to a list of leases.      *)

\* The open leases of a list are finitely many.
LEMMA OpenFinite ==
    ASSUME NEW ls \in Seq(Lease)
    PROVE  IsFiniteSet(Open(ls)) /\ Open(ls) \subseteq 1 .. Len(ls)
  <1>1. Len(ls) \in Nat /\ DOMAIN ls = 1 .. Len(ls)
    BY LenProperties
  <1>2. Open(ls) \subseteq 1 .. Len(ls)
    BY <1>1 DEF Open
  <1>3. IsFiniteSet(1 .. Len(ls))
    BY <1>1, FS_Interval
  <1> QED
    BY <1>2, <1>3, FS_Subset

\* A lease that is recorded is open.
LEMMA OpenAppend ==
    ASSUME NEW ls \in Seq(Lease), NEW x \in Lease, ~x.released
    PROVE  /\ Open(Append(ls, x)) = Open(ls) \cup {Len(ls) + 1}
           /\ Open(Append(ls, x)) \ {Len(ls) + 1} = Open(ls)
           /\ Cardinality(Open(Append(ls, x))) = Cardinality(Open(ls)) + 1
  <1>1. /\ Len(ls) \in Nat /\ DOMAIN ls = 1 .. Len(ls)
        /\ DOMAIN Append(ls, x) = 1 .. Len(ls) + 1
        /\ \A i \in 1 .. Len(ls) : Append(ls, x)[i] = ls[i]
        /\ Append(ls, x)[Len(ls) + 1] = x
    BY AppendAt
  <1>2. Open(Append(ls, x)) = Open(ls) \cup {Len(ls) + 1}
    BY <1>1 DEF Open
  <1>3. Len(ls) + 1 \notin Open(ls) /\ IsFiniteSet(Open(ls))
    BY <1>1, OpenFinite
  <1>4. Cardinality(Open(ls) \cup {Len(ls) + 1}) = Cardinality(Open(ls)) + 1
    BY <1>3, FS_AddElement
  <1> QED
    BY <1>2, <1>3, <1>4

\* Releasing the last lease leaves the others.
LEMMA OpenRelease ==
    ASSUME NEW ls \in Seq(Lease), ls # <<>>
    PROVE  Open([ls EXCEPT ![Len(ls)].released = TRUE]) = Open(ls) \ {Len(ls)}
  <1> DEFINE n == Len(ls)
             k == [ls EXCEPT ![n].released = TRUE]
  <1>1. n \in Nat /\ DOMAIN ls = 1 .. n /\ n \in 1 .. n
    BY LenProperties, EmptySeq
  <1>2. ls[n] \in Lease
    BY <1>1, ElementOfSeq
  <1>3. DOMAIN k = 1 .. n /\ k[n].released = TRUE /\ \A i \in 1 .. n : i # n => k[i] = ls[i]
    BY <1>1, <1>2 DEF Lease
  <1> HIDE DEF k
  <1>4. Open(k) = Open(ls) \ {n}
    BY <1>1, <1>3 DEF Open
  <1> QED
    BY <1>4 DEF k

\* A lease that is not active stays so: the clock only goes on.
LEMMA NotActiveStays ==
    ASSUME NEW x \in Lease, NEW n \in Nat, lease_state(x, n) # "active"
    PROVE  lease_state(x, n + 1) # "active"
  BY DEF lease_state, Lease, NoExpiry

-----------------------------------------------------------------------------
(* The operators on ledgers.                                               *)

\* Blocking a task moves no lease, and the log says it is blocked.
LEMMA BlockRests ==
    ASSUME NEW l \in Ledger, NEW t \in Tasks, NEW n \in Nat, NEW from \in TaskStates
    PROVE  /\ block(l, t, n, from).task = [l.task EXCEPT ![t] = "blocked"]
           /\ block(l, t, n, from).agent_leases = l.agent_leases
           /\ AllTold(l) => AllTold(block(l, t, n, from))
  <1> DEFINE m == block(l, t, n, from)
             e == event("task_blocked", t, "none")
  <1>1. /\ m.task = [l.task EXCEPT ![t] = "blocked"]
        /\ m.agent_leases = l.agent_leases /\ m.resolutions = l.resolutions
        /\ m.execution_log = Append(l.execution_log, e)
    BY DEF Ledger, block, append_event, add_history, set_status
  <1>2. e \in Event /\ e.type = "task_blocked" /\ e.task = t
    BY EventType DEF EventTypes, Touched
  <1> HIDE DEF m, e
  <1>3. e.type \in ProjectedEvents /\ "blocked" = StatusAfter(e.type)
    BY <1>2 DEF ProjectedEvents, StatusAfter
  <1>4. AllTold(l) => AllTold(m)
    BY <1>1, <1>2, <1>3, ToldChange
  <1> QED
    BY <1>1, <1>4 DEF m

\* A started task is in progress, the log says so, and its lease is the last.
LEMMA BeginRests ==
    ASSUME NEW l \in Ledger, NEW t \in Tasks
    PROVE  LET m == begin_task(l, t) IN
           /\ m.task = [l.task EXCEPT ![t] = "in_progress"]
           /\ m.agent_leases = Append(l.agent_leases, [task |-> t, expires_at |-> NoExpiry,
                                                       released |-> FALSE])
           /\ AllTold(l) => AllTold(m)
  <1> DEFINE m == begin_task(l, t)
             e == event("task_started", t, "none")
  <1>1. /\ m.task = [l.task EXCEPT ![t] = "in_progress"]
        /\ m.agent_leases = Append(l.agent_leases, [task |-> t, expires_at |-> NoExpiry,
                                                    released |-> FALSE])
        /\ m.execution_log = Append(l.execution_log, e) /\ m.resolutions = l.resolutions
    BY DEF Ledger, begin_task, append_event, add_history, set_status
  <1>2. e \in Event /\ e.type = "task_started" /\ e.task = t
    BY EventType DEF EventTypes, Touched
  <1> HIDE DEF m, e
  <1>3. e.type \in ProjectedEvents /\ "in_progress" = StatusAfter(e.type)
    BY <1>2 DEF ProjectedEvents, StatusAfter
  <1>4. AllTold(l) => AllTold(m)
    BY <1>1, <1>2, <1>3, ToldChange
  <1> QED
    BY <1>1, <1>4 DEF m

\* A note about the files a task touched, before it ends, says nothing of statuses.
LEMMA NoteRests ==
    ASSUME NEW l \in Ledger, NEW t \in Tasks, NEW touched \in Touched,
           NEW type \in {"file_edited", "compensation"}, AllTold(l)
    PROVE  LET m == append_event(l, event(type, t, touched)) IN
           /\ m \in Ledger /\ AllTold(m) /\ m.task = l.task /\ m.agent_leases = l.agent_leases
           /\ m.resolutions = l.resolutions
  <1> PICK e : e = event(type, t, touched)
    OBVIOUS
  <1>1. e \in Event /\ e.type = type /\ e.task = t
    BY EventType DEF EventTypes
  <1> PICK m : m = append_event(l, e)
    OBVIOUS
  <1>2. Append(l.execution_log, e) \in Seq(Event)
    BY <1>1, AppendProperties DEF Ledger
  <1>3. /\ m \in Ledger /\ m.task = l.task /\ m.agent_leases = l.agent_leases
        /\ m.execution_log = Append(l.execution_log, e) /\ m.resolutions = l.resolutions
    BY <1>2 DEF append_event, Ledger
  <1>4. e.type \notin ProjectedEvents \cup {"resolution"}
    BY <1>1 DEF ProjectedEvents
  <1>5. AllTold(m)
    BY <1>1, <1>3, <1>4, ToldOther
  <1> QED
    BY <1>3, <1>5

\* Ledger m is l after task t ended with status s: the last lease is released, and the
\* log agrees.
Settled(l, m, t, s) ==
    /\ m.task = [l.task EXCEPT ![t] = s]
    /\ m.agent_leases = [l.agent_leases EXCEPT ![Len(l.agent_leases)].released = TRUE]
    /\ AllTold(m)

\* No outcome of a task touches the resolutions.
LEMMA SucceedsResolutions ==
    ASSUME NEW l \in Ledger, NEW t \in Tasks, NEW r \in ExecutorResult
    PROVE  task_succeeds(l, t, r).resolutions = l.resolutions
  <1>1. CASE r.touched = "none"
    BY <1>1 DEF Ledger, task_succeeds, release, set_txn, append_event, add_history, set_status
  <1>2. CASE r.touched # "none"
    BY <1>2 DEF Ledger, task_succeeds, release, set_txn, append_event, add_history, set_status
  <1> QED
    BY <1>1, <1>2

\* Nor does a failure.
LEMMA FailsResolutions ==
    ASSUME NEW l \in Ledger, NEW t \in Tasks, NEW r \in ExecutorResult, NEW n \in Nat
    PROVE  task_fails(l, t, r, n).resolutions = l.resolutions
  <1>1. CASE r.touched = "none"
    BY <1>1 DEF Ledger, task_fails, release, set_txn, append_event, add_history, set_status,
                block, escalate
  <1>2. CASE r.touched # "none"
    BY <1>2 DEF Ledger, task_fails, release, set_txn, append_event, add_history, set_status,
                block, escalate
  <1> QED
    BY <1>1, <1>2

\* A success settles its task.
LEMMA SucceedsRests ==
    ASSUME NEW l \in Ledger, NEW t \in Tasks, NEW r \in ExecutorResult, AllTold(l)
    PROVE  Settled(l, task_succeeds(l, t, r), t, "completed")
  <1> DEFINE m == task_succeeds(l, t, r)
             e == event("task_completed", t, "none")
  <1>1. m.agent_leases = [l.agent_leases EXCEPT ![Len(l.agent_leases)].released = TRUE]
    <2>1. CASE r.touched = "none"
      BY <2>1 DEF Ledger, task_succeeds, release, set_txn, append_event, add_history, set_status
    <2>2. CASE r.touched # "none"
      BY <2>2 DEF Ledger, task_succeeds, release, set_txn, append_event, add_history, set_status
    <2> QED
      BY <2>1, <2>2
  <1>2. /\ m.task = [l.task EXCEPT ![t] = "completed"]
        /\ m.execution_log = SuccessLog(l, t, r) /\ m.resolutions = l.resolutions
    BY SucceedsFields, SucceedsResolutions
  <1>3. e \in Event /\ e.type = "task_completed" /\ e.task = t
    BY EventType DEF EventTypes, Touched
  <1>4. PICK k \in Ledger : /\ AllTold(k) /\ k.task = l.task /\ k.resolutions = l.resolutions
                            /\ m.execution_log = Append(k.execution_log, e)
    <2>1. CASE r.touched = "none"
      BY <1>2, <2>1 DEF SuccessLog
    <2>2. CASE r.touched # "none"
      <3> PICK k : k = append_event(l, event("file_edited", t, r.touched))
        OBVIOUS
      <3>1. r.touched \in Touched
        BY DEF ExecutorResult
      <3>2. k \in Ledger /\ AllTold(k) /\ k.task = l.task /\ k.resolutions = l.resolutions
        BY <3>1, NoteRests
      <3>3. k.execution_log = Append(l.execution_log, event("file_edited", t, r.touched))
        BY DEF append_event, Ledger
      <3> QED
        BY <1>2, <2>2, <3>2, <3>3 DEF SuccessLog
    <2> QED
      BY <2>1, <2>2
  <1> HIDE DEF m, e
  <1>5. e.type \in ProjectedEvents /\ "completed" = StatusAfter(e.type)
    BY <1>3 DEF ProjectedEvents, StatusAfter
  <1>6. AllTold(m)
    BY <1>2, <1>3, <1>4, <1>5, ToldChange
  <1>7. Settled(l, m, t, "completed")
    BY <1>1, <1>2, <1>6 DEF Settled
  <1> QED
    BY <1>7 DEF m

\* So does a failure, compensated or not.
LEMMA FailsRests ==
    ASSUME NEW l \in Ledger, NEW t \in Tasks, NEW r \in ExecutorResult, NEW n \in Nat,
           AllTold(l)
    PROVE  Settled(l, task_fails(l, t, r, n), t, "blocked")
  <1> DEFINE m == task_fails(l, t, r, n)
             e == event("task_blocked", t, "none")
  <1>1. m.agent_leases = [l.agent_leases EXCEPT ![Len(l.agent_leases)].released = TRUE]
    <2>1. CASE r.touched = "none"
      BY <2>1 DEF Ledger, task_fails, release, set_txn, append_event, add_history, set_status,
                  block, escalate
    <2>2. CASE r.touched # "none"
      BY <2>2 DEF Ledger, task_fails, release, set_txn, append_event, add_history, set_status,
                  block, escalate
    <2> QED
      BY <2>1, <2>2
  <1>2. /\ m.task = [l.task EXCEPT ![t] = "blocked"]
        /\ m.execution_log = Append(UndoneLog(l, t, r), e) /\ m.resolutions = l.resolutions
    BY FailsFields, FailsResolutions, SMTT(30)
  <1>3. e \in Event /\ e.type = "task_blocked" /\ e.task = t
    BY EventType DEF EventTypes, Touched
  <1>4. PICK k \in Ledger : /\ AllTold(k) /\ k.task = l.task /\ k.resolutions = l.resolutions
                            /\ m.execution_log = Append(k.execution_log, e)
    <2>1. CASE r.touched = "none"
      BY <1>2, <2>1 DEF UndoneLog
    <2>2. CASE r.touched # "none"
      <3> PICK k : k = append_event(l, event("compensation", t, r.touched))
        OBVIOUS
      <3>1. r.touched \in Touched
        BY DEF ExecutorResult
      <3>2. k \in Ledger /\ AllTold(k) /\ k.task = l.task /\ k.resolutions = l.resolutions
        BY <3>1, NoteRests
      <3>3. k.execution_log = Append(l.execution_log, event("compensation", t, r.touched))
        BY DEF append_event, Ledger
      <3> QED
        BY <1>2, <2>2, <3>2, <3>3 DEF UndoneLog
    <2> QED
      BY <2>1, <2>2
  <1> HIDE DEF m, e
  <1>5. e.type \in ProjectedEvents /\ "blocked" = StatusAfter(e.type)
    BY <1>3 DEF ProjectedEvents, StatusAfter
  <1>6. AllTold(m)
    BY <1>2, <1>3, <1>4, <1>5, ToldChange
  <1>7. Settled(l, m, t, "blocked")
    BY <1>1, <1>2, <1>6 DEF Settled
  <1> QED
    BY <1>7 DEF m

\* The end of _drive changes neither log, statuses nor leases.
LEMMA ReturnRests ==
    ASSUME NEW l \in Ledger, NEW s \in RunStates
    PROVE  LET m == reconcile([l EXCEPT !.run_state = s]) IN
           /\ m.task = l.task /\ m.agent_leases = l.agent_leases
           /\ m.execution_log = l.execution_log /\ m.run_state = s
           /\ m.resolutions = l.resolutions
  BY DEF Ledger, reconcile

\* Landing logs a commit, which is about no task.
LEMMA LandRests ==
    ASSUME NEW l \in Ledger, AllTold(l)
    PROVE  LET m == land(l) IN
           /\ m.task = l.task /\ m.agent_leases = l.agent_leases /\ m.run_state = l.run_state
           /\ AllTold(m)
  <1> DEFINE m == land(l)
             e == event("commit", NoTask, "none")
  <1>1. /\ m.task = l.task /\ m.agent_leases = l.agent_leases /\ m.run_state = l.run_state
        /\ m.execution_log = Append(l.execution_log, e) /\ m.resolutions = l.resolutions
    BY DEF land, append_event, Ledger
  <1>2. e \in Event /\ e.type = "commit" /\ e.task = NoTask
    BY EventType DEF EventTypes, Touched
  <1> HIDE DEF m, e
  <1>3. e.type \notin ProjectedEvents \cup {"resolution"}
    BY <1>2 DEF ProjectedEvents
  <1>4. AllTold(m)
    BY <1>1, <1>2, <1>3, ToldOther
  <1> QED
    BY <1>1, <1>4 DEF m

\* A decision leaves a ledger at rest at rest: the task it is about, if there is one, is
\* pending again or what it was.
LEMMA ResolveRests ==
    ASSUME NEW l \in Ledger, NEW id \in Nat, NEW decision \in Decisions, AllTold(l),
           \A t \in Tasks : l.task[t] # "in_progress"
    PROVE  LET m == resolve_blocker(l, id, decision) IN
           /\ \A t \in Tasks : m.task[t] # "in_progress"
           /\ m.agent_leases = l.agent_leases /\ m.run_state = l.run_state
           /\ AllTold(m)
  <1> DEFINE matching == {b \in l.blockers : b.id = id}
             named == IF matching # {}
                      THEN (CHOOSE b \in matching : \A c \in matching : b.at <= c.at).task
                      ELSE NoTask
  <1> HIDE DEF named
  <1>1. PICK t : t = named
    OBVIOUS
  <1> USE DEF named
  <1>2. PICK m : m = resolve_blocker(l, id, decision)
    OBVIOUS
  <1>3. PICK e : e = event("resolution", t, "none")
    OBVIOUS
  <1>4. matching # {} => t \in Tasks
    <2> SUFFICES ASSUME matching # {} PROVE t \in Tasks
      OBVIOUS
    <2>1. \E b \in matching : \A c \in matching : b.at <= c.at
      BY FirstBlocker DEF Ledger
    <2>2. PICK b \in matching : t = b.task
      BY <1>1, <2>1
    <2> QED
      BY <2>2 DEF Ledger, Blocker
  <1>5. t \in Tasks \cup {NoTask}
    BY <1>1, <1>4
  <1>6. e \in Event /\ e.type = "resolution" /\ e.task = t
    BY <1>3, <1>5, EventType DEF EventTypes, Touched
  <1> PICK x : x = [at |-> Len(l.execution_log) + 1, id |-> id, decision |-> decision]
    OBVIOUS
  <1>7. /\ m.agent_leases = l.agent_leases /\ m.run_state = l.run_state
        /\ m.execution_log = Append(l.execution_log, e)
        /\ m.resolutions = Append(l.resolutions, x)
        /\ \/ m.task = l.task /\ ~(decision = "override" /\ matching # {})
           \/ /\ decision = "override" /\ t \in Tasks
              /\ m.task = [l.task EXCEPT ![t] = "pending"]
    <2> DEFINE noted == [l EXCEPT !.resolutions = Append(@, x)]
               reset == [noted EXCEPT !.blockers = @ \ matching, !.task[t] = "pending"]
    <2>1. m = append_event(IF decision = "override" /\ matching # {} THEN reset ELSE noted, e)
      BY <1>1, <1>2, <1>3 DEF resolve_blocker
    <2>2. /\ noted.agent_leases = l.agent_leases /\ noted.run_state = l.run_state
          /\ noted.execution_log = l.execution_log /\ noted.task = l.task
          /\ noted.resolutions = Append(l.resolutions, x)
      BY DEF Ledger
    <2>3. /\ reset.agent_leases = l.agent_leases /\ reset.run_state = l.run_state
          /\ reset.execution_log = l.execution_log
          /\ reset.resolutions = Append(l.resolutions, x)
          /\ reset.task = [l.task EXCEPT ![t] = "pending"]
      BY DEF Ledger
    <2>4. CASE decision = "override" /\ matching # {}
      <3>1. m = append_event(reset, e)
        BY <2>1, <2>4
      <3>2. /\ m.agent_leases = reset.agent_leases /\ m.run_state = reset.run_state
            /\ m.execution_log = Append(reset.execution_log, e) /\ m.task = reset.task
            /\ m.resolutions = reset.resolutions
        BY <3>1 DEF append_event, Ledger
      <3>3. t \in Tasks
        BY <1>4, <2>4
      <3> HIDE DEF reset, noted, named, matching
      <3>4. /\ m.agent_leases = l.agent_leases /\ m.run_state = l.run_state
            /\ m.execution_log = Append(l.execution_log, e)
            /\ m.resolutions = Append(l.resolutions, x)
            /\ m.task = [l.task EXCEPT ![t] = "pending"]
        BY <2>3, <3>2
      <3> QED
        BY <2>4, <3>3, <3>4
    <2>5. CASE ~(decision = "override" /\ matching # {})
      <3>1. m = append_event(noted, e)
        BY <2>1, <2>5
      <3>2. /\ m.agent_leases = noted.agent_leases /\ m.run_state = noted.run_state
            /\ m.execution_log = Append(noted.execution_log, e) /\ m.task = noted.task
            /\ m.resolutions = noted.resolutions
        BY <3>1 DEF append_event, Ledger
      <3> HIDE DEF reset, noted, named, matching
      <3>3. /\ m.agent_leases = l.agent_leases /\ m.run_state = l.run_state
            /\ m.execution_log = Append(l.execution_log, e)
            /\ m.resolutions = Append(l.resolutions, x)
            /\ m.task = l.task
        BY <2>2, <3>2
      <3> QED
        BY <2>5, <3>3
    <2> HIDE DEF reset, noted, named, matching
    <2> QED
      BY <2>4, <2>5
  <1>8. l.task \in [Tasks -> TaskStates]
    BY DEF Ledger
  <1>9. \A u \in Tasks : m.task[u] # "in_progress" /\ m.task[u] \in TaskStates
    BY <1>7, <1>8 DEF TaskStates
  <1>10. /\ l.execution_log \in Seq(Event) /\ l.resolutions \in Seq(Resolution)
         /\ Len(l.execution_log) + 1 \in Nat
    BY LenProperties DEF Ledger
  <1>11. /\ x.at = Len(l.execution_log) + 1 /\ x.decision = decision /\ x \in Resolution
    BY <1>10 DEF Resolution
  <1>12. /\ DOMAIN l.resolutions = 1 .. Len(l.resolutions) /\ Len(l.resolutions) \in Nat
         /\ DOMAIN m.resolutions = 1 .. Len(l.resolutions) + 1
         /\ \A k \in 1 .. Len(l.resolutions) : m.resolutions[k] = l.resolutions[k]
         /\ m.resolutions[Len(l.resolutions) + 1] = x
    BY <1>7, <1>10, <1>11, AppendAt
  <1>13. \A k \in DOMAIN l.resolutions : l.resolutions[k].at \in Nat
                                           /\ l.resolutions[k].at <= Len(l.execution_log)
    BY <1>10, ResolutionAt DEF AllTold, Dated
  <1>14. Dated(m)
    <2>1. Len(m.execution_log) = Len(l.execution_log) + 1 /\ Len(l.execution_log) \in Nat
      BY <1>6, <1>7, <1>10, AppendAt
    <2>2. ASSUME NEW k \in DOMAIN m.resolutions
          PROVE  m.resolutions[k].at <= Len(m.execution_log)
      <3>1. CASE k = Len(l.resolutions) + 1
        BY <1>11, <1>12, <2>1, <3>1
      <3>2. CASE k # Len(l.resolutions) + 1
        <4>1. k \in DOMAIN l.resolutions /\ m.resolutions[k] = l.resolutions[k]
          BY <1>12, <3>2
        <4> QED
          BY <1>13, <2>1, <4>1
      <3> QED
        BY <3>1, <3>2
    <2> QED
      BY <2>2 DEF Dated
  <1>15. \A i \in 1 .. Len(l.execution_log) : i \in Overrides(m) <=> i \in Overrides(l)
    <2>1. \A i : i \in Overrides(m) <=> \E k \in DOMAIN m.resolutions :
                     m.resolutions[k].decision = "override" /\ m.resolutions[k].at = i
      BY DEF Overrides
    <2>2. \A i : i \in Overrides(l) <=> \E k \in DOMAIN l.resolutions :
                     l.resolutions[k].decision = "override" /\ l.resolutions[k].at = i
      BY DEF Overrides
    <2> TAKE i \in 1 .. Len(l.execution_log)
    <2>3. x.at # i
      BY <1>10, <1>11
    <2>4. ASSUME i \in Overrides(m) PROVE i \in Overrides(l)
      <3>1. PICK k \in DOMAIN m.resolutions :
                m.resolutions[k].decision = "override" /\ m.resolutions[k].at = i
        BY <2>1, <2>4
      <3>2. k \in DOMAIN l.resolutions /\ m.resolutions[k] = l.resolutions[k]
        BY <1>12, <2>3, <3>1
      <3> QED
        BY <2>2, <3>1, <3>2
    <2>5. ASSUME i \in Overrides(l) PROVE i \in Overrides(m)
      <3>1. PICK k \in DOMAIN l.resolutions :
                l.resolutions[k].decision = "override" /\ l.resolutions[k].at = i
        BY <2>2, <2>5
      <3>2. k \in DOMAIN m.resolutions /\ m.resolutions[k] = l.resolutions[k]
        BY <1>12
      <3> QED
        BY <2>1, <3>1, <3>2
    <2> QED
      BY <2>4, <2>5
  <1>16. Len(l.execution_log) + 1 \in Overrides(m) <=> decision = "override"
    <2>1. Len(l.execution_log) + 1 \in Overrides(m) <=>
              \E k \in DOMAIN m.resolutions :
                  /\ m.resolutions[k].decision = "override"
                  /\ m.resolutions[k].at = Len(l.execution_log) + 1
      BY DEF Overrides
    <2>2. ASSUME NEW k \in 1 .. Len(l.resolutions)
          PROVE  m.resolutions[k].at # Len(l.execution_log) + 1
      <3>1. m.resolutions[k] = l.resolutions[k] /\ k \in DOMAIN l.resolutions
        BY <1>12
      <3>2. m.resolutions[k].at <= Len(l.execution_log) /\ m.resolutions[k].at \in Nat
        BY <1>13, <3>1
      <3>3. Len(l.execution_log) \in Nat
        BY <1>10, LenProperties
      <3> QED
        BY <3>2, <3>3
    <2>3. \A k \in DOMAIN m.resolutions :
              m.resolutions[k].at = Len(l.execution_log) + 1 => m.resolutions[k] = x
      BY <1>12, <2>2
    <2>4. Len(l.resolutions) + 1 \in DOMAIN m.resolutions
      BY <1>12
    <2> QED
      BY <1>11, <1>12, <2>1, <2>3, <2>4
  <1>17. ASSUME NEW u \in Tasks PROVE Told(m.execution_log, Overrides(m), u, m.task[u])
    <2>1. Told(l.execution_log, Overrides(l), u, l.task[u])
      BY DEF AllTold
    <2>2. e.type \notin ProjectedEvents
      BY <1>6 DEF ProjectedEvents
    <2>3. CASE t = u /\ decision = "override"
      <3>1. matching # {}
        BY <1>1, <2>3, TasksAssumption DEF NoTask
      <3>2. m.task[u] = "pending" /\ StatusAfter(e.type) = "pending"
        BY <1>6, <1>7, <1>8, <2>3, <3>1 DEF StatusAfter
      <3>3. e.task = u /\ e.type = "resolution" /\ Len(l.execution_log) + 1 \in Overrides(m)
        BY <1>6, <1>16, <2>3
      <3> PICK log : log = l.execution_log
        OBVIOUS
      <3>4. Told(Append(log, e), Overrides(m), u, m.task[u])
        BY <1>6, <1>10, <3>2, <3>3, ToldAfter
      <3> QED
        BY <1>7, <3>4
    <2>4. CASE t # u
      <3>1. m.task[u] = l.task[u]
        BY <1>7, <1>8, <2>4
      <3> QED
        BY <1>6, <1>7, <1>10, <1>15, <2>1, <2>4, <3>1, ToldBefore
    <2>5. CASE decision # "override"
      <3>1. m.task[u] = l.task[u]
        BY <1>7, <2>5
      <3> QED
        BY <1>6, <1>7, <1>10, <1>15, <1>16, <2>1, <2>2, <2>5, <3>1, ToldBefore
    <2> QED
      BY <2>3, <2>4, <2>5
  <1>18. AllTold(m)
    BY <1>14, <1>17 DEF AllTold
  <1> QED
    BY <1>2, <1>7, <1>9, <1>18

-----------------------------------------------------------------------------
(* The steps.                                                              *)

\* The log agrees with the statuses in memory and in the store.
LEMMA TellsParts ==
    LogTellsStatus /\ ResolutionsDated <=> /\ ledger # NoLedger => AllTold(ledger)
                                           /\ stored # NoLedger => AllTold(stored)
  BY DEF LogTellsStatus, ResolutionsDated, Ledgers, AllTold

\* A step of the loop that leaves the ledger at rest and the store alone.
LEMMA DriveRest ==
    ASSUME RestInv, phase' = "drive", AllTold(ledger'), Resting(ledger', leases),
           UNCHANGED <<stored, leases>>
    PROVE  RestInv'
  <1>1. LogTellsStatus' /\ ResolutionsDated'
    <2>1. stored # NoLedger => AllTold(stored)
      BY TellsParts DEF RestInv
    <2> QED
      BY <2>1 DEF LogTellsStatus, ResolutionsDated, Ledgers, AllTold
  <1>2. StoredAtRest'
    BY DEF RestInv, StoredAtRest, Resting
  <1>3. SoleLease'
    BY DEF SoleLease
  <1>4. Resting(ledger, leases)'
    BY DEF Resting
  <1> QED
    BY <1>1, <1>2, <1>3, <1>4 DEF RestInv

\* run and resume start from a ledger at rest.
LEMMA StartRest ==
    ASSUME IInv, RestInv, Run \/ Resume
    PROVE  RestInv'
  <1>1. CASE Run
    <2>1. phase' = "drive" /\ ledger' = init_ledger /\ UNCHANGED <<stored, leases>>
      BY <1>1 DEF Run, Start
    <2>2. /\ init_ledger.task = [t \in Tasks |-> "pending"]
          /\ init_ledger.agent_leases = <<>> /\ init_ledger.execution_log = <<>>
      BY DEF init_ledger
    <2>3. AllTold(init_ledger)
      BY <2>2 DEF AllTold, Told, Settles, Dated, init_ledger
    <2>4. Resting(init_ledger, leases)
      <3>1. Open(init_ledger.agent_leases) = {}
        BY <2>2 DEF Open
      <3>2. Cardinality(Open(init_ledger.agent_leases)) = 0
        BY <3>1, FS_EmptySet
      <3>3. leases \in Nat
        BY DEF IInv, TypeOK
      <3> QED
        BY <2>2, <3>2, <3>3 DEF Resting
    <2> QED
      BY <2>1, <2>3, <2>4, DriveRest
  <1>2. CASE Resume
    <2> PICK l : l = [stored EXCEPT !.run_state = "running"]
      OBVIOUS
    <2>1. phase' = "drive" /\ ledger' = l /\ UNCHANGED <<stored, leases>> /\ stored # NoLedger
      BY <1>2 DEF Resume, Start
    <2>2. stored \in Ledger /\ AllTold(stored) /\ Resting(stored, leases)
      BY <2>1, TellsParts DEF IInv, TypeOK, RestInv, StoredAtRest
    <2>3. /\ l.task = stored.task /\ l.agent_leases = stored.agent_leases
          /\ l.execution_log = stored.execution_log /\ l.resolutions = stored.resolutions
      BY <2>2 DEF Ledger
    <2>4. AllTold(l) /\ Resting(l, leases)
      BY <2>2, <2>3, SameTold DEF Resting
    <2> QED
      BY <2>1, <2>4, DriveRest
  <1> QED
    BY <1>1, <1>2

\* What holds of the ledger while the loop looks for a task.
LEMMA Driving ==
    ASSUME IInv, RestInv, phase \in {"drive", "returned", "landed"}
    PROVE  /\ ledger \in Ledger /\ ledger # NoLedger /\ ids \in Nat
           /\ AllTold(ledger) /\ Resting(ledger, leases)
           /\ ledger.task \in [Tasks -> TaskStates]
  <1>1. ledger \in Ledger /\ ids \in Nat
    BY DEF IInv, TypeOK
  <1>2. ledger # NoLedger /\ ledger.task \in [Tasks -> TaskStates]
    BY <1>1, NoLedgerAssumption DEF Ledger
  <1> QED
    BY <1>1, <1>2, TellsParts DEF RestInv

\* Visits that execute nothing.
LEMMA VisitRest ==
    ASSUME IInv, RestInv, SkipCompleted \/ SkipCommitted \/ BlockUnmetDeps \/ LeaseConflict
    PROVE  RestInv'
  <1>1. phase = "drive" /\ phase' = "drive" /\ UNCHANGED <<stored, leases>>
    BY DEF SkipCompleted, SkipCommitted, BlockUnmetDeps, LeaseConflict, Reached, Visit,
           OutsideLoop, boundVars
  <1>2. /\ ledger \in Ledger /\ ids \in Nat /\ AllTold(ledger) /\ Resting(ledger, leases)
        /\ ledger.task \in [Tasks -> TaskStates]
    BY <1>1, Driving
  <1>3. CASE UNCHANGED ledger
    BY <1>1, <1>2, <1>3, DriveRest
  <1>4. CASE \E t \in Tasks, from \in {"pending", "in_progress"} :
                ledger' = block(ledger, t, ids + 1, from)
    <2>1. PICK t \in Tasks, from \in TaskStates : ledger' = block(ledger, t, ids + 1, from)
      BY <1>4 DEF TaskStates
    <2>2. /\ ledger'.task = [ledger.task EXCEPT ![t] = "blocked"]
          /\ ledger'.agent_leases = ledger.agent_leases /\ AllTold(ledger')
      <3>1. ids + 1 \in Nat
        BY <1>2
      <3>2. /\ block(ledger, t, ids + 1, from).task = [ledger.task EXCEPT ![t] = "blocked"]
            /\ block(ledger, t, ids + 1, from).agent_leases = ledger.agent_leases
            /\ AllTold(ledger) => AllTold(block(ledger, t, ids + 1, from))
        BY <1>2, <3>1, BlockRests
      <3> QED
        BY <1>2, <2>1, <3>2, Zenon
    <2>3. Resting(ledger', leases)
      BY <1>2, <2>2 DEF Resting
    <2> QED
      BY <1>1, <2>2, <2>3, DriveRest
  <1>5. UNCHANGED ledger \/ \E t \in Tasks, from \in {"pending", "in_progress"} :
                                ledger' = block(ledger, t, ids + 1, from)
    BY DEF SkipCompleted, SkipCommitted, BlockUnmetDeps, LeaseConflict, block_unmet_deps,
           escalate
  <1> QED
    BY <1>3, <1>4, <1>5

\* A task starts when nobody else holds a lease on it: its own is then the only one.
LEMMA BeginRest ==
    ASSUME IInv, RestInv, BeginTask
    PROVE  RestInv'
  <1>1. PICK t \in Tasks :
            /\ phase = "drive" /\ phase' = "exec" /\ current' = t
            /\ can_acquire(ledger, t, now) /\ ledger' = begin_task(ledger, t)
            /\ UNCHANGED <<stored, leases, now>>
    BY DEF BeginTask, Reached, Visit, OutsideLoop, boundVars
  <1>2. /\ ledger \in Ledger /\ AllTold(ledger) /\ Resting(ledger, leases)
        /\ ledger.task \in [Tasks -> TaskStates] /\ ledger.agent_leases \in Seq(Lease)
    BY <1>1, Driving DEF Ledger
  <1> PICK ls : ls = ledger.agent_leases
    OBVIOUS
  <1> PICK x : x = [task |-> t, expires_at |-> NoExpiry, released |-> FALSE]
    OBVIOUS
  <1>3. /\ ledger'.task = [ledger.task EXCEPT ![t] = "in_progress"]
        /\ ledger'.agent_leases = Append(ls, x)
        /\ AllTold(ledger')
    BY <1>1, <1>2, BeginRests
  <1>4. x \in Lease /\ x.task = t /\ x.expires_at = NoExpiry /\ ~x.released
    BY DEF Lease
  <1>5. /\ Len(ls) \in Nat /\ DOMAIN ls = 1 .. Len(ls)
        /\ DOMAIN Append(ls, x) = 1 .. Len(ls) + 1 /\ Len(Append(ls, x)) = Len(ls) + 1
        /\ \A i \in 1 .. Len(ls) : Append(ls, x)[i] = ls[i]
        /\ Append(ls, x)[Len(ls) + 1] = x
    BY <1>2, <1>4, AppendAt
  <1>6. Open(Append(ls, x)) \ {Len(ls) + 1} = Open(ls)
    BY <1>2, <1>4, OpenAppend
  <1>7. lease_state(x, now) = "active"
    BY <1>4 DEF lease_state
  <1>8. \A i \in 1 .. Len(ls) : ls[i].task = t => lease_state(ls[i], now) # "active"
    BY <1>1, <1>5 DEF can_acquire
  <1>9. SoleLease'
    <2>1. {i \in DOMAIN Append(ls, x) :
               /\ Append(ls, x)[i].task = t
               /\ lease_state(Append(ls, x)[i], now) = "active"} = {Len(ls) + 1}
      BY <1>4, <1>5, <1>7, <1>8
    <2> QED
      BY <1>1, <1>3, <1>5, <2>1, ZenonT(30) DEF SoleLease
  <1>10. LogTellsStatus' /\ ResolutionsDated'
    <2>1. stored # NoLedger => AllTold(stored)
      BY TellsParts DEF RestInv
    <2> QED
      BY <1>1, <1>3, <2>1 DEF LogTellsStatus, ResolutionsDated, Ledgers, AllTold
  <1>11. StoredAtRest'
    BY <1>1 DEF RestInv, StoredAtRest, Resting
  <1>12. \A u \in Tasks \ {t} : ledger'.task[u] # "in_progress"
    BY <1>2, <1>3 DEF Resting
  <1>13. Cardinality(Open(Append(ls, x)) \ {Len(ls) + 1}) <= leases
    BY <1>2, <1>6 DEF Resting
  <1> QED
    BY <1>1, <1>3, <1>4, <1>5, <1>9, <1>10, <1>11, <1>12, <1>13 DEF RestInv

\* Another attempt changes neither the ledger nor the clock.
LEMMA RetryRest ==
    ASSUME RestInv, RetryAttempt
    PROVE  RestInv'
  <1>1. UNCHANGED <<phase, ledger, current, stored, now, leases>>
    BY DEF RetryAttempt, OutsideLoop, boundVars
  <1> QED
    BY <1>1 DEF RestInv, LogTellsStatus, ResolutionsDated, Dated, Overrides, Ledgers,
                StoredAtRest, SoleLease, Resting

\* The task in flight ends, one way or the other, and its lease is released.
LEMMA OutcomeRest ==
    ASSUME IInv, RestInv, TaskSucceeds \/ TaskFails
    PROVE  RestInv'
  <1>1. phase = "exec" /\ phase' = "drive" /\ UNCHANGED <<stored, leases>>
    BY DEF TaskSucceeds, TaskFails, OutsideLoop, boundVars
  <1>2. /\ ledger \in Ledger /\ current \in Tasks /\ ids \in Nat
        /\ ledger.agent_leases # <<>>
    BY <1>1, Flying DEF InFlight
  <1>3. /\ ledger.task \in [Tasks -> TaskStates] /\ ledger.agent_leases \in Seq(Lease)
        /\ ledger # NoLedger
    BY <1>2, NoLedgerAssumption DEF Ledger
  <1>4. AllTold(ledger)
    BY <1>3, TellsParts DEF RestInv
  <1>5. PICK s \in {"completed", "blocked"} : Settled(ledger, ledger', current, s)
    <2>1. CASE TaskSucceeds
      <3>1. PICK r \in ExecutorResult : ledger' = task_succeeds(ledger, current, r)
        BY <2>1, ResultsAssumption DEF TaskSucceeds
      <3> QED
        BY <1>2, <1>4, <3>1, SucceedsRests
    <2>2. CASE TaskFails
      <3>1. PICK r \in ExecutorResult : ledger' = task_fails(ledger, current, r, ids + 1)
        BY <2>2, ResultsAssumption DEF TaskFails
      <3>2. ids + 1 \in Nat
        BY <1>2
      <3> QED
        BY <1>2, <1>4, <3>1, <3>2, FailsRests
    <2> QED
      BY <2>1, <2>2
  <1> PICK ls : ls = ledger.agent_leases
    OBVIOUS
  <1>6. Open(ledger'.agent_leases) = Open(ls) \ {Len(ls)}
    BY <1>2, <1>3, <1>5, OpenRelease DEF Settled
  <1>7. Cardinality(Open(ledger'.agent_leases)) <= leases
    BY <1>1, <1>6 DEF RestInv
  <1>8. \A t \in Tasks : ledger'.task[t] # "in_progress"
    BY <1>1, <1>2, <1>3, <1>5 DEF RestInv, Settled
  <1> QED
    BY <1>1, <1>5, <1>7, <1>8, DriveRest DEF Resting, Settled

\* The loop ends with a run_state that says so.
LEMMA ReturnRest ==
    ASSUME IInv, RestInv, Stop \/ Finish
    PROVE  RestInv'
  <1>1. PICK s \in RunStates \ {"running"} : Return(s)
    BY DEF Stop, Stopped, Finish, RunStates
  <1>2. phase = "drive" /\ phase' = "returned" /\ UNCHANGED <<stored, leases>>
    BY <1>1 DEF Stop, Finish, Return, boundVars
  <1>3. /\ ledger \in Ledger /\ AllTold(ledger) /\ Resting(ledger, leases)
    BY <1>2, Driving
  <1>4. /\ ledger'.task = ledger.task /\ ledger'.agent_leases = ledger.agent_leases
        /\ ledger'.execution_log = ledger.execution_log /\ ledger'.run_state = s
        /\ ledger'.resolutions = ledger.resolutions
    BY <1>1, <1>3, ReturnRests DEF Return
  <1>5. AllTold(ledger') /\ Resting(ledger', leases)
    BY <1>3, <1>4, SameTold DEF Resting
  <1>6. LogTellsStatus' /\ ResolutionsDated'
    <2>1. stored # NoLedger => AllTold(stored)
      BY TellsParts DEF RestInv
    <2> QED
      BY <1>2, <1>5, <2>1 DEF LogTellsStatus, ResolutionsDated, Ledgers, AllTold
  <1>7. StoredAtRest' /\ SoleLease'
    BY <1>2 DEF RestInv, StoredAtRest, Resting, SoleLease
  <1> QED
    BY <1>1, <1>2, <1>4, <1>5, <1>6, <1>7 DEF RestInv, Resting

\* The run lands.
LEMMA LandRest ==
    ASSUME IInv, RestInv, Land
    PROVE  RestInv'
  <1>1. /\ phase = "returned" /\ phase' = "landed" /\ UNCHANGED <<stored, leases>>
        /\ ledger' = land(ledger)
    BY DEF Land, boundVars
  <1>2. ledger \in Ledger /\ AllTold(ledger) /\ Resting(ledger, leases)
    BY <1>1, Driving
  <1>3. /\ ledger'.task = ledger.task /\ ledger'.agent_leases = ledger.agent_leases
        /\ ledger'.run_state = ledger.run_state /\ AllTold(ledger')
    BY <1>1, <1>2, LandRests
  <1>4. LogTellsStatus' /\ ResolutionsDated'
    <2>1. stored # NoLedger => AllTold(stored)
      BY TellsParts DEF RestInv
    <2> QED
      BY <1>1, <1>3, <2>1 DEF LogTellsStatus, ResolutionsDated, Ledgers, AllTold
  <1>5. StoredAtRest' /\ SoleLease'
    BY <1>1 DEF RestInv, StoredAtRest, Resting, SoleLease
  <1>6. Resting(ledger', leases)
    BY <1>2, <1>3 DEF Resting
  <1> QED
    BY <1>1, <1>3, <1>4, <1>5, <1>6 DEF RestInv, Resting

\* The process ends: what it saves is at rest, what a crash leaves was before.
LEMMA EndRest ==
    ASSUME IInv, RestInv, Save \/ Crash
    PROVE  RestInv'
  <1>1. phase' = "idle" /\ ledger' = NoLedger /\ UNCHANGED leases
    BY DEF Save, Crash, EndProcess
  <1>2. stored' # NoLedger => /\ AllTold(stored') /\ Resting(stored', leases)
                              /\ stored'.run_state # "running"
    <2>1. CASE Save
      <3>1. phase \in {"returned", "landed"} /\ stored' = ledger
        BY <2>1 DEF Save
      <3> QED
        BY <3>1, Driving DEF RestInv
    <2>2. CASE Crash
      BY <2>2, TellsParts DEF Crash, RestInv, StoredAtRest
    <2> QED
      BY <2>1, <2>2
  <1>3. LogTellsStatus' /\ ResolutionsDated'
    BY <1>1, <1>2 DEF LogTellsStatus, ResolutionsDated, Ledgers, AllTold
  <1>4. StoredAtRest' /\ SoleLease'
    BY <1>1, <1>2 DEF StoredAtRest, Resting, SoleLease
  <1> QED
    BY <1>1, <1>3, <1>4 DEF RestInv

\* A step on the stored ledger while the process, if there is one, goes on.
LEMMA StoreRest ==
    ASSUME IInv, RestInv, Resolve \/ AcquireLease
    PROVE  RestInv'
  <1>1. /\ UNCHANGED <<phase, ledger, current, now>> /\ leases' \in {leases, leases + 1}
        /\ stored # NoLedger /\ leases \in Nat
    BY DEF Resolve, AcquireLease, procVars, IInv, TypeOK
  <1>2. stored \in Ledger /\ AllTold(stored) /\ Resting(stored, leases)
        /\ stored.run_state # "running" /\ stored.agent_leases \in Seq(Lease)
    BY <1>1, TellsParts DEF IInv, TypeOK, RestInv, StoredAtRest, Ledger
  <1>3. /\ AllTold(stored') /\ Resting(stored', leases') /\ stored'.run_state # "running"
    <2>1. CASE Resolve
      <3>1. PICK n \in {b.id : b \in stored.blockers} \cup UnknownIds, d \in Decisions :
                stored' = resolve_blocker(stored, n, d)
        BY <2>1 DEF Resolve
      <3>2. n \in Nat
        <4>1. \A b \in stored.blockers : b.id \in Nat
          BY <1>2 DEF Ledger, Blocker
        <4>2. \A k \in UnknownIds : k \in Nat
          BY BoundsAssumption
        <4> QED
          BY <4>1, <4>2
      <3>3. /\ \A t \in Tasks : stored'.task[t] # "in_progress"
            /\ stored'.agent_leases = stored.agent_leases
            /\ stored'.run_state = stored.run_state /\ AllTold(stored')
        BY <1>2, <3>1, <3>2, ResolveRests DEF Resting
      <3>4. UNCHANGED leases
        BY <2>1 DEF Resolve
      <3> QED
        BY <1>2, <3>3, <3>4 DEF Resting
    <2>2. CASE AcquireLease
      <3>1. PICK t \in Tasks, x \in {now, NoExpiry} :
                /\ leases' = leases + 1
                /\ stored' = [stored EXCEPT !.agent_leases =
                       Append(@, [task |-> t, expires_at |-> x, released |-> FALSE])]
        BY <2>2 DEF AcquireLease
      <3> PICK ls, y : /\ ls = stored.agent_leases
                       /\ y = [task |-> t, expires_at |-> x, released |-> FALSE]
        OBVIOUS
      <3>2. y \in Lease /\ ~y.released
        BY DEF Lease, IInv, TypeOK
      <3>3. /\ stored'.agent_leases = Append(ls, y) /\ stored'.task = stored.task
            /\ stored'.execution_log = stored.execution_log
            /\ stored'.run_state = stored.run_state
            /\ stored'.resolutions = stored.resolutions
        BY <1>2, <3>1 DEF Ledger
      <3>4. Cardinality(Open(Append(ls, y))) = Cardinality(Open(ls)) + 1
        BY <1>2, <3>2, OpenAppend
      <3>5. Cardinality(Open(ls)) \in Nat
        BY <1>2, OpenFinite, FS_CardinalityType
      <3>6. Cardinality(Open(stored'.agent_leases)) <= leases'
        BY <1>1, <1>2, <3>1, <3>3, <3>4, <3>5 DEF Resting
      <3>7. AllTold(stored')
        BY <1>2, <3>3, SameTold
      <3> QED
        BY <1>2, <3>3, <3>6, <3>7 DEF Resting
    <2> QED
      BY <2>1, <2>2
  <1>4. LogTellsStatus' /\ ResolutionsDated'
    <2>1. ledger # NoLedger => AllTold(ledger)
      BY TellsParts DEF RestInv
    <2> QED
      BY <1>1, <1>3, <2>1 DEF LogTellsStatus, ResolutionsDated, Ledgers, AllTold
  <1>5. StoredAtRest'
    BY <1>3 DEF StoredAtRest, Resting
  <1>6. SoleLease'
    BY <1>1 DEF RestInv, SoleLease
  <1>7. phase # "idle" => ledger \in Ledger
    BY DEF IInv, TypeOK
  <1>8. phase # "idle" => /\ Cardinality(Open(ledger.agent_leases)) \in Nat
                          /\ Cardinality(Open(ledger.agent_leases)
                                            \ {Len(ledger.agent_leases)}) \in Nat
    <2> SUFFICES ASSUME phase # "idle"
                 PROVE  /\ Cardinality(Open(ledger.agent_leases)) \in Nat
                        /\ Cardinality(Open(ledger.agent_leases)
                                          \ {Len(ledger.agent_leases)}) \in Nat
      OBVIOUS
    <2>1. IsFiniteSet(Open(ledger.agent_leases))
      BY <1>7, OpenFinite DEF Ledger
    <2>2. IsFiniteSet(Open(ledger.agent_leases) \ {Len(ledger.agent_leases)})
      BY <2>1, FS_Subset
    <2> QED
      BY <2>1, <2>2, FS_CardinalityType
  <1>9. phase \in {"drive", "returned", "landed"} => Resting(ledger, leases')
    BY <1>1, <1>8 DEF RestInv, Resting
  <1>10. phase = "exec" =>
             Cardinality(Open(ledger.agent_leases) \ {Len(ledger.agent_leases)}) <= leases'
    BY <1>1, <1>8 DEF RestInv
  <1> QED
    BY <1>1, <1>4, <1>5, <1>6, <1>9, <1>10 DEF RestInv, Resting

\* Time passes: leases expire, and the engine's own does not.
LEMMA TickRest ==
    ASSUME IInv, RestInv, Tick
    PROVE  RestInv'
  <1>1. UNCHANGED <<phase, ledger, current, stored, leases>> /\ now' = now + 1 /\ now \in Nat
    BY DEF Tick, procVars, boundVars, IInv, TypeOK
  <1>2. SoleLease'
    <2> SUFFICES ASSUME phase = "exec"
                 PROVE  {i \in DOMAIN ledger.agent_leases :
                            /\ ledger.agent_leases[i].task = current
                            /\ lease_state(ledger.agent_leases[i], now + 1) = "active"}
                        = {Len(ledger.agent_leases)}
      BY <1>1 DEF SoleLease
    <2> PICK ls, n : ls = ledger.agent_leases /\ n = Len(ledger.agent_leases)
      OBVIOUS
    <2>1. ls \in Seq(Lease)
      BY DEF IInv, TypeOK, Ledger
    <2>2. {i \in DOMAIN ls : ls[i].task = current /\ lease_state(ls[i], now) = "active"} = {n}
      BY DEF RestInv, SoleLease
    <2>3. /\ n \in DOMAIN ls /\ ls[n].task = current /\ lease_state(ls[n], now) = "active"
          /\ \A i \in DOMAIN ls : (ls[i].task = current /\ i # n)
                                     => lease_state(ls[i], now) # "active"
      BY <2>2
    <2>4. ls[n].expires_at = NoExpiry
      BY DEF RestInv
    <2>5. lease_state(ls[n], now + 1) = "active"
      BY <2>3, <2>4 DEF lease_state
    <2>6. \A i \in DOMAIN ls : ls[i] \in Lease
      BY <2>1, ElementOfSeq, LenProperties
    <2>7. \A i \in DOMAIN ls : (ls[i].task = current /\ i # n)
                                   => lease_state(ls[i], now + 1) # "active"
      BY <1>1, <2>3, <2>6, NotActiveStays
    <2>8. {i \in DOMAIN ls : ls[i].task = current /\ lease_state(ls[i], now + 1) = "active"}
             = {n}
      BY <2>3, <2>5, <2>7
    <2> QED
      BY <2>8
  <1> QED
    BY <1>1, <1>2 DEF RestInv, LogTellsStatus, ResolutionsDated, Dated, Overrides, Ledgers,
                      StoredAtRest, Resting

\* The control flag, or nothing, changes.
LEMMA QuietRest ==
    ASSUME RestInv, SetControl \/ UNCHANGED vars
    PROVE  RestInv'
  <1>1. UNCHANGED <<phase, ledger, current, stored, now, leases>>
    BY DEF SetControl, vars, procVars, boundVars
  <1> QED
    BY <1>1 DEF RestInv, LogTellsStatus, ResolutionsDated, Dated, Overrides, Ledgers,
                StoredAtRest, SoleLease, Resting

\* It holds before the first command.
LEMMA InitRest == Init => RestInv
  BY DEF Init, RestInv, LogTellsStatus, ResolutionsDated, Ledgers, StoredAtRest, SoleLease

\* Every step keeps it.
LEMMA NextRest == IInv /\ RestInv /\ [Next]_vars => RestInv'
  BY StartRest, VisitRest, BeginRest, RetryRest, OutcomeRest, ReturnRest, LandRest, EndRest,
     StoreRest, TickRest, QuietRest
     DEF Next, Step

\* The invariant holds in every reachable state.
LEMMA RestHolds == Spec => []RestInv
  BY InitRest, NextRest, Inductive, PTL DEF Spec

-----------------------------------------------------------------------------
(* What follows from it.                                                   *)

\* In every ledger, in memory or stored, the last event about a task's progress agrees
\* with its status, whatever was run, resumed, resolved, lost in a crash or written
\* back by another command: no status changes without its event.
THEOREM LogIsTruthful == Spec => []LogTellsStatus
  BY RestHolds, PTL DEF RestInv

\* A saved ledger has no task in progress, no lease of the engine left open and a
\* run_state that is not "running", however its command ended.
THEOREM SavedAtRest == Spec => []StoredAtRest
  BY RestHolds, PTL DEF RestInv

\* While a task executes, the engine's lease is the only active one on it in the ledger
\* it holds, however the clock moves meanwhile.
THEOREM LeaseIsSole == Spec => []SoleLease
  BY RestHolds, PTL DEF RestInv

-----------------------------------------------------------------------------
(* A stored history goes on.                                               *)

\* The steps of a command: the ledger goes on and decides nothing for the operator.
Grows(l, m) == Continues(l, m) /\ m.resolutions = l.resolutions

\* A log followed by at most two events, and a journal that keeps its commits.
LEMMA GrownLog ==
    ASSUME NEW l \in Ledger, NEW m, NEW e \in Event, NEW f \in Event,
           m.execution_log \in {l.execution_log, Append(l.execution_log, e),
                               Append(Append(l.execution_log, f), e)},
           \A t \in Tasks : CommittedIn(l.saga_journal, t) => CommittedIn(m.saga_journal, t)
    PROVE  Continues(l, m)
  <1> DEFINE log == l.execution_log
             one == Append(log, f)
  <1>1. log \in Seq(Event)
    BY DEF Ledger
  <1>2. /\ one \in Seq(Event) /\ Len(log) \in Nat /\ DOMAIN log = 1 .. Len(log)
        /\ Len(one) = Len(log) + 1 /\ \A i \in 1 .. Len(log) : one[i] = log[i]
    BY <1>1, AppendAt
  <1>3. \A x \in Seq(Event) : /\ Len(Append(x, e)) = Len(x) + 1
                              /\ \A i \in 1 .. Len(x) : Append(x, e)[i] = x[i]
    BY AppendAt
  <1>4. \A t \in Tasks : already_committed(l, t) => already_committed(m, t)
    BY CommittedInJournal
  <1> HIDE DEF log, one
  <1>5. ASSUME NEW x \in {log, Append(log, e), Append(one, e)}
        PROVE  Len(log) <= Len(x) /\ \A i \in DOMAIN log : x[i] = log[i]
    <2>1. CASE x = log
      BY <1>2, <2>1
    <2>2. CASE x = Append(log, e)
      BY <1>1, <1>2, <1>3, <2>2
    <2>3. CASE x = Append(one, e)
      <3>1. Len(x) = Len(log) + 2 /\ \A i \in 1 .. Len(log) + 1 : x[i] = one[i]
        BY <1>2, <1>3, <2>3
      <3>2. \A i \in 1 .. Len(log) : i \in 1 .. Len(log) + 1
        BY <1>2
      <3> QED
        BY <1>2, <3>1, <3>2
    <2> QED
      BY <1>5, <2>1, <2>2, <2>3
  <1> QED
    BY <1>4, <1>5 DEF Continues, log, one

\* Going on is transitive.
LEMMA ContinuesOn ==
    ASSUME NEW l \in Ledger, NEW m \in Ledger, NEW n \in Ledger,
           Continues(l, m), Continues(m, n)
    PROVE  Continues(l, n)
  <1>1. \A x \in Ledger : /\ Len(x.execution_log) \in Nat
                         /\ DOMAIN x.execution_log = 1 .. Len(x.execution_log)
    BY LenProperties DEF Ledger
  <1>2. Len(l.execution_log) <= Len(n.execution_log)
    BY <1>1 DEF Continues
  <1>3. \A i \in DOMAIN l.execution_log : i \in DOMAIN m.execution_log
    BY <1>1 DEF Continues
  <1> QED
    BY <1>2, <1>3 DEF Continues

\* Blocking a task.
LEMMA BlockGrows ==
    ASSUME NEW l \in Ledger, NEW t \in Tasks, NEW n, NEW from
    PROVE  Grows(l, block(l, t, n, from))
  <1> DEFINE m == block(l, t, n, from)
             e == event("task_blocked", t, "none")
  <1>1. /\ m.execution_log = Append(l.execution_log, e)
        /\ m.saga_journal = l.saga_journal /\ m.resolutions = l.resolutions
    BY DEF Ledger, block, append_event, add_history, set_status
  <1>2. e \in Event
    BY EventType DEF EventTypes, Touched
  <1> HIDE DEF m, e
  <1> QED
    BY <1>1, <1>2, GrownLog DEF Grows, m

\* Starting one: its transaction is a new one.
LEMMA BeginGrows ==
    ASSUME NEW l \in Ledger, NEW t \in Tasks
    PROVE  Grows(l, begin_task(l, t))
  <1> DEFINE m == begin_task(l, t)
             e == event("task_started", t, "none")
             x == [task |-> t, status |-> "pending"]
  <1>1. m.execution_log = Append(l.execution_log, e) /\ m.saga_journal = Append(l.saga_journal, x)
    BY BeginFields
  <1>2. m.resolutions = l.resolutions
    BY DEF Ledger, begin_task, append_event, add_history, set_status
  <1>3. e \in Event
    BY EventType DEF EventTypes, Touched
  <1>4. x \in Txn /\ x.status # "committed" /\ l.saga_journal \in Seq(Txn)
    BY DEF Txn, TxnStates, Ledger
  <1> HIDE DEF m, e, x
  <1>5. \A u \in Tasks : CommittedIn(l.saga_journal, u) => CommittedIn(m.saga_journal, u)
    BY <1>1, <1>4, AppendTxn
  <1> QED
    BY <1>1, <1>2, <1>3, <1>5, GrownLog DEF Grows, m

\* Success commits the transaction in flight.
LEMMA SucceedsGrows ==
    ASSUME NEW l \in Ledger, NEW t \in Tasks, NEW r \in ExecutorResult, InFlight(l, t)
    PROVE  Grows(l, task_succeeds(l, t, r))
  <1> DEFINE m == task_succeeds(l, t, r)
             f == event("file_edited", t, r.touched)
             e == event("task_completed", t, "none")
             j == l.saga_journal
             k == [j EXCEPT ![Len(j)] = [task |-> j[Len(j)].task, status |-> "committed"]]
  <1>1. /\ m.execution_log \in {Append(l.execution_log, e), Append(Append(l.execution_log, f), e)}
        /\ m.saga_journal = [j EXCEPT ![Len(j)].status = "committed"]
    BY SucceedsFields DEF SuccessLog
  <1>2. m.saga_journal = k
    BY <1>1, SetTxnType DEF InFlight, set_txn, TxnStates, Ledger
  <1>3. m.resolutions = l.resolutions
    BY SucceedsResolutions
  <1>4. e \in Event /\ f \in Event
    BY EventType DEF EventTypes, Touched, ExecutorResult
  <1>5. j \in Seq(Txn)
    BY DEF Ledger
  <1>6. \A u \in Tasks : CommittedIn(j, u) => CommittedIn(m.saga_journal, u)
    BY <1>2, <1>5, SettleTxn, CommittedInJournal DEF InFlight, TxnStates
  <1> HIDE DEF m, e, f
  <1> QED
    BY <1>1, <1>3, <1>4, <1>6, GrownLog DEF Grows, m

\* Failure takes no commit back: the transaction it compensates had not committed.
LEMMA FailsGrows ==
    ASSUME NEW l \in Ledger, NEW t \in Tasks, NEW r \in ExecutorResult, NEW n \in Nat,
           InFlight(l, t)
    PROVE  Grows(l, task_fails(l, t, r, n))
  <1> DEFINE m == task_fails(l, t, r, n)
             f == event("compensation", t, r.touched)
             e == event("task_blocked", t, "none")
             j == l.saga_journal
             k == [j EXCEPT ![Len(j)] = [task |-> j[Len(j)].task, status |-> "compensated"]]
  <1>1. /\ m.execution_log \in {Append(l.execution_log, e), Append(Append(l.execution_log, f), e)}
        /\ m.saga_journal \in {j, [j EXCEPT ![Len(j)].status = "compensated"]}
    <2>1. /\ m.task = [l.task EXCEPT ![t] = "blocked"]
          /\ m.execution_log = Append(UndoneLog(l, t, r), e)
          /\ m.saga_journal = UndoneJournal(l, r)
          /\ m.blockers = l.blockers \cup
                {[at |-> Len(UndoneLog(l, t, r)), id |-> n, task |-> t]}
          /\ m.allowed = l.allowed
      BY FailsFields
    <2> HIDE DEF m, e, f
    <2> QED
      BY <2>1 DEF UndoneLog, UndoneJournal, f
  <1>2. [j EXCEPT ![Len(j)].status = "compensated"] = k
    BY SetTxnType DEF InFlight, set_txn, TxnStates, Ledger
  <1>3. m.resolutions = l.resolutions
    BY FailsResolutions
  <1>4. e \in Event /\ f \in Event
    BY EventType DEF EventTypes, Touched, ExecutorResult
  <1>5. j \in Seq(Txn)
    BY DEF Ledger
  <1>6. \A u \in Tasks : CommittedIn(j, u) => CommittedIn(k, u)
    BY <1>5, SettleTxn, CommittedInJournal DEF InFlight, TxnStates
  <1>7. \A u \in Tasks : CommittedIn(j, u) => CommittedIn(m.saga_journal, u)
    BY <1>1, <1>2, <1>6
  <1> HIDE DEF m, e, f
  <1> QED
    BY <1>1, <1>3, <1>4, <1>7, GrownLog DEF Grows, m

\* A ledger with the same log, journal and resolutions.
LEMMA SameGrows ==
    ASSUME NEW l \in Ledger, NEW m,
           m.execution_log = l.execution_log, m.saga_journal = l.saga_journal,
           m.resolutions = l.resolutions
    PROVE  Grows(l, m)
  <1>1. Len(l.execution_log) \in Nat
    BY LenProperties DEF Ledger
  <1> QED
    BY <1>1 DEF Grows, Continues, already_committed

\* The end of _drive settles the ledger and neither logs nor commits.
LEMMA ReturnGrows ==
    ASSUME NEW l \in Ledger, NEW s \in RunStates
    PROVE  Grows(l, reconcile([l EXCEPT !.run_state = s]))
  <1> DEFINE m == reconcile([l EXCEPT !.run_state = s])
  <1>1. /\ m.execution_log = l.execution_log /\ m.saga_journal = l.saga_journal
        /\ m.resolutions = l.resolutions
    BY DEF Ledger, reconcile
  <1> HIDE DEF m
  <1> QED
    BY <1>1, SameGrows DEF m

\* A decision is logged and counted; it takes no commit back.
LEMMA ResolveGoesOn ==
    ASSUME NEW l \in Ledger, NEW id \in Nat, NEW decision \in Decisions
    PROVE  LET m == resolve_blocker(l, id, decision) IN
           Continues(l, m) /\ Len(m.resolutions) = Len(l.resolutions) + 1
  <1> DEFINE matching == {b \in l.blockers : b.id = id}
             first == CHOOSE b \in matching : \A c \in matching : b.at <= c.at
             named == IF matching # {} THEN first.task ELSE NoTask
             decided == [at |-> Len(l.execution_log) + 1, id |-> id, decision |-> decision]
  <1>1. first \in matching \/ matching = {}
    <2>1. matching # {} => \E b \in matching : \A c \in matching : b.at <= c.at
      BY FirstBlocker DEF Ledger
    <2> QED
      BY <2>1
  <1>2. named \in Tasks \cup {NoTask}
    BY <1>1 DEF Ledger, Blocker
  <1> HIDE DEF named
  <1>3. PICK t : t = named
    OBVIOUS
  <1> USE DEF named
  <1>4. PICK e : e = event("resolution", t, "none")
    OBVIOUS
  <1>5. e \in Event
    BY <1>2, <1>3, <1>4, EventType DEF EventTypes, Touched
  <1>6. PICK m : m = resolve_blocker(l, id, decision)
    OBVIOUS
  <1>7. /\ m.execution_log = Append(l.execution_log, e) /\ m.saga_journal = l.saga_journal
        /\ m.resolutions = Append(l.resolutions, decided)
    <2> DEFINE noted == [l EXCEPT !.resolutions = Append(@, decided)]
               reset == [noted EXCEPT !.blockers = @ \ matching, !.task[t] = "pending"]
    <2>1. m = append_event(IF decision = "override" /\ matching # {} THEN reset ELSE noted, e)
      BY <1>3, <1>4, <1>6 DEF resolve_blocker
    <2>2. \A x \in {noted, reset} :
              LET n == append_event(x, e) IN
              /\ n.execution_log = Append(l.execution_log, e)
              /\ n.saga_journal = l.saga_journal
              /\ n.resolutions = Append(l.resolutions, decided)
      BY DEF Ledger, append_event
    <2> HIDE DEF noted, reset, matching, decided
    <2> QED
      BY <2>1, <2>2
  <1>8. decided \in Resolution /\ l.resolutions \in Seq(Resolution)
    BY DEF Resolution, Ledger
  <1>9. Len(m.resolutions) = Len(l.resolutions) + 1
    BY <1>7, <1>8, AppendAt
  <1>10. Continues(l, m)
    BY <1>5, <1>7, GrownLog
  <1> QED
    BY <1>6, <1>9, <1>10

-----------------------------------------------------------------------------
(* Every step keeps what a resume holds.                                   *)

\* A resume that has loaded holds a ledger, and so does the store.
LEMMA Loaded ==
    ASSUME IInv, LoadedInv, cmd = "resume"
    PROVE  /\ ledger \in Ledger /\ stored \in Ledger
           /\ Len(ledger.resolutions) \in Nat /\ Len(stored.resolutions) \in Nat
  <1>1. ledger \in Ledger /\ stored \in Ledger
    BY DEF IInv, TypeOK, LoadedInv
  <1> QED
    BY <1>1, LenProperties DEF Ledger

\* A step of the command that lets its ledger grow keeps it.
LEMMA GrowKeepsLoaded ==
    ASSUME IInv, LoadedInv, ledger' \in Ledger, Grows(ledger, ledger'),
           UNCHANGED <<stored, cmd>>, phase # "idle", phase' # "idle"
    PROVE  LoadedInv'
  <1>1. CASE cmd # "resume"
    BY <1>1 DEF LoadedInv
  <1>2. CASE cmd = "resume"
    <2>1. ledger \in Ledger /\ stored \in Ledger /\ stored # NoLedger
      BY <1>2, Loaded DEF LoadedInv
    <2>2. ledger'.resolutions = ledger.resolutions /\ Continues(ledger, ledger')
      BY DEF Grows
    <2>3. Len(ledger.resolutions) = Len(stored.resolutions) => Continues(stored, ledger')
      BY <1>2, <2>1, <2>2, ContinuesOn DEF LoadedInv
    <2> QED
      BY <1>2, <2>1, <2>2, <2>3 DEF LoadedInv
  <1> QED
    BY <1>1, <1>2

\* A command starts.
LEMMA StartLoaded == IInv /\ LoadedInv /\ (Run \/ Resume) => LoadedInv'
  <1> SUFFICES ASSUME IInv, LoadedInv, Run \/ Resume PROVE LoadedInv'
    OBVIOUS
  <1>1. CASE Run
    BY <1>1 DEF Run, Start, LoadedInv
  <1>2. CASE Resume
    <2>1. /\ phase' = "drive" /\ cmd' = "resume" /\ stored' = stored /\ stored # NoLedger
          /\ ledger' = [stored EXCEPT !.run_state = "running"]
      BY <1>2 DEF Resume, Start
    <2>2. stored \in Ledger
      BY <2>1 DEF IInv, TypeOK
    <2>3. /\ ledger'.execution_log = stored.execution_log
          /\ ledger'.saga_journal = stored.saga_journal
          /\ ledger'.resolutions = stored.resolutions
      BY <2>1, <2>2 DEF Ledger
    <2>4. Grows(stored, ledger')
      BY <2>2, <2>3, SameGrows
    <2>5. Len(stored.resolutions) \in Nat
      BY <2>2, LenProperties DEF Ledger
    <2> QED
      BY <2>1, <2>3, <2>4, <2>5 DEF LoadedInv, Grows
  <1> QED
    BY <1>1, <1>2

\* The loop visits a task.
LEMMA VisitLoaded ==
    IInv /\ LoadedInv /\ (\/ SkipCompleted \/ SkipCommitted
                          \/ BlockUnmetDeps \/ LeaseConflict \/ BeginTask) => LoadedInv'
  <1> SUFFICES ASSUME IInv, LoadedInv,
                      \/ SkipCompleted \/ SkipCommitted
                      \/ BlockUnmetDeps \/ LeaseConflict \/ BeginTask
               PROVE  LoadedInv'
    OBVIOUS
  <1>1. PICK t \in Tasks, from \in TaskStates :
            /\ Visit(t) /\ UNCHANGED <<stored, cmd>> /\ phase' # "idle"
            /\ \/ ledger' = ledger
               \/ ids' = ids + 1 /\ ledger' = block(ledger, t, ids', from)
               \/ ledger' = begin_task(ledger, t)
    <2>1. "pending" \in TaskStates /\ "in_progress" \in TaskStates
      BY DEF TaskStates
    <2>2. CASE SkipCompleted \/ SkipCommitted
      BY <2>1, <2>2 DEF SkipCompleted, SkipCommitted, Reached, OutsideLoop, Visit
    <2>3. CASE BlockUnmetDeps
      BY <2>1, <2>3 DEF BlockUnmetDeps, Reached, OutsideLoop, Visit, block_unmet_deps
    <2>4. CASE LeaseConflict
      BY <2>1, <2>4 DEF LeaseConflict, Reached, OutsideLoop, Visit, escalate
    <2>5. CASE BeginTask
      BY <2>1, <2>5 DEF BeginTask, Reached, OutsideLoop
    <2> QED
      BY <2>2, <2>3, <2>4, <2>5
  <1>2. phase = "drive" /\ ids \in Nat /\ ledger \in Ledger
    BY <1>1, Visiting
  <1>3. ledger' \in Ledger /\ Grows(ledger, ledger')
    <2>1. CASE ledger' = ledger
      BY <1>2, <2>1, SameGrows
    <2>2. CASE ids' = ids + 1 /\ ledger' = block(ledger, t, ids', from)
      BY <1>2, <2>2, BlockType, BlockGrows
    <2>3. CASE ledger' = begin_task(ledger, t)
      BY <1>2, <2>3, BeginType, BeginGrows
    <2> QED
      BY <1>1, <2>1, <2>2, <2>3
  <1> QED
    BY <1>1, <1>2, <1>3, GrowKeepsLoaded

\* The task in flight is tried again or ends.
LEMMA OutcomeLoaded ==
    IInv /\ LoadedInv /\ (RetryAttempt \/ TaskSucceeds \/ TaskFails) => LoadedInv'
  <1> SUFFICES ASSUME IInv, LoadedInv, RetryAttempt \/ TaskSucceeds \/ TaskFails
               PROVE  LoadedInv'
    OBVIOUS
  <1>1. phase = "exec" /\ phase' # "idle" /\ UNCHANGED <<stored, cmd>>
    BY DEF RetryAttempt, TaskSucceeds, TaskFails, OutsideLoop
  <1>2. ids \in Nat /\ ledger \in Ledger /\ current \in Tasks /\ InFlight(ledger, current)
    BY <1>1, Flying
  <1>3. ledger' \in Ledger /\ Grows(ledger, ledger')
    <2>1. CASE RetryAttempt
      BY <1>2, <2>1, SameGrows DEF RetryAttempt
    <2>2. CASE TaskSucceeds
      <3>1. PICK r \in ExecutorResult : ledger' = task_succeeds(ledger, current, r)
        BY <2>2, ResultsAssumption DEF TaskSucceeds
      <3> QED
        BY <1>2, <3>1, SucceedsType, SucceedsGrows DEF InFlight
    <2>3. CASE TaskFails
      <3>1. PICK r \in ExecutorResult : ledger' = task_fails(ledger, current, r, ids + 1)
        BY <2>3, ResultsAssumption DEF TaskFails
      <3>2. ids + 1 \in Nat
        BY <1>2
      <3> QED
        BY <1>2, <3>1, <3>2, FailsType, FailsGrows DEF InFlight
    <2> QED
      BY <2>1, <2>2, <2>3
  <1> QED
    BY <1>1, <1>3, GrowKeepsLoaded

\* The command returns, lands or ends.
LEMMA ReturnLoaded ==
    IInv /\ LoadedInv /\ (Stop \/ Finish \/ Land \/ Save \/ Crash) => LoadedInv'
  <1> SUFFICES ASSUME IInv, LoadedInv, Stop \/ Finish \/ Land \/ Save \/ Crash
               PROVE  LoadedInv'
    OBVIOUS
  <1>1. CASE Stop \/ Finish
    <2>1. TypeOK /\ phase = "drive" /\ ledger \in Ledger /\ LedgerInv(ledger, deps)
          /\ ids \in Nat
      BY <1>1 DEF IInv, TypeOK, Stop, Finish
    <2>2. PICK s \in RunStates : Return(s)
      BY <1>1, <2>1 DEF Stop, Stopped, Finish, RunStates
    <2>3. ledger' \in Ledger /\ Grows(ledger, ledger')
      BY <2>1, <2>2, ReturnKeeps, ReturnGrows DEF Return
    <2>4. phase' # "idle" /\ UNCHANGED <<stored, cmd>>
      BY <2>2 DEF Return
    <2> QED
      BY <2>1, <2>3, <2>4, GrowKeepsLoaded
  <1>2. CASE Land
    BY <1>2 DEF Land, LoadedInv
  <1>3. CASE Save \/ Crash
    BY <1>3 DEF Save, Crash, EndProcess, LoadedInv
  <1> QED
    BY <1>1, <1>2, <1>3

\* An operator or another agent changes the stored ledger; the resume finds out by the
\* number of resolutions, or does not need to.
LEMMA StoreGoesOn ==
    ASSUME IInv, Resolve \/ AcquireLease
    PROVE  /\ stored \in Ledger /\ stored' \in Ledger /\ UNCHANGED <<phase, cmd, ledger>>
           /\ Continues(stored, stored')
           /\ \/ Len(stored'.resolutions) = Len(stored.resolutions) + 1
              \/ /\ stored'.resolutions = stored.resolutions
                 /\ stored'.execution_log = stored.execution_log
                 /\ stored'.saga_journal = stored.saga_journal
  <1>0. stored \in Ledger /\ UNCHANGED <<phase, cmd, ledger>>
    BY DEF IInv, TypeOK, Resolve, AcquireLease, procVars
  <1>1. LedgerInv(stored, deps) /\ ids \in Nat /\ now \in Nat
    BY <1>0, NoLedgerAssumption DEF IInv, TypeOK
  <1>2. CASE Resolve
    <2>1. PICK n \in {b.id : b \in stored.blockers} \cup UnknownIds, d \in Decisions :
              stored' = resolve_blocker(stored, n, d)
      BY <1>2 DEF Resolve
    <2>2. n \in Nat
      <3>1. \A b \in stored.blockers : b.id \in Nat
        BY <1>0 DEF Ledger, Blocker
      <3>2. \A k \in UnknownIds : k \in Nat
        BY BoundsAssumption
      <3> QED
        BY <3>1, <3>2
    <2>3. stored' \in Ledger
      BY <1>0, <1>1, <2>1, <2>2, ResolveKeeps
    <2> QED
      BY <1>0, <2>1, <2>2, <2>3, ResolveGoesOn
  <1>3. CASE AcquireLease
    <2>1. PICK x \in Seq(Lease) : stored' = [stored EXCEPT !.agent_leases = x]
      <3>1. PICK t \in Tasks, until \in {now, NoExpiry} :
                stored' = [stored EXCEPT !.agent_leases =
                     Append(@, [task |-> t, expires_at |-> until, released |-> FALSE])]
        BY <1>3 DEF AcquireLease
      <3>2. [task |-> t, expires_at |-> until, released |-> FALSE] \in Lease
        BY <1>1 DEF Lease
      <3>3. Append(stored.agent_leases, [task |-> t, expires_at |-> until, released |-> FALSE])
               \in Seq(Lease)
        BY <1>0, <3>2, AppendProperties DEF Ledger
      <3> QED
        BY <3>1, <3>3
    <2>2. /\ stored' \in Ledger
          /\ stored'.resolutions = stored.resolutions
          /\ stored'.execution_log = stored.execution_log
          /\ stored'.saga_journal = stored.saga_journal
      BY <1>0, <2>1 DEF Ledger
    <2> QED
      BY <1>0, <2>2, SameGrows DEF Grows
  <1> QED
    BY <1>2, <1>3

\* So what it holds still goes on from the store, unless a decision was taken.
LEMMA StoreLoaded == IInv /\ LoadedInv /\ (Resolve \/ AcquireLease) => LoadedInv'
  <1> SUFFICES ASSUME IInv, LoadedInv, Resolve \/ AcquireLease PROVE LoadedInv'
    OBVIOUS
  <1>1. stored' # NoLedger /\ UNCHANGED <<phase, cmd, ledger>>
    BY StoreGoesOn, NoLedgerAssumption
  <1>2. CASE cmd # "resume"
    BY <1>1, <1>2 DEF LoadedInv
  <1>3. CASE cmd = "resume"
    <2>1. /\ Len(ledger.resolutions) \in Nat /\ Len(stored.resolutions) \in Nat
          /\ Len(ledger.resolutions) <= Len(stored.resolutions)
      BY <1>3, Loaded DEF LoadedInv
    <2>2. CASE Len(stored'.resolutions) = Len(stored.resolutions) + 1
      BY <1>1, <1>3, <2>1, <2>2 DEF LoadedInv
    <2>3. CASE /\ stored'.resolutions = stored.resolutions
               /\ stored'.execution_log = stored.execution_log
               /\ stored'.saga_journal = stored.saga_journal
      BY <1>1, <1>3, <2>3 DEF LoadedInv, Continues, already_committed
    <2> QED
      BY <2>2, <2>3, StoreGoesOn
  <1> QED
    BY <1>2, <1>3

\* It holds before the first command, and every step keeps it.
LEMMA LoadedHolds == Spec => []LoadedInv
  <1>1. Init => LoadedInv
    BY DEF Init, LoadedInv
  <1>2. IInv /\ LoadedInv /\ (SetControl \/ Tick \/ UNCHANGED vars) => LoadedInv'
    BY DEF SetControl, Tick, vars, procVars, LoadedInv, Continues, already_committed
  <1>3. IInv /\ LoadedInv /\ [Next]_vars => LoadedInv'
    BY <1>2, StartLoaded, VisitLoaded, OutcomeLoaded, ReturnLoaded, StoreLoaded DEF Next, Step
  <1> QED
    BY <1>1, <1>3, Inductive, PTL DEF Spec

\* A stored history goes on: whatever crashes, stops, leases and resolutions come in
\* between, no step takes an event or a commit out of the store, but a new run, or a
\* resume that saves over a resolution made after it had loaded.
THEOREM HistoryGoesOn == Spec => StoredContinues
  <1> DEFINE Kept == /\ stored # NoLedger /\ cmd # "run"
                     /\ ledger # NoLedger => Len(ledger.resolutions) = Len(stored.resolutions)
                     => Continues(stored, stored')
  <1>1. IInv /\ LoadedInv /\ [Next]_vars => [Kept]_stored
    <2> SUFFICES ASSUME IInv, LoadedInv, [Next]_vars, stored' # stored,
                        stored # NoLedger, cmd # "run",
                        ledger # NoLedger => Len(ledger.resolutions) = Len(stored.resolutions)
                 PROVE  Continues(stored, stored')
      OBVIOUS
    <2>1. Save \/ Resolve \/ AcquireLease
      BY DEF Next, Step, vars, procVars, boundVars, OutsideLoop, Run, Resume, Start,
             SkipCompleted, BlockUnmetDeps, SkipCommitted, LeaseConflict, BeginTask,
             RetryAttempt, TaskSucceeds, TaskFails, Stop, Finish, Return, Land, Crash,
             SetControl, Tick
    <2>2. CASE Save
      <3>1. phase # "idle" /\ stored' = ledger /\ ledger # NoLedger /\ cmd = "resume"
        BY <2>2 DEF Save, IInv, TypeOK, LoadedInv
      <3> QED
        BY <3>1 DEF LoadedInv
    <2>3. CASE Resolve \/ AcquireLease
      BY <2>3, StoreGoesOn
    <2> QED
      BY <2>1, <2>2, <2>3
  <1> QED
    BY <1>1, Inductive, LoadedHolds, PTL DEF Spec, StoredContinues
=============================================================================
