------------------------------ MODULE RunLoop ------------------------------
(***************************************************************************)
(* The run loop of an iplan engine and the operator commands around it:    *)
(* orchestrator/loop.py, saga.py, leases.py, state.py, topo.py, control.py,*)
(* gates/runner.py, handover/receipt.py and the run / resume / resolve /   *)
(* pause / abort commands of cli/commands.py.                              *)
(*                                                                         *)
(* One engine process at a time drives a ledger it holds in memory         *)
(* (`ledger'); the store keeps the last saved copy (`stored').  Operators  *)
(* and other agents act on the stored copy and on the control flag while   *)
(* the process runs.  A crash, or an exception that escapes the executor,  *)
(* loses the in-memory ledger.                                             *)
(*                                                                         *)
(* The functions of the code that mutate a ledger in place are operators   *)
(* from a ledger to a ledger, with the names of the code.                  *)
(***************************************************************************)
EXTENDS Integers, Sequences, FiniteSets

CONSTANTS
    Tasks,            \* task_ids of the manifest; their order is the order of <
    Graphs,           \* the depends_on functions a manifest may carry
    ExecutorResults,  \* what Executor.execute may return
    MaxRetries,       \* Config.max_retries
    SharedIds,        \* TRUE: the caller keeps one IdSource across commands;
                      \* FALSE: every command makes its own (cli/commands.py)
    MaxCommands,      \* bound: run and resume commands
    MaxResolutions,   \* bound: resolve commands
    MaxLeases,        \* bound: leases other agents record
    MaxNow,           \* bound: readings of the clock that leases can tell apart
    MaxControls,      \* bound: pause and abort commands
    MaxCrashes,       \* bound: crashes
    MaxInputs,        \* bound: commands, decisions, leases, flags, crashes together
    Controls,         \* may run be given a control callable? (the CLI: {FALSE})
    Decisions,        \* decisions an operator takes
    UnknownIds,       \* ids no blocker has that an operator may type: {} or {0}
    NoLedger          \* no ledger in memory, or no file in the store

NoTask   == 0    \* subject of an event that is about no task
NoExpiry == -1   \* expires_at = None

TaskStates == {"pending", "in_progress", "completed", "blocked"}
TxnStates  == {"pending", "committed", "compensated"}
RunStates  == {"running", "completed", "paused", "aborted"}
Touched    == {"none", "inside", "outside"}  \* touched_paths against allowed_roots
EventTypes == {"task_started", "file_edited", "task_completed", "task_blocked",
               "compensation", "commit", "resolution"}

ExecutorResult == [outcome : {"success", "failure"}, touched : Touched,
                   evidence : BOOLEAN, retriable : BOOLEAN]

\* Python's sorted() and min() find a least element of every non-empty set of ids.
ASSUME TasksAssumption ==
    /\ Tasks \subseteq Nat \ {NoTask}
    /\ \A S \in SUBSET Tasks : S # {} => \E t \in S : \A u \in S : t <= u

ASSUME GraphsAssumption == Graphs \subseteq [Tasks -> SUBSET Tasks]

ASSUME ResultsAssumption == ExecutorResults \subseteq ExecutorResult

ASSUME BoundsAssumption ==
    /\ MaxRetries \in Nat
    /\ SharedIds \in BOOLEAN
    /\ {MaxCommands, MaxResolutions, MaxLeases, MaxNow, MaxControls, MaxCrashes,
        MaxInputs}
          \subseteq Nat
    /\ Controls \subseteq BOOLEAN
    /\ UnknownIds \subseteq {0}
    /\ Decisions \subseteq {"approve", "reject", "override"}

VARIABLES
    deps,         \* depends_on of the manifest, fixed
    stored,       \* <store>/<ledger_id>.yaml
    control,      \* <store>/.<ledger_id>.control
    now,          \* the clock
    \* the engine process
    phase,        \* where the process is
    cmd,          \* the command it executes
    ledger,       \* the ledger in memory
    remaining,    \* tasks the loop of drive has not visited
    completed,    \* the local `completed' of _drive
    current,      \* the task being executed
    attempt,      \* the local `attempt' of execute_with_retry
    controlled,   \* TRUE: a control callable was passed to run or resume
    gate_result,  \* RunResult.gate_result["status"]
    ids,          \* the "B" counter of the IdSource
    \* bounds
    commands, resolutions, leases, controls, crashes

procVars  == <<phase, cmd, ledger, remaining, completed, current, attempt,
               controlled, gate_result, ids>>
boundVars == <<commands, resolutions, leases, controls, crashes>>
vars      == <<deps, stored, control, now, procVars, boundVars>>

-----------------------------------------------------------------------------
(* The ledger.  A list of blockers is a set of records that carry their    *)
(* place in it (`at', the length of the log when the entry was appended).  *)
(* `at' of a resolution, the timestamp it shares with its event, is the    *)
(* place of that event in the log.  decision_owner is the set `owned' of   *)
(* tasks that have one; evidence_refs and execution_evidence are the set   *)
(* of tasks with an entry; the counts in reconciliation, titles, reasons   *)
(* and other timestamps are left out.                                      *)

Event   == [type : EventTypes, task : Tasks \cup {NoTask}, touched : Touched]
Change  == [task : Tasks, from : TaskStates, to : TaskStates]
Blocker == [at : Nat, id : Nat, task : Tasks]
Txn     == [task : Tasks, status : TxnStates]
Lease   == [task : Tasks, expires_at : Nat \cup {NoExpiry}, released : BOOLEAN]
Resolution == [at : Nat, id : Nat, decision : Decisions]

Ledger == [status : {"in_progress", "completed", "blocked"},
           run_state : RunStates,
           task : [Tasks -> TaskStates],
           evidence : SUBSET Tasks,
           accepted : SUBSET Tasks,
           owned : SUBSET Tasks,
           blockers : SUBSET Blocker,
           allowed : BOOLEAN,
           saga_journal : Seq(Txn),
           agent_leases : Seq(Lease),
           execution_history : Seq(Change),
           execution_log : Seq(Event),
           resolutions : Seq(Resolution),
           commits : Nat,
           requires_landing : BOOLEAN]

ASSUME NoLedgerAssumption == NoLedger \notin Ledger

init_ledger ==
    [status |-> "in_progress", run_state |-> "running",
     task |-> [t \in Tasks |-> "pending"],
     evidence |-> {}, accepted |-> {}, owned |-> {}, blockers |-> {},
     allowed |-> FALSE,
     saga_journal |-> <<>>, agent_leases |-> <<>>,
     execution_history |-> <<>>, execution_log |-> <<>>, resolutions |-> <<>>,
     commits |-> 0, requires_landing |-> FALSE]

event(type, t, touched) == [type |-> type, task |-> t, touched |-> touched]
append_event(l, e) == [l EXCEPT !.execution_log = Append(@, e)]
set_status(l, t, new) == [l EXCEPT !.task[t] = new]
add_history(l, t, from, to) ==
    [l EXCEPT !.execution_history = Append(@, [task |-> t, from |-> from, to |-> to])]

\* Mutant: the status the key is compared with is a task's, not a transaction's.
already_completed(l, t) ==
    \E i \in DOMAIN l.saga_journal :
        l.saga_journal[i].task = t /\ l.saga_journal[i].status = "completed"

already_committed(l, t) ==
    \E i \in DOMAIN l.saga_journal :
        l.saga_journal[i].task = t /\ l.saga_journal[i].status = "committed"

lease_state(lease, time) ==
    IF lease.released THEN "released"
    ELSE IF lease.expires_at # NoExpiry /\ time > lease.expires_at THEN "expired"
    ELSE "active"

\* Mutant: only the first lease recorded for the task is looked at.
can_acquire_first(l, t, time) ==
    ~ \E i \in DOMAIN l.agent_leases :
        /\ l.agent_leases[i].task = t
        /\ \A j \in 1 .. i - 1 : l.agent_leases[j].task # t
        /\ lease_state(l.agent_leases[i], time) = "active"

can_acquire(l, t, time) ==
    ~ \E i \in DOMAIN l.agent_leases :
        /\ l.agent_leases[i].task = t
        /\ lease_state(l.agent_leases[i], time) = "active"

\* Mutant: the task is blocked without an event.
block_silently(l, t, n, from) ==
    LET listed == [l EXCEPT !.blockers = @ \cup
                      {[at |-> Len(l.execution_log), id |-> n, task |-> t]},
                            !.owned = @ \cup {t}]
    IN  add_history(set_status(listed, t, "blocked"), t, from, "blocked")

\* The blocker list, blocked_reason / decision_owner, status, history and event
\* of a task that is blocked with id n, coming (so the entry says) from `from'.
block(l, t, n, from) ==
    LET listed == [l EXCEPT !.blockers = @ \cup
                      {[at |-> Len(l.execution_log), id |-> n, task |-> t]},
                            !.owned = @ \cup {t}]
    IN  append_event(add_history(set_status(listed, t, "blocked"), t, from, "blocked"),
                     event("task_blocked", t, "none"))

escalate(l, t, n)         == block(l, t, n, "in_progress")
block_unmet_deps(l, t, n) == block(l, t, n, "pending")

\* Mutant: open blockers do not count.
reconcile_pending_only(l) ==
    LET allowed == \A t \in Tasks : l.task[t] \notin {"pending", "in_progress"}
    IN  [l EXCEPT !.allowed = allowed, !.status = IF allowed THEN "completed" ELSE @]

reconcile(l) ==
    LET pending == {t \in Tasks : l.task[t] \in {"pending", "in_progress"}}
        allowed == pending = {} /\ l.blockers = {}
    IN  [l EXCEPT !.allowed = allowed,
                  !.status = IF allowed THEN "completed"
                             ELSE IF l.blockers # {} THEN "blocked" ELSE @]

\* The choice topo_order makes when the tasks of S are left: the order does not
\* depend on the ledger, so the loop may make it one task at a time.
least(S) == CHOOSE t \in S : \A u \in S : t <= u
topo_next(S) ==
    LET ready == {t \in S : deps[t] \subseteq Tasks \ S}
    IN  least(IF ready # {} THEN ready ELSE S)

-----------------------------------------------------------------------------
(* The gate and the handover receipt.                                      *)

\* The rules of validate_ledger the default gate refers to and a run can fire.
fires(l) ==
    [EVIDENCE_REQUIRED |->
         \E t \in Tasks : l.task[t] = "completed" /\ t \notin l.evidence,
     ACCEPTANCE_WEAK |->
         \E t \in Tasks : l.task[t] = "completed" /\ t \notin l.accepted,
     BLOCKED_WITHOUT_OWNER |->
         \E t \in Tasks : l.task[t] = "blocked" /\ t \notin l.owned,
     PATH_OUTSIDE_ROOTS |->
         \E i \in DOMAIN l.execution_log : l.execution_log[i].touched = "outside",
     NOT_COMMITTED |-> l.requires_landing /\ l.commits = 0]

default_gate == {"EVIDENCE_REQUIRED", "ACCEPTANCE_WEAK", "BLOCKED_WITHOUT_OWNER",
                 "PATH_OUTSIDE_ROOTS", "NOT_COMMITTED"}

run_gate(l) == IF \E r \in default_gate : fires(l)[r] THEN "failed" ELSE "passed"

handover_status(l, gate) ==
    LET has_open == \E t \in Tasks : l.task[t] \in {"pending", "in_progress"}
    IN  IF gate = "passed" /\ l.allowed /\ ~has_open THEN "completed" ELSE "aborted"

role_actions == [agent    |-> {"run", "record", "edit"},
                 operator |-> {"run", "record", "edit", "land", "approve", "override"}]
authorize(role, action) == role \in DOMAIN role_actions /\ action \in role_actions[role]

-----------------------------------------------------------------------------
Init ==
    /\ deps \in Graphs
    /\ stored = NoLedger
    /\ control = "running"
    /\ now = 0
    /\ phase = "idle" /\ cmd = "none" /\ ledger = NoLedger
    /\ remaining = {} /\ completed = {} /\ current = NoTask /\ attempt = 0
    /\ controlled = FALSE /\ gate_result = "none" /\ ids = 0
    /\ commands = 0 /\ resolutions = 0 /\ leases = 0 /\ controls = 0 /\ crashes = 0

MoreInput == commands + resolutions + leases + controls + crashes < MaxInputs

\* A command starts: the process gets its IdSource and enters the loop of drive
\* with ledger l and the set done of completed tasks.
Start(c, l, done, ctrl) ==
    /\ phase = "idle"
    /\ MoreInput /\ commands < MaxCommands
    /\ commands' = commands + 1
    /\ phase' = "drive"
    /\ cmd' = c
    /\ ledger' = l
    /\ remaining' = Tasks
    /\ completed' = done
    /\ controlled' = ctrl
    /\ ids' = IF SharedIds THEN ids ELSE 0
    /\ gate_result' = "none"
    /\ UNCHANGED <<deps, stored, now, current, attempt, resolutions, leases,
                   controls, crashes>>

\* run: a fresh ledger, whatever the store holds.  The CLI passes no control; a
\* library caller may.
Run ==
    /\ \E c \in Controls : Start("run", init_ledger, {}, c)
    /\ UNCHANGED control

\* Mutant: resume takes over the state and begins a new log.
ResumeRelogs ==
    /\ stored # NoLedger
    /\ Start("resume", [stored EXCEPT !.run_state = "running", !.execution_log = <<>>],
             {t \in Tasks : stored.task[t] = "completed"}, TRUE)
    /\ control' = "running"

\* resume: load, set_control("running"), seed the completed set.
Resume ==
    /\ stored # NoLedger
    /\ Start("resume", [stored EXCEPT !.run_state = "running"],
             {t \in Tasks : stored.task[t] = "completed"}, TRUE)
    /\ control' = "running"

-----------------------------------------------------------------------------
(* One iteration of the loop in _drive.                                    *)

\* The loop moves past the task it visits.
Visit(t) ==
    /\ phase = "drive"
    /\ remaining # {}
    /\ t = topo_next(remaining)
    /\ remaining' = remaining \ {t}

\* Nothing but the ledger and the ids change while a task is visited.
OutsideLoop == UNCHANGED <<deps, stored, control, now, cmd, controlled, gate_result,
                           boundVars>>

Stopped == controlled /\ control \in {"aborted", "paused"}

\* The task reaches `node = by_id[task_id]': neither completed nor stopped before.
Reached(t) == Visit(t) /\ ledger.task[t] # "completed" /\ ~Stopped

\* Mutant: a dependency that was visited counts as completed.
deps_visited(t) == deps[t] \subseteq Tasks \ remaining

\* all(d in completed for d in deps)
deps_met(t) == deps[t] \subseteq completed

SkipCompleted ==
    \E t \in Tasks :
        /\ Visit(t)
        /\ ledger.task[t] = "completed"
        /\ completed' = completed \cup {t}
        /\ UNCHANGED <<phase, ledger, current, attempt, ids>>
        /\ OutsideLoop

BlockUnmetDeps ==
    \E t \in Tasks :
        /\ Reached(t)
        /\ ~deps_met(t)
        /\ ids' = ids + 1
        /\ ledger' = block_unmet_deps(ledger, t, ids')
        /\ UNCHANGED <<phase, completed, current, attempt>>
        /\ OutsideLoop

\* _run_task returns early: the status stays what it was.
SkipCommitted ==
    \E t \in Tasks :
        /\ Reached(t)
        /\ deps_met(t)
        /\ already_committed(ledger, t)
        /\ UNCHANGED <<phase, ledger, completed, current, attempt, ids>>
        /\ OutsideLoop

LeaseConflict ==
    \E t \in Tasks :
        /\ Reached(t)
        /\ deps_met(t)
        /\ ~already_committed(ledger, t)
        /\ ~can_acquire(ledger, t, now)
        /\ ids' = ids + 1
        /\ ledger' = escalate(ledger, t, ids')
        /\ UNCHANGED <<phase, completed, current, attempt>>
        /\ OutsideLoop

\* Lease, transaction, in_progress, history and event, before the executor runs.
begin_task(l, t) ==
    LET held == [l EXCEPT
            !.agent_leases = Append(@, [task |-> t, expires_at |-> NoExpiry,
                                        released |-> FALSE]),
            !.saga_journal = Append(@, [task |-> t, status |-> "pending"])]
    IN  append_event(add_history(set_status(held, t, "in_progress"),
                                 t, "pending", "in_progress"),
                     event("task_started", t, "none"))

BeginTask ==
    \E t \in Tasks :
        /\ Reached(t)
        /\ deps_met(t)
        /\ ~already_committed(ledger, t)
        /\ can_acquire(ledger, t, now)
        /\ ledger' = begin_task(ledger, t)
        /\ phase' = "exec"
        /\ current' = t
        /\ attempt' = 1
        /\ UNCHANGED <<completed, ids>>
        /\ OutsideLoop

-----------------------------------------------------------------------------
(* The executor has returned result r of an attempt at `current'.          *)

\* Mutant: one retry too many.
retry_once_more(r) == r.outcome = "failure" /\ r.retriable /\ attempt <= MaxRetries + 1

\* Is a failed attempt tried again?
retry(r) == r.outcome = "failure" /\ r.retriable /\ attempt <= MaxRetries

RetryAttempt ==
    /\ phase = "exec"
    /\ \E r \in ExecutorResults : retry(r)
    /\ attempt' = attempt + 1
    /\ UNCHANGED <<phase, ledger, remaining, completed, current, ids>>
    /\ OutsideLoop

\* The transaction and the lease of the task in flight are the last of their lists.
set_txn(l, new) == [l EXCEPT !.saga_journal[Len(l.saga_journal)].status = new]
release(l)      == [l EXCEPT !.agent_leases[Len(l.agent_leases)].released = TRUE]

task_succeeds(l, t, r) ==
    LET edited == IF r.touched = "none" THEN l
                  ELSE append_event(l, event("file_edited", t, r.touched))
        proved == IF r.evidence
                  THEN [edited EXCEPT !.evidence = @ \cup {t}, !.accepted = @ \cup {t}]
                  ELSE edited
        done   == append_event(add_history(set_status(proved, t, "completed"),
                                           t, "in_progress", "completed"),
                               event("task_completed", t, "none"))
    IN  release(set_txn(done, "committed"))

\* Mutant: the failure path returns before the lease is released.
task_fails_leased(l, t, r, n) ==
    LET undone == IF r.touched = "none" THEN l
                  ELSE set_txn(append_event(l, event("compensation", t, r.touched)),
                               "compensated")
    IN  escalate(undone, t, n)

task_fails(l, t, r, n) ==
    LET undone == IF r.touched = "none" THEN l
                  ELSE set_txn(append_event(l, event("compensation", t, r.touched)),
                               "compensated")
    IN  release(escalate(undone, t, n))

TaskSucceeds ==
    /\ phase = "exec"
    /\ \E r \in ExecutorResults :
        /\ r.outcome = "success"
        /\ ledger' = task_succeeds(ledger, current, r)
    /\ completed' = completed \cup {current}
    /\ phase' = "drive"
    /\ UNCHANGED <<remaining, current, attempt, ids>>
    /\ OutsideLoop

TaskFails ==
    /\ phase = "exec"
    /\ ids' = ids + 1
    /\ \E r \in ExecutorResults :
        /\ r.outcome = "failure"
        /\ ~retry(r)
        /\ ledger' = task_fails(ledger, current, r, ids')
    /\ phase' = "drive"
    /\ UNCHANGED <<remaining, completed, current, attempt>>
    /\ OutsideLoop

-----------------------------------------------------------------------------
(* The end of _drive, and what the command does with the result.           *)

\* run_state, reconcile, run_gate.
Return(run_state) ==
    /\ ledger' = reconcile([ledger EXCEPT !.run_state = run_state])
    /\ gate_result' = run_gate(ledger')
    /\ phase' = "returned"
    /\ remaining' = {}
    /\ UNCHANGED <<deps, stored, control, now, cmd, completed, current, attempt,
                   controlled, ids, boundVars>>

\* Mutant: a paused loop polls the flag instead of returning.
StopPolls ==
    /\ phase = "drive"
    /\ remaining # {}
    /\ ledger.task[topo_next(remaining)] # "completed"
    /\ Stopped
    /\ UNCHANGED vars

\* break: the control flag says so before a task that is not completed.
Stop ==
    /\ phase = "drive"
    /\ remaining # {}
    /\ ledger.task[topo_next(remaining)] # "completed"
    /\ Stopped
    /\ Return(control)

Finish ==
    /\ phase = "drive"
    /\ remaining = {}
    /\ Return("completed")

\* run --land on a workspace with changes (on a clean tree land changes nothing).
land(l) == [append_event(l, event("commit", NoTask, "none"))
               EXCEPT !.commits = @ + 1, !.requires_landing = TRUE]

Land ==
    /\ phase = "returned"
    /\ cmd = "run"
    /\ gate_result = "passed"
    /\ ledger.allowed
    /\ ledger' = land(ledger)
    /\ gate_result' = run_gate(ledger')
    /\ phase' = "landed"
    /\ UNCHANGED <<deps, stored, control, now, cmd, remaining, completed, current,
                   attempt, controlled, ids, boundVars>>

\* The process is gone: what it held in memory is lost.
EndProcess ==
    /\ phase' = "idle"
    /\ cmd' = "none"
    /\ ledger' = NoLedger
    /\ remaining' = {}
    /\ completed' = {}
    /\ current' = NoTask
    /\ attempt' = 0
    /\ controlled' = FALSE
    /\ gate_result' = "none"
    /\ UNCHANGED <<deps, control, now, ids, commands, resolutions, leases, controls>>

Save ==
    /\ phase \in {"returned", "landed"}
    /\ stored' = ledger
    /\ EndProcess
    /\ UNCHANGED crashes

\* A crash, or an exception from the executor or from compensate: _run_task
\* catches none, and nothing was saved.
Crash ==
    /\ phase # "idle"
    /\ MoreInput /\ crashes < MaxCrashes
    /\ crashes' = crashes + 1
    /\ EndProcess
    /\ UNCHANGED stored

-----------------------------------------------------------------------------
(* Operators, other agents and time.  They need no process to be idle.     *)

\* pause and abort write the control flag.
SetControl ==
    /\ MoreInput /\ controls < MaxControls
    /\ controls' = controls + 1
    /\ control' \in {"paused", "aborted"}
    /\ UNCHANGED <<deps, stored, now, procVars, commands, resolutions, leases, crashes>>

\* resolve_blocker: the first blocker with the id, if any, names the task; an
\* override drops every blocker with the id.
resolve_blocker(l, n, decision) ==
    LET matching == {b \in l.blockers : b.id = n}
        found    == matching # {}
        t        == IF found
                    THEN (CHOOSE b \in matching : \A c \in matching : b.at <= c.at).task
                    ELSE NoTask
        noted    == [l EXCEPT !.resolutions =
                        Append(@, [at |-> Len(l.execution_log) + 1, id |-> n,
                                   decision |-> decision])]
        decided  == IF decision = "override" /\ found
                    THEN [noted EXCEPT !.blockers = @ \ matching, !.task[t] = "pending"]
                    ELSE noted
    IN  append_event(decided, event("resolution", t, "none"))

\* resolve: load, resolve_blocker, save.
Resolve ==
    /\ stored # NoLedger
    /\ MoreInput /\ resolutions < MaxResolutions
    /\ \E n \in {b.id : b \in stored.blockers} \cup UnknownIds, decision \in Decisions,
          role \in {"agent", "operator"} :
        /\ authorize(role, IF decision = "override" THEN "override" ELSE "approve")
        /\ stored' = resolve_blocker(stored, n, decision)
    /\ resolutions' = resolutions + 1
    /\ UNCHANGED <<deps, control, now, procVars, commands, leases, controls, crashes>>

\* Another agent records a lease in the stored ledger (AGENT_UPDATE_PROTOCOL);
\* acquire_lease appends it without looking at the others.
AcquireLease ==
    /\ stored # NoLedger
    /\ MoreInput /\ leases < MaxLeases
    /\ \E t \in Tasks, expires_at \in {now, NoExpiry} :
        stored' = [stored EXCEPT !.agent_leases =
                      Append(@, [task |-> t, expires_at |-> expires_at, released |-> FALSE])]
    /\ leases' = leases + 1
    /\ UNCHANGED <<deps, control, now, procVars, commands, resolutions, controls, crashes>>

\* Only leases tell two moments apart.
Tick ==
    /\ leases > 0
    /\ now < MaxNow
    /\ now' = now + 1
    /\ UNCHANGED <<deps, stored, control, procVars, boundVars>>

-----------------------------------------------------------------------------
\* The steps the engine process takes by itself.
Step ==
    \/ SkipCompleted \/ BlockUnmetDeps \/ SkipCommitted \/ LeaseConflict \/ BeginTask
    \/ RetryAttempt \/ TaskSucceeds \/ TaskFails
    \/ Stop \/ Finish \/ Save

Next ==
    \/ Run \/ Resume \/ Step \/ Land \/ Crash
    \/ SetControl \/ Resolve \/ AcquireLease \/ Tick

Spec == Init /\ [][Next]_vars

\* The process runs on its own, so an enabled step of it happens: the loop is
\* sequential Python code.  That the executor returns is an assumption, which
\* run_with_deadline makes good when a wall budget is set.
\* Operators, crashes and the --land flag promise nothing.
FairSpec == Spec /\ WF_vars(Step)
-----------------------------------------------------------------------------
(* Properties.                                                             *)

Ledgers == {ledger, stored} \ {NoLedger}

TypeOK ==
    /\ deps \in Graphs
    /\ stored \in Ledger \cup {NoLedger}
    /\ control \in {"running", "paused", "aborted"}
    /\ now \in Nat
    /\ phase \in {"idle", "drive", "exec", "returned", "landed"}
    /\ cmd \in {"none", "run", "resume"}
    /\ ledger \in Ledger \cup {NoLedger}
    /\ (phase = "idle") <=> (ledger = NoLedger)
    /\ remaining \subseteq Tasks
    /\ completed \subseteq Tasks
    /\ current \in Tasks \cup {NoTask}
    /\ phase = "exec" => current \in Tasks
    /\ attempt \in 0 .. MaxRetries + 1
    /\ controlled \in BOOLEAN
    /\ gate_result \in {"none", "passed", "failed"}
    /\ ids \in Nat
    /\ {commands, resolutions, leases, controls, crashes} \subseteq Nat

\* Whatever sequence of runs, resumes, crashes, lease conflicts and resolutions led
\* to a saved ledger, a receipt built from it (build_handover_receipt over run_gate)
\* says "completed" only if every task is completed, with evidence and a passing
\* acceptance, and no event touched a path outside allowed_roots.  _reconcile and
\* the receipt look at pending tasks and blockers only, so this rests on every
\* blocked task having an open blocker.
HandoverSound ==
    stored # NoLedger /\ handover_status(stored, run_gate(stored)) = "completed"
        => /\ \A t \in Tasks : stored.task[t] = "completed"
           /\ Tasks \subseteq stored.evidence \cap stored.accepted
           /\ \A i \in DOMAIN stored.execution_log :
                  stored.execution_log[i].touched # "outside"

LoggedComplete(log, t) ==
    \E i \in DOMAIN log : log[i].type = "task_completed" /\ log[i].task = t

CompletesOnce(log) ==
    \A i, j \in DOMAIN log :
        /\ log[i].type = "task_completed" /\ log[j].type = "task_completed"
        /\ log[i].task = log[j].task
        => i = j

JournalCommitsOnce(journal) ==
    \A i, j \in DOMAIN journal :
        /\ journal[i].status = "committed" /\ journal[j].status = "committed"
        /\ journal[i].task = journal[j].task
        => i = j

StartsAfterDeps(log, graph) ==
    \A i \in DOMAIN log : log[i].type = "task_started" =>
        \A d \in graph[log[i].task] : \E j \in 1 .. i - 1 :
            log[j].type = "task_completed" /\ log[j].task = d

\* The effects of a task are applied once: however often it is retried, resumed or
\* overridden, at most one transaction of it commits and at most one task_completed
\* event (the one the relay reports) is logged (already_committed in _run_task).
CommitsOnce ==
    \A l \in Ledgers : CompletesOnce(l.execution_log) /\ JournalCommitsOnce(l.saga_journal)

\* No task starts before all its dependencies completed: in every log a task_started
\* is preceded by the task_completed of each dependency, even when an operator reset
\* the dependency or the order had to break a cycle (_drive, topo_order).
DependenciesFirst == \A l \in Ledgers : StartsAfterDeps(l.execution_log, deps)

\* While a task executes, its own lease is the only active one on it in the ledger
\* the process holds (can_acquire before the append in _run_task, release at the end).
SoleLease ==
    phase = "exec" =>
        {i \in DOMAIN ledger.agent_leases :
            /\ ledger.agent_leases[i].task = current
            /\ lease_state(ledger.agent_leases[i], now) = "active"}
        = {Len(ledger.agent_leases)}

\* The events that settle a task's status: those the relay projects to the remote view
\* (plan_projection skips a resolution), and a resolution that was an override.
ProjectedEvents == {"task_started", "task_completed", "task_blocked"}

StatusAfter(type) ==
    CASE type = "task_started"   -> "in_progress"
      [] type = "task_completed" -> "completed"
      [] type = "task_blocked"   -> "blocked"
      [] type = "resolution"     -> "pending"

\* The places in the log of the resolutions that were overrides.
Overrides(l) ==
    {l.resolutions[k].at : k \in {j \in DOMAIN l.resolutions :
                                      l.resolutions[j].decision = "override"}}

Settles(log, overrides, t) ==
    {i \in DOMAIN log : /\ log[i].task = t
                        /\ \/ log[i].type \in ProjectedEvents
                           \/ log[i].type = "resolution" /\ i \in overrides}

\* Status s of task t is what the last settling event about it says.
Told(log, overrides, t, s) ==
    LET about == Settles(log, overrides, t)
    IN  /\ about = {} => s = "pending"
        /\ \A i \in about : (\A j \in about : j <= i) => s = StatusAfter(log[i].type)

\* The log tells the truth: a task has the status of the last task_started,
\* task_completed or task_blocked about it, the status the relay reports, unless an
\* override about it came later: then it is pending (resolve_blocker), and the remote
\* view, which never hears of a resolution, goes on showing what it was until the task
\* starts or is blocked again.  So these overridden tasks, and no others, may differ from
\* the remote view; a decision that is no override changes no status.
LogTellsStatus ==
    \A l \in Ledgers, t \in Tasks : Told(l.execution_log, Overrides(l), t, l.task[t])

\* The leases of a list that are not released.
Open(ls) == {i \in DOMAIN ls : ~ls[i].released}

\* Nothing in progress, and no more leases open than the n that other agents recorded.
Resting(l, n) ==
    /\ \A t \in Tasks : l.task[t] # "in_progress"
    /\ Cardinality(Open(l.agent_leases)) <= n

\* A saved ledger is at rest: nothing in progress, no lease of the engine left
\* unreleased, so that a resume after any crash starts from a state it can handle.
\* (Leases other agents recorded are theirs to release.)
StoredAtRest ==
    stored # NoLedger => Resting(stored, leases) /\ stored.run_state # "running"

\* Ledger m goes on from l: its log begins with l's, and what is committed stays so.
Continues(l, m) ==
    /\ Len(l.execution_log) <= Len(m.execution_log)
    /\ \A i \in DOMAIN l.execution_log : m.execution_log[i] = l.execution_log[i]
    /\ \A t \in Tasks : already_committed(l, t) => already_committed(m, t)

\* A stored history goes on: whatever crashes, stops, leases and resolutions come in
\* between, no event and no commit leaves the store, but for a new run, or a resume
\* that saves over a resolution made after it had loaded (resume, Engine.resume).
StoredContinues ==
    [][/\ stored # NoLedger /\ cmd # "run"
       /\ ledger # NoLedger => Len(ledger.resolutions) = Len(stored.resolutions)
       => Continues(stored, stored')]_stored

\* Every command returns: retries are bounded and the loop visits each task once.
CommandReturns == phase # "idle" ~> phase = "idle"

-----------------------------------------------------------------------------
(* The inductive invariant behind the theorems of RunLoopProofs.  Each     *)
(* part but the last is about one ledger, so that it carries over from the *)
(* ledger in memory to the stored one and back.                            *)

\* A task completes exactly when its transaction commits, and once.
CommitInv(l) ==
    /\ CompletesOnce(l.execution_log)
    /\ JournalCommitsOnce(l.saga_journal)
    /\ \A t \in Tasks : LoggedComplete(l.execution_log, t) <=> already_committed(l, t)
    /\ \A t \in Tasks : l.task[t] = "completed" => already_committed(l, t)

LedgerInv(l, graph) == CommitInv(l) /\ StartsAfterDeps(l.execution_log, graph)

\* The process: its local `completed' is covered by the log, and the transaction of
\* the task in flight is the last of the journal and the only one of its task open
\* to commit.
ProcInv ==
    /\ phase # "idle" => \A t \in completed : LoggedComplete(ledger.execution_log, t)
    /\ phase = "exec" =>
          /\ ledger.task[current] = "in_progress"
          /\ ~already_committed(ledger, current)
          /\ ledger.saga_journal # <<>> /\ ledger.agent_leases # <<>>
          /\ ledger.saga_journal[Len(ledger.saga_journal)].task = current

IInv ==
    /\ TypeOK
    /\ ledger # NoLedger => LedgerInv(ledger, deps)
    /\ stored # NoLedger => LedgerInv(stored, deps)
    /\ ProcInv

\* A blocked task has an open blocker, and reconciliation is allowed only when nothing
\* is blocked and everything is completed.
HeldInv(l) ==
    /\ \A t \in Tasks : l.task[t] = "blocked" => \E b \in l.blockers : b.task = t
    /\ l.allowed => /\ l.blockers = {}
                    /\ \A t \in Tasks : l.task[t] = "completed"

\* What HandoverSound rests on.  It is kept by every step but one: an override of an id
\* that two open blockers have closes both and resets the task of the first only.
AllHeld == \A l \in Ledgers : HeldInv(l)

\* No override closes two blockers at once.
OneClosed == Resolve => \A b, c \in stored.blockers \ stored'.blockers : b = c

\* A resolution is dated by an event the log has.
Dated(l) == \A k \in DOMAIN l.resolutions : l.resolutions[k].at <= Len(l.execution_log)
ResolutionsDated == \A l \in Ledgers : Dated(l)

\* What RunLoopLogProofs adds: the log agrees with the statuses, and but for the task in
\* flight, whose lease is the last and does not expire, every ledger is at rest.
RestInv ==
    /\ LogTellsStatus /\ ResolutionsDated /\ StoredAtRest /\ SoleLease
    /\ phase \in {"drive", "returned", "landed"} => Resting(ledger, leases)
    /\ phase \in {"returned", "landed"} => ledger.run_state # "running"
    /\ phase = "exec" =>
          /\ \A t \in Tasks \ {current} : ledger.task[t] # "in_progress"
          /\ Cardinality(Open(ledger.agent_leases) \ {Len(ledger.agent_leases)}) <= leases
          /\ ledger.agent_leases[Len(ledger.agent_leases)].expires_at = NoExpiry

\* Behind StoredContinues: a resume holds a ledger that goes on from the stored one, as
\* long as nobody has resolved anything since it loaded.
LoadedInv ==
    /\ phase = "idle" <=> cmd = "none"
    /\ cmd = "resume" =>
          /\ stored # NoLedger
          /\ Len(ledger.resolutions) <= Len(stored.resolutions)
          /\ Len(ledger.resolutions) = Len(stored.resolutions) => Continues(stored, ledger)

-----------------------------------------------------------------------------
\* What the documents say and the code does not keep.

\* Recovery from a crash skips what was committed: whatever the process committed is
\* in the store when it ends, so that a resume does not execute it again.  (Only the
\* end of a command saves; until then a crash forgets every commit of the command.)
CommitsSurvive ==
    [][ledger # NoLedger /\ ledger' = NoLedger =>
         \A t \in Tasks : already_committed(ledger, t) =>
             stored' # NoLedger /\ already_committed(stored', t)]_ledger

\* Unless a new run replaces it, the stored log only grows: a resolution an operator
\* recorded stays recorded.  (save takes its lock after load, so a resume that loaded
\* the ledger before the resolution writes the older log back.)
StoredLogAppendOnly ==
    [][stored # NoLedger /\ cmd # "run" =>
         /\ Len(stored.execution_log) <= Len(stored'.execution_log)
         /\ \A i \in DOMAIN stored.execution_log :
                stored'.execution_log[i] = stored.execution_log[i]]_stored
=============================================================================
