# iplan-runner: TLA+ models of the engines, the relay and the receiver

An *engine* executes an *IPLAN*, a graph of tasks, and keeps everything it does in a
ledger. There are two engines, `platforms/claude` and `platforms/hermes`. Every source
file of one is, line by line, a file of the other, but for `engine.py`, the executor mode
in `cli/commands.py`, and the executor that calls a host runtime (claude,
`executor/hostruntime.py`, `runtime/`) or a model (hermes, `executor/api.py`, `model/`).
So every module here models both, and the map in `PROJECT.json` names lines of one
engine for some definitions and of its twin for others. Paths below are relative to
`platforms/claude/src/iplan_claude/`.

## Inventory

| part | state | operations | interacts with |
|---|---|---|---|
| run loop (`orchestrator/loop.py`, `saga.py`, `topo.py`, `state.py`) | ledger in memory: statuses, journal, leases, history, log, blockers, reconciliation | `run`, `resume`, `land`; per task: skip, block, lease, execute with retries, commit or compensate | executor (calls), store (load at the start, save at the end), control flag (read between tasks) |
| operator control (`orchestrator/control.py`, `ledger/index.py`) | control flag file, blockers and resolutions in the stored ledger | `pause`, `abort`, `resolve` | other processes on the same store, no lock over load-change-save |
| leases (`orchestrator/leases.py`, `engine.acquire_lease`) | `agent_leases`, the clock | acquire, expire, release | run loop |
| gate, rules, handover (`gates/`, `validation/`, `handover/`) | none | verdict over a ledger, receipt | run loop, CLI |
| ledger store (`ledger/persistence.py`, `ledger/store.py`, `security/signing.py`, `ledger/events.py`) | one file per plan, its temporary file and lock, a hash chain and signatures in the log | `save`, `load`, `append_event`, `verify_chain`, `sign_ledger`, `verify_ledger`, projection to events | every command and every receiver thread |
| executors and workspace (`executor/`, `effectors/`, `evidence/`, `budget.py`, `vcs/git.py`) | files, what a run has used, abandoned threads | write, command, checks, undo, call with a deadline, commit | run loop through `Executor` |
| plan chain (`orchestrator/chain.py`, `validation/chain_rules.py`) | which plans reconciled, the chain ledger | `run_chain` | run loop, control |
| intake (`intake/`, `validation/intake_rules.py`, `payload_rules.py`) | none | two ways to a manifest, the rules on plans and payloads | CLI, receiver, run loop |
| relay (`relay/worker.py`, `client.py`, `reject.py`, `store.py`) | `delivery` and `identity` tables | `drain`, `deliver`, `classify`, `mark_settled`, `dead_letter`, `prune_settled` | iplanic over HTTP; several drains at once on one table |
| receiver (`receiver/http.py`, `service.py`) | `accepted_task` table, semaphore, worker threads, clones | `do_POST`, `execute`: accept, claim, clone, run, save, drain, settle, prune, release | run loop, store, relay, iplanic's dispatches |
| server (`cli/commands.py`, `config.py`, `receiver/auth.py`, `heartbeat.py`) | configuration, handler threads, heartbeat thread | boot, request checks, beat, interrupt | receiver, iplanic |
| monitoring, audit report, redaction, outgoing event signatures | none | functions from documents to documents or bytes | |

What is hard here: operators and other agents change the store while a loop runs for
long on the copy it loaded; a ledger passes through many commands, each with its own
ids; a crash drops the copy in memory, or a save half-way; several drains with stale
views write one table, and an answer of iplanic may be lost after it took effect; a task
may be dispatched again at any moment of its life; slots, rows, clones and threads must
agree whichever call fails; a call that was given up goes on writing; an undo knows the
paths of a task and not what was there before. `PROJECT.json` lists the hazards with
their lines.

What makes each part correct:
- run loop: a task commits once; it starts after its dependencies; the log, the statuses
  and the receipt agree; a saved ledger can be resumed; commands return;
- operator control: a decision is kept and has the effect it is documented to have;
- leases: one live lease per task;
- ledger store: readers find whole ledgers; damage is noticed; a key names one place in one
  history;
- workspace: writes stay in the jail; a failed attempt leaves nothing; what is committed
  is described; a budget bounds what is spent;
- chain: a plan runs after all it rests on has reconciled, none is passed over, the
  chain ledger is true, the chain ends;
- relay: in-order, at-least-once, nothing dropped in silence, dead letters stay;
- receiver: one run per task, exact slots, no acknowledged task forgotten, every claimed
  task settled, unsent events still there for a sync;
- server: what the door takes the run loop takes; requests are answered; it keeps beating.

## Modules

| module | models |
|---|---|
| `RunLoop` | run loop, operator control, leases, gate and receipt, store, as one process among operators |
| `Workspace` | what executors do to files under the loop: jail, undo, budget, deadline, commit |
| `Chain` | `run_chain` over several plans; extends `Intake` |
| `AtomicFile` | what the ledger store promises: a save is one step, or none |
| `LedgerFile` | the stored ledger: hash chain, signatures, `save` step by step, keys of events; implements `AtomicFile` |
| `Outbox` | what a relay promises, in three variables |
| `Relay` | drains of one ledger by several workers; implements `Outbox` |
| `TaskLife` | what the receiver promises of the rows of `accepted_task` |
| `Receiver` | POST handler from `accept_task` on, worker threads, accepted rows, clones, sync; implements `TaskLife` |
| `Intake` | manifests, payloads and their rules, as operators |
| `Server` | the `server` command: configuration, door, heartbeat; extends `Intake` |
| `MC...` | the instances of each |
| `RunLoopProofs`, `RunLoopLogProofs` | theorems about `RunLoop`: commits, order and receipt; log, store, leases and the stored history |
| `RelayProofs`, `ReceiverProofs`, `LedgerFileProofs`, `ChainProofs`, `WorkspaceProofs`, `ServerProofs` | theorems about one module each |

The modules meet at these points. To `RunLoop` an executor is any result, and
`Workspace` says how results come about; to `Chain` a plan is its outcome, and `RunLoop`
says when a ledger is reconciled; `RunLoop` and `Receiver` take `save` and `load` as
single steps, which `LedgerFile` justifies (`SavesAtomically`); to `Relay` an event is its
place in the log, which `LedgerFile` justifies for logs that agree in what was touched
(`KeysNameHistories`); to `Receiver` a request has passed the
door, and the work on it runs or raises, and `Server` says which.

### RunLoop

`ledger` is the dictionary that `run` or `resume` holds, `stored` the file. The functions
that change a ledger in place are operators from ledger to ledger with the names of the
code (`begin_task`, `task_succeeds`, `task_fails`, `escalate`, `reconcile`, ...). An
action is a piece of the code between two points where another process can matter: one
visit of the loop of `_drive` (which reads the control flag), one attempt of the executor, the end
of the loop, the save. Between `BeginTask` and the end of the task the clock, a control
flag, a decision on the stored copy and a crash can happen. `Init` is an empty store.

The relay reports to iplanic what the log says, and it skips resolutions
(`ProjectedEvents`). So the remote view of a task lags behind its status once an operator has
overridden its blocker: the ledger has it pending, iplanic still sees it blocked, until
the next run starts it. `LogTellsStatus` says that nothing else makes the two differ: the
status is that of the last projected event, or `pending` if an override came after it.

Abstractions: titles, reasons, timestamps (but for lease expiry) and counts derived from
statuses are left out; blockers are a set of records with their place in the list;
touched paths are `none`, `inside` or `outside` the allowed roots; the edits of one
successful task are one `file_edited` event. One engine process runs at a time; two
engines at once on one ledger are not modelled (the lost update shown below is already
there with an operator and one engine). An executor is any
result of `ExecutorResults`, chosen at every attempt, or an exception, which has the
effect of a crash.

`SharedIds` says who numbers blockers: a new source in every command, as in the command
line and in every test, or one for all commands, as a program that uses the engine as a
library may have. What holds in the first case is the theorem `HandoverSoundHolds`.

### Relay and Outbox

A worker is a call of `drain`, with the locals of the code: the events it was given, the
settled keys it read once, the event it is at, the attempts and the refresh of the
token. One POST and its answer are a step. iplanic is external: any answer may come, a
202 only if it holds the event, and a connection error or a 5xx may hide that it does.
An event is its place in the projection, as its key is derived from the hash chain and
is the same for every drain. The log only grows here; that the receiver may replace it
is shown in `Receiver`.

`Outbox` has the log, what iplanic holds and what is dead-lettered: an event arrives, or
is given up, only when each earlier one has arrived or was given up. The mapping sends
`delivery` to the set of dead letters; delivered rows, which come and go with pruning,
are no part of the promise.

### Receiver

A thread is at a line of `do_POST` or `execute`. Every call that can raise has the
step that raises, and goes where the code goes: `claim_task` is outside of the `try`,
`settle_task` may fail again in the handler, the sweep is swallowed, the slot is released
last. `Provision` removes and clones the directory of the task, `Prune` removes it;
`RunTask` is intake and `engine.run`, and `Drain` the whole of `drain` (their insides are
other modules): each returns or raises. `Crash` is the end of the server with its daemon
threads; tables and clones stay. `acked`, `lost`, `runs` and `pruned` are history.
`_slug` can map two tasks to one directory; the instance gives each task its own.

`TaskLife` is the table alone, with the number of runs: a row is made, runs its task
once, ends, and is swept only after its end. Under it, all threads, faults and clones are
stutters; the mapping is the identity on `row` and `runs`. A row that stays `running`
because its thread was lost is allowed, and so are rows made and never claimed.

### Workspace

A path is its segments, with `.` and `..` as names, and `resolve` is where the
operating system finds it, through links, those that lead nowhere included. Directories
are there or not (`dirs`), as a write makes the missing ones. The jail is `classify_path` on
the normalised text, and the containment test of `apply_write` on the deepest component
that exists (`ancestor`); what the rest of the path leads to is not tested. A write that
passes both may still end in an `OSError` (a file or a link that leads nowhere on the way, a
directory at its end), which no executor catches. A file holds who wrote it: the
checkout, a write action of a task in a run, or somebody the engine does not watch (a
command, a host runtime). `normpath` and `resolve` both go through the segments one by
one (`norm_step`, `walk_step`): the one goes up in the text, the other in the file system.
The loop's dependencies and retries are left to `RunLoop`; no
executor here returns a retriable result. `usage` counts tokens and seconds (cost is
treated as tokens are); a call that ran into its deadline has used the whole wall budget
and more, and leaves an `orphan` that writes on if it is a host runtime. An exception
ends the command with nothing undone and nothing saved. A failed task has a blocker, which
only an override takes away; `reconciled` is the condition of `_reconcile`, so it asks
for that too.

### Chain and Intake

The chain file (dependencies, order, manifests, leases) is chosen in `Init`; `chain_next`
is the choice `chain_order` makes with a set of plans left, so the loop and the order
in the ledger are the same function. `Intake` has the two ways to a manifest
(`ingest_iplan`, `build_manifest` after `adapt_dispatched_task`) and the rules; a field
that the rules only test for presence is a BOOLEAN. `run_accepts` is where `run` raises.
Three operators say for which payloads the functions return at all: `adapt_returns` (a
`context_package` that is no mapping passes the door and raises), `build_returns` (a todo
that is no mapping, a number without a canonical form) and `validate_returns` (a
`todo_id` that is a list).

### LedgerFile

A hash is the tuple it is computed from and a signature its key and what it signs, so
both are ideal. `save` is taken apart at every system call; `load` takes no lock, and
refuses a log whose chain does not verify. `Damage` edits the stored file: an entry, the
paths of an entry, an entry lost, two exchanged. `saved` is history. `execution_event` is
what is sent of an entry: its touched paths go with it, and neither the hash nor the key
has them.

`AtomicFile` has neither lock nor temporary file: a session opens with the stored ledger
or a fresh one, saves, and the save takes effect in one step or never. The mapping sends
the place of a process to one of four stages (`SessionAt`); the save takes effect at
`os.replace`, and a crash on either side of it is the end of a session on that side.

### Server

One connection is one handler thread, at a line of `do_POST`; a body may never arrive,
and the read has no timeout. What `accept_task` and the slots answer is any answer here.
A worker maps the payload to its manifest and hands it to `run`: the task ends as `ran`,
as `refused` by `run`, or as `raised` on the way (`work_outcome`), the last two with a row
that is settled as failed. Configuration is the
defaults, then the top of the file, then its sections, and secrets from the environment
only. The heartbeat's post succeeds, fails, or hangs (no timeout either).

## Runs

| run | instance | result |
|---|---|---|
| `run_loop` | 2 tasks; no dependency, a chain, a cycle; 3 kinds of results, 1 retry; up to 3 commands, 1 decision, 1 foreign lease that may expire, 1 pause or abort, 1 crash, at most 4 of these together (`MaxInputs`); fairness | `TypeOK`, `HandoverSound`, `DependenciesFirst`, `LogTellsStatus`, `StoredAtRest`, `CommitsOnce`, `SoleLease`, `StoredContinues`, `CommandReturns` hold |
| `run_loop_fresh_ids` | 3 tasks, 3 commands, 4 overrides, ids of the command line | `HandoverSound` fails |
| `run_loop_lost_update` | 2 tasks, 2 commands, 1 decision | `StoredLogAppendOnly` fails |
| `run_loop_crash` | 2 tasks, 1 crash | `CommitsSurvive` fails |
| `workspace` | 2 tasks, 2 commands, each executor; 5 paths (a file whose name the next one needs for a directory, a detour to a file of the checkout, behind a link, out of the root, a link to a missing file), of which a host runtime writes 2 (`RuntimePaths`); 2 actions; budget of 1 token and 1 second, calls that use more of either | `JailHolds`, `NoLeftovers`, `OvershootBounded`, `CommitDescribed`, `NothingAfterTimeout` hold |
| `workspace_undo` | 2 tasks, 1 path, 2 commands, overrides | `ReconciledWorkPresent` fails |
| `chain` | 3 plans and an id of no plan: every `depends_on`; 2 orders, 2 sets of manifests, with and without an operator; fairness | `AncestorsReconciled`, `NoPlanPassedOver`, `LedgerTruthful`, `ChainEnds` hold |
| `ledger_file` | 2 processes, 2 kinds of entries, logs of 2, 2 saves, 1 crash, 1 damage; fairness | `FileWhole`, `LoadSound`, `SignedSound`, `KeysNameHistories`, `SavesAtomically`, `SaveEnds` hold |
| `relay` | 2 workers, 2 events, 3 drains, 1 retry, 1 aged row, 1 crash or failing database; fairness | `TypeOK`, `ReportSound`, `Implements`, `DrainReturns` hold |
| `receiver` | 3 threads, 2 slots, 3 dispatches of 2 tasks, 1 crash, 1 fault, 1 aged row, 1 sync; fairness | `TypeOK`, `RunsOnce`, `SlotsExact`, `AckedAccounted`, `RunningOwned`, `CloneOwned`, `TaskLives`, `TaskSettles` hold |
| `receiver_shared_ledger` | 2 tasks of a plan, no faults | `PendingSyncable` fails |
| `server` | 2 connections, 7 files, 3 environments, 29 requests with at most one thing wrong each; fairness | `TypeOK`, `AcceptedRuns`, `Answered`, `BeatsRecur` hold |

Why these bounds: every hazard is about two actors, or about one actor and what an
earlier command left behind. Two tasks give all dependency graphs up to renaming that
matter to the loop (none, chain, cycle); a third is needed for two blockers with one id
and a task besides, so the run about ids has three. A chain of three plans has cycles
of every kind, a diamond's two sides, and a plan behind a plan that was passed over.
Two tasks in one workspace are the one that wrote and the one that undoes; two commands
are the failure and the resume. Two drains that overlap and a third that comes after
them, over two events, reach every order of deliver, mark, dead-letter and prune on one
event with another before or after it. Two processes that both save meet at every step
of `save`. Three threads with two slots make two claims race while a third thread is
refused. One fault at a time is enough to reach every exception path; a second failure
in `execute`'s handler needs the drain or the run to raise first, which needs no fault.
`MaxInputs` bounds what the environment of the loop does altogether: four inputs are a
run, and any three others in any order. All bounds are guards on counters of their own;
when they are used up, or a chain, a save or a server is over, nothing is left to do, so
these runs do not check deadlock.

The mutants listed in `PROJECT.json` show that each property can fail: each changes one
definition as a plausible slip in the code would, and breaks the property it is listed with.

### What the failing runs show

1. *Blocker ids repeat* (`run_loop_fresh_ids`). Every command makes its own `IdSource`.
   One override removes two blockers and resets one task, and the next `_reconcile` sees
   no blocker: the receipt says `completed` while a task is blocked.
2. *Lost update* (`run_loop_lost_update`). `save` locks, `load` does not: a resume writes
   back a ledger without the decision an operator recorded in the meantime.
3. *Crash* (`run_loop_crash`). The ledger is saved when the command ends; commits before
   a crash are forgotten and executed again.
4. *The undo of another's work* (`workspace_undo`). `undo_writes` unlinks what the failed
   task wrote, whoever had written it before: an earlier task's file is gone, and after an
   override of the failed task's blocker and a resume the run reconciles without it. (With
   the blocker left open, as a resume alone leaves it, `_reconcile` would not.)
5. *One ledger for all tasks of a plan* (`receiver_shared_ledger`). The next task of a
   plan runs and saves its ledger over the one whose events were still pending, although
   their task is settled: a sync finds only the new one.

Seen while modelling, without a run of their own:
- `resume` runs blocked tasks again but leaves their blockers open; overriding such a
  blocker sets a committed task to pending, and `already_committed` (loop.py:173) skips
  it for ever.
- A slot whose thread could not be started (http.py:125) is not given back (`leaked` in
  `Receiver`).
- *A link to nothing.* `exists()` is false for a link whose target is missing, so
  `apply_write` (apply.py:20-28) tests its parent and then writes through the link, outside of
  the workspace; SECURITY_MODEL.md:85-87 says that a symlink inside `allowed_roots` cannot
  redirect a write outside. A link to another directory of the workspace leads out of the
  allowed roots in the same way. `JailHolds` names these paths as its exception (`straight`),
  and the instance has one.
- *One key, two events.* The event hash leaves out the touched paths (store.py:20), which
  the event sends as `artifact_refs` (events.py:106): two ledgers of one run that agree in
  type, subject and time at a place have one key there, and of two different events
  iplanic keeps one. `KeysNameHistories` claims no more than the hash covers.
- *Accepted and refused.* The door asks for neither `iplan_id`, `plan_version_id` nor the
  ids and descriptions of the todos; `run` does, so such a task is answered 202 and then
  fails (`complete` in `Server`), although payload_rules.py:3-5 says that absent fields
  produce findings.
- A `context_package` or a todo that is no mapping passes the door, and the work on the
  task raises before `run` is reached (`wellformed` in `Server`).
- A body that is no text, or a `work_order` that is no mapping, raises in `do_POST`: the
  connection is dropped without a reply (`dropped` in `Server`).
- The root a dispatched task gets is the path of its workspace, under which no relative
  path lies: `classify_path` then refuses every write. `forbidden_paths` is passed to
  `classify_path` by no executor.
- A chain whose `order` contradicts its `depends_on`, or whose leases overlap, runs to
  the end and is `completed`, while `validate` of its ledger fails.
- The idempotency key does not contain the task_id of the payload either, and times have a
  resolution of one second: two dispatched tasks of one run whose ledgers have the same
  entries at the same times share keys.
- `land` signs the ledger again; `run`, `resume` and `resolve` do not sign it, so a
  decision is unsigned unless somebody signs it later.
- The engine inside the receiver, and the one of the commands, is built with the default
  configuration, not with the loaded one.

### Fairness

`RunLoop!FairSpec` is weak fairness of the process's own steps, with none for operators,
the clock, other agents, crashes or `--land`. `Chain!FairSpec` is weak fairness of
`run_chain`, with none for the operator. `Relay!FairSpec`, `Receiver!FairSpec` and
`Server!FairSpec` are weak fairness of each worker, handler and heartbeat thread, with
none for clients, interrupts or a hanging post. `LedgerFile!FairSpec` is weak fairness of
the steps of a save and strong fairness of getting the lock, as `flock` serves those who
wait. It stands for the operating system's scheduling, and for two assumptions that the
code does not enforce by itself: an executor returns (`run_with_deadline` sees to it when
a wall budget is set), and a POST of the relay is answered or its connection fails
(`urlopen` has no timeout).

## Proofs

TLAPS proves, for every set of tasks or plans, every graph, any number of workers,
threads, slots, events, connections and paths, logs of any length, and every bound:

| theorem | says |
|---|---|
| `RunLoopProofs!TypeCorrect` | types; at most `MaxRetries + 1` attempts |
| `RunLoopProofs!CommitsOnceHolds` | a task commits, and is reported completed, once per ledger |
| `RunLoopProofs!DependenciesFirstHolds` | starts come after the completion of all dependencies |
| `RunLoopProofs!HandoverSoundHolds` | whoever gives out ids, a `completed` receipt is true as long as no override closes two blockers of one id (`OneClosed`) |
| `RunLoopLogProofs!LogIsTruthful` | a task's status is that of the last projected event about it, or `pending` if an override came after it |
| `RunLoopLogProofs!SavedAtRest` | a saved ledger has nothing in progress and no lease of the engine open |
| `RunLoopLogProofs!LeaseIsSole` | the executing task has one active lease, the engine's |
| `RunLoopLogProofs!HistoryGoesOn` | the action property: no event and no commit leaves the store, but for a new run or a resume that saves over a later decision |
| `RelayProofs!TypeCorrect` | types; bounded attempts and one refresh |
| `RelayProofs!ReportSoundHolds` | a report with nothing pending is true |
| `RelayProofs!Refinement` | `Relay` implements `Outbox` |
| `ReceiverProofs!TypeCorrect` | types; never more slots than `max_parallel` |
| `ReceiverProofs!RunsOnceHolds` | a task runs once for each row made for it |
| `ReceiverProofs!SlotsExactHolds` | slots are free, held by a thread, or leaked by one that never started |
| `ReceiverProofs!AckedAccountedHolds` | a 202 stands for a claim, made or to be made, or a lost thread |
| `ReceiverProofs!RunningOwnedHolds` | a running row has exactly one owner, or lost it |
| `ReceiverProofs!CloneOwnedHolds` | a running task keeps its clone; only a crash leaves one behind |
| `ReceiverProofs!TasksLive` | `Receiver` implements `TaskLife` |
| `LedgerFileProofs!FileWholeHolds` | the stored file is a whole ledger that was saved |
| `LedgerFileProofs!TypeCorrect` | types; every log is a sequence of whole events |
| `LedgerFileProofs!LoadIsSound` | what `load` accepts agrees with the beginning of a saved log in all that hashes cover |
| `LedgerFileProofs!SignaturesAreSound` | what `verify_ledger` accepts is the beginning of a saved log in every field |
| `LedgerFileProofs!KeysAreSound` | one idempotency key, one place behind one history of types, subjects and times |
| `LedgerFileProofs!SaveIsAtomic` | `LedgerFile` implements `AtomicFile` |
| `ChainProofs!TypeCorrect` | types; no more runs than plans |
| `ChainProofs!UpstreamGating` | a plan runs after all its ancestors ran and were reconciled |
| `ChainProofs!NothingPassedOver` | at the end of the walk, who did not run waits for something not reconciled |
| `ChainProofs!LedgerTells` | a `completed` chain ledger is true; a plan held back by another is reported |
| `WorkspaceProofs!TypeCorrect` | types |
| `WorkspaceProofs!NothingLeftOver` | a blocked task left no file of this attempt in the workspace |
| `WorkspaceProofs!SpendingBounded` | at most one call above the token budget, at most twice the wall budget and a second |
| `WorkspaceProofs!LandingDescribed` | what write actions left in the landed tree is in the commit event |
| `WorkspaceProofs!TimeoutEndsWork` | the action property: no step completes a task behind a call that was given up |
| `WorkspaceProofs!JailKept` | for any links: what write actions wrote lies under an allowed root or at the end of a path that is not `straight`, if the roots are directories (`RootsPlain`) |
| `ServerProofs!TypeCorrect` | types; the signing key is the environment's |
| `ServerProofs!DoorAndRunAgree` | 202 means token, receiver and endpoint were right, and a complete and well-formed payload reaches `run` and is not refused by it |

Assumptions: the `ASSUME`s of these modules, which TLC evaluates in every run
(ids are positive numbers in which every non-empty set has a least one, as Python's
`sorted` needs; plans and threads are finitely many; graphs, orders, results and
payloads have their types; what stands for an absent value is no value; bounds are
natural numbers). Each inductive invariant was checked by TLC on the instance of its
component's run before it was proved.

*RunLoop.* None of the properties is inductive. That a task commits once depends on the
log and the journal agreeing (`CommitInv`: a `task_completed` event for a task exactly when
a transaction of it committed, so that `already_committed`, which reads only the
journal, guards both). That dependencies come first depends on the local `completed`
being covered by the log (`ProcInv`), although statuses can be set back by an override.
The receipt depends on every blocked task having a blocker (`HeldInv`, of the ledger in
memory and the stored one: `AllHeld`). Steps of the loop keep it whatever the ids are;
the one step that may break it is an override that closes two blockers, so the theorem is
about the behaviours without one (`[][OneClosed]_vars`), and `run_loop_fresh_ids` is the
counterexample with one. All are stated of one ledger, so that load and save carry them
over. `Inductive` takes one lemma per operator on ledgers and one step per action.

`RunLoopLogProofs` proves `RestInv` on top of it. `Told` compares one ledger's log with
its statuses, where a resolution counts when it was an override: `ResolutionsDated` says that
each resolution has the place of its event in the log. A lemma for each operator on
ledgers (what is appended last about a task is what its status becomes) carries it
through load, save, crash and lost update. A saved ledger is at rest because a process reaches `returned` only from a ledger at
rest, and between `BeginTask` and the task's end exactly one task is in progress and the
last lease is the engine's: without an expiry, so the clock cannot take it away, and granted
only when `can_acquire` found no active one on the task, so it is the only one. How many
leases are open is counted with the library's cardinality facts.

`StoredContinues` needs `LoadedInv`: a resume holds a ledger that goes on from the stored
one (its log begins with the stored log, what is committed there is committed here) as long
as both have the same number of resolutions. Each operator on ledgers appends to the log
and takes no commit back (`Grows`; the transaction a failure compensates was never
committed, by `ProcInv`); what other agents do meanwhile changes neither log nor journal,
or adds a resolution. The run `run_loop_lost_update` is the counterexample without the
condition on resolutions. A lease another agent records while a resume runs can be lost in
the same way; the property is about events and commits.

*Relay.* `IInv` says that what a worker passed, what it read as settled, and what the
table calls delivered is held by iplanic or dead-lettered. The set it is compared with
only grows, so the stale view of one worker stays true whatever the others do; this is
why no lock is needed, and why pruning delivered rows is harmless. The refinement
uses it for the two steps that are not stutters, an arrival and a dead letter.

*Receiver.* `IInv` adds to the properties what makes them inductive. A row is worth one
run once it is past `accepted`, and a swept row one more (`RunsInv`). The claim is safe
because no thread works on a task whose row is `accepted` (`ThreadInv`), so the winner is
the only worker (`UniqueInv`), and it stays so until its clean-up has removed the clone:
this is what keeps the clones apart (`CloneInv`). The sweep touches only rows that no
thread is about (`OldInv`), so a task being cleaned up cannot be claimed again; this rests on the
retention window being longer than the last lines of a thread, which `Age` assumes. The
refinement of `TaskLife` uses the same facts: a claim finds the row `accepted`, only its
one worker ends it, and the sweep deletes settled rows. Threads are counted with the
cardinality facts of the library, one lemma each for a thread that takes, keeps or gives back its slot.

*LedgerFile.* `SaveInv` says that the holder of the lock is the only process between
`open_tmp` and `unlock`, that what a process has in memory when it gets there is among the
saved documents, and that the temporary file holds it when it is renamed. A crash leaves
the temporary file and not the lock, and the next save truncates it. The refinement
of `AtomicFile` rests on it: what `os.replace` puts in place is what the process holds, and
no other step of a save changes the file.

`LogInv` adds what damage cannot take away. Every saved log and every log in memory has
a chain that verifies (`Sound`). A damaged file need not, but each of its events still has
its number and hash from one saved log (`FromSaved`), and each signature is of an event
of one saved log (`FromSigned`): an edit changes neither hash nor signature. A hash contains
the hash before it, so two verified logs that have one hash at one place agree in all
that is hashed up to there (`HashIdentifies`, `ChainCovers`). `load` and `verify_ledger` follow from
this, and the keys, which contain the hash. The file of a log that was damaged, loaded,
extended and saved again is covered too, as such a log is among the saved ones.

*Chain.* `Visits` says that the loop's locals describe one walk: what is left has no flag and
has not run. `Gated` is about direct dependencies, which the code looks at; the closure
follows as the plans that ran before a place, all reconciled, are a closed set. A plan
that was skipped is the hard case, as its dependency might still be to come:
`SkippedForGood` keeps a set of plans each of which waits for an id of no plan or for
another of the set, which is what the fallback of `chain_order` hits when no plan is
ready. `InOrder` relates the plans that ran to the order the ledger is given, computed by
itself from the start.

*Workspace.* `Traced` says where a file of this run can come from: from a completed task,
whose paths the log has, or from the task at work, whose path is in `touched` as it was
written, so that `undo_writes` resolves it to the same file. `HeadTraced` says it of the
commit. `Orphaned` says that behind a call that was given up no wall budget is left,
which is why `check` refuses what comes after it.

The jail is the hard half, as one test reads the text, the other stops at what exists, and
the write follows links. `StepsAgree` compares the text and the walk segment by segment:
until a path meets a link, where it has got to is the workspace followed by its normal
form so far; from a link on, a straight path stays apart from the workspace.
The link leads to a directory that was there from the start and directories only come
(`Dirs \subseteq dirs`), so the deepest existing component is at the link or behind it,
and the containment test refuses the path (`CrossedIsRefused`). So a straight path that
may be written met no link, and its normal form, which has an allowed root as a prefix, is where
the file is (`TextAgrees`).

*Server.* `DoorInv` carries what each earlier line of the handler has checked along with
the connection. That a complete and well-formed payload which passed is mapped without an
exception and accepted by `run` is a lemma about `validate_payload`,
`adapt_dispatched_task`, `build_manifest` and `validate_intake`, for any payload.

Facts that need induction over data (a log, the plans left) are proved through a least
counterexample: a non-empty set of natural numbers has a least element, and the step
before the least place where a claim fails gives the contradiction.

`JailHolds` has an exception, paths that are not `straight`, as without it there is no
such theorem. A path that climbs with `..` behind a link means one file to `classify_path`,
which normalises the text, and another to the operating system; a link to a place
inside the workspace leads out of the roots; and a link that leads nowhere is followed by the
write and not by the containment test. A deployment can see to it that there are none by
having no links in the workspace. The condition on the roots is evaluated by TLC on the
instances (`RootsAreDirectories` in `MCWorkspace`).

The types of `Workspace`, `Chain` and `LedgerFile` are left to their theorems
(`TypeCorrect`) and to the properties that rest on them. Only model-checked: liveness
(`CommandReturns`, `DrainReturns`, `TaskSettles`, `ChainEnds`, `SaveEnds`, `Answered`,
`BeatsRecur`), which the prover does not do. Every invariant and action property of a
passing run, and every refinement, is a theorem, `HandoverSound` and `JailHolds` under the
conditions named above.

## Plan

Done: all modules above, and a theorem for every safety property of a passing run. Worth
adding when the code changes: two engines at once on one ledger in `RunLoop` (today the
lost update shows with one), and the slots of `Receiver` once a thread that could not be
started gives its slot back.

## Not modelled

Canonical JSON and the bytes of outgoing signatures (`security/iplan_canonical`,
`iplanic_signing.py`), monitoring, audit report and redaction (functions from documents
to documents that no other part acts on), the rules that only hand-written documents
can fire, git and subprocesses beyond their effects (a command here leaves one file at most,
and neither removes directories nor makes links), a `.` at the end of a path, blocker ids
that repeat in `Workspace` (they are `RunLoop`'s), argument parsing and output, and
iplanic itself, which is external and answers as it likes.
