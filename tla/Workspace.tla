----------------------------- MODULE Workspace -----------------------------
(***************************************************************************)
(* What the executors do to a workspace: effectors/sandbox.py, apply.py,   *)
(* commands.py and compensate.py, executor/scripted.py, hostruntime.py,    *)
(* api.py (hermes) and _apply.py, evidence/runner.py, budget.py and        *)
(* vcs/git.py, under the part of orchestrator/loop.py that settles a task. *)
(*                                                                         *)
(* The loop visits the tasks one after the other; dependencies, leases and *)
(* retries are RunLoop's (these executors return no retriable result).     *)
(***************************************************************************)
EXTENDS Integers, FiniteSets, SequencesExt

CONSTANTS
    Tasks,
    Paths,       \* paths scripts, models and runtimes name: [abs, segs], a `.' at the
                 \* end left out
    Roots,       \* isolation_scope.allowed_roots
    Checkout,    \* locations of the files that are there before the first run
    Links,       \* the symbolic links: location -> where it leads, itself no link
    Dirs,        \* the directories that are there before the first run
    RuntimePaths, \* bound: those of them that a host runtime writes
    Executors,   \* executors to check: a subset of {"scripted", "api", "host"}
    MaxTokens,   \* Budget.max_tokens (max_cost_usd is treated alike), or NoLimit
    MaxWall,     \* Budget.max_wall_s, or NoLimit
    Uses,        \* what one call may use: [tokens, wall_s]
    MaxActions,  \* bound: actions in a task's script, writes of a runtime
    MaxRuns      \* bound: run and resume commands

NoTask    == 0
NoLimit   == -1
Workspc   == <<"ws">>       \* where the workspace is
Absent    == <<"absent">>   \* no file
Original  == <<"checkout">> \* the file as it was before the first run
Foreign   == <<"foreign">>  \* a file a command or a host runtime wrote

\* The places of a command between two of its steps.
Places == {"idle", "drive", "call", "actions", "checks", "done", "raised"}

ASSUME WorkspaceAssumption ==
    /\ Tasks \subseteq Nat \ {NoTask}
    /\ Executors \subseteq {"scripted", "api", "host"}
    /\ {MaxTokens, MaxWall} \subseteq Nat \cup {NoLimit}
    /\ \A u \in Uses : u.tokens \in Nat /\ u.wall_s \in Nat
    /\ {MaxActions, MaxRuns} \subseteq Nat

ASSUME PathsAssumption ==
    /\ \A p \in Paths : p.abs \in BOOLEAN /\ p.segs \in Seq(STRING)
    /\ Roots \subseteq Seq(STRING)
    /\ \A at \in DOMAIN Links : Links[at] \in Seq(STRING)

-----------------------------------------------------------------------------
(* Paths.  A path is its segments; a name that is a string prefix of       *)
(* another is written as one: <<"src">> of <<"srcx">>.                     *)

\* What posixpath.normpath makes of one more segment, and of the first n ones.
norm_step(acc, s) ==
    IF s = "." THEN acc
    ELSE IF s = ".." /\ acc # <<>> /\ Last(acc) # ".." THEN Front(acc)
    ELSE Append(acc, s)

norms(segs) ==
    LET acc[n \in 0 .. Len(segs)] ==
            IF n = 0 THEN <<>> ELSE norm_step(acc[n - 1], segs[n])
    IN  acc

normpath(segs) ==
    LET norm == norms(segs)[Len(segs)] IN IF norm = <<>> THEN <<".">> ELSE norm

under(segs, base) == IsPrefix(normpath(base), normpath(segs))

\* Mutant: `..' is looked for in the first segment of the path as it was given.
classify_unnormalised(path, allowed_roots, forbidden_paths) ==
    IF path.abs \/ Head(path.segs) = ".." THEN "ESCAPE"
    ELSE IF \A r \in allowed_roots : ~IsPrefix(r, path.segs) THEN "OUTSIDE_ROOTS"
    ELSE IF \E f \in forbidden_paths : under(path.segs, f) THEN "FORBIDDEN"
    ELSE "OK"

classify_path(path, allowed_roots, forbidden_paths) ==
    IF path.abs \/ Head(normpath(path.segs)) = ".." THEN "ESCAPE"
    ELSE IF \A r \in allowed_roots : ~under(path.segs, r) THEN "OUTSIDE_ROOTS"
    ELSE IF \E f \in forbidden_paths : under(path.segs, f) THEN "FORBIDDEN"
    ELSE "OK"

\* Where the operating system finds a path: one segment after the other, through
\* the links, also those that lead nowhere.  This, and not normpath, is what a write
\* or an unlink acts on.
walk_step(at, s) ==
    IF s = "." THEN at
    ELSE IF s = ".." THEN (IF at = <<>> THEN at ELSE Front(at))
    ELSE IF Append(at, s) \in DOMAIN Links THEN Links[Append(at, s)]
    ELSE Append(at, s)

walk(path) ==
    LET at[n \in 0 .. Len(path.segs)] ==
            IF n = 0 THEN (IF path.abs THEN <<>> ELSE Workspc)
            ELSE walk_step(at[n - 1], path.segs[n])
    IN  at

resolve(path) == walk(path)[Len(path.segs)]

\* A root is named like a path in the workspace.
root(r) == [abs |-> FALSE, segs |-> r]

inside(at) == IsPrefix(Workspc, at)

\* The n-th segment of a path is a link.
crosses(path, n) ==
    /\ path.segs[n] \notin {".", ".."}
    /\ Append(walk(path)[n - 1], path.segs[n]) \in DOMAIN Links

Locations == {resolve(p) : p \in Paths} \cup Checkout

-----------------------------------------------------------------------------
VARIABLES
    executor,  \* the executor the commands use
    files,     \* location -> Absent, Original, Foreign or the <<task, run>> whose
               \* write action wrote it
    dirs,      \* the directories that are there
    status,    \* task -> status in the ledger in memory
    edited,    \* the file_edited events of that ledger: {<<task, path>>}
    blockers,  \* the open blockers of that ledger: {<<task, run>>}
    saved,     \* status, edited and blockers of the stored ledger
    place,     \* where the command is
    cur,       \* the task being executed
    touched,   \* the local `touched' of execute, or what the runtime changed
    actions,   \* actions of the task so far
    usage,     \* the executor's _usage
    orphans,   \* abandoned worker threads: {<<task, run>>}
    head,      \* the tree of the landing commit, or the checkout
    runs       \* bound

ledger == <<status, edited, blockers>>
taskVars == <<cur, touched, actions>>
vars == <<executor, files, dirs, ledger, saved, place, taskVars, usage, orphans, head, runs>>

\* What of the files a commit sees.
tree(fs) == [at \in Locations |-> IF inside(at) THEN fs[at] ELSE Absent]

NewLedger == [status |-> [t \in Tasks |-> "pending"], edited |-> {}, blockers |-> {}]

Init ==
    /\ executor \in Executors
    /\ files = [at \in Locations |-> IF at \in Checkout THEN Original ELSE Absent]
    /\ dirs = Dirs
    /\ status = NewLedger.status /\ edited = {} /\ blockers = {}
    /\ saved = NewLedger
    /\ place = "idle"
    /\ cur = NoTask /\ touched = {} /\ actions = 0
    /\ usage = [tokens |-> 0, wall_s |-> 0]
    /\ orphans = {}
    /\ head = tree(files)
    /\ runs = 0

\* Every command makes its own executor, with nothing used.
Command(state) ==
    /\ place \in {"idle", "done", "raised"}
    /\ runs < MaxRuns
    /\ runs' = runs + 1
    /\ status' = state.status
    /\ edited' = state.edited
    /\ blockers' = state.blockers
    /\ usage' = [tokens |-> 0, wall_s |-> 0]
    /\ place' = "drive"
    /\ cur' = NoTask /\ touched' = {} /\ actions' = 0
    /\ UNCHANGED <<executor, files, dirs, saved, orphans, head>>

Run == Command(NewLedger)

\* resume visits every task that is not completed, the blocked ones too.  The blockers
\* stay: that its task completes later closes none.
Resume ==
    /\ runs > 0
    /\ Command([saved EXCEPT !.status =
           [t \in Tasks |-> IF saved.status[t] = "completed" THEN "completed" ELSE "pending"]])

\* An override takes a blocker out of the stored ledger.  Its task is pending again,
\* whatever has become of it.
Override(b) ==
    /\ place \in {"done", "raised"}
    /\ b \in saved.blockers
    /\ saved' = [saved EXCEPT !.blockers = @ \ {b}, !.status[b[1]] = "pending"]
    /\ UNCHANGED <<executor, files, dirs, ledger, place, taskVars, usage, orphans, head,
                   runs>>

-----------------------------------------------------------------------------
(* The jail of a write, and the write.                                     *)

present(at) == at \in dirs \/ (at \in Locations /\ files[at] # Absent)

\* What the first n segments name exists.
exists(path, n) ==
    LET at == walk(path)
    IN  present(at[n]) /\ \A m \in 0 .. n - 1 : at[m] \in dirs \/ path.segs[m + 1] = "."

\* The place of the deepest existing ancestor, the path itself included.
ancestor(path, n) ==
    exists(path, n) /\ (n < Len(path.segs) => ~exists(path, n + 1))

\* apply_write does not raise PermissionError.  The ancestor is resolved, what the rest
\* of the path leads to is not.  No caller passes forbidden_paths.
may_write(path) ==
    /\ classify_path(path, Roots, {}) = "OK"
    /\ \E n \in 0 .. Len(path.segs) : ancestor(path, n) /\ inside(walk(path)[n])

\* How far mkdir of the parent comes: up to a file or a link that leads nowhere.
opened(path) ==
    LET at == walk(path)
        open(m) == \/ at[m] \in dirs \cup {at[l] : l \in 0 .. m - 1}
                   \/ ~present(at[m]) /\ ~crosses(path, m)
    IN  {n \in 0 .. Len(path.segs) - 1 : \A m \in 1 .. n : open(m)}

\* The directories there are then.
mkdirs(path) == dirs \cup {walk(path)[n] : n \in opened(path)}

\* A write of this path raises no OSError: its parents can be made, and it leads to
\* no directory, but into one.
writable(path) ==
    LET at == resolve(path)
    IN  /\ Len(path.segs) - 1 \in opened(path)
        /\ at \notin mkdirs(path) /\ at # <<>> /\ Front(at) \in mkdirs(path)

put(fs, path, who) == [fs EXCEPT ![resolve(path)] = who]

-----------------------------------------------------------------------------
(* The budget.                                                             *)

exceeds(used, limit) == limit # NoLimit /\ used > limit
check(used) == ~exceeds(used.tokens, MaxTokens) /\ ~exceeds(used.wall_s, MaxWall)

\* Mutant: what a call used is looked at only after it.
refuse_never(used) == FALSE

\* The check before the call.
refuse_before(used) == ~check(used)

add(used, u) == [tokens |-> used.tokens + u.tokens, wall_s |-> used.wall_s + u.wall_s]

-----------------------------------------------------------------------------
(* The outcome of the executor, in _run_task.                              *)

\* Mutant: only the paths a commit would show are undone.
undo_new(fs, paths) ==
    [at \in Locations |->
        IF (\E p \in paths : resolve(p) = at /\ p.segs = normpath(p.segs)) /\ inside(at)
        THEN Absent ELSE fs[at]]

undo_writes(fs, paths) ==
    [at \in Locations |->
        IF (\E p \in paths : resolve(p) = at) /\ inside(at) THEN Absent ELSE fs[at]]

\* The host executor's compensate does nothing.
compensate(fs, paths) == IF executor = "host" THEN fs ELSE undo_writes(fs, paths)

\* Mutant: the paths are recorded with the evidence, so not when there is none.
succeed_proved(evidence) ==
    /\ status' = [status EXCEPT ![cur] = "completed"]
    /\ edited' = edited \cup {<<cur, p>> : p \in IF evidence THEN touched ELSE {}}
    /\ place' = "drive"
    /\ UNCHANGED <<files, blockers>>

Succeed(evidence) ==
    /\ status' = [status EXCEPT ![cur] = "completed"]
    /\ edited' = edited \cup {<<cur, p>> : p \in touched}
    /\ place' = "drive"
    /\ UNCHANGED <<files, blockers>>

\* A failure with the paths `reported' in its result; fs is the workspace by then.
Fail(fs, reported) ==
    /\ files' = compensate(fs, reported)
    /\ status' = [status EXCEPT ![cur] = "blocked"]
    /\ blockers' = blockers \cup {<<cur, runs>>}
    /\ place' = "drive"
    /\ UNCHANGED edited

Elsewhere == UNCHANGED <<executor, saved, head, runs>>

-----------------------------------------------------------------------------
(* One task.                                                               *)

\* The loop reaches task t: a script starts, a call is made or refused.
Execute(t) ==
    /\ place = "drive"
    /\ status[t] = "pending"
    /\ \A u \in Tasks : status[u] = "pending" => t <= u
    /\ cur' = t /\ touched' = {} /\ actions' = 0
    /\ IF executor # "scripted" /\ refuse_before(usage)
       THEN /\ status' = [status EXCEPT ![t] = "blocked"]
            /\ blockers' = blockers \cup {<<t, runs>>}
            /\ UNCHANGED place
       ELSE /\ status' = [status EXCEPT ![t] = "in_progress"]
            /\ place' = IF executor = "scripted" THEN "actions" ELSE "call"
            /\ UNCHANGED blockers
    /\ UNCHANGED <<files, dirs, edited, usage, orphans>>
    /\ Elsewhere

\* The host runtime works in the workspace, wherever it likes.
RuntimeWrites(p) ==
    /\ place = "call" /\ executor = "host" /\ actions < MaxActions
    /\ p \in RuntimePaths /\ writable(p)
    /\ files' = put(files, p, Foreign)
    /\ dirs' = mkdirs(p)
    /\ touched' = touched \cup {p}
    /\ actions' = actions + 1
    /\ UNCHANGED <<ledger, place, cur, usage, orphans>>
    /\ Elsewhere

\* The call returns in time, with u used.  An answer over budget is thrown away;
\* the model's answer may not parse; the host's changes are looked at one by one.
CallReturns(u, good) ==
    /\ place = "call"
    /\ ~exceeds(u.wall_s, MaxWall)
    /\ usage' = add(usage, u)
    /\ \/ ~check(usage') /\ Fail(files, {})
       \/ /\ check(usage') /\ executor = "api"
          /\ IF good THEN place' = "actions" /\ UNCHANGED <<files, ledger>>
             ELSE Fail(files, {})
       \/ /\ check(usage') /\ executor = "host"
          /\ IF \E p \in touched : classify_path(p, Roots, {}) # "OK" THEN Fail(files, {})
             ELSE IF good THEN Succeed(TRUE) ELSE Fail(files, touched)
    /\ UNCHANGED <<dirs, taskVars, orphans>>
    /\ Elsewhere

\* Mutant: the time of a call that was given up is not counted.
charge_nothing(used) == used

\* A call that was given up took longer than the whole wall budget.
charge_deadline(used) == [used EXCEPT !.wall_s = @ + MaxWall + 1]

\* run_with_deadline gives up: the task fails, the worker thread lives on.
CallTimesOut ==
    /\ place = "call" /\ MaxWall # NoLimit
    /\ usage' = charge_deadline(usage)
    /\ orphans' = orphans \cup {<<cur, runs>>}
    /\ Fail(files, {})
    /\ UNCHANGED <<dirs, taskVars>>
    /\ Elsewhere

\* What an abandoned host runtime goes on to do.
OrphanWrites(o, p) ==
    /\ executor = "host" /\ o \in orphans
    /\ p \in RuntimePaths /\ writable(p)
    /\ files' = put(files, p, Foreign)
    /\ dirs' = mkdirs(p)
    /\ UNCHANGED <<ledger, place, taskVars, usage, orphans>>
    /\ Elsewhere

OrphanEnds(o) ==
    /\ o \in orphans
    /\ orphans' = orphans \ {o}
    /\ UNCHANGED <<files, dirs, ledger, place, taskVars, usage>>
    /\ Elsewhere

\* A write action: refused by the jail the task fails, and an OSError (a file or a
\* link that leads nowhere on the way, a directory at the end) leaves execute.
Write(p) ==
    /\ place = "actions" /\ actions < MaxActions
    /\ actions' = actions + 1
    /\ \/ ~may_write(p) /\ Fail(files, touched) /\ UNCHANGED <<dirs, touched>>
       \/ /\ may_write(p) /\ writable(p)
          /\ files' = put(files, p, <<cur, runs>>)
          /\ dirs' = mkdirs(p)
          /\ touched' = touched \cup {p}
          /\ UNCHANGED <<ledger, place>>
       \/ /\ may_write(p) /\ ~writable(p)
          /\ dirs' = mkdirs(p)
          /\ place' = "raised"
          /\ UNCHANGED <<files, ledger, touched>>
    /\ UNCHANGED <<cur, usage, orphans>>
    /\ Elsewhere

\* What a command may leave behind: nothing new, or one file in the workspace.
CommandEffects ==
    {<<files, dirs>>} \cup
    {<<put(files, p, Foreign), mkdirs(p)>> :
         p \in {q \in Paths : inside(resolve(q)) /\ writable(q)}}

\* A command action, which may write a file on its way: nobody records it.
RunCommand(ok, effect) ==
    /\ place = "actions" /\ actions < MaxActions
    /\ actions' = actions + 1
    /\ dirs' = effect[2]
    /\ IF ok THEN files' = effect[1] /\ UNCHANGED <<ledger, place>>
       ELSE Fail(effect[1], touched)
    /\ UNCHANGED <<cur, touched, usage, orphans>>
    /\ Elsewhere

\* The script is over: without checks the task has succeeded, without evidence.
ActionsDone(checks) ==
    /\ place = "actions"
    /\ IF checks THEN place' = "checks" /\ UNCHANGED <<files, ledger>>
       ELSE Succeed(FALSE)
    /\ UNCHANGED <<dirs, taskVars, usage, orphans>>
    /\ Elsewhere

\* run_checks runs every check, the ones after a failure too.
RunChecks(passed) ==
    /\ place = "checks"
    /\ IF passed THEN Succeed(TRUE) ELSE Fail(files, touched)
    /\ UNCHANGED <<dirs, taskVars, usage, orphans>>
    /\ Elsewhere

\* An exception leaves execute and the loop: TimeoutExpired or FileNotFoundError of
\* a command, an error of the call.  Nothing is undone and nothing is saved.
Raise ==
    /\ place \in {"call", "actions", "checks"}
    /\ place' = "raised"
    /\ UNCHANGED <<files, dirs, ledger, taskVars, usage, orphans>>
    /\ Elsewhere

\* The loop is over and the command saves the ledger.
Return ==
    /\ place = "drive"
    /\ \A t \in Tasks : status[t] # "pending"
    /\ place' = "done"
    /\ saved' = [status |-> status, edited |-> edited, blockers |-> blockers]
    /\ UNCHANGED <<executor, files, dirs, ledger, taskVars, usage, orphans, head, runs>>

\* The touched_paths of the commit event: what the log says was edited.
commit_paths == {resolve(e[2]) : e \in edited}

\* land: commit_all adds everything that changed.  It asks for changes only; that the
\* run was reconciled is asked by `run --land', not by Engine.land.
Land ==
    /\ place = "done"
    /\ tree(files) # head
    /\ head' = tree(files)
    /\ UNCHANGED <<executor, files, dirs, ledger, saved, place, taskVars, usage, orphans,
                   runs>>

Next ==
    \/ Run
    \/ Resume
    \/ \E b \in saved.blockers : Override(b)
    \/ \E t \in Tasks : Execute(t)
    \/ \E p \in Paths : RuntimeWrites(p) \/ Write(p)
    \/ \E u \in Uses, good \in BOOLEAN : CallReturns(u, good)
    \/ CallTimesOut
    \/ \E o \in orphans : OrphanEnds(o) \/ \E p \in Paths : OrphanWrites(o, p)
    \/ \E ok \in BOOLEAN, effect \in CommandEffects : RunCommand(ok, effect)
    \/ \E checks \in BOOLEAN : ActionsDone(checks)
    \/ \E passed \in BOOLEAN : RunChecks(passed)
    \/ Raise
    \/ Return
    \/ Land

Spec == Init /\ [][Next]_vars

-----------------------------------------------------------------------------
(* Properties.                                                             *)

Statuses == {"pending", "in_progress", "completed", "blocked"}
Contents == {Absent, Original, Foreign} \cup Tasks \X (1 .. MaxRuns)

\* The type of the state.
TypeOK ==
    /\ executor \in Executors
    /\ files \in [Locations -> Contents]
    /\ status \in [Tasks -> Statuses]
    /\ edited \subseteq Tasks \X Paths
    /\ blockers \subseteq Tasks \X (1 .. MaxRuns)
    /\ place \in Places
    /\ cur \in Tasks \cup {NoTask}
    /\ touched \subseteq Paths
    /\ actions \in 0 .. MaxActions
    /\ usage.tokens \in Nat /\ usage.wall_s \in Nat
    /\ orphans \subseteq Tasks \X (1 .. MaxRuns)

\* A file that a write action wrote.
written(at) == files[at] \notin {Absent, Original, Foreign}

\* A place that is neither in the workspace nor above it.
Apart(at) == ~IsPrefix(Workspc, at) /\ ~IsPrefix(at, Workspc)

\* The links a path crosses lead to directories that are there, apart from the
\* workspace, and it does not go up again behind one: normpath takes a link's name back,
\* the operating system goes to the parent of where the link leads.
straight(path) ==
    \A n \in 1 .. Len(path.segs) : crosses(path, n) =>
        /\ Apart(walk(path)[n]) /\ \A m \in 0 .. n : walk(path)[m] \in Dirs
        /\ \A m \in n + 1 .. Len(path.segs) : path.segs[m] # ".."

\* The jail holds (classify_path and the realpath test of apply_write together) but for
\* links that lead nowhere, to another place of the workspace, or that are climbed out
\* of again: a file a write action wrote lies, where the operating system put it, under
\* one of the allowed roots, or at the end of a path that is not straight.  Of these the
\* realpath test, which stops at the deepest ancestor that exists, does not see the end,
\* whatever SECURITY_MODEL.md:85-87 says of a symlink in allowed_roots.
JailHolds ==
    \A at \in Locations : written(at) =>
        \/ \E r \in Roots : IsPrefix(resolve(root(r)), at)
        \/ \E p \in Paths : resolve(p) = at /\ ~straight(p)

\* When a task ends blocked, no file that its write actions wrote in this attempt is
\* left in the workspace: touched_paths holds all of them on every failure path, and
\* undo_writes finds every one by the path it was written with.
NoLeftovers ==
    \A t \in Tasks : status[t] = "blocked"
        => \A at \in Locations : inside(at) => files[at] # <<t, runs>>

\* A run spends at most one call more than its budget allows, however many tasks
\* it has: usage adds up over the tasks and is looked at before and after each call.
OvershootBounded ==
    /\ MaxTokens # NoLimit =>
           \/ usage.tokens <= MaxTokens
           \/ \E u \in Uses : usage.tokens <= MaxTokens + u.tokens
    /\ MaxWall # NoLimit => usage.wall_s <= 2 * MaxWall + 1

\* The commit a run lands describes itself: every file that a write action of the
\* run left in the tree is among the touched_paths of the commit event.
CommitDescribed ==
    \A t \in Tasks, at \in Locations :
        (place = "done" /\ head[at] = <<t, runs>>) => at \in commit_paths

\* After a call was given up, no task of the run completes: the deadline used up
\* the wall budget, so the tasks behind it are refused, do not share the workspace
\* with the abandoned worker, and the run cannot reconcile over its writes.
NothingAfterTimeout ==
    [][(\E o \in orphans : o[2] = runs)
          => \A t \in Tasks : status'[t] = "completed" => status[t] = "completed"]_vars

\* _reconcile allows it when no task is left and no blocker is open.
reconciled == blockers = {} /\ \A t \in Tasks : status[t] \notin {"pending", "in_progress"}

\* A run that reconciles has its work in the workspace: each path of a file_edited
\* event names a file.
ReconciledWorkPresent ==
    (place = "done" /\ reconciled) => \A e \in edited : files[resolve(e[2])] # Absent

-----------------------------------------------------------------------------
(* The inductive invariant behind the properties.                          *)

AtWork == {"call", "actions", "checks"}

\* A task is being executed between Execute and its outcome; a call is made within the
\* budget, and only scripts and models act through write actions.
Control ==
    /\ usage \in [tokens : Nat, wall_s : Nat]
    /\ saved \in [status : [Tasks -> Statuses], edited : SUBSET (Tasks \X Paths),
                 blockers : SUBSET (Tasks \X (1 .. MaxRuns))]
    /\ head \in [Locations -> Contents]
    /\ runs \in 0 .. MaxRuns /\ (place # "idle" => runs > 0)
    /\ place \in AtWork => cur \in Tasks /\ status[cur] = "in_progress"
    /\ place = "call" => executor # "scripted" /\ check(usage)
    /\ place \in {"actions", "checks"} => executor # "host"
    /\ place = "done" =>
           \A t \in Tasks : saved.status[t] = "completed" => status[t] = "completed"

\* A file in the workspace that a write action of this run wrote is recorded: in the log
\* when its task has completed, in `touched' as long as the task goes on.
Traced ==
    \A at \in Locations, t \in Tasks, r \in 1 .. MaxRuns : files[at] = <<t, r>> =>
        /\ r <= runs
        /\ (r = runs /\ inside(at)) =>
                      \/ status[t] = "completed" /\ at \in commit_paths
                      \/ /\ t = cur /\ status[t] = "in_progress"
                         /\ place \in {"actions", "checks", "raised"}
                         /\ \E p \in touched : resolve(p) = at

\* So is what the landing commit has of it.
HeadTraced ==
    \A at \in Locations, t \in Tasks, r \in 1 .. MaxRuns : head[at] = <<t, r>> =>
        r <= runs /\ (r = runs => at \in commit_paths)

\* Behind a call of this run that was given up there is no budget left.
Orphaned ==
    \A o \in orphans :
        /\ o[2] <= runs
        /\ o[2] = runs => /\ executor # "scripted" /\ exceeds(usage.wall_s, MaxWall)
                         /\ place \in {"drive", "done"}

WorkInv == TypeOK /\ Control /\ Traced /\ HeadTraced /\ Orphaned /\ OvershootBounded

\* No allowed root is a link, or reached through one.
RootsPlain == \A r \in Roots : \A n \in 1 .. Len(r) : ~crosses(root(r), n)
=============================================================================
