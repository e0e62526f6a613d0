-------------------------- MODULE WorkspaceProofs --------------------------
(***************************************************************************)
(* Theorems about Workspace, for every set of tasks, paths, roots, links,  *)
(* limits and bounds.  Where a path leads (resolve) is unfolded for the    *)
(* jail only: the other arguments hold whatever the operating system makes *)
(* of a path.                                                              *)
(***************************************************************************)
EXTENDS Workspace, SequenceTheorems, WellFoundedInduction, TLAPS

-----------------------------------------------------------------------------
(* The operators of the model.                                             *)

\* What a write action writes is none of the other contents.
LEMMA Written ==
    ASSUME NEW t, NEW r
    PROVE  <<t, r>> # Absent /\ <<t, r>> # Original /\ <<t, r>> # Foreign
  BY DEF Absent, Original, Foreign

\* put changes one location, the one its path leads to.
LEMMA PutIs ==
    ASSUME NEW fs \in [Locations -> Contents], NEW p \in Paths, NEW who \in Contents
    PROVE  /\ resolve(p) \in Locations
           /\ put(fs, p, who) \in [Locations -> Contents]
           /\ put(fs, p, who)[resolve(p)] = who
           /\ \A at \in Locations : at # resolve(p) => put(fs, p, who)[at] = fs[at]
  <1>1. resolve(p) \in Locations
    BY DEF Locations
  <1> HIDE DEF Locations
  <1> QED
    BY <1>1 DEF put

\* A file that a command or a runtime writes is recorded nowhere.
LEMMA ForeignIs ==
    ASSUME NEW fs \in [Locations -> Contents], NEW p \in Paths
    PROVE  /\ put(fs, p, Foreign) \in [Locations -> Contents]
           /\ \A at \in Locations :
                  put(fs, p, Foreign)[at] = fs[at] \/ put(fs, p, Foreign)[at] = Foreign
  <1>1. Foreign \in Contents
    BY DEF Contents
  <1>2. /\ put(fs, p, Foreign) \in [Locations -> Contents]
        /\ put(fs, p, Foreign)[resolve(p)] = Foreign
        /\ \A at \in Locations : at # resolve(p) => put(fs, p, Foreign)[at] = fs[at]
    BY <1>1, PutIs
  <1> QED
    BY <1>2

\* What a command leaves behind differs from the workspace it found in such files only.
LEMMA EffectsAre ==
    ASSUME files \in [Locations -> Contents], NEW effect \in CommandEffects
    PROVE  /\ effect[1] \in [Locations -> Contents]
           /\ \A at \in Locations : effect[1][at] = files[at] \/ effect[1][at] = Foreign
           /\ dirs \subseteq effect[2]
  <1>1. CASE effect = <<files, dirs>>
    BY <1>1
  <1>2. CASE effect # <<files, dirs>>
    <2>1. PICK p \in Paths : effect = <<put(files, p, Foreign), mkdirs(p)>>
      BY <1>2 DEF CommandEffects
    <2>2. effect[1] = put(files, p, Foreign) /\ dirs \subseteq effect[2]
      BY <2>1 DEF mkdirs
    <2> QED
      BY <2>2, ForeignIs
  <1> QED
    BY <1>1, <1>2

\* compensate removes files and does nothing else.  Under an executor that undoes, no
\* reported path leads to a file in the workspace any more.
LEMMA CompensateIs ==
    ASSUME NEW fs \in [Locations -> Contents], NEW ps \in SUBSET Paths
    PROVE  /\ compensate(fs, ps) \in [Locations -> Contents]
           /\ \A at \in Locations :
                  compensate(fs, ps)[at] = fs[at] \/ compensate(fs, ps)[at] = Absent
           /\ executor # "host" => \A at \in Locations :
                  (inside(at) /\ \E p \in ps : resolve(p) = at)
                      => compensate(fs, ps)[at] = Absent
  <1>1. Absent \in Contents
    BY DEF Contents
  <1> QED
    BY <1>1 DEF compensate, undo_writes

\* A commit sees what is in the workspace.
LEMMA TreeIs ==
    ASSUME NEW fs \in [Locations -> Contents]
    PROVE  /\ tree(fs) \in [Locations -> Contents]
           /\ \A at \in Locations :
                  tree(fs)[at] = Absent \/ (inside(at) /\ tree(fs)[at] = fs[at])
  <1>1. Absent \in Contents
    BY DEF Contents
  <1> HIDE DEF Locations
  <1> QED
    BY <1>1 DEF tree

\* What one call adds to what was used stays a pair of numbers.
LEMMA AddIs ==
    ASSUME NEW used \in [tokens : Nat, wall_s : Nat], NEW u \in Uses
    PROVE  /\ add(used, u) \in [tokens : Nat, wall_s : Nat]
           /\ add(used, u).tokens = used.tokens + u.tokens
           /\ add(used, u).wall_s = used.wall_s + u.wall_s
           /\ u.tokens \in Nat /\ u.wall_s \in Nat
  BY WorkspaceAssumption DEF add

\* The time of a call that was given up is more than the wall budget.
LEMMA ChargeIs ==
    ASSUME NEW used \in [tokens : Nat, wall_s : Nat], MaxWall # NoLimit
    PROVE  /\ charge_deadline(used) \in [tokens : Nat, wall_s : Nat]
           /\ charge_deadline(used).tokens = used.tokens
           /\ charge_deadline(used).wall_s = used.wall_s + MaxWall + 1
           /\ exceeds(charge_deadline(used).wall_s, MaxWall)
           /\ MaxWall \in Nat
  BY WorkspaceAssumption DEF charge_deadline, exceeds, NoLimit

-----------------------------------------------------------------------------
(* What the steps share.                                                   *)

\* A log that only grows still describes the landing commit.
LEMMA HeadKeeps ==
    ASSUME HeadTraced, edited \subseteq edited', UNCHANGED <<head, runs>>
    PROVE  HeadTraced'
  <1>1. commit_paths \subseteq commit_paths'
    BY DEF commit_paths
  <1> QED
    BY <1>1 DEF HeadTraced

\* While a task is being executed no call of this run has been given up, so whatever
\* becomes of the task leaves the abandoned calls as they were.
LEMMA OrphansKeep ==
    ASSUME Orphaned, place \in AtWork, orphans' \subseteq orphans, UNCHANGED runs
    PROVE  Orphaned'
  BY DEF Orphaned, AtWork

\* A failed task leaves no file of its own: between the actions its result reports
\* all it touched, and during a call it has written none.
LEMMA FailKeeps ==
    ASSUME WorkInv, place \in AtWork,
           NEW fs \in [Locations -> Contents], NEW reported \in SUBSET Paths,
           Fail(fs, reported), UNCHANGED <<cur, head, runs>>,
           \A at \in Locations : fs[at] = files[at] \/ fs[at] = Foreign,
           place # "call" => reported = touched
    PROVE  /\ files' \in [Locations -> Contents] /\ status' \in [Tasks -> Statuses]
           /\ edited' \subseteq Tasks \X Paths /\ place' = "drive"
           /\ blockers' \subseteq Tasks \X (1 .. MaxRuns)
           /\ Traced' /\ HeadTraced'
  <1>1. cur \in Tasks /\ status[cur] = "in_progress" /\ status \in [Tasks -> Statuses]
    BY DEF WorkInv, Control, TypeOK
  <1>0. blockers' \subseteq Tasks \X (1 .. MaxRuns)
    <2>1. /\ blockers \subseteq Tasks \X (1 .. MaxRuns) /\ cur \in Tasks /\ runs \in 1 .. MaxRuns
          /\ blockers' = blockers \cup {<<cur, runs>>}
      BY <1>1 DEF WorkInv, TypeOK, Control, AtWork, Fail
    <2> QED
      BY <2>1
  <1>2. status' \in [Tasks -> Statuses] /\ status'[cur] = "blocked"
        /\ \A t \in Tasks : t # cur => status'[t] = status[t]
    BY <1>1 DEF Fail, Statuses
  <1>3. files' \in [Locations -> Contents]
        /\ \A at \in Locations : files'[at] = fs[at] \/ files'[at] = Absent
    BY CompensateIs DEF Fail
  <1>4. UNCHANGED edited /\ place' = "drive" /\ edited' \subseteq Tasks \X Paths
    BY DEF Fail, WorkInv, TypeOK
  <1>5. Traced'
    <2> SUFFICES ASSUME NEW at \in Locations, NEW t \in Tasks, NEW r \in 1 .. MaxRuns,
                        files'[at] = <<t, r>>
                 PROVE  r <= runs /\ (r = runs /\ inside(at) =>
                                         status'[t] = "completed" /\ at \in commit_paths)
      BY <1>4 DEF Traced, commit_paths
    <2>1. files[at] = <<t, r>>
      BY <1>3, Written
    <2>2. r <= runs
      BY <2>1 DEF WorkInv, Traced
    <2>3. ASSUME r = runs, inside(at)
          PROVE  status'[t] = "completed" /\ at \in commit_paths
      <3>1. CASE status[t] = "completed" /\ at \in commit_paths
        BY <3>1, <1>1, <1>2
      <3>2. CASE /\ t = cur /\ place \in {"actions", "checks", "raised"}
                 /\ \E p \in touched : resolve(p) = at
        <4>1. place # "call" /\ executor # "host" /\ reported = touched
          BY <3>2 DEF WorkInv, Control, AtWork
        <4>2. files'[at] = Absent
          BY <3>2, <2>3, <4>1, CompensateIs DEF Fail
        <4> QED
          BY <4>2, Written
      <3> QED
        BY <2>1, <2>3, <3>1, <3>2 DEF WorkInv, Traced
    <2> QED
      BY <2>2, <2>3
  <1>6. HeadTraced'
    BY <1>4, HeadKeeps DEF WorkInv
  <1> QED
    BY <1>0, <1>2, <1>3, <1>4, <1>5, <1>6

\* A task that succeeds has every path it touched in the log, with or without
\* evidence.
LEMMA SucceedKeeps ==
    ASSUME WorkInv, place \in AtWork, NEW evidence, Succeed(evidence),
           UNCHANGED <<cur, head, runs>>
    PROVE  /\ files' \in [Locations -> Contents] /\ status' \in [Tasks -> Statuses]
           /\ edited' \subseteq Tasks \X Paths /\ place' = "drive"
           /\ blockers' \subseteq Tasks \X (1 .. MaxRuns)
           /\ Traced' /\ HeadTraced'
  <1>1. /\ cur \in Tasks /\ status[cur] = "in_progress" /\ status \in [Tasks -> Statuses]
        /\ edited \subseteq Tasks \X Paths /\ touched \subseteq Paths
        /\ files \in [Locations -> Contents] /\ blockers \subseteq Tasks \X (1 .. MaxRuns)
    BY DEF WorkInv, Control, TypeOK
  <1>2. status' \in [Tasks -> Statuses] /\ status'[cur] = "completed"
        /\ \A t \in Tasks : t # cur => status'[t] = status[t]
    BY <1>1 DEF Succeed, Statuses
  <1>3. /\ edited \subseteq edited' /\ edited' \subseteq Tasks \X Paths
        /\ \A p \in touched : <<cur, p>> \in edited'
        /\ UNCHANGED <<files, blockers>> /\ place' = "drive"
    BY <1>1 DEF Succeed
  <1>4. commit_paths \subseteq commit_paths'
    BY <1>3 DEF commit_paths
  <1>5. \A p \in touched : resolve(p) \in commit_paths'
    <2> SUFFICES ASSUME NEW p \in touched PROVE resolve(p) \in commit_paths'
      OBVIOUS
    <2>1. PICK e : e = <<cur, p>>
      OBVIOUS
    <2>2. e \in edited' /\ e[2] = p
      BY <1>3, <2>1
    <2> QED
      BY <2>2 DEF commit_paths
  <1>6. Traced'
    <2> SUFFICES ASSUME NEW at \in Locations, NEW t \in Tasks, NEW r \in 1 .. MaxRuns,
                        files[at] = <<t, r>>
                 PROVE  r <= runs /\ (r = runs /\ inside(at) =>
                                         status'[t] = "completed" /\ at \in commit_paths')
      BY <1>3 DEF Traced
    <2> QED
      BY <1>1, <1>2, <1>4, <1>5 DEF WorkInv, Traced
  <1>7. HeadTraced'
    BY <1>3, HeadKeeps DEF WorkInv
  <1> QED
    BY <1>1, <1>2, <1>3, <1>6, <1>7

\* The loop is back after the outcome of a task: nothing else of the invariant is
\* left to show.
LEMMA BackInLoop ==
    ASSUME WorkInv, place \in AtWork, place' = "drive",
           files' \in [Locations -> Contents], status' \in [Tasks -> Statuses],
           edited' \subseteq Tasks \X Paths, Traced', HeadTraced',
           blockers' \subseteq Tasks \X (1 .. MaxRuns),
           usage' \in [tokens : Nat, wall_s : Nat], OvershootBounded', Orphaned',
           orphans' \subseteq Tasks \X (1 .. MaxRuns),
           actions' \in 0 .. MaxActions, UNCHANGED <<cur, touched>>, Elsewhere
    PROVE  WorkInv'
  <1>1. TypeOK'
    BY DEF WorkInv, TypeOK, Places, Elsewhere
  <1>2. Control'
    BY DEF WorkInv, Control, AtWork, Elsewhere
  <1> QED
    BY <1>1, <1>2 DEF WorkInv

\* The number of actions stays within its bound.
LEMMA OneMoreAction ==
    ASSUME WorkInv, actions < MaxActions
    PROVE  actions + 1 \in 0 .. MaxActions
  BY WorkspaceAssumption DEF WorkInv, TypeOK

\* A task between two of its actions has written what it touched.
LEMMA TracedKeeps ==
    ASSUME WorkInv, UNCHANGED <<status, edited, cur, runs>>, touched \subseteq touched',
           place' = place \/ place' \in {"actions", "checks", "raised"},
           \A at \in Locations : files'[at] = files[at] \/ files'[at] = Foreign
    PROVE  Traced'
  <1> SUFFICES ASSUME NEW at \in Locations, NEW t \in Tasks, NEW r \in 1 .. MaxRuns,
                      files'[at] = <<t, r>>
               PROVE  /\ r <= runs
                      /\ (r = runs /\ inside(at)) =>
                             \/ status[t] = "completed" /\ at \in commit_paths
                             \/ /\ t = cur /\ status[t] = "in_progress"
                                /\ place' \in {"actions", "checks", "raised"}
                                /\ \E p \in touched' : resolve(p) = at
    BY DEF Traced, commit_paths
  <1>1. files[at] = <<t, r>>
    BY Written
  <1> QED
    BY <1>1 DEF WorkInv, Traced

-----------------------------------------------------------------------------
(* The actions.                                                            *)

\* A command starts a run of its own: no file is of this run yet.
LEMMA CommandKeeps ==
    ASSUME WorkInv, NEW state, Command(state),
           state.status \in [Tasks -> Statuses], state.edited \subseteq Tasks \X Paths,
           state.blockers \subseteq Tasks \X (1 .. MaxRuns)
    PROVE  WorkInv'
  <1>1. runs' = runs + 1 /\ runs' \in 0 .. MaxRuns /\ runs \in Nat
    BY WorkspaceAssumption DEF WorkInv, Control, Command
  <1>2. usage' = [tokens |-> 0, wall_s |-> 0] /\ place' = "drive"
        /\ UNCHANGED <<executor, files, saved, orphans, head>>
        /\ cur' = NoTask /\ touched' = {} /\ actions' = 0
        /\ status' = state.status /\ edited' = state.edited /\ blockers' = state.blockers
    BY DEF Command
  <1>3. TypeOK'
    BY <1>2, WorkspaceAssumption DEF WorkInv, TypeOK, Places
  <1>4. Control'
    BY <1>1, <1>2 DEF WorkInv, Control, AtWork
  <1>5. Traced'
    BY <1>1, <1>2 DEF WorkInv, Traced
  <1>6. HeadTraced'
    BY <1>1, <1>2 DEF WorkInv, HeadTraced
  <1>7. Orphaned'
    <2>1. \A o \in orphans : o[2] \in 1 .. MaxRuns
      BY DEF WorkInv, TypeOK
    <2> QED
      BY <1>1, <1>2, <2>1 DEF WorkInv, Orphaned
  <1>8. OvershootBounded'
    BY <1>2, WorkspaceAssumption DEF OvershootBounded, NoLimit
  <1> QED
    BY <1>3, <1>4, <1>5, <1>6, <1>7, <1>8 DEF WorkInv

\* run.
LEMMA RunKeeps == ASSUME WorkInv, Run PROVE WorkInv'
  <1> PICK state : state = NewLedger
    OBVIOUS
  <1>1. Command(state)
    BY DEF Run
  <1>2. /\ state.status \in [Tasks -> Statuses] /\ state.edited \subseteq Tasks \X Paths
        /\ state.blockers \subseteq Tasks \X (1 .. MaxRuns)
    BY DEF NewLedger, Statuses
  <1> QED
    BY <1>1, <1>2, CommandKeeps

\* resume.
LEMMA ResumeKeeps == ASSUME WorkInv, Resume PROVE WorkInv'
  <1> PICK state : state = [saved EXCEPT !.status =
           [t \in Tasks |-> IF saved.status[t] = "completed" THEN "completed" ELSE "pending"]]
    OBVIOUS
  <1>1. Command(state)
    BY DEF Resume
  <1>2. saved \in [status : [Tasks -> Statuses], edited : SUBSET (Tasks \X Paths),
                   blockers : SUBSET (Tasks \X (1 .. MaxRuns))]
    BY DEF WorkInv, Control
  <1>3. /\ state.status \in [Tasks -> Statuses] /\ state.edited \subseteq Tasks \X Paths
        /\ state.blockers \subseteq Tasks \X (1 .. MaxRuns)
    BY <1>2 DEF Statuses
  <1> QED
    BY <1>1, <1>3, CommandKeeps

\* An override changes the stored ledger only, and completes no task there.
LEMMA OverrideKeeps == ASSUME WorkInv, NEW b, Override(b) PROVE WorkInv'
  <1>1. /\ b \in saved.blockers
        /\ saved' = [saved EXCEPT !.blockers = @ \ {b}, !.status[b[1]] = "pending"]
        /\ UNCHANGED <<executor, files, status, edited, blockers, place, cur, touched, actions,
                       usage, orphans, head, runs>>
    BY DEF Override, ledger, taskVars
  <1>2. saved \in [status : [Tasks -> Statuses], edited : SUBSET (Tasks \X Paths),
                   blockers : SUBSET (Tasks \X (1 .. MaxRuns))]
    BY DEF WorkInv, Control
  <1>3. /\ saved' \in [status : [Tasks -> Statuses], edited : SUBSET (Tasks \X Paths),
                       blockers : SUBSET (Tasks \X (1 .. MaxRuns))]
        /\ \A t \in Tasks : saved'.status[t] = "completed" => saved.status[t] = "completed"
    BY <1>1, <1>2 DEF Statuses
  <1>4. TypeOK'
    BY <1>1 DEF WorkInv, TypeOK
  <1>5. Control'
    BY <1>1, <1>3 DEF WorkInv, Control, check, exceeds
  <1>6. Traced' /\ HeadTraced'
    BY <1>1 DEF WorkInv, Traced, HeadTraced, commit_paths
  <1>7. Orphaned' /\ OvershootBounded'
    BY <1>1 DEF WorkInv, Orphaned, OvershootBounded, exceeds
  <1> QED
    BY <1>4, <1>5, <1>6, <1>7 DEF WorkInv

\* The loop reaches a task, which has no file of this run yet.  Behind a call that was
\* given up it is refused.
LEMMA ExecuteKeeps ==
    ASSUME WorkInv, NEW t \in Tasks, Execute(t)
    PROVE  WorkInv'
  <1>1. /\ place = "drive" /\ status[t] = "pending" /\ status \in [Tasks -> Statuses]
        /\ cur' = t /\ touched' = {} /\ actions' = 0
        /\ UNCHANGED <<files, edited, usage, orphans, executor, saved, head, runs>>
    BY DEF Execute, Elsewhere, WorkInv, TypeOK
  <1>2. /\ status' \in [Tasks -> Statuses]
        /\ \A u \in Tasks : u # t => status'[u] = status[u]
        /\ \/ /\ executor # "scripted" /\ ~check(usage)
              /\ status'[t] = "blocked" /\ place' = "drive"
              /\ blockers' = blockers \cup {<<t, runs>>}
           \/ /\ executor = "scripted" \/ check(usage)
              /\ status'[t] = "in_progress"
              /\ place' = IF executor = "scripted" THEN "actions" ELSE "call"
              /\ UNCHANGED blockers
    BY <1>1 DEF Execute, refuse_before, Statuses
  <1>0. blockers' \subseteq Tasks \X (1 .. MaxRuns)
    <2>1. blockers \subseteq Tasks \X (1 .. MaxRuns) /\ runs \in 1 .. MaxRuns
      BY <1>1 DEF WorkInv, TypeOK, Control
    <2> QED
      BY <2>1, <1>2
  <1>3. TypeOK'
    BY <1>0, <1>1, <1>2, WorkspaceAssumption DEF WorkInv, TypeOK, Places
  <1>4. Control'
    BY <1>1, <1>2 DEF WorkInv, Control, AtWork, check
  <1>5. Traced'
    <2>1. commit_paths' = commit_paths
      BY <1>1 DEF commit_paths
    <2> SUFFICES ASSUME NEW at \in Locations, NEW u \in Tasks, NEW r \in 1 .. MaxRuns,
                        files[at] = <<u, r>>
                 PROVE  r <= runs /\ (r = runs /\ inside(at) =>
                                         status'[u] = "completed" /\ at \in commit_paths)
      BY <1>1, <2>1 DEF Traced
    <2>2. /\ r <= runs
          /\ r = runs /\ inside(at) => status[u] = "completed" /\ at \in commit_paths
      BY <1>1 DEF WorkInv, Traced
    <2> QED
      BY <1>1, <1>2, <2>2
  <1>6. HeadTraced'
    BY <1>1, HeadKeeps DEF WorkInv
  <1>7. Orphaned'
    BY <1>1, <1>2 DEF WorkInv, Orphaned, check
  <1>8. OvershootBounded'
    BY <1>1 DEF WorkInv, OvershootBounded
  <1> QED
    BY <1>3, <1>4, <1>5, <1>6, <1>7, <1>8 DEF WorkInv

\* A host runtime writes no file as a task.
LEMMA RuntimeWritesKeeps ==
    ASSUME WorkInv, NEW p \in Paths, RuntimeWrites(p)
    PROVE  WorkInv'
  <1>1. /\ place = "call" /\ files' = put(files, p, Foreign) /\ touched' = touched \cup {p}
        /\ actions < MaxActions /\ actions' = actions + 1
        /\ UNCHANGED <<status, edited, blockers, place, cur, usage, orphans>> /\ Elsewhere
    BY DEF RuntimeWrites, ledger
  <1>2. files \in [Locations -> Contents]
    BY DEF WorkInv, TypeOK
  <1>3. files' \in [Locations -> Contents]
        /\ \A at \in Locations : files'[at] = files[at] \/ files'[at] = Foreign
    BY <1>1, <1>2, ForeignIs
  <1>4. TypeOK'
    BY <1>1, <1>3, OneMoreAction DEF WorkInv, TypeOK, Elsewhere
  <1>5. Control'
    BY <1>1 DEF WorkInv, Control, Elsewhere, check
  <1>6. Traced'
    BY <1>1, <1>3, TracedKeeps DEF Elsewhere
  <1>7. HeadTraced' /\ Orphaned'
    BY <1>1, HeadKeeps, OrphansKeep DEF WorkInv, Elsewhere, AtWork
  <1>8. OvershootBounded'
    BY <1>1 DEF WorkInv, OvershootBounded
  <1> QED
    BY <1>4, <1>5, <1>6, <1>7, <1>8 DEF WorkInv

\* A call that returns has spent within the budget until now, so at most the whole of
\* it and one call more.
LEMMA CallReturnsKeeps ==
    ASSUME WorkInv, NEW u \in Uses, NEW good \in BOOLEAN, CallReturns(u, good)
    PROVE  WorkInv'
  <1>1. /\ place = "call" /\ ~exceeds(u.wall_s, MaxWall) /\ usage' = add(usage, u)
        /\ UNCHANGED <<cur, touched, actions, orphans>> /\ Elsewhere
    BY DEF CallReturns, taskVars
  <1>2. /\ place \in AtWork /\ check(usage) /\ usage \in [tokens : Nat, wall_s : Nat]
        /\ files \in [Locations -> Contents] /\ touched \subseteq Paths
    BY <1>1 DEF WorkInv, Control, TypeOK, AtWork
  <1>3. UNCHANGED <<cur, head, runs>> /\ HeadTraced /\ Orphaned
    BY <1>1 DEF Elsewhere, WorkInv
  <1>4. usage' \in [tokens : Nat, wall_s : Nat]
    BY <1>1, <1>2, AddIs
  <1>5. OvershootBounded'
    <2>1. MaxTokens # NoLimit => usage'.tokens <= MaxTokens + u.tokens
      BY <1>1, <1>2, AddIs, WorkspaceAssumption DEF check, exceeds
    <2>2. MaxWall # NoLimit => usage'.wall_s <= 2 * MaxWall + 1
      BY <1>1, <1>2, AddIs, WorkspaceAssumption DEF check, exceeds
    <2> QED
      BY <2>1, <2>2 DEF OvershootBounded
  <1>6. Orphaned' /\ orphans' \subseteq Tasks \X (1 .. MaxRuns) /\ actions' \in 0 .. MaxActions
    BY <1>1, <1>2, <1>3, OrphansKeep DEF WorkInv, TypeOK
  <1>7. CASE Fail(files, {}) \/ Fail(files, touched) \/ Succeed(TRUE)
    <2>1. /\ files' \in [Locations -> Contents] /\ status' \in [Tasks -> Statuses]
          /\ edited' \subseteq Tasks \X Paths /\ place' = "drive"
          /\ blockers' \subseteq Tasks \X (1 .. MaxRuns)
          /\ Traced' /\ HeadTraced'
      <3>1. CASE Fail(files, {})
        <4> PICK none : none = {}
          OBVIOUS
        <4>1. Fail(files, none) /\ none \in SUBSET Paths
          BY <3>1
        <4> QED
          BY <4>1, <1>1, <1>2, <1>3, FailKeeps
      <3>2. CASE Fail(files, touched)
        BY <3>2, <1>1, <1>2, <1>3, FailKeeps
      <3>3. CASE Succeed(TRUE)
        BY <3>3, <1>2, <1>3, SucceedKeeps
      <3> QED
        BY <1>7, <3>1, <3>2, <3>3
    <2> QED
      BY <2>1, <1>1, <1>2, <1>4, <1>5, <1>6, BackInLoop
  <1>8. CASE /\ check(usage') /\ executor = "api" /\ place' = "actions"
             /\ UNCHANGED <<files, status, edited, blockers>>
    <2>1. TypeOK'
      BY <1>8, <1>1, <1>4 DEF WorkInv, TypeOK, Places, Elsewhere
    <2>2. Control'
      BY <1>8, <1>1, <1>4 DEF WorkInv, Control, AtWork, Elsewhere
    <2>3. Traced' /\ HeadTraced'
      BY <1>8, <1>1, <1>3, TracedKeeps, HeadKeeps
    <2> QED
      BY <2>1, <2>2, <2>3, <1>5, <1>6 DEF WorkInv
  <1> QED
    BY <1>7, <1>8 DEF CallReturns, ledger

\* A call that was given up leaves no budget behind.
LEMMA CallTimesOutKeeps == ASSUME WorkInv, CallTimesOut PROVE WorkInv'
  <1>1. /\ place = "call" /\ MaxWall # NoLimit /\ usage' = charge_deadline(usage)
        /\ orphans' = orphans \cup {<<cur, runs>>} /\ Fail(files, {})
        /\ UNCHANGED <<cur, touched, actions>> /\ Elsewhere
    BY DEF CallTimesOut, taskVars
  <1>2. /\ place \in AtWork /\ check(usage) /\ usage \in [tokens : Nat, wall_s : Nat]
        /\ files \in [Locations -> Contents] /\ executor # "scripted"
        /\ runs \in 1 .. MaxRuns /\ cur \in Tasks /\ orphans \subseteq Tasks \X (1 .. MaxRuns)
    BY <1>1 DEF WorkInv, Control, TypeOK, AtWork
  <1>3. UNCHANGED <<cur, head, runs, executor>> /\ Orphaned
    BY <1>1 DEF Elsewhere, WorkInv
  <1>4. /\ files' \in [Locations -> Contents] /\ status' \in [Tasks -> Statuses]
        /\ edited' \subseteq Tasks \X Paths /\ place' = "drive"
        /\ blockers' \subseteq Tasks \X (1 .. MaxRuns)
        /\ Traced' /\ HeadTraced'
    <2> PICK none : none = {}
      OBVIOUS
    <2>1. Fail(files, none) /\ none \in SUBSET Paths
      BY <1>1
    <2> QED
      BY <2>1, <1>1, <1>2, <1>3, FailKeeps
  <1>5. /\ usage' \in [tokens : Nat, wall_s : Nat] /\ exceeds(usage'.wall_s, MaxWall)
        /\ usage'.tokens = usage.tokens /\ usage'.wall_s = usage.wall_s + MaxWall + 1
        /\ MaxWall \in Nat
    BY <1>1, <1>2, ChargeIs
  <1>6. OvershootBounded'
    BY <1>1, <1>2, <1>5 DEF OvershootBounded, WorkInv, check, exceeds
  <1>7. Orphaned'
    <2>1. \A o \in orphans' : o \in orphans \/ o = <<cur, runs>>
      BY <1>1
    <2> SUFFICES ASSUME NEW o \in orphans'
                 PROVE  o[2] <= runs
      BY <1>2, <1>3, <1>4, <1>5 DEF Orphaned
    <2> QED
      BY <2>1, <1>2, <1>3 DEF Orphaned
  <1>8. orphans' \subseteq Tasks \X (1 .. MaxRuns) /\ actions' \in 0 .. MaxActions
    BY <1>1, <1>2 DEF WorkInv, TypeOK
  <1> QED
    BY <1>1, <1>2, <1>4, <1>5, <1>6, <1>7, <1>8, BackInLoop

\* An abandoned runtime writes no file as a task.
LEMMA OrphanWritesKeeps ==
    ASSUME WorkInv, NEW o, NEW p \in Paths, OrphanWrites(o, p)
    PROVE  WorkInv'
  <1>1. /\ files' = put(files, p, Foreign)
        /\ UNCHANGED <<status, edited, blockers, place, cur, touched, actions, usage, orphans>>
        /\ Elsewhere
    BY DEF OrphanWrites, ledger, taskVars
  <1>2. files \in [Locations -> Contents]
    BY DEF WorkInv, TypeOK
  <1>3. files' \in [Locations -> Contents]
        /\ \A at \in Locations : files'[at] = files[at] \/ files'[at] = Foreign
    BY <1>1, <1>2, ForeignIs
  <1>4. TypeOK'
    BY <1>1, <1>3 DEF WorkInv, TypeOK, Elsewhere
  <1>5. Control'
    BY <1>1 DEF WorkInv, Control, Elsewhere, check
  <1>6. Traced' /\ HeadTraced'
    BY <1>1, <1>3, TracedKeeps, HeadKeeps DEF WorkInv, Elsewhere
  <1>7. Orphaned' /\ OvershootBounded'
    BY <1>1 DEF WorkInv, Orphaned, OvershootBounded, Elsewhere, exceeds
  <1> QED
    BY <1>4, <1>5, <1>6, <1>7 DEF WorkInv

\* An abandoned call that ends leaves the others.
LEMMA OrphanEndsKeeps ==
    ASSUME WorkInv, NEW o, OrphanEnds(o)
    PROVE  WorkInv'
  <1>1. /\ orphans' \subseteq orphans
        /\ UNCHANGED <<files, status, edited, blockers, place, cur, touched, actions, usage>>
        /\ Elsewhere
    BY DEF OrphanEnds, ledger, taskVars
  <1>2. TypeOK'
    BY <1>1 DEF WorkInv, TypeOK, Elsewhere
  <1>3. Control'
    BY <1>1 DEF WorkInv, Control, Elsewhere, check
  <1>4. Traced' /\ HeadTraced'
    BY <1>1, TracedKeeps, HeadKeeps DEF WorkInv, Elsewhere
  <1>5. Orphaned' /\ OvershootBounded'
    BY <1>1 DEF WorkInv, Orphaned, OvershootBounded, Elsewhere, exceeds
  <1> QED
    BY <1>2, <1>3, <1>4, <1>5 DEF WorkInv

\* A write action records its path as it writes the file; one that the jail refuses
\* ends the task.
LEMMA WriteKeeps ==
    ASSUME WorkInv, NEW p \in Paths, Write(p)
    PROVE  WorkInv'
  <1>1. /\ place = "actions" /\ actions < MaxActions /\ actions' = actions + 1
        /\ UNCHANGED <<cur, usage, orphans>> /\ Elsewhere
    BY DEF Write
  <1>2. /\ place \in AtWork /\ files \in [Locations -> Contents] /\ touched \subseteq Paths
        /\ cur \in Tasks /\ status[cur] = "in_progress" /\ runs \in 1 .. MaxRuns
        /\ usage \in [tokens : Nat, wall_s : Nat]
    BY <1>1 DEF WorkInv, Control, TypeOK, AtWork
  <1>3. UNCHANGED <<cur, head, runs>> /\ HeadTraced /\ Orphaned
    BY <1>1 DEF Elsewhere, WorkInv
  <1>4. /\ actions' \in 0 .. MaxActions /\ Orphaned' /\ OvershootBounded'
        /\ orphans' \subseteq Tasks \X (1 .. MaxRuns)
    BY <1>1, <1>2, <1>3, OneMoreAction, OrphansKeep DEF WorkInv, OvershootBounded, TypeOK
  <1>5. CASE may_write(p) /\ writable(p)
    <2>1. /\ files' = put(files, p, <<cur, runs>>) /\ touched' = touched \cup {p}
          /\ UNCHANGED <<status, edited, blockers, place>>
      BY <1>5 DEF Write, ledger
    <2> PICK who : who = <<cur, runs>>
      OBVIOUS
    <2>2. who \in Contents
      BY <1>2 DEF Contents
    <2>3. /\ files' \in [Locations -> Contents] /\ files'[resolve(p)] = who
          /\ \A at \in Locations : at # resolve(p) => files'[at] = files[at]
      <3>1. /\ put(files, p, who) \in [Locations -> Contents]
            /\ put(files, p, who)[resolve(p)] = who
            /\ \A at \in Locations : at # resolve(p) => put(files, p, who)[at] = files[at]
        <4>1. files \in [Locations -> Contents]
          BY <1>2
        <4> QED
          BY <2>2, <4>1, PutIs, ZenonT(30)
      <3>2. files' = put(files, p, who)
        BY <2>1
      <3> QED
        BY <3>1, <3>2
    <2>4. TypeOK'
      BY <2>1, <2>3, <1>1, <1>4 DEF WorkInv, TypeOK, Elsewhere
    <2>5. Control'
      BY <2>1, <1>1 DEF WorkInv, Control, AtWork, Elsewhere
    <2>6. Traced'
      <3>1. commit_paths' = commit_paths
        BY <2>1 DEF commit_paths
      <3> SUFFICES ASSUME NEW at \in Locations, NEW t \in Tasks, NEW r \in 1 .. MaxRuns,
                          files'[at] = <<t, r>>
                   PROVE  /\ r <= runs
                          /\ (r = runs /\ inside(at)) =>
                                 \/ status[t] = "completed" /\ at \in commit_paths
                                 \/ /\ t = cur /\ status[t] = "in_progress"
                                    /\ \E q \in touched' : resolve(q) = at
        BY <3>1, <2>1, <1>1, <1>3 DEF Traced
      <3>2. CASE at = resolve(p)
        <4>1. t = cur /\ r = runs
          BY <3>2, <2>3
        <4> QED
          BY <4>1, <3>2, <2>1, <1>2
      <3>3. CASE at # resolve(p)
        BY <3>3, <2>1, <2>3 DEF WorkInv, Traced
      <3> QED
        BY <3>2, <3>3
    <2>7. HeadTraced'
      BY <2>1, <1>3, HeadKeeps
    <2> QED
      BY <2>4, <2>5, <2>6, <2>7, <1>4 DEF WorkInv
  <1>6. CASE ~may_write(p)
    <2>1. Fail(files, touched) /\ UNCHANGED touched
      BY <1>6 DEF Write
    <2>2. /\ files' \in [Locations -> Contents] /\ status' \in [Tasks -> Statuses]
          /\ edited' \subseteq Tasks \X Paths /\ place' = "drive"
          /\ blockers' \subseteq Tasks \X (1 .. MaxRuns)
          /\ Traced' /\ HeadTraced'
      BY <2>1, <1>2, <1>3, FailKeeps
    <2> QED
      BY <2>1, <2>2, <1>1, <1>2, <1>4, BackInLoop
  <1>7. CASE may_write(p) /\ ~writable(p)
    <2>1. place' = "raised" /\ UNCHANGED <<files, status, edited, blockers, touched>>
      BY <1>7 DEF Write, ledger
    <2>2. TypeOK'
      BY <2>1, <1>1, <1>4 DEF WorkInv, TypeOK, Places, Elsewhere
    <2>3. Control'
      BY <2>1, <1>1 DEF WorkInv, Control, AtWork, Elsewhere
    <2>4. Traced' /\ HeadTraced'
      BY <2>1, <1>1, <1>3, TracedKeeps, HeadKeeps
    <2> QED
      BY <2>2, <2>3, <2>4, <1>4 DEF WorkInv
  <1> QED
    BY <1>5, <1>6, <1>7

\* A command action that fails ends the task like a refused write.
LEMMA RunCommandKeeps ==
    ASSUME WorkInv, NEW ok \in BOOLEAN, NEW effect \in CommandEffects,
           RunCommand(ok, effect)
    PROVE  WorkInv'
  <1> PICK fs : fs = effect[1]
    OBVIOUS
  <1>1. /\ place = "actions" /\ actions < MaxActions /\ actions' = actions + 1
        /\ UNCHANGED <<cur, touched, usage, orphans>> /\ Elsewhere
    BY DEF RunCommand
  <1>2. /\ place \in AtWork /\ files \in [Locations -> Contents] /\ touched \subseteq Paths
        /\ usage \in [tokens : Nat, wall_s : Nat]
    BY <1>1 DEF WorkInv, Control, TypeOK, AtWork
  <1>3. UNCHANGED <<cur, head, runs>> /\ HeadTraced /\ Orphaned
    BY <1>1 DEF Elsewhere, WorkInv
  <1>4. /\ actions' \in 0 .. MaxActions /\ Orphaned' /\ OvershootBounded'
        /\ orphans' \subseteq Tasks \X (1 .. MaxRuns)
    BY <1>1, <1>2, <1>3, OneMoreAction, OrphansKeep DEF WorkInv, OvershootBounded, TypeOK
  <1>5. fs \in [Locations -> Contents]
        /\ \A at \in Locations : fs[at] = files[at] \/ fs[at] = Foreign
    BY <1>2, EffectsAre
  <1>6. CASE ok
    <2>1. files' = fs /\ UNCHANGED <<status, edited, blockers, place>>
      BY <1>6 DEF RunCommand, ledger
    <2>2. TypeOK'
      BY <2>1, <1>1, <1>4, <1>5 DEF WorkInv, TypeOK, Elsewhere
    <2>3. Control'
      BY <2>1, <1>1 DEF WorkInv, Control, AtWork, Elsewhere
    <2>4. Traced' /\ HeadTraced'
      BY <2>1, <1>1, <1>3, <1>5, TracedKeeps, HeadKeeps
    <2> QED
      BY <2>2, <2>3, <2>4, <1>4 DEF WorkInv
  <1>7. CASE ~ok
    <2>1. Fail(fs, touched)
      BY <1>7 DEF RunCommand
    <2>2. /\ files' \in [Locations -> Contents] /\ status' \in [Tasks -> Statuses]
          /\ edited' \subseteq Tasks \X Paths /\ place' = "drive"
          /\ blockers' \subseteq Tasks \X (1 .. MaxRuns)
          /\ Traced' /\ HeadTraced'
      BY <2>1, <1>2, <1>3, <1>5, FailKeeps
    <2> QED
      BY <2>2, <1>1, <1>2, <1>4, BackInLoop
  <1> QED
    BY <1>6, <1>7

\* The script is over, or the checks are.
LEMMA OutcomeKeeps ==
    ASSUME WorkInv, place \in {"actions", "checks"},
           Succeed(TRUE) \/ Succeed(FALSE) \/ Fail(files, touched),
           UNCHANGED <<cur, touched, actions, usage, orphans>>, Elsewhere
    PROVE  WorkInv'
  <1>1. /\ place \in AtWork /\ files \in [Locations -> Contents] /\ touched \subseteq Paths
        /\ usage' \in [tokens : Nat, wall_s : Nat] /\ actions' \in 0 .. MaxActions
        /\ orphans' \subseteq Tasks \X (1 .. MaxRuns)
    BY DEF WorkInv, Control, TypeOK, AtWork
  <1>2. UNCHANGED <<cur, head, runs>> /\ Orphaned
    BY DEF Elsewhere, WorkInv
  <1>3. Orphaned' /\ OvershootBounded'
    BY <1>1, <1>2, OrphansKeep DEF WorkInv, OvershootBounded
  <1>4. /\ files' \in [Locations -> Contents] /\ status' \in [Tasks -> Statuses]
        /\ edited' \subseteq Tasks \X Paths /\ place' = "drive"
        /\ blockers' \subseteq Tasks \X (1 .. MaxRuns)
        /\ Traced' /\ HeadTraced'
    BY <1>1, <1>2, FailKeeps, SucceedKeeps
  <1> QED
    BY <1>1, <1>3, <1>4, BackInLoop

\* The end of a script.
LEMMA ActionsDoneKeeps ==
    ASSUME WorkInv, NEW checks \in BOOLEAN, ActionsDone(checks)
    PROVE  WorkInv'
  <1>1. /\ place = "actions" /\ Elsewhere
        /\ UNCHANGED <<cur, touched, actions, usage, orphans>>
    BY DEF ActionsDone, taskVars
  <1>2. CASE checks
    <2>1. place' = "checks" /\ UNCHANGED <<files, status, edited, blockers>>
      BY <1>2 DEF ActionsDone, ledger
    <2>2. TypeOK'
      BY <2>1, <1>1 DEF WorkInv, TypeOK, Places, Elsewhere
    <2>3. Control'
      BY <2>1, <1>1 DEF WorkInv, Control, AtWork, Elsewhere
    <2>4. Traced' /\ HeadTraced'
      BY <2>1, <1>1, TracedKeeps, HeadKeeps DEF WorkInv, Elsewhere
    <2>5. Orphaned' /\ OvershootBounded'
      BY <1>1, OrphansKeep DEF WorkInv, OvershootBounded, Elsewhere, AtWork
    <2> QED
      BY <2>2, <2>3, <2>4, <2>5 DEF WorkInv
  <1>3. CASE ~checks
    BY <1>1, <1>3, OutcomeKeeps DEF ActionsDone
  <1> QED
    BY <1>2, <1>3

\* The checks.
LEMMA RunChecksKeeps ==
    ASSUME WorkInv, NEW passed \in BOOLEAN, RunChecks(passed)
    PROVE  WorkInv'
  BY OutcomeKeeps DEF RunChecks, taskVars

\* An exception leaves what the task wrote, and what it touched says so.
LEMMA RaiseKeeps == ASSUME WorkInv, Raise PROVE WorkInv'
  <1>1. /\ place \in AtWork /\ place' = "raised" /\ Elsewhere
        /\ UNCHANGED <<files, status, edited, blockers, cur, touched, actions, usage, orphans>>
    BY DEF Raise, ledger, taskVars, AtWork
  <1>2. TypeOK'
    BY <1>1 DEF WorkInv, TypeOK, Places, Elsewhere
  <1>3. Control'
    BY <1>1 DEF WorkInv, Control, AtWork, Elsewhere
  <1>4. Traced' /\ HeadTraced'
    BY <1>1, TracedKeeps, HeadKeeps DEF WorkInv, Elsewhere
  <1>5. Orphaned' /\ OvershootBounded'
    BY <1>1, OrphansKeep DEF WorkInv, OvershootBounded, Elsewhere
  <1> QED
    BY <1>2, <1>3, <1>4, <1>5 DEF WorkInv

\* The command saves the ledger it has.
LEMMA ReturnKeeps == ASSUME WorkInv, Return PROVE WorkInv'
  <1>1. /\ place = "drive" /\ place' = "done"
        /\ saved' = [status |-> status, edited |-> edited, blockers |-> blockers]
        /\ UNCHANGED <<executor, files, status, edited, blockers, cur, touched, actions, usage,
                       orphans, head, runs>>
    BY DEF Return, ledger, taskVars
  <1>2. TypeOK'
    BY <1>1 DEF WorkInv, TypeOK, Places
  <1>3. Control'
    BY <1>1 DEF WorkInv, Control, AtWork, TypeOK
  <1>4. Traced' /\ HeadTraced'
    <2>1. commit_paths' = commit_paths
      BY <1>1 DEF commit_paths
    <2> QED
      BY <1>1, <2>1, HeadKeeps DEF WorkInv, Traced
  <1>5. Orphaned' /\ OvershootBounded'
    BY <1>1 DEF WorkInv, Orphaned, OvershootBounded, exceeds
  <1> QED
    BY <1>2, <1>3, <1>4, <1>5 DEF WorkInv

\* The landing commit takes the workspace as it is: between two runs every file of the
\* last one is in the log.
LEMMA LandKeeps == ASSUME WorkInv, Land PROVE WorkInv'
  <1>1. /\ place = "done" /\ head' = tree(files)
        /\ UNCHANGED <<executor, files, status, edited, blockers, saved, place, cur, touched,
                       actions, usage, orphans, runs>>
    BY DEF Land, ledger, taskVars
  <1>2. TypeOK'
    BY <1>1 DEF WorkInv, TypeOK
  <1>0. /\ head' \in [Locations -> Contents]
        /\ \A at \in Locations : head'[at] = Absent \/ (inside(at) /\ head'[at] = files[at])
    BY <1>1, TreeIs DEF WorkInv, TypeOK
  <1>3. Control'
    BY <1>0, <1>1 DEF WorkInv, Control, AtWork, TypeOK
  <1>4. commit_paths' = commit_paths
    BY <1>1 DEF commit_paths
  <1>5. Traced'
    BY <1>1, <1>4 DEF WorkInv, Traced
  <1>8. HeadTraced'
    <2> SUFFICES ASSUME NEW at \in Locations, NEW t \in Tasks, NEW r \in 1 .. MaxRuns,
                        head'[at] = <<t, r>>
                 PROVE  r <= runs /\ (r = runs => at \in commit_paths)
      BY <1>1, <1>4 DEF HeadTraced
    <2>1. inside(at) /\ files[at] = <<t, r>>
      BY <1>0, Written
    <2> QED
      BY <2>1, <1>1 DEF WorkInv, Traced
  <1>6. Orphaned' /\ OvershootBounded'
    BY <1>1 DEF WorkInv, Orphaned, OvershootBounded, exceeds
  <1> QED
    BY <1>2, <1>3, <1>5, <1>6, <1>8 DEF WorkInv

-----------------------------------------------------------------------------
(* The theorems.                                                           *)

\* The invariant holds at the start.
LEMMA InitHolds == Init => WorkInv
  <1> SUFFICES ASSUME Init PROVE WorkInv
    OBVIOUS
  <1>1. /\ files = [at \in Locations |-> IF at \in Checkout THEN Original ELSE Absent]
        /\ status = [t \in Tasks |-> "pending"] /\ edited = {} /\ blockers = {}
        /\ place = "idle" /\ saved = NewLedger /\ head = tree(files)
        /\ usage = [tokens |-> 0, wall_s |-> 0] /\ orphans = {} /\ runs = 0
        /\ cur = NoTask /\ touched = {} /\ actions = 0 /\ executor \in Executors
    BY DEF Init, NewLedger
  <1>2. files \in [Locations -> Contents]
    BY <1>1 DEF Contents
  <1>8. /\ head \in [Locations -> Contents]
        /\ \A at \in Locations : head[at] = Absent \/ head[at] = files[at]
    BY <1>1, <1>2, TreeIs
  <1>3. TypeOK
    BY <1>1, <1>2, WorkspaceAssumption DEF TypeOK, Places, Statuses
  <1>4. Control
    BY <1>1, <1>2, <1>8, WorkspaceAssumption DEF Control, AtWork, Statuses, NewLedger
  <1>5. \A at \in Locations : files[at] = Original \/ files[at] = Absent
    BY <1>1
  <1>6. Traced /\ HeadTraced
    BY <1>1, <1>5, <1>8, Written DEF Traced, HeadTraced
  <1>7. Orphaned /\ OvershootBounded
    BY <1>1, WorkspaceAssumption DEF Orphaned, OvershootBounded, NoLimit
  <1> QED
    BY <1>3, <1>4, <1>6, <1>7 DEF WorkInv

\* Every step keeps it.
LEMMA NextKeeps == WorkInv /\ [Next]_vars => WorkInv'
  <1> SUFFICES ASSUME WorkInv, [Next]_vars PROVE WorkInv'
    OBVIOUS
  <1>1. CASE UNCHANGED vars
    BY <1>1 DEF vars, ledger, taskVars, WorkInv, TypeOK, Control, Traced, HeadTraced, Orphaned,
                OvershootBounded, commit_paths, check, exceeds
  <1>2. CASE Run \/ Resume
    BY <1>2, RunKeeps, ResumeKeeps
  <1>12. CASE \E b \in saved.blockers : Override(b)
    BY <1>12, OverrideKeeps
  <1>3. CASE \E t \in Tasks : Execute(t)
    BY <1>3, ExecuteKeeps
  <1>4. CASE \E p \in Paths : RuntimeWrites(p) \/ Write(p)
    BY <1>4, RuntimeWritesKeeps, WriteKeeps
  <1>5. CASE \E u \in Uses, good \in BOOLEAN : CallReturns(u, good)
    BY <1>5, CallReturnsKeeps
  <1>6. CASE CallTimesOut
    BY <1>6, CallTimesOutKeeps
  <1>7. CASE \E o \in orphans : OrphanEnds(o) \/ \E p \in Paths : OrphanWrites(o, p)
    BY <1>7, OrphanEndsKeeps, OrphanWritesKeeps
  <1>8. CASE \E ok \in BOOLEAN, effect \in CommandEffects : RunCommand(ok, effect)
    BY <1>8, RunCommandKeeps
  <1>9. CASE \E checks \in BOOLEAN : ActionsDone(checks)
    BY <1>9, ActionsDoneKeeps
  <1>10. CASE \E passed \in BOOLEAN : RunChecks(passed)
    BY <1>10, RunChecksKeeps
  <1>11. CASE Raise \/ Return \/ Land
    BY <1>11, RaiseKeeps, ReturnKeeps, LandKeeps
  <1> QED
    BY <1>1, <1>2, <1>3, <1>4, <1>5, <1>6, <1>7, <1>8, <1>9, <1>10, <1>11, <1>12 DEF Next

\* The invariant holds in every reachable state.
LEMMA Inductive == Spec => []WorkInv
  BY InitHolds, NextKeeps, PTL DEF Spec

\* The state has its type, whatever the bounds.
THEOREM TypeCorrect == Spec => []TypeOK
  BY Inductive, PTL DEF WorkInv

\* A blocked task has left no file of this attempt in the workspace (_run_task's call of
\* compensate with the touched_paths of the result): a file of this run is the file of
\* a completed task or of the task still at work.
THEOREM NothingLeftOver == Spec => []NoLeftovers
  <1>1. WorkInv => NoLeftovers
    <2> SUFFICES ASSUME WorkInv, NEW t \in Tasks, status[t] = "blocked",
                        NEW at \in Locations, inside(at), files[at] = <<t, runs>>
                 PROVE  FALSE
      BY DEF NoLeftovers
    <2>1. CASE runs \in 1 .. MaxRuns
      BY <2>1 DEF WorkInv, Traced
    <2>2. CASE runs \notin 1 .. MaxRuns
      <3>1. <<t, runs>> \in Contents
        BY DEF WorkInv, TypeOK
      <3>2. <<t, runs>> \in Tasks \X (1 .. MaxRuns)
        BY <3>1, Written DEF Contents
      <3> QED
        BY <3>2, <2>2
    <2> QED
      BY <2>1, <2>2
  <1> QED
    BY <1>1, Inductive, PTL

\* However many tasks a run has, it spends at most one call more than its budget.
THEOREM SpendingBounded == Spec => []OvershootBounded
  BY Inductive, PTL DEF WorkInv

\* What a run lands is described by its commit event (land): the files that its write
\* actions left in the tree are all among the touched_paths.
THEOREM LandingDescribed == Spec => []CommitDescribed
  <1>1. WorkInv => CommitDescribed
    <2> SUFFICES ASSUME WorkInv, NEW t \in Tasks, NEW at \in Locations,
                        place = "done", head[at] = <<t, runs>>
                 PROVE  at \in commit_paths
      BY DEF CommitDescribed
    <2>1. runs \in 1 .. MaxRuns
      BY DEF WorkInv, Control
    <2> QED
      BY <2>1 DEF WorkInv, HeadTraced
  <1> QED
    BY <1>1, Inductive, PTL

\* After a call of the run was given up (run_with_deadline) no task of it completes:
\* no budget is left, so the loop refuses the tasks behind it, and a later command
\* takes from the stored ledger only tasks that had completed before.
THEOREM TimeoutEndsWork == Spec => NothingAfterTimeout
  <1> DEFINE Step == (\E o \in orphans : o[2] = runs)
                         => \A t \in Tasks : status'[t] = "completed"
                                                 => status[t] = "completed"
  <1>1. WorkInv /\ [Next]_vars => [Step]_vars
    <2> SUFFICES ASSUME WorkInv, Next, NEW o \in orphans, o[2] = runs,
                        NEW t \in Tasks, status'[t] = "completed"
                 PROVE  status[t] = "completed"
      BY DEF Step
    <2>1. place \in {"drive", "done"} /\ status \in [Tasks -> Statuses]
      BY DEF WorkInv, Orphaned, TypeOK
    <2>2. CASE Run
      BY <2>2 DEF Run, Command, NewLedger
    <2>3. CASE Resume
      <3>1. saved.status[t] = "completed" => status[t] = "completed"
        BY <2>1, <2>3 DEF Resume, Command, WorkInv, Control
      <3>2. saved \in [status : [Tasks -> Statuses], edited : SUBSET (Tasks \X Paths),
                       blockers : SUBSET (Tasks \X (1 .. MaxRuns))]
        BY DEF WorkInv, Control
      <3>3. status' = [u \in Tasks |-> IF saved.status[u] = "completed" THEN "completed"
                                      ELSE "pending"]
        BY <2>3, <3>2 DEF Resume, Command
      <3> QED
        BY <3>1, <3>3
    <2>4. CASE \E u \in Tasks : Execute(u)
      <3>1. PICK u \in Tasks : Execute(u)
        BY <2>4
      <3>2. status'[u] # "completed" /\ (t # u => status'[t] = status[t])
        BY <3>1, <2>1 DEF Execute
      <3> QED
        BY <3>2
    <2>5. CASE UNCHANGED status
      BY <2>5
    <2> QED
      BY <2>1, <2>2, <2>3, <2>4, <2>5
         DEF Next, ledger, Override, RuntimeWrites, Write, CallReturns, CallTimesOut, OrphanEnds,
             OrphanWrites, RunCommand, ActionsDone, RunChecks, Raise, Return, Land
  <1> QED
    BY <1>1, Inductive, PTL DEF Spec, NothingAfterTimeout
-----------------------------------------------------------------------------
(* Where a path leads, and what normpath makes of it.                      *)

\* The least-number principle.
LEMMA LeastNumber ==
    ASSUME NEW T, T \subseteq Nat, T # {}
    PROVE  \E x \in T : \A y \in T : x <= y
  <1> DEFINE R == {ss \in Nat \X Nat : ss[1] < ss[2]}
  <1>1. IsWellFoundedOn(R, Nat)
    BY NatLessThanWellFounded DEF OpToRel
  <1>2. \A m, n \in Nat : <<m, n>> \in R <=> m < n
    OBVIOUS
  <1> HIDE DEF R
  <1>3. PICK x \in T : \A y \in T : ~(<<y, x>> \in R)
    BY <1>1, WFMin
  <1>4. \A y \in T : ~(y < x)
    BY <1>2, <1>3
  <1>5. x \in Nat /\ \A y \in T : y \in Nat
    OBVIOUS
  <1> QED
    BY <1>4, <1>5

\* The equations the recursions of norms and walk are to solve, on the first n segments.
NormEquation(f, segs, n) ==
    f = [i \in 0 .. n |-> IF i = 0 THEN <<>> ELSE norm_step(f[i - 1], segs[i])]
WalkEquation(f, start, segs, n) ==
    f = [i \in 0 .. n |-> IF i = 0 THEN start ELSE walk_step(f[i - 1], segs[i])]

\* The first has a solution: otherwise there is a least n for which it has none.
LEMMA NormExists ==
    ASSUME NEW segs, NEW n \in Nat
    PROVE  \E f : NormEquation(f, segs, n)
  <1> DEFINE Bad == {m \in Nat : ~\E f : NormEquation(f, segs, m)}
  <1> SUFFICES ASSUME Bad # {} PROVE FALSE
    OBVIOUS
  <1>1. PICK m \in Bad : \A l \in Bad : m <= l
    BY LeastNumber
  <1>2. CASE m = 0
    <2> DEFINE g == [i \in 0 .. 0 |-> <<>>]
    <2>1. NormEquation(g, segs, 0)
      BY DEF NormEquation
    <2> QED
      BY <1>2, <2>1
  <1>3. CASE m # 0
    <2>1. m - 1 \in Nat /\ m - 1 \notin Bad
      BY <1>1, <1>3
    <2>2. PICK f : NormEquation(f, segs, m - 1)
      BY <2>1
    <2> DEFINE body(i) == IF i = 0 THEN <<>> ELSE norm_step(f[i - 1], segs[i])
               g == [i \in 0 .. m |-> body(i)]
    <2>3. \A i \in 0 .. m - 1 : f[i] = body(i)
      BY <2>2 DEF NormEquation
    <2>4. \A i \in 0 .. m : i # 0 => i - 1 \in 0 .. m - 1 /\ i - 1 \in 0 .. m
      BY <2>1
    <2>5. \A i \in 0 .. m : i # 0 => g[i - 1] = f[i - 1]
      BY <2>3, <2>4
    <2>6. NormEquation(g, segs, m)
      BY <2>5 DEF NormEquation
    <2> QED
      BY <2>6
  <1> QED
    BY <1>2, <1>3

\* And so has the second.
LEMMA WalkExists ==
    ASSUME NEW start, NEW segs, NEW n \in Nat
    PROVE  \E f : WalkEquation(f, start, segs, n)
  <1> DEFINE Bad == {m \in Nat : ~\E f : WalkEquation(f, start, segs, m)}
  <1> SUFFICES ASSUME Bad # {} PROVE FALSE
    OBVIOUS
  <1>1. PICK m \in Bad : \A l \in Bad : m <= l
    BY LeastNumber
  <1>2. CASE m = 0
    <2> DEFINE g == [i \in 0 .. 0 |-> start]
    <2>1. WalkEquation(g, start, segs, 0)
      BY DEF WalkEquation
    <2> QED
      BY <1>2, <2>1
  <1>3. CASE m # 0
    <2>1. m - 1 \in Nat /\ m - 1 \notin Bad
      BY <1>1, <1>3
    <2>2. PICK f : WalkEquation(f, start, segs, m - 1)
      BY <2>1
    <2> DEFINE body(i) == IF i = 0 THEN start ELSE walk_step(f[i - 1], segs[i])
               g == [i \in 0 .. m |-> body(i)]
    <2>3. \A i \in 0 .. m - 1 : f[i] = body(i)
      BY <2>2 DEF WalkEquation
    <2>4. \A i \in 0 .. m : i # 0 => i - 1 \in 0 .. m - 1 /\ i - 1 \in 0 .. m
      BY <2>1
    <2>5. \A i \in 0 .. m : i # 0 => g[i - 1] = f[i - 1]
      BY <2>3, <2>4
    <2>6. WalkEquation(g, start, segs, m)
      BY <2>5 DEF WalkEquation
    <2> QED
      BY <2>6
  <1> QED
    BY <1>2, <1>3

\* normpath and the operating system take a path segment by segment.
LEMMA Stepwise ==
    ASSUME NEW path, ~path.abs, path.segs \in Seq(STRING)
    PROVE  LET segs == path.segs IN
           /\ norms(segs)[0] = <<>> /\ walk(path)[0] = Workspc
           /\ \A n \in 1 .. Len(segs) :
                  /\ norms(segs)[n] = norm_step(norms(segs)[n - 1], segs[n])
                  /\ walk(path)[n] = walk_step(walk(path)[n - 1], segs[n])
  <1> DEFINE segs == path.segs
             start == IF path.abs THEN <<>> ELSE Workspc
             acc[n \in 0 .. Len(segs)] ==
                 IF n = 0 THEN <<>> ELSE norm_step(acc[n - 1], segs[n])
             at[n \in 0 .. Len(segs)] ==
                 IF n = 0 THEN start ELSE walk_step(at[n - 1], segs[n])
  <1>0. Len(segs) \in Nat
    OBVIOUS
  <1>1. norms(segs) = acc /\ walk(path) = at
    BY DEF norms, walk
  <1>2. PICK f : NormEquation(f, segs, Len(segs))
    BY <1>0, NormExists
  <1>3. NormEquation(acc, segs, Len(segs))
    BY <1>2 DEF NormEquation
  <1>4. PICK g : WalkEquation(g, start, segs, Len(segs))
    BY <1>0, WalkExists
  <1>5. WalkEquation(at, start, segs, Len(segs))
    BY <1>4 DEF WalkEquation
  <1> HIDE DEF acc, at
  <1>6. PICK L \in Nat : L = Len(segs)
    BY <1>0
  <1>7. \A n \in 0 .. L : acc[n] = IF n = 0 THEN <<>> ELSE norm_step(acc[n - 1], segs[n])
    BY <1>3, <1>6 DEF NormEquation
  <1>8. \A n \in 0 .. L : at[n] = IF n = 0 THEN start ELSE walk_step(at[n - 1], segs[n])
    BY <1>5, <1>6 DEF WalkEquation
  <1>9. 0 \in 0 .. L /\ \A n \in 1 .. L : n \in 0 .. L /\ n # 0
    OBVIOUS
  <1>10. acc[0] = <<>> /\ \A n \in 1 .. L : acc[n] = norm_step(acc[n - 1], segs[n])
    BY <1>7, <1>9
  <1>11. at[0] = Workspc /\ \A n \in 1 .. L : at[n] = walk_step(at[n - 1], segs[n])
    BY <1>8, <1>9
  <1> QED
    BY <1>1, <1>6, <1>10, <1>11

\* The names that segments have, those of this model written out for the provers.
Word == STRING \cup {"ws", ".."}

\* A normalised path that stays below its start, one that leaves it, and the place the
\* first names in the workspace.
Plain(s) == s \in Seq(Word) /\ \A i \in 1 .. Len(s) : s[i] \notin {".", ".."}
Up(s) == s \in Seq(Word) /\ s # <<>> /\ s[1] = ".."
Names(s, at) ==
    /\ at \in Seq(Word)
    /\ Len(at) = Len(s) + 1 /\ at[1] = "ws"
    /\ \A i \in 1 .. Len(s) : at[i + 1] = s[i]

\* A sequence of one name.
LEMMA OneName ==
    ASSUME NEW x \in Word
    PROVE  <<x>> \in Seq(Word) /\ Len(<<x>>) = 1 /\ <<x>>[1] = x /\ <<x>> # <<>>
  OBVIOUS

\* The front of a sequence, by its elements.
LEMMA FrontIs ==
    ASSUME NEW s \in Seq(Word), s # <<>>
    PROVE  /\ Front(s) \in Seq(Word) /\ Len(Front(s)) = Len(s) - 1
           /\ \A i \in 1 .. Len(s) - 1 : Front(s)[i] = s[i]
           /\ Len(s) \in Nat /\ Len(s) >= 1
  <1>1. PICK L \in Nat : L = Len(s)
    BY LenProperties
  <1>2. L >= 1
    BY <1>1, EmptySeq
  <1>3. \A i \in 1 .. L - 1 : s[i] \in Word
    BY <1>1, LenProperties
  <1>4. SubSeq(s, 1, L - 1) = [i \in 1 .. L - 1 |-> s[i]]
    BY <1>1, <1>2
  <1>5. L - 1 \in Nat
    BY <1>2
  <1>6. [i \in 1 .. L - 1 |-> s[i]] \in Seq(Word)
    BY <1>3, <1>5, IsASeq
  <1>7. Len([i \in 1 .. L - 1 |-> s[i]]) = L - 1
    BY <1>5
  <1> QED
    BY <1>1, <1>2, <1>4, <1>6, <1>7 DEF Front

\* A prefix, by its elements.
LEMMA PrefixByElements ==
    ASSUME NEW s \in Seq(Word), NEW t \in Seq(Word), Len(s) <= Len(t),
           \A i \in 1 .. Len(s) : s[i] = t[i]
    PROVE  IsPrefix(s, t)
  <1>1. PICK L \in Nat : L = Len(s)
    BY LenProperties
  <1>2. Len(t) \in Nat /\ L <= Len(t)
    BY <1>1, LenProperties
  <1>3. /\ SubSeq(s, 1, L) = [i \in 1 .. L |-> s[i]]
        /\ SubSeq(t, 1, L) = [i \in 1 .. L |-> t[i]]
    BY <1>1, <1>2
  <1> QED
    BY <1>1, <1>2, <1>3 DEF IsPrefix

\* And back.
LEMMA ElementsOfPrefix ==
    ASSUME NEW s, NEW t, Len(s) \in Nat, IsPrefix(s, t)
    PROVE  \A i \in 1 .. Len(s) : s[i] = t[i]
  <1>1. PICK L \in Nat : L = Len(s)
    OBVIOUS
  <1>2. SubSeq(s, 1, L) = SubSeq(t, 1, L)
    BY <1>1 DEF IsPrefix
  <1>3. \A i \in 1 .. L : SubSeq(s, 1, L)[i] = s[i] /\ SubSeq(t, 1, L)[i] = t[i]
    OBVIOUS
  <1> QED
    BY <1>1, <1>2, <1>3

\* A path that has left its start stays outside: a `..' never takes a `..' back.
LEMMA UpStays ==
    ASSUME NEW s, Up(s), NEW x \in Word
    PROVE  Up(norm_step(s, x))
  <1>1. CASE x = "."
    BY <1>1 DEF norm_step
  <1>2. CASE x = ".." /\ Last(s) # ".."
    <2>1. norm_step(s, x) = Front(s)
      BY <1>2 DEF norm_step, Up
    <2>2. /\ Front(s) \in Seq(Word) /\ Len(Front(s)) = Len(s) - 1
          /\ \A i \in 1 .. Len(s) - 1 : Front(s)[i] = s[i]
          /\ Len(s) \in Nat /\ Len(s) >= 1
      BY FrontIs DEF Up
    <2>3. Len(s) # 1
      BY <1>2 DEF Last, Up
    <2>4. Front(s)[1] = ".." /\ Front(s) # <<>>
      BY <2>2, <2>3 DEF Up
    <2> QED
      BY <2>1, <2>2, <2>4 DEF Up
  <1>3. CASE x # "." /\ ~(x = ".." /\ Last(s) # "..")
    <2>1. norm_step(s, x) = Append(s, x)
      BY <1>3 DEF norm_step
    <2> QED
      BY <2>1, AppendProperties DEF Up
  <1> QED
    BY <1>1, <1>2, <1>3

\* As long as no link is crossed, normpath and the operating system agree.
LEMMA StepsAgree ==
    ASSUME NEW s, NEW at, Plain(s), Names(s, at), NEW x \in Word,
           x \in {".", ".."} \/ Append(at, x) \notin DOMAIN Links
    PROVE  \/ Up(norm_step(s, x))
           \/ Plain(norm_step(s, x)) /\ Names(norm_step(s, x), walk_step(at, x))
  <1>1. CASE x = "."
    BY <1>1 DEF norm_step, walk_step
  <1>2. CASE x = ".." /\ s = <<>>
    <2>1. norm_step(s, x) = Append(s, x)
      BY <1>2 DEF norm_step
    <2>2. Append(<<>>, x) = <<x>> /\ <<x>> \in Seq(Word) /\ <<x>>[1] = x /\ <<x>> # <<>>
      BY OneName
    <2> QED
      BY <1>2, <2>1, <2>2 DEF Up
  <1>3. CASE x = ".." /\ s # <<>>
    <2>1. Len(s) \in Nat /\ Len(s) >= 1 /\ Last(s) # ".."
      BY <1>3 DEF Plain, Last
    <2>2. at # <<>>
      BY <2>1 DEF Names
    <2>3. norm_step(s, x) = Front(s) /\ walk_step(at, x) = Front(at)
      BY <1>3, <2>1, <2>2 DEF norm_step, walk_step
    <2>4. /\ Front(s) \in Seq(Word) /\ Len(Front(s)) = Len(s) - 1
          /\ \A i \in 1 .. Len(s) - 1 : Front(s)[i] = s[i]
      BY <1>3, FrontIs DEF Plain
    <2>10. Len(at) - 1 = Len(s) /\ at \in Seq(Word)
      BY <2>1 DEF Names
    <2>5. /\ Front(at) \in Seq(Word) /\ Len(Front(at)) = Len(s)
          /\ \A i \in 1 .. Len(s) : Front(at)[i] = at[i]
      BY <2>2, <2>10, FrontIs
    <2>6. Plain(Front(s))
      BY <2>1, <2>4 DEF Plain
    <2>7. Len(Front(at)) = Len(Front(s)) + 1 /\ Front(at)[1] = "ws"
      BY <2>1, <2>4, <2>5 DEF Names
    <2>8. ASSUME NEW i \in 1 .. Len(Front(s)) PROVE Front(at)[i + 1] = Front(s)[i]
      <3>1. i \in 1 .. Len(s) /\ i + 1 \in 1 .. Len(s)
        BY <2>1, <2>4
      <3>2. at[i + 1] = s[i]
        BY <3>1 DEF Names
      <3> QED
        BY <2>4, <2>5, <3>1, <3>2
    <2>9. Names(Front(s), Front(at))
      BY <2>5, <2>7, <2>8 DEF Names
    <2> QED
      BY <2>3, <2>6, <2>9
  <1>4. CASE x \notin {".", ".."}
    <2>1. norm_step(s, x) = Append(s, x) /\ walk_step(at, x) = Append(at, x)
      BY <1>4 DEF norm_step, walk_step
    <2>2. /\ Append(s, x) \in Seq(Word) /\ Len(Append(s, x)) = Len(s) + 1
          /\ \A i \in 1 .. Len(s) : Append(s, x)[i] = s[i]
          /\ Append(s, x)[Len(s) + 1] = x /\ Len(s) \in Nat
      BY AppendProperties, LenProperties DEF Plain
    <2>3. /\ Append(at, x) \in Seq(Word) /\ Len(Append(at, x)) = Len(s) + 2
          /\ \A i \in 1 .. Len(s) + 1 : Append(at, x)[i] = at[i]
          /\ Append(at, x)[Len(s) + 2] = x
      BY <2>2, AppendProperties DEF Names
    <2>4. Plain(Append(s, x))
      BY <1>4, <2>2 DEF Plain
    <2>5. Len(Append(at, x)) = Len(Append(s, x)) + 1 /\ Append(at, x)[1] = "ws"
      BY <2>2, <2>3 DEF Names
    <2>6. ASSUME NEW i \in 1 .. Len(Append(s, x))
          PROVE  Append(at, x)[i + 1] = Append(s, x)[i]
      <3>1. CASE i = Len(s) + 1
        BY <2>2, <2>3, <3>1
      <3>2. CASE i # Len(s) + 1
        <4>1. i \in 1 .. Len(s) /\ i + 1 \in 1 .. Len(s) + 1
          BY <2>2, <3>2
        <4>2. at[i + 1] = s[i]
          BY <4>1 DEF Names
        <4> QED
          BY <2>2, <2>3, <4>1, <4>2
      <3> QED
        BY <3>1, <3>2
    <2>7. Names(Append(s, x), Append(at, x))
      BY <2>3, <2>5, <2>6 DEF Names
    <2> QED
      BY <2>1, <2>4, <2>7
  <1> QED
    BY <1>1, <1>2, <1>3, <1>4

\* So the place a path without links leads to is the one its normalised form names.
LEMMA TextAgrees ==
    ASSUME NEW path, ~path.abs, path.segs \in Seq(STRING),
           \A n \in 1 .. Len(path.segs) : ~crosses(path, n)
    PROVE  LET s == norms(path.segs)[Len(path.segs)] IN
           Up(s) \/ (Plain(s) /\ Names(s, resolve(path)))
  <1> DEFINE segs == path.segs
             Agrees(n) == \/ Up(norms(segs)[n])
                          \/ Plain(norms(segs)[n]) /\ Names(norms(segs)[n], walk(path)[n])
             Bad == {n \in 0 .. Len(segs) : ~Agrees(n)}
  <1>1. PICK L \in Nat : L = Len(segs)
    BY LenProperties
  <1>2. /\ norms(segs)[0] = <<>> /\ walk(path)[0] = Workspc
        /\ \A n \in 1 .. L :
               /\ norms(segs)[n] = norm_step(norms(segs)[n - 1], segs[n])
               /\ walk(path)[n] = walk_step(walk(path)[n - 1], segs[n])
    BY <1>1, Stepwise
  <1>3. \A n \in 1 .. L : segs[n] \in Word /\ ~crosses(path, n)
    BY <1>1, LenProperties DEF Word
  <1>4. Agrees(0)
    <2>0. \A s : Len(s) = 0 => 1 .. Len(s) = {}
      BY SMT
    <2>1. Plain(<<>>)
      BY <2>0, EmptySeq DEF Plain
    <2>2. <<"ws">> \in Seq(Word) /\ Len(<<"ws">>) = 1 /\ <<"ws">>[1] = "ws"
      <3>1. "ws" \in Word
        BY DEF Word
      <3> QED
        BY ONLY <3>1, OneName
    <2>3. Names(<<>>, <<"ws">>)
      BY <2>0, <2>2, EmptySeq DEF Names
    <2> QED
      BY <1>2, <2>1, <2>3 DEF Workspc
  <1>5. ASSUME NEW n \in 1 .. L, Agrees(n - 1) PROVE Agrees(n)
    <2> DEFINE s == norms(segs)[n - 1]
               at == walk(path)[n - 1]
               x == segs[n]
    <2>1. x \in Word /\ (x \in {".", ".."} \/ Append(at, x) \notin DOMAIN Links)
      BY <1>3 DEF crosses
    <2>2. norms(segs)[n] = norm_step(s, x) /\ walk(path)[n] = walk_step(at, x)
      BY <1>2
    <2>3. Up(s) \/ (Plain(s) /\ Names(s, at))
      BY <1>5
    <2> HIDE DEF s, at, x
    <2>4. \/ Up(norm_step(s, x))
          \/ Plain(norm_step(s, x)) /\ Names(norm_step(s, x), walk_step(at, x))
      BY <2>1, <2>3, UpStays, StepsAgree
    <2> QED
      BY <2>2, <2>4
  <1>6. Agrees(L)
    <2> HIDE DEF Agrees
    <2> SUFFICES ASSUME ~Agrees(L) PROVE FALSE
      OBVIOUS
    <2>1. Bad \subseteq Nat /\ L \in Bad
      BY <1>1
    <2>2. PICK n \in Bad : \A m \in Bad : n <= m
      BY <2>1, LeastNumber
    <2>3. n \in 1 .. L
      BY <1>1, <1>4, <2>2
    <2>4. n - 1 \in 0 .. L /\ ~(n <= n - 1)
      BY <2>3
    <2>5. Agrees(n - 1)
      BY <1>1, <2>2, <2>4
    <2> QED
      BY <1>5, <2>2, <2>3, <2>5
  <1> QED
    BY <1>1, <1>6 DEF resolve

\* A place that is not in the workspace, by its first name.
Out(at) == at \in Seq(Word) /\ at # <<>> /\ at[1] # "ws"

\* Such a place is not inside.
LEMMA OutIsOutside == ASSUME NEW at, Out(at) PROVE ~inside(at)
  <1> SUFFICES ASSUME inside(at) PROVE FALSE
    OBVIOUS
  <1>1. <<"ws">>[1] = at[1]
    <2>1. Len(<<"ws">>) \in Nat /\ IsPrefix(<<"ws">>, at) /\ 1 \in 1 .. Len(<<"ws">>)
      BY DEF inside, Workspc
    <2> QED
      BY <2>1, ElementsOfPrefix
  <1> QED
    BY <1>1 DEF Out

\* What is apart from the workspace is such a place.
LEMMA ApartIsOut == ASSUME NEW at \in Seq(STRING), Apart(at) PROVE Out(at)
  <1>0. PICK L \in Nat : L = Len(at)
    BY LenProperties
  <1>1. at \in Seq(Word)
    <2>1. STRING \subseteq Word
      BY DEF Word
    <2> QED
      BY <2>1, SeqMonotonic
  <1>2. Workspc \in Seq(Word) /\ Len(Workspc) = 1 /\ Workspc[1] = "ws"
    <2>1. "ws" \in Word
      BY DEF Word
    <2>2. <<"ws">> \in Seq(Word) /\ Len(<<"ws">>) = 1 /\ <<"ws">>[1] = "ws"
      BY ONLY <2>1, OneName
    <2> QED
      BY ONLY <2>2 DEF Workspc
  <1>3. at # <<>>
    <2> SUFFICES ASSUME at = <<>> PROVE FALSE
      OBVIOUS
    <2>1. Len(at) = 0
      BY EmptySeq
    <2>2. \A i \in 1 .. 0 : at[i] = Workspc[i]
      BY SMT
    <2>3. Len(at) <= Len(Workspc)
      BY <1>2, <2>1
    <2>4. IsPrefix(at, Workspc)
      BY <1>1, <1>2, <2>1, <2>2, <2>3, PrefixByElements
    <2> QED
      BY <2>4 DEF Apart
  <1>4. at[1] # "ws"
    <2> SUFFICES ASSUME at[1] = "ws" PROVE FALSE
      OBVIOUS
    <2>1. Len(at) >= 1 /\ \A i \in 1 .. 1 : i = 1
      BY <1>0, <1>1, <1>3, EmptySeq
    <2>2. IsPrefix(Workspc, at)
      BY <1>1, <1>2, <2>1, PrefixByElements
    <2> QED
      BY <2>2 DEF Apart
  <1> QED
    BY <1>1, <1>3, <1>4 DEF Out

\* Of a path that crosses a link, the deepest ancestor that exists lies behind the link,
\* so the realpath test of apply_write refuses it.
LEMMA CrossedIsRefused ==
    ASSUME Dirs \subseteq dirs, NEW p \in Paths, straight(p), ~p.abs,
           NEW k \in 1 .. Len(p.segs), crosses(p, k)
    PROVE  ~may_write(p)
  <1> DEFINE segs == p.segs
             Bad == {n \in k .. Len(segs) : ~Out(walk(p)[n])}
  <1>0. segs \in Seq(STRING)
    BY PathsAssumption
  <1>1. PICK L \in Nat : L = Len(segs)
    BY <1>0, LenProperties
  <1>2. \A n \in 1 .. L : walk(p)[n] = walk_step(walk(p)[n - 1], segs[n])
    BY <1>0, <1>1, Stepwise
  <1>3. \A n \in 1 .. L : segs[n] \in Word
    BY <1>0, <1>1, LenProperties DEF Word
  <1>4. ASSUME NEW n \in 1 .. L, crosses(p, n) PROVE Out(walk(p)[n])
    <2>1. walk(p)[n] = Links[Append(walk(p)[n - 1], segs[n])]
      BY <1>2, <1>4 DEF crosses, walk_step
    <2>2. walk(p)[n] \in Seq(STRING) /\ Apart(walk(p)[n])
      BY <1>1, <1>4, <2>1, PathsAssumption DEF crosses, straight
    <2> QED
      BY <2>2, ApartIsOut
  <1>5. k \in 1 .. L /\ Out(walk(p)[k])
    BY <1>1, <1>4
  <1>6. ASSUME NEW n \in 1 .. L, k < n, Out(walk(p)[n - 1]) PROVE Out(walk(p)[n])
    <2> DEFINE at == walk(p)[n - 1]
               x == segs[n]
    <2>1. x \in Word /\ x # ".."
      BY <1>1, <1>3, <1>5, <1>6 DEF straight
    <2>2. walk(p)[n] = walk_step(at, x) /\ Out(at)
      BY <1>2, <1>6
    <2>3. crosses(p, n) \/ x = "." \/ Append(at, x) \notin DOMAIN Links
      BY <2>1 DEF crosses
    <2> HIDE DEF at, x
    <2>4. crosses(p, n) \/ walk_step(at, x) \in {at, Append(at, x)}
      BY <2>1, <2>3 DEF walk_step
    <2>5. Out(Append(at, x))
      <3>1. at \in Seq(Word) /\ Len(at) \in Nat /\ Len(at) >= 1 /\ at[1] # "ws"
        BY <2>2, LenProperties, EmptySeq DEF Out
      <3>2. /\ Append(at, x) \in Seq(Word) /\ Len(Append(at, x)) = Len(at) + 1
            /\ Append(at, x)[1] = at[1]
        BY <2>1, <3>1, AppendProperties
      <3> QED
        BY <3>1, <3>2, EmptySeq DEF Out
    <2> QED
      BY <1>4, <2>2, <2>4, <2>5
  <1>7. \A n \in k .. L : Out(walk(p)[n])
    <2> SUFFICES ASSUME Bad # {} PROVE FALSE
      BY <1>1
    <2>1. Bad \subseteq Nat
      BY <1>1, <1>5
    <2>2. PICK n \in Bad : \A m \in Bad : n <= m
      BY <2>1, LeastNumber
    <2>3. n \in 1 .. L /\ k < n
      BY <1>1, <1>5, <2>2
    <2>4. n - 1 \in k .. L /\ ~(n <= n - 1)
      BY <1>5, <2>3
    <2>5. Out(walk(p)[n - 1])
      BY <1>1, <2>2, <2>4
    <2> QED
      BY <1>6, <2>2, <2>3, <2>5
  <1>8. \A m \in 0 .. k : exists(p, m)
    <2>1. \A m \in 0 .. k : walk(p)[m] \in dirs
      BY <1>1, <1>5 DEF straight
    <2> QED
      BY <1>5, <2>1 DEF exists, present
  <1>9. ASSUME NEW n \in 0 .. L, ancestor(p, n) PROVE n >= k
    <2> SUFFICES ASSUME n < k PROVE FALSE
      BY <1>5
    <2>1. n < Len(p.segs) /\ n + 1 \in 0 .. k
      BY <1>1, <1>5
    <2> QED
      BY <1>8, <1>9, <2>1 DEF ancestor
  <1>10. ASSUME NEW n \in 0 .. L, ancestor(p, n) PROVE ~inside(walk(p)[n])
    <2>1. n \in k .. L
      BY <1>9, <1>10
    <2> QED
      BY <1>7, <2>1, OutIsOutside
  <1> QED
    BY <1>1, <1>10 DEF may_write

\* A straight path that both tests let pass leads under one of the roots.
LEMMA MayWriteStays ==
    ASSUME RootsPlain, Dirs \subseteq dirs, NEW p \in Paths, straight(p), may_write(p)
    PROVE  \E r \in Roots : IsPrefix(resolve(root(r)), resolve(p))
  <1> DEFINE s == norms(p.segs)[Len(p.segs)]
  <1>1. ~p.abs /\ p.segs \in Seq(STRING)
    BY PathsAssumption DEF may_write, classify_path
  <1>2. Head(normpath(p.segs)) # ".."
    BY DEF may_write, classify_path
  <1>3. PICK r \in Roots : under(p.segs, r)
    BY DEF may_write, classify_path
  <1>4. \A n \in 1 .. Len(p.segs) : ~crosses(p, n)
    BY <1>1, CrossedIsRefused
  <1>5. Up(s) \/ (Plain(s) /\ Names(s, resolve(p)))
    BY <1>1, <1>4, TextAgrees
  <1> DEFINE b == norms(r)[Len(r)]
  <1>6. Up(b) \/ (Plain(b) /\ Names(b, resolve(root(r))))
    <2>1. root(r).abs = FALSE /\ root(r).segs = r
      BY DEF root
    <2>2. r \in Seq(STRING) /\ \A n \in 1 .. Len(r) : ~crosses(root(r), n)
      BY PathsAssumption DEF RootsPlain
    <2> QED
      BY <2>1, <2>2, TextAgrees
  <1> DEFINE np == IF s = <<>> THEN <<".">> ELSE s
             nb == IF b = <<>> THEN <<".">> ELSE b
             at == resolve(p)
             base == resolve(root(r))
  <1>7. Head(np) # ".." /\ IsPrefix(nb, np)
    BY <1>2, <1>3 DEF under, normpath
  <1> HIDE DEF s, b, at, base
  <1>8. s # <<>> => Head(s) = s[1]
    OBVIOUS
  <1>9. Plain(s) /\ Names(s, at)
    BY <1>5, <1>7, <1>8 DEF Up, at
  <1>10. Len(s) \in Nat /\ (s # <<>> => Len(s) >= 1)
    BY <1>9, EmptySeq DEF Plain
  <1>11. CASE b = <<>>
    <2>1. Names(<<>>, base)
      <3>1. ~Up(b)
        BY <1>11 DEF Up
      <3> QED
        BY <1>6, <1>11, <3>1 DEF base
    <2>2. base \in Seq(Word) /\ Len(base) = 1 /\ base[1] = "ws"
      BY <2>1, EmptySeq DEF Names
    <2>3. at \in Seq(Word) /\ Len(at) >= 1 /\ at[1] = "ws"
      BY <1>9, <1>10 DEF Names
    <2>4. IsPrefix(base, at)
      BY <2>2, <2>3, PrefixByElements
    <2> QED
      BY <2>4 DEF at, base
  <1>12. CASE b # <<>>
    <2>1. b \in Seq(Word) /\ Len(b) \in Nat /\ Len(b) >= 1
      BY <1>6, <1>12, EmptySeq DEF Up, Plain
    <2>2. IsPrefix(b, np)
      BY <1>7, <1>12
    <2>3. np[1] = b[1]
      BY <2>1, <2>2, ElementsOfPrefix
    <2>4. CASE s = <<>>
      <3>1. b[1] = "."
        BY <2>3, <2>4
      <3> QED
        BY <1>6, <2>1, <3>1 DEF Up, Plain
    <2>5. CASE s # <<>>
      <3>1. ~Up(b)
        BY <1>7, <1>8, <2>3, <2>5 DEF Up
      <3>2. Plain(b) /\ Names(b, base)
        BY <1>6, <3>1 DEF base
      <3>3. Len(b) <= Len(s) /\ \A i \in 1 .. Len(b) : b[i] = s[i]
        BY <2>1, <2>2, <2>5, ElementsOfPrefix DEF IsPrefix
      <3>4. Len(base) <= Len(at)
        BY <1>9, <1>10, <2>1, <3>2, <3>3 DEF Names
      <3>5. ASSUME NEW i \in 1 .. Len(base) PROVE base[i] = at[i]
        <4>1. CASE i = 1
          BY <1>9, <3>2, <4>1 DEF Names
        <4>2. CASE i # 1
          <5>1. i - 1 \in 1 .. Len(b) /\ i - 1 \in 1 .. Len(s) /\ (i - 1) + 1 = i
            BY <1>10, <2>1, <3>2, <3>3, <4>2 DEF Names
          <5>2. base[(i - 1) + 1] = b[i - 1] /\ at[(i - 1) + 1] = s[i - 1]
            BY <1>9, <3>2, <5>1 DEF Names
          <5> QED
            BY <3>3, <5>1, <5>2
        <4> QED
          BY <4>1, <4>2
      <3>6. IsPrefix(base, at)
        BY <1>9, <3>2, <3>4, <3>5, PrefixByElements DEF Names
      <3> QED
        BY <3>6 DEF at, base
    <2> QED
      BY <2>4, <2>5
  <1> QED
    BY <1>11, <1>12

\* What a step makes of a file is what was there, nothing, the work of a command or a
\* runtime, or what a write action put where one of its paths leads.
LEMMA ContentsChange ==
    ASSUME WorkInv, Next, NEW at \in Locations
    PROVE  \/ files'[at] = files[at] \/ files'[at] \in {Absent, Foreign}
           \/ \E p \in Paths : may_write(p) /\ resolve(p) = at
  <1>1. files \in [Locations -> Contents] /\ touched \in SUBSET Paths /\ {} \in SUBSET Paths
    BY DEF WorkInv, TypeOK
  <1>2. ASSUME NEW fs \in [Locations -> Contents], NEW ps \in SUBSET Paths, Fail(fs, ps),
               fs[at] = files[at] \/ fs[at] = Foreign
        PROVE  files'[at] = files[at] \/ files'[at] \in {Absent, Foreign}
    BY <1>2, CompensateIs DEF Fail
  <1>3. CASE UNCHANGED files
    BY <1>3
  <1>4. CASE \E p \in Paths : RuntimeWrites(p) \/ (\E o \in orphans : OrphanWrites(o, p))
    BY <1>1, <1>4, ForeignIs DEF RuntimeWrites, OrphanWrites
  <1>5. CASE \E p \in Paths : Write(p)
    <2>1. PICK p \in Paths : Write(p)
      BY <1>5
    <2>2. CASE may_write(p) /\ writable(p)
      <3>1. files' = [files EXCEPT ![resolve(p)] = <<cur, runs>>]
        BY <2>1, <2>2 DEF Write, put
      <3> QED
        BY <1>1, <2>2, <3>1
    <2>3. CASE ~may_write(p)
      BY <1>1, <1>2, <2>1, <2>3 DEF Write
    <2>4. CASE may_write(p) /\ ~writable(p)
      BY <2>1, <2>4 DEF Write
    <2> QED
      BY <2>2, <2>3, <2>4
  <1>6. CASE \E u \in Uses, good \in BOOLEAN : CallReturns(u, good)
    BY <1>1, <1>2, <1>6 DEF CallReturns, Succeed
  <1>7. CASE CallTimesOut
    BY <1>1, <1>2, <1>7 DEF CallTimesOut
  <1>8. CASE \E ok \in BOOLEAN, effect \in CommandEffects : RunCommand(ok, effect)
    <2>1. PICK ok \in BOOLEAN, effect \in CommandEffects : RunCommand(ok, effect)
      BY <1>8
    <2> PICK fs : fs = effect[1]
      OBVIOUS
    <2>2. fs \in [Locations -> Contents] /\ (fs[at] = files[at] \/ fs[at] = Foreign)
      BY <1>1, EffectsAre
    <2> QED
      BY <1>1, <1>2, <2>1, <2>2 DEF RunCommand
  <1>9. CASE \E checks \in BOOLEAN : ActionsDone(checks)
    BY <1>9 DEF ActionsDone, Succeed
  <1>10. CASE \E passed \in BOOLEAN : RunChecks(passed)
    BY <1>1, <1>2, <1>10 DEF RunChecks, Succeed
  <1>11. CASE Run \/ Resume \/ (\E b \in saved.blockers : Override(b)) \/ Raise \/ Return \/ Land
    BY <1>11 DEF Run, Resume, Command, Override, Raise, Return, Land
  <1>12. CASE (\E t \in Tasks : Execute(t)) \/ (\E o \in orphans : OrphanEnds(o))
    BY <1>12 DEF Execute, OrphanEnds
  <1> QED
    BY <1>4, <1>5, <1>6, <1>7, <1>8, <1>9, <1>10, <1>11, <1>12 DEF Next

\* A step removes no directory.
LEMMA DirsStay == ASSUME [Next]_vars PROVE dirs \subseteq dirs'
  <1>1. \A p \in Paths : dirs \subseteq mkdirs(p)
    BY DEF mkdirs
  <1>2. \A effect \in CommandEffects : dirs \subseteq effect[2]
    <2> SUFFICES ASSUME NEW effect \in CommandEffects PROVE dirs \subseteq effect[2]
      OBVIOUS
    <2>1. CASE effect = <<files, dirs>>
      BY <2>1
    <2>2. CASE effect # <<files, dirs>>
      <3>1. PICK p \in Paths : effect = <<put(files, p, Foreign), mkdirs(p)>>
        BY <2>2 DEF CommandEffects
      <3> QED
        BY <1>1, <3>1
    <2> QED
      BY <2>1, <2>2
  <1> QED
    BY <1>1, <1>2
       DEF Next, vars, Run, Resume, Command, Override, Execute, RuntimeWrites, Write, CallReturns,
           CallTimesOut, OrphanEnds, OrphanWrites, RunCommand, ActionsDone, RunChecks, Raise,
           Return, Land

\* For any links, paths and contents: what a write action writes lies under one of the
\* allowed roots (classify_path and apply_write together), unless a path that is not
\* straight leads there.  A straight path that crosses a link is refused, since the
\* deepest ancestor that exists lies behind the link; of any other, the place the
\* operating system finds is the one its normalised form names, below a root that has
\* been compared with it.
THEOREM JailKept == RootsPlain => (Spec => []JailHolds)
  <1> SUFFICES ASSUME RootsPlain PROVE Spec => []JailHolds
    OBVIOUS
  <1> DEFINE Inv == JailHolds /\ Dirs \subseteq dirs
  <1>1. Init => Inv
    BY DEF Init, JailHolds, written
  <1>2. WorkInv /\ Inv /\ [Next]_vars => Inv'
    <2> SUFFICES ASSUME WorkInv, Inv, [Next]_vars PROVE Inv'
      OBVIOUS
    <2>1. (Dirs \subseteq dirs)'
      BY DirsStay
    <2>2. JailHolds'
      <3> SUFFICES ASSUME NEW at \in Locations,
                          files'[at] \notin {Absent, Original, Foreign}
                   PROVE  \/ \E r \in Roots : IsPrefix(resolve(root(r)), at)
                          \/ \E p \in Paths : resolve(p) = at /\ ~straight(p)
        BY DEF JailHolds, written
      <3>1. CASE files'[at] = files[at]
        BY <3>1 DEF JailHolds, written
      <3>2. CASE files'[at] # files[at]
        <4>1. Next
          BY <3>2 DEF vars
        <4>2. PICK p \in Paths : may_write(p) /\ resolve(p) = at
          BY <3>2, <4>1, ContentsChange
        <4>3. CASE straight(p)
          BY <4>2, <4>3, MayWriteStays
        <4> QED
          BY <4>2, <4>3
      <3> QED
        BY <3>1, <3>2
    <2> QED
      BY <2>1, <2>2
  <1>3. Spec => []Inv
    BY <1>1, <1>2, Inductive, PTL DEF Spec
  <1> QED
    BY <1>3, PTL
=============================================================================
