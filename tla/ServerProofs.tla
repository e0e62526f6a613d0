---------------------------- MODULE ServerProofs ----------------------------
(***************************************************************************)
(* Theorems about Server, for every set of connections, configuration      *)
(* files, environments and requests: the type of its state, and that the   *)
(* door and the run loop agree on what may run.                            *)
(***************************************************************************)
EXTENDS Server, TLAPS

Places   == {"idle", "queued", "headers", "body", "working", "settled", "cut"}
Outcomes == Replies \cup {None, "accepted", "ran", "refused", "raised"}

\* None is no reply.
LEMMA NoneIsNoReply ==
    None # "400" /\ None # "401" /\ None # "404" /\ None # "413" /\ None # "dropped"
  BY ServerAssumption DEF Replies

\* validate_payload and completeness together ask for all that validate_intake asks
\* for: the manifest made of a payload that passed the door, is complete and can be
\* read has no finding of severity error.
LEMMA DoorRuns ==
    ASSUME NEW r \in Requests, body_status(r) = None, complete(r.payload)
    PROVE  run_accepts(manifest(r))
  <1>1. r.payload \in Payload
    BY ServerAssumption
  <1> DEFINE p == r.payload
             a == adapt_dispatched_task(p)
             m == manifest(r)
             rules == [SCHEMA_UNSUPPORTED |-> ~m.schema,
                       SOURCE_MISSING |-> ~(m.source /\ m.version),
                       APPROVAL_INSUFFICIENT |-> ~m.approved \/ m.score < EXEC_READY_MIN,
                       SCOPE_MISSING |-> ~m.scope,
                       NO_TASKS |-> m.tasks = {},
                       TASK_FIELDS_MISSING |->
                           \E t \in m.tasks : ~(t.id # 0 /\ t.title /\ t.acceptance),
                       DEP_UNRESOLVED |->
                           \E t \in m.tasks : ~(t.depends_on \subseteq {u.id : u \in m.tasks})]
  <1>2. a.ids = p.ids /\ a.todos = p.todos
    BY <1>1 DEF Payload, adapt_dispatched_task
  <1>3. validate_payload(p) = {}
    BY NoneIsNoReply DEF body_status
  <1>4. RequiredIds \subseteq p.ids /\ p.todos # {}
    <2>1. ~(RequiredIds \subseteq p.ids) => "PAYLOAD_IDS_MISSING" \in validate_payload(p)
      BY DEF validate_payload, fired
    <2>2. p.todos = {} => "PAYLOAD_NO_TODOS" \in validate_payload(p)
      BY DEF validate_payload, fired
    <2> QED
      BY <1>3, <2>1, <2>2
  <1>5. /\ m.schema = TRUE /\ m.approved = TRUE /\ m.score = 90
        /\ m.source = ("iplan_id" \in p.ids) /\ m.version = ("plan_version_id" \in p.ids)
        /\ m.scope = ({"org_id", "project_id"} \subseteq p.ids)
        /\ m.tasks = {[id |-> t.todo_id, title |-> t.description, acceptance |-> TRUE,
                       depends_on |-> {}] : t \in p.todos}
    BY <1>2 DEF manifest, build_manifest
  <1>6. m.source /\ m.version /\ m.scope
    BY <1>4, <1>5 DEF complete, RequiredIds
  <1>7. \A t \in m.tasks : t.id # 0 /\ t.title /\ t.acceptance /\ t.depends_on = {}
    <2> SUFFICES ASSUME NEW u \in m.tasks
                 PROVE  u.id # 0 /\ u.title /\ u.acceptance /\ u.depends_on = {}
      OBVIOUS
    <2>1. PICK t \in p.todos : u = [id |-> t.todo_id, title |-> t.description,
                                    acceptance |-> TRUE, depends_on |-> {}]
      BY <1>5
    <2>2. t.todo_id # 0 /\ t.description
      BY DEF complete
    <2>3. u.id = t.todo_id /\ u.title = t.description /\ u.acceptance = TRUE /\ u.depends_on = {}
      BY <2>1
    <2> QED
      BY <2>2, <2>3
  <1>8. m.tasks # {}
    <2> DEFINE task(t) == [id |-> t.todo_id, title |-> t.description, acceptance |-> TRUE,
                           depends_on |-> {}]
    <2>1. PICK t : t \in p.todos
      BY <1>4
    <2>2. m.tasks = {task(u) : u \in p.todos}
      BY <1>5
    <2> HIDE DEF m, task
    <2>3. task(t) \in m.tasks
      BY <2>1, <2>2
    <2> QED
      BY <2>3
  <1>9. validate_intake(m) = fired(rules)
    BY DEF validate_intake
  <1>10. /\ ~rules["SCHEMA_UNSUPPORTED"] /\ ~rules["SOURCE_MISSING"]
         /\ ~rules["APPROVAL_INSUFFICIENT"] /\ ~rules["SCOPE_MISSING"] /\ ~rules["NO_TASKS"]
         /\ ~rules["TASK_FIELDS_MISSING"] /\ ~rules["DEP_UNRESOLVED"]
    <2>1. m.schema /\ m.approved /\ ~(m.score < EXEC_READY_MIN)
      BY <1>5 DEF EXEC_READY_MIN
    <2>2. ~\E t \in m.tasks : ~(t.id # 0 /\ t.title /\ t.acceptance)
      BY <1>7
    <2>3. ~\E t \in m.tasks : ~(t.depends_on \subseteq {u.id : u \in m.tasks})
      BY <1>7
    <2> HIDE DEF m
    <2> QED
      BY <1>6, <1>8, <2>1, <2>2, <2>3
  <1>11. DOMAIN rules = {"SCHEMA_UNSUPPORTED", "SOURCE_MISSING", "APPROVAL_INSUFFICIENT",
                         "SCOPE_MISSING", "NO_TASKS", "TASK_FIELDS_MISSING", "DEP_UNRESOLVED"}
    OBVIOUS
  <1> HIDE DEF rules
  <1>12. fired(rules) = {}
    BY <1>10, <1>11 DEF fired
  <1> QED
    BY <1>9, <1>12 DEF run_accepts, status_of

\* Of a well-formed payload the worker makes a manifest that `run' can decide on.
LEMMA WellformedIsPrepared ==
    ASSUME NEW r \in Requests, wellformed(r.payload)
    PROVE  prepared(r)
  <1>1. r.payload \in Payload
    BY ServerAssumption
  <1>2. adapt_returns(r.payload) /\ build_returns(r.payload)
    BY DEF wellformed, adapt_returns, build_returns
  <1>3. adapt_dispatched_task(r.payload).todos = r.payload.todos
    BY <1>1 DEF Payload, adapt_dispatched_task
  <1>4. ASSUME NEW u \in manifest(r).tasks PROVE u.id # Unhashable
    <2>1. PICK t \in r.payload.todos : u.id = t.todo_id
      BY <1>3 DEF manifest, build_manifest
    <2> QED
      BY <2>1 DEF wellformed
  <1> QED
    BY <1>2, <1>4 DEF prepared, validate_returns

\* A step of the connection c alone keeps the invariant when what it leaves of c
\* fits it.
LEMMA MoveKeeps ==
    ASSUME ServerInv, NEW c \in Conns, Running,
           NEW p \in Places \ {"cut"}, NEW r \in Requests \cup {None}, NEW o \in Outcomes,
           place' = [place EXCEPT ![c] = p],
           req' = [req EXCEPT ![c] = r],
           outcome' = [outcome EXCEPT ![c] = o],
           UNCHANGED <<inputs, cfg, server, beat, stop>>,
           p # "idle" => r \in Requests,
           p \in {"body", "working", "settled"} => headers_status(r) = None,
           p \in {"working", "settled"} => body_status(r) = None,
           p = "settled" => o = work_outcome(r)
    PROVE  ServerInv'
  <1> USE DEF inputs
  <1>1. /\ place \in [Conns -> Places] /\ req \in [Conns -> Requests \cup {None}]
        /\ outcome \in [Conns -> Outcomes]
    BY DEF ServerInv, TypeOK, Places, Outcomes
  <1>2. TypeOK'
    <2>1. /\ place' \in [Conns -> Places] /\ req' \in [Conns -> Requests \cup {None}]
          /\ outcome' \in [Conns -> Outcomes]
      BY <1>1
    <2> QED
      BY <2>1 DEF ServerInv, TypeOK, Places, Outcomes
  <1>3. Running' /\ env' = env /\ cfg' = cfg
    BY DEF Running
  <1>4. ASSUME NEW d \in Conns
        PROVE  /\ place'[d] \notin {"idle", "cut"} => Running' /\ req'[d] \in Requests
               /\ place'[d] \in {"body", "working", "settled"} => headers_status(req'[d]) = None
               /\ place'[d] \in {"working", "settled"} => body_status(req'[d]) = None
               /\ place'[d] = "settled" => outcome'[d] = work_outcome(req'[d])
    <2>1. CASE d = c
      BY <1>1, <1>3, <2>1
    <2>2. CASE d # c
      <3>1. place'[d] = place[d] /\ req'[d] = req[d] /\ outcome'[d] = outcome[d]
        BY <1>1, <2>2
      <3> QED
        BY <1>3, <3>1 DEF ServerInv, DoorInv
    <2> QED
      BY <2>1, <2>2
  <1>5. DoorInv'
    <2>1. \A d \in Conns : headers_status(req[d])' = headers_status(req'[d])
      BY <1>3 DEF headers_status, verify_bearer
    <2> QED
      BY <1>3, <1>4, <2>1 DEF ServerInv, DoorInv
  <1> QED
    BY <1>2, <1>5 DEF ServerInv

\* The invariant at the start.
LEMMA InitInv == Init => ServerInv
  BY DEF Init, ServerInv, TypeOK, DoorInv, Running

\* The process starts, with the configuration and the environment it finds.
LEMMA BootKeeps ==
    ASSUME ServerInv, Boot
    PROVE  ServerInv'
  <1> USE DEF inputs, connVars
  <1>1. cfg' = load_config(file, env) /\ UNCHANGED <<file, env, place, req, outcome, stop>>
    BY DEF Boot
  <1>2. DOMAIN cfg' = DOMAIN Config /\ cfg'.signing_key = env.signing_key
    <2>1. "signing_key" \in DOMAIN Config
      BY DEF Config
    <2> QED
      BY <1>1, <2>1 DEF load_config, secret
  <1>3. /\ server' \in {"exit 0", "exit 1", "serving"} /\ beat' \in {"wait", "off"}
        /\ server' = "serving" => cfg'.enabled /\ BootsWith(cfg')
    BY DEF Boot
  <1>4. TypeOK'
    BY <1>1, <1>2, <1>3 DEF ServerInv, TypeOK
  <1>5. \A c \in Conns : place[c] \in {"idle", "cut"}
    BY DEF Boot, ServerInv, DoorInv, Running, TypeOK
  <1>6. Running' => env'.token # None /\ cfg'.enabled /\ cfg'.endpoint # None
    BY <1>1, <1>3 DEF Running, BootsWith
  <1>7. DoorInv'
    BY <1>1, <1>5, <1>6 DEF DoorInv
  <1> QED
    BY <1>4, <1>7 DEF ServerInv

\* A step that leaves the connections and the inputs as they are, and a process that
\* runs running.
LEMMA StaysKeeps ==
    ASSUME ServerInv, UNCHANGED <<inputs, cfg, connVars>>, Running' <=> Running,
           server' \in {"boot", "serving", "closing", "exit 0", "exit 1"},
           beat' \in {"off", "wait", "post", "hung", "ended"}
    PROVE  ServerInv'
  <1> USE DEF inputs, connVars
  <1>1. TypeOK'
    BY DEF ServerInv, TypeOK
  <1>2. \A c \in Conns : headers_status(req[c])' = headers_status(req[c])
    BY DEF headers_status, verify_bearer
  <1>3. DoorInv'
    BY <1>2 DEF ServerInv, DoorInv
  <1> QED
    BY <1>1, <1>3 DEF ServerInv

\* KeyboardInterrupt, and the steps of the heartbeat.
LEMMA AsideKeeps ==
    ASSUME ServerInv, Interrupt \/ BeatStep \/ BeatHangs
    PROVE  ServerInv'
  <1>1. CASE Interrupt
    <2>1. /\ UNCHANGED <<inputs, cfg, connVars>> /\ (Running' <=> Running)
          /\ server' = "closing" /\ beat' = beat
      BY <1>1 DEF Interrupt, Running
    <2> QED
      BY <2>1, StaysKeeps DEF ServerInv, TypeOK
  <1>2. CASE BeatStep \/ BeatHangs
    <2>1. /\ UNCHANGED <<inputs, cfg, connVars, server>>
          /\ beat' \in {"post", "ended", "wait", "hung"}
      BY <1>2 DEF BeatStep, BeatHangs, BeatBegin, BeatEnd, BeatPosted, BeatFails, BeatGoto, after_error
    <2>2. Running' <=> Running
      BY <2>1 DEF Running
    <2> QED
      BY <2>1, <2>2, StaysKeeps DEF ServerInv, TypeOK
  <1> QED
    BY <1>1, <1>2

\* The process ends, and every handler where it is.
LEMMA ExitKeeps ==
    ASSUME ServerInv, Exit
    PROVE  ServerInv'
  <1>1. ~Running' /\ server' = "exit 0" /\ place' = [c \in Conns |-> "cut"] /\ beat' = "ended"
        /\ UNCHANGED <<file, env, cfg, req, outcome>>
    BY DEF Exit, Running, inputs
  <1> QED
    BY <1>1 DEF ServerInv, TypeOK, DoorInv

\* A client connects.
LEMMA ConnectKeeps ==
    ASSUME ServerInv, NEW c \in Conns, NEW r \in Requests, Connect(c, r)
    PROVE  ServerInv'
  BY MoveKeeps DEF Connect, Running, Places, Outcomes

\* A handler or a worker goes on.
LEMMA HandleKeeps ==
    ASSUME ServerInv, NEW c \in Conns, Handle(c)
    PROVE  ServerInv'
  <1>0. /\ place \in [Conns -> Places] /\ req \in [Conns -> Requests \cup {None}]
        /\ outcome \in [Conns -> Outcomes]
    BY DEF ServerInv, TypeOK, Places, Outcomes
  <1>s. req = [req EXCEPT ![c] = req[c]] /\ outcome = [outcome EXCEPT ![c] = outcome[c]]
    BY <1>0
  <1>i. /\ place[c] \notin {"idle", "cut"} => req[c] \in Requests
        /\ place[c] \in {"body", "working", "settled"} => headers_status(req[c]) = None
        /\ place[c] \in {"working", "settled"} => body_status(req[c]) = None
    BY DEF ServerInv, DoorInv
  <1>t. outcome[c] \in Outcomes /\ req[c] \in Requests \cup {None}
    BY <1>0
  <1> USE DEF Goto
  <1>1. CASE StartHandler(c)
    BY <1>1, <1>s, <1>i, <1>t, MoveKeeps DEF StartHandler, Places
  <1>2. CASE RefuseHeaders(c)
    <2>1. headers_status(req[c]) \in Outcomes
      BY DEF headers_status, validate_content_length, Outcomes, Replies
    <2> QED
      BY <1>2, <2>1, MoveKeeps DEF RefuseHeaders, Reply, Places
  <1>3. CASE TakeHeaders(c)
    BY <1>3, <1>s, <1>i, <1>t, MoveKeeps DEF TakeHeaders, Places
  <1>4. CASE RefuseBody(c)
    <2>1. body_status(req[c]) \in Outcomes
      BY DEF body_status, Outcomes, Replies
    <2> QED
      BY <1>4, <2>1, MoveKeeps DEF RefuseBody, Reply, Places
  <1>5. CASE Accept(c)
    BY <1>5, <1>s, <1>i, MoveKeeps DEF Accept, Places, Outcomes
  <1>6. ASSUME NEW status \in {"202", "503"}, AnswerBody(c, status) PROVE ServerInv'
    BY <1>6, MoveKeeps DEF AnswerBody, Reply, Places, Outcomes, Replies
  <1>7. CASE WorkEnds(c)
    <2>1. PICK o : o = work_outcome(req[c])
      OBVIOUS
    <2>2. o \in Outcomes
      BY <2>1 DEF Outcomes, work_outcome
    <2>3. outcome' = [outcome EXCEPT ![c] = o]
      BY <1>7, <2>1 DEF WorkEnds
    <2> QED
      BY <1>7, <1>s, <1>i, <2>1, <2>2, <2>3, MoveKeeps DEF WorkEnds, Places
  <1>8. CASE Forget(c)
    BY <1>8, <1>s, <1>t, MoveKeeps DEF Forget, Places
  <1> QED
    BY <1>1, <1>2, <1>3, <1>4, <1>5, <1>6, <1>7, <1>8 DEF Handle

\* ServerInv is inductive.
LEMMA NextKeeps == ServerInv /\ [Next]_vars => ServerInv'
  <1> SUFFICES ASSUME ServerInv, [Next]_vars PROVE ServerInv'
    OBVIOUS
  <1>1. CASE UNCHANGED vars
    <2>1. UNCHANGED <<inputs, cfg, connVars, server, beat>>
      BY <1>1 DEF vars
    <2>2. Running' <=> Running
      BY <2>1 DEF Running
    <2> QED
      BY <2>1, <2>2, StaysKeeps DEF ServerInv, TypeOK
  <1> QED
    BY <1>1, BootKeeps, AsideKeeps, ExitKeeps, ConnectKeeps, HandleKeeps DEF Next

\* What the invariant says of the requests that were accepted.
LEMMA InvAccepted == ServerInv => AcceptedRuns
  <1> SUFFICES ASSUME ServerInv, NEW c \in Conns
               PROVE  /\ place[c] \in {"working", "settled"} =>
                             /\ env.token # None /\ req[c].bearer = env.token
                             /\ cfg.enabled /\ cfg.endpoint # None
                      /\ (place[c] = "settled" /\ complete(req[c].payload)
                          /\ wellformed(req[c].payload)) => outcome[c] = "ran"
    BY DEF AcceptedRuns
  <1>1. headers_status(req[c]) = None => req[c].bearer = env.token
    BY NoneIsNoReply DEF headers_status, verify_bearer
  <1>2. ASSUME place[c] = "settled", complete(req[c].payload), wellformed(req[c].payload)
        PROVE  outcome[c] = "ran"
    <2>1. req[c] \in Requests /\ body_status(req[c]) = None /\ outcome[c] = work_outcome(req[c])
      BY <1>2 DEF ServerInv, DoorInv
    <2>2. prepared(req[c]) /\ run_accepts(manifest(req[c]))
      BY <1>2, <2>1, DoorRuns, WellformedIsPrepared
    <2> QED
      BY <2>1, <2>2 DEF work_outcome
  <1> QED
    BY <1>1, <1>2 DEF ServerInv, DoorInv

-----------------------------------------------------------------------------
(* The theorems.                                                           *)

\* The state keeps its type; above all the signing key is the environment's, whatever
\* the configuration file says (load_config).
THEOREM TypeCorrect == Spec => []TypeOK
  <1>1. ServerInv => TypeOK
    BY DEF ServerInv
  <1> QED
    BY <1>1, InitInv, NextKeeps, PTL DEF Spec

\* How far the door and the run loop agree (do_POST, validate_payload, execute,
\* adapt_dispatched_task, _build_manifest, validate_intake): for every request,
\* configuration and environment a task at work came with the token, and one whose
\* payload is complete and well formed is run, without an exception before it and
\* without a refusal.
THEOREM DoorAndRunAgree == Spec => []AcceptedRuns
  BY InvAccepted, InitInv, NextKeeps, PTL DEF Spec
=============================================================================
