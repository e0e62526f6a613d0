------------------------------- MODULE Server -------------------------------
(***************************************************************************)
(* The receiver as a process: the `server' command (cli/commands.py) with  *)
(* the configuration it reads (config.py), the door that answers requests  *)
(* (receiver/http.py, auth.py) and the heartbeat (receiver/heartbeat.py).  *)
(*                                                                         *)
(* What becomes of a task between the door and the run loop (the accept    *)
(* row, the claim, the slots, the clone) is the module Receiver; here the  *)
(* store's answer is any answer, and a worker only maps the payload to the *)
(* manifest and hands it to `run'.                                         *)
(***************************************************************************)
EXTENDS Intake

CONSTANTS
    Conns,     \* connections open at one time
    Files,     \* configuration files: see load_config
    Envs,      \* environments: [token, signing_key, port_free]
    Requests,  \* [path, scheme, bearer, length, arrives, body, payload]
    None       \* an absent value

\* What the door may say to a request; `dropped' is no answer.
Replies == {"202", "400", "401", "404", "413", "503", "dropped"}

ASSUME ServerAssumption ==
    /\ None \notin BOOLEAN \cup Int \cup Replies
    /\ \A r \in Requests : r.payload \in Payload

VARIABLES
    file, env,  \* what the process is started with
    cfg,        \* the Config, None before load_config
    server,     \* "boot", "serving", "closing", "exit 0" or "exit 1"
    place,      \* connection -> where its handler is
    req,        \* connection -> its request
    outcome,    \* connection -> the last reply, or the fate of the last run
    beat,       \* the heartbeat's thread: "off", "wait", "post", "hung" or "ended"
    stop        \* its stop event

inputs   == <<file, env>>
connVars == <<place, req, outcome>>
vars == <<inputs, cfg, server, connVars, beat, stop>>

-----------------------------------------------------------------------------
(* Configuration.                                                          *)

Config == [enabled |-> FALSE, endpoint |-> None, executor |-> "mock", max_parallel |-> 4,
           executor_id |-> FALSE, org_id |-> FALSE, signing_key |-> None]

\* Mutant: a signing_key in the file counts.
secret_or_file(key, environment, document) ==
    IF key \in DOMAIN document.top THEN document.top[key] ELSE environment[key]

\* Secrets come from the environment alone.
secret(key, environment, document) == environment[key]

\* The defaults, then the fields at the top of the file, then its sections.
load_config(document, environment) ==
    [k \in DOMAIN Config |->
        IF k = "signing_key" THEN secret(k, environment, document)
        ELSE IF k \in DOMAIN document.sections THEN document.sections[k]
        ELSE IF k \in DOMAIN document.top THEN document.top[k]
        ELSE Config[k]]

executor_known(mode) == mode \in {"mock", "host"}

\* Semaphore raises ValueError on a negative number, the bind OSError.
build_receiver_ok(token, config) ==
    token # None /\ config.max_parallel >= 0 /\ env.port_free

-----------------------------------------------------------------------------
Init ==
    /\ file \in Files
    /\ env \in Envs
    /\ cfg = None
    /\ server = "boot"
    /\ place = [c \in Conns |-> "idle"]
    /\ req = [c \in Conns |-> None]
    /\ outcome = [c \in Conns |-> None]
    /\ beat = "off"
    /\ stop = FALSE

BootsWith(config) ==
    /\ env.token # None
    /\ config.endpoint # None
    /\ executor_known(config.executor)
    /\ build_receiver_ok(env.token, config)

\* _server up to serve_forever.  The heartbeat needs both ids.
Boot ==
    /\ server = "boot"
    /\ cfg' = load_config(file, env)
    /\ server' = IF ~cfg'.enabled THEN "exit 0"
                 ELSE IF ~BootsWith(cfg') THEN "exit 1" ELSE "serving"
    /\ beat' = IF server' = "serving" /\ cfg'.executor_id /\ cfg'.org_id
               THEN "wait" ELSE "off"
    /\ UNCHANGED <<inputs, connVars, stop>>

\* KeyboardInterrupt ends serve_forever; the heartbeat is told to stop.
Interrupt ==
    /\ server = "serving"
    /\ server' = "closing"
    /\ stop' = (beat # "off")
    /\ UNCHANGED <<inputs, cfg, connVars, beat>>

\* shutdown, server_close, return 0.  Handlers, workers and the heartbeat are daemon
\* threads: they end where they are.
Exit ==
    /\ server = "closing"
    /\ server' = "exit 0"
    /\ place' = [c \in Conns |-> "cut"]
    /\ beat' = "ended"
    /\ UNCHANGED <<inputs, cfg, req, outcome, stop>>

-----------------------------------------------------------------------------
(* The door: one thread for each connection.                               *)

Running == server \in {"serving", "closing"}

Connect(c, r) ==
    /\ server = "serving"
    /\ place[c] = "idle"
    /\ place' = [place EXCEPT ![c] = "queued"]
    /\ req' = [req EXCEPT ![c] = r]
    /\ outcome' = [outcome EXCEPT ![c] = None]
    /\ UNCHANGED <<inputs, cfg, server, beat, stop>>

Goto(c, here, there) ==
    /\ Running
    /\ place[c] = here
    /\ place' = [place EXCEPT ![c] = there]
    /\ UNCHANGED <<inputs, cfg, server, beat, stop>>

\* Mutant: HTTPServer, which handles one connection at a time.
one_at_a_time(c) == \A d \in Conns : place[d] \in {"idle", "queued"}

\* ThreadingHTTPServer
may_handle(c) == TRUE

StartHandler(c) ==
    /\ server = "serving"
    /\ may_handle(c)
    /\ Goto(c, "queued", "headers")
    /\ UNCHANGED <<req, outcome>>

\* The connection is answered and closed, or (`dropped') only closed.
Reply(c, here, status) ==
    /\ Goto(c, here, "idle")
    /\ outcome' = [outcome EXCEPT ![c] = status]
    /\ req' = [req EXCEPT ![c] = None]

verify_bearer(r, expected) == expected # None /\ r.scheme = "Bearer" /\ r.bearer = expected

\* None: go on.
validate_content_length(length) ==
    IF length \in {"malformed", "negative"} THEN "400"
    ELSE IF length = "large" THEN "413" ELSE None

headers_status(r) ==
    IF ~r.path THEN "404"
    ELSE IF ~verify_bearer(r, env.token) THEN "401"
    ELSE validate_content_length(r.length)

RefuseHeaders(c) ==
    /\ place[c] = "headers"
    /\ headers_status(req[c]) # None
    /\ Reply(c, "headers", headers_status(req[c]))

TakeHeaders(c) ==
    /\ place[c] = "headers"
    /\ headers_status(req[c]) = None
    /\ Goto(c, "headers", "body")
    /\ UNCHANGED <<req, outcome>>

\* rfile.read has no timeout: it returns when the bytes are there or the client has
\* closed the connection.
read_returns(r) == r.length = "none" \/ r.arrives

\* No body is None, which is no object.  An exception that do_POST does not catch
\* (bytes that are no text, a work_order that is no mapping) ends the handler.
body_status(r) ==
    IF r.length = "none" \/ r.body \in {"not json", "not object"} THEN "400"
    ELSE IF r.body = "raises" THEN "dropped"
    ELSE IF validate_payload(r.payload) # {} \/ "task_id" \notin r.payload.ids THEN "400"
    ELSE None

RefuseBody(c) ==
    /\ place[c] = "body"
    /\ read_returns(req[c])
    /\ body_status(req[c]) # None
    /\ Reply(c, "body", body_status(req[c]))

\* accept_task has a row of that id, or all slots are taken.
AnswerBody(c, status) ==
    /\ place[c] = "body"
    /\ read_returns(req[c])
    /\ body_status(req[c]) = None
    /\ Reply(c, "body", status)

\* A worker is started and 202 is the reply.
Accept(c) ==
    /\ place[c] = "body"
    /\ read_returns(req[c])
    /\ body_status(req[c]) = None
    /\ cfg.max_parallel > 0
    /\ Goto(c, "body", "working")
    /\ outcome' = [outcome EXCEPT ![c] = "accepted"]
    /\ UNCHANGED req

manifest(r) == build_manifest(adapt_dispatched_task(r.payload))

\* The worker has a manifest, and `run' can decide on it.
prepared(r) ==
    adapt_returns(r.payload) /\ build_returns(r.payload) /\ validate_returns(manifest(r))

work_outcome(r) ==
    IF ~prepared(r) THEN "raised" ELSE IF run_accepts(manifest(r)) THEN "ran" ELSE "refused"

\* An exception on the way to `run', or `run' takes the manifest or raises ValueError;
\* but for "ran", execute settles the task as failed.
WorkEnds(c) ==
    /\ Goto(c, "working", "settled")
    /\ outcome' = [outcome EXCEPT ![c] = work_outcome(req[c])]
    /\ UNCHANGED req

Forget(c) ==
    /\ Goto(c, "settled", "idle")
    /\ req' = [req EXCEPT ![c] = None]
    /\ UNCHANGED outcome

Handle(c) ==
    \/ StartHandler(c) \/ RefuseHeaders(c) \/ TakeHeaders(c) \/ RefuseBody(c) \/ Accept(c)
    \/ \E status \in {"202", "503"} : AnswerBody(c, status)
    \/ WorkEnds(c) \/ Forget(c)

-----------------------------------------------------------------------------
(* The heartbeat.                                                          *)

BeatGoto(here, there) ==
    /\ Running
    /\ beat = here
    /\ beat' = there
    /\ UNCHANGED <<inputs, cfg, server, connVars, stop>>

\* _stop.wait times out
BeatBegin == ~stop /\ BeatGoto("wait", "post")
BeatEnd   == stop /\ BeatGoto("wait", "ended")

\* Mutant: an exception of the post ends the thread.
after_error_ended == "ended"

after_error == "wait"

BeatPosted == BeatGoto("post", "wait")
BeatFails  == BeatGoto("post", after_error)

\* urlopen has no timeout: the other side accepts the connection and is silent.
BeatHangs == BeatGoto("post", "hung")

BeatStep == BeatBegin \/ BeatEnd \/ BeatPosted \/ BeatFails

Next ==
    \/ Boot \/ Interrupt \/ Exit
    \/ \E c \in Conns : Handle(c) \/ \E r \in Requests : Connect(c, r)
    \/ BeatStep \/ BeatHangs

Spec == Init /\ [][Next]_vars

\* The threads go on; nobody has to connect or to interrupt.
FairSpec ==
    /\ Spec
    /\ WF_vars(Boot) /\ WF_vars(Exit) /\ WF_vars(BeatStep)
    /\ \A c \in Conns : WF_vars(Handle(c))

-----------------------------------------------------------------------------
(* Properties.                                                             *)

\* The type of the state.
TypeOK ==
    /\ file \in Files /\ env \in Envs
    /\ cfg = None \/ (DOMAIN cfg = DOMAIN Config /\ cfg.signing_key = env.signing_key)
    /\ server \in {"boot", "serving", "closing", "exit 0", "exit 1"}
    /\ place \in [Conns -> {"idle", "queued", "headers", "body", "working", "settled", "cut"}]
    /\ req \in [Conns -> Requests \cup {None}]
    /\ outcome \in [Conns -> Replies \cup {None, "accepted", "ran", "refused", "raised"}]
    /\ beat \in {"off", "wait", "post", "hung", "ended"}

\* A payload that names plan and version, and whose todos have ids and descriptions:
\* validate_payload does not ask for these.
complete(payload) ==
    /\ {"iplan_id", "plan_version_id"} \subseteq payload.ids
    /\ \A t \in payload.todos : t.todo_id # 0 /\ t.description

\* A payload the way to the manifest can read: validate_payload does not ask for this
\* either.
wellformed(payload) ==
    /\ payload.repository # "no mapping" /\ payload.hashable
    /\ \A t \in payload.todos : t.mapping /\ t.todo_id # Unhashable

\* As far as the door and the run loop agree (validate_payload against validate_intake,
\* with adapt_dispatched_task and _build_manifest between them): a task that was
\* answered 202 accepted came with the token the process was started with, to a
\* receiver that was enabled and can report back; and when its payload is complete and
\* well formed, the worker makes a manifest of it without an exception, and `run'
\* takes the manifest.  The rest is answered 202 and then settled as failed, although
\* payload_rules.py:3-5 says that what the run loop cannot infer is asked for at the door.
AcceptedRuns ==
    \A c \in Conns :
        /\ place[c] \in {"working", "settled"} =>
               /\ env.token # None /\ req[c].bearer = env.token
               /\ cfg.enabled /\ cfg.endpoint # None
        /\ (place[c] = "settled" /\ complete(req[c].payload) /\ wellformed(req[c].payload))
               => outcome[c] = "ran"

\* Every request whose body arrives is answered or dropped, although the bodies of
\* other requests never come and their handlers wait for ever.
Answered ==
    \A c \in Conns :
        (place[c] = "queued" /\ req[c].arrives) ~> (outcome[c] # None \/ server # "serving")

\* The receiver stays dispatchable: as long as it serves with a heartbeat, and no
\* post hangs, posts begin again and again, whatever becomes of each of them.
BeatsRecur ==
    <>[](server = "serving" /\ beat \notin {"off", "hung"})
        => []<>(beat = "post") /\ []<>(beat = "wait")

-----------------------------------------------------------------------------
(* The inductive invariant behind AcceptedRuns.                            *)

\* What the process knows of itself and of each request as its handler goes on: it
\* serves only with a token and an endpoint, nobody is connected before or after, a
\* body is read behind the right headers, a worker has a body that passed, and what
\* became of a task is what its payload leads to.
DoorInv ==
    /\ Running => env.token # None /\ cfg.enabled /\ cfg.endpoint # None
    /\ \A c \in Conns :
        /\ place[c] \notin {"idle", "cut"} => Running /\ req[c] \in Requests
        /\ place[c] \in {"body", "working", "settled"} => headers_status(req[c]) = None
        /\ place[c] \in {"working", "settled"} => body_status(req[c]) = None
        /\ place[c] = "settled" => outcome[c] = work_outcome(req[c])

ServerInv == TypeOK /\ DoorInv
=============================================================================
