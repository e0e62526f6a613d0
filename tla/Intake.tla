------------------------------- MODULE Intake -------------------------------
(***************************************************************************)
(* The two front doors of an engine and the rules behind them: reader.py   *)
(* and payload.py turn an IPLAN or a dispatched payload into an intake     *)
(* manifest, intake_rules.py decides whether `run' takes the manifest, and *)
(* payload_rules.py whether the receiver takes the payload.                *)
(*                                                                         *)
(* A field that is only tested for presence is a BOOLEAN: present and not  *)
(* empty.  The checksum is computed and always present.                    *)
(***************************************************************************)
EXTENDS Integers

\* The rules of severity error that this module's validators use.
Errors == {"SCHEMA_UNSUPPORTED", "SOURCE_MISSING", "APPROVAL_INSUFFICIENT",
           "SCOPE_MISSING", "NO_TASKS", "TASK_FIELDS_MISSING", "DEP_UNRESOLVED",
           "PAYLOAD_IDS_MISSING", "PAYLOAD_EXECUTOR_ID_FORMAT", "PAYLOAD_NO_TODOS",
           "PAYLOAD_CONTEXT_MISSING", "PAYLOAD_REPOSITORY_SHAPE",
           "PAYLOAD_REPOSITORY_URL_SCHEME", "PAYLOAD_REPOSITORY_REF",
           "ORDER_INVALID", "UPSTREAM_UNRECONCILED", "LEASE_OVERLAP"}

status_of(findings) ==
    IF findings \cap Errors # {} THEN "fail" ELSE IF findings # {} THEN "warn" ELSE "pass"

EXEC_READY_MIN == 90

\* The rules whose condition holds.
fired(rules) == {r \in DOMAIN rules : rules[r]}

\* A manifest: [schema, source, version, approved, scope : BOOLEAN, score,
\* tasks : a set of [id, title, acceptance, depends_on]], where id 0 is no id.
\* An id that is a list or a mapping cannot be a member of the set `ids'.
Unhashable == -1

\* TypeError, otherwise.
validate_returns(manifest) == \A t \in manifest.tasks : t.id # Unhashable

validate_intake(manifest) ==
    LET ids == {t.id : t \in manifest.tasks}
    IN  fired([SCHEMA_UNSUPPORTED |-> ~manifest.schema,
               SOURCE_MISSING |-> ~(manifest.source /\ manifest.version),
               APPROVAL_INSUFFICIENT |->
                   ~manifest.approved \/ manifest.score < EXEC_READY_MIN,
               SCOPE_MISSING |-> ~manifest.scope,
               NO_TASKS |-> manifest.tasks = {},
               TASK_FIELDS_MISSING |->
                   \E t \in manifest.tasks : ~(t.id # 0 /\ t.title /\ t.acceptance),
               DEP_UNRESOLVED |-> \E t \in manifest.tasks : ~(t.depends_on \subseteq ids)])

\* `run' raises ValueError when this is FALSE.
run_accepts(manifest) == status_of(validate_intake(manifest)) # "fail"

\* An IPLAN: is it a mapping, and what _dig finds at the mapped places.  A scope
\* that is not a mapping counts as none.
ingest_iplan(doc) ==
    [schema   |-> TRUE,
     source   |-> doc.mapping /\ doc.iplan_id,
     version  |-> doc.mapping /\ doc.version,
     approved |-> doc.mapping /\ doc.approved,
     score    |-> IF doc.mapping THEN doc.score ELSE 0,
     scope    |-> doc.mapping /\ doc.scope = "complete",
     tasks    |-> IF doc.mapping THEN doc.tasks ELSE {}]

-----------------------------------------------------------------------------
(* A dispatched payload: the identity fields that are present, whether the *)
(* executor_id has the canonical form, the todos (each a mapping or not; a *)
(* todos that is no list at all is one of todos that are no mappings),     *)
(* whether it can be hashed canonically (no NaN, no number beyond 2^53),   *)
(* and what context_package is: "missing" (absent or empty), "no mapping", *)
(* or a mapping whose repository is "string" (no object) or "object", with *)
(* [fields, url, ref]: the three fields are there, the url is allowed, no  *)
(* ref starts with a dash.                                                 *)

\* Mutant: org_id is taken for granted.
ids_without_org == {"project_id", "run_id", "step_id", "executor_id"}

RequiredIds == {"org_id", "project_id", "run_id", "step_id", "executor_id"}
RemoteIds   == RequiredIds \cup {"task_id", "iplan_id", "plan_version_id"}

Payload == [ids : SUBSET RemoteIds, executor_form : BOOLEAN,
            todos : SUBSET [mapping : BOOLEAN, todo_id : Nat \cup {Unhashable},
                            description : BOOLEAN],
            hashable : BOOLEAN,
            repository : {"missing", "no mapping", "string", "object"},
            object : [fields : BOOLEAN, url : BOOLEAN, ref : BOOLEAN]]

clone_url_ok(repository) == repository.url

validate_payload(payload) ==
    LET object == payload.repository = "object"
        whole  == object /\ payload.object.fields
    IN  fired([PAYLOAD_IDS_MISSING |-> ~(RequiredIds \subseteq payload.ids),
               PAYLOAD_EXECUTOR_ID_FORMAT |->
                   "executor_id" \in payload.ids /\ ~payload.executor_form,
               PAYLOAD_NO_TODOS |-> payload.todos = {},
               PAYLOAD_CONTEXT_MISSING |-> payload.repository = "missing",
               PAYLOAD_REPOSITORY_SHAPE |-> object /\ ~payload.object.fields,
               PAYLOAD_REPOSITORY_URL_SCHEME |-> whole /\ ~clone_url_ok(payload.object),
               PAYLOAD_REPOSITORY_REF |-> whole /\ ~payload.object.ref])

\* execute reads, and the adapter copies, context_package as a mapping: AttributeError
\* for anything else, which no rule of the door asks about.
adapt_returns(payload) == payload.repository # "no mapping"

\* The workspace path takes the place of the repository.
adapt_dispatched_task(payload) == [payload EXCEPT !.repository = "string"]

\* The checksum is over the canonical form, and each todo is read as a mapping.
build_returns(payload) == payload.hashable /\ \A t \in payload.todos : t.mapping

\* Dispatch is the approval; a todo is a task without dependencies, and its
\* acceptance is a mapping even when there are no criteria.  allowed_roots is the
\* one-element list of the repository, so never empty.
build_manifest(payload) ==
    [schema   |-> TRUE,
     source   |-> "iplan_id" \in payload.ids,
     version  |-> "plan_version_id" \in payload.ids,
     approved |-> TRUE,
     score    |-> 90,
     scope    |-> {"org_id", "project_id"} \subseteq payload.ids,
     tasks    |-> {[id |-> t.todo_id, title |-> t.description, acceptance |-> TRUE,
                    depends_on |-> {}] : t \in payload.todos}]
=============================================================================
