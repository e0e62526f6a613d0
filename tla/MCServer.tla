------------------------------ MODULE MCServer ------------------------------
(* Instances of Server for TLC.                                            *)
EXTENDS Server, FiniteSets

payload == [ids |-> RemoteIds, executor_form |-> TRUE,
            todos |-> {[mapping |-> TRUE, todo_id |-> 1, description |-> TRUE]},
            hashable |-> TRUE, repository |-> "object",
            object |-> [fields |-> TRUE, url |-> TRUE, ref |-> TRUE]]

\* One thing missing or wrong.  project_id, run_id and step_id are to the rules what
\* org_id is.
MCPayloads ==
    {payload}
    \cup {[payload EXCEPT !.ids = @ \ {id}] : id \in RemoteIds \ {"project_id", "run_id", "step_id"}}
    \cup {[payload EXCEPT !.executor_form = FALSE]}
    \cup {[payload EXCEPT !.todos = {}], [payload EXCEPT !.hashable = FALSE]}
    \cup {[payload EXCEPT !.todos = {t}] :
            t \in {[mapping |-> FALSE, todo_id |-> 1, description |-> TRUE],
                   [mapping |-> TRUE, todo_id |-> 1, description |-> FALSE]}
                  \cup {[mapping |-> TRUE, todo_id |-> id, description |-> TRUE] :
                           id \in {0, Unhashable}}}
    \cup {[payload EXCEPT !.repository = r] : r \in {"missing", "no mapping", "string"}}
    \cup {[payload EXCEPT !.object = o] :
            o \in {[fields |-> FALSE, url |-> TRUE, ref |-> TRUE],
                   [fields |-> TRUE, url |-> FALSE, ref |-> TRUE],
                   [fields |-> TRUE, url |-> TRUE, ref |-> FALSE]}}

request == [path |-> TRUE, scheme |-> "Bearer", bearer |-> "t", length |-> "ok",
            arrives |-> TRUE, body |-> "object", payload |-> payload]

MCRequests ==
    {[request EXCEPT !.payload = p] : p \in MCPayloads}
    \cup {[request EXCEPT !.length = l] : l \in {"none", "malformed", "large"}}
    \cup {[request EXCEPT !.body = b] : b \in {"not json", "not object", "raises"}}
    \cup {[request EXCEPT !.path = FALSE], [request EXCEPT !.scheme = "Basic"],
          [request EXCEPT !.bearer = "u"], [request EXCEPT !.arrives = FALSE]}

on == [enabled |-> TRUE, endpoint |-> "e", executor_id |-> TRUE, org_id |-> TRUE]

\* A full configuration; with one defect each; sections against the top; a key in
\* the file.
MCFiles ==
    {[top |-> <<>>, sections |-> on],
     [top |-> <<>>, sections |-> <<>>],
     [top |-> on, sections |-> [enabled |-> FALSE]],
     [top |-> [signing_key |-> "f", max_parallel |-> 0], sections |-> [on EXCEPT !.org_id = FALSE]],
     [top |-> <<>>, sections |-> [enabled |-> TRUE]],
     [top |-> [executor |-> "api"], sections |-> on],
     [top |-> [max_parallel |-> -1], sections |-> on]}

MCEnvs == {[token |-> "t", signing_key |-> "s", port_free |-> TRUE],
           [token |-> "t", signing_key |-> None, port_free |-> FALSE],
           [token |-> None, signing_key |-> None, port_free |-> TRUE]}
=============================================================================
