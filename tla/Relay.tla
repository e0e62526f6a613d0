------------------------------- MODULE Relay -------------------------------
(***************************************************************************)
(* The outbox that delivers a ledger's events to iplanic: relay/worker.py, *)
(* client.py, reject.py, the delivery table of store.py, and the sync      *)
(* command.                                                                *)
(*                                                                         *)
(* Several workers may drain the same ledger at once: sync commands and    *)
(* the threads of a receiver.  An event is its place in the projection of  *)
(* the log (to_execution_events): its idempotency_key is derived from the  *)
(* hash chain, so it is the same for every worker, and a log only grows.   *)
(* iplanic is external: it may answer anything, an answer may get lost     *)
(* after the event was stored, and it stores an event it has once.         *)
(***************************************************************************)
EXTENDS Integers, FiniteSets

CONSTANTS
    Workers,      \* whoever calls drain
    Receivers,    \* the workers that are receiver threads; the others are sync commands
    MaxRetries,   \* IplanicClient(max_retries)
    MaxEvents,    \* bound: events of the ledger
    MaxDrains,    \* bound: calls of drain
    MaxAges,      \* bound: delivery rows that outlive the retention window
    MaxCrashes    \* bound: crashes and failures of the database

ASSUME RelayAssumption ==
    /\ Receivers \subseteq Workers
    /\ {MaxRetries, MaxEvents, MaxDrains, MaxAges, MaxCrashes} \subseteq Nat

VARIABLES
    log,        \* number of events the stored ledger projects to
    ingested,   \* the keys iplanic holds
    delivery,   \* the delivery table: key -> status, "none" if there is no row
    old,        \* keys whose row is older than the retention window
    worker,     \* the local state of each call of drain
    drains, ages, crashes

vars == <<log, ingested, delivery, old, worker, drains, ages, crashes>>

Keys == 1 .. MaxEvents

\* A response of iplanic: its status and the reject code in its body, if one.
Response == [status : {202, 400, 401, 403, 500},
             code : {"none", "integrity", "timestamp_skew"}]
TransportError == [status |-> 0, code |-> "none"]

Actions == {"none", "advance", "retry", "dead_letter", "halt", "refresh"}

\* pc is the place in drain: "load" before load_settled, "scan" at the head of the
\* loop, "post" in client.deliver, "act" on the outcome, "returned" when it is over.
Local(pc, length, settled, event, action) ==
    [pc |-> pc, length |-> length, settled |-> settled, event |-> event, attempt |-> 0,
     refreshes |-> 0, action |-> action]
Idle == Local("idle", 0, {}, 0, "none")

-----------------------------------------------------------------------------
(* store.py: the delivery table.                                           *)

load_settled == {k \in Keys : delivery[k] # "none"}

\* Mutant: INSERT OR REPLACE, which flips a dead-lettered row.
mark_settled_replace(k) ==
    /\ delivery' = [delivery EXCEPT ![k] = "delivered"]
    /\ old' = old \ {k}

\* INSERT OR IGNORE.
mark_settled(k) ==
    /\ delivery' = [delivery EXCEPT ![k] = IF @ = "none" THEN "delivered" ELSE @]
    /\ UNCHANGED old

\* INSERT OR REPLACE: a delivered row becomes dead-lettered, with a new updated_at.
dead_letter(k) ==
    /\ delivery' = [delivery EXCEPT ![k] = "dead_lettered"]
    /\ old' = old \ {k}

prune_settled ==
    LET gone == {k \in old : delivery[k] = "delivered"}
    IN  /\ delivery' = [k \in Keys |-> IF k \in gone THEN "none" ELSE delivery[k]]
        /\ old' = old \ gone

-----------------------------------------------------------------------------
(* reject.py and client.py.                                                *)

\* The order of the tests is the code's; far says whether the event was older than
\* max_age_s when the drain started, which only a timestamp_skew asks.
classify(r, far) ==
    LET rejected == r.status \in {400, 403}
    IN  CASE r.status = 202 -> "advance"
          [] r.status = 401 -> "refresh"
          [] r.status = 500 -> "retry"
          [] rejected /\ r.code = "integrity" -> "halt"
          [] rejected /\ r.code = "timestamp_skew" ->
                 IF far THEN "dead_letter" ELSE "retry"
          [] r.status = 403 /\ r.code = "none" -> "dead_letter"
          [] r.status = 400 /\ r.code = "none" -> "halt"

\* Mutant: every 401 asks for another token.
deliver_refreshes(w, r, far) ==
    LET again  == r = TransportError \/ r.status >= 500
        action == classify(r, far)
    IN  IF again /\ w.attempt < MaxRetries THEN [w EXCEPT !.attempt = @ + 1]
        ELSE IF r = TransportError THEN Local("raised", 0, {}, 0, "none")
        ELSE IF action = "refresh" THEN [w EXCEPT !.refreshes = 1, !.attempt = 0]
        ELSE Local("act", w.length, w.settled, w.event, action)

\* Mutant: one try too many.
deliver_once_more(w, r, far) ==
    LET again  == r = TransportError \/ r.status >= 500
    IN  IF again /\ w.attempt <= MaxRetries THEN [w EXCEPT !.attempt = @ + 1]
        ELSE IF r = TransportError THEN Local("raised", 0, {}, 0, "none")
        ELSE Local("act", w.length, w.settled, w.event, classify(r, far))

\* One POST of deliver was answered with r: deliver tries again, raises, or returns,
\* and then _deliver_with_refresh calls it once more or settles on an action.
deliver(w, r, far) ==
    LET again  == r = TransportError \/ r.status >= 500
        action == classify(r, far)
    IN  IF again /\ w.attempt < MaxRetries THEN [w EXCEPT !.attempt = @ + 1]
        ELSE IF r = TransportError THEN Local("raised", 0, {}, 0, "none")
        ELSE IF action = "refresh" /\ w.refreshes = 0
             THEN [w EXCEPT !.refreshes = 1, !.attempt = 0]
        ELSE Local("act", w.length, w.settled, w.event,
                   IF action = "refresh" THEN "halt" ELSE action)

-----------------------------------------------------------------------------
(* The loop of drain.                                                      *)

begin_loop(w, settled) == Local("scan", w.length, settled, 1, "none")
next_event(w) == Local("scan", w.length, w.settled, w.event + 1, "none")
post_event(w) == Local("post", w.length, w.settled, w.event, "none")
\* Of its locals only the report is left.
returned(w) == Local("returned", w.length, {}, 0, w.action)

-----------------------------------------------------------------------------
Init ==
    /\ log \in 0 .. MaxEvents
    /\ ingested = {}
    /\ delivery = [k \in Keys |-> "none"]
    /\ old = {}
    /\ worker = [w \in Workers |-> Idle]
    /\ drains = 0 /\ ages = 0 /\ crashes = 0

Bounds == UNCHANGED <<drains, ages, crashes>>

\* sync loads the ledger (a receiver thread has the one it saved) and projects it.
Drain(w) ==
    /\ worker[w].pc = "idle"
    /\ drains < MaxDrains
    /\ drains' = drains + 1
    /\ worker' = [worker EXCEPT ![w] = Local("load", log, {}, 0, "none")]
    /\ UNCHANGED <<log, ingested, delivery, old, ages, crashes>>

\* settled = store.load_settled(...), read once for the whole drain.
LoadSettled(w) ==
    /\ worker[w].pc = "load"
    /\ worker' = [worker EXCEPT ![w] = begin_loop(@, load_settled)]
    /\ UNCHANGED <<log, ingested, delivery, old>>
    /\ Bounds

\* The next event of the loop: skipped if it was settled when the drain began.
Scan(w) ==
    /\ worker[w].pc = "scan"
    /\ worker[w].event <= worker[w].length
    /\ worker' = [worker EXCEPT ![w] =
           IF @.event \in @.settled THEN next_event(@) ELSE post_event(@)]
    /\ UNCHANGED <<log, ingested, delivery, old>>
    /\ Bounds

\* One POST and its answer.  A 202 means that iplanic holds the event; an error or a
\* 5xx may hide that it does; a reject stores nothing.
Post(w) ==
    /\ worker[w].pc = "post"
    /\ \E r \in Response \cup {TransportError}, far \in BOOLEAN,
          kept \in SUBSET {worker[w].event} :
        /\ r.status = 202 => kept # {} /\ r.code = "none"
        /\ kept # {} => r.status \in {0, 202, 500}
        /\ far => r.code = "timestamp_skew"
        /\ ingested' = ingested \cup kept
        /\ worker' = [worker EXCEPT ![w] = deliver(@, r, far)]
    /\ UNCHANGED <<log, delivery, old>>
    /\ Bounds

Settle(w) ==
    /\ worker[w].pc = "act"
    /\ \/ worker[w].action = "advance" /\ mark_settled(worker[w].event)
       \/ worker[w].action = "dead_letter" /\ dead_letter(worker[w].event)
    /\ worker' = [worker EXCEPT ![w] = next_event(@)]
    /\ UNCHANGED <<log, ingested>>
    /\ Bounds

\* Mutant: a transient failure is skipped, and the events after it are tried.
StopSkips(w) ==
    /\ worker[w].pc = "act"
    /\ worker[w].action \in {"retry", "halt"}
    /\ worker' = [worker EXCEPT ![w] = next_event(@)]
    /\ UNCHANGED <<log, ingested, delivery, old>>
    /\ Bounds

\* RETRY and HALT: the event and the rest stay pending for the next drain.
Stop(w) ==
    /\ worker[w].pc = "act"
    /\ worker[w].action \in {"retry", "halt"}
    /\ worker' = [worker EXCEPT ![w] = returned(@)]
    /\ UNCHANGED <<log, ingested, delivery, old>>
    /\ Bounds

Finish(w) ==
    /\ worker[w].pc = "scan"
    /\ worker[w].event > worker[w].length
    /\ worker' = [worker EXCEPT ![w] = returned(@)]
    /\ UNCHANGED <<log, ingested, delivery, old>>
    /\ Bounds

\* Both callers sweep the table after a drain that returned; a receiver thread also
\* after one that raised.
Prune(w) ==
    /\ worker[w].pc = "returned" \/ (worker[w].pc = "raised" /\ w \in Receivers)
    /\ prune_settled
    /\ worker' = [worker EXCEPT ![w] = Idle]
    /\ UNCHANGED <<log, ingested>>
    /\ Bounds

\* TransportError ends a sync command; nothing between drain and main catches it.
Raise(w) ==
    /\ worker[w].pc = "raised"
    /\ w \notin Receivers
    /\ worker' = [worker EXCEPT ![w] = Idle]
    /\ UNCHANGED <<log, ingested, delivery, old>>
    /\ Bounds

\* The process dies.
Crash(w) ==
    /\ worker[w].pc # "idle"
    /\ crashes < MaxCrashes
    /\ crashes' = crashes + 1
    /\ worker' = [worker EXCEPT ![w] = Idle]
    /\ UNCHANGED <<log, ingested, delivery, old, drains, ages>>

\* The database refuses load_settled, mark_settled or dead_letter: drain raises.
StoreFails(w) ==
    /\ worker[w].pc = "load" \/ worker[w].action \in {"advance", "dead_letter"}
    /\ crashes < MaxCrashes
    /\ crashes' = crashes + 1
    /\ worker' = [worker EXCEPT ![w] = Local("raised", 0, {}, 0, "none")]
    /\ UNCHANGED <<log, ingested, delivery, old, drains, ages>>

\* A resume appends to the log and saves the ledger.
Grow ==
    /\ log < MaxEvents
    /\ log' = log + 1
    /\ UNCHANGED <<ingested, delivery, old, worker>>
    /\ Bounds

\* A row gets older than the retention window.
Age ==
    /\ ages < MaxAges
    /\ ages' = ages + 1
    /\ \E k \in load_settled \ old : old' = old \cup {k}
    /\ UNCHANGED <<log, ingested, delivery, worker, drains, crashes>>

Step(w) ==
    \/ LoadSettled(w) \/ Scan(w) \/ Post(w) \/ Settle(w) \/ Stop(w) \/ Finish(w)
    \/ Prune(w) \/ Raise(w)

Next ==
    \/ \E w \in Workers : Drain(w) \/ Step(w) \/ Crash(w) \/ StoreFails(w)
    \/ Grow \/ Age

Spec == Init /\ [][Next]_vars

\* A worker runs by itself.  That a POST is answered, or its connection fails, is an
\* assumption about iplanic and the network: urlopen is called without a timeout.
FairSpec == Spec /\ \A w \in Workers : WF_vars(Step(w))

-----------------------------------------------------------------------------
(* Properties.                                                             *)

TypeOK ==
    /\ log \in 0 .. MaxEvents
    /\ ingested \subseteq Keys
    /\ delivery \in [Keys -> {"none", "delivered", "dead_lettered"}]
    /\ old \subseteq Keys
    /\ worker \in [Workers ->
           [pc : {"idle", "load", "scan", "post", "act", "raised", "returned"},
            length : 0 .. MaxEvents, settled : SUBSET Keys, event : 0 .. MaxEvents + 1,
            attempt : 0 .. MaxRetries, refreshes : 0 .. 1, action : Actions]]
    /\ {drains, ages, crashes} \subseteq Nat

dead == {k \in Keys : delivery[k] = "dead_lettered"}

\* The sync report is the operator's only evidence: when drain returns without a
\* pending event, every event of the ledger it was given is held by iplanic or is in
\* the dead-letter sink, whatever other workers, prunes and lost answers did since it
\* read the settled keys (DrainReport, report.pending empty).
ReportSound ==
    \A w \in Workers :
        worker[w].pc = "returned" /\ worker[w].action = "none"
            => 1 .. worker[w].length \subseteq ingested \cup dead

\* The relay implements the outbox: events arrive in order, an event is passed over
\* only after it was dead-lettered, and a dead-lettered row is neither flipped by
\* mark_settled nor deleted by prune_settled, with any number of concurrent drains.
Promise    == INSTANCE Outbox WITH log <- log, ingested <- ingested, dead <- dead
Implements == Promise!Spec

\* Every drain returns: the retries of deliver, the refresh of the token and the loop
\* over the events are bounded, whatever iplanic answers.
DrainReturns == \A w \in Workers : worker[w].pc # "idle" ~> worker[w].pc = "idle"

-----------------------------------------------------------------------------
\* The inductive invariant.  What a worker has passed, and what the table says is
\* settled, is held by iplanic or is in the sink.
WorkerInv(w, length, held, sink) ==
    /\ w.pc = "idle" => w = Idle
    /\ w.length <= length
    /\ w.pc \in {"scan", "post", "act"} => w.event \in 1 .. w.length + 1
    /\ w.pc \in {"post", "act"} => w.event <= w.length
    /\ w.settled \cup 1 .. w.event - 1 \subseteq held \cup sink
    /\ w.pc = "act" => w.action \in Actions \ {"none", "refresh"}
    /\ w.pc \notin {"act", "returned"} => w.action = "none"
    /\ w.pc = "act" /\ w.action = "advance" => w.event \in held
    /\ w.pc = "returned" /\ w.action = "none" => 1 .. w.length \subseteq held \cup sink

DeliveredHeld(table, held) == \A k \in Keys : table[k] = "delivered" => k \in held

IInv ==
    /\ TypeOK
    /\ DeliveredHeld(delivery, ingested)
    /\ \A w \in Workers : WorkerInv(worker[w], log, ingested, dead)
=============================================================================
