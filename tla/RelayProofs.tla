---------------------------- MODULE RelayProofs ----------------------------
(***************************************************************************)
(* Theorems about Relay, for every number of workers, events and retries:  *)
(* its inductive invariant, the soundness of the sync report, and that it  *)
(* implements Outbox.                                                      *)
(***************************************************************************)
EXTENDS Relay, TLAPS

WorkerState ==
    [pc : {"idle", "load", "scan", "post", "act", "raised", "returned"},
     length : 0 .. MaxEvents, settled : SUBSET Keys, event : 0 .. MaxEvents + 1,
     attempt : 0 .. MaxRetries, refreshes : 0 .. 1, action : Actions]

\* A state with fresh retry counters has the type of its parts.
LEMMA LocalType ==
    ASSUME NEW p \in {"idle", "load", "scan", "post", "act", "raised", "returned"},
           NEW n \in 0 .. MaxEvents, NEW S \in SUBSET Keys, NEW e \in 0 .. MaxEvents + 1,
           NEW a \in Actions
    PROVE  LET v == Local(p, n, S, e, a)
           IN  /\ v \in WorkerState
               /\ v.pc = p /\ v.length = n /\ v.settled = S /\ v.event = e /\ v.action = a
  <1>1. MaxEvents \in Nat /\ MaxRetries \in Nat
    BY RelayAssumption
  <1> QED
    BY <1>1 DEF Local, WorkerState

\* classify always decides, and advances on a 202 only.
LEMMA ClassifyDecides ==
    ASSUME NEW r \in Response, NEW far \in BOOLEAN
    PROVE  /\ classify(r, far) \in Actions \ {"none"}
           /\ classify(r, far) = "advance" <=> r.status = 202
  BY DEF classify, Response, Actions

\* What one POST leaves of a worker: it tries the event again, has raised, or acts on
\* an outcome, on "advance" only after a 202.
LEMMA DeliverSteps ==
    ASSUME NEW w \in WorkerState, NEW far \in BOOLEAN,
           NEW r \in Response \cup {TransportError}, w.pc = "post",
           NEW v, v = deliver(w, r, far)
    PROVE  /\ v \in WorkerState
           /\ \/ /\ v.pc = "post" /\ v.length = w.length /\ v.settled = w.settled
                 /\ v.event = w.event /\ v.action = w.action
              \/ /\ v.pc = "raised" /\ v.length = 0 /\ v.settled = {}
                 /\ v.event = 0 /\ v.action = "none"
              \/ /\ v.pc = "act" /\ v.length = w.length /\ v.settled = w.settled
                 /\ v.event = w.event /\ v.action \in Actions \ {"none", "refresh"}
                 /\ v.action = "advance" => r.status = 202
  <1> DEFINE again == r = TransportError \/ r.status >= 500
  <1>0. MaxRetries \in Nat /\ MaxEvents \in Nat
    BY RelayAssumption
  <1>f. /\ w.length \in 0 .. MaxEvents /\ w.settled \in SUBSET Keys
        /\ w.event \in 0 .. MaxEvents + 1 /\ w.attempt \in 0 .. MaxRetries
    BY DEF WorkerState
  <1>1. CASE again /\ w.attempt < MaxRetries
    <2>1. v = [w EXCEPT !.attempt = @ + 1]
      BY <1>1 DEF deliver
    <2>2. w.attempt + 1 \in 0 .. MaxRetries
      BY <1>0, <1>1, <1>f
    <2> QED
      BY <2>1, <2>2 DEF WorkerState
  <1>2. CASE ~(again /\ w.attempt < MaxRetries) /\ r = TransportError
    <2>1. v = Local("raised", 0, {}, 0, "none")
      BY <1>2 DEF deliver
    <2>2. 0 \in 0 .. MaxEvents /\ 0 \in 0 .. MaxEvents + 1 /\ "none" \in Actions
      BY <1>0 DEF Actions
    <2> QED
      BY <2>1, <2>2, LocalType
  <1>3. CASE ~(again /\ w.attempt < MaxRetries) /\ r # TransportError
    <2>1. CASE classify(r, far) = "refresh" /\ w.refreshes = 0
      <3>1. v = [w EXCEPT !.refreshes = 1, !.attempt = 0]
        BY <1>3, <2>1 DEF deliver
      <3>2. v = [pc |-> w.pc, length |-> w.length, settled |-> w.settled,
                 event |-> w.event, attempt |-> 0, refreshes |-> 1, action |-> w.action]
        BY <3>1 DEF WorkerState
      <3> QED
        BY <3>2, <1>0 DEF WorkerState
    <2>2. CASE ~(classify(r, far) = "refresh" /\ w.refreshes = 0)
      <3> DEFINE a == IF classify(r, far) = "refresh" THEN "halt" ELSE classify(r, far)
      <3>1. v = Local("act", w.length, w.settled, w.event, a)
        BY <1>3, <2>2 DEF deliver
      <3>2. a \in Actions \ {"none", "refresh"} /\ (a = "advance" => r.status = 202)
        BY <1>3, ClassifyDecides DEF Actions
      <3> HIDE DEF a
      <3> QED
        BY <3>1, <3>2, <1>f, LocalType
    <2> QED
      BY <2>1, <2>2
  <1> QED
    BY <1>1, <1>2, <1>3

\* What keeps the invariant of a worker that does not move: the log, the keys iplanic
\* holds and the sink only grow.
LEMMA WorkerInvMonotone ==
    ASSUME NEW w \in WorkerState, NEW n \in Nat, NEW m \in Nat, n <= m,
           NEW got, NEW sink, NEW got2, NEW sink2, got \subseteq got2, sink \subseteq sink2,
           WorkerInv(w, n, got, sink)
    PROVE  WorkerInv(w, m, got2, sink2)
  <1>1. w.length \in Int /\ w.length <= m
    BY RelayAssumption DEF WorkerInv, WorkerState
  <1> QED
    BY <1>1 DEF WorkerInv

\* What the invariant says of the tables and of one worker.
LEMMA Facts ==
    ASSUME IInv, NEW w \in Workers
    PROVE  /\ worker[w] \in WorkerState
           /\ WorkerInv(worker[w], log, ingested, dead)
           /\ worker[w].length \in 0 .. MaxEvents /\ worker[w].settled \in SUBSET Keys
           /\ worker[w].event \in 0 .. MaxEvents + 1 /\ worker[w].action \in Actions
           /\ DeliveredHeld(delivery, ingested)
           /\ delivery \in [Keys -> {"none", "delivered", "dead_lettered"}]
           /\ old \subseteq Keys /\ ingested \subseteq Keys
           /\ log \in 0 .. MaxEvents /\ log \in Nat
           /\ MaxEvents \in Nat /\ MaxRetries \in Nat
           /\ {drains, ages, crashes} \subseteq Nat
  <1>1. worker[w] \in WorkerState
    BY DEF IInv, TypeOK, WorkerState
  <1>2. /\ worker[w].length \in 0 .. MaxEvents /\ worker[w].settled \in SUBSET Keys
        /\ worker[w].event \in 0 .. MaxEvents + 1 /\ worker[w].action \in Actions
    BY <1>1 DEF WorkerState
  <1> QED
    BY <1>1, <1>2, RelayAssumption DEF IInv, TypeOK

\* An action that moves one worker keeps the invariant if it keeps the tables in order,
\* takes nothing back, and leaves that worker in order.
LEMMA OneWorkerMoves ==
    ASSUME IInv, NEW w \in Workers, NEW v \in WorkerState,
           worker' = [worker EXCEPT ![w] = v], WorkerInv(v, log', ingested', dead'),
           log' \in 0 .. MaxEvents, log <= log',
           ingested \subseteq ingested', ingested' \subseteq Keys, dead \subseteq dead',
           delivery' \in [Keys -> {"none", "delivered", "dead_lettered"}],
           old' \subseteq Keys,
           {drains', ages', crashes'} \subseteq Nat,
           DeliveredHeld(delivery', ingested')
    PROVE  IInv'
  <1>1. /\ log \in Nat /\ log' \in Nat /\ worker \in [Workers -> WorkerState]
        /\ \A u \in Workers : WorkerInv(worker[u], log, ingested, dead)
    BY RelayAssumption DEF IInv, TypeOK, WorkerState
  <1>2. worker' \in [Workers -> WorkerState]
    BY <1>1
  <1>3. TypeOK'
    BY <1>1, <1>2 DEF TypeOK, WorkerState
  <1>4. ASSUME NEW u \in Workers
        PROVE  WorkerInv(worker'[u], log', ingested', dead')
    <2>1. CASE u = w
      BY <2>1, <1>1
    <2>2. CASE u # w
      <3>1. worker'[u] = worker[u] /\ worker[u] \in WorkerState
        BY <2>2, <1>1
      <3> QED
        BY <3>1, <1>1, WorkerInvMonotone
    <2> QED
      BY <2>1, <2>2
  <1> QED
    BY <1>3, <1>4 DEF IInv

\* An action that moves one worker and nothing else.
LEMMA OnlyWorkerMoves ==
    ASSUME IInv, NEW w \in Workers, NEW v \in WorkerState,
           worker' = [worker EXCEPT ![w] = v], WorkerInv(v, log, ingested, dead),
           UNCHANGED <<log, ingested, delivery, old>>,
           {drains', ages', crashes'} \subseteq Nat
    PROVE  IInv'
  <1>1. dead' = dead /\ log' = log /\ ingested' = ingested /\ delivery' = delivery /\ old' = old
    BY DEF dead
  <1>2. /\ log' \in 0 .. MaxEvents /\ log <= log'
        /\ ingested \subseteq ingested' /\ ingested' \subseteq Keys /\ dead \subseteq dead'
        /\ delivery' \in [Keys -> {"none", "delivered", "dead_lettered"}]
        /\ old' \subseteq Keys /\ DeliveredHeld(delivery', ingested')
    BY <1>1, Facts
  <1>3. WorkerInv(v, log', ingested', dead')
    BY <1>1
  <1> QED
    BY <1>2, <1>3, OneWorkerMoves

-----------------------------------------------------------------------------
(* Each action keeps the invariant.                                        *)

\* A new drain has passed nothing and read nothing.
LEMMA DrainKeeps == ASSUME IInv, NEW w \in Workers, Drain(w) PROVE IInv'
  <1> DEFINE v == Local("load", log, {}, 0, "none")
  <1>f. log \in 0 .. MaxEvents /\ MaxEvents \in Nat /\ {drains, ages, crashes} \subseteq Nat
    BY Facts
  <1>1. /\ v \in WorkerState /\ v.pc = "load" /\ v.length = log /\ v.settled = {}
        /\ v.event = 0 /\ v.action = "none"
    <2>1. 0 \in 0 .. MaxEvents + 1 /\ "none" \in Actions
      BY <1>f DEF Actions
    <2> QED
      BY <2>1, <1>f, LocalType
  <1>2. worker' = [worker EXCEPT ![w] = v]
    BY DEF Drain
  <1>3. {drains', ages', crashes'} \subseteq Nat
    BY <1>f DEF Drain
  <1> HIDE DEF v
  <1>4. WorkerInv(v, log, ingested, dead)
    BY <1>1, <1>f DEF WorkerInv
  <1> QED
    BY <1>1, <1>2, <1>3, <1>4, OnlyWorkerMoves DEF Drain

\* What a drain reads as settled is settled, and stays so.
LEMMA LoadSettledKeeps == ASSUME IInv, NEW w \in Workers, LoadSettled(w) PROVE IInv'
  <1> DEFINE u == worker[w]
             v == Local("scan", u.length, load_settled, 1, "none")
  <1>f. /\ u \in WorkerState /\ WorkerInv(u, log, ingested, dead)
        /\ u.length \in 0 .. MaxEvents /\ DeliveredHeld(delivery, ingested)
        /\ delivery \in [Keys -> {"none", "delivered", "dead_lettered"}]
        /\ {drains, ages, crashes} \subseteq Nat /\ MaxEvents \in Nat
    BY Facts
  <1>1. /\ v \in WorkerState /\ v.pc = "scan" /\ v.length = u.length
        /\ v.settled = load_settled /\ v.event = 1 /\ v.action = "none"
    <2>1. 1 \in 0 .. MaxEvents + 1 /\ "none" \in Actions /\ load_settled \in SUBSET Keys
      BY <1>f DEF Actions, load_settled
    <2> QED
      BY <2>1, <1>f, LocalType
  <1>2. worker' = [worker EXCEPT ![w] = v]
    BY DEF LoadSettled, begin_loop
  <1>3. load_settled \subseteq ingested \cup dead
    BY <1>f DEF load_settled, dead, DeliveredHeld
  <1>4. u.length <= log /\ u.length \in Nat
    BY <1>f DEF WorkerInv
  <1> HIDE DEF u, v
  <1>5. WorkerInv(v, log, ingested, dead)
    BY <1>1, <1>3, <1>4 DEF WorkerInv
  <1> QED
    BY <1>f, <1>1, <1>2, <1>5, OnlyWorkerMoves DEF LoadSettled, Bounds

\* The next event: what is behind it has been dealt with.
LEMMA NextEventInv ==
    ASSUME NEW u \in WorkerState, NEW n \in Nat, NEW got, NEW sink,
           WorkerInv(u, n, got, sink), u.event \in got \cup sink,
           u.pc \in {"scan", "act"}, u.event <= u.length
    PROVE  next_event(u) \in WorkerState /\ WorkerInv(next_event(u), n, got, sink)
  <1> DEFINE v == next_event(u)
  <1>0. MaxEvents \in Nat
    BY RelayAssumption
  <1>1. /\ u.length \in 0 .. MaxEvents /\ u.settled \in SUBSET Keys
        /\ u.event \in 0 .. MaxEvents + 1
    BY DEF WorkerState
  <1>2. /\ u.event \in 1 .. u.length /\ u.length <= n
        /\ u.settled \cup 1 .. u.event - 1 \subseteq got \cup sink
    BY <1>0, <1>1 DEF WorkerInv
  <1>3. u.event + 1 \in 0 .. MaxEvents + 1 /\ "none" \in Actions
    BY <1>0, <1>1, <1>2 DEF Actions
  <1>4. /\ v \in WorkerState /\ v.pc = "scan" /\ v.length = u.length
        /\ v.settled = u.settled /\ v.event = u.event + 1 /\ v.action = "none"
    BY <1>1, <1>3, LocalType DEF next_event
  <1> HIDE DEF v
  <1>5. 1 .. v.event - 1 \subseteq got \cup sink
    BY <1>1, <1>2, <1>4
  <1>6. v.event \in 1 .. v.length + 1
    BY <1>0, <1>1, <1>2, <1>4
  <1>7. WorkerInv(v, n, got, sink)
    BY <1>2, <1>4, <1>5, <1>6 DEF WorkerInv
  <1> QED
    BY <1>4, <1>7 DEF v

\* Passing an event that was read as settled claims nothing new.
LEMMA ScanKeeps == ASSUME IInv, NEW w \in Workers, Scan(w) PROVE IInv'
  <1> DEFINE u == worker[w]
             v == IF u.event \in u.settled THEN next_event(u) ELSE post_event(u)
  <1>f. /\ u \in WorkerState /\ WorkerInv(u, log, ingested, dead) /\ log \in Nat
        /\ u.length \in 0 .. MaxEvents /\ u.settled \in SUBSET Keys
        /\ u.event \in 0 .. MaxEvents + 1
        /\ {drains, ages, crashes} \subseteq Nat /\ MaxEvents \in Nat
    BY Facts
  <1>0. u.pc = "scan" /\ u.event <= u.length
    BY DEF Scan
  <1>1. worker' = [worker EXCEPT ![w] = v]
    BY DEF Scan
  <1> HIDE DEF u
  <1>2. v \in WorkerState /\ WorkerInv(v, log, ingested, dead)
    <2>1. CASE u.event \in u.settled
      <3>1. u.event \in ingested \cup dead
        BY <2>1, <1>f DEF WorkerInv
      <3> QED
        BY <3>1, <2>1, <1>f, <1>0, NextEventInv
    <2>2. CASE u.event \notin u.settled
      <3>1. /\ v \in WorkerState /\ v.pc = "post" /\ v.length = u.length
            /\ v.settled = u.settled /\ v.event = u.event /\ v.action = "none"
        BY <2>2, <1>f, LocalType DEF post_event, Actions
      <3> HIDE DEF v
      <3> QED
        BY <3>1, <1>f, <1>0 DEF WorkerInv
    <2> QED
      BY <2>1, <2>2
  <1> HIDE DEF v
  <1> QED
    BY <1>f, <1>1, <1>2, OnlyWorkerMoves DEF Scan, Bounds

\* A POST may give iplanic the event; a worker believes so after a 202 only.
LEMMA PostKeeps == ASSUME IInv, NEW w \in Workers, Post(w) PROVE IInv'
  <1> DEFINE u == worker[w]
  <1>f. /\ u \in WorkerState /\ WorkerInv(u, log, ingested, dead)
        /\ log \in 0 .. MaxEvents /\ log \in Nat
        /\ u.length \in 0 .. MaxEvents /\ u.event \in 0 .. MaxEvents + 1
        /\ {drains, ages, crashes} \subseteq Nat /\ MaxEvents \in Nat
        /\ DeliveredHeld(delivery, ingested) /\ old \subseteq Keys /\ ingested \subseteq Keys
        /\ delivery \in [Keys -> {"none", "delivered", "dead_lettered"}]
    BY Facts
  <1>1. PICK r \in Response \cup {TransportError}, far \in BOOLEAN,
             kept \in SUBSET {worker[w].event} :
            /\ r.status = 202 => kept # {} /\ r.code = "none"
            /\ kept # {} => r.status \in {0, 202, 500}
            /\ far => r.code = "timestamp_skew"
            /\ ingested' = ingested \cup kept
            /\ worker' = [worker EXCEPT ![w] = deliver(worker[w], r, far)]
    BY Zenon DEF Post
  <1>2. u.pc = "post" /\ UNCHANGED <<log, delivery, old, drains, ages, crashes>>
    BY DEF Post, Bounds
  <1>3. PICK v : v = deliver(u, r, far)
    OBVIOUS
  <1> HIDE DEF u
  <1>4. u.event \in 1 .. u.length /\ u.length <= log /\ u.action = "none"
    BY <1>f, <1>2 DEF WorkerInv
  <1>5. ingested \subseteq ingested' /\ ingested' \subseteq Keys
    <2>1. u.event \in Keys
      BY <1>4, <1>f DEF Keys
    <2> QED
      BY <2>1, <1>1, <1>f DEF u
  <1>6. dead' = dead /\ DeliveredHeld(delivery', ingested')
    BY <1>2, <1>5, <1>f DEF dead, DeliveredHeld
  <1>7. WorkerInv(u, log, ingested', dead)
    BY <1>f, <1>5, WorkerInvMonotone
  <1>8. /\ v \in WorkerState
        /\ \/ /\ v.pc = "post" /\ v.length = u.length /\ v.settled = u.settled
              /\ v.event = u.event /\ v.action = u.action
           \/ /\ v.pc = "raised" /\ v.length = 0 /\ v.settled = {}
              /\ v.event = 0 /\ v.action = "none"
           \/ /\ v.pc = "act" /\ v.length = u.length /\ v.settled = u.settled
              /\ v.event = u.event /\ v.action \in Actions \ {"none", "refresh"}
              /\ v.action = "advance" => r.status = 202
    BY <1>f, <1>2, <1>3, DeliverSteps
  <1>9. r.status = 202 => u.event \in ingested'
    BY <1>1 DEF u
  <1>10. WorkerInv(v, log, ingested', dead)
    <2>1. CASE v.pc = "post"
      BY <2>1, <1>2, <1>7, <1>8 DEF WorkerInv
    <2>2. CASE v.pc = "raised"
      BY <2>2, <1>8, <1>f DEF WorkerInv
    <2>3. CASE v.pc = "act"
      BY <2>3, <1>2, <1>7, <1>8, <1>9 DEF WorkerInv
    <2> QED
      BY <1>8, <2>1, <2>2, <2>3
  <1>11. worker' = [worker EXCEPT ![w] = v]
    BY <1>1, <1>3 DEF u
  <1>12. /\ WorkerInv(v, log', ingested', dead') /\ log' \in 0 .. MaxEvents /\ log <= log'
         /\ dead \subseteq dead' /\ old' \subseteq Keys
         /\ delivery' \in [Keys -> {"none", "delivered", "dead_lettered"}]
         /\ {drains', ages', crashes'} \subseteq Nat
    BY <1>2, <1>6, <1>10, <1>f
  <1> QED
    BY <1>5, <1>6, <1>8, <1>11, <1>12, OneWorkerMoves

\* Marking or dead-lettering the event at hand leaves every earlier one settled.
LEMMA SettleKeeps == ASSUME IInv, NEW w \in Workers, Settle(w) PROVE IInv'
  <1> DEFINE u == worker[w]
             v == next_event(u)
             e == u.event
  <1>f. /\ u \in WorkerState /\ WorkerInv(u, log, ingested, dead)
        /\ log \in 0 .. MaxEvents /\ log \in Nat
        /\ u.length \in 0 .. MaxEvents /\ e \in 0 .. MaxEvents + 1
        /\ {drains, ages, crashes} \subseteq Nat /\ MaxEvents \in Nat
        /\ DeliveredHeld(delivery, ingested) /\ old \subseteq Keys /\ ingested \subseteq Keys
        /\ delivery \in [Keys -> {"none", "delivered", "dead_lettered"}]
    BY Facts
  <1>1. /\ u.pc = "act" /\ worker' = [worker EXCEPT ![w] = v]
        /\ UNCHANGED <<log, ingested, drains, ages, crashes>>
    BY DEF Settle, Bounds
  <1>2. \/ u.action = "advance" /\ mark_settled(e)
        \/ u.action = "dead_letter" /\ dead_letter(e)
    BY DEF Settle
  <1> HIDE DEF u
  <1>3. /\ e \in 1 .. u.length /\ e \in Keys /\ u.length <= log
        /\ u.action = "advance" => e \in ingested
    BY <1>f, <1>1 DEF WorkerInv, Keys
  <1> HIDE DEF e
  <1>4. /\ delivery' \in [Keys -> {"none", "delivered", "dead_lettered"}]
        /\ old' \subseteq Keys /\ dead \subseteq dead' /\ DeliveredHeld(delivery', ingested)
        /\ e \in ingested \cup dead'
    <2>1. CASE u.action = "advance" /\ mark_settled(e)
      BY <2>1, <1>3, <1>f DEF mark_settled, dead, DeliveredHeld
    <2>2. CASE u.action = "dead_letter" /\ dead_letter(e)
      BY <2>2, <1>3, <1>f DEF dead_letter, dead, DeliveredHeld
    <2> QED
      BY <1>2, <2>1, <2>2
  <1>5. WorkerInv(u, log, ingested, dead')
    BY <1>f, <1>4, WorkerInvMonotone
  <1>6. v \in WorkerState /\ WorkerInv(v, log, ingested, dead')
    BY <1>1, <1>3, <1>4, <1>5, <1>f, NextEventInv DEF e
  <1> HIDE DEF v
  <1>7. /\ log' \in 0 .. MaxEvents /\ log <= log' /\ ingested \subseteq ingested'
        /\ ingested' \subseteq Keys /\ {drains', ages', crashes'} \subseteq Nat
        /\ WorkerInv(v, log', ingested', dead') /\ DeliveredHeld(delivery', ingested')
    BY <1>1, <1>4, <1>6, <1>f
  <1> QED
    BY <1>1, <1>4, <1>6, <1>7, OneWorkerMoves

\* A drain that is over: its report is sound.
LEMMA ReturnKeeps ==
    ASSUME IInv, NEW w \in Workers, worker' = [worker EXCEPT ![w] = returned(worker[w])],
           \/ worker[w].pc = "act" /\ worker[w].action \in {"retry", "halt"}
           \/ worker[w].pc = "scan" /\ worker[w].event > worker[w].length,
           UNCHANGED <<log, ingested, delivery, old, drains, ages, crashes>>
    PROVE  IInv'
  <1> DEFINE u == worker[w]
             v == returned(u)
  <1>f. /\ u \in WorkerState /\ WorkerInv(u, log, ingested, dead)
        /\ u.length \in 0 .. MaxEvents /\ u.action \in Actions /\ log \in Nat
        /\ u.event \in 0 .. MaxEvents + 1
        /\ {drains, ages, crashes} \subseteq Nat /\ MaxEvents \in Nat
    BY Facts
  <1>1. /\ v \in WorkerState /\ v.pc = "returned" /\ v.length = u.length
        /\ v.settled = {} /\ v.event = 0 /\ v.action = u.action
    <2>1. 0 \in 0 .. MaxEvents + 1 /\ {} \in SUBSET Keys
      BY <1>f
    <2> QED
      BY <2>1, <1>f, LocalType DEF returned
  <1>2. u.action = "none" => 1 .. u.length \subseteq ingested \cup dead
    <2>1. CASE u.pc = "act" /\ u.action \in {"retry", "halt"}
      BY <2>1
    <2>2. CASE u.pc = "scan" /\ u.event > u.length
      <3>1. 1 .. u.length \subseteq 1 .. u.event - 1
        BY <2>2, <1>f
      <3> QED
        BY <3>1, <1>f DEF WorkerInv
    <2> QED
      BY <2>1, <2>2
  <1>3. u.length <= log
    BY <1>f DEF WorkerInv
  <1> HIDE DEF u, v
  <1>4. WorkerInv(v, log, ingested, dead)
    BY <1>1, <1>2, <1>3, <1>f DEF WorkerInv
  <1> QED
    BY <1>1, <1>4, <1>f, OnlyWorkerMoves DEF u, v

\* A worker that goes: the idle state is in order.
LEMMA IdleInv ==
    ASSUME NEW n \in Nat, NEW got, NEW sink
    PROVE  Idle \in WorkerState /\ WorkerInv(Idle, n, got, sink)
  <1>0. MaxEvents \in Nat
    BY RelayAssumption
  <1>1. 0 \in 0 .. MaxEvents /\ 0 \in 0 .. MaxEvents + 1 /\ "none" \in Actions
        /\ {} \in SUBSET Keys
    BY <1>0 DEF Actions
  <1>2. /\ Idle \in WorkerState /\ Idle.pc = "idle" /\ Idle.length = 0
        /\ Idle.settled = {} /\ Idle.event = 0 /\ Idle.action = "none"
    BY <1>1, LocalType DEF Idle
  <1> QED
    BY <1>2 DEF WorkerInv

\* Removing delivered rows takes nothing from iplanic and no dead letter away.
LEMMA PruneKeeps == ASSUME IInv, NEW w \in Workers, Prune(w) PROVE IInv'
  <1>f. /\ log \in 0 .. MaxEvents /\ log \in Nat /\ {drains, ages, crashes} \subseteq Nat
        /\ DeliveredHeld(delivery, ingested) /\ old \subseteq Keys /\ ingested \subseteq Keys
        /\ delivery \in [Keys -> {"none", "delivered", "dead_lettered"}]
    BY Facts
  <1>1. /\ delivery' \in [Keys -> {"none", "delivered", "dead_lettered"}]
        /\ old' \subseteq Keys /\ dead \subseteq dead' /\ DeliveredHeld(delivery', ingested)
    BY <1>f DEF Prune, prune_settled, dead, DeliveredHeld
  <1>2. /\ worker' = [worker EXCEPT ![w] = Idle]
        /\ UNCHANGED <<log, ingested, drains, ages, crashes>>
    BY DEF Prune, Bounds
  <1>3. Idle \in WorkerState /\ WorkerInv(Idle, log', ingested', dead')
    BY <1>f, <1>2, IdleInv
  <1>4. /\ log' \in 0 .. MaxEvents /\ log <= log' /\ ingested \subseteq ingested'
        /\ ingested' \subseteq Keys /\ {drains', ages', crashes'} \subseteq Nat
        /\ DeliveredHeld(delivery', ingested')
    BY <1>1, <1>2, <1>f
  <1> QED
    BY <1>1, <1>2, <1>3, <1>4, OneWorkerMoves

\* A worker whose drain raised has no locals left.
LEMMA RaisedInv ==
    ASSUME NEW length \in Nat, NEW held, NEW sink
    PROVE  LET raised == Local("raised", 0, {}, 0, "none")
           IN  raised \in WorkerState /\ WorkerInv(raised, length, held, sink)
  <1> DEFINE raised == Local("raised", 0, {}, 0, "none")
  <1>0. MaxEvents \in Nat
    BY RelayAssumption
  <1>1. 0 \in 0 .. MaxEvents /\ 0 \in 0 .. MaxEvents + 1 /\ "none" \in Actions
        /\ {} \in SUBSET Keys
    BY <1>0 DEF Actions
  <1>2. /\ raised \in WorkerState /\ raised.pc = "raised" /\ raised.length = 0
        /\ raised.settled = {} /\ raised.event = 0 /\ raised.action = "none"
    BY <1>1, LocalType
  <1> HIDE DEF raised
  <1>3. WorkerInv(raised, length, held, sink)
    BY <1>2 DEF WorkerInv
  <1> QED
    BY <1>2, <1>3 DEF raised

\* Raise, Crash and StoreFails: the worker goes and leaves everything else alone.
LEMMA LeaveKeeps ==
    ASSUME IInv, NEW w \in Workers, NEW u,
           u = Idle \/ u = Local("raised", 0, {}, 0, "none"),
           worker' = [worker EXCEPT ![w] = u],
           UNCHANGED <<log, ingested, delivery, old>>,
           {drains', ages', crashes'} \subseteq Nat
    PROVE  IInv'
  <1>1. u \in WorkerState /\ WorkerInv(u, log, ingested, dead)
    BY Facts, IdleInv, RaisedInv
  <1> QED
    BY <1>1, OnlyWorkerMoves

\* Grow and Age: no worker moves, and the log only grows.
LEMMA NoWorkerMoves ==
    ASSUME IInv, UNCHANGED <<worker, ingested, delivery>>, log' \in 0 .. MaxEvents,
           log <= log', old' \subseteq Keys, {drains', ages', crashes'} \subseteq Nat
    PROVE  IInv'
  <1>1. /\ log \in Nat /\ log' \in Nat /\ worker \in [Workers -> WorkerState]
        /\ \A u \in Workers : WorkerInv(worker[u], log, ingested, dead)
    BY RelayAssumption DEF IInv, TypeOK, WorkerState
  <1>2. dead' = dead
    BY DEF dead
  <1>3. \A u \in Workers : WorkerInv(worker[u], log', ingested, dead)
    BY <1>1, WorkerInvMonotone
  <1>4. TypeOK'
    BY DEF TypeOK, IInv
  <1> QED
    BY <1>2, <1>3, <1>4 DEF IInv

-----------------------------------------------------------------------------
\* The invariant behind the theorems below: what a worker has passed, what it read as
\* settled and what the table calls delivered is held by iplanic or dead-lettered.
THEOREM Inductive == Spec => []IInv
  <1>1. Init => IInv
    <2> SUFFICES ASSUME Init PROVE IInv
      OBVIOUS
    <2>1. log \in 0 .. MaxEvents /\ log \in Nat
      BY RelayAssumption DEF Init
    <2>2. worker = [w \in Workers |-> Idle] /\ Idle \in WorkerState
      BY <2>1, IdleInv DEF Init
    <2>3. TypeOK
      BY <2>1, <2>2 DEF Init, TypeOK, WorkerState
    <2>4. \A w \in Workers : WorkerInv(worker[w], log, ingested, dead)
      BY <2>1, <2>2, IdleInv
    <2>5. DeliveredHeld(delivery, ingested)
      BY DEF Init, DeliveredHeld
    <2> QED
      BY <2>3, <2>4, <2>5 DEF IInv
  <1>2. IInv /\ [Next]_vars => IInv'
    <2> SUFFICES ASSUME IInv, [Next]_vars PROVE IInv'
      OBVIOUS
    <2>1. ASSUME NEW w \in Workers, Drain(w) \/ Step(w) \/ Crash(w) \/ StoreFails(w)
          PROVE  IInv'
      <3>0. {drains, ages, crashes} \subseteq Nat
        BY Facts
      <3>1. CASE Stop(w)
        BY <3>1, ReturnKeeps DEF Stop, Bounds
      <3>2. CASE Finish(w)
        BY <3>2, ReturnKeeps DEF Finish, Bounds
      <3>3. CASE Raise(w)
        BY <3>0, <3>3, LeaveKeeps DEF Raise, Bounds
      <3>4. CASE Crash(w)
        <4>1. {drains', ages', crashes'} \subseteq Nat
          BY <3>0, <3>4 DEF Crash
        <4> QED
          BY <4>1, <3>4, LeaveKeeps DEF Crash
      <3>5. CASE StoreFails(w)
        <4>1. {drains', ages', crashes'} \subseteq Nat
          BY <3>0, <3>5 DEF StoreFails
        <4> QED
          BY <4>1, <3>5, LeaveKeeps DEF StoreFails
      <3> QED
        BY <2>1, <3>1, <3>2, <3>3, <3>4, <3>5, DrainKeeps, LoadSettledKeeps, ScanKeeps,
           PostKeeps, SettleKeeps, PruneKeeps DEF Step
    <2>2. CASE Grow
      <3>1. log' \in 0 .. MaxEvents /\ log <= log'
        BY <2>2, RelayAssumption DEF Grow, IInv, TypeOK
      <3> QED
        BY <2>2, <3>1, NoWorkerMoves DEF Grow, Bounds, IInv, TypeOK
    <2>3. CASE Age
      <3>1. log' \in 0 .. MaxEvents /\ log <= log'
        BY <2>3, RelayAssumption DEF Age, IInv, TypeOK
      <3>2. old' \subseteq Keys /\ {drains', ages', crashes'} \subseteq Nat
        BY <2>3 DEF Age, IInv, TypeOK, load_settled
      <3> QED
        BY <2>3, <3>1, <3>2, NoWorkerMoves DEF Age
    <2>4. CASE UNCHANGED vars
      <3>1. log' \in 0 .. MaxEvents /\ log <= log'
        BY <2>4, RelayAssumption DEF vars, IInv, TypeOK
      <3> QED
        BY <2>4, <3>1, NoWorkerMoves DEF vars, IInv, TypeOK
    <2> QED
      BY <2>1, <2>2, <2>3, <2>4 DEF Next
  <1> QED
    BY <1>1, <1>2, PTL DEF Spec

\* Every variable keeps its type; in particular no event is posted more than
\* MaxRetries + 1 times on one token (client.deliver).
THEOREM TypeCorrect == Spec => []TypeOK
  <1>1. IInv => TypeOK
    BY DEF IInv
  <1> QED
    BY <1>1, Inductive, PTL

\* A drain that returns nothing pending has seen every event of its ledger into iplanic
\* or into the dead-letter sink (DrainReport of relay/worker.py).
THEOREM ReportSoundHolds == Spec => []ReportSound
  <1>1. IInv => ReportSound
    BY DEF IInv, WorkerInv, ReportSound
  <1> QED
    BY <1>1, Inductive, PTL

-----------------------------------------------------------------------------
(* The refinement.  Only a POST, a dead letter and growth of the log are   *)
(* steps of the outbox; everything else stutters.                          *)

\* A POST is an arrival in the outbox, in order, or a stutter.
LEMMA PostArrives ==
    ASSUME IInv, NEW w \in Workers, Post(w)
    PROVE  [Promise!Next]_(Promise!vars)
  <1> DEFINE e == worker[w].event
  <1>1. PICK kept \in SUBSET {e} : ingested' = ingested \cup kept
    BY DEF Post
  <1>2. log' = log /\ dead' = dead
    BY DEF Post, dead
  <1>3. e \in 1 .. log /\ 1 .. e - 1 \subseteq ingested \cup dead
    <2>1. /\ WorkerInv(worker[w], log, ingested, dead) /\ worker[w].length \in 0 .. MaxEvents
          /\ log \in Nat /\ MaxEvents \in Nat
      BY Facts
    <2> QED
      BY <2>1 DEF WorkerInv, Post
  <1>4. CASE kept = {}
    BY <1>1, <1>2, <1>4 DEF Promise!vars
  <1>5. CASE kept = {e}
    BY <1>1, <1>2, <1>3, <1>5 DEF Promise!Next, Promise!Arrive, Promise!Due
  <1> QED
    BY <1>4, <1>5

\* A dead letter is given up in the outbox, in order; a delivered row is a stutter.
LEMMA SettleGivesUp ==
    ASSUME IInv, NEW w \in Workers, Settle(w)
    PROVE  [Promise!Next]_(Promise!vars)
  <1> DEFINE e == worker[w].event
  <1>f. /\ WorkerInv(worker[w], log, ingested, dead) /\ worker[w].length \in 0 .. MaxEvents
        /\ log \in 0 .. MaxEvents /\ MaxEvents \in Nat
        /\ delivery \in [Keys -> {"none", "delivered", "dead_lettered"}]
    BY Facts
  <1>1. log' = log /\ ingested' = ingested
    BY DEF Settle
  <1>2. e \in 1 .. log /\ 1 .. e - 1 \subseteq ingested \cup dead /\ e \in Keys
    BY <1>f DEF WorkerInv, Settle, Keys
  <1> HIDE DEF e
  <1>3. CASE mark_settled(e)
    <2>1. dead' = dead
      BY <1>2, <1>3, <1>f DEF mark_settled, dead
    <2> QED
      BY <1>1, <2>1 DEF Promise!vars
  <1>4. CASE dead_letter(e)
    <2>1. dead' = dead \cup {e}
      BY <1>2, <1>4, <1>f DEF dead_letter, dead
    <2> QED
      BY <1>1, <1>2, <2>1 DEF Promise!Next, Promise!GiveUp, Promise!Due
  <1> QED
    BY <1>3, <1>4 DEF Settle, e

\* The relay implements the outbox, for every number of concurrent drains, crashes,
\* prunes and lost answers (relay/worker.py, relay/store.py).
THEOREM Refinement == Spec => Implements
  <1>1. Init => Promise!Init
    BY RelayAssumption DEF Init, Promise!Init, dead
  <1>2. IInv /\ [Next]_vars => [Promise!Next]_(Promise!vars)
    <2> SUFFICES ASSUME IInv, [Next]_vars PROVE [Promise!Next]_(Promise!vars)
      OBVIOUS
    <2>1. ASSUME NEW w \in Workers, Drain(w) \/ Step(w) \/ Crash(w) \/ StoreFails(w)
          PROVE  [Promise!Next]_(Promise!vars)
      <3>1. CASE Drain(w) \/ Crash(w) \/ StoreFails(w)
        BY <3>1 DEF Drain, Crash, StoreFails, dead, Promise!vars
      <3>2. CASE LoadSettled(w) \/ Scan(w) \/ Stop(w) \/ Finish(w) \/ Raise(w)
        BY <3>2 DEF LoadSettled, Scan, Stop, Finish, Raise, dead, Promise!vars
      <3>3. CASE Prune(w)
        <4>1. delivery \in [Keys -> {"none", "delivered", "dead_lettered"}] /\ old \subseteq Keys
          BY Facts
        <4>2. dead' = dead
          BY <4>1, <3>3 DEF Prune, prune_settled, dead
        <4> QED
          BY <4>2, <3>3 DEF Prune, Promise!vars
      <3> QED
        BY <2>1, <3>1, <3>2, <3>3, PostArrives, SettleGivesUp DEF Step
    <2>2. CASE Grow
      BY <2>2 DEF Grow, dead, Promise!Next, Promise!Grow
    <2>3. CASE Age \/ UNCHANGED vars
      BY <2>3 DEF Age, vars, dead, Promise!vars
    <2> QED
      BY <2>1, <2>2, <2>3 DEF Next
  <1> QED
    BY <1>1, <1>2, Inductive, PTL DEF Spec, Implements, Promise!Spec

=============================================================================
