-------------------------- MODULE LedgerFileProofs --------------------------
(***************************************************************************)
(* That save is atomic, that load and verify_ledger notice damage, and     *)
(* that an idempotency key names one history: for any number of            *)
(* processes, any entries, and any number of saves, crashes and damages.   *)
(***************************************************************************)
EXTENDS LedgerFile, WellFoundedInduction, TLAPS

\* A process that moves from one place to another moves nobody else.
LEMMA Moves ==
    ASSUME place \in [Procs -> Places], NEW p \in Procs, NEW here, NEW there \in Places,
           Goto(p, here, there)
    PROVE  /\ place' \in [Procs -> Places]
           /\ place[p] = here /\ place'[p] = there
           /\ \A q \in Procs : q # p => place'[q] = place[q]
  BY DEF Goto

\* A process whose memory is replaced replaces nobody else's.
LEMMA Remembers ==
    ASSUME mem = [q \in Procs |-> mem[q]], NEW p \in Procs, NEW log,
           mem' = [mem EXCEPT ![p] = log]
    PROVE  /\ mem' = [q \in Procs |-> mem'[q]]
           /\ mem'[p] = log
           /\ \A q \in Procs : q # p => mem'[q] = mem[q]
  OBVIOUS

\* Nothing is stored and nobody saves in the beginning.
LEMMA SaveInit == Init => SaveInv
  BY DEF Init, SaveInv, FileWhole, Places, Saving

\* Every step of every process, and every damage, keeps the invariant.
LEMMA SaveNext == SaveInv /\ [Next]_vars => SaveInv'
<1> SUFFICES ASSUME SaveInv, [Next]_vars PROVE SaveInv'
  OBVIOUS
<1> USE DEF Saving
<1>0. ASSUME NEW p \in Procs, NEW q \in Procs, place[p] \in Saving, place[q] \in Saving
      PROVE  p = q
  BY <1>0 DEF SaveInv
<1>1. ASSUME NEW p \in Procs, Create(p) \/ Load(p) PROVE SaveInv'
  <2>1. PICK log : mem' = [mem EXCEPT ![p] = log]
    BY <1>1 DEF Create, Load
  <2>2. Goto(p, "idle", "open") /\ UNCHANGED <<file, tmp, lock, saved, damaged>>
    BY <1>1 DEF Create, Load, Stored
  <2>3. QED
    BY <2>1, <2>2, Moves, Remembers DEF SaveInv, FileWhole, Places
<1>2. ASSUME NEW p \in Procs, NEW es, NEW signed, CallSave(p, es, signed) PROVE SaveInv'
  <2>1. PICK log : mem' = [mem EXCEPT ![p] = log]
    BY <1>2 DEF CallSave
  <2>2. /\ Goto(p, "open", "lock") /\ saved' = saved \cup {mem'[p]}
        /\ UNCHANGED <<file, tmp, lock, damaged>>
    BY <1>2 DEF CallSave
  <2>3. QED
    BY <2>1, <2>2, Moves, Remembers, SMTT(30) DEF SaveInv, FileWhole, Places
<1>3. ASSUME NEW p \in Procs, Lock(p) PROVE SaveInv'
  <2>1. \A q \in Procs : place[q] \notin Saving
    BY <1>3, LedgerFileAssumption DEF Lock, may_lock, SaveInv, NoProc
  <2>2. Goto(p, "lock", "open_tmp") /\ lock' = p /\ UNCHANGED <<file, tmp, mem, saved, damaged>>
    BY <1>3 DEF Lock
  <2>3. QED
    BY <2>1, <2>2, Moves DEF SaveInv, FileWhole, Places
<1>4. ASSUME NEW p \in Procs, OpenTmp(p) PROVE SaveInv'
  <2>1. Goto(p, "open_tmp", "dump") /\ UNCHANGED <<file, lock, mem, saved, damaged>>
    BY <1>4 DEF OpenTmp
  <2>2. QED
    BY <1>0, <2>1, Moves DEF SaveInv, FileWhole, Places
<1>5. ASSUME NEW p \in Procs, Dump(p) PROVE SaveInv'
  <2>1. Goto(p, "dump", "replace") /\ tmp' = mem[p] /\ UNCHANGED <<file, lock, mem, saved, damaged>>
    BY <1>5 DEF Dump
  <2>2. QED
    BY <1>0, <2>1, Moves DEF SaveInv, FileWhole, Places
<1>6. ASSUME NEW p \in Procs, Replace(p) PROVE SaveInv'
  <2>1. Goto(p, "replace", "unlock") /\ file' = tmp /\ UNCHANGED <<lock, mem, saved>>
    BY <1>6 DEF Replace
  <2>2. file' \in saved'
    BY <2>1, Moves DEF SaveInv, Places
  <2>3. QED
    BY <1>0, <2>1, <2>2, Moves DEF SaveInv, FileWhole, Places
<1>7. ASSUME NEW p \in Procs, Unlock(p) \/ Crash(p) PROVE SaveInv'
  <2>1. mem' = [mem EXCEPT ![p] = <<>>] /\ UNCHANGED <<file, tmp, saved, damaged>>
    BY <1>7 DEF Unlock, Crash, Forget
  <2>2. lock' = IF lock = p THEN NoProc ELSE lock
    BY <1>7 DEF Unlock, Crash, unlocked
  <2>3. Goto(p, place[p], "idle")
    BY <1>7 DEF Unlock, Crash, Goto
  <2>4. QED
    BY <2>1, <2>2, <2>3, Moves, Remembers DEF SaveInv, FileWhole, Places
<1>8. CASE Damage
  BY <1>8 DEF Damage, procVars, SaveInv, FileWhole
<1>9. CASE UNCHANGED vars
  BY <1>9 DEF vars, procVars, SaveInv, FileWhole
<1>10. QED
  BY <1>1, <1>2, <1>3, <1>4, <1>5, <1>6, <1>7, <1>8, <1>9 DEF Next, SaveStep

\* Whoever reads the stored file (load takes no lock), finds a whole ledger that some
\* process handed to save, whatever writers are at work or have crashed, unless the file
\* was damaged from outside.
THEOREM FileWholeHolds == Spec => []FileWhole
<1>1. SaveInv => FileWhole
  BY DEF SaveInv
<1>2. QED
  BY <1>1, SaveInit, SaveNext, PTL DEF Spec

-----------------------------------------------------------------------------
(* The store implements AtomicFile.                                        *)

\* The session of a process that is at each of its places.
LEMMA Sessions ==
    /\ SessionAt["idle"] = "none" /\ SessionAt["open"] = "open"
    /\ SessionAt["lock"] = "saving" /\ SessionAt["open_tmp"] = "saving"
    /\ SessionAt["dump"] = "saving" /\ SessionAt["replace"] = "saving"
    /\ SessionAt["unlock"] = "saved"
  BY DEF SessionAt

\* The sessions follow the places.
LEMMA SessionMoves ==
    ASSUME place \in [Procs -> Places], NEW p \in Procs, NEW here, NEW there \in Places,
           Goto(p, here, there)
    PROVE  Store!Moves(p, SessionAt[here], SessionAt[there])
  <1>1. /\ place[p] = here /\ place'[p] = there
        /\ \A q \in Procs : q # p => place'[q] = place[q]
    BY Moves
  <1>2. \A q \in Procs : SessionAt[place'[q]] = IF q = p THEN SessionAt[there]
                                               ELSE SessionAt[place[q]]
    BY <1>1
  <1> QED
    BY <1>1, <1>2 DEF Store!Moves

\* A step on the way from the call of save to its effect is none of the store.
LEMMA OnTheWay ==
    ASSUME place \in [Procs -> Places], NEW p \in Procs, NEW here, NEW there \in Places,
           Goto(p, here, there), SessionAt[here] = SessionAt[there],
           UNCHANGED <<file, mem, damages>>
    PROVE  UNCHANGED Store!vars
  <1>1. /\ place[p] = here /\ place'[p] = there
        /\ \A q \in Procs : q # p => place'[q] = place[q]
    BY Moves
  <1>2. \A q \in Procs : SessionAt[place'[q]] = SessionAt[place[q]]
    BY <1>1
  <1> QED
    BY <1>2 DEF Store!vars

\* Every step of the processes is a step of the store, or none.
LEMMA StoreSteps == SaveInv /\ [Next]_vars => [Store!Next]_(Store!vars)
  <1> SUFFICES ASSUME SaveInv, [Next]_vars PROVE Store!Next \/ UNCHANGED Store!vars
    OBVIOUS
  <1>0. place \in [Procs -> Places] /\ mem = [q \in Procs |-> mem[q]]
    BY DEF SaveInv
  <1>1. ASSUME NEW p \in Procs, Create(p) \/ Load(p) PROVE Store!Open(p)
    <2>1. Goto(p, "idle", "open") /\ UNCHANGED <<file, damages>>
      BY <1>1 DEF Create, Load, Stored
    <2>2. \E ledger \in {file, <<>>} : mem' = [mem EXCEPT ![p] = ledger]
      BY <1>1 DEF Create, Load
    <2>3. Store!Moves(p, "none", "open")
      BY <1>0, <2>1, SessionMoves, Sessions DEF Places
    <2> QED
      BY <2>1, <2>2, <2>3 DEF Store!Open
  <1>2. ASSUME NEW p \in Procs, NEW es, NEW signed, CallSave(p, es, signed)
        PROVE  Store!Save(p)
    <2>1. Goto(p, "open", "lock") /\ UNCHANGED <<file, damages>>
      BY <1>2 DEF CallSave
    <2>2. PICK log : mem' = [mem EXCEPT ![p] = log]
      BY <1>2 DEF CallSave
    <2>3. mem' = [mem EXCEPT ![p] = mem'[p]]
      BY <1>0, <2>2
    <2>4. Store!Moves(p, "open", "saving")
      BY <1>0, <2>1, SessionMoves, Sessions DEF Places
    <2> QED
      BY <2>1, <2>3, <2>4 DEF Store!Save
  <1>3. ASSUME NEW p \in Procs, Lock(p) \/ OpenTmp(p) \/ Dump(p)
        PROVE  UNCHANGED Store!vars
    <2>1. \/ Goto(p, "lock", "open_tmp") \/ Goto(p, "open_tmp", "dump")
          \/ Goto(p, "dump", "replace")
      BY <1>3 DEF Lock, OpenTmp, Dump
    <2>2. UNCHANGED <<file, mem, damages>>
      BY <1>3 DEF Lock, OpenTmp, Dump
    <2> QED
      BY <1>0, <2>1, <2>2, OnTheWay, Sessions DEF Places
  <1>4. ASSUME NEW p \in Procs, Replace(p) PROVE Store!TakeEffect(p)
    <2>1. Goto(p, "replace", "unlock") /\ file' = tmp /\ UNCHANGED <<mem, damages>>
      BY <1>4 DEF Replace
    <2>2. tmp = mem[p]
      BY <2>1 DEF SaveInv, Goto
    <2>3. Store!Moves(p, "saving", "saved")
      BY <1>0, <2>1, SessionMoves, Sessions DEF Places
    <2> QED
      BY <2>1, <2>2, <2>3 DEF Store!TakeEffect
  <1>5. ASSUME NEW p \in Procs, Unlock(p) \/ Crash(p) PROVE Store!Close(p)
    <2>1. /\ mem' = [mem EXCEPT ![p] = <<>>] /\ UNCHANGED <<file, damages>>
          /\ place[p] # "idle" /\ Goto(p, place[p], "idle")
      BY <1>5 DEF Unlock, Crash, Forget, Goto
    <2>2. Store!Moves(p, SessionAt[place[p]], "none")
      BY <1>0, <2>1, SessionMoves, Sessions DEF Places
    <2>3. SessionAt[place[p]] # "none"
      BY <1>0, <2>1, Sessions DEF Places
    <2>4. [q \in Procs |-> SessionAt[place[q]]][p] = SessionAt[place[p]]
      OBVIOUS
    <2> QED
      BY <2>1, <2>2, <2>3, <2>4 DEF Store!Close
  <1>6. CASE Damage
    BY <1>6 DEF Damage, procVars, Store!Next, Store!Edit
  <1>7. CASE UNCHANGED vars
    BY <1>7 DEF vars, procVars, Store!vars
  <1> QED
    BY <1>1, <1>2, <1>3, <1>4, <1>5, <1>6, <1>7 DEF Next, SaveStep, Store!Next

\* A save has its effect at one moment, at most once and with the caller's own ledger,
\* and a crash comes before that moment or after it, for any number of processes that
\* save, load and die at the same time (persistence.save, persistence.load).
THEOREM SaveIsAtomic == Spec => SavesAtomically
  <1>1. Init => Store!Init
    BY Sessions DEF Init, Store!Init
  <1> QED
    BY <1>1, SaveInit, SaveNext, StoreSteps, PTL DEF Spec, SavesAtomically, Store!Spec

-----------------------------------------------------------------------------
(* Logs.                                                                   *)

\* The least-number principle.
LEMMA LeastNumber ==
    ASSUME NEW T, T \subseteq Nat, T # {}
    PROVE  \E x \in T : \A y \in T : x <= y
  <1> DEFINE R == {ss \in Nat \X Nat : ss[1] < ss[2]}
  <1>1. IsWellFoundedOn(R, Nat)
    BY NatLessThanWellFounded DEF OpToRel
  <1>2. \A m, n \in Nat : <<m, n>> \in R <=> m < n
    OBVIOUS
  <1> HIDE DEF R
  <1>3. PICK x \in T : \A y \in T : ~(<<y, x>> \in R)
    BY <1>1, WFMin
  <1>4. \A y \in T : ~(y < x)
    BY <1>2, <1>3
  <1>5. x \in Nat /\ \A y \in T : y \in Nat
    OBVIOUS
  <1> QED
    BY <1>4, <1>5

\* What a log is, without Seq.
LEMMA LogIs ==
    ASSUME NEW log, IsLog(log)
    PROVE  /\ Len(log) \in Nat /\ DOMAIN log = 1 .. Len(log)
           /\ log = [i \in 1 .. Len(log) |-> log[i]]
           /\ \A i \in 1 .. Len(log) : IsEvent(log[i])
  BY DEF IsLog

\* A function on 1 .. n whose values are events is a log.
LEMMA LogFrom ==
    ASSUME NEW n \in Nat, NEW f, f = [i \in 1 .. n |-> f[i]],
           \A i \in 1 .. n : IsEvent(f[i])
    PROVE  IsLog(f) /\ Len(f) = n /\ DOMAIN f = 1 .. n
  <1>1. DOMAIN f = 1 .. n
    OBVIOUS
  <1>2. f \in [1 .. n -> {f[i] : i \in DOMAIN f}]
    BY <1>1
  <1>3. f \in Seq({f[i] : i \in DOMAIN f}) /\ Len(f) = n
    BY <1>1, <1>2, SMTT(30)
  <1> QED
    BY <1>1, <1>3 DEF IsLog

\* The hash an event of a log has to name as the previous one.
prev(log, i) == IF i = 1 THEN NoHash ELSE log[i - 1].hash

\* What append_event and verify_chain take as the last hash is the hash of the event before.
LEMMA PrevIs ==
    ASSUME NEW log, IsLog(log), NEW i \in 1 .. Len(log)
    PROVE  last_hash(SubSeq(log, 1, i - 1)) = prev(log, i)
  <1> DEFINE S == {log[j] : j \in DOMAIN log}
             s == SubSeq(log, 1, i - 1)
  <1>1. log \in Seq(S) /\ Len(log) \in Nat /\ DOMAIN log = 1 .. Len(log)
    BY LogIs DEF IsLog
  <1> HIDE DEF S
  <1>2. s \in Seq(S) /\ Len(s) = i - 1 /\ \A j \in 1 .. i - 1 : s[j] = log[j]
    BY <1>1
  <1>3. CASE i = 1
    <2>1. s = <<>>
      BY <1>2, <1>3
    <2> QED
      BY <1>3, <2>1 DEF last_hash, prev
  <1>4. CASE i # 1
    <2>1. s # <<>> /\ Last(s) = log[i - 1]
      BY <1>2, <1>4 DEF Last
    <2> QED
      BY <1>4, <2>1 DEF last_hash, prev
  <1> QED
    BY <1>3, <1>4

\* verify_chain, entry by entry.
Linked(log, i) ==
    /\ log[i].sequence = i
    /\ log[i].previous = prev(log, i)
    /\ log[i].hash = <<i, prev(log, i), log[i].type, log[i].subject, log[i].at>>

\* verify_chain looks at each event and the one before it, and at nothing else.
LEMMA ChainIs ==
    ASSUME NEW log, IsLog(log)
    PROVE  verify_chain(log) <=> \A i \in 1 .. Len(log) : Linked(log, i)
  <1>1. DOMAIN log = 1 .. Len(log)
    BY LogIs
  <1>2. \A i \in 1 .. Len(log) : last_hash(SubSeq(log, 1, i - 1)) = prev(log, i)
    BY PrevIs
  <1> QED
    BY <1>1, <1>2 DEF verify_chain, Linked, compute_event_hash

\* The event append_event makes of an entry.
entry(log, e) == [type |-> e.type, subject |-> e.subject, at |-> e.at, touched |-> e.touched,
                  sequence |-> Len(log) + 1, previous |-> last_hash(log),
                  hash |-> compute_event_hash(Len(log) + 1, last_hash(log), e),
                  signature |-> NoSign]

\* append_event makes a record with the eight fields, unsigned.
LEMMA EntryIs ==
    ASSUME NEW log, NEW e
    PROVE  IsEvent(entry(log, e)) /\ entry(log, e).signature = NoSign
  BY DEF entry, IsEvent, Fields

\* append_event keeps the log and what verify_chain asks for.
LEMMA AppendIs ==
    ASSUME NEW log, NEW e, IsLog(log), NEW r, r = append_event(log, e)
    PROVE  /\ IsLog(r) /\ Len(r) = Len(log) + 1
           /\ \A i \in 1 .. Len(log) : r[i] = log[i]
           /\ r[Len(log) + 1] = entry(log, e)
           /\ verify_chain(log) => verify_chain(r)
  <1> DEFINE n == Len(log)
             S == {log[i] : i \in DOMAIN log} \cup {entry(log, e)}
  <1>1. n \in Nat /\ DOMAIN log = 1 .. n /\ log \in Seq(S)
    BY LogIs DEF IsLog
  <1>2. entry(log, e) \in S
    OBVIOUS
  <1>3. r = Append(log, entry(log, e))
    BY DEF append_event, entry
  <1>4. /\ r \in Seq(S) /\ Len(r) = n + 1 /\ \A i \in 1 .. n : r[i] = log[i]
        /\ r[n + 1] = entry(log, e)
    <2> HIDE DEF S
    <2> QED
      BY <1>1, <1>2, <1>3
  <1>5. DOMAIN r = 1 .. n + 1 /\ r = [i \in 1 .. n + 1 |-> r[i]]
    BY <1>1, <1>4
  <1>6. IsLog(r)
    <2>1. \A i \in 1 .. n + 1 : IsEvent(r[i])
      BY <1>1, <1>4, LogIs, EntryIs
    <2> HIDE DEF n
    <2> QED
      BY <1>1, <1>5, <2>1, LogFrom
  <1>7. last_hash(log) = prev(r, n + 1)
    <2>1. CASE n = 0
      <3>1. log = <<>>
        BY <1>1, <2>1
      <3> QED
        BY <2>1, <3>1 DEF last_hash, prev
    <2>2. CASE n # 0
      <3>1. log # <<>> /\ n \in 1 .. n /\ n + 1 # 1 /\ n + 1 - 1 = n
        BY <1>1, <2>2
      <3> QED
        BY <1>4, <3>1 DEF last_hash, prev, Last
    <2> QED
      BY <2>1, <2>2
  <1>8. ASSUME verify_chain(log) PROVE verify_chain(r)
    <2>1. \A i \in 1 .. n : Linked(log, i)
      BY <1>8, ChainIs
    <2>2. \A i \in 1 .. n : prev(r, i) = prev(log, i)
      BY <1>1, <1>4 DEF prev
    <2>3. \A i \in 1 .. n : Linked(r, i)
      BY <1>4, <2>1, <2>2 DEF Linked
    <2>4. Linked(r, n + 1)
      BY <1>4, <1>7 DEF Linked, entry, compute_event_hash
    <2> QED
      BY <1>1, <1>4, <1>6, <2>3, <2>4, ChainIs
  <1> QED
    BY <1>4, <1>6, <1>8

\* The equation the recursion of append_all is to solve, on its first n steps.
AppendEquation(f, log, es, n) ==
    f = [i \in 0 .. n |-> IF i = 0 THEN log ELSE append_event(f[i - 1], es[i])]

\* It has a solution: otherwise there is a least n for which it has none.
LEMMA AppendExists ==
    ASSUME NEW log, NEW es, NEW n \in Nat
    PROVE  \E f : AppendEquation(f, log, es, n)
  <1> DEFINE Bad == {m \in Nat : ~\E f : AppendEquation(f, log, es, m)}
  <1> SUFFICES ASSUME Bad # {} PROVE FALSE
    OBVIOUS
  <1>1. PICK m \in Bad : \A l \in Bad : m <= l
    BY LeastNumber
  <1>2. CASE m = 0
    <2> DEFINE g == [i \in 0 .. 0 |-> log]
    <2>1. AppendEquation(g, log, es, 0)
      BY DEF AppendEquation
    <2> QED
      BY <1>2, <2>1
  <1>3. CASE m # 0
    <2>1. m - 1 \in Nat /\ m - 1 \notin Bad
      BY <1>1, <1>3
    <2>2. PICK f : AppendEquation(f, log, es, m - 1)
      BY <2>1
    <2> DEFINE body(i) == IF i = 0 THEN log ELSE append_event(f[i - 1], es[i])
               g == [i \in 0 .. m |-> body(i)]
    <2>3. \A i \in 0 .. m - 1 : f[i] = body(i)
      BY <2>2 DEF AppendEquation
    <2>4. \A i \in 0 .. m : i # 0 => i - 1 \in 0 .. m - 1 /\ i - 1 \in 0 .. m
      BY <2>1
    <2>5. \A i \in 0 .. m : i # 0 => g[i - 1] = f[i - 1]
      BY <2>3, <2>4
    <2>6. AppendEquation(g, log, es, m)
      BY <2>5 DEF AppendEquation
    <2> QED
      BY <2>6
  <1> QED
    BY <1>2, <1>3

\* append_all adds the entries behind the log, unsigned, and keeps the chain.
LEMMA AppendAllIs ==
    ASSUME NEW log, NEW es, IsLog(log), Len(es) \in Nat, NEW r, r = append_all(log, es)
    PROVE  /\ IsLog(r) /\ Len(r) = Len(log) + Len(es)
           /\ \A i \in 1 .. Len(log) : r[i] = log[i]
           /\ \A i \in Len(log) + 1 .. Len(r) : r[i].signature = NoSign
           /\ verify_chain(log) => verify_chain(r)
  <1> DEFINE after[n \in 0 .. Len(es)] ==
                 IF n = 0 THEN log ELSE append_event(after[n - 1], es[n])
  <1>1. r = after[Len(es)]
    BY DEF append_all
  <1>2. PICK f : AppendEquation(f, log, es, Len(es))
    BY AppendExists
  <1>3. AppendEquation(after, log, es, Len(es))
    BY <1>2 DEF AppendEquation
  <1> HIDE DEF after
  <1>4. \A n \in 0 .. Len(es) :
           after[n] = IF n = 0 THEN log ELSE append_event(after[n - 1], es[n])
    BY <1>3 DEF AppendEquation
  <1>l. Len(log) \in Nat
    BY LogIs
  <1> DEFINE Good(n) ==
        /\ IsLog(after[n]) /\ Len(after[n]) = Len(log) + n
        /\ \A i \in 1 .. Len(log) : after[n][i] = log[i]
        /\ \A i \in Len(log) + 1 .. Len(log) + n : after[n][i].signature = NoSign
        /\ verify_chain(log) => verify_chain(after[n])
  <1> DEFINE Bad == {n \in 0 .. Len(es) : ~Good(n)}
  <1>5. Good(0)
    BY <1>4, <1>l
  <1>6. ASSUME Bad # {} PROVE FALSE
    <2>0. Bad \subseteq Nat
      OBVIOUS
    <2>1. PICK m \in Bad : \A l \in Bad : m <= l
      BY <1>6, <2>0, LeastNumber
    <2>2. m # 0 /\ m \in 0 .. Len(es)
      BY <1>5
    <2> DEFINE k == m - 1
    <2>3. k \in 0 .. Len(es) /\ m = k + 1 /\ k \in Nat /\ ~(m <= k)
      BY <2>2
    <2>4. Good(k)
      BY <2>1, <2>3
    <2>5. after[m] = append_event(after[k], es[m])
      BY <1>4, <2>2
    <2> HIDE DEF k
    <2>6. /\ IsLog(after[m]) /\ Len(after[m]) = Len(after[k]) + 1
          /\ \A i \in 1 .. Len(after[k]) : after[m][i] = after[k][i]
          /\ after[m][Len(after[k]) + 1] = entry(after[k], es[m])
          /\ verify_chain(after[k]) => verify_chain(after[m])
      BY <2>4, <2>5, AppendIs
    <2>7. \A i \in Len(log) + 1 .. Len(log) + m : after[m][i].signature = NoSign
      <3> SUFFICES ASSUME NEW i \in Len(log) + 1 .. Len(log) + m
                   PROVE  after[m][i].signature = NoSign
        OBVIOUS
      <3>1. CASE i = Len(log) + m
        <4>1. after[m][i] = entry(after[k], es[m])
          BY <1>l, <2>3, <2>4, <2>6, <3>1
        <4> QED
          BY <4>1, EntryIs
      <3>2. CASE i # Len(log) + m
        <4>1. i \in 1 .. Len(log) + k /\ i \in Len(log) + 1 .. Len(log) + k
          BY <1>l, <2>3, <3>2
        <4> QED
          BY <2>4, <2>6, <4>1
      <3> QED
        BY <3>1, <3>2
    <2>8. \A i \in 1 .. Len(log) : after[m][i] = log[i]
      <3>1. \A i \in 1 .. Len(log) : i \in 1 .. Len(after[k])
        BY <1>l, <2>3, <2>4
      <3> QED
        BY <2>4, <2>6, <3>1
    <2>9. Len(after[m]) = Len(log) + m
      BY <1>l, <2>3, <2>4, <2>6
    <2>10. Good(m)
      BY <2>4, <2>6, <2>7, <2>8, <2>9
    <2> QED
      BY <2>10
  <1>7. Good(Len(es))
    BY <1>6
  <1> QED
    BY <1>1, <1>7

\* sign_ledger changes the signatures only.
LEMMA SignIs ==
    ASSUME NEW log, IsLog(log), NEW r, r = sign_ledger(log, Key)
    PROVE  /\ IsLog(r) /\ Len(r) = Len(log)
           /\ \A i \in 1 .. Len(log) :
                  /\ r[i].signature = sign_event(r[i], Key)
                  /\ \A k \in Fields \ {"signature"} : r[i][k] = log[i][k]
           /\ verify_chain(log) => verify_chain(r)
  <1> DEFINE n == Len(log)
  <1>1. n \in Nat /\ DOMAIN log = 1 .. n /\ \A i \in 1 .. n : IsEvent(log[i])
    BY LogIs
  <1>2. r = [i \in 1 .. n |-> [log[i] EXCEPT !.signature = sign_event(log[i], Key)]]
    BY <1>1 DEF sign_ledger
  <1> HIDE DEF n
  <1>3. ASSUME NEW i \in 1 .. n
        PROVE  /\ IsEvent(r[i])
               /\ r[i].signature = sign_event(r[i], Key)
               /\ \A k \in Fields \ {"signature"} : r[i][k] = log[i][k]
    <2>1. r[i] = [log[i] EXCEPT !.signature = sign_event(log[i], Key)]
      BY <1>2
    <2>2. DOMAIN log[i] = Fields /\ "signature" \in Fields
      BY <1>1 DEF IsEvent, Fields
    <2>3. /\ DOMAIN r[i] = Fields /\ r[i] = [k \in Fields |-> r[i][k]]
          /\ r[i].signature = sign_event(log[i], Key)
          /\ \A k \in Fields \ {"signature"} : r[i][k] = log[i][k]
      BY <2>1, <2>2
    <2>4. canonical(r[i]) = canonical(log[i])
      BY <2>2, <2>3 DEF canonical
    <2> QED
      BY <2>3, <2>4 DEF IsEvent, sign_event
  <1>4. IsLog(r) /\ Len(r) = n
    <2>1. r = [i \in 1 .. n |-> r[i]]
      BY <1>2
    <2> QED
      BY <1>1, <1>3, <2>1, LogFrom
  <1>5. ASSUME verify_chain(log) PROVE verify_chain(r)
    <2>1. \A i \in 1 .. n : Linked(log, i)
      BY <1>5, ChainIs DEF n
    <2>2. ASSUME NEW i \in 1 .. n
          PROVE  /\ r[i].sequence = log[i].sequence /\ r[i].previous = log[i].previous
                 /\ r[i].hash = log[i].hash /\ r[i].type = log[i].type
                 /\ r[i].subject = log[i].subject /\ r[i].at = log[i].at
      BY <1>3 DEF Fields
    <2>3. \A i \in 1 .. n : prev(r, i) = prev(log, i)
      BY <1>1, <2>2 DEF prev
    <2>4. \A i \in 1 .. n : Linked(r, i)
      BY <2>1, <2>2, <2>3 DEF Linked
    <2> QED
      BY <1>4, <2>4, ChainIs
  <1> QED
    BY <1>3, <1>4, <1>5 DEF n

\* Concatenation.
LEMMA ConcatIs ==
    ASSUME NEW S, NEW s \in Seq(S), NEW t \in Seq(S)
    PROVE  /\ s \o t \in Seq(S) /\ Len(s \o t) = Len(s) + Len(t)
           /\ \A j \in 1 .. Len(s) : (s \o t)[j] = s[j]
           /\ \A j \in 1 .. Len(s) + Len(t) : j > Len(s) => (s \o t)[j] = t[j - Len(s)]
  OBVIOUS

\* What a damage leaves of an event.
Kept(a, b) == b.sequence = a.sequence /\ b.hash = a.hash /\ b.signature = a.signature

\* A damaged log is a log, and its events have number, hash and signature from it.
LEMMA DamageIs ==
    ASSUME NEW log, Whole(log), NEW r \in changes(log) \cup losses(log) \cup swaps(log)
    PROVE  /\ Whole(r)
           /\ \A i \in DOMAIN r : \E j \in DOMAIN log : Kept(r[i], log[j])
  <1> DEFINE n == Len(log)
  <1>k. \A e : Kept(e, e)
    BY DEF Kept
  <1>1. /\ n \in Nat /\ n <= MaxLen /\ DOMAIN log = 1 .. n
        /\ log = [i \in 1 .. n |-> log[i]] /\ \A i \in 1 .. n : IsEvent(log[i])
    BY LogIs DEF Whole
  <1>m. MaxLen \in Nat
    BY LedgerFileAssumption
  <1> HIDE DEF n
  <1> SUFFICES \E m \in Nat : /\ m <= n /\ IsLog(r) /\ Len(r) = m /\ DOMAIN r = 1 .. m
                              /\ \A i \in 1 .. m : \E j \in 1 .. n : Kept(r[i], log[j])
    BY <1>1, <1>m DEF Whole
  <1>3. CASE r \in changes(log)
    <2>1. PICK i \in 1 .. n, e \in Entries :
            r = [log EXCEPT ![i] = altered(@, e)] \/ r = [log EXCEPT ![i] = retouched(@, e)]
      BY <1>1, <1>3 DEF changes
    <2>2. IsEvent(log[i])
      BY <1>1
    <2>3. r = [j \in 1 .. n |-> r[j]] /\ \A j \in 1 .. n : j # i => r[j] = log[j]
      BY <1>1, <2>1
    <2>4. r[i] = altered(log[i], e) \/ r[i] = retouched(log[i], e)
      BY <1>1, <2>1
    <2>5. IsEvent(r[i]) /\ Kept(r[i], log[i])
      BY <2>2, <2>4 DEF IsEvent, Fields, Kept, altered, retouched
    <2>6. \A j \in 1 .. n : IsEvent(r[j]) /\ Kept(r[j], log[j])
      BY <1>1, <1>k, <2>3, <2>5
    <2>7. IsLog(r) /\ Len(r) = n /\ DOMAIN r = 1 .. n
      BY <1>1, <2>3, <2>6, LogFrom
    <2> QED
      BY <1>1, <2>6, <2>7
  <1>4. CASE r \in losses(log)
    <2>1. PICK i \in 1 .. n : r = RemoveAt(log, i)
      BY <1>1, <1>4 DEF losses
    <2> DEFINE S == {log[j] : j \in DOMAIN log}
               a == SubSeq(log, 1, i - 1)
               b == SubSeq(log, i + 1, n)
    <2>2. log \in Seq(S) /\ Len(log) = n
      BY DEF Whole, IsLog, n
    <2> HIDE DEF S
    <2>3. /\ a \in Seq(S) /\ Len(a) = i - 1 /\ \A j \in 1 .. i - 1 : a[j] = log[j]
          /\ b \in Seq(S) /\ Len(b) = n - i /\ \A j \in 1 .. n - i : b[j] = log[i + j]
      BY <1>1, <2>2, SMTT(30)
    <2>4. r = a \o b
      BY <2>1, <2>2 DEF RemoveAt
    <2> HIDE DEF a, b
    <2>5. /\ r \in Seq(S) /\ Len(r) = n - 1
          /\ \A j \in 1 .. n - 1 : r[j] = IF j < i THEN log[j] ELSE log[j + 1]
      <3>1. r \in Seq(S) /\ Len(r) = (i - 1) + (n - i)
        BY <2>3, <2>4, ConcatIs
      <3>2. ASSUME NEW j \in 1 .. n - 1, j < i PROVE r[j] = log[j]
        <4>1. j \in 1 .. i - 1
          BY <1>1, <3>2
        <4> QED
          BY <2>3, <2>4, <4>1, ConcatIs
      <3>3. ASSUME NEW j \in 1 .. n - 1, ~(j < i) PROVE r[j] = log[j + 1]
        <4>1. j - (i - 1) \in 1 .. n - i /\ i + (j - (i - 1)) = j + 1
          BY <1>1, <3>3
        <4>2. j \in 1 .. (i - 1) + (n - i) /\ j > i - 1
          BY <1>1, <3>3
        <4>3. r[j] = b[j - (i - 1)]
          BY <2>3, <2>4, <4>2, ConcatIs
        <4> QED
          BY <2>3, <4>1, <4>3
      <3>4. (i - 1) + (n - i) = n - 1
        BY <1>1
      <3>5. \A j \in 1 .. n - 1 : r[j] = IF j < i THEN log[j] ELSE log[j + 1]
        BY <3>2, <3>3
      <3> QED
        BY <3>1, <3>4, <3>5
    <2>6. \A j \in 1 .. n - 1 : j \in 1 .. n /\ j + 1 \in 1 .. n
      BY <1>1
    <2>7. \A j \in 1 .. n - 1 : IsEvent(r[j]) /\ \E l \in 1 .. n : Kept(r[j], log[l])
      BY <1>1, <1>k, <2>5, <2>6
    <2>8. r = [j \in 1 .. n - 1 |-> r[j]] /\ n - 1 \in Nat /\ n - 1 <= n
      BY <1>1, <2>5
    <2>m. PICK m : m = n - 1
      OBVIOUS
    <2>9. IsLog(r) /\ Len(r) = m /\ DOMAIN r = 1 .. m
      <3>1. m \in Nat /\ r = [j \in 1 .. m |-> r[j]] /\ \A j \in 1 .. m : IsEvent(r[j])
        BY <2>7, <2>8, <2>m
      <3> QED
        BY <3>1, LogFrom
    <2> QED
      BY <2>7, <2>8, <2>9, <2>m
  <1>5. CASE r \in swaps(log)
    <2>1. PICK i \in 1 .. n - 1 : r = [log EXCEPT ![i] = log[i + 1], ![i + 1] = log[i]]
      BY <1>5 DEF swaps, n
    <2>2. i \in 1 .. n /\ i + 1 \in 1 .. n /\ i # i + 1
      BY <1>1
    <2>3. /\ r = [j \in 1 .. n |-> r[j]] /\ r[i] = log[i + 1] /\ r[i + 1] = log[i]
          /\ \A j \in 1 .. n : (j # i /\ j # i + 1) => r[j] = log[j]
      BY <1>1, <2>1, <2>2
    <2>4. \A j \in 1 .. n : IsEvent(r[j]) /\ \E l \in 1 .. n : Kept(r[j], log[l])
      BY <1>1, <1>k, <2>2, <2>3
    <2>5. IsLog(r) /\ Len(r) = n /\ DOMAIN r = 1 .. n
      BY <1>1, <2>3, <2>4, LogFrom
    <2> QED
      BY <1>1, <2>4, <2>5
  <1> QED
    BY <1>3, <1>4, <1>5

-----------------------------------------------------------------------------
(* The inductive invariant.                                                *)

\* Agreement with one of logs, as LoadSound has it.
Begins(log, logs) == \E whole \in logs \cup {<<>>} : IsPrefix(covered(log), covered(whole))

\* What came from a saved log, or from a signed one, still does when more is saved.
LEMMA SavedGrows ==
    ASSUME NEW log, NEW S, NEW T, S \subseteq T
    PROVE  /\ FromSaved(log, S) => FromSaved(log, T)
           /\ FromSigned(log, S) => FromSigned(log, T)
           /\ Begins(log, S) => Begins(log, T)
  BY DEF FromSaved, FromSigned, Begins

\* A function on 1 .. n.
OnRange(s, n) == s = [i \in 1 .. n |-> s[i]]

\* A function on 1 .. m that agrees with one on 1 .. n, m <= n, is its beginning.
LEMMA PrefixIs ==
    ASSUME NEW m \in Nat, NEW n \in Nat, m <= n, NEW s, NEW t,
           OnRange(s, m), OnRange(t, n), \A i \in 1 .. m : s[i] = t[i]
    PROVE  IsPrefix(s, t)
  <1>0. s = [i \in 1 .. m |-> s[i]] /\ t = [i \in 1 .. n |-> t[i]]
    BY DEF OnRange
  <1> DEFINE S == {s[i] : i \in 1 .. m} \cup {t[i] : i \in 1 .. n}
  <1>1. s \in [1 .. m -> S] /\ t \in [1 .. n -> S]
    BY <1>0
  <1> HIDE DEF S
  <1>2. s \in Seq(S) /\ t \in Seq(S) /\ Len(s) = m /\ Len(t) = n
    BY <1>1
  <1>3. SubSeq(s, 1, m) = SubSeq(t, 1, m)
    <2>1. SubSeq(s, 1, m) = [i \in 1 .. m |-> s[i]]
      BY <1>2
    <2>2. SubSeq(t, 1, m) = [i \in 1 .. m |-> t[i]]
      BY <1>2
    <2> QED
      BY <2>1, <2>2
  <1> QED
    BY <1>2, <1>3 DEF IsPrefix

\* The empty log.
LEMMA EmptyIs ==
    ASSUME NEW S
    PROVE  Sound(<<>>) /\ IsLog(<<>>) /\ FromSigned(<<>>, S) /\ Begins(<<>>, S)
  <1>0. PICK z \in Nat : z = 0
    OBVIOUS
  <1>e. PICK e : e = <<>>
    OBVIOUS
  <1>1. e = [i \in 1 .. z |-> e[i]] /\ \A i \in 1 .. z : IsEvent(e[i])
    BY <1>0, <1>e
  <1>2. IsLog(<<>>) /\ Len(<<>>) = z /\ DOMAIN <<>> = 1 .. z
    BY <1>1, <1>e, LogFrom
  <1>3. Sound(<<>>)
    BY <1>0, <1>2, ChainIs, LedgerFileAssumption DEF Sound, Whole
  <1>4. FromSigned(<<>>, S)
    BY <1>0, <1>2 DEF FromSigned
  <1>5. Begins(<<>>, S)
    <2>1. PICK c : c = covered(<<>>)
      OBVIOUS
    <2>2. OnRange(c, z)
      BY <1>2, <2>1 DEF covered, OnRange
    <2>3. IsPrefix(c, c)
      <3>1. z <= z
        BY <1>0
      <3> QED
        BY <2>2, <3>1, PrefixIs
    <2> QED
      BY <2>1, <2>3 DEF Begins
  <1> QED
    BY <1>2, <1>3, <1>4, <1>5

\* The hash chain is tamper-evident: a log that verifies and whose hashes are those of a
\* sound log agrees with it in all that the hashes cover.
LEMMA ChainCovers ==
    ASSUME NEW log, NEW S, IsLog(log), verify_chain(log), FromSaved(log, S),
           \A whole \in S : Sound(whole)
    PROVE  Begins(log, S)
  <1>1. PICK whole \in S : \A i \in DOMAIN log : \E j \in DOMAIN whole :
            whole[j].sequence = log[i].sequence /\ whole[j].hash = log[i].hash
    BY DEF FromSaved
  <1> DEFINE m == Len(log)
             n == Len(whole)
  <1>2. m \in Nat /\ DOMAIN log = 1 .. m /\ \A i \in 1 .. m : Linked(log, i)
    BY LogIs, ChainIs
  <1>3. n \in Nat /\ DOMAIN whole = 1 .. n /\ \A i \in 1 .. n : Linked(whole, i)
    BY LogIs, ChainIs DEF Sound, Whole
  <1> HIDE DEF m, n
  <1>4. ASSUME NEW i \in 1 .. m
        PROVE  i \in 1 .. n /\ whole[i].hash = log[i].hash
    <2>1. PICK j \in 1 .. n : whole[j].sequence = log[i].sequence /\ whole[j].hash = log[i].hash
      BY <1>1, <1>2, <1>3
    <2>2. j = i
      BY <1>2, <1>3, <2>1 DEF Linked
    <2> QED
      BY <2>1, <2>2
  <1>5. m <= n
    <2>1. m # 0 => m \in 1 .. m
      BY <1>2
    <2> QED
      BY <1>2, <1>3, <1>4, <2>1
  <1>6. ASSUME NEW i \in 1 .. m
        PROVE  covered(log)[i] = covered(whole)[i]
    <2>1. i \in DOMAIN log /\ i \in DOMAIN whole /\ whole[i].hash = log[i].hash
      BY <1>2, <1>3, <1>4
    <2>2. /\ log[i].hash = <<i, prev(log, i), log[i].type, log[i].subject, log[i].at>>
          /\ whole[i].hash = <<i, prev(whole, i), whole[i].type, whole[i].subject, whole[i].at>>
      BY <1>2, <1>3, <1>4 DEF Linked
    <2>3. log[i].type = whole[i].type /\ log[i].subject = whole[i].subject /\ log[i].at = whole[i].at
      BY <2>1, <2>2
    <2> QED
      BY <2>1, <2>3 DEF covered
  <1>7. /\ covered(log) = [i \in 1 .. m |-> covered(log)[i]]
        /\ covered(whole) = [i \in 1 .. n |-> covered(whole)[i]]
    BY <1>2, <1>3 DEF covered
  <1>8. PICK s, t : s = covered(log) /\ t = covered(whole)
    OBVIOUS
  <1>9. OnRange(s, m) /\ OnRange(t, n) /\ \A i \in 1 .. m : s[i] = t[i]
    BY <1>6, <1>7, <1>8 DEF OnRange
  <1>10. IsPrefix(s, t)
    BY <1>2, <1>3, <1>5, <1>9, PrefixIs
  <1> QED
    BY <1>8, <1>10 DEF Begins

\* A step keeps LogInv when every log it makes fits it.
LEMMA LogKept ==
    ASSUME LogInv, saved \subseteq saved', lock' \in Procs \cup {NoProc},
           base' = [q \in Procs |-> base'[q]],
           \A log \in saved' : log \in saved \/ (Sound(log) /\ FromSigned(log, saved')),
           \A q \in Procs : mem'[q] = mem[q] \/ (Sound(mem'[q]) /\ FromSigned(mem'[q], saved')),
           \A q \in Procs : base'[q] = base[q] \/ (IsLog(base'[q]) /\ Begins(base'[q], saved')),
           \/ file' = file
           \/ Whole(file') /\ FromSaved(file', saved') /\ FromSigned(file', saved'),
           tmp' = tmp \/ tmp' \in {NoFile, Torn} \cup saved'
    PROVE  LogInv'
  <1>1. \A log \in saved' : Sound(log) /\ FromSigned(log, saved')
    BY SavedGrows DEF LogInv
  <1>2. \A q \in Procs : Sound(mem'[q]) /\ FromSigned(mem'[q], saved') /\ IsLog(base'[q])
    BY SavedGrows DEF LogInv
  <1>3. file' # NoFile => Whole(file') /\ FromSaved(file', saved') /\ FromSigned(file', saved')
    BY SavedGrows DEF LogInv
  <1>4. tmp' \in {NoFile, Torn} \cup saved'
    BY DEF LogInv
  <1>5. \A q \in Procs : Begins(base'[q], saved')
    BY SavedGrows DEF LogInv, LoadSound, Begins
  <1> QED
    BY <1>1, <1>2, <1>3, <1>4, <1>5 DEF LogInv, LoadSound, Begins

\* What a process replaces of its own leaves the others' alone.
LEMMA OwnOnly ==
    ASSUME NEW f, f = [q \in Procs |-> f[q]], NEW p \in Procs, NEW v,
           NEW g, g = [f EXCEPT ![p] = v]
    PROVE  /\ g = [q \in Procs |-> g[q]] /\ g[p] = v
           /\ \A q \in Procs : q # p => g[q] = f[q]
  OBVIOUS

\* A command begins, with a fresh ledger or the stored one.
LEMMA OpenKeeps ==
    ASSUME LedgerInv, NEW p \in Procs, Create(p) \/ Load(p)
    PROVE  LogInv'
  <1>1. PICK log : /\ mem' = [mem EXCEPT ![p] = log] /\ base' = [base EXCEPT ![p] = log]
                   /\ log = <<>> \/ (file # NoFile /\ log = file /\ verify_chain(log))
    BY DEF Create, Load
  <1>2. UNCHANGED <<file, tmp, lock, saved>>
    BY DEF Create, Load, Stored
  <1>3. Sound(log) /\ IsLog(log) /\ FromSigned(log, saved) /\ Begins(log, saved)
    <2>1. CASE log = <<>>
      BY <2>1, EmptyIs
    <2>2. CASE file # NoFile /\ log = file /\ verify_chain(log)
      <3>1. Whole(log) /\ FromSaved(log, saved) /\ FromSigned(log, saved)
        BY <2>2 DEF LedgerInv, LogInv
      <3>2. \A whole \in saved : Sound(whole)
        BY DEF LedgerInv, LogInv
      <3>3. Begins(log, saved)
        BY <2>2, <3>1, <3>2, ChainCovers DEF Whole
      <3> QED
        BY <2>2, <3>1, <3>3 DEF Sound, Whole
    <2> QED
      BY <1>1, <2>1, <2>2
  <1>4. /\ mem = [q \in Procs |-> mem[q]] /\ base = [q \in Procs |-> base[q]]
        /\ lock \in Procs \cup {NoProc}
    BY DEF LedgerInv, SaveInv, LogInv
  <1>5. /\ base' = [q \in Procs |-> base'[q]] /\ base'[p] = log /\ mem'[p] = log
        /\ \A q \in Procs : q # p => base'[q] = base[q] /\ mem'[q] = mem[q]
    BY <1>1, <1>4, OwnOnly
  <1> QED
    BY <1>2, <1>3, <1>4, <1>5, LogKept DEF LedgerInv

\* A command has appended, may have signed, and calls save.
LEMMA CallSaveKeeps ==
    ASSUME LedgerInv, NEW p \in Procs, NEW es \in BoundedSeq(Entries, MaxLen),
           NEW signed \in BOOLEAN, CallSave(p, es, signed)
    PROVE  LogInv'
  <1>m. MaxLen \in Nat
    BY LedgerFileAssumption
  <1>0. Len(es) \in Nat
    <2>1. PICK m \in 0 .. MaxLen : es \in [1 .. m -> Entries]
      BY DEF BoundedSeq, SeqOf
    <2> QED
      BY <1>m, <2>1
  <1>1. PICK old, longer, log :
           /\ old = mem[p] /\ longer = append_all(old, es) /\ log = extend(old, es, signed)
    OBVIOUS
  <1>2. Sound(old) /\ FromSigned(old, saved) /\ IsLog(old)
    BY <1>1 DEF LedgerInv, LogInv, Sound, Whole
  <1>3. /\ mem' = [mem EXCEPT ![p] = log] /\ Len(old) + Len(es) <= MaxLen
        /\ saved' = saved \cup {mem'[p]} /\ UNCHANGED <<file, tmp, lock, base>>
    BY <1>1 DEF CallSave
  <1>4. /\ mem = [q \in Procs |-> mem[q]] /\ base = [q \in Procs |-> base[q]]
        /\ lock \in Procs \cup {NoProc}
    BY DEF LedgerInv, SaveInv, LogInv
  <1>5. mem'[p] = log /\ \A q \in Procs : q # p => mem'[q] = mem[q]
    BY <1>3, <1>4, OwnOnly
  <1>6. saved' = saved \cup {log}
    BY <1>3, <1>5
  <1>7. /\ IsLog(longer) /\ Len(longer) = Len(old) + Len(es)
        /\ \A i \in 1 .. Len(old) : longer[i] = old[i]
        /\ \A i \in Len(old) + 1 .. Len(longer) : longer[i].signature = NoSign
        /\ verify_chain(longer)
    BY <1>0, <1>1, <1>2, AppendAllIs DEF Sound
  <1>8. Sound(log) /\ FromSigned(log, saved \cup {log})
    <2>1. CASE signed
      <3>1. log = sign_ledger(longer, Key)
        BY <1>1, <2>1 DEF extend
      <3>2. /\ IsLog(log) /\ Len(log) = Len(longer) /\ verify_chain(log)
            /\ \A i \in 1 .. Len(longer) : log[i].signature = sign_event(log[i], Key)
        BY <1>7, <3>1, SignIs
      <3>3. DOMAIN log = 1 .. Len(longer)
        BY <3>2, LogIs
      <3> QED
        BY <1>3, <1>7, <3>2, <3>3 DEF Sound, Whole, FromSigned
    <2>2. CASE ~signed
      <3>1. log = longer
        BY <1>1, <2>2 DEF extend
      <3>2. Len(old) \in Nat /\ DOMAIN old = 1 .. Len(old) /\ DOMAIN log = 1 .. Len(log)
        BY <1>2, <1>7, <3>1, LogIs
      <3>3. PICK whole \in saved \cup {<<>>} : \A i \in DOMAIN old :
                \/ old[i].signature = NoSign
                \/ \E j \in DOMAIN whole :
                       /\ whole[j].sequence = old[i].sequence
                       /\ whole[j].signature = old[i].signature
                       /\ whole[j].signature = sign_event(whole[j], Key)
        BY <1>2 DEF FromSigned
      <3>4. \A i \in DOMAIN log :
               i \in 1 .. Len(old) \/ i \in Len(old) + 1 .. Len(longer)
        BY <1>0, <1>7, <3>1, <3>2
      <3>5. \A i \in DOMAIN log :
                \/ log[i].signature = NoSign
                \/ \E j \in DOMAIN whole :
                       /\ whole[j].sequence = log[i].sequence
                       /\ whole[j].signature = log[i].signature
                       /\ whole[j].signature = sign_event(whole[j], Key)
        BY <1>7, <3>1, <3>2, <3>3, <3>4
      <3>6. FromSigned(log, saved \cup {log})
        BY <3>5 DEF FromSigned
      <3> QED
        BY <1>3, <1>7, <3>1, <3>6 DEF Sound, Whole
    <2> QED
      BY <2>1, <2>2
  <1> QED
    BY <1>3, <1>4, <1>5, <1>6, <1>8, LogKept DEF LedgerInv

\* The steps of a save, and its end; a crash.
LEMMA SaveStepKeeps ==
    ASSUME LedgerInv, NEW p \in Procs, Lock(p) \/ SaveStep(p) \/ Crash(p)
    PROVE  LogInv'
  <1>0. /\ mem = [q \in Procs |-> mem[q]] /\ base = [q \in Procs |-> base[q]]
        /\ lock \in Procs \cup {NoProc}
    BY DEF LedgerInv, SaveInv, LogInv
  <1>1. CASE Lock(p)
    BY <1>0, <1>1, LogKept DEF Lock, LedgerInv
  <1>2. CASE OpenTmp(p)
    BY <1>0, <1>2, LogKept DEF OpenTmp, LedgerInv
  <1>3. CASE Dump(p)
    <2>1. mem[p] \in saved
      BY <1>3 DEF Dump, Goto, LedgerInv, SaveInv, Saving
    <2> QED
      BY <1>0, <1>3, <2>1, LogKept DEF Dump, LedgerInv
  <1>4. CASE Replace(p)
    <2>1. tmp \in saved
      BY <1>4 DEF Replace, Goto, LedgerInv, SaveInv, Saving
    <2>2. /\ file' = tmp /\ tmp' = NoFile /\ UNCHANGED <<lock, mem, base, saved>>
      BY <1>4 DEF Replace
    <2>3. Whole(tmp) /\ FromSigned(tmp, saved)
      BY <2>1 DEF LedgerInv, LogInv, Sound
    <2>4. FromSaved(tmp, saved)
      BY <2>1 DEF FromSaved
    <2> QED
      BY <1>0, <2>2, <2>3, <2>4, LogKept DEF LedgerInv
  <1>5. CASE Unlock(p) \/ Crash(p)
    <2>1. /\ mem' = [mem EXCEPT ![p] = <<>>] /\ base' = [base EXCEPT ![p] = <<>>]
          /\ UNCHANGED <<file, tmp, saved>> /\ lock' \in {lock, NoProc}
      BY <1>5 DEF Unlock, Crash, Forget, unlocked
    <2>2. /\ base' = [q \in Procs |-> base'[q]] /\ base'[p] = <<>> /\ mem'[p] = <<>>
          /\ \A q \in Procs : q # p => base'[q] = base[q] /\ mem'[q] = mem[q]
      BY <1>0, <2>1, OwnOnly
    <2>3. Sound(<<>>) /\ IsLog(<<>>) /\ FromSigned(<<>>, saved) /\ Begins(<<>>, saved)
      BY EmptyIs
    <2> QED
      BY <1>0, <2>1, <2>2, <2>3, LogKept DEF LedgerInv
  <1> QED
    BY <1>1, <1>2, <1>3, <1>4, <1>5 DEF SaveStep

\* The stored file is damaged.
LEMMA DamageKeeps ==
    ASSUME LedgerInv, Damage
    PROVE  LogInv'
  <1>0. base = [q \in Procs |-> base[q]] /\ lock \in Procs \cup {NoProc}
    BY DEF LedgerInv, LogInv
  <1>1. /\ file # NoFile /\ file' \in changes(file) \cup losses(file) \cup swaps(file)
        /\ UNCHANGED <<tmp, lock, mem, base, saved>>
    BY DEF Damage, procVars
  <1>2. PICK log, r : log = file /\ r = file'
    OBVIOUS
  <1>3. Whole(log) /\ FromSaved(log, saved) /\ FromSigned(log, saved)
    BY <1>1, <1>2 DEF LedgerInv, LogInv
  <1>4. Whole(r) /\ \A i \in DOMAIN r : \E j \in DOMAIN log : Kept(r[i], log[j])
    BY <1>1, <1>2, <1>3, DamageIs
  <1>5. FromSaved(r, saved)
    BY <1>3, <1>4 DEF FromSaved, Kept
  <1>6. FromSigned(r, saved)
    <2>1. PICK whole \in saved \cup {<<>>} : \A i \in DOMAIN log :
              \/ log[i].signature = NoSign
              \/ \E j \in DOMAIN whole :
                     /\ whole[j].sequence = log[i].sequence
                     /\ whole[j].signature = log[i].signature
                     /\ whole[j].signature = sign_event(whole[j], Key)
      BY <1>3 DEF FromSigned
    <2>2. \A i \in DOMAIN r :
              \/ r[i].signature = NoSign
              \/ \E j \in DOMAIN whole :
                     /\ whole[j].sequence = r[i].sequence
                     /\ whole[j].signature = r[i].signature
                     /\ whole[j].signature = sign_event(whole[j], Key)
      <3> SUFFICES ASSUME NEW i \in DOMAIN r, r[i].signature # NoSign
                   PROVE  \E j \in DOMAIN whole :
                              /\ whole[j].sequence = r[i].sequence
                              /\ whole[j].signature = r[i].signature
                              /\ whole[j].signature = sign_event(whole[j], Key)
        OBVIOUS
      <3>1. PICK l \in DOMAIN log : Kept(r[i], log[l])
        BY <1>4
      <3>2. log[l].sequence = r[i].sequence /\ log[l].signature = r[i].signature
        BY <3>1 DEF Kept
      <3> QED
        BY <2>1, <3>2
    <2> QED
      BY <2>2 DEF FromSigned
  <1> QED
    BY <1>0, <1>1, <1>2, <1>4, <1>5, <1>6, LogKept DEF LedgerInv

\* The invariant at the start.
LEMMA LedgerInit == Init => LedgerInv
  <1> SUFFICES ASSUME Init PROVE LogInv
    BY SaveInit DEF LedgerInv
  <1>1. \A p \in Procs : mem[p] = <<>> /\ base[p] = <<>>
    BY DEF Init
  <1>2. Sound(<<>>) /\ IsLog(<<>>) /\ FromSigned(<<>>, saved) /\ Begins(<<>>, saved)
    BY EmptyIs
  <1>3. LoadSound
    BY <1>1, <1>2 DEF LoadSound, Begins
  <1> QED
    BY <1>1, <1>2, <1>3 DEF Init, LogInv

\* LedgerInv is inductive.
LEMMA LedgerNext == LedgerInv /\ [Next]_vars => LedgerInv'
  <1> SUFFICES ASSUME LedgerInv, [Next]_vars PROVE LogInv'
    BY SaveNext DEF LedgerInv
  <1>1. CASE UNCHANGED vars
    <2>1. UNCHANGED <<file, tmp, lock, mem, base, saved>>
      BY <1>1 DEF vars, procVars
    <2> QED
      BY <2>1, LogKept DEF LedgerInv, LogInv
  <1> QED
    BY <1>1, OpenKeeps, CallSaveKeeps, SaveStepKeeps, DamageKeeps DEF Next

-----------------------------------------------------------------------------
(* What follows from the invariant.                                        *)

\* Two events with the same signature, each signed as it stands, are equal.
LEMMA SignatureIdentifies ==
    ASSUME NEW a, NEW b, IsEvent(a), IsEvent(b), a.signature = b.signature,
           a.signature = sign_event(a, Key), b.signature = sign_event(b, Key)
    PROVE  a = b
  <1>1. canonical(a) = canonical(b)
    <2>1. PICK x, y : x = canonical(a) /\ y = canonical(b)
      OBVIOUS
    <2>2. <<Key, x>> = <<Key, y>>
      BY <2>1 DEF sign_event
    <2> QED
      BY <2>1, <2>2
  <1>2. ASSUME NEW k \in Fields PROVE a[k] = b[k]
    <2>1. CASE k = "signature"
      BY <2>1
    <2>2. CASE k # "signature"
      <3>1. canonical(a)[k] = a[k] /\ canonical(b)[k] = b[k]
        BY <2>2 DEF canonical, IsEvent
      <3> QED
        BY <1>1, <3>1
    <2> QED
      BY <2>1, <2>2
  <1> QED
    BY <1>2 DEF IsEvent

\* A stored log that verify_ledger accepts is the beginning of the log its signatures
\* were made for.
LEMMA InvSigned == LedgerInv => SignedSound
  <1> SUFFICES ASSUME LedgerInv, file # NoFile, verify_ledger(file, Key)
               PROVE  \E log \in saved \cup {<<>>} : IsPrefix(file, log)
    BY DEF SignedSound
  <1>1. PICK log : log = file
    OBVIOUS
  <1>2. IsLog(log) /\ FromSigned(log, saved) /\ verify_chain(log)
    BY <1>1 DEF LedgerInv, LogInv, Whole, verify_ledger
  <1>3. PICK whole \in saved \cup {<<>>} : \A i \in DOMAIN log :
            \/ log[i].signature = NoSign
            \/ \E j \in DOMAIN whole :
                   /\ whole[j].sequence = log[i].sequence
                   /\ whole[j].signature = log[i].signature
                   /\ whole[j].signature = sign_event(whole[j], Key)
    BY <1>2 DEF FromSigned
  <1> DEFINE m == Len(log)
             n == Len(whole)
  <1>4. /\ m \in Nat /\ DOMAIN log = 1 .. m /\ log = [i \in 1 .. m |-> log[i]]
        /\ \A i \in 1 .. m : IsEvent(log[i]) /\ log[i].sequence = i
                              /\ log[i].signature = sign_event(log[i], Key)
    BY <1>1, <1>2, LogIs, ChainIs DEF Linked, verify_ledger
  <1>5. Sound(whole)
    BY EmptyIs DEF LedgerInv, LogInv
  <1>6. /\ n \in Nat /\ DOMAIN whole = 1 .. n /\ whole = [i \in 1 .. n |-> whole[i]]
        /\ \A i \in 1 .. n : IsEvent(whole[i]) /\ whole[i].sequence = i
    BY <1>5, LogIs, ChainIs DEF Linked, Sound, Whole
  <1> HIDE DEF m, n
  <1>7. ASSUME NEW i \in 1 .. m
        PROVE  i \in 1 .. n /\ log[i] = whole[i]
    <2>1. log[i].signature # NoSign
      <3>1. PICK x : x = canonical(log[i])
        OBVIOUS
      <3>2. log[i].signature = <<Key, x>>
        BY <1>4, <3>1 DEF sign_event
      <3>3. <<Key, x>> # <<>>
        OBVIOUS
      <3> QED
        BY <3>2, <3>3 DEF NoSign
    <2>2. PICK j \in 1 .. n :
             /\ whole[j].sequence = log[i].sequence
             /\ whole[j].signature = log[i].signature
             /\ whole[j].signature = sign_event(whole[j], Key)
      BY <1>3, <1>4, <1>6, <2>1
    <2>3. j = i
      BY <1>4, <1>6, <2>2
    <2>4. log[i] = whole[j]
      BY <1>4, <1>6, <2>2, SignatureIdentifies
    <2> QED
      BY <2>3, <2>4
  <1>8. m <= n
    <2>1. m \in Nat /\ n \in Nat
      BY <1>4, <1>6
    <2>2. m # 0 => m \in 1 .. m
      BY <2>1
    <2>3. m # 0 => m \in 1 .. n
      BY <1>7, <2>2
    <2> QED
      BY <2>1, <2>3
  <1>9. IsPrefix(log, whole)
    <2>1. m \in Nat /\ n \in Nat /\ OnRange(log, m) /\ OnRange(whole, n)
      BY <1>4, <1>6 DEF OnRange
    <2>2. \A i \in 1 .. m : log[i] = whole[i]
      BY <1>7
    <2> QED
      BY <1>8, <2>1, <2>2, PrefixIs
  <1> QED
    BY <1>1, <1>9

\* Equal hashes mean equal histories: the least distance back at which the hashes of
\* two sound logs differ would be one behind a place where they agree.
LEMMA HashIdentifies ==
    ASSUME NEW a, NEW b, Sound(a), Sound(b), NEW i \in 1 .. Len(a), NEW j \in 1 .. Len(b),
           a[i].hash = b[j].hash
    PROVE  i = j /\ \A k \in 1 .. i : a[k].hash = b[k].hash
  <1>1. /\ Len(a) \in Nat /\ \A k \in 1 .. Len(a) : Linked(a, k)
        /\ Len(b) \in Nat /\ \A k \in 1 .. Len(b) : Linked(b, k)
    BY LogIs, ChainIs DEF Sound, Whole
  <1>2. i = j
    BY <1>1 DEF Linked
  <1> DEFINE Bad == {d \in Nat : d < i /\ a[i - d].hash # b[i - d].hash}
  <1>3. ASSUME Bad # {} PROVE FALSE
    <2>1. PICK m \in Bad : \A l \in Bad : m <= l
      BY <1>3, LeastNumber
    <2>2. m \in Nat /\ m < i /\ m # 0
      BY <1>2
    <2>3. m - 1 \in Nat /\ ~(m <= m - 1) /\ m - 1 < i
      BY <2>2
    <2>4. m - 1 \notin Bad
      BY <2>1, <2>3
    <2> DEFINE k == i - (m - 1)
    <2>5. a[k].hash = b[k].hash
      BY <2>3, <2>4
    <2>6. k \in 1 .. Len(a) /\ k \in 1 .. Len(b) /\ k # 1 /\ k - 1 = i - m
      BY <1>1, <1>2, <2>2
    <2> HIDE DEF k
    <2>7. /\ a[k].hash = <<k, a[k - 1].hash, a[k].type, a[k].subject, a[k].at>>
          /\ b[k].hash = <<k, b[k - 1].hash, b[k].type, b[k].subject, b[k].at>>
      BY <1>1, <2>6 DEF Linked, prev
    <2>8. a[k - 1].hash = b[k - 1].hash
      <3>1. PICK v, w : v = a[k - 1].hash /\ w = b[k - 1].hash
        OBVIOUS
      <3>2. <<k, v, a[k].type, a[k].subject, a[k].at>> = <<k, w, b[k].type, b[k].subject, b[k].at>>
        BY <2>5, <2>7, <3>1
      <3>3. v = w
        BY <3>2
      <3> QED
        BY <3>1, <3>3
    <2>9. a[i - m].hash # b[i - m].hash
      OBVIOUS
    <2> QED
      BY <2>6, <2>8, <2>9
  <1>4. ASSUME NEW k \in 1 .. i PROVE a[k].hash = b[k].hash
    <2>1. i - k \in Nat /\ i - k < i /\ i - (i - k) = k
      OBVIOUS
    <2>2. i - k \notin Bad
      BY <1>3
    <2>3. a[i - (i - k)].hash = b[i - (i - k)].hash
      BY <2>1, <2>2
    <2> QED
      BY <2>1, <2>3
  <1> QED
    BY <1>2, <1>4

\* So an idempotency key, which is anchored on the hash, names one history.
LEMMA InvKeys == LedgerInv => KeysNameHistories
  <1> SUFFICES ASSUME LedgerInv, NEW a \in saved, NEW b \in saved,
                      NEW x \in execution_events(a), NEW y \in execution_events(b),
                      ident(a[x[1]], x[2]) = ident(b[y[1]], y[2])
               PROVE  x = y /\ covered(SubSeq(a, 1, x[1])) = covered(SubSeq(b, 1, y[1]))
    BY DEF KeysNameHistories
  <1>1. PICK i \in DOMAIN a : x = <<i, x[2]>>
    BY DEF execution_events
  <1>2. PICK j \in DOMAIN b : y = <<j, y[2]>>
    BY DEF execution_events
  <1>3. a[i].hash = b[j].hash /\ x[2] = y[2]
    BY <1>1, <1>2 DEF ident
  <1>4. Sound(a) /\ Sound(b)
    BY DEF LedgerInv, LogInv
  <1>5. /\ Len(a) \in Nat /\ DOMAIN a = 1 .. Len(a) /\ \A k \in 1 .. Len(a) : Linked(a, k)
        /\ Len(b) \in Nat /\ DOMAIN b = 1 .. Len(b) /\ \A k \in 1 .. Len(b) : Linked(b, k)
    BY <1>4, LogIs, ChainIs DEF Sound, Whole
  <1>6. i = j /\ \A k \in 1 .. i : a[k].hash = b[k].hash
    BY <1>3, <1>4, <1>5, HashIdentifies
  <1>7. ASSUME NEW k \in 1 .. i
        PROVE  a[k].type = b[k].type /\ a[k].subject = b[k].subject /\ a[k].at = b[k].at
    <2>1. k \in 1 .. Len(a) /\ k \in 1 .. Len(b)
      BY <1>5, <1>6
    <2>2. /\ a[k].hash = <<k, prev(a, k), a[k].type, a[k].subject, a[k].at>>
          /\ b[k].hash = <<k, prev(b, k), b[k].type, b[k].subject, b[k].at>>
      BY <1>5, <2>1 DEF Linked
    <2> QED
      BY <1>6, <2>2
  <1>8. ASSUME NEW log, IsLog(log), i \in 1 .. Len(log)
        PROVE  covered(SubSeq(log, 1, i)) =
                   [k \in 1 .. i |-> <<log[k].type, log[k].subject, log[k].at>>]
    <2>1. PICK s : s = SubSeq(log, 1, i)
      OBVIOUS
    <2>2. DOMAIN s = 1 .. i /\ \A k \in 1 .. i : s[k] = log[k]
      BY <1>8, <2>1 DEF IsLog
    <2> QED
      BY <2>1, <2>2 DEF covered
  <1>9. covered(SubSeq(a, 1, i)) = covered(SubSeq(b, 1, i))
    <2>1. IsLog(a) /\ IsLog(b) /\ i \in 1 .. Len(a) /\ i \in 1 .. Len(b)
      BY <1>4, <1>5, <1>6 DEF Sound, Whole
    <2>2. [k \in 1 .. i |-> <<a[k].type, a[k].subject, a[k].at>>]
            = [k \in 1 .. i |-> <<b[k].type, b[k].subject, b[k].at>>]
      BY <1>7
    <2> QED
      BY <1>8, <2>1, <2>2
  <1> QED
    BY <1>1, <1>2, <1>3, <1>6, <1>9

\* The rest.
LEMMA InvType == LedgerInv => TypeOK
  BY DEF LedgerInv, LogInv, SaveInv, TypeOK, Sound, Whole

-----------------------------------------------------------------------------
(* The theorems.                                                           *)

\* Whatever is stored, in a file or in memory, is a log of whole events, and a log in
\* memory respects its bound.
THEOREM TypeCorrect == Spec => []TypeOK
  BY InvType, LedgerInit, LedgerNext, PTL DEF Spec

\* Tamper evidence of load (verify_chain), after any number of damages to the file, and
\* also when damaged logs were loaded, extended and saved again: what a process loads
\* agrees, in all that the hashes cover, with the beginning of a log that was saved.
THEOREM LoadIsSound == Spec => []LoadSound
  <1>1. LedgerInv => LoadSound
    BY DEF LedgerInv, LogInv
  <1> QED
    BY <1>1, LedgerInit, LedgerNext, PTL DEF Spec

\* verify_ledger accepts, of all that damages can make of the stored file, only the
\* beginning of a log that was saved, in every field.
THEOREM SignaturesAreSound == Spec => []SignedSound
  BY InvSigned, LedgerInit, LedgerNext, PTL DEF Spec

\* An idempotency key (_ident, anchored on the event hash) names one place in one history
\* of types, subjects and times, in all logs that are ever saved: what deduplication
\* drops agrees with what it keeps in all that the hash covers.  It may differ in the
\* paths it touched, which the hash leaves out.
THEOREM KeysAreSound == Spec => []KeysNameHistories
  BY InvKeys, LedgerInit, LedgerNext, PTL DEF Spec
=============================================================================
