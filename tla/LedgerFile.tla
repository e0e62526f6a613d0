----------------------------- MODULE LedgerFile -----------------------------
(***************************************************************************)
(* A ledger in its store: ledger/store.py (the hash chain), persistence.py *)
(* (save and load), security/signing.py, and the keys ledger/events.py     *)
(* derives from the chain.                                                 *)
(*                                                                         *)
(* Processes load, extend, sign and save one ledger at the same time; each *)
(* may crash anywhere.  The stored file may be damaged between two of      *)
(* their steps: edited by hand, or by a disk that lost blocks.             *)
(*                                                                         *)
(* A hash is what it is computed from, a signature is its key and what it  *)
(* signs: equal exactly when the arguments are.                            *)
(***************************************************************************)
EXTENDS Integers, SequencesExt

CONSTANTS
    Procs,       \* processes that use the store
    Entries,     \* what may be appended: [type, subject, at, touched]
    Key,         \* the signing key
    NoFile,      \* no such file
    Torn,        \* a file that was opened for writing and not yet written
    MaxLen,      \* bound: events in a log
    MaxSaves,    \* bound: saves
    MaxCrashes,  \* bound: crashes
    MaxDamages   \* bound: damages to the stored file

NoProc  == 0
NoHash  == <<>>
NoSign  == <<>>

ASSUME LedgerFileAssumption ==
    /\ Procs \subseteq Nat \ {NoProc}
    /\ {MaxLen, MaxSaves, MaxCrashes, MaxDamages} \subseteq Nat

-----------------------------------------------------------------------------
(* The hash chain and the signatures.                                      *)

\* touched_paths, client_id and project_id are not part of it.
compute_event_hash(sequence, previous, e) ==
    <<sequence, previous, e.type, e.subject, e.at>>

last_hash(log) == IF log = <<>> THEN NoHash ELSE Last(log).hash

append_event(log, e) ==
    Append(log, [type |-> e.type, subject |-> e.subject, at |-> e.at, touched |-> e.touched,
                 sequence |-> Len(log) + 1, previous |-> last_hash(log),
                 hash |-> compute_event_hash(Len(log) + 1, last_hash(log), e),
                 signature |-> NoSign])

\* Mutant: the links are followed, the hashes are not computed again.
verify_links(log) ==
    \A i \in DOMAIN log :
        /\ log[i].sequence = i
        /\ log[i].previous = last_hash(SubSeq(log, 1, i - 1))

verify_chain(log) ==
    \A i \in DOMAIN log :
        LET previous == last_hash(SubSeq(log, 1, i - 1))
        IN  /\ log[i].sequence = i
            /\ log[i].previous = previous
            /\ log[i].hash = compute_event_hash(log[i].sequence, previous, log[i])

\* Mutant: the signature covers the hash of the event, not the event.
canonical_hash(e) == e.hash

\* The event without its signature.
canonical(e) == [e EXCEPT !.signature = NoSign]

sign_event(e, key) == <<key, canonical(e)>>
sign_ledger(log, key) == [i \in DOMAIN log |-> [log[i] EXCEPT !.signature = sign_event(log[i], key)]]

verify_ledger(log, key) ==
    verify_chain(log) /\ \A i \in DOMAIN log : log[i].signature = sign_event(log[i], key)

-----------------------------------------------------------------------------
(* The projection to Iplanic's events: one for each entry that maps, and a *)
(* test event beside task_completed.                                       *)

\* "test" is test.passed or test.failed; compensations and resolutions are skipped.
EventMap == [task_started |-> {"task.started"}, file_edited |-> {"file.changed"},
             task_completed |-> {"task.completed", "test"}, task_blocked |-> {"task.blocked"},
             commit |-> {"artifact.created"}, compensation |-> {}, resolution |-> {}]

\* Mutant: the key is anchored on the place in the log.
ident_positional(e, type) == <<e.sequence, type>>

\* The idempotency key, without the run_id that all of them share.
ident(e, type) == <<e.hash, type>>

execution_events(log) == UNION {{<<i, type>> : type \in EventMap[log[i].type]} : i \in DOMAIN log}

-----------------------------------------------------------------------------
VARIABLES
    file,     \* <ledger_id>.yaml
    tmp,      \* <ledger_id>.yaml.tmp
    lock,     \* who holds the lock on .<ledger_id>.lock
    place,    \* process -> where it is
    mem,      \* process -> the log in memory
    base,     \* process -> the log it loaded
    saved,    \* history: the logs handed to save
    damaged,  \* TRUE: the stored file was damaged since it was written
    saves, crashes, damages

procVars == <<place, mem, base>>
vars == <<file, tmp, lock, procVars, saved, damaged, saves, crashes, damages>>

Init ==
    /\ file = NoFile /\ tmp = NoFile /\ lock = NoProc
    /\ place = [p \in Procs |-> "idle"]
    /\ mem = [p \in Procs |-> <<>>]
    /\ base = [p \in Procs |-> <<>>]
    /\ saved = {}
    /\ damaged = FALSE
    /\ saves = 0 /\ crashes = 0 /\ damages = 0

Stored == UNCHANGED <<file, tmp, lock, saved, damaged, saves, crashes, damages>>

\* The process ends, and its memory with it.
Forget(p) == mem' = [mem EXCEPT ![p] = <<>>] /\ base' = [base EXCEPT ![p] = <<>>]

Goto(p, here, there) == place[p] = here /\ place' = [place EXCEPT ![p] = there]

\* run: a fresh ledger.
Create(p) ==
    /\ Goto(p, "idle", "open")
    /\ mem' = [mem EXCEPT ![p] = <<>>]
    /\ base' = [base EXCEPT ![p] = <<>>]
    /\ Stored

\* load takes no lock.  It raises ValueError, and the command ends, when the chain
\* does not verify.
Load(p) ==
    /\ file \notin {NoFile, Torn}
    /\ verify_chain(file)
    /\ Goto(p, "idle", "open")
    /\ mem' = [mem EXCEPT ![p] = file]
    /\ base' = [base EXCEPT ![p] = file]
    /\ Stored

append_all(log, es) ==
    LET after[n \in 0 .. Len(es)] == IF n = 0 THEN log ELSE append_event(after[n - 1], es[n])
    IN  after[Len(es)]

\* What a command does to its ledger in memory, which nobody else sees: it appends
\* the entries es and may sign.
extend(log, es, signed) ==
    IF signed THEN sign_ledger(append_all(log, es), Key) ELSE append_all(log, es)

\* The command calls save, and waits for the lock.
CallSave(p, es, signed) ==
    /\ saves < MaxSaves
    /\ saves' = saves + 1
    /\ Len(mem[p]) + Len(es) <= MaxLen
    /\ mem' = [mem EXCEPT ![p] = extend(@, es, signed)]
    /\ saved' = saved \cup {mem'[p]}
    /\ Goto(p, "open", "lock")
    /\ UNCHANGED <<file, tmp, lock, base, damaged, crashes, damages>>

\* Mutant: a shared lock.
may_lock_shared(p) == TRUE

may_lock(p) == lock = NoProc

\* flock(LOCK_EX)
Lock(p) ==
    /\ may_lock(p)
    /\ Goto(p, "lock", "open_tmp")
    /\ lock' = p
    /\ UNCHANGED <<file, tmp, mem, base, saved, damaged, saves, crashes, damages>>

\* open(tmp, "w") empties the file, also one a crash has left.
OpenTmp(p) ==
    /\ Goto(p, "open_tmp", "dump")
    /\ tmp' = Torn
    /\ UNCHANGED <<file, lock, mem, base, saved, damaged, saves, crashes, damages>>

Dump(p) ==
    /\ Goto(p, "dump", "replace")
    /\ tmp' = mem[p]
    /\ UNCHANGED <<file, lock, mem, base, saved, damaged, saves, crashes, damages>>

\* os.replace
Replace(p) ==
    /\ tmp # NoFile
    /\ Goto(p, "replace", "unlock")
    /\ file' = tmp
    /\ tmp' = NoFile
    /\ damaged' = FALSE
    /\ UNCHANGED <<lock, mem, base, saved, saves, crashes, damages>>

\* Mutant: the lock is left to the garbage collector.
unlocked_later(p) == lock

unlocked(p) == IF lock = p THEN NoProc ELSE lock

\* flock(LOCK_UN); the command ends.
Unlock(p) ==
    /\ Goto(p, "unlock", "idle")
    /\ lock' = unlocked(p)
    /\ Forget(p)
    /\ UNCHANGED <<file, tmp, saved, damaged, saves, crashes, damages>>

\* The process dies, or the write raises and the command ends: the operating system,
\* or the finally clause, gives the lock back; the files stay.
Crash(p) ==
    /\ crashes < MaxCrashes
    /\ crashes' = crashes + 1
    /\ place[p] # "idle"
    /\ place' = [place EXCEPT ![p] = "idle"]
    /\ lock' = IF lock = p THEN NoProc ELSE lock
    /\ Forget(p)
    /\ UNCHANGED <<file, tmp, saved, damaged, saves, damages>>

\* Damages: what the chain covers of an entry is changed, or the touched paths are;
\* an entry is lost; two change places.
altered(x, e)   == [x EXCEPT !.type = e.type, !.subject = e.subject, !.at = e.at]
retouched(x, e) == [x EXCEPT !.touched = e.touched]

changes(log) ==
    {[log EXCEPT ![i] = altered(@, e)] : i \in DOMAIN log, e \in Entries}
    \cup {[log EXCEPT ![i] = retouched(@, e)] : i \in DOMAIN log, e \in Entries}
losses(log) == {RemoveAt(log, i) : i \in DOMAIN log}
swaps(log)  == {[log EXCEPT ![i] = log[i + 1], ![i + 1] = log[i]] : i \in 1 .. Len(log) - 1}

Damage ==
    /\ damages < MaxDamages
    /\ damages' = damages + 1
    /\ file \notin {NoFile, Torn}
    /\ file' \in changes(file) \cup losses(file) \cup swaps(file)
    /\ damaged' = TRUE
    /\ UNCHANGED <<tmp, lock, procVars, saved, saves, crashes>>

SaveStep(p) == OpenTmp(p) \/ Dump(p) \/ Replace(p) \/ Unlock(p)

Next ==
    \/ \E p \in Procs :
           \/ Create(p) \/ Load(p) \/ Lock(p) \/ SaveStep(p) \/ Crash(p)
           \/ \E es \in BoundedSeq(Entries, MaxLen), signed \in BOOLEAN : CallSave(p, es, signed)
    \/ Damage

Spec == Init /\ [][Next]_vars

\* A save goes on, and the kernel serves those who wait for a lock in their order.
FairSpec == Spec /\ \A p \in Procs : WF_vars(SaveStep(p)) /\ SF_vars(Lock(p))

-----------------------------------------------------------------------------
(* Properties.                                                             *)

Places == {"idle", "open", "lock", "open_tmp", "dump", "replace", "unlock"}

Fields == {"type", "subject", "at", "touched", "sequence", "previous", "hash", "signature"}

\* A sequence of events, which are records with the eight fields.
IsEvent(e) == DOMAIN e = Fields /\ e = [k \in DOMAIN e |-> e[k]]
IsLog(log) ==
    log \in Seq({log[i] : i \in DOMAIN log}) /\ \A i \in DOMAIN log : IsEvent(log[i])

\* The type of the state.
TypeOK ==
    /\ file \in {NoFile, Torn} \/ IsLog(file)
    /\ tmp \in {NoFile, Torn} \/ IsLog(tmp)
    /\ lock \in Procs \cup {NoProc}
    /\ place \in [Procs -> Places]
    /\ \A p \in Procs : IsLog(mem[p]) /\ IsLog(base[p]) /\ Len(mem[p]) <= MaxLen

\* Atomic save: whoever reads the stored file, without a lock and whatever writers
\* are at work or have crashed, finds a whole ledger that some process saved.
FileWhole == ~damaged => file \in {NoFile} \cup saved

\* Why: from open_tmp to unlock a process is the one that holds the lock, what it saves
\* is one of the saved logs, and once it has dumped it the temporary file is that log.
Saving == {"open_tmp", "dump", "replace", "unlock"}

SaveInv ==
    /\ place \in [Procs -> Places]
    /\ mem = [p \in Procs |-> mem[p]]
    /\ \A p \in Procs :
           /\ place[p] \in Saving => lock = p
           /\ place[p] \in Saving \cup {"lock"} => mem[p] \in saved
           /\ place[p] = "replace" => tmp = mem[p]
    /\ FileWhole

\* What the hash chain protects.
covered(log) == [i \in DOMAIN log |-> <<log[i].type, log[i].subject, log[i].at>>]

\* Tamper evidence of load (verify_chain): a log that a process loaded agrees, in
\* types, subjects and times and from the first entry on, with one that was saved,
\* although the file was damaged meanwhile.  What may be missing is a tail.
LoadSound ==
    \A p \in Procs : \E log \in saved \cup {<<>>} : IsPrefix(covered(base[p]), covered(log))

\* A stored log that verify_ledger accepts is, in every field, the beginning of one
\* that was saved: the signatures also cover what the chain does not.
SignedSound ==
    (file \notin {NoFile, Torn} /\ verify_ledger(file, Key))
        => \E log \in saved \cup {<<>>} : IsPrefix(file, log)

\* The place, type and history of an event have a key of their own: two events with one
\* idempotency key, of any two logs that were saved (of two processes that went on from
\* one ledger, too), are at the same place behind the same history of types, subjects and
\* times.  The paths they touched, which are sent as artifact_refs, may differ: neither
\* compute_event_hash nor _ident has them, so a key need not stand for one event.
KeysNameHistories ==
    \A a, b \in saved : \A x \in execution_events(a), y \in execution_events(b) :
        ident(a[x[1]], x[2]) = ident(b[y[1]], y[2])
            => x = y /\ covered(SubSeq(a, 1, x[1])) = covered(SubSeq(b, 1, y[1]))

\* The session of AtomicFile that a process is in, by its place.
SessionAt == [idle |-> "none", open |-> "open", lock |-> "saving", open_tmp |-> "saving",
              dump |-> "saving", replace |-> "saving", unlock |-> "saved"]
Store == INSTANCE AtomicFile WITH content <- file, held <- mem, edits <- damages,
                                  session <- [p \in Procs |-> SessionAt[place[p]]]

\* The store implements AtomicFile: through the lock, the temporary file and the rename,
\* a save has its effect at one moment (os.replace), with the process's own ledger, and
\* a crash comes before it or after it (persistence.save).
SavesAtomically == Store!Spec

\* A save that was called ends, also when the holder of the lock crashes.
SaveEnds == \A p \in Procs : place[p] = "lock" ~> place[p] = "idle"

-----------------------------------------------------------------------------
(* The inductive invariant behind LoadSound, SignedSound, and the keys.     *)

Whole(log) == IsLog(log) /\ Len(log) <= MaxLen

Sound(log) == Whole(log) /\ verify_chain(log)

\* The events of a log, in whatever order, have their number and hash from one of logs.
FromSaved(log, logs) ==
    \E whole \in logs : \A i \in DOMAIN log : \E j \in DOMAIN whole :
        whole[j].sequence = log[i].sequence /\ whole[j].hash = log[i].hash

\* The signatures of a log are those of one of logs that was signed.
FromSigned(log, logs) ==
    \E whole \in logs \cup {<<>>} : \A i \in DOMAIN log :
        \/ log[i].signature = NoSign
        \/ \E j \in DOMAIN whole :
               /\ whole[j].sequence = log[i].sequence
               /\ whole[j].signature = log[i].signature
               /\ whole[j].signature = sign_event(whole[j], Key)

LogInv ==
    /\ lock \in Procs \cup {NoProc}
    /\ base = [p \in Procs |-> base[p]]
    /\ \A log \in saved : Sound(log) /\ FromSigned(log, saved)
    /\ \A p \in Procs : Sound(mem[p]) /\ FromSigned(mem[p], saved) /\ IsLog(base[p])
    /\ file # NoFile => Whole(file) /\ FromSaved(file, saved) /\ FromSigned(file, saved)
    /\ tmp \in {NoFile, Torn} \cup saved
    /\ LoadSound

LedgerInv == SaveInv /\ LogInv
=============================================================================
