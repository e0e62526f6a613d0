----------------------------- MODULE AtomicFile -----------------------------
(***************************************************************************)
(* What the ledger store promises to its processes: a session begins with  *)
(* the stored ledger or a fresh one, and a save takes effect in one step,  *)
(* at most once, with the ledger that was handed to it; otherwise only an  *)
(* edit from outside changes what is stored.  There is no lock, no         *)
(* temporary file and no half-written ledger.                              *)
(***************************************************************************)
EXTENDS Integers

CONSTANTS Procs, NoFile

VARIABLES
    content,  \* what is stored
    session,  \* process -> "none", "open", "saving" or "saved"
    held,     \* process -> its ledger
    edits     \* edits from outside

vars == <<content, session, held, edits>>

Init ==
    /\ content = NoFile
    /\ session = [p \in Procs |-> "none"]
    /\ held = [p \in Procs |-> <<>>]
    /\ edits = 0

Moves(p, here, there) == session[p] = here /\ session' = [session EXCEPT ![p] = there]

Open(p) ==
    /\ Moves(p, "none", "open")
    /\ \E ledger \in {content, <<>>} : held' = [held EXCEPT ![p] = ledger]
    /\ UNCHANGED <<content, edits>>

\* The process has made of its ledger what it likes.
Save(p) ==
    /\ Moves(p, "open", "saving")
    /\ held' = [held EXCEPT ![p] = held'[p]]
    /\ UNCHANGED <<content, edits>>

TakeEffect(p) ==
    /\ Moves(p, "saving", "saved")
    /\ content' = held[p]
    /\ UNCHANGED <<held, edits>>

\* The save returns, or the process dies: before the save took effect, or after it.
Close(p) ==
    /\ session[p] # "none"
    /\ Moves(p, session[p], "none")
    /\ held' = [held EXCEPT ![p] = <<>>]
    /\ UNCHANGED <<content, edits>>

Edit == edits' = edits + 1 /\ UNCHANGED <<session, held>>

Next == Edit \/ \E p \in Procs : Open(p) \/ Save(p) \/ TakeEffect(p) \/ Close(p)

Spec == Init /\ [][Next]_vars
=============================================================================
