---------------------------- MODULE MCLedgerFile ----------------------------
(* Instances of LedgerFile for TLC.                                        *)
EXTENDS LedgerFile

MCEntries == {[type |-> "file_edited", subject |-> 1, at |-> 0, touched |-> {"a"}],
              [type |-> "task_completed", subject |-> 1, at |-> 0, touched |-> {}]}
=============================================================================
