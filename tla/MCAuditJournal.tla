---------------------------- MODULE MCAuditJournal ---------------------------
(***************************************************************************)
(* Small instances of AuditJournal for TLC.                                *)
(***************************************************************************)
EXTENDS AuditJournalInvariant, TLC

CONSTANTS th1, th2, p1, p2

\* Two threads of one process, and two processes of one thread each.
OneProcess   == [th \in {th1, th2} |-> p1]
TwoProcesses == [th \in {th1, th2} |-> IF th = th1 THEN p1 ELSE p2]

\* Documents are interchangeable; with a process each, so are the contents.
Symmetry == Permutations(Files) \cup Permutations(Contents)
==============================================================================
