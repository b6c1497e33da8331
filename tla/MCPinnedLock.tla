----------------------------- MODULE MCPinnedLock ----------------------------
(***************************************************************************)
(* Small instances of PinnedLock for TLC.                                  *)
(***************************************************************************)
EXTENDS PinnedLock

CONSTANTS main, worker, other, p1, p2, d2, i1

\* A process with a main thread and a worker, and one more process.
TwoProcesses == [th \in {main, worker, other} |-> IF th = other THEN p2 ELSE p1]

\* A process, and one that is forked from it and has two threads.
ThreadedChild == [th \in {main, worker, other} |-> IF th = main THEN p1 ELSE p2]

\* Bound: the second directory does not hold the first lock file.  As files are
\* interchangeable, and directories too, this leaves out only that both have
\* their file replaced by another one; in one of them it still is.
OneFileReplaced == entry[d2] # i1
==============================================================================
