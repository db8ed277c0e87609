----------------------------- MODULE MCWinDriver -----------------------------
(* Instances of WinDriver small enough for TLC. *)
EXTENDS WinDriver, TLC

CONSTANTS t1, t2, h1, h2, b1, b2, b3
BufSymmetry == Permutations(Bufs)

(* two processes with a thread each, two threads of one process, one tool *)
TwoProcesses == [t \in Threads |-> IF t = t1 THEN {h1} ELSE {h2}]
OneProcess == [t \in Threads |-> {h1}]
OneTool == [t \in Threads |-> {h1, h2}]
=============================================================================
