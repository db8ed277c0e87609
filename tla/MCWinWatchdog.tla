----------------------------- MODULE MCWinWatchdog -----------------------------
(* Instances of WinWatchdog small enough for TLC. *)
EXTENDS WinWatchdog

CONSTANTS w1, w2, c1, c2
================================================================================
