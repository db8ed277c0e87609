-------------------------- MODULE MCFileTensorHistory --------------------------
(* Instances of FileTensorHistory, and of the inductive invariant, small    *)
(* enough for TLC.                                                          *)
EXTENDS FileTensorHistory, FileTensorInv

CONSTANT k1
=============================================================================
