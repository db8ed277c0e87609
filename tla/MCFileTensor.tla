----------------------------- MODULE MCFileTensor -----------------------------
(* Instances of FileTensor small enough for TLC. *)
EXTENDS FileTensor, TLC

CONSTANTS k1, k2
JobSymmetry == Permutations(Jobs)
=============================================================================
