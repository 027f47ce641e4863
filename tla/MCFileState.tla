---------------------------- MODULE MCFileState -----------------------------
(***************************************************************************)
(* FileState for TLC: one volume that is created and overwritten with a    *)
(* different content (as when the node controller corrects a size), one    *)
(* that may exist from an earlier run, and two interchangeable callers.    *)
(***************************************************************************)
EXTENDS FileState, TLC

CONSTANTS i1, i2, d1, d2

MCWrites == {<<i1, d1>>, <<i1, d2>>}

Symmetry == Permutations(Callers)
=============================================================================
