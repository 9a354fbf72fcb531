----------------------------- MODULE MCAsyncFile -----------------------------
(* Instances of AsyncFile for TLC.                                         *)
EXTENDS AsyncFile, TLC

CONSTANTS p1, p2

Symmetry == Permutations(Producers)
==============================================================================
