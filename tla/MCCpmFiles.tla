----------------------------- MODULE MCCpmFiles -----------------------------
EXTENDS CpmFiles, TLC

CONSTANTS x, y, ro, was, A1, A2

(* A file of a record and a half, one that does not exist, and one of two  *)
(* records that cannot be written.                                         *)
MCInitial ==
  (x :> <<was, was, was>>) @@ (y :> NoFile) @@ (ro :> <<was, was, was, was>>)

Symmetry == Permutations(FcbAddr)
=============================================================================
