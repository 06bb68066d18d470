---------------------------- MODULE MCBankLoader ----------------------------
EXTENDS BankLoader, TLC

CONSTANTS s1, s2, s3, s4, s5

(* The mapper hands out any free segment: segments are interchangeable.    *)
Symmetry == Permutations(Seg)
=============================================================================
