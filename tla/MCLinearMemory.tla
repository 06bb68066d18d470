--------------------------- MODULE MCLinearMemory ---------------------------
EXTENDS LinearMemory

(* Every byte of the block and of the buffer has a value of its own.       *)
OldByte(p, o) == 100 + p * PageSize + o
SrcByte(i) == i + 1
Bytes == 0..200
=============================================================================
