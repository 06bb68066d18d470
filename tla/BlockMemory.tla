----------------------------- MODULE BlockMemory -----------------------------
(***************************************************************************)
(* What bl_lmem_copy_to and bl_lmem_copy_from of BLCRT.C do for a program: *)
(* a block of linear memory is an array of bytes, and a copy moves a range *)
(* of it in one step.  One range is different: when the last of several    *)
(* bytes is the first of a page, that byte is not the block's but the one  *)
(* beside the mapped page.                                                 *)
(***************************************************************************)
EXTENDS Integers

CONSTANTS
  PageSize, \* bytes of a page
  MaxAsk,   \* bytes of the largest block, and of the program's buffer
  Data,     \* values of a byte
  Src(_)    \* the bytes a program writes

VARIABLES
  mem,    \* the block
  got,    \* the buffer that bl_lmem_copy_from fills
  beside  \* the byte beside the mapped page, at 8000H

memVars == <<mem, got, beside>>

MemInit == mem = [i \in {} |-> 0] /\ got \in [0..MaxAsk - 1 -> Data] /\ beside \in Data

(* The page boundary is met only between two bytes that are left.          *)
Strays(a, n) == n > 1 /\ (a + n) % PageSize = 1 % PageSize
Inside(a, n) == a..a + n - 1 - (IF Strays(a, n) THEN 1 ELSE 0)

Take(n) ==
  /\ DOMAIN mem = {}
  /\ mem' \in [0..n - 1 -> Data]
  /\ UNCHANGED <<got, beside>>

Write(a, n) ==
  /\ mem' = [i \in DOMAIN mem |-> IF i \in Inside(a, n) THEN Src(i - a) ELSE mem[i]]
  /\ beside' = IF Strays(a, n) THEN Src(n - 1) ELSE beside
  /\ UNCHANGED got

Read(a, n) ==
  /\ got' = [i \in DOMAIN got |->
               IF i >= n THEN got[i] ELSE IF a + i \in Inside(a, n) THEN mem[a + i] ELSE beside]
  /\ UNCHANGED <<mem, beside>>

MemNext ==
  \/ \E n \in 0..MaxAsk : Take(n)
  \/ \E a, n \in 0..MaxAsk : a..a + n - 1 \subseteq DOMAIN mem /\ (Write(a, n) \/ Read(a, n))

MemSpec == MemInit /\ [][MemNext]_memVars
=============================================================================
