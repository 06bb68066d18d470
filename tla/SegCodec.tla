------------------------------ MODULE SegCodec ------------------------------
(***************************************************************************)
(* How BLCRT.C keeps a table of segment numbers in a DOS environment       *)
(* string (_put_seg_main, _get_seg_main), for resident banks               *)
(* (put_seg_table, get_seg_table) and for exported lmem blocks             *)
(* (bl_lmem_export, bl_lmem_import).  The string is a sequence of          *)
(* character codes: '*', the number of bytes plus 20H, two characters per  *)
(* byte, and the final NUL.                                                *)
(***************************************************************************)
EXTENDS Naturals, Sequences

CONSTANTS
  SegBytes, \* the byte values tables are made of
  MaxCount, \* bound: entries of a table
  Room      \* bytes the reader's table has: sizeof(tMemSeg), or page_tbl's 64

ASSUME CodecAssumption ==
  SegBytes \subseteq 0..255 /\ MaxCount \in 1..Room /\ Room \in 1..256

VARIABLES
  how,    \* "resident" or "lmem"
  table,  \* the table to save: BankMax (2 bytes) and segments, or page_tbl
  i,      \* bytes encoded or decoded so far
  b,      \* B, the DJNZ counter
  str,    \* seg_env_buf, the environment string
  got,    \* the table read back, on zeroed memory
  codecAt      \* "put", "get", "done"

codecVars == <<how, table, i, b, str, got, codecAt>>

(* A saved table: BankMax, low byte first, and its 2 * BankMax segments    *)
(* followed by those BL_BMAX left unused (zero), or a block's segments.    *)
Tables(h) ==
  IF h = "resident"
    THEN UNION {{<<n, 0>> \o t : t \in [1..2 * n -> SegBytes]} :
                n \in {m \in 1..MaxCount : 2 * m + 2 <= MaxCount}}
    ELSE UNION {[1..n -> SegBytes] : n \in 1..MaxCount}

(* The count: (BankMax + 1) * 2 by INC A, RLCA; or page_max.               *)
Count(h, t) == IF h = "resident" THEN ((t[1] + 1) * 2) % 256 ELSE Len(t)

CodecInit ==
  /\ how \in {"resident", "lmem"}
  /\ table \in Tables(how)
  /\ i = 0
  /\ b = Count(how, table)
  /\ str = <<42, (Count(how, table) + 32) % 256>>
  /\ got = [k \in 1..Room |-> 0]
  /\ codecAt = "put"

(* DJNZ: the counter is a byte, decremented before it is tested.           *)
Djnz == b' = (b + 255) % 256

(* Mutant: the two halves change places.                                   *)
Chars_Swapped(byte) == <<(byte \div 16) + 64, (byte % 16) + 64>>

(* One byte: low half, then high half, each or-ed with 40H.                *)
Chars(byte) == <<(byte % 16) + 64, (byte \div 16) + 64>>

Put ==
  /\ codecAt = "put"
  /\ Djnz
  /\ str' = str \o Chars(IF i < Len(table) THEN table[i + 1] ELSE 0)
            \o (IF b' = 0 THEN <<0>> ELSE <<>>)
  /\ i' = i + 1
  /\ codecAt' = IF b' = 0 THEN "saved" ELSE "put"
  /\ UNCHANGED <<how, table, got>>

(* The reader's count: mem_seg_size for the banks, the string's own for a  *)
(* block.                                                                  *)
GetBegin ==
  /\ codecAt = "saved"
  /\ b' = IF how = "resident" THEN Room % 256 ELSE (str[2] + 256 - 32) % 256
  /\ i' = 0
  /\ codecAt' = "get"
  /\ UNCHANGED <<how, table, str, got>>

(* One byte back, or the end of the string.                                *)
Get ==
  /\ codecAt = "get"
  /\ LET lo == str[3 + 2 * i]
     IN IF lo = 0
          THEN codecAt' = "done" /\ UNCHANGED <<got, b, i>>
          ELSE /\ got' = [got EXCEPT ![i + 1] = (lo % 16) + (str[4 + 2 * i] % 16) * 16]
               /\ Djnz
               /\ codecAt' = IF b' = 0 THEN "done" ELSE "get"
               /\ i' = i + 1
  /\ UNCHANGED <<how, table, str>>

CodecNext == Put \/ GetBegin \/ Get

CodecSpec == CodecInit /\ [][CodecNext]_codecVars

(***************************************************************************)
(* Properties                                                              *)
(***************************************************************************)

(* What is read back is the table that was saved, its count included, and  *)
(* nothing is written past it: a resumed program and an importer see the   *)
(* segments of the run that saved them.                                    *)
RoundTrip ==
  codecAt = "done" => \A k \in 1..Room : got[k] = IF k <= Len(table) THEN table[k] ELSE 0
=============================================================================
