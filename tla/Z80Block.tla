------------------------------ MODULE Z80Block ------------------------------
(***************************************************************************)
(* The block instructions and nibble rotations of em180.asm.  The Z80      *)
(* repeats LDIR, CPIR and their like by fetching them again; the emulator  *)
(* runs a loop of the x86, whose registers are wider: HL is the low half   *)
(* of ebx, which addresses the memory, and the repeat count is in ecx.     *)
(*                                                                         *)
(* Addresses and counts are cut to BlkSize values, those of the wide       *)
(* registers to 4 * BlkSize.  A behaviour executes MaxBlocks instructions  *)
(* on the emulator and on a Z80.                                           *)
(***************************************************************************)
EXTENDS Z80Alu

CONSTANTS
  BlkSize,      \* bytes of memory, 65536 in the program
  BlkMems,      \* memories to begin with
  Accumulators, \* values of A to begin with
  Beside,       \* bytes that may lie beside the memory
  MaxBlocks     \* instructions executed, a bound

ASSUME BlockAssumption ==
  /\ BlkSize \in Nat \ {0, 1} /\ MaxBlocks \in Nat
  /\ BlkMems \subseteq [0..BlkSize - 1 -> 0..255]
  /\ Accumulators \subseteq 0..255 /\ Beside \subseteq 0..255

VARIABLES
  cpu,     \* the emulator: memory, HL as ebx, DE, BC, A, F
  z80,     \* history: a Z80 that executed the same
  strayed, \* history: has a loop counted from 0, or left the memory?
  blocks   \* instructions executed

blockVars == <<cpu, z80, strayed, blocks>>

BlkWide == 4 * BlkSize
Narrow(v) == v % BlkSize

(* inc bx, dec bx: the low half moves, the high half stays.                *)
HalfMoved(e, d) == (e - Narrow(e)) + Narrow(e + d)

(* movzx ecx,_BC; loop: 0 counts all the values of the wide register.      *)
LoopCount(bc) == IF bc = 0 THEN BlkWide ELSE bc

(* _mem[ebx], where u is what lies beside the memory.                      *)
At(s, e, u) == IF e < BlkSize THEN s.mem[e] ELSE u

CopyFlags(fl, p) == [fl EXCEPT !.h = FALSE, !.p = p, !.n = FALSE]

CompareFlags(fl, a, byte, p) ==
  LET x == Sub86(8, a, byte, 0)
  IN [s |-> x.sf, z |-> x.zf, h |-> x.af, p |-> p, n |-> TRUE, c |-> fl.c]

Carried(s, d, u) ==
  [s EXCEPT !.mem[s.de] = At(s, s.hl, u), !.hl = HalfMoved(@, d), !.de = Narrow(@ + d)]

(* LDI, LDD                                                                *)
CopyOne(s, d, u) ==
  LET left == Narrow(s.bc - 1)
  IN [Carried(s, d, u) EXCEPT !.bc = left, !.fl = CopyFlags(@, left # 0)]

(* LDIR, LDDR                                                              *)
CopyAll(s, d, u) ==
  LET run[k \in 0..LoopCount(s.bc)] ==
        IF k = 0 THEN s ELSE Carried(run[k - 1], d, u)
  IN [run[LoopCount(s.bc)] EXCEPT !.bc = 0, !.fl = CopyFlags(@, FALSE)]

(* CPI, CPD                                                                *)
CompareOne(s, d, u) ==
  LET left == Narrow(s.bc - 1)
  IN [s EXCEPT !.hl = HalfMoved(@, d), !.bc = left,
               !.fl = CompareFlags(@, s.a, At(s, s.hl, u), left # 0)]

(* CPIR, CPDR: lea moves the whole register.                               *)
Probe(s, d, k) == (s.hl + (k - 1) * d) % BlkWide

Compared(s, d, u) ==
  LET n == LoopCount(s.bc)
      hits == {k \in 1..n : At(s, Probe(s, d, k), u) = s.a}
  IN IF hits = {} THEN n ELSE CHOOSE k \in hits : \A j \in hits : k <= j

(* Mutant: P/V is taken from the count before the last comparison.         *)
CompareAll_Early(s, d, u) ==
  LET k == Compared(s, d, u)
      left == Narrow(LoopCount(s.bc) - k)
  IN [s EXCEPT !.hl = Probe(s, d, k + 1), !.bc = left,
               !.fl = CompareFlags(@, s.a, At(s, Probe(s, d, k), u), left + 1 # 0)]

CompareAll(s, d, u) ==
  LET k == Compared(s, d, u)
      left == Narrow(LoopCount(s.bc) - k)
  IN [s EXCEPT !.hl = Probe(s, d, k + 1), !.bc = left,
               !.fl = CompareFlags(@, s.a, At(s, Probe(s, d, k), u), left # 0)]

(* RRD, RLD: a rotation of the two bytes by a nibble.  What is written     *)
(* beside the memory is left out.                                          *)
Nibbles(s, a, byte) ==
  LET x == Logic86(BitsOr(a, a))
  IN [s EXCEPT !.a = a,
               !.mem = IF s.hl < BlkSize THEN [@ EXCEPT ![s.hl] = byte] ELSE @,
               !.fl = [LogicFlags(x, FALSE) EXCEPT !.c = s.fl.c]]

RotateRight(s, u) ==
  LET byte == At(s, s.hl, u)
  IN Nibbles(s, 16 * (s.a \div 16) + (byte % 16), 16 * (s.a % 16) + (byte \div 16))

RotateLeft(s, u) ==
  LET byte == At(s, s.hl, u)
  IN Nibbles(s, 16 * (s.a \div 16) + (byte \div 16), 16 * (byte % 16) + (s.a % 16))

BlockIns == {"LDI", "LDD", "LDIR", "LDDR", "CPI", "CPD", "CPIR", "CPDR", "RRD", "RLD"}
Direction(i) == IF i \in {"LDD", "LDDR", "CPD", "CPDR"} THEN -1 ELSE 1

BlockEffect(i, s, u) ==
  CASE i \in {"LDI", "LDD"} -> CopyOne(s, Direction(i), u)
    [] i \in {"LDIR", "LDDR"} -> CopyAll(s, Direction(i), u)
    [] i \in {"CPI", "CPD"} -> CompareOne(s, Direction(i), u)
    [] i \in {"CPIR", "CPDR"} -> CompareAll(s, Direction(i), u)
    [] i = "RRD" -> RotateRight(s, u)
    [] i = "RLD" -> RotateLeft(s, u)

(***************************************************************************)
(* The Z80: every register has its width, and a repeating instruction is   *)
(* the single one again and again until BC is 0 or, comparing, A is found. *)
(***************************************************************************)
Repeated == {"LDIR", "LDDR", "CPIR", "CPDR"}

Single(i, s) ==
  LET d == Direction(i)
      byte == s.mem[s.hl]
      low(v) == v % 16
      r == IF i = "RRD" THEN 16 * (s.a \div 16) + low(byte)
                        ELSE 16 * (s.a \div 16) + (byte \div 16)
      on == [s EXCEPT !.hl = Narrow(@ + d), !.bc = Narrow(@ - 1), !.fl.p = s.bc # 1]
  IN CASE i \in {"LDI", "LDD", "LDIR", "LDDR"} ->
            [on EXCEPT !.mem[s.de] = byte, !.de = Narrow(@ + d), !.fl.h = FALSE, !.fl.n = FALSE]
       [] i \in {"CPI", "CPD", "CPIR", "CPDR"} ->
            [on EXCEPT !.fl.s = (s.a - byte) % 256 > 127, !.fl.z = s.a = byte,
                       !.fl.h = low(s.a) < low(byte), !.fl.n = TRUE]
       [] i \in {"RRD", "RLD"} ->
            [s EXCEPT !.a = r,
                      !.mem[s.hl] = IF i = "RRD" THEN 16 * low(s.a) + (byte \div 16)
                                                 ELSE 16 * low(byte) + low(s.a),
                      !.fl = [s |-> r > 127, z |-> r = 0, h |-> FALSE,
                              p |-> EvenOnes[r], n |-> FALSE, c |-> s.fl.c]]

Executed(i, s) ==
  LET ends(t) == t.bc = 0 \/ (i \in {"CPIR", "CPDR"} /\ t.fl.z)
      run[k \in 1..BlkSize] ==
        IF k = 1 THEN Single(i, s)
        ELSE IF ends(run[k - 1]) THEN run[k - 1] ELSE Single(i, run[k - 1])
  IN IF i \in Repeated THEN run[BlkSize] ELSE Single(i, s)

(***************************************************************************)
(* Instructions on both                                                    *)
(***************************************************************************)
BlockInit ==
  /\ cpu \in {[mem |-> m, hl |-> h, de |-> d, bc |-> b, a |-> x,
               fl |-> [n \in {"s", "z", "h", "p", "n", "c"} |-> c]] :
               m \in BlkMems, h, d, b \in 0..BlkSize - 1, x \in Accumulators, c \in BOOLEAN}
  /\ z80 = cpu
  /\ strayed = FALSE
  /\ blocks = 0

BlockRun(i, u) ==
  /\ blocks < MaxBlocks
  /\ cpu' = BlockEffect(i, cpu, u)
  /\ z80' = Executed(i, z80)
  /\ strayed' = (strayed \/ (i \in Repeated /\ cpu.bc = 0) \/ cpu'.hl >= BlkSize)
  /\ blocks' = blocks + 1

BlockNext == \E i \in BlockIns, u \in Beside : BlockRun(i, u)

InstructionSpec ==
  AluInit /\ [][AluNext]_aluVars /\ BlockInit /\ [][BlockNext]_blockVars

(***************************************************************************)
(* Property                                                                *)
(***************************************************************************)
(* After any block instructions the emulator's memory, registers and flags *)
(* are the Z80's, also where copies overlap, HL or DE pass the end of the  *)
(* memory, or A is found with the last count: unless a repeating one began *)
(* with BC = 0 or a comparing one ran over the end of the memory.          *)
BlocksRight == strayed \/ cpu = z80

(* Single instructions, decimal chains and block instructions do what      *)
(* those of the Z80 do.                                                    *)
InstructionsRight == AluRight /\ DecimalExact /\ BlocksRight
=============================================================================
