------------------------------- MODULE Z80Alu -------------------------------
(***************************************************************************)
(* Arithmetic of the Z80 emulator em180.asm (generated by mkem180.pl): how *)
(* it makes the Z80's results and flags out of those of the x86.  F is a   *)
(* record of the six documented flags; bits 3 and 5 are left out.          *)
(*                                                                         *)
(* A step of the model executes one instruction.  It starts with any of    *)
(* the operands given, and may be followed by DAA.                         *)
(***************************************************************************)
EXTENDS Integers

CONSTANTS
  Operands,   \* second operands
  Operands16  \* operands of the 16-bit instructions

Octet == 0..255
Pair == 0..65535

ASSUME AluAssumption == Operands \subseteq Octet /\ Operands16 \subseteq Pair

VARIABLES
  ins,  \* the instruction executed last, "none" at first
  op2,  \* its second operand
  reg,  \* the register it works on: A, r or HL
  f,    \* F
  old,  \* history: reg and f before it
  adj   \* has DAA followed it?

aluVars == <<ins, op2, reg, f, old, adj>>

Flags == [s : BOOLEAN, z : BOOLEAN, h : BOOLEAN, p : BOOLEAN, n : BOOLEAN, c : BOOLEAN]

(***************************************************************************)
(* The x86: results r and flags                                            *)
(***************************************************************************)
Num(bool) == IF bool THEN 1 ELSE 0
Bit(v, k) == (v \div 2^k) % 2
Byte(bit) == bit[0] + 2 * bit[1] + 4 * bit[2] + 8 * bit[3]
             + 16 * bit[4] + 32 * bit[5] + 64 * bit[6] + 128 * bit[7]

(* PF: an even number of ones in the low byte.                             *)
EvenOnes == [v \in 0..255 |->
  (Bit(v, 0) + Bit(v, 1) + Bit(v, 2) + Bit(v, 3)
   + Bit(v, 4) + Bit(v, 5) + Bit(v, 6) + Bit(v, 7)) % 2 = 0]

X86(w, r, cf, af, of) ==
  [r |-> r, cf |-> cf, af |-> af, of |-> of, zf |-> r = 0,
   sf |-> r >= 2^(w - 1), pf |-> EvenOnes[r % 256]]

Neg(w, v) == v >= 2^(w - 1)

(* add, adc, inc; sub, sbb, cmp, neg, dec: on w bits with carry c.         *)
Add86(w, a, b, c) ==
  LET sum == a + b + c
      r == sum % 2^w
  IN X86(w, r, sum >= 2^w, (a % 16) + (b % 16) + c > 15,
         Neg(w, a) = Neg(w, b) /\ Neg(w, r) # Neg(w, a))

Sub86(w, a, b, c) ==
  LET r == (a - b - c) % 2^w
  IN X86(w, r, a - b - c < 0, (a % 16) - (b % 16) - c < 0,
         Neg(w, a) # Neg(w, b) /\ Neg(w, r) # Neg(w, a))

(* and, or, xor, test, given the bits of the result; AF, which they leave  *)
(* undefined, is taken to be clear, as the processors have it.             *)
Logic86(bit) == X86(8, Byte(bit), FALSE, FALSE, FALSE)
BitsAnd(a, b) == [k \in 0..7 |-> Bit(a, k) * Bit(b, k)]
BitsOr(a, b) == [k \in 0..7 |-> Bit(a, k) + Bit(b, k) - Bit(a, k) * Bit(b, k)]
BitsXor(a, b) == [k \in 0..7 |-> (Bit(a, k) + Bit(b, k)) % 2]

(* rol, rcl, sal; ror, rcr, shr, sar: one bit, in comes the new one.       *)
Left86(a, in) == X86(8, ((2 * a) % 256) + in, a > 127, FALSE, FALSE)
Right86(a, in) == X86(8, (a \div 2) + 128 * in, a % 2 = 1, FALSE, FALSE)

(* daa and das: the correction, the same for both, and the carry.          *)
Correction(a, af, cf) ==
  (IF a % 16 > 9 \/ af THEN 6 ELSE 0) + (IF a > 153 \/ cf THEN 96 ELSE 0)
Daa86(a, af, cf) ==
  X86(8, (a + Correction(a, af, cf)) % 256, a > 153 \/ cf, a % 16 > 9 \/ af, FALSE)
Das86(a, af, cf) ==
  X86(8, (a - Correction(a, af, cf)) % 256,
      a > 153 \/ cf \/ ((a % 16 > 9 \/ af) /\ a < 6), a % 16 > 9 \/ af, FALSE)

(***************************************************************************)
(* Instructions: the register and F after them                             *)
(***************************************************************************)
With(r, flags) == [reg |-> r, f |-> flags]

(* seto F; lahf; shl F,2; and ah,not(PF [or NF]); or F,ah.                 *)
ArithFlags(x, n) ==
  [s |-> x.sf, z |-> x.zf, h |-> x.af, p |-> x.of, n |-> n, c |-> x.cf]

(* lahf with H and N cleared, or H set (and, tst).                         *)
LogicFlags(x, h) ==
  [s |-> x.sf, z |-> x.zf, h |-> h, p |-> x.pf, n |-> FALSE, c |-> x.cf]

Add(a, fl, b) == LET x == Add86(8, a, b, 0) IN With(x.r, ArithFlags(x, FALSE))

Adc(a, fl, b) == LET x == Add86(8, a, b, Num(fl.c)) IN With(x.r, ArithFlags(x, FALSE))

Sub(a, fl, b) == LET x == Sub86(8, a, b, 0) IN With(x.r, ArithFlags(x, TRUE))
Sbc(a, fl, b) == LET x == Sub86(8, a, b, Num(fl.c)) IN With(x.r, ArithFlags(x, TRUE))
Cp(a, fl, b) == LET x == Sub86(8, a, b, 0) IN With(a, ArithFlags(x, TRUE))
And(a, fl, b) == LET x == Logic86(BitsAnd(a, b)) IN With(x.r, LogicFlags(x, TRUE))
Or(a, fl, b) == LET x == Logic86(BitsOr(a, b)) IN With(x.r, LogicFlags(x, FALSE))
Xor(a, fl, b) == LET x == Logic86(BitsXor(a, b)) IN With(x.r, LogicFlags(x, FALSE))
Tst(a, fl, b) == LET x == Logic86(BitsAnd(a, b)) IN With(a, LogicFlags(x, TRUE))

(* INC r, DEC r: shr F,1 puts C into CF, which inc and dec leave alone.    *)
Inc(a, fl, b) ==
  LET x == Add86(8, a, 1, 0)
  IN With(x.r, ArithFlags([x EXCEPT !.cf = fl.c], FALSE))
Dec(a, fl, b) ==
  LET x == Sub86(8, a, 1, 0)
  IN With(x.r, ArithFlags([x EXCEPT !.cf = fl.c], TRUE))
NegA(a, fl, b) == LET x == Sub86(8, 0, a, 0) IN With(x.r, ArithFlags(x, TRUE))
Cpl(a, fl, b) == With(255 - a, [fl EXCEPT !.h = TRUE, !.n = TRUE])
Scf(a, fl, b) == With(a, [fl EXCEPT !.h = FALSE, !.n = FALSE, !.c = TRUE])
Ccf(a, fl, b) == With(a, [fl EXCEPT !.h = FALSE, !.n = FALSE, !.c = ~@])

(* RLCA, RRCA, RLA, RRA: and F clears CF's place, adc F,0 fills it.        *)
RotA(x, fl) == With(x.r, [fl EXCEPT !.h = FALSE, !.n = FALSE, !.c = x.cf])
Rlca(a, fl, b) == RotA(Left86(a, Bit(a, 7)), fl)
Rrca(a, fl, b) == RotA(Right86(a, Bit(a, 0)), fl)
Rla(a, fl, b) == RotA(Left86(a, Num(fl.c)), fl)
Rra(a, fl, b) == RotA(Right86(a, Num(fl.c)), fl)

(* The CB shifts; rotates set S, Z and P by an inc and a dec.              *)
Shift(x) == With(x.r, LogicFlags(x, FALSE))
Rlc(a, fl, b) == Shift(Left86(a, Bit(a, 7)))
Rrc(a, fl, b) == Shift(Right86(a, Bit(a, 0)))
Rl(a, fl, b) == Shift(Left86(a, Num(fl.c)))
Rr(a, fl, b) == Shift(Right86(a, Num(fl.c)))
Sla(a, fl, b) == Shift(Left86(a, 0))
Sra(a, fl, b) == Shift(Right86(a, Bit(a, 7)))
Sl1(a, fl, b) == Shift(Left86(a, 1))
Srl(a, fl, b) == Shift(Right86(a, 0))

(* BIT, SET and RES of bit b % 8.                                          *)
BitB(a, fl, b) ==
  With(a, [fl EXCEPT !.z = Bit(a, b % 8) = 0, !.h = TRUE, !.n = FALSE])
SetB(a, fl, b) == With(IF Bit(a, b % 8) = 1 THEN a ELSE a + 2^(b % 8), fl)
ResB(a, fl, b) == With(IF Bit(a, b % 8) = 0 THEN a ELSE a - 2^(b % 8), fl)

(* DAA: after das a result from FAH up may have come from a borrow of the  *)
(* correction, which is no carry for the Z80: C is cleared if it was clear *)
(* before.                                                                 *)
Daa(a, fl, b) ==
  LET x == IF fl.n THEN Das86(a, fl.h, fl.c) ELSE Daa86(a, fl.h, fl.c)
      carry == IF fl.n /\ x.r >= 250 THEN x.cf /\ fl.c ELSE x.cf
  IN With(x.r, [s |-> x.sf, z |-> x.zf, h |-> x.af, p |-> x.pf, n |-> fl.n, c |-> carry])

(* ADD HL,rr keeps S, Z, H and P; ADC and SBC take H from bit 3.           *)
AddHL(a, fl, b) ==
  LET x == Add86(16, a, b, 0) IN With(x.r, [fl EXCEPT !.n = FALSE, !.c = x.cf])
AdcHL(a, fl, b) == LET x == Add86(16, a, b, Num(fl.c)) IN With(x.r, ArithFlags(x, FALSE))
SbcHL(a, fl, b) == LET x == Sub86(16, a, b, Num(fl.c)) IN With(x.r, ArithFlags(x, TRUE))

(* MLT rr: the product of the two halves.                                  *)
Mlt(a, fl, b) == With((a % 256) * (a \div 256), fl)

(* The instructions with a second operand, without one, and on 16 bits.    *)
Binary == {"ADD", "ADC", "SUB", "SBC", "CP", "AND", "OR", "XOR", "TST", "BIT", "SET", "RES"}
Unary == {"INC", "DEC", "NEG", "CPL", "SCF", "CCF", "RLCA", "RRCA", "RLA", "RRA",
          "RLC", "RRC", "RL", "RR", "SLA", "SRA", "SL1", "SRL", "DAA"}
Wide == {"ADD16", "ADC16", "SBC16", "MLT"}

Effect(i, a, fl, b) ==
  CASE i = "ADD" -> Add(a, fl, b) [] i = "ADC" -> Adc(a, fl, b)
    [] i = "SUB" -> Sub(a, fl, b) [] i = "SBC" -> Sbc(a, fl, b)
    [] i = "CP" -> Cp(a, fl, b)   [] i = "AND" -> And(a, fl, b)
    [] i = "OR" -> Or(a, fl, b)   [] i = "XOR" -> Xor(a, fl, b)
    [] i = "TST" -> Tst(a, fl, b) [] i = "BIT" -> BitB(a, fl, b)
    [] i = "SET" -> SetB(a, fl, b) [] i = "RES" -> ResB(a, fl, b)
    [] i = "INC" -> Inc(a, fl, b) [] i = "DEC" -> Dec(a, fl, b)
    [] i = "NEG" -> NegA(a, fl, b) [] i = "CPL" -> Cpl(a, fl, b)
    [] i = "SCF" -> Scf(a, fl, b) [] i = "CCF" -> Ccf(a, fl, b)
    [] i = "RLCA" -> Rlca(a, fl, b) [] i = "RRCA" -> Rrca(a, fl, b)
    [] i = "RLA" -> Rla(a, fl, b) [] i = "RRA" -> Rra(a, fl, b)
    [] i = "RLC" -> Rlc(a, fl, b) [] i = "RRC" -> Rrc(a, fl, b)
    [] i = "RL" -> Rl(a, fl, b)   [] i = "RR" -> Rr(a, fl, b)
    [] i = "SLA" -> Sla(a, fl, b) [] i = "SRA" -> Sra(a, fl, b)
    [] i = "SL1" -> Sl1(a, fl, b) [] i = "SRL" -> Srl(a, fl, b)
    [] i = "DAA" -> Daa(a, fl, b) [] i = "ADD16" -> AddHL(a, fl, b)
    [] i = "ADC16" -> AdcHL(a, fl, b) [] i = "SBC16" -> SbcHL(a, fl, b)
    [] i = "MLT" -> Mlt(a, fl, b)

AluInit ==
  /\ ins = "none"
  /\ op2 = 0 /\ reg = 0
  /\ f \in {[s |-> k, z |-> k, h |-> h, p |-> k, n |-> n, c |-> c] :
             k, h, n, c \in BOOLEAN}
  /\ old = With(reg, f)
  /\ adj = FALSE

Execute(i, a, b) ==
  LET e == Effect(i, a, f, b)
  IN /\ ins' = i
     /\ op2' = b
     /\ old' = With(a, f)
     /\ reg' = e.reg
     /\ f' = e.f
     /\ UNCHANGED adj

Counted == {"ADD", "ADC", "SUB", "SBC", "INC", "DEC", "NEG"}

Adjust ==
  LET e == Daa(reg, f, 0)
  IN /\ ins \in Counted /\ ~adj
     /\ reg' = e.reg
     /\ f' = e.f
     /\ adj' = TRUE
     /\ UNCHANGED <<ins, op2, old>>

AluNext ==
  \/ /\ ins = "none"
     /\ \/ \E i \in Binary, a \in Octet, b \in Operands : Execute(i, a, b)
        \/ \E i \in Unary, a \in Octet : Execute(i, a, 0)
        \/ \E i \in Wide, a, b \in Operands16 : Execute(i, a, b)
  \/ Adjust

(***************************************************************************)
(* Properties                                                              *)
(***************************************************************************)
Signed(w, v) == IF v >= 2^(w - 1) THEN v - 2^w ELSE v
Fits(w, v) == v \in -(2^(w - 1))..2^(w - 1) - 1

(* An exact result v of w bits: the register has its low bits, S, Z and    *)
(* the carry describe it.                                                  *)
Holds(w, v) ==
  /\ reg = v % 2^w
  /\ f.s = (reg >= 2^(w - 1)) /\ f.z = (reg = 0)

Uses(carry) == IF ins \in carry THEN Num(old.f.c) ELSE 0

SumRight(w, a, b, k) ==
  /\ Holds(w, a + b + k)
  /\ f.c = (a + b + k >= 2^w) /\ ~f.n
  /\ f.p = ~Fits(w, Signed(w, a) + Signed(w, b) + k)

DifferenceRight(w, a, b, k, result) ==
  /\ result % 2^w = (a - b - k) % 2^w
  /\ f.z = (result % 2^w = 0) /\ f.n
  /\ f.c = (a < b + k)
  /\ (f.s # f.p) = (Signed(w, a) < Signed(w, b) + k)
  /\ f.p = ~Fits(w, Signed(w, a) - Signed(w, b) - k)

LowNibble(a, b, k) == f.h = ((a % 16) + (b % 16) + k > 15)
Borrow(a, b, k) == f.h = (a % 16 < (b % 16) + k)
Kept(names) == \A n \in names : f[n] = old.f[n]
ClearHN == ~f.h /\ ~f.n
ShiftFlags == Holds(8, reg) /\ f.p = EvenOnes[reg] /\ ClearHN

(* The bit a left or right shift brings in.                                *)
Incoming(a) ==
  CASE ins \in {"RL", "RLA", "RR", "RRA"} -> Num(old.f.c)
    [] ins \in {"RLC", "RLCA", "SRA"} -> a \div 128
    [] ins \in {"RRC", "RRCA"} -> a % 2
    [] ins \in {"SLA", "SRL"} -> 0
    [] ins = "SL1" -> 1

(* Each instruction gives the result and the flags of the Z80, whatever A, *)
(* the operand and F were: sums and differences with signed overflow in    *)
(* P/V and comparisons readable from C and S # P/V, logic with parity,     *)
(* nine-bit shifts, INC and DEC with C kept, DAA by its table.  (The       *)
(* generator leaves H as it is, or takes it from bit 3, in DAA, CCF and    *)
(* the 16-bit instructions: z80HFflag; it is not claimed there.)           *)
AluRight ==
  ins # "none" /\ ~adj =>
    LET a == old.reg
        b == op2
        k == Uses({"ADC", "SBC", "ADC16", "SBC16"})
    IN /\ ins \in {"ADD", "ADC"} => SumRight(8, a, b, k) /\ LowNibble(a, b, k)
       /\ ins \in {"SUB", "SBC"} => DifferenceRight(8, a, b, k, reg) /\ Borrow(a, b, k)
       /\ ins = "CP" => DifferenceRight(8, a, b, 0, a - b) /\ Borrow(a, b, 0) /\ reg = a
       /\ ins = "NEG" => DifferenceRight(8, 0, a, 0, reg) /\ Borrow(0, a, 0)
       /\ ins = "INC" => Holds(8, a + 1) /\ f.p = (a = 127) /\ LowNibble(a, 1, 0)
                          /\ ~f.n /\ Kept({"c"})
       /\ ins = "DEC" => Holds(8, a - 1) /\ f.p = (a = 128) /\ Borrow(a, 1, 0)
                          /\ f.n /\ Kept({"c"})
       /\ ins \in {"AND", "OR", "XOR"} =>
            Holds(8, reg) /\ f.p = EvenOnes[reg] /\ ~f.c /\ ~f.n /\ f.h = (ins = "AND")
       /\ ins = "TST" => reg = a /\ ~f.c /\ f.h /\ ~f.n
       /\ ins \in {"RLC", "RL", "SLA", "SL1"} =>
            ShiftFlags /\ reg + 256 * Num(f.c) = 2 * a + Incoming(a)
       /\ ins \in {"RRC", "RR", "SRA", "SRL"} =>
            ShiftFlags /\ 2 * reg + Num(f.c) = a + 256 * Incoming(a)
       /\ ins \in {"RLCA", "RLA"} => reg + 256 * Num(f.c) = 2 * a + Incoming(a)
                                     /\ ClearHN /\ Kept({"s", "z", "p"})
       /\ ins \in {"RRCA", "RRA"} => 2 * reg + Num(f.c) = a + 256 * Incoming(a)
                                     /\ ClearHN /\ Kept({"s", "z", "p"})
       /\ ins = "BIT" => reg = a /\ f.z = (Bit(a, b % 8) = 0) /\ f.h /\ ~f.n /\ Kept({"c"})
       /\ ins = "SET" => Bit(reg, b % 8) = 1 /\ f = old.f
       /\ ins = "RES" => Bit(reg, b % 8) = 0 /\ f = old.f
       /\ ins = "DAA" =>
            /\ Holds(8, LET d == Correction(a, old.f.h, old.f.c)
                        IN IF old.f.n THEN a - d ELSE a + d)
            /\ f.c = (old.f.c \/ a > 153) /\ f.p = EvenOnes[reg] /\ Kept({"n"})
       /\ ins = "ADD16" => reg = (a + b) % 65536 /\ f.c = (a + b > 65535) /\ ~f.n
                            /\ Kept({"s", "z", "p"})
       /\ ins = "ADC16" => SumRight(16, a, b, k)
       /\ ins = "SBC16" => DifferenceRight(16, a, b, k, reg)

Decimal(v) == 10 * (v \div 16) + (v % 16)
IsDecimal(v) == v % 16 < 10 /\ v \div 16 < 10

(* DAA after an addition or subtraction of decimal numbers gives their     *)
(* decimal sum or difference modulo 100 and the decimal carry, so that     *)
(* programs can add and subtract numbers of any length with ADC and SBC.   *)
DecimalExact ==
  adj /\ IsDecimal(old.reg) /\ IsDecimal(op2) /\ (ins \in {"INC", "DEC"} => ~old.f.c) =>
    LET a == Decimal(old.reg)
        b == Decimal(op2)
        k == Uses({"ADC", "SBC"})
        v == CASE ins \in {"ADD", "ADC"} -> a + b + k
               [] ins \in {"SUB", "SBC"} -> a - b - k
               [] ins = "INC" -> a + 1
               [] ins = "DEC" -> a - 1
               [] ins = "NEG" -> -a
    IN /\ IsDecimal(reg)
       /\ Decimal(reg) = v % 100
       /\ f.c = (v \notin 0..99)
=============================================================================
