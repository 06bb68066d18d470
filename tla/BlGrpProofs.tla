----------------------------- MODULE BlGrpProofs ----------------------------
(***************************************************************************)
(* What is set stays set.  The settings are split into concerns, each with *)
(* the fields of bl_grp and the bits of registers it is kept in; of each   *)
(* function it is shown which fields and bits it changes at most (Effect)  *)
(* and which concern it makes right.  A concern a function has nothing in  *)
(* common with (Apart) stays as it was (Kept): two functions that share a  *)
(* register need not know of each other.                                   *)
(*                                                                         *)
(* GrpInv, the inductive invariant, says which concerns are right: those   *)
(* Known, all of them once a screen mode is set, but for the pages, which  *)
(* are again when set since interlacing last changed.  While BL is         *)
(* suspended it says so of the copy, bl_grp_bak.                           *)
(*                                                                         *)
(* The second part is about the shapes of BlGcm, drawn anywhere and of any *)
(* size: what a function Plots is a set of places of the picture, a line   *)
(* is Near the ideal one, and the circle is the Octant its loop walks,     *)
(* with its images.                                                        *)
(* The third is about the printing of BlGfn: the printer's state between   *)
(* characters is a Pen at a dot, with glyphs drawn that Match the cells    *)
(* the text asks for; a text is parsed byte by byte, by induction over its *)
(* characters.                                                             *)
(***************************************************************************)
EXTENDS BlGrp, BlGcm, BlGfn, SequenceTheorems, WellFoundedInduction, TLAPS

(* What bl_grp holds.                                                      *)
GrpFields ==
  {"screen_mode", "yae_yjk_mode", "display_on", "sprite_mode", "sprite_on", "palette0_on", "line_212",
   "height", "display_mode", "interlace_on", "vsync_50hz", "color_text_fg", "color_text_bg",
   "color_border", "view_page", "active_page", "active_page_a16_a14", "adjust_h", "adjust_v",
   "scroll_mode", "scroll_h", "scroll_v", "reg_shadow"}

RegFile == [Reg -> SUBSET (0..7)]

(* What each field of bl_grp may hold.                                     *)
KindOf(f) ==
  CASE f = "screen_mode" -> 0..9 \cup {NoMode}
    [] f = "yae_yjk_mode" -> SUBSET {3, 4}
    [] f \in {"sprite_mode", "scroll_mode"} -> SUBSET {0, 1}
    [] f \in {"display_on", "sprite_on", "palette0_on", "line_212", "interlace_on", "vsync_50hz"} -> BOOLEAN
    [] f = "height" -> {192, 212}
    [] f = "display_mode" -> SUBSET DispMask
    [] f \in {"color_text_fg", "color_text_bg"} -> 0..15
    [] f \in {"color_border", "scroll_v"} -> 0..255
    [] f \in {"view_page", "active_page"} -> 0..3
    [] f = "active_page_a16_a14" -> 0..12
    [] f \in {"adjust_h", "adjust_v"} -> -7..8
    [] f = "scroll_h" -> Nat
    [] f = "reg_shadow" -> RegFile

GrpShape(g) == DOMAIN g = GrpFields /\ g = [f \in GrpFields |-> g[f]]
GrpType(g) == GrpShape(g) /\ \A f \in GrpFields : g[f] \in KindOf(f)

Shape(t) == DOMAIN t = {"g", "hw"} /\ t = [f \in {"g", "hw"} |-> t[f]] /\ GrpShape(t.g)
StateType(t) == Shape(t) /\ GrpType(t.g) /\ t.hw \in RegFile

(* The registers the machine has.                                          *)
Present == Reg \ (IF v9958 THEN {} ELSE Late)

Agree(t) == \A r \in Present : t.g.reg_shadow[r] = t.hw[r]

(***************************************************************************)
(* A concern is something that was set, with the fields of bl_grp and the  *)
(* bits of the registers it is kept in.                                    *)
(***************************************************************************)
Concerns ==
  {"mode", "sprite_mode", "sprite_on", "palette0", "lines", "display", "adjust", "scroll_v",
   "scroll_mode", "yjk", "scroll_h", "address", "view", "active"}

ModeRight(g) ==
  /\ g.screen_mode # NoMode
  /\ g.reg_shadow[0] \cap {1, 2, 3} = ModeBits[g.screen_mode + 1]
  /\ g.reg_shadow[1] \cap {3, 4} = TextBits[g.screen_mode + 1]

LinesRight(g) == (7 \in g.reg_shadow[9]) = g.line_212 /\ g.height = (IF g.line_212 THEN 212 ELSE 192)

DisplayRight(g) ==
  g.reg_shadow[9] \cap DispMask = g.display_mode /\ g.interlace_on = (Interlaced \subseteq g.display_mode)

AdjustRight(g) == g.reg_shadow[18] = Bits(AdjToReg(g.adjust_h) + 16 * AdjToReg(g.adjust_v))

ScrollHRight(g) ==
  v9958 => (8 * Num(g.reg_shadow[26]) - Num(g.reg_shadow[27])) % 512 = g.scroll_h % 512

(* Of modes with pages of 64K there are two pages.                         *)
AddressRight(g) ==
  /\ g.active_page_a16_a14 = (IF g.screen_mode < G6 THEN g.active_page * 2 ELSE g.active_page * 4)
  /\ g.screen_mode >= G6 => g.active_page <= 1 /\ g.view_page <= 1

ViewRight(g) ==
  /\ g.interlace_on => g.view_page % 2 = 0
  /\ g.reg_shadow[2] \cap {5, 6} = Bits((IF g.interlace_on THEN g.view_page + 1 ELSE g.view_page) * 32)

Right(c, g) ==
  CASE c = "mode" -> ModeRight(g)
    [] c = "sprite_mode" -> g.reg_shadow[1] \cap {0, 1} = g.sprite_mode
    [] c = "sprite_on" -> g.reg_shadow[8] \cap {1} = Bit(~g.sprite_on, 1)
    [] c = "palette0" -> g.reg_shadow[8] \cap {5} = Bit(g.palette0_on, 5)
    [] c = "lines" -> LinesRight(g)
    [] c = "display" -> DisplayRight(g)
    [] c = "adjust" -> AdjustRight(g)
    [] c = "scroll_v" -> g.reg_shadow[23] = Bits(g.scroll_v)
    [] c = "scroll_mode" -> v9958 => g.reg_shadow[25] \cap {0, 1} = g.scroll_mode
    [] c = "yjk" -> v9958 => g.reg_shadow[25] \cap {3, 4} = g.yae_yjk_mode
    [] c = "scroll_h" -> ScrollHRight(g)
    [] c = "address" -> AddressRight(g)
    [] c = "view" -> ViewRight(g)
    [] c = "active" -> g.interlace_on => g.active_page % 2 = 0

FieldsOf(c) ==
  CASE c = "mode" -> {"screen_mode"}
    [] c = "sprite_mode" -> {"sprite_mode"}
    [] c = "sprite_on" -> {"sprite_on"}
    [] c = "palette0" -> {"palette0_on"}
    [] c = "lines" -> {"line_212", "height"}
    [] c = "display" -> {"display_mode", "interlace_on"}
    [] c = "adjust" -> {"adjust_h", "adjust_v"}
    [] c = "scroll_v" -> {"scroll_v"}
    [] c = "scroll_mode" -> {"scroll_mode"}
    [] c = "yjk" -> {"yae_yjk_mode"}
    [] c = "scroll_h" -> {"scroll_h"}
    [] c = "address" -> {"active_page", "active_page_a16_a14", "screen_mode", "view_page"}
    [] c = "view" -> {"view_page", "interlace_on"}
    [] c = "active" -> {"active_page", "interlace_on"}

(* Its bits in register r.                                                 *)
BitsOf(c, r) ==
  CASE c = "mode" /\ r = 0 -> {1, 2, 3}
    [] c = "mode" /\ r = 1 -> {3, 4}
    [] c = "sprite_mode" /\ r = 1 -> {0, 1}
    [] c = "sprite_on" /\ r = 8 -> {1}
    [] c = "palette0" /\ r = 8 -> {5}
    [] c = "lines" /\ r = 9 -> {7}
    [] c = "display" /\ r = 9 -> DispMask
    [] c = "adjust" /\ r = 18 -> 0..7
    [] c = "scroll_v" /\ r = 23 -> 0..7
    [] c = "scroll_mode" /\ r = 25 -> {0, 1}
    [] c = "yjk" /\ r = 25 -> {3, 4}
    [] c = "scroll_h" /\ r \in {26, 27} -> 0..7
    [] c = "view" /\ r = 2 -> {5, 6}
    [] OTHER -> {}

Holds(D, g) == \A c \in D : Right(c, g)

(* What is settled of a bl_grp with this mode, and this since interlacing  *)
(* last changed.                                                           *)
Known(mode, since) ==
  {"display", "adjust"} \cup (IF mode # NoMode THEN Concerns \ {"view", "active"} ELSE {}) \cup since

GrpInv ==
  /\ msx2p \in BOOLEAN /\ v9958 \in BOOLEAN /\ (msx2p => v9958)
  /\ status \in {"off", "on", "suspended"} /\ fresh \subseteq {"view", "active"}
  /\ StateType(s) /\ GrpType(bak) /\ sys \in RegFile /\ org \in RegFile
  /\ On => Agree(s) /\ Holds(Known(s.g.screen_mode, fresh), s.g)
  /\ status = "suspended" => Holds(Known(bak.screen_mode, fresh), bak)
  /\ SystemInStep
(***************************************************************************)
(* Bytes and their bits.                                                   *)
(***************************************************************************)
LEMMA Powers == /\ 2^0 = 1 /\ 2^1 = 2 /\ 2^2 = 4 /\ 2^3 = 8 /\ 2^4 = 16 /\ 2^5 = 32 /\ 2^6 = 64 /\ 2^7 = 128
  BY SMT

(* Which bits a number has.                                                *)
LEMMA InBits == ASSUME NEW n \in Nat PROVE
   /\ Bits(n) \subseteq 0..7
   /\ 0 \in Bits(n) <=> n % 2 = 1
   /\ 1 \in Bits(n) <=> (n \div 2) % 2 = 1
   /\ 2 \in Bits(n) <=> (n \div 4) % 2 = 1
   /\ 3 \in Bits(n) <=> (n \div 8) % 2 = 1
   /\ 4 \in Bits(n) <=> (n \div 16) % 2 = 1
   /\ 5 \in Bits(n) <=> (n \div 32) % 2 = 1
   /\ 6 \in Bits(n) <=> (n \div 64) % 2 = 1
   /\ 7 \in Bits(n) <=> (n \div 128) % 2 = 1
<1>1. ASSUME NEW i \in 0..7, NEW w, 2^i = w PROVE i \in Bits(n) <=> (n \div w) % 2 = 1
  BY <1>1, Zenon DEF Bits
<1>2. 0 \in Bits(n) <=> (n \div 1) % 2 = 1
  BY <1>1, Powers
<1>3. n \div 1 = n
  OBVIOUS
<1>4. 0 \in Bits(n) <=> n % 2 = 1
  BY <1>2, <1>3, Zenon
<1>5. 1 \in Bits(n) <=> (n \div 2) % 2 = 1
  BY <1>1, Powers
<1>6. 2 \in Bits(n) <=> (n \div 4) % 2 = 1
  BY <1>1, Powers
<1>7. 3 \in Bits(n) <=> (n \div 8) % 2 = 1
  BY <1>1, Powers
<1>8. 4 \in Bits(n) <=> (n \div 16) % 2 = 1
  BY <1>1, Powers
<1>9. 5 \in Bits(n) <=> (n \div 32) % 2 = 1
  BY <1>1, Powers
<1>10. 6 \in Bits(n) <=> (n \div 64) % 2 = 1
  BY <1>1, Powers
<1>11. 7 \in Bits(n) <=> (n \div 128) % 2 = 1
  BY <1>1, Powers
<1>12. Bits(n) \subseteq 0..7
  BY DEF Bits
<1> QED
  BY <1>4, <1>5, <1>6, <1>7, <1>8, <1>9, <1>10, <1>11, <1>12, Zenon

Digit(b, i, w) == IF i \in b THEN w ELSE 0

LEMMA NumIs == ASSUME NEW b PROVE
  Num(b) = Digit(b, 0, 1) + Digit(b, 1, 2) + Digit(b, 2, 4) + Digit(b, 3, 8) + Digit(b, 4, 16) + Digit(b, 5, 32) + Digit(b, 6, 64) + Digit(b, 7, 128)
  BY Powers, SMT DEF Num, Weight, Digit

LEMMA Halves == ASSUME NEW n \in Nat PROVE
  /\ n \div 4 = (n \div 2) \div 2 /\ n \div 8 = (n \div 4) \div 2
  /\ n \div 16 = (n \div 8) \div 2 /\ n \div 32 = (n \div 16) \div 2
  /\ n \div 64 = (n \div 32) \div 2 /\ n \div 128 = (n \div 64) \div 2
  OBVIOUS

(* Num undoes Bits, and Bits undoes Num.                                   *)
LEMMA NumOfBits == ASSUME NEW n \in 0..255 PROVE Num(Bits(n)) = n
<1> DEFINE q1 == n \div 2
           q2 == n \div 4
           q3 == n \div 8
           q4 == n \div 16
           q5 == n \div 32
           q6 == n \div 64
           q7 == n \div 128
<1>1. /\ n = 2 * q1 + (n % 2) /\ q1 = 2 * q2 + (q1 % 2) /\ q2 = 2 * q3 + (q2 % 2) /\ q3 = 2 * q4 + (q3 % 2)
      /\ q4 = 2 * q5 + (q4 % 2) /\ q5 = 2 * q6 + (q5 % 2) /\ q6 = 2 * q7 + (q6 % 2) /\ q7 \in {0, 1}
  OBVIOUS
<1>2. /\ q1 \in Nat /\ q2 \in Nat /\ q3 \in Nat /\ q4 \in Nat /\ q5 \in Nat /\ q6 \in Nat /\ q7 \in Nat
  OBVIOUS
<1>3. /\ Digit(Bits(n), 0, 1) = n % 2 /\ Digit(Bits(n), 1, 2) = 2 * (q1 % 2) /\ Digit(Bits(n), 2, 4) = 4 * (q2 % 2)
      /\ Digit(Bits(n), 3, 8) = 8 * (q3 % 2) /\ Digit(Bits(n), 4, 16) = 16 * (q4 % 2) /\ Digit(Bits(n), 5, 32) = 32 * (q5 % 2)
      /\ Digit(Bits(n), 6, 64) = 64 * (q6 % 2) /\ Digit(Bits(n), 7, 128) = 128 * q7
  BY InBits DEF Digit
<1> HIDE DEF q1, q2, q3, q4, q5, q6, q7
<1> QED
  BY <1>1, <1>2, <1>3, NumIs

LEMMA BitsOfNum == ASSUME NEW b \in SUBSET (0..7) PROVE Bits(Num(b)) = b
<1> DEFINE n == Num(b)
           d0 == Digit(b, 0, 1)
           d1 == Digit(b, 1, 1)
           d2 == Digit(b, 2, 1)
           d3 == Digit(b, 3, 1)
           d4 == Digit(b, 4, 1)
           d5 == Digit(b, 5, 1)
           d6 == Digit(b, 6, 1)
           d7 == Digit(b, 7, 1)
<1>1. n = d0 + 2 * d1 + 4 * d2 + 8 * d3 + 16 * d4 + 32 * d5 + 64 * d6 + 128 * d7
  BY NumIs DEF Digit
<1>2. d0 \in {0,1} /\ d1 \in {0,1} /\ d2 \in {0,1} /\ d3 \in {0,1} /\ d4 \in {0,1} /\ d5 \in {0,1} /\ d6 \in {0,1} /\ d7 \in {0,1}
  BY DEF Digit
<1> HIDE DEF n, d0, d1, d2, d3, d4, d5, d6, d7
<1>3. n \in Nat
  BY <1>1, <1>2
<1>4. n \div 2 = d1 + 2 * d2 + 4 * d3 + 8 * d4 + 16 * d5 + 32 * d6 + 64 * d7 /\ n % 2 = d0
  BY <1>1, <1>2
<1>5. n \div 4 = d2 + 2 * d3 + 4 * d4 + 8 * d5 + 16 * d6 + 32 * d7 /\ (n \div 2) % 2 = d1
  BY <1>4, <1>2, <1>3, Halves
<1>6. n \div 8 = d3 + 2 * d4 + 4 * d5 + 8 * d6 + 16 * d7 /\ (n \div 4) % 2 = d2
  BY <1>5, <1>2, <1>3, Halves
<1>7. n \div 16 = d4 + 2 * d5 + 4 * d6 + 8 * d7 /\ (n \div 8) % 2 = d3
  BY <1>6, <1>2, <1>3, Halves
<1>8. n \div 32 = d5 + 2 * d6 + 4 * d7 /\ (n \div 16) % 2 = d4
  BY <1>7, <1>2, <1>3, Halves
<1>9. /\ (n \div 32) % 2 = d5 /\ (n \div 64) % 2 = d6 /\ (n \div 128) % 2 = d7
  <2>1. n \div 64 = d6 + 2 * d7 /\ (n \div 32) % 2 = d5
    BY <1>8, <1>2, <1>3, Halves
  <2> QED
    BY <2>1, <1>2, <1>3, Halves
<1>10. /\ d0 = 1 <=> 0 \in b
       /\ d1 = 1 <=> 1 \in b
       /\ d2 = 1 <=> 2 \in b
       /\ d3 = 1 <=> 3 \in b
       /\ d4 = 1 <=> 4 \in b
       /\ d5 = 1 <=> 5 \in b
       /\ d6 = 1 <=> 6 \in b
       /\ d7 = 1 <=> 7 \in b
  BY DEF d0, d1, d2, d3, d4, d5, d6, d7, Digit
<1>11. \A i \in 0..7 : i \in Bits(n) <=> i \in b
  <2>1. 0 \in Bits(n) <=> 0 \in b
    BY <1>3, <1>4, <1>10, InBits
  <2>2. 1 \in Bits(n) <=> 1 \in b
    BY <1>3, <1>5, <1>10, InBits
  <2>3. 2 \in Bits(n) <=> 2 \in b
    BY <1>3, <1>6, <1>10, InBits
  <2>4. 3 \in Bits(n) <=> 3 \in b
    BY <1>3, <1>7, <1>10, InBits
  <2>5. 4 \in Bits(n) <=> 4 \in b
    BY <1>3, <1>8, <1>10, InBits
  <2>6. 5 \in Bits(n) <=> 5 \in b
    BY <1>3, <1>9, <1>10, InBits
  <2>7. 6 \in Bits(n) <=> 6 \in b
    BY <1>3, <1>9, <1>10, InBits
  <2>8. 7 \in Bits(n) <=> 7 \in b
    BY <1>3, <1>9, <1>10, InBits
  <2> QED
    BY <2>1, <2>2, <2>3, <2>4, <2>5, <2>6, <2>7, <2>8
<1>12. Bits(n) \subseteq 0..7
  BY <1>3, InBits
<1> QED
  BY <1>11, <1>12 DEF n

(* u is t after a call that sets the fields F and, in register no, the     *)
(* bits of mask to bits.                                                   *)
Written(t, u, F, no, mask, bits) ==
  /\ Shape(u)
  /\ \A f \in GrpFields \ (F \cup {"reg_shadow"}) : u.g[f] = t.g[f]
  /\ u.g.reg_shadow = [t.g.reg_shadow EXCEPT ![no] = (@ \ mask) \cup bits]
  /\ u.hw = [t.hw EXCEPT ![no] = (t.g.reg_shadow[no] \ mask) \cup bits]

LEMMA UpdateWrites ==
  ASSUME NEW t, Shape(t), NEW no, NEW mask, NEW bits
  PROVE  Written(t, Update(t, no, mask, bits), {}, no, mask, bits)
<1> DEFINE v == (t.g.reg_shadow[no] \ mask) \cup bits
           u == Update(t, no, mask, bits)
<1>1. u = Put(t, no, v)
  BY DEF Update
<1>2. /\ DOMAIN t = {"g", "hw"} /\ t = [f \in {"g", "hw"} |-> t[f]]
      /\ DOMAIN t.g = GrpFields /\ t.g = [f \in GrpFields |-> t.g[f]]
  BY DEF Shape, GrpShape
<1>4. "reg_shadow" \in GrpFields
  BY DEF GrpFields
<1> HIDE DEF v, u
<1>3. u.g = [t.g EXCEPT !.reg_shadow = [@ EXCEPT ![no] = v]]
  BY <1>1, <1>2 DEF Put
<1>5. /\ u.hw = [t.hw EXCEPT ![no] = v] /\ DOMAIN u = {"g", "hw"} /\ u = [f \in {"g", "hw"} |-> u[f]]
  BY <1>1, <1>2 DEF Put
<1>6. /\ DOMAIN u.g = GrpFields
      /\ \A f \in GrpFields \ {"reg_shadow"} : u.g[f] = t.g[f]
      /\ u.g.reg_shadow = [t.g.reg_shadow EXCEPT ![no] = v]
  BY <1>3, <1>2, <1>4
<1>7. u.g = [f \in GrpFields |-> u.g[f]]
  BY <1>3, <1>2, <1>4
<1>8. Shape(u)
  BY <1>5, <1>6, <1>7 DEF Shape, GrpShape
<1> QED
  BY <1>5, <1>6, <1>8 DEF Written, u, v

(* A field of bl_grp is set and nothing else.                              *)
LEMMA FieldSet ==
  ASSUME NEW t, Shape(t), NEW x \in GrpFields, NEW v
  PROVE  LET u == [t EXCEPT !.g = [@ EXCEPT ![x] = v]]
         IN /\ Shape(u) /\ u.hw = t.hw /\ u.g[x] = v
            /\ \A f \in GrpFields \ {x} : u.g[f] = t.g[f]
<1> DEFINE h == [t.g EXCEPT ![x] = v]
           u == [t EXCEPT !.g = h]
<1>1. /\ DOMAIN t = {"g", "hw"} /\ t = [f \in {"g", "hw"} |-> t[f]]
      /\ DOMAIN t.g = GrpFields /\ t.g = [f \in GrpFields |-> t.g[f]]
  BY DEF Shape, GrpShape
<1>2. /\ DOMAIN h = GrpFields /\ h = [f \in GrpFields |-> h[f]] /\ h[x] = v
      /\ \A f \in GrpFields \ {x} : h[f] = t.g[f]
  BY <1>1
<1> HIDE DEF h
<1>3. u.g = h /\ u.hw = t.hw /\ DOMAIN u = {"g", "hw"} /\ u = [f \in {"g", "hw"} |-> u[f]]
  BY <1>1
<1>4. u = [t EXCEPT !.g = [@ EXCEPT ![x] = v]]
  BY DEF h
<1> HIDE DEF u
<1>5. Shape(u)
  BY <1>2, <1>3 DEF Shape, GrpShape
<1> QED
  BY <1>2, <1>3, <1>4, <1>5

(* A field is set, and bits of a register after it.                        *)
Setter(t, x, v, no, mask, bits) == Update([t EXCEPT !.g = [@ EXCEPT ![x] = v]], no, mask, bits)

LEMMA SetterWrites ==
  ASSUME NEW t, Shape(t), NEW x \in GrpFields \ {"reg_shadow"}, NEW v, NEW no, NEW mask, NEW bits
  PROVE  /\ Written(t, Setter(t, x, v, no, mask, bits), {x}, no, mask, bits)
         /\ Setter(t, x, v, no, mask, bits).g[x] = v
<1> DEFINE w == [t EXCEPT !.g = [@ EXCEPT ![x] = v]]
           u == Setter(t, x, v, no, mask, bits)
<1>1. /\ Shape(w) /\ w.hw = t.hw /\ w.g[x] = v
      /\ \A f \in GrpFields \ {x} : w.g[f] = t.g[f]
  BY FieldSet
<1> HIDE DEF w
<1>2. Written(w, u, {}, no, mask, bits)
  <2>1. u = Update(w, no, mask, bits)
    BY Zenon DEF Setter, w
  <2> QED
    BY <2>1, <1>1, UpdateWrites
<1> HIDE DEF u
<1>3. w.g.reg_shadow = t.g.reg_shadow
  BY <1>1 DEF GrpFields
<1>4. Written(t, u, {x}, no, mask, bits) /\ u.g[x] = v
  BY <1>1, <1>2, <1>3 DEF Written
<1> QED
  BY <1>4 DEF u

(* What a call leaves alone: all fields but F, all bits but M of register  *)
(* no.                                                                     *)
Effect(t, u, F, no, M) ==
  /\ StateType(u) /\ Agree(u)
  /\ \A f \in GrpFields \ (F \cup {"reg_shadow"}) : u.g[f] = t.g[f]
  /\ \A r \in Reg \ {no} : u.g.reg_shadow[r] = t.g.reg_shadow[r] /\ u.hw[r] = t.hw[r]
  /\ u.g.reg_shadow[no] \ M = t.g.reg_shadow[no] \ M
  /\ u.hw[no] \ M = t.hw[no] \ M

Apart(c, F, no, M) == FieldsOf(c) \cap F = {} /\ BitsOf(c, no) \cap M = {}

LEMMA WrittenEffect ==
  ASSUME NEW t, StateType(t), Agree(t), NEW no \in Present, NEW mask \in SUBSET (0..7), NEW bits \in SUBSET mask,
         NEW F \in SUBSET (GrpFields \ {"reg_shadow"}), NEW u, Written(t, u, F, no, mask, bits),
         \A f \in F : u.g[f] \in KindOf(f)
  PROVE  Effect(t, u, F, no, mask) /\ u.g.reg_shadow[no] \cap mask = bits
<1>1. t.g.reg_shadow \in RegFile /\ t.hw \in RegFile /\ "reg_shadow" \in GrpFields
  BY DEF StateType, GrpType, KindOf, GrpFields
<1>2. no \in Reg /\ t.g.reg_shadow[no] = t.hw[no]
  BY DEF Present, Agree
<1> DEFINE v == (t.g.reg_shadow[no] \ mask) \cup bits
<1>3. v \in SUBSET (0..7)
  BY <1>1, <1>2 DEF RegFile
<1>4. u.g.reg_shadow = [t.g.reg_shadow EXCEPT ![no] = v] /\ u.hw = [t.hw EXCEPT ![no] = v]
  BY DEF Written
<1>5. v \ mask = t.g.reg_shadow[no] \ mask /\ v \cap mask = bits
  OBVIOUS
<1> HIDE DEF v
<1>6. u.g.reg_shadow \in RegFile /\ u.hw \in RegFile
  BY <1>1, <1>2, <1>3, <1>4 DEF RegFile
<1>7. \A r \in Reg \ {no} : u.g.reg_shadow[r] = t.g.reg_shadow[r] /\ u.hw[r] = t.hw[r]
  BY <1>1, <1>4 DEF RegFile
<1>8. u.g.reg_shadow[no] = v /\ u.hw[no] = v
  BY <1>1, <1>2, <1>4 DEF RegFile
<1>9. GrpType(u.g)
  <2>1. u.g.reg_shadow \in KindOf("reg_shadow")
    BY <1>6 DEF KindOf
  <2>2. \A f \in GrpFields \ (F \cup {"reg_shadow"}) : u.g[f] = t.g[f]
    BY DEF Written
  <2>3. GrpShape(u.g)
    BY DEF Written, Shape
  <2> QED
    BY <2>1, <2>2, <2>3 DEF StateType, GrpType
<1>10. StateType(u)
  BY <1>6, <1>9 DEF StateType, Written
<1>11. Agree(u)
  BY <1>7, <1>8, <1>2 DEF Agree, Present
<1> QED
  BY <1>2, <1>5, <1>7, <1>8, <1>10, <1>11 DEF Effect, Written

(* A concern none of whose fields and bits is touched stays as it was.     *)
LEMMA Kept ==
  ASSUME NEW t, StateType(t), NEW u, NEW F, NEW no \in Reg, NEW M, Effect(t, u, F, no, M),
         NEW c \in Concerns, Apart(c, F, no, M), Right(c, t.g)
  PROVE  Right(c, u.g)
<1> DEFINE x == t.g.reg_shadow
           j == u.g.reg_shadow
<1>1. x \in RegFile /\ j \in RegFile
  BY DEF Effect, StateType, GrpType, KindOf, GrpFields
<1>2. \A r \in Reg : j[r] \cap BitsOf(c, r) = x[r] \cap BitsOf(c, r)
  <2>1. \A r \in Reg \ {no} : j[r] = x[r]
    BY DEF Effect
  <2>2. j[no] \ M = x[no] \ M /\ BitsOf(c, no) \cap M = {}
    BY DEF Effect, Apart
  <2>3. j[no] \cap BitsOf(c, no) = x[no] \cap BitsOf(c, no)
    BY <2>2
  <2> QED
    BY <2>1, <2>3
<1>3. \A f \in FieldsOf(c) \cap GrpFields : f # "reg_shadow" => u.g[f] = t.g[f]
  BY DEF Effect, Apart
<1> HIDE DEF x, j
<1>4. CASE c = "mode"
  <2>1. u.g.screen_mode = t.g.screen_mode
    BY <1>3, <1>4 DEF FieldsOf, GrpFields
  <2>2. j[0] \cap {1, 2, 3} = x[0] \cap {1, 2, 3} /\ j[1] \cap {3, 4} = x[1] \cap {3, 4}
    BY <1>1, <1>2, <1>4 DEF BitsOf, Reg
  <2> QED
    BY <2>1, <2>2, <1>4 DEF Right, ModeRight, x, j
<1>5. CASE c = "sprite_mode"
  <2>1. u.g.sprite_mode = t.g.sprite_mode
    BY <1>3, <1>5 DEF FieldsOf, GrpFields
  <2>2. j[1] \cap {0, 1} = x[1] \cap {0, 1}
    BY <1>1, <1>2, <1>5 DEF BitsOf, Reg
  <2> QED
    BY <2>1, <2>2, <1>5 DEF Right, x, j
<1>6. CASE c = "sprite_on"
  <2>1. u.g.sprite_on = t.g.sprite_on
    BY <1>3, <1>6 DEF FieldsOf, GrpFields
  <2>2. j[8] \cap {1} = x[8] \cap {1}
    BY <1>1, <1>2, <1>6 DEF BitsOf, Reg
  <2> QED
    BY <2>1, <2>2, <1>6 DEF Right, x, j
<1>7. CASE c = "palette0"
  <2>1. u.g.palette0_on = t.g.palette0_on
    BY <1>3, <1>7 DEF FieldsOf, GrpFields
  <2>2. j[8] \cap {5} = x[8] \cap {5}
    BY <1>1, <1>2, <1>7 DEF BitsOf, Reg
  <2> QED
    BY <2>1, <2>2, <1>7 DEF Right, x, j
<1>8. CASE c = "lines"
  <2>1. u.g.line_212 = t.g.line_212 /\ u.g.height = t.g.height
    BY <1>3, <1>8 DEF FieldsOf, GrpFields
  <2>2. j[9] \cap {7} = x[9] \cap {7}
    BY <1>1, <1>2, <1>8 DEF BitsOf, Reg
  <2> QED
    BY <2>1, <2>2, <1>8 DEF Right, LinesRight, x, j
<1>9. CASE c = "display"
  <2>1. u.g.display_mode = t.g.display_mode /\ u.g.interlace_on = t.g.interlace_on
    BY <1>3, <1>9 DEF FieldsOf, GrpFields
  <2>2. j[9] \cap DispMask = x[9] \cap DispMask
    BY <1>1, <1>2, <1>9 DEF BitsOf, Reg
  <2> QED
    BY <2>1, <2>2, <1>9 DEF Right, DisplayRight, x, j
<1>10. CASE c = "adjust"
  <2>1. u.g.adjust_h = t.g.adjust_h /\ u.g.adjust_v = t.g.adjust_v
    BY <1>3, <1>10 DEF FieldsOf, GrpFields
  <2>2. j[18] = x[18]
    <3>1. BitsOf(c, 18) = 0..7 /\ 18 \in Reg
      BY <1>10 DEF BitsOf, Reg
    <3>2. j[18] \cap 0..7 = x[18] \cap 0..7
      BY <3>1, <1>2
    <3>3. j[18] \subseteq 0..7 /\ x[18] \subseteq 0..7
      BY <1>1, <3>1 DEF RegFile
    <3> QED
      BY <3>2, <3>3
  <2> QED
    BY <2>1, <2>2, <1>10 DEF Right, AdjustRight, x, j
<1>11. CASE c = "scroll_v"
  <2>1. u.g.scroll_v = t.g.scroll_v
    BY <1>3, <1>11 DEF FieldsOf, GrpFields
  <2>2. j[23] = x[23]
    <3>1. BitsOf(c, 23) = 0..7 /\ 23 \in Reg
      BY <1>11 DEF BitsOf, Reg
    <3>2. j[23] \cap 0..7 = x[23] \cap 0..7
      BY <3>1, <1>2
    <3>3. j[23] \subseteq 0..7 /\ x[23] \subseteq 0..7
      BY <1>1, <3>1 DEF RegFile
    <3> QED
      BY <3>2, <3>3
  <2> QED
    BY <2>1, <2>2, <1>11 DEF Right, x, j
<1>12. CASE c = "scroll_mode"
  <2>1. u.g.scroll_mode = t.g.scroll_mode
    BY <1>3, <1>12 DEF FieldsOf, GrpFields
  <2>2. j[25] \cap {0, 1} = x[25] \cap {0, 1}
    BY <1>1, <1>2, <1>12 DEF BitsOf, Reg
  <2> QED
    BY <2>1, <2>2, <1>12 DEF Right, x, j
<1>13. CASE c = "yjk"
  <2>1. u.g.yae_yjk_mode = t.g.yae_yjk_mode
    BY <1>3, <1>13 DEF FieldsOf, GrpFields
  <2>2. j[25] \cap {3, 4} = x[25] \cap {3, 4}
    BY <1>1, <1>2, <1>13 DEF BitsOf, Reg
  <2> QED
    BY <2>1, <2>2, <1>13 DEF Right, x, j
<1>14. CASE c = "scroll_h"
  <2>1. u.g.scroll_h = t.g.scroll_h
    BY <1>3, <1>14 DEF FieldsOf, GrpFields
  <2>2. j[26] = x[26] /\ j[27] = x[27]
    <3>1. BitsOf(c, 26) = 0..7 /\ BitsOf(c, 27) = 0..7 /\ 26 \in Reg /\ 27 \in Reg
      BY <1>14 DEF BitsOf, Reg
    <3>2. j[26] \cap 0..7 = x[26] \cap 0..7 /\ j[27] \cap 0..7 = x[27] \cap 0..7
      BY <3>1, <1>2
    <3>3. j[26] \subseteq 0..7 /\ x[26] \subseteq 0..7 /\ j[27] \subseteq 0..7 /\ x[27] \subseteq 0..7
      BY <1>1, <3>1 DEF RegFile
    <3> QED
      BY <3>2, <3>3
  <2> QED
    BY <2>1, <2>2, <1>14 DEF Right, ScrollHRight, x, j
<1>15. CASE c = "address"
  <2>1. u.g.active_page_a16_a14 = t.g.active_page_a16_a14 /\ u.g.active_page = t.g.active_page /\ u.g.screen_mode = t.g.screen_mode /\ u.g.view_page = t.g.view_page
    BY <1>3, <1>15 DEF FieldsOf, GrpFields
  <2> QED
    BY <2>1, <1>15 DEF Right, AddressRight, x, j
<1>16. CASE c = "view"
  <2>1. u.g.view_page = t.g.view_page /\ u.g.interlace_on = t.g.interlace_on
    BY <1>3, <1>16 DEF FieldsOf, GrpFields
  <2>2. j[2] \cap {5, 6} = x[2] \cap {5, 6}
    BY <1>1, <1>2, <1>16 DEF BitsOf, Reg
  <2> QED
    BY <2>1, <2>2, <1>16 DEF Right, ViewRight, x, j
<1>17. CASE c = "active"
  <2>1. u.g.active_page = t.g.active_page /\ u.g.interlace_on = t.g.interlace_on
    BY <1>3, <1>17 DEF FieldsOf, GrpFields
  <2> QED
    BY <2>1, <1>17 DEF Right, x, j
<1> QED
  BY <1>4, <1>5, <1>6, <1>7, <1>8, <1>9, <1>10, <1>11, <1>12, <1>13, <1>14, <1>15, <1>16, <1>17 DEF Concerns


(***************************************************************************)
(* What each function leaves alone, and what it makes right.               *)
(***************************************************************************)
(* Every machine has these registers.                                      *)
LEMMA SomePresent == {0, 1, 2, 7, 8, 9, 18, 19, 23} \subseteq Present /\ (v9958 => {25, 26, 27} \subseteq Present) /\ Present \subseteq Reg
  BY DEF Present, Reg, Late

(* The bits of numbers that are small, or multiples.                       *)
LEMMA BitsInside ==
  /\ \A n \in Nat : Bits(n) \subseteq 0..7
  /\ \A n \in 0..15 : Bits(n) \subseteq 0..3 /\ Bits(16 * n) \subseteq 4..7
  /\ \A n \in 0..31 : Bits(n) \subseteq 0..5
  /\ \A n \in 0..3 : Bits(n * 32) \subseteq {5, 6}
<1>1. ASSUME NEW n \in Nat PROVE Bits(n) \subseteq 0..7
  BY InBits
<1>2. ASSUME NEW n \in 0..15 PROVE Bits(n) \subseteq 0..3 /\ Bits(16 * n) \subseteq 4..7
  <2>1. n \div 16 = 0 /\ n \div 32 = 0 /\ n \div 64 = 0 /\ n \div 128 = 0
    OBVIOUS
  <2>2. Bits(n) \subseteq 0..3
    BY <2>1, InBits
  <2>3. /\ (16 * n) % 2 = 0 /\ ((16 * n) \div 2) % 2 = 0 /\ ((16 * n) \div 4) % 2 = 0 /\ ((16 * n) \div 8) % 2 = 0
    OBVIOUS
  <2>4. Bits(16 * n) \subseteq 4..7
    BY <2>3, InBits
  <2> QED
    BY <2>2, <2>4
<1>3. ASSUME NEW n \in 0..31 PROVE Bits(n) \subseteq 0..5
  <2>1. n \div 64 = 0 /\ n \div 128 = 0
    OBVIOUS
  <2> QED
    BY <2>1, InBits
<1>4. ASSUME NEW n \in 0..3 PROVE Bits(n * 32) \subseteq {5, 6}
  <2>1. n \in {0, 1, 2, 3}
    OBVIOUS
  <2>2. /\ (n * 32) % 2 = 0 /\ ((n * 32) \div 2) % 2 = 0 /\ ((n * 32) \div 4) % 2 = 0 /\ ((n * 32) \div 8) % 2 = 0
        /\ ((n * 32) \div 16) % 2 = 0 /\ ((n * 32) \div 128) % 2 = 0
    BY <2>1
  <2>3. n * 32 \in Nat
    OBVIOUS
  <2> QED
    BY <2>2, <2>3, InBits
<1> QED
  BY <1>1, <1>2, <1>3, <1>4

(* The arguments of a setter, and what it has done.                        *)
Fit(x, v, no, mask, bits) ==
  /\ x \in GrpFields \ {"reg_shadow"} /\ v \in KindOf(x)
  /\ no \in Present /\ mask \in SUBSET (0..7) /\ bits \in SUBSET mask

Done(t, u, x, v, no, mask, bits) ==
  Effect(t, u, {x}, no, mask) /\ u.g[x] = v /\ u.g.reg_shadow[no] \cap mask = bits

LEMMA SetterEffect ==
  ASSUME NEW t, StateType(t), Agree(t), NEW x, NEW v, NEW no, NEW mask, NEW bits, Fit(x, v, no, mask, bits)
  PROVE  Done(t, Setter(t, x, v, no, mask, bits), x, v, no, mask, bits)
<1> DEFINE u == Setter(t, x, v, no, mask, bits)
<1>0. /\ x \in GrpFields \ {"reg_shadow"} /\ v \in KindOf(x)
      /\ no \in Present /\ mask \in SUBSET (0..7) /\ bits \in SUBSET mask
  BY DEF Fit
<1>1. Shape(t)
  BY DEF StateType
<1>2. Written(t, u, {x}, no, mask, bits) /\ u.g[x] = v
  BY <1>0, <1>1, SetterWrites
<1>3. (\A f \in {x} : u.g[f] \in KindOf(f)) /\ {x} \in SUBSET (GrpFields \ {"reg_shadow"})
  BY <1>0, <1>2
<1> HIDE DEF u
<1>4. Effect(t, u, {x}, no, mask) /\ u.g.reg_shadow[no] \cap mask = bits
  BY <1>0, <1>2, <1>3, WrittenEffect
<1> QED
  BY <1>2, <1>4 DEF u, Done

(* Bits of a register are set and no field.                                *)
PlainFit(no, mask, bits) == no \in Present /\ mask \in SUBSET (0..7) /\ bits \in SUBSET mask

LEMMA PlainEffect ==
  ASSUME NEW t, StateType(t), Agree(t), NEW no, NEW mask, NEW bits, PlainFit(no, mask, bits)
  PROVE  /\ Effect(t, Update(t, no, mask, bits), {}, no, mask)
         /\ Update(t, no, mask, bits).g.reg_shadow[no] \cap mask = bits
<1>1. Shape(t)
  BY DEF StateType
<1> DEFINE u == Update(t, no, mask, bits)
           F == {}
<1>2. Written(t, u, F, no, mask, bits)
  BY <1>1, UpdateWrites
<1>3. no \in Present /\ mask \in SUBSET (0..7) /\ bits \in SUBSET mask
  BY DEF PlainFit
<1>4. F \in SUBSET (GrpFields \ {"reg_shadow"}) /\ \A f \in F : u.g[f] \in KindOf(f)
  OBVIOUS
<1> HIDE DEF u, F
<1>5. Effect(t, u, F, no, mask) /\ u.g.reg_shadow[no] \cap mask = bits
  BY <1>2, <1>3, <1>4, WrittenEffect
<1> QED
  BY <1>5 DEF u, F

(* A field is set and no register.                                         *)
Assign(t, x, v) == [t EXCEPT !.g = [@ EXCEPT ![x] = v]]

LEMMA FieldEffect ==
  ASSUME NEW t, StateType(t), Agree(t), NEW x \in GrpFields \ {"reg_shadow"}, NEW v \in KindOf(x), NEW no, NEW M
  PROVE  /\ Effect(t, Assign(t, x, v), {x}, no, M) /\ Assign(t, x, v).g[x] = v
         /\ Assign(t, x, v).g.reg_shadow = t.g.reg_shadow
<1> DEFINE u == Assign(t, x, v)
<1>1. Shape(t)
  BY DEF StateType
<1>2. /\ Shape(u) /\ u.hw = t.hw /\ u.g[x] = v
      /\ \A f \in GrpFields \ {x} : u.g[f] = t.g[f]
  BY <1>1, FieldSet DEF Assign
<1> HIDE DEF u
<1>3. u.g.reg_shadow = t.g.reg_shadow
  BY <1>2 DEF GrpFields
<1>4. StateType(u)
  BY <1>2 DEF StateType, GrpType, Shape
<1>5. Agree(u)
  BY <1>2, <1>3 DEF Agree
<1> QED
  BY <1>2, <1>3, <1>4, <1>5 DEF Effect, u

(* Two calls, one after the other.                                         *)
LEMMA EffectTwice ==
  ASSUME NEW t, NEW u, NEW w, NEW F, NEW E, NEW no, NEW M, Effect(t, w, F, no, M), Effect(w, u, E, no, M)
  PROVE  Effect(t, u, F \cup E, no, M)
  BY DEF Effect

(* More fields and bits may be left out of account.                        *)
LEMMA EffectGrows ==
  ASSUME NEW t, NEW u, NEW F, NEW E, F \subseteq E, NEW no, NEW M, NEW N, M \subseteq N, Effect(t, u, F, no, M)
  PROVE  Effect(t, u, E, no, N)
  BY DEF Effect

LEMMA SetDisplayOnEffect ==
  ASSUME NEW t, StateType(t), Agree(t), NEW on \in BOOLEAN
  PROVE  Effect(t, SetDisplayOn(t, on), {"display_on"}, 1, {6})
<1> DEFINE u == SetDisplayOn(t, on)
<1>1. u = Setter(t, "display_on", on, 1, {6}, Bit(on, 6))
  BY Zenon DEF SetDisplayOn, Setter
<1>2. "display_on" \in GrpFields \ {"reg_shadow"} /\ on \in KindOf("display_on")
  BY DEF GrpFields, KindOf
<1>3. 1 \in Present /\ {6} \in SUBSET (0..7) /\ Bit(on, 6) \in SUBSET {6}
  BY SomePresent DEF Bit
<1> HIDE DEF u
<1>4. Fit("display_on", on, 1, {6}, Bit(on, 6))
  BY <1>2, <1>3, Zenon DEF Fit
<1>5. Done(t, u, "display_on", on, 1, {6}, Bit(on, 6))
  BY <1>1, <1>4, SetterEffect
<1>6. Effect(t, u, {"display_on"}, 1, {6}) /\ u.g["display_on"] = on /\ u.g.reg_shadow[1] \cap {6} = Bit(on, 6)
  BY <1>5, Zenon DEF Done
<1> QED
  BY <1>6 DEF u

LEMMA SetSpriteModeEffect ==
  ASSUME NEW t, StateType(t), Agree(t), NEW m \in SUBSET {0, 1}
  PROVE  Effect(t, SetSpriteMode(t, m), {"sprite_mode"}, 1, {0, 1}) /\ Right("sprite_mode", SetSpriteMode(t, m).g)
<1> DEFINE u == SetSpriteMode(t, m)
<1>1. u = Setter(t, "sprite_mode", m, 1, {0, 1}, m)
  BY Zenon DEF SetSpriteMode, Setter
<1>2. "sprite_mode" \in GrpFields \ {"reg_shadow"} /\ m \in KindOf("sprite_mode")
  BY DEF GrpFields, KindOf
<1>3. 1 \in Present /\ {0, 1} \in SUBSET (0..7) /\ m \in SUBSET {0, 1}
  BY SomePresent
<1> HIDE DEF u
<1>4. Fit("sprite_mode", m, 1, {0, 1}, m)
  BY <1>2, <1>3, Zenon DEF Fit
<1>5. Done(t, u, "sprite_mode", m, 1, {0, 1}, m)
  BY <1>1, <1>4, SetterEffect
<1>6. Effect(t, u, {"sprite_mode"}, 1, {0, 1}) /\ u.g["sprite_mode"] = m /\ u.g.reg_shadow[1] \cap {0, 1} = m
  BY <1>5, Zenon DEF Done
<1>8. Right("sprite_mode", u.g)
  BY <1>6 DEF Right
<1> QED
  BY <1>6, <1>8 DEF u

LEMMA SetSpriteOnEffect ==
  ASSUME NEW t, StateType(t), Agree(t), NEW on \in BOOLEAN
  PROVE  Effect(t, SetSpriteOn(t, on), {"sprite_on"}, 8, {1}) /\ Right("sprite_on", SetSpriteOn(t, on).g)
<1> DEFINE u == SetSpriteOn(t, on)
<1>1. u = Setter(t, "sprite_on", on, 8, {1}, Bit(~on, 1))
  BY Zenon DEF SetSpriteOn, Setter
<1>2. "sprite_on" \in GrpFields \ {"reg_shadow"} /\ on \in KindOf("sprite_on")
  BY DEF GrpFields, KindOf
<1>3. 8 \in Present /\ {1} \in SUBSET (0..7) /\ Bit(~on, 1) \in SUBSET {1}
  BY SomePresent DEF Bit
<1> HIDE DEF u
<1>4. Fit("sprite_on", on, 8, {1}, Bit(~on, 1))
  BY <1>2, <1>3, Zenon DEF Fit
<1>5. Done(t, u, "sprite_on", on, 8, {1}, Bit(~on, 1))
  BY <1>1, <1>4, SetterEffect
<1>6. Effect(t, u, {"sprite_on"}, 8, {1}) /\ u.g["sprite_on"] = on /\ u.g.reg_shadow[8] \cap {1} = Bit(~on, 1)
  BY <1>5, Zenon DEF Done
<1>8. Right("sprite_on", u.g)
  BY <1>6 DEF Right
<1> QED
  BY <1>6, <1>8 DEF u

LEMMA SetPalette0OnEffect ==
  ASSUME NEW t, StateType(t), Agree(t), NEW on \in BOOLEAN
  PROVE  Effect(t, SetPalette0On(t, on), {"palette0_on"}, 8, {5}) /\ Right("palette0", SetPalette0On(t, on).g)
<1> DEFINE u == SetPalette0On(t, on)
<1>1. u = Setter(t, "palette0_on", on, 8, {5}, Bit(on, 5))
  BY Zenon DEF SetPalette0On, Setter
<1>2. "palette0_on" \in GrpFields \ {"reg_shadow"} /\ on \in KindOf("palette0_on")
  BY DEF GrpFields, KindOf
<1>3. 8 \in Present /\ {5} \in SUBSET (0..7) /\ Bit(on, 5) \in SUBSET {5}
  BY SomePresent DEF Bit
<1> HIDE DEF u
<1>4. Fit("palette0_on", on, 8, {5}, Bit(on, 5))
  BY <1>2, <1>3, Zenon DEF Fit
<1>5. Done(t, u, "palette0_on", on, 8, {5}, Bit(on, 5))
  BY <1>1, <1>4, SetterEffect
<1>6. Effect(t, u, {"palette0_on"}, 8, {5}) /\ u.g["palette0_on"] = on /\ u.g.reg_shadow[8] \cap {5} = Bit(on, 5)
  BY <1>5, Zenon DEF Done
<1>8. Right("palette0", u.g)
  BY <1>6 DEF Right
<1> QED
  BY <1>6, <1>8 DEF u

LEMMA SetScrollVEffect ==
  ASSUME NEW t, StateType(t), Agree(t), NEW v \in 0..255
  PROVE  Effect(t, SetScrollV(t, v), {"scroll_v"}, 23, 0..7) /\ Right("scroll_v", SetScrollV(t, v).g)
<1> DEFINE u == SetScrollV(t, v)
<1>1. u = Setter(t, "scroll_v", v, 23, 0..7, Bits(v))
  BY Zenon DEF SetScrollV, Setter
<1>2. "scroll_v" \in GrpFields \ {"reg_shadow"} /\ v \in KindOf("scroll_v")
  BY DEF GrpFields, KindOf
<1>3. 23 \in Present /\ (0..7) \in SUBSET (0..7) /\ Bits(v) \in SUBSET (0..7)
  BY SomePresent, BitsInside
<1> HIDE DEF u
<1>4. Fit("scroll_v", v, 23, 0..7, Bits(v))
  BY <1>2, <1>3, Zenon DEF Fit
<1>5. Done(t, u, "scroll_v", v, 23, 0..7, Bits(v))
  BY <1>1, <1>4, SetterEffect
<1>6. Effect(t, u, {"scroll_v"}, 23, 0..7) /\ u.g["scroll_v"] = v /\ u.g.reg_shadow[23] \cap (0..7) = Bits(v)
  BY <1>5, Zenon DEF Done
<1>7. u.g.reg_shadow[23] \in SUBSET (0..7)
  BY <1>6 DEF Effect, StateType, GrpType, KindOf, GrpFields, RegFile, Reg
<1>8. Right("scroll_v", u.g)
  BY <1>6, <1>7 DEF Right
<1> QED
  BY <1>6, <1>8 DEF u

LEMMA SetIrqVblankEffect ==
  ASSUME NEW t, StateType(t), Agree(t), NEW on
  PROVE  Effect(t, SetIrqVblank(t, on), {}, 1, {5})
<1>1. PlainFit(1, {5}, Bit(on, 5))
  BY SomePresent DEF PlainFit, Bit
<1> QED
  BY <1>1, PlainEffect DEF SetIrqVblank

LEMMA SetIrqHblankEffect ==
  ASSUME NEW t, StateType(t), Agree(t), NEW on
  PROVE  Effect(t, SetIrqHblank(t, on), {}, 0, {4})
<1>1. PlainFit(0, {4}, Bit(on, 4))
  BY SomePresent DEF PlainFit, Bit
<1> QED
  BY <1>1, PlainEffect DEF SetIrqHblank

LEMMA SetIrqHblankLineEffect ==
  ASSUME NEW t, StateType(t), Agree(t), NEW j \in 0..255
  PROVE  Effect(t, SetIrqHblankLine(t, j), {}, 19, 0..7)
<1>1. PlainFit(19, 0..7, Bits(j))
  BY SomePresent, BitsInside DEF PlainFit
<1> QED
  BY <1>1, PlainEffect DEF SetIrqHblankLine

LEMMA SetYaeYjkModeEffect ==
  ASSUME NEW t, StateType(t), Agree(t), NEW m \in SUBSET {3, 4}
  PROVE  Effect(t, SetYaeYjkMode(t, m), {"yae_yjk_mode"}, 25, {3, 4}) /\ Right("yjk", SetYaeYjkMode(t, m).g)
<1> DEFINE u == SetYaeYjkMode(t, m)
<1>1. "yae_yjk_mode" \in GrpFields \ {"reg_shadow"} /\ m \in KindOf("yae_yjk_mode")
  BY DEF GrpFields, KindOf
<1>2. CASE v9958
  <2>1. u = Setter(t, "yae_yjk_mode", m, 25, {3, 4}, m)
    BY <1>2, Zenon DEF SetYaeYjkMode, Setter
  <2>2. Fit("yae_yjk_mode", m, 25, {3, 4}, m)
    BY <1>1, <1>2, SomePresent DEF Fit
  <2> HIDE DEF u
  <2>3. Done(t, u, "yae_yjk_mode", m, 25, {3, 4}, m)
    BY <2>1, <2>2, SetterEffect
  <2>4. Effect(t, u, {"yae_yjk_mode"}, 25, {3, 4}) /\ u.g["yae_yjk_mode"] = m /\ u.g.reg_shadow[25] \cap {3, 4} = m
    BY <2>3, Zenon DEF Done
  <2>5. Right("yjk", u.g)
    BY <2>4 DEF Right
  <2> QED
    BY <2>4, <2>5 DEF u
<1>3. CASE ~v9958
  <2>1. u = Assign(t, "yae_yjk_mode", m)
    BY <1>3, Zenon DEF SetYaeYjkMode, Assign
  <2> HIDE DEF u
  <2>2. Effect(t, u, {"yae_yjk_mode"}, 25, {3, 4})
    BY <2>1, <1>1, FieldEffect
  <2>3. Right("yjk", u.g)
    BY <1>3 DEF Right
  <2> QED
    BY <2>2, <2>3 DEF u
<1> QED
  BY <1>2, <1>3

LEMMA SetScrollModeEffect ==
  ASSUME NEW t, StateType(t), Agree(t), NEW m \in SUBSET {0, 1}
  PROVE  Effect(t, SetScrollMode(t, m), {"scroll_mode"}, 25, {0, 1}) /\ Right("scroll_mode", SetScrollMode(t, m).g)
<1> DEFINE u == SetScrollMode(t, m)
<1>1. "scroll_mode" \in GrpFields \ {"reg_shadow"} /\ m \in KindOf("scroll_mode")
  BY DEF GrpFields, KindOf
<1>2. CASE v9958
  <2>1. u = Setter(t, "scroll_mode", m, 25, {0, 1}, m)
    BY <1>2, Zenon DEF SetScrollMode, Setter
  <2>2. Fit("scroll_mode", m, 25, {0, 1}, m)
    BY <1>1, <1>2, SomePresent DEF Fit
  <2> HIDE DEF u
  <2>3. Done(t, u, "scroll_mode", m, 25, {0, 1}, m)
    BY <2>1, <2>2, SetterEffect
  <2>4. Effect(t, u, {"scroll_mode"}, 25, {0, 1}) /\ u.g["scroll_mode"] = m /\ u.g.reg_shadow[25] \cap {0, 1} = m
    BY <2>3, Zenon DEF Done
  <2>5. Right("scroll_mode", u.g)
    BY <2>4 DEF Right
  <2> QED
    BY <2>4, <2>5 DEF u
<1>3. CASE ~v9958
  <2>1. u = Assign(t, "scroll_mode", m)
    BY <1>3, Zenon DEF SetScrollMode, Assign
  <2> HIDE DEF u
  <2>2. Effect(t, u, {"scroll_mode"}, 25, {0, 1})
    BY <2>1, <1>1, FieldEffect
  <2>3. Right("scroll_mode", u.g)
    BY <1>3 DEF Right
  <2> QED
    BY <2>2, <2>3 DEF u
<1> QED
  BY <1>2, <1>3

LEMMA SetLine212Effect ==
  ASSUME NEW t, StateType(t), Agree(t), NEW on \in BOOLEAN
  PROVE  Effect(t, SetLine212(t, on), {"line_212", "height"}, 9, {7}) /\ Right("lines", SetLine212(t, on).g)
<1> DEFINE w == Assign(t, "line_212", on)
           u == SetLine212(t, on)
           n == IF on THEN 212 ELSE 192
<1>1. u = Setter(w, "height", n, 9, {7}, Bit(on, 7))
  BY DEF SetLine212, Setter, Assign
<1>2. /\ "line_212" \in GrpFields \ {"reg_shadow"} /\ on \in KindOf("line_212")
      /\ "height" \in GrpFields \ {"reg_shadow"} /\ n \in KindOf("height")
  BY DEF GrpFields, KindOf
<1> HIDE DEF n
<1>3. Effect(t, w, {"line_212"}, 9, {7}) /\ w.g["line_212"] = on
  BY <1>2, FieldEffect
<1> HIDE DEF w, u
<1>4. StateType(w) /\ Agree(w)
  BY <1>3 DEF Effect
<1>5. Fit("height", n, 9, {7}, Bit(on, 7))
  BY <1>2, SomePresent DEF Fit, Bit
<1>6. Done(w, u, "height", n, 9, {7}, Bit(on, 7))
  BY <1>1, <1>4, <1>5, SetterEffect
<1>7. Effect(w, u, {"height"}, 9, {7}) /\ u.g["height"] = n /\ u.g.reg_shadow[9] \cap {7} = Bit(on, 7)
  BY <1>6, Zenon DEF Done
<1>8. u.g["line_212"] = on
  BY <1>3, <1>7 DEF Effect, GrpFields
<1>9. Right("lines", u.g)
  BY <1>7, <1>8 DEF Right, LinesRight, Bit, n
<1>10. Effect(t, u, {"line_212"} \cup {"height"}, 9, {7})
  BY <1>3, <1>7, EffectTwice
<1>11. {"line_212"} \cup {"height"} = {"line_212", "height"}
  OBVIOUS
<1> QED
  BY <1>9, <1>10, <1>11 DEF u

LEMMA SetDisplayModeEffect ==
  ASSUME NEW t, StateType(t), Agree(t), NEW m \in SUBSET DispMask
  PROVE  /\ Effect(t, SetDisplayMode(t, m), {"display_mode", "interlace_on", "vsync_50hz"}, 9, DispMask)
         /\ Right("display", SetDisplayMode(t, m).g)
<1> DEFINE a == Setter(t, "display_mode", m, 9, DispMask, m)
           i == (Interlaced \subseteq m)
           b == Assign(a, "interlace_on", i)
           d == Assign(b, "vsync_50hz", 1 \in m)
           u == SetDisplayMode(t, m)
<1>1. u = d
  <2>1. u = [a EXCEPT !.g.interlace_on = i, !.g.vsync_50hz = (1 \in m)]
    BY Zenon DEF SetDisplayMode, Setter
  <2> HIDE DEF a, i, u
  <2> QED
    BY <2>1 DEF Assign
<1>2. Fit("display_mode", m, 9, DispMask, m)
  BY SomePresent DEF Fit, GrpFields, KindOf, DispMask
<1>3. Done(t, a, "display_mode", m, 9, DispMask, m)
  BY <1>2, SetterEffect
<1>4. Effect(t, a, {"display_mode"}, 9, DispMask) /\ a.g["display_mode"] = m /\ a.g.reg_shadow[9] \cap DispMask = m
  BY <1>3, Zenon DEF Done
<1>5. StateType(a) /\ Agree(a)
  BY <1>4 DEF Effect
<1>6. "interlace_on" \in GrpFields \ {"reg_shadow"} /\ i \in KindOf("interlace_on")
  BY DEF GrpFields, KindOf
<1> HIDE DEF a, i
<1>7. Effect(a, b, {"interlace_on"}, 9, DispMask) /\ b.g["interlace_on"] = i /\ b.g.reg_shadow = a.g.reg_shadow
  BY <1>5, <1>6, FieldEffect
<1>8. StateType(b) /\ Agree(b)
  BY <1>7 DEF Effect
<1> HIDE DEF b
<1>9. "vsync_50hz" \in GrpFields \ {"reg_shadow"} /\ (1 \in m) \in KindOf("vsync_50hz")
  BY DEF GrpFields, KindOf
<1>10. Effect(b, d, {"vsync_50hz"}, 9, DispMask) /\ d.g.reg_shadow = b.g.reg_shadow
  BY <1>8, <1>9, FieldEffect
<1> HIDE DEF d, u
<1>11. /\ d.g["display_mode"] = m /\ d.g["interlace_on"] = i /\ d.g.reg_shadow[9] \cap DispMask = m
  BY <1>4, <1>7, <1>10 DEF Effect, GrpFields
<1>12. Right("display", d.g)
  BY <1>11 DEF Right, DisplayRight, i
<1>13. Effect(t, b, {"display_mode"} \cup {"interlace_on"}, 9, DispMask)
  BY <1>4, <1>7, EffectTwice
<1>14. Effect(t, d, ({"display_mode"} \cup {"interlace_on"}) \cup {"vsync_50hz"}, 9, DispMask)
  BY <1>13, <1>10, EffectTwice
<1>15. ({"display_mode"} \cup {"interlace_on"}) \cup {"vsync_50hz"} = {"display_mode", "interlace_on", "vsync_50hz"}
  OBVIOUS
<1> QED
  BY <1>1, <1>12, <1>14, <1>15 DEF u

LEMMA SetVsync50HzEffect ==
  ASSUME NEW t, StateType(t), Agree(t), NEW on \in BOOLEAN
  PROVE  /\ Effect(t, SetVsync50Hz(t, on), {"display_mode"}, 9, DispMask)
         /\ Right("display", t.g) => Right("display", SetVsync50Hz(t, on).g)
<1> DEFINE m == (t.g.display_mode \ {1}) \cup Bit(on, 1)
           u == SetVsync50Hz(t, on)
<1>1. u = Setter(t, "display_mode", m, 9, DispMask, m)
  BY Zenon DEF SetVsync50Hz, Setter
<1>2. t.g.display_mode \in SUBSET DispMask
  BY DEF StateType, GrpType, GrpFields, KindOf
<1>3. m \in SUBSET DispMask
  BY <1>2 DEF Bit, DispMask
<1>4. (Interlaced \subseteq m) = (Interlaced \subseteq t.g.display_mode)
  BY DEF Interlaced, Bit
<1> HIDE DEF m, u
<1>5. Fit("display_mode", m, 9, DispMask, m)
  BY <1>3, SomePresent DEF Fit, GrpFields, KindOf, DispMask
<1>6. Done(t, u, "display_mode", m, 9, DispMask, m)
  BY <1>1, <1>5, SetterEffect
<1>7. Effect(t, u, {"display_mode"}, 9, DispMask) /\ u.g["display_mode"] = m /\ u.g.reg_shadow[9] \cap DispMask = m
  BY <1>6, Zenon DEF Done
<1>8. u.g["interlace_on"] = t.g["interlace_on"]
  BY <1>7 DEF Effect, GrpFields
<1>9. Right("display", t.g) => Right("display", u.g)
  BY <1>4, <1>7, <1>8 DEF Right, DisplayRight
<1> QED
  BY <1>7, <1>9 DEF u

LEMMA SetColorTextFgEffect ==
  ASSUME NEW t, StateType(t), Agree(t), NEW colour \in 0..255
  PROVE  Effect(t, SetColorTextFg(t, colour), {"color_text_fg"}, 7, 0..7)
<1> DEFINE u == SetColorTextFg(t, colour)
           n == colour % 16
<1>1. n \in 0..15
  OBVIOUS
<1>2. "color_text_fg" \in GrpFields \ {"reg_shadow"} /\ n \in KindOf("color_text_fg")
  BY <1>1 DEF GrpFields, KindOf
<1>3. CASE ShowsText(t)
  <2>1. u = Setter(t, "color_text_fg", n, 7, 4..7, Bits(16 * n))
    <3>1. ShowsText([t EXCEPT !.g.color_text_fg = n]) <=> ShowsText(t)
      <4>1. [t EXCEPT !.g.color_text_fg = n].g.screen_mode = t.g.screen_mode
        BY DEF StateType, Shape, GrpShape, GrpFields
      <4> QED
        BY <4>1, Zenon DEF ShowsText
    <3> QED
      BY <1>3, Zenon DEF SetColorTextFg, Setter
  <2>2. Fit("color_text_fg", n, 7, 4..7, Bits(16 * n))
    BY <1>1, <1>2, SomePresent, BitsInside DEF Fit
  <2> HIDE DEF u, n
  <2>3. Done(t, u, "color_text_fg", n, 7, 4..7, Bits(16 * n))
    BY <2>1, <2>2, SetterEffect
  <2>4. Effect(t, u, {"color_text_fg"}, 7, 4..7)
    BY <2>3, Zenon DEF Done
  <2>5. 4..7 \subseteq 0..7
    OBVIOUS
  <2> QED
    BY <2>4, <2>5, EffectGrows DEF u
<1>4. CASE ~ShowsText(t)
  <2>1. u = Assign(t, "color_text_fg", n)
    BY <1>4, Zenon DEF SetColorTextFg, Assign
  <2> HIDE DEF u, n
  <2> QED
    BY <2>1, <1>2, FieldEffect DEF u
<1> QED
  BY <1>3, <1>4

LEMMA SetColorTextBgEffect ==
  ASSUME NEW t, StateType(t), Agree(t), NEW colour \in 0..255
  PROVE  Effect(t, SetColorTextBg(t, colour), {"color_text_bg"}, 7, 0..7)
<1> DEFINE u == SetColorTextBg(t, colour)
           n == colour % 16
<1>1. n \in 0..15
  OBVIOUS
<1>2. "color_text_bg" \in GrpFields \ {"reg_shadow"} /\ n \in KindOf("color_text_bg")
  BY <1>1 DEF GrpFields, KindOf
<1>3. CASE ShowsText(t)
  <2>1. u = Setter(t, "color_text_bg", n, 7, 0..3, Bits(n))
    BY <1>3, Zenon DEF SetColorTextBg, Setter
  <2>2. Fit("color_text_bg", n, 7, 0..3, Bits(n))
    BY <1>1, <1>2, SomePresent, BitsInside DEF Fit
  <2> HIDE DEF u, n
  <2>3. Done(t, u, "color_text_bg", n, 7, 0..3, Bits(n))
    BY <2>1, <2>2, SetterEffect
  <2>4. Effect(t, u, {"color_text_bg"}, 7, 0..3)
    BY <2>3, Zenon DEF Done
  <2>5. 0..3 \subseteq 0..7
    OBVIOUS
  <2> QED
    BY <2>4, <2>5, EffectGrows DEF u
<1>4. CASE ~ShowsText(t)
  <2>1. u = Assign(t, "color_text_bg", n)
    BY <1>4, Zenon DEF SetColorTextBg, Assign
  <2> HIDE DEF u, n
  <2> QED
    BY <2>1, <1>2, FieldEffect DEF u
<1> QED
  BY <1>3, <1>4

LEMMA SetColorBorderEffect ==
  ASSUME NEW t, StateType(t), Agree(t), NEW colour \in 0..255
  PROVE  Effect(t, SetColorBorder(t, colour), {"color_border"}, 7, 0..7)
<1> DEFINE u == SetColorBorder(t, colour)
           n == colour % 16
<1>1. n \in 0..15
  OBVIOUS
<1>2. "color_border" \in GrpFields \ {"reg_shadow"} /\ n \in KindOf("color_border") /\ colour \in KindOf("color_border")
  BY <1>1 DEF GrpFields, KindOf
<1>3. CASE t.g.screen_mode < G7
  <2>1. u = Setter(t, "color_border", n, 7, 0..3, Bits(n))
    BY <1>3, Zenon DEF SetColorBorder, Setter
  <2>2. Fit("color_border", n, 7, 0..3, Bits(n))
    BY <1>1, <1>2, SomePresent, BitsInside DEF Fit
  <2> HIDE DEF u, n
  <2>3. Done(t, u, "color_border", n, 7, 0..3, Bits(n))
    BY <2>1, <2>2, SetterEffect
  <2>4. Effect(t, u, {"color_border"}, 7, 0..3)
    BY <2>3, Zenon DEF Done
  <2>5. 0..3 \subseteq 0..7
    OBVIOUS
  <2> QED
    BY <2>4, <2>5, EffectGrows DEF u
<1>4. CASE ~(t.g.screen_mode < G7)
  <2>1. u = Setter(t, "color_border", colour, 7, 0..7, Bits(colour))
    BY <1>4, Zenon DEF SetColorBorder, Setter
  <2>2. Fit("color_border", colour, 7, 0..7, Bits(colour))
    BY <1>2, SomePresent, BitsInside DEF Fit
  <2> HIDE DEF u
  <2>3. Done(t, u, "color_border", colour, 7, 0..7, Bits(colour))
    BY <2>1, <2>2, SetterEffect
  <2> QED
    BY <2>3, Zenon DEF Done, u
<1> QED
  BY <1>3, <1>4

LEMMA SetViewEffect ==
  ASSUME NEW t, StateType(t), Agree(t), NEW pg \in 0..3
  PROVE  /\ Effect(t, SetView(t, pg), {"view_page"}, 2, {5, 6})
         /\ Right("view", SetView(t, pg).g) /\ SetView(t, pg).g.view_page <= pg
<1> DEFINE u == SetView(t, pg)
           p == IF t.g.interlace_on THEN 2 * (pg \div 2) ELSE pg
           n == IF t.g.interlace_on THEN p + 1 ELSE p
<1>1. p \in 0..3 /\ p <= pg /\ n \in 0..3 /\ (t.g.interlace_on => p % 2 = 0)
  <2>1. pg \in {0, 1, 2, 3}
    OBVIOUS
  <2> QED
    BY <2>1
<1>2. n = IF t.g.interlace_on THEN p + 1 ELSE p
  OBVIOUS
<1>3. u = Setter(t, "view_page", p, 2, {5, 6}, Bits(n * 32))
  <2>1. u = LET q == p IN Setter(t, "view_page", q, 2, {5, 6}, Bits((IF t.g.interlace_on THEN q + 1 ELSE q) * 32))
    <3>1. [t EXCEPT !.g.view_page = p].g.interlace_on = t.g.interlace_on
      BY DEF StateType, Shape, GrpShape, GrpFields
    <3> QED
      BY <3>1, Zenon DEF SetView, Setter
  <2> QED
    BY <2>1, Zenon
<1> HIDE DEF u, p, n
<1>4. Fit("view_page", p, 2, {5, 6}, Bits(n * 32))
  BY <1>1, SomePresent, BitsInside DEF Fit, GrpFields, KindOf
<1>5. Done(t, u, "view_page", p, 2, {5, 6}, Bits(n * 32))
  BY <1>3, <1>4, SetterEffect
<1>6. /\ Effect(t, u, {"view_page"}, 2, {5, 6}) /\ u.g["view_page"] = p
      /\ u.g.reg_shadow[2] \cap {5, 6} = Bits(n * 32)
  BY <1>5, Zenon DEF Done
<1>7. u.g["interlace_on"] = t.g["interlace_on"]
  BY <1>6 DEF Effect, GrpFields
<1>8. Right("view", u.g)
  <2>1. ViewRight(u.g)
    BY <1>1, <1>2, <1>6, <1>7 DEF ViewRight
  <2> QED
    BY <2>1 DEF Right
<1> QED
  BY <1>1, <1>6, <1>8 DEF u

LEMMA SetActiveEffect ==
  ASSUME NEW t, StateType(t), Agree(t), NEW pg \in 0..3, NEW no, NEW M,
         t.g.screen_mode >= G6 => pg <= 1 /\ t.g.view_page <= 1
  PROVE  /\ Effect(t, SetActive(t, pg), {"active_page", "active_page_a16_a14"}, no, M)
         /\ Right("active", SetActive(t, pg).g) /\ Right("address", SetActive(t, pg).g)
<1> DEFINE u == SetActive(t, pg)
           p == IF t.g.interlace_on THEN 2 * (pg \div 2) ELSE pg
           n == IF t.g.screen_mode < G6 THEN p * 2 ELSE p * 4
           w == Assign(t, "active_page", p)
<1>1. p \in 0..3 /\ p <= pg /\ (t.g.interlace_on => p % 2 = 0)
  <2>1. pg \in {0, 1, 2, 3}
    OBVIOUS
  <2> QED
    BY <2>1
<1>2. t.g.screen_mode \in Nat
  BY DEF StateType, GrpType, GrpFields, KindOf, NoMode
<1>3. n \in 0..12 /\ (t.g.screen_mode >= G6 => p <= 1)
  <2>1. p \in {0, 1, 2, 3}
    BY <1>1
  <2> HIDE DEF p
  <2> QED
    BY <2>1, <1>1 DEF G6
<1>4. u = Assign(w, "active_page_a16_a14", n)
  <2>1. u = LET q == p IN [t EXCEPT !.g.active_page = q, !.g.active_page_a16_a14 = IF t.g.screen_mode < G6 THEN q * 2 ELSE q * 4]
    BY Zenon DEF SetActive
  <2>2. u = [t EXCEPT !.g.active_page = p, !.g.active_page_a16_a14 = n]
    BY <2>1, Zenon
  <2> HIDE DEF u, n, p
  <2> QED
    BY <2>2 DEF Assign
<1> HIDE DEF u, p
<1>5. "active_page" \in GrpFields \ {"reg_shadow"} /\ p \in KindOf("active_page")
  BY <1>1 DEF GrpFields, KindOf
<1>6. "active_page_a16_a14" \in GrpFields \ {"reg_shadow"} /\ n \in KindOf("active_page_a16_a14")
  BY <1>3 DEF GrpFields, KindOf
<1>7. Effect(t, w, {"active_page"}, no, M) /\ w.g["active_page"] = p
  BY <1>5, FieldEffect
<1> HIDE DEF w
<1>8. StateType(w) /\ Agree(w)
  BY <1>7 DEF Effect
<1> HIDE DEF n
<1>9. Effect(w, u, {"active_page_a16_a14"}, no, M) /\ u.g["active_page_a16_a14"] = n
  BY <1>4, <1>6, <1>8, FieldEffect
<1>10. /\ u.g["active_page"] = p /\ u.g["interlace_on"] = t.g["interlace_on"]
       /\ u.g["screen_mode"] = t.g["screen_mode"] /\ u.g["view_page"] = t.g["view_page"]
  BY <1>7, <1>9 DEF Effect, GrpFields
<1>11. Right("active", u.g)
  BY <1>1, <1>10 DEF Right
<1>12. Right("address", u.g)
  <2>1. AddressRight(u.g)
    BY <1>3, <1>9, <1>10 DEF AddressRight, n
  <2> QED
    BY <2>1 DEF Right
<1>13. Effect(t, u, {"active_page"} \cup {"active_page_a16_a14"}, no, M)
  BY <1>7, <1>9, EffectTwice
<1>14. {"active_page"} \cup {"active_page_a16_a14"} = {"active_page", "active_page_a16_a14"}
  OBVIOUS
<1> QED
  BY <1>11, <1>12, <1>13, <1>14 DEF u

(* Two halves of a register.                                               *)
LEMMA BitsSum ==
  ASSUME NEW x \in 0..15, NEW j \in 0..15
  PROVE  Bits(x + 16 * j) = Bits(x) \cup Bits(16 * j)
<1> DEFINE n == x + 16 * j
<1>1. n \in Nat /\ x \in Nat /\ 16 * j \in Nat
  OBVIOUS
<1>2. /\ n % 2 = x % 2 /\ (n \div 2) % 2 = (x \div 2) % 2
      /\ (n \div 4) % 2 = (x \div 4) % 2 /\ (n \div 8) % 2 = (x \div 8) % 2
  OBVIOUS
<1>3. /\ n \div 16 = (16 * j) \div 16 /\ n \div 32 = (16 * j) \div 32
      /\ n \div 64 = (16 * j) \div 64 /\ n \div 128 = (16 * j) \div 128
  OBVIOUS
<1> HIDE DEF n
<1>4. Bits(x) \subseteq 0..3 /\ Bits(16 * j) \subseteq 4..7
  BY BitsInside
<1>5. /\ 0 \in Bits(n) <=> 0 \in Bits(x)
      /\ 1 \in Bits(n) <=> 1 \in Bits(x)
      /\ 2 \in Bits(n) <=> 2 \in Bits(x)
      /\ 3 \in Bits(n) <=> 3 \in Bits(x)
  BY <1>1, <1>2, InBits
<1>6. /\ 4 \in Bits(n) <=> 4 \in Bits(16 * j)
      /\ 5 \in Bits(n) <=> 5 \in Bits(16 * j)
      /\ 6 \in Bits(n) <=> 6 \in Bits(16 * j)
      /\ 7 \in Bits(n) <=> 7 \in Bits(16 * j)
  BY <1>1, <1>3, InBits
<1>7. Bits(n) \subseteq 0..7
  BY <1>1, BitsInside
<1>8. ASSUME NEW i \in 0..7 PROVE i \in Bits(n) <=> i \in Bits(x) \cup Bits(16 * j)
  BY <1>4, <1>5, <1>6
<1>9. Bits(x) \cup Bits(16 * j) \subseteq 0..7
  BY <1>4
<1> QED
  BY <1>7, <1>8, <1>9 DEF n

LEMMA LimitedInside == \A a \in Int : Limited(a) \in -7..8 /\ AdjToReg(Limited(a)) \in 0..15
  BY DEF Limited, AdjToReg

LEMMA SetAdjustHEffect ==
  ASSUME NEW t, StateType(t), Agree(t), NEW a \in Int
  PROVE  /\ Effect(t, SetAdjustH(t, a), {"adjust_h"}, 18, 0..3)
         /\ Right("adjust", t.g) => Right("adjust", SetAdjustH(t, a).g)
<1> DEFINE u == SetAdjustH(t, a)
           n == Limited(a)
           x == AdjToReg(n)
           j == AdjToReg(t.g["adjust_v"])
           z == AdjToReg(t.g["adjust_h"])
<1>1. n \in -7..8 /\ x \in 0..15
  BY LimitedInside
<1>2. t.g["adjust_v"] \in -7..8 /\ t.g["adjust_h"] \in -7..8
  BY DEF StateType, GrpType, GrpFields, KindOf
<1>3. j \in 0..15 /\ z \in 0..15
  BY <1>2 DEF AdjToReg
<1>4. u = Setter(t, "adjust_h", n, 18, 0..3, Bits(x))
  BY Zenon DEF SetAdjustH, Setter
<1> HIDE DEF u, n
<1>5. Fit("adjust_h", n, 18, 0..3, Bits(x))
  BY <1>1, SomePresent, BitsInside DEF Fit, GrpFields, KindOf
<1>6. Done(t, u, "adjust_h", n, 18, 0..3, Bits(x))
  BY <1>4, <1>5, SetterEffect
<1>7. /\ Effect(t, u, {"adjust_h"}, 18, 0..3) /\ u.g["adjust_h"] = n
      /\ u.g.reg_shadow[18] \cap (0..3) = Bits(x)
  BY <1>6, Zenon DEF Done
<1>8. ASSUME Right("adjust", t.g) PROVE Right("adjust", u.g)
  <2>1. u.g["adjust_v"] = t.g["adjust_v"] /\ u.g.reg_shadow[18] \ (0..3) = t.g.reg_shadow[18] \ (0..3)
    BY <1>7 DEF Effect, GrpFields
  <2>2. t.g.reg_shadow[18] = Bits(z + 16 * j)
    BY <1>8 DEF Right, AdjustRight
  <2> HIDE DEF x, j, z
  <2>3. Bits(z + 16 * j) = Bits(z) \cup Bits(16 * j) /\ Bits(x + 16 * j) = Bits(x) \cup Bits(16 * j)
    BY <1>1, <1>3, BitsSum
  <2>4. Bits(z) \subseteq 0..3 /\ Bits(x) \subseteq 0..3 /\ Bits(16 * j) \subseteq 4..7
    BY <1>1, <1>3, BitsInside
  <2>5. (4..7) \cap (0..3) = {}
    OBVIOUS
  <2>6. u.g.reg_shadow[18] = Bits(x + 16 * j)
    <3>1. u.g.reg_shadow[18] \ (0..3) = Bits(16 * j)
      <4>1. (Bits(z) \cup Bits(16 * j)) \ (0..3) = Bits(16 * j)
        BY <2>4, <2>5
      <4>2. t.g.reg_shadow[18] = Bits(z) \cup Bits(16 * j)
        BY <2>2, <2>3
      <4> QED
        BY <2>1, <4>1, <4>2
    <3>2. u.g.reg_shadow[18] = Bits(x) \cup Bits(16 * j)
      BY <1>7, <3>1
    <3> QED
      BY <2>3, <3>2
  <2>7. AdjustRight(u.g)
    BY <1>7, <2>1, <2>6 DEF AdjustRight, x, j
  <2> QED
    BY <2>7 DEF Right
<1> QED
  BY <1>7, <1>8 DEF u

LEMMA SetAdjustVEffect ==
  ASSUME NEW t, StateType(t), Agree(t), NEW a \in Int
  PROVE  /\ Effect(t, SetAdjustV(t, a), {"adjust_v"}, 18, 4..7)
         /\ Right("adjust", t.g) => Right("adjust", SetAdjustV(t, a).g)
<1> DEFINE u == SetAdjustV(t, a)
           n == Limited(a)
           x == AdjToReg(t.g["adjust_h"])
           j == AdjToReg(n)
           z == AdjToReg(t.g["adjust_v"])
<1>1. n \in -7..8 /\ j \in 0..15
  BY LimitedInside
<1>2. t.g["adjust_v"] \in -7..8 /\ t.g["adjust_h"] \in -7..8
  BY DEF StateType, GrpType, GrpFields, KindOf
<1>3. x \in 0..15 /\ z \in 0..15
  BY <1>2 DEF AdjToReg
<1>4. u = Setter(t, "adjust_v", n, 18, 4..7, Bits(16 * j))
  BY Zenon DEF SetAdjustV, Setter
<1> HIDE DEF u, n
<1>5. Fit("adjust_v", n, 18, 4..7, Bits(16 * j))
  BY <1>1, SomePresent, BitsInside DEF Fit, GrpFields, KindOf
<1>6. Done(t, u, "adjust_v", n, 18, 4..7, Bits(16 * j))
  BY <1>4, <1>5, SetterEffect
<1>7. /\ Effect(t, u, {"adjust_v"}, 18, 4..7) /\ u.g["adjust_v"] = n
      /\ u.g.reg_shadow[18] \cap (4..7) = Bits(16 * j)
  BY <1>6, Zenon DEF Done
<1>8. ASSUME Right("adjust", t.g) PROVE Right("adjust", u.g)
  <2>1. u.g["adjust_h"] = t.g["adjust_h"] /\ u.g.reg_shadow[18] \ (4..7) = t.g.reg_shadow[18] \ (4..7)
    BY <1>7 DEF Effect, GrpFields
  <2>2. t.g.reg_shadow[18] = Bits(x + 16 * z)
    BY <1>8 DEF Right, AdjustRight
  <2> HIDE DEF x, j, z
  <2>3. Bits(x + 16 * z) = Bits(x) \cup Bits(16 * z) /\ Bits(x + 16 * j) = Bits(x) \cup Bits(16 * j)
    BY <1>1, <1>3, BitsSum
  <2>4. Bits(x) \subseteq 0..3 /\ Bits(16 * j) \subseteq 4..7 /\ Bits(16 * z) \subseteq 4..7
    BY <1>1, <1>3, BitsInside
  <2>5. (4..7) \cap (0..3) = {}
    OBVIOUS
  <2>6. u.g.reg_shadow[18] = Bits(x + 16 * j)
    <3>1. u.g.reg_shadow[18] \ (4..7) = Bits(x)
      <4>1. (Bits(16 * z) \cup Bits(x)) \ (4..7) = Bits(x)
        BY <2>4, <2>5
      <4>2. t.g.reg_shadow[18] = Bits(16 * z) \cup Bits(x)
        BY <2>2, <2>3
      <4> QED
        BY <2>1, <4>1, <4>2
    <3>2. u.g.reg_shadow[18] = Bits(16 * j) \cup Bits(x)
      BY <1>7, <3>1
    <3> QED
      BY <2>3, <3>2
  <2>7. AdjustRight(u.g)
    BY <1>7, <2>1, <2>6 DEF AdjustRight, x, j
  <2> QED
    BY <2>7 DEF Right
<1> QED
  BY <1>7, <1>8 DEF u

(* Two registers: what either leaves alone both do.                        *)
LEMMA EffectKept ==
  ASSUME NEW t, StateType(t), NEW u, NEW F, NEW no \in Reg, NEW M, Effect(t, u, F, no, M), NEW D \in SUBSET Concerns,
         \A c \in D : Right(c, t.g) /\ Apart(c, F, no, M)
  PROVE  Holds(D, u.g)
  BY Kept DEF Holds

(* A scroll is eights of dots, rounded up, less the dots too many.         *)
Eights(h) == IF h % 8 # 0 THEN ((h \div 8) % 64) + 1 ELSE (h \div 8) % 64
Dots(h) == (8 - (h % 8)) % 8
SumsTo(n, d, h) == n \in 0..64 /\ d \in 0..7 /\ (8 * n - d) % 512 = h % 512

LEMMA ScrollSum ==
  ASSUME NEW h \in Nat
  PROVE  SumsTo(Eights(h), Dots(h), h)
<1> DEFINE q == h \div 512
           r26 == (h \div 8) % 64
           r27 == h % 8
<1>1. h = 512 * q + 8 * r26 + r27 /\ q \in Nat /\ r26 \in 0..63 /\ r27 \in 0..7
  OBVIOUS
<1>2. h % 512 = 8 * r26 + r27
  BY <1>1
<1>3. Eights(h) = (IF r27 # 0 THEN r26 + 1 ELSE r26) /\ Dots(h) = (8 - r27) % 8
  BY DEF Eights, Dots
<1> HIDE DEF q, r26, r27
<1>4. CASE r27 = 0
  <2>1. Eights(h) = r26 /\ Dots(h) = 0
    BY <1>3, <1>4
  <2> QED
    BY <1>1, <1>2, <1>4, <2>1 DEF SumsTo
<1>5. CASE r27 # 0
  <2>1. Dots(h) = 8 - r27 /\ Eights(h) = r26 + 1
    BY <1>1, <1>3, <1>5
  <2>2. (8 * r26 + r27) % 512 = 8 * r26 + r27
    BY <1>1
  <2> QED
    BY <1>1, <1>2, <1>5, <2>1, <2>2 DEF SumsTo
<1> QED
  BY <1>4, <1>5

LEMMA SetScrollHEffect ==
  ASSUME NEW t, StateType(t), Agree(t), NEW h \in Nat
  PROVE  /\ \E w : Effect(t, w, {"scroll_h"}, 26, 0..7) /\ Effect(w, SetScrollH(t, h), {}, 27, 0..7)
         /\ Right("scroll_h", SetScrollH(t, h).g)
<1> DEFINE u == SetScrollH(t, h)
           n == Eights(h)
           d == Dots(h)
<1>1. "scroll_h" \in GrpFields \ {"reg_shadow"} /\ h \in KindOf("scroll_h")
  BY DEF GrpFields, KindOf
<1>0. SumsTo(n, d, h)
  BY ScrollSum
<1> HIDE DEF n, d
<1>2. n \in 0..64 /\ d \in 0..7 /\ (8 * n - d) % 512 = h % 512
  BY <1>0 DEF SumsTo
<1>3. CASE v9958
  <2> DEFINE w == Setter(t, "scroll_h", h, 26, 0..7, Bits(n))
  <2>1. u = Update(w, 27, 0..7, Bits(d))
    BY <1>3, Zenon DEF SetScrollH, Setter, n, d, Eights, Dots
  <2> HIDE DEF u
  <2>2. Fit("scroll_h", h, 26, 0..7, Bits(n)) /\ PlainFit(27, 0..7, Bits(d))
    <3>1. 26 \in Present /\ 27 \in Present
      BY <1>3, SomePresent
    <3>2. Bits(n) \subseteq 0..7 /\ Bits(d) \subseteq 0..7
      BY <1>2, BitsInside
    <3> QED
      BY <1>1, <3>1, <3>2 DEF Fit, PlainFit
  <2>3. Done(t, w, "scroll_h", h, 26, 0..7, Bits(n))
    BY <2>2, SetterEffect
  <2> HIDE DEF w
  <2>4. Effect(t, w, {"scroll_h"}, 26, 0..7) /\ w.g["scroll_h"] = h /\ w.g.reg_shadow[26] \cap (0..7) = Bits(n)
    BY <2>3, Zenon DEF Done
  <2>5. StateType(w) /\ Agree(w)
    BY <2>4 DEF Effect
  <2>6. Effect(w, u, {}, 27, 0..7) /\ u.g.reg_shadow[27] \cap (0..7) = Bits(d)
    BY <2>1, <2>2, <2>5, PlainEffect
  <2>7. u.g["scroll_h"] = h
    BY <2>4, <2>6 DEF Effect, GrpFields
  <2>8. u.g.reg_shadow[26] = w.g.reg_shadow[26]
    BY <2>6 DEF Effect, Reg
  <2>9. u.g.reg_shadow \in RegFile
    BY <2>6 DEF Effect, StateType, GrpType, GrpFields, KindOf
  <2>10. u.g.reg_shadow[26] \subseteq 0..7 /\ u.g.reg_shadow[27] \subseteq 0..7
    BY <2>9 DEF RegFile, Reg
  <2>11. u.g.reg_shadow[26] = Bits(n) /\ u.g.reg_shadow[27] = Bits(d)
    BY <2>4, <2>6, <2>8, <2>10
  <2>12. Num(Bits(n)) = n /\ Num(Bits(d)) = d
    <3>1. n \in 0..255 /\ d \in 0..255
      BY <1>2
    <3> QED
      BY <3>1, NumOfBits
  <2>13. ScrollHRight(u.g)
    BY <1>2, <2>7, <2>11, <2>12 DEF ScrollHRight
  <2>14. Right("scroll_h", u.g)
    BY <2>13 DEF Right
  <2> QED
    BY <2>4, <2>6, <2>14 DEF u
<1>4. CASE ~v9958
  <2>1. u = Assign(t, "scroll_h", h)
    BY <1>4, Zenon DEF SetScrollH, Assign
  <2> HIDE DEF u
  <2>2. Effect(t, u, {"scroll_h"}, 26, 0..7)
    BY <2>1, <1>1, FieldEffect
  <2>3. Effect(u, u, {}, 27, 0..7)
    BY <2>2 DEF Effect
  <2>4. Right("scroll_h", u.g)
    BY <1>4 DEF Right, ScrollHRight
  <2> QED
    BY <2>2, <2>3, <2>4 DEF u
<1> QED
  BY <1>3, <1>4

(***************************************************************************)
(* bl_grp_set_screen_mode: x is reached from t, and D settled in it.       *)
(***************************************************************************)
Enables(t) == <<t.hw[0] \cap {4}, t.hw[1] \cap {5, 6}>>

Stage(t, x, mode, D) ==
  /\ StateType(x) /\ Agree(x) /\ x.g["screen_mode"] = mode
  /\ D \in SUBSET Concerns /\ Holds(D, x.g) /\ Enables(x) = Enables(t)

(* Neither the mode nor an enable bit is among what is set.                *)
Harmless(F, no, M) ==
  /\ "screen_mode" \notin F /\ no \in Reg
  /\ no = 0 => 4 \notin M
  /\ no = 1 => M \cap {5, 6} = {}

LEMMA EnablesSame ==
  ASSUME NEW t, NEW u, NEW F, NEW no, NEW M, Effect(t, u, F, no, M), Harmless(F, no, M)
  PROVE  Enables(u) = Enables(t)
<1>1. u.hw[0] \cap {4} = t.hw[0] \cap {4}
  BY DEF Effect, Harmless, Reg
<1>2. u.hw[1] \cap {5, 6} = t.hw[1] \cap {5, 6}
  BY DEF Effect, Harmless, Reg
<1> QED
  BY <1>1, <1>2 DEF Enables

(* What stays right, and what a call made right.                           *)
Settles(D, E, F, no, M, g) == E \in SUBSET Concerns /\ \A c \in E : (c \in D /\ Apart(c, F, no, M)) \/ Right(c, g)

LEMMA StageStep ==
  ASSUME NEW t, NEW w, NEW u, NEW mode, NEW D, NEW E, NEW F, NEW no, NEW M,
         Stage(t, w, mode, D), Effect(w, u, F, no, M), Harmless(F, no, M), Settles(D, E, F, no, M, u.g)
  PROVE  Stage(t, u, mode, E)
<1>1. Enables(u) = Enables(w)
  BY EnablesSame
<1>2. u.g["screen_mode"] = mode
  BY DEF Effect, Harmless, Stage, GrpFields
<1>3. Holds(E, u.g)
  <2> SUFFICES ASSUME NEW c \in E PROVE Right(c, u.g)
    BY DEF Holds
  <2>1. CASE Right(c, u.g)
    BY <2>1
  <2>2. CASE c \in D /\ Apart(c, F, no, M)
    <3>1. c \in Concerns /\ Right(c, w.g) /\ StateType(w) /\ no \in Reg
      BY <2>2 DEF Stage, Holds, Harmless
    <3> QED
      BY <2>2, <3>1, Kept
  <2> QED
    BY <2>1, <2>2 DEF Settles
<1> QED
  BY <1>1, <1>2, <1>3 DEF Stage, Settles, Effect

(* All a mode leaves of the other settings is set again, in this order;    *)
(* nothing is undone by what is set after it.                              *)
LEMMA SetScreenModeEffect ==
  ASSUME NEW t, StateType(t), Agree(t), Right("adjust", t.g), NEW mode \in 0..9
  PROVE  Stage(t, SetScreenMode(t, mode), mode, Concerns)
<1> DEFINE a == Assign(t, "screen_mode", mode)
           b0 == Update(a, 0, {1, 2, 3}, ModeBits[mode + 1])
           b == Update(b0, 1, {3, 4}, TextBits[mode + 1])
           c0 == SetYaeYjkMode(b, b.g.yae_yjk_mode)
           c == SetColorBorder(c0, b.g.color_border)
           d == Update(c, 2, 0..5, Bits(NameBits[mode + 1]))
           e0 == SetSpriteMode(d, d.g.sprite_mode)
           e == SetSpriteOn(e0, d.g.sprite_on)
           f0 == SetPalette0On(e, e.g.palette0_on)
           f == SetLine212(f0, e.g.line_212)
           h0 == SetDisplayMode(f, f.g.display_mode)
           h == SetScrollMode(h0, f.g.scroll_mode)
           i0 == SetScrollH(h, h.g.scroll_h)
           i == SetScrollV(i0, h.g.scroll_v)
           v == SetView(i, 0)
           u == SetActive(v, 0)
           D1 == {"adjust"}
           D2 == D1 \cup {"mode"}
           D3 == D2 \cup {"yjk"}
           D4 == D3 \cup {"sprite_mode"}
           D5 == D4 \cup {"sprite_on"}
           D6 == D5 \cup {"palette0"}
           D7 == D6 \cup {"lines"}
           D8 == D7 \cup {"display"}
           D9 == D8 \cup {"scroll_mode"}
           D10 == D9 \cup {"scroll_h"}
           D11 == D10 \cup {"scroll_v"}
           D12 == D11 \cup {"view"}
           D13 == D12 \cup {"active", "address"}
<1>1. SetScreenMode(t, mode) = u
  BY ZenonT(60) DEF SetScreenMode, Assign
<1> HIDE DEF a, b0, b, c0, c, d, e0, e, f0, f, h0, h, i0, i, v, u
<1>2. ModeBits[mode + 1] \in SUBSET {1, 2, 3} /\ TextBits[mode + 1] \in SUBSET {3, 4} /\ NameBits[mode + 1] \in 0..31
  <2>1. mode \in {0, 1, 2, 3, 4, 5, 6, 7, 8, 9}
    OBVIOUS
  <2> QED
    BY <2>1 DEF ModeBits, TextBits, NameBits
<1>3. /\ Effect(t, a, {"screen_mode"}, 0, {1, 2, 3}) /\ a.g["screen_mode"] = mode
      /\ a.g.reg_shadow = t.g.reg_shadow
  <2>1. "screen_mode" \in GrpFields \ {"reg_shadow"} /\ mode \in KindOf("screen_mode")
    BY DEF GrpFields, KindOf
  <2> QED
    BY <2>1, FieldEffect DEF a
<1>4. Right("adjust", a.g)
  <2>1. a.g["adjust_h"] = t.g["adjust_h"] /\ a.g["adjust_v"] = t.g["adjust_v"]
    BY <1>3 DEF Effect, GrpFields
  <2> QED
    BY <1>3, <2>1 DEF Right, AdjustRight
<1>5. StateType(a) /\ Agree(a) /\ Enables(a) = Enables(t)
  <2>1. \A r \in Reg \ {0} : a.hw[r] = t.hw[r]
    BY <1>3 DEF Effect
  <2>2. a.hw[0] \ {1, 2, 3} = t.hw[0] \ {1, 2, 3}
    BY <1>3 DEF Effect
  <2>3. a.hw[0] \cap {4} = t.hw[0] \cap {4} /\ a.hw[1] = t.hw[1]
    BY <2>1, <2>2 DEF Reg
  <2> QED
    BY <1>3, <2>3 DEF Effect, Enables
<1>6. Stage(t, a, mode, D1)
  BY <1>3, <1>4, <1>5 DEF Stage, Holds, Concerns
<1>7. Effect(a, b0, {}, 0, {1, 2, 3}) /\ b0.g.reg_shadow[0] \cap {1, 2, 3} = ModeBits[mode + 1]
  <2>1. PlainFit(0, {1, 2, 3}, ModeBits[mode + 1])
    BY <1>2, SomePresent DEF PlainFit
  <2> QED
    BY <1>5, <2>1, PlainEffect DEF b0
<1>8. Stage(t, b0, mode, D1)
  <2>1. Harmless({}, 0, {1, 2, 3})
    BY DEF Harmless, Reg
  <2>2. Settles(D1, D1, {}, 0, {1, 2, 3}, b0.g)
    BY DEF Settles, Apart, FieldsOf, BitsOf, Concerns
  <2> QED
    BY <1>6, <1>7, <2>1, <2>2, StageStep
<1>9. Effect(b0, b, {}, 1, {3, 4}) /\ b.g.reg_shadow[1] \cap {3, 4} = TextBits[mode + 1]
  <2>1. PlainFit(1, {3, 4}, TextBits[mode + 1])
    BY <1>2, SomePresent DEF PlainFit
  <2>2. StateType(b0) /\ Agree(b0)
    BY <1>8 DEF Stage
  <2> QED
    BY <2>1, <2>2, PlainEffect DEF b
<1>10. Stage(t, b, mode, D2)
  <2>1. Harmless({}, 1, {3, 4})
    BY DEF Harmless, Reg
  <2>2. b.g["screen_mode"] = mode /\ b.g.reg_shadow[0] = b0.g.reg_shadow[0]
    BY <1>8, <1>9 DEF Effect, Stage, GrpFields, Reg
  <2>3. Right("mode", b.g)
    BY <1>7, <1>9, <2>2 DEF Right, ModeRight, NoMode
  <2>4. Settles(D1, D2, {}, 1, {3, 4}, b.g)
    BY <2>3 DEF Settles, Apart, FieldsOf, BitsOf, Concerns
  <2> QED
    BY <1>8, <1>9, <2>1, <2>4, StageStep
<1>11. Stage(t, c0, mode, D3)
  <2>1. StateType(b) /\ Agree(b) /\ b.g["screen_mode"] = mode
    BY <1>10 DEF Stage
  <2>2. b.g["yae_yjk_mode"] \in SUBSET {3, 4}
    BY <1>10 DEF Stage, StateType, GrpType, GrpFields, KindOf
  <2>3. Effect(b, c0, {"yae_yjk_mode"}, 25, {3, 4}) /\ Right("yjk", c0.g)
    BY <2>1, <2>2, SetYaeYjkModeEffect DEF c0
  <2>4. Harmless({"yae_yjk_mode"}, 25, {3, 4})
    BY DEF Harmless, Reg
  <2>5. Settles(D2, D3, {"yae_yjk_mode"}, 25, {3, 4}, c0.g)
    BY <2>3 DEF Settles, Apart, FieldsOf, BitsOf, Concerns, DispMask
  <2> QED
    BY <1>10, <2>3, <2>4, <2>5, StageStep
<1>12. Stage(t, c, mode, D3)
  <2>1. StateType(c0) /\ Agree(c0) /\ c0.g["screen_mode"] = mode
    BY <1>11 DEF Stage
  <2>2. b.g["color_border"] \in 0..255
    BY <1>10 DEF Stage, StateType, GrpType, GrpFields, KindOf
  <2>3. Effect(c0, c, {"color_border"}, 7, 0..7)
    BY <2>1, <2>2, SetColorBorderEffect DEF c
  <2>4. Harmless({"color_border"}, 7, 0..7)
    BY DEF Harmless, Reg
  <2>5. Settles(D3, D3, {"color_border"}, 7, 0..7, c.g)
    BY <2>3 DEF Settles, Apart, FieldsOf, BitsOf, Concerns, DispMask
  <2> QED
    BY <1>11, <2>3, <2>4, <2>5, StageStep
<1>13. Stage(t, d, mode, D3)
  <2>1. StateType(c) /\ Agree(c) /\ c.g["screen_mode"] = mode
    BY <1>12 DEF Stage
  <2>2. PlainFit(2, 0..5, Bits(NameBits[mode + 1]))
    BY <1>2, BitsInside, SomePresent DEF PlainFit
  <2>3. Effect(c, d, {}, 2, 0..5)
    BY <2>1, <2>2, PlainEffect DEF d
  <2>4. Harmless({}, 2, 0..5)
    BY DEF Harmless, Reg
  <2>5. Settles(D3, D3, {}, 2, 0..5, d.g)
    BY <2>3 DEF Settles, Apart, FieldsOf, BitsOf, Concerns, DispMask
  <2> QED
    BY <1>12, <2>3, <2>4, <2>5, StageStep
<1>14. Stage(t, e0, mode, D4)
  <2>1. StateType(d) /\ Agree(d) /\ d.g["screen_mode"] = mode
    BY <1>13 DEF Stage
  <2>2. d.g["sprite_mode"] \in SUBSET {0, 1}
    BY <1>13 DEF Stage, StateType, GrpType, GrpFields, KindOf
  <2>3. Effect(d, e0, {"sprite_mode"}, 1, {0, 1}) /\ Right("sprite_mode", e0.g)
    BY <2>1, <2>2, SetSpriteModeEffect DEF e0
  <2>4. Harmless({"sprite_mode"}, 1, {0, 1})
    BY DEF Harmless, Reg
  <2>5. Settles(D3, D4, {"sprite_mode"}, 1, {0, 1}, e0.g)
    BY <2>3 DEF Settles, Apart, FieldsOf, BitsOf, Concerns, DispMask
  <2> QED
    BY <1>13, <2>3, <2>4, <2>5, StageStep
<1>15. Stage(t, e, mode, D5)
  <2>1. StateType(e0) /\ Agree(e0) /\ e0.g["screen_mode"] = mode
    BY <1>14 DEF Stage
  <2>2. d.g["sprite_on"] \in BOOLEAN
    BY <1>13 DEF Stage, StateType, GrpType, GrpFields, KindOf
  <2>3. Effect(e0, e, {"sprite_on"}, 8, {1}) /\ Right("sprite_on", e.g)
    BY <2>1, <2>2, SetSpriteOnEffect DEF e
  <2>4. Harmless({"sprite_on"}, 8, {1})
    BY DEF Harmless, Reg
  <2>5. Settles(D4, D5, {"sprite_on"}, 8, {1}, e.g)
    BY <2>3 DEF Settles, Apart, FieldsOf, BitsOf, Concerns, DispMask
  <2> QED
    BY <1>14, <2>3, <2>4, <2>5, StageStep
<1>16. Stage(t, f0, mode, D6)
  <2>1. StateType(e) /\ Agree(e) /\ e.g["screen_mode"] = mode
    BY <1>15 DEF Stage
  <2>2. e.g["palette0_on"] \in BOOLEAN
    BY <1>15 DEF Stage, StateType, GrpType, GrpFields, KindOf
  <2>3. Effect(e, f0, {"palette0_on"}, 8, {5}) /\ Right("palette0", f0.g)
    BY <2>1, <2>2, SetPalette0OnEffect DEF f0
  <2>4. Harmless({"palette0_on"}, 8, {5})
    BY DEF Harmless, Reg
  <2>5. Settles(D5, D6, {"palette0_on"}, 8, {5}, f0.g)
    BY <2>3 DEF Settles, Apart, FieldsOf, BitsOf, Concerns, DispMask
  <2> QED
    BY <1>15, <2>3, <2>4, <2>5, StageStep
<1>17. Stage(t, f, mode, D7)
  <2>1. StateType(f0) /\ Agree(f0) /\ f0.g["screen_mode"] = mode
    BY <1>16 DEF Stage
  <2>2. e.g["line_212"] \in BOOLEAN
    BY <1>15 DEF Stage, StateType, GrpType, GrpFields, KindOf
  <2>3. Effect(f0, f, {"line_212", "height"}, 9, {7}) /\ Right("lines", f.g)
    BY <2>1, <2>2, SetLine212Effect DEF f
  <2>4. Harmless({"line_212", "height"}, 9, {7})
    BY DEF Harmless, Reg
  <2>5. Settles(D6, D7, {"line_212", "height"}, 9, {7}, f.g)
    BY <2>3 DEF Settles, Apart, FieldsOf, BitsOf, Concerns, DispMask
  <2> QED
    BY <1>16, <2>3, <2>4, <2>5, StageStep
<1>18. Stage(t, h0, mode, D8)
  <2>1. StateType(f) /\ Agree(f) /\ f.g["screen_mode"] = mode
    BY <1>17 DEF Stage
  <2>2. f.g["display_mode"] \in SUBSET DispMask
    BY <1>17 DEF Stage, StateType, GrpType, GrpFields, KindOf
  <2>3. Effect(f, h0, {"display_mode", "interlace_on", "vsync_50hz"}, 9, DispMask) /\ Right("display", h0.g)
    BY <2>1, <2>2, SetDisplayModeEffect DEF h0
  <2>4. Harmless({"display_mode", "interlace_on", "vsync_50hz"}, 9, DispMask)
    BY DEF Harmless, Reg
  <2>5. Settles(D7, D8, {"display_mode", "interlace_on", "vsync_50hz"}, 9, DispMask, h0.g)
    BY <2>3 DEF Settles, Apart, FieldsOf, BitsOf, Concerns, DispMask
  <2> QED
    BY <1>17, <2>3, <2>4, <2>5, StageStep
<1>19. Stage(t, h, mode, D9)
  <2>1. StateType(h0) /\ Agree(h0) /\ h0.g["screen_mode"] = mode
    BY <1>18 DEF Stage
  <2>2. f.g["scroll_mode"] \in SUBSET {0, 1}
    BY <1>17 DEF Stage, StateType, GrpType, GrpFields, KindOf
  <2>3. Effect(h0, h, {"scroll_mode"}, 25, {0, 1}) /\ Right("scroll_mode", h.g)
    BY <2>1, <2>2, SetScrollModeEffect DEF h
  <2>4. Harmless({"scroll_mode"}, 25, {0, 1})
    BY DEF Harmless, Reg
  <2>5. Settles(D8, D9, {"scroll_mode"}, 25, {0, 1}, h.g)
    BY <2>3 DEF Settles, Apart, FieldsOf, BitsOf, Concerns, DispMask
  <2> QED
    BY <1>18, <2>3, <2>4, <2>5, StageStep
<1>20. Stage(t, i0, mode, D10)
  <2>1. StateType(h) /\ Agree(h) /\ h.g["screen_mode"] = mode
    BY <1>19 DEF Stage
  <2>2. h.g["scroll_h"] \in Nat
    BY <1>19 DEF Stage, StateType, GrpType, GrpFields, KindOf
  <2>3. /\ \E w : Effect(h, w, {"scroll_h"}, 26, 0..7) /\ Effect(w, i0, {}, 27, 0..7)
        /\ Right("scroll_h", i0.g)
    BY <2>1, <2>2, SetScrollHEffect DEF i0
  <2>4. PICK w : Effect(h, w, {"scroll_h"}, 26, 0..7) /\ Effect(w, i0, {}, 27, 0..7)
    BY <2>3
  <2>5. Harmless({"scroll_h"}, 26, 0..7) /\ Harmless({}, 27, 0..7)
    BY DEF Harmless, Reg
  <2>6. Settles(D9, D9, {"scroll_h"}, 26, 0..7, w.g)
    BY DEF Settles, Apart, FieldsOf, BitsOf, Concerns
  <2>7. Stage(t, w, mode, D9)
    BY <1>19, <2>4, <2>5, <2>6, StageStep
  <2>8. Settles(D9, D10, {}, 27, 0..7, i0.g)
    BY <2>3 DEF Settles, Apart, FieldsOf, BitsOf, Concerns
  <2> QED
    BY <2>4, <2>5, <2>7, <2>8, StageStep
<1>21. Stage(t, i, mode, D11)
  <2>1. StateType(i0) /\ Agree(i0) /\ i0.g["screen_mode"] = mode
    BY <1>20 DEF Stage
  <2>2. h.g["scroll_v"] \in 0..255
    BY <1>19 DEF Stage, StateType, GrpType, GrpFields, KindOf
  <2>3. Effect(i0, i, {"scroll_v"}, 23, 0..7) /\ Right("scroll_v", i.g)
    BY <2>1, <2>2, SetScrollVEffect DEF i
  <2>4. Harmless({"scroll_v"}, 23, 0..7)
    BY DEF Harmless, Reg
  <2>5. Settles(D10, D11, {"scroll_v"}, 23, 0..7, i.g)
    BY <2>3 DEF Settles, Apart, FieldsOf, BitsOf, Concerns, DispMask
  <2> QED
    BY <1>20, <2>3, <2>4, <2>5, StageStep
<1>22. Stage(t, v, mode, D12)
  <2>1. StateType(i) /\ Agree(i) /\ i.g["screen_mode"] = mode
    BY <1>21 DEF Stage
  <2>3. Effect(i, v, {"view_page"}, 2, {5, 6}) /\ Right("view", v.g)
    BY <2>1, SetViewEffect DEF v
  <2>4. Harmless({"view_page"}, 2, {5, 6})
    BY DEF Harmless, Reg
  <2>5. Settles(D11, D12, {"view_page"}, 2, {5, 6}, v.g)
    BY <2>3 DEF Settles, Apart, FieldsOf, BitsOf, Concerns, DispMask
  <2> QED
    BY <1>21, <2>3, <2>4, <2>5, StageStep
<1>23. Stage(t, u, mode, D13)
  <2>1. StateType(v) /\ Agree(v) /\ v.g["screen_mode"] = mode
    BY <1>22 DEF Stage
  <2>2. v.g["view_page"] <= 1
    <3>1. v.g["view_page"] <= 0 /\ StateType(v)
      <4>1. StateType(i) /\ Agree(i)
        BY <1>21 DEF Stage
      <4>2. 0 \in 0..3
        OBVIOUS
      <4>3. SetView(i, 0).g.view_page <= 0
        BY <4>1, <4>2, SetViewEffect
      <4> QED
        BY <4>3, <2>1 DEF v
    <3>2. v.g["view_page"] \in 0..3
      BY <3>1 DEF StateType, GrpType, GrpFields, KindOf
    <3> QED
      BY <3>1, <3>2
  <2>3. /\ Effect(v, u, {"active_page", "active_page_a16_a14"}, 0, {})
        /\ Right("active", u.g) /\ Right("address", u.g)
    BY <2>1, <2>2, SetActiveEffect DEF u
  <2>4. Harmless({"active_page", "active_page_a16_a14"}, 0, {})
    BY DEF Harmless, Reg
  <2>5. Settles(D12, D13, {"active_page", "active_page_a16_a14"}, 0, {}, u.g)
    BY <2>3 DEF Settles, Apart, FieldsOf, BitsOf, Concerns, DispMask
  <2> QED
    BY <1>22, <2>3, <2>4, <2>5, StageStep
<1>24. D13 = Concerns
  BY DEF Concerns
<1> QED
  BY <1>1, <1>23, <1>24


(***************************************************************************)
(* The calls.  Enabling is what EnablesKept asks of a step.                *)
(***************************************************************************)
Enabling(u) ==
  \/ Enables(u) = Enables(s)
  \/ \E on \in BOOLEAN : u \in {SetIrqVblank(s, on), SetIrqHblank(s, on), SetDisplayOn(s, on)}

(* What stays settled when u is the state after a call.                    *)
Since(u) == IF u.g.interlace_on # s.g.interlace_on THEN {} ELSE fresh

Fine(u) ==
  StateType(u) /\ Agree(u) /\ Holds(Known(u.g.screen_mode, Since(u)), u.g) /\ Enabling(u)

(* A call whose fields and bits are those of the concerns own, or of none. *)
Alone(own, F, no, M) ==
  /\ F \cap {"screen_mode", "interlace_on"} = {} /\ no \in Reg
  /\ \A c \in Concerns \ own : Apart(c, F, no, M)

LEMMA KnownInside ==
  ASSUME NEW m, NEW since \in SUBSET {"view", "active"}
  PROVE  Known(m, since) \in SUBSET Concerns
  BY DEF Known, Concerns

LEMMA AloneFine ==
  ASSUME GrpInv, On, NEW u, NEW F, NEW no, NEW M, NEW own, Effect(s, u, F, no, M), Alone(own, F, no, M),
         \A c \in own \cap Known(s.g.screen_mode, fresh) : Right(c, u.g), Enabling(u)
  PROVE  Fine(u)
<1> DEFINE D == Known(s.g.screen_mode, fresh)
<1>1. StateType(s) /\ Holds(D, s.g) /\ D \in SUBSET Concerns
  BY KnownInside DEF GrpInv
<1>2. u.g.screen_mode = s.g.screen_mode /\ u.g.interlace_on = s.g.interlace_on
  BY DEF Effect, Alone, GrpFields
<1>3. Since(u) = fresh
  BY <1>2 DEF Since
<1> HIDE DEF D
<1>4. Holds(D, u.g)
  <2> SUFFICES ASSUME NEW c \in D PROVE Right(c, u.g)
    BY DEF Holds
  <2>1. c \in Concerns /\ Right(c, s.g) /\ no \in Reg
    BY <1>1 DEF Holds, Alone
  <2>2. CASE c \in own
    BY <2>2 DEF D
  <2>3. CASE c \notin own
    <3>1. Apart(c, F, no, M)
      BY <2>1, <2>3 DEF Alone
    <3> QED
      BY <2>1, <3>1, <1>1, Kept
  <2> QED
    BY <2>2, <2>3
<1>5. StateType(u) /\ Agree(u)
  BY DEF Effect
<1> QED
  BY <1>2, <1>3, <1>4, <1>5 DEF Fine, D

LEMMA HarmlessEnabling ==
  ASSUME NEW u, NEW F, NEW no, NEW M, Effect(s, u, F, no, M), Harmless(F, no, M)
  PROVE  Enabling(u)
  BY EnablesSame DEF Enabling

LEMMA SetIrqVblankFine ==
  ASSUME GrpInv, On, NEW on \in BOOLEAN
  PROVE  Fine(SetIrqVblank(s, on))
<1> DEFINE u == SetIrqVblank(s, on)
<1>1. StateType(s) /\ Agree(s) /\ Holds(Known(s.g.screen_mode, fresh), s.g)
  BY DEF GrpInv
<1>3. Effect(s, u, {}, 1, {5})
  BY <1>1, SetIrqVblankEffect
<1>4. Alone({}, {}, 1, {5})
  BY DEF Alone, Apart, Concerns, FieldsOf, BitsOf, Reg, DispMask
<1>5. Enabling(u)
  BY Zenon DEF Enabling
<1> HIDE DEF u
<1>6. Fine(u)
  BY <1>3, <1>4, <1>5, AloneFine
<1> QED
  BY <1>6 DEF u

LEMMA SetIrqHblankFine ==
  ASSUME GrpInv, On, NEW on \in BOOLEAN
  PROVE  Fine(SetIrqHblank(s, on))
<1> DEFINE u == SetIrqHblank(s, on)
<1>1. StateType(s) /\ Agree(s) /\ Holds(Known(s.g.screen_mode, fresh), s.g)
  BY DEF GrpInv
<1>3. Effect(s, u, {}, 0, {4})
  BY <1>1, SetIrqHblankEffect
<1>4. Alone({}, {}, 0, {4})
  BY DEF Alone, Apart, Concerns, FieldsOf, BitsOf, Reg, DispMask
<1>5. Enabling(u)
  BY Zenon DEF Enabling
<1> HIDE DEF u
<1>6. Fine(u)
  BY <1>3, <1>4, <1>5, AloneFine
<1> QED
  BY <1>6 DEF u

LEMMA SetDisplayOnFine ==
  ASSUME GrpInv, On, NEW on \in BOOLEAN
  PROVE  Fine(SetDisplayOn(s, on))
<1> DEFINE u == SetDisplayOn(s, on)
<1>1. StateType(s) /\ Agree(s) /\ Holds(Known(s.g.screen_mode, fresh), s.g)
  BY DEF GrpInv
<1>3. Effect(s, u, {"display_on"}, 1, {6})
  BY <1>1, SetDisplayOnEffect
<1>4. Alone({}, {"display_on"}, 1, {6})
  BY DEF Alone, Apart, Concerns, FieldsOf, BitsOf, Reg, DispMask
<1>5. Enabling(u)
  BY Zenon DEF Enabling
<1> HIDE DEF u
<1>6. Fine(u)
  BY <1>3, <1>4, <1>5, AloneFine
<1> QED
  BY <1>6 DEF u

LEMMA SetSpriteOnFine ==
  ASSUME GrpInv, On, NEW on \in BOOLEAN
  PROVE  Fine(SetSpriteOn(s, on))
<1> DEFINE u == SetSpriteOn(s, on)
<1>1. StateType(s) /\ Agree(s) /\ Holds(Known(s.g.screen_mode, fresh), s.g)
  BY DEF GrpInv
<1>3. Effect(s, u, {"sprite_on"}, 8, {1}) /\ Right("sprite_on", u.g)
  BY <1>1, SetSpriteOnEffect
<1>4. Alone({"sprite_on"}, {"sprite_on"}, 8, {1})
  BY DEF Alone, Apart, Concerns, FieldsOf, BitsOf, Reg, DispMask
<1> HIDE DEF u
<1>5. Enabling(u)
  <2>1. Harmless({"sprite_on"}, 8, {1})
    BY DEF Harmless, Reg, DispMask
  <2> QED
    BY <1>3, <2>1, HarmlessEnabling
<1>6. Fine(u)
  BY <1>3, <1>4, <1>5, AloneFine
<1> QED
  BY <1>6 DEF u

LEMMA SetPalette0OnFine ==
  ASSUME GrpInv, On, NEW on \in BOOLEAN
  PROVE  Fine(SetPalette0On(s, on))
<1> DEFINE u == SetPalette0On(s, on)
<1>1. StateType(s) /\ Agree(s) /\ Holds(Known(s.g.screen_mode, fresh), s.g)
  BY DEF GrpInv
<1>3. Effect(s, u, {"palette0_on"}, 8, {5}) /\ Right("palette0", u.g)
  BY <1>1, SetPalette0OnEffect
<1>4. Alone({"palette0"}, {"palette0_on"}, 8, {5})
  BY DEF Alone, Apart, Concerns, FieldsOf, BitsOf, Reg, DispMask
<1> HIDE DEF u
<1>5. Enabling(u)
  <2>1. Harmless({"palette0_on"}, 8, {5})
    BY DEF Harmless, Reg, DispMask
  <2> QED
    BY <1>3, <2>1, HarmlessEnabling
<1>6. Fine(u)
  BY <1>3, <1>4, <1>5, AloneFine
<1> QED
  BY <1>6 DEF u

LEMMA SetLine212Fine ==
  ASSUME GrpInv, On, NEW on \in BOOLEAN
  PROVE  Fine(SetLine212(s, on))
<1> DEFINE u == SetLine212(s, on)
<1>1. StateType(s) /\ Agree(s) /\ Holds(Known(s.g.screen_mode, fresh), s.g)
  BY DEF GrpInv
<1>3. Effect(s, u, {"line_212", "height"}, 9, {7}) /\ Right("lines", u.g)
  BY <1>1, SetLine212Effect
<1>4. Alone({"lines"}, {"line_212", "height"}, 9, {7})
  BY DEF Alone, Apart, Concerns, FieldsOf, BitsOf, Reg, DispMask
<1> HIDE DEF u
<1>5. Enabling(u)
  <2>1. Harmless({"line_212", "height"}, 9, {7})
    BY DEF Harmless, Reg, DispMask
  <2> QED
    BY <1>3, <2>1, HarmlessEnabling
<1>6. Fine(u)
  BY <1>3, <1>4, <1>5, AloneFine
<1> QED
  BY <1>6 DEF u

LEMMA SetVsync50HzFine ==
  ASSUME GrpInv, On, NEW on \in BOOLEAN
  PROVE  Fine(SetVsync50Hz(s, on))
<1> DEFINE u == SetVsync50Hz(s, on)
<1>1. StateType(s) /\ Agree(s) /\ Holds(Known(s.g.screen_mode, fresh), s.g)
  BY DEF GrpInv
<1>2. Right("display", s.g)
  BY <1>1 DEF Holds, Known
<1>3. Effect(s, u, {"display_mode"}, 9, DispMask) /\ Right("display", u.g)
  BY <1>1, <1>2, SetVsync50HzEffect
<1>4. Alone({"display"}, {"display_mode"}, 9, DispMask)
  BY DEF Alone, Apart, Concerns, FieldsOf, BitsOf, Reg, DispMask
<1> HIDE DEF u
<1>5. Enabling(u)
  <2>1. Harmless({"display_mode"}, 9, DispMask)
    BY DEF Harmless, Reg, DispMask
  <2> QED
    BY <1>3, <2>1, HarmlessEnabling
<1>6. Fine(u)
  BY <1>3, <1>4, <1>5, AloneFine
<1> QED
  BY <1>6 DEF u

LEMMA SetYaeYjkModeFine ==
  ASSUME GrpInv, On, NEW m \in SUBSET {3, 4}
  PROVE  Fine(SetYaeYjkMode(s, m))
<1> DEFINE u == SetYaeYjkMode(s, m)
<1>1. StateType(s) /\ Agree(s) /\ Holds(Known(s.g.screen_mode, fresh), s.g)
  BY DEF GrpInv
<1>3. Effect(s, u, {"yae_yjk_mode"}, 25, {3, 4}) /\ Right("yjk", u.g)
  BY <1>1, SetYaeYjkModeEffect
<1>4. Alone({"yjk"}, {"yae_yjk_mode"}, 25, {3, 4})
  BY DEF Alone, Apart, Concerns, FieldsOf, BitsOf, Reg, DispMask
<1> HIDE DEF u
<1>5. Enabling(u)
  <2>1. Harmless({"yae_yjk_mode"}, 25, {3, 4})
    BY DEF Harmless, Reg, DispMask
  <2> QED
    BY <1>3, <2>1, HarmlessEnabling
<1>6. Fine(u)
  BY <1>3, <1>4, <1>5, AloneFine
<1> QED
  BY <1>6 DEF u

LEMMA SetSpriteModeFine ==
  ASSUME GrpInv, On, NEW m \in SUBSET {0, 1}
  PROVE  Fine(SetSpriteMode(s, m))
<1> DEFINE u == SetSpriteMode(s, m)
<1>1. StateType(s) /\ Agree(s) /\ Holds(Known(s.g.screen_mode, fresh), s.g)
  BY DEF GrpInv
<1>3. Effect(s, u, {"sprite_mode"}, 1, {0, 1}) /\ Right("sprite_mode", u.g)
  BY <1>1, SetSpriteModeEffect
<1>4. Alone({"sprite_mode"}, {"sprite_mode"}, 1, {0, 1})
  BY DEF Alone, Apart, Concerns, FieldsOf, BitsOf, Reg, DispMask
<1> HIDE DEF u
<1>5. Enabling(u)
  <2>1. Harmless({"sprite_mode"}, 1, {0, 1})
    BY DEF Harmless, Reg, DispMask
  <2> QED
    BY <1>3, <2>1, HarmlessEnabling
<1>6. Fine(u)
  BY <1>3, <1>4, <1>5, AloneFine
<1> QED
  BY <1>6 DEF u

LEMMA SetScrollModeFine ==
  ASSUME GrpInv, On, NEW m \in SUBSET {0, 1}
  PROVE  Fine(SetScrollMode(s, m))
<1> DEFINE u == SetScrollMode(s, m)
<1>1. StateType(s) /\ Agree(s) /\ Holds(Known(s.g.screen_mode, fresh), s.g)
  BY DEF GrpInv
<1>3. Effect(s, u, {"scroll_mode"}, 25, {0, 1}) /\ Right("scroll_mode", u.g)
  BY <1>1, SetScrollModeEffect
<1>4. Alone({"scroll_mode"}, {"scroll_mode"}, 25, {0, 1})
  BY DEF Alone, Apart, Concerns, FieldsOf, BitsOf, Reg, DispMask
<1> HIDE DEF u
<1>5. Enabling(u)
  <2>1. Harmless({"scroll_mode"}, 25, {0, 1})
    BY DEF Harmless, Reg, DispMask
  <2> QED
    BY <1>3, <2>1, HarmlessEnabling
<1>6. Fine(u)
  BY <1>3, <1>4, <1>5, AloneFine
<1> QED
  BY <1>6 DEF u

LEMMA SetColorTextFgFine ==
  ASSUME GrpInv, On, NEW colour \in 0..255
  PROVE  Fine(SetColorTextFg(s, colour))
<1> DEFINE u == SetColorTextFg(s, colour)
<1>1. StateType(s) /\ Agree(s) /\ Holds(Known(s.g.screen_mode, fresh), s.g)
  BY DEF GrpInv
<1>3. Effect(s, u, {"color_text_fg"}, 7, 0..7)
  BY <1>1, SetColorTextFgEffect
<1>4. Alone({}, {"color_text_fg"}, 7, 0..7)
  BY DEF Alone, Apart, Concerns, FieldsOf, BitsOf, Reg, DispMask
<1> HIDE DEF u
<1>5. Enabling(u)
  <2>1. Harmless({"color_text_fg"}, 7, 0..7)
    BY DEF Harmless, Reg, DispMask
  <2> QED
    BY <1>3, <2>1, HarmlessEnabling
<1>6. Fine(u)
  BY <1>3, <1>4, <1>5, AloneFine
<1> QED
  BY <1>6 DEF u

LEMMA SetColorTextBgFine ==
  ASSUME GrpInv, On, NEW colour \in 0..255
  PROVE  Fine(SetColorTextBg(s, colour))
<1> DEFINE u == SetColorTextBg(s, colour)
<1>1. StateType(s) /\ Agree(s) /\ Holds(Known(s.g.screen_mode, fresh), s.g)
  BY DEF GrpInv
<1>3. Effect(s, u, {"color_text_bg"}, 7, 0..7)
  BY <1>1, SetColorTextBgEffect
<1>4. Alone({}, {"color_text_bg"}, 7, 0..7)
  BY DEF Alone, Apart, Concerns, FieldsOf, BitsOf, Reg, DispMask
<1> HIDE DEF u
<1>5. Enabling(u)
  <2>1. Harmless({"color_text_bg"}, 7, 0..7)
    BY DEF Harmless, Reg, DispMask
  <2> QED
    BY <1>3, <2>1, HarmlessEnabling
<1>6. Fine(u)
  BY <1>3, <1>4, <1>5, AloneFine
<1> QED
  BY <1>6 DEF u

LEMMA SetColorBorderFine ==
  ASSUME GrpInv, On, NEW colour \in 0..255
  PROVE  Fine(SetColorBorder(s, colour))
<1> DEFINE u == SetColorBorder(s, colour)
<1>1. StateType(s) /\ Agree(s) /\ Holds(Known(s.g.screen_mode, fresh), s.g)
  BY DEF GrpInv
<1>3. Effect(s, u, {"color_border"}, 7, 0..7)
  BY <1>1, SetColorBorderEffect
<1>4. Alone({}, {"color_border"}, 7, 0..7)
  BY DEF Alone, Apart, Concerns, FieldsOf, BitsOf, Reg, DispMask
<1> HIDE DEF u
<1>5. Enabling(u)
  <2>1. Harmless({"color_border"}, 7, 0..7)
    BY DEF Harmless, Reg, DispMask
  <2> QED
    BY <1>3, <2>1, HarmlessEnabling
<1>6. Fine(u)
  BY <1>3, <1>4, <1>5, AloneFine
<1> QED
  BY <1>6 DEF u

LEMMA SetAdjustHFine ==
  ASSUME GrpInv, On, NEW a \in Int
  PROVE  Fine(SetAdjustH(s, a))
<1> DEFINE u == SetAdjustH(s, a)
<1>1. StateType(s) /\ Agree(s) /\ Holds(Known(s.g.screen_mode, fresh), s.g)
  BY DEF GrpInv
<1>2. Right("adjust", s.g)
  BY <1>1 DEF Holds, Known
<1>3. Effect(s, u, {"adjust_h"}, 18, 0..3) /\ Right("adjust", u.g)
  BY <1>1, <1>2, SetAdjustHEffect
<1>4. Alone({"adjust"}, {"adjust_h"}, 18, 0..3)
  BY DEF Alone, Apart, Concerns, FieldsOf, BitsOf, Reg, DispMask
<1> HIDE DEF u
<1>5. Enabling(u)
  <2>1. Harmless({"adjust_h"}, 18, 0..3)
    BY DEF Harmless, Reg, DispMask
  <2> QED
    BY <1>3, <2>1, HarmlessEnabling
<1>6. Fine(u)
  BY <1>3, <1>4, <1>5, AloneFine
<1> QED
  BY <1>6 DEF u

LEMMA SetAdjustVFine ==
  ASSUME GrpInv, On, NEW a \in Int
  PROVE  Fine(SetAdjustV(s, a))
<1> DEFINE u == SetAdjustV(s, a)
<1>1. StateType(s) /\ Agree(s) /\ Holds(Known(s.g.screen_mode, fresh), s.g)
  BY DEF GrpInv
<1>2. Right("adjust", s.g)
  BY <1>1 DEF Holds, Known
<1>3. Effect(s, u, {"adjust_v"}, 18, 4..7) /\ Right("adjust", u.g)
  BY <1>1, <1>2, SetAdjustVEffect
<1>4. Alone({"adjust"}, {"adjust_v"}, 18, 4..7)
  BY DEF Alone, Apart, Concerns, FieldsOf, BitsOf, Reg, DispMask
<1> HIDE DEF u
<1>5. Enabling(u)
  <2>1. Harmless({"adjust_v"}, 18, 4..7)
    BY DEF Harmless, Reg, DispMask
  <2> QED
    BY <1>3, <2>1, HarmlessEnabling
<1>6. Fine(u)
  BY <1>3, <1>4, <1>5, AloneFine
<1> QED
  BY <1>6 DEF u

LEMMA SetScrollVFine ==
  ASSUME GrpInv, On, NEW j \in 0..255
  PROVE  Fine(SetScrollV(s, j))
<1> DEFINE u == SetScrollV(s, j)
<1>1. StateType(s) /\ Agree(s) /\ Holds(Known(s.g.screen_mode, fresh), s.g)
  BY DEF GrpInv
<1>3. Effect(s, u, {"scroll_v"}, 23, 0..7) /\ Right("scroll_v", u.g)
  BY <1>1, SetScrollVEffect
<1>4. Alone({"scroll_v"}, {"scroll_v"}, 23, 0..7)
  BY DEF Alone, Apart, Concerns, FieldsOf, BitsOf, Reg, DispMask
<1> HIDE DEF u
<1>5. Enabling(u)
  <2>1. Harmless({"scroll_v"}, 23, 0..7)
    BY DEF Harmless, Reg, DispMask
  <2> QED
    BY <1>3, <2>1, HarmlessEnabling
<1>6. Fine(u)
  BY <1>3, <1>4, <1>5, AloneFine
<1> QED
  BY <1>6 DEF u

LEMMA SetIrqHblankLineFine ==
  ASSUME GrpInv, On, NEW j \in 0..255
  PROVE  Fine(SetIrqHblankLine(s, j))
<1> DEFINE u == SetIrqHblankLine(s, j)
<1>1. StateType(s) /\ Agree(s) /\ Holds(Known(s.g.screen_mode, fresh), s.g)
  BY DEF GrpInv
<1>3. Effect(s, u, {}, 19, 0..7)
  BY <1>1, SetIrqHblankLineEffect
<1>4. Alone({}, {}, 19, 0..7)
  BY DEF Alone, Apart, Concerns, FieldsOf, BitsOf, Reg, DispMask
<1> HIDE DEF u
<1>5. Enabling(u)
  <2>1. Harmless({}, 19, 0..7)
    BY DEF Harmless, Reg, DispMask
  <2> QED
    BY <1>3, <2>1, HarmlessEnabling
<1>6. Fine(u)
  BY <1>3, <1>4, <1>5, AloneFine
<1> QED
  BY <1>6 DEF u

(* A call that is made of several.                                         *)
LEMMA StageStart ==
  ASSUME GrpInv, On
  PROVE  Stage(s, s, s.g.screen_mode, Known(s.g.screen_mode, fresh))
<1>1. StateType(s) /\ Agree(s) /\ Holds(Known(s.g.screen_mode, fresh), s.g) /\ fresh \in SUBSET {"view", "active"}
  BY DEF GrpInv
<1>2. Known(s.g.screen_mode, fresh) \in SUBSET Concerns
  BY <1>1, KnownInside
<1> QED
  BY <1>1, <1>2 DEF Stage

LEMMA StageFine ==
  ASSUME NEW u, Stage(s, u, s.g.screen_mode, Known(s.g.screen_mode, Since(u)))
  PROVE  Fine(u)
<1>1. StateType(u) /\ Agree(u) /\ u.g.screen_mode = s.g.screen_mode
  BY DEF Stage
<1>2. Holds(Known(u.g.screen_mode, Since(u)), u.g)
  BY <1>1 DEF Stage
<1>3. Enabling(u)
  BY DEF Stage, Enabling
<1> QED
  BY <1>1, <1>2, <1>3 DEF Fine

LEMMA SetScrollHFine ==
  ASSUME GrpInv, On, NEW h \in Nat
  PROVE  Fine(SetScrollH(s, h))
<1> DEFINE u == SetScrollH(s, h)
           D == Known(s.g.screen_mode, fresh)
           E == D \ {"scroll_h"}
           mode == s.g.screen_mode
<1>1. StateType(s) /\ Agree(s)
  BY DEF GrpInv
<1>2. Stage(s, s, mode, D)
  BY StageStart
<1>3. PICK w : Effect(s, w, {"scroll_h"}, 26, 0..7) /\ Effect(w, u, {}, 27, 0..7)
  BY <1>1, SetScrollHEffect
<1>4. Right("scroll_h", u.g)
  BY <1>1, SetScrollHEffect
<1> HIDE DEF u
<1>5. D \in SUBSET Concerns
  BY <1>2 DEF Stage
<1> HIDE DEF D
<1>6. Harmless({"scroll_h"}, 26, 0..7) /\ Harmless({}, 27, 0..7)
  BY DEF Harmless, Reg
<1>7. Settles(D, E, {"scroll_h"}, 26, 0..7, w.g)
  BY <1>5 DEF Settles, Apart, FieldsOf, BitsOf, Concerns, DispMask
<1>8. Settles(E, D, {}, 27, 0..7, u.g)
  BY <1>4, <1>5 DEF Settles, Apart, FieldsOf, BitsOf, Concerns, DispMask
<1> HIDE DEF E
<1>9. Stage(s, w, mode, E)
  BY <1>2, <1>3, <1>6, <1>7, StageStep
<1>10. Stage(s, u, mode, D)
  BY <1>3, <1>6, <1>8, <1>9, StageStep
<1>11. Since(u) = fresh
  BY <1>3 DEF Effect, Since, GrpFields
<1>12. Fine(u)
  BY <1>10, <1>11, StageFine DEF D
<1> QED
  BY <1>12 DEF u

LEMMA SetDisplayModeFine ==
  ASSUME GrpInv, On, NEW m \in SUBSET DispMask
  PROVE  Fine(SetDisplayMode(s, m))
<1> DEFINE u == SetDisplayMode(s, m)
           mode == s.g.screen_mode
           D == Known(mode, fresh)
<1>1. StateType(s) /\ Agree(s)
  BY DEF GrpInv
<1>2. Effect(s, u, {"display_mode", "interlace_on", "vsync_50hz"}, 9, DispMask) /\ Right("display", u.g)
  BY <1>1, SetDisplayModeEffect
<1> HIDE DEF u
<1>3. Harmless({"display_mode", "interlace_on", "vsync_50hz"}, 9, DispMask)
  BY DEF Harmless, Reg
<1>4. CASE Since(u) = {}
  <2>1. Stage(s, s, mode, D)
    BY StageStart
  <2>2. Settles(D, Known(mode, {}), {"display_mode", "interlace_on", "vsync_50hz"}, 9, DispMask, u.g)
    BY <1>2 DEF Settles, Known, Apart, FieldsOf, BitsOf, Concerns, DispMask
  <2> HIDE DEF D
  <2>3. Stage(s, u, mode, Known(mode, {}))
    BY <2>1, <2>2, <1>2, <1>3, StageStep
  <2> QED
    BY <2>3, <1>4, StageFine DEF u
<1>5. CASE u.g.interlace_on = s.g.interlace_on
  <2>1. Effect(s, u, {"display_mode", "vsync_50hz"}, 9, DispMask)
    BY <1>2, <1>5 DEF Effect
  <2>2. Alone({"display"}, {"display_mode", "vsync_50hz"}, 9, DispMask)
    BY DEF Alone, Apart, Concerns, FieldsOf, BitsOf, Reg, DispMask
  <2>3. Enabling(u)
    BY <1>2, <1>3, HarmlessEnabling
  <2> QED
    BY <1>2, <2>1, <2>2, <2>3, AloneFine DEF u
<1> QED
  BY <1>4, <1>5 DEF Since

(***************************************************************************)
(* The calls that choose a page: what is the same afterwards and one more  *)
(* thing set since interlacing changed.                                    *)
(***************************************************************************)
Turned(u, what) ==
  /\ StateType(u) /\ Agree(u) /\ Enables(u) = Enables(s)
  /\ Holds(Known(u.g.screen_mode, fresh \cup {what}), u.g)

LEMMA PagesOfMode ==
  ASSUME GrpInv, On, HasMode, NEW p \in Pages
  PROVE  /\ p \in 0..3 /\ (s.g.screen_mode >= G6 => p <= 1)
         /\ Right("address", s.g)
<1>1. p \in 0..3 /\ (s.g.screen_mode >= G6 => p <= 1)
  <2>1. s.g.screen_mode \in 0..9
    BY DEF HasMode, GrpInv, StateType, GrpType, GrpFields, KindOf
  <2> QED
    BY <2>1 DEF Pages, G6
<1>2. Right("address", s.g)
  BY DEF GrpInv, Holds, Known, HasMode, Concerns
<1> QED
  BY <1>1, <1>2

LEMMA SetViewTurned ==
  ASSUME GrpInv, On, HasMode, NEW p \in Pages
  PROVE  Turned(SetView(s, p), "view")
<1> DEFINE u == SetView(s, p)
           mode == s.g.screen_mode
           D == Known(mode, fresh)
           E == Known(mode, fresh \cup {"view"})
<1>1. StateType(s) /\ Agree(s) /\ fresh \subseteq {"view", "active"}
  BY DEF GrpInv
<1>2. p \in 0..3 /\ (s.g.screen_mode >= G6 => p <= 1) /\ AddressRight(s.g)
  BY PagesOfMode DEF Right
<1>3. Effect(s, u, {"view_page"}, 2, {5, 6}) /\ Right("view", u.g) /\ u.g.view_page <= p
  BY <1>1, <1>2, SetViewEffect
<1> HIDE DEF u
<1>4. Right("address", u.g)
  <2>1. /\ u.g.active_page = s.g.active_page /\ u.g.active_page_a16_a14 = s.g.active_page_a16_a14
        /\ u.g.screen_mode = s.g.screen_mode
    BY <1>3 DEF Effect, GrpFields
  <2>2. u.g.view_page \in 0..3
    BY <1>3 DEF Effect, StateType, GrpType, GrpFields, KindOf
  <2>3. u.g.screen_mode >= G6 => u.g.view_page <= 1
    BY <1>2, <1>3, <2>1, <2>2
  <2>4. AddressRight(u.g)
    BY <1>2, <2>1, <2>3 DEF AddressRight
  <2> QED
    BY <2>4 DEF Right
<1>5. Stage(s, s, mode, D)
  BY StageStart
<1>6. E \subseteq D \cup {"view"} /\ E \in SUBSET Concerns
  BY <1>1 DEF Known, Concerns
<1>7. Harmless({"view_page"}, 2, {5, 6})
  BY DEF Harmless, Reg
<1> HIDE DEF D, E
<1>8. Settles(D, E, {"view_page"}, 2, {5, 6}, u.g)
  <2>1. \A c \in Concerns \ {"view", "address"} : Apart(c, {"view_page"}, 2, {5, 6})
    BY DEF Apart, FieldsOf, BitsOf, Concerns, DispMask
  <2> QED
    BY <1>3, <1>4, <1>6, <2>1 DEF Settles
<1>9. Stage(s, u, mode, E)
  BY <1>3, <1>5, <1>7, <1>8, StageStep
<1>10. Turned(u, "view")
  BY <1>9 DEF Turned, Stage, E
<1> QED
  BY <1>10 DEF u

LEMMA SetActiveTurned ==
  ASSUME GrpInv, On, HasMode, NEW p \in Pages
  PROVE  Turned(SetActive(s, p), "active")
<1> DEFINE u == SetActive(s, p)
           mode == s.g.screen_mode
           D == Known(mode, fresh)
           E == Known(mode, fresh \cup {"active"})
           F == {"active_page", "active_page_a16_a14"}
<1>1. StateType(s) /\ Agree(s) /\ fresh \subseteq {"view", "active"}
  BY DEF GrpInv
<1>2. p \in 0..3 /\ (s.g.screen_mode >= G6 => p <= 1 /\ s.g.view_page <= 1)
  BY PagesOfMode DEF Right, AddressRight
<1>3. Effect(s, u, F, 0, {}) /\ Right("active", u.g) /\ Right("address", u.g)
  BY <1>1, <1>2, SetActiveEffect
<1> HIDE DEF u
<1>5. Stage(s, s, mode, D)
  BY StageStart
<1>6. E \subseteq D \cup {"active"} /\ E \in SUBSET Concerns
  BY <1>1 DEF Known, Concerns
<1>7. Harmless(F, 0, {})
  BY DEF Harmless, Reg
<1> HIDE DEF D, E
<1>8. Settles(D, E, F, 0, {}, u.g)
  <2>1. \A c \in Concerns \ {"active", "address"} : Apart(c, F, 0, {})
    BY DEF Apart, FieldsOf, Concerns
  <2> QED
    BY <1>3, <1>6, <2>1 DEF Settles
<1> HIDE DEF F
<1>9. Stage(s, u, mode, E)
  BY <1>3, <1>5, <1>7, <1>8, StageStep
<1>10. Turned(u, "active")
  BY <1>9 DEF Turned, Stage, E
<1> QED
  BY <1>10 DEF u

(***************************************************************************)
(* The invariant.                                                          *)
(***************************************************************************)
EnablesStep ==
  (status = "on" /\ status' = "on") =>
    \/ s'.hw[0] \cap {4} = s.hw[0] \cap {4} /\ s'.hw[1] \cap {5, 6} = s.hw[1] \cap {5, 6}
    \/ \E on \in BOOLEAN : s' \in {SetIrqVblank(s, on), SetIrqHblank(s, on), SetDisplayOn(s, on)}

LEMMA EnablingStep ==
  ASSUME Enabling(s')
  PROVE  EnablesStep
  BY DEF Enabling, Enables, EnablesStep

(* On the same machine the same is right.                                  *)
LEMMA SameMachine ==
  ASSUME UNCHANGED <<msx2p, v9958>>
  PROVE  /\ Present' = Present /\ SystemRegs' = SystemRegs
         /\ Agree(s') => Agree(s)'
         /\ \A c : Right(c, s'.g) <=> Right(c, s.g)'
         /\ \A c : Right(c, bak') <=> Right(c, bak)'
<1>1. Present' = Present /\ SystemRegs' = SystemRegs
  BY DEF Present, SystemRegs
<1>2. Agree(s') => Agree(s)'
  BY <1>1 DEF Agree
<1>3. ScrollHRight(s'.g) <=> ScrollHRight(s.g)'
  BY DEF ScrollHRight
<1>4. ScrollHRight(bak') <=> ScrollHRight(bak)'
  BY DEF ScrollHRight
<1>5. ASSUME NEW c PROVE Right(c, s'.g) <=> Right(c, s.g)'
  BY <1>3 DEF Right
<1>6. ASSUME NEW c PROVE Right(c, bak') <=> Right(c, bak)'
  BY <1>4 DEF Right
<1> QED
  BY <1>1, <1>2, <1>5, <1>6

(* BL has the screen afterwards.                                           *)
LEMMA OnKeeps ==
  ASSUME GrpInv, status' = "on", fresh' \in SUBSET {"view", "active"}, UNCHANGED <<msx2p, v9958>>,
         GrpType(bak'), sys' \in RegFile, org' \in RegFile,
         StateType(s'), Agree(s'), Holds(Known(s'.g.screen_mode, fresh'), s'.g)
  PROVE  GrpInv'
<1>1. Agree(s)' /\ \A c : Right(c, s'.g) <=> Right(c, s.g)'
  BY SameMachine
<1>2. Holds(Known(s.g.screen_mode, fresh), s.g)'
  <2>1. \A c \in Known(s'.g.screen_mode, fresh') : Right(c, s.g)'
    BY <1>1 DEF Holds
  <2> QED
    BY <2>1 DEF Holds
<1>3. SystemInStep'
  BY DEF SystemInStep, On
<1>4. msx2p' \in BOOLEAN /\ v9958' \in BOOLEAN /\ (msx2p' => v9958')
  BY DEF GrpInv
<1> QED
  BY <1>1, <1>2, <1>3, <1>4 DEF GrpInv

(* It has not.                                                             *)
LEMMA OffKeeps ==
  ASSUME GrpInv, status' \in {"off", "suspended"}, fresh' \in SUBSET {"view", "active"}, UNCHANGED <<msx2p, v9958>>,
         GrpType(bak'), sys' \in RegFile, org' \in RegFile, StateType(s'),
         status' = "suspended" => Holds(Known(bak'.screen_mode, fresh'), bak'),
         \A r \in SystemRegs \cap Present : sys'[r] = s'.hw[r]
  PROVE  GrpInv'
<1>1. \A c : Right(c, bak') <=> Right(c, bak)'
  BY SameMachine
<1>2. (status = "suspended" => Holds(Known(bak.screen_mode, fresh), bak))'
  <2> SUFFICES ASSUME status' = "suspended" PROVE Holds(Known(bak.screen_mode, fresh), bak)'
    OBVIOUS
  <2>1. \A c \in Known(bak'.screen_mode, fresh') : Right(c, bak)'
    BY <1>1 DEF Holds
  <2> QED
    BY <2>1 DEF Holds
<1>3. SystemInStep'
  <2>1. SystemRegs \ (IF v9958 THEN {} ELSE Late) = SystemRegs \cap Present
    BY DEF SystemRegs, Present
  <2>2. SystemRegs' = SystemRegs
    BY SameMachine
  <2> QED
    BY <2>1, <2>2 DEF SystemInStep
<1>4. msx2p' \in BOOLEAN /\ v9958' \in BOOLEAN /\ (msx2p' => v9958')
  BY DEF GrpInv
<1> QED
  BY <1>2, <1>3, <1>4 DEF GrpInv, On

LEMMA SetKeeps ==
  ASSUME GrpInv, NEW STATE u, Set(u), Fine(u)
  PROVE  GrpInv' /\ EnablesStep
<1>1. /\ status = "on" /\ s' = u /\ UNCHANGED <<msx2p, v9958, status, sys, org, bak>>
      /\ fresh' = Since(u)
  BY DEF Set, Since
<1>2. Fine(s') /\ fresh' = Since(s')
  BY <1>1
<1>3. StateType(s') /\ Agree(s') /\ Holds(Known(s'.g.screen_mode, fresh'), s'.g) /\ Enabling(s')
  BY <1>2 DEF Fine
<1>4. fresh' \in SUBSET {"view", "active"}
  BY <1>2 DEF Since, GrpInv
<1>5. status' = "on" /\ GrpType(bak') /\ sys' \in RegFile /\ org' \in RegFile
  BY <1>1 DEF GrpInv
<1> QED
  BY <1>1, <1>3, <1>4, <1>5, OnKeeps, EnablingStep

LEMMA PageKeeps ==
  ASSUME GrpInv, NEW STATE u, NEW what \in {"view", "active"}, Page(u, what), Turned(u, what)
  PROVE  GrpInv' /\ EnablesStep
<1>1. /\ status = "on" /\ s' = u /\ UNCHANGED <<msx2p, v9958, status, sys, org, bak>>
      /\ fresh' = fresh \cup {what}
  BY DEF Page
<1>2. Turned(s', what)
  BY <1>1
<1>3. StateType(s') /\ Agree(s') /\ Holds(Known(s'.g.screen_mode, fresh'), s'.g) /\ Enabling(s')
  BY <1>1, <1>2 DEF Turned, Enabling
<1>4. fresh' \in SUBSET {"view", "active"}
  BY <1>1 DEF GrpInv
<1>5. status' = "on" /\ GrpType(bak') /\ sys' \in RegFile /\ org' \in RegFile
  BY <1>1 DEF GrpInv
<1> QED
  BY <1>1, <1>3, <1>4, <1>5, OnKeeps, EnablingStep

LEMMA ScreenModeKeeps ==
  ASSUME GrpInv, ScreenMode
  PROVE  GrpInv' /\ EnablesStep
<1>1. PICK mode \in Modes : s' = SetScreenMode(s, mode)
  BY DEF ScreenMode
<1>2. /\ status = "on" /\ UNCHANGED <<msx2p, v9958, status, sys, org, bak>>
      /\ fresh' = {"view", "active"}
  BY DEF ScreenMode
<1>3. mode \in 0..9
  BY GrpAssumption
<1>4. StateType(s) /\ Agree(s) /\ Right("adjust", s.g)
  BY <1>2 DEF GrpInv, On, Holds, Known
<1>5. Stage(s, s', mode, Concerns)
  BY <1>1, <1>3, <1>4, SetScreenModeEffect
<1>6. StateType(s') /\ Agree(s') /\ Enabling(s')
  BY <1>5 DEF Stage, Enabling
<1>7. Holds(Known(s'.g.screen_mode, fresh'), s'.g)
  <2>1. Known(s'.g.screen_mode, fresh') \in SUBSET Concerns
    BY <1>2, KnownInside
  <2> QED
    BY <1>5, <2>1 DEF Stage, Holds
<1>8. status' = "on" /\ GrpType(bak') /\ sys' \in RegFile /\ org' \in RegFile
  BY <1>2 DEF GrpInv
<1> QED
  BY <1>2, <1>6, <1>7, <1>8, OnKeeps, EnablingStep

(* The registers are a part of what BL keeps.                              *)
LEMMA RegsReplaced ==
  ASSUME NEW g, GrpType(g), NEW regs \in RegFile
  PROVE  LET h == [g EXCEPT !.reg_shadow = regs]
         IN GrpType(h) /\ h.reg_shadow = regs
<1> DEFINE h == [g EXCEPT !.reg_shadow = regs]
<1>1. DOMAIN g = GrpFields /\ g = [f \in GrpFields |-> g[f]] /\ "reg_shadow" \in GrpFields
  BY DEF GrpType, GrpShape, GrpFields
<1>2. /\ DOMAIN h = GrpFields /\ h = [f \in GrpFields |-> h[f]] /\ h.reg_shadow = regs
      /\ \A f \in GrpFields \ {"reg_shadow"} : h[f] = g[f]
  BY <1>1
<1>3. regs \in KindOf("reg_shadow")
  BY DEF KindOf
<1> HIDE DEF h
<1>4. GrpType(h)
  BY <1>2, <1>3 DEF GrpType, GrpShape
<1> QED
  BY <1>2, <1>4 DEF h

LEMMA PairType ==
  ASSUME NEW g, GrpType(g), NEW regs \in RegFile
  PROVE  StateType([g |-> g, hw |-> regs])
<1> DEFINE t == [g |-> g, hw |-> regs]
<1>1. DOMAIN t = {"g", "hw"} /\ t = [f \in {"g", "hw"} |-> t[f]] /\ t.g = g /\ t.hw = regs
  OBVIOUS
<1> HIDE DEF t
<1> QED
  BY <1>1 DEF StateType, Shape, GrpType, t

LEMMA SyncedType ==
  ASSUME GrpInv, NEW regs \in RegFile
  PROVE  /\ SyncedRegs(regs) \in RegFile /\ RestoredRegs(regs) \in RegFile
         /\ \A r \in SystemRegs \cap Present : SyncedRegs(regs)[r] = regs[r]
         /\ \A r \in Present : RestoredRegs(regs)[r] = regs[r]
<1>1. sys \in RegFile /\ s.hw \in RegFile
  BY DEF GrpInv, StateType
<1>2. SyncedRegs(regs) \in RegFile
  BY <1>1 DEF SyncedRegs, RegFile
<1>3. RestoredRegs(regs) \in RegFile
  BY <1>1 DEF RestoredRegs, RegFile
<1>4. \A r \in SystemRegs \cap Present : SyncedRegs(regs)[r] = regs[r]
  BY DEF SyncedRegs, Present
<1>5. \A r \in Present : RestoredRegs(regs)[r] = regs[r]
  BY DEF RestoredRegs, Present
<1> QED
  BY <1>2, <1>3, <1>4, <1>5

LEMMA GrpDeinitKeeps ==
  ASSUME GrpInv, GrpDeinit
  PROVE  GrpInv' /\ EnablesStep
<1> DEFINE regs == [org EXCEPT ![1] = @ \ {6}]
           h == [s.g EXCEPT !.reg_shadow = regs]
<1>1. /\ s' = [g |-> h, hw |-> RestoredRegs(regs)] /\ sys' = SyncedRegs(regs) /\ org' = regs
      /\ status' = "off" /\ UNCHANGED <<msx2p, v9958, bak, fresh>>
  BY DEF GrpDeinit
<1>2. regs \in RegFile
  BY DEF GrpInv, RegFile
<1>3. GrpType(s.g) /\ GrpType(bak) /\ fresh \in SUBSET {"view", "active"}
  BY DEF GrpInv, StateType
<1> HIDE DEF regs
<1>4. GrpType(h)
  BY <1>2, <1>3, RegsReplaced
<1> HIDE DEF h
<1>5. StateType(s') /\ s'.hw = RestoredRegs(regs)
  BY <1>1, <1>2, <1>4, SyncedType, PairType
<1>6. \A r \in SystemRegs \cap Present : sys'[r] = s'.hw[r]
  BY <1>1, <1>2, <1>5, SyncedType
<1>7. sys' \in RegFile /\ org' \in RegFile /\ GrpType(bak') /\ fresh' \in SUBSET {"view", "active"}
  BY <1>1, <1>2, <1>3, SyncedType
<1>8. EnablesStep
  BY <1>1 DEF EnablesStep
<1>9. GrpInv'
  BY <1>1, <1>5, <1>6, <1>7, OffKeeps
<1> QED
  BY <1>8, <1>9

LEMMA GrpSuspendKeeps ==
  ASSUME GrpInv, GrpSuspend
  PROVE  GrpInv' /\ EnablesStep
<1>1. /\ status = "on" /\ bak' = s.g /\ sys' = SyncedRegs(s.g.reg_shadow) /\ status' = "suspended"
      /\ UNCHANGED <<msx2p, v9958, s, org, fresh>>
  BY DEF GrpSuspend
<1>2. /\ StateType(s) /\ Agree(s) /\ Holds(Known(s.g.screen_mode, fresh), s.g) /\ org \in RegFile
      /\ fresh \in SUBSET {"view", "active"}
  BY <1>1 DEF GrpInv, On
<1>3. s.g.reg_shadow \in RegFile /\ GrpType(s.g)
  BY <1>2 DEF StateType, GrpType, KindOf, GrpFields
<1>4. \A r \in SystemRegs \cap Present : sys'[r] = s'.hw[r]
  BY <1>1, <1>2, <1>3, SyncedType DEF Agree
<1>5. sys' \in RegFile /\ org' \in RegFile /\ GrpType(bak') /\ fresh' \in SUBSET {"view", "active"} /\ StateType(s')
  BY <1>1, <1>2, <1>3, SyncedType
<1>6. Holds(Known(bak'.screen_mode, fresh'), bak')
  BY <1>1, <1>2
<1>7. EnablesStep
  BY <1>1 DEF EnablesStep
<1>8. GrpInv'
  BY <1>1, <1>4, <1>5, <1>6, OffKeeps
<1> QED
  BY <1>7, <1>8

LEMMA GrpResumeKeeps ==
  ASSUME GrpInv, GrpResume
  PROVE  GrpInv' /\ EnablesStep
<1>1. /\ status = "suspended" /\ s' = [g |-> bak, hw |-> RestoredRegs(bak.reg_shadow)] /\ status' = "on"
      /\ UNCHANGED <<msx2p, v9958, sys, org, bak, fresh>>
  BY DEF GrpResume
<1>2. /\ GrpType(bak) /\ Holds(Known(bak.screen_mode, fresh), bak) /\ org \in RegFile /\ sys \in RegFile
      /\ fresh \in SUBSET {"view", "active"}
  BY <1>1 DEF GrpInv
<1>3. bak.reg_shadow \in RegFile
  BY <1>2 DEF GrpType, KindOf, GrpFields
<1>4. StateType(s') /\ s'.g = bak /\ s'.hw = RestoredRegs(bak.reg_shadow)
  BY <1>1, <1>2, <1>3, SyncedType, PairType
<1>5. Agree(s')
  BY <1>3, <1>4, SyncedType DEF Agree
<1>6. Holds(Known(s'.g.screen_mode, fresh'), s'.g)
  BY <1>1, <1>2, <1>4
<1>7. EnablesStep
  BY <1>1 DEF EnablesStep
<1>8. GrpInv'
  BY <1>1, <1>2, <1>4, <1>5, <1>6, OnKeeps
<1> QED
  BY <1>7, <1>8

(* Another program writes registers only.                                  *)
LEMMA OtherKeeps ==
  ASSUME GrpInv, Other
  PROVE  GrpInv' /\ EnablesStep
<1>1. PICK regs \in Foreign :
        LET now == [r \in Reg |-> IF r \in Late /\ ~msx2p THEN s.hw[r] ELSE regs[r]]
        IN s' = [s EXCEPT !.hw = now] /\ sys' = SyncedRegs(now)
  BY DEF Other
<1> DEFINE now == [r \in Reg |-> IF r \in Late /\ ~msx2p THEN s.hw[r] ELSE regs[r]]
<1>2. s' = [s EXCEPT !.hw = now] /\ sys' = SyncedRegs(now)
  BY <1>1
<1>3. status # "on" /\ UNCHANGED <<msx2p, v9958, status, org, bak, fresh>>
  BY DEF Other
<1>4. /\ StateType(s) /\ s.hw \in RegFile /\ GrpType(s.g) /\ status \in {"off", "on", "suspended"} /\ GrpType(bak) /\ org \in RegFile
      /\ fresh \in SUBSET {"view", "active"}
      /\ status = "suspended" => Holds(Known(bak.screen_mode, fresh), bak)
  BY DEF GrpInv, StateType
<1>5. regs \in RegFile
  BY ForeignAssumption DEF RegFile
<1>6. now \in RegFile
  BY <1>4, <1>5 DEF RegFile
<1> HIDE DEF now
<1>7. s'.hw = now /\ s'.g = s.g /\ StateType(s')
  <2>1. DOMAIN s = {"g", "hw"} /\ s = [f \in {"g", "hw"} |-> s[f]]
    BY <1>4 DEF StateType, Shape
  <2>2. s' = [g |-> s.g, hw |-> now]
    BY <1>2, <2>1
  <2> QED
    BY <2>2, <1>4, <1>6, PairType
<1>8. \A r \in SystemRegs \cap Present : sys'[r] = s'.hw[r]
  BY <1>2, <1>6, <1>7, SyncedType
<1>9. EnablesStep
  BY <1>3 DEF EnablesStep
<1>10. sys' \in RegFile
  BY <1>2, <1>6, SyncedType
<1>11. GrpInv'
  BY <1>3, <1>4, <1>7, <1>8, <1>10, OffKeeps
<1> QED
  BY <1>9, <1>11

LEMMA FieldReplaced ==
  ASSUME NEW g, GrpType(g), NEW x \in GrpFields, NEW v \in KindOf(x)
  PROVE  LET h == [g EXCEPT ![x] = v]
         IN GrpType(h) /\ h[x] = v /\ \A f \in GrpFields \ {x} : h[f] = g[f]
<1> DEFINE h == [g EXCEPT ![x] = v]
<1>1. DOMAIN g = GrpFields /\ g = [f \in GrpFields |-> g[f]]
  BY DEF GrpType, GrpShape
<1>2. /\ DOMAIN h = GrpFields /\ h = [f \in GrpFields |-> h[f]] /\ h[x] = v
      /\ \A f \in GrpFields \ {x} : h[f] = g[f]
  BY <1>1
<1> HIDE DEF h
<1>3. GrpType(h)
  BY <1>2 DEF GrpType, GrpShape
<1> QED
  BY <1>2, <1>3 DEF h

LEMMA FreshType ==
  /\ GrpType(Fresh) /\ Fresh.screen_mode = NoMode /\ Fresh.display_mode = {} /\ ~Fresh.interlace_on
  /\ Fresh.adjust_h = 0 /\ Fresh.adjust_v = 0 /\ Fresh.reg_shadow = [r \in Reg |-> {}]
<1>1. DOMAIN Fresh = GrpFields
  BY DEF Fresh, GrpFields
<1>2. Fresh = [f \in GrpFields |-> Fresh[f]]
  BY <1>1 DEF Fresh
<1>3. ASSUME NEW f \in GrpFields PROVE Fresh[f] \in KindOf(f)
  <2>1. CASE f \in {"screen_mode", "height", "color_text_fg", "color_text_bg", "color_border", "view_page", "active_page",
                    "active_page_a16_a14", "adjust_h", "adjust_v", "scroll_h", "scroll_v"}
    BY <2>1 DEF Fresh, KindOf, NoMode
  <2>2. CASE f \in {"display_on", "sprite_on", "palette0_on", "line_212", "interlace_on", "vsync_50hz"}
    <3>1. Fresh[f] \in BOOLEAN
      <4>1. /\ Fresh["display_on"] = FALSE /\ Fresh["sprite_on"] = TRUE /\ Fresh["palette0_on"] = FALSE
            /\ Fresh["line_212"] = TRUE /\ Fresh["interlace_on"] = FALSE /\ Fresh["vsync_50hz"] = FALSE
        BY Zenon DEF Fresh
      <4> QED
        BY <2>2, <4>1
    <3>2. KindOf(f) = BOOLEAN
      BY <2>2 DEF KindOf
    <3> QED
      BY <3>1, <3>2
  <2>3. CASE f \in {"yae_yjk_mode", "sprite_mode", "display_mode", "scroll_mode"}
    BY <2>3 DEF Fresh, KindOf
  <2>4. CASE f = "reg_shadow"
    <3>1. Fresh[f] = [r \in Reg |-> {}]
      BY <2>4 DEF Fresh
    <3>2. KindOf(f) = RegFile
      BY <2>4 DEF KindOf
    <3> QED
      BY <3>1, <3>2 DEF RegFile
  <2> QED
    BY <2>1, <2>2, <2>3, <2>4 DEF GrpFields
<1> QED
  BY <1>1, <1>2, <1>3 DEF GrpType, GrpShape, Fresh

(* adj_to_reg[] undoes what the register is read by.                       *)
LEMMA AdjustRead ==
  ASSUME NEW b \in SUBSET (0..7)
  PROVE  LET h == AdjFromReg(Num(b \cap 0..3))
             v == AdjFromReg(Num(b \cap 4..7) \div 16)
         IN h \in -7..8 /\ v \in -7..8 /\ Bits(AdjToReg(h) + 16 * AdjToReg(v)) = b
<1> DEFINE x == Num(b \cap 0..3)
           j == Num(b \cap 4..7)
<1>1. x = Digit(b, 0, 1) + Digit(b, 1, 2) + Digit(b, 2, 4) + Digit(b, 3, 8)
  BY NumIs DEF Digit
<1>2. j = Digit(b, 4, 16) + Digit(b, 5, 32) + Digit(b, 6, 64) + Digit(b, 7, 128)
  BY NumIs DEF Digit
<1>3. Num(b) = Digit(b, 0, 1) + Digit(b, 1, 2) + Digit(b, 2, 4) + Digit(b, 3, 8) + Digit(b, 4, 16) + Digit(b, 5, 32) + Digit(b, 6, 64) + Digit(b, 7, 128)
  BY NumIs
<1> HIDE DEF x, j
<1>4. x \in 0..15
  BY <1>1 DEF Digit
<1>5. j \div 16 \in 0..15 /\ j = 16 * (j \div 16)
  <2> DEFINE k == Digit(b, 4, 1) + Digit(b, 5, 2) + Digit(b, 6, 4) + Digit(b, 7, 8)
  <2>1. j = 16 * k /\ k \in 0..15
    BY <1>2 DEF Digit
  <2> HIDE DEF k
  <2>2. j \div 16 = k
    BY <2>1
  <2> QED
    BY <2>1, <2>2
<1>6. Num(b) = x + j
  <2>1. \A i \in 0..7 : Digit(b, i, 2^i) \in Int
    BY DEF Digit
  <2> QED
    BY <1>1, <1>2, <1>3, <2>1 DEF Digit
<1>7. \A n \in 0..15 : AdjFromReg(n) \in -7..8 /\ AdjToReg(AdjFromReg(n)) = n
  BY DEF AdjFromReg, AdjToReg
<1>8. /\ AdjFromReg(x) \in -7..8 /\ AdjFromReg(j \div 16) \in -7..8
      /\ AdjToReg(AdjFromReg(x)) + 16 * AdjToReg(AdjFromReg(j \div 16)) = Num(b)
  BY <1>4, <1>5, <1>6, <1>7
<1>9. Bits(Num(b)) = b
  BY BitsOfNum
<1> QED
  BY <1>8, <1>9 DEF x, j

LEMMA GrpInitKeeps ==
  ASSUME GrpInv, GrpInit
  PROVE  GrpInv' /\ EnablesStep
<1> DEFINE zeroed == v9958 /\ ~msx2p
           shadow == [r \in Reg |-> IF r \in Late /\ (zeroed \/ ~v9958) THEN {} ELSE sys[r]]
           regs == [r \in Reg |-> IF r \in Late /\ zeroed THEN {} ELSE s.hw[r]]
           m == shadow[9] \cap DispMask
           ah == AdjFromReg(Num(shadow[18] \cap 0..3))
           av == AdjFromReg(Num(shadow[18] \cap 4..7) \div 16)
           g1 == [Fresh EXCEPT !["display_mode"] = m]
           g2 == [g1 EXCEPT !["interlace_on"] = (Interlaced \subseteq shadow[9])]
           g3 == [g2 EXCEPT !["vsync_50hz"] = (1 \in shadow[9])]
           g4 == [g3 EXCEPT !["adjust_h"] = ah]
           g5 == [g4 EXCEPT !["adjust_v"] = av]
           g6 == [g5 EXCEPT !["reg_shadow"] = shadow]
<1>1. /\ s' = [g |-> g6, hw |-> regs] /\ org' = shadow
      /\ status = "off" /\ status' = "on" /\ fresh' = {} /\ UNCHANGED <<msx2p, v9958, sys, bak>>
  BY Zenon DEF GrpInit
<1>2. sys \in RegFile /\ s.hw \in RegFile /\ GrpType(bak)
  BY DEF GrpInv, StateType
<1>3. shadow \in RegFile /\ regs \in RegFile
  BY <1>2 DEF RegFile
<1>4. \A r \in Present : shadow[r] = regs[r]
  <2>1. \A r \in SystemRegs \ (IF v9958 THEN {} ELSE Late) : sys[r] = s.hw[r]
    BY <1>1 DEF GrpInv, SystemInStep, On
  <2> QED
    BY <2>1 DEF Present, SystemRegs, GrpInv
<1> HIDE DEF shadow, regs
<1>5. shadow[9] \in SUBSET (0..7) /\ shadow[18] \in SUBSET (0..7)
  BY <1>3 DEF RegFile, Reg
<1>6. ah \in -7..8 /\ av \in -7..8 /\ Bits(AdjToReg(ah) + 16 * AdjToReg(av)) = shadow[18]
  BY <1>5, AdjustRead
<1> HIDE DEF ah, av
<1>7. /\ m \in KindOf("display_mode") /\ (Interlaced \subseteq shadow[9]) \in KindOf("interlace_on")
      /\ (1 \in shadow[9]) \in KindOf("vsync_50hz") /\ ah \in KindOf("adjust_h") /\ av \in KindOf("adjust_v")
      /\ shadow \in KindOf("reg_shadow")
  BY <1>3, <1>6 DEF KindOf
<1> HIDE DEF m
<1> DEFINE Names == {"screen_mode", "display_mode", "interlace_on", "vsync_50hz", "adjust_h", "adjust_v", "reg_shadow"}
<1>8. Names \subseteq GrpFields
  BY DEF GrpFields
<1>9. GrpType(g1) /\ g1["display_mode"] = m /\ g1["screen_mode"] = NoMode
  BY <1>7, <1>8, FreshType, FieldReplaced
<1> HIDE DEF g1
<1>10. GrpType(g2) /\ g2["display_mode"] = m /\ g2["screen_mode"] = NoMode /\ g2["interlace_on"] = (Interlaced \subseteq shadow[9])
  BY <1>7, <1>8, <1>9, FieldReplaced
<1> HIDE DEF g2
<1>11. GrpType(g3) /\ g3["display_mode"] = m /\ g3["screen_mode"] = NoMode /\ g3["interlace_on"] = (Interlaced \subseteq shadow[9])
  BY <1>7, <1>8, <1>10, FieldReplaced
<1> HIDE DEF g3
<1>12. /\ GrpType(g4) /\ g4["display_mode"] = m /\ g4["screen_mode"] = NoMode /\ g4["interlace_on"] = (Interlaced \subseteq shadow[9])
       /\ g4["adjust_h"] = ah
  BY <1>7, <1>8, <1>11, FieldReplaced
<1> HIDE DEF g4
<1>13. /\ GrpType(g5) /\ g5["display_mode"] = m /\ g5["screen_mode"] = NoMode /\ g5["interlace_on"] = (Interlaced \subseteq shadow[9])
       /\ g5["adjust_h"] = ah /\ g5["adjust_v"] = av
  BY <1>7, <1>8, <1>12, FieldReplaced
<1> HIDE DEF g5
<1>14. /\ GrpType(g6) /\ g6["display_mode"] = m /\ g6["screen_mode"] = NoMode /\ g6["interlace_on"] = (Interlaced \subseteq shadow[9])
       /\ g6["adjust_h"] = ah /\ g6["adjust_v"] = av /\ g6["reg_shadow"] = shadow
  BY <1>7, <1>8, <1>13, FieldReplaced
<1> HIDE DEF g6, Names
<1>15. StateType(s') /\ s'.g = g6 /\ s'.hw = regs
  BY <1>1, <1>3, <1>14, PairType
<1>16. Agree(s')
  BY <1>4, <1>14, <1>15 DEF Agree
<1>17. DisplayRight(g6)
  <2>1. (Interlaced \subseteq shadow[9]) = (Interlaced \subseteq m)
    BY DEF Interlaced, DispMask, m
  <2> QED
    BY <1>14, <2>1 DEF DisplayRight, m
<1>18. AdjustRight(g6)
  BY <1>6, <1>14 DEF AdjustRight
<1>19. Holds(Known(s'.g.screen_mode, fresh'), s'.g)
  BY <1>1, <1>14, <1>15, <1>17, <1>18 DEF Holds, Known, Right
<1>20. EnablesStep
  BY <1>1 DEF EnablesStep
<1>21. GrpInv'
  BY <1>1, <1>2, <1>3, <1>15, <1>16, <1>19, OnKeeps
<1> QED
  BY <1>20, <1>21

LEMMA StartInv ==
  ASSUME Init
  PROVE  GrpInv
<1>1. PICK regs \in Foreign : s = [g |-> Fresh, hw |-> regs]
  BY DEF Init
<1>2. regs \in RegFile
  BY ForeignAssumption DEF RegFile
<1>3. StateType(s) /\ s.hw = regs
  BY <1>1, <1>2, FreshType, PairType
<1>4. GrpType(bak) /\ sys = regs /\ org = regs
  BY <1>3, FreshType DEF Init
<1>5. SystemInStep
  BY <1>3, <1>4 DEF SystemInStep
<1> QED
  BY <1>2, <1>3, <1>4, <1>5 DEF Init, GrpInv, On

(* A step that leaves all but filled and calls alone.                      *)
LEMMA NothingKeeps ==
  ASSUME GrpInv, UNCHANGED <<msx2p, v9958, status, s, sys, org, bak, fresh>>
  PROVE  GrpInv' /\ EnablesStep
<1>1. /\ fresh' \in SUBSET {"view", "active"} /\ GrpType(bak') /\ sys' \in RegFile /\ org' \in RegFile /\ StateType(s')
      /\ status \in {"off", "on", "suspended"}
  BY DEF GrpInv
<1>2. EnablesStep
  BY DEF EnablesStep
<1>3. CASE On
  <2>1. Agree(s') /\ Holds(Known(s'.g.screen_mode, fresh'), s'.g) /\ status' = "on"
    BY <1>3 DEF GrpInv, On
  <2> QED
    BY <1>1, <1>2, <2>1, OnKeeps
<1>4. CASE ~On
  <2>1. status' \in {"off", "suspended"} /\ (status' = "suspended" => Holds(Known(bak'.screen_mode, fresh'), bak'))
    BY <1>1, <1>4 DEF GrpInv, On
  <2>2. \A r \in SystemRegs \cap Present : sys'[r] = s'.hw[r]
    BY <1>4 DEF GrpInv, SystemInStep, SystemRegs, Present
  <2> QED
    BY <1>1, <1>2, <2>1, <2>2, OffKeeps
<1> QED
  BY <1>3, <1>4

(* The display modes of BLGRP.H are bits of DISP_MODE.                     *)
LEMMA DisplaysInside ==
  ASSUME NEW d \in Displays
  PROVE  Bits(d) \in SUBSET DispMask
<1>1. d \in {0, 2, 4, 6, 12, 14}
  BY GrpAssumption
<1>2. d \in Nat /\ d % 2 = 0 /\ d \div 16 = 0 /\ d \div 32 = 0 /\ d \div 64 = 0 /\ d \div 128 = 0
  BY <1>1
<1>3. Bits(d) \subseteq 0..7 /\ {0, 4, 5, 6, 7} \cap Bits(d) = {}
  BY <1>2, InBits
<1> QED
  BY <1>3 DEF DispMask

(* GrpInv is inductive, and no step but the three named turns an enable    *)
(* bit.                                                                    *)
LEMMA NextKeeps ==
  ASSUME GrpInv, [Next]_vars
  PROVE  GrpInv' /\ EnablesStep
<1>1. CASE GrpInit \/ GrpDeinit \/ GrpSuspend \/ GrpResume \/ Other \/ ScreenMode
  BY <1>1, GrpInitKeeps, GrpDeinitKeeps, GrpSuspendKeeps, GrpResumeKeeps, OtherKeeps, ScreenModeKeeps
<1>2. ASSUME NEW on \in BOOLEAN,
             \/ Set(SetIrqVblank(s, on)) \/ Set(SetIrqHblank(s, on)) \/ Set(SetDisplayOn(s, on))
             \/ Set(SetSpriteOn(s, on)) \/ Set(SetPalette0On(s, on)) \/ Set(SetLine212(s, on))
             \/ Set(SetVsync50Hz(s, on))
      PROVE  GrpInv' /\ EnablesStep
  <2>1. On
    BY <1>2 DEF Set, On
  <2>2. CASE Set(SetIrqVblank(s, on))
    BY <2>1, <2>2, SetIrqVblankFine, SetKeeps
  <2>3. CASE Set(SetIrqHblank(s, on))
    BY <2>1, <2>3, SetIrqHblankFine, SetKeeps
  <2>4. CASE Set(SetDisplayOn(s, on))
    BY <2>1, <2>4, SetDisplayOnFine, SetKeeps
  <2>5. CASE Set(SetSpriteOn(s, on))
    BY <2>1, <2>5, SetSpriteOnFine, SetKeeps
  <2>6. CASE Set(SetPalette0On(s, on))
    BY <2>1, <2>6, SetPalette0OnFine, SetKeeps
  <2>7. CASE Set(SetLine212(s, on))
    BY <2>1, <2>7, SetLine212Fine, SetKeeps
  <2>8. CASE Set(SetVsync50Hz(s, on))
    BY <2>1, <2>8, SetVsync50HzFine, SetKeeps
  <2> QED
    BY <1>2, <2>2, <2>3, <2>4, <2>5, <2>6, <2>7, <2>8
<1>3. ASSUME NEW m \in YjkModes, Set(SetYaeYjkMode(s, m)) PROVE GrpInv' /\ EnablesStep
  <2>1. On /\ m \in SUBSET {3, 4}
    BY <1>3, GrpAssumption DEF Set, On
  <2> QED
    BY <2>1, <1>3, SetYaeYjkModeFine, SetKeeps
<1>4. ASSUME NEW m \in SprSizes, Set(SetSpriteMode(s, m)) PROVE GrpInv' /\ EnablesStep
  <2>1. On /\ m \in SUBSET {0, 1}
    BY <1>4, GrpAssumption DEF Set, On
  <2> QED
    BY <2>1, <1>4, SetSpriteModeFine, SetKeeps
<1>5. ASSUME NEW m \in ScrollModes, Set(SetScrollMode(s, m)) PROVE GrpInv' /\ EnablesStep
  <2>1. On /\ m \in SUBSET {0, 1}
    BY <1>5, GrpAssumption DEF Set, On
  <2> QED
    BY <2>1, <1>5, SetScrollModeFine, SetKeeps
<1>6. ASSUME NEW colour \in Borders,
             Set(SetColorTextFg(s, colour)) \/ Set(SetColorTextBg(s, colour)) \/ Set(SetColorBorder(s, colour))
      PROVE  GrpInv' /\ EnablesStep
  <2>1. On /\ colour \in 0..255
    BY <1>6, GrpAssumption DEF Set, On
  <2>2. CASE Set(SetColorTextFg(s, colour))
    BY <2>1, <2>2, SetColorTextFgFine, SetKeeps
  <2>3. CASE Set(SetColorTextBg(s, colour))
    BY <2>1, <2>3, SetColorTextBgFine, SetKeeps
  <2>4. CASE Set(SetColorBorder(s, colour))
    BY <2>1, <2>4, SetColorBorderFine, SetKeeps
  <2> QED
    BY <1>6, <2>2, <2>3, <2>4
<1>7. ASSUME NEW a \in Adjusts, Set(SetAdjustH(s, a)) \/ Set(SetAdjustV(s, a)) PROVE GrpInv' /\ EnablesStep
  <2>1. On /\ a \in Int
    BY <1>7, GrpAssumption DEF Set, On
  <2>2. CASE Set(SetAdjustH(s, a))
    BY <2>1, <2>2, SetAdjustHFine, SetKeeps
  <2>3. CASE Set(SetAdjustV(s, a))
    BY <2>1, <2>3, SetAdjustVFine, SetKeeps
  <2> QED
    BY <1>7, <2>2, <2>3
<1>8. ASSUME NEW h \in ScrollHs, Set(SetScrollH(s, h)) PROVE GrpInv' /\ EnablesStep
  <2>1. On /\ h \in Nat
    BY <1>8, GrpAssumption DEF Set, On
  <2> QED
    BY <2>1, <1>8, SetScrollHFine, SetKeeps
<1>9. ASSUME NEW ln \in RasterLines, Set(SetScrollV(s, ln)) \/ Set(SetIrqHblankLine(s, ln)) PROVE GrpInv' /\ EnablesStep
  <2>1. On /\ ln \in 0..255
    BY <1>9, GrpAssumption DEF Set, On
  <2>2. CASE Set(SetScrollV(s, ln))
    BY <2>1, <2>2, SetScrollVFine, SetKeeps
  <2>3. CASE Set(SetIrqHblankLine(s, ln))
    BY <2>1, <2>3, SetIrqHblankLineFine, SetKeeps
  <2> QED
    BY <1>9, <2>2, <2>3
<1>10. ASSUME NEW d \in Displays, Set(SetDisplayMode(s, Bits(d))) PROVE GrpInv' /\ EnablesStep
  <2>1. On
    BY <1>10 DEF Set, On
  <2>2. Fine(SetDisplayMode(s, Bits(d)))
    BY <2>1, DisplaysInside, SetDisplayModeFine
  <2> QED
    BY <2>2, <1>10, SetKeeps
<1>11. ASSUME NEW p \in Pages, Page(SetView(s, p), "view") \/ Page(SetActive(s, p), "active") PROVE GrpInv' /\ EnablesStep
  <2>1. On /\ HasMode
    BY <1>11 DEF Page, On
  <2>2. CASE Page(SetView(s, p), "view")
    BY <2>1, <2>2, SetViewTurned, PageKeeps
  <2>3. CASE Page(SetActive(s, p), "active")
    BY <2>1, <2>3, SetActiveTurned, PageKeeps
  <2> QED
    BY <1>11, <2>2, <2>3
<1>12. ASSUME FillPages(ClearedLines(s)) \/ \E p \in Pages : FillPages(ErasedLines(s, p)) PROVE GrpInv' /\ EnablesStep
  BY <1>12, NothingKeeps DEF FillPages
<1>13. CASE UNCHANGED vars
  BY <1>13, NothingKeeps DEF vars
<1> QED
  BY <1>1, <1>2, <1>3, <1>4, <1>5, <1>6, <1>7, <1>8, <1>9, <1>10, <1>11, <1>12, <1>13, Zenon DEF Next

(* GrpInv holds of every state a program can bring BLGRP to.               *)
THEOREM InvTheorem == Spec => []GrpInv
<1>1. Init => GrpInv
  BY StartInv
<1>2. GrpInv /\ [Next]_vars => GrpInv'
  BY NextKeeps
<1> QED
  BY <1>1, <1>2, PTL DEF Spec

(* The display and the interrupts are enabled and disabled by the three    *)
(* functions for it alone (bl_grp_update_reg_bit keeps a register's other  *)
(* bits).                                                                  *)
THEOREM EnablesTheorem == Spec => EnablesKept
<1>1. GrpInv /\ [Next]_vars => [EnablesStep]_vars
  BY NextKeeps
<1> QED
  BY <1>1, InvTheorem, PTL DEF Spec, EnablesKept, EnablesStep

(* The concerns, read from the registers.                                  *)
LEMMA InvRight ==
  ASSUME GrpInv
  PROVE  RegistersRight
<1>1. ShadowIsHardware
  BY DEF GrpInv, ShadowIsHardware, Agree, Present
<1>2. SystemInStep
  BY DEF GrpInv
<1>3. ASSUME On, HasMode PROVE FieldsInHardware
  <2> DEFINE g == s.g
             hw == s.hw
  <2>1. \A c \in Concerns \ {"view", "active"} : Right(c, g)
    BY <1>3 DEF GrpInv, Holds, Known, HasMode
  <2>2. \A r \in Present : g.reg_shadow[r] = hw[r]
    BY <1>3 DEF GrpInv, Agree
  <2>3. /\ hw[0] = g.reg_shadow[0] /\ hw[1] = g.reg_shadow[1] /\ hw[8] = g.reg_shadow[8] /\ hw[9] = g.reg_shadow[9]
        /\ hw[18] = g.reg_shadow[18] /\ hw[23] = g.reg_shadow[23]
        /\ v9958 => hw[25] = g.reg_shadow[25] /\ hw[26] = g.reg_shadow[26] /\ hw[27] = g.reg_shadow[27]
    BY <2>2, SomePresent
  <2> HIDE DEF g, hw
  <2>4. hw[0] \cap {1, 2, 3} = ModeBits[g.screen_mode + 1] /\ hw[1] \cap {3, 4} = TextBits[g.screen_mode + 1]
    BY <2>1, <2>3 DEF Concerns, Right, ModeRight
  <2>5. hw[1] \cap {0, 1} = g.sprite_mode
    BY <2>1, <2>3 DEF Concerns, Right
  <2>6. hw[8] \cap {1, 5} = Bit(~g.sprite_on, 1) \cup Bit(g.palette0_on, 5)
    <3>1. hw[8] \cap {1} = Bit(~g.sprite_on, 1) /\ hw[8] \cap {5} = Bit(g.palette0_on, 5)
      BY <2>1, <2>3 DEF Concerns, Right
    <3> QED
      BY <3>1
  <2>7. (7 \in hw[9]) = g.line_212 /\ g.height = (IF g.line_212 THEN 212 ELSE 192)
    <3>1. LinesRight(g)
      BY <2>1 DEF Concerns, Right
    <3> QED
      BY <2>3, <3>1 DEF LinesRight
  <2>8. hw[9] \cap DispMask = g.display_mode /\ g.interlace_on = (Interlaced \subseteq hw[9])
    <3>1. hw[9] \cap DispMask = g.display_mode /\ g.interlace_on = (Interlaced \subseteq g.display_mode)
      BY <2>1, <2>3 DEF Concerns, Right, DisplayRight
    <3>2. (Interlaced \subseteq hw[9] \cap DispMask) = (Interlaced \subseteq hw[9])
      BY DEF Interlaced, DispMask
    <3> QED
      BY <3>1, <3>2
  <2>9. hw[18] = Bits(AdjToReg(g.adjust_h) + 16 * AdjToReg(g.adjust_v)) /\ hw[23] = Bits(g.scroll_v)
    BY <2>1, <2>3 DEF Concerns, Right, AdjustRight
  <2>10. v9958 => /\ hw[25] \cap {0, 1} = g.scroll_mode /\ hw[25] \cap {3, 4} = g.yae_yjk_mode
                  /\ (8 * Num(hw[26]) - Num(hw[27])) % 512 = g.scroll_h % 512
    <3>1. Right("scroll_mode", g) /\ Right("yjk", g) /\ Right("scroll_h", g)
      BY <2>1 DEF Concerns
    <3>2. v9958 => g.reg_shadow[25] \cap {0, 1} = g.scroll_mode
      BY <3>1 DEF Right
    <3>3. v9958 => g.reg_shadow[25] \cap {3, 4} = g.yae_yjk_mode
      BY <3>1 DEF Right
    <3>4. ScrollHRight(g)
      BY <3>1 DEF Right
    <3> QED
      BY <2>3, <3>2, <3>3, <3>4 DEF ScrollHRight
  <2> QED
    BY <2>4, <2>5, <2>6, <2>7, <2>8, <2>9, <2>10, Zenon DEF FieldsInHardware, g, hw
<1>4. FieldsInHardware
  BY <1>3 DEF FieldsInHardware
<1> QED
  BY <1>1, <1>2, <1>4 DEF RegistersRight, CopiesRight

(* The processor is set as the program asked, whatever was called before   *)
(* and whoever had the screen meanwhile, and each copy of its registers is *)
(* right while it is used.                                                 *)
THEOREM RegistersTheorem == Spec => []RegistersRight
<1>1. GrpInv => RegistersRight
  BY InvRight
<1> QED
  BY <1>1, InvTheorem, PTL

(***************************************************************************)
(* What is drawn and what is shown, once both pages are set.               *)
(***************************************************************************)
(* The lines the picture is made of.                                       *)
LinesShown(ln) ==
  IF s.g.interlace_on THEN <<s.g.active_page + (ln % 2), ln \div 2>> ELSE <<s.g.active_page, ln>>

(* What is right when all concerns are.                                    *)
LEMMA SettledRight ==
  ASSUME GrpInv, Settled
  PROVE  /\ s.g.screen_mode \in 6..9 /\ s.g.interlace_on \in BOOLEAN
         /\ s.g.active_page \in 0..3 /\ s.g.view_page = s.g.active_page
         /\ s.g.interlace_on => s.g.active_page \in {0, 2}
         /\ s.g.screen_mode >= G6 => s.g.active_page <= 1
         /\ s.g.active_page_a16_a14 = (IF s.g.screen_mode < G6 THEN s.g.active_page * 2 ELSE s.g.active_page * 4)
         /\ s.hw[2] \cap {5, 6} = Bits((IF s.g.interlace_on THEN s.g.active_page + 1 ELSE s.g.active_page) * 32)
         /\ (Interlaced \subseteq s.hw[9]) = s.g.interlace_on
         /\ s.g.height \in {192, 212} /\ (IF 7 \in s.hw[9] THEN 212 ELSE 192) = s.g.height
<1>1. On /\ s.g.screen_mode \in 6..9 /\ s.g.view_page = s.g.active_page /\ fresh = {"view", "active"}
  BY DEF Settled, Bitmap, G4, G7
<1>2. StateType(s) /\ Agree(s) /\ \A c \in Known(s.g.screen_mode, fresh) : Right(c, s.g)
  BY <1>1 DEF GrpInv, Holds
<1>3. Known(s.g.screen_mode, fresh) = Concerns
  BY <1>1 DEF Known, Concerns, NoMode
<1>4. LinesRight(s.g) /\ DisplayRight(s.g) /\ AddressRight(s.g) /\ ViewRight(s.g)
  BY <1>2, <1>3 DEF Concerns, Right
<1>5. s.hw[2] = s.g.reg_shadow[2] /\ s.hw[9] = s.g.reg_shadow[9]
  BY <1>2, SomePresent DEF Agree
<1>6. s.g.interlace_on \in BOOLEAN /\ s.g.active_page \in 0..3
  <2>1. GrpType(s.g)
    BY <1>2 DEF StateType
  <2>2. s.g["interlace_on"] \in BOOLEAN
    BY <2>1 DEF GrpType, GrpFields, KindOf
  <2>3. s.g["active_page"] \in 0..3
    BY <2>1 DEF GrpType, GrpFields, KindOf
  <2> QED
    BY <2>2, <2>3
<1>7. s.g.interlace_on => s.g.active_page \in {0, 2}
  BY <1>1, <1>4, <1>6 DEF ViewRight
<1>8. (Interlaced \subseteq s.hw[9]) = s.g.interlace_on
  <2>1. (Interlaced \subseteq s.hw[9] \cap DispMask) = (Interlaced \subseteq s.hw[9])
    BY DEF Interlaced, DispMask
  <2> QED
    BY <1>4, <1>5, <2>1 DEF DisplayRight
<1>9. s.g.height \in {192, 212} /\ (IF 7 \in s.hw[9] THEN 212 ELSE 192) = s.g.height
  BY <1>4, <1>5 DEF LinesRight
<1>10. /\ s.g.active_page_a16_a14 = (IF s.g.screen_mode < G6 THEN s.g.active_page * 2 ELSE s.g.active_page * 4)
       /\ s.g.screen_mode >= G6 => s.g.active_page <= 1
  BY <1>4 DEF AddressRight
<1>11. s.hw[2] \cap {5, 6} = Bits((IF s.g.interlace_on THEN s.g.active_page + 1 ELSE s.g.active_page) * 32)
  BY <1>1, <1>4, <1>5 DEF ViewRight
<1> QED
  BY <1>1, <1>6, <1>7, <1>8, <1>9, <1>10, <1>11

(* The page register holds the odd page when fields alternate.             *)
LEMMA ShownIs ==
  ASSUME GrpInv, Settled
  PROVE  \A ln : ShownLine(ln) = LinesShown(ln)
<1> DEFINE p == s.g.active_page
           q == IF s.g.interlace_on THEN p + 1 ELSE p
           shown == s.hw[2] \cap (IF s.g.screen_mode < G6 THEN {5, 6} ELSE {5})
<1>1. q \in 0..3 /\ s.g.screen_mode \in 6..9 /\ (s.g.screen_mode >= G6 => q \in {0, 1}) /\ s.hw[2] \cap {5, 6} = Bits(q * 32)
  BY SettledRight DEF G6
<1>2. s.g.interlace_on => q % 2 = 1 /\ q - 1 = p
  BY SettledRight
<1>3. ~ s.g.interlace_on => q = p
  OBVIOUS
<1> HIDE DEF q
<1>4. q * 32 \in 0..255 /\ (q * 32) \div 32 = q
  BY <1>1
<1>5. shown = Bits(q * 32)
  <2>1. CASE s.g.screen_mode < G6
    BY <2>1, <1>1
  <2>2. CASE ~ s.g.screen_mode < G6
    <3>1. q \in {0, 1}
      BY <1>1, <2>2 DEF G6
    <3>2. ((q * 32) \div 64) % 2 = 0 /\ q * 32 \in Nat
      BY <3>1
    <3>3. 6 \notin Bits(q * 32)
      BY <3>2, InBits
    <3> QED
      BY <2>2, <3>3, <1>1
  <2> QED
    BY <2>1, <2>2
<1>6. Num(shown) \div 32 = q
  BY <1>4, <1>5, NumOfBits
<1> HIDE DEF shown, p
<1>7. (Interlaced \subseteq s.hw[9]) = s.g.interlace_on
  BY SettledRight
<1>8. ASSUME NEW ln PROVE ShownLine(ln) = LinesShown(ln)
  <2>1. ShownLine(ln) = IF ~ Interlaced \subseteq s.hw[9] THEN <<q, ln>>
                       ELSE IF q % 2 = 1 THEN <<q - 1 + (ln % 2), ln \div 2>> ELSE <<q, ln \div 2>>
    BY <1>6 DEF ShownLine, shown
  <2> QED
    BY <2>1, <1>2, <1>3, <1>7 DEF LinesShown, p
<1> QED
  BY <1>8

(* Or adds where the two have no bit in common.                            *)
LEMMA OrSum ==
  /\ \A x \in 0..1, ln \in 0..3 : Or(x, 2 * ln) = x + 2 * ln
  /\ \A x \in 0..3, ln \in 0..1 : Or(x, 4 * ln) = x + 4 * ln
<1>1. ASSUME NEW k \in {2, 4}, NEW x \in 0..(k - 1), NEW ln \in 0..((8 \div k) - 1)
      PROVE  Or(x, k * ln) = x + k * ln
  <2> DEFINE n == x + k * ln
  <2>1. x \in Nat /\ k * ln \in Nat /\ n \in 0..255
    BY <1>1
  <2>2. /\ (n % 2 = 1 <=> (x % 2 = 1 \/ (k * ln) % 2 = 1))
        /\ ((n \div 2) % 2 = 1 <=> ((x \div 2) % 2 = 1 \/ ((k * ln) \div 2) % 2 = 1))
        /\ ((n \div 4) % 2 = 1 <=> ((x \div 4) % 2 = 1 \/ ((k * ln) \div 4) % 2 = 1))
    <3>1. CASE k = 2
      BY <3>1
    <3>2. CASE k = 4
      BY <3>2
    <3> QED
      BY <3>1, <3>2
  <2>3. \A d \in {8, 16, 32, 64, 128} : n \div d = 0 /\ x \div d = 0 /\ (k * ln) \div d = 0
    <3>1. n \in 0..7 /\ x \in 0..7 /\ k * ln \in 0..7
      BY <1>1
    <3> HIDE DEF n
    <3> QED
      BY <3>1
  <2> HIDE DEF n
  <2>4. /\ 0 \in Bits(n) <=> (0 \in Bits(x) \/ 0 \in Bits(k * ln))
        /\ 1 \in Bits(n) <=> (1 \in Bits(x) \/ 1 \in Bits(k * ln))
        /\ 2 \in Bits(n) <=> (2 \in Bits(x) \/ 2 \in Bits(k * ln))
    BY <2>1, <2>2, InBits
  <2>5. {3, 4, 5, 6, 7} \cap (Bits(n) \cup Bits(x) \cup Bits(k * ln)) = {}
    BY <2>1, <2>3, InBits
  <2>6. Bits(n) \subseteq 0..7 /\ Bits(x) \subseteq 0..7 /\ Bits(k * ln) \subseteq 0..7
    BY <2>1, BitsInside
  <2>7. Bits(x) \cup Bits(k * ln) = Bits(n)
    BY <2>4, <2>5, <2>6
  <2> QED
    <3>1. Num(Bits(n)) = n
      BY <2>1, NumOfBits
    <3>2. Or(x, k * ln) = Num(Bits(n))
      BY <2>7 DEF Or
    <3> QED
      BY <3>1, <3>2 DEF n
<1> QED
  BY <1>1

(* Four pages of 32K, or two of 64K.                                       *)
LEMMA VramSmall ==
  ASSUME NEW t, NEW pg \in 0..3, NEW n \in Nat, n < 32768, t.g.active_page_a16_a14 = pg * 2
  PROVE  Vram(t, n) = pg * 32768 + n
<1> DEFINE h == n \div 16384
           l == n % 16384
<1>1. n = 16384 * h + l /\ h \in 0..1 /\ l \in Nat
  OBVIOUS
<1> HIDE DEF h, l
<1>2. Or(h, 2 * pg) = h + 2 * pg
  BY <1>1, OrSum
<1>3. Vram(t, n) = Or(h, 2 * pg) * 16384 + l
  BY DEF Vram, h, l
<1> QED
  BY <1>1, <1>2, <1>3

LEMMA VramLarge ==
  ASSUME NEW t, NEW pg \in 0..1, NEW n \in Nat, n < 65536, t.g.active_page_a16_a14 = pg * 4
  PROVE  Vram(t, n) = pg * 65536 + n
<1> DEFINE h == n \div 16384
           l == n % 16384
<1>1. n = 16384 * h + l /\ h \in 0..3 /\ l \in Nat
  <2>1. n \in Nat /\ h \in Nat /\ l \in Nat /\ n = 16384 * h + l
    OBVIOUS
  <2> HIDE DEF h, l
  <2>2. 16384 * h <= 65535
    BY <2>1
  <2> QED
    BY <2>1, <2>2
<1> HIDE DEF h, l
<1>2. Or(h, 4 * pg) = h + 4 * pg
  BY <1>1, OrSum
<1>3. Vram(t, n) = Or(h, 4 * pg) * 16384 + l
  BY DEF Vram, h, l
<1> QED
  BY <1>1, <1>2, <1>3

(* Bytes of a line.                                                        *)
LEMMA ByteOfLine ==
  ASSUME s.g.screen_mode \in 6..9, NEW x \in {0, 1, 255}
  PROVE  /\ RowOf(s) = (IF s.g.screen_mode < G6 THEN 128 ELSE 256)
         /\ x \div 2^ShiftOf(s) \in 0..(RowOf(s) - 1)
<1>1. s.g.screen_mode \in {6, 7, 8, 9}
  OBVIOUS
<1>2. RowOf(s) = (IF s.g.screen_mode < G6 THEN 128 ELSE 256)
  BY <1>1 DEF RowOf, RowByte, G6
<1>3. ShiftOf(s) = (IF s.g.screen_mode \in {6, 8} THEN 1 ELSE IF s.g.screen_mode = 7 THEN 2 ELSE 0)
  BY <1>1 DEF ShiftOf, BppShift
<1>4. 2^ShiftOf(s) = (IF s.g.screen_mode \in {6, 8} THEN 2 ELSE IF s.g.screen_mode = 7 THEN 4 ELSE 1)
  BY <1>1, <1>3, Powers
<1> DEFINE k == 2^ShiftOf(s)
<1> HIDE DEF k
<1>5. x \div k \in 0..(RowOf(s) - 1)
  <2>1. k = (IF s.g.screen_mode \in {6, 8} THEN 2 ELSE IF s.g.screen_mode = 7 THEN 4 ELSE 1)
    BY <1>4 DEF k
  <2> QED
    BY <1>1, <1>2, <2>1 DEF G6
<1> QED
  BY <1>2, <1>5 DEF k

(* A line of the page drawn on.                                            *)
LEMMA AddressIs ==
  ASSUME GrpInv, Settled, NEW x \in {0, 1, 255}, NEW ln \in Nat, ln < 212
  PROVE  Vram(s, Address(s, x, ln)) = VdpAddress(<<s.g.active_page, ln>>, x)
<1> DEFINE p == s.g.active_page
           k == x \div 2^ShiftOf(s)
           row == RowOf(s)
           addr == ln * row + k
<1>1. /\ s.g.screen_mode \in 6..9 /\ p \in 0..3 /\ (s.g.screen_mode >= G6 => p <= 1)
      /\ s.g.active_page_a16_a14 = (IF s.g.screen_mode < G6 THEN p * 2 ELSE p * 4)
  BY SettledRight
<1>2. row = (IF s.g.screen_mode < G6 THEN 128 ELSE 256) /\ k \in 0..(row - 1)
  BY <1>1, ByteOfLine
<1>3. Address(s, x, ln) = addr % 65536
  BY DEF Address
<1>4. VdpAddress(<<p, ln>>, x) = p * (IF s.g.screen_mode < G6 THEN 32768 ELSE 65536) + ln * row + k
  BY DEF VdpAddress
<1>5. CASE s.g.screen_mode < G6
  <2>1. row = 128 /\ k \in 0..127
    BY <1>2, <1>5
  <2> HIDE DEF p, k, row
  <2>2. addr \in Nat /\ addr < 32768
    BY <2>1
  <2>3. s.g.active_page_a16_a14 = p * 2 /\ p \in 0..3
    BY <1>1, <1>5
  <2>4. VdpAddress(<<p, ln>>, x) = p * 32768 + addr
    BY <1>4, <1>5, <2>1, <2>3
  <2> HIDE DEF addr
  <2>5. addr % 65536 = addr
    BY <2>2
  <2>6. Vram(s, addr) = p * 32768 + addr
    BY <2>2, <2>3, VramSmall
  <2> QED
    BY <1>3, <2>4, <2>5, <2>6 DEF p
<1>6. CASE ~ s.g.screen_mode < G6
  <2>1. row = 256 /\ k \in 0..255
    BY <1>2, <1>6
  <2> HIDE DEF p, k, row
  <2>2. addr \in Nat /\ addr < 65536
    BY <2>1
  <2>3. s.g.active_page_a16_a14 = p * 4 /\ p \in 0..1
    BY <1>1, <1>6 DEF G6
  <2>4. VdpAddress(<<p, ln>>, x) = p * 65536 + addr
    BY <1>4, <1>6, <2>1, <2>3
  <2> HIDE DEF addr
  <2>5. addr % 65536 = addr
    BY <2>2
  <2>6. Vram(s, addr) = p * 65536 + addr
    BY <2>2, <2>3, VramLarge
  <2> QED
    BY <1>3, <2>4, <2>5, <2>6 DEF p
<1> QED
  BY <1>5, <1>6

(***************************************************************************)
(* Drawing and clearing.                                                   *)
(***************************************************************************)
LEMMA InvDrawn ==
  ASSUME GrpInv
  PROVE  DrawnIsShown
<1> SUFFICES ASSUME Settled, NEW ln \in {l \in LineSample \cup {l + 212 : l \in LineSample} : l < Height}
             PROVE  /\ PutLine(s, ln) = ShownLine(ln)
                    /\ \A x \in {0, 1, 255} :
                         /\ ~s.g.interlace_on => GetAddress(s, x, ln) = VdpAddress(ShownLine(ln), x)
                         /\ PrintAddress(s, x, ln - (ln % 2)) = VdpAddress(ShownLine(ln - (ln % 2)), x)
  BY Zenon DEF DrawnIsShown
<1> DEFINE p == s.g.active_page
           z == ln - (ln % 2)
<1>1. \A l : ShownLine(l) = LinesShown(l)
  BY ShownIs
<1>2. /\ (Interlaced \subseteq s.hw[9]) = s.g.interlace_on /\ s.g.interlace_on \in BOOLEAN
      /\ s.g.height \in {192, 212} /\ (IF 7 \in s.hw[9] THEN 212 ELSE 192) = s.g.height
  BY SettledRight
<1>3. Height = IF s.g.interlace_on THEN s.g.height * 2 ELSE s.g.height
  BY <1>2 DEF Height
<1>4. ln \in Nat /\ ln < 424 /\ (~s.g.interlace_on => ln < 212)
  <2>1. ln < Height /\ ln \in LineSample \cup {l + 212 : l \in LineSample}
    OBVIOUS
  <2>2. ln \in Nat
    BY <2>1, GrpAssumption
  <2> QED
    BY <2>1, <2>2, <1>2, <1>3
<1>5. z \in Nat /\ z < 424 /\ z % 2 = 0 /\ z <= ln
  BY <1>4
<1> HIDE DEF z
<1>6. CASE s.g.interlace_on
  <2>1. PutLine(s, ln) = <<p + (ln % 2), (ln \div 2) % 256>>
    BY <1>6 DEF PutLine
  <2>2. (ln \div 2) % 256 = ln \div 2 /\ z \div 2 \in Nat /\ z \div 2 < 212 /\ p \in Nat
    BY <1>4, <1>5, SettledRight
  <2>3. PutLine(s, ln) = ShownLine(ln)
    BY <2>1, <2>2, <1>1, <1>6 DEF LinesShown
  <2>4. ShownLine(z) = <<p, z \div 2>>
    BY <2>2, <1>1, <1>5, <1>6 DEF LinesShown
  <2>5. ASSUME NEW x \in {0, 1, 255} PROVE PrintAddress(s, x, z) = VdpAddress(ShownLine(z), x)
    <3>1. PrintAddress(s, x, z) = Vram(s, Address(s, x, z \div 2))
      BY <1>6 DEF PrintAddress
    <3>2. Vram(s, Address(s, x, z \div 2)) = VdpAddress(<<p, z \div 2>>, x)
      BY <2>2, AddressIs
    <3> QED
      BY <2>4, <3>1, <3>2
  <2> QED
    BY <2>3, <2>5, <1>6 DEF z
<1>7. CASE ~s.g.interlace_on
  <2>1. ln \in Nat /\ ln < 212 /\ z \in Nat /\ z < 212 /\ ln % 256 = ln
    BY <1>4, <1>5, <1>7
  <2>2. PutLine(s, ln) = ShownLine(ln) /\ ShownLine(ln) = <<p, ln>> /\ ShownLine(z) = <<p, z>>
    BY <2>1, <1>1, <1>7 DEF LinesShown, PutLine
  <2>3. ASSUME NEW x \in {0, 1, 255}
        PROVE  GetAddress(s, x, ln) = VdpAddress(ShownLine(ln), x) /\ PrintAddress(s, x, z) = VdpAddress(ShownLine(z), x)
    <3>1. GetAddress(s, x, ln) = Vram(s, Address(s, x, ln)) /\ PrintAddress(s, x, z) = Vram(s, Address(s, x, z))
      BY <1>7 DEF PrintAddress, GetAddress
    <3>2. Vram(s, Address(s, x, ln)) = VdpAddress(<<p, ln>>, x) /\ Vram(s, Address(s, x, z)) = VdpAddress(<<p, z>>, x)
      BY <2>1, AddressIs
    <3> QED
      BY <2>2, <3>1, <3>2
  <2> QED
    BY <2>2, <2>3 DEF z
<1> QED
  BY <1>2, <1>6, <1>7

(* Pixels are drawn, read and printed at the lines that show them, on the  *)
(* page shown, interlaced or not (bl_grp_put_pixel, bl_grp_get_pixel).     *)
THEOREM DrawnTheorem == Spec => []DrawnIsShown
<1>1. GrpInv => DrawnIsShown
  BY InvDrawn
<1> QED
  BY <1>1, InvTheorem, PTL

(* The lines cleared are the lines shown.                                  *)
LEMMA ClearedAreShown ==
  ASSUME GrpInv, Settled
  PROVE  ClearedLines(s) = {line \in (0..3) \X LineSample : \E ln \in 0..Height - 1 : ShownLine(ln) = line}
<1> DEFINE p == s.g.active_page
           h == s.g.height
           i == s.g.interlace_on
           PlaceShown == {line \in (0..3) \X LineSample : \E ln \in 0..Height - 1 : ShownLine(ln) = line}
<1>1. \A ln : ShownLine(ln) = IF i THEN <<p + (ln % 2), ln \div 2>> ELSE <<p, ln>>
  BY ShownIs DEF LinesShown
<1>2. /\ (Interlaced \subseteq s.hw[9]) = i /\ i \in BOOLEAN /\ p \in 0..3 /\ (i => p \in {0, 2})
      /\ h \in {192, 212} /\ (IF 7 \in s.hw[9] THEN 212 ELSE 192) = h
  BY SettledRight
<1>3. Height = IF i THEN h * 2 ELSE h
  BY <1>2 DEF Height
<1>4. LineSample \subseteq Nat /\ \A l \in LineSample : l < 256
  BY GrpAssumption
<1>5. ClearedLines(s) = Fill(p, h) \cup (IF i THEN Fill(p + 1, h) ELSE {})
  BY <1>2 DEF ClearedLines
<1> HIDE DEF p, h, i
<1>6. ASSUME NEW q \in 0..3 PROVE Fill(q, h) = {<<q, l>> : l \in {n \in LineSample : n < h}}
  <2>1. ASSUME NEW at \in {q, q + 1} \X LineSample
        PROVE  256 * (at[1] - q) + at[2] < h <=> (at[1] = q /\ at[2] < h)
    <3> DEFINE b == at[1]
               l == at[2]
    <3>1. b \in {q, q + 1} /\ l \in LineSample
      OBVIOUS
    <3> HIDE DEF b, l
    <3>2. l \in Nat /\ l < 256 /\ h \in Nat /\ h < 256 /\ q \in Int
      BY <3>1, <1>2, <1>4
    <3>3. 256 * (b - q) + l < h <=> (b = q /\ l < h)
      <4>1. CASE b = q
        BY <4>1, <3>2
      <4>2. CASE b = q + 1
        BY <4>2, <3>2
      <4> QED
        BY <3>1, <4>1, <4>2
    <3> QED
      BY <3>3 DEF b, l
  <2>2. Fill(q, h) = {at \in {q, q + 1} \X LineSample : at[1] = q /\ at[2] < h}
    BY <2>1 DEF Fill
  <2> QED
    BY <2>2
<1>7. CASE ~i
  <2>1. ClearedLines(s) = {<<p, l>> : l \in {n \in LineSample : n < h}}
    BY <1>2, <1>5, <1>6, <1>7
  <2>2. ASSUME NEW line \in (0..3) \X LineSample
        PROVE  (\E ln \in 0..Height - 1 : ShownLine(ln) = line) <=> line[1] = p /\ line[2] < h
    <3>1. line = <<line[1], line[2]>> /\ line[2] \in Nat
      <4>1. line = <<line[1], line[2]>> /\ line[2] \in LineSample
        OBVIOUS
      <4> QED
        BY <4>1, <1>4
    <3>2. ASSUME NEW ln \in 0..Height - 1, ShownLine(ln) = line PROVE line[1] = p /\ line[2] < h
      BY <1>1, <1>2, <1>3, <1>7, <3>2
    <3>3. ASSUME line[1] = p, line[2] < h PROVE \E ln \in 0..Height - 1 : ShownLine(ln) = line
      <4>1. line[2] \in 0..Height - 1
        BY <1>2, <1>3, <1>7, <3>1, <3>3
      <4>2. ShownLine(line[2]) = line
        BY <1>1, <1>7, <3>1, <3>3
      <4> QED
        BY <4>1, <4>2
    <3> QED
      BY <3>2, <3>3
  <2>3. PlaceShown = {line \in (0..3) \X LineSample : line[1] = p /\ line[2] < h}
    BY <2>2
  <2> HIDE DEF PlaceShown
  <2>4. PlaceShown = {<<p, l>> : l \in {n \in LineSample : n < h}}
    BY <2>3, <1>2
  <2> QED
    BY <2>1, <2>4 DEF PlaceShown
<1>8. CASE i
  <2>1. ClearedLines(s) = {<<p, l>> : l \in {n \in LineSample : n < h}} \cup {<<p + 1, l>> : l \in {n \in LineSample : n < h}}
    <3>1. p + 1 \in 0..3
      BY <1>2, <1>8
    <3> QED
      BY <3>1, <1>2, <1>5, <1>6, <1>8
  <2>2. ASSUME NEW line \in (0..3) \X LineSample
        PROVE  (\E ln \in 0..Height - 1 : ShownLine(ln) = line) <=> line[1] \in {p, p + 1} /\ line[2] < h
    <3>1. line = <<line[1], line[2]>> /\ line[2] \in Nat /\ line[1] \in 0..3
      <4>1. line = <<line[1], line[2]>> /\ line[1] \in 0..3 /\ line[2] \in LineSample
        OBVIOUS
      <4> QED
        BY <4>1, <1>4
    <3>2. ASSUME NEW ln \in 0..Height - 1, ShownLine(ln) = line PROVE line[1] \in {p, p + 1} /\ line[2] < h
      <4>1. line = <<p + (ln % 2), ln \div 2>>
        BY <1>1, <1>8, <3>2
      <4>2. ln \in 0..(h * 2 - 1)
        BY <1>3, <1>8
      <4>3. ln \div 2 < h /\ p + (ln % 2) \in {p, p + 1}
        BY <1>2, <4>2
      <4> QED
        BY <4>1, <4>3
    <3>3. ASSUME line[1] \in {p, p + 1}, line[2] < h PROVE \E ln \in 0..Height - 1 : ShownLine(ln) = line
      <4> DEFINE ln == 2 * line[2] + (line[1] - p)
      <4>1. ln \in 0..Height - 1 /\ ln % 2 = line[1] - p /\ ln \div 2 = line[2]
        BY <1>2, <1>3, <1>8, <3>1, <3>3
      <4> HIDE DEF ln
      <4>2. p + (ln % 2) = line[1]
        <5>1. p \in Int /\ line[1] \in Int /\ ln % 2 = line[1] - p
          BY <1>2, <3>1, <4>1
        <5> QED
          BY <5>1
      <4>3. ShownLine(ln) = line
        BY <1>1, <1>8, <3>1, <4>1, <4>2
      <4> QED
        BY <4>1, <4>3
    <3> QED
      BY <3>2, <3>3
  <2>3. PlaceShown = {line \in (0..3) \X LineSample : line[1] \in {p, p + 1} /\ line[2] < h}
    BY <2>2
  <2> HIDE DEF PlaceShown
  <2>4. PlaceShown = {<<p, l>> : l \in {n \in LineSample : n < h}} \cup {<<p + 1, l>> : l \in {n \in LineSample : n < h}}
    BY <2>3, <1>2, <1>8
  <2> QED
    BY <2>1, <2>4 DEF PlaceShown
<1> QED
  BY <1>2, <1>7, <1>8

(* bl_grp_clear_screen fills the lines shown and no other.                 *)
THEOREM ClearTheorem == Spec => ClearExact
<1> DEFINE Cleared ==
      (Settled /\ FillPages(ClearedLines(s))) =>
        filled' = {line \in (0..3) \X LineSample : \E ln \in 0..Height - 1 : ShownLine(ln) = line}
<1>1. GrpInv /\ [Next]_vars => [Cleared]_vars
  BY ClearedAreShown DEF FillPages
<1> QED
  BY <1>1, InvTheorem, PTL DEF Spec, ClearExact

-----------------------------------------------------------------------------
(***************************************************************************)
(* Quotients and remainders.                                               *)
(***************************************************************************)
LEMMA QuotientOf ==
  ASSUME NEW m \in Nat, m > 0, NEW q \in Int, NEW r \in 0..m - 1
  PROVE  (q * m + r) \div m = q /\ (q * m + r) % m = r
<1> DEFINE n == q * m + r
           d == n \div m
           e == n % m
<1>1. n \in Int
  OBVIOUS
<1>2. n = m * d + e /\ e \in 0..m - 1 /\ d \in Int
  <2> HIDE DEF n
  <2> QED
    BY <1>1
<1>3. q * m + r = m * d + e
  BY <1>2
<1> HIDE DEF n, d, e
<1>4. (q - d) * m = e - r /\ q - d \in Int
  BY <1>2, <1>3
<1> DEFINE k == q - d
<1>5. k \in Int /\ k * m = e - r
  BY <1>4
<1> HIDE DEF k
<1>6. k >= 1 => k * m >= m
  BY <1>5
<1>7. k <= -1 => k * m <= -m
  BY <1>5
<1>8. k = 0
  BY <1>2, <1>5, <1>6, <1>7
<1>9. q = d
  BY <1>2, <1>8 DEF k
<1>10. r = e
  BY <1>2, <1>5, <1>8
<1> QED
  BY <1>9, <1>10 DEF d, e, n

LEMMA DivisionOf ==
  ASSUME NEW m \in Nat, m > 0, NEW n \in Nat
  PROVE  n \div m \in Nat /\ n % m \in 0..m - 1 /\ n = (n \div m) * m + (n % m)
<1>1. n \div m \in Int /\ n % m \in 0..m - 1
  OBVIOUS
<1>2. n = m * (n \div m) + (n % m)
  OBVIOUS
<1> DEFINE d == n \div m
           e == n % m
<1>3. d \in Int /\ e \in 0..m - 1 /\ n = d * m + e
  BY <1>1, <1>2
<1> HIDE DEF d, e
<1>4. d <= -1 => d * m <= -m
  BY <1>3
<1>5. d >= 0
  BY <1>3, <1>4
<1> QED
  BY <1>3, <1>5 DEF d, e

-----------------------------------------------------------------------------
(***************************************************************************)
(* Sequences of dots                                                       *)
(***************************************************************************)
(* A set of numbers that has 0 and the successors of what it has.          *)
LEMMA AllNumbers ==
  ASSUME NEW P, 0 \in P, \A k \in Nat : k \in P => k + 1 \in P, NEW n \in Nat
  PROVE  n \in P
<1> DEFINE Missing == Nat \ P
<1> SUFFICES ASSUME Missing # {} PROVE FALSE
  OBVIOUS
<1>1. PICK k \in Missing : \A j \in Missing : <<j, k>> \notin OpToRel(<, Nat)
  <2>1. Missing \subseteq Nat
    OBVIOUS
  <2> QED
    BY <2>1, NatLessThanWellFounded, WFMin
<1>2. \A j \in Missing : ~(j < k)
  BY <1>1, Zenon DEF OpToRel
<1>3. k # 0 /\ k \in Nat
  OBVIOUS
<1>4. k - 1 \in Nat /\ k - 1 < k /\ (k - 1) + 1 = k
  BY <1>3
<1>5. k - 1 \in P
  BY <1>2, <1>4
<1> QED
  BY <1>1, <1>4, <1>5

Triples == Int \X Int \X Int

(* sq plots the dots P, and each of them once if `one`.                     *)
Plots(sq, P, one) ==
  /\ sq \in Seq(Triples)
  /\ \A k \in 1..Len(sq) : sq[k] \in P
  /\ \A d \in P : \E k \in 1..Len(sq) : sq[k] = d
  /\ one => \A j, k \in 1..Len(sq) : j # k => sq[j] # sq[k]

LEMMA PlotsNone == ASSUME NEW one PROVE Plots(<<>>, {}, one)
  BY DEF Plots

LEMMA PlotsDot == ASSUME NEW d \in Triples, NEW one PROVE Plots(<<d>>, {d}, one)
<1>1. <<d>> \in Seq(Triples) /\ Len(<<d>>) = 1 /\ <<d>>[1] = d
  OBVIOUS
<1> QED
  BY <1>1 DEF Plots

LEMMA PlotsJoin ==
  ASSUME NEW sq, NEW t, NEW P, NEW Q, NEW one, Plots(sq, P, one), Plots(t, Q, one), one => P \cap Q = {}
  PROVE  Plots(sq \o t, P \cup Q, one)
<1> DEFINE u == sq \o t
           m == Len(sq)
           n == Len(t)
<1>1. sq \in Seq(Triples) /\ t \in Seq(Triples)
  BY DEF Plots
<1>2. /\ u \in Seq(Triples) /\ Len(u) = m + n /\ m \in Nat /\ n \in Nat
      /\ \A k \in 1..m + n : u[k] = IF k <= m THEN sq[k] ELSE t[k - m]
  BY <1>1
<1> HIDE DEF u, m, n
<1>3. /\ \A k \in 1..m : sq[k] \in P
      /\ \A d \in P : \E k \in 1..m : sq[k] = d
      /\ one => \A j, k \in 1..m : j # k => sq[j] # sq[k]
  BY DEF Plots, m
<1>4. /\ \A k \in 1..n : t[k] \in Q
      /\ \A d \in Q : \E k \in 1..n : t[k] = d
      /\ one => \A j, k \in 1..n : j # k => t[j] # t[k]
  BY DEF Plots, n
<1>5. \A k \in 1..m + n : u[k] \in P \cup Q
  <2> SUFFICES ASSUME NEW k \in 1..m + n PROVE u[k] \in P \cup Q
    OBVIOUS
  <2>1. CASE k <= m
    BY <1>2, <1>3, <2>1
  <2>2. CASE k > m
    <3>1. k - m \in 1..n
      BY <1>2, <2>2
    <3> QED
      BY <1>2, <1>4, <2>2, <3>1
  <2> QED
    BY <1>2, <2>1, <2>2
<1>6. \A d \in P \cup Q : \E k \in 1..m + n : u[k] = d
  <2> SUFFICES ASSUME NEW d \in P \cup Q PROVE \E k \in 1..m + n : u[k] = d
    OBVIOUS
  <2>1. CASE d \in P
    <3>1. PICK k \in 1..m : sq[k] = d
      BY <1>3, <2>1
    <3>2. k \in 1..m + n /\ u[k] = d
      BY <1>2, <3>1
    <3> QED
      BY <3>2
  <2>2. CASE d \in Q
    <3>1. PICK k \in 1..n : t[k] = d
      BY <1>4, <2>2
    <3>2. k + m \in 1..m + n /\ ~(k + m <= m) /\ (k + m) - m = k
      BY <1>2
    <3>3. u[k + m] = d
      BY <1>2, <3>1, <3>2
    <3> QED
      BY <3>2, <3>3
  <2> QED
    BY <2>1, <2>2
<1>7. ASSUME one, NEW j \in 1..m + n, NEW k \in 1..m + n, j # k PROVE u[j] # u[k]
  <2>1. CASE j <= m /\ k <= m
    BY <1>2, <1>3, <1>7, <2>1
  <2>2. CASE j > m /\ k > m
    <3>1. j - m \in 1..n /\ k - m \in 1..n /\ j - m # k - m
      BY <1>2, <1>7, <2>2
    <3> QED
      BY <1>2, <1>4, <1>7, <2>2, <3>1
  <2>3. CASE j <= m /\ k > m
    <3>1. k - m \in 1..n
      BY <1>2, <2>3
    <3>2. u[j] \in P
      BY <1>2, <1>3, <2>3
    <3>3. u[k] = t[k - m]
      BY <1>2, <2>3
    <3>4. u[k] \in Q
      BY <1>4, <3>1, <3>3
    <3> QED
      BY <1>7, <3>2, <3>4
  <2>4. CASE j > m /\ k <= m
    <3>1. j - m \in 1..n
      BY <1>2, <2>4
    <3>2. u[k] \in P
      BY <1>2, <1>3, <2>4
    <3>3. u[j] = t[j - m]
      BY <1>2, <2>4
    <3>4. u[j] \in Q
      BY <1>4, <3>1, <3>3
    <3> QED
      BY <1>7, <3>2, <3>4
  <2> QED
    BY <1>2, <2>1, <2>2, <2>3, <2>4
<1>8. Plots(u, P \cup Q, one)
  BY <1>2, <1>5, <1>6, <1>7 DEF Plots
<1> QED
  BY <1>8 DEF u

Folded(F, S, n) == F = [k \in 1..n |-> IF k = 1 THEN S[k] ELSE F[k - 1] \o S[k]]

LEMMA FoldedExists ==
  ASSUME NEW S, NEW n \in Nat
  PROVE  \E F : Folded(F, S, n)
<1> DEFINE P == {m \in Nat : \E F : Folded(F, S, m)}
<1>1. 0 \in P
  <2> DEFINE F == [k \in 1..0 |-> S]
  <2>1. F = [k \in 1..0 |-> IF k = 1 THEN S[k] ELSE F[k - 1] \o S[k]]
    <3>1. \A k \in 1..0 : FALSE
      OBVIOUS
    <3> QED
      BY <3>1, Zenon
  <2> HIDE DEF F
  <2>2. Folded(F, S, 0)
    BY <2>1, Zenon DEF Folded
  <2> QED
    BY <2>2
<1>2. ASSUME NEW m \in Nat, m \in P PROVE m + 1 \in P
  <2>1. PICK F : Folded(F, S, m)
    BY <1>2
  <2>2. F = [k \in 1..m |-> IF k = 1 THEN S[k] ELSE F[k - 1] \o S[k]]
    BY <2>1, Zenon DEF Folded
  <2> DEFINE G == [k \in 1..m + 1 |-> IF k = m + 1 THEN (IF k = 1 THEN S[k] ELSE F[k - 1] \o S[k]) ELSE F[k]]
  <2>3. \A k \in 1..m + 1 : G[k] = IF k = 1 THEN S[k] ELSE G[k - 1] \o S[k]
    <3> SUFFICES ASSUME NEW k \in 1..m + 1 PROVE G[k] = IF k = 1 THEN S[k] ELSE G[k - 1] \o S[k]
      OBVIOUS
    <3>1. k = 1 \/ (k - 1 \in 1..m + 1 /\ k - 1 # m + 1)
      OBVIOUS
    <3>2. CASE k = m + 1
      <4>1. G[k] = IF k = 1 THEN S[k] ELSE F[k - 1] \o S[k]
        BY <3>2, Zenon
      <4>2. k = 1 \/ G[k - 1] = F[k - 1]
        BY <3>1, Zenon
      <4> QED
        BY <4>1, <4>2, Zenon
    <3>3. CASE k # m + 1
      <4>1. k \in 1..m
        BY <3>3
      <4>2. G[k] = F[k] /\ F[k] = IF k = 1 THEN S[k] ELSE F[k - 1] \o S[k]
        BY <2>2, <3>3, <4>1, Zenon
      <4>3. k = 1 \/ G[k - 1] = F[k - 1]
        BY <3>1, Zenon
      <4> QED
        BY <4>2, <4>3, Zenon
    <3> QED
      BY <3>2, <3>3
  <2>4. G = [k \in 1..m + 1 |-> G[k]]
    BY Zenon
  <2> HIDE DEF G
  <2>5. Folded(G, S, m + 1)
    BY <2>3, <2>4, Zenon DEF Folded
  <2> QED
    BY <2>5
<1> HIDE DEF P
<1>3. n \in P
  BY <1>1, <1>2, AllNumbers
<1> QED
  BY <1>3 DEF P

LEMMA FlattenIs ==
  ASSUME NEW S, NEW n \in Nat, Len(S) = n, n # 0
  PROVE  \E F : Folded(F, S, n) /\ FlattenSeq(S) = F[n]
<1> DEFINE F == CHOOSE g : g = [k \in 1..n |-> IF k = 1 THEN S[k] ELSE g[k - 1] \o S[k]]
<1>1. FlattenSeq(S) = F[n]
  <2> DEFINE m == Len(S)
             F2 == CHOOSE g : g = [k \in 1..m |-> IF k = 1 THEN S[k] ELSE g[k - 1] \o S[k]]
  <2>1. m # 0 => FlattenSeq(S) = F2[m]
    BY Zenon DEF FlattenSeq
  <2>2. m = n /\ F2 = F
    OBVIOUS
  <2> HIDE DEF m, F2, F
  <2> QED
    BY <2>1, <2>2
<1>2. PICK W : W = [k \in 1..n |-> IF k = 1 THEN S[k] ELSE W[k - 1] \o S[k]]
  <2>1. \E W : Folded(W, S, n)
    BY FoldedExists
  <2> QED
    BY <2>1, Zenon DEF Folded
<1>3. F = [k \in 1..n |-> IF k = 1 THEN S[k] ELSE F[k - 1] \o S[k]]
  BY <1>2, Zenon
<1> HIDE DEF F
<1>4. Folded(F, S, n)
  BY <1>3, Zenon DEF Folded
<1> QED
  BY <1>1, <1>4

LEMMA PlotsFlatten ==
  ASSUME NEW S, NEW Q, NEW n \in Nat, S = [k \in 1..n |-> S[k]], NEW one,
         \A k \in 1..n : Plots(S[k], Q[k], one),
         one => \A j, k \in 1..n : j # k => Q[j] \cap Q[k] = {}
  PROVE  Plots(FlattenSeq(S), UNION {Q[k] : k \in 1..n}, one)
<1>1. Len(S) = n
  OBVIOUS
<1>2. CASE n = 0
  <2>1. FlattenSeq(S) = S
    BY <1>1, <1>2 DEF FlattenSeq
  <2>2. S \in Seq(Triples) /\ \A k \in 1..n : FALSE
    BY <1>2
  <2>3. UNION {Q[k] : k \in 1..n} = {}
    BY <2>2
  <2> QED
    BY <1>1, <2>1, <2>2, <2>3 DEF Plots
<1>3. CASE n # 0
  <2>1. PICK F : Folded(F, S, n) /\ FlattenSeq(S) = F[n]
    BY <1>1, <1>3, FlattenIs
  <2>2. \A k \in 1..n : F[k] = IF k = 1 THEN S[k] ELSE F[k - 1] \o S[k]
    BY <2>1, Zenon DEF Folded
  <2> DEFINE U(m) == UNION {Q[k] : k \in 1..m}
             P == {m \in Nat : m + 1 \in 1..n => Plots(F[m + 1], U(m + 1), one)}
  <2>3. 0 \in P
    <3>1. 1 \in 1..n /\ F[1] = S[1]
      BY <1>3, <2>2
    <3>2. U(1) = Q[1]
      <4>1. 1..1 = {1}
        OBVIOUS
      <4> QED
        BY <4>1
    <3>3. Plots(F[1], U(1), one)
      BY <3>1, <3>2, Zenon
    <3> HIDE DEF U
    <3> QED
      BY <3>3
  <2>4. ASSUME NEW m \in Nat, m \in P PROVE m + 1 \in P
    <3> DEFINE i == m + 2
    <3> SUFFICES ASSUME i \in 1..n PROVE Plots(F[i], U(i), one)
      <4>1. (m + 1) + 1 = i /\ m + 1 \in Nat
        OBVIOUS
      <4> HIDE DEF U, i
      <4> QED
        BY <4>1
    <3>1. m + 1 \in 1..n /\ i - 1 = m + 1 /\ i # 1
      OBVIOUS
    <3>2. Plots(F[m + 1], U(m + 1), one)
      <4> HIDE DEF U
      <4> QED
        BY <2>4, <3>1
    <3>3. F[i] = F[m + 1] \o S[i]
      <4>1. F[i] = F[i - 1] \o S[i]
        BY <2>2, <3>1, Zenon
      <4> HIDE DEF i
      <4> QED
        BY <3>1, <4>1, Zenon
    <3>4. U(i) = U(m + 1) \cup Q[i]
      <4>1. 1..i = (1..m + 1) \cup {i}
        OBVIOUS
      <4> HIDE DEF i
      <4> QED
        BY <4>1
    <3>5. one => U(m + 1) \cap Q[i] = {}
      <4> SUFFICES ASSUME one, NEW k \in 1..m + 1 PROVE Q[k] \cap Q[i] = {}
        OBVIOUS
      <4>1. k \in 1..n /\ k # i
        BY <3>1
      <4> HIDE DEF i
      <4> QED
        BY <4>1
    <3>6. Plots(S[i], Q[i], one)
      OBVIOUS
    <3> HIDE DEF U, i
    <3> QED
      BY <3>2, <3>3, <3>4, <3>5, <3>6, PlotsJoin
  <2> HIDE DEF P
  <2>5. n - 1 \in P
    <3>1. n - 1 \in Nat
      BY <1>3
    <3> QED
      BY <2>3, <2>4, <3>1, AllNumbers
  <2> HIDE DEF U
  <2>6. Plots(F[n], U(n), one)
    <3>1. (n - 1) + 1 = n /\ n \in 1..n
      BY <1>3
    <3> QED
      BY <2>5, <3>1 DEF P
  <2> QED
    BY <2>1, <2>6 DEF U
<1> QED
  BY <1>2, <1>3

(***************************************************************************)
(* Lines                                                                   *)
(***************************************************************************)
Stepped(p, long, short) ==
  LET e == p.error - short
  IN [a |-> p.a + 1, b |-> p.b + (IF e < 0 THEN 1 ELSE 0), error |-> IF e < 0 THEN e + long ELSE e]

Begun(long) == [a |-> 0, b |-> 0, error |-> long \div 2]

Walked(F, long, short, n) == F = [k \in 0..n |-> IF k = 0 THEN Begun(long) ELSE Stepped(F[k - 1], long, short)]

LEMMA WalkedExists ==
  ASSUME NEW long, NEW short, NEW n \in Nat
  PROVE  \E F : Walked(F, long, short, n)
<1> DEFINE P == {m \in Nat : \E F : Walked(F, long, short, m)}
<1>1. 0 \in P
  <2> DEFINE F == [k \in 0..0 |-> Begun(long)]
  <2>1. F = [k \in 0..0 |-> IF k = 0 THEN Begun(long) ELSE Stepped(F[k - 1], long, short)]
    <3>1. \A k \in 0..0 : k = 0
      OBVIOUS
    <3> QED
      BY <3>1, Zenon
  <2> HIDE DEF F
  <2>2. Walked(F, long, short, 0)
    BY <2>1, Zenon DEF Walked
  <2> QED
    BY <2>2
<1>2. ASSUME NEW m \in Nat, m \in P PROVE m + 1 \in P
  <2>1. PICK F : Walked(F, long, short, m)
    BY <1>2
  <2>2. F = [k \in 0..m |-> IF k = 0 THEN Begun(long) ELSE Stepped(F[k - 1], long, short)]
    BY <2>1, Zenon DEF Walked
  <2> DEFINE G == [k \in 0..m + 1 |-> IF k = m + 1 THEN Stepped(F[k - 1], long, short) ELSE F[k]]
  <2>3. \A k \in 0..m + 1 : G[k] = IF k = 0 THEN Begun(long) ELSE Stepped(G[k - 1], long, short)
    <3> SUFFICES ASSUME NEW k \in 0..m + 1 PROVE G[k] = IF k = 0 THEN Begun(long) ELSE Stepped(G[k - 1], long, short)
      OBVIOUS
    <3>1. k = 0 \/ (k - 1 \in 0..m + 1 /\ k - 1 # m + 1)
      OBVIOUS
    <3>2. CASE k = m + 1
      <4>1. G[k] = Stepped(F[k - 1], long, short) /\ k # 0
        <5>1. k # 0
          BY <3>2
        <5>2. G[k] = Stepped(F[k - 1], long, short)
          BY <3>2, Zenon
        <5> QED
          BY <5>1, <5>2
      <4>2. G[k - 1] = F[k - 1]
        BY <3>1, <4>1, Zenon
      <4> QED
        BY <4>1, <4>2, Zenon
    <3>3. CASE k # m + 1
      <4>1. k \in 0..m
        BY <3>3
      <4>2. G[k] = F[k] /\ F[k] = IF k = 0 THEN Begun(long) ELSE Stepped(F[k - 1], long, short)
        BY <2>2, <3>3, <4>1, Zenon
      <4>3. k = 0 \/ G[k - 1] = F[k - 1]
        BY <3>1, Zenon
      <4> QED
        BY <4>2, <4>3, Zenon
    <3> QED
      BY <3>2, <3>3
  <2>4. G = [k \in 0..m + 1 |-> G[k]]
    BY Zenon
  <2> HIDE DEF G
  <2>5. Walked(G, long, short, m + 1)
    BY <2>3, <2>4, Zenon DEF Walked
  <2> QED
    BY <2>5
<1> HIDE DEF P
<1>3. n \in P
  BY <1>1, <1>2, AllNumbers
<1> QED
  BY <1>3 DEF P

LEMMA WalkIs ==
  ASSUME NEW long \in Nat, NEW short
  PROVE  Walked(Walk(long, short), long, short, long)
<1> DEFINE F == CHOOSE g : g = [k \in 0..long |-> IF k = 0 THEN Begun(long) ELSE Stepped(g[k - 1], long, short)]
<1>1. Walk(long, short) = F
  BY Zenon DEF Walk, Begun, Stepped
<1>2. PICK W : W = [k \in 0..long |-> IF k = 0 THEN Begun(long) ELSE Stepped(W[k - 1], long, short)]
  <2>1. \E W : Walked(W, long, short, long)
    BY WalkedExists
  <2> QED
    BY <2>1, Zenon DEF Walked
<1>3. F = [k \in 0..long |-> IF k = 0 THEN Begun(long) ELSE Stepped(F[k - 1], long, short)]
  BY <1>2, Zenon
<1> HIDE DEF F
<1>4. Walked(F, long, short, long)
  BY <1>3, Zenon DEF Walked
<1> QED
  BY <1>1, <1>4

(* What the loop has counted at its k-th dot.                              *)
Counted(p, k, long, short) ==
  /\ p.a = k /\ p.b \in Nat /\ p.error \in Nat
  /\ p.error = (long \div 2) - k * short + p.b * long
  /\ p.error < long \/ long = 0

LEMMA SteppedRight ==
  ASSUME NEW long \in Nat, NEW short \in Nat, short <= long, NEW k \in Nat, NEW p, Counted(p, k, long, short)
  PROVE  Counted(Stepped(p, long, short), k + 1, long, short)
<1> DEFINE q == Stepped(p, long, short)
           b == p.b
           er == p.error
           e == er - short
           u == IF e < 0 THEN 1 ELSE 0
           v == b * long
           ks == k * short
           half == long \div 2
<1>1. b \in Nat /\ er \in Nat /\ er = half - ks + v /\ (er < long \/ long = 0) /\ p.a = k
  BY DEF Counted
<1>2. q = [a |-> p.a + 1, b |-> b + u, error |-> IF e < 0 THEN e + long ELSE e]
  BY Zenon DEF Stepped
<1>3. q.a = p.a + 1 /\ q.b = b + u /\ q.error = IF e < 0 THEN e + long ELSE e
  BY <1>2
<1>4. ks \in Nat /\ v \in Nat /\ half \in Nat /\ e \in Int
  <2>1. e \in Int
    <3> HIDE DEF er
    <3> QED
      BY <1>1
  <2>2. v \in Nat
    <3> HIDE DEF b
    <3> QED
      BY <1>1
  <2>3. ks \in Nat /\ half \in Nat
    OBVIOUS
  <2> QED
    BY <2>1, <2>2, <2>3
<1>5. (k + 1) * short = ks + short
  OBVIOUS
<1>6. (b + u) * long = v + (IF e < 0 THEN long ELSE 0)
  <2>1. CASE e < 0
    BY <1>1, <2>1
  <2>2. CASE ~(e < 0)
    BY <1>1, <2>2
  <2> QED
    BY <2>1, <2>2
<1>7. q.b \in Nat
  BY <1>1, <1>3
<1> DEFINE ne == IF e < 0 THEN e + long ELSE e
<1>8. ne \in Nat /\ (ne < long \/ long = 0) /\ ne = half - (ks + short) + (v + (IF e < 0 THEN long ELSE 0))
  <2> HIDE DEF ks, v, half, b, er
  <2> QED
    BY <1>1, <1>4
<1> HIDE DEF q, b, er, v, ks, half, u, e, ne
<1>9. q.error = ne
  BY <1>3 DEF ne
<1>10. q.error = half - (k + 1) * short + q.b * long
  BY <1>3, <1>5, <1>6, <1>8, <1>9
<1> QED
  BY <1>1, <1>3, <1>7, <1>8, <1>9, <1>10 DEF Counted, q, half

LEMMA WalkRight ==
  ASSUME NEW long \in Nat, NEW short \in Nat, short <= long, NEW k \in 0..long
  PROVE  Counted(Walk(long, short)[k], k, long, short)
<1> DEFINE W == Walk(long, short)
           P == {j \in Nat : j <= long => Counted(W[j], j, long, short)}
<1>1. \A j \in 0..long : W[j] = IF j = 0 THEN Begun(long) ELSE Stepped(W[j - 1], long, short)
  <2>1. Walked(W, long, short, long)
    BY WalkIs
  <2> HIDE DEF W
  <2> QED
    BY <2>1, Zenon DEF Walked
<1> HIDE DEF W
<1>2. 0 \in P
  <2>1. W[0] = Begun(long)
    BY <1>1
  <2>2. Begun(long).a = 0 /\ Begun(long).b = 0 /\ Begun(long).error = long \div 2
    BY DEF Begun
  <2>3. 0 * short = 0 /\ 0 * long = 0 /\ long \div 2 \in Nat /\ (long \div 2 < long \/ long = 0)
    OBVIOUS
  <2>4. Counted(Begun(long), 0, long, short)
    BY <2>2, <2>3 DEF Counted
  <2> QED
    BY <2>1, <2>4
<1>3. ASSUME NEW j \in Nat, j \in P PROVE j + 1 \in P
  <2> SUFFICES ASSUME j + 1 <= long PROVE Counted(W[j + 1], j + 1, long, short)
    OBVIOUS
  <2>1. Counted(W[j], j, long, short)
    BY <1>3
  <2>2. j + 1 \in 0..long /\ j + 1 # 0 /\ (j + 1) - 1 = j
    OBVIOUS
  <2>3. W[j + 1] = Stepped(W[j], long, short)
    BY <1>1, <2>2, Zenon
  <2> QED
    BY <2>1, <2>3, SteppedRight
<1> HIDE DEF P
<1>4. k \in P
  BY <1>2, <1>3, AllNumbers
<1> QED
  BY <1>4 DEF P, W

(* The k-th dot of a line, b steps across; units of the two directions.    *)
Pt(sx, sy, ux, uy, tall, k, b) ==
  IF tall THEN <<sx + ux * b, sy + uy * k>> ELSE <<sx + ux * k, sy + uy * b>>

(* B stays within half a dot of the ideal line.                            *)
Near(B, long, short) ==
  /\ \A k \in 0..long : B[k] \in Nat /\ 2 * (k * short - B[k] * long) <= long /\ 2 * (B[k] * long - k * short) <= long
  /\ B[0] = 0

Trace(sx, sy, ux, uy, tall, long, B) == {Pt(sx, sy, ux, uy, tall, k, B[k]) : k \in 0..long}

(* P are the dots of a line.                                               *)
Axes(tall, long, short, w, h) ==
  IF tall THEN long = h /\ short = w /\ w <= h ELSE long = w /\ short = h /\ h <= w

IsLine(P, sx, sy, dx, dy) ==
  \E tall \in BOOLEAN, long \in Nat, short \in Nat : \E B :
    /\ Axes(tall, long, short, Diff(sx, dx), Diff(sy, dy))
    /\ Near(B, long, short)
    /\ P = Trace(sx, sy, Sign(sx, dx), Sign(sy, dy), tall, long, B)

LEMMA HalfOff ==
  ASSUME NEW long \in Nat, NEW a \in Int, 2 * (a * long) <= long, long # 0
  PROVE  a <= 0
<1> SUFFICES ASSUME a >= 1 PROVE FALSE
  OBVIOUS
<1>1. a * long >= long
  OBVIOUS
<1> QED
  BY <1>1

LEMMA NearEnds ==
  ASSUME NEW B, NEW long \in Nat, NEW short \in Nat, short <= long, Near(B, long, short)
  PROVE  /\ B[0] = 0 /\ B[long] = short
         /\ \A k \in 0..long : B[k] \in 0..short
         /\ short = long => \A k \in 0..long : B[k] = k
<1>0. CASE long = 0
  <2>1. short = 0 /\ B[0] = 0 /\ \A k \in 0..long : k = 0
    BY <1>0 DEF Near
  <2> QED
    BY <1>0, <2>1
<1>1. CASE long # 0
  <2>1. ASSUME NEW k \in 0..long
        PROVE /\ B[k] \in Nat /\ 2 * (k * short - B[k] * long) <= long /\ 2 * (B[k] * long - k * short) <= long
    BY DEF Near
  <2>2. B[0] = 0
    BY DEF Near
  <2>3. ASSUME NEW k \in 0..long PROVE B[k] \in 0..short
    <3> DEFINE b == B[k]
    <3>1. b \in Nat /\ 2 * (b * long - k * short) <= long
      BY <2>1
    <3> HIDE DEF b
    <3>2. k * short <= long * short
      OBVIOUS
    <3>3. (b - short) * long = b * long - short * long /\ long * short = short * long
      BY <3>1
    <3>4. 2 * ((b - short) * long) <= long
      <4> DEFINE u == b * long
                 v == k * short
                 w == short * long
                 z == (b - short) * long
      <4>1. u \in Nat /\ v \in Nat /\ w \in Nat /\ z \in Int
        BY <3>1
      <4>2. 2 * (u - v) <= long /\ v <= w /\ z = u - w
        BY <3>1, <3>2, <3>3
      <4> HIDE DEF u, v, w, z
      <4>3. 2 * z <= long
        BY <4>1, <4>2
      <4> QED
        BY <4>3 DEF z
    <3>5. b - short <= 0
      BY <1>1, <3>1, <3>4, HalfOff
    <3>6. b \in 0..short
      BY <3>1, <3>5
    <3> QED
      BY <3>6 DEF b
  <2>4. B[long] = short
    <3> DEFINE b == B[long]
    <3>1. b \in 0..short /\ 2 * (long * short - b * long) <= long
      BY <2>1, <2>3
    <3> HIDE DEF b
    <3>2. (short - b) * long = long * short - b * long
      BY <3>1
    <3>3. 2 * ((short - b) * long) <= long
      BY <3>1, <3>2
    <3>4. short - b <= 0
      BY <1>1, <3>1, <3>3, HalfOff
    <3>5. b = short
      BY <3>1, <3>4
    <3> QED
      BY <3>5 DEF b
  <2>5. ASSUME short = long, NEW k \in 0..long PROVE B[k] = k
    <3> DEFINE b == B[k]
    <3>1. b \in Nat /\ 2 * (k * long - b * long) <= long /\ 2 * (b * long - k * long) <= long
      BY <2>1, <2>5
    <3> HIDE DEF b
    <3>2. (k - b) * long = k * long - b * long /\ (b - k) * long = b * long - k * long
      BY <3>1
    <3>3. 2 * ((k - b) * long) <= long /\ 2 * ((b - k) * long) <= long
      BY <3>1, <3>2
    <3>4. k - b <= 0 /\ b - k <= 0
      BY <1>1, <3>1, <3>3, HalfOff
    <3>5. b = k
      BY <3>1, <3>4
    <3> QED
      BY <3>5 DEF b
  <2> QED
    BY <2>2, <2>3, <2>4, <2>5
<1> QED
  BY <1>0, <1>1

(* LineExact, of any set of dots.                                          *)
Offset(p, sx, sy, dx, dy) == Diff((p[1] - sx) * (dy - sy), (p[2] - sy) * (dx - sx))

LineAlong(P, sx, sy, dx, dy) ==
  LET long == High(Diff(dx - sx, 0), Diff(dy - sy, 0))
  IN /\ {<<sx, sy>>, <<dx, dy>>} \subseteq P
     /\ \A k \in 0..long :
          \E p \in P : IF Diff(dx - sx, 0) >= Diff(dy - sy, 0) THEN Diff(p[1], sx) = k ELSE Diff(p[2], sy) = k
     /\ \A p \in P : /\ p[1] \in Low(sx, dx)..High(sx, dx)
                     /\ p[2] \in Low(sy, dy)..High(sy, dy)
                     /\ 2 * Offset(p, sx, sy, dx, dy) <= long
     /\ \A p, q \in P : (IF Diff(dx - sx, 0) >= Diff(dy - sy, 0) THEN p[1] = q[1] ELSE p[2] = q[2]) => p = q

LEMMA Directions ==
  ASSUME NEW a \in Nat, NEW b \in Nat
  PROVE  /\ Diff(a, b) \in Nat /\ Sign(a, b) \in {1, -1} /\ Diff(b - a, 0) = Diff(a, b)
         /\ b - a = Sign(a, b) * Diff(a, b)
         /\ \A k \in 0..Diff(a, b) : /\ a + Sign(a, b) * k \in Low(a, b)..High(a, b)
                                     /\ Diff(a + Sign(a, b) * k, a) = k
         /\ \A c \in Low(a, b)..High(a, b) : \E k \in 0..Diff(a, b) : c = a + Sign(a, b) * k
<1>1. CASE a < b
  <2>1. Diff(a, b) = b - a /\ Sign(a, b) = 1 /\ Low(a, b) = a /\ High(a, b) = b /\ Diff(b - a, 0) = b - a
    BY <1>1 DEF Diff, Sign, Low, High
  <2>2. ASSUME NEW k \in 0..Diff(a, b)
        PROVE a + Sign(a, b) * k \in Low(a, b)..High(a, b) /\ Diff(a + Sign(a, b) * k, a) = k
    <3>1. a + Sign(a, b) * k = a + k
      BY <2>1
    <3>2. a + k \in a..b /\ Diff(a + k, a) = k
      BY <2>1 DEF Diff
    <3> QED
      BY <2>1, <3>1, <3>2
  <2>3. ASSUME NEW c \in Low(a, b)..High(a, b) PROVE \E k \in 0..Diff(a, b) : c = a + Sign(a, b) * k
    <3>1. c - a \in 0..Diff(a, b) /\ c = a + Sign(a, b) * (c - a)
      BY <1>1, <2>1
    <3> QED
      BY <3>1
  <2> QED
    BY <1>1, <2>1, <2>2, <2>3
<1>2. CASE a >= b
  <2>1. Diff(a, b) = a - b /\ Sign(a, b) = -1 /\ Low(a, b) = b /\ High(a, b) = a /\ Diff(b - a, 0) = a - b
    BY <1>2 DEF Diff, Sign, Low, High
  <2>2. ASSUME NEW k \in 0..Diff(a, b)
        PROVE a + Sign(a, b) * k \in Low(a, b)..High(a, b) /\ Diff(a + Sign(a, b) * k, a) = k
    <3>1. a + Sign(a, b) * k = a - k
      BY <2>1
    <3>2. a - k \in b..a /\ Diff(a - k, a) = k
      BY <2>1 DEF Diff
    <3> QED
      BY <2>1, <3>1, <3>2
  <2>3. ASSUME NEW c \in Low(a, b)..High(a, b) PROVE \E k \in 0..Diff(a, b) : c = a + Sign(a, b) * k
    <3>1. a - c \in 0..Diff(a, b) /\ c = a + Sign(a, b) * (a - c)
      BY <1>2, <2>1
    <3> QED
      BY <3>1
  <2> QED
    BY <1>2, <2>1, <2>2, <2>3
<1> QED
  BY <1>1, <1>2

LEMMA OffsetIs ==
  ASSUME NEW sx \in Nat, NEW sy \in Nat, NEW dx \in Nat, NEW dy \in Nat, NEW i \in Nat, NEW j \in Nat
  PROVE  Offset(<<sx + Sign(sx, dx) * i, sy + Sign(sy, dy) * j>>, sx, sy, dx, dy)
           = Diff(i * Diff(sy, dy), j * Diff(sx, dx))
<1> DEFINE ux == Sign(sx, dx)
           uy == Sign(sy, dy)
           w == Diff(sx, dx)
           h == Diff(sy, dy)
<1>1. w \in Nat /\ h \in Nat /\ ux \in {1, -1} /\ uy \in {1, -1} /\ dx - sx = ux * w /\ dy - sy = uy * h
  BY Directions
<1>2. Offset(<<sx + ux * i, sy + uy * j>>, sx, sy, dx, dy)
        = Diff(((sx + ux * i) - sx) * (dy - sy), ((sy + uy * j) - sy) * (dx - sx))
  BY Zenon DEF Offset
<1> HIDE DEF ux, uy, w, h
<1>3. (sx + ux * i) - sx = ux * i /\ (sy + uy * j) - sy = uy * j
  BY <1>1
<1> DEFINE a == i * h
           b == j * w
<1>4. a \in Int /\ b \in Int
  BY <1>1
<1>5. Diff(a, b) = Diff(b, a) /\ Diff(-a, -b) = Diff(a, b)
  BY <1>4 DEF Diff
<1>6. CASE ux = uy
  <2>1. (ux * i) * (uy * h) = a /\ (uy * j) * (ux * w) = b
    BY <1>1, <1>6
  <2> QED
    BY <1>1, <1>2, <1>3, <2>1 DEF ux, uy, w, h
<1>7. CASE ux # uy
  <2>1. (ux * i) * (uy * h) = -a /\ (uy * j) * (ux * w) = -b
    BY <1>1, <1>7
  <2> QED
    BY <1>1, <1>2, <1>3, <1>5, <2>1 DEF ux, uy, w, h
<1> QED
  BY <1>6, <1>7

LEMMA LineGood ==
  ASSUME NEW sx \in Nat, NEW sy \in Nat, NEW dx \in Nat, NEW dy \in Nat, NEW P, IsLine(P, sx, sy, dx, dy)
  PROVE  LineAlong(P, sx, sy, dx, dy)
<1> DEFINE w == Diff(sx, dx)
           h == Diff(sy, dy)
           ux == Sign(sx, dx)
           uy == Sign(sy, dy)
<1>1. PICK tall \in BOOLEAN, long \in Nat, short \in Nat :
        \E B : Axes(tall, long, short, w, h) /\ Near(B, long, short) /\ P = Trace(sx, sy, ux, uy, tall, long, B)
  BY Zenon DEF IsLine
<1>2. PICK B : Axes(tall, long, short, w, h) /\ Near(B, long, short) /\ P = Trace(sx, sy, ux, uy, tall, long, B)
  BY <1>1, Zenon
<1>3. /\ w \in Nat /\ h \in Nat /\ ux \in {1, -1} /\ uy \in {1, -1}
      /\ Diff(dx - sx, 0) = w /\ Diff(dy - sy, 0) = h /\ dx - sx = ux * w /\ dy - sy = uy * h
  BY Directions
<1>4. /\ \A k \in 0..w : sx + ux * k \in Low(sx, dx)..High(sx, dx) /\ Diff(sx + ux * k, sx) = k
      /\ \A k \in 0..h : sy + uy * k \in Low(sy, dy)..High(sy, dy) /\ Diff(sy + uy * k, sy) = k
  BY Directions
<1> DEFINE X(k) == IF tall THEN B[k] ELSE k
           Y(k) == IF tall THEN k ELSE B[k]
           D(k) == <<sx + ux * X(k), sy + uy * Y(k)>>
<1>6. \A i, j \in Nat : Offset(<<sx + ux * i, sy + uy * j>>, sx, sy, dx, dy) = Diff(i * h, j * w)
  <2> SUFFICES ASSUME NEW i \in Nat, NEW j \in Nat
               PROVE  Offset(<<sx + ux * i, sy + uy * j>>, sx, sy, dx, dy) = Diff(i * h, j * w)
    OBVIOUS
  <2> QED
    BY OffsetIs, SMTT(30)
<1>7. P = {D(k) : k \in 0..long}
  BY <1>2, Zenon DEF Trace, Pt
<1> HIDE DEF w, h, ux, uy
<1>8. /\ tall => long = h /\ short = w /\ w <= h
      /\ ~tall => long = w /\ short = h /\ h <= w
  BY <1>2 DEF Axes
<1>9. short <= long
  BY <1>3, <1>8
<1>10. /\ B[0] = 0 /\ B[long] = short
       /\ \A k \in 0..long : B[k] \in 0..short
       /\ short = long => \A k \in 0..long : B[k] = k
  BY <1>2, <1>9, NearEnds
<1>11. High(Diff(dx - sx, 0), Diff(dy - sy, 0)) = long
  BY <1>3, <1>8 DEF High
<1>12. \A k \in 0..long : X(k) \in 0..w /\ Y(k) \in 0..h
  BY <1>8, <1>10
<1>13. <<sx, sy>> \in P /\ <<dx, dy>> \in P
  <2>1. D(0) = <<sx, sy>>
    <3>1. X(0) = 0 /\ Y(0) = 0
      BY <1>10
    <3>2. sx + ux * 0 = sx /\ sy + uy * 0 = sy
      BY <1>3
    <3> HIDE DEF X, Y
    <3> QED
      BY <3>1, <3>2
  <2>2. D(long) = <<dx, dy>>
    <3>1. X(long) = w /\ Y(long) = h
      BY <1>8, <1>10
    <3>2. sx + ux * w = dx /\ sy + uy * h = dy
      BY <1>3
    <3> HIDE DEF X, Y
    <3> QED
      BY <3>1, <3>2
  <2>3. 0 \in 0..long /\ long \in 0..long
    OBVIOUS
  <2> HIDE DEF D
  <2> QED
    BY <1>7, <2>1, <2>2, <2>3
<1>14. \A k \in 0..long : IF w >= h THEN X(k) = k ELSE Y(k) = k
  BY <1>3, <1>8, <1>10
<1>15. ASSUME NEW k \in 0..long
       PROVE  \E p \in P : IF w >= h THEN Diff(p[1], sx) = k ELSE Diff(p[2], sy) = k
  <2>1. D(k) \in P /\ D(k)[1] = sx + ux * X(k) /\ D(k)[2] = sy + uy * Y(k)
    BY <1>7
  <2>2. Diff(sx + ux * X(k), sx) = X(k) /\ Diff(sy + uy * Y(k), sy) = Y(k)
    BY <1>4, <1>12
  <2> HIDE DEF D, X, Y
  <2> QED
    BY <1>14, <2>1, <2>2
<1>16. ASSUME NEW p \in P
       PROVE  /\ p[1] \in Low(sx, dx)..High(sx, dx)
              /\ p[2] \in Low(sy, dy)..High(sy, dy)
              /\ 2 * Offset(p, sx, sy, dx, dy) <= long
  <2>1. PICK k \in 0..long : p = D(k)
    BY <1>7
  <2>2. p[1] = sx + ux * X(k) /\ p[2] = sy + uy * Y(k)
    BY <2>1
  <2>3. X(k) \in 0..w /\ Y(k) \in 0..h
    BY <1>12
  <2>4. p[1] \in Low(sx, dx)..High(sx, dx) /\ p[2] \in Low(sy, dy)..High(sy, dy)
    <3> HIDE DEF X, Y, D
    <3> QED
      BY <1>4, <2>2, <2>3
  <2>5. Offset(p, sx, sy, dx, dy) = Diff(X(k) * h, Y(k) * w)
    <3>1. X(k) \in Nat /\ Y(k) \in Nat
      BY <1>3, <2>3
    <3> HIDE DEF X, Y
    <3> QED
      BY <1>6, <2>1, <3>1
  <2>6. 2 * Diff(X(k) * h, Y(k) * w) <= long
    <3>1. B[k] \in Nat /\ 2 * (k * short - B[k] * long) <= long /\ 2 * (B[k] * long - k * short) <= long
      BY <1>2 DEF Near
    <3> DEFINE a == k * short
               b == B[k] * long
    <3>2. a \in Int /\ b \in Int
      BY <3>1
    <3>3. 2 * Diff(a, b) <= long /\ 2 * Diff(b, a) <= long
      <4> HIDE DEF a, b
      <4>1. 2 * (a - b) <= long /\ 2 * (b - a) <= long
        BY <3>1 DEF a, b
      <4> QED
        BY <3>2, <4>1 DEF Diff
    <3>4. CASE tall
      <4>1. X(k) * h = b /\ Y(k) * w = a
        BY <1>8, <3>4
      <4> HIDE DEF X, Y, a, b
      <4> QED
        BY <3>3, <4>1
    <3>5. CASE ~tall
      <4>1. X(k) * h = a /\ Y(k) * w = b
        BY <1>8, <3>5
      <4> HIDE DEF X, Y, a, b
      <4> QED
        BY <3>3, <4>1
    <3> QED
      BY <3>4, <3>5
  <2> QED
    BY <2>4, <2>5, <2>6
<1>17. ASSUME NEW p \in P, NEW q \in P, IF w >= h THEN p[1] = q[1] ELSE p[2] = q[2]
       PROVE  p = q
  <2>1. PICK k \in 0..long : p = D(k)
    BY <1>7
  <2>2. PICK j \in 0..long : q = D(j)
    BY <1>7
  <2>3. p[1] = sx + ux * X(k) /\ p[2] = sy + uy * Y(k) /\ q[1] = sx + ux * X(j) /\ q[2] = sy + uy * Y(j)
    BY <2>1, <2>2
  <2>4. X(k) \in Int /\ Y(k) \in Int /\ X(j) \in Int /\ Y(j) \in Int
    BY <1>3, <1>12
  <2>5. CASE w >= h
    <3>1. sx + ux * k = sx + ux * j
      <4>1. X(k) = k /\ X(j) = j
        BY <1>14, <2>5
      <4> HIDE DEF X, Y, D
      <4> QED
        BY <1>17, <2>3, <2>5, <4>1
    <3>2. k = j
      BY <1>3, <3>1
    <3> QED
      BY <2>1, <2>2, <3>2
  <2>6. CASE ~(w >= h)
    <3>1. sy + uy * k = sy + uy * j
      <4>1. Y(k) = k /\ Y(j) = j
        BY <1>14, <2>6
      <4> HIDE DEF X, Y, D
      <4> QED
        BY <1>17, <2>3, <2>6, <4>1
    <3>2. k = j
      BY <1>3, <3>1
    <3> QED
      BY <2>1, <2>2, <3>2
  <2> QED
    BY <2>5, <2>6
<1> HIDE DEF D, X, Y
<1>18. {<<sx, sy>>, <<dx, dy>>} \subseteq P
  BY <1>13
<1> QED
  BY <1>3, <1>11, <1>15, <1>16, <1>17, <1>18 DEF LineAlong

(***************************************************************************)
(* What a line plots                                                       *)
(***************************************************************************)
Ready == mc \in BOOLEAN /\ il \in BOOLEAN /\ ~(mc /\ il) /\ page \in Nat

DotSet(P) == {Dot(p[1], p[2]) : p \in P}

LEMMA DotIs ==
  ASSUME Ready, NEW col \in Int, NEW row \in Int
  PROVE  Dot(col, row) \in Triples /\ Shown(Dot(col, row)) = <<col, row>>
<1>1. page \in Nat /\ row % 2 \in 0..1 /\ row \div 2 \in Int /\ 2 * (row \div 2) + (row % 2) = row
  BY DEF Ready
<1>2. CASE mc
  <2>1. Dot(col, row) = <<col, 0, row>> /\ ~il
    BY <1>2 DEF Dot, Ready
  <2> QED
    BY <2>1 DEF Triples, Shown
<1>3. CASE il
  <2>1. Dot(col, row) = <<col, page + (row % 2), row \div 2>>
    BY <1>3 DEF Dot, Ready
  <2> DEFINE r == row % 2
             q == row \div 2
  <2>2. r \in Int /\ q \in Int /\ 2 * q + r = row
    BY <1>1
  <2> HIDE DEF r, q
  <2>3. Dot(col, row) = <<col, page + r, q>>
    BY <2>1 DEF r, q
  <2>4. Shown(Dot(col, row)) = <<col, 2 * q + (page + r) - page>>
    BY <1>3, <2>3 DEF Shown
  <2>5. 2 * q + (page + r) - page = row
    BY <1>1, <2>2
  <2> QED
    BY <1>1, <2>2, <2>3, <2>4, <2>5 DEF Triples
<1>4. CASE ~mc /\ ~il
  <2>1. Dot(col, row) = <<col, page, row>>
    BY <1>4 DEF Dot
  <2> QED
    BY <1>1, <1>4, <2>1 DEF Triples, Shown
<1> QED
  BY <1>2, <1>3, <1>4

LEMMA DotsShown ==
  ASSUME Ready, NEW P, P \subseteq Int \X Int, NEW one, Plots(dots, DotSet(P), one)
  PROVE  DrawnDots = P /\ (one => Once)
<1>1. dots \in Seq(Triples) /\ DOMAIN dots = 1..Len(dots)
  BY DEF Plots
<1>2. \A p \in P : p = <<p[1], p[2]>> /\ p[1] \in Int /\ p[2] \in Int
  OBVIOUS
<1>3. \A p \in P : Shown(Dot(p[1], p[2])) = p
  BY <1>2, DotIs
<1>4. DrawnDots \subseteq P
  <2> SUFFICES ASSUME NEW k \in DOMAIN dots PROVE Shown(dots[k]) \in P
    BY Zenon DEF DrawnDots
  <2>1. dots[k] \in DotSet(P)
    BY <1>1 DEF Plots
  <2>2. PICK p \in P : dots[k] = Dot(p[1], p[2])
    BY <2>1, Zenon DEF DotSet
  <2> QED
    BY <1>3, <2>2
<1>5. P \subseteq DrawnDots
  <2> SUFFICES ASSUME NEW p \in P PROVE p \in DrawnDots
    OBVIOUS
  <2>1. Dot(p[1], p[2]) \in DotSet(P)
    BY Zenon DEF DotSet
  <2>2. PICK k \in 1..Len(dots) : dots[k] = Dot(p[1], p[2])
    BY <2>1 DEF Plots
  <2>3. k \in DOMAIN dots /\ Shown(dots[k]) = p
    BY <1>1, <1>3, <2>2
  <2> QED
    BY <2>3, Zenon DEF DrawnDots
<1>6. one => Once
  BY <1>1 DEF Plots, Once
<1> QED
  BY <1>4, <1>5, <1>6

LEMMA DotsApart ==
  ASSUME Ready, NEW P, P \subseteq Int \X Int, NEW Q, Q \subseteq Int \X Int, P \cap Q = {}
  PROVE  DotSet(P) \cap DotSet(Q) = {}
<1> SUFFICES ASSUME NEW d, d \in DotSet(P), d \in DotSet(Q) PROVE FALSE
  OBVIOUS
<1>1. PICK p \in P : d = Dot(p[1], p[2])
  BY Zenon DEF DotSet
<1>2. PICK q \in Q : d = Dot(q[1], q[2])
  BY Zenon DEF DotSet
<1>3. Shown(d) = <<p[1], p[2]>> /\ Shown(d) = <<q[1], q[2]>>
  <2>1. p[1] \in Int /\ p[2] \in Int /\ q[1] \in Int /\ q[2] \in Int
    OBVIOUS
  <2>2. Shown(Dot(p[1], p[2])) = <<p[1], p[2]>> /\ Shown(Dot(q[1], q[2])) = <<q[1], q[2]>>
    BY <2>1, DotIs
  <2> QED
    BY <1>1, <1>2, <2>2
<1>4. p = q
  BY <1>3
<1> QED
  BY <1>4

LEMMA DotsUnion == \A P, Q : DotSet(P \cup Q) = DotSet(P) \cup DotSet(Q)
  BY DEF DotSet

LEMMA DotsOne == \A col, row : DotSet({<<col, row>>}) = {Dot(col, row)}
  BY DEF DotSet

(* C plots the dots of a trace, in order.                                  *)
InOrder(C, sx, sy, ux, uy, tall, long, B) ==
  C = [k \in 1..long + 1 |-> Dot(Pt(sx, sy, ux, uy, tall, k - 1, B[k - 1])[1],
                                 Pt(sx, sy, ux, uy, tall, k - 1, B[k - 1])[2])]

LEMMA PlotsTrace ==
  ASSUME Ready, NEW sx \in Nat, NEW sy \in Nat, NEW ux \in {1, -1}, NEW uy \in {1, -1}, NEW tall \in BOOLEAN,
         NEW long \in Nat, NEW short \in Nat, NEW B, Near(B, long, short), NEW C,
         InOrder(C, sx, sy, ux, uy, tall, long, B), NEW one
  PROVE  Plots(C, DotSet(Trace(sx, sy, ux, uy, tall, long, B)), one)
<1> DEFINE D(k) == Pt(sx, sy, ux, uy, tall, k, B[k])
           T == Trace(sx, sy, ux, uy, tall, long, B)
<1>1. \A k \in 0..long : B[k] \in Nat
  BY DEF Near
<1>2. T = {D(k) : k \in 0..long}
  BY Zenon DEF Trace
<1>3. ASSUME NEW k \in 0..long
      PROVE /\ D(k)[1] \in Int /\ D(k)[2] \in Int /\ D(k) = <<D(k)[1], D(k)[2]>>
            /\ tall => D(k)[2] = sy + uy * k
            /\ ~tall => D(k)[1] = sx + ux * k
  <2>1. B[k] \in Nat
    BY <1>1
  <2>2. CASE tall
    <3>1. D(k) = <<sx + ux * B[k], sy + uy * k>>
      BY <2>2 DEF Pt
    <3> HIDE DEF D
    <3> QED
      BY <2>1, <2>2, <3>1
  <2>3. CASE ~tall
    <3>1. D(k) = <<sx + ux * k, sy + uy * B[k]>>
      BY <2>3 DEF Pt
    <3> HIDE DEF D
    <3> QED
      BY <2>1, <2>3, <3>1
  <2> QED
    BY <2>2, <2>3
<1>4. C = [k \in 1..long + 1 |-> Dot(D(k - 1)[1], D(k - 1)[2])]
  BY Zenon DEF InOrder
<1> HIDE DEF D, T
<1>5. \A k \in 0..long : Dot(D(k)[1], D(k)[2]) \in Triples /\ Shown(Dot(D(k)[1], D(k)[2])) = D(k)
  BY <1>3, DotIs
<1>6. \A k \in 1..long + 1 : k - 1 \in 0..long
  OBVIOUS
<1> DEFINE E(k) == Dot(D(k)[1], D(k)[2])
<1>7. C = [k \in 1..long + 1 |-> E(k - 1)] /\ \A k \in 0..long : E(k) \in Triples /\ Shown(E(k)) = D(k)
  BY <1>4, <1>5, Zenon
<1>8. DotSet(T) = {E(k) : k \in 0..long}
  BY <1>2 DEF DotSet
<1> HIDE DEF E
<1>9. C \in Seq(Triples) /\ Len(C) = long + 1 /\ \A k \in 1..long + 1 : C[k] = E(k - 1)
  <2>1. \A k \in 1..long + 1 : E(k - 1) \in Triples
    BY <1>6, <1>7
  <2>2. C \in [1..long + 1 -> Triples]
    BY <1>7, <2>1, Zenon
  <2>3. \A k \in 1..long + 1 : C[k] = E(k - 1)
    BY <1>7, Zenon
  <2>4. C \in Seq(Triples) /\ Len(C) = long + 1
    <3>1. long + 1 \in Nat
      OBVIOUS
    <3> QED
      BY <2>2, <3>1
  <2> QED
    BY <2>3, <2>4
<1>10. \A k \in 1..Len(C) : C[k] \in DotSet(T)
  BY <1>6, <1>8, <1>9
<1>11. \A d \in DotSet(T) : \E k \in 1..Len(C) : C[k] = d
  <2> SUFFICES ASSUME NEW k \in 0..long PROVE \E j \in 1..Len(C) : C[j] = E(k)
    BY <1>8
  <2>1. k + 1 \in 1..Len(C) /\ (k + 1) - 1 = k
    BY <1>9
  <2>2. C[k + 1] = E(k)
    BY <1>9, <2>1
  <2> QED
    BY <2>1, <2>2
<1>12. ASSUME NEW j \in 1..Len(C), NEW k \in 1..Len(C), j # k PROVE C[j] # C[k]
  <2>1. j - 1 \in 0..long /\ k - 1 \in 0..long /\ j - 1 # k - 1
    BY <1>9, <1>12
  <2>2. C[j] = E(j - 1) /\ C[k] = E(k - 1)
    BY <1>9
  <2>3. D(j - 1) # D(k - 1)
    <3>1. CASE tall
      <4>1. D(j - 1)[2] = sy + uy * (j - 1) /\ D(k - 1)[2] = sy + uy * (k - 1)
        BY <1>3, <2>1, <3>1
      <4>2. sy + uy * (j - 1) # sy + uy * (k - 1)
        BY <2>1
      <4> QED
        BY <4>1, <4>2
    <3>2. CASE ~tall
      <4>1. D(j - 1)[1] = sx + ux * (j - 1) /\ D(k - 1)[1] = sx + ux * (k - 1)
        BY <1>3, <2>1, <3>2
      <4>2. sx + ux * (j - 1) # sx + ux * (k - 1)
        BY <2>1
      <4> QED
        BY <4>1, <4>2
    <3> QED
      BY <3>1, <3>2
  <2> QED
    BY <1>7, <2>1, <2>2, <2>3
<1>13. Plots(C, DotSet(T), one)
  BY <1>9, <1>10, <1>11, <1>12 DEF Plots
<1> QED
  BY <1>13 DEF T

(* C plots, on page pn, the dots of a trace that is at line ln of it.      *)
OnPage(C, pn, sx, ln, ux, uy, tall, long, B) ==
  C = [k \in 1..long + 1 |-> <<Pt(sx, ln, ux, uy, tall, k - 1, B[k - 1])[1], pn,
                               Pt(sx, ln, ux, uy, tall, k - 1, B[k - 1])[2]>>]

CommandNear(sx, pn, ln, long, short, ux, uy, tall) ==
  \E B : /\ Near(B, long, short)
         /\ OnPage(Command(sx, pn, ln, long, short, ux, uy, tall), pn, sx, ln, ux, uy, tall, long, B)

LEMMA CommandIs ==
  ASSUME NEW sx, NEW ln, NEW pn, NEW long \in Nat, NEW short \in Nat, short <= long,
         NEW ux, NEW uy, NEW tall
  PROVE  CommandNear(sx, pn, ln, long, short, ux, uy, tall)
<1> DEFINE Across(k) == IF long = 0 THEN 0 ELSE (2 * k * short + long) \div (2 * long)
           B == [k \in 0..long |-> Across(k)]
<1>1. \A k \in 0..long : B[k] = Across(k)
  OBVIOUS
<1>2. Near(B, long, short)
  <2>1. B[0] = 0
    <3>1. CASE long = 0
      BY <1>1, <3>1
    <3>2. CASE long # 0
      <4>1. (2 * 0 * short + long) \div (2 * long) = 0
        <5>1. 2 * 0 * short + long = long /\ long < 2 * long
          BY <3>2
        <5> QED
          BY <3>2, <5>1
      <4> QED
        BY <1>1, <3>2, <4>1
    <3> QED
      BY <3>1, <3>2
  <2>2. ASSUME NEW k \in 0..long
        PROVE /\ B[k] \in Nat /\ 2 * (k * short - B[k] * long) <= long /\ 2 * (B[k] * long - k * short) <= long
    <3>1. CASE long = 0
      <4>1. B[k] = 0 /\ k = 0
        BY <1>1, <3>1
      <4> HIDE DEF B
      <4> QED
        BY <3>1, <4>1
    <3>2. CASE long # 0
      <4> DEFINE v == k * short
                 b == B[k]
                 n == 2 * v + long
                 m == 2 * long
      <4>1. v \in Nat /\ n \in Nat /\ m \in Nat /\ m > 0
        BY <3>2
      <4>2. b = n \div m
        <5>1. 2 * k * short = 2 * v
          OBVIOUS
        <5>2. b = (2 * k * short + long) \div (2 * long)
          BY <1>1, <3>2
        <5> QED
          BY <5>1, <5>2
      <4> HIDE DEF B, b, n, m, v
      <4>3. b \in Nat /\ m * b <= n /\ n < m * b + m
        <5> DEFINE r == n % m
        <5>1. b \in Int /\ r \in 0..m - 1 /\ n = m * b + r
          BY <4>1, <4>2
        <5> HIDE DEF r
        <5>2. b >= 0
          <6> SUFFICES ASSUME b < 0 PROVE FALSE
            BY <5>1
          <6>1. m * b <= -m
            BY <4>1, <5>1
          <6> DEFINE z == m * b
          <6>2. z \in Int
            BY <4>1, <5>1
          <6> HIDE DEF z
          <6> QED
            BY <4>1, <5>1, <6>1, <6>2 DEF z
        <5> DEFINE z == m * b
        <5>3. z \in Int
          BY <4>1, <5>1
        <5> HIDE DEF z
        <5>4. z <= n /\ n < z + m
          BY <4>1, <5>1, <5>3 DEF z
        <5> QED
          BY <5>1, <5>2, <5>4 DEF z
      <4>4. m * b = 2 * (b * long)
        BY <4>3 DEF m
      <4> DEFINE z == b * long
      <4>5. z \in Nat
        BY <4>3
      <4> HIDE DEF z
      <4>6. 2 * z <= 2 * v + long /\ 2 * v + long < 2 * z + 2 * long
        BY <4>3, <4>4 DEF z, n, m
      <4>7. 2 * (v - z) <= long /\ 2 * (z - v) <= long
        BY <4>1, <4>5, <4>6
      <4> QED
        BY <4>3, <4>7 DEF z, v, b
    <3> QED
      BY <3>1, <3>2
  <2> HIDE DEF B
  <2> QED
    BY <2>1, <2>2 DEF Near
<1>3. Command(sx, pn, ln, long, short, ux, uy, tall)
        = [k \in 1..long + 1 |->
             IF tall THEN <<sx + ux * Across(k - 1), pn, ln + uy * (k - 1)>>
                     ELSE <<sx + ux * (k - 1), pn, ln + uy * Across(k - 1)>>]
  BY Zenon DEF Command
<1>4. ASSUME NEW k \in 1..long + 1
      PROVE  (IF tall THEN <<sx + ux * Across(k - 1), pn, ln + uy * (k - 1)>>
                      ELSE <<sx + ux * (k - 1), pn, ln + uy * Across(k - 1)>>)
               = <<Pt(sx, ln, ux, uy, tall, k - 1, B[k - 1])[1], pn, Pt(sx, ln, ux, uy, tall, k - 1, B[k - 1])[2]>>
  <2>1. B[k - 1] = Across(k - 1)
    <3>1. k - 1 \in 0..long
      OBVIOUS
    <3> HIDE DEF B, Across
    <3> QED
      BY <1>1, <3>1
  <2> HIDE DEF B, Across
  <2> QED
    BY <2>1 DEF Pt
<1> HIDE DEF B, Across
<1>5. OnPage(Command(sx, pn, ln, long, short, ux, uy, tall), pn, sx, ln, ux, uy, tall, long, B)
  BY <1>3, <1>4, Zenon DEF OnPage
<1> QED
  BY <1>2, <1>5, Zenon DEF CommandNear

(* sq plots the dots of a line from (sx, sy) to (dx, dy).                  *)
PlotsLine(sq, sx, sy, dx, dy, one) == \E P : IsLine(P, sx, sy, dx, dy) /\ Plots(sq, DotSet(P), one)

(* bl_grp_line plots the dots of a line, its own way on each screen.       *)
LineRead(sx, sy, dx, dy) == il => sy = dy \/ sx # dx

LEMMA FollowedDraws ==
  ASSUME Ready, NEW sx \in Nat, NEW sy \in Nat, NEW dx \in Nat, NEW dy \in Nat
  PROVE  \E P : IsLine(P, sx, sy, dx, dy) /\ Plots(Followed(sx, sy, dx, dy), DotSet(P), FALSE)
<1> DEFINE w == Diff(sx, dx)
           h == Diff(sy, dy)
           ux == Sign(sx, dx)
           uy == Sign(sy, dy)
           tall == h > w
           long == IF h > w THEN h ELSE w
           short == IF h > w THEN w ELSE h
           W == Walk(long, short)
           B == [k \in 0..long |-> W[k].b]
           C == [k \in 1..long + 1 |-> Dot(Pt(sx, sy, ux, uy, tall, k - 1, B[k - 1])[1],
                                           Pt(sx, sy, ux, uy, tall, k - 1, B[k - 1])[2])]
           P == Trace(sx, sy, ux, uy, tall, long, B)
           no == FALSE
<1>1. w \in Nat /\ h \in Nat /\ ux \in {1, -1} /\ uy \in {1, -1}
  BY Directions
<1>2. Followed(sx, sy, dx, dy)
        = <<Dot(sx, sy)>> \o [k \in DOMAIN Point(sx, sy, dx, dy) |->
                                Dot(Point(sx, sy, dx, dy)[k][1], Point(sx, sy, dx, dy)[k][2])]
  BY Zenon DEF Followed
<1>3. Point(sx, sy, dx, dy)
        = [k \in 1..long + 1 |-> IF h > w THEN <<sx + ux * W[k - 1].b, sy + uy * W[k - 1].a>>
                                          ELSE <<sx + ux * W[k - 1].a, sy + uy * W[k - 1].b>>]
  BY Zenon DEF Point
<1> HIDE DEF w, h, ux, uy
<1>4. long \in Nat /\ short \in Nat /\ short <= long /\ tall \in BOOLEAN
  BY <1>1
<1>5. Axes(tall, long, short, w, h)
  BY <1>1 DEF Axes
<1>6. \A k \in 0..long : Counted(W[k], k, long, short)
  <2> HIDE DEF long, short
  <2> QED
    BY <1>4, WalkRight
<1> HIDE DEF long, short, W
<1>7. Near(B, long, short)
  <2>1. ASSUME NEW k \in 0..long
        PROVE /\ B[k] \in Nat /\ 2 * (k * short - B[k] * long) <= long /\ 2 * (B[k] * long - k * short) <= long
    <3> DEFINE b == B[k]
               e == W[k].error
    <3>1. /\ b \in Nat /\ e \in Nat /\ e = (long \div 2) - k * short + b * long /\ (e < long \/ long = 0)
      BY <1>6 DEF Counted
    <3> HIDE DEF b, e, B
    <3> DEFINE v == k * short
               z == b * long
    <3>2. v \in Nat /\ z \in Nat
      BY <1>4, <3>1
    <3>3. long = 0 => v = 0 /\ z = 0
      BY <1>4, <3>1
    <3> HIDE DEF v, z
    <3>4. 2 * (v - z) <= long /\ 2 * (z - v) <= long
      <4>1. e = (long \div 2) - v + z /\ (e < long \/ long = 0)
        BY <3>1 DEF v, z
      <4> QED
        BY <1>4, <3>1, <3>2, <3>3, <4>1
    <3> QED
      BY <3>1, <3>4 DEF v, z, b
  <2>2. B[0] = 0
    <3>1. W[0] = Begun(long)
      <4>1. Walked(W, long, short, long)
        BY <1>4, WalkIs DEF W
      <4>2. 0 \in 0..long
        BY <1>4
      <4> QED
        BY <4>1, <4>2, Zenon DEF Walked
    <3>2. B[0] = W[0].b
      BY <1>4
    <3> QED
      BY <3>1, <3>2 DEF Begun
  <2> HIDE DEF B
  <2> QED
    BY <2>1, <2>2 DEF Near
<1>8. \A k \in 0..long : W[k].a = k /\ W[k].b = B[k]
  BY <1>6 DEF Counted
<1>9. Point(sx, sy, dx, dy) = [k \in 1..long + 1 |-> Pt(sx, sy, ux, uy, tall, k - 1, B[k - 1])]
  <2>1. ASSUME NEW k \in 1..long + 1
        PROVE  (IF h > w THEN <<sx + ux * W[k - 1].b, sy + uy * W[k - 1].a>>
                         ELSE <<sx + ux * W[k - 1].a, sy + uy * W[k - 1].b>>)
                 = Pt(sx, sy, ux, uy, tall, k - 1, B[k - 1])
    <3>1. k - 1 \in 0..long
      BY <1>4
    <3>2. W[k - 1].a = k - 1 /\ W[k - 1].b = B[k - 1]
      BY <1>8, <3>1
    <3> HIDE DEF B
    <3> QED
      BY <3>2 DEF Pt
  <2> HIDE DEF B, tall
  <2> QED
    BY <1>3, <2>1, Zenon
<1>10. Followed(sx, sy, dx, dy) = <<Dot(sx, sy)>> \o C
  BY <1>2, <1>9, Zenon
<1> HIDE DEF B, tall
<1>11. Plots(C, DotSet(P), no)
  <2>1. InOrder(C, sx, sy, ux, uy, tall, long, B)
    BY Zenon DEF C, InOrder
  <2> HIDE DEF no, P, C
  <2>2. Plots(C, DotSet(Trace(sx, sy, ux, uy, tall, long, B)), no)
    BY <1>1, <1>4, <1>7, <2>1, PlotsTrace
  <2> QED
    BY <2>2, Zenon DEF P
<1>12. <<sx, sy>> \in P
  <2>1. Pt(sx, sy, ux, uy, tall, 0, B[0]) = <<sx, sy>>
    <3>1. B[0] = 0 /\ sx + ux * 0 = sx /\ sy + uy * 0 = sy
      BY <1>1, <1>7 DEF Near
    <3> QED
      BY <3>1 DEF Pt
  <2>2. 0 \in 0..long
    BY <1>4
  <2> QED
    BY <2>1, <2>2, Zenon DEF Trace
<1> HIDE DEF P, C
<1>13. Plots(<<Dot(sx, sy)>>, {Dot(sx, sy)}, no)
  <2>1. Dot(sx, sy) \in Triples
    BY DotIs
  <2> QED
    BY <2>1, PlotsDot
<1>14. Plots(<<Dot(sx, sy)>> \o C, {Dot(sx, sy)} \cup DotSet(P), no)
  <2>1. no => {Dot(sx, sy)} \cap DotSet(P) = {}
    OBVIOUS
  <2> HIDE DEF no
  <2> QED
    BY <1>11, <1>13, <2>1, PlotsJoin
<1>15. {Dot(sx, sy)} \cup DotSet(P) = DotSet(P)
  <2>1. Dot(sx, sy) \in DotSet(P)
    <3>1. \A q \in P : Dot(q[1], q[2]) \in DotSet(P)
      BY Zenon DEF DotSet
    <3>2. <<sx, sy>>[1] = sx /\ <<sx, sy>>[2] = sy
      OBVIOUS
    <3>3. Dot(<<sx, sy>>[1], <<sx, sy>>[2]) \in DotSet(P)
      BY <1>12, <3>1
    <3> QED
      BY <3>2, <3>3
  <2> QED
    BY <2>1
<1>16. IsLine(P, sx, sy, dx, dy)
  <2>1. Axes(tall, long, short, Diff(sx, dx), Diff(sy, dy))
    BY <1>5 DEF w, h
  <2>2. P = Trace(sx, sy, Sign(sx, dx), Sign(sy, dy), tall, long, B)
    BY Zenon DEF P, ux, uy
  <2> QED
    BY <1>4, <1>7, <2>1, <2>2, Zenon DEF IsLine
<1> QED
  BY <1>10, <1>14, <1>15, <1>16

LEMMA CommandDraws ==
  ASSUME Ready, ~mc, ~il, NEW sx \in Nat, NEW sy \in Nat, NEW dx \in Nat, NEW dy \in Nat, NEW one,
         NEW tall \in BOOLEAN, NEW long \in Nat, NEW short \in Nat, Axes(tall, long, short, Diff(sx, dx), Diff(sy, dy))
  PROVE  PlotsLine(Command(sx, page, sy, long, short, Sign(sx, dx), Sign(sy, dy), tall), sx, sy, dx, dy, one)
<1> DEFINE ux == Sign(sx, dx)
           uy == Sign(sy, dy)
           C == Command(sx, page, sy, long, short, ux, uy, tall)
<1>1. ux \in {1, -1} /\ uy \in {1, -1} /\ short <= long
  <2>1. Diff(sx, dx) \in Nat /\ Diff(sy, dy) \in Nat /\ ux \in {1, -1} /\ uy \in {1, -1}
    BY Directions
  <2> HIDE DEF ux, uy
  <2> QED
    BY <2>1 DEF Axes
<1> HIDE DEF ux, uy
<1>2. PICK B : Near(B, long, short) /\ OnPage(C, page, sx, sy, ux, uy, tall, long, B)
  <2>2. CommandNear(sx, page, sy, long, short, ux, uy, tall)
    BY <1>1, CommandIs, Zenon
  <2> QED
    BY <2>2, Zenon DEF CommandNear
<1> HIDE DEF C
<1>3. InOrder(C, sx, sy, ux, uy, tall, long, B)
  <2>1. \A a, b : Dot(a, b) = <<a, page, b>>
    BY DEF Dot
  <2> QED
    BY <1>2, <2>1, Zenon DEF InOrder, OnPage
<1> DEFINE P == Trace(sx, sy, ux, uy, tall, long, B)
<1>4. Plots(C, DotSet(P), one)
  BY <1>1, <1>2, <1>3, PlotsTrace
<1>5. IsLine(P, sx, sy, dx, dy)
  <2>1. P = Trace(sx, sy, Sign(sx, dx), Sign(sy, dy), tall, long, B)
    BY Zenon DEF ux, uy
  <2> HIDE DEF P
  <2> QED
    BY <1>2, <2>1, Zenon DEF IsLine
<1> QED
  BY <1>4, <1>5, Zenon DEF C, ux, uy, PlotsLine

LEMMA StraightDraws ==
  ASSUME Ready, ~mc, ~il, NEW sx \in Nat, NEW sy \in Nat, NEW dx \in Nat, NEW dy \in Nat, NEW one
  PROVE  PlotsLine(Straight(sx, sy, dx, dy), sx, sy, dx, dy, one)
<1> DEFINE w == Diff(sx, dx)
           h == Diff(sy, dy)
           ux == Sign(sx, dx)
           uy == Sign(sy, dy)
<1>1. w \in Nat /\ h \in Nat
  BY Directions
<1>2. Straight(sx, sy, dx, dy)
        = IF w > h THEN Command(sx, page, sy, w, h, ux, uy, FALSE) ELSE Command(sx, page, sy, h, w, ux, uy, TRUE)
  BY Zenon DEF Straight
<1> DEFINE D(C) == PlotsLine(C, sx, sy, dx, dy, one)
<1>3. ASSUME NEW tall \in BOOLEAN, NEW long \in Nat, NEW short \in Nat, Axes(tall, long, short, w, h)
      PROVE  D(Command(sx, page, sy, long, short, ux, uy, tall))
  BY <1>3, CommandDraws, Zenon
<1> HIDE DEF D
<1>4. CASE w > h
  <2> DEFINE no == FALSE
  <2>1. Axes(no, w, h, w, h) /\ no \in BOOLEAN
    BY <1>1, <1>4 DEF Axes
  <2> HIDE DEF no, w, h, ux, uy
  <2>2. D(Command(sx, page, sy, w, h, ux, uy, no))
    BY <1>1, <1>3, <2>1, Zenon
  <2> QED
    BY <1>2, <1>4, <2>2, Zenon DEF D, no
<1>5. CASE ~(w > h)
  <2> DEFINE yes == TRUE
  <2>1. Axes(yes, h, w, w, h) /\ yes \in BOOLEAN
    BY <1>1, <1>5 DEF Axes
  <2> HIDE DEF yes, w, h, ux, uy
  <2>2. D(Command(sx, page, sy, h, w, ux, uy, yes))
    BY <1>1, <1>3, <2>1, Zenon
  <2> QED
    BY <1>2, <1>5, <2>2, Zenon DEF D, yes
<1> QED
  BY <1>4, <1>5

LEMMA LevelDraws ==
  ASSUME Ready, il, NEW sx \in Nat, NEW sy \in Nat, NEW dx \in Nat, NEW one, NEW no \in BOOLEAN, ~no
  PROVE  \E P : /\ IsLine(P, sx, sy, dx, sy)
                /\ Plots(Command(sx, Dot(sx, sy)[2], Dot(sx, sy)[3], Diff(sx, dx), 0, Sign(sx, dx), 1, no), DotSet(P), one)
<1> DEFINE long == Diff(sx, dx)
           ux == Sign(sx, dx)
           uy == Sign(sy, sy)
           pn == Dot(sx, sy)[2]
           ln == Dot(sx, sy)[3]
           C == Command(sx, pn, ln, long, 0, ux, 1, no)
<1>1. long \in Nat /\ ux \in {1, -1} /\ uy = -1 /\ Diff(sy, sy) = 0 /\ ~no
  <2>1. uy = -1 /\ Diff(sy, sy) = 0
    BY DEF Sign, Diff
  <2> QED
    BY <2>1, Directions
<1>2. \A a : Dot(a, sy) = <<a, page + (sy % 2), sy \div 2>>
  BY DEF Dot, Ready
<1>3. pn = page + (sy % 2) /\ ln = sy \div 2 /\ ln \in Nat
  <2>1. sy \div 2 \in Nat
    OBVIOUS
  <2> QED
    BY <1>2, <2>1
<1>4. \A a : Dot(a, sy) = <<a, pn, ln>>
  BY <1>2, <1>3
<1> HIDE DEF long, ux, uy, pn, ln
<1>5. PICK B : /\ Near(B, long, 0)
               /\ OnPage(C, pn, sx, ln, ux, 1, no, long, B)
  <2>1. 0 \in Nat /\ 0 <= long /\ 1 \in {1, -1} /\ no \in BOOLEAN
    BY <1>1
  <2> QED
    <3>2. CommandNear(sx, pn, ln, long, 0, ux, 1, no)
      BY <1>1, <2>1, CommandIs, Zenon
    <3> QED
      BY <3>2, Zenon DEF CommandNear, C
<1> HIDE DEF C
<1>6. \A k \in 0..long : B[k] = 0
  <2>1. 0 <= long /\ 0 \in Nat
    BY <1>1
  <2>2. \A k \in 0..long : B[k] \in 0..0
    BY <1>1, <1>5, <2>1, NearEnds
  <2> QED
    BY <2>2
<1>7. InOrder(C, sx, sy, ux, uy, no, long, B)
  <2>1. ASSUME NEW k \in 1..long + 1
        PROVE  <<Pt(sx, ln, ux, 1, no, k - 1, B[k - 1])[1], pn, Pt(sx, ln, ux, 1, no, k - 1, B[k - 1])[2]>>
                 = Dot(Pt(sx, sy, ux, uy, no, k - 1, B[k - 1])[1], Pt(sx, sy, ux, uy, no, k - 1, B[k - 1])[2])
    <3>1. B[k - 1] = 0
      <4>1. k - 1 \in 0..long
        BY <1>1
      <4> QED
        BY <1>6, <4>1
    <3>2. Pt(sx, ln, ux, 1, no, k - 1, 0) = <<sx + ux * (k - 1), ln>>
      <4>1. Pt(sx, ln, ux, 1, no, k - 1, 0) = <<sx + ux * (k - 1), ln + 1 * 0>>
        BY <1>1 DEF Pt
      <4> QED
        BY <1>3, <4>1
    <3>3. Pt(sx, sy, ux, uy, no, k - 1, 0) = <<sx + ux * (k - 1), sy>>
      <4>1. Pt(sx, sy, ux, uy, no, k - 1, 0) = <<sx + ux * (k - 1), sy + uy * 0>>
        BY <1>1 DEF Pt
      <4> QED
        BY <1>1, <4>1
    <3> DEFINE a == sx + ux * (k - 1)
    <3> HIDE DEF a
    <3>4. Pt(sx, ln, ux, 1, no, k - 1, 0) = <<a, ln>> /\ Pt(sx, sy, ux, uy, no, k - 1, 0) = <<a, sy>>
      BY <3>2, <3>3 DEF a
    <3>5. <<a, ln>>[1] = a /\ <<a, ln>>[2] = ln /\ <<a, sy>>[1] = a /\ <<a, sy>>[2] = sy
      OBVIOUS
    <3> QED
      BY <1>4, <3>1, <3>4, <3>5
  <2> QED
    BY <1>5, <2>1, Zenon DEF InOrder, OnPage
<1> DEFINE P == Trace(sx, sy, ux, uy, no, long, B)
<1>8. Plots(C, DotSet(P), one)
  <2>1. 0 \in Nat /\ uy \in {1, -1} /\ no \in BOOLEAN
    BY <1>1
  <2> QED
    BY <1>1, <1>5, <1>7, <2>1, PlotsTrace
<1>9. IsLine(P, sx, sy, dx, sy)
  <2>1. P = Trace(sx, sy, Sign(sx, dx), Sign(sy, sy), no, long, B)
    BY Zenon DEF ux, uy
  <2>2. Axes(no, long, 0, Diff(sx, dx), Diff(sy, sy)) /\ no \in BOOLEAN /\ 0 \in Nat
    <3>1. Diff(sx, dx) = long
      BY DEF long
    <3>2. no \in BOOLEAN /\ 0 \in Nat /\ 0 <= long
      BY <1>1
    <3> QED
      BY <1>1, <3>1, <3>2 DEF Axes
  <2> HIDE DEF P
  <2> QED
    BY <1>1, <1>5, <2>1, <2>2, Zenon DEF IsLine
<1>10. C = Command(sx, Dot(sx, sy)[2], Dot(sx, sy)[3], Diff(sx, dx), 0, Sign(sx, dx), 1, no)
  BY Zenon DEF C, pn, ln, long, ux
<1> QED
  BY <1>8, <1>9, <1>10

LEMMA LineDraws ==
  ASSUME Ready, NEW sx \in Nat, NEW sy \in Nat, NEW dx \in Nat, NEW dy \in Nat, NEW junk,
         LineRead(sx, sy, dx, dy), NEW one, one => ~mc /\ (il => sy = dy)
  PROVE  \E P : IsLine(P, sx, sy, dx, dy) /\ Plots(LineDots(sx, sy, dx, dy, junk), DotSet(P), one)
<1> DEFINE L == LineDots(sx, sy, dx, dy, junk)
<1>0. ASSUME ~one, L = Followed(sx, sy, dx, dy) PROVE \E P : IsLine(P, sx, sy, dx, dy) /\ Plots(L, DotSet(P), one)
  <2>1. PICK P : IsLine(P, sx, sy, dx, dy) /\ Plots(Followed(sx, sy, dx, dy), DotSet(P), FALSE)
    BY FollowedDraws
  <2>2. Plots(Followed(sx, sy, dx, dy), DotSet(P), one)
    BY <1>0, <2>1 DEF Plots
  <2> HIDE DEF L
  <2> QED
    BY <1>0, <2>1, <2>2
<1>1. CASE mc
  <2>1. L = Followed(sx, sy, dx, dy)
    BY <1>1 DEF LineDots, Ready
  <2> QED
    BY <1>0, <1>1, <2>1
<1>2. CASE ~mc /\ ~il
  <2>1. L = Straight(sx, sy, dx, dy)
    BY <1>2 DEF LineDots
  <2> HIDE DEF L
  <2>2. PlotsLine(Straight(sx, sy, dx, dy), sx, sy, dx, dy, one)
    BY <1>2, StraightDraws, Zenon
  <2>3. PICK P : IsLine(P, sx, sy, dx, dy) /\ Plots(Straight(sx, sy, dx, dy), DotSet(P), one)
    BY <2>2, Zenon DEF PlotsLine
  <2>4. IsLine(P, sx, sy, dx, dy) /\ Plots(L, DotSet(P), one)
    BY <2>1, <2>3
  <2> QED
    BY <2>4 DEF L
<1>3. CASE il /\ sy = dy
  <2>1. ~mc
    BY <1>3 DEF Ready
  <2> DEFINE no == FALSE
  <2>2. L = Command(sx, Dot(sx, sy)[2], Dot(sx, sy)[3], Diff(sx, dx), 0, Sign(sx, dx), 1, no)
    BY <1>3, <2>1 DEF LineDots
  <2> HIDE DEF L, no
  <2>3. PICK P : /\ IsLine(P, sx, sy, dx, sy)
                 /\ Plots(Command(sx, Dot(sx, sy)[2], Dot(sx, sy)[3], Diff(sx, dx), 0, Sign(sx, dx), 1, no), DotSet(P), one)
    BY <1>3, LevelDraws DEF no
  <2>4. IsLine(P, sx, sy, dx, dy) /\ Plots(L, DotSet(P), one)
    BY <1>3, <2>2, <2>3
  <2> QED
    BY <2>4 DEF L
<1>4. CASE il /\ sy # dy
  <2>1. ~mc /\ sx # dx
    BY <1>4 DEF Ready, LineRead
  <2>2. L = Followed(sx, sy, dx, dy)
    BY <1>4, <2>1 DEF LineDots
  <2> QED
    BY <1>0, <1>4, <2>2
<1> QED
  BY <1>1, <1>2, <1>3, <1>4 DEF Ready

(***************************************************************************)
(* Boxes                                                                   *)
(***************************************************************************)
Rect(sx, sy, dx, dy) == (Low(sx, dx)..High(sx, dx)) \X (Low(sy, dy)..High(sy, dy))

LEMMA LineIn ==
  ASSUME NEW sx \in Nat, NEW sy \in Nat, NEW dx \in Nat, NEW dy \in Nat, NEW P, IsLine(P, sx, sy, dx, dy)
  PROVE  P \subseteq Rect(sx, sy, dx, dy)
<1>1. \A p \in P : p[1] \in Low(sx, dx)..High(sx, dx) /\ p[2] \in Low(sy, dy)..High(sy, dy)
  BY LineGood, Zenon DEF LineAlong
<1>2. \A p \in P : \E a, b : p = <<a, b>>
  <2>1. PICK tall, long, B : P = Trace(sx, sy, Sign(sx, dx), Sign(sy, dy), tall, long, B)
    BY Zenon DEF IsLine
  <2>2. ASSUME NEW p \in P PROVE \E a, b : p = <<a, b>>
    <3>1. PICK k \in 0..long : p = Pt(sx, sy, Sign(sx, dx), Sign(sy, dy), tall, k, B[k])
      BY <2>1, Zenon DEF Trace
    <3> QED
      BY <3>1, Zenon DEF Pt
  <2> QED
    BY <2>2
<1> DEFINE X == Low(sx, dx)..High(sx, dx)
           Y == Low(sy, dy)..High(sy, dy)
<1>3. Rect(sx, sy, dx, dy) = X \X Y
  BY Zenon DEF Rect
<1> HIDE DEF X, Y
<1>4. ASSUME NEW p \in P PROVE p \in X \X Y
  <2>1. PICK a, b : p = <<a, b>>
    BY <1>2
  <2>2. p[1] \in X /\ p[2] \in Y
    BY <1>1 DEF X, Y
  <2> QED
    BY <2>1, <2>2
<1> QED
  BY <1>3, <1>4

LEMMA SegmentIs ==
  ASSUME NEW sx \in Nat, NEW sy \in Nat, NEW dx \in Nat, NEW dy \in Nat, NEW P, IsLine(P, sx, sy, dx, dy),
         sx = dx \/ sy = dy
  PROVE  P = Rect(sx, sy, dx, dy)
<1> DEFINE w == Diff(sx, dx)
           h == Diff(sy, dy)
           X == Low(sx, dx)..High(sx, dx)
           Y == Low(sy, dy)..High(sy, dy)
<1>1. P \subseteq X \X Y
  BY LineIn DEF Rect
<1>2. LineAlong(P, sx, sy, dx, dy)
  BY LineGood
<1>3. <<sx, sy>> \in P
  BY <1>2, Zenon DEF LineAlong
<1>4. \A k \in 0..High(Diff(dx - sx, 0), Diff(dy - sy, 0)) :
        \E p \in P : IF Diff(dx - sx, 0) >= Diff(dy - sy, 0) THEN Diff(p[1], sx) = k ELSE Diff(p[2], sy) = k
  BY <1>2, Zenon DEF LineAlong
<1>5. /\ w \in Nat /\ h \in Nat /\ Diff(dx - sx, 0) = w /\ Diff(dy - sy, 0) = h
      /\ \A c \in X : \E k \in 0..w : c = sx + Sign(sx, dx) * k
      /\ \A c \in Y : \E k \in 0..h : c = sy + Sign(sy, dy) * k
      /\ \A k \in 0..w : Diff(sx + Sign(sx, dx) * k, sx) = k
      /\ \A k \in 0..h : Diff(sy + Sign(sy, dy) * k, sy) = k
  <2>1. w \in Nat /\ Diff(dx - sx, 0) = w
    BY Directions
  <2>2. h \in Nat /\ Diff(dy - sy, 0) = h
    BY Directions
  <2>3. \A c \in X : \E k \in 0..w : c = sx + Sign(sx, dx) * k
    BY Directions, Zenon
  <2>4. \A c \in Y : \E k \in 0..h : c = sy + Sign(sy, dy) * k
    BY Directions, Zenon
  <2>5. \A k \in 0..w : Diff(sx + Sign(sx, dx) * k, sx) = k
    BY Directions
  <2>6. \A k \in 0..h : Diff(sy + Sign(sy, dy) * k, sy) = k
    BY Directions
  <2> HIDE DEF w, h, X, Y
  <2> QED
    BY <2>1, <2>2, <2>3, <2>4, <2>5, <2>6
<1>6. \A k \in 0..High(w, h) : \E p \in P : IF w >= h THEN Diff(p[1], sx) = k ELSE Diff(p[2], sy) = k
  BY <1>4, <1>5
<1>7. (sx = dx => w = 0 /\ X = {sx}) /\ (sy = dy => h = 0 /\ Y = {sy})
  BY DEF Diff, Low, High
<1>8. High(w, h) = IF w >= h THEN w ELSE h
  BY <1>5 DEF High
<1> HIDE DEF X, Y, w, h
<1>9. ASSUME NEW a \in X, NEW b \in Y PROVE <<a, b>> \in P
  <2>1. PICK i \in 0..w : a = sx + Sign(sx, dx) * i
    BY <1>5
  <2>2. PICK j \in 0..h : b = sy + Sign(sy, dy) * j
    BY <1>5
  <2>3. CASE w >= h
    <3>1. h = 0 /\ Y = {sy}
      <4>1. CASE sy = dy
        BY <1>7, <4>1
      <4>2. CASE sx = dx
        <5>1. w = 0 /\ h = 0
          BY <1>5, <1>7, <2>3, <4>2
        <5>2. \A c \in Y : c = sy + Sign(sy, dy) * 0
          <6> SUFFICES ASSUME NEW c \in Y PROVE c = sy + Sign(sy, dy) * 0
            OBVIOUS
          <6>1. PICK k \in 0..h : c = sy + Sign(sy, dy) * k
            BY <1>5
          <6> QED
            BY <5>1, <6>1
        <5>3. sy + Sign(sy, dy) * 0 = sy
          BY DEF Sign
        <5>4. sy \in Y
          BY <1>1, <1>3
        <5> QED
          BY <5>1, <5>2, <5>3, <5>4
      <4> QED
        BY <4>1, <4>2
    <3>2. PICK p \in P : Diff(p[1], sx) = i
      BY <1>6, <1>8, <2>3
    <3>3. p \in X \X Y
      BY <1>1
    <3>4. p[1] \in X /\ p[2] \in Y /\ p = <<p[1], p[2]>>
      BY <3>3
    <3>5. PICK k \in 0..w : p[1] = sx + Sign(sx, dx) * k
      BY <1>5, <3>4
    <3>6. k = i
      BY <1>5, <3>2, <3>5
    <3> QED
      BY <2>1, <3>1, <3>4, <3>5, <3>6
  <2>4. CASE ~(w >= h)
    <3>1. w = 0 /\ X = {sx}
      BY <1>5, <1>7, <2>4
    <3>2. PICK p \in P : Diff(p[2], sy) = j
      BY <1>6, <1>8, <2>4
    <3>3. p \in X \X Y
      BY <1>1
    <3>4. p[1] \in X /\ p[2] \in Y /\ p = <<p[1], p[2]>>
      BY <3>3
    <3>5. PICK k \in 0..h : p[2] = sy + Sign(sy, dy) * k
      BY <1>5, <3>4
    <3>6. k = j
      BY <1>5, <3>2, <3>5
    <3> QED
      BY <2>2, <3>1, <3>4, <3>5, <3>6
  <2> QED
    BY <2>3, <2>4
<1>10. Rect(sx, sy, dx, dy) = X \X Y
  BY Zenon DEF Rect, X, Y
<1> QED
  BY <1>1, <1>9, <1>10

(* An upright or level line plots all dots between its ends.               *)
LEMMA SegmentDraws ==
  ASSUME Ready, NEW sx \in Nat, NEW sy \in Nat, NEW dx \in Nat, NEW dy \in Nat, NEW junk,
         LineRead(sx, sy, dx, dy), NEW one, one => ~mc /\ (il => sy = dy), sx = dx \/ sy = dy
  PROVE  Plots(LineDots(sx, sy, dx, dy, junk), DotSet(Rect(sx, sy, dx, dy)), one)
<1>1. PICK P : IsLine(P, sx, sy, dx, dy) /\ Plots(LineDots(sx, sy, dx, dy, junk), DotSet(P), one)
  BY LineDraws
<1>2. P = Rect(sx, sy, dx, dy)
  BY <1>1, SegmentIs
<1> QED
  BY <1>1, <1>2

Border(sx, sy, dx, dy) == {p \in Rect(sx, sy, dx, dy) : p[1] \in {sx, dx} \/ p[2] \in {sy, dy}}

LEMMA BoxDraws ==
  ASSUME Ready, NEW sx \in Nat, NEW sy \in Nat, NEW dx \in Nat, NEW dy \in Nat, NEW junk, ~il \/ sy = dy
  PROVE  Plots(BoxDots(sx, sy, dx, dy, junk), DotSet(Border(sx, sy, dx, dy)), FALSE)
<1> DEFINE no == FALSE
           L1 == LineDots(sx, sy, dx, sy, junk)
           L2 == LineDots(sx, sy, sx, dy, junk)
           L3 == LineDots(dx, sy, dx, dy, junk)
           L4 == LineDots(sx, dy, dx, dy, junk)
           R1 == Rect(sx, sy, dx, sy)
           R2 == Rect(sx, sy, sx, dy)
           R3 == Rect(dx, sy, dx, dy)
           R4 == Rect(sx, dy, dx, dy)
<1>0. \A a, b : no => a \cap b = {}
  OBVIOUS
<1>1. BoxDots(sx, sy, dx, dy, junk) = L1 \o L2 \o L3 \o L4
  BY Zenon DEF BoxDots
<1>2. /\ LineRead(sx, sy, dx, sy)
      /\ LineRead(sx, sy, sx, dy)
      /\ LineRead(dx, sy, dx, dy)
      /\ LineRead(sx, dy, dx, dy)
  BY DEF LineRead
<1>3. Plots(L1, DotSet(R1), no)
  BY <1>2, SegmentDraws
<1>4. Plots(L2, DotSet(R2), no)
  BY <1>2, SegmentDraws
<1>5. Plots(L3, DotSet(R3), no)
  BY <1>2, SegmentDraws
<1>6. Plots(L4, DotSet(R4), no)
  BY <1>2, SegmentDraws
<1>7. R1 \cup R2 \cup R3 \cup R4 = Border(sx, sy, dx, dy)
  <2>1. Low(sx, sx) = sx /\ High(sx, sx) = sx /\ Low(sy, sy) = sy /\ High(sy, sy) = sy
    BY DEF Low, High
  <2>2. Low(dx, dx) = dx /\ High(dx, dx) = dx /\ Low(dy, dy) = dy /\ High(dy, dy) = dy
    BY DEF Low, High
  <2> DEFINE X == Low(sx, dx)..High(sx, dx)
             Y == Low(sy, dy)..High(sy, dy)
  <2>3. sx \in X /\ dx \in X /\ sy \in Y /\ dy \in Y
    BY DEF Low, High
  <2>4. sx..sx = {sx} /\ dx..dx = {dx} /\ sy..sy = {sy} /\ dy..dy = {dy}
    OBVIOUS
  <2>5. /\ R1 = X \X {sy}
        /\ R2 = {sx} \X Y
        /\ R3 = {dx} \X Y
        /\ R4 = X \X {dy}
        /\ Rect(sx, sy, dx, dy) = X \X Y
    BY <2>1, <2>2, <2>4, Zenon DEF Rect
  <2> HIDE DEF R1, R2, R3, R4, X, Y
  <2>6. Border(sx, sy, dx, dy) = {p \in X \X Y : p[1] \in {sx, dx} \/ p[2] \in {sy, dy}}
    BY <2>5, Zenon DEF Border
  <2> QED
    BY <2>3, <2>5, <2>6
<1> HIDE DEF no, L1, L2, L3, L4, R1, R2, R3, R4
<1>8. Plots(L1 \o L2, DotSet(R1) \cup DotSet(R2), no)
  BY <1>0, <1>3, <1>4, PlotsJoin
<1>9. Plots(L1 \o L2 \o L3, DotSet(R1) \cup DotSet(R2) \cup DotSet(R3), no)
  BY <1>0, <1>5, <1>8, PlotsJoin
<1>10. Plots(L1 \o L2 \o L3 \o L4, DotSet(R1) \cup DotSet(R2) \cup DotSet(R3) \cup DotSet(R4), no)
  BY <1>0, <1>6, <1>9, PlotsJoin
<1>11. DotSet(R1) \cup DotSet(R2) \cup DotSet(R3) \cup DotSet(R4) = DotSet(Border(sx, sy, dx, dy))
  <2>1. DotSet(R1) \cup DotSet(R2) = DotSet(R1 \cup R2)
    BY DotsUnion, Zenon
  <2>2. DotSet(R1 \cup R2) \cup DotSet(R3) = DotSet(R1 \cup R2 \cup R3)
    BY DotsUnion, Zenon
  <2>3. DotSet(R1 \cup R2 \cup R3) \cup DotSet(R4) = DotSet(R1 \cup R2 \cup R3 \cup R4)
    BY DotsUnion, Zenon
  <2> QED
    BY <1>7, <2>1, <2>2, <2>3, Zenon
<1> QED
  BY <1>1, <1>10, <1>11 DEF no

(* R is cut into pieces that have no dot in common and make up `all`.      *)
Slices(R, N, all) ==
  /\ \A k \in N : R[k] \subseteq Int \X Int
  /\ \A j, k \in N : j # k => R[j] \cap R[k] = {}
  /\ UNION {R[k] : k \in N} = all

LEMMA DotsMany ==
  ASSUME NEW R, NEW N
  PROVE  UNION {DotSet(R[k]) : k \in N} = DotSet(UNION {R[k] : k \in N})
<1> DEFINE U == UNION {DotSet(R[k]) : k \in N}
           V == UNION {R[k] : k \in N}
<1>1. ASSUME NEW d \in U PROVE d \in DotSet(V)
  <2>1. PICK k \in N : d \in DotSet(R[k])
    OBVIOUS
  <2>2. PICK p \in R[k] : d = Dot(p[1], p[2])
    BY <2>1, Zenon DEF DotSet
  <2>3. p \in V
    OBVIOUS
  <2> HIDE DEF V
  <2> QED
    BY <2>2, <2>3, Zenon DEF DotSet
<1>2. ASSUME NEW d \in DotSet(V) PROVE d \in U
  <2> HIDE DEF V
  <2>1. PICK p \in V : d = Dot(p[1], p[2])
    BY Zenon DEF DotSet
  <2>2. PICK k \in N : p \in R[k]
    BY <2>1 DEF V
  <2>3. d \in DotSet(R[k])
    BY <2>1, <2>2, Zenon DEF DotSet
  <2> QED
    BY <2>3
<1> HIDE DEF U, V
<1> QED
  BY <1>1, <1>2 DEF U, V

LEMMA Whole ==
  ASSUME NEW R, NEW N, NEW W, \A k \in N : R[k] \subseteq W, \A p \in W : \E k \in N : p \in R[k]
  PROVE  UNION {R[k] : k \in N} = W
<1> DEFINE U == UNION {R[k] : k \in N}
<1>1. ASSUME NEW p \in U PROVE p \in W
  <2>1. PICK k \in N : p \in R[k]
    OBVIOUS
  <2> QED
    BY <2>1
<1>2. ASSUME NEW p \in W PROVE p \in U
  <2>1. PICK k \in N : p \in R[k]
    OBVIOUS
  <2> QED
    BY <2>1
<1> HIDE DEF U
<1> QED
  BY <1>1, <1>2 DEF U

LEMMA RowsSlice ==
  ASSUME NEW R, NEW N, NEW X, NEW Y, NEW f, X \subseteq Int, Y \subseteq Int,
         \A k \in N : R[k] = X \X {f[k]} /\ f[k] \in Y,
         \A c \in Y : \E k \in N : c = f[k],
         \A j, k \in N : j # k => f[j] # f[k]
  PROVE  Slices(R, N, X \X Y)
<1>1. ASSUME NEW k \in N PROVE R[k] \subseteq Int \X Int
  <2>1. R[k] \subseteq X \X Y
    OBVIOUS
  <2>2. X \X Y \subseteq Int \X Int
    OBVIOUS
  <2> QED
    BY <2>1, <2>2, Zenon
<1>2. ASSUME NEW j \in N, NEW k \in N, j # k PROVE R[j] \cap R[k] = {}
  BY <1>2
<1>3. ASSUME NEW k \in N PROVE R[k] \subseteq X \X Y
  OBVIOUS
<1>4. ASSUME NEW a \in X, NEW b \in Y PROVE \E k \in N : <<a, b>> \in R[k]
  OBVIOUS
<1> DEFINE W == X \X Y
<1>5. \A p \in W : \E k \in N : p \in R[k]
  BY <1>4
<1>6. UNION {R[k] : k \in N} = W
  <2> HIDE DEF W
  <2>1. \A k \in N : R[k] \subseteq W
    BY <1>3 DEF W
  <2> QED
    BY <1>5, <2>1, Whole, Zenon
<1> QED
  BY <1>1, <1>2, <1>6, Zenon DEF Slices

LEMMA ColumnsSlice ==
  ASSUME NEW R, NEW N, NEW X, NEW Y, NEW f, X \subseteq Int, Y \subseteq Int,
         \A k \in N : R[k] = {f[k]} \X Y /\ f[k] \in X,
         \A c \in X : \E k \in N : c = f[k],
         \A j, k \in N : j # k => f[j] # f[k]
  PROVE  Slices(R, N, X \X Y)
<1>1. ASSUME NEW k \in N PROVE R[k] \subseteq Int \X Int
  <2>1. R[k] \subseteq X \X Y
    OBVIOUS
  <2>2. X \X Y \subseteq Int \X Int
    OBVIOUS
  <2> QED
    BY <2>1, <2>2, Zenon
<1>2. ASSUME NEW j \in N, NEW k \in N, j # k PROVE R[j] \cap R[k] = {}
  BY <1>2
<1>3. ASSUME NEW k \in N PROVE R[k] \subseteq X \X Y
  OBVIOUS
<1>4. ASSUME NEW a \in X, NEW b \in Y PROVE \E k \in N : <<a, b>> \in R[k]
  OBVIOUS
<1> DEFINE W == X \X Y
<1>5. \A p \in W : \E k \in N : p \in R[k]
  BY <1>4
<1>6. UNION {R[k] : k \in N} = W
  <2> HIDE DEF W
  <2>1. \A k \in N : R[k] \subseteq W
    BY <1>3 DEF W
  <2> QED
    BY <1>5, <2>1, Whole, Zenon
<1> QED
  BY <1>1, <1>2, <1>6, Zenon DEF Slices

(* Lines one after another plot the rectangle they make.                   *)
LEMMA LevelOnes ==
  ASSUME NEW x0 \in Nat, NEW y0 \in Nat, NEW x1 \in Nat, NEW y1 \in Nat, x0 <= x1, y0 <= y1,
         NEW R, \A k \in 1..y1 - y0 + 1 : R[k] = Rect(x0, y0 + k - 1, x1, y0 + k - 1)
  PROVE  Slices(R, 1..y1 - y0 + 1, (x0..x1) \X (y0..y1))
<1> DEFINE f == [k \in 1..y1 - y0 + 1 |-> y0 + k - 1]
<1>1. ASSUME NEW k \in 1..y1 - y0 + 1 PROVE R[k] = (x0..x1) \X {f[k]} /\ f[k] \in y0..y1
  <2> DEFINE r == f[k]
  <2>1. r \in Nat /\ r = y0 + k - 1 /\ r \in y0..y1
    OBVIOUS
  <2>2. R[k] = Rect(x0, r, x1, r)
    BY <2>1
  <2> HIDE DEF r, f
  <2>3. Low(x0, x1) = x0 /\ High(x0, x1) = x1 /\ Low(r, r) = r /\ High(r, r) = r
    BY <2>1 DEF Low, High
  <2>4. r..r = {r}
    BY <2>1
  <2>5. R[k] = (x0..x1) \X {r}
    BY <2>2, <2>3, <2>4, Zenon DEF Rect
  <2> QED
    BY <2>1, <2>5 DEF r
<1>2. ASSUME NEW c \in y0..y1 PROVE \E k \in 1..y1 - y0 + 1 : c = f[k]
  <2>1. c - y0 + 1 \in 1..y1 - y0 + 1 /\ f[c - y0 + 1] = c
    OBVIOUS
  <2> QED
    BY <2>1
<1>3. \A j, k \in 1..y1 - y0 + 1 : j # k => f[j] # f[k]
  OBVIOUS
<1> DEFINE N == 1..y1 - y0 + 1
           X == x0..x1
           Y == y0..y1
<1>4. X \subseteq Int /\ Y \subseteq Int
  OBVIOUS
<1> HIDE DEF N, X, Y, f
<1> QED
  <2>1. Slices(R, N, X \X Y)
    <3>1. \A k \in N : R[k] = X \X {f[k]} /\ f[k] \in Y
      BY <1>1 DEF N, X, Y
    <3>2. \A c \in Y : \E k \in N : c = f[k]
      BY <1>2 DEF N, Y
    <3>3. \A j, k \in N : j # k => f[j] # f[k]
      BY <1>3 DEF N
    <3> QED
      BY <1>4, <3>1, <3>2, <3>3, RowsSlice, Zenon
  <2> QED
    BY <2>1, Zenon DEF N, X, Y

LEMMA UprightOnes ==
  ASSUME NEW x0 \in Nat, NEW y0 \in Nat, NEW x1 \in Nat, NEW y1 \in Nat, x0 <= x1, y0 <= y1,
         NEW R, \A k \in 1..x1 - x0 + 1 : R[k] = Rect(x0 + k - 1, y0, x0 + k - 1, y1)
  PROVE  Slices(R, 1..x1 - x0 + 1, (x0..x1) \X (y0..y1))
<1> DEFINE f == [k \in 1..x1 - x0 + 1 |-> x0 + k - 1]
<1>1. ASSUME NEW k \in 1..x1 - x0 + 1 PROVE R[k] = {f[k]} \X (y0..y1) /\ f[k] \in x0..x1
  <2> DEFINE c == f[k]
  <2>1. c \in Nat /\ c = x0 + k - 1 /\ c \in x0..x1
    OBVIOUS
  <2>2. R[k] = Rect(c, y0, c, y1)
    BY <2>1
  <2> HIDE DEF c, f
  <2>3. Low(y0, y1) = y0 /\ High(y0, y1) = y1 /\ Low(c, c) = c /\ High(c, c) = c
    BY <2>1 DEF Low, High
  <2>4. c..c = {c}
    BY <2>1
  <2>5. R[k] = {c} \X (y0..y1)
    BY <2>2, <2>3, <2>4, Zenon DEF Rect
  <2> QED
    BY <2>1, <2>5 DEF c
<1>2. ASSUME NEW c \in x0..x1 PROVE \E k \in 1..x1 - x0 + 1 : c = f[k]
  <2>1. c - x0 + 1 \in 1..x1 - x0 + 1 /\ f[c - x0 + 1] = c
    OBVIOUS
  <2> QED
    BY <2>1
<1>3. \A j, k \in 1..x1 - x0 + 1 : j # k => f[j] # f[k]
  OBVIOUS
<1> DEFINE N == 1..x1 - x0 + 1
           X == x0..x1
           Y == y0..y1
<1>4. X \subseteq Int /\ Y \subseteq Int
  OBVIOUS
<1> HIDE DEF N, X, Y, f
<1> QED
  <2>1. Slices(R, N, X \X Y)
    <3>1. \A k \in N : R[k] = {f[k]} \X Y /\ f[k] \in X
      BY <1>1 DEF N, X, Y
    <3>2. \A c \in X : \E k \in N : c = f[k]
      BY <1>2 DEF N, X
    <3>3. \A j, k \in N : j # k => f[j] # f[k]
      BY <1>3 DEF N
    <3> QED
      BY <1>4, <3>1, <3>2, <3>3, ColumnsSlice, Zenon
  <2> QED
    BY <2>1, Zenon DEF N, X, Y

(* Pieces that are plotted one after another.                              *)
LEMMA SlicesDraw ==
  ASSUME Ready, NEW S, NEW R, NEW n \in Nat, NEW all, Slices(R, 1..n, all), S = [k \in 1..n |-> S[k]], NEW one,
         \A k \in 1..n : Plots(S[k], DotSet(R[k]), one)
  PROVE  Plots(FlattenSeq(S), DotSet(all), one)
<1> DEFINE Q == [k \in 1..n |-> DotSet(R[k])]
<1>1. /\ \A k \in 1..n : R[k] \subseteq Int \X Int
      /\ \A j, k \in 1..n : j # k => R[j] \cap R[k] = {}
      /\ UNION {R[k] : k \in 1..n} = all
  BY Zenon DEF Slices
<1>2. \A k \in 1..n : Q[k] = DotSet(R[k])
  OBVIOUS
<1> HIDE DEF Q
<1>3. \A j, k \in 1..n : j # k => DotSet(R[j]) \cap DotSet(R[k]) = {}
  BY <1>1, DotsApart
<1>4. \A j, k \in 1..n : j # k => Q[j] \cap Q[k] = {}
  BY <1>2, <1>3, Zenon
<1>5. \A k \in 1..n : Plots(S[k], Q[k], one)
  BY <1>2, Zenon
<1>6. UNION {Q[k] : k \in 1..n} = DotSet(all)
  <2> DEFINE N == 1..n
  <2>1. UNION {DotSet(R[k]) : k \in N} = DotSet(UNION {R[k] : k \in N})
    BY DotsMany
  <2>2. {Q[k] : k \in N} = {DotSet(R[k]) : k \in N}
    BY <1>2
  <2> QED
    BY <1>1, <2>1, <2>2, Zenon
<1>7. Plots(FlattenSeq(S), UNION {Q[k] : k \in 1..n}, one)
  BY <1>4, <1>5, PlotsFlatten, Zenon
<1> QED
  BY <1>6, <1>7, Zenon

LEMMA FillDraws ==
  ASSUME Ready, NEW sx \in Nat, NEW sy \in Nat, NEW dx \in Nat, NEW dy \in Nat, NEW junk,
         ~il \/ ByLines(sx, sy, dx, dy)
  PROVE  Plots(FillDots(sx, sy, dx, dy, junk), DotSet(Rect(sx, sy, dx, dy)), ~mc)
<1> DEFINE x0 == Low(sx, dx)
           x1 == High(sx, dx)
           y0 == Low(sy, dy)
           y1 == High(sy, dy)
           one == ~mc
           A == [k \in 1..y1 - y0 + 1 |-> LineDots(x0, y0 + k - 1, x1, y0 + k - 1, junk)]
           C == [k \in 1..x1 - x0 + 1 |-> LineDots(x0 + k - 1, y0, x0 + k - 1, y1, junk)]
<1>1. x0 \in Nat /\ x1 \in Nat /\ y0 \in Nat /\ y1 \in Nat /\ x0 <= x1 /\ y0 <= y1
  BY DEF Low, High
<1>2. FillDots(sx, sy, dx, dy, junk) = IF ByLines(sx, sy, dx, dy) THEN FlattenSeq(A) ELSE FlattenSeq(C)
  BY Zenon DEF FillDots
<1>3. Rect(sx, sy, dx, dy) = (x0..x1) \X (y0..y1)
  BY Zenon DEF Rect
<1> HIDE DEF x0, x1, y0, y1
<1>4. CASE ByLines(sx, sy, dx, dy)
  <2> DEFINE n == y1 - y0 + 1
             R == [k \in 1..n |-> Rect(x0, y0 + k - 1, x1, y0 + k - 1)]
  <2>1. n \in Nat
    BY <1>1
  <2>2. Slices(R, 1..n, (x0..x1) \X (y0..y1))
    <3>1. \A k \in 1..n : R[k] = Rect(x0, y0 + k - 1, x1, y0 + k - 1)
      OBVIOUS
    <3> HIDE DEF R
    <3> QED
      BY <1>1, <3>1, LevelOnes
  <2>3. \A k \in 1..n : Plots(A[k], DotSet(R[k]), one)
    <3> SUFFICES ASSUME NEW k \in 1..n PROVE Plots(A[k], DotSet(R[k]), one)
      OBVIOUS
    <3> DEFINE r == y0 + k - 1
    <3>1. r \in Nat
      BY <1>1
    <3>2. A[k] = LineDots(x0, r, x1, r, junk) /\ R[k] = Rect(x0, r, x1, r)
      BY Zenon
    <3> HIDE DEF r, A, R
    <3>3. LineRead(x0, r, x1, r)
      BY DEF LineRead
    <3>4. one => ~mc /\ (il => r = r)
      OBVIOUS
    <3> HIDE DEF one
    <3>5. Plots(LineDots(x0, r, x1, r, junk), DotSet(Rect(x0, r, x1, r)), one)
      BY <1>1, <3>1, <3>3, <3>4, SegmentDraws
    <3> QED
      BY <3>2, <3>5, Zenon
  <2>4. A = [k \in 1..n |-> A[k]]
    BY Zenon
  <2> HIDE DEF R, n, A, one
  <2>5. Plots(FlattenSeq(A), DotSet((x0..x1) \X (y0..y1)), one)
    BY <2>1, <2>2, <2>3, <2>4, SlicesDraw, Zenon
  <2> QED
    BY <1>2, <1>3, <1>4, <2>5, Zenon DEF one
<1>5. CASE ~ByLines(sx, sy, dx, dy)
  <2> DEFINE n == x1 - x0 + 1
             R == [k \in 1..n |-> Rect(x0 + k - 1, y0, x0 + k - 1, y1)]
  <2>0. ~il
    BY <1>5
  <2>1. n \in Nat
    BY <1>1
  <2>2. Slices(R, 1..n, (x0..x1) \X (y0..y1))
    <3>1. \A k \in 1..n : R[k] = Rect(x0 + k - 1, y0, x0 + k - 1, y1)
      OBVIOUS
    <3> HIDE DEF R
    <3> QED
      BY <1>1, <3>1, UprightOnes
  <2>3. \A k \in 1..n : Plots(C[k], DotSet(R[k]), one)
    <3> SUFFICES ASSUME NEW k \in 1..n PROVE Plots(C[k], DotSet(R[k]), one)
      OBVIOUS
    <3> DEFINE c == x0 + k - 1
    <3>1. c \in Nat
      BY <1>1
    <3>2. C[k] = LineDots(c, y0, c, y1, junk) /\ R[k] = Rect(c, y0, c, y1)
      BY Zenon
    <3> HIDE DEF c, C, R
    <3>3. LineRead(c, y0, c, y1)
      BY <2>0 DEF LineRead
    <3>4. one => ~mc /\ (il => y0 = y1)
      BY <2>0
    <3> HIDE DEF one
    <3>5. Plots(LineDots(c, y0, c, y1, junk), DotSet(Rect(c, y0, c, y1)), one)
      BY <1>1, <3>1, <3>3, <3>4, SegmentDraws
    <3> QED
      BY <3>2, <3>5, Zenon
  <2>4. C = [k \in 1..n |-> C[k]]
    BY Zenon
  <2> HIDE DEF R, n, C, one
  <2>5. Plots(FlattenSeq(C), DotSet((x0..x1) \X (y0..y1)), one)
    BY <2>1, <2>2, <2>3, <2>4, SlicesDraw, Zenon
  <2> QED
    BY <1>2, <1>3, <1>5, <2>5, Zenon DEF one
<1> QED
  BY <1>4, <1>5

(* A block plots w dots of each of h lines of a page.                      *)
Tile(X, p, Y) == {<<q[1], p, q[2]>> : q \in X \X Y}

LEMMA InTile == ASSUME NEW X, NEW Y, NEW p, NEW a \in X, NEW b \in Y PROVE <<a, p, b>> \in Tile(X, p, Y)
<1>1. <<a, b>> \in X \X Y /\ <<a, b>>[1] = a /\ <<a, b>>[2] = b
  OBVIOUS
<1> QED
  BY <1>1 DEF Tile

LEMMA OfTile == ASSUME NEW X, NEW Y, NEW p, NEW d \in Tile(X, p, Y) PROVE \E a \in X : \E b \in Y : d = <<a, p, b>>
<1>1. PICK q \in X \X Y : d = <<q[1], p, q[2]>>
  BY Zenon DEF Tile
<1>2. q[1] \in X /\ q[2] \in Y
  OBVIOUS
<1> QED
  BY <1>1, <1>2

LEMMA BlockDraws ==
  ASSUME NEW x0 \in Nat, NEW p \in Nat, NEW line \in Nat, NEW w \in Nat, w > 0, NEW h \in Nat, NEW one
  PROVE  Plots(Block(x0, p, line, w, h), Tile(x0..x0 + w - 1, p, line..line + h - 1), one)
<1> DEFINE n == w * h
           C == [k \in 1..n |-> <<x0 + ((k - 1) % w), p, line + ((k - 1) \div w)>>]
           A(k) == (k - 1) % w
           D(k) == (k - 1) \div w
           X == x0..x0 + w - 1
           Y == line..line + h - 1
           T == Tile(X, p, Y)
<1>1. Block(x0, p, line, w, h) = C
  BY Zenon DEF Block
<1>2. n \in Nat
  OBVIOUS
<1>3. ASSUME NEW k \in 1..n
      PROVE  A(k) \in 0..w - 1 /\ D(k) \in 0..h - 1 /\ k - 1 = D(k) * w + A(k)
  <2>1. k - 1 \in Nat /\ k - 1 < n
    BY <1>2
  <2>2. D(k) \in Nat /\ A(k) \in 0..w - 1 /\ k - 1 = D(k) * w + A(k)
    BY <2>1, DivisionOf
  <2> DEFINE d == D(k)
             a == A(k)
  <2>3. d \in Nat /\ a \in 0..w - 1 /\ d * w + a < w * h
    BY <2>1, <2>2
  <2> HIDE DEF d, a
  <2>4. d >= h => d * w >= w * h
    BY <2>3
  <2>5. d * w \in Nat /\ w * h \in Nat
    BY <2>3
  <2>6. d < h
    BY <2>3, <2>4, <2>5
  <2> QED
    BY <2>2, <2>3, <2>6 DEF d, a
<1>4. \A k \in 1..n : C[k] = <<x0 + A(k), p, line + D(k)>>
  OBVIOUS
<1>5. C \in Seq(Triples) /\ Len(C) = n
  <2>1. ASSUME NEW k \in 1..n PROVE C[k] \in Triples
    <3>1. x0 + A(k) \in Int /\ line + D(k) \in Int /\ p \in Int
      BY <1>3
    <3> HIDE DEF A, D, C
    <3> QED
      BY <1>4, <3>1 DEF Triples
  <2>2. C = [k \in 1..n |-> C[k]]
    BY Zenon
  <2> HIDE DEF C, n
  <2>3. C \in [1..n -> Triples]
    BY <2>1, <2>2, Zenon
  <2> QED
    BY <1>2, <2>3
<1>6. ASSUME NEW k \in 1..n PROVE C[k] \in T
  <2>1. x0 + A(k) \in x0..x0 + w - 1 /\ line + D(k) \in line..line + h - 1
    BY <1>3
  <2> HIDE DEF A, D, C, X, Y
  <2>2. C[k] = <<x0 + A(k), p, line + D(k)>>
    BY <1>4
  <2>3. x0 + A(k) \in X /\ line + D(k) \in Y
    BY <2>1 DEF X, Y
  <2>4. <<x0 + A(k), p, line + D(k)>> \in Tile(X, p, Y)
    BY <2>3, InTile, Zenon
  <2> QED
    BY <2>2, <2>4
<1>7. ASSUME NEW d \in T PROVE \E k \in 1..n : C[k] = d
  <2>0. \E a \in X : \E b \in Y : d = <<a, p, b>>
    <3> HIDE DEF X, Y
    <3> QED
      BY OfTile
  <2>1. PICK a \in x0..x0 + w - 1, b \in line..line + h - 1 : d = <<a, p, b>>
    BY <2>0
  <2> DEFINE i == a - x0
             j == b - line
  <2>2. i \in 0..w - 1 /\ j \in 0..h - 1 /\ a = x0 + i /\ b = line + j
    OBVIOUS
  <2> HIDE DEF i, j
  <2>3. (j * w + i) \div w = j /\ (j * w + i) % w = i
    BY <2>2, QuotientOf
  <2> DEFINE m == j * w
  <2>4. m \in Nat /\ m + w <= n
    <3>1. j + 1 <= h /\ (j + 1) * w = m + w
      BY <2>2
    <3>2. (j + 1) * w <= h * w
      BY <2>2
    <3> QED
      BY <2>2, <3>1, <3>2
  <2> HIDE DEF n
  <2>5. m + i + 1 \in 1..n /\ (m + i + 1) - 1 = m + i
    BY <1>2, <2>2, <2>4
  <2>6. A(m + i + 1) = i /\ D(m + i + 1) = j
    BY <2>3, <2>5
  <2> HIDE DEF m, A, D, C
  <2>7. C[m + i + 1] = <<x0 + i, p, line + j>>
    BY <1>4, <2>5, <2>6, Zenon
  <2> QED
    BY <2>1, <2>2, <2>5, <2>7, Zenon
<1>8. ASSUME NEW j \in 1..n, NEW k \in 1..n, j # k PROVE C[j] # C[k]
  <2> SUFFICES ASSUME C[j] = C[k] PROVE FALSE
    OBVIOUS
  <2>1. /\ A(j) \in 0..w - 1 /\ D(j) \in 0..h - 1 /\ j - 1 = D(j) * w + A(j)
        /\ A(k) \in 0..w - 1 /\ D(k) \in 0..h - 1 /\ k - 1 = D(k) * w + A(k)
    BY <1>3
  <2> HIDE DEF A, D, C
  <2>2. <<x0 + A(j), p, line + D(j)>> = <<x0 + A(k), p, line + D(k)>>
    BY <1>4, Zenon
  <2>3. x0 + A(j) = x0 + A(k) /\ line + D(j) = line + D(k)
    BY <2>2
  <2>4. A(j) = A(k) /\ D(j) = D(k)
    BY <2>1, <2>3
  <2>5. j - 1 = k - 1
    BY <2>1, <2>4
  <2> QED
    BY <1>2, <1>8, <2>5
<1> HIDE DEF C, n, T, X, Y
<1>9. Plots(C, T, one)
  BY <1>5, <1>6, <1>7, <1>8 DEF Plots
<1> QED
  BY <1>1, <1>9, Zenon DEF T, X, Y

LEMMA FillHDraws ==
  ASSUME Ready, ~mc, NEW sx \in Nat, NEW sy \in Nat, NEW dx \in Nat, NEW dy \in Nat, sx <= dx, sy <= dy,
         il => sy % 2 = 0 /\ dy % 2 = 1
  PROVE  Plots(FillHDots(sx, sy, dx, dy), DotSet(Rect(sx, sy, dx, dy)), TRUE)
<1> DEFINE w == dx - sx + 1
           h == dy - sy + 1
           yes == TRUE
           X == sx..dx
           Y == sy..dy
<1>1. w \in Nat /\ h \in Nat /\ w > 0 /\ sx + w - 1 = dx /\ sy + h - 1 = dy
  OBVIOUS
<1>2. Rect(sx, sy, dx, dy) = X \X Y
  <2>1. Low(sx, dx) = sx /\ High(sx, dx) = dx /\ Low(sy, dy) = sy /\ High(sy, dy) = dy
    BY DEF Low, High
  <2> QED
    BY <2>1, Zenon DEF Rect
<1>3. FillHDots(sx, sy, dx, dy) = IF il THEN Block(sx, page, sy \div 2, w, h \div 2) \o Block(sx, page + 1, sy \div 2, w, h \div 2)
                                       ELSE Block(sx, page, sy, w, h)
  BY Zenon DEF FillHDots
<1>4. page \in Nat
  BY DEF Ready
<1>5. CASE ~il
  <2>1. Plots(Block(sx, page, sy, w, h), Tile(sx..sx + w - 1, page, sy..sy + h - 1), yes)
    BY <1>1, <1>4, BlockDraws
  <2>2. Tile(sx..sx + w - 1, page, sy..sy + h - 1) = Tile(X, page, Y)
    BY <1>1
  <2>3. \A a, b : Dot(a, b) = <<a, page, b>>
    BY <1>5, Zenon DEF Dot
  <2> HIDE DEF X, Y, yes, w, h
  <2>4. DotSet(X \X Y) = Tile(X, page, Y)
    BY <2>3, Zenon DEF DotSet, Tile
  <2>5. Plots(Block(sx, page, sy, w, h), DotSet(X \X Y), yes)
    BY <2>1, <2>2, <2>4
  <2> QED
    BY <1>2, <1>3, <1>5, <2>5, Zenon DEF yes
<1>6. CASE il
  <2> DEFINE l == sy \div 2
             g == h \div 2
  <2>1. sy = 2 * l /\ l \in Nat /\ h = 2 * g /\ g \in Nat
    BY <1>1, <1>6
  <2> HIDE DEF l, g
  <2> DEFINE Z == l..l + g - 1
  <2>2. Plots(Block(sx, page, l, w, g), Tile(X, page, Z), yes)
    <3>1. Plots(Block(sx, page, l, w, g), Tile(sx..sx + w - 1, page, l..l + g - 1), yes)
      <4> HIDE DEF w, yes
      <4> QED
        BY <1>1, <1>4, <2>1, BlockDraws
    <3> QED
      BY <1>1, <3>1
  <2>3. Plots(Block(sx, page + 1, l, w, g), Tile(X, page + 1, Z), yes)
    <3>0. page + 1 \in Nat
      BY <1>4
    <3>1. Plots(Block(sx, page + 1, l, w, g), Tile(sx..sx + w - 1, page + 1, l..l + g - 1), yes)
      <4> DEFINE p == page + 1
      <4> HIDE DEF w, yes, p
      <4>1. p \in Nat
        BY <3>0 DEF p
      <4>2. Plots(Block(sx, p, l, w, g), Tile(sx..sx + w - 1, p, l..l + g - 1), yes)
        BY <1>1, <2>1, <4>1, BlockDraws
      <4> QED
        BY <4>2 DEF p
    <3> QED
      BY <1>1, <3>1
  <2>8. \A a, b : Dot(a, b) = <<a, page + (b % 2), b \div 2>>
    BY <1>6, Zenon DEF Dot, Ready
  <2>9. \A b \in Y : b \div 2 \in Z /\ (b % 2 = 0 \/ b % 2 = 1)
    <3> SUFFICES ASSUME NEW b \in Y PROVE b \div 2 \in Z /\ (b % 2 = 0 \/ b % 2 = 1)
      OBVIOUS
    <3>1. dy = 2 * l + 2 * g - 1
      BY <1>1, <2>1
    <3> QED
      BY <2>1, <3>1
  <2>10. \A c \in Z : /\ 2 * c \in Y /\ 2 * c + 1 \in Y
                      /\ (2 * c) \div 2 = c /\ (2 * c) % 2 = 0
                      /\ (2 * c + 1) \div 2 = c /\ (2 * c + 1) % 2 = 1
    <3>1. dy = 2 * l + 2 * g - 1
      BY <1>1, <2>1
    <3> QED
      BY <2>1, <3>1
  <2> HIDE DEF X, Y, Z
  <2> DEFINE E == Tile(X, page, Z)
             O == Tile(X, page + 1, Z)
  <2>6. E \cap O = {}
    <3> SUFFICES ASSUME NEW d \in E, d \in O PROVE FALSE
      OBVIOUS
    <3>1. PICK a \in X, b \in Z : d = <<a, page, b>>
      <4>1. \E i \in X : \E j \in Z : d = <<i, page, j>>
        BY OfTile
      <4> QED
        BY <4>1
    <3>2. PICK a2 \in X, b2 \in Z : d = <<a2, page + 1, b2>>
      <4>1. \E i \in X : \E j \in Z : d = <<i, page + 1, j>>
        BY OfTile
      <4> QED
        BY <4>1
    <3>3. page = page + 1
      BY <3>1, <3>2
    <3> QED
      BY <1>4, <3>3
  <2>7. Plots(Block(sx, page, l, w, g) \o Block(sx, page + 1, l, w, g), E \cup O, yes)
    <3> HIDE DEF yes, w
    <3> QED
      BY <2>2, <2>3, <2>6, PlotsJoin
  <2>11. DotSet(X \X Y) = E \cup O
    <3>0. \A d : d \in DotSet(X \X Y) <=> \E a \in X, b \in Y : d = Dot(a, b)
      <4>1. ASSUME NEW a \in X, NEW b \in Y PROVE Dot(a, b) \in DotSet(X \X Y)
        <5>1. <<a, b>> \in X \X Y /\ <<a, b>>[1] = a /\ <<a, b>>[2] = b
          OBVIOUS
        <5>2. Dot(<<a, b>>[1], <<a, b>>[2]) \in DotSet(X \X Y)
          BY <5>1, Zenon DEF DotSet
        <5> QED
          BY <5>1, <5>2
      <4>2. ASSUME NEW d \in DotSet(X \X Y) PROVE \E a \in X, b \in Y : d = Dot(a, b)
        <5>1. PICK q \in X \X Y : d = Dot(q[1], q[2])
          BY Zenon DEF DotSet
        <5>2. q[1] \in X /\ q[2] \in Y
          OBVIOUS
        <5> QED
          BY <5>1, <5>2
      <4> QED
        BY <4>1, <4>2, Zenon
    <3>1. ASSUME NEW d \in DotSet(X \X Y) PROVE d \in E \cup O
      <4>1. PICK a \in X, b \in Y : d = Dot(a, b)
        BY <3>0
      <4>2. d = <<a, page + (b % 2), b \div 2>> /\ b \div 2 \in Z
        BY <2>8, <2>9, <4>1
      <4>3. CASE b % 2 = 0
        <5>1. d = <<a, page, b \div 2>>
          BY <1>4, <4>2, <4>3
        <5>2. d \in E
          BY <4>2, <5>1, InTile
        <5> QED
          BY <5>2
      <4>4. CASE b % 2 = 1
        <5>1. d = <<a, page + 1, b \div 2>>
          BY <4>2, <4>4
        <5>2. d \in O
          BY <4>2, <5>1, InTile
        <5> QED
          BY <5>2
      <4> QED
        BY <2>9, <4>3, <4>4
    <3>2. ASSUME NEW d \in E PROVE d \in DotSet(X \X Y)
      <4>1. PICK a \in X, c \in Z : d = <<a, page, c>>
        <5>1. \E i \in X : \E j \in Z : d = <<i, page, j>>
          BY OfTile
        <5> QED
          BY <5>1
      <4>2. Dot(a, 2 * c) = <<a, page + ((2 * c) % 2), (2 * c) \div 2>>
        BY <2>8, Zenon
      <4>3. 2 * c \in Y /\ (2 * c) % 2 = 0 /\ (2 * c) \div 2 = c
        BY <2>10
      <4>4. d = Dot(a, 2 * c)
        BY <1>4, <4>1, <4>2, <4>3
      <4> QED
        BY <3>0, <4>3, <4>4
    <3>3. ASSUME NEW d \in O PROVE d \in DotSet(X \X Y)
      <4>1. PICK a \in X, c \in Z : d = <<a, page + 1, c>>
        <5>1. \E i \in X : \E j \in Z : d = <<i, page + 1, j>>
          BY OfTile
        <5> QED
          BY <5>1
      <4>2. Dot(a, 2 * c + 1) = <<a, page + ((2 * c + 1) % 2), (2 * c + 1) \div 2>>
        BY <2>8, Zenon
      <4>3. 2 * c + 1 \in Y /\ (2 * c + 1) % 2 = 1 /\ (2 * c + 1) \div 2 = c
        BY <2>10
      <4>4. d = Dot(a, 2 * c + 1)
        BY <4>1, <4>2, <4>3
      <4> QED
        BY <3>0, <4>3, <4>4
    <3> HIDE DEF E, O
    <3> QED
      BY <3>1, <3>2, <3>3
  <2> HIDE DEF yes, w, h, E, O
  <2>12. Plots(Block(sx, page, l, w, g) \o Block(sx, page + 1, l, w, g), DotSet(X \X Y), yes)
    BY <2>7, <2>11, Zenon
  <2> QED
    BY <1>2, <1>3, <1>6, <2>12, Zenon DEF yes, l, g
<1> QED
  BY <1>5, <1>6 DEF Ready

(***************************************************************************)
(* Circles                                                                 *)
(***************************************************************************)
Inward(p, k) ==
  LET e == p.error + 2 * k - 1
  IN IF e >= 0 THEN [x |-> p.x - 1, error |-> e - 2 * p.x + 1]
               ELSE [x |-> p.x, error |-> e]

Outset(radius) == [x |-> radius, error |-> -radius]

Rounded(F, radius, n) == F = [k \in 0..n |-> IF k = 0 THEN Outset(radius) ELSE Inward(F[k - 1], k)]

LEMMA RoundedExists ==
  ASSUME NEW radius, NEW n \in Nat
  PROVE  \E F : Rounded(F, radius, n)
<1> DEFINE P == {m \in Nat : \E F : Rounded(F, radius, m)}
<1>1. 0 \in P
  <2> DEFINE F == [k \in 0..0 |-> Outset(radius)]
  <2>1. F = [k \in 0..0 |-> IF k = 0 THEN Outset(radius) ELSE Inward(F[k - 1], k)]
    <3>1. \A k \in 0..0 : k = 0
      OBVIOUS
    <3> QED
      BY <3>1, Zenon
  <2> HIDE DEF F
  <2>2. Rounded(F, radius, 0)
    BY <2>1, Zenon DEF Rounded
  <2> QED
    BY <2>2
<1>2. ASSUME NEW m \in Nat, m \in P PROVE m + 1 \in P
  <2>1. PICK F : Rounded(F, radius, m)
    BY <1>2
  <2>2. F = [k \in 0..m |-> IF k = 0 THEN Outset(radius) ELSE Inward(F[k - 1], k)]
    BY <2>1, Zenon DEF Rounded
  <2> DEFINE G == [k \in 0..m + 1 |-> IF k = m + 1 THEN Inward(F[k - 1], k) ELSE F[k]]
  <2>3. \A k \in 0..m + 1 : G[k] = IF k = 0 THEN Outset(radius) ELSE Inward(G[k - 1], k)
    <3> SUFFICES ASSUME NEW k \in 0..m + 1 PROVE G[k] = IF k = 0 THEN Outset(radius) ELSE Inward(G[k - 1], k)
      OBVIOUS
    <3>1. k = 0 \/ (k - 1 \in 0..m + 1 /\ k - 1 # m + 1)
      OBVIOUS
    <3>2. CASE k = m + 1
      <4>1. G[k] = Inward(F[k - 1], k) /\ k # 0
        <5>1. k # 0
          BY <3>2
        <5>2. G[k] = Inward(F[k - 1], k)
          BY <3>2, Zenon
        <5> QED
          BY <5>1, <5>2
      <4>2. G[k - 1] = F[k - 1]
        BY <3>1, <4>1, Zenon
      <4> QED
        BY <4>1, <4>2, Zenon
    <3>3. CASE k # m + 1
      <4>1. k \in 0..m
        BY <3>3
      <4>2. G[k] = F[k] /\ F[k] = IF k = 0 THEN Outset(radius) ELSE Inward(F[k - 1], k)
        BY <2>2, <3>3, <4>1, Zenon
      <4>3. k = 0 \/ G[k - 1] = F[k - 1]
        BY <3>1, Zenon
      <4> QED
        BY <4>2, <4>3, Zenon
    <3> QED
      BY <3>2, <3>3
  <2>4. G = [k \in 0..m + 1 |-> G[k]]
    BY Zenon
  <2> HIDE DEF G
  <2>5. Rounded(G, radius, m + 1)
    BY <2>3, <2>4, Zenon DEF Rounded
  <2> QED
    BY <2>5
<1> HIDE DEF P
<1>3. n \in P
  BY <1>1, <1>2, AllNumbers
<1> QED
  BY <1>3 DEF P

LEMMA CircleWalkIs ==
  ASSUME NEW radius \in Nat
  PROVE  Rounded(CircleWalk(radius), radius, radius + 1)
<1> DEFINE F == CHOOSE g : g = [k \in 0..radius + 1 |-> IF k = 0 THEN Outset(radius) ELSE Inward(g[k - 1], k)]
<1>1. CircleWalk(radius) = F
  BY Zenon DEF CircleWalk, Outset, Inward
<1>2. PICK W : W = [k \in 0..radius + 1 |-> IF k = 0 THEN Outset(radius) ELSE Inward(W[k - 1], k)]
  <2>1. radius + 1 \in Nat
    OBVIOUS
  <2>2. \E W : Rounded(W, radius, radius + 1)
    BY <2>1, RoundedExists
  <2> QED
    BY <2>2, Zenon DEF Rounded
<1>3. F = [k \in 0..radius + 1 |-> IF k = 0 THEN Outset(radius) ELSE Inward(F[k - 1], k)]
  BY <1>2, Zenon
<1> HIDE DEF F
<1>4. Rounded(F, radius, radius + 1)
  BY <1>3, Zenon DEF Rounded
<1> QED
  BY <1>1, <1>4

(* The error tells how far the dot of the k-th pass is outside the circle. *)
Measured(p, k, radius) ==
  /\ p.x \in Int /\ p.error \in Int
  /\ p.error = p.x * p.x + k * k - radius * (radius + 1)

Outermost(p, k, radius) == radius * (radius + 1) <= (p.x + 1) * (p.x + 1) + k * k

LEMMA InwardRight ==
  ASSUME NEW radius \in Nat, NEW k \in Nat, NEW p, Measured(p, k, radius), p.x >= k, p.error < 0, p.x <= radius,
         Outermost(p, k, radius)
  PROVE  /\ Measured(Inward(p, k + 1), k + 1, radius)
         /\ Inward(p, k + 1).x <= radius
         /\ Outermost(Inward(p, k + 1), k + 1, radius)
         /\ Inward(p, k + 1).x >= k + 1 => Inward(p, k + 1).error < 0
<1> DEFINE a == p.x
           e == p.error
           f == e + 2 * (k + 1) - 1
           q == Inward(p, k + 1)
           R == radius * (radius + 1)
<1>1. a \in Int /\ e \in Int /\ e = a * a + k * k - R /\ a >= k /\ e < 0 /\ a <= radius /\ R \in Int
  BY DEF Measured
<1>2. R <= (a + 1) * (a + 1) + k * k
  BY DEF Outermost
<1>3. q = IF f >= 0 THEN [x |-> a - 1, error |-> f - 2 * a + 1] ELSE [x |-> a, error |-> f]
  BY Zenon DEF Inward
<1> HIDE DEF a, e, q, R
<1>4. (k + 1) * (k + 1) = k * k + 2 * k + 1 /\ k * k \in Nat
  OBVIOUS
<1>5. f = a * a + (k + 1) * (k + 1) - R /\ f \in Int /\ f = e + 2 * k + 1 /\ a * a \in Int
  BY <1>1, <1>4
<1>6. (a - 1) * (a - 1) = a * a - 2 * a + 1
  BY <1>1
<1> HIDE DEF f
<1>7. CASE f >= 0
  <2>1. q.x = a - 1 /\ q.error = f - 2 * a + 1
    BY <1>3, <1>7
  <2>2. q.error = (a - 1) * (a - 1) + (k + 1) * (k + 1) - R
    BY <1>1, <1>5, <1>6, <2>1
  <2>3. q.x + 1 = a
    BY <1>1, <2>1
  <2>4. R <= a * a + (k + 1) * (k + 1)
    <3> DEFINE u == a * a
               v == (k + 1) * (k + 1)
    <3>1. u \in Int /\ v \in Int /\ f = u + v - R
      BY <1>4, <1>5
    <3> HIDE DEF u, v
    <3>2. R <= u + v
      BY <1>1, <1>5, <1>7, <3>1
    <3> QED
      BY <3>2 DEF u, v
  <2>5. q.x >= k + 1 => q.error < 0
    BY <1>1, <1>5, <2>1
  <2>6. Measured(q, k + 1, radius)
    <3>1. q.x \in Int /\ q.error \in Int
      BY <1>1, <1>5, <2>1
    <3> QED
      BY <2>1, <2>2, <3>1 DEF Measured, R
  <2>7. Outermost(q, k + 1, radius)
    BY <2>3, <2>4 DEF Outermost, R
  <2>8. q.x <= radius
    BY <1>1, <2>1
  <2> QED
    BY <2>5, <2>6, <2>7, <2>8 DEF q
<1>8. CASE ~(f >= 0)
  <2>1. q.x = a /\ q.error = f
    BY <1>3, <1>8
  <2>2. f < 0
    BY <1>5, <1>8
  <2>3. Measured(q, k + 1, radius)
    BY <1>1, <1>5, <2>1 DEF Measured, R
  <2>4. R <= (a + 1) * (a + 1) + (k + 1) * (k + 1)
    <3> DEFINE u == (a + 1) * (a + 1)
               v == k * k
    <3>1. u \in Int /\ v \in Int /\ (k + 1) * (k + 1) = v + 2 * k + 1 /\ R <= u + v
      BY <1>1, <1>2, <1>4
    <3> HIDE DEF u, v
    <3>2. R <= u + (k + 1) * (k + 1)
      BY <1>1, <3>1
    <3> QED
      BY <3>2 DEF u
  <2>5. Outermost(q, k + 1, radius)
    BY <2>1, <2>4 DEF Outermost, R
  <2> QED
    BY <1>1, <2>1, <2>2, <2>3, <2>5 DEF q
<1> QED
  BY <1>7, <1>8

Passes(radius) == {k \in 0..radius : \A z \in 0..k : CircleWalk(radius)[z].x >= z}

LEMMA CircleWalkRight ==
  ASSUME NEW radius \in Nat, radius > 0, NEW k \in Nat, k \in Passes(radius)
  PROVE  /\ Measured(CircleWalk(radius)[k], k, radius)
         /\ CircleWalk(radius)[k].x >= k
         /\ CircleWalk(radius)[k].x <= radius
         /\ CircleWalk(radius)[k].error < 0
         /\ Outermost(CircleWalk(radius)[k], k, radius)
<1> DEFINE W == CircleWalk(radius)
           OK(j) == /\ Measured(W[j], j, radius)
                    /\ W[j].x >= j
                    /\ W[j].x <= radius
                    /\ W[j].error < 0
                    /\ Outermost(W[j], j, radius)
           P == {j \in Nat : j \in Passes(radius) => OK(j)}
<1>1. \A j \in 0..radius + 1 : W[j] = IF j = 0 THEN Outset(radius) ELSE Inward(W[j - 1], j)
  <2>1. Rounded(W, radius, radius + 1)
    BY CircleWalkIs
  <2> HIDE DEF W
  <2> QED
    BY <2>1, Zenon DEF Rounded
<1>2. Passes(radius) = {j \in 0..radius : \A z \in 0..j : W[z].x >= z}
  BY Zenon DEF Passes
<1> HIDE DEF W
<1>3. 0 \in P
  <2>1. W[0] = Outset(radius)
    BY <1>1
  <2>2. W[0].x = radius /\ W[0].error = -radius
    BY <2>1 DEF Outset
  <2>3. -radius = radius * radius + 0 * 0 - radius * (radius + 1) /\ -radius < 0
    OBVIOUS
  <2>4. radius * (radius + 1) <= (radius + 1) * (radius + 1) + 0 * 0
    OBVIOUS
  <2>5. Measured(W[0], 0, radius)
    BY <2>2, <2>3 DEF Measured
  <2>6. Outermost(W[0], 0, radius)
    BY <2>2, <2>4 DEF Outermost
  <2>7. OK(0)
    BY <2>2, <2>3, <2>5, <2>6
  <2> HIDE DEF OK
  <2> QED
    BY <2>7
<1>4. ASSUME NEW j \in Nat, j \in P PROVE j + 1 \in P
  <2> SUFFICES ASSUME j + 1 \in Passes(radius) PROVE OK(j + 1)
    OBVIOUS
  <2>1. j + 1 \in 0..radius /\ \A z \in 0..j + 1 : W[z].x >= z
    BY <1>2
  <2>2. j \in Passes(radius)
    BY <1>2, <2>1
  <2>3. OK(j)
    BY <1>4, <2>2
  <2>4. j + 1 \in 0..radius + 1 /\ j + 1 # 0 /\ (j + 1) - 1 = j
    BY <2>1
  <2>5. W[j + 1] = Inward(W[j], j + 1)
    BY <1>1, <2>4, Zenon
  <2>6. /\ Measured(W[j + 1], j + 1, radius)
        /\ W[j + 1].x <= radius
        /\ Outermost(W[j + 1], j + 1, radius)
        /\ W[j + 1].x >= j + 1 => W[j + 1].error < 0
    BY <2>3, <2>5, InwardRight
  <2> QED
    BY <2>1, <2>6
<1> HIDE DEF P, OK
<1>5. k \in P
  BY <1>3, <1>4, AllNumbers
<1>6. OK(k)
  BY <1>5 DEF P
<1> QED
  BY <1>6 DEF OK, W

LEMMA SquaresOrder ==
  ASSUME NEW a \in Nat, NEW b \in Nat, a * a < b * b
  PROVE  a < b
<1> SUFFICES ASSUME b <= a PROVE FALSE
  OBVIOUS
<1>1. b * b <= a * b /\ a * b <= a * a
  OBVIOUS
<1> DEFINE u == a * a
           v == b * b
           m == a * b
<1>2. u \in Int /\ v \in Int /\ m \in Int /\ u < v /\ v <= m /\ m <= u
  BY <1>1
<1> HIDE DEF u, v, m
<1> QED
  BY <1>2

Octant(radius) ==
  {p \in (0..radius) \X (0..radius) :
     p[2] <= p[1] /\ p[1] * p[1] + p[2] * p[2] < radius * (radius + 1)
                  /\ radius * (radius + 1) <= (p[1] + 1) * (p[1] + 1) + p[2] * p[2]}

LEMMA PassesInOctant ==
  ASSUME NEW radius \in Nat, radius > 0, NEW k \in Passes(radius)
  PROVE  <<CircleWalk(radius)[k].x, k>> \in Octant(radius)
<1> DEFINE p == CircleWalk(radius)[k]
           a == p.x
           R == radius * (radius + 1)
<1>1. k \in 0..radius
  BY DEF Passes
<1>2. Measured(p, k, radius) /\ a >= k /\ a <= radius /\ p.error < 0 /\ Outermost(p, k, radius)
  BY <1>1, CircleWalkRight
<1> HIDE DEF p
<1>3. a \in Int /\ p.error = a * a + k * k - R /\ R <= (a + 1) * (a + 1) + k * k
  BY <1>2 DEF Measured, Outermost
<1>4. R \in Int
  OBVIOUS
<1> HIDE DEF a, R
<1>5. a \in 0..radius
  BY <1>1, <1>2, <1>3
<1>6. a * a + k * k < R
  <2> DEFINE u == a * a + k * k
  <2>0. p.error = u - R
    <3> DEFINE v == a * a
               w == k * k
    <3>1. v \in Int /\ w \in Int /\ p.error = v + (w - R)
      BY <1>1, <1>3
    <3> HIDE DEF v, w
    <3>2. p.error = (v + w) - R
      BY <1>4, <3>1
    <3> QED
      BY <3>2 DEF v, w
  <2>1. u \in Int /\ p.error = u - R
    <3>1. u \in Int
      BY <1>1, <1>3
    <3> QED
      BY <2>0, <3>1
  <2> HIDE DEF u
  <2>2. u < R
    BY <1>2, <1>4, <2>1
  <2> QED
    BY <2>2 DEF u
<1>7. <<a, k>> \in (0..radius) \X (0..radius) /\ <<a, k>>[1] = a /\ <<a, k>>[2] = k
  BY <1>1, <1>5
<1>8. <<a, k>> \in Octant(radius)
  <2>1. k <= a
    BY <1>2
  <2> QED
    BY <1>3, <1>6, <1>7, <2>1 DEF Octant, R
<1> QED
  BY <1>8 DEF a, p

(* A step goes in by at most one.                                          *)
LEMMA InwardBy ==
  ASSUME NEW p, NEW k \in Int, p.x \in Int, p.error \in Int
  PROVE  Inward(p, k).x >= p.x - 1
  BY DEF Inward

LEMMA OctantInPasses ==
  ASSUME NEW radius \in Nat, radius > 0, NEW a \in 0..radius, NEW b \in 0..radius, b <= a,
         a * a + b * b < radius * (radius + 1),
         radius * (radius + 1) <= (a + 1) * (a + 1) + b * b
  PROVE  b \in Passes(radius) /\ CircleWalk(radius)[b].x = a
<1> DEFINE W == CircleWalk(radius)
           R == radius * (radius + 1)
           P == {z \in Nat : z <= b => z \in Passes(radius)}
<1>1. \A j \in 0..radius + 1 : W[j] = IF j = 0 THEN Outset(radius) ELSE Inward(W[j - 1], j)
  <2>1. Rounded(W, radius, radius + 1)
    BY CircleWalkIs
  <2> HIDE DEF W
  <2> QED
    BY <2>1, Zenon DEF Rounded
<1>2. Passes(radius) = {j \in 0..radius : \A z \in 0..j : W[z].x >= z}
  BY Zenon DEF Passes
<1>3. \A j \in Nat : j \in Passes(radius) =>
        /\ Measured(W[j], j, radius)
        /\ W[j].x >= j
        /\ W[j].x <= radius
        /\ W[j].error < 0
        /\ Outermost(W[j], j, radius)
  BY CircleWalkRight
<1>4. R \in Int /\ a * a + b * b < R /\ R <= (a + 1) * (a + 1) + b * b
  OBVIOUS
<1> HIDE DEF W, R
<1>5. 0 \in P
  <2>1. W[0] = Outset(radius)
    BY <1>1
  <2>2. W[0].x = radius
    BY <2>1 DEF Outset
  <2>3. 0 \in 0..radius /\ \A z \in 0..0 : W[z].x >= z
    BY <2>2
  <2> QED
    BY <1>2, <2>3
<1>6. ASSUME NEW z \in Nat, z \in P PROVE z + 1 \in P
  <2> SUFFICES ASSUME z + 1 <= b PROVE z + 1 \in Passes(radius)
    OBVIOUS
  <2>1. z \in Passes(radius)
    BY <1>6
  <2>2. z + 1 \in 0..radius + 1 /\ z + 1 # 0 /\ (z + 1) - 1 = z
    OBVIOUS
  <2>3. W[z + 1] = Inward(W[z], z + 1)
    BY <1>1, <2>2, Zenon
  <2>4. /\ Measured(W[z], z, radius) /\ W[z].x >= z /\ W[z].x <= radius /\ W[z].error < 0
        /\ Outermost(W[z], z, radius)
    BY <1>3, <2>1
  <2>5. Measured(W[z + 1], z + 1, radius) /\ Outermost(W[z + 1], z + 1, radius)
    BY <2>3, <2>4, InwardRight
  <2> DEFINE c == W[z + 1].x
  <2>6. c \in Int /\ R <= (c + 1) * (c + 1) + (z + 1) * (z + 1)
    BY <2>5 DEF Measured, Outermost, R
  <2>7. c >= z - 1
    <3>1. W[z].x \in Int /\ W[z].error \in Int
      BY <2>4 DEF Measured
    <3>2. Inward(W[z], z + 1).x >= W[z].x - 1
      BY <3>1, InwardBy
    <3> QED
      BY <2>3, <2>4, <2>6, <3>1, <3>2
  <2> HIDE DEF c
  <2>8. (z + 1) * (z + 1) <= b * b
    <3> DEFINE d == z + 1
    <3>1. d \in Nat /\ d <= b
      OBVIOUS
    <3> HIDE DEF d
    <3>2. d * d <= d * b /\ d * b <= b * b
      BY <3>1
    <3>3. d * d <= b * b
      BY <3>1, <3>2
    <3> QED
      BY <3>3 DEF d
  <2>9. a * a < (c + 1) * (c + 1)
    <3> DEFINE u == a * a
               v == b * b
               m == (c + 1) * (c + 1)
               n == (z + 1) * (z + 1)
    <3>1. u \in Int /\ v \in Int /\ m \in Int /\ n \in Int /\ u + v < R /\ R <= m + n /\ n <= v
      BY <1>4, <2>6, <2>8
    <3> HIDE DEF u, v, m, n
    <3>2. u < m
      BY <1>4, <3>1
    <3> QED
      BY <3>2 DEF u, m
  <2>10. a < c + 1
    <3>1. c + 1 \in Nat
      BY <2>6, <2>7
    <3> QED
      BY <2>9, <3>1, SquaresOrder
  <2>11. c >= z + 1
    BY <2>6, <2>10
  <2>12. \A j \in 0..z : W[j].x >= j
    BY <1>2, <2>1
  <2>13. \A j \in 0..z + 1 : W[j].x >= j
    <3> SUFFICES ASSUME NEW j \in 0..z + 1 PROVE W[j].x >= j
      OBVIOUS
    <3>1. j \in 0..z \/ j = z + 1
      OBVIOUS
    <3> QED
      BY <2>11, <2>12, <3>1 DEF c
  <2> QED
    BY <1>2, <2>13
<1> HIDE DEF P
<1>7. b \in P
  BY <1>5, <1>6, AllNumbers
<1>8. b \in Passes(radius)
  BY <1>7 DEF P
<1>9. Measured(W[b], b, radius) /\ W[b].x >= b /\ W[b].error < 0 /\ Outermost(W[b], b, radius)
  BY <1>3, <1>8
<1> DEFINE c == W[b].x
<1>10. /\ c \in Int /\ c >= b /\ W[b].error = c * c + b * b - R
       /\ W[b].error < 0
       /\ R <= (c + 1) * (c + 1) + b * b
  BY <1>9 DEF Measured, Outermost, R
<1> HIDE DEF c
<1>11. c * c < (a + 1) * (a + 1) /\ a * a < (c + 1) * (c + 1)
  <2> DEFINE u == a * a
             v == b * b
             m == (c + 1) * (c + 1)
             n == c * c
             t == (a + 1) * (a + 1)
  <2>1. u \in Int /\ v \in Int /\ m \in Int /\ n \in Int /\ t \in Int
    BY <1>10
  <2>2. u + v < R /\ R <= m + v /\ n + v < R /\ R <= t + v
    <3>1. W[b].error = n + v - R
      BY <1>10
    <3>2. n + v < R
      <4> HIDE DEF n, v
      <4> QED
        BY <1>4, <1>10, <2>1, <3>1
    <3> QED
      BY <1>4, <1>10, <3>2
  <2> HIDE DEF u, v, m, n, t
  <2>3. n < t /\ u < m
    BY <1>4, <2>1, <2>2
  <2> QED
    BY <2>3 DEF n, t, u, m
<1>12. c < a + 1 /\ a < c + 1
  <2>1. c \in Nat /\ c + 1 \in Nat /\ a + 1 \in Nat
    BY <1>10
  <2> QED
    BY <1>11, <2>1, SquaresOrder
<1>13. c = a
  BY <1>10, <1>12
<1> QED
  BY <1>8, <1>13 DEF c, W

(* The four images of a dot of a circle, and the eight.                    *)
Images(cx, cy, a, b) == {<<cx + a, cy + b>>, <<cx - a, cy + b>>, <<cx + a, cy - b>>, <<cx - a, cy - b>>}

Around(cx, cy, a, b) == Images(cx, cy, a, b) \cup Images(cx, cy, b, a)

OrNone(c, d) == IF c THEN {d} ELSE {}

LEMMA ImagesAre ==
  ASSUME NEW cx \in Int, NEW cy \in Int, NEW a \in Nat, NEW b \in Nat
  PROVE  Images(cx, cy, a, b)
           = {<<cx + a, cy + b>>} \cup OrNone(a # 0, <<cx - a, cy + b>>)
               \cup OrNone(b # 0, <<cx + a, cy - b>>) \cup OrNone(a # 0 /\ b # 0, <<cx - a, cy - b>>)
<1>1. CASE a = 0 /\ b = 0
  <2>1. cx + a = cx /\ cx - a = cx /\ cy + b = cy /\ cy - b = cy
    BY <1>1
  <2> QED
    BY <1>1, <2>1 DEF Images, OrNone
<1>2. CASE a = 0 /\ b # 0
  <2>1. cx + a = cx /\ cx - a = cx
    BY <1>2
  <2> QED
    BY <1>2, <2>1 DEF Images, OrNone
<1>3. CASE a # 0 /\ b = 0
  <2>1. cy + b = cy /\ cy - b = cy
    BY <1>3
  <2> QED
    BY <1>3, <2>1 DEF Images, OrNone
<1>4. CASE a # 0 /\ b # 0
  BY <1>4 DEF Images, OrNone
<1> QED
  BY <1>1, <1>2, <1>3, <1>4

(* A dot that is plotted on a condition.                                   *)
LEMMA PlotsIf ==
  ASSUME Ready, ~mc, NEW c, NEW col \in Int, NEW row \in Int
  PROVE  Plots(IF c THEN DotExt(col, row) ELSE <<>>, DotSet(OrNone(c, <<col, row>>)), TRUE)
<1> DEFINE yes == TRUE
<1>1. DotExt(col, row) = <<Dot(col, row)>>
  BY Zenon DEF DotExt
<1>2. Dot(col, row) \in Triples
  BY DotIs
<1>3. Plots(<<Dot(col, row)>>, {Dot(col, row)}, yes)
  BY <1>2, PlotsDot
<1>4. Plots(<<>>, {}, yes)
  BY PlotsNone
<1>5. DotSet({<<col, row>>}) = {Dot(col, row)} /\ DotSet({}) = {}
  BY DotsOne, Zenon DEF DotSet
<1> HIDE DEF yes
<1>6. CASE c
  BY <1>1, <1>3, <1>5, <1>6, Zenon DEF OrNone, yes
<1>7. CASE ~c
  BY <1>4, <1>5, <1>7, Zenon DEF OrNone, yes
<1> QED
  BY <1>6, <1>7

(* Joining what is plotted of sets of places that have none in common.     *)
LEMMA DotsJoin ==
  ASSUME Ready, NEW sq, NEW t, NEW P, P \subseteq Int \X Int, NEW Q, Q \subseteq Int \X Int, P \cap Q = {},
         Plots(sq, DotSet(P), TRUE), Plots(t, DotSet(Q), TRUE)
  PROVE  Plots(sq \o t, DotSet(P \cup Q), TRUE)
<1> DEFINE yes == TRUE
<1>1. yes => DotSet(P) \cap DotSet(Q) = {}
  BY DotsApart
<1>2. Plots(sq, DotSet(P), yes) /\ Plots(t, DotSet(Q), yes)
  OBVIOUS
<1> HIDE DEF yes
<1>3. Plots(sq \o t, DotSet(P) \cup DotSet(Q), yes)
  BY <1>1, <1>2, PlotsJoin
<1>4. DotSet(P \cup Q) = DotSet(P) \cup DotSet(Q)
  BY DotsUnion, Zenon
<1> QED
  BY <1>3, <1>4 DEF yes

LEMMA FourDraw ==
  ASSUME Ready, ~mc, NEW cx \in Int, NEW cy \in Int, NEW a \in Nat, NEW b \in Nat
  PROVE  /\ Plots(Four(cx, cy, a, b), DotSet(Images(cx, cy, a, b)), TRUE)
         /\ FourExt(cx, cy, a, b) = Four(cx, cy, a, b)
<1> DEFINE P1 == {<<cx + a, cy + b>>}
           P2 == OrNone(a # 0, <<cx - a, cy + b>>)
           P3 == OrNone(b # 0, <<cx + a, cy - b>>)
           P4 == OrNone(a # 0 /\ b # 0, <<cx - a, cy - b>>)
           S1 == <<Dot(cx + a, cy + b)>>
           S2 == IF a # 0 THEN DotExt(cx - a, cy + b) ELSE <<>>
           S3 == IF b # 0 THEN DotExt(cx + a, cy - b) ELSE <<>>
           S4 == IF a # 0 /\ b # 0 THEN DotExt(cx - a, cy - b) ELSE <<>>
<1>0. cx + a \in Int /\ cx - a \in Int /\ cy + b \in Int /\ cy - b \in Int
  OBVIOUS
<1>1. Four(cx, cy, a, b) = S1 \o S2 \o S3 \o S4
  BY Zenon DEF Four
<1>2. FourExt(cx, cy, a, b) = Four(cx, cy, a, b)
  BY Zenon DEF Four, FourExt, DotExt
<1>3. Plots(S1, DotSet(P1), TRUE)
  <2>1. Dot(cx + a, cy + b) \in Triples
    BY <1>0, DotIs
  <2>2. DotSet(P1) = {Dot(cx + a, cy + b)}
    BY DotsOne, Zenon
  <2> QED
    BY <2>1, <2>2, PlotsDot
<1>4. Plots(S2, DotSet(P2), TRUE)
  BY <1>0, PlotsIf
<1>5. Plots(S3, DotSet(P3), TRUE)
  BY <1>0, PlotsIf
<1>6. Plots(S4, DotSet(P4), TRUE)
  BY <1>0, PlotsIf
<1>7. P1 \subseteq Int \X Int /\ P2 \subseteq Int \X Int /\ P3 \subseteq Int \X Int /\ P4 \subseteq Int \X Int
  BY <1>0 DEF OrNone
<1>8. P1 \cap P2 = {} /\ (P1 \cup P2) \cap P3 = {} /\ (P1 \cup P2 \cup P3) \cap P4 = {}
  <2>1. a # 0 => cx + a # cx - a
    OBVIOUS
  <2>2. b # 0 => cy + b # cy - b
    OBVIOUS
  <2> QED
    BY <1>0, <2>1, <2>2 DEF OrNone
<1>9. Images(cx, cy, a, b) = P1 \cup P2 \cup P3 \cup P4
  BY ImagesAre, SMTT(30)
<1> HIDE DEF P1, P2, P3, P4, S1, S2, S3, S4
<1>10. Plots(S1 \o S2, DotSet(P1 \cup P2), TRUE)
  BY <1>3, <1>4, <1>7, <1>8, DotsJoin
<1>11. Plots(S1 \o S2 \o S3, DotSet(P1 \cup P2 \cup P3), TRUE)
  <2>1. P1 \cup P2 \subseteq Int \X Int
    BY <1>7
  <2> QED
    BY <1>5, <1>7, <1>8, <1>10, <2>1, DotsJoin
<1>12. Plots(S1 \o S2 \o S3 \o S4, DotSet(P1 \cup P2 \cup P3 \cup P4), TRUE)
  <2>1. P1 \cup P2 \cup P3 \subseteq Int \X Int
    BY <1>7
  <2> QED
    BY <1>6, <1>7, <1>8, <1>11, <2>1, DotsJoin
<1> QED
  BY <1>1, <1>2, <1>9, <1>12

(* One pass of the loop.                                                   *)
LEMMA StepDraws ==
  ASSUME Ready, ~mc, NEW cx \in Int, NEW cy \in Int, NEW a \in Nat, NEW b \in Nat
  PROVE  Plots(CircleStep(cx, cy, a, b), DotSet(Around(cx, cy, a, b)), TRUE)
<1>1. Plots(Four(cx, cy, a, b), DotSet(Images(cx, cy, a, b)), TRUE)
  BY FourDraw
<1>2. CASE a = b
  <2>1. CircleStep(cx, cy, a, b) = Four(cx, cy, a, b) \o <<>>
    BY <1>2, Zenon DEF CircleStep
  <2>2. Four(cx, cy, a, b) \o <<>> = Four(cx, cy, a, b)
    <3>1. Four(cx, cy, a, b) \in Seq(Triples)
      BY <1>1, Zenon DEF Plots
    <3> QED
      BY <3>1
  <2>3. Around(cx, cy, a, b) = Images(cx, cy, a, b)
    BY <1>2 DEF Around
  <2> QED
    BY <1>1, <2>1, <2>2, <2>3
<1>3. CASE a # b
  <2>1. CircleStep(cx, cy, a, b) = Four(cx, cy, a, b) \o FourExt(cx, cy, b, a)
    BY <1>3, Zenon DEF CircleStep
  <2>2. FourExt(cx, cy, b, a) = Four(cx, cy, b, a) /\ Plots(Four(cx, cy, b, a), DotSet(Images(cx, cy, b, a)), TRUE)
    BY FourDraw
  <2>3. Images(cx, cy, a, b) \subseteq Int \X Int /\ Images(cx, cy, b, a) \subseteq Int \X Int
    BY DEF Images
  <2>4. Images(cx, cy, a, b) \cap Images(cx, cy, b, a) = {}
    <3>1. cx + a # cx + b /\ (cx + a = cx - b => a = 0 /\ b = 0)
      BY <1>3
    <3>2. cx - a # cx - b /\ (cx - a = cx + b => a = 0 /\ b = 0)
      BY <1>3
    <3> QED
      BY <1>3, <3>1, <3>2 DEF Images
  <2> HIDE DEF Ready
  <2> QED
    BY <1>1, <2>1, <2>2, <2>3, <2>4, DotsJoin DEF Around
<1> QED
  BY <1>2, <1>3

LEMMA AroundIn ==
  ASSUME NEW cx \in Int, NEW cy \in Int, NEW a \in Nat, NEW b \in Nat
  PROVE  Around(cx, cy, a, b) \subseteq Int \X Int
  BY DEF Around, Images

LEMMA ImagesFar ==
  ASSUME NEW cx \in Int, NEW cy \in Int, NEW a \in Nat, NEW b \in Nat, NEW p \in Images(cx, cy, a, b)
  PROVE  p = <<p[1], p[2]>> /\ Diff(p[1], cx) = a /\ Diff(p[2], cy) = b
<1>1. \E c \in {cx + a, cx - a}, d \in {cy + b, cy - b} : p = <<c, d>>
  BY DEF Images
<1>2. PICK c \in {cx + a, cx - a}, d \in {cy + b, cy - b} : p = <<c, d>>
  BY <1>1
<1>3. Diff(c, cx) = a
  BY DEF Diff
<1>4. Diff(d, cy) = b
  BY DEF Diff
<1> QED
  BY <1>2, <1>3, <1>4

LEMMA AroundApart ==
  ASSUME NEW cx \in Int, NEW cy \in Int, NEW a \in Nat, NEW b \in Nat, b <= a, NEW c \in Nat, NEW d \in Nat, d <= c, b # d
  PROVE  Around(cx, cy, a, b) \cap Around(cx, cy, c, d) = {}
<1> SUFFICES ASSUME NEW p, p \in Around(cx, cy, a, b), p \in Around(cx, cy, c, d) PROVE FALSE
  OBVIOUS
<1> DEFINE m == Diff(p[1], cx)
           n == Diff(p[2], cy)
<1>1. (m = a /\ n = b) \/ (m = b /\ n = a)
  <2>1. p \in Images(cx, cy, a, b) \/ p \in Images(cx, cy, b, a)
    BY DEF Around
  <2>2. p \in Images(cx, cy, a, b) => m = a /\ n = b
    BY ImagesFar
  <2>3. p \in Images(cx, cy, b, a) => m = b /\ n = a
    BY ImagesFar
  <2> QED
    BY <2>1, <2>2, <2>3
<1>2. (m = c /\ n = d) \/ (m = d /\ n = c)
  <2>1. p \in Images(cx, cy, c, d) \/ p \in Images(cx, cy, d, c)
    BY DEF Around
  <2>2. p \in Images(cx, cy, c, d) => m = c /\ n = d
    BY ImagesFar
  <2>3. p \in Images(cx, cy, d, c) => m = d /\ n = c
    BY ImagesFar
  <2> QED
    BY <2>1, <2>2, <2>3
<1> HIDE DEF m, n
<1> QED
  BY <1>1, <1>2

Ring(cx, cy, radius) ==
  IF radius = 0 THEN {<<cx, cy>>} ELSE UNION {Around(cx, cy, p[1], p[2]) : p \in Octant(radius)}

(* The dots of the passes are those of the circle.                         *)
RingPart(cx, cy, radius, m) ==
  IF m \in Passes(radius) THEN Around(cx, cy, CircleWalk(radius)[m].x, m) ELSE {}

LEMMA PassesOfPoint == Passes(0) = {0} /\ CircleWalk(0)[0].x = 0
<1>1. Rounded(CircleWalk(0), 0, 0 + 1)
  BY CircleWalkIs
<1> DEFINE W == CircleWalk(0)
<1> HIDE DEF W
<1>2. W = [k \in 0..0 + 1 |-> IF k = 0 THEN Outset(0) ELSE Inward(W[k - 1], k)]
  BY <1>1, Zenon DEF Rounded, W
<1>3. 0 \in 0..0 + 1
  OBVIOUS
<1>4. W[0] = Outset(0)
  BY <1>2, <1>3, Zenon
<1>5. W[0].x = 0
  BY <1>4 DEF Outset
<1>6. Passes(0) = {k \in 0..0 : \A z \in 0..k : W[z].x >= z}
  BY Zenon DEF Passes, W
<1>7. Passes(0) = {0}
  BY <1>5, <1>6
<1> QED
  BY <1>5, <1>7 DEF W

LEMMA PassesAre ==
  ASSUME NEW radius \in Nat, NEW m \in Passes(radius)
  PROVE  m \in 0..radius /\ CircleWalk(radius)[m].x \in Nat /\ m <= CircleWalk(radius)[m].x
<1>1. m \in 0..radius
  BY DEF Passes
<1>2. CASE radius = 0
  <2>1. m = 0
    BY <1>1, <1>2
  <2> QED
    BY <1>1, <1>2, <2>1, PassesOfPoint
<1>3. CASE radius # 0
  <2>1. Measured(CircleWalk(radius)[m], m, radius) /\ CircleWalk(radius)[m].x >= m
    BY <1>1, <1>3, CircleWalkRight
  <2>2. CircleWalk(radius)[m].x \in Int
    BY <2>1 DEF Measured
  <2> QED
    BY <1>1, <2>1, <2>2
<1> QED
  BY <1>2, <1>3

LEMMA RingIs ==
  ASSUME NEW cx \in Int, NEW cy \in Int, NEW radius \in Nat
  PROVE  UNION {RingPart(cx, cy, radius, m) : m \in 0..radius} = Ring(cx, cy, radius)
<1> DEFINE U == UNION {RingPart(cx, cy, radius, m) : m \in 0..radius}
<1>1. CASE radius = 0
  <2>1. RingPart(cx, cy, 0, 0) = Around(cx, cy, 0, 0)
    BY PassesOfPoint DEF RingPart
  <2>2. Around(cx, cy, 0, 0) = {<<cx, cy>>}
    <3>1. cx + 0 = cx /\ cx - 0 = cx /\ cy + 0 = cy /\ cy - 0 = cy
      OBVIOUS
    <3> QED
      BY <3>1 DEF Around, Images
  <2>3. 0..radius = {0}
    BY <1>1
  <2>4. U = {<<cx, cy>>}
    BY <1>1, <2>1, <2>2, <2>3
  <2> HIDE DEF U
  <2> QED
    BY <1>1, <2>4 DEF Ring, U
<1>2. CASE radius # 0
  <2> DEFINE W == CircleWalk(radius)
             V == UNION {Around(cx, cy, p[1], p[2]) : p \in Octant(radius)}
  <2>1. ASSUME NEW m \in Passes(radius) PROVE <<W[m].x, m>> \in Octant(radius)
    BY <1>2, PassesInOctant
  <2>2. ASSUME NEW p \in Octant(radius) PROVE p[2] \in Passes(radius) /\ W[p[2]].x = p[1]
    <3>1. /\ p[1] \in 0..radius /\ p[2] \in 0..radius
          /\ p[2] <= p[1]
          /\ p[1] * p[1] + p[2] * p[2] < radius * (radius + 1)
          /\ radius * (radius + 1) <= (p[1] + 1) * (p[1] + 1) + p[2] * p[2]
      BY DEF Octant
    <3> QED
      BY <1>2, <3>1, OctantInPasses
  <2> HIDE DEF W
  <2>3. ASSUME NEW d \in U PROVE d \in V
    <3>1. PICK m \in 0..radius : d \in RingPart(cx, cy, radius, m)
      OBVIOUS
    <3>2. m \in Passes(radius) /\ d \in Around(cx, cy, W[m].x, m)
      <4>1. m \in Passes(radius)
        BY <3>1 DEF RingPart
      <4> QED
        BY <3>1, <4>1 DEF RingPart, W
    <3>3. <<W[m].x, m>> \in Octant(radius)
      BY <2>1, <3>2
    <3> DEFINE p == <<W[m].x, m>>
    <3>4. p[1] = W[m].x /\ p[2] = m
      OBVIOUS
    <3> HIDE DEF p
    <3>5. p \in Octant(radius) /\ d \in Around(cx, cy, p[1], p[2])
      BY <3>2, <3>3, <3>4 DEF p
    <3> QED
      BY <3>5
  <2>4. ASSUME NEW d \in V PROVE d \in U
    <3>1. PICK p \in Octant(radius) : d \in Around(cx, cy, p[1], p[2])
      OBVIOUS
    <3>2. p[2] \in Passes(radius) /\ W[p[2]].x = p[1]
      BY <2>2
    <3>3. p[2] \in 0..radius
      BY <3>2, PassesAre
    <3>4. d \in RingPart(cx, cy, radius, p[2])
      BY <3>1, <3>2 DEF RingPart, W
    <3> QED
      BY <3>3, <3>4
  <2> HIDE DEF U, V
  <2>5. U = V
    BY <2>3, <2>4
  <2>6. V = Ring(cx, cy, radius)
    BY <1>2, Zenon DEF V, Ring
  <2> QED
    BY <2>5, <2>6 DEF U
<1> QED
  BY <1>1, <1>2

LEMMA CircleDraws ==
  ASSUME Ready, ~mc, NEW cx \in Int, NEW cy \in Int, NEW radius \in Nat
  PROVE  Plots(CircleDots(cx, cy, radius), DotSet(Ring(cx, cy, radius)), TRUE)
<1> DEFINE n == radius + 1
           X(m) == CircleWalk(radius)[m].x
           S == [k \in 1..n |-> IF k - 1 \in Passes(radius) THEN CircleStep(cx, cy, X(k - 1), k - 1) ELSE <<>>]
           R == [k \in 1..n |-> RingPart(cx, cy, radius, k - 1)]
<1>1. CircleDots(cx, cy, radius) = FlattenSeq(S)
  BY Zenon DEF CircleDots, Passes
<1>2. n \in Nat
  OBVIOUS
<1>3. \A m \in Passes(radius) : m \in Nat /\ X(m) \in Nat /\ m <= X(m)
  <2> SUFFICES ASSUME NEW m \in Passes(radius) PROVE m \in Nat /\ X(m) \in Nat /\ m <= X(m)
    OBVIOUS
  <2>1. m \in 0..radius /\ X(m) \in Nat /\ m <= X(m)
    BY PassesAre
  <2> QED
    BY <2>1
<1>4. \A m \in Passes(radius) : RingPart(cx, cy, radius, m) = Around(cx, cy, X(m), m)
  BY Zenon DEF RingPart
<1>5. \A m : m \notin Passes(radius) => RingPart(cx, cy, radius, m) = {}
  BY Zenon DEF RingPart
<1> HIDE DEF X
<1>6. \A k \in 1..n : R[k] = RingPart(cx, cy, radius, k - 1)
  OBVIOUS
<1>7. ASSUME NEW k \in 1..n PROVE R[k] \subseteq Int \X Int
  <2>1. CASE k - 1 \in Passes(radius)
    <3>1. R[k] = Around(cx, cy, X(k - 1), k - 1)
      BY <1>4, <1>6, <2>1, Zenon
    <3>2. X(k - 1) \in Nat /\ k - 1 \in Nat
      BY <1>3, <2>1
    <3> QED
      BY <3>1, <3>2, AroundIn
  <2>2. CASE k - 1 \notin Passes(radius)
    BY <1>5, <1>6, <2>2
  <2> QED
    BY <2>1, <2>2
<1>8. ASSUME NEW j \in 1..n, NEW k \in 1..n, j # k PROVE R[j] \cap R[k] = {}
  <2>1. CASE j - 1 \in Passes(radius) /\ k - 1 \in Passes(radius)
    <3>1. R[j] = Around(cx, cy, X(j - 1), j - 1) /\ R[k] = Around(cx, cy, X(k - 1), k - 1)
      BY <1>4, <1>6, <2>1, Zenon
    <3>2. X(j - 1) \in Nat /\ j - 1 \in Nat /\ X(k - 1) \in Nat /\ k - 1 \in Nat /\ j - 1 <= X(j - 1) /\ k - 1 <= X(k - 1)
      BY <1>3, <2>1
    <3>3. j - 1 # k - 1
      BY <1>2, <1>8
    <3> DEFINE a == X(j - 1)
               b == j - 1
               c == X(k - 1)
               d == k - 1
    <3>4. a \in Nat /\ b \in Nat /\ c \in Nat /\ d \in Nat /\ b <= a /\ d <= c /\ b # d
      BY <3>2, <3>3
    <3>5. R[j] = Around(cx, cy, a, b) /\ R[k] = Around(cx, cy, c, d)
      BY <3>1
    <3> HIDE DEF R, a, b, c, d
    <3>6. Around(cx, cy, a, b) \cap Around(cx, cy, c, d) = {}
      BY <3>4, AroundApart
    <3> QED
      BY <3>5, <3>6
  <2>2. CASE j - 1 \notin Passes(radius)
    BY <1>5, <1>6, <2>2
  <2>3. CASE k - 1 \notin Passes(radius)
    BY <1>5, <1>6, <2>3
  <2> QED
    BY <2>1, <2>2, <2>3
<1>9. UNION {R[k] : k \in 1..n} = Ring(cx, cy, radius)
  <2> DEFINE A == UNION {R[k] : k \in 1..n}
             B == UNION {RingPart(cx, cy, radius, m) : m \in 0..radius}
  <2>1. \A k \in 1..n : k - 1 \in 0..radius
    OBVIOUS
  <2>2. \A m \in 0..radius : m + 1 \in 1..n /\ (m + 1) - 1 = m
    OBVIOUS
  <2> HIDE DEF R, n
  <2>3. ASSUME NEW d \in A PROVE d \in B
    BY <1>6, <2>1
  <2>4. ASSUME NEW d \in B PROVE d \in A
    <3>1. PICK m \in 0..radius : d \in RingPart(cx, cy, radius, m)
      OBVIOUS
    <3>2. m + 1 \in 1..n /\ R[m + 1] = RingPart(cx, cy, radius, m)
      BY <1>6, <2>2
    <3> QED
      BY <3>1, <3>2
  <2>5. B = Ring(cx, cy, radius)
    BY RingIs
  <2> HIDE DEF A, B
  <2>6. A = Ring(cx, cy, radius)
    BY <2>3, <2>4, <2>5
  <2> QED
    BY <2>6 DEF A
<1>10. ASSUME NEW k \in 1..n PROVE Plots(S[k], DotSet(R[k]), TRUE)
  <2>1. CASE k - 1 \in Passes(radius)
    <3>1. R[k] = Around(cx, cy, X(k - 1), k - 1)
      BY <1>4, <1>6, <2>1, Zenon
    <3>2. S[k] = CircleStep(cx, cy, X(k - 1), k - 1)
      BY <2>1, Zenon
    <3>3. X(k - 1) \in Nat /\ k - 1 \in Nat
      BY <1>3, <2>1
    <3> HIDE DEF R, S
    <3>4. Plots(CircleStep(cx, cy, X(k - 1), k - 1), DotSet(Around(cx, cy, X(k - 1), k - 1)), TRUE)
      BY <3>3, StepDraws
    <3> QED
      BY <3>1, <3>2, <3>4
  <2>2. CASE k - 1 \notin Passes(radius)
    <3>1. S[k] = <<>>
      BY <2>2, Zenon
    <3>2. R[k] = {}
      BY <1>5, <1>6, <2>2, Zenon
    <3>3. DotSet({}) = {}
      BY DEF DotSet
    <3> HIDE DEF R, S
    <3>4. Plots(<<>>, {}, TRUE)
      BY PlotsNone
    <3> QED
      BY <3>1, <3>2, <3>3, <3>4
  <2> QED
    BY <2>1, <2>2
<1>11. S = [k \in 1..n |-> S[k]]
  BY Zenon
<1> HIDE DEF S, R, n
<1>12. Slices(R, 1..n, Ring(cx, cy, radius))
  BY <1>7, <1>8, <1>9, Zenon DEF Slices
<1>13. Plots(FlattenSeq(S), DotSet(Ring(cx, cy, radius)), TRUE)
  <2> DEFINE yes == TRUE
  <2>1. \A k \in 1..n : Plots(S[k], DotSet(R[k]), yes)
    BY <1>10
  <2> HIDE DEF yes
  <2>2. Plots(FlattenSeq(S), DotSet(Ring(cx, cy, radius)), yes)
    BY <1>2, <1>11, <1>12, <2>1, SlicesDraw, Zenon
  <2> QED
    BY <2>2 DEF yes
<1> QED
  BY <1>1, <1>13

LEMMA RingIn ==
  ASSUME NEW cx \in Int, NEW cy \in Int, NEW radius \in Nat
  PROVE  Ring(cx, cy, radius) \subseteq Int \X Int
<1>1. CASE radius = 0
  BY <1>1 DEF Ring
<1>2. CASE radius # 0
  <2>1. \A p \in Octant(radius) : p[1] \in Nat /\ p[2] \in Nat
    BY DEF Octant
  <2>2. \A p \in Octant(radius) : Around(cx, cy, p[1], p[2]) \subseteq Int \X Int
    BY <2>1, AroundIn
  <2> DEFINE Z == Int \X Int
  <2>3. Ring(cx, cy, radius) = UNION {Around(cx, cy, p[1], p[2]) : p \in Octant(radius)}
    BY <1>2, Zenon DEF Ring
  <2>4. \A p \in Octant(radius) : Around(cx, cy, p[1], p[2]) \subseteq Z
    BY <2>2
  <2> HIDE DEF Z
  <2>5. Ring(cx, cy, radius) \subseteq Z
    BY <2>3, <2>4
  <2> QED
    BY <2>5 DEF Z
<1> QED
  BY <1>1, <1>2

(***************************************************************************)
(* Every call plots its shape                                              *)
(***************************************************************************)
LEMMA PointsIn ==
  ASSUME NEW sx \in Nat, NEW sy \in Nat, NEW dx \in Nat, NEW dy \in Nat
  PROVE  Rect(sx, sy, dx, dy) \subseteq Int \X Int
<1> DEFINE X == Low(sx, dx)..High(sx, dx)
           Y == Low(sy, dy)..High(sy, dy)
<1>1. X \subseteq Int /\ Y \subseteq Int
  OBVIOUS
<1>2. Rect(sx, sy, dx, dy) = X \X Y
  BY Zenon DEF Rect
<1> HIDE DEF X, Y
<1> QED
  BY <1>1, <1>2

(* What was called, and what it plotted.                                   *)
Asked(op, sx, sy, dx, dy) == shape = [op |-> op, sx |-> sx, sy |-> sy, dx |-> dx, dy |-> dy]

LineDone(sx, sy, dx, dy) ==
  (~il \/ sx # dx \/ sy = dy) => \E P : IsLine(P, sx, sy, dx, dy) /\ Plots(dots, DotSet(P), FALSE)

BoxDone(sx, sy, dx, dy) ==
  (~il \/ sy = dy) => Plots(dots, DotSet(Border(sx, sy, dx, dy)), FALSE)

FillDone(sx, sy, dx, dy) ==
  (~il \/ ByLines(sx, sy, dx, dy)) => Plots(dots, DotSet(Rect(sx, sy, dx, dy)), ~mc)

FillHDone(sx, sy, dx, dy) ==
  (il => sy % 2 = 0 /\ dy % 2 = 1) => Plots(dots, DotSet(Rect(sx, sy, dx, dy)), TRUE)

CircleDone(cx, cy, radius) == ~mc => Plots(dots, DotSet(Ring(cx, cy, radius)), TRUE)

AfterLine == \E sx \in Nat, sy \in Nat, dx \in Nat, dy \in Nat :
  Asked("line", sx, sy, dx, dy) /\ LineDone(sx, sy, dx, dy)
AfterBox == \E sx \in Nat, sy \in Nat, dx \in Nat, dy \in Nat :
  Asked("box", sx, sy, dx, dy) /\ BoxDone(sx, sy, dx, dy)
AfterFill == \E sx \in Nat, sy \in Nat, dx \in Nat, dy \in Nat :
  Asked("fill", sx, sy, dx, dy) /\ FillDone(sx, sy, dx, dy)
AfterFillH == \E sx \in Nat, sy \in Nat, dx \in Nat, dy \in Nat :
  Asked("fill_h", sx, sy, dx, dy) /\ FillHDone(sx, sy, dx, dy)
AfterCircle == \E sx \in Nat, sy \in Nat, dx \in Nat :
  Asked("circle", sx, sy, dx, 0) /\ CircleDone(sx, sy, dx)

CallDrawn == shape.op = "none" \/ AfterLine \/ AfterBox \/ AfterFill \/ AfterFillH \/ AfterCircle

DrawInv == Ready /\ CallDrawn

LEMMA CoordsIn == Coord \subseteq Nat /\ \A c \in Circles : c[1] \in Nat /\ c[2] \in Nat /\ c[3] \in Nat
<1>1. Coord \subseteq Nat
  BY DrawAssumption DEF Coord
<1>2. \A c \in Circles : c \in Nat \X Nat \X Nat
  BY DrawAssumption
<1> QED
  BY <1>1, <1>2

LEMMA CallIs ==
  ASSUME Ready, NEW op, NEW sx, NEW sy, NEW dx, NEW dy, NEW result, Call(op, sx, sy, dx, dy, result)
  PROVE  /\ Asked(op, sx, sy, dx, dy)' /\ dots' = result
         /\ mc' = mc /\ il' = il /\ page' = page
         /\ Ready'
<1>1. shape' = [op |-> op, sx |-> sx, sy |-> sy, dx |-> dx, dy |-> dy] /\ dots' = result
  BY Zenon DEF Call
<1>2. mc' = mc /\ il' = il /\ page' = page
  BY DEF Call, setup
<1>3. Ready'
  BY <1>2 DEF Ready
<1> QED
  BY <1>1, <1>2, <1>3 DEF Asked

LEMMA DotsSame ==
  ASSUME NEW P, mc' = mc, il' = il, page' = page
  PROVE  DotSet(P)' = DotSet(P)
  BY DEF DotSet, Dot

LEMMA LineCalled ==
  ASSUME Ready, NEW sx \in Nat, NEW sy \in Nat, NEW dx \in Nat, NEW dy \in Nat, Line(sx, sy, dx, dy)
  PROVE  Ready' /\ AfterLine'
<1>1. PICK junk \in Junk : Call("line", sx, sy, dx, dy, LineDots(sx, sy, dx, dy, junk))
  BY Zenon DEF Line
<1>2. /\ Asked("line", sx, sy, dx, dy)' /\ dots' = LineDots(sx, sy, dx, dy, junk)
      /\ mc' = mc /\ il' = il /\ page' = page /\ Ready'
  BY <1>1, CallIs
<1>3. LineDone(sx, sy, dx, dy)'
  <2> SUFFICES ASSUME ~il' \/ sx # dx \/ sy = dy
               PROVE  \E P : IsLine(P, sx, sy, dx, dy) /\ Plots(dots', DotSet(P)', FALSE)
    BY Zenon DEF LineDone
  <2>1. LineRead(sx, sy, dx, dy)
    BY <1>2 DEF LineRead
  <2> DEFINE no == FALSE
  <2>2. no => ~mc /\ (il => sy = dy)
    OBVIOUS
  <2> HIDE DEF no
  <2>3. PICK P : IsLine(P, sx, sy, dx, dy) /\ Plots(LineDots(sx, sy, dx, dy, junk), DotSet(P), no)
    BY <2>1, <2>2, LineDraws
  <2>4. DotSet(P)' = DotSet(P)
    BY <1>2, DotsSame
  <2> QED
    BY <1>2, <2>3, <2>4 DEF no
<1> QED
  BY <1>2, <1>3, Zenon DEF AfterLine

LEMMA BoxCalled ==
  ASSUME Ready, NEW sx \in Nat, NEW sy \in Nat, NEW dx \in Nat, NEW dy \in Nat, Box(sx, sy, dx, dy)
  PROVE  Ready' /\ AfterBox'
<1>1. PICK junk \in Junk : Call("box", sx, sy, dx, dy, BoxDots(sx, sy, dx, dy, junk))
  BY Zenon DEF Box
<1>2. /\ Asked("box", sx, sy, dx, dy)' /\ dots' = BoxDots(sx, sy, dx, dy, junk)
      /\ mc' = mc /\ il' = il /\ page' = page /\ Ready'
  BY <1>1, CallIs
<1>3. BoxDone(sx, sy, dx, dy)'
  <2> DEFINE P == Border(sx, sy, dx, dy)
  <2> SUFFICES ASSUME ~il' \/ sy = dy PROVE Plots(dots', DotSet(P)', FALSE)
    BY Zenon DEF BoxDone
  <2>1. Plots(BoxDots(sx, sy, dx, dy, junk), DotSet(P), FALSE)
    BY <1>2, BoxDraws
  <2> HIDE DEF P
  <2>2. DotSet(P)' = DotSet(P)
    BY <1>2, DotsSame DEF P
  <2> QED
    BY <1>2, <2>1, <2>2
<1> QED
  BY <1>2, <1>3, Zenon DEF AfterBox

LEMMA FillCalled ==
  ASSUME Ready, NEW sx \in Nat, NEW sy \in Nat, NEW dx \in Nat, NEW dy \in Nat, Boxfill(sx, sy, dx, dy)
  PROVE  Ready' /\ AfterFill'
<1>1. PICK junk \in Junk : Call("fill", sx, sy, dx, dy, FillDots(sx, sy, dx, dy, junk))
  BY Zenon DEF Boxfill
<1>2. /\ Asked("fill", sx, sy, dx, dy)' /\ dots' = FillDots(sx, sy, dx, dy, junk)
      /\ mc' = mc /\ il' = il /\ page' = page /\ Ready'
  BY <1>1, CallIs
<1>3. FillDone(sx, sy, dx, dy)'
  <2> DEFINE P == Rect(sx, sy, dx, dy)
  <2>0. ByLines(sx, sy, dx, dy)' <=> ByLines(sx, sy, dx, dy)
    BY <1>2 DEF ByLines
  <2> SUFFICES ASSUME ~il' \/ ByLines(sx, sy, dx, dy)' PROVE Plots(dots', DotSet(P)', ~mc')
    BY Zenon DEF FillDone
  <2>1. Plots(FillDots(sx, sy, dx, dy, junk), DotSet(P), ~mc)
    BY <1>2, <2>0, FillDraws
  <2> HIDE DEF P
  <2>2. DotSet(P)' = DotSet(P)
    BY <1>2, DotsSame DEF P
  <2> QED
    BY <1>2, <2>1, <2>2
<1> QED
  BY <1>2, <1>3, Zenon DEF AfterFill

LEMMA FillHCalled ==
  ASSUME Ready, NEW sx \in Nat, NEW sy \in Nat, NEW dx \in Nat, NEW dy \in Nat, BoxfillH(sx, sy, dx, dy)
  PROVE  Ready' /\ AfterFillH'
<1>1. ~mc /\ sx <= dx /\ sy <= dy /\ Call("fill_h", sx, sy, dx, dy, FillHDots(sx, sy, dx, dy))
  BY DEF BoxfillH
<1>2. /\ Asked("fill_h", sx, sy, dx, dy)' /\ dots' = FillHDots(sx, sy, dx, dy)
      /\ mc' = mc /\ il' = il /\ page' = page /\ Ready'
  BY <1>1, CallIs
<1>3. FillHDone(sx, sy, dx, dy)'
  <2> DEFINE P == Rect(sx, sy, dx, dy)
  <2> SUFFICES ASSUME il' => sy % 2 = 0 /\ dy % 2 = 1 PROVE Plots(dots', DotSet(P)', TRUE)
    BY Zenon DEF FillHDone
  <2>0. il => sy % 2 = 0 /\ dy % 2 = 1
    BY <1>2
  <2>1. Plots(FillHDots(sx, sy, dx, dy), DotSet(P), TRUE)
    BY <1>1, <2>0, FillHDraws
  <2> HIDE DEF P
  <2>2. DotSet(P)' = DotSet(P)
    BY <1>2, DotsSame DEF P
  <2> QED
    BY <1>2, <2>1, <2>2
<1> QED
  BY <1>2, <1>3, Zenon DEF AfterFillH

LEMMA CircleCalled ==
  ASSUME Ready, NEW cx \in Nat, NEW cy \in Nat, NEW radius \in Nat, Circle(cx, cy, radius)
  PROVE  Ready' /\ AfterCircle'
<1>1. Call("circle", cx, cy, radius, 0, CircleDots(cx, cy, radius))
  BY Zenon DEF Circle
<1>2. /\ Asked("circle", cx, cy, radius, 0)' /\ dots' = CircleDots(cx, cy, radius)
      /\ mc' = mc /\ il' = il /\ page' = page /\ Ready'
  BY <1>1, CallIs
<1>3. CircleDone(cx, cy, radius)'
  <2> DEFINE P == Ring(cx, cy, radius)
  <2> SUFFICES ASSUME ~mc' PROVE Plots(dots', DotSet(P)', TRUE)
    BY Zenon DEF CircleDone
  <2>1. Plots(CircleDots(cx, cy, radius), DotSet(P), TRUE)
    <3>1. cx \in Int /\ cy \in Int /\ ~mc
      BY <1>2
    <3> QED
      BY <3>1, CircleDraws
  <2> HIDE DEF P
  <2>2. DotSet(P)' = DotSet(P)
    BY <1>2, DotsSame DEF P
  <2> QED
    BY <1>2, <2>1, <2>2
<1> QED
  BY <1>2, <1>3, Zenon DEF AfterCircle

LEMMA DrawnStays ==
  ASSUME CallDrawn, mc' = mc, il' = il, page' = page, shape' = shape, dots' = dots
  PROVE  CallDrawn'
<1>1. ASSUME NEW op, NEW sx, NEW sy, NEW dx, NEW dy, Asked(op, sx, sy, dx, dy) PROVE Asked(op, sx, sy, dx, dy)'
  BY <1>1 DEF Asked
<1>2. CASE shape.op = "none"
  BY <1>2 DEF CallDrawn
<1>3. CASE AfterLine
  <2>1. PICK sx \in Nat, sy \in Nat, dx \in Nat, dy \in Nat : Asked("line", sx, sy, dx, dy) /\ LineDone(sx, sy, dx, dy)
    BY <1>3, Zenon DEF AfterLine
  <2>2. LineDone(sx, sy, dx, dy)'
    <3> SUFFICES ASSUME ~il' \/ sx # dx \/ sy = dy
                 PROVE  \E P : IsLine(P, sx, sy, dx, dy) /\ Plots(dots', DotSet(P)', FALSE)
      BY Zenon DEF LineDone
    <3>1. PICK P : IsLine(P, sx, sy, dx, dy) /\ Plots(dots, DotSet(P), FALSE)
      BY <2>1, Zenon DEF LineDone
    <3>2. DotSet(P)' = DotSet(P)
      BY DotsSame
    <3> QED
      BY <3>1, <3>2
  <2> QED
    BY <1>1, <2>1, <2>2, Zenon DEF CallDrawn, AfterLine
<1>4. CASE AfterBox
  <2>1. PICK sx \in Nat, sy \in Nat, dx \in Nat, dy \in Nat : Asked("box", sx, sy, dx, dy) /\ BoxDone(sx, sy, dx, dy)
    BY <1>4, Zenon DEF AfterBox
  <2>2. BoxDone(sx, sy, dx, dy)'
    <3> DEFINE P == Border(sx, sy, dx, dy)
    <3> SUFFICES ASSUME ~il' \/ sy = dy PROVE Plots(dots', DotSet(P)', FALSE)
      BY Zenon DEF BoxDone
    <3>1. Plots(dots, DotSet(P), FALSE)
      BY <2>1, Zenon DEF BoxDone
    <3> HIDE DEF P
    <3>2. DotSet(P)' = DotSet(P)
      BY DotsSame DEF P
    <3> QED
      BY <3>1, <3>2
  <2> QED
    BY <1>1, <2>1, <2>2, Zenon DEF CallDrawn, AfterBox
<1>5. CASE AfterFill
  <2>1. PICK sx \in Nat, sy \in Nat, dx \in Nat, dy \in Nat : Asked("fill", sx, sy, dx, dy) /\ FillDone(sx, sy, dx, dy)
    BY <1>5, Zenon DEF AfterFill
  <2>2. FillDone(sx, sy, dx, dy)'
    <3> DEFINE P == Rect(sx, sy, dx, dy)
    <3>0. ByLines(sx, sy, dx, dy)' <=> ByLines(sx, sy, dx, dy)
      BY DEF ByLines
    <3> SUFFICES ASSUME ~il' \/ ByLines(sx, sy, dx, dy)' PROVE Plots(dots', DotSet(P)', ~mc')
      BY Zenon DEF FillDone
    <3>1. Plots(dots, DotSet(P), ~mc)
      BY <2>1, <3>0, Zenon DEF FillDone
    <3> HIDE DEF P
    <3>2. DotSet(P)' = DotSet(P)
      BY DotsSame DEF P
    <3> QED
      BY <3>1, <3>2
  <2> QED
    BY <1>1, <2>1, <2>2, Zenon DEF CallDrawn, AfterFill
<1>6. CASE AfterFillH
  <2>1. PICK sx \in Nat, sy \in Nat, dx \in Nat, dy \in Nat : Asked("fill_h", sx, sy, dx, dy) /\ FillHDone(sx, sy, dx, dy)
    BY <1>6, Zenon DEF AfterFillH
  <2>2. FillHDone(sx, sy, dx, dy)'
    <3> DEFINE P == Rect(sx, sy, dx, dy)
    <3> SUFFICES ASSUME il' => sy % 2 = 0 /\ dy % 2 = 1 PROVE Plots(dots', DotSet(P)', TRUE)
      BY Zenon DEF FillHDone
    <3>1. Plots(dots, DotSet(P), TRUE)
      BY <2>1, Zenon DEF FillHDone
    <3> HIDE DEF P
    <3>2. DotSet(P)' = DotSet(P)
      BY DotsSame DEF P
    <3> QED
      BY <3>1, <3>2
  <2> QED
    BY <1>1, <2>1, <2>2, Zenon DEF CallDrawn, AfterFillH
<1>7. CASE AfterCircle
  <2>1. PICK sx \in Nat, sy \in Nat, dx \in Nat : Asked("circle", sx, sy, dx, 0) /\ CircleDone(sx, sy, dx)
    BY <1>7, Zenon DEF AfterCircle
  <2>2. CircleDone(sx, sy, dx)'
    <3> DEFINE P == Ring(sx, sy, dx)
    <3> SUFFICES ASSUME ~mc' PROVE Plots(dots', DotSet(P)', TRUE)
      BY Zenon DEF CircleDone
    <3>1. Plots(dots, DotSet(P), TRUE)
      BY <2>1, Zenon DEF CircleDone
    <3> HIDE DEF P
    <3>2. DotSet(P)' = DotSet(P)
      BY DotsSame DEF P
    <3> QED
      BY <3>1, <3>2
  <2> QED
    BY <1>1, <2>1, <2>2, Zenon DEF CallDrawn, AfterCircle
<1> QED
  BY <1>2, <1>3, <1>4, <1>5, <1>6, <1>7 DEF CallDrawn

LEMMA DrawStep ==
  ASSUME DrawInv, [DrawNext]_drawVars
  PROVE  DrawInv'
<1>0. Ready /\ CallDrawn
  BY DEF DrawInv
<1>1. ASSUME NEW sx \in Coord, NEW sy \in Coord, NEW dx \in Coord, NEW dy \in Coord,
             Line(sx, sy, dx, dy) \/ Box(sx, sy, dx, dy) \/ Boxfill(sx, sy, dx, dy) \/ BoxfillH(sx, sy, dx, dy)
      PROVE  DrawInv'
  <2>1. sx \in Nat /\ sy \in Nat /\ dx \in Nat /\ dy \in Nat
    BY CoordsIn
  <2>2. Ready' /\ (AfterLine' \/ AfterBox' \/ AfterFill' \/ AfterFillH')
    <3>1. CASE Line(sx, sy, dx, dy)
      BY <1>0, <2>1, <3>1, LineCalled
    <3>2. CASE Box(sx, sy, dx, dy)
      BY <1>0, <2>1, <3>2, BoxCalled
    <3>3. CASE Boxfill(sx, sy, dx, dy)
      BY <1>0, <2>1, <3>3, FillCalled
    <3>4. CASE BoxfillH(sx, sy, dx, dy)
      BY <1>0, <2>1, <3>4, FillHCalled
    <3> QED
      BY <1>1, <3>1, <3>2, <3>3, <3>4
  <2> QED
    BY <2>2, Zenon DEF DrawInv, CallDrawn
<1>2. ASSUME NEW c \in Circles, Circle(c[1], c[2], c[3])
      PROVE  DrawInv'
  <2>1. c[1] \in Nat /\ c[2] \in Nat /\ c[3] \in Nat
    BY CoordsIn
  <2>2. Ready' /\ AfterCircle'
    BY <1>0, <1>2, <2>1, CircleCalled
  <2> QED
    BY <2>2, Zenon DEF DrawInv, CallDrawn
<1>3. CASE UNCHANGED drawVars
  <2>1. mc' = mc /\ il' = il /\ page' = page /\ shape' = shape /\ dots' = dots
    BY <1>3 DEF drawVars, setup
  <2>2. Ready'
    BY <1>0, <2>1 DEF Ready
  <2>3. CallDrawn'
    BY <1>0, <2>1, DrawnStays
  <2> QED
    BY <2>2, <2>3 DEF DrawInv
<1> QED
  BY <1>1, <1>2, <1>3, Zenon DEF DrawNext

LEMMA AskedIs ==
  ASSUME NEW op, NEW sx, NEW sy, NEW dx, NEW dy, Asked(op, sx, sy, dx, dy)
  PROVE  shape.op = op /\ shape.sx = sx /\ shape.sy = sy /\ shape.dx = dx /\ shape.dy = dy
  BY DEF Asked

LEMMA LineSeen ==
  ASSUME Ready, AfterLine
  PROVE  LineExact /\ shape.op = "line"
<1>1. PICK sx \in Nat, sy \in Nat, dx \in Nat, dy \in Nat : Asked("line", sx, sy, dx, dy) /\ LineDone(sx, sy, dx, dy)
  BY Zenon DEF AfterLine
<1>2. shape.op = "line" /\ shape.sx = sx /\ shape.sy = sy /\ shape.dx = dx /\ shape.dy = dy
  BY <1>1, AskedIs
<1>3. ASSUME ~Skewed PROVE LineAlong(DrawnDots, shape.sx, shape.sy, shape.dx, shape.dy)
  <2>1. ~il \/ sx # dx \/ sy = dy
    BY <1>2, <1>3 DEF Skewed, Ready
  <2>2. PICK P : IsLine(P, sx, sy, dx, dy) /\ Plots(dots, DotSet(P), FALSE)
    BY <1>1, <2>1, Zenon DEF LineDone
  <2>3. P \subseteq Int \X Int
    <3>1. P \subseteq Rect(sx, sy, dx, dy)
      BY <2>2, LineIn
    <3>2. Rect(sx, sy, dx, dy) \subseteq Int \X Int
      BY PointsIn
    <3> QED
      BY <3>1, <3>2, Zenon
  <2>4. DrawnDots = P
    BY <2>2, <2>3, DotsShown
  <2>5. LineAlong(P, sx, sy, dx, dy)
    BY <2>2, LineGood
  <2> QED
    BY <1>2, <2>4, <2>5
<1>4. LineExact
  BY <1>3, Zenon DEF LineExact, LineAlong, Offset
<1> QED
  BY <1>2, <1>4

LEMMA BoxSeen ==
  ASSUME Ready, AfterBox
  PROVE  BoxExact /\ shape.op = "box"
<1>1. PICK sx \in Nat, sy \in Nat, dx \in Nat, dy \in Nat : Asked("box", sx, sy, dx, dy) /\ BoxDone(sx, sy, dx, dy)
  BY Zenon DEF AfterBox
<1>2. shape.op = "box" /\ shape.sx = sx /\ shape.sy = sy /\ shape.dx = dx /\ shape.dy = dy
  BY <1>1, AskedIs
<1>3. ASSUME ~il \/ shape.sy = shape.dy
      PROVE  DrawnDots = {p \in Rect(shape.sx, shape.sy, shape.dx, shape.dy) :
                            p[1] \in {shape.sx, shape.dx} \/ p[2] \in {shape.sy, shape.dy}}
  <2>1. Plots(dots, DotSet(Border(sx, sy, dx, dy)), FALSE)
    BY <1>1, <1>2, <1>3 DEF BoxDone
  <2>2. Border(sx, sy, dx, dy) \subseteq Int \X Int
    BY PointsIn DEF Border
  <2>3. DrawnDots = Border(sx, sy, dx, dy)
    BY <2>1, <2>2, DotsShown
  <2> QED
    BY <1>2, <2>3 DEF Border
<1>4. Frame = Rect(shape.sx, shape.sy, shape.dx, shape.dy)
  BY Zenon DEF Frame, Rect
<1>5. BoxExact
  BY <1>3, <1>4, Zenon DEF BoxExact
<1> QED
  BY <1>2, <1>5

LEMMA FillSeen ==
  ASSUME Ready, AfterFill
  PROVE  FillExact /\ shape.op = "fill"
<1>1. PICK sx \in Nat, sy \in Nat, dx \in Nat, dy \in Nat : Asked("fill", sx, sy, dx, dy) /\ FillDone(sx, sy, dx, dy)
  BY Zenon DEF AfterFill
<1>2. shape.op = "fill" /\ shape.sx = sx /\ shape.sy = sy /\ shape.dx = dx /\ shape.dy = dy
  BY <1>1, AskedIs
<1>3. Frame = Rect(sx, sy, dx, dy)
  BY <1>2, Zenon DEF Frame, Rect
<1>4. ASSUME ~il \/ ByLines(shape.sx, shape.sy, shape.dx, shape.dy)
      PROVE  DrawnDots = Frame /\ (~mc => Once)
  <2>1. Plots(dots, DotSet(Rect(sx, sy, dx, dy)), ~mc)
    BY <1>1, <1>2, <1>4 DEF FillDone
  <2>2. Rect(sx, sy, dx, dy) \subseteq Int \X Int
    BY PointsIn
  <2> DEFINE one == ~mc
  <2>3. Plots(dots, DotSet(Rect(sx, sy, dx, dy)), one)
    BY <2>1
  <2> HIDE DEF one
  <2>4. DrawnDots = Rect(sx, sy, dx, dy) /\ (one => Once)
    BY <2>2, <2>3, DotsShown
  <2> QED
    BY <1>3, <2>4 DEF one
<1>5. FillExact
  <2>1. shape.op # "fill_h"
    BY <1>2
  <2> QED
    BY <1>4, <2>1, Zenon DEF FillExact
<1> QED
  BY <1>2, <1>5

LEMMA FillHSeen ==
  ASSUME Ready, AfterFillH
  PROVE  FillExact /\ shape.op = "fill_h"
<1>1. PICK sx \in Nat, sy \in Nat, dx \in Nat, dy \in Nat : Asked("fill_h", sx, sy, dx, dy) /\ FillHDone(sx, sy, dx, dy)
  BY Zenon DEF AfterFillH
<1>2. shape.op = "fill_h" /\ shape.sx = sx /\ shape.sy = sy /\ shape.dx = dx /\ shape.dy = dy
  BY <1>1, AskedIs
<1>3. Frame = Rect(sx, sy, dx, dy)
  BY <1>2, Zenon DEF Frame, Rect
<1>4. ASSUME il => shape.sy % 2 = 0 /\ shape.dy % 2 = 1
      PROVE  DrawnDots = Frame /\ Once
  <2>1. Plots(dots, DotSet(Rect(sx, sy, dx, dy)), TRUE)
    BY <1>1, <1>2, <1>4 DEF FillHDone
  <2>2. Rect(sx, sy, dx, dy) \subseteq Int \X Int
    BY PointsIn
  <2>3. DrawnDots = Rect(sx, sy, dx, dy) /\ Once
    BY <2>1, <2>2, DotsShown
  <2> QED
    BY <1>3, <2>3
<1>5. FillExact
  <2>1. shape.op # "fill"
    BY <1>2
  <2> QED
    BY <1>4, <2>1, Zenon DEF FillExact
<1> QED
  BY <1>2, <1>5

LEMMA CircleSeen ==
  ASSUME Ready, AfterCircle
  PROVE  CircleExact /\ shape.op = "circle"
<1>1. PICK cx \in Nat, cy \in Nat, radius \in Nat : Asked("circle", cx, cy, radius, 0) /\ CircleDone(cx, cy, radius)
  BY Zenon DEF AfterCircle
<1>2. shape.op = "circle" /\ shape.sx = cx /\ shape.sy = cy /\ shape.dx = radius
  BY <1>1, AskedIs
<1> DEFINE octant == {p \in (0..radius) \X (0..radius) :
                        p[2] <= p[1] /\ p[1] * p[1] + p[2] * p[2] < radius * (radius + 1)
                                     /\ radius * (radius + 1) <= (p[1] + 1) * (p[1] + 1) + p[2] * p[2]}
           around(p) == {<<cx + i * p[1], cy + j * p[2]>> : i, j \in {-1, 1}}
                          \cup {<<cx + i * p[2], cy + j * p[1]>> : i, j \in {-1, 1}}
<1>3. octant = Octant(radius)
  BY Zenon DEF Octant
<1>4. ASSUME NEW p \in Octant(radius) PROVE around(p) = Around(cx, cy, p[1], p[2])
  <2> DEFINE a == p[1]
             b == p[2]
  <2>1. a \in Nat /\ b \in Nat
    BY DEF Octant
  <2>2. around(p) = {<<cx + i * a, cy + j * b>> : i, j \in {-1, 1}} \cup {<<cx + i * b, cy + j * a>> : i, j \in {-1, 1}}
    OBVIOUS
  <2> HIDE DEF a, b, around
  <2>3. ASSUME NEW c \in Nat, NEW d \in Nat
        PROVE {<<cx + i * c, cy + j * d>> : i, j \in {-1, 1}} = Images(cx, cy, c, d)
    <3>1. cx + 1 * c = cx + c /\ cx + (-1) * c = cx - c /\ cy + 1 * d = cy + d /\ cy + (-1) * d = cy - d
      OBVIOUS
    <3> QED
      BY <3>1 DEF Images
  <2>4. around(p) = Around(cx, cy, a, b)
    BY <2>1, <2>2, <2>3 DEF Around
  <2> QED
    BY <2>4 DEF a, b
<1>5. UNION {around(p) : p \in Octant(radius)} = UNION {Around(cx, cy, p[1], p[2]) : p \in Octant(radius)}
  <2> HIDE DEF around
  <2>1. {around(p) : p \in Octant(radius)} = {Around(cx, cy, p[1], p[2]) : p \in Octant(radius)}
    BY <1>4
  <2> QED
    BY <2>1
<1>6. (IF radius = 0 THEN {<<cx, cy>>} ELSE UNION {around(p) : p \in octant}) = Ring(cx, cy, radius)
  <2> HIDE DEF around, octant
  <2>1. UNION {around(p) : p \in octant} = UNION {Around(cx, cy, p[1], p[2]) : p \in Octant(radius)}
    BY <1>3, <1>5, Zenon
  <2> QED
    BY <2>1, Zenon DEF Ring
<1>7. ASSUME ~mc PROVE Once /\ DrawnDots = Ring(cx, cy, radius)
  <2>1. Plots(dots, DotSet(Ring(cx, cy, radius)), TRUE)
    BY <1>1, <1>7, Zenon DEF CircleDone
  <2>2. Ring(cx, cy, radius) \subseteq Int \X Int
    BY RingIn
  <2> QED
    BY <2>1, <2>2, DotsShown
<1>8. CircleExact
  <2>1. ASSUME ~mc
        PROVE  Once /\ DrawnDots = IF radius = 0 THEN {<<cx, cy>>} ELSE UNION {around(p) : p \in octant}
    <3> HIDE DEF around, octant
    <3> QED
      BY <1>6, <1>7, <2>1, Zenon
  <2> QED
    BY <1>2, <2>1 DEF CircleExact
<1> QED
  BY <1>2, <1>8

LEMMA DrawnExact ==
  ASSUME DrawInv
  PROVE  ShapesExact
<1>1. Ready /\ CallDrawn
  BY DEF DrawInv
<1>2. ASSUME shape.op # "line" PROVE LineExact
  BY <1>2, Zenon DEF LineExact
<1>3. ASSUME shape.op # "box" PROVE BoxExact
  BY <1>3, Zenon DEF BoxExact
<1>4. ASSUME shape.op # "fill", shape.op # "fill_h" PROVE FillExact
  BY <1>4, Zenon DEF FillExact
<1>5. ASSUME shape.op # "circle" PROVE CircleExact
  BY <1>5 DEF CircleExact
<1>6. LineExact /\ BoxExact /\ FillExact /\ CircleExact
  <2>1. CASE shape.op = "none"
    BY <1>2, <1>3, <1>4, <1>5, <2>1
  <2>2. CASE AfterLine
    BY <1>1, <1>3, <1>4, <1>5, <2>2, LineSeen
  <2>3. CASE AfterBox
    BY <1>1, <1>2, <1>4, <1>5, <2>3, BoxSeen
  <2>4. CASE AfterFill
    BY <1>1, <1>2, <1>3, <1>5, <2>4, FillSeen
  <2>5. CASE AfterFillH
    BY <1>1, <1>2, <1>3, <1>5, <2>5, FillHSeen
  <2>6. CASE AfterCircle
    BY <1>1, <1>2, <1>3, <1>4, <2>6, CircleSeen
  <2> QED
    BY <1>1, <2>1, <2>2, <2>3, <2>4, <2>5, <2>6, Zenon DEF CallDrawn
<1> QED
  BY <1>6, Zenon DEF ShapesExact

LEMMA DrawBegins == DrawInit => DrawInv
<1> SUFFICES ASSUME DrawInit PROVE DrawInv
  OBVIOUS
<1>1. shape.op = "none"
  BY DEF DrawInit
<1>2. page \in Nat
  BY DrawAssumption DEF DrawInit
<1>3. Ready
  BY <1>2 DEF DrawInit, Ready
<1> QED
  BY <1>1, <1>3, Zenon DEF DrawInv, CallDrawn

(* Whatever is drawn, wherever, however large and on whichever kind of     *)
(* screen: bl_grp_line, bl_grp_box, bl_grp_boxfill, bl_grp_boxfill_h and   *)
(* bl_grp_circle plot the dots of the shape and no other, and where it is  *)
(* promised each of them once.                                             *)
THEOREM ShapesTheorem == DrawSpec => []ShapesExact
<1>1. DrawInit => DrawInv
  BY DrawBegins
<1>2. DrawInv /\ [DrawNext]_drawVars => DrawInv'
  BY DrawStep
<1>3. DrawInv => ShapesExact
  BY DrawnExact
<1> QED
  BY <1>1, <1>2, <1>3, PTL DEF DrawSpec

(***************************************************************************)
(* Syllables                                                               *)
(***************************************************************************)
Initial(ch) == ch.cho + 1
Vowel(ch) == ch.jung + (IF ch.jung <= 5 THEN 2 ELSE IF ch.jung <= 11 THEN 4 ELSE IF ch.jung <= 17 THEN 6 ELSE 8)
Final(ch) == ch.jong + (IF ch.jong <= 16 THEN 1 ELSE 2)

LEMMA LettersRight ==
  ASSUME NEW ch \in Syllables
  PROVE  /\ Initial(ch) \in 1..20 /\ TableCho[Initial(ch) + 1] = ch.cho
         /\ Vowel(ch) \in 2..29 /\ TableJung[Vowel(ch) + 1] = ch.jung
         /\ Final(ch) \in 1..29 /\ TableJong[Final(ch) + 1] = ch.jong
<1> DEFINE a == ch.cho
           b == ch.jung
           c == ch.jong
<1>1. a \in 0..19 /\ b \in 0..21 /\ c \in 0..27
  BY DEF Syllables
<1> HIDE DEF a, b, c
<1>2. a + 1 \in 1..20 /\ TableCho[(a + 1) + 1] = a
  BY <1>1 DEF TableCho
<1>3. /\ b + (IF b <= 5 THEN 2 ELSE IF b <= 11 THEN 4 ELSE IF b <= 17 THEN 6 ELSE 8) \in 2..29
      /\ TableJung[b + (IF b <= 5 THEN 2 ELSE IF b <= 11 THEN 4 ELSE IF b <= 17 THEN 6 ELSE 8) + 1] = b
  BY <1>1 DEF TableJung
<1>4. c + (IF c <= 16 THEN 1 ELSE 2) \in 1..29 /\ TableJong[c + (IF c <= 16 THEN 1 ELSE 2) + 1] = c
  BY <1>1 DEF TableJong
<1> QED
  BY <1>2, <1>3, <1>4 DEF Initial, Vowel, Final, a, b, c

LEMMA KssmRight ==
  ASSUME NEW ch \in Syllables
  PROVE  /\ Kssm(ch) \in Nat /\ Kssm(ch) >= 32768
         /\ (Kssm(ch) \div 1024) % 32 = Initial(ch)
         /\ (Kssm(ch) \div 32) % 32 = Vowel(ch)
         /\ Kssm(ch) % 32 = Final(ch)
<1> DEFINE a == Initial(ch)
           b == Vowel(ch)
           c == Final(ch)
<1>1. Kssm(ch) = 32768 + a * 1024 + b * 32 + c
  BY DEF Kssm, KssmCode, Initial, Vowel, Final
<1>2. a \in 0..31 /\ b \in 0..31 /\ c \in 0..31
  BY LettersRight
<1> HIDE DEF a, b, c
<1> DEFINE u == b * 32 + c
           N == 32768 + a * 1024 + b * 32 + c
<1>3. u \in 0..1023 /\ N = (a + 32) * 1024 + u /\ N = (a * 32 + b + 1024) * 32 + c
  BY <1>2
<1> HIDE DEF u, N
<1>5. N \div 1024 = a + 32 /\ (a + 32) % 32 = a
  BY <1>2, <1>3
<1>6. N \div 32 = a * 32 + b + 1024 /\ (a * 32 + b + 1024) % 32 = b
  BY <1>2, <1>3
<1>7. N % 32 = c
  BY <1>2, <1>3
<1>8. N \in Nat /\ N >= 32768
  BY <1>2, <1>3
<1>9. Kssm(ch) = N
  BY <1>1 DEF N
<1>10. (N \div 1024) % 32 = a /\ (N \div 32) % 32 = b
  BY <1>5, <1>6
<1> QED
  BY <1>7, <1>8, <1>9, <1>10 DEF a, b, c

(* The sets of glyphs bl_grp_make_font_k takes are those the vowel calls   *)
(* for.                                                                    *)
LEMMA SetsRight ==
  ASSUME NEW v \in 1..21
  PROVE  /\ BulCho1[v + 1] = IF v \in UprightJung THEN 0 ELSE IF v \in Above THEN 1 ELSE IF v \in Below THEN 2
                             ELSE IF v \in 15..17 THEN 4 ELSE 3
         /\ BulCho2[v + 1] = IF v \in UprightJung THEN 5 ELSE IF v \in Above THEN 6 ELSE IF v \in Below THEN 6
                             ELSE 7
         /\ BulJong[v + 1] = FinalsUnder[v]
<1>1. BulCho1[v + 1] = IF v \in UprightJung THEN 0 ELSE IF v \in Above THEN 1 ELSE IF v \in Below THEN 2
                             ELSE IF v \in 15..17 THEN 4 ELSE 3
  BY DEF BulCho1, UprightJung, Above, Below
<1>2. BulCho2[v + 1] = IF v \in UprightJung THEN 5 ELSE IF v \in Above THEN 6 ELSE IF v \in Below THEN 6
                             ELSE 7
  BY DEF BulCho2, UprightJung, Above, Below
<1>3. BulJong[v + 1] = FinalsUnder[v]
  BY DEF BulJong, FinalsUnder
<1> QED
  BY <1>1, <1>2, <1>3

LEMMA ComposedRight ==
  ASSUME NEW ch \in Syllables
  PROVE  MakeFont(Kssm(ch)) = Composed(ch)
<1> DEFINE v == ch.jung
           final == ch.jong # 0
           i == TableCho[((Kssm(ch) \div 1024) % 32) + 1]
           w == TableJung[((Kssm(ch) \div 32) % 32) + 1]
           f == TableJong[(Kssm(ch) % 32) + 1]
           upper == CASE v = 0 -> IF final THEN 6 ELSE 1
                      [] v \in UprightJung -> IF final THEN 5 ELSE 0
                      [] v \in Above -> IF final THEN 6 ELSE 1
                      [] v \in Below -> IF final THEN 6 ELSE 2
                      [] v \in 15..17 -> IF final THEN 7 ELSE 4
                      [] OTHER -> IF final THEN 7 ELSE 3
           middle == IF v = 0 THEN 0 ELSE IF ch.cho \in {1, 16}
                     THEN (IF final THEN 2 ELSE 0) ELSE IF final THEN 3 ELSE 1
           lower == IF v = 0 THEN 1 ELSE FinalsUnder[v]
           upper1 == IF w = 0 THEN IF f = 0 THEN 1 ELSE 6
                     ELSE IF f = 0 THEN BulCho1[w + 1] ELSE BulCho2[w + 1]
           middle1 == IF w = 0 THEN 0 ELSE (IF f = 0 THEN 0 ELSE 2) + (IF i \in {1, 16} THEN 0 ELSE 1)
           lower1 == IF w = 0 THEN 1 ELSE BulJong[w + 1]
<1>1. i = ch.cho /\ w = v /\ f = ch.jong
  BY LettersRight, KssmRight
<1>2. MakeFont(Kssm(ch)) = {upper1 * 20 + i, 160 + middle1 * 22 + w}
                             \cup (IF f = 0 THEN {} ELSE {248 + lower1 * 28 + f})
  BY DEF MakeFont
<1>3. Composed(ch) = {upper * 20 + ch.cho, 160 + middle * 22 + v}
                       \cup (IF final THEN {248 + lower * 28 + ch.jong} ELSE {})
  BY DEF Composed
<1>4. v \in 0..21 /\ (v # 0 => v \in 1..21)
  BY DEF Syllables
<1> HIDE DEF v, i, w, f
<1>5. upper1 = upper
  <2>1. CASE v = 0
    <3>1. v \notin UprightJung \cup Above \cup Below \cup 15..17
      BY <2>1 DEF UprightJung, Above, Below
    <3> QED
      BY <1>1, <2>1, <3>1
  <2>2. CASE v # 0
    <3>1. v \in UprightJung => v \notin Above \cup Below \cup 15..17
      BY DEF UprightJung, Above, Below
    <3>2. v \in Above => v \notin Below \cup 15..17
      BY DEF Above, Below
    <3>3. v \in Below => v \notin 15..17
      BY DEF Below
    <3> QED
      BY <1>1, <1>4, <2>2, <3>1, <3>2, <3>3, SetsRight
  <2> QED
    BY <2>1, <2>2
<1>6. middle1 = middle
  BY <1>1
<1>7. lower1 = lower
  BY <1>1, <1>4, SetsRight
<1> HIDE DEF upper, upper1, middle, middle1, lower, lower1
<1> QED
  BY <1>1, <1>2, <1>3, <1>5, <1>6, <1>7

(* The bytes of a character: one below 128 in Korean mode, or two that     *)
(* bl_grp_make_font_k makes the syllable's glyphs of.                      *)
Code(hi, lo) == IF kr = 1 THEN FromKs(hi, lo) ELSE hi * 256 + lo

CanPrint(ch) == IF IsSyllable(ch) THEN kr = 2 \/ (kr = 1 /\ \E k \in DOMAIN KsOf : KsOf[k] = ch)
                             ELSE kr = 0 \/ ch.code < 128

LEMMA SyllableIs ==
  ASSUME NEW ch \in Characters
  PROVE  IF IsSyllable(ch) THEN ch \in Syllables ELSE ch \in [code : 1..255]
  BY DEF Characters, Syllables, IsSyllable

LEMMA BytesRight ==
  ASSUME NEW ch \in Characters, CanPrint(ch)
  PROVE  IF IsSyllable(ch)
         THEN \E hi, lo \in Nat : Bytes(ch) = <<hi, lo>> /\ hi >= 128 /\ MakeFont(Code(hi, lo)) = Composed(ch)
                                                                       /\ kr # 0
         ELSE Bytes(ch) = <<ch.code>> /\ ch.code \in 1..255
<1>1. CASE ~IsSyllable(ch)
  BY <1>1, SyllableIs DEF Bytes
<1>2. CASE IsSyllable(ch) /\ kr = 1
  <2> DEFINE n == CHOOSE n \in DOMAIN KsOf : KsOf[n] = ch
             hi == 176 + (n \div 94)
             lo == 161 + (n % 94)
  <2>1. n \in DOMAIN KsOf /\ KsOf[n] = ch
    <3>1. \E k \in DOMAIN KsOf : KsOf[k] = ch
      BY <1>2 DEF CanPrint
    <3> QED
      BY <3>1, Zenon
  <2>2. Bytes(ch) = <<hi, lo>>
    BY <1>2, Zenon DEF Bytes
  <2>3. n \in 0..2349
    <3>1. \A k \in DOMAIN KsOf : k \in Nat /\ k < 2350
      BY GfnAssumption
    <3> HIDE DEF n
    <3> QED
      BY <2>1, <3>1
  <2> HIDE DEF n
  <2>4. hi \in Nat /\ lo \in Nat /\ hi >= 128 /\ (hi - 176) * 94 + lo - 161 = n
    BY <2>3
  <2> HIDE DEF hi, lo
  <2>5. Code(hi, lo) = Kssm(ch)
    BY <1>2, <2>1, <2>4 DEF Code, FromKs
  <2> QED
    BY <1>2, <2>2, <2>4, <2>5, SyllableIs, ComposedRight
<1>3. CASE IsSyllable(ch) /\ kr = 2
  <2> DEFINE K == Kssm(ch)
             hi == K \div 256
             lo == K % 256
  <2>1. Bytes(ch) = <<hi, lo>>
    BY <1>3 DEF Bytes
  <2>2. K \in Nat /\ K >= 32768
    BY <1>3, SyllableIs, KssmRight
  <2> HIDE DEF K
  <2>3. hi \in Nat /\ lo \in Nat /\ hi >= 128 /\ hi * 256 + lo = K
    BY <2>2
  <2> HIDE DEF hi, lo
  <2>4. Code(hi, lo) = Kssm(ch)
    BY <1>3, <2>3 DEF Code, K
  <2> QED
    BY <1>3, <2>1, <2>3, <2>4, SyllableIs, ComposedRight
<1> QED
  BY <1>1, <1>2, <1>3 DEF CanPrint

(***************************************************************************)
(* Places                                                                  *)
(***************************************************************************)
(* A line of a bitmap screen, its address and those of its dots.           *)
OnLine == scr.mode \in 6..9 /\ scr.page \in 0..3 /\ PageLine(cur[2]) \in Nat /\ PageLine(cur[2]) < 256
Base == PageLine(cur[2]) * Row
Addr(x) == Base + (x \div PerByte)
Split(a) ==
  [l |-> a % 256, m |-> (a \div 256) % 64, h |-> (a \div 16384) + 2 * scr.page * (IF Row = 256 THEN 2 ELSE 1)]

LEMMA RowIs ==
  ASSUME scr.mode \in 6..9
  PROVE  /\ Row \in {128, 256} /\ PerByte \in {1, 2, 4} /\ Width \in {256, 512}
         /\ \A x \in Nat : (x * Row) \div Width = x \div PerByte /\ x \div PerByte \in Nat
         /\ \A x \in 0..Width - 1 : x \div PerByte \in 0..Row - 1
<1>1. scr.mode \in {6, 7, 8, 9}
  OBVIOUS
<1>2. CASE scr.mode = 6
  <2>1. Row = 128 /\ PerByte = 2 /\ Width = 256
    BY <1>2 DEF Row, PerByte, Width, FontRowBytes, DotsPerByte
  <2> HIDE DEF Row, PerByte, Width
  <2> QED
    BY <2>1
<1>3. CASE scr.mode = 7
  <2>1. Row = 128 /\ PerByte = 4 /\ Width = 512
    BY <1>3 DEF Row, PerByte, Width, FontRowBytes, DotsPerByte
  <2> QED
    BY <2>1
<1>4. CASE scr.mode = 8
  <2>1. Row = 256 /\ PerByte = 2 /\ Width = 512
    BY <1>4 DEF Row, PerByte, Width, FontRowBytes, DotsPerByte
  <2> QED
    BY <2>1
<1>5. CASE scr.mode = 9
  <2>1. Row = 256 /\ PerByte = 1 /\ Width = 256
    BY <1>5 DEF Row, PerByte, Width, FontRowBytes, DotsPerByte
  <2> QED
    BY <2>1
<1> QED
  BY <1>1, <1>2, <1>3, <1>4, <1>5

LEMMA RowRight ==
  ASSUME OnLine
  PROVE  /\ Row \in {128, 256} /\ PerByte \in {1, 2, 4} /\ Width \in {256, 512}
         /\ \A x \in Nat : (x * Row) \div Width = x \div PerByte /\ x \div PerByte \in Nat
         /\ \A x \in 0..Width - 1 : x \div PerByte \in 0..Row - 1
<1>1. scr.mode \in 6..9
  BY DEF OnLine
<1> QED
  BY <1>1, RowIs

LEMMA SplitRight ==
  ASSUME OnLine, NEW x \in Nat, x < Width
  PROVE  /\ Addr(x) \in Nat /\ Addr(x) < 65536
         /\ Full(Split(Addr(x))) = Belongs(x, cur[2])
         /\ Addr(x) % 16384 = Full(Split(Addr(x))) % 16384
<1> DEFINE r == PageLine(cur[2])
           a == Addr(x)
           t == x \div PerByte
           k == IF Row = 256 THEN 2 ELSE 1
           e == scr.page * k
<1>1. r \in Nat /\ r < 256 /\ scr.page \in Nat
  BY DEF OnLine
<1>2. t \in Nat /\ t < Row /\ Row \in {128, 256} /\ (x * Row) \div Width = t
  <2>1. Width \in Nat
    BY RowRight
  <2>2. x \in 0..Width - 1
    BY <2>1
  <2> QED
    BY <2>2, RowRight
<1>3. a = r * Row + t
  BY DEF Addr, Base
<1>4. Belongs(x, cur[2]) = scr.page * (IF Row = 256 THEN 65536 ELSE 32768) + r * Row + t
  BY <1>2 DEF Belongs
<1>5. Full(Split(a)) = ((a \div 16384) + 2 * scr.page * k) * 16384 + ((a \div 256) % 64) * 256 + (a % 256)
  BY DEF Full, Split
<1> HIDE DEF r, t, a
<1>6. a \in Nat /\ a < 65536
  BY <1>1, <1>2, <1>3
<1>7. e \in Nat /\ 2 * scr.page * k = 2 * e /\ scr.page * (IF Row = 256 THEN 65536 ELSE 32768) = 32768 * e
  BY <1>1
<1> HIDE DEF k, e
<1>8. (a \div 16384) * 16384 + ((a \div 256) % 64) * 256 + (a % 256) = a
  BY <1>6
<1>9. Full(Split(a)) = a + 32768 * e
  <2> DEFINE u == a \div 16384
             v == ((a \div 256) % 64) * 256
             z == a % 256
  <2>1. u \in Nat /\ v \in Nat /\ z \in Nat
    BY <1>6
  <2>2. Full(Split(a)) = (u + 2 * e) * 16384 + v + z
    BY <1>5, <1>7
  <2>3. u * 16384 + v + z = a
    BY <1>8
  <2> HIDE DEF u, v, z
  <2> QED
    BY <1>7, <2>1, <2>2, <2>3
<1>10. (a + 32768 * e) % 16384 = a % 16384
  BY <1>6, <1>7
<1>11. r * Row \in Nat
  BY <1>1, <1>2
<1>12. Belongs(x, cur[2]) = a + 32768 * e
  BY <1>2, <1>3, <1>4, <1>7, <1>11
<1> QED
  BY <1>6, <1>9, <1>10, <1>12 DEF a

(* The address within a line moves in its low byte alone.                  *)
LEMMA SameBlock ==
  ASSUME OnLine, NEW x \in Nat, x < Width, NEW next \in Nat, next < Width, NEW d \in Int, Addr(next) = Addr(x) + d
  PROVE  /\ d > -256 /\ d < 256
         /\ (Addr(x) + d + 65536) % 65536 = Addr(next)
         /\ Split(Addr(next)) = [l |-> ((Addr(x) % 256) + d + 256) % 256, m |-> Split(Addr(x)).m, h |-> Split(Addr(x)).h]
         /\ (Addr(x) % 256) + d \in Nat
<1> DEFINE r == PageLine(cur[2])
           st == x \div PerByte
           t == next \div PerByte
           a == Addr(x)
           b == Addr(next)
<1>1. r \in Nat /\ r < 256
  BY DEF OnLine
<1>2. st \in Nat /\ t \in Nat /\ st < Row /\ t < Row /\ Row \in {128, 256}
  <2>1. Width \in Nat
    BY RowRight
  <2>2. x \in 0..Width - 1 /\ next \in 0..Width - 1
    BY <2>1
  <2> QED
    BY <2>2, RowRight
<1>3. a = r * Row + st /\ b = r * Row + t
  BY DEF Addr, Base
<1>4. Split(a) = [l |-> a % 256, m |-> (a \div 256) % 64, h |-> (a \div 16384) + 2 * scr.page * (IF Row = 256 THEN 2 ELSE 1)]
  BY DEF Split
<1>5. Split(b) = [l |-> b % 256, m |-> (b \div 256) % 64, h |-> (b \div 16384) + 2 * scr.page * (IF Row = 256 THEN 2 ELSE 1)]
  BY DEF Split
<1>6. b = a + d
  OBVIOUS
<1> HIDE DEF r, st, t, a, b
<1>7. a \in Nat /\ a < 65536 /\ b \in Nat /\ b < 65536
  BY <1>1, <1>2, <1>3
<1>8. a \div 256 = b \div 256
  <2>1. CASE Row = 256
    BY <1>1, <1>2, <1>3, <2>1
  <2>2. CASE Row = 128
    BY <1>1, <1>2, <1>3, <2>2
  <2> QED
    BY <1>2, <2>1, <2>2
<1>9. a \div 16384 = b \div 16384
  BY <1>7, <1>8
<1>10. d > -256 /\ d < 256
  BY <1>6, <1>7, <1>8
<1>11. (a + d + 65536) % 65536 = b
  BY <1>6, <1>7
<1>12. (a % 256) + d \in Nat /\ ((a % 256) + d + 256) % 256 = b % 256
  BY <1>6, <1>7, <1>8
<1> QED
  BY <1>4, <1>5, <1>8, <1>9, <1>10, <1>11, <1>12 DEF a, b

LEMMA Across ==
  ASSUME OnLine, NEW x \in Nat, NEW w \in Nat, w % PerByte = 0
  PROVE  /\ (x + w) \div PerByte = (x \div PerByte) + (w \div PerByte) /\ w \div PerByte \in Nat
         /\ x \div PerByte \in Nat
<1>1. PerByte \in {1, 2, 4}
  BY RowRight
<1> QED
  BY <1>1

(***************************************************************************)
(* Glyphs and cells                                                        *)
(***************************************************************************)
IsSeq(sq) == \E S : sq \in Seq(S)

LEMMA AppendIs ==
  ASSUME NEW sq, NEW e, IsSeq(sq)
  PROVE  /\ IsSeq(Append(sq, e)) /\ Len(Append(sq, e)) = Len(sq) + 1 /\ Len(sq) \in Nat
         /\ \A n \in 1..Len(sq) : Append(sq, e)[n] = sq[n]
         /\ Append(sq, e)[Len(sq) + 1] = e
<1>1. PICK S : sq \in Seq(S)
  BY DEF IsSeq
<1>2. sq \in Seq(S \cup {e}) /\ e \in S \cup {e}
  BY <1>1
<1>3. Append(sq, e) \in Seq(S \cup {e})
  BY <1>2
<1> QED
  BY <1>2, <1>3 DEF IsSeq

LEMMA PairIs ==
  ASSUME NEW sq, NEW c, NEW d, IsSeq(sq)
  PROVE  sq \o <<c, d>> = Append(Append(sq, c), d)
<1>1. PICK S : sq \in Seq(S)
  BY DEF IsSeq
<1> DEFINE T == S \cup {c, d}
<1>2. sq \in Seq(T) /\ c \in T /\ d \in T
  BY <1>1
<1> HIDE DEF T
<1>3. /\ sq \o <<c, d>> \in Seq(T) /\ Len(sq \o <<c, d>>) = Len(sq) + 2
      /\ \A n \in 1..Len(sq) + 2 : (sq \o <<c, d>>)[n] = IF n <= Len(sq) THEN sq[n] ELSE <<c, d>>[n - Len(sq)]
  BY <1>2
<1>4. /\ Append(sq, c) \in Seq(T) /\ Len(Append(sq, c)) = Len(sq) + 1
      /\ \A n \in 1..Len(sq) + 1 : Append(sq, c)[n] = IF n <= Len(sq) THEN sq[n] ELSE c
  BY <1>2
<1>5. /\ Append(Append(sq, c), d) \in Seq(T) /\ Len(Append(Append(sq, c), d)) = Len(sq) + 2
      /\ \A n \in 1..Len(sq) + 2 : Append(Append(sq, c), d)[n] = IF n <= Len(sq) + 1 THEN Append(sq, c)[n] ELSE d
  BY <1>2, <1>4
<1>6. Len(sq) \in Nat
  BY <1>2
<1>7. \A n \in 1..Len(sq) + 2 : (sq \o <<c, d>>)[n] = Append(Append(sq, c), d)[n]
  <2> DEFINE m == Len(sq)
  <2>1. \A n \in 1..m + 2 : n <= m \/ n = m + 1 \/ n = m + 2
    BY <1>6
  <2> QED
    BY <1>3, <1>4, <1>5, <1>6, <2>1
<1> QED
  BY <1>3, <1>5, <1>7, SeqEqual

(* Glyphs drawn are what cells ask for.                                    *)
Matches(out, cells) ==
  /\ IsSeq(out) /\ IsSeq(cells) /\ Len(out) = Len(cells)
  /\ \A n \in 1..Len(out) : DrawnAs(out[n], cells[n])

LEMMA MatchesNone == Matches(<<>>, <<>>)
<1>1. <<>> \in Seq({}) /\ Len(<<>>) = 0
  OBVIOUS
<1> QED
  BY <1>1 DEF Matches, IsSeq

LEMMA MatchesMore ==
  ASSUME NEW out, NEW cells, Matches(out, cells), NEW d, NEW c, DrawnAs(d, c)
  PROVE  Matches(Append(out, d), Append(cells, c))
<1> DEFINE o == Append(out, d)
           p == Append(cells, c)
           m == Len(out)
<1>1. IsSeq(out) /\ IsSeq(cells) /\ m = Len(cells) /\ \A n \in 1..m : DrawnAs(out[n], cells[n])
  BY DEF Matches
<1>2. IsSeq(o) /\ Len(o) = m + 1 /\ m \in Nat /\ (\A n \in 1..m : o[n] = out[n]) /\ o[m + 1] = d
  BY <1>1, AppendIs
<1>3. IsSeq(p) /\ Len(p) = m + 1 /\ (\A n \in 1..m : p[n] = cells[n]) /\ p[m + 1] = c
  BY <1>1, AppendIs
<1> HIDE DEF o, p, m
<1>4. \A n \in 1..m + 1 : n \in 1..m \/ n = m + 1
  BY <1>2
<1>5. \A n \in 1..m + 1 : DrawnAs(o[n], p[n])
  BY <1>1, <1>2, <1>3, <1>4, Zenon
<1>6. Matches(o, p)
  BY <1>2, <1>3, <1>5 DEF Matches
<1> QED
  BY <1>6 DEF o, p

(* Where printing has got to.                                              *)
Pen(x, out) == [f |-> Addr(x), v |-> Split(Addr(x)), out |-> out]

Inked(x, glyph, f) ==
  [f |-> Addr(x), v |-> Split(Addr(x)), glyph |-> glyph, fg |-> f.fg, bg |-> f.bg,
   w |-> f.w, h |-> f.h, draw |-> func.draw]

Inking == OnLine /\ func = [text |-> FALSE, draw |-> <<scr.mode, scr.il>>]

LEMMA InkedRight ==
  ASSUME Inking, NEW x \in Nat, x < Width, NEW glyph, NEW f, f.w = font.w, f.h = font.h
  PROVE  DrawnAs(Inked(x, glyph, f), Cell(x, glyph, <<f.fg, f.bg>>))
<1> DEFINE d == Inked(x, glyph, f)
           c == Cell(x, glyph, <<f.fg, f.bg>>)
<1>1. d.f = Addr(x) /\ d.v = Split(Addr(x)) /\ d.glyph = glyph /\ d.fg = f.fg /\ d.bg = f.bg /\ d.w = f.w /\ d.h = f.h
        /\ d.draw = func.draw
  BY DEF Inked
<1>2. c.x = x /\ c.y = cur[2] /\ c.glyph = glyph /\ c.fg = f.fg /\ c.bg = f.bg
  BY DEF Cell
<1>3. Full(Split(Addr(x))) = Belongs(x, cur[2]) /\ Addr(x) % 16384 = Full(Split(Addr(x))) % 16384
  BY SplitRight DEF Inking
<1>4. func.draw = <<scr.mode, scr.il>>
  BY DEF Inking
<1> DEFINE pair == <<scr.mode, scr.il>>
<1>5. d.draw = pair
  BY <1>1, <1>4
<1> HIDE DEF d, c, pair
<1>6. PlacedAt(d, c.x, c.y)
  <2> DEFINE a == Addr(x)
  <2>1. d.f = a /\ d.v = Split(a) /\ Full(Split(a)) = Belongs(x, cur[2]) /\ a % 16384 = Full(Split(a)) % 16384
    BY <1>1, <1>3
  <2> HIDE DEF a
  <2>2. PlacedAt(d, x, cur[2])
    BY <2>1 DEF PlacedAt
  <2> QED
    BY <1>2, <2>2
<1>7. d.glyph = c.glyph /\ d.fg = c.fg /\ d.bg = c.bg /\ d.w = font.w /\ d.h = font.h
  BY <1>1, <1>2, Zenon
<1>8. DrawnAs(d, c)
  BY <1>5, <1>6, <1>7, Zenon DEF DrawnAs, pair
<1> QED
  BY <1>8 DEF d, c

LEMMA PenChanged ==
  ASSUME NEW a, NEW u, NEW out, NEW b, NEW z
  PROVE  [[f |-> a, v |-> u, out |-> out] EXCEPT !.f = b, !.v = z] = [f |-> b, v |-> z, out |-> out]
<1> DEFINE p == [f |-> a, v |-> u, out |-> out]
           q == [p EXCEPT !.f = b]
           t == [p EXCEPT !.f = b, !.v = z]
<1>1. q = [f |-> b, v |-> u, out |-> out]
  OBVIOUS
<1>2. t = [q EXCEPT !.v = z]
  OBVIOUS
<1> HIDE DEF q, t
<1>3. [q EXCEPT !.v = z] = [f |-> b, v |-> z, out |-> out]
  BY <1>1
<1> QED
  BY <1>2, <1>3 DEF t

LEMMA PenMoves ==
  ASSUME OnLine, NEW x \in Nat, x < Width, NEW next \in Nat, next < Width, NEW d \in Int, Addr(next) = Addr(x) + d, NEW out
  PROVE  Moved(Pen(x, out), d) = Pen(next, out)
<1> DEFINE a == Addr(x)
           b == Addr(next)
<1>1. (a + d + 65536) % 65536 = b
  BY SameBlock
<1>2. Split(b) = [l |-> ((a % 256) + d + 256) % 256, m |-> Split(a).m, h |-> Split(a).h]
  BY SameBlock
<1>3. Pen(x, out) = [f |-> a, v |-> Split(a), out |-> out] /\ Pen(next, out) = [f |-> b, v |-> Split(b), out |-> out]
  BY DEF Pen
<1>4. Split(a) = [l |-> a % 256, m |-> Split(a).m, h |-> Split(a).h]
  BY DEF Split
<1> DEFINE u == Split(a)
           p == [f |-> a, v |-> u, out |-> out]
           u2 == [u EXCEPT !.l = (@ + d + 256) % 256]
<1> HIDE DEF a, b, u
<1>5. p.f = a /\ p.v = u /\ p.out = out /\ p = [f |-> p.f, v |-> p.v, out |-> p.out]
  OBVIOUS
<1>6. Moved(p, d) = [p EXCEPT !.f = (p.f + d + 65536) % 65536, !.v = [p.v EXCEPT !.l = (@ + d + 256) % 256]]
  BY DEF Moved
<1> HIDE DEF p
<1>7. Moved(p, d) = [f |-> (a + d + 65536) % 65536, v |-> u2, out |-> out]
  <2> HIDE DEF u2
  <2>1. p.v = u /\ [p.v EXCEPT !.l = (@ + d + 256) % 256] = u2
    BY <1>5 DEF u2
  <2> DEFINE n == (a + d + 65536) % 65536
             n1 == (p.f + d + 65536) % 65536
             u1 == [p.v EXCEPT !.l = (@ + d + 256) % 256]
  <2>5. n1 = n /\ u1 = u2
    BY <1>5, <2>1
  <2>6. Moved(p, d) = [p EXCEPT !.f = n1, !.v = u1]
    BY <1>6
  <2> HIDE DEF n, n1, u1
  <2>2. Moved(p, d) = [p EXCEPT !.f = n, !.v = u2]
    BY <2>5, <2>6
  <2>3. p = [f |-> a, v |-> u, out |-> out]
    BY DEF p
  <2>4. Moved(p, d) = [f |-> n, v |-> u2, out |-> out]
    BY <2>2, <2>3, PenChanged
  <2> QED
    BY <2>4 DEF n
<1>8. u2 = [l |-> ((a % 256) + d + 256) % 256, m |-> u.m, h |-> u.h]
  BY <1>4 DEF u
<1> HIDE DEF u2
<1>9. u2 = Split(b)
  BY <1>2, <1>8 DEF u
<1>10. Pen(x, out) = p /\ Pen(next, out) = [f |-> b, v |-> Split(b), out |-> out]
  BY <1>3 DEF p, u
<1> QED
  BY <1>1, <1>7, <1>9, <1>10

LEMMA FontDraws ==
  ASSUME Inking, NEW x, NEW out, NEW glyph, NEW f
  PROVE  DrawFont(Pen(x, out), glyph, f)
           = [Moved(Pen(x, out), f.w \div PerByte) EXCEPT !.out = Append(out, Inked(x, glyph, f))]
<1>1. func.draw = <<scr.mode, scr.il>> /\ func.draw # <<>>
  BY DEF Inking
<1>2. Moved(Pen(x, out), f.w \div PerByte).out = out
  BY DEF Moved, Pen
<1> DEFINE q == Moved(Pen(x, out), f.w \div PerByte)
           p == Pen(x, out)
<1>3. DrawFont(p, glyph, f)
        = [q EXCEPT !.out = Append(@, [f |-> p.f, v |-> p.v, glyph |-> glyph, fg |-> f.fg, bg |-> f.bg,
                            w |-> f.w, h |-> f.h, draw |-> func.draw])]
  BY <1>1 DEF DrawFont
<1>4. [f |-> p.f, v |-> p.v, glyph |-> glyph, fg |-> f.fg, bg |-> f.bg, w |-> f.w, h |-> f.h, draw |-> func.draw]
        = Inked(x, glyph, f)
  BY DEF Pen, Inked
<1> HIDE DEF q, p
<1>5. q.out = out
  BY <1>2 DEF q
<1>6. DrawFont(p, glyph, f) = [q EXCEPT !.out = Append(out, Inked(x, glyph, f))]
  BY <1>3, <1>4, <1>5
<1> QED
  BY <1>6 DEF p, q

LEMMA GlyphDrawn ==
  ASSUME Inking, NEW x \in Nat, NEW out, NEW glyph, NEW f, f.w \in Nat, f.w % PerByte = 0, x + f.w < Width
  PROVE  DrawFont(Pen(x, out), glyph, f) = Pen(x + f.w, Append(out, Inked(x, glyph, f)))
<1> DEFINE d == f.w \div PerByte
           next == x + f.w
           new == Append(out, Inked(x, glyph, f))
<1>1. OnLine
  BY DEF Inking
<1>2. d \in Nat /\ next \div PerByte = (x \div PerByte) + d /\ x \div PerByte \in Nat
  BY <1>1, Across
<1>3. Base \in Nat
  <2>1. PageLine(cur[2]) \in Nat
    BY <1>1 DEF OnLine
  <2>2. Row \in Nat
    BY <1>1, RowRight
  <2> QED
    BY <2>1, <2>2 DEF Base
<1>4. Addr(next) = Addr(x) + d
  <2> DEFINE st == x \div PerByte
  <2> HIDE DEF d, next, st
  <2>1. Addr(next) = Base + (next \div PerByte) /\ Addr(x) = Base + st
    BY DEF Addr, st
  <2> QED
    BY <1>2, <1>3, <2>1 DEF st
<1>5. x < Width /\ next < Width /\ next \in Nat
  <2>1. Width \in Nat
    BY <1>1, RowRight
  <2> QED
    BY <2>1
<1> HIDE DEF d, next, new
<1>6. Moved(Pen(x, out), d) = Pen(next, out)
  BY <1>1, <1>2, <1>4, <1>5, PenMoves
<1>7. DrawFont(Pen(x, out), glyph, f) = [Pen(next, out) EXCEPT !.out = new]
  BY <1>6, FontDraws DEF d, new
<1>8. [Pen(next, out) EXCEPT !.out = new] = Pen(next, new)
  BY DEF Pen
<1> QED
  BY <1>7, <1>8 DEF next, new

(***************************************************************************)
(* Characters                                                              *)
(***************************************************************************)
Printing ==
  /\ Inking
  /\ font.w \in Nat /\ font.w % PerByte = 0 /\ font.wb = font.w \div PerByte
  /\ font.rows = IF font.h > 8 THEN 16 ELSE 8

LEMMA AsciiRight ==
  ASSUME Printing, NEW x \in Nat, x + font.w < Width, NEW out, NEW code
  PROVE  DrawAscii(Pen(x, out), code, font) = Pen(x + font.w, Append(out, Inked(x, AsciiGlyph(code), font)))
<1>1. <<"ascii", code * font.rows>> = AsciiGlyph(code)
  BY DEF Printing, AsciiGlyph
<1>2. DrawAscii(Pen(x, out), code, font) = DrawFont(Pen(x, out), AsciiGlyph(code), font)
  BY <1>1 DEF DrawAscii
<1>3. Inking /\ font.w \in Nat /\ font.w % PerByte = 0
  BY DEF Printing
<1> QED
  BY <1>2, <1>3, GlyphDrawn

LEMMA SyllableRight ==
  ASSUME Printing, NEW x \in Nat, x + 2 * font.w < Width, NEW out, NEW hi, NEW lo
  PROVE  DrawSyllable(Pen(x, out), hi, lo)
           = Pen(x + 2 * font.w, Append(Append(out, Inked(x, <<"left", MakeFont(Code(hi, lo))>>, font)),
                                         Inked(x + font.w, <<"right", MakeFont(Code(hi, lo))>>, font)))
<1> DEFINE parts == MakeFont(Code(hi, lo))
           w == font.w
           out1 == Append(out, Inked(x, <<"left", parts>>, font))
           out2 == Append(out1, Inked(x + w, <<"right", parts>>, font))
<1>1. Inking /\ w \in Nat /\ w % PerByte = 0
  BY DEF Printing
<1>2. Width \in Nat
  BY <1>1, RowRight DEF Inking
<1>3. DrawSyllable(Pen(x, out), hi, lo)
        = DrawFont(DrawFont(Pen(x, out), <<"left", parts>>, font), <<"right", parts>>, font)
  BY DEF DrawSyllable, Code
<1> HIDE DEF parts
<1>4. x + w \in Nat /\ x + w < Width /\ (x + w) + w < Width /\ (x + w) + w = x + 2 * w
  BY <1>1, <1>2
<1>5. DrawFont(Pen(x, out), <<"left", parts>>, font) = Pen(x + w, out1)
  BY <1>1, <1>4, GlyphDrawn
<1> DEFINE next == x + w
<1>6. DrawFont(Pen(next, out1), <<"right", parts>>, font) = Pen(next + w, out2)
  <2> HIDE DEF out1
  <2>1. next \in Nat /\ next + w < Width
    BY <1>4
  <2> HIDE DEF next
  <2>2. DrawFont(Pen(next, out1), <<"right", parts>>, font) = Pen(next + font.w, Append(out1, Inked(next, <<"right", parts>>, font)))
    BY <1>1, <2>1, GlyphDrawn
  <2> QED
    BY <2>2 DEF next
<1> QED
  BY <1>3, <1>4, <1>5, <1>6 DEF parts

SetTo(pen, fb, lb, mb) == [pen EXCEPT !.f = fb, !.v.l = lb, !.v.m = mb]
Spelled(fa, la, ma, ha, od) == [f |-> fa, v |-> [l |-> la, m |-> ma, h |-> ha], out |-> od]

LEMMA PenSet ==
  ASSUME NEW fa, NEW la, NEW ma, NEW ha, NEW od, NEW fb, NEW lb, NEW mb
  PROVE  SetTo(Spelled(fa, la, ma, ha, od), fb, lb, mb) = Spelled(fb, lb, mb, ha, od)
<1> DEFINE pen == Spelled(fa, la, ma, ha, od)
           p1 == [pen EXCEPT !.f = fb]
           p2 == [p1 EXCEPT !.v.l = lb]
           p3 == [p2 EXCEPT !.v.m = mb]
<1>1. SetTo(pen, fb, lb, mb) = p3
  BY DEF SetTo
<1>2. p1 = [f |-> fb, v |-> [l |-> la, m |-> ma, h |-> ha], out |-> od]
  BY DEF Spelled
<1> HIDE DEF p1
<1>3. p2 = [f |-> fb, v |-> [l |-> lb, m |-> ma, h |-> ha], out |-> od]
  BY <1>2
<1> HIDE DEF p2
<1>4. p3 = [f |-> fb, v |-> [l |-> lb, m |-> mb, h |-> ha], out |-> od]
  BY <1>3
<1> HIDE DEF p3
<1> QED
  BY <1>1, <1>4 DEF Spelled

LEMMA EraseRight ==
  ASSUME Printing, NEW x \in Nat, x < Width, font.w <= x, NEW out
  PROVE  EraseBefore(Pen(x, out)) = Pen(x - font.w, Append(out, Inked(x - font.w, AsciiGlyph(Space), font)))
<1> DEFINE w == font.w
           next == x - w
           d == font.wb
           a == Addr(x)
           b == Addr(next)
           page2 == 2 * scr.page * (IF Row = 256 THEN 2 ELSE 1)
           word == (((a \div 256) % 64) * 256 + (a % 256) - d + 65536) % 65536
           new == Append(out, Inked(next, AsciiGlyph(Space), font))
<1>1. Inking /\ OnLine /\ w \in Nat /\ w % PerByte = 0 /\ d = w \div PerByte
  BY DEF Printing, Inking
<1>2. Width \in Nat /\ next \in Nat /\ next < Width /\ next + w = x
  <2>1. Width \in Nat
    BY <1>1, RowRight
  <2> QED
    BY <1>1, <2>1
<1>3. d \in Nat /\ a = b + d /\ b \in Nat /\ a \in Nat /\ a < 65536
  <2>1. d \in Nat /\ x \div PerByte = (next \div PerByte) + d /\ next \div PerByte \in Nat
    <3> HIDE DEF next
    <3>1. (next + w) \div PerByte = (next \div PerByte) + (w \div PerByte) /\ w \div PerByte \in Nat /\ next \div PerByte \in Nat
      BY <1>1, <1>2, Across
    <3> QED
      BY <1>1, <1>2, <3>1
  <2>2. Base \in Nat
    <3>1. PageLine(cur[2]) \in Nat
      BY <1>1 DEF OnLine
    <3>2. Row \in Nat
      BY <1>1, RowRight
    <3> QED
      BY <3>1, <3>2 DEF Base
  <2>3. a < 65536
    BY <1>1, SplitRight
  <2> DEFINE st == next \div PerByte
             t == x \div PerByte
  <2>4. a = Base + t /\ b = Base + st
    BY DEF Addr
  <2>5. t = st + d /\ st \in Nat
    BY <2>1
  <2> HIDE DEF st, t, a, b, d
  <2> QED
    BY <2>1, <2>2, <2>3, <2>4, <2>5
<1>4. /\ Split(b) = [l |-> ((a % 256) - d + 256) % 256, m |-> Split(a).m, h |-> Split(a).h]
      /\ (a % 256) - d \in Nat
  <2> DEFINE e == -d
  <2>1. e \in Int /\ b = a + e
    BY <1>3
  <2>2. /\ Split(b) = [l |-> ((a % 256) + e + 256) % 256, m |-> Split(a).m, h |-> Split(a).h]
        /\ (a % 256) + e \in Nat
    <3> HIDE DEF e, next
    <3>1. Addr(next) = Addr(x) + e
      BY <2>1
    <3> QED
      BY <1>1, <1>2, <2>1, <3>1, SameBlock
  <2> HIDE DEF a, b, d
  <2>3. (a % 256) + e = (a % 256) - d /\ ((a % 256) + e + 256) = ((a % 256) - d + 256)
    BY <1>3
  <2> HIDE DEF e
  <2> QED
    BY <2>2, <2>3
<1>5. Pen(x, out) = [f |-> a, v |-> [l |-> a % 256, m |-> (a \div 256) % 64, h |-> (a \div 16384) + page2], out |-> out]
  BY DEF Pen, Split
<1>6. Split(a).m = (a \div 256) % 64 /\ Split(a).h = (a \div 16384) + page2
  BY DEF Split
<1> HIDE DEF a, b, page2
<1>7. word % 256 = ((a % 256) - d + 256) % 256 /\ word \div 256 = (a \div 256) % 64 /\ (a - d + 65536) % 65536 = b
  <2> DEFINE q == (a \div 256) % 64
             z == (a % 256) - d
  <2>8. q \in Nat /\ q < 64
    BY <1>3
  <2>9. z \in Nat
    BY <1>4
  <2>10. a % 256 \in Nat /\ a % 256 < 256
    BY <1>3
  <2>11. z < 256
    BY <1>3, <2>10
  <2> HIDE DEF q, z
  <2>1. q \in Nat /\ q < 64 /\ z \in Nat /\ z < 256
    BY <2>8, <2>9, <2>11
  <2> USE DEF q, z
  <2>2. (q * 256 + (a % 256) - d + 65536) = q * 256 + z + 65536
    BY <1>3
  <2> HIDE DEF q, z
  <2>3. (q * 256 + z + 65536) % 65536 = q * 256 + z
    BY <2>1
  <2>4. word = q * 256 + z
    BY <2>2, <2>3 DEF q
  <2>5. (q * 256 + z) % 256 = z /\ (q * 256 + z) \div 256 = q /\ (z + 256) % 256 = z
    BY <2>1
  <2>6. (a % 256) - d + 256 = z + 256
    BY <1>3 DEF z
  <2>7. (a - d + 65536) % 65536 = b
    BY <1>3
  <2> HIDE DEF word
  <2> QED
    BY <2>4, <2>5, <2>6, <2>7 DEF q
<1> HIDE DEF word
<1>8. Split(b) = [l |-> word % 256, m |-> word \div 256, h |-> (a \div 16384) + page2]
  BY <1>4, <1>6, <1>7
<1> DEFINE p == Pen(x, out)
           back == StepBack(p)
           after == DrawAscii(back, Space, font)
<1>9. EraseBefore(p) = [after EXCEPT !.f = back.f, !.v.l = back.v.l, !.v.m = back.v.m]
  <2> HIDE DEF p
  <2> QED
    BY Zenon DEF EraseBefore
<1>17. p = [f |-> a, v |-> [l |-> a % 256, m |-> (a \div 256) % 64, h |-> (a \div 16384) + page2], out |-> out]
  BY <1>5
<1> HIDE DEF p
<1>10. back = Pen(next, out)
  <2> DEFINE W == (p.v.m * 256 + p.v.l - font.wb + 65536) % 65536
             f1 == (p.f - font.wb + 65536) % 65536
             l0 == a % 256
             m0 == (a \div 256) % 64
             h0 == (a \div 16384) + page2
  <2>1. back = [p EXCEPT !.f = f1, !.v.l = W % 256, !.v.m = W \div 256]
    BY DEF StepBack
  <2>2. W = word
    BY <1>17 DEF word
  <2>3. f1 = b
    BY <1>7, <1>17
  <2>4. Pen(next, out) = [f |-> b, v |-> Split(b), out |-> out]
    BY DEF Pen, b
  <2>5. p = Spelled(a, l0, m0, h0, out)
    BY <1>17 DEF Spelled
  <2> HIDE DEF f1, W, back
  <2> DEFINE l1 == W % 256
             m1 == W \div 256
  <2>6. back = SetTo(p, f1, l1, m1)
    BY <2>1 DEF SetTo
  <2>7. Split(b) = [l |-> l1, m |-> m1, h |-> h0]
    BY <1>8, <2>2
  <2> HIDE DEF l0, m0, h0, l1, m1
  <2>8. back = Spelled(f1, l1, m1, h0, out)
    BY <2>5, <2>6, PenSet
  <2> QED
    BY <2>3, <2>4, <2>7, <2>8 DEF Spelled
<1> HIDE DEF back
<1>11. after = Pen(x, new)
  <2>1. next + font.w < Width /\ next + font.w = x
    BY <1>2
  <2> HIDE DEF next
  <2> QED
    BY <1>2, <1>10, <2>1, AsciiRight
<1> HIDE DEF after
<1>12. back.f = b /\ back.v.l = word % 256 /\ back.v.m = word \div 256
  <2>1. back = [f |-> b, v |-> Split(b), out |-> out]
    BY <1>10 DEF Pen, b
  <2> QED
    BY <1>8, <2>1
<1>13. after = [f |-> a, v |-> [l |-> a % 256, m |-> (a \div 256) % 64, h |-> (a \div 16384) + page2], out |-> new]
  BY <1>11 DEF Pen, Split, a, page2
<1>14. EraseBefore(p) = [after EXCEPT !.f = b, !.v.l = word % 256, !.v.m = word \div 256]
  BY <1>9, <1>12
<1>15. [after EXCEPT !.f = b, !.v.l = word % 256, !.v.m = word \div 256] = [f |-> b, v |-> Split(b), out |-> new]
  <2> DEFINE l1 == word % 256
             m1 == word \div 256
             l0 == a % 256
             m0 == (a \div 256) % 64
             h0 == (a \div 16384) + page2
  <2>1. after = Spelled(a, l0, m0, h0, new)
    BY <1>13 DEF Spelled
  <2>2. Split(b) = [l |-> l1, m |-> m1, h |-> h0]
    BY <1>8
  <2> HIDE DEF l1, m1, l0, m0, h0, new
  <2>3. SetTo(after, b, l1, m1) = Spelled(b, l1, m1, h0, new)
    BY <2>1, PenSet
  <2>4. SetTo(after, b, l1, m1) = [f |-> b, v |-> Split(b), out |-> new]
    BY <2>2, <2>3 DEF Spelled
  <2> QED
    BY <2>4 DEF l1, m1, SetTo
<1>16. Pen(next, new) = [f |-> b, v |-> Split(b), out |-> new]
  BY DEF Pen, b
<1> QED
  BY <1>14, <1>15, <1>16 DEF p

(* Two bytes are those of a syllable.                                      *)
Means(hi, lo, ch) == kr # 0 /\ hi >= 128 /\ MakeFont(Code(hi, lo)) = Composed(ch)

(* What a character makes of the state between characters.                 *)
Between(x, out) == [p |-> Pen(x, out), lead |-> 0]

LEMMA InkRight ==
  ASSUME Printing, NEW x \in Nat, x < Width, NEW glyph
  PROVE  DrawnAs(Inked(x, glyph, font), Cell(x, glyph, FontColours))
<1>1. Inking
  BY DEF Printing
<1> QED
  BY <1>1, InkedRight DEF FontColours

LEMMA LetterRight ==
  ASSUME Printing, NEW look, look.x \in Nat, look.x < Width, NEW out, Matches(out, look.cells),
         NEW ch \in [code : 1..255], kr = 0 \/ ch.code < 128,
         LookAt(look, ch).x \in Nat, LookAt(look, ch).x < Width
  PROVE  \E new : /\ Matches(new, LookAt(look, ch).cells)
                  /\ PrintByte(Between(look.x, out), ch.code) = Between(LookAt(look, ch).x, new)
<1> DEFINE x == look.x
           w == font.w
           c == ch.code
           st == Between(x, out)
           after == LookAt(look, ch)
<1>1. ~IsSyllable(ch) /\ c \in Nat /\ c # 0
  BY DEF IsSyllable
<1>2. st.lead = 0 /\ st.p = Pen(x, out)
  BY DEF Between
<1>3. w \in Nat
  BY DEF Printing
<1> HIDE DEF c
<1>4. CASE kr # 0 /\ c = Backspace
  <2> DEFINE next == x - w
             d == Inked(next, AsciiGlyph(Space), font)
             e == Cell(next, AsciiGlyph(Space), FontColours)
  <2>1. after = [x |-> next, cells |-> Append(look.cells, e)]
    BY <1>1, <1>4 DEF LookAt, c
  <2>2. PrintByte(st, c) = [p |-> EraseBefore(st.p), lead |-> 0]
    <3>1. c < 128
      BY <1>4 DEF Backspace
    <3> HIDE DEF st
    <3> QED
      BY <1>1, <1>2, <1>4, <3>1 DEF PrintByte
  <2>3. after.x = next /\ after.cells = Append(look.cells, e)
    BY <2>1
  <2>4. next \in Nat /\ next < Width /\ w <= x
    BY <1>3, <2>3
  <2>5. EraseBefore(Pen(x, out)) = Pen(next, Append(out, d))
    BY <2>4, EraseRight
  <2>6. DrawnAs(d, e)
    BY <2>4, InkRight
  <2>7. Matches(Append(out, d), Append(look.cells, e))
    BY <2>6, MatchesMore
  <2>8. PrintByte(st, c) = Between(next, Append(out, d))
    BY <1>2, <2>2, <2>5 DEF Between
  <2> HIDE DEF next, d, e, after, st
  <2> QED
    BY <2>3, <2>7, <2>8 DEF after, st, c
<1>5. CASE ~(kr # 0 /\ c = Backspace)
  <2> DEFINE next == x + w
             d == Inked(x, AsciiGlyph(c), font)
             e == Cell(x, AsciiGlyph(c), FontColours)
  <2>1. after = [x |-> next, cells |-> Append(look.cells, e)]
    BY <1>1, <1>5 DEF LookAt, c
  <2>2. PrintByte(st, c) = [p |-> DrawAscii(st.p, c, font), lead |-> 0]
    <3>1. ~(kr # 0 /\ c >= 128)
      BY <1>1 DEF c
    <3> HIDE DEF st
    <3> QED
      BY <1>1, <1>2, <1>5, <3>1 DEF PrintByte
  <2>3. after.x = next /\ after.cells = Append(look.cells, e)
    BY <2>1
  <2>4. x + w < Width
    BY <2>3
  <2>5. DrawAscii(Pen(x, out), c, font) = Pen(next, Append(out, d))
    BY <2>4, AsciiRight
  <2>6. DrawnAs(d, e)
    BY InkRight
  <2>7. Matches(Append(out, d), Append(look.cells, e))
    BY <2>6, MatchesMore
  <2>8. PrintByte(st, c) = Between(next, Append(out, d))
    BY <1>2, <2>2, <2>5 DEF Between
  <2> HIDE DEF next, d, e, after, st
  <2> QED
    BY <2>3, <2>7, <2>8 DEF after, st, c
<1> QED
  BY <1>4, <1>5

LEMMA HangulRight ==
  ASSUME Printing, NEW look, look.x \in Nat, look.x < Width, NEW out, Matches(out, look.cells),
         NEW ch \in Syllables, NEW hi \in Nat, NEW lo \in Nat, Means(hi, lo, ch),
         LookAt(look, ch).x \in Nat, LookAt(look, ch).x < Width
  PROVE  \E new : /\ Matches(new, LookAt(look, ch).cells)
                  /\ PrintByte(PrintByte(Between(look.x, out), hi), lo) = Between(LookAt(look, ch).x, new)
<1> DEFINE x == look.x
           w == font.w
           st == Between(x, out)
           after == LookAt(look, ch)
           parts == Composed(ch)
           next == x + 2 * w
           d1 == Inked(x, <<"left", parts>>, font)
           d2 == Inked(x + w, <<"right", parts>>, font)
           e1 == Cell(x, <<"left", parts>>, FontColours)
           e2 == Cell(x + w, <<"right", parts>>, FontColours)
           new == Append(Append(out, d1), d2)
<1>0. kr # 0 /\ hi >= 128 /\ MakeFont(Code(hi, lo)) = Composed(ch)
  BY DEF Means
<1>1. IsSyllable(ch)
  BY DEF IsSyllable, Syllables
<1>2. w \in Nat
  BY DEF Printing
<1>3. after = [x |-> next, cells |-> look.cells \o <<e1, e2>>]
  BY <1>1 DEF LookAt
<1>4. after.x = next /\ after.cells = look.cells \o <<e1, e2>>
  BY <1>3
<1>5. next < Width /\ x + w < Width /\ x + w \in Nat
  <2>1. Width \in Nat
    BY RowRight DEF Printing, Inking
  <2> QED
    BY <1>2, <1>4, <2>1
<1>6. look.cells \o <<e1, e2>> = Append(Append(look.cells, e1), e2)
  <2>1. IsSeq(look.cells)
    BY DEF Matches
  <2> DEFINE sq == look.cells
  <2> HIDE DEF e1, e2, sq
  <2>2. sq \o <<e1, e2>> = Append(Append(sq, e1), e2)
    BY <2>1, PairIs, SMTT(30) DEF sq
  <2> QED
    BY <2>2 DEF sq
<1>7. DrawnAs(d1, e1) /\ DrawnAs(d2, e2)
  BY <1>5, InkRight
<1>8. Matches(new, Append(Append(look.cells, e1), e2))
  <2>1. Matches(Append(out, d1), Append(look.cells, e1))
    BY <1>7, MatchesMore
  <2> HIDE DEF d1, d2, e1, e2
  <2> QED
    BY <1>7, <2>1, MatchesMore
<1>9. st.lead = 0 /\ st.p = Pen(x, out)
  BY DEF Between
<1>10. DrawSyllable(Pen(x, out), hi, lo) = Pen(next, new)
  BY <1>0, <1>5, SyllableRight
<1>11. PrintByte(st, hi) = [p |-> Pen(x, out), lead |-> hi]
  <2> HIDE DEF st
  <2> QED
    BY <1>0, <1>9 DEF PrintByte
<1> DEFINE t == PrintByte(st, hi)
<1>12. t.lead = hi /\ hi # 0 /\ t.p = Pen(x, out)
  BY <1>0, <1>11
<1>13. PrintByte(t, lo) = [p |-> DrawSyllable(t.p, t.lead, lo), lead |-> 0]
  <2> HIDE DEF t
  <2> QED
    BY <1>12 DEF PrintByte
<1> HIDE DEF t, new, next
<1>14. PrintByte(t, lo) = Between(next, new)
  BY <1>10, <1>12, <1>13 DEF Between
<1> HIDE DEF after, st, e1, e2
<1> QED
  BY <1>4, <1>6, <1>8, <1>14 DEF after, st, t

(***************************************************************************)
(* Strings                                                                 *)
(***************************************************************************)
Untouched == [p |-> Here, lead |-> 0]

Read(F, bytes, n) == F = [k \in 0..n |-> IF k = 0 THEN Untouched ELSE PrintByte(F[k - 1], bytes[k])]

LEMMA ReadExists ==
  ASSUME NEW bytes, NEW n \in Nat
  PROVE  \E F : Read(F, bytes, n)
<1> DEFINE P == {m \in Nat : \E F : Read(F, bytes, m)}
<1>1. 0 \in P
  <2> DEFINE F == [k \in 0..0 |-> Untouched]
  <2>1. F = [k \in 0..0 |-> IF k = 0 THEN Untouched ELSE PrintByte(F[k - 1], bytes[k])]
    <3>1. \A k \in 0..0 : k = 0
      OBVIOUS
    <3> QED
      BY <3>1, Zenon
  <2> HIDE DEF F
  <2>2. Read(F, bytes, 0)
    BY <2>1, Zenon DEF Read
  <2> QED
    BY <2>2
<1>2. ASSUME NEW m \in Nat, m \in P PROVE m + 1 \in P
  <2>1. PICK F : Read(F, bytes, m)
    BY <1>2
  <2>2. F = [k \in 0..m |-> IF k = 0 THEN Untouched ELSE PrintByte(F[k - 1], bytes[k])]
    BY <2>1, Zenon DEF Read
  <2> DEFINE G == [k \in 0..m + 1 |-> IF k = m + 1 THEN PrintByte(F[k - 1], bytes[k]) ELSE F[k]]
  <2>3. \A k \in 0..m + 1 : G[k] = IF k = 0 THEN Untouched ELSE PrintByte(G[k - 1], bytes[k])
    <3> SUFFICES ASSUME NEW k \in 0..m + 1 PROVE G[k] = IF k = 0 THEN Untouched ELSE PrintByte(G[k - 1], bytes[k])
      OBVIOUS
    <3>1. k = 0 \/ (k - 1 \in 0..m + 1 /\ k - 1 # m + 1)
      OBVIOUS
    <3>2. CASE k = m + 1
      <4>1. G[k] = PrintByte(F[k - 1], bytes[k]) /\ k # 0
        <5>1. k # 0
          BY <3>2
        <5>2. G[k] = PrintByte(F[k - 1], bytes[k])
          BY <3>2, Zenon
        <5> QED
          BY <5>1, <5>2
      <4>2. G[k - 1] = F[k - 1]
        BY <3>1, <4>1, Zenon
      <4> QED
        BY <4>1, <4>2, Zenon
    <3>3. CASE k # m + 1
      <4>1. k \in 0..m
        BY <3>3
      <4>2. G[k] = F[k] /\ F[k] = IF k = 0 THEN Untouched ELSE PrintByte(F[k - 1], bytes[k])
        BY <2>2, <3>3, <4>1, Zenon
      <4>3. k = 0 \/ G[k - 1] = F[k - 1]
        BY <3>1, Zenon
      <4> QED
        BY <4>2, <4>3, Zenon
    <3> QED
      BY <3>2, <3>3
  <2>4. G = [k \in 0..m + 1 |-> G[k]]
    BY Zenon
  <2> HIDE DEF G
  <2>5. Read(G, bytes, m + 1)
    BY <2>3, <2>4, Zenon DEF Read
  <2> QED
    BY <2>5
<1> HIDE DEF P
<1>3. n \in P
  BY <1>1, <1>2, AllNumbers
<1> QED
  BY <1>3 DEF P

LEMMA PrintedToIs ==
  ASSUME NEW bytes, Len(bytes) \in Nat
  PROVE  Read(PrintedTo(bytes), bytes, Len(bytes))
<1> DEFINE F == CHOOSE g : g = [k \in 0..Len(bytes) |-> IF k = 0 THEN Untouched ELSE PrintByte(g[k - 1], bytes[k])]
<1>1. PrintedTo(bytes) = F
  BY Zenon DEF PrintedTo, Untouched
<1>2. PICK W : W = [k \in 0..Len(bytes) |-> IF k = 0 THEN Untouched ELSE PrintByte(W[k - 1], bytes[k])]
  <2>1. \E W : Read(W, bytes, Len(bytes))
    BY ReadExists
  <2> QED
    BY <2>1, Zenon DEF Read
<1>3. F = [k \in 0..Len(bytes) |-> IF k = 0 THEN Untouched ELSE PrintByte(F[k - 1], bytes[k])]
  BY <1>2, Zenon
<1> HIDE DEF F
<1>4. Read(F, bytes, Len(bytes))
  BY <1>3, Zenon DEF Read
<1> QED
  BY <1>1, <1>4

Blank == [x |-> cur[1], cells |-> <<>>]

Looked(F, text, n) == F = [k \in 0..n |-> IF k = 0 THEN Blank ELSE LookAt(F[k - 1], text[k])]

LEMMA LookedExists ==
  ASSUME NEW text, NEW n \in Nat
  PROVE  \E F : Looked(F, text, n)
<1> DEFINE P == {m \in Nat : \E F : Looked(F, text, m)}
<1>1. 0 \in P
  <2> DEFINE F == [k \in 0..0 |-> Blank]
  <2>1. F = [k \in 0..0 |-> IF k = 0 THEN Blank ELSE LookAt(F[k - 1], text[k])]
    <3>1. \A k \in 0..0 : k = 0
      OBVIOUS
    <3> QED
      BY <3>1, Zenon
  <2> HIDE DEF F
  <2>2. Looked(F, text, 0)
    BY <2>1, Zenon DEF Looked
  <2> QED
    BY <2>2
<1>2. ASSUME NEW m \in Nat, m \in P PROVE m + 1 \in P
  <2>1. PICK F : Looked(F, text, m)
    BY <1>2
  <2>2. F = [k \in 0..m |-> IF k = 0 THEN Blank ELSE LookAt(F[k - 1], text[k])]
    BY <2>1, Zenon DEF Looked
  <2> DEFINE G == [k \in 0..m + 1 |-> IF k = m + 1 THEN LookAt(F[k - 1], text[k]) ELSE F[k]]
  <2>3. \A k \in 0..m + 1 : G[k] = IF k = 0 THEN Blank ELSE LookAt(G[k - 1], text[k])
    <3> SUFFICES ASSUME NEW k \in 0..m + 1 PROVE G[k] = IF k = 0 THEN Blank ELSE LookAt(G[k - 1], text[k])
      OBVIOUS
    <3>1. k = 0 \/ (k - 1 \in 0..m + 1 /\ k - 1 # m + 1)
      OBVIOUS
    <3>2. CASE k = m + 1
      <4>1. G[k] = LookAt(F[k - 1], text[k]) /\ k # 0
        <5>1. k # 0
          BY <3>2
        <5>2. G[k] = LookAt(F[k - 1], text[k])
          BY <3>2, Zenon
        <5> QED
          BY <5>1, <5>2
      <4>2. G[k - 1] = F[k - 1]
        BY <3>1, <4>1, Zenon
      <4> QED
        BY <4>1, <4>2, Zenon
    <3>3. CASE k # m + 1
      <4>1. k \in 0..m
        BY <3>3
      <4>2. G[k] = F[k] /\ F[k] = IF k = 0 THEN Blank ELSE LookAt(F[k - 1], text[k])
        BY <2>2, <3>3, <4>1, Zenon
      <4>3. k = 0 \/ G[k - 1] = F[k - 1]
        BY <3>1, Zenon
      <4> QED
        BY <4>2, <4>3, Zenon
    <3> QED
      BY <3>2, <3>3
  <2>4. G = [k \in 0..m + 1 |-> G[k]]
    BY Zenon
  <2> HIDE DEF G
  <2>5. Looked(G, text, m + 1)
    BY <2>3, <2>4, Zenon DEF Looked
  <2> QED
    BY <2>5
<1> HIDE DEF P
<1>3. n \in P
  BY <1>1, <1>2, AllNumbers
<1> QED
  BY <1>3 DEF P

LEMMA LookToIs ==
  ASSUME NEW text, Len(text) \in Nat
  PROVE  Looked(LookTo(text), text, Len(text))
<1> DEFINE F == CHOOSE g : g = [k \in 0..Len(text) |-> IF k = 0 THEN Blank ELSE LookAt(g[k - 1], text[k])]
<1>1. LookTo(text) = F
  BY Zenon DEF LookTo, Blank
<1>2. PICK W : W = [k \in 0..Len(text) |-> IF k = 0 THEN Blank ELSE LookAt(W[k - 1], text[k])]
  <2>1. \E W : Looked(W, text, Len(text))
    BY LookedExists
  <2> QED
    BY <2>1, Zenon DEF Looked
<1>3. F = [k \in 0..Len(text) |-> IF k = 0 THEN Blank ELSE LookAt(F[k - 1], text[k])]
  BY <1>2, Zenon
<1> HIDE DEF F
<1>4. Looked(F, text, Len(text))
  BY <1>3, Zenon DEF Looked
<1> QED
  BY <1>1, <1>4


(* The string, character by character.                                     *)
Spells(E, text) ==
  LET n == Len(text)
  IN /\ E[0] = <<>> /\ E[n] = Encode(text)
     /\ \A k \in 0..n : E[k] \in Seq(Nat)
     /\ \A k \in 1..n : E[k] = E[k - 1] \o Bytes(text[k])

LEMMA BytesAre ==
  ASSUME NEW ch \in Characters, CanPrint(ch)
  PROVE  Bytes(ch) \in Seq(Nat)
<1>1. CASE IsSyllable(ch)
  <2>1. PICK hi, lo \in Nat : Bytes(ch) = <<hi, lo>>
    BY <1>1, BytesRight
  <2> QED
    BY <2>1
<1>2. CASE ~IsSyllable(ch)
  <2>1. Bytes(ch) = <<ch.code>> /\ ch.code \in Nat
    BY <1>2, BytesRight
  <2> QED
    BY <2>1
<1> QED
  BY <1>1, <1>2

LEMMA EncodeSpells ==
  ASSUME NEW text \in Seq(Characters), \A k \in 1..Len(text) : CanPrint(text[k])
  PROVE  \E E : Spells(E, text)
<1> DEFINE n == Len(text)
           S == [k \in DOMAIN text |-> Bytes(text[k])]
<1>1. n \in Nat /\ S = [k \in 1..n |-> Bytes(text[k])] /\ \A k \in 1..n : text[k] \in Characters /\ CanPrint(text[k])
  OBVIOUS
<1>2. \A k \in 1..n : S[k] = Bytes(text[k]) /\ S[k] \in Seq(Nat)
  BY <1>1, BytesAre
<1>3. Len(S) = n
  BY <1>1
<1>4. Encode(text) = FlattenSeq(S)
  BY Zenon DEF Encode
<1> HIDE DEF S
<1>5. CASE n = 0
  <2> DEFINE E == [k \in 0..0 |-> <<>>]
  <2>1. Encode(text) = S
    BY <1>3, <1>4, <1>5 DEF FlattenSeq
  <2>2. S = <<>>
    BY <1>1, <1>5 DEF S
  <2>3. E[0] = <<>> /\ <<>> \in Seq(Nat)
    OBVIOUS
  <2>4. \A k \in 0..n : k = 0
    BY <1>5
  <2>5. \A k \in 1..n : FALSE
    BY <1>5
  <2> HIDE DEF E
  <2>6. Spells(E, text)
    BY <1>5, <2>1, <2>2, <2>3, <2>4, <2>5 DEF Spells
  <2> QED
    BY <2>6
<1>6. CASE n # 0
  <2>1. PICK F : Folded(F, S, n) /\ FlattenSeq(S) = F[n]
    BY <1>1, <1>3, <1>6, FlattenIs
  <2>2. \A k \in 1..n : F[k] = IF k = 1 THEN S[k] ELSE F[k - 1] \o S[k]
    BY <2>1, Zenon DEF Folded
  <2> DEFINE E == [k \in 0..n |-> IF k = 0 THEN <<>> ELSE F[k]]
  <2>3. E[0] = <<>> /\ \A k \in 1..n : E[k] = F[k]
    BY <1>1
  <2> HIDE DEF E
  <2>4. \A k \in 1..n : E[k] = E[k - 1] \o S[k]
    <3> SUFFICES ASSUME NEW k \in 1..n PROVE E[k] = E[k - 1] \o S[k]
      OBVIOUS
    <3>1. CASE k = 1
      <4>1. E[k] = S[k] /\ E[k - 1] = <<>>
        BY <2>2, <2>3, <3>1
      <4>2. S[k] \in Seq(Nat)
        BY <1>2
      <4>3. <<>> \o S[k] = S[k]
        BY <4>2
      <4> QED
        BY <4>1, <4>3
    <3>2. CASE k # 1
      <4>1. k - 1 \in 1..n
        BY <1>1, <3>2
      <4>2. F[k] = F[k - 1] \o S[k]
        BY <2>2, <3>2, Zenon
      <4> QED
        BY <2>3, <4>1, <4>2
    <3> QED
      BY <3>1, <3>2
  <2> DEFINE P == {j \in Nat : j <= n => E[j] \in Seq(Nat)}
  <2>5. 0 \in P
    <3>1. <<>> \in Seq(Nat)
      OBVIOUS
    <3> QED
      BY <2>3, <3>1
  <2>6. ASSUME NEW j \in Nat, j \in P PROVE j + 1 \in P
    <3> SUFFICES ASSUME j + 1 <= n PROVE E[j + 1] \in Seq(Nat)
      OBVIOUS
    <3>1. j + 1 \in 1..n /\ (j + 1) - 1 = j /\ E[j] \in Seq(Nat)
      BY <1>1, <2>6
    <3>2. E[j + 1] = E[j] \o S[j + 1] /\ S[j + 1] \in Seq(Nat)
      BY <1>2, <2>4, <3>1
    <3> QED
      BY <3>1, <3>2
  <2> HIDE DEF P
  <2>7. \A k \in 0..n : E[k] \in Seq(Nat)
    <3> SUFFICES ASSUME NEW k \in 0..n PROVE E[k] \in Seq(Nat)
      OBVIOUS
    <3>1. k \in Nat
      BY <1>1
    <3>2. k \in P
      BY <2>5, <2>6, <3>1, AllNumbers
    <3> QED
      BY <1>1, <3>2 DEF P
  <2>8. E[n] = Encode(text)
    <3>1. n \in 1..n
      BY <1>1, <1>6
    <3> QED
      BY <1>4, <2>1, <2>3, <3>1
  <2>9. \A k \in 1..n : E[k] = E[k - 1] \o Bytes(text[k])
    BY <1>2, <2>4
  <2> HIDE DEF n
  <2>10. Spells(E, text)
    BY <2>3, <2>7, <2>8, <2>9, Zenon DEF Spells, n
  <2> QED
    BY <2>10
<1> QED
  BY <1>5, <1>6

(* What has been spelled is there in the whole string.                     *)
LEMMA SpelledStays ==
  ASSUME NEW text, Len(text) \in Nat, NEW E, Spells(E, text), NEW k \in 0..Len(text),
         \A j \in 1..Len(text) : Bytes(text[j]) \in Seq(Nat)
  PROVE  /\ Len(E[k]) <= Len(Encode(text)) /\ \A i \in 1..Len(E[k]) : Encode(text)[i] = E[k][i]
<1> DEFINE n == Len(text)
           Stays(j) == Len(E[k]) <= Len(E[j]) /\ \A i \in 1..Len(E[k]) : E[j][i] = E[k][i]
           P == {d \in Nat : k + d <= n => Stays(k + d)}
<1>1. /\ E[n] = Encode(text)
      /\ \A j \in 0..n : E[j] \in Seq(Nat)
      /\ \A j \in 1..n : E[j] = E[j - 1] \o Bytes(text[j])
  BY Zenon DEF Spells
<1> HIDE DEF n
<1>2. n \in Nat /\ k \in Nat /\ k <= n
  BY DEF n
<1>3. 0 \in P
  <2>1. E[k] \in Seq(Nat)
    BY <1>1, <1>2
  <2>2. k + 0 = k /\ Len(E[k]) \in Nat
    BY <1>2, <2>1
  <2> QED
    BY <2>2
<1>4. ASSUME NEW d \in Nat, d \in P PROVE d + 1 \in P
  <2> DEFINE a == E[k + d]
             b == E[k + (d + 1)]
             c == Bytes(text[k + (d + 1)])
             m == Len(E[k])
  <2> SUFFICES ASSUME k + (d + 1) <= n PROVE Stays(k + (d + 1))
    <3> HIDE DEF Stays
    <3> QED
      OBVIOUS
  <2>1. k + d \in 0..n /\ k + (d + 1) \in 1..n /\ k + (d + 1) - 1 = k + d /\ k \in 0..n
    BY <1>2
  <2>2. b = a \o c /\ a \in Seq(Nat) /\ c \in Seq(Nat) /\ E[k] \in Seq(Nat)
    <3> DEFINE j == k + (d + 1)
    <3>1. \A i \in 1..n : Bytes(text[i]) \in Seq(Nat)
      BY DEF n
    <3>2. j \in 1..n /\ j \in 0..n /\ j - 1 = k + d
      BY <1>2, <2>1
    <3> HIDE DEF j
    <3>3. E[j] = E[j - 1] \o Bytes(text[j]) /\ Bytes(text[j]) \in Seq(Nat)
      BY <1>1, <3>1, <3>2
    <3>4. E[j - 1] = a
      BY <3>2
    <3>5. a \in Seq(Nat) /\ E[k] \in Seq(Nat)
      BY <1>1, <2>1
    <3> QED
      BY <3>3, <3>4, <3>5 DEF j
  <2>3. m <= Len(a) /\ \A i \in 1..m : a[i] = E[k][i]
    <3>1. Stays(k + d)
      <4> HIDE DEF Stays
      <4> QED
        BY <1>2, <1>4, <2>1
    <3> QED
      BY <3>1
  <2>4. m \in Nat
    BY <2>2
  <2> HIDE DEF a, b, c, m
  <2>5. Len(b) = Len(a) + Len(c) /\ Len(a) \in Nat /\ Len(c) \in Nat /\ \A i \in 1..Len(a) : b[i] = a[i]
    BY <2>2
  <2>6. \A i \in 1..m : i \in 1..Len(a)
    BY <2>3, <2>4, <2>5
  <2>7. m <= Len(b) /\ \A i \in 1..m : b[i] = E[k][i]
    BY <2>3, <2>4, <2>5, <2>6
  <2> QED
    BY <2>7 DEF b, m
<1> HIDE DEF P
<1>5. n - k \in P
  <2>1. n - k \in Nat
    BY <1>2
  <2> QED
    BY <1>3, <1>4, <2>1, AllNumbers
<1>6. k + (n - k) = n
  BY <1>2
<1>7. Len(E[k]) <= Len(E[n]) /\ \A i \in 1..Len(E[k]) : E[n][i] = E[k][i]
  <2>1. Stays(n)
    <3> HIDE DEF Stays
    <3> QED
      BY <1>2, <1>5, <1>6 DEF P
  <2> QED
    BY <2>1
<1> QED
  BY <1>1, <1>7

(* A text is drawn as it should look, whatever its characters.             *)
LEMMA PrintedRight ==
  ASSUME Printing, NEW text \in Seq(Characters), \A k \in 1..Len(text) : CanPrint(text[k]), Fits(text),
         cur[1] \in Nat, cur[1] < Width, faddr = Addr(cur[1]), vdp = Split(Addr(cur[1]))
  PROVE  /\ Look(text).x \in Nat /\ Look(text).x < Width
         /\ \E out : Printed(Encode(text)) = Pen(Look(text).x, out) /\ Matches(out, Look(text).cells)
<1> DEFINE n == Len(text)
           bytes == Encode(text)
           A == PrintedTo(bytes)
           L == LookTo(text)
<1>1. n \in Nat /\ \A k \in 1..n : text[k] \in Characters /\ CanPrint(text[k])
  OBVIOUS
<1>2. PICK E : Spells(E, text)
  BY EncodeSpells
<1>3. /\ E[0] = <<>> /\ E[n] = bytes
      /\ \A k \in 0..n : E[k] \in Seq(Nat)
      /\ \A k \in 1..n : E[k] = E[k - 1] \o Bytes(text[k])
  BY <1>2, Zenon DEF Spells
<1>4. \A k \in 1..n : Bytes(text[k]) \in Seq(Nat)
  BY <1>1, BytesAre
<1>5. bytes \in Seq(Nat) /\ Len(bytes) \in Nat
  <2>1. n \in 0..n
    BY <1>1
  <2>2. bytes \in Seq(Nat)
    BY <1>3, <2>1
  <2> QED
    BY <2>2
<1>6. A[0] = Untouched /\ \A k \in 1..Len(bytes) : A[k] = PrintByte(A[k - 1], bytes[k])
  <2>1. Read(A, bytes, Len(bytes))
    BY <1>5, PrintedToIs
  <2> HIDE DEF A, bytes
  <2>2. \A k \in 0..Len(bytes) : A[k] = IF k = 0 THEN Untouched ELSE PrintByte(A[k - 1], bytes[k])
    BY <2>1, Zenon DEF Read
  <2> QED
    BY <1>5, <2>2
<1>7. L[0] = Blank /\ \A k \in 1..n : L[k] = LookAt(L[k - 1], text[k])
  <2>1. Looked(L, text, n)
    BY <1>1, LookToIs
  <2> HIDE DEF L, n
  <2>2. \A k \in 0..n : L[k] = IF k = 0 THEN Blank ELSE LookAt(L[k - 1], text[k])
    BY <2>1, Zenon DEF Looked
  <2> QED
    BY <1>1, <2>2
<1>8. \A k \in 1..n : L[k].x \in Nat /\ L[k].x < Width
  <2>1. Width \in Nat
    BY RowRight DEF Printing, Inking
  <2>2. \A k \in 1..n : L[k].x \in 0..Width - 1
    BY Zenon DEF Fits
  <2> HIDE DEF L, n
  <2> QED
    BY <2>1, <2>2
<1>9. ASSUME NEW k \in 1..n
      PROVE  /\ Len(E[k - 1]) \in Nat /\ Len(E[k]) = Len(E[k - 1]) + Len(Bytes(text[k])) /\ Len(E[k]) <= Len(bytes)
             /\ \A i \in 1..Len(Bytes(text[k])) : bytes[Len(E[k - 1]) + i] = Bytes(text[k])[i]
  <2> DEFINE b == Bytes(text[k])
             m == Len(E[k - 1])
  <2>1. k - 1 \in 0..n /\ k \in 0..n
    BY <1>1
  <2>2. E[k - 1] \in Seq(Nat) /\ E[k] = E[k - 1] \o b /\ b \in Seq(Nat)
    BY <1>3, <1>4, <2>1
  <2>3. Len(E[k]) <= Len(bytes) /\ \A i \in 1..Len(E[k]) : bytes[i] = E[k][i]
    BY <1>1, <1>2, <1>4, <2>1, SpelledStays
  <2> HIDE DEF b, bytes, n
  <2>4. m \in Nat /\ Len(E[k]) = m + Len(b) /\ Len(b) \in Nat /\ \A i \in 1..Len(b) : E[k][m + i] = b[i]
    BY <2>2, SMTT(30)
  <2> HIDE DEF m
  <2>5. \A i \in 1..Len(b) : m + i \in 1..Len(E[k])
    BY <2>4
  <2>6. \A i \in 1..Len(b) : bytes[m + i] = b[i]
    BY <2>3, <2>4, <2>5
  <2> QED
    BY <2>3, <2>4, <2>6 DEF m, b
<1> DEFINE Reached(k) == /\ L[k].x \in Nat /\ L[k].x < Width
                      /\ \E out : Matches(out, L[k].cells) /\ A[Len(E[k])] = Between(L[k].x, out)
           P == {k \in Nat : k <= n => Reached(k)}
<1> HIDE DEF n, A, L, bytes
<1>10. 0 \in P
  <2>1. L[0].x = cur[1] /\ L[0].cells = <<>>
    BY <1>7 DEF Blank
  <2>2. Len(E[0]) = 0
    BY <1>3
  <2>3. A[0] = Between(cur[1], <<>>)
    BY <1>6 DEF Untouched, Here, Between, Pen
  <2>4. Reached(0)
    <3>1. A[Len(E[0])] = Between(L[0].x, <<>>)
      BY <2>1, <2>2, <2>3
    <3>2. Matches(<<>>, L[0].cells)
      BY <2>1, MatchesNone
    <3> QED
      BY <2>1, <3>1, <3>2
  <2> HIDE DEF Reached
  <2> QED
    BY <2>4
<1>11. ASSUME NEW j \in Nat, j \in P PROVE j + 1 \in P
  <2> SUFFICES ASSUME j + 1 <= n PROVE Reached(j + 1)
    OBVIOUS
  <2> DEFINE k == j + 1
             ch == text[k]
             look == L[j]
             m == Len(E[j])
  <2>1. k \in 1..n /\ k - 1 = j
    BY <1>1
  <2>2. look.x \in Nat /\ look.x < Width
    BY <1>1, <1>11
  <2>3. PICK out : Matches(out, look.cells) /\ A[m] = Between(look.x, out)
    BY <1>1, <1>11
  <2>4. L[k] = LookAt(look, ch) /\ L[k].x \in Nat /\ L[k].x < Width
    BY <1>7, <1>8, <2>1
  <2>5. /\ m \in Nat /\ Len(E[k]) = m + Len(Bytes(ch)) /\ Len(E[k]) <= Len(bytes)
        /\ \A i \in 1..Len(Bytes(ch)) : bytes[m + i] = Bytes(ch)[i]
    BY <1>9, <2>1
  <2>6. ch \in Characters /\ CanPrint(ch)
    BY <1>1, <2>1
  <2> HIDE DEF k, ch, look, m
  <2>7. CASE ~IsSyllable(ch)
    <3> DEFINE c == ch.code
    <3>1. Bytes(ch) = <<c>> /\ ch \in [code : 1..255] /\ (kr = 0 \/ c < 128)
      BY <2>6, <2>7, BytesRight, SyllableIs DEF CanPrint
    <3>2. Len(E[k]) = m + 1 /\ m + 1 \in 1..Len(bytes) /\ bytes[m + 1] = c
      <4>1. Len(Bytes(ch)) = 1 /\ Bytes(ch)[1] = c
        BY <3>1
      <4> QED
        BY <1>5, <2>5, <4>1
    <3>3. PICK new : /\ Matches(new, LookAt(look, ch).cells)
                     /\ PrintByte(Between(look.x, out), c) = Between(LookAt(look, ch).x, new)
      BY <2>2, <2>3, <2>4, <3>1, LetterRight
    <3>4. A[m + 1] = PrintByte(A[m], c)
      <4>1. (m + 1) - 1 = m
        BY <2>5
      <4> QED
        BY <1>6, <3>2, <4>1
    <3>5. A[Len(E[k])] = Between(L[k].x, new) /\ Matches(new, L[k].cells)
      BY <2>3, <2>4, <3>2, <3>3, <3>4
    <3>6. Reached(k)
      BY <2>4, <3>5
    <3> QED
      BY <3>6 DEF k
  <2>8. CASE IsSyllable(ch)
    <3>1. PICK hi \in Nat, lo \in Nat :
            Bytes(ch) = <<hi, lo>> /\ hi >= 128 /\ MakeFont(Code(hi, lo)) = Composed(ch) /\ kr # 0
      BY <2>6, <2>8, BytesRight
    <3>2. ch \in Syllables
      BY <2>6, <2>8, SyllableIs
    <3>3. Len(E[k]) = m + 2 /\ m + 1 \in 1..Len(bytes) /\ m + 2 \in 1..Len(bytes) /\ bytes[m + 1] = hi /\ bytes[m + 2] = lo
      <4>1. Len(Bytes(ch)) = 2 /\ Bytes(ch)[1] = hi /\ Bytes(ch)[2] = lo
        BY <3>1
      <4> QED
        BY <1>5, <2>5, <4>1
    <3>4. PICK new : /\ Matches(new, LookAt(look, ch).cells)
                     /\ PrintByte(PrintByte(Between(look.x, out), hi), lo) = Between(LookAt(look, ch).x, new)
      <4>1. LookAt(look, ch).x \in Nat /\ LookAt(look, ch).x < Width
        BY <2>4
      <4>2. Means(hi, lo, ch)
        BY <3>1 DEF Means
      <4> QED
        BY <2>2, <2>3, <3>2, <4>1, <4>2, HangulRight, SMTT(60)
    <3>5. A[m + 1] = PrintByte(A[m], hi) /\ A[m + 2] = PrintByte(A[m + 1], lo)
      <4>1. (m + 1) - 1 = m /\ (m + 2) - 1 = m + 1
        BY <2>5
      <4> QED
        BY <1>6, <3>3, <4>1
    <3>6. A[Len(E[k])] = Between(L[k].x, new) /\ Matches(new, L[k].cells)
      BY <2>3, <2>4, <3>3, <3>4, <3>5
    <3>7. Reached(k)
      BY <2>4, <3>6
    <3> QED
      BY <3>7 DEF k
  <2> QED
    BY <2>7, <2>8
<1> HIDE DEF P
<1>12. n \in P
  BY <1>1, <1>10, <1>11, AllNumbers
<1> HIDE DEF Reached
<1>13. Reached(n)
  BY <1>1, <1>12 DEF P
<1>14. Printed(bytes) = A[Len(bytes)].p /\ Look(text) = L[n]
  BY Zenon DEF Printed, Look, A, L, n
<1>15. PICK out : Matches(out, L[n].cells) /\ A[Len(bytes)] = Between(L[n].x, out)
  BY <1>3, <1>13 DEF Reached
<1>16. A[Len(bytes)].p = Pen(L[n].x, out)
  BY <1>15 DEF Between
<1>17. L[n].x \in Nat /\ L[n].x < Width
  BY <1>13 DEF Reached
<1> QED
  BY <1>14, <1>15, <1>16, <1>17 DEF bytes

(***************************************************************************)
(* The invariant                                                           *)
(***************************************************************************)
ScreenSet ==
  /\ scr \in [mode : {1, 3, 6, 7, 8, 9}, il : BOOLEAN, page : 0..3]
  /\ func = DrawFunc(scr.mode, scr.il)

Fonts == [w : Nat, h : Nat, wb : Nat, rows : {8, 16}, columns : Nat, fg : Nat, bg : Nat]

FontSet ==
  /\ font \in Fonts /\ font.rows = IF font.h > 8 THEN 16 ELSE 8
  /\ sized \in BOOLEAN /\ (sized => font.wb = font.w \div PerByte)

(* On a bitmap screen the two positions are that of the next character.    *)
At(x) == x < Width /\ PageLine(cur[2]) < 256 /\ faddr = Addr(x) /\ vdp = Split(Addr(x))
CursorSet == cur # <<>> => cur \in Nat \X Nat /\ (~func.text => At(cur[1]))

DrawnRight ==
  IF func.text
  THEN drawn = [n \in DOMAIN wanted |-> [addr |-> Full(vdp) + n - 1, code |-> wanted[n].code]]
  ELSE Matches(drawn, wanted)

GfnInv == ScreenSet /\ FontSet /\ CursorSet /\ DrawnRight

LEMMA ScreenIs ==
  ASSUME ScreenSet
  PROVE  /\ func.text = Text(scr.mode) /\ scr.mode \in {1, 3, 6, 7, 8, 9} /\ scr.page \in 0..3
         /\ ~func.text => scr.mode \in 6..9 /\ func = [text |-> FALSE, draw |-> <<scr.mode, scr.il>>]
<1> DEFINE m == scr.mode
           i == scr.il
<1>1. m \in {1, 3, 6, 7, 8, 9} /\ scr.page \in 0..3
  BY DEF ScreenSet
<1>2. func = [text |-> Text(m), draw |-> IF Text(m) THEN <<>> ELSE <<m, i>>]
  BY Zenon DEF ScreenSet, DrawFunc
<1> HIDE DEF m, i
<1>3. CASE Text(m)
  <2>1. func = [text |-> Text(m), draw |-> <<>>]
    BY <1>2, <1>3
  <2>2. func.text = Text(m)
    BY <2>1
  <2> QED
    BY <1>1, <1>3, <2>2 DEF m, i
<1>4. CASE ~Text(m)
  <2> DEFINE e == <<m, i>>
  <2> HIDE DEF e
  <2>7. Text(m) = FALSE
    BY <1>4 DEF Text
  <2>1. func = [text |-> FALSE, draw |-> e]
    BY <1>2, <2>7 DEF e
  <2>2. func.text = FALSE
    BY <2>1
  <2>3. m \in 6..9
    BY <1>1, <1>4 DEF Text
  <2> HIDE DEF Text
  <2>4. scr.mode \in 6..9 /\ func = [text |-> FALSE, draw |-> <<scr.mode, scr.il>>]
    BY <2>1, <2>3 DEF m, i, e
  <2>5. func.text = Text(scr.mode)
    BY <2>2, <2>7 DEF m
  <2>6. scr.mode \in {1, 3, 6, 7, 8, 9} /\ scr.page \in 0..3
    BY <1>1 DEF m
  <2> QED
    BY <2>4, <2>5, <2>6, Zenon
<1> QED
  BY <1>3, <1>4

(* Where the next character goes on a bitmap screen.                       *)
LEMMA PenReady ==
  ASSUME ScreenSet, CursorSet, cur # <<>>, ~func.text
  PROVE  Inking /\ cur \in Nat \X Nat /\ cur[1] \in Nat /\ At(cur[1]) /\ Here = Pen(cur[1], <<>>)
<1>1. cur \in Nat \X Nat /\ cur[1] \in Nat /\ cur[2] \in Nat /\ At(cur[1])
  BY DEF CursorSet
<1>2. PageLine(cur[2]) \in Nat /\ PageLine(cur[2]) < 256
  <2>1. PageLine(cur[2]) \in Nat
    BY <1>1 DEF PageLine
  <2>2. PageLine(cur[2]) < 256
    BY <1>1, Zenon DEF At
  <2> QED
    BY <2>1, <2>2
<1>3. OnLine
  BY <1>2, ScreenIs DEF OnLine
<1>4. Inking
  BY <1>3, ScreenIs DEF Inking
<1>5. Here = Pen(cur[1], <<>>)
  BY <1>1 DEF Here, Pen, At
<1> QED
  BY <1>1, <1>4, <1>5

LEMMA PrintReady ==
  ASSUME GfnInv, Placed, ~func.text
  PROVE  Printing /\ cur \in Nat \X Nat /\ cur[1] \in Nat /\ At(cur[1]) /\ Here = Pen(cur[1], <<>>)
<1>1. Inking /\ cur \in Nat \X Nat /\ cur[1] \in Nat /\ At(cur[1]) /\ Here = Pen(cur[1], <<>>)
  BY PenReady DEF GfnInv, Placed
<1>2. font.w % PerByte = 0
  BY ScreenIs DEF GfnInv, Placed
<1>3. font.w \in Nat
  BY DEF GfnInv, FontSet, Fonts
<1>4. font.wb = font.w \div PerByte /\ font.rows = IF font.h > 8 THEN 16 ELSE 8
  BY DEF GfnInv, FontSet, Placed
<1> QED
  BY <1>1, <1>2, <1>3, <1>4 DEF Printing

LEMMA InvPrints == GfnInv => PrintedExact
<1> SUFFICES ASSUME GfnInv PROVE PrintedExact
  OBVIOUS
<1>1. CASE func.text
  BY <1>1 DEF GfnInv, DrawnRight, PrintedExact
<1>2. CASE ~func.text
  <2>1. Matches(drawn, wanted)
    BY <1>2 DEF GfnInv, DrawnRight
  <2>2. DOMAIN drawn = 1..Len(drawn) /\ Len(drawn) = Len(wanted)
    BY <2>1 DEF Matches, IsSeq
  <2>3. \A n \in DOMAIN drawn : DrawnAs(drawn[n], wanted[n])
    BY <2>1, <2>2 DEF Matches
  <2>4. ASSUME cur # <<>> PROVE Full(vdp) = Belongs(cur[1], cur[2])
    <3>1. Inking /\ At(cur[1]) /\ cur[1] \in Nat
      BY <1>2, <2>4, PenReady DEF GfnInv
    <3> QED
      BY <3>1, SplitRight DEF Inking, At
  <2> QED
    BY <1>2, <2>2, <2>3, <2>4, Zenon DEF PrintedExact
<1> QED
  BY <1>1, <1>2

(***************************************************************************)
(* Settings                                                                *)
(***************************************************************************)
ScreenModes == {1, 3, 6, 7, 8, 9}

LEMMA QuietRight ==
  ASSUME Quiet
  PROVE  DrawnRight'
<1>1. drawn' = <<>> /\ wanted' = <<>>
  BY DEF Quiet
<1>2. CASE func'.text
  <2> DEFINE g(n) == [addr |-> Full(vdp') + n - 1, code |-> wanted'[n].code]
  <2>1. [n \in DOMAIN wanted' |-> g(n)] = <<>>
    <3> HIDE DEF g
    <3> QED
      BY <1>1
  <2> QED
    BY <1>1, <1>2, <2>1 DEF DrawnRight, Full
<1>3. CASE ~func'.text
  <2>1. <<>> \in Seq({}) /\ Len(<<>>) = 0
    OBVIOUS
  <2>2. IsSeq(drawn') /\ IsSeq(wanted') /\ Len(drawn') = Len(wanted') /\ Len(drawn') = 0
    BY <1>1, <2>1 DEF IsSeq
  <2>3. Matches(drawn, wanted)'
    BY <2>2 DEF Matches
  <2> QED
    BY <1>3, <2>3 DEF DrawnRight
<1> QED
  BY <1>2, <1>3

LEMMA SizedRight ==
  ASSUME NEW f \in Fonts, NEW m \in ScreenModes, NEW w \in Nat, w >= 2, NEW h \in Nat
  PROVE  /\ SizedFont(f, m, w, h) \in Fonts
         /\ SizedFont(f, m, w, h).rows = IF SizedFont(f, m, w, h).h > 8 THEN 16 ELSE 8
         /\ SizedFont(f, m, w, h).wb = SizedFont(f, m, w, h).w \div DotsPerByte[m + 1]
<1> DEFINE even == w - (w % 2)
           b == even \div DotsPerByte[m + 1]
           r == IF h > 8 THEN 16 ELSE 8
           c == TextWidth(m, even)
           f1 == [f EXCEPT !.w = even]
           f2 == [f1 EXCEPT !.h = h]
           f3 == [f2 EXCEPT !.wb = b]
           f4 == [f3 EXCEPT !.rows = r]
           f5 == [f4 EXCEPT !.columns = c]
<1>1. even \in Nat /\ even > 0
  OBVIOUS
<1>2. DotsPerByte[m + 1] \in {1, 2, 4, 8}
  BY DEF ScreenModes, DotsPerByte
<1> HIDE DEF even
<1>3. b \in Nat
  <2> DEFINE d == DotsPerByte[m + 1]
  <2> HIDE DEF d
  <2> QED
    BY <1>1, <1>2 DEF d
<1>4. c \in Nat
  <2>1. 64 \div even \in Nat /\ 512 \div even \in Nat /\ 256 \div even \in Nat
    BY <1>1
  <2> QED
    BY <2>1 DEF TextWidth, ScreenModes
<1>5. r \in {8, 16}
  OBVIOUS
<1> HIDE DEF b, c, r
<1>6. SizedFont(f, m, w, h) = f5
  <2>1. SizedFont(f, m, w, h) = [f EXCEPT !.w = even, !.h = h, !.wb = b, !.rows = r, !.columns = c]
    BY Zenon DEF SizedFont, even, b, r, c
  <2> QED
    BY <2>1
<1>7. f1 \in Fonts /\ f1.w = even
  BY <1>1 DEF Fonts
<1> HIDE DEF f1
<1>8. f2 \in Fonts /\ f2.w = even /\ f2.h = h
  BY <1>7 DEF Fonts
<1> HIDE DEF f2
<1>9. f3 \in Fonts /\ f3.w = even /\ f3.h = h /\ f3.wb = b
  BY <1>3, <1>8 DEF Fonts
<1> HIDE DEF f3
<1>10. f4 \in Fonts /\ f4.w = even /\ f4.h = h /\ f4.wb = b /\ f4.rows = r
  BY <1>5, <1>9 DEF Fonts
<1> HIDE DEF f4
<1>11. f5 \in Fonts /\ f5.w = even /\ f5.h = h /\ f5.wb = b /\ f5.rows = r
  BY <1>4, <1>10 DEF Fonts
<1> HIDE DEF f5
<1> QED
  BY <1>6, <1>11 DEF b, r

LEMMA ScreenSteps ==
  ASSUME GfnInv, NEW mode \in Screens, NEW laced \in BOOLEAN, NEW pg \in ActivePages, SetScreen(mode, laced, pg)
  PROVE  GfnInv'
<1>1. mode \in ScreenModes /\ pg \in 0..3
  BY GfnAssumption DEF ScreenModes
<1>2. scr' = [mode |-> mode, il |-> laced, page |-> pg] /\ func' = DrawFunc(mode, laced) /\ cur' = <<>>
  BY DEF SetScreen
<1>3. ScreenSet'
  <2>1. scr' \in [mode : ScreenModes, il : BOOLEAN, page : 0..3]
    BY <1>1, <1>2, Zenon
  <2>2. scr'.mode = mode /\ scr'.il = laced
    BY <1>2, Zenon
  <2> QED
    BY <1>2, <2>1, <2>2, Zenon DEF ScreenSet, ScreenModes
<1>4. scr'.mode = mode
  BY <1>2, Zenon
<1>5. FontSet'
  <2>1. font \in Fonts /\ font.rows = IF font.h > 8 THEN 16 ELSE 8
    BY DEF GfnInv, FontSet
  <2>2. PerByte' = DotsPerByte[mode + 1]
    BY <1>4 DEF PerByte
  <2>6. sized' \in BOOLEAN
    <3>1. sized' = (mode \in {0, 1, 3, 4, 6} \/ (mode = scr.mode /\ sized))
      BY Zenon DEF SetScreen
    <3> QED
      BY <3>1
  <2>3. CASE mode \in {0, 1}
    <3> DEFINE g == SizedFont(font, mode, 6, 8)
    <3>1. font' = g
      BY <2>3 DEF SetScreen
    <3>2. g \in Fonts /\ g.rows = (IF g.h > 8 THEN 16 ELSE 8) /\ g.wb = g.w \div DotsPerByte[mode + 1]
      BY <1>1, <2>1, SizedRight
    <3> HIDE DEF g
    <3> QED
      BY <2>2, <2>6, <3>1, <3>2 DEF FontSet
  <2>4. CASE mode \in {3, 4, 6}
    <3> DEFINE g == SizedFont(font, mode, 8, 8)
    <3>1. font' = g
      BY <2>4 DEF SetScreen
    <3>2. g \in Fonts /\ g.rows = (IF g.h > 8 THEN 16 ELSE 8) /\ g.wb = g.w \div DotsPerByte[mode + 1]
      BY <1>1, <2>1, SizedRight
    <3> HIDE DEF g
    <3> QED
      BY <2>2, <2>6, <3>1, <3>2 DEF FontSet
  <2>5. CASE mode \notin {0, 1, 3, 4, 6}
    <3>1. font' = font
      BY <2>5 DEF SetScreen
    <3>2. sized' = (mode = scr.mode /\ sized)
      BY <2>5 DEF SetScreen
    <3>3. sized' => font.wb = font.w \div PerByte /\ PerByte' = PerByte
      BY <2>2, <3>2 DEF GfnInv, FontSet, PerByte
    <3> QED
      BY <2>1, <2>6, <3>1, <3>3 DEF FontSet
  <2> QED
    BY <2>3, <2>4, <2>5
<1>6. CursorSet'
  BY <1>2 DEF CursorSet
<1>7. DrawnRight'
  BY QuietRight DEF SetScreen
<1> QED
  BY <1>3, <1>5, <1>6, <1>7 DEF GfnInv

(* What stays when the screen does.                                        *)
LEMMA ScreenStays ==
  ASSUME GfnInv, scr' = scr, func' = func
  PROVE  ScreenSet' /\ PerByte' = PerByte /\ Width' = Width /\ func'.text = func.text
         /\ \A next : PageLine(next)' = PageLine(next)
BY DEF GfnInv, ScreenSet, PerByte, Width, Row, PageLine

(* The cursor on the line it was on.                                       *)
LEMMA CursorGoes ==
  ASSUME scr' = scr, func' = func, cur \in Nat \X Nat, ~func.text, NEW x \in Nat, cur' = <<x, cur[2]>>,
         x < Width, PageLine(cur[2]) < 256, faddr' = Addr(x), vdp' = Split(Addr(x))
  PROVE  CursorSet'
<1>1. cur'[1] = x /\ cur'[2] = cur[2] /\ cur' \in Nat \X Nat
  OBVIOUS
<1>2. Width' = Width /\ PageLine(cur[2])' = PageLine(cur[2])
  BY <1>1 DEF Width, Row, PageLine
<1>3. Addr(x)' = Addr(x)
  BY <1>1 DEF Addr, Base, PageLine, Row, PerByte
<1>4. Split(Addr(x))' = Split(Addr(x))
  BY <1>3 DEF Split, Row
<1>5. At(x)'
  BY <1>1, <1>2, <1>3, <1>4 DEF At
<1> QED
  BY <1>1, <1>5 DEF CursorSet

LEMMA CursorStays ==
  ASSUME CursorSet, UNCHANGED <<scr, func, faddr, vdp, cur>>
  PROVE  CursorSet'
BY DEF CursorSet, At, Addr, Base, PageLine, Row, PerByte, Width, Split

LEMMA SizeSteps ==
  ASSUME GfnInv, NEW z \in Sizes, SetFontSize(z.w, z.h)
  PROVE  GfnInv'
<1> DEFINE g == SizedFont(font, scr.mode, z.w, z.h)
<1>1. z.w \in Nat /\ z.w >= 2 /\ z.h \in Nat
  BY GfnAssumption
<1>2. font' = g /\ sized' = TRUE /\ UNCHANGED <<scr, kr, func, faddr, vdp, cur>> /\ Quiet
  BY DEF SetFontSize
<1>3. scr.mode \in ScreenModes
  BY ScreenIs DEF GfnInv, ScreenModes
<1>4. g \in Fonts /\ g.rows = (IF g.h > 8 THEN 16 ELSE 8) /\ g.wb = g.w \div PerByte
  BY <1>1, <1>3, SizedRight DEF GfnInv, FontSet, PerByte
<1> HIDE DEF g
<1>5. ScreenSet' /\ PerByte' = PerByte
  BY <1>2, ScreenStays
<1>6. FontSet'
  BY <1>2, <1>4, <1>5 DEF FontSet
<1>7. CursorSet'
  BY <1>2, CursorStays DEF GfnInv
<1>8. DrawnRight'
  BY <1>2, QuietRight
<1> QED
  BY <1>5, <1>6, <1>7, <1>8 DEF GfnInv

LEMMA ColorSteps ==
  ASSUME GfnInv, NEW ink \in Inks, SetFontColor(ink.fg, ink.bg)
  PROVE  GfnInv'
<1>1. ink.fg \in Nat /\ ink.bg \in Nat
  <2>1. ink \in [fg : 0..255, bg : 0..255]
    BY GfnAssumption
  <2> QED
    BY <2>1
<1>2. font' = [font EXCEPT !.fg = ink.fg, !.bg = ink.bg] /\ UNCHANGED <<scr, kr, func, faddr, vdp, cur, sized>> /\ Quiet
  BY DEF SetFontColor
<1> DEFINE g == [font EXCEPT !.fg = ink.fg]
<1>3. g \in Fonts /\ g.w = font.w /\ g.h = font.h /\ g.wb = font.wb /\ g.rows = font.rows
  BY <1>1 DEF GfnInv, FontSet, Fonts
<1>4. font' = [g EXCEPT !.bg = ink.bg]
  BY <1>2
<1> HIDE DEF g
<1>5. font' \in Fonts /\ font'.w = font.w /\ font'.h = font.h /\ font'.wb = font.wb /\ font'.rows = font.rows
  BY <1>1, <1>3, <1>4 DEF Fonts
<1>6. ScreenSet' /\ PerByte' = PerByte
  BY <1>2, ScreenStays
<1>7. FontSet'
  BY <1>2, <1>5, <1>6 DEF GfnInv, FontSet
<1>8. CursorSet'
  BY <1>2, CursorStays DEF GfnInv
<1>9. DrawnRight'
  BY <1>2, QuietRight
<1> QED
  BY <1>6, <1>7, <1>8, <1>9 DEF GfnInv

LEMMA KrSteps ==
  ASSUME GfnInv, NEW m \in 0..2, SetPrintKr(m)
  PROVE  GfnInv'
<1>1. UNCHANGED <<scr, font, func, faddr, vdp, cur, sized>> /\ Quiet
  BY DEF SetPrintKr
<1>2. ScreenSet' /\ PerByte' = PerByte
  BY <1>1, ScreenStays
<1>3. FontSet'
  BY <1>1, <1>2 DEF GfnInv, FontSet
<1>4. CursorSet'
  BY <1>1, CursorStays DEF GfnInv
<1>5. DrawnRight'
  BY <1>1, QuietRight
<1> QED
  BY <1>2, <1>3, <1>4, <1>5 DEF GfnInv

(***************************************************************************)
(* Calls that print                                                        *)
(***************************************************************************)
LEMMA SettingsStay ==
  ASSUME GfnInv, UNCHANGED <<scr, font, func, sized>>
  PROVE  ScreenSet' /\ FontSet'
<1>1. ScreenSet' /\ PerByte' = PerByte
  BY ScreenStays
<1> QED
  BY <1>1 DEF GfnInv, FontSet

LEMMA DrawnGoes ==
  ASSUME UNCHANGED <<scr, font, func>>, ~func.text, Matches(drawn', wanted')
  PROVE  DrawnRight'
<1>1. \A d, c : DrawnAs(d, c) => DrawnAs(d, c)'
  BY DEF DrawnAs, PlacedAt, Belongs, PageLine, Row, Width, Full
<1>2. Matches(drawn, wanted)'
  BY <1>1 DEF Matches
<1> QED
  BY <1>2 DEF DrawnRight

LEMMA PosSteps ==
  ASSUME GfnInv, NEW x \in Nat, NEW next \in Nat, PrintPos(x, next)
  PROVE  GfnInv'
<1>1. /\ func.text \/ (x < Width /\ PageLine(next) < 256)
      /\ Quiet /\ cur' = <<x, next>> /\ faddr' = Position(x, next)
      /\ vdp' = [l |-> faddr' % 256, m |-> (faddr' \div 256) % 64,
                 h |-> IF func.text THEN 0 ELSE (faddr' \div 16384) + 2 * scr.page * (IF Row = 256 THEN 2 ELSE 1)]
      /\ UNCHANGED <<scr, kr, font, func, sized>>
  BY DEF PrintPos
<1>2. ScreenSet' /\ FontSet'
  BY <1>1, SettingsStay
<1>3. DrawnRight'
  BY <1>1, QuietRight
<1>4. cur'[1] = x /\ cur'[2] = next /\ cur' \in Nat \X Nat
  BY <1>1
<1>5. ASSUME ~func.text PROVE At(x)'
  <2> DEFINE a == PageLine(next) * Row + (x \div PerByte)
  <2>1. x < Width /\ PageLine(next) < 256 /\ PageLine(next) \in Nat
    <3>1. PageLine(next) \in Nat
      BY DEF PageLine
    <3> QED
      BY <1>1, <1>5, <3>1
  <2>2. Row \in {128, 256} /\ Width \in {256, 512} /\ x \div PerByte \in Nat /\ x \div PerByte < Row
    <3>1. scr.mode \in 6..9
      BY <1>5, ScreenIs DEF GfnInv
    <3>2. x \in 0..Width - 1 /\ Row \in {128, 256} /\ Width \in {256, 512}
      BY <2>1, <3>1, RowIs
    <3>3. x \div PerByte \in 0..Row - 1
      BY <3>1, <3>2, RowIs
    <3> HIDE DEF Row, Width, PerByte
    <3> QED
      BY <3>2, <3>3
  <2>3. a \in Nat /\ a < 65536
    <3> DEFINE t == x \div PerByte
               p == PageLine(next)
    <3>1. p \in Nat /\ p < 256 /\ t \in Nat /\ t < Row /\ Row \in {128, 256} /\ a = p * Row + t
      BY <2>1, <2>2
    <3> HIDE DEF t, p, a
    <3>2. CASE Row = 128
      BY <3>1, <3>2
    <3>3. CASE Row = 256
      BY <3>1, <3>3
    <3> QED
      BY <3>1, <3>2, <3>3
  <2>4. faddr' = a
    <3>1. faddr' = a % 65536
      BY <1>1, <1>5 DEF Position
    <3> HIDE DEF a
    <3> QED
      BY <2>3, <3>1
  <2>5. Addr(x)' = a
    BY <1>1, <1>4 DEF Addr, Base, PageLine, Row, PerByte
  <2> HIDE DEF a
  <2>6. vdp' = [l |-> a % 256, m |-> (a \div 256) % 64,
               h |-> (a \div 16384) + 2 * scr.page * (IF Row = 256 THEN 2 ELSE 1)]
    BY <1>1, <1>5, <2>4
  <2>7. Split(Addr(x))' = vdp'
    BY <1>1, <2>5, <2>6 DEF Split, Row
  <2>8. Width' = Width /\ PageLine(cur[2])' = PageLine(next)
    BY <1>1, <1>4 DEF Width, Row, PageLine
  <2> QED
    BY <2>1, <2>4, <2>5, <2>7, <2>8 DEF At
<1>6. CursorSet'
  BY <1>1, <1>4, <1>5 DEF CursorSet
<1> QED
  BY <1>2, <1>3, <1>6 DEF GfnInv

(* A glyph or none is drawn, and the position is that of the text.         *)
LEMMA CallPrints ==
  ASSUME GfnInv, Placed, ~func.text, UNCHANGED <<scr, font, func, sized>>,
         NEW x \in Nat, x < Width, cur' = <<x, cur[2]>>, faddr' = Addr(x), vdp' = Split(Addr(x)),
         Matches(drawn', wanted')
  PROVE  GfnInv'
<1>1. ScreenSet' /\ FontSet'
  BY SettingsStay
<1>2. cur \in Nat \X Nat /\ PageLine(cur[2]) < 256
  BY PrintReady DEF At
<1>3. CursorSet'
  BY <1>2, CursorGoes
<1>4. DrawnRight'
  BY DrawnGoes
<1> QED
  BY <1>1, <1>3, <1>4 DEF GfnInv

LEMMA StrSteps ==
  ASSUME GfnInv, NEW text \in Texts, PrintStr(text), ~func.text
  PROVE  GfnInv'
<1> DEFINE x == Look(text).x
           cells == Look(text).cells
<1>1. /\ Placed /\ Printable(text) /\ Fits(text) /\ UNCHANGED <<scr, kr, font, func, sized>>
      /\ FontShown(Printed(Encode(text))) /\ wanted' = cells /\ cur' = <<x, cur[2]>>
  BY DEF PrintStr
<1>2. Printing /\ cur[1] \in Nat /\ At(cur[1])
  BY <1>1, PrintReady
<1>3. text \in Seq(Characters)
  BY GfnAssumption
<1>4. \A k \in 1..Len(text) : CanPrint(text[k])
  BY <1>1, <1>3 DEF Printable, CanPrint
<1>5. cur[1] < Width /\ faddr = Addr(cur[1]) /\ vdp = Split(Addr(cur[1]))
  BY <1>2 DEF At
<1>6. x \in Nat /\ x < Width /\ \E out : Printed(Encode(text)) = Pen(x, out) /\ Matches(out, cells)
  BY <1>1, <1>2, <1>3, <1>4, <1>5, PrintedRight
<1> HIDE DEF x, cells
<1>7. PICK out : Printed(Encode(text)) = Pen(x, out) /\ Matches(out, cells)
  BY <1>6
<1>8. faddr' = Addr(x) /\ vdp' = Split(Addr(x)) /\ drawn' = out
  BY <1>1, <1>7 DEF FontShown, Pen
<1>9. Matches(drawn', wanted')
  BY <1>1, <1>7, <1>8
<1> QED
  BY <1>1, <1>6, <1>8, <1>9, CallPrints

(* One glyph.                                                              *)
LEMMA OneMatches ==
  ASSUME NEW d, NEW c, DrawnAs(d, c)
  PROVE  Matches(Append(<<>>, d), <<c>>)
<1>1. Matches(Append(<<>>, d), Append(<<>>, c))
  BY MatchesNone, MatchesMore
<1>2. Append(<<>>, c) = <<c>>
  OBVIOUS
<1> QED
  BY <1>1, <1>2

(* A step of the cursor by whole characters, in bytes.                     *)
LEMMA StepsBack ==
  ASSUME Printing, NEW x \in Nat, x < Width, NEW n \in Nat, n * font.w <= x
  PROVE  /\ x - n * font.w \in Nat /\ x - n * font.w < Width
         /\ font.wb * n \in Nat /\ font.wb * n < 256 /\ Addr(x - n * font.w) = Addr(x) + (-(font.wb * n))
<1> DEFINE w == font.w
           d == font.wb
           q == n * w
           next == x - q
           P == PerByte
<1>1. /\ w \in Nat /\ w % P = 0 /\ d = w \div P /\ OnLine /\ Width \in Nat
      /\ Row \in {128, 256} /\ P \in {1, 2, 4} /\ PageLine(cur[2]) \in Nat
  BY RowRight DEF Printing, Inking, OnLine
<1> HIDE DEF w, d, P
<1>2. d \in Nat /\ w = P * d
  BY <1>1
<1>3. n * d \in Nat /\ q = P * (n * d) /\ d * n = n * d
  <2>1. CASE P = 1
    BY <1>2, <2>1
  <2>2. CASE P = 2
    BY <1>2, <2>2
  <2>3. CASE P = 4
    BY <1>2, <2>3
  <2> QED
    BY <1>1, <2>1, <2>2, <2>3
<1> DEFINE e == n * d
<1> HIDE DEF e, q
<1>4. e \in Nat /\ q = P * e /\ d * n = e /\ q <= x
  BY <1>3 DEF e, q, w
<1>5. q \in Nat /\ q % P = 0 /\ q \div P = e
  BY <1>1, <1>4
<1>6. next \in Nat /\ next < Width /\ next + q = x
  BY <1>1, <1>4, <1>5
<1>7. x \div P = (next \div P) + e /\ next \div P \in Nat
  <2> HIDE DEF next
  <2>1. (next + q) \div PerByte = (next \div PerByte) + (q \div PerByte) /\ next \div PerByte \in Nat
    BY <1>1, <1>5, <1>6, Across DEF P
  <2> QED
    BY <1>5, <1>6, <2>1 DEF P
<1>8. x \div P < 256
  <2>1. x \in 0..Width - 1
    BY <1>1
  <2>2. x \div PerByte \in 0..Row - 1
    BY <1>1, <2>1, RowRight
  <2> HIDE DEF Row
  <2> QED
    BY <1>1, <2>2 DEF P
<1>9. e < 256
  <2> DEFINE st == x \div P
             t == next \div P
  <2> HIDE DEF st, t
  <2>1. st = t + e /\ t \in Nat /\ st < 256
    BY <1>7, <1>8 DEF st, t
  <2> QED
    BY <1>4, <2>1
<1>10. Base \in Nat
  BY <1>1 DEF Base
<1>11. Addr(next) = Addr(x) + (-e)
  <2> DEFINE st == x \div P
             t == next \div P
  <2>1. Addr(x) = Base + st /\ Addr(next) = Base + t
    BY DEF Addr, P
  <2>2. st = t + e /\ t \in Nat
    BY <1>7
  <2> HIDE DEF st, t, next
  <2> QED
    BY <1>4, <1>10, <2>1, <2>2
<1> QED
  BY <1>4, <1>6, <1>9, <1>11 DEF q, w, d

LEMMA BackSteps ==
  ASSUME GfnInv, NEW n \in 1..MaxBack, PrintBack(n)
  PROVE  GfnInv'
<1> DEFINE x == cur[1]
           next == x - n * font.w
           e == font.wb * n
<1>1. /\ Placed /\ ~func.text /\ x >= n * font.w /\ UNCHANGED <<scr, kr, font, func, sized>>
      /\ FontShown(Moved(Here, -(e % 256))) /\ wanted' = <<>> /\ cur' = <<next, cur[2]>>
  BY DEF PrintBack
<1>2. Printing /\ x \in Nat /\ x < Width /\ Here = Pen(x, <<>>)
  BY <1>1, PrintReady DEF At
<1>3. n \in Nat
  BY GfnAssumption
<1>4. n * font.w <= x
  BY <1>1, <1>2, <1>3 DEF Printing
<1>5. next \in Nat /\ next < Width /\ e \in Nat /\ e < 256 /\ Addr(next) = Addr(x) + (-e)
  <2> HIDE DEF x
  <2> QED
    BY <1>2, <1>3, <1>4, StepsBack
<1> HIDE DEF x, next, e
<1>6. e % 256 = e /\ -e \in Int
  BY <1>5
<1>7. Moved(Pen(x, <<>>), -e) = Pen(next, <<>>)
  BY <1>2, <1>5, <1>6, PenMoves DEF Printing, Inking
<1>8. faddr' = Addr(next) /\ vdp' = Split(Addr(next)) /\ drawn' = <<>>
  BY <1>1, <1>2, <1>6, <1>7 DEF FontShown, Pen
<1>9. Matches(drawn', wanted')
  BY <1>1, <1>8, MatchesNone
<1> QED
  BY <1>1, <1>5, <1>8, <1>9, CallPrints

LEMMA AscSteps ==
  ASSUME GfnInv, NEW ch \in Letters, PrintAsc(ch)
  PROVE  GfnInv'
<1> DEFINE x == cur[1]
           w == font.w
           st == -font.wb
<1>1. Placed /\ ~func.text /\ UNCHANGED <<scr, kr, font, func, sized>>
  BY DEF PrintAsc
<1>2. Printing /\ x \in Nat /\ x < Width /\ Here = Pen(x, <<>>) /\ w \in Nat
  BY <1>1, PrintReady DEF At, Printing
<1>3. CASE ch = Backspace
  <2> DEFINE next == x - w
             d == Inked(next, AsciiGlyph(Space), font)
             c == Cell(next, AsciiGlyph(Space), FontColours)
  <2>1. /\ x >= w /\ wanted' = <<c>> /\ cur' = <<next, cur[2]>>
        /\ FontShown(Moved(DrawAscii(Moved(Here, st), Space, font), st))
    BY <1>3 DEF PrintAsc
  <2> HIDE DEF x, st, c, d
  <2>2. next \in Nat /\ next < Width /\ Addr(next) = Addr(x) + st /\ st \in Int /\ next + w = x
    <3>1. 1 * font.w = w /\ font.wb \in Nat
      BY <1>1, <1>2 DEF GfnInv, FontSet, Fonts
    <3>2. font.wb * 1 = font.wb
      BY <3>1
    <3>3. x - 1 * font.w = next
      BY <1>2, <3>1
    <3>4. 1 * font.w <= x
      BY <1>2, <2>1, <3>1
    <3> HIDE DEF next
    <3>5. next \in Nat /\ next < Width /\ Addr(next) = Addr(x) + st
      BY <1>2, <3>2, <3>3, <3>4, StepsBack DEF st
    <3> QED
      BY <1>2, <3>1, <3>5 DEF next, st
  <2> HIDE DEF next, w
  <2>3. Moved(Pen(x, <<>>), st) = Pen(next, <<>>)
    BY <1>2, <2>2, PenMoves DEF Printing, Inking
  <2>4. DrawAscii(Pen(next, <<>>), Space, font) = Pen(x, Append(<<>>, d))
    <3>1. next + font.w = x
      BY <2>2 DEF w
    <3> QED
      BY <1>2, <2>2, <3>1, AsciiRight DEF d
  <2> DEFINE out == Append(<<>>, d)
  <2> HIDE DEF out
  <2>5. Moved(Pen(x, out), st) = Pen(next, out)
    BY <1>2, <2>2, PenMoves DEF Printing, Inking
  <2>6. faddr' = Addr(next) /\ vdp' = Split(Addr(next)) /\ drawn' = out
    BY <1>2, <2>1, <2>3, <2>4, <2>5 DEF FontShown, Pen, out
  <2>7. DrawnAs(d, c)
    BY <1>2, <2>2, InkRight DEF d, c
  <2>8. Matches(drawn', wanted')
    BY <2>1, <2>6, <2>7, OneMatches DEF out
  <2> QED
    BY <1>1, <2>1, <2>2, <2>6, <2>8, CallPrints
<1>4. CASE ch # Backspace
  <2> DEFINE next == x + w
             d == Inked(x, AsciiGlyph(ch), font)
             c == Cell(x, AsciiGlyph(ch), FontColours)
             out == Append(<<>>, d)
             t == <<Ascii(ch)>>
  <2>1. Fits(t) /\ FontShown(DrawAscii(Here, ch, font)) /\ wanted' = <<c>> /\ cur' = <<next, cur[2]>>
    BY <1>4 DEF PrintAsc
  <2>2. Width \in Nat
    BY <1>2, RowRight DEF Printing, Inking
  <2>3. next \in Nat /\ next < Width
    <3> DEFINE L == LookTo(t)
    <3>1. Len(t) = 1 /\ t[1] = Ascii(ch)
      OBVIOUS
    <3>2. L[1].x \in 0..Width - 1
      BY <2>1, <3>1 DEF Fits
    <3>3. L = [k \in 0..1 |-> IF k = 0 THEN Blank ELSE LookAt(L[k - 1], t[k])]
      <4>1. Looked(L, t, 1)
        BY <3>1, LookToIs
      <4> HIDE DEF L
      <4> QED
        BY <4>1, Zenon DEF Looked
    <3> HIDE DEF L, t
    <3>4. L[0] = Blank /\ L[1] = LookAt(L[0], t[1])
      BY <3>3
    <3>5. ~IsSyllable(Ascii(ch)) /\ Ascii(ch).code = ch
      BY DEF IsSyllable, Ascii
    <3>6. LookAt(Blank, Ascii(ch)).x = Blank.x + w
      BY <1>4, <3>5 DEF LookAt
    <3>7. Blank.x = x
      BY DEF Blank
    <3> QED
      BY <2>2, <3>1, <3>2, <3>4, <3>6, <3>7
  <2> HIDE DEF out, d, c, x, t
  <2>4. DrawAscii(Pen(x, <<>>), ch, font) = Pen(next, out)
    BY <1>2, <2>3, AsciiRight DEF out, d
  <2> HIDE DEF next, w
  <2>5. faddr' = Addr(next) /\ vdp' = Split(Addr(next)) /\ drawn' = out
    BY <1>2, <2>1, <2>4 DEF FontShown, Pen
  <2>6. DrawnAs(d, c)
    BY <1>2, InkRight DEF d, c
  <2>7. Matches(drawn', wanted')
    BY <2>1, <2>5, <2>6, OneMatches DEF out
  <2> QED
    BY <1>1, <2>1, <2>3, <2>5, <2>7, CallPrints
<1> QED
  BY <1>3, <1>4

(* The cursor: a glyph, and the position put back.                         *)
SetTwo(pen, fb, lb) == [pen EXCEPT !.f = fb, !.v.l = lb]

LEMMA PenTwo ==
  ASSUME NEW fa, NEW la, NEW ma, NEW ha, NEW od, NEW fb, NEW lb
  PROVE  SetTwo(Spelled(fa, la, ma, ha, od), fb, lb) = Spelled(fb, lb, ma, ha, od)
<1> DEFINE u == [l |-> la, m |-> ma, h |-> ha]
           p == [f |-> fa, v |-> u, out |-> od]
           p1 == [p EXCEPT !.f = fb]
           z == [u EXCEPT !.l = lb]
           p2 == [p1 EXCEPT !.v = z]
<1>1. z = [l |-> lb, m |-> ma, h |-> ha]
  OBVIOUS
<1>2. p1 = [f |-> fb, v |-> u, out |-> od]
  OBVIOUS
<1>3. SetTwo(Spelled(fa, la, ma, ha, od), fb, lb) = p2
  BY DEF SetTwo, Spelled
<1> HIDE DEF p1, z
<1>4. p2 = [f |-> fb, v |-> z, out |-> od]
  BY <1>2
<1> QED
  BY <1>1, <1>3, <1>4 DEF Spelled

LEMMA CursorRight ==
  ASSUME Inking, NEW x \in Nat, x < Width, faddr = Addr(x), vdp = Split(Addr(x)), NEW f
  PROVE  Cursor(f) = Pen(x, Append(<<>>, Inked(x, <<"ascii", Space * f.rows>>, f)))
<1> DEFINE new == Append(<<>>, Inked(x, <<"ascii", Space * f.rows>>, f))
           d == f.w \div PerByte
           a == Addr(x)
           la == a % 256
           ma == (a \div 256) % 64
           ha == (a \div 16384) + 2 * scr.page * (IF Row = 256 THEN 2 ELSE 1)
           fb == (a + d + 65536) % 65536
           lb == (la + d + 256) % 256
           q == Moved(Pen(x, <<>>), d)
           p == DrawAscii(Here, Space, f)
<1>1. Here = Pen(x, <<>>) /\ vdp.l = la /\ faddr = a
  BY DEF Here, Pen, Split
<1>2. Pen(x, <<>>) = Spelled(a, la, ma, ha, <<>>)
  BY DEF Pen, Split, Spelled
<1>3. p = [q EXCEPT !.out = new]
  BY <1>1, FontDraws DEF DrawAscii
<1>4. Cursor(f) = SetTwo(p, a, la)
  BY <1>1, Zenon DEF Cursor, SetTwo
<1> HIDE DEF new, d, a, la, ma, ha, p
<1>5. q = SetTwo(Pen(x, <<>>), fb, lb)
  <2> DEFINE r == Pen(x, <<>>)
  <2> HIDE DEF r
  <2>1. r.f = a /\ r.v.l = la
    BY <1>2 DEF r, Spelled
  <2>2. Moved(r, d) = [r EXCEPT !.f = (a + d + 65536) % 65536, !.v.l = (la + d + 256) % 256]
    BY <2>1 DEF Moved
  <2> QED
    BY <2>2 DEF r, SetTwo
<1> HIDE DEF fb, lb, q
<1>6. q = Spelled(fb, lb, ma, ha, <<>>)
  BY <1>2, <1>5, PenTwo
<1>7. p = Spelled(fb, lb, ma, ha, new)
  BY <1>3, <1>6 DEF Spelled
<1>8. Cursor(f) = Spelled(a, la, ma, ha, new)
  BY <1>4, <1>7, PenTwo
<1>9. Pen(x, new) = Spelled(a, la, ma, ha, new)
  BY DEF Pen, Split, Spelled, a, la, ma, ha
<1> QED
  BY <1>8, <1>9 DEF new

LEMMA CursorSteps ==
  ASSUME GfnInv, NEW on \in BOOLEAN, PrintCursor(on)
  PROVE  GfnInv'
<1> DEFINE x == cur[1]
           turned == [font EXCEPT !.fg = font.bg, !.bg = font.fg]
           f == IF on THEN turned ELSE font
           colours == IF on THEN <<font.bg, font.fg>> ELSE FontColours
           c == Cell(x, AsciiGlyph(Space), colours)
           d == Inked(x, <<"ascii", Space * f.rows>>, f)
           out == Append(<<>>, d)
<1>1. /\ Placed /\ ~func.text /\ UNCHANGED <<scr, kr, font, func, cur, sized>>
      /\ FontShown(Cursor(f)) /\ wanted' = <<c>>
  BY DEF PrintCursor
<1>2. Printing /\ x \in Nat /\ x < Width /\ cur \in Nat \X Nat /\ faddr = Addr(x) /\ vdp = Split(Addr(x))
  BY <1>1, PrintReady DEF At
<1>3. Cursor(f) = Pen(x, out)
  <2> HIDE DEF f, x
  <2> QED
    BY <1>2, CursorRight DEF Printing
<1>4. font \in Fonts /\ font.rows = IF font.h > 8 THEN 16 ELSE 8
  BY DEF GfnInv, FontSet
<1>5. turned.fg = font.bg /\ turned.bg = font.fg /\ turned.w = font.w /\ turned.h = font.h /\ turned.rows = font.rows
  <2> DEFINE g == [font EXCEPT !.fg = font.bg]
  <2>1. g \in Fonts /\ g.fg = font.bg /\ g.w = font.w /\ g.h = font.h /\ g.rows = font.rows
    BY <1>4 DEF Fonts
  <2>2. turned = [g EXCEPT !.bg = font.fg]
    OBVIOUS
  <2> HIDE DEF g, turned
  <2> QED
    BY <2>1, <2>2 DEF Fonts
<1> HIDE DEF turned
<1>6. f.w = font.w /\ f.h = font.h /\ f.rows = font.rows /\ colours = <<f.fg, f.bg>>
  <2>1. CASE on
    BY <1>5, <2>1
  <2>2. CASE ~on
    BY <2>2 DEF FontColours
  <2> QED
    BY <2>1, <2>2
<1>7. <<"ascii", Space * f.rows>> = AsciiGlyph(Space)
  BY <1>4, <1>6 DEF AsciiGlyph
<1> HIDE DEF f, colours
<1>8. DrawnAs(d, c)
  <2> DEFINE g == AsciiGlyph(Space)
  <2> HIDE DEF g, x
  <2>1. DrawnAs(Inked(x, g, f), Cell(x, g, <<f.fg, f.bg>>))
    BY <1>2, <1>6, InkedRight DEF Printing
  <2> QED
    BY <1>6, <1>7, <2>1 DEF g
<1> HIDE DEF d, c, x
<1>9. faddr' = Addr(x) /\ vdp' = Split(Addr(x)) /\ drawn' = out
  BY <1>1, <1>3 DEF FontShown, Pen
<1>10. Matches(drawn', wanted')
  BY <1>1, <1>8, <1>9, OneMatches
<1>11. cur' = <<x, cur[2]>>
  BY <1>1, <1>2 DEF x
<1> QED
  BY <1>1, <1>2, <1>9, <1>10, <1>11, CallPrints

(* Text without syllables is its codes.                                    *)
LEMMA EncodeLetters ==
  ASSUME NEW text \in Seq(Characters), \A k \in 1..Len(text) : CanPrint(text[k]) /\ ~IsSyllable(text[k])
  PROVE  /\ Len(Encode(text)) = Len(text)
         /\ \A k \in 1..Len(text) : Encode(text)[k] = text[k].code
<1> DEFINE n == Len(text)
           bytes == Encode(text)
<1>1. n \in Nat /\ \A k \in 1..n : text[k] \in Characters /\ CanPrint(text[k]) /\ ~IsSyllable(text[k])
  OBVIOUS
<1>2. PICK E : Spells(E, text)
  BY EncodeSpells
<1>3. /\ E[0] = <<>> /\ E[n] = bytes
      /\ \A k \in 0..n : E[k] \in Seq(Nat)
      /\ \A k \in 1..n : E[k] = E[k - 1] \o Bytes(text[k])
  BY <1>2, Zenon DEF Spells
<1>4. \A k \in 1..n : Bytes(text[k]) = <<text[k].code>> /\ text[k].code \in Nat /\ Bytes(text[k]) \in Seq(Nat)
  <2> SUFFICES ASSUME NEW k \in 1..n
               PROVE  Bytes(text[k]) = <<text[k].code>> /\ text[k].code \in Nat /\ Bytes(text[k]) \in Seq(Nat)
    OBVIOUS
  <2> DEFINE ch == text[k]
  <2>1. ch \in Characters /\ CanPrint(ch) /\ ~IsSyllable(ch)
    BY <1>1
  <2> HIDE DEF ch
  <2>2. Bytes(ch) = <<ch.code>> /\ ch.code \in 1..255
    BY <2>1, BytesRight
  <2>3. Bytes(ch) \in Seq(Nat)
    BY <2>1, BytesAre
  <2>4. ch.code \in Nat
    <3> DEFINE c == ch.code
    <3>1. c \in 1..255
      BY <2>2
    <3> HIDE DEF c
    <3>2. c \in Nat
      BY <3>1
    <3> QED
      BY <3>2 DEF c
  <2> QED
    BY <2>2, <2>3, <2>4 DEF ch
<1> HIDE DEF n, bytes
<1> DEFINE P == {k \in Nat : k <= n => Len(E[k]) = k}
<1>5. 0 \in P
  BY <1>3
<1>6. ASSUME NEW j \in Nat, j \in P PROVE j + 1 \in P
  <2> SUFFICES ASSUME j + 1 <= n PROVE Len(E[j + 1]) = j + 1
    OBVIOUS
  <2> DEFINE k == j + 1
             z == text[k].code
  <2>1. k \in 1..n /\ k - 1 = j /\ j \in 0..n /\ Len(E[j]) = j
    BY <1>1, <1>6
  <2>2. E[k] = E[k - 1] \o Bytes(text[k]) /\ Bytes(text[k]) = <<z>> /\ z \in Nat /\ E[j] \in Seq(Nat)
    BY <1>3, <1>4, <2>1
  <2> HIDE DEF k, z
  <2>3. E[k] = E[j] \o <<z>>
    BY <2>1, <2>2
  <2>4. Len(E[k]) = j + 1
    BY <2>1, <2>2, <2>3
  <2> QED
    BY <2>4 DEF k
<1> HIDE DEF P
<1>7. \A k \in 0..n : Len(E[k]) = k
  <2> SUFFICES ASSUME NEW k \in 0..n PROVE Len(E[k]) = k
    OBVIOUS
  <2>1. k \in Nat /\ k <= n
    BY <1>1
  <2>2. k \in P
    BY <1>5, <1>6, <2>1, AllNumbers
  <2> QED
    BY <2>1, <2>2 DEF P
<1>8. ASSUME NEW k \in 1..n PROVE bytes[k] = text[k].code
  <2> DEFINE z == text[k].code
  <2>1. k \in 0..n /\ k - 1 \in 0..n /\ k \in Nat /\ k > 0
    BY <1>1
  <2>2. Len(E[k]) = k /\ Len(E[k - 1]) = k - 1
    BY <1>7, <2>1
  <2>3. \A i \in 1..Len(E[k]) : bytes[i] = E[k][i]
    BY <1>1, <1>2, <1>4, <2>1, SpelledStays DEF n, bytes
  <2>4. bytes[k] = E[k][k]
    BY <2>1, <2>2, <2>3
  <2>5. E[k] = E[k - 1] \o <<z>> /\ E[k - 1] \in Seq(Nat) /\ z \in Nat
    BY <1>3, <1>4, <2>1
  <2> HIDE DEF z
  <2>6. E[k][k] = z
    <3> DEFINE m == k - 1
               sq == E[k - 1]
    <3>1. m \in Nat /\ m + 1 = k /\ sq \in Seq(Nat) /\ Len(sq) = m /\ E[k] = sq \o <<z>>
      BY <2>1, <2>2, <2>5
    <3> HIDE DEF m, sq
    <3>2. (sq \o <<z>>)[m + 1] = z
      <4>1. z \in Nat /\ Len(sq) \in Nat /\ sq \o <<z>> = Append(sq, z)
        BY <2>5, <3>1
      <4> QED
        BY <3>1, <4>1, SMTT(30)
    <3> QED
      BY <3>1, <3>2
  <2> QED
    BY <2>4, <2>6 DEF z
<1>9. Len(bytes) = n
  <2>1. n \in 0..n
    BY <1>1
  <2> QED
    BY <1>3, <1>7, <2>1
<1> QED
  BY <1>8, <1>9 DEF n, bytes

LEMMA TextSteps ==
  ASSUME GfnInv, NEW text \in Texts, PrintStr(text), func.text
  PROVE  GfnInv'
<1> DEFINE n == Len(text)
           bytes == Encode(text)
           st == Listed(bytes)
<1>1. /\ Placed /\ Printable(text) /\ UNCHANGED <<scr, kr, font, func, sized>>
      /\ \A k \in DOMAIN text : ~IsSyllable(text[k])
      /\ FontShown(st) /\ wanted' = text /\ cur' = cur
  BY DEF PrintStr
<1>2. text \in Seq(Characters) /\ DOMAIN text = 1..n
  BY GfnAssumption
<1>3. \A k \in 1..n : CanPrint(text[k]) /\ ~IsSyllable(text[k])
  BY <1>1, <1>2 DEF Printable, CanPrint
<1>4. Len(bytes) = n /\ \A k \in 1..n : bytes[k] = text[k].code
  BY <1>2, <1>3, EncodeLetters
<1> HIDE DEF bytes, n
<1> DEFINE base == vdp.h * 16384 + vdp.m * 256 + vdp.l
           list == [k \in 1..Len(bytes) |-> [addr |-> vdp.h * 16384 + vdp.m * 256 + vdp.l + k - 1, code |-> bytes[k]]]
<1>5. st = [Here EXCEPT !.out = list]
  BY DEF Listed
<1> HIDE DEF list
<1>6. st.f = faddr /\ st.v = vdp /\ st.out = list
  BY <1>5 DEF Here
<1> HIDE DEF st
<1>7. faddr' = faddr /\ vdp' = vdp /\ drawn' = list
  BY <1>1, <1>6 DEF FontShown
<1>8. list = [k \in 1..n |-> [addr |-> Full(vdp) + k - 1, code |-> text[k].code]]
  BY <1>4 DEF list, Full
<1>9. DrawnRight'
  <2>1. wanted' = text /\ DOMAIN wanted' = 1..n /\ func'.text /\ Full(vdp)' = Full(vdp)
    BY <1>1, <1>2, <1>7 DEF Full
  <2>2. drawn' = [k \in DOMAIN wanted' |-> [addr |-> Full(vdp)' + k - 1, code |-> wanted'[k].code]]
    BY <1>7, <1>8, <2>1
  <2> QED
    BY <2>1, <2>2, Zenon DEF DrawnRight
<1>10. ScreenSet' /\ FontSet'
  BY <1>1, SettingsStay
<1>11. CursorSet'
  BY <1>1, <1>7, CursorStays DEF GfnInv
<1> QED
  BY <1>9, <1>10, <1>11 DEF GfnInv

(***************************************************************************)
(* The theorem                                                             *)
(***************************************************************************)
LEMMA GfnInitial == GfnInit => GfnInv
<1> SUFFICES ASSUME GfnInit PROVE GfnInv
  OBVIOUS
<1> DEFINE f0 == [w |-> 0, h |-> 0, wb |-> 0, rows |-> 8, columns |-> 0, fg |-> 15, bg |-> 4]
<1>1. PICK mode \in Screens, pg \in ActivePages :
        /\ scr = [mode |-> mode, il |-> FALSE, page |-> pg]
        /\ func = DrawFunc(mode, FALSE)
        /\ font = SizedFont(f0, mode, 8, 8)
  BY DEF GfnInit
<1>2. sized = TRUE /\ drawn = <<>> /\ wanted = <<>> /\ cur = <<>>
  BY DEF GfnInit
<1>3. mode \in ScreenModes /\ pg \in 0..3
  BY GfnAssumption DEF ScreenModes
<1>4. ScreenSet
  <2>1. FALSE \in BOOLEAN
    OBVIOUS
  <2> DEFINE laced == FALSE
  <2>2. laced \in BOOLEAN /\ scr = [mode |-> mode, il |-> laced, page |-> pg] /\ func = DrawFunc(mode, laced)
    BY <1>1, <2>1
  <2> HIDE DEF laced
  <2>3. scr \in [mode : ScreenModes, il : BOOLEAN, page : 0..3]
    BY <1>3, <2>2, Zenon
  <2>4. scr.mode = mode /\ scr.il = laced
    BY <2>2, Zenon
  <2> QED
    BY <2>2, <2>3, <2>4, Zenon DEF ScreenSet, ScreenModes
<1>5. scr.mode = mode
  BY <1>1, Zenon
<1>6. FontSet
  <2> DEFINE g == SizedFont(f0, mode, 8, 8)
  <2>1. f0 \in Fonts
    BY DEF Fonts
  <2> HIDE DEF f0
  <2>2. g \in Fonts /\ g.rows = (IF g.h > 8 THEN 16 ELSE 8) /\ g.wb = g.w \div DotsPerByte[mode + 1]
    BY <1>3, <2>1, SizedRight
  <2>3. font = g /\ PerByte = DotsPerByte[mode + 1]
    BY <1>1, <1>5 DEF PerByte
  <2> HIDE DEF g
  <2> QED
    BY <1>2, <2>2, <2>3 DEF FontSet
<1>7. CursorSet
  BY <1>2 DEF CursorSet
<1>8. DrawnRight
  <2>1. [k \in DOMAIN wanted |-> [addr |-> Full(vdp) + k - 1, code |-> wanted[k].code]] = <<>>
    <3> DEFINE g(k) == [addr |-> Full(vdp) + k - 1, code |-> wanted[k].code]
    <3> HIDE DEF g
    <3>1. [k \in DOMAIN wanted |-> g(k)] = <<>>
      BY <1>2
    <3> QED
      BY <3>1 DEF g
  <2> QED
    BY <1>2, <2>1, MatchesNone DEF DrawnRight
<1> QED
  BY <1>4, <1>6, <1>7, <1>8 DEF GfnInv

LEMMA GfnSteps == GfnInv /\ [GfnNext]_gfnVars => GfnInv'
<1> SUFFICES ASSUME GfnInv, [GfnNext]_gfnVars PROVE GfnInv'
  OBVIOUS
<1>1. CASE UNCHANGED gfnVars
  <2>1. UNCHANGED <<scr, font, func, faddr, vdp, drawn, cur, wanted, sized>>
    BY <1>1 DEF gfnVars
  <2>2. ScreenSet' /\ FontSet'
    BY <2>1, SettingsStay
  <2>3. CursorSet'
    BY <2>1, CursorStays DEF GfnInv
  <2>4. DrawnRight'
    <3>1. CASE func.text
      <4>1. Full(vdp)' = Full(vdp)
        BY <2>1 DEF Full
      <4> QED
        BY <2>1, <3>1, <4>1 DEF GfnInv, DrawnRight
    <3>2. CASE ~func.text
      <4>1. Matches(drawn', wanted')
        BY <2>1, <3>2 DEF GfnInv, DrawnRight
      <4> QED
        BY <2>1, <3>2, <4>1, DrawnGoes
    <3> QED
      BY <3>1, <3>2
  <2> QED
    BY <2>2, <2>3, <2>4 DEF GfnInv
<1>2. CASE GfnNext
  <2>1. ASSUME NEW mode \in Screens, NEW laced \in BOOLEAN, NEW pg \in ActivePages, SetScreen(mode, laced, pg)
        PROVE  GfnInv'
    BY <2>1, ScreenSteps
  <2>2. ASSUME NEW z \in Sizes, SetFontSize(z.w, z.h) PROVE GfnInv'
    BY <2>2, SizeSteps
  <2>3. ASSUME NEW ink \in Inks, SetFontColor(ink.fg, ink.bg) PROVE GfnInv'
    BY <2>3, ColorSteps
  <2>4. ASSUME NEW m \in 0..2, SetPrintKr(m) PROVE GfnInv'
    BY <2>4, KrSteps
  <2>5. ASSUME NEW p \in Places, PrintPos(p[1], p[2]) PROVE GfnInv'
    <3>1. p[1] \in Nat /\ p[2] \in Nat
      BY GfnAssumption
    <3> QED
      BY <2>5, <3>1, PosSteps
  <2>6. ASSUME NEW text \in Texts, PrintStr(text) PROVE GfnInv'
    BY <2>6, StrSteps, TextSteps
  <2>7. ASSUME NEW ch \in Letters, PrintAsc(ch) PROVE GfnInv'
    BY <2>7, AscSteps
  <2>8. ASSUME NEW on \in BOOLEAN, PrintCursor(on) PROVE GfnInv'
    BY <2>8, CursorSteps
  <2>9. ASSUME NEW n \in 1..MaxBack, PrintBack(n) PROVE GfnInv'
    BY <2>9, BackSteps
  <2> QED
    BY <1>2, <2>1, <2>2, <2>3, <2>4, <2>5, <2>6, <2>7, <2>8, <2>9 DEF GfnNext, GfnCall
<1> QED
  BY <1>1, <1>2

(* What bl_grp_print_* draw is what the texts say, whatever the screens,   *)
(* the fonts, the positions, the texts and the table of KS: every          *)
(* character in its place, in the font's colours and in the letters and    *)
(* shapes its vowel calls for; and the library's two positions stay one.   *)
THEOREM PrintedTheorem == GfnSpec => []PrintedExact
<1>1. GfnInit => GfnInv
  BY GfnInitial
<1>2. GfnInv /\ [GfnNext]_gfnVars => GfnInv'
  BY GfnSteps
<1>3. GfnInv => PrintedExact
  BY InvPrints
<1> QED
  BY <1>1, <1>2, <1>3, PTL DEF GfnSpec
=============================================================================
