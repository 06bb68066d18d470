-------------------------------- MODULE BlGrp --------------------------------
(***************************************************************************)
(* BLGRP.C: the video processor's registers, the copy of them that BL      *)
(* keeps (reg_shadow, part of bl_grp), the copy the MSX system keeps, and  *)
(* the screen they make up: which line of VRAM a line of the picture is    *)
(* read from, and which one drawing, printing and clearing reach.          *)
(*                                                                         *)
(* A register is the set of its bits that are 1.  A function of BLGRP.C is *)
(* an operator on a state s: s.g is bl_grp and s.hw the registers.         *)
(* The addresses of tables other than the pattern name table, palettes,    *)
(* sprites' data and fonts are left out.                                   *)
(***************************************************************************)
EXTENDS Integers, FiniteSets

CONSTANTS
  Modes,     \* screen modes programs set, of 0..9
  Displays,  \* display modes they set, as numbers
  Borders,   \* colours
  YjkModes,  \* YAE and YJK bits they set
  SprSizes,  \* sprite modes: magnified, 16 by 16
  ScrollModes, \* pages a scroll wraps in, left mask
  ScrollHs,  \* horizontal scrolls
  RasterLines, \* vertical scrolls, and lines with an interrupt
  Adjusts,   \* display adjustments
  Foreign,   \* registers other programs set up: [number -> bits]
  PageSample,\* pages they draw on or show
  LineSample,\* lines of a page looked at
  MaxCalls   \* bound: calls of BLGRP

ASSUME GrpAssumption ==
  /\ Modes \subseteq 0..9 /\ Displays \subseteq {0, 2, 4, 6, 12, 14} /\ Borders \subseteq 0..255
  /\ YjkModes \subseteq {{}, {3}, {3, 4}} /\ SprSizes \subseteq SUBSET {0, 1}
  /\ ScrollModes \subseteq SUBSET {0, 1} /\ ScrollHs \subseteq Nat /\ RasterLines \subseteq 0..255
  /\ Adjusts \subseteq Int
  /\ PageSample \subseteq 0..3 /\ LineSample \subseteq 0..255 /\ MaxCalls \in Nat

VARIABLES
  msx2p,  \* is the machine an MSX2+ or later?
  v9958,  \* is its processor a V9958?
  status, \* "off", "on", "suspended"
  s,      \* [g |-> bl_grp, hw |-> the registers]
  sys,    \* the system's copy: RG0SAV ... RG27SA
  org,    \* vdp_reg_org
  bak,    \* bl_grp_bak
  fresh,  \* history: what was set since interlacing last changed
  filled, \* history: lines the last call filled
  calls   \* bound

vars == <<msx2p, v9958, status, s, sys, org, bak, fresh, filled, calls>>

T1 == 0
T2 == 1
G1 == 3
G4 == 6
G6 == 8
G7 == 9
NoMode == 255

Reg == {0, 1, 2, 7, 8, 9, 18, 19, 23, 25, 26, 27}
Late == {25, 26, 27} \* of the V9958 only

ASSUME ForeignAssumption == Foreign \subseteq [Reg -> SUBSET (0..7)]

Bits(n) == {i \in 0..7 : (n \div 2^i) % 2 = 1}
Weight(b, i) == IF i \in b THEN 2^i ELSE 0
Num(b) ==
  Weight(b, 0) + Weight(b, 1) + Weight(b, 2) + Weight(b, 3)
    + Weight(b, 4) + Weight(b, 5) + Weight(b, 6) + Weight(b, 7)
Or(a, b) == Num(Bits(a) \cup Bits(b))
Bit(on, i) == IF on THEN {i} ELSE {}

Interlaced == {2, 3}             \* DISP_IL_E0
DispMask == {1, 2, 3}            \* DISP_MODE
AdjToReg(a) == (16 - a) % 16     \* adj_to_reg[a + 7]
AdjFromReg(v) == IF v = 8 THEN 8 ELSE IF v < 8 THEN -v ELSE 16 - v

(* mode_0_1, table_addr and table_pattern_name_fix.                        *)
ModeBits == <<{}, {2}, {}, {}, {1}, {2}, {1, 2}, {3}, {1, 3}, {1, 2, 3}>>
TextBits == <<{4}, {4}, {3}, {}, {}, {}, {}, {}, {}, {}>>
NameBits == <<0, 3, 2, 6, 6, 6, 31, 31, 31, 31>> \* name table, or-ed, >> 10
RowByte == <<40, 80, 32, 32, 32, 32, 128, 128, 256, 256>>
BppShift == <<3, 3, 1, 3, 3, 3, 1, 2, 1, 0>>

Fresh ==
  [screen_mode |-> NoMode, yae_yjk_mode |-> {}, display_on |-> FALSE, sprite_mode |-> {},
   sprite_on |-> TRUE, palette0_on |-> FALSE, line_212 |-> TRUE, height |-> 212,
   display_mode |-> {}, interlace_on |-> FALSE, vsync_50hz |-> FALSE,
   color_text_fg |-> 15, color_text_bg |-> 4, color_border |-> 4,
   view_page |-> 0, active_page |-> 0, active_page_a16_a14 |-> 0,
   adjust_h |-> 0, adjust_v |-> 0, scroll_mode |-> {}, scroll_h |-> 0, scroll_v |-> 0,
   reg_shadow |-> [r \in Reg |-> {}]]

(***************************************************************************)
(* The setters.                                                            *)
(***************************************************************************)
(* A register is written, and its copy: no interrupt comes between.        *)
Put(t, no, v) == [t EXCEPT !.g.reg_shadow[no] = v, !.hw[no] = v]

(* Mutant: the mask is left out.                                           *)
Update_NoMask(t, no, mask, bits) == Put(t, no, bits)

(* bl_grp_update_reg_bit.                                                  *)
Update(t, no, mask, bits) == Put(t, no, (t.g.reg_shadow[no] \ mask) \cup bits)

SetIrqVblank(t, on) == Update(t, 1, {5}, Bit(on, 5))
SetIrqHblank(t, on) == Update(t, 0, {4}, Bit(on, 4))
SetIrqHblankLine(t, line) == Update(t, 19, 0..7, Bits(line))

SetYaeYjkMode(t, mode) ==
  LET u == [t EXCEPT !.g.yae_yjk_mode = mode]
  IN IF v9958 THEN Update(u, 25, {3, 4}, mode) ELSE u

SetDisplayOn(t, on) == Update([t EXCEPT !.g.display_on = on], 1, {6}, Bit(on, 6))
SetSpriteMode(t, mode) == Update([t EXCEPT !.g.sprite_mode = mode], 1, {0, 1}, mode)
SetSpriteOn(t, on) == Update([t EXCEPT !.g.sprite_on = on], 8, {1}, Bit(~on, 1))
SetPalette0On(t, on) == Update([t EXCEPT !.g.palette0_on = on], 8, {5}, Bit(on, 5))

SetLine212(t, on) ==
  Update([t EXCEPT !.g.line_212 = on, !.g.height = IF on THEN 212 ELSE 192], 9, {7}, Bit(on, 7))

SetDisplayMode(t, mode) ==
  LET u == Update([t EXCEPT !.g.display_mode = mode], 9, DispMask, mode)
  IN [u EXCEPT !.g.interlace_on = (Interlaced \subseteq mode), !.g.vsync_50hz = (1 \in mode)]

(* Leaves vsync_50hz alone.                                                *)
SetVsync50Hz(t, on) ==
  LET mode == (t.g.display_mode \ {1}) \cup Bit(on, 1)
  IN Update([t EXCEPT !.g.display_mode = mode], 9, DispMask, mode)

ShowsText(t) == t.g.screen_mode \in {T1, T2, G1}

SetColorTextFg(t, c) ==
  LET u == [t EXCEPT !.g.color_text_fg = c % 16]
  IN IF ShowsText(t) THEN Update(u, 7, 4..7, Bits(16 * (c % 16))) ELSE u

SetColorTextBg(t, c) ==
  LET u == [t EXCEPT !.g.color_text_bg = c % 16]
  IN IF ShowsText(t) THEN Update(u, 7, 0..3, Bits(c % 16)) ELSE u

SetColorBorder(t, c) ==
  IF t.g.screen_mode < G7
    THEN Update([t EXCEPT !.g.color_border = c % 16], 7, 0..3, Bits(c % 16))
    ELSE Update([t EXCEPT !.g.color_border = c], 7, 0..7, Bits(c))

(* Mutant: the page register gets the even page.                           *)
SetView_Even(t, page) ==
  LET p == IF t.g.interlace_on THEN 2 * (page \div 2) ELSE page
  IN Update([t EXCEPT !.g.view_page = p], 2, {5, 6}, Bits(p * 32))

(* page &= 2: page 0 or 2; the register gets page 1 or 3.                  *)
SetView(t, page) ==
  LET p == IF t.g.interlace_on THEN 2 * (page \div 2) ELSE page
  IN Update([t EXCEPT !.g.view_page = p], 2, {5, 6},
            Bits((IF t.g.interlace_on THEN p + 1 ELSE p) * 32))

SetActive(t, page) ==
  LET p == IF t.g.interlace_on THEN 2 * (page \div 2) ELSE page
  IN [t EXCEPT !.g.active_page = p,
               !.g.active_page_a16_a14 = IF t.g.screen_mode < G6 THEN p * 2 ELSE p * 4]

Limited(a) == IF a < -7 THEN -7 ELSE IF a > 8 THEN 8 ELSE a
SetAdjustH(t, a) ==
  Update([t EXCEPT !.g.adjust_h = Limited(a)], 18, 0..3, Bits(AdjToReg(Limited(a))))
SetAdjustV(t, a) ==
  Update([t EXCEPT !.g.adjust_v = Limited(a)], 18, 4..7, Bits(16 * AdjToReg(Limited(a))))

SetScrollMode(t, mode) ==
  LET u == [t EXCEPT !.g.scroll_mode = mode]
  IN IF v9958 THEN Update(u, 25, {0, 1}, mode) ELSE u

(* Mutant: the dots are not taken back from the next eight.                *)
SetScrollH_NoCarry(t, h) ==
  LET u == [t EXCEPT !.g.scroll_h = h]
      r27 == h % 8
  IN IF v9958
       THEN Update(Update(u, 26, 0..7, Bits((h \div 8) % 64)), 27, 0..7, Bits((8 - r27) % 8))
       ELSE u

SetScrollH(t, h) ==
  LET u == [t EXCEPT !.g.scroll_h = h]
      r26 == (h \div 8) % 64
      r27 == h % 8
  IN IF v9958
       THEN Update(Update(u, 26, 0..7, Bits(IF r27 # 0 THEN r26 + 1 ELSE r26)),
                   27, 0..7, Bits((8 - r27) % 8))
       ELSE u

SetScrollV(t, v) == Update([t EXCEPT !.g.scroll_v = v], 23, 0..7, Bits(v))

(* All that the mode, as set, leaves of the other settings is set again.   *)
SetScreenMode(t, mode) ==
  LET a == [t EXCEPT !.g.screen_mode = mode]
      b == Update(Update(a, 0, {1, 2, 3}, ModeBits[mode + 1]), 1, {3, 4}, TextBits[mode + 1])
      c == SetColorBorder(SetYaeYjkMode(b, b.g.yae_yjk_mode), b.g.color_border)
      d == Update(c, 2, 0..5, Bits(NameBits[mode + 1]))
      e == SetSpriteOn(SetSpriteMode(d, d.g.sprite_mode), d.g.sprite_on)
      f == SetLine212(SetPalette0On(e, e.g.palette0_on), e.g.line_212)
      h == SetScrollMode(SetDisplayMode(f, f.g.display_mode), f.g.scroll_mode)
      i == SetScrollV(SetScrollH(h, h.g.scroll_h), h.g.scroll_v)
  IN SetActive(SetView(i, 0), 0)

(***************************************************************************)
(* Lines of VRAM, <<page, line>>, filled by an HMMV command: count lines   *)
(* from a page's first on, those of LineSample looked at.                  *)
(***************************************************************************)
Fill(page, count) ==
  {at \in {page, page + 1} \X LineSample : 256 * (at[1] - page) + at[2] < count}

Bitmap(t) == t.g.screen_mode \in G4..G7

ErasedLines(t, page) ==
  IF t.g.interlace_on THEN Fill(2 * (page \div 2), 512) ELSE Fill(page, 256)

(* Mutant: an interlaced screen's odd page is forgotten.                   *)
ClearedLines_Even(t) ==
  LET page == IF t.g.interlace_on THEN 2 * (t.g.active_page \div 2) ELSE t.g.active_page
  IN Fill(page, t.g.height)

(* bl_grp_clear_screen: an interlaced screen's even page, then its odd     *)
(* page.                                                                   *)
ClearedLines(t) ==
  LET page == IF t.g.interlace_on THEN 2 * (t.g.active_page \div 2) ELSE t.g.active_page
  IN Fill(page, t.g.height) \cup (IF t.g.interlace_on THEN Fill(page + 1, t.g.height) ELSE {})

(***************************************************************************)
(* Where drawing, reading and printing go.                                 *)
(***************************************************************************)
(* bl_grp_put_pixel: the page and line a PSET command gets.                *)
PutLine(t, y) ==
  IF t.g.interlace_on
    THEN <<t.g.active_page + (y % 2), (y \div 2) % 256>>
    ELSE <<t.g.active_page, y % 256>>

RowOf(t) == RowByte[t.g.screen_mode + 1]
ShiftOf(t) == BppShift[t.g.screen_mode + 1]
Address(t, x, y) == (y * RowOf(t) + x \div 2^ShiftOf(t)) % 65536

(* The 17-bit address from bl_vdp_vram_h, _m and _l.                       *)
Vram(t, addr) == Or(addr \div 16384, t.g.active_page_a16_a14) * 16384 + (addr % 16384)

GetAddress(t, x, y) == Vram(t, Address(t, x, y))
PrintAddress(t, x, y) == Vram(t, Address(t, x, IF t.g.interlace_on THEN y \div 2 ELSE y))

(***************************************************************************)
(* Beginning, end and suspension.                                          *)
(***************************************************************************)
SystemRegs == Reg \ (IF msx2p THEN {} ELSE Late)

Init ==
  /\ msx2p \in BOOLEAN /\ v9958 \in BOOLEAN /\ (msx2p => v9958)
  /\ status = "off"
  /\ \E regs \in Foreign : s = [g |-> Fresh, hw |-> regs]
  /\ sys = s.hw /\ org = s.hw /\ bak = Fresh
  /\ fresh = {} /\ filled = {} /\ calls = 0

Called == calls < MaxCalls /\ calls' = calls + 1

(* bl_grp_init: an MSX2 that was given a V9958 has no copy of registers 25 *)
(* to 27, they are set to 0.                                               *)
GrpInit ==
  /\ status = "off" /\ Called
  /\ LET zeroed == v9958 /\ ~msx2p
         shadow == [r \in Reg |-> IF r \in Late /\ (zeroed \/ ~v9958) THEN {} ELSE sys[r]]
     IN /\ s' = [g |-> [Fresh EXCEPT
                          !.display_mode = shadow[9] \cap DispMask,
                          !.interlace_on = (Interlaced \subseteq shadow[9]),
                          !.vsync_50hz = (1 \in shadow[9]),
                          !.adjust_h = AdjFromReg(Num(shadow[18] \cap 0..3)),
                          !.adjust_v = AdjFromReg(Num(shadow[18] \cap 4..7) \div 16),
                          !.reg_shadow = shadow],
                 hw |-> [r \in Reg |-> IF r \in Late /\ zeroed THEN {} ELSE s.hw[r]]]
        /\ org' = shadow
  /\ status' = "on" /\ fresh' = {} /\ filled' = {}
  /\ UNCHANGED <<msx2p, v9958, sys, bak>>

(* vdp_sync_regs_shadow.                                                   *)
SyncedRegs(regs) == [r \in Reg |-> IF r \in SystemRegs THEN regs[r] ELSE sys[r]]

(* vdp_restore_regs.                                                       *)
RestoredRegs(regs) == [r \in Reg |-> IF r \in Late /\ ~v9958 THEN s.hw[r] ELSE regs[r]]

(* bl_grp_deinit, as far as CHGMOD of the BIOS.                            *)
GrpDeinit ==
  /\ status = "on" /\ Called
  /\ LET regs == [org EXCEPT ![1] = @ \ {6}]
     IN /\ s' = [g |-> [s.g EXCEPT !.reg_shadow = regs], hw |-> RestoredRegs(regs)]
        /\ sys' = SyncedRegs(regs)
        /\ org' = regs
  /\ status' = "off" /\ filled' = {}
  /\ UNCHANGED <<msx2p, v9958, bak, fresh>>

GrpSuspend ==
  /\ status = "on" /\ Called
  /\ bak' = s.g
  /\ sys' = SyncedRegs(s.g.reg_shadow)
  /\ status' = "suspended" /\ filled' = {}
  /\ UNCHANGED <<msx2p, v9958, s, org, fresh>>

GrpResume ==
  /\ status = "suspended" /\ Called
  /\ s' = [g |-> bak, hw |-> RestoredRegs(bak.reg_shadow)]
  /\ status' = "on" /\ filled' = {}
  /\ UNCHANGED <<msx2p, v9958, sys, org, bak, fresh>>

(* While BL is off or suspended another program sets the screen up, through *)
(* the BIOS, which keeps the system's copy.                                *)
Other ==
  /\ status # "on" /\ Called
  /\ \E regs \in Foreign :
       LET now == [r \in Reg |-> IF r \in Late /\ ~msx2p THEN s.hw[r] ELSE regs[r]]
       IN s' = [s EXCEPT !.hw = now] /\ sys' = SyncedRegs(now)
  /\ filled' = {}
  /\ UNCHANGED <<msx2p, v9958, status, org, bak, fresh>>

(***************************************************************************)
(* Calls.                                                                  *)
(***************************************************************************)
Set(new) ==
  /\ status = "on" /\ Called
  /\ s' = new
  /\ filled' = {}
  /\ fresh' = IF new.g.interlace_on # s.g.interlace_on THEN {} ELSE fresh
  /\ UNCHANGED <<msx2p, v9958, status, sys, org, bak>>

ScreenMode ==
  /\ status = "on" /\ Called
  /\ \E mode \in Modes : s' = SetScreenMode(s, mode)
  /\ filled' = IF Bitmap(s') THEN ErasedLines(s', 0) ELSE {}
  /\ fresh' = {"view", "active"}
  /\ UNCHANGED <<msx2p, v9958, status, sys, org, bak>>

(* These look the screen mode up in a table: one must have been set.       *)
HasMode == s.g.screen_mode # NoMode
Pages == PageSample \cap (IF s.g.screen_mode < G6 THEN 0..3 ELSE 0..1)

Page(new, what) ==
  /\ status = "on" /\ Called /\ HasMode
  /\ s' = new
  /\ fresh' = fresh \cup {what} /\ filled' = {}
  /\ UNCHANGED <<msx2p, v9958, status, sys, org, bak>>

FillPages(lines) ==
  /\ status = "on" /\ Called /\ HasMode /\ Bitmap(s)
  /\ filled' = lines
  /\ UNCHANGED <<msx2p, v9958, status, s, sys, org, bak, fresh>>

Next ==
  \/ GrpInit \/ GrpDeinit \/ GrpSuspend \/ GrpResume \/ Other
  \/ ScreenMode
  \/ \E on \in BOOLEAN :
       \/ Set(SetIrqVblank(s, on)) \/ Set(SetIrqHblank(s, on)) \/ Set(SetDisplayOn(s, on))
       \/ Set(SetSpriteOn(s, on)) \/ Set(SetPalette0On(s, on)) \/ Set(SetLine212(s, on))
       \/ Set(SetVsync50Hz(s, on))
  \/ \E m \in YjkModes : Set(SetYaeYjkMode(s, m))
  \/ \E m \in SprSizes : Set(SetSpriteMode(s, m))
  \/ \E m \in ScrollModes : Set(SetScrollMode(s, m))
  \/ \E c \in Borders : Set(SetColorTextFg(s, c)) \/ Set(SetColorTextBg(s, c)) \/ Set(SetColorBorder(s, c))
  \/ \E a \in Adjusts : Set(SetAdjustH(s, a)) \/ Set(SetAdjustV(s, a))
  \/ \E h \in ScrollHs : Set(SetScrollH(s, h))
  \/ \E y \in RasterLines : Set(SetScrollV(s, y)) \/ Set(SetIrqHblankLine(s, y))
  \/ HasMode /\ \E d \in Displays : Set(SetDisplayMode(s, Bits(d)))
  \/ \E p \in Pages : Page(SetView(s, p), "view") \/ Page(SetActive(s, p), "active")
  \/ FillPages(ClearedLines(s)) \/ \E p \in Pages : FillPages(ErasedLines(s, p))

Spec == Init /\ [][Next]_vars

(***************************************************************************)
(* The video processor (V9938 data book).                                  *)
(***************************************************************************)
(* The line of VRAM a line of the picture is read from: an odd page        *)
(* alternates with the even one below it when fields alternate.            *)
ShownLine(y) ==
  LET page == Num(s.hw[2] \cap (IF s.g.screen_mode < G6 THEN {5, 6} ELSE {5})) \div 32
  IN IF ~ Interlaced \subseteq s.hw[9] THEN <<page, y>>
     ELSE IF page % 2 = 1 THEN <<page - 1 + (y % 2), y \div 2>> ELSE <<page, y \div 2>>

Height == (IF 7 \in s.hw[9] THEN 212 ELSE 192) * (IF Interlaced \subseteq s.hw[9] THEN 2 ELSE 1)

VdpAddress(line, x) ==
  line[1] * (IF s.g.screen_mode < G6 THEN 32768 ELSE 65536)
    + line[2] * RowOf(s) + x \div 2^ShiftOf(s)

(***************************************************************************)
(* Properties.                                                             *)
(***************************************************************************)
On == status = "on"

(* While BL has the screen its copy is what the registers hold, after      *)
(* other programs had it, too.                                             *)
ShadowIsHardware == On => \A r \in Reg \ (IF v9958 THEN {} ELSE Late) : s.g.reg_shadow[r] = s.hw[r]

(* While BL has not got it, the system's copy is what they hold.           *)
SystemInStep == ~On => \A r \in SystemRegs \ (IF v9958 THEN {} ELSE Late) : sys[r] = s.hw[r]

(* There is always a copy that is right.                                   *)
CopiesRight == ShadowIsHardware /\ SystemInStep

(* What was set, in whatever order and under whatever screen mode since,   *)
(* is what the processor does: no call undoes another's bits of a register *)
(* they share.                                                             *)
FieldsInHardware ==
  (On /\ HasMode) =>
    LET g == s.g  hw == s.hw IN
    /\ hw[0] \cap {1, 2, 3} = ModeBits[g.screen_mode + 1]
    /\ hw[1] \cap {3, 4} = TextBits[g.screen_mode + 1]
    /\ hw[1] \cap {0, 1} = g.sprite_mode
    /\ hw[8] \cap {1, 5} = Bit(~g.sprite_on, 1) \cup Bit(g.palette0_on, 5)
    /\ (7 \in hw[9]) = g.line_212 /\ g.height = (IF g.line_212 THEN 212 ELSE 192)
    /\ hw[9] \cap DispMask = g.display_mode
    /\ g.interlace_on = (Interlaced \subseteq hw[9])
    /\ hw[18] = Bits(AdjToReg(g.adjust_h) + 16 * AdjToReg(g.adjust_v))
    /\ hw[23] = Bits(g.scroll_v)
    /\ v9958 => /\ hw[25] \cap {0, 1} = g.scroll_mode /\ hw[25] \cap {3, 4} = g.yae_yjk_mode
                /\ (8 * Num(hw[26]) - Num(hw[27])) % 512 = g.scroll_h % 512

(* The processor is set as the program asked, and so is every copy of its  *)
(* registers (bl_grp_update_reg_bit and the functions that call it).       *)
RegistersRight == CopiesRight /\ FieldsInHardware

(* Whether the display is on and interrupts are enabled, bits of registers *)
(* the mode is in, too, is changed by the functions for it alone.          *)
EnablesKept ==
  [][(status = "on" /\ status' = "on") =>
       \/ s'.hw[0] \cap {4} = s.hw[0] \cap {4} /\ s'.hw[1] \cap {5, 6} = s.hw[1] \cap {5, 6}
       \/ \E on \in BOOLEAN : s' \in {SetIrqVblank(s, on), SetIrqHblank(s, on), SetDisplayOn(s, on)}]_vars

Settled == On /\ HasMode /\ Bitmap(s) /\ fresh = {"view", "active"} /\ s.g.view_page = s.g.active_page

(* When the page drawn on is the page shown, a pixel drawn at a line of    *)
(* the picture is shown at that line, interlaced or not, and reading or    *)
(* printing it finds the same byte of VRAM.                                *)
DrawnIsShown ==
  Settled => \A y \in {l \in LineSample \cup {l + 212 : l \in LineSample} : l < Height} :
               /\ PutLine(s, y) = ShownLine(y)
               /\ \A x \in {0, 1, 255} :
                    /\ ~s.g.interlace_on => GetAddress(s, x, y) = VdpAddress(ShownLine(y), x)
                    /\ PrintAddress(s, x, y - (y % 2)) = VdpAddress(ShownLine(y - (y % 2)), x)

(* Clearing fills the lines shown, all of them and no other line.          *)
ClearExact ==
  [][(Settled /\ FillPages(ClearedLines(s))) =>
       filled' = {line \in (0..3) \X LineSample :
                    \E ln \in 0..Height - 1 : ShownLine(ln) = line}]_vars
==============================================================================
