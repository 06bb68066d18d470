------------------------------ MODULE BlSprite ------------------------------
(***************************************************************************)
(* Sprites and palettes of BLGRP.C.  A screen mode has eight tables of     *)
(* sprites and eight of patterns in VRAM.  A program shows one and writes  *)
(* another; the registers say which is shown, bl_grp which is written.     *)
(* The palette is kept in bl_grp as the program set it; muting and         *)
(* monochrome change the video processor's only.                           *)
(***************************************************************************)
EXTENDS Integers, FiniteSets

CONSTANTS
  SprModes,   \* screen modes, of {3, 6, 9}: G1, G4, G7
  SprTables,  \* tables used
  GenTables,  \* pattern tables used
  Layers,     \* sprites used
  SprYs,      \* lines they are put at
  SprScrolls, \* vertical scrolls
  Colours,    \* [r, g, b]
  Entries,    \* palette entries used
  SprLines,   \* lines written to with bl_grp_write_vram
  MaxSprCalls \* bound: calls

ASSUME SpriteAssumption ==
  /\ SprModes \subseteq {3, 6, 9} /\ 0 \in SprTables
  /\ SprTables \subseteq 0..2 \* from 3 on colours may lie in the picture's lines
  /\ GenTables \subseteq {0}   \* pattern table 1 is where a table's colours are
  /\ Layers \subseteq 0..31 /\ SprYs \subseteq 0..255 /\ SprScrolls \subseteq 0..255
  /\ Colours \subseteq [r : 0..7, g : 0..7, b : 0..7]
  /\ Entries \subseteq 0..15 /\ SprLines \subseteq 0..211 /\ MaxSprCalls \in Nat

VARIABLES
  g,      \* bl_grp: mode, scroll, big, and the addresses of the tables shown and written
  regs,   \* registers 5, 6 and 11
  pal,    \* [own |-> bl_grp.palette, hw |-> the video processor's]
  vmem,   \* VRAM: address -> what was last written from there; Untouched
  put,    \* history: [table -> [layer -> the last sprite put there]]
  made,   \* history: colours made, as <<table, layer>>, and patterns, as <<table>>
  effect, \* history: the palette's effect, and the entries set since
  sprCalls

sprVars == <<g, regs, pal, vmem, put, made, effect, sprCalls>>

Mode2(mode) == mode >= 6
TableSpriteAttr(mode, p) ==
  CASE mode = 3 -> 6912 + 128 * p
    [] mode \in {6, 7} -> 30208 - 1024 * p
    [] OTHER -> <<64000, 65024, 59904, 60928, 55808, 56832, 51712, 52736>>[p + 1]
TableSpriteGen(mode, p) ==
  CASE mode = 3 -> 14336 - 2048 * p
    [] mode \in {6, 7} -> 30720 - 2048 * p
    [] OTHER -> 61440 - 2048 * p

(* bits 7 to 9 are or-ed to the address in sprite mode 2                   *)
AttrFix(mode, a) == IF Mode2(mode) THEN a - (a % 1024) + 896 + (a % 128) ELSE a

(***************************************************************************)
(* Tables.                                                                 *)
(***************************************************************************)
(* bl_grp_set_sprite_view, bl_grp_set_sprite_attr_view_addr.               *)
SprView(p) ==
  [regs EXCEPT !.r5 = (AttrFix(g.mode, TableSpriteAttr(g.mode, p)) \div 128) % 256,
               !.r11 = (TableSpriteAttr(g.mode, p) \div 32768) % 2]

(* bl_grp_set_sprite_active.                                               *)
SprActive(p) == [g EXCEPT !.attr = TableSpriteAttr(g.mode, p), !.table = p]

(* bl_grp_set_sprite_gen_view.                                             *)
GenView(p) == [regs EXCEPT !.r6 = (TableSpriteGen(g.mode, p) \div 2048) % 32]

VramAddrGen(no) == g.gen + no * 8
VramAddrCol(layer) == g.attr - 512 + layer * 16
VramAddrAttr(layer) == g.attr + layer * 4

Init16(n) == <<0, 0, 1553, 1843, 279, 807, 337, 1575, 369, 883, 1633, 1636, 1041, 613, 1365, 1911>>[n + 1]

NoSprite == [line |-> -1, x |-> 0, no |-> 0, colour |-> 0, scroll |-> 0]

(* bl_grp and the registers after a mode is set: table 0 is shown and      *)
(* written.                                                                *)
SprFields(mode, scroll, big) ==
  [mode |-> mode, scroll |-> scroll, big |-> big, table |-> 0,
   attr |-> TableSpriteAttr(mode, 0), gen |-> TableSpriteGen(mode, 0)]
SprRegs(mode) ==
  [r5 |-> (AttrFix(mode, TableSpriteAttr(mode, 0)) \div 128) % 256,
   r11 |-> (TableSpriteAttr(mode, 0) \div 32768) % 2,
   r6 |-> (TableSpriteGen(mode, 0) \div 2048) % 32]

(* bl_grp_set_screen_mode.                                                 *)
SprScreen(mode) ==
  /\ g' = SprFields(mode, g.scroll, g.big) /\ regs' = SprRegs(mode)
  /\ pal' = [pal EXCEPT !.hw = pal.own]
  /\ effect' = [kind |-> "none", since |-> {}]
  /\ put' = [p \in SprTables |-> [l \in Layers |-> NoSprite]]
  /\ vmem' = <<>> /\ made' = {}

SprInit ==
  /\ \E mode \in SprModes : g = SprFields(mode, 0, FALSE) /\ regs = SprRegs(mode)
  /\ pal = [own |-> [n \in Entries |-> Init16(n)], hw |-> [n \in Entries |-> Init16(n)]]
  /\ effect = [kind |-> "none", since |-> {}]
  /\ put = [p \in SprTables |-> [l \in Layers |-> NoSprite]]
  /\ vmem = <<>> /\ made = {} /\ sprCalls = 0

Picture == [kind |-> "picture"]
Tint == [kind |-> "colours"]
Pattern == [kind |-> "pattern"]

(* VRAM with v from address a on; and with size bytes of a picture.        *)
Write(a, v) == [b \in DOMAIN vmem \cup {a} |-> IF b = a THEN v ELSE vmem[b]]
Overwrite(a, size) == [b \in DOMAIN vmem |-> IF b \in a..a + size - 1 THEN Picture ELSE vmem[b]]

(* Mutant: a sprite may end the list.                                      *)
SpriteY_Stop(y) == (y + g.scroll + 255) % 256

(* y of a sprite, and not 216, which ends the list.                        *)
SpriteY(y) == LET s == (y + g.scroll) % 256 IN IF s # 217 THEN (s + 255) % 256 ELSE s

PutSprite(layer, x, y, c, no) ==
  /\ vmem' = Write(VramAddrAttr(layer),
                   [kind |-> "sprite", y |-> SpriteY(y), x |-> x, no |-> IF g.big THEN (no * 4) % 256 ELSE no, c |-> c])
  /\ put' = [put EXCEPT ![g.table][layer] =
               [line |-> y, x |-> x, no |-> IF g.big THEN no * 4 ELSE no, colour |-> c, scroll |-> g.scroll]]
  /\ UNCHANGED <<g, regs, pal, made, effect>>

(* bl_grp_clear_sprite: every sprite of the table to a line below.         *)
ClearSprite ==
  /\ LET n == (228 + g.scroll) % 256
         y == IF n # 217 THEN (n + 255) % 256 ELSE n
         at == {VramAddrAttr(l) : l \in Layers}
     IN vmem' = [b \in DOMAIN vmem \cup at |->
                   IF b \in at THEN [kind |-> "sprite", y |-> y, x |-> 0, no |-> 0, c |-> 0] ELSE vmem[b]]
  /\ put' = [put EXCEPT ![g.table] = [l \in Layers |-> [line |-> 228, x |-> 0, no |-> 0, colour |-> 0, scroll |-> g.scroll]]]
  /\ UNCHANGED <<g, regs, pal, made, effect>>

(* bl_grp_set_sprite_color and bl_grp_set_sprite_pattern_8x8 (external)    *)
(* write where the library's functions say.                                *)
SetSpriteColor(layer) ==
  /\ Mode2(g.mode)
  /\ vmem' = Write(VramAddrCol(layer), Tint)
  /\ made' = made \cup {<<g.table, layer>>}
  /\ UNCHANGED <<g, regs, pal, put, effect>>

SetSpritePattern ==
  /\ vmem' = Write(VramAddrGen(8), Pattern)
  /\ made' = made \cup {<<(TableSpriteGen(g.mode, 0) - g.gen) \div 2048>>}
  /\ UNCHANGED <<g, regs, pal, put, effect>>

(* bl_grp_write_vram: one line of the page drawn on, page 0 here.          *)
SprWriteLine(y) ==
  /\ Mode2(g.mode)
  /\ vmem' = LET row == IF g.mode = 6 THEN 128 ELSE 256 IN Overwrite(y * row, row)
  /\ UNCHANGED <<g, regs, pal, put, made, effect>>

(***************************************************************************)
(* Palettes: an entry is g << 8 | r << 4 | b.                              *)
(***************************************************************************)
Packed(c) == c.g * 256 + c.r * 16 + c.b

SetPalette(no, c) ==
  /\ pal' = [own |-> [pal.own EXCEPT ![no] = Packed(c)], hw |-> [pal.hw EXCEPT ![no] = Packed(c)]]
  /\ effect' = [effect EXCEPT !.since = @ \cup {no}]
  /\ UNCHANGED <<g, regs, vmem, put, made>>

(* bl_grp_get_palette: r << 8, g << 4, b.                                  *)
GetPalette(no) ==
  LET v == pal.own[no] IN ((v \div 16) % 16) * 256 + ((v \div 256) % 16) * 16 + (v % 16)

(* bl_grp_update_palette.                                                  *)
Shows(values) == [pal EXCEPT !.hw = values]

ResetPalette ==
  /\ pal' = [own |-> [n \in Entries |-> Init16(n)], hw |-> [n \in Entries |-> Init16(n)]]
  /\ effect' = [kind |-> "none", since |-> {}]
  /\ UNCHANGED <<g, regs, vmem, put, made>>

SetPaletteMute(on) ==
  /\ pal' = Shows([n \in Entries |-> IF on THEN 0 ELSE pal.own[n]])
  /\ effect' = [kind |-> IF on THEN "mute" ELSE "none", since |-> {}]
  /\ UNCHANGED <<g, regs, vmem, put, made>>

Mono(mode, v) ==
  LET y == (((v \div 16) % 8) * 299 + ((v \div 256) % 8) * 587 + (v % 8) * 114 + 500) \div 1000
  IN CASE mode = 1 -> y * 16 + (y \div 2) * 256
       [] mode = 2 -> y * 256
       [] mode = 3 -> y + (y \div 2) * 16
       [] OTHER -> y * 273

SetPaletteMono(mode) ==
  /\ pal' = Shows([n \in Entries |-> IF mode = 0 THEN pal.own[n] ELSE Mono(mode, pal.own[n])])
  /\ effect' = [kind |-> <<"none", "amber", "green", "redblue", "white">>[mode + 1], since |-> {}]
  /\ UNCHANGED <<g, regs, vmem, put, made>>

SprCall ==
  \/ \E mode \in SprModes : SprScreen(mode)
  \/ \E p \in SprTables : regs' = SprView(p) /\ UNCHANGED <<g, pal, vmem, put, made, effect>>
  \/ \E p \in SprTables : g' = SprActive(p) /\ UNCHANGED <<regs, pal, vmem, put, made, effect>>
  \/ \E p \in GenTables : regs' = GenView(p) /\ UNCHANGED <<g, pal, vmem, put, made, effect>>
  \/ \E p \in GenTables : g' = [g EXCEPT !.gen = TableSpriteGen(g.mode, p)] /\ UNCHANGED <<regs, pal, vmem, put, made, effect>>
  \/ \E on \in BOOLEAN : g' = [g EXCEPT !.big = on] /\ UNCHANGED <<regs, pal, vmem, put, made, effect>>
  \/ \E v \in SprScrolls : g' = [g EXCEPT !.scroll = v] /\ UNCHANGED <<regs, pal, vmem, put, made, effect>>
  \/ \E l \in Layers, y \in SprYs : PutSprite(l, 10, y, l % 16, 2)
  \/ ClearSprite
  \/ \E l \in Layers : SetSpriteColor(l)
  \/ SetSpritePattern
  \/ \E y \in SprLines : SprWriteLine(y)
  \/ \E no \in Entries, c \in Colours : SetPalette(no, c)
  \/ ResetPalette
  \/ \E on \in BOOLEAN : SetPaletteMute(on)
  \/ \E mode \in 0..4 : SetPaletteMono(mode)

SprNext == sprCalls < MaxSprCalls /\ sprCalls' = sprCalls + 1 /\ SprCall

SprSpec == SprInit /\ [][SprNext]_sprVars

(***************************************************************************)
(* Properties.                                                             *)
(***************************************************************************)
(* Where the video processor finds the sprites: in sprite mode 2 it forms  *)
(* bits 7 to 9 of the address itself.                                      *)
HwAttr ==
  LET base == regs.r11 * 32768 + regs.r5 * 128
  IN IF Mode2(g.mode) THEN base - (base % 1024) + 512 ELSE base
HwColour == HwAttr - 512
ShownTable == {p \in SprTables : TableSpriteAttr(g.mode, p) = HwAttr}

(* The y that ends the list.                                               *)
EndOfList == IF Mode2(g.mode) THEN 216 ELSE 208

(* The parts of the palette an effect leaves, of 0..7.                     *)
Parts(v) == [g |-> v \div 256, r |-> (v \div 16) % 16, b |-> v % 16]
Luma(v) == LET c == Parts(v) IN c.r * 299 + c.g * 587 + c.b * 114
Near(y, v) == y \in 0..7 /\ 1000 * y - Luma(v) <= 500 /\ Luma(v) - 1000 * y <= 500
Effected(kind, v, hw) ==
  LET c == Parts(hw) IN
  CASE kind = "none" -> hw = v
    [] kind = "mute" -> hw = 0
    [] kind = "amber" -> Near(c.r, v) /\ c.g = c.r \div 2 /\ c.b = 0
    [] kind = "green" -> Near(c.g, v) /\ c.r = 0 /\ c.b = 0
    [] kind = "redblue" -> Near(c.b, v) /\ c.r = c.b \div 2 /\ c.g = 0
    [] kind = "white" -> Near(c.r, v) /\ c.g = c.r /\ c.b = c.r

(* The table shown is one of the tables and holds the sprites last put     *)
(* there, with their colours and patterns, whatever was written to other   *)
(* tables and to the picture since: each sprite at its line, for the       *)
(* scroll it was put with, or one below, and none with the y that ends the *)
(* list (in sprite mode 2).  The colours shown are those the program set,  *)
(* under the effect it chose last but for those it set since; an effect    *)
(* taken back leaves what the program had set, and the program reads back  *)
(* what it set.                                                            *)
SpritesShown ==
  /\ Cardinality(ShownTable) = 1
  /\ \A p \in ShownTable, l \in Layers :
       LET want == put[p][l]
           a == HwAttr + 4 * l
       IN /\ want # NoSprite =>
               /\ a \in DOMAIN vmem /\ vmem[a].kind = "sprite"
               /\ vmem[a].x = want.x /\ vmem[a].no = want.no % 256 /\ vmem[a].c = want.colour
               /\ (vmem[a].y + 1 + 512 - want.scroll - want.line) % 256 \in {0, 1}
               /\ Mode2(g.mode) => vmem[a].y # EndOfList
          /\ <<p, l>> \in made => vmem[HwColour + 16 * l] = Tint
  /\ \A p \in GenTables :
       <<p>> \in made /\ TableSpriteGen(g.mode, p) = regs.r6 * 2048 => vmem[regs.r6 * 2048 + 64] = Pattern
  /\ \A n \in Entries :
       /\ Effected(IF n \in effect.since THEN "none" ELSE effect.kind, pal.own[n], pal.hw[n])
       /\ LET c == Parts(pal.own[n]) IN GetPalette(n) = c.r * 256 + c.g * 16 + c.b
=============================================================================
