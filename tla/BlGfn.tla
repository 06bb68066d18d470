-------------------------------- MODULE BlGfn --------------------------------
(***************************************************************************)
(* BLGFN.C: printing on graphic and text screens.  A program sets a screen *)
(* and a font, a position in dots, and prints ASCII and Korean text,       *)
(* cursors and backspaces.  The library keeps the position twice, as a     *)
(* 16-bit address (vram_faddr) and as the bytes that the video processor   *)
(* takes (bl_vdp_vram_l, _m, _h), and moves both as it prints.             *)
(*                                                                         *)
(* A Korean character is two bytes, a code of KS (table ks2kssm converts   *)
(* it) or KSSM, which holds three letters of 5 bits.  A glyph is composed  *)
(* of the glyphs of font_kr for its letters: 8 sets of initials, 4 of      *)
(* vowels and 4 of finals.                                                 *)
(* The functions that draw a glyph, bl_draw_font_g4 and the like, are      *)
(* external: each draws at the position and moves it by the font's width.  *)
(***************************************************************************)
EXTENDS Integers, Sequences, SequencesExt

CONSTANTS
  Screens,   \* screen modes, of {1, 3, 6, 7, 8, 9}: T2, G1, G4, G5, G6, G7
  Sizes,     \* font sizes [w, h]
  Places,    \* positions in dots
  Texts,     \* sequences of Characters
  Letters,   \* codes printed one at a time
  Inks,      \* colours [fg, bg] of characters and of what is around them
  MaxBack,   \* most characters to go back by
  KsOf,      \* ks2kssm: [index -> [cho, jung, jong]]
  ActivePages, \* active pages
  MaxPrints  \* bound: calls

(* A syllable is an initial, a vowel and a final; 0 is none.               *)
Syllables == [cho : 0..19, jung : 0..21, jong : 0..27]
Characters == [code : 1..255] \cup Syllables

ASSUME GfnAssumption ==
  /\ Screens \subseteq {1, 3, 6, 7, 8, 9} /\ MaxPrints \in Nat /\ ActivePages \subseteq 0..3
  /\ Sizes \subseteq [w : Nat \ {0, 1}, h : Nat]
  /\ Places \subseteq Nat \X Nat
  /\ Texts \subseteq Seq(Characters) /\ Letters \subseteq 1..255
  /\ Inks \subseteq [fg : 0..255, bg : 0..255] /\ MaxBack \in Nat
  /\ \A n \in DOMAIN KsOf : n \in Nat /\ n < 2350 /\ KsOf[n] \in Syllables

VARIABLES
  scr,    \* [mode, il, page]: screen_mode, interlace_on and active page
  kr,     \* print_kr_mode
  font,   \* font_width, font_height, font_width_byte, text_width, colours, font_h16
  func,   \* font_text_mode and font_func
  faddr,  \* vram_faddr
  vdp,    \* bl_vdp_vram_l, _m, _h
  drawn,  \* glyphs the last call drew, in order
  cur,    \* history: where the next character belongs, in dots
  wanted, \* history: what the last call should have drawn
  sized,  \* history: was the font sized for this screen?
  prints

gfnVars == <<scr, kr, font, func, faddr, vdp, drawn, cur, wanted, sized, prints>>

Text(mode) == mode \in 0..5 \ {2}
FontRowBytes == <<40, 80, 32, 32, 32, 32, 128, 128, 256, 256>>
Row == FontRowBytes[scr.mode + 1]

(* Dots to a byte: what a shift by bpp_shift divides by.                   *)
DotsPerByte == <<8, 8, 2, 8, 8, 8, 2, 4, 2, 1>>
PerByte == DotsPerByte[scr.mode + 1]
Backspace == 8
Space == 32

(***************************************************************************)
(* Syllables: as bytes, and their glyphs.                                  *)
(***************************************************************************)
IsSyllable(ch) == "cho" \in DOMAIN ch
Ascii(code) == [code |-> code]
KssmCode(cho, jung, jong) == 32768 + cho * 1024 + jung * 32 + jong

(* KSSM: code 1 of an initial or a final and 2 of a vowel stand for none,  *)
(* and the vowels' and finals' codes leave gaps.                           *)
Kssm(ch) ==
  KssmCode(ch.cho + 1,
           ch.jung + (IF ch.jung <= 5 THEN 2 ELSE IF ch.jung <= 11 THEN 4 ELSE IF ch.jung <= 17 THEN 6 ELSE 8),
           ch.jong + (IF ch.jong <= 16 THEN 1 ELSE 2))

(* The bytes of a character: a KS code counts 94 to a row from B0A1H.      *)
Bytes(ch) ==
  IF ~IsSyllable(ch) THEN <<ch.code>>
  ELSE IF kr = 1
  THEN LET n == CHOOSE n \in DOMAIN KsOf : KsOf[n] = ch IN <<176 + (n \div 94), 161 + (n % 94)>>
  ELSE <<Kssm(ch) \div 256, Kssm(ch) % 256>>

(* Can the text be printed in this mode?                                   *)
Printable(text) ==
  \A n \in DOMAIN text :
    IF IsSyllable(text[n]) THEN kr = 2 \/ (kr = 1 /\ \E k \in DOMAIN KsOf : KsOf[k] = text[n])
                           ELSE kr = 0 \/ text[n].code < 128

Encode(text) == FlattenSeq([n \in DOMAIN text |-> Bytes(text[n])])

TableCho == <<0, 0, 1, 2, 3, 4, 5, 6, 7, 8, 9, 10, 11, 12, 13, 14, 15, 16, 17, 18, 19>>
TableJung == <<0, 0, 0, 1, 2, 3, 4, 5, 0, 0, 6, 7, 8, 9, 10, 11, 0, 0, 12, 13, 14, 15, 16, 17, 0, 0, 18, 19, 20, 21>>
TableJong == <<0, 0, 1, 2, 3, 4, 5, 6, 7, 8, 9, 10, 11, 12, 13, 14, 15, 16, 0, 17, 18, 19, 20, 21, 22, 23, 24, 25, 26, 27>>
BulCho1 == <<0, 0, 0, 0, 0, 0, 0, 0, 0, 1, 3, 3, 3, 1, 2, 4, 4, 4, 2, 1, 3, 0>>
BulCho2 == <<0, 5, 5, 5, 5, 5, 5, 5, 5, 6, 7, 7, 7, 6, 6, 7, 7, 7, 6, 6, 7, 5>>
BulJong == <<0, 0, 2, 0, 2, 1, 2, 1, 2, 3, 0, 2, 1, 3, 3, 1, 2, 1, 3, 3, 1, 1>>

(* bl_grp_make_font_k: the glyphs of font_kr it lays over each other.      *)
MakeFont(code) ==
  LET cho == TableCho[((code \div 1024) % 32) + 1]
      jung == TableJung[((code \div 32) % 32) + 1]
      jong == TableJong[(code % 32) + 1]
      narrow == cho \in {1, 16}
      choSet == IF jung = 0 THEN IF jong = 0 THEN 1 ELSE 6
                ELSE IF jong = 0 THEN BulCho1[jung + 1] ELSE BulCho2[jung + 1]
      jungSet == IF jung = 0 THEN 0 ELSE (IF jong = 0 THEN 0 ELSE 2) + (IF narrow THEN 0 ELSE 1)
      jongSet == IF jung = 0 THEN 1 ELSE BulJong[jung + 1]
  IN {choSet * 20 + cho, 160 + jungSet * 22 + jung}
     \cup (IF jong = 0 THEN {} ELSE {248 + jongSet * 28 + jong})

(* ks2kssm[] for a KS code.                                                *)
FromKs(hi, lo) == Kssm(KsOf[(hi - 176) * 94 + lo - 161])

(***************************************************************************)
(* Fonts and screens.                                                      *)
(***************************************************************************)
TextWidth(mode, w) ==
  CASE mode = 0 -> 40 [] mode = 1 -> 80 [] mode \in {3, 4, 5} -> 32
    [] mode = 2 -> 64 \div w [] mode \in {7, 8} -> 512 \div w [] OTHER -> 256 \div w

SizedFont(f, mode, w, h) ==
  LET even == w - (w % 2)
  IN [f EXCEPT !.w = even, !.h = h, !.wb = even \div DotsPerByte[mode + 1],
               !.rows = IF h > 8 THEN 16 ELSE 8, !.columns = TextWidth(mode, even)]

(* bl_grp_setup_font_draw_func: nothing is drawn on text screens.          *)
DrawFunc(mode, il) == [text |-> Text(mode), draw |-> IF Text(mode) THEN <<>> ELSE <<mode, il>>]

GfnInit ==
  /\ \E mode \in Screens, page \in ActivePages :
       /\ scr = [mode |-> mode, il |-> FALSE, page |-> page]
       /\ func = DrawFunc(mode, FALSE)
       /\ font = SizedFont([w |-> 0, h |-> 0, wb |-> 0, rows |-> 8, columns |-> 0, fg |-> 15, bg |-> 4], mode, 8, 8)
  /\ kr = 0 /\ sized = TRUE
  /\ faddr = 0 /\ vdp = [l |-> 0, m |-> 0, h |-> 0]
  /\ drawn = <<>> /\ wanted = <<>> /\ cur = <<>> /\ prints = 0

Quiet == drawn' = <<>> /\ wanted' = <<>>

(* bl_grp_set_screen_mode and bl_grp_set_display_mode: font sizes follow   *)
(* in some modes only; in the others the sizes of the mode before stay.    *)
SetScreen(mode, il, page) ==
  /\ Quiet /\ cur' = <<>>
  /\ scr' = [mode |-> mode, il |-> il, page |-> page]
  /\ func' = DrawFunc(mode, il)
  /\ font' = CASE mode \in {0, 1} -> SizedFont(font, mode, 6, 8)
               [] mode \in {3, 4, 6} -> SizedFont(font, mode, 8, 8)
               [] OTHER -> font
  /\ sized' = (mode \in {0, 1, 3, 4, 6} \/ (mode = scr.mode /\ sized))
  /\ UNCHANGED <<kr, faddr, vdp>>

SetFontSize(w, h) ==
  /\ Quiet /\ font' = SizedFont(font, scr.mode, w, h)
  /\ sized' = TRUE
  /\ UNCHANGED <<scr, kr, func, faddr, vdp, cur>>

SetFontColor(fg, bg) ==
  /\ Quiet /\ font' = [font EXCEPT !.fg = fg, !.bg = bg]
  /\ UNCHANGED <<scr, kr, func, faddr, vdp, cur, sized>>

SetPrintKr(mode) == Quiet /\ kr' = mode /\ UNCHANGED <<scr, font, func, faddr, vdp, cur, sized>>

(* The dots of a line, and the line of its page that shows line y.         *)
Width == IF Row = 256 /\ scr.mode = 9 THEN 256 ELSE IF scr.mode = 6 THEN 256 ELSE 512
PageLine(y) == IF scr.il THEN y \div 2 ELSE y

(* The address of a position; the name table is at 0 here.                 *)
Position(x, y) ==
  IF func.text THEN y * Row + x
  ELSE (PageLine(y) * Row + (x \div PerByte)) % 65536

(* bl_grp_print_pos: a text screen is printed on from page 0's start; a    *)
(* bitmap screen inside a page of 256 lines.                               *)
PrintPos(x, y) ==
  /\ func.text \/ (x < Width /\ PageLine(y) < 256)
  /\ Quiet /\ cur' = <<x, y>>
  /\ faddr' = Position(x, y)
  /\ vdp' = [l |-> faddr' % 256, m |-> (faddr' \div 256) % 64,
             h |-> IF func.text THEN 0 ELSE (faddr' \div 16384) + 2 * scr.page * (IF Row = 256 THEN 2 ELSE 1)]
  /\ UNCHANGED <<scr, kr, font, func, sized>>

(***************************************************************************)
(* Printing works on p == [f |-> vram_faddr, v |-> the bytes, out |->      *)
(* glyphs drawn].                                                          *)
(***************************************************************************)
Here == [f |-> faddr, v |-> vdp, out |-> <<>>]

Moved(p, d) ==
  [p EXCEPT !.f = (@ + d + 65536) % 65536, !.v.l = (@ + d + 256) % 256]

(* bl_draw_font_g4, _g5 and so on: external.                               *)
DrawFont(p, glyph, f) ==
  IF func.draw = <<>> THEN p
  ELSE [Moved(p, f.w \div PerByte) EXCEPT
         !.out = Append(@, [f |-> p.f, v |-> p.v, glyph |-> glyph, fg |-> f.fg, bg |-> f.bg,
                            w |-> f.w, h |-> f.h, draw |-> func.draw])]

(* _bl_grp_draw_w8: the rows of font_e from here.                          *)
DrawAscii(p, code, f) == DrawFont(p, <<"ascii", code * f.rows>>, f)

(* _bl_grp_draw_k_bs: a space over the character before; both positions    *)
(* end there.  Here the bytes _l and _m are one word.                      *)
StepBack(p) ==
  LET word == (p.v.m * 256 + p.v.l - font.wb + 65536) % 65536
  IN [p EXCEPT !.f = (@ - font.wb + 65536) % 65536, !.v.l = word % 256, !.v.m = word \div 256]

EraseBefore(p) ==
  LET back == StepBack(p)
      after == DrawAscii(back, Space, font)
  IN [after EXCEPT !.f = back.f, !.v.l = back.v.l, !.v.m = back.v.m]

(* The left and right halves of font_work, by _bl_grp_copy_font_k.         *)
DrawSyllable(p, hi, lo) ==
  LET parts == MakeFont(IF kr = 1 THEN FromKs(hi, lo) ELSE hi * 256 + lo)
  IN DrawFont(DrawFont(p, <<"left", parts>>, font), <<"right", parts>>, font)

(* _bl_grp_print_bitmap: what a byte does; `lead` is the first byte of a   *)
(* character whose second comes next, or 0.                                *)
PrintByte(s, b) ==
  IF s.lead # 0 THEN [p |-> DrawSyllable(s.p, s.lead, b), lead |-> 0]
  ELSE IF kr # 0 /\ b >= 128 THEN [p |-> s.p, lead |-> b]
  ELSE IF kr # 0 /\ b = Backspace THEN [p |-> EraseBefore(s.p), lead |-> 0]
  ELSE [p |-> DrawAscii(s.p, b, font), lead |-> 0]

(* After each byte of the string.                                          *)
PrintedTo(bytes) ==
  LET at[n \in 0..Len(bytes)] ==
        IF n = 0 THEN [p |-> Here, lead |-> 0] ELSE PrintByte(at[n - 1], bytes[n])
  IN at

Printed(bytes) == PrintedTo(bytes)[Len(bytes)].p

(* _bl_grp_print_pattern: the address is set once and counts by itself;    *)
(* the position kept does not move.                                        *)
Listed(bytes) ==
  [Here EXCEPT !.out = [n \in 1..Len(bytes) |->
     [addr |-> vdp.h * 16384 + vdp.m * 256 + vdp.l + n - 1, code |-> bytes[n]]]]

FontShown(p) == faddr' = p.f /\ vdp' = p.v /\ drawn' = p.out

(***************************************************************************)
(* What a text should look like: characters side by side from `cur`.       *)
(***************************************************************************)
FontColours == <<font.fg, font.bg>>
Cell(x, glyph, colours) ==
  [x |-> x, y |-> cur[2], glyph |-> glyph, fg |-> colours[1], bg |-> colours[2]]

(* The shape a syllable asks of its letters, from the vowel it is around.  *)
UprightJung == 1..8 \cup {21}
Above == {9, 13, 19}
Below == {14, 18}
FinalsUnder ==
  [j \in 1..21 |-> IF j \in {1, 3, 10} THEN 0 ELSE IF j \in {5, 7, 12, 15, 17, 20, 21} THEN 1
                   ELSE IF j \in {2, 4, 6, 8, 11, 16} THEN 2 ELSE 3]
Composed(ch) ==
  LET final == ch.jong # 0
      choSet == CASE ch.jung = 0 -> IF final THEN 6 ELSE 1
                  [] ch.jung \in UprightJung -> IF final THEN 5 ELSE 0
                  [] ch.jung \in Above -> IF final THEN 6 ELSE 1
                  [] ch.jung \in Below -> IF final THEN 6 ELSE 2
                  [] ch.jung \in 15..17 -> IF final THEN 7 ELSE 4
                  [] OTHER -> IF final THEN 7 ELSE 3
      jungSet == IF ch.jung = 0 THEN 0 ELSE IF ch.cho \in {1, 16}
                 THEN (IF final THEN 2 ELSE 0) ELSE IF final THEN 3 ELSE 1
      jongSet == IF ch.jung = 0 THEN 1 ELSE FinalsUnder[ch.jung]
  IN {choSet * 20 + ch.cho, 160 + jungSet * 22 + ch.jung}
     \cup (IF final THEN {248 + jongSet * 28 + ch.jong} ELSE {})

AsciiGlyph(code) == <<"ascii", code * (IF font.h > 8 THEN 16 ELSE 8)>>

(* What a character adds to the cells, and the position after it.          *)
LookAt(look, ch) ==
  IF IsSyllable(ch)
  THEN [x |-> look.x + 2 * font.w,
        cells |-> look.cells \o <<Cell(look.x, <<"left", Composed(ch)>>, FontColours),
                                  Cell(look.x + font.w, <<"right", Composed(ch)>>, FontColours)>>]
  ELSE IF ch.code = Backspace /\ kr # 0
  THEN [x |-> look.x - font.w,
        cells |-> Append(look.cells, Cell(look.x - font.w, AsciiGlyph(Space), FontColours))]
  ELSE [x |-> look.x + font.w,
        cells |-> Append(look.cells, Cell(look.x, AsciiGlyph(ch.code), FontColours))]

(* The cells and the position after each character.                        *)
LookTo(text) ==
  LET look[n \in 0..Len(text)] ==
        IF n = 0 THEN [x |-> cur[1], cells |-> <<>>] ELSE LookAt(look[n - 1], text[n])
  IN look

Look(text) == LookTo(text)[Len(text)]

(***************************************************************************)
(* Calls that print.  Programs print where they set a position on the      *)
(* screen, inside a line, in a font of whole bytes sized for the screen.   *)
(***************************************************************************)
Placed ==
  /\ cur # <<>> /\ sized
  /\ Text(scr.mode) \/ font.w % PerByte = 0

(* Characters do not pass the ends of the line.                            *)
Fits(text) == \A n \in 1..Len(text) : LookTo(text)[n].x \in 0..Width - 1

PrintStr(text) ==
  /\ Placed /\ Printable(text)
  /\ IF func.text
     THEN /\ \A n \in DOMAIN text : ~IsSyllable(text[n])
          /\ FontShown(Listed(Encode(text)))
          /\ wanted' = text /\ cur' = cur
     ELSE /\ Fits(text)
          /\ FontShown(Printed(Encode(text)))
          /\ wanted' = Look(text).cells /\ cur' = <<Look(text).x, cur[2]>>
  /\ UNCHANGED <<scr, kr, font, func, sized>>

(* bl_grp_print_backspace, and bl_grp_print_asc for other characters.      *)
PrintAsc(ch) ==
  /\ Placed /\ ~func.text
  /\ IF ch = Backspace
     THEN /\ cur[1] >= font.w
          /\ FontShown(Moved(DrawAscii(Moved(Here, -font.wb), Space, font), -font.wb))
          /\ wanted' = <<Cell(cur[1] - font.w, AsciiGlyph(Space), FontColours)>>
          /\ cur' = <<cur[1] - font.w, cur[2]>>
     ELSE /\ Fits(<<Ascii(ch)>>)
          /\ FontShown(DrawAscii(Here, ch, font))
          /\ wanted' = <<Cell(cur[1], AsciiGlyph(ch), FontColours)>>
          /\ cur' = <<cur[1] + font.w, cur[2]>>
  /\ UNCHANGED <<scr, kr, font, func, sized>>

(* Mutant: vram_faddr stays behind the cursor.                             *)
Cursor_Moves(f) ==
  LET p == DrawAscii(Here, Space, f) IN [p EXCEPT !.v.l = vdp.l]

(* bl_grp_print_cursor: the position stays.                                *)
Cursor(f) ==
  LET p == DrawAscii(Here, Space, f) IN [p EXCEPT !.f = faddr, !.v.l = vdp.l]

(* bl_grp_print_cursor_draw and _erase: a space, in inverted colours and   *)
(* in the font's.                                                          *)
PrintCursor(on) ==
  /\ Placed /\ ~func.text
  /\ FontShown(Cursor(IF on THEN [font EXCEPT !.fg = font.bg, !.bg = font.fg] ELSE font))
  /\ wanted' = <<Cell(cur[1], AsciiGlyph(Space), IF on THEN <<font.bg, font.fg>> ELSE FontColours)>>
  /\ UNCHANGED <<scr, kr, font, func, cur, sized>>

(* bl_grp_print_back: the distance is a byte.                              *)
PrintBack(count) ==
  /\ Placed /\ ~func.text /\ cur[1] >= count * font.w
  /\ FontShown(Moved(Here, -((font.wb * count) % 256)))
  /\ wanted' = <<>> /\ cur' = <<cur[1] - count * font.w, cur[2]>>
  /\ UNCHANGED <<scr, kr, font, func, sized>>

GfnCall ==
  \/ \E mode \in Screens, il \in BOOLEAN, page \in ActivePages :
       (il => mode \in 6..9) /\ SetScreen(mode, il, page)
  \/ \E z \in Sizes : SetFontSize(z.w, z.h)
  \/ \E ink \in Inks : SetFontColor(ink.fg, ink.bg)
  \/ \E m \in 0..2 : SetPrintKr(m)
  \/ \E p \in Places : PrintPos(p[1], p[2])
  \/ \E text \in Texts : PrintStr(text)
  \/ \E ch \in Letters : PrintAsc(ch)
  \/ \E on \in BOOLEAN : PrintCursor(on)
  \/ \E n \in 1..MaxBack : PrintBack(n)

GfnNext == prints < MaxPrints /\ prints' = prints + 1 /\ GfnCall

GfnSpec == GfnInit /\ [][GfnNext]_gfnVars

(***************************************************************************)
(* Properties.                                                             *)
(***************************************************************************)
(* Where a cell belongs: the line of its page that shows it, one line in   *)
(* two of an interlaced screen being on each page.                         *)
Belongs(x, y) ==
  scr.page * (IF Row = 256 THEN 65536 ELSE 32768) + PageLine(y) * Row + ((x * Row) \div Width)

Full(v) == v.h * 16384 + v.m * 256 + v.l

(* A glyph drawn is what a cell asks for, where it asks for it, by either  *)
(* of the positions the library keeps.                                     *)
PlacedAt(d, x, y) == Full(d.v) = Belongs(x, y) /\ d.f % 16384 = Full(d.v) % 16384
DrawnAs(d, c) ==
  /\ PlacedAt(d, c.x, c.y)
  /\ d.glyph = c.glyph /\ d.fg = c.fg /\ d.bg = c.bg
  /\ d.w = font.w /\ d.h = font.h /\ d.draw = <<scr.mode, scr.il>>

(* What a call of bl_grp_print_* draws is what its text says: every        *)
(* character, each syllable from the letters and shapes its vowel calls    *)
(* for, in the font's colours, side by side from where the calls before    *)
(* left off, on the page and line shown, backspaces erasing the character  *)
(* before; and the two positions the library keeps stay one.               *)
PrintedExact ==
  IF func.text
  THEN drawn = [n \in DOMAIN wanted |-> [addr |-> Full(vdp) + n - 1, code |-> wanted[n].code]]
  ELSE /\ Len(drawn) = Len(wanted)
       /\ \A n \in DOMAIN drawn : DrawnAs(drawn[n], wanted[n])
       /\ cur # <<>> /\ sized => Full(vdp) = Belongs(cur[1], cur[2]) \/ font.w % PerByte # 0
=============================================================================
