----------------------------- MODULE MCGraphics -----------------------------
(***************************************************************************)
(* The parts of the graphics library: registers and modes, drawing,        *)
(* loading, printing, and sprites with the palette.  A behaviour runs one  *)
(* of them.                                                                *)
(***************************************************************************)
EXTENDS BlGrp, BlGcm, BlGrc, BlGfn, BlSprite

VARIABLE part \* the part of this behaviour

(* Text with 40 columns as MSX-DOS sets it up; and a game's interlaced     *)
(* screen, its display adjusted, scrolled, and a V9958's registers in use. *)
DosScreen == [r \in Reg |-> CASE r = 1 -> {4, 5, 6} [] r = 7 -> {2, 4, 5, 6, 7} [] OTHER -> {}]
GameScreen ==
  [r \in Reg |-> CASE r = 0 -> {1, 2, 4} [] r = 1 -> {5, 6, 1} [] r = 2 -> {0, 1, 2, 3, 4, 5}
                   [] r = 9 -> {2, 3, 7} [] r = 18 -> {0, 7} [] r = 23 -> {3} [] r = 26 -> {1}
                   [] OTHER -> {0, 1}]
MCAdjusts == {-8, 3}
MCForeign == {DosScreen, GameScreen}

Syllable_(c, v, f) == [cho |-> c, jung |-> v, jong |-> f]
(* The first and last syllables of the KS table and two between.           *)
MCKsOf == [n \in {0, 1, 95, 2349} |->
             CASE n = 0 -> Syllable_(1, 1, 0) [] n = 1 -> Syllable_(1, 1, 1)
               [] n = 95 -> Syllable_(3, 14, 17) [] OTHER -> Syllable_(19, 21, 27)]
MCTexts ==
  {<<Ascii(65), Ascii(66)>>, <<Ascii(65), Ascii(8), Ascii(67)>>, <<Syllable_(1, 1, 0), Ascii(65)>>,
   <<Ascii(67), Syllable_(3, 14, 17), Ascii(8)>>, <<Syllable_(19, 21, 27)>>}
    \cup {<<Syllable_(c, v, f)>> : c \in {1, 2, 16}, v \in 0..21, f \in {0, 16, 17}}
MCCircles == {<<n, n, n>> : n \in 0..24} \cup {<<n + 3, n + 1, n>> : n \in {0, 1, 6}}
MCInks == {[fg |-> 1, bg |-> 15]}
MCSizes == {[w |-> 8, h |-> 16], [w |-> 7, h |-> 8]}
MCPlaces == {<<0, 0>>, <<16, 201>>}
MCColours == {[r |-> 7, g |-> 7, b |-> 7], [r |-> 1, g |-> 6, b |-> 0]}

(* A part that is not run rests in one of its initial states.              *)
RegistersRest == ~msx2p /\ ~v9958 /\ sys = DosScreen
DrawRest == ~mc /\ ~il /\ page = 0
PrintRest == scr = [mode |-> 6, il |-> FALSE, page |-> 0]
SpriteRest == g.mode = 6

GraphicsInit ==
  /\ part \in {"registers", "draw", "load", "print", "sprites"}
  /\ Init /\ (part # "registers" => RegistersRest)
  /\ DrawInit /\ (part # "draw" => DrawRest)
  /\ GrcInit
  /\ GfnInit /\ (part # "print" => PrintRest)
  /\ SprInit /\ (part # "sprites" => SpriteRest)

GraphicsNext ==
  /\ UNCHANGED part
  /\ \/ part = "registers" /\ Next /\ UNCHANGED <<drawVars, grcVars, gfnVars, sprVars>>
     \/ part = "draw" /\ DrawNext /\ UNCHANGED <<vars, grcVars, gfnVars, sprVars>>
     \/ part = "load" /\ GrcNext /\ UNCHANGED <<vars, drawVars, gfnVars, sprVars>>
     \/ part = "print" /\ GfnNext /\ UNCHANGED <<vars, drawVars, grcVars, sprVars>>
     \/ part = "sprites" /\ SprNext /\ UNCHANGED <<vars, drawVars, grcVars, gfnVars>>

GraphicsSpec == GraphicsInit /\ [][GraphicsNext]_<<part, vars, drawVars, grcVars, gfnVars, sprVars>>
=============================================================================
