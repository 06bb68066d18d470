---------------------------- MODULE TetrisScreen ----------------------------
(***************************************************************************)
(* What the player of EXAMPLE/0TETRIS.ROM/MAIN.C sees: main(), the title,  *)
(* the start and the end of a game, the playfield on page 2, the next      *)
(* blocks, the figures, the sprites of the falling block in two tables     *)
(* shown in turn, and the two key handlers.  A state is a moment at which  *)
(* the program waits for the frame timer or a key: what it does between    *)
(* two waits is one step.                                                  *)
(*                                                                         *)
(* Where a block may go is module Tetris; here it lands on any free cells  *)
(* of a block's rows.  The frames of an animation are one.                 *)
(***************************************************************************)
EXTENDS Naturals, FiniteSets

CONSTANTS
  Columns,   \* columns of the playfield
  Bottom,    \* its lowest row; rows are 0 .. Bottom
  Tall,      \* rows a block covers (4)
  Kinds,     \* types of blocks, of 0..6
  MaxGames,  \* bound: games
  MaxLanded  \* bound: blocks that land in a game

ASSUME ScreenAssumption ==
  /\ Columns \subseteq Nat /\ Bottom \in Nat /\ Tall \in Nat \ {0}
  /\ Kinds \subseteq 0..6 /\ MaxGames \in Nat /\ MaxLanded \in Nat

VARIABLES
  pc,      \* the wait the program is in
  rows,    \* check_layout_fill(): the row looked at, and the block's highest
  dsp,     \* display and sprites on, pages viewed and drawn on, border, palette, colour 15
  spr,     \* sprite_page, tables viewed and written, and the tables
  title_,  \* what rows 3..10 of page 1 show
  layout,  \* the playfield: a type, or Free
  page2,   \* the image each of its cells shows
  next,    \* blk_next0 and blk_next1, and what the screen shows in their places
  figures, \* score and the numbers of blocks, and what the screen shows
  piece,   \* the falling block: its type and its number
  music,   \* "none", "ready", "playing"
  timi,    \* are the BIOS's timer interrupts on?
  games,
  landed

scrVars == <<pc, rows, dsp, spr, title_, layout, page2, next, figures, piece, music, timi, games, landed>>

Field == Columns \X (0..Bottom)
Free == 9
Blank == 8    \* what is below the images on page 0: erased
Off == 0
Dark == 99    \* a row of the title not drawn yet
Nothing == [blk |-> Off, ghost |-> Off]
NoBlock == [kind |-> 0, n |-> 0]

(* The picture on page 0 that a cell is copied from: the border's value, 8, *)
(* is drawn with image 7, and there is none for free cells.                *)
Image(n) == IF n = Free THEN Blank ELSE n

ScrInit ==
  /\ pc = "boot" /\ rows = <<0, 0>>
  /\ dsp = [on |-> TRUE, sprites |-> TRUE, view |-> 0, active |-> 0, border |-> 4,
            palette |-> "system", c15 |-> 0]
  /\ spr = [page |-> 0, view |-> 0, active |-> 0, table |-> [t \in {0, 1} |-> Nothing]]
  /\ title_ = [r \in 3..10 |-> Dark]
  /\ layout = [c \in Field |-> Free] /\ page2 = [c \in Field |-> Blank]
  /\ next = [q |-> <<0, 0>>, seen |-> <<Blank, Blank>>]
  /\ figures = [score |-> 0, stat |-> [k \in Kinds |-> 0], seen |-> <<>>]
  /\ piece = NoBlock
  /\ music = "none" /\ timi = TRUE /\ games = 0 /\ landed = 0

(* setup_palette(): black, the blocks' colours, greys and white.           *)
Colours == "game"

(***************************************************************************)
(* Sprites.                                                                *)
(***************************************************************************)
(* Mutant: both tables are one.                                            *)
Flip_Shown(s) == [s EXCEPT !.view = s.page, !.page = 1 - s.page, !.active = s.page]

(* sprite_page_flip(): the table written is shown and the other written.   *)
Flip(s) == [s EXCEPT !.view = s.page, !.page = 1 - s.page, !.active = 1 - s.page]

(* setup_sprite(): bl_grp_clear_sprite, patterns and colours.              *)
SetupSprite(s) == [s EXCEPT !.table[s.active] = Nothing]
Put(s, blk, ghost) == [s EXCEPT !.table[s.active] = [blk |-> blk, ghost |-> ghost]]
TurnOff(s) == Flip(Put(s, Off, Off))

(* update_block_spr(), update_ghost_spr() and, after the wait for the      *)
(* frame, the flip.                                                        *)
UpdateScreen(s, n) == Flip(Put(s, n, n))

(***************************************************************************)
(* The program.                                                            *)
(***************************************************************************)
(* bl_grp_init() is called until it succeeds; then resource_init() and the *)
(* screen title() begins with.                                             *)
GrpInitFails == pc = "boot" /\ UNCHANGED scrVars

ResourceInit ==
  /\ pc = "boot" /\ pc' = "title"
  /\ timi' = FALSE /\ music' = "ready"
  /\ dsp' = [on |-> TRUE, sprites |-> FALSE, view |-> 1, active |-> 1, border |-> 0,
             palette |-> Colours, c15 |-> 15]
  /\ spr' = SetupSprite(Flip(SetupSprite(Flip([spr EXCEPT !.view = 0, !.active = 0]))))
  /\ title_' = [r \in 3..10 |-> Dark]
  /\ page2' = [c \in Field |-> Blank]
  /\ UNCHANGED <<rows, layout, next, figures, piece, games, landed>>

TitleRows == 0..6

(* A row of title_layout: the rows drawn move up one, and it comes to the  *)
(* lowest, growing from the smallest image.                                *)
TitleRow ==
  /\ pc = "title"
  /\ \E y \in TitleRows :
       /\ y = Cardinality({r \in DOMAIN title_ : title_[r] # Dark})
       /\ title_' = [r \in DOMAIN title_ |-> IF r < 10 THEN title_[r + 1] ELSE y]
       /\ pc' = IF y = 6 THEN "press" ELSE "title"
  /\ UNCHANGED <<rows, dsp, spr, layout, page2, next, figures, piece, music, timi, games, landed>>

(* "Push SPACE key": ESC leaves, with resource_deinit() and the rest of    *)
(* main().                                                                 *)
TitleEsc ==
  /\ pc = "press" /\ pc' = "done"
  /\ dsp' = [dsp EXCEPT !.border = 4, !.active = 0, !.view = 0, !.palette = "system"]
  /\ music' = "none" /\ timi' = TRUE
  /\ UNCHANGED <<rows, spr, title_, layout, page2, next, figures, piece, games, landed>>

Shown(stat, score) == <<stat, score>>

(* get_next_blk() up to its wait, and the rest of setup_new_blk() after    *)
(* it: the right block's picture moves to the left place.                  *)
Taken(kind) ==
  /\ next' = [next EXCEPT !.q = <<next.q[2], kind>>]
  /\ piece' = [kind |-> next.q[1], n |-> piece.n + 1]
NextShown == [next EXCEPT !.seen = <<next.seen[2], Image(next.q[2])>>]
Counted == [figures.stat EXCEPT ![piece.kind] = @ + 1]

(* SPACE: game_loop() begins; reset_layout() draws the field and the first *)
(* two next blocks, the first of which becomes the block at once.          *)
TitleSpace ==
  /\ pc = "press" /\ games < MaxGames /\ pc' = "first"
  /\ games' = games + 1 /\ landed' = 0
  /\ dsp' = [dsp EXCEPT !.on = TRUE, !.sprites = TRUE, !.active = 2, !.view = 2]
  /\ layout' = [c \in Field |-> Free]
  /\ page2' = [c \in Field |-> Image(Free)]
  /\ figures' = [score |-> 0, stat |-> [k \in Kinds |-> 0], seen |-> figures.seen]
  /\ \E a, b, c \in Kinds :
       /\ next' = [q |-> <<b, c>>, seen |-> <<Image(a), Image(b)>>]
       /\ piece' = [kind |-> a, n |-> 1]
  /\ spr' = Flip(spr)
  /\ UNCHANGED <<rows, title_, music, timi>>

(* The rest of the start, up to the first pass of the loop.                *)
Begin ==
  /\ pc = "first" /\ pc' = "loop"
  /\ next' = NextShown
  /\ figures' = [figures EXCEPT !.stat = Counted, !.seen = Shown(Counted, figures.score)]
  /\ spr' = UpdateScreen(TurnOff(spr), piece.n)
  /\ dsp' = [dsp EXCEPT !.c15 = piece.kind]
  /\ music' = "playing"
  /\ UNCHANGED <<rows, title_, layout, page2, piece, timi, games, landed>>

(* A pass that leaves the block falling.                                   *)
ScrPass ==
  /\ pc = "loop"
  /\ spr' = UpdateScreen(spr, piece.n)
  /\ UNCHANGED <<pc, rows, dsp, title_, layout, page2, next, figures, piece, music, timi, games, landed>>

BlockRows(y) == {c \in Field : c[2] \in y..y + Tall - 1}

(* draw_block(), and the wait before the sprites are turned off.           *)
LandOn(y, cells) ==
  /\ pc = "loop" /\ landed < MaxLanded
  /\ cells # {} /\ \A c \in cells : layout[c] = Free
  /\ layout' = [c \in Field |-> IF c \in cells THEN piece.kind ELSE layout[c]]
  /\ page2' = [c \in Field |-> IF c \in cells THEN Image(piece.kind) ELSE page2[c]]
  /\ pc' = "fill" /\ rows' = <<y + Tall - 1, y>>
  /\ landed' = landed + 1
  /\ UNCHANGED <<dsp, spr, title_, next, figures, piece, music, timi, games>>

Full(y) == \A x \in Columns : layout[<<x, y>>] # Free

(* The sprites go out once, before check_layout_fill().                    *)
Hidden == IF spr.table[spr.view] = Nothing THEN spr ELSE TurnOff(spr)

(* scroll_layout(): rows come down in layout and on the screen.            *)
Scroll(dy) ==
  /\ layout' = [c \in Field |-> IF c[2] \in 1..dy THEN layout[<<c[1], c[2] - 1>>] ELSE layout[c]]
  /\ page2' = [c \in Field |-> IF c[2] \in 1..dy THEN page2[<<c[1], c[2] - 1>>] ELSE page2[c]]

EraseRow ==
  /\ pc = "fill" /\ Full(rows[1])
  /\ Scroll(rows[1])
  /\ spr' = Hidden
  /\ figures' = [figures EXCEPT !.score = @ + 1]
  /\ UNCHANGED <<pc, rows, dsp, title_, next, piece, music, timi, games, landed>>

(* The row stays.  After the block's highest the next block is taken.      *)
KeepRow ==
  /\ pc = "fill" /\ ~Full(rows[1])
  /\ spr' = Hidden
  /\ IF rows[1] > rows[2]
     THEN rows' = [rows EXCEPT ![1] = @ - 1] /\ UNCHANGED <<pc, next, piece>>
     ELSE pc' = "next" /\ rows' = <<0, 0>> /\ \E kind \in Kinds : Taken(kind)
  /\ UNCHANGED <<dsp, title_, layout, page2, figures, music, timi, games, landed>>

(* After the waits of get_next_blk() and of the loop: the block's colour,  *)
(* the figures, and the first pass; or the end when it cannot fall.        *)
NewBlock(room) ==
  /\ pc = "next"
  /\ pc' = IF room THEN "loop" ELSE "over"
  /\ next' = NextShown
  /\ figures' = [figures EXCEPT !.stat = Counted, !.seen = Shown(Counted, figures.score)]
  /\ dsp' = [dsp EXCEPT !.c15 = piece.kind]
  /\ spr' = LET u == UpdateScreen(spr, piece.n) IN IF room THEN u ELSE TurnOff(u)
  /\ music' = IF room THEN "playing" ELSE "ready"
  /\ UNCHANGED <<rows, title_, layout, page2, piece, timi, games, landed>>

(* ESC in the loop.                                                        *)
Leave_ ==
  /\ pc = "loop" /\ pc' = "over"
  /\ spr' = TurnOff(spr) /\ music' = "ready"
  /\ UNCHANGED <<rows, dsp, title_, layout, page2, next, figures, piece, timi, games, landed>>

(* "GAME OVER" until ESC or SPACE, and title() again.                      *)
GameOver ==
  /\ pc = "over" /\ pc' = "title"
  /\ dsp' = [dsp EXCEPT !.active = 1, !.view = 1]
  /\ title_' = [r \in 3..10 |-> Dark]
  /\ UNCHANGED <<rows, spr, layout, page2, next, figures, piece, music, timi, games, landed>>

ScrNext ==
  \/ GrpInitFails \/ ResourceInit \/ TitleRow \/ TitleEsc \/ TitleSpace \/ Begin
  \/ ScrPass \/ Leave_ \/ GameOver
  \/ \E y \in 1..Bottom - Tall + 1 : \E cells \in SUBSET BlockRows(y) : LandOn(y, cells)
  \/ EraseRow \/ KeepRow
  \/ \E room \in BOOLEAN : NewBlock(room)

ScrSpec == ScrInit /\ [][ScrNext]_scrVars

(***************************************************************************)
(* Properties.                                                             *)
(***************************************************************************)
Playing == pc \notin {"boot", "title", "press", "done"}
InLoop == pc = "loop"

(* Whenever the player can look, the picture is that of the game's state:  *)
(* every cell of the field shows what layout holds; the next blocks and    *)
(* the figures are right; the sprites shown are all of one block, the one  *)
(* that falls, or all off, never a table that is being written, and colour *)
(* 15 is that block's; the title stands in its order; music plays in the   *)
(* loop only; and main() leaves the machine as MSX BASIC expects it.       *)
PictureTrue ==
  /\ Playing => /\ \A c \in Field : page2[c] = Image(layout[c])
                /\ dsp.view = 2 /\ dsp.active = 2
                /\ spr.view # spr.active
                /\ spr.table[spr.view].blk = spr.table[spr.view].ghost
  /\ InLoop => /\ next.seen = <<Image(next.q[1]), Image(next.q[2])>>
               /\ figures.seen = <<figures.stat, figures.score>>
               /\ spr.table[spr.view].blk = piece.n /\ dsp.c15 = piece.kind
               /\ landed + 1 = piece.n
  /\ (pc = "press") => \A r \in 4..10 : title_[r] = r - 4
  /\ (music = "playing") => Playing
  /\ pc \in {"over", "title", "press"} => spr.table[spr.view] = Nothing
  /\ (pc = "done") => /\ music = "none" /\ timi
                      /\ dsp.border = 4 /\ dsp.palette = "system" /\ dsp.view = 0 /\ dsp.active = 0
=============================================================================
