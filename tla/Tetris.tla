------------------------------- MODULE Tetris -------------------------------
(***************************************************************************)
(* The game of EXAMPLE/2TETRIS/TETRIS.C: game_loop() and what it calls.    *)
(* One step of the model is one pass of the loop, for the keys that        *)
(* key_req_update() found: any set of requests (its repeat delay is left   *)
(* out, so the model makes at least the requests the code makes).          *)
(* Drawing, sound, statistics and the queue of two next blocks are left    *)
(* out; screen positions are in dots from the playfield's corner.          *)
(***************************************************************************)
EXTENDS Integers, FiniteSets

CONSTANTS
  Width,      \* playable columns 2 .. Width + 1 (10)
  Height,     \* LAYOUT_H (23); row Height - 1 is the lower border
  NewX,       \* BLOCK_NEW_POS_X (5)
  Types,      \* the blocks used, of 0 .. 6
  Step,       \* FALL_STEP_1BLK (16)
  FallStep,   \* fall_step, by level
  LevelMax,   \* LEVEL_MAX (10)
  LevelUp,    \* lines from one level to the next (10)
  StopDelay,  \* STOP_DELAY (10)
  MaxBlocks   \* bound: blocks that land in a game

ASSUME GameAssumption ==
  /\ Width \in Nat /\ Height \in Nat /\ Height > 5
  /\ NewX \in 2..Width - 2
  /\ Types \subseteq 0..6
  /\ Step \in Nat /\ Step > 1
  /\ LevelMax \in Nat \ {0} /\ LevelUp \in Nat \ {0}
  /\ \A n \in 1..LevelMax : FallStep[n] \in 1..8 * Step
  /\ StopDelay \in Nat \ {0} /\ MaxBlocks \in Nat

VARIABLES
  blk,    \* the falling block: type, dir, pos x y, scr sx sy, ghost (its row in
          \* ghost_pos), move (blk_move_cnt), fall (blk_fall_cnt), stop (blk_stop_cnt) and the loop's state
  filled, \* the cells <<x, y>> of layout that blocks have filled
  score,  \* lines erased
  level,
  over,   \* has the loop ended?
  blocks, \* blocks landed so far
  drawn   \* history: the cells draw_block() filled last

vars == <<blk, filled, score, level, over, blocks, drawn>>

(***************************************************************************)
(* Blocks and the layout                                                   *)
(***************************************************************************)

(* block_shape: a hexadecimal digit p stands for the cell in column p % 4  *)
(* and row p \div 4 (block_pos).                                           *)
Shape == [t \in 0..6 |->
  CASE t = 0 -> <<{12, 13, 14, 15}, {1, 5, 9, 13}, {12, 13, 14, 15}, {1, 5, 9, 13}>>
    [] t = 1 -> <<{8, 9, 10, 14}, {5, 6, 9, 13}, {8, 12, 13, 14}, {6, 10, 13, 14}>>
    [] t = 2 -> <<{8, 9, 10, 12}, {5, 9, 13, 14}, {10, 12, 13, 14}, {5, 6, 10, 14}>>
    [] t = 3 -> <<{9, 10, 13, 14}, {9, 10, 13, 14}, {9, 10, 13, 14}, {9, 10, 13, 14}>>
    [] t = 4 -> <<{9, 10, 12, 13}, {5, 9, 10, 14}, {9, 10, 12, 13}, {5, 9, 10, 14}>>
    [] t = 5 -> <<{8, 9, 10, 13}, {5, 9, 10, 13}, {9, 12, 13, 14}, {5, 8, 9, 13}>>
    [] t = 6 -> <<{8, 9, 13, 14}, {6, 9, 10, 13}, {8, 9, 13, 14}, {6, 9, 10, 13}>>]

(* The cells block b covers when it is at column x and row y.              *)
Cells(b, x, y) ==
  {<<x + (p % 4), y + (p \div 4)>> : p \in Shape[b.type][b.dir + 1]}

(* Cells of layout_init that are empty (9): neither border nor outside.    *)
Playable == (2..Width + 1) \X (0..Height - 2)

(* check_layout_empty(), for the layout with these cells filled.           *)
EmptyIn(cells, b, x, y) == Cells(b, x, y) \subseteq Playable \ cells
Empty(b, x, y) == EmptyIn(filled, b, x, y)

(* setup_ghost_pos(): down from the block's row to the first row that has  *)
(* none free below it.                                                     *)
WithGhost(b, cells) ==
  LET stops == {y \in b.y..Height - 4 : y = Height - 4 \/ ~EmptyIn(cells, b, b.x, y + 1)}
  IN [b EXCEPT !.ghost = CHOOSE y \in stops : \A z \in stops : y <= z]

(* Mutant: only the row the block comes down to is tested.                 *)
Avail_OneRow(b, x) == b.y # 0 /\ Empty(b, x, b.y)

(* check_avail(), check_left_avail(), check_right_avail(), which differ in *)
(* the column x: while the block is between two rows both must be free.    *)
Avail(b, x) ==
  /\ b.y # 0
  /\ Empty(b, x, b.y)
  /\ b.fall = 0 \/ Empty(b, x, b.y - 1)

(***************************************************************************)
(* Lines                                                                   *)
(***************************************************************************)

(* check_line_full(): no cell between the walls is empty.                  *)
LineFull(cells, y) == \A x \in 2..Width + 1 : <<x, y>> \in cells \/ y = Height - 1

(* scroll_layout(): rows dy .. 1 take what the row above them holds.       *)
ScrollLayout(cells, dy) ==
  {c \in cells : c[2] > dy \/ c[2] = 0}
    \cup {<<c[1], c[2] + 1>> : c \in {d \in cells : d[2] < dy}}

(* The cells, score and level after one line is erased.                    *)
EraseLine(game, y) ==
  [game EXCEPT !.cells = ScrollLayout(@, y),
               !.score = @ + 1,
               !.level = IF (game.score + 1) % LevelUp = 0 /\ @ < LevelMax THEN @ + 1 ELSE @]

(* Mutant: the row that came down in place of an erased one is passed by.  *)
Look_Once(game) ==
  IF game.row < game.top THEN game
  ELSE IF LineFull(game.cells, game.row)
    THEN [EraseLine(game, game.row) EXCEPT !.row = @ - 1]
    ELSE [game EXCEPT !.row = @ - 1]

(* One pass of the loop of check_layout_fill(): a row that was erased is   *)
(* looked at again.                                                        *)
Look(game) ==
  IF game.row < game.top THEN game
  ELSE IF LineFull(game.cells, game.row) THEN EraseLine(game, game.row)
  ELSE [game EXCEPT !.row = @ - 1]

TwoLooks(game) == Look(Look(game))
FourLooks(game) == TwoLooks(TwoLooks(game))

(* check_layout_fill(): the four rows of the block, from the lowest up.    *)
(* Of those only the four can be full, so that eight looks are enough (see *)
(* LooksSuffice).                                                          *)
CheckLayoutFill(cells, y) ==
  FourLooks(FourLooks([cells |-> cells, score |-> score, level |-> level, row |-> y + 3, top |-> y]))

(***************************************************************************)
(* One pass of the loop                                                    *)
(***************************************************************************)

(* move_offset: the dots of a move to the next column, pass by pass.       *)
MoveOffset == <<3, 2, 2, 1>>
DotsLeft == [move \in 0..4 |-> <<8, 5, 3, 1, 0>>[move + 1]]

(* setup_new_blk(); the counters stay as they are.                         *)
SetupNewBlk(b, type) ==
  [b EXCEPT !.type = type, !.dir = 0, !.x = NewX, !.y = 0, !.sx = NewX * 8, !.sy = 0]

(* A block between two rows is put back to a multiple of 8 (STATE_DROP).   *)
Align(b) == IF b.fall = 0 THEN b ELSE [b EXCEPT !.sy = @ - (@ % 8), !.fall = 0]

(* A move to column x + dx begins.                                         *)
Shift(b, dx, state) ==
  IF Avail(b, b.x + dx)
    THEN WithGhost([b EXCEPT !.state = state, !.move = 1,
                             !.sx = @ + dx * MoveOffset[1], !.x = @ + dx], filled)
    ELSE b

(* A pass of STATE_LEFT or STATE_RIGHT.                                    *)
Sliding(b, dx, req) ==
  IF "drop" \in req
    THEN [b EXCEPT !.sx = @ + dx * DotsLeft[b.move], !.move = 4, !.state = "DROP"]
    ELSE [b EXCEPT !.sx = @ + dx * MoveOffset[b.move + 1], !.move = @ + 1,
                   !.state = IF b.move + 1 = 4 THEN "IDLE" ELSE @]

(* switch (state).                                                         *)
Control(b, req) ==
  CASE b.state = "IDLE" /\ "drop" \in req -> Align([b EXCEPT !.state = "DROP"])
    [] b.state = "IDLE" /\ "drop" \notin req /\ "left" \in req -> Shift(b, -1, "LEFT")
    [] b.state = "IDLE" /\ req \cap {"drop", "left", "right"} = {"right"} ->
         Shift(b, 1, "RIGHT")
    [] b.state = "IDLE" /\ req \cap {"drop", "left", "right"} = {} -> b
    [] b.state = "LEFT" -> Sliding(b, -1, req)
    [] b.state = "RIGHT" -> Sliding(b, 1, req)
    [] b.state = "DROP" -> Align(b)

(* Mutant: a rotation starts the stop counter anew.                        *)
Rotated_Resets(b, req) ==
  LET turned == [b EXCEPT !.dir = (@ + 1) % 4, !.stop = 0]
  IN IF "up" \in req /\ b.state # "DROP" /\ Avail(turned, b.x)
       THEN WithGhost(turned, filled) ELSE b

(* Rotation, taken back when there is no room.                             *)
Rotated(b, req) ==
  LET turned == [b EXCEPT !.dir = (@ + 1) % 4]
  IN IF "up" \in req /\ b.state # "DROP" /\ Avail(turned, b.x)
       THEN WithGhost(turned, filled) ELSE b

Steered(req) == Rotated(Control(blk, req), req)

(* The fall counter reaches this value when the block has come down a row. *)
RowEnd == 7 * Step + 1

(* n more counts: a dot for every Step of them, up to the end of the row.  *)
Count(b, n) ==
  LET to == IF b.fall + n >= RowEnd THEN RowEnd ELSE b.fall + n
  IN [b EXCEPT !.fall = IF to = RowEnd THEN 0 ELSE to,
               !.sy = @ + (to - 1) \div Step - (b.fall - 1) \div Step]

(* Mutant: an accelerated block goes a dot too far.                        *)
Falling_TooFar(b, req) ==
  IF "down" \in req /\ FallStep[level] < 2 * Step
    THEN LET once == [b EXCEPT !.fall = @ + Step, !.sy = @ + 1]
             twice == [once EXCEPT !.fall = @ + Step, !.sy = @ + 1]
             ended(c) == c.fall > RowEnd
         IN CASE ended(once) -> [once EXCEPT !.fall = 0]
              [] ~ended(once) /\ ended(twice) -> [twice EXCEPT !.fall = 0]
              [] ~ended(once) /\ ~ended(twice) -> twice
    ELSE Count(b, FallStep[level])

(* Between two rows: with the key down one or two dots, else the counts of *)
(* the level.                                                              *)
Falling(b, req) ==
  IF "down" \in req /\ FallStep[level] < 2 * Step
    THEN LET once == [b EXCEPT !.fall = @ + Step, !.sy = @ + 1]
             twice == [once EXCEPT !.fall = @ + Step, !.sy = @ + 1]
             ended(c) == c.fall >= RowEnd
         IN CASE ended(once) -> [once EXCEPT !.fall = 0]
              [] ~ended(once) /\ ended(twice) -> [twice EXCEPT !.fall = 0]
              [] ~ended(once) /\ ~ended(twice) -> twice
    ELSE Count(b, FallStep[level])

(* The next row is free: the block begins to fall, or drops a row at once. *)
NextRow(b) ==
  IF b.state = "DROP"
    THEN [b EXCEPT !.stop = 0, !.sy = @ + 8, !.y = @ + 1]
    ELSE [b EXCEPT !.stop = 0, !.sy = @ + 1, !.y = @ + 1, !.fall = 1]

(* while (!key_pressed(KEY_ESC)): the three ways a pass can go.            *)
Fall(req) ==
  LET b == Steered(req)
  IN /\ ~over
     /\ b.fall # 0
     /\ blk' = Falling(b, req)
     /\ UNCHANGED <<filled, score, level, over, blocks, drawn>>

Advance(req) ==
  LET b == Steered(req)
  IN /\ ~over
     /\ b.fall = 0
     /\ Empty(b, b.x, b.y + 1)
     /\ blk' = NextRow(b)
     /\ UNCHANGED <<filled, score, level, over, blocks, drawn>>

Rests(b) == b.stop + 1 # StopDelay /\ b.state # "DROP"

(* The block rests on something and its time is not up.                    *)
Wait(req) ==
  LET b == Steered(req)
  IN /\ ~over
     /\ b.fall = 0
     /\ ~Empty(b, b.x, b.y + 1)
     /\ Rests(b)
     /\ blk' = [b EXCEPT !.stop = @ + 1]
     /\ UNCHANGED <<filled, score, level, over, blocks, drawn>>

(* The block lands: it is drawn into layout, full lines are erased and the *)
(* next block starts; the game is over when that cannot fall at once.      *)
Land(req, type) ==
  LET b == Steered(req)
      game == CheckLayoutFill(filled \cup Cells(b, b.x, b.y), b.y)
      next == SetupNewBlk([b EXCEPT !.stop = @ + 1, !.state = "IDLE"], type)
  IN /\ ~over
     /\ blocks < MaxBlocks
     /\ b.fall = 0
     /\ ~Empty(b, b.x, b.y + 1)
     /\ ~Rests(b)
     /\ filled' = game.cells
     /\ score' = game.score
     /\ level' = game.level
     /\ drawn' = Cells(b, b.x, b.y)
     /\ blocks' = blocks + 1
     /\ blk' = WithGhost(next, game.cells)
     /\ over' = ~EmptyIn(game.cells, next, next.x, next.y + 1)

(* The player leaves with ESC.                                             *)
Leave ==
  /\ ~over
  /\ over' = TRUE
  /\ UNCHANGED <<blk, filled, score, level, blocks, drawn>>

Init ==
  /\ \E type \in Types :
       blk = WithGhost(
         [type |-> type, dir |-> 0, x |-> NewX, y |-> 0, sx |-> NewX * 8, sy |-> 0,
          ghost |-> 0, move |-> 0, fall |-> 0, stop |-> 0, state |-> "IDLE"], {})
  /\ filled = {}
  /\ score = 0
  /\ level = 1
  /\ over = FALSE
  /\ blocks = 0
  /\ drawn = {}

Requests == SUBSET {"left", "right", "up", "down", "drop"}

Pass(req) ==
  \/ Fall(req) \/ Advance(req) \/ Wait(req)
  \/ \E type \in Types : Land(req, type)

Next == Leave \/ \E req \in Requests : Pass(req)

Spec == Init /\ [][Next]_vars

(* The loop goes on until ESC: it waits for the frame timer and nothing    *)
(* else.                                                                   *)
FairSpec == Spec /\ WF_vars(Next)

(***************************************************************************)
(* Properties                                                              *)
(***************************************************************************)
TypeOK ==
  /\ blk \in [type : Types, dir : 0..3, x : 0..Width + 1, y : 0..Height - 1,
              sx : Nat, sy : Nat, ghost : 0..Height - 1, move : 0..4, fall : 0..RowEnd - 1,
              stop : 0..StopDelay, state : {"IDLE", "LEFT", "RIGHT", "DROP"}]
  /\ filled \in SUBSET Playable
  /\ score \in Nat /\ level \in 1..LevelMax
  /\ over \in BOOLEAN /\ blocks \in 0..MaxBlocks
  /\ drawn \in SUBSET Playable

(* However it is moved, turned and dropped between two passes, the block   *)
(* covers free cells only, in the row it leaves too while it is between    *)
(* two rows; only at the top may it overlap (the game-over test is for the *)
(* row below).                                                             *)
BlockFree ==
  ~over => /\ blk.y > 0 => Empty(blk, blk.x, blk.y)
           /\ blk.fall > 0 /\ blk.y > 1 => Empty(blk, blk.x, blk.y - 1)

Array == (0..Width + 3) \X (0..Height - 1)

(* Every test the loop can make next reads layout inside the array: one    *)
(* column to each side, each rotation, the row below.  A block that can    *)
(* land is below row 0 (check_layout_fill() counts down to its row with an *)
(* unsigned byte) and above the border row (which counts as a full line).  *)
WithinLayout ==
  ~over =>
    /\ TypeOK
    /\ blk.y > 0 => \A dx \in {-1, 1} : Cells(blk, blk.x + dx, blk.y) \subseteq Array
    /\ blk.y > 0 => blk.x > 0
    /\ \A d \in 0..3 : Cells([blk EXCEPT !.dir = d], blk.x, blk.y) \subseteq Array
    /\ Cells(blk, blk.x, blk.y + 1) \subseteq Array
    /\ ~Empty(blk, blk.x, blk.y + 1) => blk.y > 0
    /\ blk.y + 3 < Height - 1

(* The block never covers or reads what it must not.                       *)
BlockPlaced == BlockFree /\ WithinLayout

(* The sprites are where the block is: in its column, unless it slides     *)
(* there, and as far between two rows as the fall counter says, whatever   *)
(* mixture of normal and accelerated passes brought it there.  After a     *)
(* drop from between two rows they are one row behind until it lands.  The *)
(* ghost is where the block comes to rest if no other key is pressed.      *)
ScreenFollows ==
  ~over =>
    /\ blk.sx = CASE blk.state = "LEFT" -> blk.x * 8 + DotsLeft[blk.move]
                 [] blk.state = "RIGHT" -> blk.x * 8 - DotsLeft[blk.move]
                 [] blk.state \in {"IDLE", "DROP"} -> blk.x * 8
    /\ IF blk.fall > 0
         THEN blk.sy = (blk.y - 1) * 8 + 1 + (blk.fall - 1) \div Step
         ELSE blk.sy = blk.y * 8 \/ (blk.state = "DROP" /\ blk.sy = blk.y * 8 - 8)
    /\ blk.ghost >= blk.y
    /\ \A y \in blk.y + 1..blk.ghost : Empty(blk, blk.x, y)
    /\ ~Empty(blk, blk.x, blk.ghost + 1)

(* When a block lands every full line disappears, adjacent or not, the     *)
(* cells above come down by as many rows as lines below them disappeared,  *)
(* and score and level count those lines.                                  *)
LinesExact ==
  [][blocks' # blocks =>
       LET all == filled \cup drawn'
           full == {y \in 0..Height - 2 : \A x \in 2..Width + 1 : <<x, y>> \in all}
           below(y) == Cardinality({r \in full : r > y})
           lines == 1 + score' \div LevelUp
       IN /\ filled' = {<<c[1], c[2] + below(c[2])>> : c \in {d \in all : d[2] \notin full}}
          /\ score' = score + Cardinality(full)
          /\ level' = IF lines < LevelMax THEN lines ELSE LevelMax]_vars

(* Every block lands in the end, whatever keys are held: no move or        *)
(* rotation starts the stop counter anew.                                  *)
BlocksLand ==
  \A n \in 0..MaxBlocks - 1 :
    blocks = n ~> (over \/ blocks > n)
=============================================================================
