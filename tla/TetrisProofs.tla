---------------------------- MODULE TetrisProofs ----------------------------
(***************************************************************************)
(* Proofs about the game of 2TETRIS and 0TETRIS.ROM, for a playfield of    *)
(* any size, any of the blocks, any table of falling speeds, any delay of  *)
(* the keys and any number of games and of blocks in a game.               *)
(***************************************************************************)
EXTENDS Tetris, TetrisKeys, TetrisScreen, FiniteSetTheorems, WellFoundedInduction, TLAPS

(***************************************************************************)
(* Shapes and layout                                                       *)
(***************************************************************************)
(* Every shape reaches its lowest row, and a column on each side of the    *)
(* middle; a block starts in its lower two rows.                           *)
ShapeGives(t, d) ==
  /\ Shape[t][d + 1] \subseteq 0..15
  /\ \E p \in Shape[t][d + 1] : p >= 12
  /\ \E p \in Shape[t][d + 1] : p % 4 <= 1
  /\ \E p \in Shape[t][d + 1] : p % 4 >= 1
  /\ d = 0 => Shape[t][d + 1] \subseteq 8..15

LEMMA ShapeFacts ==
  ASSUME NEW t \in 0..6, NEW d \in 0..3
  PROVE  ShapeGives(t, d)
<1>1. /\ 1 % 4 = 1 /\ 5 % 4 = 1 /\ 6 % 4 = 2 /\ 8 % 4 = 0 /\ 9 % 4 = 1 /\ 10 % 4 = 2
      /\ 12 % 4 = 0 /\ 13 % 4 = 1 /\ 14 % 4 = 2 /\ 15 % 4 = 3
  OBVIOUS
<1>2. d = 0 \/ d = 1 \/ d = 2 \/ d = 3
  OBVIOUS
<1>3. CASE t = 0
  <2>1. /\ Shape[0][1] = {12, 13, 14, 15}
        /\ Shape[0][2] = {1, 5, 9, 13}
        /\ Shape[0][3] = {12, 13, 14, 15}
        /\ Shape[0][4] = {1, 5, 9, 13}
    BY DEF Shape
  <2>2. CASE d = 0
    BY <1>1, <1>3, <2>1, <2>2 DEF ShapeGives
  <2>3. CASE d = 1
    BY <1>1, <1>3, <2>1, <2>3 DEF ShapeGives
  <2>4. CASE d = 2
    BY <1>1, <1>3, <2>1, <2>4 DEF ShapeGives
  <2>5. CASE d = 3
    BY <1>1, <1>3, <2>1, <2>5 DEF ShapeGives
  <2> QED
    BY <1>2, <2>2, <2>3, <2>4, <2>5
<1>4. CASE t = 1
  <2>1. /\ Shape[1][1] = {8, 9, 10, 14}
        /\ Shape[1][2] = {5, 6, 9, 13}
        /\ Shape[1][3] = {8, 12, 13, 14}
        /\ Shape[1][4] = {6, 10, 13, 14}
    BY DEF Shape
  <2>2. CASE d = 0
    BY <1>1, <1>4, <2>1, <2>2 DEF ShapeGives
  <2>3. CASE d = 1
    BY <1>1, <1>4, <2>1, <2>3 DEF ShapeGives
  <2>4. CASE d = 2
    BY <1>1, <1>4, <2>1, <2>4 DEF ShapeGives
  <2>5. CASE d = 3
    BY <1>1, <1>4, <2>1, <2>5 DEF ShapeGives
  <2> QED
    BY <1>2, <2>2, <2>3, <2>4, <2>5
<1>5. CASE t = 2
  <2>1. /\ Shape[2][1] = {8, 9, 10, 12}
        /\ Shape[2][2] = {5, 9, 13, 14}
        /\ Shape[2][3] = {10, 12, 13, 14}
        /\ Shape[2][4] = {5, 6, 10, 14}
    BY DEF Shape
  <2>2. CASE d = 0
    BY <1>1, <1>5, <2>1, <2>2 DEF ShapeGives
  <2>3. CASE d = 1
    BY <1>1, <1>5, <2>1, <2>3 DEF ShapeGives
  <2>4. CASE d = 2
    BY <1>1, <1>5, <2>1, <2>4 DEF ShapeGives
  <2>5. CASE d = 3
    BY <1>1, <1>5, <2>1, <2>5 DEF ShapeGives
  <2> QED
    BY <1>2, <2>2, <2>3, <2>4, <2>5
<1>6. CASE t = 3
  <2>1. /\ Shape[3][1] = {9, 10, 13, 14}
        /\ Shape[3][2] = {9, 10, 13, 14}
        /\ Shape[3][3] = {9, 10, 13, 14}
        /\ Shape[3][4] = {9, 10, 13, 14}
    BY DEF Shape
  <2>2. CASE d = 0
    BY <1>1, <1>6, <2>1, <2>2 DEF ShapeGives
  <2>3. CASE d = 1
    BY <1>1, <1>6, <2>1, <2>3 DEF ShapeGives
  <2>4. CASE d = 2
    BY <1>1, <1>6, <2>1, <2>4 DEF ShapeGives
  <2>5. CASE d = 3
    BY <1>1, <1>6, <2>1, <2>5 DEF ShapeGives
  <2> QED
    BY <1>2, <2>2, <2>3, <2>4, <2>5
<1>7. CASE t = 4
  <2>1. /\ Shape[4][1] = {9, 10, 12, 13}
        /\ Shape[4][2] = {5, 9, 10, 14}
        /\ Shape[4][3] = {9, 10, 12, 13}
        /\ Shape[4][4] = {5, 9, 10, 14}
    BY DEF Shape
  <2>2. CASE d = 0
    BY <1>1, <1>7, <2>1, <2>2 DEF ShapeGives
  <2>3. CASE d = 1
    BY <1>1, <1>7, <2>1, <2>3 DEF ShapeGives
  <2>4. CASE d = 2
    BY <1>1, <1>7, <2>1, <2>4 DEF ShapeGives
  <2>5. CASE d = 3
    BY <1>1, <1>7, <2>1, <2>5 DEF ShapeGives
  <2> QED
    BY <1>2, <2>2, <2>3, <2>4, <2>5
<1>8. CASE t = 5
  <2>1. /\ Shape[5][1] = {8, 9, 10, 13}
        /\ Shape[5][2] = {5, 9, 10, 13}
        /\ Shape[5][3] = {9, 12, 13, 14}
        /\ Shape[5][4] = {5, 8, 9, 13}
    BY DEF Shape
  <2>2. CASE d = 0
    BY <1>1, <1>8, <2>1, <2>2 DEF ShapeGives
  <2>3. CASE d = 1
    BY <1>1, <1>8, <2>1, <2>3 DEF ShapeGives
  <2>4. CASE d = 2
    BY <1>1, <1>8, <2>1, <2>4 DEF ShapeGives
  <2>5. CASE d = 3
    BY <1>1, <1>8, <2>1, <2>5 DEF ShapeGives
  <2> QED
    BY <1>2, <2>2, <2>3, <2>4, <2>5
<1>9. CASE t = 6
  <2>1. /\ Shape[6][1] = {8, 9, 13, 14}
        /\ Shape[6][2] = {6, 9, 10, 13}
        /\ Shape[6][3] = {8, 9, 13, 14}
        /\ Shape[6][4] = {6, 9, 10, 13}
    BY DEF Shape
  <2>2. CASE d = 0
    BY <1>1, <1>9, <2>1, <2>2 DEF ShapeGives
  <2>3. CASE d = 1
    BY <1>1, <1>9, <2>1, <2>3 DEF ShapeGives
  <2>4. CASE d = 2
    BY <1>1, <1>9, <2>1, <2>4 DEF ShapeGives
  <2>5. CASE d = 3
    BY <1>1, <1>9, <2>1, <2>5 DEF ShapeGives
  <2> QED
    BY <1>2, <2>2, <2>3, <2>4, <2>5
<1> QED
  BY <1>3, <1>4, <1>5, <1>6, <1>7, <1>8, <1>9

(***************************************************************************)
(* The invariant of the play                                               *)
(***************************************************************************)
Blocks ==
  [type : Types, dir : 0..3, x : Int, y : Nat, sx : Int, sy : Int, ghost : Nat,
   move : 0..4, fall : 0..RowEnd - 1, stop : Nat, state : {"IDLE", "LEFT", "RIGHT", "DROP"}]

(* BlockFree, for a block during the pass too.                             *)
Fits(b, cells) ==
  /\ b.y > 0 => EmptyIn(cells, b, b.x, b.y)
  /\ b.fall > 0 => b.y > 0
  /\ b.fall > 0 /\ b.y > 1 => EmptyIn(cells, b, b.x, b.y - 1)

(* At the top a block has not been moved, and can fall.                    *)
AtTop(b, cells) ==
  b.y = 0 => /\ b.dir = 0 /\ b.x = NewX /\ b.sy = 0
             /\ b.state \in {"IDLE", "DROP"}
             /\ EmptyIn(cells, b, b.x, 1)

(* The counters: a stop counter that ran out is reset by the first row.    *)
CountersOK(b) ==
  /\ b.stop <= StopDelay
  /\ b.y > 0 => b.stop < StopDelay
  /\ b.state \in {"LEFT", "RIGHT"} => b.move \in 1..3

InColumn(b) ==
  b.sx = CASE b.state = "LEFT" -> b.x * 8 + DotsLeft[b.move]
           [] b.state = "RIGHT" -> b.x * 8 - DotsLeft[b.move]
           [] b.state \in {"IDLE", "DROP"} -> b.x * 8

InRow(b) ==
  IF b.fall > 0
    THEN b.sy = (b.y - 1) * 8 + 1 + ((b.fall - 1) \div Step)
    ELSE b.sy = b.y * 8 \/ (b.state = "DROP" /\ b.sy = b.y * 8 - 8)

GhostIn(b, cells) ==
  /\ b.ghost >= b.y
  /\ \A y \in b.y + 1..b.ghost : EmptyIn(cells, b, b.x, y)
  /\ ~EmptyIn(cells, b, b.x, b.ghost + 1)

Sound(b, cells) ==
  /\ b \in Blocks /\ Fits(b, cells) /\ AtTop(b, cells) /\ CountersOK(b)
  /\ InColumn(b) /\ InRow(b)
Good(b, cells) == Sound(b, cells) /\ GhostIn(b, cells)

GameTypes ==
  /\ over \in BOOLEAN
  /\ filled \in SUBSET Playable /\ drawn \in SUBSET Playable
  /\ score \in Nat /\ level \in 1..LevelMax /\ blocks \in 0..MaxBlocks

(* Nothing full was left, nothing reached the top row, and the level       *)
(* follows from the score.                                                 *)
NoneFull(cells) == \A y \in 0..Height - 2 : ~LineFull(cells, y)
TopFree(cells) == \A x \in 2..Width + 1 : <<x, 0>> \notin cells
LevelAt(s) == IF 1 + (s \div LevelUp) < LevelMax THEN 1 + (s \div LevelUp) ELSE LevelMax

PlayInv ==
  /\ GameTypes
  /\ NoneFull(filled) /\ TopFree(filled) /\ level = LevelAt(score)
  /\ ~over => Good(blk, filled)

(***************************************************************************)
(* Arithmetic of dots and counters                                         *)
(***************************************************************************)
LEMMA Quotient ==
  ASSUME NEW m \in Nat, m > 0, NEW q \in Int, NEW r \in 0..m - 1
  PROVE  (q * m + r) \div m = q /\ (q * m + r) % m = r
<1> DEFINE n == q * m + r
           d == n \div m
           e == n % m
<1>1. n \in Int
  OBVIOUS
<1>2. n = m * d + e /\ e \in 0..m - 1 /\ d \in Int
  <2> HIDE DEF n
  <2> QED
    BY <1>1
<1>3. q * m + r = m * d + e
  BY <1>2
<1> HIDE DEF n, d, e
<1>4. (q - d) * m = e - r /\ q - d \in Int
  BY <1>2, <1>3
<1> DEFINE k == q - d
<1>5. k \in Int /\ k * m = e - r
  BY <1>4
<1> HIDE DEF k
<1>6. k >= 1 => k * m >= m
  BY <1>5
<1>7. k <= -1 => k * m <= -m
  BY <1>5
<1>8. k = 0
  BY <1>2, <1>5, <1>6, <1>7
<1>9. q = d
  BY <1>2, <1>8 DEF k
<1>10. r = e
  BY <1>2, <1>5, <1>8
<1> QED
  BY <1>9, <1>10 DEF d, e, n

LEMMA Division ==
  ASSUME NEW m \in Nat, m > 0, NEW n \in Nat
  PROVE  n \div m \in Nat /\ n % m \in 0..m - 1 /\ n = (n \div m) * m + (n % m)
<1>1. n \div m \in Int /\ n % m \in 0..m - 1
  OBVIOUS
<1>2. n = m * (n \div m) + (n % m)
  OBVIOUS
<1> DEFINE d == n \div m
           e == n % m
<1>3. d \in Int /\ e \in 0..m - 1 /\ n = d * m + e
  BY <1>1, <1>2
<1> HIDE DEF d, e
<1>4. d <= -1 => d * m <= -m
  BY <1>3
<1>5. d >= 0
  BY <1>3, <1>4
<1> QED
  BY <1>3, <1>5 DEF d, e

(* The dots of n counts.                                                   *)
LEMMA Dots ==
  ASSUME NEW n \in Nat
  PROVE  /\ n \div Step \in Nat
         /\ (n + Step) \div Step = (n \div Step) + 1
         /\ n < 7 * Step => n \div Step <= 6
         /\ n >= 6 * Step /\ n < 7 * Step => n \div Step = 6
         /\ (7 * Step) \div Step = 7
<1>1. Step \in Nat /\ Step > 0
  BY GameAssumption
<1> DEFINE m == Step
           d == n \div m
           e == n % m
<1>2. m \in Nat /\ m > 0
  BY <1>1
<1> HIDE DEF m
<1>3. d \in Nat /\ e \in 0..m - 1 /\ n = d * m + e
  BY <1>2, Division
<1> HIDE DEF d, e
<1>4. (n + m) \div m = d + 1
  <2>1. n + m = (d + 1) * m + e /\ d + 1 \in Int
    BY <1>2, <1>3
  <2>2. ((d + 1) * m + e) \div m = d + 1
    BY <1>2, <1>3, <2>1, Quotient
  <2> QED
    BY <2>1, <2>2
<1>5. d >= 7 => d * m >= 7 * m
  BY <1>2, <1>3
<1>6. d <= 5 => d * m <= 5 * m
  BY <1>2, <1>3
<1>7. n < 7 * m => d <= 6
  BY <1>2, <1>3, <1>5
<1>8. n >= 6 * m /\ n < 7 * m => d = 6
  BY <1>2, <1>3, <1>6, <1>7
<1>9. (7 * m) \div m = 7
  <2>1. (7 * m + 0) \div m = 7
    BY <1>2, Quotient
  <2> QED
    BY <1>2, <2>1
<1> QED
  BY <1>3, <1>4, <1>7, <1>8, <1>9 DEF d, m

LEMMA MoveDots ==
  /\ DotsLeft[0] = 8 /\ DotsLeft[1] = 5 /\ DotsLeft[2] = 3 /\ DotsLeft[3] = 1 /\ DotsLeft[4] = 0
  /\ MoveOffset[1] = 3 /\ MoveOffset[2] = 2 /\ MoveOffset[3] = 2 /\ MoveOffset[4] = 1
  BY DEF DotsLeft, MoveOffset

(***************************************************************************)
(* Where a block can be                                                    *)
(***************************************************************************)
LEMMA Assumed ==
  /\ Width \in Nat /\ Height \in Nat /\ Height > 5 /\ NewX \in 2..Width - 2
  /\ Step \in Nat /\ Step > 1 /\ RowEnd = 7 * Step + 1 /\ RowEnd \in Nat
  /\ StopDelay \in Nat /\ StopDelay > 0 /\ LevelMax \in Nat /\ LevelMax > 0
  /\ LevelUp \in Nat /\ LevelUp > 0 /\ MaxBlocks \in Nat
  /\ Types \subseteq 0..6
  BY GameAssumption DEF RowEnd

(* The cells of a block depend on its shape only.                          *)
LEMMA SameShape ==
  ASSUME NEW b, NEW c, b.type = c.type, b.dir = c.dir, NEW cells, NEW x, NEW y
  PROVE  EmptyIn(cells, b, x, y) = EmptyIn(cells, c, x, y)
  BY DEF EmptyIn, Cells

LEMMA CellsAre ==
  ASSUME NEW b \in Blocks, NEW x \in Int, NEW y \in Int, NEW c \in Cells(b, x, y)
  PROVE  c \in (x..x + 3) \X (y..y + 3)
<1>1. b.type \in 0..6 /\ b.dir \in 0..3
  BY Assumed DEF Blocks
<1>2. PICK p \in Shape[b.type][b.dir + 1] : c = <<x + (p % 4), y + (p \div 4)>>
  BY DEF Cells
<1>3. p \in 0..15
  BY <1>1, <1>2, ShapeFacts DEF ShapeGives
<1>4. p % 4 \in 0..3 /\ p \div 4 \in 0..3
  BY <1>3
<1> QED
  BY <1>2, <1>4

(* A block in free cells is off the walls and above the border.            *)
LEMMA EmptyPlace ==
  ASSUME NEW b \in Blocks, NEW cells, NEW x \in Int, NEW y \in Int, EmptyIn(cells, b, x, y)
  PROVE  x \in 1..Width /\ y <= Height - 5
<1>1. b.type \in 0..6 /\ b.dir \in 0..3
  BY Assumed DEF Blocks
<1> DEFINE S == Shape[b.type][b.dir + 1]
<1>2. /\ S \subseteq 0..15
      /\ \E p \in S : p >= 12
      /\ \E p \in S : p % 4 <= 1
      /\ \E p \in S : p % 4 >= 1
  BY <1>1, ShapeFacts DEF ShapeGives
<1>3. \A p \in S : <<x + (p % 4), y + (p \div 4)>> \in Playable
  BY DEF EmptyIn, Cells
<1>4. \A p \in S : x + (p % 4) \in 2..Width + 1 /\ y + (p \div 4) \in 0..Height - 2
  BY <1>3 DEF Playable
<1>5. PICK p \in S : p >= 12
  BY <1>2
<1>6. PICK q \in S : q % 4 <= 1
  BY <1>2
<1>7. PICK r \in S : r % 4 >= 1
  BY <1>2
<1> HIDE DEF S
<1>8. p \div 4 = 3
  BY <1>2, <1>5
<1>9. y + 3 <= Height - 2
  BY <1>4, <1>5, <1>8, Assumed
<1>10. x + (q % 4) >= 2 /\ x + (r % 4) <= Width + 1
  BY <1>4, <1>6, <1>7, Assumed
<1>11. q % 4 \in Int /\ r % 4 \in Int
  BY <1>2
<1> QED
  BY <1>6, <1>7, <1>9, <1>10, <1>11, Assumed

LEMMA Placed ==
  ASSUME NEW b, NEW cells, Sound(b, cells)
  PROVE  b.x \in 1..Width /\ b.y <= Height - 5
<1>1. b \in Blocks /\ b.y \in Nat /\ b.x \in Int
  BY DEF Sound, Blocks
<1>2. CASE b.y = 0
  BY <1>2, Assumed DEF Sound, AtTop
<1>3. CASE b.y # 0
  <2>1. EmptyIn(cells, b, b.x, b.y)
    BY <1>1, <1>3 DEF Sound, Fits
  <2> QED
    BY <1>1, <2>1, EmptyPlace
<1> QED
  BY <1>2, <1>3

(* WithGhost() finds where the block comes to rest.                        *)
LEMMA GhostFacts ==
  ASSUME NEW b \in Blocks, NEW cells, b.y <= Height - 4
  PROVE  /\ \E g \in Nat : WithGhost(b, cells) = [b EXCEPT !.ghost = g]
         /\ GhostIn(WithGhost(b, cells), cells)
<1> DEFINE stops == {y \in b.y..Height - 4 : y = Height - 4 \/ ~EmptyIn(cells, b, b.x, y + 1)}
           g == CHOOSE y \in stops : \A z \in stops : y <= z
           c == [b EXCEPT !.ghost = g]
<1>1. b.y \in Nat /\ b.x \in Int /\ Height \in Nat
  BY Assumed DEF Blocks
<1>2. stops \subseteq Nat /\ Height - 4 \in stops
  BY <1>1
<1>3. \E y \in stops : \A z \in stops : y <= z
  <2>1. PICK y \in stops : \A z \in stops : <<z, y>> \notin OpToRel(<, Nat)
    BY <1>2, NatLessThanWellFounded, WFMin
  <2> HIDE DEF stops
  <2>2. \A z \in stops : ~(z < y)
    BY <1>2, <2>1, Zenon DEF OpToRel
  <2>3. \A z \in stops : y <= z
    BY <1>2, <2>2
  <2> QED
    BY <2>3
<1>4. g \in stops /\ \A z \in stops : g <= z
  BY <1>3
<1>5. WithGhost(b, cells) = c
  BY DEF WithGhost
<1>6. /\ g \in Nat /\ g >= b.y /\ g <= Height - 4
      /\ g = Height - 4 \/ ~EmptyIn(cells, b, b.x, g + 1)
  BY <1>1, <1>4
<1>7. \A y \in b.y + 1..g : EmptyIn(cells, b, b.x, y)
  <2> TAKE y \in b.y + 1..g
  <2>1. y - 1 \in b.y..Height - 4 /\ y - 1 < g /\ y - 1 + 1 = y
    BY <1>1, <1>6
  <2>2. y - 1 \notin stops
    BY <1>4, <1>6, <2>1
  <2> QED
    BY <2>1, <2>2
<1> HIDE DEF g, stops
<1>8. ~EmptyIn(cells, b, b.x, g + 1)
  <2>1. CASE g = Height - 4
    <3> DEFINE r == g + 1
    <3>1. r \in Int /\ ~(r <= Height - 5)
      BY <1>1, <1>6, <2>1
    <3> HIDE DEF r
    <3>2. ~EmptyIn(cells, b, b.x, r)
      BY <1>1, <3>1, EmptyPlace
    <3> QED
      BY <3>2 DEF r
  <2> QED
    BY <1>6, <2>1
<1>9. c.ghost = g /\ c.x = b.x /\ c.y = b.y /\ c.type = b.type /\ c.dir = b.dir
  BY DEF Blocks
<1>10. \A y : EmptyIn(cells, c, c.x, y) = EmptyIn(cells, b, b.x, y)
  BY <1>9 DEF EmptyIn, Cells
<1> HIDE DEF c
<1>11. GhostIn(c, cells)
  BY <1>6, <1>7, <1>8, <1>9, <1>10 DEF GhostIn
<1> QED
  BY <1>5, <1>6, <1>11 DEF c

(***************************************************************************)
(* One pass of the loop keeps the block good                               *)
(***************************************************************************)

(* A sound block is good once its ghost is set up.                         *)
LEMMA GhostSet ==
  ASSUME NEW b, NEW cells, Sound(b, cells)
  PROVE  Good(WithGhost(b, cells), cells)
<1>1. b \in Blocks /\ b.y <= Height - 5 /\ b.y \in Nat
  BY Placed DEF Sound, Blocks
<1>2. b.y <= Height - 4
  BY <1>1, Assumed
<1>3. PICK g \in Nat : WithGhost(b, cells) = [b EXCEPT !.ghost = g]
  BY <1>1, <1>2, GhostFacts
<1>4. GhostIn(WithGhost(b, cells), cells)
  BY <1>1, <1>2, GhostFacts
<1> DEFINE c == [b EXCEPT !.ghost = g]
<1>5. /\ c \in Blocks
      /\ c.type = b.type /\ c.dir = b.dir /\ c.x = b.x /\ c.y = b.y /\ c.sx = b.sx /\ c.sy = b.sy
      /\ c.move = b.move /\ c.fall = b.fall /\ c.stop = b.stop /\ c.state = b.state
  BY <1>1 DEF Blocks
<1> HIDE DEF c
<1>6. \A x, y : EmptyIn(cells, c, x, y) = EmptyIn(cells, b, x, y)
  BY <1>5 DEF EmptyIn, Cells
<1>7. Fits(c, cells) /\ AtTop(c, cells)
  BY <1>5, <1>6 DEF Sound, Fits, AtTop
<1>8. CountersOK(c) /\ InColumn(c) /\ InRow(c)
  BY <1>5 DEF Sound, CountersOK, InColumn, InRow
<1> QED
  BY <1>3, <1>4, <1>5, <1>7, <1>8 DEF Good, Sound, c

(* What the steps of a pass that do not move the block change.             *)
LEMMA SameCells ==
  ASSUME NEW b, NEW c, NEW cells, Good(b, cells), c \in Blocks,
         c.type = b.type, c.dir = b.dir, c.x = b.x, c.y = b.y, c.ghost = b.ghost,
         c.fall > 0 => b.fall > 0,
         c.state \in {"IDLE", "DROP"} \/ b.state \notin {"IDLE", "DROP"},
         b.y = 0 => c.sy = b.sy
  PROVE  Fits(c, cells) /\ AtTop(c, cells) /\ GhostIn(c, cells)
<1>1. \A x, y : EmptyIn(cells, c, x, y) = EmptyIn(cells, b, x, y)
  BY DEF EmptyIn, Cells
<1>2. Fits(c, cells)
  BY <1>1 DEF Good, Sound, Fits
<1>3. AtTop(c, cells)
  BY <1>1 DEF Good, Sound, AtTop, Blocks
<1>4. GhostIn(c, cells)
  BY <1>1 DEF Good, GhostIn
<1> QED
  BY <1>2, <1>3, <1>4

LEMMA AlignGood ==
  ASSUME NEW b, NEW cells, Good(b, cells), b.state \in {"IDLE", "DROP"}
  PROVE  Good(Align([b EXCEPT !.state = "DROP"]), cells)
<1> DEFINE c == Align([b EXCEPT !.state = "DROP"])
<1>1. b \in Blocks /\ b.fall \in 0..RowEnd - 1 /\ b.y \in Nat /\ b.x \in Int /\ b.sx = b.x * 8
  BY DEF Good, Sound, InColumn, Blocks
<1>2. RowEnd = 7 * Step + 1 /\ Step \in Nat /\ Step > 1
  BY Assumed
<1>3. b.fall = 0 => b.sy = b.y * 8 \/ b.sy = b.y * 8 - 8
  BY DEF Good, Sound, InRow
<1>4. b.fall > 0 => b.sy - (b.sy % 8) = b.y * 8 - 8 /\ b.y > 0 /\ b.sy % 8 \in Int
  <2> SUFFICES ASSUME b.fall > 0 PROVE b.sy - (b.sy % 8) = b.y * 8 - 8 /\ b.y > 0 /\ b.sy % 8 \in Int
    OBVIOUS
  <2> DEFINE q == (b.fall - 1) \div Step
  <2>1. b.sy = (b.y - 1) * 8 + 1 + q
    BY DEF Good, Sound, InRow
  <2>2. q \in 0..6
    <3>1. b.fall - 1 \in Nat /\ b.fall - 1 < 7 * Step
      BY <1>1, <1>2
    <3> DEFINE n == b.fall - 1
    <3> HIDE DEF n
    <3>2. n \div Step \in Nat /\ n \div Step <= 6
      BY <3>1, Dots DEF n
    <3> QED
      BY <3>2 DEF n
  <2>3. b.y > 0
    BY DEF Good, Sound, Fits
  <2> HIDE DEF q
  <2> DEFINE y == b.y
             s == b.sy
  <2>4. y \in Nat /\ s = (y - 1) * 8 + 1 + q
    BY <1>1, <2>1
  <2> HIDE DEF y, s
  <2>5. s % 8 = 1 + q
    BY <2>2, <2>4
  <2> QED
    BY <1>1, <2>2, <2>3, <2>4, <2>5 DEF y, s
<1>5. /\ c \in Blocks /\ c.fall = 0 /\ c.state = "DROP"
      /\ c.sy = IF b.fall = 0 THEN b.sy ELSE b.sy - (b.sy % 8)
      /\ c.type = b.type /\ c.dir = b.dir /\ c.x = b.x /\ c.y = b.y /\ c.sx = b.sx
      /\ c.move = b.move /\ c.stop = b.stop /\ c.ghost = b.ghost
  <2>1. CASE b.fall = 0
    BY <1>1, <2>1 DEF Blocks, Align
  <2>2. CASE b.fall # 0
    <3> DEFINE s == b.sy - (b.sy % 8)
    <3>1. s \in Int
      BY <1>1, <1>4, <2>2
    <3>2. c = [[b EXCEPT !.state = "DROP"] EXCEPT !.sy = s, !.fall = 0]
      BY <1>1, <2>2 DEF Blocks, Align
    <3>3. b.fall # 0 /\ 0 \in 0..RowEnd - 1
      BY <1>2, <2>2
    <3> HIDE DEF s, c
    <3>4. /\ c \in Blocks /\ c.fall = 0 /\ c.state = "DROP" /\ c.sy = s
          /\ c.type = b.type /\ c.dir = b.dir /\ c.x = b.x /\ c.y = b.y /\ c.sx = b.sx
          /\ c.move = b.move /\ c.stop = b.stop /\ c.ghost = b.ghost
      BY <1>1, <3>1, <3>2, <3>3 DEF Blocks
    <3> QED
      BY <3>3, <3>4 DEF s
  <2> QED
    BY <2>1, <2>2
<1> HIDE DEF c
<1>6. b.y = 0 => b.fall = 0
  BY <1>1 DEF Good, Sound, Fits
<1>7. Fits(c, cells) /\ AtTop(c, cells) /\ GhostIn(c, cells)
  BY <1>5, <1>6, SameCells
<1>8. CountersOK(c) /\ InColumn(c)
  BY <1>1, <1>5 DEF Good, Sound, CountersOK, InColumn
<1>9. InRow(c)
  BY <1>1, <1>3, <1>4, <1>5 DEF InRow
<1> QED
  BY <1>5, <1>7, <1>8, <1>9 DEF Good, Sound, c

LEMMA ShiftGood ==
  ASSUME NEW b, Good(b, filled), b.state = "IDLE",
         NEW dx, NEW state, (dx = -1 /\ state = "LEFT") \/ (dx = 1 /\ state = "RIGHT")
  PROVE  Good(Shift(b, dx, state), filled)
<1>1. CASE ~Avail(b, b.x + dx)
  BY <1>1 DEF Shift
<1>2. CASE Avail(b, b.x + dx)
  <2> DEFINE c == [b EXCEPT !.state = state, !.move = 1,
                            !.sx = @ + dx * MoveOffset[1], !.x = @ + dx]
  <2>1. Shift(b, dx, state) = WithGhost(c, filled)
    BY <1>2 DEF Shift
  <2>2. b \in Blocks /\ b.x \in Int /\ b.sx = b.x * 8 /\ b.y \in Nat /\ dx \in Int
    BY DEF Good, Sound, InColumn, Blocks
  <2>3. /\ c \in Blocks /\ c.state = state /\ c.move = 1 /\ c.sx = b.sx + dx * 3 /\ c.x = b.x + dx
        /\ c.type = b.type /\ c.dir = b.dir /\ c.y = b.y /\ c.sy = b.sy
        /\ c.stop = b.stop /\ c.fall = b.fall
    <3> DEFINE k == b.sx + dx * MoveOffset[1]
               z == b.x + dx
    <3>1. k = b.sx + dx * 3 /\ k \in Int /\ z \in Int /\ 1 \in 0..4
      BY <2>2, MoveDots
    <3>2. state \in {"IDLE", "LEFT", "RIGHT", "DROP"}
      OBVIOUS
    <3>3. c = [b EXCEPT !.state = state, !.move = 1, !.sx = k, !.x = z]
      BY <2>2 DEF Blocks
    <3> HIDE DEF k, z, c
    <3>4. /\ c \in Blocks /\ c.state = state /\ c.move = 1 /\ c.sx = k /\ c.x = z
          /\ c.type = b.type /\ c.dir = b.dir /\ c.y = b.y /\ c.sy = b.sy
          /\ c.stop = b.stop /\ c.fall = b.fall
      BY <2>2, <3>1, <3>2, <3>3 DEF Blocks
    <3> QED
      BY <3>1, <3>4 DEF z
  <2>4. /\ b.y # 0 /\ EmptyIn(filled, b, b.x + dx, b.y)
        /\ b.fall = 0 \/ EmptyIn(filled, b, b.x + dx, b.y - 1)
    BY <1>2 DEF Avail, Empty
  <2> HIDE DEF c
  <2>5. \A x, y : EmptyIn(filled, c, x, y) = EmptyIn(filled, b, x, y)
    BY <2>3 DEF EmptyIn, Cells
  <2>6. Fits(c, filled) /\ AtTop(c, filled)
    BY <2>2, <2>3, <2>4, <2>5 DEF Good, Sound, Fits, AtTop, Blocks
  <2>7. CountersOK(c) /\ InRow(c)
    BY <2>2, <2>3 DEF Good, Sound, CountersOK, InRow
  <2>8. InColumn(c)
    BY <2>2, <2>3, MoveDots DEF InColumn
  <2>9. Sound(c, filled)
    BY <2>3, <2>6, <2>7, <2>8 DEF Sound
  <2> QED
    BY <2>1, <2>9, GhostSet
<1> QED
  BY <1>1, <1>2

LEMMA SlideGood ==
  ASSUME NEW b, Good(b, filled), NEW req,
         NEW dx, (dx = -1 /\ b.state = "LEFT") \/ (dx = 1 /\ b.state = "RIGHT")
  PROVE  Good(Sliding(b, dx, req), filled)
<1> DEFINE c == Sliding(b, dx, req)
           m == IF "drop" \in req THEN 4 ELSE b.move + 1
           s == IF "drop" \in req THEN "DROP" ELSE IF b.move + 1 = 4 THEN "IDLE" ELSE b.state
           d == IF "drop" \in req THEN DotsLeft[b.move] ELSE MoveOffset[b.move + 1]
<1>1. /\ b \in Blocks /\ b.x \in Int /\ b.sx \in Int /\ b.y \in Nat /\ dx \in Int
      /\ b.move \in 1..3
      /\ b.sx = b.x * 8 - dx * DotsLeft[b.move]
  <2>1. b \in Blocks /\ b.x \in Int /\ b.sx \in Int /\ b.y \in Nat /\ dx \in Int
    BY DEF Good, Sound, Blocks
  <2>2. b.move \in 1..3
    BY DEF Good, Sound, CountersOK
  <2>3. DotsLeft[b.move] \in Int
    BY <2>2, MoveDots
  <2>4. b.sx = IF b.state = "LEFT" THEN b.x * 8 + DotsLeft[b.move] ELSE b.x * 8 - DotsLeft[b.move]
    BY DEF Good, Sound, InColumn
  <2> QED
    BY <2>1, <2>2, <2>3, <2>4
<1>2. d \in Int /\ m \in 2..4 /\ s \in {"IDLE", "DROP", "LEFT", "RIGHT"}
  BY <1>1, MoveDots
<1>3. d = DotsLeft[b.move] - DotsLeft[m]
  BY <1>1, MoveDots
<1>4. m = 4 <=> s \in {"IDLE", "DROP"}
  BY <1>1
<1>5. m # 4 => s = b.state
  BY <1>1
<1>6. /\ c \in Blocks /\ c.state = s /\ c.move = m /\ c.sx = b.sx + dx * d
      /\ c.type = b.type /\ c.dir = b.dir /\ c.x = b.x /\ c.y = b.y /\ c.sy = b.sy
      /\ c.stop = b.stop /\ c.fall = b.fall /\ c.ghost = b.ghost
  <2>1. c = [b EXCEPT !.sx = @ + dx * d, !.move = m, !.state = s]
    BY <1>1 DEF Sliding, Blocks
  <2> HIDE DEF c, d, m, s
  <2>2. b.sx + dx * d \in Int /\ m \in 0..4
    BY <1>1, <1>2
  <2> QED
    BY <1>1, <1>2, <2>1, <2>2 DEF Blocks
<1> HIDE DEF c, d, m, s
<1>7. Fits(c, filled) /\ AtTop(c, filled) /\ GhostIn(c, filled)
  BY <1>6, SameCells
<1>8. CountersOK(c)
  BY <1>2, <1>4, <1>6 DEF Good, Sound, CountersOK
<1>9. InRow(c)
  <2>1. b.state # "DROP"
    OBVIOUS
  <2> QED
    BY <1>6, <2>1 DEF Good, Sound, InRow
<1>10. InColumn(c)
  <2>1. DotsLeft[b.move] \in Int /\ DotsLeft[m] \in Int /\ DotsLeft[4] = 0
    BY <1>1, <1>2, MoveDots
  <2>2. c.sx = b.x * 8 - dx * DotsLeft[m]
    BY <1>1, <1>3, <1>6, <2>1
  <2>3. CASE m = 4
    BY <1>1, <1>2, <1>4, <1>6, <2>1, <2>2, <2>3 DEF InColumn
  <2>4. CASE m # 4
    <3>1. s = b.state
      BY <1>5, <2>4
    <3> QED
      BY <1>1, <1>6, <2>1, <2>2, <3>1 DEF InColumn
  <2> QED
    BY <2>3, <2>4
<1> QED
  BY <1>6, <1>7, <1>8, <1>9, <1>10 DEF Good, Sound, c

LEMMA ControlGood ==
  ASSUME NEW b, Good(b, filled), NEW req \in Requests
  PROVE  Good(Control(b, req), filled)
<1> DEFINE turns == req \cap {"drop", "left", "right"}
<1>1. b.state \in {"IDLE", "LEFT", "RIGHT", "DROP"} /\ b \in Blocks
  BY DEF Good, Sound, Blocks
<1>2. CASE b.state = "IDLE" /\ "drop" \in req
  <2>1. Control(b, req) = Align([b EXCEPT !.state = "DROP"])
    BY <1>2 DEF Control
  <2> QED
    BY <1>2, <2>1, AlignGood
<1>3. CASE b.state = "IDLE" /\ "drop" \notin req /\ "left" \in req
  <2>1. Control(b, req) = Shift(b, -1, "LEFT")
    BY <1>3 DEF Control
  <2> QED
    BY <1>3, <2>1, ShiftGood
<1>4. CASE b.state = "IDLE" /\ turns = {"right"}
  <2>1. "drop" \notin req /\ "left" \notin req
    BY <1>4
  <2>2. Control(b, req) = Shift(b, 1, "RIGHT")
    BY <1>4, <2>1 DEF Control
  <2> QED
    BY <1>4, <2>2, ShiftGood
<1>5. CASE b.state = "IDLE" /\ turns = {}
  <2>1. "drop" \notin req /\ "left" \notin req /\ turns # {"right"}
    BY <1>5
  <2>2. Control(b, req) = b
    BY <1>5, <2>1 DEF Control
  <2> QED
    BY <2>2
<1>6. CASE b.state = "LEFT"
  <2>1. Control(b, req) = Sliding(b, -1, req)
    BY <1>6 DEF Control
  <2> QED
    BY <1>6, <2>1, SlideGood
<1>7. CASE b.state = "RIGHT"
  <2>1. Control(b, req) = Sliding(b, 1, req)
    BY <1>7 DEF Control
  <2> QED
    BY <1>7, <2>1, SlideGood
<1>8. CASE b.state = "DROP"
  <2>1. Control(b, req) = Align(b)
    BY <1>8 DEF Control
  <2>2. b = [b EXCEPT !.state = "DROP"]
    BY <1>1, <1>8 DEF Blocks
  <2> QED
    BY <1>8, <2>1, <2>2, AlignGood
<1>9. turns = {} \/ turns = {"right"} \/ "drop" \in req \/ "left" \in req
  OBVIOUS
<1> QED
  BY <1>1, <1>2, <1>3, <1>4, <1>5, <1>6, <1>7, <1>8, <1>9

LEMMA RotateGood ==
  ASSUME NEW b, Good(b, filled), NEW req \in Requests
  PROVE  Good(Rotated(b, req), filled)
<1> DEFINE c == [b EXCEPT !.dir = (@ + 1) % 4]
<1>1. CASE ~("up" \in req /\ b.state # "DROP" /\ Avail(c, b.x))
  BY <1>1 DEF Rotated
<1>2. CASE "up" \in req /\ b.state # "DROP" /\ Avail(c, b.x)
  <2>1. Rotated(b, req) = WithGhost(c, filled)
    BY <1>2 DEF Rotated
  <2>2. b \in Blocks /\ b.x \in Int /\ b.y \in Nat
    BY DEF Good, Sound, Blocks
  <2>3. /\ c \in Blocks /\ c.x = b.x /\ c.y = b.y /\ c.fall = b.fall /\ c.sx = b.sx /\ c.sy = b.sy
        /\ c.move = b.move /\ c.state = b.state /\ c.stop = b.stop
    BY <2>2 DEF Blocks
  <2>4. Avail(c, b.x)
    BY <1>2
  <2> HIDE DEF c
  <2>5. /\ c.y # 0 /\ EmptyIn(filled, c, c.x, c.y)
        /\ c.fall = 0 \/ EmptyIn(filled, c, c.x, c.y - 1)
    BY <2>3, <2>4 DEF Avail, Empty
  <2>6. Fits(c, filled) /\ AtTop(c, filled)
    BY <2>2, <2>3, <2>5 DEF Good, Sound, Fits, AtTop, Blocks
  <2>7. CountersOK(c) /\ InRow(c) /\ InColumn(c)
    BY <2>3 DEF Good, Sound, CountersOK, InRow, InColumn
  <2>8. Sound(c, filled)
    BY <2>3, <2>6, <2>7 DEF Sound
  <2> QED
    BY <2>1, <2>8, GhostSet
<1> QED
  BY <1>1, <1>2

LEMMA SteeredGood ==
  ASSUME Good(blk, filled), NEW req \in Requests
  PROVE  Good(Steered(req), filled)
  BY ControlGood, RotateGood DEF Steered

(* Coming down between two rows.                                           *)
LEMMA FallGood ==
  ASSUME NEW b, NEW cells, Good(b, cells), b.fall > 0,
         NEW n \in Nat, NEW s \in Int,
         \/ n \in 1..RowEnd - 1 /\ s = (b.y - 1) * 8 + 1 + ((n - 1) \div Step)
         \/ n = 0 /\ s = b.y * 8
  PROVE  Good([b EXCEPT !.fall = n, !.sy = s], cells)
<1> DEFINE c == [b EXCEPT !.fall = n, !.sy = s]
<1>1. b \in Blocks /\ b.y \in Nat /\ b.y > 0
  BY DEF Good, Sound, Blocks, Fits
<1>2. n \in 0..RowEnd - 1
  BY Assumed
<1>3. /\ c \in Blocks /\ c.fall = n /\ c.sy = s
      /\ c.type = b.type /\ c.dir = b.dir /\ c.x = b.x /\ c.y = b.y /\ c.sx = b.sx
      /\ c.move = b.move /\ c.stop = b.stop /\ c.ghost = b.ghost /\ c.state = b.state
  BY <1>1, <1>2 DEF Blocks
<1> HIDE DEF c
<1>4. /\ c.fall > 0 => b.fall > 0
      /\ c.state \in {"IDLE", "DROP"} \/ b.state \notin {"IDLE", "DROP"}
      /\ b.y = 0 => c.sy = b.sy
  BY <1>1, <1>3
<1>5. Fits(c, cells) /\ AtTop(c, cells) /\ GhostIn(c, cells)
  BY <1>3, <1>4, SameCells
<1>6. CountersOK(c) /\ InColumn(c)
  BY <1>3 DEF Good, Sound, CountersOK, InColumn
<1>7. InRow(c)
  BY <1>3 DEF InRow
<1> QED
  BY <1>3, <1>5, <1>6, <1>7 DEF Good, Sound, c

LEMMA FallingGood ==
  ASSUME NEW b, NEW req, Good(b, filled), b.fall > 0, level \in 1..LevelMax
  PROVE  Good(Falling(b, req), filled)
<1> DEFINE n == b.fall - 1
           q == n \div Step
<1>1. /\ b \in Blocks /\ b.fall \in 1..RowEnd - 1 /\ b.sy \in Int /\ b.y \in Nat
      /\ Step \in Nat /\ Step > 1 /\ RowEnd = 7 * Step + 1
      /\ b.sy = (b.y - 1) * 8 + 1 + q
  BY Assumed DEF Good, Sound, Blocks, InRow
<1>2. n \in Nat /\ n < 7 * Step /\ b.fall = n + 1
  BY <1>1
<1>3. FallStep[level] \in 1..8 * Step
  BY GameAssumption
<1> HIDE DEF n
<1>4. /\ q \in Nat /\ q <= 6
      /\ (n + Step) \div Step = q + 1 /\ (n + Step) \in Nat
      /\ (n + Step + Step) \div Step = q + 2
      /\ n >= 6 * Step => q = 6
      /\ (7 * Step) \div Step = 7
  <2>1. /\ q \in Nat /\ q <= 6
        /\ (n + Step) \div Step = q + 1
        /\ n >= 6 * Step => q = 6
        /\ (7 * Step) \div Step = 7
    BY <1>2, Dots
  <2> DEFINE m == n + Step
  <2>2. m \in Nat
    BY <1>1, <1>2
  <2> HIDE DEF m, q
  <2>3. (m + Step) \div Step = (m \div Step) + 1
    BY <2>2, Dots
  <2>4. m \div Step = q + 1
    BY <2>1 DEF m
  <2> QED
    BY <2>1, <2>2, <2>3, <2>4 DEF m
<1> HIDE DEF q
<1>5. CASE "down" \in req /\ FallStep[level] < 2 * Step
  <2> DEFINE once == [b EXCEPT !.fall = @ + Step, !.sy = @ + 1]
             twice == [once EXCEPT !.fall = @ + Step, !.sy = @ + 1]
  <2>1. Falling(b, req) =
          CASE once.fall >= RowEnd -> [once EXCEPT !.fall = 0]
            [] ~(once.fall >= RowEnd) /\ twice.fall >= RowEnd -> [twice EXCEPT !.fall = 0]
            [] ~(once.fall >= RowEnd) /\ ~(twice.fall >= RowEnd) -> twice
    BY <1>5 DEF Falling
  <2>2. once.fall = b.fall + Step /\ twice.fall = b.fall + Step + Step
    BY <1>1 DEF Blocks
  <2>3. CASE b.fall + Step >= RowEnd
    <3> DEFINE s == b.sy + 1
    <3>1. Falling(b, req) = [once EXCEPT !.fall = 0]
      BY <2>1, <2>2, <2>3
    <3>2. [once EXCEPT !.fall = 0] = [b EXCEPT !.fall = 0, !.sy = s]
      BY <1>1 DEF Blocks
    <3>3. s \in Int /\ s = b.y * 8
      BY <1>1, <1>2, <1>4, <2>3
    <3> HIDE DEF s
    <3>4. Good([b EXCEPT !.fall = 0, !.sy = s], filled)
      BY <3>3, FallGood
    <3> QED
      BY <3>1, <3>2, <3>4
  <2>4. CASE ~(b.fall + Step >= RowEnd) /\ b.fall + Step + Step >= RowEnd
    <3> DEFINE s == b.sy + 1 + 1
               m == n + Step
    <3>1. Falling(b, req) = [twice EXCEPT !.fall = 0]
      BY <2>1, <2>2, <2>4
    <3>2. [twice EXCEPT !.fall = 0] = [b EXCEPT !.fall = 0, !.sy = s]
      BY <1>1 DEF Blocks
    <3>3. m \in Nat /\ m >= 6 * Step /\ m < 7 * Step /\ m \div Step = q + 1
      BY <1>1, <1>2, <1>4, <2>4
    <3> HIDE DEF m
    <3>4. m \div Step = 6
      BY <3>3, Dots
    <3>5. s \in Int /\ s = b.y * 8
      BY <1>1, <1>4, <3>3, <3>4
    <3> HIDE DEF s
    <3>6. Good([b EXCEPT !.fall = 0, !.sy = s], filled)
      BY <3>5, FallGood
    <3> QED
      BY <3>1, <3>2, <3>6
  <2>5. CASE ~(b.fall + Step >= RowEnd) /\ ~(b.fall + Step + Step >= RowEnd)
    <3> DEFINE s == b.sy + 1 + 1
               m == b.fall + Step + Step
    <3>1. Falling(b, req) = twice
      BY <2>1, <2>2, <2>5
    <3>2. twice = [b EXCEPT !.fall = m, !.sy = s]
      BY <1>1 DEF Blocks
    <3>3. m \in Nat /\ m \in 1..RowEnd - 1
      BY <1>1, <2>5
    <3>4. m - 1 = n + Step + Step
      BY <1>1, <1>2
    <3>5. (m - 1) \div Step = q + 2
      BY <1>4, <3>4
    <3> HIDE DEF m
    <3>6. s \in Int /\ s = (b.y - 1) * 8 + 1 + (q + 2)
      BY <1>1, <1>4
    <3> HIDE DEF s
    <3>7. s = (b.y - 1) * 8 + 1 + ((m - 1) \div Step)
      BY <3>5, <3>6
    <3>8. Good([b EXCEPT !.fall = m, !.sy = s], filled)
      BY <3>3, <3>6, <3>7, FallGood
    <3> QED
      BY <3>1, <3>2, <3>8
  <2> QED
    BY <2>3, <2>4, <2>5
<1>6. CASE ~("down" \in req /\ FallStep[level] < 2 * Step)
  <2> DEFINE f == FallStep[level]
             to == IF b.fall + f >= RowEnd THEN RowEnd ELSE b.fall + f
             u == (to - 1) \div Step
             v == (b.fall - 1) \div Step
             s == b.sy + u - v
             z == IF to = RowEnd THEN 0 ELSE to
  <2>1. Falling(b, req) = Count(b, f)
    BY <1>6 DEF Falling
  <2>2. Count(b, f) = [b EXCEPT !.fall = z, !.sy = s]
    BY <1>1 DEF Count, Blocks
  <2>3. f \in Nat /\ f > 0
    BY <1>1, <1>3
  <2> HIDE DEF f
  <2>4. to \in 1..RowEnd
    BY <1>1, <2>3
  <2> HIDE DEF to
  <2>5. u \in Int
    <3> DEFINE m == to - 1
    <3>1. m \in Nat
      BY <2>4
    <3> HIDE DEF m
    <3>2. m \div Step \in Nat
      BY <3>1, Dots
    <3> QED
      BY <3>2 DEF m
  <2>6. v = q
    BY DEF n, q
  <2> HIDE DEF v
  <2>7. s \in Int /\ s = (b.y - 1) * 8 + 1 + u
    <3> HIDE DEF u
    <3> QED
      BY <1>1, <1>4, <2>5, <2>6
  <2> HIDE DEF s
  <2>8. CASE to = RowEnd
    <3>1. to - 1 = 7 * Step
      BY <1>1, <2>8
    <3>2. u = 7
      BY <1>4, <3>1
    <3> HIDE DEF u
    <3>3. z = 0 /\ s = b.y * 8
      BY <1>1, <2>7, <2>8, <3>2
    <3> HIDE DEF z
    <3>4. Good([b EXCEPT !.fall = z, !.sy = s], filled)
      BY <2>7, <3>3, FallGood
    <3> QED
      BY <2>1, <2>2, <3>4
  <2>9. CASE to # RowEnd
    <3>1. z = to /\ z \in Nat /\ z \in 1..RowEnd - 1
      BY <1>1, <2>4, <2>9
    <3> HIDE DEF z
    <3>2. s = (b.y - 1) * 8 + 1 + ((z - 1) \div Step)
      BY <2>7, <3>1
    <3>3. Good([b EXCEPT !.fall = z, !.sy = s], filled)
      BY <2>7, <3>1, <3>2, FallGood
    <3> QED
      BY <2>1, <2>2, <3>3
  <2> QED
    BY <2>8, <2>9
<1> QED
  BY <1>5, <1>6

(***************************************************************************)
(* Erased lines                                                            *)
(***************************************************************************)
FullRows(cells) == {r \in 0..Height - 2 : LineFull(cells, r)}
Above(S, r) == {q \in S : q > r}
Below(S, r) == Cardinality(Above(S, r))

(* The cells after the rows S are erased, all at once.                     *)
Shifted(cells, S) == {<<c[1], c[2] + Below(S, c[2])>> : c \in {d \in cells : d[2] \notin S}}

Grid == (2..Width + 1) \X (0..Height - 2)

LEMMA BelowSplit ==
  ASSUME NEW S \in SUBSET (0..Height - 2), NEW a \in Int, NEW b \in Int, a <= b
  PROVE  /\ Below(S, a) \in Nat /\ Below(S, b) \in Nat
         /\ Cardinality({q \in S : q > a /\ q <= b}) \in Nat
         /\ Below(S, a) = Below(S, b) + Cardinality({q \in S : q > a /\ q <= b})
<1> DEFINE A == Above(S, a)
           B == Above(S, b)
           C == {q \in S : q > a /\ q <= b}
<1>1. IsFiniteSet(0..Height - 2)
  BY FS_Interval, Assumed
<1>2. A \in SUBSET (0..Height - 2) /\ B \in SUBSET (0..Height - 2) /\ C \in SUBSET (0..Height - 2)
  BY DEF Above
<1>3. IsFiniteSet(A) /\ IsFiniteSet(B) /\ IsFiniteSet(C)
  BY <1>1, <1>2, FS_Subset
<1>4. A = B \cup C /\ B \cap C = {}
  <2>1. \A q \in S : q \in Int
    BY Assumed
  <2>2. \A q \in S : q > a <=> q > b \/ (q > a /\ q <= b)
    BY <2>1
  <2>3. \A q \in S : ~(q > b /\ q <= b)
    BY <2>1
  <2>4. A = B \cup C
    BY <2>2, Zenon DEF Above
  <2> QED
    BY <2>3, <2>4 DEF Above
<1> HIDE DEF A, B, C
<1>5. Cardinality(B \cup C) = Cardinality(B) + Cardinality(C) - Cardinality(B \cap C)
  BY <1>3, FS_Union
<1>6. Cardinality({}) = 0
  BY FS_EmptySet
<1>7. Cardinality(A) \in Nat /\ Cardinality(B) \in Nat /\ Cardinality(C) \in Nat
  BY <1>3, FS_CardinalityType
<1>8. Cardinality(A) = Cardinality(B) + Cardinality(C)
  <2>1. Cardinality(B \cap C) = 0 /\ Cardinality(A) = Cardinality(B \cup C)
    BY <1>4, <1>6
  <2> QED
    BY <1>5, <1>7, <2>1
<1> QED
  BY <1>7, <1>8 DEF Below, A, B, C

LEMMA BelowNat ==
  ASSUME NEW S \in SUBSET (0..Height - 2), NEW a \in Int
  PROVE  Below(S, a) \in Nat
<1>1. a <= a
  OBVIOUS
<1> QED
  BY <1>1, BelowSplit

(* Rows that stay keep their order.                                        *)
LEMMA BelowOrder ==
  ASSUME NEW S \in SUBSET (0..Height - 2), NEW a \in Int, NEW b \in Int, a < b, b \notin S
  PROVE  /\ Below(S, a) \in Nat /\ Below(S, b) \in Nat
         /\ a + Below(S, a) < b + Below(S, b)
<1> DEFINE C == {q \in S : q > a /\ q <= b}
<1>1. C \in SUBSET (a + 1..b - 1)
  <2>1. \A q \in S : q \in Int
    BY Assumed
  <2>2. \A q \in C : q \in Int /\ q > a /\ q <= b /\ q # b
    BY <2>1
  <2> HIDE DEF C
  <2>3. \A q \in C : q \in a + 1..b - 1
    BY <2>2
  <2> QED
    BY <2>3
<1>2. IsFiniteSet(a + 1..b - 1) /\ Cardinality(a + 1..b - 1) = b - a - 1
  <2> DEFINE u == a + 1
             v == b - 1
  <2>1. u \in Int /\ v \in Int
    OBVIOUS
  <2> HIDE DEF u, v
  <2>2. IsFiniteSet(u..v) /\ Cardinality(u..v) = IF u > v THEN 0 ELSE v - u + 1
    BY <2>1, FS_Interval
  <2> QED
    BY <2>2 DEF u, v
<1>3. Cardinality(C) <= b - a - 1
  <2> DEFINE D == a + 1..b - 1
  <2>1. C \in SUBSET D /\ IsFiniteSet(D) /\ Cardinality(D) = b - a - 1
    BY <1>1, <1>2
  <2> HIDE DEF C, D
  <2>2. Cardinality(C) <= Cardinality(D)
    BY <2>1, FS_Subset
  <2> QED
    BY <2>1, <2>2
<1>4. /\ Below(S, a) \in Nat /\ Below(S, b) \in Nat /\ Cardinality(C) \in Nat
      /\ Below(S, a) = Below(S, b) + Cardinality(C)
  BY BelowSplit
<1> HIDE DEF C
<1> QED
  BY <1>3, <1>4

LEMMA BelowBound ==
  ASSUME NEW S \in SUBSET (0..Height - 2), NEW a \in Int, a <= Height - 2
  PROVE  Below(S, a) \in Nat /\ a + Below(S, a) <= Height - 2
<1> DEFINE A == Above(S, a)
           u == a + 1
           v == Height - 2
<1>1. A \in SUBSET (u..v) /\ u \in Int /\ v \in Int
  <2>1. \A q \in A : q \in 0..Height - 2 /\ q > a
    BY DEF Above
  <2> HIDE DEF A
  <2>2. \A q \in A : q \in u..v
    BY <2>1, Assumed
  <2> QED
    BY <2>2, Assumed
<1> HIDE DEF A, u, v
<1>2. IsFiniteSet(u..v) /\ Cardinality(u..v) = IF u > v THEN 0 ELSE v - u + 1
  BY <1>1, FS_Interval
<1>3. Cardinality(A) <= Cardinality(u..v) /\ IsFiniteSet(A)
  BY <1>1, <1>2, FS_Subset
<1>4. Cardinality(A) \in Nat
  BY <1>3, FS_CardinalityType
<1>5. Height \in Nat
  BY Assumed
<1> QED
  BY <1>2, <1>3, <1>4, <1>5 DEF Below, A, u, v

(* Erased rows leave the rows above them where they were, and full rows    *)
(* are full there.                                                         *)
LEMMA ShiftedCell ==
  ASSUME NEW S \in SUBSET (0..Height - 2), NEW cells \in SUBSET Grid, NEW o \in Int, o \notin S,
         NEW x
  PROVE  <<x, o + Below(S, o)>> \in Shifted(cells, S) <=> <<x, o>> \in cells
<1>1. ASSUME <<x, o>> \in cells
      PROVE  <<x, o + Below(S, o)>> \in Shifted(cells, S)
  <2> DEFINE c == <<x, o>>
  <2>1. c \in {d \in cells : d[2] \notin S} /\ c[1] = x /\ c[2] = o
    BY <1>1
  <2> HIDE DEF c
  <2> QED
    BY <2>1 DEF Shifted
<1>2. ASSUME <<x, o + Below(S, o)>> \in Shifted(cells, S)
      PROVE  <<x, o>> \in cells
  <2>1. PICK c \in cells : c[2] \notin S /\ <<x, o + Below(S, o)>> = <<c[1], c[2] + Below(S, c[2])>>
    BY <1>2 DEF Shifted
  <2>2. c[1] = x /\ o + Below(S, o) = c[2] + Below(S, c[2])
    BY <2>1
  <2>3. c[2] \in Int /\ c = <<c[1], c[2]>>
    BY Assumed DEF Grid
  <2>4. ~(c[2] < o)
    BY <2>2, <2>3, BelowOrder
  <2>5. ~(o < c[2])
    BY <2>1, <2>2, <2>3, BelowOrder
  <2>6. c[2] = o
    BY <2>3, <2>4, <2>5
  <2> QED
    BY <2>2, <2>3, <2>6
<1> QED
  BY <1>1, <1>2

LEMMA ShiftedFull ==
  ASSUME NEW S \in SUBSET (0..Height - 2), NEW cells \in SUBSET Grid, NEW o \in Int, o \notin S,
         o <= Height - 2
  PROVE  LineFull(Shifted(cells, S), o + Below(S, o)) <=> o \in FullRows(cells)
<1> DEFINE n == o + Below(S, o)
<1>1. n \in Int /\ n <= Height - 2
  BY BelowBound, Assumed
<1>2. \A x : <<x, n>> \in Shifted(cells, S) <=> <<x, o>> \in cells
  BY ShiftedCell
<1>0. n # Height - 1
  <2> HIDE DEF n
  <2> QED
    BY <1>1, Assumed
<1> HIDE DEF n
<1>3. LineFull(Shifted(cells, S), n) <=> \A x \in 2..Width + 1 : <<x, o>> \in cells
  BY <1>0, <1>2 DEF LineFull
<1>4. (\A x \in 2..Width + 1 : <<x, o>> \in cells) <=> o \in FullRows(cells)
  <2>1. 2 \in 2..Width + 1
    BY Assumed
  <2>2. (\A x \in 2..Width + 1 : <<x, o>> \in cells) => o \in 0..Height - 2
    BY <2>1 DEF Grid
  <2>3. o # Height - 1
    BY Assumed
  <2> QED
    BY <2>2, <2>3 DEF FullRows, LineFull
<1> QED
  BY <1>3, <1>4 DEF n

(* The cells that are left are in the playfield, and no row is full.       *)
LEMMA ShiftedClean ==
  ASSUME NEW cells \in SUBSET Grid, TopFree(cells)
  PROVE  LET S == FullRows(cells)
         IN /\ Shifted(cells, S) \in SUBSET Grid
            /\ TopFree(Shifted(cells, S)) /\ NoneFull(Shifted(cells, S))
<1> DEFINE S == FullRows(cells)
           T == Shifted(cells, S)
<1>1. S \in SUBSET (0..Height - 2)
  BY DEF FullRows
<1>2. ASSUME NEW e \in T
      PROVE  e \in Grid /\ e[2] # 0
  <2>1. PICK c \in cells : c[2] \notin S /\ e = <<c[1], c[2] + Below(S, c[2])>>
    BY DEF Shifted
  <2>2. c \in Grid /\ c = <<c[1], c[2]>> /\ c[1] \in 2..Width + 1 /\ c[2] \in 0..Height - 2 /\ c[2] \in Int
    BY Assumed DEF Grid
  <2>3. c[2] # 0
    BY <2>2 DEF TopFree
  <2> HIDE DEF S, T
  <2>4. Below(S, c[2]) \in Nat /\ c[2] + Below(S, c[2]) <= Height - 2
    BY <1>1, <2>2, BelowBound, Assumed
  <2> QED
    BY <2>1, <2>2, <2>3, <2>4, Assumed DEF Grid
<1>3. TopFree(T)
  <2> SUFFICES ASSUME NEW x \in 2..Width + 1, <<x, 0>> \in T PROVE FALSE
    BY DEF TopFree
  <2> QED
    BY <1>2
<1>4. NoneFull(T)
  <2> SUFFICES ASSUME NEW n \in 0..Height - 2, LineFull(T, n) PROVE FALSE
    BY DEF NoneFull
  <2>1. \A x \in 2..Width + 1 : <<x, n>> \in T
    BY Assumed DEF LineFull
  <2>2. 2 \in 2..Width + 1
    BY Assumed
  <2>3. PICK c \in cells : c[2] \notin S /\ <<2, n>> = <<c[1], c[2] + Below(S, c[2])>>
    BY <2>1, <2>2 DEF Shifted
  <2> DEFINE o == c[2]
  <2>4. o \in Int /\ o \notin S /\ n = o + Below(S, o) /\ o <= Height - 2
    BY <2>3, Assumed DEF Grid
  <2> HIDE DEF o, S
  <2>5. LineFull(Shifted(cells, S), o + Below(S, o))
    BY <2>4
  <2>6. o \in FullRows(cells)
    BY <1>1, <2>4, <2>5, ShiftedFull
  <2> QED
    BY <2>4, <2>6 DEF S
<1>5. T \in SUBSET Grid
  BY <1>2
<1> QED
  BY <1>3, <1>4, <1>5

(* One line more.                                                          *)
LEMMA LevelNext ==
  ASSUME NEW t \in Nat
  PROVE  /\ LevelAt(t) \in 1..LevelMax
         /\ LevelAt(t + 1) =
              IF (t + 1) % LevelUp = 0 /\ LevelAt(t) < LevelMax THEN LevelAt(t) + 1 ELSE LevelAt(t)
<1> DEFINE m == LevelUp
           q == t \div m
           r == t % m
<1>1. m \in Nat /\ m > 0
  BY Assumed
<1> HIDE DEF m
<1>2. q \in Nat /\ r \in 0..m - 1 /\ t = q * m + r
  BY <1>1, Division
<1> HIDE DEF q, r
<1>3. CASE r < m - 1
  <2>1. t + 1 = q * m + (r + 1) /\ r + 1 \in 0..m - 1 /\ q \in Int
    BY <1>1, <1>2, <1>3
  <2> DEFINE s == r + 1
  <2>2. s \in 0..m - 1 /\ t + 1 = q * m + s /\ s # 0
    BY <1>2, <2>1
  <2> HIDE DEF s
  <2>3. (q * m + s) \div m = q /\ (q * m + s) % m = s
    BY <1>1, <2>1, <2>2, Quotient
  <2>4. (t + 1) \div m = q /\ (t + 1) % m # 0 /\ t \div m = q
    BY <2>2, <2>3 DEF q
  <2> QED
    BY <1>2, <2>4, Assumed DEF LevelAt, m
<1>4. CASE r = m - 1
  <2> DEFINE p == q + 1
  <2>1. p \in Int /\ p * m = q * m + m /\ p = q + 1
    BY <1>1, <1>2
  <2> HIDE DEF p
  <2>2. t + 1 = p * m + 0
    BY <1>1, <1>2, <1>4, <2>1
  <2>3. (p * m + 0) \div m = p /\ (p * m + 0) % m = 0
    BY <1>1, <2>1, Quotient
  <2>4. (t + 1) \div m = p /\ (t + 1) % m = 0 /\ t \div m = q
    BY <2>2, <2>3 DEF q
  <2> QED
    BY <1>2, <2>1, <2>4, Assumed DEF LevelAt, m
<1> QED
  BY <1>1, <1>2, <1>3, <1>4

(* scroll_layout() erases one more row.                                    *)
LEMMA ScrollOne ==
  ASSUME NEW E \in SUBSET (0..Height - 2), NEW cells \in SUBSET Grid, TopFree(cells),
         NEW o \in 0..Height - 2, \A q \in E : q > o
  PROVE  ScrollLayout(Shifted(cells, E), o + Below(E, o)) = Shifted(cells, E \cup {o})
<1> DEFINE T == E \cup {o}
           n == o + Below(E, o)
           to(d) == d[2] + Below(E, d[2])
<1>1. o \in Int /\ o \notin E /\ T \in SUBSET (0..Height - 2)
  BY Assumed
<1>2. Below(E, o) \in Nat /\ n \in Int
  BY <1>1, BelowNat
<1>3. \A d \in cells : /\ d = <<d[1], d[2]>> /\ d[2] \in Int /\ d[2] >= 1
                       /\ Below(E, d[2]) \in Nat /\ to(d) \in Int /\ to(d) >= 1
  <2> TAKE d \in cells
  <2>1. d = <<d[1], d[2]>> /\ d[1] \in 2..Width + 1 /\ d[2] \in 0..Height - 2 /\ d[2] \in Int
    BY Assumed DEF Grid
  <2>2. d[2] # 0
    BY <2>1 DEF TopFree
  <2>3. Below(E, d[2]) \in Nat
    BY <1>1, <2>1, BelowNat
  <2> QED
    BY <2>1, <2>2, <2>3, Assumed
<1>4. ASSUME NEW d \in cells, d[2] \notin E, d[2] > o
      PROVE  to(d) > n /\ Below(T, d[2]) = Below(E, d[2]) /\ d[2] \notin T
  <2>1. o + Below(E, o) < d[2] + Below(E, d[2])
    BY <1>1, <1>3, <1>4, BelowOrder
  <2>2. Above(T, d[2]) = Above(E, d[2])
    BY <1>1, <1>3, <1>4 DEF Above
  <2> QED
    BY <1>1, <1>2, <1>3, <1>4, <2>1, <2>2 DEF Below
<1>5. ASSUME NEW d \in cells, d[2] \notin E, d[2] < o
      PROVE  to(d) < n /\ Below(T, d[2]) = Below(E, d[2]) + 1 /\ d[2] \notin T
  <2>1. d[2] + Below(E, d[2]) < o + Below(E, o)
    BY <1>1, <1>3, <1>5, BelowOrder
  <2>2. Above(T, d[2]) = Above(E, d[2]) \cup {o} /\ o \notin Above(E, d[2])
    BY <1>1, <1>3, <1>5 DEF Above
  <2>3. IsFiniteSet(Above(E, d[2]))
    <3>1. Above(E, d[2]) \in SUBSET (0..Height - 2)
      BY DEF Above
    <3>2. IsFiniteSet(0..Height - 2)
      BY FS_Interval, Assumed
    <3> QED
      BY <3>1, <3>2, FS_Subset
  <2>4. Below(T, d[2]) = Below(E, d[2]) + 1
    BY <2>2, <2>3, FS_AddElement DEF Below
  <2> QED
    BY <1>1, <1>3, <1>5, <2>1, <2>4
<1>6. ASSUME NEW d \in cells, d[2] = o
      PROVE  to(d) = n /\ d[2] \in T
  BY <1>6
<1>7. \A e : e \in Shifted(cells, E) <=>
               \E d \in cells : d[2] \notin E /\ e = <<d[1], to(d)>>
  BY DEF Shifted
<1>8. \A e : e \in Shifted(cells, T) <=>
               \E d \in cells : d[2] \notin T /\ e = <<d[1], d[2] + Below(T, d[2])>>
  BY DEF Shifted
<1>9. \A e : e \in ScrollLayout(Shifted(cells, E), n) <=>
               \/ e \in Shifted(cells, E) /\ (e[2] > n \/ e[2] = 0)
               \/ \E f \in Shifted(cells, E) : f[2] < n /\ e = <<f[1], f[2] + 1>>
  BY DEF ScrollLayout
<1>10. \A d \in cells : d[2] < o \/ d[2] = o \/ d[2] > o
  BY <1>1, <1>3
<1> HIDE DEF T, n, to
<1>11. ASSUME NEW e \in ScrollLayout(Shifted(cells, E), n)
       PROVE  e \in Shifted(cells, T)
  <2>1. CASE e \in Shifted(cells, E) /\ (e[2] > n \/ e[2] = 0)
    <3>1. PICK d \in cells : d[2] \notin E /\ e = <<d[1], to(d)>>
      BY <1>7, <2>1
    <3>2. e[2] = to(d) /\ to(d) \in Int /\ to(d) > n
      BY <1>3, <2>1, <3>1
    <3>3. d[2] > o
      BY <1>2, <1>5, <1>6, <1>10, <3>1, <3>2
    <3>4. d[2] \notin T /\ e = <<d[1], d[2] + Below(T, d[2])>>
      BY <1>4, <3>1, <3>3 DEF to
    <3> QED
      BY <1>8, <3>4
  <2>2. CASE \E f \in Shifted(cells, E) : f[2] < n /\ e = <<f[1], f[2] + 1>>
    <3>1. PICK f \in Shifted(cells, E) : f[2] < n /\ e = <<f[1], f[2] + 1>>
      BY <2>2
    <3>2. PICK d \in cells : d[2] \notin E /\ f = <<d[1], to(d)>>
      BY <1>7, <3>1
    <3>3. f[2] = to(d) /\ f[1] = d[1] /\ to(d) \in Int /\ to(d) < n
      BY <1>3, <3>1, <3>2
    <3>4. d[2] < o
      BY <1>2, <1>4, <1>6, <1>10, <3>2, <3>3
    <3>5. d[2] \notin T /\ Below(T, d[2]) = Below(E, d[2]) + 1
      BY <1>5, <3>2, <3>4
    <3>6. f[2] + 1 = d[2] + Below(T, d[2])
      BY <1>3, <3>3, <3>5 DEF to
    <3> QED
      BY <1>8, <3>1, <3>3, <3>5, <3>6
  <2> QED
    BY <1>9, <2>1, <2>2
<1>12. ASSUME NEW e \in Shifted(cells, T)
       PROVE  e \in ScrollLayout(Shifted(cells, E), n)
  <2>1. PICK d \in cells : d[2] \notin T /\ e = <<d[1], d[2] + Below(T, d[2])>>
    BY <1>8
  <2>2. d[2] \notin E /\ d[2] # o
    BY <2>1 DEF T
  <2> DEFINE f == <<d[1], to(d)>>
  <2>3. f \in Shifted(cells, E) /\ f[1] = d[1] /\ f[2] = to(d)
    BY <1>7, <2>2
  <2> HIDE DEF f
  <2>4. CASE d[2] > o
    <3>1. e = f /\ f[2] > n
      BY <1>4, <2>1, <2>2, <2>3, <2>4 DEF to, f
    <3> QED
      BY <1>9, <2>3, <3>1
  <2>5. CASE d[2] < o
    <3>1. f[2] < n /\ f[2] + 1 = d[2] + Below(T, d[2])
      BY <1>3, <1>5, <2>2, <2>3, <2>5 DEF to
    <3>2. e = <<f[1], f[2] + 1>>
      BY <2>1, <2>3, <3>1
    <3> QED
      BY <1>9, <2>3, <3>1, <3>2
  <2> QED
    BY <1>10, <2>2, <2>4, <2>5
<1>13. ScrollLayout(Shifted(cells, E), n) = Shifted(cells, T)
  BY <1>11, <1>12
<1> QED
  BY <1>13 DEF n, T

(* check_layout_fill() when it has looked at the rows below row o, and the *)
(* full ones among them are erased.                                        *)
LookedAt(cells, o, s, y) ==
  LET n == Below(FullRows(cells), o)
  IN [cells |-> Shifted(cells, Above(FullRows(cells), o)), score |-> s + n, level |-> LevelAt(s + n),
      row |-> o + n, top |-> y]

LEMMA LookCases ==
  ASSUME NEW g
  PROVE  /\ g.row < g.top => Look(g) = g
         /\ ~(g.row < g.top) /\ LineFull(g.cells, g.row) => Look(g) = EraseLine(g, g.row)
         /\ ~(g.row < g.top) /\ ~LineFull(g.cells, g.row) => Look(g) = [g EXCEPT !.row = @ - 1]
  BY Zenon DEF Look

LEMMA LookOne ==
  ASSUME NEW cells \in SUBSET Grid, TopFree(cells), NEW o \in Int, o <= Height - 2,
         NEW s \in Nat, NEW y \in Nat, o + Below(FullRows(cells), o) >= y
  PROVE  Look(LookedAt(cells, o, s, y)) = LookedAt(cells, o - 1, s, y)
<1> DEFINE F == FullRows(cells)
           E == Above(F, o)
           n == Below(F, o)
           g == LookedAt(cells, o, s, y)
<1>1. F \in SUBSET (0..Height - 2) /\ E \in SUBSET (0..Height - 2)
  BY DEF FullRows, Above
<1>2. n \in Nat
  BY <1>1, BelowNat
<1>3. Below(E, o) = n /\ o \notin E /\ \A q \in E : q > o
  <2>1. Above(E, o) = E
    BY DEF Above
  <2>2. \A q \in E : q > o
    BY DEF Above
  <2>3. o \notin E
    BY <2>2
  <2> QED
    BY <2>1, <2>2, <2>3 DEF Below
<1>4. g = [cells |-> Shifted(cells, E), score |-> s + n, level |-> LevelAt(s + n),
           row |-> o + n, top |-> y]
  BY DEF LookedAt
<1> HIDE DEF g
<1>5. g.cells = Shifted(cells, E) /\ g.row = o + n /\ g.top = y /\ g.score = s + n
  BY <1>4
<1>6. ~(g.row < g.top)
  BY <1>2, <1>5
<1>7. LineFull(g.cells, g.row) <=> o \in F
  BY <1>1, <1>3, <1>5, ShiftedFull
<1>8. CASE o \in F
  <2>1. Look(g) = EraseLine(g, g.row)
    BY <1>6, <1>7, <1>8, LookCases
  <2>2. ScrollLayout(g.cells, g.row) = Shifted(cells, E \cup {o})
    BY <1>1, <1>3, <1>5, <1>8, ScrollOne
  <2>3. LevelAt(s + n + 1) = IF (s + n + 1) % LevelUp = 0 /\ LevelAt(s + n) < LevelMax
                              THEN LevelAt(s + n) + 1 ELSE LevelAt(s + n)
    <3> DEFINE t == s + n
    <3>1. t \in Nat
      BY <1>2
    <3> HIDE DEF t
    <3>2. LevelAt(t + 1) = IF (t + 1) % LevelUp = 0 /\ LevelAt(t) < LevelMax
                            THEN LevelAt(t) + 1 ELSE LevelAt(t)
      BY <3>1, LevelNext
    <3> QED
      BY <3>2 DEF t
  <2>4. Above(F, o - 1) = E \cup {o}
    BY <1>1, <1>8, Assumed DEF Above
  <2>5. Below(F, o - 1) = n + 1
    <3>1. IsFiniteSet(0..Height - 2)
      BY FS_Interval, Assumed
    <3>2. IsFiniteSet(E)
      BY <1>1, <3>1, FS_Subset
    <3> HIDE DEF E
    <3>3. Cardinality(E \cup {o}) = Cardinality(E) + 1
      BY <1>3, <3>2, FS_AddElement
    <3> QED
      BY <2>4, <3>3 DEF Below, E
  <2> HIDE DEF n, E
  <2> DEFINE C == ScrollLayout(g.cells, g.row)
             V == IF (g.score + 1) % LevelUp = 0 /\ g.level < LevelMax THEN g.level + 1 ELSE g.level
             U == g.score + 1
  <2>10. EraseLine(g, g.row) = [g EXCEPT !.cells = C, !.score = U, !.level = V]
    BY Zenon DEF EraseLine
  <2>11. U = s + n + 1 /\ V = LevelAt(s + n + 1)
    BY <1>4, <2>3
  <2> HIDE DEF C, V, U
  <2> DEFINE A == Shifted(cells, E)
             B == s + n
             D == LevelAt(s + n)
             R == o + n
  <2>12. g = [cells |-> A, score |-> B, level |-> D, row |-> R, top |-> y]
    BY <1>4
  <2> HIDE DEF A, B, D, R
  <2>13. EraseLine(g, g.row) = [cells |-> C, score |-> U, level |-> V, row |-> R, top |-> y]
    BY <2>10, <2>12
  <2>7. EraseLine(g, g.row) =
          [cells |-> Shifted(cells, E \cup {o}), score |-> s + n + 1, level |-> LevelAt(s + n + 1),
           row |-> o + n, top |-> y]
    BY <2>2, <2>11, <2>13 DEF C, R
  <2>8. s + (n + 1) = s + n + 1 /\ o - 1 + (n + 1) = o + n
    BY <1>2
  <2>9. LookedAt(cells, o - 1, s, y) =
          [cells |-> Shifted(cells, E \cup {o}), score |-> s + n + 1, level |-> LevelAt(s + n + 1),
           row |-> o + n, top |-> y]
    BY <2>4, <2>5, <2>8 DEF LookedAt
  <2> QED
    BY <2>1, <2>7, <2>9 DEF g
<1>9. CASE o \notin F
  <2>1. Look(g) = [g EXCEPT !.row = @ - 1]
    BY <1>6, <1>7, <1>9, LookCases
  <2>2. Above(F, o - 1) = E
    BY <1>1, <1>9, Assumed DEF Above
  <2>3. Below(F, o - 1) = n
    BY <2>2 DEF Below
  <2> HIDE DEF n, E
  <2>4. o - 1 + n = (o + n) - 1
    BY <1>2
  <2>5. LookedAt(cells, o - 1, s, y) =
          [cells |-> Shifted(cells, E), score |-> s + n, level |-> LevelAt(s + n),
           row |-> (o + n) - 1, top |-> y]
    BY <2>2, <2>3, <2>4 DEF LookedAt
  <2> DEFINE A == Shifted(cells, E)
             B == s + n
             D == LevelAt(s + n)
             R == o + n
  <2>6. g = [cells |-> A, score |-> B, level |-> D, row |-> R, top |-> y]
    BY <1>4
  <2>7. LookedAt(cells, o - 1, s, y) = [cells |-> A, score |-> B, level |-> D, row |-> R - 1, top |-> y]
    BY <2>5, Zenon
  <2> HIDE DEF A, B, D, R
  <2>8. Look(g) = [cells |-> A, score |-> B, level |-> D, row |-> R - 1, top |-> y]
    BY <2>1, <2>6
  <2> QED
    BY <2>7, <2>8 DEF g
<1> QED
  BY <1>8, <1>9

(* After k looks the loop is done or k rows further up.                    *)
Stage(g, k, cells, s, y) ==
  \E o \in Int : /\ g = LookedAt(cells, o, s, y) /\ o <= y + 3
                 /\ g.row < y \/ o = y + 3 - k

LEMMA StageNext ==
  ASSUME NEW cells \in SUBSET Grid, TopFree(cells), NEW s \in Nat, NEW y \in Nat, y <= Height - 5,
         NEW k \in Nat, NEW g, Stage(g, k, cells, s, y)
  PROVE  Stage(Look(g), k + 1, cells, s, y)
<1>1. PICK o \in Int : /\ g = LookedAt(cells, o, s, y) /\ o <= y + 3
                       /\ g.row < y \/ o = y + 3 - k
  BY DEF Stage
<1>2. g.row = o + Below(FullRows(cells), o) /\ g.top = y
  BY <1>1 DEF LookedAt
<1>3. Below(FullRows(cells), o) \in Nat
  BY BelowNat DEF FullRows
<1>4. CASE g.row < y
  <2>1. Look(g) = g
    BY <1>2, <1>4, LookCases
  <2> QED
    BY <1>1, <1>4, <2>1 DEF Stage
<1>5. CASE ~(g.row < y)
  <2>1. o <= Height - 2 /\ o + Below(FullRows(cells), o) >= y
    BY <1>1, <1>2, <1>3, <1>5, Assumed
  <2>2. Look(g) = LookedAt(cells, o - 1, s, y)
    BY <1>1, <2>1, LookOne
  <2>3. o - 1 \in Int /\ o - 1 <= y + 3 /\ o - 1 = y + 3 - (k + 1)
    BY <1>1, <1>5
  <2> QED
    BY <2>2, <2>3 DEF Stage
<1> QED
  BY <1>4, <1>5

LEMMA StageFour ==
  ASSUME NEW cells \in SUBSET Grid, TopFree(cells), NEW s \in Nat, NEW y \in Nat, y <= Height - 5,
         NEW k \in Nat, NEW g, Stage(g, k, cells, s, y)
  PROVE  Stage(FourLooks(g), k + 4, cells, s, y)
<1>1. ASSUME NEW j \in Nat, NEW h, Stage(h, j, cells, s, y)
      PROVE  Stage(TwoLooks(h), j + 2, cells, s, y)
  <2>1. Stage(Look(h), j + 1, cells, s, y) /\ j + 1 \in Nat
    BY <1>1, StageNext
  <2> DEFINE h1 == Look(h)
             j1 == j + 1
  <2>2. Stage(h1, j1, cells, s, y) /\ j1 \in Nat
    BY <2>1
  <2>3. j1 + 1 = j + 2
    OBVIOUS
  <2>5. TwoLooks(h) = Look(h1)
    BY Zenon DEF TwoLooks
  <2> HIDE DEF h1, j1
  <2>4. Stage(Look(h1), j1 + 1, cells, s, y)
    BY <2>2, StageNext
  <2> QED
    BY <2>3, <2>4, <2>5
<1>2. Stage(TwoLooks(g), k + 2, cells, s, y) /\ k + 2 \in Nat
  BY <1>1
<1> DEFINE g1 == TwoLooks(g)
           k1 == k + 2
<1>3. Stage(g1, k1, cells, s, y) /\ k1 \in Nat
  BY <1>2
<1>4. FourLooks(g) = TwoLooks(g1)
  BY Zenon DEF FourLooks
<1>5. k1 + 2 = k + 4
  OBVIOUS
<1> HIDE DEF g1, k1
<1>6. Stage(TwoLooks(g1), k1 + 2, cells, s, y)
  BY <1>1, <1>3
<1> QED
  BY <1>4, <1>5, <1>6

(* Eight looks erase every full row of four, adjacent or not.              *)
LEMMA LooksSuffice ==
  ASSUME NEW cells \in SUBSET Grid, TopFree(cells), NEW y \in 1..Height - 5,
         FullRows(cells) \subseteq y..y + 3, score \in Nat, level = LevelAt(score)
  PROVE  LET game == CheckLayoutFill(cells, y)
             n == Cardinality(FullRows(cells))
         IN /\ n \in Nat
            /\ game.cells = Shifted(cells, FullRows(cells))
            /\ game.score = score + n /\ game.level = LevelAt(score + n)
<1> DEFINE F == FullRows(cells)
           g == [cells |-> cells, score |-> score, level |-> level, row |-> y + 3, top |-> y]
           game == CheckLayoutFill(cells, y)
<1>1. /\ y \in Nat /\ y <= Height - 5 /\ y + 3 \in Int
      /\ F \in SUBSET (0..Height - 2) /\ F \subseteq y..y + 3
  BY Assumed DEF FullRows
<1>2. g = LookedAt(cells, y + 3, score, y)
  <2>1. Above(F, y + 3) = {}
    <3> HIDE DEF F
    <3>1. \A q \in F : q \in Int /\ ~(q > y + 3)
      BY <1>1
    <3> QED
      BY <3>1, Zenon DEF Above
  <2>2. Below(F, y + 3) = 0
    BY <2>1, FS_EmptySet DEF Below
  <2>3. Shifted(cells, {}) = cells
    <3>1. \A d \in cells : d = <<d[1], d[2]>> /\ d[2] \in Int
      BY Assumed DEF Grid
    <3>2. \A r : Above({}, r) = {}
      BY DEF Above
    <3>3. \A r : Below({}, r) = 0
      BY <3>2, FS_EmptySet DEF Below
    <3>4. \A d \in cells : <<d[1], d[2] + Below({}, d[2])>> = d
      BY <3>1, <3>3
    <3> QED
      BY <3>4 DEF Shifted
  <2>4. score + 0 = score /\ y + 3 + 0 = y + 3
    BY <1>1
  <2> HIDE DEF F
  <2>5. LookedAt(cells, y + 3, score, y) =
          [cells |-> Shifted(cells, {}), score |-> score + 0, level |-> LevelAt(score + 0),
           row |-> y + 3 + 0, top |-> y]
    BY <2>1, <2>2, Zenon DEF LookedAt, F
  <2> QED
    BY <2>3, <2>4, <2>5
<1>3. Stage(g, 0, cells, score, y)
  <2>1. y + 3 \in Int /\ y + 3 <= y + 3 /\ y + 3 = y + 3 - 0
    BY <1>1
  <2> HIDE DEF g
  <2> QED
    BY <1>2, <2>1 DEF Stage
<1>4. Stage(FourLooks(g), 4, cells, score, y)
  <2> HIDE DEF g
  <2>1. Stage(FourLooks(g), 0 + 4, cells, score, y)
    BY <1>1, <1>3, StageFour
  <2> QED
    BY <2>1
<1>5. game = FourLooks(FourLooks(g))
  BY Zenon DEF CheckLayoutFill
<1> DEFINE h == FourLooks(g)
<1>6. Stage(h, 4, cells, score, y) /\ game = FourLooks(h)
  BY <1>4, <1>5
<1> HIDE DEF g, h, game
<1>7. Stage(game, 8, cells, score, y)
  <2>1. Stage(FourLooks(h), 4 + 4, cells, score, y)
    BY <1>1, <1>6, StageFour
  <2> QED
    BY <1>6, <2>1
<1>8. PICK o \in Int : /\ game = LookedAt(cells, o, score, y)
                       /\ game.row < y \/ o = y + 3 - 8
  BY <1>7 DEF Stage
<1>9. IsFiniteSet(F) /\ Cardinality(F) \in Nat /\ Cardinality(F) <= 4
  <2> DEFINE u == y + 3
  <2>1. u \in Int /\ y \in Int /\ F \in SUBSET (y..u)
    BY <1>1
  <2> HIDE DEF u, F
  <2>2. IsFiniteSet(y..u) /\ Cardinality(y..u) = IF y > u THEN 0 ELSE u - y + 1
    BY <2>1, FS_Interval
  <2>3. IsFiniteSet(F) /\ Cardinality(F) <= Cardinality(y..u)
    BY <2>1, <2>2, FS_Subset
  <2>4. Cardinality(F) \in Nat
    BY <2>3, FS_CardinalityType
  <2> QED
    BY <2>1, <2>2, <2>3, <2>4 DEF u
<1>10. game.row = o + Below(F, o) /\ Below(F, o) \in Nat
  <2>1. Below(F, o) \in Nat
    BY <1>1, BelowNat
  <2> QED
    BY <1>8, <2>1 DEF LookedAt
<1>11. o < y
  BY <1>1, <1>8, <1>10
<1>12. Above(F, o) = F
  <2> HIDE DEF F
  <2>1. \A q \in F : q > o
    BY <1>1, <1>11
  <2> QED
    BY <2>1, Zenon DEF Above
<1>13. Below(F, o) = Cardinality(F)
  BY <1>12 DEF Below
<1>14. /\ game.cells = Shifted(cells, F)
       /\ game.score = score + Cardinality(F) /\ game.level = LevelAt(score + Cardinality(F))
  <2> HIDE DEF F
  <2>1. game = [cells |-> Shifted(cells, F), score |-> score + Cardinality(F),
                level |-> LevelAt(score + Cardinality(F)), row |-> o + Cardinality(F), top |-> y]
    BY <1>8, <1>12, <1>13, Zenon DEF LookedAt, F
  <2> QED
    BY <2>1
<1> QED
  BY <1>9, <1>14 DEF game

(***************************************************************************)
(* The steps                                                               *)
(***************************************************************************)
LEMMA RowGood ==
  ASSUME NEW b, Good(b, filled), b.fall = 0, Empty(b, b.x, b.y + 1)
  PROVE  Good(NextRow(b), filled)
<1> DEFINE c == NextRow(b)
           f == IF b.state = "DROP" THEN 0 ELSE 1
           s == IF b.state = "DROP" THEN b.sy + 8 ELSE b.sy + 1
           u == b.y + 1
<1>1. b \in Blocks /\ b.y \in Nat /\ b.sy \in Int /\ b.x \in Int /\ b.ghost \in Nat
  BY DEF Good, Sound, Blocks
<1>2. f \in 0..RowEnd - 1 /\ s \in Int /\ u \in Nat /\ u = b.y + 1 /\ 0 \in Nat
  BY <1>1, Assumed
<1>3. c = [b EXCEPT !.stop = 0, !.sy = s, !.y = u, !.fall = f]
  <2>1. CASE b.state = "DROP"
    BY <1>1, <2>1 DEF NextRow, Blocks
  <2>2. CASE b.state # "DROP"
    BY <1>1, <2>2 DEF NextRow, Blocks
  <2> QED
    BY <2>1, <2>2
<1>4. b.state = "DROP" => f = 0 /\ s = b.sy + 8
  OBVIOUS
<1>5. b.state # "DROP" => f = 1 /\ s = b.sy + 1
  OBVIOUS
<1> HIDE DEF c, f, s, u
<1>6. /\ c \in Blocks /\ c.stop = 0 /\ c.sy = s /\ c.y = u /\ c.fall = f
      /\ c.type = b.type /\ c.dir = b.dir /\ c.x = b.x /\ c.sx = b.sx
      /\ c.move = b.move /\ c.ghost = b.ghost /\ c.state = b.state
  BY <1>1, <1>2, <1>3 DEF Blocks
<1>7. \A x, y : EmptyIn(filled, c, x, y) = EmptyIn(filled, b, x, y)
  BY <1>6 DEF EmptyIn, Cells
<1>8. EmptyIn(filled, b, b.x, u)
  BY <1>2 DEF Empty
<1>9. Fits(c, filled)
  <2>1. b.y > 0 => EmptyIn(filled, b, b.x, b.y)
    BY DEF Good, Sound, Fits
  <2>2. u - 1 = b.y /\ (u > 1 => b.y > 0) /\ u > 0
    BY <1>1, <1>2
  <2> QED
    BY <1>6, <1>7, <1>8, <2>1, <2>2 DEF Fits
<1>10. AtTop(c, filled)
  BY <1>1, <1>2, <1>6 DEF AtTop
<1>11. CountersOK(c) /\ InColumn(c)
  BY <1>6, Assumed DEF Good, Sound, CountersOK, InColumn
<1>12. InRow(c)
  <2>1. CASE b.state = "DROP"
    BY <1>1, <1>2, <1>4, <1>6, <2>1 DEF Good, Sound, InRow
  <2>2. CASE b.state # "DROP"
    <3>1. 0 \div Step = 0
      <4>1. (0 * Step + 0) \div Step = 0
        BY Assumed, Quotient
      <4> QED
        BY <4>1, Assumed
    <3>2. b.sy = b.y * 8
      BY <2>2 DEF Good, Sound, InRow
    <3>3. c.sy = (c.y - 1) * 8 + 1 + 0 /\ c.fall = 1 /\ c.fall - 1 = 0
      BY <1>1, <1>2, <1>5, <1>6, <2>2, <3>2
    <3> QED
      BY <3>1, <3>3 DEF InRow
  <2> QED
    BY <2>1, <2>2
<1>13. GhostIn(c, filled)
  <2>1. /\ b.ghost >= b.y
        /\ \A y \in b.y + 1..b.ghost : EmptyIn(filled, b, b.x, y)
        /\ ~EmptyIn(filled, b, b.x, b.ghost + 1)
    BY DEF Good, GhostIn
  <2>2. b.ghost # b.y
    BY <1>2, <1>8, <2>1
  <2>3. b.ghost >= u /\ \A y \in u + 1..b.ghost : y \in b.y + 1..b.ghost
    BY <1>1, <1>2, <2>1, <2>2
  <2> QED
    BY <1>6, <1>7, <2>1, <2>3 DEF GhostIn
<1> QED
  BY <1>6, <1>9, <1>10, <1>11, <1>12, <1>13 DEF Good, Sound, c

LEMMA WaitGood ==
  ASSUME NEW b, Good(b, filled), ~Empty(b, b.x, b.y + 1), Rests(b)
  PROVE  Good([b EXCEPT !.stop = @ + 1], filled)
<1> DEFINE c == [b EXCEPT !.stop = @ + 1]
<1>1. b \in Blocks /\ b.y \in Nat /\ b.stop \in Nat
  BY DEF Good, Sound, Blocks
<1>2. b.y # 0
  BY <1>1 DEF Good, Sound, AtTop, Empty
<1>3. b.stop + 1 < StopDelay
  BY <1>1, <1>2, Assumed DEF Good, Sound, CountersOK, Rests
<1>4. /\ c \in Blocks /\ c.stop = b.stop + 1 /\ c.y = b.y /\ c.sy = b.sy /\ c.fall = b.fall
      /\ c.type = b.type /\ c.dir = b.dir /\ c.x = b.x /\ c.sx = b.sx
      /\ c.move = b.move /\ c.ghost = b.ghost /\ c.state = b.state
  BY <1>1 DEF Blocks
<1> HIDE DEF c
<1>5. Fits(c, filled) /\ AtTop(c, filled) /\ GhostIn(c, filled)
  BY <1>4, SameCells
<1>6. CountersOK(c) /\ InColumn(c) /\ InRow(c)
  BY <1>1, <1>3, <1>4, Assumed DEF Good, Sound, CountersOK, InColumn, InRow
<1> QED
  BY <1>4, <1>5, <1>6 DEF Good, Sound, c

(* The next block, when it can fall.                                        *)
LEMMA NewGood ==
  ASSUME NEW b \in Blocks, b.stop < StopDelay, b.fall = 0, NEW type \in Types, NEW cells,
         NEW fresh, fresh = SetupNewBlk([b EXCEPT !.stop = @ + 1, !.state = "IDLE"], type)
  PROVE  /\ EmptyIn(cells, fresh, fresh.x, fresh.y + 1) => Good(WithGhost(fresh, cells), cells)
         /\ fresh.x = NewX /\ fresh.y = 0
<1>1. b.stop \in Nat /\ NewX \in Int /\ NewX * 8 \in Int
  BY Assumed DEF Blocks
<1> DEFINE c == [b EXCEPT !.stop = @ + 1, !.state = "IDLE"]
<1>2. c \in Blocks /\ c.stop = b.stop + 1 /\ c.state = "IDLE" /\ c.fall = 0
  <2> DEFINE k == b.stop + 1
  <2>1. k \in Nat
    BY <1>1
  <2>2. c = [b EXCEPT !.stop = k, !.state = "IDLE"]
    BY DEF Blocks
  <2> HIDE DEF c, k
  <2>3. c \in Blocks /\ c.stop = k /\ c.state = "IDLE" /\ c.fall = b.fall
    BY <2>1, <2>2 DEF Blocks
  <2> QED
    BY <2>3 DEF k
<1> HIDE DEF c
<1>3. fresh = [c EXCEPT !.type = type, !.dir = 0, !.x = NewX, !.y = 0, !.sx = NewX * 8, !.sy = 0]
  BY DEF SetupNewBlk, c
<1> DEFINE sx == NewX * 8
<1>4. sx \in Int /\ sx = NewX * 8
  BY <1>1
<1> HIDE DEF sx
<1>5. fresh = [c EXCEPT !.type = type, !.dir = 0, !.x = NewX, !.y = 0, !.sx = sx, !.sy = 0]
  BY <1>3 DEF sx
<1>6. /\ fresh \in Blocks /\ fresh.type = type /\ fresh.dir = 0 /\ fresh.x = NewX /\ fresh.y = 0
      /\ fresh.sx = sx /\ fresh.sy = 0 /\ fresh.stop = b.stop + 1 /\ fresh.state = "IDLE" /\ fresh.fall = 0
  <2>1. 0 \in 0..3 /\ 0 \in Nat /\ 0 \in Int /\ NewX \in Int
    BY <1>1
  <2> DEFINE c1 == [c EXCEPT !.type = type, !.dir = 0, !.x = NewX]
  <2>2. /\ c1 \in Blocks /\ c1.type = type /\ c1.dir = 0 /\ c1.x = NewX
        /\ c1.stop = c.stop /\ c1.state = c.state /\ c1.fall = c.fall
    BY <1>2, <2>1 DEF Blocks
  <2>3. fresh = [c1 EXCEPT !.y = 0, !.sx = sx, !.sy = 0]
    BY <1>5, Zenon
  <2> HIDE DEF c1
  <2>4. /\ fresh \in Blocks /\ fresh.type = type /\ fresh.dir = 0 /\ fresh.x = NewX /\ fresh.y = 0
        /\ fresh.sx = sx /\ fresh.sy = 0 /\ fresh.stop = c.stop /\ fresh.state = c.state
        /\ fresh.fall = c.fall
    BY <1>4, <2>1, <2>2, <2>3 DEF Blocks
  <2> QED
    BY <1>2, <2>4
<1>7. ASSUME EmptyIn(cells, fresh, fresh.x, fresh.y + 1)
      PROVE  Good(WithGhost(fresh, cells), cells)
  <2>1. Fits(fresh, cells)
    BY <1>6 DEF Fits
  <2>2. fresh.y + 1 = 1
    BY <1>6
  <2>3. AtTop(fresh, cells)
    BY <1>6, <1>7, <2>2 DEF AtTop
  <2>4. CountersOK(fresh)
    BY <1>1, <1>6, Assumed DEF CountersOK
  <2>5. InColumn(fresh) /\ InRow(fresh)
    BY <1>4, <1>6 DEF InColumn, InRow
  <2>6. Sound(fresh, cells)
    BY <1>6, <2>1, <2>3, <2>4, <2>5 DEF Sound
  <2> QED
    BY <2>6, GhostSet
<1> QED
  BY <1>6, <1>7

LEMMA GridIs == Playable = Grid
  BY DEF Playable, Grid

(* A block that lands.                                                     *)
LEMMA LandFacts ==
  ASSUME PlayInv, NEW b, Good(b, filled), b.fall = 0, ~Empty(b, b.x, b.y + 1)
  PROVE  LET all == filled \cup Cells(b, b.x, b.y)
         IN /\ b.y \in 1..Height - 5 /\ b.stop < StopDelay
            /\ Cells(b, b.x, b.y) \in SUBSET Playable
            /\ all \in SUBSET Grid /\ TopFree(all) /\ FullRows(all) \subseteq b.y..b.y + 3
<1> DEFINE C == Cells(b, b.x, b.y)
           all == filled \cup C
<1>1. b \in Blocks /\ b.y \in Nat /\ b.x \in Int
  BY DEF Good, Sound, Blocks
<1>2. b.y # 0
  BY <1>1 DEF Good, Sound, AtTop, Empty
<1>3. b.y \in 1..Height - 5 /\ b.stop < StopDelay
  <2>1. b.y <= Height - 5
    BY Placed DEF Good
  <2>2. b.stop < StopDelay
    BY <1>1, <1>2 DEF Good, Sound, CountersOK
  <2> QED
    BY <1>1, <1>2, <2>1, <2>2, Assumed
<1>4. C \in SUBSET Playable
  <2>1. EmptyIn(filled, b, b.x, b.y)
    BY <1>1, <1>2 DEF Good, Sound, Fits
  <2> QED
    BY <2>1 DEF EmptyIn
<1>5. all \in SUBSET Grid
  BY <1>4, GridIs DEF PlayInv, GameTypes
<1>6. \A c \in C : c \in (b.x..b.x + 3) \X (b.y..b.y + 3)
  BY <1>1, CellsAre
<1> HIDE DEF C
<1>7. TopFree(all)
  <2> SUFFICES ASSUME NEW x \in 2..Width + 1, <<x, 0>> \in C PROVE FALSE
    BY DEF TopFree, PlayInv
  <2>1. 0 \in b.y..b.y + 3
    BY <1>6
  <2> QED
    BY <1>3, <2>1, Assumed
<1>8. FullRows(all) \subseteq b.y..b.y + 3
  <2> SUFFICES ASSUME NEW r \in FullRows(all), r \notin b.y..b.y + 3 PROVE FALSE
    OBVIOUS
  <2>1. r \in 0..Height - 2 /\ LineFull(all, r)
    BY DEF FullRows
  <2>2. r # Height - 1
    BY <2>1, Assumed
  <2>3. \A x \in 2..Width + 1 : <<x, r>> \in all
    BY <2>1, <2>2 DEF LineFull
  <2>4. \A x : <<x, r>> \notin C
    BY <1>6
  <2>5. LineFull(filled, r)
    BY <2>3, <2>4 DEF LineFull
  <2> QED
    BY <2>1, <2>5 DEF PlayInv, NoneFull
<1> QED
  BY <1>3, <1>4, <1>5, <1>7, <1>8 DEF C

(* What a landing does to the layout, the score and the level.             *)
LandGives(all, n) ==
  /\ all \in SUBSET Grid /\ TopFree(all) /\ n \in Nat /\ n = Cardinality(FullRows(all))
  /\ filled' = Shifted(all, FullRows(all))
  /\ score' = score + n /\ level' = LevelAt(score + n)

LEMMA LandStep ==
  ASSUME PlayInv, NEW req \in Requests, NEW type \in Types, Land(req, type)
  PROVE  /\ \E n \in Nat : LandGives(filled \cup drawn', n)
         /\ drawn' \in SUBSET Playable
         /\ ~over' => Good(blk', filled')
         /\ over' \in BOOLEAN /\ blocks' = blocks + 1 /\ blocks < MaxBlocks
<1> DEFINE b == Steered(req)
           C == Cells(b, b.x, b.y)
           all == filled \cup C
           game == CheckLayoutFill(all, b.y)
           fresh == SetupNewBlk([b EXCEPT !.stop = @ + 1, !.state = "IDLE"], type)
           n == Cardinality(FullRows(all))
<1>1. /\ ~over /\ blocks < MaxBlocks /\ b.fall = 0 /\ ~Empty(b, b.x, b.y + 1)
      /\ filled' = game.cells /\ score' = game.score /\ level' = game.level
      /\ drawn' = C /\ blocks' = blocks + 1
      /\ blk' = WithGhost(fresh, game.cells)
      /\ over' = ~EmptyIn(game.cells, fresh, fresh.x, fresh.y + 1)
  BY Zenon DEF Land
<1>2. Good(b, filled)
  BY <1>1, SteeredGood DEF PlayInv
<1> HIDE DEF b
<1>3. /\ b.y \in 1..Height - 5 /\ b.stop < StopDelay
      /\ C \in SUBSET Playable
      /\ all \in SUBSET Grid /\ TopFree(all) /\ FullRows(all) \subseteq b.y..b.y + 3
  BY <1>1, <1>2, LandFacts
<1>4. score \in Nat /\ level = LevelAt(score)
  BY DEF PlayInv, GameTypes
<1>5. b \in Blocks
  BY <1>2 DEF Good, Sound
<1> HIDE DEF C, all
<1> DEFINE y == b.y
<1>6. y \in 1..Height - 5 /\ FullRows(all) \subseteq y..y + 3 /\ game = CheckLayoutFill(all, y)
  BY <1>3
<1> HIDE DEF y, game
<1>7. /\ n \in Nat /\ game.cells = Shifted(all, FullRows(all))
      /\ game.score = score + n /\ game.level = LevelAt(score + n)
  BY <1>3, <1>4, <1>6, LooksSuffice
<1> HIDE DEF n, fresh
<1>8. LandGives(all, n)
  BY <1>1, <1>3, <1>7 DEF LandGives, n
<1>9. EmptyIn(game.cells, fresh, fresh.x, fresh.y + 1) => Good(WithGhost(fresh, game.cells), game.cells)
  BY <1>1, <1>3, <1>5, NewGood DEF fresh
<1>10. ~over' => Good(blk', filled')
  BY <1>1, <1>9
<1> QED
  BY <1>1, <1>3, <1>7, <1>8, <1>10 DEF all

LEMMA PlayInit == Init => PlayInv
<1> SUFFICES ASSUME Init PROVE PlayInv
  OBVIOUS
<1>1. PICK type \in Types :
        blk = WithGhost(
          [type |-> type, dir |-> 0, x |-> NewX, y |-> 0, sx |-> NewX * 8, sy |-> 0,
           ghost |-> 0, move |-> 0, fall |-> 0, stop |-> 0, state |-> "IDLE"], {})
  BY DEF Init
<1> DEFINE sx == NewX * 8
           b == [type |-> type, dir |-> 0, x |-> NewX, y |-> 0, sx |-> sx, sy |-> 0,
                 ghost |-> 0, move |-> 0, fall |-> 0, stop |-> 0, state |-> "IDLE"]
<1>2. blk = WithGhost(b, {}) /\ sx \in Int /\ sx = NewX * 8 /\ NewX \in Int
  BY <1>1, Assumed
<1> HIDE DEF sx
<1>3. /\ b \in Blocks /\ b.type = type /\ b.dir = 0 /\ b.x = NewX /\ b.y = 0 /\ b.sx = sx
      /\ b.sy = 0 /\ b.fall = 0 /\ b.stop = 0 /\ b.state = "IDLE"
  <2>1. 0 \in 0..RowEnd - 1 /\ 0 \in 0..3 /\ 0 \in 0..4 /\ 0 \in Nat /\ 0 \in Int
    BY Assumed
  <2> QED
    BY <1>2, <2>1 DEF Blocks
<1> HIDE DEF b
(* There is room for every block in the top rows of an empty layout.       *)
<1>4. EmptyIn({}, b, NewX, 1)
  <2> SUFFICES ASSUME NEW c \in Cells(b, NewX, 1) PROVE c \in Playable
    BY DEF EmptyIn
  <2>1. c \in (NewX..NewX + 3) \X (1..1 + 3)
    BY <1>2, <1>3, CellsAre
  <2> QED
    BY <2>1, Assumed DEF Playable
<1>5. Fits(b, {}) /\ AtTop(b, {}) /\ CountersOK(b) /\ InColumn(b) /\ InRow(b)
  BY <1>2, <1>3, <1>4, Assumed DEF Fits, AtTop, CountersOK, InColumn, InRow
<1>6. Good(blk, filled)
  <2>1. filled = {}
    BY DEF Init
  <2> QED
    BY <1>2, <1>3, <1>5, <2>1, GhostSet DEF Sound
<1>7. GameTypes /\ TopFree(filled)
  <2>1. /\ filled = {} /\ drawn = {} /\ score = 0 /\ level = 1 /\ over = FALSE /\ blocks = 0
    BY DEF Init
  <2>2. 1 \in 1..LevelMax /\ 0 \in 0..MaxBlocks
    BY Assumed
  <2> QED
    BY <2>1, <2>2 DEF GameTypes, TopFree
<1>8. NoneFull(filled)
  <2> SUFFICES ASSUME NEW y \in 0..Height - 2, LineFull(filled, y) PROVE FALSE
    BY DEF NoneFull
  <2>1. 2 \in 2..Width + 1 /\ y # Height - 1
    BY Assumed
  <2> QED
    BY <2>1 DEF Init, LineFull
<1>9. level = LevelAt(score)
  <2>1. (0 * LevelUp + 0) \div LevelUp = 0 /\ 0 * LevelUp + 0 = 0
    BY Assumed, Quotient
  <2>2. 0 \div LevelUp = 0
    BY <2>1
  <2> QED
    BY <2>2, Assumed DEF Init, LevelAt
<1> QED
  BY <1>6, <1>7, <1>8, <1>9 DEF PlayInv

LEMMA PlayStep ==
  ASSUME PlayInv, [Next]_vars
  PROVE  PlayInv'
<1>1. ASSUME NEW req \in Requests, ~over
      PROVE  Good(Steered(req), filled)
  BY <1>1, SteeredGood DEF PlayInv
<1>2. ASSUME UNCHANGED <<filled, score, level, blocks, drawn>>, over' \in BOOLEAN,
             ~over' => Good(blk', filled)
      PROVE  PlayInv'
  BY <1>2 DEF PlayInv, GameTypes, LevelAt
<1>3. CASE UNCHANGED vars
  BY <1>2, <1>3 DEF vars, PlayInv, GameTypes
<1>4. CASE Leave
  BY <1>2, <1>4 DEF Leave
<1>5. ASSUME NEW req \in Requests, Fall(req)
      PROVE  PlayInv'
  <2> DEFINE b == Steered(req)
  <2>1. ~over /\ b.fall # 0 /\ blk' = Falling(b, req) /\ UNCHANGED <<filled, score, level, over, blocks, drawn>>
    BY <1>5, Zenon DEF Fall
  <2>2. Good(b, filled)
    BY <1>1, <2>1
  <2> HIDE DEF b
  <2>3. b.fall > 0
    BY <2>1, <2>2 DEF Good, Sound, Blocks
  <2>4. Good(blk', filled)
    BY <2>1, <2>2, <2>3, FallingGood DEF PlayInv, GameTypes
  <2> QED
    BY <1>2, <2>1, <2>4 DEF PlayInv, GameTypes
<1>6. ASSUME NEW req \in Requests, Advance(req)
      PROVE  PlayInv'
  <2> DEFINE b == Steered(req)
  <2>1. /\ ~over /\ b.fall = 0 /\ Empty(b, b.x, b.y + 1) /\ blk' = NextRow(b)
        /\ UNCHANGED <<filled, score, level, over, blocks, drawn>>
    BY <1>6, Zenon DEF Advance
  <2>2. Good(b, filled)
    BY <1>1, <2>1
  <2> HIDE DEF b
  <2>3. Good(blk', filled)
    BY <2>1, <2>2, RowGood
  <2> QED
    BY <1>2, <2>1, <2>3 DEF PlayInv, GameTypes
<1>7. ASSUME NEW req \in Requests, Wait(req)
      PROVE  PlayInv'
  <2> DEFINE b == Steered(req)
  <2>1. /\ ~over /\ b.fall = 0 /\ ~Empty(b, b.x, b.y + 1) /\ Rests(b)
        /\ blk' = [b EXCEPT !.stop = @ + 1]
        /\ UNCHANGED <<filled, score, level, over, blocks, drawn>>
    BY <1>7, Zenon DEF Wait
  <2>2. Good(b, filled)
    BY <1>1, <2>1
  <2> HIDE DEF b
  <2>3. Good(blk', filled)
    BY <2>1, <2>2, WaitGood
  <2> QED
    BY <1>2, <2>1, <2>3 DEF PlayInv, GameTypes
<1>8. ASSUME NEW req \in Requests, NEW type \in Types, Land(req, type)
      PROVE  PlayInv'
  <2>1. PICK n \in Nat : LandGives(filled \cup drawn', n)
    BY <1>8, LandStep
  <2>2. /\ drawn' \in SUBSET Playable /\ (~over' => Good(blk', filled'))
        /\ over' \in BOOLEAN /\ blocks' = blocks + 1 /\ blocks < MaxBlocks
    BY <1>8, LandStep
  <2> DEFINE all == filled \cup drawn'
             new == filled'
             s == score'
  <2>3. new \in SUBSET Playable /\ TopFree(new) /\ NoneFull(new)
    <3> HIDE DEF all
    <3>1. all \in SUBSET Grid /\ TopFree(all) /\ new = Shifted(all, FullRows(all))
      BY <2>1 DEF LandGives, all
    <3> HIDE DEF new
    <3> QED
      BY <3>1, ShiftedClean, GridIs
  <2>4. s \in Nat /\ level' = LevelAt(s) /\ level' \in 1..LevelMax
    <3>1. s = score + n /\ level' = LevelAt(score + n) /\ score \in Nat
      BY <2>1 DEF LandGives, PlayInv, GameTypes
    <3> HIDE DEF s
    <3>2. s \in Nat /\ level' = LevelAt(s)
      BY <3>1
    <3> QED
      BY <3>2, LevelNext
  <2>5. NoneFull(filled)' /\ TopFree(filled)' /\ (level = LevelAt(score))'
    BY <2>3, <2>4 DEF NoneFull, TopFree, LevelAt
  <2>6. GameTypes'
    BY <2>2, <2>3, <2>4, Assumed DEF GameTypes, PlayInv
  <2> QED
    BY <2>2, <2>5, <2>6 DEF PlayInv
<1> QED
  BY <1>3, <1>4, <1>5, <1>6, <1>7, <1>8 DEF Next, Pass

(***************************************************************************)
(* What the invariant says                                                 *)
(***************************************************************************)
LEMMA GoodPlaced ==
  ASSUME PlayInv
  PROVE  BlockPlaced
<1>1. CASE over
  BY <1>1 DEF BlockPlaced, BlockFree, WithinLayout
<1>2. CASE ~over
  <2>1. Good(blk, filled)
    BY <1>2 DEF PlayInv
  <2>2. /\ blk \in Blocks /\ blk.x \in Int /\ blk.y \in Nat /\ blk.ghost \in Nat /\ blk.stop \in Nat
        /\ blk.sx \in Int /\ blk.sy \in Int /\ blk.fall \in 0..RowEnd - 1
    BY <2>1 DEF Good, Sound, Blocks
  <2>3. blk.x \in 1..Width /\ blk.y <= Height - 5
    BY <2>1, Placed DEF Good
  <2>4. BlockFree
    BY <2>1 DEF BlockFree, Good, Sound, Fits, Empty
  <2>5. TypeOK
    <3>1. blk.sx \in Nat
      <4>1. DotsLeft[blk.move] \in 0..8 /\ (blk.move \in 1..3 => DotsLeft[blk.move] <= 5)
        BY <2>2, MoveDots DEF Blocks
      <4>2. blk.state = "RIGHT" => DotsLeft[blk.move] <= 5
        BY <2>1, <4>1 DEF Good, Sound, CountersOK
      <4>3. blk.x * 8 \in Nat /\ blk.x * 8 >= 8
        BY <2>3, Assumed
      <4> QED
        BY <2>1, <2>2, <4>1, <4>2, <4>3 DEF Good, Sound, InColumn, Blocks
    <3>2. blk.sy \in Nat
      <4>1. CASE blk.fall > 0
        <5> DEFINE m == blk.fall - 1
        <5>3. blk.y > 0 /\ blk.sy = (blk.y - 1) * 8 + 1 + ((blk.fall - 1) \div Step)
          BY <2>1, <4>1 DEF Good, Sound, InRow, Fits
        <5>1. m \in Nat /\ blk.y > 0 /\ blk.sy = (blk.y - 1) * 8 + 1 + (m \div Step)
          BY <2>2, <4>1, <5>3
        <5> HIDE DEF m
        <5>2. m \div Step \in Nat
          BY <5>1, Dots
        <5> QED
          BY <2>2, <5>1, <5>2
      <4>2. CASE ~(blk.fall > 0)
        <5>1. blk.sy = blk.y * 8 \/ blk.sy = blk.y * 8 - 8
          BY <2>1, <4>2 DEF Good, Sound, InRow
        <5>2. blk.y = 0 => blk.sy = 0
          BY <2>1 DEF Good, Sound, AtTop
        <5> QED
          BY <2>2, <5>1, <5>2
      <4> QED
        BY <4>1, <4>2
    <3>3. blk.ghost \in 0..Height - 1
      <4>1. CASE blk.ghost = blk.y
        BY <2>2, <2>3, <4>1, Assumed
      <4>2. CASE blk.ghost # blk.y
        <5>1. blk.ghost \in blk.y + 1..blk.ghost
          BY <2>1, <2>2, <4>2 DEF Good, GhostIn
        <5>2. EmptyIn(filled, blk, blk.x, blk.ghost)
          BY <2>1, <5>1 DEF Good, GhostIn
        <5>3. blk.ghost <= Height - 5
          BY <2>2, <5>2, EmptyPlace
        <5> QED
          BY <2>2, <5>3, Assumed
      <4> QED
        BY <4>1, <4>2
    <3>4. blk.stop \in 0..StopDelay
      BY <2>1, <2>2, Assumed DEF Good, Sound, CountersOK
    <3>5. blk.x \in 0..Width + 1 /\ blk.y \in 0..Height - 1
      BY <2>2, <2>3, Assumed
    <3>6. blk \in [type : Types, dir : 0..3, x : 0..Width + 1, y : 0..Height - 1,
                   sx : Nat, sy : Nat, ghost : 0..Height - 1, move : 0..4, fall : 0..RowEnd - 1,
                   stop : 0..StopDelay, state : {"IDLE", "LEFT", "RIGHT", "DROP"}]
      BY <2>2, <3>1, <3>2, <3>3, <3>4, <3>5 DEF Blocks
    <3> QED
      BY <3>6 DEF TypeOK, PlayInv, GameTypes
  <2>6. ASSUME blk.y > 0, NEW dx \in {-1, 1}, NEW c \in Cells(blk, blk.x + dx, blk.y)
        PROVE  c \in Array
    <3>1. PICK p \in Shape[blk.type][blk.dir + 1] :
            c = <<blk.x + dx + (p % 4), blk.y + (p \div 4)>>
      BY <2>6 DEF Cells
    <3>2. <<blk.x + (p % 4), blk.y + (p \div 4)>> \in Playable
      <4>1. EmptyIn(filled, blk, blk.x, blk.y)
        BY <2>1, <2>6 DEF Good, Sound, Fits
      <4> QED
        BY <4>1 DEF EmptyIn, Cells
    <3>3. p \in 0..15
      <4>1. blk.type \in 0..6 /\ blk.dir \in 0..3
        BY <2>2, Assumed DEF Blocks
      <4> QED
        BY <3>1, <4>1, ShapeFacts DEF ShapeGives
    <3> DEFINE u == p % 4
               v == p \div 4
    <3>4. u \in 0..3 /\ v \in 0..3
      BY <3>3
    <3>5. c = <<blk.x + dx + u, blk.y + v>> /\ <<blk.x + u, blk.y + v>> \in Playable
      BY <3>1, <3>2
    <3> HIDE DEF u, v
    <3>6. blk.x + u \in 2..Width + 1 /\ blk.y + v \in 0..Height - 2
      BY <3>5 DEF Playable
    <3>7. blk.x + dx + u \in 0..Width + 3 /\ blk.y + v \in 0..Height - 1
      BY <2>2, <2>6, <3>4, <3>6, Assumed
    <3> QED
      BY <3>5, <3>7 DEF Array
  <2>7. ASSUME NEW d \in 0..3, NEW c \in Cells([blk EXCEPT !.dir = d], blk.x, blk.y)
        PROVE  c \in Array
    <3> DEFINE e == [blk EXCEPT !.dir = d]
    <3>1. e \in Blocks
      BY <2>2 DEF Blocks
    <3>2. c \in Cells(e, blk.x, blk.y)
      BY <2>7
    <3> HIDE DEF e
    <3>3. c \in (blk.x..blk.x + 3) \X (blk.y..blk.y + 3)
      BY <2>2, <3>1, <3>2, CellsAre
    <3> QED
      BY <2>2, <2>3, <3>3, Assumed DEF Array
  <2>8. ASSUME NEW c \in Cells(blk, blk.x, blk.y + 1)
        PROVE  c \in Array
    <3> DEFINE y == blk.y + 1
    <3>1. y \in Int /\ y >= 0 /\ y <= Height - 4
      BY <2>2, <2>3, Assumed
    <3> HIDE DEF y
    <3>2. c \in Cells(blk, blk.x, y)
      BY <2>8 DEF y
    <3>3. c \in (blk.x..blk.x + 3) \X (y..y + 3)
      BY <2>2, <3>1, <3>2, CellsAre
    <3> QED
      BY <2>2, <2>3, <3>1, <3>3, Assumed DEF Array
  <2>9. ~Empty(blk, blk.x, blk.y + 1) => blk.y > 0
    BY <2>1, <2>2 DEF Good, Sound, AtTop, Empty
  <2>10. blk.y > 0 => blk.x > 0
    BY <2>3, Assumed
  <2>11. blk.y + 3 < Height - 1
    BY <2>2, <2>3, Assumed
  <2>12. /\ blk.y > 0 => \A dx \in {-1, 1} : Cells(blk, blk.x + dx, blk.y) \subseteq Array
         /\ \A d \in 0..3 : Cells([blk EXCEPT !.dir = d], blk.x, blk.y) \subseteq Array
         /\ Cells(blk, blk.x, blk.y + 1) \subseteq Array
    BY <2>6, <2>7, <2>8
  <2>13. WithinLayout
    BY <1>2, <2>5, <2>9, <2>10, <2>11, <2>12 DEF WithinLayout
  <2> QED
    BY <2>4, <2>13 DEF BlockPlaced
<1> QED
  BY <1>1, <1>2

LEMMA GoodShown ==
  ASSUME PlayInv
  PROVE  ScreenFollows
<1> SUFFICES ASSUME ~over PROVE ScreenFollows
  BY DEF ScreenFollows
<1>1. Good(blk, filled)
  BY DEF PlayInv
<1>2. /\ blk.sx = CASE blk.state = "LEFT" -> blk.x * 8 + DotsLeft[blk.move]
                   [] blk.state = "RIGHT" -> blk.x * 8 - DotsLeft[blk.move]
                   [] blk.state \in {"IDLE", "DROP"} -> blk.x * 8
  BY <1>1 DEF Good, Sound, InColumn
<1>3. IF blk.fall > 0
        THEN blk.sy = (blk.y - 1) * 8 + 1 + ((blk.fall - 1) \div Step)
        ELSE blk.sy = blk.y * 8 \/ (blk.state = "DROP" /\ blk.sy = blk.y * 8 - 8)
  BY <1>1 DEF Good, Sound, InRow
<1>4. /\ blk.ghost >= blk.y
      /\ \A y \in blk.y + 1..blk.ghost : Empty(blk, blk.x, y)
      /\ ~Empty(blk, blk.x, blk.ghost + 1)
  BY <1>1 DEF Good, GhostIn, Empty
<1> QED
  BY <1>2, <1>3, <1>4 DEF ScreenFollows

(***************************************************************************)
(* The theorems                                                            *)
(***************************************************************************)

(* In every state of a game the invariant holds.                           *)
LEMMA PlayAlways == Spec => []PlayInv
<1>1. PlayInv /\ [Next]_vars => PlayInv'
  BY PlayStep
<1> QED
  BY <1>1, PlayInit, PTL DEF Spec

(* However the keys move, turn and drop it, the block covers free cells    *)
(* only, and no test of check_layout_empty() leaves the layout.            *)
THEOREM PlacedTheorem == Spec => []BlockPlaced
<1>1. PlayInv => BlockPlaced
  BY GoodPlaced
<1> QED
  BY <1>1, PlayAlways, PTL

(* The sprites are where the block is, and its ghost where it comes to     *)
(* rest, for any table of falling speeds.                                  *)
THEOREM ShownTheorem == Spec => []ScreenFollows
<1>1. PlayInv => ScreenFollows
  BY GoodShown
<1> QED
  BY <1>1, PlayAlways, PTL

(* check_layout_fill() erases every full line, adjacent or not, and counts *)
(* it in score and level, for any blocks on a playfield of any size.       *)
THEOREM LinesTheorem == Spec => LinesExact
<1> DEFINE Exact ==
      blocks' # blocks =>
       LET all == filled \cup drawn'
           full == {y \in 0..Height - 2 : \A x \in 2..Width + 1 : <<x, y>> \in all}
           below(y) == Cardinality({r \in full : r > y})
           lines == 1 + score' \div LevelUp
       IN /\ filled' = {<<c[1], c[2] + below(c[2])>> : c \in {d \in all : d[2] \notin full}}
          /\ score' = score + Cardinality(full)
          /\ level' = IF lines < LevelMax THEN lines ELSE LevelMax
<1>1. ASSUME NEW req \in Requests, NEW type \in Types, PlayInv, Land(req, type)
      PROVE  Exact
  <2> DEFINE all == filled \cup drawn'
             full == {y \in 0..Height - 2 : \A x \in 2..Width + 1 : <<x, y>> \in all}
  <2>1. PICK n \in Nat : LandGives(all, n)
    BY <1>1, LandStep
  <2>2. full = FullRows(all)
    <3>1. \A y \in 0..Height - 2 : y # Height - 1
      BY Assumed
    <3> HIDE DEF all
    <3> QED
      BY <3>1 DEF FullRows, LineFull
  <2> HIDE DEF all, full
  <2>3. /\ filled' = {<<c[1], c[2] + Cardinality({r \in full : r > c[2]})>> :
                       c \in {d \in all : d[2] \notin full}}
    BY <2>1, <2>2 DEF LandGives, Shifted, Below, Above
  <2>4. score' = score + Cardinality(full) /\ level' = LevelAt(score')
    BY <2>1, <2>2 DEF LandGives
  <2> QED
    BY <2>3, <2>4 DEF LevelAt, all, full
<1>2. ASSUME PlayInv, [Next]_vars
      PROVE  [Exact]_vars
  <2>1. CASE UNCHANGED vars
    BY <2>1
  <2>2. CASE Leave
    BY <2>2 DEF Leave
  <2>3. ASSUME NEW req \in Requests, Fall(req) \/ Advance(req) \/ Wait(req)
        PROVE  blocks' = blocks
    BY <2>3 DEF Fall, Advance, Wait
  <2> HIDE DEF Exact
  <2>4. CASE \E req \in Requests : \E type \in Types : Land(req, type)
    BY <1>1, <1>2, <2>4
  <2>5. CASE blocks' = blocks
    BY <2>5 DEF Exact
  <2> QED
    BY <1>2, <2>1, <2>2, <2>3, <2>4, <2>5 DEF Next, Pass, Leave
<1>3. Spec => [][Exact]_vars
  BY <1>2, PlayAlways, PTL DEF Spec
<1> QED
  BY <1>3, PTL DEF LinesExact

(***************************************************************************)
(* The keys                                                                *)
(***************************************************************************)
KeyTypes ==
  /\ keyTime \in [Repeating -> 0..RptMax]
  /\ keyLast \in [Once -> BOOLEAN]
  /\ held \in [GameKeys -> 0..MaxHeld]

(* The byte counts the passes, or both counts are past the delay.          *)
Agrees(k) == keyTime[k] = held[k] \/ (keyTime[k] > RptDelay /\ held[k] > RptDelay)

KeysInv ==
  /\ KeyTypes
  /\ \A k \in Repeating : Agrees(k)
  /\ \A k \in Once : keyLast[k] <=> held[k] > 0
  /\ KeysRepeat

LEMMA KeysInit == TkeyInit => KeysInv
  BY KeysAssumption
  DEF TkeyInit, KeysInv, KeyTypes, Agrees, KeysRepeat, GameKeys, Repeating, Once

LEMMA KeysStep ==
  ASSUME KeysInv, NEW pressed \in SUBSET GameKeys, KeyUpdate(pressed)
  PROVE  KeysInv'
<1>1. KeyTypes'
  BY KeysAssumption DEF KeysInv, KeyTypes, KeyUpdate
<1>2. \A k \in GameKeys : held'[k] =
        IF k \notin pressed THEN 0 ELSE IF held[k] < MaxHeld THEN held[k] + 1 ELSE held[k]
  BY DEF KeyUpdate
<1>3. ASSUME NEW k \in Repeating
      PROVE  /\ Agrees(k)'
             /\ k \in pressed => (Due(k) <=> held'[k] = 1 \/ held'[k] > RptDelay + 1)
             /\ k \in GameKeys
  <2>1. /\ keyTime'[k] = IF k \notin pressed THEN 0
                         ELSE IF keyTime[k] < RptMax THEN keyTime[k] + 1 ELSE keyTime[k]
        /\ k \in GameKeys /\ Agrees(k) /\ keyTime[k] \in 0..RptMax /\ held[k] \in 0..MaxHeld
    BY DEF KeyUpdate, GameKeys, KeysInv, KeyTypes
  <2> QED
    BY <1>2, <2>1, KeysAssumption DEF Agrees, Due
<1>4. ASSUME NEW k \in Once
      PROVE  /\ keyLast'[k] <=> held'[k] > 0
             /\ k \in pressed => (keyLast[k] <=> held'[k] # 1)
             /\ k \in GameKeys
  <2>1. /\ keyLast'[k] <=> k \in pressed
        /\ k \in GameKeys /\ held[k] \in 0..MaxHeld
        /\ keyLast[k] <=> held[k] > 0
    BY DEF KeyUpdate, GameKeys, KeysInv, KeyTypes
  <2> QED
    BY <1>2, <2>1, KeysAssumption
<1>5. KeysRepeat'
  <2>1. \A k \in GameKeys : k \in pressed <=> held'[k] > 0
    BY <1>2, KeysAssumption DEF KeysInv, KeyTypes
  <2>2. keyReq' = {k \in pressed : k \in Repeating => Due(k)} \ {k \in Once : keyLast[k]}
    BY DEF KeyUpdate
  <2>3. ASSUME NEW k \in GameKeys
        PROVE  k \in keyReq' <=>
                 /\ held'[k] > 0
                 /\ k \in Repeating => held'[k] = 1 \/ held'[k] > RptDelay + 1
                 /\ k \in Once => held'[k] = 1
    <3>1. CASE k \in Repeating
      BY <1>3, <2>1, <2>2, <3>1 DEF Repeating, Once
    <3>2. CASE k \in Once
      BY <1>4, <2>1, <2>2, <3>2 DEF Repeating, Once
    <3>3. CASE k \notin Repeating /\ k \notin Once
      BY <2>1, <2>2, <3>3
    <3> QED
      BY <3>1, <3>2, <3>3
  <2>4. keyReq' \subseteq GameKeys
    BY <2>2
  <2> QED
    BY <2>3, <2>4 DEF KeysRepeat
<1> QED
  BY <1>1, <1>3, <1>4, <1>5 DEF KeysInv

(* Whatever keys are held and for however long: a direction is requested   *)
(* when its key goes down and, after the delay, in every pass until it is  *)
(* released; a turn or a drop once for each press (key_req_update).        *)
THEOREM KeysTheorem == TkeySpec => []KeysRepeat
<1>1. KeysInv /\ [TkeyNext]_tkeyVars => KeysInv'
  <2>1. CASE TkeyNext
    BY <2>1, KeysStep DEF TkeyNext
  <2>2. CASE UNCHANGED tkeyVars
    BY <2>2 DEF tkeyVars, KeysInv, KeyTypes, Agrees, KeysRepeat
  <2> QED
    BY <2>1, <2>2
<1>2. KeysInv => KeysRepeat
  BY DEF KeysInv
<1> QED
  BY KeysInit, <1>1, <1>2, PTL DEF TkeySpec

(***************************************************************************)
(* What is on the screen                                                   *)
(***************************************************************************)
InGame == {"first", "loop", "fill", "next", "over"}

Tables == [page : {0, 1}, view : {0, 1}, active : {0, 1},
           table : [{0, 1} -> [blk : Nat, ghost : Nat]]]

(* The fields of the records, which the steps change one by one.           *)
ScrTypes ==
  /\ pc \in InGame \cup {"boot", "title", "press", "done"}
  /\ DOMAIN dsp = {"on", "sprites", "view", "active", "border", "palette", "c15"}
  /\ DOMAIN next = {"q", "seen"} /\ next.q \in Nat \X Nat /\ next.seen \in Nat \X Nat
  /\ DOMAIN figures = {"score", "stat", "seen"}
  /\ piece \in [kind : Nat, n : Nat]
  /\ landed \in Nat /\ games \in Nat

(* Neither table is half of a block; one is shown, the other written.      *)
Whole(s) == \A t \in {0, 1} : s.table[t].blk = s.table[t].ghost
InTurn(s) == s \in Tables /\ Whole(s) /\ s.active = s.page /\ s.view = 1 - s.page

(* Outside the loop nothing is shown.                                      *)
SpritesOK ==
  /\ spr \in Tables /\ Whole(spr)
  /\ pc # "boot" => InTurn(spr)
  /\ pc = "loop" => spr.table[spr.view].blk = piece.n
  /\ pc \in {"over", "title", "press"} => spr.table[spr.view] = Nothing

(* The screen's copies of the field, the next blocks and the figures.      *)
FieldOK == pc \in InGame => \A c \in Field : page2[c] = Image(layout[c])

NextOK ==
  /\ pc \in {"loop", "fill"} => next.seen = <<Image(next.q[1]), Image(next.q[2])>>
  /\ pc \in {"first", "next"} => next.seen[2] = Image(next.q[1])
  /\ pc = "loop" => /\ figures.seen = <<figures.stat, figures.score>>
                    /\ dsp.c15 = piece.kind
  /\ pc \in {"first", "loop", "next"} => landed + 1 = piece.n
  /\ pc = "fill" => landed = piece.n

MachineOK ==
  /\ pc \in InGame => dsp.view = 2 /\ dsp.active = 2
  /\ music = "playing" => pc \in {"loop", "fill", "next"}
  /\ pc = "done" => /\ music = "none" /\ timi
                    /\ dsp.border = 4 /\ dsp.palette = "system" /\ dsp.view = 0 /\ dsp.active = 0

(* The first m rows of the title are drawn, at the bottom.                 *)
TitleAt(m) == \A r \in 3..10 : title_[r] = IF r > 10 - m THEN r + m - 11 ELSE Dark
TitleOK ==
  /\ DOMAIN title_ = 3..10
  /\ pc = "title" => \E m \in 0..6 : TitleAt(m)
  /\ pc = "press" => TitleAt(7)

ScreenInv == ScrTypes /\ SpritesOK /\ FieldOK /\ NextOK /\ MachineOK /\ TitleOK

LEMMA ScreenInit == ScrInit => ScreenInv
  BY ScreenAssumption DEF ScrInit, ScreenInv, ScrTypes, SpritesOK, Tables, Whole, FieldOK, NextOK, MachineOK, TitleOK,
     InGame, NoBlock, Nothing, Off, Blank, Free, Field

(* What the sprite procedures do to the two tables.                        *)
LEMMA PutFacts ==
  ASSUME NEW s \in Tables, NEW shp \in Nat, NEW ghost \in Nat
  PROVE  /\ Put(s, shp, ghost) \in Tables
         /\ Put(s, shp, ghost).page = s.page /\ Put(s, shp, ghost).view = s.view
         /\ Put(s, shp, ghost).active = s.active
         /\ Put(s, shp, ghost).table[s.active] = [blk |-> shp, ghost |-> ghost]
         /\ Put(s, shp, ghost).table[1 - s.active] = s.table[1 - s.active]
  BY DEF Tables, Put

LEMMA FlipFacts ==
  ASSUME NEW s \in Tables
  PROVE  /\ Flip(s) \in Tables
         /\ Flip(s).view = s.page /\ Flip(s).page = 1 - s.page
         /\ Flip(s).active = 1 - s.page /\ Flip(s).table = s.table
<1>1. /\ s.page \in {0, 1} /\ 1 - s.page \in {0, 1}
      /\ s.table \in [{0, 1} -> [blk : Nat, ghost : Nat]]
  BY DEF Tables
<1>2. /\ DOMAIN s = {"page", "view", "active", "table"}
      /\ s = [f \in {"page", "view", "active", "table"} |-> s[f]]
  BY DEF Tables
<1>3. Flip(s).view = s.page /\ Flip(s).page = 1 - s.page
  BY <1>2 DEF Flip
<1>4. Flip(s).active = 1 - s.page /\ Flip(s).table = s.table
  BY <1>2 DEF Flip
<1>5. /\ DOMAIN Flip(s) = {"page", "view", "active", "table"}
      /\ Flip(s) = [f \in {"page", "view", "active", "table"} |-> Flip(s)[f]]
  BY <1>2 DEF Flip
<1>6. Flip(s) \in Tables
  BY <1>1, <1>3, <1>4, <1>5 DEF Tables
<1> QED
  BY <1>3, <1>4, <1>6

LEMMA FlipInTurn ==
  ASSUME NEW s, InTurn(s)
  PROVE  InTurn(Flip(s))
<1>1. s.page \in {0, 1}
  BY DEF InTurn, Tables
<1> QED
  BY <1>1, FlipFacts DEF InTurn, Whole

(* A table that is complete is shown, and the other one is written next.   *)
LEMMA UpdateShows ==
  ASSUME NEW s, InTurn(s), NEW n \in Nat
  PROVE  /\ InTurn(UpdateScreen(s, n))
         /\ UpdateScreen(s, n).table[UpdateScreen(s, n).view] = [blk |-> n, ghost |-> n]
<1> DEFINE p == Put(s, n, n)
<1>1. /\ p \in Tables /\ p.page = s.page /\ p.active = s.active
      /\ p.table[s.active] = [blk |-> n, ghost |-> n]
      /\ p.table[1 - s.active] = s.table[1 - s.active]
  BY PutFacts DEF InTurn
<1>2. /\ Flip(p) \in Tables /\ Flip(p).view = p.page /\ Flip(p).page = 1 - p.page
      /\ Flip(p).active = 1 - p.page /\ Flip(p).table = p.table
  BY <1>1, FlipFacts
<1>3. UpdateScreen(s, n) = Flip(p)
  BY DEF UpdateScreen
<1> HIDE DEF p
<1>4. s.page \in {0, 1} /\ s.active = s.page
  BY DEF InTurn, Tables
<1>5. Whole(p)
  BY <1>1, <1>4 DEF InTurn, Whole
<1> QED
  BY <1>1, <1>2, <1>3, <1>4, <1>5 DEF InTurn, Whole

LEMMA TurnOffShows ==
  ASSUME NEW s, InTurn(s)
  PROVE  InTurn(TurnOff(s)) /\ TurnOff(s).table[TurnOff(s).view] = Nothing
<1>1. TurnOff(s) = UpdateScreen(s, Off)
  BY DEF TurnOff, UpdateScreen
<1> QED
  BY <1>1, UpdateShows DEF Nothing, Off

(* The fields stay what they are.                                          *)
LEMMA StepTypes ==
  ASSUME ScrTypes, ScrNext
  PROVE  ScrTypes'
<1>1. CASE GrpInitFails
  BY <1>1, ScreenAssumption DEF GrpInitFails, ScrTypes, InGame, scrVars
<1>2. CASE ResourceInit
  BY <1>2, ScreenAssumption DEF ResourceInit, ScrTypes, InGame, Blank
<1>3. CASE TitleRow
  BY <1>3, ScreenAssumption DEF TitleRow, ScrTypes, InGame
<1>4. CASE TitleEsc
  BY <1>4, ScreenAssumption DEF TitleEsc, ScrTypes, InGame
<1>5. CASE TitleSpace
  BY <1>5, ScreenAssumption DEF TitleSpace, ScrTypes, InGame, Image, Blank, Free
<1>6. CASE Begin
  BY <1>6, ScreenAssumption DEF Begin, ScrTypes, InGame, NextShown, Image, Blank
<1>7. CASE ScrPass
  BY <1>7, ScreenAssumption DEF ScrPass, ScrTypes, InGame
<1>8. CASE Leave_
  BY <1>8, ScreenAssumption DEF Leave_, ScrTypes, InGame
<1>9. CASE GameOver
  BY <1>9, ScreenAssumption DEF GameOver, ScrTypes, InGame
<1>10. CASE EraseRow
  BY <1>10, ScreenAssumption DEF EraseRow, ScrTypes, InGame
<1>11. CASE KeepRow
  BY <1>11, ScreenAssumption DEF KeepRow, ScrTypes, InGame, Taken
<1>12. ASSUME NEW y \in 1..Bottom - Tall + 1, NEW cells \in SUBSET BlockRows(y), LandOn(y, cells)
      PROVE  ScrTypes'
  BY <1>12, ScreenAssumption DEF LandOn, ScrTypes, InGame, Image, Blank, BlockRows
<1>13. ASSUME NEW room \in BOOLEAN, NewBlock(room)
      PROVE  ScrTypes'
  BY <1>13, ScreenAssumption DEF NewBlock, ScrTypes, InGame, NextShown, Image, Blank
<1> QED
  BY <1>1, <1>2, <1>3, <1>4, <1>5, <1>6, <1>7, <1>8, <1>9, <1>10, <1>11, <1>12, <1>13 DEF ScrNext

(* The two sprite tables.                                                  *)
LEMMA StepSprites ==
  ASSUME ScrTypes, SpritesOK, ScrNext
  PROVE  SpritesOK'
<1>1. CASE GrpInitFails
  BY <1>1 DEF GrpInitFails, SpritesOK, scrVars
<1>2. CASE ResourceInit
  <2> DEFINE s0 == [spr EXCEPT !.view = 0, !.active = 0]
              s1 == SetupSprite(Flip(s0))
              s2 == SetupSprite(Flip(s1))
  <2>1. s0 \in Tables /\ Whole(s0)
    BY DEF SpritesOK, Tables, Whole
  <2>2. ASSUME NEW s \in Tables, Whole(s)
        PROVE  LET u == SetupSprite(Flip(s))
               IN /\ InTurn(u) /\ u.view = s.page /\ u.table[u.active] = Nothing
                  /\ u.table[u.view] = s.table[u.view]
    <3>1. SetupSprite(Flip(s)) = Put(Flip(s), Off, Off)
      BY DEF SetupSprite, Put, Nothing
    <3>2. Flip(s).active = Flip(s).page /\ Flip(s).view = 1 - Flip(s).page /\ s.page \in {0, 1}
      BY FlipFacts DEF Tables
    <3> QED
      BY <2>2, <3>1, <3>2, FlipFacts, PutFacts DEF InTurn, Whole, Nothing, Off
  <2>3. InTurn(s1) /\ s1.table[s1.active] = Nothing
    BY <2>1, <2>2
  <2>4. /\ InTurn(s2) /\ s2.view = s1.page
        /\ s2.table[s2.view] = s1.table[s2.view]
    BY <2>2, <2>3 DEF InTurn
  <2>5. s2.table[s2.view] = Nothing
    BY <2>3, <2>4 DEF InTurn
  <2>6. pc' = "title" /\ spr' = s2
    BY <1>2 DEF ResourceInit
  <2> HIDE DEF s1, s2
  <2> QED
    BY <2>4, <2>5, <2>6 DEF SpritesOK, InTurn
<1>3. CASE TitleRow
  BY <1>3 DEF TitleRow, SpritesOK
<1>4. CASE TitleEsc
  BY <1>4 DEF TitleEsc, SpritesOK
<1>5. CASE TitleSpace
  <2>1. InTurn(spr')
    BY <1>5, FlipInTurn DEF TitleSpace, SpritesOK
  <2> QED
    BY <1>5, <2>1 DEF TitleSpace, SpritesOK, InTurn
<1>6. CASE Begin
  <2>1. /\ InTurn(spr')
        /\ spr'.table[spr'.view] = [blk |-> piece.n, ghost |-> piece.n]
    BY <1>6, TurnOffShows, UpdateShows DEF Begin, SpritesOK, ScrTypes
  <2> QED
    BY <1>6, <2>1 DEF Begin, SpritesOK, InTurn
<1>7. CASE ScrPass
  <2>1. /\ InTurn(spr')
        /\ spr'.table[spr'.view] = [blk |-> piece.n, ghost |-> piece.n]
    BY <1>7, UpdateShows DEF ScrPass, SpritesOK, ScrTypes
  <2> QED
    BY <1>7, <2>1 DEF ScrPass, SpritesOK, InTurn
<1>8. CASE Leave_
  <2>1. InTurn(spr') /\ spr'.table[spr'.view] = Nothing
    BY <1>8, TurnOffShows DEF Leave_, SpritesOK
  <2> QED
    BY <1>8, <2>1 DEF Leave_, SpritesOK, InTurn
<1>9. CASE GameOver
  BY <1>9 DEF GameOver, SpritesOK
<1>10. CASE EraseRow
  <2>1. pc = "fill" /\ pc' \in {"fill", "next"} /\ spr' = Hidden
    BY <1>10 DEF EraseRow
  <2>2. InTurn(spr')
    BY <2>1, TurnOffShows DEF SpritesOK, Hidden
  <2> QED
    BY <2>1, <2>2 DEF SpritesOK, InTurn
<1>11. CASE KeepRow
  <2>1. pc = "fill" /\ pc' \in {"fill", "next"} /\ spr' = Hidden
    BY <1>11 DEF KeepRow
  <2>2. InTurn(spr')
    BY <2>1, TurnOffShows DEF SpritesOK, Hidden
  <2> QED
    BY <2>1, <2>2 DEF SpritesOK, InTurn
<1>12. ASSUME NEW y \in 1..Bottom - Tall + 1, NEW cells \in SUBSET BlockRows(y), LandOn(y, cells)
      PROVE  SpritesOK'
  BY <1>12 DEF LandOn, SpritesOK
<1>13. ASSUME NEW room \in BOOLEAN, NewBlock(room)
      PROVE  SpritesOK'
  <2> DEFINE u == UpdateScreen(spr, piece.n)
  <2>1. InTurn(u) /\ u.table[u.view] = [blk |-> piece.n, ghost |-> piece.n]
    BY <1>13, UpdateShows DEF NewBlock, SpritesOK, ScrTypes
  <2>2. InTurn(TurnOff(u)) /\ TurnOff(u).table[TurnOff(u).view] = Nothing
    BY <2>1, TurnOffShows
  <2>3. /\ spr' = IF room THEN u ELSE TurnOff(u)
        /\ pc' = (IF room THEN "loop" ELSE "over") /\ piece' = piece
    BY <1>13 DEF NewBlock
  <2> HIDE DEF u
  <2> QED
    BY <2>1, <2>2, <2>3 DEF SpritesOK, InTurn
<1> QED
  BY <1>1, <1>2, <1>3, <1>4, <1>5, <1>6, <1>7, <1>8, <1>9, <1>10, <1>11, <1>12, <1>13 DEF ScrNext

(* Every change of the field is drawn.                                     *)
LEMMA StepField ==
  ASSUME ScrTypes, FieldOK, ScrNext
  PROVE  FieldOK'
<1>1. CASE GrpInitFails
  BY <1>1 DEF GrpInitFails, ScrTypes, FieldOK, InGame, scrVars
<1>2. CASE ResourceInit
  BY <1>2 DEF ResourceInit, ScrTypes, FieldOK, InGame
<1>3. CASE TitleRow
  BY <1>3 DEF TitleRow, ScrTypes, FieldOK, InGame
<1>4. CASE TitleEsc
  BY <1>4 DEF TitleEsc, ScrTypes, FieldOK, InGame
<1>5. CASE TitleSpace
  BY <1>5 DEF TitleSpace, ScrTypes, FieldOK, InGame, Image
<1>6. CASE Begin
  BY <1>6 DEF Begin, ScrTypes, FieldOK, InGame
<1>7. CASE ScrPass
  BY <1>7 DEF ScrPass, ScrTypes, FieldOK, InGame
<1>8. CASE Leave_
  BY <1>8 DEF Leave_, ScrTypes, FieldOK, InGame
<1>9. CASE GameOver
  BY <1>9 DEF GameOver, ScrTypes, FieldOK, InGame
<1>10. CASE EraseRow
  <2>1. ASSUME NEW c \in Field PROVE page2'[c] = Image(layout'[c])
    <3>1. c[1] \in Columns /\ c[2] \in 0..Bottom
      BY DEF Field
    <3>2. CASE c[2] \in 1..rows[1]
      <4>1. <<c[1], c[2] - 1>> \in Field
        BY <3>1, <3>2, ScreenAssumption DEF Field
      <4> QED
        BY <1>10, <3>2, <4>1 DEF EraseRow, Scroll, FieldOK, InGame
    <3>3. CASE c[2] \notin 1..rows[1]
      BY <1>10, <3>3 DEF EraseRow, Scroll, FieldOK, InGame
    <3> QED
      BY <3>2, <3>3
  <2> QED
    BY <2>1 DEF FieldOK
<1>11. CASE KeepRow
  BY <1>11 DEF KeepRow, ScrTypes, FieldOK, InGame
<1>12. ASSUME NEW y \in 1..Bottom - Tall + 1, NEW cells \in SUBSET BlockRows(y), LandOn(y, cells)
      PROVE  FieldOK'
  BY <1>12 DEF LandOn, ScrTypes, FieldOK, InGame
<1>13. ASSUME NEW room \in BOOLEAN, NewBlock(room)
      PROVE  FieldOK'
  BY <1>13 DEF NewBlock, ScrTypes, FieldOK, InGame
<1> QED
  BY <1>1, <1>2, <1>3, <1>4, <1>5, <1>6, <1>7, <1>8, <1>9, <1>10, <1>11, <1>12, <1>13 DEF ScrNext

(* What is shown of the next blocks and the figures.                       *)
LEMMA StepNext ==
  ASSUME ScrTypes, NextOK, ScrNext
  PROVE  NextOK'
<1>1. CASE GrpInitFails
  BY <1>1 DEF GrpInitFails, ScrTypes, NextOK, InGame, scrVars
<1>2. CASE ResourceInit
  BY <1>2 DEF ResourceInit, ScrTypes, NextOK, InGame
<1>3. CASE TitleRow
  BY <1>3 DEF TitleRow, ScrTypes, NextOK, InGame
<1>4. CASE TitleEsc
  BY <1>4 DEF TitleEsc, ScrTypes, NextOK, InGame
<1>5. CASE TitleSpace
  BY <1>5 DEF TitleSpace, ScrTypes, NextOK, InGame, Image
<1>6. CASE Begin
  BY <1>6 DEF Begin, ScrTypes, NextOK, InGame, NextShown, Shown, Image
<1>7. CASE ScrPass
  BY <1>7 DEF ScrPass, ScrTypes, NextOK, InGame
<1>8. CASE Leave_
  BY <1>8 DEF Leave_, ScrTypes, NextOK, InGame
<1>9. CASE GameOver
  BY <1>9 DEF GameOver, ScrTypes, NextOK, InGame
<1>10. CASE EraseRow
  BY <1>10 DEF EraseRow, ScrTypes, NextOK, InGame
<1>11. CASE KeepRow
  BY <1>11 DEF KeepRow, ScrTypes, NextOK, InGame, Taken
<1>12. ASSUME NEW y \in 1..Bottom - Tall + 1, NEW cells \in SUBSET BlockRows(y), LandOn(y, cells)
      PROVE  NextOK'
  BY <1>12 DEF LandOn, ScrTypes, NextOK, InGame, Image
<1>13. ASSUME NEW room \in BOOLEAN, NewBlock(room)
      PROVE  NextOK'
  BY <1>13 DEF NewBlock, ScrTypes, NextOK, InGame, NextShown, Shown, Image
<1> QED
  BY <1>1, <1>2, <1>3, <1>4, <1>5, <1>6, <1>7, <1>8, <1>9, <1>10, <1>11, <1>12, <1>13 DEF ScrNext

(* Pages, music and what main() restores.                                  *)
LEMMA StepMachine ==
  ASSUME ScrTypes, MachineOK, ScrNext
  PROVE  MachineOK'
<1>1. CASE GrpInitFails
  BY <1>1 DEF GrpInitFails, ScrTypes, MachineOK, InGame, scrVars
<1>2. CASE ResourceInit
  BY <1>2 DEF ResourceInit, ScrTypes, MachineOK, InGame
<1>3. CASE TitleRow
  BY <1>3 DEF TitleRow, ScrTypes, MachineOK, InGame
<1>4. CASE TitleEsc
  BY <1>4 DEF TitleEsc, ScrTypes, MachineOK, InGame
<1>5. CASE TitleSpace
  BY <1>5 DEF TitleSpace, ScrTypes, MachineOK, InGame
<1>6. CASE Begin
  BY <1>6 DEF Begin, ScrTypes, MachineOK, InGame
<1>7. CASE ScrPass
  BY <1>7 DEF ScrPass, ScrTypes, MachineOK, InGame
<1>8. CASE Leave_
  BY <1>8 DEF Leave_, ScrTypes, MachineOK, InGame
<1>9. CASE GameOver
  BY <1>9 DEF GameOver, ScrTypes, MachineOK, InGame
<1>10. CASE EraseRow
  BY <1>10 DEF EraseRow, ScrTypes, MachineOK, InGame
<1>11. CASE KeepRow
  BY <1>11 DEF KeepRow, ScrTypes, MachineOK, InGame
<1>12. ASSUME NEW y \in 1..Bottom - Tall + 1, NEW cells \in SUBSET BlockRows(y), LandOn(y, cells)
      PROVE  MachineOK'
  BY <1>12 DEF LandOn, ScrTypes, MachineOK, InGame
<1>13. ASSUME NEW room \in BOOLEAN, NewBlock(room)
      PROVE  MachineOK'
  BY <1>13 DEF NewBlock, ScrTypes, MachineOK, InGame
<1> QED
  BY <1>1, <1>2, <1>3, <1>4, <1>5, <1>6, <1>7, <1>8, <1>9, <1>10, <1>11, <1>12, <1>13 DEF ScrNext

(* The rows of the title come in their order.                              *)
LEMMA StepTitle ==
  ASSUME ScrTypes, TitleOK, ScrNext
  PROVE  TitleOK'
<1>1. CASE GrpInitFails
  BY <1>1 DEF GrpInitFails, ScrTypes, TitleOK, TitleAt, InGame, scrVars
<1>2. CASE ResourceInit
  BY <1>2 DEF ResourceInit, ScrTypes, TitleOK, TitleAt, InGame, Dark
<1>3. CASE TitleRow
  <2>1. PICK m \in 0..6 : TitleAt(m)
    BY <1>3 DEF TitleRow, TitleOK
  <2>2. {r \in DOMAIN title_ : title_[r] # Dark} = 11 - m..10
    BY <2>1 DEF TitleOK, TitleAt, Dark
  <2>3. Cardinality(11 - m..10) = m
    BY FS_Interval
  <2>4. /\ title_' = [r \in DOMAIN title_ |-> IF r < 10 THEN title_[r + 1] ELSE m]
        /\ pc' = IF m = 6 THEN "press" ELSE "title"
    BY <1>3, <2>2, <2>3 DEF TitleRow
  <2>5. TitleAt(m + 1)'
    BY <2>1, <2>4 DEF TitleOK, TitleAt, Dark
  <2> QED
    BY <2>4, <2>5 DEF TitleOK
<1>4. CASE TitleEsc
  BY <1>4 DEF TitleEsc, ScrTypes, TitleOK, TitleAt, InGame
<1>5. CASE TitleSpace
  BY <1>5 DEF TitleSpace, ScrTypes, TitleOK, TitleAt, InGame
<1>6. CASE Begin
  BY <1>6 DEF Begin, ScrTypes, TitleOK, TitleAt, InGame
<1>7. CASE ScrPass
  BY <1>7 DEF ScrPass, ScrTypes, TitleOK, TitleAt, InGame
<1>8. CASE Leave_
  BY <1>8 DEF Leave_, ScrTypes, TitleOK, TitleAt, InGame
<1>9. CASE GameOver
  BY <1>9 DEF GameOver, ScrTypes, TitleOK, TitleAt, InGame, Dark
<1>10. CASE EraseRow
  BY <1>10 DEF EraseRow, ScrTypes, TitleOK, TitleAt, InGame
<1>11. CASE KeepRow
  BY <1>11 DEF KeepRow, ScrTypes, TitleOK, TitleAt, InGame
<1>12. ASSUME NEW y \in 1..Bottom - Tall + 1, NEW cells \in SUBSET BlockRows(y), LandOn(y, cells)
      PROVE  TitleOK'
  BY <1>12 DEF LandOn, ScrTypes, TitleOK, TitleAt, InGame
<1>13. ASSUME NEW room \in BOOLEAN, NewBlock(room)
      PROVE  TitleOK'
  BY <1>13 DEF NewBlock, ScrTypes, TitleOK, TitleAt, InGame
<1> QED
  BY <1>1, <1>2, <1>3, <1>4, <1>5, <1>6, <1>7, <1>8, <1>9, <1>10, <1>11, <1>12, <1>13 DEF ScrNext

LEMMA ScreenStep == ScreenInv /\ [ScrNext]_scrVars => ScreenInv'
<1>1. CASE UNCHANGED scrVars
  BY <1>1 DEF scrVars, ScreenInv, ScrTypes, SpritesOK, FieldOK, NextOK, MachineOK, TitleOK, TitleAt
<1> QED
  BY <1>1, StepTypes, StepSprites, StepField, StepNext, StepMachine, StepTitle DEF ScreenInv

-----------------------------------------------------------------------------
(* Whenever the player can look, cells, next blocks, figures and sprites   *)
(* are those of the game's state, the title stands in order, and main()    *)
(* leaves the machine as it found it, for every game and field (main,      *)
(* title, game_loop).                                                      *)
THEOREM PictureTheorem == ScrSpec => []PictureTrue
<1>1. ScreenInv => PictureTrue
  <2> SUFFICES ASSUME ScreenInv PROVE PictureTrue
    OBVIOUS
  <2>1. Playing => pc \in InGame
    BY DEF Playing, ScreenInv, ScrTypes
  <2>2. pc \in InGame => Playing
    BY DEF Playing, InGame
  <2>3. pc = "press" => \A r \in 4..10 : title_[r] = r - 4
    BY DEF ScreenInv, TitleOK, TitleAt
  <2>4. Playing => /\ spr.view # spr.active
                   /\ spr.table[spr.view].blk = spr.table[spr.view].ghost
    BY <2>1 DEF ScreenInv, SpritesOK, InTurn, Whole, Tables, InGame
  <2> QED
    BY <2>1, <2>2, <2>3, <2>4 DEF ScreenInv, PictureTrue, InLoop, SpritesOK, FieldOK, NextOK,
       MachineOK, InGame
<1> QED
  BY <1>1, ScreenInit, ScreenStep, PTL DEF ScrSpec
=============================================================================
