-------------------------------- MODULE BlGcm --------------------------------
(***************************************************************************)
(* BLGCM.C: lines, boxes and circles, as the sequence of dots they plot.   *)
(* Interlaced screens show two pages of VRAM in turns, even lines of the   *)
(* picture from one, odd lines from the next: what the video processor     *)
(* draws in one command on other screens is drawn dot by dot on these, or  *)
(* page by page.  The multi-colour mode (MC) has no commands at all.       *)
(* Colours and logical operations are left out, but a dot plotted twice is *)
(* told from one plotted once: an EOR operation would undo the first.      *)
(***************************************************************************)
EXTENDS Integers, Sequences, SequencesExt

CONSTANTS
  Size,  \* coordinates of points are 0..Size
  Circles, \* circles drawn: <<x, y, radius>>, inside the screen
  DrawPages, \* active pages; even ones are used when interlaced
  Junk   \* values of an uninitialised byte

ASSUME DrawAssumption ==
  /\ Size \in Nat /\ Size < 256
  /\ Circles \subseteq {c \in Nat \X Nat \X Nat :
       c[3] <= c[1] /\ c[3] <= c[2] /\ c[1] + c[3] < 512 /\ c[2] + c[3] < 256}
  /\ DrawPages \subseteq {p \in 0..2 : p % 2 = 0} /\ Junk \subseteq 0..255

VARIABLES
  mc,     \* screen_mode = GRP_SCR_MC
  il,     \* interlace_on
  page,   \* active_page
  shape,  \* the last call and its arguments
  dots    \* what it plotted: <<x, page, line>>, in order

setup == <<mc, il, page>>
drawVars == <<setup, shape, dots>>

Coord == 0..Size

DrawInit ==
  /\ mc \in BOOLEAN /\ il \in BOOLEAN /\ ~(mc /\ il)
  /\ page \in DrawPages
  /\ shape = [op |-> "none"] /\ dots = <<>>

Diff(a, b) == IF a > b THEN a - b ELSE b - a
Sign(from, to) == IF from < to THEN 1 ELSE -1

(* bl_grp_put_pixel.                                                       *)
Dot(x, y) ==
  IF mc THEN <<x, 0, y>> ELSE IF il THEN <<x, page + (y % 2), y \div 2>> ELSE <<x, page, y>>

(* bl_grp_put_pixel_ext: always by a command, which multi-colour mode does *)
(* not carry out.                                                          *)
DotExt(x, y) == IF mc THEN <<>> ELSE <<Dot(x, y)>>

(* The LINE command: long + 1 dots along one axis, from (x, line) of page  *)
(* p, and short across.                                                    *)
Command(x, p, line, long, short, dirX, dirY, tall) ==
  [k \in 1..long + 1 |->
     LET across == IF long = 0 THEN 0 ELSE (2 * (k - 1) * short + long) \div (2 * long)
     IN IF tall THEN <<x + dirX * across, p, line + dirY * (k - 1)>>
                ELSE <<x + dirX * (k - 1), p, line + dirY * across>>]

(***************************************************************************)
(* bl_grp_line.                                                            *)
(***************************************************************************)
(* The loop that follows the line by its error: a steps along the longer   *)
(* side, b along the shorter, when it is at its k-th dot.                  *)
Walk(long, short) ==
  LET at[k \in 0..long] ==
        IF k = 0 THEN [a |-> 0, b |-> 0, error |-> long \div 2]
        ELSE LET p == at[k - 1]
                 e == p.error - short
             IN [a |-> p.a + 1, b |-> p.b + (IF e < 0 THEN 1 ELSE 0),
                 error |-> IF e < 0 THEN e + long ELSE e]
  IN at

Point(sx, sy, dx, dy) ==
  LET w == Diff(sx, dx)
      h == Diff(sy, dy)
      long == IF h > w THEN h ELSE w
      at == Walk(long, IF h > w THEN w ELSE h)
  IN [k \in 1..long + 1 |->
        LET p == at[k - 1]
        IN IF h > w THEN <<sx + Sign(sx, dx) * p.b, sy + Sign(sy, dy) * p.a>>
                    ELSE <<sx + Sign(sx, dx) * p.a, sy + Sign(sy, dy) * p.b>>]

(* The first point is drawn before the loop, and in it.                    *)
Followed(sx, sy, dx, dy) ==
  LET points == Point(sx, sy, dx, dy)
  IN <<Dot(sx, sy)>> \o [k \in DOMAIN points |-> Dot(points[k][1], points[k][2])]

(* Upright, interlaced: the even page's part, then the odd one's.  sy0 is  *)
(* read before it is set when the line is given from bottom to top.        *)
Upright(x, sy, dy, junk) ==
  LET top == IF sy > dy THEN junk ELSE sy
      end == IF sy > dy THEN sy ELSE dy
      sy1 == top \div 2
      sy0 == IF top % 2 = 1 THEN sy1 + 1 ELSE sy1
      length == ((end \div 2) - sy0 + 256) % 256
  IN Command(x, page, sy0, length, 0, 1, 1, TRUE) \o Command(x, page + 1, sy1, length, 0, 1, 1, TRUE)

(* Not interlaced: one command.                                            *)
Straight(sx, sy, dx, dy) ==
  LET w == Diff(sx, dx)
      h == Diff(sy, dy)
  IN IF w > h THEN Command(sx, page, sy, w, h, Sign(sx, dx), Sign(sy, dy), FALSE)
              ELSE Command(sx, page, sy, h, w, Sign(sx, dx), Sign(sy, dy), TRUE)

LineDots(sx, sy, dx, dy, junk) ==
  CASE mc                        -> Followed(sx, sy, dx, dy)
    [] ~mc /\ ~il                -> Straight(sx, sy, dx, dy)
    [] il /\ sy = dy             -> LET at == Dot(sx, sy)
                                    IN Command(sx, at[2], at[3], Diff(sx, dx), 0, Sign(sx, dx), 1, FALSE)
    [] il /\ sy # dy /\ sx = dx  -> Upright(sx, sy, dy, junk)
    [] OTHER                     -> Followed(sx, sy, dx, dy)

(***************************************************************************)
(* bl_grp_box, bl_grp_boxfill, bl_grp_boxfill_h.                           *)
(***************************************************************************)
BoxDots(sx, sy, dx, dy, junk) ==
  LineDots(sx, sy, dx, sy, junk) \o LineDots(sx, sy, sx, dy, junk)
    \o LineDots(dx, sy, dx, dy, junk) \o LineDots(sx, dy, dx, dy, junk)

Low(a, b) == IF a > b THEN b ELSE a
High(a, b) == IF a > b THEN a ELSE b

(* Wide boxes, or those of less than twice their width in height when      *)
(* interlaced, are filled line by line.                                    *)
ByLines(sx, sy, dx, dy) ==
  Diff(sx, dx) > (IF il THEN Diff(sy, dy) \div 2 ELSE Diff(sy, dy))

FillDots(sx, sy, dx, dy, junk) ==
  LET x0 == Low(sx, dx)  x1 == High(sx, dx)
      y0 == Low(sy, dy)  y1 == High(sy, dy)
  IN IF ByLines(sx, sy, dx, dy)
       THEN FlattenSeq([k \in 1..y1 - y0 + 1 |-> LineDots(x0, y0 + k - 1, x1, y0 + k - 1, junk)])
       ELSE FlattenSeq([k \in 1..x1 - x0 + 1 |-> LineDots(x0 + k - 1, y0, x0 + k - 1, y1, junk)])

(* The HMMV command: w by h dots.                                          *)
Block(x, p, line, w, h) == [k \in 1..w * h |-> <<x + ((k - 1) % w), p, line + ((k - 1) \div w)>>]

FillHDots(sx, sy, dx, dy) ==
  LET w == dx - sx + 1
      h == dy - sy + 1
  IN IF il THEN Block(sx, page, sy \div 2, w, h \div 2) \o Block(sx, page + 1, sy \div 2, w, h \div 2)
           ELSE Block(sx, page, sy, w, h)

(***************************************************************************)
(* bl_grp_circle.                                                          *)
(***************************************************************************)
(* bl_grp_cirle4point and bl_grp_cirle4point_ext.                          *)
FourExt(cx, cy, x, y) ==
  DotExt(cx + x, cy + y)
    \o (IF x # 0 THEN DotExt(cx - x, cy + y) ELSE <<>>)
    \o (IF y # 0 THEN DotExt(cx + x, cy - y) ELSE <<>>)
    \o (IF x # 0 /\ y # 0 THEN DotExt(cx - x, cy - y) ELSE <<>>)

Four(cx, cy, x, y) ==
  <<Dot(cx + x, cy + y)>>
    \o (IF x # 0 THEN DotExt(cx - x, cy + y) ELSE <<>>)
    \o (IF y # 0 THEN DotExt(cx + x, cy - y) ELSE <<>>)
    \o (IF x # 0 /\ y # 0 THEN DotExt(cx - x, cy - y) ELSE <<>>)

(* Mutant: the dots of both octants are always drawn.                      *)
CircleStep_Twice(cx, cy, x, y) == Four(cx, cy, x, y) \o FourExt(cx, cy, y, x)

CircleStep(cx, cy, x, y) ==
  Four(cx, cy, x, y) \o (IF x # y THEN FourExt(cx, cy, y, x) ELSE <<>>)

(* The loop at its y-th pass.                                              *)
CircleWalk(radius) ==
  LET at[y \in 0..radius + 1] ==
        IF y = 0 THEN [x |-> radius, error |-> -radius]
        ELSE LET p == at[y - 1]
                 e == p.error + 2 * y - 1
             IN IF e >= 0 THEN [x |-> p.x - 1, error |-> e - 2 * p.x + 1]
                          ELSE [x |-> p.x, error |-> e]
  IN at

(* It passes while x >= y.                                                 *)
CircleDots(cx, cy, radius) ==
  LET at == CircleWalk(radius)
      passes == {y \in 0..radius : \A z \in 0..y : at[z].x >= z}
  IN FlattenSeq([k \in 1..radius + 1 |->
                   IF k - 1 \in passes THEN CircleStep(cx, cy, at[k - 1].x, k - 1) ELSE <<>>])

(***************************************************************************)
(* Calls.                                                                  *)
(***************************************************************************)
Call(op, sx, sy, dx, dy, result) ==
  /\ shape.op = "none"
  /\ shape' = [op |-> op, sx |-> sx, sy |-> sy, dx |-> dx, dy |-> dy]
  /\ dots' = result
  /\ UNCHANGED setup

Line(sx, sy, dx, dy) == \E junk \in Junk : Call("line", sx, sy, dx, dy, LineDots(sx, sy, dx, dy, junk))
Box(sx, sy, dx, dy) == \E junk \in Junk : Call("box", sx, sy, dx, dy, BoxDots(sx, sy, dx, dy, junk))
Boxfill(sx, sy, dx, dy) == \E junk \in Junk : Call("fill", sx, sy, dx, dy, FillDots(sx, sy, dx, dy, junk))
BoxfillH(sx, sy, dx, dy) ==
  ~mc /\ sx <= dx /\ sy <= dy /\ Call("fill_h", sx, sy, dx, dy, FillHDots(sx, sy, dx, dy))

(* sx, sy is its centre, dx its radius.                                    *)
Circle(cx, cy, radius) == Call("circle", cx, cy, radius, 0, CircleDots(cx, cy, radius))

DrawNext ==
  \/ \E sx, sy, dx, dy \in Coord :
       Line(sx, sy, dx, dy) \/ Box(sx, sy, dx, dy) \/ Boxfill(sx, sy, dx, dy) \/ BoxfillH(sx, sy, dx, dy)
  \/ \E c \in Circles : Circle(c[1], c[2], c[3])

DrawSpec == DrawInit /\ [][DrawNext]_drawVars

(***************************************************************************)
(* Properties.                                                             *)
(***************************************************************************)
(* The place of the picture a dot is shown at.                             *)
Shown(d) == IF il THEN <<d[1], 2 * d[3] + d[2] - page>> ELSE <<d[1], d[3]>>

DrawnDots == {Shown(dots[k]) : k \in DOMAIN dots}
Once == \A j, k \in DOMAIN dots : j # k => dots[j] # dots[k]

(* An upright line of an interlaced screen: not where asked, see README.   *)
Skewed == il /\ shape.sx = shape.dx /\ shape.sy # shape.dy

(* Lines end where asked, have one dot for each step of their longer side  *)
(* and none farther than half a dot from the ideal line, whoever draws     *)
(* them.                                                                   *)
LineExact ==
  (shape.op = "line" /\ ~Skewed) =>
    LET w == shape.dx - shape.sx
        h == shape.dy - shape.sy
        long == High(Diff(w, 0), Diff(h, 0))
        off(p) == Diff((p[1] - shape.sx) * h, (p[2] - shape.sy) * w)
    IN /\ {<<shape.sx, shape.sy>>, <<shape.dx, shape.dy>>} \subseteq DrawnDots
       /\ \A k \in 0..long :
            \E p \in DrawnDots : IF Diff(w, 0) >= Diff(h, 0) THEN Diff(p[1], shape.sx) = k
                                                          ELSE Diff(p[2], shape.sy) = k
       /\ \A p \in DrawnDots :
            /\ p[1] \in Low(shape.sx, shape.dx)..High(shape.sx, shape.dx)
            /\ p[2] \in Low(shape.sy, shape.dy)..High(shape.sy, shape.dy)
            /\ 2 * off(p) <= long
       /\ \A p, q \in DrawnDots :
            (IF Diff(w, 0) >= Diff(h, 0) THEN p[1] = q[1] ELSE p[2] = q[2]) => p = q

Frame == (Low(shape.sx, shape.dx)..High(shape.sx, shape.dx))
           \X (Low(shape.sy, shape.dy)..High(shape.sy, shape.dy))

(* A box is the border of its rectangle, its corners given in any order.   *)
BoxExact ==
  (shape.op = "box" /\ (~il \/ shape.sy = shape.dy)) =>
    DrawnDots = {p \in Frame : p[1] \in {shape.sx, shape.dx} \/ p[2] \in {shape.sy, shape.dy}}

(* A filled box is its rectangle, each dot plotted once, so that logical   *)
(* operations work; by bl_grp_boxfill_h also, on interlaced screens if it  *)
(* has whole pairs of lines.                                               *)
FillExact ==
  /\ (shape.op = "fill" /\ (~il \/ ByLines(shape.sx, shape.sy, shape.dx, shape.dy)))
       => DrawnDots = Frame /\ (~mc => Once)
  /\ (shape.op = "fill_h" /\ (il => shape.sy % 2 = 0 /\ shape.dy % 2 = 1)) => DrawnDots = Frame /\ Once

(* A circle has, for each line of the octant, the outermost dot that is    *)
(* less than half a dot outside it (its error starts at the radius, so     *)
(* that it tells x * x + y * y from r * (r + 1)), and its images; each is  *)
(* plotted once.                                                           *)
CircleExact ==
  (shape.op = "circle" /\ ~mc) =>
    LET r == shape.dx
        octant == {p \in (0..r) \X (0..r) :
                     p[2] <= p[1] /\ p[1] * p[1] + p[2] * p[2] < r * (r + 1)
                                  /\ r * (r + 1) <= (p[1] + 1) * (p[1] + 1) + p[2] * p[2]}
        around(p) == {<<shape.sx + i * p[1], shape.sy + j * p[2]>> : i, j \in {-1, 1}}
                       \cup {<<shape.sx + i * p[2], shape.sy + j * p[1]>> : i, j \in {-1, 1}}
    IN Once /\ DrawnDots = IF r = 0 THEN {<<shape.sx, shape.sy>>} ELSE UNION {around(p) : p \in octant}

(* bl_grp_box, bl_grp_boxfill, bl_grp_boxfill_h and bl_grp_circle plot all *)
(* of the shape and nothing else, whichever way the kind of screen makes   *)
(* them take; and lines are as good as lines can be.                       *)
ShapesExact == LineExact /\ BoxExact /\ FillExact /\ CircleExact
==============================================================================
