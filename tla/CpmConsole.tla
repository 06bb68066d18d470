----------------------------- MODULE CpmConsole -----------------------------
(***************************************************************************)
(* Console output of cpm.c, the CP/M emulator: cpm_putch() interprets ANSI *)
(* and SOROC control sequences, one character a call, and the w32_         *)
(* functions change the Windows console by them.  A character is an action *)
(* of its own; those whose effect is the same share one.                   *)
(*                                                                         *)
(* The console is its cells, blank or not, and its cursor: positions       *)
(* outside it are refused, a fill runs on over the ends of lines, and a    *)
(* scroll leaves the lines it moved away from blank.  Colours and          *)
(* characters are left out.                                                *)
(***************************************************************************)
EXTENDS Integers, Sequences

CONSTANTS
  W, H,    \* columns and lines
  ByteMod, \* values of a byte (256)
  NArgs,   \* sizeof escArgs (8)
  Digits,  \* the digits programs send
  MaxSeq   \* bound: characters of parameters in a sequence

ASSUME ConsoleAssumption ==
  /\ W \in Nat \ {0} /\ H \in Nat \ {0} /\ ByteMod \in Nat \ {0, 1} /\ NArgs \in Nat \ {0, 1}
  /\ Digits \subseteq 0..9 /\ MaxSeq \in Nat

VARIABLES
  conout, \* is standard output a console?
  stat,   \* esc_stat
  argN,   \* arg_n
  escArgs,   \* escArgs
  cells,  \* the console: TRUE where something stands
  cur,    \* its cursor
  saved,  \* cpm_cur
  params  \* history: the parameters since ESC [: characters and numbers they form

parse == <<stat, argN, escArgs, params>>
screen == <<cells, cur, saved>>
conVars == <<conout, parse, screen>>

Cols == 0..W - 1
Lines == 0..H - 1
Place(p) == p.y * W + p.x

NoParams == [chars |-> 0, nums |-> <<>>]

ConInit ==
  /\ conout \in BOOLEAN
  /\ stat = "start" /\ argN = 0 /\ escArgs = [i \in 0..NArgs - 1 |-> 0] /\ params = NoParams
  /\ cells = [i \in 0..W * H - 1 |-> TRUE]
  /\ cur = [x |-> 0, y |-> 0] /\ saved = [x |-> 0, y |-> 0]

(***************************************************************************)
(* The Windows console.                                                    *)
(***************************************************************************)
SetCursor(x, y) == cur' = IF x \in Cols /\ y \in Lines THEN [x |-> x, y |-> y] ELSE cur

Filled(from, size) ==
  [i \in DOMAIN cells |-> cells[i] /\ ~(i >= from /\ i < from + size)]

(* Lines top to bottom moved to line dst and below.                        *)
Scrolled(top, bottom, dst) ==
  [i \in DOMAIN cells |->
     LET y == i \div W
         src == y - dst + top
     IN IF top > bottom THEN cells[i]
        ELSE IF src \in top..bottom THEN cells[src * W + (i % W)]
        ELSE IF y \in top..bottom THEN FALSE ELSE cells[i]]

(***************************************************************************)
(* The w32_ functions.                                                     *)
(***************************************************************************)
GotoXY(x, y) ==
  /\ SetCursor(IF x > 0 THEN x - 1 ELSE x, IF y > 0 THEN y - 1 ELSE y)
  /\ UNCHANGED <<cells, saved>>

Clamp(v, max) == IF v < 0 THEN 0 ELSE IF v > max THEN max ELSE v

GotoDXY(dx, dy) ==
  /\ SetCursor(Clamp(cur.x + dx, W - 1), Clamp(cur.y + dy, H - 1))
  /\ UNCHANGED <<cells, saved>>

(* Mutant: the cursor's own cell is left (as before 2012).                 *)
Cls_NotCur(arg) ==
  /\ cells' = CASE arg = 0 -> Filled(Place(cur), W * (H - cur.y) - cur.x)
                [] arg = 1 -> Filled(0, W * cur.y + cur.x)
                [] OTHER   -> Filled(0, W * H)
  /\ IF arg = 2 THEN SetCursor(0, 0) ELSE UNCHANGED cur
  /\ UNCHANGED saved

Cls(arg) ==
  /\ cells' = CASE arg = 0 -> Filled(Place(cur), W * (H - cur.y) - cur.x)
                [] arg = 1 -> Filled(0, W * cur.y + cur.x + 1)
                [] OTHER   -> Filled(0, W * H)
  /\ IF arg = 2 THEN SetCursor(0, 0) ELSE UNCHANGED cur
  /\ UNCHANGED saved

ClrLn(arg) ==
  /\ cells' = CASE arg = 0 -> Filled(Place(cur), W - cur.x)
                [] arg = 1 -> Filled(W * cur.y, cur.x + 1)
                [] OTHER   -> Filled(W * cur.y, W)
  /\ UNCHANGED <<cur, saved>>

(* Up by len lines, or down by -len, from the cursor's line.               *)
Scroll(len) ==
  /\ cells' = Scrolled(cur.y + (IF len >= 0 THEN len ELSE 0), H - 1,
                       cur.y - (IF len >= 0 THEN 0 ELSE len))
  /\ UNCHANGED <<cur, saved>>

Up ==
  /\ IF cur.y > 0 THEN SetCursor(cur.x, cur.y - 1) /\ UNCHANGED cells
     ELSE cells' = Scrolled(0, H - 2, 1) /\ UNCHANGED cur
  /\ UNCHANGED saved

Down ==
  /\ IF cur.y + 1 < H THEN SetCursor(cur.x, cur.y + 1) /\ UNCHANGED cells
     ELSE cells' = Scrolled(1, H - 1, 0) /\ UNCHANGED cur
  /\ UNCHANGED saved

(* w32_left(): to the right, and on to the next line.                      *)
Left ==
  /\ IF cur.x + 1 < W THEN SetCursor(cur.x + 1, cur.y) /\ UNCHANGED cells
     ELSE /\ SetCursor(0, IF cur.y + 1 < H THEN cur.y + 1 ELSE cur.y)
          /\ IF cur.y + 1 < H THEN UNCHANGED cells ELSE cells' = Scrolled(1, H - 1, 0)
  /\ UNCHANGED saved

(* WriteConsole() of a printing character.                                 *)
WriteCell ==
  LET full == cur.x = W - 1 /\ cur.y = H - 1
      here == [cells EXCEPT ![Place(cur)] = TRUE]
  IN /\ cells' = IF full THEN [i \in DOMAIN cells |-> i < (H - 1) * W /\ here[i + W]] ELSE here
     /\ cur' = IF cur.x < W - 1 THEN [cur EXCEPT !.x = @ + 1]
               ELSE [x |-> 0, y |-> IF full THEN cur.y ELSE cur.y + 1]
     /\ UNCHANGED saved

(***************************************************************************)
(* cpm_putch().                                                            *)
(***************************************************************************)
(* The first character decides: without a console all go to stdout.        *)
StartsNop ==
  /\ stat = "start" /\ ~conout
  /\ stat' = "nop"
  /\ UNCHANGED <<conout, argN, escArgs, params, screen>>

Nop == stat = "nop" /\ UNCHANGED conVars

Ground == stat = "char" \/ (stat = "start" /\ conout)

(* A character outside of any sequence.                                    *)
Plain(effect) ==
  /\ Ground
  /\ effect
  /\ stat' = "char"
  /\ UNCHANGED <<conout, argN, escArgs, params>>

Esc ==
  /\ Ground
  /\ stat' = "esc"
  /\ UNCHANGED <<conout, argN, escArgs, params, screen>>

(* The character after ESC.                                                *)
EscChar(effect) ==
  /\ stat = "esc"
  /\ effect
  /\ stat' = "char"
  /\ UNCHANGED <<conout, argN, escArgs, params>>

EscEq ==
  /\ stat = "esc"
  /\ stat' = "eq"
  /\ UNCHANGED <<conout, argN, escArgs, params, screen>>

(* The two coordinates of ESC =, v the character less 31.                  *)
Eq(v) ==
  /\ stat = "eq"
  /\ escArgs' = [escArgs EXCEPT ![0] = v]
  /\ stat' = "eq2"
  /\ UNCHANGED <<conout, argN, params, screen>>

Eq2(v) ==
  /\ stat = "eq2"
  /\ escArgs' = [escArgs EXCEPT ![1] = v]
  /\ GotoXY(v, escArgs[0])
  /\ stat' = "char"
  /\ UNCHANGED <<conout, argN, params>>

EscBracket ==
  /\ stat = "esc"
  /\ stat' = "ansi" /\ argN' = 0 /\ params' = [chars |-> 0, nums |-> <<0>>]
  /\ escArgs' = [escArgs EXCEPT ![0] = 0, ![1] = 0]
  /\ UNCHANGED <<conout, screen>>

More(nums) == params.chars < MaxSeq /\ params' = [chars |-> params.chars + 1, nums |-> nums]

Digit(d) ==
  /\ stat = "ansi"
  /\ escArgs' = [escArgs EXCEPT ![argN] = (@ * 10 + d) % ByteMod]
  /\ More([params.nums EXCEPT ![Len(params.nums)] = @ * 10 + d])
  /\ UNCHANGED <<conout, stat, argN, screen>>

Semicolon ==
  /\ stat = "ansi"
  /\ argN' = IF argN + 1 >= NArgs THEN argN ELSE argN + 1
  /\ escArgs' = [escArgs EXCEPT ![argN'] = 0]
  /\ More(Append(params.nums, 0))
  /\ UNCHANGED <<conout, stat, screen>>

(* The character that ends an ANSI sequence.                               *)
Final(effect) ==
  /\ stat = "ansi"
  /\ effect
  /\ stat' = "char" /\ params' = NoParams
  /\ UNCHANGED <<conout, argN>>

ParamCount == IF escArgs[0] = 0 THEN 1 ELSE escArgs[0]
SetCount == escArgs' = [escArgs EXCEPT ![0] = ParamCount]

AnsiGoto == Final(GotoXY(escArgs[1], escArgs[0]) /\ UNCHANGED escArgs)      \* H f
AnsiUp == Final(GotoDXY(0, -ParamCount) /\ SetCount)                    \* A
AnsiDown == Final(GotoDXY(0, ParamCount) /\ SetCount)                   \* B
AnsiRight == Final(GotoDXY(ParamCount, 0) /\ SetCount)                  \* C
AnsiLeft == Final(GotoDXY(-ParamCount, 0) /\ SetCount)                  \* D
AnsiErase == Final(Cls(escArgs[0]) /\ UNCHANGED escArgs)                 \* J
AnsiEraseLine == Final(ClrLn(escArgs[0]) /\ UNCHANGED escArgs)           \* K
AnsiDelete == Final(Scroll(ParamCount) /\ SetCount)                     \* M
AnsiInsert == Final(Scroll(-ParamCount) /\ SetCount)                    \* L
AnsiRestore == Final(SetCursor(saved.x, saved.y) /\ UNCHANGED <<cells, saved, escArgs>>) \* u
AnsiSave == Final(saved' = cur /\ UNCHANGED <<cells, cur, escArgs>>)  \* s
AnsiOther == Final(UNCHANGED <<screen, escArgs>>)                     \* m, unknown

ConNext ==
  \/ StartsNop \/ Nop
  \/ Plain(WriteCell) \/ Plain(Up) \/ Plain(Left) \/ Plain(Cls(2)) \/ Plain(GotoXY(1, 1)) \/ Esc
  \/ EscChar(Cls(2)) \/ EscChar(ClrLn(0)) \/ EscChar(Cls(0)) \/ EscChar(Down) \/ EscChar(Up)
  \/ EscChar(Scroll(-1)) \/ EscChar(Scroll(1)) \/ EscChar(UNCHANGED screen)
  \/ EscEq \/ (\E v \in 0..ByteMod - 1 : Eq(v) \/ Eq2(v))
  \/ EscBracket \/ (\E d \in Digits : Digit(d)) \/ Semicolon
  \/ AnsiGoto \/ AnsiUp \/ AnsiDown \/ AnsiRight \/ AnsiLeft \/ AnsiErase \/ AnsiEraseLine
  \/ AnsiDelete \/ AnsiInsert \/ AnsiRestore \/ AnsiSave \/ AnsiOther

ConSpec == ConInit /\ [][ConNext]_conVars

(***************************************************************************)
(* Properties.                                                             *)
(***************************************************************************)
ConTypeOK ==
  /\ conout \in BOOLEAN
  /\ stat \in {"start", "nop", "char", "esc", "eq", "eq2", "ansi"}
  /\ argN \in 0..NArgs - 1 /\ escArgs \in [0..NArgs - 1 -> 0..ByteMod - 1]
  /\ params \in [chars : Nat, nums : Seq(Nat)]
  /\ cells \in [0..W * H - 1 -> BOOLEAN]
  /\ cur \in [x : Cols, y : Lines] /\ saved \in [x : Cols, y : Lines]

(* The parameters a sequence is carried out with are its own, none of the  *)
(* sequence before it: absent ones are 0, and what does not fit in the     *)
(* array goes to its last place.                                           *)
ParamsExact ==
  ConTypeOK /\ (stat = "ansi" =>
    LET n == Len(params.nums) IN
    /\ argN = IF n <= NArgs THEN n - 1 ELSE NArgs - 1
    /\ \A k \in 0..argN : escArgs[k] = params.nums[IF k = NArgs - 1 THEN n ELSE k + 1] % ByteMod
    /\ argN = 0 => escArgs[1] = 0)

(* Erasing (ESC [ J, ESC [ K) blanks the cells from the cursor on, those   *)
(* up to and with it, or all, of the screen or of its line; no other cell  *)
(* changes and the cursor stays, except that ESC [ 2 J homes it.           *)
EraseExact ==
  [][/\ AnsiErase =>
          /\ \A i \in DOMAIN cells :
               cells'[i] = (/\ cells[i]
                            /\ ~CASE escArgs[0] = 0 -> i >= Place(cur)
                                  [] escArgs[0] = 1 -> i <= Place(cur)
                                  [] OTHER       -> TRUE)
          /\ escArgs[0] # 2 => cur' = cur
     /\ AnsiEraseLine =>
          /\ \A i \in DOMAIN cells :
               cells'[i] = (/\ cells[i]
                            /\ ~(/\ i \div W = cur.y
                                 /\ CASE escArgs[0] = 0 -> i % W >= cur.x
                                      [] escArgs[0] = 1 -> i % W <= cur.x
                                      [] OTHER       -> TRUE))
          /\ cur' = cur]_conVars

(* ESC [ n M and ESC [ n L shift the lines from the cursor's down by n,    *)
(* blank the ones that come free, and touch no line above the cursor: L as *)
(* long as there are n lines below, M as long as it moves at least n lines *)
(* (Windows blanks only what it moved, and of more deleted lines the ones  *)
(* between stay).                                                          *)
ScrollExact ==
  [][/\ (AnsiDelete /\ 2 * ParamCount <= H - cur.y) => \A i \in DOMAIN cells :
          cells'[i] = IF i \div W < cur.y THEN cells[i]
                      ELSE i + ParamCount * W < W * H /\ cells[i + ParamCount * W]
     /\ (AnsiInsert /\ ParamCount < H - cur.y) => \A i \in DOMAIN cells :
          cells'[i] = IF i \div W < cur.y THEN cells[i]
                      ELSE i \div W - ParamCount >= cur.y /\ cells[i - ParamCount * W]]_conVars

(* A relative move goes as far as asked or to the border, in one           *)
(* direction, whatever the count.                                          *)
MoveExact ==
  [][/\ AnsiUp => cur'.x = cur.x /\ (cur'.y = cur.y - ParamCount \/ (cur'.y = 0 /\ ParamCount > cur.y))
     /\ AnsiDown => cur'.x = cur.x /\ (cur'.y = cur.y + ParamCount \/ (cur'.y = H - 1 /\ cur.y + ParamCount >= H))
     /\ AnsiRight => cur'.y = cur.y /\ (cur'.x = cur.x + ParamCount \/ (cur'.x = W - 1 /\ cur.x + ParamCount >= W))
     /\ AnsiLeft => cur'.y = cur.y /\ (cur'.x = cur.x - ParamCount \/ (cur'.x = 0 /\ ParamCount > cur.x))]_conVars

(* A sequence is carried out with its own parameters and does to the       *)
(* screen and the cursor what it says (cpm_putch).                         *)
ScreenExact == []ParamsExact /\ EraseExact /\ ScrollExact /\ MoveExact
=============================================================================
