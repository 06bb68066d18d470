------------------------------ MODULE CpmKeys -------------------------------
(***************************************************************************)
(* Keys and their codes in cpm.c.  getch() reads console events until a    *)
(* key has a character, or is a key of the cursor block or a function key, *)
(* which become 0 now and a code (kept in keybuf) at the next call;        *)
(* cpm_getch() makes control characters of twelve of these codes.  A key   *)
(* is its virtual key code, its scan code and its character, if any.       *)
(***************************************************************************)
EXTENDS Integers

CONSTANT Others \* keys without a code: [vk, scan, char], and character keys

ASSUME KeysAssumption ==
  /\ Others \subseteq [vk : Nat, scan : Nat, char : Nat]
  /\ \A k \in Others : k.char # 0 \/ k.vk \notin 33..46 \cup 112..123

VARIABLES
  key,    \* the event: a key going down, with a modifier
  keybuf, \* what the next getch() returns
  c,      \* the character cpm_getch() gives
  keyStage   \* "first", "second", "done"

keyVars == <<key, keybuf, c, keyStage>>

Modifiers == {"none", "shift", "ctrl", "alt"}

(* The keyboard: virtual key code and scan code.                           *)
Block == {<<33, 73>>, <<34, 81>>, <<35, 79>>, <<36, 71>>, <<37, 75>>, <<38, 72>>,
          <<39, 77>>, <<40, 80>>, <<45, 82>>, <<46, 83>>}
Function == {<<111 + n, 58 + n>> : n \in 1..10} \cup {<<122, 87>>, <<123, 88>>}
Keyboard == {[vk |-> k[1], scan |-> k[2], char |-> 0] : k \in Block \cup Function} \cup Others

(* ctltbl[]: what Ctrl adds to the scan code of a key from 33 up.          *)
CtlTbl == [k \in 33..46 |->
  CASE k = 33 -> 132 - 73 [] k = 34 -> 118 - 81 [] k = 35 -> 117 - 79 [] k = 36 -> 119 - 71
    [] k = 37 -> 115 - 75 [] k = 38 -> 141 - 72 [] k = 39 -> 116 - 77 [] k = 40 -> 145 - 80
    [] k = 45 -> 146 - 82 [] k = 46 -> 147 - 83 [] OTHER -> 0]

KeyInit ==
  /\ \E k \in Keyboard, m \in Modifiers : key = [k |-> k, mod |-> m]
  /\ keybuf = 0 /\ c = 0 /\ keyStage = "first"

(* Mutant: Ctrl adds nothing.                                              *)
BlockCode_NoCtrl(s, vk, m) ==
  CASE m = "alt" -> s + 80 [] OTHER -> s

(* The code of a key of the block, and of a function key.                  *)
BlockCode(s, vk, m) ==
  CASE m = "alt" -> s + 80 [] m = "ctrl" -> s + (CtlTbl[vk] % 256) [] OTHER -> s

FunctionCode(s, vk, m) ==
  LET b == IF vk < 122 THEN 25 ELSE 2
      f == IF vk < 122 THEN 10 ELSE 2
      t == IF vk >= 122 THEN s + (133 - 87) ELSE s
  IN CASE m = "alt" -> t + b + f + f [] m = "ctrl" -> t + b + f
       [] m = "shift" -> t + b [] OTHER -> t

(* getch() reads the event.                                                *)
GetchFirst ==
  /\ keyStage = "first"
  /\ LET k == key.k IN
     \/ k.char # 0 /\ c' = k.char /\ keyStage' = "done" /\ UNCHANGED keybuf
     \/ /\ k.char = 0 /\ k.vk \in 33..46
        /\ keybuf' = BlockCode(k.scan, k.vk, key.mod) /\ keyStage' = "second" /\ c' = 0
     \/ /\ k.char = 0 /\ k.vk \in 112..123
        /\ keybuf' = FunctionCode(k.scan, k.vk, key.mod) /\ keyStage' = "second" /\ c' = 0
     \/ /\ k.char = 0 /\ k.vk \notin 33..46 \cup 112..123
        /\ keyStage' = "ignored" /\ UNCHANGED <<c, keybuf>>
  /\ UNCHANGED key

Ctrl(n) == n - 64

(* The switch in cpm_getch().                                              *)
Translated(code) ==
  CASE code = 72 -> Ctrl(69) [] code = 80 -> Ctrl(88) [] code = 75 -> Ctrl(83)
    [] code = 77 -> Ctrl(68) [] code = 82 -> Ctrl(86) [] code = 83 -> 127
    [] code = 73 -> Ctrl(82) [] code = 81 -> Ctrl(67) [] code = 141 -> Ctrl(87)
    [] code = 145 -> Ctrl(90) [] code = 115 -> Ctrl(65) [] code = 116 -> Ctrl(70)
    [] OTHER -> 0

(* getch() again gives the low byte of keybuf.                             *)
GetchSecond ==
  /\ keyStage = "second"
  /\ c' = Translated(keybuf % 256)
  /\ keybuf' = keybuf \div 256
  /\ keyStage' = "done"
  /\ UNCHANGED key

KeyNext == GetchFirst \/ GetchSecond

KeySpec == KeyInit /\ [][KeyNext]_keyVars

-----------------------------------------------------------------------------
(* The manual's table: a cursor key, alone or with Shift or Ctrl, and the  *)
(* control character it is to give; other keys of the block and the        *)
(* function keys give 0.                                                   *)
Manual(vk, m) ==
  CASE m = "ctrl" /\ vk = 38 -> 23 [] m = "ctrl" /\ vk = 40 -> 26
    [] m = "ctrl" /\ vk = 37 -> 1 [] m = "ctrl" /\ vk = 39 -> 6
    [] m \in {"none", "shift"} /\ vk = 38 -> 5 [] m \in {"none", "shift"} /\ vk = 40 -> 24
    [] m \in {"none", "shift"} /\ vk = 37 -> 19 [] m \in {"none", "shift"} /\ vk = 39 -> 4
    [] m \in {"none", "shift"} /\ vk = 45 -> 22 [] m \in {"none", "shift"} /\ vk = 46 -> 127
    [] m \in {"none", "shift"} /\ vk = 33 -> 18 [] m \in {"none", "shift"} /\ vk = 34 -> 3
    [] OTHER -> 0

(* Of all keys with all modifiers exactly those in the manual's table give *)
(* control characters, although the scan codes of cursor and function keys *)
(* are moved into one another's ranges, and no code is left over for the   *)
(* next call (getch, cpm_getch).                                           *)
KeysExact ==
  /\ keyStage = "done" => c = IF key.k.char # 0 THEN key.k.char ELSE Manual(key.k.vk, key.mod)
  /\ keyStage = "done" => keybuf = 0
=============================================================================
