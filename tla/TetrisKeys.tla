----------------------------- MODULE TetrisKeys -----------------------------
(***************************************************************************)
(* The keys of EXAMPLE/0TETRIS.ROM/MAIN.C: key_req_clear() and             *)
(* key_req_update(), once in every pass of the game's loop, turn the keys  *)
(* held down into requests.                                                *)
(***************************************************************************)
EXTENDS Naturals

CONSTANTS
  RptDelay, \* KEY_RPT_DELAY: passes before a key repeats (15)
  RptMax,   \* KEY_RPT_MAX: the count stops here (90)
  MaxHeld   \* bound: passes a key is counted as held

ASSUME KeysAssumption ==
  /\ RptDelay \in Nat /\ RptMax \in Nat /\ RptMax > RptDelay /\ RptMax <= 255
  /\ MaxHeld \in Nat /\ MaxHeld > RptDelay + 1

VARIABLES
  keyTime, \* key_left_time, key_right_time
  keyLast, \* key_up_last, key_space_last
  keyReq,  \* the requests set
  held     \* history: for how many passes each key is down

tkeyVars == <<keyTime, keyLast, keyReq, held>>

Repeating == {"left", "right"}
Once == {"up", "space"}
GameKeys == Repeating \cup Once \cup {"down"}

(* key_req_init().                                                         *)
TkeyInit ==
  /\ keyTime = [k \in Repeating |-> 0] /\ keyLast = [k \in Once |-> FALSE]
  /\ keyReq = {} /\ held = [k \in GameKeys |-> 0]

(* Mutant: a key that repeats stops at the highest count.                  *)
Due_Stops(k) == keyTime[k] = 0 \/ (keyTime[k] > RptDelay /\ keyTime[k] < RptMax)

Due(k) == keyTime[k] = 0 \/ keyTime[k] > RptDelay

KeyUpdate(pressed) ==
  /\ keyReq' = {k \in pressed : k \in Repeating => Due(k)} \ {k \in Once : keyLast[k]}
  /\ keyTime' = [k \in Repeating |->
       IF k \notin pressed THEN 0 ELSE IF keyTime[k] < RptMax THEN keyTime[k] + 1 ELSE keyTime[k]]
  /\ keyLast' = [k \in Once |-> k \in pressed]
  /\ held' = [k \in GameKeys |->
       IF k \notin pressed THEN 0 ELSE IF held[k] < MaxHeld THEN held[k] + 1 ELSE held[k]]

TkeyNext == \E pressed \in SUBSET GameKeys : KeyUpdate(pressed)

TkeySpec == TkeyInit /\ [][TkeyNext]_tkeyVars

(* However long keys are held and in whatever combination: a direction is  *)
(* requested when its key goes down, then not for the delay, then in every *)
(* pass until it is released, without the byte that counts running over; a *)
(* turn or a drop once for each press; down in every pass.                 *)
KeysRepeat ==
  keyReq = {k \in GameKeys :
    /\ held[k] > 0
    /\ k \in Repeating => held[k] = 1 \/ held[k] > RptDelay + 1
    /\ k \in Once => held[k] = 1}
=============================================================================
