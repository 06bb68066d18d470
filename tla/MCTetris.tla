------------------------------ MODULE MCTetris ------------------------------
(***************************************************************************)
(* The game: the block in play, the keys, and what is on the screen.  A    *)
(* behaviour runs one of them; the play is fair.                           *)
(***************************************************************************)
EXTENDS Tetris, TetrisKeys, TetrisScreen

VARIABLE part \* the part of this behaviour

(* Slow enough for the keys to accelerate at level 1, not at level 2.      *)
SmallSteps == <<3, 5>>

GameInit ==
  /\ part \in {"play", "keys", "screen"}
  /\ Init /\ (part # "play" => blk.type = 0)
  /\ TkeyInit
  /\ ScrInit

Play == part = "play" /\ Next /\ UNCHANGED <<part, tkeyVars, scrVars>>

GameNext ==
  \/ Play
  \/ part = "keys" /\ TkeyNext /\ UNCHANGED <<part, vars, scrVars>>
  \/ part = "screen" /\ ScrNext /\ UNCHANGED <<part, vars, tkeyVars>>

GameSpec ==
  /\ GameInit /\ [][GameNext]_<<part, vars, tkeyVars, scrVars>>
  /\ WF_vars(Play)

(* Every block of a game lands in the end, whatever keys are held          *)
(* (game_loop; see BlocksLand).                                            *)
PlayLands == part = "play" => BlocksLand
=============================================================================
