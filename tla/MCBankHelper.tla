---------------------------- MODULE MCBankHelper ----------------------------
EXTENDS BankHelper

CONSTANTS b0, b1, b2

(* The application installs its handlers in these banks.                   *)
HandlersTwo ==
  [s \in Source |-> CASE s \in {"HBLK", "VBLK"} -> {b1}
                      [] OTHER -> {}]

HandlersTail ==
  [s \in Source |-> CASE s = "SPRT" -> {b1}
                      [] s = "EXT2" -> {b0}
                      [] OTHER -> {}]

HandlersOne ==
  [s \in Source |-> IF s = "VBLK" THEN {b1} ELSE {}]
=============================================================================
