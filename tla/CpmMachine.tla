----------------------------- MODULE CpmMachine -----------------------------
(***************************************************************************)
(* main() of cpm.c, the CP/M emulator, from its options to its exit code:  *)
(* the loop around the interpreter em180(), the BDOS and BIOS calls that   *)
(* read the console or end the program, and the Ctrl-C handler, which      *)
(* Windows runs on a thread of its own.                                    *)
(*                                                                         *)
(* The interpreter has the program counter in a register: em180() loads it *)
(* from reg.x.pc when it is entered and stores it when a call leaves it,   *)
(* so what the handler writes there counts only in between.  What a call   *)
(* does to files and devices is CpmFiles, CpmDrives and CpmDevices; here   *)
(* such a call is "quick".                                                 *)
(***************************************************************************)
EXTENDS Integers, Sequences

CONSTANTS
  EofCount, \* eofcount at first (16)
  Options,  \* command lines: sequences of option letters
  Inputs,   \* contents of a redirected standard input
  Keys,     \* characters the keyboard gives
  Codes     \* words a program leaves at 80H

ASSUME MachineAssumption ==
  /\ EofCount \in Nat \ {0} /\ Keys \subseteq 0..255 /\ Codes \subseteq Nat
  /\ Options \subseteq Seq(STRING)

VARIABLES
  letters, \* the option letters of the command line
  read,    \* how many of them main() has read
  opt,     \* retcode_flag and pause_flag
  conin,   \* is the standard input the console?
  ccp,     \* has the program put a jump of its own at address 0, as RCCP does?
  input,   \* what is left of a redirected input
  eofcount,
  pc,      \* reg.x.pc in memory: the program's, or 0
  at,      \* who runs: "z80", or a place in main()
  event,   \* is there a Ctrl-C whose handler has not run yet?
  submit,  \* abort_submit
  word80,  \* the word at 80H
  exit,    \* the exit code, and what ended the program
  eofs,    \* history: characters 1AH given for the end of the input
  kept     \* history: has a handler run since the last call began?

vars == <<letters, read, opt, conin, ccp, input, eofcount, pc, at, event, submit, word80, exit, eofs, kept>>

Reads == {"getch", "getche", "direct", "gets"}
Calls == Reads \cup {"quick", "const", "delete", "boot", "bdos0"}
Running == {"z80", "top"}
InCall == Calls \cup {"leaving", "pause"}

Newline == 10
CtrlC == 3
Space == 32
CtrlZ == 26

Init ==
  /\ letters \in Options /\ read = 0 /\ opt = [ret |-> "none", pause |-> FALSE]
  /\ conin \in BOOLEAN /\ ccp \in BOOLEAN
  /\ input \in IF conin THEN {<<>>} ELSE Inputs
  /\ eofcount = EofCount /\ pc = "next" /\ at = "options" /\ event = FALSE
  /\ submit = FALSE /\ word80 = 0
  /\ exit = [code |-> 0, why |-> "none"] /\ eofs = 0 /\ kept = FALSE

Ends(code, why) == at' = "exited" /\ exit' = [code |-> code, why |-> why]
GoesTo(place) == at' = place /\ UNCHANGED exit

(***************************************************************************)
(* Start.                                                                  *)
(***************************************************************************)
Option ==
  /\ at = "options" /\ read < Len(letters)
  /\ read' = read + 1
  /\ \/ letters[read'] = "h" /\ opt' = [opt EXCEPT !.ret = "hitech"] /\ GoesTo(at)
     \/ letters[read'] = "x" /\ opt' = [opt EXCEPT !.ret = "bdsc"] /\ GoesTo(at)
     \/ letters[read'] = "p" /\ opt' = [opt EXCEPT !.pause = TRUE] /\ GoesTo(at)
     \/ letters[read'] \notin {"h", "x", "p"} /\ UNCHANGED opt /\ Ends(1, "help")
  /\ UNCHANGED <<letters, conin, ccp, input, eofcount, pc, event, submit, word80, eofs, kept>>

(* The program is loaded, or it is not found, or none is named.            *)
Load ==
  /\ at = "options" /\ read = Len(letters)
  /\ GoesTo("setup") \/ Ends(-1, "notfound") \/ Ends(1, "help")
  /\ UNCHANGED <<letters, read, opt, conin, ccp, input, eofcount, pc, event, submit, word80, eofs, kept>>

(* cpm_conio_setup() installs the handler, then reg.x.pc is set to 100H.   *)
SetUp ==
  /\ at = "setup"
  /\ pc' = "next" /\ GoesTo("z80")
  /\ UNCHANGED <<letters, read, opt, conin, ccp, input, eofcount, event, submit, word80, eofs, kept>>

(***************************************************************************)
(* The Z80 program.                                                        *)
(***************************************************************************)
Store ==
  /\ at \in Running
  /\ word80' \in Codes /\ GoesTo("z80")
  /\ UNCHANGED <<letters, read, opt, conin, ccp, input, eofcount, pc, event, submit, eofs, kept>>

(* CALLN: the interpreter stores its program counter and returns.          *)
Call(c) ==
  /\ at \in Running
  /\ pc' = "next" /\ GoesTo(c)
  /\ UNCHANGED <<letters, read, opt, conin, ccp, input, eofcount, event, submit, word80, eofs, kept>>

(* HALT, an illegal instruction, IN, OUT, or a BIOS call past 7.           *)
Crash ==
  /\ at \in Running
  /\ Ends(-1, "error")
  /\ UNCHANGED <<letters, read, opt, conin, ccp, input, eofcount, pc, event, submit, word80, eofs, kept>>

(***************************************************************************)
(* The calls.                                                              *)
(***************************************************************************)
Same == UNCHANGED <<letters, read, opt, conin, ccp, pc, word80, kept>>

(* cpm_const() answers at once; so do the calls modelled elsewhere.        *)
Quick ==
  /\ at \in {"quick", "const"}
  /\ GoesTo("leaving")
  /\ Same /\ UNCHANGED <<input, eofcount, event, submit, eofs>>

(* Deleting A:$$$.SUB is remembered for option -x.                         *)
Delete ==
  /\ at = "delete"
  /\ submit' = TRUE /\ GoesTo("leaving")
  /\ Same /\ UNCHANGED <<input, eofcount, event, eofs>>

ExitCode ==
  CASE opt.ret = "hitech" -> word80
    [] opt.ret = "bdsc" /\ submit -> 2
    [] OTHER -> 0

(* The call has the character c; the pause ends with a control character.  *)
Got(c) ==
  \/ at # "pause" /\ GoesTo("leaving")
  \/ at = "pause" /\ c >= Space /\ GoesTo("pause")
  \/ at = "pause" /\ c < Space /\ Ends(ExitCode, "boot")

(* The input is at its end: 1AH, or the end of the emulator.               *)
EofAnswer ==
  /\ eofcount' = eofcount - 1
  /\ \/ eofcount - 1 = 0 /\ Ends(0, "eof") /\ UNCHANGED eofs
     \/ eofcount - 1 # 0 /\ Got(CtrlZ) /\ eofs' = eofs + 1

(* cpm_getch() at the keyboard, in raw mode, waits for a key; cpm_getche() *)
(* makes an event of ^C.  BDOS 6 asks cpm_const() first.                   *)
GetKey ==
  /\ conin /\ at \in {"getch", "getche", "direct", "pause"}
  /\ \/ \E c \in Keys : Got(c) /\ event' = (event \/ (at = "getche" /\ c = CtrlC))
     \/ at = "direct" /\ GoesTo("leaving") /\ UNCHANGED event
  /\ Same /\ UNCHANGED <<input, eofcount, submit, eofs>>

(* cpm_getch() from a file, which cpm_const() always finds ready.          *)
GetChar ==
  /\ ~conin /\ at \in {"getch", "getche", "direct", "pause"}
  /\ \/ /\ input # <<>>
        /\ Got(Head(input)) /\ input' = Tail(input) /\ UNCHANGED <<eofcount, eofs>>
     \/ input = <<>> /\ EofAnswer /\ UNCHANGED input
  /\ Same /\ UNCHANGED <<event, submit>>

(* What fgets() of n takes: up to a newline, n - 1 characters or the end.  *)
Line(n) ==
  CHOOSE k \in 0..Len(input) :
    /\ k < n /\ \A j \in 1..k - 1 : input[j] # Newline
    /\ k = n - 1 \/ k = Len(input) \/ (k > 0 /\ input[k] = Newline)

(* Mutant: the line input does not count.                                  *)
GetLine_Uncounted(n) ==
  /\ ~conin /\ at = "gets"
  /\ \/ /\ input # <<>> \/ n = 1
        /\ input' = SubSeq(input, Line(n) + 1, Len(input))
        /\ GoesTo("leaving") /\ UNCHANGED <<eofcount, eofs>>
     \/ /\ input = <<>> /\ n > 1 /\ GoesTo("leaving")
        /\ eofs' = eofs + 1 /\ UNCHANGED <<input, eofcount>>
  /\ Same /\ UNCHANGED <<event, submit>>

(* BDOS 10 from a file, with n in the buffer's first byte.                 *)
GetLine(n) ==
  /\ ~conin /\ at = "gets"
  /\ \/ /\ input # <<>> \/ n = 1
        /\ input' = SubSeq(input, Line(n) + 1, Len(input))
        /\ GoesTo("leaving") /\ UNCHANGED <<eofcount, eofs>>
     \/ input = <<>> /\ n > 1 /\ EofAnswer /\ UNCHANGED input
  /\ Same /\ UNCHANGED <<event, submit>>

(* BDOS 10 at the keyboard: a line; or ^C, which raises the event and      *)
(* makes fgets() see the end of the file.                                  *)
TypeLine ==
  /\ conin /\ at = "gets"
  /\ \/ GoesTo("leaving") /\ UNCHANGED <<event, eofcount, eofs>>
     \/ event' = TRUE /\ EofAnswer
  /\ Same /\ UNCHANGED <<input, submit>>

(* BDOS 0.                                                                 *)
Bdos0 ==
  /\ at = "bdos0" /\ Ends(0, "bdos0")
  /\ Same /\ UNCHANGED <<input, eofcount, event, submit, eofs>>

(* BIOS 0 and 1.                                                           *)
Boot ==
  /\ at = "boot"
  /\ \/ opt.pause /\ GoesTo("pause")
     \/ ~opt.pause /\ Ends(ExitCode, "boot")
  /\ Same /\ UNCHANGED <<input, eofcount, event, submit, eofs>>

(* Mutant: the interpreter goes on where it left.                          *)
Resume_Cached ==
  /\ at = "leaving" /\ GoesTo("z80")
  /\ kept' = FALSE
  /\ UNCHANGED <<letters, read, opt, conin, ccp, input, eofcount, pc, event, submit, word80, eofs>>

(* em180() is entered again and loads reg.x.pc.  At address 0 is a jump to *)
(* BIOS 1, or the program's own.                                           *)
Resume ==
  /\ at = "leaving"
  /\ \/ pc = "next" /\ GoesTo("z80")
     \/ pc = "zero" /\ ccp /\ GoesTo("top")
     \/ pc = "zero" /\ ~ccp /\ GoesTo("boot")
  /\ kept' = FALSE
  /\ UNCHANGED <<letters, read, opt, conin, ccp, input, eofcount, pc, event, submit, word80, eofs>>

(***************************************************************************)
(* Ctrl-C.                                                                 *)
(***************************************************************************)

(* The user presses it; in raw mode it is a character like others.         *)
Press ==
  /\ at \in {"setup"} \cup Running \cup InCall /\ ~event
  /\ conin => at \notin {"getch", "getche", "direct", "gets", "pause"}
  /\ event' = TRUE
  /\ UNCHANGED <<letters, read, opt, conin, ccp, input, eofcount, pc, at, submit, word80, exit, eofs, kept>>

(* Mutant: a handler that runs while the program reads is ignored.         *)
Handler_NotReading ==
  /\ event /\ at \in {"setup"} \cup Running \cup InCall
  /\ event' = FALSE
  /\ pc' = IF at \in Reads THEN pc ELSE "zero"
  /\ kept' = (kept \/ at \in InCall)
  /\ UNCHANGED <<letters, read, opt, conin, ccp, input, eofcount, at, submit, word80, exit, eofs>>

(* console_event_hander(), on its own thread.                              *)
Handler ==
  /\ event /\ at \in {"setup"} \cup Running \cup InCall
  /\ event' = FALSE
  /\ pc' = "zero"
  /\ kept' = (kept \/ at \in InCall)
  /\ UNCHANGED <<letters, read, opt, conin, ccp, input, eofcount, at, submit, word80, exit, eofs>>

HostStep ==
  \/ Quick \/ Delete \/ GetChar \/ (\E n \in 1..3 : GetLine(n))
  \/ Bdos0 \/ Boot \/ Resume

Next ==
  \/ Option \/ Load \/ SetUp
  \/ Store \/ (\E c \in Calls : Call(c)) \/ Crash
  \/ HostStep \/ GetKey \/ TypeLine
  \/ Press \/ Handler

(* The emulator's own steps and the handler's thread are run; keys need    *)
(* not be pressed, and the program need not call.                          *)
Spec == Init /\ [][Next]_vars /\ WF_vars(HostStep) /\ WF_vars(Handler)

-----------------------------------------------------------------------------
(***************************************************************************)
(* Properties                                                              *)
(***************************************************************************)

(* Of the first n option letters, is l there with no rival after it?       *)
LastAsked(l, rival, n) ==
  \E i \in 1..n : letters[i] = l /\ \A j \in i + 1..n : letters[j] # rival

(* The exit code the command line asks for: the last of -h and -x counts.  *)
Wanted ==
  CASE LastAsked("h", "x", Len(letters)) -> word80
    [] LastAsked("x", "h", Len(letters)) /\ submit -> 2
    [] OTHER -> 0

(* A program is given 1AH at most EofCount - 1 times, however it reads and *)
(* whatever Ctrl-C adds, and the emulator ends for want of input only      *)
(* then; after a warm boot the exit code is the one the options ask for    *)
(* (cpm_getch, cpm_gets, main).                                            *)
ExitExact ==
  /\ eofs < EofCount
  /\ exit.why = "eof" => eofs = EofCount - 1
  /\ exit.why = "boot" => exit.code = Wanted

(* A Ctrl-C whose handler runs during a call is not lost: the code that    *)
(* made the call is not resumed (console_event_hander, main).              *)
CtrlCKept == [][kept => at' # "z80"]_vars

(* And, unless the call waits for the keyboard, it takes effect: the       *)
(* program starts again at address 0 or the emulator ends.                 *)
Waiting == conin /\ at \in {"getch", "getche", "direct", "gets", "pause"}
CtrlCEnds == kept ~> (at \in {"exited", "top"} \/ Waiting)
=============================================================================
