-------------------------- MODULE CpmMachineProofs --------------------------
(***************************************************************************)
(* Proofs about CpmMachine for every command line, input, key and number   *)
(* of end-of-file answers; about CpmDrives, CpmDevices and CpmConsole for  *)
(* every set of host folders, of files for the devices and of characters,  *)
(* and every size of the console.                                          *)
(***************************************************************************)
EXTENDS CpmMachine, CpmConsole, CpmDevices, CpmDrives, SequenceTheorems, TLAPS

(* How far main() is with the options, and what they have set.             *)
OptionsOK ==
  /\ letters \in Seq(STRING) /\ read \in 0..Len(letters)
  /\ opt \in [ret : {"none", "hitech", "bdsc"}, pause : BOOLEAN]
  /\ opt.ret = "hitech" <=> LastAsked("h", "x", read)
  /\ opt.ret = "bdsc" <=> LastAsked("x", "h", read)
  /\ at \notin {"options", "exited"} => read = Len(letters)

(* Every end of the input is answered or ends the emulator.                *)
BudgetOK ==
  /\ eofcount \in Nat /\ eofs \in Nat
  /\ at # "exited" => exit.why = "none" /\ eofcount > 0
  /\ exit.why # "eof" => eofs + eofcount = EofCount /\ eofcount > 0
  /\ exit.why = "eof" => eofs = EofCount - 1
  /\ exit.why = "boot" => exit.code = Wanted

(* Between a handler that runs in a call and the end of that call, the     *)
(* program counter in memory is 0.                                         *)
KeptOK == kept => pc = "zero" /\ at \in InCall \cup {"exited"}

IInv == OptionsOK /\ BudgetOK /\ KeptOK

LEMMA InitInv == Init => IInv
  BY MachineAssumption DEF Init, IInv, OptionsOK, BudgetOK, KeptOK, LastAsked

(* The exit code main() computes is the one the command line asks for.     *)
LEMMA CodeWanted ==
  ASSUME OptionsOK, at \notin {"options", "exited"}
  PROVE  ExitCode = Wanted
<1>1. opt.ret = "hitech" <=> LastAsked("h", "x", Len(letters))
  BY DEF OptionsOK
<1>2. opt.ret = "bdsc" <=> LastAsked("x", "h", Len(letters))
  BY DEF OptionsOK
<1>3. CASE opt.ret = "hitech"
  BY <1>1, <1>2, <1>3, "hitech" # "bdsc", Zenon DEF ExitCode, Wanted
<1>4. CASE opt.ret = "bdsc"
  BY <1>1, <1>2, <1>4, Zenon DEF ExitCode, Wanted
<1>5. CASE opt.ret \notin {"hitech", "bdsc"}
  BY <1>1, <1>2, <1>5, Zenon DEF ExitCode, Wanted
<1> QED
  BY <1>3, <1>4, <1>5

LEMMA OptionInv ==
  ASSUME IInv, Option
  PROVE  IInv'
<1>1. letters' = letters /\ read' = read + 1 /\ read' \in 0..Len(letters)
  BY DEF IInv, OptionsOK, Option
<1>2. opt' \in [ret : {"none", "hitech", "bdsc"}, pause : BOOLEAN]
  BY DEF IInv, OptionsOK, Option
<1>3. LastAsked("h", "x", read)' <=>
        letters[read'] = "h" \/ (LastAsked("h", "x", read) /\ letters[read'] # "x")
  BY <1>1 DEF LastAsked, IInv, OptionsOK
<1>4. LastAsked("x", "h", read)' <=>
        letters[read'] = "x" \/ (LastAsked("x", "h", read) /\ letters[read'] # "h")
  BY <1>1 DEF LastAsked, IInv, OptionsOK
<1>5. /\ opt'.ret = "hitech" <=>
           letters[read'] = "h" \/ (opt.ret = "hitech" /\ letters[read'] # "x")
      /\ opt'.ret = "bdsc" <=>
           letters[read'] = "x" \/ (opt.ret = "bdsc" /\ letters[read'] # "h")
  BY DEF IInv, OptionsOK, Option
<1>6. at' \in {"options", "exited"}
  BY DEF Option, GoesTo, Ends
<1>7. OptionsOK'
  BY <1>1, <1>2, <1>3, <1>4, <1>5, <1>6 DEF IInv, OptionsOK
<1>8. BudgetOK'
  BY MachineAssumption DEF IInv, BudgetOK, Option, GoesTo, Ends
<1>9. KeptOK'
  BY DEF IInv, KeptOK, Option, InCall, Calls, Reads
<1> QED
  BY <1>7, <1>8, <1>9 DEF IInv

(* Every other step leaves the options alone.                              *)
LEMMA KeepOptions ==
  ASSUME OptionsOK, UNCHANGED <<letters, read, opt>>,
         at = "options" => read = Len(letters) \/ at' = "options",
         at = "exited" => at' = "exited"
  PROVE  OptionsOK'
  BY DEF OptionsOK, LastAsked

LEMMA OthersOptions ==
  ASSUME OptionsOK, Next, ~Option
  PROVE  OptionsOK'
<1>1. UNCHANGED <<letters, read, opt>>
  BY DEF Next, Load, SetUp, Store, Call, Crash, HostStep, Quick, Delete, GetChar, GetLine,
     Bdos0, Boot, Resume, GetKey, TypeLine, Press, Handler, Same
<1>2. at # "exited"
  BY DEF Next, Load, SetUp, Store, Call, Crash, HostStep, Quick, Delete, GetChar, GetLine,
     Bdos0, Boot, Resume, GetKey, TypeLine, Press, Handler, Running, InCall, Calls, Reads
<1>3. at = "options" => read = Len(letters)
  BY DEF Next, Load, SetUp, Store, Call, Crash, HostStep, Quick, Delete, GetChar, GetLine,
     Bdos0, Boot, Resume, GetKey, TypeLine, Press, Handler, Running, InCall, Calls, Reads
<1> QED
  BY <1>1, <1>2, <1>3, KeepOptions

LEMMA GotPlaces ==
  ASSUME NEW c, Got(c), at \in InCall \ {"leaving"}
  PROVE  /\ at' \in {"leaving", "pause", "exited"}
         /\ at' = "exited" => exit' = [code |-> ExitCode, why |-> "boot"]
         /\ at' # "exited" => exit' = exit
  BY DEF Got, GoesTo, Ends

(* What an answer 1AH, or the end for want of input, does.                 *)
LEMMA EofBudget ==
  ASSUME IInv, EofAnswer, at \in InCall \ {"leaving"},
         UNCHANGED <<letters, read, opt, pc, word80, kept>>, UNCHANGED submit
  PROVE  BudgetOK' /\ KeptOK'
<1>1. ExitCode = Wanted /\ Wanted' = Wanted
  BY CodeWanted DEF IInv, InCall, Calls, Reads, Wanted, LastAsked
<1>2. CASE eofcount - 1 = 0 /\ Ends(0, "eof") /\ UNCHANGED eofs /\ eofcount' = eofcount - 1
  BY <1>2, MachineAssumption DEF IInv, BudgetOK, KeptOK, Ends, InCall, Calls, Reads
<1>3. CASE eofcount - 1 # 0 /\ Got(CtrlZ) /\ eofs' = eofs + 1 /\ eofcount' = eofcount - 1
  <2>1. /\ at' \in {"leaving", "pause", "exited"}
        /\ at' = "exited" => exit' = [code |-> ExitCode, why |-> "boot"]
        /\ at' # "exited" => exit' = exit
    BY <1>3, GotPlaces
  <2> QED
    BY <1>1, <1>3, <2>1, MachineAssumption DEF IInv, BudgetOK, KeptOK, InCall, Calls, Reads
<1> QED
  BY <1>2, <1>3 DEF EofAnswer

(* A step that takes no end of the input: it goes on, or ends the program  *)
(* with a code of its own or the one asked for.                            *)
LEMMA KeepBudget ==
  ASSUME IInv, at # "exited", UNCHANGED <<eofcount, eofs>>,
         \/ at' # "exited" /\ UNCHANGED exit
         \/ Ends(1, "help") \/ Ends(-1, "notfound") \/ Ends(-1, "error") \/ Ends(0, "bdos0")
         \/ at # "options" /\ Ends(ExitCode, "boot") /\ UNCHANGED <<letters, submit, word80>>
  PROVE  BudgetOK'
<1>1. CASE at # "options" /\ Ends(ExitCode, "boot") /\ UNCHANGED <<letters, submit, word80>>
  <2>1. ExitCode = Wanted /\ Wanted' = Wanted
    BY <1>1, CodeWanted DEF IInv, Wanted, LastAsked
  <2> QED
    BY <1>1, <2>1 DEF IInv, BudgetOK, Ends
<1>2. CASE \/ at' # "exited" /\ UNCHANGED exit
           \/ Ends(1, "help") \/ Ends(-1, "notfound") \/ Ends(-1, "error") \/ Ends(0, "bdos0")
  BY <1>2 DEF IInv, BudgetOK, Ends
<1> QED
  BY <1>1, <1>2

LEMMA StepBudget ==
  ASSUME IInv, Next, ~Option
  PROVE  BudgetOK' /\ KeptOK'
<1> USE DEF GoesTo
<1>1. CASE Load
  BY <1>1, KeepBudget DEF Load, Ends, KeptOK, IInv, InCall, Calls, Reads
<1>2. CASE SetUp
  BY <1>2, KeepBudget DEF SetUp, KeptOK, IInv, InCall, Calls, Reads
<1>3. CASE Store
  BY <1>3, KeepBudget DEF Store, Running, KeptOK, IInv, InCall, Calls, Reads
<1>4. ASSUME NEW c \in Calls, Call(c) PROVE BudgetOK' /\ KeptOK'
  BY <1>4, KeepBudget DEF Call, Running, KeptOK, IInv, InCall, Calls, Reads
<1>5. CASE Crash
  BY <1>5, KeepBudget DEF Crash, Running, Ends, KeptOK, IInv, InCall, Calls, Reads
<1>6. CASE Quick
  BY <1>6, KeepBudget DEF Quick, Same, KeptOK, IInv, InCall, Calls, Reads
<1>7. CASE Delete
  BY <1>7, KeepBudget DEF Delete, Same, KeptOK, IInv, InCall, Calls, Reads
<1>8. CASE GetChar
  <2>1. at \in InCall \ {"leaving"} /\ UNCHANGED <<letters, read, opt, pc, word80, kept, submit>>
    BY <1>8 DEF GetChar, InCall, Calls, Reads, Same
  <2>2. CASE EofAnswer
    BY <2>1, <2>2, EofBudget
  <2>3. CASE Got(Head(input)) /\ UNCHANGED <<eofcount, eofs>>
    <3>1. /\ at' \in {"leaving", "pause", "exited"}
          /\ at' = "exited" => Ends(ExitCode, "boot")
          /\ at' # "exited" => exit' = exit
      BY <2>1, <2>3, GotPlaces DEF Ends
    <3> QED
      BY <2>1, <2>3, <3>1, KeepBudget DEF KeptOK, IInv, InCall, Calls, Reads
  <2> QED
    BY <1>8, <2>2, <2>3 DEF GetChar
<1>9. ASSUME NEW n \in 1..3, GetLine(n) PROVE BudgetOK' /\ KeptOK'
  <2>1. at \in InCall \ {"leaving"} /\ UNCHANGED <<letters, read, opt, pc, word80, kept, submit>>
    BY <1>9 DEF GetLine, InCall, Calls, Reads, Same
  <2>2. CASE EofAnswer
    BY <2>1, <2>2, EofBudget
  <2>3. CASE at' = "leaving" /\ UNCHANGED <<exit, eofcount, eofs>>
    BY <2>1, <2>3, KeepBudget DEF KeptOK, IInv, InCall, Calls, Reads
  <2> QED
    BY <1>9, <2>2, <2>3 DEF GetLine
<1>10. CASE Bdos0
  BY <1>10, KeepBudget DEF Bdos0, Same, Ends, KeptOK, IInv, InCall, Calls, Reads
<1>11. CASE Boot
  BY <1>11, KeepBudget DEF Boot, Same, Ends, KeptOK, IInv, InCall, Calls, Reads
<1>12. CASE Resume
  BY <1>12, KeepBudget DEF Resume, KeptOK, IInv, InCall, Calls, Reads
<1>13. CASE GetKey
  <2>1. /\ at \in InCall \ {"leaving"}
        /\ UNCHANGED <<letters, read, opt, pc, word80, kept, submit, eofcount, eofs>>
    BY <1>13 DEF GetKey, InCall, Calls, Reads, Same
  <2>2. /\ at' \in {"leaving", "pause", "exited"}
        /\ at' = "exited" => Ends(ExitCode, "boot")
        /\ at' # "exited" => exit' = exit
    BY <1>13, <2>1, GotPlaces DEF GetKey, Ends
  <2> QED
    BY <2>1, <2>2, KeepBudget DEF KeptOK, IInv, InCall, Calls, Reads
<1>14. CASE TypeLine
  <2>1. at \in InCall \ {"leaving"} /\ UNCHANGED <<letters, read, opt, pc, word80, kept, submit>>
    BY <1>14 DEF TypeLine, InCall, Calls, Reads, Same
  <2>2. CASE EofAnswer
    BY <2>1, <2>2, EofBudget
  <2>3. CASE at' = "leaving" /\ UNCHANGED <<exit, eofcount, eofs>>
    BY <2>1, <2>3, KeepBudget DEF KeptOK, IInv, InCall, Calls, Reads
  <2> QED
    BY <1>14, <2>2, <2>3 DEF TypeLine
<1>15. CASE Press
  BY <1>15, KeepBudget DEF Press, Running, KeptOK, IInv, InCall, Calls, Reads
<1>16. CASE Handler
  BY <1>16, KeepBudget DEF Handler, Running, KeptOK, IInv, InCall, Calls, Reads
<1> QED
  BY <1>1, <1>2, <1>3, <1>4, <1>5, <1>6, <1>7, <1>8, <1>9, <1>10, <1>11, <1>12, <1>13, <1>14,
     <1>15, <1>16 DEF Next, HostStep

LEMMA NextInv ==
  ASSUME IInv, [Next]_vars
  PROVE  IInv'
<1>1. CASE Option
  BY <1>1, OptionInv
<1>2. CASE Next /\ ~Option
  BY <1>2, OthersOptions, StepBudget DEF IInv
<1>3. CASE UNCHANGED vars
  BY <1>3 DEF vars, IInv, OptionsOK, BudgetOK, KeptOK, LastAsked, Wanted
<1> QED
  BY <1>1, <1>2, <1>3

LEMMA Inductive == Spec => []IInv
  BY InitInv, NextInv, PTL DEF Spec

-----------------------------------------------------------------------------
(* However a program reads its input, whatever the options, it is given    *)
(* 1AH at most EofCount - 1 times, the emulator ends for want of input     *)
(* only then, and the exit code after a warm boot is the one asked for     *)
(* (cpm_getch, cpm_gets, main).                                            *)
THEOREM ExitTheorem == Spec => []ExitExact
<1>1. IInv => ExitExact
  BY MachineAssumption DEF IInv, BudgetOK, ExitExact
<1> QED
  BY <1>1, Inductive, PTL

(* A Ctrl-C whose handler has run while a call was being made is not lost: *)
(* no step goes back to the code that made the call.                       *)
THEOREM CtrlCTheorem == Spec => CtrlCKept
<1>1. IInv /\ [Next]_vars => [kept => at' # "z80"]_vars
  <2> SUFFICES ASSUME IInv, Next, kept PROVE at' # "z80"
    OBVIOUS
  <2>1. pc = "zero" /\ at \in InCall \cup {"exited"}
    BY DEF IInv, KeptOK
  <2>2. CASE at = "leaving"
    BY <2>1, <2>2 DEF Next, Option, Load, SetUp, Store, Call, Crash, HostStep, Quick, Delete,
       GetChar, GetLine, Bdos0, Boot, Resume, GetKey, TypeLine, Press, Handler, GoesTo, Running
  <2>3. CASE at # "leaving"
    BY <2>1, <2>3 DEF Next, Option, Load, SetUp, Store, Call, Crash, HostStep, Quick, Delete,
       GetChar, GetLine, Bdos0, Boot, Resume, GetKey, TypeLine, Press, Handler, GoesTo, Ends,
       Running, InCall, Calls, Reads, EofAnswer, Got
  <2> QED
    BY <2>2, <2>3
<1> QED
  BY <1>1, Inductive, PTL DEF Spec, CtrlCKept

-----------------------------------------------------------------------------
(***************************************************************************)
(* The drives.                                                             *)
(***************************************************************************)
Arguments == [dir : STRING \cup {None}, dr : Nat, name : STRING, cut : BOOLEAN]

LineOK ==
  /\ line \in Seq(Arguments) /\ cmdArgs \in Seq(Arguments) /\ Len(cmdArgs) = Len(line)
  /\ stage \in 0..5 /\ calls \in Nat /\ drvEnv \in Env
  /\ (stage \in 0..3 => calls = 0)

(* The drives there are at each stage; those of arguments come before the  *)
(* environment's.                                                          *)
DriveOK ==
  /\ DOMAIN drive = Drives
  /\ vct \subseteq Drives /\ \A d \in vct : drive[d] # None
  /\ stage = 0 => \A d \in Drives : drive[d] = None
  /\ stage \in 1..4 => drive[0] = Program /\ drive[1] = Current /\ diskNo \in Drives /\ drive[diskNo] # None
  /\ stage = 1 => drive[2] = None
  /\ stage \in 1..2 => drive[3] = None
  /\ stage = 0 => diskNo \in {0, 1}

(* Argument n as main() has found it, and as it leaves it.                 *)
Assigned(a) == auto /\ a.dir # None /\ Exists(a.dir)
ArgOK(n) ==
  IF Assigned(line[n]) /\ stage > n
  THEN \E d \in 2..3 : /\ drive[d] = line[n].dir
                       /\ cmdArgs[n] = PlainName(None, d + 1, line[n].name, line[n].cut)
  ELSE cmdArgs[n] = line[n]
ArgsOK == stage \in 0..3 => \A n \in 1..2 : n <= Len(line) => ArgOK(n)

VersionOK == stage \in 1..4 => (version = 290 <=> prog.ext = "com")

NamedOK == (stage = 4 /\ calls = 0) =>
  \A n \in 1..2 : (n <= Len(line) /\ NamesOf(line[n])[1] # None /\ ~line[1].cut) =>
                    NamesFcb(fcb[n]) = NamesOf(line[n])

(* What a search has still to give is apart from what it has given.        *)
Given == {seen[k] : k \in 1..Len(seen)}
SearchOK ==
  /\ seen \in Seq(want) /\ want \cap Hidden = {}
  /\ \A j, k \in 1..Len(seen) : seen[j] = seen[k] => j = k
  /\ find.h = "open" =>
       /\ find.left \cap Given = {} /\ find.left \subseteq want \cup Hidden
       /\ want \ gone \subseteq Given \cup find.left
  /\ find.h # "open" => want \ gone \subseteq Given
  /\ last.call \in {"first", "next"} /\ last.ret = 255 => find.h # "open"

DrvInv == LineOK /\ DriveOK /\ ArgsOK /\ VersionOK /\ NamedOK /\ SearchOK

LEMMA DrvInitial == DrvInit => DrvInv
<1> SUFFICES ASSUME DrvInit PROVE DrvInv
  OBVIOUS
<1>1. LineOK
  <2>1. line \in Seq([dir : STRING, dr : Nat, name : STRING, cut : BOOLEAN])
    BY DrivesAssumption DEF DrvInit
  <2>2. [dir : STRING, dr : Nat, name : STRING, cut : BOOLEAN] \subseteq Arguments
    BY DEF Arguments
  <2>3. line \in Seq(Arguments)
    <3>1. Len(line) \in Nat /\ DOMAIN line = 1..Len(line) /\ line = [i \in 1..Len(line) |-> line[i]]
      BY <2>1
    <3>2. \A i \in 1..Len(line) : line[i] \in Arguments
      <4> DEFINE R == [dir : STRING, dr : Nat, name : STRING, cut : BOOLEAN]
      <4>1. line \in Seq(R) /\ R \subseteq Arguments
        BY <2>1, <2>2
      <4> HIDE DEF R
      <4> QED
        BY <4>1
    <3>3. line \in [1..Len(line) -> Arguments]
      BY <3>1, <3>2
    <3> QED
      BY <3>1, <3>3
  <2> QED
    BY <2>3 DEF DrvInit, LineOK
<1>2. DriveOK
  BY DEF DrvInit, DriveOK
<1>3. ArgsOK
  BY DEF DrvInit, ArgsOK, ArgOK
<1>4. VersionOK /\ NamedOK
  BY DEF DrvInit, VersionOK, NamedOK
<1>5. SearchOK
  BY DEF DrvInit, SearchOK, Given, None
<1> QED
  BY <1>1, <1>2, <1>3, <1>4, <1>5 DEF DrvInv

(* A step of main() does not search.                                       *)
LEMMA SearchStays ==
  ASSUME SearchOK, UNCHANGED <<find, last, seen, want, gone>> PROVE SearchOK'
  BY DEF SearchOK, Given

LEMMA LoadKeeps == ASSUME DrvInv, LoadProgram PROVE DrvInv'
<1>0. /\ stage = 0 /\ UNCHANGED <<line, cmdArgs, auto, drvEnv, vct, diskNo, fcb, disk, find, last, seen, want, gone, calls>>
      /\ stage' = 1 \/ stage' = 5
      /\ stage' = 5 => UNCHANGED drive
      /\ stage' = 1 => drive' = [drive EXCEPT ![0] = Program, ![1] = Current]
      /\ stage' = 1 => version' = Version(prog'.ext)
  BY DEF LoadProgram
<1>1. LineOK'
  BY <1>0 DEF DrvInv, LineOK
<1>2. DriveOK'
  <2>1. 0 \in Drives /\ 1 \in Drives /\ 2 \in Drives /\ 3 \in Drives
    BY DrivesAssumption DEF Drives
  <2>2. DOMAIN drive = Drives /\ vct = {} /\ (\A d \in Drives : drive[d] = None) /\ diskNo \in {0, 1}
    BY <1>0 DEF DrvInv, DriveOK
  <2>3. CASE stage' = 5
    BY <1>0, <2>2, <2>3 DEF DriveOK
  <2>4. CASE stage' = 1
    <3>1. DOMAIN drive' = Drives /\ drive'[0] = Program /\ drive'[1] = Current /\ drive'[2] = None /\ drive'[3] = None
      BY <1>0, <2>1, <2>2, <2>4
    <3>2. Program # None /\ Current # None
      BY DEF Program, Current, None
    <3>3. diskNo' \in Drives /\ drive'[diskNo'] # None
      BY <1>0, <2>1, <2>2, <3>1, <3>2
    <3> QED
      BY <1>0, <2>2, <2>4, <3>1, <3>3 DEF DriveOK
  <2> QED
    BY <1>0, <2>3, <2>4
<1>3. ArgsOK'
  BY <1>0 DEF DrvInv, ArgsOK, ArgOK
<1>4. VersionOK' /\ NamedOK'
  BY <1>0 DEF VersionOK, NamedOK, Version
<1>5. SearchOK'
  BY <1>0, SearchStays DEF DrvInv
<1> QED
  BY <1>1, <1>2, <1>3, <1>4, <1>5 DEF DrvInv


(* Arguments and drives at an assignment.                                  *)
LEMMA AssignKeeps == ASSUME DrvInv, Assign PROVE DrvInv'
<1> DEFINE a == cmdArgs[stage]
           can == auto /\ stage <= Len(cmdArgs) /\ a.dir # None /\ Exists(a.dir)
<1>0. /\ stage \in 1..2 /\ stage' = stage + 1
      /\ UNCHANGED <<line, prog, version, auto, drvEnv, vct, diskNo, fcb, disk, find, last, seen, want, gone, calls>>
      /\ \/ /\ can /\ drive' = [drive EXCEPT ![NextDrive] = a.dir]
            /\ cmdArgs' = [cmdArgs EXCEPT ![stage] = PlainName(None, NextDrive + 1, a.name, a.cut)]
         \/ ~can /\ UNCHANGED <<cmdArgs, drive>>
  BY DEF Assign
<1>1. cmdArgs \in Seq(Arguments) /\ line \in Seq(Arguments) /\ Len(cmdArgs) = Len(line)
  BY DEF DrvInv, LineOK
<1>2. NextDrive \in 2..3 /\ drive[NextDrive] = None /\ (stage = 1 => NextDrive = 2) /\ NextDrive \in Drives
  BY <1>0, DrivesAssumption DEF DrvInv, DriveOK, NextDrive, Drives
<1>a. stage <= Len(line) => a = line[stage]
  BY <1>0, <1>1 DEF DrvInv, ArgsOK, ArgOK
<1>3. LineOK'
  <2>1. CASE ~can
    BY <1>0, <2>1 DEF DrvInv, LineOK
  <2>2. CASE can
    <3>1. stage \in 1..Len(cmdArgs) /\ a \in Arguments
      BY <1>0, <1>1, <2>2
    <3>2. PlainName(None, NextDrive + 1, a.name, a.cut) \in Arguments
      <4>1. NextDrive + 1 \in Nat
        BY <1>2
      <4> QED
        BY <3>1, <4>1 DEF Arguments, PlainName
    <3>3. cmdArgs' \in Seq(Arguments) /\ Len(cmdArgs') = Len(cmdArgs)
      BY <1>0, <1>1, <2>2, <3>1, <3>2
    <3> QED
      BY <1>0, <3>3 DEF DrvInv, LineOK
  <2> QED
    BY <2>1, <2>2
<1>4. DriveOK'
  <2>1. CASE ~can
    BY <1>0, <2>1 DEF DrvInv, DriveOK
  <2>2. CASE can
    <3>1. drive' = [drive EXCEPT ![NextDrive] = a.dir] /\ a.dir # None
      BY <1>0, <2>2
    <3>2. \A d \in Drives : d # NextDrive => drive'[d] = drive[d]
      BY <1>2, <3>1 DEF DrvInv, DriveOK
    <3>3. DOMAIN drive' = Drives /\ drive'[NextDrive] = a.dir
      BY <1>2, <3>1 DEF DrvInv, DriveOK
    <3>4. 0 \in Drives /\ 1 \in Drives /\ 2 \in Drives /\ 3 \in Drives
      BY DrivesAssumption DEF Drives
    <3>5. vct \subseteq Drives /\ \A d \in vct : drive'[d] # None
      BY <3>1, <3>2, <3>3 DEF DrvInv, DriveOK
    <3>6. drive'[0] = Program /\ drive'[1] = Current /\ diskNo \in Drives /\ drive'[diskNo] # None
      BY <1>0, <1>2, <3>1, <3>2, <3>3, <3>4 DEF DrvInv, DriveOK
    <3>7. stage = 1 => drive'[3] = None
      BY <1>0, <1>2, <3>2, <3>4 DEF DrvInv, DriveOK
    <3> QED
      BY <1>0, <3>3, <3>5, <3>6, <3>7 DEF DriveOK
  <2> QED
    BY <2>1, <2>2
<1>5. ArgsOK'
  <2> SUFFICES ASSUME NEW n \in 1..2, n <= Len(line) PROVE ArgOK(n)'
    BY <1>0 DEF ArgsOK
  <2>0. ArgOK(n)
    BY <1>0 DEF DrvInv, ArgsOK
  <2>1. \A b : Assigned(b)' <=> Assigned(b)
    BY <1>0 DEF Assigned, Exists
  <2>2. CASE n = stage /\ can
    <3>1. cmdArgs'[n] = PlainName(None, NextDrive + 1, a.name, a.cut)
      BY <1>0, <1>1, <2>2
    <3>2. drive'[NextDrive] = a.dir
      BY <1>0, <1>2, <2>2 DEF DrvInv, DriveOK
    <3>3. a = line[n]
      BY <1>a, <2>2
    <3>4. Assigned(line[n])
      BY <2>2, <3>3, Zenon DEF Assigned
    <3> QED
      BY <1>0, <1>2, <2>1, <2>2, <3>1, <3>2, <3>3, <3>4 DEF ArgOK
  <2>3. CASE n = stage /\ ~can
    <3>1. a = line[n] /\ ~Assigned(line[n])
      BY <1>1, <1>a, <2>3, Zenon DEF Assigned
    <3>2. cmdArgs'[n] = line[n]
      BY <1>0, <2>3, <3>1
    <3> QED
      BY <1>0, <2>1, <3>1, <3>2 DEF ArgOK
  <2>4. CASE n # stage
    <3>1. cmdArgs'[n] = cmdArgs[n]
      BY <1>0, <1>1, <2>4
    <3>2. (stage' > n <=> stage > n)
      BY <1>0, <2>4
    <3>3. \A d \in 2..3 : drive[d] = line[n].dir /\ line[n].dir # None => drive'[d] = drive[d]
      <4>1. \A d \in 2..3 : d \in Drives
        BY DrivesAssumption DEF Drives
      <4> QED
        BY <1>0, <1>2, <4>1 DEF DrvInv, DriveOK
    <3>4. Assigned(line[n]) => line[n].dir # None
      BY DEF Assigned
    <3> QED
      BY <1>0, <2>0, <2>1, <3>1, <3>2, <3>3, <3>4 DEF ArgOK
  <2> QED
    BY <2>2, <2>3, <2>4
<1>6. VersionOK' /\ NamedOK'
  BY <1>0 DEF DrvInv, VersionOK, NamedOK
<1>7. SearchOK'
  BY <1>0, SearchStays DEF DrvInv
<1> QED
  BY <1>3, <1>4, <1>5, <1>6, <1>7 DEF DrvInv

LEMMA SetFcbsKeeps == ASSUME DrvInv, SetFcbs PROVE DrvInv'
<1>0. /\ stage = 3 /\ stage' = 4
      /\ fcb' = <<Arg(1), IF cmdArgs # <<>> /\ cmdArgs[1].cut THEN Blank ELSE Arg(2)>>
      /\ UNCHANGED <<line, cmdArgs, prog, version, auto, drvEnv, drive, vct, diskNo, disk, find, last, seen, want, gone, calls>>
  BY DEF SetFcbs
<1>1. cmdArgs \in Seq(Arguments) /\ line \in Seq(Arguments) /\ Len(cmdArgs) = Len(line)
  BY DEF DrvInv, LineOK
<1>2. LineOK' /\ DriveOK' /\ ArgsOK'
  BY <1>0 DEF DrvInv, LineOK, DriveOK, ArgsOK
<1>3. VersionOK' /\ SearchOK'
  BY <1>0, SearchStays DEF DrvInv, VersionOK
<1>4. NamedOK'
  <2> SUFFICES ASSUME NEW n \in 1..2, n <= Len(line), NamesOf(line[n])[1] # None, ~line[1].cut
               PROVE  NamesFcb(fcb'[n]) = NamesOf(line[n])
    <3>1. line' = line
      BY <1>0
    <3>2. \A n \in 1..2 : NamesOf(line[n])' = NamesOf(line[n]) /\ NamesFcb(fcb[n])' = NamesFcb(fcb'[n])
      BY <1>0 DEF NamesOf, NamesFcb, Exists, Index, Drives
    <3> QED
      BY <3>1, <3>2, Zenon DEF NamedOK
  <2>1. ArgOK(n) /\ ArgOK(1) /\ 1 <= Len(line)
    BY <1>0, <1>1 DEF DrvInv, ArgsOK
  <2>2. cmdArgs[1].cut = line[1].cut
    BY <2>1 DEF ArgOK, PlainName
  <2>3. fcb'[n] = MkFcb(cmdArgs[n])
    BY <1>0, <1>1, <2>2 DEF Arg
  <2>4. CASE Assigned(line[n])
    <3>1. PICK d \in 2..3 : drive[d] = line[n].dir /\ cmdArgs[n] = PlainName(None, d + 1, line[n].name, line[n].cut)
      BY <1>0, <2>1, <2>4 DEF ArgOK
    <3>2. NamesOf(line[n]) = <<line[n].dir, line[n].name>>
      BY <2>4 DEF NamesOf, Assigned
    <3>3. fcb'[n] = [dr |-> d + 1, name |-> line[n].name]
      BY <2>3, <3>1 DEF MkFcb, PlainName
    <3>4. Index(d + 1) = d /\ d \in Drives
      BY DrivesAssumption DEF Index, Drives
    <3>5. NamesFcb(fcb'[n]) = <<drive[d], line[n].name>>
      BY <3>3, <3>4 DEF NamesFcb
    <3> QED
      BY <3>1, <3>2, <3>5
  <2>5. CASE ~Assigned(line[n])
    <3>1. cmdArgs[n] = line[n]
      BY <2>1, <2>5 DEF ArgOK
    <3>2. line[n].dir = None
      BY <2>5 DEF NamesOf, Assigned
    <3>3. fcb'[n] = [dr |-> line[n].dr, name |-> line[n].name]
      BY <2>3, <3>1, <3>2 DEF MkFcb
    <3> QED
      BY <3>2, <3>3 DEF NamesFcb, NamesOf
  <2> QED
    BY <2>4, <2>5
<1> QED
  BY <1>2, <1>3, <1>4 DEF DrvInv


(* Drives set up, or left as they are, keep their directories.             *)
LEMMA Kept_ ==
  ASSUME DrvInv, SetUpDrives \/ KeepDrives, stage = 4
  PROVE  /\ DOMAIN drive' = Drives /\ vct' \subseteq Drives /\ \A d \in vct' : drive'[d] # None
         /\ \A d \in Drives : drive[d] # None => drive'[d] = drive[d]
<1>1. /\ DOMAIN drive = Drives /\ vct \subseteq Drives /\ (\A d \in vct : drive[d] # None)
      /\ drive[0] # None /\ drive[1] # None
  <2>1. stage \in 1..4 /\ Program # None /\ Current # None
    BY DEF Program, Current, None
  <2> QED
    BY <2>1 DEF DrvInv, DriveOK
<1>2. CASE KeepDrives
  BY <1>1, <1>2 DEF KeepDrives
<1>3. CASE SetUpDrives
  <2>1. DOMAIN drvEnv \subseteq Drives /\ \A d \in DOMAIN drvEnv : drvEnv[d] # None
    BY DrivesAssumption DEF DrvInv, LineOK, Drives
  <2>2. 0 \in Drives /\ 1 \in Drives
    BY DrivesAssumption DEF Drives
  <2>3. /\ drive' = [d \in Drives |-> IF d \in {k \in DOMAIN drvEnv : drive[k] = None} THEN drvEnv[d] ELSE drive[d]]
        /\ vct' = {0, 1} \cup {k \in DOMAIN drvEnv : drive[k] = None}
    BY <1>3 DEF SetUpDrives
  <2> QED
    BY <1>1, <2>1, <2>2, <2>3
<1> QED
  BY <1>2, <1>3

(* A call that finds a drive does nothing else to them.                    *)
LEMMA LooksUp == ASSUME NEW dr, LookUp(dr) PROVE SetUpDrives \/ KeepDrives
  BY DEF LookUp

(* What a call of the BDOS may do to drives and FCBs.                      *)
LEMMA CallKeeps ==
  ASSUME DrvInv, NEW call, Begin(call), Fixed, SetUpDrives \/ KeepDrives, diskNo' \in Drives, drive'[diskNo'] # None
  PROVE  LineOK' /\ DriveOK' /\ ArgsOK' /\ VersionOK' /\ NamedOK'
<1>0. stage = 4 /\ stage' = 4 /\ calls' = calls + 1 /\ calls \in Nat
      /\ UNCHANGED <<line, cmdArgs, prog, version, auto, drvEnv, fcb>>
  BY DEF Begin, Fixed, DrvInv, LineOK
<1>1. LineOK'
  BY <1>0 DEF DrvInv, LineOK
<1>2. DriveOK'
  <2>1. 0 \in Drives /\ 1 \in Drives
    BY DrivesAssumption DEF Drives
  <2>2. drive'[0] = Program /\ drive'[1] = Current
    <3>1. stage \in 1..4 /\ Program # None /\ Current # None
      BY <1>0 DEF Program, Current, None
    <3>2. drive[0] = Program /\ drive[1] = Current
      BY <3>1 DEF DrvInv, DriveOK
    <3> QED
      BY <1>0, <2>1, <3>1, <3>2, Kept_
  <2> QED
    BY <1>0, <2>2, Kept_ DEF DriveOK
<1> QED
  BY <1>0, <1>1, <1>2 DEF DrvInv, ArgsOK, VersionOK, NamedOK

(* The default drive may stay, or be A:.                                   *)
LEMMA DefaultStays ==
  ASSUME DrvInv, stage = 4, SetUpDrives \/ KeepDrives, diskNo' \in {0, diskNo}
  PROVE  diskNo' \in Drives /\ drive'[diskNo'] # None
<1>1. 0 \in Drives /\ diskNo \in Drives /\ drive[0] # None /\ drive[diskNo] # None
  BY DrivesAssumption DEF DrvInv, DriveOK, Drives, Program, None
<1> QED
  BY <1>1, Kept_

(* A call that does not search.                                            *)
LEMMA NotSearching ==
  ASSUME SearchOK, UNCHANGED <<find, seen, want, gone>>, last'.call \notin {"first", "next"}
  PROVE  SearchOK'
  BY DEF SearchOK, Given

LEMMA SelectKeeps == ASSUME DrvInv, NEW e \in 0..MaxDrv, SelectDisk(e) PROVE DrvInv'
<1>0. /\ Begin("select") /\ Fixed /\ (SetUpDrives \/ KeepDrives) /\ UNCHANGED <<find, seen, want, gone>>
      /\ last'.call = "select"
      /\ \/ diskNo' = diskNo
         \/ Selectable(e) /\ diskNo' = e
  BY DEF SelectDisk, Answer
<1>1. stage = 4
  BY <1>0 DEF Begin
<1>2. diskNo' \in Drives /\ drive'[diskNo'] # None
  <2>1. CASE diskNo' = diskNo
    BY <1>0, <1>1, <2>1, DefaultStays
  <2>2. CASE Selectable(e) /\ diskNo' = e
    BY <2>2 DEF Selectable
  <2> QED
    BY <1>0, <2>1, <2>2
<1>3. SearchOK'
  BY <1>0, NotSearching DEF DrvInv
<1> QED
  BY <1>0, <1>2, <1>3, CallKeeps DEF DrvInv

LEMMA VectorKeeps == ASSUME DrvInv, GetDrives PROVE DrvInv'
<1>0. /\ Begin("vector") /\ Fixed /\ (SetUpDrives \/ KeepDrives) /\ UNCHANGED <<find, seen, want, gone>>
      /\ last'.call = "vector" /\ diskNo' = diskNo /\ stage = 4
  BY DEF GetDrives, Answer, Begin
<1>1. diskNo' \in Drives /\ drive'[diskNo'] # None
  BY <1>0, DefaultStays
<1>2. SearchOK'
  BY <1>0, NotSearching DEF DrvInv
<1> QED
  BY <1>0, <1>1, <1>2, CallKeeps DEF DrvInv

LEMMA DiskResetKeeps == ASSUME DrvInv, DiskReset PROVE DrvInv'
<1>0. /\ Begin("reset") /\ Fixed /\ KeepDrives /\ UNCHANGED <<find, seen, want, gone>>
      /\ last'.call = "reset" /\ diskNo' = 0 /\ stage = 4
  BY DEF DiskReset, Answer, Begin
<1>1. diskNo' \in Drives /\ drive'[diskNo'] # None
  BY <1>0, DefaultStays
<1>2. SearchOK'
  BY <1>0, NotSearching DEF DrvInv
<1> QED
  BY <1>0, <1>1, <1>2, CallKeeps DEF DrvInv

(* A name is given that was not given before, or none is left.             *)
LEMMA GiveKeeps ==
  ASSUME NEW call \in {"first", "next"}, NEW left, NEW before \in Seq(want'), Give(call, left, before),
         want' \cap Hidden = {}, left \subseteq want' \cup Hidden,
         \A j, k \in 1..Len(before) : before[j] = before[k] => j = k,
         left \cap {before[k] : k \in 1..Len(before)} = {},
         want' \ gone' \subseteq {before[k] : k \in 1..Len(before)} \cup left
  PROVE  SearchOK'
<1>1. CASE \E n \in left \ Hidden, over \in SUBSET (left \cap (Hidden \cup gone')) :
             /\ n \notin over
             /\ find' = [h |-> "open", left |-> left \ (over \cup {n})]
             /\ seen' = Append(before, n) /\ Answer(call, 0, n)
  <2> PICK n \in left \ Hidden, over \in SUBSET (left \cap (Hidden \cup gone')) :
             /\ n \notin over
             /\ find' = [h |-> "open", left |-> left \ (over \cup {n})]
             /\ seen' = Append(before, n) /\ Answer(call, 0, n)
    BY <1>1
  <2>1. n \in want'
    OBVIOUS
  <2>2. /\ seen' \in Seq(want') /\ Len(seen') = Len(before) + 1
        /\ seen'[Len(before) + 1] = n
        /\ \A k \in 1..Len(before) : seen'[k] = before[k]
    BY <2>1
  <2>3. Given' = {before[k] : k \in 1..Len(before)} \cup {n}
    <3>1. Given' = {seen'[k] : k \in 1..Len(before) + 1}
      BY <2>2 DEF Given
    <3>2. 1..Len(before) + 1 = 1..Len(before) \cup {Len(before) + 1}
      OBVIOUS
    <3> QED
      BY <2>2, <3>1, <3>2
  <2>4. \A j, k \in 1..Len(seen') : seen'[j] = seen'[k] => j = k
    <3>1. \A k \in 1..Len(before) : before[k] # n
      OBVIOUS
    <3> QED
      BY <2>2, <3>1
  <2>5. find'.h = "open" /\ find'.left = left \ (over \cup {n}) /\ last'.ret = 0
    BY DEF Answer
  <2>6. find'.left \cap Given' = {} /\ find'.left \subseteq want' \cup Hidden /\ want' \ gone' \subseteq Given' \cup find'.left
    BY <2>3, <2>5
  <2> QED
    BY <2>2, <2>4, <2>5, <2>6 DEF SearchOK
<1>2. CASE /\ left \ Hidden \subseteq gone'
           /\ find' = [h |-> "closed", left |-> {}]
           /\ seen' = before /\ Answer(call, 255, None)
  <2>1. Given' = {before[k] : k \in 1..Len(before)}
    BY <1>2 DEF Given
  <2>2. want' \ gone' \subseteq Given'
    BY <1>2, <2>1
  <2> QED
    BY <1>2, <2>1, <2>2 DEF SearchOK
<1> QED
  BY <1>1, <1>2 DEF Give

LEMMA FindFirstKeeps == ASSUME DrvInv, NEW dr, NEW p, FindFirst(dr, p) PROVE DrvInv'
<1>0. /\ Begin("first") /\ Fixed /\ LookUp(dr) /\ diskNo' = diskNo /\ stage = 4 /\ disk' = disk
  BY DEF FindFirst, Begin
<1>1. SetUpDrives \/ KeepDrives
  BY <1>0, LooksUp
<1>2. diskNo' \in Drives /\ drive'[diskNo'] # None
  BY <1>0, <1>1, DefaultStays
<1>3. SearchOK'
  <2>1. CASE /\ find' = [find EXCEPT !.h = IF @ = "closed" THEN @ ELSE "stale"]
             /\ seen' = <<>> /\ want' = {} /\ gone' = {} /\ Answer("first", 255, None)
    <3>1. find'.h # "open"
      BY <2>1
    <3> QED
      BY <2>1, <3>1 DEF SearchOK, Given
  <2>2. CASE /\ want' = Matching(dr, p) \ Hidden /\ gone' = {}
             /\ Give("first", Matching(dr, p), <<>>)
    <3>1. <<>> \in Seq(want') /\ {<<>>[k] : k \in 1..Len(<<>>)} = {}
      OBVIOUS
    <3>2. want' \cap Hidden = {} /\ Matching(dr, p) \subseteq want' \cup Hidden
      BY <2>2
    <3> HIDE DEF Give
    <3> QED
      BY <2>2, <3>1, <3>2, GiveKeeps
  <2> QED
    BY <2>1, <2>2 DEF FindFirst
<1> QED
  BY <1>0, <1>1, <1>2, <1>3, CallKeeps DEF DrvInv

LEMMA FindNextKeeps == ASSUME DrvInv, FindNext PROVE DrvInv'
<1>0. /\ Begin("next") /\ Fixed /\ KeepDrives /\ diskNo' = diskNo /\ stage = 4 /\ UNCHANGED <<want, gone>>
  BY DEF FindNext, Begin
<1>1. diskNo' \in Drives /\ drive'[diskNo'] # None
  BY <1>0, DefaultStays
<1>2. SearchOK'
  <2>0. SearchOK
    BY DEF DrvInv
  <2>1. CASE find.h = "open" /\ Give("next", find.left, seen)
    BY <1>0, <2>0, <2>1, GiveKeeps DEF SearchOK, Given
  <2>2. CASE /\ find.h # "open"
             /\ find' = [h |-> "closed", left |-> {}]
             /\ UNCHANGED seen /\ Answer("next", 255, None)
    BY <1>0, <2>0, <2>2 DEF SearchOK, Given
  <2> QED
    BY <2>1, <2>2 DEF FindNext
<1> QED
  BY <1>0, <1>1, <1>2, CallKeeps DEF DrvInv

LEMMA DeleteKeeps == ASSUME DrvInv, NEW dr, NEW p, DeleteFiles(dr, p) PROVE DrvInv'
<1>0. /\ Begin("delete") /\ Fixed /\ LookUp(dr) /\ UNCHANGED <<diskNo, find, seen, want>> /\ stage = 4
      /\ gone \subseteq gone' /\ last'.call = "delete"
  BY DEF DeleteFiles, Begin, Answer
<1>1. SetUpDrives \/ KeepDrives
  BY <1>0, LooksUp
<1>2. diskNo' \in Drives /\ drive'[diskNo'] # None
  BY <1>0, <1>1, DefaultStays
<1>3. SearchOK'
  BY <1>0 DEF DrvInv, SearchOK, Given
<1> QED
  BY <1>0, <1>1, <1>2, <1>3, CallKeeps DEF DrvInv

LEMMA DrvStep == ASSUME DrvInv, [DrvNext]_drvVars PROVE DrvInv'
<1>1. CASE UNCHANGED drvVars
  BY <1>1 DEF drvVars, DrvInv, LineOK, DriveOK, ArgsOK, ArgOK, Assigned, Exists, VersionOK, NamedOK, NamesOf, NamesFcb, Index,
              SearchOK, Given
<1>2. CASE DrvNext
  BY <1>2, LoadKeeps, AssignKeeps, SetFcbsKeeps, SelectKeeps, VectorKeeps, DiskResetKeeps, FindFirstKeeps, FindNextKeeps,
     DeleteKeeps, Zenon DEF DrvNext
<1> QED
  BY <1>1, <1>2

LEMMA DrvExact == ASSUME DrvInv PROVE StartExact /\ SearchExact
<1>1. StartExact
  BY DEF DrvInv, DriveOK, VersionOK, NamedOK, StartExact
<1>2. SearchExact
  <2>1. \A k \in 1..Len(seen) : seen[k] \in want
    BY DEF DrvInv, SearchOK
  <2> QED
    BY <2>1 DEF DrvInv, SearchOK, SearchExact, Given
<1> QED
  BY <1>1, <1>2

(* What a step may do to the drives.                                       *)
KeepsDrives == (\A d \in Drives : drive[d] # None => drive'[d] = drive[d]) /\ (\A d \in vct' : drive'[d] # None)

LEMMA StepKeeps == ASSUME DrvInv, DrvNext PROVE KeepsDrives
<1>1. CASE LoadProgram
  BY <1>1 DEF LoadProgram, DrvInv, DriveOK, KeepsDrives
<1>2. CASE Assign
  <2>1. NextDrive \in Drives /\ drive[NextDrive] = None
    BY <1>2, DrivesAssumption DEF Assign, DrvInv, DriveOK, NextDrive, Drives
  <2>2. cmdArgs[stage].dir # None => drive[NextDrive] = None
    BY <2>1
  <2> QED
    BY <1>2, <2>1 DEF Assign, DrvInv, DriveOK, KeepsDrives
<1>3. CASE UNCHANGED <<drive, vct>>
  BY <1>3 DEF DrvInv, DriveOK, KeepsDrives
<1>4. CASE stage = 4 /\ (SetUpDrives \/ KeepDrives)
  BY <1>4, Kept_ DEF KeepsDrives
<1>5. ASSUME NEW e, SelectDisk(e) PROVE KeepsDrives
  BY <1>4, <1>5 DEF SelectDisk, Begin
<1>6. CASE GetDrives
  BY <1>4, <1>6 DEF GetDrives, Begin
<1>7. ASSUME NEW dr, NEW p, FindFirst(dr, p) \/ DeleteFiles(dr, p) PROVE KeepsDrives
  BY <1>4, <1>7, LooksUp DEF FindFirst, DeleteFiles, Begin
<1>8. CASE SetFcbs \/ DiskReset \/ FindNext
  BY <1>3, <1>8 DEF SetFcbs, DiskReset, FindNext, KeepDrives
<1> QED
  BY <1>1, <1>2, <1>5, <1>6, <1>7, <1>8 DEF DrvNext

(* Whatever folders there are and whatever the command line names: FCB1    *)
(* and FCB2 name the files the arguments named, a drive letter keeps its   *)
(* directory for the whole run, and a search gives each file that matches  *)
(* once and misses none, whatever calls come in between                    *)
(* (auto_drive_assign, setup_disk_vct, cpm_findfirst, cpm_findnext).       *)
THEOREM DrivesTheorem == DrvSpec => DrivesExact
<1>1. DrvInit => DrvInv
  BY DrvInitial
<1>2. DrvInv /\ [DrvNext]_drvVars => DrvInv'
  BY DrvStep
<1>3. DrvInv => StartExact /\ SearchExact
  BY DrvExact
<1>4. DrvInv /\ [DrvNext]_drvVars => [KeepsDrives]_drvVars
  BY StepKeeps
<1> QED
  BY <1>1, <1>2, <1>3, <1>4, PTL DEF DrvSpec, DrivesExact, DrivesKept, KeepsDrives

-----------------------------------------------------------------------------
(***************************************************************************)
(* The printer, the reader and the punch.                                  *)
(***************************************************************************)

Kind == {"rdr", "pun"}
StreamRec == [file : Files \cup {"none"}, pos : Nat, dir : {"none", "read", "write"}]
DevTypeOK ==
  /\ env \in [Vars -> {"unset", "set", "bad"}]
  /\ fp \in [Devices -> Streams] /\ err \in [Devices -> BOOLEAN]
  /\ used \in [Streams -> Seq([dev : Devices, c : Int])]
  /\ file \in [Files -> Seq(Int)]
  /\ stream \in [Devices -> StreamRec]
  /\ ~ended

(* A stream is named by the device that opened it, and is open as long as  *)
(* it is used.                                                             *)
OpenOK ==
  /\ fp["lst"] \in {"none", "lst"} /\ fp["rdr"] \in {"none", "rdr", "pun"} /\ fp["pun"] \in {"none", "rdr", "pun"}
  /\ \A d \in Devices : fp[d] # "none" => fp[fp[d]] = fp[d]
  /\ (env["CPMRDR"] = "unset" /\ env["CPMPUN"] = "unset" /\ fp["rdr"] # "none" /\ fp["pun"] # "none") =>
       fp["rdr"] = fp["pun"]
  /\ \A d \in Devices : fp[d] = d => Source(d) # "none"

(* Each use is on the stream its device has for good.                      *)
OwnedOK == \A s \in Streams : \A k \in 1..Len(used[s]) : fp[used[s][k].dev] = s /\ (s # "none" \/ err[used[s][k].dev])

(* A stream with uses h and state s on a file with characters f.           *)
WrittenAs(h, s, f) ==
  (\A k \in 1..Len(h) : h[k].dev # "rdr") =>
    s.dir # "read" /\ s.pos = Len(h) /\ Len(h) <= Len(f) /\ \A k \in 1..Len(h) : f[k] = h[k].c
ReadAs(h, s, f) ==
  (\A k \in 1..Len(h) : h[k].dev = "rdr") =>
    /\ s.dir # "write" /\ s.pos = IF Len(h) <= Len(f) THEN Len(h) ELSE Len(f)
    /\ \A k \in 1..Len(h) : h[k].c = IF k <= Len(f) THEN f[k] ELSE 26
StreamOK(h, s, f) == s.pos <= Len(f) /\ WrittenAs(h, s, f) /\ ReadAs(h, s, f)

StreamsOK ==
  \A d \in Devices : fp[d] = d => stream[d].file = Source(d) /\ StreamOK(used[d], stream[d], file[Source(d)])

DevInv == DevTypeOK /\ OpenOK /\ OwnedOK /\ StreamsOK

(* A stream that has moved on, or is used in another direction.            *)
LEMMA StreamIs == ASSUME NEW s \in StreamRec PROVE s.pos \in Nat /\ s.file \in Files \cup {"none"} /\ s.dir \in {"none", "read", "write"}
  BY DEF StreamRec

Moved(s, n, w) == [s EXCEPT !.pos = n, !.dir = w]
LEMMA MovedIs ==
  ASSUME NEW s \in StreamRec, NEW n \in Nat, NEW w \in {"none", "read", "write"}
  PROVE  Moved(s, n, w) \in StreamRec /\ Moved(s, n, w).file = s.file /\ Moved(s, n, w).pos = n /\ Moved(s, n, w).dir = w
  BY DEF StreamRec, Moved

LEMMA Turned ==
  ASSUME NEW s \in StreamRec, NEW w \in {"none", "read", "write"}
  PROVE  /\ [s EXCEPT !.dir = w] \in StreamRec /\ [s EXCEPT !.dir = w].file = s.file
         /\ [s EXCEPT !.dir = w].pos = s.pos /\ [s EXCEPT !.dir = w].dir = w
  BY DEF StreamRec

(* A use of the reader: it gets the next character, or 1AH at the end.     *)
LEMMA ReaderUse ==
  ASSUME NEW h \in Seq([dev : Devices, c : Int]), NEW s \in StreamRec, NEW z \in StreamRec, NEW f \in Seq(Int),
         StreamOK(h, s, f), NEW c \in Int,
         \/ s.pos < Len(f) /\ c = f[s.pos + 1] /\ z.pos = s.pos + 1 /\ z.dir = "read"
         \/ s.pos >= Len(f) /\ c = 26 /\ z.pos = s.pos /\ z.dir = "none"
         \/ s.dir = "write" /\ z = s
  PROVE  StreamOK(Append(h, [dev |-> "rdr", c |-> c]), z, f)
<1> DEFINE R == [dev : Devices, c : Int]
           u == [dev |-> "rdr", c |-> c]
           g == Append(h, u)
<1>1. Len(g) = Len(h) + 1 /\ Len(h) \in Nat /\ g[Len(h) + 1] = u /\ \A k \in 1..Len(h) : g[k] = h[k]
  <2>1. h \in Seq(R)
    OBVIOUS
  <2> HIDE DEF R, u
  <2> QED
    BY <2>1
<1>2. u.dev = "rdr" /\ u.c = c /\ s.pos \in Nat /\ z.pos \in Nat /\ Len(f) \in Nat
  BY StreamIs
<1> HIDE DEF g, u
<1>3. WrittenAs(g, z, f)
  <2>1. Len(h) + 1 \in 1..Len(g)
    BY <1>1
  <2> QED
    BY <1>1, <1>2, <2>1 DEF WrittenAs
<1>4. ASSUME \A k \in 1..Len(g) : g[k].dev = "rdr"
      PROVE  /\ z.dir # "write" /\ z.pos = IF Len(g) <= Len(f) THEN Len(g) ELSE Len(f)
             /\ \A k \in 1..Len(g) : g[k].c = IF k <= Len(f) THEN f[k] ELSE 26
  <2>1. \A k \in 1..Len(h) : h[k].dev = "rdr"
    <3>1. \A k \in 1..Len(h) : k \in 1..Len(g)
      BY <1>1
    <3> QED
      BY <1>1, <1>4, <3>1
  <2>2. /\ s.dir # "write" /\ s.pos = (IF Len(h) <= Len(f) THEN Len(h) ELSE Len(f))
        /\ \A k \in 1..Len(h) : h[k].c = IF k <= Len(f) THEN f[k] ELSE 26
    BY <2>1 DEF StreamOK, ReadAs
  <2>3. z.dir # "write" /\ z.pos = IF Len(g) <= Len(f) THEN Len(g) ELSE Len(f)
    BY <1>1, <1>2, <2>2
  <2>4. g[Len(h) + 1].c = IF Len(h) + 1 <= Len(f) THEN f[Len(h) + 1] ELSE 26
    BY <1>1, <1>2, <2>2
  <2>5. \A k \in 1..Len(g) : k \in 1..Len(h) \/ k = Len(h) + 1
    BY <1>1
  <2> QED
    BY <1>1, <2>2, <2>3, <2>4, <2>5
<1>5. z.pos <= Len(f)
  BY <1>2 DEF StreamOK
<1> QED
  BY <1>3, <1>4, <1>5 DEF g, u, StreamOK, ReadAs

LEMMA DevInitial == DevInit => DevInv
<1> SUFFICES ASSUME DevInit PROVE DevInv
  OBVIOUS
<1>1. DevTypeOK
  <2>1. \A n \in Vars : Disk[n] \in Seq(Int)
    <3>1. <<>> \in Seq(Int) /\ <<1>> \in Seq(Int) /\ <<2, 3>> \in Seq(Int)
      OBVIOUS
    <3>2. Disk.CPMLST = <<>> /\ Disk.CPMRDR = <<1>> /\ Disk.CPMPUN = <<>> /\ Disk.CPMAUX = <<2, 3>>
      BY DEF Disk
    <3> QED
      BY <3>1, <3>2 DEF Vars
  <2>2. file \in [Files -> Seq(Int)]
    BY <2>1 DEF DevInit, Files
  <2>3. \A d \in Devices : [file |-> "none", pos |-> 0, dir |-> "none"] \in StreamRec
    BY DEF StreamRec
  <2> QED
    BY <2>2, <2>3 DEF DevInit, DevTypeOK, Streams
<1>2. OpenOK
  BY DEF DevInit, OpenOK, Devices
<1>3. OwnedOK
  BY DEF DevInit, OwnedOK
<1>4. StreamsOK
  BY DEF DevInit, StreamsOK, Devices
<1> QED
  BY <1>1, <1>2, <1>3, <1>4 DEF DevInv

(* What a device's first use does to the streams, and its later ones.      *)
LEMMA SourceIs ==
  /\ Source("lst") = Fopen("CPMLST", "PRN:")
  /\ Source("rdr") = IF env["CPMRDR"] # "unset" THEN Fopen("CPMRDR", "none") ELSE Fopen("CPMAUX", "AUX:")
  /\ Source("pun") = IF env["CPMPUN"] # "unset" THEN Fopen("CPMPUN", "none") ELSE Fopen("CPMAUX", "AUX:")
  BY DEF Source

LEMMA SourceFile == ASSUME DevTypeOK, NEW d \in Devices PROVE Source(d) \in Files \cup {"none"}
  BY SourceIs DEF DevTypeOK, Devices, Fopen, Files, Vars

Opening(d) ==
  \/ Keep(d)
  \/ d = "lst" /\ OpenNew(d, Source(d))
  \/ d = "rdr" /\ Attach(d, "CPMRDR", "pun")
  \/ d = "pun" /\ Attach(d, "CPMPUN", "rdr")

(* Nothing for a reader or punch to share.                                 *)
Alone(d) == (env["CPMRDR"] = "unset" /\ env["CPMPUN"] = "unset") => \A e \in Kind \ {d} : fp[e] = "none"

(* It keeps its stream; or has its own new one, or the other's, or none.   *)
LEMMA OpeningIs ==
  ASSUME DevInv, NEW d \in Devices, Opening(d), env' = env
  PROVE  /\ ~Unopened(d)'
         /\ \A e \in Devices \ {d} : fp'[e] = fp[e] /\ err'[e] = err[e]
         /\ fp' \in [Devices -> Streams] /\ err' \in [Devices -> BOOLEAN]
         /\ \/ ~Unopened(d) /\ fp'[d] = fp[d] /\ err'[d] = err[d]
            \/ Unopened(d) /\ fp'[d] = d /\ Source(d) # "none" /\ (d \in Kind => Alone(d))
            \/ Unopened(d) /\ fp'[d] = "none" /\ Source(d) = "none"
            \/ /\ Unopened(d) /\ d \in Kind
               /\ \E e \in Kind \ {d} : fp[e] # "none" /\ fp'[d] = fp[e]
<1>1. fp \in [Devices -> Streams] /\ err \in [Devices -> BOOLEAN] /\ "none" \notin Devices
  BY DEF DevInv, DevTypeOK, Devices
<1>2. CASE Keep(d)
  BY <1>1, <1>2 DEF Keep, Unopened
<1>3. ASSUME OpenNew(d, Source(d))
      PROVE  /\ Unopened(d) /\ ~Unopened(d)' /\ \A e \in Devices \ {d} : fp'[e] = fp[e] /\ err'[e] = err[e]
             /\ fp' \in [Devices -> Streams] /\ err' \in [Devices -> BOOLEAN]
             /\ \/ fp'[d] = d /\ Source(d) # "none"
                \/ fp'[d] = "none" /\ Source(d) = "none"
  BY <1>1, <1>3 DEF OpenNew, Unopened, Streams
<1>4. ASSUME NEW v, NEW e \in Kind \ {d}, d \in Kind, Attach(d, v, e),
             v = IF d = "rdr" THEN "CPMRDR" ELSE "CPMPUN"
      PROVE  \/ OpenNew(d, Source(d)) /\ Alone(d)
             \/ (Unopened(d) /\ fp[e] # "none" /\ fp' = [fp EXCEPT ![d] = fp[e]] /\ UNCHANGED err)
  BY <1>4, SourceIs DEF Attach, Alone, Kind
<1>5. ASSUME NEW e \in Kind \ {d}, d \in Kind,
             Unopened(d) /\ fp[e] # "none" /\ fp' = [fp EXCEPT ![d] = fp[e]] /\ UNCHANGED err
      PROVE  /\ ~Unopened(d)' /\ \A i \in Devices \ {d} : fp'[i] = fp[i] /\ err'[i] = err[i]
             /\ fp' \in [Devices -> Streams] /\ err' \in [Devices -> BOOLEAN]
             /\ fp'[d] = fp[e]
  BY <1>1, <1>5 DEF Unopened, Devices, Kind
<1>6. CASE d = "lst" /\ OpenNew(d, Source(d))
  BY <1>3, <1>6 DEF Kind
<1>7. CASE d = "rdr" /\ Attach(d, "CPMRDR", "pun")
  BY <1>3, <1>4, <1>5, <1>7 DEF Kind
<1>8. CASE d = "pun" /\ Attach(d, "CPMPUN", "rdr")
  BY <1>3, <1>4, <1>5, <1>8 DEF Kind
<1> QED
  BY <1>2, <1>6, <1>7, <1>8 DEF Opening

(* A stream's uses are none before it is open.                             *)
LEMMA NoUses == ASSUME DevInv, NEW s \in Devices, fp[s] # s PROVE used[s] = <<>>
<1> SUFFICES ASSUME used[s] # <<>> PROVE FALSE
  OBVIOUS
<1>1. s \in Streams /\ 1 \in 1..Len(used[s]) /\ used[s][1] \in [dev : Devices, c : Int]
  <2> DEFINE q == used[s]
             R == [dev : Devices, c : Int]
  <2>1. s \in Streams /\ q \in Seq(R) /\ q # <<>>
    BY DEF DevInv, DevTypeOK, Streams
  <2> HIDE DEF q, R
  <2>2. 1 \in 1..Len(q) /\ q[1] \in R
    BY <2>1
  <2> QED
    BY <2>1, <2>2 DEF q, R
<1>2. used[s][1].dev \in Devices
  BY <1>1
<1>3. fp[used[s][1].dev] = s
  BY <1>1 DEF DevInv, OwnedOK
<1> QED
  BY <1>2, <1>3 DEF DevInv, OpenOK, Devices

(* The streams after the opening, and that in use before its use.          *)
LEMMA OpenedOK ==
  ASSUME DevInv, NEW d \in Devices, Opening(d), env' = env
  PROVE  /\ OpenOK'
         /\ \A e \in Devices : ~Unopened(e) => fp'[e] = fp[e] /\ err'[e] = err[e]
         /\ \A e \in Devices : fp'[e] = e => fp[e] = e \/ e = fp'[d]
         /\ fp'[d] # "none" =>
              /\ fp'[d] \in Devices /\ fp'[fp'[d]] = fp'[d]
              /\ Ready(d, Source(d)).file = Source(fp'[d])
              /\ Ready(d, Source(d)) \in StreamRec
              /\ StreamOK(used[fp'[d]], Ready(d, Source(d)), file[Source(fp'[d])])
<1>0. \A e \in Devices : Source(e)' = Source(e)
  BY DEF Source, Fopen
<1>1. OpenOK
  BY DEF DevInv
<1>2. OpenOK'
  <2>1. fp'["lst"] \in {"none", "lst"} /\ fp'["rdr"] \in {"none", "rdr", "pun"} /\ fp'["pun"] \in {"none", "rdr", "pun"}
    BY <1>1, OpeningIs DEF OpenOK, Devices, Kind, Alone
  <2>2. \A e \in Devices : fp'[e] # "none" => fp'[fp'[e]] = fp'[e]
    BY <1>1, <2>1, OpeningIs DEF OpenOK, Devices, Kind, Alone, Unopened
  <2>3. (env["CPMRDR"] = "unset" /\ env["CPMPUN"] = "unset" /\ fp'["rdr"] # "none" /\ fp'["pun"] # "none") =>
           fp'["rdr"] = fp'["pun"]
    BY <1>1, OpeningIs DEF OpenOK, Devices, Kind, Alone, Unopened
  <2>4. \A e \in Devices : fp'[e] = e => Source(e) # "none"
    BY <1>1, OpeningIs DEF OpenOK, Devices, Kind, Alone, Unopened
  <2> QED
    BY <1>0, <2>1, <2>2, <2>3, <2>4 DEF OpenOK
<1>3. \A e \in Devices : ~Unopened(e) => fp'[e] = fp[e] /\ err'[e] = err[e]
  BY OpeningIs DEF Unopened
<1>4. \A e \in Devices : fp'[e] = e => fp[e] = e \/ e = fp'[d]
  BY OpeningIs
<1>5. ASSUME fp'[d] # "none"
      PROVE  /\ fp'[d] \in Devices /\ fp'[fp'[d]] = fp'[d]
             /\ Ready(d, Source(d)).file = Source(fp'[d])
             /\ Ready(d, Source(d)) \in StreamRec
             /\ StreamOK(used[fp'[d]], Ready(d, Source(d)), file[Source(fp'[d])])
  <2>1. fp'[d] \in Devices /\ fp'[fp'[d]] = fp'[d]
    BY <1>2, <1>5, OpeningIs DEF OpenOK, Streams
  <2>2. CASE fp'[d] = d /\ fp[d] # d
    <3>1. Ready(d, Source(d)) = [file |-> Source(d), pos |-> 0, dir |-> "none"] /\ used[d] = <<>>
      BY <2>2, NoUses DEF Ready
    <3>2. Source(d) \in Files \cup {"none"}
      BY SourceFile DEF DevInv
    <3>3. Source(d) \in Files
      BY <1>2, <2>2, <3>2, <1>0 DEF OpenOK
    <3>4. file[Source(d)] \in Seq(Int)
      BY <3>3 DEF DevInv, DevTypeOK
    <3>5. StreamOK(<<>>, [file |-> Source(d), pos |-> 0, dir |-> "none"], file[Source(d)])
      BY <3>4 DEF StreamOK, WrittenAs, ReadAs
    <3> QED
      BY <2>1, <2>2, <3>1, <3>2, <3>5 DEF StreamRec
  <2>3. CASE ~(fp'[d] = d /\ fp[d] # d)
    <3>1. Ready(d, Source(d)) = stream[fp'[d]]
      BY <2>3 DEF Ready
    <3>2. fp[fp'[d]] = fp'[d]
      <4>1. fp'[d] # "none" /\ \A e \in Devices : fp[e] # "none" => fp[fp[e]] = fp[e]
        BY <1>1, <1>5 DEF OpenOK
      <4>2. fp'[d] = fp[d] \/ \E e \in Devices : fp'[d] = fp[e]
        BY <1>5, <2>3, OpeningIs DEF Devices, Kind, Unopened
      <4> QED
        BY <4>1, <4>2
    <3> QED
      BY <2>1, <3>1, <3>2 DEF DevInv, StreamsOK, DevTypeOK
  <2> QED
    BY <2>2, <2>3
<1> QED
  BY <1>2, <1>3, <1>4, <1>5

(* Streams that are not the same are on different files.                   *)
LEMMA Apart ==
  ASSUME NEW g, NEW d \in Devices, NEW e \in Devices, d # e, g[d] = d, g[e] = e, env \in [Vars -> {"unset", "set", "bad"}],
         Source(d) # "none", Source(e) # "none",
         (env["CPMRDR"] = "unset" /\ env["CPMPUN"] = "unset" /\ g["rdr"] # "none" /\ g["pun"] # "none") => g["rdr"] = g["pun"]
  PROVE  Source(d) # Source(e)
<1>1. env["CPMRDR"] # "unset" \/ env["CPMPUN"] # "unset" \/ d = "lst" \/ e = "lst"
  BY DEF Devices
<1> QED
  BY <1>1, SourceIs DEF Fopen, Devices, Vars

(* A use of device d: what it writes or reads, and where that leaves its   *)
(* stream and file.                                                        *)
LEMMA UseKeeps ==
  ASSUME DevInv, NEW d \in Devices, Opening(d), env' = env, NEW c \in Int, Note(d, c), ~ended',
         fp'[d] = "none" => UNCHANGED <<stream, file>>,
         fp'[d] # "none" =>
           LET s == Ready(d, Source(d)) IN
           \E z \in StreamRec, g \in Seq(Int) :
             /\ stream' = [stream EXCEPT ![fp'[d]] = z] /\ z.file = s.file
             /\ file' = [file EXCEPT ![s.file] = g]
             /\ StreamOK(Append(used[fp'[d]], [dev |-> d, c |-> c]), z, g)
  PROVE  DevInv'
<1>1. OpenOK' /\ (\A e \in Devices : ~Unopened(e) => fp'[e] = fp[e] /\ err'[e] = err[e])
  BY OpenedOK
<1>0. \A e \in Devices : Source(e)' = Source(e)
  BY DEF Source, Fopen
<1>2. DevTypeOK'
  <2>1. fp' \in [Devices -> Streams] /\ err' \in [Devices -> BOOLEAN]
    BY OpeningIs
  <2>2. used' \in [Streams -> Seq([dev : Devices, c : Int])]
    <3> DEFINE R == [dev : Devices, c : Int]
    <3>1. used \in [Streams -> Seq(R)] /\ [dev |-> d, c |-> c] \in R /\ fp'[d] \in Streams
      BY <2>1 DEF DevInv, DevTypeOK
    <3> HIDE DEF R
    <3>2. Append(used[fp'[d]], [dev |-> d, c |-> c]) \in Seq(R)
      BY <3>1
    <3>3. used' \in [Streams -> Seq(R)]
      BY <3>1, <3>2 DEF Note
    <3> QED
      BY <3>3 DEF R
  <2>3. CASE fp'[d] = "none"
    BY <2>1, <2>2, <2>3 DEF DevInv, DevTypeOK
  <2>4. CASE fp'[d] # "none"
    <3> DEFINE Z == StreamRec
    <3>1. \E z \in Z, g \in Seq(Int) :
             stream' = [stream EXCEPT ![fp'[d]] = z] /\ file' = [file EXCEPT ![Ready(d, Source(d)).file] = g]
      BY <2>4
    <3>2. stream \in [Devices -> Z] /\ file \in [Files -> Seq(Int)]
      BY DEF DevInv, DevTypeOK
    <3> HIDE DEF Z
    <3>3. PICK z \in Z, g \in Seq(Int) :
             stream' = [stream EXCEPT ![fp'[d]] = z] /\ file' = [file EXCEPT ![Ready(d, Source(d)).file] = g]
      BY <3>1
    <3>4. stream' \in [Devices -> Z]
      BY <3>2, <3>3
    <3>5. file' \in [Files -> Seq(Int)]
      BY <3>2, <3>3
    <3> QED
      BY <2>1, <2>2, <3>4, <3>5 DEF Z, DevInv, DevTypeOK
  <2> QED
    BY <2>3, <2>4
<1>3. OwnedOK'
  <2> SUFFICES ASSUME NEW s \in Streams, NEW k \in 1..Len(used'[s])
               PROVE  fp'[used'[s][k].dev] = s /\ (s # "none" \/ err'[used'[s][k].dev])
    BY DEF OwnedOK
  <2>1. used[s] \in Seq([dev : Devices, c : Int]) /\ fp'[d] \in Streams
    BY OpeningIs DEF DevInv, DevTypeOK
  <2>2. CASE s = fp'[d] /\ k = Len(used[s]) + 1
    <3>1. used'[s][k] = [dev |-> d, c |-> c]
      BY <2>1, <2>2 DEF Note, DevInv, DevTypeOK
    <3>2. ~Unopened(d)'
      BY OpeningIs
    <3> QED
      BY <2>2, <3>1, <3>2 DEF Unopened
  <2>3. CASE ~(s = fp'[d] /\ k = Len(used[s]) + 1)
    <3>1. k \in 1..Len(used[s]) /\ used'[s][k] = used[s][k]
      BY <2>1, <2>3 DEF Note, DevInv, DevTypeOK
    <3>2. used[s][k].dev \in Devices
      <4> DEFINE R == [dev : Devices, c : Int]
      <4>1. used[s] \in Seq(R) /\ \A x \in R : x.dev \in Devices
        BY <2>1
      <4> HIDE DEF R
      <4> QED
        BY <3>1, <4>1
    <3>3. fp[used[s][k].dev] = s /\ (s # "none" \/ err[used[s][k].dev])
      BY <3>1 DEF DevInv, OwnedOK
    <3> QED
      BY <1>1, <3>1, <3>2, <3>3 DEF Unopened
  <2> QED
    BY <2>2, <2>3
<1>4. StreamsOK'
  <2> SUFFICES ASSUME NEW e \in Devices, fp'[e] = e
               PROVE  stream'[e].file = Source(e) /\ StreamOK(used'[e], stream'[e], file'[Source(e)])
    BY <1>0 DEF StreamsOK
  <2>1. e \in Streams /\ "none" \notin Devices /\ fp' \in [Devices -> Streams] /\ fp'[d] \in Streams
    BY OpeningIs DEF Streams, Devices
  <2>2. CASE e = fp'[d]
    <3> DEFINE s == Ready(d, Source(d))
    <3>1. PICK z \in StreamRec, g \in Seq(Int) :
             /\ stream' = [stream EXCEPT ![fp'[d]] = z] /\ z.file = s.file
             /\ file' = [file EXCEPT ![s.file] = g]
             /\ StreamOK(Append(used[fp'[d]], [dev |-> d, c |-> c]), z, g)
      BY <2>1, <2>2
    <3>2. s.file = Source(e) /\ Source(e) # "none"
      BY <1>0, <1>1, <2>1, <2>2, OpenedOK DEF OpenOK
    <3>3. Source(e) \in Files
      BY <3>2, SourceFile DEF DevInv
    <3>4. stream'[e] = z /\ file'[Source(e)] = g /\ used'[e] = Append(used[fp'[d]], [dev |-> d, c |-> c])
      BY <2>1, <2>2, <3>1, <3>2, <3>3 DEF DevInv, DevTypeOK, Note
    <3> QED
      BY <3>1, <3>2, <3>4
  <2>3. CASE e # fp'[d]
    <3>1. fp[e] = e
      BY <2>3, OpenedOK
    <3>2. stream[e].file = Source(e) /\ StreamOK(used[e], stream[e], file[Source(e)])
      BY <3>1 DEF DevInv, StreamsOK
    <3>3. used'[e] = used[e]
      BY <2>1, <2>3 DEF Note, DevInv, DevTypeOK
    <3>4. stream'[e] = stream[e] /\ file'[Source(e)] = file[Source(e)]
      <4>1. CASE fp'[d] = "none"
        BY <4>1
      <4>2. CASE fp'[d] # "none"
        <5>1. fp'[d] \in Devices /\ fp'[fp'[d]] = fp'[d] /\ Ready(d, Source(d)).file = Source(fp'[d])
          BY <4>2, OpenedOK
        <5>2. Source(e) # Source(fp'[d])
          <6>1. Source(e) # "none" /\ Source(fp'[d]) # "none" /\ env \in [Vars -> {"unset", "set", "bad"}]
            BY <1>0, <1>1, <5>1 DEF OpenOK, DevInv, DevTypeOK
          <6>2. (env["CPMRDR"] = "unset" /\ env["CPMPUN"] = "unset" /\ fp'["rdr"] # "none" /\ fp'["pun"] # "none") =>
                   fp'["rdr"] = fp'["pun"]
            BY <1>1 DEF OpenOK
          <6> QED
            BY <2>3, <5>1, <6>1, <6>2, Apart
        <5>3. \E z, g : stream' = [stream EXCEPT ![fp'[d]] = z] /\ file' = [file EXCEPT ![Source(fp'[d])] = g]
          BY <4>2, <5>1
        <5>4. DOMAIN stream = Devices /\ DOMAIN file = Files /\ Source(e) \in Files
          BY <1>0, <1>1, SourceFile DEF DevInv, DevTypeOK, OpenOK
        <5> QED
          BY <2>3, <5>2, <5>3, <5>4
      <4> QED
        BY <4>1, <4>2
    <3> QED
      BY <3>2, <3>3, <3>4
  <2> QED
    BY <2>2, <2>3
<1> QED
  BY <1>1, <1>2, <1>3, <1>4 DEF DevInv

(* A character is written, or lost on a stream that was read before.       *)
LEMMA OutKeeps == ASSUME DevInv, NEW d \in {"lst", "pun"}, Opening(d), Out(d), ~ended PROVE DevInv'
<1> DEFINE c == 10 + UseCount
           s == Ready(d, Source(d))
           t == fp'[d]
<1>0. d \in Devices /\ d # "rdr" /\ env' = env /\ ended' = ended /\ Note(d, c)
  BY DEF Out, Devices
<1>1. c \in Int
  BY DEF DevInv, DevTypeOK, UseCount, Streams, Devices
<1>2. ASSUME t # "none"
      PROVE  \E z \in StreamRec, g \in Seq(Int) :
               /\ stream' = [stream EXCEPT ![t] = z] /\ z.file = s.file
               /\ file' = [file EXCEPT ![s.file] = g]
               /\ StreamOK(Append(used[t], [dev |-> d, c |-> c]), z, g)
  <2>1. /\ t \in Devices /\ s.file = Source(t)
        /\ s \in StreamRec
        /\ StreamOK(used[t], s, file[Source(t)])
    BY <1>0, <1>2, OpenedOK
  <2>2. used[t] \in Seq([dev : Devices, c : Int]) /\ file \in [Files -> Seq(Int)] /\ Source(t) \in Files
    <3>1. Source(t) # "none"
      <4>1. fp'[t] = t /\ OpenOK'
        BY <1>0, <1>2, OpenedOK
      <4>2. \A e \in Devices : Source(e)' = Source(e)
        BY <1>0 DEF Source, Fopen
      <4> QED
        BY <2>1, <4>1, <4>2 DEF OpenOK
    <3> QED
      BY <2>1, <3>1, SourceFile DEF DevInv, DevTypeOK, Streams
  <2> DEFINE F == file[Source(t)]
             h == Append(used[t], [dev |-> d, c |-> c])
  <2>3. F \in Seq(Int) /\ Len(h) = Len(used[t]) + 1 /\ h[Len(h)] = [dev |-> d, c |-> c] /\ \A k \in 1..Len(used[t]) : h[k] = used[t][k]
    BY <2>2
  <2>4. ~ \A k \in 1..Len(h) : h[k].dev = "rdr"
    <3>1. Len(h) \in 1..Len(h)
      BY <2>2, <2>3
    <3> QED
      BY <1>0, <2>3, <3>1
  <2>5. CASE s.dir = "read" /\ stream' = [stream EXCEPT ![t] = s] /\ UNCHANGED file
    <3>1. ~ \A k \in 1..Len(used[t]) : used[t][k].dev # "rdr"
      BY <2>1, <2>5 DEF StreamOK, WrittenAs
    <3>2. ~ \A k \in 1..Len(h) : h[k].dev # "rdr"
      BY <2>2, <2>3, <3>1
    <3>3. StreamOK(h, s, F)
      BY <2>1, <2>4, <3>2, Zenon DEF StreamOK, WrittenAs, ReadAs
    <3>4. file' = [file EXCEPT ![s.file] = F]
      BY <2>1, <2>2, <2>5
    <3> QED
      BY <2>1, <2>3, <2>5, <3>3, <3>4
  <2>6. CASE /\ file' = [file EXCEPT ![s.file] =
                           [k \in 1..(IF s.pos < Len(@) THEN Len(@) ELSE s.pos + 1) |-> IF k = s.pos + 1 THEN c ELSE @[k]]]
             /\ stream' = [stream EXCEPT ![t] = [s EXCEPT !.pos = @ + 1, !.dir = "write"]]
    <3> DEFINE n == IF s.pos < Len(F) THEN Len(F) ELSE s.pos + 1
               g == [k \in 1..n |-> IF k = s.pos + 1 THEN c ELSE F[k]]
               z == [s EXCEPT !.pos = @ + 1, !.dir = "write"]
    <3>1. file' = [file EXCEPT ![s.file] = g]
      BY <2>1, <2>2, <2>6
    <3>2. z \in StreamRec /\ z.file = s.file /\ z.pos = s.pos + 1 /\ z.dir = "write"
      <4>1. z = Moved(s, s.pos + 1, "write") /\ s \in StreamRec /\ s.pos + 1 \in Nat
        BY <2>1, StreamIs DEF Moved
      <4> HIDE DEF z, s
      <4> QED
        BY <4>1, MovedIs
    <3>3. g \in Seq(Int)
      <4>1. s.pos \in Nat /\ Len(F) \in Nat
        BY <2>1, <2>3, StreamIs
      <4>2. s.pos <= Len(F)
        BY <2>1 DEF StreamOK
      <4>3. n \in Nat /\ n <= Len(F) + 1 /\ \A k \in 1..n : k # s.pos + 1 => k \in 1..Len(F)
        BY <4>1, <4>2
      <4>4. g \in [1..n -> Int]
        BY <1>1, <2>3, <4>3
      <4> HIDE DEF n, g
      <4> QED
        BY <4>3, <4>4
    <3>4. StreamOK(h, z, g)
      <4> SUFFICES ASSUME \A k \in 1..Len(h) : h[k].dev # "rdr"
                   PROVE  z.pos = Len(h) /\ Len(h) <= Len(g) /\ \A k \in 1..Len(h) : g[k] = h[k].c
        <5>1. z.pos <= Len(g)
          <6>1. s.pos \in Nat /\ Len(F) \in Nat
            BY <2>1, <2>3, StreamIs
          <6>2. Len(g) = (IF s.pos < Len(F) THEN Len(F) ELSE s.pos + 1)
            BY <6>1
          <6> QED
            BY <3>2, <6>1, <6>2
        <5> QED
          BY <2>4, <3>2, <5>1 DEF StreamOK, WrittenAs, ReadAs
      <4>1. \A k \in 1..Len(used[t]) : used[t][k].dev # "rdr"
        <5>1. \A k \in 1..Len(used[t]) : k \in 1..Len(h)
          BY <2>2, <2>3
        <5> HIDE DEF h
        <5> QED
          BY <2>3, <5>1
      <4>2. s.pos = Len(used[t]) /\ Len(used[t]) <= Len(F) /\ \A k \in 1..Len(used[t]) : F[k] = used[t][k].c
        BY <2>1, <4>1 DEF StreamOK, WrittenAs
      <4>3. Len(used[t]) \in Nat /\ Len(F) \in Nat
        BY <2>2, <2>3
      <4>4. Len(g) = n /\ n >= Len(h) /\ n \in Nat
        BY <2>3, <4>2, <4>3
      <4>5. \A k \in 1..Len(h) : g[k] = h[k].c
        <5>1. SUFFICES ASSUME NEW k \in 1..Len(h) PROVE g[k] = h[k].c
          OBVIOUS
        <5>2. k \in 1..n
          BY <4>4, <5>1, <2>3, <4>3
        <5> HIDE DEF n
        <5>3. g[k] = IF k = s.pos + 1 THEN c ELSE F[k]
          BY <5>2
        <5> HIDE DEF g, h
        <5>4. CASE k = Len(used[t]) + 1
          BY <2>3, <4>2, <5>3, <5>4
        <5>5. CASE k \in 1..Len(used[t])
          <6>1. k # s.pos + 1
            BY <4>2, <4>3, <5>5
          <6>2. h[k] = used[t][k]
            BY <2>3, <5>5
          <6>3. F[k] = used[t][k].c
            BY <4>2, <5>5
          <6> QED
            BY <5>3, <6>1, <6>2, <6>3, Zenon
        <5> QED
          BY <2>3, <4>3, <5>1, <5>4, <5>5
      <4> QED
        BY <2>3, <3>2, <4>2, <4>3, <4>4, <4>5
    <3> QED
      BY <2>6, <3>1, <3>2, <3>3, <3>4
  <2> QED
    BY <1>2, <2>5, <2>6 DEF Out, Putc
<1>3. t = "none" => UNCHANGED <<stream, file>>
  BY DEF Out
<1> QED
  BY <1>0, <1>1, <1>2, <1>3, UseKeeps

(* A character is read, or 1AH is the answer.                              *)
LEMMA RdrKeeps == ASSUME DevInv, RdrIn, ~ended PROVE DevInv'
<1> DEFINE s == Ready("rdr", Source("rdr"))
           t == fp'["rdr"]
           F == file[Source(t)]
<1>0. "rdr" \in Devices /\ env' = env /\ file' = file /\ Opening("rdr")
  BY DEF RdrIn, Devices, Opening
<1>1. ASSUME t # "none"
      PROVE  /\ t \in Devices /\ s.file = Source(t) /\ s \in StreamRec /\ StreamOK(used[t], s, F)
             /\ used[t] \in Seq([dev : Devices, c : Int]) /\ file \in [Files -> Seq(Int)] /\ Source(t) \in Files
  <2>1. t \in Devices /\ s.file = Source(t) /\ s \in StreamRec /\ StreamOK(used[t], s, F) /\ fp'[t] = t /\ OpenOK'
    BY <1>0, <1>1, OpenedOK
  <2>2. \A e \in Devices : Source(e)' = Source(e)
    BY <1>0 DEF Source, Fopen
  <2> QED
    <3>1. Source(t) # "none"
      BY <2>1, <2>2 DEF OpenOK
    <3>2. Source(t) \in Files
      BY <2>1, <3>1, SourceFile DEF DevInv
    <3> QED
      BY <2>1, <3>2 DEF DevInv, DevTypeOK, Streams
<1>2. CASE t # "none" /\ Getc(s) /\ UNCHANGED ended
  <2> DEFINE c == file[s.file][s.pos + 1]
             z == [s EXCEPT !.pos = @ + 1, !.dir = "read"]
             h == Append(used[t], [dev |-> "rdr", c |-> c])
  <2>1. s.pos \in Nat /\ F \in Seq(Int) /\ s.pos < Len(F) /\ s.file = Source(t)
    BY <1>1, <1>2, StreamIs DEF Getc
  <2>2. c \in Int /\ c = F[s.pos + 1]
    BY <2>1
  <2>3. Note("rdr", c) /\ stream' = [stream EXCEPT ![t] = z]
    BY <1>2 DEF Getc
  <2>4. z \in StreamRec /\ z.file = s.file /\ z.pos = s.pos + 1 /\ z.dir = "read"
    <3>1. z = Moved(s, s.pos + 1, "read") /\ s \in StreamRec /\ s.pos + 1 \in Nat
      BY <1>1, <1>2, StreamIs DEF Moved
    <3> HIDE DEF z, s
    <3> QED
      BY <3>1, MovedIs
  <2>5. StreamOK(h, z, F)
    <3>1. used[t] \in Seq([dev : Devices, c : Int]) /\ s \in StreamRec /\ StreamOK(used[t], s, F)
      BY <1>1, <1>2
    <3> HIDE DEF s, t, c, z, F
    <3> QED
      BY <2>1, <2>2, <2>4, <3>1, ReaderUse
  <2>6. file' = [file EXCEPT ![s.file] = F]
    BY <1>0, <1>1, <1>2
  <2> QED
    BY <1>0, <1>1, <1>2, <2>1, <2>2, <2>3, <2>4, <2>5, <2>6, UseKeeps
<1>3. CASE EndOfFile(s)
  <2> DEFINE z == IF s.dir = "write" THEN s ELSE [s EXCEPT !.dir = "none"]
             h == Append(used[t], [dev |-> "rdr", c |-> 26])
  <2>1. Note("rdr", 26)
    BY <1>3 DEF EndOfFile
  <2>a. ~ ended'
    <3>1. ended' = (Ending - 1 = 0)
      BY <1>3 DEF EndOfFile
    <3>2. Ending - 1 # 0
      BY DevicesAssumption DEF Ending
    <3> QED
      BY <3>1, <3>2
  <2>2. t = "none" => UNCHANGED <<stream, file>>
    BY <1>0, <1>3 DEF EndOfFile
  <2>3. ASSUME t # "none"
        PROVE  \E y \in StreamRec, g \in Seq(Int) : /\ stream' = [stream EXCEPT ![t] = y] /\ y.file = s.file
                                                   /\ file' = [file EXCEPT ![s.file] = g] /\ StreamOK(h, y, g)
    <3>1. s.pos \in Nat /\ F \in Seq(Int) /\ s.file = Source(t) /\ (s.pos >= Len(F) \/ s.dir = "write") /\ s \in StreamRec
      BY <1>1, <1>3, <2>3, StreamIs DEF EndOfFile
    <3>2. stream' = [stream EXCEPT ![t] = z]
      BY <1>3, <2>3 DEF EndOfFile
    <3>3. z \in StreamRec /\ z.file = s.file /\ z.pos = s.pos /\ (IF s.dir = "write" THEN z = s ELSE z.dir = "none")
      <4> HIDE DEF s
      <4> QED
        BY <3>1, Turned
    <3>4. StreamOK(h, z, F)
      <4>1. used[t] \in Seq([dev : Devices, c : Int]) /\ s \in StreamRec /\ StreamOK(used[t], s, F)
        BY <1>1, <2>3
      <4>2. 26 \in Int
        OBVIOUS
      <4> HIDE DEF s, t, z, F
      <4>3. CASE s.dir = "write"
        BY <3>1, <3>3, <4>1, <4>2, <4>3, ReaderUse
      <4>4. CASE s.dir # "write"
        BY <3>1, <3>3, <4>1, <4>2, <4>4, ReaderUse
      <4> QED
        BY <4>3, <4>4
    <3>5. file' = [file EXCEPT ![s.file] = F]
      BY <1>0, <1>1, <2>3
    <3> QED
      BY <3>1, <3>2, <3>3, <3>4, <3>5
  <2> QED
    BY <1>0, <2>1, <2>a, <2>2, <2>3, UseKeeps
<1> QED
  BY <1>2, <1>3 DEF RdrIn

LEMMA DevStep == ASSUME DevInv, [DevNext]_devVars PROVE DevInv'
<1>1. CASE UNCHANGED devVars
  <2>1. \A e \in Devices : Source(e)' = Source(e)
    BY <1>1 DEF Source, Fopen, devVars
  <2>2. UNCHANGED <<env, fp, err, stream, file, used, ended>>
    BY <1>1 DEF devVars
  <2>3. DevTypeOK' /\ OwnedOK'
    BY <2>2 DEF DevInv, DevTypeOK, OwnedOK
  <2>4. OpenOK'
    BY <2>1, <2>2 DEF DevInv, OpenOK
  <2>5. StreamsOK'
    BY <2>1, <2>2 DEF DevInv, StreamsOK
  <2> QED
    BY <2>3, <2>4, <2>5 DEF DevInv
<1>2. CASE ~ended /\ LstOut
  BY <1>2, OutKeeps DEF LstOut, Opening
<1>3. CASE ~ended /\ PunOut
  BY <1>3, OutKeeps DEF PunOut, Opening
<1>4. CASE ~ended /\ RdrIn
  BY <1>4, RdrKeeps
<1> QED
  BY <1>1, <1>2, <1>3, <1>4 DEF DevNext

LEMMA DevExact == ASSUME DevInv PROVE DevicesExact
<1>1. \A s, t \in Streams : \A j \in 1..Len(used[s]), k \in 1..Len(used[t]) : used[s][j].dev = used[t][k].dev => s = t
  BY DEF DevInv, OwnedOK
<1>2. \A d \in {"rdr", "pun"} : fp["lst"] # "none" => fp[d] # fp["lst"]
  BY DEF DevInv, OpenOK
<1>3. ASSUME NEW d \in Devices, fp[d] # "none"
      PROVE  /\ used[fp[d]] \in Seq([dev : Devices, c : Int]) /\ file[stream[fp[d]].file] \in Seq(Int)
             /\ StreamOK(used[fp[d]], stream[fp[d]], file[stream[fp[d]].file])
  <2>1. fp[d] \in Devices /\ fp[fp[d]] = fp[d] /\ fp[d] \in Streams
    BY <1>3 DEF DevInv, DevTypeOK, OpenOK, Streams
  <2>2. Source(fp[d]) \in Files
    BY <2>1, SourceFile DEF DevInv, OpenOK
  <2> QED
    BY <2>1, <2>2 DEF DevInv, DevTypeOK, StreamsOK
<1>4. ASSUME NEW d \in {"lst", "pun"}, fp[d] # "none", OnlyBy(fp[d], d)
      PROVE  SubSeq(file[stream[fp[d]].file], 1, Len(Said(fp[d]))) = Said(fp[d])
  <2> DEFINE h == used[fp[d]]
             F == file[stream[fp[d]].file]
  <2>1. h \in Seq([dev : Devices, c : Int]) /\ F \in Seq(Int) /\ StreamOK(h, stream[fp[d]], F)
    BY <1>3, <1>4 DEF Devices
  <2>2. \A k \in 1..Len(h) : h[k].dev # "rdr"
    BY <1>4 DEF OnlyBy
  <2>3. Len(h) <= Len(F) /\ \A k \in 1..Len(h) : F[k] = h[k].c
    BY <2>1, <2>2 DEF StreamOK, WrittenAs
  <2>4. Said(fp[d]) = [k \in 1..Len(h) |-> h[k].c] /\ Len(Said(fp[d])) = Len(h) /\ Len(h) \in Nat
    BY <2>1 DEF Said
  <2> HIDE DEF F, h
  <2>5. SubSeq(F, 1, Len(h)) = [k \in 1..Len(h) |-> F[k]]
    BY <2>1, <2>3, <2>4
  <2> QED
    BY <2>3, <2>4, <2>5 DEF F
<1>5. ASSUME fp["rdr"] # "none", OnlyBy(fp["rdr"], "rdr")
      PROVE  \A k \in 1..Len(Said(fp["rdr"])) :
               Said(fp["rdr"])[k] = IF k <= Len(file[stream[fp["rdr"]].file]) THEN file[stream[fp["rdr"]].file][k] ELSE 26
  <2> DEFINE h == used[fp["rdr"]]
             F == file[stream[fp["rdr"]].file]
  <2>1. h \in Seq([dev : Devices, c : Int]) /\ StreamOK(h, stream[fp["rdr"]], F)
    BY <1>3, <1>5 DEF Devices
  <2>2. \A k \in 1..Len(h) : h[k].c = IF k <= Len(F) THEN F[k] ELSE 26
    BY <1>5, <2>1 DEF StreamOK, ReadAs, OnlyBy
  <2>3. Said(fp["rdr"]) = [k \in 1..Len(h) |-> h[k].c] /\ Len(Said(fp["rdr"])) = Len(h)
    BY <2>1 DEF Said
  <2> QED
    BY <2>2, <2>3
<1> QED
  BY <1>1, <1>2, <1>4, <1>5 DEF DevicesExact, DevInv, DevTypeOK, OpenOK

(* Whatever the environment names for the printer, the reader and the      *)
(* punch: each keeps one stream for the whole run, the printer's is its    *)
(* own, what is written is in its file in order, and what is read is the   *)
(* file and then 1AH (cpm_lst_out, cpm_rdr_in, cpm_pun_out).               *)
THEOREM DevicesTheorem == DevSpec => []DevicesExact
<1>1. DevInv /\ [DevNext]_devVars => DevInv'
  BY DevStep
<1> QED
  BY <1>1, DevInitial, DevExact, PTL DEF DevSpec

-----------------------------------------------------------------------------
(***************************************************************************)
(* Cells and lines of the console.                                         *)
(***************************************************************************)
LEMMA Quotient ==
  ASSUME NEW m \in Nat, m > 0, NEW q \in Int, NEW r \in 0..m - 1
  PROVE  (q * m + r) \div m = q /\ (q * m + r) % m = r
<1> DEFINE n == q * m + r
           d == n \div m
           e == n % m
<1>1. n \in Int
  OBVIOUS
<1>2. n = m * d + e /\ e \in 0..m - 1 /\ d \in Int
  <2> HIDE DEF n
  <2> QED
    BY <1>1
<1>3. q * m + r = m * d + e
  BY <1>2
<1> HIDE DEF n, d, e
<1>4. (q - d) * m = e - r /\ q - d \in Int
  BY <1>2, <1>3
<1> DEFINE k == q - d
<1>5. k \in Int /\ k * m = e - r
  BY <1>4
<1> HIDE DEF k
<1>6. k >= 1 => k * m >= m
  BY <1>5
<1>7. k <= -1 => k * m <= -m
  BY <1>5
<1>8. k = 0
  BY <1>2, <1>5, <1>6, <1>7
<1>9. q = d
  BY <1>2, <1>8 DEF k
<1>10. r = e
  BY <1>2, <1>5, <1>8
<1> QED
  BY <1>9, <1>10 DEF d, e, n

LEMMA Division ==
  ASSUME NEW m \in Nat, m > 0, NEW n \in Nat
  PROVE  n \div m \in Nat /\ n % m \in 0..m - 1 /\ n = (n \div m) * m + (n % m)
<1>1. n \div m \in Int /\ n % m \in 0..m - 1
  OBVIOUS
<1>2. n = m * (n \div m) + (n % m)
  OBVIOUS
<1> DEFINE d == n \div m
           e == n % m
<1>3. d \in Int /\ e \in 0..m - 1 /\ n = d * m + e
  BY <1>1, <1>2
<1> HIDE DEF d, e
<1>4. d <= -1 => d * m <= -m
  BY <1>3
<1>5. d >= 0
  BY <1>3, <1>4
<1> QED
  BY <1>3, <1>5 DEF d, e

(* A number of bytes keeps its remainder as digits come.                   *)
LEMMA DigitMod ==
  ASSUME NEW m \in Nat, m > 0, NEW a \in Nat, NEW d \in Nat
  PROVE  ((a % m) * 10 + d) % m = (a * 10 + d) % m
<1> DEFINE q == a \div m
           r == a % m
           b == r * 10 + d
           p == b \div m
           e == b % m
<1>1. q \in Nat /\ r \in Nat /\ a = q * m + r
  BY Division
<1>2. b \in Nat
  BY <1>1
<1>3. p \in Nat /\ e \in 0..m - 1 /\ b = p * m + e
  <2> HIDE DEF b
  <2> QED
    BY <1>2, Division
<1>4. a * 10 + d = (10 * q + p) * m + e
  <2> HIDE DEF q, r, p, e
  <2>1. a * 10 + d = 10 * (q * m) + b
    BY <1>1
  <2> HIDE DEF b
  <2>2. (10 * q + p) * m = 10 * (q * m) + p * m
    BY <1>1, <1>3
  <2>3. q * m \in Nat /\ p * m \in Nat
    BY <1>1, <1>3
  <2> QED
    BY <1>3, <2>1, <2>2, <2>3
<1>5. 10 * q + p \in Int
  BY <1>1, <1>3
<1> HIDE DEF q, p
<1>6. ((10 * q + p) * m + e) % m = e
  <2> HIDE DEF e
  <2> QED
    BY <1>3, <1>5, Quotient
<1> QED
  BY <1>4, <1>6

Cells == 0..W * H - 1

LEMMA CellIs ==
  ASSUME NEW i \in Cells
  PROVE  /\ i \div W \in Lines /\ i % W \in Cols /\ i = (i \div W) * W + (i % W)
<1>1. i \div W \in Nat /\ i % W \in 0..W - 1 /\ i = (i \div W) * W + (i % W) /\ i < W * H /\ W \in Nat /\ H \in Nat /\ W > 0
  BY Division, ConsoleAssumption DEF Cells
<1> DEFINE y == i \div W
           x == i % W
<1>2. y \in Nat /\ x \in 0..W - 1 /\ y * W + x < W * H
  BY <1>1
<1> HIDE DEF y, x
<1>3. y >= H => y * W >= H * W
  BY <1>1, <1>2
<1>4. y < H
  BY <1>1, <1>2, <1>3
<1> QED
  BY <1>1, <1>2, <1>4 DEF y, x, Lines, Cols

LEMMA IsCell ==
  ASSUME NEW y \in Lines, NEW x \in Cols PROVE y * W + x \in Cells
<1>1. W \in Nat /\ H \in Nat /\ y \in Nat /\ x \in Nat /\ x < W /\ y <= H - 1 /\ H - 1 \in Nat
  BY ConsoleAssumption DEF Lines, Cols
<1>2. y * W <= (H - 1) * W
  BY <1>1
<1>3. (H - 1) * W = W * H - W /\ y * W \in Nat /\ W * H \in Nat
  BY <1>1
<1> QED
  BY <1>1, <1>2, <1>3 DEF Cells

(* The cells of a line.                                                    *)
LEMMA OfLine ==
  ASSUME NEW i \in Cells, NEW y \in Lines
  PROVE  i \div W = y <=> i >= y * W /\ i < y * W + W
<1> DEFINE q == i \div W
           x == i % W
<1>1. q \in Nat /\ x \in Nat /\ x < W /\ i = q * W + x /\ W \in Nat /\ y \in Nat /\ W > 0
  BY CellIs, ConsoleAssumption DEF Lines, Cols
<1> HIDE DEF q, x
<1>2. q >= y + 1 => q * W >= (y + 1) * W
  BY <1>1
<1>3. q + 1 <= y => (q + 1) * W <= y * W
  BY <1>1
<1>4. (y + 1) * W = y * W + W /\ (q + 1) * W = q * W + W /\ y * W \in Nat /\ q * W \in Nat
  BY <1>1
<1>5. q = y <=> i >= y * W /\ i < y * W + W
  BY <1>1, <1>2, <1>3, <1>4
<1> QED
  BY <1>5 DEF q

(***************************************************************************)
(* What is on the screen.                                                  *)
(***************************************************************************)
ScreenOK == cells \in [Cells -> BOOLEAN] /\ cur \in [x : Cols, y : Lines] /\ saved \in [x : Cols, y : Lines]

LEMMA Cursor == ASSUME ScreenOK PROVE cur.x \in Cols /\ cur.y \in Lines /\ saved.x \in Cols /\ saved.y \in Lines
  BY DEF ScreenOK

LEMMA CursorSet == ASSUME ScreenOK, NEW x, NEW y, SetCursor(x, y) PROVE cur' \in [x : Cols, y : Lines]
  BY DEF ScreenOK, SetCursor

LEMMA FilledOK == ASSUME ScreenOK, NEW from, NEW size PROVE Filled(from, size) \in [Cells -> BOOLEAN]
  BY DEF ScreenOK, Filled

LEMMA ScrolledOK ==
  ASSUME ScreenOK, NEW top \in Nat, NEW bottom \in Int, bottom < H, NEW dst \in Int
  PROVE  Scrolled(top, bottom, dst) \in [Cells -> BOOLEAN]
<1> SUFFICES ASSUME NEW i \in Cells, i \div W - dst + top \in top..bottom
             PROVE  cells[(i \div W - dst + top) * W + (i % W)] \in BOOLEAN
  BY DEF ScreenOK, Scrolled
<1>1. i \div W - dst + top \in Lines /\ i % W \in Cols
  BY CellIs, ConsoleAssumption DEF Lines
<1> QED
  BY <1>1, IsCell DEF ScreenOK

LEMMA GotoXYKeeps == ASSUME ScreenOK, NEW x, NEW y, GotoXY(x, y) PROVE ScreenOK'
  BY CursorSet DEF GotoXY, ScreenOK

LEMMA GotoDXYKeeps == ASSUME ScreenOK, NEW x, NEW y, GotoDXY(x, y) PROVE ScreenOK'
  BY CursorSet DEF GotoDXY, ScreenOK

LEMMA ClsKeeps == ASSUME ScreenOK, NEW v, Cls(v) PROVE ScreenOK'
  BY CursorSet, FilledOK DEF Cls, ScreenOK

LEMMA ClrLnKeeps == ASSUME ScreenOK, NEW v, ClrLn(v) PROVE ScreenOK'
  BY FilledOK DEF ClrLn, ScreenOK

LEMMA ScrollKeeps == ASSUME ScreenOK, NEW n \in Int, Scroll(n) PROVE ScreenOK'
<1>1. cur.y \in Nat /\ H - 1 \in Int /\ H - 1 < H
  BY Cursor, ConsoleAssumption DEF Lines
<1>2. cur.y + (IF n >= 0 THEN n ELSE 0) \in Nat /\ cur.y - (IF n >= 0 THEN 0 ELSE n) \in Int
  BY <1>1
<1> QED
  BY <1>1, <1>2, ScrolledOK DEF Scroll, ScreenOK

LEMMA UpKeeps == ASSUME ScreenOK, Up PROVE ScreenOK'
<1>1. Scrolled(0, H - 2, 1) \in [Cells -> BOOLEAN]
  BY ScrolledOK, ConsoleAssumption
<1> QED
  BY <1>1, CursorSet DEF Up, ScreenOK

LEMMA DownKeeps == ASSUME ScreenOK, Down PROVE ScreenOK'
<1>1. Scrolled(1, H - 1, 0) \in [Cells -> BOOLEAN]
  BY ScrolledOK, ConsoleAssumption
<1> QED
  BY <1>1, CursorSet DEF Down, ScreenOK

LEMMA LeftKeeps == ASSUME ScreenOK, Left PROVE ScreenOK'
<1>1. Scrolled(1, H - 1, 0) \in [Cells -> BOOLEAN]
  BY ScrolledOK, ConsoleAssumption
<1> QED
  BY <1>1, CursorSet DEF Left, ScreenOK

LEMMA WriteKeeps == ASSUME ScreenOK, WriteCell PROVE ScreenOK'
<1> DEFINE here == [cells EXCEPT ![Place(cur)] = TRUE]
<1>1. cells' \in [Cells -> BOOLEAN] /\ saved' = saved
  BY DEF WriteCell, ScreenOK
<1>2. cur' \in [x : Cols, y : Lines]
  BY Cursor, ConsoleAssumption DEF WriteCell, ScreenOK, Cols, Lines
<1> QED
  BY <1>1, <1>2 DEF ScreenOK

(***************************************************************************)
(* The parameters of a sequence.                                           *)
(***************************************************************************)
ParseOK ==
  /\ conout \in BOOLEAN
  /\ stat \in {"start", "nop", "char", "esc", "eq", "eq2", "ansi"}
  /\ argN \in 0..NArgs - 1 /\ escArgs \in [0..NArgs - 1 -> 0..ByteMod - 1]
  /\ params \in [chars : Nat, nums : Seq(Nat)]

Formed ==
  LET n == Len(params.nums) IN
  /\ argN = IF n <= NArgs THEN n - 1 ELSE NArgs - 1
  /\ \A k \in 0..argN : escArgs[k] = params.nums[IF k = NArgs - 1 THEN n ELSE k + 1] % ByteMod
  /\ argN = 0 => escArgs[1] = 0

ConInv == ScreenOK /\ ParseOK /\ (stat = "ansi" => Formed)

LEMMA ConInitial == ConInit => ConInv
<1>1. 0 \in Cols /\ 0 \in Lines /\ 0 \in 0..NArgs - 1 /\ 0 \in 0..ByteMod - 1
  BY ConsoleAssumption DEF Cols, Lines
<1> QED
  BY <1>1 DEF ConInit, ConInv, ScreenOK, ParseOK, Cells, NoParams

LEMMA ParamsIs ==
  ASSUME ParseOK
  PROVE  params.chars \in Nat /\ params.nums \in Seq(Nat) /\ Len(params.nums) \in Nat
  BY DEF ParseOK

(* The numbers change with each character.                                 *)
LEMMA BracketForms == ASSUME ConInv, EscBracket PROVE ConInv'
<1>1. /\ argN' = 0 /\ params' = [chars |-> 0, nums |-> <<0>>] /\ escArgs' = [escArgs EXCEPT ![0] = 0, ![1] = 0]
      /\ stat' = "ansi" /\ UNCHANGED <<conout, cells, cur, saved>>
  BY DEF EscBracket, screen
<1>2. NArgs \in Nat /\ NArgs > 1 /\ ByteMod \in Nat /\ ByteMod > 1 /\ 0 \in 0..NArgs - 1 /\ 1 \in 0..NArgs - 1 /\ 0 \in 0..ByteMod - 1
  BY ConsoleAssumption
<1>3. ParseOK'
  BY <1>1, <1>2 DEF ConInv, ParseOK
<1>4. Formed'
  <2>1. escArgs'[0] = 0 /\ escArgs'[1] = 0
    BY <1>1, <1>2 DEF ConInv, ParseOK
  <2>2. params'.nums = <<0>> /\ Len(params'.nums) = 1 /\ params'.nums[1] = 0
    BY <1>1
  <2>3. 0 % ByteMod = 0
    BY <1>2
  <2> QED
    BY <1>1, <1>2, <2>1, <2>2, <2>3 DEF Formed
<1>5. ScreenOK'
  BY <1>1 DEF ConInv, ScreenOK
<1> QED
  BY <1>1, <1>3, <1>4, <1>5 DEF ConInv

LEMMA DigitForms == ASSUME ConInv, NEW d \in Digits, Digit(d) PROVE ConInv'
<1> DEFINE n == Len(params.nums)
           nums == [params.nums EXCEPT ![n] = @ * 10 + d]
<1>1. /\ stat = "ansi" /\ escArgs' = [escArgs EXCEPT ![argN] = (@ * 10 + d) % ByteMod]
      /\ params' = [chars |-> params.chars + 1, nums |-> nums] /\ UNCHANGED <<conout, stat, argN, cells, cur, saved>>
  BY DEF Digit, More, screen
<1>2. NArgs \in Nat /\ NArgs > 1 /\ ByteMod \in Nat /\ ByteMod > 1 /\ d \in Nat
  BY ConsoleAssumption
<1>3. ParseOK /\ Formed /\ params.nums \in Seq(Nat) /\ n \in Nat /\ params.chars \in Nat
  BY <1>1, ParamsIs DEF ConInv
<1>4. argN \in 0..NArgs - 1 /\ n >= 1 /\ escArgs \in [0..NArgs - 1 -> 0..ByteMod - 1]
  BY <1>2, <1>3 DEF ParseOK, Formed
<1>5. params.nums[n] \in Nat
  BY <1>3, <1>4
<1>6. nums \in Seq(Nat) /\ Len(nums) = n /\ nums[n] = params.nums[n] * 10 + d /\ \A k \in 1..n - 1 : nums[k] = params.nums[k]
  <2>1. params.nums[n] * 10 + d \in Nat
    BY <1>2, <1>5
  <2> QED
    BY <1>3, <1>4, <2>1
<1>7. (escArgs[argN] * 10 + d) % ByteMod \in 0..ByteMod - 1
  <2>1. escArgs[argN] * 10 + d \in Nat
    BY <1>2, <1>4
  <2> QED
    BY <1>2, <2>1
<1>8. params'.nums = nums /\ params' \in [chars : Nat, nums : Seq(Nat)]
  BY <1>1, <1>3, <1>6
<1>9. ParseOK'
  <2>1. escArgs' \in [0..NArgs - 1 -> 0..ByteMod - 1]
    BY <1>1, <1>4, <1>7
  <2> QED
    BY <1>1, <1>3, <1>8, <2>1 DEF ParseOK
<1>10. Formed'
  <2> HIDE DEF nums
  <2>1. argN = (IF n <= NArgs THEN n - 1 ELSE NArgs - 1)
    BY <1>3 DEF Formed
  <2>2. \A k \in 0..argN : escArgs[k] = params.nums[IF k = NArgs - 1 THEN n ELSE k + 1] % ByteMod
    BY <1>3 DEF Formed
  <2>3. escArgs'[argN] = nums[n] % ByteMod
    <3>1. escArgs'[argN] = (escArgs[argN] * 10 + d) % ByteMod
      BY <1>1, <1>4
    <3>2. escArgs[argN] = params.nums[n] % ByteMod
      <4>1. (IF argN = NArgs - 1 THEN n ELSE argN + 1) = n /\ argN \in 0..argN
        BY <1>2, <1>3, <1>4, <2>1
      <4> QED
        BY <2>2, <4>1
    <3>3. ((params.nums[n] % ByteMod) * 10 + d) % ByteMod = (params.nums[n] * 10 + d) % ByteMod
      <4>1. ByteMod \in Nat /\ ByteMod > 0
        BY <1>2
      <4> QED
        BY <1>2, <1>5, <4>1, DigitMod, Zenon
    <3> QED
      BY <1>6, <3>1, <3>2, <3>3, Zenon
  <2>4. \A k \in 0..argN : k # argN => escArgs'[k] = nums[k + 1] % ByteMod /\ k # NArgs - 1
    <3> SUFFICES ASSUME NEW k \in 0..argN, k # argN PROVE escArgs'[k] = nums[k + 1] % ByteMod /\ k # NArgs - 1
      OBVIOUS
    <3>1. k # NArgs - 1 /\ k + 1 \in 1..n - 1 /\ k \in 0..NArgs - 1
      <4>1. n \in Nat /\ n >= 1 /\ argN \in 0..NArgs - 1
        BY <1>3, <1>4
      <4> HIDE DEF n
      <4> QED
        BY <1>2, <2>1, <4>1
    <3>2. escArgs'[k] = escArgs[k] /\ escArgs[k] = params.nums[k + 1] % ByteMod
      BY <1>1, <1>4, <2>2, <3>1
    <3> QED
      BY <1>6, <3>1, <3>2
  <2>5. argN = NArgs - 1 \/ n = argN + 1
    BY <1>2, <1>3, <2>1
  <2>6. argN = 0 => escArgs'[1] = 0
    <3> SUFFICES ASSUME argN = 0 PROVE escArgs'[1] = 0
      OBVIOUS
    <3>1. escArgs[1] = 0
      BY <1>3 DEF Formed
    <3>2. escArgs'[1] = escArgs[1]
      BY <1>1, <1>2, <1>4
    <3> QED
      BY <3>1, <3>2
  <2>7. \A k \in 0..argN : escArgs'[k] = nums[IF k = NArgs - 1 THEN n ELSE k + 1] % ByteMod
    BY <1>3, <1>4, <2>3, <2>4, <2>5
  <2> QED
    BY <1>1, <1>6, <1>8, <2>1, <2>6, <2>7 DEF Formed
<1>11. ScreenOK'
  BY <1>1 DEF ConInv, ScreenOK
<1> QED
  BY <1>9, <1>10, <1>11 DEF ConInv

LEMMA SemicolonForms == ASSUME ConInv, Semicolon PROVE ConInv'
<1> DEFINE n == Len(params.nums)
           nums == Append(params.nums, 0)
<1>1. /\ stat = "ansi" /\ argN' = (IF argN + 1 >= NArgs THEN argN ELSE argN + 1)
      /\ escArgs' = [escArgs EXCEPT ![argN'] = 0]
      /\ params' = [chars |-> params.chars + 1, nums |-> nums] /\ UNCHANGED <<conout, stat, cells, cur, saved>>
  BY DEF Semicolon, More, screen
<1>2. NArgs \in Nat /\ NArgs > 1 /\ ByteMod \in Nat /\ ByteMod > 1
  BY ConsoleAssumption
<1>3. ParseOK /\ Formed /\ params.nums \in Seq(Nat) /\ n \in Nat /\ params.chars \in Nat
  BY <1>1, ParamsIs DEF ConInv
<1>4. argN \in 0..NArgs - 1 /\ n >= 1 /\ escArgs \in [0..NArgs - 1 -> 0..ByteMod - 1] /\ argN = (IF n <= NArgs THEN n - 1 ELSE NArgs - 1)
  BY <1>2, <1>3 DEF ParseOK, Formed
<1>5. nums \in Seq(Nat) /\ Len(nums) = n + 1 /\ nums[n + 1] = 0 /\ \A k \in 1..n : nums[k] = params.nums[k]
  BY <1>3
<1>6. params'.nums = nums /\ params' \in [chars : Nat, nums : Seq(Nat)]
  BY <1>1, <1>3, <1>5
<1>7. argN' \in 0..NArgs - 1 /\ argN' = (IF n + 1 <= NArgs THEN n ELSE NArgs - 1) /\ argN' # 0
  <2>1. argN' = (IF argN + 1 >= NArgs THEN argN ELSE argN + 1)
    BY <1>1
  <2>2. n \in Nat /\ n >= 1 /\ argN = (IF n <= NArgs THEN n - 1 ELSE NArgs - 1)
    BY <1>3, <1>4
  <2> HIDE DEF n
  <2> QED
    BY <1>2, <2>1, <2>2
<1>8. ParseOK'
  <2>1. escArgs' \in [0..NArgs - 1 -> 0..ByteMod - 1]
    BY <1>1, <1>2, <1>4, <1>7
  <2> QED
    BY <1>1, <1>3, <1>6, <1>7, <2>1 DEF ParseOK
<1>9. Formed'
  <2> HIDE DEF nums
  <2>1. \A k \in 0..argN : escArgs[k] = params.nums[IF k = NArgs - 1 THEN n ELSE k + 1] % ByteMod
    BY <1>3 DEF Formed
  <2>2. escArgs'[argN'] = nums[n + 1] % ByteMod /\ (argN' = NArgs - 1 \/ n = argN')
    <3>1. escArgs'[argN'] = 0
      BY <1>1, <1>4, <1>7
    <3>2. nums[n + 1] % ByteMod = 0
      BY <1>2, <1>5
    <3> QED
      BY <1>7, <3>1, <3>2
  <2>3. \A k \in 0..argN' : k # argN' => escArgs'[k] = nums[k + 1] % ByteMod /\ k # NArgs - 1
    <3> SUFFICES ASSUME NEW k \in 0..argN', k # argN' PROVE escArgs'[k] = nums[k + 1] % ByteMod /\ k # NArgs - 1
      OBVIOUS
    <3>1. k # NArgs - 1 /\ k + 1 \in 1..n /\ k \in 0..argN /\ k \in 0..NArgs - 1
      <4>1. n \in Nat /\ n >= 1 /\ argN \in 0..NArgs - 1 /\ argN = (IF n <= NArgs THEN n - 1 ELSE NArgs - 1)
        BY <1>3, <1>4
      <4> HIDE DEF n
      <4> QED
        BY <1>2, <1>7, <4>1
    <3>2. escArgs'[k] = escArgs[k] /\ escArgs[k] = params.nums[k + 1] % ByteMod
      BY <1>1, <1>4, <2>1, <3>1
    <3> QED
      BY <1>5, <3>1, <3>2
  <2>4. \A k \in 0..argN' : escArgs'[k] = nums[IF k = NArgs - 1 THEN n + 1 ELSE k + 1] % ByteMod
    BY <1>3, <1>7, <2>2, <2>3
  <2> QED
    BY <1>3, <1>5, <1>6, <1>7, <2>4 DEF Formed
<1>10. ScreenOK'
  BY <1>1 DEF ConInv, ScreenOK
<1> QED
  BY <1>8, <1>9, <1>10 DEF ConInv

(***************************************************************************)
(* The other characters.                                                   *)
(***************************************************************************)
LEMMA Leaves ==
  ASSUME ConInv, ScreenOK', stat' \in {"nop", "char", "esc", "eq", "eq2"},
         conout' = conout, argN' = argN, escArgs' \in [0..NArgs - 1 -> 0..ByteMod - 1],
         params' = params \/ params' = NoParams
  PROVE  ConInv'
<1>1. NoParams \in [chars : Nat, nums : Seq(Nat)]
  BY DEF NoParams
<1> QED
  BY <1>1 DEF ConInv, ParseOK

LEMMA CountIs == ASSUME ConInv PROVE ParamCount \in Nat /\ ParamCount >= 1 /\ [escArgs EXCEPT ![0] = ParamCount] \in [0..NArgs - 1 -> 0..ByteMod - 1]
  BY ConsoleAssumption DEF ConInv, ParseOK, ParamCount

LEMMA Stays == ASSUME ConInv, UNCHANGED screen PROVE ScreenOK' /\ (escArgs' = escArgs => escArgs' \in [0..NArgs - 1 -> 0..ByteMod - 1])
  BY DEF ConInv, ScreenOK, ParseOK, screen

LEMMA PlainKeeps ==
  ASSUME ConInv, ScreenOK', stat' \in {"nop", "char", "esc", "eq", "eq2"}, UNCHANGED <<conout, argN, escArgs, params>> PROVE ConInv'
  BY Leaves DEF ConInv, ParseOK

LEMMA PlainStep ==
  ASSUME ConInv,
         \/ Plain(WriteCell) \/ Plain(Up) \/ Plain(Left) \/ Plain(Cls(2)) \/ Plain(GotoXY(1, 1))
         \/ EscChar(Cls(2)) \/ EscChar(ClrLn(0)) \/ EscChar(Cls(0)) \/ EscChar(Down) \/ EscChar(Up)
         \/ EscChar(Scroll(-1)) \/ EscChar(Scroll(1)) \/ EscChar(UNCHANGED screen)
  PROVE  ConInv'
<1>1. stat' = "char" /\ UNCHANGED <<conout, argN, escArgs, params>>
  BY DEF Plain, EscChar
<1>2. ScreenOK
  BY DEF ConInv
<1>3. ScreenOK'
  <2>1. -1 \in Int /\ 1 \in Int
    OBVIOUS
  <2>2. \/ WriteCell \/ Up \/ Left \/ Cls(2) \/ GotoXY(1, 1) \/ ClrLn(0) \/ Cls(0) \/ Down \/ Scroll(-1) \/ Scroll(1)
        \/ UNCHANGED screen
    BY DEF Plain, EscChar
  <2> QED
    BY <1>2, <2>1, <2>2, WriteKeeps, UpKeeps, LeftKeeps, ClsKeeps, GotoXYKeeps, ClrLnKeeps, DownKeeps, ScrollKeeps, Stays
<1> QED
  BY <1>1, <1>3, PlainKeeps

LEMMA QuietStep == ASSUME ConInv, StartsNop \/ Esc \/ EscEq PROVE ConInv'
  BY Stays, PlainKeeps DEF StartsNop, Esc, EscEq

LEMMA EqStep == ASSUME ConInv, NEW v \in 0..ByteMod - 1, Eq(v) \/ Eq2(v) PROVE ConInv'
<1>1. 0 \in 0..NArgs - 1 /\ 1 \in 0..NArgs - 1
  BY ConsoleAssumption
<1>2. escArgs' \in [0..NArgs - 1 -> 0..ByteMod - 1] /\ stat' \in {"eq2", "char"} /\ UNCHANGED <<conout, argN, params>>
  BY <1>1 DEF Eq, Eq2, ConInv, ParseOK
<1>3. ScreenOK'
  BY Stays, GotoXYKeeps DEF Eq, Eq2, ConInv
<1> QED
  BY <1>2, <1>3, Leaves

LEMMA AnsiStep ==
  ASSUME ConInv,
         \/ AnsiGoto \/ AnsiUp \/ AnsiDown \/ AnsiRight \/ AnsiLeft \/ AnsiErase \/ AnsiEraseLine
         \/ AnsiDelete \/ AnsiInsert \/ AnsiRestore \/ AnsiSave \/ AnsiOther
  PROVE  ConInv'
<1>1. stat' = "char" /\ params' = NoParams /\ UNCHANGED <<conout, argN>>
  BY DEF AnsiGoto, AnsiUp, AnsiDown, AnsiRight, AnsiLeft, AnsiErase, AnsiEraseLine, AnsiDelete, AnsiInsert, AnsiRestore, AnsiSave,
     AnsiOther, Final
<1>2. escArgs' = escArgs \/ SetCount
  BY DEF AnsiGoto, AnsiUp, AnsiDown, AnsiRight, AnsiLeft, AnsiErase, AnsiEraseLine, AnsiDelete, AnsiInsert, AnsiRestore, AnsiSave,
     AnsiOther, Final
<1>3. escArgs' \in [0..NArgs - 1 -> 0..ByteMod - 1]
  BY <1>2, CountIs DEF SetCount, ConInv, ParseOK
<1>4. ScreenOK /\ ParamCount \in Int /\ -ParamCount \in Int
  BY CountIs DEF ConInv
<1>5. ScreenOK'
  <2>1. CASE AnsiRestore
    BY <1>4, <2>1, CursorSet DEF AnsiRestore, Final, ScreenOK
  <2>2. CASE AnsiSave
    BY <1>4, <2>2 DEF AnsiSave, Final, ScreenOK
  <2>3. CASE AnsiOther
    BY <2>3, Stays DEF AnsiOther, Final
  <2>4. CASE AnsiDelete \/ AnsiInsert
    BY <1>4, <2>4, ScrollKeeps DEF AnsiDelete, AnsiInsert, Final
  <2>5. CASE AnsiGoto
    BY <1>4, <2>5, GotoXYKeeps DEF AnsiGoto, Final
  <2>6. CASE AnsiUp \/ AnsiDown \/ AnsiRight \/ AnsiLeft
    BY <1>4, <2>6, GotoDXYKeeps DEF AnsiUp, AnsiDown, AnsiRight, AnsiLeft, Final
  <2>7. CASE AnsiErase \/ AnsiEraseLine
    BY <1>4, <2>7, ClsKeeps, ClrLnKeeps DEF AnsiErase, AnsiEraseLine, Final
  <2> QED
    BY <2>1, <2>2, <2>3, <2>4, <2>5, <2>6, <2>7
<1> QED
  BY <1>1, <1>3, <1>5, Leaves

LEMMA ConStep == ASSUME ConInv, [ConNext]_conVars PROVE ConInv'
<1>1. CASE UNCHANGED conVars
  BY <1>1 DEF conVars, parse, screen, ConInv, ScreenOK, ParseOK, Formed
<1>2. CASE ConNext
  BY <1>1, <1>2, PlainStep, QuietStep, EqStep, AnsiStep, BracketForms, DigitForms, SemicolonForms, Zenon DEF ConNext, Nop
<1> QED
  BY <1>1, <1>2

(***************************************************************************)
(* What sequences do.                                                      *)
(***************************************************************************)
LEMMA ConParams == ASSUME ConInv PROVE ParamsExact
  BY DEF ConInv, ScreenOK, ParseOK, Formed, ParamsExact, ConTypeOK, Cells

MovedExactly ==
  /\ AnsiUp => cur'.x = cur.x /\ (cur'.y = cur.y - ParamCount \/ (cur'.y = 0 /\ ParamCount > cur.y))
  /\ AnsiDown => cur'.x = cur.x /\ (cur'.y = cur.y + ParamCount \/ (cur'.y = H - 1 /\ cur.y + ParamCount >= H))
  /\ AnsiRight => cur'.y = cur.y /\ (cur'.x = cur.x + ParamCount \/ (cur'.x = W - 1 /\ cur.x + ParamCount >= W))
  /\ AnsiLeft => cur'.y = cur.y /\ (cur'.x = cur.x - ParamCount \/ (cur'.x = 0 /\ ParamCount > cur.x))

LEMMA Moves == ASSUME ConInv PROVE MovedExactly
<1>1. ParamCount \in Nat /\ ParamCount >= 1 /\ W \in Nat /\ W > 0 /\ H \in Nat /\ H > 0
  BY CountIs, ConsoleAssumption
<1>2. cur.x \in 0..W - 1 /\ cur.y \in 0..H - 1
  BY Cursor DEF ConInv, Cols, Lines
<1>3. ASSUME NEW dx \in Int, NEW dy \in Int, GotoDXY(dx, dy)
      PROVE  cur'.x = Clamp(cur.x + dx, W - 1) /\ cur'.y = Clamp(cur.y + dy, H - 1)
  <2>1. Clamp(cur.x + dx, W - 1) \in Cols /\ Clamp(cur.y + dy, H - 1) \in Lines
    BY <1>1, <1>2, <1>3 DEF Clamp, Cols, Lines
  <2> QED
    BY <1>3, <2>1 DEF GotoDXY, SetCursor
<1>4. ASSUME AnsiUp PROVE cur'.x = cur.x /\ (cur'.y = cur.y - ParamCount \/ (cur'.y = 0 /\ ParamCount > cur.y))
  BY <1>1, <1>2, <1>3, <1>4 DEF AnsiUp, Final, Clamp
<1>5. ASSUME AnsiDown PROVE cur'.x = cur.x /\ (cur'.y = cur.y + ParamCount \/ (cur'.y = H - 1 /\ cur.y + ParamCount >= H))
  BY <1>1, <1>2, <1>3, <1>5 DEF AnsiDown, Final, Clamp
<1>6. ASSUME AnsiRight PROVE cur'.y = cur.y /\ (cur'.x = cur.x + ParamCount \/ (cur'.x = W - 1 /\ cur.x + ParamCount >= W))
  BY <1>1, <1>2, <1>3, <1>6 DEF AnsiRight, Final, Clamp
<1>7. ASSUME AnsiLeft PROVE cur'.y = cur.y /\ (cur'.x = cur.x - ParamCount \/ (cur'.x = 0 /\ ParamCount > cur.x))
  BY <1>1, <1>2, <1>3, <1>7 DEF AnsiLeft, Final, Clamp
<1> QED
  BY <1>4, <1>5, <1>6, <1>7 DEF MovedExactly

ErasedExactly ==
  /\ AnsiErase =>
       /\ \A i \in DOMAIN cells :
            cells'[i] = (/\ cells[i]
                         /\ ~CASE escArgs[0] = 0 -> i >= Place(cur)
                               [] escArgs[0] = 1 -> i <= Place(cur)
                               [] OTHER       -> TRUE)
       /\ escArgs[0] # 2 => cur' = cur
  /\ AnsiEraseLine =>
       /\ \A i \in DOMAIN cells :
            cells'[i] = (/\ cells[i]
                         /\ ~(/\ i \div W = cur.y
                              /\ CASE escArgs[0] = 0 -> i % W >= cur.x
                                   [] escArgs[0] = 1 -> i % W <= cur.x
                                   [] OTHER       -> TRUE))
       /\ cur' = cur

(* Sizes of what is filled.                                                *)
LEMMA Sizes ==
  ASSUME ConInv
  PROVE  /\ W \in Nat /\ W > 0 /\ H \in Nat /\ cur.x \in 0..W - 1 /\ cur.y \in 0..H - 1
         /\ W * cur.y \in Nat /\ cur.y * W = W * cur.y /\ W * H \in Nat
         /\ Place(cur) = W * cur.y + cur.x /\ Place(cur) \in Nat
         /\ Place(cur) + (W * (H - cur.y) - cur.x) = W * H
         /\ Place(cur) + (W - cur.x) = W * cur.y + W
<1>1. W \in Nat /\ W > 0 /\ H \in Nat /\ cur.x \in 0..W - 1 /\ cur.y \in 0..H - 1
  BY Cursor, ConsoleAssumption DEF ConInv, Cols, Lines
<1> DEFINE x == cur.x
           y == cur.y
<1>2. x \in Nat /\ y \in Nat /\ x <= W - 1
  BY <1>1
<1> HIDE DEF x, y
<1>3. W * y \in Nat /\ y * W = W * y /\ W * H \in Nat /\ W * (H - y) = W * H - W * y
  BY <1>1, <1>2
<1> QED
  BY <1>1, <1>2, <1>3 DEF Place, x, y

LEMMA FilledCell ==
  ASSUME ConInv, NEW i \in Cells, NEW from \in Int, NEW size \in Int
  PROVE  /\ i \in DOMAIN cells
         /\ Filled(from, size)[i] = (cells[i] /\ ~(i >= from /\ i < from + size))
  BY DEF ConInv, ScreenOK, Filled

LEMMA Erases == ASSUME ConInv PROVE ErasedExactly
<1>1. DOMAIN cells = Cells
  BY DEF ConInv, ScreenOK
<1> USE Sizes
<1>2. ASSUME AnsiErase, NEW i \in Cells
      PROVE  cells'[i] = (cells[i] /\ ~CASE escArgs[0] = 0 -> i >= Place(cur)
                                         [] escArgs[0] = 1 -> i <= Place(cur)
                                         [] OTHER       -> TRUE)
  <2>1. Cls(escArgs[0])
    BY <1>2 DEF AnsiErase, Final
  <2>2. i \in Nat /\ i < W * H
    BY <1>2 DEF Cells
  <2>3. CASE escArgs[0] = 0
    <3>1. cells' = Filled(Place(cur), W * (H - cur.y) - cur.x)
      BY <2>1, <2>3 DEF Cls
    <3>2. W * (H - cur.y) - cur.x \in Int
      OBVIOUS
    <3>3. cells'[i] = (cells[i] /\ ~(i >= Place(cur) /\ i < Place(cur) + (W * (H - cur.y) - cur.x)))
      BY <1>2, <3>1, <3>2, FilledCell
    <3> QED
      BY <2>2, <2>3, <3>3
  <2>4. CASE escArgs[0] = 1
    <3>1. cells' = Filled(0, W * cur.y + cur.x + 1)
      BY <2>1, <2>4 DEF Cls
    <3>2. W * cur.y + cur.x + 1 \in Int
      OBVIOUS
    <3>3. cells'[i] = (cells[i] /\ ~(i >= 0 /\ i < 0 + (W * cur.y + cur.x + 1)))
      BY <1>2, <3>1, <3>2, FilledCell
    <3> QED
      BY <2>2, <2>4, <3>3
  <2>5. CASE escArgs[0] # 0 /\ escArgs[0] # 1
    <3>1. cells' = Filled(0, W * H)
      BY <2>1, <2>5 DEF Cls
    <3>2. cells'[i] = (cells[i] /\ ~(i >= 0 /\ i < 0 + W * H))
      BY <1>2, <3>1, FilledCell
    <3> QED
      BY <2>2, <2>5, <3>2
  <2> QED
    BY <2>3, <2>4, <2>5
<1>3. ASSUME AnsiEraseLine, NEW i \in Cells
      PROVE  cells'[i] = (cells[i] /\ ~(/\ i \div W = cur.y
                                        /\ CASE escArgs[0] = 0 -> i % W >= cur.x
                                             [] escArgs[0] = 1 -> i % W <= cur.x
                                             [] OTHER       -> TRUE))
  <2>1. ClrLn(escArgs[0])
    BY <1>3 DEF AnsiEraseLine, Final
  <2> DEFINE q == i \div W
             r == i % W
             x == cur.x
             base == W * cur.y
             here == Place(cur)
  <2>2. /\ i \in Nat /\ q \in Nat /\ r \in 0..W - 1 /\ x \in 0..W - 1 /\ base \in Nat /\ here = base + x /\ W \in Nat
        /\ q = cur.y <=> i >= base /\ i < base + W
    <3>1. i \in Nat /\ q \in Lines /\ r \in Cols
      BY <1>3, CellIs DEF Cells
    <3>2. q \in Nat /\ r \in 0..W - 1
      BY <3>1, ConsoleAssumption DEF Lines, Cols
    <3>3. x \in 0..W - 1 /\ base \in Nat /\ here = base + x /\ W \in Nat /\ cur.y \in Lines /\ cur.y * W = base
      BY DEF Lines
    <3>4. q = cur.y <=> i >= cur.y * W /\ i < cur.y * W + W
      BY <1>3, <3>3, OfLine
    <3> QED
      BY <3>1, <3>2, <3>3, <3>4
  <2>3. q = cur.y => i = base + r
    BY <1>3, CellIs
  <2>4. CASE escArgs[0] = 0
    <3>1. cells' = Filled(here, W - cur.x)
      BY <2>1, <2>4 DEF ClrLn
    <3>2. W - cur.x \in Int /\ here \in Int
      OBVIOUS
    <3> HIDE DEF here
    <3>3. cells'[i] = (cells[i] /\ ~(i >= here /\ i < here + (W - x)))
      BY <1>3, <3>1, <3>2, FilledCell
    <3> HIDE DEF q, r, x, base
    <3>4. (i >= here /\ i < here + (W - x)) <=> (q = cur.y /\ r >= x)
      BY <2>2, <2>3
    <3>5. cells'[i] = (cells[i] /\ ~(q = cur.y /\ r >= x))
      BY <3>3, <3>4
    <3> QED
      BY <2>4, <3>5 DEF q, r, x
  <2>5. CASE escArgs[0] = 1
    <3>1. cells' = Filled(base, cur.x + 1)
      BY <2>1, <2>5 DEF ClrLn
    <3>2. cur.x + 1 \in Int /\ base \in Int
      OBVIOUS
    <3> HIDE DEF base
    <3>3. cells'[i] = (cells[i] /\ ~(i >= base /\ i < base + (x + 1)))
      BY <1>3, <3>1, <3>2, FilledCell
    <3> HIDE DEF q, r, x, here
    <3>4. (i >= base /\ i < base + (x + 1)) <=> (q = cur.y /\ r <= x)
      BY <2>2, <2>3
    <3>5. cells'[i] = (cells[i] /\ ~(q = cur.y /\ r <= x))
      BY <3>3, <3>4
    <3> QED
      BY <2>5, <3>5 DEF q, r, x
  <2>6. CASE escArgs[0] # 0 /\ escArgs[0] # 1
    <3>1. cells' = Filled(base, W) /\ base \in Int /\ W \in Int
      BY <2>1, <2>6 DEF ClrLn
    <3> HIDE DEF base
    <3>2. cells'[i] = (cells[i] /\ ~(i >= base /\ i < base + W))
      BY <1>3, <3>1, FilledCell
    <3>3. cells'[i] = (cells[i] /\ ~(q = cur.y))
      BY <2>2, <3>2
    <3> QED
      BY <2>6, <3>3 DEF q
  <2> QED
    BY <2>4, <2>5, <2>6
<1>4. ASSUME AnsiErase, escArgs[0] # 2 PROVE cur' = cur
  BY <1>4 DEF AnsiErase, Final, Cls
<1>5. ASSUME AnsiEraseLine PROVE cur' = cur
  BY <1>5 DEF AnsiEraseLine, Final, ClrLn
<1> QED
  BY <1>1, <1>2, <1>3, <1>4, <1>5 DEF ErasedExactly

ScrolledExactly ==
  /\ (AnsiDelete /\ 2 * ParamCount <= H - cur.y) => \A i \in DOMAIN cells :
       cells'[i] = IF i \div W < cur.y THEN cells[i]
                   ELSE i + ParamCount * W < W * H /\ cells[i + ParamCount * W]
  /\ (AnsiInsert /\ ParamCount < H - cur.y) => \A i \in DOMAIN cells :
       cells'[i] = IF i \div W < cur.y THEN cells[i]
                   ELSE i \div W - ParamCount >= cur.y /\ cells[i - ParamCount * W]

LEMMA ScrolledCell ==
  ASSUME ConInv, NEW i \in Cells, NEW top \in Int, NEW bottom \in Int, NEW dst \in Int, top <= bottom,
         NEW y \in Int, y = i \div W
  PROVE  Scrolled(top, bottom, dst)[i] =
           IF y - dst + top \in top..bottom THEN cells[(y - dst + top) * W + (i % W)]
           ELSE IF y \in top..bottom THEN FALSE ELSE cells[i]
<1>1. DOMAIN cells = Cells /\ ~(top > bottom)
  BY DEF ConInv, ScreenOK
<1>2. Scrolled(top, bottom, dst)[i] =
        IF top > bottom THEN cells[i]
        ELSE IF i \div W - dst + top \in top..bottom THEN cells[(i \div W - dst + top) * W + (i % W)]
        ELSE IF i \div W \in top..bottom THEN FALSE ELSE cells[i]
  BY <1>1, Zenon DEF Scrolled
<1> QED
  BY <1>1, <1>2, Zenon

(* The cell n lines below or above.                                        *)
LEMMA LinesOff ==
  ASSUME ConInv, NEW i \in Cells, NEW n \in Int
  PROVE  /\ (i \div W + n) * W + (i % W) = i + n * W
         /\ i \div W + n <= H - 1 <=> i + n * W < W * H
<1> DEFINE y == i \div W
           x == i % W
           z == y + n
<1>1. y \in Nat /\ x \in 0..W - 1 /\ i = y * W + x /\ W \in Nat /\ W > 0 /\ H \in Nat
  BY CellIs, ConsoleAssumption DEF Lines, Cols
<1> HIDE DEF y, x
<1>2. z \in Int /\ z * W + x = i + n * W
  BY <1>1
<1> HIDE DEF z
<1>3. z <= H - 1 => z * W <= (H - 1) * W
  BY <1>1, <1>2
<1>4. z >= H => z * W >= H * W
  BY <1>1, <1>2
<1>5. (H - 1) * W = H * W - W /\ H * W = W * H /\ z * W \in Int /\ W * H \in Int
  BY <1>1, <1>2
<1>6. z <= H - 1 <=> i + n * W < W * H
  BY <1>1, <1>2, <1>3, <1>4, <1>5
<1> QED
  BY <1>2, <1>6 DEF x, y, z

LEMMA Scrolls == ASSUME ConInv PROVE ScrolledExactly
<1> DEFINE n == ParamCount
           c == cur.y
<1>1. DOMAIN cells = Cells /\ n \in Nat /\ n >= 1 /\ c \in 0..H - 1 /\ H \in Nat
  BY CountIs, Sizes DEF ConInv, ScreenOK
<1>2. ASSUME AnsiDelete, 2 * n <= H - c, NEW i \in Cells
      PROVE  cells'[i] = IF i \div W < c THEN cells[i] ELSE i + n * W < W * H /\ cells[i + n * W]
  <2> DEFINE y == i \div W
             j == i + n * W
             size == W * H
  <2>1. cells' = Scrolled(c + n, H - 1, c)
    <3>1. Scroll(n)
      BY <1>2 DEF AnsiDelete, Final
    <3>2. (IF n >= 0 THEN n ELSE 0) = n /\ c - (IF n >= 0 THEN 0 ELSE n) = c
      BY <1>1
    <3> QED
      BY <3>1, <3>2 DEF Scroll
  <2>2. y \in Nat /\ y <= H - 1 /\ W \in Nat /\ i \in Nat /\ j \in Int /\ size \in Nat
    <3>1. y \in Lines /\ i \in Nat /\ W \in Nat
      <4>1. y \in Lines
        BY <1>2, CellIs, Zenon
      <4>2. W \in Nat /\ W * H \in Nat
        BY ConsoleAssumption
      <4> QED
        BY <1>2, <4>1, <4>2 DEF Cells
    <3>2. n * W \in Nat /\ W * H \in Nat
      BY <1>1, <3>1
    <3> QED
      BY <1>1, <3>1, <3>2 DEF Lines
  <2>3. (y + n) * W + (i % W) = j /\ (y + n <= H - 1 <=> j < size)
    BY <1>1, <1>2, LinesOff
  <2>4. c + n \in Int /\ H - 1 \in Int /\ c \in Int /\ c + n <= H - 1 /\ y \in Int
    BY <1>1, <1>2, <2>2
  <2> HIDE DEF y, n, j, c, size
  <2>5. cells'[i] = IF y - c + (c + n) \in c + n..H - 1 THEN cells[(y - c + (c + n)) * W + (i % W)]
                    ELSE IF y \in c + n..H - 1 THEN FALSE ELSE cells[i]
    BY <1>2, <2>1, <2>4, ScrolledCell DEF y
  <2>6. y - c + (c + n) = y + n
    BY <1>1, <2>2
  <2>7. cells'[i] = IF y + n \in c + n..H - 1 THEN cells[j] ELSE IF y \in c + n..H - 1 THEN FALSE ELSE cells[i]
    BY <2>3, <2>5, <2>6, Zenon
  <2>8. y + n <= H - 1 => cells[j] \in BOOLEAN
    <3> SUFFICES ASSUME y + n <= H - 1 PROVE cells[j] \in BOOLEAN
      OBVIOUS
    <3>1. y + n \in Lines /\ i % W \in Cols
      BY <1>1, <1>2, <2>2, CellIs DEF Lines
    <3>2. j \in Cells
      BY <2>3, <3>1, IsCell
    <3> QED
      BY <3>2 DEF ConInv, ScreenOK
  <2>9. cells'[i] = IF y < c THEN cells[i] ELSE j < size /\ cells[j]
    <3>1. CASE y < c
      <4>1. ~(y + n \in c + n..H - 1) /\ ~(y \in c + n..H - 1)
        BY <1>1, <2>2, <3>1
      <4> QED
        BY <2>7, <3>1, <4>1, Zenon
    <3>2. CASE ~(y < c) /\ y + n <= H - 1
      <4>1. y + n \in c + n..H - 1
        BY <1>1, <2>2, <3>2
      <4>2. cells'[i] = cells[j] /\ j < size /\ cells[j] \in BOOLEAN
        BY <2>3, <2>7, <2>8, <3>2, <4>1, Zenon
      <4> QED
        BY <3>2, <4>2, Zenon
    <3>3. CASE ~(y < c) /\ ~(y + n <= H - 1)
      <4>1. 2 * n <= H - c
        BY <1>2 DEF n, c
      <4>2. y \in c + n..H - 1
        BY <1>1, <2>2, <3>3, <4>1
      <4>3. ~(y + n \in c + n..H - 1)
        BY <1>1, <2>2, <3>3
      <4>4. cells'[i] = FALSE /\ ~(j < size)
        BY <2>3, <2>7, <3>3, <4>2, <4>3, Zenon
      <4> QED
        BY <3>3, <4>4, Zenon
    <3> QED
      BY <3>1, <3>2, <3>3
  <2> QED
    BY <2>9 DEF y, j, size
<1>3. ASSUME AnsiInsert, n < H - c, NEW i \in Cells
      PROVE  cells'[i] = IF i \div W < c THEN cells[i] ELSE i \div W - n >= c /\ cells[i - n * W]
  <2> DEFINE y == i \div W
             j == i - n * W
  <2>1. cells' = Scrolled(c, H - 1, c + n)
    <3>1. Scroll(-n)
      BY <1>3 DEF AnsiInsert, Final
    <3>2. c + (IF -n >= 0 THEN -n ELSE 0) = c /\ c - (IF -n >= 0 THEN 0 ELSE -n) = c + n
      BY <1>1
    <3> QED
      BY <3>1, <3>2 DEF Scroll
  <2>2. y \in Nat /\ y <= H - 1 /\ W \in Nat /\ i \in Nat /\ j \in Int
    <3>1. y \in Lines /\ i \in Nat /\ W \in Nat
      <4>1. y \in Lines
        BY <1>3, CellIs, Zenon
      <4>2. W \in Nat /\ W * H \in Nat
        BY ConsoleAssumption
      <4> QED
        BY <1>3, <4>1, <4>2 DEF Cells
    <3>2. n * W \in Nat
      BY <1>1, <3>1
    <3> QED
      BY <1>1, <3>1, <3>2 DEF Lines
  <2>3. (y - n) * W + (i % W) = j
    <3>1. (y + -n) * W + (i % W) = i + (-n) * W
      BY <1>1, <1>3, LinesOff
    <3>2. y + -n = y - n /\ i + (-n) * W = j
      BY <1>1, <2>2
    <3> QED
      BY <3>1, <3>2
  <2>4. c + n \in Int /\ H - 1 \in Int /\ c \in Int /\ c <= H - 1 /\ y \in Int
    BY <1>1, <1>3, <2>2
  <2> HIDE DEF y, n, j, c
  <2>5. cells'[i] = IF y - (c + n) + c \in c..H - 1 THEN cells[(y - (c + n) + c) * W + (i % W)]
                    ELSE IF y \in c..H - 1 THEN FALSE ELSE cells[i]
    BY <1>3, <2>1, <2>4, ScrolledCell DEF y
  <2>6. y - (c + n) + c = y - n
    BY <1>1, <2>2
  <2>7. cells'[i] = IF y - n \in c..H - 1 THEN cells[j] ELSE IF y \in c..H - 1 THEN FALSE ELSE cells[i]
    BY <2>3, <2>5, <2>6, Zenon
  <2>8. y - n >= c => cells[j] \in BOOLEAN
    <3> SUFFICES ASSUME y - n >= c PROVE cells[j] \in BOOLEAN
      OBVIOUS
    <3>1. y - n \in Lines /\ i % W \in Cols
      BY <1>1, <1>3, <2>2, CellIs DEF Lines
    <3>2. j \in Cells
      BY <2>3, <3>1, IsCell
    <3> QED
      BY <3>2 DEF ConInv, ScreenOK
  <2>9. cells'[i] = IF y < c THEN cells[i] ELSE y - n >= c /\ cells[j]
    <3>1. CASE y < c
      <4>1. ~(y - n \in c..H - 1) /\ ~(y \in c..H - 1)
        BY <1>1, <2>2, <3>1
      <4> QED
        BY <2>7, <3>1, <4>1, Zenon
    <3>2. CASE ~(y < c) /\ y - n >= c
      <4>1. y - n \in c..H - 1
        BY <1>1, <2>2, <3>2
      <4>2. cells'[i] = cells[j] /\ cells[j] \in BOOLEAN
        BY <2>7, <2>8, <3>2, <4>1, Zenon
      <4> QED
        BY <3>2, <4>2, Zenon
    <3>3. CASE ~(y < c) /\ ~(y - n >= c)
      <4>1. ~(y - n \in c..H - 1) /\ y \in c..H - 1
        BY <1>1, <2>2, <3>3
      <4>2. cells'[i] = FALSE
        BY <2>7, <4>1, Zenon
      <4> QED
        BY <3>3, <4>2, Zenon
    <3> QED
      BY <3>1, <3>2, <3>3
  <2> QED
    BY <2>9 DEF y, j
<1> QED
  BY <1>1, <1>2, <1>3 DEF ScrolledExactly

(* On a console of any size, with parameters of any length: a sequence is  *)
(* carried out with the numbers its digits form, an erasure blanks exactly *)
(* the cells it names, inserting and deleting move the lines below the     *)
(* cursor, and a relative move ends where asked or at the border           *)
(* (cpm_putch, w32_cls, w32_clrln, w32_scroll, w32_gotodxy).               *)
THEOREM ScreenTheorem == ConSpec => ScreenExact
<1>1. ConInv /\ [ConNext]_conVars => ConInv'
  BY ConStep
<1>2. ConInv /\ [ConNext]_conVars => [ErasedExactly]_conVars /\ [ScrolledExactly]_conVars /\ [MovedExactly]_conVars
  BY Erases, Scrolls, Moves
<1> QED
  BY <1>1, <1>2, ConInitial, ConParams, PTL
  DEF ConSpec, ScreenExact, EraseExact, ScrollExact, MoveExact, ErasedExactly, ScrolledExactly, MovedExactly
=============================================================================
