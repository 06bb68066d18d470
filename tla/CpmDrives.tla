----------------------------- MODULE CpmDrives ------------------------------
(***************************************************************************)
(* Drives, arguments and directory searches of cpm.c, the CP/M emulator:   *)
(* how main() makes drives C: and D: of the directories in the first two   *)
(* arguments and FCBs of what is left of them, how drive letters get their *)
(* directories, and BDOS calls 13, 14, 17, 18, 19, 24 and 25.  The host's  *)
(* disk is a set of names for each directory.  The emulator has one search *)
(* handle; delete and disk reset use handles of their own.                 *)
(***************************************************************************)
EXTENDS Naturals, Sequences, FiniteSets

CONSTANTS
  MaxDrv,   \* drives (16)
  DrvFiles,    \* names of files
  Hidden,   \* those that are hidden or directories
  Dollar,   \* those that begin with $
  CmdLines,    \* command lines: the arguments after the program
  Programs, \* what the command may name and what there is: [ext, found]
  FcbDrives,\* drive bytes programs use
  Env,      \* settings of CPMC to CPMP: functions from drives to directories
  MaxCalls  \* bound: BDOS calls

None == "none"     \* no directory, no name

ASSUME DrivesAssumption ==
  /\ MaxDrv \in Nat /\ MaxDrv >= 4
  /\ Hidden \subseteq DrvFiles /\ Dollar \subseteq DrvFiles
  /\ \A e \in Env : DOMAIN e \subseteq 2..MaxDrv - 1 /\ \A d \in DOMAIN e : e[d] # None
  /\ CmdLines \subseteq Seq([dir : STRING, dr : Nat, name : STRING, cut : BOOLEAN])

VARIABLES
  line,    \* the command line
  cmdArgs,    \* the arguments, as main() rewrites them
  prog,    \* the extension of the command, and those files found with its name
  version, \* cpm_version
  auto,    \* is option -d absent?
  drvEnv,     \* the environment
  drive,   \* cpm_drive[]: directories
  vct,     \* cpm_disk_vct: the drives in it; 0 before it is set up
  diskNo,  \* cpm_disk_no
  fcb,     \* FCB1 and FCB2: drive byte and name
  disk,    \* the host's directories
  find,    \* hFindFile, and what FindNextFile() has still to give
  stage,   \* where main() is
  last,    \* history: the last call, its answer and the name it found
  seen,    \* history: names the search has given, in order
  want,    \* history: the names it should give
  gone,    \* history: names deleted since it began
  calls

drvVars == <<line, cmdArgs, prog, version, auto, drvEnv, drive, vct, diskNo, fcb, disk, find, stage, last, seen, want, gone, calls>>

Drives == 0..MaxDrv - 1
Current == ""      \* the current directory
Program == "prog"  \* the program's directory
Blank == [dr |-> 0, name |-> None]

(* An argument: what is before the last backslash, a drive prefix, the     *)
(* name, and whether one of =:;<> and more text follow it.                 *)
PlainName(dir, dr, name, cut) == [dir |-> dir, dr |-> dr, name |-> name, cut |-> cut]

DrvInit ==
  /\ line \in CmdLines /\ cmdArgs = line /\ auto \in BOOLEAN /\ drvEnv \in Env
  /\ prog \in Programs /\ version = 34
  /\ drive = [d \in Drives |-> None]
  /\ vct = {} /\ diskNo \in {0, 1}
  /\ fcb = <<Blank, Blank>>
  /\ disk \in [{Current, Program, "dir"} -> {DrvFiles}]
  /\ find = [h |-> "closed", left |-> {}]
  /\ stage = 0 /\ last = [call |-> None, ret |-> 0, name |-> None]
  /\ seen = <<>> /\ want = {} /\ gone = {} /\ calls = 0

(***************************************************************************)
(* Start.                                                                  *)
(***************************************************************************)

(* BDOS 12 answers 22H, or 122H for a program whose file ends in .com.     *)
Version(ext) == IF ext = "com" THEN 290 ELSE 34

(* load_program(): a command without extension is looked for with .cpm,    *)
(* then with .com; the directory of the file is A:, the current one B:.    *)
LoadProgram ==
  /\ stage = 0
  /\ LET ext == IF prog.ext # None THEN prog.ext ELSE IF "cpm" \in prog.found THEN "cpm" ELSE "com"
     IN \/ /\ ext \in prog.found
           /\ version' = Version(ext)
           /\ drive' = [drive EXCEPT ![0] = Program, ![1] = Current]
           /\ prog' = [ext |-> ext, found |-> {}]
           /\ stage' = 1
        \/ ext \notin prog.found /\ stage' = 5 /\ UNCHANGED <<prog, version, drive>>
  /\ UNCHANGED <<line, cmdArgs, auto, drvEnv, vct, diskNo, fcb, disk, find, last, seen, want, gone, calls>>

Exists(dir) == dir \in DOMAIN disk

(* The letter of the next automatic drive (the static n).                  *)
NextDrive == IF drive[2] = None THEN 2 ELSE 3

(* auto_drive_assign() of argument number stage, 1 or 2: its directory     *)
(* becomes a drive, and the argument is left with the drive's letter.      *)
Assign ==
  /\ stage \in 1..2
  /\ LET a == cmdArgs[stage] IN
     \/ /\ auto /\ stage <= Len(cmdArgs) /\ a.dir # None /\ Exists(a.dir)
        /\ drive' = [drive EXCEPT ![NextDrive] = a.dir]
        /\ cmdArgs' = [cmdArgs EXCEPT ![stage] = PlainName(None, NextDrive + 1, a.name, a.cut)]
     \/ /\ ~(auto /\ stage <= Len(cmdArgs) /\ a.dir # None /\ Exists(a.dir))
        /\ UNCHANGED <<cmdArgs, drive>>
  /\ stage' = stage + 1
  /\ UNCHANGED <<line, prog, version, auto, drvEnv, vct, diskNo, fcb, disk, find, last, seen, want, gone, calls>>

(* mkFCB(); an argument with a path that is no drive makes nothing useful. *)
MkFcb(a) == IF a.dir = None THEN [dr |-> a.dr, name |-> a.name] ELSE [dr |-> 0, name |-> "?"]

Arg(n) == IF n <= Len(cmdArgs) THEN MkFcb(cmdArgs[n]) ELSE Blank

(* FCB1 and FCB2; a delimiter in the first argument leaves FCB2 blank.     *)
SetFcbs ==
  /\ stage = 3
  /\ fcb' = <<Arg(1), IF cmdArgs # <<>> /\ cmdArgs[1].cut THEN Blank ELSE Arg(2)>>
  /\ stage' = 4
  /\ UNCHANGED <<line, cmdArgs, prog, version, auto, drvEnv, drive, vct, diskNo, disk, find, last, seen, want, gone, calls>>

(***************************************************************************)
(* Drive letters.                                                          *)
(***************************************************************************)

(* Mutant: the environment overrides what arguments have assigned.         *)
SetUpDrives_Override ==
  /\ drive' = [d \in Drives |-> IF d \in DOMAIN drvEnv THEN drvEnv[d] ELSE drive[d]]
  /\ vct' = {0, 1} \cup DOMAIN drvEnv

(* setup_disk_vct()                                                        *)
SetUpDrives ==
  LET free == {d \in DOMAIN drvEnv : drive[d] = None} IN
  /\ drive' = [d \in Drives |-> IF d \in free THEN drvEnv[d] ELSE drive[d]]
  /\ vct' = {0, 1} \cup free

KeepDrives == UNCHANGED <<drive, vct>>

(* The drive of an FCB, as mk_filename() finds it: 0 and "?" are the       *)
(* default drive.                                                          *)
Index(dr) == IF dr \in {0, 63} THEN diskNo ELSE dr - 1

LookUp(dr) ==
  IF Index(dr) \in Drives /\ drive[Index(dr)] = None /\ vct = {} THEN SetUpDrives ELSE KeepDrives
Directory(dr) == IF Index(dr) \in Drives THEN drive'[Index(dr)] ELSE None

Begin(call) == stage = 4 /\ calls < MaxCalls /\ calls' = calls + 1
Fixed == UNCHANGED <<line, cmdArgs, prog, version, auto, drvEnv, fcb, stage>>
Answer(call, ret, name) == last' = [call |-> call, ret |-> ret, name |-> name]

Selectable(e) == IF e \in Drives THEN drive'[e] # None ELSE FALSE

(* BDOS 14 with register E = e.                                            *)
SelectDisk(e) ==
  /\ Begin("select")
  /\ IF vct = {} THEN SetUpDrives ELSE KeepDrives
  /\ \/ ~Selectable(e) /\ Answer("select", 255, None) /\ UNCHANGED diskNo
     \/ Selectable(e) /\ Answer("select", 0, None) /\ diskNo' = e
  /\ Fixed /\ UNCHANGED <<disk, find, seen, want, gone>>

(* BDOS 24 and 25.                                                         *)
GetDrives ==
  /\ Begin("vector")
  /\ IF vct = {} THEN SetUpDrives ELSE KeepDrives
  /\ Answer("vector", 0, None)
  /\ Fixed /\ UNCHANGED <<disk, find, diskNo, seen, want, gone>>

(* BDOS 13, cpm_disk_reset(): A: becomes the default drive, and the answer *)
(* says whether files that begin with $ are on it.                         *)
DiskReset ==
  /\ Begin("reset")
  /\ diskNo' = 0
  /\ Answer("reset", IF disk[drive[0]] \cap Dollar = {} THEN 0 ELSE 255, None)
  /\ Fixed /\ KeepDrives /\ UNCHANGED <<disk, find, seen, want, gone>>

(***************************************************************************)
(* Searches.                                                               *)
(***************************************************************************)
Matching(dr, p) == {n \in disk[Directory(dr)] : p \in {"*", n}}

(* FindNextFile() until a plain file comes, in the host's order; a file    *)
(* removed meanwhile may still come, or not.  At the end it is closed.     *)
Give(call, left, before) ==
  \/ \E n \in left \ Hidden, over \in SUBSET (left \cap (Hidden \cup gone')) :
       /\ n \notin over
       /\ find' = [h |-> "open", left |-> left \ (over \cup {n})]
       /\ seen' = Append(before, n) /\ Answer(call, 0, n)
  \/ /\ left \ Hidden \subseteq gone'
     /\ find' = [h |-> "closed", left |-> {}]
     /\ seen' = before /\ Answer(call, 255, None)

(* BDOS 17, cpm_findfirst(): the search before is closed, and its handle   *)
(* forgotten only if the drive has a directory.                            *)
FindFirst(dr, p) ==
  /\ Begin("first") /\ LookUp(dr)
  /\ \/ /\ Directory(dr) = None
        /\ find' = [find EXCEPT !.h = IF @ = "closed" THEN @ ELSE "stale"]
        /\ seen' = <<>> /\ want' = {} /\ gone' = {} /\ Answer("first", 255, None)
     \/ /\ Directory(dr) # None
        /\ want' = Matching(dr, p) \ Hidden /\ gone' = {}
        /\ Give("first", Matching(dr, p), <<>>)
  /\ Fixed /\ UNCHANGED <<disk, diskNo>>

(* BDOS 18, cpm_findnext(): a handle closed before fails and is closed     *)
(* again.                                                                  *)
FindNext ==
  /\ Begin("next")
  /\ UNCHANGED <<want, gone>>
  /\ \/ find.h = "open" /\ Give("next", find.left, seen)
     \/ /\ find.h # "open"
        /\ find' = [h |-> "closed", left |-> {}]
        /\ UNCHANGED seen /\ Answer("next", 255, None)
  /\ Fixed /\ KeepDrives /\ UNCHANGED <<disk, diskNo>>

(* BDOS 19 between two steps of a search: plain files are removed.         *)
DeleteFiles(dr, p) ==
  /\ Begin("delete") /\ LookUp(dr)
  /\ LET found == IF Directory(dr) = None THEN {} ELSE Matching(dr, p) \ Hidden IN
     /\ disk' = [d \in DOMAIN disk |-> IF d = Directory(dr) THEN disk[d] \ found ELSE disk[d]]
     /\ gone' = gone \cup found
     /\ Answer("delete", IF found = {} THEN 255 ELSE 0, None)
  /\ Fixed /\ UNCHANGED <<diskNo, find, seen, want>>

DrvNext ==
  \/ LoadProgram \/ Assign \/ SetFcbs
  \/ (\E e \in 0..MaxDrv : SelectDisk(e)) \/ GetDrives \/ DiskReset
  \/ /\ stage = 4
     /\ \E dr \in FcbDrives, p \in (DrvFiles \ Hidden) \cup {"*"} : FindFirst(dr, p) \/ DeleteFiles(dr, p)
  \/ FindNext

DrvSpec == DrvInit /\ [][DrvNext]_drvVars

-----------------------------------------------------------------------------
(***************************************************************************)
(* Properties                                                              *)
(***************************************************************************)

(* What the command line names: a directory and a file in it.              *)
NamesOf(a) ==
  IF auto /\ a.dir # None /\ Exists(a.dir) THEN <<a.dir, a.name>>
  ELSE IF a.dir # None THEN <<None, None>>
  ELSE IF Index(a.dr) \in Drives THEN <<drive[Index(a.dr)], a.name>> ELSE <<None, None>>
NamesFcb(f) == IF Index(f.dr) \in Drives THEN <<drive[Index(f.dr)], f.name>> ELSE <<None, None>>

(* When the program starts, FCB1 and FCB2 name the files its first two     *)
(* arguments named on the command line, in the directories they named,     *)
(* unless a delimiter or an unassigned path is in the way; the default     *)
(* drive has a directory at any time, which cpm_disk_reset() relies on;    *)
(* and the version is MP/M's for .com files only (load_program,            *)
(* auto_drive_assign, main).                                               *)
StartExact ==
  /\ (stage = 4 /\ calls = 0) =>
       \A n \in 1..2 : (n <= Len(line) /\ NamesOf(line[n])[1] # None /\ ~line[1].cut) =>
                         NamesFcb(fcb[n]) = NamesOf(line[n])
  /\ stage \in 1..4 => drive[diskNo] # None
  /\ stage = 4 => (version = 290 <=> prog.ext = "com")

(* A drive letter that has a directory keeps it as long as the program     *)
(* runs, whichever call sets the other drives up, and every drive in the   *)
(* vector can be selected (setup_disk_vct).                                *)
DrivesKept ==
  [][(\A d \in Drives : drive[d] # None => drive'[d] = drive[d])
     /\ (\A d \in vct' : drive'[d] # None)]_drvVars

(* A search gives each plain file that matches exactly once, hidden ones   *)
(* and directories never, and it ends only when those that have not been   *)
(* deleted meanwhile have all been given, whatever other calls come in     *)
(* between (cpm_findfirst, cpm_findnext).                                  *)
SearchExact ==
  /\ \A j, k \in 1..Len(seen) : seen[j] = seen[k] => j = k
  /\ \A k \in 1..Len(seen) : seen[k] \in want
  /\ (last.call \in {"first", "next"} /\ last.ret = 255) =>
       want \ gone \subseteq {seen[k] : k \in 1..Len(seen)}

(* Drive letters stand for the directories the user named, at the start    *)
(* and from then on, and searches find the files there are.                *)
DrivesExact == []StartExact /\ []SearchExact /\ DrivesKept
=============================================================================
