----------------------------- MODULE CpmDevices -----------------------------
(***************************************************************************)
(* The printer, the reader and the punch of cpm.c (cpm_lst_out,            *)
(* cpm_rdr_in, cpm_pun_out).  Each is a stream that is opened at its first *)
(* use, from an environment variable or a default; the reader and the      *)
(* punch may share one.  A stream of the C library is named by the device  *)
(* whose function opened it; it has a file, a position and the direction   *)
(* it was last used in, and using it in the other direction without a call *)
(* that positions it is undefined.                                         *)
(***************************************************************************)
EXTENDS Integers, Sequences

CONSTANTS
  RdrCount, \* the reader's answers at the end of its file (16)
  MaxUses   \* bound: calls

ASSUME DevicesAssumption == RdrCount \in Nat \ {0, 1} /\ MaxUses \in Nat

VARIABLES
  env,    \* what CPMLST, CPMRDR, CPMPUN and CPMAUX are set to
  fp,     \* lstfp, rdrfp, punfp: the stream, or "none"
  err,    \* the static err of the three functions
  stream, \* of each stream: its file, its position, its last direction
  file,   \* what is in the files, in characters
  used,   \* history: of each stream, the uses: the device and the character
  ended   \* has the reader ended the emulator?

devVars == <<env, fp, err, stream, file, used, ended>>

Vars == {"CPMLST", "CPMRDR", "CPMPUN", "CPMAUX"}
Devices == {"lst", "rdr", "pun"}
Streams == Devices \cup {"none"}

(* What is on the disk: the file each variable names, if it is set, and    *)
(* the default devices.                                                    *)
Disk == [CPMLST |-> <<>>, CPMRDR |-> <<1>>, CPMPUN |-> <<>>, CPMAUX |-> <<2, 3>>]
Files == Vars \cup {"PRN:", "AUX:"}

(* A variable is unset, or set to a file that can be opened or not.        *)
DevInit ==
  /\ env \in [Vars -> {"unset", "set", "bad"}]
  /\ fp = [d \in Devices |-> "none"]
  /\ err = [d \in Devices |-> FALSE]
  /\ stream = [d \in Devices |-> [file |-> "none", pos |-> 0, dir |-> "none"]]
  /\ file = [n \in Files |-> IF n \in Vars THEN Disk[n] ELSE <<>>]
  /\ used = [s \in Streams |-> <<>>] /\ ended = FALSE

(* The file fopen() opens for variable v or its default.                   *)
Fopen(v, default) ==
  CASE env[v] = "set" -> v [] env[v] = "unset" -> default [] OTHER -> "none"

Unopened(d) == fp[d] = "none" /\ ~err[d]

(* Device d has its stream, or has failed to open it before.               *)
Keep(d) == ~Unopened(d) /\ UNCHANGED <<fp, err>>

(* It opens file n at its first use; a failure is remembered.              *)
OpenNew(d, n) ==
  /\ Unopened(d)
  /\ fp' = [fp EXCEPT ![d] = IF n = "none" THEN "none" ELSE d]
  /\ err' = [err EXCEPT ![d] = n = "none"]

(* Mutant: each opens a stream of its own.                                 *)
Attach_Own(d, v, other) ==
  OpenNew(d, IF env[v] # "unset" THEN Fopen(v, "none") ELSE Fopen("CPMAUX", "AUX:"))

(* The reader's or punch's first use: its variable, else the stream of the *)
(* other if that is open, else CPMAUX or AUX:.                             *)
Attach(d, v, other) ==
  \/ env[v] # "unset" /\ OpenNew(d, Fopen(v, "none"))
  \/ /\ env[v] = "unset" /\ fp[other] # "none"
     /\ Unopened(d) /\ fp' = [fp EXCEPT ![d] = fp[other]] /\ UNCHANGED err
  \/ env[v] = "unset" /\ fp[other] = "none" /\ OpenNew(d, Fopen("CPMAUX", "AUX:"))

(* The stream before its use: just opened, at the beginning.               *)
Ready(d, n) ==
  IF fp'[d] = d /\ fp[d] # d THEN [file |-> n, pos |-> 0, dir |-> "none"] ELSE stream[fp'[d]]

(* The file a device's own fopen() would open now.                         *)
Source(d) ==
  CASE d = "lst" -> Fopen("CPMLST", "PRN:")
    [] d = "rdr" /\ env["CPMRDR"] # "unset" -> Fopen("CPMRDR", "none")
    [] d = "pun" /\ env["CPMPUN"] # "unset" -> Fopen("CPMPUN", "none")
    [] OTHER -> Fopen("CPMAUX", "AUX:")

(* putc(): after getc() on the same stream the character may be lost.      *)
Putc(d, s, c) ==
  \/ /\ file' = [file EXCEPT ![s.file] =
                   [k \in 1..(IF s.pos < Len(@) THEN Len(@) ELSE s.pos + 1) |->
                      IF k = s.pos + 1 THEN c ELSE @[k]]]
     /\ stream' = [stream EXCEPT ![fp'[d]] = [s EXCEPT !.pos = @ + 1, !.dir = "write"]]
  \/ /\ s.dir = "read"
     /\ stream' = [stream EXCEPT ![fp'[d]] = s] /\ UNCHANGED file

Note(d, c) == used' = [used EXCEPT ![fp'[d]] = Append(@, [dev |-> d, c |-> c])]
UseCount == Len(used["lst"]) + Len(used["rdr"]) + Len(used["pun"]) + Len(used["none"])

Out(d) ==
  LET c == 10 + UseCount IN
  /\ Note(d, c)
  /\ \/ fp'[d] = "none" /\ UNCHANGED <<stream, file>>
     \/ fp'[d] # "none" /\ Putc(d, Ready(d, Source(d)), c)
  /\ UNCHANGED <<env, ended>>

(* cpm_lst_out()                                                           *)
LstOut ==
  /\ Keep("lst") \/ OpenNew("lst", Source("lst"))
  /\ Out("lst")

(* cpm_pun_out()                                                           *)
PunOut ==
  /\ Keep("pun") \/ Attach("pun", "CPMPUN", "rdr")
  /\ Out("pun")

(* getc(), when there is a character.                                      *)
Getc(s) ==
  /\ s.pos < Len(file[s.file])
  /\ Note("rdr", file[s.file][s.pos + 1])
  /\ stream' = [stream EXCEPT ![fp'["rdr"]] = [s EXCEPT !.pos = @ + 1, !.dir = "read"]]

(* The count of end-of-file answers: a variable of the call.               *)
Ending == RdrCount

(* 1AH: there is no stream, or its end is reached, or it was written last. *)
EndOfFile(s) ==
  /\ fp'["rdr"] # "none" => (s.pos >= Len(file[s.file]) \/ s.dir = "write")
  /\ Note("rdr", 26)
  /\ ended' = (Ending - 1 = 0)
  /\ stream' = IF fp'["rdr"] = "none" THEN stream
               ELSE [stream EXCEPT ![fp'["rdr"]] = IF s.dir = "write" THEN s ELSE [s EXCEPT !.dir = "none"]]

(* cpm_rdr_in()                                                            *)
RdrIn ==
  /\ Keep("rdr") \/ Attach("rdr", "CPMRDR", "pun")
  /\ LET s == Ready("rdr", Source("rdr")) IN
     \/ fp'["rdr"] # "none" /\ Getc(s) /\ UNCHANGED ended
     \/ EndOfFile(s)
  /\ UNCHANGED <<env, file>>

DevNext == UseCount < MaxUses /\ ~ended /\ (LstOut \/ PunOut \/ RdrIn)

DevSpec == DevInit /\ [][DevNext]_devVars

-----------------------------------------------------------------------------
(***************************************************************************)
(* Properties                                                              *)
(***************************************************************************)

OnlyBy(s, d) == \A k \in 1..Len(used[s]) : used[s][k].dev = d
Said(s) == [k \in 1..Len(used[s]) |-> used[s][k].c]

(* Each device keeps its stream for the whole run, the printer's is no one *)
(* else's, and a reader and punch without a variable of their own share    *)
(* one, whichever came first.  What is punched or printed on a stream that *)
(* is never read is in its file, in order; what is read from one that is   *)
(* never written is the file, then 1AH, however often, and reading on      *)
(* never ends the emulator.  (cpm_lst_out, cpm_rdr_in, cpm_pun_out)        *)
DevicesExact ==
  /\ \A s, t \in Streams : \A j \in 1..Len(used[s]), k \in 1..Len(used[t]) : used[s][j].dev = used[t][k].dev => s = t
  /\ \A d \in {"rdr", "pun"} : fp["lst"] # "none" => fp[d] # fp["lst"]
  /\ (env["CPMRDR"] = "unset" /\ env["CPMPUN"] = "unset"
        /\ fp["rdr"] # "none" /\ fp["pun"] # "none") => fp["rdr"] = fp["pun"]
  /\ \A d \in {"lst", "pun"} :
       (fp[d] # "none" /\ OnlyBy(fp[d], d)) =>
         SubSeq(file[stream[fp[d]].file], 1, Len(Said(fp[d]))) = Said(fp[d])
  /\ (fp["rdr"] # "none" /\ OnlyBy(fp["rdr"], "rdr")) =>
       \A k \in 1..Len(Said(fp["rdr"])) :
         Said(fp["rdr"])[k] = IF k <= Len(file[stream[fp["rdr"]].file])
                              THEN file[stream[fp["rdr"]].file][k] ELSE 26
  /\ ~ended

(* The manual: without CPMPUN, output goes to the file CPMAUX names, or to *)
(* AUX:.  The code gives it the reader's stream, which may be on CPMRDR's  *)
(* file (cpm_pun_out).                                                     *)
PunchWhereTold ==
  (fp["pun"] # "none" /\ env["CPMPUN"] = "unset") =>
    stream[fp["pun"]].file = Fopen("CPMAUX", "AUX:")
=============================================================================
