----------------------------- MODULE BankLoader -----------------------------
(***************************************************************************)
(* The MSX-DOS2 loader of BLCRT.C: what a sequence of runs of one banked   *)
(* program does with the segments of the memory mapper.  A run allocates   *)
(* two segments per bank and loads the OVL file into them through page 2,  *)
(* or, in a resident (BL_TSR) build, finds the banks of an earlier run by  *)
(* an environment variable; main() runs, allocates linear memory from the  *)
(* same pool, overlays banks and goes resident or not; bl_main() then      *)
(* saves the table or frees the segments, and DOS frees what was allocated *)
(* as user segments.                                                       *)
(*                                                                         *)
(* DOS may call the helper's callbacks: 8230H on a disk error and 82DBH on *)
(* an abort.  They lie in page 2, which the loader switches to the segment *)
(* it reads into.                                                          *)
(***************************************************************************)
EXTENDS Naturals, Sequences, FiniteSets

CONSTANTS
  Seg,           \* the segments of the primary mapper DOS does not use itself
  Bad,           \* FFH, the result of a failed allocation
  Own,           \* the program's own segment of page 2, with the helper in it
  OvlBanks,      \* banks in the OVL file
  BMax,          \* BL_BMAX: banks to load at most
  Builds,        \* the builds to check: TRUE has BL_TSR defined
  ReadFaults,    \* may a disk error interrupt read() of the OVL file?
  ExitAbort,     \* may Ctrl-C arrive while bl_main() prints assert_msg?
  MaxRuns,       \* bound: runs of the program
  MaxBlocks,     \* bound: lmem blocks held at a time
  MaxPages       \* bound: pages of an lmem block

ASSUME LoaderAssumption ==
  /\ IsFiniteSet(Seg) /\ Bad \notin Seg /\ Own \notin Seg /\ Bad # Own
  /\ OvlBanks \in 1..32 /\ BMax \in 1..32
  /\ Builds \subseteq BOOLEAN /\ ReadFaults \in BOOLEAN /\ ExitAbort \in BOOLEAN
  /\ MaxRuns \in Nat /\ MaxBlocks \in Nat /\ MaxPages \in Nat

VARIABLES
  resident,\* is this a resident build (BL_TSR)?
  owner,   \* the mapper: who allocated a segment
  holds,   \* what a segment holds: half "half" of bank "bank" of the OVL file
  scratch, \* the run whose page-zero scratch area (0000H-00FFH) it holds
  env,     \* the environment variable *_TSR: the saved table, <<>> if not set
  envL,    \* the environment variable of an exported lmem block, {} if not set
  at,      \* where bl_main() is, "idle" between runs
  run,     \* the runs started so far
  tbl,     \* tMemSeg.BankTbl
  bankMax, \* tMemSeg.BankMax
  idx,     \* the Bank index (8400H), <<>> for an entry never set
  freeNo,  \* free_seg_no
  tsr,     \* bl_tsr_mode
  envExist,\* bl_tsr_env_exist
  page2,   \* the segment in page 2
  hook,    \* is the ISR installed in H.KEYI?
  abortOn, \* bl_abort
  ovl,     \* the arguments of bl_overlay_seg() in progress
  blocks,  \* the lmem blocks main() holds
  left,    \* history: system segments that main(), or an abort, never gave back
  over     \* history: banks that took part in an overlay since they were loaded

mapper == <<owner, holds, scratch>>
dos == <<env, envL>>
mem == <<tbl, bankMax, idx, freeNo>>
flags == <<tsr, envExist, hook, abortOn>>
vars == <<resident, mapper, dos, at, run, mem, flags, page2, ovl, blocks, left, over>>

SegsOf(s) == {s[i] : i \in 1..Len(s)}
Free == {s \in Seg : owner[s] = "free"}
NoBlock == [segs |-> {}, n |-> 0]

(* MapperAllocSys() in a resident build, else MapperAllocUser().           *)
Kind == IF resident THEN "sys" ELSE "user"

Init ==
  /\ resident \in Builds
  /\ owner = [s \in Seg |-> "free"]
  /\ holds = [s \in Seg \cup {Bad} |-> [bank |-> 0, half |-> 0]]
  /\ scratch = [s \in Seg \cup {Bad} |-> 0]
  /\ env = <<>> /\ envL = NoBlock
  /\ at = "idle" /\ run = 0
  /\ tbl = <<>> /\ bankMax = 0 /\ idx = [b \in 1..OvlBanks |-> <<>>] /\ freeNo = 0
  /\ tsr = FALSE /\ envExist = FALSE
  /\ page2 = Own /\ hook = FALSE /\ abortOn = FALSE
  /\ ovl = [dest |-> 0, bank |-> 0]
  /\ blocks = {} /\ left = {} /\ over = {}

(***************************************************************************)
(* Starting a run                                                          *)
(***************************************************************************)

(* start and the head of bl_main(): the callbacks are registered, page 2   *)
(* holds the helper, the free segments are counted, and a saved table      *)
(* makes this a resumed run.                                               *)
Start ==
  /\ at = "idle"
  /\ run < MaxRuns
  /\ run' = run + 1
  /\ freeNo' = Cardinality(Free)
  /\ LET resumed == resident /\ env # <<>>
     IN /\ tsr' = resumed /\ envExist' = resumed
        /\ tbl' = env
        /\ bankMax' = Len(env) \div 2
        /\ at' = IF resumed THEN "resume" ELSE "open"
  /\ idx' = [b \in 1..OvlBanks |-> <<>>]
  /\ blocks' = {}
  /\ over' = IF resident /\ env # <<>> THEN over ELSE {}
  /\ UNCHANGED <<mapper, dos, hook, abortOn, page2, ovl, left>>

(* The program returns to DOS, which frees the user segments.              *)
ToDos ==
  /\ owner' = [s \in Seg |-> IF owner[s] = "user" THEN "free" ELSE owner[s]]
  /\ at' = "idle"

(* The OVL file gives the number of banks; bl_cb_adjust_BankMax() may      *)
(* lower it (to any number) when there is not enough memory.               *)
Open ==
  /\ at = "open"
  /\ \E want \in 0..OvlBanks :
       /\ LET most == IF OvlBanks > BMax THEN BMax ELSE OvlBanks
          IN want = most \/ 2 * most > freeNo
       /\ bankMax' = want
       /\ IF 2 * want > freeNo
            THEN ToDos
            ELSE at' = "load" /\ owner' = owner
  /\ UNCHANGED <<holds, scratch, dos, run, tbl, idx, freeNo, flags, page2, ovl,
                 blocks, left, over>>

(* The OVL file is missing ("ERROR: OVL not found"), or a disk error while *)
(* it is opened: the callback says abort, and DOS ends the program.        *)
OpenFails ==
  /\ at = "open"
  /\ ToDos
  /\ UNCHANGED <<holds, scratch, dos, run, mem, flags, page2, ovl, blocks, left, over>>

(* One pass of the loading loop up to read(): allocate, enter the segment  *)
(* in the table and the index, put it in page 2.  (Mutant: the halves      *)
(* change places in the index.)                                            *)
SetEntry_Swapped(b, half, seg) ==
  idx' = [idx EXCEPT ![b] = IF half = 0 THEN <<seg>> ELSE <<seg>> \o @]

SetEntry(b, half, seg) ==
  idx' = [idx EXCEPT ![b] = IF half = 0 THEN <<seg>> ELSE Append(@, seg)]

LoadAlloc ==
  /\ at = "load"
  /\ Len(tbl) < 2 * bankMax
  /\ \E seg \in IF Free = {} THEN {Bad} ELSE Free :
       /\ owner' = IF seg = Bad THEN owner ELSE [owner EXCEPT ![seg] = Kind]
       /\ tbl' = Append(tbl, seg)
       /\ SetEntry(Len(tbl) \div 2 + 1, Len(tbl) % 2, seg)
       /\ page2' = seg
  /\ at' = "read"
  /\ UNCHANGED <<holds, scratch, dos, run, bankMax, freeNo, flags, ovl, blocks, left, over>>

(* Page 2 holds "seg" while 16 KB of half "half" of bank "b" are read into *)
(* it; a first half also gets a copy of DOS's page-zero scratch area.      *)
Fill(seg, b, half) ==
  /\ holds' = [holds EXCEPT ![seg] = [bank |-> b, half |-> half]]
  /\ scratch' = IF half = 0 THEN [scratch EXCEPT ![seg] = run] ELSE scratch

(* Mutant: free_seg_no is not counted down.                                *)
LoadRead_KeepFree ==
  /\ at = "read"
  /\ Fill(page2, (Len(tbl) - 1) \div 2 + 1, (Len(tbl) - 1) % 2)
  /\ page2' = Own
  /\ at' = "load"
  /\ UNCHANGED <<owner, dos, run, tbl, bankMax, freeNo, idx, flags, ovl, blocks, left, over>>

LoadRead ==
  /\ at = "read"
  /\ Fill(page2, (Len(tbl) - 1) \div 2 + 1, (Len(tbl) - 1) % 2)
  /\ page2' = Own
  /\ freeNo' = freeNo - 1
  /\ at' = "load"
  /\ UNCHANGED <<owner, dos, run, tbl, bankMax, idx, flags, ovl, blocks, left, over>>

(* A resumed run copies the table to the index and the scratch area to the *)
(* first half of every bank.                                               *)
Resume ==
  /\ at = "resume"
  /\ idx' = [b \in 1..OvlBanks |->
               IF b <= bankMax THEN <<tbl[2 * b - 1], tbl[2 * b]>> ELSE <<>>]
  /\ scratch' = [s \in Seg \cup {Bad} |->
                   IF \E b \in 1..bankMax : tbl[2 * b - 1] = s THEN run ELSE scratch[s]]
  /\ at' = "ready"
  /\ UNCHANGED <<owner, holds, dos, run, tbl, bankMax, freeNo, flags, page2, ovl,
                 blocks, left, over>>

(* ISRInit(), bl_abort_on(), main().                                       *)
Main ==
  /\ \/ at = "ready"
     \/ at = "load" /\ Len(tbl) = 2 * bankMax
  /\ hook' = TRUE
  /\ abortOn' = TRUE
  /\ at' = "main"
  /\ UNCHANGED <<mapper, dos, run, mem, tsr, envExist, page2, ovl, blocks, left, over>>

(***************************************************************************)
(* What main() may do                                                      *)
(***************************************************************************)
SetTsr(on) ==
  /\ at = "main"
  /\ tsr # on
  /\ on => resident
  /\ tsr' = on
  /\ UNCHANGED <<mapper, dos, at, run, mem, envExist, hook, abortOn, page2, ovl,
                 blocks, left, over>>

(* bl_lmem_alloc() and bl_lmem_alloc_sys(): nothing when free_seg_no is    *)
(* too small (or the heap is full), otherwise one allocation per page; an  *)
(* allocation that fails enters FFH in the page table, unnoticed.          *)
LmemAlloc(pages, sys) ==
  /\ at = "main"
  /\ Cardinality(blocks) < MaxBlocks
  /\ pages <= freeNo
  /\ \E s \in SUBSET Free :
       /\ Cardinality(s) = IF pages > Cardinality(Free) THEN Cardinality(Free) ELSE pages
       /\ owner' = [x \in Seg |->
                      IF x \notin s THEN owner[x] ELSE IF sys THEN "sys" ELSE "user"]
       /\ blocks' = blocks \cup {[segs |-> s, n |-> pages, sys |-> sys]}
  /\ freeNo' = freeNo - pages
  /\ UNCHANGED <<holds, scratch, dos, at, run, tbl, bankMax, idx, flags, page2, ovl,
                 left, over>>

(* bl_lmem_free().  The application is taken to free a block it exported   *)
(* only after clearing its environment variable: the library does not.     *)
LmemFree(b) ==
  /\ at = "main"
  /\ b.segs # envL.segs
  /\ owner' = [s \in Seg |-> IF s \in b.segs THEN "free" ELSE owner[s]]
  /\ freeNo' = freeNo + b.n
  /\ blocks' = blocks \ {b}
  /\ UNCHANGED <<holds, scratch, dos, at, run, tbl, bankMax, idx, flags, page2, ovl,
                 left, over>>

LmemExport(b) ==
  /\ at = "main"
  /\ b.sys
  /\ envL = NoBlock
  /\ envL' = [segs |-> b.segs, n |-> b.n]
  /\ UNCHANGED <<mapper, env, at, run, mem, flags, page2, ovl, blocks, left, over>>

(* bl_lmem_import(), by an application that does not hold the block yet.   *)
LmemImport ==
  /\ at = "main"
  /\ envL # NoBlock
  /\ \A b \in blocks : b.segs # envL.segs
  /\ blocks' = blocks \cup {[segs |-> envL.segs, n |-> envL.n, sys |-> TRUE]}
  /\ UNCHANGED <<mapper, dos, at, run, mem, flags, page2, ovl, left, over>>

(* The application clears the variable of a block it holds.                *)
ClearExport ==
  /\ at = "main"
  /\ \E b \in blocks : b.segs = envL.segs
  /\ envL' = NoBlock
  /\ UNCHANGED <<mapper, env, at, run, mem, flags, page2, ovl, blocks, left, over>>

(* bl_overlay_seg(): the ISR is taken off while page 2 is used to read     *)
(* bank "bank" of the file into the segments of bank "dest".               *)
OverlayBegin(dest, bank) ==
  /\ at = "main"
  /\ hook' = FALSE
  /\ ovl' = [dest |-> dest, bank |-> bank]
  /\ page2' = tbl[2 * dest - 1]
  /\ at' = "ovl0"
  /\ UNCHANGED <<mapper, dos, run, mem, tsr, envExist, abortOn, blocks, left, over>>

OverlayRead0 ==
  /\ at = "ovl0"
  /\ Fill(page2, ovl.bank, 0)
  /\ page2' = tbl[2 * ovl.dest]
  /\ over' = over \cup {ovl.dest, ovl.bank}
  /\ at' = "ovl1"
  /\ UNCHANGED <<owner, dos, run, mem, flags, ovl, blocks, left>>

(* Mutant: the segments are entered for the bank they were loaded for.     *)
OverlayRead1_Dest ==
  /\ at = "ovl1"
  /\ Fill(page2, ovl.bank, 1)
  /\ page2' = Own
  /\ idx' = [idx EXCEPT ![ovl.dest] = <<tbl[2 * ovl.dest - 1], tbl[2 * ovl.dest]>>]
  /\ hook' = TRUE
  /\ at' = "main"
  /\ UNCHANGED <<owner, dos, run, tbl, bankMax, freeNo, tsr, envExist, abortOn, ovl,
                 blocks, left, over>>

OverlayRead1 ==
  /\ at = "ovl1"
  /\ Fill(page2, ovl.bank, 1)
  /\ page2' = Own
  /\ idx' = [idx EXCEPT ![ovl.bank] = <<tbl[2 * ovl.dest - 1], tbl[2 * ovl.dest]>>]
  /\ hook' = TRUE
  /\ at' = "main"
  /\ UNCHANGED <<owner, dos, run, tbl, bankMax, freeNo, tsr, envExist, abortOn, ovl,
                 blocks, left, over>>

(***************************************************************************)
(* Ending a run                                                            *)
(***************************************************************************)

(* main() returns, calls bl_exit(), or is aborted by Ctrl-C or by a disk   *)
(* error of its own: the abort callback calls bl_exit().  Then             *)
(* bl_abort_off() and ISRDeinit().                                         *)
MainEnds ==
  /\ at = "main"
  /\ abortOn' = FALSE
  /\ hook' = FALSE
  /\ left' = left \cup ((UNION {b.segs : b \in {x \in blocks : x.sys}}) \ envL.segs)
  /\ at' = "exit"
  /\ UNCHANGED <<mapper, dos, run, mem, tsr, envExist, page2, ovl, blocks, over>>

(* Ctrl-C while assert_msg is printed: the abort callback finds bl_abort   *)
(* off and returns, and DOS ends the program.  A resident build loses the  *)
(* banks no variable names yet.                                            *)
AbortAtExit ==
  /\ at = "exit"
  /\ ExitAbort
  /\ ToDos
  /\ left' = IF resident THEN left \cup (SegsOf(tbl) \ ({Bad} \cup SegsOf(env))) ELSE left
  /\ UNCHANGED <<holds, scratch, dos, run, mem, flags, page2, ovl, blocks, over>>

(* Mutant: half of the table is saved.                                     *)
ExitResident_Half ==
  /\ at = "exit"
  /\ tsr
  /\ env' = IF envExist THEN env ELSE SubSeq(tbl, 1, bankMax)
  /\ ToDos
  /\ UNCHANGED <<holds, scratch, envL, run, mem, flags, page2, ovl, blocks, left, over>>

(* Stay resident: save the table unless it is saved.                       *)
ExitResident ==
  /\ at = "exit"
  /\ tsr
  /\ env' = IF envExist THEN env ELSE SubSeq(tbl, 1, 2 * bankMax)
  /\ ToDos
  /\ UNCHANGED <<holds, scratch, envL, run, mem, flags, page2, ovl, blocks, left, over>>

(* Do not: clear the variable and free the segments.                       *)
ExitFree ==
  /\ at = "exit"
  /\ ~tsr
  /\ env' = IF envExist THEN <<>> ELSE env
  /\ owner' = [s \in Seg |-> IF s \in SegsOf(tbl) \/ owner[s] = "user" THEN "free" ELSE owner[s]]
  /\ freeNo' = freeNo + 2 * bankMax
  /\ at' = "idle"
  /\ UNCHANGED <<holds, scratch, envL, run, tbl, bankMax, idx, flags, page2, ovl,
                 blocks, left, over>>

(* A disk error during read() of the OVL file: DOS calls 8230H, in page 2. *)
DiskError ==
  /\ ReadFaults
  /\ at \in {"read", "ovl0", "ovl1"}
  /\ at' = IF page2 = Own THEN "exit" ELSE "crashed"
  /\ UNCHANGED <<mapper, dos, run, mem, flags, page2, ovl, blocks, left, over>>

MainStep ==
  \/ \E on \in BOOLEAN : SetTsr(on)
  \/ \E pages \in 1..MaxPages, sys \in BOOLEAN : LmemAlloc(pages, sys)
  \/ \E b \in blocks : LmemFree(b) \/ LmemExport(b)
  \/ LmemImport \/ ClearExport
  \/ \E dest \in 1..bankMax, bank \in 1..OvlBanks : OverlayBegin(dest, bank)
  \/ OverlayRead0 \/ OverlayRead1

Next ==
  /\ \/ Start \/ Open \/ OpenFails \/ LoadAlloc \/ LoadRead \/ Resume \/ Main
     \/ MainStep \/ MainEnds
     \/ AbortAtExit \/ ExitResident \/ ExitFree
     \/ DiskError
  /\ UNCHANGED resident

Spec == Init /\ [][Next]_vars

(***************************************************************************)
(* Properties                                                              *)
(***************************************************************************)
Place == {"idle", "open", "load", "read", "resume", "ready", "main", "ovl0", "ovl1",
          "exit", "crashed"}

TypeOK ==
  /\ owner \in [Seg -> {"free", "user", "sys"}]
  /\ holds \in [Seg \cup {Bad} -> [bank : 0..OvlBanks, half : {0, 1}]]
  /\ scratch \in [Seg \cup {Bad} -> 0..MaxRuns]
  /\ env \in Seq(Seg \cup {Bad}) /\ tbl \in Seq(Seg \cup {Bad})
  /\ envL.segs \subseteq Seg /\ envL.n \in Nat
  /\ at \in Place /\ run \in 0..MaxRuns
  /\ bankMax \in 0..OvlBanks /\ freeNo \in Nat
  /\ idx \in [1..OvlBanks -> Seq(Seg \cup {Bad})]
  /\ tsr \in BOOLEAN /\ envExist \in BOOLEAN /\ hook \in BOOLEAN /\ abortOn \in BOOLEAN
  /\ page2 \in Seg \cup {Bad, Own}
  /\ ovl \in [dest : 0..OvlBanks, bank : 0..OvlBanks]
  /\ \A b \in blocks : b.segs \subseteq Seg /\ b.n \in Nat /\ b.sys \in BOOLEAN
  /\ left \subseteq Seg /\ over \subseteq 1..OvlBanks

(* free_seg_no is the number of segments the mapper has free, through      *)
(* loading, resuming, overlays and lmem blocks taken over from other runs; *)
(* that is why no allocation fails although its result is never tested     *)
(* (bl_main, bl_lmem_alloc_do).                                            *)
Accounting ==
  at \in {"load", "ready", "main", "ovl0", "ovl1"} =>
    /\ freeNo = Cardinality(Free)
    /\ Bad \notin SegsOf(tbl)
    /\ \A b \in blocks : b.n = Cardinality(b.segs)

(* While main() runs every segment has one holder, to whom it is           *)
(* allocated: a place in the segment table, an lmem block, or a block of   *)
(* another run that waits in the environment (MapperAlloc, MapperFree).    *)
OneHolder ==
  at \in {"main", "ovl0", "ovl1"} =>
    /\ Cardinality(SegsOf(tbl)) = 2 * bankMax
    /\ \A s \in SegsOf(tbl) : owner[s] = Kind
    /\ \A b \in blocks :
         /\ \A s \in b.segs : owner[s] = IF b.sys THEN "sys" ELSE "user"
         /\ b.segs \cap (SegsOf(tbl) \cup left) = {}
         /\ \A c \in blocks \ {b} : b.segs \cap c.segs = {}
         /\ b.segs = envL.segs \/ b.segs \cap envL.segs = {}
    /\ envL.segs \cap (SegsOf(tbl) \cup left) = {}

(* Every segment is accounted for.                                         *)
Ownership == TypeOK /\ Accounting /\ OneHolder

(* Between runs DOS holds for the program exactly the segments a later run *)
(* can find again in the environment, and the system blocks main() itself  *)
(* did not give back: bl_main() loses none (its end, "Free all segment").  *)
(* The banks of a resident build aborted while it prints are lost: they    *)
(* are counted in left.                                                    *)
NothingLost ==
  at = "idle" =>
    /\ \A s \in Seg : owner[s] # "user"
    /\ {s \in Seg : owner[s] = "sys"} = SegsOf(env) \cup envL.segs \cup left

(* While the ISR is installed page 2 holds the helper it lies in           *)
(* (bl_overlay_seg takes it off around its use of page 2).                 *)
HookMapped == hook => page2 = Own

Holds(entry, b) ==
  /\ Len(entry) = 2
  /\ holds[entry[1]] = [bank |-> b, half |-> 0]
  /\ holds[entry[2]] = [bank |-> b, half |-> 1]

(* Interrupts and DOS calls use the scratch area in page zero whichever    *)
(* bank is mapped: every bank a call can reach has the one of this run     *)
(* (copy_256_p0_to_p2 after loading, resuming and overlaying).             *)
ScratchFresh ==
  at = "main" => \A b \in 1..OvlBanks : idx[b] # <<>> => scratch[idx[b][1]] = run

(* While main() runs, the Bank index sends a call of a bank that was       *)
(* loaded, in this run or in an earlier one, to its code, unless it was    *)
(* in an overlay; and any entry leads to the two halves of one bank.  At   *)
(* no time is the ISR installed while page 2 does not hold the helper.     *)
CallsReachCode ==
  /\ HookMapped
  /\ at = "main" =>
       /\ ScratchFresh
       /\ \A b \in (1..bankMax) \ over : idx[b] = <<>> \/ Holds(idx[b], b)
       /\ \A b \in 1..bankMax : idx[b] # <<>>
       /\ \A b \in 1..OvlBanks :
            idx[b] # <<>> => \E c \in 1..OvlBanks : Holds(idx[b], c)

(* When an overlay is done, its own entry leads to its code.               *)
OverlayReached ==
  [][at = "ovl1" /\ at' = "main" => Holds(idx[ovl.bank], ovl.bank)']_vars

(* DOS finds the helper's callbacks in page 2 ("8000H~8FFFH: Banking       *)
(* Helper", BLCRT.C:6).                                                    *)
CallbacksMapped == at # "crashed"
=============================================================================
