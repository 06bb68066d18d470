------------------------------ MODULE BlStart -------------------------------
(***************************************************************************)
(* How a program starts, in each of the builds of BLCRT.C: with BL_ROM,    *)
(* with BL_DISABLE for MSX-DOS2 or (BL_DOS1) for any DOS and CP/M, and     *)
(* banked, where bl_main() comes before main(): the memory that is         *)
(* cleared, the helper that is moved to its place, DOS's callbacks, the    *)
(* arguments, the file names, and the calls to the memory mapper whose     *)
(* addresses MapperInit() writes into its own code.  What bl_main() does   *)
(* with segments is module BankLoader.                                     *)
(*                                                                         *)
(* Memory is a few cells: 80H, the command tail, the program (the helper's *)
(* image in it), BSS, the helper's place, and 9000H to __Hcomm.            *)
(***************************************************************************)
EXTENDS Naturals, Sequences

CONSTANTS
  Cells,     \* bound: cells of memory; addresses are counted modulo Cells
  TailRoom,  \* cells of the command tail, 81H to FFH
  MaxPath    \* bound: characters of the program's path before its extension

ASSUME StartAssumption ==
  /\ TailRoom \in Nat \ {0} /\ MaxPath \in Nat /\ Cells \in Nat /\ Cells >= TailRoom + 14

VARIABLES
  given,   \* build, machine, command tail, size of BSS, __Hcomm, path
  stAt,    \* the next step
  ram,     \* memory
  calls_,  \* callbacks of DOS: abort, diskerr
  ei_,     \* are interrupts enabled?
  brk_,    \* the start of the shared heap
  argv_,   \* what startup() makes arguments of
  mode,    \* gcBdosMode
  operand, \* the addresses in MapperAlloc, MapperFree, MapperPutPage0, ...
  names,   \* pOvlName and pTsrEnvName
  told     \* the message shown

startVars == <<given, stAt, ram, calls_, ei_, brk_, argv_, mode, operand, names, told>>

Program0 == TailRoom + 1      \* 100H
Image0 == Program0 + 1        \* BankCallBin, two cells
Lbss == Image0 + 2            \* __Lbss
HelperAt == Lbss + 5          \* BankCall_entry
Himem == HelperAt + 2         \* 9000H

Machines == {"cpm", "dos1", "dos2", "turbor"}
Paths == UNION {[1..n -> {"a", "b", "sep"}] : n \in 1..MaxPath}
Ext == <<".", "C", "O", "M">>

(* A file has a name; BSS has two cells or more, as the C library's alone. *)
StartInit ==
  /\ given \in [build : {"rom", "dos1", "dos2", "banked", "r800"}, machine : Machines,
                tail : 0..TailRoom, bss : 2..5, hcomm : Himem + 2..Cells - 1,
                path : {p \in Paths : p[Len(p)] # "sep"}]
  /\ stAt = "start"
  /\ ram = [a \in 0..Cells - 1 |-> IF a = 0 THEN given.tail ELSE a]
  /\ calls_ = [abort |-> "none", diskerr |-> "none"]
  /\ ei_ = TRUE /\ brk_ = 0 /\ argv_ = <<>> /\ mode = 9 /\ operand = <<>>
  /\ names = [ovl |-> <<>>, tsr |-> <<>>] /\ told = "nothing"

Banked == given.build \in {"banked", "r800"}

(* LDIR: byte after byte, so that a block may be copied from itself; the   *)
(* count is taken modulo the memory's size, and 0 stands for all of it.    *)
Ldir(m, from, to, count) ==
  LET n == IF count = 0 THEN Cells ELSE count
      copy[k \in 0..n] ==
        IF k = 0 THEN m
        ELSE [copy[k - 1] EXCEPT ![(to + k - 1) % Cells] = copy[k - 1][(from + k - 1) % Cells]]
  IN copy[n]

Cleared(m, first, size) == Ldir([m EXCEPT ![first] = 0], first, first + 1, size - 1)

(* _DOSVER: A is an error under CP/M, B the version.                       *)
IsDos2 == given.machine \in {"dos2", "turbor"}

(* Banked and MSX-DOS2 builds say so and leave on any other system.        *)
NotDos2 ==
  /\ stAt = "start" /\ given.build \notin {"rom", "dos1"} /\ ~IsDos2
  /\ told' = "MSX-DOS2 required" /\ stAt' = "ended"
  /\ UNCHANGED <<given, ram, calls_, ei_, brk_, argv_, mode, operand, names>>

ClearBss ==
  /\ stAt = "start" /\ (given.build \in {"dos2", "banked", "r800"} => IsDos2)
  /\ ram' = Cleared(ram, Lbss, given.bss)
  /\ ei_' = ~Banked
  /\ stAt' = CASE given.build = "rom" -> "main" [] Banked -> "transfer" [] OTHER -> "args"
  /\ UNCHANGED <<given, calls_, brk_, argv_, mode, operand, names, told>>

(* "transfer BankCall", abort_init and diskerr_init.                       *)
Transfer ==
  /\ stAt = "transfer" /\ stAt' = "args"
  /\ ram' = Ldir(ram, Image0, HelperAt, 2)
  /\ calls_' = [abort |-> "AbortCallback", diskerr |-> "DiskECallback"]
  /\ UNCHANGED <<given, ei_, brk_, argv_, mode, operand, names, told>>

(* The tail is zero-terminated, which with the longest one is the first    *)
(* byte of the program, and startup() reads it up to the zero.             *)
Args ==
  /\ stAt = "args"
  /\ ram' = [ram EXCEPT ![1 + ram[0]] = 0]
  /\ LET end == CHOOSE a \in 1..Program0 : ram'[a] = 0 /\ \A b \in 1..a - 1 : ram'[b] # 0
     IN argv_' = SubSeq([a \in 1..TailRoom |-> ram'[a]], 1, end - 1)
  /\ ei_' = TRUE
  /\ stAt' = CASE Banked -> "himem" [] given.build = "dos1" -> "version" [] OTHER -> "main"
  /\ UNCHANGED <<given, calls_, brk_, mode, operand, names, told>>

(* GetBdosVersion(), kept in gcBdosMode.                                   *)
BdosVersion ==
  /\ stAt = "version" /\ stAt' = "main"
  /\ mode' = CASE given.machine = "cpm" -> 0 [] given.machine = "dos1" -> 1 [] OTHER -> 2
  /\ UNCHANGED <<given, ram, calls_, ei_, brk_, argv_, operand, names, told>>

(* bl_init_himem() and, in R800ONLY builds, the check for a turboR.        *)
InitHimem ==
  /\ stAt = "himem"
  /\ ram' = Cleared(ram, Himem, given.hcomm - Himem)
  /\ brk_' = given.hcomm
  /\ LET runs == given.build = "r800" => given.machine = "turbor" IN
       /\ stAt' = IF runs THEN "mapper" ELSE "exit"
       /\ told' = IF runs THEN told ELSE "MSXturboR required"
  /\ UNCHANGED <<given, calls_, ei_, argv_, mode, operand, names>>

(* The mapper's table of jumps, in its order (external).                   *)
Table == <<"ALL_SEG", "FRE_SEG", "RD_SEG", "WR_SEG", "CAL_SEG", "CALLS", "PUT_PH", "GET_PH",
           "PUT_P0", "GET_P0", "PUT_P1", "GET_P1", "PUT_P2", "GET_P2", "PUT_P3", "GET_P3">>
TableAddr == 1000

(* Mutant: one entry less is passed over.                                  *)
MapperInit_Skip ==
  /\ stAt = "mapper" /\ stAt' = "names"
  /\ LET passed(n) == TableAddr + 3 * n IN
       operand' = [alloc |-> passed(0), free |-> passed(1),
                   bankcall |-> passed(7), put0 |-> passed(7), get0 |-> passed(8),
                   put1 |-> passed(9), get1 |-> passed(10), put2 |-> passed(11), get2 |-> passed(12)]
  /\ UNCHANGED <<given, ram, calls_, ei_, brk_, argv_, mode, names, told>>

(* MapperInit(): EXTBIO gives the table's address; its entries are passed  *)
(* over three bytes at a time, and the operands of the calls filled in.    *)
MapperInit ==
  /\ stAt = "mapper" /\ stAt' = "names"
  /\ LET passed(n) == TableAddr + 3 * n IN
       operand' = [alloc |-> passed(0), free |-> passed(1),
                   bankcall |-> passed(8), put0 |-> passed(8), get0 |-> passed(9),
                   put1 |-> passed(10), get1 |-> passed(11), put2 |-> passed(12), get2 |-> passed(13)]
  /\ UNCHANGED <<given, ram, calls_, ei_, brk_, argv_, mode, names, told>>

(* MakeOvlName(): the program's path, "OVL" in the place of "COM".         *)
OvlName(path) == SubSeq(path, 1, Len(path) - 3) \o <<"O", "V", "L">>

(* MakeTsrEnvName(): what follows the last "\", "_TSR" in the place of its *)
(* last four characters.                                                   *)
TsrEnvName(path) ==
  LET from[k \in 0..Len(path)] ==
        IF k = 0 THEN 1 ELSE IF path[k] = "sep" THEN k + 1 ELSE from[k - 1]
      file == SubSeq(path, from[Len(path)], Len(path))
  IN SubSeq(file, 1, Len(file) - 4) \o <<"_", "T", "S", "R">>

MakeNames ==
  /\ stAt = "names" /\ stAt' = "main"
  /\ names' = [ovl |-> OvlName(given.path \o Ext), tsr |-> TsrEnvName(OvlName(given.path \o Ext))]
  /\ UNCHANGED <<given, ram, calls_, ei_, brk_, argv_, mode, operand, told>>

(* main() has returned, or bl_main() has before it: back to DOS, without   *)
(* the callbacks.  A program in ROM returns to what called it.             *)
Exit ==
  /\ stAt \in {"main", "exit"} /\ stAt' = "ended"
  /\ calls_' = IF Banked THEN [abort |-> "none", diskerr |-> "none"] ELSE calls_
  /\ UNCHANGED <<given, ram, ei_, brk_, argv_, mode, operand, names, told>>

StartNext ==
  \/ NotDos2 \/ ClearBss \/ Transfer \/ Args \/ BdosVersion
  \/ InitHimem \/ MapperInit \/ MakeNames \/ Exit

StartSpec == StartInit /\ [][StartNext]_startVars

(***************************************************************************)
(* Properties.                                                             *)
(***************************************************************************)
(* The cells of each region, and what each must hold when main() begins.   *)
Region(first, after) == first..after - 1
Before == [a \in 0..Cells - 1 |-> IF a = 0 THEN given.tail ELSE a]
Wanted_(a) ==
  CASE a \in Region(Lbss, Lbss + given.bss) -> 0
    [] Banked /\ a \in Region(HelperAt, Himem) -> Before[Image0 + a - HelperAt]
    [] Banked /\ a \in Region(Himem, given.hcomm) -> 0
    [] given.build # "rom" /\ a = 1 + given.tail -> 0
    [] OTHER -> Before[a]

Called_(f) == Table[(operand[f] - TableAddr) \div 3 + 1]
Functions_ ==
  [alloc |-> "ALL_SEG", free |-> "FRE_SEG", bankcall |-> "PUT_P0", put0 |-> "PUT_P0",
   get0 |-> "GET_P0", put1 |-> "PUT_P1", get1 |-> "GET_P1", put2 |-> "PUT_P2", get2 |-> "GET_P2"]

(* When main() begins, in every build and on every machine the build is    *)
(* for: memory is as the program was loaded but for BSS and the shared     *)
(* memory, which are zero, the helper and the end of the arguments; each   *)
(* of the mapper's functions calls the entry it is named after; overlays   *)
(* are looked for beside the program, and its variable is named after it   *)
(* alone, whatever directory it was started from.  On no other machine     *)
(* does main() begin, and DOS is left without callbacks.                   *)
StartedRight ==
  /\ stAt = "main" =>
       /\ \A a \in 0..Cells - 1 : ram[a] = Wanted_(a)
       /\ given.build \in {"dos2", "banked"} => given.machine \in {"dos2", "turbor"}
       /\ given.build = "r800" => given.machine = "turbor"
       /\ given.build # "rom" => argv_ = [k \in 1..given.tail |-> k] /\ ei_
       /\ given.build = "dos1" => mode = CASE given.machine = "cpm" -> 0 [] given.machine = "dos1" -> 1 [] OTHER -> 2
       /\ Banked =>
            /\ calls_ = [abort |-> "AbortCallback", diskerr |-> "DiskECallback"] /\ brk_ = given.hcomm
            /\ \A f \in DOMAIN Functions_ : Called_(f) = Functions_[f]
            /\ names.ovl = given.path \o <<".", "O", "V", "L">>
            /\ \A k \in 1..Len(names.tsr) : names.tsr[k] # "sep"
            /\ \E dir \in {<<>>} \cup {SubSeq(given.path, 1, k) : k \in 1..Len(given.path)} :
                 /\ dir \o SubSeq(names.tsr, 1, Len(names.tsr) - 4) = given.path
                 /\ dir # <<>> => dir[Len(dir)] = "sep"
  /\ stAt = "ended" => calls_ = [abort |-> "none", diskerr |-> "none"]
=============================================================================
