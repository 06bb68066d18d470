---------------------------- MODULE LinearMemory ----------------------------
(***************************************************************************)
(* One block of linear memory of BLCRT.C: bl_lmem_alloc() takes pages of   *)
(* 16 KB, bl_lmem_copy_to() and bl_lmem_copy_from() move bytes between the *)
(* block and a buffer of the application through page 1 (4000H-7FFFH),     *)
(* with interrupts off.  One step of the model is one pass of the copy     *)
(* loop.  Offsets count from 4000H: offset PageSize is address 8000H, the  *)
(* first byte of the banking helper.                                       *)
(***************************************************************************)
EXTENDS Integers

CONSTANTS
  PageSize, \* bytes of a page (4000H)
  TblSize,  \* entries of bl_lmem_t.page_tbl (64)
  LmemByteMod, \* values of a uint8_t (256)
  FreePages,\* free_seg_no before the allocation
  MaxAsk,   \* bound: bytes asked for
  MaxCopies,\* bound: copies made
  Data,     \* values of a byte
  Old(_, _),\* Old(p, o): what offset o of page p holds at first
  Src(_),   \* Src(i): byte i of the application's buffer, which is not in page 1
  Helper    \* what 8000H holds

ASSUME MemoryAssumption ==
  /\ PageSize \in Nat \ {0} /\ TblSize \in Nat /\ LmemByteMod \in Nat /\ TblSize < LmemByteMod
  /\ FreePages \in Nat /\ MaxAsk \in Nat /\ MaxCopies \in Nat
  /\ \A p \in 0..LmemByteMod : \A o \in 0..PageSize : Old(p, o) \in Data
  /\ \A i \in 0..MaxAsk : Src(i) \in Data
  /\ Helper \in Data
  /\ MaxAsk <= TblSize * PageSize

VARIABLES
  at,     \* "start", "idle" between calls, "to" or "from" in a copy loop
  asked,  \* the size given to bl_lmem_alloc()
  pages,  \* page_max
  freeNo, \* free_seg_no
  block,  \* the bytes of the block, by page and offset
  buf,    \* the buffer of the application that copy_from fills
  helper, \* the byte at 8000H
  addr,   \* addr32 of the copy
  size,   \* its size
  togo,   \* the loop's counter, "size" in the code
  page,   \* lmem_page_no, the page of the block in page 1
  off,    \* lmem_offset, from 4000H
  iff,    \* are interrupts enabled?
  copied, \* copies made so far
  before  \* history: block, buf and helper when the copy began

copyArgs == <<addr, size, copied, before>>
alloc == <<asked, pages, freeNo>>
lmemVars == <<at, alloc, block, buf, helper, copyArgs, togo, page, off, iff>>

LmemInit ==
  /\ at = "start"
  /\ asked = 0 /\ pages = 0
  /\ freeNo = FreePages
  /\ block = [p \in {} |-> {}]
  /\ buf = [i \in 0..MaxAsk - 1 |-> Helper]
  /\ helper = Helper
  /\ addr = 0 /\ size = 0 /\ togo = 0 /\ page = 0 /\ off = 0
  /\ iff = TRUE
  /\ copied = 0
  /\ before = [block |-> block, buf |-> buf, helper |-> helper]

(* The pages of a block: (uint8_t)((size + 0x3FFF) >> 14).                 *)
PagesFor(bytes) == ((bytes + PageSize - 1) \div PageSize) % LmemByteMod

(* bl_lmem_alloc(): the page count, cut to a byte, is compared with        *)
(* free_seg_no; each page gets a segment.  (Only blocks that fit page_tbl  *)
(* are asked for: MemoryAssumption.)                                       *)
Alloc(bytes) ==
  /\ at = "start"
  /\ PagesFor(bytes) # 0
  /\ PagesFor(bytes) <= freeNo
  /\ asked' = bytes
  /\ pages' = PagesFor(bytes)
  /\ freeNo' = freeNo - PagesFor(bytes)
  /\ block' = [p \in 0..PagesFor(bytes) - 1 |-> [o \in 0..PageSize - 1 |-> Old(p, o)]]
  /\ at' = "idle"
  /\ UNCHANGED <<buf, helper, copyArgs, togo, page, off, iff>>

(* bl_lmem_copy_to() and bl_lmem_copy_from() up to the loop, for a range   *)
(* inside the block.                                                       *)
BeginCopy(dir, a, n) ==
  /\ at = "idle"
  /\ copied < MaxCopies
  /\ copied' = copied + 1
  /\ addr' = a
  /\ size' = n
  /\ togo' = n
  /\ page' = (a \div PageSize) % LmemByteMod
  /\ off' = a % PageSize
  /\ iff' = FALSE
  /\ before' = [block |-> block, buf |-> buf, helper |-> helper]
  /\ at' = dir
  /\ UNCHANGED <<alloc, block, buf, helper>>

(* Mutant: the next page starts at its second byte.                        *)
Advance_OffByOne ==
  /\ togo' = togo - 1
  /\ IF off + 1 = PageSize /\ togo - 1 > 1
       THEN off' = 1 % PageSize /\ page' = page + 1
       ELSE off' = off + 1 /\ page' = page

(* The end of a pass: at the end of page 1 the next page of the block is   *)
(* mapped, if more than one byte is left.                                  *)
Advance ==
  /\ togo' = togo - 1
  /\ IF off + 1 = PageSize /\ togo - 1 > 1
       THEN off' = 0 /\ page' = page + 1
       ELSE off' = off + 1 /\ page' = page

CopyTo ==
  /\ at = "to"
  /\ togo > 0
  /\ IF off < PageSize
       THEN /\ block' = [block EXCEPT ![page] = [@ EXCEPT ![off] = Src(size - togo)]]
            /\ helper' = helper
       ELSE /\ helper' = IF off = PageSize THEN Src(size - togo) ELSE helper
            /\ block' = block
  /\ Advance
  /\ UNCHANGED <<at, alloc, buf, copyArgs, iff>>

CopyFrom ==
  /\ at = "from"
  /\ togo > 0
  /\ buf' = [buf EXCEPT ![size - togo] =
               IF off < PageSize THEN block[page][off] ELSE helper]
  /\ Advance
  /\ UNCHANGED <<at, alloc, block, helper, copyArgs, iff>>

(* The loop is done: page 1 gets its segment back, interrupts are enabled. *)
End ==
  /\ at \in {"to", "from"}
  /\ togo = 0
  /\ iff' = TRUE
  /\ at' = "idle"
  /\ UNCHANGED <<alloc, block, buf, helper, copyArgs, togo, page, off>>

LmemNext ==
  \/ \E bytes \in 0..MaxAsk : Alloc(bytes)
  \/ \E dir \in {"to", "from"} : \E a, n \in 0..MaxAsk :
       a + n <= asked /\ BeginCopy(dir, a, n)
  \/ CopyTo \/ CopyFrom \/ End

LmemSpec == LmemInit /\ [][LmemNext]_lmemVars

(***************************************************************************)
(* Properties                                                              *)
(***************************************************************************)
Loops == {"to", "from"}

LmemTypeOK ==
  /\ at \in {"start", "idle"} \cup Loops
  /\ asked \in 0..MaxAsk /\ pages \in Nat /\ freeNo \in Nat
  /\ block \in [0..pages - 1 -> [0..PageSize - 1 -> Data]]
  /\ buf \in [0..MaxAsk - 1 -> Data]
  /\ helper \in Data
  /\ addr \in 0..MaxAsk /\ size \in 0..MaxAsk /\ togo \in 0..size
  /\ page \in Nat /\ off \in Nat
  /\ iff \in BOOLEAN
  /\ copied \in 0..MaxCopies

(* A block has room for what was asked for (bl_lmem_alloc_do rounds up and *)
(* cuts to a byte; holds for sizes up to LmemByteMod - 1 pages), and       *)
(* interrupts are off exactly while page 1 is switched away.               *)
AllocCovers ==
  /\ LmemTypeOK
  /\ at # "start" => pages * PageSize >= asked
  /\ iff <=> at \notin Loops

(* Every byte is accessed in page 1: the loop switches to the next page    *)
(* at the end of the mapped area.                                          *)
CopyInPage1 == at \in Loops /\ togo > 0 => off < PageSize

(* What a program sees of a block: nothing of a copy before it is done.    *)
Seen(now, then, dir) == IF at = dir THEN then ELSE now
Flat(pgs) == [i \in 0..asked - 1 |-> pgs[i \div PageSize][i % PageSize]]
Memory == INSTANCE BlockMemory WITH
  mem <- Flat(Seen(block, before.block, "to")),
  got <- Seen(buf, before.buf, "from"),
  beside <- Seen(helper, before.helper, "to")

(* The page-wise loops implement the abstract block: a copy moves every    *)
(* byte of its range to or from its place across page boundaries, touches  *)
(* no other byte of the block, of the buffer or of the helper, and strays  *)
(* from the block for one range only, the one that ends with the first     *)
(* byte of a page (bl_lmem_copy_to, bl_lmem_copy_from).                    *)
BlockImplemented == Memory!MemSpec
=============================================================================
