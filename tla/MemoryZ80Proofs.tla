--------------------------- MODULE MemoryZ80Proofs --------------------------
(***************************************************************************)
(* Proofs about the parts whose state is plain bytes.  LinearMemory, for   *)
(* pages and blocks of any size: the block has room for what was asked     *)
(* for, and the page-wise copy loops implement the block of BlockMemory.   *)
(* Z80Alu and Z80Block, for operands of any value and memory of any size:  *)
(* the emulator's instructions leave what the Z80's leave.                 *)
(***************************************************************************)
EXTENDS LinearMemory, Z80Block, WellFoundedInduction, TLAPS

-----------------------------------------------------------------------------
(* Pages and offsets.                                                      *)
LEMMA DivMod ==
  ASSUME NEW i \in Nat
  PROVE  /\ i \div PageSize \in Nat /\ i % PageSize \in 0..PageSize - 1
         /\ i = (i \div PageSize) * PageSize + (i % PageSize)
<1> DEFINE q == i \div PageSize
           r == i % PageSize
<1>1. PageSize \in Int /\ PageSize > 0
  BY MemoryAssumption
<1>2. q \in Int /\ r \in 0..PageSize - 1
  BY <1>1
<1>3. i = PageSize * q + r
  BY <1>1
<1> HIDE DEF q, r
<1>4. q >= 0
  <2> SUFFICES ASSUME q < 0 PROVE FALSE
    BY <1>2
  <2>1. (0 - q) * PageSize >= PageSize /\ (0 - q) * PageSize = 0 - PageSize * q
    BY <1>1, <1>2
  <2> QED
    BY <1>1, <1>2, <1>3, <2>1
<1>5. q \in Nat /\ i = q * PageSize + r
  BY <1>1, <1>2, <1>3, <1>4
<1> QED
  BY <1>2, <1>5 DEF q, r

LEMMA Products ==
  ASSUME NEW p \in Nat, NEW q \in Nat
  PROVE  /\ p * PageSize \in Nat
         /\ p < q => p * PageSize + PageSize <= q * PageSize
         /\ (p + 1) * PageSize = p * PageSize + PageSize
<1>1. PageSize \in Nat /\ PageSize > 0
  BY MemoryAssumption
<1>2. ASSUME p < q PROVE p * PageSize + PageSize <= q * PageSize
  <2>1. (q - p) * PageSize >= PageSize /\ (q - p) * PageSize = q * PageSize - p * PageSize
    BY <1>1, <1>2
  <2> QED
    BY <1>1, <2>1
<1> QED
  BY <1>1, <1>2

(* An offset of the block is in one place only.                            *)
LEMMA Place ==
  ASSUME NEW p \in Nat, NEW o \in 0..PageSize - 1, NEW q \in Nat, NEW r \in 0..PageSize - 1,
         p * PageSize + o = q * PageSize + r
  PROVE  p = q /\ o = r
<1>1. PageSize \in Nat /\ p * PageSize \in Nat /\ q * PageSize \in Nat
  BY MemoryAssumption, Products
<1>2. p < q => p * PageSize + PageSize <= q * PageSize
  BY Products
<1>3. q < p => q * PageSize + PageSize <= p * PageSize
  BY Products
<1> QED
  BY <1>1, <1>2, <1>3

LEMMA PlaceOf ==
  ASSUME NEW p \in Nat, NEW o \in 0..PageSize - 1
  PROVE  /\ p * PageSize + o \in Nat
         /\ (p * PageSize + o) \div PageSize = p /\ (p * PageSize + o) % PageSize = o
<1>1. p * PageSize + o \in Nat
  BY MemoryAssumption, Products
<1> DEFINE i == p * PageSize + o
           q == i \div PageSize
           r == i % PageSize
<1>2. q \in Nat /\ r \in 0..PageSize - 1 /\ i = q * PageSize + r
  <2>1. i \in Nat
    BY <1>1
  <2> HIDE DEF i
  <2> QED
    BY <2>1, DivMod
<1>3. p = q /\ o = r
  <2> HIDE DEF q, r
  <2> QED
    BY <1>2, Place
<1> QED
  BY <1>1, <1>3

(* What comes after the first byte of a page is where a copy strays.       *)
LEMMA AfterFirst ==
  ASSUME NEW j \in Nat
  PROVE  (j + 1) % PageSize = 1 % PageSize <=> j % PageSize = 0
<1> DEFINE q == j \div PageSize
           r == j % PageSize
<1>1. /\ q \in Nat /\ r \in 0..PageSize - 1 /\ j = q * PageSize + r
      /\ PageSize \in Nat \ {0} /\ q * PageSize \in Nat
  BY DivMod, Products, MemoryAssumption
<1> HIDE DEF q, r
<1>2. CASE PageSize = 1
  <2>1. (j + 1) % 1 = 0 /\ 1 % 1 = 0
    OBVIOUS
  <2> QED
    BY <1>1, <1>2, <2>1 DEF r
<1>3. CASE PageSize > 1 /\ r < PageSize - 1
  <2>1. (q * PageSize + (r + 1)) % PageSize = r + 1
    BY <1>1, <1>3, PlaceOf
  <2>2. 0 * PageSize + 1 = 1 /\ (0 * PageSize + 1) % PageSize = 1
    BY <1>1, <1>3, PlaceOf
  <2>3. j + 1 = q * PageSize + (r + 1)
    BY <1>1
  <2> QED
    BY <1>1, <2>1, <2>2, <2>3 DEF r
<1>4. CASE PageSize > 1 /\ r = PageSize - 1
  <2>1. ((q + 1) * PageSize + 0) % PageSize = 0
    BY <1>1, <1>4, PlaceOf
  <2>2. 0 * PageSize + 1 = 1 /\ (0 * PageSize + 1) % PageSize = 1
    BY <1>1, <1>4, PlaceOf
  <2>3. j + 1 = (q + 1) * PageSize + 0
    BY <1>1, <1>4
  <2> QED
    BY <1>1, <1>4, <2>1, <2>2, <2>3 DEF r
<1> QED
  BY <1>1, <1>2, <1>3, <1>4

(* The pages counted hold the bytes asked for: the cut to a byte loses     *)
(* nothing for blocks that fit page_tbl.                                   *)
LEMMA PagesCover ==
  ASSUME NEW bytes \in 0..MaxAsk
  PROVE  /\ PagesFor(bytes) \in Nat /\ bytes <= PagesFor(bytes) * PageSize
         /\ PagesFor(bytes) < LmemByteMod
<1> DEFINE i == bytes + PageSize - 1
           q == i \div PageSize
           r == i % PageSize
<1>1. PageSize \in Nat \ {0} /\ LmemByteMod \in Nat /\ TblSize \in Nat /\ TblSize < LmemByteMod
  BY MemoryAssumption
<1>2. i \in Nat /\ bytes <= TblSize * PageSize /\ TblSize * PageSize \in Nat
  BY <1>1, MemoryAssumption, Products
<1>3. q \in Nat /\ i = q * PageSize + r /\ r \in 0..PageSize - 1
  <2> HIDE DEF i
  <2> QED
    BY <1>2, DivMod
<1>4. q * PageSize \in Nat /\ (TblSize < q => TblSize * PageSize + PageSize <= q * PageSize)
  BY <1>1, <1>3, Products
<1>5. bytes <= q * PageSize /\ q <= TblSize
  <2> HIDE DEF q, r
  <2> QED
    BY <1>1, <1>2, <1>3, <1>4
<1>6. PagesFor(bytes) = q
  <2>1. q % LmemByteMod = q
    <3> HIDE DEF q
    <3> QED
      BY <1>1, <1>3, <1>5
  <2> QED
    BY <2>1 DEF PagesFor
<1> QED
  BY <1>1, <1>3, <1>5, <1>6

-----------------------------------------------------------------------------
(* The bytes of the block that a copy is to move: all but a last one that  *)
(* strays.                                                                 *)
Strays == size > 1 /\ (addr + size) % PageSize = 1 % PageSize
Reach == addr + size - (IF Strays THEN 1 ELSE 0)
Here == addr + (size - togo)

AllocInv ==
  /\ at \in {"start", "idle"} \cup Loops
  /\ asked \in 0..MaxAsk /\ pages \in Nat /\ freeNo \in Nat /\ copied \in 0..MaxCopies
  /\ asked <= pages * PageSize /\ pages < LmemByteMod
  /\ at = "start" => asked = 0 /\ pages = 0
  /\ iff \in BOOLEAN /\ (iff <=> at \notin Loops)

BytesInv ==
  /\ block \in [0..pages - 1 -> [0..PageSize - 1 -> Data]]
  /\ buf \in [0..MaxAsk - 1 -> Data]
  /\ helper \in Data

(* Where the loop is: the byte in page 1 is the next of the range; or the  *)
(* last of several is beside page 1.                                       *)
LoopInv ==
  /\ addr \in 0..MaxAsk /\ size \in 0..MaxAsk /\ togo \in 0..size /\ page \in Nat /\ off \in Nat
  /\ at \in Loops => addr + size <= asked
  /\ at \in Loops /\ togo > 0 =>
       /\ page < pages /\ off <= PageSize /\ page * PageSize + off = Here
       /\ off = PageSize => togo = 1 /\ size > 1
       /\ off = 0 /\ togo = 1 => size = 1

(* What the loop has moved.                                                *)
ToInv ==
  at = "to" =>
    /\ before.block \in [0..pages - 1 -> [0..PageSize - 1 -> Data]]
    /\ \A p \in 0..pages - 1 : \A o \in 0..PageSize - 1 :
         block[p][o] = IF p * PageSize + o \in addr..Reach - 1 /\ p * PageSize + o < Here
                       THEN Src(p * PageSize + o - addr) ELSE before.block[p][o]
    /\ helper = IF Strays /\ togo = 0 THEN Src(size - 1) ELSE before.helper

FromInv ==
  at = "from" =>
    /\ before.buf \in [0..MaxAsk - 1 -> Data]
    /\ \A i \in 0..MaxAsk - 1 :
         buf[i] = IF i >= size - togo THEN before.buf[i]
                  ELSE IF addr + i < Reach
                       THEN block[(addr + i) \div PageSize][(addr + i) % PageSize]
                       ELSE helper

LInv == AllocInv /\ BytesInv /\ LoopInv /\ ToInv /\ FromInv

LEMMA LmemInitInv == LmemInit => LInv
<1>1. 0 * PageSize = 0 /\ PageSize \in Nat /\ LmemByteMod \in Nat /\ LmemByteMod > 0
  BY MemoryAssumption
<1> QED
  BY <1>1, MemoryAssumption
  DEF LmemInit, LInv, AllocInv, BytesInv, LoopInv, ToInv, FromInv, Loops

LEMMA AllocStep ==
  ASSUME LInv, NEW bytes \in 0..MaxAsk, Alloc(bytes)
  PROVE  LInv'
<1>1. /\ PagesFor(bytes) \in Nat /\ bytes <= PagesFor(bytes) * PageSize
      /\ PagesFor(bytes) < LmemByteMod
  BY PagesCover
<1>2. AllocInv'
  BY <1>1 DEF Alloc, LInv, AllocInv, Loops, copyArgs
<1>3. BytesInv'
  <2>1. \A p \in 0..PagesFor(bytes) - 1 : \A o \in 0..PageSize - 1 : Old(p, o) \in Data
    BY <1>1, MemoryAssumption
  <2> QED
    BY <2>1 DEF Alloc, LInv, BytesInv
<1>4. LoopInv' /\ ToInv' /\ FromInv'
  BY DEF Alloc, LInv, LoopInv, ToInv, FromInv, Loops, copyArgs
<1> QED
  BY <1>2, <1>3, <1>4 DEF LInv

LEMMA BeginStep ==
  ASSUME LInv, NEW dir \in Loops, NEW a \in 0..MaxAsk, NEW n \in 0..MaxAsk,
         a + n <= asked, BeginCopy(dir, a, n)
  PROVE  LInv'
<1>1. /\ a \div PageSize \in Nat /\ a % PageSize \in 0..PageSize - 1
      /\ a = (a \div PageSize) * PageSize + (a % PageSize)
  BY DivMod
<1> DEFINE q == a \div PageSize
           r == a % PageSize
<1>2. q \in Nat /\ r \in 0..PageSize - 1 /\ a = q * PageSize + r
  BY <1>1
<1>3. page' = q % LmemByteMod /\ off' = r /\ addr' = a /\ size' = n /\ togo' = n /\ at' = dir
  BY DEF BeginCopy
<1>4. /\ UNCHANGED <<asked, pages, freeNo, block, buf, helper>> /\ iff' = FALSE
      /\ copied' = copied + 1 /\ copied < MaxCopies
      /\ before' = [block |-> block, buf |-> buf, helper |-> helper]
  BY DEF BeginCopy, alloc
<1> HIDE DEF q, r
<1>5. PageSize \in Nat \ {0} /\ LmemByteMod \in Nat \ {0} /\ MaxCopies \in Nat
  BY MemoryAssumption
<1>6. /\ q * PageSize \in Nat /\ pages * PageSize \in Nat
      /\ pages < q => pages * PageSize + PageSize <= q * PageSize
  BY <1>2, Products DEF LInv, AllocInv
<1>7. ASSUME n > 0 PROVE q < pages /\ page' = q
  <2>1. q < pages
    BY <1>2, <1>5, <1>6, <1>7 DEF LInv, AllocInv
  <2>2. q % LmemByteMod = q
    BY <1>2, <1>5, <2>1 DEF LInv, AllocInv
  <2> QED
    BY <1>3, <2>1, <2>2
<1>8. page' \in Nat
  BY <1>2, <1>3, <1>5
<1>9. AllocInv' /\ BytesInv'
  <2>1. at' \in Loops /\ at' # "start"
    BY <1>3 DEF Loops
  <2>2. copied' \in 0..MaxCopies
    BY <1>4, <1>5 DEF LInv, AllocInv
  <2>3. AllocInv'
    BY <1>4, <2>1, <2>2 DEF LInv, AllocInv
  <2> QED
    BY <1>4, <2>3 DEF LInv, BytesInv
<1>10. LoopInv'
  BY <1>2, <1>3, <1>4, <1>5, <1>7, <1>8 DEF LInv, AllocInv, LoopInv, Loops, Here
<1>11. ToInv'
  <2>1. ASSUME NEW p \in 0..pages - 1, NEW o \in 0..PageSize - 1
        PROVE  p * PageSize + o \in Nat
    BY <2>1, PlaceOf DEF LInv, AllocInv
  <2>2. Here' = a
    BY <1>3 DEF Here
  <2>3. ~(Strays' /\ togo' = 0)
    BY <1>3 DEF Strays
  <2> QED
    BY <1>3, <1>4, <2>1, <2>2, <2>3 DEF LInv, BytesInv, ToInv
<1>12. FromInv'
  BY <1>3, <1>4 DEF LInv, BytesInv, FromInv
<1> QED
  BY <1>9, <1>10, <1>11, <1>12 DEF LInv

(* The byte the loop moves next is the one that strays exactly when it is  *)
(* beside page 1.                                                          *)
LEMMA NextByte ==
  ASSUME LInv, at \in Loops, togo > 0
  PROVE  /\ Here \in Nat /\ page \in 0..pages - 1 /\ size - togo \in 0..MaxAsk - 1
         /\ Src(size - togo) \in Data
         /\ off < PageSize => /\ off \in 0..PageSize - 1 /\ Here < Reach
                             /\ Here \div PageSize = page /\ Here % PageSize = off
         /\ off >= PageSize => off = PageSize /\ togo = 1 /\ Strays /\ Here = Reach
<1>1. /\ PageSize \in Nat \ {0} /\ MaxAsk \in Nat /\ page \in Nat /\ off \in Nat
      /\ addr \in Nat /\ size \in 0..MaxAsk /\ togo \in 1..size /\ pages \in Nat
      /\ page < pages /\ off <= PageSize /\ page * PageSize + off = Here
      /\ off = PageSize => togo = 1 /\ size > 1
      /\ off = 0 /\ togo = 1 => size = 1
  BY MemoryAssumption DEF LInv, AllocInv, LoopInv
<1>2. Here \in Nat /\ size - togo \in 0..MaxAsk - 1
  BY <1>1 DEF Here
<1>3. Src(size - togo) \in Data
  BY <1>2, <1>1, MemoryAssumption
<1>4. togo = 1 => (Strays <=> size > 1 /\ Here % PageSize = 0)
  <2>1. togo = 1 => addr + size = Here + 1
    BY <1>1 DEF Here
  <2>2. (Here + 1) % PageSize = 1 % PageSize <=> Here % PageSize = 0
    BY <1>2, AfterFirst
  <2> QED
    BY <2>1, <2>2 DEF Strays
<1>5. CASE off < PageSize
  <2>1. Here \div PageSize = page /\ Here % PageSize = off
    BY <1>1, <1>5, PlaceOf
  <2>2. Here < Reach
    <3>1. CASE togo = 1
      <4>1. ~Strays
        BY <1>1, <1>4, <2>1, <3>1
      <4> QED
        BY <1>1, <3>1, <4>1 DEF Here, Reach
    <3>2. CASE togo > 1
      BY <1>1, <3>2 DEF Here, Reach
    <3> QED
      BY <1>1, <3>1, <3>2
  <2> QED
    BY <1>1, <1>2, <1>3, <1>5, <2>1, <2>2
<1>6. CASE off = PageSize
  <2>1. Here = (page + 1) * PageSize + 0 /\ togo = 1 /\ size > 1
    BY <1>1, <1>6, Products
  <2>2. Here % PageSize = 0
    BY <1>1, <2>1, PlaceOf
  <2>3. Strays
    BY <1>4, <2>1, <2>2
  <2>4. Here = Reach
    BY <1>1, <2>1, <2>3 DEF Here, Reach
  <2> QED
    BY <1>1, <1>2, <1>3, <1>6, <2>1, <2>3, <2>4
<1> QED
  BY <1>1, <1>5, <1>6

(* The loop stays at the byte it is to move.                               *)
LEMMA AdvanceLoop ==
  ASSUME LInv, at \in Loops, togo > 0, Advance, UNCHANGED <<at, alloc, copyArgs>>
  PROVE  LoopInv' /\ Here' = Here + 1
<1>1. /\ PageSize \in Nat \ {0} /\ page \in Nat /\ off \in Nat /\ asked \in Nat
      /\ addr \in 0..MaxAsk /\ size \in 0..MaxAsk /\ togo \in 1..size /\ pages \in Nat
      /\ page < pages /\ off <= PageSize /\ page * PageSize + off = Here
      /\ off = PageSize => togo = 1 /\ size > 1
      /\ addr + size <= asked /\ asked <= pages * PageSize
      /\ MaxAsk \in Nat
  BY MemoryAssumption DEF LInv, AllocInv, LoopInv
<1>2. /\ addr' = addr /\ size' = size /\ togo' = togo - 1 /\ pages' = pages /\ asked' = asked
      /\ at' = at
  BY DEF Advance, alloc, copyArgs
<1>3. Here' = Here + 1
  BY <1>1, <1>2 DEF Here
<1>4. CASE off + 1 = PageSize /\ togo - 1 > 1
  <2>1. off' = 0 /\ page' = page + 1
    BY <1>4 DEF Advance
  <2>2. (page + 1) * PageSize = page * PageSize + PageSize /\ page * PageSize \in Nat
    BY <1>1, Products
  <2>3. page' * PageSize + off' = Here'
    BY <1>1, <1>3, <1>4, <2>1, <2>2
  <2>4. page + 1 < pages
    <3>1. Here + 1 < pages * PageSize /\ pages * PageSize \in Nat
      BY <1>1, <1>4, Products DEF Here
    <3>2. CASE page + 1 = pages
      BY <1>1, <1>3, <2>1, <2>2, <2>3, <3>1, <3>2
    <3> QED
      BY <1>1, <3>2
  <2> QED
    BY <1>1, <1>2, <1>3, <1>4, <2>1, <2>3, <2>4 DEF LoopInv
<1>5. CASE ~(off + 1 = PageSize /\ togo - 1 > 1)
  <2>1. off' = off + 1 /\ page' = page
    BY <1>5 DEF Advance
  <2>2. page * PageSize \in Nat
    BY <1>1, Products
  <2>3. page' * PageSize + off' = Here'
    BY <1>1, <1>3, <2>1, <2>2
  <2> QED
    BY <1>1, <1>2, <1>3, <1>5, <2>1, <2>3 DEF LoopInv
<1> QED
  BY <1>4, <1>5

LEMMA CopyToStep ==
  ASSUME LInv, CopyTo
  PROVE  LInv'
<1>1. /\ at = "to" /\ at \in Loops /\ togo > 0 /\ Advance /\ togo' = togo - 1
      /\ UNCHANGED <<at, alloc, buf, copyArgs, iff>>
  BY DEF CopyTo, Loops, Advance
<1>2. LoopInv' /\ Here' = Here + 1
  BY <1>1, AdvanceLoop
<1>3. AllocInv'
  BY <1>1 DEF LInv, AllocInv, alloc, copyArgs
<1>4. /\ Strays' = Strays /\ Reach' = Reach /\ addr' = addr /\ size' = size /\ pages' = pages
      /\ before' = before
  BY <1>1 DEF Strays, Reach, copyArgs, alloc
<1>5. /\ Here \in Nat /\ page \in 0..pages - 1 /\ Src(size - togo) \in Data
      /\ off < PageSize => off \in 0..PageSize - 1 /\ Here < Reach /\ page * PageSize + off = Here
      /\ off >= PageSize => off = PageSize /\ togo = 1 /\ Strays /\ Here = Reach
      /\ addr \in Nat /\ size \in Nat /\ togo \in 1..size /\ pages \in Nat /\ off \in Nat
      /\ PageSize \in Nat
  BY <1>1, NextByte, MemoryAssumption DEF LInv, AllocInv, LoopInv
<1>6. Reach \in Int /\ Here = addr + (size - togo)
  BY <1>5 DEF Reach, Here
<1>7. CASE off < PageSize
  <2>1. /\ block' = [block EXCEPT ![page] = [@ EXCEPT ![off] = Src(size - togo)]]
        /\ helper' = helper
    BY <1>7 DEF CopyTo
  <2>2. BytesInv'
    BY <1>1, <1>4, <1>5, <2>1 DEF LInv, BytesInv
  <2>3. ASSUME NEW p \in 0..pages - 1, NEW o \in 0..PageSize - 1
        PROVE  block'[p][o] = IF p * PageSize + o \in addr..Reach - 1 /\ p * PageSize + o < Here + 1
                              THEN Src(p * PageSize + o - addr) ELSE before.block[p][o]
    <3>1. p * PageSize + o \in Nat
      BY <1>5, <2>3, PlaceOf
    <3>2. p * PageSize + o = Here <=> p = page /\ o = off
      BY <1>5, <1>7, <2>3, Place
    <3>3. block'[p][o] = IF p = page /\ o = off THEN Src(size - togo) ELSE block[p][o]
      BY <1>5, <2>1, <2>3 DEF LInv, BytesInv
    <3>4. block[p][o] = IF p * PageSize + o \in addr..Reach - 1 /\ p * PageSize + o < Here
                        THEN Src(p * PageSize + o - addr) ELSE before.block[p][o]
      BY <1>1, <2>3 DEF LInv, ToInv
    <3>5. CASE p = page /\ o = off
      <4>1. p * PageSize + o - addr = size - togo
        BY <1>5, <1>6, <3>2, <3>5
      <4> QED
        BY <1>5, <1>6, <1>7, <3>1, <3>2, <3>3, <3>5, <4>1
    <3>6. CASE ~(p = page /\ o = off)
      BY <1>5, <1>6, <3>1, <3>2, <3>3, <3>4, <3>6
    <3> QED
      BY <3>5, <3>6
  <2>4. ~(Strays /\ togo' = 0)
    BY <1>1, <1>5, <1>6, <1>7 DEF Reach
  <2>5. ToInv'
    BY <1>1, <1>2, <1>4, <1>5, <2>1, <2>3, <2>4 DEF LInv, ToInv
  <2> QED
    BY <1>1, <1>2, <1>3, <2>2, <2>5 DEF LInv, FromInv
<1>8. CASE off >= PageSize
  <2>1. block' = block /\ helper' = Src(size - togo) /\ off = PageSize /\ togo = 1 /\ Strays
    BY <1>5, <1>8 DEF CopyTo
  <2>2. BytesInv'
    BY <1>1, <1>4, <1>5, <2>1 DEF LInv, BytesInv
  <2>3. ASSUME NEW p \in 0..pages - 1, NEW o \in 0..PageSize - 1
        PROVE  /\ p * PageSize + o \in Nat
               /\ p * PageSize + o \in addr..Reach - 1 /\ p * PageSize + o < Here + 1
                  <=> p * PageSize + o \in addr..Reach - 1 /\ p * PageSize + o < Here
    <3>1. p * PageSize + o \in Nat
      BY <1>5, <2>3, PlaceOf
    <3> QED
      BY <1>5, <1>6, <1>8, <3>1
  <2>4. togo' = 0 /\ helper' = Src(size - 1)
    BY <1>1, <2>1
  <2>5. ToInv'
    <3>1. ASSUME NEW p \in 0..pages - 1, NEW o \in 0..PageSize - 1
          PROVE  block'[p][o] =
                   IF p * PageSize + o \in addr..Reach - 1 /\ p * PageSize + o < Here + 1
                   THEN Src(p * PageSize + o - addr) ELSE before.block[p][o]
      BY <1>1, <2>1, <2>3, <3>1 DEF LInv, ToInv
    <3> QED
      BY <1>1, <1>2, <1>4, <2>1, <2>4, <3>1 DEF LInv, ToInv
  <2> QED
    BY <1>1, <1>2, <1>3, <2>2, <2>5 DEF LInv, FromInv
<1> QED
  BY <1>5, <1>7, <1>8

LEMMA CopyFromStep ==
  ASSUME LInv, CopyFrom
  PROVE  LInv'
<1>1. /\ at = "from" /\ at \in Loops /\ togo > 0 /\ Advance /\ togo' = togo - 1
      /\ UNCHANGED <<at, alloc, block, helper, copyArgs, iff>>
      /\ buf' = [buf EXCEPT ![size - togo] =
                   IF off < PageSize THEN block[page][off] ELSE helper]
  BY DEF CopyFrom, Loops, Advance
<1>2. LoopInv' /\ Here' = Here + 1
  BY <1>1, AdvanceLoop
<1>3. AllocInv'
  BY <1>1 DEF LInv, AllocInv, alloc, copyArgs
<1>4. /\ Reach' = Reach /\ addr' = addr /\ size' = size /\ pages' = pages /\ before' = before
  BY <1>1 DEF Strays, Reach, copyArgs, alloc
<1>5. /\ page \in 0..pages - 1 /\ size - togo \in 0..MaxAsk - 1
      /\ off < PageSize => /\ off \in 0..PageSize - 1 /\ Here < Reach
                          /\ Here \div PageSize = page /\ Here % PageSize = off
      /\ off >= PageSize => Here = Reach
      /\ addr \in Nat /\ size \in Nat /\ togo \in 1..size /\ off \in Nat /\ PageSize \in Nat
      /\ Reach \in Int
  BY <1>1, NextByte, MemoryAssumption DEF LInv, AllocInv, LoopInv, Reach
<1>6. (IF off < PageSize THEN block[page][off] ELSE helper) \in Data
  BY <1>5 DEF LInv, BytesInv
<1>7. BytesInv'
  BY <1>1, <1>4, <1>5, <1>6 DEF LInv, BytesInv
<1>8. ASSUME NEW i \in 0..MaxAsk - 1
      PROVE  buf'[i] = IF i >= size - togo + 1 THEN before.buf[i]
                       ELSE IF addr + i < Reach
                            THEN block[(addr + i) \div PageSize][(addr + i) % PageSize]
                            ELSE helper
  <2>1. CASE i = size - togo
    <3>1. addr + i = Here
      BY <2>1 DEF Here
    <3>2. buf'[i] = IF off < PageSize THEN block[page][off] ELSE helper
      BY <1>1, <2>1 DEF LInv, BytesInv
    <3> QED
      BY <1>5, <2>1, <3>1, <3>2
  <2>2. CASE i # size - togo
    <3>1. buf'[i] = buf[i]
      BY <1>1, <2>2 DEF LInv, BytesInv
    <3>2. i >= size - togo + 1 <=> i >= size - togo
      BY <1>5, <2>2
    <3> QED
      BY <1>1, <3>1, <3>2 DEF LInv, FromInv
  <2> QED
    BY <2>1, <2>2
<1>9. size' - togo' = size - togo + 1
  BY <1>1, <1>4, <1>5
<1>10. FromInv'
  BY <1>1, <1>4, <1>8, <1>9 DEF LInv, FromInv
<1> QED
  BY <1>1, <1>2, <1>3, <1>7, <1>10 DEF LInv, ToInv

LEMMA LmemStepInv == LInv /\ [LmemNext]_lmemVars => LInv'
<1> SUFFICES ASSUME LInv, [LmemNext]_lmemVars PROVE LInv'
  OBVIOUS
<1>1. ASSUME NEW bytes \in 0..MaxAsk, Alloc(bytes) PROVE LInv'
  BY <1>1, AllocStep
<1>2. ASSUME NEW dir \in {"to", "from"}, NEW a \in 0..MaxAsk, NEW n \in 0..MaxAsk,
             a + n <= asked, BeginCopy(dir, a, n)
      PROVE  LInv'
  BY <1>2, BeginStep DEF Loops
<1>3. CASE CopyTo
  BY <1>3, CopyToStep
<1>4. CASE CopyFrom
  BY <1>4, CopyFromStep
<1>5. CASE End
  BY <1>5 DEF End, LInv, AllocInv, BytesInv, LoopInv, ToInv, FromInv, Loops, alloc, copyArgs
<1>6. CASE UNCHANGED lmemVars
  BY <1>6 DEF lmemVars, alloc, copyArgs, LInv, AllocInv, BytesInv, LoopInv, ToInv, FromInv,
     Strays, Reach, Here
<1> QED
  BY <1>1, <1>2, <1>3, <1>4, <1>5, <1>6 DEF LmemNext

LEMMA LmemInductive == LmemSpec => []LInv
  BY LmemInitInv, LmemStepInv, PTL DEF LmemSpec

-----------------------------------------------------------------------------
(* A block has room for the bytes asked for, and interrupts are off        *)
(* exactly while page 1 is switched away (bl_lmem_alloc_do, the copies).   *)
THEOREM AllocTheorem == LmemSpec => []AllocCovers
<1>1. LInv => AllocCovers
  <2> SUFFICES ASSUME LInv PROVE AllocCovers
    OBVIOUS
  <2>1. pages * PageSize \in Nat /\ PageSize \in Nat
    BY MemoryAssumption, Products DEF LInv, AllocInv
  <2> QED
    BY <2>1 DEF LInv, AllocInv, BytesInv, LoopInv, AllocCovers, LmemTypeOK
<1> QED
  BY <1>1, LmemInductive, PTL

(* The block, seen as an array.                                            *)
LEMMA FlatData ==
  ASSUME LInv, NEW i \in 0..asked - 1
  PROVE  /\ i \in Nat /\ i \div PageSize \in 0..pages - 1 /\ i % PageSize \in 0..PageSize - 1
         /\ (i \div PageSize) * PageSize + (i % PageSize) = i
<1> DEFINE q == i \div PageSize
           r == i % PageSize
<1>1. i \in Nat /\ asked \in Nat /\ pages \in Nat /\ asked <= pages * PageSize
  BY DEF LInv, AllocInv
<1>2. q \in Nat /\ r \in 0..PageSize - 1 /\ i = q * PageSize + r
  BY <1>1, DivMod
<1> HIDE DEF q, r
<1>3. /\ PageSize \in Nat /\ q * PageSize \in Nat /\ pages * PageSize \in Nat
      /\ pages < q => pages * PageSize + PageSize <= q * PageSize
  BY <1>1, <1>2, Products, MemoryAssumption
<1>4. q < pages
  <2>1. CASE q = pages
    BY <1>1, <1>2, <1>3, <2>1
  <2> QED
    BY <1>1, <1>2, <1>3, <2>1
<1>5. q \in 0..pages - 1
  BY <1>1, <1>2, <1>4
<1> QED
  BY <1>1, <1>2, <1>5 DEF q, r

(* Allocation takes a block of bytes.                                      *)
LEMMA AllocTakes ==
  ASSUME LInv, NEW bytes \in 0..MaxAsk, Alloc(bytes), LInv'
  PROVE  Memory!Take(bytes)
<1>1. at = "start" /\ at' = "idle" /\ asked = 0 /\ asked' = bytes /\ UNCHANGED <<buf, helper>>
  BY DEF Alloc, LInv, AllocInv
<1>2. ASSUME NEW i \in 0..bytes - 1
      PROVE  block'[i \div PageSize][i % PageSize] \in Data
  <2>1. /\ i \in Nat
        /\ i \div PageSize \in 0..pages' - 1 /\ i % PageSize \in 0..PageSize - 1
    <3>1. i \in 0..asked' - 1
      BY <1>1
    <3>2. i \in Nat /\ bytes <= PagesFor(bytes) * PageSize /\ pages' = PagesFor(bytes)
          /\ PagesFor(bytes) \in Nat
      BY PagesCover DEF Alloc
    <3> DEFINE q == i \div PageSize
               r == i % PageSize
               n == PagesFor(bytes)
    <3>3. q \in Nat /\ r \in 0..PageSize - 1 /\ i = q * PageSize + r
      BY <3>2, DivMod
    <3>4. n \in Nat /\ bytes <= n * PageSize /\ bytes \in Nat /\ i < bytes
      BY <3>2
    <3> HIDE DEF q, r, n
    <3>5. /\ PageSize \in Nat /\ q * PageSize \in Nat /\ n * PageSize \in Nat
          /\ n < q => n * PageSize + PageSize <= q * PageSize
      BY <3>3, <3>4, Products, MemoryAssumption
    <3>6. q < n
      <4>1. CASE q = n
        BY <3>3, <3>4, <3>5, <4>1
      <4> QED
        BY <3>3, <3>4, <3>5, <4>1
    <3>7. q \in 0..n - 1
      BY <3>3, <3>4, <3>6
    <3> QED
      BY <3>2, <3>3, <3>7 DEF q, r, n
  <2> QED
    BY <2>1 DEF LInv, BytesInv
<1>3. Flat(Seen(block, before.block, "to"))' = [i \in 0..bytes - 1 |-> block'[i \div PageSize][i % PageSize]]
  BY <1>1 DEF Flat, Seen
<1>4. DOMAIN Flat(Seen(block, before.block, "to")) = {}
  BY <1>1 DEF Flat
<1>5. UNCHANGED <<Seen(buf, before.buf, "from"), Seen(helper, before.helper, "to")>>
  BY <1>1 DEF Seen
<1>6. Flat(Seen(block, before.block, "to"))' \in [0..bytes - 1 -> Data]
  BY <1>2, <1>3
<1> QED
  BY <1>4, <1>5, <1>6 DEF Memory!Take

(* The end of bl_lmem_copy_to writes its range.                            *)
LEMMA EndWrites ==
  ASSUME LInv, End, at = "to"
  PROVE  /\ addr..addr + size - 1 \subseteq 0..asked - 1
         /\ Memory!Write(addr, size)
<1>1. /\ togo = 0 /\ at' = "idle" /\ UNCHANGED <<asked, pages, block, buf, helper, addr, size>>
      /\ addr \in Nat /\ size \in Nat /\ asked \in Nat /\ addr + size <= asked
  BY DEF End, LInv, AllocInv, LoopInv, alloc, copyArgs, Loops
<1>2. Memory!Inside(addr, size) = addr..Reach - 1 /\ (Memory!Strays(addr, size) <=> Strays)
  BY <1>1 DEF Memory!Inside, Memory!Strays, Strays, Reach
<1>3. Here = addr + size /\ Reach <= Here /\ Reach \in Int
  BY <1>1 DEF Here, Reach
<1>4. ASSUME NEW i \in 0..asked - 1
      PROVE  block[i \div PageSize][i % PageSize] =
               IF i \in addr..Reach - 1 THEN Src(i - addr)
               ELSE before.block[i \div PageSize][i % PageSize]
  <2> DEFINE q == i \div PageSize
             r == i % PageSize
  <2>1. i \in Nat /\ q \in 0..pages - 1 /\ r \in 0..PageSize - 1 /\ q * PageSize + r = i
    BY FlatData
  <2> HIDE DEF q, r
  <2>2. block[q][r] = IF i \in addr..Reach - 1 /\ i < Here THEN Src(i - addr) ELSE before.block[q][r]
    <3> DEFINE j == q * PageSize + r
    <3>1. j = i
      BY <2>1
    <3>2. block[q][r] = IF j \in addr..Reach - 1 /\ j < Here
                        THEN Src(j - addr) ELSE before.block[q][r]
      BY <1>1, <1>3, <2>1, <3>1, MemoryAssumption DEF LInv, ToInv
    <3> HIDE DEF j
    <3> QED
      BY <1>1, <1>3, <2>1, <3>1, <3>2
  <2>3. i \in addr..Reach - 1 => i < Here
    BY <1>1, <1>3, <2>1
  <2> QED
    BY <2>2, <2>3 DEF q, r
<1>5. Flat(Seen(block, before.block, "to"))' = [i \in 0..asked - 1 |-> block[i \div PageSize][i % PageSize]]
  BY <1>1 DEF Flat, Seen
<1>6. Flat(Seen(block, before.block, "to")) =
        [i \in 0..asked - 1 |-> before.block[i \div PageSize][i % PageSize]]
  BY DEF Flat, Seen
<1>7. Flat(Seen(block, before.block, "to"))' =
        [i \in DOMAIN Flat(Seen(block, before.block, "to")) |->
           IF i \in Memory!Inside(addr, size) THEN Src(i - addr)
           ELSE Flat(Seen(block, before.block, "to"))[i]]
  <2> DEFINE U == Flat(Seen(block, before.block, "to"))
  <2>1. DOMAIN U = 0..asked - 1
    BY <1>6
  <2>2. \A i \in 0..asked - 1 : U[i] = before.block[i \div PageSize][i % PageSize]
    BY <1>6
  <2>3. \A i \in 0..asked - 1 :
          block[i \div PageSize][i % PageSize] =
            IF i \in Memory!Inside(addr, size) THEN Src(i - addr) ELSE U[i]
    <3> HIDE DEF U
    <3> QED
      BY <1>2, <1>4, <2>2
  <2> HIDE DEF U
  <2>4. [i \in 0..asked - 1 |-> block[i \div PageSize][i % PageSize]] =
        [i \in DOMAIN U |-> IF i \in Memory!Inside(addr, size) THEN Src(i - addr) ELSE U[i]]
    BY <2>1, <2>3
  <2> QED
    BY <1>5, <2>4 DEF U
<1>8. Seen(helper, before.helper, "to")' =
        IF Memory!Strays(addr, size) THEN Src(size - 1) ELSE Seen(helper, before.helper, "to")
  BY <1>1, <1>2 DEF Seen, LInv, ToInv
<1>9. UNCHANGED Seen(buf, before.buf, "from")
  BY <1>1 DEF Seen
<1>10. addr..addr + size - 1 \subseteq 0..asked - 1
  BY <1>1
<1> QED
  BY <1>7, <1>8, <1>9, <1>10 DEF Memory!Write

(* The end of bl_lmem_copy_from reads its range.                           *)
LEMMA EndReads ==
  ASSUME LInv, End, at = "from"
  PROVE  /\ addr..addr + size - 1 \subseteq 0..asked - 1
         /\ Memory!Read(addr, size)
<1>1. /\ togo = 0 /\ at' = "idle" /\ UNCHANGED <<asked, pages, block, buf, helper, addr, size>>
      /\ addr \in Nat /\ size \in Nat /\ asked \in 0..MaxAsk /\ addr + size <= asked
      /\ MaxAsk \in Nat
  BY MemoryAssumption DEF End, LInv, AllocInv, LoopInv, alloc, copyArgs, Loops
<1>2. Memory!Inside(addr, size) = addr..Reach - 1 /\ Reach \in Int /\ Reach <= addr + size
  BY <1>1 DEF Memory!Inside, Memory!Strays, Strays, Reach
<1>3. Flat(Seen(block, before.block, "to")) = [i \in 0..asked - 1 |-> block[i \div PageSize][i % PageSize]]
  BY DEF Flat, Seen
<1>4. Flat(Seen(block, before.block, "to"))' = Flat(Seen(block, before.block, "to"))
  BY <1>1 DEF Flat, Seen
<1>5. /\ Seen(buf, before.buf, "from") = before.buf /\ Seen(buf, before.buf, "from")' = buf
      /\ Seen(helper, before.helper, "to") = helper /\ Seen(helper, before.helper, "to")' = helper
  BY <1>1 DEF Seen
<1>6. ASSUME NEW i \in 0..MaxAsk - 1
      PROVE  buf[i] = IF i >= size THEN before.buf[i]
                      ELSE IF addr + i \in Memory!Inside(addr, size)
                           THEN Flat(Seen(block, before.block, "to"))[addr + i]
                           ELSE helper
  <2>1. buf[i] = IF i >= size THEN before.buf[i]
                 ELSE IF addr + i < Reach
                      THEN block[(addr + i) \div PageSize][(addr + i) % PageSize]
                      ELSE helper
    BY <1>1 DEF LInv, FromInv
  <2>2. addr + i < Reach <=> addr + i \in Memory!Inside(addr, size)
    BY <1>1, <1>2
  <2>3. addr + i < Reach => addr + i \in 0..asked - 1
    BY <1>1, <1>2
  <2> QED
    BY <1>3, <2>1, <2>2, <2>3
<1>7. DOMAIN before.buf = 0..MaxAsk - 1 /\ buf \in [0..MaxAsk - 1 -> Data]
  BY DEF LInv, FromInv, BytesInv
<1>8. buf = [i \in DOMAIN before.buf |->
               IF i >= size THEN before.buf[i]
               ELSE IF addr + i \in Memory!Inside(addr, size)
                    THEN Flat(Seen(block, before.block, "to"))[addr + i]
                    ELSE helper]
  BY <1>6, <1>7
<1>9. addr..addr + size - 1 \subseteq 0..asked - 1
  BY <1>1
<1> QED
  BY <1>4, <1>5, <1>8, <1>9 DEF Memory!Read

(* A pass of a loop shows nothing.                                         *)
LEMMA LoopStutters ==
  ASSUME LInv, CopyTo \/ CopyFrom
  PROVE  UNCHANGED Memory!memVars
<1>1. CASE CopyTo
  BY <1>1 DEF CopyTo, Flat, Seen, Memory!memVars, alloc, copyArgs
<1>2. CASE CopyFrom
  BY <1>2 DEF CopyFrom, Flat, Seen, Memory!memVars, alloc, copyArgs
<1> QED
  BY <1>1, <1>2

LEMMA BeginStutters ==
  ASSUME LInv, NEW dir, NEW a, NEW n, BeginCopy(dir, a, n)
  PROVE  UNCHANGED Memory!memVars
<1>1. /\ at = "idle" /\ before' = [block |-> block, buf |-> buf, helper |-> helper]
      /\ UNCHANGED <<asked, block, buf, helper>>
  BY DEF BeginCopy, alloc
<1> QED
  BY <1>1 DEF Flat, Seen, Memory!memVars

(* The copy loops, page by page with interrupts off, implement the array   *)
(* of bytes a program sees, for every size of pages and blocks: no other   *)
(* byte of the block, the buffer or the helper is touched, and only the    *)
(* range that ends with the first byte of a page strays                    *)
(* (bl_lmem_copy_to, bl_lmem_copy_from).                                   *)
THEOREM BlockTheorem == LmemSpec => BlockImplemented
<1>1. LmemInit => Memory!MemInit
  <2> SUFFICES ASSUME LmemInit PROVE Memory!MemInit
    OBVIOUS
  <2>1. Flat(Seen(block, before.block, "to")) = [i \in {} |-> 0]
    BY DEF LmemInit, Flat, Seen
  <2>2. Seen(buf, before.buf, "from") = buf /\ Seen(helper, before.helper, "to") = helper
    BY DEF LmemInit, Seen
  <2> QED
    BY <2>1, <2>2, LmemInitInv DEF Memory!MemInit, LInv, BytesInv
<1>2. LInv /\ LInv' /\ [LmemNext]_lmemVars => [Memory!MemNext]_Memory!memVars
  <2> SUFFICES ASSUME LInv, LInv', [LmemNext]_lmemVars
               PROVE  Memory!MemNext \/ UNCHANGED Memory!memVars
    OBVIOUS
  <2>1. ASSUME NEW bytes \in 0..MaxAsk, Alloc(bytes) PROVE Memory!MemNext
    BY <2>1, AllocTakes DEF Memory!MemNext
  <2>2. ASSUME NEW dir \in {"to", "from"}, NEW a \in 0..MaxAsk, NEW n \in 0..MaxAsk,
               BeginCopy(dir, a, n)
        PROVE  UNCHANGED Memory!memVars
    BY <2>2, BeginStutters
  <2>3. CASE CopyTo \/ CopyFrom
    BY <2>3, LoopStutters
  <2>4. CASE End
    <3>1. at \in {"to", "from"} /\ addr \in 0..MaxAsk /\ size \in 0..MaxAsk
      BY <2>4 DEF End, LInv, LoopInv
    <3>2. DOMAIN Flat(Seen(block, before.block, "to")) = 0..asked - 1
      BY DEF Flat
    <3>3. /\ addr..addr + size - 1 \subseteq 0..asked - 1
          /\ Memory!Write(addr, size) \/ Memory!Read(addr, size)
      BY <2>4, <3>1, EndWrites, EndReads
    <3> QED
      BY <3>1, <3>2, <3>3 DEF Memory!MemNext
  <2>5. CASE UNCHANGED lmemVars
    BY <2>5 DEF lmemVars, alloc, copyArgs, Flat, Seen, Memory!memVars
  <2> QED
    BY <2>1, <2>2, <2>3, <2>4, <2>5 DEF LmemNext
<1> QED
  BY <1>1, <1>2, LmemInductive, PTL DEF LmemSpec, BlockImplemented, Memory!MemSpec

-----------------------------------------------------------------------------
(***************************************************************************)
(* Block instructions                                                      *)
(***************************************************************************)
Memories == [0..BlkSize - 1 -> 0..255]
Machine == [mem : Memories, hl : 0..BlkSize - 1, de : 0..BlkSize - 1, bc : 0..BlkSize - 1, a : 0..255, fl : Flags]

State(m, h, d, b, x, fs) == [mem |-> m, hl |-> h, de |-> d, bc |-> b, a |-> x, fl |-> fs]
FlagsOf(fs, fz, fh, fp, fn, fc) == [s |-> fs, z |-> fz, h |-> fh, p |-> fp, n |-> fn, c |-> fc]

LEMMA Size == BlkSize \in Nat /\ BlkSize > 1 /\ MaxBlocks \in Nat
  BY BlockAssumption

LEMMA MachineIs ==
  ASSUME NEW t \in Machine
  PROVE  /\ t = State(t.mem, t.hl, t.de, t.bc, t.a, t.fl)
         /\ t.mem \in Memories /\ t.hl \in 0..BlkSize - 1 /\ t.de \in 0..BlkSize - 1 /\ t.bc \in 0..BlkSize - 1
         /\ t.a \in 0..255 /\ t.fl \in Flags
  BY DEF Machine, State

LEMMA FlagsIs ==
  ASSUME NEW g \in Flags
  PROVE  /\ g = FlagsOf(g.s, g.z, g.h, g.p, g.n, g.c)
         /\ g.s \in BOOLEAN /\ g.z \in BOOLEAN /\ g.h \in BOOLEAN /\ g.p \in BOOLEAN /\ g.n \in BOOLEAN /\ g.c \in BOOLEAN
  BY DEF Flags, FlagsOf

LEMMA FlagsHN ==
  ASSUME NEW g \in Flags, NEW x \in BOOLEAN, NEW y \in BOOLEAN
  PROVE  [g EXCEPT !.h = x, !.n = y] \in Flags /\ [g EXCEPT !.h = x, !.n = y] = FlagsOf(g.s, g.z, x, g.p, y, g.c)
<1> DEFINE r == [g EXCEPT !.h = x, !.n = y]
<1>1. r \in Flags
  BY DEF Flags
<1>2. r.s = g.s /\ r.z = g.z /\ r.h = x /\ r.p = g.p /\ r.n = y /\ r.c = g.c
  BY DEF Flags
<1> HIDE DEF r
<1>3. r = FlagsOf(r.s, r.z, r.h, r.p, r.n, r.c)
  BY <1>1, FlagsIs
<1> QED
  BY <1>1, <1>2, <1>3 DEF r

LEMMA FlagsP ==
  ASSUME NEW g \in Flags, NEW x \in BOOLEAN
  PROVE  [g EXCEPT !.p = x] \in Flags /\ [g EXCEPT !.p = x] = FlagsOf(g.s, g.z, g.h, x, g.n, g.c)
<1> DEFINE r == [g EXCEPT !.p = x]
<1>1. r \in Flags
  BY DEF Flags
<1>2. r.s = g.s /\ r.z = g.z /\ r.h = g.h /\ r.p = x /\ r.n = g.n /\ r.c = g.c
  BY DEF Flags
<1> HIDE DEF r
<1>3. r = FlagsOf(r.s, r.z, r.h, r.p, r.n, r.c)
  BY <1>1, FlagsIs
<1> QED
  BY <1>1, <1>2, <1>3 DEF r

LEMMA FlagsC ==
  ASSUME NEW g \in Flags, NEW x \in BOOLEAN
  PROVE  [g EXCEPT !.c = x] = FlagsOf(g.s, g.z, g.h, g.p, g.n, x)
<1> DEFINE r == [g EXCEPT !.c = x]
<1>1. r \in Flags
  BY DEF Flags
<1>2. r.s = g.s /\ r.z = g.z /\ r.h = g.h /\ r.p = g.p /\ r.n = g.n /\ r.c = x
  BY DEF Flags
<1> HIDE DEF r
<1>3. r = FlagsOf(r.s, r.z, r.h, r.p, r.n, r.c)
  BY <1>1, FlagsIs
<1> QED
  BY <1>2, <1>3 DEF r

LEMMA FlagsCopied ==
  ASSUME NEW g \in Flags, NEW x \in BOOLEAN, NEW y \in BOOLEAN, NEW z \in BOOLEAN
  PROVE  [g EXCEPT !.h = x, !.p = y, !.n = z] \in Flags /\ [g EXCEPT !.h = x, !.p = y, !.n = z] = FlagsOf(g.s, g.z, x, y, z, g.c)
<1> DEFINE r == [g EXCEPT !.h = x, !.p = y, !.n = z]
<1>1. r \in Flags
  BY DEF Flags
<1>2. r.s = g.s /\ r.z = g.z /\ r.h = x /\ r.p = y /\ r.n = z /\ r.c = g.c
  BY DEF Flags
<1> HIDE DEF r
<1>3. r = FlagsOf(r.s, r.z, r.h, r.p, r.n, r.c)
  BY <1>1, FlagsIs
<1> QED
  BY <1>1, <1>2, <1>3 DEF r

LEMMA NarrowIs == ASSUME NEW e \in Int PROVE Narrow(e) \in 0..BlkSize - 1 /\ (e \in 0..BlkSize - 1 => Narrow(e) = e)
  BY Size DEF Narrow

LEMMA BlockInitOK == BlockInit => cpu \in Machine
<1> SUFFICES ASSUME BlockInit PROVE cpu \in Machine
  OBVIOUS
<1>1. PICK m \in BlkMems, h \in 0..BlkSize - 1, d \in 0..BlkSize - 1, b \in 0..BlkSize - 1, x \in Accumulators, c \in BOOLEAN :
         cpu = [mem |-> m, hl |-> h, de |-> d, bc |-> b, a |-> x, fl |-> [n \in {"s", "z", "h", "p", "n", "c"} |-> c]]
  BY DEF BlockInit
<1>2. [n \in {"s", "z", "h", "p", "n", "c"} |-> c] \in Flags
  BY DEF Flags
<1>3. m \in Memories /\ x \in 0..255
  BY BlockAssumption DEF Memories
<1> QED
  BY <1>1, <1>2, <1>3 DEF Machine

(* One step of a copy.                                                     *)
LEMMA CarriedIs ==
  ASSUME NEW t \in Machine, NEW d \in {-1, 1}, NEW u
  PROVE  Carried(t, d, u) = State([t.mem EXCEPT ![t.de] = t.mem[t.hl]], Narrow(t.hl + d), Narrow(t.de + d), t.bc, t.a, t.fl)
<1>1. At(t, t.hl, u) = t.mem[t.hl]
  BY Size, MachineIs DEF At
<1>2. HalfMoved(t.hl, d) = Narrow(t.hl + d)
  <2>1. t.hl \in Int /\ Narrow(t.hl) = t.hl
    BY MachineIs, NarrowIs, Size
  <2>2. Narrow(t.hl + d) \in Int
    BY <2>1, NarrowIs, Size
  <2> QED
    BY <2>1, <2>2 DEF HalfMoved
<1>3. Carried(t, d, u) = [t EXCEPT !.mem = [t.mem EXCEPT ![t.de] = t.mem[t.hl]], !.hl = Narrow(t.hl + d), !.de = Narrow(t.de + d)]
  BY <1>1, <1>2 DEF Carried
<1> QED
  BY <1>3, MachineIs DEF State, Machine

LEMMA CarriedOK ==
  ASSUME NEW t \in Machine, NEW d \in {-1, 1}, NEW u
  PROVE  /\ Carried(t, d, u) \in Machine
         /\ Carried(t, d, u).bc = t.bc /\ Carried(t, d, u).a = t.a /\ Carried(t, d, u).fl = t.fl
<1>1. Narrow(t.hl + d) \in 0..BlkSize - 1 /\ Narrow(t.de + d) \in 0..BlkSize - 1
  BY MachineIs, NarrowIs, Size
<1>2. [t.mem EXCEPT ![t.de] = t.mem[t.hl]] \in Memories
  <2>1. t.mem \in Memories /\ t.hl \in 0..BlkSize - 1
    BY MachineIs
  <2> QED
    BY <2>1 DEF Memories
<1> QED
  BY <1>1, <1>2, CarriedIs, MachineIs DEF State, Machine

Copies == {"LDI", "LDD", "LDIR", "LDDR"}
Compares == {"CPI", "CPD", "CPIR", "CPDR"}

(* A copy's registers once m are left to be copied.                        *)
Left(t, m) == State(t.mem, t.hl, t.de, m, t.a, FlagsOf(t.fl.s, t.fl.z, FALSE, m # 0, FALSE, t.fl.c))

LEMMA LeftOK ==
  ASSUME NEW t \in Machine, NEW m \in 0..BlkSize - 1
  PROVE  Left(t, m) \in Machine
  BY MachineIs, FlagsIs DEF Left, State, FlagsOf, Machine, Flags

LEMMA DirectionIs == \A i \in BlockIns : Direction(i) \in {-1, 1}
  BY DEF Direction

(* What a Z80 does, t and v differing in the flags it sets.                *)
LEMMA CopySingle ==
  ASSUME NEW i \in Copies, NEW t \in Machine, NEW v \in Machine, NEW u,
         v.mem = t.mem, v.hl = t.hl, v.de = t.de, v.a = t.a,
         v.fl.s = t.fl.s, v.fl.z = t.fl.z, v.fl.c = t.fl.c
  PROVE  Single(i, v) = Left(Carried(t, Direction(i), u), Narrow(v.bc - 1))
<1> DEFINE d == Direction(i)
           on == [v EXCEPT !.hl = Narrow(@ + d), !.bc = Narrow(@ - 1), !.fl.p = v.bc # 1]
           byte == v.mem[v.hl]
<1>1. d \in {-1, 1}
  BY DEF Direction
<1>2. Single(i, v) = [on EXCEPT !.mem[v.de] = byte, !.de = Narrow(@ + d), !.fl.h = FALSE, !.fl.n = FALSE]
  BY DEF Single, Copies
<1> DEFINE m == Narrow(v.bc - 1)
<1>3. m \in 0..BlkSize - 1 /\ (v.bc # 1 <=> m # 0)
  <2>1. v.bc \in 0..BlkSize - 1
    BY MachineIs
  <2>2. CASE v.bc = 0
    <3>1. m \in 0..BlkSize - 1 /\ (-1) % BlkSize = BlkSize - 1
      BY Size, NarrowIs, <2>2
    <3> QED
      BY <2>2, <3>1, Size DEF Narrow
  <2>3. CASE v.bc # 0
    BY <2>1, <2>3, NarrowIs, Size
  <2> QED
    BY <2>2, <2>3
<1>4. on = State(v.mem, Narrow(v.hl + d), v.de, m, v.a, [v.fl EXCEPT !.p = v.bc # 1])
  <2>1. on = [v EXCEPT !.hl = Narrow(v.hl + d), !.bc = m, !.fl = [v.fl EXCEPT !.p = v.bc # 1]]
    BY <1>3
  <2> HIDE DEF d, on
  <2> QED
    BY <2>1, MachineIs DEF State, Machine
<1> DEFINE p == v.bc # 1
           g == [v.fl EXCEPT !.p = p]
<1>5. g \in Flags /\ g = FlagsOf(v.fl.s, v.fl.z, v.fl.h, p, v.fl.n, v.fl.c)
  <2>1. p \in BOOLEAN /\ v.fl \in Flags
    BY MachineIs
  <2> HIDE DEF p
  <2> QED
    BY <2>1, FlagsP
<1> DEFINE m2 == [v.mem EXCEPT ![v.de] = byte]
<1>6. Single(i, v) = State(m2, Narrow(v.hl + d), Narrow(v.de + d), m, v.a,
                           FlagsOf(v.fl.s, v.fl.z, FALSE, v.bc # 1, FALSE, v.fl.c))
  <2> HIDE DEF d, m2, byte, on
  <2>1. Single(i, v) = [on EXCEPT !.mem = [on.mem EXCEPT ![v.de] = byte], !.de = Narrow(on.de + d),
                                  !.fl = [on.fl EXCEPT !.h = FALSE, !.n = FALSE]]
    BY <1>2
  <2>2. on.mem = v.mem /\ on.de = v.de /\ on.fl = g
    BY <1>4 DEF State
  <2> HIDE DEF g, p
  <2>3. [g EXCEPT !.h = FALSE, !.n = FALSE] = FlagsOf(v.fl.s, v.fl.z, FALSE, p, FALSE, v.fl.c)
    <3>1. [g EXCEPT !.h = FALSE, !.n = FALSE] = FlagsOf(g.s, g.z, FALSE, g.p, FALSE, g.c)
      BY <1>5, FlagsHN
    <3> QED
      BY <1>5, <3>1 DEF FlagsOf
  <2> QED
    BY <1>4, <2>1, <2>2, <2>3 DEF State, m2, p
<1>7. Carried(t, d, u) = State(m2, Narrow(v.hl + d), Narrow(v.de + d), t.bc, v.a, t.fl)
  BY <1>1, CarriedIs
<1>8. (v.bc # 1) = (m # 0)
  BY <1>3
<1> DEFINE h == Narrow(v.hl + d)
           e == Narrow(v.de + d)
           c == Carried(t, d, u)
<1> HIDE DEF m, m2, h, e, c
<1>9. /\ c.mem = m2
      /\ c.hl = h
      /\ c.de = e
      /\ c.a = v.a
      /\ c.fl = t.fl
  BY <1>7 DEF State, h, e, c
<1>10. Left(c, m) = State(m2, h, e, m, v.a, FlagsOf(v.fl.s, v.fl.z, FALSE, m # 0, FALSE, v.fl.c))
  BY <1>9, Zenon DEF Left
<1>11. Single(i, v) = State(m2, h, e, m, v.a, FlagsOf(v.fl.s, v.fl.z, FALSE, m # 0, FALSE, v.fl.c))
  BY <1>6, <1>8, Zenon DEF h, e
<1> QED
  BY <1>10, <1>11, Zenon DEF m, c, d

(* Copies one at a time, on the emulator and, until there is nothing left, *)
(* on the Z80.                                                             *)
Steps(F, s, d, u, n) == F = [k \in 0..n |-> IF k = 0 THEN s ELSE Carried(F[k - 1], d, u)]

LEMMA StepsExist ==
  ASSUME NEW s, NEW d, NEW u, NEW n \in Nat
  PROVE  \E F : Steps(F, s, d, u, n)
<1> DEFINE Missing == {k \in Nat : ~\E F : Steps(F, s, d, u, k)}
<1> SUFFICES ASSUME Missing # {} PROVE FALSE
  OBVIOUS
<1>1. PICK k \in Missing : \A j \in Missing : <<j, k>> \notin OpToRel(<, Nat)
  <2>1. Missing \subseteq Nat
    OBVIOUS
  <2> QED
    BY <2>1, NatLessThanWellFounded, WFMin
<1>2. \A j \in Missing : ~(j < k)
  BY <1>1, Zenon DEF OpToRel
<1>3. k # 0
  <2> SUFFICES ASSUME k = 0 PROVE FALSE
    OBVIOUS
  <2> DEFINE F == [j \in 0..0 |-> s]
  <2>1. F = [j \in 0..0 |-> F[j]] /\ \A j \in 0..0 : F[j] = s /\ j = 0
    OBVIOUS
  <2> HIDE DEF F
  <2>2. F = [j \in 0..0 |-> IF j = 0 THEN s ELSE Carried(F[j - 1], d, u)]
    BY <2>1, Zenon
  <2>3. Steps(F, s, d, u, 0)
    BY <2>2, Zenon DEF Steps
  <2> QED
    BY <1>1, <2>3
<1>4. PICK F : Steps(F, s, d, u, k - 1)
  <2>1. k \in Nat /\ k # 0
    BY <1>3
  <2>2. k - 1 \in Nat /\ k - 1 < k
    BY <2>1
  <2> QED
    BY <1>2, <2>2
<1>5. F = [j \in 0..k - 1 |-> IF j = 0 THEN s ELSE Carried(F[j - 1], d, u)]
  BY <1>4, Zenon DEF Steps
<1> DEFINE G == [j \in 0..k |-> IF j = k THEN Carried(F[k - 1], d, u) ELSE F[j]]
<1>6. G = [j \in 0..k |-> G[j]]
  BY Zenon
<1>7. \A j \in 0..k : G[j] = IF j = 0 THEN s ELSE Carried(G[j - 1], d, u)
  <2> SUFFICES ASSUME NEW j \in 0..k PROVE G[j] = IF j = 0 THEN s ELSE Carried(G[j - 1], d, u)
    OBVIOUS
  <2>1. k \in Nat
    BY <1>1
  <2>2. CASE j = 0
    <3>1. 0 \in 0..k - 1 /\ j # k
      BY <1>3, <2>1, <2>2
    <3>2. G[j] = F[j] /\ F[j] = s
      BY <1>5, <2>2, <3>1, Zenon
    <3> QED
      BY <2>2, <3>2
  <2>3. CASE j # 0 /\ j # k
    <3>1. j \in 0..k - 1 /\ j - 1 \in 0..k /\ j - 1 # k
      BY <2>1, <2>3
    <3>2. G[j] = F[j] /\ F[j] = Carried(F[j - 1], d, u) /\ G[j - 1] = F[j - 1]
      BY <1>5, <2>3, <3>1, Zenon
    <3> QED
      BY <2>3, <3>2
  <2>4. CASE j = k
    <3>1. k - 1 \in 0..k /\ k - 1 # k
      BY <1>3, <2>1
    <3>2. G[j] = Carried(F[k - 1], d, u) /\ G[j - 1] = F[k - 1]
      BY <2>4, <3>1, Zenon
    <3> QED
      BY <1>3, <2>4, <3>2
  <2> QED
    BY <2>2, <2>3, <2>4
<1> HIDE DEF G
<1>8. Steps(G, s, d, u, k)
  BY <1>6, <1>7, Zenon DEF Steps
<1> QED
  BY <1>1, <1>8

CopiedBy(F, s, d, u, n) ==
  /\ Steps(F, s, d, u, n)
  /\ CopyAll(s, d, u) = [F[n] EXCEPT !.bc = 0, !.fl = CopyFlags(@, FALSE)]

LEMMA CopyAllIs ==
  ASSUME NEW s, NEW d, NEW u, NEW n \in Nat, LoopCount(s.bc) = n
  PROVE  \E F : CopiedBy(F, s, d, u, n)
<1> DEFINE F == CHOOSE g : g = [k \in 0..n |-> IF k = 0 THEN s ELSE Carried(g[k - 1], d, u)]
<1>1. CopyAll(s, d, u) = [F[n] EXCEPT !.bc = 0, !.fl = CopyFlags(@, FALSE)]
  <2> DEFINE m == LoopCount(s.bc)
             F2 == CHOOSE g : g = [k \in 0..m |-> IF k = 0 THEN s ELSE Carried(g[k - 1], d, u)]
  <2>1. CopyAll(s, d, u) = [F2[m] EXCEPT !.bc = 0, !.fl = CopyFlags(@, FALSE)]
    BY Zenon DEF CopyAll
  <2>2. m = n /\ F2 = F
    OBVIOUS
  <2> HIDE DEF m, F2, F
  <2> QED
    BY <2>1, <2>2
<1>2. PICK W : W = [k \in 0..n |-> IF k = 0 THEN s ELSE Carried(W[k - 1], d, u)]
  <2>1. \E W : Steps(W, s, d, u, n)
    BY StepsExist
  <2> QED
    BY <2>1, Zenon DEF Steps
<1>3. F = [k \in 0..n |-> IF k = 0 THEN s ELSE Carried(F[k - 1], d, u)]
  BY <1>2, Zenon
<1> HIDE DEF F
<1>4. Steps(F, s, d, u, n)
  BY <1>3, Zenon DEF Steps
<1>5. CopiedBy(F, s, d, u, n)
  BY <1>1, <1>4, Zenon DEF CopiedBy
<1> QED
  BY <1>5

Again(i, t) == IF t.bc = 0 \/ (i \in {"CPIR", "CPDR"} /\ t.fl.z) THEN t ELSE Single(i, t)
Repeats(G, i, s, n) == G = [k \in 1..n |-> IF k = 1 THEN Single(i, s) ELSE Again(i, G[k - 1])]

LEMMA RepeatsExist ==
  ASSUME NEW i, NEW s, NEW n \in Nat \ {0}
  PROVE  \E G : Repeats(G, i, s, n)
<1> DEFINE Missing == {k \in Nat : k # 0 /\ ~\E G : Repeats(G, i, s, k)}
<1> SUFFICES ASSUME Missing # {} PROVE FALSE
  OBVIOUS
<1>1. PICK k \in Missing : \A j \in Missing : <<j, k>> \notin OpToRel(<, Nat)
  <2>1. Missing \subseteq Nat
    OBVIOUS
  <2> QED
    BY <2>1, NatLessThanWellFounded, WFMin
<1>2. \A j \in Missing : ~(j < k)
  BY <1>1, Zenon DEF OpToRel
<1>3. k # 1
  <2> SUFFICES ASSUME k = 1 PROVE FALSE
    OBVIOUS
  <2> DEFINE G == [j \in 1..1 |-> Single(i, s)]
  <2>1. G = [j \in 1..1 |-> G[j]] /\ \A j \in 1..1 : G[j] = Single(i, s) /\ j = 1
    OBVIOUS
  <2> HIDE DEF G
  <2>2. G = [j \in 1..1 |-> IF j = 1 THEN Single(i, s) ELSE Again(i, G[j - 1])]
    BY <2>1, Zenon
  <2>3. Repeats(G, i, s, 1)
    BY <2>2, Zenon DEF Repeats
  <2> QED
    BY <1>1, <2>3
<1>4. PICK G : Repeats(G, i, s, k - 1)
  <2>1. k \in Nat /\ k # 0
    OBVIOUS
  <2>2. k - 1 \in Nat /\ k - 1 < k /\ k - 1 # 0
    BY <1>3, <2>1
  <2> QED
    BY <1>2, <2>2
<1>5. G = [j \in 1..k - 1 |-> IF j = 1 THEN Single(i, s) ELSE Again(i, G[j - 1])]
  BY <1>4, Zenon DEF Repeats
<1> DEFINE H == [j \in 1..k |-> IF j = k THEN Again(i, G[k - 1]) ELSE G[j]]
<1>6. H = [j \in 1..k |-> H[j]]
  BY Zenon
<1>7. \A j \in 1..k : H[j] = IF j = 1 THEN Single(i, s) ELSE Again(i, H[j - 1])
  <2> SUFFICES ASSUME NEW j \in 1..k PROVE H[j] = IF j = 1 THEN Single(i, s) ELSE Again(i, H[j - 1])
    OBVIOUS
  <2>1. k \in Nat
    BY <1>1
  <2>2. CASE j = 1
    <3>1. 1 \in 1..k - 1 /\ j # k
      BY <1>3, <2>1, <2>2
    <3>2. H[j] = G[j] /\ G[j] = Single(i, s)
      BY <1>5, <2>2, <3>1, Zenon
    <3> QED
      BY <2>2, <3>2
  <2>3. CASE j # 1 /\ j # k
    <3>1. j \in 1..k - 1 /\ j - 1 \in 1..k /\ j - 1 # k
      BY <2>1, <2>3
    <3>2. H[j] = G[j] /\ G[j] = Again(i, G[j - 1]) /\ H[j - 1] = G[j - 1]
      BY <1>5, <2>3, <3>1, Zenon
    <3> QED
      BY <2>3, <3>2
  <2>4. CASE j = k
    <3>1. k - 1 \in 1..k /\ k - 1 # k
      <4>1. k # 0
        OBVIOUS
      <4> QED
        BY <1>3, <2>1, <4>1
    <3>2. H[j] = Again(i, G[k - 1]) /\ H[j - 1] = G[k - 1]
      BY <2>4, <3>1, Zenon
    <3> QED
      BY <1>3, <2>4, <3>2
  <2> QED
    BY <2>2, <2>3, <2>4
<1> HIDE DEF H
<1>8. Repeats(H, i, s, k)
  BY <1>6, <1>7, Zenon DEF Repeats
<1> QED
  BY <1>1, <1>8

LEMMA ExecutedIs ==
  ASSUME NEW i \in Repeated, NEW s
  PROVE  \E G : Repeats(G, i, s, BlkSize) /\ Executed(i, s) = G[BlkSize]
<1> DEFINE G == CHOOSE g : g = [k \in 1..BlkSize |->
                                  IF k = 1 THEN Single(i, s)
                                  ELSE IF g[k - 1].bc = 0 \/ (i \in {"CPIR", "CPDR"} /\ g[k - 1].fl.z)
                                       THEN g[k - 1] ELSE Single(i, g[k - 1])]
<1>1. Executed(i, s) = G[BlkSize]
  BY Zenon DEF Executed
<1>2. PICK W : W = [k \in 1..BlkSize |->
                      IF k = 1 THEN Single(i, s)
                      ELSE IF W[k - 1].bc = 0 \/ (i \in {"CPIR", "CPDR"} /\ W[k - 1].fl.z)
                           THEN W[k - 1] ELSE Single(i, W[k - 1])]
  <2>1. BlkSize \in Nat \ {0}
    BY Size
  <2>2. PICK W : Repeats(W, i, s, BlkSize)
    BY <2>1, RepeatsExist
  <2> QED
    BY <2>2, Zenon DEF Repeats, Again
<1>3. G = [k \in 1..BlkSize |->
             IF k = 1 THEN Single(i, s)
             ELSE IF G[k - 1].bc = 0 \/ (i \in {"CPIR", "CPDR"} /\ G[k - 1].fl.z)
                  THEN G[k - 1] ELSE Single(i, G[k - 1])]
  BY <1>2, Zenon
<1> HIDE DEF G
<1>4. Repeats(G, i, s, BlkSize)
  BY <1>3, Zenon DEF Repeats, Again
<1> QED
  BY <1>1, <1>4

(* Once it has ended, it stays as it is.                                   *)
LEMMA EndedStays ==
  ASSUME NEW i, NEW s, NEW G, Repeats(G, i, s, BlkSize), NEW n \in 1..BlkSize, Again(i, G[n]) = G[n]
  PROVE  G[BlkSize] = G[n]
<1> DEFINE Differ == {k \in n..BlkSize : G[k] # G[n]}
<1>1. Differ = {}
  <2> SUFFICES ASSUME Differ # {} PROVE FALSE
    OBVIOUS
  <2>1. Differ \subseteq Nat
    OBVIOUS
  <2>2. PICK k \in Differ : \A j \in Differ : <<j, k>> \notin OpToRel(<, Nat)
    BY <2>1, NatLessThanWellFounded, WFMin
  <2>3. \A j \in Differ : ~(j < k)
    BY <2>1, <2>2, Zenon DEF OpToRel
  <2>4. k \in n..BlkSize /\ k # n
    OBVIOUS
  <2>5. k - 1 \in n..BlkSize /\ k \in 1..BlkSize /\ k # 1 /\ k - 1 < k
    BY <2>4, Size
  <2>6. G[k - 1] = G[n]
    BY <2>3, <2>5
  <2>7. G = [x \in 1..BlkSize |-> IF x = 1 THEN Single(i, s) ELSE Again(i, G[x - 1])]
    BY Zenon DEF Repeats
  <2>8. G[k] = Again(i, G[k - 1])
    BY <2>5, <2>7, Zenon
  <2> QED
    BY <2>6, <2>8
<1>2. BlkSize \in n..BlkSize
  BY Size
<1> QED
  BY <1>1, <1>2

(* From each to the next, from 0 to n.                                     *)
LEMMA UpTo ==
  ASSUME NEW S, NEW n \in Nat, 0 \in S, \A k \in 1..n : k - 1 \in S => k \in S
  PROVE  \A k \in 0..n : k \in S
<1> DEFINE Missing == {k \in 0..n : k \notin S}
<1> SUFFICES ASSUME Missing # {} PROVE FALSE
  OBVIOUS
<1>1. Missing \subseteq Nat
  OBVIOUS
<1>2. PICK k \in Missing : \A j \in Missing : <<j, k>> \notin OpToRel(<, Nat)
  BY <1>1, NatLessThanWellFounded, WFMin
<1>3. \A j \in Missing : ~(j < k)
  BY <1>1, <1>2, Zenon DEF OpToRel
<1>4. k \in 0..n /\ k # 0
  OBVIOUS
<1>5. k \in 1..n /\ k - 1 \in 0..n /\ k - 1 < k
  BY <1>4
<1>6. k - 1 \in S
  BY <1>3, <1>5
<1> QED
  BY <1>5, <1>6

LEMMA LeftIs ==
  ASSUME NEW t \in Machine, NEW m \in 0..BlkSize - 1, NEW p \in BOOLEAN, p <=> m # 0
  PROVE  [t EXCEPT !.bc = m, !.fl = CopyFlags(@, p)] = Left(t, m)
<1>1. t.fl \in Flags
  BY MachineIs
<1>2. CopyFlags(t.fl, p) = FlagsOf(t.fl.s, t.fl.z, FALSE, p, FALSE, t.fl.c)
  BY <1>1, FlagsCopied DEF CopyFlags
<1>3. p = (m # 0)
  OBVIOUS
<1> DEFINE g == CopyFlags(t.fl, p)
<1>4. g = FlagsOf(t.fl.s, t.fl.z, FALSE, m # 0, FALSE, t.fl.c)
  BY <1>2, <1>3
<1>5. [t EXCEPT !.bc = m, !.fl = CopyFlags(@, p)] = [t EXCEPT !.bc = m, !.fl = g]
  OBVIOUS
<1> HIDE DEF g
<1>6. [t EXCEPT !.bc = m, !.fl = g] = State(t.mem, t.hl, t.de, m, t.a, g)
  <2> DEFINE x == [t EXCEPT !.bc = m, !.fl = g]
  <2>1. g \in Flags
    BY <1>1, FlagsCopied DEF g, CopyFlags
  <2>2. x \in Machine
    BY <2>1 DEF Machine
  <2>3. x.mem = t.mem /\ x.hl = t.hl /\ x.de = t.de /\ x.bc = m /\ x.a = t.a /\ x.fl = g
    BY DEF Machine
  <2> HIDE DEF x
  <2>4. x = State(x.mem, x.hl, x.de, x.bc, x.a, x.fl)
    BY <2>2, MachineIs
  <2> QED
    BY <2>3, <2>4 DEF x
<1> QED
  BY <1>4, <1>5, <1>6 DEF Left

(* LDI, LDD                                                                *)
LEMMA CopyOneRight ==
  ASSUME NEW i \in {"LDI", "LDD"}, NEW s \in Machine, NEW u
  PROVE  BlockEffect(i, s, u) = Executed(i, s) /\ BlockEffect(i, s, u) \in Machine
<1> DEFINE d == Direction(i)
           m == Narrow(s.bc - 1)
           c == Carried(s, d, u)
<1>1. d \in {-1, 1} /\ i \in Copies
  BY DEF Direction, Copies
<1>2. m \in 0..BlkSize - 1
  BY MachineIs, NarrowIs, Size
<1>3. c \in Machine
  BY <1>1, CarriedOK
<1>4. BlockEffect(i, s, u) = CopyOne(s, d, u)
  BY DEF BlockEffect
<1>5. CopyOne(s, d, u) = [c EXCEPT !.bc = m, !.fl = CopyFlags(@, m # 0)]
  BY Zenon DEF CopyOne
<1>6. Single(i, s) = Left(c, m)
  BY <1>1, CopySingle
<1>7. Executed(i, s) = Single(i, s)
  BY DEF Executed, Repeated
<1> HIDE DEF c, m, d
<1>8. [c EXCEPT !.bc = m, !.fl = CopyFlags(@, m # 0)] = Left(c, m)
  BY <1>2, <1>3, LeftIs
<1>9. Left(c, m) \in Machine
  BY <1>2, <1>3, LeftOK
<1> QED
  BY <1>4, <1>5, <1>6, <1>7, <1>8, <1>9

(* LDIR, LDDR: the loop of the x86 and the repeated instruction.           *)
LEMMA CopyAllRight ==
  ASSUME NEW i \in {"LDIR", "LDDR"}, NEW s \in Machine, NEW u, s.bc # 0
  PROVE  BlockEffect(i, s, u) = Executed(i, s) /\ BlockEffect(i, s, u) \in Machine
<1> DEFINE d == Direction(i)
           n == s.bc
<1>1. d \in {-1, 1} /\ i \in Copies /\ i \in Repeated /\ i \notin {"CPIR", "CPDR"}
  BY DEF Direction, Copies, Repeated
<1>2. n \in 1..BlkSize - 1 /\ LoopCount(s.bc) = n /\ n \in Nat
  BY MachineIs, Size DEF LoopCount
<1>3. BlockEffect(i, s, u) = CopyAll(s, d, u)
  BY DEF BlockEffect
<1>4. PICK F : Steps(F, s, d, u, n) /\ CopyAll(s, d, u) = [F[n] EXCEPT !.bc = 0, !.fl = CopyFlags(@, FALSE)]
  <2>1. \E F : CopiedBy(F, s, d, u, n)
    BY <1>2, CopyAllIs
  <2> QED
    BY <2>1, Zenon DEF CopiedBy
<1>5. PICK G : Repeats(G, i, s, BlkSize) /\ Executed(i, s) = G[BlkSize]
  BY <1>1, ExecutedIs
<1>6. F = [k \in 0..n |-> IF k = 0 THEN s ELSE Carried(F[k - 1], d, u)]
  BY <1>4, Zenon DEF Steps
<1>7. G = [k \in 1..BlkSize |-> IF k = 1 THEN Single(i, s) ELSE Again(i, G[k - 1])]
  BY <1>5, Zenon DEF Repeats
<1> DEFINE Good == {k \in 0..n : /\ F[k] \in Machine
                                 /\ F[k].bc = n
                                 /\ k # 0 => G[k] = Left(F[k], n - k)}
<1> HIDE DEF d, n
<1>8. 0 \in Good
  <2>1. 0 \in 0..n
    BY <1>2
  <2>2. F[0] = s
    BY <1>6, <2>1, Zenon
  <2> QED
    BY <2>1, <2>2 DEF n
<1>9. \A k \in 1..n : k - 1 \in Good => k \in Good
  <2> SUFFICES ASSUME NEW k \in 1..n, k - 1 \in Good PROVE k \in Good
    OBVIOUS
  <2>1. k \in 0..n /\ k # 0 /\ k \in 1..BlkSize /\ k - 1 \in 0..n /\ n - k \in 0..BlkSize - 1 /\ k \in Nat
    BY <1>2, Size
  <2>2. F[k] = Carried(F[k - 1], d, u)
    BY <1>6, <2>1, Zenon
  <2> DEFINE t == F[k - 1]
             m == n - k + 1
             c == Carried(t, d, u)
  <2>3. /\ t \in Machine
        /\ t.bc = n
        /\ k - 1 # 0 => G[k - 1] = Left(t, n - (k - 1))
    BY Zenon
  <2>4. c \in Machine /\ c.bc = n
    BY <1>1, <2>3, CarriedOK
  <2>5. G[k] = Left(c, n - k)
    <3>1. CASE k = 1
      <4>1. G[k] = Single(i, s)
        BY <1>7, <2>1, <3>1, Zenon
      <4>2. t = s
        <5>1. k - 1 = 0
          BY <3>1
        <5> QED
          BY <1>2, <1>6, <2>1, <5>1, Zenon
      <4>3. Single(i, s) = Left(Carried(s, d, u), Narrow(s.bc - 1))
        BY <1>1, CopySingle DEF d
      <4>4. Narrow(s.bc - 1) = n - k
        <5>1. n - 1 \in Int /\ n - 1 \in 0..BlkSize - 1 /\ n - 1 = n - k
          BY <1>2, <3>1, Size
        <5>2. Narrow(n - 1) = n - 1
          BY <5>1, NarrowIs
        <5> QED
          BY <5>1, <5>2 DEF n
      <4> QED
        BY <4>1, <4>2, <4>3, <4>4
    <3>2. CASE k # 1
      <4>1. k - 1 # 0 /\ k - 1 \in 1..BlkSize /\ n - (k - 1) = m /\ m \in 0..BlkSize - 1 /\ m # 0 /\ m - 1 = n - k
        BY <1>2, <2>1, <3>2, Size
      <4> DEFINE v == Left(t, m)
      <4>2. G[k] = Again(i, G[k - 1])
        BY <1>7, <2>1, <3>2, Zenon
      <4>3. G[k - 1] = v
        BY <2>3, <4>1
      <4> HIDE DEF m, c
      <4>4. v \in Machine
        BY <2>3, <4>1, LeftOK
      <4>5. /\ v.mem = t.mem
            /\ v.hl = t.hl
            /\ v.de = t.de
            /\ v.a = t.a
            /\ v.bc = m
            /\ v.fl.s = t.fl.s
            /\ v.fl.z = t.fl.z
            /\ v.fl.c = t.fl.c
        BY DEF Left, State, FlagsOf
      <4> HIDE DEF v, t
      <4>6. Single(i, v) = Left(Carried(t, Direction(i), u), Narrow(v.bc - 1))
        BY <1>1, <2>3, <4>4, <4>5, CopySingle
      <4>7. Narrow(v.bc - 1) = n - k
        <5>1. n - k \in Int
          BY <2>1
        <5> QED
          BY <2>1, <4>1, <4>5, <5>1, NarrowIs
      <4>8. Again(i, v) = Single(i, v)
        BY <1>1, <4>1, <4>5 DEF Again
      <4> QED
        BY <4>2, <4>3, <4>6, <4>7, <4>8 DEF c, d
    <3> QED
      BY <3>1, <3>2
  <2> HIDE DEF c, t, m
  <2>6. F[k] = c
    BY <2>2 DEF c, t
  <2> QED
    BY <2>1, <2>4, <2>5, <2>6
<1>10. n \in Good
  <2> HIDE DEF Good
  <2>1. \A k \in 0..n : k \in Good
    BY <1>2, <1>8, <1>9, UpTo
  <2>2. n \in 0..n
    BY <1>2
  <2> QED
    BY <2>1, <2>2
<1>11. F[n] \in Machine /\ G[n] = Left(F[n], 0)
  BY <1>2, <1>10
<1> DEFINE e == F[n]
<1> HIDE DEF Good, e
<1>12. e \in Machine /\ G[n] = Left(e, 0)
  BY <1>11 DEF e
<1>13. 0 \in 0..BlkSize - 1
  BY Size
<1>14. Left(e, 0).bc = 0
  BY DEF Left, State
<1>15. Again(i, G[n]) = G[n]
  BY <1>12, <1>14 DEF Again
<1>16. G[BlkSize] = G[n]
  <2>1. n \in 1..BlkSize
    BY <1>2, Size
  <2> QED
    BY <1>5, <1>15, <2>1, EndedStays
<1>17. [e EXCEPT !.bc = 0, !.fl = CopyFlags(@, FALSE)] = Left(e, 0)
  BY <1>12, <1>13, LeftIs
<1>18. Left(e, 0) \in Machine
  BY <1>12, <1>13, LeftOK
<1> QED
  BY <1>3, <1>4, <1>5, <1>12, <1>16, <1>17, <1>18 DEF e

(***************************************************************************)
(* Comparing                                                               *)
(***************************************************************************)
(* A comparison's registers and flags: e in HL, m left, byte compared.     *)
Against(x, y, p, c) == FlagsOf((x - y) % 256 > 127, x = y, x % 16 < y % 16, p, TRUE, c)
Sought(t, e, m, byte) == State(t.mem, e, t.de, m, t.a, Against(t.a, byte, m # 0, t.fl.c))

LEMMA Power7 == 2^(8 - 1) = 128 /\ 2^8 = 256
  BY SMT

LEMMA CompareFlagsIs ==
  ASSUME NEW g \in Flags, NEW x \in 0..255, NEW y \in 0..255, NEW p
  PROVE  CompareFlags(g, x, y, p) = Against(x, y, p, g.c)
<1> DEFINE r == (x - y - 0) % 2^8
           z == Sub86(8, x, y, 0)
<1>1. /\ z.sf = (r >= 2^(8 - 1))
      /\ z.zf = (r = 0)
      /\ z.af = ((x % 16) - (y % 16) - 0 < 0)
  BY Zenon DEF Sub86, X86
<1>2. r = (x - y) % 256
  BY Power7
<1>3. (r >= 2^(8 - 1)) = ((x - y) % 256 > 127)
  BY <1>2, Power7
<1>4. (r = 0) = (x = y)
  <2>1. CASE x >= y
    <3>1. (x - y) % 256 = x - y
      BY <2>1
    <3> QED
      BY <1>2, <3>1
  <2>2. CASE x < y
    <3>1. (x - y) % 256 = x - y + 256
      BY <2>2
    <3> QED
      BY <1>2, <2>2, <3>1
  <2> QED
    BY <2>1, <2>2
<1>5. ((x % 16) - (y % 16) - 0 < 0) = (x % 16 < y % 16)
  OBVIOUS
<1>6. CompareFlags(g, x, y, p) = [s |-> z.sf, z |-> z.zf, h |-> z.af, p |-> p, n |-> TRUE, c |-> g.c]
  BY Zenon DEF CompareFlags
<1> HIDE DEF z, r
<1> QED
  BY <1>1, <1>3, <1>4, <1>5, <1>6, Zenon DEF Against, FlagsOf

LEMMA SoughtOK ==
  ASSUME NEW t \in Machine, NEW e \in 0..BlkSize - 1, NEW m \in 0..BlkSize - 1, NEW byte
  PROVE  Sought(t, e, m, byte) \in Machine
<1> DEFINE x == (t.a - byte) % 256 > 127
           y == t.a = byte
           z == t.a % 16 < byte % 16
           w == m # 0
<1>1. t.fl.c \in BOOLEAN
  BY MachineIs, FlagsIs
<1>2. x \in BOOLEAN /\ y \in BOOLEAN /\ z \in BOOLEAN /\ w \in BOOLEAN
  OBVIOUS
<1> HIDE DEF x, y, z, w
<1>3. FlagsOf(x, y, z, w, TRUE, t.fl.c) \in Flags
  BY <1>1, <1>2 DEF FlagsOf, Flags
<1> DEFINE g == FlagsOf(x, y, z, w, TRUE, t.fl.c)
<1> HIDE DEF g
<1>4. State(t.mem, e, t.de, m, t.a, g) \in Machine
  BY <1>3, MachineIs DEF State, Machine, g
<1> QED
  BY <1>4, Zenon DEF Sought, Against, g, x, y, z, w

LEMMA CountDown ==
  ASSUME NEW b \in 0..BlkSize - 1
  PROVE  Narrow(b - 1) \in 0..BlkSize - 1 /\ (b # 1) = (Narrow(b - 1) # 0)
<1>1. CASE b = 0
  <2>1. (-1) % BlkSize = BlkSize - 1
    BY Size
  <2> QED
    BY <1>1, <2>1, Size DEF Narrow
<1>2. CASE b # 0
  <2>1. b - 1 \in 0..BlkSize - 1 /\ b - 1 \in Int
    BY <1>2, Size
  <2>2. Narrow(b - 1) = b - 1
    BY <2>1, NarrowIs
  <2> QED
    BY <2>1, <2>2
<1> QED
  BY <1>1, <1>2

LEMMA FlagsCompared ==
  ASSUME NEW g \in Flags, NEW x \in BOOLEAN, NEW y \in BOOLEAN, NEW z \in BOOLEAN
  PROVE  [g EXCEPT !.s = x, !.z = y, !.h = z, !.n = TRUE] = FlagsOf(x, y, z, g.p, TRUE, g.c)
<1> DEFINE r == [g EXCEPT !.s = x, !.z = y, !.h = z, !.n = TRUE]
<1>1. r \in Flags
  BY DEF Flags
<1>2. r.s = x /\ r.z = y /\ r.h = z /\ r.p = g.p /\ r.n = TRUE /\ r.c = g.c
  BY DEF Flags
<1> HIDE DEF r
<1>3. r = FlagsOf(r.s, r.z, r.h, r.p, r.n, r.c)
  BY <1>1, FlagsIs
<1> QED
  BY <1>2, <1>3 DEF r

Moved(t, h, m, g) == [t EXCEPT !.hl = h, !.bc = m, !.fl = g]

LEMMA Replaced ==
  ASSUME NEW t \in Machine, NEW h \in 0..BlkSize - 1, NEW m \in 0..BlkSize - 1, NEW g \in Flags
  PROVE  Moved(t, h, m, g) = State(t.mem, h, t.de, m, t.a, g)
<1> DEFINE x == [t EXCEPT !.hl = h, !.bc = m, !.fl = g]
<1>1. x \in Machine
  BY DEF Machine
<1>2. x.mem = t.mem /\ x.hl = h /\ x.de = t.de /\ x.bc = m /\ x.a = t.a /\ x.fl = g
  BY DEF Machine
<1>3. Moved(t, h, m, g) = x
  BY DEF Moved
<1> HIDE DEF x
<1>4. x = State(x.mem, x.hl, x.de, x.bc, x.a, x.fl)
  BY <1>1, MachineIs
<1> QED
  BY <1>2, <1>3, <1>4

LEMMA CompareSingle ==
  ASSUME NEW i \in Compares, NEW t \in Machine, NEW v \in Machine,
         v.mem = t.mem, v.de = t.de, v.a = t.a, v.fl.c = t.fl.c
  PROVE  Single(i, v) = Sought(t, Narrow(v.hl + Direction(i)), Narrow(v.bc - 1), t.mem[v.hl])
<1> DEFINE d == Direction(i)
           h == Narrow(v.hl + d)
           m == Narrow(v.bc - 1)
           p == v.bc # 1
           byte == v.mem[v.hl]
           on == [v EXCEPT !.hl = Narrow(@ + d), !.bc = Narrow(@ - 1), !.fl.p = v.bc # 1]
           x == (v.a - byte) % 256 > 127
           y == v.a = byte
           z == v.a % 16 < byte % 16
           g == [v.fl EXCEPT !.p = p]
<1>1. Single(i, v) = [on EXCEPT !.fl.s = x, !.fl.z = y, !.fl.h = z, !.fl.n = TRUE]
  BY DEF Single, Compares
<1>2. on = [v EXCEPT !.hl = h, !.bc = m, !.fl = g]
  OBVIOUS
<1>3. v.fl \in Flags /\ p \in BOOLEAN
  BY MachineIs
<1>4. p = (m # 0)
  BY MachineIs, CountDown
<1>5. x \in BOOLEAN /\ y \in BOOLEAN /\ z \in BOOLEAN
  OBVIOUS
<1> HIDE DEF p, m, h, d, x, y, z, byte
<1>6. g \in Flags /\ g = FlagsOf(v.fl.s, v.fl.z, v.fl.h, p, v.fl.n, v.fl.c)
  BY <1>3, FlagsP
<1> HIDE DEF g
<1>7. on = State(v.mem, h, v.de, m, v.a, g)
  <2>1. h \in 0..BlkSize - 1 /\ m \in 0..BlkSize - 1
    <3>1. d \in {-1, 1}
      BY DEF d, Direction
    <3> QED
      BY <3>1, MachineIs, NarrowIs, Size DEF h, m
  <2> QED
    <3>1. Moved(v, h, m, g) = State(v.mem, h, v.de, m, v.a, g)
      BY <1>6, <2>1, Replaced
    <3> HIDE DEF on
    <3> QED
      BY <1>2, <3>1, Zenon DEF Moved
<1> HIDE DEF on
<1> DEFINE g2 == [on.fl EXCEPT !.s = x, !.z = y, !.h = z, !.n = TRUE]
<1>8. Single(i, v) = [on EXCEPT !.fl = g2]
  BY <1>1, <1>7 DEF State
<1>9. g2 = FlagsOf(x, y, z, p, TRUE, v.fl.c)
  <2>1. on.fl = FlagsOf(v.fl.s, v.fl.z, v.fl.h, p, v.fl.n, v.fl.c)
    BY <1>6, <1>7 DEF State
  <2> DEFINE k == on.fl
  <2>2. k \in Flags /\ k.p = p /\ k.c = v.fl.c
    BY <1>6, <1>7, <2>1 DEF State, FlagsOf
  <2> HIDE DEF k
  <2>3. [k EXCEPT !.s = x, !.z = y, !.h = z, !.n = TRUE] = FlagsOf(x, y, z, k.p, TRUE, k.c)
    BY <1>5, <2>2, FlagsCompared
  <2> QED
    BY <2>2, <2>3, Zenon DEF k
<1> HIDE DEF g2
<1>10. Single(i, v) = State(v.mem, h, v.de, m, v.a, g2)
  BY <1>7, <1>8 DEF State
<1>11. g2 = Against(v.a, byte, m # 0, v.fl.c)
  BY <1>4, <1>9, Zenon DEF Against, x, y, z
<1>12. Single(i, v) = Sought(t, h, m, byte)
  BY <1>10, <1>11, Zenon DEF Sought
<1> QED
  BY <1>12, Zenon DEF byte, h, m, d

(* CPI, CPD                                                                *)
LEMMA CompareOneRight ==
  ASSUME NEW i \in {"CPI", "CPD"}, NEW s \in Machine, NEW u
  PROVE  BlockEffect(i, s, u) = Executed(i, s) /\ BlockEffect(i, s, u) \in Machine
<1> DEFINE d == Direction(i)
           m == Narrow(s.bc - 1)
           h == Narrow(s.hl + d)
           byte == s.mem[s.hl]
<1>1. d \in {-1, 1} /\ i \in Compares
  BY DEF Direction, Compares
<1>2. m \in 0..BlkSize - 1 /\ h \in 0..BlkSize - 1
  BY <1>1, MachineIs, NarrowIs, Size
<1>3. BlockEffect(i, s, u) = CompareOne(s, d, u)
  BY DEF BlockEffect
<1>4. At(s, s.hl, u) = byte
  BY MachineIs, Size DEF At
<1>5. HalfMoved(s.hl, d) = h
  <2>1. s.hl \in Int /\ Narrow(s.hl) = s.hl
    BY MachineIs, NarrowIs, Size
  <2> QED
    BY <1>2, <2>1 DEF HalfMoved
<1>6. byte \in 0..255
  BY MachineIs DEF Memories
<1>7. CompareFlags(s.fl, s.a, byte, m # 0) = Against(s.a, byte, m # 0, s.fl.c)
  <2> DEFINE p == m # 0
  <2>1. s.fl \in Flags /\ s.a \in 0..255
    BY MachineIs
  <2> HIDE DEF byte, m, p
  <2>2. CompareFlags(s.fl, s.a, byte, p) = Against(s.a, byte, p, s.fl.c)
    BY <1>6, <2>1, CompareFlagsIs
  <2> QED
    BY <2>2, Zenon DEF p
<1> DEFINE g == CompareFlags(s.fl, s.a, byte, m # 0)
<1>8. CompareOne(s, d, u) = [s EXCEPT !.hl = h, !.bc = m, !.fl = g]
  BY <1>4, <1>5 DEF CompareOne
<1> HIDE DEF g, h, m, d, byte
<1>12. Sought(s, h, m, byte) \in Machine
  BY <1>2, SoughtOK
<1>9. [s EXCEPT !.hl = h, !.bc = m, !.fl = g] = State(s.mem, h, s.de, m, s.a, g)
  <2> DEFINE w == Sought(s, h, m, byte)
  <2>1. w.fl = g
    BY <1>7 DEF g, Sought, State
  <2> HIDE DEF w
  <2>2. w.fl \in Flags
    BY <1>12, MachineIs DEF w
  <2> QED
    <3>1. Moved(s, h, m, g) = State(s.mem, h, s.de, m, s.a, g)
      BY <1>2, <2>1, <2>2, Replaced
    <3> QED
      BY <3>1, Zenon DEF Moved
<1>10. CompareOne(s, d, u) = Sought(s, h, m, byte)
  BY <1>7, <1>8, <1>9, Zenon DEF Sought, g
<1>11. Executed(i, s) = Sought(s, h, m, byte)
  <2>1. Executed(i, s) = Single(i, s)
    BY DEF Executed, Repeated
  <2>2. Single(i, s) = Sought(s, Narrow(s.hl + Direction(i)), Narrow(s.bc - 1), s.mem[s.hl])
    BY <1>1, CompareSingle
  <2> QED
    BY <2>1, <2>2, Zenon DEF h, m, d, byte
<1> QED
  BY <1>3, <1>10, <1>11, <1>12

LEMMA Wrapped == ASSUME NEW w \in Nat \ {0}, NEW e \in Int, -w <= e, e < 0 PROVE e % w = e + w
OBVIOUS

(* Inside the memory, the wide register is HL.                             *)
LEMMA Within ==
  ASSUME NEW h \in 0..BlkSize - 1, NEW d \in {-1, 1}, NEW k \in 1..BlkSize - 1, (h + k * d) % BlkWide < BlkSize
  PROVE  /\ h + k * d \in 0..BlkSize - 1
         /\ \A j \in 0..k : h + j * d \in 0..BlkSize - 1 /\ (h + j * d) % BlkWide = h + j * d
<1>1. BlkSize \in Nat /\ BlkSize > 1 /\ BlkWide = 4 * BlkSize
  BY Size DEF BlkWide
<1>2. ASSUME NEW e \in Int, -BlkSize < e, e < 2 * BlkSize, e % BlkWide < BlkSize
      PROVE  e \in 0..BlkSize - 1
  <2>1. CASE e < 0
    <3>1. BlkWide \in Nat \ {0} /\ -BlkWide <= e
      BY <1>1, <1>2
    <3>2. e % BlkWide = e + BlkWide
      BY <1>2, <2>1, <3>1, Wrapped
    <3> QED
      BY <1>1, <1>2, <3>2
  <2>2. CASE e >= 0
    <3>1. e % BlkWide = e
      BY <1>1, <1>2, <2>2
    <3> QED
      BY <1>2, <2>2, <3>1, <1>1
  <2> QED
    BY <1>2, <2>1, <2>2
<1>3. CASE d = 1
  <2>1. h + k * d = h + k
    BY <1>1, <1>3
  <2>2. h + k \in 0..BlkSize - 1
    BY <1>1, <1>2, <2>1
  <2>3. ASSUME NEW j \in 0..k
        PROVE  h + j * d \in 0..BlkSize - 1 /\ (h + j * d) % BlkWide = h + j * d
    <3>1. h + j * d = h + j /\ h + j \in 0..BlkSize - 1
      BY <1>1, <1>3, <2>2
    <3>2. (h + j) % BlkWide = h + j
      BY <1>1, <3>1
    <3> QED
      BY <3>1, <3>2
  <2> QED
    BY <2>1, <2>2, <2>3
<1>4. CASE d = -1
  <2>1. h + k * d = h - k
    BY <1>1, <1>4
  <2>2. h - k \in 0..BlkSize - 1
    BY <1>1, <1>2, <2>1
  <2>3. ASSUME NEW j \in 0..k
        PROVE  h + j * d \in 0..BlkSize - 1 /\ (h + j * d) % BlkWide = h + j * d
    <3>1. h + j * d = h - j /\ h - j \in 0..BlkSize - 1
      BY <1>1, <1>4, <2>2
    <3>2. (h - j) % BlkWide = h - j
      BY <1>1, <3>1
    <3> QED
      BY <3>1, <3>2
  <2> QED
    BY <2>1, <2>2, <2>3
<1> QED
  BY <1>3, <1>4

(* The loop ends with the first byte found, or with the count.             *)
LEMMA ComparedIs ==
  ASSUME NEW s, NEW d, NEW u, NEW n \in Nat \ {0}, LoopCount(s.bc) = n
  PROVE  /\ Compared(s, d, u) \in 1..n
         /\ At(s, Probe(s, d, Compared(s, d, u)), u) = s.a \/ Compared(s, d, u) = n
         /\ \A j \in 1..n : j < Compared(s, d, u) => At(s, Probe(s, d, j), u) # s.a
<1> DEFINE hits == {k \in 1..n : At(s, Probe(s, d, k), u) = s.a}
           c == CHOOSE k \in hits : \A j \in hits : k <= j
<1>1. Compared(s, d, u) = IF hits = {} THEN n ELSE c
  <2> DEFINE m == LoopCount(s.bc)
             hit == {k \in 1..m : At(s, Probe(s, d, k), u) = s.a}
  <2>1. Compared(s, d, u) = IF hit = {} THEN m ELSE CHOOSE k \in hit : \A j \in hit : k <= j
    BY Zenon DEF Compared
  <2>2. m = n /\ hit = hits
    OBVIOUS
  <2> HIDE DEF m, hit, hits
  <2> QED
    BY <2>1, <2>2, Zenon
<1>2. CASE hits = {}
  BY <1>1, <1>2
<1>3. CASE hits # {}
  <2>1. hits \subseteq Nat
    OBVIOUS
  <2>2. PICK k \in hits : \A j \in hits : <<j, k>> \notin OpToRel(<, Nat)
    BY <1>3, <2>1, NatLessThanWellFounded, WFMin
  <2>3. \A j \in hits : ~(j < k)
    BY <2>1, <2>2, Zenon DEF OpToRel
  <2>4. \A j \in hits : k <= j
    BY <2>1, <2>3
  <2>5. c \in hits /\ \A j \in hits : c <= j
    BY <2>4, Zenon
  <2>6. Compared(s, d, u) = c
    BY <1>1, <1>3
  <2> HIDE DEF c
  <2>7. \A j \in 1..n : j < c => j \notin hits
    <3>1. c \in 1..n
      BY <2>5
    <3> HIDE DEF hits
    <3> QED
      BY <2>5, <3>1
  <2> QED
    BY <2>5, <2>6, <2>7
<1> QED
  BY <1>2, <1>3

(* CPIR, CPDR, unless they leave the memory.                               *)
LEMMA CompareAllRight ==
  ASSUME NEW i \in {"CPIR", "CPDR"}, NEW s \in Machine, NEW u, s.bc # 0, BlockEffect(i, s, u).hl < BlkSize
  PROVE  BlockEffect(i, s, u) = Executed(i, s) /\ BlockEffect(i, s, u) \in Machine
<1> DEFINE d == Direction(i)
           n == s.bc
           c == Compared(s, d, u)
           P(k) == s.hl + k * d
<1>1. d \in {-1, 1} /\ i \in Compares /\ i \in Repeated /\ i \in {"CPIR", "CPDR"}
  BY DEF Direction, Compares, Repeated
<1>2. n \in 1..BlkSize - 1 /\ LoopCount(s.bc) = n /\ n \in Nat \ {0}
  BY MachineIs, Size DEF LoopCount
<1>3. BlockEffect(i, s, u) = CompareAll(s, d, u)
  BY DEF BlockEffect
<1>4. /\ c \in 1..n
      /\ At(s, Probe(s, d, c), u) = s.a \/ c = n
      /\ \A j \in 1..n : j < c => At(s, Probe(s, d, j), u) # s.a
  BY <1>2, ComparedIs
<1> DEFINE m == Narrow(n - c)
           g == CompareFlags(s.fl, s.a, At(s, Probe(s, d, c), u), m # 0)
<1>5. CompareAll(s, d, u) = [s EXCEPT !.hl = Probe(s, d, c + 1), !.bc = m, !.fl = g]
  BY <1>2 DEF CompareAll
<1>6. m = n - c /\ n - c \in 0..BlkSize - 1
  <2>1. n - c \in Int /\ n - c \in 0..BlkSize - 1
    BY <1>2, <1>4, Size
  <2> QED
    BY <2>1, NarrowIs
<1> HIDE DEF c, m, g, n, d
<1>7. c \in 1..BlkSize - 1 /\ c \in Nat /\ c + 1 - 1 = c /\ c \in 1..BlkSize
  BY <1>2, <1>4, Size
<1>8. (s.hl + c * d) % BlkWide < BlkSize
  <2>1. Probe(s, d, c + 1) < BlkSize
    <3> DEFINE q == Probe(s, d, c + 1)
    <3> HIDE DEF q
    <3>1. [s EXCEPT !.hl = q, !.bc = m, !.fl = g].hl = q
      BY DEF Machine
    <3> QED
      BY <1>3, <1>5, <3>1 DEF q
  <2> QED
    BY <1>7, <2>1 DEF Probe
<1>9. \A j \in 0..c : P(j) \in 0..BlkSize - 1 /\ P(j) % BlkWide = P(j)
  BY <1>1, <1>7, <1>8, MachineIs, Within
<1> HIDE DEF P
<1>10. \A j \in 1..c + 1 : Probe(s, d, j) = P(j - 1) /\ P(j - 1) \in 0..BlkSize - 1
  <2> TAKE j \in 1..c + 1
  <2>1. j - 1 \in 0..c
    BY <1>7
  <2>2. Probe(s, d, j) = P(j - 1) % BlkWide
    BY Zenon DEF Probe, P
  <2> QED
    BY <1>9, <2>1, <2>2
<1>11. \A j \in 1..c : At(s, Probe(s, d, j), u) = s.mem[P(j - 1)]
  <2> TAKE j \in 1..c
  <2>1. j \in 1..c + 1
    BY <1>7
  <2>2. P(j - 1) < BlkSize
    BY <1>10, <2>1, Size
  <2> QED
    BY <1>10, <2>1, <2>2 DEF At
<1>12. \A k \in 1..c : P(k) = P(k - 1) + d /\ Narrow(P(k - 1) + d) = P(k) /\ P(k) \in 0..BlkSize - 1
  <2> TAKE k \in 1..c
  <2>1. k \in 0..c /\ k - 1 \in 0..c /\ k \in Int
    BY <1>7
  <2>2. P(k) = P(k - 1) + d
    <3>1. s.hl \in Int
      BY MachineIs
    <3> QED
      BY <1>1, <2>1, <3>1 DEF P
  <2>3. P(k) \in 0..BlkSize - 1 /\ P(k) \in Int
    BY <1>9, <2>1, Size
  <2> QED
    BY <2>2, <2>3, NarrowIs
<1>13. P(0) = s.hl
  BY <1>1, MachineIs DEF P
<1>14. PICK G : Repeats(G, i, s, BlkSize) /\ Executed(i, s) = G[BlkSize]
  BY <1>1, ExecutedIs
<1>15. G = [k \in 1..BlkSize |-> IF k = 1 THEN Single(i, s) ELSE Again(i, G[k - 1])]
  BY <1>14, Zenon DEF Repeats
<1> DEFINE S(k) == Sought(s, P(k), n - k, s.mem[P(k - 1)])
           Good == {k \in 0..c : k # 0 => G[k] = S(k)}
<1>16. \A k \in 1..c : S(k) \in Machine
  <2> TAKE k \in 1..c
  <2>1. P(k) \in 0..BlkSize - 1 /\ n - k \in 0..BlkSize - 1
    BY <1>2, <1>4, <1>12, Size
  <2> QED
    BY <2>1, SoughtOK
<1>17. 0 \in Good
  BY <1>7
<1>18. \A k \in 1..c : k - 1 \in Good => k \in Good
  <2> SUFFICES ASSUME NEW k \in 1..c, k - 1 \in Good PROVE k \in Good
    OBVIOUS
  <2>1. k \in 0..c /\ k # 0 /\ k \in 1..BlkSize /\ k \in Nat
    BY <1>7, Size
  <2>2. G[k] = S(k)
    <3>1. CASE k = 1
      <4>1. G[k] = Single(i, s)
        BY <1>15, <2>1, <3>1, Zenon
      <4>2. Single(i, s) = Sought(s, Narrow(s.hl + d), Narrow(s.bc - 1), s.mem[s.hl])
        BY <1>1, CompareSingle DEF d
      <4>3. k - 1 = 0 /\ Narrow(s.hl + d) = P(k)
        BY <1>12, <1>13, <3>1
      <4>4. Narrow(s.bc - 1) = n - k
        <5>1. n - 1 \in Int /\ n - 1 \in 0..BlkSize - 1 /\ n - 1 = n - k
          BY <1>2, <3>1, Size
        <5>2. Narrow(n - 1) = n - 1
          BY <5>1, NarrowIs
        <5> QED
          BY <5>1, <5>2 DEF n
      <4> QED
        BY <1>13, <4>1, <4>2, <4>3, <4>4
    <3>2. CASE k # 1
      <4> DEFINE v == S(k - 1)
      <4>1. k - 1 # 0 /\ k - 1 \in 1..c /\ k - 1 \in 1..n /\ k - 1 < c /\ k \in 1..c
        BY <1>2, <1>4, <1>7, <2>1, <3>2
      <4>2. G[k] = Again(i, G[k - 1])
        BY <1>15, <2>1, <3>2, Zenon
      <4>3. G[k - 1] = v
        BY <4>1
      <4>4. v \in Machine
        BY <1>16, <4>1
      <4>5. /\ v.mem = s.mem
            /\ v.de = s.de
            /\ v.a = s.a
            /\ v.fl.c = s.fl.c
            /\ v.hl = P(k - 1)
            /\ v.bc = n - (k - 1)
            /\ v.fl.z = (s.a = s.mem[P(k - 1 - 1)])
        BY Zenon DEF Sought, State, Against, FlagsOf
      <4> HIDE DEF v, S
      <4>6. Single(i, v) = Sought(s, Narrow(v.hl + Direction(i)), Narrow(v.bc - 1), s.mem[v.hl])
        BY <1>1, <4>4, <4>5, CompareSingle
      <4>7. Narrow(v.bc - 1) = n - k
        <5>1. n - k \in Int /\ n - k \in 0..BlkSize - 1 /\ n - (k - 1) - 1 = n - k
          BY <1>2, <1>4, <2>1, Size
        <5> QED
          BY <4>5, <5>1, NarrowIs
      <4>8. Narrow(v.hl + Direction(i)) = P(k)
        BY <1>12, <4>1, <4>5 DEF d
      <4>9. ~v.fl.z
        BY <1>4, <1>11, <4>1, <4>5
      <4>10. v.bc # 0
        BY <1>2, <1>4, <2>1, <4>1, <4>5
      <4>11. Again(i, v) = Single(i, v)
        BY <4>9, <4>10 DEF Again
      <4> QED
        BY <4>2, <4>3, <4>5, <4>6, <4>7, <4>8, <4>11, Zenon DEF S
    <3> QED
      BY <3>1, <3>2
  <2> QED
    BY <2>1, <2>2
<1>19. G[c] = S(c) /\ S(c) \in Machine
  <2>1. c \in Good
    <3> HIDE DEF Good
    <3>1. \A k \in 0..c : k \in Good
      BY <1>7, <1>17, <1>18, UpTo
    <3>2. c \in 0..c
      BY <1>7
    <3> QED
      BY <3>1, <3>2
  <2>2. c \in 1..c /\ c # 0
    BY <1>7
  <2> QED
    BY <1>16, <2>1, <2>2
<1> HIDE DEF Good, S
<1>20. S(c).bc = n - c /\ S(c).fl.z = (s.a = s.mem[P(c - 1)])
  BY Zenon DEF S, Sought, State, Against, FlagsOf
<1>21. Again(i, G[c]) = G[c]
  <2>1. CASE c = n
    <3>1. n - c = 0
      BY <1>2, <2>1
    <3> QED
      BY <1>19, <1>20, <3>1 DEF Again
  <2>2. CASE At(s, Probe(s, d, c), u) = s.a
    <3>1. c \in 1..c
      BY <1>7
    <3>2. S(c).fl.z
      BY <1>11, <1>20, <2>2, <3>1
    <3> QED
      BY <1>1, <1>19, <3>2 DEF Again
  <2> QED
    BY <1>4, <2>1, <2>2
<1>22. Executed(i, s) = S(c)
  BY <1>7, <1>14, <1>19, <1>21, EndedStays
<1>23. CompareAll(s, d, u) = S(c)
  <2> DEFINE byte == s.mem[P(c - 1)]
             h == P(c)
             p == m # 0
  <2>1. c \in 1..c /\ c + 1 \in 1..c + 1 /\ c + 1 - 1 = c /\ c \in 1..c + 1
    BY <1>7
  <2>2. Probe(s, d, c + 1) = h /\ h \in 0..BlkSize - 1
    BY <1>10, <2>1
  <2>3. At(s, Probe(s, d, c), u) = byte
    BY <1>11, <2>1
  <2>4. byte \in 0..255
    BY <1>10, <2>1, MachineIs DEF Memories
  <2>5. s.fl \in Flags /\ s.a \in 0..255
    BY MachineIs
  <2> HIDE DEF byte, h, p
  <2>6. CompareFlags(s.fl, s.a, byte, p) = Against(s.a, byte, p, s.fl.c)
    BY <2>4, <2>5, CompareFlagsIs
  <2>7. g = Against(s.a, byte, p, s.fl.c)
    BY <2>3, <2>6, Zenon DEF g, p
  <2>8. S(c) = State(s.mem, h, s.de, m, s.a, g)
    BY <1>6, <2>7, Zenon DEF S, Sought, byte, p, h
  <2>9. g \in Flags
    <3> DEFINE w == S(c)
    <3>1. w.fl = g
      BY <2>8 DEF State
    <3> HIDE DEF w
    <3>2. w.fl \in Flags
      BY <1>19, MachineIs DEF w
    <3> QED
      BY <3>1, <3>2
  <2>10. Moved(s, h, m, g) = State(s.mem, h, s.de, m, s.a, g)
    BY <1>6, <2>2, <2>9, Replaced
  <2> QED
    BY <1>5, <2>2, <2>8, <2>10, Zenon DEF Moved
<1> QED
  BY <1>3, <1>19, <1>22, <1>23

(***************************************************************************)
(* Bits of a byte                                                          *)
(***************************************************************************)
LEMMA Powers ==
  /\ 2^0 = 1
  /\ 2^1 = 2
  /\ 2^2 = 4
  /\ 2^3 = 8
  /\ 2^4 = 16
  /\ 2^5 = 32
  /\ 2^6 = 64
  /\ 2^7 = 128
  BY SMT

LEMMA BitIs == ASSUME NEW v \in Nat, NEW k \in 0..7 PROVE Bit(v, k) \in 0..1
<1>1. 2^k \in Nat \ {0}
  <2>1. k = 0 \/ k = 1 \/ k = 2 \/ k = 3 \/ k = 4 \/ k = 5 \/ k = 6 \/ k = 7
    OBVIOUS
  <2> DEFINE p == 2^k
  <2>2. p = 1 \/ p = 2 \/ p = 4 \/ p = 8 \/ p = 16 \/ p = 32 \/ p = 64 \/ p = 128
    <3>1. /\ k = 0 => p = 2^0
          /\ k = 1 => p = 2^1
          /\ k = 2 => p = 2^2
          /\ k = 3 => p = 2^3
          /\ k = 4 => p = 2^4
          /\ k = 5 => p = 2^5
          /\ k = 6 => p = 2^6
          /\ k = 7 => p = 2^7
      BY Zenon
    <3> HIDE DEF p
    <3> QED
      BY <2>1, <3>1, Powers
  <2> HIDE DEF p
  <2>3. p \in Nat \ {0}
    BY <2>2
  <2> QED
    BY <2>3 DEF p
<1> DEFINE q == v \div 2^k
<1>2. q \in Int
  BY <1>1
<1> HIDE DEF q
<1>3. q % 2 \in 0..1
  BY <1>2
<1> QED
  BY <1>3 DEF Bit, q

LEMMA BitsOf ==
  ASSUME NEW v \in Nat
  PROVE  /\ Bit(v, 0) = v % 2
         /\ Bit(v, 1) = (v \div 2) % 2
         /\ Bit(v, 2) = (v \div 4) % 2
         /\ Bit(v, 3) = (v \div 8) % 2
         /\ Bit(v, 4) = (v \div 16) % 2
         /\ Bit(v, 5) = (v \div 32) % 2
         /\ Bit(v, 6) = (v \div 64) % 2
         /\ Bit(v, 7) = (v \div 128) % 2
<1>1. v \div 1 = v
  OBVIOUS
<1> QED
  BY <1>1, Powers DEF Bit

LEMMA ByteOf ==
  ASSUME NEW v \in Nat, v < 256
  PROVE  v = Bit(v, 0) + 2 * Bit(v, 1) + 4 * Bit(v, 2) + 8 * Bit(v, 3)
             + 16 * Bit(v, 4) + 32 * Bit(v, 5) + 64 * Bit(v, 6) + 128 * Bit(v, 7)
<1>1. v = (v % 2) + 2 * ((v \div 2) % 2) + 4 * ((v \div 4) % 2) + 8 * ((v \div 8) % 2)
          + 16 * ((v \div 16) % 2) + 32 * ((v \div 32) % 2) + 64 * ((v \div 64) % 2) + 128 * ((v \div 128) % 2)
  OBVIOUS
<1> DEFINE c0 == v % 2
           c1 == (v \div 2) % 2
           c2 == (v \div 4) % 2
           c3 == (v \div 8) % 2
           c4 == (v \div 16) % 2
           c5 == (v \div 32) % 2
           c6 == (v \div 64) % 2
           c7 == (v \div 128) % 2
<1>2. /\ Bit(v, 0) = c0
      /\ Bit(v, 1) = c1
      /\ Bit(v, 2) = c2
      /\ Bit(v, 3) = c3
      /\ Bit(v, 4) = c4
      /\ Bit(v, 5) = c5
      /\ Bit(v, 6) = c6
      /\ Bit(v, 7) = c7
  BY BitsOf
<1>3. v = c0 + 2 * c1 + 4 * c2 + 8 * c3 + 16 * c4 + 32 * c5 + 64 * c6 + 128 * c7
  BY <1>1
<1> HIDE DEF c0, c1, c2, c3, c4, c5, c6, c7
<1> QED
  BY <1>2, <1>3, Zenon

LEMMA OrItself == ASSUME NEW v \in 0..255 PROVE Byte(BitsOr(v, v)) = v
<1> DEFINE B(k) == Bit(v, k) + Bit(v, k) - Bit(v, k) * Bit(v, k)
           bit == BitsOr(v, v)
<1>1. \A k \in 0..7 : bit[k] = Bit(v, k)
  <2> TAKE k \in 0..7
  <2> DEFINE x == Bit(v, k)
  <2>1. x \in 0..1
    BY BitIs
  <2> HIDE DEF x
  <2>2. x + x - x * x = x
    <3>1. x = 0 \/ x = 1
      BY <2>1
    <3> QED
      BY <3>1
  <2>3. bit[k] = x + x - x * x
    BY DEF BitsOr, x
  <2> QED
    BY <2>2, <2>3 DEF x
<1> HIDE DEF bit
<1>2. Byte(bit) = Bit(v, 0) + 2 * Bit(v, 1) + 4 * Bit(v, 2) + 8 * Bit(v, 3)
                  + 16 * Bit(v, 4) + 32 * Bit(v, 5) + 64 * Bit(v, 6) + 128 * Bit(v, 7)
  <2>1. /\ bit[0] = Bit(v, 0)
        /\ bit[1] = Bit(v, 1)
        /\ bit[2] = Bit(v, 2)
        /\ bit[3] = Bit(v, 3)
        /\ bit[4] = Bit(v, 4)
        /\ bit[5] = Bit(v, 5)
        /\ bit[6] = Bit(v, 6)
        /\ bit[7] = Bit(v, 7)
    BY <1>1
  <2> QED
    BY <2>1, Zenon DEF Byte
<1>3. v \in Nat /\ v < 256
  OBVIOUS
<1> QED
  BY <1>2, <1>3, ByteOf DEF bit

LEMMA EvenOnesIs == ASSUME NEW v \in 0..255 PROVE EvenOnes[v] \in BOOLEAN
<1> DEFINE D == 0..255
           E(w) == (Bit(w, 0) + Bit(w, 1) + Bit(w, 2) + Bit(w, 3)
                    + Bit(w, 4) + Bit(w, 5) + Bit(w, 6) + Bit(w, 7)) % 2 = 0
<1>1. EvenOnes = [w \in D |-> E(w)]
  BY DEF EvenOnes
<1>2. v \in D /\ E(v) \in BOOLEAN
  OBVIOUS
<1> HIDE DEF D, E
<1> QED
  BY <1>1, <1>2

(* RRD, RLD                                                                *)
LEMMA NibblesRight ==
  ASSUME NEW i \in {"RRD", "RLD"}, NEW s \in Machine, NEW u
  PROVE  BlockEffect(i, s, u) = Executed(i, s) /\ BlockEffect(i, s, u) \in Machine
<1> DEFINE byte == s.mem[s.hl]
           r == IF i = "RRD" THEN 16 * (s.a \div 16) + (byte % 16) ELSE 16 * (s.a \div 16) + (byte \div 16)
           b == IF i = "RRD" THEN 16 * (s.a % 16) + (byte \div 16) ELSE 16 * (byte % 16) + (s.a % 16)
           g == FlagsOf(r > 127, r = 0, FALSE, EvenOnes[r], FALSE, s.fl.c)
           m == [s.mem EXCEPT ![s.hl] = b]
<1>1. byte \in 0..255 /\ s.a \in 0..255 /\ s.hl \in 0..BlkSize - 1
  BY MachineIs DEF Memories
<1>2. At(s, s.hl, u) = byte /\ s.hl < BlkSize
  BY MachineIs, Size DEF At
<1>3. BlockEffect(i, s, u) = Nibbles(s, r, b)
  <2> HIDE DEF byte
  <2>1. CASE i = "RRD"
    BY <1>2, <2>1 DEF BlockEffect, RotateRight
  <2>2. CASE i = "RLD"
    BY <1>2, <2>2 DEF BlockEffect, RotateLeft
  <2> QED
    BY <2>1, <2>2
<1>4. r \in 0..255 /\ b \in 0..255
  <2> HIDE DEF byte
  <2> DEFINE x == s.a
  <2>1. x \in 0..255 /\ byte \in 0..255
    BY <1>1
  <2> HIDE DEF x
  <2>2. /\ 16 * (x \div 16) + (byte % 16) \in 0..255
        /\ 16 * (x \div 16) + (byte \div 16) \in 0..255
        /\ 16 * (x % 16) + (byte \div 16) \in 0..255
        /\ 16 * (byte % 16) + (x % 16) \in 0..255
    BY <2>1
  <2> QED
    BY <2>2 DEF x
<1> HIDE DEF byte, r, b
<1> DEFINE x == Logic86(BitsOr(r, r))
<1>5. [LogicFlags(x, FALSE) EXCEPT !.c = s.fl.c] = g
  <2>1. Byte(BitsOr(r, r)) = r
    BY <1>4, OrItself
  <2>2. x.zf = (r = 0) /\ x.sf = (r >= 2^(8 - 1)) /\ x.pf = EvenOnes[r % 256]
    BY <2>1, Zenon DEF Logic86, X86
  <2>3. r % 256 = r /\ (r >= 2^(8 - 1)) = (r > 127)
    BY <1>4, Power7
  <2> HIDE DEF x
  <2>4. x.zf = (r = 0) /\ x.sf = (r > 127) /\ x.pf = EvenOnes[r]
    BY <2>2, <2>3
  <2>5. [LogicFlags(x, FALSE) EXCEPT !.c = s.fl.c] = FlagsOf(x.sf, x.zf, FALSE, x.pf, FALSE, s.fl.c)
    <3> DEFINE k == LogicFlags(x, FALSE)
    <3>1. /\ k.s = x.sf
          /\ k.z = x.zf
          /\ k.h = FALSE
          /\ k.p = x.pf
          /\ k.n = FALSE
      BY Zenon DEF LogicFlags
    <3>2. x.cf = FALSE /\ EvenOnes[r] \in BOOLEAN
      BY <1>4, EvenOnesIs, Zenon DEF x, Logic86, X86
    <3>3. k \in Flags
      <4>1. (r = 0) \in BOOLEAN /\ (r > 127) \in BOOLEAN
        OBVIOUS
      <4>2. x.sf \in BOOLEAN /\ x.zf \in BOOLEAN /\ x.pf \in BOOLEAN /\ x.cf \in BOOLEAN
        BY <2>4, <3>2, <4>1, Zenon
      <4> QED
        BY <4>2 DEF LogicFlags, Flags
    <3>4. s.fl.c \in BOOLEAN
      BY MachineIs, FlagsIs
    <3> HIDE DEF k
    <3>5. [k EXCEPT !.c = s.fl.c] = FlagsOf(k.s, k.z, k.h, k.p, k.n, s.fl.c)
      BY <3>3, <3>4, FlagsC
    <3> QED
      BY <3>1, <3>5, Zenon DEF k
  <2> QED
    BY <2>4, <2>5, Zenon
<1>6. Nibbles(s, r, b) = [s EXCEPT !.a = r, !.mem = m, !.fl = g]
  BY <1>2, <1>5 DEF Nibbles
<1>7. Executed(i, s) = [s EXCEPT !.a = r, !.mem = m, !.fl = g]
  <2>1. Executed(i, s) = Single(i, s)
    BY DEF Executed, Repeated
  <2>2. CASE i = "RRD"
    BY <2>1, <2>2 DEF Single, FlagsOf, byte, r, b
  <2>3. CASE i = "RLD"
    BY <2>1, <2>3 DEF Single, FlagsOf, byte, r, b
  <2> QED
    BY <2>2, <2>3
<1>8. g \in Flags
  <2>1. s.fl.c \in BOOLEAN /\ EvenOnes[r] \in BOOLEAN
    BY <1>4, MachineIs, FlagsIs, EvenOnesIs
  <2> DEFINE y == r > 127
             z == r = 0
  <2>2. y \in BOOLEAN /\ z \in BOOLEAN
    OBVIOUS
  <2> HIDE DEF y, z
  <2>3. FlagsOf(y, z, FALSE, EvenOnes[r], FALSE, s.fl.c) \in Flags
    BY <2>1, <2>2 DEF FlagsOf, Flags
  <2> QED
    BY <2>3 DEF y, z
<1>9. m \in Memories
  BY <1>1, <1>4, MachineIs DEF Memories
<1> HIDE DEF g, m
<1>10. [s EXCEPT !.a = r, !.mem = m, !.fl = g] \in Machine
  BY <1>4, <1>8, <1>9 DEF Machine
<1> QED
  BY <1>3, <1>6, <1>7, <1>10

(***************************************************************************)
(* Any instructions                                                        *)
(***************************************************************************)
Agreed == strayed \in BOOLEAN /\ (strayed \/ (cpu = z80 /\ cpu \in Machine))

LEMMA InstructionRight ==
  ASSUME NEW i \in BlockIns, NEW s \in Machine, NEW u,
         ~(i \in Repeated /\ s.bc = 0), ~(BlockEffect(i, s, u).hl >= BlkSize)
  PROVE  BlockEffect(i, s, u) = Executed(i, s) /\ BlockEffect(i, s, u) \in Machine
<1>1. CASE i \in {"LDI", "LDD"}
  BY <1>1, CopyOneRight
<1>2. CASE i \in {"LDIR", "LDDR"}
  BY <1>2, CopyAllRight DEF Repeated
<1>3. CASE i \in {"CPI", "CPD"}
  BY <1>3, CompareOneRight
<1>4. CASE i \in {"CPIR", "CPDR"}
  <2>1. BlockEffect(i, s, u).hl < BlkSize
    <3> DEFINE t == BlockEffect(i, s, u)
               d == Direction(i)
               q == Probe(s, d, Compared(s, d, u) + 1)
    <3>1. t = CompareAll(s, d, u)
      BY <1>4 DEF BlockEffect
    <3>2. t.hl = q
      BY <3>1 DEF CompareAll, Machine
    <3>3. q \in Int
      <4>1. s.bc \in 1..BlkSize - 1 /\ LoopCount(s.bc) = s.bc
        BY <1>4, MachineIs, Size DEF LoopCount, Repeated
      <4>2. s.bc \in Nat \ {0}
        BY <4>1
      <4>3. Compared(s, d, u) \in 1..s.bc
        BY <4>1, <4>2, ComparedIs
      <4> DEFINE k == Compared(s, d, u) + 1
      <4>4. k \in Int /\ d \in {-1, 1} /\ s.hl \in Int
        BY <4>1, <4>3, MachineIs, DirectionIs
      <4> HIDE DEF k, d
      <4>5. s.hl + (k - 1) * d \in Int
        BY <4>4
      <4>6. BlkWide \in Nat \ {0}
        BY Size DEF BlkWide
      <4> QED
        BY <4>5, <4>6 DEF Probe, k
    <3> HIDE DEF q, t
    <3> QED
      BY <3>2, <3>3, Size DEF t
  <2>2. s.bc # 0
    BY <1>4 DEF Repeated
  <2> QED
    BY <1>4, <2>1, <2>2, CompareAllRight
<1>5. CASE i \in {"RRD", "RLD"}
  BY <1>5, NibblesRight
<1> QED
  BY <1>1, <1>2, <1>3, <1>4, <1>5 DEF BlockIns

LEMMA BlockStep == Agreed /\ [BlockNext]_blockVars => Agreed'
<1> SUFFICES ASSUME Agreed, [BlockNext]_blockVars PROVE Agreed'
  OBVIOUS
<1>1. CASE UNCHANGED blockVars
  BY <1>1 DEF Agreed, blockVars, Machine, Memories
<1>2. CASE BlockNext
  <2>1. PICK i \in BlockIns, u \in Beside : BlockRun(i, u)
    BY <1>2 DEF BlockNext
  <2>2. strayed' \in BOOLEAN
    BY <2>1 DEF BlockRun
  <2>3. ASSUME ~strayed' PROVE cpu' = z80' /\ cpu' \in Machine
    <3>1. ~strayed /\ ~(i \in Repeated /\ cpu.bc = 0) /\ ~(cpu'.hl >= BlkSize)
      BY <2>1, <2>3 DEF BlockRun
    <3>2. cpu = z80 /\ cpu \in Machine
      BY <3>1 DEF Agreed
    <3>3. cpu' = BlockEffect(i, cpu, u) /\ z80' = Executed(i, z80)
      BY <2>1 DEF BlockRun
    <3>4. BlockEffect(i, cpu, u) = Executed(i, cpu) /\ BlockEffect(i, cpu, u) \in Machine
      <4> DEFINE c == cpu
      <4>1. c \in Machine /\ ~(i \in Repeated /\ c.bc = 0) /\ ~(BlockEffect(i, c, u).hl >= BlkSize)
        BY <3>1, <3>2, <3>3
      <4> HIDE DEF c
      <4>2. BlockEffect(i, c, u) = Executed(i, c) /\ BlockEffect(i, c, u) \in Machine
        BY <4>1, InstructionRight
      <4> QED
        BY <4>2 DEF c
    <3> QED
      BY <3>2, <3>3, <3>4
  <2> QED
    BY <2>2, <2>3 DEF Agreed
<1> QED
  BY <1>1, <1>2

(***************************************************************************)
(* Sums and differences on 8 or 16 bits                                    *)
(***************************************************************************)
LEMMA Widths ==
  ASSUME NEW w \in {8, 16}
  PROVE  /\ 2^(w - 1) \in Nat \ {0}
         /\ 2^w = 2 * 2^(w - 1)
         /\ 2^w \in Nat \ {0}
<1>1. 2^(8 - 1) = 128 /\ 2^8 = 256 /\ 2^(16 - 1) = 32768 /\ 2^16 = 65536
  BY SMT
<1> DEFINE h == 2^(w - 1)
           m == 2^w
<1>2. /\ w = 8 => h = 2^(8 - 1) /\ m = 2^8
      /\ w = 16 => h = 2^(16 - 1) /\ m = 2^16
  BY Zenon
<1> HIDE DEF h, m
<1>3. (h = 128 /\ m = 256) \/ (h = 32768 /\ m = 65536)
  BY <1>1, <1>2
<1>4. h \in Nat \ {0} /\ m = 2 * h /\ m \in Nat \ {0}
  BY <1>3
<1> QED
  BY <1>4 DEF h, m

LEMMA Modulo ==
  ASSUME NEW m \in Nat \ {0}, NEW e \in Int
  PROVE  /\ e % m \in 0..m - 1
         /\ 0 <= e /\ e < m => e % m = e
         /\ m <= e /\ e < 2 * m => e % m = e - m
         /\ -m <= e /\ e < 0 => e % m = e + m
OBVIOUS

LEMMA AddIs ==
  ASSUME NEW w \in {8, 16}, NEW a \in 0..2^w - 1, NEW b \in 0..2^w - 1, NEW k \in 0..1
  PROVE  LET x == Add86(w, a, b, k)
         IN /\ x.r = (a + b + k) % 2^w
            /\ x.r \in 0..2^w - 1
            /\ x.sf = (x.r >= 2^(w - 1))
            /\ x.zf = (x.r = 0)
            /\ x.cf = (a + b + k >= 2^w)
            /\ x.af = ((a % 16) + (b % 16) + k > 15)
            /\ x.of = ~Fits(w, Signed(w, a) + Signed(w, b) + k)
<1> DEFINE m == 2^w
           h == 2^(w - 1)
           x == Add86(w, a, b, k)
           r == (a + b + k) % m
           of == Neg(w, a) = Neg(w, b) /\ Neg(w, r) # Neg(w, a)
<1>1. /\ x.r = r
      /\ x.sf = (r >= h)
      /\ x.zf = (r = 0)
      /\ x.cf = (a + b + k >= m)
      /\ x.af = ((a % 16) + (b % 16) + k > 15)
      /\ x.of = of
  BY Zenon DEF Add86, X86
<1>2. m = 2 * h /\ h \in Nat \ {0} /\ m \in Nat \ {0}
  BY Widths
<1>3. a \in 0..m - 1 /\ b \in 0..m - 1
  OBVIOUS
<1>4. /\ Neg(w, a) = (a >= h)
      /\ Neg(w, b) = (b >= h)
      /\ Neg(w, r) = (r >= h)
  BY Zenon DEF Neg
<1>5. /\ Signed(w, a) = IF a >= h THEN a - m ELSE a
      /\ Signed(w, b) = IF b >= h THEN b - m ELSE b
  BY Zenon DEF Signed
<1> DEFINE t == Signed(w, a) + Signed(w, b) + k
<1>6. Fits(w, t) = (t \in -h..h - 1)
  BY Zenon DEF Fits
<1> HIDE DEF m, h, x
<1>7. a + b + k \in Int /\ 0 <= a + b + k /\ a + b + k < 2 * m
  BY <1>2, <1>3
<1>8. r \in 0..m - 1 /\ r = (IF a + b + k < m THEN a + b + k ELSE a + b + k - m)
  <2> DEFINE e == a + b + k
  <2>1. e \in Int /\ 0 <= e /\ e < 2 * m
    BY <1>7
  <2> HIDE DEF e
  <2>2. /\ e % m \in 0..m - 1
        /\ e < m => e % m = e
        /\ m <= e => e % m = e - m
    BY <1>2, <2>1, Modulo
  <2>3. e % m \in 0..m - 1 /\ e % m = (IF e < m THEN e ELSE e - m)
    BY <1>2, <2>1, <2>2
  <2>4. r = e % m
    BY Zenon DEF e
  <2>5. a + b + k = e
    BY Zenon DEF e
  <2> HIDE DEF r
  <2> QED
    BY <1>2, <1>3, <2>1, <2>3, <2>4, <2>5
<1> HIDE DEF r
<1>9. of = (((a >= h) = (b >= h)) /\ ((r >= h) # (a >= h)))
  BY <1>4
<1>10. of = ~(t \in -h..h - 1)
  <2>1. t = (IF a >= h THEN a - m ELSE a) + (IF b >= h THEN b - m ELSE b) + k
    BY <1>5
  <2> HIDE DEF t, of
  <2> QED
    BY <1>2, <1>3, <1>8, <1>9, <2>1
<1> HIDE DEF of, t
<1>11. x.of = ~Fits(w, t)
  BY <1>1, <1>6, <1>10
<1> QED
  BY <1>1, <1>8, <1>11, Zenon DEF x, m, h, t, r

LEMMA SubIs ==
  ASSUME NEW w \in {8, 16}, NEW a \in 0..2^w - 1, NEW b \in 0..2^w - 1, NEW k \in 0..1
  PROVE  LET x == Sub86(w, a, b, k)
         IN /\ x.r = (a - b - k) % 2^w
            /\ x.r \in 0..2^w - 1
            /\ x.sf = (x.r >= 2^(w - 1))
            /\ x.zf = (x.r = 0)
            /\ x.cf = (a < b + k)
            /\ x.af = (a % 16 < (b % 16) + k)
            /\ x.of = ~Fits(w, Signed(w, a) - Signed(w, b) - k)
            /\ (x.sf # x.of) = (Signed(w, a) < Signed(w, b) + k)
<1> DEFINE m == 2^w
           h == 2^(w - 1)
           x == Sub86(w, a, b, k)
           r == (a - b - k) % m
           of == Neg(w, a) # Neg(w, b) /\ Neg(w, r) # Neg(w, a)
           cf == a - b - k < 0
           af == (a % 16) - (b % 16) - k < 0
<1>1. /\ x.r = r
      /\ x.sf = (r >= h)
      /\ x.zf = (r = 0)
      /\ x.cf = cf
      /\ x.af = af
      /\ x.of = of
  BY Zenon DEF Sub86, X86
<1>2. m = 2 * h /\ h \in Nat \ {0} /\ m \in Nat \ {0}
  BY Widths
<1>3. a \in 0..m - 1 /\ b \in 0..m - 1
  OBVIOUS
<1>4. /\ Neg(w, a) = (a >= h)
      /\ Neg(w, b) = (b >= h)
      /\ Neg(w, r) = (r >= h)
  BY Zenon DEF Neg
<1> DEFINE sa == Signed(w, a)
           sb == Signed(w, b)
           t == sa - sb - k
<1>5. /\ sa = IF a >= h THEN a - m ELSE a
      /\ sb = IF b >= h THEN b - m ELSE b
  BY Zenon DEF Signed
<1>6. Fits(w, t) = (t \in -h..h - 1)
  BY Zenon DEF Fits
<1> HIDE DEF m, h, x
<1>7. a - b - k \in Int /\ -m <= a - b - k /\ a - b - k < m
  BY <1>2, <1>3
<1>8. r \in 0..m - 1 /\ r = (IF a - b - k < 0 THEN a - b - k + m ELSE a - b - k)
  <2> DEFINE e == a - b - k
  <2>1. e \in Int /\ -m <= e /\ e < m
    BY <1>7
  <2> HIDE DEF e
  <2>2. /\ e % m \in 0..m - 1
        /\ 0 <= e => e % m = e
        /\ e < 0 => e % m = e + m
    BY <1>2, <2>1, Modulo
  <2>3. e % m \in 0..m - 1 /\ e % m = (IF e < 0 THEN e + m ELSE e)
    BY <1>2, <2>1, <2>2
  <2> QED
    BY <2>3 DEF e
<1>9. cf = (a < b + k)
  BY <1>2, <1>3
<1>10. af = (a % 16 < (b % 16) + k)
  <2> DEFINE a0 == a % 16
             b0 == b % 16
  <2>1. a0 \in Int /\ b0 \in Int
    BY <1>2, <1>3
  <2> HIDE DEF a0, b0
  <2>2. (a0 - b0 - k < 0) = (a0 < b0 + k)
    BY <2>1
  <2> QED
    BY <2>2 DEF a0, b0
<1> HIDE DEF r, sa, sb
<1>11. of = (((a >= h) # (b >= h)) /\ ((r >= h) # (a >= h)))
  BY <1>4
<1>12. of = ~(t \in -h..h - 1)
  <2> HIDE DEF of
  <2> QED
    BY <1>2, <1>3, <1>5, <1>8, <1>11
<1>13. ((r >= h) # of) = (sa < sb + k)
  <2> HIDE DEF of
  <2> QED
    BY <1>2, <1>3, <1>5, <1>8, <1>11
<1> HIDE DEF of, t, cf, af
<1>14. x.of = ~Fits(w, t)
  BY <1>1, <1>6, <1>12
<1>15. (x.sf # x.of) = (sa < sb + k)
  BY <1>1, <1>13, Zenon
<1> QED
  BY <1>1, <1>8, <1>9, <1>10, <1>14, <1>15, Zenon DEF x, m, h, t, r, sa, sb

(* Sums and differences, the register and F being what the x86 gave.       *)
LEMMA SumGives ==
  ASSUME NEW w \in {8, 16}, NEW a \in 0..2^w - 1, NEW b \in 0..2^w - 1, NEW k \in 0..1,
         reg = Add86(w, a, b, k).r, f = ArithFlags(Add86(w, a, b, k), FALSE)
  PROVE  SumRight(w, a, b, k) /\ LowNibble(a, b, k) /\ reg \in 0..2^w - 1
<1> DEFINE x == Add86(w, a, b, k)
           fit == Fits(w, Signed(w, a) + Signed(w, b) + k)
           m == 2^w
           h == 2^(w - 1)
           e == a + b + k
           lo == (a % 16) + (b % 16) + k > 15
<1>1. /\ x.r = e % m
      /\ x.r \in 0..m - 1
      /\ x.sf = (x.r >= h)
      /\ x.zf = (x.r = 0)
      /\ x.cf = (e >= m)
      /\ x.af = lo
      /\ x.of = ~fit
  BY AddIs
<1>2. /\ f.s = x.sf
      /\ f.z = x.zf
      /\ f.h = x.af
      /\ f.p = x.of
      /\ f.n = FALSE
      /\ f.c = x.cf
  BY Zenon DEF ArithFlags
<1>3. reg = x.r
  OBVIOUS
<1> HIDE DEF x, fit, m, h, e, lo
<1>4. /\ f.s = (reg >= h)
      /\ f.z = (reg = 0)
      /\ f.h = lo
      /\ f.p = ~fit
      /\ ~f.n
      /\ f.c = (e >= m)
      /\ reg = e % m
      /\ reg \in 0..m - 1
  BY <1>1, <1>2, <1>3, Zenon
<1> QED
  BY <1>4, Zenon DEF SumRight, LowNibble, Holds, fit, m, h, e, lo

LEMMA DifferenceGives ==
  ASSUME NEW w \in {8, 16}, NEW a \in 0..2^w - 1, NEW b \in 0..2^w - 1, NEW k \in 0..1, NEW result,
         f = ArithFlags(Sub86(w, a, b, k), TRUE), result % 2^w = (a - b - k) % 2^w
  PROVE  DifferenceRight(w, a, b, k, result) /\ Borrow(a, b, k)
<1> DEFINE x == Sub86(w, a, b, k)
           fit == Fits(w, Signed(w, a) - Signed(w, b) - k)
           less == Signed(w, a) < Signed(w, b) + k
           m == 2^w
           e == a - b - k
           lo == a % 16 < (b % 16) + k
           c == a < b + k
<1>1. /\ x.r = e % m
      /\ x.zf = (x.r = 0)
      /\ x.cf = c
      /\ x.af = lo
      /\ x.of = ~fit
      /\ (x.sf # x.of) = less
  BY SubIs
<1>2. /\ f.s = x.sf
      /\ f.z = x.zf
      /\ f.h = x.af
      /\ f.p = x.of
      /\ f.n = TRUE
      /\ f.c = x.cf
  BY Zenon DEF ArithFlags
<1>3. result % m = e % m
  OBVIOUS
<1> HIDE DEF x, fit, less, m, e, lo, c
<1>4. /\ result % m = e % m
      /\ f.z = (result % m = 0)
      /\ f.n
      /\ f.c = c
      /\ (f.s # f.p) = less
      /\ f.p = ~fit
      /\ f.h = lo
  BY <1>1, <1>2, <1>3, Zenon
<1> QED
  BY <1>4, Zenon DEF DifferenceRight, Borrow, fit, less, m, e, lo, c

(* An instruction has been executed.                                       *)
Every == Binary \cup Unary \cup Wide
Carry == Uses({"ADC", "SBC", "ADC16", "SBC16"})

Typed ==
  /\ ins \in Every
  /\ old = With(old.reg, old.f)
  /\ old.f \in Flags
  /\ ins \in Binary => old.reg \in Octet /\ op2 \in Octet
  /\ ins \in Unary => old.reg \in Octet /\ op2 = 0
  /\ ins \in Wide => old.reg \in Pair /\ op2 \in Pair

After == Effect(ins, old.reg, old.f, op2)
Done == Typed /\ reg = After.reg /\ f = After.f

LEMMA Pow == 2^8 = 256 /\ 2^(8 - 1) = 128 /\ 2^16 = 65536 /\ 2^(16 - 1) = 32768
  BY SMT

LEMMA CarryIs ==
  ASSUME Typed
  PROVE  /\ Carry \in 0..1
         /\ ins \in {"ADC", "SBC", "ADC16", "SBC16"} => Carry = Num(old.f.c)
         /\ ins \notin {"ADC", "SBC", "ADC16", "SBC16"} => Carry = 0
BY DEF Carry, Uses, Num

LEMMA OctetIs == \A v \in Octet : v \in Nat /\ v < 256
<1> DEFINE top == 255
<1>1. Octet = 0..top
  BY DEF Octet
<1>2. top \in Nat /\ top < 256
  OBVIOUS
<1> HIDE DEF top
<1> QED
  BY <1>1, <1>2

LEMMA PairIs == \A v \in Pair : v \in Nat /\ v < 65536
<1> DEFINE top == 65535
<1>1. Pair = 0..top
  BY DEF Pair
<1>2. top \in Nat /\ top < 65536
  OBVIOUS
<1> HIDE DEF top
<1> QED
  BY <1>1, <1>2

LEMMA BinaryHas ==
  ASSUME Done, ins \in Binary
  PROVE  old.reg \in Nat /\ old.reg < 256 /\ op2 \in Nat /\ op2 < 256 /\ old.f \in Flags
<1>1. old.reg \in Octet /\ op2 \in Octet /\ old.f \in Flags
  BY Zenon DEF Done, Typed
<1> QED
  BY <1>1, OctetIs

LEMMA UnaryHas ==
  ASSUME Done, ins \in Unary
  PROVE  old.reg \in Nat /\ old.reg < 256 /\ op2 = 0 /\ old.f \in Flags
<1>1. old.reg \in Octet /\ op2 = 0 /\ old.f \in Flags
  BY Zenon DEF Done, Typed
<1> QED
  BY <1>1, OctetIs

LEMMA WideHas ==
  ASSUME Done, ins \in Wide
  PROVE  old.reg \in Nat /\ old.reg < 65536 /\ op2 \in Nat /\ op2 < 65536 /\ old.f \in Flags
<1>1. old.reg \in Pair /\ op2 \in Pair /\ old.f \in Flags
  BY Zenon DEF Done, Typed
<1> QED
  BY <1>1, PairIs

LEMMA AddRight ==
  ASSUME Done, ins \in {"ADD", "ADC"}
  PROVE  SumRight(8, old.reg, op2, Carry) /\ LowNibble(old.reg, op2, Carry) /\ reg \in Nat /\ reg < 256
<1> DEFINE a == old.reg
           b == op2
           k == Carry
           x == Add86(8, a, b, k)
<1>1. a \in Nat /\ a < 256 /\ b \in Nat /\ b < 256
  <2>1. ins \in Binary
    BY DEF Binary
  <2> QED
    BY <2>1, BinaryHas
<1>2. k \in 0..1
  BY CarryIs DEF Done
<1>3. After = With(x.r, ArithFlags(x, FALSE))
  <2>1. CASE ins = "ADD"
    <3>1. k = 0
      BY <2>1, CarryIs DEF Done
    <3> QED
      BY <2>1, <3>1 DEF After, Effect, Add
  <2>2. CASE ins = "ADC"
    <3>1. k = Num(old.f.c)
      BY <2>2, CarryIs DEF Done
    <3> QED
      BY <2>2, <3>1 DEF After, Effect, Adc
  <2> QED
    BY <2>1, <2>2
<1>4. reg = x.r /\ f = ArithFlags(x, FALSE)
  BY <1>3, Zenon DEF Done, With
<1>5. a \in 0..2^8 - 1 /\ b \in 0..2^8 - 1
  BY <1>1, Pow
<1>6. SumRight(8, a, b, k) /\ LowNibble(a, b, k) /\ reg \in 0..2^8 - 1
  <2> HIDE DEF a, b, k
  <2> QED
    BY <1>2, <1>4, <1>5, SumGives DEF x
<1> QED
  BY <1>6, Pow

LEMMA SubRight ==
  ASSUME Done, ins \in {"SUB", "SBC"}
  PROVE  DifferenceRight(8, old.reg, op2, Carry, reg) /\ Borrow(old.reg, op2, Carry) /\ reg \in Nat /\ reg < 256
<1> DEFINE a == old.reg
           b == op2
           k == Carry
           x == Sub86(8, a, b, k)
<1>1. a \in Nat /\ a < 256 /\ b \in Nat /\ b < 256
  <2>1. ins \in Binary
    BY DEF Binary
  <2> QED
    BY <2>1, BinaryHas
<1>2. k \in 0..1
  BY CarryIs DEF Done
<1>3. After = With(x.r, ArithFlags(x, TRUE))
  <2>1. CASE ins = "SUB"
    <3>1. k = 0
      BY <2>1, CarryIs DEF Done
    <3> QED
      BY <2>1, <3>1 DEF After, Effect, Sub
  <2>2. CASE ins = "SBC"
    <3>1. k = Num(old.f.c)
      BY <2>2, CarryIs DEF Done
    <3> QED
      BY <2>2, <3>1 DEF After, Effect, Sbc
  <2> QED
    BY <2>1, <2>2
<1>4. reg = x.r /\ f = ArithFlags(x, TRUE)
  BY <1>3, Zenon DEF Done, With
<1>5. a \in 0..2^8 - 1 /\ b \in 0..2^8 - 1
  BY <1>1, Pow
<1> HIDE DEF a, b, k
<1>6. x.r = (a - b - k) % 2^8 /\ x.r \in 0..2^8 - 1
  BY <1>2, <1>5, SubIs
<1> HIDE DEF x
<1>7. reg \in Nat /\ reg < 256 /\ reg % 2^8 = (a - b - k) % 2^8
  BY <1>4, <1>6, Pow
<1>8. DifferenceRight(8, a, b, k, reg) /\ Borrow(a, b, k)
  BY <1>2, <1>4, <1>5, <1>7, DifferenceGives DEF x
<1> QED
  BY <1>7, <1>8 DEF a, b, k

LEMMA CpRight ==
  ASSUME Done, ins = "CP"
  PROVE  DifferenceRight(8, old.reg, op2, 0, old.reg - op2) /\ Borrow(old.reg, op2, 0) /\ reg = old.reg
<1> DEFINE a == old.reg
           b == op2
           x == Sub86(8, a, b, 0)
<1>1. a \in Nat /\ a < 256 /\ b \in Nat /\ b < 256
  <2>1. ins \in Binary
    BY DEF Binary
  <2> QED
    BY <2>1, BinaryHas
<1>2. After = With(a, ArithFlags(x, TRUE))
  BY DEF After, Effect, Cp
<1>3. reg = a /\ f = ArithFlags(x, TRUE)
  BY <1>2, Zenon DEF Done, With
<1>4. a \in 0..2^8 - 1 /\ b \in 0..2^8 - 1
  BY <1>1, Pow
<1> HIDE DEF a, b
<1>5. (a - b) % 2^8 = (a - b - 0) % 2^8 /\ 0 \in 0..1
  BY <1>1, Pow
<1>6. DifferenceRight(8, a, b, 0, a - b) /\ Borrow(a, b, 0)
  BY <1>3, <1>4, <1>5, DifferenceGives DEF x
<1> QED
  BY <1>3, <1>6 DEF a, b

LEMMA NegRight ==
  ASSUME Done, ins = "NEG"
  PROVE  DifferenceRight(8, 0, old.reg, 0, reg) /\ Borrow(0, old.reg, 0) /\ reg \in Nat /\ reg < 256
<1> DEFINE a == old.reg
           x == Sub86(8, 0, a, 0)
<1>1. a \in Nat /\ a < 256
  <2>1. ins \in Unary
    BY DEF Unary
  <2> QED
    BY <2>1, UnaryHas
<1>2. After = With(x.r, ArithFlags(x, TRUE))
  BY DEF After, Effect, NegA
<1>3. reg = x.r /\ f = ArithFlags(x, TRUE)
  BY <1>2, Zenon DEF Done, With
<1>4. a \in 0..2^8 - 1 /\ 0 \in 0..2^8 - 1 /\ 0 \in 0..1
  BY <1>1, Pow
<1> HIDE DEF a
<1>5. x.r = (0 - a - 0) % 2^8 /\ x.r \in 0..2^8 - 1
  BY <1>4, SubIs
<1> HIDE DEF x
<1>6. reg \in Nat /\ reg < 256 /\ reg % 2^8 = (0 - a - 0) % 2^8
  BY <1>3, <1>5, Pow
<1>7. DifferenceRight(8, 0, a, 0, reg) /\ Borrow(0, a, 0)
  BY <1>3, <1>4, <1>6, DifferenceGives DEF x
<1> QED
  BY <1>6, <1>7 DEF a

(* INC and DEC keep C.                                                     *)
LEMMA IncRight ==
  ASSUME Done, ins = "INC"
  PROVE  /\ Holds(8, old.reg + 1) /\ f.p = (old.reg = 127) /\ LowNibble(old.reg, 1, 0)
         /\ ~f.n /\ Kept({"c"}) /\ reg \in Nat /\ reg < 256
<1> DEFINE a == old.reg
           x == Add86(8, a, 1, 0)
           y == [x EXCEPT !.cf = old.f.c]
<1>1. a \in Nat /\ a < 256
  <2>1. ins \in Unary
    BY DEF Unary
  <2> QED
    BY <2>1, UnaryHas
<1>2. After = With(y.r, ArithFlags(y, FALSE))
  <2>1. After = LET z == Add86(8, a, 1, 0) IN With(z.r, ArithFlags([z EXCEPT !.cf = old.f.c], FALSE))
    BY DEF After, Effect, Inc
  <2>2. y.r = x.r
    BY DEF Add86, X86
  <2> QED
    BY <2>1, <2>2, Zenon
<1>3. reg = y.r /\ f = ArithFlags(y, FALSE)
  BY <1>2, Zenon DEF Done, With
<1>4. a \in 0..2^8 - 1 /\ 1 \in 0..2^8 - 1 /\ 0 \in 0..1
  BY <1>1, Pow
<1>5. /\ x.r = (a + 1 + 0) % 2^8
      /\ x.r \in 0..2^8 - 1
      /\ x.sf = (x.r >= 2^(8 - 1))
      /\ x.zf = (x.r = 0)
      /\ x.af = ((a % 16) + (1 % 16) + 0 > 15)
      /\ x.of = ~Fits(8, Signed(8, a) + Signed(8, 1) + 0)
  <2> HIDE DEF a
  <2> QED
    BY <1>4, AddIs
<1>6. /\ y.r = x.r
      /\ y.sf = x.sf
      /\ y.zf = x.zf
      /\ y.af = x.af
      /\ y.of = x.of
      /\ y.cf = old.f.c
  BY DEF Add86, X86
<1>7. /\ f.s = y.sf
      /\ f.z = y.zf
      /\ f.h = y.af
      /\ f.p = y.of
      /\ f.n = FALSE
      /\ f.c = y.cf
  BY <1>3, Zenon DEF ArithFlags
<1> HIDE DEF x, y, a
<1>8. Fits(8, Signed(8, a) + Signed(8, 1) + 0) = (a # 127)
  BY <1>1, Pow DEF Fits, Signed
<1>9. Holds(8, a + 1)
  <2>1. (a + 1 + 0) % 2^8 = (a + 1) % 2^8
    BY <1>1
  <2> QED
    BY <1>3, <1>5, <1>6, <1>7, <2>1, Zenon DEF Holds
<1>10. f.p = (a = 127)
  BY <1>5, <1>6, <1>7, <1>8
<1>11. LowNibble(a, 1, 0)
  BY <1>5, <1>6, <1>7, Zenon DEF LowNibble
<1>12. Kept({"c"})
  BY <1>6, <1>7 DEF Kept
<1>13. reg \in Nat /\ reg < 256
  BY <1>3, <1>5, <1>6, Pow
<1> QED
  BY <1>7, <1>9, <1>10, <1>11, <1>12, <1>13 DEF a

LEMMA DecRight ==
  ASSUME Done, ins = "DEC"
  PROVE  /\ Holds(8, old.reg - 1) /\ f.p = (old.reg = 128) /\ Borrow(old.reg, 1, 0)
         /\ f.n /\ Kept({"c"}) /\ reg \in Nat /\ reg < 256
<1> DEFINE a == old.reg
           x == Sub86(8, a, 1, 0)
           y == [x EXCEPT !.cf = old.f.c]
<1>1. a \in Nat /\ a < 256
  <2>1. ins \in Unary
    BY DEF Unary
  <2> QED
    BY <2>1, UnaryHas
<1>2. After = With(y.r, ArithFlags(y, TRUE))
  <2>1. After = LET z == Sub86(8, a, 1, 0) IN With(z.r, ArithFlags([z EXCEPT !.cf = old.f.c], TRUE))
    BY DEF After, Effect, Dec
  <2>2. y.r = x.r
    BY DEF Sub86, X86
  <2> QED
    BY <2>1, <2>2, Zenon
<1>3. reg = y.r /\ f = ArithFlags(y, TRUE)
  BY <1>2, Zenon DEF Done, With
<1>4. a \in 0..2^8 - 1 /\ 1 \in 0..2^8 - 1 /\ 0 \in 0..1
  BY <1>1, Pow
<1>5. /\ x.r = (a - 1 - 0) % 2^8
      /\ x.r \in 0..2^8 - 1
      /\ x.sf = (x.r >= 2^(8 - 1))
      /\ x.zf = (x.r = 0)
      /\ x.af = (a % 16 < (1 % 16) + 0)
      /\ x.of = ~Fits(8, Signed(8, a) - Signed(8, 1) - 0)
  <2> HIDE DEF a
  <2> QED
    BY <1>4, SubIs
<1>6. /\ y.r = x.r
      /\ y.sf = x.sf
      /\ y.zf = x.zf
      /\ y.af = x.af
      /\ y.of = x.of
      /\ y.cf = old.f.c
  BY DEF Sub86, X86
<1>7. /\ f.s = y.sf
      /\ f.z = y.zf
      /\ f.h = y.af
      /\ f.p = y.of
      /\ f.n = TRUE
      /\ f.c = y.cf
  BY <1>3, Zenon DEF ArithFlags
<1> HIDE DEF x, y, a
<1>8. Fits(8, Signed(8, a) - Signed(8, 1) - 0) = (a # 128)
  BY <1>1, Pow DEF Fits, Signed
<1>9. Holds(8, a - 1)
  <2>1. (a - 1 - 0) % 2^8 = (a - 1) % 2^8
    BY <1>1
  <2> QED
    BY <1>3, <1>5, <1>6, <1>7, <2>1, Zenon DEF Holds
<1>10. f.p = (a = 128)
  BY <1>5, <1>6, <1>7, <1>8
<1>11. Borrow(a, 1, 0)
  BY <1>5, <1>6, <1>7, Zenon DEF Borrow
<1>12. Kept({"c"})
  BY <1>6, <1>7 DEF Kept
<1>13. reg \in Nat /\ reg < 256
  BY <1>3, <1>5, <1>6, Pow
<1> QED
  BY <1>7, <1>9, <1>10, <1>11, <1>12, <1>13 DEF a

(***************************************************************************)
(* Logic, shifts and bits                                                  *)
(***************************************************************************)
IsByte(v) == v \in Nat /\ v < 256

LEMMA X86Is ==
  ASSUME NEW r, IsByte(r), NEW c, NEW h, NEW o
  PROVE  LET x == X86(8, r, c, h, o)
         IN /\ x.r = r
            /\ x.sf = (r >= 2^(8 - 1))
            /\ x.zf = (r = 0)
            /\ x.pf = EvenOnes[r]
            /\ x.cf = c
            /\ x.af = h
            /\ r = r % 2^8
<1>1. r % 256 = r
  BY DEF IsByte
<1>2. r = r % 2^8
  BY <1>1, Pow
<1> DEFINE x == X86(8, r, c, h, o)
<1>3. /\ x.r = r
      /\ x.sf = (r >= 2^(8 - 1))
      /\ x.zf = (r = 0)
      /\ x.pf = EvenOnes[r % 256]
      /\ x.cf = c
      /\ x.af = h
  BY Zenon DEF X86
<1> HIDE DEF x
<1> QED
  BY <1>1, <1>2, <1>3, Zenon DEF x

LEMMA LogicGives ==
  ASSUME NEW bit, NEW h \in BOOLEAN, \A k \in 0..7 : bit[k] \in 0..1,
         reg = Logic86(bit).r, f = LogicFlags(Logic86(bit), h)
  PROVE  Holds(8, reg) /\ f.p = EvenOnes[reg] /\ ~f.c /\ ~f.n /\ f.h = h
<1> DEFINE r == Byte(bit)
           no == FALSE
           x == X86(8, r, no, no, no)
<1>1. r \in Nat /\ r < 256
  <2> DEFINE b0 == bit[0]
             b1 == bit[1]
             b2 == bit[2]
             b3 == bit[3]
             b4 == bit[4]
             b5 == bit[5]
             b6 == bit[6]
             b7 == bit[7]
  <2>1. b0 \in 0..1 /\ b1 \in 0..1 /\ b2 \in 0..1 /\ b3 \in 0..1 /\ b4 \in 0..1 /\ b5 \in 0..1 /\ b6 \in 0..1 /\ b7 \in 0..1
    OBVIOUS
  <2>2. r = b0 + 2 * b1 + 4 * b2 + 8 * b3 + 16 * b4 + 32 * b5 + 64 * b6 + 128 * b7
    BY Zenon DEF Byte
  <2> HIDE DEF r, b0, b1, b2, b3, b4, b5, b6, b7
  <2> QED
    BY <2>1, <2>2
<1>2. Logic86(bit) = x
  BY DEF Logic86
<1> HIDE DEF r
<1>3. /\ x.r = r
      /\ x.sf = (r >= 2^(8 - 1))
      /\ x.zf = (r = 0)
      /\ x.pf = EvenOnes[r]
      /\ x.cf = no
      /\ r = r % 2^8
  <2>1. IsByte(r)
    BY <1>1 DEF IsByte
  <2> HIDE DEF no
  <2> QED
    BY <2>1, X86Is
<1> HIDE DEF x
<1>4. /\ f.s = x.sf
      /\ f.z = x.zf
      /\ f.h = h
      /\ f.p = x.pf
      /\ f.n = FALSE
      /\ f.c = x.cf
  BY <1>2, Zenon DEF LogicFlags
<1>5. reg = r
  BY <1>2, <1>3
<1> QED
  BY <1>3, <1>4, <1>5, Zenon DEF Holds

LEMMA AndBits == ASSUME NEW a \in Nat, NEW b \in Nat PROVE \A k \in 0..7 : BitsAnd(a, b)[k] \in 0..1
<1> TAKE k \in 0..7
<1> DEFINE x == Bit(a, k)
           y == Bit(b, k)
<1>1. x \in 0..1 /\ y \in 0..1
  BY BitIs
<1>2. BitsAnd(a, b)[k] = x * y
  BY DEF BitsAnd
<1> HIDE DEF x, y
<1>3. (x = 0 \/ x = 1) /\ y \in 0..1
  BY <1>1
<1>4. x * y \in 0..1
  BY <1>3
<1> QED
  BY <1>2, <1>4

LEMMA OrBits == ASSUME NEW a \in Nat, NEW b \in Nat PROVE \A k \in 0..7 : BitsOr(a, b)[k] \in 0..1
<1> TAKE k \in 0..7
<1> DEFINE x == Bit(a, k)
           y == Bit(b, k)
<1>1. x \in 0..1 /\ y \in 0..1
  BY BitIs
<1>2. BitsOr(a, b)[k] = x + y - x * y
  BY DEF BitsOr
<1> HIDE DEF x, y
<1>3. (x = 0 \/ x = 1) /\ (y = 0 \/ y = 1)
  BY <1>1
<1>4. x + y - x * y \in 0..1
  BY <1>3
<1> QED
  BY <1>2, <1>4

LEMMA XorBits == ASSUME NEW a \in Nat, NEW b \in Nat PROVE \A k \in 0..7 : BitsXor(a, b)[k] \in 0..1
<1> TAKE k \in 0..7
<1> DEFINE x == Bit(a, k)
           y == Bit(b, k)
<1>1. x \in 0..1 /\ y \in 0..1
  BY BitIs
<1>2. BitsXor(a, b)[k] = (x + y) % 2
  BY DEF BitsXor
<1> HIDE DEF x, y
<1>3. (x + y) % 2 \in 0..1
  BY <1>1
<1> QED
  BY <1>2, <1>3

LEMMA LogicRight ==
  ASSUME Done, ins \in {"AND", "OR", "XOR"}
  PROVE  Holds(8, reg) /\ f.p = EvenOnes[reg] /\ ~f.c /\ ~f.n /\ f.h = (ins = "AND")
<1> DEFINE a == old.reg
           b == op2
<1>1. a \in Nat /\ b \in Nat
  <2>1. ins \in Binary
    BY DEF Binary
  <2> QED
    BY <2>1, BinaryHas
<1>2. CASE ins = "AND"
  <2> DEFINE bit == BitsAnd(a, b)
             x == Logic86(bit)
  <2>1. After = With(x.r, LogicFlags(x, TRUE))
    BY <1>2 DEF After, Effect, And
  <2>2. reg = x.r /\ f = LogicFlags(x, TRUE)
    BY <2>1, Zenon DEF Done, With
  <2>3. \A k \in 0..7 : bit[k] \in 0..1
    BY <1>1, AndBits
  <2> HIDE DEF bit, a, b
  <2>4. Holds(8, reg) /\ f.p = EvenOnes[reg] /\ ~f.c /\ ~f.n /\ f.h = TRUE
    BY <2>2, <2>3, LogicGives
  <2> QED
    BY <1>2, <2>4, Zenon
<1>3. CASE ins = "OR"
  <2> DEFINE bit == BitsOr(a, b)
             x == Logic86(bit)
  <2>1. After = With(x.r, LogicFlags(x, FALSE))
    BY <1>3 DEF After, Effect, Or
  <2>2. reg = x.r /\ f = LogicFlags(x, FALSE)
    BY <2>1, Zenon DEF Done, With
  <2>3. \A k \in 0..7 : bit[k] \in 0..1
    BY <1>1, OrBits
  <2> HIDE DEF bit, a, b
  <2>4. Holds(8, reg) /\ f.p = EvenOnes[reg] /\ ~f.c /\ ~f.n /\ f.h = FALSE
    BY <2>2, <2>3, LogicGives
  <2>5. (ins = "AND") = FALSE
    BY <1>3
  <2> QED
    BY <2>4, <2>5, Zenon
<1>4. CASE ins = "XOR"
  <2> DEFINE bit == BitsXor(a, b)
             x == Logic86(bit)
  <2>1. After = With(x.r, LogicFlags(x, FALSE))
    BY <1>4 DEF After, Effect, Xor
  <2>2. reg = x.r /\ f = LogicFlags(x, FALSE)
    BY <2>1, Zenon DEF Done, With
  <2>3. \A k \in 0..7 : bit[k] \in 0..1
    BY <1>1, XorBits
  <2> HIDE DEF bit, a, b
  <2>4. Holds(8, reg) /\ f.p = EvenOnes[reg] /\ ~f.c /\ ~f.n /\ f.h = FALSE
    BY <2>2, <2>3, LogicGives
  <2>5. (ins = "AND") = FALSE
    BY <1>4
  <2> QED
    BY <2>4, <2>5, Zenon
<1> QED
  BY <1>2, <1>3, <1>4

LEMMA TstRight ==
  ASSUME Done, ins = "TST"
  PROVE  reg = old.reg /\ ~f.c /\ f.h /\ ~f.n
<1> DEFINE x == Logic86(BitsAnd(old.reg, op2))
<1>1. After = With(old.reg, LogicFlags(x, TRUE))
  BY DEF After, Effect, Tst
<1>2. reg = old.reg /\ f = LogicFlags(x, TRUE)
  BY <1>1, Zenon DEF Done, With
<1>3. x.cf = FALSE
  BY Zenon DEF Logic86, X86
<1> HIDE DEF x
<1> QED
  BY <1>2, <1>3, Zenon DEF LogicFlags

(* Shifts and rotations, in coming in.                                     *)
LEMMA LeftGives ==
  ASSUME NEW a \in Nat, a < 256, NEW in \in 0..1
  PROVE  LET x == Left86(a, in)
         IN /\ x = X86(8, x.r, x.cf, FALSE, FALSE)
            /\ x.r \in Nat /\ x.r < 256
            /\ x.r + 256 * Num(x.cf) = 2 * a + in
<1> DEFINE r == ((2 * a) % 256) + in
           c == a > 127
           x == Left86(a, in)
<1>1. x = X86(8, r, c, FALSE, FALSE)
  BY DEF Left86
<1>2. x.r = r /\ x.cf = c
  <2> HIDE DEF r, c, x
  <2> QED
    BY <1>1, Zenon DEF X86
<1>3. r \in Nat /\ r < 256
  OBVIOUS
<1>4. r + 256 * (IF a > 127 THEN 1 ELSE 0) = 2 * a + in
  OBVIOUS
<1>5. Num(x.cf) = IF a > 127 THEN 1 ELSE 0
  <2> HIDE DEF c, x
  <2>1. Num(x.cf) = IF c THEN 1 ELSE 0
    BY <1>2, Zenon DEF Num
  <2> QED
    BY <2>1 DEF c
<1> HIDE DEF r, x, c
<1>6. x = X86(8, x.r, x.cf, FALSE, FALSE)
  BY <1>1, <1>2, Zenon
<1> QED
  BY <1>2, <1>3, <1>4, <1>5, <1>6 DEF x

LEMMA RightGives ==
  ASSUME NEW a \in Nat, a < 256, NEW in \in 0..1
  PROVE  LET x == Right86(a, in)
         IN /\ x = X86(8, x.r, x.cf, FALSE, FALSE)
            /\ x.r \in Nat /\ x.r < 256
            /\ 2 * x.r + Num(x.cf) = a + 256 * in
<1> DEFINE r == (a \div 2) + 128 * in
           c == a % 2 = 1
           x == Right86(a, in)
<1>1. x = X86(8, r, c, FALSE, FALSE)
  BY DEF Right86
<1>2. x.r = r /\ x.cf = c
  <2> HIDE DEF r, c, x
  <2> QED
    BY <1>1, Zenon DEF X86
<1>3. r \in Nat /\ r < 256
  OBVIOUS
<1>4. 2 * r + (IF a % 2 = 1 THEN 1 ELSE 0) = a + 256 * in
  OBVIOUS
<1>5. Num(x.cf) = IF a % 2 = 1 THEN 1 ELSE 0
  <2> HIDE DEF c, x
  <2>1. Num(x.cf) = IF c THEN 1 ELSE 0
    BY <1>2, Zenon DEF Num
  <2> QED
    BY <2>1 DEF c
<1> HIDE DEF r, x, c
<1>6. x = X86(8, x.r, x.cf, FALSE, FALSE)
  BY <1>1, <1>2, Zenon
<1> QED
  BY <1>2, <1>3, <1>4, <1>5, <1>6 DEF x

LEMMA ShiftGives ==
  ASSUME NEW x, x = X86(8, x.r, x.cf, FALSE, FALSE), x.r \in Nat, x.r < 256,
         reg = x.r, f = LogicFlags(x, FALSE)
  PROVE  ShiftFlags /\ f.c = x.cf
<1> DEFINE r == x.r
           c == x.cf
           no == FALSE
           y == X86(8, r, c, no, no)
<1>1. r \in Nat /\ r < 256 /\ x = y
  OBVIOUS
<1> HIDE DEF r, c
<1>2. /\ y.r = r
      /\ y.sf = (r >= 2^(8 - 1))
      /\ y.zf = (r = 0)
      /\ y.pf = EvenOnes[r]
      /\ r = r % 2^8
  <2>1. IsByte(r)
    BY <1>1 DEF IsByte
  <2> HIDE DEF no
  <2> QED
    BY <2>1, X86Is
<1> HIDE DEF y
<1>3. /\ f.s = x.sf
      /\ f.z = x.zf
      /\ f.h = FALSE
      /\ f.p = x.pf
      /\ f.n = FALSE
      /\ f.c = x.cf
  BY Zenon DEF LogicFlags
<1>4. reg = r
  BY <1>1, <1>2
<1> QED
  BY <1>1, <1>2, <1>3, <1>4, Zenon DEF ShiftFlags, Holds, ClearHN

LEMMA IncomingIs ==
  ASSUME Done, ins \in Unary
  PROVE  /\ ins \in {"RL", "RLA", "RR", "RRA"} => Incoming(old.reg) = Num(old.f.c)
         /\ ins \in {"RLC", "RLCA", "SRA"} => Incoming(old.reg) = Bit(old.reg, 7)
         /\ ins \in {"RRC", "RRCA"} => Incoming(old.reg) = Bit(old.reg, 0)
         /\ ins \in {"SLA", "SRL"} => Incoming(old.reg) = 0
         /\ ins = "SL1" => Incoming(old.reg) = 1
         /\ Num(old.f.c) \in 0..1 /\ Bit(old.reg, 7) \in 0..1 /\ Bit(old.reg, 0) \in 0..1
<1> DEFINE a == old.reg
<1>1. a \in Nat /\ a < 256
  BY UnaryHas
<1> HIDE DEF a
<1>2. Bit(a, 7) = a \div 128 /\ Bit(a, 0) = a % 2
  <2>1. (a \div 128) % 2 = a \div 128
    BY <1>1
  <2>2. Bit(a, 7) = (a \div 128) % 2 /\ Bit(a, 0) = a % 2
    BY <1>1, BitsOf
  <2> QED
    BY <2>1, <2>2
<1>3. Bit(a, 7) \in 0..1 /\ Bit(a, 0) \in 0..1
  BY <1>1, BitIs
<1> DEFINE x == a \div 128
           y == a % 2
           n == Num(old.f.c)
<1>4. Incoming(a) = CASE ins \in {"RL", "RLA", "RR", "RRA"} -> n
                      [] ins \in {"RLC", "RLCA", "SRA"} -> x
                      [] ins \in {"RRC", "RRCA"} -> y
                      [] ins \in {"SLA", "SRL"} -> 0
                      [] ins = "SL1" -> 1
  BY Zenon DEF Incoming
<1>5. n \in 0..1
  BY DEF Num
<1> HIDE DEF x, y, n
<1>6. /\ ins \in {"RL", "RLA", "RR", "RRA"} => Incoming(a) = n
      /\ ins \in {"RLC", "RLCA", "SRA"} => Incoming(a) = x
      /\ ins \in {"RRC", "RRCA"} => Incoming(a) = y
      /\ ins \in {"SLA", "SRL"} => Incoming(a) = 0
      /\ ins = "SL1" => Incoming(a) = 1
  BY <1>4
<1> QED
  BY <1>2, <1>3, <1>5, <1>6, Zenon DEF a, x, y, n

LEMMA ShiftRight ==
  ASSUME Done, ins \in {"RLC", "RL", "SLA", "SL1", "RRC", "RR", "SRA", "SRL"}
  PROVE  /\ ShiftFlags
         /\ ins \in {"RLC", "RL", "SLA", "SL1"} => reg + 256 * Num(f.c) = 2 * old.reg + Incoming(old.reg)
         /\ ins \in {"RRC", "RR", "SRA", "SRL"} => 2 * reg + Num(f.c) = old.reg + 256 * Incoming(old.reg)
<1> DEFINE a == old.reg
           in == Incoming(a)
<1>1. ins \in Unary
  BY DEF Unary
<1>2. a \in Nat /\ a < 256
  BY <1>1, UnaryHas
<1>3. in \in 0..1
  BY <1>1, IncomingIs
<1>4. CASE ins \in {"RLC", "RL", "SLA", "SL1"}
  <2> DEFINE x == Left86(a, in)
  <2>1. After = Shift(x)
    <3>1. CASE ins = "RLC"
      BY <1>1, <3>1, IncomingIs DEF After, Effect, Rlc
    <3>2. CASE ins = "RL"
      BY <1>1, <3>2, IncomingIs DEF After, Effect, Rl
    <3>3. CASE ins = "SLA"
      BY <1>1, <3>3, IncomingIs DEF After, Effect, Sla
    <3>4. CASE ins = "SL1"
      BY <1>1, <3>4, IncomingIs DEF After, Effect, Sl1
    <3> QED
      BY <1>4, <3>1, <3>2, <3>3, <3>4
  <2>2. reg = x.r /\ f = LogicFlags(x, FALSE)
    BY <2>1, Zenon DEF Done, Shift, With
  <2> HIDE DEF a, in
  <2>3. /\ x = X86(8, x.r, x.cf, FALSE, FALSE)
        /\ x.r \in Nat /\ x.r < 256
        /\ x.r + 256 * Num(x.cf) = 2 * a + in
    BY <1>2, <1>3, LeftGives
  <2> HIDE DEF x
  <2>4. ShiftFlags /\ f.c = x.cf
    BY <2>2, <2>3, ShiftGives
  <2>5. reg + 256 * Num(f.c) = 2 * a + in
    BY <2>2, <2>3, <2>4
  <2> QED
    BY <1>4, <2>4, <2>5 DEF a, in
<1>5. CASE ins \in {"RRC", "RR", "SRA", "SRL"}
  <2> DEFINE x == Right86(a, in)
  <2>1. After = Shift(x)
    <3>1. CASE ins = "RRC"
      BY <1>1, <3>1, IncomingIs DEF After, Effect, Rrc
    <3>2. CASE ins = "RR"
      BY <1>1, <3>2, IncomingIs DEF After, Effect, Rr
    <3>3. CASE ins = "SRA"
      BY <1>1, <3>3, IncomingIs DEF After, Effect, Sra
    <3>4. CASE ins = "SRL"
      BY <1>1, <3>4, IncomingIs DEF After, Effect, Srl
    <3> QED
      BY <1>5, <3>1, <3>2, <3>3, <3>4
  <2>2. reg = x.r /\ f = LogicFlags(x, FALSE)
    BY <2>1, Zenon DEF Done, Shift, With
  <2> HIDE DEF a, in
  <2>3. /\ x = X86(8, x.r, x.cf, FALSE, FALSE)
        /\ x.r \in Nat /\ x.r < 256
        /\ 2 * x.r + Num(x.cf) = a + 256 * in
    BY <1>2, <1>3, RightGives
  <2> HIDE DEF x
  <2>4. ShiftFlags /\ f.c = x.cf
    BY <2>2, <2>3, ShiftGives
  <2>5. 2 * reg + Num(f.c) = a + 256 * in
    BY <2>2, <2>3, <2>4
  <2> QED
    BY <1>5, <2>4, <2>5 DEF a, in
<1> QED
  BY <1>4, <1>5

LEMMA RotGives ==
  ASSUME NEW x, reg = x.r, f = [old.f EXCEPT !.h = FALSE, !.n = FALSE, !.c = x.cf], old.f \in Flags
  PROVE  ClearHN /\ Kept({"s", "z", "p"}) /\ f.c = x.cf
<1>1. /\ f["s"] = old.f["s"]
      /\ f["z"] = old.f["z"]
      /\ f["p"] = old.f["p"]
      /\ f.h = FALSE
      /\ f.n = FALSE
      /\ f.c = x.cf
  BY DEF Flags
<1>2. Kept({"s", "z", "p"})
  BY <1>1 DEF Kept
<1> QED
  BY <1>1, <1>2 DEF ClearHN

LEMMA RotRight ==
  ASSUME Done, ins \in {"RLCA", "RLA", "RRCA", "RRA"}
  PROVE  /\ ClearHN /\ Kept({"s", "z", "p"})
         /\ ins \in {"RLCA", "RLA"} => reg + 256 * Num(f.c) = 2 * old.reg + Incoming(old.reg)
         /\ ins \in {"RRCA", "RRA"} => 2 * reg + Num(f.c) = old.reg + 256 * Incoming(old.reg)
<1> DEFINE a == old.reg
           in == Incoming(a)
<1>1. ins \in Unary
  BY DEF Unary
<1>2. a \in Nat /\ a < 256 /\ old.f \in Flags
  BY <1>1, UnaryHas
<1>3. in \in 0..1
  BY <1>1, IncomingIs
<1>4. CASE ins \in {"RLCA", "RLA"}
  <2> DEFINE x == Left86(a, in)
  <2>1. After = RotA(x, old.f)
    <3>1. CASE ins = "RLCA"
      BY <1>1, <3>1, IncomingIs DEF After, Effect, Rlca
    <3>2. CASE ins = "RLA"
      BY <1>1, <3>2, IncomingIs DEF After, Effect, Rla
    <3> QED
      BY <1>4, <3>1, <3>2
  <2>2. reg = x.r /\ f = [old.f EXCEPT !.h = FALSE, !.n = FALSE, !.c = x.cf]
    BY <2>1, Zenon DEF Done, RotA, With
  <2> HIDE DEF a, in
  <2>3. x.r + 256 * Num(x.cf) = 2 * a + in
    BY <1>2, <1>3, LeftGives
  <2> HIDE DEF x
  <2>4. ClearHN /\ Kept({"s", "z", "p"}) /\ f.c = x.cf
    BY <1>2, <2>2, RotGives
  <2>5. reg + 256 * Num(f.c) = 2 * a + in
    BY <2>2, <2>3, <2>4
  <2> QED
    BY <1>4, <2>4, <2>5 DEF a, in
<1>5. CASE ins \in {"RRCA", "RRA"}
  <2> DEFINE x == Right86(a, in)
  <2>1. After = RotA(x, old.f)
    <3>1. CASE ins = "RRCA"
      BY <1>1, <3>1, IncomingIs DEF After, Effect, Rrca
    <3>2. CASE ins = "RRA"
      BY <1>1, <3>2, IncomingIs DEF After, Effect, Rra
    <3> QED
      BY <1>5, <3>1, <3>2
  <2>2. reg = x.r /\ f = [old.f EXCEPT !.h = FALSE, !.n = FALSE, !.c = x.cf]
    BY <2>1, Zenon DEF Done, RotA, With
  <2> HIDE DEF a, in
  <2>3. 2 * x.r + Num(x.cf) = a + 256 * in
    BY <1>2, <1>3, RightGives
  <2> HIDE DEF x
  <2>4. ClearHN /\ Kept({"s", "z", "p"}) /\ f.c = x.cf
    BY <1>2, <2>2, RotGives
  <2>5. 2 * reg + Num(f.c) = a + 256 * in
    BY <2>2, <2>3, <2>4
  <2> QED
    BY <1>5, <2>4, <2>5 DEF a, in
<1> QED
  BY <1>4, <1>5

(* BIT, SET and RES                                                        *)
LEMMA TestRight ==
  ASSUME Done, ins = "BIT"
  PROVE  reg = old.reg /\ f.z = (Bit(old.reg, op2 % 8) = 0) /\ f.h /\ ~f.n /\ Kept({"c"})
<1> DEFINE z == Bit(old.reg, op2 % 8) = 0
<1>1. After = With(old.reg, [old.f EXCEPT !.z = z, !.h = TRUE, !.n = FALSE])
  BY DEF After, Effect, BitB
<1>2. old.f \in Flags
  BY BinaryHas DEF Binary
<1> HIDE DEF z
<1>3. reg = old.reg /\ f = [old.f EXCEPT !.z = z, !.h = TRUE, !.n = FALSE]
  BY <1>1, Zenon DEF Done, With
<1>4. /\ f.z = z
      /\ f.h = TRUE
      /\ f.n = FALSE
      /\ f["c"] = old.f["c"]
  BY <1>2, <1>3 DEF Flags
<1>5. Kept({"c"})
  BY <1>4 DEF Kept
<1> QED
  BY <1>3, <1>4, <1>5, Zenon DEF z

LEMMA SetBit ==
  ASSUME NEW a \in Nat, NEW k \in 0..7
  PROVE  /\ Bit(a, k) # 1 => Bit(a + 2^k, k) = 1
         /\ Bit(a, k) # 0 => Bit(a - 2^k, k) = 0
<1> DEFINE p == 2^k
<1>1. p \in Nat \ {0}
  <2>1. k = 0 \/ k = 1 \/ k = 2 \/ k = 3 \/ k = 4 \/ k = 5 \/ k = 6 \/ k = 7
    OBVIOUS
  <2>2. /\ k = 0 => p = 2^0
        /\ k = 1 => p = 2^1
        /\ k = 2 => p = 2^2
        /\ k = 3 => p = 2^3
        /\ k = 4 => p = 2^4
        /\ k = 5 => p = 2^5
        /\ k = 6 => p = 2^6
        /\ k = 7 => p = 2^7
    BY Zenon
  <2> HIDE DEF p
  <2> QED
    BY <2>1, <2>2, Powers
<1>2. /\ Bit(a, k) = (a \div p) % 2
      /\ Bit(a + 2^k, k) = ((a + p) \div p) % 2
      /\ Bit(a - 2^k, k) = ((a - p) \div p) % 2
  BY Zenon DEF Bit
<1> HIDE DEF p
<1> DEFINE q == a \div p
<1>3. (a + p) \div p = q + 1 /\ (a - p) \div p = q - 1 /\ q \in Int
  BY <1>1
<1> HIDE DEF q
<1>4. (q % 2 # 1 => (q + 1) % 2 = 1) /\ (q % 2 # 0 => (q - 1) % 2 = 0)
  BY <1>3
<1> QED
  BY <1>2, <1>3, <1>4 DEF q

LEMMA SetRight ==
  ASSUME Done, ins = "SET"
  PROVE  Bit(reg, op2 % 8) = 1 /\ f = old.f
<1> DEFINE a == old.reg
           k == op2 % 8
<1>1. a \in Nat /\ op2 \in Nat
  BY BinaryHas DEF Binary
<1>2. k \in 0..7
  BY <1>1
<1>3. After = With(IF Bit(a, k) = 1 THEN a ELSE a + 2^k, old.f)
  BY DEF After, Effect, SetB
<1> HIDE DEF k, a
<1>4. reg = (IF Bit(a, k) = 1 THEN a ELSE a + 2^k) /\ f = old.f
  BY <1>3, Zenon DEF Done, With
<1>5. Bit(a, k) # 1 => Bit(a + 2^k, k) = 1
  BY <1>1, <1>2, SetBit
<1> QED
  BY <1>4, <1>5, Zenon DEF k

LEMMA ResRight ==
  ASSUME Done, ins = "RES"
  PROVE  Bit(reg, op2 % 8) = 0 /\ f = old.f
<1> DEFINE a == old.reg
           k == op2 % 8
<1>1. a \in Nat /\ op2 \in Nat
  BY BinaryHas DEF Binary
<1>2. k \in 0..7
  BY <1>1
<1>3. After = With(IF Bit(a, k) = 0 THEN a ELSE a - 2^k, old.f)
  BY DEF After, Effect, ResB
<1> HIDE DEF k, a
<1>4. reg = (IF Bit(a, k) = 0 THEN a ELSE a - 2^k) /\ f = old.f
  BY <1>3, Zenon DEF Done, With
<1>5. Bit(a, k) # 0 => Bit(a - 2^k, k) = 0
  BY <1>1, <1>2, SetBit
<1> QED
  BY <1>4, <1>5, Zenon DEF k

(* The 16-bit instructions                                                 *)
LEMMA Add16Right ==
  ASSUME Done, ins = "ADD16"
  PROVE  reg = (old.reg + op2) % 65536 /\ f.c = (old.reg + op2 > 65535) /\ ~f.n /\ Kept({"s", "z", "p"})
<1> DEFINE a == old.reg
           b == op2
           x == Add86(16, a, b, 0)
<1>1. a \in Nat /\ a < 65536 /\ b \in Nat /\ b < 65536 /\ old.f \in Flags
  BY WideHas DEF Wide
<1>2. After = With(x.r, [old.f EXCEPT !.n = FALSE, !.c = x.cf])
  BY DEF After, Effect, AddHL
<1>3. reg = x.r /\ f = [old.f EXCEPT !.n = FALSE, !.c = x.cf]
  BY <1>2, Zenon DEF Done, With
<1>4. a \in 0..2^16 - 1 /\ b \in 0..2^16 - 1 /\ 0 \in 0..1
  BY <1>1, Pow
<1> HIDE DEF a, b
<1>5. x.r = (a + b + 0) % 2^16 /\ x.cf = (a + b + 0 >= 2^16)
  BY <1>4, AddIs
<1> HIDE DEF x
<1>6. /\ f["s"] = old.f["s"]
      /\ f["z"] = old.f["z"]
      /\ f["p"] = old.f["p"]
      /\ f.n = FALSE
      /\ f.c = x.cf
  BY <1>1, <1>3 DEF Flags
<1>7. Kept({"s", "z", "p"})
  BY <1>6 DEF Kept
<1>8. (a + b + 0) % 2^16 = (a + b) % 65536 /\ (a + b + 0 >= 2^16) = (a + b > 65535)
  BY <1>1, Pow
<1> QED
  BY <1>3, <1>5, <1>6, <1>7, <1>8 DEF a, b

LEMMA Adc16Right ==
  ASSUME Done, ins = "ADC16"
  PROVE  SumRight(16, old.reg, op2, Carry)
<1> DEFINE a == old.reg
           b == op2
           k == Carry
           x == Add86(16, a, b, k)
<1>1. a \in Nat /\ a < 65536 /\ b \in Nat /\ b < 65536
  BY WideHas DEF Wide
<1>2. k \in 0..1 /\ k = Num(old.f.c)
  BY CarryIs DEF Done
<1>3. After = With(x.r, ArithFlags(x, FALSE))
  BY <1>2 DEF After, Effect, AdcHL
<1>4. reg = x.r /\ f = ArithFlags(x, FALSE)
  BY <1>3, Zenon DEF Done, With
<1>5. a \in 0..2^16 - 1 /\ b \in 0..2^16 - 1
  BY <1>1, Pow
<1> HIDE DEF a, b, k
<1>6. SumRight(16, a, b, k)
  BY <1>2, <1>4, <1>5, SumGives DEF x
<1> QED
  BY <1>6 DEF a, b, k

LEMMA Sbc16Right ==
  ASSUME Done, ins = "SBC16"
  PROVE  DifferenceRight(16, old.reg, op2, Carry, reg)
<1> DEFINE a == old.reg
           b == op2
           k == Carry
           x == Sub86(16, a, b, k)
<1>1. a \in Nat /\ a < 65536 /\ b \in Nat /\ b < 65536
  BY WideHas DEF Wide
<1>2. k \in 0..1 /\ k = Num(old.f.c)
  BY CarryIs DEF Done
<1>3. After = With(x.r, ArithFlags(x, TRUE))
  BY <1>2 DEF After, Effect, SbcHL
<1>4. reg = x.r /\ f = ArithFlags(x, TRUE)
  BY <1>3, Zenon DEF Done, With
<1>5. a \in 0..2^16 - 1 /\ b \in 0..2^16 - 1
  BY <1>1, Pow
<1> HIDE DEF a, b, k
<1>6. x.r = (a - b - k) % 2^16 /\ x.r \in 0..2^16 - 1
  BY <1>2, <1>5, SubIs
<1> HIDE DEF x
<1>7. reg % 2^16 = (a - b - k) % 2^16
  <2> DEFINE m == 2^16
  <2>1. m \in Nat \ {0}
    BY Pow
  <2> HIDE DEF m
  <2>2. reg \in 0..m - 1
    BY <1>4, <1>6 DEF m
  <2>3. reg % m = reg
    BY <2>1, <2>2
  <2> QED
    BY <1>4, <1>6, <2>3 DEF m
<1>8. DifferenceRight(16, a, b, k, reg)
  BY <1>2, <1>4, <1>5, <1>7, DifferenceGives DEF x
<1> QED
  BY <1>8 DEF a, b, k

(***************************************************************************)
(* DAA                                                                     *)
(***************************************************************************)
LEMMA CorrectionIs ==
  ASSUME NEW r, NEW hf, NEW cf, NEW u \in 0..1, NEW v \in 0..1,
         (r % 16 > 9 \/ hf) <=> u = 1, (r > 153 \/ cf) <=> v = 1
  PROVE  Correction(r, hf, cf) = 6 * u + 96 * v
<1> DEFINE x == r % 16 > 9 \/ hf
           y == r > 153 \/ cf
<1>1. Correction(r, hf, cf) = (IF x THEN 6 ELSE 0) + (IF y THEN 96 ELSE 0)
  BY DEF Correction
<1>2. (x <=> u = 1) /\ (y <=> v = 1)
  OBVIOUS
<1> HIDE DEF x, y
<1>3. (IF x THEN 6 ELSE 0) = 6 * u /\ (IF y THEN 96 ELSE 0) = 96 * v
  BY <1>2
<1> QED
  BY <1>1, <1>3

(* The carry, after subtractions corrected where the borrow was.           *)
LEMMA DasCarry ==
  ASSUME NEW a \in Nat, a < 256, NEW d \in Int, NEW lo \in BOOLEAN, NEW c \in BOOLEAN,
         d = (IF lo THEN 6 ELSE 0) + (IF a > 153 \/ c THEN 96 ELSE 0)
  PROVE  (IF (a - d) % 256 >= 250 THEN (a > 153 \/ c \/ (lo /\ a < 6)) /\ c ELSE a > 153 \/ c \/ (lo /\ a < 6))
           <=> (c \/ a > 153)
<1>1. CASE c
  BY <1>1
<1>2. CASE ~c /\ a > 153
  <2>1. (d = 96 \/ d = 102) /\ (a - d) % 256 = a - d
    BY <1>2
  <2>2. ~((a - d) % 256 >= 250)
    BY <2>1
  <2> QED
    BY <1>2, <2>2
<1>3. CASE ~c /\ ~(a > 153)
  <2>1. CASE lo /\ a < 6
    <3>1. d = 6
      BY <1>3, <2>1
    <3>2. (a - d) % 256 = a + 250
      BY <2>1, <3>1
    <3> QED
      BY <1>3, <3>2
  <2>2. CASE ~(lo /\ a < 6)
    BY <1>3, <2>2
  <2> QED
    BY <2>1, <2>2
<1> QED
  BY <1>1, <1>2, <1>3

DaaFor(a, fl) == IF fl.n THEN a - Correction(a, fl.h, fl.c) ELSE a + Correction(a, fl.h, fl.c)

LEMMA DaaIs ==
  ASSUME NEW a \in Nat, a < 256, NEW fl, fl.h \in BOOLEAN, fl.c \in BOOLEAN
  PROVE  LET e == Daa(a, fl, 0)
         IN /\ e.reg = DaaFor(a, fl) % 256
            /\ e.f.s = (e.reg >= 2^(8 - 1))
            /\ e.f.z = (e.reg = 0)
            /\ e.f.p = EvenOnes[e.reg]
            /\ e.f.n = fl.n
            /\ e.f.c = (fl.c \/ a > 153)
<1> DEFINE d == Correction(a, fl.h, fl.c)
           lo == a % 16 > 9 \/ fl.h
           das == a > 153 \/ fl.c \/ (lo /\ a < 6)
           r == DaaFor(a, fl) % 256
           cf == IF fl.n THEN das ELSE a > 153 \/ fl.c
           x == X86(8, r, cf, lo, FALSE)
           carry == IF fl.n /\ r >= 250 THEN cf /\ fl.c ELSE cf
           e == Daa(a, fl, 0)
<1>1. fl.h \in BOOLEAN /\ fl.c \in BOOLEAN
  OBVIOUS
<1>2. d \in Int /\ d = (IF lo THEN 6 ELSE 0) + (IF a > 153 \/ fl.c THEN 96 ELSE 0)
  BY DEF Correction
<1>3. (IF fl.n THEN Das86(a, fl.h, fl.c) ELSE Daa86(a, fl.h, fl.c)) = x
  <2>1. CASE fl.n
    <3>1. Das86(a, fl.h, fl.c) = X86(8, (a - d) % 256, das, lo, FALSE)
      BY Zenon DEF Das86
    <3>2. DaaFor(a, fl) = a - d
      BY <2>1 DEF DaaFor
    <3>3. cf = das
      BY <2>1
    <3> HIDE DEF d, das, lo, cf
    <3> QED
      BY <2>1, <3>1, <3>2, <3>3, Zenon
  <2>2. CASE ~fl.n
    <3> DEFINE c0 == a > 153 \/ fl.c
    <3>1. Daa86(a, fl.h, fl.c) = X86(8, (a + d) % 256, c0, lo, FALSE)
      BY Zenon DEF Daa86
    <3>2. DaaFor(a, fl) = a + d
      BY <2>2 DEF DaaFor
    <3>3. cf = c0
      BY <2>2
    <3> HIDE DEF d, das, lo, cf, c0
    <3> QED
      BY <2>2, <3>1, <3>2, <3>3, Zenon
  <2> QED
    BY <1>1, <2>1, <2>2
<1>4. IsByte(r) /\ r = DaaFor(a, fl) % 256
  <2>1. DaaFor(a, fl) \in Int
    BY <1>2 DEF DaaFor
  <2> QED
    BY <2>1 DEF IsByte
<1>5. carry = (fl.c \/ a > 153)
  <2>1. CASE fl.n
    <3>1. r = (a - d) % 256 /\ cf = das
      BY <2>1 DEF DaaFor
    <3> DEFINE l == lo
               c == fl.c
    <3>2. l \in BOOLEAN /\ c \in BOOLEAN
      BY <1>1
    <3>3. d \in Int /\ d = (IF l THEN 6 ELSE 0) + (IF a > 153 \/ c THEN 96 ELSE 0)
      BY <1>2
    <3>4. das = (a > 153 \/ c \/ (l /\ a < 6))
      OBVIOUS
    <3> HIDE DEF l, c, d, r, cf, das
    <3>5. (IF (a - d) % 256 >= 250 THEN (a > 153 \/ c \/ (l /\ a < 6)) /\ c ELSE a > 153 \/ c \/ (l /\ a < 6))
            <=> (c \/ a > 153)
      BY <3>2, <3>3, DasCarry
    <3>6. carry = (IF r >= 250 THEN cf /\ c ELSE cf)
      BY <2>1 DEF c
    <3> QED
      BY <3>1, <3>4, <3>5, <3>6, <3>2 DEF c
  <2>2. CASE ~fl.n
    BY <2>2, <1>1
  <2> QED
    BY <1>1, <2>1, <2>2
<1> HIDE DEF r, cf, lo
<1>6. /\ x.r = r
      /\ x.sf = (r >= 2^(8 - 1))
      /\ x.zf = (r = 0)
      /\ x.pf = EvenOnes[r]
      /\ x.cf = cf
  <2> DEFINE no == FALSE
             y == X86(8, r, cf, lo, no)
  <2>1. y = x
    OBVIOUS
  <2> HIDE DEF no, x
  <2>2. /\ y.r = r
        /\ y.sf = (r >= 2^(8 - 1))
        /\ y.zf = (r = 0)
        /\ y.pf = EvenOnes[r]
        /\ y.cf = cf
    BY <1>4, X86Is
  <2> HIDE DEF y
  <2> QED
    BY <2>1, <2>2
<1>7. e = With(x.r, [s |-> x.sf, z |-> x.zf, h |-> x.af, p |-> x.pf, n |-> fl.n,
                     c |-> IF fl.n /\ x.r >= 250 THEN x.cf /\ fl.c ELSE x.cf])
  <2> DEFINE y == IF fl.n THEN Das86(a, fl.h, fl.c) ELSE Daa86(a, fl.h, fl.c)
  <2>1. e = With(y.r, [s |-> y.sf, z |-> y.zf, h |-> y.af, p |-> y.pf, n |-> fl.n,
                       c |-> IF fl.n /\ y.r >= 250 THEN y.cf /\ fl.c ELSE y.cf])
    BY DEF Daa
  <2>2. y = x
    BY <1>3
  <2> HIDE DEF y, x, e
  <2> QED
    BY <2>1, <2>2
<1> HIDE DEF x, e
<1>8. /\ e.reg = x.r
      /\ e.f.s = x.sf
      /\ e.f.z = x.zf
      /\ e.f.p = x.pf
      /\ e.f.n = fl.n
      /\ e.f.c = (IF fl.n /\ x.r >= 250 THEN x.cf /\ fl.c ELSE x.cf)
  BY <1>7 DEF With
<1>9. e.f.c = carry
  BY <1>6, <1>8
<1> HIDE DEF carry
<1>10. /\ e.reg = DaaFor(a, fl) % 256
       /\ e.f.s = (e.reg >= 2^(8 - 1))
       /\ e.f.z = (e.reg = 0)
       /\ e.f.p = EvenOnes[e.reg]
       /\ e.f.n = fl.n
       /\ e.f.c = (fl.c \/ a > 153)
  BY <1>4, <1>5, <1>6, <1>8, <1>9
<1> QED
  BY <1>10 DEF e

LEMMA DaaRight ==
  ASSUME Done, ins = "DAA"
  PROVE  /\ Holds(8, LET d == Correction(old.reg, old.f.h, old.f.c)
                     IN IF old.f.n THEN old.reg - d ELSE old.reg + d)
         /\ f.c = (old.f.c \/ old.reg > 153) /\ f.p = EvenOnes[reg] /\ Kept({"n"})
<1> DEFINE a == old.reg
           fl == old.f
           e == Daa(a, fl, 0)
<1>1. a \in Nat /\ a < 256 /\ fl \in Flags /\ op2 = 0
  BY UnaryHas DEF Unary
<1>2. After = e
  BY <1>1 DEF After, Effect
<1>3. reg = e.reg /\ f = e.f
  BY <1>2, Zenon DEF Done
<1> HIDE DEF a, fl
<1>4. /\ e.reg = DaaFor(a, fl) % 256
      /\ e.f.s = (e.reg >= 2^(8 - 1))
      /\ e.f.z = (e.reg = 0)
      /\ e.f.p = EvenOnes[e.reg]
      /\ e.f.n = fl.n
      /\ e.f.c = (fl.c \/ a > 153)
  <2>1. fl.h \in BOOLEAN /\ fl.c \in BOOLEAN
    BY <1>1, FlagsIs
  <2> QED
    BY <1>1, <2>1, DaaIs
<1> HIDE DEF e
<1>5. /\ reg = DaaFor(a, fl) % 256
      /\ f.s = (reg >= 2^(8 - 1))
      /\ f.z = (reg = 0)
      /\ f.p = EvenOnes[reg]
      /\ f.n = fl.n
      /\ f.c = (fl.c \/ a > 153)
  BY <1>3, <1>4
<1>6. Holds(8, DaaFor(a, fl))
  BY <1>5, Pow DEF Holds
<1>7. Holds(8, LET d == Correction(a, fl.h, fl.c) IN IF fl.n THEN a - d ELSE a + d)
  BY <1>6, Zenon DEF DaaFor
<1>8. Kept({"n"})
  BY <1>5 DEF Kept, fl
<1> QED
  BY <1>5, <1>7, <1>8, Zenon DEF a, fl

(***************************************************************************)
(* Decimal numbers                                                         *)
(***************************************************************************)
LEMMA DecimalIs ==
  ASSUME NEW v \in Nat, v < 256, IsDecimal(v)
  PROVE  \E h \in 0..9, l \in 0..9 : v = 16 * h + l /\ Decimal(v) = 10 * h + l /\ v % 16 = l
<1> DEFINE h == v \div 16
           l == v % 16
<1>1. h \in Int /\ l \in Int /\ 0 <= l /\ l < 16 /\ 0 <= h /\ v = 16 * h + l
  OBVIOUS
<1>2. l < 10 /\ h < 10 /\ Decimal(v) = 10 * h + l
  BY DEF IsDecimal, Decimal
<1> HIDE DEF h, l
<1>3. h \in 0..9 /\ l \in 0..9
  BY <1>1, <1>2
<1> QED
  BY <1>1, <1>2, <1>3 DEF l

LEMMA IsDecimalOf ==
  ASSUME NEW h \in 0..9, NEW l \in 0..9
  PROVE  IsDecimal(16 * h + l) /\ Decimal(16 * h + l) = 10 * h + l
<1>1. (16 * h + l) % 16 = l /\ (16 * h + l) \div 16 = h
  OBVIOUS
<1> QED
  BY <1>1 DEF IsDecimal, Decimal

(* Adding and correcting.                                                  *)
LEMMA DecimalSum ==
  ASSUME NEW x \in Nat, x < 256, NEW y \in Nat, y < 256, IsDecimal(x), IsDecimal(y), NEW k \in 0..1,
         NEW r \in Nat, r = (x + y + k) % 256, NEW hf \in BOOLEAN, NEW cf \in BOOLEAN,
         hf <=> (x % 16) + (y % 16) + k > 15, cf <=> x + y + k >= 256
  PROVE  LET res == (r + Correction(r, hf, cf)) % 256
             v == Decimal(x) + Decimal(y) + k
         IN IsDecimal(res) /\ Decimal(res) = v % 100 /\ ((cf \/ r > 153) <=> v > 99) /\ v \in Nat
<1>1. PICK h1 \in 0..9, l1 \in 0..9 : x = 16 * h1 + l1 /\ Decimal(x) = 10 * h1 + l1 /\ x % 16 = l1
  BY DecimalIs
<1>2. PICK h2 \in 0..9, l2 \in 0..9 : y = 16 * h2 + l2 /\ Decimal(y) = 10 * h2 + l2 /\ y % 16 = l2
  BY DecimalIs
<1> DEFINE hi == h1 + h2
           lo == l1 + l2 + k
           u == IF lo >= 10 THEN 1 ELSE 0
           w == IF hi + u >= 10 THEN 1 ELSE 0
           H == hi + u - 10 * w
           L == lo - 10 * u
           d == 6 * u + 96 * w
           res == (r + Correction(r, hf, cf)) % 256
           v == Decimal(x) + Decimal(y) + k
<1>3. hi \in 0..18 /\ lo \in 0..19 /\ x + y + k = 16 * hi + lo /\ v = 10 * hi + lo
  BY <1>1, <1>2
<1>4. (hf <=> lo > 15) /\ (cf <=> 16 * hi + lo >= 256) /\ r = (16 * hi + lo) % 256
  BY <1>1, <1>2, <1>3
<1> HIDE DEF hi, lo, v
<1>5. u \in 0..1 /\ w \in 0..1 /\ (u = 1 <=> lo >= 10) /\ (w = 1 <=> hi + u >= 10)
  BY <1>3
<1> HIDE DEF u, w
<1>6. H \in 0..9 /\ L \in 0..9
  BY <1>3, <1>5
<1>7. 16 * hi + lo + d = 16 * H + L + 256 * w
  BY <1>3, <1>5
<1>8. 10 * hi + lo = 10 * H + L + 100 * w
  BY <1>3, <1>5
<1>9. r % 16 = lo % 16 /\ (cf => r < 100) /\ (~cf => r = 16 * hi + lo)
  BY <1>3, <1>4
<1>10. (r % 16 > 9 \/ hf) <=> u = 1
  BY <1>3, <1>4, <1>5, <1>9
<1>11. (r > 153 \/ cf) <=> w = 1
  BY <1>3, <1>4, <1>5, <1>9
<1>12. Correction(r, hf, cf) = d
  BY <1>5, <1>10, <1>11, CorrectionIs
<1>13. r = 16 * hi + lo \/ r = 16 * hi + lo - 256
  BY <1>3, <1>4
<1> HIDE DEF H, L, d
<1>14. d \in Int
  BY <1>5 DEF d
<1>15. (r + d) % 256 = 16 * H + L
  BY <1>3, <1>5, <1>6, <1>7, <1>13, <1>14
<1>16. IsDecimal(16 * H + L) /\ Decimal(16 * H + L) = 10 * H + L
  BY <1>6, IsDecimalOf
<1>17. v % 100 = 10 * H + L /\ (v > 99 <=> w = 1) /\ v \in Nat
  BY <1>3, <1>5, <1>6, <1>8
<1>18. res = 16 * H + L
  BY <1>12, <1>15
<1> HIDE DEF res
<1>19. IsDecimal(res) /\ Decimal(res) = v % 100 /\ ((cf \/ r > 153) <=> v > 99) /\ v \in Nat
  BY <1>11, <1>16, <1>17, <1>18
<1> QED
  BY <1>19 DEF res, v

(* Subtracting and correcting: c, when DEC leaves it out, is in the result.*)
LEMMA DecimalDifference ==
  ASSUME NEW x \in Nat, x < 256, NEW y \in Nat, y < 256, IsDecimal(x), IsDecimal(y), NEW k \in 0..1,
         NEW r \in Nat, r = (x - y - k) % 256, NEW hf \in BOOLEAN, NEW cf \in BOOLEAN,
         hf <=> x % 16 < (y % 16) + k, (cf \/ r > 153) <=> x < y + k
  PROVE  LET res == (r - Correction(r, hf, cf)) % 256
             v == Decimal(x) - Decimal(y) - k
         IN IsDecimal(res) /\ Decimal(res) = v % 100 /\ ((cf \/ r > 153) <=> v < 0) /\ v \in Int /\ v < 100
<1>1. PICK h1 \in 0..9, l1 \in 0..9 : x = 16 * h1 + l1 /\ Decimal(x) = 10 * h1 + l1 /\ x % 16 = l1
  BY DecimalIs
<1>2. PICK h2 \in 0..9, l2 \in 0..9 : y = 16 * h2 + l2 /\ Decimal(y) = 10 * h2 + l2 /\ y % 16 = l2
  BY DecimalIs
<1> DEFINE hi == h1 - h2
           lo == l1 - l2 - k
           u == IF lo < 0 THEN 1 ELSE 0
           w == IF hi - u < 0 THEN 1 ELSE 0
           H == hi - u + 10 * w
           L == lo + 10 * u
           d == 6 * u + 96 * w
           res == (r - Correction(r, hf, cf)) % 256
           v == Decimal(x) - Decimal(y) - k
<1>3. hi \in -9..9 /\ lo \in -10..9 /\ x - y - k = 16 * hi + lo /\ v = 10 * hi + lo
  BY <1>1, <1>2
<1>4. (hf <=> lo < 0) /\ ((cf \/ r > 153) <=> 16 * hi + lo < 0) /\ r = (16 * hi + lo) % 256
  BY <1>1, <1>2, <1>3
<1> HIDE DEF hi, lo, v
<1>5. u \in 0..1 /\ w \in 0..1 /\ (u = 1 <=> lo < 0) /\ (w = 1 <=> hi - u < 0)
  BY <1>3
<1> HIDE DEF u, w
<1>6. H \in 0..9 /\ L \in 0..9
  BY <1>3, <1>5
<1>7. 16 * hi + lo - d = 16 * H + L - 256 * w
  BY <1>3, <1>5
<1>8. 10 * hi + lo = 10 * H + L - 100 * w
  BY <1>3, <1>5
<1>9. r = 16 * hi + lo \/ r = 16 * hi + lo + 256
  BY <1>3, <1>4
<1>10. (r % 16 > 9 \/ hf) <=> u = 1
  <2>1. r % 16 = lo % 16
    BY <1>3, <1>9
  <2> QED
    BY <1>3, <1>4, <1>5, <2>1
<1>11. (r > 153 \/ cf) <=> w = 1
  BY <1>3, <1>4, <1>5
<1>12. Correction(r, hf, cf) = d
  BY <1>5, <1>10, <1>11, CorrectionIs
<1> HIDE DEF H, L, d
<1>13. d \in Int
  BY <1>5 DEF d
<1>14. (r - d) % 256 = 16 * H + L
  BY <1>3, <1>5, <1>6, <1>7, <1>9, <1>13
<1>15. IsDecimal(16 * H + L) /\ Decimal(16 * H + L) = 10 * H + L
  BY <1>6, IsDecimalOf
<1>16. v % 100 = 10 * H + L /\ (v < 0 <=> w = 1) /\ v \in Int /\ v < 100
  BY <1>3, <1>5, <1>6, <1>8
<1>17. res = 16 * H + L
  BY <1>12, <1>14
<1> HIDE DEF res
<1>18. IsDecimal(res) /\ Decimal(res) = v % 100 /\ ((cf \/ r > 153) <=> v < 0) /\ v \in Int /\ v < 100
  BY <1>11, <1>15, <1>16, <1>17
<1> QED
  BY <1>18 DEF res, v

(* What the decimal operation gives.                                       *)
Total ==
  LET a == Decimal(old.reg)
      b == Decimal(op2)
      k == Uses({"ADC", "SBC"})
  IN CASE ins \in {"ADD", "ADC"} -> a + b + k
       [] ins \in {"SUB", "SBC"} -> a - b - k
       [] ins = "INC" -> a + 1
       [] ins = "DEC" -> a - 1
       [] ins = "NEG" -> -a

Gives(res, c, v) == IsDecimal(res) /\ Decimal(res) = v % 100 /\ c = (v \notin 0..99)

LEMMA GivesSum ==
  ASSUME NEW x \in Nat, x < 256, NEW y \in Nat, y < 256, IsDecimal(x), IsDecimal(y), NEW k \in 0..1,
         reg \in Nat, reg < 256, reg = (x + y + k) % 256, ~f.n, NEW hf \in BOOLEAN, NEW cf \in BOOLEAN, f.h = hf, f.c = cf,
         hf <=> (x % 16) + (y % 16) + k > 15, cf <=> x + y + k >= 256
  PROVE  Gives(Daa(reg, f, 0).reg, Daa(reg, f, 0).f.c, Decimal(x) + Decimal(y) + k)
<1> DEFINE e == Daa(reg, f, 0)
           res == (reg + Correction(reg, hf, cf)) % 256
           v == Decimal(x) + Decimal(y) + k
<1>2. e.reg = DaaFor(reg, f) % 256 /\ e.f.c = (f.c \/ reg > 153)
  <2>1. f.h \in BOOLEAN /\ f.c \in BOOLEAN
    OBVIOUS
  <2> QED
    BY <2>1, DaaIs
<1>3. DaaFor(reg, f) = reg + Correction(reg, hf, cf)
  BY DEF DaaFor
<1>4. IsDecimal(res) /\ Decimal(res) = v % 100 /\ ((cf \/ reg > 153) <=> v > 99) /\ v \in Nat
  BY DecimalSum
<1> HIDE DEF e, res, v
<1>5. e.reg = res /\ e.f.c = (cf \/ reg > 153)
  BY <1>2, <1>3 DEF res
<1>6. (cf \/ reg > 153) = (v \notin 0..99)
  BY <1>4
<1>7. Gives(e.reg, e.f.c, v)
  BY <1>4, <1>5, <1>6 DEF Gives
<1> QED
  BY <1>7 DEF e, v

LEMMA GivesDifference ==
  ASSUME NEW x \in Nat, x < 256, NEW y \in Nat, y < 256, IsDecimal(x), IsDecimal(y), NEW k \in 0..1,
         reg \in Nat, reg < 256, reg = (x - y - k) % 256, f.n, NEW hf \in BOOLEAN, NEW cf \in BOOLEAN, f.h = hf, f.c = cf,
         hf <=> x % 16 < (y % 16) + k, (cf \/ reg > 153) <=> x < y + k
  PROVE  Gives(Daa(reg, f, 0).reg, Daa(reg, f, 0).f.c, Decimal(x) - Decimal(y) - k)
<1> DEFINE e == Daa(reg, f, 0)
           res == (reg - Correction(reg, hf, cf)) % 256
           v == Decimal(x) - Decimal(y) - k
<1>2. e.reg = DaaFor(reg, f) % 256 /\ e.f.c = (f.c \/ reg > 153)
  <2>1. f.h \in BOOLEAN /\ f.c \in BOOLEAN
    OBVIOUS
  <2> QED
    BY <2>1, DaaIs
<1>3. DaaFor(reg, f) = reg - Correction(reg, hf, cf)
  BY DEF DaaFor
<1>4. IsDecimal(res) /\ Decimal(res) = v % 100 /\ ((cf \/ reg > 153) <=> v < 0) /\ v \in Int /\ v < 100
  <2> DEFINE r == reg
  <2>1. r \in Nat /\ r = (x - y - k) % 256 /\ ((cf \/ r > 153) <=> x < y + k)
    OBVIOUS
  <2>2. (hf <=> x % 16 < (y % 16) + k) /\ IsDecimal(x) /\ IsDecimal(y) /\ x < 256 /\ y < 256
    OBVIOUS
  <2> HIDE DEF r
  <2>3. IsDecimal((r - Correction(r, hf, cf)) % 256) /\ Decimal((r - Correction(r, hf, cf)) % 256) = v % 100
        /\ ((cf \/ r > 153) <=> v < 0) /\ v \in Int /\ v < 100
    BY <2>1, <2>2, DecimalDifference, SMTT(30)
  <2> QED
    BY <2>3 DEF r
<1> HIDE DEF e, res, v
<1>5. e.reg = res /\ e.f.c = (cf \/ reg > 153)
  BY <1>2, <1>3 DEF res
<1>6. (cf \/ reg > 153) = (v \notin 0..99)
  BY <1>4
<1>7. Gives(e.reg, e.f.c, v)
  BY <1>4, <1>5, <1>6 DEF Gives
<1> QED
  BY <1>7 DEF e, v

(* DAA after each of them.                                                 *)
LEMMA AdjustGives ==
  ASSUME Done, ins \in Counted, IsDecimal(old.reg), IsDecimal(op2), ins \in {"INC", "DEC"} => ~old.f.c
  PROVE  Gives(Daa(reg, f, 0).reg, Daa(reg, f, 0).f.c, Total)
<1> DEFINE x == old.reg
           y == op2
           k == Carry
           da == Decimal(x)
           db == Decimal(y)
           k2 == Uses({"ADC", "SBC"})
<1>1. x \in Nat /\ x < 256 /\ y \in Nat /\ y < 256 /\ old.f \in Flags
  <2>1. ins \in Binary \/ ins \in Unary
    BY DEF Counted, Binary, Unary
  <2> QED
    BY <2>1, BinaryHas, UnaryHas
<1>2. k \in 0..1
  BY CarryIs DEF Done
<1>3. Total = CASE ins \in {"ADD", "ADC"} -> da + db + k2
                [] ins \in {"SUB", "SBC"} -> da - db - k2
                [] ins = "INC" -> da + 1
                [] ins = "DEC" -> da - 1
                [] ins = "NEG" -> -da
  BY Zenon DEF Total
<1>4. ins \in {"ADD", "ADC", "SUB", "SBC"} => k2 = k
  BY DEF Carry, Uses
<1> HIDE DEF k2, k
<1>5. CASE ins \in {"ADD", "ADC"}
  <2>1. SumRight(8, x, y, k) /\ LowNibble(x, y, k) /\ reg \in Nat /\ reg < 256
    BY <1>5, AddRight DEF k
  <2> HIDE DEF x, y
  <2>2. /\ reg = (x + y + k) % 2^8
        /\ f.c = (x + y + k >= 2^8)
        /\ ~f.n
        /\ f.h = ((x % 16) + (y % 16) + k > 15)
    BY <2>1, Zenon DEF SumRight, LowNibble, Holds
  <2> DEFINE hf == (x % 16) + (y % 16) + k > 15
             cf == x + y + k >= 256
  <2>3. reg = (x + y + k) % 256 /\ f.h = hf /\ f.c = cf
    BY <2>2, Pow
  <2>6. hf \in BOOLEAN /\ cf \in BOOLEAN /\ (hf <=> (x % 16) + (y % 16) + k > 15) /\ (cf <=> x + y + k >= 256)
    OBVIOUS
  <2>7. IsDecimal(x) /\ IsDecimal(y)
    BY DEF x, y
  <2> HIDE DEF hf, cf
  <2>4. Gives(Daa(reg, f, 0).reg, Daa(reg, f, 0).f.c, Decimal(x) + Decimal(y) + k)
    BY <1>1, <1>2, <2>1, <2>2, <2>3, <2>6, <2>7, GivesSum
  <2>5. Total = Decimal(x) + Decimal(y) + k
    BY <1>3, <1>4, <1>5
  <2> QED
    BY <2>4, <2>5
<1>6. CASE ins \in {"SUB", "SBC"}
  <2>1. DifferenceRight(8, x, y, k, reg) /\ Borrow(x, y, k) /\ reg \in Nat /\ reg < 256
    BY <1>6, SubRight DEF k
  <2> HIDE DEF x, y
  <2>2. /\ reg % 2^8 = (x - y - k) % 2^8
        /\ f.c = (x < y + k)
        /\ f.n
        /\ f.h = (x % 16 < (y % 16) + k)
    BY <2>1, Zenon DEF DifferenceRight, Borrow
  <2>3. reg = (x - y - k) % 256
    BY <2>1, <2>2, Pow
  <2> DEFINE hf == x % 16 < (y % 16) + k
             cf == x < y + k
  <2>4. (cf \/ reg > 153) <=> x < y + k
    <3>1. ~(x < y + k) => reg <= 153
      <4>1. x <= 153
        <5>1. IsDecimal(x)
          BY DEF x
        <5> QED
          BY <1>1, <5>1 DEF IsDecimal
      <4> QED
        BY <1>1, <1>2, <2>3, <4>1
    <3> QED
      BY <2>1, <2>2, <3>1
  <2>7. f.h = hf /\ f.c = cf /\ hf \in BOOLEAN /\ cf \in BOOLEAN /\ (hf <=> x % 16 < (y % 16) + k)
    BY <2>2
  <2>8. IsDecimal(x) /\ IsDecimal(y)
    BY DEF x, y
  <2> HIDE DEF hf, cf
  <2>5. Gives(Daa(reg, f, 0).reg, Daa(reg, f, 0).f.c, Decimal(x) - Decimal(y) - k)
    BY <1>1, <1>2, <2>1, <2>2, <2>3, <2>4, <2>7, <2>8, GivesDifference
  <2>6. Total = Decimal(x) - Decimal(y) - k
    BY <1>3, <1>4, <1>6
  <2> QED
    BY <2>5, <2>6
<1>7. CASE ins = "INC"
  <2>1. Holds(8, x + 1) /\ LowNibble(x, 1, 0) /\ ~f.n /\ Kept({"c"}) /\ reg \in Nat /\ reg < 256
    BY <1>7, IncRight
  <2>2. f.c = FALSE
    <3>1. f["c"] = old.f["c"]
      BY <2>1 DEF Kept
    <3>2. old.f.c \in BOOLEAN
      BY <1>1, FlagsIs
    <3> QED
      BY <1>7, <3>1, <3>2
  <2>3. IsDecimal(x)
    OBVIOUS
  <2> HIDE DEF x
  <2>4. reg = (x + 1) % 2^8 /\ f.h = ((x % 16) + (1 % 16) + 0 > 15)
    BY <2>1, Zenon DEF Holds, LowNibble
  <2>5. x <= 153
    BY <1>1, <2>3 DEF IsDecimal
  <2> DEFINE hf == (x % 16) + (1 % 16) + 0 > 15
             cf == FALSE
  <2>6. reg = (x + 1 + 0) % 256
    BY <1>1, <2>4, Pow
  <2>10. f.h = hf /\ f.c = cf /\ hf \in BOOLEAN /\ cf \in BOOLEAN /\ (hf <=> (x % 16) + (1 % 16) + 0 > 15)
    BY <2>2, <2>4
  <2>11. cf <=> x + 1 + 0 >= 256
    BY <1>1, <2>5
  <2>12. 1 \in Nat /\ 1 < 256 /\ 0 \in 0..1
    OBVIOUS
  <2> HIDE DEF hf, cf
  <2>7. IsDecimal(1) /\ Decimal(1) = 1
    BY DEF IsDecimal, Decimal
  <2>8. Gives(Daa(reg, f, 0).reg, Daa(reg, f, 0).f.c, Decimal(x) + Decimal(1) + 0)
    BY <1>1, <2>1, <2>3, <2>6, <2>7, <2>10, <2>11, <2>12, GivesSum
  <2>9. Total = Decimal(x) + Decimal(1) + 0
    <3>1. Decimal(x) \in Int
      BY <1>1 DEF Decimal
    <3> QED
      BY <1>3, <1>7, <2>7, <3>1
  <2> QED
    BY <2>8, <2>9
<1>8. CASE ins = "DEC"
  <2>1. Holds(8, x - 1) /\ Borrow(x, 1, 0) /\ f.n /\ Kept({"c"}) /\ reg \in Nat /\ reg < 256
    BY <1>8, DecRight
  <2>2. f.c = FALSE
    <3>1. f["c"] = old.f["c"]
      BY <2>1 DEF Kept
    <3>2. old.f.c \in BOOLEAN
      BY <1>1, FlagsIs
    <3> QED
      BY <1>8, <3>1, <3>2
  <2>3. IsDecimal(x)
    OBVIOUS
  <2> HIDE DEF x
  <2>4. reg = (x - 1) % 2^8 /\ f.h = (x % 16 < (1 % 16) + 0)
    BY <2>1, Zenon DEF Holds, Borrow
  <2>5. x <= 153
    BY <1>1, <2>3 DEF IsDecimal
  <2> DEFINE hf == x % 16 < (1 % 16) + 0
             cf == FALSE
  <2>6. reg = (x - 1 - 0) % 256
    BY <1>1, <2>4, Pow
  <2>10. f.h = hf /\ f.c = cf /\ hf \in BOOLEAN /\ cf \in BOOLEAN /\ (hf <=> x % 16 < (1 % 16) + 0)
    BY <2>2, <2>4
  <2>11. (cf \/ reg > 153) <=> x < 1 + 0
    BY <1>1, <2>5, <2>6
  <2>12. 1 \in Nat /\ 1 < 256 /\ 0 \in 0..1
    OBVIOUS
  <2> HIDE DEF hf, cf
  <2>7. IsDecimal(1) /\ Decimal(1) = 1
    BY DEF IsDecimal, Decimal
  <2>8. Gives(Daa(reg, f, 0).reg, Daa(reg, f, 0).f.c, Decimal(x) - Decimal(1) - 0)
    BY <1>1, <2>1, <2>3, <2>6, <2>7, <2>10, <2>11, <2>12, GivesDifference
  <2>9. Total = Decimal(x) - Decimal(1) - 0
    <3>1. Decimal(x) \in Int
      BY <1>1 DEF Decimal
    <3> QED
      BY <1>3, <1>8, <2>7, <3>1
  <2> QED
    BY <2>8, <2>9
<1>9. CASE ins = "NEG"
  <2>1. DifferenceRight(8, 0, x, 0, reg) /\ Borrow(0, x, 0) /\ reg \in Nat /\ reg < 256
    BY <1>9, NegRight
  <2>2. IsDecimal(x)
    OBVIOUS
  <2> HIDE DEF x
  <2>3. /\ reg % 2^8 = (0 - x - 0) % 2^8
        /\ f.c = (0 < x + 0)
        /\ f.n
        /\ f.h = (0 % 16 < (x % 16) + 0)
    BY <2>1, Zenon DEF DifferenceRight, Borrow
  <2>4. reg = (0 - x - 0) % 256
    BY <2>1, <2>3, Pow
  <2> DEFINE hf == 0 % 16 < (x % 16) + 0
             cf == 0 < x + 0
  <2>5. (cf \/ reg > 153) <=> 0 < x + 0
    <3>1. x = 0 => reg = 0
      BY <2>4
    <3> QED
      BY <1>1, <2>1, <3>1
  <2>9. f.h = hf /\ f.c = cf /\ hf \in BOOLEAN /\ cf \in BOOLEAN /\ (hf <=> 0 % 16 < (x % 16) + 0)
    BY <2>3
  <2>10. 0 \in Nat /\ 0 < 256 /\ 0 \in 0..1
    OBVIOUS
  <2> HIDE DEF hf, cf
  <2>6. IsDecimal(0) /\ Decimal(0) = 0
    BY DEF IsDecimal, Decimal
  <2>7. Gives(Daa(reg, f, 0).reg, Daa(reg, f, 0).f.c, Decimal(0) - Decimal(x) - 0)
    BY <1>1, <2>1, <2>2, <2>3, <2>4, <2>5, <2>6, <2>9, <2>10, GivesDifference
  <2>8. Total = Decimal(0) - Decimal(x) - 0
    <3>1. Decimal(x) \in Int
      BY <1>1 DEF Decimal
    <3> QED
      BY <1>3, <1>9, <2>6, <3>1
  <2> QED
    BY <2>7, <2>8
<1> QED
  BY <1>5, <1>6, <1>7, <1>8, <1>9 DEF Counted

(***************************************************************************)
(* Any instruction                                                         *)
(***************************************************************************)
LEMMA DoneRight == Done => AluRight
<1> SUFFICES ASSUME Done PROVE AluRight
  OBVIOUS
<1> DEFINE a == old.reg
           b == op2
           k == Uses({"ADC", "SBC", "ADC16", "SBC16"})
<1>1. /\ ins \in {"ADD", "ADC"} => SumRight(8, a, b, k) /\ LowNibble(a, b, k)
      /\ ins \in {"SUB", "SBC"} => DifferenceRight(8, a, b, k, reg) /\ Borrow(a, b, k)
      /\ ins = "CP" => DifferenceRight(8, a, b, 0, a - b) /\ Borrow(a, b, 0) /\ reg = a
      /\ ins = "NEG" => DifferenceRight(8, 0, a, 0, reg) /\ Borrow(0, a, 0)
  BY AddRight, SubRight, CpRight, NegRight DEF Carry
<1>2. /\ ins = "INC" => Holds(8, a + 1) /\ f.p = (a = 127) /\ LowNibble(a, 1, 0)
                          /\ ~f.n /\ Kept({"c"})
      /\ ins = "DEC" => Holds(8, a - 1) /\ f.p = (a = 128) /\ Borrow(a, 1, 0)
                          /\ f.n /\ Kept({"c"})
      /\ ins \in {"AND", "OR", "XOR"} =>
            Holds(8, reg) /\ f.p = EvenOnes[reg] /\ ~f.c /\ ~f.n /\ f.h = (ins = "AND")
      /\ ins = "TST" => reg = a /\ ~f.c /\ f.h /\ ~f.n
  BY IncRight, DecRight, LogicRight, TstRight
<1>3. /\ ins \in {"RLC", "RL", "SLA", "SL1"} =>
            ShiftFlags /\ reg + 256 * Num(f.c) = 2 * a + Incoming(a)
      /\ ins \in {"RRC", "RR", "SRA", "SRL"} =>
            ShiftFlags /\ 2 * reg + Num(f.c) = a + 256 * Incoming(a)
      /\ ins \in {"RLCA", "RLA"} => reg + 256 * Num(f.c) = 2 * a + Incoming(a)
                                     /\ ClearHN /\ Kept({"s", "z", "p"})
      /\ ins \in {"RRCA", "RRA"} => 2 * reg + Num(f.c) = a + 256 * Incoming(a)
                                     /\ ClearHN /\ Kept({"s", "z", "p"})
  BY ShiftRight, RotRight
<1>4. /\ ins = "BIT" => reg = a /\ f.z = (Bit(a, b % 8) = 0) /\ f.h /\ ~f.n /\ Kept({"c"})
      /\ ins = "SET" => Bit(reg, b % 8) = 1 /\ f = old.f
      /\ ins = "RES" => Bit(reg, b % 8) = 0 /\ f = old.f
  BY TestRight, SetRight, ResRight
<1>5. ins = "DAA" =>
            /\ Holds(8, LET d == Correction(a, old.f.h, old.f.c)
                        IN IF old.f.n THEN a - d ELSE a + d)
            /\ f.c = (old.f.c \/ a > 153) /\ f.p = EvenOnes[reg] /\ Kept({"n"})
  BY DaaRight
<1>6. /\ ins = "ADD16" => reg = (a + b) % 65536 /\ f.c = (a + b > 65535) /\ ~f.n
                            /\ Kept({"s", "z", "p"})
      /\ ins = "ADC16" => SumRight(16, a, b, k)
      /\ ins = "SBC16" => DifferenceRight(16, a, b, k, reg)
  BY Add16Right, Adc16Right, Sbc16Right DEF Carry
<1> QED
  BY <1>1, <1>2, <1>3, <1>4, <1>5, <1>6 DEF AluRight

(* What holds: nothing executed yet, one instruction, or one and DAA.      *)
Stage ==
  /\ adj \in BOOLEAN
  /\ f \in Flags \/ ins # "none"
  /\ ins = "none" => ~adj
  /\ ~adj /\ ins # "none" => Done
  /\ adj => DecimalExact

LEMMA StageInit == AluInit => Stage
<1> SUFFICES ASSUME AluInit PROVE Stage
  OBVIOUS
<1>1. f \in Flags
  BY DEF AluInit, Flags
<1>2. adj = FALSE /\ ins = "none"
  BY Zenon DEF AluInit
<1> QED
  BY <1>1, <1>2 DEF Stage

LEMMA ExecuteDone ==
  ASSUME f \in Flags, NEW i, NEW a, NEW b, Execute(i, a, b), i \in Every,
         i \in Binary => a \in Octet /\ b \in Octet,
         i \in Unary => a \in Octet /\ b = 0,
         i \in Wide => a \in Pair /\ b \in Pair
  PROVE  Done'
<1>1. ins' = i /\ op2' = b /\ old' = With(a, f) /\ reg' = Effect(i, a, f, b).reg /\ f' = Effect(i, a, f, b).f
  BY Zenon DEF Execute
<1>2. old'.reg = a /\ old'.f = f /\ old' = With(old'.reg, old'.f)
  BY <1>1 DEF With
<1>3. Typed'
  BY <1>1, <1>2 DEF Typed
<1>4. After' = Effect(i, a, f, b)
  BY <1>1, <1>2 DEF After
<1> QED
  BY <1>1, <1>3, <1>4 DEF Done

LEMMA StageStep == Stage /\ [AluNext]_aluVars => Stage'
<1> SUFFICES ASSUME Stage, [AluNext]_aluVars PROVE Stage'
  OBVIOUS
<1>1. CASE UNCHANGED aluVars
  BY <1>1 DEF Stage, aluVars, Done, Typed, After, DecimalExact, Uses
<1>2. CASE ins = "none" /\ \E i \in Binary, a \in Octet, b \in Operands : Execute(i, a, b)
  <2>1. PICK i \in Binary, a \in Octet, b \in Operands : Execute(i, a, b)
    BY <1>2, Zenon
  <2>2. i \in Every /\ i \notin Unary /\ i \notin Wide /\ i # "none"
    BY DEF Every, Binary, Unary, Wide
  <2>3. a \in Octet /\ b \in Octet
    BY AluAssumption
  <2>4. Done'
    BY <1>2, <2>1, <2>2, <2>3, ExecuteDone, Zenon DEF Stage
  <2>5. ins' = i /\ adj' = FALSE
    BY <1>2, <2>1, Zenon DEF Execute, Stage
  <2> QED
    BY <2>2, <2>4, <2>5 DEF Stage
<1>3. CASE ins = "none" /\ \E i \in Unary, a \in Octet : Execute(i, a, 0)
  <2>1. PICK i \in Unary, a \in Octet : Execute(i, a, 0)
    BY <1>3, Zenon
  <2>2. i \in Every /\ i \notin Binary /\ i \notin Wide /\ i # "none"
    BY DEF Every, Binary, Unary, Wide
  <2>4. Done'
    BY <1>3, <2>1, <2>2, ExecuteDone, Zenon DEF Stage
  <2>5. ins' = i /\ adj' = FALSE
    BY <1>3, <2>1, Zenon DEF Execute, Stage
  <2> QED
    BY <2>2, <2>4, <2>5 DEF Stage
<1>4. CASE ins = "none" /\ \E i \in Wide, a, b \in Operands16 : Execute(i, a, b)
  <2>1. PICK i \in Wide, a \in Operands16, b \in Operands16 : Execute(i, a, b)
    BY <1>4, Zenon
  <2>2. i \in Every /\ i \notin Binary /\ i \notin Unary /\ i # "none"
    BY DEF Every, Binary, Unary, Wide
  <2>3. a \in Pair /\ b \in Pair
    BY AluAssumption
  <2>4. Done'
    BY <1>4, <2>1, <2>2, <2>3, ExecuteDone, Zenon DEF Stage
  <2>5. ins' = i /\ adj' = FALSE
    BY <1>4, <2>1, Zenon DEF Execute, Stage
  <2> QED
    BY <2>2, <2>4, <2>5 DEF Stage
<1>5. CASE Adjust
  <2> DEFINE e == Daa(reg, f, 0)
  <2>1. /\ ins \in Counted
        /\ ~adj
        /\ reg' = e.reg
        /\ f' = e.f
        /\ adj' = TRUE
        /\ ins' = ins
        /\ op2' = op2
        /\ old' = old
    BY <1>5, Zenon DEF Adjust
  <2>2. Done /\ ins # "none"
    BY <2>1 DEF Stage, Counted
  <2> HIDE DEF e
  <2>3. DecimalExact'
    <3> SUFFICES ASSUME IsDecimal(old.reg), IsDecimal(op2), ins \in {"INC", "DEC"} => ~old.f.c
                 PROVE  IsDecimal(reg') /\ Decimal(reg') = Total % 100 /\ f'.c = (Total \notin 0..99)
      BY <2>1, Zenon DEF DecimalExact, Total, Uses
    <3>1. Gives(e.reg, e.f.c, Total)
      BY <2>1, <2>2, AdjustGives, Zenon DEF e
    <3> QED
      BY <2>1, <3>1 DEF Gives
  <2> QED
    BY <2>1, <2>2, <2>3 DEF Stage
<1> QED
  BY <1>1, <1>2, <1>3, <1>4, <1>5, Zenon DEF AluNext

(* Single instructions are the Z80's.                                      *)
LEMMA StageRight == Stage => AluRight /\ DecimalExact
<1> SUFFICES ASSUME Stage PROVE AluRight /\ DecimalExact
  OBVIOUS
<1>1. AluRight
  <2>1. CASE ins # "none" /\ ~adj
    BY <2>1, DoneRight DEF Stage
  <2>2. CASE ~(ins # "none" /\ ~adj)
    BY <2>2 DEF AluRight
  <2> QED
    BY <2>1, <2>2
<1>2. DecimalExact
  BY Zenon DEF Stage, DecimalExact
<1> QED
  BY <1>1, <1>2

(* Whatever bytes an instruction is given: the 8- and 16-bit arithmetic,   *)
(* logic, shift and bit instructions leave the value and every flag the    *)
(* Z80 defines, and DAA after a sum or a difference leaves the decimal one *)
(* and its carry; and in memory of any size LDIR, LDDR, CPIR, CPDR, their  *)
(* single steps, RLD and RRD leave what the Z80 leaves, which moves and    *)
(* compares one byte at a time, until a loop is counted from 0 or runs     *)
(* over an end of the memory (em180.asm).                                  *)
THEOREM InstructionsTheorem == InstructionSpec => []InstructionsRight
<1>1. Agreed => BlocksRight
  BY DEF Agreed, BlocksRight
<1>2. BlockInit => Agreed
  <2> SUFFICES ASSUME BlockInit PROVE Agreed
    OBVIOUS
  <2>1. cpu \in Machine
    BY BlockInitOK
  <2>2. z80 = cpu /\ strayed = FALSE
    BY Zenon DEF BlockInit
  <2> QED
    BY <2>1, <2>2 DEF Agreed
<1>3. (Stage /\ Agreed) => InstructionsRight
  BY <1>1, StageRight DEF InstructionsRight
<1> QED
  BY <1>2, <1>3, BlockStep, StageInit, StageStep, PTL DEF InstructionSpec
=============================================================================
