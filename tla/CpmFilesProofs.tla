--------------------------- MODULE CpmFilesProofs ---------------------------
(***************************************************************************)
(* Proofs about CpmFiles for every set of FCBs and files, every number of  *)
(* slots and every size of a record, an extent and a file.  The functions  *)
(* of cpm.c are operators on a state s = [disk, slot, fcb], so the         *)
(* invariant is one on s, the set L of opened FCBs and whether a write has *)
(* failed; a lemma for each function says what it keeps of it.             *)
(***************************************************************************)
EXTENDS CpmFiles, WellFoundedInduction, SequenceTheorems, TLAPS

(* The size no file reaches.                                               *)
Bound == (MaxRec + 1) * Rec

SlotType == [open : BOOLEAN, name : Names, at : 0..Bound,
             dir : {"none", "read", "write"}, pos : 0..Bound,
             addr : FcbAddr \cup {NoFile}, wr : BOOLEAN, mod : BOOLEAN]

FcbType == [name : Names, d0 : 0..MaxFcb, max : 0..MaxRec + 1,
            ex : 0..ExMod - 1, cr : 0..Ext - 1, rc : 0..Ext - 1]

States == [disk : [Names -> Seq(Byte) \cup {NoFile}],
           slot : [Slots -> SlotType], fcb : [FcbAddr -> FcbType]]

(* Every file is shorter than the bound.                                   *)
Short(s) == \A n \in Names : s.disk[n] # NoFile => Len(s.disk[n]) < Bound

(* The position kept in a slot is the file's, or behind it by a part of a  *)
(* record once a write has failed; wr is the direction of the last use.    *)
SlotOK(s, i, bad) ==
  /\ s.slot[i].pos <= s.slot[i].at /\ s.slot[i].at < s.slot[i].pos + Rec
  /\ ~bad => s.slot[i].at = s.slot[i].pos
  /\ s.slot[i].dir = "read" => ~s.slot[i].wr
  /\ s.slot[i].dir = "write" => s.slot[i].wr

(* An opened FCB has a slot of its own or none, its file exists, the       *)
(* number of records it keeps is the file's, and rc can truncate nothing.  *)
FcbOK(s, f, bad) ==
  /\ s.fcb[f].d0 # 0 => Own(s, f) /\ s.slot[s.fcb[f].d0 - 1].name = s.fcb[f].name
  /\ s.fcb[f].max % Ext <= s.fcb[f].rc
  /\ s.disk[s.fcb[f].name] # NoFile
  /\ ~bad => s.fcb[f].max = Records(Size(s.disk, s.fcb[f].name))

(* No two opened FCBs name the same file.                                  *)
Apart(s, L) == \A f, g \in L : f # g => s.fcb[f].name # s.fcb[g].name

Good(s, L, bad) ==
  /\ s \in States /\ Short(s) /\ L \subseteq FcbAddr
  /\ \A i \in Slots : SlotOK(s, i, bad)
  /\ \A f \in L : FcbOK(s, f, bad)
  /\ Apart(s, L)

IInv == Good(Now, live, fault) /\ fault \in BOOLEAN /\ calls \in 0..MaxCalls

(***************************************************************************)
(* Arithmetic of records, and the operators on bytes.                      *)
(***************************************************************************)
LEMMA Product ==
  ASSUME NEW a \in Int, NEW b \in Int
  PROVE  /\ a * Rec \in Int
         /\ (a + 1) * Rec = a * Rec + Rec
         /\ a <= b => a * Rec <= b * Rec
         /\ a < b => a * Rec + Rec <= b * Rec
         /\ a * Rec < b * Rec => a < b
<1>1. Rec \in Nat \ {0}
  BY FilesAssumption
<1>2. \A c \in Int : c >= 0 => c * Rec >= 0
  BY <1>1
<1>3. \A c, d \in Int : (c - d) * Rec = c * Rec - d * Rec /\ c * Rec \in Int
  BY <1>1
<1>4. (a + 1) * Rec = a * Rec + Rec
  BY <1>1
<1>5. ASSUME NEW c \in Int, NEW d \in Int, c <= d
      PROVE  c * Rec <= d * Rec
  BY <1>1, <1>2, <1>3, <1>5
<1>6. a <= b => a * Rec <= b * Rec
  BY <1>5
<1>7. a < b => a * Rec + Rec <= b * Rec
  BY <1>4, <1>5, a + 1 \in Int
<1>8. a * Rec < b * Rec => a < b
  BY <1>5, <1>3
<1> QED
  BY <1>3, <1>4, <1>6, <1>7, <1>8

LEMMA Bounds ==
  /\ Rec \in Nat /\ Rec > 0 /\ Ext \in Nat /\ Ext > 1 /\ ExMod \in Nat /\ ExMod > 0
  /\ MaxFcb \in Nat /\ MaxFcb > 0 /\ MaxRec \in Nat /\ RndMax \in Nat
  /\ Bound \in Nat /\ Bound = MaxRec * Rec + Rec /\ Bound >= Rec
<1>1. MaxRec * Rec >= 0
  BY Product, FilesAssumption, 0 * Rec = 0
<1> QED
  BY <1>1, Product, FilesAssumption DEF Bound

(* The records of a file are the fewest that hold it.                      *)
LEMMA RecordsLeast ==
  ASSUME NEW n \in Nat
  PROVE  /\ Records(n) \in Nat
         /\ \A p \in Nat : p * Rec >= n <=> p >= Records(n)
<1>1. Rec \in Nat \ {0}
  BY FilesAssumption
<1> DEFINE q == (n + Rec - 1) \div Rec
<1>2. q \in Int /\ q * Rec <= n + Rec - 1 /\ n + Rec - 1 < q * Rec + Rec
  BY <1>1
<1>3. q \in Nat
  BY <1>1
<1> HIDE DEF q
<1>4. ASSUME NEW p \in Nat, p * Rec >= n
      PROVE  p >= q
  <2>1. SUFFICES ASSUME p < q
                 PROVE  FALSE
    BY <1>3
  <2>2. p * Rec + Rec <= q * Rec
    BY <2>1, <1>3, Product
  <2> QED
    BY <2>2, <1>1, <1>2, <1>4, Product
<1>5. ASSUME NEW p \in Nat, p >= q
      PROVE  p * Rec >= n
  <2>1. q * Rec <= p * Rec /\ q * Rec \in Int /\ p * Rec \in Int
    BY <1>3, <1>5, Product
  <2> QED
    BY <2>1, <1>1, <1>2
<1> QED
  BY <1>3, <1>4, <1>5 DEF q, Records

LEMMA MaxOfTwo ==
  ASSUME NEW a \in Int, NEW b \in Int
  PROVE  Max({a, b}) = IF a >= b THEN a ELSE b
<1> DEFINE m == IF a >= b THEN a ELSE b
<1>1. m \in {a, b} /\ \A y \in {a, b} : m >= y
  OBVIOUS
<1>2. \A x \in {a, b} : (\A y \in {a, b} : x >= y) => x = m
  OBVIOUS
<1> HIDE DEF m
<1>3. Max({a, b}) = m
  BY <1>1, <1>2 DEF Max
<1> QED
  BY <1>3 DEF m

LEMMA MinOfTwo ==
  ASSUME NEW a \in Int, NEW b \in Int
  PROVE  Min({a, b}) = IF a <= b THEN a ELSE b
<1> DEFINE m == IF a <= b THEN a ELSE b
<1>1. m \in {a, b} /\ \A y \in {a, b} : m =< y
  OBVIOUS
<1>2. \A x \in {a, b} : (\A y \in {a, b} : x =< y) => x = m
  OBVIOUS
<1> HIDE DEF m
<1>3. Min({a, b}) = m
  BY <1>1, <1>2 DEF Min
<1> QED
  BY <1>3 DEF m

(* The smallest of some natural numbers is one of them.                    *)
LEMMA MinOfMany ==
  ASSUME NEW S \in SUBSET Nat, S # {}
  PROVE  Min(S) \in S /\ \A y \in S : Min(S) <= y
<1>1. \E x \in S : \A y \in S : ~(<<y, x>> \in OpToRel(<, Nat))
  BY NatLessThanWellFounded, WFMin
<1>2. PICK x \in S : \A y \in S : ~(<<y, x>> \in OpToRel(<, Nat))
  BY <1>1
<1>3. \A y \in S : ~(y < x)
  BY <1>2, Zenon DEF OpToRel
<1>4. \A y \in S : x =< y
  BY <1>3
<1> QED
  BY <1>4 DEF Min

LEMMA WrittenBytes ==
  ASSUME NEW b \in Seq(Byte), NEW o \in Nat, NEW k \in Nat
  PROVE  /\ Written(b, o, k) \in Seq(Byte)
         /\ Len(Written(b, o, k)) = IF Len(b) >= o + k THEN Len(b) ELSE o + k
<1> DEFINE m == IF Len(b) >= o + k THEN Len(b) ELSE o + k
<1>1. m \in Nat /\ Max({Len(b), o + k}) = m
  BY MaxOfTwo
<1>2. Written(b, o, k) \in [1..m -> Byte]
  BY <1>1, FilesAssumption DEF Written
<1> HIDE DEF m
<1>3. Written(b, o, k) \in Seq(Byte) /\ Len(Written(b, o, k)) = m
  BY <1>1, <1>2
<1> QED
  BY <1>3 DEF m

LEMMA ResizedBytes ==
  ASSUME NEW b \in Seq(Byte), NEW k \in Nat
  PROVE  Resized(b, k) \in Seq(Byte) /\ Len(Resized(b, k)) = k
<1>1. Resized(b, k) \in [1..k -> Byte]
  BY FilesAssumption DEF Resized
<1> QED
  BY <1>1

LEMMA GotBytes ==
  ASSUME NEW b \in Seq(Byte), NEW o \in Nat
  PROVE  /\ Got(b, o) \in Seq(Byte)
         /\ Got(b, o) = <<>> <=> o >= Len(b)
         /\ o + Len(Got(b, o)) <= (IF o >= Len(b) THEN o ELSE Len(b))
         /\ Len(Got(b, o)) <= Rec
<1> DEFINE m == IF o + Rec <= Len(b) THEN o + Rec ELSE Len(b)
<1>1. m \in Nat /\ m <= Len(b) /\ Min({o + Rec, Len(b)}) = m /\ m <= o + Rec
  BY MinOfTwo, Bounds
<1>2. m <= o <=> o >= Len(b)
  BY Bounds
<1>3. o < Len(b) => m <= Len(b) /\ m > o
  BY Bounds
<1> HIDE DEF m
<1>4. Got(b, o) = SubSeq(b, o + 1, m)
  BY <1>1 DEF Got
<1>5. Got(b, o) \in Seq(Byte) /\ Len(Got(b, o)) = IF o + 1 <= m THEN m - (o + 1) + 1 ELSE 0
  BY <1>1, <1>4, SubSeqProperties
<1>6. Got(b, o) = <<>> <=> m <= o
  BY <1>1, <1>5, EmptySeq
<1>7. o + Len(Got(b, o)) <= (IF o >= Len(b) THEN o ELSE Len(b))
  BY <1>1, <1>2, <1>5
<1>8. Len(Got(b, o)) <= Rec
  BY <1>1, <1>5, Bounds
<1> QED
  BY <1>2, <1>5, <1>6, <1>7, <1>8

(***************************************************************************)
(* The functions change one slot, one FCB and one file; t is s with slot i *)
(* or FCB f changed to h or c.                                             *)
(***************************************************************************)
SlotSet(s, i, h, t) ==
  /\ t \in States /\ t.disk = s.disk /\ t.fcb = s.fcb
  /\ t.slot[i] = h /\ \A j \in Slots \ {i} : t.slot[j] = s.slot[j]

FcbSet(s, f, c, t) ==
  /\ t \in States /\ t.disk = s.disk /\ t.slot = s.slot
  /\ t.fcb[f] = c /\ \A g \in FcbAddr \ {f} : t.fcb[g] = s.fcb[g]

LEMMA SlotUpdate ==
  ASSUME NEW s \in States, NEW i \in Slots, NEW h \in SlotType
  PROVE  SlotSet(s, i, h, [s EXCEPT !.slot[i] = h])
  BY DEF SlotSet, States

LEMMA FcbUpdate ==
  ASSUME NEW s \in States, NEW f \in FcbAddr, NEW c \in FcbType
  PROVE  FcbSet(s, f, c, [s EXCEPT !.fcb[f] = c])
  BY DEF FcbSet, States

LEMMA DiskUpdate ==
  ASSUME NEW s \in States, NEW n \in Names, NEW b \in Seq(Byte) \cup {NoFile}
  PROVE  LET t == [s EXCEPT !.disk[n] = b] IN
         /\ t \in States /\ t.slot = s.slot /\ t.fcb = s.fcb
         /\ t.disk = [s.disk EXCEPT ![n] = b]
  BY DEF States

LEMMA Parts ==
  ASSUME NEW s \in States
  PROVE  /\ s.disk \in [Names -> Seq(Byte) \cup {NoFile}]
         /\ \A i \in Slots : s.slot[i] \in SlotType
         /\ \A f \in FcbAddr : s.fcb[f] \in FcbType
  BY DEF States

LEMMA FCloseSet ==
  ASSUME NEW s \in States, NEW i \in Slots
  PROVE  SlotSet(s, i, [s.slot[i] EXCEPT !.open = FALSE], FClose(s, i))
<1>1. [s.slot[i] EXCEPT !.open = FALSE] \in SlotType
  BY Parts DEF SlotType
<1> QED
  BY <1>1, SlotUpdate DEF FClose, States

LEMMA FOpenSet ==
  ASSUME NEW s \in States, NEW i \in Slots, NEW n \in Names
  PROVE  SlotSet(s, i, [s.slot[i] EXCEPT !.open = TRUE, !.name = n, !.at = 0, !.dir = "none"],
                 FOpen(s, i, n))
<1> DEFINE h == [s.slot[i] EXCEPT !.open = TRUE, !.name = n, !.at = 0, !.dir = "none"]
<1>0. s.slot[i] \in SlotType /\ 0 \in 0..Bound
  BY Parts, Bounds
<1>1. h \in SlotType
  BY <1>0 DEF SlotType
<1>2. FOpen(s, i, n) = [s EXCEPT !.slot[i] = h]
  BY DEF FOpen
<1> HIDE DEF h
<1>3. SlotSet(s, i, h, FOpen(s, i, n))
  BY <1>1, <1>2, SlotUpdate
<1> QED
  BY <1>3 DEF h

(* What cpm_file_open() leaves in the slot and in the FCB.                 *)
LEMMA OpenedSet ==
  ASSUME NEW s \in States, NEW i \in Slots, NEW f \in FcbAddr,
         NEW recs \in 0..MaxRec + 1, NEW mod \in BOOLEAN
  PROVE  LET t == Opened(s, f, i, recs, mod)
             h == t.slot[i]
             c == t.fcb[f]
         IN /\ t \in States /\ t.disk = s.disk
            /\ \A j \in Slots \ {i} : t.slot[j] = s.slot[j]
            /\ \A g \in FcbAddr \ {f} : t.fcb[g] = s.fcb[g]
            /\ h.open = s.slot[i].open /\ h.name = s.slot[i].name /\ h.at = s.slot[i].at
            /\ h.dir = s.slot[i].dir /\ h.pos = 0 /\ h.addr = f /\ h.wr = mod /\ h.mod = mod
            /\ c.name = s.fcb[f].name /\ c.d0 = i + 1 /\ c.max = recs
            /\ c.rc = IF recs <= Ext - 1 THEN recs ELSE Ext - 1
<1> DEFINE h == [s.slot[i] EXCEPT !.pos = 0, !.addr = f, !.wr = mod, !.mod = mod]
           rc == IF recs <= Ext - 1 THEN recs ELSE Ext - 1
           c == [s.fcb[f] EXCEPT !.ex = 0, !.cr = 0, !.rc = rc, !.max = recs, !.d0 = i + 1]
           u == [s EXCEPT !.slot[i] = h]
           t == Opened(s, f, i, recs, mod)
<1>1. s.slot[i] \in SlotType /\ s.fcb[f] \in FcbType
  BY Parts
<1>11. 0 \in 0..Bound /\ 0 \in 0..ExMod - 1 /\ 0 \in 0..Ext - 1
  BY Bounds
<1>12. h \in SlotType
  BY <1>1, <1>11 DEF SlotType
<1>2. h \in SlotType /\ h.open = s.slot[i].open /\ h.name = s.slot[i].name
      /\ h.at = s.slot[i].at /\ h.dir = s.slot[i].dir /\ h.pos = 0 /\ h.addr = f
      /\ h.wr = mod /\ h.mod = mod
  BY <1>1, <1>12 DEF SlotType
<1>3. Min({recs, Ext - 1}) = rc /\ rc \in 0..Ext - 1
  BY MinOfTwo, Bounds
<1> HIDE DEF rc
<1>4. i + 1 \in 0..MaxFcb
  BY Bounds DEF Slots
<1>51. c \in FcbType
  BY <1>1, <1>11, <1>3, <1>4 DEF FcbType
<1>5. c \in FcbType /\ c.name = s.fcb[f].name /\ c.d0 = i + 1 /\ c.max = recs /\ c.rc = rc
  BY <1>1, <1>51 DEF FcbType
<1>6. t = [u EXCEPT !.fcb[f] = c]
  BY <1>3 DEF Opened, States
<1> HIDE DEF h, c
<1>7. SlotSet(s, i, h, u)
  BY <1>2, SlotUpdate
<1> HIDE DEF u, t
<1>8. FcbSet(u, f, c, t)
  BY <1>5, <1>6, <1>7, FcbUpdate DEF SlotSet
<1>9. t \in States /\ t.disk = s.disk /\ t.slot = u.slot /\ t.slot[i] = h /\ t.fcb[f] = c
  BY <1>7, <1>8 DEF SlotSet, FcbSet
<1>10. /\ \A j \in Slots \ {i} : t.slot[j] = s.slot[j]
       /\ \A g \in FcbAddr \ {f} : t.fcb[g] = s.fcb[g]
  BY <1>7, <1>8, <1>9 DEF SlotSet, FcbSet
<1> QED
  BY <1>2, <1>5, <1>9, <1>10 DEF rc, t

LEMMA AtSet ==
  ASSUME NEW s \in States, NEW f \in FcbAddr, NEW p \in Nat
  PROVE  LET t == At(s, f, p) IN
         /\ FcbSet(s, f, t.fcb[f], t) /\ t.fcb[f].name = s.fcb[f].name
         /\ t.fcb[f].d0 = s.fcb[f].d0 /\ t.fcb[f].max = s.fcb[f].max /\ t.fcb[f].rc = s.fcb[f].rc
<1> DEFINE x == (p \div Ext) % ExMod
           y == p % Ext
           c == [s.fcb[f] EXCEPT !.cr = y, !.ex = x]
<1>1. s.fcb[f] \in FcbType
  BY Parts
<1>2. p \div Ext \in Nat /\ y \in 0..Ext - 1
  BY Bounds
<1>3. x \in 0..ExMod - 1
  BY <1>2, Bounds
<1>4. At(s, f, p) = [s EXCEPT !.fcb[f] = c]
  BY DEF At
<1> HIDE DEF x, y
<1>5. c \in FcbType /\ c.name = s.fcb[f].name /\ c.d0 = s.fcb[f].d0 /\ c.max = s.fcb[f].max
      /\ c.rc = s.fcb[f].rc
  BY <1>1, <1>2, <1>3 DEF FcbType
<1> HIDE DEF c
<1>6. FcbSet(s, f, c, At(s, f, p))
  BY <1>4, <1>5, FcbUpdate
<1> QED
  BY <1>5, <1>6 DEF FcbSet

(***************************************************************************)
(* A step that changes the FCB f, a slot that is free or f's, and no file  *)
(* of another opened FCB, has only f and the slot to answer for.           *)
(***************************************************************************)
LEMMA Local ==
  ASSUME NEW s, NEW t, NEW L, NEW M, NEW bad \in BOOLEAN, NEW worse \in BOOLEAN,
         NEW f \in FcbAddr, NEW i \in Slots,
         Good(s, L, bad), bad => worse, M \subseteq L \cup {f},
         t \in States, Short(t),
         \A j \in Slots \ {i} : t.slot[j] = s.slot[j],
         \A g \in FcbAddr \ {f} : t.fcb[g] = s.fcb[g],
         t.slot[i] = s.slot[i] \/ ~s.slot[i].open \/ s.slot[i].addr = f,
         \A g \in M \ {f} : t.disk[s.fcb[g].name] = s.disk[s.fcb[g].name],
         f \in M => /\ FcbOK(t, f, worse)
                    /\ \A g \in M \ {f} : s.fcb[g].name # t.fcb[f].name,
         SlotOK(t, i, worse)
  PROVE  Good(t, M, worse)
<1>1. s \in States /\ L \subseteq FcbAddr /\ M \subseteq FcbAddr
  BY DEF Good
<1>2. \A j \in Slots : SlotOK(t, j, worse)
  <2>1. TAKE j \in Slots
  <2>2. SlotOK(s, j, bad)
    BY DEF Good
  <2> QED
    BY <2>2 DEF SlotOK
<1>3. ASSUME NEW g \in M
      PROVE  FcbOK(t, g, worse)
  <2>1. CASE g = f
    BY <2>1, <1>3
  <2>2. CASE g # f
    <3>1. g \in L /\ g \in FcbAddr /\ t.fcb[g] = s.fcb[g] /\ FcbOK(s, g, bad)
      BY <1>1, <1>3, <2>2 DEF Good
    <3>2. s.fcb[g] \in FcbType
      BY <1>1, <3>1, Parts
    <3>3. ASSUME s.fcb[g].d0 # 0
          PROVE  Own(t, g) /\ t.slot[s.fcb[g].d0 - 1].name = s.fcb[g].name
      <4>1. s.fcb[g].d0 - 1 \in Slots
        BY <3>2, <3>3, Bounds DEF FcbType, Slots
      <4>2. Own(s, g) /\ s.slot[s.fcb[g].d0 - 1].name = s.fcb[g].name
        BY <3>1, <3>3 DEF FcbOK
      <4>3. t.slot[s.fcb[g].d0 - 1] = s.slot[s.fcb[g].d0 - 1]
        BY <4>1, <4>2, <2>2 DEF Own, HasSlot
      <4> QED
        BY <3>1, <4>2, <4>3 DEF Own, HasSlot
    <3>4. t.disk[s.fcb[g].name] = s.disk[s.fcb[g].name]
      BY <1>3, <2>2
    <3> QED
      BY <3>1, <3>3, <3>4 DEF FcbOK, Size
  <2> QED
    BY <2>1, <2>2
<1>4. ASSUME NEW g \in M, NEW h \in M, g # h
      PROVE  t.fcb[g].name # t.fcb[h].name
  <2>1. Apart(s, L)
    BY DEF Good
  <2>2. CASE g # f /\ h # f
    BY <1>1, <1>4, <2>1, <2>2 DEF Apart
  <2>3. CASE g = f
    BY <1>1, <1>4, <2>3
  <2>4. CASE h = f
    BY <1>1, <1>4, <2>4
  <2> QED
    BY <2>2, <2>3, <2>4
<1>5. Apart(t, M)
  BY <1>4 DEF Apart
<1> QED
  BY <1>1, <1>2, <1>3, <1>5 DEF Good

(* An FCB that is right can be counted with the opened ones.               *)
LEMMA AddLive ==
  ASSUME NEW s, NEW L, NEW bad \in BOOLEAN, NEW f \in FcbAddr,
         Good(s, L \ {f}, bad), FcbOK(s, f, bad), L \subseteq FcbAddr,
         \A g \in L \ {f} : s.fcb[g].name # s.fcb[f].name
  PROVE  Good(s, L \cup {f}, bad)
<1>1. \A g \in L \cup {f} : FcbOK(s, g, bad)
  BY DEF Good
<1>2. Apart(s, L \cup {f})
  BY DEF Good, Apart
<1> QED
  BY <1>1, <1>2 DEF Good

LEMMA Fewer ==
  ASSUME NEW s, NEW L, NEW M \in SUBSET L, NEW bad, Good(s, L, bad)
  PROVE  Good(s, M, bad)
  BY DEF Good, Apart

(***************************************************************************)
(* cpm_file_open().                                                        *)
(***************************************************************************)
LEMMA PickSlot ==
  ASSUME NEW s \in States, NEW f \in FcbAddr
  PROVE  /\ Pick(s, f) \in 0..MaxFcb
         /\ Pick(s, f) # MaxFcb =>
              /\ Pick(s, f) \in Slots
              /\ ~s.slot[Pick(s, f)].open \/ s.slot[Pick(s, f)].addr = f
         /\ Pick(s, f) = MaxFcb => \A i \in Slots : s.slot[i].open
         /\ Own(s, f) => Pick(s, f) = s.fcb[f].d0 - 1
<1> DEFINE S == {i \in Slots : ~s.slot[i].open \/ s.slot[i].addr = f} \cup {MaxFcb}
<1>1. S \in SUBSET Nat /\ S # {} /\ S \subseteq 0..MaxFcb
  BY Bounds DEF Slots
<1>2. Min(S) \in S /\ \A y \in S : Min(S) <= y
  BY <1>1, MinOfMany
<1>3. CASE Own(s, f)
  <2>1. Pick(s, f) = s.fcb[f].d0 - 1
    BY <1>3 DEF Pick
  <2> QED
    BY <1>3, <2>1, Bounds DEF Own, HasSlot, Slots
<1>4. CASE ~Own(s, f)
  <2>1. Pick(s, f) = Min(S)
    BY <1>4 DEF Pick
  <2>2. Min(S) = MaxFcb => \A i \in Slots : s.slot[i].open
    BY <1>2, Bounds DEF Slots
  <2> QED
    BY <1>1, <1>2, <1>4, <2>1, <2>2, Bounds DEF Slots
<1> QED
  BY <1>3, <1>4

LEMMA RecordsBound ==
  ASSUME NEW s \in States, Short(s), NEW n \in Names
  PROVE  /\ Size(s.disk, n) \in Nat /\ Size(s.disk, n) < Bound
         /\ Records(Size(s.disk, n)) \in 0..MaxRec + 1
<1>1. s.disk[n] # NoFile => s.disk[n] \in Seq(Byte)
  BY Parts
<1>2. Size(s.disk, n) \in Nat /\ Size(s.disk, n) < Bound
  BY <1>1, Bounds DEF Size, Short
<1>3. MaxRec + 1 \in Nat /\ (MaxRec + 1) * Rec = Bound
  BY Bounds DEF Bound
<1>4. MaxRec + 1 >= Records(Size(s.disk, n)) /\ Records(Size(s.disk, n)) \in Nat
  BY <1>2, <1>3, RecordsLeast, Bounds
<1> QED
  BY <1>2, <1>3, <1>4

(* Closing a slot that no other opened FCB has.                            *)
LEMMA FCloseOK ==
  ASSUME NEW s, NEW L, NEW bad \in BOOLEAN, NEW f \in FcbAddr, NEW i \in Slots,
         Good(s, L, bad), ~s.slot[i].open \/ s.slot[i].addr = f
  PROVE  Good(FClose(s, i), L \ {f}, bad)
<1> DEFINE t == FClose(s, i)
<1>1. s \in States /\ Short(s) /\ SlotOK(s, i, bad) /\ s.slot[i] \in SlotType
  BY Parts DEF Good
<1>2. SlotSet(s, i, [s.slot[i] EXCEPT !.open = FALSE], t)
  BY <1>1, FCloseSet
<1> HIDE DEF t
<1>3. Short(t) /\ t \in States /\ t.disk = s.disk /\ t.fcb = s.fcb
  BY <1>1, <1>2 DEF Short, SlotSet
<1>4. SlotOK(t, i, bad)
  BY <1>1, <1>2 DEF SlotSet, SlotOK, SlotType
<1>5. \A j \in Slots \ {i} : t.slot[j] = s.slot[j]
  BY <1>2 DEF SlotSet
<1>6. Good(t, L \ {f}, bad)
  BY <1>3, <1>4, <1>5, Local
<1> QED
  BY <1>6 DEF t

(* What cpm_file_open() does when it succeeds, on the file d[n] # NoFile,  *)
(* which it has made or found.                                             *)
OpenedAs(s, f, i, mod, d, t) ==
  LET h == t.slot[i]
      n == s.fcb[f].name
  IN /\ t \in States /\ t.disk = d /\ i \in Slots
     /\ \A j \in Slots \ {i} : t.slot[j] = s.slot[j]
     /\ \A g \in FcbAddr \ {f} : t.fcb[g] = s.fcb[g]
     /\ h.open = TRUE /\ h.name = n /\ h.at = 0 /\ h.dir = "none" /\ h.pos = 0
     /\ h.addr = f /\ h.wr = mod /\ h.mod = mod
     /\ t.fcb[f].name = n /\ t.fcb[f].d0 = i + 1 /\ t.fcb[f].max = Records(Size(d, n))
     /\ t.fcb[f].max % Ext <= t.fcb[f].rc /\ t.fcb[f].max \in 0..MaxRec + 1

LEMMA OpenedAsOK ==
  ASSUME NEW s, NEW t, NEW L, NEW bad \in BOOLEAN, NEW f \in FcbAddr, NEW i \in Slots,
         NEW mod \in BOOLEAN, NEW d, Good(s, L, bad), OpenedAs(s, f, i, mod, d, t), Short(t),
         ~s.slot[i].open \/ s.slot[i].addr = f,
         \A g \in L \ {f} : d[s.fcb[g].name] = s.disk[s.fcb[g].name],
         d[s.fcb[f].name] # NoFile
  PROVE  Good(t, L \ {f}, bad) /\ FcbOK(t, f, bad)
<1>1. SlotOK(t, i, bad)
  BY Bounds DEF OpenedAs, SlotOK
<1>2. Good(t, L \ {f}, bad)
  <2>1. t \in States /\ t.disk = d
    BY DEF OpenedAs
  <2>2. /\ \A j \in Slots \ {i} : t.slot[j] = s.slot[j]
        /\ \A g \in FcbAddr \ {f} : t.fcb[g] = s.fcb[g]
    BY DEF OpenedAs
  <2> QED
    BY <1>1, <2>1, <2>2, Local
<1>3. Own(t, f)
  BY Bounds DEF OpenedAs, Own, HasSlot, Slots
<1>4. FcbOK(t, f, bad)
  BY <1>3, Bounds DEF OpenedAs, FcbOK, Slots
<1> QED
  BY <1>2, <1>4

(* A slot with a file newly opened.                                        *)
Fresh(s, i, n, u) ==
  /\ u \in States /\ u.fcb = s.fcb
  /\ \A j \in Slots \ {i} : u.slot[j] = s.slot[j]
  /\ u.slot[i].open = TRUE /\ u.slot[i].name = n /\ u.slot[i].at = 0 /\ u.slot[i].dir = "none"

LEMMA FreshSlot ==
  ASSUME NEW s \in States, NEW i \in Slots, NEW n \in Names
  PROVE  LET u == FOpen(FClose(s, i), i, n) IN Fresh(s, i, n, u) /\ u.disk = s.disk
<1> DEFINE t == FClose(s, i)
           u == FOpen(t, i, n)
<1>1. SlotSet(s, i, [s.slot[i] EXCEPT !.open = FALSE], t)
  BY FCloseSet
<1> HIDE DEF t
<1>2. t \in States
  BY <1>1 DEF SlotSet
<1>3. SlotSet(t, i, [t.slot[i] EXCEPT !.open = TRUE, !.name = n, !.at = 0, !.dir = "none"], u)
  BY <1>2, FOpenSet
<1> HIDE DEF u
<1>4. u \in States /\ u.disk = s.disk /\ u.fcb = s.fcb /\ t.slot[i] \in SlotType
  BY <1>1, <1>3, Parts DEF SlotSet
<1>5. u.slot[i].open = TRUE /\ u.slot[i].name = n /\ u.slot[i].at = 0 /\ u.slot[i].dir = "none"
  BY <1>3, <1>4 DEF SlotSet, SlotType
<1>6. \A j \in Slots \ {i} : u.slot[j] = s.slot[j]
  BY <1>1, <1>3 DEF SlotSet
<1>7. Fresh(s, i, n, u) /\ u.disk = s.disk
  BY <1>4, <1>5, <1>6 DEF Fresh
<1> QED
  BY <1>7 DEF u, t

LEMMA FreshOpenedAs ==
  ASSUME NEW s \in States, NEW f \in FcbAddr, NEW i \in Slots, NEW mod \in BOOLEAN,
         NEW u, Fresh(s, i, s.fcb[f].name, u),
         NEW recs \in 0..MaxRec + 1, recs = Records(Size(u.disk, s.fcb[f].name))
  PROVE  OpenedAs(s, f, i, mod, u.disk, Opened(u, f, i, recs, mod))
<1> DEFINE v == Opened(u, f, i, recs, mod)
<1>1. u \in States
  BY DEF Fresh
<1>2. /\ v \in States /\ v.disk = u.disk
      /\ \A j \in Slots \ {i} : v.slot[j] = u.slot[j]
      /\ \A g \in FcbAddr \ {f} : v.fcb[g] = u.fcb[g]
      /\ v.slot[i].open = u.slot[i].open /\ v.slot[i].name = u.slot[i].name
      /\ v.slot[i].at = u.slot[i].at /\ v.slot[i].dir = u.slot[i].dir
      /\ v.slot[i].pos = 0 /\ v.slot[i].addr = f
      /\ v.slot[i].wr = mod /\ v.slot[i].mod = mod
      /\ v.fcb[f].name = u.fcb[f].name /\ v.fcb[f].d0 = i + 1 /\ v.fcb[f].max = recs
      /\ v.fcb[f].rc = IF recs <= Ext - 1 THEN recs ELSE Ext - 1
  BY <1>1, OpenedSet
<1> HIDE DEF v
<1>3. v.fcb[f].max % Ext <= v.fcb[f].rc
  BY <1>2, Bounds
<1>4. OpenedAs(s, f, i, mod, u.disk, v)
  BY <1>2, <1>3 DEF OpenedAs, Fresh
<1> QED
  BY <1>4 DEF v

(* What cpm_file_open() gives, and what it keeps.                          *)
FileOpenGives(s, L, bad, f, mode, r) ==
  LET t == r.s
      n == s.fcb[f].name
  IN /\ r.ret \in {0, 255} /\ r.clash = FALSE
     /\ Good(t, L \ {f}, bad) /\ t.fcb[f].name = n
     /\ \A g \in FcbAddr \ {f} : t.fcb[g] = s.fcb[g]
     /\ mode # "create" => t.disk = s.disk
     /\ r.ret = 0 => /\ FcbOK(t, f, bad) /\ s.slot \in [Slots -> SlotType]
                     /\ \E i \in Slots : OpenedAs(s, f, i, mode = "create", t.disk, t)
     /\ r.ret = 255 =>
          /\ t.fcb = s.fcb /\ t.disk = s.disk
          /\ \/ \A i \in Slots : t.slot[i].open
             \/ mode # "create" /\ s.disk[n] = NoFile
             \/ mode = "create" /\ s.disk[n] # NoFile
             \/ mode # "open" /\ n \in ReadOnly

LEMMA FileOpenOK ==
  ASSUME NEW s, NEW L, NEW bad \in BOOLEAN, NEW f \in FcbAddr,
         NEW mode \in {"open", "wropen", "create"}, Good(s, L, bad),
         mode = "create" => \A g \in L \ {f} : s.fcb[g].name # s.fcb[f].name
  PROVE  FileOpenGives(s, L, bad, f, mode, FileOpen(s, f, mode))
<1> DEFINE i == Pick(s, f)
           n == s.fcb[f].name
           t == FClose(s, i)
           o == FOpen(t, i, n)
           u == IF mode = "create" THEN [o EXCEPT !.disk[n] = <<>>] ELSE o
           recs == IF mode = "create" THEN 0 ELSE Records(Size(s.disk, n))
           mod == mode = "create"
           refused == \/ mode = "create" /\ s.disk[n] # NoFile
                      \/ mode # "create" /\ s.disk[n] = NoFile
                      \/ mode # "open" /\ n \in ReadOnly
           r == FileOpen(s, f, mode)
<1>1. s \in States /\ Short(s) /\ L \subseteq FcbAddr
  BY DEF Good
<1>2. n \in Names /\ s.slot \in [Slots -> SlotType] /\ mod \in BOOLEAN
  BY <1>1, Parts DEF FcbType, States
<1>3. /\ i \in 0..MaxFcb
      /\ i # MaxFcb => i \in Slots /\ (~s.slot[i].open \/ s.slot[i].addr = f)
      /\ i = MaxFcb => \A j \in Slots : s.slot[j].open
  BY <1>1, PickSlot
<1>4. r = IF i = MaxFcb THEN Done(s, 255)
          ELSE IF refused THEN Done(t, 255)
          ELSE Done(Opened(u, f, i, recs, mod), 0)
  BY Zenon DEF FileOpen
<1>5. CASE i = MaxFcb
  <2>1. r.s = s /\ r.ret = 255 /\ r.clash = FALSE
    BY <1>4, <1>5 DEF Done
  <2>2. Good(s, L \ {f}, bad)
    BY Fewer
  <2> QED
    BY <1>3, <1>5, <2>1, <2>2 DEF FileOpenGives
<1>6. CASE i # MaxFcb /\ refused
  <2>1. r.s = t /\ r.ret = 255 /\ r.clash = FALSE
    BY <1>4, <1>6 DEF Done
  <2>2. Good(t, L \ {f}, bad)
    BY <1>3, <1>6, FCloseOK
  <2>3. SlotSet(s, i, [s.slot[i] EXCEPT !.open = FALSE], t)
    BY <1>1, <1>3, <1>6, FCloseSet
  <2>4. t.fcb = s.fcb /\ t.disk = s.disk
    BY <2>3 DEF SlotSet
  <2> QED
    BY <1>6, <2>1, <2>2, <2>4 DEF FileOpenGives
<1>7. CASE i # MaxFcb /\ ~refused
  <2> DEFINE v == Opened(u, f, i, recs, mod)
  <2>1. i \in Slots /\ (~s.slot[i].open \/ s.slot[i].addr = f)
    BY <1>3, <1>7
  <2>2. r.s = v /\ r.ret = 0 /\ r.clash = FALSE
    BY <1>4, <1>7 DEF Done
  <2> HIDE DEF i
  <2>3. Fresh(s, i, n, o) /\ o.disk = s.disk
    BY <1>1, <1>2, <2>1, FreshSlot
  <2> HIDE DEF t, o, n
  <2>4. /\ Fresh(s, i, n, u)
        /\ recs = Records(Size(u.disk, n)) /\ recs \in 0..MaxRec + 1
        /\ u.disk[n] # NoFile
        /\ mode # "create" => u.disk = s.disk
        /\ \A m \in Names \ {n} : u.disk[m] = s.disk[m]
        /\ mode = "create" => Len(u.disk[n]) = 0
    <3>1. CASE mode = "create"
      <4>1. o \in States /\ <<>> \in Seq(Byte) \cup {NoFile} /\ <<>> # NoFile
        BY <2>3, FilesAssumption, EmptySeq DEF Fresh
      <4>2. u \in States /\ u.slot = o.slot /\ u.fcb = o.fcb /\ u.disk = [o.disk EXCEPT ![n] = <<>>]
        <5>1. u = [o EXCEPT !.disk[n] = <<>>]
          BY <3>1 DEF o, t, n
        <5> HIDE DEF u, r, v, recs, mod, refused
        <5>2. o \in States /\ n \in Names /\ <<>> \in Seq(Byte) \cup {NoFile}
          BY <4>1, <1>2
        <5> DEFINE q == [o EXCEPT !.disk[n] = <<>>]
        <5>3. q \in States /\ q.slot = o.slot /\ q.fcb = o.fcb /\ q.disk = [o.disk EXCEPT ![n] = <<>>]
          BY <5>2, DiskUpdate
        <5> QED
          BY <5>1, <5>3
      <4>3. u.disk[n] = <<>> /\ \A m \in Names \ {n} : u.disk[m] = s.disk[m]
        BY <4>1, <4>2, <2>3, <1>2, Parts
      <4>4. Size(u.disk, n) = 0
        BY <4>1, <4>3 DEF Size
      <4>5. Records(0) = 0
        BY RecordsLeast, Bounds, 0 * Rec = 0
      <4>6. Fresh(s, i, n, u)
        BY <2>3, <4>2 DEF Fresh
      <4> QED
        BY <3>1, <4>1, <4>3, <4>4, <4>5, <4>6, Bounds DEF recs
    <3>2. CASE mode # "create"
      <4>1. Records(Size(s.disk, n)) \in 0..MaxRec + 1
        BY <1>1, <1>2, RecordsBound
      <4>2. u = o /\ recs = Records(Size(s.disk, n)) /\ s.disk[n] # NoFile
        BY <3>2, <1>7
      <4> QED
        BY <3>2, <2>3, <4>1, <4>2
    <3> QED
      BY <3>1, <3>2
  <2> HIDE DEF u, recs, mod
  <2>5. OpenedAs(s, f, i, mod, u.disk, v)
    BY <1>1, <1>2, <2>1, <2>4, FreshOpenedAs DEF n
  <2> HIDE DEF v
  <2>6. v \in States /\ v.disk = u.disk /\ v.fcb[f].name = n
        /\ \A g \in FcbAddr \ {f} : v.fcb[g] = s.fcb[g]
    BY <2>5 DEF OpenedAs, n
  <2>7. Short(v)
    <3>1. CASE mode # "create"
      BY <1>1, <2>4, <2>6, <3>1 DEF Short
    <3>2. CASE mode = "create"
      <4>1. Len(u.disk[n]) < Bound
        <5>1. Len(u.disk[n]) = 0
          BY <2>4, <3>2
        <5> QED
          BY <5>1, Bounds
      <4>2. \A m \in Names \ {n} : u.disk[m] # NoFile => Len(u.disk[m]) < Bound
        BY <1>1, <2>4 DEF Short
      <4> QED
        BY <2>6, <4>1, <4>2 DEF Short
    <3> QED
      BY <3>1, <3>2
  <2>8. \A g \in L \ {f} : u.disk[s.fcb[g].name] = s.disk[s.fcb[g].name]
    <3>1. TAKE g \in L \ {f}
    <3>2. s.fcb[g].name \in Names
      BY <1>1, Parts DEF FcbType
    <3> QED
      BY <2>4, <3>2 DEF n
  <2>9. Good(v, L \ {f}, bad) /\ FcbOK(v, f, bad)
    <3>1. mod \in BOOLEAN /\ u.disk[s.fcb[f].name] # NoFile
      BY <1>2, <2>4 DEF n
    <3> QED
      BY <3>1, <2>1, <2>5, <2>7, <2>8, OpenedAsOK
  <2>10. \E j \in Slots : OpenedAs(s, f, j, mod, v.disk, v)
    BY <2>1, <2>5, <2>6
  <2> QED
    BY <1>2, <2>2, <2>4, <2>6, <2>9, <2>10 DEF FileOpenGives, n, mod
<1> QED
  BY <1>5, <1>6, <1>7

(***************************************************************************)
(* cpm_file_close().                                                       *)
(***************************************************************************)
(* t is s without the slot of f.                                           *)
Detached(s, f, t) ==
  /\ t \in States /\ t.disk = s.disk
  /\ \A g \in FcbAddr \ {f} : t.fcb[g] = s.fcb[g]
  /\ t.fcb[f].name = s.fcb[f].name /\ t.fcb[f].d0 = 0
  /\ t.fcb[f].max = s.fcb[f].max /\ t.fcb[f].rc = s.fcb[f].rc

LEMMA FileCloseSet ==
  ASSUME NEW s \in States, NEW f \in FcbAddr
  PROVE  LET r == FileClose(s, f)
             i == s.fcb[f].d0 - 1
         IN /\ r.ret = 0 /\ r.clash = FALSE /\ Detached(s, f, r.s)
            /\ s.fcb[f].d0 # 0 =>
                 i \in Slots /\ r.s.slot[i] = [s.slot[i] EXCEPT !.open = FALSE]
            /\ \A j \in Slots \ {i} : r.s.slot[j] = s.slot[j]
<1> DEFINE r == FileClose(s, f)
           i == s.fcb[f].d0 - 1
           c == [s.fcb[f] EXCEPT !.d0 = 0]
           t == FClose(s, i)
           u == [t EXCEPT !.fcb[f].d0 = 0]
<1>1. s.fcb[f] \in FcbType /\ s.fcb[f].d0 \in 0..MaxFcb
  BY Parts DEF FcbType
<1>2. c \in FcbType /\ c.name = s.fcb[f].name /\ c.d0 = 0 /\ c.max = s.fcb[f].max
      /\ c.rc = s.fcb[f].rc
  BY <1>1, Bounds DEF FcbType
<1>3. CASE s.fcb[f].d0 = 0
  <2>1. r.s = s /\ r.ret = 0 /\ r.clash = FALSE
    BY <1>3 DEF FileClose, Done
  <2> QED
    BY <1>3, <2>1 DEF Detached
<1>4. CASE s.fcb[f].d0 # 0
  <2>1. i \in Slots /\ s.fcb[f].d0 \in 1..MaxFcb
    BY <1>1, <1>4, Bounds DEF Slots
  <2>2. r.s = u /\ r.ret = 0 /\ r.clash = FALSE
    BY <2>1 DEF FileClose, Done
  <2>3. SlotSet(s, i, [s.slot[i] EXCEPT !.open = FALSE], t)
    BY <2>1, FCloseSet
  <2> HIDE DEF t
  <2>4. t \in States /\ t.fcb = s.fcb
    BY <2>3 DEF SlotSet
  <2>5. u = [t EXCEPT !.fcb[f] = c]
    BY <2>4
  <2> HIDE DEF c, u
  <2>6. FcbSet(t, f, c, u)
    BY <1>2, <2>4, <2>5, FcbUpdate
  <2>7. Detached(s, f, u)
    BY <1>2, <2>3, <2>6 DEF SlotSet, FcbSet, Detached
  <2>8. u.slot[i] = [s.slot[i] EXCEPT !.open = FALSE]
        /\ \A j \in Slots \ {i} : u.slot[j] = s.slot[j]
    BY <2>3, <2>6 DEF SlotSet, FcbSet
  <2> QED
    BY <1>4, <2>1, <2>2, <2>7, <2>8
<1> QED
  BY <1>3, <1>4

LEMMA FileCloseOthers ==
  ASSUME NEW s, NEW L, NEW bad \in BOOLEAN, NEW f \in FcbAddr, Good(s, L, bad), f \notin L,
         s.fcb[f].d0 # 0 => s.slot[s.fcb[f].d0 - 1].addr = f
  PROVE  Good(FileClose(s, f).s, L, bad)
<1> DEFINE t == FileClose(s, f).s
           i == s.fcb[f].d0 - 1
<1>1. s \in States /\ Short(s)
  BY DEF Good
<1>2. Detached(s, f, t) /\ \A j \in Slots \ {i} : t.slot[j] = s.slot[j]
  BY <1>1, FileCloseSet
<1>3. s.fcb[f].d0 # 0 => i \in Slots /\ t.slot[i] = [s.slot[i] EXCEPT !.open = FALSE]
  BY <1>1, FileCloseSet
<1> HIDE DEF t
<1>4. Short(t) /\ t \in States /\ t.disk = s.disk /\ \A g \in FcbAddr \ {f} : t.fcb[g] = s.fcb[g]
  BY <1>1, <1>2 DEF Short, Detached
<1>5. CASE s.fcb[f].d0 = 0
  <2>1. PICK z \in Slots : z = 0
    BY Bounds DEF Slots
  <2>0. -1 \notin Slots
    BY DEF Slots
  <2>2. \A j \in Slots : t.slot[j] = s.slot[j]
    BY <1>2, <1>5, <2>0
  <2>3. SlotOK(t, z, bad)
    BY <2>2 DEF Good, SlotOK
  <2>4. Good(t, L, bad)
    BY <1>4, <2>2, <2>3, Local
  <2> QED
    BY <2>4 DEF t
<1>6. CASE s.fcb[f].d0 # 0
  <2>1. i \in Slots /\ s.slot[i].addr = f /\ s.slot[i] \in SlotType
    BY <1>1, <1>3, <1>6, Parts
  <2>2. SlotOK(s, i, bad)
    BY <2>1 DEF Good
  <2>3. SlotOK(t, i, bad)
    BY <1>3, <1>6, <2>1, <2>2 DEF SlotOK, SlotType
  <2> HIDE DEF i
  <2>4. Good(t, L, bad)
    BY <1>2, <1>4, <2>1, <2>3, Local
  <2> QED
    BY <2>4 DEF t
<1> QED
  BY <1>5, <1>6

(* An opened FCB stays right when it loses its slot.                       *)
LEMMA DetachedLive ==
  ASSUME NEW s, NEW t, NEW L, NEW bad \in BOOLEAN, NEW f \in L, Good(s, L, bad),
         Detached(s, f, t), Good(t, L \ {f}, bad)
  PROVE  Good(t, L, bad)
<1>1. L \subseteq FcbAddr /\ f \in FcbAddr /\ L = L \cup {f} /\ FcbOK(s, f, bad) /\ Apart(s, L)
  BY DEF Good
<1>2. FcbOK(t, f, bad)
  BY <1>1 DEF FcbOK, Detached
<1>3. \A g \in L \ {f} : t.fcb[g].name # t.fcb[f].name
  BY <1>1 DEF Apart, Detached
<1>4. Good(t, L \cup {f}, bad)
  BY <1>1, <1>2, <1>3, AddLive, ZenonT(30)
<1> QED
  BY <1>1, <1>4

LEMMA FileCloseOK ==
  ASSUME NEW s, NEW L, NEW bad \in BOOLEAN, NEW f \in L, Good(s, L, bad)
  PROVE  Good(FileClose(s, f).s, L, bad)
<1>1. s \in States /\ f \in FcbAddr /\ FcbOK(s, f, bad) /\ Good(s, L \ {f}, bad) /\ f \notin L \ {f}
  BY Fewer DEF Good
<1>2. s.fcb[f].d0 # 0 => s.slot[s.fcb[f].d0 - 1].addr = f
  BY <1>1 DEF FcbOK, Own
<1>3. Good(FileClose(s, f).s, L \ {f}, bad)
  BY <1>1, <1>2, FileCloseOthers
<1>4. Detached(s, f, FileClose(s, f).s)
  BY <1>1, FileCloseSet
<1> QED
  BY <1>3, <1>4, DetachedLive

(***************************************************************************)
(* cpm_file_rw(), in its three parts.                                      *)
(***************************************************************************)
LEMMA AtOK ==
  ASSUME NEW s, NEW L, NEW bad \in BOOLEAN, NEW f \in L, NEW p \in Nat, Good(s, L, bad)
  PROVE  /\ Good(At(s, f, p), L, bad) /\ At(s, f, p).disk = s.disk
         /\ At(s, f, p).slot = s.slot /\ At(s, f, p).fcb[f].name = s.fcb[f].name
         /\ At(s, f, p).fcb[f].d0 = s.fcb[f].d0 /\ At(s, f, p).fcb[f].max = s.fcb[f].max
<1> DEFINE t == At(s, f, p)
<1>1. s \in States /\ f \in FcbAddr /\ Short(s) /\ FcbOK(s, f, bad) /\ L = L \cup {f} /\ Apart(s, L)
  BY DEF Good
<1>2. /\ FcbSet(s, f, t.fcb[f], t) /\ t.fcb[f].name = s.fcb[f].name
      /\ t.fcb[f].d0 = s.fcb[f].d0 /\ t.fcb[f].max = s.fcb[f].max /\ t.fcb[f].rc = s.fcb[f].rc
  BY <1>1, AtSet
<1> HIDE DEF t
<1>3. PICK z \in Slots : z = 0
  BY Bounds DEF Slots
<1>4. SlotOK(t, z, bad)
  BY <1>2 DEF Good, SlotOK, FcbSet
<1>5. FcbOK(t, f, bad)
  BY <1>1, <1>2 DEF FcbOK, FcbSet, Own, HasSlot
<1>6. \A g \in L \ {f} : s.fcb[g].name # t.fcb[f].name
  BY <1>1, <1>2 DEF Apart
<1>7. /\ t \in States /\ t.disk = s.disk /\ t.slot = s.slot /\ Short(t)
      /\ \A g \in FcbAddr \ {f} : t.fcb[g] = s.fcb[g]
  BY <1>1, <1>2 DEF FcbSet, Short
<1>8. Good(t, L, bad)
  BY <1>1, <1>4, <1>5, <1>6, <1>7, Local
<1> QED
  BY <1>2, <1>7, <1>8 DEF t

(* A slot of an opened FCB changed to h, with its name and address kept.   *)
LEMMA SlotSetOK ==
  ASSUME NEW s, NEW t, NEW L, NEW bad \in BOOLEAN, NEW f \in L, NEW h, Good(s, L, bad),
         s.fcb[f].d0 # 0, SlotSet(s, s.fcb[f].d0 - 1, h, t), h.open, h.addr = f,
         h.name = s.fcb[f].name, SlotOK(t, s.fcb[f].d0 - 1, bad)
  PROVE  Good(t, L, bad)
<1> DEFINE i == s.fcb[f].d0 - 1
<1>1. s \in States /\ f \in FcbAddr /\ Short(s) /\ FcbOK(s, f, bad) /\ L \subseteq L \cup {f} /\ Apart(s, L)
  BY DEF Good
<1>2. s.fcb[f].d0 \in 1..MaxFcb /\ i \in Slots /\ Own(s, f)
  <2>1. s.fcb[f] \in FcbType
    BY <1>1, Parts
  <2>2. s.fcb[f].d0 \in 1..MaxFcb
    BY <2>1, Bounds DEF FcbType
  <2>3. i \in Slots
    BY <2>2, Bounds DEF Slots
  <2> QED
    BY <1>1, <2>2, <2>3 DEF FcbOK
<1>3. t \in States /\ t.disk = s.disk /\ t.fcb = s.fcb /\ t.slot[i] = h /\ Short(t)
  BY <1>1 DEF SlotSet, Short
<1>4. FcbOK(t, f, bad)
  BY <1>1, <1>2, <1>3 DEF FcbOK, Own, HasSlot
<1>5. s.slot[i].addr = f /\ \A j \in Slots \ {i} : t.slot[j] = s.slot[j]
  BY <1>2 DEF Own, SlotSet
<1>6. \A g \in L \ {f} : s.fcb[g].name # t.fcb[f].name
  BY <1>1, <1>3 DEF Apart
<1> HIDE DEF i
<1>7. SlotOK(t, i, bad)
  BY DEF i
<1> QED
  BY <1>1, <1>2, <1>3, <1>4, <1>5, <1>6, <1>7, Local

(* What the first part gives.                                              *)
ReadyGives(s, L, bad, f, wr, p, b) ==
  /\ Good(b.s, L, bad) /\ b.s.disk = s.disk /\ b.s.fcb[f].name = s.fcb[f].name
  /\ b.ret \in {0, 1, 255} /\ b.clash = FALSE
  /\ b.ret = 0 => b.s.fcb[f].d0 # 0
  /\ b.ret = 1 => ~wr /\ p >= s.fcb[f].max
  /\ b.ret = 255 => (\A i \in Slots : b.s.slot[i].open) \/ (wr /\ s.fcb[f].name \in ReadOnly)

LEMMA ReadyOK ==
  ASSUME NEW s, NEW L, NEW bad \in BOOLEAN, NEW f \in L, NEW wr \in BOOLEAN, NEW p \in Nat,
         Good(s, L, bad)
  PROVE  ReadyGives(s, L, bad, f, wr, p, Ready(s, f, wr, p))
<1> DEFINE b == Ready(s, f, wr, p)
           i == s.fcb[f].d0 - 1
           n == s.fcb[f].name
           mode == IF wr THEN "wropen" ELSE "open"
           o == FileOpen(s, f, mode)
<1>1. s \in States /\ f \in FcbAddr /\ Short(s) /\ FcbOK(s, f, bad) /\ Apart(s, L)
  BY DEF Good
<1>0. L \subseteq FcbAddr /\ L \cup {f} = L
  BY DEF Good
<1>2. s.fcb[f].d0 \in 0..MaxFcb /\ n \in Names /\ s.disk[n] # NoFile
  BY <1>1, Parts DEF FcbType, FcbOK
<1>3. CASE ~HasSlot(s, f)
  <2>1. s.fcb[f].d0 = 0
    BY <1>1, <1>3 DEF FcbOK, Own
  <2>2. b = IF ~wr /\ p >= s.fcb[f].max THEN Done(s, 1)
            ELSE IF o.ret # 0 THEN o ELSE Done(At(o.s, f, p), 0)
    BY <1>3, Zenon DEF Ready
  <2>3. mode \in {"open", "wropen", "create"} /\ mode # "create" /\ (mode # "open" => wr)
    OBVIOUS
  <2>4. FileOpenGives(s, L, bad, f, mode, o)
    BY <1>1, <2>3, FileOpenOK
  <2> HIDE DEF o, mode
  <2>5. /\ o.ret \in {0, 255} /\ o.clash = FALSE /\ o.s.disk = s.disk /\ o.s.fcb[f].name = n
        /\ Good(o.s, L \ {f}, bad) /\ \A g \in FcbAddr \ {f} : o.s.fcb[g] = s.fcb[g]
    BY <2>3, <2>4 DEF FileOpenGives
  <2>6. \A g \in L \ {f} : o.s.fcb[g].name # o.s.fcb[f].name
    BY <1>0, <1>1, <2>5 DEF Apart
  <2>7. o.ret = 255 => o.s.fcb = s.fcb
        /\ ((\A j \in Slots : o.s.slot[j].open) \/ (wr /\ n \in ReadOnly))
    BY <1>2, <2>3, <2>4 DEF FileOpenGives
  <2>8. FcbOK(o.s, f, bad)
    <3>1. CASE o.ret = 0
      BY <2>4, <3>1 DEF FileOpenGives
    <3>2. CASE o.ret = 255
      BY <1>1, <2>1, <2>5, <2>7, <3>2 DEF FcbOK
    <3> QED
      BY <2>5, <3>1, <3>2
  <2>9. Good(o.s, L, bad)
    <3> DEFINE t == o.s
    <3>2. Good(t, L \ {f}, bad) /\ FcbOK(t, f, bad)
      BY <2>5, <2>8
    <3>3. \A g \in L \ {f} : t.fcb[g].name # t.fcb[f].name
      BY <2>6
    <3> HIDE DEF t
    <3>4. Good(t, L \cup {f}, bad)
      BY <1>0, <1>1, <3>2, <3>3, AddLive, ZenonT(40)
    <3>1. Good(o.s, L \cup {f}, bad)
      BY <3>4 DEF t
    <3> QED
      BY <1>0, <3>1
  <2>10. CASE ~wr /\ p >= s.fcb[f].max
    <3>1. b.s = s /\ b.ret = 1 /\ b.clash = FALSE
      BY <2>2, <2>10 DEF Done
    <3> HIDE DEF b
    <3>2. ReadyGives(s, L, bad, f, wr, p, b)
      BY <2>10, <3>1 DEF ReadyGives
    <3> QED
      BY <3>2 DEF b
  <2>11. CASE ~(~wr /\ p >= s.fcb[f].max) /\ o.ret # 0
    <3>1. b = o /\ o.ret = 255
      BY <2>2, <2>5, <2>11
    <3> HIDE DEF b
    <3>2. ReadyGives(s, L, bad, f, wr, p, b)
      BY <2>5, <2>7, <2>9, <3>1 DEF ReadyGives
    <3> QED
      BY <3>2 DEF b
  <2>12. CASE ~(~wr /\ p >= s.fcb[f].max) /\ o.ret = 0
    <3>1. b.s = At(o.s, f, p) /\ b.ret = 0 /\ b.clash = FALSE
      BY <2>2, <2>12 DEF Done
    <3>2. o.s.fcb[f].d0 # 0
      BY <2>4, <2>12, Bounds DEF FileOpenGives, OpenedAs, Slots
    <3>3. Good(At(o.s, f, p), L, bad) /\ At(o.s, f, p).disk = o.s.disk
          /\ At(o.s, f, p).fcb[f].name = o.s.fcb[f].name /\ At(o.s, f, p).fcb[f].d0 = o.s.fcb[f].d0
      BY <2>9, AtOK
    <3> HIDE DEF b
    <3>4. ReadyGives(s, L, bad, f, wr, p, b)
      BY <2>5, <3>1, <3>2, <3>3 DEF ReadyGives
    <3> QED
      BY <3>4 DEF b
  <2> QED
    BY <2>10, <2>11, <2>12
<1>4. CASE HasSlot(s, f) /\ wr /\ ~s.slot[i].mod
  <2>1. i \in Slots /\ Own(s, f) /\ s.slot[i] \in SlotType /\ s.fcb[f].d0 # 0
    BY <1>1, <1>2, <1>4, Bounds, Parts DEF FcbOK, HasSlot, Slots
  <2>2. b = IF s.disk[n] = NoFile \/ n \in ReadOnly
            THEN Done(FileClose(FClose(s, i), f).s, 255)
            ELSE Done([FOpen(s, i, n) EXCEPT !.slot[i].pos = 0], 0)
    BY <1>4, Zenon DEF Ready
  <2>3. CASE n \in ReadOnly
    <3> DEFINE t == FClose(s, i)
               u == FileClose(t, f).s
    <3>1. b.s = u /\ b.ret = 255 /\ b.clash = FALSE
      BY <2>2, <2>3 DEF Done
    <3>2. Good(t, L \ {f}, bad)
      BY <1>1, <2>1, FCloseOK DEF Own
    <3>3. SlotSet(s, i, [s.slot[i] EXCEPT !.open = FALSE], t)
      BY <1>1, <2>1, FCloseSet
    <3>4. t.fcb = s.fcb /\ t.disk = s.disk /\ t.slot[i].addr = f /\ t \in States
      BY <2>1, <3>3 DEF SlotSet, SlotType, Own
    <3> HIDE DEF t
    <3>5. Good(u, L \ {f}, bad)
      BY <1>1, <3>2, <3>4, FileCloseOthers
    <3>6. Detached(t, f, u)
      BY <1>1, <3>4, FileCloseSet
    <3> HIDE DEF u
    <3>7. Detached(s, f, u)
      BY <3>4, <3>6 DEF Detached
    <3>8. Good(u, L, bad)
      BY <3>5, <3>7, DetachedLive
    <3>9. u.disk = s.disk /\ u.fcb[f].name = n
      BY <3>7 DEF Detached
    <3>10. wr
      BY <1>4
    <3> HIDE DEF b
    <3>11. ReadyGives(s, L, bad, f, wr, p, b)
      BY <2>3, <3>1, <3>8, <3>9, <3>10 DEF ReadyGives
    <3> QED
      BY <3>11 DEF b
  <2>4. CASE n \notin ReadOnly
    <3> DEFINE t == FOpen(s, i, n)
               g == [s.slot[i] EXCEPT !.open = TRUE, !.name = n, !.at = 0, !.dir = "none"]
               h == [g EXCEPT !.pos = 0]
               u == [t EXCEPT !.slot[i].pos = 0]
    <3>1. b.s = u /\ b.ret = 0 /\ b.clash = FALSE
      <4>1. b = Done(u, 0)
        BY <1>2, <2>2, <2>4
      <4> HIDE DEF b, u
      <4> QED
        BY <4>1 DEF Done
    <3>2. SlotSet(s, i, g, t)
      BY <1>1, <1>2, <2>1, FOpenSet
    <3>3. 0 \in 0..Bound
      BY Bounds
    <3>4. g \in SlotType
      BY <1>2, <2>1, <3>3 DEF SlotType
    <3>5. h \in SlotType /\ h.open = TRUE /\ h.name = n /\ h.at = 0 /\ h.dir = "none" /\ h.pos = 0
          /\ h.addr = f
      BY <2>1, <3>3, <3>4 DEF SlotType, Own
    <3> HIDE DEF g, t
    <3>6. u = [t EXCEPT !.slot[i] = h]
      BY <3>2 DEF SlotSet
    <3> HIDE DEF h, u
    <3>7. SlotSet(t, i, h, u)
      BY <2>1, <3>2, <3>5, <3>6, SlotUpdate DEF SlotSet
    <3>8. SlotSet(s, i, h, u)
      BY <3>2, <3>7 DEF SlotSet
    <3>9. SlotOK(u, i, bad)
      BY <3>5, <3>8, Bounds DEF SlotSet, SlotOK
    <3>10. Good(u, L, bad)
      BY <2>1, <3>5, <3>8, <3>9, SlotSetOK
    <3>11. u.disk = s.disk /\ u.fcb = s.fcb
      BY <3>8 DEF SlotSet
    <3> HIDE DEF b
    <3>12. ReadyGives(s, L, bad, f, wr, p, b)
      BY <2>1, <3>1, <3>10, <3>11 DEF ReadyGives
    <3> QED
      BY <3>12 DEF b
  <2> QED
    BY <2>3, <2>4
<1>5. CASE HasSlot(s, f) /\ ~(wr /\ ~s.slot[i].mod)
  <2>1. b.s = s /\ b.ret = 0 /\ b.clash = FALSE
    BY <1>5 DEF Ready, Done
  <2>2. s.fcb[f].d0 # 0
    BY <1>5, Bounds DEF HasSlot
  <2> HIDE DEF b
  <2>3. ReadyGives(s, L, bad, f, wr, p, b)
    BY <2>1, <2>2 DEF ReadyGives
  <2> QED
    BY <2>3 DEF b
<1> QED
  BY <1>3, <1>4, <1>5

(* After the seek the slot stands at record p, and the C library allows    *)
(* the transfer.                                                           *)
Standing(s, f, wr, p) ==
  LET h == s.slot[s.fcb[f].d0 - 1] IN
  /\ s.fcb[f].d0 # 0 /\ h.pos = p * Rec
  /\ h.dir = "read" => ~wr
  /\ h.dir = "write" => wr

SeekGives(s, L, bad, f, wr, p, max, c) ==
  /\ Good(c.s, L, bad) /\ c.s.disk = s.disk /\ c.s.fcb[f].name = s.fcb[f].name
  /\ c.ret \in {0, 1} /\ c.clash = FALSE
  /\ c.ret = 0 => c.s.fcb = s.fcb /\ Standing(c.s, f, wr, p)
  /\ c.ret = 1 => ~wr /\ p > max

LEMMA SeekOK ==
  ASSUME NEW s, NEW L, NEW bad \in BOOLEAN, NEW f \in L, NEW wr \in BOOLEAN, NEW p \in Nat,
         NEW max \in 0..MaxRec + 1, Good(s, L, bad), s.fcb[f].d0 # 0, wr => p <= MaxRec
  PROVE  SeekGives(s, L, bad, f, wr, p, max, Seek(s, f, wr, p, max))
<1> DEFINE i == s.fcb[f].d0 - 1
           c == Seek(s, f, wr, p, max)
           x == p * Rec
           h == [s.slot[i] EXCEPT !.at = x, !.dir = "none", !.pos = x]
           t == [s EXCEPT !.slot[i] = h]
<1>1. s \in States /\ f \in FcbAddr /\ FcbOK(s, f, bad)
  BY DEF Good
<1>2. i \in Slots /\ Own(s, f) /\ s.slot[i] \in SlotType /\ s.slot[i].name = s.fcb[f].name
  <2>1. s.fcb[f] \in FcbType
    BY <1>1, Parts
  <2>2. s.fcb[f].d0 \in 1..MaxFcb
    BY <2>1, Bounds DEF FcbType
  <2>3. i \in Slots
    BY <2>2, Bounds DEF Slots
  <2>4. s.slot[i] \in SlotType
    BY <1>1, <2>3, Parts
  <2> QED
    BY <1>1, <2>3, <2>4 DEF FcbOK
<1>3. SlotOK(s, i, bad)
  BY <1>2 DEF Good
<1>4. CASE x = s.slot[i].pos /\ s.slot[i].wr = wr
  <2>1. c.s = s /\ c.ret = 0 /\ c.clash = FALSE
    BY <1>4 DEF Seek, Done
  <2>2. Standing(s, f, wr, p)
    BY <1>3, <1>4 DEF Standing, SlotOK
  <2> HIDE DEF c
  <2>3. SeekGives(s, L, bad, f, wr, p, max, c)
    BY <2>1, <2>2 DEF SeekGives
  <2> QED
    BY <2>3 DEF c
<1>5. CASE ~(x = s.slot[i].pos /\ s.slot[i].wr = wr) /\ ~wr /\ p > max
  <2>1. c.s = FileClose(s, f).s /\ c.ret = 1 /\ c.clash = FALSE
    BY <1>5 DEF Seek, Done
  <2>2. Good(c.s, L, bad)
    BY <2>1, FileCloseOK
  <2>3. c.s.disk = s.disk /\ c.s.fcb[f].name = s.fcb[f].name
    <3>1. Detached(s, f, FileClose(s, f).s)
      BY <1>1, FileCloseSet
    <3> QED
      BY <2>1, <3>1 DEF Detached
  <2> HIDE DEF c
  <2>4. SeekGives(s, L, bad, f, wr, p, max, c)
    BY <1>5, <2>1, <2>2, <2>3 DEF SeekGives
  <2> QED
    BY <2>4 DEF c
<1>6. CASE ~(x = s.slot[i].pos /\ s.slot[i].wr = wr) /\ ~(~wr /\ p > max)
  <2>1. c.s = t /\ c.ret = 0 /\ c.clash = FALSE
    BY <1>6 DEF Seek, Done
  <2>2. x \in 0..Bound
    <3>1. p <= MaxRec + 1
      BY <1>6, Bounds
    <3>2. x <= (MaxRec + 1) * Rec /\ x >= 0 * Rec /\ x \in Int
      BY <3>1, Product, Bounds
    <3> QED
      BY <3>2, Bounds DEF Bound
  <2> HIDE DEF x
  <2>3. h \in SlotType /\ h.at = x /\ h.pos = x /\ h.dir = "none" /\ h.open = TRUE
        /\ h.name = s.fcb[f].name /\ h.addr = f
    BY <1>2, <2>2 DEF SlotType, Own, HasSlot
  <2> HIDE DEF h
  <2>4. SlotSet(s, i, h, t)
    BY <1>1, <1>2, <2>3, SlotUpdate
  <2> HIDE DEF t, c
  <2>5. SlotOK(t, i, bad) /\ t.disk = s.disk /\ t.fcb = s.fcb
    BY <2>2, <2>3, <2>4, Bounds DEF SlotOK, SlotSet
  <2>6. Good(t, L, bad)
    BY <2>3, <2>4, <2>5, SlotSetOK
  <2>7. Standing(t, f, wr, p)
    BY <2>3, <2>4, <2>5 DEF Standing, SlotSet, x
  <2>8. SeekGives(s, L, bad, f, wr, p, max, c)
    BY <2>1, <2>5, <2>6, <2>7 DEF SeekGives
  <2> QED
    BY <2>8 DEF c
<1> QED
  BY <1>4, <1>5, <1>6

(* The end of cpm_file_rw(): a is s with the position of the slot moved on *)
(* by k bytes, the FCB moved on, and perhaps the file closed.              *)
AdvanceGives(s, f, p, k, max, a) ==
  LET i == s.fcb[f].d0 - 1
      g == s.slot[i]
      h == a.slot[i]
      c == a.fcb[f]
  IN /\ a \in States /\ a.disk = s.disk
     /\ \A j \in Slots \ {i} : a.slot[j] = s.slot[j]
     /\ \A e \in FcbAddr \ {f} : a.fcb[e] = s.fcb[e]
     /\ h.name = g.name /\ h.at = g.at /\ h.dir = g.dir /\ h.pos = g.pos + k
     /\ h.addr = g.addr /\ h.wr = g.wr
     /\ c.name = s.fcb[f].name
     /\ c.d0 # 0 => c.d0 = s.fcb[f].d0 /\ h.open = g.open
     /\ c.max = IF p + 1 > max THEN p + 1 ELSE s.fcb[f].max
     /\ c.rc = IF p + 1 > max THEN (p + 1) % Ext ELSE s.fcb[f].rc

LEMMA AdvanceSet ==
  ASSUME NEW s \in States, NEW f \in FcbAddr, NEW p \in 0..MaxRec, NEW k \in Nat,
         NEW rnd \in BOOLEAN, NEW max \in 0..MaxRec + 1, s.fcb[f].d0 # 0,
         s.slot[s.fcb[f].d0 - 1].pos + k <= Bound
  PROVE  AdvanceGives(s, f, p, k, max, Advance(s, f, p, k, rnd, max))
<1> DEFINE i == s.fcb[f].d0 - 1
           h == [s.slot[i] EXCEPT !.pos = @ + k]
           t == [s EXCEPT !.slot[i].pos = @ + k]
           u == IF rnd THEN t ELSE At(t, f, p + 1)
           v == IF p + 1 >= max /\ ~s.slot[i].mod THEN FileClose(u, f).s ELSE u
           a == IF p + 1 > max
                THEN [v EXCEPT !.fcb[f] = [@ EXCEPT !.max = p + 1, !.rc = (p + 1) % Ext]] ELSE v
<1>0. s.fcb[f] \in FcbType /\ s.fcb[f].d0 \in 0..MaxFcb
  BY Parts DEF FcbType
<1>1. i \in Slots /\ s.slot[i] \in SlotType /\ s.fcb[f] \in FcbType /\ i + 1 = s.fcb[f].d0
  BY <1>0, Parts, Bounds DEF Slots
<1>2. s.slot[i].pos + k \in 0..Bound
  BY <1>1, Bounds DEF SlotType
<1>3. h \in SlotType
  BY <1>1, <1>2 DEF SlotType
<1>4. /\ h.open = s.slot[i].open /\ h.name = s.slot[i].name /\ h.at = s.slot[i].at
      /\ h.dir = s.slot[i].dir /\ h.pos = s.slot[i].pos + k /\ h.addr = s.slot[i].addr
      /\ h.wr = s.slot[i].wr
  BY <1>1, <1>3 DEF SlotType
<1>5. t = [s EXCEPT !.slot[i] = h]
  OBVIOUS
<1>6. Advance(s, f, p, k, rnd, max) = a
  BY Zenon DEF Advance
<1> HIDE DEF h, t
<1>7. SlotSet(s, i, h, t)
  BY <1>1, <1>3, <1>5, SlotUpdate
<1>8. t \in States /\ t.fcb = s.fcb /\ t.disk = s.disk /\ t.slot[i] = h
      /\ \A j \in Slots \ {i} : t.slot[j] = s.slot[j]
  BY <1>7 DEF SlotSet
<1>9. /\ u \in States /\ u.disk = s.disk /\ u.slot = t.slot
      /\ \A e \in FcbAddr \ {f} : u.fcb[e] = s.fcb[e]
      /\ u.fcb[f].name = s.fcb[f].name /\ u.fcb[f].d0 = s.fcb[f].d0
      /\ u.fcb[f].max = s.fcb[f].max /\ u.fcb[f].rc = s.fcb[f].rc
  <2>1. p + 1 \in Nat
    BY Bounds
  <2>2. /\ FcbSet(t, f, At(t, f, p + 1).fcb[f], At(t, f, p + 1))
        /\ At(t, f, p + 1).fcb[f].name = t.fcb[f].name /\ At(t, f, p + 1).fcb[f].d0 = t.fcb[f].d0
        /\ At(t, f, p + 1).fcb[f].max = t.fcb[f].max /\ At(t, f, p + 1).fcb[f].rc = t.fcb[f].rc
    BY <1>8, <2>1, AtSet
  <2>3. CASE rnd
    BY <1>8, <2>3
  <2>4. CASE ~rnd
    BY <1>8, <2>2, <2>4 DEF FcbSet
  <2> QED
    BY <2>3, <2>4
<1> HIDE DEF u
<1>10. u.fcb[f].d0 # 0 /\ u.fcb[f].d0 - 1 = i /\ u.slot[i] = h
       /\ \A j \in Slots \ {i} : u.slot[j] = s.slot[j]
  BY <1>8, <1>9
<1>11. /\ v \in States /\ v.disk = s.disk
       /\ \A j \in Slots \ {i} : v.slot[j] = s.slot[j]
       /\ v.slot[i] = h \/ (v.fcb[f].d0 = 0 /\ v.slot[i] = [h EXCEPT !.open = FALSE])
       /\ \A e \in FcbAddr \ {f} : v.fcb[e] = s.fcb[e]
       /\ v.fcb[f].name = s.fcb[f].name /\ (v.fcb[f].d0 = s.fcb[f].d0 \/ v.fcb[f].d0 = 0)
       /\ v.fcb[f].max = s.fcb[f].max /\ v.fcb[f].rc = s.fcb[f].rc
  <2> DEFINE w == FileClose(u, f).s
  <2>0. /\ Detached(u, f, w)
        /\ w.slot[u.fcb[f].d0 - 1] = [u.slot[u.fcb[f].d0 - 1] EXCEPT !.open = FALSE]
        /\ \A j \in Slots \ {u.fcb[f].d0 - 1} : w.slot[j] = u.slot[j]
    BY <1>9, <1>10, FileCloseSet
  <2>1. Detached(u, f, w) /\ w.slot[i] = [h EXCEPT !.open = FALSE]
        /\ \A j \in Slots \ {i} : w.slot[j] = u.slot[j]
    BY <1>10, <2>0
  <2> HIDE DEF w
  <2>2. CASE v = w
    BY <1>9, <1>10, <2>1, <2>2 DEF Detached
  <2>3. CASE v = u
    BY <1>9, <1>10, <2>3
  <2> QED
    BY <2>2, <2>3 DEF w
<1> HIDE DEF v
<1>12. v.slot[i].name = h.name /\ v.slot[i].at = h.at /\ v.slot[i].dir = h.dir
       /\ v.slot[i].pos = h.pos /\ v.slot[i].addr = h.addr /\ v.slot[i].wr = h.wr
       /\ (v.fcb[f].d0 # 0 => v.slot[i].open = h.open)
  BY <1>3, <1>11 DEF SlotType
<1>13. CASE p + 1 > max
  <2> DEFINE rc == (p + 1) % Ext
             c == [v.fcb[f] EXCEPT !.max = p + 1, !.rc = rc]
  <2>1. v.fcb[f] \in FcbType /\ p + 1 \in 0..MaxRec + 1 /\ rc \in 0..Ext - 1
    BY <1>11, Parts, Bounds
  <2> HIDE DEF rc
  <2>2. c \in FcbType /\ c.name = v.fcb[f].name /\ c.d0 = v.fcb[f].d0 /\ c.max = p + 1 /\ c.rc = rc
    BY <2>1 DEF FcbType
  <2>3. a = [v EXCEPT !.fcb[f] = c]
    BY <1>13 DEF rc
  <2> HIDE DEF c, a
  <2>4. FcbSet(v, f, c, a)
    BY <1>11, <2>2, <2>3, FcbUpdate
  <2>5. AdvanceGives(s, f, p, k, max, a)
    BY <1>4, <1>11, <1>12, <1>13, <2>2, <2>4 DEF AdvanceGives, FcbSet, rc
  <2> QED
    BY <1>6, <2>5
<1>14. CASE ~(p + 1 > max)
  <2>1. a = v
    BY <1>14
  <2> HIDE DEF a
  <2>2. AdvanceGives(s, f, p, k, max, a)
    BY <1>4, <1>11, <1>12, <1>14, <2>1 DEF AdvanceGives
  <2> QED
    BY <1>6, <2>2
<1> QED
  BY <1>13, <1>14

(* The transfer: what is read, what is written, and where.                 *)
TransferGives(s, L, bad, worse, f, wr, p, k, r) ==
  LET n == s.fcb[f].name IN
  /\ Good(r.s, L, worse) /\ r.s.fcb[f].name = n /\ r.clash = FALSE /\ r.ret \in {0, 1}
  /\ ~wr => r.s.disk = s.disk
  /\ wr /\ r.ret = 0 => k = Rec
  /\ wr /\ r.ret = 0 /\ ~bad => r.s.disk = [s.disk EXCEPT ![n] = Written(@, p * Rec, Rec)]
  /\ ~wr /\ r.ret = 0 /\ ~bad => r.buf = Padded(Got(s.disk[n], p * Rec))
  /\ ~wr /\ r.ret = 1 /\ ~bad => p * Rec >= Size(s.disk, n)

(* What is known of an opened FCB and its slot then.                       *)
Held(s, L, bad, f, p) ==
  LET i == s.fcb[f].d0 - 1
      h == s.slot[i]
      n == s.fcb[f].name
  IN /\ s \in States /\ Short(s) /\ f \in FcbAddr /\ L \subseteq FcbAddr /\ Apart(s, L)
     /\ s.fcb[f].d0 \in 1..MaxFcb /\ i \in Slots /\ i + 1 = s.fcb[f].d0
     /\ h \in SlotType /\ h.open = TRUE /\ h.addr = f /\ h.name = n
     /\ n \in Names /\ s.disk[n] \in Seq(Byte) /\ s.disk[n] # NoFile
     /\ s.fcb[f].max % Ext <= s.fcb[f].rc /\ s.fcb[f] \in FcbType
     /\ ~bad => s.fcb[f].max = Records(Size(s.disk, n))
     /\ h.pos = p * Rec /\ p * Rec <= h.at /\ h.at < p * Rec + Rec
     /\ ~bad => h.at = p * Rec

LEMMA StandingSlot ==
  ASSUME NEW s, NEW L, NEW bad \in BOOLEAN, NEW f \in L, NEW p \in Nat, Good(s, L, bad),
         s.fcb[f].d0 # 0, s.slot[s.fcb[f].d0 - 1].pos = p * Rec
  PROVE  Held(s, L, bad, f, p)
<1>1. s \in States /\ Short(s) /\ f \in FcbAddr /\ L \subseteq FcbAddr /\ Apart(s, L)
      /\ FcbOK(s, f, bad)
  BY DEF Good
<1>2. s.fcb[f] \in FcbType /\ s.fcb[f].d0 \in 0..MaxFcb /\ s.fcb[f].name \in Names
  BY <1>1, Parts DEF FcbType
<1>3. s.fcb[f].d0 \in 1..MaxFcb /\ s.fcb[f].d0 - 1 \in Slots /\ s.fcb[f].d0 - 1 + 1 = s.fcb[f].d0
  BY <1>2, Bounds DEF Slots
<1>4. Own(s, f) /\ s.slot[s.fcb[f].d0 - 1].name = s.fcb[f].name
      /\ s.disk[s.fcb[f].name] # NoFile
  BY <1>1, <1>3 DEF FcbOK
<1>5. s.slot[s.fcb[f].d0 - 1] \in SlotType /\ s.slot[s.fcb[f].d0 - 1].open = TRUE
  BY <1>1, <1>3, <1>4, Parts DEF Own, HasSlot, SlotType
<1>6. s.disk[s.fcb[f].name] \in Seq(Byte)
  BY <1>1, <1>2, <1>4, Parts
<1>7. SlotOK(s, s.fcb[f].d0 - 1, bad)
  BY <1>3 DEF Good
<1> QED
  BY <1>1, <1>2, <1>3, <1>4, <1>5, <1>6, <1>7 DEF Own, SlotOK, FcbOK, Held

LEMMA ReadTransfer ==
  ASSUME NEW s, NEW L, NEW bad \in BOOLEAN, NEW f \in L, NEW wr \in BOOLEAN, NEW p \in Nat,
         NEW rnd \in BOOLEAN, NEW max \in 0..MaxRec + 1, NEW k \in Nat, Good(s, L, bad),
         Standing(s, f, wr, p), ~wr, ~bad => max = s.fcb[f].max
  PROVE  TransferGives(s, L, bad, bad, f, wr, p, k, Transfer(s, f, wr, p, rnd, max, k))
<1> DEFINE i == s.fcb[f].d0 - 1
           g == s.slot[i]
           n == s.fcb[f].name
           b == Got(s.disk[n], g.at)
           h == [g EXCEPT !.at = g.at + Len(b), !.dir = "read", !.wr = FALSE]
           t == [s EXCEPT !.slot[i] = h]
           r == Transfer(s, f, wr, p, rnd, max, k)
<1>1. /\ s \in States /\ Short(s) /\ f \in FcbAddr /\ L \subseteq FcbAddr /\ Apart(s, L)
      /\ s.fcb[f].d0 \in 1..MaxFcb /\ i \in Slots /\ i + 1 = s.fcb[f].d0
      /\ g \in SlotType /\ g.open = TRUE /\ g.addr = f /\ g.name = n
      /\ n \in Names /\ s.disk[n] \in Seq(Byte) /\ s.disk[n] # NoFile
      /\ s.fcb[f].max % Ext <= s.fcb[f].rc /\ s.fcb[f] \in FcbType
      /\ ~bad => s.fcb[f].max = Records(Size(s.disk, n))
      /\ g.pos = p * Rec /\ p * Rec <= g.at /\ g.at < p * Rec + Rec
      /\ ~bad => g.at = p * Rec
  <2>1. s.fcb[f].d0 # 0 /\ s.slot[s.fcb[f].d0 - 1].pos = p * Rec
    BY DEF Standing
  <2>2. Held(s, L, bad, f, p)
    BY <2>1, StandingSlot
  <2> QED
    BY <2>2 DEF Held
<1>2. g.at \in Nat /\ g.at <= Bound /\ g.pos \in Nat /\ Bound \in Nat /\ Rec \in Nat /\ Rec > 0
  BY <1>1, Bounds DEF SlotType
<1> DEFINE z == Len(s.disk[n])
           m == Len(b)
<1>3. /\ b \in Seq(Byte) /\ (b = <<>> <=> g.at >= z)
      /\ g.at + m <= (IF g.at >= z THEN g.at ELSE z)
      /\ z < Bound /\ m \in Nat /\ z \in Nat
  <2> HIDE DEF g, n
  <2>1. /\ b \in Seq(Byte) /\ (b = <<>> <=> g.at >= z)
        /\ g.at + m <= (IF g.at >= z THEN g.at ELSE z)
    BY <1>1, <1>2, GotBytes
  <2>2. z < Bound /\ z \in Nat
    BY <1>1 DEF Short
  <2> QED
    BY <2>1, <2>2
<1>0. i = s.fcb[f].d0 - 1 /\ g = s.slot[i] /\ n = s.fcb[f].name /\ z = Len(s.disk[n]) /\ m = Len(b)
  OBVIOUS
<1>4. g.at + m \in 0..Bound
  <2> HIDE DEF g, z, m, i, n
  <2> QED
    BY <1>2, <1>3
<1>5. r = IF b = <<>>
          THEN [Done(IF g.mod THEN t ELSE FileClose(t, f).s, 1) EXCEPT !.clash = g.dir = "write"]
          ELSE [Done(Advance(t, f, p, Len(b), rnd, max), 0)
                  EXCEPT !.buf = Padded(b), !.clash = g.dir = "write"]
  <2> DEFINE y == IF s.disk[g.name] = NoFile THEN <<>> ELSE Got(s.disk[g.name], g.at)
             x == IF y = <<>>
                  THEN [Done(IF g.mod THEN t ELSE FileClose(t, f).s, 1) EXCEPT !.clash = g.dir = "write"]
                  ELSE [Done(Advance(t, f, p, Len(y), rnd, max), 0)
                          EXCEPT !.buf = Padded(y), !.clash = g.dir = "write"]
  <2>1. y = b
    BY <1>1
  <2> QED
    BY <1>1, <2>1, ZenonT(40) DEF Transfer
<1>6. (g.dir = "write") = FALSE
  BY DEF Standing
<1>7. ~bad => b = Got(s.disk[n], p * Rec)
  BY <1>1
<1> HIDE DEF b
<1>8. /\ h \in SlotType /\ h.at = g.at + m /\ h.dir = "read" /\ h.wr = FALSE
      /\ h.open = g.open /\ h.name = g.name /\ h.pos = g.pos /\ h.addr = g.addr /\ h.mod = g.mod
  BY <1>1, <1>4 DEF SlotType
<1> HIDE DEF h, z, m, i, g, n
<1>9. SlotSet(s, i, h, t)
  BY <1>0, <1>1, <1>8, SlotUpdate
<1> HIDE DEF t, r
<1>10. t \in States /\ t.disk = s.disk /\ t.fcb = s.fcb /\ t.slot[i] = h
       /\ \A j \in Slots \ {i} : t.slot[j] = s.slot[j]
  BY <1>9 DEF SlotSet
<1>11. CASE b = <<>>
  <2>1. /\ r.s = IF g.mod THEN t ELSE FileClose(t, f).s
        /\ r.ret = 1 /\ r.clash = FALSE
    BY <1>5, <1>6, <1>11 DEF Done
  <2>2. h.at = g.at
    BY <1>0, <1>2, <1>8, <1>11, EmptySeq
  <2>3. SlotOK(t, i, bad)
    BY <1>1, <1>2, <1>8, <1>10, <2>2, Bounds DEF SlotOK
  <2>4. Good(t, L, bad)
    <3>1. s.fcb[f].d0 # 0 /\ h.open /\ h.addr = f /\ h.name = s.fcb[f].name
      BY <1>0, <1>1, <1>8
    <3> QED
      BY <1>0, <1>9, <2>3, <3>1, SlotSetOK
  <2>5. Good(FileClose(t, f).s, L, bad) /\ FileClose(t, f).s.disk = t.disk
        /\ FileClose(t, f).s.fcb[f].name = t.fcb[f].name
    <3>1. Detached(t, f, FileClose(t, f).s)
      BY <1>1, <1>10, FileCloseSet
    <3> QED
      BY <2>4, <3>1, FileCloseOK DEF Detached
  <2>6. ~bad => p * Rec >= Size(s.disk, n)
    BY <1>0, <1>1, <1>3, <1>11 DEF Size
  <2>7. TransferGives(s, L, bad, bad, f, wr, p, k, r)
    BY <1>0, <1>10, <2>1, <2>4, <2>5, <2>6 DEF TransferGives
  <2> QED
    BY <2>7 DEF r
<1>12. CASE b # <<>>
  <2> DEFINE a == Advance(t, f, p, Len(b), rnd, max)
  <2>1. r.s = a /\ r.ret = 0 /\ r.clash = FALSE /\ r.buf = Padded(b)
    BY <1>5, <1>6, <1>12 DEF Done
  <2>2. g.at < z /\ g.at + m < Bound /\ g.pos + m < Bound /\ p * Rec < Bound /\ p * Rec < z
    BY <1>1, <1>2, <1>3, <1>12
  <2>3. p \in 0..MaxRec
    <3>1. p * Rec < (MaxRec + 1) * Rec
      BY <2>2 DEF Bound
    <3>2. p < MaxRec + 1
      BY <3>1, Product, Bounds
    <3> QED
      BY <3>2, Bounds
  <2>4. t.slot[t.fcb[f].d0 - 1].pos + Len(b) <= Bound /\ t.fcb[f].d0 # 0
    <3>1. t.fcb[f].d0 # 0 /\ t.slot[t.fcb[f].d0 - 1].pos = g.pos
      BY <1>0, <1>1, <1>8, <1>10
    <3> QED
      BY <1>0, <1>2, <1>3, <2>2, <3>1
  <2>5. AdvanceGives(t, f, p, m, max, a)
    BY <1>0, <1>1, <1>3, <1>10, <2>3, <2>4, AdvanceSet
  <2> HIDE DEF a
  <2>6. /\ a \in States /\ a.disk = s.disk
        /\ \A j \in Slots \ {i} : a.slot[j] = s.slot[j]
        /\ \A e \in FcbAddr \ {f} : a.fcb[e] = s.fcb[e]
        /\ a.slot[i].name = n /\ a.slot[i].at = g.at + m /\ a.slot[i].dir = "read"
        /\ a.slot[i].pos = g.pos + m /\ a.slot[i].addr = f /\ a.slot[i].wr = FALSE
        /\ a.fcb[f].name = n
        /\ a.fcb[f].d0 # 0 => a.fcb[f].d0 = s.fcb[f].d0 /\ a.slot[i].open = TRUE
        /\ a.fcb[f].max = IF p + 1 > max THEN p + 1 ELSE s.fcb[f].max
        /\ a.fcb[f].rc = IF p + 1 > max THEN (p + 1) % Ext ELSE s.fcb[f].rc
    <3>1. t.fcb[f].d0 - 1 = i /\ t.fcb[f].d0 = s.fcb[f].d0 /\ t.fcb[f].name = n
      BY <1>0, <1>10
    <3>2. /\ a \in States /\ a.disk = t.disk
          /\ \A j \in Slots \ {i} : a.slot[j] = t.slot[j]
          /\ \A e \in FcbAddr \ {f} : a.fcb[e] = t.fcb[e]
          /\ a.slot[i].name = h.name /\ a.slot[i].at = h.at /\ a.slot[i].dir = h.dir
          /\ a.slot[i].pos = h.pos + m /\ a.slot[i].addr = h.addr /\ a.slot[i].wr = h.wr
          /\ a.fcb[f].name = n
          /\ a.fcb[f].d0 # 0 => a.fcb[f].d0 = s.fcb[f].d0 /\ a.slot[i].open = h.open
          /\ a.fcb[f].max = IF p + 1 > max THEN p + 1 ELSE t.fcb[f].max
          /\ a.fcb[f].rc = IF p + 1 > max THEN (p + 1) % Ext ELSE t.fcb[f].rc
      BY <1>10, <2>5, <3>1 DEF AdvanceGives
    <3> QED
      BY <1>1, <1>8, <1>10, <3>2
  <2>7. SlotOK(a, i, bad)
    <3>1. a.slot[i].pos <= a.slot[i].at /\ a.slot[i].at < a.slot[i].pos + Rec
          /\ (~bad => a.slot[i].at = a.slot[i].pos)
      BY <1>1, <1>2, <1>3, <2>6
    <3> QED
      BY <2>6, <3>1 DEF SlotOK
  <2>8. a.fcb[f].max % Ext <= a.fcb[f].rc
    BY <1>1, <2>6, Bounds
  <2>9. ~bad => a.fcb[f].max = Records(Size(s.disk, n))
    <3>1. SUFFICES ASSUME ~bad
                   PROVE  ~(p + 1 > max)
      BY <1>1, <2>6
    <3>2. Size(s.disk, n) \in Nat /\ ~(p * Rec >= Size(s.disk, n))
      <4>1. Size(s.disk, n) = z /\ z \in Nat
        BY <1>0, <1>1, LenProperties DEF Size
      <4>2. p * Rec \in Int
        BY Product, Bounds
      <4> QED
        BY <2>2, <4>1, <4>2
    <3>3. max = Records(Size(s.disk, n)) /\ max \in Nat /\ ~(p >= max)
      BY <1>1, <3>1, <3>2, RecordsLeast
    <3> QED
      BY <3>3
  <2>10. FcbOK(a, f, bad)
    <3>1. a.fcb[f].d0 # 0 => Own(a, f) /\ a.slot[a.fcb[f].d0 - 1].name = a.fcb[f].name
      BY <1>0, <1>1, <2>6 DEF Own, HasSlot
    <3> QED
      BY <1>0, <1>1, <2>6, <2>8, <2>9, <3>1 DEF FcbOK
  <2>11. Short(a) /\ \A e \in L \ {f} : s.fcb[e].name # a.fcb[f].name
    <3>1. Short(a)
      BY <1>1, <2>6 DEF Short
    <3>2. a.fcb[f].name = s.fcb[f].name
      BY <1>0, <2>6
    <3> QED
      BY <1>1, <3>1, <3>2 DEF Apart
  <2>12. Good(a, L, bad)
    <3>1. s.slot[i].addr = f /\ L \subseteq L \cup {f}
      BY <1>0, <1>1
    <3> QED
      BY <1>1, <2>6, <2>7, <2>10, <2>11, <3>1, Local
  <2>13. TransferGives(s, L, bad, bad, f, wr, p, k, r)
    BY <1>0, <1>7, <2>1, <2>6, <2>12 DEF TransferGives
  <2> QED
    BY <2>13 DEF r
<1> QED
  BY <1>11, <1>12

LEMMA RecordsGrow ==
  ASSUME NEW z \in Nat, NEW p \in Nat
  PROVE  Records(IF z >= p * Rec + Rec THEN z ELSE p * Rec + Rec)
           = IF p + 1 > Records(z) THEN p + 1 ELSE Records(z)
<1> DEFINE x == (p + 1) * Rec
           y == Records(x)
           q == Records(z)
<1>1. x = p * Rec + Rec /\ x \in Int /\ p * Rec >= 0 * Rec /\ p * Rec \in Int
  BY Product
<1>2. x \in Nat
  BY <1>1, Bounds
<1>3. /\ q \in Nat /\ q * Rec >= z /\ q * Rec \in Int
      /\ (p + 1) * Rec >= z <=> p + 1 >= q
  BY RecordsLeast, Product
<1>4. y \in Nat /\ y * Rec >= x /\ p + 1 >= y
  BY <1>2, RecordsLeast
<1>5. y >= p + 1
  <2>1. y < p + 1 => y * Rec + Rec <= x
    BY <1>4, Product
  <2>2. y * Rec \in Int
    BY <1>4, Product
  <2> QED
    BY <1>1, <1>4, <2>1, <2>2, Bounds
<1>6. q < p + 1 => q * Rec + Rec <= x
  BY <1>3, Product
<1> HIDE DEF x, y, q
<1>7. CASE z >= x
  <2>1. q >= p + 1
    BY <1>2, <1>3, <1>6, <1>7, Bounds
  <2> QED
    BY <1>1, <1>3, <1>7, <2>1 DEF q
<1>8. CASE z < x
  <2>1. p + 1 >= q
    BY <1>2, <1>3, <1>8 DEF x
  <2>2. y = p + 1
    BY <1>4, <1>5
  <2>3. Records(IF z >= p * Rec + Rec THEN z ELSE p * Rec + Rec) = p + 1
    BY <1>1, <1>2, <1>8, <2>2 DEF y
  <2> QED
    BY <1>3, <2>1, <2>3 DEF q
<1> QED
  BY <1>2, <1>7, <1>8

LEMMA WriteTransfer ==
  ASSUME NEW s, NEW L, NEW bad \in BOOLEAN, NEW worse \in BOOLEAN, NEW f \in L,
         NEW wr \in BOOLEAN, NEW p \in Nat, NEW rnd \in BOOLEAN,
         NEW max \in 0..MaxRec + 1, NEW k \in 0..Rec, Good(s, L, bad), Standing(s, f, wr, p),
         ~bad => max = s.fcb[f].max, bad => worse, wr => p < MaxRec,
         wr /\ k < Rec => worse /\ ~bad
  PROVE  wr => TransferGives(s, L, bad, worse, f, wr, p, k, Transfer(s, f, wr, p, rnd, max, k))
<1> SUFFICES ASSUME wr, p < MaxRec, k < Rec => worse /\ ~bad
             PROVE  TransferGives(s, L, bad, worse, f, wr, p, k,
                                  Transfer(s, f, wr, p, rnd, max, k))
  OBVIOUS
<1> DEFINE i == s.fcb[f].d0 - 1
           g == s.slot[i]
           n == s.fcb[f].name
           d == Written(s.disk[n], g.at, k)
           h == [g EXCEPT !.at = g.at + k, !.dir = "write", !.wr = TRUE, !.mod = TRUE]
           v == [s EXCEPT !.disk[n] = d]
           t == [v EXCEPT !.slot[i] = h]
           r == Transfer(s, f, wr, p, rnd, max, k)
           z == Len(s.disk[n])
<1>1. /\ s \in States /\ Short(s) /\ f \in FcbAddr /\ L \subseteq FcbAddr /\ Apart(s, L)
      /\ s.fcb[f].d0 \in 1..MaxFcb /\ i \in Slots /\ i + 1 = s.fcb[f].d0
      /\ g \in SlotType /\ g.open = TRUE /\ g.addr = f /\ g.name = n
      /\ n \in Names /\ s.disk[n] \in Seq(Byte) /\ s.disk[n] # NoFile
      /\ s.fcb[f].max % Ext <= s.fcb[f].rc /\ s.fcb[f] \in FcbType
      /\ ~bad => s.fcb[f].max = Records(Size(s.disk, n))
      /\ g.pos = p * Rec /\ p * Rec <= g.at /\ g.at < p * Rec + Rec
      /\ ~bad => g.at = p * Rec
  <2>1. s.fcb[f].d0 # 0 /\ s.slot[s.fcb[f].d0 - 1].pos = p * Rec
    BY DEF Standing
  <2>2. Held(s, L, bad, f, p)
    BY <2>1, StandingSlot
  <2> QED
    BY <2>2 DEF Held
<1>2. g.at \in Nat /\ g.at <= Bound /\ g.pos \in Nat /\ Bound \in Nat /\ Rec \in Nat /\ Rec > 0
  BY <1>1, Bounds DEF SlotType
<1>3. p * Rec + Rec <= MaxRec * Rec /\ MaxRec * Rec + Rec = Bound /\ MaxRec * Rec \in Int
      /\ p * Rec \in Int /\ k \in Nat /\ k <= Rec
  BY Product, Bounds
<1>4. r = [Done(IF k = Rec THEN Advance(t, f, p, Rec, rnd, max) ELSE t, IF k = Rec THEN 0 ELSE 1)
             EXCEPT !.clash = g.dir = "read"]
  <2> DEFINE w == [s EXCEPT !.disk[g.name] = Written(@, g.at, k),
                            !.slot[i] = [@ EXCEPT !.at = g.at + k, !.dir = "write", !.wr = TRUE,
                                                  !.mod = TRUE]]
  <2>1. t = w
    BY <1>1 DEF States
  <2>2. r = [Done(IF k = Rec THEN Advance(w, f, p, Rec, rnd, max) ELSE w, IF k = Rec THEN 0 ELSE 1)
               EXCEPT !.clash = g.dir = "read"]
    BY Zenon DEF Transfer
  <2> HIDE DEF t, v, h, d, w
  <2> QED
    BY <2>1, <2>2
<1>5. (g.dir = "read") = FALSE
  BY DEF Standing
<1>0. i = s.fcb[f].d0 - 1 /\ g = s.slot[i] /\ n = s.fcb[f].name /\ z = Len(s.disk[n])
  OBVIOUS
<1>6. z \in Nat /\ z < Bound /\ Size(s.disk, n) = z
  BY <1>1 DEF Short, Size
<1> HIDE DEF g, i, n, z, r
<1>7. g.at + k \in 0..Bound /\ g.at + k < Bound /\ g.pos + Rec <= Bound
  <2>1. g.pos = p * Rec /\ g.at < p * Rec + Rec
    BY <1>1
  <2> QED
    BY <1>2, <1>3, <2>1
<1>8. d \in Seq(Byte) /\ Len(d) = (IF z >= g.at + k THEN z ELSE g.at + k)
  <2>1. s.disk[n] \in Seq(Byte) /\ g.at \in Nat /\ k \in Nat
    BY <1>1, <1>2, <1>3
  <2>2. /\ Written(s.disk[n], g.at, k) \in Seq(Byte)
        /\ Len(Written(s.disk[n], g.at, k)) =
             IF Len(s.disk[n]) >= g.at + k THEN Len(s.disk[n]) ELSE g.at + k
    BY <2>1, WrittenBytes
  <2> QED
    BY <1>0, <2>2
<1>9. ~bad => d = Written(s.disk[n], p * Rec, k)
  BY <1>1
<1> HIDE DEF d
<1>10. /\ v \in States /\ v.slot = s.slot /\ v.fcb = s.fcb /\ v.disk = [s.disk EXCEPT ![n] = d]
  BY <1>1, <1>8, DiskUpdate
<1>11. /\ h \in SlotType /\ h.at = g.at + k /\ h.dir = "write" /\ h.wr = TRUE /\ h.mod = TRUE
       /\ h.open = g.open /\ h.name = g.name /\ h.pos = g.pos /\ h.addr = g.addr
  BY <1>1, <1>7 DEF SlotType
<1> HIDE DEF h, v
<1>12. SlotSet(v, i, h, t)
  BY <1>1, <1>10, <1>11, SlotUpdate
<1> HIDE DEF t
<1>13. /\ t \in States /\ t.fcb = s.fcb /\ t.slot[i] = h /\ t.disk = [s.disk EXCEPT ![n] = d]
       /\ \A j \in Slots \ {i} : t.slot[j] = s.slot[j]
  BY <1>10, <1>12 DEF SlotSet
<1>14. /\ t.disk[n] = d /\ d # NoFile /\ Size(t.disk, n) = Len(d) /\ Len(d) < Bound /\ Len(d) \in Nat
       /\ \A m \in Names \ {n} : t.disk[m] = s.disk[m]
  <2>1. t.disk[n] = d /\ \A m \in Names \ {n} : t.disk[m] = s.disk[m]
    BY <1>1, <1>13, Parts
  <2>2. d # NoFile
    BY <1>8, FilesAssumption
  <2>3. Len(d) < Bound /\ Len(d) \in Nat
    BY <1>2, <1>3, <1>6, <1>7, <1>8
  <2> QED
    BY <2>1, <2>2, <2>3 DEF Size
<1>15. ASSUME NEW a \in States, a.disk = t.disk
       PROVE  Short(a) /\ \A e \in L \ {f} : a.disk[s.fcb[e].name] = s.disk[s.fcb[e].name]
  <2>1. Short(a)
    BY <1>1, <1>14, <1>15 DEF Short
  <2>2. ASSUME NEW e \in L \ {f}
        PROVE  a.disk[s.fcb[e].name] = s.disk[s.fcb[e].name]
    <3>1. s.fcb[e].name \in Names /\ s.fcb[e].name # n
      BY <1>0, <1>1, Parts DEF Apart, FcbType
    <3> QED
      BY <1>14, <1>15, <3>1
  <2> QED
    BY <2>1, <2>2
<1>16. ASSUME NEW a \in States, a.disk = t.disk,
              \A j \in Slots \ {i} : a.slot[j] = s.slot[j],
              \A e \in FcbAddr \ {f} : a.fcb[e] = s.fcb[e],
              a.fcb[f].name = n, a.slot[i].name = n, a.slot[i].addr = f,
              a.fcb[f].d0 # 0 => a.fcb[f].d0 = s.fcb[f].d0 /\ a.slot[i].open = TRUE,
              a.fcb[f].max % Ext <= a.fcb[f].rc,
              ~worse => a.fcb[f].max = Records(Len(d)), SlotOK(a, i, worse)
       PROVE  Good(a, L, worse)
  <2>1. FcbOK(a, f, worse)
    <3>1. a.fcb[f].d0 # 0 => Own(a, f) /\ a.slot[a.fcb[f].d0 - 1].name = a.fcb[f].name
      BY <1>0, <1>1, <1>16 DEF Own, HasSlot
    <3>2. a.disk[a.fcb[f].name] # NoFile /\ Size(a.disk, a.fcb[f].name) = Len(d)
      BY <1>14, <1>16
    <3> QED
      BY <1>16, <3>1, <3>2 DEF FcbOK
  <2>2. \A e \in L \ {f} : s.fcb[e].name # a.fcb[f].name
    <3>1. a.fcb[f].name = s.fcb[f].name
      BY <1>0, <1>16
    <3> QED
      BY <1>1, <3>1 DEF Apart
  <2>3. s.slot[i].addr = f /\ L \subseteq L \cup {f}
    BY <1>0, <1>1
  <2>4. Short(a) /\ \A e \in L \ {f} : a.disk[s.fcb[e].name] = s.disk[s.fcb[e].name]
    BY <1>15, <1>16
  <2> QED
    BY <1>1, <1>16, <2>1, <2>2, <2>3, <2>4, Local
<1>17. CASE k < Rec
  <2>1. r.s = t /\ r.ret = 1 /\ r.clash = FALSE
    BY <1>3, <1>4, <1>5, <1>17 DEF Done
  <2>2. SlotOK(t, i, worse)
    <3>1. t.slot[i].pos <= t.slot[i].at /\ t.slot[i].at < t.slot[i].pos + Rec
      BY <1>1, <1>2, <1>3, <1>11, <1>13, <1>17
    <3> QED
      BY <1>11, <1>13, <1>17, <3>1 DEF SlotOK
  <2>3. Good(t, L, worse)
    BY <1>0, <1>1, <1>11, <1>13, <1>16, <1>17, <2>2
  <2>4. TransferGives(s, L, bad, worse, f, wr, p, k, r)
    BY <1>0, <1>13, <2>1, <2>3 DEF TransferGives
  <2> QED
    BY <2>4 DEF r
<1>18. CASE k = Rec
  <2> DEFINE a == Advance(t, f, p, Rec, rnd, max)
  <2>1. r.s = a /\ r.ret = 0 /\ r.clash = FALSE
    BY <1>4, <1>5, <1>18 DEF Done
  <2>2. p \in 0..MaxRec /\ p + 1 \in 0..MaxRec + 1
    BY Bounds
  <2>3. t.fcb[f].d0 # 0 /\ t.fcb[f].d0 - 1 = i /\ t.slot[t.fcb[f].d0 - 1].pos + Rec <= Bound
    <3>1. t.fcb[f].d0 = s.fcb[f].d0 /\ t.slot[i].pos = g.pos
      BY <1>11, <1>13
    <3>2. s.fcb[f].d0 # 0
      BY <1>1
    <3> QED
      BY <1>0, <1>7, <3>1, <3>2
  <2>4. AdvanceGives(t, f, p, Rec, max, a)
    BY <1>1, <1>2, <1>13, <2>2, <2>3, AdvanceSet
  <2> HIDE DEF a
  <2>5. /\ a \in States /\ a.disk = t.disk
        /\ \A j \in Slots \ {i} : a.slot[j] = t.slot[j]
        /\ \A e \in FcbAddr \ {f} : a.fcb[e] = t.fcb[e]
        /\ a.slot[i].name = h.name /\ a.slot[i].at = h.at /\ a.slot[i].dir = h.dir
        /\ a.slot[i].pos = h.pos + Rec /\ a.slot[i].addr = h.addr /\ a.slot[i].wr = h.wr
        /\ a.fcb[f].name = t.fcb[f].name
        /\ a.fcb[f].d0 # 0 => a.fcb[f].d0 = t.fcb[f].d0 /\ a.slot[i].open = h.open
        /\ a.fcb[f].max = IF p + 1 > max THEN p + 1 ELSE t.fcb[f].max
        /\ a.fcb[f].rc = IF p + 1 > max THEN (p + 1) % Ext ELSE t.fcb[f].rc
    BY <1>13, <2>3, <2>4 DEF AdvanceGives
  <2>6. SlotOK(a, i, worse)
    <3>1. a.slot[i].pos <= a.slot[i].at /\ a.slot[i].at < a.slot[i].pos + Rec
          /\ (~worse => a.slot[i].at = a.slot[i].pos)
      BY <1>1, <1>2, <1>3, <1>11, <1>18, <2>5
    <3> QED
      BY <1>11, <2>5, <3>1 DEF SlotOK
  <2>7. a.fcb[f].max % Ext <= a.fcb[f].rc
    BY <1>1, <1>13, <2>5, Bounds
  <2>8. ASSUME ~worse
        PROVE  a.fcb[f].max = Records(Len(d))
    <3>1. max = Records(z) /\ t.fcb[f].max = max /\ g.at = p * Rec
      BY <1>0, <1>1, <1>6, <1>13, <2>8
    <3>2. Len(d) = IF z >= p * Rec + Rec THEN z ELSE p * Rec + Rec
      BY <1>8, <1>18, <3>1
    <3>3. Records(Len(d)) = IF p + 1 > max THEN p + 1 ELSE max
      BY <1>6, <3>1, <3>2, RecordsGrow
    <3> QED
      BY <2>5, <3>1, <3>3
  <2>9. Good(a, L, worse)
    <3>1. \A j \in Slots \ {i} : a.slot[j] = s.slot[j]
      BY <1>13, <2>5
    <3>2. \A e \in FcbAddr \ {f} : a.fcb[e] = s.fcb[e]
      BY <1>13, <2>5
    <3>3. /\ a.fcb[f].name = n /\ a.slot[i].name = n /\ a.slot[i].addr = f
          /\ a.fcb[f].d0 # 0 => a.fcb[f].d0 = s.fcb[f].d0 /\ a.slot[i].open = TRUE
      <4>1. t.fcb[f].name = n /\ t.fcb[f].d0 = s.fcb[f].d0
        BY <1>0, <1>13
      <4>2. h.name = n /\ h.addr = f /\ h.open = TRUE
        BY <1>1, <1>11
      <4> QED
        BY <2>5, <4>1, <4>2
    <3> QED
      BY <1>16, <2>5, <2>6, <2>7, <2>8, <3>1, <3>2, <3>3
  <2>10. TransferGives(s, L, bad, worse, f, wr, p, k, r)
    BY <1>0, <1>9, <1>13, <1>18, <2>1, <2>5, <2>9 DEF TransferGives
  <2> QED
    BY <2>10 DEF r
<1>19. k < Rec \/ k = Rec
  BY <1>2, <1>3
<1> QED
  BY <1>17, <1>18, <1>19, Zenon

(* What holds with fewer failed writes holds with more.                    *)
LEMMA Weaker ==
  ASSUME NEW s, NEW L, NEW bad \in BOOLEAN, NEW worse \in BOOLEAN, Good(s, L, bad), bad => worse
  PROVE  Good(s, L, worse)
<1>1. \A i \in Slots : SlotOK(s, i, worse)
  BY DEF Good, SlotOK
<1>2. \A f \in L : FcbOK(s, f, worse)
  BY DEF Good, FcbOK
<1> QED
  BY <1>1, <1>2 DEF Good

(* cpm_file_rw() as a whole, on an opened FCB.                             *)
FileRwGives(s, L, bad, worse, f, wr, p, k, r) ==
  LET n == s.fcb[f].name IN
  /\ Good(r.s, L, worse) /\ r.s.fcb[f].name = n /\ r.clash = FALSE /\ r.ret \in {0, 1, 6, 255}
  /\ ~wr => r.s.disk = s.disk
  /\ wr /\ r.ret = 0 => k = Rec
  /\ wr /\ r.ret = 0 /\ ~bad => r.s.disk = [s.disk EXCEPT ![n] = Written(@, p * Rec, Rec)]
  /\ ~wr /\ r.ret = 0 /\ ~bad => r.buf = Padded(Got(s.disk[n], p * Rec))
  /\ ~wr /\ r.ret = 1 /\ ~bad => p * Rec >= Size(s.disk, n)
  /\ r.ret = 255 => (\A i \in Slots : r.s.slot[i].open) \/ (wr /\ n \in ReadOnly)

LEMMA TransferOK ==
  ASSUME NEW s, NEW L, NEW bad \in BOOLEAN, NEW worse \in BOOLEAN, NEW f \in L,
         NEW wr \in BOOLEAN, NEW p \in Nat, NEW rnd \in BOOLEAN,
         NEW max \in 0..MaxRec + 1, NEW k \in 0..Rec, Good(s, L, bad), Standing(s, f, wr, p),
         ~bad => max = s.fcb[f].max, bad => worse, wr => p < MaxRec,
         wr /\ k < Rec => worse /\ ~bad
  PROVE  TransferGives(s, L, bad, worse, f, wr, p, k, Transfer(s, f, wr, p, rnd, max, k))
<1> DEFINE r == Transfer(s, f, wr, p, rnd, max, k)
<1>1. wr => TransferGives(s, L, bad, worse, f, wr, p, k, r)
  BY WriteTransfer, ZenonT(40)
<1>2. CASE ~wr
  <2>1. k \in Nat
    BY Bounds
  <2>2. TransferGives(s, L, bad, bad, f, wr, p, k, r)
    BY <1>2, <2>1, ReadTransfer
  <2> HIDE DEF r
  <2>3. Good(r.s, L, bad)
    BY <2>2, Zenon DEF TransferGives
  <2>4. Good(r.s, L, worse)
    BY <2>3, Weaker
  <2>5. TransferGives(s, L, bad, worse, f, wr, p, k, r)
    BY <2>2, <2>4 DEF TransferGives
  <2> QED
    BY <2>5 DEF r
<1> QED
  BY <1>1, <1>2

LEMMA FileRwOK ==
  ASSUME NEW s, NEW L, NEW bad \in BOOLEAN, NEW worse \in BOOLEAN, NEW f \in L,
         NEW wr \in BOOLEAN, NEW rnd \in BOOLEAN, NEW p \in Nat, NEW k \in 0..Rec,
         Good(s, L, bad), bad => worse,
         wr /\ ~(rnd /\ p >= RndMax) => p < MaxRec, wr /\ k < Rec => worse /\ ~bad
  PROVE  FileRwGives(s, L, bad, worse, f, wr, p, k, FileRw(s, f, wr, rnd, p, k))
<1> DEFINE max == s.fcb[f].max
           n == s.fcb[f].name
           a == IF rnd THEN At(s, f, p) ELSE s
           b == Ready(a, f, wr, p)
           c == Seek(b.s, f, wr, p, max)
           d == Transfer(c.s, f, wr, p, rnd, max, k)
           r == FileRw(s, f, wr, rnd, p, k)
<1>0. max = s.fcb[f].max /\ n = s.fcb[f].name
  OBVIOUS
<1>1. r = IF rnd /\ p >= RndMax THEN Done(s, 6)
          ELSE IF b.ret # 0 THEN b
          ELSE IF c.ret # 0 THEN c
          ELSE d
  BY Zenon DEF FileRw
<1>2. s \in States /\ f \in FcbAddr /\ FcbOK(s, f, bad) /\ Short(s)
  BY DEF Good
<1>3. max \in 0..MaxRec + 1 /\ n \in Names /\ s.disk[n] # NoFile
      /\ (~bad => max = Records(Size(s.disk, n)))
  BY <1>2, Parts DEF FcbOK, FcbType
<1>4. ASSUME ~bad, p >= max
      PROVE  p * Rec >= Size(s.disk, n)
  <2>1. Size(s.disk, n) \in Nat /\ max = Records(Size(s.disk, n))
    BY <1>2, <1>3, <1>4, RecordsBound
  <2> QED
    BY <1>4, <2>1, RecordsLeast
<1>5. Good(a, L, bad) /\ a.disk = s.disk /\ a.fcb[f].name = n /\ a.fcb[f].max = max
  <2>1. Good(At(s, f, p), L, bad) /\ At(s, f, p).disk = s.disk
        /\ At(s, f, p).fcb[f].name = s.fcb[f].name /\ At(s, f, p).fcb[f].max = s.fcb[f].max
    BY AtOK
  <2>2. CASE rnd
    BY <2>1, <2>2
  <2>3. CASE ~rnd
    BY <2>3
  <2> QED
    BY <2>2, <2>3
<1> HIDE DEF a, n, max
<1>6. ReadyGives(a, L, bad, f, wr, p, b)
  BY <1>5, ReadyOK
<1> HIDE DEF b
<1>7. /\ Good(b.s, L, bad) /\ b.s.disk = s.disk /\ b.s.fcb[f].name = n
      /\ b.ret \in {0, 1, 255} /\ b.clash = FALSE
      /\ b.ret = 0 => b.s.fcb[f].d0 # 0
      /\ b.ret = 1 => ~wr /\ p >= max
      /\ b.ret = 255 => (\A i \in Slots : b.s.slot[i].open) \/ (wr /\ n \in ReadOnly)
  BY <1>5, <1>6 DEF ReadyGives
<1>8. CASE rnd /\ p >= RndMax
  <2>1. r.s = s /\ r.ret = 6 /\ r.clash = FALSE
    BY <1>1, <1>8 DEF Done
  <2> HIDE DEF r
  <2>2. Good(s, L, worse)
    BY Weaker
  <2>3. FileRwGives(s, L, bad, worse, f, wr, p, k, r)
    BY <2>1, <2>2 DEF FileRwGives
  <2> QED
    BY <2>3 DEF r
<1>9. CASE ~(rnd /\ p >= RndMax) /\ b.ret # 0
  <2>1. r = b
    BY <1>1, <1>9
  <2> HIDE DEF r
  <2>2. Good(r.s, L, worse)
    BY <1>7, <2>1, Weaker
  <2>3. r.ret \in {1, 255} /\ (r.ret = 1 => ~wr /\ p >= max)
        /\ (r.ret = 255 => (\A i \in Slots : r.s.slot[i].open) \/ (wr /\ n \in ReadOnly))
    BY <1>7, <1>9, <2>1
  <2>4. r.ret = 1 /\ ~bad => p * Rec >= Size(s.disk, n)
    BY <1>4, <2>3
  <2>5. FileRwGives(s, L, bad, worse, f, wr, p, k, r)
    BY <1>0, <1>7, <2>1, <2>2, <2>3, <2>4 DEF FileRwGives
  <2> QED
    BY <2>5 DEF r
<1>10. CASE ~(rnd /\ p >= RndMax) /\ b.ret = 0
  <2>1. (wr => p <= MaxRec) /\ (wr => p < MaxRec)
    BY <1>10, Bounds
  <2>2. SeekGives(b.s, L, bad, f, wr, p, max, c)
    BY <1>3, <1>7, <1>10, <2>1, SeekOK
  <2> HIDE DEF c
  <2>3. /\ Good(c.s, L, bad) /\ c.s.disk = s.disk /\ c.s.fcb[f].name = n
        /\ c.ret \in {0, 1} /\ c.clash = FALSE
        /\ c.ret = 0 => Standing(c.s, f, wr, p)
        /\ c.ret = 1 => ~wr /\ p > max
    BY <1>7, <2>2 DEF SeekGives
  <2>4. CASE c.ret # 0
    <3>1. r = c /\ r.ret = 1
      BY <1>1, <1>10, <2>3, <2>4
    <3> HIDE DEF r
    <3>2. Good(r.s, L, worse)
      BY <2>3, <3>1, Weaker
    <3>3. ~bad => p * Rec >= Size(s.disk, n)
      BY <1>3, <1>4, <2>3, <3>1
    <3>4. FileRwGives(s, L, bad, worse, f, wr, p, k, r)
      BY <1>0, <2>3, <3>1, <3>2, <3>3 DEF FileRwGives
    <3> QED
      BY <3>4 DEF r
  <2>5. CASE c.ret = 0
    <3>1. r = d
      BY <1>1, <1>10, <2>5
    <3>2. ~bad => max = c.s.fcb[f].max
      <4>1. FcbOK(c.s, f, bad)
        BY <2>3 DEF Good
      <4> QED
        BY <1>3, <2>3, <4>1 DEF FcbOK
    <3>3. Standing(c.s, f, wr, p)
      BY <2>3, <2>5
    <3>4. TransferGives(c.s, L, bad, worse, f, wr, p, k, d)
      BY <1>3, <2>1, <2>3, <3>2, <3>3, TransferOK
    <3> HIDE DEF r, d
    <3>5. FileRwGives(s, L, bad, worse, f, wr, p, k, r)
      BY <1>0, <2>3, <3>1, <3>4 DEF FileRwGives, TransferGives
    <3> QED
      BY <3>5 DEF r
  <2> QED
    BY <2>4, <2>5
<1> QED
  BY <1>8, <1>9, <1>10

(***************************************************************************)
(* The steps.                                                              *)
(***************************************************************************)
(* What the last call told the program.                                    *)
Told == ReadExact /\ EofExact /\ SizeExact /\ NoClash /\ Reopens

(* What a step may do to the files: WriteExact and KeepsFiles of one step. *)
FilesStep ==
  /\ last'.op = "write" /\ last'.ret = 0 /\ ~fault =>
       disk' = [disk EXCEPT ![fcb[last'.f].name] = Written(@, last'.rec * Rec, Rec)]
  /\ last'.op \in {"open", "close", "size", "read"} => disk' = disk

(* A record number cr and ex can give is below what r0 and r1 can, and a   *)
(* record of a file is one that cr and ex can give.                        *)
LEMMA SeqRecs ==
  /\ \A c \in FcbType : SeqRec(c) \in Nat /\ SeqRec(c) < RndMax
  /\ \A p \in 0..MaxRec : p \div Ext \in 0..ExMod - 1
<1>1. ASSUME NEW a \in Int, NEW b \in Int, a <= b
      PROVE  a * Ext \in Int /\ b * Ext \in Int /\ a * Ext <= b * Ext
  <2>1. (b - a) \in Nat /\ Ext \in Nat
    BY <1>1, Bounds
  <2>2. (b - a) * Ext \in Nat /\ a * Ext \in Int /\ b * Ext \in Int
    BY <2>1, SMT
  <2>3. (b - a) * Ext = b * Ext - a * Ext
    BY <2>1, SMT
  <2> QED
    BY <2>2, <2>3
<1>2. (ExMod - 1) * Ext = Ext * ExMod - Ext /\ Ext * ExMod \in Int
  BY Bounds, SMT
<1>3. Ext * ExMod <= RndMax /\ MaxRec < Ext * ExMod
  BY FilesAssumption
<1>4. ASSUME NEW c \in FcbType
      PROVE  SeqRec(c) \in Nat /\ SeqRec(c) < RndMax
  <2>1. c.ex \in Int /\ c.ex <= ExMod - 1 /\ 0 <= c.ex /\ c.cr \in Nat /\ c.cr < Ext
    BY Bounds DEF FcbType
  <2>2. c.ex * Ext \in Int /\ c.ex * Ext <= (ExMod - 1) * Ext /\ 0 * Ext <= c.ex * Ext
    BY <1>1, <2>1, Bounds
  <2> QED
    BY <1>2, <1>3, <2>1, <2>2, Bounds DEF SeqRec
<1>5. ASSUME NEW p \in 0..MaxRec
      PROVE  p \div Ext \in 0..ExMod - 1
  <2> DEFINE q == p \div Ext
  <2>1. q \in Nat /\ q * Ext <= p
    BY Bounds
  <2> HIDE DEF q
  <2>2. q >= ExMod => ExMod * Ext <= q * Ext /\ q * Ext \in Int
    BY <1>1, <2>1, Bounds
  <2>3. ExMod * Ext = Ext * ExMod
    BY Bounds, SMT
  <2>4. ~(q >= ExMod)
    BY <1>2, <1>3, <2>1, <2>2, <2>3, Bounds
  <2> QED
    BY <2>1, <2>4, Bounds DEF q
<1> QED
  BY <1>4, <1>5

(* The state after a call is the one its function gives.                   *)
LEMMA Called ==
  ASSUME NEW op, NEW f, NEW rec, NEW r, NEW n, IInv, Call(op, f, rec, r, n),
         Good(r.s, live', fault'), fault' \in BOOLEAN
  PROVE  IInv' /\ Now' = r.s
<1>1. r.s \in States
  BY DEF Good
<1>2. disk' = r.s.disk /\ slot' = r.s.slot /\ fcb' = r.s.fcb
  BY DEF Call
<1>3. Now' = r.s
  BY <1>1, <1>2 DEF Now, States
<1>4. calls' \in 0..MaxCalls
  BY FilesAssumption DEF IInv, Call
<1> QED
  BY <1>3, <1>4 DEF IInv

(* A call that neither reads, writes nor sizes.                            *)
LEMMA Quiet ==
  ASSUME NEW op \in {"open", "make", "close", "delete", "rename", "record", "own"},
         NEW f, NEW rec, NEW r, NEW n, Call(op, f, rec, r, n), r.clash = FALSE,
         op \in {"open", "close"} => r.s.disk = disk
  PROVE  Told' /\ FilesStep
<1>1. last'.op = op /\ last'.clash = FALSE /\ disk' = r.s.disk
  BY DEF Call
<1>2. last'.op \notin {"read", "write", "size"}
  BY <1>1
<1>3. Told'
  BY <1>1, <1>2 DEF Told, ReadExact, EofExact, SizeExact, NoClash, Reopens
<1>4. FilesStep
  BY <1>1, <1>2 DEF FilesStep
<1> QED
  BY <1>3, <1>4

(* Good depends on the FCBs of L only.                                     *)
LEMMA FcbOther ==
  ASSUME NEW s, NEW t, NEW L, NEW bad \in BOOLEAN, NEW f \in FcbAddr, Good(s, L, bad),
         t \in States, t.disk = s.disk, t.slot = s.slot,
         \A g \in FcbAddr \ {f} : t.fcb[g] = s.fcb[g]
  PROVE  Good(t, L \ {f}, bad)
<1>1. Short(t) /\ L \ {f} \subseteq FcbAddr
  BY DEF Good, Short
<1>2. \A i \in Slots : SlotOK(t, i, bad)
  BY DEF Good, SlotOK
<1>3. \A g \in L \ {f} : FcbOK(t, g, bad)
  BY DEF Good, FcbOK, Own, HasSlot
<1>4. Apart(t, L \ {f})
  BY DEF Good, Apart
<1> QED
  BY <1>1, <1>2, <1>3, <1>4 DEF Good

(* Good depends on the files of L only.                                    *)
LEMMA DiskOther ==
  ASSUME NEW s, NEW t, NEW L, NEW bad \in BOOLEAN, Good(s, L, bad),
         t \in States, t.slot = s.slot, t.fcb = s.fcb, Short(t),
         \A g \in L : t.disk[s.fcb[g].name] = s.disk[s.fcb[g].name]
  PROVE  Good(t, L, bad)
<1>1. \A i \in Slots : SlotOK(t, i, bad)
  BY DEF Good, SlotOK
<1>2. \A g \in L : FcbOK(t, g, bad)
  BY DEF Good, FcbOK, Own, HasSlot, Size
<1>3. Apart(t, L)
  BY DEF Good, Apart
<1> QED
  BY <1>1, <1>2, <1>3 DEF Good

LEMMA InitOK ==
  Init => IInv /\ Told
<1> SUFFICES ASSUME Init PROVE IInv /\ Told
  OBVIOUS
<1>1. disk \in [Names -> Seq(Byte) \cup {NoFile}]
      /\ \A n \in Names : disk[n] # NoFile => Len(disk[n]) < Bound
  BY FilesAssumption DEF Init, Bound
<1>2. (CHOOSE n \in Names : TRUE) \in Names
  BY FilesAssumption
<1>3. slot \in [Slots -> SlotType]
        /\ \A i \in Slots : slot[i].at = 0 /\ slot[i].pos = 0 /\ slot[i].dir = "none"
  BY <1>2, Bounds DEF Init, SlotType
<1>4. fcb \in [FcbAddr -> FcbType]
  BY Bounds DEF Init, FcbType
<1>5. Now \in States /\ Short(Now)
  BY <1>1, <1>3, <1>4 DEF Now, States, Short
<1>6. \A i \in Slots : SlotOK(Now, i, fault)
  BY <1>3, Bounds DEF SlotOK, Now
<1>7. live = {} /\ fault = FALSE /\ calls = 0 /\ last = Nothing
  BY DEF Init
<1>8. Good(Now, live, fault)
  BY <1>5, <1>6, <1>7 DEF Good, Apart
<1>9. IInv
  <2>1. calls \in 0..MaxCalls /\ fault \in BOOLEAN
    <3>1. MaxCalls \in Nat
      BY FilesAssumption
    <3>2. calls = 0
      BY <1>7, Zenon
    <3>3. calls \in 0..MaxCalls
      BY <3>1, <3>2
    <3> QED
      BY <1>7, <3>3, Zenon
  <2> QED
    BY <1>8, <2>1, Zenon DEF IInv
<1>10. Told
  BY <1>7 DEF Told, Nothing, ReadExact, EofExact, SizeExact, NoClash, Reopens
<1> QED
  BY <1>9, <1>10

LEMMA OpeningOK ==
  ASSUME IInv, NEW f \in FcbAddr, NEW op \in {"open", "make"}, NEW mode \in {"open", "create"},
         op = "open" => mode = "open", Opening(op, f, mode)
  PROVE  IInv' /\ Told' /\ FilesStep
<1> DEFINE r == FileOpen(Now, f, mode)
<1>1. Good(Now, live, fault) /\ fault \in BOOLEAN /\ live \subseteq FcbAddr
  BY DEF IInv, Good
<1>2. Call(op, f, 0, r, 0) /\ fault' = fault /\ live' = IF r.ret = 0 THEN live \cup {f} ELSE live \ {f}
  BY Zenon DEF Opening
<1>3. \A g \in live \ {f} : Now.fcb[g].name # Now.fcb[f].name
  BY DEF Opening, Mine, Now
<1>4. FileOpenGives(Now, live, fault, f, mode, r)
  BY <1>1, <1>3, FileOpenOK
<1> HIDE DEF r
<1>5. /\ r.ret \in {0, 255} /\ r.clash = FALSE /\ Good(r.s, live \ {f}, fault)
      /\ r.s.fcb[f].name = Now.fcb[f].name /\ \A g \in FcbAddr \ {f} : r.s.fcb[g] = Now.fcb[g]
      /\ mode # "create" => r.s.disk = Now.disk
      /\ r.ret = 0 => FcbOK(r.s, f, fault)
  BY <1>4, Zenon DEF FileOpenGives
<1>6. Good(r.s, live', fault')
  <2>1. CASE r.ret = 0
    <3>1. \A g \in live \ {f} : r.s.fcb[g].name # r.s.fcb[f].name
      BY <1>1, <1>3, <1>5
    <3>2. Good(r.s, live \cup {f}, fault)
      <4>1. Good(r.s, live \ {f}, fault) /\ FcbOK(r.s, f, fault)
        BY <1>5, <2>1
      <4> QED
        BY <1>1, <3>1, <4>1, AddLive, Zenon
    <3> QED
      BY <1>2, <2>1, <3>2
  <2>2. CASE r.ret # 0
    BY <1>2, <1>5, <2>2
  <2> QED
    BY <2>1, <2>2
<1>7. IInv'
  BY <1>1, <1>2, <1>6, Called
<1>8. op \in {"open", "close"} => r.s.disk = disk
  BY <1>5 DEF Now
<1>9. Told' /\ FilesStep
  <2>1. op \in {"open", "make", "close", "delete", "rename", "record", "own"}
    OBVIOUS
  <2> QED
    BY <1>2, <1>5, <1>8, <2>1, Quiet, Zenon
<1> QED
  BY <1>7, <1>9

(* rc never truncates a file, so closing leaves it.                        *)
LEMMA CloseOK ==
  ASSUME IInv, NEW f \in FcbAddr, Close(f)
  PROVE  IInv' /\ Told' /\ FilesStep
<1> DEFINE r == FileClose(Now, f)
           q == [r EXCEPT !.s = ChangeSize(r.s, f)]
<1>1. /\ Good(Now, live, fault) /\ fault \in BOOLEAN /\ Now \in States /\ f \in live
      /\ FcbOK(Now, f, fault)
  BY DEF IInv, Good, Close
<1>2. Call("close", f, 0, q, 0) /\ fault' = fault /\ live' = live \ {f}
  BY Zenon DEF Close
<1>3. Good(r.s, live, fault) /\ r.clash = FALSE /\ Detached(Now, f, r.s)
  <2>1. Good(r.s, live, fault)
    BY <1>1, FileCloseOK
  <2>2. r.clash = FALSE /\ Detached(Now, f, r.s)
    BY <1>1, FileCloseSet
  <2> QED
    BY <2>1, <2>2
<1>4. r \in [s : {r.s}, ret : {r.ret}, buf : {r.buf}, clash : {r.clash}]
  BY DEF FileClose, Done
<1> HIDE DEF r
<1>5. ChangeSize(r.s, f) = r.s
  <2>1. r.s.fcb[f].max % Ext <= r.s.fcb[f].rc
    BY <1>1, <1>3 DEF Detached, FcbOK
  <2>2. r.s.fcb[f].max % Ext \in Int /\ r.s.fcb[f].rc \in Int
    <3>1. r.s.fcb[f] \in FcbType
      BY <1>1, <1>3, Parts DEF Detached
    <3> QED
      BY <3>1, Bounds DEF FcbType
  <2>3. ~(r.s.fcb[f].max % Ext > r.s.fcb[f].rc)
    BY <2>1, <2>2
  <2> QED
    BY <2>3 DEF ChangeSize
<1>6. q.s = r.s /\ q.clash = FALSE
  BY <1>3, <1>4, <1>5
<1> HIDE DEF q
<1>7. Good(q.s, live', fault')
  BY <1>2, <1>3, <1>6, Fewer
<1>8. IInv'
  BY <1>1, <1>2, <1>7, Called
<1>9. q.s.disk = disk
  BY <1>3, <1>6 DEF Detached, Now
<1>10. Told' /\ FilesStep
  BY <1>2, <1>6, <1>9, Quiet
<1> QED
  BY <1>8, <1>10

LEMMA ReadOK ==
  ASSUME IInv, NEW f \in FcbAddr, NEW rnd \in BOOLEAN, NEW p \in 0..MaxRec \cup {RndMax},
         Read(f, rnd, p)
  PROVE  IInv' /\ Told' /\ FilesStep
<1> DEFINE r == FileRw(Now, f, FALSE, rnd, p, 0)
           n == fcb[f].name
<1>1. Good(Now, live, fault) /\ fault \in BOOLEAN /\ f \in live /\ FcbOK(Now, f, fault)
  BY DEF IInv, Good, Read
<1>2. Call("read", f, p, r, 0) /\ fault' = fault /\ live' = live
  BY Zenon DEF Read
<1>3. p \in Nat /\ 0 \in 0..Rec
  BY Bounds
<1>4. PICK w \in BOOLEAN : ~w
  OBVIOUS
<1>5. FileRwGives(Now, live, fault, fault, f, w, p, 0, FileRw(Now, f, w, rnd, p, 0))
  BY <1>1, <1>3, <1>4, FileRwOK
<1>6. r = FileRw(Now, f, w, rnd, p, 0)
  BY <1>4
<1>7. FileRwGives(Now, live, fault, fault, f, w, p, 0, r)
  BY <1>5, <1>6
<1> HIDE DEF r
<1>8. /\ Good(r.s, live, fault) /\ r.s.fcb[f].name = n /\ r.clash = FALSE /\ r.s.disk = disk
      /\ r.ret \in {0, 1, 6, 255}
      /\ r.ret = 0 /\ ~fault => r.buf = Padded(Got(disk[n], p * Rec))
      /\ r.ret = 1 /\ ~fault => p * Rec >= Size(disk, n)
      /\ r.ret = 255 => \A i \in Slots : r.s.slot[i].open
  BY <1>4, <1>7 DEF FileRwGives, Now
<1>9. IInv' /\ Now' = r.s
  BY <1>1, <1>2, <1>8, Called
<1>10. /\ disk' = disk /\ fcb'[f].name = n /\ slot' = r.s.slot
       /\ last'.op = "read" /\ last'.ret = r.ret /\ last'.buf = r.buf /\ last'.f = f
       /\ last'.rec = p /\ last'.clash = FALSE
  BY <1>2, <1>8 DEF Call
<1>11. disk[n] # NoFile
  BY <1>1 DEF FcbOK, Now
<1>12. ReadExact' /\ EofExact' /\ SizeExact' /\ NoClash' /\ Reopens'
  <2>1. ReadExact'
    BY <1>2, <1>8, <1>10, <1>11 DEF ReadExact
  <2>2. EofExact'
    BY <1>2, <1>8, <1>10 DEF EofExact
  <2>3. SizeExact' /\ NoClash'
    BY <1>10 DEF SizeExact, NoClash
  <2>4. Reopens'
    BY <1>8, <1>10 DEF Reopens
  <2> QED
    BY <2>1, <2>2, <2>3, <2>4
<1>13. FilesStep
  BY <1>10 DEF FilesStep
<1> QED
  BY <1>9, <1>12, <1>13 DEF Told

(* Both kinds of write: worse says whether a write has failed after it.    *)
LEMMA WritingOK ==
  ASSUME IInv, NEW f \in live, NEW rnd \in BOOLEAN, NEW p \in 0..MaxRec \cup {RndMax},
         NEW k \in 0..Rec, NEW worse \in BOOLEAN,
         rnd \/ p = SeqRec(fcb[f]), p < MaxRec \/ p >= RndMax,
         fault => worse, k < Rec => worse /\ ~fault,
         Call("write", f, p, FileRw(Now, f, TRUE, rnd, p, k), 0), live' = live, fault' = worse
  PROVE  IInv' /\ Told' /\ FilesStep
<1> DEFINE r == FileRw(Now, f, TRUE, rnd, p, k)
           n == fcb[f].name
<1>1. /\ Good(Now, live, fault) /\ fault \in BOOLEAN /\ f \in FcbAddr
      /\ FcbOK(Now, f, fault) /\ Now \in States
  BY DEF IInv, Good
<1>2. p \in Nat
  BY Bounds
<1>3. ~(rnd /\ p >= RndMax) => p < MaxRec
  <2>1. fcb[f] \in FcbType
    BY <1>1, Parts DEF Now
  <2>2. SeqRec(fcb[f]) < RndMax /\ SeqRec(fcb[f]) \in Nat
    BY <2>1, SeqRecs
  <2> QED
    BY <1>2, <2>2, Bounds
<1>4. PICK w \in BOOLEAN : w
  OBVIOUS
<1>5. (w /\ ~(rnd /\ p >= RndMax) => p < MaxRec) /\ (w /\ k < Rec => worse /\ ~fault)
  BY <1>3, Zenon
<1>6. FileRwGives(Now, live, fault, worse, f, w, p, k, FileRw(Now, f, w, rnd, p, k))
  BY <1>1, <1>2, <1>5, FileRwOK
<1>7. r = FileRw(Now, f, w, rnd, p, k)
  BY <1>4
<1>8. FileRwGives(Now, live, fault, worse, f, w, p, k, r)
  BY <1>6, <1>7
<1> HIDE DEF r
<1>9. /\ Good(r.s, live, worse) /\ r.s.fcb[f].name = n /\ r.clash = FALSE
      /\ r.ret \in {0, 1, 6, 255}
      /\ r.ret = 0 /\ ~fault => r.s.disk = [disk EXCEPT ![n] = Written(@, p * Rec, Rec)]
      /\ r.ret = 255 => (\A i \in Slots : r.s.slot[i].open) \/ n \in ReadOnly
  BY <1>4, <1>8 DEF FileRwGives, Now
<1>10. Call("write", f, p, r, 0)
  BY DEF r
<1>11. IInv'
  BY <1>9, <1>10, Called
<1>12. /\ disk' = r.s.disk /\ fcb'[f].name = n /\ slot' = r.s.slot
       /\ last'.op = "write" /\ last'.ret = r.ret /\ last'.f = f
       /\ last'.rec = p /\ last'.clash = FALSE
  <2>1. /\ disk' = r.s.disk /\ slot' = r.s.slot /\ fcb' = r.s.fcb
        /\ last' = [op |-> "write", f |-> f, rec |-> p, ret |-> r.ret, buf |-> r.buf,
                    clash |-> r.clash, n |-> 0]
    BY <1>10, Zenon DEF Call
  <2> QED
    BY <1>9, <2>1
<1>13. ReadExact' /\ EofExact' /\ SizeExact' /\ NoClash'
  BY <1>12 DEF ReadExact, EofExact, SizeExact, NoClash
<1>14. Reopens'
  BY <1>9, <1>12 DEF Reopens
<1>15. FilesStep
  BY <1>9, <1>12 DEF FilesStep
<1> QED
  BY <1>11, <1>13, <1>14, <1>15 DEF Told

LEMMA FileSizeOK ==
  ASSUME IInv, NEW f \in FcbAddr, FileSize(f)
  PROVE  IInv' /\ Told' /\ FilesStep
<1> DEFINE r == FileOpen(Now, f, "open")
           q == IF r.ret # 0 THEN r ELSE FileClose(r.s, f)
           n == fcb[f].name
           M == live \ {f}
<1>1. Good(Now, live, fault) /\ fault \in BOOLEAN
  BY DEF IInv
<1>2. Call("size", f, 0, q, r.s.fcb[f].max) /\ fault' = fault /\ live' = M
  BY Zenon DEF FileSize
<1>3. Good(Now, M, fault)
  BY <1>1, Fewer
<1>4. FileOpenGives(Now, M, fault, f, "open", r)
  BY <1>3, <1>1, FileOpenOK
<1>5. M \ {f} = M
  OBVIOUS
<1>6. f \notin M
  OBVIOUS
<1> HIDE DEF r, M
<1>7. /\ r.ret \in {0, 255} /\ r.clash = FALSE
      /\ Good(r.s, M, fault) /\ r.s.disk = Now.disk /\ r.s.fcb[f].name = Now.fcb[f].name
      /\ r.ret = 0 => \E i \in Slots : OpenedAs(Now, f, i, FALSE, r.s.disk, r.s)
  BY <1>4, <1>5 DEF FileOpenGives
<1>8. /\ Good(q.s, M, fault) /\ q.s.disk = disk /\ q.s.fcb[f].name = n /\ q.clash = FALSE
      /\ q.ret = 0 => r.s.fcb[f].max = Records(Size(disk, n))
  <2>1. CASE r.ret # 0
    BY <1>7, <2>1 DEF Now
  <2>2. CASE r.ret = 0
    <3>1. PICK i \in Slots : OpenedAs(Now, f, i, FALSE, r.s.disk, r.s)
      BY <1>7, <2>2
    <3>2. /\ r.s \in States /\ i \in Slots /\ r.s.slot[i].addr = f /\ r.s.fcb[f].d0 = i + 1
          /\ r.s.fcb[f].max = Records(Size(r.s.disk, Now.fcb[f].name))
      BY <3>1 DEF OpenedAs
    <3>3. i \in Int
      BY Bounds DEF Slots
    <3>4. r.s.slot[r.s.fcb[f].d0 - 1].addr = f
      BY <3>2, <3>3
    <3>5. Good(FileClose(r.s, f).s, M, fault)
      BY <1>1, <1>6, <1>7, <3>4, FileCloseOthers
    <3>6. Detached(r.s, f, FileClose(r.s, f).s) /\ FileClose(r.s, f).clash = FALSE
      BY <3>2, FileCloseSet
    <3>7. q = FileClose(r.s, f)
      BY <2>2
    <3> HIDE DEF q
    <3>8. q.s.disk = r.s.disk /\ q.s.fcb[f].name = r.s.fcb[f].name
      BY <3>6, <3>7 DEF Detached
    <3> QED
      BY <1>7, <3>2, <3>5, <3>6, <3>7, <3>8 DEF Now
  <2> QED
    BY <2>1, <2>2
<1> HIDE DEF q
<1>9. IInv'
  BY <1>1, <1>2, <1>8, Called
<1>10. /\ disk' = q.s.disk /\ fcb' = q.s.fcb
       /\ last' = [op |-> "size", f |-> f, rec |-> 0, ret |-> q.ret, buf |-> q.buf,
                   clash |-> q.clash, n |-> r.s.fcb[f].max]
  BY <1>2, Zenon DEF Call
<1>11. /\ disk' = disk /\ fcb'[f].name = n
       /\ last'.op = "size" /\ last'.f = f /\ last'.clash = FALSE /\ last'.ret = q.ret
       /\ last'.n = r.s.fcb[f].max
  BY <1>8, <1>10
<1>12. ReadExact' /\ EofExact' /\ NoClash' /\ Reopens'
  BY <1>11 DEF ReadExact, EofExact, NoClash, Reopens
<1>13. SizeExact'
  BY <1>8, <1>11 DEF SizeExact
<1>14. FilesStep
  BY <1>11 DEF FilesStep
<1> QED
  BY <1>9, <1>12, <1>13, <1>14 DEF Told

LEMMA SetRndRecOK ==
  ASSUME IInv, NEW f \in FcbAddr, SetRndRec(f)
  PROVE  IInv' /\ Told' /\ FilesStep
<1> DEFINE r == Done(Now, 0)
<1>1. Call("record", f, 0, r, SeqRec(fcb[f])) /\ live' = live /\ fault' = fault
  BY Zenon DEF SetRndRec
<1>2. r.s = Now /\ r.clash = FALSE
  BY DEF Done
<1> HIDE DEF r
<1>3. Good(r.s, live', fault') /\ fault' \in BOOLEAN
  BY <1>1, <1>2 DEF IInv
<1>4. IInv'
  BY <1>1, <1>3, Called
<1>5. Told' /\ FilesStep
  BY <1>1, <1>2, Quiet
<1> QED
  BY <1>4, <1>5

(* The files after one of them is removed or made another's.               *)
LEMMA DiskKeptShort ==
  ASSUME NEW s \in States, NEW n \in Names, NEW b, Short(s),
         b = NoFile \/ (b \in Seq(Byte) /\ Len(b) < Bound)
  PROVE  LET t == [s EXCEPT !.disk[n] = b] IN
         /\ t \in States /\ t.slot = s.slot /\ t.fcb = s.fcb /\ Short(t)
         /\ t.disk = [s.disk EXCEPT ![n] = b]
         /\ \A m \in Names \ {n} : t.disk[m] = s.disk[m]
<1> DEFINE t == [s EXCEPT !.disk[n] = b]
<1>1. b \in Seq(Byte) \cup {NoFile}
  OBVIOUS
<1>2. /\ t \in States /\ t.slot = s.slot /\ t.fcb = s.fcb
      /\ t.disk = [s.disk EXCEPT ![n] = b]
  BY <1>1, DiskUpdate
<1> HIDE DEF t
<1>3. \A m \in Names \ {n} : t.disk[m] = s.disk[m]
  BY <1>2, Parts
<1>4. t.disk[n] = b
  BY <1>2, Parts
<1>5. Short(t)
  BY <1>3, <1>4 DEF Short
<1> QED
  BY <1>2, <1>3, <1>5 DEF t

LEMMA DeleteOK ==
  ASSUME IInv, NEW f \in FcbAddr, Delete(f)
  PROVE  IInv' /\ Told' /\ FilesStep
<1> DEFINE n == fcb[f].name
           s == IF Own(Now, f) THEN FClose(Now, fcb[f].d0 - 1) ELSE Now
           t == [s EXCEPT !.disk[n] = NoFile]
           r == Deletion(f)
           M == live \ {f}
<1>1. /\ Good(Now, live, fault) /\ fault \in BOOLEAN /\ Now \in States
      /\ Now.fcb = fcb /\ live \subseteq FcbAddr
  BY DEF IInv, Good, Now
<1>2. Call("delete", f, 0, r, 0) /\ fault' = fault /\ live' = M /\ Mine(f, n)
  BY Zenon DEF Delete
<1>3. n \in Names
  BY <1>1, Parts DEF FcbType
<1>4. Good(s, M, fault) /\ s.fcb = fcb
  <2>1. CASE Own(Now, f)
    <3>1. fcb[f].d0 - 1 \in Slots /\ Now.slot[fcb[f].d0 - 1].addr = f
      BY <1>1, <2>1, Bounds DEF Own, HasSlot, Slots
    <3>2. Good(FClose(Now, fcb[f].d0 - 1), M, fault)
      BY <1>1, <3>1, FCloseOK
    <3>3. FClose(Now, fcb[f].d0 - 1).fcb = Now.fcb
      BY <1>1, <3>1, FCloseSet DEF SlotSet
    <3> QED
      BY <1>1, <2>1, <3>2, <3>3
  <2>2. CASE ~Own(Now, f)
    BY <1>1, <2>2, Fewer
  <2> QED
    BY <2>1, <2>2
<1>5. r = IF Removable(s, n) THEN Done(t, 0) ELSE Done(s, 255)
  BY Zenon DEF Deletion
<1> HIDE DEF s, n
<1>6. s \in States /\ Short(s)
  BY <1>4 DEF Good
<1>7. /\ t \in States /\ t.slot = s.slot /\ t.fcb = s.fcb /\ Short(t)
      /\ \A m \in Names \ {n} : t.disk[m] = s.disk[m]
  BY <1>3, <1>6, DiskKeptShort
<1> HIDE DEF t
<1>8. Good(t, M, fault)
  <2>1. ASSUME NEW g \in M
        PROVE  t.disk[s.fcb[g].name] = s.disk[s.fcb[g].name]
    <3>1. s.fcb[g].name # n
      BY <1>2, <1>4 DEF Mine
    <3>2. s.fcb[g].name \in Names
      BY <1>1, <1>6, Parts DEF FcbType
    <3> QED
      BY <1>7, <3>1, <3>2
  <2> HIDE DEF M
  <2> QED
    BY <1>1, <1>4, <1>7, <2>1, DiskOther
<1>9. Good(r.s, M, fault) /\ r.clash = FALSE
  BY <1>4, <1>5, <1>8 DEF Done
<1> HIDE DEF r
<1>10. IInv'
  BY <1>1, <1>2, <1>9, Called
<1>11. Told' /\ FilesStep
  BY <1>2, <1>9, Quiet
<1> QED
  BY <1>10, <1>11

LEMMA RenameOK ==
  ASSUME IInv, NEW f \in FcbAddr, NEW n \in Names, Rename(f, n)
  PROVE  IInv' /\ Told' /\ FilesStep
<1> DEFINE old == fcb[f].name
           ok == Removable(Now, old) /\ disk[n] = NoFile
           t == [Now EXCEPT !.disk[n] = disk[old]]
           u == [t EXCEPT !.disk[old] = NoFile]
           v == [Now EXCEPT !.disk[n] = disk[old], !.disk[old] = NoFile]
           r == Done(IF ok THEN v ELSE Now, IF ok THEN 0 ELSE 255)
<1>1. /\ Good(Now, live, fault) /\ fault \in BOOLEAN /\ Now \in States /\ Short(Now)
      /\ Now.fcb = fcb /\ Now.disk = disk /\ live \subseteq FcbAddr
  BY DEF IInv, Good, Now
<1>2. Call("rename", f, 0, r, 0) /\ fault' = fault /\ live' = live
  BY Zenon DEF Rename
<1>3. f \notin live /\ Mine(f, old) /\ Mine(f, n) /\ n # old
  BY Zenon DEF Rename
<1>4. old \in Names
  BY <1>1, Parts DEF FcbType
<1>5. ASSUME ok
      PROVE  Good(v, live, fault)
  <2>1. disk[old] \in Seq(Byte) /\ Len(disk[old]) < Bound
    BY <1>1, <1>4, <1>5, Parts DEF Removable, Short
  <2>2. v = u
    BY DEF Now
  <2> HIDE DEF v, old
  <2>3. /\ t \in States /\ t.slot = Now.slot /\ t.fcb = fcb /\ Short(t)
        /\ \A m \in Names \ {n} : t.disk[m] = disk[m]
    <3>1. t.slot = Now.slot /\ t.fcb = Now.fcb /\ t \in States /\ Short(t)
          /\ \A m \in Names \ {n} : t.disk[m] = Now.disk[m]
      BY <1>1, <2>1, DiskKeptShort, SMTT(20)
    <3> HIDE DEF t
    <3> QED
      BY <1>1, <3>1
  <2> HIDE DEF t
  <2>4. /\ u \in States /\ u.slot = t.slot /\ u.fcb = t.fcb /\ Short(u)
        /\ \A m \in Names \ {old} : u.disk[m] = t.disk[m]
    BY <1>4, <2>3, DiskKeptShort
  <2> HIDE DEF u
  <2>5. ASSUME NEW g \in live
        PROVE  u.disk[Now.fcb[g].name] = Now.disk[Now.fcb[g].name]
    <3>1. fcb[g].name # n /\ fcb[g].name # old
      BY <1>3 DEF Mine
    <3>2. fcb[g].name \in Names
      BY <1>1, Parts DEF FcbType
    <3> QED
      BY <1>1, <2>3, <2>4, <3>1, <3>2
  <2>6. u.slot = Now.slot /\ u.fcb = Now.fcb
    BY <1>1, <2>3, <2>4
  <2> QED
    BY <1>1, <2>2, <2>4, <2>5, <2>6, DiskOther
<1> HIDE DEF ok, v
<1>6. Good(r.s, live, fault) /\ r.clash = FALSE
  BY <1>1, <1>5 DEF Done
<1> HIDE DEF r
<1>7. IInv'
  BY <1>1, <1>2, <1>6, Called
<1>8. Told' /\ FilesStep
  BY <1>2, <1>6, Quiet
<1> QED
  BY <1>7, <1>8

(* What the program does to an FCB it gives up.                            *)
LEMMA GivenUp ==
  ASSUME IInv, NEW f \in FcbAddr, NEW c \in FcbType, OwnMemory(f, c), live' = live \ {f}
  PROVE  IInv' /\ Told' /\ FilesStep
<1> DEFINE t == [Now EXCEPT !.fcb[f] = c]
           r == Done(t, 0)
<1>1. Good(Now, live, fault) /\ fault \in BOOLEAN /\ Now \in States
  BY DEF IInv, Good
<1>2. Call("own", f, 0, r, 0) /\ fault' = fault
  BY Zenon DEF OwnMemory
<1>3. FcbSet(Now, f, c, t)
  BY <1>1, FcbUpdate
<1>4. r.s = t /\ r.clash = FALSE
  BY DEF Done
<1> HIDE DEF t, r
<1>5. Good(t, live \ {f}, fault)
  BY <1>1, <1>3, FcbOther DEF FcbSet
<1>6. IInv'
  BY <1>1, <1>2, <1>4, <1>5, Called
<1>7. Told' /\ FilesStep
  BY <1>2, <1>4, Quiet
<1> QED
  BY <1>6, <1>7

LEMMA SetNameOK ==
  ASSUME IInv, NEW f \in FcbAddr, NEW n \in Names, SetName(f, n)
  PROVE  IInv' /\ Told' /\ FilesStep
<1> DEFINE c == [fcb[f] EXCEPT !.name = n, !.ex = 0, !.cr = 0]
<1>1. OwnMemory(f, c) /\ live' = live \ {f}
  BY DEF SetName
<1>2. fcb[f] \in FcbType
  BY Parts DEF IInv, Good, Now
<1>3. 0 \in 0..MaxFcb /\ 0 \in 0..MaxRec + 1 /\ 0 \in 0..ExMod - 1 /\ 0 \in 0..Ext - 1
  BY Bounds
<1>4. c \in FcbType
  BY <1>2, <1>3 DEF FcbType
<1> QED
  BY <1>1, <1>4, GivenUp

LEMMA WipeOK ==
  ASSUME IInv, NEW f \in FcbAddr, Wipe(f)
  PROVE  IInv' /\ Told' /\ FilesStep
<1> DEFINE c == [fcb[f] EXCEPT !.d0 = 0, !.max = 0, !.ex = 0, !.cr = 0, !.rc = 0]
<1>1. OwnMemory(f, c) /\ live' = live \ {f}
  BY DEF Wipe
<1>2. fcb[f] \in FcbType
  BY Parts DEF IInv, Good, Now
<1>3. 0 \in 0..MaxFcb /\ 0 \in 0..MaxRec + 1 /\ 0 \in 0..ExMod - 1 /\ 0 \in 0..Ext - 1
  BY Bounds
<1>4. c \in FcbType
  BY <1>2, <1>3 DEF FcbType
<1> QED
  BY <1>1, <1>4, GivenUp

LEMMA SetPosOK ==
  ASSUME IInv, NEW f \in FcbAddr, NEW p \in 0..MaxRec, SetPos(f, p)
  PROVE  IInv' /\ Told' /\ FilesStep
<1> DEFINE c == [fcb[f] EXCEPT !.cr = p % Ext, !.ex = p \div Ext]
           t == [Now EXCEPT !.fcb[f] = c]
           r == Done(t, 0)
<1>1. Good(Now, live, fault) /\ fault \in BOOLEAN /\ f \in live
  BY DEF IInv, SetPos
<1>2. Call("own", f, 0, r, 0) /\ fault' = fault /\ live' = live
  BY Zenon DEF SetPos, OwnMemory
<1>3. p \in Nat /\ (p \div Ext) % ExMod = p \div Ext
  BY SeqRecs, Bounds
<1>4. t = At(Now, f, p)
  <2>1. At(Now, f, p) = [Now EXCEPT !.fcb[f] = [fcb[f] EXCEPT !.cr = p % Ext,
                                                            !.ex = (p \div Ext) % ExMod]]
    BY DEF At, Now
  <2> QED
    BY <1>3, <2>1
<1>5. r.s = t /\ r.clash = FALSE
  BY DEF Done
<1> HIDE DEF t, r
<1>6. Good(t, live, fault)
  BY <1>1, <1>3, <1>4, AtOK
<1>7. IInv'
  BY <1>1, <1>2, <1>5, <1>6, Called
<1>8. Told' /\ FilesStep
  BY <1>2, <1>5, Quiet
<1> QED
  BY <1>7, <1>8

LEMMA StepOK ==
  ASSUME IInv, Told, [Next]_vars
  PROVE  IInv' /\ Told' /\ (FilesStep \/ UNCHANGED vars)
<1>1. ASSUME NEW f \in FcbAddr, Open(f) PROVE IInv' /\ Told' /\ FilesStep
  BY <1>1, OpeningOK DEF Open
<1>2. ASSUME NEW f \in FcbAddr, Make(f) PROVE IInv' /\ Told' /\ FilesStep
  BY <1>2, OpeningOK DEF Make
<1>3. ASSUME NEW f \in FcbAddr, NEW rnd \in BOOLEAN, NEW p \in 0..MaxRec \cup {RndMax},
             Write(f, rnd, p)
      PROVE  IInv' /\ Told' /\ FilesStep
  <2>1. /\ f \in live /\ Call("write", f, p, FileRw(Now, f, TRUE, rnd, p, Rec), 0)
        /\ rnd \/ p = SeqRec(fcb[f])
        /\ p < MaxRec \/ p >= RndMax
        /\ live' = live /\ fault' = fault
    BY <1>3, Zenon DEF Write
  <2>2. fault \in BOOLEAN /\ Rec \in 0..Rec /\ ~(Rec < Rec)
    BY Bounds DEF IInv
  <2> QED
    BY <2>1, <2>2, WritingOK
<1>4. ASSUME NEW f \in FcbAddr, NEW rnd \in BOOLEAN, NEW p \in 0..MaxRec, NEW k \in 0..Rec - 1,
             WriteFails(f, rnd, p, k)
      PROVE  IInv' /\ Told' /\ FilesStep
  <2>1. /\ f \in live /\ Call("write", f, p, FileRw(Now, f, TRUE, rnd, p, k), 0)
        /\ rnd \/ p = SeqRec(fcb[f])
        /\ p < MaxRec /\ ~fault
        /\ live' = live /\ fault' = TRUE
    BY <1>4, Zenon DEF WriteFails
  <2>2. k \in 0..Rec /\ p \in 0..MaxRec \cup {RndMax}
    BY Bounds
  <2>3. PICK w \in BOOLEAN : w = TRUE
    OBVIOUS
  <2>4. fault' = w /\ (fault => w) /\ (k < Rec => w /\ ~fault)
    BY <2>1, <2>3
  <2>5. p < MaxRec \/ p >= RndMax
    BY <2>1
  <2> QED
    BY <2>1, <2>2, <2>4, <2>5, WritingOK
<1>5. CASE Next
  <2>1. PICK f \in FcbAddr :
          \/ Open(f) \/ Make(f) \/ Close(f) \/ FileSize(f) \/ SetRndRec(f) \/ Delete(f) \/ Wipe(f)
          \/ \E rnd \in BOOLEAN, p \in 0..MaxRec \cup {RndMax} : Read(f, rnd, p) \/ Write(f, rnd, p)
          \/ \E rnd \in BOOLEAN, p \in 0..MaxRec, k \in 0..Rec - 1 : WriteFails(f, rnd, p, k)
          \/ \E p \in 0..MaxRec : SetPos(f, p)
          \/ \E n \in Names : SetName(f, n) \/ Rename(f, n)
    BY <1>5, Zenon DEF Next
  <2> QED
    BY <1>1, <1>2, <1>3, <1>4, <2>1, CloseOK, FileSizeOK, SetRndRecOK, DeleteOK, WipeOK, ReadOK,
       SetPosOK, SetNameOK, RenameOK, Zenon
<1>6. CASE UNCHANGED vars
  <2>1. Now' = Now
    BY <1>6 DEF vars, Now
  <2>2. IInv'
    BY <1>6, <2>1 DEF vars, IInv
  <2>3. Told'
    BY <1>6 DEF vars, Told, ReadExact, EofExact, SizeExact, NoClash, Reopens
  <2> QED
    BY <1>6, <2>2, <2>3
<1> QED
  BY <1>5, <1>6

(***************************************************************************)
(* The results.                                                            *)
(***************************************************************************)
LEMMA Invariant ==
  Spec => [](IInv /\ Told)
<1>1. Init => IInv /\ Told
  BY InitOK
<1>2. (IInv /\ Told) /\ [Next]_vars => (IInv /\ Told)'
  BY StepOK
<1> QED
  BY <1>1, <1>2, PTL DEF Spec

LEMMA OwnFileHolds ==
  ASSUME IInv
  PROVE  OwnFile
<1>1. Good(Now, live, fault)
  BY DEF IInv
<1>2. TypeOK
  BY <1>1 DEF IInv, Good, States, Short, Now, SlotType, FcbType, Bound, TypeOK
<1>3. ASSUME NEW f \in live, HasSlot(Now, f)
      PROVE  Own(Now, f) /\ slot[fcb[f].d0 - 1].name = fcb[f].name
  <2>1. FcbOK(Now, f, fault)
    BY <1>1 DEF Good
  <2>2. Now.fcb[f].d0 # 0
    BY <1>3, Bounds DEF HasSlot
  <2> QED
    BY <2>1, <2>2 DEF FcbOK, Now
<1> QED
  BY <1>2, <1>3 DEF OwnFile

(* An FCB the program has opened reaches, through d[0], either no slot or  *)
(* the one that holds its own file, whatever other FCBs did since: what    *)
(* cpm_file_rw() and cpm_file_close() rely on without testing it.          *)
THEOREM OwnTheorem ==
  Spec => []OwnFile
<1>1. IInv /\ Told => OwnFile
  BY OwnFileHolds
<1> QED
  BY <1>1, Invariant, PTL

(* What a program is told of a file, its records, its end and its size, is *)
(* what is on the disk, no seek is left out that was needed, and a file    *)
(* the emulator closed by itself is opened again.                          *)
THEOREM AnswersTheorem ==
  Spec => []AnswersExact
<1>1. ASSUME IInv, Told
      PROVE  AnswersExact
  <2>1. PosShadow
    BY <1>1 DEF IInv, Good, SlotOK, PosShadow, Now
  <2> QED
    BY <1>1, <2>1 DEF Told, SeeksRight, AnswersExact
<1> QED
  BY <1>1, Invariant, PTL

(* A write that succeeds writes one record of the file the FCB names, at   *)
(* the place asked for, and opening, closing, sizing and reading change    *)
(* nothing on the disk.                                                    *)
THEOREM FilesTheorem ==
  Spec => FilesExact
<1> DEFINE W == last'.op = "write" /\ last'.ret = 0 /\ ~fault =>
                  disk' = [disk EXCEPT ![fcb[last'.f].name] = Written(@, last'.rec * Rec, Rec)]
           K == last'.op \in {"open", "close", "size", "read"} => disk' = disk
<1>1. (IInv /\ Told) /\ [Next]_vars => [W]_vars /\ [K]_vars
  BY StepOK DEF FilesStep
<1> QED
  BY <1>1, Invariant, PTL DEF Spec, FilesExact, WriteExact, KeepsFiles
=============================================================================
