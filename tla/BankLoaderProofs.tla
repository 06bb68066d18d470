-------------------------- MODULE BankLoaderProofs --------------------------
(***************************************************************************)
(* Proofs about BankLoader for every mapper, OVL file and number of runs,  *)
(* lmem blocks and pages: who holds the segments, and, resting on that,    *)
(* what the segments hold and where the Bank index leads.  The last part   *)
(* is about BlStart: what is so when main() begins.                        *)
(***************************************************************************)
EXTENDS BankLoader, BlStart, FiniteSetTheorems, SequenceTheorems, WellFoundedInduction, TLAPS

InMain == {"main", "ovl0", "ovl1"}
Over == {"idle", "crashed"}
Blocks == UNION {b.segs : b \in blocks}

TypesInv ==
  /\ owner \in [Seg -> {"free", "user", "sys"}]
  /\ holds \in [Seg \cup {Bad} -> [bank : 0..OvlBanks, half : {0, 1}]]
  /\ scratch \in [Seg \cup {Bad} -> 0..MaxRuns]
  /\ env \in Seq(Seg) /\ tbl \in Seq(Seg)
  /\ envL.segs \subseteq Seg /\ envL.n \in Nat
  /\ at \in Place /\ run \in 0..MaxRuns
  /\ bankMax \in 0..OvlBanks /\ freeNo \in Nat
  /\ idx \in [1..OvlBanks -> Seq(Seg \cup {Bad})]
  /\ tsr \in BOOLEAN /\ envExist \in BOOLEAN /\ hook \in BOOLEAN /\ abortOn \in BOOLEAN
  /\ page2 \in Seg \cup {Own}
  /\ ovl \in [dest : 0..OvlBanks, bank : 0..OvlBanks]
  /\ \A b \in blocks : b.segs \subseteq Seg /\ b.n \in Nat /\ b.sys \in BOOLEAN
  /\ left \subseteq Seg /\ over \subseteq 1..OvlBanks

(* What survives a run: the saved table, an exported block, what was lost. *)
KeptInv ==
  /\ Len(env) % 2 = 0 /\ Len(env) <= 2 * OvlBanks /\ Cardinality(SegsOf(env)) = Len(env)
  /\ env # <<>> => resident
  /\ envL.n = Cardinality(envL.segs)
  /\ SegsOf(env) \cap envL.segs = {} /\ SegsOf(env) \cap left = {} /\ envL.segs \cap left = {}
  /\ \A s \in SegsOf(env) \cup envL.segs \cup left : owner[s] = "sys"

(* The segment table of a run is the saved one or its own.                 *)
TableInv ==
  at \notin Over =>
    /\ Len(tbl) <= 2 * bankMax /\ Cardinality(SegsOf(tbl)) = Len(tbl)
    /\ \A s \in SegsOf(tbl) : owner[s] = Kind
    /\ SegsOf(tbl) \cap (envL.segs \cup left) = {}
    /\ envExist => resident /\ tbl = env /\ env # <<>>
    /\ ~envExist => env = <<>>
    /\ at \in {"open", "load", "read"} => ~envExist
    /\ tsr => resident
    /\ at = "open" => tbl = <<>>
    /\ at = "read" => Len(tbl) > 0
    /\ at \in {"resume", "ready", "exit"} \cup InMain => Len(tbl) = 2 * bankMax

(* The blocks of main() are apart from each other and from the rest.       *)
BlocksInv ==
  at \notin Over =>
    /\ at \notin InMain \cup {"exit"} => blocks = {}
    /\ at # "exit" =>
         \A b \in blocks :
           /\ b.n = Cardinality(b.segs)
           /\ \A s \in b.segs : owner[s] = IF b.sys THEN "sys" ELSE "user"
           /\ b.segs \cap SegsOf(tbl) = {} /\ b.segs \cap left = {}
           /\ \A c \in blocks \ {b} : b.segs \cap c.segs = {}
           /\ b.segs = envL.segs \/ b.segs \cap envL.segs = {}

(* Every segment that is not free has a holder.                            *)
UsedInv ==
  /\ at \notin Over \cup {"exit"} =>
       \A s \in Seg :
         owner[s] # "free" <=> s \in SegsOf(tbl) \cup envL.segs \cup left \cup Blocks
  /\ at = "exit" =>
       \A s \in Seg :
         owner[s] = "sys" <=> \/ s \in envL.segs \cup left
                              \/ (Kind = "sys" /\ s \in SegsOf(tbl))
  /\ at = "idle" =>
       \A s \in Seg :
         /\ owner[s] # "user"
         /\ owner[s] = "sys" <=> s \in SegsOf(env) \cup envL.segs \cup left

(* free_seg_no counts the free segments, and there are enough to load.     *)
CountInv ==
  /\ at \in {"open", "load", "resume", "ready"} \cup InMain => freeNo = Cardinality(Free)
  /\ at = "load" => 2 * bankMax <= Len(tbl) + freeNo
  /\ at = "read" => freeNo = Cardinality(Free) + 1 /\ 2 * bankMax < Len(tbl) + freeNo

PageInv ==
  /\ at \in {"read", "ovl0", "ovl1"} => page2 \in Seg
  /\ at \notin {"read", "ovl0", "ovl1", "crashed"} => page2 = Own
  /\ hook => at = "main"
  /\ at \in {"ovl0", "ovl1"} => ovl.dest \in 1..bankMax /\ ovl.bank \in 1..OvlBanks

IInv == TypesInv /\ KeptInv /\ TableInv /\ BlocksInv /\ UsedInv /\ CountInv /\ PageInv

-----------------------------------------------------------------------------
LEMMA SegsFacts ==
  ASSUME NEW S, NEW s \in Seq(S)
  PROVE  SegsOf(s) \subseteq S /\ \A i \in 1..Len(s) : s[i] \in SegsOf(s)
  BY ElementOfSeq DEF SegsOf

LEMMA SegsEmpty == SegsOf(<<>>) = {} /\ Cardinality(SegsOf(<<>>)) = 0 /\ Len(<<>>) = 0
<1>1. Len(<<>>) = 0 /\ SegsOf(<<>>) = {}
  BY DEF SegsOf
<1> QED
  BY <1>1, FS_EmptySet

LEMMA SegsAppend ==
  ASSUME NEW S, NEW s \in Seq(S), NEW e \in S
  PROVE  /\ Append(s, e) \in Seq(S) /\ Len(Append(s, e)) = Len(s) + 1
         /\ SegsOf(Append(s, e)) = SegsOf(s) \cup {e}
<1>1. /\ Append(s, e) \in Seq(S) /\ Len(Append(s, e)) = Len(s) + 1 /\ Len(s) \in Nat
      /\ \A i \in 1..Len(s) : Append(s, e)[i] = s[i]
      /\ Append(s, e)[Len(s) + 1] = e
  BY AppendProperties, LenProperties
<1>2. 1..Len(s) + 1 = 1..Len(s) \cup {Len(s) + 1}
  BY <1>1
<1> QED
  BY <1>1, <1>2 DEF SegsOf

LEMMA FreeFinite ==
  /\ IsFiniteSet(Free) /\ Cardinality(Free) \in Nat
  /\ \A T \in SUBSET Seg : IsFiniteSet(T) /\ Cardinality(T) \in Nat
<1>1. \A T \in SUBSET Seg : IsFiniteSet(T) /\ Cardinality(T) \in Nat
  BY LoaderAssumption, FS_Subset, FS_CardinalityType
<1>2. Free \subseteq Seg
  BY DEF Free
<1> QED
  BY <1>1, <1>2

LEMMA LoaderInit == Init => IInv
<1> SUFFICES ASSUME Init PROVE IInv
  OBVIOUS
<1>1. TypesInv
  <2>1. <<>> \in Seq(Seg) /\ <<>> \in Seq(Seg \cup {Bad})
    BY EmptySeq
  <2>2. /\ owner \in [Seg -> {"free", "user", "sys"}]
        /\ holds \in [Seg \cup {Bad} -> [bank : 0..OvlBanks, half : {0, 1}]]
        /\ scratch \in [Seg \cup {Bad} -> 0..MaxRuns]
    BY LoaderAssumption DEF Init
  <2>3. /\ env \in Seq(Seg) /\ tbl \in Seq(Seg)
        /\ idx \in [1..OvlBanks -> Seq(Seg \cup {Bad})]
    BY <2>1 DEF Init
  <2> QED
    BY <2>2, <2>3, LoaderAssumption DEF Init, TypesInv, NoBlock, Place
<1>2. KeptInv
  BY LoaderAssumption, SegsEmpty, FS_EmptySet DEF Init, KeptInv, NoBlock
<1>3. TableInv /\ BlocksInv /\ CountInv /\ PageInv
  BY DEF Init, TableInv, BlocksInv, CountInv, PageInv, Over, InMain
<1>4. UsedInv
  BY SegsEmpty DEF Init, UsedInv, Over, NoBlock
<1> QED
  BY <1>1, <1>2, <1>3, <1>4 DEF IInv

-----------------------------------------------------------------------------
(* Starting a run.                                                         *)
LEMMA StartStep ==
  ASSUME IInv, Start, UNCHANGED resident
  PROVE  IInv'
<1> USE DEF mapper, dos
<1>1. /\ at = "idle" /\ UNCHANGED <<owner, holds, scratch, env, envL, hook, abortOn, page2, ovl, left>>
      /\ tbl' = env /\ bankMax' = Len(env) \div 2 /\ freeNo' = Cardinality(Free)
      /\ tsr' = (env # <<>>) /\ envExist' = (env # <<>>)
      /\ at' = (IF env # <<>> THEN "resume" ELSE "open")
      /\ run' = run + 1 /\ run < MaxRuns
      /\ idx' = [b \in 1..OvlBanks |-> <<>>] /\ blocks' = {}
      /\ over' = over \/ over' = {}
  BY DEF Start, IInv, KeptInv
<1>2. /\ Len(env) \in Nat /\ Len(env) % 2 = 0 /\ Len(env) <= 2 * OvlBanks
      /\ env = <<>> <=> Len(env) = 0
  BY EmptySeq, LenProperties DEF IInv, TypesInv, KeptInv
<1>3. 2 * (Len(env) \div 2) = Len(env) /\ Len(env) \div 2 \in 0..OvlBanks
  BY <1>2, LoaderAssumption
<1>4. TypesInv'
  <2>1. idx' \in [1..OvlBanks -> Seq(Seg \cup {Bad})]
    BY <1>1, EmptySeq
  <2>2. bankMax' \in 0..OvlBanks /\ freeNo' \in Nat
    BY <1>1, <1>3, FreeFinite
  <2>3. run' \in 0..MaxRuns /\ over' \subseteq 1..OvlBanks
    <3>1. run \in 0..MaxRuns /\ MaxRuns \in Nat /\ over \subseteq 1..OvlBanks
      BY LoaderAssumption DEF IInv, TypesInv
    <3>2. run' = run + 1 /\ run < MaxRuns
      BY <1>1
    <3>3. run' \in 0..MaxRuns
      BY <3>1, <3>2
    <3>4. over' \subseteq 1..OvlBanks
      BY <1>1, <3>1
    <3> QED
      BY <3>3, <3>4
  <2>4. at' \in Place /\ tsr' \in BOOLEAN /\ envExist' \in BOOLEAN
    BY <1>1 DEF Place
  <2> QED
    BY <1>1, <2>1, <2>2, <2>3, <2>4 DEF IInv, TypesInv
<1>5. KeptInv'
  BY <1>1 DEF IInv, KeptInv
<1>6. TableInv'
  <2>1. Len(tbl') = 2 * bankMax' /\ Cardinality(SegsOf(tbl')) = Len(tbl')
    BY <1>1, <1>3 DEF IInv, KeptInv
  <2>2. \A s \in SegsOf(tbl') : owner'[s] = Kind'
    <3>1. CASE env = <<>>
      BY <1>1, <3>1, SegsEmpty
    <3>2. CASE env # <<>>
      BY <1>1, <3>2 DEF IInv, KeptInv, Kind
    <3> QED
      BY <3>1, <3>2
  <2>3. SegsOf(tbl') \cap (envL'.segs \cup left') = {}
    BY <1>1 DEF IInv, KeptInv
  <2>4. at' \in {"resume", "open"} /\ (envExist' \/ tsr' => resident')
    BY <1>1 DEF IInv, KeptInv
  <2>5. Len(tbl') <= 2 * bankMax'
    BY <1>1, <1>2, <2>1
  <2>6. /\ envExist' => tbl' = env' /\ env' # <<>>
        /\ ~envExist' => env' = <<>>
        /\ at' = "open" => tbl' = <<>>
    BY <1>1
  <2> QED
    BY <2>1, <2>2, <2>3, <2>4, <2>5, <2>6 DEF TableInv
<1>7. BlocksInv'
  BY <1>1 DEF BlocksInv, Over, InMain
<1>8. UsedInv'
  BY <1>1 DEF IInv, TypesInv, UsedInv, Over, Blocks
<1>9. CountInv' /\ PageInv'
  BY <1>1 DEF IInv, CountInv, PageInv, Over, InMain, Free
<1> QED
  BY <1>4, <1>5, <1>6, <1>7, <1>8, <1>9 DEF IInv

(* DOS frees the user segments, and what is then allocated is known.       *)
LEMMA DosFrees ==
  ASSUME IInv, at \notin Over, at # "exit", blocks = {}, envExist = FALSE, tbl = <<>>, ToDos,
         UNCHANGED <<resident, env, envL, left>>
  PROVE  KeptInv' /\ UsedInv'
<1>1. env = <<>>
  BY DEF IInv, TableInv
<1>2. \A s \in Seg : owner[s] # "free" <=> s \in envL.segs \cup left
  BY SegsEmpty DEF IInv, UsedInv, Blocks
<1>3. \A s \in envL.segs \cup left : s \in Seg /\ owner[s] = "sys"
  BY DEF IInv, KeptInv, TypesInv
<1>4. KeptInv'
  BY <1>1, <1>3, SegsEmpty DEF IInv, KeptInv, ToDos
<1>5. UsedInv'
  BY <1>1, <1>2, <1>3, SegsEmpty DEF IInv, TypesInv, UsedInv, ToDos, Over
<1> QED
  BY <1>4, <1>5

LEMMA OpenStep ==
  ASSUME IInv, Open \/ OpenFails, UNCHANGED resident
  PROVE  IInv'
<1> USE DEF dos, flags
<1>1. /\ at = "open" /\ UNCHANGED <<holds, scratch, env, envL, run, tbl, idx, freeNo, tsr, envExist,
                                     hook, abortOn, page2, ovl, blocks, left, over>>
      /\ bankMax' \in 0..OvlBanks
      /\ \/ ToDos
         \/ at' = "load" /\ owner' = owner /\ 2 * bankMax' <= freeNo
  <2>1. CASE Open
    BY <2>1, LoaderAssumption DEF Open, IInv, TypesInv
  <2>2. CASE OpenFails
    BY <2>2 DEF OpenFails, mem, IInv, TypesInv
  <2> QED
    BY <2>1, <2>2
<1>2. blocks = {} /\ tbl = <<>> /\ envExist = FALSE
  BY <1>1 DEF IInv, TypesInv, TableInv, BlocksInv, Over, InMain
<1>3. PageInv'
  BY <1>1 DEF IInv, PageInv, ToDos
<1>4. CASE ToDos
  <2>1. at' = "idle" /\ owner' \in [Seg -> {"free", "user", "sys"}]
    BY <1>4 DEF ToDos, IInv, TypesInv
  <2>2. TypesInv'
    BY <1>1, <2>1 DEF IInv, TypesInv, Place
  <2>3. KeptInv' /\ UsedInv'
    BY <1>1, <1>2, <1>4, DosFrees DEF Over
  <2>4. TableInv' /\ BlocksInv' /\ CountInv'
    BY <2>1 DEF TableInv, BlocksInv, CountInv, Over, InMain
  <2> QED
    BY <1>3, <2>2, <2>3, <2>4 DEF IInv
<1>5. CASE at' = "load" /\ owner' = owner /\ 2 * bankMax' <= freeNo
  <2>1. TypesInv'
    BY <1>1, <1>5 DEF IInv, TypesInv, Place
  <2>2. KeptInv'
    BY <1>1, <1>5 DEF IInv, KeptInv
  <2>3. TableInv' /\ BlocksInv'
    <3>1. tbl' = <<>> /\ SegsOf(tbl') = {} /\ Len(tbl') = 0 /\ Cardinality(SegsOf(tbl')) = 0
      BY <1>1, <1>2, SegsEmpty
    <3>2. 0 <= 2 * bankMax'
      <4>1. bankMax' \in Nat
        BY <1>1, LoaderAssumption
      <4>2. \A n \in Nat : 0 <= 2 * n
        OBVIOUS
      <4> QED
        BY <4>1, <4>2
    <3>3. (tsr => resident) /\ env = <<>>
      BY <1>1, <1>2 DEF IInv, TableInv, Over
    <3> QED
      BY <1>1, <1>2, <1>5, <3>1, <3>2, <3>3 DEF TableInv, BlocksInv, InMain
  <2>4. UsedInv'
    BY <1>1, <1>2, <1>5 DEF IInv, UsedInv, Over, Blocks
  <2>5. CountInv'
    BY <1>1, <1>2, <1>5, SegsEmpty DEF IInv, CountInv, Free, InMain, TypesInv
  <2> QED
    BY <1>3, <2>1, <2>2, <2>3, <2>4, <2>5 DEF IInv
<1> QED
  BY <1>1, <1>4, <1>5

-----------------------------------------------------------------------------
(* Loading.                                                                *)
LEMMA LoadFinds ==
  ASSUME IInv, at = "load", Len(tbl) < 2 * bankMax
  PROVE  Free # {} /\ \A seg \in Free : seg \notin SegsOf(tbl)
<1>1. /\ Len(tbl) \in Nat /\ bankMax \in Nat /\ freeNo \in Nat /\ freeNo = Cardinality(Free)
      /\ 2 * bankMax <= Len(tbl) + freeNo
  BY LenProperties, LoaderAssumption DEF IInv, TypesInv, CountInv
<1>2. Free # {}
  <2>1. ASSUME NEW m \in Nat, NEW n \in Nat, n < 2 * bankMax, 2 * bankMax <= n + m
        PROVE  m # 0
    BY <1>1, <2>1
  <2> QED
    BY <1>1, <2>1, FS_EmptySet
<1>3. \A s \in SegsOf(tbl) : owner[s] = Kind
  BY DEF IInv, TableInv, Over
<1> QED
  BY <1>2, <1>3 DEF Free, Kind

LEMMA LoadAllocStep ==
  ASSUME IInv, LoadAlloc, UNCHANGED resident
  PROVE  IInv'
<1> USE DEF dos, flags
<1>1. /\ at = "load" /\ at' = "read" /\ Len(tbl) < 2 * bankMax
      /\ UNCHANGED <<holds, scratch, env, envL, run, bankMax, freeNo, tsr, envExist, hook, abortOn,
                     ovl, blocks, left, over>>
  BY DEF LoadAlloc
<1>2. /\ Len(tbl) \in Nat /\ bankMax \in Nat /\ freeNo \in Nat /\ freeNo = Cardinality(Free)
      /\ 2 * bankMax <= Len(tbl) + freeNo
  BY <1>1, LenProperties, LoaderAssumption DEF IInv, TypesInv, CountInv
<1>3. Free # {}
  BY <1>1, LoadFinds
<1>4. PICK seg \in Free :
        /\ owner' = [owner EXCEPT ![seg] = Kind] /\ tbl' = Append(tbl, seg) /\ page2' = seg
        /\ SetEntry(Len(tbl) \div 2 + 1, Len(tbl) % 2, seg)
  BY <1>3, LoaderAssumption DEF LoadAlloc, Free
<1>5. seg \in Seg /\ owner[seg] = "free" /\ Kind \in {"user", "sys"} /\ Kind' = Kind
  BY <1>4 DEF Free, Kind
<1>6. /\ tbl \in Seq(Seg) /\ tbl' \in Seq(Seg) /\ Len(tbl') = Len(tbl) + 1
      /\ SegsOf(tbl') = SegsOf(tbl) \cup {seg} /\ SegsOf(tbl) \subseteq Seg
  BY <1>4, <1>5, SegsAppend, SegsFacts DEF IInv, TypesInv
<1>7. /\ blocks = {} /\ Cardinality(SegsOf(tbl)) = Len(tbl)
      /\ \A s \in SegsOf(tbl) : owner[s] = Kind
      /\ SegsOf(tbl) \cap (envL.segs \cup left) = {}
      /\ envExist => tbl = env /\ env # <<>> /\ resident
  BY <1>1 DEF IInv, TableInv, BlocksInv, Over, InMain
<1>8. /\ envExist = FALSE /\ env = <<>>
      /\ \A s \in envL.segs \cup left : s \in Seg /\ owner[s] = "sys"
  BY <1>1 DEF IInv, TypesInv, KeptInv, TableInv, CountInv, Over
<1>9. seg \notin SegsOf(tbl) \cup envL.segs \cup left
  BY <1>5, <1>7, <1>8
<1>10. /\ \A s \in Seg : owner'[s] = IF s = seg THEN Kind ELSE owner[s]
       /\ owner' \in [Seg -> {"free", "user", "sys"}]
  BY <1>4, <1>5 DEF IInv, TypesInv
<1>11. Cardinality(SegsOf(tbl')) = Len(tbl')
  BY <1>6, <1>7, <1>9, FreeFinite, FS_AddElement
<1>12. Cardinality(Free') = Cardinality(Free) - 1
  <2>1. Free' = Free \ {seg}
    BY <1>5, <1>10 DEF Free
  <2> QED
    BY <1>4, <2>1, FreeFinite, FS_RemoveElement
<1>13. TypesInv'
  <2>1. idx' \in [1..OvlBanks -> Seq(Seg \cup {Bad})]
    <3>1. /\ seg \in Seg \cup {Bad} /\ <<seg>> \in Seq(Seg \cup {Bad})
          /\ \A e \in Seq(Seg \cup {Bad}) : Append(e, seg) \in Seq(Seg \cup {Bad})
      BY <1>5
    <3> QED
      BY <1>4, <3>1 DEF SetEntry, IInv, TypesInv
  <2> QED
    BY <1>1, <1>4, <1>5, <1>6, <1>10, <2>1 DEF IInv, TypesInv, Place
<1>14. KeptInv'
  BY <1>1, <1>8, <1>9, <1>10, SegsEmpty DEF IInv, KeptInv
<1>15. TableInv'
  <2>1. Len(tbl') <= 2 * bankMax' /\ Len(tbl') > 0
    <3>1. \A m, n \in Nat : m < 2 * n => m + 1 <= 2 * n
      OBVIOUS
    <3> QED
      BY <1>1, <1>2, <1>6, <3>1
  <2>2. (tsr => resident) /\ (envL.segs \cup left) \cap (SegsOf(tbl) \cup {seg}) = {}
    BY <1>1, <1>7, <1>9 DEF IInv, TableInv, Over
  <2> QED
    BY <1>1, <1>5, <1>6, <1>7, <1>8, <1>10, <1>11, <2>1, <2>2 DEF TableInv, InMain
<1>16. BlocksInv'
  BY <1>1, <1>7 DEF BlocksInv, InMain
<1>17. UsedInv'
  <2>1. \A s \in Seg : owner[s] # "free" <=> s \in SegsOf(tbl) \cup envL.segs \cup left \cup Blocks
    BY <1>1 DEF IInv, UsedInv, Over
  <2> QED
    BY <1>1, <1>5, <1>6, <1>10, <2>1 DEF UsedInv, Over, Blocks
<1>18. CountInv' /\ PageInv'
  BY <1>1, <1>2, <1>4, <1>5, <1>6, <1>12, FreeFinite DEF IInv, CountInv, PageInv, InMain
<1> QED
  BY <1>13, <1>14, <1>15, <1>16, <1>17, <1>18 DEF IInv

LEMMA LoadReadStep ==
  ASSUME IInv, LoadRead, UNCHANGED resident
  PROVE  IInv'
<1> USE DEF dos, flags
<1>1. /\ at = "read" /\ at' = "load" /\ page2' = Own /\ freeNo' = freeNo - 1
      /\ Fill(page2, (Len(tbl) - 1) \div 2 + 1, (Len(tbl) - 1) % 2)
      /\ UNCHANGED <<owner, env, envL, run, tbl, bankMax, idx, tsr, envExist, hook, abortOn, ovl,
                     blocks, left, over>>
  BY DEF LoadRead
<1>2. /\ Len(tbl) \in Nat /\ Len(tbl) > 0 /\ Len(tbl) <= 2 * bankMax /\ bankMax \in 0..OvlBanks
      /\ OvlBanks \in Nat /\ freeNo = Cardinality(Free) + 1 /\ 2 * bankMax < Len(tbl) + freeNo
      /\ Cardinality(Free) \in Nat /\ freeNo \in Nat
  <2>1. tbl \in Seq(Seg) /\ bankMax \in 0..OvlBanks /\ freeNo \in Nat
    BY DEF IInv, TypesInv
  <2>2. Len(tbl) > 0 /\ Len(tbl) <= 2 * bankMax
    BY <1>1 DEF IInv, TableInv, Over
  <2>3. freeNo = Cardinality(Free) + 1 /\ 2 * bankMax < Len(tbl) + freeNo
    BY <1>1 DEF IInv, CountInv
  <2>4. Len(tbl) \in Nat /\ OvlBanks \in Nat /\ Cardinality(Free) \in Nat
    BY <2>1, LenProperties, FreeFinite, LoaderAssumption
  <2> QED
    BY <2>1, <2>2, <2>3, <2>4
<1>3. /\ holds' \in [Seg \cup {Bad} -> [bank : 0..OvlBanks, half : {0, 1}]]
      /\ scratch' \in [Seg \cup {Bad} -> 0..MaxRuns]
  <2>1. (Len(tbl) - 1) \div 2 + 1 \in 0..OvlBanks /\ (Len(tbl) - 1) % 2 \in {0, 1}
    BY <1>2
  <2> QED
    BY <1>1, <2>1 DEF Fill, IInv, TypesInv
<1>4. TypesInv'
  <2>1. freeNo' \in Nat
    BY <1>1, <1>2
  <2> QED
    BY <1>1, <1>3, <2>1 DEF IInv, TypesInv, Place
<1>5. KeptInv' /\ TableInv' /\ BlocksInv' /\ UsedInv'
  BY <1>1 DEF IInv, KeptInv, TableInv, BlocksInv, UsedInv, Over, InMain, Kind, Blocks
<1>6. CountInv' /\ PageInv'
  <2>1. Free' = Free
    BY <1>1 DEF Free
  <2>2. freeNo' = Cardinality(Free) /\ 2 * bankMax <= Len(tbl) + (freeNo - 1)
    BY <1>1, <1>2
  <2> QED
    BY <1>1, <2>1, <2>2 DEF IInv, CountInv, PageInv, InMain
<1> QED
  BY <1>4, <1>5, <1>6 DEF IInv

(* Steps on the way to main(), and in it, that move no segment.            *)
LEMMA HoldersStay ==
  ASSUME IInv, at \in {"load", "resume", "ready"} \cup InMain, Len(tbl) = 2 * bankMax,
         at' \in {"ready"} \cup InMain, at' = "ready" => blocks = {}, tsr' => resident,
         UNCHANGED <<resident, owner, env, envL, tbl, bankMax, envExist, blocks, left, freeNo>>
  PROVE  KeptInv' /\ TableInv' /\ BlocksInv' /\ UsedInv' /\ CountInv'
<1>1. at \notin Over \cup {"exit"} /\ at' \notin Over \cup {"exit", "open", "read", "load"}
  BY DEF Over, InMain
<1>2. KeptInv' /\ TableInv'
  BY <1>1 DEF IInv, KeptInv, TableInv, Kind
<1>3. BlocksInv'
  BY <1>1 DEF IInv, BlocksInv, InMain
<1>4. UsedInv'
  BY <1>1 DEF IInv, UsedInv, Blocks, Over
<1>5. CountInv'
  BY <1>1 DEF IInv, CountInv, Free
<1> QED
  BY <1>2, <1>3, <1>4, <1>5

LEMMA ResumeStep ==
  ASSUME IInv, Resume, UNCHANGED resident
  PROVE  IInv'
<1> USE DEF dos, flags
<1>1. /\ at = "resume" /\ at' = "ready"
      /\ UNCHANGED <<owner, holds, env, envL, run, tbl, bankMax, freeNo, tsr, envExist, hook, abortOn,
                     page2, ovl, blocks, left, over>>
  BY DEF Resume
<1>2. /\ blocks = {} /\ Len(tbl) = 2 * bankMax /\ (tsr => resident)
  BY <1>1 DEF IInv, TableInv, BlocksInv, Over, InMain
<1>3. TypesInv'
  <2>1. scratch' \in [Seg \cup {Bad} -> 0..MaxRuns]
    BY <1>1 DEF Resume, IInv, TypesInv
  <2>2. idx' \in [1..OvlBanks -> Seq(Seg \cup {Bad})]
    <3>1. tbl \in Seq(Seg) /\ bankMax \in Nat
      BY LoaderAssumption DEF IInv, TypesInv
    <3>2. ASSUME NEW b \in 1..OvlBanks, b <= bankMax
          PROVE  <<tbl[2 * b - 1], tbl[2 * b]>> \in Seq(Seg \cup {Bad})
      <4>1. 2 * b - 1 \in 1..Len(tbl) /\ 2 * b \in 1..Len(tbl)
        BY <1>2, <3>1, <3>2, LoaderAssumption
      <4>2. tbl[2 * b - 1] \in Seg /\ tbl[2 * b] \in Seg
        BY <3>1, <4>1, ElementOfSeq
      <4> QED
        BY <4>2
    <3>3. <<>> \in Seq(Seg \cup {Bad})
      BY EmptySeq
    <3> QED
      BY <3>2, <3>3 DEF Resume
  <2> QED
    BY <1>1, <2>1, <2>2 DEF IInv, TypesInv, Place
<1>4. KeptInv' /\ TableInv' /\ BlocksInv' /\ UsedInv' /\ CountInv'
  BY <1>1, <1>2, HoldersStay
<1>5. PageInv'
  BY <1>1 DEF IInv, PageInv
<1> QED
  BY <1>3, <1>4, <1>5 DEF IInv

LEMMA MainBegins ==
  ASSUME IInv, Main, UNCHANGED resident
  PROVE  IInv'
<1> USE DEF mapper, dos, mem
<1>1. /\ at \in {"ready", "load"} /\ at' = "main" /\ hook' = TRUE /\ abortOn' = TRUE
      /\ UNCHANGED <<owner, holds, scratch, env, envL, run, tbl, bankMax, idx, freeNo, tsr, envExist,
                     page2, ovl, blocks, left, over>>
  BY DEF Main
<1>2. Len(tbl) = 2 * bankMax /\ (tsr => resident)
  BY <1>1 DEF Main, IInv, TableInv, Over
<1>3. TypesInv'
  BY <1>1 DEF IInv, TypesInv, Place
<1>4. KeptInv' /\ TableInv' /\ BlocksInv' /\ UsedInv' /\ CountInv'
  BY <1>1, <1>2, HoldersStay DEF InMain
<1>5. PageInv'
  BY <1>1 DEF IInv, PageInv
<1> QED
  BY <1>3, <1>4, <1>5 DEF IInv

-----------------------------------------------------------------------------
(* What main() does.                                                       *)
LEMMA SetTsrStep ==
  ASSUME IInv, NEW on \in BOOLEAN, SetTsr(on), UNCHANGED resident
  PROVE  IInv'
<1> USE DEF mapper, dos, mem
<1>1. /\ at = "main" /\ at' = at /\ tsr' = on /\ (on => resident)
      /\ UNCHANGED <<owner, holds, scratch, env, envL, run, tbl, bankMax, idx, freeNo, envExist, hook,
                     abortOn, page2, ovl, blocks, left, over>>
  BY DEF SetTsr
<1>2. Len(tbl) = 2 * bankMax
  BY <1>1 DEF IInv, TableInv, Over, InMain
<1>3. TypesInv' /\ PageInv'
  BY <1>1 DEF IInv, TypesInv, PageInv
<1>4. KeptInv' /\ TableInv' /\ BlocksInv' /\ UsedInv' /\ CountInv'
  BY <1>1, <1>2, HoldersStay DEF InMain
<1> QED
  BY <1>3, <1>4 DEF IInv

(* What holds in main().                                                   *)
LEMMA MainFacts ==
  ASSUME IInv, at \in InMain
  PROVE  /\ Len(tbl) = 2 * bankMax /\ (tsr => resident)
         /\ SegsOf(tbl) \subseteq Seg
         /\ \A s \in SegsOf(tbl) : owner[s] = Kind
         /\ SegsOf(env) \subseteq SegsOf(tbl)
         /\ \A s \in envL.segs \cup left : s \in Seg /\ owner[s] = "sys"
         /\ SegsOf(tbl) \cap (envL.segs \cup left) = {} /\ envL.segs \cap left = {}
         /\ \A b \in blocks :
              /\ b.segs \subseteq Seg /\ b.n \in Nat /\ b.sys \in BOOLEAN
              /\ b.n = Cardinality(b.segs)
              /\ \A s \in b.segs : owner[s] = IF b.sys THEN "sys" ELSE "user"
              /\ b.segs \cap SegsOf(tbl) = {} /\ b.segs \cap left = {}
              /\ \A c \in blocks \ {b} : b.segs \cap c.segs = {}
              /\ b.segs = envL.segs \/ b.segs \cap envL.segs = {}
         /\ \A s \in Seg :
              owner[s] # "free" <=> s \in SegsOf(tbl) \cup envL.segs \cup left \cup Blocks
         /\ freeNo = Cardinality(Free) /\ freeNo \in Nat
<1>1. at \notin Over \cup {"exit"}
  BY DEF InMain, Over
<1>2. Len(tbl) = 2 * bankMax /\ (tsr => resident) /\ (\A s \in SegsOf(tbl) : owner[s] = Kind)
  BY <1>1 DEF IInv, TableInv
<1>3. SegsOf(tbl) \subseteq Seg
  BY SegsFacts DEF IInv, TypesInv
<1>4. SegsOf(env) \subseteq SegsOf(tbl)
  BY <1>1, SegsEmpty DEF IInv, TypesInv, TableInv
<1>5. \A s \in envL.segs \cup left : s \in Seg /\ owner[s] = "sys"
  BY DEF IInv, TypesInv, KeptInv
<1>6. SegsOf(tbl) \cap (envL.segs \cup left) = {} /\ envL.segs \cap left = {}
  BY <1>1 DEF IInv, KeptInv, TableInv
<1>7. \A b \in blocks :
        /\ b.segs \subseteq Seg /\ b.n \in Nat /\ b.sys \in BOOLEAN
        /\ b.n = Cardinality(b.segs)
        /\ \A s \in b.segs : owner[s] = IF b.sys THEN "sys" ELSE "user"
        /\ b.segs \cap SegsOf(tbl) = {} /\ b.segs \cap left = {}
        /\ \A c \in blocks \ {b} : b.segs \cap c.segs = {}
        /\ b.segs = envL.segs \/ b.segs \cap envL.segs = {}
  BY <1>1 DEF IInv, TypesInv, BlocksInv
<1>8. \A s \in Seg :
        owner[s] # "free" <=> s \in SegsOf(tbl) \cup envL.segs \cup left \cup Blocks
  BY <1>1 DEF IInv, UsedInv
<1>9. freeNo = Cardinality(Free) /\ freeNo \in Nat
  BY DEF IInv, TypesInv, CountInv
<1> QED
  BY <1>2, <1>3, <1>4, <1>5, <1>6, <1>7, <1>8, <1>9

LEMMA LmemAllocStep ==
  ASSUME IInv, NEW pages \in 1..MaxPages, NEW sys \in BOOLEAN, LmemAlloc(pages, sys),
         UNCHANGED resident
  PROVE  IInv'
<1> USE DEF dos, flags
<1>1. /\ at = "main" /\ at' = "main" /\ pages <= freeNo /\ freeNo' = freeNo - pages
      /\ UNCHANGED <<holds, scratch, env, envL, run, tbl, bankMax, idx, tsr, envExist, hook, abortOn,
                     page2, ovl, left, over>>
  BY DEF LmemAlloc
<1> DEFINE most == IF pages > Cardinality(Free) THEN Cardinality(Free) ELSE pages
<1>2. PICK s \in SUBSET Free :
        /\ Cardinality(s) = most
        /\ owner' = [x \in Seg |-> IF x \notin s THEN owner[x] ELSE IF sys THEN "sys" ELSE "user"]
        /\ blocks' = blocks \cup {[segs |-> s, n |-> pages, sys |-> sys]}
  BY DEF LmemAlloc
<1>3. /\ pages \in Nat /\ freeNo \in Nat /\ freeNo = Cardinality(Free)
  BY <1>1, LoaderAssumption, MainFacts DEF InMain
<1>4. Cardinality(s) = pages
  BY <1>1, <1>2, <1>3
<1>5. s \subseteq Seg /\ (\A x \in s : owner[x] = "free")
  BY <1>2 DEF Free
<1>6. Cardinality(Free') = freeNo - pages /\ freeNo - pages \in Nat
  <2>1. Free' = Free \ s
    BY <1>2, <1>5 DEF Free
  <2>2. Free \cap s = s
    BY <1>2
  <2>3. Cardinality(Free \ s) = Cardinality(Free) - Cardinality(Free \cap s)
    BY FreeFinite, FS_Difference
  <2> QED
    BY <1>1, <1>3, <1>4, <2>1, <2>2, <2>3
<1> HIDE DEF most
<1>7. /\ s \cap SegsOf(tbl) = {} /\ s \cap left = {} /\ s \cap envL.segs = {}
      /\ s \cap SegsOf(env) = {} /\ \A b \in blocks : s \cap b.segs = {}
  <2>1. Kind # "free"
    BY DEF Kind
  <2> QED
    BY <1>1, <1>5, <2>1, MainFacts DEF InMain
<1>8. \A x \in Seg : owner'[x] = IF x \notin s THEN owner[x] ELSE IF sys THEN "sys" ELSE "user"
  BY <1>2
<1>9. TypesInv'
  <2>1. owner' \in [Seg -> {"free", "user", "sys"}]
    BY <1>2 DEF IInv, TypesInv
  <2>2. \A b \in blocks' : b.segs \subseteq Seg /\ b.n \in Nat /\ b.sys \in BOOLEAN
    BY <1>2, <1>3, <1>5 DEF IInv, TypesInv
  <2>3. freeNo' \in Nat
    BY <1>1, <1>6
  <2> QED
    BY <1>1, <2>1, <2>2, <2>3 DEF IInv, TypesInv
<1>10. KeptInv'
  <2>1. \A x \in SegsOf(env) \cup envL.segs \cup left : x \in Seg /\ x \notin s
    BY <1>1, <1>7, MainFacts DEF InMain
  <2> QED
    BY <1>1, <1>8, <2>1 DEF IInv, KeptInv
<1>11. TableInv'
  <2>1. \A x \in SegsOf(tbl) : x \in Seg /\ x \notin s
    BY <1>1, <1>7, MainFacts DEF InMain
  <2> QED
    BY <1>1, <1>8, <2>1 DEF IInv, TableInv, Kind
<1>12. BlocksInv'
  <2> DEFINE new == [segs |-> s, n |-> pages, sys |-> sys]
  <2>1. new.segs = s /\ new.n = pages /\ new.sys = sys /\ blocks' = blocks \cup {new}
    BY <1>2
  <2> HIDE DEF new
  <2>2. ASSUME NEW b \in blocks'
        PROVE  /\ b.n = Cardinality(b.segs)
               /\ \A x \in b.segs : owner'[x] = IF b.sys THEN "sys" ELSE "user"
               /\ b.segs \cap SegsOf(tbl) = {} /\ b.segs \cap left = {}
               /\ \A c \in blocks' \ {b} : b.segs \cap c.segs = {}
               /\ b.segs = envL.segs \/ b.segs \cap envL.segs = {}
    <3>1. CASE b = new
      BY <1>4, <1>5, <1>7, <1>8, <2>1, <3>1
    <3>2. CASE b # new
      <4>1. b \in blocks /\ b.segs \subseteq Seg /\ s \cap b.segs = {}
        BY <1>1, <1>7, <2>1, <3>2, MainFacts DEF InMain
      <4>2. /\ b.n = Cardinality(b.segs)
            /\ \A x \in b.segs : owner[x] = IF b.sys THEN "sys" ELSE "user"
            /\ b.segs \cap SegsOf(tbl) = {} /\ b.segs \cap left = {}
            /\ \A c \in blocks \ {b} : b.segs \cap c.segs = {}
            /\ b.segs = envL.segs \/ b.segs \cap envL.segs = {}
        BY <1>1, <4>1, MainFacts DEF InMain
      <4> QED
        BY <1>8, <2>1, <4>1, <4>2
    <3> QED
      BY <3>1, <3>2
  <2> QED
    BY <1>1, <2>2 DEF BlocksInv, InMain
<1>13. UsedInv'
  <2> DEFINE new == [segs |-> s, n |-> pages, sys |-> sys]
  <2>3. new.segs = s /\ blocks' = blocks \cup {new}
    BY <1>2
  <2> HIDE DEF new
  <2>1. Blocks' = Blocks \cup s
    BY <2>3 DEF Blocks
  <2>2. \A x \in Seg : owner[x] # "free" <=> x \in SegsOf(tbl) \cup envL.segs \cup left \cup Blocks
    BY <1>1, MainFacts DEF InMain
  <2> QED
    BY <1>1, <1>8, <2>1, <2>2 DEF UsedInv, Over
<1>14. CountInv' /\ PageInv'
  BY <1>1, <1>6 DEF IInv, CountInv, PageInv
<1> QED
  BY <1>9, <1>10, <1>11, <1>12, <1>13, <1>14 DEF IInv

LEMMA LmemFreeStep ==
  ASSUME IInv, NEW b \in blocks, LmemFree(b), UNCHANGED resident
  PROVE  IInv'
<1> USE DEF dos, flags
<1>1. /\ at = "main" /\ at' = "main" /\ b.segs # envL.segs /\ freeNo' = freeNo + b.n
      /\ owner' = [s \in Seg |-> IF s \in b.segs THEN "free" ELSE owner[s]]
      /\ blocks' = blocks \ {b}
      /\ UNCHANGED <<holds, scratch, env, envL, run, tbl, bankMax, idx, tsr, envExist, hook, abortOn,
                     page2, ovl, left, over>>
  BY DEF LmemFree
<1>2. /\ b.segs \subseteq Seg /\ b.n \in Nat /\ b.n = Cardinality(b.segs)
      /\ \A s \in b.segs : owner[s] # "free"
      /\ b.segs \cap SegsOf(tbl) = {} /\ b.segs \cap left = {} /\ b.segs \cap envL.segs = {}
      /\ \A c \in blocks \ {b} : b.segs \cap c.segs = {}
      /\ SegsOf(env) \subseteq SegsOf(tbl)
      /\ freeNo = Cardinality(Free) /\ freeNo \in Nat
  <2>1. \A s \in b.segs : owner[s] = IF b.sys THEN "sys" ELSE "user"
    BY <1>1, MainFacts DEF InMain
  <2> QED
    BY <1>1, <2>1, MainFacts DEF InMain
<1>3. Cardinality(Free') = freeNo + b.n
  <2>1. Free' = Free \cup b.segs /\ Free \cap b.segs = {}
    BY <1>1, <1>2 DEF Free
  <2>2. IsFiniteSet(Free) /\ IsFiniteSet(b.segs)
    BY <1>2, FreeFinite
  <2>3. Cardinality(Free \cap b.segs) = 0
    BY <2>1, FS_EmptySet
  <2>4. Cardinality(Free \cup b.segs) = Cardinality(Free) + Cardinality(b.segs) - Cardinality(Free \cap b.segs)
    BY <2>2, FS_Union
  <2> QED
    BY <1>2, <2>1, <2>3, <2>4
<1>4. \A s \in Seg : owner'[s] = IF s \in b.segs THEN "free" ELSE owner[s]
  BY <1>1
<1>5. TypesInv'
  <2>1. owner' \in [Seg -> {"free", "user", "sys"}] /\ freeNo' \in Nat
    BY <1>1, <1>2 DEF IInv, TypesInv
  <2> QED
    BY <1>1, <2>1 DEF IInv, TypesInv
<1>6. KeptInv'
  <2>1. \A s \in SegsOf(env) \cup envL.segs \cup left : s \in Seg /\ s \notin b.segs
    BY <1>1, <1>2, MainFacts DEF InMain
  <2> QED
    BY <1>1, <1>4, <2>1 DEF IInv, KeptInv
<1>7. TableInv'
  <2>1. \A s \in SegsOf(tbl) : s \in Seg /\ s \notin b.segs
    BY <1>1, <1>2, MainFacts DEF InMain
  <2> QED
    BY <1>1, <1>4, <2>1 DEF IInv, TableInv, Kind
<1>8. BlocksInv'
  <2>1. ASSUME NEW c \in blocks'
        PROVE  /\ c.n = Cardinality(c.segs)
               /\ \A x \in c.segs : owner'[x] = IF c.sys THEN "sys" ELSE "user"
               /\ c.segs \cap SegsOf(tbl) = {} /\ c.segs \cap left = {}
               /\ \A d \in blocks' \ {c} : c.segs \cap d.segs = {}
               /\ c.segs = envL.segs \/ c.segs \cap envL.segs = {}
    <3>1. c \in blocks \ {b} /\ c.segs \subseteq Seg /\ b.segs \cap c.segs = {}
      BY <1>1, <1>2, <2>1, MainFacts DEF InMain
    <3>2. /\ c.n = Cardinality(c.segs)
          /\ \A x \in c.segs : owner[x] = IF c.sys THEN "sys" ELSE "user"
          /\ c.segs \cap SegsOf(tbl) = {} /\ c.segs \cap left = {}
          /\ \A d \in blocks \ {c} : c.segs \cap d.segs = {}
          /\ c.segs = envL.segs \/ c.segs \cap envL.segs = {}
      BY <1>1, <3>1, MainFacts DEF InMain
    <3> QED
      BY <1>1, <1>4, <3>1, <3>2
  <2> QED
    BY <1>1, <2>1 DEF BlocksInv, InMain
<1>9. UsedInv'
  <2>1. Blocks' = Blocks \ b.segs
    BY <1>1, <1>2 DEF Blocks
  <2>2. \A x \in Seg : owner[x] # "free" <=> x \in SegsOf(tbl) \cup envL.segs \cup left \cup Blocks
    BY <1>1, MainFacts DEF InMain
  <2> QED
    BY <1>1, <1>2, <1>4, <2>1, <2>2 DEF UsedInv, Over
<1>10. CountInv' /\ PageInv'
  BY <1>1, <1>3 DEF IInv, CountInv, PageInv
<1> QED
  BY <1>5, <1>6, <1>7, <1>8, <1>9, <1>10 DEF IInv

LEMMA LmemExportStep ==
  ASSUME IInv, NEW b \in blocks, LmemExport(b), UNCHANGED resident
  PROVE  IInv'
<1> USE DEF mapper, mem, flags
<1>1. /\ at = "main" /\ at' = "main" /\ b.sys /\ envL.segs = {}
      /\ envL'.segs = b.segs /\ envL'.n = b.n
      /\ UNCHANGED <<owner, holds, scratch, env, run, tbl, bankMax, idx, freeNo, tsr, envExist, hook,
                     abortOn, page2, ovl, blocks, left, over>>
  BY DEF LmemExport, NoBlock
<1>2. /\ b.segs \subseteq Seg /\ b.n \in Nat /\ b.n = Cardinality(b.segs)
      /\ \A s \in b.segs : owner[s] = "sys"
      /\ b.segs \cap SegsOf(tbl) = {} /\ b.segs \cap left = {}
      /\ \A c \in blocks \ {b} : b.segs \cap c.segs = {}
      /\ SegsOf(env) \subseteq SegsOf(tbl)
  BY <1>1, MainFacts DEF InMain
<1>3. TypesInv' /\ PageInv' /\ CountInv'
  BY <1>1, <1>2 DEF IInv, TypesInv, PageInv, CountInv, Free
<1>4. KeptInv'
  BY <1>1, <1>2 DEF IInv, KeptInv
<1>5. TableInv'
  BY <1>1, <1>2 DEF IInv, TableInv, Kind
<1>6. BlocksInv'
  BY <1>1, <1>2 DEF IInv, BlocksInv
<1>7. UsedInv'
  <2>1. b.segs \subseteq Blocks
    BY DEF Blocks
  <2> QED
    BY <1>1, <2>1 DEF IInv, UsedInv, Blocks, Over
<1> QED
  BY <1>3, <1>4, <1>5, <1>6, <1>7 DEF IInv

LEMMA LmemImportStep ==
  ASSUME IInv, LmemImport, UNCHANGED resident
  PROVE  IInv'
<1> USE DEF mapper, dos, mem, flags
<1> DEFINE new == [segs |-> envL.segs, n |-> envL.n, sys |-> TRUE]
<1>1. /\ at = "main" /\ at' = "main" /\ (\A b \in blocks : b.segs # envL.segs)
      /\ blocks' = blocks \cup {new}
      /\ UNCHANGED <<owner, holds, scratch, env, envL, run, tbl, bankMax, idx, freeNo, tsr, envExist,
                     hook, abortOn, page2, ovl, left, over>>
  BY DEF LmemImport
<1>2. new.segs = envL.segs /\ new.n = envL.n /\ new.sys = TRUE
  OBVIOUS
<1> HIDE DEF new
<1>3. /\ envL.segs \subseteq Seg /\ envL.n \in Nat /\ envL.n = Cardinality(envL.segs)
      /\ \A s \in envL.segs : owner[s] = "sys"
  BY DEF IInv, TypesInv, KeptInv
<1>4. TypesInv' /\ PageInv' /\ CountInv'
  BY <1>1, <1>2, <1>3 DEF IInv, TypesInv, PageInv, CountInv, Free
<1>5. KeptInv' /\ TableInv'
  BY <1>1 DEF IInv, KeptInv, TableInv, Kind
<1>6. BlocksInv'
  <2>1. ASSUME NEW b \in blocks'
        PROVE  /\ b.n = Cardinality(b.segs)
               /\ \A x \in b.segs : owner[x] = IF b.sys THEN "sys" ELSE "user"
               /\ b.segs \cap SegsOf(tbl) = {} /\ b.segs \cap left = {}
               /\ \A c \in blocks' \ {b} : b.segs \cap c.segs = {}
               /\ b.segs = envL.segs \/ b.segs \cap envL.segs = {}
    <3>1. \A c \in blocks : c.segs \cap envL.segs = {}
      BY <1>1, MainFacts DEF InMain
    <3>2. CASE b = new
      <4>1. envL.segs \cap SegsOf(tbl) = {} /\ envL.segs \cap left = {}
        BY <1>1, MainFacts DEF InMain
      <4> QED
        BY <1>1, <1>2, <1>3, <3>1, <3>2, <4>1
    <3>3. CASE b # new
      <4>1. b \in blocks
        BY <1>1, <3>3
      <4>2. /\ b.n = Cardinality(b.segs)
            /\ \A x \in b.segs : owner[x] = IF b.sys THEN "sys" ELSE "user"
            /\ b.segs \cap SegsOf(tbl) = {} /\ b.segs \cap left = {}
            /\ \A c \in blocks \ {b} : b.segs \cap c.segs = {}
        BY <1>1, <4>1, MainFacts DEF InMain
      <4> QED
        BY <1>1, <1>2, <3>1, <4>1, <4>2
    <3> QED
      BY <3>2, <3>3
  <2> QED
    BY <1>1, <2>1 DEF BlocksInv, InMain
<1>7. UsedInv'
  <2>1. Blocks' = Blocks \cup envL.segs
    BY <1>1, <1>2 DEF Blocks
  <2> QED
    BY <1>1, <2>1 DEF IInv, UsedInv, Over
<1> QED
  BY <1>4, <1>5, <1>6, <1>7 DEF IInv

LEMMA ClearExportStep ==
  ASSUME IInv, ClearExport, UNCHANGED resident
  PROVE  IInv'
<1> USE DEF mapper, mem, flags
<1>1. /\ at = "main" /\ at' = "main" /\ (\E b \in blocks : b.segs = envL.segs)
      /\ envL'.segs = {} /\ envL'.n = 0
      /\ UNCHANGED <<owner, holds, scratch, env, run, tbl, bankMax, idx, freeNo, tsr, envExist, hook,
                     abortOn, page2, ovl, blocks, left, over>>
  BY DEF ClearExport, NoBlock
<1>2. envL.segs \subseteq Blocks /\ Cardinality({}) = 0
  BY <1>1, FS_EmptySet DEF Blocks
<1>3. TypesInv' /\ PageInv' /\ CountInv'
  BY <1>1 DEF IInv, TypesInv, PageInv, CountInv, Free
<1>4. KeptInv' /\ TableInv' /\ BlocksInv'
  BY <1>1, <1>2 DEF IInv, KeptInv, TableInv, BlocksInv, Kind
<1>5. UsedInv'
  BY <1>1, <1>2 DEF IInv, UsedInv, Blocks, Over
<1> QED
  BY <1>3, <1>4, <1>5 DEF IInv

(* Overlays move no segment; each of their places is one of the table.     *)
LEMMA TableSeg ==
  ASSUME IInv, at \in InMain, NEW dest \in 1..bankMax
  PROVE  tbl[2 * dest - 1] \in Seg /\ tbl[2 * dest] \in Seg /\ dest \in 1..OvlBanks
<1>1. Len(tbl) = 2 * bankMax /\ tbl \in Seq(Seg) /\ bankMax \in 0..OvlBanks /\ OvlBanks \in Nat
  <2>1. tbl \in Seq(Seg) /\ bankMax \in 0..OvlBanks
    BY DEF IInv, TypesInv
  <2>2. Len(tbl) = 2 * bankMax
    BY MainFacts
  <2> QED
    BY <2>1, <2>2, LoaderAssumption
<1>2. 2 * dest - 1 \in 1..Len(tbl) /\ 2 * dest \in 1..Len(tbl) /\ dest \in 1..OvlBanks
  BY <1>1
<1> QED
  BY <1>1, <1>2, ElementOfSeq

LEMMA FillTypes ==
  ASSUME IInv, NEW seg \in Seg, NEW b \in 0..OvlBanks, NEW half \in {0, 1}, Fill(seg, b, half)
  PROVE  /\ holds' \in [Seg \cup {Bad} -> [bank : 0..OvlBanks, half : {0, 1}]]
         /\ scratch' \in [Seg \cup {Bad} -> 0..MaxRuns]
  BY DEF Fill, IInv, TypesInv

LEMMA OverlaySteps ==
  ASSUME IInv, UNCHANGED resident,
         \/ \E dest \in 1..bankMax, bank \in 1..OvlBanks : OverlayBegin(dest, bank)
         \/ OverlayRead0
         \/ OverlayRead1
  PROVE  IInv'
<1> USE DEF mapper, dos, mem, flags
<1>1. ASSUME NEW dest \in 1..bankMax, NEW bank \in 1..OvlBanks, OverlayBegin(dest, bank)
      PROVE  IInv'
  <2>1. /\ at = "main" /\ at' = "ovl0" /\ hook' = FALSE /\ page2' = tbl[2 * dest - 1]
        /\ ovl' = [dest |-> dest, bank |-> bank]
        /\ UNCHANGED <<owner, holds, scratch, env, envL, run, tbl, bankMax, idx, freeNo, tsr,
                       envExist, abortOn, blocks, left, over>>
    BY <1>1 DEF OverlayBegin
  <2>2. page2' \in Seg /\ dest \in 1..OvlBanks /\ OvlBanks \in Nat
    BY <2>1, TableSeg, LoaderAssumption DEF InMain
  <2>3. TypesInv' /\ PageInv'
    <3>1. ovl' \in [dest : 0..OvlBanks, bank : 0..OvlBanks]
      BY <2>1, <2>2
    <3>2. TypesInv'
      BY <2>1, <2>2, <3>1 DEF IInv, TypesInv, Place
    <3>3. PageInv'
      BY <2>1, <2>2 DEF PageInv
    <3> QED
      BY <3>2, <3>3
  <2>4. KeptInv' /\ TableInv' /\ BlocksInv' /\ UsedInv' /\ CountInv'
    BY <2>1, HoldersStay, MainFacts DEF InMain
  <2> QED
    BY <2>3, <2>4 DEF IInv
<1>2. CASE OverlayRead0
  <2>1. /\ at = "ovl0" /\ at' = "ovl1" /\ Fill(page2, ovl.bank, 0) /\ page2' = tbl[2 * ovl.dest]
        /\ over' = over \cup {ovl.dest, ovl.bank}
        /\ UNCHANGED <<owner, env, envL, run, tbl, bankMax, idx, freeNo, tsr, envExist, hook,
                       abortOn, ovl, blocks, left>>
    BY <1>2 DEF OverlayRead0
  <2>2. ovl.dest \in 1..bankMax /\ ovl.bank \in 1..OvlBanks /\ page2 \in Seg
    BY <2>1 DEF IInv, PageInv
  <2>3. page2' \in Seg /\ ovl.dest \in 1..OvlBanks
    BY <2>1, <2>2, TableSeg DEF InMain
  <2>4. /\ holds' \in [Seg \cup {Bad} -> [bank : 0..OvlBanks, half : {0, 1}]]
        /\ scratch' \in [Seg \cup {Bad} -> 0..MaxRuns]
    <3>1. ovl.bank \in 0..OvlBanks
      BY <2>2, LoaderAssumption
    <3> QED
      BY <2>1, <2>2, <3>1, FillTypes
  <2>5. TypesInv'
    BY <2>1, <2>2, <2>3, <2>4 DEF IInv, TypesInv, Place
  <2>6. PageInv'
    BY <2>1, <2>2, <2>3 DEF IInv, PageInv
  <2>7. KeptInv' /\ TableInv' /\ BlocksInv' /\ UsedInv' /\ CountInv'
    BY <2>1, HoldersStay, MainFacts DEF InMain
  <2> QED
    BY <2>5, <2>6, <2>7 DEF IInv
<1>3. CASE OverlayRead1
  <2>1. /\ at = "ovl1" /\ at' = "main" /\ Fill(page2, ovl.bank, 1) /\ page2' = Own /\ hook' = TRUE
        /\ idx' = [idx EXCEPT ![ovl.bank] = <<tbl[2 * ovl.dest - 1], tbl[2 * ovl.dest]>>]
        /\ UNCHANGED <<owner, env, envL, run, tbl, bankMax, freeNo, tsr, envExist,
                       abortOn, ovl, blocks, left, over>>
    BY <1>3 DEF OverlayRead1
  <2>2. ovl.dest \in 1..bankMax /\ ovl.bank \in 1..OvlBanks /\ page2 \in Seg
    BY <2>1 DEF IInv, PageInv
  <2>3. <<tbl[2 * ovl.dest - 1], tbl[2 * ovl.dest]>> \in Seq(Seg \cup {Bad})
    <3>1. tbl[2 * ovl.dest - 1] \in Seg /\ tbl[2 * ovl.dest] \in Seg
      BY <2>1, <2>2, TableSeg DEF InMain
    <3> QED
      BY <3>1
  <2>4. idx' \in [1..OvlBanks -> Seq(Seg \cup {Bad})]
    BY <2>1, <2>2, <2>3 DEF IInv, TypesInv
  <2>5. /\ holds' \in [Seg \cup {Bad} -> [bank : 0..OvlBanks, half : {0, 1}]]
        /\ scratch' \in [Seg \cup {Bad} -> 0..MaxRuns]
    <3>1. ovl.bank \in 0..OvlBanks
      BY <2>2, LoaderAssumption
    <3> QED
      BY <2>1, <2>2, <3>1, FillTypes
  <2>6. TypesInv'
    BY <2>1, <2>4, <2>5 DEF IInv, TypesInv, Place
  <2>7. PageInv'
    BY <2>1 DEF PageInv
  <2>8. KeptInv' /\ TableInv' /\ BlocksInv' /\ UsedInv' /\ CountInv'
    BY <2>1, HoldersStay, MainFacts DEF InMain
  <2> QED
    BY <2>6, <2>7, <2>8 DEF IInv
<1> QED
  BY <1>1, <1>2, <1>3

-----------------------------------------------------------------------------
(* Ending a run.                                                           *)
LEMMA MainEndsStep ==
  ASSUME IInv, MainEnds, UNCHANGED resident
  PROVE  IInv'
<1> USE DEF mapper, dos, mem
<1> DEFINE own == {b \in blocks : b.sys}
           kept == (UNION {b.segs : b \in own}) \ envL.segs
<1>1. /\ at = "main" /\ at' = "exit" /\ hook' = FALSE /\ abortOn' = FALSE /\ left' = left \cup kept
      /\ UNCHANGED <<owner, holds, scratch, env, envL, run, tbl, bankMax, idx, freeNo, tsr, envExist,
                     page2, ovl, blocks, over>>
  BY DEF MainEnds
<1>2. \A b \in blocks : /\ b.segs \subseteq Seg /\ b.sys \in BOOLEAN
                        /\ \A s \in b.segs : owner[s] = IF b.sys THEN "sys" ELSE "user"
                        /\ b.segs \cap SegsOf(tbl) = {}
  BY <1>1, MainFacts DEF InMain
<1>10. \A s : s \in kept <=> s \notin envL.segs /\ \E b \in blocks : b.sys /\ s \in b.segs
  <2>1. \A b : b \in own <=> b \in blocks /\ b.sys
    OBVIOUS
  <2> HIDE DEF own
  <2>2. \A s : s \in UNION {b.segs : b \in own} <=> \E b \in own : s \in b.segs
    OBVIOUS
  <2>3. \A s : s \in kept <=> s \notin envL.segs /\ s \in UNION {b.segs : b \in own}
    OBVIOUS
  <2> HIDE DEF kept
  <2>4. \A s : (\E b \in own : s \in b.segs) <=> \E b \in blocks : b.sys /\ s \in b.segs
    BY <2>1
  <2> QED
    BY <2>2, <2>3, <2>4
<1>11. \A s : s \in Blocks <=> \E b \in blocks : s \in b.segs
  BY DEF Blocks
<1> HIDE DEF kept
<1>3. /\ kept \subseteq Seg /\ kept \cap SegsOf(tbl) = {} /\ kept \cap envL.segs = {}
      /\ \A s \in kept : owner[s] = "sys"
  BY <1>2, <1>10
<1>4. \A s \in Seg : s \in Blocks /\ owner[s] = "sys" => s \in kept \cup envL.segs
  BY <1>2, <1>10, <1>11
<1>5. /\ SegsOf(tbl) \subseteq Seg /\ (\A s \in SegsOf(tbl) : owner[s] = Kind)
      /\ SegsOf(env) \subseteq SegsOf(tbl)
      /\ \A s \in envL.segs \cup left : s \in Seg /\ owner[s] = "sys"
      /\ \A s \in Seg : owner[s] # "free" <=> s \in SegsOf(tbl) \cup envL.segs \cup left \cup Blocks
  BY <1>1, MainFacts DEF InMain
<1>6. TypesInv' /\ PageInv'
  BY <1>1, <1>3 DEF IInv, TypesInv, PageInv, Place
<1>7. KeptInv' /\ TableInv'
  BY <1>1, <1>3, <1>5 DEF IInv, KeptInv, TableInv, Kind, Over, InMain
<1>8. BlocksInv' /\ CountInv'
  BY <1>1 DEF BlocksInv, CountInv, InMain
<1>9. UsedInv'
  <2>1. ASSUME NEW s \in Seg, owner[s] = "sys"
        PROVE  s \in envL.segs \cup (left \cup kept) \/ (Kind = "sys" /\ s \in SegsOf(tbl))
    <3>1. CASE s \in SegsOf(tbl)
      BY <1>5, <2>1, <3>1 DEF Kind
    <3>2. CASE s \notin SegsOf(tbl)
      <4>1. owner[s] # "free"
        BY <2>1
      <4>2. s \in envL.segs \cup left \cup Blocks
        BY <1>5, <3>2, <4>1
      <4> QED
        BY <1>4, <2>1, <4>2
    <3> QED
      BY <3>1, <3>2
  <2>2. ASSUME NEW s \in Seg,
               s \in envL.segs \cup (left \cup kept) \/ (Kind = "sys" /\ s \in SegsOf(tbl))
        PROVE  owner[s] = "sys"
    BY <1>3, <1>5, <2>2 DEF Kind
  <2>3. /\ at' = "exit" /\ owner' = owner /\ envL' = envL /\ tbl' = tbl /\ Kind' = Kind
        /\ left' = left \cup kept
    BY <1>1 DEF Kind
  <2>4. ASSUME NEW s \in Seg
        PROVE  owner'[s] = "sys" <=> \/ s \in envL'.segs \cup left'
                                     \/ (Kind' = "sys" /\ s \in SegsOf(tbl'))
    BY <2>1, <2>2, <2>3
  <2> QED
    BY <2>3, <2>4 DEF UsedInv, Over
<1> QED
  BY <1>6, <1>7, <1>8, <1>9 DEF IInv

(* What holds when main() is over.                                         *)
LEMMA ExitFacts ==
  ASSUME IInv, at = "exit"
  PROVE  /\ tbl \in Seq(Seg) /\ Len(tbl) = 2 * bankMax /\ Cardinality(SegsOf(tbl)) = Len(tbl)
         /\ bankMax \in 0..OvlBanks /\ SegsOf(tbl) \subseteq Seg
         /\ SegsOf(env) \subseteq SegsOf(tbl) /\ (tsr => resident)
         /\ env = <<>> \/ (Kind = "sys" /\ tbl = env)
         /\ envExist => tbl = env
         /\ ~envExist => env = <<>>
         /\ \A s \in SegsOf(tbl) : owner[s] = Kind
         /\ SegsOf(tbl) \cap (envL.segs \cup left) = {}
         /\ \A s \in envL.segs \cup left : s \in Seg /\ owner[s] = "sys"
         /\ \A s \in Seg : owner[s] = "sys" <=> \/ s \in envL.segs \cup left
                                                \/ (Kind = "sys" /\ s \in SegsOf(tbl))
<1>1. at \notin Over /\ tbl \in Seq(Seg) /\ bankMax \in 0..OvlBanks
  BY DEF Over, IInv, TypesInv
<1>2. SegsOf(tbl) \subseteq Seg
  BY <1>1, SegsFacts
<1>3. /\ Len(tbl) = 2 * bankMax /\ Cardinality(SegsOf(tbl)) = Len(tbl) /\ (tsr => resident)
      /\ \A s \in SegsOf(tbl) : owner[s] = Kind
      /\ SegsOf(tbl) \cap (envL.segs \cup left) = {}
      /\ envExist => resident /\ tbl = env
      /\ ~envExist => env = <<>>
  BY <1>1 DEF IInv, TableInv
<1>4. SegsOf(env) \subseteq SegsOf(tbl) /\ (env = <<>> \/ (Kind = "sys" /\ tbl = env))
  <2>1. CASE envExist
    <3>1. tbl = env /\ Kind = "sys"
      BY <1>3, <2>1 DEF Kind
    <3> QED
      BY <3>1
  <2>2. CASE ~envExist
    <3>1. env = <<>>
      BY <1>3, <2>2
    <3> QED
      BY <3>1, SegsEmpty
  <2> QED
    BY <2>1, <2>2
<1>5. \A s \in envL.segs \cup left : s \in Seg /\ owner[s] = "sys"
  BY DEF IInv, TypesInv, KeptInv
<1>6. \A s \in Seg : owner[s] = "sys" <=> \/ s \in envL.segs \cup left
                                          \/ (Kind = "sys" /\ s \in SegsOf(tbl))
  <2>1. at = "exit" => \A s \in Seg : owner[s] = "sys" <=> \/ s \in envL.segs \cup left
                                                           \/ (Kind = "sys" /\ s \in SegsOf(tbl))
    BY DEF IInv, UsedInv
  <2> QED
    BY <2>1
<1> QED
  BY <1>1, <1>2, <1>3, <1>4, <1>5, <1>6

LEMMA AbortStep ==
  ASSUME IInv, AbortAtExit, UNCHANGED resident
  PROVE  IInv'
<1> USE DEF mem, flags, dos
<1> DEFINE lost == IF resident THEN SegsOf(tbl) \ ({Bad} \cup SegsOf(env)) ELSE {}
<1>1. /\ at = "exit" /\ at' = "idle" /\ left' = left \cup lost
      /\ owner' = [s \in Seg |-> IF owner[s] = "user" THEN "free" ELSE owner[s]]
      /\ UNCHANGED <<holds, scratch, env, envL, run, tbl, bankMax, idx, freeNo, tsr, envExist, hook,
                     abortOn, page2, ovl, blocks, over>>
  BY DEF AbortAtExit, ToDos
<1>2. /\ lost \subseteq Seg /\ lost \cap SegsOf(env) = {} /\ lost \cap envL.segs = {}
      /\ \A s \in lost : owner[s] = "sys"
      /\ resident => lost \cup SegsOf(env) = SegsOf(tbl)
      /\ ~resident => lost = {} /\ SegsOf(env) = {}
  <2>1. CASE resident
    <3>1. lost = SegsOf(tbl) \ ({Bad} \cup SegsOf(env)) /\ Kind = "sys"
      BY <2>1 DEF Kind
    <3> QED
      BY <1>1, <2>1, <3>1, ExitFacts, LoaderAssumption
  <2>2. CASE ~resident
    <3>1. lost = {} /\ Kind # "sys"
      BY <2>2 DEF Kind
    <3>2. env = <<>>
      BY <1>1, <3>1, ExitFacts
    <3> QED
      BY <2>2, <3>1, <3>2, SegsEmpty
  <2> QED
    BY <2>1, <2>2
<1> HIDE DEF lost
<1>3. \A s \in Seg : owner'[s] = IF owner[s] = "user" THEN "free" ELSE owner[s]
  BY <1>1
<1>4. TypesInv'
  <2>1. owner' \in [Seg -> {"free", "user", "sys"}]
    BY <1>1 DEF IInv, TypesInv
  <2> QED
    BY <1>1, <1>2, <2>1 DEF IInv, TypesInv, Place
<1>5. PageInv' /\ TableInv' /\ BlocksInv' /\ CountInv'
  BY <1>1 DEF IInv, PageInv, TableInv, BlocksInv, CountInv, Over, InMain
<1>6. KeptInv'
  <2>1. \A s \in SegsOf(env) \cup envL.segs \cup left : s \in Seg /\ owner[s] = "sys"
    <3>1. SegsOf(env) \subseteq Seg
      BY <1>1, ExitFacts
    <3> QED
      BY <3>1 DEF IInv, TypesInv, KeptInv
  <2> QED
    BY <1>1, <1>2, <1>3, <2>1 DEF IInv, KeptInv
<1>7. UsedInv'
  <2>1. \A s \in Seg : owner[s] = "sys" <=> s \in SegsOf(env) \cup envL.segs \cup left \cup lost
    <3>1. \A s \in Seg : owner[s] = "sys" <=> \/ s \in envL.segs \cup left
                                              \/ (Kind = "sys" /\ s \in SegsOf(tbl))
      BY <1>1, ExitFacts
    <3>2. \A s : (Kind = "sys" /\ s \in SegsOf(tbl)) <=> s \in SegsOf(env) \cup lost
      BY <1>2 DEF Kind
    <3> QED
      BY <3>1, <3>2
  <2>2. \A s \in Seg : owner'[s] # "user" /\ (owner'[s] = "sys" <=> owner[s] = "sys")
    BY <1>3
  <2> QED
    BY <1>1, <2>1, <2>2 DEF UsedInv, Over
<1> QED
  BY <1>4, <1>5, <1>6, <1>7 DEF IInv

LEMMA ExitResidentStep ==
  ASSUME IInv, ExitResident, UNCHANGED resident
  PROVE  IInv'
<1> USE DEF mem, flags
<1>1. /\ at = "exit" /\ at' = "idle" /\ tsr
      /\ env' = IF envExist THEN env ELSE SubSeq(tbl, 1, 2 * bankMax)
      /\ owner' = [s \in Seg |-> IF owner[s] = "user" THEN "free" ELSE owner[s]]
      /\ UNCHANGED <<holds, scratch, envL, run, tbl, bankMax, idx, freeNo, tsr, envExist, hook,
                     abortOn, page2, ovl, blocks, left, over>>
  BY DEF ExitResident, ToDos
<1>2. env' = tbl /\ resident /\ Kind = "sys"
  BY <1>1, ExitFacts, SubSeqFull DEF Kind
<1>3. \A s \in Seg : owner'[s] = IF owner[s] = "user" THEN "free" ELSE owner[s]
  BY <1>1
<1>4. TypesInv'
  <2>1. owner' \in [Seg -> {"free", "user", "sys"}]
    BY <1>1 DEF IInv, TypesInv
  <2> QED
    BY <1>1, <1>2, <2>1 DEF IInv, TypesInv, Place
<1>5. PageInv' /\ TableInv' /\ BlocksInv' /\ CountInv'
  BY <1>1 DEF IInv, PageInv, TableInv, BlocksInv, CountInv, Over, InMain
<1>6. KeptInv'
  <2>1. Len(tbl) % 2 = 0 /\ Len(tbl) <= 2 * OvlBanks
    <3>1. \A n \in Nat : (2 * n) % 2 = 0
      OBVIOUS
    <3>2. bankMax \in Nat /\ bankMax <= OvlBanks /\ OvlBanks \in Nat
      BY <1>1, ExitFacts, LoaderAssumption
    <3> QED
      BY <1>1, <3>1, <3>2, ExitFacts
  <2>2. \A s \in SegsOf(tbl) \cup envL.segs \cup left : s \in Seg /\ owner[s] = "sys"
    BY <1>1, <1>2, ExitFacts DEF Kind
  <2>3. SegsOf(tbl) \cap envL.segs = {} /\ SegsOf(tbl) \cap left = {} /\ Cardinality(SegsOf(tbl)) = Len(tbl)
    BY <1>1, ExitFacts
  <2>4. envL.n = Cardinality(envL.segs) /\ envL.segs \cap left = {}
    BY DEF IInv, KeptInv
  <2> QED
    BY <1>1, <1>2, <1>3, <2>1, <2>2, <2>3, <2>4 DEF KeptInv
<1>7. UsedInv'
  <2>1. \A s \in Seg : owner[s] = "sys" <=> s \in SegsOf(tbl) \cup envL.segs \cup left
    BY <1>1, <1>2, ExitFacts
  <2>2. \A s \in Seg : owner'[s] # "user" /\ (owner'[s] = "sys" <=> owner[s] = "sys")
    BY <1>3
  <2> QED
    BY <1>1, <1>2, <2>1, <2>2 DEF UsedInv, Over
<1> QED
  BY <1>4, <1>5, <1>6, <1>7 DEF IInv

LEMMA ExitFreeStep ==
  ASSUME IInv, ExitFree, UNCHANGED resident
  PROVE  IInv'
<1> USE DEF flags
<1>1. /\ at = "exit" /\ at' = "idle"
      /\ env' = IF envExist THEN <<>> ELSE env
      /\ owner' = [s \in Seg |-> IF s \in SegsOf(tbl) \/ owner[s] = "user" THEN "free" ELSE owner[s]]
      /\ freeNo' = freeNo + 2 * bankMax
      /\ UNCHANGED <<holds, scratch, envL, run, tbl, bankMax, idx, tsr, envExist, hook,
                     abortOn, page2, ovl, blocks, left, over>>
  BY DEF ExitFree
<1>2. env' = <<>> /\ SegsOf(env') = {}
  BY <1>1, ExitFacts, SegsEmpty
<1>3. \A s \in Seg : owner'[s] = IF s \in SegsOf(tbl) \/ owner[s] = "user" THEN "free" ELSE owner[s]
  BY <1>1
<1>4. TypesInv'
  <2>1. owner' \in [Seg -> {"free", "user", "sys"}]
    BY <1>1 DEF IInv, TypesInv
  <2>2. freeNo' \in Nat
    BY <1>1, LoaderAssumption DEF IInv, TypesInv
  <2>3. env' \in Seq(Seg)
    BY <1>2, EmptySeq
  <2> QED
    BY <1>1, <2>1, <2>2, <2>3 DEF IInv, TypesInv, Place
<1>5. PageInv' /\ TableInv' /\ BlocksInv' /\ CountInv'
  BY <1>1 DEF IInv, PageInv, TableInv, BlocksInv, CountInv, Over, InMain
<1>6. KeptInv'
  <2>1. \A s \in envL.segs \cup left : s \in Seg /\ owner[s] = "sys" /\ s \notin SegsOf(tbl)
    BY <1>1, ExitFacts
  <2>2. envL.n = Cardinality(envL.segs) /\ envL.segs \cap left = {}
    BY DEF IInv, KeptInv
  <2>3. Len(<<>>) % 2 = 0 /\ Len(<<>>) <= 2 * OvlBanks
    BY LoaderAssumption
  <2> QED
    BY <1>1, <1>2, <1>3, <2>1, <2>2, <2>3, SegsEmpty DEF KeptInv
<1>7. UsedInv'
  <2>1. ASSUME NEW s \in Seg
        PROVE  owner'[s] # "user" /\ (owner'[s] = "sys" <=> s \in envL.segs \cup left)
    BY <1>1, <1>3, <2>1, ExitFacts
  <2> QED
    BY <1>1, <1>2, <2>1 DEF UsedInv, Over
<1> QED
  BY <1>4, <1>5, <1>6, <1>7 DEF IInv

LEMMA DiskErrorStep ==
  ASSUME IInv, DiskError, UNCHANGED resident
  PROVE  IInv'
<1> USE DEF mapper, dos, mem, flags
<1>1. /\ at \in {"read", "ovl0", "ovl1"} /\ at' = IF page2 = Own THEN "exit" ELSE "crashed"
      /\ UNCHANGED <<owner, holds, scratch, env, envL, run, tbl, bankMax, idx, freeNo, tsr, envExist,
                     hook, abortOn, page2, ovl, blocks, left, over>>
  BY DEF DiskError
<1>2. at' = "crashed" /\ hook = FALSE
  BY <1>1, LoaderAssumption DEF IInv, TypesInv, PageInv
<1>3. TypesInv' /\ KeptInv' /\ PageInv'
  BY <1>1, <1>2 DEF IInv, TypesInv, KeptInv, PageInv, Place
<1>4. TableInv' /\ BlocksInv' /\ UsedInv' /\ CountInv'
  BY <1>2 DEF TableInv, BlocksInv, UsedInv, CountInv, Over, InMain
<1> QED
  BY <1>3, <1>4 DEF IInv

-----------------------------------------------------------------------------
LEMMA Inductive == IInv /\ [Next]_vars => IInv'
<1> SUFFICES ASSUME IInv, [Next]_vars PROVE IInv'
  OBVIOUS
<1>1. CASE UNCHANGED vars
  <2>1. UNCHANGED <<resident, owner, holds, scratch, env, envL, at, run, tbl, bankMax, idx, freeNo, tsr,
                    envExist, hook, abortOn, page2, ovl, blocks, left, over>>
    BY <1>1 DEF vars, mapper, dos, mem, flags
  <2>2. TypesInv' /\ KeptInv' /\ TableInv'
    BY <2>1 DEF IInv, TypesInv, KeptInv, TableInv, Kind
  <2>3. BlocksInv' /\ UsedInv' /\ CountInv' /\ PageInv'
    BY <2>1 DEF IInv, BlocksInv, UsedInv, CountInv, PageInv, Blocks, Free, Kind
  <2> QED
    BY <2>2, <2>3 DEF IInv
<1>2. CASE MainStep /\ UNCHANGED resident
  BY <1>2, SetTsrStep, LmemAllocStep, LmemFreeStep, LmemExportStep, LmemImportStep,
     ClearExportStep, OverlaySteps DEF MainStep
<1> QED
  BY <1>1, <1>2, StartStep, OpenStep, LoadAllocStep, LoadReadStep, ResumeStep, MainBegins,
     MainEndsStep, AbortStep, ExitResidentStep, ExitFreeStep, DiskErrorStep DEF Next

LEMMA HoldersInductive == Spec => []IInv
  BY LoaderInit, Inductive, PTL DEF Spec

(* free_seg_no is the number of segments the mapper has free, every        *)
(* segment the program uses has one holder, and that is whose it is, for   *)
(* any number of segments, banks, runs, lmem blocks and disk errors        *)
(* (bl_main, bl_lmem_alloc_do).                                            *)
THEOREM OwnershipTheorem == Spec => []Ownership
<1>1. IInv => Ownership
  <2> SUFFICES ASSUME IInv PROVE Ownership
    OBVIOUS
  <2>1. TypeOK
    <3>1. env \in Seq(Seg \cup {Bad}) /\ tbl \in Seq(Seg \cup {Bad})
      BY DEF IInv, TypesInv
    <3>2. page2 \in Seg \cup {Bad, Own}
      BY DEF IInv, TypesInv
    <3> QED
      BY <3>1, <3>2 DEF IInv, TypesInv, TypeOK
  <2>2. Accounting
    <3> SUFFICES ASSUME at \in {"load", "ready"} \cup InMain PROVE Accounting
      BY DEF Accounting, InMain
    <3>1. freeNo = Cardinality(Free)
      BY DEF IInv, CountInv
    <3>2. Bad \notin SegsOf(tbl)
      BY SegsFacts, LoaderAssumption DEF IInv, TypesInv
    <3>3. \A b \in blocks : b.n = Cardinality(b.segs)
      BY DEF IInv, BlocksInv, Over, InMain
    <3> QED
      BY <3>1, <3>2, <3>3 DEF Accounting
  <2>3. OneHolder
    <3> SUFFICES ASSUME at \in InMain PROVE OneHolder
      BY DEF OneHolder, InMain
    <3>1. Cardinality(SegsOf(tbl)) = 2 * bankMax
      BY MainFacts DEF IInv, TableInv, Over, InMain
    <3> QED
      BY <3>1, MainFacts DEF OneHolder
  <2> QED
    BY <2>1, <2>2, <2>3 DEF Ownership
<1> QED
  BY <1>1, HoldersInductive, PTL

(* Between runs DOS holds for the program just the segments a later run    *)
(* can find again and those counted as lost: bl_main() loses none.         *)
THEOREM NothingLostTheorem == Spec => []NothingLost
<1>1. IInv => NothingLost
  <2> SUFFICES ASSUME IInv, at = "idle" PROVE NothingLost
    BY DEF NothingLost
  <2>1. SegsOf(env) \cup envL.segs \cup left \subseteq Seg
    BY SegsFacts DEF IInv, TypesInv
  <2>2. \A s \in Seg : owner[s] # "user"
                       /\ (owner[s] = "sys" <=> s \in SegsOf(env) \cup envL.segs \cup left)
    BY DEF IInv, UsedInv
  <2> QED
    BY <2>1, <2>2 DEF NothingLost
<1> QED
  BY <1>1, HoldersInductive, PTL

(***************************************************************************)
(* What the segments hold, and where the Bank index leads.                 *)
(***************************************************************************)
OnePlace(s) == \A i, j \in 1..Len(s) : s[i] = s[j] => i = j
Pair(s, c) == <<s[2 * c - 1], s[2 * c]>>

(* Places 2c-1 and 2c of a table hold the halves of one bank: of bank c,   *)
(* unless an overlay changed it.                                           *)
Coded(s, c) ==
  \E b \in 1..OvlBanks : /\ holds[s[2 * c - 1]] = [bank |-> b, half |-> 0]
                         /\ holds[s[2 * c]] = [bank |-> b, half |-> 1]
                         /\ c \notin over => b = c

(* The places of the table that are loaded.                                *)
Loaded == IF at = "read" THEN Len(tbl) - 1 ELSE Len(tbl)

PlacesInv ==
  /\ at = "idle" => OnePlace(env)
  /\ at \notin Over => OnePlace(tbl)
  /\ at = "read" => page2 = tbl[Len(tbl)]
  /\ at = "ovl0" => page2 = tbl[2 * ovl.dest - 1]
  /\ at = "ovl1" => page2 = tbl[2 * ovl.dest] /\ {ovl.dest, ovl.bank} \subseteq over

CodeInv ==
  /\ at \in {"open", "load", "read"} => over = {}
  /\ at = "idle" => \A c \in 1..OvlBanks : 2 * c <= Len(env) => Coded(env, c)
  /\ at \notin Over =>
       \A c \in 1..OvlBanks :
         2 * c <= Loaded => Coded(tbl, c) \/ (at = "ovl1" /\ c = ovl.dest)
  /\ at \in {"load", "read"} =>
       \A c \in 1..OvlBanks :
         Loaded = 2 * c - 1 => holds[tbl[2 * c - 1]] = [bank |-> c, half |-> 0]
  /\ at = "ovl1" => holds[tbl[2 * ovl.dest - 1]] = [bank |-> ovl.bank, half |-> 0]

IndexInv ==
  /\ at = "open" => \A b \in 1..OvlBanks : idx[b] = <<>>
  /\ at \in {"load", "read"} =>
       \A b \in 1..OvlBanks :
         idx[b] = IF 2 * b <= Len(tbl) THEN Pair(tbl, b)
                  ELSE IF 2 * b - 1 = Len(tbl) THEN <<tbl[2 * b - 1]>> ELSE <<>>
  /\ at \in {"ready"} \cup InMain =>
       \A b \in 1..OvlBanks :
         /\ b <= bankMax => idx[b] # <<>>
         /\ b <= bankMax /\ b \notin over => idx[b] = Pair(tbl, b)
         /\ idx[b] = <<>> \/ \E c \in 1..bankMax : idx[b] = Pair(tbl, c)

ScratchInv ==
  at \in {"load", "read", "ready"} \cup InMain =>
    \A c \in 1..OvlBanks : 2 * c - 1 <= Loaded => scratch[tbl[2 * c - 1]] = run

Code == PlacesInv /\ CodeInv /\ IndexInv /\ ScratchInv

-----------------------------------------------------------------------------
(* Halves of banks and places of a table: n places are c banks, and maybe  *)
(* the first half of one more.                                             *)
LEMMA Halving ==
  ASSUME NEW n \in Nat
  PROVE  \E c \in Nat : \/ n = 2 * c /\ n \div 2 = c /\ n % 2 = 0
                        \/ n = 2 * c + 1 /\ n \div 2 = c /\ n % 2 = 1
<1>1. n \div 2 \in Nat /\ n % 2 \in {0, 1} /\ n = 2 * (n \div 2) + (n % 2)
  OBVIOUS
<1> QED
  BY <1>1

LEMMA AppendOne ==
  ASSUME NEW S, NEW a \in S, NEW b \in S
  PROVE  Append(<<a>>, b) = <<a, b>>
<1>1. <<a>> \in Seq(S) /\ <<a, b>> \in Seq(S) /\ Len(<<a>>) = 1 /\ Len(<<a, b>>) = 2
  OBVIOUS
<1>2. /\ Append(<<a>>, b) \in Seq(S) /\ Len(Append(<<a>>, b)) = 2
      /\ Append(<<a>>, b)[1] = a /\ Append(<<a>>, b)[2] = b
  BY <1>1, AppendProperties
<1>3. <<a, b>>[1] = a /\ <<a, b>>[2] = b /\ \A i \in 1..2 : i = 1 \/ i = 2
  OBVIOUS
<1>4. \A i \in 1..2 : Append(<<a>>, b)[i] = <<a, b>>[i]
  BY <1>2, <1>3
<1> QED
  BY <1>1, <1>2, <1>4, SeqEqual

LEMMA CodeInit == Init => Code
<1> SUFFICES ASSUME Init PROVE Code
  OBVIOUS
<1>1. at = "idle" /\ env = <<>> /\ Len(<<>>) = 0
  BY DEF Init
<1>2. PlacesInv
  BY <1>1 DEF PlacesInv, OnePlace, Over
<1>3. CodeInv
  <2>1. \A c \in 1..OvlBanks : ~(2 * c <= 0)
    BY LoaderAssumption
  <2> QED
    BY <1>1, <2>1 DEF CodeInv, Over
<1>4. IndexInv /\ ScratchInv
  BY <1>1 DEF IndexInv, ScratchInv, InMain
<1> QED
  BY <1>2, <1>3, <1>4 DEF Code

(* The parts of Loaded and Coded that a step leaves alone.                 *)
LEMMA CodedStays ==
  ASSUME NEW t, NEW c, Coded(t, c),
         holds'[t[2 * c - 1]] = holds[t[2 * c - 1]], holds'[t[2 * c]] = holds[t[2 * c]],
         c \notin over' => c \notin over
  PROVE  \E b \in 1..OvlBanks : /\ holds'[t[2 * c - 1]] = [bank |-> b, half |-> 0]
                                /\ holds'[t[2 * c]] = [bank |-> b, half |-> 1]
                                /\ c \notin over' => b = c
  BY DEF Coded

(* Steps into main(), within it and out of it that write to no segment.    *)
LEMMA CodeStays ==
  ASSUME IInv, Code, at \in {"ready", "main"} \/ (at = "load" /\ Len(tbl) = 2 * bankMax),
         at' \in {"main", "exit"},
         UNCHANGED <<holds, scratch, run, tbl, bankMax, idx, over>>
  PROVE  Code'
<1>1. /\ at \notin Over \cup {"open", "read", "ovl0", "ovl1"}
      /\ at' \notin Over \cup {"open", "load", "read", "ready", "ovl0", "ovl1"}
  BY DEF Over
<1>2. Loaded = Len(tbl) /\ Loaded' = Len(tbl)
  BY <1>1 DEF Loaded
<1>3. PlacesInv'
  BY <1>1 DEF Code, PlacesInv, OnePlace, Over
<1>4. CodeInv'
  <2>1. \A c \in 1..OvlBanks : 2 * c <= Len(tbl) => Coded(tbl, c)
    BY <1>1, <1>2 DEF Code, CodeInv
  <2>2. \A c \in 1..OvlBanks : 2 * c <= Len(tbl) => Coded(tbl, c)'
    BY <2>1 DEF Coded
  <2> QED
    BY <1>1, <1>2, <2>2 DEF CodeInv, Over
<1>5. ScratchInv'
  BY <1>1, <1>2 DEF Code, ScratchInv, InMain
<1>6. IndexInv'
  <2>1. CASE at = "load"
    <3>1. /\ Len(tbl) = 2 * bankMax /\ bankMax \in 0..OvlBanks /\ OvlBanks \in Nat
          /\ \A b \in 1..OvlBanks :
               idx[b] = IF 2 * b <= Len(tbl) THEN Pair(tbl, b)
                        ELSE IF 2 * b - 1 = Len(tbl) THEN <<tbl[2 * b - 1]>> ELSE <<>>
      BY <2>1, LoaderAssumption DEF Code, IndexInv, IInv, TypesInv
    <3>2. ASSUME NEW b \in 1..OvlBanks
          PROVE  IF b <= bankMax THEN idx[b] = Pair(tbl, b) ELSE idx[b] = <<>>
      <4>1. b \in Nat /\ bankMax \in Nat
        BY <3>1
      <4>2. (2 * b <= 2 * bankMax <=> b <= bankMax) /\ 2 * b - 1 # 2 * bankMax
        BY <4>1
      <4>3. /\ Len(tbl) = 2 * bankMax
            /\ idx[b] = IF 2 * b <= Len(tbl) THEN Pair(tbl, b)
                        ELSE IF 2 * b - 1 = Len(tbl) THEN <<tbl[2 * b - 1]>> ELSE <<>>
        BY <3>1
      <4> QED
        BY <4>2, <4>3
    <3>3. \A b \in 1..OvlBanks : b <= bankMax => b \in 1..bankMax /\ Pair(tbl, b) # <<>>
      BY <3>1 DEF Pair
    <3> QED
      BY <1>1, <3>2, <3>3 DEF IndexInv, InMain, Pair
  <2>2. CASE at # "load"
    BY <1>1, <2>2 DEF Code, IndexInv, InMain, Pair
  <2> QED
    BY <2>1, <2>2
<1> QED
  BY <1>3, <1>4, <1>5, <1>6 DEF Code

(* Steps back to DOS: a table in the environment is that of this run.      *)
LEMMA CodeRests ==
  ASSUME IInv, Code, at' = "idle", env' = <<>> \/ (at = "exit" /\ env' = tbl),
         UNCHANGED <<holds, over>>
  PROVE  Code'
<1>1. Len(<<>>) = 0 /\ \A c \in 1..OvlBanks : ~(2 * c <= 0)
  BY LoaderAssumption
<1>2. CASE env' = <<>>
  BY <1>1, <1>2 DEF Code, PlacesInv, CodeInv, IndexInv, ScratchInv, OnePlace, Over, InMain
<1>3. CASE at = "exit" /\ env' = tbl
  <2>1. \A c \in 1..OvlBanks : 2 * c <= Len(tbl) => Coded(tbl, c)
    BY <1>3 DEF Code, CodeInv, Loaded, Over
  <2>2. \A c \in 1..OvlBanks : 2 * c <= Len(env') => Coded(env, c)'
    BY <1>3, <2>1 DEF Coded
  <2>3. OnePlace(env')
    BY <1>3 DEF Code, PlacesInv, OnePlace, Over
  <2> QED
    BY <2>2, <2>3 DEF Code, PlacesInv, CodeInv, IndexInv, ScratchInv, OnePlace, Over, InMain
<1> QED
  BY <1>2, <1>3

-----------------------------------------------------------------------------
LEMMA CodeStart ==
  ASSUME IInv, Code, Start
  PROVE  Code'
<1>1. /\ at = "idle" /\ holds' = holds /\ tbl' = env /\ at' \in {"open", "resume"}
      /\ at' = "open" => env = <<>> /\ over' = {}
      /\ at' = "resume" => over' = over
      /\ \A b \in 1..OvlBanks : idx'[b] = <<>>
  BY DEF Start, mapper, IInv, KeptInv
<1>2. Loaded' = Len(env) /\ Len(<<>>) = 0 /\ \A c \in 1..OvlBanks : ~(2 * c <= 0)
  BY <1>1, LoaderAssumption DEF Loaded
<1>3. PlacesInv'
  BY <1>1 DEF Code, PlacesInv, OnePlace, Over
<1>4. CodeInv'
  <2>1. \A c \in 1..OvlBanks : 2 * c <= Len(env) => Coded(env, c)
    BY <1>1 DEF Code, CodeInv
  <2>2. ASSUME NEW c \in 1..OvlBanks, 2 * c <= Len(env)
        PROVE  Coded(tbl, c)'
    <3>1. env # <<>> /\ at' = "resume"
      BY <1>1, <1>2, <2>2
    <3> QED
      BY <1>1, <2>1, <2>2, <3>1 DEF Coded
  <2> QED
    BY <1>1, <1>2, <2>2 DEF CodeInv, Over
<1>5. IndexInv' /\ ScratchInv'
  BY <1>1 DEF IndexInv, ScratchInv, InMain
<1> QED
  BY <1>3, <1>4, <1>5 DEF Code

LEMMA CodeOpen ==
  ASSUME IInv, Code, Open \/ OpenFails
  PROVE  Code'
<1>1. /\ at = "open" /\ UNCHANGED <<holds, env, tbl, idx, over>> /\ at' \in {"idle", "load"}
  BY DEF Open, OpenFails, ToDos, dos, mem
<1>2. tbl = <<>> /\ env = <<>> /\ Len(<<>>) = 0
  BY <1>1 DEF IInv, TableInv, Over
<1>3. CASE at' = "idle"
  BY <1>1, <1>2, <1>3, CodeRests
<1>4. CASE at' = "load"
  <2>1. Loaded' = 0 /\ Len(tbl') = 0
    BY <1>1, <1>2, <1>4 DEF Loaded
  <2>2. \A c \in 1..OvlBanks : ~(2 * c <= 0) /\ ~(2 * c - 1 <= 0) /\ 0 # 2 * c - 1
    BY LoaderAssumption
  <2>3. PlacesInv'
    BY <1>4, <2>1 DEF PlacesInv, OnePlace
  <2>4. CodeInv'
    BY <1>1, <1>4, <2>1, <2>2 DEF Code, CodeInv, Over
  <2>5. IndexInv' /\ ScratchInv'
    BY <1>1, <1>4, <2>1, <2>2 DEF Code, IndexInv, ScratchInv, InMain
  <2> QED
    BY <2>3, <2>4, <2>5 DEF Code
<1> QED
  BY <1>1, <1>3, <1>4

-----------------------------------------------------------------------------
(* Loading and resuming.                                                   *)
LEMMA CodeLoadAlloc ==
  ASSUME IInv, Code, LoadAlloc
  PROVE  Code'
<1>1. /\ at = "load" /\ at' = "read" /\ UNCHANGED <<holds, scratch, env, run, over>>
      /\ Len(tbl) \in Nat
  BY LenProperties DEF LoadAlloc, dos, IInv, TypesInv
<1>2. Len(tbl) < 2 * bankMax /\ bankMax \in 0..OvlBanks /\ OvlBanks \in Nat /\ tbl \in Seq(Seg)
  BY LoaderAssumption DEF LoadAlloc, IInv, TypesInv
<1>3. PICK seg \in Free : /\ tbl' = Append(tbl, seg) /\ page2' = seg /\ seg \notin SegsOf(tbl)
                          /\ SetEntry(Len(tbl) \div 2 + 1, Len(tbl) % 2, seg)
  BY <1>1, <1>2, LoadFinds DEF LoadAlloc
<1> DEFINE n == Len(tbl)
<1>4. /\ Len(tbl') = n + 1 /\ tbl'[n + 1] = seg /\ n \in Nat
      /\ \A i \in 1..n : tbl'[i] = tbl[i] /\ tbl[i] # seg
  <2>1. seg \in Seg /\ (\A i \in 1..n : tbl[i] \in SegsOf(tbl))
    BY <1>2, <1>3, SegsFacts DEF Free
  <2>2. /\ Len(Append(tbl, seg)) = n + 1 /\ Append(tbl, seg)[n + 1] = seg
        /\ \A i \in 1..n : Append(tbl, seg)[i] = tbl[i]
    BY <1>2, <2>1, AppendProperties
  <2> QED
    BY <1>1, <1>3, <2>1, <2>2
<1>5. Loaded = n /\ Loaded' = n
  BY <1>1, <1>4 DEF Loaded
<1> HIDE DEF n
<1>6. PlacesInv'
  <2>1. \A i, j \in 1..n : tbl[i] = tbl[j] => i = j
    BY <1>1 DEF Code, PlacesInv, OnePlace, Over, n
  <2>2. \A i \in 1..n + 1 : i \in 1..n \/ i = n + 1
    BY <1>4
  <2>3. OnePlace(tbl')
    BY <1>4, <2>1, <2>2 DEF OnePlace
  <2> QED
    BY <1>1, <1>3, <1>4, <2>3 DEF PlacesInv
<1>7. \A c \in 1..OvlBanks : /\ 2 * c <= n => 2 * c - 1 \in 1..n /\ 2 * c \in 1..n
                             /\ 2 * c - 1 <= n => 2 * c - 1 \in 1..n
  BY <1>2, <1>4
<1>8. CodeInv'
  <2>1. ASSUME NEW c \in 1..OvlBanks, 2 * c <= n
        PROVE  Coded(tbl, c)'
    <3>1. Coded(tbl, c)
      BY <1>1, <1>5, <2>1 DEF Code, CodeInv, Over
    <3>2. tbl'[2 * c - 1] = tbl[2 * c - 1] /\ tbl'[2 * c] = tbl[2 * c]
      BY <1>4, <1>7, <2>1
    <3> QED
      BY <1>1, <3>1, <3>2 DEF Coded
  <2>2. ASSUME NEW c \in 1..OvlBanks, n = 2 * c - 1
        PROVE  holds'[tbl'[2 * c - 1]] = [bank |-> c, half |-> 0]
    <3>1. holds[tbl[2 * c - 1]] = [bank |-> c, half |-> 0]
      BY <1>1, <1>5, <2>2 DEF Code, CodeInv
    <3>2. tbl'[2 * c - 1] = tbl[2 * c - 1]
      BY <1>4, <1>7, <2>2
    <3> QED
      BY <1>1, <3>1, <3>2
  <2> QED
    BY <1>1, <1>5, <2>1, <2>2 DEF Code, CodeInv
<1>9. ScratchInv'
  <2>1. ASSUME NEW c \in 1..OvlBanks, 2 * c - 1 <= n
        PROVE  scratch'[tbl'[2 * c - 1]] = run'
    <3>1. scratch[tbl[2 * c - 1]] = run
      BY <1>1, <1>5, <2>1 DEF Code, ScratchInv
    <3>2. tbl'[2 * c - 1] = tbl[2 * c - 1]
      BY <1>4, <1>7, <2>1
    <3> QED
      BY <1>1, <3>1, <3>2
  <2> QED
    BY <1>5, <2>1 DEF ScratchInv
<1>10. IndexInv'
  <2>1. \A b \in 1..OvlBanks :
          idx[b] = IF 2 * b <= n THEN Pair(tbl, b)
                   ELSE IF 2 * b - 1 = n THEN <<tbl[2 * b - 1]>> ELSE <<>>
    BY <1>1 DEF Code, IndexInv, n
  <2>2. PICK c \in Nat : \/ n = 2 * c /\ n \div 2 = c /\ n % 2 = 0
                         \/ n = 2 * c + 1 /\ n \div 2 = c /\ n % 2 = 1
    BY <1>4, Halving
  <2>3. c + 1 \in 1..OvlBanks
    BY <1>2, <2>2 DEF n
  <2>4. idx' = [idx EXCEPT ![c + 1] = IF n % 2 = 0 THEN <<seg>> ELSE Append(@, seg)]
    BY <1>3, <2>2 DEF SetEntry, n
  <2>5. ASSUME NEW b \in 1..OvlBanks, b # c + 1
        PROVE  idx'[b] = IF 2 * b <= n + 1 THEN Pair(tbl', b)
                         ELSE IF 2 * b - 1 = n + 1 THEN <<tbl'[2 * b - 1]>> ELSE <<>>
    <3>1. idx'[b] = idx[b]
      BY <2>4, <2>5 DEF IInv, TypesInv
    <3>2. 2 * b - 1 # n /\ 2 * b - 1 # n + 1 /\ (2 * b <= n + 1 <=> 2 * b <= n)
      BY <1>2, <2>2, <2>5
    <3>3. 2 * b <= n => Pair(tbl', b) = Pair(tbl, b)
      BY <1>4, <1>7 DEF Pair
    <3> QED
      BY <2>1, <3>1, <3>2, <3>3
  <2>6. idx'[c + 1] = IF 2 * (c + 1) <= n + 1 THEN Pair(tbl', c + 1) ELSE <<tbl'[2 * (c + 1) - 1]>>
    <3>1. CASE n = 2 * c /\ n % 2 = 0
      <4>1. idx'[c + 1] = <<seg>>
        BY <2>3, <2>4, <3>1 DEF IInv, TypesInv
      <4>2. ~(2 * (c + 1) <= n + 1) /\ 2 * (c + 1) - 1 = n + 1
        BY <3>1
      <4> QED
        BY <1>4, <4>1, <4>2
    <3>2. CASE n = 2 * c + 1 /\ n % 2 = 1
      <4>1. ~(2 * (c + 1) <= n) /\ 2 * (c + 1) - 1 = n /\ 2 * (c + 1) = n + 1 /\ n \in 1..n
        BY <1>4, <3>2
      <4>2. idx[c + 1] = <<tbl[n]>>
        BY <2>1, <2>3, <4>1
      <4>3. idx'[c + 1] = <<tbl[n], seg>>
        <5>1. idx'[c + 1] = Append(idx[c + 1], seg)
          BY <2>3, <2>4, <3>2 DEF IInv, TypesInv
        <5>2. tbl[n] \in Seg /\ seg \in Seg
          BY <1>2, <1>3, <4>1, ElementOfSeq DEF Free, n
        <5>3. Append(<<tbl[n]>>, seg) = <<tbl[n], seg>>
          BY <5>2, AppendOne
        <5> QED
          BY <4>2, <5>1, <5>3
      <4>4. Pair(tbl', c + 1) = <<tbl[n], seg>>
        BY <1>4, <4>1 DEF Pair
      <4> QED
        BY <4>1, <4>3, <4>4
    <3> QED
      BY <2>2, <3>1, <3>2
  <2>7. 2 * (c + 1) <= n + 1 \/ 2 * (c + 1) - 1 = n + 1
    BY <2>2
  <2>8. \A b \in 1..OvlBanks :
          idx'[b] = IF 2 * b <= n + 1 THEN Pair(tbl', b)
                    ELSE IF 2 * b - 1 = n + 1 THEN <<tbl'[2 * b - 1]>> ELSE <<>>
    BY <2>5, <2>6, <2>7
  <2> QED
    BY <1>1, <1>4, <2>8 DEF IndexInv, InMain, Pair
<1> QED
  BY <1>6, <1>8, <1>9, <1>10 DEF Code

LEMMA CodeLoadRead ==
  ASSUME IInv, Code, LoadRead
  PROVE  Code'
<1> DEFINE n == Len(tbl)
<1>1. /\ at = "read" /\ at' = "load" /\ UNCHANGED <<env, run, tbl, idx, over>>
      /\ Fill(page2, (n - 1) \div 2 + 1, (n - 1) % 2) /\ page2 = tbl[n]
      /\ n \in Nat /\ n > 0 /\ page2 \in Seg /\ tbl \in Seq(Seg)
      /\ n <= 2 * bankMax /\ bankMax \in 0..OvlBanks /\ OvlBanks \in Nat
  BY LenProperties, LoaderAssumption
  DEF LoadRead, dos, Code, PlacesInv, PageInv, IInv, TypesInv, TableInv, Over
<1>2. \A i, j \in 1..n : tbl[i] = tbl[j] => i = j
  BY <1>1 DEF Code, PlacesInv, OnePlace, Over
<1>3. \A i \in 1..n : tbl[i] \in Seg
  BY <1>1, ElementOfSeq
<1>4. Loaded = n - 1 /\ Loaded' = n
  BY <1>1 DEF Loaded
<1>5. PICK k \in Nat : \/ n - 1 = 2 * k /\ (n - 1) \div 2 = k /\ (n - 1) % 2 = 0
                       \/ n - 1 = 2 * k + 1 /\ (n - 1) \div 2 = k /\ (n - 1) % 2 = 1
  BY <1>1, Halving
<1> DEFINE h == (n - 1) % 2
<1>6. /\ holds'[tbl[n]] = [bank |-> k + 1, half |-> h]
      /\ \A i \in 1..n : i # n => holds'[tbl[i]] = holds[tbl[i]]
      /\ h = 0 => scratch'[tbl[n]] = run
      /\ \A i \in 1..n : i # n => scratch'[tbl[i]] = scratch[tbl[i]]
  <2>1. /\ n \in 1..n /\ (\A i \in 1..n : i # n => tbl[i] # tbl[n])
        /\ (\A i \in 1..n : tbl[i] \in Seg \cup {Bad}) /\ (n - 1) \div 2 + 1 = k + 1
    BY <1>1, <1>2, <1>3, <1>5
  <2>2. /\ holds' = [holds EXCEPT ![tbl[n]] = [bank |-> k + 1, half |-> h]]
        /\ scratch' = IF h = 0 THEN [scratch EXCEPT ![tbl[n]] = run] ELSE scratch
    BY <1>1, <2>1 DEF Fill
  <2>3. /\ holds \in [Seg \cup {Bad} -> [bank : 0..OvlBanks, half : {0, 1}]]
        /\ scratch \in [Seg \cup {Bad} -> 0..MaxRuns]
    BY DEF IInv, TypesInv
  <2> HIDE DEF n, h
  <2> QED
    BY <2>1, <2>2, <2>3
<1>7. (h = 0 /\ n - 1 = 2 * k) \/ (h = 1 /\ n - 1 = 2 * k + 1)
  BY <1>5
<1> HIDE DEF n, h
<1>8. k + 1 \in 1..OvlBanks
  BY <1>1, <1>7
<1>9. PlacesInv'
  BY <1>1 DEF Code, PlacesInv, OnePlace, Over
<1>10. \A c \in 1..OvlBanks : 2 * c <= n - 1 => Coded(tbl, c)
  BY <1>1, <1>4 DEF Code, CodeInv, Over
<1>11. CodeInv'
  <2>1. ASSUME NEW c \in 1..OvlBanks, 2 * c <= n
        PROVE  Coded(tbl, c)'
    <3>1. CASE 2 * c <= n - 1
      <4>1. /\ 2 * c - 1 \in 1..n /\ 2 * c - 1 # n /\ 2 * c \in 1..n /\ 2 * c # n
        BY <1>1, <3>1
      <4> QED
        BY <1>1, <1>6, <1>10, <3>1, <4>1, CodedStays DEF Coded
    <3>2. CASE ~(2 * c <= n - 1)
      <4>1. 2 * c = n /\ k + 1 = c /\ h = 1 /\ 2 * c - 1 \in 1..n /\ 2 * c - 1 # n /\ n - 1 = 2 * c - 1
        BY <1>1, <1>5, <1>7, <2>1, <3>2
      <4>2. holds[tbl[2 * c - 1]] = [bank |-> c, half |-> 0]
        BY <1>1, <1>4, <4>1 DEF Code, CodeInv
      <4>3. holds'[tbl[2 * c - 1]] = [bank |-> c, half |-> 0]
        BY <1>6, <4>1, <4>2
      <4>4. holds'[tbl[2 * c]] = [bank |-> c, half |-> 1]
        BY <1>6, <4>1
      <4> QED
        BY <1>1, <4>3, <4>4 DEF Coded
    <3> QED
      BY <3>1, <3>2
  <2>2. ASSUME NEW c \in 1..OvlBanks, n = 2 * c - 1
        PROVE  holds'[tbl'[2 * c - 1]] = [bank |-> c, half |-> 0]
    <3>1. k + 1 = c /\ h = 0
      BY <1>1, <1>5, <1>7, <2>2
    <3> QED
      BY <1>1, <1>6, <2>2, <3>1
  <2> QED
    BY <1>1, <1>4, <2>1, <2>2 DEF Code, CodeInv
<1>12. IndexInv'
  BY <1>1 DEF Code, IndexInv, InMain, Pair
<1>13. ScratchInv'
  <2>1. ASSUME NEW c \in 1..OvlBanks, 2 * c - 1 <= n
        PROVE  scratch'[tbl'[2 * c - 1]] = run'
    <3>1. CASE 2 * c - 1 <= n - 1
      <4>1. scratch[tbl[2 * c - 1]] = run
        BY <1>1, <1>4, <3>1 DEF Code, ScratchInv
      <4>2. 2 * c - 1 \in 1..n /\ 2 * c - 1 # n
        BY <1>1, <3>1
      <4> QED
        BY <1>1, <1>6, <4>1, <4>2
    <3>2. CASE ~(2 * c - 1 <= n - 1)
      <4>1. 2 * c - 1 = n /\ h = 0
        BY <1>1, <1>5, <1>7, <2>1, <3>2
      <4> QED
        BY <1>1, <1>6, <4>1
    <3> QED
      BY <3>1, <3>2
  <2> QED
    BY <1>4, <2>1 DEF ScratchInv
<1> QED
  BY <1>9, <1>11, <1>12, <1>13 DEF Code

LEMMA CodeResume ==
  ASSUME IInv, Code, Resume
  PROVE  Code'
<1>1. /\ at = "resume" /\ at' = "ready" /\ UNCHANGED <<holds, env, run, tbl, bankMax, over>>
      /\ Len(tbl) = 2 * bankMax /\ bankMax \in 0..OvlBanks /\ OvlBanks \in Nat /\ tbl \in Seq(Seg)
  <2>1. at = "resume" /\ at' = "ready" /\ UNCHANGED <<holds, env, run, tbl, bankMax, over>>
    BY DEF Resume, dos
  <2>2. TypesInv /\ TableInv
    BY DEF IInv
  <2>3. bankMax \in 0..OvlBanks /\ tbl \in Seq(Seg)
    BY <2>2 DEF TypesInv
  <2>4. OvlBanks \in Nat
    BY LoaderAssumption
  <2>5. Len(tbl) = 2 * bankMax
    BY <2>1, <2>2 DEF TableInv, Over
  <2> QED
    BY <2>1, <2>3, <2>4, <2>5
<1>2. Loaded = Len(tbl) /\ Loaded' = Len(tbl)
  BY <1>1 DEF Loaded
<1>3. PlacesInv'
  BY <1>1 DEF Code, PlacesInv, OnePlace, Over
<1>4. CodeInv'
  <2>1. \A c \in 1..OvlBanks : 2 * c <= Len(tbl) => Coded(tbl, c)
    BY <1>1, <1>2 DEF Code, CodeInv, Over
  <2>2. \A c \in 1..OvlBanks : 2 * c <= Len(tbl) => Coded(tbl, c)'
    BY <1>1, <2>1 DEF Coded
  <2> QED
    BY <1>1, <1>2, <2>2 DEF CodeInv, Over
<1>5. ASSUME NEW b \in 1..OvlBanks
      PROVE  idx'[b] = IF b <= bankMax THEN Pair(tbl, b) ELSE <<>>
  BY DEF Resume, Pair
<1>6. IndexInv'
  <2>1. \A b \in 1..OvlBanks : b <= bankMax => b \in 1..bankMax /\ Pair(tbl, b) # <<>>
    BY <1>1 DEF Pair
  <2> QED
    BY <1>1, <1>5, <2>1 DEF IndexInv, InMain, Pair
<1>7. ScratchInv'
  <2>1. ASSUME NEW c \in 1..OvlBanks, 2 * c - 1 <= Len(tbl)
        PROVE  scratch'[tbl'[2 * c - 1]] = run'
    <3>1. c \in 1..bankMax /\ 2 * c - 1 \in 1..Len(tbl)
      BY <1>1, <2>1
    <3>2. tbl[2 * c - 1] \in Seg
      BY <1>1, <3>1, ElementOfSeq
    <3> QED
      BY <1>1, <3>1, <3>2 DEF Resume
  <2> QED
    BY <1>2, <2>1 DEF ScratchInv
<1> QED
  BY <1>3, <1>4, <1>6, <1>7 DEF Code

-----------------------------------------------------------------------------
(* Overlays.                                                               *)
LEMMA CodeOverlayBegin ==
  ASSUME IInv, Code, NEW dest \in 1..bankMax, NEW bank \in 1..OvlBanks, OverlayBegin(dest, bank)
  PROVE  Code'
<1>1. /\ at = "main" /\ at' = "ovl0" /\ page2' = tbl[2 * dest - 1] /\ ovl'.dest = dest
      /\ UNCHANGED <<holds, scratch, run, tbl, bankMax, idx, over>>
  BY DEF OverlayBegin, mapper, mem
<1>2. Loaded = Len(tbl) /\ Loaded' = Len(tbl)
  BY <1>1 DEF Loaded
<1>3. PlacesInv'
  BY <1>1 DEF Code, PlacesInv, OnePlace, Over
<1>4. CodeInv'
  <2>1. \A c \in 1..OvlBanks : 2 * c <= Len(tbl) => Coded(tbl, c)
    BY <1>1, <1>2 DEF Code, CodeInv, Over
  <2>2. \A c \in 1..OvlBanks : 2 * c <= Len(tbl) => Coded(tbl, c)'
    BY <1>1, <2>1 DEF Coded
  <2> QED
    BY <1>1, <1>2, <2>2 DEF CodeInv, Over
<1>5. IndexInv' /\ ScratchInv'
  BY <1>1, <1>2 DEF Code, IndexInv, ScratchInv, InMain, Pair
<1> QED
  BY <1>3, <1>4, <1>5 DEF Code

(* What an overlay's read() finds and writes: one place of bank dest.      *)
LEMMA OverlayFill ==
  ASSUME IInv, Code, at \in {"ovl0", "ovl1"}, NEW half \in {0, 1}, Fill(page2, ovl.bank, half)
  PROVE  LET d == ovl.dest
             p == IF at = "ovl0" THEN 2 * d - 1 ELSE 2 * d
         IN /\ d \in 1..bankMax /\ d \in 1..OvlBanks /\ ovl.bank \in 1..OvlBanks
            /\ Len(tbl) = 2 * bankMax /\ bankMax \in Nat /\ Loaded = Len(tbl)
            /\ p \in 1..Len(tbl)
            /\ holds'[tbl[p]] = [bank |-> ovl.bank, half |-> half]
            /\ half = 0 => scratch'[tbl[p]] = run
            /\ \A i \in 1..Len(tbl) :
                 i # p => holds'[tbl[i]] = holds[tbl[i]] /\ scratch'[tbl[i]] = scratch[tbl[i]]
<1> DEFINE d == ovl.dest
           p == IF at = "ovl0" THEN 2 * d - 1 ELSE 2 * d
<1>1. /\ d \in 1..bankMax /\ ovl.bank \in 1..OvlBanks /\ bankMax \in 0..OvlBanks /\ OvlBanks \in Nat
      /\ tbl \in Seq(Seg) /\ page2 = tbl[p]
  <2>a. TypesInv /\ PageInv
    BY DEF IInv
  <2>b. OvlBanks \in Nat
    BY LoaderAssumption
  <2>c. d \in 1..bankMax /\ ovl.bank \in 1..OvlBanks
    BY <2>a DEF PageInv
  <2>d. bankMax \in 0..OvlBanks /\ tbl \in Seq(Seg)
    BY <2>a DEF TypesInv
  <2>1. /\ d \in 1..bankMax /\ ovl.bank \in 1..OvlBanks /\ bankMax \in 0..OvlBanks
        /\ OvlBanks \in Nat /\ tbl \in Seq(Seg)
    BY <2>b, <2>c, <2>d
  <2>2. PlacesInv
    BY DEF Code
  <2>3. CASE at = "ovl0"
    BY <2>1, <2>2, <2>3 DEF PlacesInv
  <2>4. CASE at = "ovl1"
    BY <2>1, <2>2, <2>4 DEF PlacesInv
  <2> QED
    BY <2>3, <2>4
<1>2. Len(tbl) = 2 * bankMax /\ Loaded = Len(tbl)
  BY MainFacts DEF InMain, Loaded
<1>3. p \in 1..Len(tbl) /\ d \in 1..OvlBanks /\ bankMax \in Nat
  BY <1>1, <1>2
<1>4. \A i, j \in 1..Len(tbl) : tbl[i] = tbl[j] => i = j
  BY DEF Code, PlacesInv, OnePlace, Over
<1>5. \A i \in 1..Len(tbl) : tbl[i] \in Seg \cup {Bad}
  BY <1>1, ElementOfSeq
<1>6. /\ holds \in [Seg \cup {Bad} -> [bank : 0..OvlBanks, half : {0, 1}]]
      /\ scratch \in [Seg \cup {Bad} -> 0..MaxRuns]
  BY DEF IInv, TypesInv
<1>7. /\ holds' = [holds EXCEPT ![tbl[p]] = [bank |-> ovl.bank, half |-> half]]
      /\ scratch' = IF half = 0 THEN [scratch EXCEPT ![tbl[p]] = run] ELSE scratch
  BY <1>1 DEF Fill
<1> HIDE DEF p
<1>8. /\ holds'[tbl[p]] = [bank |-> ovl.bank, half |-> half]
      /\ half = 0 => scratch'[tbl[p]] = run
      /\ \A i \in 1..Len(tbl) :
           i # p => holds'[tbl[i]] = holds[tbl[i]] /\ scratch'[tbl[i]] = scratch[tbl[i]]
  BY <1>3, <1>4, <1>5, <1>6, <1>7
<1> QED
  BY <1>1, <1>2, <1>3, <1>8 DEF p

LEMMA CodeOverlayRead0 ==
  ASSUME IInv, Code, OverlayRead0
  PROVE  Code'
<1> DEFINE d == ovl.dest
<1>1. /\ at = "ovl0" /\ at' = "ovl1" /\ UNCHANGED <<run, tbl, bankMax, idx, ovl>>
      /\ Fill(page2, ovl.bank, 0) /\ page2' = tbl[2 * d]
      /\ over' = over \cup {d, ovl.bank}
  BY DEF OverlayRead0, mem
<1>2. /\ d \in 1..OvlBanks /\ Len(tbl) = 2 * bankMax /\ bankMax \in Nat /\ Loaded = Len(tbl)
      /\ 2 * d - 1 \in 1..Len(tbl)
      /\ holds'[tbl[2 * d - 1]] = [bank |-> ovl.bank, half |-> 0]
      /\ scratch'[tbl[2 * d - 1]] = run
      /\ \A i \in 1..Len(tbl) :
           i # 2 * d - 1 => holds'[tbl[i]] = holds[tbl[i]] /\ scratch'[tbl[i]] = scratch[tbl[i]]
  BY <1>1, OverlayFill
<1>3. Loaded' = Len(tbl)
  BY <1>1 DEF Loaded
<1> HIDE DEF d
<1>4. PlacesInv'
  BY <1>1 DEF Code, PlacesInv, OnePlace, Over, d
<1>5. ASSUME NEW c \in 1..OvlBanks, 2 * c <= Len(tbl), c # d
      PROVE  Coded(tbl, c)'
  <2>1. 2 * c - 1 \in 1..Len(tbl) /\ 2 * c \in 1..Len(tbl) /\ 2 * c - 1 # 2 * d - 1 /\ 2 * c # 2 * d - 1
    BY <1>2, <1>5
  <2>2. Coded(tbl, c)
    BY <1>1, <1>2, <1>5 DEF Code, CodeInv, Over
  <2>3. holds'[tbl[2 * c - 1]] = holds[tbl[2 * c - 1]] /\ holds'[tbl[2 * c]] = holds[tbl[2 * c]]
    BY <1>2, <2>1
  <2> QED
    BY <1>1, <2>2, <2>3 DEF Coded
<1>6. CodeInv'
  BY <1>1, <1>2, <1>3, <1>5 DEF CodeInv, Over, d
<1>7. IndexInv'
  BY <1>1 DEF Code, IndexInv, InMain, Pair
<1>8. ScratchInv'
  <2>1. ASSUME NEW c \in 1..OvlBanks, 2 * c - 1 <= Len(tbl)
        PROVE  scratch'[tbl[2 * c - 1]] = run
    <3>1. scratch[tbl[2 * c - 1]] = run
      BY <1>1, <1>2, <2>1 DEF Code, ScratchInv, InMain
    <3>2. 2 * c - 1 \in 1..Len(tbl)
      BY <1>2, <2>1
    <3> QED
      BY <1>2, <3>1, <3>2
  <2> QED
    BY <1>1, <1>3, <2>1 DEF ScratchInv
<1> QED
  BY <1>4, <1>6, <1>7, <1>8 DEF Code

LEMMA CodeOverlayRead1 ==
  ASSUME IInv, Code, OverlayRead1
  PROVE  Code' /\ Holds(idx[ovl.bank], ovl.bank)'
<1> DEFINE d == ovl.dest
<1>1. /\ at = "ovl1" /\ at' = "main" /\ UNCHANGED <<run, tbl, bankMax, ovl, over>>
      /\ Fill(page2, ovl.bank, 1)
      /\ idx' = [idx EXCEPT ![ovl.bank] = Pair(tbl, d)]
  BY DEF OverlayRead1, Pair
<1>2. /\ d \in 1..bankMax /\ d \in 1..OvlBanks /\ ovl.bank \in 1..OvlBanks
      /\ Len(tbl) = 2 * bankMax /\ bankMax \in Nat /\ Loaded = Len(tbl)
      /\ 2 * d \in 1..Len(tbl)
      /\ holds'[tbl[2 * d]] = [bank |-> ovl.bank, half |-> 1]
      /\ \A i \in 1..Len(tbl) :
           i # 2 * d => holds'[tbl[i]] = holds[tbl[i]] /\ scratch'[tbl[i]] = scratch[tbl[i]]
  BY <1>1, OverlayFill
<1>3. Loaded' = Len(tbl)
  BY <1>1 DEF Loaded
<1>4. /\ d \in over /\ ovl.bank \in over
      /\ holds[tbl[2 * d - 1]] = [bank |-> ovl.bank, half |-> 0]
      /\ 2 * d - 1 \in 1..Len(tbl) /\ 2 * d - 1 # 2 * d
  BY <1>1, <1>2 DEF Code, PlacesInv, CodeInv
<1>5. holds'[tbl[2 * d - 1]] = [bank |-> ovl.bank, half |-> 0]
  BY <1>2, <1>4
<1>6. \A b \in 1..OvlBanks : idx'[b] = IF b = ovl.bank THEN Pair(tbl, d) ELSE idx[b]
  BY <1>1, <1>2 DEF IInv, TypesInv
<1> HIDE DEF d
<1>7. PlacesInv'
  BY <1>1 DEF Code, PlacesInv, OnePlace, Over
<1>8. ASSUME NEW c \in 1..OvlBanks, 2 * c <= Len(tbl)
      PROVE  Coded(tbl, c)'
  <2>1. CASE c = d
    BY <1>1, <1>2, <1>4, <1>5, <2>1 DEF Coded
  <2>2. CASE c # d
    <3>1. 2 * c - 1 \in 1..Len(tbl) /\ 2 * c \in 1..Len(tbl) /\ 2 * c - 1 # 2 * d /\ 2 * c # 2 * d
      BY <1>2, <1>8, <2>2
    <3>2. Coded(tbl, c)
      BY <1>1, <1>2, <1>8, <2>2 DEF Code, CodeInv, Over, d
    <3>3. holds'[tbl[2 * c - 1]] = holds[tbl[2 * c - 1]] /\ holds'[tbl[2 * c]] = holds[tbl[2 * c]]
      BY <1>2, <3>1
    <3> QED
      BY <1>1, <3>2, <3>3 DEF Coded
  <2> QED
    BY <2>1, <2>2
<1>9. CodeInv'
  BY <1>1, <1>3, <1>8 DEF CodeInv, Over
<1>10. IndexInv'
  <2>1. \A b \in 1..OvlBanks :
          /\ b <= bankMax => idx[b] # <<>>
          /\ b <= bankMax /\ b \notin over => idx[b] = Pair(tbl, b)
          /\ idx[b] = <<>> \/ \E c \in 1..bankMax : idx[b] = Pair(tbl, c)
    BY <1>1 DEF Code, IndexInv, InMain
  <2>2. Pair(tbl, d) # <<>>
    BY DEF Pair
  <2>3. ASSUME NEW b \in 1..OvlBanks
        PROVE  /\ b <= bankMax => idx'[b] # <<>>
               /\ b <= bankMax /\ b \notin over => idx'[b] = Pair(tbl, b)
               /\ idx'[b] = <<>> \/ \E c \in 1..bankMax : idx'[b] = Pair(tbl, c)
    BY <1>2, <1>4, <1>6, <2>1, <2>2
  <2> QED
    BY <1>1, <2>3 DEF IndexInv, InMain, Pair
<1>11. ScratchInv'
  <2>1. ASSUME NEW c \in 1..OvlBanks, 2 * c - 1 <= Len(tbl)
        PROVE  scratch'[tbl[2 * c - 1]] = run
    <3>1. scratch[tbl[2 * c - 1]] = run
      BY <1>1, <1>2, <2>1 DEF Code, ScratchInv, InMain
    <3>2. 2 * c - 1 \in 1..Len(tbl) /\ 2 * c - 1 # 2 * d
      BY <1>2, <2>1
    <3> QED
      BY <1>2, <3>1, <3>2
  <2> QED
    BY <1>1, <1>3, <2>1 DEF ScratchInv
<1>12. Holds(idx[ovl.bank], ovl.bank)'
  <2>1. idx'[ovl.bank] = Pair(tbl, d)
    BY <1>2, <1>6
  <2>2. Len(Pair(tbl, d)) = 2 /\ Pair(tbl, d)[1] = tbl[2 * d - 1] /\ Pair(tbl, d)[2] = tbl[2 * d]
    BY DEF Pair
  <2> QED
    BY <1>1, <1>2, <1>5, <2>1, <2>2 DEF Holds
<1> QED
  BY <1>7, <1>9, <1>10, <1>11, <1>12 DEF Code

-----------------------------------------------------------------------------
LEMMA CodeInductive == IInv /\ Code /\ [Next]_vars => Code'
<1> SUFFICES ASSUME IInv, Code, [Next]_vars PROVE Code'
  OBVIOUS
<1>1. CASE UNCHANGED vars
  <2>1. UNCHANGED <<holds, scratch, env, at, run, tbl, bankMax, idx, page2, ovl, over>>
    BY <1>1 DEF vars, mapper, dos, mem
  <2>2. Loaded' = Loaded /\ PlacesInv' /\ IndexInv'
    BY <2>1 DEF Code, PlacesInv, IndexInv, Loaded, OnePlace, Pair, Over, InMain
  <2>3. CodeInv' /\ ScratchInv'
    BY <2>1, <2>2 DEF Code, CodeInv, ScratchInv, Coded, Over, InMain
  <2> QED
    BY <2>2, <2>3 DEF Code
<1>2. ASSUME at = "main", at' \in {"main", "exit"},
             UNCHANGED <<holds, scratch, run, tbl, bankMax, idx, over>>
      PROVE  Code'
  BY <1>2, CodeStays
<1>3. CASE MainStep
  <2>1. ASSUME NEW on \in BOOLEAN, SetTsr(on)
        PROVE  Code'
    BY <1>2, <2>1 DEF SetTsr, mapper, mem
  <2>2. ASSUME NEW pages \in 1..MaxPages, NEW sys \in BOOLEAN, LmemAlloc(pages, sys)
        PROVE  Code'
    BY <1>2, <2>2 DEF LmemAlloc
  <2>3. ASSUME NEW b \in blocks, LmemFree(b) \/ LmemExport(b)
        PROVE  Code'
    BY <1>2, <2>3 DEF LmemFree, LmemExport, mapper, mem
  <2>4. CASE LmemImport \/ ClearExport
    BY <1>2, <2>4 DEF LmemImport, ClearExport, mapper, mem
  <2> QED
    BY <1>3, <2>1, <2>2, <2>3, <2>4, CodeOverlayBegin, CodeOverlayRead0, CodeOverlayRead1
    DEF MainStep
<1>4. CASE Main
  <2>1. /\ at = "ready" \/ (at = "load" /\ Len(tbl) = 2 * bankMax)
        /\ at' = "main" /\ UNCHANGED <<holds, scratch, run, tbl, bankMax, idx, over>>
    BY <1>4 DEF Main, mapper, mem
  <2> QED
    BY <2>1, CodeStays
<1>5. CASE MainEnds
  BY <1>2, <1>5 DEF MainEnds, mapper, mem
<1>6. CASE AbortAtExit \/ ExitResident \/ ExitFree
  <2>1. at = "exit" /\ at' = "idle" /\ holds' = holds /\ over' = over
    BY <1>6 DEF AbortAtExit, ExitResident, ExitFree, ToDos
  <2>2. env' = <<>> \/ env' = tbl
    <3>1. CASE AbortAtExit
      BY <2>1, <3>1, ExitFacts DEF AbortAtExit, dos
    <3>2. CASE ExitResident
      BY <2>1, <3>2, ExitFacts, SubSeqFull DEF ExitResident
    <3>3. CASE ExitFree
      BY <2>1, <3>3, ExitFacts DEF ExitFree
    <3> QED
      BY <1>6, <3>1, <3>2, <3>3
  <2> QED
    BY <2>1, <2>2, CodeRests
<1>7. CASE DiskError
  <2>1. at' = "crashed"
    BY <1>7, LoaderAssumption DEF DiskError, IInv, PageInv
  <2> QED
    BY <2>1 DEF Code, PlacesInv, CodeInv, IndexInv, ScratchInv, Over, InMain
<1> QED
  BY <1>1, <1>3, <1>4, <1>5, <1>6, <1>7, CodeStart, CodeOpen, CodeLoadAlloc, CodeLoadRead,
     CodeResume DEF Next

LEMMA CodeAlways == Spec => [](IInv /\ Code)
<1>1. Init => IInv /\ Code
  BY LoaderInit, CodeInit
<1>2. IInv /\ Code /\ [Next]_vars => IInv' /\ Code'
  BY Inductive, CodeInductive
<1> QED
  BY <1>1, <1>2, PTL DEF Spec

(* While main() runs, the Bank index sends the call of a bank to its code, *)
(* and any of its entries to the two halves of one bank with this run's    *)
(* scratch area, and the ISR is never installed while page 2 is away, for  *)
(* any mapper, OVL file and number of runs, overlays and lmem blocks       *)
(* (bl_main, bl_overlay_seg).                                              *)
THEOREM CallsTheorem == Spec => []CallsReachCode
<1>1. IInv /\ Code => CallsReachCode
  <2> SUFFICES ASSUME IInv, Code PROVE CallsReachCode
    OBVIOUS
  <2>1. HookMapped
    BY DEF IInv, PageInv, HookMapped
  <2> SUFFICES ASSUME at = "main" PROVE CallsReachCode
    BY <2>1 DEF CallsReachCode
  <2>2. /\ Len(tbl) = 2 * bankMax /\ Loaded = 2 * bankMax
        /\ bankMax \in 0..OvlBanks /\ OvlBanks \in Nat
    <3>1. bankMax \in 0..OvlBanks
      BY DEF IInv, TypesInv
    <3>2. Len(tbl) = 2 * bankMax /\ Loaded = Len(tbl)
      BY MainFacts DEF InMain, Loaded
    <3> QED
      BY <3>1, <3>2, LoaderAssumption
  <2>3. \A c \in 1..bankMax : /\ c \in 1..OvlBanks /\ Coded(tbl, c)
                              /\ scratch[tbl[2 * c - 1]] = run
    <3>1. \A c \in 1..bankMax : c \in 1..OvlBanks /\ 2 * c <= Loaded /\ 2 * c - 1 <= Loaded
      BY <2>2
    <3> QED
      BY <3>1 DEF Code, CodeInv, ScratchInv, Over, InMain
  <2>4. \A b \in 1..OvlBanks :
          /\ b <= bankMax => idx[b] # <<>>
          /\ b <= bankMax /\ b \notin over => idx[b] = Pair(tbl, b)
          /\ idx[b] = <<>> \/ \E c \in 1..bankMax : idx[b] = Pair(tbl, c)
    BY DEF Code, IndexInv, InMain
  <2>5. \A c : /\ Len(Pair(tbl, c)) = 2
               /\ Pair(tbl, c)[1] = tbl[2 * c - 1] /\ Pair(tbl, c)[2] = tbl[2 * c]
    BY DEF Pair
  <2>6. \A c \in 1..bankMax : \E b \in 1..OvlBanks :
          Holds(Pair(tbl, c), b) /\ (c \notin over => b = c)
    BY <2>3, <2>5 DEF Coded, Holds
  <2>7. ScratchFresh
    BY <2>3, <2>4, <2>5 DEF ScratchFresh
  <2>8. \A b \in (1..bankMax) \ over : Holds(idx[b], b)
    BY <2>2, <2>4, <2>6
  <2>9. \A b \in 1..bankMax : idx[b] # <<>>
    BY <2>2, <2>4
  <2>10. \A b \in 1..OvlBanks : idx[b] # <<>> => \E c \in 1..OvlBanks : Holds(idx[b], c)
    BY <2>4, <2>6
  <2> QED
    BY <2>1, <2>7, <2>8, <2>9, <2>10 DEF CallsReachCode
<1> QED
  BY <1>1, CodeAlways, PTL

(* When bl_overlay_seg() is done, calls of the bank it was asked for reach *)
(* that bank's code.                                                       *)
THEOREM OverlayTheorem == Spec => OverlayReached
<1>1. IInv /\ Code /\ [Next]_vars =>
        [at = "ovl1" /\ at' = "main" => Holds(idx[ovl.bank], ovl.bank)']_vars
  <2> SUFFICES ASSUME IInv, Code, Next, at = "ovl1", at' = "main"
               PROVE  Holds(idx[ovl.bank], ovl.bank)'
    OBVIOUS
  <2>1. OverlayRead1
    BY DEF Next, MainStep, Start, Open, OpenFails, LoadAlloc, LoadRead, Resume, Main, SetTsr,
           LmemAlloc, LmemFree, LmemExport, LmemImport, ClearExport, OverlayBegin, OverlayRead0,
           MainEnds, AbortAtExit, ExitResident, ExitFree, DiskError
  <2> QED
    BY <2>1, CodeOverlayRead1
<1> QED
  BY <1>1, CodeAlways, PTL DEF Spec, OverlayReached

(***************************************************************************)
(* How a program starts                                                    *)
(***************************************************************************)

(* One byte of LDIR.                                                       *)
Moved(x, from, to, k) == [x EXCEPT ![(to + k - 1) % Cells] = x[(from + k - 1) % Cells]]

(* W is the memories while n bytes are moved.                              *)
Follow(W, m, from, to, n) ==
  W = [k \in 0..n |-> IF k = 0 THEN m ELSE Moved(W[k - 1], from, to, k)]

(* LDIR leaves the last of a sequence of memories, each with a byte more.  *)
LEMMA LdirFollows ==
  ASSUME NEW m, NEW from, NEW to, NEW n \in Nat \ {0}, NEW W,
         Follow(W, m, from, to, n)
  PROVE  Ldir(m, from, to, n) = W[n]
<1> DEFINE F == CHOOSE f : f = [k \in 0..n |-> IF k = 0 THEN m ELSE Moved(f[k - 1], from, to, k)]
<1>1. Ldir(m, from, to, n) = F[n]
  <2>1. (IF n = 0 THEN Cells ELSE n) = n
    OBVIOUS
  <2> QED
    BY <2>1, Zenon DEF Ldir, Moved
<1>w. W = [k \in 0..n |-> IF k = 0 THEN m ELSE Moved(W[k - 1], from, to, k)]
  BY Zenon DEF Follow
<1>2. F = [k \in 0..n |-> IF k = 0 THEN m ELSE Moved(F[k - 1], from, to, k)]
  BY <1>w, Zenon
<1> HIDE DEF F
<1> DEFINE Differ == {k \in 0..n : F[k] # W[k]}
<1>3. Differ = {}
  <2> SUFFICES ASSUME Differ # {} PROVE FALSE
    OBVIOUS
  <2>1. Differ \subseteq Nat
    OBVIOUS
  <2>2. PICK k \in Differ : \A j \in Differ : <<j, k>> \notin OpToRel(<, Nat)
    BY <2>1, NatLessThanWellFounded, WFMin
  <2>3. \A j \in Differ : ~(j < k)
    BY <2>1, <2>2, Zenon DEF OpToRel
  <2>4. k # 0
    BY <1>2, <1>w
  <2>5. k - 1 \in 0..n /\ k \in 0..n /\ k - 1 < k
    BY <2>4
  <2>6. F[k - 1] = W[k - 1]
    BY <2>3, <2>5
  <2>7. F[k] = Moved(F[k - 1], from, to, k) /\ W[k] = Moved(W[k - 1], from, to, k)
    BY <1>2, <1>w, <2>4, <2>5, Zenon
  <2> QED
    BY <2>6, <2>7
<1>4. n \in 0..n
  OBVIOUS
<1> QED
  BY <1>1, <1>3, <1>4

LEMMA Wraps ==
  ASSUME NEW a \in Nat, NEW n \in Nat, a < n
  PROVE  a % n = a
  OBVIOUS

(* m is a memory; and it is cleared.                                       *)
IsMemory(m) == m = [a \in 0..Cells - 1 |-> m[a]]
IsCleared(m, first, size) ==
  Cleared(m, first, size) = [a \in 0..Cells - 1 |-> IF a \in first..first + size - 1 THEN 0 ELSE m[a]]

(* Clearing: each byte is copied from the one before.                      *)
LEMMA ClearedFacts ==
  ASSUME NEW m, IsMemory(m), NEW first \in Nat, NEW size \in Nat, size >= 2, first + size <= Cells
  PROVE  IsCleared(m, first, size)
<1> DEFINE n == size - 1
           m0 == [m EXCEPT ![first] = 0]
           W == [k \in 0..n |-> [a \in 0..Cells - 1 |-> IF first <= a /\ a <= first + k THEN 0 ELSE m[a]]]
<1>0. Cells \in Nat
  BY StartAssumption
<1>m. m = [a \in 0..Cells - 1 |-> m[a]]
  BY Zenon DEF IsMemory
<1>1. n \in Nat \ {0}
  OBVIOUS
<1>2. W[0] = m0
  <2>1. W[0] = [a \in 0..Cells - 1 |-> IF first <= a /\ a <= first + 0 THEN 0 ELSE m[a]]
    OBVIOUS
  <2>2. m0 = [a \in 0..Cells - 1 |-> IF a = first THEN 0 ELSE m[a]]
    BY <1>m, Zenon
  <2>3. \A a \in 0..Cells - 1 : (first <= a /\ a <= first + 0) <=> a = first
    BY <1>0
  <2> HIDE DEF W, m0
  <2> QED
    BY <2>1, <2>2, <2>3
<1>3. ASSUME NEW k \in 0..n, k # 0
      PROVE  W[k] = Moved(W[k - 1], first, first + 1, k)
  <2>1. k \in Nat /\ k - 1 \in 0..n /\ k <= n
    BY <1>1, <1>3
  <2> DEFINE x == W[k - 1]
             y == W[k]
  <2>2. x = [a \in 0..Cells - 1 |-> IF first <= a /\ a <= first + (k - 1) THEN 0 ELSE m[a]]
    BY <2>1
  <2>3. y = [a \in 0..Cells - 1 |-> IF first <= a /\ a <= first + k THEN 0 ELSE m[a]]
    OBVIOUS
  <2>4. ((first + 1) + k - 1) % Cells = first + k /\ (first + k - 1) % Cells = first + k - 1
    <3>1. (first + 1) + k - 1 = first + k /\ first + k \in Nat /\ first + k < Cells /\ first + k - 1 \in Nat
      BY <1>0, <2>1
    <3>2. (first + k) % Cells = first + k /\ (first + k - 1) % Cells = first + k - 1
      BY <1>0, <3>1, Wraps
    <3> QED
      BY <3>1, <3>2
  <2> HIDE DEF x, y
  <2>5. Moved(x, first, first + 1, k) = [x EXCEPT ![first + k] = x[first + k - 1]]
    BY <2>4, Zenon DEF Moved
  <2>6. x[first + k - 1] = 0
    BY <1>0, <2>1, <2>2
  <2>7. [x EXCEPT ![first + k] = 0] = y
    <3>1. [x EXCEPT ![first + k] = 0] = [a \in 0..Cells - 1 |-> IF a = first + k THEN 0 ELSE x[a]]
      BY <2>2, Zenon
    <3>2. \A a \in 0..Cells - 1 :
            (IF a = first + k THEN 0 ELSE x[a]) = (IF first <= a /\ a <= first + k THEN 0 ELSE m[a])
      BY <1>0, <2>1, <2>2
    <3> QED
      BY <2>3, <3>1, <3>2
  <2> QED
    BY <2>5, <2>6, <2>7 DEF x, y
<1>4. W = [k \in 0..n |-> IF k = 0 THEN m0 ELSE Moved(W[k - 1], first, first + 1, k)]
  <2>1. W = [k \in 0..n |-> W[k]]
    BY Zenon
  <2> HIDE DEF W, n, m0
  <2>2. \A k \in 0..n : W[k] = IF k = 0 THEN m0 ELSE Moved(W[k - 1], first, first + 1, k)
    BY <1>2, <1>3
  <2> QED
    BY <2>1, <2>2, Zenon
<1> HIDE DEF W, m0
<1>5. Ldir(m0, first, first + 1, n) = W[n]
  <2>1. Follow(W, m0, first, first + 1, n)
    BY <1>4, Zenon DEF Follow
  <2> QED
    BY <1>1, <2>1, LdirFollows, Zenon
<1>6. W[n] = [a \in 0..Cells - 1 |-> IF first <= a /\ a <= first + n THEN 0 ELSE m[a]]
  BY <1>1 DEF W
<1>7. \A a \in 0..Cells - 1 : (first <= a /\ a <= first + n) <=> a \in first..first + size - 1
  BY <1>0
<1> HIDE DEF n
<1> QED
  BY <1>5, <1>6, <1>7 DEF Cleared, n, m0, IsCleared

(* The helper's two bytes.                                                 *)
LEMMA MovedTwo ==
  ASSUME NEW m, IsMemory(m), NEW from \in Nat, NEW to \in Nat,
         from + 1 < to, to + 1 < Cells
  PROVE  Ldir(m, from, to, 2) =
           [a \in 0..Cells - 1 |-> IF a = to THEN m[from] ELSE IF a = to + 1 THEN m[from + 1] ELSE m[a]]
<1> DEFINE m1 == [m EXCEPT ![to] = m[from]]
           m2 == [a \in 0..Cells - 1 |-> IF a = to THEN m[from] ELSE IF a = to + 1 THEN m[from + 1] ELSE m[a]]
           W == [k \in 0..2 |-> IF k = 0 THEN m ELSE IF k = 1 THEN m1 ELSE m2]
<1>0. Cells \in Nat
  BY StartAssumption
<1>m. m = [a \in 0..Cells - 1 |-> m[a]]
  BY Zenon DEF IsMemory
<1>1. W[0] = m /\ W[1] = m1 /\ W[2] = m2
  OBVIOUS
<1>2. /\ (to + 1 - 1) % Cells = to /\ (from + 1 - 1) % Cells = from
      /\ (to + 2 - 1) % Cells = to + 1 /\ (from + 2 - 1) % Cells = from + 1
  <2>1. to % Cells = to /\ from % Cells = from /\ (to + 1) % Cells = to + 1 /\ (from + 1) % Cells = from + 1
    <3>1. /\ to < Cells /\ from < Cells /\ to + 1 \in Nat /\ from + 1 \in Nat /\ from + 1 < Cells
      BY <1>0
    <3> QED
      BY <1>0, <3>1, Wraps
  <2>2. to + 1 - 1 = to /\ from + 1 - 1 = from /\ to + 2 - 1 = to + 1 /\ from + 2 - 1 = from + 1
    OBVIOUS
  <2> QED
    BY <2>1, <2>2
<1>3. m1 = Moved(m, from, to, 1)
  BY <1>2, Zenon DEF Moved
<1>4. m2 = Moved(m1, from, to, 2)
  <2>1. Moved(m1, from, to, 2) = [m1 EXCEPT ![to + 1] = m1[from + 1]]
    BY <1>2, Zenon DEF Moved
  <2>2. m1[from + 1] = m[from + 1]
    BY <1>0, <1>m
  <2>3. m1 = [a \in 0..Cells - 1 |-> IF a = to THEN m[from] ELSE m[a]]
    BY <1>m, Zenon
  <2> HIDE DEF m1
  <2>4. [m1 EXCEPT ![to + 1] = m[from + 1]] = m2
    <3>1. [m1 EXCEPT ![to + 1] = m[from + 1]] = [a \in 0..Cells - 1 |-> IF a = to + 1 THEN m[from + 1] ELSE m1[a]]
      BY <2>3, Zenon
    <3>2. \A a \in 0..Cells - 1 : (IF a = to + 1 THEN m[from + 1] ELSE m1[a]) = m2[a]
      <4> TAKE a \in 0..Cells - 1
      <4>1. m1[a] = IF a = to THEN m[from] ELSE m[a]
        BY <2>3
      <4>2. m2[a] = IF a = to THEN m[from] ELSE IF a = to + 1 THEN m[from + 1] ELSE m[a]
        BY Zenon
      <4>3. to # to + 1
        OBVIOUS
      <4> QED
        BY <4>1, <4>2, <4>3, Zenon
    <3> QED
      BY <3>1, <3>2, Zenon
  <2> QED
    BY <2>1, <2>2, <2>4
<1> HIDE DEF m1, m2
<1>5. W = [k \in 0..2 |-> IF k = 0 THEN m ELSE Moved(W[k - 1], from, to, k)]
  <2>1. W = [k \in 0..2 |-> W[k]]
    BY Zenon
  <2>2. \A k \in 0..2 : k = 0 \/ k = 1 \/ k = 2
    OBVIOUS
  <2>3. 1 - 1 = 0 /\ 2 - 1 = 1
    OBVIOUS
  <2> HIDE DEF W
  <2>4. \A k \in 0..2 : W[k] = IF k = 0 THEN m ELSE Moved(W[k - 1], from, to, k)
    <3> TAKE k \in 0..2
    <3>1. CASE k = 0
      BY <1>1, <3>1
    <3>2. CASE k = 1
      BY <1>1, <1>3, <2>3, <3>2
    <3>3. CASE k = 2
      BY <1>1, <1>4, <2>3, <3>3
    <3> QED
      BY <2>2, <3>1, <3>2, <3>3
  <2> QED
    BY <2>1, <2>4, Zenon
<1> HIDE DEF W
<1>6. PICK n : n = 2
  OBVIOUS
<1>7. Ldir(m, from, to, 2) = W[2]
  <2>1. n \in Nat \ {0}
    BY <1>6
  <2>2. Follow(W, m, from, to, n)
    BY <1>5, <1>6, Zenon DEF Follow
  <2>3. Ldir(m, from, to, n) = W[n]
    BY <2>1, <2>2, LdirFollows, Zenon
  <2> QED
    BY <1>6, <2>3, Zenon
<1> QED
  BY <1>1, <1>7 DEF m2

(***************************************************************************)
(* Arguments and names                                                     *)
(***************************************************************************)
LEMMA ArgsFound ==
  ASSUME NEW m, NEW tail \in Nat, tail <= TailRoom, m[1 + tail] = 0, \A a \in 1..tail : m[a] # 0
  PROVE  (CHOOSE a \in 1..Program0 : m[a] = 0 /\ \A d \in 1..a - 1 : m[d] # 0) = tail + 1
<1> DEFINE P(a) == m[a] = 0 /\ \A d \in 1..a - 1 : m[d] # 0
<1>0. TailRoom \in Nat
  BY StartAssumption
<1>1. tail + 1 \in 1..Program0 /\ P(tail + 1)
  BY <1>0 DEF Program0
<1>2. ASSUME NEW a \in 1..Program0, P(a) PROVE a = tail + 1
  <2>1. a \in Nat
    BY <1>0 DEF Program0
  <2>2. CASE a < tail + 1
    BY <1>2, <2>1, <2>2
  <2>3. CASE a > tail + 1
    BY <1>2, <2>1, <2>3
  <2> QED
    BY <2>1, <2>2, <2>3
<1> QED
  BY <1>1, <1>2, Zenon

(* Separator j, or none, is the last of the first k characters.            *)
LastAt(path, k, j) ==
  /\ j \in 0..k
  /\ j = 0 \/ path[j] = "sep"
  /\ \A i_ \in j + 1..k : path[i_] # "sep"

LEMMA LastExists ==
  ASSUME NEW path, NEW k \in Nat PROVE \E j : LastAt(path, k, j)
<1> DEFINE D == {d \in 0..k : k - d = 0 \/ path[k - d] = "sep"}
<1>1. D \subseteq Nat /\ k \in D
  OBVIOUS
<1>2. PICK d \in D : \A f \in D : <<f, d>> \notin OpToRel(<, Nat)
  BY <1>1, NatLessThanWellFounded, WFMin
<1>3. \A f \in D : ~(f < d)
  BY <1>1, <1>2, Zenon DEF OpToRel
<1> DEFINE j == k - d
<1>4. d \in 0..k /\ j \in 0..k /\ (j = 0 \/ path[j] = "sep")
  OBVIOUS
<1>5. ASSUME NEW i_ \in j + 1..k PROVE path[i_] # "sep"
  <2>1. k - i_ \in 0..k /\ k - i_ < d /\ k - (k - i_) = i_
    BY <1>4
  <2> QED
    BY <1>3, <2>1
<1> QED
  BY <1>4, <1>5, Zenon DEF LastAt

LEMMA LastUnique ==
  ASSUME NEW path, NEW k \in Nat, NEW j, NEW h, LastAt(path, k, j), LastAt(path, k, h)
  PROVE  j = h
<1>1. j \in Nat /\ h \in Nat /\ j <= k /\ h <= k
  BY DEF LastAt
<1>2. CASE j < h
  <2>1. h \in j + 1..k /\ h # 0
    BY <1>1, <1>2
  <2> QED
    BY <2>1, Zenon DEF LastAt
<1>3. CASE h < j
  <2>1. j \in h + 1..k /\ j # 0
    BY <1>1, <1>3
  <2> QED
    BY <2>1, Zenon DEF LastAt
<1> QED
  BY <1>1, <1>2, <1>3

(* MakeTsrEnvName() finds the last separator.                              *)
LEMMA NameFrom ==
  ASSUME NEW path, Len(path) \in Nat, NEW j, LastAt(path, Len(path), j)
  PROVE  LET file == SubSeq(path, j + 1, Len(path)) IN
         TsrEnvName(path) = SubSeq(file, 1, Len(file) - 4) \o <<"_", "T", "S", "R">>
<1> DEFINE n == Len(path)
           F == CHOOSE f : f = [k \in 0..n |-> IF k = 0 THEN 1 ELSE IF path[k] = "sep" THEN k + 1 ELSE f[k - 1]]
           L(k) == CHOOSE h : LastAt(path, k, h)
           W == [k \in 0..n |-> L(k) + 1]
<1>0. LET file == SubSeq(path, F[n], n) IN
      TsrEnvName(path) = SubSeq(file, 1, Len(file) - 4) \o <<"_", "T", "S", "R">>
  BY Zenon DEF TsrEnvName
<1>l. \A k \in Nat : LastAt(path, k, L(k))
  BY LastExists, Zenon
<1> HIDE DEF L
<1>1. W = [k \in 0..n |-> IF k = 0 THEN 1 ELSE IF path[k] = "sep" THEN k + 1 ELSE W[k - 1]]
  <2> SUFFICES ASSUME NEW k \in 0..n
               PROVE  L(k) + 1 = IF k = 0 THEN 1 ELSE IF path[k] = "sep" THEN k + 1 ELSE W[k - 1]
    BY Zenon
  <2>0. k \in Nat
    OBVIOUS
  <2>1. CASE k = 0
    <3>1. L(k) = 0
      BY <1>l, <2>0, <2>1 DEF LastAt
    <3> QED
      BY <2>1, <3>1
  <2>2. CASE k # 0 /\ path[k] = "sep"
    <3>1. LastAt(path, k, k)
      BY <2>0, <2>2 DEF LastAt
    <3>2. L(k) = k
      BY <1>l, <2>0, <3>1, LastUnique, Zenon
    <3> QED
      BY <2>2, <3>2, Zenon
  <2>3. CASE k # 0 /\ path[k] # "sep"
    <3>1. k - 1 \in 0..n /\ k - 1 \in Nat
      BY <2>0, <2>3
    <3>2. LastAt(path, k, L(k - 1))
      <4> DEFINE h == L(k - 1)
      <4>1. LastAt(path, k - 1, h)
        BY <1>l, <3>1, Zenon
      <4> HIDE DEF h
      <4>2. h \in 0..k - 1 /\ (h = 0 \/ path[h] = "sep") /\ \A i_ \in h + 1..k - 1 : path[i_] # "sep"
        BY <4>1, Zenon DEF LastAt
      <4>3. h \in 0..k
        BY <2>0, <4>2
      <4>4. \A i_ \in h + 1..k : path[i_] # "sep"
        <5> TAKE i_ \in h + 1..k
        <5>1. i_ = k \/ i_ \in h + 1..k - 1
          BY <2>0, <4>2
        <5> QED
          BY <2>3, <4>2, <5>1, Zenon
      <4> QED
        BY <4>2, <4>3, <4>4, Zenon DEF LastAt, h
    <3>3. L(k) = L(k - 1)
      BY <1>l, <2>0, <3>2, LastUnique, Zenon
    <3>4. W[k - 1] = L(k - 1) + 1
      BY <3>1, Zenon
    <3> QED
      BY <2>3, <3>3, <3>4, Zenon
  <2> QED
    BY <2>1, <2>2, <2>3
<1>2. F = [k \in 0..n |-> IF k = 0 THEN 1 ELSE IF path[k] = "sep" THEN k + 1 ELSE F[k - 1]]
  BY <1>1, Zenon
<1> HIDE DEF F, W
<1> DEFINE Differ == {k \in 0..n : F[k] # W[k]}
<1>3. Differ = {}
  <2> SUFFICES ASSUME Differ # {} PROVE FALSE
    OBVIOUS
  <2>1. Differ \subseteq Nat
    OBVIOUS
  <2>2. PICK k \in Differ : \A f \in Differ : <<f, k>> \notin OpToRel(<, Nat)
    BY <2>1, NatLessThanWellFounded, WFMin
  <2>3. \A f \in Differ : ~(f < k)
    BY <2>1, <2>2, Zenon DEF OpToRel
  <2>4. k # 0 /\ path[k] # "sep"
    BY <1>1, <1>2
  <2>5. k - 1 \in 0..n /\ k \in 0..n /\ k - 1 < k
    BY <2>4
  <2>6. F[k - 1] = W[k - 1]
    BY <2>3, <2>5
  <2>7. F[k] = F[k - 1] /\ W[k] = W[k - 1]
    BY <1>1, <1>2, <2>4, <2>5, Zenon
  <2> QED
    BY <2>6, <2>7
<1>4. n \in 0..n
  OBVIOUS
<1>5. F[n] = L(n) + 1
  BY <1>3, <1>4 DEF W
<1>6. L(n) = j
  BY <1>l, LastUnique, Zenon
<1> QED
  BY <1>0, <1>5, <1>6, Zenon

(* A path's name with one end in the place of another; what is left of it  *)
(* from j + 1 on, with none, and with another.                             *)
Replaced(gp, e1, e2, e3, e4, f1, f2, f3) ==
  SubSeq(gp \o <<e1, e2, e3, e4>>, 1, Len(gp \o <<e1, e2, e3, e4>>) - 3) \o <<f1, f2, f3>>
    = gp \o <<e1, f1, f2, f3>>
Cut(gp, e1, e2, e3, e4, j) ==
  LET path == gp \o <<e1, e2, e3, e4>>
      file == SubSeq(path, j + 1, Len(path))
  IN SubSeq(file, 1, Len(file) - 4) = SubSeq(gp, j + 1, Len(gp))
Rejoined(gp, f1, f2, f3, f4, j) ==
  LET tsrName == SubSeq(gp, j + 1, Len(gp)) \o <<f1, f2, f3, f4>> IN
  /\ Len(tsrName) = Len(gp) - j + 4
  /\ \A k \in 1..Len(gp) - j : tsrName[k] = gp[j + k]
  /\ tsrName[Len(gp) - j + 1] = f1 /\ tsrName[Len(gp) - j + 2] = f2
  /\ tsrName[Len(gp) - j + 3] = f3 /\ tsrName[Len(gp) - j + 4] = f4
  /\ SubSeq(tsrName, 1, Len(tsrName) - 4) = SubSeq(gp, j + 1, Len(gp))

LEMMA EndReplaced ==
  ASSUME NEW S, NEW gp \in Seq(S), NEW e1 \in S, NEW e2 \in S, NEW e3 \in S, NEW e4 \in S,
         NEW f1 \in S, NEW f2 \in S, NEW f3 \in S
  PROVE  Replaced(gp, e1, e2, e3, e4, f1, f2, f3)
<1> DEFINE path == gp \o <<e1, e2, e3, e4>>
           n == Len(gp)
<1>0. n \in Nat
  OBVIOUS
<1>1. path \in Seq(S) /\ Len(path) = n + 4 /\ path[n + 1] = e1 /\ \A k \in 1..n : path[k] = gp[k]
  OBVIOUS
<1> HIDE DEF path
<1>2. SubSeq(path, 1, Len(path) - 3) = gp \o <<e1>>
  <2>1. Len(path) - 3 = n + 1
    BY <1>0, <1>1
  <2>2. SubSeq(path, 1, n + 1) = gp \o <<e1>>
    BY <1>0, <1>1
  <2> QED
    BY <2>1, <2>2, Zenon
<1>3. (gp \o <<e1>>) \o <<f1, f2, f3>> = gp \o <<e1, f1, f2, f3>>
  OBVIOUS
<1> QED
  BY <1>2, <1>3 DEF path, Replaced

LEMMA NameCut ==
  ASSUME NEW S, NEW gp \in Seq(S), NEW e1 \in S, NEW e2 \in S, NEW e3 \in S, NEW e4 \in S,
         NEW j \in Nat, j < Len(gp)
  PROVE  Cut(gp, e1, e2, e3, e4, j)
<1> DEFINE path == gp \o <<e1, e2, e3, e4>>
           n == Len(gp)
           file == SubSeq(path, j + 1, n + 4)
<1>0. n \in Nat
  OBVIOUS
<1>1. path \in Seq(S) /\ Len(path) = n + 4 /\ \A k \in 1..n : path[k] = gp[k]
  OBVIOUS
<1> HIDE DEF path
<1>2. file \in Seq(S) /\ Len(file) = n + 4 - j /\ \A k \in 1..n - j : file[k] = gp[j + k]
  BY <1>0, <1>1
<1> HIDE DEF file
<1>3. Len(file) - 4 = n - j
  BY <1>0, <1>2
<1>4. SubSeq(file, 1, n - j) = SubSeq(gp, j + 1, n)
  BY <1>0, <1>2
<1> QED
  BY <1>1, <1>3, <1>4, Zenon DEF path, file, Cut

LEMMA NameRejoined ==
  ASSUME NEW S, NEW gp \in Seq(S), NEW f1 \in S, NEW f2 \in S, NEW f3 \in S, NEW f4 \in S, NEW j \in Nat, j < Len(gp)
  PROVE  Rejoined(gp, f1, f2, f3, f4, j)
<1> DEFINE n == Len(gp)
           t == SubSeq(gp, j + 1, n)
<1>0. n \in Nat
  OBVIOUS
<1>1. t \in Seq(S) /\ Len(t) = n - j /\ \A k \in 1..n - j : t[k] = gp[j + k]
  BY <1>0
<1> HIDE DEF t
<1> DEFINE tsrName == t \o <<f1, f2, f3, f4>>
<1>2. /\ tsrName \in Seq(S) /\ Len(tsrName) = n - j + 4 /\ \A k \in 1..n - j : tsrName[k] = t[k]
      /\ tsrName[n - j + 1] = f1 /\ tsrName[n - j + 2] = f2 /\ tsrName[n - j + 3] = f3 /\ tsrName[n - j + 4] = f4
  BY <1>0, <1>1
<1> HIDE DEF tsrName
<1>3. SubSeq(tsrName, 1, n - j) = t
  BY <1>0, <1>1, <1>2
<1>4. Len(tsrName) - 4 = n - j
  BY <1>0, <1>2
<1> QED
  BY <1>1, <1>2, <1>3, <1>4 DEF t, tsrName, Rejoined

LEMMA DirectoryAndName ==
  ASSUME NEW S, NEW gp \in Seq(S), NEW j \in Nat, j < Len(gp)
  PROVE  (IF j = 0 THEN <<>> ELSE SubSeq(gp, 1, j)) \o SubSeq(gp, j + 1, Len(gp)) = gp
<1>1. CASE j = 0
  <2>1. SubSeq(gp, 1, Len(gp)) = gp
    BY SubSeqFull
  <2> QED
    BY <1>1, <2>1, ConcatEmptySeq
<1>2. CASE j # 0
  <2>1. Len(gp) \in Nat
    OBVIOUS
  <2>2. SubSeq(gp, 1, j) \o SubSeq(gp, j + 1, Len(gp)) = SubSeq(gp, 1, Len(gp))
    <3>1. 1 \in 1..Len(gp) + 1 /\ j \in 1 - 1..Len(gp) /\ Len(gp) \in j..Len(gp)
      BY <2>1
    <3> QED
      BY <3>1, ConcatAdjacentSubSeq
  <2> QED
    BY <1>2, <2>2, SubSeqFull
<1> QED
  BY <1>1, <1>2

(* The names' characters.                                                  *)
Chars == {"a", "b", "sep", ".", "C", "O", "M", "V", "L", "_", "T", "S", "R"}

(* What is wanted of the two names.                                        *)
NamesOf(gp, ovlName, tsrName) ==
  /\ ovlName = gp \o <<".", "O", "V", "L">>
  /\ \A k \in 1..Len(tsrName) : tsrName[k] # "sep"
  /\ \E dir \in {<<>>} \cup {SubSeq(gp, 1, k) : k \in 1..Len(gp)} :
       /\ dir \o SubSeq(tsrName, 1, Len(tsrName) - 4) = gp
       /\ dir # <<>> => dir[Len(dir)] = "sep"

LEMMA Named ==
  ASSUME NEW gp \in Seq({"a", "b", "sep"}), Len(gp) >= 1, gp[Len(gp)] # "sep"
  PROVE  NamesOf(gp, OvlName(gp \o Ext), TsrEnvName(OvlName(gp \o Ext)))
<1> DEFINE n == Len(gp)
           path == gp \o <<".", "O", "V", "L">>
<1>0. n \in Nat /\ gp \in Seq(Chars)
  <2>1. {"a", "b", "sep"} \subseteq Chars
    BY DEF Chars
  <2>2. gp \in Seq(Chars)
    BY <2>1, SeqMonotonic
  <2>3. n \in Nat
    OBVIOUS
  <2> QED
    BY <2>2, <2>3
<1>c. "." \in Chars /\ "C" \in Chars /\ "O" \in Chars /\ "M" \in Chars /\ "V" \in Chars /\ "L" \in Chars
      /\ "_" \in Chars /\ "T" \in Chars /\ "S" \in Chars /\ "R" \in Chars
  BY DEF Chars
<1>1. OvlName(gp \o Ext) = path
  <2>1. SubSeq(gp \o <<".", "C", "O", "M">>, 1, Len(gp \o <<".", "C", "O", "M">>) - 3) \o <<"O", "V", "L">> = path
    <3>1. Replaced(gp, ".", "C", "O", "M", "O", "V", "L")
      BY <1>0, <1>c, EndReplaced, Zenon
    <3> QED
      BY <3>1, Zenon DEF Replaced, path
  <2> QED
    BY <2>1, Zenon DEF OvlName, Ext
<1>2. Len(path) = n + 4 /\ path[n + 1] = "." /\ path[n + 2] = "O" /\ path[n + 3] = "V" /\ path[n + 4] = "L"
      /\ \A k \in 1..n : path[k] = gp[k]
  OBVIOUS
<1> HIDE DEF path
<1>3. Len(path) \in Nat
  BY <1>0, <1>2
<1>4. PICK j : LastAt(path, Len(path), j)
  BY <1>3, LastExists, Zenon
<1>5. j \in Nat /\ j < n /\ (j = 0 \/ gp[j] = "sep") /\ \A k \in j + 1..n : gp[k] # "sep"
  <2>1. j \in 0..n + 4 /\ (j = 0 \/ path[j] = "sep") /\ \A k \in j + 1..n + 4 : path[k] # "sep"
    BY <1>2, <1>4, Zenon DEF LastAt
  <2>2. j \notin {n + 1, n + 2, n + 3, n + 4, n}
    BY <1>0, <1>2, <2>1
  <2>3. j \in Nat /\ j < n
    BY <1>0, <2>1, <2>2
  <2>4. j = 0 \/ gp[j] = "sep"
    BY <1>2, <2>1, <2>3
  <2>5. ASSUME NEW k \in j + 1..n PROVE gp[k] # "sep"
    <3>1. k \in 1..n /\ k \in j + 1..n + 4
      BY <1>0, <2>3
    <3> QED
      BY <1>2, <2>1, <3>1, Zenon
  <2> QED
    BY <2>3, <2>4, <2>5
<1> DEFINE tsrName == SubSeq(gp, j + 1, n) \o <<"_", "T", "S", "R">>
<1>6. TsrEnvName(path) = tsrName
  <2> DEFINE file == SubSeq(path, j + 1, Len(path))
  <2>1. TsrEnvName(path) = SubSeq(file, 1, Len(file) - 4) \o <<"_", "T", "S", "R">>
    BY <1>3, <1>4, NameFrom, Zenon
  <2>2. SubSeq(file, 1, Len(file) - 4) = SubSeq(gp, j + 1, n)
    <3>1. Cut(gp, ".", "O", "V", "L", j)
      BY <1>0, <1>5, <1>c, NameCut, Zenon
    <3> QED
      BY <3>1, Zenon DEF path, Cut
  <2> QED
    BY <2>1, <2>2, Zenon
<1>7. /\ Len(tsrName) = n - j + 4
      /\ \A k \in 1..n - j : tsrName[k] = gp[j + k]
      /\ tsrName[n - j + 1] = "_" /\ tsrName[n - j + 2] = "T"
      /\ tsrName[n - j + 3] = "S" /\ tsrName[n - j + 4] = "R"
      /\ SubSeq(tsrName, 1, Len(tsrName) - 4) = SubSeq(gp, j + 1, n)
  <2>1. Rejoined(gp, "_", "T", "S", "R", j)
    BY <1>0, <1>5, <1>c, NameRejoined, Zenon
  <2> QED
    BY <2>1, Zenon DEF Rejoined
<1> HIDE DEF tsrName
<1>8. \A k \in 1..Len(tsrName) : tsrName[k] # "sep"
  <2> TAKE k \in 1..Len(tsrName)
  <2>1. CASE k \in 1..n - j
    <3>1. j + k \in j + 1..n
      BY <1>0, <1>5, <2>1
    <3> QED
      BY <1>5, <1>7, <2>1, <3>1, Zenon
  <2>2. CASE k \notin 1..n - j
    <3>1. k = n - j + 1 \/ k = n - j + 2 \/ k = n - j + 3 \/ k = n - j + 4
      <4>1. n \in Nat /\ j \in Nat /\ j < n /\ Len(tsrName) = n - j + 4
        BY <1>0, <1>5, <1>7
      <4>2. k \in 1..n - j + 4
        BY <4>1
      <4> HIDE DEF n
      <4> QED
        BY <2>2, <4>1, <4>2
    <3> QED
      BY <1>7, <3>1
  <2> QED
    BY <2>1, <2>2
<1> DEFINE dir == IF j = 0 THEN <<>> ELSE SubSeq(gp, 1, j)
<1>9. dir \in {<<>>} \cup {SubSeq(gp, 1, k) : k \in 1..Len(gp)} /\ (dir # <<>> => dir[Len(dir)] = "sep")
  <2>1. CASE j = 0
    BY <2>1
  <2>2. CASE j # 0
    <3>1. j \in 1..Len(gp) /\ gp[j] = "sep"
      BY <1>0, <1>5, <2>2
    <3>2. Len(SubSeq(gp, 1, j)) = j /\ SubSeq(gp, 1, j)[j] = gp[j]
      BY <1>0, <1>5, <3>1
    <3> QED
      BY <2>2, <3>1, <3>2, Zenon
  <2> QED
    BY <2>1, <2>2
<1>10. dir \o SubSeq(tsrName, 1, Len(tsrName) - 4) = gp
  BY <1>5, <1>7, DirectoryAndName, Zenon
<1> HIDE DEF dir
<1>11. /\ path = gp \o <<".", "O", "V", "L">>
       /\ \E d \in {<<>>} \cup {SubSeq(gp, 1, k) : k \in 1..Len(gp)} :
            d \o SubSeq(tsrName, 1, Len(tsrName) - 4) = gp /\ (d # <<>> => d[Len(d)] = "sep")
  BY <1>9, <1>10, Zenon DEF path
<1> QED
  BY <1>1, <1>6, <1>8, <1>11, Zenon DEF NamesOf

(***************************************************************************)
(* The invariant                                                           *)
(***************************************************************************)
(* Memory once BSS is cleared, with the helper at its place, the end of    *)
(* the tail set, the shared memory cleared, if "helper", "tail", "shared"  *)
(* are done.                                                               *)
Mem(done) ==
  [a \in 0..Cells - 1 |->
     CASE a \in Region(Lbss, Lbss + given.bss) -> 0
       [] "helper" \in done /\ a \in Region(HelperAt, Himem) -> Before[Image0 + a - HelperAt]
       [] "shared" \in done /\ a \in Region(Himem, given.hcomm) -> 0
       [] "tail" \in done /\ a = 1 + given.tail -> 0
       [] OTHER -> Before[a]]

StartBuilds == {"rom", "dos1", "dos2", "banked", "r800"}
GivenOK ==
  /\ given.build \in StartBuilds /\ given.machine \in Machines
  /\ given.tail \in Nat /\ given.tail <= TailRoom /\ given.bss \in Nat /\ given.bss >= 2 /\ given.bss <= 5
  /\ given.hcomm \in Nat /\ given.hcomm >= Himem + 2 /\ given.hcomm < Cells
  /\ given.path \in Seq({"a", "b", "sep"}) /\ Len(given.path) >= 1 /\ given.path[Len(given.path)] # "sep"

Uncalled == [abort |-> "none", diskerr |-> "none"]
Callbacks == [abort |-> "AbortCallback", diskerr |-> "DiskECallback"]

MemoryInv ==
  /\ stAt = "start" => ram = Before
  /\ stAt = "transfer" => ram = Mem({})
  /\ stAt = "args" => ram = IF Banked THEN Mem({"helper"}) ELSE Mem({})
  /\ stAt = "version" => ram = Mem({"tail"})
  /\ stAt = "himem" => ram = Mem({"helper", "tail"})
  /\ stAt \in {"mapper", "names"} => ram = Mem({"helper", "tail", "shared"})
  /\ stAt = "main" => \A a \in 0..Cells - 1 : ram[a] = Wanted_(a)

(* Which builds reach a step, and on which machines.                       *)
WayInv ==
  /\ stAt \in {"transfer", "himem", "mapper", "names"} => Banked
  /\ stAt = "args" => given.build # "rom"
  /\ stAt = "version" => given.build = "dos1"
  /\ stAt \notin {"start", "ended"} /\ given.build \in {"dos2", "banked", "r800"} => IsDos2
  /\ stAt \in {"mapper", "names", "main"} /\ given.build = "r800" => given.machine = "turbor"

CallbacksInv ==
  calls_ = IF Banked /\ stAt \notin {"start", "transfer", "ended"} THEN Callbacks ELSE Uncalled

(* The arguments, from then on; and the start of the heap.                 *)
ArgsInv ==
  /\ stAt \in {"version", "himem", "mapper", "names"} \/ (stAt = "main" /\ given.build # "rom") =>
       argv_ = [k \in 1..given.tail |-> k] /\ ei_
  /\ stAt \in {"mapper", "names"} \/ (stAt = "main" /\ Banked) => brk_ = given.hcomm
  /\ stAt = "main" /\ given.build = "dos1" =>
       mode = CASE given.machine = "cpm" -> 0 [] given.machine = "dos1" -> 1 [] OTHER -> 2

MapperInv ==
  /\ stAt = "names" \/ (stAt = "main" /\ Banked) =>
       \A f \in DOMAIN Functions_ : Called_(f) = Functions_[f]
  /\ stAt = "main" /\ Banked => NamesOf(given.path, names.ovl, names.tsr)

BeginInv == GivenOK /\ MemoryInv /\ WayInv /\ CallbacksInv /\ ArgsInv /\ MapperInv

(***************************************************************************)
(* Memory                                                                  *)
(***************************************************************************)
LEMMA Layout ==
  /\ TailRoom \in Nat /\ Cells \in Nat /\ TailRoom >= 1 /\ Cells >= TailRoom + 14
  /\ Program0 = TailRoom + 1 /\ Image0 = TailRoom + 2 /\ Lbss = TailRoom + 4
  /\ HelperAt = TailRoom + 9 /\ Himem = TailRoom + 11
  BY StartAssumption DEF Program0, Image0, Lbss, HelperAt, Himem

LEMMA MemAt ==
  ASSUME NEW done, NEW a \in 0..Cells - 1, GivenOK
  PROVE  /\ Mem(done) = [d \in 0..Cells - 1 |-> Mem(done)[d]]
         /\ a \in Nat /\ a < Cells
         /\ Before[a] = IF a = 0 THEN given.tail ELSE a
         /\ Lbss <= a /\ a < Lbss + given.bss => Mem(done)[a] = 0
         /\ HelperAt <= a /\ a < Himem => Mem(done)[a] = IF "helper" \in done THEN Before[Image0 + a - HelperAt] ELSE Before[a]
         /\ Himem <= a => Mem(done)[a] = IF "shared" \in done /\ a < given.hcomm THEN 0 ELSE Before[a]
         /\ a < Lbss => Mem(done)[a] = IF "tail" \in done /\ a = 1 + given.tail THEN 0 ELSE Before[a]
         /\ Lbss + given.bss <= a /\ a < HelperAt => Mem(done)[a] = Before[a]
<1>1. Mem(done) = [d \in 0..Cells - 1 |-> Mem(done)[d]]
  BY DEF Mem
<1>2. a \in Nat /\ a < Cells /\ Before[a] = IF a = 0 THEN given.tail ELSE a
  BY Layout DEF Before
<1> DEFINE A == a \in Region(Lbss, Lbss + given.bss)
           H == a \in Region(HelperAt, Himem)
           S == a \in Region(Himem, given.hcomm)
           T == a = 1 + given.tail
<1>3. /\ A <=> Lbss <= a /\ a < Lbss + given.bss
      /\ H <=> HelperAt <= a /\ a < Himem
      /\ S <=> Himem <= a /\ a < given.hcomm
      /\ T => a < Lbss
      /\ Lbss + given.bss <= HelperAt /\ HelperAt <= Himem /\ Lbss <= HelperAt
  BY <1>2, Layout DEF Region, GivenOK
<1>4. Mem(done)[a] = CASE A -> 0 [] "helper" \in done /\ H -> Before[Image0 + a - HelperAt]
                       [] "shared" \in done /\ S -> 0 [] "tail" \in done /\ T -> 0 [] OTHER -> Before[a]
  BY Zenon DEF Mem
<1> HIDE DEF A, H, S
<1>5. given.bss \in Nat /\ given.hcomm \in Nat /\ Lbss \in Nat /\ HelperAt \in Nat /\ Himem \in Nat
  <2>1. given.bss \in Nat /\ given.hcomm \in Nat
    BY Zenon DEF GivenOK
  <2>2. Lbss \in Nat /\ HelperAt \in Nat /\ Himem \in Nat
    BY Layout
  <2> QED
    BY <2>1, <2>2
<1>6. CASE A
  BY <1>1, <1>2, <1>3, <1>4, <1>5, <1>6
<1>7. CASE ~A /\ H
  BY <1>1, <1>2, <1>3, <1>4, <1>5, <1>7
<1>8. CASE ~A /\ ~H
  BY <1>1, <1>2, <1>3, <1>4, <1>5, <1>8
<1> QED
  BY <1>6, <1>7, <1>8

(* Memories are equal if their cells are.                                  *)
LEMMA CellsEqual ==
  ASSUME NEW m, NEW w, m = [a \in 0..Cells - 1 |-> m[a]], w = [a \in 0..Cells - 1 |-> w[a]],
         \A a \in 0..Cells - 1 : m[a] = w[a]
  PROVE  m = w
  OBVIOUS

LEMMA BssCleared ==
  ASSUME GivenOK PROVE Cleared(Before, Lbss, given.bss) = Mem({})
<1>1. Before = [a \in 0..Cells - 1 |-> Before[a]]
  BY DEF Before
<1>2. Lbss \in Nat /\ given.bss \in Nat /\ given.bss >= 2 /\ Lbss + given.bss <= Cells
      /\ HelperAt \in Nat /\ Lbss + given.bss <= HelperAt
  BY Layout DEF GivenOK
<1> DEFINE m == Cleared(Before, Lbss, given.bss)
<1>3. m = [a \in 0..Cells - 1 |-> IF a \in Lbss..Lbss + given.bss - 1 THEN 0 ELSE Before[a]]
  <2>1. IsMemory(Before)
    BY <1>1, Zenon DEF IsMemory
  <2>2. IsCleared(Before, Lbss, given.bss)
    BY <1>2, <2>1, ClearedFacts, Zenon
  <2> QED
    BY <2>2, Zenon DEF IsCleared
<1> HIDE DEF m
<1>4. ASSUME NEW a \in 0..Cells - 1 PROVE m[a] = Mem({})[a]
  <2>1. /\ a \in Nat
        /\ Lbss <= a /\ a < Lbss + given.bss => Mem({})[a] = 0
        /\ HelperAt <= a /\ a < Himem => Mem({})[a] = Before[a]
        /\ Himem <= a => Mem({})[a] = Before[a]
        /\ a < Lbss => Mem({})[a] = Before[a]
        /\ Lbss + given.bss <= a /\ a < HelperAt => Mem({})[a] = Before[a]
    BY MemAt
  <2>2. m[a] = IF Lbss <= a /\ a < Lbss + given.bss THEN 0 ELSE Before[a]
    BY <1>2, <1>3, <2>1
  <2>3. Himem \in Nat
    BY Layout
  <2> QED
    BY <1>2, <2>1, <2>2, <2>3
<1>5. \A a \in 0..Cells - 1 : Mem({}) = [d \in 0..Cells - 1 |-> Mem({})[d]]
  BY MemAt, Zenon
<1>6. 0 \in 0..Cells - 1
  BY Layout
<1>7. m = [a \in 0..Cells - 1 |-> m[a]]
  BY <1>3
<1> QED
  BY <1>4, <1>5, <1>6, <1>7, CellsEqual DEF m

LEMMA HelperMoved ==
  ASSUME GivenOK PROVE Ldir(Mem({}), Image0, HelperAt, 2) = Mem({"helper"})
<1> DEFINE m == Ldir(Mem({}), Image0, HelperAt, 2)
           h == {"helper"}
<1>0. 0 \in 0..Cells - 1
  BY Layout
<1>1. Mem({}) = [d \in 0..Cells - 1 |-> Mem({})[d]] /\ Mem(h) = [d \in 0..Cells - 1 |-> Mem(h)[d]]
  BY <1>0, MemAt, Zenon
<1>2. Image0 \in Nat /\ HelperAt \in Nat /\ Image0 + 1 < HelperAt /\ HelperAt + 1 < Cells
  BY Layout
<1>3. m = [a \in 0..Cells - 1 |-> IF a = HelperAt THEN Mem({})[Image0] ELSE IF a = HelperAt + 1 THEN Mem({})[Image0 + 1] ELSE Mem({})[a]]
  <2>1. IsMemory(Mem({}))
    BY <1>1, Zenon DEF IsMemory
  <2> QED
    BY <1>2, <2>1, MovedTwo
<1> HIDE DEF m
<1>4. "helper" \in h /\ "tail" \notin h /\ "shared" \notin h
  OBVIOUS
<1>5. Mem({})[Image0] = Before[Image0] /\ Mem({})[Image0 + 1] = Before[Image0 + 1]
  <2>1. Image0 \in 0..Cells - 1 /\ Image0 + 1 \in 0..Cells - 1 /\ Image0 + 1 < Lbss /\ Image0 < Lbss
    BY Layout
  <2>2. \A a \in 0..Cells - 1 : a < Lbss => Mem({})[a] = Before[a]
    BY MemAt
  <2> QED
    BY <2>1, <2>2
<1> HIDE DEF h
<1>6. ASSUME NEW a \in 0..Cells - 1 PROVE m[a] = Mem(h)[a]
  <2>1. /\ a \in Nat
        /\ Lbss <= a /\ a < Lbss + given.bss => Mem({})[a] = 0 /\ Mem(h)[a] = 0
        /\ HelperAt <= a /\ a < Himem => Mem(h)[a] = Before[Image0 + a - HelperAt]
        /\ Himem <= a => Mem({})[a] = Before[a] /\ Mem(h)[a] = Before[a]
        /\ a < Lbss => Mem({})[a] = Before[a] /\ Mem(h)[a] = Before[a]
        /\ Lbss + given.bss <= a /\ a < HelperAt => Mem({})[a] = Before[a] /\ Mem(h)[a] = Before[a]
    BY <1>4, MemAt
  <2>2. Lbss \in Nat /\ given.bss \in Nat /\ Lbss + given.bss <= HelperAt /\ Himem = HelperAt + 2
    BY Layout DEF GivenOK
  <2>3. CASE a = HelperAt
    <3>1. Image0 + a - HelperAt = Image0
      BY <1>2, <2>3
    <3>2. Mem(h)[a] = Before[Image0]
      BY <1>2, <2>1, <2>2, <2>3, <3>1
    <3> QED
      BY <1>3, <1>5, <2>3, <3>2
  <2>4. CASE a = HelperAt + 1
    <3>1. Image0 + a - HelperAt = Image0 + 1
      BY <1>2, <2>4
    <3>2. Mem(h)[a] = Before[Image0 + 1]
      BY <1>2, <2>1, <2>2, <2>4, <3>1
    <3>3. a # HelperAt
      BY <1>2, <2>4
    <3> QED
      BY <1>3, <1>5, <2>4, <3>2, <3>3
  <2>5. CASE a # HelperAt /\ a # HelperAt + 1
    <3>1. m[a] = Mem({})[a]
      BY <1>3, <2>5
    <3>2. ~(HelperAt <= a /\ a < Himem)
      BY <1>2, <2>1, <2>2, <2>5
    <3> QED
      BY <1>2, <2>1, <2>2, <3>1, <3>2
  <2> QED
    BY <2>3, <2>4, <2>5
<1>7. m = [a \in 0..Cells - 1 |-> m[a]]
  BY <1>3
<1> QED
  BY <1>1, <1>6, <1>7, CellsEqual DEF m, h

(* The tail's end is what more has and done has not; and what follows.     *)
OnlyTail(done, more) ==
  /\ "tail" \notin done /\ "tail" \in more
  /\ "helper" \in done <=> "helper" \in more
  /\ "shared" \notin done /\ "shared" \notin more
TailSet(done, more) ==
  /\ [Mem(done) EXCEPT ![1 + Mem(done)[0]] = 0] = Mem(more)
  /\ Mem(more)[1 + given.tail] = 0
  /\ \A a \in 1..given.tail : Mem(more)[a] = a

(* Once the tail's end is set, before the shared memory is cleared.        *)
LEMMA TailEnded ==
  ASSUME GivenOK, NEW done, NEW more, OnlyTail(done, more)
  PROVE  TailSet(done, more)
<1> DEFINE z == 1 + given.tail
           m == [Mem(done) EXCEPT ![z] = 0]
<1>t. /\ "tail" \notin done /\ "tail" \in more
      /\ "helper" \in done <=> "helper" \in more
      /\ "shared" \notin done /\ "shared" \notin more
  BY Zenon DEF OnlyTail
<1>0. /\ 0 \in 0..Cells - 1 /\ z \in Nat /\ given.tail \in Nat /\ z < Lbss /\ 0 < Lbss /\ z \in 0..Cells - 1
      /\ Lbss \in Nat /\ HelperAt \in Nat /\ Himem \in Nat /\ given.bss \in Nat /\ Lbss + given.bss <= HelperAt
      /\ Cells \in Nat
  BY Layout DEF GivenOK
<1>1. Mem(done) = [d \in 0..Cells - 1 |-> Mem(done)[d]] /\ Mem(more) = [d \in 0..Cells - 1 |-> Mem(more)[d]]
  BY <1>0, MemAt, Zenon
<1>2. Mem(done)[0] = given.tail
  BY <1>0, <1>t, MemAt
<1>3. m = [a \in 0..Cells - 1 |-> IF a = z THEN 0 ELSE Mem(done)[a]]
  BY <1>1, Zenon
<1>4. Mem(more)[z] = 0
  BY <1>0, <1>t, MemAt
<1>5. \A a \in 1..given.tail : Mem(more)[a] = a
  <2> TAKE a \in 1..given.tail
  <2>1. a \in 0..Cells - 1 /\ a < Lbss /\ a # z /\ a # 0
    BY <1>0
  <2> HIDE DEF z
  <2>2. Mem(more)[a] = Before[a] /\ Before[a] = a
    BY <1>t, <2>1, MemAt DEF z
  <2> QED
    BY <2>2
<1> HIDE DEF m
<1>6. ASSUME NEW a \in 0..Cells - 1 PROVE m[a] = Mem(more)[a]
  <2>1. CASE a = z
    BY <1>3, <1>4, <2>1
  <2>2. CASE a # z
    <3>1. m[a] = Mem(done)[a]
      BY <1>3, <2>2
    <3>2. Mem(done)[a] = Mem(more)[a]
      <4>1. /\ a \in Nat
            /\ Lbss <= a /\ a < Lbss + given.bss => Mem(done)[a] = Mem(more)[a]
            /\ HelperAt <= a /\ a < Himem => Mem(done)[a] = Mem(more)[a]
            /\ Himem <= a => Mem(done)[a] = Mem(more)[a]
            /\ a < Lbss => Mem(done)[a] = Mem(more)[a]
            /\ Lbss + given.bss <= a /\ a < HelperAt => Mem(done)[a] = Mem(more)[a]
        BY <1>t, <2>2, MemAt
      <4> HIDE DEF z
      <4> QED
        BY <1>0, <4>1
    <3> QED
      BY <3>1, <3>2
  <2> QED
    BY <2>1, <2>2
<1>7. m = [a \in 0..Cells - 1 |-> m[a]]
  BY <1>3
<1>8. m = Mem(more)
  BY <1>1, <1>6, <1>7, CellsEqual
<1> QED
  BY <1>2, <1>4, <1>5, <1>8 DEF m, TailSet

LEMMA SharedCleared ==
  ASSUME GivenOK
  PROVE  Cleared(Mem({"helper", "tail"}), Himem, given.hcomm - Himem) = Mem({"helper", "tail", "shared"})
<1> DEFINE done == {"helper", "tail"}
           all == {"helper", "tail", "shared"}
           size == given.hcomm - Himem
           m == Cleared(Mem(done), Himem, size)
<1>0. /\ 0 \in 0..Cells - 1 /\ Lbss \in Nat /\ HelperAt \in Nat /\ Himem \in Nat /\ HelperAt <= Himem
      /\ given.bss \in Nat /\ Lbss + given.bss <= HelperAt
      /\ Cells \in Nat /\ given.hcomm \in Nat /\ given.hcomm < Cells /\ given.hcomm >= Himem + 2
  BY Layout DEF GivenOK
<1>1. Mem(done) = [d \in 0..Cells - 1 |-> Mem(done)[d]] /\ Mem(all) = [d \in 0..Cells - 1 |-> Mem(all)[d]]
  BY <1>0, MemAt, Zenon
<1>2. size \in Nat /\ size >= 2 /\ Himem + size = given.hcomm
  BY <1>0
<1> HIDE DEF size
<1>3. m = [a \in 0..Cells - 1 |-> IF a \in Himem..Himem + size - 1 THEN 0 ELSE Mem(done)[a]]
  <2>1. Himem + size <= Cells
    BY <1>0, <1>2
  <2>2. IsMemory(Mem(done))
    BY <1>1, Zenon DEF IsMemory
  <2>3. IsCleared(Mem(done), Himem, size)
    BY <1>0, <1>2, <2>1, <2>2, ClearedFacts, Zenon
  <2> QED
    BY <2>3, Zenon DEF IsCleared
<1>4. "helper" \in done /\ "helper" \in all /\ "tail" \in done /\ "tail" \in all /\ "shared" \notin done /\ "shared" \in all
  OBVIOUS
<1> HIDE DEF m, done, all
<1>5. ASSUME NEW a \in 0..Cells - 1 PROVE m[a] = Mem(all)[a]
  <2>1. /\ a \in Nat
        /\ Lbss <= a /\ a < Lbss + given.bss => Mem(done)[a] = Mem(all)[a]
        /\ HelperAt <= a /\ a < Himem => Mem(done)[a] = Mem(all)[a]
        /\ Himem <= a => Mem(done)[a] = Before[a] /\ Mem(all)[a] = IF a < given.hcomm THEN 0 ELSE Before[a]
        /\ a < Lbss => Mem(done)[a] = Mem(all)[a]
        /\ Lbss + given.bss <= a /\ a < HelperAt => Mem(done)[a] = Mem(all)[a]
    BY <1>4, MemAt
  <2>2. m[a] = IF Himem <= a /\ a < given.hcomm THEN 0 ELSE Mem(done)[a]
    <3>1. a \in Himem..Himem + size - 1 <=> Himem <= a /\ a < given.hcomm
      BY <1>0, <1>2, <2>1
    <3> QED
      BY <1>3, <3>1, Zenon
  <2> QED
    BY <1>0, <2>1, <2>2
<1>6. m = [a \in 0..Cells - 1 |-> m[a]]
  BY <1>3
<1> QED
  BY <1>1, <1>5, <1>6, CellsEqual DEF m, done, all, size

LEMMA AsWanted ==
  ASSUME NEW done, "helper" \in done <=> Banked, "shared" \in done <=> Banked,
         "tail" \in done <=> given.build # "rom"
  PROVE  \A a \in 0..Cells - 1 : Mem(done)[a] = Wanted_(a)
  BY Zenon DEF Mem, Wanted_

(***************************************************************************)
(* The steps                                                               *)
(***************************************************************************)
LEMMA GivenFixed ==
  ASSUME given' = given
  PROVE  /\ GivenOK' <=> GivenOK
         /\ Banked' <=> Banked
         /\ IsDos2' <=> IsDos2
         /\ Before' = Before
         /\ \A done : Mem(done)' = Mem(done)
         /\ \A a : Wanted_(a)' = Wanted_(a)
<1>1. (GivenOK' <=> GivenOK) /\ (Banked' <=> Banked) /\ (IsDos2' <=> IsDos2)
  BY Zenon DEF GivenOK, Banked, IsDos2
<1>2. Before' = Before
  BY Zenon DEF Before
<1>3. \A done : Mem(done)' = Mem(done)
  <2> TAKE done
  <2>1. given.bss' = given.bss /\ given.hcomm' = given.hcomm /\ given.tail' = given.tail
    OBVIOUS
  <2> QED
    BY <1>2, <2>1 DEF Mem
<1>4. \A a : Wanted_(a)' = Wanted_(a)
  BY <1>1, <1>2, Zenon DEF Wanted_
<1> QED
  BY <1>1, <1>2, <1>3, <1>4

LEMMA BeginInitial == StartInit => BeginInv
<1> SUFFICES ASSUME StartInit PROVE BeginInv
  OBVIOUS
<1>1. GivenOK
  <2> DEFINE P == {p \in Paths : p[Len(p)] # "sep"}
  <2>1. given \in [build : StartBuilds, machine : Machines, tail : 0..TailRoom, bss : 2..5,
                   hcomm : Himem + 2..Cells - 1, path : P]
    BY Zenon DEF StartInit, StartBuilds
  <2> HIDE DEF P
  <2>2. /\ given.build \in StartBuilds /\ given.machine \in Machines /\ given.tail \in 0..TailRoom
        /\ given.bss \in 2..5 /\ given.hcomm \in Himem + 2..Cells - 1 /\ given.path \in P
    BY <2>1, Zenon
  <2>3. given.path \in Seq({"a", "b", "sep"}) /\ Len(given.path) >= 1 /\ given.path[Len(given.path)] # "sep"
    <3>1. given.path \in Paths /\ given.path[Len(given.path)] # "sep"
      BY <2>2, Zenon DEF P
    <3>2. PICK n \in 1..MaxPath : given.path \in [1..n -> {"a", "b", "sep"}]
      BY <3>1, Zenon DEF Paths
    <3>3. n \in Nat /\ n >= 1
      BY StartAssumption
    <3>4. \A S : \A q \in [1..n -> S] : q \in Seq(S) /\ Len(q) = n
      BY <3>3
    <3>5. given.path \in Seq({"a", "b", "sep"}) /\ Len(given.path) = n
      BY <3>2, <3>4, Zenon
    <3> QED
      BY <3>1, <3>3, <3>5
  <2>4. given.tail \in Nat /\ given.tail <= TailRoom /\ given.bss \in Nat /\ given.bss >= 2 /\ given.bss <= 5
    BY <2>2, Layout
  <2>5. given.hcomm \in Nat /\ given.hcomm >= Himem + 2 /\ given.hcomm < Cells
    BY <2>2, Layout
  <2> QED
    BY <2>2, <2>3, <2>4, <2>5, Zenon DEF GivenOK
<1>2. stAt = "start" /\ ram = Before /\ calls_ = Uncalled
  BY Zenon DEF StartInit, Before, Uncalled
<1>3. MemoryInv /\ WayInv /\ CallbacksInv /\ ArgsInv /\ MapperInv
  BY <1>2, Zenon DEF MemoryInv, WayInv, CallbacksInv, ArgsInv, MapperInv
<1> QED
  BY <1>1, <1>3 DEF BeginInv

LEMMA NotDos2Keeps == ASSUME BeginInv, NotDos2 PROVE BeginInv'
<1>1. stAt = "start" /\ stAt' = "ended" /\ given' = given /\ calls_' = calls_
  BY Zenon DEF NotDos2
<1>2. GivenOK'
  BY <1>1, GivenFixed DEF BeginInv
<1>3. CallbacksInv'
  BY <1>1, Zenon DEF BeginInv, CallbacksInv, Uncalled
<1>4. MemoryInv' /\ WayInv' /\ ArgsInv' /\ MapperInv'
  BY <1>1, Zenon DEF MemoryInv, WayInv, ArgsInv, MapperInv
<1> QED
  BY <1>2, <1>3, <1>4 DEF BeginInv

LEMMA ClearBssKeeps == ASSUME BeginInv, ClearBss PROVE BeginInv'
<1>1. /\ stAt = "start" /\ given' = given /\ calls_' = calls_ /\ ram' = Cleared(ram, Lbss, given.bss)
      /\ given.build \in {"dos2", "banked", "r800"} => IsDos2
      /\ stAt' = CASE given.build = "rom" -> "main" [] Banked -> "transfer" [] OTHER -> "args"
  BY Zenon DEF ClearBss
<1>2. GivenOK /\ ram = Before
  BY <1>1, Zenon DEF BeginInv, MemoryInv
<1>3. ram' = Mem({})
  BY <1>1, <1>2, BssCleared
<1>4. given.build = "rom" => ~Banked
  BY DEF Banked
<1>w. \/ stAt' = "main" /\ given.build = "rom"
      \/ stAt' = "transfer" /\ Banked
      \/ stAt' = "args" /\ ~Banked /\ given.build # "rom"
  <2>1. CASE given.build = "rom"
    BY <1>1, <1>4, <2>1, Zenon
  <2>2. CASE given.build # "rom" /\ Banked
    BY <1>1, <2>2, Zenon
  <2>3. CASE given.build # "rom" /\ ~Banked
    BY <1>1, <2>3, Zenon
  <2> QED
    BY <2>1, <2>2, <2>3
<1>5. MemoryInv'
  <2>1. given.build = "rom" => \A a \in 0..Cells - 1 : Mem({})[a] = Wanted_(a)
    BY <1>4, AsWanted
  <2>2. \/ stAt' = "main" /\ given.build = "rom"
        \/ stAt' = "transfer"
        \/ stAt' = "args" /\ ~Banked
    BY <1>w, Zenon
  <2> QED
    BY <1>1, <1>3, <2>1, <2>2, GivenFixed, Zenon DEF MemoryInv
<1>6. WayInv'
  <2>1. \/ stAt' = "main" /\ given.build = "rom"
        \/ stAt' = "transfer" /\ Banked
        \/ stAt' = "args" /\ given.build # "rom"
    BY <1>w, Zenon
  <2> QED
    BY <1>1, <2>1, GivenFixed, Zenon DEF WayInv
<1>7. CallbacksInv'
  <2>1. stAt' = "transfer" \/ ~Banked
    BY <1>w, <1>4, Zenon
  <2>2. calls_ = Uncalled
    BY <1>1, Zenon DEF BeginInv, CallbacksInv
  <2> QED
    BY <1>1, <2>1, <2>2, GivenFixed, Zenon DEF CallbacksInv, Uncalled
<1>8. ArgsInv' /\ MapperInv'
  <2>1. stAt' \notin {"version", "himem", "mapper", "names"} /\ (stAt' = "main" => given.build = "rom" /\ ~Banked)
    BY <1>w, <1>4, Zenon
  <2> QED
    BY <1>1, <2>1, GivenFixed, Zenon DEF ArgsInv, MapperInv
<1> QED
  BY <1>1, <1>2, <1>5, <1>6, <1>7, <1>8, GivenFixed DEF BeginInv

LEMMA TransferKeeps == ASSUME BeginInv, Transfer PROVE BeginInv'
<1>1. /\ stAt = "transfer" /\ stAt' = "args" /\ given' = given /\ ram' = Ldir(ram, Image0, HelperAt, 2)
      /\ calls_' = Callbacks
  BY Zenon DEF Transfer, Callbacks
<1>2. GivenOK /\ ram = Mem({}) /\ Banked
  BY <1>1, Zenon DEF BeginInv, MemoryInv, WayInv
<1>3. ram' = Mem({"helper"})
  BY <1>1, <1>2, HelperMoved
<1>4. MemoryInv'
  BY <1>1, <1>2, <1>3, GivenFixed, Zenon DEF MemoryInv
<1>5. WayInv'
  <2>1. given.build # "rom"
    BY <1>2 DEF Banked
  <2>2. given.build \in {"dos2", "banked", "r800"} => IsDos2
    BY <1>1, Zenon DEF BeginInv, WayInv
  <2> QED
    BY <1>1, <2>1, <2>2, GivenFixed, Zenon DEF WayInv
<1>6. CallbacksInv' /\ ArgsInv' /\ MapperInv'
  BY <1>1, <1>2, GivenFixed, Zenon DEF CallbacksInv, ArgsInv, MapperInv, Callbacks
<1> QED
  BY <1>1, <1>2, <1>4, <1>5, <1>6, GivenFixed DEF BeginInv

LEMMA ArgsKeeps == ASSUME BeginInv, Args PROVE BeginInv'
<1> DEFINE end == CHOOSE a \in 1..Program0 : ram'[a] = 0 /\ \A d \in 1..a - 1 : ram'[d] # 0
           done == IF Banked THEN {"helper"} ELSE {}
           more == IF Banked THEN {"helper", "tail"} ELSE {"tail"}
           tail == given.tail
<1>1. /\ stAt = "args" /\ given' = given /\ calls_' = calls_ /\ ei_' = TRUE /\ brk_' = brk_
      /\ ram' = [ram EXCEPT ![1 + ram[0]] = 0]
      /\ argv_' = SubSeq([a \in 1..TailRoom |-> ram'[a]], 1, end - 1)
      /\ stAt' = CASE Banked -> "himem" [] given.build = "dos1" -> "version" [] OTHER -> "main"
  BY Zenon DEF Args
<1>2. GivenOK /\ ram = Mem(done) /\ given.build # "rom"
  BY <1>1, Zenon DEF BeginInv, MemoryInv, WayInv
<1>s. /\ "tail" \notin done /\ "tail" \in more
      /\ "helper" \in done <=> "helper" \in more
      /\ "shared" \notin done /\ "shared" \notin more
  OBVIOUS
<1>w. \/ stAt' = "himem" /\ Banked
      \/ stAt' = "version" /\ ~Banked /\ given.build = "dos1"
      \/ stAt' = "main" /\ ~Banked /\ given.build # "dos1"
  <2>1. CASE Banked
    <3>1. given.build # "dos1"
      BY <2>1 DEF Banked
    <3> QED
      BY <1>1, <2>1, <3>1, Zenon
  <2>2. CASE ~Banked /\ given.build = "dos1"
    BY <1>1, <2>2, Zenon
  <2>3. CASE ~Banked /\ given.build # "dos1"
    BY <1>1, <2>3, Zenon
  <2> QED
    BY <2>1, <2>2, <2>3
<1>m. more = IF Banked THEN {"helper", "tail"} ELSE {"tail"}
  OBVIOUS
<1> HIDE DEF done, more
<1>3. ram' = Mem(more) /\ Mem(more)[1 + tail] = 0 /\ \A a \in 1..tail : Mem(more)[a] = a
  <2>1. /\ [Mem(done) EXCEPT ![1 + Mem(done)[0]] = 0] = Mem(more)
        /\ Mem(more)[1 + tail] = 0 /\ \A a \in 1..tail : Mem(more)[a] = a
    <3>1. OnlyTail(done, more)
      BY <1>s, Zenon DEF OnlyTail
    <3>2. TailSet(done, more)
      BY <1>2, <3>1, TailEnded, Zenon
    <3> QED
      BY <3>2, Zenon DEF TailSet
  <2> QED
    BY <1>1, <1>2, <2>1, Zenon
<1>4. argv_' = [k \in 1..tail |-> k]
  <2>0. tail \in Nat /\ tail <= TailRoom /\ TailRoom \in Nat
    BY <1>2, Layout DEF GivenOK
  <2> DEFINE m == Mem(more)
  <2>1. m[1 + tail] = 0 /\ \A a \in 1..tail : m[a] # 0
    BY <1>3, <2>0
  <2> HIDE DEF m, tail
  <2>2. (CHOOSE a \in 1..Program0 : m[a] = 0 /\ \A d \in 1..a - 1 : m[d] # 0) = tail + 1
    BY <2>0, <2>1, ArgsFound
  <2>3. ram' = m
    BY <1>3 DEF m
  <2>4. end = tail + 1
    BY <2>2, <2>3, Zenon
  <2> HIDE DEF end
  <2>5. end - 1 = tail
    BY <2>0, <2>4
  <2>6. argv_' = SubSeq([a \in 1..TailRoom |-> m[a]], 1, tail)
    BY <1>1, <2>3, <2>5, Zenon
  <2>7. \A a \in 1..tail : m[a] = a
    BY <1>3 DEF m
  <2>8. SubSeq([a \in 1..TailRoom |-> m[a]], 1, tail) = [k \in 1..tail |-> k]
    BY <2>0, <2>7
  <2> QED
    BY <2>6, <2>8
<1>5. MemoryInv'
  <2>1. ~Banked => \A a \in 0..Cells - 1 : Mem({"tail"})[a] = Wanted_(a)
    BY <1>2, AsWanted
  <2>2. Banked => ram' = Mem({"helper", "tail"})
    BY <1>3, <1>m, Zenon
  <2>3. ~Banked => ram' = Mem({"tail"})
    BY <1>3, <1>m, Zenon
  <2> QED
    BY <1>1, <1>w, <2>1, <2>2, <2>3, GivenFixed, Zenon DEF MemoryInv
<1>6. WayInv'
  <2>1. given.build \in {"dos2", "banked", "r800"} => IsDos2
    BY <1>1, Zenon DEF BeginInv, WayInv
  <2>2. given.build = "r800" => Banked
    BY DEF Banked
  <2> QED
    BY <1>1, <1>2, <1>w, <2>1, <2>2, GivenFixed, Zenon DEF WayInv
<1>7. CallbacksInv'
  <2>1. calls_ = IF Banked THEN Callbacks ELSE Uncalled
    BY <1>1, Zenon DEF BeginInv, CallbacksInv
  <2> QED
    BY <1>1, <1>w, <2>1, GivenFixed, Zenon DEF CallbacksInv, Callbacks, Uncalled
<1>8. ArgsInv' /\ MapperInv'
  BY <1>1, <1>w, <1>4, GivenFixed, Zenon DEF ArgsInv, MapperInv
<1> QED
  BY <1>1, <1>2, <1>5, <1>6, <1>7, <1>8, GivenFixed DEF BeginInv

LEMMA BdosVersionKeeps == ASSUME BeginInv, BdosVersion PROVE BeginInv'
<1>1. /\ stAt = "version" /\ stAt' = "main" /\ UNCHANGED <<given, ram, calls_, ei_, brk_, argv_, operand, names>>
      /\ mode' = CASE given.machine = "cpm" -> 0 [] given.machine = "dos1" -> 1 [] OTHER -> 2
  BY Zenon DEF BdosVersion
<1>2. GivenOK /\ ram = Mem({"tail"}) /\ given.build = "dos1"
  BY <1>1, Zenon DEF BeginInv, MemoryInv, WayInv
<1>3. ~Banked /\ given.build # "rom" /\ given.build # "r800" /\ given.build \notin {"dos2", "banked", "r800"}
  BY <1>2 DEF Banked
<1>4. MemoryInv'
  <2>1. \A a \in 0..Cells - 1 : Mem({"tail"})[a] = Wanted_(a)
    BY <1>3, AsWanted
  <2> QED
    BY <1>1, <1>2, <2>1, GivenFixed, Zenon DEF MemoryInv
<1>5. WayInv' /\ CallbacksInv'
  BY <1>1, <1>3, GivenFixed, Zenon DEF BeginInv, WayInv, CallbacksInv, Callbacks, Uncalled
<1>6. ArgsInv' /\ MapperInv'
  <2>1. argv_ = [k \in 1..given.tail |-> k] /\ ei_
    BY <1>1, Zenon DEF BeginInv, ArgsInv
  <2> QED
    BY <1>1, <1>3, <2>1, GivenFixed, Zenon DEF ArgsInv, MapperInv
<1> QED
  BY <1>1, <1>2, <1>4, <1>5, <1>6, GivenFixed DEF BeginInv

LEMMA InitHimemKeeps == ASSUME BeginInv, InitHimem PROVE BeginInv'
<1>1. /\ stAt = "himem" /\ UNCHANGED <<given, calls_, ei_, argv_, mode, operand, names>>
      /\ ram' = Cleared(ram, Himem, given.hcomm - Himem) /\ brk_' = given.hcomm
      /\ \/ stAt' = "mapper" /\ (given.build = "r800" => given.machine = "turbor")
         \/ stAt' = "exit"
  BY Zenon DEF InitHimem
<1>2. GivenOK /\ Banked /\ ram = Mem({"helper", "tail"})
  BY <1>1, Zenon DEF BeginInv, MemoryInv, WayInv
<1>3. ram' = Mem({"helper", "tail", "shared"})
  BY <1>1, <1>2, SharedCleared
<1>4. MemoryInv'
  BY <1>1, <1>3, GivenFixed, Zenon DEF MemoryInv
<1>5. WayInv'
  <2>1. given.build \in {"dos2", "banked", "r800"} => IsDos2
    BY <1>1, Zenon DEF BeginInv, WayInv
  <2> QED
    BY <1>1, <1>2, <2>1, GivenFixed, Zenon DEF WayInv
<1>6. CallbacksInv'
  <2>1. calls_ = Callbacks
    BY <1>1, <1>2, Zenon DEF BeginInv, CallbacksInv
  <2> QED
    BY <1>1, <1>2, <2>1, GivenFixed, Zenon DEF CallbacksInv, Callbacks
<1>7. ArgsInv' /\ MapperInv'
  <2>1. argv_ = [k \in 1..given.tail |-> k] /\ ei_
    BY <1>1, Zenon DEF BeginInv, ArgsInv
  <2> QED
    BY <1>1, <2>1, GivenFixed, Zenon DEF ArgsInv, MapperInv
<1> QED
  BY <1>1, <1>2, <1>4, <1>5, <1>6, <1>7, GivenFixed DEF BeginInv

LEMMA MapperInitKeeps == ASSUME BeginInv, MapperInit PROVE BeginInv'
<1>1. /\ stAt = "mapper" /\ stAt' = "names" /\ UNCHANGED <<given, ram, calls_, ei_, brk_, argv_, mode, names>>
      /\ operand' = [alloc |-> TableAddr + 3 * 0, free |-> TableAddr + 3 * 1,
                     bankcall |-> TableAddr + 3 * 8, put0 |-> TableAddr + 3 * 8, get0 |-> TableAddr + 3 * 9,
                     put1 |-> TableAddr + 3 * 10, get1 |-> TableAddr + 3 * 11,
                     put2 |-> TableAddr + 3 * 12, get2 |-> TableAddr + 3 * 13]
  BY Zenon DEF MapperInit
<1>2. GivenOK /\ Banked /\ ram = Mem({"helper", "tail", "shared"})
  BY <1>1, Zenon DEF BeginInv, MemoryInv, WayInv
<1>3. \A f \in DOMAIN Functions_ : Called_(f)' = Functions_[f]
  <2>0. \A n \in 0..15 : ((TableAddr + 3 * n) - TableAddr) \div 3 + 1 = n + 1
    BY DEF TableAddr
  <2>1. DOMAIN Functions_ = {"alloc", "free", "bankcall", "put0", "get0", "put1", "get1", "put2", "get2"}
    BY DEF Functions_
  <2>2. /\ Called_("alloc")' = Table[0 + 1] /\ Called_("free")' = Table[1 + 1] /\ Called_("bankcall")' = Table[8 + 1]
        /\ Called_("put0")' = Table[8 + 1] /\ Called_("get0")' = Table[9 + 1] /\ Called_("put1")' = Table[10 + 1]
        /\ Called_("get1")' = Table[11 + 1] /\ Called_("put2")' = Table[12 + 1] /\ Called_("get2")' = Table[13 + 1]
    BY <1>1, <2>0 DEF Called_
  <2>3. /\ Table[1] = "ALL_SEG" /\ Table[2] = "FRE_SEG" /\ Table[9] = "PUT_P0" /\ Table[10] = "GET_P0"
        /\ Table[11] = "PUT_P1" /\ Table[12] = "GET_P1" /\ Table[13] = "PUT_P2" /\ Table[14] = "GET_P2"
    BY DEF Table
  <2>4. /\ Functions_["alloc"] = "ALL_SEG" /\ Functions_["free"] = "FRE_SEG" /\ Functions_["bankcall"] = "PUT_P0"
        /\ Functions_["put0"] = "PUT_P0" /\ Functions_["get0"] = "GET_P0" /\ Functions_["put1"] = "PUT_P1"
        /\ Functions_["get1"] = "GET_P1" /\ Functions_["put2"] = "PUT_P2" /\ Functions_["get2"] = "GET_P2"
    BY DEF Functions_
  <2> QED
    BY <2>1, <2>2, <2>3, <2>4
<1>4. MemoryInv'
  BY <1>1, <1>2, GivenFixed, Zenon DEF MemoryInv
<1>5. WayInv'
  BY <1>1, GivenFixed, Zenon DEF BeginInv, WayInv
<1>6. CallbacksInv'
  BY <1>1, GivenFixed, Zenon DEF BeginInv, CallbacksInv, Callbacks, Uncalled
<1>7. ArgsInv'
  BY <1>1, GivenFixed, Zenon DEF BeginInv, ArgsInv
<1>8. MapperInv'
  BY <1>1, <1>3, GivenFixed, Zenon DEF MapperInv, Functions_
<1> QED
  BY <1>1, <1>2, <1>4, <1>5, <1>6, <1>7, <1>8, GivenFixed DEF BeginInv

LEMMA MakeNamesKeeps == ASSUME BeginInv, MakeNames PROVE BeginInv'
<1>1. /\ stAt = "names" /\ stAt' = "main" /\ UNCHANGED <<given, ram, calls_, ei_, brk_, argv_, mode, operand>>
      /\ names' = [ovl |-> OvlName(given.path \o Ext), tsr |-> TsrEnvName(OvlName(given.path \o Ext))]
  BY Zenon DEF MakeNames
<1>2. GivenOK /\ Banked /\ ram = Mem({"helper", "tail", "shared"})
  BY <1>1, Zenon DEF BeginInv, MemoryInv, WayInv
<1>b. given.build # "rom" /\ given.build # "dos1"
  BY <1>2 DEF Banked
<1>3. NamesOf(given.path, names'.ovl, names'.tsr)
  <2>1. NamesOf(given.path, OvlName(given.path \o Ext), TsrEnvName(OvlName(given.path \o Ext)))
    BY <1>2, Named, Zenon DEF GivenOK
  <2> QED
    BY <1>1, <2>1, Zenon
<1>4. MemoryInv'
  <2>1. \A a \in 0..Cells - 1 : Mem({"helper", "tail", "shared"})[a] = Wanted_(a)
    BY <1>2, <1>b, AsWanted
  <2> QED
    BY <1>1, <1>2, <2>1, GivenFixed, Zenon DEF MemoryInv
<1>5. WayInv'
  BY <1>1, GivenFixed, Zenon DEF BeginInv, WayInv
<1>6. CallbacksInv'
  BY <1>1, GivenFixed, Zenon DEF BeginInv, CallbacksInv, Callbacks, Uncalled
<1>7. ArgsInv'
  <2>1. argv_ = [k \in 1..given.tail |-> k] /\ ei_ /\ brk_ = given.hcomm
    BY <1>1, Zenon DEF BeginInv, ArgsInv
  <2> QED
    BY <1>1, <1>b, <2>1, GivenFixed, Zenon DEF ArgsInv
<1>8. MapperInv'
  <2>1. \A f \in DOMAIN Functions_ : Called_(f) = Functions_[f]
    BY <1>1, Zenon DEF BeginInv, MapperInv
  <2>2. \A f \in DOMAIN Functions_ : Called_(f)' = Called_(f)
    BY <1>1 DEF Called_
  <2>3. MapperInv' <=>
          /\ stAt' = "names" \/ (stAt' = "main" /\ Banked') => \A f \in DOMAIN Functions_ : Called_(f)' = Functions_[f]
          /\ stAt' = "main" /\ Banked' => NamesOf(given'.path, names'.ovl, names'.tsr)
    BY Zenon DEF MapperInv, Functions_, NamesOf
  <2> QED
    BY <1>1, <1>3, <2>1, <2>2, <2>3, Zenon
<1> QED
  BY <1>1, <1>2, <1>4, <1>5, <1>6, <1>7, <1>8, GivenFixed DEF BeginInv

LEMMA ExitKeeps == ASSUME BeginInv, Exit PROVE BeginInv'
<1>1. /\ stAt \in {"main", "exit"} /\ stAt' = "ended" /\ given' = given
      /\ calls_' = IF Banked THEN Uncalled ELSE calls_
  BY Zenon DEF Exit, Uncalled
<1>2. MemoryInv' /\ WayInv' /\ ArgsInv' /\ MapperInv'
  BY <1>1, Zenon DEF MemoryInv, WayInv, ArgsInv, MapperInv
<1>3. CallbacksInv'
  <2>1. ~Banked => calls_ = Uncalled
    BY Zenon DEF BeginInv, CallbacksInv
  <2>2. calls_' = Uncalled
    BY <1>1, <2>1, Zenon
  <2> QED
    BY <1>1, <2>2, Zenon DEF CallbacksInv, Uncalled
<1> QED
  BY <1>1, <1>2, <1>3, GivenFixed DEF BeginInv

LEMMA StepsKeep == BeginInv /\ [StartNext]_startVars => BeginInv'
<1> SUFFICES ASSUME BeginInv, [StartNext]_startVars PROVE BeginInv'
  OBVIOUS
<1>1. CASE UNCHANGED startVars
  <2>1. UNCHANGED <<given, stAt, ram, calls_, ei_, brk_, argv_, mode, operand, names>>
    BY <1>1 DEF startVars
  <2>2. MemoryInv'
    BY <2>1, GivenFixed, Zenon DEF BeginInv, MemoryInv
  <2>4. WayInv' /\ CallbacksInv' /\ ArgsInv'
    <3>1. WayInv'
      BY <2>1, GivenFixed, Zenon DEF BeginInv, WayInv
    <3>2. CallbacksInv'
      BY <2>1, GivenFixed, Zenon DEF BeginInv, CallbacksInv, Callbacks, Uncalled
    <3>3. ArgsInv'
      BY <2>1, GivenFixed DEF BeginInv, ArgsInv
    <3> QED
      BY <3>1, <3>2, <3>3
  <2>3. MapperInv'
    BY <2>1, Zenon DEF BeginInv, MapperInv, Called_, Functions_, NamesOf, Banked
  <2> QED
    BY <2>1, <2>2, <2>3, <2>4, GivenFixed DEF BeginInv
<1>2. CASE StartNext
  BY <1>2, NotDos2Keeps, ClearBssKeeps, TransferKeeps, ArgsKeeps, BdosVersionKeeps, InitHimemKeeps,
     MapperInitKeeps, MakeNamesKeeps, ExitKeeps, Zenon DEF StartNext
<1> QED
  BY <1>1, <1>2

LEMMA BeginsRight == BeginInv => StartedRight
<1> SUFFICES ASSUME BeginInv PROVE StartedRight
  OBVIOUS
<1>1. ASSUME stAt = "ended" PROVE calls_ = [abort |-> "none", diskerr |-> "none"]
  BY <1>1, Zenon DEF BeginInv, CallbacksInv, Uncalled
<1>2. ASSUME stAt = "main"
      PROVE  /\ \A a \in 0..Cells - 1 : ram[a] = Wanted_(a)
             /\ given.build \in {"dos2", "banked"} => given.machine \in {"dos2", "turbor"}
             /\ given.build = "r800" => given.machine = "turbor"
             /\ given.build # "rom" => argv_ = [k \in 1..given.tail |-> k] /\ ei_
             /\ given.build = "dos1" => mode = CASE given.machine = "cpm" -> 0 [] given.machine = "dos1" -> 1 [] OTHER -> 2
  BY <1>2, Zenon DEF BeginInv, MemoryInv, WayInv, ArgsInv, IsDos2
<1>3. ASSUME stAt = "main", Banked
      PROVE  /\ calls_ = [abort |-> "AbortCallback", diskerr |-> "DiskECallback"] /\ brk_ = given.hcomm
             /\ \A f \in DOMAIN Functions_ : Called_(f) = Functions_[f]
             /\ NamesOf(given.path, names.ovl, names.tsr)
  <2>1. calls_ = [abort |-> "AbortCallback", diskerr |-> "DiskECallback"]
    BY <1>3, Zenon DEF BeginInv, CallbacksInv, Callbacks
  <2> QED
    BY <1>3, <2>1, Zenon DEF BeginInv, ArgsInv, MapperInv
<1> QED
  BY <1>1, <1>2, <1>3, Zenon DEF StartedRight, NamesOf

(* When main() begins, in each build and on each machine it is for, the    *)
(* memory, arguments, callbacks, calls to the mapper and names are as they *)
(* must be, and DOS is left without callbacks.                             *)
THEOREM StartTheorem == StartSpec => []StartedRight
<1>1. StartInit => BeginInv
  BY BeginInitial
<1>2. BeginInv /\ [StartNext]_startVars => BeginInv'
  BY StepsKeep
<1>3. BeginInv => StartedRight
  BY BeginsRight
<1> QED
  BY <1>1, <1>2, <1>3, PTL DEF StartSpec
=============================================================================
