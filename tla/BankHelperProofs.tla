-------------------------- MODULE BankHelperProofs --------------------------
(***************************************************************************)
(* Proofs about BankHelper for every set of banks, every assignment of     *)
(* handlers to banks, every bound, and whether or not handlers enable      *)
(* interrupts.                                                             *)
(***************************************************************************)
EXTENDS BankHelper, SequenceTheorems, TLAPS

(* What PUSH does to a stack.                                              *)
LEMMA PushFacts ==
  ASSUME NEW S, NEW s \in Seq(S), NEW e \in S
  PROVE  /\ Append(s, e) \in Seq(S)
         /\ Len(Append(s, e)) = Len(s) + 1
         /\ \A j \in 1..Len(s) : Append(s, e)[j] = s[j]
         /\ Append(s, e)[Len(s) + 1] = e
  BY AppendProperties

(* What moving a stack pointer down to n entries leaves.                   *)
LEMMA CutFacts ==
  ASSUME NEW S, NEW s \in Seq(S), NEW n \in 0..Len(s)
  PROVE  /\ SubSeq(s, 1, n) \in Seq(S)
         /\ Len(SubSeq(s, 1, n)) = n
         /\ \A j \in 1..n : SubSeq(s, 1, n)[j] = s[j]
  BY SubSeqProperties

(* Cutting a stack at its length changes nothing.                          *)
LEMMA CutAll ==
  ASSUME NEW S, NEW s \in Seq(S)
  PROVE  SubSeq(s, 1, Len(s)) = s
  BY SubSeqProperties, SeqEqual

(* What the entries of an application stack and the frames are made of.    *)
LEMMA EntryTypes ==
  ASSUME NEW s \in Seq(StackEntry), NEW q \in 1..Len(s)
  PROVE  /\ s[q].k \in {"ret", "int"} /\ s[q].pc \in Pos
         /\ s[q].pc.f \in Nat /\ s[q].pc.d \in Nat /\ s[q].pc.bank \in Bank
<1>1. s[q] \in StackEntry
  BY ElementOfSeq
<1> QED
  BY <1>1 DEF StackEntry, Pos

LEMMA ResumeTwice ==
  ASSUME NEW p \in Pos
  PROVE  Resume(Resume(p)) = Resume(p)
  BY DEF Pos, Resume

(* A return address is a position.                                         *)
LEMMA ResumeType ==
  ASSUME NEW p \in Pos
  PROVE  /\ Resume(p) \in Pos
         /\ Resume(p).who = p.who /\ Resume(p).bank = p.bank /\ Resume(p).i = p.i
         /\ Resume(p).d = p.d /\ Resume(p).f = p.f
         /\ Resume(p).at = "go" /\ Resume(p).tgt = p.bank
  BY DEF Pos, Resume

-----------------------------------------------------------------------------
LEMMA InitStack == Init => StackInv
  BY BankAssumption DEF Init, StackInv, TypeOK, EntriesOK, FramesInOrder, LevelsOK,
     BottomOK, PositionOK, Run, Pos, Frame, StackEntry

(* Steps that move neither the CPU, the mapping nor the stacks.            *)
LEMMA QuietStack ==
  ASSUME StackInv, TypeOK', UNCHANGED <<banks, stacks, pc>>, iff' => iff \/ pc.at = "go"
  PROVE  StackInv'
  BY DEF StackInv, EntriesOK, FramesInOrder, LevelsOK, BottomOK, PositionOK,
     Owes, Above, banks, stacks

(* Steps of code that is not in the helper, which may stay where it is or  *)
(* start a call: only at, tgt and i of the position change.                *)
LEMMA MoveStack ==
  ASSUME StackInv, TypeOK', UNCHANGED <<cpu, banks, stacks>>,
         pc.at = "go", pc'.at \in {"go", "call"},
         pc'.who = pc.who, pc'.bank = pc.bank, pc'.d = pc.d, pc'.f = pc.f
  PROVE  StackInv'
  BY DEF StackInv, EntriesOK, FramesInOrder, LevelsOK, BottomOK, PositionOK,
     Owes, Above, cpu, banks, stacks

LEMMA UserCallStack ==
  ASSUME StackInv, NEW b \in Bank, UserCall(b)
  PROVE  StackInv'
<1>1. pc' \in Pos
  BY DEF StackInv, TypeOK, UserCall, Pos
<1>2. TypeOK'
  BY <1>1 DEF StackInv, TypeOK, UserCall, cpu, banks, stacks, events
<1>3. /\ pc.at = "go" /\ pc'.at = "call" /\ pc'.who = pc.who
      /\ pc'.bank = pc.bank /\ pc'.d = pc.d /\ pc'.f = pc.f
  BY DEF StackInv, TypeOK, UserCall, UserGo, Pos
<1> QED
  BY <1>2, <1>3, MoveStack DEF UserCall

LEMMA CallEnterStack ==
  ASSUME StackInv, CallEnter
  PROVE  StackInv'
<1> DEFINE e == [k |-> "ret", pc |-> Resume(pc)]
<1>1. /\ pc \in Pos /\ pc.at = "call" /\ pc' = [pc EXCEPT !.at = "call1"]
      /\ pc.d = Len(stk) /\ Len(stk) \in Nat
  BY DEF StackInv, TypeOK, CallEnter, PositionOK
<1>2. pc' \in Pos /\ Resume(pc') = Resume(pc)
  BY <1>1 DEF Pos, Resume
<1>3. e \in StackEntry
  BY <1>1, ResumeType DEF StackEntry
<1>4. /\ stk' = Append(stk, e) /\ stk' \in Seq(StackEntry)
      /\ Len(stk') = Len(stk) + 1
      /\ \A q \in 1..Len(stk) : stk'[q] = stk[q]
      /\ stk'[Len(stk) + 1] = e
  BY <1>3, PushFacts DEF StackInv, TypeOK, CallEnter
<1>5. TypeOK'
  <2>1. UNCHANGED <<eiOp, p0, p1, cur, bstk, bsp, svR, irq, vdp, stat, clk, phase>>
    BY DEF CallEnter, banks, events
  <2>2. iff' = FALSE /\ svC' \in Nat
    BY <1>1 DEF CallEnter
  <2> QED
    BY <1>2, <1>4, <2>1, <2>2 DEF StackInv, TypeOK
<1>6. pc'.d = pc.d /\ pc'.f = pc.f /\ pc'.who = pc.who /\ pc'.bank = pc.bank
      /\ pc'.at = "call1" /\ pc'.tgt = pc.tgt
  BY <1>1 DEF Pos
<1>7. UNCHANGED <<banks, bstk, bsp>> /\ ~iff' /\ svC' = Len(stk) + 1
  BY DEF CallEnter
<1>8. EntriesOK' /\ FramesInOrder' /\ LevelsOK' /\ BottomOK'
  BY <1>1, <1>4, <1>6, <1>7 DEF StackInv, EntriesOK, FramesInOrder, LevelsOK, BottomOK, Owes, Above
<1>9. PositionOK'
  BY <1>1, <1>2, <1>4, <1>6, <1>7 DEF StackInv, PositionOK, banks
<1> QED
  BY <1>5, <1>8, <1>9 DEF StackInv

LEMMA CallSwitchStack ==
  ASSUME StackInv, CallSwitch
  PROVE  StackInv'
<1> DEFINE fr == [pc |-> Resume(pc), seg |-> cur]
<1>1. /\ pc \in Pos /\ pc.at = "call1" /\ pc' = [pc EXCEPT !.at = "call2"]
      /\ bsp = pc.f /\ Len(bstk) = bsp /\ cur = pc.bank /\ ~iff
      /\ stk \in Seq(StackEntry) /\ bstk \in Seq(Frame) /\ cur \in Bank
      /\ pc.d = Len(stk) - 1
      /\ svC = Len(stk) /\ svC > 0 /\ stk[svC] = [k |-> "ret", pc |-> Resume(pc)]
  BY DEF StackInv, TypeOK, CallSwitch, PositionOK
<1>2. /\ pc' \in Pos /\ Resume(pc') = Resume(pc)
      /\ pc'.d = pc.d /\ pc'.f = pc.f /\ pc'.who = pc.who /\ pc'.bank = pc.bank
      /\ pc'.at = "call2" /\ pc'.tgt = pc.tgt
  BY <1>1 DEF Pos, Resume
<1>3. fr \in Frame
  BY <1>1, ResumeType DEF Frame
<1>4. /\ bstk' = Append(bstk, fr) /\ bstk' \in Seq(Frame)
      /\ Len(bstk') = Len(bstk) + 1
      /\ \A j \in 1..Len(bstk) : bstk'[j] = bstk[j]
      /\ bstk'[Len(bstk) + 1] = fr
  <2>1. SubSeq(bstk, 1, bsp) = bstk
    BY <1>1, CutAll
  <2>2. bstk' = Append(bstk, fr)
    BY <2>1 DEF CallSwitch
  <2> QED
    BY <1>1, <1>3, <2>2, PushFacts
<1>5. UNCHANGED <<iff, eiOp, p1, bsp, stk, svC, svR, irq, vdp, stat, clk, phase>>
  BY DEF CallSwitch, cpu, events
<1>6. cur' = pc.tgt /\ p0' = pc.tgt /\ pc.tgt \in Bank
  BY <1>1 DEF CallSwitch, Pos
<1>7. TypeOK'
  BY <1>2, <1>4, <1>5, <1>6 DEF StackInv, TypeOK
<1>8. pc.f \in Nat /\ pc.d \in Nat /\ Len(stk) \in Nat
  BY <1>1 DEF Pos
<1>9. \A q \in 1..pc.d : stk[q].pc.f \in Nat
  BY <1>1, <1>8, EntryTypes
<1>10. EntriesOK'
  <2> SUFFICES ASSUME NEW q \in 1..pc.d
               PROVE  /\ stk[q].pc.d = q - 1
                      /\ stk[q].pc.at \in IF stk[q].k = "ret" THEN {"go"}
                                          ELSE {"go", "call", "ret"}
                      /\ Owes(stk[q]) =>
                           /\ stk[q].pc.f < Len(bstk')
                           /\ bstk'[stk[q].pc.f + 1] =
                                [pc |-> Resume(stk[q].pc), seg |-> stk[q].pc.bank]
    BY <1>2, <1>5 DEF EntriesOK, Owes
  <2>1. Owes(stk[q]) => /\ stk[q].pc.f < Len(bstk)
                        /\ bstk[stk[q].pc.f + 1] =
                             [pc |-> Resume(stk[q].pc), seg |-> stk[q].pc.bank]
    BY DEF StackInv, EntriesOK
  <2>2. Owes(stk[q]) => /\ stk[q].pc.f < Len(bstk')
                        /\ bstk'[stk[q].pc.f + 1] = bstk[stk[q].pc.f + 1]
    BY <1>1, <1>4, <1>8, <1>9, <2>1
  <2> QED
    BY <2>1, <2>2 DEF StackInv, EntriesOK
<1>11. FramesInOrder' /\ LevelsOK' /\ BottomOK'
  BY <1>2, <1>5 DEF StackInv, FramesInOrder, LevelsOK, BottomOK, Owes, Above
<1>12. PositionOK'
  BY <1>1, <1>2, <1>4, <1>5, <1>6 DEF PositionOK
<1> QED
  BY <1>7, <1>10, <1>11, <1>12 DEF StackInv

LEMMA CallLeaveStack ==
  ASSUME StackInv, CallLeave
  PROVE  StackInv'
<1>1. /\ pc \in Pos /\ pc.at = "call2"
      /\ bsp = pc.f /\ Len(bstk) = bsp + 1 /\ p0 = pc.tgt /\ cur = pc.tgt
      /\ stk \in Seq(StackEntry) /\ bstk \in Seq(Frame)
      /\ pc.d = Len(stk) - 1
      /\ svC = Len(stk) /\ svC > 0 /\ stk[svC] = [k |-> "ret", pc |-> Resume(pc)]
      /\ bstk[bsp + 1] = [pc |-> Resume(pc), seg |-> pc.bank]
  BY DEF StackInv, TypeOK, CallLeave, PositionOK
<1>2. /\ pc.tgt \in Bank /\ pc.f \in Nat /\ pc.d \in Nat /\ Len(stk) \in Nat
      /\ svC = pc.d + 1
  BY <1>1 DEF Pos
<1>3. UNCHANGED <<eiOp, p0, cur, bstk, svR, irq, vdp, stat, clk, phase>>
  BY DEF CallLeave, events
<1>4. stk' = stk
  BY <1>1, CutAll DEF CallLeave
<1>5. /\ p1' = pc.tgt /\ bsp' = pc.f + 1 /\ svC' = 0
      /\ pc' = Run(pc.tgt, pc.d + 1, pc.f + 1) /\ iff' \in BOOLEAN
  BY <1>1, <1>2 DEF CallLeave
<1>6. /\ pc' \in Pos /\ pc'.d = pc.d + 1 /\ pc'.f = pc.f + 1 /\ pc'.who = "run"
      /\ pc'.bank = pc.tgt /\ pc'.at = "go"
  BY <1>2, <1>5 DEF Run, Pos
<1>7. TypeOK'
  BY <1>2, <1>3, <1>4, <1>5, <1>6 DEF StackInv, TypeOK
<1> DEFINE n == pc.d + 1
<1>8. /\ n = Len(stk) /\ stk[n].k = "ret" /\ stk[n].pc = Resume(pc)
      /\ Resume(stk[n].pc) = stk[n].pc
      /\ stk[n].pc.d = pc.d /\ stk[n].pc.f = pc.f /\ stk[n].pc.at = "go"
      /\ stk[n].pc.bank = pc.bank /\ stk[n].pc.who = pc.who
  BY <1>1, <1>2, ResumeType, ResumeTwice
<1>9. EntriesOK'
  <2> SUFFICES ASSUME NEW q \in 1..n
               PROVE  /\ stk[q].pc.d = q - 1
                      /\ stk[q].pc.at \in IF stk[q].k = "ret" THEN {"go"}
                                          ELSE {"go", "call", "ret"}
                      /\ Owes(stk[q]) =>
                           /\ stk[q].pc.f < Len(bstk)
                           /\ bstk[stk[q].pc.f + 1] =
                                [pc |-> Resume(stk[q].pc), seg |-> stk[q].pc.bank]
    BY <1>3, <1>4, <1>6 DEF EntriesOK, Owes
  <2>1. CASE q \in 1..pc.d
    BY <2>1 DEF StackInv, EntriesOK
  <2>2. CASE q = n
    BY <1>1, <1>2, <1>8, <2>2
  <2> QED
    BY <1>2, <2>1, <2>2
<1>10. \A q \in 1..Len(stk) : stk[q].pc.f \in Nat
  BY <1>1, EntryTypes
<1>11. FramesInOrder'
  <2>1. \A q \in 1..pc.d : Owes(stk[q]) => stk[q].pc.f < pc.f
    BY DEF StackInv, FramesInOrder
  <2>2. \A q \in 1..n : Owes(stk[q]) => stk[q].pc.f < pc.f + 1
    <3>1. \A q \in 1..n : q \in 1..pc.d \/ q = n
      BY <1>2
    <3>2. \A q \in 1..n : stk[q].pc.f \in Nat
      BY <1>8, <1>10
    <3> QED
      BY <1>2, <1>8, <2>1, <3>1, <3>2
  <2>3. \A q, r \in 1..n : q < r /\ Owes(stk[q]) => stk[q].pc.f < stk[r].pc.f
    <3> SUFFICES ASSUME NEW q \in 1..n, NEW r \in 1..n, q < r, Owes(stk[q])
                 PROVE  stk[q].pc.f < stk[r].pc.f
      OBVIOUS
    <3>1. q \in 1..pc.d
      BY <1>2
    <3>2. CASE r \in 1..pc.d
      BY <3>1, <3>2 DEF StackInv, FramesInOrder
    <3>3. CASE r = n
      BY <1>8, <2>1, <3>1, <3>3
    <3> QED
      BY <1>2, <3>2, <3>3
  <2> QED
    BY <1>3, <1>4, <1>6, <2>2, <2>3 DEF FramesInOrder, Owes
<1>12. LevelsOK'
  <2> SUFFICES ASSUME NEW q \in 1..n
               PROVE  /\ stk[q].k = "int" <=> Above(q)'.who = "isr"
                      /\ Above(q)'.f = stk[q].pc.f + (IF Owes(stk[q]) THEN 1 ELSE 0)
                      /\ stk[q].k = "int" /\ stk[q].pc.at # "ret" =>
                           Above(q)'.bank = stk[q].pc.bank
    BY <1>3, <1>4, <1>6 DEF LevelsOK, Owes
  <2>1. CASE q = n
    BY <1>2, <1>4, <1>6, <1>8, <2>1 DEF Above, Owes
  <2>2. CASE q \in 1..pc.d
    <3>1. /\ Above(q)'.who = Above(q).who /\ Above(q)'.f = Above(q).f
          /\ Above(q)'.bank = Above(q).bank
      BY <1>2, <1>4, <1>6, <1>8, <2>2 DEF Above
    <3> QED
      BY <2>2, <3>1 DEF StackInv, LevelsOK
  <2> QED
    BY <1>2, <2>1, <2>2
<1>13. BottomOK'
  BY <1>2, <1>4, <1>6, <1>8 DEF StackInv, BottomOK
<1>14. PositionOK'
  BY <1>1, <1>2, <1>3, <1>4, <1>5, <1>6 DEF PositionOK
<1> QED
  BY <1>7, <1>9, <1>11, <1>12, <1>13, <1>14 DEF StackInv

LEMMA UserReturnStack ==
  ASSUME StackInv, UserReturn
  PROVE  StackInv'
<1> DEFINE n == Len(stk)
<1> DEFINE t == stk[n].pc
<1>1. /\ pc \in Pos /\ pc.at = "go" /\ pc.who = "run" /\ pc.d > 0
      /\ bsp = pc.f /\ Len(bstk) = bsp /\ p0 = cur /\ p1 = cur
      /\ stk \in Seq(StackEntry) /\ bstk \in Seq(Frame) /\ pc.d = n
  BY DEF StackInv, TypeOK, UserReturn, PositionOK
<1>2. n \in Nat /\ n > 0 /\ n \in 1..n /\ n - 1 \in 0..n
  BY <1>1
<1>3. t \in Pos /\ stk[n].k \in {"ret", "int"} /\ t.f \in Nat /\ t.bank \in Bank
  BY <1>1, <1>2, EntryTypes
<1>4. stk[n].k = "ret"
  <2>1. stk[n].k # "int"
    BY <1>1, <1>2 DEF StackInv, LevelsOK, Above
  <2> QED
    BY <1>3, <2>1
<1>5. /\ t.d = n - 1 /\ t.at = "go" /\ t.f < Len(bstk)
      /\ bstk[t.f + 1] = [pc |-> Resume(t), seg |-> t.bank]
  BY <1>1, <1>2, <1>4 DEF StackInv, EntriesOK, Owes
<1>6. UNCHANGED <<iff, eiOp, p0, p1, cur, bstk, bsp, svC, svR, irq, vdp, stat, clk, phase>>
  BY DEF UserReturn, cpu, banks, events
<1>7. /\ stk' \in Seq(StackEntry) /\ Len(stk') = n - 1
      /\ \A q \in 1..n - 1 : stk'[q] = stk[q]
  BY <1>1, <1>2, CutFacts DEF UserReturn, Pop
<1>8. pc' = [t EXCEPT !.at = "ret"]
  BY DEF UserReturn, Top
<1>9. /\ pc' \in Pos /\ Resume(pc') = Resume(t)
      /\ pc'.d = n - 1 /\ pc'.f = t.f /\ pc'.who = t.who /\ pc'.bank = t.bank
      /\ pc'.at = "ret" /\ pc'.tgt = t.tgt
  BY <1>3, <1>5, <1>8 DEF Pos, Resume
<1>10. TypeOK'
  BY <1>6, <1>7, <1>9 DEF StackInv, TypeOK
<1>11. EntriesOK'
  <2> SUFFICES ASSUME NEW q \in 1..n - 1
               PROVE  /\ stk[q].pc.d = q - 1
                      /\ stk[q].pc.at \in IF stk[q].k = "ret" THEN {"go"}
                                          ELSE {"go", "call", "ret"}
                      /\ Owes(stk[q]) =>
                           /\ stk[q].pc.f < Len(bstk)
                           /\ bstk[stk[q].pc.f + 1] =
                                [pc |-> Resume(stk[q].pc), seg |-> stk[q].pc.bank]
    BY <1>6, <1>7, <1>9 DEF EntriesOK, Owes
  <2> QED
    BY <1>1, <1>2 DEF StackInv, EntriesOK
<1>12. FramesInOrder'
  <2>1. \A q, r \in 1..n : q < r /\ Owes(stk[q]) => stk[q].pc.f < stk[r].pc.f
    BY <1>1 DEF StackInv, FramesInOrder
  <2>2. \A q, r \in 1..n - 1 : q < r /\ Owes(stk[q]) => stk[q].pc.f < stk[r].pc.f
    BY <1>2, <2>1
  <2>3. \A q \in 1..n - 1 : Owes(stk[q]) => stk[q].pc.f < t.f
    BY <1>2, <2>1
  <2> QED
    BY <1>7, <1>9, <2>2, <2>3 DEF FramesInOrder, Owes
<1>13. LevelsOK'
  <2> SUFFICES ASSUME NEW q \in 1..n - 1
               PROVE  /\ stk[q].k = "int" <=> Above(q)'.who = "isr"
                      /\ Above(q)'.f = stk[q].pc.f + (IF Owes(stk[q]) THEN 1 ELSE 0)
                      /\ stk[q].k = "int" /\ stk[q].pc.at # "ret" =>
                           Above(q)'.bank = stk[q].pc.bank
    BY <1>7, <1>9 DEF LevelsOK, Owes
  <2>1. /\ Above(q)'.who = Above(q).who /\ Above(q)'.f = Above(q).f
        /\ Above(q)'.bank = Above(q).bank
    BY <1>1, <1>2, <1>7, <1>9 DEF Above
  <2> QED
    BY <1>1, <1>2, <2>1 DEF StackInv, LevelsOK
<1>14. BottomOK'
  BY <1>1, <1>2, <1>7, <1>9 DEF StackInv, BottomOK
<1>15. PositionOK'
  <2>1. t.f + 1 = bsp
    BY <1>1, <1>2, <1>4 DEF StackInv, LevelsOK, Above, Owes
  <2> QED
    BY <1>1, <1>2, <1>5, <1>6, <1>7, <1>9, <2>1 DEF PositionOK
<1> QED
  BY <1>10, <1>11, <1>12, <1>13, <1>14, <1>15 DEF StackInv

LEMMA RetEnterStack ==
  ASSUME StackInv, RetEnter
  PROVE  StackInv'
<1>1. /\ pc \in Pos /\ pc.at = "ret" /\ pc' = [pc EXCEPT !.at = "ret1"]
      /\ Len(stk) \in Nat
  BY DEF StackInv, TypeOK, RetEnter, PositionOK
<1>2. /\ pc' \in Pos /\ Resume(pc') = Resume(pc)
      /\ pc'.d = pc.d /\ pc'.f = pc.f /\ pc'.who = pc.who /\ pc'.bank = pc.bank
      /\ pc'.at = "ret1"
  BY <1>1 DEF Pos, Resume
<1>3. UNCHANGED <<eiOp, p0, p1, cur, bstk, bsp, stk, svC, irq, vdp, stat, clk, phase>>
  BY DEF RetEnter, banks, events
<1>4. iff' = FALSE /\ svR' = Len(stk)
  BY DEF RetEnter
<1>5. TypeOK'
  BY <1>1, <1>2, <1>3, <1>4 DEF StackInv, TypeOK
<1>6. EntriesOK' /\ FramesInOrder' /\ LevelsOK' /\ BottomOK'
  BY <1>2, <1>3 DEF StackInv, EntriesOK, FramesInOrder, LevelsOK, BottomOK, Owes, Above
<1>7. PositionOK'
  BY <1>1, <1>2, <1>3, <1>4 DEF StackInv, PositionOK
<1> QED
  BY <1>5, <1>6, <1>7 DEF StackInv

LEMMA RetSwitchStack ==
  ASSUME StackInv, RetSwitch
  PROVE  StackInv'
<1>1. /\ pc \in Pos /\ pc.at = "ret1" /\ pc' = [pc EXCEPT !.at = "ret2"]
      /\ bstk[bsp] = [pc |-> Resume(pc), seg |-> pc.bank]
  BY DEF StackInv, TypeOK, RetSwitch, PositionOK
<1>2. /\ pc' \in Pos /\ Resume(pc') = Resume(pc) /\ pc.bank \in Bank
      /\ pc'.d = pc.d /\ pc'.f = pc.f /\ pc'.who = pc.who /\ pc'.bank = pc.bank
      /\ pc'.at = "ret2"
  BY <1>1 DEF Pos, Resume
<1>3. UNCHANGED <<iff, eiOp, p1, bstk, bsp, stk, svC, svR, irq, vdp, stat, clk, phase>>
  BY DEF RetSwitch, cpu, stacks, events
<1>4. cur' = pc.bank /\ p0' = pc.bank
  BY <1>1 DEF RetSwitch
<1>5. TypeOK'
  BY <1>1, <1>2, <1>3, <1>4 DEF StackInv, TypeOK
<1>6. EntriesOK' /\ FramesInOrder' /\ LevelsOK' /\ BottomOK'
  BY <1>2, <1>3 DEF StackInv, EntriesOK, FramesInOrder, LevelsOK, BottomOK, Owes, Above
<1>7. PositionOK'
  BY <1>1, <1>2, <1>3, <1>4 DEF StackInv, PositionOK
<1> QED
  BY <1>5, <1>6, <1>7 DEF StackInv

LEMMA RetLeaveStack ==
  ASSUME StackInv, RetLeave
  PROVE  StackInv'
<1>1. /\ pc \in Pos /\ pc.at = "ret2" /\ pc.d = Len(stk) /\ svR = Len(stk)
      /\ bstk[bsp] = [pc |-> Resume(pc), seg |-> pc.bank]
      /\ bsp = pc.f + 1 /\ Len(bstk) = bsp /\ p0 = pc.bank /\ cur = pc.bank
      /\ stk \in Seq(StackEntry) /\ bstk \in Seq(Frame)
  BY DEF StackInv, TypeOK, RetLeave, PositionOK
<1>2. /\ pc.bank \in Bank /\ pc.f \in Nat /\ pc.d \in Nat
  BY <1>1 DEF Pos
<1>3. UNCHANGED <<eiOp, p0, cur, svC, irq, vdp, stat, clk, phase>>
  BY DEF RetLeave, events
<1>4. stk' = stk
  BY <1>1, CutAll DEF RetLeave
<1>5. /\ p1' = pc.bank /\ bsp' = pc.f /\ svR' = 0 /\ pc' = Resume(pc) /\ iff' \in BOOLEAN
  BY <1>1, <1>2 DEF RetLeave
<1>6. /\ bstk' \in Seq(Frame) /\ Len(bstk') = pc.f
      /\ \A j \in 1..pc.f : bstk'[j] = bstk[j]
  <2>1. bstk' = SubSeq(bstk, 1, pc.f) /\ pc.f \in 0..Len(bstk)
    BY <1>1, <1>2 DEF RetLeave
  <2> QED
    BY <1>1, <2>1, CutFacts
<1>7. /\ pc' \in Pos /\ pc'.d = pc.d /\ pc'.f = pc.f /\ pc'.who = pc.who
      /\ pc'.bank = pc.bank /\ pc'.at = "go" /\ pc'.tgt = pc.bank
  BY <1>1, <1>5, ResumeType
<1>8. TypeOK'
  BY <1>2, <1>3, <1>4, <1>5, <1>6, <1>7 DEF StackInv, TypeOK
<1>9. EntriesOK'
  <2> SUFFICES ASSUME NEW q \in 1..pc.d
               PROVE  /\ stk[q].pc.d = q - 1
                      /\ stk[q].pc.at \in IF stk[q].k = "ret" THEN {"go"}
                                          ELSE {"go", "call", "ret"}
                      /\ Owes(stk[q]) =>
                           /\ stk[q].pc.f < Len(bstk')
                           /\ bstk'[stk[q].pc.f + 1] =
                                [pc |-> Resume(stk[q].pc), seg |-> stk[q].pc.bank]
    BY <1>4, <1>7 DEF EntriesOK, Owes
  <2>1. stk[q].pc.f \in Nat
    BY <1>1, EntryTypes
  <2>2. Owes(stk[q]) => stk[q].pc.f < pc.f
    BY DEF StackInv, FramesInOrder
  <2>3. Owes(stk[q]) => bstk'[stk[q].pc.f + 1] = bstk[stk[q].pc.f + 1]
    BY <1>2, <1>6, <2>1, <2>2
  <2> QED
    BY <1>6, <2>2, <2>3 DEF StackInv, EntriesOK
<1>10. FramesInOrder' /\ LevelsOK' /\ BottomOK'
  BY <1>4, <1>7 DEF StackInv, FramesInOrder, LevelsOK, BottomOK, Owes, Above
<1>11. PositionOK'
  BY <1>1, <1>3, <1>4, <1>5, <1>6, <1>7 DEF PositionOK
<1> QED
  BY <1>8, <1>9, <1>10, <1>11 DEF StackInv

LEMMA InterruptStack ==
  ASSUME StackInv, Interrupt
  PROVE  StackInv'
<1> DEFINE n == Len(stk) + 1
<1> DEFINE e == [k |-> "int", pc |-> pc]
<1>1. /\ pc \in Pos /\ iff /\ cur \in Bank /\ bsp \in Nat
      /\ stk \in Seq(StackEntry) /\ bstk \in Seq(Frame) /\ Len(stk) \in Nat
  BY DEF StackInv, TypeOK, Interrupt
<1>2. pc.at \in {"go", "call", "ret"}
  BY <1>1 DEF StackInv, PositionOK, Pos
<1>3. /\ pc.d = Len(stk) /\ Len(bstk) = bsp /\ p0 = cur /\ p1 = cur
      /\ bsp = pc.f + (IF pc.at = "ret" THEN 1 ELSE 0)
      /\ pc.at # "ret" => cur = pc.bank
      /\ pc.at = "ret" => bstk[bsp] = [pc |-> Resume(pc), seg |-> pc.bank]
      /\ pc.f \in Nat
  BY <1>1, <1>2 DEF StackInv, PositionOK, Pos
<1>4. UNCHANGED <<p0, p1, cur, bstk, bsp, svC, svR, irq, vdp, stat, clk, phase>>
  BY DEF Interrupt, banks, events
<1>5. e \in StackEntry
  BY <1>1 DEF StackEntry
<1>6. /\ stk' \in Seq(StackEntry) /\ Len(stk') = n
      /\ \A q \in 1..Len(stk) : stk'[q] = stk[q]
      /\ stk'[n] = e
  <2>1. stk' = Append(stk, e)
    BY DEF Interrupt
  <2> QED
    BY <1>1, <1>5, <2>1, PushFacts
<1>7. /\ pc' \in Pos /\ pc'.d = n /\ pc'.f = bsp /\ pc'.who = "isr"
      /\ pc'.bank = cur /\ pc'.at = "go"
  BY <1>1 DEF Interrupt, Pos
<1>8. iff' = FALSE /\ eiOp' = "NOP"
  BY DEF Interrupt
<1>9. TypeOK'
  BY <1>4, <1>6, <1>7, <1>8 DEF StackInv, TypeOK
<1>10. \A q \in 1..n : q \in 1..Len(stk) \/ q = n
  BY <1>1
<1>11. e.k = "int" /\ e.pc = pc /\ (Owes(e) <=> pc.at = "ret")
  BY DEF Owes
<1>12. EntriesOK'
  <2> SUFFICES ASSUME NEW q \in 1..n
               PROVE  /\ stk'[q].pc.d = q - 1
                      /\ stk'[q].pc.at \in IF stk'[q].k = "ret" THEN {"go"}
                                           ELSE {"go", "call", "ret"}
                      /\ Owes(stk'[q]) =>
                           /\ stk'[q].pc.f < Len(bstk)
                           /\ bstk[stk'[q].pc.f + 1] =
                                [pc |-> Resume(stk'[q].pc), seg |-> stk'[q].pc.bank]
    BY <1>4, <1>7 DEF EntriesOK, Owes
  <2>1. CASE q \in 1..Len(stk)
    BY <1>3, <1>6, <2>1 DEF StackInv, EntriesOK
  <2>2. CASE q = n
    BY <1>1, <1>2, <1>3, <1>6, <1>11, <2>2
  <2> QED
    BY <1>10, <2>1, <2>2
<1>13. FramesInOrder'
  <2>1. \A q \in 1..Len(stk) : Owes(stk[q]) => stk[q].pc.f < pc.f /\ stk[q].pc.f < bsp
    <3>1. \A q \in 1..Len(stk) : stk[q].pc.f \in Nat
      BY <1>1, EntryTypes
    <3> QED
      BY <1>3, <3>1 DEF StackInv, FramesInOrder
  <2>2. \A q \in 1..n : Owes(stk'[q]) => stk'[q].pc.f < bsp
    <3>1. Owes(stk'[n]) => stk'[n].pc.f < bsp
      BY <1>3, <1>6, <1>11
    <3> QED
      BY <1>6, <1>10, <2>1, <3>1
  <2>3. \A q, r \in 1..n : q < r /\ Owes(stk'[q]) => stk'[q].pc.f < stk'[r].pc.f
    <3> SUFFICES ASSUME NEW q \in 1..n, NEW r \in 1..n, q < r, Owes(stk'[q])
                 PROVE  stk'[q].pc.f < stk'[r].pc.f
      OBVIOUS
    <3>1. q \in 1..Len(stk) /\ stk'[q] = stk[q]
      BY <1>1, <1>6
    <3>2. CASE r \in 1..Len(stk)
      BY <1>3, <1>6, <3>1, <3>2 DEF StackInv, FramesInOrder
    <3>3. CASE r = n
      BY <1>6, <1>11, <2>1, <3>1, <3>3
    <3> QED
      BY <1>10, <3>2, <3>3
  <2> QED
    BY <1>7, <2>2, <2>3 DEF FramesInOrder, Owes
<1>14. LevelsOK'
  <2> SUFFICES ASSUME NEW q \in 1..n
               PROVE  /\ stk'[q].k = "int" <=> Above(q)'.who = "isr"
                      /\ Above(q)'.f = stk'[q].pc.f + (IF Owes(stk'[q]) THEN 1 ELSE 0)
                      /\ stk'[q].k = "int" /\ stk'[q].pc.at # "ret" =>
                           Above(q)'.bank = stk'[q].pc.bank
    BY <1>7 DEF LevelsOK, Owes
  <2>1. CASE q = n
    BY <1>1, <1>3, <1>6, <1>7, <1>11, <2>1 DEF Above
  <2>2. CASE q \in 1..Len(stk)
    <3>1. Above(q)' = Above(q)
      BY <1>1, <1>3, <1>6, <1>7, <2>2 DEF Above
    <3> QED
      BY <1>3, <1>6, <2>2, <3>1 DEF StackInv, LevelsOK
  <2> QED
    BY <1>10, <2>1, <2>2
<1>15. BottomOK'
  <2>1. (IF pc.d = 0 THEN pc ELSE stk[1].pc).who = "run"
    BY DEF StackInv, BottomOK
  <2> QED
    BY <1>1, <1>3, <1>6, <1>7, <2>1 DEF BottomOK
<1>16. PositionOK'
  BY <1>3, <1>4, <1>6, <1>7 DEF PositionOK
<1> QED
  BY <1>9, <1>12, <1>13, <1>14, <1>15, <1>16 DEF StackInv

LEMMA IsrMoveStack ==
  ASSUME StackInv, pc.who = "isr", pc.at = "go", pc' \in Pos,
         pc'.at \in {"go", "call"}, UNCHANGED <<cpu, banks, stacks>>,
         pc'.who = pc.who, pc'.bank = pc.bank, pc'.d = pc.d, pc'.f = pc.f,
         UNCHANGED <<irq, phase>>, vdp' \in [f : BOOLEAN, fh : BOOLEAN],
         stat' \in [v : BOOLEAN, s : BOOLEAN],
         clk' \in [jiffy : 0..JiffyMod - 1, cnt : 1..FrameRate, flag : BOOLEAN, scn : 1..2]
  PROVE  StackInv'
<1>1. TypeOK'
  BY DEF StackInv, TypeOK, cpu, banks, stacks
<1> QED
  BY <1>1, MoveStack

LEMMA IsrCallStack ==
  ASSUME StackInv, IsrCall
  PROVE  StackInv'
<1>1. /\ pc \in Pos /\ irq \in [Source -> Bank \cup {None}]
      /\ vdp \in [f : BOOLEAN, fh : BOOLEAN]
  BY DEF StackInv, TypeOK
<1>2. /\ pc.who = "isr" /\ pc.at = "go" /\ Entry[pc.i] \in Source
      /\ irq[Entry[pc.i]] # None
  BY DEF IsrCall, InIsr, Due
<1>3. irq[Entry[pc.i]] \in Bank
  BY <1>1, <1>2
<1>4. pc.i + 1 \in 0..9
  BY <1>1, <1>2 DEF Pos, Entry, Source
<1>5. pc' = [pc EXCEPT !.at = "call", !.tgt = irq[Entry[pc.i]], !.i = pc.i + 1]
  BY DEF IsrCall
<1>6. /\ pc' \in Pos /\ pc'.at = "call" /\ pc'.who = pc.who
      /\ pc'.bank = pc.bank /\ pc'.d = pc.d /\ pc'.f = pc.f
  BY <1>1, <1>3, <1>4, <1>5 DEF Pos
<1>7. vdp' \in [f : BOOLEAN, fh : BOOLEAN]
  BY <1>1 DEF IsrCall, ReadStatus1
<1> QED
  BY <1>2, <1>6, <1>7, IsrMoveStack DEF IsrCall, StackInv, TypeOK

LEMMA IsrSkipStack ==
  ASSUME StackInv, IsrSkip
  PROVE  StackInv'
<1>1. /\ pc \in Pos /\ vdp \in [f : BOOLEAN, fh : BOOLEAN]
      /\ pc.who = "isr" /\ pc.at = "go" /\ Entry[pc.i] \in Source
  BY DEF StackInv, TypeOK, IsrSkip, InIsr
<1>2. pc.i + 1 \in 0..9
  BY <1>1 DEF Pos, Entry, Source
<1>3. pc' = [pc EXCEPT !.i = pc.i + 1]
  BY DEF IsrSkip
<1>4. /\ pc' \in Pos /\ pc'.at = "go" /\ pc'.who = pc.who
      /\ pc'.bank = pc.bank /\ pc'.d = pc.d /\ pc'.f = pc.f
  BY <1>1, <1>2, <1>3 DEF Pos
<1>5. vdp' \in [f : BOOLEAN, fh : BOOLEAN]
  BY <1>1 DEF IsrSkip, ReadStatus1
<1> QED
  BY <1>1, <1>4, <1>5, IsrMoveStack DEF IsrSkip, StackInv, TypeOK

LEMMA IsrNoVblankStack ==
  ASSUME StackInv, IsrNoVblank
  PROVE  StackInv'
<1>1. pc \in Pos /\ pc.who = "isr" /\ pc.at = "go"
  BY DEF StackInv, TypeOK, IsrNoVblank, InIsr
<1>2. /\ pc' \in Pos /\ pc'.at = "go" /\ pc'.who = pc.who
      /\ pc'.bank = pc.bank /\ pc'.d = pc.d /\ pc'.f = pc.f
  BY <1>1 DEF IsrNoVblank, Pos
<1> QED
  BY <1>1, <1>2, IsrMoveStack DEF IsrNoVblank, StackInv, TypeOK, events

LEMMA IsrVblankStack ==
  ASSUME StackInv, NEW collision \in BOOLEAN, IsrVblank(collision)
  PROVE  StackInv'
<1>1. /\ pc \in Pos /\ pc.who = "isr" /\ pc.at = "go" /\ Entry[pc.i] = "S0"
      /\ vdp \in [f : BOOLEAN, fh : BOOLEAN]
      /\ clk \in [jiffy : 0..JiffyMod - 1, cnt : 1..FrameRate, flag : BOOLEAN, scn : 1..2]
  BY DEF StackInv, TypeOK, IsrVblank, InIsr
<1>2. pc.i + 1 \in 0..9
  BY <1>1 DEF Pos, Entry
<1>3. pc' = [pc EXCEPT !.i = pc.i + 1]
  BY DEF IsrVblank
<1>4. /\ pc' \in Pos /\ pc'.at = "go" /\ pc'.who = pc.who
      /\ pc'.bank = pc.bank /\ pc'.d = pc.d /\ pc'.f = pc.f
  BY <1>1, <1>2, <1>3 DEF Pos
<1>5. vdp' \in [f : BOOLEAN, fh : BOOLEAN] /\ stat' \in [v : BOOLEAN, s : BOOLEAN]
  BY <1>1 DEF IsrVblank
<1>6. clk' \in [jiffy : 0..JiffyMod - 1, cnt : 1..FrameRate, flag : BOOLEAN, scn : 1..2]
  <2>1. (clk.jiffy + 1) % JiffyMod \in 0..JiffyMod - 1
    BY <1>1, BankAssumption
  <2>2. (IF clk.cnt = 1 THEN FrameRate ELSE clk.cnt - 1) \in 1..FrameRate
    BY <1>1, BankAssumption
  <2>3. (clk.flag \/ clk.cnt = 1) \in BOOLEAN
    OBVIOUS
  <2> QED
    BY <1>1, <2>1, <2>2, <2>3 DEF IsrVblank, FrameTick
<1> QED
  BY <1>1, <1>4, <1>5, <1>6, IsrMoveStack DEF IsrVblank, StackInv, TypeOK

LEMMA IsrExitStack ==
  ASSUME StackInv, IsrExit
  PROVE  StackInv'
<1> DEFINE n == Len(stk)
<1> DEFINE t == stk[n].pc
<1>1. /\ pc \in Pos /\ pc.at = "go" /\ pc.who = "isr" /\ pc.d = n /\ n \in Nat
      /\ bsp = pc.f /\ Len(bstk) = bsp /\ p0 = cur /\ p1 = cur /\ cur = pc.bank
      /\ stk \in Seq(StackEntry) /\ bstk \in Seq(Frame) /\ bsp \in Nat
  BY DEF StackInv, TypeOK, IsrExit, InIsr, PositionOK
<1>2. n > 0 /\ n \in 1..n /\ n - 1 \in 0..n
  BY <1>1 DEF StackInv, BottomOK
<1>3. t \in Pos /\ stk[n].k \in {"ret", "int"} /\ t.f \in Nat /\ t.bank \in Bank
  BY <1>1, <1>2, EntryTypes
<1>4. /\ stk[n].k = "int"
      /\ bsp = t.f + (IF t.at = "ret" THEN 1 ELSE 0)
      /\ t.at # "ret" => cur = t.bank
  BY <1>1, <1>2, <1>3 DEF StackInv, LevelsOK, Above, Owes
<1>5. /\ t.d = n - 1 /\ t.at \in {"go", "call", "ret"}
      /\ t.at = "ret" => bstk[t.f + 1] = [pc |-> Resume(t), seg |-> t.bank]
  BY <1>1, <1>2, <1>4 DEF StackInv, EntriesOK, Owes
<1>6. UNCHANGED <<p0, p1, cur, bstk, bsp, svC, svR, irq, vdp, phase>>
  BY DEF IsrExit, banks
<1>7. /\ stk' \in Seq(StackEntry) /\ Len(stk') = n - 1
      /\ \A q \in 1..n - 1 : stk'[q] = stk[q]
  BY <1>1, <1>2, CutFacts DEF IsrExit, Pop
<1>8. pc' = t /\ iff' = TRUE /\ eiOp' = "EI"
  BY DEF IsrExit, Top
<1>9. stat' \in [v : BOOLEAN, s : BOOLEAN]
  BY DEF IsrExit
<1>10. clk' \in [jiffy : 0..JiffyMod - 1, cnt : 1..FrameRate, flag : BOOLEAN, scn : 1..2]
  <2>1. clk \in [jiffy : 0..JiffyMod - 1, cnt : 1..FrameRate, flag : BOOLEAN, scn : 1..2]
    BY DEF StackInv, TypeOK
  <2> QED
    BY <2>1 DEF IsrExit
<1>11. TypeOK'
  BY <1>3, <1>6, <1>7, <1>8, <1>9, <1>10 DEF StackInv, TypeOK
<1>12. EntriesOK'
  <2> SUFFICES ASSUME NEW q \in 1..n - 1
               PROVE  /\ stk[q].pc.d = q - 1
                      /\ stk[q].pc.at \in IF stk[q].k = "ret" THEN {"go"}
                                          ELSE {"go", "call", "ret"}
                      /\ Owes(stk[q]) =>
                           /\ stk[q].pc.f < Len(bstk)
                           /\ bstk[stk[q].pc.f + 1] =
                                [pc |-> Resume(stk[q].pc), seg |-> stk[q].pc.bank]
    BY <1>5, <1>6, <1>7, <1>8 DEF EntriesOK, Owes
  <2> QED
    BY <1>1, <1>2 DEF StackInv, EntriesOK
<1>13. FramesInOrder'
  <2>1. \A q, r \in 1..n : q < r /\ Owes(stk[q]) => stk[q].pc.f < stk[r].pc.f
    BY <1>1 DEF StackInv, FramesInOrder
  <2>2. \A q, r \in 1..n - 1 : q < r /\ Owes(stk[q]) => stk[q].pc.f < stk[r].pc.f
    BY <1>1, <1>2, <2>1
  <2>3. \A q \in 1..n - 1 : Owes(stk[q]) => stk[q].pc.f < t.f
    BY <1>1, <1>2, <2>1
  <2> QED
    BY <1>5, <1>7, <1>8, <2>2, <2>3 DEF FramesInOrder, Owes
<1>14. LevelsOK'
  <2> SUFFICES ASSUME NEW q \in 1..n - 1
               PROVE  /\ stk[q].k = "int" <=> Above(q)'.who = "isr"
                      /\ Above(q)'.f = stk[q].pc.f + (IF Owes(stk[q]) THEN 1 ELSE 0)
                      /\ stk[q].k = "int" /\ stk[q].pc.at # "ret" =>
                           Above(q)'.bank = stk[q].pc.bank
    BY <1>5, <1>7, <1>8 DEF LevelsOK, Owes
  <2>1. Above(q)' = Above(q)
    BY <1>1, <1>2, <1>5, <1>7, <1>8 DEF Above
  <2> QED
    BY <1>1, <1>2, <2>1 DEF StackInv, LevelsOK
<1>15. BottomOK'
  BY <1>1, <1>2, <1>5, <1>7, <1>8 DEF StackInv, BottomOK
<1>16. PositionOK'
  <2>1. bsp = IF t.at \in {"ret", "ret1", "ret2"} THEN t.f + 1 ELSE t.f
    BY <1>3, <1>4, <1>5
  <2>2. t.at \in {"ret", "ret1", "ret2"} =>
          bstk[bsp] = [pc |-> Resume(t), seg |-> t.bank]
    BY <1>4, <1>5
  <2>3. t.d = Len(stk')
    BY <1>5, <1>7
  <2> QED
    BY <1>1, <1>4, <1>5, <1>6, <1>8, <2>1, <2>2, <2>3 DEF PositionOK
<1> QED
  BY <1>11, <1>12, <1>13, <1>14, <1>15, <1>16 DEF StackInv

LEMMA RequestIrqStack ==
  ASSUME StackInv, NEW s \in Source, NEW b \in HandlerBanks[s], RequestIrq(s, b)
  PROVE  StackInv'
<1>1. b \in Bank
  BY BankAssumption
<1>2. irq' \in [Source -> Bank \cup {None}] /\ iff' \in BOOLEAN
  BY <1>1 DEF StackInv, TypeOK, RequestIrq
<1>3. TypeOK'
  BY <1>2 DEF StackInv, TypeOK, RequestIrq, banks, stacks
<1> QED
  BY <1>3, QuietStack DEF RequestIrq, MayEI, UserGo

LEMMA FreeIrqStack ==
  ASSUME StackInv, NEW s \in Source, FreeIrq(s)
  PROVE  StackInv'
<1>1. irq' \in [Source -> Bank \cup {None}] /\ vdp' \in [f : BOOLEAN, fh : BOOLEAN]
      /\ iff' \in BOOLEAN
  BY DEF StackInv, TypeOK, FreeIrq
<1>2. TypeOK'
  BY <1>1 DEF StackInv, TypeOK, FreeIrq, banks, stacks
<1> QED
  BY <1>2, QuietStack DEF FreeIrq, MayEI, UserGo

(* The other steps of the application and the VDP.                         *)
LEMMA OtherQuietStack ==
  ASSUME StackInv,
         EnableInterrupts \/ TakeFrame \/ ISRDeinit \/ RaiseVblank \/ RaiseLine
  PROVE  StackInv'
<1>1. CASE EnableInterrupts
  <2>1. TypeOK'
    BY <1>1 DEF StackInv, TypeOK, EnableInterrupts, banks, stacks, events
  <2> QED
    BY <1>1, <2>1, QuietStack DEF EnableInterrupts, MayEI, UserGo
<1>2. CASE TakeFrame
  <2>1. TypeOK'
    BY <1>2 DEF StackInv, TypeOK, TakeFrame, cpu, banks, stacks
  <2> QED
    BY <1>2, <2>1, QuietStack DEF TakeFrame, cpu
<1>3. CASE ISRDeinit
  <2>1. TypeOK'
    BY <1>3 DEF StackInv, TypeOK, ISRDeinit, banks, stacks, events
  <2> QED
    BY <1>3, <2>1, QuietStack DEF ISRDeinit
<1>4. CASE RaiseVblank
  <2>1. TypeOK'
    BY <1>4 DEF StackInv, TypeOK, RaiseVblank, cpu, banks, stacks
  <2> QED
    BY <1>4, <2>1, QuietStack DEF RaiseVblank, cpu
<1>5. CASE RaiseLine
  <2>1. TypeOK'
    BY <1>5 DEF StackInv, TypeOK, RaiseLine, cpu, banks, stacks
  <2> QED
    BY <1>5, <2>1, QuietStack DEF RaiseLine, cpu
<1> QED
  BY <1>1, <1>2, <1>3, <1>4, <1>5

LEMMA ExitStack ==
  ASSUME StackInv, Exit
  PROVE  StackInv'
<1>1. /\ pc \in Pos /\ pc.at = "go" /\ pc.bank = Bank0 /\ bsp \in Nat
      /\ Len(bstk) = bsp /\ p0 = cur /\ p1 = cur /\ cur = Bank0
  BY DEF StackInv, TypeOK, Exit, UserGo, PositionOK
<1>2. UNCHANGED <<iff, eiOp, p0, p1, cur, bstk, bsp, svC, svR, irq, vdp, stat, clk>>
  BY DEF Exit, cpu, banks, events
<1>3. /\ stk' = <<>> /\ pc' = Run(Bank0, 0, bsp) /\ phase' = "ret"
      /\ stk' \in Seq(StackEntry) /\ Len(stk') = 0
  BY DEF Exit
<1>4. /\ pc' \in Pos /\ pc'.d = 0 /\ pc'.f = bsp /\ pc'.at = "go"
      /\ pc'.who = "run" /\ pc'.bank = Bank0
  BY <1>1, <1>3, BankAssumption DEF Run, Pos
<1>5. TypeOK'
  BY <1>2, <1>3, <1>4 DEF StackInv, TypeOK
<1>6. EntriesOK' /\ FramesInOrder' /\ LevelsOK' /\ BottomOK'
  BY <1>3, <1>4 DEF EntriesOK, FramesInOrder, LevelsOK, BottomOK
<1>7. PositionOK'
  BY <1>1, <1>2, <1>3, <1>4 DEF PositionOK
<1> QED
  BY <1>5, <1>6, <1>7 DEF StackInv

LEMMA NextStack ==
  ASSUME StackInv, [Next]_vars
  PROVE  StackInv'
<1>1. CASE UNCHANGED vars
  <2>1. UNCHANGED <<cpu, banks, stacks, pc, events, phase>>
    BY <1>1 DEF vars
  <2>2. TypeOK'
    BY <2>1 DEF StackInv, TypeOK, cpu, banks, stacks, events
  <2> QED
    BY <2>1, <2>2, QuietStack DEF cpu
<1>2. CASE Helper
  BY <1>2, CallEnterStack, CallSwitchStack, CallLeaveStack, RetEnterStack,
     RetSwitchStack, RetLeaveStack DEF Helper
<1>3. CASE Interrupt
  BY <1>3, InterruptStack
<1>4. CASE Isr
  BY <1>4, IsrCallStack, IsrSkipStack, IsrNoVblankStack, IsrVblankStack,
     IsrExitStack DEF Isr
<1>5. CASE User
  BY <1>5, UserCallStack, UserReturnStack, RequestIrqStack, FreeIrqStack,
     OtherQuietStack, ExitStack DEF User
<1>6. CASE RaiseVblank \/ RaiseLine
  BY <1>6, OtherQuietStack
<1> QED
  BY <1>1, <1>2, <1>3, <1>4, <1>5, <1>6 DEF Next

-----------------------------------------------------------------------------
LEMMA NextExit ==
  ASSUME StackInv, ExitOK, [Next]_vars
  PROVE  ExitOK'
<1>1. /\ pc \in Pos /\ stk \in Seq(StackEntry) /\ Len(stk) \in Nat /\ pc.d \in Nat
      /\ pc.d = IF pc.at \in {"call1", "call2"} THEN Len(stk) - 1 ELSE Len(stk)
  BY DEF StackInv, TypeOK, PositionOK, Pos
<1>2. pc' \in Pos /\ stk' \in Seq(StackEntry)
  BY NextStack DEF StackInv, TypeOK
<1>3. ASSUME UNCHANGED <<stk, phase>>, pc'.d = pc.d, pc.d = 0 => pc' = pc, iff => iff'
      PROVE  ExitOK'
  BY <1>3 DEF ExitOK
<1>4. pc.who = "isr" => pc.d > 0
  <2>1. pc.who = "isr" => pc.d # 0
    BY DEF StackInv, BottomOK
  <2>2. pc.d \in Nat
    BY <1>1
  <2> QED
    BY <2>1, <2>2
<1>5. CASE UNCHANGED vars
  BY <1>3, <1>5 DEF vars, cpu, stacks
<1>6. CASE phase = "main" /\ phase' = "main"
  BY <1>6 DEF ExitOK
<1> SUFFICES ASSUME Next, phase # "main" \/ phase' # "main"
             PROVE  ExitOK'
  BY <1>5, <1>6
<1>7. CASE Exit
  BY <1>7 DEF Exit, ExitOK, Run, UserGo
<1>8. CASE phase = "main" /\ ~Exit
  BY <1>8 DEF Next, Helper, Isr, User, CallEnter, CallSwitch, CallLeave, RetEnter,
     RetSwitch, RetLeave, Interrupt, IsrCall, IsrSkip, IsrNoVblank, IsrVblank, IsrExit,
     UserCall, UserReturn, RequestIrq, FreeIrq, EnableInterrupts, TakeFrame,
     ISRDeinit, RaiseVblank, RaiseLine
<1> SUFFICES ASSUME phase # "main"
             PROVE  ExitOK'
  BY <1>7, <1>8 DEF Exit
<1>9. pc.d = 0 => pc.at = "go" /\ pc.bank = Bank0
  BY DEF ExitOK
<1>10. CASE CallEnter
  <2>1. pc.d > 0 /\ pc'.d = pc.d
    BY <1>1, <1>9, <1>10 DEF CallEnter, Pos
  <2>2. Resume(pc) \in Pos
    BY <1>1, ResumeType
  <2>3. stk'[1] = stk[1]
    <3>1. [k |-> "ret", pc |-> Resume(pc)] \in StackEntry
      BY <2>2 DEF StackEntry
    <3> QED
      BY <1>1, <1>10, <2>1, <3>1, PushFacts DEF CallEnter
  <2> QED
    BY <1>10, <2>1, <2>3 DEF CallEnter, ExitOK
<1>11. CASE CallSwitch
  BY <1>1, <1>3, <1>9, <1>11 DEF CallSwitch, cpu, Pos
<1>12. CASE CallLeave
  <2>1. /\ pc.d > 0 /\ svC = Len(stk) /\ pc'.d = pc.d + 1
    BY <1>1, <1>9, <1>12 DEF CallLeave, StackInv, PositionOK, Run
  <2>2. stk' = stk
    BY <1>1, <1>12, <2>1, CutAll DEF CallLeave
  <2>3. phase' = phase /\ phase # "done"
    BY <1>12, <2>1 DEF CallLeave, ExitOK
  <2> QED
    BY <1>1, <2>1, <2>2, <2>3 DEF ExitOK
<1>13. CASE RetEnter
  BY <1>1, <1>9, <1>13 DEF RetEnter, Pos, ExitOK
<1>14. CASE RetSwitch
  BY <1>1, <1>3, <1>9, <1>14 DEF RetSwitch, cpu, stacks, Pos
<1>15. CASE RetLeave
  <2>1. /\ pc.d > 0 /\ svR = Len(stk) /\ pc' = Resume(pc)
    BY <1>1, <1>9, <1>15 DEF RetLeave, StackInv, PositionOK
  <2>2. stk' = stk /\ pc'.d = pc.d
    BY <1>1, <1>15, <2>1, CutAll, ResumeType DEF RetLeave
  <2> QED
    BY <1>15, <2>1, <2>2 DEF RetLeave, ExitOK
<1>16. CASE Interrupt
  <2>1. pc.at \notin {"call1", "call2"}
    BY <1>16 DEF Interrupt, StackInv, PositionOK
  <2>2. [k |-> "int", pc |-> pc] \in StackEntry
    BY <1>1 DEF StackEntry
  <2>3. /\ pc.d = Len(stk) /\ pc'.d = pc.d + 1
        /\ pc.d > 0 => stk'[1] = stk[1]
        /\ pc.d = 0 => stk'[1] = [k |-> "int", pc |-> pc]
    BY <1>1, <1>16, <2>1, <2>2, PushFacts DEF Interrupt
  <2> QED
    BY <1>1, <1>9, <1>16, <2>3 DEF Interrupt, ExitOK
<1>17. CASE IsrCall \/ IsrSkip \/ IsrNoVblank \/ \E c \in BOOLEAN : IsrVblank(c)
  <2>1. UNCHANGED <<stk, phase, iff>> /\ pc.who = "isr"
    BY <1>17 DEF IsrCall, IsrSkip, IsrNoVblank, IsrVblank, InIsr, cpu, stacks
  <2>2. pc'.d = pc.d
    <3>1. CASE IsrCall
      BY <1>1, <3>1 DEF IsrCall, Pos
    <3>2. CASE IsrSkip
      BY <1>1, <3>2 DEF IsrSkip, Pos
    <3>3. CASE IsrNoVblank \/ \E c \in BOOLEAN : IsrVblank(c)
      BY <1>1, <3>3 DEF IsrNoVblank, IsrVblank, Pos
    <3> QED
      BY <1>17, <3>1, <3>2, <3>3
  <2>3. pc.d # 0
    BY <1>4, <2>1
  <2> QED
    BY <1>3, <2>1, <2>2, <2>3
<1>18. CASE IsrExit
  <2>1. /\ pc.d > 0 /\ pc.d = Len(stk) /\ pc' = stk[pc.d].pc /\ phase' = phase
    BY <1>1, <1>4, <1>18 DEF IsrExit, InIsr, Top
  <2>2. pc.d \in 1..pc.d
    BY <1>1, <2>1
  <2>3. pc'.d = pc.d - 1
    BY <2>1, <2>2 DEF StackInv, EntriesOK
  <2>4. pc.d > 1 => stk'[1] = stk[1]
    BY <1>1, <1>18, <2>1, CutFacts DEF IsrExit, Pop
  <2>5. phase # "done" /\ stk[1].k = "int"
    BY <1>1, <2>1 DEF ExitOK
  <2>6. stk[1].pc.bank = Bank0 /\ stk[1].pc.at = "go"
    BY <1>1, <2>1 DEF ExitOK
  <2>7. CASE pc.d = 1
    BY <2>1, <2>3, <2>5, <2>6, <2>7 DEF ExitOK
  <2>8. CASE pc.d > 1
    BY <1>1, <2>1, <2>3, <2>4, <2>5, <2>6, <2>8 DEF ExitOK
  <2>9. pc.d = 1 \/ pc.d > 1
    <3>1. pc.d \in Nat
      BY <1>1
    <3>2. pc.d > 0
      BY <2>1
    <3>3. \A n \in Nat : n > 0 => n = 1 \/ n > 1
      OBVIOUS
    <3> QED
      BY <3>1, <3>2, <3>3
  <2> QED
    BY <2>7, <2>8, <2>9
<1>19. CASE \E b \in Bank : UserCall(b)
  BY <1>1, <1>3, <1>19 DEF UserCall, UserGo, cpu, stacks, Pos
<1>20. CASE UserReturn
  <2>1. /\ pc.d > 0 /\ pc.d = Len(stk) /\ phase' = phase /\ pc.who = "run"
        /\ pc' = [stk[pc.d].pc EXCEPT !.at = "ret"]
    BY <1>1, <1>20 DEF UserReturn, Top
  <2>2. pc.d \in 1..pc.d
    BY <1>1, <2>1
  <2>3. stk[pc.d].pc \in Pos
    BY <1>1, <2>1, <2>2, EntryTypes
  <2>4. stk[pc.d].pc.d = pc.d - 1
    BY <2>2 DEF StackInv, EntriesOK
  <2>5. pc'.d = pc.d - 1
    BY <2>1, <2>3, <2>4 DEF Pos
  <2>6. phase # "done" /\ stk[1].k = "int" /\ stk[1].pc.bank = Bank0 /\ stk[1].pc.at = "go"
    BY <1>1, <2>1 DEF ExitOK
  <2>7. stk[pc.d].k # "int"
    BY <2>1, <2>2 DEF StackInv, LevelsOK, Above
  <2>8. pc.d > 1
    BY <1>1, <2>1, <2>6, <2>7
  <2>9. stk'[1] = stk[1]
    BY <1>1, <1>20, <2>1, <2>8, CutFacts DEF UserReturn, Pop
  <2> QED
    BY <1>1, <2>1, <2>5, <2>6, <2>8, <2>9 DEF ExitOK
<1>21. CASE \/ \E s \in Source : \E b \in HandlerBanks[s] : RequestIrq(s, b)
            \/ \E s \in Source : FreeIrq(s)
            \/ EnableInterrupts \/ TakeFrame \/ RaiseVblank \/ RaiseLine
  BY <1>3, <1>21 DEF RequestIrq, FreeIrq, EnableInterrupts, TakeFrame, RaiseVblank,
     RaiseLine, cpu, stacks
<1>22. CASE ISRDeinit
  BY <1>22 DEF ISRDeinit, stacks, ExitOK
<1>23. ~Exit
  BY DEF Exit
<1> QED
  BY <1>10, <1>11, <1>12, <1>13, <1>14, <1>15, <1>16, <1>17, <1>18, <1>19, <1>20,
     <1>21, <1>22, <1>23 DEF Next, Helper, Isr, User

(* The patch at 8026H and 8047H comes and goes with the ISR.               *)
LEMMA NextPatch ==
  ASSUME StackInv, ExitOK, PatchOK, [Next]_vars
  PROVE  PatchOK'
<1> SUFFICES ASSUME ~HandlerEI
             PROVE  PatchOK'
  BY DEF PatchOK
<1>1. /\ pc \in Pos /\ stk \in Seq(StackEntry) /\ Len(stk) \in Nat /\ pc.d \in Nat
      /\ pc.d = IF pc.at \in {"call1", "call2"} THEN Len(stk) - 1 ELSE Len(stk)
  BY DEF StackInv, TypeOK, PositionOK, Pos
<1>2. ASSUME UNCHANGED <<eiOp, stk, phase>>,
             eiOp = "NOP" /\ phase # "done" => ~iff'
      PROVE  PatchOK'
  BY <1>2 DEF PatchOK, IsrActive
<1>3. eiOp = "NOP" /\ phase # "done" => ~iff
  BY DEF PatchOK
<1>4. CASE UNCHANGED vars
  BY <1>2, <1>3, <1>4 DEF vars, cpu, stacks
<1>5. CASE CallEnter
  <2>1. [k |-> "ret", pc |-> Resume(pc)] \in StackEntry
    BY <1>1, ResumeType DEF StackEntry
  <2>2. /\ Len(stk') = Len(stk) + 1
        /\ \A q \in 1..Len(stk) : stk'[q] = stk[q]
        /\ stk'[Len(stk) + 1].k = "ret"
    BY <1>1, <1>5, <2>1, PushFacts DEF CallEnter
  <2>3. \A q \in 1..Len(stk') : stk'[q].k = "int" => q \in 1..Len(stk) /\ stk[q].k = "int"
    BY <1>1, <2>2
  <2>4. eiOp' = eiOp /\ ~iff'
    BY <1>5 DEF CallEnter
  <2> QED
    BY <2>3, <2>4 DEF PatchOK, IsrActive
<1>6. CASE CallSwitch \/ RetEnter \/ RetSwitch
  BY <1>2, <1>3, <1>6 DEF CallSwitch, RetEnter, RetSwitch, cpu, stacks
<1>7. CASE CallLeave
  <2>1. svC = Len(stk)
    BY <1>7 DEF CallLeave, StackInv, PositionOK
  <2>2. stk' = stk
    BY <1>1, <1>7, <2>1, CutAll DEF CallLeave
  <2> QED
    BY <1>2, <1>3, <1>7, <2>2 DEF CallLeave
<1>8. CASE RetLeave
  <2>1. svR = Len(stk)
    BY <1>8 DEF RetLeave, StackInv, PositionOK
  <2>2. stk' = stk
    BY <1>1, <1>8, <2>1, CutAll DEF RetLeave
  <2> QED
    BY <1>2, <1>3, <1>8, <2>2 DEF RetLeave
<1>9. CASE Interrupt
  <2>1. iff /\ eiOp # "NOP"
    BY <1>3, <1>9 DEF Interrupt
  <2>2. ~IsrActive
    BY <2>1 DEF PatchOK
  <2>3. [k |-> "int", pc |-> pc] \in StackEntry
    BY <1>1 DEF StackEntry
  <2>4. /\ Len(stk') = Len(stk) + 1
        /\ \A q \in 1..Len(stk) : stk'[q] = stk[q]
    BY <1>1, <1>9, <2>3, PushFacts DEF Interrupt
  <2>5. \A q \in 1..Len(stk') : stk'[q].k = "int" => q = Len(stk) + 1
    BY <1>1, <2>2, <2>4 DEF IsrActive
  <2>6. eiOp' = "NOP" /\ iff' = FALSE
    BY <1>9 DEF Interrupt
  <2> QED
    BY <2>5, <2>6 DEF PatchOK
<1>10. CASE IsrCall \/ IsrSkip \/ IsrNoVblank \/ \E c \in BOOLEAN : IsrVblank(c)
  BY <1>2, <1>3, <1>10 DEF IsrCall, IsrSkip, IsrNoVblank, IsrVblank, cpu, stacks
<1>11. CASE IsrExit
  <2> DEFINE n == Len(stk)
  <2>1. pc.d = n /\ pc.who = "isr"
    BY <1>1, <1>11 DEF IsrExit, InIsr
  <2>2. n > 0
    <3>1. n # 0
      BY <2>1 DEF StackInv, BottomOK
    <3> QED
      BY <1>1, <3>1
  <2>3. n \in 1..n /\ n - 1 \in 0..n
    BY <1>1, <2>2
  <2>4. stk[n].k = "int"
    BY <2>1, <2>3 DEF StackInv, LevelsOK, Above
  <2>5. Len(stk') = n - 1 /\ \A q \in 1..n - 1 : stk'[q] = stk[q]
    BY <1>1, <1>11, <2>3, CutFacts DEF IsrExit, Pop
  <2>6. \A q \in 1..Len(stk') : stk'[q].k # "int"
    BY <1>1, <2>3, <2>4, <2>5 DEF PatchOK
  <2>7. eiOp' = "EI"
    BY <1>11 DEF IsrExit
  <2> QED
    BY <2>6, <2>7 DEF PatchOK, IsrActive
<1>12. CASE (\E b \in Bank : UserCall(b)) \/ TakeFrame \/ RaiseVblank \/ RaiseLine
  BY <1>2, <1>3, <1>12 DEF UserCall, TakeFrame, RaiseVblank, RaiseLine, cpu, stacks
<1>13. CASE UserReturn
  <2> DEFINE n == Len(stk)
  <2>1. n \in Nat /\ n > 0 /\ n - 1 \in 0..n
    BY <1>1, <1>13 DEF UserReturn
  <2>2. Len(stk') = n - 1 /\ \A q \in 1..n - 1 : stk'[q] = stk[q]
    BY <1>1, <1>13, <2>1, CutFacts DEF UserReturn, Pop
  <2>3. \A q \in 1..Len(stk') : q \in 1..n /\ stk'[q] = stk[q]
    BY <2>1, <2>2
  <2>4. UNCHANGED <<iff, eiOp, phase>>
    BY <1>13 DEF UserReturn, cpu
  <2> QED
    BY <2>3, <2>4 DEF PatchOK, IsrActive
<1>14. CASE \/ \E s \in Source : \E b \in HandlerBanks[s] : RequestIrq(s, b)
            \/ \E s \in Source : FreeIrq(s)
            \/ EnableInterrupts
  BY <1>2, <1>14 DEF RequestIrq, FreeIrq, EnableInterrupts, MayEI, stacks
<1>15. CASE Exit
  <2>1. stk' = <<>> /\ UNCHANGED <<iff, eiOp>> /\ phase # "done"
    BY <1>15 DEF Exit, cpu
  <2> QED
    BY <1>3, <2>1 DEF PatchOK, IsrActive
<1>16. CASE ISRDeinit
  <2>1. pc.d = Len(stk) /\ pc.d = 0
    BY <1>1, <1>16 DEF ISRDeinit
  <2>2. phase' = "done" /\ stk' = stk /\ eiOp' = eiOp
    BY <1>16 DEF ISRDeinit, stacks
  <2> QED
    BY <2>1, <2>2 DEF PatchOK, IsrActive
<1> QED
  BY <1>4, <1>5, <1>6, <1>7, <1>8, <1>9, <1>10, <1>11, <1>12, <1>13, <1>14, <1>15,
     <1>16 DEF Next, Helper, Isr, User

-----------------------------------------------------------------------------
(* The inductive invariant holds in every reachable state.                 *)
THEOREM StackDiscipline == Spec => []IInv
<1>1. Init => IInv
  <2>1. Init => ExitOK /\ PatchOK
    BY DEF Init, ExitOK, PatchOK, IsrActive
  <2> QED
    BY <2>1, InitStack DEF IInv
<1>2. IInv /\ [Next]_vars => IInv'
  BY NextStack, NextExit, NextPatch DEF IInv
<1> QED
  BY <1>1, <1>2, PTL DEF Spec

(* Type correctness of the helper, for every instance.                     *)
THEOREM TypeCorrect == Spec => []TypeOK
<1>1. IInv => TypeOK
  BY DEF IInv, StackInv
<1> QED
  BY <1>1, StackDiscipline, PTL

(* Code in a bank, and the ISR, always run with their own bank mapped:     *)
(* BankCall 8000H, BankRet 8028H and ISR 80BBH keep pages 0 and 1 and      *)
(* CurSeg in step through any nesting of calls and interrupts.             *)
THEOREM MappingCorrect == Spec => []MappedRight
<1>1. IInv => MappedRight
  BY DEF IInv, StackInv, PositionOK, MappedRight
<1> QED
  BY <1>1, StackDiscipline, PTL

(* BankRet always resumes the activation whose return address BankCall     *)
(* took off the application stack, with the stack as it was at the call.   *)
THEOREM ReturnCorrect == Spec => ReturnsToCaller
<1>1. IInv /\ [Next]_vars =>
        [pc.at = "ret2" /\ pc' # pc => pc' = Resume(pc) /\ Len(stk') = pc'.d]_vars
  <2> SUFFICES ASSUME IInv, Next, pc.at = "ret2", pc' # pc
               PROVE  pc' = Resume(pc) /\ Len(stk') = pc'.d
    OBVIOUS
  <2>1. /\ pc \in Pos /\ bstk[bsp] = [pc |-> Resume(pc), seg |-> pc.bank]
        /\ svR = Len(stk) /\ pc.d = Len(stk) /\ stk \in Seq(StackEntry) /\ ~iff
    BY DEF IInv, StackInv, TypeOK, PositionOK
  <2>2. RetLeave
    BY <2>1 DEF Next, Helper, Isr, User, CallEnter, CallSwitch, CallLeave, RetEnter,
       RetSwitch, Interrupt, IsrCall, IsrSkip, IsrNoVblank, IsrVblank, IsrExit, InIsr,
       UserCall, UserGo, MayEI, UserReturn, RequestIrq, FreeIrq, EnableInterrupts,
       TakeFrame, Exit, ISRDeinit, RaiseVblank, RaiseLine
  <2>3. pc' = Resume(pc)
    BY <2>1, <2>2 DEF RetLeave
  <2>4. stk' = stk
    BY <2>1, <2>2, CutAll DEF RetLeave
  <2> QED
    BY <2>1, <2>3, <2>4, ResumeType
<1> QED
  BY <1>1, StackDiscipline, PTL DEF Spec, ReturnsToCaller

(* As long as no handler executes EI the ISR is never re-entered, however  *)
(* deep its handlers call into other banks.                                *)
THEOREM IsrNotReentered == Spec => []IsrExclusive
<1>1. IInv => IsrExclusive
  <2> SUFFICES ASSUME IInv, ~HandlerEI, IsrActive
               PROVE  ~iff
    BY DEF IInv, PatchOK, IsrExclusive
  <2>1. phase # "done"
    <3>1. phase = "done" => pc.d = 0 /\ pc.at = "go"
      BY DEF IInv, ExitOK
    <3>2. phase = "done" => Len(stk) = 0
      BY <3>1 DEF IInv, StackInv, PositionOK
    <3> QED
      BY <3>2 DEF IsrActive
  <2> QED
    BY <2>1 DEF IInv, PatchOK
<1> QED
  BY <1>1, StackDiscipline, PTL

(* Wherever bl_exit() was called from, when bl_main() has taken the hook   *)
(* back it runs in bank 0 with interrupts on and an empty stack.           *)
THEOREM ExitClean == Spec => []DoneClean
<1>1. IInv => DoneClean
  <2> SUFFICES ASSUME IInv, phase = "done"
               PROVE  iff /\ p0 = Bank0 /\ p1 = Bank0 /\ stk = <<>>
    BY DEF DoneClean
  <2>1. pc.d = 0 /\ iff /\ pc.at = "go" /\ pc.bank = Bank0
    BY DEF IInv, ExitOK
  <2>2. /\ p0 = cur /\ p1 = cur /\ cur = pc.bank /\ pc.d = Len(stk)
        /\ stk \in Seq(StackEntry)
    BY <2>1 DEF IInv, StackInv, TypeOK, PositionOK
  <2> QED
    BY <2>1, <2>2
<1> QED
  BY <1>1, StackDiscipline, PTL

-----------------------------------------------------------------------------
(* The activations of the ISR are past entry k of its list.                *)
Past(k) ==
  /\ pc.who = "isr" => pc.i > k
  /\ \A q \in 1..Len(stk) : stk[q].pc.who = "isr" => stk[q].pc.i > k

(* While a VBLANK is latched in 81B5H the only activation of the ISR is    *)
(* past its read of status 0: what is latched was counted once.            *)
LatchOK ==
  /\ Past(0)
  /\ ~HandlerEI /\ phase = "main" /\ stat.v => eiOp = "NOP" /\ Past(4)

(* Multiples of m.                                                         *)
LEMMA Multiples ==
  ASSUME NEW m \in Nat, m > 0, NEW n \in Nat
  PROVE  n % m = 0 <=> \E k \in Int : n = k * m
<1>1. n = m * (n \div m) + (n % m) /\ n % m \in 0..m - 1 /\ n \div m \in Int
  <2>1. m \in Int /\ m > 0
    OBVIOUS
  <2>2. n \div m \in Int /\ n % m \in 0..m - 1
    BY <2>1
  <2>3. n = m * (n \div m) + (n % m)
    BY <2>1
  <2> QED
    BY <2>2, <2>3
<1>2. ASSUME n % m = 0
      PROVE  n = (n \div m) * m
  BY <1>1, <1>2
<1>3. ASSUME NEW k \in Int, n = k * m
      PROVE  n % m = 0
  <2> DEFINE d == n \div m
             r == n % m
  <2>1. k * m = m * d + r /\ r \in 0..m - 1 /\ d \in Int
    BY <1>1, <1>3
  <2> HIDE DEF d, r
  <2>2. r = (k - d) * m /\ k - d \in Int
    BY <2>1
  <2> DEFINE e == k - d
  <2>3. r = e * m /\ e \in Int
    BY <2>2
  <2> HIDE DEF e
  <2>4. e >= 1 => e * m >= m
    BY <2>3
  <2>5. e <= -1 => e * m <= -m
    BY <2>3
  <2>6. e = 0
    BY <2>1, <2>3, <2>4, <2>5
  <2>7. r = 0
    BY <2>3, <2>6
  <2> QED
    BY <2>7 DEF r
<1> QED
  BY <1>1, <1>2, <1>3

(* A count that goes on modulo a multiple of m stays a multiple of m.      *)
LEMMA MultiplesWrap ==
  ASSUME NEW m \in Nat, m > 0, NEW M \in Nat, M > 0, M % m = 0,
         NEW j \in 0..M - 1, NEW c \in Nat \ {0}, NEW d \in Nat,
         (j + c) % m = 0, d = c - 1 \/ d = c - 1 + m
  PROVE  (((j + 1) % M) + d) % m = 0
<1>1. PICK a \in Int : j + c = a * m
  <2>1. j + c \in Nat
    OBVIOUS
  <2> QED
    BY <2>1, Multiples
<1>2. PICK b \in Int : 1 + d - c = b * m
  <2>1. 0 * m = 0 /\ 1 * m = m
    OBVIOUS
  <2> QED
    BY <2>1
<1>3. PICK e \in Int : M = e * m
  <2>1. M \in Nat
    OBVIOUS
  <2> QED
    BY <2>1, Multiples
<1>4. (a + b) * m = a * m + b * m /\ (a + b - e) * m = a * m + b * m - e * m
  OBVIOUS
<1> DEFINE x == a * m
           y == b * m
           z == e * m
<1>5. x \in Int /\ y \in Int /\ z \in Int
  OBVIOUS
<1>6. (j + 1) % M = j + 1 \/ (j + 1) % M = j + 1 - M
  <2>1. CASE j + 1 < M
    BY <2>1
  <2>2. CASE j + 1 = M
    <3>1. M % M = 0
      OBVIOUS
    <3> QED
      BY <2>2, <3>1
  <2> QED
    BY <2>1, <2>2
<1> DEFINE w == (j + 1) % M
<1>7. w \in Nat
  OBVIOUS
<1> HIDE DEF w, x, y, z
<1>8. w + d = x + y \/ w + d = x + y - z
  BY <1>1, <1>2, <1>3, <1>5, <1>6 DEF w, x, y, z
<1>9. w + d = (a + b) * m \/ w + d = (a + b - e) * m
  BY <1>4, <1>8 DEF x, y, z
<1>10. (w + d) % m = 0
  <2>1. a + b \in Int /\ a + b - e \in Int /\ w + d \in Nat
    BY <1>7
  <2>2. \E k \in Int : w + d = k * m
    BY <1>9, <2>1
  <2> QED
    BY <2>1, <2>2, Multiples
<1> QED
  BY <1>10 DEF w

(* While the ISR itself runs without handlers that execute EI, no caller   *)
(* of a handler lies below it.                                             *)
LEMMA OneIsr ==
  ASSUME IInv, ~HandlerEI, pc.who = "isr", pc.at = "go"
  PROVE  eiOp = "NOP" /\ \A q \in 1..Len(stk) : stk[q].pc.who # "isr"
<1> DEFINE n == Len(stk)
<1>1. pc.d = n /\ n \in Nat /\ pc.d \in Nat
  BY DEF IInv, StackInv, TypeOK, PositionOK, Pos
<1>2. n # 0
  BY <1>1 DEF IInv, StackInv, BottomOK
<1>3. n \in 1..n
  BY <1>1, <1>2
<1>4. stk[n].k = "int"
  BY <1>1, <1>3 DEF IInv, StackInv, LevelsOK, Above
<1>5. eiOp = "NOP"
  BY <1>3, <1>4 DEF IInv, PatchOK, IsrActive
<1>6. \A q \in 1..n : stk[q].k = "int" => q = n
  BY <1>3, <1>4 DEF IInv, PatchOK
<1>7. ASSUME NEW q \in 1..n, stk[q].pc.who = "isr"
      PROVE  FALSE
  <2>1. CASE q = 1
    <3>1. stk[1].pc.who = "run"
      BY <1>1, <1>2 DEF IInv, StackInv, BottomOK
    <3> QED
      BY <1>7, <2>1, <3>1
  <2>2. CASE q # 1
    <3>1. q - 1 \in 1..n /\ q - 1 < n /\ q - 1 + 1 = q
      BY <1>1, <2>2
    <3>2. Above(q - 1).who = "isr"
      BY <1>1, <1>7, <3>1 DEF Above
    <3>3. stk[q - 1].k = "int"
      BY <1>1, <3>1, <3>2 DEF IInv, StackInv, LevelsOK
    <3> QED
      BY <1>6, <3>1, <3>3
  <2> QED
    BY <2>1, <2>2
<1> QED
  BY <1>5, <1>7

LEMMA PastKept ==
  ASSUME StackInv, NEW k \in 0..4, Past(k), [Next]_vars, Interrupt => k = 0
  PROVE  Past(k)'
<1>1. /\ pc \in Pos /\ stk \in Seq(StackEntry) /\ Len(stk) \in Nat /\ pc.d \in Nat
      /\ pc.d = IF pc.at \in {"call1", "call2"} THEN Len(stk) - 1 ELSE Len(stk)
      /\ pc.i \in Nat
  <2>1. pc \in Pos /\ stk \in Seq(StackEntry)
    BY DEF StackInv, TypeOK
  <2>2. pc.d = IF pc.at \in {"call1", "call2"} THEN Len(stk) - 1 ELSE Len(stk)
    BY DEF StackInv, PositionOK
  <2>3. pc.d \in Nat /\ pc.i \in Nat
    BY <2>1 DEF Pos
  <2>4. Len(stk) \in Nat
    BY <2>1
  <2> QED
    BY <2>1, <2>2, <2>3, <2>4
<1>2. /\ pc.who = "isr" => pc.i > k
      /\ \A q \in 1..Len(stk) : stk[q].pc.who = "isr" => stk[q].pc.i > k
  BY DEF Past
<1>3. ASSUME stk' = stk,
             pc'.who = "isr" => pc'.i > k \/ (pc.who = "isr" /\ pc'.i \in Nat /\ pc'.i >= pc.i)
      PROVE  Past(k)'
  BY <1>1, <1>2, <1>3 DEF Past
<1>4. ASSUME NEW e \in StackEntry, stk' = Append(stk, e), e.pc.who = "isr" => e.pc.i > k,
             pc'.who = "isr" => pc'.i > k
      PROVE  Past(k)'
  <2>1. /\ Len(stk') = Len(stk) + 1 /\ stk'[Len(stk) + 1] = e
        /\ \A q \in 1..Len(stk) : stk'[q] = stk[q]
    BY <1>1, <1>4, PushFacts
  <2>2. \A q \in 1..Len(stk') : q \in 1..Len(stk) \/ q = Len(stk) + 1
    BY <1>1, <2>1
  <2> QED
    BY <1>2, <1>4, <2>1, <2>2 DEF Past
<1>5. ASSUME Len(stk) > 0, stk' = Pop, pc'.who = Top.pc.who, pc'.i = Top.pc.i
      PROVE  Past(k)'
  <2> DEFINE n == Len(stk)
  <2>1. n \in Nat /\ n - 1 \in 0..n /\ n \in 1..n
    BY <1>1, <1>5
  <2>2. stk' = SubSeq(stk, 1, n - 1)
    BY <1>5 DEF Pop
  <2> HIDE DEF n
  <2>3. Len(stk') = n - 1 /\ \A q \in 1..n - 1 : stk'[q] = stk[q]
    BY <1>1, <2>1, <2>2, CutFacts DEF n
  <2> QED
    BY <1>2, <1>5, <2>1, <2>3 DEF Past, Top, n
<1>6. CASE UNCHANGED vars
  BY <1>1, <1>3, <1>6 DEF vars, stacks
<1>7. CASE CallEnter
  <2>1. Resume(pc) \in Pos /\ Resume(pc).who = pc.who /\ Resume(pc).i = pc.i
    BY <1>1, ResumeType
  <2>2. [k |-> "ret", pc |-> Resume(pc)] \in StackEntry
    BY <2>1 DEF StackEntry
  <2>3. pc'.who = pc.who /\ pc'.i = pc.i /\ stk' = Append(stk, [k |-> "ret", pc |-> Resume(pc)])
    BY <1>1, <1>7 DEF CallEnter, Pos
  <2> QED
    BY <1>2, <1>4, <2>1, <2>2, <2>3
<1>8. CASE CallSwitch \/ RetEnter \/ RetSwitch \/ \E b \in Bank : UserCall(b)
  <2>1. pc'.who = pc.who /\ pc'.i = pc.i
    BY <1>1, <1>8 DEF CallSwitch, RetEnter, RetSwitch, UserCall, Pos
  <2>2. stk' = stk
    BY <1>8 DEF CallSwitch, RetEnter, RetSwitch, UserCall, stacks
  <2> QED
    BY <1>1, <1>3, <2>1, <2>2
<1>9. CASE CallLeave
  <2>1. svC = Len(stk)
    BY <1>9 DEF CallLeave, StackInv, PositionOK
  <2>2. stk' = stk
    BY <1>1, <1>9, <2>1, CutAll DEF CallLeave
  <2>3. pc'.who = "run"
    BY <1>9 DEF CallLeave, Run
  <2> QED
    BY <1>3, <2>2, <2>3
<1>10. CASE RetLeave
  <2>1. svR = Len(stk) /\ bstk[bsp] = [pc |-> Resume(pc), seg |-> pc.bank]
    BY <1>10 DEF RetLeave, StackInv, PositionOK
  <2>2. stk' = stk
    BY <1>1, <1>10, <2>1, CutAll DEF RetLeave
  <2>3. pc' = Resume(pc)
    BY <1>10, <2>1 DEF RetLeave
  <2>4. pc'.who = pc.who /\ pc'.i = pc.i
    BY <1>1, <2>3, ResumeType
  <2> QED
    BY <1>1, <1>3, <2>2, <2>4
<1>11. CASE Interrupt
  <2>1. [k |-> "int", pc |-> pc] \in StackEntry
    BY <1>1 DEF StackEntry
  <2>2. pc'.i = 1 /\ k = 0 /\ stk' = Append(stk, [k |-> "int", pc |-> pc])
    BY <1>11 DEF Interrupt
  <2> QED
    BY <1>2, <1>4, <2>1, <2>2
<1>12. CASE IsrCall \/ IsrSkip \/ IsrNoVblank \/ \E c \in BOOLEAN : IsrVblank(c)
  <2>1. stk' = stk /\ pc.who = "isr"
    BY <1>12 DEF IsrCall, IsrSkip, IsrNoVblank, IsrVblank, InIsr, stacks
  <2>2. pc'.i = pc.i + 1 \/ pc'.i = 8
    <3>1. CASE IsrCall
      BY <1>1, <3>1 DEF IsrCall, Pos
    <3>2. CASE IsrSkip
      BY <1>1, <3>2 DEF IsrSkip, Pos
    <3>3. CASE IsrNoVblank \/ \E c \in BOOLEAN : IsrVblank(c)
      BY <1>1, <3>3 DEF IsrNoVblank, IsrVblank, Pos
    <3> QED
      BY <1>12, <3>1, <3>2, <3>3
  <2>3. pc'.i > k \/ (pc'.i \in Nat /\ pc'.i >= pc.i)
    BY <1>1, <2>2
  <2> QED
    BY <1>3, <2>1, <2>3
<1>13. CASE IsrExit
  <2>1. pc.who = "isr" /\ pc.at = "go" /\ pc' = Top.pc /\ stk' = Pop
    BY <1>13 DEF IsrExit, InIsr
  <2>2. Len(stk) # 0
    BY <1>1, <2>1 DEF StackInv, BottomOK
  <2> QED
    BY <1>1, <1>5, <2>1, <2>2
<1>14. CASE Exit
  BY <1>14 DEF Exit, Run, Past
<1>15. CASE UserReturn
  <2>1. Len(stk) > 0 /\ Len(stk) \in 1..Len(stk) /\ stk' = Pop
    BY <1>1, <1>15 DEF UserReturn
  <2>2. Top.pc \in Pos
    BY <1>1, <2>1, EntryTypes DEF Top
  <2>3. pc'.who = Top.pc.who /\ pc'.i = Top.pc.i
    BY <1>15, <2>2 DEF UserReturn, Pos
  <2> QED
    BY <1>5, <2>1, <2>3
<1>16. CASE \/ \E s \in Source : \E b \in HandlerBanks[s] : RequestIrq(s, b)
            \/ \E s \in Source : FreeIrq(s)
            \/ EnableInterrupts \/ TakeFrame \/ ISRDeinit \/ RaiseVblank \/ RaiseLine
  BY <1>1, <1>3, <1>16 DEF RequestIrq, FreeIrq, EnableInterrupts, TakeFrame, ISRDeinit,
     RaiseVblank, RaiseLine, stacks
<1> QED
  BY <1>6, <1>7, <1>8, <1>9, <1>10, <1>11, <1>12, <1>13, <1>14, <1>15, <1>16
     DEF Next, Helper, Isr, User

LEMMA NextLatch ==
  ASSUME IInv, LatchOK, [Next]_vars
  PROVE  LatchOK'
<1>1. StackInv /\ Past(0)
  BY DEF IInv, LatchOK
<1>2. Past(0)'
  BY <1>1, PastKept
<1> SUFFICES ASSUME ~HandlerEI, phase' = "main", stat'.v
             PROVE  eiOp' = "NOP" /\ Past(4)'
  BY <1>2 DEF LatchOK
<1>3. ASSUME phase = "main", stat.v
      PROVE  eiOp = "NOP" /\ ~iff /\ Past(4)
  BY <1>3 DEF IInv, LatchOK, PatchOK
<1>4. ASSUME UNCHANGED <<eiOp, stat>>, phase = "main", ~Interrupt
      PROVE  eiOp' = "NOP" /\ Past(4)'
  <2>1. eiOp = "NOP" /\ Past(4)
    BY <1>3, <1>4
  <2>2. Past(4)'
    BY <1>1, <1>4, <2>1, PastKept
  <2> QED
    BY <1>4, <2>1, <2>2
<1>5. CASE Interrupt
  <2>1. iff /\ stat' = stat /\ phase' = phase
    BY <1>5 DEF Interrupt, events
  <2> QED
    BY <1>3, <2>1
<1>6. CASE \E c \in BOOLEAN : IsrVblank(c)
  <2>1. UNCHANGED <<eiOp, stk>> /\ pc.who = "isr" /\ pc.at = "go" /\ Entry[pc.i] = "S0"
    BY <1>6 DEF IsrVblank, InIsr, cpu, stacks
  <2>2. pc.i \in 1..9 /\ pc'.i = pc.i + 1
    BY <1>1, <1>6, <2>1 DEF IsrVblank, Pos, IInv, StackInv, TypeOK, Past
  <2>3. eiOp = "NOP" /\ \A q \in 1..Len(stk) : stk[q].pc.who # "isr"
    BY <2>1, OneIsr
  <2>4. pc.i = 4
    BY <2>1, <2>2 DEF Entry
  <2> QED
    BY <2>1, <2>2, <2>3, <2>4 DEF Past
<1>7. CASE IsrExit \/ Exit \/ ISRDeinit
  BY <1>7 DEF IsrExit, Exit, ISRDeinit
<1>8. CASE UNCHANGED <<eiOp, stat, phase>> /\ ~Interrupt
  BY <1>4, <1>8
<1> QED
  BY <1>5, <1>6, <1>7, <1>8 DEF Next, Helper, Isr, User, CallEnter, CallSwitch, CallLeave, RetEnter,
     RetSwitch, RetLeave, IsrCall, IsrSkip, IsrNoVblank, UserCall, UserReturn, RequestIrq,
     FreeIrq, EnableInterrupts, TakeFrame, RaiseVblank, RaiseLine, cpu, events, vars

-----------------------------------------------------------------------------
(* The counters: each VBLANK adds one to JIFFY and takes one from 82F1H,   *)
(* and is handed on to SCNCNT when it leaves 81B5H.                        *)
LEMMA NextCounted ==
  ASSUME IInv, LatchOK, VblankReachesBios, [Next]_vars, JiffyMod % 2 = 0
  PROVE  /\ VblankReachesBios'
         /\ JiffyMod % FrameRate = 0 /\ FrameInStep => FrameInStep'
<1>1. /\ clk \in [jiffy : 0..JiffyMod - 1, cnt : 1..FrameRate, flag : BOOLEAN, scn : 1..2]
      /\ stat \in [v : BOOLEAN, s : BOOLEAN]
      /\ FrameRate \in Nat /\ FrameRate > 0 /\ JiffyMod \in Nat /\ JiffyMod > 0
  BY BankAssumption DEF IInv, StackInv, TypeOK
<1>2. /\ clk.jiffy \in 0..JiffyMod - 1 /\ clk.cnt \in 1..FrameRate /\ clk.scn \in 1..2
  BY <1>1
<1>3. ASSUME clk'.jiffy = clk.jiffy, clk'.cnt = clk.cnt, clk'.scn = clk.scn, stat' = stat,
             phase' = "main" => phase = "main"
      PROVE  VblankReachesBios' /\ (FrameInStep => FrameInStep')
  BY <1>3 DEF VblankReachesBios, FrameInStep, Latched
<1>4. CASE \E c \in BOOLEAN : IsrVblank(c)
  <2>1. /\ clk' = FrameTick /\ stat'.v = TRUE /\ phase' = phase
        /\ pc.who = "isr" /\ pc.at = "go" /\ Entry[pc.i] = "S0"
    BY <1>4 DEF IsrVblank, InIsr
  <2>2. /\ clk'.jiffy = (clk.jiffy + 1) % JiffyMod /\ clk'.scn = clk.scn
        /\ clk'.cnt = IF clk.cnt = 1 THEN FrameRate ELSE clk.cnt - 1
    BY <1>1, <2>1 DEF FrameTick
  <2>3. ASSUME JiffyMod % FrameRate = 0, FrameInStep
        PROVE  FrameInStep'
    <3>1. (clk.jiffy + clk.cnt) % FrameRate = 0
      BY <2>3 DEF FrameInStep
    <3>2. clk'.cnt \in Nat /\ (clk'.cnt = clk.cnt - 1 \/ clk'.cnt = clk.cnt - 1 + FrameRate)
      BY <1>1, <1>2, <2>2
    <3> DEFINE j == clk.jiffy
               c == clk.cnt
               d == clk'.cnt
    <3>3. /\ FrameRate \in Nat /\ FrameRate > 0 /\ JiffyMod \in Nat /\ JiffyMod > 0
          /\ JiffyMod % FrameRate = 0 /\ j \in 0..JiffyMod - 1 /\ c \in Nat \ {0} /\ d \in Nat
          /\ (j + c) % FrameRate = 0
          /\ d = c - 1 \/ d = c - 1 + FrameRate
      BY <1>1, <1>2, <2>3, <3>1, <3>2
    <3> HIDE DEF j, c, d
    <3>4. (((j + 1) % JiffyMod) + d) % FrameRate = 0
      BY <3>3, MultiplesWrap
    <3>5. (((clk.jiffy + 1) % JiffyMod) + clk'.cnt) % FrameRate = 0
      BY <3>4 DEF j, d
    <3> QED
      BY <2>2, <3>5 DEF FrameInStep
  <2>4. ASSUME BiosTimi, ~HandlerEI, phase = "main"
        PROVE  (clk'.jiffy + 1 + clk'.scn) % 2 = 0
    <3>1. pc.i \in 1..9
      BY <2>1 DEF IInv, StackInv, TypeOK, Pos, LatchOK, Past
    <3>2. pc.i = 4
      BY <2>1, <3>1 DEF Entry
    <3>3. ~stat.v
      BY <2>1, <2>4, <3>2 DEF LatchOK, Past
    <3>4. (clk.jiffy + clk.scn) % 2 = 0
      BY <1>2, <2>4, <3>3 DEF VblankReachesBios, Latched
    <3> DEFINE j == clk.jiffy
               c == clk.scn
               d == clk.scn + 1
               m == 2
    <3>5. /\ m \in Nat /\ m > 0 /\ JiffyMod \in Nat /\ JiffyMod > 0
          /\ JiffyMod % m = 0 /\ j \in 0..JiffyMod - 1 /\ c \in Nat \ {0} /\ d \in Nat
          /\ (j + c) % m = 0
          /\ d = c - 1 \/ d = c - 1 + m
      BY <1>1, <1>2, <3>4
    <3> HIDE DEF j, c, d, m
    <3>6. (((j + 1) % JiffyMod) + d) % m = 0
      BY <3>5, MultiplesWrap
    <3>7. (((clk.jiffy + 1) % JiffyMod) + clk.scn + 1) % 2 = 0
      <4>1. ((clk.jiffy + 1) % JiffyMod) \in Int
        BY <1>1, <1>2
      <4> DEFINE w == (clk.jiffy + 1) % JiffyMod
      <4>2. (w + (clk.scn + 1)) % 2 = 0
        BY <3>6 DEF j, d, m
      <4> HIDE DEF w
      <4>3. w \in Int
        BY <4>1 DEF w
      <4>4. (w + clk.scn + 1) % 2 = 0
        BY <1>2, <4>2, <4>3
      <4> QED
        BY <4>4 DEF w
    <3>8. clk'.jiffy \in Int /\ (clk'.jiffy + clk.scn + 1) % 2 = 0
      BY <1>1, <1>2, <2>2, <3>7
    <3> QED
      BY <1>2, <2>2, <3>8
  <2>5. VblankReachesBios'
    BY <2>1, <2>4 DEF VblankReachesBios, Latched
  <2> QED
    BY <2>3, <2>5
<1>5. CASE IsrExit
  <2>1. /\ clk' = IF stat.v /\ BiosTimi THEN [clk EXCEPT !.scn = IF @ = 1 THEN 2 ELSE @ - 1] ELSE clk
        /\ stat'.v = FALSE /\ phase' = phase
    BY <1>5 DEF IsrExit
  <2>2. /\ clk'.jiffy = clk.jiffy /\ clk'.cnt = clk.cnt
        /\ clk'.scn = IF stat.v /\ BiosTimi THEN (IF clk.scn = 1 THEN 2 ELSE clk.scn - 1) ELSE clk.scn
    BY <1>1, <2>1
  <2>3. FrameInStep => FrameInStep'
    BY <2>2 DEF FrameInStep
  <2>4. ASSUME BiosTimi, ~HandlerEI, phase = "main"
        PROVE  (clk'.jiffy + clk'.scn) % 2 = 0
    <3>1. (clk.jiffy + (IF stat.v THEN 1 ELSE 0) + clk.scn) % 2 = 0
      BY <2>4 DEF VblankReachesBios, Latched
    <3>2. CASE ~stat.v
      BY <1>2, <2>2, <3>1, <3>2
    <3>3. CASE stat.v
      <4>1. clk.jiffy \in Int /\ (clk.jiffy + 1 + clk.scn) % 2 = 0
        BY <1>2, <3>1, <3>3
      <4>2. (clk.scn = 1 /\ clk'.scn = 2) \/ (clk.scn = 2 /\ clk'.scn = 1)
        BY <1>2, <2>2, <2>4, <3>3
      <4> QED
        BY <2>2, <4>1, <4>2
    <3> QED
      BY <3>2, <3>3
  <2>5. VblankReachesBios'
    <3>1. clk'.jiffy \in Int /\ clk'.scn \in Int
      BY <1>2, <2>2
    <3> QED
      BY <2>1, <2>4, <3>1 DEF VblankReachesBios, Latched
  <2> QED
    BY <2>3, <2>5
<1>6. CASE TakeFrame
  BY <1>1, <1>3, <1>6 DEF TakeFrame
<1>7. CASE UNCHANGED <<clk, stat>> /\ (phase' = "main" => phase = "main")
  BY <1>3, <1>7
<1> QED
  BY <1>4, <1>5, <1>6, <1>7 DEF Next, Helper, Isr, User, CallEnter, CallSwitch, CallLeave, RetEnter,
     RetSwitch, RetLeave, Interrupt, IsrCall, IsrSkip, IsrNoVblank, UserCall, UserReturn, RequestIrq,
     FreeIrq, EnableInterrupts, Exit, ISRDeinit, RaiseVblank, RaiseLine, events, vars

(* Nothing is counted yet.                                                 *)
LEMMA InitCounted ==
  ASSUME Init
  PROVE  IInv /\ LatchOK /\ VblankReachesBios /\ FrameInStep
<1>1. IInv
  <2>1. ExitOK /\ PatchOK
    BY DEF Init, ExitOK, PatchOK, IsrActive
  <2> QED
    BY <2>1, InitStack DEF IInv
<1>2. LatchOK
  BY DEF Init, LatchOK, Past, Run
<1>3. VblankReachesBios
  BY DEF Init, VblankReachesBios, Latched
<1>4. FrameInStep
  <2>1. FrameRate \in Nat /\ FrameRate > 0 /\ 1 * FrameRate = FrameRate
    BY BankAssumption
  <2>2. FrameRate % FrameRate = 0
    BY <2>1, Multiples
  <2> QED
    BY <2>1, <2>2 DEF Init, FrameInStep
<1> QED
  BY <1>1, <1>2, <1>3, <1>4

(* No VBLANK is counted twice or lost between JIFFY, 81B5H and the BIOS.   *)
(* JIFFY counts modulo 2^16 in the code: any even modulus will do.         *)
THEOREM ReachesTheorem ==
  ASSUME JiffyMod % 2 = 0
  PROVE  Spec => []VblankReachesBios
<1> DEFINE I == IInv /\ LatchOK /\ VblankReachesBios
<1>1. Init => I
  BY InitCounted DEF I
<1>2. I /\ [Next]_vars => I'
  <2>1. IInv /\ [Next]_vars => IInv'
    BY NextStack, NextExit, NextPatch DEF IInv
  <2> QED
    BY <2>1, NextLatch, NextCounted
<1> HIDE DEF I
<1>3. I => VblankReachesBios
  BY DEF I
<1> QED
  BY <1>1, <1>2, <1>3, PTL DEF Spec

(* ... and the frame counter keeps step with JIFFY.  Nothing reads JIFFY,  *)
(* so it may be taken to count modulo any even multiple of the frame rate. *)
THEOREM CountedTheorem ==
  ASSUME JiffyMod % 2 = 0, JiffyMod % FrameRate = 0
  PROVE  Spec => []VblanksCounted
<1> DEFINE I == IInv /\ LatchOK /\ VblankReachesBios /\ FrameInStep
<1>1. Init => I
  BY InitCounted DEF I
<1>2. I /\ [Next]_vars => I'
  <2>1. IInv /\ [Next]_vars => IInv'
    BY NextStack, NextExit, NextPatch DEF IInv
  <2> QED
    BY <2>1, NextLatch, NextCounted
<1> HIDE DEF I
<1>3. I => VblanksCounted
  BY DEF I, VblanksCounted
<1> QED
  BY <1>1, <1>2, <1>3, PTL DEF Spec
=============================================================================
