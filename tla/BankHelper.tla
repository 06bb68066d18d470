----------------------------- MODULE BankHelper -----------------------------
(***************************************************************************)
(* The banking helper of the BL run time: the 768 bytes of machine code in *)
(* BANKCALL.H that BLCRT.C copies to 8000H.  It switches the mapper        *)
(* segments of pages 0 and 1 around a call between banks (BankCall 8000H,  *)
(* BankRet 8028H) and dispatches interrupts to handlers that live in banks *)
(* (ISR 80BBH).  The model starts when main() is called and ends when      *)
(* bl_main() has taken the interrupt hook back (ISRDeinit 80ADH).          *)
(*                                                                         *)
(* Three actors share one CPU: the application (any code in a bank), the   *)
(* helper and the VDP, which raises interrupts.  Helper code runs with     *)
(* interrupts off except at its first instruction (DI) and after its last  *)
(* EI, so the steps at "call" and "ret" may still be interrupted.          *)
(*                                                                         *)
(* A bank stands for the pair of segments of its entry in the Bank index   *)
(* (8400H).  A position in code is a record                                *)
(*   who  "run" for code in a bank, "isr" for the body of ISR,             *)
(*   bank the bank the code was running in (for "isr": the bank that was   *)
(*        mapped when the interrupt arrived),                              *)
(*   i    the next entry of the ISR to serve (0 for "run"),                *)
(*   at   "go" in that code, or the place reached in BankCall / BankRet,   *)
(*   tgt  the bank being called,                                           *)
(* and two history components that no action branches on:                  *)
(*   d    the depth of the application stack at which the code runs,       *)
(*   f    the number of frames of the bank stack below it.                 *)
(***************************************************************************)
EXTENDS Naturals, Sequences

CONSTANTS
  Bank,        \* the banks
  Bank0,       \* the bank that holds bl_main() and bl_exit()
  None,        \* an ISR entry with no handler
  HandlerBanks,\* HandlerBanks[s]: the banks a handler for source s may be in
  HandlerEI,   \* do handlers execute EI (bl_lmem_read, bl_grp_update_reg ...)?
  BiosTimi,    \* bit 0 of 8278H: hand VBLANK on to the BIOS
  FrameRate,   \* 82F2H: VBLANKs per frame
  JiffyMod,    \* JIFFY counts modulo this (2^16 in the code)
  CallDepth,   \* bound: application stack depth up to which code makes calls
  IntDepth     \* bound: application stack depth up to which interrupts nest

(* The ISR's entries in the order 80D3H..817CH serves them; S0 is the read *)
(* of VDP status 0 at 8118H and EXIT the tail at 817EH.                    *)
Entry == <<"EXT0", "HBLK", "EXT1", "S0", "CYCL", "SPRT", "VBLK", "EXT2", "EXIT">>
Source == {"EXT0", "HBLK", "EXT1", "CYCL", "SPRT", "VBLK", "EXT2"}

ASSUME BankAssumption ==
  /\ Bank0 \in Bank
  /\ None \notin Bank
  /\ HandlerBanks \in [Source -> SUBSET Bank]
  /\ HandlerEI \in BOOLEAN
  /\ BiosTimi \in BOOLEAN
  /\ FrameRate \in Nat \ {0}
  /\ JiffyMod \in Nat \ {0}
  /\ CallDepth \in Nat
  /\ IntDepth \in Nat

VARIABLES
  iff,    \* the CPU's interrupt enable flip-flop
  eiOp,   \* the bytes at 8026H and 8047H: "EI", or "NOP" while ISR runs
  p0, p1, \* the banks whose segments are in page 0 and page 1
  cur,    \* CurSeg, the operand at 8010H
  bstk,   \* the memory of the bank stack (9000H downwards), oldest frame first
  bsp,    \* BankSP, the operand at 800CH, as a number of frames
  stk,    \* the application stack: BankRet addresses and interrupted contexts
  svC,    \* the operand at 8024H: SP saved by BankCall, 0 when it is dead
  svR,    \* the operand at 8044H: SP saved by BankRet, 0 when it is dead
  pc,     \* where the CPU is
  irq,    \* ISR entries: the bank of the handler, None when off
  vdp,    \* interrupts the VDP has pending: f (VBLANK) and fh (line)
  stat,   \* 81B5H: the VBLANK and sprite-collision bits ISR has latched
  clk,    \* JIFFY, 82F1H, 82F0H and SCNCNT
  phase   \* "main", "ret" from main_ret on, "done" after ISRDeinit

cpu == <<iff, eiOp>>
banks == <<p0, p1, cur>>
stacks == <<bstk, bsp, stk, svC, svR>>
events == <<irq, vdp, stat, clk>>
vars == <<cpu, banks, stacks, pc, events, phase>>

(***************************************************************************)
(* Positions, frames and stack entries                                     *)
(***************************************************************************)
Pos == [who : {"run", "isr"}, bank : Bank, i : 0..9,
        at : {"go", "call", "call1", "call2", "ret", "ret1", "ret2"},
        tgt : Bank, d : Nat, f : Nat]
Frame == [pc : Pos, seg : Bank]
StackEntry == [k : {"ret", "int"}, pc : Pos]

(* The position a return address stands for.                               *)
Resume(p) == [p EXCEPT !.at = "go", !.tgt = p.bank]

Run(b, d, f) == [who |-> "run", bank |-> b, i |-> 0, at |-> "go",
                 tgt |-> b, d |-> d, f |-> f]

Top == stk[Len(stk)]
Pop == SubSeq(stk, 1, Len(stk) - 1)

Init ==
  /\ iff = TRUE
  /\ eiOp = "EI"
  /\ p0 = Bank0
  /\ p1 = Bank0
  /\ cur = Bank0
  /\ bstk = <<>>
  /\ bsp = 0
  /\ stk = <<>>
  /\ svC = 0
  /\ svR = 0
  /\ pc = Run(Bank0, 0, 0)
  /\ irq = [s \in Source |-> None]
  /\ vdp = [f |-> FALSE, fh |-> FALSE]
  /\ stat = [v |-> FALSE, s |-> FALSE]
  /\ clk = [jiffy |-> 0, cnt |-> FrameRate, flag |-> FALSE, scn |-> 2]
  /\ phase = "main"

(***************************************************************************)
(* BankCall (8000H)                                                        *)
(***************************************************************************)

(* Code in a bank: the application until main_ret, its handlers after that *)
(* too.                                                                    *)
UserGo == pc.who = "run" /\ pc.at = "go" /\ (phase = "main" \/ pc.d > 0)

(* Code in a bank calls a function of bank b: CALL 8000H with the segments *)
(* of b in HL.  The abort callback (82DBH) does the same with bank 0 when  *)
(* bl_abort is set, which it is while main() runs.                         *)
UserCall(b) ==
  /\ UserGo
  /\ Len(stk) < CallDepth
  /\ pc' = [pc EXCEPT !.at = "call", !.tgt = b]
  /\ UNCHANGED <<cpu, banks, stacks, events, phase>>

(* Mutant: BankCall without its DI.                                        *)
CallEnter_NoDI ==
  /\ pc.at = "call"
  /\ stk' = Append(stk, [k |-> "ret", pc |-> Resume(pc)])
  /\ svC' = Len(stk) + 1
  /\ pc' = [pc EXCEPT !.at = "call1"]
  /\ UNCHANGED <<cpu, banks, bstk, bsp, svR, events, phase>>

(* DI; the return address on the stack is exchanged for that of BankRet;   *)
(* SP goes to the operand at 8024H and is set to BankSP.                   *)
CallEnter ==
  /\ pc.at = "call"
  /\ iff' = FALSE
  /\ stk' = Append(stk, [k |-> "ret", pc |-> Resume(pc)])
  /\ svC' = Len(stk) + 1
  /\ pc' = [pc EXCEPT !.at = "call1"]
  /\ UNCHANGED <<eiOp, banks, bstk, bsp, svR, events, phase>>

(* PUSH the return address and CurSeg at BankSP, CurSeg := target, PUT_P0. *)
CallSwitch ==
  /\ pc.at = "call1"
  /\ bstk' = Append(SubSeq(bstk, 1, bsp), [pc |-> Resume(pc), seg |-> cur])
  /\ cur' = pc.tgt
  /\ p0' = pc.tgt
  /\ pc' = [pc EXCEPT !.at = "call2"]
  /\ UNCHANGED <<cpu, p1, bsp, stk, svC, svR, events, phase>>

(* PUT_P1, BankSP := SP, SP := saved SP, EI (or NOP), RET to the target.   *)
CallLeave ==
  /\ pc.at = "call2"
  /\ p1' = pc.tgt
  /\ bsp' = bsp + 1
  /\ stk' = SubSeq(stk, 1, svC)
  /\ iff' = (iff \/ eiOp = "EI")
  /\ svC' = 0
  /\ pc' = Run(pc.tgt, svC, bsp + 1)
  /\ UNCHANGED <<eiOp, p0, cur, bstk, svR, events, phase>>

(***************************************************************************)
(* BankRet (8028H)                                                         *)
(***************************************************************************)

(* The function returns: RET pops the address of BankRet.                  *)
UserReturn ==
  /\ pc.who = "run" /\ pc.at = "go"
  /\ pc.d > 0
  /\ stk' = Pop
  /\ pc' = [Top.pc EXCEPT !.at = "ret"]
  /\ UNCHANGED <<cpu, banks, bstk, bsp, svC, svR, events, phase>>

(* DI; SP goes to the operand at 8044H and is set to BankSP.               *)
RetEnter ==
  /\ pc.at = "ret"
  /\ iff' = FALSE
  /\ svR' = Len(stk)
  /\ pc' = [pc EXCEPT !.at = "ret1"]
  /\ UNCHANGED <<eiOp, banks, bstk, bsp, stk, svC, events, phase>>

(* Mutant: the popped segments are not stored in CurSeg.                   *)
RetSwitch_KeepCurSeg ==
  /\ pc.at = "ret1"
  /\ p0' = bstk[bsp].seg
  /\ pc' = [pc EXCEPT !.at = "ret2"]
  /\ UNCHANGED <<cpu, p1, cur, stacks, events, phase>>

(* POP the caller's segments from the bank stack, CurSeg := them, PUT_P0.  *)
RetSwitch ==
  /\ pc.at = "ret1"
  /\ cur' = bstk[bsp].seg
  /\ p0' = bstk[bsp].seg
  /\ pc' = [pc EXCEPT !.at = "ret2"]
  /\ UNCHANGED <<cpu, p1, stacks, events, phase>>

(* Mutant: SP is not stored back in BankSP.                                *)
RetLeave_KeepBankSP ==
  /\ pc.at = "ret2"
  /\ p1' = bstk[bsp].seg
  /\ stk' = SubSeq(stk, 1, svR)
  /\ iff' = (iff \/ eiOp = "EI")
  /\ svR' = 0
  /\ pc' = bstk[bsp].pc
  /\ UNCHANGED <<eiOp, p0, cur, bstk, bsp, svC, events, phase>>

(* PUT_P1, POP the return address, BankSP := SP, SP := saved SP, EI (or    *)
(* NOP), and on to the return address.                                     *)
RetLeave ==
  /\ pc.at = "ret2"
  /\ p1' = bstk[bsp].seg
  /\ bsp' = bsp - 1
  /\ bstk' = SubSeq(bstk, 1, bsp - 1)
  /\ stk' = SubSeq(stk, 1, svR)
  /\ iff' = (iff \/ eiOp = "EI")
  /\ svR' = 0
  /\ pc' = bstk[bsp].pc
  /\ UNCHANGED <<eiOp, p0, cur, svC, events, phase>>

(***************************************************************************)
(* ISR (80BBH)                                                             *)
(***************************************************************************)

(* Mutant: the EI instructions of BankCall and BankRet are not patched.    *)
Interrupt_NoPatch ==
  /\ iff
  /\ phase # "done"
  /\ vdp.f \/ vdp.fh
  /\ Len(stk) < IntDepth
  /\ stk' = Append(stk, [k |-> "int", pc |-> pc])
  /\ pc' = [who |-> "isr", bank |-> cur, i |-> 1, at |-> "go", tgt |-> cur,
            d |-> Len(stk) + 1, f |-> bsp]
  /\ iff' = FALSE
  /\ UNCHANGED <<eiOp, banks, bstk, bsp, svC, svR, events, phase>>

(* The CPU accepts an interrupt and the hook jumps to ISR, which patches   *)
(* the EI of BankCall and BankRet to NOP.                                  *)
Interrupt ==
  /\ iff
  /\ phase # "done"
  /\ vdp.f \/ vdp.fh
  /\ Len(stk) < IntDepth
  /\ stk' = Append(stk, [k |-> "int", pc |-> pc])
  /\ pc' = [who |-> "isr", bank |-> cur, i |-> 1, at |-> "go", tgt |-> cur,
            d |-> Len(stk) + 1, f |-> bsp]
  /\ iff' = FALSE
  /\ eiOp' = "NOP"
  /\ UNCHANGED <<banks, bstk, bsp, svC, svR, events, phase>>

InIsr(entries) == pc.who = "isr" /\ pc.at = "go" /\ Entry[pc.i] \in entries

(* The entry is called: its handler is on, and for HBLK the line interrupt *)
(* is pending, for SPRT the VBLANK just read came with a collision.        *)
Due ==
  /\ irq[Entry[pc.i]] # None
  /\ Entry[pc.i] = "HBLK" => vdp.fh
  /\ Entry[pc.i] = "SPRT" => stat.s

(* The test of HBLK reads VDP status 1, which takes the line interrupt.    *)
ReadStatus1 ==
  vdp' = IF Entry[pc.i] = "HBLK" /\ irq["HBLK"] # None
           THEN [vdp EXCEPT !.fh = FALSE] ELSE vdp

(* The handler of the entry is called through BankCall, or passed over.    *)
IsrCall ==
  /\ InIsr(Source)
  /\ Due
  /\ ReadStatus1
  /\ pc' = [pc EXCEPT !.at = "call", !.tgt = irq[Entry[pc.i]], !.i = pc.i + 1]
  /\ UNCHANGED <<cpu, banks, stacks, irq, stat, clk, phase>>

IsrSkip ==
  /\ InIsr(Source)
  /\ ~Due
  /\ ReadStatus1
  /\ pc' = [pc EXCEPT !.i = pc.i + 1]
  /\ UNCHANGED <<cpu, banks, stacks, irq, stat, clk, phase>>

(* Mutant: when status 0 has no VBLANK the ISR starts again.               *)
IsrNoVblank_Retry ==
  /\ InIsr({"S0"})
  /\ ~vdp.f
  /\ pc' = [pc EXCEPT !.i = 1]
  /\ UNCHANGED <<cpu, banks, stacks, events, phase>>

(* Status 0 has no VBLANK: on to EXT2, past the VBLANK entries.            *)
IsrNoVblank ==
  /\ InIsr({"S0"})
  /\ ~vdp.f
  /\ pc' = [pc EXCEPT !.i = 8]
  /\ UNCHANGED <<cpu, banks, stacks, events, phase>>

(* JIFFY counts the VBLANK; when 82F1H has counted FrameRate of them down  *)
(* it starts again and 82F0H is set.                                       *)
FrameTick ==
  [clk EXCEPT !.jiffy = (clk.jiffy + 1) % JiffyMod,
              !.cnt = IF clk.cnt = 1 THEN FrameRate ELSE clk.cnt - 1,
              !.flag = clk.flag \/ clk.cnt = 1]

(* Status 0 has a VBLANK, which reading it takes; it is latched in 81B5H   *)
(* with the sprite-collision bit and counted.                              *)
IsrVblank(collision) ==
  /\ InIsr({"S0"})
  /\ vdp.f
  /\ vdp' = [vdp EXCEPT !.f = FALSE]
  /\ stat' = [v |-> TRUE, s |-> collision]
  /\ clk' = FrameTick
  /\ pc' = [pc EXCEPT !.i = pc.i + 1]
  /\ UNCHANGED <<cpu, banks, stacks, irq, phase>>

(* Mutant: 81B5H is not cleared.                                           *)
IsrExit_KeepStat ==
  /\ InIsr({"EXIT"})
  /\ eiOp' = "EI"
  /\ clk' = IF stat.v /\ BiosTimi
              THEN [clk EXCEPT !.scn = IF @ = 1 THEN 2 ELSE @ - 1]
              ELSE clk
  /\ pc' = Top.pc
  /\ stk' = Pop
  /\ iff' = TRUE
  /\ UNCHANGED <<banks, bstk, bsp, svC, svR, irq, vdp, stat, phase>>

(* The tail of the ISR: the EI instructions are patched back, a VBLANK     *)
(* latched in 81B5H is handed on to the BIOS if 8278H says so, 81B5H is    *)
(* cleared, EI and return to the interrupted code.                         *)
IsrExit ==
  /\ InIsr({"EXIT"})
  /\ eiOp' = "EI"
  /\ stat' = [v |-> FALSE, s |-> FALSE]
  /\ clk' = IF stat.v /\ BiosTimi
              THEN [clk EXCEPT !.scn = IF @ = 1 THEN 2 ELSE @ - 1]
              ELSE clk
  /\ pc' = Top.pc
  /\ stk' = Pop
  /\ iff' = TRUE
  /\ UNCHANGED <<banks, bstk, bsp, svC, svR, irq, vdp, phase>>

(***************************************************************************)
(* The application and bl_main()                                           *)
(***************************************************************************)
(* Outside a handler, or in any code when handlers may execute EI, since   *)
(* the library functions below end with EI.                                *)
MayEI == UserGo /\ (eiOp = "EI" \/ HandlerEI)

(* bl_request_irq and bl_enable_irq; bl_disable_irq and bl_free_irq.  The  *)
(* application enables line interrupts in the VDP only while HBLK is on.   *)
RequestIrq(s, b) ==
  /\ MayEI
  /\ irq[s] = None
  /\ irq' = [irq EXCEPT ![s] = b]
  /\ iff' = TRUE
  /\ UNCHANGED <<eiOp, banks, stacks, pc, vdp, stat, clk, phase>>

FreeIrq(s) ==
  /\ MayEI
  /\ irq[s] # None
  /\ irq' = [irq EXCEPT ![s] = None]
  /\ vdp' = IF s = "HBLK" THEN [vdp EXCEPT !.fh = FALSE] ELSE vdp
  /\ iff' = TRUE
  /\ UNCHANGED <<eiOp, banks, stacks, pc, stat, clk, phase>>

(* Any library function that ends with EI, called by a handler.            *)
EnableInterrupts ==
  /\ MayEI
  /\ ~iff
  /\ iff' = TRUE
  /\ UNCHANGED <<eiOp, banks, stacks, pc, events, phase>>

(* The application waits for the frame flag 82F0H and clears it.           *)
TakeFrame ==
  /\ UserGo
  /\ clk.flag
  /\ clk' = [clk EXCEPT !.flag = FALSE]
  /\ UNCHANGED <<cpu, banks, stacks, pc, irq, vdp, stat, phase>>

(* main() returns, or bl_exit() is called at any depth: bl_exit is in bank *)
(* 0, and loads the SP bl_main() saved; BankSP is left where it is.  The   *)
(* model assumes that no handler calls bl_exit() again after main_ret.     *)
Exit ==
  /\ UserGo /\ phase = "main"
  /\ pc.bank = Bank0
  /\ stk' = <<>>
  /\ pc' = Run(Bank0, 0, bsp)
  /\ phase' = "ret"
  /\ UNCHANGED <<cpu, banks, bstk, bsp, svC, svR, events>>

(* ISRDeinit (80ADH): DI, restore the hook, EI.  (Mutant: without the EI.) *)
ISRDeinit_NoEI ==
  /\ phase = "ret"
  /\ pc.who = "run" /\ pc.at = "go" /\ pc.d = 0
  /\ iff' = FALSE
  /\ phase' = "done"
  /\ UNCHANGED <<eiOp, banks, stacks, pc, events>>

ISRDeinit ==
  /\ phase = "ret"
  /\ pc.who = "run" /\ pc.at = "go" /\ pc.d = 0
  /\ iff' = TRUE
  /\ phase' = "done"
  /\ UNCHANGED <<eiOp, banks, stacks, pc, events>>

(***************************************************************************)
(* The VDP                                                                 *)
(***************************************************************************)
RaiseVblank ==
  /\ ~vdp.f
  /\ phase # "done"
  /\ vdp' = [vdp EXCEPT !.f = TRUE]
  /\ UNCHANGED <<cpu, banks, stacks, pc, irq, stat, clk, phase>>

RaiseLine ==
  /\ ~vdp.fh
  /\ phase # "done"
  /\ irq["HBLK"] # None
  /\ vdp' = [vdp EXCEPT !.fh = TRUE]
  /\ UNCHANGED <<cpu, banks, stacks, pc, irq, stat, clk, phase>>

Helper ==
  \/ CallEnter \/ CallSwitch \/ CallLeave
  \/ RetEnter \/ RetSwitch \/ RetLeave

Isr ==
  \/ IsrCall \/ IsrSkip \/ IsrNoVblank \/ IsrExit
  \/ \E collision \in BOOLEAN : IsrVblank(collision)

User ==
  \/ \E b \in Bank : UserCall(b)
  \/ UserReturn
  \/ \E s \in Source : \E b \in HandlerBanks[s] : RequestIrq(s, b)
  \/ \E s \in Source : FreeIrq(s)
  \/ EnableInterrupts \/ TakeFrame \/ Exit \/ ISRDeinit

Next == Helper \/ Interrupt \/ Isr \/ User \/ RaiseVblank \/ RaiseLine

Spec == Init /\ [][Next]_vars

(* The CPU runs on in the helper, the ISR and bl_main(), an interrupt is   *)
(* accepted as soon as it is enabled, and the code of every activation     *)
(* returns in the end: at no depth does code call other functions for      *)
(* ever.                                                                   *)
Fairness ==
  /\ WF_vars(Helper) /\ WF_vars(Isr) /\ WF_vars(ISRDeinit)
  /\ SF_vars(Interrupt)
  /\ \A depth \in 1..CallDepth + 2 : SF_vars(UserReturn /\ pc.d = depth)

FairSpec == Spec /\ Fairness

(***************************************************************************)
(* Properties                                                              *)
(***************************************************************************)
TypeOK ==
  /\ iff \in BOOLEAN
  /\ eiOp \in {"EI", "NOP"}
  /\ p0 \in Bank /\ p1 \in Bank /\ cur \in Bank
  /\ bstk \in Seq(Frame)
  /\ bsp \in Nat
  /\ stk \in Seq(StackEntry)
  /\ svC \in Nat /\ svR \in Nat
  /\ pc \in Pos
  /\ irq \in [Source -> Bank \cup {None}]
  /\ vdp \in [f : BOOLEAN, fh : BOOLEAN]
  /\ stat \in [v : BOOLEAN, s : BOOLEAN]
  /\ clk \in [jiffy : 0..JiffyMod - 1, cnt : 1..FrameRate,
              flag : BOOLEAN, scn : 1..2]
  /\ phase \in {"main", "ret", "done"}

(* Whenever code in a bank runs, pages 0 and 1 hold that bank and CurSeg   *)
(* names it, whatever calls, returns and interrupts came before; the ISR   *)
(* finds and leaves the mapping of the code it interrupted (80BBH-81A9H).  *)
MappedRight ==
  pc.at \in {"go", "call"} => p0 = pc.bank /\ p1 = pc.bank /\ cur = pc.bank

(* A function returns to the activation that called it: the position       *)
(* BankRet takes from the bank stack is the one whose return address       *)
(* BankCall replaced on the application stack, at the same stack depth.    *)
ReturnsToCaller ==
  [][pc.at = "ret2" /\ pc' # pc => pc' = Resume(pc) /\ Len(stk') = pc'.d]_vars

(* The ISR is not re-entered as long as no handler enables interrupts:     *)
(* while it is active interrupts stay off and BankCall and BankRet do not  *)
(* turn them on (the patches at 8026H and 8047H).                          *)
IsrActive == \E q \in 1..Len(stk) : stk[q].k = "int"

IsrExclusive ==
  ~HandlerEI =>
    /\ IsrActive => ~iff /\ eiOp = "NOP"
    /\ \A q, r \in 1..Len(stk) :
         stk[q].k = "int" /\ stk[r].k = "int" => q = r

(* Every VBLANK the ISR counts in JIFFY reaches the BIOS divider SCNCNT    *)
(* exactly once: at all times the two differ only by the one latched in    *)
(* 81B5H.  (Checked with an even JiffyMod.)                                *)
Latched == IF stat.v THEN 1 ELSE 0

VblankReachesBios ==
  BiosTimi /\ ~HandlerEI /\ phase = "main" =>
    (clk.jiffy + Latched + clk.scn) % 2 = 0

(* The frame flag 82F0H is raised once every FrameRate VBLANKs: the frame  *)
(* counter 82F1H keeps step with JIFFY.  (JiffyMod is a multiple of it.)   *)
FrameInStep == (clk.jiffy + clk.cnt) % FrameRate = 0

(* No VBLANK is counted twice or not at all, by JIFFY, the BIOS or the     *)
(* frame counter.                                                          *)
VblanksCounted == VblankReachesBios /\ FrameInStep

(* When bl_main() has taken the hook back, wherever bl_exit() was called   *)
(* from, interrupts are on and bank 0 is mapped: what follows (freeing the *)
(* segments, the environment) runs in bl_main() itself.                    *)
DoneClean ==
  phase = "done" => iff /\ p0 = Bank0 /\ p1 = Bank0 /\ stk = <<>>

(* An ISR that was entered ends (or bl_exit() abandons it).                *)
IsrEnds == IsrActive ~> ~IsrActive

(* A VBLANK the VDP raises is read by the ISR unless the program ends.     *)
VblankServed == vdp.f ~> (~vdp.f \/ phase = "done")

(* No interrupt keeps the processor, or waits, for ever.                   *)
InterruptsServed == IsrEnds /\ VblankServed

(***************************************************************************)
(* The inductive invariant behind MappedRight and ReturnsToCaller.  An     *)
(* entry of the application stack owes the bank stack a frame when it is a *)
(* BankRet address, or the context of code interrupted in BankRet before   *)
(* its DI; the history component f says which frame.                       *)
(***************************************************************************)
Owes(e) == e.k = "ret" \/ e.pc.at = "ret"

Above(q) == IF q < pc.d THEN stk[q + 1].pc ELSE pc

(* Each entry lies at the depth of the activation it resumes, and finds    *)
(* its frame where it is owed.                                             *)
EntriesOK ==
  \A q \in 1..pc.d :
    /\ stk[q].pc.d = q - 1
    /\ stk[q].pc.at \in IF stk[q].k = "ret" THEN {"go"} ELSE {"go", "call", "ret"}
    /\ Owes(stk[q]) =>
         /\ stk[q].pc.f < Len(bstk)
         /\ bstk[stk[q].pc.f + 1] = [pc |-> Resume(stk[q].pc), seg |-> stk[q].pc.bank]

(* Frames lie on the bank stack in the order of the entries that own them. *)
FramesInOrder ==
  /\ \A q, r \in 1..pc.d :
       q < r /\ Owes(stk[q]) => stk[q].pc.f < stk[r].pc.f
  /\ \A q \in 1..pc.d : Owes(stk[q]) => stk[q].pc.f < pc.f

(* Above an interrupted context runs the ISR, with its mapping; above a    *)
(* BankRet address runs code in a bank; each knows how many frames it has. *)
LevelsOK ==
  \A q \in 1..pc.d :
    /\ stk[q].k = "int" <=> Above(q).who = "isr"
    /\ Above(q).f = stk[q].pc.f + (IF Owes(stk[q]) THEN 1 ELSE 0)
    /\ stk[q].k = "int" /\ stk[q].pc.at # "ret" => Above(q).bank = stk[q].pc.bank

BottomOK == (IF pc.d = 0 THEN pc ELSE stk[1].pc).who = "run"

(* What each position in the helper has done so far.                       *)
PositionOK ==
  /\ pc.d = IF pc.at \in {"call1", "call2"} THEN Len(stk) - 1 ELSE Len(stk)
  /\ bsp = IF pc.at \in {"ret", "ret1", "ret2"} THEN pc.f + 1 ELSE pc.f
  /\ Len(bstk) = IF pc.at = "call2" THEN bsp + 1 ELSE bsp
  /\ pc.at \in {"go", "call", "call1"} => cur = pc.bank
  /\ pc.at \notin {"call2", "ret2"} => p0 = cur /\ p1 = cur
  /\ pc.at \in {"call1", "call2", "ret1", "ret2"} => ~iff
  /\ pc.at \in {"call1", "call2"} =>
       /\ svC = Len(stk) /\ svC > 0
       /\ stk[svC] = [k |-> "ret", pc |-> Resume(pc)]
  /\ pc.at = "call2" =>
       /\ p0 = pc.tgt /\ cur = pc.tgt
       /\ bstk[bsp + 1] = [pc |-> Resume(pc), seg |-> pc.bank]
  /\ pc.at \in {"ret", "ret1", "ret2"} =>
       bstk[bsp] = [pc |-> Resume(pc), seg |-> pc.bank]
  /\ pc.at \in {"ret1", "ret2"} => svR = Len(stk)
  /\ pc.at = "ret2" => p0 = pc.bank /\ cur = pc.bank

StackInv ==
  /\ TypeOK
  /\ EntriesOK
  /\ FramesInOrder
  /\ LevelsOK
  /\ BottomOK
  /\ PositionOK

(* From main_ret on, the code at the bottom of the stack is bl_main().     *)
ExitOK ==
  /\ phase # "main" => /\ (IF pc.d = 0 THEN pc ELSE stk[1].pc).bank = Bank0
                       /\ (IF pc.d = 0 THEN pc ELSE stk[1].pc).at = "go"
  /\ phase # "main" /\ pc.d > 0 => stk[1].k = "int"
  /\ phase = "done" => pc.d = 0 /\ iff

(* Without handlers that execute EI, the patch at 8026H and 8047H keeps    *)
(* interrupts off while it is in place.                                    *)
PatchOK ==
  ~HandlerEI =>
    /\ eiOp = "NOP" /\ phase # "done" => ~iff
    /\ IsrActive => eiOp = "NOP"
    /\ \A q, r \in 1..Len(stk) : stk[q].k = "int" /\ stk[r].k = "int" => q = r

IInv ==
  /\ StackInv
  /\ ExitOK
  /\ PatchOK
=============================================================================
