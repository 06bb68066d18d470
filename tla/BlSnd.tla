------------------------------- MODULE BlSnd -------------------------------
(***************************************************************************)
(* The sound library of BLSND.C and the program 2BGM (SUB.C) that drives   *)
(* it.  The music driver, bl_bgm_..., is external: queues of pieces, one   *)
(* per channel, that its interrupt handler takes from while it plays.  The *)
(* handler may run between any two steps of the library.                   *)
(***************************************************************************)
EXTENDS Integers, Sequences

CONSTANTS
  Hblks,     \* builds: TRUE with BLBGM_HBLK, the handler runs on a screen line
  DrumRoom,  \* pieces the rhythm queue holds
  DrumFree,  \* the program refills it while more than this many are free
  MaxShots,  \* bound: effects in one section
  MaxRefills \* bound: refills of the drum loop

ASSUME SndAssumption ==
  /\ Hblks \subseteq BOOLEAN /\ DrumFree \in Nat /\ MaxShots \in Nat /\ MaxRefills \in Nat
  /\ DrumRoom \in Nat /\ DrumRoom >= 2 \* the two pieces sub() begins the drums with

VARIABLES
  enable,  \* bl_snd.enable
  drv,     \* the driver: [ready, state, queue, ovl]
  irq_,    \* the interrupt: [handler, on, line, hblk]
  todo,    \* what is left of the library call in progress
  subAt,      \* the next step of sub()
  shots,   \* history: effects and refills of this section
  section  \* history: the section of sub() being queued or played

sndVars == <<enable, drv, irq_, todo, subAt, shots, section>>

Rth == 9
EffectCh == 2
SndChannels == {0, 1, 2, 3, 4, 5, Rth}

Op(op) == [op |-> op, ch |-> 0]
Enq(ch) == [op |-> "enqueue", ch |-> ch]

(* sub(): the pieces of a section, play, shot, stop.                       *)
Section(queued) == [i \in 1..Len(queued) |-> Enq(queued[i])] \o <<Op("play"), Op("shot"), Op("stop")>>
SubCalls ==
  <<Op("init")>> \o Section(<<0, 0>>) \o Section(<<3, 3>>) \o Section(<<0, 1, 0, 1>>) \o Section(<<3, 4, 5, 3, 4, 5>>)
    \o Section(<<0, 1, 2>>) \o <<Enq(Rth), Enq(Rth), Op("play"), Op("drums"), Op("stop"), Op("deinit")>>

Idle == [ready |-> FALSE, state |-> "idle", queue |-> [ch \in SndChannels |-> <<>>],
         ovl |-> [on |-> FALSE, pieces |-> <<>>]]

SndInit ==
  /\ enable = FALSE /\ drv = Idle /\ irq_ \in [handler : {"none"}, on : {FALSE}, line : {FALSE}, hblk : Hblks]
  /\ todo = <<>> /\ subAt = 1 /\ shots = 0 /\ section = 0

(***************************************************************************)
(* The library: what a call does, as a list of steps.                      *)
(***************************************************************************)
SndStart ==
  IF enable THEN <<>>
  ELSE <<"init", "request", "enable">> \o (IF irq_.hblk THEN <<"line">> ELSE <<>>) \o <<"enabled">>

(* Mutant: the driver is taken down while its interrupt still runs.        *)
SndEnd_Early ==
  IF ~enable THEN <<>>
  ELSE <<"disabled", "exit">> \o (IF irq_.hblk THEN <<"noline">> ELSE <<>>) \o <<"disable", "free">>

SndEnd ==
  IF ~enable THEN <<>>
  ELSE <<"disabled">> \o (IF irq_.hblk THEN <<"noline">> ELSE <<>>) \o <<"disable", "free", "exit">>

SndOverlay == <<"stop_ovl", "enqueue_ovl", "play_ovl">>

(* One step of the call, with what it does to the driver and the interrupt.*)
SndStep ==
  /\ todo # <<>>
  /\ LET s == Head(todo) IN
       /\ enable' = CASE s = "enabled" -> TRUE [] s = "disabled" -> FALSE [] OTHER -> enable
       /\ irq_' = CASE s = "request" -> [irq_ EXCEPT !.handler = "bl_bgm_isr"]
                    [] s = "enable" -> [irq_ EXCEPT !.on = TRUE]
                    [] s = "line" -> [irq_ EXCEPT !.line = TRUE]
                    [] s = "noline" -> [irq_ EXCEPT !.line = FALSE]
                    [] s = "disable" -> [irq_ EXCEPT !.on = FALSE]
                    [] s = "free" -> [irq_ EXCEPT !.handler = "none"]
                    [] OTHER -> irq_
       /\ drv' = CASE s = "init" -> [Idle EXCEPT !.ready = TRUE]
                   [] s = "exit" -> Idle
                   [] s = "stop_ovl" -> [drv EXCEPT !.ovl = [on |-> FALSE, pieces |-> <<>>]]
                   [] s = "enqueue_ovl" -> [drv EXCEPT !.ovl.pieces = Append(@, shots)]
                   [] s = "play_ovl" -> [drv EXCEPT !.ovl.on = TRUE]
                   [] OTHER -> drv
  /\ todo' = Tail(todo)
  /\ UNCHANGED <<subAt, shots, section>>

(* bl_snd_bgm_play and bl_snd_bgm_stop: commands to the driver.            *)
Commanded(cmd) ==
  IF cmd = "play" THEN [drv EXCEPT !.state = "play"]
  ELSE [drv EXCEPT !.state = "stop", !.queue = [ch \in SndChannels |-> <<>>]]

(***************************************************************************)
(* The program.                                                            *)
(***************************************************************************)
Now == SubCalls[subAt]
InSub == todo = <<>> /\ subAt <= Len(SubCalls)

SubCall ==
  /\ InSub /\ Now.op \in {"init", "deinit"}
  /\ todo' = IF Now.op = "init" THEN SndStart ELSE SndEnd
  /\ subAt' = subAt + 1 /\ UNCHANGED <<enable, drv, irq_, shots, section>>

SubEnqueue ==
  /\ InSub /\ Now.op = "enqueue"
  /\ section' = IF SubCalls[subAt - 1].op = "enqueue" THEN section ELSE section + 1
  /\ drv' = [drv EXCEPT !.queue[Now.ch] = Append(@, section')]
  /\ subAt' = subAt + 1 /\ UNCHANGED <<enable, irq_, todo, shots>>

SubCommand ==
  /\ InSub /\ Now.op \in {"play", "stop"}
  /\ drv' = Commanded(Now.op) /\ shots' = 0
  /\ subAt' = subAt + 1 /\ UNCHANGED <<enable, irq_, todo, section>>

(* shot(): SPACE plays an effect over channel 2, until ESC or the end.     *)
ShotKey ==
  /\ InSub /\ Now.op = "shot" /\ drv.state # "idle" /\ shots < MaxShots
  /\ todo' = SndOverlay /\ shots' = shots + 1
  /\ UNCHANGED <<enable, drv, irq_, subAt, section>>

(* ESC may end the loop at any time, an idle driver does.                     *)
SubLeaves ==
  /\ InSub /\ Now.op \in {"shot", "drums"}
  /\ subAt' = subAt + 1 /\ UNCHANGED <<enable, drv, irq_, todo, shots, section>>

DrumAvail == DrumRoom - Len(drv.queue[Rth])
Refill ==
  /\ InSub /\ Now.op = "drums" /\ shots < MaxRefills
  /\ DrumAvail > DrumFree
  /\ drv' = [drv EXCEPT !.queue[Rth] = Append(@, section)]
  /\ shots' = shots + 1
  /\ UNCHANGED <<enable, irq_, todo, subAt, section>>

(***************************************************************************)
(* bl_bgm_isr (external): takes a piece of each channel; with nothing left *)
(* the driver is idle.                                                     *)
(***************************************************************************)
Isr ==
  /\ (irq_.hblk => irq_.line)
  /\ irq_.on /\ irq_.handler = "bl_bgm_isr" /\ drv.state = "play"
  /\ LET some == {ch \in SndChannels : drv.queue[ch] # <<>>}
         rest == [ch \in SndChannels |-> IF ch \in some THEN Tail(drv.queue[ch]) ELSE <<>>]
         ovl == IF drv.ovl.on THEN [on |-> Len(drv.ovl.pieces) > 1, pieces |-> SubSeq(drv.ovl.pieces, 2, Len(drv.ovl.pieces))]
                              ELSE drv.ovl
     IN drv' = [drv EXCEPT !.queue = rest, !.ovl = ovl,
                           !.state = IF some = {} /\ ~drv.ovl.on THEN "idle" ELSE "play"]
  /\ UNCHANGED <<enable, irq_, todo, subAt, shots, section>>

SndNext ==
  \/ SndStep \/ SubCall \/ SubEnqueue \/ SubCommand
  \/ ShotKey \/ SubLeaves \/ Refill \/ Isr

SndSpec == SndInit /\ [][SndNext]_sndVars

(***************************************************************************)
(* Properties.                                                             *)
(***************************************************************************)
(* The interrupt runs the driver's handler, and only while the driver is   *)
(* ready; between two calls it runs exactly while the library is enabled.  *)
(* A section is heard only by itself.  An effect is started with nothing   *)
(* left of the effects before it.  The rhythm queue is never overrun, and  *)
(* at the end of sub() nothing is left of driver, interrupt or queues.     *)
SoundExact ==
  /\ irq_.on => irq_.handler = "bl_bgm_isr" /\ drv.ready
  /\ irq_.line => irq_.on
  /\ todo = <<>> => enable = irq_.on /\ enable = drv.ready
  /\ drv.state = "play" => \A ch \in SndChannels : \A i \in DOMAIN drv.queue[ch] : drv.queue[ch][i] = section
  /\ Len(drv.ovl.pieces) <= 1
  /\ todo = <<"play_ovl">> => drv.ovl.pieces = <<shots>>
  /\ DrumAvail >= 0
  /\ subAt > Len(SubCalls) /\ todo = <<>> => ~enable /\ ~irq_.on /\ irq_.handler = "none" /\ drv = Idle
=============================================================================
