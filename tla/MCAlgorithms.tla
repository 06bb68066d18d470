---------------------------- MODULE MCAlgorithms ----------------------------
(***************************************************************************)
(* The small components that interact with nothing else, side by side: a   *)
(* behaviour runs one of them.                                             *)
(***************************************************************************)
EXTENDS SegCodec, MCLinearMemory, BlSnd, Z80Block, CpmConsole, CpmDevices, CpmKeys, CpmDrives, BlStart

VARIABLE part \* the component of this behaviour

(* Keys that are characters and keys that are neither.                     *)
MCOthers == {[vk |-> 65, scan |-> 30, char |-> 97], [vk |-> 16, scan |-> 42, char |-> 0]}

MCLines ==
  {<<>>, <<PlainName("dir", 0, "f", FALSE), PlainName(Program, 0, "g", FALSE)>>,
   <<PlainName(None, 0, "f", TRUE), PlainName("dir", 0, "g", FALSE)>>,
   <<PlainName("gone", 0, "f", FALSE), PlainName("dir", 0, "g", FALSE)>>,
   <<PlainName(None, 4, "f", FALSE), PlainName(None, 0, "g", FALSE)>>}
MCEnv == {[d \in {} |-> None], [d \in {2, 3} |-> IF d = 2 THEN Program ELSE "dir"], [d \in {3} |-> Current]}
MCPrograms ==
  {[ext |-> None, found |-> {"com"}], [ext |-> None, found |-> {"com", "cpm"}],
   [ext |-> "com", found |-> {"com", "cpm"}], [ext |-> "cpm", found |-> {"com"}]}

MCMems == {[k \in 0..3 |-> <<0, 118, 195, 104>>[k + 1]], [k \in 0..3 |-> IF k = 2 THEN 195 ELSE 118]}

(* A component that is not run rests in one of its initial states.         *)
CodecRest == how = "lmem" /\ table = <<255>>
SndRest == ~irq_.hblk
BlockRest == cpu.mem[0] = 0 /\ cpu.hl = 0 /\ cpu.de = 0 /\ cpu.bc = 0 /\ cpu.a = 0 /\ ~cpu.fl.c
AluRest == f = [n \in {"s", "z", "h", "p", "n", "c"} |-> FALSE]
ConRest == conout
DevRest == env = [v \in Vars |-> "unset"]
KeyRest == key.k.char = 97 /\ key.mod = "none"
DrvRest ==
  /\ line = <<>> /\ auto /\ drvEnv = [d \in {} |-> None] /\ diskNo = 0
  /\ prog = [ext |-> "com", found |-> {"com", "cpm"}]
StartRest == given.build = "rom" /\ given.machine = "dos2" /\ given.tail = 0 /\ given.bss = 2 /\ given.path = <<"a">>

Init ==
  /\ part \in {"codec", "memory", "sound", "alu", "block", "console", "devices", "keys", "drives", "start"}
  /\ CodecInit /\ (part # "codec" => CodecRest)
  /\ LmemInit
  /\ SndInit /\ (part # "sound" => SndRest)
  /\ AluInit /\ (part # "alu" => AluRest)
  /\ BlockInit /\ (part # "block" => BlockRest)
  /\ ConInit /\ (part # "console" => ConRest)
  /\ DevInit /\ (part # "devices" => DevRest)
  /\ KeyInit /\ (part # "keys" => KeyRest)
  /\ DrvInit /\ (part # "drives" => DrvRest)
  /\ StartInit /\ (part # "start" => StartRest)

Next ==
  /\ UNCHANGED part
  /\ \/ part = "codec" /\ CodecNext
        /\ UNCHANGED <<lmemVars, sndVars, aluVars, conVars, devVars, keyVars, drvVars, startVars, blockVars>>
     \/ part = "memory" /\ LmemNext
        /\ UNCHANGED <<codecVars, sndVars, aluVars, conVars, devVars, keyVars, drvVars, startVars, blockVars>>
     \/ part = "sound" /\ SndNext
        /\ UNCHANGED <<codecVars, lmemVars, aluVars, conVars, devVars, keyVars, drvVars, startVars, blockVars>>
     \/ part = "alu" /\ AluNext
        /\ UNCHANGED <<codecVars, lmemVars, sndVars, conVars, devVars, keyVars, drvVars, startVars, blockVars>>
     \/ part = "block" /\ BlockNext
        /\ UNCHANGED <<codecVars, lmemVars, sndVars, aluVars, conVars, devVars, keyVars, drvVars, startVars>>
     \/ part = "console" /\ ConNext
        /\ UNCHANGED <<codecVars, lmemVars, sndVars, aluVars, devVars, keyVars, drvVars, startVars, blockVars>>
     \/ part = "devices" /\ DevNext
        /\ UNCHANGED <<codecVars, lmemVars, sndVars, aluVars, conVars, keyVars, drvVars, startVars, blockVars>>
     \/ part = "keys" /\ KeyNext
        /\ UNCHANGED <<codecVars, lmemVars, sndVars, aluVars, conVars, devVars, drvVars, startVars, blockVars>>
     \/ part = "drives" /\ DrvNext
        /\ UNCHANGED <<codecVars, lmemVars, sndVars, aluVars, conVars, devVars, keyVars, startVars, blockVars>>
     \/ part = "start" /\ StartNext
        /\ UNCHANGED <<codecVars, lmemVars, sndVars, aluVars, conVars, devVars, keyVars, drvVars, blockVars>>

Spec ==
  Init /\ [][Next]_<<part, codecVars, lmemVars, sndVars, aluVars, conVars, devVars, keyVars, drvVars, startVars, blockVars>>
=============================================================================
