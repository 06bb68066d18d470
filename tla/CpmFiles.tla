------------------------------ MODULE CpmFiles ------------------------------
(***************************************************************************)
(* The file functions of cpm.c, the CP/M emulator: BDOS calls 15, 16,      *)
(* 19-23, 33-36 and 40 on file control blocks.  fcbs[] holds the host      *)
(* files that are open, one per slot; an FCB in the memory of the CP/M     *)
(* program remembers its slot in byte d[0], and the emulator closes files  *)
(* at their end and opens them again when the program goes on.             *)
(*                                                                         *)
(* A call is one step.  A record is Rec bytes, an extent Ext records.  A   *)
(* FILE of the C library is its name, its position and the direction it    *)
(* was last used in; its buffer is left out, and a file that is open can   *)
(* be neither removed nor renamed, as on Windows.  The programs are those  *)
(* that keep to CP/M's rules: they read, write and close an FCB they have  *)
(* opened, and use one opened FCB for a file.                              *)
(***************************************************************************)
EXTENDS Integers, Sequences, FiniteSetsExt

CONSTANTS
  FcbAddr,  \* addresses of FCBs in the memory of the program
  MaxFcb,   \* slots of fcbs[] (MAXFCB)
  Names,    \* names of files
  ReadOnly, \* files that cannot be opened for writing or removed
  Initial,  \* Initial[n]: the bytes of file n at first, or NoFile
  NoFile,
  Rec,      \* bytes of a record (128)
  Ext,      \* records of an extent (128)
  ExMod,    \* values of byte ex (256)
  RndMax,   \* records r0 and r1 can name (65536)
  Byte,     \* bytes of files
  Hole, Pad,\* byte 0, byte 1AH
  New,      \* the byte programs write
  Wipes,    \* may a program clear an FCB whose file is open?
  MaxRec,   \* bound: records of a file
  MaxCalls  \* bound: steps of the program

(* cr and ex name fewer records than r0 and r1; files are small enough for *)
(* cr and ex.                                                              *)
ASSUME FilesAssumption ==
  /\ MaxFcb \in Nat \ {0} /\ Rec \in Nat \ {0} /\ Ext \in Nat \ {0, 1}
  /\ ExMod \in Nat \ {0} /\ RndMax \in Nat /\ Ext * ExMod <= RndMax
  /\ MaxRec \in Nat /\ MaxRec < Ext * ExMod
  /\ Names # {} /\ ReadOnly \subseteq Names
  /\ {Hole, Pad, New} \subseteq Byte /\ NoFile \notin Seq(Byte) \cup FcbAddr
  /\ Initial \in [Names -> Seq(Byte) \cup {NoFile}]
  /\ \A n \in Names : Initial[n] # NoFile => Len(Initial[n]) < (MaxRec + 1) * Rec
  /\ Wipes \in BOOLEAN /\ MaxCalls \in Nat

VARIABLES
  disk,  \* the host's files: their bytes, or NoFile
  slot,  \* fcbs[]
  fcb,   \* the FCBs: name, d[0], d[1..3], ex, cr and rc
  live,  \* history: FCBs the program has opened and not given up
  fault, \* history: has a write failed?
  last,  \* history: the last call and its result
  calls

vars == <<disk, slot, fcb, live, fault, last, calls>>

Slots == 0..MaxFcb - 1
(* Byte d[0] of an FCB the program has not used is whatever its memory     *)
(* holds: in the FCB at 5CH, the drive of the second argument.             *)
Nothing == [op |-> "none", f |-> NoFile, rec |-> 0, ret |-> 0,
            buf |-> <<>>, clash |-> FALSE, n |-> 0]

Init ==
  /\ disk = Initial
  /\ slot = [i \in Slots |-> [open |-> FALSE, name |-> CHOOSE n \in Names : TRUE, at |-> 0,
                              dir |-> "none", pos |-> 0, addr |-> NoFile, wr |-> FALSE, mod |-> FALSE]]
  /\ fcb \in [FcbAddr -> [name : Names, d0 : {0, 1}, max : {0}, ex : {0}, cr : {0}, rc : {0}]]
  /\ live = {} /\ fault = FALSE /\ last = Nothing /\ calls = 0

(***************************************************************************)
(* The files of the host.                                                  *)
(***************************************************************************)
Size(d, n) == IF d[n] = NoFile THEN 0 ELSE Len(d[n])
Records(bytes) == (bytes + Rec - 1) \div Rec

(* The file resized to k bytes.                                            *)
Resized(bytes, k) == [j \in 1..k |-> IF j <= Len(bytes) THEN bytes[j] ELSE Hole]

(* k bytes New written at offset o.                                        *)
Written(bytes, o, k) ==
  [j \in 1..Max({Len(bytes), o + k}) |->
     IF j > o /\ j <= o + k THEN New ELSE IF j <= Len(bytes) THEN bytes[j] ELSE Hole]

(* What fread() of a record at offset o gets.                              *)
Got(bytes, o) == SubSeq(bytes, o + 1, Min({o + Rec, Len(bytes)}))
Padded(b) == [j \in 1..Rec |-> IF j <= Len(b) THEN b[j] ELSE Pad]

(***************************************************************************)
(* The functions of cpm.c, on a state s = [disk, slot, fcb].  Those that   *)
(* return a code give [s, ret].                                            *)
(***************************************************************************)
Now == [disk |-> disk, slot |-> slot, fcb |-> fcb]

Done(s, ret) == [s |-> s, ret |-> ret, buf |-> <<>>, clash |-> FALSE]

(* Is there an open file behind d[0]?                                      *)
HasSlot(s, f) == s.fcb[f].d0 \in 1..MaxFcb /\ s.slot[s.fcb[f].d0 - 1].open
Own(s, f) == HasSlot(s, f) /\ s.slot[s.fcb[f].d0 - 1].addr = f

FClose(s, i) == [s EXCEPT !.slot[i].open = FALSE]

FOpen(s, i, n) ==
  [s EXCEPT !.slot[i] = [@ EXCEPT !.open = TRUE, !.name = n, !.at = 0, !.dir = "none"]]

(* Mutant: the address in the slot is not compared.                        *)
Pick_AnyOwner(s, f) ==
  IF HasSlot(s, f) THEN s.fcb[f].d0 - 1
  ELSE Min({i \in Slots : ~s.slot[i].open} \cup {MaxFcb})

(* The slot cpm_file_open() takes: the FCB's own, or the first one that is *)
(* free or was opened from the same address.                               *)
Pick(s, f) ==
  IF Own(s, f) THEN s.fcb[f].d0 - 1
  ELSE Min({i \in Slots : ~s.slot[i].open \/ s.slot[i].addr = f} \cup {MaxFcb})

(* Mutant: rc is left 0.                                                   *)
Opened_NoRc(s, f, i, recs, mod) ==
  [s EXCEPT !.slot[i] = [@ EXCEPT !.pos = 0, !.addr = f, !.wr = mod, !.mod = mod],
            !.fcb[f] = [@ EXCEPT !.ex = 0, !.cr = 0, !.rc = 0, !.max = recs, !.d0 = i + 1]]

(* The end of cpm_file_open(): bytes 12 to 32 of the FCB are cleared, then *)
(* the slot, the number of records and rc are set.                         *)
Opened(s, f, i, recs, mod) ==
  [s EXCEPT !.slot[i] = [@ EXCEPT !.pos = 0, !.addr = f, !.wr = mod, !.mod = mod],
            !.fcb[f] = [@ EXCEPT !.ex = 0, !.cr = 0, !.rc = Min({recs, Ext - 1}),
                                 !.max = recs, !.d0 = i + 1]]

(* cpm_file_open().  mode is "open", "wropen" or "create".                 *)
FileOpen(s, f, mode) ==
  LET i == Pick(s, f)
      n == s.fcb[f].name
      t == FClose(s, i)
      u == IF mode = "create" THEN [FOpen(t, i, n) EXCEPT !.disk[n] = <<>>] ELSE FOpen(t, i, n)
  IN IF i = MaxFcb THEN Done(s, 255)
     ELSE IF \/ mode = "create" /\ s.disk[n] # NoFile
             \/ mode # "create" /\ s.disk[n] = NoFile
             \/ mode # "open" /\ n \in ReadOnly
          THEN Done(t, 255)
          ELSE Done(Opened(u, f, i, IF mode = "create" THEN 0 ELSE Records(Size(s.disk, n)),
                           mode = "create"), 0)

(* cpm_file_close().                                                       *)
FileClose(s, f) ==
  IF s.fcb[f].d0 \in 1..MaxFcb
  THEN Done([FClose(s, s.fcb[f].d0 - 1) EXCEPT !.fcb[f].d0 = 0], 0)
  ELSE Done(s, IF s.fcb[f].d0 = 0 THEN 0 ELSE 255)

(* cpm_change_filesize(): a program may have shortened the file by rc.     *)
ChangeSize(s, f) ==
  LET c == s.fcb[f] IN
  IF /\ c.max \div Ext = c.ex /\ c.max % Ext > c.rc
     /\ s.disk[c.name] # NoFile /\ c.name \notin ReadOnly
  THEN [s EXCEPT !.disk[c.name] = Resized(@, (c.ex * Ext + c.rc) * Rec)]
  ELSE s

(***************************************************************************)
(* cpm_file_rw() in its three parts: the slot (Ready), the seek (Seek),    *)
(* the transfer (Transfer).                                                *)
(***************************************************************************)
SeqRec(c) == c.cr + c.ex * Ext

At(s, f, p) == [s EXCEPT !.fcb[f] = [@ EXCEPT !.cr = p % Ext, !.ex = (p \div Ext) % ExMod]]

(* A slot whose file can be used as asked: one that the emulator closed is *)
(* opened again, one opened for reading is opened again for writing.       *)
Ready(s, f, wr, p) ==
  LET i == s.fcb[f].d0 - 1
      n == s.fcb[f].name
      o == FileOpen(s, f, IF wr THEN "wropen" ELSE "open")
  IN IF ~HasSlot(s, f) THEN
       IF ~wr /\ p >= s.fcb[f].max THEN Done(s, 1)
       ELSE IF o.ret # 0 THEN o ELSE Done(At(o.s, f, p), 0)
     ELSE IF wr /\ ~s.slot[i].mod THEN
       IF s.disk[n] = NoFile \/ n \in ReadOnly
       THEN Done(FileClose(FClose(s, i), f).s, 255)
       ELSE Done([FOpen(s, i, n) EXCEPT !.slot[i].pos = 0], 0)
     ELSE Done(s, 0)

(* The seek, left out when the file is at the right place and was last     *)
(* used in the same direction.  max is the number of records the FCB gave  *)
(* on entry.                                                               *)
Seek(s, f, wr, p, max) ==
  LET i == s.fcb[f].d0 - 1 IN
  IF p * Rec = s.slot[i].pos /\ s.slot[i].wr = wr THEN Done(s, 0)
  ELSE IF ~wr /\ p > max THEN Done(FileClose(s, f).s, 1)
  ELSE Done([s EXCEPT !.slot[i] = [@ EXCEPT !.at = p * Rec, !.dir = "none", !.pos = p * Rec]], 0)

(* Mutant: pos does not follow the transfer.                               *)
Advance_NoPos(s, f, p, k, rnd, max) ==
  LET i == s.fcb[f].d0 - 1
      u == IF rnd THEN s ELSE At(s, f, p + 1)
      v == IF p + 1 >= max /\ ~s.slot[i].mod THEN FileClose(u, f).s ELSE u
  IN IF p + 1 > max THEN [v EXCEPT !.fcb[f] = [@ EXCEPT !.max = p + 1, !.rc = (p + 1) % Ext]] ELSE v

(* The end of cpm_file_rw(), after k bytes: the FCB moves on, and a file   *)
(* that was only read is closed with its last record.                      *)
Advance(s, f, p, k, rnd, max) ==
  LET i == s.fcb[f].d0 - 1
      t == [s EXCEPT !.slot[i].pos = @ + k]
      u == IF rnd THEN t ELSE At(t, f, p + 1)
      v == IF p + 1 >= max /\ ~s.slot[i].mod THEN FileClose(u, f).s ELSE u
  IN IF p + 1 > max THEN [v EXCEPT !.fcb[f] = [@ EXCEPT !.max = p + 1, !.rc = (p + 1) % Ext]] ELSE v

(* fread() or fwrite() and what follows.  A write gets room for only k     *)
(* bytes.                                                                  *)
Transfer(s, f, wr, p, rnd, max, k) ==
  LET i == s.fcb[f].d0 - 1
      h == s.slot[i]
      b == IF s.disk[h.name] = NoFile THEN <<>> ELSE Got(s.disk[h.name], h.at)
      w == [s EXCEPT !.disk[h.name] = Written(@, h.at, k),
                     !.slot[i] = [@ EXCEPT !.at = h.at + k, !.dir = "write", !.wr = TRUE, !.mod = TRUE]]
      r == [s EXCEPT !.slot[i] = [@ EXCEPT !.at = h.at + Len(b), !.dir = "read", !.wr = FALSE]]
  IN IF wr
     THEN [Done(IF k = Rec THEN Advance(w, f, p, Rec, rnd, max) ELSE w, IF k = Rec THEN 0 ELSE 1)
             EXCEPT !.clash = h.dir = "read"]
     ELSE IF b = <<>>
          THEN [Done(IF h.mod THEN r ELSE FileClose(r, f).s, 1) EXCEPT !.clash = h.dir = "write"]
          ELSE [Done(Advance(r, f, p, Len(b), rnd, max), 0)
                  EXCEPT !.buf = Padded(b), !.clash = h.dir = "write"]

(* cpm_file_rw() at record p, given by cr and ex or, when rnd, by r0 to r2.*)
FileRw(s, f, wr, rnd, p, k) ==
  LET max == s.fcb[f].max
      a == IF rnd THEN At(s, f, p) ELSE s
      b == Ready(a, f, wr, p)
      c == Seek(b.s, f, wr, p, max)
  IN IF rnd /\ p >= RndMax THEN Done(s, 6)
     ELSE IF b.ret # 0 THEN b
     ELSE IF c.ret # 0 THEN c
     ELSE Transfer(c.s, f, wr, p, rnd, max, k)

(***************************************************************************)
(* The BDOS calls.                                                         *)
(***************************************************************************)
Call(op, f, rec, r, n) ==
  /\ calls < MaxCalls
  /\ calls' = calls + 1
  /\ disk' = r.s.disk /\ slot' = r.s.slot /\ fcb' = r.s.fcb
  /\ last' = [op |-> op, f |-> f, rec |-> rec, ret |-> r.ret, buf |-> r.buf,
              clash |-> r.clash, n |-> n]

(* A file belongs to the FCB it was opened by.                             *)
Mine(f, n) == \A g \in live \ {f} : fcb[g].name # n

Opening(op, f, mode) ==
  LET r == FileOpen(Now, f, mode) IN
  /\ Mine(f, fcb[f].name)
  /\ Call(op, f, 0, r, 0)
  /\ live' = IF r.ret = 0 THEN live \cup {f} ELSE live \ {f}
  /\ UNCHANGED fault

Open(f) == Opening("open", f, "open")      \* BDOS 15
Make(f) == Opening("make", f, "create")    \* BDOS 22

(* BDOS 16.                                                                *)
Close(f) ==
  LET r == FileClose(Now, f) IN
  /\ f \in live
  /\ Call("close", f, 0, [r EXCEPT !.s = ChangeSize(r.s, f)], 0)
  /\ live' = live \ {f}
  /\ UNCHANGED fault

(* BDOS 20 and 33.                                                         *)
Read(f, rnd, p) ==
  /\ f \in live
  /\ rnd \/ p = SeqRec(fcb[f])
  /\ Call("read", f, p, FileRw(Now, f, FALSE, rnd, p, 0), 0)
  /\ UNCHANGED <<live, fault>>

(* BDOS 21, 34 and 40.                                                     *)
Write(f, rnd, p) ==
  /\ f \in live
  /\ rnd \/ p = SeqRec(fcb[f])
  /\ p < MaxRec \/ p >= RndMax
  /\ Call("write", f, p, FileRw(Now, f, TRUE, rnd, p, Rec), 0)
  /\ UNCHANGED <<live, fault>>

(* The disk fills up within a record.                                      *)
WriteFails(f, rnd, p, k) ==
  LET r == FileRw(Now, f, TRUE, rnd, p, k) IN
  /\ ~fault \* bound: one failure
  /\ f \in live /\ p < MaxRec
  /\ rnd \/ p = SeqRec(fcb[f])
  /\ r.ret = 1
  /\ Call("write", f, p, r, 0)
  /\ fault' = TRUE
  /\ UNCHANGED live

(* BDOS 35, cpm_file_size(): opens the file, takes its records, closes it. *)
FileSize(f) ==
  LET r == FileOpen(Now, f, "open") IN
  /\ Call("size", f, 0, IF r.ret # 0 THEN r ELSE FileClose(r.s, f), r.s.fcb[f].max)
  /\ live' = live \ {f}
  /\ UNCHANGED fault

(* BDOS 36, cpm_set_rndrec().                                              *)
SetRndRec(f) ==
  /\ Call("record", f, 0, Done(Now, 0), SeqRec(fcb[f]))
  /\ UNCHANGED <<live, fault>>

Removable(s, n) ==
  s.disk[n] # NoFile /\ n \notin ReadOnly /\ \A i \in Slots : ~(s.slot[i].open /\ s.slot[i].name = n)

(* BDOS 19, cpm_file_delete().  d[0] is left as it is.                     *)
Deletion(f) ==
  LET s == IF Own(Now, f) THEN FClose(Now, fcb[f].d0 - 1) ELSE Now
  IN IF Removable(s, fcb[f].name) THEN Done([s EXCEPT !.disk[fcb[f].name] = NoFile], 0)
     ELSE Done(s, 255)

Delete(f) ==
  /\ Mine(f, fcb[f].name)
  /\ Call("delete", f, 0, Deletion(f), 0)
  /\ live' = live \ {f}
  /\ UNCHANGED fault

(* BDOS 23, cpm_rename(), by an FCB that holds both names.                 *)
Rename(f, n) ==
  LET old == fcb[f].name
      ok == Removable(Now, old) /\ disk[n] = NoFile
  IN /\ n # old /\ f \notin live /\ Mine(f, old) /\ Mine(f, n)
     /\ Call("rename", f, 0,
             Done(IF ok THEN [Now EXCEPT !.disk[n] = disk[old], !.disk[old] = NoFile] ELSE Now,
                  IF ok THEN 0 ELSE 255), 0)
     /\ UNCHANGED <<live, fault>>

(***************************************************************************)
(* What the program does to an FCB by itself.                              *)
(***************************************************************************)
OwnMemory(f, c) ==
  /\ Call("own", f, 0, Done([Now EXCEPT !.fcb[f] = c], 0), 0)
  /\ UNCHANGED fault

(* It names another file and clears ex and cr.                             *)
SetName(f, n) ==
  /\ n # fcb[f].name
  /\ OwnMemory(f, [fcb[f] EXCEPT !.name = n, !.ex = 0, !.cr = 0])
  /\ live' = live \ {f}

(* It clears all but the name.                                             *)
Wipe(f) ==
  /\ Wipes
  /\ OwnMemory(f, [fcb[f] EXCEPT !.d0 = 0, !.max = 0, !.ex = 0, !.cr = 0, !.rc = 0])
  /\ live' = live \ {f}

(* It goes to record p for the next sequential call.                       *)
SetPos(f, p) ==
  /\ f \in live /\ p # SeqRec(fcb[f])
  /\ OwnMemory(f, [fcb[f] EXCEPT !.cr = p % Ext, !.ex = p \div Ext])
  /\ UNCHANGED live

Next ==
  \E f \in FcbAddr :
    \/ Open(f) \/ Make(f) \/ Close(f) \/ FileSize(f) \/ SetRndRec(f) \/ Delete(f) \/ Wipe(f)
    \/ \E rnd \in BOOLEAN, p \in 0..MaxRec \cup {RndMax} : Read(f, rnd, p) \/ Write(f, rnd, p)
    \/ \E rnd \in BOOLEAN, p \in 0..MaxRec, k \in 0..Rec - 1 : WriteFails(f, rnd, p, k)
    \/ \E p \in 0..MaxRec : SetPos(f, p)
    \/ \E n \in Names : SetName(f, n) \/ Rename(f, n)

Spec == Init /\ [][Next]_vars

(***************************************************************************)
(* Properties.                                                             *)
(***************************************************************************)
TypeOK ==
  /\ disk \in [Names -> Seq(Byte) \cup {NoFile}]
  /\ \A n \in Names : disk[n] = NoFile \/ Len(disk[n]) < (MaxRec + 1) * Rec
  /\ slot \in [Slots -> [open : BOOLEAN, name : Names, at : 0..((MaxRec + 1) * Rec),
                         dir : {"none", "read", "write"}, pos : 0..((MaxRec + 1) * Rec),
                         addr : FcbAddr \cup {NoFile}, wr : BOOLEAN, mod : BOOLEAN]]
  /\ fcb \in [FcbAddr -> [name : Names, d0 : 0..MaxFcb, max : 0..MaxRec + 1,
                          ex : 0..ExMod - 1, cr : 0..Ext - 1, rc : 0..Ext - 1]]
  /\ live \subseteq FcbAddr /\ fault \in BOOLEAN /\ calls \in 0..MaxCalls

(* The slot behind an opened FCB holds the file the FCB names: a slot that *)
(* was closed and given to another FCB is never used through the old one,  *)
(* which cpm_file_rw() and cpm_file_close() do not test.                   *)
OwnFile ==
  TypeOK /\ \A f \in live : HasSlot(Now, f) =>
    Own(Now, f) /\ slot[fcb[f].d0 - 1].name = fcb[f].name

(* The position fcbs[] keeps, by which seeks are left out, is where the    *)
(* file really is, short records, closings at the end and reopenings       *)
(* included.                                                               *)
PosShadow == ~fault => \A i \in Slots : slot[i].open => slot[i].pos = slot[i].at

(* A file is never read straight after a write, or written straight after  *)
(* a read, without the seek the C library asks for.                        *)
NoClash == ~last.clash

(* Seeks are left out only where they are not needed.                      *)
SeeksRight == PosShadow /\ NoClash

(* A read gives the record asked for, of the file the FCB names, the last  *)
(* one filled up with 1AH.                                                 *)
ReadExact ==
  last.op = "read" /\ last.ret = 0 =>
    LET d == disk[fcb[last.f].name] IN
    d # NoFile /\ (fault \/ last.buf = Padded(Got(d, last.rec * Rec)))

(* A read says "end of file" only beyond the last byte, however often the  *)
(* emulator has closed the file before.                                    *)
EofExact ==
  last.op = "read" /\ last.ret = 1 =>
    fault \/ last.rec * Rec >= Size(disk, fcb[last.f].name)

(* A call on an opened FCB is refused only when its file is gone, cannot   *)
(* be written, or no slot is left: a file the emulator closed by itself is *)
(* opened again.                                                           *)
Reopens ==
  last.op \in {"read", "write"} /\ last.ret = 255 =>
    \/ disk[fcb[last.f].name] = NoFile
    \/ last.op = "write" /\ fcb[last.f].name \in ReadOnly
    \/ \A i \in Slots : slot[i].open

(* Function 35 counts the records of the file, also of one being written.  *)
SizeExact ==
  last.op = "size" /\ last.ret = 0 => last.n = Records(Size(disk, fcb[last.f].name))

(* What a program is told of a file, its records, its end and its size, is *)
(* what is on the disk or being written there, although seeks are left out *)
(* and files are closed behind the program's back (cpm_file_rw).           *)
AnswersExact == ReadExact /\ EofExact /\ SizeExact /\ SeeksRight /\ Reopens

(* An FCB holds at most one slot, so fcbs[] does not fill up with files    *)
(* that nothing can close (cpm.c:349 says so also of cleared FCBs).        *)
OneSlotPerFcb ==
  \A i, j \in Slots : slot[i].open /\ slot[j].open /\ slot[i].addr = slot[j].addr => i = j

(* A write that succeeds changes one record of one file, the one the FCB   *)
(* names, at the position asked for.                                       *)
WriteExact ==
  [][last'.op = "write" /\ last'.ret = 0 /\ ~fault =>
       disk' = [disk EXCEPT ![fcb[last'.f].name] = Written(@, last'.rec * Rec, Rec)]]_vars

(* Opening, closing and sizing never change a file: the truncation of      *)
(* cpm_change_filesize() is for programs that set rc themselves, and what  *)
(* open and write leave in ex and rc does not set it off.                  *)
KeepsFiles ==
  [][last'.op \in {"open", "close", "size", "read"} => disk' = disk]_vars

(* The host's files change by what the program writes only.                *)
FilesExact == WriteExact /\ KeepsFiles
=============================================================================
