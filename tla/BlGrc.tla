-------------------------------- MODULE BlGrc --------------------------------
(***************************************************************************)
(* BLGRC.C: pictures and patterns of GRAPHIC 4 (SCREEN 5) are loaded into  *)
(* VRAM from a file, or from ROM, through a buffer of a few lines.  One    *)
(* step is one pass of a loader's loop.  A byte of the file is represented *)
(* by its position in it, from 1; 0 is what VRAM and the buffer held       *)
(* before.  VRAM addresses count from the start of the active page.        *)
(***************************************************************************)
EXTENDS Integers

CONSTANTS
  RowBytes,   \* bytes of a line in VRAM (128)
  ScreenLines,\* lines of the screen (212)
  Shared,     \* BL_GRP_SHARED_MEM (2048, in ROM builds 256)
  RomPic,     \* lines of a picture in ROM (64)
  RomPat,     \* lines of a pattern in ROM (128)
  RomPatRow,  \* bytes of its lines (64)
  MaxHigh,    \* bound: lines of a pattern in a file
  Starts      \* values of vram_offset, (dx / 2) + (dy * 128)

ASSUME GrcAssumption ==
  /\ RowBytes \in Nat \ {0} /\ RomPatRow \in 1..RowBytes
  /\ Shared \in Nat \ {0} /\ Shared % RowBytes = 0 /\ Shared % RomPatRow = 0
  /\ RomPic \in Nat /\ RomPat \in Nat /\ MaxHigh \in Nat /\ Starts \subseteq Nat
  /\ ScreenLines \in Nat

PicHeader == 7   \* of BSAVE
PatHeader == 4   \* width, height
PalBytes == 32

VARIABLES
  job,    \* kind, wide and high (bytes per line and lines of the source), start
  y,      \* the loop's line
  lines,  \* buf_lines
  pos,    \* bytes of the file read, or rom_addr
  buffer, \* shared_mem
  vram,   \* the active page
  palette,\* the bytes of bl_grp.palette
  stage   \* "idle", "load", "done"

grcVars == <<job, y, lines, pos, buffer, vram, palette, stage>>

FromRom == job.kind \in {"romload_ge5_pic", "romload_ge5_pat"}
Rows == job.kind \in {"load_ge5_pat", "romload_ge5_pat"}
Data == IF FromRom THEN 0 ELSE IF job.kind = "load_ge5_pic" THEN PicHeader ELSE PatHeader

(* A file ends with its palette.                                           *)
FileBytes(j, data) == data + j.wide * j.high + PalBytes

Jobs ==
  {[kind |-> "load_ge5_pic", wide |-> RowBytes, high |-> ScreenLines, start |-> s] : s \in Starts}
  \cup {[kind |-> "load_ge5_pat", wide |-> w, high |-> h, start |-> s] :
         w \in 1..RowBytes, h \in 1..MaxHigh, s \in Starts}
  \cup {[kind |-> "romload_ge5_pic", wide |-> RowBytes, high |-> RomPic, start |-> s] : s \in Starts}
  \cup {[kind |-> "romload_ge5_pat", wide |-> RomPatRow, high |-> RomPat, start |-> s] : s \in Starts}

(* The lines that can be written, and two more.                            *)
VramBytes == {s + i : s \in Starts, i \in 0..(ScreenLines + 2) * RowBytes}

GrcInit ==
  /\ job = [kind |-> "none", wide |-> 1, high |-> 0, start |-> 0]
  /\ y = 0 /\ lines = 0 /\ pos = 0
  /\ buffer = [i \in 0..Shared - 1 |-> 0]
  /\ vram = [a \in VramBytes |-> 0]
  /\ palette = [i \in 0..PalBytes - 1 |-> 0]
  /\ stage = "idle"

(* open(), lseek() over the header of a picture or read() of a pattern's.  *)
Open ==
  /\ stage = "idle"
  /\ job' \in Jobs
  /\ lines' = Shared \div job'.wide
  /\ pos' = Data'
  /\ stage' = "load"
  /\ UNCHANGED <<y, buffer, vram, palette>>

(* Mutant: the lines of the last pass are limited, its bytes are not.      *)
PassBytes_Full(n) == Shared

(* buf_bytes: the buffer, but what is left of the screen in the last pass. *)
PassBytes(n) == IF y + lines >= ScreenLines THEN n * job.wide ELSE Shared

(* read() of n bytes into the buffer; at the end of the file the rest of   *)
(* the buffer stays as it is.  ROM has no end.                             *)
Fetched(n) ==
  [i \in 0..Shared - 1 |->
     IF i < n /\ (FromRom \/ pos + i < FileBytes(job, Data)) THEN pos + i + 1 ELSE buffer[i]]

FilePos(n) == IF FromRom THEN pos + Shared
              ELSE IF pos + n > FileBytes(job, Data) THEN FileBytes(job, Data) ELSE pos + n

(* bl_copy_to_vram_nn(): all bytes of the pass to the lines from y on, or  *)
(* n rows of the pattern, each to a line of its own.                       *)
Copied(bytes, n, from) ==
  [a \in VramBytes |->
     LET i == a - job.start - y * RowBytes
         row == i \div RowBytes
         column == i % RowBytes
     IN CASE ~Rows /\ i \in 0..bytes - 1 -> from[i]
          [] Rows /\ i >= 0 /\ row < n /\ column < job.wide -> from[row * job.wide + column]
          [] OTHER -> vram[a]]

Pass ==
  LET last == y + lines >= ScreenLines
      n == IF last THEN ScreenLines - y ELSE lines
      bytes == PassBytes(n)
  IN /\ stage = "load"
     /\ y < job.high
     /\ buffer' = Fetched(bytes)
     /\ pos' = FilePos(bytes)
     /\ vram' = Copied(bytes, n, buffer')
     /\ lines' = n
     /\ y' = y + n
     /\ stage' = IF last THEN "done" ELSE "load"
     /\ UNCHANGED <<job, palette>>

Close ==
  /\ stage = "load"
  /\ y >= job.high
  /\ stage' = "done"
  /\ UNCHANGED <<job, y, lines, pos, buffer, vram, palette>>

(* load_ge5_pic_pal: the last 32 bytes of the file; load_ge5_pat_pal and   *)
(* get_ge5_pat_pal: those after the pattern, its pixels counted as 16 bits.*)
LoadPalette ==
  /\ stage = "done"
  /\ ~FromRom /\ palette[0] = 0
  /\ LET at == IF job.kind = "load_ge5_pic" THEN FileBytes(job, Data) - PalBytes
               ELSE PatHeader + ((job.wide * job.high) % 32768)
     IN palette' = [i \in 0..PalBytes - 1 |-> at + i + 1]
  /\ UNCHANGED <<job, y, lines, pos, buffer, vram, stage>>

GrcNext == Open \/ Pass \/ Close \/ LoadPalette

GrcSpec == GrcInit /\ [][GrcNext]_grcVars

(***************************************************************************)
(* Properties                                                              *)
(***************************************************************************)

(* Lines of the source that go to the screen.                              *)
Drawn == IF job.high < ScreenLines THEN job.high ELSE ScreenLines

Place(row, column) == job.start + row * RowBytes + column

(* Pictures, from files and from ROM, are in place when loaded, each byte  *)
(* in the line it belongs to however the passes divide them, and nothing   *)
(* else is overwritten.  For patterns of files this holds as far as the    *)
(* loader's buffer is filled by whole lines: a pass reads the whole buffer *)
(* but draws whole lines, and always as many as the buffer holds.  The     *)
(* palette loaded is the one at the end of the file, unless the pattern    *)
(* has more than 65535 pixels.                                             *)
LoadExact ==
  stage = "done" =>
    /\ Shared % job.wide = 0 =>
         \A row \in 0..Drawn - 1, column \in 0..job.wide - 1 :
           vram[Place(row, column)] = Data + row * job.wide + column + 1
    /\ job.high % (Shared \div job.wide) = 0 \/ job.high >= ScreenLines =>
         \A a \in VramBytes :
           vram[a] # 0 => \E row \in 0..Drawn - 1, column \in 0..job.wide - 1 : a = Place(row, column)
    /\ (palette[0] # 0 /\ (job.kind = "load_ge5_pic" \/ job.wide * job.high < 32768)) =>
         palette[PalBytes - 1] = FileBytes(job, Data)
=============================================================================
