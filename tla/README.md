# BL: a verification project for the MSX-DOS2 banked application library

The repository holds *BL*, a run-time library that lets HI-TECH C programs for MSX-DOS2 use more
code than the Z80's 64 KB by switching memory-mapper segments, its graphics and sound libraries,
the CP/M emulator the tool chain runs under on a PC (`cpm32/`), and examples. This directory
models the parts that have state and order, checks the models with TLC and proves theorems about
them with TLAPS.

## 1. The system and its parts

| part | source | state it keeps | operations | what makes it correct | module |
|---|---|---|---|---|---|
| Banking helper | `BANKCALL.H` (768 bytes of machine code at 8000H; disassembled and named in `BLCRT.C`'s comments) | mapping of pages 0/1, `CurSeg`, bank stack and `BankSP`, two saved-SP operands, two patched EI bytes, ISR entry table, VDP status latch, JIFFY and frame counters | BankCall, BankRet, ISR, ISRInit/ISRDeinit, lmem read/write, DOS callbacks | code always runs in its own bank; a call returns to its caller; the ISR nests only when told to; no VBLANK is lost | `BankHelper` |
| Start of a program | `BLCRT.C` `start` in each build, `MapperInit`, file names | BSS, the helper's place, DOS callbacks, heap, arguments, operands of the mapper calls | one start per build and machine | main() finds memory, arguments and mapper calls set up, or a message is shown | `BlStart` |
| Loader | `BLCRT.C` `bl_main`, `bl_exit`, `Ovl*`, `bl_overlay_seg` | mapper segments held, segment table, Bank index, `free_seg_no`, TSR environment variable, page 2, interrupt hook, DOS callbacks | one program run: load or resume banks, run `main`, overlays, exit, abort, stay resident | no segment is lost or shared; the index leads to code; callbacks and hook only point at code that is mapped | `BankLoader` |
| Linear memory | `BLCRT.C` `bl_lmem_*` | `free_seg_no`, page tables, exported environment strings | alloc, free, export, import, copy_to, copy_from | a block owns its segments; a copy touches exactly the bytes asked for | `BankLoader`, `LinearMemory`, `BlockMemory` |
| Segment codec | `BLCRT.C` `_put_seg_main`, `_get_seg_main` | environment string | encode, decode | decoding gives back the table | `SegCodec` |
| VDP graphics: screen | `BLGRP.C`, `BLGRP*.H` | shadow of the VDP registers, screen geometry | init, suspend, resume, mode setting, pages, scrolling, vsync, clearing | the shadow equals the hardware; no setting undoes another; what is drawn is what is shown | `BlGrp` |
| VDP graphics: drawing | `BLGCM.C` | - | lines, boxes, filled boxes, circles | shapes have the right pixels | `BlGcm` |
| VDP graphics: loaders | `BLGRC.C` | shared buffer, palette | load pictures and patterns from file or ROM | every line in place, from a buffer of a few lines | `BlGrc` |
| VDP graphics: fonts and printing | `BLGFN.C` | print position (kept twice), font, its size and colours | set font and position, print, backspace, Korean syllables of three letters | a text is drawn where it should be, each syllable of the right glyphs, and the two positions stay one | `BlGfn` |
| VDP graphics: sprites and palette | `BLGRP.C` | tables shown and written, palette shadow, VRAM tables | view, active, put, patterns, colours, fade, mute, monochrome | the table shown is whole; the palette comes back | `BlSprite` |
| Sound | `BLSND.C`, `EXAMPLE/2BGM` | enable flag, driver and its interrupt | init, deinit, queue, play, stop, overlay | the driver is only called while it is there; pieces play in order | `BlSnd` |
| CP/M emulator: machine | `cpm32/src/cpm.c` `main`, console input, `ctrlc` | registers, Ctrl-C flag, end-of-input count, exit code | options, the interpreter's loop, console reads, warm boot | every program that reads to its end is ended, Ctrl-C works, the exit code is right | `CpmMachine` |
| CP/M emulator: files | `cpm32/src/cpm.c` | 64 file slots, FCB bytes in emulated memory | open, make, close, read, write, rename, delete, size | an FCB always acts on its own file | `CpmFiles` |
| CP/M emulator: drives, keys, devices | `cpm32/src/cpm.c` | drives' directories, search handle; key buffer; reader, punch and printer streams | arguments, log-in, search; key codes; character I/O | a search gives each file once; a key gives its code; characters go where the environment says | `CpmDrives`, `CpmKeys`, `CpmDevices` |
| CP/M emulator: console | `cpm32/src/cpm.c` | escape-sequence state, cursor, cells | output with escape sequences | sequences have their documented effect | `CpmConsole` |
| Z80 core | `cpm32/src/em180.asm`, generated by `mkem180.pl` | registers, flags, memory | every instruction | results and flags are the Z80's | `Z80Alu` (arithmetic and logic), `Z80Block` (block instructions) |
| Tetris examples | `EXAMPLE/2TETRIS/TETRIS.C`, `EXAMPLE/0TETRIS.ROM/MAIN.C` (the same game; the ROM's has a title, sprites and figures) | board, falling block, score, level; key counters; pages and sprite tables | move, turn, accelerate, drop, land, erase lines; title, game over | blocks never overlap; full lines vanish exactly; every block lands; the picture is the game's state | `Tetris`, `TetrisKeys`, `TetrisScreen` |
| Command processor | `cpm32/utl/*.as` | - | `rccp`, loader | - | - |
| Binary libraries, fonts, vendored code | `*.LIB`, `*.EXE`, `*.COM`, `FONT_*.H`, `KS2KSSM.H`, `EXAMPLE/DHRYSTON`, `Z80V309`, `windows` | - | - | no source, or plain data | - |

How they interact. The start code copies the helper to 8000H and calls the loader, which fills the
Bank index the helper reads and installs the helper's ISR on H.KEYI; application code reaches
another bank only through BankCall; the ISR calls handlers through BankCall; DOS calls the helper's
abort and disk-error callbacks; graphics and sound functions install ISR handlers and end with
`EI`, whoever calls them. `cpm32` is a separate program on the PC: the Z80 core traps into its BDOS
and BIOS, which map CP/M's files and console to the host's; its Ctrl-C handler runs on a thread of
its own.

What is hard here. There is one CPU, and no threads but that Ctrl-C handler; the concurrency is
that of interrupts against code that switches the memory under itself, and that keeps state in
the operands of its own instructions. The other hard parts are long-lived state that several
functions write (VDP registers, FCB slots, mapper segments that survive a program), partial
failures of DOS calls, state shown one frame and written the next, and arithmetic at the width of
a byte. `PROJECT.json` lists each hazard with its line and the properties that watch it.

## 2. Plan

Order of work, most important behaviour first. "Composes" says whose promises a module relies on.

| step | module | composes | state |
|---|---|---|---|
| 1 | `BankHelper`, `BankHelperProofs` | - | done, proved |
| 2 | `BankLoader`, `BankLoaderProofs` | relies on BankHelper: a call reaches the segments of the index | done, proved |
| 3 | `LinearMemory` with its abstraction `BlockMemory`, `MemoryZ80Proofs`; `SegCodec`, `AlgorithmsProofs` | detail of BankLoader's blocks and environment strings | done, refinement and codec proved |
| 4 | `CpmFiles`, `CpmFilesProofs`; `CpmConsole`, `CpmDevices`, `CpmKeys`, `CpmDrives` | - | done, proved |
| 5 | `CpmMachine`, `CpmMachineProofs` | calls to the modules of step 4 are "quick" | done, proved |
| 6 | `BlGrp`, `BlGrpProofs`, `BlGcm`, `BlGrc`, `BlGfn`, `BlSprite` | drawing uses the addresses BlGrp computes | done, proved |
| 7 | `BlSnd`, `BlStart` | the handler of BlSnd is one of BankHelper's; BlStart ends where BankLoader begins | done, proved |
| 8 | `Tetris`, `TetrisKeys`, `TetrisScreen`, `TetrisProofs` | - | done, proved |
| 9 | `Z80Alu`, `Z80Block`, `MemoryZ80Proofs` | - | done, proved |

`AlgorithmsProofs` has the theorems about small modules of steps 3, 4, 6 and 7: `SegCodec`, `CpmKeys`, `BlGrc`, `BlSprite` and `BlSnd`.
`CpmMachineProofs` has those of `CpmConsole`, `CpmDevices` and `CpmDrives` as well, `MemoryZ80Proofs` those of linear memory and of the
Z80 core, and `BankLoaderProofs` that of `BlStart`, with those about what it hands over to.

Left for later work: the loads, jumps and stack instructions of the Z80 core; the
command processor; a bank call abstracted to a call and a return, with the helper's steps hidden.

## 3. The modules

### BankHelper

State. `p0`, `p1` are what is mapped into pages 0 and 1, `cur` the operand `CurSeg`; `bstk` and `bsp` the
bank stack at 9000H downwards and its pointer; `stk` the application stack, of which only BankRet
addresses and interrupted contexts are kept; `svC` and `svR` the two operands in which BankCall
and BankRet keep SP; `iff` and `eiOp` the interrupt flip-flop and the two bytes that are EI or NOP;
`irq` the ISR entries, `vdp` the pending interrupts, `stat` the latch 81B5H, `clk` the counters.
`pc` says who runs: code of a bank ("run") or the ISR at its entry `i`, and how far a call has
gone (`at`). Segments are named by the bank they belong to: that a bank's two segments are the
right ones is BankLoader's business.

Actions. BankCall is `CallEnter` (DI and the saving of SP and the old bank), `CallSwitch` (page 0),
`CallLeave` (page 1, EI, the jump); BankRet is `RetEnter`, `RetSwitch`, `RetLeave`. `Interrupt` is the
CPU accepting one between any two of them; the ISR goes through the entries in the order of the
code (`Due`, `IsrCall`, `IsrSkip`, `ReadStatus1`, `IsrNoVblank`, `IsrVblank`, `IsrExit`) and calls handlers
through the same BankCall. What application code may do at any time are `UserCall`, `UserReturn`,
`RequestIrq`, `FreeIrq`, `EnableInterrupts`, `TakeFrame` (reads the frame counter), `Exit`
(`bl_exit`) and `ISRDeinit`.

### BlStart and BankLoader

`BlStart` keeps a memory of a few cells and runs the start code of each build (ROM, MSX-DOS2 or
DOS1 without banks, banked, banked for the R800) on each machine (CP/M, MSX-DOS, MSX-DOS2, turboR):
the BSS cleared by LDIR, the helper moved, the callbacks set, the arguments, the OVL file's and the
environment variable's names made of the program's path, and the addresses that MapperInit writes
into its own code. `StartedRight` is about the machine main() finds.

`BankLoader`: `owner`, `holds` and `scratch` describe the mapper (who allocated a segment, which half of which
bank was read into it, which run wrote DOS's page-zero area into it); `env` and `envL` are DOS environment
variables; `tbl`, `bankMax`, `idx`, `freeNo`, `tsr`, `envExist` the program's; `hook`, `abortOn`, `page2`
the interrupt hook, the DOS callback and page 2; `at` is the place in `bl_main`. One build of the
program (`resident`: BL_TSR defined or not) is run again and again: `Start`, `Open` or `OpenFails`,
`LoadAlloc` and `LoadRead` per half bank, or `Resume` from the environment; `Main`; then any
order of `SetTsr`, `LmemAlloc`, `LmemFree`, `LmemExport`, `LmemImport`, `ClearExport` and overlays
(`OverlayBegin`, `OverlayRead0`, `OverlayRead1`); `MainEnds`, `AbortAtExit`, `ExitResident` or `ExitFree`.
`DiskError` may end a read. `left` is a history of the segments the code is known to lose (a
disk error or an abort leaves system segments allocated): `NothingLost` says there are no others.

### LinearMemory, BlockMemory and SegCodec

`LinearMemory` runs `bl_lmem_copy_to` and `bl_lmem_copy_from` byte by byte on a block of pages of
`PageSize` bytes, with the interrupt flag and the byte at 8000H, the first of the helper.
`BlockMemory` is what a program sees: an array of bytes and copies in one step, with the one
range that strays (`Strays`: the last of several bytes is the first of a page). `LinearMemory`
instantiates it as `Memory` with the block's pages laid end to end; `BlockImplemented` is its specification.
`SegCodec` encodes and decodes a table one byte per step, with the eight-bit DJNZ counter.

### BlGrp, BlGcm, BlGrc, BlGfn, BlSprite

`BlGrp` keeps `bl_grp` (the fields that say how the screen is set up) and the registers as sets of
bits, beside the system's copy in RG0SAV.. and the two copies `bl_grp_init` and `bl_grp_suspend`
make. `RegistersRight` says of every screen that registers, their copies and the fields agree. Each setter is an operator on the pair of fields and registers and an action. `Other` is
another program that sets registers while BL is suspended. A register is the set of its bits; `Num` adds up
their weights, and `Put` is what a write does to copy and register. `fresh` is a history of what was
set since interlacing last changed: what is drawn can be where it is shown only once both pages have been. `BlGcm` returns for each shape
the sequence of dots it plots, with the VDP's line and fill commands modelled by what they do
(external). The circles drawn are a constant (`Circles`); the others have corners anywhere in a square. A circle is the
outermost dots with x² + y² < r(r + 1), for that is what the loop's error tells. `BlGrc` runs the loops of the loaders over a
file whose bytes are their positions, through a buffer of `Shared` bytes.
`BlGfn` prints texts of ASCII characters, Korean syllables, cursors and backspaces from a position the library
keeps twice, as an address (`faddr`) and as the bytes the video processor takes (`vdp`); the drawing of one glyph is external.
A text is made bytes, as a program holds it, and `PrintByte` does what the loop does with one of them, with the first byte of a
Korean character in `lead`. `PrintedExact` says from the text's characters (`LookAt`, `LookTo`, `Look`), not its bytes, which glyphs, of which of the sets of
letters, are at which place: `cur` is the history of where the next character belongs. Texts stay within their line (`Fits`). `BlSprite` has the addresses of
the sprite tables in VRAM, two of which a program writes and shows in turn, and the palette with its
shadow: `SpritesShown` says that the table shown holds the sprites put there last, whatever was written to other tables since,
and that the video processor's palette is the shadow's under the effect last asked for.

### BlSnd

The steps of the library's calls (`todo`), with the driver (external: queues of pieces per
channel) and its interrupt handler, which may run between any two steps. The caller is the
program 2BGM: its sections in their order, effects and refills of the drum loop. `SoundExact`: the
handler runs only while the driver is ready, sections and effects are heard by themselves, the rhythm queue is
never overrun, and nothing is left at the end.

### CpmMachine, CpmKeys, CpmDevices, CpmDrives

`CpmMachine` is main(): `at` is who runs: the interpreter ("z80"), a call, or a place of the
loop. `pc` is `reg.x.pc` in memory, which counts only between a call's entry and its return;
`event` a Ctrl-C whose handler has not run. `Option`s, the calls that read the console (each with
the count of end-of-input answers), the command processor's `SUBMIT` abort, and the ways out with their exit
codes. `CpmKeys` maps keys with modifiers to codes, over two reads where a key has two.
`CpmDevices` are the printer, the reader and the punch with their streams and what they share; `used` is the history
of each stream, who used it and with which character;
`CpmDrives` the arguments, log-in of drives, FCB1 and FCB2, program search, and directory
searches while files are deleted and drives reset.

### CpmFiles and CpmConsole

`CpmFiles`: `disk` holds the host's files, `slot` the array `fcbs[]` (open or not, name, address of the
FCB, shadow position, direction), `fcb` the bytes the emulated program's FCBs consist of. The operators
`FileOpen`, `FileClose` and `FileRw` are `cpm_file_open`, `cpm_file_close` and `cpm_file_rw`; they
take a state and return one, for the code calls them from each other. The actions are BDOS
calls 15, 16, 19-23, 33-36 and 40 and what a program may do to its own FCBs: rename, rewind, clear them.
A failing `fwrite` is `WriteFails`. `CpmConsole` is `cpm_putch` and the `w32_` functions it
calls, one action per character class and state of the sequence. Parameters are numbers modulo a byte (`ByteMod`); `params` is
the history of the characters sent and the numbers they form, which `escArgs` and `argN` are compared with.

### Z80Alu and Z80Block

`Z80Alu`: first what the x86 instructions do (external), then what each group of instructions of
`em180.asm` makes of the flags (`With`, `ArithFlags`, `LogicFlags`); the properties say from the Z80's
definition what the result and the flags should be. `Z80Block`: transfers, comparisons and nibble
rotations on a memory of `BlkSize` bytes, 65536 in the program, with HL as the low half of `ebx` and the count in `ecx`; beside
it runs a Z80 that repeats single instructions. `InstructionsRight` compares both.

### Tetris, TetrisKeys, TetrisScreen

`Tetris`: one step is one pass of the game's loop with any set of keys pressed; `Control`,
`Rotated`, `Falling`, `NextRow`, `Wait`, `Land` are the functions and branches of `play_game` in
their order. `check_layout_fill` is eight looks at a row (`Look`): as it goes up a row or erases one, and at most
four can be full, eight are enough, which is proved. `TetrisKeys` is the ROM's `key_req_update`, which makes requests of held keys. `TetrisScreen` is the
ROM's main(), title, start and end of a game: a state is a moment at which the program waits for a
frame or a key, and holds what pages, next blocks, figures and the two sprite tables show.

### Composed runs

`MCAlgorithms`, `MCGraphics` and `MCTetris` put modules side by side that share no state. A
variable `part` says which of them a behaviour runs; the others rest in one initial state, so that
the states are the sum and not the product of theirs.

## 4. The runs, their bounds, and why they are enough

| run | bounds | properties |
|---|---|---|
| `helper_flat` | 3 banks, calls to depth 2 and interrupts to depth 3 of the stack, two sources with handlers, JIFFY modulo 2, a frame of 2 VBLANKs, handlers keep interrupts off | MappedRight, IsrExclusive, VblanksCounted, DoneClean, ReturnsToCaller, InterruptsServed |
| `helper_nested` | 2 banks, calls to depth 3 and interrupts to depth 4, handlers execute EI | IInv |
| `loader_runs` | 5 segments, 3 banks of which 2 are loaded, 3 runs, one block of up to 2 pages, disk errors, aborts at exit, both builds | Ownership, CallsReachCode, NothingLost, OverlayReached |
| `cpm_files` | 2 FCBs, 2 slots, 3 files of which one is read-only, records of 2 bytes, extents of 2 records, 2 records per file, random records up to 8, 6 calls | OwnFile, AnswersExact, FilesExact |
| `cpm_machine` | 3 answers of end of input, 6 option lines, 3 redirected inputs, keys Ctrl-C, Return and a letter, 2 exit words | ExitExact, CtrlCKept, CtrlCEnds |
| `graphics` | registers: 5 calls, modes 0, 6, 8, 9, 3 machines, 2 screens to start from, 7 lines and 2 pages looked at; drawing: corners in 6 by 6 points, circles of radius 0 to 24; loaders: lines of 4 bytes, 7 lines, a buffer of 8; printing: 5 modes (T2, G4 to G7), 2 font sizes, 2 places, every vowel with 3 initials and 3 finals, back by 1 or 2, 4 prints; sprites: 3 modes, 3 tables, first and last sprite, 3 calls | RegistersRight, DrawnIsShown, ShapesExact, LoadExact, PrintedExact, SpritesShown, EnablesKept, ClearExact |
| `tetris` | play: 4 columns, 8 rows, 2 kinds of block, 2 levels, a level per 2 lines, 3 blocks; keys: a delay of 2, counted to 4, held for 6 passes; screen: 2 columns of 4 rows, 2 games of 2 blocks | BlockPlaced, ScreenFollows, KeysRepeat, PictureTrue, LinesExact, PlayLands |
| `algorithms` | SegCodec: tables of 4 bytes; LinearMemory: pages of 3 bytes, blocks of up to 3 pages, every address and size; BlSnd: 2 builds, 2 effects, 3 refills; Z80Alu: every A, 12 second operands, 14 16-bit ones, 16 combinations of flags; Z80Block: 4 bytes of memory, every HL, DE, BC, 2 instructions; console: 2 by 3 cells, a byte of 4 values; devices: 4 uses, 3 end-of-file answers; keys: all with all modifiers; drives: 4, 5 argument lists, 3 calls; BlStart: every build and machine, 17 cells, paths of up to 3 characters | RoundTrip, BlockImplemented, SoundExact, InstructionsRight, ScreenExact, DevicesExact, KeysExact, DrivesExact, StartedRight |
| `loader_diskerror`, `lmem_boundary`, `cpm_cleared`, `cpm_punch` | as their neighbours, or smaller | CallbacksMapped, CopyInPage1, OneSlotPerFcb, PunchWhereTold: violated, see section 7 |

Some properties are conjunctions of named parts, which their comments state one by one:
`FilesExact` (writes, names, what other files keep), `ScreenExact` (parameters, erasing, scrolling, moves),
`DrivesExact` (start, searches, later calls), `InstructionsRight` (single instructions, decimal chains, block
instructions).

Why they are enough.

- *helper*: a depth of 3 has a caller, a callee and an interrupt of the callee, which is what the two SP
  operands and the two EI bytes could confuse; 4 lets a nested ISR interrupt the helper called by
  another. The proofs cover all depths. JIFFY and the frame counter are compared modulo a common
  divisor, so small moduli lose nothing. The ISR's nesting has no bound in the code: with handlers that
  execute EI it is the bank stack's room that ends it.
- *loader*: three runs are: one that goes resident, one that resumes, one that ends; two banks of three make an
  overlay that replaces a bank, and five segments leave one for a block, or none. The Bank index has 32
  entries in the code and `OvlBanks` of them here. Segments are symmetric. The proofs have no bounds.
- *linear memory*: pages of three bytes have a first, an inner and a last; three pages have a first, a whole and a last.
- *files*: an FCB can lose its slot to the other, which needs two FCBs and two slots; the second extent begins
  after two records. Six calls are enough for both FCBs to be opened, one to be closed, deleted or cleared, the other
  to take its slot, and the first to read or write again.
- *machine*: three answers are one, the next to last, and the one that ends. Option letters act in order, so that lines
  with both exit-code options in either order matter. The keys are the one with a meaning, the end of a
  line, and any other.
- *console*: three columns and two rows separate the cell before, at and after the cursor and the row that scrolls; the values of
  a byte are cut to four so that numbers wrap within three characters.
- *graphics*: the register bits are all there, only the values given to setters are samples: each has at least one with and
  one without each bit. Every pair of setters with mode changes before and after fits in five calls. A square of
  six has every octant and slopes with up to five steps; the circles include every radius
  up to 24: 6 is the first at which the code's circle is not the one nearest to the radius. The glyph sets depend on the vowel and on whether there
  is an initial K and a final; every vowel is there. Three tables are one shown, one written, one untouched.
- *tetris*: four columns of eight rows hold three blocks with a full line below them; the two kinds are a bar
  and an asymmetric one. Level 2 is the last reached: it takes `LevelUp` lines, and the second speed stands for all
  those at which the key no longer accelerates. On the screen two landings and two games show what is left of the one before.
- *Z80*: the small operands are those at the edges of nibble, sign and decimal digits. With four bytes of memory every
  overlap of a copy, and every wrap of HL, DE and BC, is there.
- *drives, devices, start*: each call list has a use, a use after a failure or a change, and one more; memory of 17
  cells has every block BlStart moves, with one cell to spare between two of them.

CHECK_DEADLOCK is FALSE in all of them: programs end, or a bound on the number of calls is reached. That nothing waits
for ever is said by `InterruptsServed`, `CtrlCEnds` and `PlayLands`.

## 5. Fairness

*BankHelper*: weak fairness of the helper's and the ISR's own steps and of ISRDeinit, for a CPU that runs executes its next
instruction. Strong fairness of accepting an interrupt: code may disable and enable interrupts for
ever, and the flip-flop's being set again and again with a request pending suffices, because BankCall
and BankRet end with EI. Strong fairness of a function's returning, at each depth: handlers and
functions are finite programs. Nothing is assumed of calls, requests, or the VDP. `InterruptsServed`
then says that an ISR that has begun ends, and a VBLANK raised is read unless the program ends.

*CpmMachine*: weak fairness of the emulator's own steps (`HostStep`) and of the handler's thread (`Handler`),
which Windows runs once the event is there. Keys need not be pressed and the emulated program need not call:
`CtrlCEnds` allows a call that waits for the keyboard.

*Tetris*: weak fairness of a pass of the loop (`Play`). The loop waits only for the frame counter, which BankHelper's
`VblanksCounted` and `InterruptsServed` keep going. Keys are unconstrained.

The other modules have no fairness: their properties are about states and steps.

## 6. What is proved

No proof relies on a fact that is not proved, and none on a bound: what the theorems assume of the constants are
the ASSUMEs of the modules, which TLC evaluates in the runs.

| module | theorem | says |
|---|---|---|
| `BankHelperProofs` | `TypeCorrect` | every variable has its type |
| | `StackDiscipline` | the inductive invariant IInv always holds |
| | `MappingCorrect` | code of a bank runs with its segments in both pages and in CurSeg |
| | `ReturnCorrect` | BankRet resumes the activation that called, at its depth |
| | `IsrNotReentered` | without handlers that execute EI, the ISR is not re-entered |
| | `ExitClean` | `bl_exit()` from any depth ends in bank 0, interrupts on, stacks empty |
| | `ReachesTheorem` | each VBLANK counted in JIFFY reaches the BIOS divider once, or waits in 81B5H |
| | `CountedTheorem` | JIFFY, the BIOS divider and the frame counter stay in step |
| `BankLoaderProofs` | `OwnershipTheorem` | each segment in use has one holder and is its; `free_seg_no` is right |
| | `NothingLostTheorem` | between runs, DOS holds what a later run finds again, and what is counted as lost |
| | `CallsTheorem` | the Bank index leads to code, halves that belong together, and this run's scratch area |
| | `OverlayTheorem` | after an overlay, calls of its bank reach it |
| | `StartTheorem` | main() finds memory, arguments, callbacks, mapper calls and names as they must be, in each build |
| `MemoryZ80Proofs` | `AllocTheorem` | a block has the room asked for; interrupts are off while page 1 is away |
| | `BlockTheorem` | the byte loops implement `BlockMemory` |
| | `InstructionsTheorem` | arithmetic, logic, decimal and block instructions leave values, flags and memory as the Z80 does |
| `CpmMachineProofs` | `ExitTheorem` | end of input ends the emulator in time and the exit code is the one asked for |
| | `CtrlCTheorem` | a Ctrl-C during a call is not lost |
| | `DrivesTheorem` | arguments, FCB1 and FCB2 are what the command line says; a search gives each matching file once |
| | `DevicesTheorem` | each device keeps its stream; what is printed or punched is in its file, what is read is the file, and reading on never ends the emulator |
| | `ScreenTheorem` | control sequences are carried out with their own parameters, and erase, shift and move what they say |
| `CpmFilesProofs` | `OwnTheorem` | the slot behind an opened FCB holds the file the FCB names, or is closed |
| | `AnswersTheorem` | records, ends of files, sizes and refusals are what the disk holds |
| | `FilesTheorem` | a write changes one record of its file, everything else changes none |
| `BlGrpProofs` | `RegistersTheorem` | the video processor is set as asked, in every order of calls, across suspension |
| | `EnablesTheorem` | only the functions for it enable or disable the display and the interrupts |
| | `DrawnTheorem` | a pixel of the page shown is drawn on the line it is shown at |
| | `ClearTheorem` | clearing the page shown fills exactly the lines shown |
| | `ShapesTheorem` | lines, boxes, filled boxes and circles plot the dots of the shape and no other |
| | `PrintedTheorem` | a text is drawn where it belongs, syllables of the right glyphs, and the two positions stay one |
| `TetrisProofs` | `PlacedTheorem` | the block in the hand covers nothing and stays in the field |
| | `ShownTheorem` | block and ghost are shown where they are and will land |
| | `LinesTheorem` | a landing erases exactly the full lines, counts them, and moves the rest down |
| | `KeysTheorem` | requests are what the delay says, however long keys are held |
| | `PictureTheorem` | the picture is the game's state whenever the player can look |
| `AlgorithmsProofs` | `KeyCodesTheorem` | keys and modifiers give the codes of the manual, and leave none behind |
| | `SoundTheorem` | the driver is called exactly while it is ready; sections and effects are heard alone |
| | `LoadTheorem` | pictures and patterns are in place when loaded, and nothing else is overwritten |
| | `SpritesTheorem` | the table of sprites shown holds what was put there; the palette shown is the program's under its effect |
| | `RoundTripTheorem` | a segment table comes back from the environment as it was saved |

*BankHelper.* `MappedRight` alone is not inductive: what BankRet maps is what it finds on the bank stack, at an SP
found in an operand. So IInv says what is on the stacks: `EntriesOK`, each entry of the application
stack is the context its place in the order requires; `FramesInOrder`, the bank stack's frames are, in order, those of the entries
that owe a return; `LevelsOK`, `BottomOK` and `PositionOK`, who runs is consistent with the top of the stack, and the mapping,
`svC` and `svR` are as far switched as `pc.at` says; `ExitOK` and `PatchOK` relate the end of the program
and the patched EI bytes to the rest. A position has two history components, `d`, the depth
of the stack at which it runs, and `f`, the number of bank frames below it; the code has them in
SP and BankSP only. The proof has one lemma per action (the step keeps the conjuncts it can
disturb), assembled by cases on Next; the theorems follow by implication. IInv is checked by
TLC in `helper_nested`. `ReachesTheorem` adds `LatchOK`: while a VBLANK is latched in 81B5H the only activation of the ISR is past its read of
the status, and the helper's EI bytes are NOP, so that what is latched has been counted once and is not latched again. It assumes an even modulus of JIFFY and `CountedTheorem` one
that the frame rate divides as well; nothing reads JIFFY, so that it may be counted modulo any number, and
a property that holds modulo an even multiple of the frame rate is the one about the counters themselves.

*BankLoader.* `Ownership` speaks of the running program; a run begins from what the last one left. IInv has therefore
`KeptInv` (the saved table, an exported block and the lost segments are apart, and DOS's), `TableInv` (the table of a
run is the saved one or its own, in length what the place in `bl_main` says), `BlocksInv` (blocks are apart from each
other and the rest; an exported one is the exported set), `UsedInv` (a segment is not free exactly if one of these holds it), `CountInv`
(`free_seg_no` is the number of free segments, one more between an allocation and its read) and
`PageInv` (page 2 is away in the reads only). `CallsReachCode` needs besides what is in the segments:
`PlacesInv`, the segments of the table are distinct, which is what makes reading one leave the others;
`CodeInv`, places hold the halves of one bank, of their own unless an overlay replaced it;
`IndexInv`, the index's entries are pairs of the table; `ScratchInv`, first halves have this run's page-zero area.

*BlStart.* `BeginInv` says, for each step of the start: what memory is by then (`MemoryInv`: as loaded, but for the cleared BSS, the moved
helper, the end put after the tail and the shared memory), which builds on which machines get there (`WayInv`), and what has been
found of callbacks, arguments and mapper. What LDIR and the loops over the program's name leave is a recursive function; it is compared
with an explicit sequence that satisfies the same recursion (`Follow`): a least place at which the two differed
would contradict it (`LdirFollows`, `NameFrom`). Clearing with an overlapping LDIR is one of these, as the code does it.

*LinearMemory.* The refinement maps the block's pages laid end to end, and the buffer and 8000H, to `BlockMemory`'s variables,
which hold their values from before the copy (`before`) while a loop runs: the last step of a loop is the copy, all
others stutter. `LoopInv` places the next byte, or says that the last of several is beside page 1; `ToInv` and `FromInv` say
what has been moved.

*Z80.* `Stage` is a behaviour of `Z80Alu`: nothing executed, one instruction whose result and flags are those defined (`Done`), or one and DAA after
it (`DecimalExact`). What the x86 makes of the flags of a sum or a difference is shown once for both widths (`AddIs`, `SubIs`), of logic and shifts by their bits; each
instruction is a case of these, and DAA one of decimal digits.
`Agreed` is the invariant of `Z80Block`: emulator and Z80 are the same machine, or `strayed` says that a loop was counted from 0 or ran over an end
of the memory. A repeated instruction is a loop of the x86 and, for the Z80, as many single instructions; that both have done the same after n bytes, for every n, is
an induction over a set of numbers.

*CpmMachine.* `BudgetOK`: answers given and answers left add up to `EofCount`; `KeptOK`: after a handler in a call, the
program counter in memory is 0 until the call is left; `OptionsOK`: the exit-code flag is that of the last letter asking for one.

*Drives.* `DriveOK` says which drives have a directory at each stage of the start, those of the arguments before those of the environment, and `ArgsOK` what has become of each
argument: `NamedOK`, the FCBs', follows from both when the program starts. `SearchOK`: what a search still has to give is apart from what
it gave, within the files that match and those hidden; all that match and are not deleted are in one of the two.

*Devices.* A stream is named by the device that opened it (`OpenOK`), and each use in the history is on the stream its device has for good (`OwnedOK`). `StreamsOK`: a
stream that only printed or punched characters reached holds them, in order (`WrittenAs`); one that was only read has given its file up to the position, then 1AH (`ReadAs`).

*Console.* `Formed`: the numbers the digits form, each modulo a byte, are in `escArgs`, those that do not fit in its last place. `ScreenOK` keeps the cursor on the
screen, which all effects of a sequence need.

*CpmFiles.* The functions take a state `s` and return one, so the invariant is a predicate of a state: `Good(s, L, bad)` for the
opened FCBs `L`, after a failed write (`bad`) or not. `SlotOK`: the position the slot remembers is the file's own, or behind it by
part of a record after a failed write; this is why a seek may be left out. `FcbOK`: an opened FCB has a slot of
its own or a closed one, its file is there, and its record count is the file's. `Apart`: no two opened FCBs name one file; without it a
slot would lead to the right file only for the FCB that opened it last. A lemma for each function says which slot, FCB and file it changes
(`SlotSet`, `FcbSet`) and that `Good` is kept; each call is one or two of them.

*BlGrp.* A *concern* is something a program sets: the mode, the lines, a page, the colour... `FieldsOf` and `BitsOf` say in which fields
and which register bits it is kept, and `Right(c, g)` that they agree. `Effect(t, u, F, no, M)` says that a
call changed no fields but F and no bits but M of register `no`; a concern that is `Apart` from these is kept right, so each setter is checked against its own concern only, and
that two setters may undo each other shows as a concern that is not apart. Setting a mode is a row of a dozen writes: `Stage` says what
is settled after each. The invariant `GrpInv` has to say which concerns are settled (`Known`): display and position always, the others once a mode has been set, but the
pages only if they were set since interlacing last changed (`fresh`), because changing it moves neither; while BL is suspended it says so of `bl_grp_bak`, from which `bl_grp_resume`
sets everything again.

*Drawing.* What a function `Plots` is a set of places, each plotted once if that is asked: sequences of dots joined or flattened plot the union (`PlotsJoin`, `PlotsFlatten`),
and parts that are `Slices` of a figure plot each of its dots once. `IsLine` says that a line has one dot for each step along its longer side, `Near` that it is at most half a dot away
from the ideal one; the loop keeps the error within the longer side. The circle's loop is a walk along an octant: its error is x² + y² - r(r + 1) after each pass, so that the dots of its
`Passes` are exactly the `Octant`, and four signs and an exchange of coordinates make the images. `DrawInv` is `Ready` and `CallDrawn`, what the last call should have drawn.
`Size` and `Circles` are bounded by the width of the arguments only.

*Loading.* `Within`: bytes in VRAM are at places of the lines drawn so far; `Loaded`: these lines are there. `LoadingOK`: a pass has drawn a multiple of `Depth` lines, the lines of a buffer, and
the file's position is that of the next line, as long as the buffer holds whole lines. `DoneOK` and `PaletteOK` say what this makes of the end.

*Printing.* `GfnInv`: the functions are those of the screen (`ScreenSet`), the font's size in bytes is that in dots (`FontSet`), on bitmap screens address and bytes are
those of the dot the next character belongs to (`CursorSet`), and what was drawn `Matches` what the text asked for (`DrawnRight`). The state between two characters is a `Pen`: a dot, as an address
(`Addr`), and as bytes (`Split`). A glyph moves the low byte by itself, without a carry into the next; address and bytes stay one because a line lies within one
block of 256 addresses (`SameBlock`). That the bytes of a text are read as its characters is an induction over the characters (`Spells`, `TextSteps`): no first byte of a Korean character is left in `lead`
between two of them, and each pair gives back the letters of its code (`KssmRight`) and the sets of glyphs its vowel asks for (`SetsRight`). The table of KS codes is a
constant of which nothing is assumed but that it holds syllables.

*Tetris.* `PlayInv`: the block in the hand is `Sound` (it fits in both rows it is between and in the field), the ghost is the lowest row reached
by falling, the counters say how far between the rows it is, no full row is left, and the level is `LevelAt` of the score. That turning and sliding
keep it is the code's own tests; that a new block fits needs `TopFree`, and that `LINE` reads no row outside the field needs the shapes' own extent
(`ShapeGives`). For lines, `LookedAt` says what the layout is when the rows below some row have been looked at: the cells with the full ones among these rows removed
(`Shifted`). One look goes a row up or erases one; a block has four rows, so `Stage(8)` has passed them all.

*The keys of the ROM's game.* The byte counts the passes a key is held, or both are past the delay: so it may stop at `RptMax`.

*Its screen.* `SpritesOK`: neither table is half of a block, one is shown and the other written; `FieldOK`, `NextOK`: what
is shown of the field, next blocks and figures, at each wait; `MachineOK` and `TitleOK`: pages, palette, music and title.

*Small components.* `KeyInv`: what `getch` keeps for its second call is the scan code the manual's character belongs to; that
each pair of key and modifier gives this is a computation over the tables. It assumes of the keys without a code only that their virtual codes
are not those of the tables. `SndInv`: what is left of a library call and how far driver and interrupt are set up belong together
(`Starting`, `Ending`, `Overlaying`), and the queues hold pieces of the section in progress (`QueuesInv`), which follows from the order of
the program's calls, listed by `Calls`. `CodecInv`: after i bytes of either loop the string holds the first i entries (`Written`), the
table the first i read (`HasRead`), and the eight-bit counter what is left, modulo 256: that a table of 256 bytes, whose count is kept as 0, is read whole
is part of it. `SprInv`: what VRAM holds at the address of each table's sprites (`SpriteInv`), colours (`ColourInv`) and patterns
(`PatternInv`) is what was put there last, for every table and not only the one shown, and the registers are those of one of the tables
(`ViewInv`), which the video processor's way of forming the address leads back to (`Found`); `Apart` says that the tables overlap neither each other nor
the picture. That holds of the tables used here, 0 to 2 and the first of patterns: the assumption on `SprTables` says why. `PaletteInv`: entries are three digits
of 0 to 7 and the video processor's are theirs under the effect, for which `Greys` bounds the rounding of the brightness.

Recursive functions (a repeated instruction's effect, a line's or a circle's walk, the flattening of a sequence, the bytes of a text) are reasoned about as those of
BlStart: it is shown that there is a function that satisfies the recursion, so that CHOOSE gives one, and what holds of its values follows by
induction, stated over a set of numbers that has 0 and with n also n + 1 (`AllNumbers`, from the library's theorem that < is well-founded).
The library's own induction theorems take an operator as a parameter, which no installed prover can instantiate.

Only model-checked: liveness (`InterruptsServed`, `CtrlCEnds`, `PlayLands`), which is out of the prover's reach as ENABLED is. Every other property of a
run that passes is stated by a theorem; those of the four runs that end in a violation are of course not.

## 7. Where code and documents differ, and what is left out

Findings, each shown by a run:

1. `loader_diskerror`: `OvlLoad16kbPage2` switches page 2 away while DOS's callbacks point to 8230H in the helper
   (`BLCRT.C:656`).
2. `lmem_boundary`: a copy whose last byte is the first byte of a page accesses 8000H, in the helper (`BLCRT.C:828`).
   `BlockMemory` says so (`Strays`).
3. `cpm_cleared`: a cleared FCB's slot is not found behind a free one (`cpm.c:350`), against the comment
   above it.
4. `cpm_punch`: the punch without CPMPUN writes where the reader reads, although the reader was opened on CPMRDR's file
   (`cpm.c:667`), against `cpm32_04.txt:358`.

Seen while modelling, and modelled as the code does (or in a part left out), without a run of their own:

- *Console*: `cpm32_04.txt` says ESC D is up and ESC M down, the code is the other way round; it also swaps
  ESC [ D and ESC [ C, where the code follows ANSI. ESC [ n M leaves lines in between unblanked when it scrolls more
  than it moves. The tables of colours differ.
- *Machine*: BIOS 09H gives 15 times 1AH and then exits with 0, the document says 16 and 3 (`cpm.c:1001`);
  `cpm_rdr_in` counts end-of-file answers in a local variable, so that it never ends the program (`cpm.c:640`); the Ctrl-C
  handler's `reg.x.pc = 0` is lost while the core runs, which has the program counter in a register
  (`cpm.c:870`); a Ctrl-C typed at BDOS 1 may be lost, against `cpm32_04.txt:529`; `cpm_gets` drops the last character of a line
  without a newline (`cpm.c:1035`); option -p waits for a control character, the manual says any key (`cpm.c:1440`);
  the BIOS's punch takes its character from E, not C; automatically assigned drives are missing from the disk vector; guard bytes are HALT
  (`cpm.c:1273`).
- *Drawing*: an interlaced upright line from bottom to top begins at a variable not yet set, and its odd page's part
  has the even page's length (`BLGCM.C:341`, `:362`): `ShapesExact` excludes it (`Skewed`), the model
  has the nondeterministic byte. Interlaced corners of boxes and diagonals, which go dot by dot, plot some dots twice; an interlaced
  `boxfill_h` of one line gives the VDP a height of 0; a circle in MC mode uses a function that draws nothing there;
  a circle's error begins at the radius, so that its dots are the outermost within half a dot outside the circle and not the nearest to it, from a radius of 6 on;
  `get_pixel` ignores interlacing.
- *Screen*: `bl_grp_set_vsync_50hz` leaves its own getter stale; the branches of `clear_screen_fill` for MC and
  other modes look swapped; `bl_grp_resume` does not test its `bl_malloc`.
- *Fonts*: setting G3, G5, G6 or G7 leaves the sizes and the text width of the mode before until a font is set;
  a backspace goes back by a byte's distance; a Korean lead byte before the terminator skips it; backspaces in MC mode, for which there is
  no distance, are left out. Nothing ends a text at the end of its line: the model's texts stay within it.
- *Sprites*: in sprite mode 1 y = 208 ends the list and `put_sprite` does not avoid it, as it does 216 in mode 2; the colours of table 3 in G4
  lie in the picture's lines 208 to 211.
- *Loaders*: `load_ge5_pat` reads the whole buffer but draws whole lines, so a pattern whose lines do not divide the buffer
  is skewed, and one whose height is no multiple of the pass is followed by the palette and stale bytes: `LoadExact` says what is
  drawn in the pattern's lines. Its size is computed in 16 bits; `romload_vram_16k` drops the low 14 bits of its start.
- *BLCRT*: `page_tbl`'s 64 entries and the Bank table's 32 are not tested against their limit; `getenv`'s result in
  `bl_lmem_import` is not tested, nor the handle of the OVL file when it is opened again. BankLoader and LinearMemory assume sizes within these limits.
  A program with one byte of BSS or none would have LDIR clear 64 KB: the C library alone has more. The terminator put after the longest command tail
  overwrites the program's first byte, which has run by then.
- *Z80*: CPIR and CPDR move HL as 32 bits, and repeating instructions that begin with BC = 0 repeat 2^32 times (`em180.asm:4917`):
  `Z80Block` has both, and `BlocksRight` ends at them (`strayed`). H is not the Z80's in
  DAA, CCF and the 16-bit instructions (`AluRight` leaves these out); LD A,I and LD A,R do not set S and Z (`:4655`, `:4694`); a word at FFFFH
  has its second byte beside the memory.
- *Tetris*: after a drop between two rows the sprite is a row behind until the block lands (`TETRIS.C:764`, `:813`):
  `ScreenFollows` allows this row. The ROM's game shows the last block of the game before for a frame (`MAIN.C:777`).

External parts, modelled from how the code uses them: the VDP's commands, the music driver, the drawing of one glyph, the x86's
instructions, Windows' console events and files. The driver's stop is taken to empty its queues.

Not modelled, and why: what pictures, tunes and fonts look like (data written through and never
read back by other code), the notes and frames of the Tetris examples; the straight-line examples; the loads, exchanges, jumps, stack and I/O of the Z80 core, one or
two x86 instructions each; the command processor and its loader, Z80 programs of which the emulator is the subject
here; the busy-wait, time stamps and disk parameter tables of the emulator; the text templates that
generate `em180.asm` (their output is modelled); libraries without source. In parts that
are modelled, `PROJECT.json` says what each leaves out.
