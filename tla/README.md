# TLA+ models of the ZX Spectrum emulator

This directory models the parts of the emulator whose state is easy to break and
hard to test: memory paging, the devices of the ZX Spectrum Next that talk back
to the program that drives them, its memory map with divMMC and the Multiface's NMI,
the +3's floppy controller, the Wi-Fi
device with its worker thread, the front end around the classic machine with its
load threads and its tape, the debugger, and the assembler. TLC checks small instances; TLAPS
proves the safety properties that the runs check for every value of the constants.
`PROJECT.json` maps every definition to the lines it translates.

Paths below are relative to the repository; `zx.h` is
`third_party/chips/systems/zx.h`, every other C file is under `src/`.

## The system

A single process for Windows. The window's thread runs the user interface and,
from a timer, whole video frames of one of two machines:

* the **classic machine** (`zx_t` in zx.h: 48K, 128, +2A, +3), driven through
  `spectrum.c`, with tape, disk, Microdrives, mouse and Multiface;
* the **Next** (`NextMachine` in next_machine.c) with its DMA, Copper, SD card,
  UART and Wi-Fi, clock and sprites.

In both a frame is a loop of ticks. One tick moves the Z80 by one T-state and
serves the memory or I/O access on its pins, so a device's handler runs inside
the CPU's access and is atomic for the CPU. Between two frames, and between two
ticks when the debugger stops the machine, the user may load, switch, reset,
eject or save. There are real threads only in three places: the Wi-Fi worker,
and the two workers of main.c that load tapes and snapshots.

| Component | State | Operations | Talks to | What is hard | What makes it correct |
|---|---|---|---|---|---|
| Classic paging (zx.h, spectrum.c) | 7FFD/1FFD latches, lock, page table, overlay flags of Interface 1 and Multiface, NMI pulse, lockout | OUT to the latches, opcode fetch at 0008/1708/0700, Multiface ports, red button, reset, model switch, snapshot load | CPU, front end | three devices edit one page table in place, in any order; a snapshot may arrive under a paged overlay | memory is what latches and flags say; locks hold; the NMI finds its handler |
| Next DMA (next_dma.c) | register set, pending parameters, block counters, burst and hold flags, due time | command port write and read, step and charge per tick, block transfer, reset | CPU, every I/O port, itself | re-entered by its own writes; aborted, reprogrammed or reset mid-byte | the CPU always gets the bus back; a block moves whole |
| Next SD card (next_sd.c) | selection, command bytes, response queue, stream and write job, image file | chip select, byte write, byte read, open image | divMMC ports, host file | responses left unread, streams across deselection, failed file operations | writes land on the block the host means; responses are whole |
| Next Wi-Fi (next_wifi.c) | FIFOs and flags under a lock; the worker's line, payload, connections | UART ports, menu switch, reset, destroy; worker passes | CPU, menu, sockets | room checked in one critical section and used in another, reset in the middle of a pass | nothing is cut or lost unseen; resets are complete; the worker goes on |
| Next frame (next_machine.c) | position in the frame, frame count, pin and its count, line interrupt, clock | tick, NEXTREG and port writes, exec_frame, reset | CPU, DMA, Copper, debugger | rescaling at a speed change, writes on either side of the interrupt logic, stops and DMA time over a frame's end | position kept, pin always lowered, every interrupt once |
| +3 controller (zx.h) | command, parameters, results, cylinders, transfer buffer and clock | ports 2FFD/3FFD, reset | CPU, disk image | multi-sector and multi-track transfers, protections, disk changed in mid transfer | the sector asked for, in order, with its marks |
| Disk image (disk.c) | sectors, dirty, read-only | find, read, write, save, insert, eject | controller, user | sector found twice by different keys | no unsaved change is lost |
| Debugger (debugger.c) | points, stepping mode and target, pending access, address to skip | break, step in/over/out, run to and from, execution slices, pause, edit of points | both machines' frame loops | a stop anywhere in a frame or an instruction; stale goals and flags | no breakpoint is passed unseen but the one resumed on, a step is one instruction, a goal ends with its pause |
| Front end (main.c) | machine running, load jobs, rewind ring, autotype, media, settings | frame loop, load and completion, model switch, rewind, eject | everything | completion after a switch, nested modal loops, exit while a worker runs | every job is applied or freed once; a failed load changes nothing |
| Tape (tape.c) | blocks, player position, pulse clock | play, stop, pause, rewind, fast load, tick | ULA's EAR, ROM traps, front end | pause in the middle of a pulse, end of a block, clock change | the player follows the blocks' order |
| Snapshots (spectrum.c, szx_inflate.c) | none between calls | load and save SNA, Z80, SZX, SCR | classic machine | a failure half way | all or nothing |
| Next memory map, divMMC, NMI (next_machine.c) | MMU slots, legacy latches, config mode, Layer 2 mapping, automap and Multiface flags, NMI | ports, NEXTREGs, fetch traps, resets, SNX and NEX loads | CPU, SD, Copper, DMA | several writers of eight slots, seven devices over the bottom 16K, an NMI whose stack is remapped between push and handler | slots follow latches, accesses stay in their device, an NMI leaves memory and program as they were |
| Copper (next_copper.c) | program, pc, mode, restart | run a line, write program | NEXTREGs, video | a MOVE that writes the Copper or resets the machine | instructions in order, restart at the frame |
| Clock (next_rtc.c) | I2C state, registers | SDA and SCL edges | ports | start and stop in the middle of a byte | a byte is acknowledged once, addresses advance |
| Interface 1 and Microdrives (zx.h, microdrive.c) | drive chain, head position, GAP and SYNC | ports E7, EF; insert, eject | CPU, cartridge file | block boundaries, write protect | data lands in its sector |
| Classic ULA, sound, mouse (zx.h) | beam position, palette, PIO | tick | CPU, user | contention, queued mouse interrupts | timing tables |
| Sprites, layers, palettes (next_sprite.c, next_machine.c) | attribute slots, palettes | ports, NEXTREGs, drawing | Copper, DMA | slot counters that wrap | drawing |
| Assembler, editor (assembler_core.c, assembler_ui.c) | lines, symbols, address, output, machine memory | expand, scan for ORG, two passes, run, export | front end, host files | two passes that must agree, refused lines, the end of memory, circles of files | references and tape blocks go where the code is; a refused line leaves nothing |
| ZIP, DEFLATE, DSK parsers, pokes, file_util.c | none | parse, write | front end | malformed input | pure functions and one rename |
| chips/z80.h, ay38910.h, Scintilla, crt.c, build files | vendored or build | | | | |

`PROJECT.json` "components" says for each of these what is modelled or why not,
and "hazards" lists what can go wrong at which line, with the property that
would show it.

## Modules

| Module | Models | Composed of |
|---|---|---|
| `ZxPaging` | zx.h's paging functions, Interface 1 traps, Multiface, and the paging part of spectrum.c's loaders | |
| `NextDma` | next_dma.c and the tick that drives it | |
| `NextDma_proofs` | theorems about it | EXTENDS NextDma, TLAPS |
| `SdVolume` | abstract: what a card promises about the blocks of its image | |
| `NextSd` | next_sd.c | INSTANCE SdVolume with a refinement mapping |
| `NextSd_proofs` | theorems about it, the refinement among them | EXTENDS NextSd, TLAPS |
| `NextWifi` | next_wifi.c, both threads, and the network | |
| `NextWifi_proofs` | theorems about it | EXTENDS NextWifi, TLAPS |
| `NextFrame` | the tick's interrupt logic and next_machine_exec_frame | |
| `NextMemory` | the Next's memory map: what every access reaches, and all that changes it | |
| `NextMemory_proofs` | theorems about it | EXTENDS NextMemory, TLAPS |
| `Plus3Disk` | disk.c's image and the controller's callbacks | |
| `Plus3Fdc` | the uPD765 of zx.h, and the user at the drive | EXTENDS Plus3Disk |
| `Plus3Fdc_proofs` | theorems about it | EXTENDS Plus3Fdc, TLAPS |
| `TapePlayer` | the running half of tape.c: segments, position, rescaling, fast loading | |
| `FrontEnd` | main.c around the classic machine: loads, machines, keys, typing, playback, rewind | EXTENDS TapePlayer |
| `FrontEnd_proofs` | theorems about both | EXTENDS FrontEnd, TLAPS |
| `Debugger` | debugger.c over an abstract CPU, and the loop that runs a frame in slices | |
| `Assembler` | assembler_core.c's expansion, passes and instruction forms, and the commands of assembler_ui.c | |
| `MachineMemory_proofs` | theorems about `ZxPaging`, which maps the classic machine's memory, and `Assembler`, which writes it | EXTENDS ZxPaging, Assembler, TLAPS |
| `FrameLoops_proofs` | theorems about the two loops that run a frame | EXTENDS NextFrame, Debugger, TLAPS |
| `MC*` | constants for TLC | EXTENDS their module |

**State and actions.** Each module has one variable with the fields of the C
structure it stands for, under their C names (`sys`, `dma`, `card`, `uart` and
`worker`, `machine`, `fdc` and `disk`, `debug` and `points`, `ctx`, `app` with the tape in it), variables for what the structure does
not hold (`file`, the content of the host's file; `net`, the sockets; `at` and
`call`, the place in a C loop and its locals), and a `history` of what the
properties remember, which no guard of the code's actions reads except where a
bound is stated. C functions that change the structure are operators from record
to record, so that a handler is the same composition of calls as in the source,
including the calls at its end (`_zx_multiface_page` after a paging write, the
recomputation of the line interrupt after a speed change). A handler is one
action. Only the two transfer loops of the DMA, the worker of the Wi-Fi, the
loops that run a frame (exec_frame, the debugger's slices), and the assembler's passes
are cut into steps: something else may run in between. A step of `NextMemory` is one
bus cycle, because the Copper may write registers between two cycles of an
instruction. A step of `Debugger` is one tick with its hook, or one command of the user
between two slices. A step of `Assembler` is one source line.

**Data** is kept as far as the properties tell it apart. A byte written to 7FFD
is the record of its bits; memory at 0000-3FFF is one value, as the code always
maps it whole; a data packet of the SD card is bytes all alike; of the Wi-Fi's
answers only their length counts, and a command is one symbol. Of the Next's memory only
bytes that are not zero are kept, under the device and offset that hold them. The
assembler's opcodes are classes ("code", the low or high byte of an address, a
displacement), as sizes and places are what two passes may disagree about.

**Selector constants.** Checking a device with every kind of program at once
multiplies uses that do not meet in practice. `NextSd` (Hosts), `NextWifi`
(Sessions), `NextFrame` and `NextMemory` (Uses), `Plus3Fdc` (Software), `FrontEnd` (Uses),
`Assembler` (Projects), `Debugger` (the two machines) and `MCNextDma` (program)
have a variable, chosen at Init and constant afterwards, that says which use the
behaviour is of. The uses then add up to one state graph. Adding one needs no
change to a module; they name what a program does, never what the device does.

### Uses that are checked

* Paging: a 48K, a 128 and a +3, with an Interface 1 and a Multiface found, two
  banks, three 1FFD bytes (two normal layouts with different ROMs, one all-RAM),
  two snapshot bytes, one of which is locked.
* DMA: a byte has 2 values, so a word has 4 and counters wrap at 4; block lengths of
  0 or 2 from memory to an I/O port, with and without prescaler, in burst and
  continuous mode, with and without auto-restart. `writer` uses both command ports, `reader`
  only the Next's own and reads registers back. The I/O port may be the
  controller's own or the reset register.
* SD: `Reader`, `Writer`, `Mixer` (streams, reads and writes begun in each
  other), `Asker` (every command without blocks).
* Wi-Fi: `Talk` (send, be answered, networking switched), `Lines` (CR, LF, both,
  too long, reset), `Packets` (two connections that share the FIFO), `Datagrams` (UDP,
  whose datagrams may be longer than the room that is left).
* Frame: `Turbo` (NEXTREG at any tick, stops), `Ports` (through OUT), `Lines`
  (three frames), `Dma` (ticks charged with 1 or 4 T-states, so over the end
  of a frame), `Blocks` (with 25, more than two frames), `Resets`.
* Floppy: `protected` (wrong side in the ID, deleted, bad, empty, oversized
  sectors), `utility` (seek, sense, specify, refused commands), `editor` (writes
  that fail in the second sector, padded, aborted), `rude` (writes commands into
  transfers, ignoring the status).
* Next memory: `Paging` (the three legacy ports against NR 8E, 56, 69 and 08, both resets,
  SNX and NEX files), `Overlays` (divMMC, config mode, Layer 2, alternate ROM, automap),
  `Nmi` (stackless and not, with the stack in RAM and where ROM, divMMC or Layer 2 may
  cover it), `Copper` (the same with registers written inside instructions and the DMA
  holding the CPU), `Nested` (an NMI asked for while one is pending, ended before it comes
  or served; a handler that writes its return address).
* Debugger: one program, a loop with a CALL, a port read behind a RET and a repeating
  instruction, on both machines; an execution breakpoint over two addresses and a
  port watchpoint with a condition and a hit target; every command between slices.
* Assembler: a program for every form of every instruction and directive, between a forward
  jump and its label; layouts that meet ROM, FFFFh, full tables, doubled and missing symbols,
  two ORGs; files that include each other, from a saved or an unsaved document. Each is
  assembled, run and exported, with an INCBIN file of three sizes that changes meanwhile.
* Front end: `Loading` (tapes and snapshots with every failure, against switches, the
  Next and the closing window; with and without autoload), `Playing` (a TZX with fast
  loading and a TAP without, read by every kind of program), `Swapping` (cartridges
  under a playing tape), `Autoloading` (interrupted by a reset, a switch, the Next, a
  disk, a snapshot, Stop or the end of fast loading), `Typing` (held keys against
  the same, failing snapshots and rewinds), `Rewinding` (under a playing tape).

## Runs

| Run | Shows |
|---|---|
| `paging` | Memory is what latches and flags select after any order of writes, fetches, NMIs, toggles, resets, model switches and snapshot loads (`NoStaleOverlay`, `SnapshotSeesOwnRom`); a raised NMI has its handler mapped (`NmiEntersMultiface`); a locked 7FFD and a locked-out Multiface stay so for the CPU (`LocksHold`). |
| `memory` | However ports, NR 8E, locks, loads and resets follow each other, slots, ROM and latches agree, and a mapping read from NR 8E can be written back (`LatchesAgree`); every access stays in the device that answers, and no write reaches a ROM outside config mode (`AccessesLand`); an NMI without a stack leaves memory as it was and returns where it interrupted, if its two bytes still are where they were pushed (`NmiReturns`). |
| `nmi_pulse` | fails: see Findings. |
| `dma` | A held CPU has a transfer to wait for (`HeldOnlyByTransfer`) and gets the bus back (`CpuResumes`); counter, bytes left and pointers agree through wrap, restart and reprogramming, and end of block is never reported for an aborted one (`BlocksAreWhole`, `PointersFollowCounter`). |
| `dma_burst` | fails: see Findings. |
| `sd` | A response loses its end only if the program piled it on an unread one, a stream is in order whatever comes between, CMD12's answer is read first (`ResponsesArrive`); the image changes only as `SdVolume` allows (`KeepsVolume`). |
| `wifi` | Every byte dropped shows as overflow, a packet whose room was measured earlier still fits, a CIPSEND payload stays in its buffer (`PassesWhole`); after a reset the next pass starts without a line, payload or connection of before (`NothingSurvivesReset`); a full transmit FIFO is emptied (`TxTaken`). |
| `frame` | The pin is up only while something will lower it, and a frame is as long as its T-states at the speeds they ran at (`TimeKept`); a frame that began enabled has interrupted, its line interrupts once, and it is drawn before the next one ends (`OncePerFrame`). |
| `fdc` | Data and marks are those of the sector whose ID matched (`MatchedSector`); sectors ascend, stop at EOT on side 1 and at a mark, which is the result (`SectorsInTurn`); a write keeps what it wrote before it failed, and an image that differs from its file is dirty (`WritesKept`). |
| `frontend` | A tape's durations stay within half a tick of the file's, pauses within two, however many clock changes (`PulsesKept`); a loading flag is up exactly while one job of its kind is under way, and a tape that waits for its command has it still being typed (`NothingWaits`); tape and machine keep in step, and no key stays down, through every step but those named under Divergences (`KeepsTapeAndKeys`). |
| `debugger` | A breakpoint stops the machine before its instruction and a watchpoint after it, but for the two cases under Divergences, which the property names (`BreakpointsStop`); a step is one instruction however the bus is held and whatever points it meets (`StepsOneInstruction`); an address to run to does not outlive a pause (`RunToEnds`). |
| `assembler` | In a finished build every jump and displacement leads to the first byte behind its label and every byte of a tape block is where its line is (`LandsInPlace`); lines of files come out once and in order, circles end (`IncludesInPlace`); memory changes by whole lines of the second pass (`RefusedWritesNothing`). |

Deadlock is checked in every run. Where the program may stop by itself (the Wi-Fi
thread that has ended, the closed program, the bound on frames) a stuttering action says so.

### Bounds, and why they are enough

* Paging has none: its state is finite. Two of eight banks are enough because the
  code never compares bank numbers, except that bank and display are bits of one
  byte; the theorems cover all eight.
* DMA: `Base` = 2 instead of 256 keeps the wrap of counters and addresses (at 4),
  a block that does not divide it, and zero as a length. The prescaler counts
  T-states that depend on `Speed`; `due` is bounded because it is a difference to
  the clock and no byte lasts longer than `PerByteCycles`. The theorems cover all
  `Base` and `Speed`.
* SD: two blocks and the address past the end stand for an image; a queue of 17
  bytes holds one answered block of 9 and not two, as 1024 does for 519. The
  hosts' `maxUnread` bounds how much they leave unread when they start a command,
  and 6 is enough to overflow the queue. `MaxPastEnd` = 1 packet after the end.
* Wi-Fi: a receive FIFO of 4 is full after two answers of 2, a chunk of 2 makes
  packets that exactly fill it; a transmit FIFO of 1 makes every byte wait
  for the worker; a line of 3 makes a line that is too long. Bytes that wait at a
  socket are bounded by `maxIncoming`: two on the connection of a program that also sends,
  one on each of two that share the FIFO, three of a datagram, one more than fit.
* Frame: 12 T-states with lines of 4 and pulses of 3, so that a line pulse may
  begin within a frame pulse, cross a line and run into the end of the frame; a
  speed change by 2 and by 8 makes rounding lose T-states. Two changes per frame
  and two or three frames: the position's error is linear in the changes
  (`PositionKept` has them as a factor), and everything but the count starts
  afresh with a frame.
* Floppy: sectors of 2 bytes with room for 4, so that short, exact and oversized
  sectors exist; three sectors to a track; the clock wraps at 2 instead of 2^31, so
  that the age of a byte turns negative, as it does after ten minutes.
* Next memory: registers, ports, banks and addresses have their real widths; what is small is
  the sets a program draws from, each value chosen for a branch (the last bank of Layer 2,
  config pages at both ends of every range, probes at both ends of every device). One
  write of the program's own (`writes`) is enough to be mistaken for one of the NMI's two. RETN
  returns to one of the use's stacks, and an NMI is asked for on one.
* Debugger: 4 addresses, 2 to a page, values below 4, frames of 3 ticks against instructions
  of 2 and 3, so that a frame ends at every place in an instruction. One point at a time:
  points do not interact but for the order in which they are tried.
* Assembler: 24 bytes with ROM in the first 4 stand for 64K; bytes are -8..15, a displacement
  -8..7, chunks of DEFS 2 bytes, 4 labels, INCLUDE 3 deep. Each has its value just
  inside and just outside.
* Front end: clocks of 20 and 21 keep what matters of 3500000 and 3546900: they
  differ and neither divides the other; a pulse of 10 falls between two ticks of the
  faster one. A frame is 10 ticks on every model (they differ by 1.5 per cent),
  shorter than the tape. The tick counter wraps at 40 instead of 2^32. A key is held,
  a gap lasts and a boot takes one frame; a loader is idle after 2 instead of 250; the
  rewind ring has 2 slots, 2 frames apart, instead of 5 slots 25 frames apart. One host key has two
  codes, enough for a key that changes its meaning while it is down. Three models
  of five are run: a +2 is to the front end a 128K into which 128K snapshots also load
  (main.c:4121), a +2A a 128K that a cartridge replaces like a +3 (main.c:3091). The
  replacement is a 48K, the code's choice where that ROM is found. A slice of emulation is one frame, and the reads of EAR in a frame are
  represented by the last, which passes whatever the others would. Closing the window
  handles posted completions and destroys it in one step.

### Fairness

Two runs check liveness; each assumption is about who runs:

* `NextDma` WF(Next): the frame loop runs ticks for as long as the emulator does.
  Nothing is assumed about the CPU, which is exactly what a held CPU cannot do.
  `MCSpec` takes the same for its restricted Next.
* `NextWifi` WF(WorkerStep): the worker is a thread of the operating system, and
  its waits end by themselves: 5 ms on the event, 5 s on a socket, which does not
  block, and the system's own limit on a name lookup. No fairness for the CPU, the
  menu or the network.
* The other modules are safety only. `FrontEnd` has threads, but a load that never
  ends breaks nothing that it promises.

## Findings

Each is a run that TLC finds violated, about a sentence of the repository.

1. `nmi_pulse` - "a one-tick pulse suffices" (next_machine.c:1915): in a tick in which a
   continuous DMA transfer holds the CPU the pulse ends before the CPU sees it. The flag that
   an NMI is being served stays set, so that later requests are ignored. The
   Copper, whose lines run while the CPU is held, is one who asks for it then.
2. `dma_burst` - a burst whose prescaler is no longer than its bytes moves two and
   more bytes a tick, where next_dma.c:249-251 gives the CPU the bus between bytes.

## Divergences

Where the code differs from a sentence of the repository, kept in the models and exempted
from a property by name or outside of what it says:

* Rewinding the machine restores the keyboard of a checkpoint and
  then releases the keys held now (main.c:1578), so that a key let go since the
  checkpoint stays down, where main.c:2451 and 4853 say that every held key is released
  (`KeepsKeys` names the rewind).
* A UDP datagram longer than the free room ends its connection
  (next_wifi.c:625), where docs/spectrum-next.md:77 says such data is received.
* A debugger stop in the tick that ends a frame returns before the frame is drawn; the next call aims
  at the following frame, so this one is never drawn and the Copper misses it, where
  next_machine.c:2168 says the next call completes it (`EveryFrameRendered` names stops).
* Of two sectors with one R and N the wrong one may be read
  (disk.c:59-78), where zx.h:1290 matches all of C/H/R/N. The disks that are checked have no
  such twins, and the theorems about them assume it (`NumbersTell`).
* Going on from a breakpoint sets a flag to skip it (debugger.c:1794-1797), but the hook never looks at
  the instruction one goes on from: it runs behind a tick, and the first boundary it
  sees is that of the next instruction. So the flag is consumed at the *next* arrival at that
  address (1713-1718), which is executed without a stop, and a breakpoint in a loop stops
  every second time. docs/debugger.md:62 says that it stops when "an instruction starting in
  RANGE is about to execute", 86 "on the Nth one and every one after it", 95 "the tenth time
  9C40 runs"; debugger.c:1793 means that the machine "must not stop again before moving", and
  1926 that the hook clears the flag when the instruction is left. `BreakpointsStop` names the
  first arrival at the address last gone on from (`seen.passed`), whatever was stepped or edited in
  between; every other arrival must stop, and so must the second one. Without
  that exemption TLC refutes it in eight states: a breakpoint, RUN from it, PC set back to it.
* A pending access of the debugger is cleared when a frame begins (debugger.c:1948), so a
  watchpoint hit in an instruction that a frame's end cuts does not stop, where
  docs/debugger.md:76 says it stops after the instruction. `BreakpointsStop` names it: it has
  the hit stop the machine in the slice that saw it.
* An instruction whose boundary is a frame's end is matched by the hook and again by the next
  frame's check, so that it counts as two hits, against docs/debugger.md:86 and 95
  (`BreakpointsStop` speaks of points that stop at the first hit).
* debugger.c:1802 says that a step "executes exactly one instruction". On the Next a step in
  whose instruction the frame ends stops inside it (`StepsOneInstruction` names it); and a step
  with PC set to a breakpoint only shows that breakpoint and executes nothing (the property
  is about steps that have begun to execute).
* The memory restored by a stackless NMI (next_machine.c:321-324) is not as before where
  the stack is written and read in different places: ROM, divMMC's ROM, a Layer 2 mapped for
  writing alone (`NmiReturns` asks that both bytes landed).
* Of docs/assembler.md:60 the halves of IX and IY are not accepted as operands.

Things the code does that no sentence of the repository contradicts, a reader might still
want to know of:

* A reset by the program through NR 02 happens inside a tick: the end of the tick
  overwrites the CPU's new pins (next_machine.c:2117), and frame_count restarts
  below the target that exec_frame computed (next_machine.c:793, 2165): the call
  goes on, undrawn, until as many frames have run as had been counted
  (`EveryFrameRendered` names resets).
  `frame_int_disabled` survives every reset (751).
* A speed change through the I/O port in the middle of a line interrupt comes
  between the interrupt's count and the frame's, and may repeat it (1185-1200).
* A DMA charge that takes the machine over a frame's start skips tick 0, the only
  one that raises the frame interrupt (2139).
* The Wi-Fi worker does not see networking switched off and on within one pass
  (next_wifi.c:747), and answers of the pass that a reset interrupts are queued
  after it (124).
* A DMA block that runs longer than a frame is charged to one tick, which ends several
  frames (2139-2145); exec_frame draws once for all of them (`FitsFrame` names it).
* An Interface 1 fetch hides a paged Multiface (zx.h:2261), which zx.h:1056 puts on top
  at the moment it is paged. `LowExplained` allows it.
* A cartridge that takes a +3 to 48K leaves the tape playing with the old clock, stop mode
  and edge (main.c:3098); every other change of machine stops and rescales it.
* A snapshot that fails after the model has changed puts back the keys that were
  released at its start (main.c:4179-4183).
* The machine's tick counter has 32 bits (zx.h:255) and the tape's next edge 64
  (tape.c:2100): a tape that plays while the counter wraps stands still. The rewind
  moves the counter back under a playing tape in the same way.
* Next memory: NR 8E with its special bit set does not apply all-RAM paging; writing NR 8E
  keeps one bit of the bank's upper four (1402-1408). An SNX file whose 7FFD has the lock bit
  leaves paging unlocked, and one of 48K takes its PC through whatever Layer 2 mapping was
  left (3256-3358). Neither kind of load ends an NMI; one that keeps the registers does not either.
* A RETN between the request of an NMI and its acceptance ends it (2056-2075): what it
  pushes is then not noted, and if the Copper asks for another one during the pushes, that
  one gives a stackless handler nothing to put back. `NmiReturns` is about those
  that are still active when they are accepted.
* An exit fetch at 1FF8-1FFF disarms automap while the Multiface is paged too (2100), the opcode that
  the CPU fetches and drops when it accepts an NMI counts for automap and for RETN, and so does
  the ED of CB ED. A jump to 0066 with an NMI served and the Multiface paged out acknowledges
  it again, and so does the dropped opcode of an NMI that is accepted with PC at 0066: NR C2 and C3
  then get what lies on the stack and not what the CPU pushes afterwards (`NmiReturns` is about NMIs that
  the fetch of their handler acknowledges). Turning NR 0A bit 4 off leaves automap on.
* Assembler: a label on an INCLUDE line is lost; the address to run is found by a scan
  before the passes, and differs where ORG depends on a label; an INCBIN file that grows between
  the passes may leave half a DEFS in memory (`RefusedWritesNothing` names it).
* A load that ends while the Next runs is applied to the hidden classic machine.
* The floppy's ready time is a signed 32-bit difference (zx.h:1189). Any command
  with a parameter moves `last_drive`, Specify included (zx.h:1574).

## Proofs

`tlapm` checks eight modules, two of them about two components each. Each proves an invariant inductive, one lemma per action,
and derives the properties from it.

**MachineMemory_proofs**, of `ZxPaging`. `IInv` is `Good(sys) /\ NmiEntersMultiface`. `Good` adds to the
types that an overlay flag implies an attached device, that 4000-FFFF is what the
latches select, and *what 0000-3FFF may be* (`LowExplained`): the latched ROM, or the
page of an overlay whose flag is set, except that a Multiface may be hidden by an
Interface 1 that came or went after it. The last part is the strengthening: neither unpaging
a device nor a snapshot load restores the ROM unless one knows which overlays can
be there. Every C function has a lemma (`PageMultifaceGood`, `UnpageInterface1Good`,
`UpdateMemoryMapPlus3Good`...) that it keeps `Good`, and handlers are proved by
composing them, in the order of their calls. Theorems: `TypeCorrect`,
`MemoryFollowsFlags`, `NmiFindsItsHandler`, `SnapshotsSeeTheirRom`,
`PagingLockHolds`, `MultifaceLockoutHolds`, `BothLocksHold`. Assumed: only the constants' types
(`TypesAssumption`, `BanksAssumption`, `BytesAssumption`, `RomsAssumption`).

**MachineMemory_proofs**, of `Assembler`. `EncodeShaped` shows, form by form, that the size of
an instruction depends on what its operands are, never on their values. On that rests
`LinesAlike`: a line that pass 1 took is either refused by pass 2 before it writes, or takes
pass 2 to the same place, if the file of INCBIN is the same and pass 2 has the symbols of pass
1. `LineJumps` gives the bytes of a jump to a label. `AsmInv` says what a build knows at each
of its steps: what a phase works on is what the one before it made (`Staged`), in which
`Nested` relates the files that are open to the part of the flattened document that is read;
every symbol belongs to a line (`Sourced`); every line done in pass 2 begins where its labels
point, ends where the next one begins, and has the displacement of its label (`Listed`); the
tape block is the record of its lines (`Taped`); and pass 1 went through a sequence of
contexts, of which pass 2 is at the same place with the same address (`Trailed`). The last is
the strengthening: `RefusedWritesNothing` compares two passes, and no single state shows what
the first has accepted. It is kept while the file of INCBIN is what it was (`history.steady`).
A label after FFFFh, which keeps the address of the write before it, is told apart by
`exhausted`: no byte can follow before an ORG. Theorems: `AssemblerInvariant`,
`AssemblerTypes`, `IncludesHold`, `LandsHold`, `RefusedHold`. Assumed: `ScaleAssumption` (ROM
below the end of memory, at least one nested file, chunks that are not empty) and
`ProjectsAssumption` (the types of source files; their text, labels and INCLUDE circles are
arbitrary).

**NextDma_proofs.** `IInv` is `TypeOK /\ HeldOnlyByTransfer /\
TransferringOnlyInLoop /\ LoopIsOfItsKind /\ RemainingIsBlock`. Holding the CPU is
set and cleared in several places; that no path leaves it set follows only with
the two flags that say which loop is running, because a byte that the loop itself
writes may have reset or re-enabled the controller. What a byte on the command port
may do is one predicate (a "step" of the controller) that every command, parameter
and base byte is shown to satisfy, so the loops need to know only that. Theorems:
`TypeCorrect`, `CpuNeverHeldForNothing`, `TriggerNeverDeaf`, `WholeBlockMoves`,
`EndOfBlockTrue`, `BlocksMoveWhole`, `HeldTimeNotCharged`, `PointersTellTheCount`. The last is
arithmetic modulo the size of memory: the history counts what an address should have moved
since LOAD, and one more step of either keeps them equal whatever the direction and wherever
the address wraps (`CountedOnce`, `AdvancedOnce`). Assumed: `BaseAssumption` (a byte has at
least two values), `SpeedAssumption`, `ProgramAssumption` (the types of what a
program writes). `BlockBytes` is the closed form of a C loop; that it equals the
loop is an ASSUME of `MCNextDma` which TLC evaluates for every counter and length of
its instance.

**NextSd_proofs.** `IInv` is `TypeOK /\ ResponseWhole /\ StreamInOrder` and that
the data bytes of the packet in the buffer are all the host's (`Uniform`), without which what a packet
leaves on the image is not known to be whole. `Good(card, history)` is its part about one
card; each operator from card to card (`QueueBytes`, `Answer`, `ClearResponse`,
`Dispatch`...) has a lemma that it keeps `Good`, and what `SdVolume` sees of the card
(`Kept`). So every handler is at once shown to keep the invariant and to be a step of
`SdVolume`, or one that it does not see (`StepRefines`). That a response fits an empty queue
is arithmetic on `SizeAssumption`; that it is cut only behind an unread one follows from the
queue's starting over when it is drained. Theorems: `TypeCorrect`, `KeepsItsVolume`
(the refinement), `ResponsesReachHost`. Assumed: `SizeAssumption`, `HostAssumption`.

**NextWifi_proofs.** `IInv` is `TypeOK`, `PayloadFits`, `PacketFits`, `LossIsReported` and
two strengthenings. `RoomKept`: between the critical section that measures the room for a
connection's data and the one that queues it, the room does not shrink, as only
the worker queues received data and the CPU's steps take from the FIFO or clear it.
`ResetSeen`: a pass that began before a reset by the CPU runs with
`reset_requested` set, until the pass that takes it. The operators on the worker keep
`Good(worker)`, one lemma each. Theorems: `TypeCorrect`, `NothingCut`, `ResetsComplete`. Assumed:
`IdsAssumption` (finitely many connections), `SizeAssumption`, `HostAssumption`.

**FrameLoops_proofs**, of `NextFrame`. `IInv` says of the machine that its position and interrupt fit their
lengths at the speed it has (`Sound`), and beside what the properties say: a count that runs
has interrupted (`Raised`); a line interrupt that has come is over or ends behind its window
(`Spent`, in `Once`), so that it cannot begin again; the call aims at the end of the frame
it is in (`Aimed`). What a register write may do is one predicate, `Moved`, which
every write is shown to satisfy; the tick is proved from it (`Ticks`), a lemma per part of the
invariant. The arithmetic of the scalings (`ScaledDown`, `ScaledUp`, `ScaledSum`) is
what keeps `Spent` through a change of speed: the position is rounded down and the count
up, and their sum does not fall short. Theorems: `TypeCorrect`, `TimeIsKept`,
`FramesInterruptOnce`. Assumed: `FrameAssumption` (an interrupt lasts two T-states
at least; 32 in the code), `MultiplierAssumption` (speeds are among 1, 2, 4 and 8),
`HostAssumption`.

**FrameLoops_proofs**, of `Debugger`. `DebugInv` has the types and a part for each property.
`GoalsEnd` adds to `RunToEnds` that within a slice a point or goal that was hit has ended the
goal already, as the pause comes only behind the slice. `Warned` says that in a frame with the
window open the hook runs when any point is enabled, and that an instruction about to begin at
a breakpoint has been stopped at or the hook has asked for it; `BreakpointsStop` speaks of the
moment of execution and says nothing of the hook that came before. `Passing` says what the one
exempted arrival can be: a skip flag is set only for the address last gone on from, and
is gone with the first arrival there, so that no other breakpoint and no second arrival is passed. `Whole` says how far a step
has come: in its instruction, with ticks enough left for the rest of it and one stall of the
bus, or behind it with the stop asked for. Conditions have any length and are reduced by
recursive functions over their operators; that such a function has values, and that each value
is of its type, are `IterationExists` and `IterationKeeps`, proved by the least
counterexample. A frame's slices are separate steps of the specification, so that no fold
remains. Theorems: `DebuggerInvariant`, `DebuggerTypeCorrect`, `RunToEndsAlways`,
`StopsAtBreakpoints`, `OneInstructionAStep`, and of the operators `EvaluateIs` (a condition of
any operands has a result) and `MatchIs` (looking for a point changes hit counts alone).
Assumed: `ProgramAssumption` and `InputsAssumption` (the types of the program and of what the
user types), `LengthAssumption` (a frame is longer than any instruction that is held).

**NextMemory_proofs.** That every access lands inside its device, and where the address says,
is a lemma per mapping (`CellFits`): divMMC, Layer 2, the alternate ROM, MMU slots, in the
order in which the code tries them. It also gives that a place has the parity of its address,
so that two bytes pushed one after the other never share a place (`PlacesDiffer`). `Latched`
says that the machine's copies of the paging latches are what its registers say, which each of
the writers must keep for the other. `NmiInvariant` is `Pushing /\ Returning`: between the
acceptance of a stackless NMI and its handler, memory is what it was with the bytes pushed so
far over it and the notes hold what they cover; between the handler and its return, memory is
as before the NMI if it was not written to meanwhile, and NR C2/C3 hold the address that the
RETN to come reads. `NmiReturns` alone is not inductive, as it says nothing before the handler begins.
Theorems: `TypeCorrect`, `AccessesLandRight`, `LatchesAgreeAlways`, `NmiReturnsRight`. Assumed:
`UsesAssumption` (the types of what a program may do).

**Plus3Fdc_proofs.** `IInv` has the types of the controller's fields (`Typed`), that what is left of a
transfer is within the buffer and the sector found (`Within`), that the disk in the drive
and the file behind it are images (`IsDisk`, `IsImage`), and that without unsaved changes both are the same
(`SavedOrDirty`). Every operator from controller to controller has a lemma for `Typed` and one for `Within`.
`SectorsInTurn` follows from these alone. `MatchedSector` and `WritesKept` need more, as the
callbacks find a sector a second time by R and N alone: `NumbersTell` says that on a side of a
track these name one sector, which is what the comment at disk.c:59-63 takes for granted and what a disk
with twin sectors breaks (above). `WritesKept` further needs that the buffer is full of the
host's bytes when a sector is stored, and that every sector behind the first written one has been stored
(`Writing`). Theorems: `TypeCorrect`, `SectorsTakenInTurn`; with `NumbersTellSectors` in the
statement, `ReadsTheSectorFound` and `WritesAreKept`. Assumed: `SizeAssumption`, `ProgramAssumption` (the
types of what a program sends).

**FrontEnd_proofs.** `IInv` is `FlagsMatchJobs`, that every job, with its thread or in the queue, is
one a handler can complete, and `IsApp(app)`: the types, a tape whose position is on it
(`IsTape`), and that a tape which waits has a rest of its command to come (`Waits`). A handler is a
composition of operators from application to application, so each operator has one lemma: it
keeps `IsApp`, and it is `Steady`, that is, it keeps the tape in step (`InStep`) and the keys
released (`Released`) if they were. Three are not: the cartridge, the rewind and the failing
snapshot, which are the exemptions of `KeepsStep` and `KeepsKeys`. `tape_input_level`
is a recursive function in the model (`Ends`); that it has values, and natural ones, is proved by
the least counterexample (`EndsAre`).
`IsTape` also holds the strengthening of `PulsesKept`, which says only how far a duration
is off and is not inductive: two roundings could add up. In the clock of a 48K a pulse is exact, and
in that of a 128K it is the nearest to it (`RightPulse`), because the way back from the faster
clock, which is not faster by half, rounds to where it came from (`PulseScaled`); a pause
has been rounded up once and is off by the one tick for good (`RightPause`). With a 128K
slower than the 48K this would fail, and `ClockAssumption` says so.
Theorems: `TypeCorrect`, `PulsesKeepTheirLength`, `NothingWaitsForever`, `TapeAndKeysKept`.
Assumed: `ClockAssumption`; `FramesAssumption` (the gap between two keys is not longer than the boot,
as one counter counts both: 6 and 150 frames at main.c:47); `UsesAssumption` (the types of what a
user does).

**Only model-checked.** `CpuResumes` and `TxTaken`, as liveness is out of the prover's reach,
with ENABLED and induction over recursive definitions: that `BlockBytes` of `NextDma` is the
value of its loop is an assumption TLC evaluates. Every other property of a passing run is
stated by a theorem. No module with a theorem declares a RECURSIVE operator: the models use
recursive functions, of which a proof needs only their first value and their step.

## Not modelled

Beyond the components above:

* DMA: bus_delay, which nothing sets, the `stalled` flag with it, and the values transferred.
* SD: the high_capacity mode, which nothing turns on, the content of registers and CRCs.
* Wi-Fi: texts and addresses, and the stored UART registers.
* Floppy: parsing of DSK files; the stored copies of a weak sector count as one.
* Paging: registers and RAM of snapshots.
* Next memory: the ports and registers of sound, sprites, palettes, clip windows, tilemap and
  clock, which select no memory.
* Debugger: disassembly, the memory view, symbols, and its SAVE and LOAD of memory to files.
* Assembler: values of opcodes, the syntax of numbers and texts, the reformatting of lines.
* Front end: loading of NEX and SNX files, joystick and mouse, sound and video, menus,
  settings and confirmations; the decoding of tape files beyond the rounding of
  durations (a pause is one segment, which tape.c:590 makes of two, and neighbours of one level are not
  joined as in tape.c:525), signal levels, and the latch of a key that is released within one scan (kbd.h).

No property speaks of what the code does where no sentence of the repository says what it
should: the signed age of a byte in the floppy controller (zx.h:1189, a hazard without a
property), a tape that stands still when the 32-bit tick counter wraps, networking switched
within one pass of the Wi-Fi (next_wifi.c:747), connections served in order of their ids (669),
and interrupt registers that survive a reset (next_machine.c:751).

## What is left

Modelled, in this order: A `ZxPaging` with proofs, B `NextDma` with proofs, C `NextSd`
against `SdVolume` with proofs, D `NextWifi` with proofs, E `NextFrame` with proofs, F `Plus3Disk` and
`Plus3Fdc` with proofs, G `TapePlayer` and `FrontEnd` with proofs, H `Debugger` with proofs, I `NextMemory`
with proofs, J `Assembler` with proofs.

What a next step would take, most important first:

1. `NextCopper` (next_copper.c and next_machine.c:2989-3031), composed with
   `NextFrame`'s Render; a MOVE to NR 02 and a WAIT that never comes. `NextMemory` has its
   register writes already, as writes inside an instruction.
2. `NextRtc` (next_rtc.c), I2C edges in every order.
3. `Microdrive` (zx.h:1785-1993, microdrive.c), then the mouse's interrupt queue (zx.h:597-669,
   2643-2686) and snapshots' all-or-nothing rule.

Theorems worth proving next: those of the three modules above. What is modelled has its safety
properties proved; `CpuResumes` and `TxTaken` stay with TLC.

## Running

    tlc -config ZxPaging.cfg MCZxPaging      # and likewise for the other runs
    tlapm NextDma_proofs.tla
    tlapm NextSd_proofs.tla
    tlapm NextWifi_proofs.tla
    tlapm FrameLoops_proofs.tla
    tlapm NextMemory_proofs.tla
    tlapm Plus3Fdc_proofs.tla
    tlapm FrontEnd_proofs.tla
    tlapm MachineMemory_proofs.tla

With two workers a run takes between half a minute and two and a half; the
proofs take several minutes each, MachineMemory_proofs about twenty.
