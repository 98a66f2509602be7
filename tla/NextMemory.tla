----------------------------- MODULE NextMemory -----------------------------
(* Memory of the ZX Spectrum Next (src/src/next_machine.c): the MMU, the    *)
(* legacy paging ports over it, config mode, Layer 2 mapping, the alternate *)
(* ROM, divMMC automap, and the Multiface with its NMI.                     *)
(*                                                                         *)
(* One step is one bus cycle of the CPU (opcode fetch, read, write, IN,     *)
(* OUT), a NEXTREG, a MOVE of the Copper or a load by the front end.  The   *)
(* program is an environment: it fetches where it likes and what it likes.  *)
(* Registers are numbers of eight bits as in the code; of memory, only what *)
(* has been written is kept.                                               *)
EXTENDS Integers, Sequences, FiniteSets

CONSTANT Uses
\* Uses of the machine, each a set of inputs: ports written and read,
\* registers written, addresses fetched, bytes written, stack pointers, and
\* the writes a program makes.

Byte == 0..(2^8 - 1)
Address == 0..(2^16 - 1)
ASSUME UsesAssumption ==
  \A u \in Uses :
    /\ \A w \in u.outs : w[2] \in Byte
    /\ \A w \in u.registers : w[1] \in Byte /\ w[2] \in Byte
    /\ \A b \in u.bytes : b[1] \in Address /\ b[2] \in Byte
    /\ u.fetches \subseteq Address /\ u.stacks \subseteq Address /\ u.probes \subseteq Address
    /\ \A f \in u.files : f.value \in Byte
    /\ u.writes \in Nat

VARIABLES
  use,      \* which of Uses this is; does not change
  machine,  \* NextMachine but for the next two
  memory,   \* bytes that are not zero, by where they are
  cpu,      \* phase of the instruction, SP, the NMI latch
  history   \* for the properties

vars == <<use, machine, memory, cpu, history>>

Bits(v, low, n) == (v \div 2^low) % 2^n
Bit(v, i) == Bits(v, i, 1) = 1
WithBits(v, low, n, x) == v + ((x % 2^n) - Bits(v, low, n)) * 2^low

Up(sp, n) == (sp + n) % 65536

Slots == 0..7
Slot(a) == a \div 8192
Rom == 255                      \* mmu[0..1]: the ROM that rom_bank selects
NextRegs == {2, 3, 4, 8, 10, 18, 19, 140, 142, 105, 184, 185, 186, 187, 192, 194, 195}
Note == [address: Address, old: Byte]
NextMachine ==
  [ mmu: [Slots -> Byte], p7ffd: Byte, p1ffd: Byte, pdffd: 0..15, locked: BOOLEAN,
    rom_bank: 0..3, config_mode: BOOLEAN, config_page: Byte, loader: BOOLEAN,
    reset_type: 0..4, layer2: Byte, layer2_offset: 0..7, divmmc: Byte,
    automap: BOOLEAN, pending: BOOLEAN, paged: BOOLEAN, nmi_active: BOOLEAN,
    invisible: BOOLEAN, request: BOOLEAN, ed: BOOLEAN, stackless: BOOLEAN,
    retn_reads: 0..2, writes: Seq(Note),
    nr: [NextRegs -> Byte] ]

-----------------------------------------------------------------------------
(* Where an address is: a device and an offset in it.                      *)

Nowhere == [device |-> "none", at |-> 0]
In(device, at) == [device |-> device, at |-> at]
Sizes == [ram |-> 2^21, rom |-> 2^16, divrom |-> 2^13, divram |-> 2^17, alt |-> 2^15,
          multiface |-> 2^14, loader |-> 2^13]

Mapped(m, a) == In("ram", m.mmu[Slot(a)] * 8192 + (a % 8192))

\* Mutant: banks above 7Fh wrap into RAM pages above FFh.
Layer2_Any(m, a) ==
  LET segment == Bits(m.layer2, 6, 2)
      base == m.nr[IF Bit(m.layer2, 3) THEN 19 ELSE 18] % 128
      bank == base + (IF segment = 3 THEN a \div 16384 ELSE segment) + m.layer2_offset
  IN  IF (a < 16384 \/ segment = 3) /\ a < 49152 THEN In("ram", bank * 16384 + (a % 16384)) ELSE Nowhere

\* next_layer2_redirect
Layer2(m, a) ==
  LET segment == Bits(m.layer2, 6, 2)
      base == m.nr[IF Bit(m.layer2, 3) THEN 19 ELSE 18] % 128
      bank == base + (IF segment = 3 THEN a \div 16384 ELSE segment) + m.layer2_offset
  IN  IF (a < 16384 \/ segment = 3) /\ a < 49152 /\ bank < 128
      THEN In("ram", bank * 16384 + (a % 16384)) ELSE Nowhere
Layer2Maps(m, a, reading) == Bit(m.layer2, IF reading THEN 2 ELSE 0) /\ Layer2(m, a) # Nowhere

DivmmcOn(m) == ~m.loader /\ (Bit(m.divmmc, 7) \/ m.automap)
Divmmc(m, a, reading) ==
  IF a >= 8192 THEN In("divram", (m.divmmc % 16) * 8192 + (a % 8192))
  ELSE IF ~reading THEN Nowhere
  ELSE IF Bit(m.divmmc, 6) THEN In("divram", 3 * 8192 + a)
  ELSE In("divrom", a)

Configured(m, a) ==
  LET p == m.config_page
  IN  IF p \in 0..3 THEN In("rom", p * 16384 + a)
      ELSE IF p = 4 /\ a < 8192 THEN In("divrom", a)
      ELSE IF p = 5 THEN In("multiface", a)
      ELSE IF p \in 6..7 THEN In("alt", (p - 6) * 16384 + a)
      ELSE IF p \in 8..15 THEN In("divram", (p - 8) * 16384 + a)
      ELSE IF p \in 16..127 THEN In("ram", (p - 16) * 16384 + a)
      ELSE Nowhere

\* NR 8C: on for reading or for writing, and which of the two ROMs.
AlternateOn(m, reading) == Bits(m.nr[140], 6, 2) = IF reading THEN 2 ELSE 3
Alternate(m, a) ==
  LET bank == IF Bit(m.nr[140], 5) THEN 1 ELSE IF Bit(m.nr[140], 4) THEN 0 ELSE m.rom_bank % 2
  IN  In("alt", bank * 16384 + a)

\* next_machine_read_memory and next_machine_write_memory below 16K: the
\* first that answers.  A config page above 7Fh answers writes alone.
Low(m, a, reading) ==
  IF reading /\ m.loader /\ a < 8192 THEN In("loader", a)
  ELSE IF m.paged THEN IF reading \/ a >= 8192 THEN In("multiface", a) ELSE Nowhere
  ELSE IF DivmmcOn(m) THEN Divmmc(m, a, reading)
  ELSE IF m.config_mode /\ (m.config_page < 128 \/ ~reading) THEN Configured(m, a)
  ELSE IF Layer2Maps(m, a, reading) THEN Layer2(m, a)
  ELSE IF m.mmu[Slot(a)] = Rom
  THEN IF AlternateOn(m, reading) THEN Alternate(m, a)
       ELSE IF reading THEN In("rom", m.rom_bank * 16384 + a) ELSE Nowhere
  ELSE Mapped(m, a)

\* Above 16K only a Layer 2 mapping of 48K overrides the MMU.
Cell(m, a, reading) ==
  IF a < 16384 THEN Low(m, a, reading)
  ELSE IF Layer2Maps(m, a, reading) THEN Layer2(m, a)
  ELSE Mapped(m, a)

Held(mem, c) == IF c = Nowhere THEN 255 ELSE IF c \in DOMAIN mem THEN mem[c] ELSE 0
Put(mem, c, v) ==
  IF c = Nowhere THEN mem
  ELSE [x \in (DOMAIN mem \cup {c}) \ (IF v = 0 THEN {c} ELSE {}) |-> IF x = c THEN v ELSE mem[x]]

Read(m, mem, a)     == Held(mem, Cell(m, a, TRUE))
Write(m, mem, a, v) == Put(mem, Cell(m, a, FALSE), v)

-----------------------------------------------------------------------------
(* Paging by port.                                                         *)

ResetMmu == [s \in Slots |-> <<Rom, Rom, 10, 11, 4, 5, 0, 1>>[s + 1]]
Bank(dffd, p7ffd) == (dffd % 16) * 8 + (p7ffd % 8)
WithBank(mmu, bank) == [mmu EXCEPT ![6] = (bank * 2) % 256, ![7] = (bank * 2 + 1) % 256]
AllRam(p1ffd) ==
  [s \in Slots |-> <<<<0, 1, 2, 3>>, <<4, 5, 6, 7>>, <<4, 5, 6, 3>>, <<4, 7, 6, 3>>>>
                     [Bits(p1ffd, 1, 2) + 1][(s \div 2) + 1] * 2 + (s % 2)]
RomBank(p1ffd, p7ffd) == Bits(p1ffd, 2, 1) * 2 + Bits(p7ffd, 4, 1)

\* What the legacy ports alone make of memory.
Legacy(m) ==
  IF Bit(m.p1ffd, 0) THEN AllRam(m.p1ffd) ELSE WithBank(ResetMmu, Bank(m.pdffd, m.p7ffd))

Write7ffd(m, v) ==
  IF m.locked THEN m
  ELSE [m EXCEPT !.p7ffd = v, !.rom_bank = RomBank(m.p1ffd, v), !.locked = Bit(v, 5),
                 !.mmu = IF Bit(m.p1ffd, 0) THEN @ ELSE WithBank(@, Bank(m.pdffd, v))]
\* Mutant: the latch keeps all eight bits of the port.
WriteDffd_Wide(m, v) ==
  IF m.locked THEN m
  ELSE [m EXCEPT !.pdffd = v,
                 !.mmu = IF Bit(m.p1ffd, 0) THEN @ ELSE WithBank(@, Bank(v, m.p7ffd))]
WriteDffd(m, v) ==
  IF m.locked THEN m
  ELSE [m EXCEPT !.pdffd = v % 16,
                 !.mmu = IF Bit(m.p1ffd, 0) THEN @ ELSE WithBank(@, Bank(v, m.p7ffd))]

\* Mutant: all-RAM paging is left with the slots it set.
Write1ffd_Keeps(m, v) ==
  IF m.locked THEN m
  ELSE [m EXCEPT !.p1ffd = v, !.rom_bank = RomBank(v, m.p7ffd),
                 !.mmu = IF Bit(v, 0) THEN AllRam(v) ELSE @]
Write1ffd(m, v) ==
  IF m.locked THEN m
  ELSE [m EXCEPT !.p1ffd = v, !.rom_bank = RomBank(v, m.p7ffd),
                 !.mmu = IF Bit(v, 0) THEN AllRam(v)
                         ELSE IF Bit(m.p1ffd, 0) THEN WithBank(ResetMmu, Bank(m.pdffd, m.p7ffd))
                         ELSE @]

\* NR 8E.
Mapping(m) ==
  Bits(m.pdffd, 0, 1) * 128 + (m.p7ffd % 8) * 16 + 8 + Bits(m.p1ffd, 0, 1) * 4
    + Bits(m.p1ffd, 2, 1) * 2 + Bits(m.p7ffd, 4, 1)
WriteMapping(m, v) ==
  LET n == [m EXCEPT !.rom_bank = v % 4,
                     !.p1ffd = WithBits(@, 0, 3, Bits(v, 1, 1) * 4 + Bits(v, 0, 1) * 2 + Bits(v, 2, 1)),
                     !.p7ffd = IF Bit(v, 2) THEN @ ELSE WithBits(@, 4, 1, v)]
      bank == Bits(v, 4, 3) + Bits(v, 7, 1) * 8
  IN  IF ~Bit(v, 3) THEN n
      ELSE [n EXCEPT !.p7ffd = WithBits(@, 0, 3, bank), !.pdffd = Bits(v, 7, 1),
                     !.mmu = WithBank(@, bank)]

-----------------------------------------------------------------------------
(* Registers.                                                              *)

\* next_multiface_reset
MultifaceReset(m) ==
  [m EXCEPT !.paged = FALSE, !.nmi_active = FALSE, !.invisible = TRUE, !.request = FALSE,
            !.ed = FALSE, !.stackless = FALSE, !.retn_reads = 0, !.writes = <<>>]

PowerOn ==
  [mmu |-> ResetMmu, p7ffd |-> 0, p1ffd |-> 0, pdffd |-> 0, locked |-> FALSE, rom_bank |-> 0,
   config_mode |-> TRUE, config_page |-> 0, loader |-> TRUE, reset_type |-> 4,
   layer2 |-> 0, layer2_offset |-> 0, divmmc |-> 0, automap |-> FALSE, pending |-> FALSE,
   paged |-> FALSE, nmi_active |-> FALSE, invisible |-> TRUE, request |-> FALSE,
   ed |-> FALSE, stackless |-> FALSE, retn_reads |-> 0, writes |-> <<>>,
   nr |-> [[r \in NextRegs |-> 0] EXCEPT ![3] = 178, ![8] = 16, ![10] = 16, ![18] = 8,
                                        ![19] = 11, ![184] = 131, ![187] = 205]]

\* next_soft_reset, and NR 02 before it.
SoftReset(m, v) ==
  LET type == m.reset_type \div 2
      nr == [m.nr EXCEPT ![2] = Bits(v, 7, 1) * 128 + (type % 4), ![140] = (@ % 16) * 17]
  IN  [MultifaceReset(m) EXCEPT
         !.reset_type = type, !.mmu = ResetMmu, !.p7ffd = 0, !.p1ffd = 0, !.pdffd = 0,
         !.locked = FALSE, !.rom_bank = 0, !.automap = FALSE, !.pending = FALSE, !.nr = nr]

\* NR 02, neither reset: a request for an NMI, unless one is being served.
RequestNmi(m, v) ==
  LET asks == Bit(v, 3) /\ ~m.nmi_active
      flag == Bit(v, 3) /\ (asks \/ Bit(m.nr[2], 3))
      n == [m EXCEPT !.nr[2] = Bits(v, 7, 1) * 128 + (IF flag THEN 8 ELSE 0) + (m.reset_type % 4)]
  IN  IF asks THEN [n EXCEPT !.nmi_active = TRUE, !.invisible = FALSE, !.request = TRUE,
                             !.writes = <<>>]
      ELSE n

\* NR 03.
WriteType(m, v) ==
  LET type == v % 8
  IN  [m EXCEPT !.loader = FALSE, !.nr[3] = IF type = 0 THEN v + (@ % 8) ELSE v,
                !.config_mode = type = 7 \/ (type = 0 /\ @)]

Resets(r, v) == r = 2 /\ v % 4 # 0

\* next_machine_write_nextreg
WriteRegister(m, r, v) ==
  LET n == [m EXCEPT !.nr = [x \in NextRegs |-> IF x = r THEN v ELSE @[x]]]
  IN  IF r = 2
      THEN IF Bit(v, 1) THEN PowerOn ELSE IF Bit(v, 0) THEN SoftReset(m, v) ELSE RequestNmi(m, v)
      ELSE IF r = 3 THEN WriteType(m, v)
      ELSE IF r = 4 /\ m.config_mode THEN [n EXCEPT !.config_page = v]
      ELSE IF r = 8 /\ Bit(v, 7)
      THEN [n EXCEPT !.nr[8] = v % 128, !.locked = FALSE, !.p7ffd = WithBits(@, 5, 1, 0)]
      ELSE IF r \in 80..87 THEN [m EXCEPT !.mmu[r - 80] = v]
      ELSE IF r = 105 THEN [n EXCEPT !.p7ffd = WithBits(@, 3, 1, Bits(v, 6, 1))]
      ELSE IF r = 142 THEN WriteMapping(n, v)
      ELSE n

\* Ports of the Multiface, by its model in NR 0A.
EnablePort(m)  == <<"3f", "bf", "9f", "9f">>[Bits(m.nr[10], 6, 2) + 1]
DisablePort(m) == <<"bf", "3f", "1f", "1f">>[Bits(m.nr[10], 6, 2) + 1]

\* next_machine_read_port
ReadPort(m, port) ==
  IF port = DisablePort(m) THEN [m EXCEPT !.paged = FALSE]
  ELSE IF port = EnablePort(m) /\ ~m.invisible THEN [m EXCEPT !.paged = TRUE]
  ELSE m

\* next_machine_write_port
WritePort(m, port, v) ==
  IF port \in {EnablePort(m), DisablePort(m)} THEN [m EXCEPT !.invisible = TRUE]
  ELSE IF port = "7ffd" THEN Write7ffd(m, v)
  ELSE IF port = "1ffd" THEN Write1ffd(m, v)
  ELSE IF port = "dffd" THEN WriteDffd(m, v)
  ELSE IF port = "e3" THEN [m EXCEPT !.divmmc = v]
  ELSE IF port = "123b"
  THEN IF Bit(v, 4) THEN [m EXCEPT !.layer2_offset = v % 8] ELSE [m EXCEPT !.layer2 = v]
  ELSE m

-----------------------------------------------------------------------------
(* Opcode fetches.                                                         *)

Watches(m) == ~m.loader /\ ~m.paged /\ Bit(m.nr[10], 4)
Rom3(m) == ~m.config_mode /\ m.rom_bank = 3
EntryPoint(m, a) ==
  /\ (a % 8) = 0 /\ a <= 56
  /\ LET i == a \div 8 IN Bit(m.nr[184], i) /\ (Bit(m.nr[185], i) \/ Rom3(m))
TapeTrap(m, a) ==
  /\ Rom3(m)
  /\ \/ a = 1222 /\ Bit(m.nr[187], 2)
     \/ a = 1378 /\ Bit(m.nr[187], 3)
     \/ a = 1239 /\ Bit(m.nr[187], 4)
     \/ a = 1386 /\ Bit(m.nr[187], 5)
Instant(m, a) ==
  \/ EntryPoint(m, a) /\ Bit(m.nr[186], a \div 8)
  \/ Rom3(m) /\ a \in 15616..15871 /\ Bit(m.nr[187], 7)

\* divMMC, before the byte is read: what was armed by the fetch before pages
\* in now, and an entry point arms it or pages it in.
Automap(m, a) ==
  IF ~Watches(m) THEN m
  ELSE [m EXCEPT !.automap = @ \/ m.pending \/ Instant(m, a),
                 !.pending = ~Instant(m, a) /\ (EntryPoint(m, a) \/ TapeTrap(m, a))]

EntersMultiface(m, a) == a = 102 /\ m.nmi_active /\ ~m.paged

\* next_nmi_acknowledged: the return address from the stack to NR C2 and C3,
\* and, stackless, what it overwrote back to the stack.
Pushed(m, sp) ==
  Len(m.writes) = 2 /\ m.writes[1].address = Up(sp, 1) /\ m.writes[2].address = sp
Acknowledged(m, mem, sp) ==
  LET nr == [m.nr EXCEPT ![194] = Read(m, mem, sp), ![195] = Read(m, mem, Up(sp, 1))]
  IN  [m EXCEPT !.nr = nr, !.stackless = @ \/ Bit(m.nr[192], 3), !.writes = <<>>, !.paged = TRUE]

\* Mutant: each byte of the stack gets what the other one held.
Restored_Swapped(m, mem, sp) ==
  IF ~(Bit(m.nr[192], 3) /\ Pushed(m, sp)) THEN mem
  ELSE Write(m, Write(m, mem, sp, m.writes[1].old), Up(sp, 1), m.writes[2].old)
Restored(m, mem, sp) ==
  IF ~(Bit(m.nr[192], 3) /\ Pushed(m, sp)) THEN mem
  ELSE Write(m, Write(m, mem, sp, m.writes[2].old), Up(sp, 1), m.writes[1].old)

\* RETN ends the NMI; a stackless one pops NR C2 and C3.
Opcode(m, opcode) ==
  LET retn == m.ed /\ opcode = "retn"
      stackless == retn /\ m.stackless
      leaves == retn /\ m.nmi_active
  IN  [m EXCEPT !.ed = ~@ /\ opcode = "ed",
                !.stackless = @ /\ ~stackless, !.retn_reads = IF stackless THEN 2 ELSE @,
                !.nmi_active = @ /\ ~leaves, !.paged = @ /\ ~leaves]

\* The exit points of divMMC, after it.
Exits(m, a) == IF a \in 8184..8191 THEN [m EXCEPT !.automap = FALSE, !.pending = FALSE] ELSE m

NoNmi == [pc |-> -1, memory |-> <<>>, cells |-> <<>>, active |-> FALSE, kept |-> FALSE]

\* Where a byte pushed at a ends, if it is read from there, too.
Landed(m, a) == IF Cell(m, a, TRUE) = Cell(m, a, FALSE) THEN Cell(m, a, FALSE) ELSE Nowhere

\* An M1 cycle of next_machine_tick_inline.
Cycle(a, opcode) ==
  LET m == Automap(machine, a)
      enters == EntersMultiface(m, a)
      n == IF enters THEN Acknowledged(m, memory, cpu.sp) ELSE m
  IN  /\ machine' = Exits(Opcode(n, opcode), a)
      /\ memory' = IF enters THEN Restored(m, memory, cpu.sp) ELSE memory

\* One whose opcode is executed.  An NMI is kept if its two bytes are still
\* where they were pushed, unless a RETN before it was accepted had ended it
\* (active): what it pushes is not noted.
M1(a, opcode) ==
  LET m == Automap(machine, a)
      kept == /\ cpu.phase = "handler" /\ history.nmi.active /\ Bit(m.nr[192], 3)
              /\ Nowhere \notin {history.nmi.cells[1], history.nmi.cells[2]}
              /\ <<Landed(m, Up(cpu.sp, 1)), Landed(m, cpu.sp)>> = history.nmi.cells
  IN  /\ Cycle(a, opcode)
      /\ history' = IF EntersMultiface(m, a) THEN [history EXCEPT !.nmi.kept = kept] ELSE history

Goto(phase) == cpu' = [cpu EXCEPT !.phase = phase]

\* A request is a pulse of a tick, at the next one, which may also be the
\* first of the next instruction.  A CPU that the DMA holds does not see it.
Latch ==
  /\ machine.request
  /\ machine' = [machine EXCEPT !.request = FALSE]
  /\ cpu' = [cpu EXCEPT !.nmi = @ \/ cpu.phase # "held"]
  /\ UNCHANGED <<use, memory, history>>
At(phases) == cpu.phase \in phases /\ ~machine.request

Fetch(a) ==
  /\ cpu.phase = "ready" /\ ~cpu.nmi
  /\ \E opcode \in {"ed", "other"} :
       M1(a, opcode) /\ Goto(IF opcode = "ed" THEN "ed" ELSE "body")
  /\ UNCHANGED use
\* Bound: a program returns to one of the stacks of the use.
FetchSecond(a) ==
  /\ At({"ed"})
  /\ \E opcode \in {"retn", "other"} :
       /\ opcode = "retn" => Up(cpu.sp, 2) \in use.stacks
       /\ M1(a, opcode) /\ Goto(IF opcode = "retn" THEN "low" ELSE "body")
  /\ UNCHANGED use

\* The Z80 reads the opcode at PC once more, and drops it, then pushes PC.  At
\* 0066h that fetch may be the one that pages the Multiface in.
Accept(pc) ==
  /\ At({"ready"}) /\ cpu.nmi
  /\ \E opcode \in {"ed", "other"} : Cycle(pc, opcode)
  /\ cpu' = [cpu EXCEPT !.phase = "high", !.nmi = FALSE]
  /\ history' = [history EXCEPT !.nmi = [NoNmi EXCEPT !.pc = pc, !.memory = memory',
                                                         !.active = machine.nmi_active]]
  /\ UNCHANGED use

\* A write cycle: until the Multiface is in, the last two are remembered
\* with what they overwrite.
Noted(m, a) ==
  IF ~(m.nmi_active /\ ~m.paged) THEN m
  ELSE LET list == Append(m.writes, [address |-> a, old |-> Read(m, memory, a)])
       IN  [m EXCEPT !.writes = SubSeq(list, IF Len(list) > 2 THEN 2 ELSE 1, Len(list))]
Stores(a, v) == machine' = Noted(machine, a) /\ memory' = Write(machine, memory, a, v)

Push ==
  LET a == Up(cpu.sp, -1)
      high == cpu.phase = "high"
  IN  /\ At({"high", "pushing"})
      /\ Stores(a, IF high THEN history.nmi.pc \div 256 ELSE history.nmi.pc % 256)
      /\ cpu' = [cpu EXCEPT !.sp = a, !.phase = IF high THEN "pushing" ELSE "handler"]
      /\ history' = [history EXCEPT !.nmi.cells = Append(@, Landed(machine, a))]
      /\ UNCHANGED use

\* The opcode at 0066h: taken not to be one that ends in RETN's second byte.
Handler == At({"handler"}) /\ M1(102, "other") /\ Goto("body") /\ UNCHANGED use

\* RETN: a stackless one reads NR C2 and C3.
Popped ==
  IF machine.retn_reads > 0 THEN machine.nr[IF machine.retn_reads = 2 THEN 194 ELSE 195]
  ELSE Read(machine, memory, cpu.sp)
Pop ==
  /\ At({"low", "popping"})
  /\ machine' = [machine EXCEPT !.retn_reads = IF @ > 0 THEN @ - 1 ELSE 0]
  /\ cpu' = [cpu EXCEPT !.sp = Up(@, 1), !.phase = IF @ = "low" THEN "popping" ELSE "ready"]
  /\ history' = IF cpu.phase = "popping" THEN [history EXCEPT !.nmi = NoNmi] ELSE history
  /\ UNCHANGED <<use, memory>>

-----------------------------------------------------------------------------
(* The body of an instruction, and others who write registers.             *)

Body == At({"body"})
Finish == cpu.phase = "body" /\ Goto("ready") /\ UNCHANGED <<use, machine, memory, history>>

\* A continuous transfer of the DMA holds the CPU, and lets it go.
Hold    == Body /\ use.copper /\ Goto("held") /\ UNCHANGED <<use, machine, memory, history>>
Release == cpu.phase = "held" /\ Goto("body") /\ UNCHANGED <<use, machine, memory, history>>

WriteByte(a, v) ==
  /\ Body /\ history.writes < use.writes
  /\ Stores(a, v)
  /\ history' = [history EXCEPT !.writes = @ + 1]
  /\ UNCHANGED <<use, cpu>>

LoadSp(sp) == Body /\ cpu' = [cpu EXCEPT !.sp = sp] /\ UNCHANGED <<use, machine, memory, history>>

InPort(port) ==
  Body /\ machine' = ReadPort(machine, port) /\ UNCHANGED <<use, memory, cpu, history>>

\* Whether the slots are still those that the legacy ports alone would set.
Outed(m, port, v) ==
  history.legacy \/ (port = "1ffd" /\ ~m.locked /\ (Bit(v, 0) \/ Bit(m.p1ffd, 0)))
OutPort(port, v) ==
  /\ Body
  /\ machine' = WritePort(machine, port, v)
  /\ history' = [history EXCEPT !.legacy = Outed(machine, port, v)]
  /\ UNCHANGED <<use, memory, cpu>>

Registered(r, v) ==
  \/ Resets(r, v)
  \/ /\ history.legacy /\ r \notin 80..87
     /\ r = 142 => ~Bit(machine.p1ffd, 0) /\ ~Bit(v, 2)
Recorded(r, v) ==
  LET kept == history.nmi.kept /\ r \notin {194, 195}
  IN  [history EXCEPT !.legacy = Registered(r, v),
                      !.nmi = IF Resets(r, v) THEN NoNmi ELSE [@ EXCEPT !.kept = kept]]
\* z80_reset: a hard one loses SP, too.
Restarted(sp) == [phase |-> "ready", sp |-> sp, nmi |-> FALSE]

\* By NEXTREG or OUT, or by the Copper, whose lines run between two ticks,
\* wherever in an instruction the frame ends.
\* Bound: an NMI is asked for on one of the stacks of the use.
Register(r, v) ==
  /\ Body \/ (use.copper /\ r < 128)
  /\ r = 2 /\ Bit(v, 3) => cpu.phase \in {"low", "popping"} \/ cpu.sp \in use.stacks
  /\ machine' = WriteRegister(machine, r, v)
  /\ cpu' = IF ~Resets(r, v) THEN cpu ELSE Restarted(IF Bit(v, 1) THEN 65535 ELSE cpu.sp)
  /\ history' = Recorded(r, v)
  /\ UNCHANGED <<use, memory>>

-----------------------------------------------------------------------------
(* The front end.                                                          *)

\* What a file loads counts as zeros.
Without(mem, pages) ==
  [c \in {x \in DOMAIN mem : ~(x.device = "ram" /\ x.at \div 8192 \in pages)} |-> mem[c]]

Loaded(legacy) == [history EXCEPT !.legacy = legacy, !.nmi = NoNmi]

\* next_machine_load_snx_data: of 128K with its 7FFD, or of 48K.  It comes
\* when NextZXOS waits for a command, outside any NMI.
Snx(m, v, is128) ==
  LET bank == IF is128 THEN v % 8 ELSE 0
      p7ffd == IF is128 THEN v ELSE 16
  IN  [m EXCEPT !.mmu = WithBank(ResetMmu, bank), !.p7ffd = p7ffd, !.p1ffd = 4, !.pdffd = 0,
                !.locked = FALSE, !.rom_bank = RomBank(4, p7ffd), !.loader = FALSE,
                !.config_mode = FALSE, !.automap = FALSE, !.pending = FALSE]
LoadSnx(v, is128, sp) ==
  /\ ~machine.nmi_active /\ 16384 <= sp /\ sp <= 65534
  /\ machine' = Snx(machine, v, is128)
  /\ memory' = Without(memory, IF is128 THEN 0..15 ELSE {0, 1, 4, 5, 10, 11})
  /\ cpu' = Restarted(IF is128 THEN sp ELSE Up(sp, 2))
  /\ history' = Loaded(TRUE)
  /\ UNCHANGED use

\* next_machine_load_nex_data: a file may ask for the registers to be kept.
\* Its entry bank is paged without the legacy latches.
Nex(m, bank) == [m EXCEPT !.loader = FALSE, !.mmu = WithBank(@, bank)]
NexFresh == [PowerOn EXCEPT !.p1ffd = 4, !.rom_bank = 2, !.config_mode = FALSE, !.nr[10] = 0]
LoadNex(keeps, bank, sp) ==
  /\ machine' = Nex(IF keeps THEN machine ELSE NexFresh, bank)
  /\ memory' = Without(memory, {bank * 2, bank * 2 + 1})
  /\ cpu' = Restarted(sp)
  /\ history' = Loaded(FALSE)
  /\ UNCHANGED use

-----------------------------------------------------------------------------
Init ==
  /\ use \in Uses
  /\ machine = PowerOn /\ memory = <<>> /\ cpu = Restarted(65535)
  /\ history = [legacy |-> TRUE, writes |-> 0, nmi |-> NoNmi]

Cpu ==
  \/ Latch \/ Push \/ Handler \/ Pop \/ Finish \/ Hold \/ Release
  \/ \E a \in use.fetches : Fetch(a) \/ FetchSecond(a) \/ Accept(a)
  \/ \E b \in use.bytes : WriteByte(b[1], b[2])
  \/ \E sp \in use.stacks : LoadSp(sp)
  \/ \E port \in use.ins : InPort(port)
  \/ \E w \in use.outs : OutPort(w[1], w[2])
Loads ==
  \E f \in use.files, sp \in use.stacks :
    \/ f.kind = "snx" /\ LoadSnx(f.value, f.flag, sp)
    \/ f.kind = "nex" /\ LoadNex(f.flag, f.value, sp)

Next == Cpu \/ Loads \/ \E w \in use.registers : Register(w[1], w[2])

Spec == Init /\ [][Next]_vars

-----------------------------------------------------------------------------
(* Properties.                                                             *)

Phases == {"ready", "ed", "body", "high", "pushing", "handler", "low", "popping", "held"}

\* Every latch has the width of the code's.
TypeOK ==
  /\ use \in Uses
  /\ machine \in NextMachine /\ Len(machine.writes) <= 2
  /\ memory \in [DOMAIN memory -> Byte \ {0}]
  /\ cpu \in [phase: Phases, sp: Address, nmi: BOOLEAN]

\* As long as nothing but the legacy ports, NR 8E and loads has paged, in
\* whatever order, with whatever locked or left in all-RAM paging, the eight
\* slots are those the latches stand for.
SlotsFollowLatches == history.legacy => machine.mmu = Legacy(machine)
\* The ROM is the one that ports 1FFD and 7FFD select, outside all-RAM paging,
\* and paging is locked only behind the latch's lock bit.
RomFollowsLatches ==
  /\ ~Bit(machine.p1ffd, 0) => machine.rom_bank = RomBank(machine.p1ffd, machine.p7ffd)
  /\ machine.locked => Bit(machine.p7ffd, 5)
\* A program that reads NR 8E and writes it back later has its mapping again.
MappingRestored ==
  history.legacy /\ ~Bit(machine.p1ffd, 0) /\ machine.pdffd < 2 =>
    LET n == WriteMapping(machine, Mapping(machine))
    IN  <<n.mmu, n.rom_bank, n.p7ffd, n.pdffd>>
          = <<machine.mmu, machine.rom_bank, machine.p7ffd, machine.pdffd>>
LatchesAgree == SlotsFollowLatches /\ RomFollowsLatches /\ MappingRestored

Inside(c) == c # Nowhere => c.at \in 0..(Sizes[c.device] - 1)
ReadOnly(c) == c.device \in {"rom", "divrom", "loader"} \/ (c.device = "multiface" /\ c.at < 8192)
\* Whatever is mapped over what, every access lands inside the device that
\* answers, a write changes a ROM only in config mode, and it is read back
\* unless reads and writes are mapped apart on purpose.
AccessesLand ==
  \A a \in use.probes :
    LET r == Cell(machine, a, TRUE)
        w == Cell(machine, a, FALSE)
        apart == \/ machine.loader
                 \/ machine.config_mode /\ machine.config_page > 127
                 \/ Layer2Maps(machine, a, TRUE) # Layer2Maps(machine, a, FALSE)
                 \/ AlternateOn(machine, TRUE) \/ AlternateOn(machine, FALSE)
                 \/ DivmmcOn(machine)
    IN  /\ Inside(r) /\ Inside(w)
        /\ ReadOnly(w) => machine.config_mode /\ ~machine.paged /\ ~DivmmcOn(machine)
        /\ w # Nowhere /\ ~apart => r = w

\* A stackless NMI whose stack is ordinary memory leaves memory as it was
\* before, and its RETN returns where the program was interrupted, whatever
\* the handler does to the stack and the mapping, unless it writes the return
\* address itself, to NR C2 and C3.
MemoryKept ==
  [][cpu.phase = "handler" /\ history'.nmi.kept => memory' = history.nmi.memory]_vars
PcKept ==
  [](history.nmi.kept =>
       /\ cpu.phase = "low" => Popped = history.nmi.pc % 256
       /\ cpu.phase = "popping" => Popped = history.nmi.pc \div 256)
NmiReturns == MemoryKept /\ PcKept

\* src/src/next_machine.c:1915: "The Z80 latches NMI on a rising edge, so a
\* one-tick pulse suffices": an NMI that has been asked for reaches the CPU.
PulseSuffices ==
  [][machine.request /\ ~machine'.request /\ machine'.nmi_active => cpu'.nmi]_vars
=============================================================================
