------------------------------ MODULE ZxPaging ------------------------------
(***************************************************************************)
(* Memory paging of the classic machines (third_party/chips/systems/zx.h): *)
(* the 7FFD and 1FFD latches and their lock, the Interface 1 shadow ROM    *)
(* that pages itself in on opcode fetches, the Multiface overlay with its  *)
(* ports, its NMI button and its software lockout, and the three snapshot  *)
(* loaders of src/spectrum.c, which rewrite all of it between two frames.  *)
(*                                                                         *)
(* The C code keeps no table of what should be mapped: every handler edits *)
(* the page table in place and trusts the flags to agree with it.  Here    *)
(* each C function is an operator from machine to machine, so a handler is *)
(* the same composition of calls as in the source.                         *)
(*                                                                         *)
(* Data: a byte written to 7FFD is the record of the bits the code reads   *)
(* (bank, display, rom, lock), a byte for 1FFD is [allRam, config].        *)
(* 0000-3FFF is always remapped as a whole, so it is one value, low; the   *)
(* RAM banks above it are ram4000, ram8000 and ramC000.                    *)
(***************************************************************************)
EXTENDS Naturals

CONSTANTS
  Types,          \* the models whose ROMs are available (zx_type_t)
  Banks,          \* the RAM banks a 7FFD write may select, a subset of 0..7
  Byte1FFD,       \* the 1FFD bytes considered, [allRam, config] records
  SnapshotBytes,  \* the 7FFD bytes a snapshot file may hold
  Interface1Rom,  \* interface1_rom_loaded: an Interface 1 ROM was found
  MultifaceRom    \* multiface_rom_loaded: a Multiface ROM image was found

AllTypes == {"48K", "128", "PLUS2A", "PLUS3"}

\* What a 7FFD byte can say, and the two bytes of a reset.
Byte7FFD == [bank : Banks, display : {5, 7}, rom : {0, 1}, lock : BOOLEAN]
Zero7FFD == [bank |-> 0, display |-> 5, rom |-> 0, lock |-> FALSE]
Zero1FFD == [allRam |-> FALSE, config |-> 0]

ASSUME TypesAssumption == Types \subseteq AllTypes
ASSUME BanksAssumption == Banks \subseteq 0..7 /\ 0 \in Banks
ASSUME BytesAssumption ==
  /\ Byte1FFD \subseteq [allRam : BOOLEAN, config : 0..3]
  /\ Zero1FFD \in Byte1FFD
  /\ SnapshotBytes \subseteq Byte7FFD
ASSUME RomsAssumption == Interface1Rom \in BOOLEAN /\ MultifaceRom \in BOOLEAN

VARIABLE sys      \* the paging part of zx_t

HasPlus3Paging(s) == s.type \in {"PLUS2A", "PLUS3"}

\* interface1_enabled: zx_init never attaches one to a +2A or +3.
Interface1(s) == Interface1Rom /\ ~HasPlus3Paging(s)

\* What can be mapped at 0000-3FFF.
Rom(i)         == <<"rom", i>>
Ram(i)         == <<"ram", i>>
Interface1Page == <<"interface1", 0>>
\* 8K ROM below 8K RAM, or 16K RAM (multiface_16k_ram_mode).
MultifacePage(ramMode) == <<"multiface", IF ramMode THEN 16 ELSE 8>>
LowPages == {Rom(i) : i \in 0..3} \cup {Ram(i) : i \in 0..7}
              \cup {Interface1Page, MultifacePage(TRUE), MultifacePage(FALSE)}

Machine ==
  [ type                        : Types,
    memory_paging_disabled      : BOOLEAN,
    last_mem_config             : Byte7FFD,
    last_plus3_mem_config       : Byte1FFD,
    display_ram_bank            : {0, 5, 7},
    interface1_paged            : BOOLEAN,
    multiface_enabled           : BOOLEAN,
    multiface_paged             : BOOLEAN,
    multiface_software_lockout  : BOOLEAN,
    multiface_red_button_disabled : BOOLEAN,
    multiface_16k_ram_mode      : BOOLEAN,
    multiface_nmi_ticks         : {0, 1},
    low                         : LowPages,
    ram4000                     : 0..7,
    ram8000                     : 0..7,
    ramC000                     : 0..7 ]

-----------------------------------------------------------------------------
(* The page-table primitives.                                              *)

MapInterface1(s) == [s EXCEPT !.low = Interface1Page]
MapMultiface(s)  == [s EXCEPT !.low = MultifacePage(s.multiface_16k_ram_mode)]

\* _zx_multiface_page
PageMultiface(s) ==
  IF s.multiface_enabled
  THEN MapMultiface([s EXCEPT !.multiface_paged = TRUE])
  ELSE s

\* _zx_interface1_page
PageInterface1(s) ==
  IF Interface1(s) THEN MapInterface1([s EXCEPT !.interface1_paged = TRUE]) ELSE s

ReapplyInterface1(s) == IF s.interface1_paged THEN PageInterface1(s) ELSE s
ReapplyMultiface(s)  == IF s.multiface_paged THEN PageMultiface(s) ELSE s

\* Mutant: banks are counted from one.
UpdateMemoryMap128_OffByOne(s, data) ==
  [s EXCEPT !.last_mem_config = data, !.ramC000 = data.bank + 1]

\* _zx_update_memory_map_zx128: a locked write changes no latch, yet it still
\* re-applies the overlays.
UpdateMemoryMap128(s, data) ==
  LET latched ==
        IF s.memory_paging_disabled THEN s
        ELSE [s EXCEPT !.last_mem_config = data,
                       !.display_ram_bank = data.display,
                       !.ramC000 = data.bank,
                       !.low = Rom(data.rom)]
      locked == [latched EXCEPT !.memory_paging_disabled = @ \/ data.lock]
  IN  ReapplyMultiface(ReapplyInterface1(locked))

\* all_ram_banks of _zx_update_memory_map_plus3.
AllRamBank(config, slot) ==
  << <<0, 1, 2, 3>>, <<4, 5, 6, 7>>, <<4, 5, 6, 3>>, <<4, 7, 6, 3>> >>
    [config + 1][slot + 1]

\* Memory above 4000 in the normal layout of a 128, +2A or +3, and in an
\* all-RAM layout.
NormalRam(s, bank)   == [s EXCEPT !.ram4000 = 5, !.ram8000 = 2, !.ramC000 = bank]
AllRam(s, config)    ==
  [s EXCEPT !.low = Ram(AllRamBank(config, 0)),
            !.ram4000 = AllRamBank(config, 1),
            !.ram8000 = AllRamBank(config, 2),
            !.ramC000 = AllRamBank(config, 3)]

\* 1FFD bit 2 is the high bit of the ROM number; it is config's high bit.
Plus3RomIndex(s) ==
  2 * (s.last_plus3_mem_config.config \div 2) + s.last_mem_config.rom

\* _zx_update_memory_map_plus3
UpdateMemoryMapPlus3(s) ==
  ReapplyMultiface(
    IF s.last_plus3_mem_config.allRam
    THEN AllRam(s, s.last_plus3_mem_config.config)
    ELSE NormalRam([s EXCEPT !.low = Rom(Plus3RomIndex(s))],
                   s.last_mem_config.bank))

\* _zx_multiface_unpage
UnpageMultiface(s) ==
  LET flagged  == [s EXCEPT !.multiface_paged = FALSE]
      restored ==
        IF HasPlus3Paging(s) THEN UpdateMemoryMapPlus3(flagged)
        ELSE IF s.type = "128"
        THEN [flagged EXCEPT !.low = Rom(s.last_mem_config.rom)]
        ELSE [flagged EXCEPT !.low = Rom(0)]
  IN  IF s.multiface_enabled THEN ReapplyInterface1(restored) ELSE s

\* Mutant: ROM 0 is mapped on every model.
UnpageInterface1_Rom0(s) ==
  [s EXCEPT !.interface1_paged = FALSE, !.low = Rom(0)]

\* _zx_interface1_unpage
UnpageInterface1(s) ==
  IF Interface1(s)
  THEN [s EXCEPT !.interface1_paged = FALSE,
                 !.low = Rom(IF s.type = "128" THEN s.last_mem_config.rom ELSE 0)]
  ELSE s

\* Mutant: the pending NMI pulse survives.
UnpagePeripherals_KeepsNmi(s) ==
  LET mf == IF s.multiface_paged THEN UnpageMultiface(s) ELSE s
  IN  IF mf.interface1_paged THEN UnpageInterface1(mf) ELSE mf

\* Mutant: the overlays are removed in the order they were stacked.
UnpagePeripherals_Swapped(s) ==
  LET quiet == [s EXCEPT !.multiface_nmi_ticks = 0]
  IN  IF quiet.interface1_paged THEN UnpageInterface1(quiet)
      ELSE IF quiet.multiface_paged THEN UnpageMultiface(quiet)
      ELSE quiet

\* zx_unpage_peripherals
UnpagePeripherals(s) ==
  LET quiet == [s EXCEPT !.multiface_nmi_ticks = 0]
      mf    == IF quiet.multiface_paged THEN UnpageMultiface(quiet) ELSE quiet
  IN  IF mf.interface1_paged THEN UnpageInterface1(mf) ELSE mf

\* zx_set_multiface_enabled
SetMultifaceEnabled(s, enabled) ==
  LET unpaged == IF ~enabled /\ s.multiface_paged THEN UnpageMultiface(s) ELSE s
      flagged == [unpaged EXCEPT !.multiface_enabled = enabled]
  IN  IF enabled THEN flagged
      ELSE [flagged EXCEPT !.multiface_software_lockout = FALSE,
                           !.multiface_nmi_ticks = 0]

\* spectrum_set_multiface_enabled
SpectrumSetMultifaceEnabled(s, enabled) ==
  SetMultifaceEnabled(
    s, enabled /\ (MultifaceRom \/ s.multiface_16k_ram_mode))

\* _zx_init_memory_map
InitMemoryMap(s) ==
  LET lowered == [s EXCEPT !.low = Rom(0)]
  IN  IF s.type = "48K"
      THEN [lowered EXCEPT !.ram4000 = 0, !.ram8000 = 1, !.ramC000 = 2]
      ELSE NormalRam(lowered, 0)

\* zx_reset: the attached Multiface, its red button and its RAM mode survive.
ResetMachine(s) ==
  InitMemoryMap(
    [s EXCEPT !.memory_paging_disabled = FALSE,
              !.last_mem_config = Zero7FFD,
              !.last_plus3_mem_config = Zero1FFD,
              !.display_ram_bank = IF s.type = "48K" THEN 0 ELSE 5,
              !.interface1_paged = FALSE,
              !.multiface_paged = FALSE,
              !.multiface_software_lockout = FALSE,
              !.multiface_nmi_ticks = 0])

\* zx_init followed by zx_set_multiface_enabled in spectrum_init_machine.
InitialMachine(type, enabled) ==
  [ type |-> type,
    memory_paging_disabled |-> FALSE,
    last_mem_config |-> Zero7FFD,
    last_plus3_mem_config |-> Zero1FFD,
    display_ram_bank |-> IF type = "48K" THEN 0 ELSE 5,
    interface1_paged |-> FALSE,
    multiface_enabled |-> enabled /\ MultifaceRom,
    multiface_paged |-> FALSE,
    multiface_software_lockout |-> FALSE,
    multiface_red_button_disabled |-> FALSE,
    multiface_16k_ram_mode |-> FALSE,
    multiface_nmi_ticks |-> 0,
    low |-> Rom(0),
    ram4000 |-> IF type = "48K" THEN 0 ELSE 5,
    ram8000 |-> IF type = "48K" THEN 1 ELSE 2,
    ramC000 |-> IF type = "48K" THEN 2 ELSE 0 ]

-----------------------------------------------------------------------------
(* Steps of the emulated CPU.  Each is the tick of zx_t that performs the  *)
(* access; the tick has first dropped a pending NMI pulse.                 *)

EndNmiPulse(s) == [s EXCEPT !.multiface_nmi_ticks = 0]

\* A tick that touches no paging.
Tick == sys' = EndNmiPulse(sys)

\* OUT (7FFD) on a 128.
WritePaging128(data) ==
  /\ sys.type = "128"
  /\ sys' = UpdateMemoryMap128(EndNmiPulse(sys), data)

\* Mutant: only the 7FFD port consults the lock.
WritePlus3Rom_Unlocked(data) ==
  /\ HasPlus3Paging(sys)
  /\ sys' = UpdateMemoryMapPlus3(
              [EndNmiPulse(sys) EXCEPT !.last_plus3_mem_config = data])

\* OUT (1FFD) and OUT (7FFD) on a +2A or +3: _zx_write_memory_control_plus3.
WritePlus3Rom(data) ==
  LET s == EndNmiPulse(sys)
  IN  /\ HasPlus3Paging(s)
      /\ sys' = IF s.memory_paging_disabled THEN s
                ELSE UpdateMemoryMapPlus3(
                       [s EXCEPT !.last_plus3_mem_config = data])

WritePlus3Bank(data) ==
  LET s == EndNmiPulse(sys)
  IN  /\ HasPlus3Paging(s)
      /\ sys' = IF s.memory_paging_disabled THEN s
                ELSE [UpdateMemoryMapPlus3(
                        [s EXCEPT !.last_mem_config = data,
                                  !.display_ram_bank = data.display])
                      EXCEPT !.memory_paging_disabled = data.lock]

\* Opcode fetch at 0008 or 1708, and at 0700 once the ROM is paged.
FetchInterface1Entry ==
  /\ Interface1(sys)
  /\ sys' = PageInterface1(EndNmiPulse(sys))

FetchInterface1Exit ==
  /\ sys.interface1_paged
  /\ sys' = UnpageInterface1(EndNmiPulse(sys))

\* IN from the Multiface's page-in port.
ReadMultifacePort ==
  /\ sys.multiface_enabled
  /\ sys' = IF sys.multiface_software_lockout THEN EndNmiPulse(sys)
            ELSE PageMultiface(EndNmiPulse(sys))

\* OUT to its page-out port.
WriteMultifacePort ==
  /\ sys.multiface_enabled
  /\ sys' = [UnpageMultiface(EndNmiPulse(sys))
             EXCEPT !.multiface_software_lockout = @ \/ sys.type # "48K"]

CpuStep ==
  \/ Tick
  \/ \E data \in Byte7FFD : WritePaging128(data) \/ WritePlus3Bank(data)
  \/ \E data \in Byte1FFD : WritePlus3Rom(data)
  \/ FetchInterface1Entry
  \/ FetchInterface1Exit
  \/ ReadMultifacePort
  \/ WriteMultifacePort

-----------------------------------------------------------------------------
(* Steps of the front end, between two frames.                             *)

\* spectrum_reset
Reset == sys' = ResetMachine(sys)

\* The Multiface entry of the Machine menu.
ToggleMultiface(enabled) == sys' = SpectrumSetMultifaceEnabled(sys, enabled)

\* zx_multiface_nmi behind spectrum_multiface_nmi.
PressRedButton ==
  /\ sys.multiface_enabled
  /\ ~sys.multiface_red_button_disabled
  /\ sys' = [PageMultiface([sys EXCEPT !.multiface_software_lockout = FALSE])
             EXCEPT !.multiface_nmi_ticks = 1]

\* The paging block a snapshot of this machine's model restores.
RestorePaging(s, bank, rom) ==
  LET unlocked == [s EXCEPT !.memory_paging_disabled = FALSE]
  IN  IF s.type = "48K" THEN s
      ELSE IF s.type = "128" THEN UpdateMemoryMap128(unlocked, bank)
      ELSE [UpdateMemoryMapPlus3(
              [unlocked EXCEPT !.last_mem_config = bank,
                               !.last_plus3_mem_config = rom,
                               !.display_ram_bank = bank.display])
            EXCEPT !.memory_paging_disabled = bank.lock]

\* spectrum_rebuild_for_model, called when the file is of another model, then
\* zx_unpage_peripherals, which every loader calls before it restores anything.
MachineForSnapshot(type) ==
  UnpagePeripherals(
    IF sys.type = type THEN sys
    ELSE InitialMachine(type, sys.multiface_enabled))

\* spectrum_load_snapshot_sna_data; SNA files exist for the 48K and the 128.
LoadSna(type, bank) ==
  /\ type \in {"48K", "128"}
  /\ sys' = RestorePaging(MachineForSnapshot(type), bank, Zero1FFD)

\* spectrum_load_snapshot_z80_data; a refused file restores the whole machine.
LoadZ80(type, bank, rom) ==
  sys' = RestorePaging(MachineForSnapshot(type), bank, rom)

\* spectrum_load_snapshot_szx_data: mfce is the Multiface block of the file,
\* or the absence of one.
NoMultifaceBlock ==
  [present |-> FALSE, disabled |-> FALSE, paged |-> FALSE, lockout |-> FALSE,
   redButtonDisabled |-> FALSE, ram16k |-> FALSE]
MultifaceBlock ==
  [present : {TRUE}, disabled : BOOLEAN, paged : BOOLEAN, lockout : BOOLEAN,
   redButtonDisabled : BOOLEAN, ram16k : BOOLEAN] \cup {NoMultifaceBlock}

LoadSzx(type, bank, rom, mfce) ==
  LET restored == RestorePaging(MachineForSnapshot(type), bank, rom)
      attached ==
        SpectrumSetMultifaceEnabled(
          [restored EXCEPT !.multiface_software_lockout = FALSE,
                           !.multiface_red_button_disabled = FALSE,
                           !.multiface_16k_ram_mode =
                             mfce.present /\ mfce.ram16k],
          mfce.present /\ ~mfce.disabled)
      flagged ==
        [attached EXCEPT
           !.multiface_software_lockout = mfce.lockout,
           !.multiface_red_button_disabled = mfce.redButtonDisabled]
  IN  sys' = IF ~(mfce.present /\ attached.multiface_enabled) THEN attached
             ELSE IF mfce.paged THEN PageMultiface(flagged)
             ELSE flagged

LoadSnapshot ==
  \E type \in Types, bank \in SnapshotBytes, rom \in Byte1FFD :
    \/ LoadSna(type, bank)
    \/ LoadZ80(type, bank, rom)
    \/ \E mfce \in MultifaceBlock : LoadSzx(type, bank, rom, mfce)

\* app_switch_model: the machine is built anew for another model.
SwitchModel(type) ==
  /\ sys.type # type
  /\ sys' = InitialMachine(type, sys.multiface_enabled)

FrontEndStep ==
  \/ Reset
  \/ \E enabled \in BOOLEAN : ToggleMultiface(enabled)
  \/ PressRedButton
  \/ \E type \in Types : SwitchModel(type)
  \/ LoadSnapshot

Init ==
  \E type \in Types, enabled \in BOOLEAN : sys = InitialMachine(type, enabled)

Next == CpuStep \/ FrontEndStep

Spec == Init /\ [][Next]_sys

-----------------------------------------------------------------------------
(* What paging promises.                                                   *)

\* What the latches alone put at 0000-3FFF and above.
LatchedLow(s) ==
  IF HasPlus3Paging(s)
  THEN IF s.last_plus3_mem_config.allRam
       THEN Ram(AllRamBank(s.last_plus3_mem_config.config, 0))
       ELSE Rom(s.last_mem_config.rom
                + IF s.last_plus3_mem_config.config \in {2, 3} THEN 2 ELSE 0)
  ELSE IF s.type = "128" THEN Rom(s.last_mem_config.rom)
  ELSE Rom(0)

LatchedRam(s, slot) ==
  IF s.type = "48K" THEN slot - 1
  ELSE IF HasPlus3Paging(s) /\ s.last_plus3_mem_config.allRam
  THEN AllRamBank(s.last_plus3_mem_config.config, slot)
  ELSE CASE slot = 1 -> 5
         [] slot = 2 -> 2
         [] slot = 3 -> s.last_mem_config.bank

RamFollowsLatches(s) ==
  /\ s.ram4000 = LatchedRam(s, 1)
  /\ s.ram8000 = LatchedRam(s, 2)
  /\ s.ramC000 = LatchedRam(s, 3)

\* Every field has its type.
TypeOK == sys \in Machine

\* An overlay flag is set only for a device that is attached; otherwise
\* _zx_multiface_unpage and _zx_interface1_unpage would return without
\* removing the overlay and leave the machine in a foreign ROM for good.
OverlayAttached ==
  /\ sys.multiface_paged => sys.multiface_enabled
  /\ sys.interface1_paged => Interface1(sys)

\* 4000-FFFF is what the latches select, whatever overlay comes and goes and
\* whatever order of writes, fetches, NMIs and snapshot loads led here.
UpperFollowsLatches == RamFollowsLatches(sys)

\* With no overlay flag set, 0000-3FFF is what the latches select: no ROM of
\* a peripheral is left behind.
NoStaleOverlay ==
  ~sys.multiface_paged /\ ~sys.interface1_paged => sys.low = LatchedLow(sys)

\* With one overlay flag set, that overlay is mapped; the Multiface may be
\* hidden only by an Interface 1 that paged itself in or out after it.
OverlayMapped ==
  /\ sys.interface1_paged /\ ~sys.multiface_paged => sys.low = Interface1Page
  /\ sys.multiface_paged =>
       \/ sys.low = MultifacePage(sys.multiface_16k_ram_mode)
       \/ Interface1(sys) /\ sys.low = IF sys.interface1_paged THEN Interface1Page
                                  ELSE LatchedLow(sys)

\* While the NMI pulse of the red button is raised, its handler at 0066 is in
\* the Multiface ROM, not in the Spectrum's or in the Interface 1's.
NmiEntersMultiface ==
  sys.multiface_nmi_ticks = 1 =>
    sys.low = MultifacePage(sys.multiface_16k_ram_mode)

\* Bit 5 of 7FFD "prevents further changes to memory pages until computer is
\* reset" (zx.h:1083): no step of the CPU changes a latch, the display bank
\* or the memory above 4000 while paging is locked, or unlocks it.
LockHolds ==
  [][sys.memory_paging_disabled /\ CpuStep =>
       /\ sys'.memory_paging_disabled
       /\ sys'.last_mem_config = sys.last_mem_config
       /\ sys'.last_plus3_mem_config = sys.last_plus3_mem_config
       /\ sys'.display_ram_bank = sys.display_ram_bank
       /\ sys'.ram4000 = sys.ram4000
       /\ sys'.ram8000 = sys.ram8000
       /\ sys'.ramC000 = sys.ramC000]_sys

\* A Multiface that its own software has locked out stays out: no step of the
\* CPU, and no paging write that re-applies overlays, brings it back.
LockoutHolds ==
  [][sys.multiface_software_lockout /\ CpuStep =>
       /\ sys'.multiface_software_lockout
       /\ sys'.multiface_paged => sys.multiface_paged]_sys

\* Both locks hold.
LocksHold == LockHolds /\ LockoutHolds

\* "A paged Multiface or Interface 1 ROM must not survive into the snapshot,
\* which expects its own ROM at 0000h" (spectrum.c:1415): whenever the front
\* end loads an SNA or a Z80 file, memory is what the file's latches select,
\* whichever overlays were paged and however they had hidden each other.
SnapshotSeesOwnRom ==
  \A type \in Types, bank \in SnapshotBytes, rom \in Byte1FFD :
    LET loaded == RestorePaging(MachineForSnapshot(type), bank, rom)
    IN  /\ loaded.low = LatchedLow(loaded)
        /\ RamFollowsLatches(loaded)
=============================================================================
