----------------------- MODULE MachineMemory_proofs -----------------------
(***************************************************************************)
(* Proofs about what lies in the memory of the classic machine: ZxPaging,  *)
(* which maps it, for every set of models, banks, bytes and ROMs; and      *)
(* Assembler, which writes it, for every source, memory and file of        *)
(* INCBIN.  The assembler writes through the mapping of the moment, so the *)
(* models share no state.                                                  *)
(*                                                                         *)
(* Paging: each C function is an operator on machines, so the proof goes   *)
(* function by function: a lemma per operator says that it keeps a machine *)
(* well formed, and a step of the specification cites the lemmas of the    *)
(* calls it makes.                                                         *)
(*                                                                         *)
(* Assembler: first that the size of an instruction does not depend on     *)
(* values; then what one line does to a context, and to the same place in  *)
(* two passes; then INCLUDE; then an invariant of the whole build.         *)
(***************************************************************************)
EXTENDS ZxPaging, Assembler, SequenceTheorems, FiniteSetTheorems, WellFoundedInduction, TLAPS

-----------------------------------------------------------------------------
(* The inductive invariant, as a predicate of one machine.                 *)

Attached(s) ==
  /\ s.multiface_paged => s.multiface_enabled
  /\ s.interface1_paged => Interface1(s)

\* What 0000-3FFF may be, given the flags; it joins NoStaleOverlay with
\* OverlayMapped.
LowExplained(s) ==
  IF s.multiface_paged
  THEN \/ s.low = MultifacePage(s.multiface_16k_ram_mode)
       \/ Interface1(s) /\ s.low = IF s.interface1_paged THEN Interface1Page
                                   ELSE LatchedLow(s)
  ELSE s.low = IF s.interface1_paged THEN Interface1Page ELSE LatchedLow(s)

\* What every function of the C code is given and hands on, except for the
\* moment between a change of the latches and the overlays' return.
Sound(s) ==
  /\ s \in Machine
  /\ Attached(s)
  /\ RamFollowsLatches(s)

Good(s) == Sound(s) /\ LowExplained(s)

IInv == Good(sys) /\ NmiEntersMultiface

\* t has the latches of s, and hence the same latched memory.
SameLatches(s, t) ==
  /\ t.type = s.type
  /\ t.last_mem_config = s.last_mem_config
  /\ t.last_plus3_mem_config = s.last_plus3_mem_config

-----------------------------------------------------------------------------
(* Pages and latches.                                                      *)

LEMMA PageTypes ==
  /\ \A i \in 0..3 : Rom(i) \in LowPages
  /\ \A i \in 0..7 : Ram(i) \in LowPages
  /\ Interface1Page \in LowPages
  /\ \A b \in BOOLEAN : MultifacePage(b) \in LowPages
BY DEF LowPages

LEMMA AllRamBankType ==
  ASSUME NEW config \in 0..3, NEW slot \in 0..3
  PROVE  AllRamBank(config, slot) \in 0..7
<1>1. /\ config = 0 \/ config = 1 \/ config = 2 \/ config = 3
      /\ slot = 0 \/ slot = 1 \/ slot = 2 \/ slot = 3
  OBVIOUS
<1>2. CASE config = 0 BY <1>1, <1>2 DEF AllRamBank
<1>3. CASE config = 1 BY <1>1, <1>3 DEF AllRamBank
<1>4. CASE config = 2 BY <1>1, <1>4 DEF AllRamBank
<1>5. CASE config = 3 BY <1>1, <1>5 DEF AllRamBank
<1> QED BY <1>1, <1>2, <1>3, <1>4, <1>5

LEMMA ByteTypes ==
  ASSUME NEW data \in Byte7FFD
  PROVE  /\ data.bank \in 0..7 /\ data.rom \in {0, 1} /\ data.rom \in 0..3
         /\ data.display \in {5, 7} /\ data.lock \in BOOLEAN
<1>1. /\ data.bank \in Banks /\ data.rom \in {0, 1}
      /\ data.display \in {5, 7} /\ data.lock \in BOOLEAN
  BY DEF Byte7FFD
<1>2. data.bank \in 0..7
  BY <1>1, BanksAssumption
<1>3. data.rom \in 0..3
  BY <1>1
<1> QED BY <1>1, <1>2, <1>3

LEMMA MapWholeType ==
  ASSUME NEW s \in Machine, NEW low \in LowPages,
         NEW a \in 0..7, NEW b \in 0..7, NEW c \in 0..7
  PROVE  [s EXCEPT !.low = low, !.ram4000 = a, !.ram8000 = b, !.ramC000 = c]
           \in Machine
BY DEF Machine

LEMMA LatchTypes ==
  ASSUME NEW s, s \in Machine
  PROVE  /\ s.type \in Types /\ s.type \in AllTypes
         /\ s.last_mem_config \in Byte7FFD
         /\ s.last_mem_config.bank \in 0..7
         /\ s.last_mem_config.rom \in {0, 1}
         /\ s.last_plus3_mem_config \in Byte1FFD
         /\ s.last_plus3_mem_config.config \in 0..3
BY TypesAssumption, BanksAssumption, BytesAssumption DEF Machine, Byte7FFD

(* What the latches select is always a page of the machine.                *)
LEMMA LatchedType ==
  ASSUME NEW s, s \in Machine
  PROVE  /\ Plus3RomIndex(s) \in 0..3
         /\ LatchedLow(s) \in LowPages
<1>1. Plus3RomIndex(s) \in 0..3
  BY LatchTypes DEF Plus3RomIndex
<1> QED BY <1>1, PageTypes, LatchTypes, AllRamBankType DEF LatchedLow

LEMMA LatchedSame ==
  ASSUME NEW s, NEW t, SameLatches(s, t)
  PROVE  /\ LatchedLow(t) = LatchedLow(s)
         /\ \A slot \in 1..3 : LatchedRam(t, slot) = LatchedRam(s, slot)
         /\ Interface1(t) = Interface1(s)
         /\ HasPlus3Paging(t) = HasPlus3Paging(s)
BY DEF SameLatches, LatchedLow, LatchedRam, Interface1, HasPlus3Paging,
       Plus3RomIndex

-----------------------------------------------------------------------------
(* The overlays.                                                           *)

(* _zx_multiface_page maps the Multiface and touches nothing else.         *)
LEMMA PageMultifaceGood ==
  ASSUME NEW s, Sound(s), s.multiface_enabled
  PROVE  /\ Good(PageMultiface(s))
         /\ PageMultiface(s).low = MultifacePage(s.multiface_16k_ram_mode)
         /\ SameLatches(s, PageMultiface(s))
<1> DEFINE t == PageMultiface(s)
<1>1. t = [s EXCEPT !.multiface_paged = TRUE,
                    !.low = MultifacePage(s.multiface_16k_ram_mode)]
  BY DEF PageMultiface, MapMultiface, Sound, Machine
<1> HIDE DEF t
<1>2. t \in Machine
  BY <1>1, PageTypes DEF Sound, Machine
<1>3. SameLatches(s, t)
  BY <1>1 DEF Sound, Machine, SameLatches
<1>4. RamFollowsLatches(t)
  BY <1>1, <1>3, LatchedSame DEF Sound, Machine, RamFollowsLatches
<1>5. Attached(t)
  BY <1>1, <1>3, LatchedSame DEF Sound, Machine, Attached
<1>6. t.multiface_paged /\ t.low = MultifacePage(t.multiface_16k_ram_mode)
      /\ t.multiface_16k_ram_mode = s.multiface_16k_ram_mode
  BY <1>1 DEF Sound, Machine
<1> QED BY <1>2, <1>3, <1>4, <1>5, <1>6 DEF Good, Sound, LowExplained, t

(* _zx_interface1_page hides a paged Multiface, as OverlayMapped allows.   *)
LEMMA PageInterface1Good ==
  ASSUME NEW s, Sound(s), Interface1(s)
  PROVE  /\ Good(PageInterface1(s))
         /\ SameLatches(s, PageInterface1(s))
         /\ PageInterface1(s).multiface_paged = s.multiface_paged
         /\ PageInterface1(s).multiface_enabled = s.multiface_enabled
         /\ PageInterface1(s).interface1_paged
<1> DEFINE t == PageInterface1(s)
<1>1. t = [s EXCEPT !.interface1_paged = TRUE, !.low = Interface1Page]
  BY DEF PageInterface1, MapInterface1, Sound, Machine
<1> HIDE DEF t
<1>2. t \in Machine
  BY <1>1, PageTypes DEF Sound, Machine
<1>3. SameLatches(s, t)
  BY <1>1 DEF Sound, Machine, SameLatches
<1>4. RamFollowsLatches(t)
  BY <1>1, <1>3, LatchedSame DEF Sound, Machine, RamFollowsLatches
<1>5. Attached(t)
  BY <1>1, <1>3, LatchedSame DEF Sound, Machine, Attached
<1>6. /\ t.interface1_paged /\ t.low = Interface1Page /\ Interface1(t)
      /\ t.multiface_paged = s.multiface_paged
      /\ t.multiface_enabled = s.multiface_enabled
  BY <1>1, <1>3, LatchedSame DEF Sound, Machine
<1> QED BY <1>2, <1>3, <1>4, <1>5, <1>6 DEF Good, Sound, LowExplained, t

(* After the latches were applied, re-applying the Interface 1 and then    *)
(* the Multiface explains 0000-3FFF again.                                 *)
LEMMA ReapplyGood ==
  ASSUME NEW s, Sound(s), s.low = LatchedLow(s) \/ LowExplained(s)
  PROVE  Good(ReapplyMultiface(ReapplyInterface1(s)))
<1> DEFINE t == ReapplyInterface1(s)
<1>1. /\ Sound(t)
      /\ t.multiface_paged => t.multiface_enabled
      /\ ~t.multiface_paged => LowExplained(t)
  <2>1. CASE s.interface1_paged
    <3>1. Interface1(s)
      BY <2>1 DEF Sound, Attached
    <3> QED BY <2>1, <3>1, PageInterface1Good
            DEF ReapplyInterface1, Good, Sound, Attached
  <2>2. CASE ~s.interface1_paged
    BY <2>2 DEF ReapplyInterface1, Sound, Attached, LowExplained
  <2> QED BY <2>1, <2>2
<1>2. CASE t.multiface_paged
  BY <1>1, <1>2, PageMultifaceGood DEF ReapplyMultiface
<1>3. CASE ~t.multiface_paged
  BY <1>1, <1>3 DEF ReapplyMultiface, Good
<1> QED BY <1>2, <1>3

LEMMA ReapplyMultifaceGood ==
  ASSUME NEW s, Sound(s), ~s.interface1_paged,
         s.low = LatchedLow(s) \/ LowExplained(s)
  PROVE  Good(ReapplyMultiface(s))
BY ReapplyGood DEF ReapplyInterface1

-----------------------------------------------------------------------------
(* The paging writes.                                                      *)

(* _zx_update_memory_map_zx128, locked or not.                             *)
LEMMA UpdateMemoryMap128Good ==
  ASSUME NEW s, Good(s), s.type = "128", NEW data \in Byte7FFD
  PROVE  Good(UpdateMemoryMap128(s, data))
<1> DEFINE latched ==
             IF s.memory_paging_disabled THEN s
             ELSE [s EXCEPT !.last_mem_config = data,
                            !.display_ram_bank = data.display,
                            !.ramC000 = data.bank,
                            !.low = Rom(data.rom)]
           t == [latched EXCEPT !.memory_paging_disabled = @ \/ data.lock]
<1>1. /\ data.bank \in 0..7 /\ data.display \in {5, 7} /\ data.lock \in BOOLEAN
      /\ Rom(data.rom) \in LowPages
  BY ByteTypes, PageTypes
<1>2. Sound(t) /\ (t.low = LatchedLow(t) \/ LowExplained(t))
  <2>1. t \in Machine
    BY <1>1 DEF Good, Sound, Machine
  <2>2. CASE s.memory_paging_disabled
    <3>1. t = [s EXCEPT !.memory_paging_disabled = TRUE]
      BY <2>2 DEF Good, Sound, Machine
    <3> HIDE DEF t, latched
    <3>2. SameLatches(s, t)
      BY <3>1 DEF Good, Sound, Machine, SameLatches
    <3>3. /\ t.low = s.low /\ t.ram4000 = s.ram4000
          /\ t.ram8000 = s.ram8000 /\ t.ramC000 = s.ramC000
          /\ t.multiface_paged = s.multiface_paged
          /\ t.multiface_enabled = s.multiface_enabled
          /\ t.interface1_paged = s.interface1_paged
          /\ t.multiface_16k_ram_mode = s.multiface_16k_ram_mode
      BY <3>1 DEF Good, Sound, Machine
    <3> QED BY <2>1, <3>2, <3>3, LatchedSame
            DEF Good, Sound, Attached, RamFollowsLatches, LowExplained
  <2>3. CASE ~s.memory_paging_disabled
    <3>1. /\ t.type = "128" /\ t.last_mem_config = data
          /\ t.low = Rom(data.rom) /\ t.ram4000 = s.ram4000
          /\ t.ram8000 = s.ram8000 /\ t.ramC000 = data.bank
          /\ t.multiface_paged = s.multiface_paged
          /\ t.multiface_enabled = s.multiface_enabled
          /\ t.interface1_paged = s.interface1_paged
      BY <2>3 DEF Good, Sound, Machine
    <3> HIDE DEF t, latched
    <3>2. s.ram4000 = 5 /\ s.ram8000 = 2
      BY DEF Good, Sound, RamFollowsLatches, LatchedRam, HasPlus3Paging
    <3>3. RamFollowsLatches(t)
      BY <3>1, <3>2 DEF RamFollowsLatches, LatchedRam, HasPlus3Paging
    <3>4. Attached(t)
      BY <3>1 DEF Good, Sound, Attached, Interface1, HasPlus3Paging
    <3>5. t.low = LatchedLow(t)
      BY <3>1 DEF LatchedLow, HasPlus3Paging
    <3> QED BY <2>1, <3>3, <3>4, <3>5 DEF Sound
  <2> QED BY <2>2, <2>3
<1>3. UpdateMemoryMap128(s, data) = ReapplyMultiface(ReapplyInterface1(t))
  BY DEF UpdateMemoryMap128
<1> QED BY <1>2, <1>3, ReapplyGood

(* _zx_update_memory_map_plus3 rebuilds memory from the latches alone, so  *)
(* it asks nothing of what was mapped before.                              *)
LEMMA UpdateMemoryMapPlus3Good ==
  ASSUME NEW s, s \in Machine, Attached(s), HasPlus3Paging(s)
  PROVE  Good(UpdateMemoryMapPlus3(s))
<1> DEFINE config == s.last_plus3_mem_config.config
           t == IF s.last_plus3_mem_config.allRam THEN AllRam(s, config)
                ELSE NormalRam([s EXCEPT !.low = Rom(Plus3RomIndex(s))],
                               s.last_mem_config.bank)
<1>1. UpdateMemoryMapPlus3(s) = ReapplyMultiface(t)
  BY DEF UpdateMemoryMapPlus3
<1>2. \A slot \in 0..3 : AllRamBank(config, slot) \in 0..7
  BY LatchTypes, AllRamBankType
<1>3. t \in Machine
  <2>1. CASE s.last_plus3_mem_config.allRam
    <3>1. /\ Ram(AllRamBank(config, 0)) \in LowPages
          /\ AllRamBank(config, 1) \in 0..7
          /\ AllRamBank(config, 2) \in 0..7
          /\ AllRamBank(config, 3) \in 0..7
      BY <1>2, PageTypes
    <3>2. t = AllRam(s, config)
      BY <2>1
    <3> HIDE DEF config, t
    <3>3. t = [s EXCEPT !.low = Ram(AllRamBank(config, 0)),
                        !.ram4000 = AllRamBank(config, 1),
                        !.ram8000 = AllRamBank(config, 2),
                        !.ramC000 = AllRamBank(config, 3)]
      BY <3>2, Zenon DEF AllRam
    <3> QED BY <3>1, <3>3, MapWholeType, ZenonT(60)
  <2>2. CASE ~s.last_plus3_mem_config.allRam
    <3>1. Rom(Plus3RomIndex(s)) \in LowPages /\ s.last_mem_config.bank \in 0..7
      BY LatchTypes, LatchedType, PageTypes
    <3> HIDE DEF config
    <3>2. t = [s EXCEPT !.low = Rom(Plus3RomIndex(s)), !.ram4000 = 5,
                        !.ram8000 = 2, !.ramC000 = s.last_mem_config.bank]
      BY <2>2 DEF NormalRam, Machine
    <3> HIDE DEF t
    <3>3. 5 \in 0..7 /\ 2 \in 0..7
      OBVIOUS
    <3> QED BY <3>1, <3>2, <3>3, MapWholeType, ZenonT(60)
  <2> QED BY <2>1, <2>2
<1>4. /\ SameLatches(s, t)
      /\ t.multiface_paged = s.multiface_paged
      /\ t.multiface_enabled = s.multiface_enabled
      /\ t.interface1_paged = s.interface1_paged
  BY DEF AllRam, NormalRam, Machine, SameLatches
<1>5. t.low = LatchedLow(s)
  <2>1. Plus3RomIndex(s) = s.last_mem_config.rom
                           + IF config \in {2, 3} THEN 2 ELSE 0
    BY LatchTypes DEF Plus3RomIndex
  <2>2. CASE s.last_plus3_mem_config.allRam
    BY <2>2 DEF AllRam, Machine, LatchedLow
  <2>3. CASE ~s.last_plus3_mem_config.allRam
    BY <2>1, <2>3 DEF NormalRam, Machine, LatchedLow
  <2> QED BY <2>2, <2>3
<1>6. /\ t.ram4000 = LatchedRam(s, 1)
      /\ t.ram8000 = LatchedRam(s, 2)
      /\ t.ramC000 = LatchedRam(s, 3)
  BY DEF AllRam, NormalRam, Machine, LatchedRam, HasPlus3Paging
<1> HIDE DEF t
<1>7. Sound(t) /\ t.low = LatchedLow(t)
  BY <1>3, <1>4, <1>5, <1>6, LatchedSame DEF Sound, Attached, RamFollowsLatches
<1>8. ~t.interface1_paged
  BY <1>4 DEF Attached, Interface1
<1> QED BY <1>1, <1>7, <1>8, ReapplyMultifaceGood

-----------------------------------------------------------------------------
(* Removing the overlays.                                                  *)

(* The other fields can take any value of their type.                      *)
LEMMA GoodByFields ==
  ASSUME NEW s, Good(s), NEW t \in Machine, SameLatches(s, t),
         t.low = s.low, t.ram4000 = s.ram4000,
         t.ram8000 = s.ram8000, t.ramC000 = s.ramC000,
         t.multiface_paged = s.multiface_paged,
         t.multiface_enabled = s.multiface_enabled,
         t.interface1_paged = s.interface1_paged,
         t.multiface_16k_ram_mode = s.multiface_16k_ram_mode
  PROVE  Good(t)
BY LatchedSame DEF Good, Sound, Attached, RamFollowsLatches, LowExplained

LEMMA NmiFieldGood ==
  ASSUME NEW s, Good(s), NEW n \in {0, 1}
  PROVE  Good([s EXCEPT !.multiface_nmi_ticks = n])
<1> DEFINE t == [s EXCEPT !.multiface_nmi_ticks = n]
<1>1. t \in Machine /\ SameLatches(s, t)
  BY DEF Good, Sound, Machine, SameLatches
<1> QED BY <1>1, GoodByFields DEF Good, Sound, Machine

LEMMA LockFieldGood ==
  ASSUME NEW s, Good(s), NEW b \in BOOLEAN
  PROVE  Good([s EXCEPT !.memory_paging_disabled = b])
<1> DEFINE t == [s EXCEPT !.memory_paging_disabled = b]
<1>1. t \in Machine /\ SameLatches(s, t)
  BY DEF Good, Sound, Machine, SameLatches
<1> QED BY <1>1, GoodByFields DEF Good, Sound, Machine

LEMMA LockoutFieldGood ==
  ASSUME NEW s, Good(s), NEW b \in BOOLEAN
  PROVE  Good([s EXCEPT !.multiface_software_lockout = b])
<1> DEFINE t == [s EXCEPT !.multiface_software_lockout = b]
<1>1. t \in Machine /\ SameLatches(s, t)
  BY DEF Good, Sound, Machine, SameLatches
<1> QED BY <1>1, GoodByFields DEF Good, Sound, Machine

(* Mapping the latched ROM on a machine that is not a +2A or +3.           *)
LEMMA LatchedRom ==
  ASSUME NEW s, s \in Machine, ~HasPlus3Paging(s)
  PROVE  /\ LatchedLow(s) =
              Rom(IF s.type = "128" THEN s.last_mem_config.rom ELSE 0)
         /\ LatchedLow(s) \in LowPages
BY LatchedType DEF LatchedLow

(* _zx_multiface_unpage.                                                   *)
LEMMA UnpageMultifaceGood ==
  ASSUME NEW s, Good(s), s.multiface_enabled
  PROVE  /\ Good(UnpageMultiface(s))
         /\ ~UnpageMultiface(s).multiface_paged
<1> DEFINE flagged == [s EXCEPT !.multiface_paged = FALSE]
<1>1. /\ flagged \in Machine /\ SameLatches(s, flagged)
      /\ ~flagged.multiface_paged
      /\ flagged.interface1_paged = s.interface1_paged
      /\ flagged.ram4000 = s.ram4000 /\ flagged.ram8000 = s.ram8000
      /\ flagged.ramC000 = s.ramC000
  BY DEF Good, Sound, Machine, SameLatches
<1>2. Sound(flagged)
  <2> HIDE DEF flagged
  <2> QED BY <1>1, LatchedSame DEF Good, Sound, Attached, RamFollowsLatches
<1>3. CASE HasPlus3Paging(s)
  <2> DEFINE t == UpdateMemoryMapPlus3(flagged)
  <2>1. Good(t)
    BY <1>1, <1>2, <1>3, LatchedSame, UpdateMemoryMapPlus3Good DEF Sound
  <2>2. ~t.multiface_paged
    BY <1>1 DEF UpdateMemoryMapPlus3, ReapplyMultiface, AllRam, NormalRam, Machine
  <2>3. UnpageMultiface(s) = ReapplyInterface1(t)
    BY <1>3 DEF UnpageMultiface
  <2>4. ~t.interface1_paged
    <3>1. ~Interface1(flagged)
      BY <1>1, <1>3, LatchedSame DEF Interface1
    <3>2. ~flagged.interface1_paged
      BY <1>2, <3>1 DEF Sound, Attached
    <3> HIDE DEF flagged
    <3> QED BY <1>1, <3>2
            DEF UpdateMemoryMapPlus3, ReapplyMultiface, AllRam, NormalRam, Machine
  <2> HIDE DEF t
  <2> QED BY <2>1, <2>2, <2>3, <2>4 DEF ReapplyInterface1
<1>4. CASE ~HasPlus3Paging(s)
  <2> DEFINE rom == Rom(IF s.type = "128" THEN s.last_mem_config.rom ELSE 0)
             t == [flagged EXCEPT !.low = rom]
  <2>1. rom = LatchedLow(s) /\ rom \in LowPages
    BY <1>4, LatchedRom DEF Good, Sound
  <2>2. UnpageMultiface(s) = ReapplyInterface1(t)
    BY <1>4 DEF UnpageMultiface
  <2> HIDE DEF rom, flagged
  <2>3. /\ t \in Machine /\ SameLatches(flagged, t) /\ t.low = rom
        /\ t.multiface_paged = flagged.multiface_paged
        /\ t.interface1_paged = flagged.interface1_paged
        /\ t.multiface_enabled = flagged.multiface_enabled
        /\ t.ram4000 = flagged.ram4000 /\ t.ram8000 = flagged.ram8000
        /\ t.ramC000 = flagged.ramC000
    BY <1>1, <2>1 DEF Machine, SameLatches
  <2> HIDE DEF t
  <2>4. Sound(t) /\ t.low = LatchedLow(t) /\ ~t.multiface_paged
    BY <1>1, <1>2, <2>1, <2>3, LatchedSame
       DEF Sound, Attached, RamFollowsLatches
  <2>5. CASE t.interface1_paged
    <3>1. Interface1(t)
      BY <2>4, <2>5 DEF Sound, Attached
    <3> QED BY <2>2, <2>4, <2>5, <3>1, PageInterface1Good DEF ReapplyInterface1
  <2>6. CASE ~t.interface1_paged
    BY <2>2, <2>4, <2>6 DEF ReapplyInterface1, Good, LowExplained
  <2> QED BY <2>5, <2>6
<1> QED BY <1>3, <1>4

(* _zx_interface1_unpage; it may hide a Multiface that is still flagged.   *)
LEMMA UnpageInterface1Good ==
  ASSUME NEW s, Good(s), Interface1(s)
  PROVE  /\ Good(UnpageInterface1(s))
         /\ ~UnpageInterface1(s).interface1_paged
         /\ UnpageInterface1(s).multiface_paged = s.multiface_paged
<1> DEFINE rom == Rom(IF s.type = "128" THEN s.last_mem_config.rom ELSE 0)
           t == [s EXCEPT !.interface1_paged = FALSE, !.low = rom]
<1>1. t = UnpageInterface1(s)
  BY DEF UnpageInterface1
<1>2. rom = LatchedLow(s) /\ rom \in LowPages
  BY LatchedRom DEF Good, Sound, Interface1
<1> HIDE DEF rom
<1>3. /\ t \in Machine /\ SameLatches(s, t) /\ t.low = rom
      /\ t.multiface_paged = s.multiface_paged
      /\ ~t.interface1_paged
      /\ t.multiface_enabled = s.multiface_enabled
      /\ t.ram4000 = s.ram4000 /\ t.ram8000 = s.ram8000
      /\ t.ramC000 = s.ramC000
  BY <1>2 DEF Good, Sound, Machine, SameLatches
<1> HIDE DEF t
<1>4. Sound(t) /\ Interface1(t) /\ t.low = LatchedLow(t)
  BY <1>2, <1>3, LatchedSame DEF Good, Sound, Attached, RamFollowsLatches
<1> QED BY <1>1, <1>3, <1>4 DEF Good, LowExplained

(* zx_unpage_peripherals leaves the latched memory and no pending NMI.     *)
LEMMA UnpagePeripheralsGood ==
  ASSUME NEW s, Good(s)
  PROVE  LET t == UnpagePeripherals(s) IN
         /\ Good(t)
         /\ ~t.multiface_paged /\ ~t.interface1_paged
<1> DEFINE quiet == [s EXCEPT !.multiface_nmi_ticks = 0]
           mf    == IF quiet.multiface_paged THEN UnpageMultiface(quiet) ELSE quiet
<1>1. Good(quiet)
  BY NmiFieldGood
<1> HIDE DEF quiet
<1>2. Good(mf) /\ ~mf.multiface_paged
  BY <1>1, UnpageMultifaceGood DEF Good, Sound, Attached
<1>3. UnpagePeripherals(s) =
        IF mf.interface1_paged THEN UnpageInterface1(mf) ELSE mf
  BY DEF UnpagePeripherals, quiet
<1> HIDE DEF mf
<1>4. CASE mf.interface1_paged
  BY <1>2, <1>3, <1>4, UnpageInterface1Good DEF Good, Sound, Attached
<1>5. CASE ~mf.interface1_paged
  BY <1>2, <1>3, <1>5
<1> QED BY <1>4, <1>5

(* zx_set_multiface_enabled: whoever detaches a Multiface unpages it.      *)
LEMMA SetMultifaceEnabledGood ==
  ASSUME NEW s, Good(s), NEW enabled \in BOOLEAN
  PROVE  Good(SetMultifaceEnabled(s, enabled))
<1> DEFINE unpaged == IF ~enabled /\ s.multiface_paged THEN UnpageMultiface(s) ELSE s
           flagged == [unpaged EXCEPT !.multiface_enabled = enabled]
           quiet   == [flagged EXCEPT !.multiface_software_lockout = FALSE,
                                      !.multiface_nmi_ticks = 0]
<1>1. Good(unpaged) /\ (~enabled => ~unpaged.multiface_paged)
  BY UnpageMultifaceGood DEF Good, Sound, Attached
<1> HIDE DEF unpaged
<1>2. /\ flagged \in Machine /\ SameLatches(unpaged, flagged)
      /\ flagged.low = unpaged.low /\ flagged.ram4000 = unpaged.ram4000
      /\ flagged.ram8000 = unpaged.ram8000 /\ flagged.ramC000 = unpaged.ramC000
      /\ flagged.multiface_paged = unpaged.multiface_paged
      /\ flagged.multiface_enabled = enabled
      /\ flagged.interface1_paged = unpaged.interface1_paged
      /\ flagged.multiface_16k_ram_mode = unpaged.multiface_16k_ram_mode
  BY <1>1 DEF Good, Sound, Machine, SameLatches
<1>3. Good(flagged)
  <2> HIDE DEF flagged
  <2> QED BY <1>1, <1>2, LatchedSame
          DEF Good, Sound, Attached, RamFollowsLatches, LowExplained
<1> HIDE DEF flagged
<1>4. quiet = [[flagged EXCEPT !.multiface_software_lockout = FALSE]
               EXCEPT !.multiface_nmi_ticks = 0]
  BY <1>3 DEF Good, Sound, Machine
<1>5. Good(quiet)
  BY <1>3, <1>4, LockoutFieldGood, NmiFieldGood
<1>6. SetMultifaceEnabled(s, enabled) = IF enabled THEN flagged ELSE quiet
  BY DEF SetMultifaceEnabled, flagged, unpaged
<1> QED BY <1>3, <1>5, <1>6

LEMMA SpectrumSetMultifaceEnabledGood ==
  ASSUME NEW s, Good(s), NEW enabled \in BOOLEAN
  PROVE  Good(SpectrumSetMultifaceEnabled(s, enabled))
<1>1. (enabled /\ (MultifaceRom \/ s.multiface_16k_ram_mode)) \in BOOLEAN
  OBVIOUS
<1> QED BY <1>1, SetMultifaceEnabledGood DEF SpectrumSetMultifaceEnabled

-----------------------------------------------------------------------------
(* New machines, resets and the paging of a snapshot.                      *)

LEMMA ZeroBytes ==
  /\ Zero7FFD \in Byte7FFD /\ Zero1FFD \in Byte1FFD
  /\ Rom(0) \in LowPages
BY PageTypes, BanksAssumption, BytesAssumption DEF Zero7FFD, Byte7FFD

LEMMA InitialMachineGood ==
  ASSUME NEW type \in Types, NEW enabled \in BOOLEAN
  PROVE  /\ Good(InitialMachine(type, enabled))
         /\ InitialMachine(type, enabled).multiface_nmi_ticks = 0
<1> DEFINE s == InitialMachine(type, enabled)
<1>1. s \in Machine
  BY ZeroBytes, RomsAssumption DEF InitialMachine, Machine
<1>2. /\ s.type = type /\ s.last_mem_config = Zero7FFD
      /\ s.last_plus3_mem_config = Zero1FFD /\ s.low = Rom(0)
      /\ s.ram4000 = IF type = "48K" THEN 0 ELSE 5
      /\ s.ram8000 = IF type = "48K" THEN 1 ELSE 2
      /\ s.ramC000 = IF type = "48K" THEN 2 ELSE 0
      /\ ~s.multiface_paged /\ ~s.interface1_paged
      /\ s.multiface_nmi_ticks = 0
  BY DEF InitialMachine
<1> HIDE DEF s
<1>3. RamFollowsLatches(s)
  BY <1>2 DEF RamFollowsLatches, LatchedRam, Zero7FFD, Zero1FFD
<1>4. LatchedLow(s) = Rom(0)
  BY <1>2 DEF LatchedLow, Zero7FFD, Zero1FFD, Plus3RomIndex
<1> QED BY <1>1, <1>2, <1>3, <1>4 DEF Good, Sound, Attached, LowExplained, s

LEMMA ResetMachineGood ==
  ASSUME NEW s, Good(s)
  PROVE  /\ Good(ResetMachine(s))
         /\ ResetMachine(s).multiface_nmi_ticks = 0
<1> DEFINE t == ResetMachine(s)
<1>1. t \in Machine
  <2> DEFINE r == [s EXCEPT !.memory_paging_disabled = FALSE,
                            !.last_mem_config = Zero7FFD,
                            !.last_plus3_mem_config = Zero1FFD,
                            !.display_ram_bank = IF s.type = "48K" THEN 0 ELSE 5,
                            !.interface1_paged = FALSE,
                            !.multiface_paged = FALSE,
                            !.multiface_software_lockout = FALSE,
                            !.multiface_nmi_ticks = 0]
  <2>1. r \in Machine
    BY ZeroBytes DEF Machine, Good, Sound
  <2>2. t = InitMemoryMap(r)
    BY DEF ResetMachine
  <2> HIDE DEF r, t
  <2>3. 0 \in 0..7 /\ 1 \in 0..7 /\ 2 \in 0..7 /\ 5 \in 0..7
    OBVIOUS
  <2>4. CASE r.type = "48K"
    <3>1. t = [r EXCEPT !.low = Rom(0), !.ram4000 = 0, !.ram8000 = 1, !.ramC000 = 2]
      BY <2>1, <2>2, <2>4 DEF InitMemoryMap, Machine
    <3> QED BY <2>1, <2>3, <3>1, ZeroBytes, MapWholeType, ZenonT(60)
  <2>5. CASE r.type # "48K"
    <3>1. t = [r EXCEPT !.low = Rom(0), !.ram4000 = 5, !.ram8000 = 2, !.ramC000 = 0]
      BY <2>1, <2>2, <2>5 DEF InitMemoryMap, NormalRam, Machine
    <3> QED BY <2>1, <2>3, <3>1, ZeroBytes, MapWholeType, ZenonT(60)
  <2> QED BY <2>4, <2>5
<1>2. /\ t.type = s.type /\ t.last_mem_config = Zero7FFD
      /\ t.last_plus3_mem_config = Zero1FFD /\ t.low = Rom(0)
      /\ t.ram4000 = IF s.type = "48K" THEN 0 ELSE 5
      /\ t.ram8000 = IF s.type = "48K" THEN 1 ELSE 2
      /\ t.ramC000 = IF s.type = "48K" THEN 2 ELSE 0
      /\ ~t.multiface_paged /\ ~t.interface1_paged
      /\ t.multiface_nmi_ticks = 0
  BY DEF ResetMachine, InitMemoryMap, NormalRam, Machine, Good, Sound
<1> HIDE DEF t
<1>3. RamFollowsLatches(t)
  BY <1>2 DEF RamFollowsLatches, LatchedRam, Zero7FFD, Zero1FFD
<1>4. LatchedLow(t) = Rom(0)
  BY <1>2 DEF LatchedLow, Zero7FFD, Zero1FFD, Plus3RomIndex
<1> QED BY <1>1, <1>2, <1>3, <1>4 DEF Good, Sound, Attached, LowExplained, t

(* The latches of a snapshot are restored on a machine without overlays.   *)
LEMMA RestorePagingGood ==
  ASSUME NEW s, Good(s), NEW bank \in Byte7FFD, NEW rom \in Byte1FFD
  PROVE  Good(RestorePaging(s, bank, rom))
<1> DEFINE unlocked == [s EXCEPT !.memory_paging_disabled = FALSE]
<1>1. Good(unlocked) /\ unlocked.type = s.type
  BY LockFieldGood DEF Good, Sound, Machine
<1> HIDE DEF unlocked
<1>2. CASE s.type = "48K"
  BY <1>2 DEF RestorePaging
<1>3. CASE s.type = "128"
  <2>1. RestorePaging(s, bank, rom) = UpdateMemoryMap128(unlocked, bank)
    BY <1>3 DEF RestorePaging, unlocked
  <2> QED BY <1>1, <1>3, <2>1, UpdateMemoryMap128Good
<1>4. CASE s.type \notin {"48K", "128"}
  <2> DEFINE t == [unlocked EXCEPT !.last_mem_config = bank,
                                   !.last_plus3_mem_config = rom,
                                   !.display_ram_bank = bank.display]
             u == UpdateMemoryMapPlus3(t)
  <2>1. t \in Machine
    BY <1>1, ByteTypes DEF Good, Sound, Machine
  <2>2. /\ t.type = s.type
        /\ t.multiface_paged = unlocked.multiface_paged
        /\ t.multiface_enabled = unlocked.multiface_enabled
        /\ t.interface1_paged = unlocked.interface1_paged
    BY <1>1 DEF Good, Sound, Machine
  <2> HIDE DEF t
  <2>3. HasPlus3Paging(t)
    BY <1>4, <2>1, <2>2, LatchTypes DEF HasPlus3Paging, AllTypes
  <2>4. Attached(t)
    BY <1>1, <2>2 DEF Good, Sound, Attached, Interface1, HasPlus3Paging
  <2>5. Good(u)
    BY <2>1, <2>3, <2>4, UpdateMemoryMapPlus3Good
  <2>6. RestorePaging(s, bank, rom) = [u EXCEPT !.memory_paging_disabled = bank.lock]
    BY <1>4 DEF RestorePaging, t, unlocked
  <2> HIDE DEF u
  <2> QED BY <2>5, <2>6, LockFieldGood, ByteTypes
<1> QED BY <1>2, <1>3, <1>4

LEMMA MachineForSnapshotGood ==
  ASSUME Good(sys), NEW type \in Types
  PROVE  /\ Good(MachineForSnapshot(type))
         /\ ~MachineForSnapshot(type).multiface_paged
         /\ ~MachineForSnapshot(type).interface1_paged
<1>1. sys.multiface_enabled \in BOOLEAN
  BY DEF Good, Sound, Machine
<1>2. Good(IF sys.type = type THEN sys
           ELSE InitialMachine(type, sys.multiface_enabled))
  BY <1>1, InitialMachineGood
<1> QED BY <1>2, UnpagePeripheralsGood DEF MachineForSnapshot

-----------------------------------------------------------------------------
(* The pending NMI: no call between its drop and the end of a step raises  *)
(* it again.                                                               *)

LEMMA NmiKept ==
  ASSUME NEW s, s \in Machine
  PROVE  /\ PageMultiface(s).multiface_nmi_ticks = s.multiface_nmi_ticks
         /\ PageInterface1(s).multiface_nmi_ticks = s.multiface_nmi_ticks
         /\ UnpageInterface1(s).multiface_nmi_ticks = s.multiface_nmi_ticks
         /\ UpdateMemoryMapPlus3(s).multiface_nmi_ticks = s.multiface_nmi_ticks
         /\ \A data \in Byte7FFD :
              UpdateMemoryMap128(s, data).multiface_nmi_ticks = s.multiface_nmi_ticks
         /\ UnpageMultiface(s).multiface_nmi_ticks = s.multiface_nmi_ticks
<1> DEFINE Kept(t) == /\ t.multiface_nmi_ticks = s.multiface_nmi_ticks
                      /\ DOMAIN t = DOMAIN s
<1>1. \A t : Kept(t) => Kept(PageMultiface(t)) /\ Kept(PageInterface1(t))
                        /\ Kept(UnpageInterface1(t))
  BY DEF PageMultiface, MapMultiface, PageInterface1, MapInterface1,
         UnpageInterface1, Machine
<1>2. \A t : Kept(t) => Kept(ReapplyMultiface(t)) /\ Kept(ReapplyInterface1(t))
  BY <1>1, Zenon DEF ReapplyMultiface, ReapplyInterface1
<1>3. \A t : Kept(t) => Kept(UpdateMemoryMapPlus3(t))
  <2> SUFFICES ASSUME NEW t, Kept(t) PROVE Kept(UpdateMemoryMapPlus3(t))
    OBVIOUS
  <2> DEFINE m == IF t.last_plus3_mem_config.allRam
                  THEN AllRam(t, t.last_plus3_mem_config.config)
                  ELSE NormalRam([t EXCEPT !.low = Rom(Plus3RomIndex(t))],
                                 t.last_mem_config.bank)
  <2>1. Kept(m)
    BY DEF AllRam, NormalRam, Machine
  <2>2. UpdateMemoryMapPlus3(t) = ReapplyMultiface(m)
    BY DEF UpdateMemoryMapPlus3
  <2> HIDE DEF m, Kept
  <2> QED BY <2>1, <2>2, <1>2
<1>4. \A data \in Byte7FFD : Kept(UpdateMemoryMap128(s, data))
  <2> SUFFICES ASSUME NEW data \in Byte7FFD
               PROVE  Kept(UpdateMemoryMap128(s, data))
    OBVIOUS
  <2> DEFINE latched ==
               IF s.memory_paging_disabled THEN s
               ELSE [s EXCEPT !.last_mem_config = data,
                              !.display_ram_bank = data.display,
                              !.ramC000 = data.bank,
                              !.low = Rom(data.rom)]
             m == [latched EXCEPT !.memory_paging_disabled = @ \/ data.lock]
  <2>1. Kept(m)
    BY DEF Machine
  <2>2. UpdateMemoryMap128(s, data) = ReapplyMultiface(ReapplyInterface1(m))
    BY DEF UpdateMemoryMap128
  <2> HIDE DEF m, Kept
  <2> QED BY <2>1, <2>2, <1>2
<1>5. Kept(UnpageMultiface(s))
  <2> DEFINE flagged == [s EXCEPT !.multiface_paged = FALSE]
             m == IF HasPlus3Paging(s) THEN UpdateMemoryMapPlus3(flagged)
                  ELSE IF s.type = "128"
                  THEN [flagged EXCEPT !.low = Rom(s.last_mem_config.rom)]
                  ELSE [flagged EXCEPT !.low = Rom(0)]
  <2>1. Kept(flagged)
    BY DEF Machine
  <2>2. Kept([flagged EXCEPT !.low = Rom(s.last_mem_config.rom)])
        /\ Kept([flagged EXCEPT !.low = Rom(0)])
    BY DEF Machine
  <2>3. UnpageMultiface(s) = IF s.multiface_enabled THEN ReapplyInterface1(m) ELSE s
    BY DEF UnpageMultiface
  <2>4. Kept(s)
    OBVIOUS
  <2> HIDE DEF flagged, Kept
  <2>5. Kept(m)
    BY <2>1, <2>2, <1>3
  <2> HIDE DEF m
  <2> QED BY <2>3, <2>4, <2>5, <1>2
<1> QED BY <1>1, <1>3, <1>4, <1>5

-----------------------------------------------------------------------------
(* The steps.                                                              *)

LEMMA EndNmiPulseGood ==
  ASSUME NEW s, Good(s)
  PROVE  /\ Good(EndNmiPulse(s))
         /\ EndNmiPulse(s).multiface_nmi_ticks = 0
         /\ EndNmiPulse(s).type = s.type
         /\ EndNmiPulse(s).multiface_enabled = s.multiface_enabled
         /\ EndNmiPulse(s).interface1_paged = s.interface1_paged
         /\ Interface1(EndNmiPulse(s)) = Interface1(s)
BY NmiFieldGood DEF EndNmiPulse, Good, Sound, Machine, Interface1, HasPlus3Paging

(* A step of the CPU leaves a well-formed machine with no pending NMI.     *)
LEMMA CpuStepGood ==
  ASSUME Good(sys), CpuStep
  PROVE  Good(sys') /\ sys'.multiface_nmi_ticks = 0
<1> DEFINE s == EndNmiPulse(sys)
<1>1. /\ Good(s) /\ s \in Machine /\ s.multiface_nmi_ticks = 0
      /\ s.type = sys.type /\ s.multiface_enabled = sys.multiface_enabled
      /\ s.interface1_paged = sys.interface1_paged
      /\ Interface1(s) = Interface1(sys)
  BY EndNmiPulseGood DEF Good, Sound
<1> HIDE DEF s
<1>2. CASE Tick
  BY <1>1, <1>2 DEF Tick, s
<1>3. ASSUME NEW data \in Byte7FFD, WritePaging128(data)
      PROVE  Good(sys') /\ sys'.multiface_nmi_ticks = 0
  BY <1>1, <1>3, UpdateMemoryMap128Good, NmiKept DEF WritePaging128, s
<1>4. ASSUME NEW data \in Byte1FFD, WritePlus3Rom(data)
      PROVE  Good(sys') /\ sys'.multiface_nmi_ticks = 0
  <2> DEFINE t == [s EXCEPT !.last_plus3_mem_config = data]
  <2>1. /\ t \in Machine /\ Attached(t) /\ HasPlus3Paging(t)
        /\ t.multiface_nmi_ticks = 0
    BY <1>1, <1>4 DEF WritePlus3Rom, Good, Sound, Machine, Attached, Interface1,
                      HasPlus3Paging, s
  <2>2. sys' = IF s.memory_paging_disabled THEN s ELSE UpdateMemoryMapPlus3(t)
    BY <1>4 DEF WritePlus3Rom, s
  <2> HIDE DEF t
  <2> QED BY <1>1, <2>1, <2>2, UpdateMemoryMapPlus3Good, NmiKept
<1>5. ASSUME NEW data \in Byte7FFD, WritePlus3Bank(data)
      PROVE  Good(sys') /\ sys'.multiface_nmi_ticks = 0
  <2> DEFINE t == [s EXCEPT !.last_mem_config = data, !.display_ram_bank = data.display]
             u == UpdateMemoryMapPlus3(t)
  <2>0. data.display \in {5, 7} /\ data.lock \in BOOLEAN
    BY ByteTypes
  <2>1. /\ t \in Machine /\ Attached(t) /\ HasPlus3Paging(t)
        /\ t.multiface_nmi_ticks = 0
    <3>1. HasPlus3Paging(s)
      BY <1>5 DEF WritePlus3Bank, s
    <3> QED BY <1>1, <2>0, <3>1, ZenonT(60)
            DEF Good, Sound, Machine, Attached, Interface1, HasPlus3Paging
  <2>2. sys' = IF s.memory_paging_disabled THEN s
               ELSE [u EXCEPT !.memory_paging_disabled = data.lock]
    BY <1>5 DEF WritePlus3Bank, s
  <2> HIDE DEF t
  <2>3. Good(u) /\ u.multiface_nmi_ticks = 0
    BY <2>1, UpdateMemoryMapPlus3Good, NmiKept
  <2> HIDE DEF u
  <2>4. [u EXCEPT !.memory_paging_disabled = data.lock].multiface_nmi_ticks = 0
    BY <2>3 DEF Good, Sound, Machine
  <2> QED BY <1>1, <2>0, <2>2, <2>3, <2>4, LockFieldGood
<1>6. CASE FetchInterface1Entry
  BY <1>1, <1>6, PageInterface1Good, NmiKept DEF FetchInterface1Entry, Good, s
<1>7. CASE FetchInterface1Exit
  <2>1. Interface1(s)
    BY <1>1, <1>7 DEF FetchInterface1Exit, Good, Sound, Attached
  <2> QED BY <1>1, <1>7, <2>1, UnpageInterface1Good, NmiKept
          DEF FetchInterface1Exit, s
<1>8. CASE ReadMultifacePort
  BY <1>1, <1>8, PageMultifaceGood, NmiKept DEF ReadMultifacePort, Good, s
<1>9. CASE WriteMultifacePort
  <2> DEFINE u == UnpageMultiface(s)
             b == u.multiface_software_lockout \/ sys.type # "48K"
  <2>1. Good(u) /\ u.multiface_nmi_ticks = 0
    BY <1>1, <1>9, UnpageMultifaceGood, NmiKept DEF WriteMultifacePort
  <2>2. sys' = [u EXCEPT !.multiface_software_lockout = b]
    BY <1>9 DEF WriteMultifacePort, s
  <2> HIDE DEF u
  <2>3. b \in BOOLEAN
    BY <2>1 DEF Good, Sound, Machine
  <2> HIDE DEF b
  <2>4. [u EXCEPT !.multiface_software_lockout = b].multiface_nmi_ticks = 0
    BY <2>1 DEF Good, Sound, Machine
  <2> QED BY <2>1, <2>2, <2>3, <2>4, LockoutFieldGood
<1> QED BY <1>2, <1>3, <1>4, <1>5, <1>6, <1>7, <1>8, <1>9 DEF CpuStep

LEMMA SnapshotDropsNmi ==
  ASSUME Good(sys), NEW type \in Types, NEW bank \in Byte7FFD, NEW rom \in Byte1FFD
  PROVE  LET t == RestorePaging(MachineForSnapshot(type), bank, rom) IN
         Good(t) /\ t.multiface_nmi_ticks = 0
<1> DEFINE m == IF sys.type = type THEN sys
                ELSE InitialMachine(type, sys.multiface_enabled)
           quiet == [m EXCEPT !.multiface_nmi_ticks = 0]
           mf == IF quiet.multiface_paged THEN UnpageMultiface(quiet) ELSE quiet
           s == MachineForSnapshot(type)
           t == RestorePaging(s, bank, rom)
<1>1. Good(m)
  BY InitialMachineGood DEF Good, Sound, Machine
<1>2. Good(quiet) /\ quiet.multiface_nmi_ticks = 0
  <2> HIDE DEF m
  <2> QED BY <1>1, NmiFieldGood DEF Good, Sound, Machine
<1>3. s = IF mf.interface1_paged THEN UnpageInterface1(mf) ELSE mf
  BY DEF MachineForSnapshot, UnpagePeripherals
<1> HIDE DEF quiet, m
<1>4. Good(mf) /\ mf.multiface_nmi_ticks = 0
  BY <1>2, UnpageMultifaceGood, NmiKept DEF Good, Sound, Attached
<1> HIDE DEF mf
<1>5. Good(s) /\ s.multiface_nmi_ticks = 0
  BY <1>3, <1>4, UnpageInterface1Good, NmiKept DEF Good, Sound, Attached
<1> HIDE DEF s
<1>6. Good(t)
  BY <1>5, RestorePagingGood
<1>7. t.multiface_nmi_ticks = 0
  <2> DEFINE unlocked == [s EXCEPT !.memory_paging_disabled = FALSE]
             restored == [unlocked EXCEPT !.last_mem_config = bank,
                                          !.last_plus3_mem_config = rom,
                                          !.display_ram_bank = bank.display]
  <2>1. unlocked \in Machine /\ unlocked.multiface_nmi_ticks = 0
    <3>1. Good(unlocked)
      BY <1>5, LockFieldGood
    <3>2. unlocked.multiface_nmi_ticks = 0
      BY <1>5 DEF Good, Sound, Machine
    <3> QED BY <3>1, <3>2 DEF Good, Sound
  <2>2. restored \in Machine /\ restored.multiface_nmi_ticks = 0
    <3> HIDE DEF unlocked
    <3>1. bank.display \in {0, 5, 7}
      BY ByteTypes
    <3> QED BY <2>1, <3>1 DEF Machine
  <2>3. t = IF s.type = "48K" THEN s
            ELSE IF s.type = "128" THEN UpdateMemoryMap128(unlocked, bank)
            ELSE [UpdateMemoryMapPlus3(restored)
                  EXCEPT !.memory_paging_disabled = bank.lock]
    BY DEF RestorePaging
  <2> HIDE DEF unlocked, restored
  <2>4. UpdateMemoryMap128(unlocked, bank).multiface_nmi_ticks = 0
    BY <2>1, NmiKept
  <2> DEFINE u == UpdateMemoryMapPlus3(restored)
  <2>5. u.multiface_nmi_ticks = 0
    BY <2>1, <2>2, NmiKept
  <2> HIDE DEF u
  <2>6. [u EXCEPT !.memory_paging_disabled = bank.lock].multiface_nmi_ticks = 0
    BY <2>5
  <2> QED BY <1>5, <2>3, <2>4, <2>6 DEF u
<1> QED BY <1>6, <1>7 DEF s

(* Restoring the latches pages no overlay in, so the snapshot sees its own *)
(* ROM.                                                                    *)
LEMMA RestorePagingBare ==
  ASSUME NEW s, s \in Machine, ~s.multiface_paged, ~s.interface1_paged,
         NEW bank \in Byte7FFD, NEW rom \in Byte1FFD
  PROVE  LET t == RestorePaging(s, bank, rom) IN
         ~t.multiface_paged /\ ~t.interface1_paged
<1> DEFINE Bare(t) == /\ ~t.multiface_paged /\ ~t.interface1_paged
                      /\ DOMAIN t = DOMAIN s
<1>1. \A t : Bare(t) => ReapplyMultiface(t) = t /\ ReapplyInterface1(t) = t
  BY DEF ReapplyMultiface, ReapplyInterface1
<1>2. \A t : Bare(t) => Bare(UpdateMemoryMapPlus3(t))
  <2> SUFFICES ASSUME NEW t, Bare(t) PROVE Bare(UpdateMemoryMapPlus3(t))
    OBVIOUS
  <2> DEFINE m == IF t.last_plus3_mem_config.allRam
                  THEN AllRam(t, t.last_plus3_mem_config.config)
                  ELSE NormalRam([t EXCEPT !.low = Rom(Plus3RomIndex(t))],
                                 t.last_mem_config.bank)
  <2>1. Bare(m)
    BY DEF AllRam, NormalRam, Machine
  <2>2. UpdateMemoryMapPlus3(t) = ReapplyMultiface(m)
    BY DEF UpdateMemoryMapPlus3
  <2> HIDE DEF m, Bare
  <2> QED BY <2>1, <2>2, <1>1
<1> DEFINE unlocked == [s EXCEPT !.memory_paging_disabled = FALSE]
<1>3. Bare(s) /\ Bare(unlocked)
  BY DEF Machine
<1>4. CASE s.type = "48K"
  BY <1>3, <1>4 DEF RestorePaging
<1>5. CASE s.type = "128"
  <2> DEFINE latched == [unlocked EXCEPT !.last_mem_config = bank,
                                         !.display_ram_bank = bank.display,
                                         !.ramC000 = bank.bank,
                                         !.low = Rom(bank.rom)]
             m == [latched EXCEPT !.memory_paging_disabled = @ \/ bank.lock]
  <2>1. Bare(m)
    BY <1>3 DEF Machine
  <2>2. RestorePaging(s, bank, rom) = ReapplyMultiface(ReapplyInterface1(m))
    <3>1. ~unlocked.memory_paging_disabled
      BY DEF Machine
    <3> QED BY <1>5, <3>1 DEF RestorePaging, UpdateMemoryMap128
  <2> HIDE DEF m
  <2> QED BY <2>1, <2>2, <1>1
<1>6. CASE s.type \notin {"48K", "128"}
  <2> DEFINE restored == [unlocked EXCEPT !.last_mem_config = bank,
                                          !.last_plus3_mem_config = rom,
                                          !.display_ram_bank = bank.display]
             u == UpdateMemoryMapPlus3(restored)
  <2>1. Bare(restored)
    BY <1>3
  <2>2. RestorePaging(s, bank, rom) =
          [u EXCEPT !.memory_paging_disabled = bank.lock]
    BY <1>6 DEF RestorePaging
  <2> HIDE DEF restored
  <2>3. Bare(u)
    BY <1>2, <2>1
  <2> HIDE DEF u
  <2> QED BY <2>2, <2>3
<1> QED BY <1>4, <1>5, <1>6

LEMMA ToggleKeepsNmi ==
  ASSUME NEW s, Good(s), NEW enabled \in BOOLEAN
  PROVE  LET t == SetMultifaceEnabled(s, enabled) IN
         /\ enabled => t.multiface_nmi_ticks = s.multiface_nmi_ticks
                       /\ t.low = s.low
                       /\ t.multiface_16k_ram_mode = s.multiface_16k_ram_mode
         /\ ~enabled => t.multiface_nmi_ticks = 0
<1>1. CASE enabled
  BY <1>1 DEF SetMultifaceEnabled, Good, Sound, Machine
<1>2. CASE ~enabled
  <2> DEFINE u == IF ~enabled /\ s.multiface_paged THEN UnpageMultiface(s) ELSE s
  <2>1. Good(u)
    BY UnpageMultifaceGood DEF Good, Sound, Attached
  <2>2. SetMultifaceEnabled(s, enabled) =
          [[u EXCEPT !.multiface_enabled = enabled]
           EXCEPT !.multiface_software_lockout = FALSE, !.multiface_nmi_ticks = 0]
    BY <1>2 DEF SetMultifaceEnabled
  <2> HIDE DEF u
  <2> QED BY <1>2, <2>1, <2>2 DEF Good, Sound, Machine
<1> QED BY <1>1, <1>2

(* A step of the front end: only the red button raises the NMI, and it has *)
(* paged the Multiface before it does.                                     *)
LEMMA FrontEndStepGood ==
  ASSUME Good(sys), NmiEntersMultiface, FrontEndStep
  PROVE  Good(sys') /\ NmiEntersMultiface'
<1>1. CASE Reset
  BY <1>1, ResetMachineGood DEF Reset, NmiEntersMultiface
<1>2. ASSUME NEW enabled \in BOOLEAN, ToggleMultiface(enabled)
      PROVE  Good(sys') /\ NmiEntersMultiface'
  <2> DEFINE really == enabled /\ (MultifaceRom \/ sys.multiface_16k_ram_mode)
  <2>1. really \in BOOLEAN
    OBVIOUS
  <2>2. sys' = SetMultifaceEnabled(sys, really)
    BY <1>2 DEF ToggleMultiface, SpectrumSetMultifaceEnabled
  <2> HIDE DEF really
  <2> QED BY <2>1, <2>2, SetMultifaceEnabledGood, ToggleKeepsNmi
          DEF NmiEntersMultiface
<1>3. CASE PressRedButton
  <2> DEFINE s == [sys EXCEPT !.multiface_software_lockout = FALSE]
             t == PageMultiface(s)
  <2>1. Good(s) /\ s.multiface_enabled
    BY <1>3, LockoutFieldGood DEF PressRedButton, Good, Sound, Machine
  <2>2. sys' = [t EXCEPT !.multiface_nmi_ticks = 1]
    BY <1>3 DEF PressRedButton
  <2> HIDE DEF s
  <2>3. Good(t) /\ t.low = MultifacePage(t.multiface_16k_ram_mode)
    BY <2>1, PageMultifaceGood DEF Good, Sound, PageMultiface, MapMultiface, Machine
  <2> HIDE DEF t
  <2>4. /\ sys'.low = t.low
        /\ sys'.multiface_16k_ram_mode = t.multiface_16k_ram_mode
    BY <2>2, <2>3 DEF Good, Sound, Machine
  <2> QED BY <2>2, <2>3, <2>4, NmiFieldGood DEF NmiEntersMultiface
<1>4. ASSUME NEW type \in Types, SwitchModel(type)
      PROVE  Good(sys') /\ NmiEntersMultiface'
  BY <1>4, InitialMachineGood
     DEF SwitchModel, NmiEntersMultiface, Good, Sound, Machine
<1>5. ASSUME NEW type \in Types, NEW bank \in SnapshotBytes, NEW rom \in Byte1FFD,
             LoadSna(type, bank) \/ LoadZ80(type, bank, rom)
      PROVE  Good(sys') /\ NmiEntersMultiface'
  BY <1>5, SnapshotDropsNmi, ZeroBytes, BytesAssumption
     DEF LoadSna, LoadZ80, NmiEntersMultiface
<1>6. ASSUME NEW type \in Types, NEW bank \in SnapshotBytes, NEW rom \in Byte1FFD,
             NEW mfce \in MultifaceBlock, LoadSzx(type, bank, rom, mfce)
      PROVE  Good(sys') /\ NmiEntersMultiface'
  <2> DEFINE restored == RestorePaging(MachineForSnapshot(type), bank, rom)
             cleared == [restored EXCEPT
                           !.multiface_software_lockout = FALSE,
                           !.multiface_red_button_disabled = FALSE,
                           !.multiface_16k_ram_mode = mfce.present /\ mfce.ram16k]
             wanted == /\ mfce.present /\ ~mfce.disabled
                       /\ MultifaceRom \/ cleared.multiface_16k_ram_mode
             attached == SetMultifaceEnabled(cleared, wanted)
             flagged == [attached EXCEPT
                           !.multiface_software_lockout = mfce.lockout,
                           !.multiface_red_button_disabled = mfce.redButtonDisabled]
  <2>1. /\ mfce.present \in BOOLEAN /\ mfce.ram16k \in BOOLEAN
        /\ mfce.lockout \in BOOLEAN /\ mfce.redButtonDisabled \in BOOLEAN
        /\ mfce.disabled \in BOOLEAN
    <3>1. CASE mfce = NoMultifaceBlock
      BY <3>1 DEF NoMultifaceBlock
    <3>2. CASE mfce # NoMultifaceBlock
      BY <3>2 DEF MultifaceBlock
    <3> QED BY <3>1, <3>2
  <2>2. /\ Good(restored) /\ restored.multiface_nmi_ticks = 0
        /\ ~restored.multiface_paged
    <3>1. Good(MachineForSnapshot(type)) /\ MachineForSnapshot(type) \in Machine
      BY MachineForSnapshotGood DEF Good, Sound
    <3>2. bank \in Byte7FFD
      BY BytesAssumption
    <3> QED BY <3>1, <3>2, SnapshotDropsNmi, MachineForSnapshotGood,
               RestorePagingBare
  <2> HIDE DEF restored
  <2>3. Good(cleared) /\ cleared.multiface_nmi_ticks = 0
    <3> DEFINE mode == mfce.present /\ mfce.ram16k
    <3>0. mode \in BOOLEAN
      OBVIOUS
    <3>5. cleared = [restored EXCEPT !.multiface_software_lockout = FALSE,
                                     !.multiface_red_button_disabled = FALSE,
                                     !.multiface_16k_ram_mode = mode]
      OBVIOUS
    <3> HIDE DEF mode, cleared
    <3>1. restored \in Machine
      BY <2>2 DEF Good, Sound
    <3>2. cleared \in Machine
      BY <3>0, <3>1, <3>5 DEF Machine
    <3>3. /\ SameLatches(restored, cleared)
          /\ cleared.low = restored.low
          /\ cleared.ram4000 = restored.ram4000
          /\ cleared.ram8000 = restored.ram8000
          /\ cleared.ramC000 = restored.ramC000
      BY <3>1, <3>5 DEF Machine, SameLatches
    <3>4. /\ cleared.multiface_paged = restored.multiface_paged
          /\ cleared.interface1_paged = restored.interface1_paged
          /\ cleared.multiface_nmi_ticks = 0
      BY <2>2, <3>1, <3>5 DEF Machine
    <3> QED BY <2>2, <3>2, <3>3, <3>4, LatchedSame
            DEF Good, Sound, Attached, RamFollowsLatches, LowExplained
  <2> HIDE DEF cleared
  <2>4. wanted \in BOOLEAN
    OBVIOUS
  <2> HIDE DEF wanted
  <2>5. Good(attached) /\ attached.multiface_nmi_ticks = 0
    BY <2>3, <2>4, SetMultifaceEnabledGood, ToggleKeepsNmi
  <2>6. sys' = IF ~(mfce.present /\ attached.multiface_enabled) THEN attached
               ELSE IF mfce.paged THEN PageMultiface(flagged)
               ELSE flagged
    BY <1>6 DEF LoadSzx, SpectrumSetMultifaceEnabled, attached, wanted, cleared, restored
  <2> HIDE DEF attached
  <2>7. /\ Good(flagged) /\ flagged.multiface_nmi_ticks = 0
        /\ flagged.multiface_enabled = attached.multiface_enabled
    <3>1. flagged \in Machine /\ SameLatches(attached, flagged)
      BY <2>1, <2>5, ZenonT(60) DEF Good, Sound, Machine, SameLatches
    <3>2. /\ flagged.low = attached.low
          /\ flagged.ram4000 = attached.ram4000
          /\ flagged.ram8000 = attached.ram8000
          /\ flagged.ramC000 = attached.ramC000
          /\ flagged.multiface_paged = attached.multiface_paged
          /\ flagged.multiface_enabled = attached.multiface_enabled
          /\ flagged.interface1_paged = attached.interface1_paged
          /\ flagged.multiface_16k_ram_mode = attached.multiface_16k_ram_mode
          /\ flagged.multiface_nmi_ticks = 0
      BY <2>5 DEF Good, Sound, Machine
    <3> HIDE DEF flagged
    <3> QED BY <2>5, <3>1, <3>2, GoodByFields
  <2> HIDE DEF flagged
  <2>8. attached.multiface_enabled =>
          /\ Good(PageMultiface(flagged))
          /\ PageMultiface(flagged).multiface_nmi_ticks = 0
    BY <2>7, PageMultifaceGood, NmiKept DEF Good, Sound
  <2>9. Good(sys') /\ sys'.multiface_nmi_ticks = 0
    BY <2>5, <2>6, <2>7, <2>8
  <2> QED BY <2>9 DEF NmiEntersMultiface
<1> QED BY <1>1, <1>2, <1>3, <1>4, <1>5, <1>6 DEF FrontEndStep, LoadSnapshot

-----------------------------------------------------------------------------
(* The theorems.                                                           *)

LEMMA Inductive == Spec => []IInv
<1>1. Init => IInv
  BY InitialMachineGood DEF Init, IInv, NmiEntersMultiface
<1>2. IInv /\ [Next]_sys => IInv'
  <2> SUFFICES ASSUME IInv, [Next]_sys PROVE IInv'
    OBVIOUS
  <2>1. CASE CpuStep
    BY <2>1, CpuStepGood DEF IInv, NmiEntersMultiface
  <2>2. CASE FrontEndStep
    BY <2>2, FrontEndStepGood DEF IInv
  <2>3. CASE UNCHANGED sys
    BY <2>3 DEF IInv, NmiEntersMultiface
  <2> QED BY <2>1, <2>2, <2>3 DEF Next
<1> QED BY <1>1, <1>2, PTL DEF Spec

(* The machine keeps its types for every set of models, banks and files.   *)
THEOREM TypeCorrect == Spec => []TypeOK
<1>1. IInv => TypeOK
  BY DEF IInv, Good, Sound, TypeOK
<1> QED BY <1>1, Inductive, PTL

(* Memory is what the flags and the latches say: the RAM above 4000 always, *)
(* 0000-3FFF up to the order in which overlays hid each other.             *)
THEOREM MemoryFollowsFlags ==
  Spec => [](OverlayAttached /\ UpperFollowsLatches /\ NoStaleOverlay /\ OverlayMapped)
<1>1. IInv => OverlayAttached /\ UpperFollowsLatches /\ NoStaleOverlay /\ OverlayMapped
  BY DEF IInv, Good, Sound, Attached, LowExplained, OverlayAttached,
         UpperFollowsLatches, NoStaleOverlay, OverlayMapped
<1> QED BY <1>1, Inductive, PTL

(* While the button's NMI pulse is raised, the Multiface ROM is mapped.    *)
THEOREM NmiFindsItsHandler == Spec => []NmiEntersMultiface
<1>1. IInv => NmiEntersMultiface
  BY DEF IInv
<1> QED BY <1>1, Inductive, PTL

(* From every reachable machine, loading an SNA or Z80 file leaves exactly *)
(* the memory the file's latches select.                                   *)
THEOREM SnapshotsSeeTheirRom == Spec => []SnapshotSeesOwnRom
<1>1. IInv => SnapshotSeesOwnRom
  <2> SUFFICES ASSUME IInv, NEW type \in Types, NEW bank \in SnapshotBytes,
                      NEW rom \in Byte1FFD
               PROVE  LET t == RestorePaging(MachineForSnapshot(type), bank, rom)
                      IN  t.low = LatchedLow(t) /\ RamFollowsLatches(t)
    BY DEF SnapshotSeesOwnRom
  <2> DEFINE s == MachineForSnapshot(type)
             t == RestorePaging(s, bank, rom)
  <2>1. bank \in Byte7FFD
    BY BytesAssumption
  <2>2. Good(s) /\ s \in Machine /\ ~s.multiface_paged /\ ~s.interface1_paged
    BY MachineForSnapshotGood DEF IInv, Good, Sound
  <2> HIDE DEF s
  <2>3. Good(t) /\ ~t.multiface_paged /\ ~t.interface1_paged
    BY <2>1, <2>2, RestorePagingGood, RestorePagingBare
  <2> HIDE DEF t
  <2>4. t.low = LatchedLow(t) /\ RamFollowsLatches(t)
    BY <2>3 DEF Good, Sound, LowExplained
  <2> QED BY <2>4 DEF t, s
<1> QED BY <1>1, Inductive, PTL

-----------------------------------------------------------------------------
(* The locks.  Held(s, t): between s and t no latch moved, the lockout is  *)
(* as it was and no Multiface was paged in.                                *)

Held(s, t) ==
  /\ DOMAIN t = DOMAIN s
  /\ SameLatches(s, t)
  /\ t.display_ram_bank = s.display_ram_bank
  /\ t.memory_paging_disabled = s.memory_paging_disabled
  /\ t.multiface_software_lockout = s.multiface_software_lockout
  /\ t.multiface_paged => s.multiface_paged

\* The same without the latches, for a 128 whose paging is not locked.
HeldOut(s, t) ==
  /\ DOMAIN t = DOMAIN s
  /\ t.multiface_software_lockout = s.multiface_software_lockout
  /\ t.multiface_paged => s.multiface_paged

LEMMA OverlaysHeld ==
  ASSUME NEW s \in Machine, NEW t
  PROVE  /\ Held(s, t) => Held(s, ReapplyMultiface(t))
         /\ Held(s, t) => Held(s, ReapplyInterface1(t))
         /\ Held(s, t) => Held(s, PageInterface1(t))
         /\ Held(s, t) => Held(s, UnpageInterface1(t))
         /\ HeldOut(s, t) => HeldOut(s, ReapplyMultiface(t))
         /\ HeldOut(s, t) => HeldOut(s, ReapplyInterface1(t))
BY DEF Held, HeldOut, ReapplyMultiface, PageMultiface, MapMultiface,
       ReapplyInterface1, PageInterface1, MapInterface1, UnpageInterface1,
       SameLatches, Machine

LEMMA Plus3Held ==
  ASSUME NEW s \in Machine, NEW t
  PROVE  /\ Held(s, t) => Held(s, UpdateMemoryMapPlus3(t))
         /\ HeldOut(s, t) => HeldOut(s, UpdateMemoryMapPlus3(t))
<1> DEFINE m == IF t.last_plus3_mem_config.allRam
                THEN AllRam(t, t.last_plus3_mem_config.config)
                ELSE NormalRam([t EXCEPT !.low = Rom(Plus3RomIndex(t))],
                               t.last_mem_config.bank)
<1>1. Held(s, t) => Held(s, m)
  BY DEF Held, SameLatches, AllRam, NormalRam, Machine
<1>2. HeldOut(s, t) => HeldOut(s, m)
  BY DEF HeldOut, AllRam, NormalRam, Machine
<1>3. UpdateMemoryMapPlus3(t) = ReapplyMultiface(m)
  BY DEF UpdateMemoryMapPlus3
<1> HIDE DEF m
<1> QED BY <1>1, <1>2, <1>3, OverlaysHeld

LEMMA UnpageHeld ==
  ASSUME NEW s \in Machine
  PROVE  Held(s, UnpageMultiface(s))
<1> DEFINE flagged == [s EXCEPT !.multiface_paged = FALSE]
           m == IF HasPlus3Paging(s) THEN UpdateMemoryMapPlus3(flagged)
                ELSE IF s.type = "128"
                THEN [flagged EXCEPT !.low = Rom(s.last_mem_config.rom)]
                ELSE [flagged EXCEPT !.low = Rom(0)]
<1>1. Held(s, s) /\ Held(s, flagged)
  BY DEF Held, SameLatches, Machine
<1>2. /\ Held(s, [flagged EXCEPT !.low = Rom(s.last_mem_config.rom)])
      /\ Held(s, [flagged EXCEPT !.low = Rom(0)])
  BY DEF Held, SameLatches, Machine
<1>3. UnpageMultiface(s) = IF s.multiface_enabled THEN ReapplyInterface1(m) ELSE s
  BY DEF UnpageMultiface
<1> HIDE DEF flagged
<1>4. Held(s, m)
  BY <1>1, <1>2, Plus3Held
<1> HIDE DEF m
<1> QED BY <1>1, <1>3, <1>4, OverlaysHeld

LEMMA Update128Held ==
  ASSUME NEW s \in Machine, NEW data \in Byte7FFD
  PROVE  /\ HeldOut(s, UpdateMemoryMap128(s, data))
         /\ s.memory_paging_disabled => Held(s, UpdateMemoryMap128(s, data))
<1> DEFINE latched ==
             IF s.memory_paging_disabled THEN s
             ELSE [s EXCEPT !.last_mem_config = data,
                            !.display_ram_bank = data.display,
                            !.ramC000 = data.bank,
                            !.low = Rom(data.rom)]
           m == [latched EXCEPT !.memory_paging_disabled = @ \/ data.lock]
<1>1. HeldOut(s, m)
  BY DEF HeldOut, Machine
<1>2. s.memory_paging_disabled => Held(s, m)
  BY DEF Held, SameLatches, Machine
<1>3. UpdateMemoryMap128(s, data) = ReapplyMultiface(ReapplyInterface1(m))
  BY DEF UpdateMemoryMap128
<1> HIDE DEF m
<1> QED BY <1>1, <1>2, <1>3, OverlaysHeld

(* What a step of the CPU does to the locks of the machine.                *)
LatchesHeld ==
  sys.memory_paging_disabled =>
    /\ SameLatches(sys, sys')
    /\ sys'.display_ram_bank = sys.display_ram_bank
    /\ sys'.memory_paging_disabled
LockoutHeld ==
  sys.multiface_software_lockout =>
    /\ sys'.multiface_software_lockout
    /\ sys'.multiface_paged => sys.multiface_paged

LEMMA CpuStepHeld ==
  ASSUME Good(sys), CpuStep
  PROVE  LatchesHeld /\ LockoutHeld
<1> DEFINE s == EndNmiPulse(sys)
<1>1. /\ s \in Machine
      /\ SameLatches(sys, s)
      /\ s.display_ram_bank = sys.display_ram_bank
      /\ s.memory_paging_disabled = sys.memory_paging_disabled
      /\ s.multiface_software_lockout = sys.multiface_software_lockout
      /\ s.multiface_paged = sys.multiface_paged
      /\ s.multiface_enabled = sys.multiface_enabled
  BY EndNmiPulseGood DEF EndNmiPulse, Good, Sound, Machine, SameLatches
<1>2. Held(s, s)
  BY DEF Held, SameLatches
<1> HIDE DEF s
<1>3. Held(s, sys') => LatchesHeld /\ LockoutHeld
  BY <1>1 DEF Held, SameLatches, LatchesHeld, LockoutHeld
<1>4. HeldOut(s, sys') => LockoutHeld
  BY <1>1 DEF HeldOut, LockoutHeld
<1>5. CASE Tick
  BY <1>2, <1>3, <1>5 DEF Tick, s
<1>6. ASSUME NEW data \in Byte7FFD, WritePaging128(data)
      PROVE  LatchesHeld /\ LockoutHeld
  <2>1. sys' = UpdateMemoryMap128(s, data)
    BY <1>6 DEF WritePaging128, s
  <2>2. CASE sys.memory_paging_disabled
    BY <1>1, <1>3, <2>1, <2>2, Update128Held
  <2>3. CASE ~sys.memory_paging_disabled
    BY <1>1, <1>4, <2>1, <2>3, Update128Held DEF LatchesHeld
  <2> QED BY <2>2, <2>3 DEF Good, Sound, Machine
<1>7. ASSUME NEW data \in Byte1FFD, WritePlus3Rom(data)
      PROVE  LatchesHeld /\ LockoutHeld
  <2> DEFINE t == [s EXCEPT !.last_plus3_mem_config = data]
  <2>1. HeldOut(s, t)
    BY <1>1 DEF HeldOut, Machine
  <2>2. sys' = IF s.memory_paging_disabled THEN s ELSE UpdateMemoryMapPlus3(t)
    BY <1>7 DEF WritePlus3Rom, s
  <2> HIDE DEF t
  <2>3. CASE sys.memory_paging_disabled
    BY <1>1, <1>2, <1>3, <2>2, <2>3
  <2>4. CASE ~sys.memory_paging_disabled
    BY <1>1, <1>4, <2>1, <2>2, <2>4, Plus3Held DEF LatchesHeld
  <2> QED BY <2>3, <2>4
<1>8. ASSUME NEW data \in Byte7FFD, WritePlus3Bank(data)
      PROVE  LatchesHeld /\ LockoutHeld
  <2> DEFINE t == [s EXCEPT !.last_mem_config = data, !.display_ram_bank = data.display]
             u == UpdateMemoryMapPlus3(t)
  <2>1. HeldOut(s, t)
    BY <1>1 DEF HeldOut, Machine
  <2>2. sys' = IF s.memory_paging_disabled THEN s
               ELSE [u EXCEPT !.memory_paging_disabled = data.lock]
    BY <1>8 DEF WritePlus3Bank, s
  <2> HIDE DEF t
  <2>3. HeldOut(s, u)
    BY <1>1, <2>1, Plus3Held
  <2> HIDE DEF u
  <2>4. HeldOut(s, [u EXCEPT !.memory_paging_disabled = data.lock])
    BY <1>1, <2>3 DEF HeldOut, Machine
  <2>5. CASE sys.memory_paging_disabled
    BY <1>1, <1>2, <1>3, <2>2, <2>5
  <2>6. CASE ~sys.memory_paging_disabled
    BY <1>1, <1>4, <2>2, <2>4, <2>6 DEF LatchesHeld
  <2> QED BY <2>5, <2>6
<1>9. CASE FetchInterface1Entry
  BY <1>1, <1>2, <1>3, <1>9, OverlaysHeld DEF FetchInterface1Entry, s
<1>10. CASE FetchInterface1Exit
  BY <1>1, <1>2, <1>3, <1>10, OverlaysHeld DEF FetchInterface1Exit, s
<1>11. CASE ReadMultifacePort
  <2>1. sys' = IF sys.multiface_software_lockout THEN s ELSE PageMultiface(s)
    BY <1>11 DEF ReadMultifacePort, s
  <2>2. CASE sys.multiface_software_lockout
    BY <1>2, <1>3, <2>1, <2>2
  <2>3. CASE ~sys.multiface_software_lockout
    BY <1>1, <2>1, <2>3
       DEF PageMultiface, MapMultiface, Machine, SameLatches, LatchesHeld, LockoutHeld
  <2> QED BY <2>2, <2>3
<1>12. CASE WriteMultifacePort
  <2> DEFINE u == UnpageMultiface(s)
             b == u.multiface_software_lockout \/ sys.type # "48K"
  <2>1. Held(s, u)
    BY <1>1, UnpageHeld
  <2>2. sys' = [u EXCEPT !.multiface_software_lockout = b]
    BY <1>12 DEF WriteMultifacePort, s
  <2> HIDE DEF u
  <2> QED BY <1>1, <2>1, <2>2
          DEF Held, SameLatches, Machine, LatchesHeld, LockoutHeld
<1> QED BY <1>5, <1>6, <1>7, <1>8, <1>9, <1>10, <1>11, <1>12 DEF CpuStep

(* A locked paging state is out of the program's reach: the latches, the   *)
(* display bank and the memory above 4000 stay.                            *)
THEOREM PagingLockHolds == Spec => LockHolds
<1> DEFINE Locked == sys.memory_paging_disabled /\ CpuStep =>
                       /\ sys'.memory_paging_disabled
                       /\ sys'.last_mem_config = sys.last_mem_config
                       /\ sys'.last_plus3_mem_config = sys.last_plus3_mem_config
                       /\ sys'.display_ram_bank = sys.display_ram_bank
                       /\ sys'.ram4000 = sys.ram4000
                       /\ sys'.ram8000 = sys.ram8000
                       /\ sys'.ramC000 = sys.ramC000
<1>1. IInv /\ [Next]_sys => [Locked]_sys
  <2> SUFFICES ASSUME IInv, CpuStep, sys.memory_paging_disabled PROVE Locked
    OBVIOUS
  <2>1. /\ SameLatches(sys, sys') /\ sys'.memory_paging_disabled
        /\ sys'.display_ram_bank = sys.display_ram_bank
    BY CpuStepHeld DEF IInv, LatchesHeld
  <2>2. RamFollowsLatches(sys) /\ RamFollowsLatches(sys')
    BY CpuStepGood DEF IInv, Good, Sound
  <2> QED BY <2>1, <2>2, LatchedSame DEF RamFollowsLatches, SameLatches
<1> QED BY <1>1, Inductive, PTL DEF Spec, LockHolds

(* A Multiface locked out by its software is out of the program's reach.   *)
THEOREM MultifaceLockoutHolds == Spec => LockoutHolds
<1> DEFINE Out == sys.multiface_software_lockout /\ CpuStep =>
                    /\ sys'.multiface_software_lockout
                    /\ sys'.multiface_paged => sys.multiface_paged
<1>1. IInv /\ [Next]_sys => [Out]_sys
  BY CpuStepHeld DEF IInv, LockoutHeld
<1> QED BY <1>1, Inductive, PTL DEF Spec, LockoutHolds

(* Neither lock opens the other: port 7FFD and the Multiface stay locked.   *)
THEOREM BothLocksHold == Spec => LocksHold
BY PagingLockHolds, MultifaceLockoutHolds DEF LocksHold

-----------------------------------------------------------------------------
(* Iteration: what a recursive function over 0..n gives.                   *)

LEMMA LeastIn ==
  ASSUME NEW B \in SUBSET Nat, B # {}
  PROVE  \E x \in B : \A y \in B : x <= y
<1> DEFINE Less == {ss \in Nat \X Nat : ss[1] < ss[2]}
<1>1. IsWellFoundedOn(Less, Nat)
  BY NatLessThanWellFounded, Zenon DEF OpToRel
<1>2. \A x, y \in B : x < y => <<x, y>> \in Less
  OBVIOUS
<1> HIDE DEF Less
<1>3. PICK x \in B : \A y \in B : ~(<<y, x>> \in Less)
  BY <1>1, WFMin
<1>4. \A y \in B : x <= y
  <2> TAKE y \in B
  <2>1. ~(y < x) /\ x \in Nat /\ y \in Nat
    BY <1>2, <1>3
  <2> QED BY <2>1
<1> QED BY <1>4

\* A property of the first value that each step keeps holds of all.
LEMMA IterationKeeps ==
  ASSUME NEW S, NEW n \in Nat, NEW g, g[0] \in S,
         \A i \in 1..n : g[i - 1] \in S => g[i] \in S
  PROVE  \A i \in 0..n : g[i] \in S
<1> DEFINE Bad == {i \in 0..n : g[i] \notin S}
<1>1. SUFFICES ASSUME Bad # {} PROVE FALSE
  OBVIOUS
<1>2. PICK m \in Bad : \A y \in Bad : m <= y
  <2>1. Bad \in SUBSET Nat
    OBVIOUS
  <2> QED BY <1>1, <2>1, LeastIn
<1>3. m \in 0..n /\ g[m] \notin S /\ m # 0
  BY <1>2
<1>4. m \in 1..n /\ m - 1 \in 0..n /\ m - 1 \notin Bad
  BY <1>2, <1>3
<1> QED BY <1>3, <1>4

\* f is the iteration of a step T on S from b.
Iterates(f, S, n, b, T) ==
  /\ f \in [0..n -> S] /\ f[0] = b
  /\ \A i \in 1..n : f[i] = T[<<f[i - 1], i>>]

\* An iteration has values.
LEMMA IterationExists ==
  ASSUME NEW S, NEW n \in Nat, NEW b \in S, NEW T \in [S \X (1..n) -> S]
  PROVE  \E f : Iterates(f, S, n, b, T)
<1> USE DEF Iterates
<1> DEFINE Works(f, m) == Iterates(f, S, m, b, T)
           Bad == {m \in 0..n : ~ \E f : Works(f, m)}
<1>1. SUFFICES ASSUME Bad # {} PROVE FALSE
  <2>1. SUFFICES ASSUME Bad = {} PROVE \E f : Works(f, n)
    OBVIOUS
  <2>2. n \in 0..n /\ n \notin Bad
    BY <2>1
  <2> QED BY <2>2
<1>2. PICK m \in Bad : \A y \in Bad : m <= y
  <2>1. Bad \in SUBSET Nat
    OBVIOUS
  <2> HIDE DEF Bad
  <2> QED BY <1>1, <2>1, LeastIn
<1>3. m \in 0..n /\ ~ \E f : Works(f, m)
  BY <1>2
<1>4. m # 0
  <2> SUFFICES ASSUME m = 0 PROVE FALSE
    OBVIOUS
  <2> DEFINE f == [i \in 0..0 |-> b]
  <2>1. Works(f, 0)
    OBVIOUS
  <2> QED BY <1>3, <2>1
<1>5. m - 1 \in 0..n /\ m - 1 \notin Bad
  <2>1. m - 1 \in 0..n /\ ~(m <= m - 1)
    BY <1>3, <1>4
  <2> HIDE DEF Bad
  <2> QED BY <1>2, <2>1
<1>6. PICK f : Works(f, m - 1)
  BY <1>5
<1> DEFINE g == [i \in 0..m |-> IF i = m THEN T[<<f[m - 1], m>>] ELSE f[i]]
<1>7. m - 1 \in 0..(m - 1) /\ m \in 1..n
  BY <1>3, <1>4
<1>8. f[m - 1] \in S /\ T[<<f[m - 1], m>>] \in S
  BY <1>6, <1>7
<1>9. \A i \in 0..m : i # m => i \in 0..(m - 1)
  BY <1>3
<1>10. g \in [0..m -> S]
  BY <1>6, <1>8, <1>9
<1>11. g[0] = b
  BY <1>3, <1>4, <1>6
<1>12. \A i \in 1..m : g[i] = T[<<g[i - 1], i>>]
  <2> TAKE i \in 1..m
  <2>1. i - 1 \in 0..m /\ i - 1 # m /\ i \in 0..m
    BY <1>3
  <2>2. g[i - 1] = f[i - 1]
    BY <2>1
  <2>3. CASE i = m
    BY <2>1, <2>2, <2>3
  <2>4. CASE i # m
    <3>1. i \in 1..(m - 1)
      BY <1>3, <2>4
    <3>2. f[i] = T[<<f[i - 1], i>>]
      BY <1>6, <3>1
    <3> QED BY <2>1, <2>2, <2>4, <3>2
  <2> QED BY <2>3, <2>4
<1>13. Works(g, m)
  BY <1>10, <1>11, <1>12
<1> HIDE DEF g, Works
<1> QED BY <1>3, <1>13

-----------------------------------------------------------------------------
(* The rows of an instruction: the first whose guard holds.                *)

\* Induction up to a bound.
LEMMA CountsUp ==
  ASSUME NEW n \in Nat, NEW B, 0 \in B, \A i \in 1..n : i - 1 \in B => i \in B
  PROVE  \A i \in 0..n : i \in B
<1> DEFINE Bad == {i \in 0..n : i \notin B}
<1>1. SUFFICES ASSUME Bad # {} PROVE FALSE
  OBVIOUS
<1>2. PICK m \in Bad : \A y \in Bad : m <= y
  <2>1. Bad \in SUBSET Nat
    OBVIOUS
  <2> QED BY <1>1, <2>1, LeastIn
<1>3. m \in 1..n /\ m - 1 \in 0..n /\ m - 1 \notin Bad
  BY <1>2
<1> QED BY <1>2, <1>3

LEMMA FirstOfNone == FirstOf(<<>>) = Refuse
BY DEF FirstOf, SelectInSeq

\* A list of rows answers with its first row, if that row's guard holds, and
\* else with the rest.
LEMMA FirstOfLeads ==
  ASSUME NEW S, NEW a \in S, NEW t \in Seq(S)
  PROVE  FirstOf(<<a>> \o t) = IF a.when THEN a.form ELSE FirstOf(t)
<1> DEFINE s == <<a>> \o t
           I == {i \in 1..Len(s) : s[i].when}
           J == {i \in 1..Len(t) : t[i].when}
<1>1. /\ Len(s) = Len(t) + 1 /\ Len(t) \in Nat /\ s[1] = a
      /\ \A i \in 1..Len(t) : s[i + 1] = t[i]
  OBVIOUS
<1>2. I \in SUBSET Nat /\ J \in SUBSET Nat /\ 0 \notin I /\ 0 \notin J
  BY <1>1
<1>3. I # {} => Min(I) \in I /\ \A y \in I : Min(I) <= y
  BY <1>2, LeastIn DEF Min
<1>4. J # {} => Min(J) \in J /\ \A y \in J : Min(J) <= y
  BY <1>2, LeastIn DEF Min
<1>5. FirstOf(s) = IF I = {} THEN Refuse ELSE s[Min(I)].form
  <2>1. SelectInSeq(s, LAMBDA r : r.when) = IF I # {} THEN Min(I) ELSE 0
    BY DEF SelectInSeq
  <2> HIDE DEF I, s
  <2> QED BY <1>2, <1>3, <2>1 DEF FirstOf
<1>6. FirstOf(t) = IF J = {} THEN Refuse ELSE t[Min(J)].form
  <2>1. SelectInSeq(t, LAMBDA r : r.when) = IF J # {} THEN Min(J) ELSE 0
    BY DEF SelectInSeq
  <2> HIDE DEF J
  <2> QED BY <1>2, <1>4, <2>1 DEF FirstOf
<1>7. \A i \in Nat : i \in I <=> (i = 1 /\ a.when) \/ (i - 1 \in J)
  <2> TAKE i \in Nat
  <2>1. CASE i = 0
    BY <2>1, <1>1
  <2>2. CASE i = 1
    BY <2>2, <1>1
  <2>3. CASE i > 1
    <3>1. i - 1 \in Nat /\ i - 1 >= 1 /\ (i - 1) + 1 = i
      BY <2>3
    <3>2. i \in 1..Len(s) <=> i - 1 \in 1..Len(t)
      BY <1>1, <3>1
    <3>3. i - 1 \in 1..Len(t) => s[i] = t[i - 1]
      BY <1>1, <3>1
    <3> HIDE DEF s
    <3> QED BY <2>3, <3>2, <3>3
  <2> QED BY <2>1, <2>2, <2>3
<1> HIDE DEF I, J
<1>8. CASE a.when
  <2>1. 1 \in I
    BY <1>7, <1>8
  <2>2. Min(I) \in I /\ Min(I) <= 1 /\ Min(I) \in Nat /\ Min(I) # 0
    BY <1>2, <1>3, <2>1
  <2>3. Min(I) = 1
    BY <2>2
  <2> QED BY <1>1, <1>5, <1>8, <2>1, <2>3
<1>9. CASE ~a.when
  <2>1. CASE J = {}
    <3>1. I = {}
      BY <1>2, <1>7, <1>9, <2>1
    <3> QED BY <1>5, <1>6, <1>9, <2>1, <3>1
  <2>2. CASE J # {}
    <3>1. Min(J) \in J /\ Min(J) \in Nat
      BY <1>2, <1>4, <2>2
    <3>2. Min(J) + 1 \in I
      BY <1>7, <3>1
    <3>3. Min(I) \in I /\ Min(I) \in Nat /\ Min(I) <= Min(J) + 1
      BY <1>2, <1>3, <3>2
    <3>4. Min(I) - 1 \in J /\ Min(J) <= Min(I) - 1
      BY <1>4, <1>7, <1>9, <2>2, <3>3
    <3>5. Min(I) = Min(J) + 1
      BY <3>1, <3>3, <3>4
    <3>6. s[Min(I)] = t[Min(J)]
      BY <1>1, <3>1, <3>5 DEF J
    <3>7. I # {}
      BY <3>2
    <3>8. FirstOf(s) = s[Min(I)].form /\ FirstOf(t) = t[Min(J)].form
      BY <1>5, <1>6, <2>2, <3>7
    <3> HIDE DEF s
    <3>9. FirstOf(s) = FirstOf(t)
      BY <3>6, <3>8
    <3> QED BY <1>9, <3>9 DEF s
  <2> QED BY <2>1, <2>2
<1> QED BY <1>8, <1>9

LEMMA FirstOf1 ==
  ASSUME NEW a
  PROVE  FirstOf(<<a>>) =
           IF a.when THEN a.form ELSE Refuse
<1> DEFINE S == {a}
           t == <<>>
<1>1. a \in S /\ t \in Seq(S)
  OBVIOUS
<1>2. <<a>> \o t = <<a>>
  OBVIOUS
<1>3. FirstOf(t) =
        Refuse
  BY FirstOfNone
<1> HIDE DEF S, t
<1>4. FirstOf(<<a>> \o t) = IF a.when THEN a.form ELSE FirstOf(t)
  BY <1>1, FirstOfLeads
<1> QED BY <1>2, <1>3, <1>4

LEMMA FirstOf2 ==
  ASSUME NEW a, NEW b
  PROVE  FirstOf(<<a, b>>) =
           IF a.when THEN a.form ELSE IF b.when THEN b.form ELSE Refuse
<1> DEFINE S == {a, b}
           t == <<b>>
<1>1. a \in S /\ t \in Seq(S)
  OBVIOUS
<1>2. <<a>> \o t = <<a, b>>
  <2> DEFINE u == <<a>> \o t
             w == <<a, b>>
  <2>1. u \in Seq(S) /\ Len(u) = 2 /\ u[1] = a /\ \A i \in 1..1 : u[i + 1] = t[i]
    BY <1>1
  <2>2. w \in Seq(S) /\ Len(w) = 2
    OBVIOUS
  <2>3. u[1] = a /\ u[2] = b
    <3>1. u[2] = t[1]
      <4> HIDE DEF u, t
      <4> QED BY <2>1
    <3> QED BY <2>1, <3>1
  <2>4. \A i \in 1..2 : u[i] = w[i]
    <3>1. w[1] = a /\ w[2] = b
      OBVIOUS
    <3> HIDE DEF u, w
    <3> QED BY <2>3, <3>1
  <2> HIDE DEF u, w, S
  <2>5. u = w
    BY <2>1, <2>2, <2>4, SeqEqual
  <2> QED BY <2>5 DEF u, w
<1>3. FirstOf(t) =
        IF b.when THEN b.form ELSE Refuse
  BY FirstOf1
<1> HIDE DEF S, t
<1>4. FirstOf(<<a>> \o t) = IF a.when THEN a.form ELSE FirstOf(t)
  BY <1>1, FirstOfLeads
<1> QED BY <1>2, <1>3, <1>4

LEMMA FirstOf3 ==
  ASSUME NEW a, NEW b, NEW c
  PROVE  FirstOf(<<a, b, c>>) =
           IF a.when THEN a.form ELSE IF b.when THEN b.form ELSE IF c.when THEN c.form
           ELSE Refuse
<1> DEFINE S == {a, b, c}
           t == <<b, c>>
<1>1. a \in S /\ t \in Seq(S)
  OBVIOUS
<1>2. <<a>> \o t = <<a, b, c>>
  <2> DEFINE u == <<a>> \o t
             w == <<a, b, c>>
  <2>1. u \in Seq(S) /\ Len(u) = 3 /\ u[1] = a /\ \A i \in 1..2 : u[i + 1] = t[i]
    BY <1>1
  <2>2. w \in Seq(S) /\ Len(w) = 3
    OBVIOUS
  <2>3. u[1] = a /\ u[2] = b /\ u[3] = c
    <3>1. u[2] = t[1] /\ u[3] = t[2]
      <4> HIDE DEF u, t
      <4> QED BY <2>1
    <3> QED BY <2>1, <3>1
  <2>4. \A i \in 1..3 : u[i] = w[i]
    <3>1. w[1] = a /\ w[2] = b /\ w[3] = c
      OBVIOUS
    <3> HIDE DEF u, w
    <3> QED BY <2>3, <3>1
  <2> HIDE DEF u, w, S
  <2>5. u = w
    BY <2>1, <2>2, <2>4, SeqEqual
  <2> QED BY <2>5 DEF u, w
<1>3. FirstOf(t) =
        IF b.when THEN b.form ELSE IF c.when THEN c.form ELSE Refuse
  BY FirstOf2
<1> HIDE DEF S, t
<1>4. FirstOf(<<a>> \o t) = IF a.when THEN a.form ELSE FirstOf(t)
  BY <1>1, FirstOfLeads
<1> QED BY <1>2, <1>3, <1>4

LEMMA FirstOf4 ==
  ASSUME NEW a, NEW b, NEW c, NEW d
  PROVE  FirstOf(<<a, b, c, d>>) =
           IF a.when THEN a.form ELSE IF b.when THEN b.form ELSE IF c.when THEN c.form
           ELSE IF d.when THEN d.form ELSE Refuse
<1> DEFINE S == {a, b, c, d}
           t == <<b, c, d>>
<1>1. a \in S /\ t \in Seq(S)
  OBVIOUS
<1>2. <<a>> \o t = <<a, b, c, d>>
  <2> DEFINE u == <<a>> \o t
             w == <<a, b, c, d>>
  <2>1. u \in Seq(S) /\ Len(u) = 4 /\ u[1] = a /\ \A i \in 1..3 : u[i + 1] = t[i]
    BY <1>1
  <2>2. w \in Seq(S) /\ Len(w) = 4
    OBVIOUS
  <2>3. u[1] = a /\ u[2] = b /\ u[3] = c /\ u[4] = d
    <3>1. u[2] = t[1] /\ u[3] = t[2] /\ u[4] = t[3]
      <4> HIDE DEF u, t
      <4> QED BY <2>1
    <3> QED BY <2>1, <3>1
  <2>4. \A i \in 1..4 : u[i] = w[i]
    <3>1. w[1] = a /\ w[2] = b /\ w[3] = c /\ w[4] = d
      OBVIOUS
    <3> HIDE DEF u, w
    <3> QED BY <2>3, <3>1
  <2> HIDE DEF u, w, S
  <2>5. u = w
    BY <2>1, <2>2, <2>4, SeqEqual
  <2> QED BY <2>5 DEF u, w
<1>3. FirstOf(t) =
        IF b.when THEN b.form ELSE IF c.when THEN c.form ELSE IF d.when THEN d.form
        ELSE Refuse
  BY FirstOf3
<1> HIDE DEF S, t
<1>4. FirstOf(<<a>> \o t) = IF a.when THEN a.form ELSE FirstOf(t)
  BY <1>1, FirstOfLeads
<1> QED BY <1>2, <1>3, <1>4

LEMMA FirstOf5 ==
  ASSUME NEW a, NEW b, NEW c, NEW d, NEW e
  PROVE  FirstOf(<<a, b, c, d, e>>) =
           IF a.when THEN a.form ELSE IF b.when THEN b.form ELSE IF c.when THEN c.form
           ELSE IF d.when THEN d.form ELSE IF e.when THEN e.form ELSE Refuse
<1> DEFINE S == {a, b, c, d, e}
           t == <<b, c, d, e>>
<1>1. a \in S /\ t \in Seq(S)
  OBVIOUS
<1>2. <<a>> \o t = <<a, b, c, d, e>>
  <2> DEFINE u == <<a>> \o t
             w == <<a, b, c, d, e>>
  <2>1. u \in Seq(S) /\ Len(u) = 5 /\ u[1] = a /\ \A i \in 1..4 : u[i + 1] = t[i]
    BY <1>1
  <2>2. w \in Seq(S) /\ Len(w) = 5
    OBVIOUS
  <2>3. u[1] = a /\ u[2] = b /\ u[3] = c /\ u[4] = d /\ u[5] = e
    <3>1. u[2] = t[1] /\ u[3] = t[2] /\ u[4] = t[3] /\ u[5] = t[4]
      <4> HIDE DEF u, t
      <4> QED BY <2>1
    <3> QED BY <2>1, <3>1
  <2>4. \A i \in 1..5 : u[i] = w[i]
    <3>1. w[1] = a /\ w[2] = b /\ w[3] = c /\ w[4] = d /\ w[5] = e
      OBVIOUS
    <3> HIDE DEF u, w
    <3> QED BY <2>3, <3>1
  <2> HIDE DEF u, w, S
  <2>5. u = w
    BY <2>1, <2>2, <2>4, SeqEqual
  <2> QED BY <2>5 DEF u, w
<1>3. FirstOf(t) =
        IF b.when THEN b.form ELSE IF c.when THEN c.form ELSE IF d.when THEN d.form
        ELSE IF e.when THEN e.form ELSE Refuse
  BY FirstOf4
<1> HIDE DEF S, t
<1>4. FirstOf(<<a>> \o t) = IF a.when THEN a.form ELSE FirstOf(t)
  BY <1>1, FirstOfLeads
<1> QED BY <1>2, <1>3, <1>4

LEMMA FirstOf6 ==
  ASSUME NEW a, NEW b, NEW c, NEW d, NEW e, NEW f
  PROVE  FirstOf(<<a, b, c, d, e, f>>) =
           IF a.when THEN a.form ELSE IF b.when THEN b.form ELSE IF c.when THEN c.form
           ELSE IF d.when THEN d.form ELSE IF e.when THEN e.form ELSE IF f.when THEN f.form
           ELSE Refuse
<1> DEFINE S == {a, b, c, d, e, f}
           t == <<b, c, d, e, f>>
<1>1. a \in S /\ t \in Seq(S)
  OBVIOUS
<1>2. <<a>> \o t = <<a, b, c, d, e, f>>
  <2> DEFINE u == <<a>> \o t
             w == <<a, b, c, d, e, f>>
  <2>1. u \in Seq(S) /\ Len(u) = 6 /\ u[1] = a /\ \A i \in 1..5 : u[i + 1] = t[i]
    BY <1>1
  <2>2. w \in Seq(S) /\ Len(w) = 6
    OBVIOUS
  <2>3. u[1] = a /\ u[2] = b /\ u[3] = c /\ u[4] = d /\ u[5] = e /\ u[6] = f
    <3>1. u[2] = t[1] /\ u[3] = t[2] /\ u[4] = t[3] /\ u[5] = t[4] /\ u[6] = t[5]
      <4> HIDE DEF u, t
      <4> QED BY <2>1
    <3> QED BY <2>1, <3>1
  <2>4. \A i \in 1..6 : u[i] = w[i]
    <3>1. w[1] = a /\ w[2] = b /\ w[3] = c /\ w[4] = d /\ w[5] = e /\ w[6] = f
      OBVIOUS
    <3> HIDE DEF u, w
    <3> QED BY <2>3, <3>1
  <2> HIDE DEF u, w, S
  <2>5. u = w
    BY <2>1, <2>2, <2>4, SeqEqual
  <2> QED BY <2>5 DEF u, w
<1>3. FirstOf(t) =
        IF b.when THEN b.form ELSE IF c.when THEN c.form ELSE IF d.when THEN d.form
        ELSE IF e.when THEN e.form ELSE IF f.when THEN f.form ELSE Refuse
  BY FirstOf5
<1> HIDE DEF S, t
<1>4. FirstOf(<<a>> \o t) = IF a.when THEN a.form ELSE FirstOf(t)
  BY <1>1, FirstOfLeads
<1> QED BY <1>2, <1>3, <1>4

LEMMA FirstOf7 ==
  ASSUME NEW a, NEW b, NEW c, NEW d, NEW e, NEW f, NEW g
  PROVE  FirstOf(<<a, b, c, d, e, f, g>>) =
           IF a.when THEN a.form ELSE IF b.when THEN b.form ELSE IF c.when THEN c.form
           ELSE IF d.when THEN d.form ELSE IF e.when THEN e.form ELSE IF f.when THEN f.form
           ELSE IF g.when THEN g.form ELSE Refuse
<1> DEFINE S == {a, b, c, d, e, f, g}
           t == <<b, c, d, e, f, g>>
<1>1. a \in S /\ t \in Seq(S)
  OBVIOUS
<1>2. <<a>> \o t = <<a, b, c, d, e, f, g>>
  <2> DEFINE u == <<a>> \o t
             w == <<a, b, c, d, e, f, g>>
  <2>1. u \in Seq(S) /\ Len(u) = 7 /\ u[1] = a /\ \A i \in 1..6 : u[i + 1] = t[i]
    BY <1>1
  <2>2. w \in Seq(S) /\ Len(w) = 7
    OBVIOUS
  <2>3. u[1] = a /\ u[2] = b /\ u[3] = c /\ u[4] = d /\ u[5] = e /\ u[6] = f /\ u[7] = g
    <3>1. u[2] = t[1] /\ u[3] = t[2] /\ u[4] = t[3] /\ u[5] = t[4] /\ u[6] = t[5] /\ u[7] = t[6]
      <4> HIDE DEF u, t
      <4> QED BY <2>1
    <3> QED BY <2>1, <3>1
  <2>4. \A i \in 1..7 : u[i] = w[i]
    <3>1. w[1] = a /\ w[2] = b /\ w[3] = c /\ w[4] = d /\ w[5] = e /\ w[6] = f /\ w[7] = g
      OBVIOUS
    <3> HIDE DEF u, w
    <3> QED BY <2>3, <3>1
  <2> HIDE DEF u, w, S
  <2>5. u = w
    BY <2>1, <2>2, <2>4, SeqEqual
  <2> QED BY <2>5 DEF u, w
<1>3. FirstOf(t) =
        IF b.when THEN b.form ELSE IF c.when THEN c.form ELSE IF d.when THEN d.form
        ELSE IF e.when THEN e.form ELSE IF f.when THEN f.form ELSE IF g.when THEN g.form
        ELSE Refuse
  BY FirstOf6
<1> HIDE DEF S, t
<1>4. FirstOf(<<a>> \o t) = IF a.when THEN a.form ELSE FirstOf(t)
  BY <1>1, FirstOfLeads
<1> QED BY <1>2, <1>3, <1>4


\* The same of rows as they are written.
LEMMA RowIs ==
  \A g, f : Row(g, f).when = g /\ Row(g, f).form = f
BY DEF Row

\* The same for rows given by guard and form.
LEMMA Rows1 ==
  ASSUME NEW g1, NEW f1
  PROVE  FirstOf(<<Row(g1, f1)>>) =
           IF g1 THEN f1 ELSE Refuse
BY RowIs, FirstOf1

LEMMA Rows2 ==
  ASSUME NEW g1, NEW f1, NEW g2, NEW f2
  PROVE  FirstOf(<<Row(g1, f1), Row(g2, f2)>>) =
           IF g1 THEN f1 ELSE IF g2 THEN f2 ELSE Refuse
BY RowIs, FirstOf2

LEMMA Rows3 ==
  ASSUME NEW g1, NEW f1, NEW g2, NEW f2, NEW g3, NEW f3
  PROVE  FirstOf(<<Row(g1, f1), Row(g2, f2), Row(g3, f3)>>) =
           IF g1 THEN f1 ELSE IF g2 THEN f2 ELSE IF g3 THEN f3 ELSE Refuse
BY RowIs, FirstOf3

LEMMA Rows4 ==
  ASSUME NEW g1, NEW f1, NEW g2, NEW f2, NEW g3, NEW f3, NEW g4, NEW f4
  PROVE  FirstOf(<<Row(g1, f1), Row(g2, f2), Row(g3, f3), Row(g4, f4)>>) =
           IF g1 THEN f1 ELSE IF g2 THEN f2 ELSE IF g3 THEN f3 ELSE IF g4 THEN f4 ELSE Refuse
BY RowIs, FirstOf4

LEMMA Rows5 ==
  ASSUME NEW g1, NEW f1, NEW g2, NEW f2, NEW g3, NEW f3, NEW g4, NEW f4,
         NEW g5, NEW f5
  PROVE  FirstOf(<<Row(g1, f1), Row(g2, f2), Row(g3, f3), Row(g4, f4), Row(g5, f5)>>) =
           IF g1 THEN f1 ELSE IF g2 THEN f2 ELSE IF g3 THEN f3 ELSE
           IF g4 THEN f4 ELSE IF g5 THEN f5 ELSE Refuse
BY RowIs, FirstOf5

LEMMA Rows6 ==
  ASSUME NEW g1, NEW f1, NEW g2, NEW f2, NEW g3, NEW f3, NEW g4, NEW f4,
         NEW g5, NEW f5, NEW g6, NEW f6
  PROVE  FirstOf(<<Row(g1, f1), Row(g2, f2), Row(g3, f3), Row(g4, f4), Row(g5, f5),
                      Row(g6, f6)>>) =
           IF g1 THEN f1 ELSE IF g2 THEN f2 ELSE IF g3 THEN f3 ELSE IF g4 THEN f4 ELSE
           IF g5 THEN f5 ELSE IF g6 THEN f6 ELSE Refuse
BY RowIs, FirstOf6

LEMMA Rows7 ==
  ASSUME NEW g1, NEW f1, NEW g2, NEW f2, NEW g3, NEW f3, NEW g4, NEW f4,
         NEW g5, NEW f5, NEW g6, NEW f6, NEW g7, NEW f7
  PROVE  FirstOf(<<Row(g1, f1), Row(g2, f2), Row(g3, f3), Row(g4, f4), Row(g5, f5),
                      Row(g6, f6), Row(g7, f7)>>) =
           IF g1 THEN f1 ELSE IF g2 THEN f2 ELSE IF g3 THEN f3 ELSE IF g4 THEN f4 ELSE
           IF g5 THEN f5 ELSE IF g6 THEN f6 ELSE IF g7 THEN f7 ELSE Refuse
BY RowIs, FirstOf7

\* Two lists of rows: the second is asked only when no row of the first fires.
LEMMA FirstOfSplit ==
  ASSUME NEW S, NEW s \in Seq(S), NEW t \in Seq(S)
  PROVE  FirstOf(s \o t) = IF \E i \in 1..Len(s) : s[i].when THEN FirstOf(s) ELSE FirstOf(t)
<1> DEFINE u == s \o t
           n == Len(s)
           I == {i \in 1..Len(u) : u[i].when}
           H == {i \in 1..n : s[i].when}
           J == {i \in 1..Len(t) : t[i].when}
<1>1. /\ Len(u) = n + Len(t) /\ Len(t) \in Nat /\ n \in Nat
      /\ \A i \in 1..n : u[i] = s[i]
      /\ \A i \in 1..Len(t) : u[i + n] = t[i]
  OBVIOUS
<1>2. /\ I \in SUBSET Nat /\ J \in SUBSET Nat /\ H \in SUBSET Nat
      /\ 0 \notin I /\ 0 \notin J /\ 0 \notin H
  BY <1>1
<1>3. I # {} => Min(I) \in I /\ \A y \in I : Min(I) <= y
  BY <1>2, LeastIn DEF Min
<1>4. J # {} => Min(J) \in J /\ \A y \in J : Min(J) <= y
  BY <1>2, LeastIn DEF Min
<1>5. H # {} => Min(H) \in H /\ \A y \in H : Min(H) <= y
  BY <1>2, LeastIn DEF Min
<1>6. FirstOf(u) = IF I = {} THEN Refuse ELSE u[Min(I)].form
  <2>1. SelectInSeq(u, LAMBDA r : r.when) = IF I # {} THEN Min(I) ELSE 0
    BY DEF SelectInSeq
  <2> HIDE DEF I, u
  <2> QED BY <1>2, <1>3, <2>1 DEF FirstOf
<1>7. FirstOf(t) = IF J = {} THEN Refuse ELSE t[Min(J)].form
  <2>1. SelectInSeq(t, LAMBDA r : r.when) = IF J # {} THEN Min(J) ELSE 0
    BY DEF SelectInSeq
  <2> HIDE DEF J
  <2> QED BY <1>2, <1>4, <2>1 DEF FirstOf
<1>8. FirstOf(s) = IF H = {} THEN Refuse ELSE s[Min(H)].form
  <2>1. SelectInSeq(s, LAMBDA r : r.when) = IF H # {} THEN Min(H) ELSE 0
    BY DEF SelectInSeq
  <2> HIDE DEF H
  <2> QED BY <1>2, <1>5, <2>1 DEF FirstOf
<1>9. H = {} <=> ~ \E i \in 1..Len(s) : s[i].when
  OBVIOUS
<1>10. \A i \in Nat : i \in I <=> i \in H \/ (i - n \in J)
  <2> TAKE i \in Nat
  <2>1. CASE i \in 1..n
    <3>1. u[i] = s[i] /\ i \in 1..Len(u) /\ i - n \notin 1..Len(t)
      BY <1>1, <2>1
    <3> HIDE DEF u
    <3> QED BY <2>1, <3>1
  <2>2. CASE i > n
    <3>1. i - n \in Nat /\ i - n >= 1 /\ (i - n) + n = i
      BY <1>1, <2>2
    <3>2. i \in 1..Len(u) <=> i - n \in 1..Len(t)
      BY <1>1, <3>1
    <3>3. i - n \in 1..Len(t) => u[i] = t[i - n]
      BY <1>1, <3>1
    <3>4. i \notin 1..n
      BY <1>1, <2>2
    <3> HIDE DEF u
    <3> QED BY <3>2, <3>3, <3>4
  <2>3. CASE i = 0
    BY <1>1, <2>3
  <2> QED BY <1>1, <2>1, <2>2, <2>3
<1>11. CASE H # {}
  <2>1. Min(H) \in I /\ I # {} /\ Min(H) \in 1..n
    BY <1>2, <1>5, <1>10, <1>11
  <2>2. Min(I) \in I /\ Min(I) <= Min(H) /\ Min(I) \in Nat
    BY <1>2, <1>3, <2>1
  <2>3. Min(I) - n \notin J
    <3>1. Min(H) <= n /\ n \in Nat /\ Min(H) \in Nat
      BY <1>1, <1>2, <2>1
    <3>2. \A j \in J : j > 0 /\ j \in Nat
      BY <1>2
    <3> HIDE DEF I, H, J, n
    <3>3. Min(I) - n <= 0 /\ Min(I) - n \in Int
      BY <2>2, <3>1
    <3> QED BY <3>2, <3>3
  <2>4. Min(I) \in H /\ Min(H) <= Min(I)
    BY <1>5, <1>10, <1>11, <2>2, <2>3
  <2>5. Min(I) = Min(H)
    <3>1. Min(H) \in Nat
      BY <2>1
    <3> HIDE DEF I, H, J, n
    <3> QED BY <2>2, <2>4, <3>1
  <2>6. u[Min(I)] = s[Min(H)]
    BY <1>1, <2>1, <2>5
  <2> HIDE DEF u, I, H, n
  <2>7. FirstOf(u) = FirstOf(s)
    BY <1>6, <1>8, <1>11, <2>1, <2>6
  <2> QED BY <1>9, <1>11, <2>7 DEF u
<1>12. CASE H = {}
  <2>1. CASE J = {}
    <3>1. I = {}
      <4> HIDE DEF I, H, J, n
      <4> QED BY <1>2, <1>10, <1>12, <2>1
    <3> HIDE DEF u, I, H, J, n
    <3>2. FirstOf(u) = FirstOf(t)
      BY <1>6, <1>7, <2>1, <3>1
    <3> QED BY <1>9, <1>12, <3>2 DEF u
  <2>2. CASE J # {}
    <3>1. Min(J) \in J /\ Min(J) \in Nat /\ Min(J) \in 1..Len(t)
      BY <1>2, <1>4, <2>2
    <3>2. Min(J) + n \in I
      <4>1. Min(J) + n \in Nat /\ (Min(J) + n) - n = Min(J)
        BY <1>1, <3>1
      <4> HIDE DEF I, H, J, n
      <4> QED BY <1>10, <3>1, <4>1
    <3>3. Min(I) \in I /\ Min(I) \in Nat /\ Min(I) <= Min(J) + n
      <4> HIDE DEF I, H, J, n
      <4> QED BY <1>2, <1>3, <3>2
    <3>4. Min(I) - n \in J /\ Min(J) <= Min(I) - n
      <4> HIDE DEF I, H, J, n
      <4> QED BY <1>4, <1>10, <1>12, <2>2, <3>3
    <3>5. Min(I) = Min(J) + n
      <4>1. n \in Nat
        BY <1>1
      <4> HIDE DEF I, H, J, n
      <4> QED BY <3>1, <3>3, <3>4, <4>1
    <3>6. u[Min(I)] = t[Min(J)]
      BY <1>1, <3>1, <3>5
    <3> HIDE DEF u, I, H, J, n
    <3>7. FirstOf(u) = FirstOf(t)
      BY <1>6, <1>7, <2>2, <3>2, <3>6
    <3> QED BY <1>9, <1>12, <3>7 DEF u
  <2> QED BY <2>1, <2>2
<1> QED BY <1>11, <1>12

-----------------------------------------------------------------------------
(* Values and the bytes made of them.                                      *)

Value == [ok : BOOLEAN, value : Int32, resolved : BOOLEAN]

\* What a line is made into, of n bytes if it is not refused.
Shaped(n) == {m \in [ok : BOOLEAN, bytes : Seq(BytesType)] : m.ok => Len(m.bytes) = n}

FieldKinds == {"word", "address", "byte", "port", "relative", "displacement"}
WidthOf(kind) == IF kind \in {"word", "address"} THEN 2 ELSE 1

\* Addresses are 32-bit values, as the parser's numbers are.
LEMMA ScaleIs ==
  /\ RamStart \in Nat /\ MemoryTop \in Nat /\ RamStart < MemoryTop
  /\ IntMax \in Nat /\ Places \subseteq Int32 /\ Int32 \subseteq Int /\ 0 \in Int32 /\ 0 \in Places
  /\ Places \subseteq Nat
BY ScaleAssumption DEF Places, Int32

LEMMA RefuseShaped ==
  ASSUME NEW n
  PROVE  Refuse \in Shaped(n)
BY DEF Refuse, Shaped

LEMMA EmitShaped ==
  ASSUME NEW bytes \in Seq(BytesType), NEW n, Len(bytes) = n
  PROVE  Emit(bytes) \in Shaped(n)
BY DEF Emit, Shaped

LEMMA CodesAre ==
  ASSUME NEW n \in Nat
  PROVE  Codes(n) \in Seq(BytesType) /\ Len(Codes(n)) = n
<1>1. [kind |-> "code", value |-> 0] \in BytesType
  BY DEF BytesType
<1> QED BY <1>1 DEF Codes

LEMMA CodesShaped ==
  ASSUME NEW n \in Nat
  PROVE  Emit(Codes(n)) \in Shaped(n)
BY CodesAre, EmitShaped

LEMMA FieldIs ==
  ASSUME NEW kind \in FieldKinds, NEW v \in Int
  PROVE  Field(kind, v) \in Seq(BytesType) /\ Len(Field(kind, v)) = WidthOf(kind)
<1>1. Low(v) \in BytesType /\ High(v) \in BytesType
  BY DEF BytesType, Low, High
<1>2. CASE kind \in {"word", "address"}
  BY <1>1, <1>2 DEF Field, WidthOf
<1>3. CASE kind \in {"byte", "port", "relative", "displacement"}
  <2>1. [kind |-> kind, value |-> v] \in BytesType
    BY <1>3 DEF BytesType
  <2> QED BY <1>3, <2>1 DEF Field, WidthOf
<1> QED BY <1>2, <1>3 DEF FieldKinds

\* An opcode with a field has the bytes of both, or refuses.
LEMMA WithShaped ==
  ASSUME NEW c, NEW n \in Nat, NEW kind \in FieldKinds, NEW v, v.value \in Int
  PROVE  With(c, n, kind, v) \in Shaped(n + WidthOf(kind))
<1> DEFINE f == Field(kind, v.value)
           k == Codes(n)
<1>1. /\ f \in Seq(BytesType) /\ Len(f) = WidthOf(kind)
      /\ k \in Seq(BytesType) /\ Len(k) = n
  BY FieldIs, CodesAre
<1> HIDE DEF f, k
<1>2. k \o f \in Seq(BytesType) /\ Len(k \o f) = n + WidthOf(kind)
  BY <1>1
<1>3. Emit(k \o f) \in Shaped(n + WidthOf(kind))
  BY <1>2, EmitShaped
<1>4. With(c, n, kind, v) \in {Emit(k \o f), Refuse}
  BY DEF With, f, k
<1> QED BY <1>3, <1>4, RefuseShaped

LEMMA WithIndexShaped ==
  ASSUME NEW c, NEW o, o.index \in Value, NEW extra \in Seq(BytesType), NEW n, n = 3 + Len(extra)
  PROVE  WithIndex(c, o, extra) \in Shaped(n)
<1>0. o.index.ok \in BOOLEAN /\ o.index.value \in Int
  BY ScaleIs DEF Value
<1> DEFINE f == Field("displacement", o.index.value)
           k == Codes(2)
<1>1. /\ f \in Seq(BytesType) /\ Len(f) = 1
      /\ k \in Seq(BytesType) /\ Len(k) = 2
  BY <1>0, FieldIs, CodesAre DEF FieldKinds, WidthOf
<1> HIDE DEF f, k
<1>2. k \o f \o extra \in Seq(BytesType) /\ Len(k \o f \o extra) = 3 + Len(extra)
  <2>1. k \o f \in Seq(BytesType) /\ Len(k \o f) = 3
    <3>1. k \o f \in Seq(BytesType) /\ Len(k \o f) = Len(k) + Len(f)
      BY <1>1, ConcatProperties
    <3> QED BY <1>1, <3>1
  <2>2. Len(extra) \in Nat
    BY LenProperties
  <2> QED BY <2>1, <2>2
<1>3. Emit(k \o f \o extra) \in Shaped(3 + Len(extra))
  BY <1>2, EmitShaped
<1>4. WithIndex(c, o, extra) \in {Emit(k \o f \o extra), Refuse}
  BY DEF WithIndex, f, k
<1> QED BY <1>3, <1>4, RefuseShaped

-----------------------------------------------------------------------------
(* Expressions: what a sweep over the operators gives, and that a value     *)
(* the first pass has resolved is the one of the second.                    *)

Sweeps ==
  {x \in [values : Seq(Value), operators : Seq(InfixOperators)] :
     Len(x.values) = Len(x.operators) + 1}

\* Two values of one expression: what is resolved and right is the same.
Agree(v, w) == v.ok /\ v.resolved /\ w.ok => v = w
SweepsAgree(x, y) ==
  /\ x \in Sweeps /\ y \in Sweeps /\ x.operators = y.operators
  /\ \A i \in 1..Len(x.values) : Agree(x.values[i], y.values[i])

LEMMA ApplyIs ==
  ASSUME NEW op, NEW x \in Value, NEW y \in Value
  PROVE  Apply(op, x, y) \in Value
<1>1. NoValue \in Value
  BY ScaleIs DEF NoValue, Value
<1> QED BY <1>1 DEF Apply, Value

\* An operator gives the same value for operands that a later context only
\* resolves.
LEMMA ApplyAgrees ==
  ASSUME NEW op, NEW x \in Value, NEW y \in Value, NEW u \in Value, NEW w \in Value,
         Agree(x, u), Agree(y, w)
  PROVE  Agree(Apply(op, x, y), Apply(op, u, w))
<1>1. Apply(op, x, y).ok /\ Apply(op, x, y).resolved =>
        x.ok /\ y.ok /\ x.resolved /\ y.resolved
  BY DEF Apply, NoValue, Value
<1>2. Apply(op, u, w).ok => u.ok /\ w.ok
  BY DEF Apply, NoValue, Value
<1> QED BY <1>1, <1>2 DEF Agree

LEMMA SweepIs ==
  ASSUME NEW x \in Sweeps
  PROVE  /\ x \in [values : Seq(Value), operators : Seq(InfixOperators)]
         /\ x.values \in Seq(Value) /\ x.operators \in Seq(InfixOperators)
         /\ Len(x.operators) \in Nat /\ Len(x.values) = Len(x.operators) + 1
         /\ Len(x.values) \in Nat
         /\ \A i \in 1..Len(x.values) : x.values[i] \in Value
<1>1. /\ x \in [values : Seq(Value), operators : Seq(InfixOperators)]
      /\ Len(x.values) = Len(x.operators) + 1
  BY DEF Sweeps
<1>2. x.values \in Seq(Value) /\ x.operators \in Seq(InfixOperators)
  BY <1>1
<1> QED BY <1>1, <1>2, LenProperties, ElementOfSeq

LEMMA CombinedIs ==
  ASSUME NEW level, NEW done \in Sweeps, NEW op \in InfixOperators, NEW right \in Value
  PROVE  Combined(level, done, op, right) \in Sweeps
<1> DEFINE n == Len(done.values)
<1>1. /\ done \in [values : Seq(Value), operators : Seq(InfixOperators)]
      /\ n = Len(done.operators) + 1 /\ Len(done.operators) \in Nat
  BY DEF Sweeps
<1>2. done.values \in Seq(Value) /\ done.operators \in Seq(InfixOperators) /\ n \in 1..n
  BY <1>1
<1>3. done.values[n] \in Value
  BY <1>2, ElementOfSeq
<1>4. CASE op \in level
  <2> DEFINE r == Apply(op, done.values[n], right)
             s == [done.values EXCEPT ![n] = r]
  <2>1. r \in Value
    BY <1>3, ApplyIs
  <2>2. s \in Seq(Value) /\ Len(s) = n
    BY <1>2, <2>1
  <2>3. Combined(level, done, op, right) = [done EXCEPT !.values = s]
    BY <1>1, <1>4 DEF Combined
  <2> HIDE DEF s
  <2> QED BY <1>1, <2>2, <2>3 DEF Sweeps
<1>5. CASE op \notin level
  BY <1>1, <1>2, <1>5 DEF Combined, Sweeps
<1> QED BY <1>4, <1>5

LEMMA CombinedAgrees ==
  ASSUME NEW level, NEW x, NEW y, SweepsAgree(x, y), NEW op \in InfixOperators,
         NEW v \in Value, NEW w \in Value, Agree(v, w)
  PROVE  SweepsAgree(Combined(level, x, op, v), Combined(level, y, op, w))
<1> DEFINE n == Len(x.values)
           a == Combined(level, x, op, v)
           b == Combined(level, y, op, w)
<1>1. x \in Sweeps /\ y \in Sweeps /\ x.operators = y.operators
      /\ \A i \in 1..n : Agree(x.values[i], y.values[i])
  BY DEF SweepsAgree
<1>2. /\ x.values \in Seq(Value) /\ y.values \in Seq(Value) /\ n \in Nat /\ Len(y.values) = n
      /\ n \in 1..n /\ x.values[n] \in Value /\ y.values[n] \in Value
      /\ x.operators \in Seq(InfixOperators)
  BY <1>1, SweepIs
<1>3. a \in Sweeps /\ b \in Sweeps
  BY <1>1, CombinedIs
<1>4. CASE op \in level
  <2> DEFINE r == Apply(op, x.values[n], v)
             q == Apply(op, y.values[n], w)
  <2>1. Agree(r, q)
    BY <1>1, <1>2, ApplyAgrees
  <2>2. a = [x EXCEPT !.values[n] = r] /\ b = [y EXCEPT !.values[n] = q]
    BY <1>2, <1>4, Zenon DEF Combined
  <2> HIDE DEF r, q
  <2>3. /\ a.operators = x.operators /\ b.operators = y.operators
        /\ a.values = [x.values EXCEPT ![n] = r] /\ b.values = [y.values EXCEPT ![n] = q]
    BY <1>1, <2>2 DEF Sweeps
  <2>4. Len(a.values) = n /\ \A i \in 1..n : Agree(a.values[i], b.values[i])
    BY <1>1, <1>2, <2>1, <2>3
  <2> HIDE DEF a, b
  <2> QED BY <1>1, <1>3, <2>3, <2>4 DEF SweepsAgree, a, b
<1>5. CASE op \notin level
  <2>1. a = [values |-> Append(x.values, v), operators |-> Append(x.operators, op)]
    BY <1>5 DEF Combined
  <2>2. b = [values |-> Append(y.values, w), operators |-> Append(y.operators, op)]
    BY <1>5 DEF Combined
  <2>3. a.operators = b.operators /\ a.values = Append(x.values, v) /\ b.values = Append(y.values, w)
    BY <1>1, <2>1, <2>2
  <2> HIDE DEF a, b
  <2>4. Len(a.values) = n + 1 /\ \A i \in 1..(n + 1) : Agree(a.values[i], b.values[i])
    <3>1. /\ Len(a.values) = n + 1 /\ a.values[n + 1] = v /\ b.values[n + 1] = w
          /\ \A i \in 1..n : a.values[i] = x.values[i] /\ b.values[i] = y.values[i]
      BY <1>2, <2>3
    <3> QED BY <1>1, <1>2, <3>1
  <2> QED BY <1>3, <2>3, <2>4 DEF SweepsAgree, a, b
<1> QED BY <1>4, <1>5

\* The steps of a sweep.
SweepSteps(x, level, done) ==
  /\ done[0] = [values |-> <<Head(x.values)>>, operators |-> <<>>]
  /\ \A i \in 1..Len(x.operators) :
       done[i] = Combined(level, done[i - 1], x.operators[i], x.values[i + 1])
  /\ \A i \in 0..Len(x.operators) : done[i] \in Sweeps
  /\ Collapse(x, level) = done[Len(x.operators)]

LEMMA FirstSweep ==
  ASSUME NEW v \in Value
  PROVE  [values |-> <<v>>, operators |-> <<>>] \in Sweeps
<1> DEFINE a == <<v>>
           c == <<>>
<1>1. a \in Seq(Value) /\ c \in Seq(InfixOperators) /\ Len(a) = Len(c) + 1
  OBVIOUS
<1> HIDE DEF a, c
<1>2. [values |-> a, operators |-> c] \in Sweeps
  BY <1>1 DEF Sweeps
<1> QED BY <1>2 DEF a, c

\* A sweep of a level is a run through the operators, of whatever length.
LEMMA CollapseSteps ==
  ASSUME NEW x \in Sweeps, NEW level
  PROVE  \E done : SweepSteps(x, level, done)
<1> DEFINE n == Len(x.operators)
           first == [values |-> <<Head(x.values)>>, operators |-> <<>>]
           Works(f) == f = [i \in 0..n |-> IF i = 0 THEN first
                                        ELSE Combined(level, f[i - 1], x.operators[i], x.values[i + 1])]
           T == [p \in Sweeps \X (1..n) |-> Combined(level, p[1], x.operators[p[2]], x.values[p[2] + 1])]
<1>1. /\ x.values \in Seq(Value) /\ x.operators \in Seq(InfixOperators)
      /\ Len(x.values) = n + 1 /\ n \in Nat
  BY SweepIs
<1>2. \A i \in 1..n : x.operators[i] \in InfixOperators /\ x.values[i + 1] \in Value
  <2> TAKE i \in 1..n
  <2>1. i \in 1..Len(x.operators) /\ i + 1 \in 1..Len(x.values)
    BY <1>1
  <2> QED BY <1>1, <2>1, ElementOfSeq
<1>3. first \in Sweeps
  <2>1. x.values # <<>> /\ Head(x.values) \in Value
    BY <1>1
  <2> QED BY <2>1, FirstSweep
<1>4. \A s \in Sweeps, i \in 1..n : Combined(level, s, x.operators[i], x.values[i + 1]) \in Sweeps
  BY <1>2, CombinedIs
<1>5. T \in [Sweeps \X (1..n) -> Sweeps]
  BY <1>4
<1>6. \A s \in Sweeps, i \in 1..n :
        T[<<s, i>>] = Combined(level, s, x.operators[i], x.values[i + 1])
  OBVIOUS
<1>7. \E f : Works(f)
  <2> HIDE DEF first, T, n
  <2>1. PICK f : Iterates(f, Sweeps, n, first, T)
    BY <1>1, <1>3, <1>5, IterationExists, Zenon
  <2>2. \A i \in 1..n : f[i] = Combined(level, f[i - 1], x.operators[i], x.values[i + 1])
    <3> TAKE i \in 1..n
    <3>1. f[i - 1] \in Sweeps
      BY <1>1, <2>1 DEF Iterates
    <3> QED BY <1>6, <2>1, <3>1 DEF Iterates
  <2>3. \A i \in 0..n : f[i] = IF i = 0 THEN first
                               ELSE Combined(level, f[i - 1], x.operators[i], x.values[i + 1])
    BY <1>1, <2>1, <2>2 DEF Iterates
  <2>4. f = [i \in 0..n |-> f[i]]
    BY <2>1 DEF Iterates
  <2>5. Works(f)
    BY <2>3, <2>4
  <2> QED BY <2>5
<1> DEFINE done == CHOOSE f : Works(f)
<1>8. Works(done)
  BY <1>7
<1>9. Collapse(x, level) = done[n]
  BY DEF Collapse
<1> HIDE DEF done, first, T, n
<1>10. done[0] = first
  BY <1>1, <1>8
<1>11. \A i \in 1..n : done[i] = Combined(level, done[i - 1], x.operators[i], x.values[i + 1])
  <2> TAKE i \in 1..n
  <2>1. i \in 0..n /\ i # 0
    BY <1>1
  <2> QED BY <1>8, <2>1, Zenon
<1>12. \A i \in 0..n : done[i] \in Sweeps
  <2>1. \A i \in 1..n : done[i - 1] \in Sweeps => done[i] \in Sweeps
    BY <1>4, <1>11
  <2> QED BY <1>1, <1>3, <1>10, <2>1, IterationKeeps
<1>13. SweepSteps(x, level, done)
  BY <1>9, <1>10, <1>11, <1>12 DEF SweepSteps, first, n
<1> QED BY <1>13

\* Hence a sweep leaves a list of operands and operators of the same shape.
LEMMA CollapseIs ==
  ASSUME NEW x \in Sweeps, NEW level
  PROVE  Collapse(x, level) \in Sweeps
<1>1. PICK done : SweepSteps(x, level, done)
  BY CollapseSteps
<1>2. Len(x.operators) \in 0..Len(x.operators)
  BY SweepIs
<1> QED BY <1>1, <1>2 DEF SweepSteps

LEMMA CollapseAgrees ==
  ASSUME NEW x, NEW y, SweepsAgree(x, y), NEW level
  PROVE  SweepsAgree(Collapse(x, level), Collapse(y, level))
<1> DEFINE n == Len(x.operators)
<1>1. /\ x \in Sweeps /\ y \in Sweeps /\ x.operators = y.operators
      /\ \A i \in 1..Len(x.values) : Agree(x.values[i], y.values[i])
  BY DEF SweepsAgree
<1>2. /\ n \in Nat /\ Len(x.values) = n + 1 /\ Len(y.values) = n + 1
      /\ x.values \in Seq(Value) /\ y.values \in Seq(Value) /\ x.operators \in Seq(InfixOperators)
      /\ \A i \in 1..(n + 1) : x.values[i] \in Value /\ y.values[i] \in Value
  BY <1>1, SweepIs
<1>3. PICK a : SweepSteps(x, level, a)
  BY <1>1, CollapseSteps
<1>4. PICK b : SweepSteps(y, level, b)
  BY <1>1, CollapseSteps
<1> DEFINE B == {i \in 0..n : SweepsAgree(a[i], b[i])}
<1>5. 0 \in B
  <2> DEFINE v == Head(x.values)
             w == Head(y.values)
             s == [values |-> <<v>>, operators |-> <<>>]
             t == [values |-> <<w>>, operators |-> <<>>]
  <2>1. x.values # <<>> /\ y.values # <<>> /\ v = x.values[1] /\ w = y.values[1] /\ 1 \in 1..(n + 1)
    BY <1>2
  <2>2. v \in Value /\ w \in Value /\ Agree(v, w)
    BY <1>1, <1>2, <2>1
  <2>3. a[0] = s /\ b[0] = t
    BY <1>3, <1>4 DEF SweepSteps
  <2> HIDE DEF v, w
  <2>4. s \in Sweeps /\ t \in Sweeps
    BY <2>2, FirstSweep
  <2>5. /\ s.operators = t.operators /\ Len(s.values) = 1
        /\ s.values[1] = v /\ t.values[1] = w
    OBVIOUS
  <2> HIDE DEF s, t
  <2>6. SweepsAgree(s, t)
    BY <2>2, <2>4, <2>5 DEF SweepsAgree
  <2> QED BY <1>2, <2>3, <2>6
<1>6. \A i \in 1..n : i - 1 \in B => i \in B
  <2> SUFFICES ASSUME NEW i \in 1..n, i - 1 \in B PROVE i \in B
    OBVIOUS
  <2>1. i \in 1..Len(x.operators) /\ i + 1 \in 1..(n + 1) /\ i \in 0..n
    BY <1>2
  <2>2. x.operators[i] \in InfixOperators
    BY <1>2, <2>1, ElementOfSeq
  <2>3. Agree(x.values[i + 1], y.values[i + 1])
    BY <1>1, <1>2, <2>1
  <2>4. /\ a[i] = Combined(level, a[i - 1], x.operators[i], x.values[i + 1])
        /\ b[i] = Combined(level, b[i - 1], x.operators[i], y.values[i + 1])
    BY <1>1, <1>3, <1>4, <2>1 DEF SweepSteps
  <2>5. SweepsAgree(a[i], b[i])
    BY <1>2, <2>1, <2>2, <2>3, <2>4, CombinedAgrees
  <2> QED BY <2>1, <2>5
<1>7. n \in B
  <2>1. \A i \in 0..n : i \in B
    <3> HIDE DEF B, n
    <3> QED BY <1>2, <1>5, <1>6, CountsUp
  <2> QED BY <1>2, <2>1
<1> QED BY <1>1, <1>3, <1>4, <1>7 DEF SweepSteps

\* All levels leave a value.
LEMMA SweptIs ==
  ASSUME NEW x \in Sweeps
  PROVE  Swept(x) \in Sweeps /\ Swept(x).values[1] \in Value
<1>1. Swept(x) \in Sweeps
  BY CollapseIs DEF Swept
<1>2. 1 \in 1..Len(Swept(x).values)
  BY <1>1, SweepIs
<1> QED BY <1>1, <1>2, SweepIs

\* The value is the same in a later context.
LEMMA SweptAgrees ==
  ASSUME NEW x, NEW y, SweepsAgree(x, y)
  PROVE  Agree(Swept(x).values[1], Swept(y).values[1])
<1>1. SweepsAgree(Swept(x), Swept(y))
  BY CollapseAgrees DEF Swept
<1>2. Swept(x) \in Sweeps
  BY <1>1 DEF SweepsAgree
<1>3. 1 \in 1..Len(Swept(x).values)
  BY <1>2, SweepIs
<1> QED BY <1>1, <1>3 DEF SweepsAgree

\* An expression of one value is that value.
LEMMA SweptOne ==
  ASSUME NEW v \in Value
  PROVE  Swept([values |-> <<v>>, operators |-> <<>>]).values[1] = v
<1> DEFINE x == [values |-> <<v>>, operators |-> <<>>]
<1>1. x \in Sweeps
  BY FirstSweep
<1>2. ASSUME NEW level PROVE Collapse(x, level) = x
  <2>1. PICK done : SweepSteps(x, level, done)
    BY <1>1, CollapseSteps
  <2>2. done[0] = x
    BY <2>1 DEF SweepSteps
  <2> QED BY <2>1, <2>2 DEF SweepSteps
<1>3. Swept(x) = x
  BY <1>2 DEF Swept
<1> QED BY <1>3

-----------------------------------------------------------------------------
(* Contexts, and what an operand is in one.                                *)

Tables(V) == UNION {[D -> V] : D \in SUBSET STRING}
OutputType == [start : Places \cup {Nowhere}, bytes : Seq(BytesType)]
Context ==
  [pass : {1, 2}, address : Places, exhausted : BOOLEAN, target : {"none", "machine", "tape"},
   labels : Tables(Places), constants : Tables(Int32), total : Nat, output : OutputType]

\* The second context knows what the first does, at the same address.
Later(c, d) ==
  /\ c.address = d.address
  /\ \A n \in DOMAIN c.labels : n \in DOMAIN d.labels /\ d.labels[n] = c.labels[n]
  /\ \A n \in DOMAIN c.constants : n \in DOMAIN d.constants /\ d.constants[n] = c.constants[n]
  /\ DOMAIN d.labels \cap DOMAIN d.constants = {}

\* A table of symbols maps names to values.
LEMMA TableIs ==
  ASSUME NEW V, NEW t \in Tables(V)
  PROVE  DOMAIN t \subseteq STRING /\ t \in [DOMAIN t -> V] /\ \A n \in DOMAIN t : t[n] \in V
BY DEF Tables

LEMMA ContextIs ==
  ASSUME NEW c \in Context
  PROVE  /\ c.pass \in {1, 2} /\ c.address \in Places /\ c.exhausted \in BOOLEAN
         /\ c.target \in {"none", "machine", "tape"} /\ c.total \in Nat
         /\ c.labels \in Tables(Places) /\ c.constants \in Tables(Int32)
         /\ c.output \in OutputType /\ c.output.bytes \in Seq(BytesType)
         /\ c.output.start \in Places \cup {Nowhere}
         /\ \A n \in DOMAIN c.labels : c.labels[n] \in Places
         /\ \A n \in DOMAIN c.constants : c.constants[n] \in Int32
<1>1. /\ c.pass \in {1, 2} /\ c.address \in Places /\ c.exhausted \in BOOLEAN
      /\ c.target \in {"none", "machine", "tape"} /\ c.total \in Nat
      /\ c.labels \in Tables(Places) /\ c.constants \in Tables(Int32)
      /\ c.output \in OutputType
  BY DEF Context
<1>2. c.output.bytes \in Seq(BytesType) /\ c.output.start \in Places \cup {Nowhere}
  BY <1>1 DEF OutputType
<1> QED BY <1>1, <1>2, TableIs

LEMMA AtomIs ==
  ASSUME NEW c \in Context, NEW a \in AtomType
  PROVE  Atom(c, a) \in Value
<1>1. /\ c.address \in Int32 /\ a.value \in Int32 /\ 0 \in Int32
      /\ \A n \in DOMAIN c.labels : c.labels[n] \in Int32
      /\ \A n \in DOMAIN c.constants : c.constants[n] \in Int32
  BY ContextIs, ScaleIs DEF AtomType
<1>2. \A n \in Int32 : Known(n) \in Value
  BY DEF Known, Value
<1>3. [ok |-> c.pass = 1, value |-> 0, resolved |-> FALSE] \in Value
  BY <1>1 DEF Value
<1>4. \/ Atom(c, a) = Known(a.value) \/ Atom(c, a) = Known(c.address)
      \/ \E n \in DOMAIN c.labels : Atom(c, a) = Known(c.labels[n])
      \/ \E n \in DOMAIN c.constants : Atom(c, a) = Known(c.constants[n])
      \/ Atom(c, a) = [ok |-> c.pass = 1, value |-> 0, resolved |-> FALSE]
  BY DEF Atom, AtomType
<1> QED BY <1>1, <1>2, <1>3, <1>4

\* A name that has a value keeps it: tables only gain.
LEMMA AtomAgrees ==
  ASSUME NEW c \in Context, NEW d \in Context, Later(c, d), NEW a \in AtomType
  PROVE  Agree(Atom(c, a), Atom(d, a))
<1>1. CASE a.kind \in {"number", "here"}
  BY <1>1 DEF Atom, Agree, Later
<1>2. CASE a.kind = "symbol" /\ a.name \in DOMAIN c.constants
  BY <1>2 DEF Atom, Agree, Later
<1>3. CASE a.kind = "symbol" /\ a.name \in DOMAIN c.labels \ DOMAIN c.constants
  <2>1. a.name \in DOMAIN d.labels \ DOMAIN d.constants
    BY <1>3 DEF Later
  <2> QED BY <1>3, <2>1 DEF Atom, Agree, Later
<1>4. CASE a.kind = "symbol" /\ a.name \notin DOMAIN c.labels \cup DOMAIN c.constants
  <2>1. ~Atom(c, a).resolved
    BY <1>4 DEF Atom
  <2> QED BY <2>1 DEF Agree
<1> QED BY <1>1, <1>2, <1>3, <1>4 DEF AtomType

LEMMA ExpressionIs ==
  ASSUME NEW e \in ExpressionType, e.atoms # <<>>
  PROVE  /\ e.atoms \in Seq(AtomType) /\ e.operators \in Seq(InfixOperators)
         /\ Len(e.atoms) \in Nat /\ DOMAIN e.atoms = 1..Len(e.atoms)
         /\ Len(e.atoms) = Len(e.operators) + 1
         /\ \A i \in 1..Len(e.atoms) : e.atoms[i] \in AtomType
<1>1. e \in [atoms : Seq(AtomType), operators : Seq(InfixOperators)]
  BY DEF ExpressionType
<1>2. Len(e.atoms) = Len(e.operators) + 1
  <2>1. \/ Len(e.atoms) = Len(e.operators) + 1
        \/ e = [atoms |-> <<>>, operators |-> <<>>]
    BY DEF ExpressionType
  <2> QED BY <2>1
<1>3. e.atoms \in Seq(AtomType) /\ e.operators \in Seq(InfixOperators)
  BY <1>1
<1> QED BY <1>2, <1>3, LenProperties, ElementOfSeq

\* The values an expression starts from.
Start(c, e) == [values |-> [i \in DOMAIN e.atoms |-> Atom(c, e.atoms[i])], operators |-> e.operators]

LEMMA StartIs2 ==
  ASSUME NEW c \in Context, NEW e \in ExpressionType, e.atoms # <<>>
  PROVE  /\ Start(c, e) \in Sweeps /\ Start(c, e).operators = e.operators
         /\ Len(Start(c, e).values) = Len(e.atoms)
         /\ \A i \in 1..Len(e.atoms) : Start(c, e).values[i] = Atom(c, e.atoms[i])
<1> DEFINE n == Len(e.atoms)
           v == [i \in 1..n |-> Atom(c, e.atoms[i])]
<1>1. /\ n \in Nat /\ DOMAIN e.atoms = 1..n /\ e.operators \in Seq(InfixOperators)
      /\ n = Len(e.operators) + 1 /\ \A i \in 1..n : Atom(c, e.atoms[i]) \in Value
  BY ExpressionIs, AtomIs
<1>2. v \in Seq(Value) /\ Len(v) = n /\ \A i \in 1..n : v[i] = Atom(c, e.atoms[i])
  <2> HIDE DEF n
  <2> QED BY <1>1
<1>3. Start(c, e) = [values |-> v, operators |-> e.operators]
  BY <1>1 DEF Start
<1> HIDE DEF v, n
<1>4. Start(c, e) \in Sweeps
  BY <1>1, <1>2, <1>3 DEF Sweeps
<1> QED BY <1>2, <1>3, <1>4 DEF n

\* app_parse_value gives a 32-bit value or none.
LEMMA ParseIs ==
  ASSUME NEW c \in Context, NEW e \in ExpressionType
  PROVE  /\ ParseValue(c, e) \in Value
         /\ e.atoms = <<>> => ParseValue(c, e) = NoValue
<1>1. NoValue \in Value
  BY ScaleIs DEF NoValue, Value
<1>2. e.atoms # <<>> => Swept(Start(c, e)).values[1] \in Value
  BY StartIs2, SweptIs
<1> QED BY <1>1, <1>2 DEF ParseValue, Start

\* What pass 1 has read, a later context reads alike: only what was unresolved
\* changes.
LEMMA ParseAgrees ==
  ASSUME NEW c \in Context, NEW d \in Context, Later(c, d), NEW e \in ExpressionType
  PROVE  Agree(ParseValue(c, e), ParseValue(d, e))
<1>1. CASE e.atoms = <<>>
  BY <1>1 DEF ParseValue, Agree
<1>2. CASE e.atoms # <<>>
  <2>1. SweepsAgree(Start(c, e), Start(d, e))
    BY <1>2, StartIs2, AtomAgrees, ExpressionIs DEF SweepsAgree
  <2>2. Agree(Swept(Start(c, e)).values[1], Swept(Start(d, e)).values[1])
    BY <2>1, SweptAgrees
  <2>3. ParseValue(c, e) \in {NoValue, Swept(Start(c, e)).values[1]}
    BY DEF ParseValue, Start
  <2>4. ParseValue(d, e) \in {NoValue, Swept(Start(d, e)).values[1]}
    BY DEF ParseValue, Start
  <2>5. ~NoValue.ok
    BY DEF NoValue
  <2> QED BY <2>2, <2>3, <2>4, <2>5 DEF Agree
<1> QED BY <1>1, <1>2

LEMMA SymIs ==
  ASSUME NEW name \in STRING
  PROVE  /\ Sym(name) \in ExpressionType /\ Sym(name).atoms # <<>>
         /\ Len(Sym(name).atoms) = 1 /\ Sym(name).operators = <<>>
         /\ Sym(name).atoms[1] = [kind |-> "symbol", name |-> name, value |-> 0]
         /\ [kind |-> "symbol", name |-> name, value |-> 0] \in AtomType
<1> DEFINE a == [kind |-> "symbol", name |-> name, value |-> 0]
           s == <<a>>
           o == <<>>
<1>1. a \in AtomType
  BY ScaleIs DEF AtomType
<1> HIDE DEF a
<1>2. s \in Seq(AtomType) /\ o \in Seq(InfixOperators) /\ Len(s) = Len(o) + 1 /\ s[1] = a /\ Len(s) = 1
      /\ s # <<>>
  BY <1>1
<1>3. Sym(name) = [atoms |-> s, operators |-> o]
  BY DEF Sym, a
<1>5. o = <<>>
  OBVIOUS
<1> HIDE DEF s, o
<1>4. Sym(name) \in ExpressionType
  <2>1. [atoms |-> s, operators |-> o] \in [atoms : Seq(AtomType), operators : Seq(InfixOperators)]
    BY <1>2
  <2>2. /\ [atoms |-> s, operators |-> o].atoms = s
        /\ [atoms |-> s, operators |-> o].operators = o
    OBVIOUS
  <2> QED BY <1>2, <1>3, <2>1, <2>2 DEF ExpressionType
<1> QED BY <1>1, <1>2, <1>3, <1>4, <1>5 DEF a

\* A name alone.
LEMMA ParseSym ==
  ASSUME NEW c \in Context, NEW name \in STRING
  PROVE  /\ c.pass = 1 => ParseValue(c, Sym(name)).ok
         /\ name \in DOMAIN c.labels \ DOMAIN c.constants =>
              ParseValue(c, Sym(name)) = Known(c.labels[name])
<1> DEFINE e == Sym(name)
           v == Atom(c, e.atoms[1])
<1>1. /\ e \in ExpressionType /\ e.atoms # <<>> /\ Len(e.atoms) = 1 /\ e.operators = <<>>
      /\ e.atoms[1] = [kind |-> "symbol", name |-> name, value |-> 0] /\ e.atoms[1] \in AtomType
  BY SymIs
<1> HIDE DEF e
<1>2. v \in Value
  BY <1>1, AtomIs
<1>3. /\ Start(c, e).operators = <<>> /\ Start(c, e).values = <<v>>
      /\ Start(c, e) = [values |-> Start(c, e).values, operators |-> Start(c, e).operators]
  <2>1. DOMAIN e.atoms = 1..1
    BY <1>1, ExpressionIs
  <2>2. [i \in 1..1 |-> Atom(c, e.atoms[i])] = <<v>>
    OBVIOUS
  <2> QED BY <1>1, <2>1, <2>2 DEF Start
<1>4. Swept(Start(c, e)).values[1] = v
  BY <1>2, <1>3, SweptOne
<1>5. /\ c.pass = 1 => v.ok
      /\ name \in DOMAIN c.labels \ DOMAIN c.constants => v = Known(c.labels[name]) /\ v.ok
  <2> DEFINE a == e.atoms[1]
  <2>1. a.kind = "symbol" /\ a.name = name
    BY <1>1
  <2> HIDE DEF a
  <2>2. CASE name \in DOMAIN c.constants
    BY <2>1, <2>2 DEF Atom, Known, a
  <2>3. CASE name \in DOMAIN c.labels \ DOMAIN c.constants
    BY <2>1, <2>3 DEF Atom, Known, a
  <2>4. CASE name \notin DOMAIN c.labels \cup DOMAIN c.constants
    BY <2>1, <2>4 DEF Atom, a
  <2> QED BY <2>2, <2>3, <2>4
<1>6. DOMAIN e.atoms = {1}
  BY <1>1, ExpressionIs
<1>7. v.ok => ParseValue(c, e) = v
  BY <1>1, <1>4, <1>6 DEF ParseValue, Start
<1> QED BY <1>5, <1>7 DEF e

-----------------------------------------------------------------------------
(* Operands as a line reads them.                                          *)

ReadType ==
  [form : {"plain", "paren", "IX", "IY", "quoted", "missing", "none"}, e : ExpressionType,
   size : Nat, value : Value, index : Value, indirect : Value]

Indexed(o) == o.form \in {"IX", "IY"}
AtPair(o)  == \E p \in Pairs : Within(o, p)

\* What is known of an operand by its shape.
IsRead(c, o) ==
  /\ o \in ReadType
  /\ o.form # "plain" => ~o.value.ok
  /\ ~Indexed(o) => ~o.index.ok
  /\ o.form \notin {"paren", "IX", "IY"} \/ AtPair(o) => ~o.indirect.ok
  /\ Indexed(o) /\ o.indirect.ok => c.pass = 1 /\ o.index.ok
  /\ \A n : Is(o, n) /\ c.pass = 1 => o.value.ok

SameShape(o, p) == o.form = p.form /\ o.e = p.e /\ o.size = p.size

LEMMA ReadTypeIs ==
  ASSUME NEW o \in ReadType
  PROVE  /\ o.value \in Value /\ o.index \in Value /\ o.indirect \in Value
         /\ o.e \in ExpressionType /\ o.size \in Nat
         /\ o.value.ok \in BOOLEAN /\ o.index.ok \in BOOLEAN /\ o.indirect.ok \in BOOLEAN
         /\ o.value.value \in Int /\ o.index.value \in Int /\ o.indirect.value \in Int
         /\ o.form \in {"plain", "paren", "IX", "IY", "quoted", "missing", "none"}
BY ScaleIs DEF ReadType, Value

LEMMA NamesDiffer ==
  ASSUME NEW m, NEW n, Sym(m) = Sym(n)
  PROVE  m = n
<1>1. /\ Sym(m).atoms[1].name = m
      /\ Sym(n).atoms[1].name = n
  BY DEF Sym
<1> QED BY <1>1

LEMMA NameIs ==
  ASSUME NEW n, Sym(n) \in ExpressionType
  PROVE  n \in STRING
<1>1. Sym(n).atoms[1].name = n /\ Sym(n).atoms \in Seq(AtomType) /\ Len(Sym(n).atoms) = 1
  BY DEF Sym, ExpressionType
<1>2. Sym(n).atoms[1] \in AtomType
  BY <1>1, ElementOfSeq
<1> QED BY <1>1, <1>2 DEF AtomType

LEMMA NoValueIs == NoValue \in Value /\ ~NoValue.ok
BY ScaleIs DEF NoValue, Value

LEMMA AbsentIsRead ==
  ASSUME NEW c
  PROVE  IsRead(c, Absent)
<1> DEFINE e == [atoms |-> <<>>, operators |-> <<>>]
<1>1. e \in ExpressionType
  <2>1. e \in [atoms : Seq(AtomType), operators : Seq(InfixOperators)]
    OBVIOUS
  <2> QED BY <2>1 DEF ExpressionType
<1> HIDE DEF e
<1>2. Absent \in ReadType
  BY <1>1, NoValueIs DEF Absent, ReadType, e
<1>3. /\ Absent.form = "none" /\ ~Absent.value.ok /\ ~Absent.index.ok /\ ~Absent.indirect.ok
  BY NoValueIs DEF Absent
<1> HIDE DEF Absent
<1> QED BY <1>2, <1>3 DEF IsRead, Indexed, Is

\* An operand read keeps the form it was written in.
LEMMA ReadIs ==
  ASSUME NEW c \in Context, NEW o \in OperandType
  PROVE  /\ IsRead(c, Read(c, o, ParseValue(c, o.e))) /\ SameShape(Read(c, o, ParseValue(c, o.e)), o)
         /\ Read(c, o, ParseValue(c, o.e)).form # "none"
         /\ o.form = "plain" => Read(c, o, ParseValue(c, o.e)).value = ParseValue(c, o.e)
<1> DEFINE v == ParseValue(c, o.e)
           q == Read(c, o, v)
<1>1. /\ o.e \in ExpressionType /\ o.size \in Nat
      /\ o.form \in {"plain", "paren", "IX", "IY", "quoted", "missing"}
  BY DEF OperandType
<1>2. v \in Value /\ (o.e.atoms = <<>> => v = NoValue)
  BY <1>1, ParseIs
<1>3. \A n : c.pass = 1 /\ o.e = Sym(n) => v.ok
  BY <1>1, NameIs, ParseSym
<1> HIDE DEF v
<1>4. /\ q.form = o.form /\ q.e = o.e /\ q.size = o.size
      /\ q.value = IF o.form = "plain" THEN v ELSE NoValue
  BY DEF Read
<1>5. /\ Known(0) \in Value /\ Known(0).ok
      /\ [ok |-> v.ok /\ c.pass = 1, value |-> 0, resolved |-> FALSE] \in Value
  BY <1>2, ScaleIs DEF Known, Value
<1>6. /\ q.index \in Value /\ (o.form \notin {"IX", "IY"} => q.index = NoValue)
      /\ o.form \in {"IX", "IY"} => q.index.ok \/ q.index = v
  BY <1>1, <1>2, <1>5, NoValueIs DEF Read
<1>7. AtPair(q) <=> AtPair(o)
  BY <1>4 DEF AtPair, Within
<1>8. /\ q.indirect \in Value
      /\ o.form \notin {"paren", "IX", "IY"} \/ (o.form = "paren" /\ AtPair(o)) => q.indirect = NoValue
      /\ o.form \in {"IX", "IY"} => (q.indirect.ok <=> v.ok /\ c.pass = 1)
  <2>1. o.form \notin {"paren", "IX", "IY"} => q.indirect = NoValue
    BY DEF Read
  <2>2. o.form = "paren" => q.indirect = IF AtPair(o) THEN NoValue ELSE v
    <3>1. AtPair(o) <=> ~\A p \in Pairs : ~Within(o, p)
      BY DEF AtPair
    <3> QED BY <3>1 DEF Read
  <2>3. o.form \in {"IX", "IY"} =>
          q.indirect = [ok |-> v.ok /\ c.pass = 1, value |-> 0, resolved |-> FALSE]
    BY DEF Read
  <2>4. q.indirect \in {NoValue, v, [ok |-> v.ok /\ c.pass = 1, value |-> 0, resolved |-> FALSE]}
    <3> HIDE DEF q
    <3> QED BY <1>1, <2>1, <2>2, <2>3
  <2>5. o.form \in {"IX", "IY"} => (q.indirect.ok <=> v.ok /\ c.pass = 1)
    <3> DEFINE b == v.ok /\ c.pass = 1
               u == [ok |-> b, value |-> 0, resolved |-> FALSE]
    <3>1. u.ok = b /\ (o.form \in {"IX", "IY"} => q.indirect = u)
      BY <2>3
    <3> HIDE DEF u, q
    <3> QED BY <3>1, Zenon
  <2> HIDE DEF q
  <2> QED BY <1>2, <1>5, <2>1, <2>2, <2>4, <2>5, NoValueIs
<1>9. q = [form |-> q.form, e |-> q.e, size |-> q.size, value |-> q.value, index |-> q.index,
           indirect |-> q.indirect]
  BY DEF Read
<1> HIDE DEF q
<1>10. q \in ReadType
  <2>1. q.value \in Value
    BY <1>2, <1>4, NoValueIs
  <2> QED BY <1>1, <1>4, <1>6, <1>8, <1>9, <2>1 DEF ReadType
<1>11. AtPair(q) => o.form = "paren"
  BY <1>4 DEF AtPair, Within
<1>12. IsRead(c, q)
  <2>1. q.form # "plain" => ~q.value.ok
    BY <1>4, NoValueIs
  <2>2. ~Indexed(q) => ~q.index.ok
    BY <1>4, <1>6, NoValueIs DEF Indexed
  <2>3. q.form \notin {"paren", "IX", "IY"} \/ AtPair(q) => ~q.indirect.ok
    BY <1>4, <1>7, <1>8, <1>11, NoValueIs
  <2>4. Indexed(q) /\ q.indirect.ok => c.pass = 1 /\ q.index.ok
    BY <1>4, <1>6, <1>8 DEF Indexed
  <2>5. \A n : Is(q, n) /\ c.pass = 1 => q.value.ok
    BY <1>3, <1>4 DEF Is
  <2> QED BY <1>10, <2>1, <2>2, <2>3, <2>4, <2>5 DEF IsRead
<1>13. SameShape(q, o) /\ q.form # "none" /\ (o.form = "plain" => q.value = v)
  BY <1>1, <1>4 DEF SameShape
<1> QED BY <1>12, <1>13 DEF q, v

\* A line whose operands are read.
IsReadLine(c, q) ==
  /\ q.operands \in Seq(ReadType)
  /\ \A i \in 1..Len(q.operands) : IsRead(c, q.operands[i])

SameLine(q, l) ==
  /\ q.labels = l.labels /\ q.op = l.op /\ q.name = l.name
  /\ DOMAIN q.operands = DOMAIN l.operands /\ Len(q.operands) = Len(l.operands)
  /\ \A i \in DOMAIN l.operands : SameShape(q.operands[i], l.operands[i])

LEMMA LineIs ==
  ASSUME NEW l \in LineType
  PROVE  /\ l.labels \in Seq(STRING) /\ l.op \in STRING /\ l.name \in STRING
         /\ l.operands \in Seq(OperandType) /\ DOMAIN l.operands = 1..Len(l.operands)
         /\ Len(l.operands) \in Nat /\ \A i \in 1..Len(l.operands) : l.operands[i] \in OperandType
         /\ l = [labels |-> l.labels, op |-> l.op, name |-> l.name, operands |-> l.operands]
<1>1. /\ l.labels \in Seq(STRING) /\ l.op \in STRING /\ l.name \in STRING
      /\ l.operands \in Seq(OperandType)
      /\ l = [labels |-> l.labels, op |-> l.op, name |-> l.name, operands |-> l.operands]
  BY DEF LineType
<1> QED BY <1>1, LenProperties, ElementOfSeq

\* The same for all operands of a line.
LEMMA ReadOperandsIs ==
  ASSUME NEW c \in Context, NEW l \in LineType
  PROVE  /\ IsReadLine(c, ReadOperands(c, l)) /\ SameLine(ReadOperands(c, l), l)
         /\ \A i \in DOMAIN l.operands :
              ReadOperands(c, l).operands[i] = Read(c, l.operands[i], ParseValue(c, l.operands[i].e))
<1> DEFINE n == Len(l.operands)
           ops == [i \in 1..n |-> Read(c, l.operands[i], ParseValue(c, l.operands[i].e))]
           q == ReadOperands(c, l)
<1>1. /\ n \in Nat /\ DOMAIN l.operands = 1..n /\ \A i \in 1..n : l.operands[i] \in OperandType
      /\ l = [labels |-> l.labels, op |-> l.op, name |-> l.name, operands |-> l.operands]
  BY LineIs
<1>2. q = [l EXCEPT !.operands = ops]
  BY <1>1 DEF ReadOperands
<1>3. q = [labels |-> l.labels, op |-> l.op, name |-> l.name, operands |-> ops]
  <2> HIDE DEF q, ops
  <2> QED BY <1>1, <1>2, Zenon
<1>4. \A i \in 1..n : /\ IsRead(c, ops[i]) /\ SameShape(ops[i], l.operands[i]) /\ ops[i] \in ReadType
                      /\ ops[i] = Read(c, l.operands[i], ParseValue(c, l.operands[i].e))
  BY <1>1, ReadIs DEF IsRead
<1>5. ops \in Seq(ReadType) /\ DOMAIN ops = 1..n /\ Len(ops) = n
  <2>1. ops = [i \in 1..n |-> ops[i]]
    OBVIOUS
  <2> HIDE DEF ops, n
  <2> QED BY <1>1, <1>4, <2>1
<1> HIDE DEF ops, q
<1>6. q.labels = l.labels /\ q.op = l.op /\ q.name = l.name /\ q.operands = ops
  BY <1>3
<1> QED BY <1>1, <1>4, <1>5, <1>6 DEF IsReadLine, SameLine, q

\* The two operands an instruction looks at.
LEMMA OperandsRead ==
  ASSUME NEW c, NEW q, IsReadLine(c, q)
  PROVE  /\ IsRead(c, Lhs(q)) /\ IsRead(c, Rhs(q)) /\ Count(q) \in Nat
         /\ \A i : IsRead(c, OperandOf(q, i))
<1>1. DOMAIN q.operands = 1..Len(q.operands) /\ Len(q.operands) \in Nat
  BY LenProperties DEF IsReadLine
<1>2. \A i : IsRead(c, OperandOf(q, i))
  BY <1>1, AbsentIsRead DEF OperandOf, IsReadLine
<1> QED BY <1>1, <1>2 DEF Lhs, Rhs, Count

\* Two readings of one line differ in values only.
LEMMA OperandsSame ==
  ASSUME NEW q, NEW l, SameLine(q, l)
  PROVE  /\ SameShape(Lhs(q), Lhs(l)) /\ SameShape(Rhs(q), Rhs(l)) /\ Count(q) = Count(l)
         /\ q.op = l.op /\ q.name = l.name /\ (MissingOperand(q) <=> MissingOperand(l))
<1>1. \A i : SameShape(OperandOf(q, i), OperandOf(l, i))
  BY DEF OperandOf, SameLine, SameShape
<1>2. MissingOperand(q) <=> MissingOperand(l)
  BY DEF MissingOperand, SameLine, SameShape
<1> QED BY <1>1, <1>2 DEF Lhs, Rhs, Count, SameLine

-----------------------------------------------------------------------------
(* The size of an instruction, which only its mnemonic and the shapes of    *)
(* its operands decide.                                                     *)

AluSize(o)  == IF Reg8(o) THEN 1 ELSE IF Indexed(o) THEN 3 ELSE 2
StepSize(o) == IF Reg8(o) \/ Reg16(o) THEN 1 ELSE IF OneOf(o, {"IX", "IY"}) THEN 2 ELSE 3
JumpSize(o) == IF Within(o, "HL") THEN 1 ELSE IF Indexed(o) /\ o.e.atoms = <<>> THEN 2 ELSE 3

LEMMA WithRefuses ==
  ASSUME NEW c, NEW n, NEW kind, NEW v, ~v.ok
  PROVE  With(c, n, kind, v) = Refuse
BY DEF With, InField

LEMMA IndexShaped ==
  ASSUME NEW c, NEW o, IsRead(c, o)
  PROVE  WithIndex(c, o, <<>>) \in Shaped(3)
<1> DEFINE none == <<>>
<1>1. none \in Seq(BytesType) /\ Len(none) = 0 /\ 3 = 3 + Len(none)
  OBVIOUS
<1>2. o.index \in Value
  BY ReadTypeIs DEF IsRead
<1> HIDE DEF none
<1>3. WithIndex(c, o, none) \in Shaped(3)
  BY <1>1, <1>2, WithIndexShaped
<1> QED BY <1>3 DEF none

\* The size of an operation on A follows from the operand's form.
LEMMA AluShaped ==
  ASSUME NEW c, NEW o, IsRead(c, o)
  PROVE  AluForm(c, o) \in Shaped(AluSize(o))
<1>1. o.value.ok \in BOOLEAN /\ o.value.value \in Int /\ o.index.ok \in BOOLEAN /\ o.index.value \in Int
  BY ReadTypeIs DEF IsRead
<1>2. Emit(Codes(1)) \in Shaped(1)
  BY CodesShaped
<1>3. WithIndex(c, o, <<>>) \in Shaped(3)
  BY IndexShaped
<1>4. With(c, 1, "byte", o.value) \in Shaped(2)
  <2>1. "byte" \in FieldKinds /\ 1 + WidthOf("byte") = 2
    BY DEF FieldKinds, WidthOf
  <2> QED BY <1>1, <2>1, WithShaped
<1>5. AluForm(c, o) = IF Reg8(o) THEN Emit(Codes(1)) ELSE IF o.index.ok THEN WithIndex(c, o, <<>>)
                      ELSE With(c, 1, "byte", o.value)
  <2> DEFINE g1 == Reg8(o)
             g2 == o.index.ok
             g3 == TRUE
  <2>1. AluForm(c, o) = FirstOf(<<Row(g1, Emit(Codes(1))), Row(g2, WithIndex(c, o, <<>>)),
                                  Row(g3, With(c, 1, "byte", o.value))>>)
    BY DEF AluForm
  <2> HIDE DEF g1, g2, g3
  <2>2. AluForm(c, o) = IF g1 THEN Emit(Codes(1)) ELSE IF g2 THEN WithIndex(c, o, <<>>)
                        ELSE IF g3 THEN With(c, 1, "byte", o.value) ELSE Refuse
    BY <2>1, Rows3
  <2> QED BY <2>2 DEF g1, g2, g3
<1>6. Reg8(o) => AluSize(o) = 1
  BY DEF AluSize
<1>7. ~Reg8(o) /\ o.index.ok => AluSize(o) = 3
  BY DEF AluSize, IsRead
<1>8. ~Reg8(o) /\ ~o.index.ok => AluForm(c, o) \in Shaped(AluSize(o))
  <2>1. CASE Indexed(o)
    <3>1. With(c, 1, "byte", o.value) = Refuse
      BY <2>1, WithRefuses DEF IsRead, Indexed
    <3> QED BY <1>5, <3>1, RefuseShaped
  <2>2. CASE ~Indexed(o)
    BY <1>4, <1>5, <2>2 DEF AluSize
  <2> QED BY <2>1, <2>2
<1> QED BY <1>2, <1>3, <1>5, <1>6, <1>7, <1>8

LEMMA OperandIs ==
  ASSUME NEW c, NEW o, IsRead(c, o)
  PROVE  /\ o.value \in Value /\ o.index \in Value /\ o.indirect \in Value
         /\ o.value.value \in Int /\ o.index.value \in Int /\ o.indirect.value \in Int
         /\ o.value.ok \in BOOLEAN /\ o.index.ok \in BOOLEAN /\ o.indirect.ok \in BOOLEAN
BY ReadTypeIs DEF IsRead

\* An opcode and one field.
LEMMA FieldShaped ==
  ASSUME NEW c, NEW v, v.value \in Int
  PROVE  /\ With(c, 1, "byte", v) \in Shaped(2) /\ With(c, 1, "relative", v) \in Shaped(2)
         /\ With(c, 1, "port", v) \in Shaped(2) /\ With(c, 1, "address", v) \in Shaped(3)
         /\ With(c, 1, "word", v) \in Shaped(3) /\ With(c, 2, "byte", v) \in Shaped(3)
         /\ With(c, 2, "word", v) \in Shaped(4) /\ With(c, 2, "address", v) \in Shaped(4)
         /\ With(c, 0, "byte", v) \in Shaped(1) /\ With(c, 0, "word", v) \in Shaped(2)
<1>1. \A n \in Nat, kind \in FieldKinds : With(c, n, kind, v) \in Shaped(n + WidthOf(kind))
  BY WithShaped
<1>2. \A kind \in {"byte", "port", "relative", "word", "address"} : kind \in FieldKinds
  BY DEF FieldKinds
<1>3. /\ 1 + WidthOf("byte") = 2 /\ 1 + WidthOf("relative") = 2 /\ 1 + WidthOf("port") = 2
      /\ 1 + WidthOf("address") = 3 /\ 1 + WidthOf("word") = 3 /\ 2 + WidthOf("byte") = 3
      /\ 2 + WidthOf("word") = 4 /\ 2 + WidthOf("address") = 4 /\ 0 + WidthOf("byte") = 1
      /\ 0 + WidthOf("word") = 2
  BY DEF WidthOf
<1> QED BY <1>1, <1>2, <1>3

LEMMA OpcodeShaped ==
  Emit(Codes(1)) \in Shaped(1) /\ Emit(Codes(2)) \in Shaped(2)
BY CodesShaped

\* The same for each form below: its size depends on the operands' forms
\* alone.
LEMMA BitShaped ==
  ASSUME NEW c, NEW q, IsReadLine(c, q)
  PROVE  BitForm(c, q) \in Shaped(IF Reg8(Rhs(q)) THEN 2 ELSE 4)
<1> DEFINE o == Rhs(q)
           extra == Codes(1)
<1>1. IsRead(c, o) /\ o.index \in Value
  BY OperandsRead, OperandIs
<1>2. extra \in Seq(BytesType) /\ 4 = 3 + Len(extra)
  BY CodesAre
<1> HIDE DEF extra
<1>3. WithIndex(c, o, extra) \in Shaped(4)
  BY <1>1, <1>2, WithIndexShaped
<1>4. FirstOf(<< Row(Reg8(o), Emit(Codes(2))), Row(o.index.ok, WithIndex(c, o, extra)) >>)
        = IF Reg8(o) THEN Emit(Codes(2)) ELSE IF o.index.ok THEN WithIndex(c, o, extra) ELSE Refuse
  BY FirstOf2 DEF Row
<1>5. BitForm(c, q) \in {Refuse, IF Reg8(o) THEN Emit(Codes(2)) ELSE WithIndex(c, o, extra)}
  BY <1>4 DEF BitForm, extra
<1> HIDE DEF o
<1>6. QED BY <1>3, <1>5, OpcodeShaped, RefuseShaped DEF o

LEMMA RetRstShaped ==
  ASSUME NEW q
  PROVE  RetForm(q) \in Shaped(1) /\ RstForm(q) \in Shaped(1)
BY OpcodeShaped, RefuseShaped DEF RetForm, RstForm

LEMMA RelativeIs ==
  ASSUME NEW c \in Context, NEW o, IsRead(c, o)
  PROVE  /\ Relative(c, o).value = o.value.value - (c.address + 2)
         /\ Relative(c, o).value \in Int /\ Relative(c, o).ok = o.value.ok
<1>1. o.value \in Value /\ c.address \in Int /\ o.value.value \in Int
  BY OperandIs, ContextIs, ScaleIs
<1> QED BY <1>1 DEF Relative, Value

LEMMA JrShaped ==
  ASSUME NEW c \in Context, NEW q, IsReadLine(c, q)
  PROVE  DjnzForm(c, q) \in Shaped(2) /\ JrForm(c, q) \in Shaped(2)
<1> DEFINE f == With(c, 1, "relative", Relative(c, Lhs(q)))
           g == With(c, 1, "relative", Relative(c, Rhs(q)))
<1>1. f \in Shaped(2) /\ g \in Shaped(2)
  BY OperandsRead, RelativeIs, FieldShaped
<1>2. JrForm(c, q) = IF Count(q) = 1 THEN f
                     ELSE IF Count(q) = 2 /\ OneOf(Lhs(q), ShortConditions) THEN g ELSE Refuse
  <2> DEFINE g1 == Count(q) = 1
             g2 == Count(q) = 2 /\ OneOf(Lhs(q), ShortConditions)
  <2>1. JrForm(c, q) = FirstOf(<<Row(g1, f), Row(g2, g)>>)
    BY DEF JrForm
  <2> HIDE DEF g1, g2
  <2>2. JrForm(c, q) = IF g1 THEN f ELSE IF g2 THEN g ELSE Refuse
    BY <2>1, Rows2
  <2> QED BY <2>2 DEF g1, g2
<1>3. DjnzForm(c, q) = IF Count(q) = 1 THEN f ELSE Refuse
  BY DEF DjnzForm
<1> HIDE DEF f, g
<1> QED BY <1>1, <1>2, <1>3, RefuseShaped

LEMMA JpIs ==
  ASSUME NEW c, NEW q
  PROVE  JpForm(c, q) =
           IF Count(q) = 1 /\ Within(Lhs(q), "HL") THEN Emit(Codes(1))
           ELSE IF Count(q) = 1 /\ Indexed(Lhs(q)) /\ Lhs(q).e.atoms = <<>> THEN Emit(Codes(2))
           ELSE IF Count(q) = 1 THEN With(c, 1, "address", Lhs(q).value)
           ELSE IF Count(q) = 2 /\ Condition(Lhs(q)) THEN With(c, 1, "address", Rhs(q).value)
           ELSE Refuse
<1>1. JpForm(c, q) =
           IF Count(q) = 1 /\ Within(Lhs(q), "HL") THEN Emit(Codes(1))
           ELSE IF Count(q) = 1 /\ Indexed(Lhs(q)) /\ Lhs(q).e.atoms = <<>> THEN Emit(Codes(2))
           ELSE IF Count(q) = 1 THEN With(c, 1, "address", Lhs(q).value)
           ELSE IF Count(q) = 2 /\ Condition(Lhs(q)) THEN With(c, 1, "address", Rhs(q).value)
           ELSE Refuse
  <2> DEFINE g1 == Count(q) = 1 /\ Within(Lhs(q), "HL")
             g2 == Count(q) = 1 /\ Indexed(Lhs(q)) /\ Lhs(q).e.atoms = <<>>
             g3 == Count(q) = 1
             g4 == Count(q) = 2 /\ Condition(Lhs(q))
  <2>1. JpForm(c, q) = FirstOf(<<Row(g1, Emit(Codes(1))), Row(g2, Emit(Codes(2))),
                                 Row(g3, With(c, 1, "address", Lhs(q).value)),
                                 Row(g4, With(c, 1, "address", Rhs(q).value))>>)
    BY DEF JpForm, Indexed
  <2> HIDE DEF g1, g2, g3, g4
  <2>2. JpForm(c, q) = IF g1 THEN Emit(Codes(1)) ELSE IF g2 THEN Emit(Codes(2))
                       ELSE IF g3 THEN With(c, 1, "address", Lhs(q).value)
                       ELSE IF g4 THEN With(c, 1, "address", Rhs(q).value) ELSE Refuse
    BY <2>1, Rows4
  <2> QED BY <2>2 DEF g1, g2, g3, g4
<1> QED BY <1>1

LEMMA JpShaped ==
  ASSUME NEW c, NEW q, IsReadLine(c, q)
  PROVE  /\ Count(q) = 1 => JpForm(c, q) \in Shaped(JumpSize(Lhs(q)))
         /\ Count(q) # 1 => JpForm(c, q) \in Shaped(3)
<1> DEFINE f == With(c, 1, "address", Lhs(q).value)
           g == With(c, 1, "address", Rhs(q).value)
<1>1. f \in Shaped(3) /\ g \in Shaped(3)
  BY OperandsRead, OperandIs, FieldShaped
<1>2. JpForm(c, q) =
           IF Count(q) = 1 /\ Within(Lhs(q), "HL") THEN Emit(Codes(1))
           ELSE IF Count(q) = 1 /\ Indexed(Lhs(q)) /\ Lhs(q).e.atoms = <<>> THEN Emit(Codes(2))
           ELSE IF Count(q) = 1 THEN f
           ELSE IF Count(q) = 2 /\ Condition(Lhs(q)) THEN g
           ELSE Refuse
  BY JpIs
<1> HIDE DEF f, g
<1> QED BY <1>1, <1>2, OpcodeShaped, RefuseShaped DEF JumpSize

LEMMA CallShaped ==
  ASSUME NEW c, NEW q, IsReadLine(c, q)
  PROVE  CallForm(c, q) \in Shaped(3)
<1> DEFINE f == With(c, 1, "address", Lhs(q).value)
           g == With(c, 1, "address", Rhs(q).value)
<1>1. f \in Shaped(3) /\ g \in Shaped(3)
  BY OperandsRead, OperandIs, FieldShaped
<1>2. CallForm(c, q) = IF Count(q) = 1 THEN f
                       ELSE IF Count(q) = 2 /\ Condition(Lhs(q)) THEN g ELSE Refuse
  <2> DEFINE g1 == Count(q) = 1
             g2 == Count(q) = 2 /\ Condition(Lhs(q))
  <2>1. CallForm(c, q) = FirstOf(<<Row(g1, f), Row(g2, g)>>)
    BY DEF CallForm
  <2> HIDE DEF g1, g2
  <2>2. CallForm(c, q) = IF g1 THEN f ELSE IF g2 THEN g ELSE Refuse
    BY <2>1, Rows2
  <2> QED BY <2>2 DEF g1, g2
<1> HIDE DEF f, g
<1> QED BY <1>1, <1>2, RefuseShaped

LEMMA PortShaped ==
  ASSUME NEW c, NEW q, IsReadLine(c, q)
  PROVE  OutForm(c, q) \in Shaped(2) /\ InForm(c, q) \in Shaped(2)
<1> DEFINE f == With(c, 1, "port", Lhs(q).indirect)
           g == With(c, 1, "port", Rhs(q).indirect)
<1>1. f \in Shaped(2) /\ g \in Shaped(2)
  BY OperandsRead, OperandIs, FieldShaped
<1>2. InForm(c, q) = IF Count(q) = 2 /\ Is(Lhs(q), "A") /\ Within(Rhs(q), "C") THEN Emit(Codes(2))
                     ELSE IF Count(q) = 2 /\ Is(Lhs(q), "A") THEN g ELSE Refuse
  <2> DEFINE g1 == Count(q) = 2 /\ Is(Lhs(q), "A") /\ Within(Rhs(q), "C")
             g2 == Count(q) = 2 /\ Is(Lhs(q), "A")
  <2>1. InForm(c, q) = FirstOf(<<Row(g1, Emit(Codes(2))), Row(g2, g)>>)
    BY DEF InForm
  <2> HIDE DEF g1, g2
  <2>2. InForm(c, q) = IF g1 THEN Emit(Codes(2)) ELSE IF g2 THEN g ELSE Refuse
    BY <2>1, Rows2
  <2> QED BY <2>2 DEF g1, g2
<1>3. OutForm(c, q) = IF Count(q) = 2 /\ Is(Rhs(q), "A") THEN f ELSE Refuse
  BY DEF OutForm
<1> HIDE DEF f, g
<1> QED BY <1>1, <1>2, <1>3, OpcodeShaped, RefuseShaped

LEMMA StackShaped ==
  ASSUME NEW q
  PROVE  StackForm(q) \in Shaped(IF Reg16Push(Lhs(q)) THEN 1 ELSE 2)
<1>1. StackForm(q) = IF Count(q) = 1 /\ Reg16Push(Lhs(q)) THEN Emit(Codes(1))
                     ELSE IF Count(q) = 1 /\ OneOf(Lhs(q), {"IX", "IY"}) THEN Emit(Codes(2))
                     ELSE Refuse
  <2> DEFINE g1 == Count(q) = 1 /\ Reg16Push(Lhs(q))
             g2 == Count(q) = 1 /\ OneOf(Lhs(q), {"IX", "IY"})
  <2>1. StackForm(q) = FirstOf(<<Row(g1, Emit(Codes(1))), Row(g2, Emit(Codes(2)))>>)
    BY DEF StackForm
  <2> HIDE DEF g1, g2
  <2>2. StackForm(q) = IF g1 THEN Emit(Codes(1)) ELSE IF g2 THEN Emit(Codes(2)) ELSE Refuse
    BY <2>1, Rows2
  <2> QED BY <2>2 DEF g1, g2
<1> QED BY <1>1, OpcodeShaped, RefuseShaped

LEMMA StepShaped ==
  ASSUME NEW c, NEW q, IsReadLine(c, q)
  PROVE  StepForm(c, q) \in Shaped(StepSize(Lhs(q)))
<1> DEFINE o == Lhs(q)
           f == WithIndex(c, o, <<>>)
<1>1. f \in Shaped(3)
  BY OperandsRead, IndexShaped
<1>2. StepForm(c, q) = IF Count(q) # 1 THEN Refuse ELSE IF Reg8(o) \/ Reg16(o) THEN Emit(Codes(1))
                       ELSE IF OneOf(o, {"IX", "IY"}) THEN Emit(Codes(2))
                       ELSE IF o.index.ok THEN f ELSE Refuse
  <2> DEFINE g1 == Count(q) # 1
             g2 == Reg8(o) \/ Reg16(o)
             g3 == OneOf(o, {"IX", "IY"})
             g4 == o.index.ok
  <2>1. StepForm(c, q) = FirstOf(<<Row(g1, Refuse), Row(g2, Emit(Codes(1))),
                                   Row(g3, Emit(Codes(2))), Row(g4, f)>>)
    BY DEF StepForm
  <2> HIDE DEF g1, g2, g3, g4
  <2>2. StepForm(c, q) = IF g1 THEN Refuse ELSE IF g2 THEN Emit(Codes(1))
                         ELSE IF g3 THEN Emit(Codes(2)) ELSE IF g4 THEN f ELSE Refuse
    BY <2>1, Rows4
  <2> QED BY <2>2 DEF g1, g2, g3, g4
<1> HIDE DEF f, o
<1> QED BY <1>1, <1>2, OpcodeShaped, RefuseShaped DEF StepSize, o

LEMMA ExShaped ==
  ASSUME NEW q
  PROVE  ExForm(q) \in Shaped(IF Within(Lhs(q), "SP") /\ ~Is(Rhs(q), "HL") THEN 2 ELSE 1)
<1> DEFINE p == Spelled(q, <<"DE", "HL">>) \/ Spelled(q, <<"AF", "AF'">>)
<1>1. ExForm(q) = IF p THEN Emit(Codes(1))
                  ELSE IF Count(q) = 2 /\ Within(Lhs(q), "SP") /\ Is(Rhs(q), "HL") THEN Emit(Codes(1))
                  ELSE IF Count(q) = 2 /\ Within(Lhs(q), "SP") /\ OneOf(Rhs(q), {"IX", "IY"})
                  THEN Emit(Codes(2)) ELSE Refuse
  <2> DEFINE g1 == p
             g2 == Count(q) = 2 /\ Within(Lhs(q), "SP") /\ Is(Rhs(q), "HL")
             g3 == Count(q) = 2 /\ Within(Lhs(q), "SP") /\ OneOf(Rhs(q), {"IX", "IY"})
  <2>1. ExForm(q) = FirstOf(<<Row(g1, Emit(Codes(1))), Row(g2, Emit(Codes(1))),
                              Row(g3, Emit(Codes(2)))>>)
    BY DEF ExForm
  <2> HIDE DEF g1, g2, g3
  <2>2. ExForm(q) = IF g1 THEN Emit(Codes(1)) ELSE IF g2 THEN Emit(Codes(1))
                    ELSE IF g3 THEN Emit(Codes(2)) ELSE Refuse
    BY <2>1, Rows3
  <2> QED BY <2>2 DEF g1, g2, g3
<1>2. p => ~Within(Lhs(q), "SP")
  BY DEF Spelled, Within, Is, Lhs
<1>3. OneOf(Rhs(q), {"IX", "IY"}) => ~Is(Rhs(q), "HL")
  BY NamesDiffer DEF OneOf, Is
<1> HIDE DEF p
<1> QED BY <1>1, <1>2, <1>3, OpcodeShaped, RefuseShaped

AddSize(a, b) == IF Is(a, "A") THEN AluSize(b) ELSE IF OneOf(a, {"IX", "IY"}) THEN 2 ELSE 1

LEMMA AddShaped ==
  ASSUME NEW c, NEW q, IsReadLine(c, q)
  PROVE  /\ AdcForm(c, q) \in Shaped(AluSize(Rhs(q))) /\ LogicForm(c, q) \in Shaped(AluSize(Lhs(q)))
         /\ AddForm(c, q) \in Shaped(AddSize(Lhs(q), Rhs(q)))
<1> DEFINE a == Lhs(q)
           b == Rhs(q)
           f == AluForm(c, b)
<1>1. f \in Shaped(AluSize(b)) /\ AluForm(c, a) \in Shaped(AluSize(a))
  BY OperandsRead, AluShaped
<1>2. AdcForm(c, q) \in {f, Refuse} /\ LogicForm(c, q) \in {AluForm(c, a), Refuse}
  BY DEF AdcForm, LogicForm
<1>3. AddForm(c, q) = IF Count(q) # 2 THEN Refuse ELSE IF Is(a, "HL") /\ Reg16(b) THEN Emit(Codes(1))
                      ELSE IF (\E i \in {"IX", "IY"} : Is(a, i) /\ IndexReg16(b, i)) THEN Emit(Codes(2))
                      ELSE IF Is(a, "A") THEN f ELSE Refuse
  <2> DEFINE g1 == Count(q) # 2
             g2 == Is(a, "HL") /\ Reg16(b)
             g3 == (\E i \in {"IX", "IY"} : Is(a, i) /\ IndexReg16(b, i))
             g4 == Is(a, "A")
  <2>1. AddForm(c, q) = FirstOf(<<Row(g1, Refuse), Row(g2, Emit(Codes(1))),
                                  Row(g3, Emit(Codes(2))), Row(g4, f)>>)
    BY DEF AddForm
  <2> HIDE DEF g1, g2, g3, g4
  <2>2. AddForm(c, q) = IF g1 THEN Refuse ELSE IF g2 THEN Emit(Codes(1))
                        ELSE IF g3 THEN Emit(Codes(2)) ELSE IF g4 THEN f ELSE Refuse
    BY <2>1, Rows4
  <2> QED BY <2>2 DEF g1, g2, g3, g4
<1>4. Is(a, "HL") => ~Is(a, "A") /\ ~OneOf(a, {"IX", "IY"})
  BY NamesDiffer DEF OneOf, Is
<1>5. (\E i \in {"IX", "IY"} : Is(a, i) /\ IndexReg16(b, i)) => ~Is(a, "A") /\ OneOf(a, {"IX", "IY"})
  BY NamesDiffer DEF OneOf, Is
<1> HIDE DEF f, a, b
<1>6. AddForm(c, q) \in Shaped(AddSize(a, b))
  BY <1>1, <1>3, <1>4, <1>5, OpcodeShaped, RefuseShaped DEF AddSize
<1> QED BY <1>1, <1>2, <1>6, RefuseShaped DEF a, b
-----------------------------------------------------------------------------
(* LD: the first of sixteen rows.                                          *)

LEMMA IsOne ==
  ASSUME NEW o, NEW m, NEW n, Is(o, m), Is(o, n)
  PROVE  m = n
BY NamesDiffer DEF Is

LEMMA NamesApart ==
  ASSUME NEW o
  PROVE  /\ Is(o, "A") => Reg8(o)
         /\ Is(o, "R") => ~Reg8(o) /\ ~Reg16(o) /\ ~OneOf(o, {"IX", "IY"}) /\ ~Is(o, "HL")
         /\ Reg8(o) /\ o.form = "plain" =>
              ~Reg16(o) /\ ~OneOf(o, {"IX", "IY"}) /\ ~Is(o, "HL") /\ ~Is(o, "SP")
         /\ OneOf(o, {"A", "HL"}) => ~OneOf(o, {"IX", "IY", "BC", "DE", "SP"})
         /\ OneOf(o, {"A", "HL"}) => (Is(o, "HL") /\ ~Reg8(o)) \/ (Is(o, "A") /\ Reg8(o))
         /\ OneOf(o, {"IX", "IY", "BC", "DE", "SP"}) => ~Reg8(o)
         /\ Is(o, "HL") => ~OneOf(o, {"IX", "IY"}) /\ ~Reg8(o)
         /\ Is(o, "SP") => Reg16(o) /\ ~OneOf(o, {"IX", "IY"})
         /\ OneOf(o, {"IX", "IY"}) => ~Reg16(o) /\ ~Is(o, "SP")
<1>1. \A m, n : Is(o, m) /\ Is(o, n) => m = n
  BY IsOne
<1>2. \A n : Is(o, n) => ~Within(o, "HL")
  BY DEF Is, Within
<1>3. o.form = "plain" => ~Within(o, "HL")
  BY DEF Within
<1> QED BY <1>1, <1>2, <1>3 DEF Reg8, Reg16, OneOf

\* Neither (HL) nor another register pair in parentheses.
Address(o) == o.form = "paren" /\ ~AtPair(o)

LdSize(a, b) ==
  IF Is(a, "SP") /\ Is(b, "HL") THEN 1
  ELSE IF Is(a, "SP") /\ OneOf(b, {"IX", "IY"}) THEN 2
  ELSE IF Reg16(a) /\ b.form = "plain" THEN 3
  ELSE IF OneOf(a, {"IX", "IY"}) /\ b.form = "plain" THEN 4
  ELSE IF Indexed(a) THEN IF Reg8(b) /\ b.form = "plain" THEN 3 ELSE 4
  ELSE IF Indexed(b) THEN IF OneOf(a, {"IX", "IY", "BC", "DE", "SP"}) THEN 4 ELSE 3
  ELSE IF Is(a, "A") /\ Is(b, "R") THEN 2
  ELSE IF Address(a) THEN IF OneOf(b, {"A", "HL"}) THEN 3 ELSE 4
  ELSE IF Address(b) THEN IF OneOf(a, {"A", "HL"}) THEN 3 ELSE 4
  ELSE IF b.form = "plain" /\ ~Reg8(b) THEN 2
  ELSE 1

\* LD of 16-bit registers.
LEMMA LdWideShaped ==
  ASSUME NEW c, NEW q, IsReadLine(c, q)
  PROVE  FirstOf(LdWide(c, q)) \in Shaped(LdSize(Lhs(q), Rhs(q)))
<1> DEFINE a == Lhs(q)
           b == Rhs(q)
           v == b.value
           f == With(c, 1, "word", v)
           h == With(c, 2, "word", v)
<1>1. f \in Shaped(3) /\ h \in Shaped(4) /\ (v.ok => b.form = "plain")
  BY OperandsRead, OperandIs, FieldShaped DEF IsRead
<1>2. FirstOf(LdWide(c, q)) =
        IF Is(a, "SP") /\ Is(b, "HL") THEN Emit(Codes(1))
        ELSE IF Is(a, "SP") /\ OneOf(b, {"IX", "IY"}) THEN Emit(Codes(2))
        ELSE IF Reg16(a) /\ v.ok THEN f ELSE IF OneOf(a, {"IX", "IY"}) /\ v.ok THEN h ELSE Refuse
  <2> DEFINE g1 == Is(a, "SP") /\ Is(b, "HL")
             g2 == Is(a, "SP") /\ OneOf(b, {"IX", "IY"})
             g3 == Reg16(a) /\ v.ok
             g4 == OneOf(a, {"IX", "IY"}) /\ v.ok
  <2>1. FirstOf(LdWide(c, q)) = FirstOf(<<Row(g1, Emit(Codes(1))), Row(g2, Emit(Codes(2))),
                                          Row(g3, f), Row(g4, h)>>)
    BY DEF LdWide
  <2> HIDE DEF g1, g2, g3, g4
  <2>2. FirstOf(LdWide(c, q)) = IF g1 THEN Emit(Codes(1)) ELSE IF g2 THEN Emit(Codes(2))
                                ELSE IF g3 THEN f ELSE IF g4 THEN h ELSE Refuse
    BY <2>1, Rows4
  <2> QED BY <2>2 DEF g1, g2, g3, g4
<1> HIDE DEF f, h, v
<1>3. /\ OneOf(a, {"IX", "IY"}) => ~Reg16(a) /\ ~Is(a, "SP")
      /\ Is(a, "SP") => ~OneOf(a, {"IX", "IY"})
  BY NamesApart
<1> HIDE DEF a, b
<1>4. FirstOf(LdWide(c, q)) \in Shaped(LdSize(a, b))
  BY <1>1, <1>2, <1>3, OpcodeShaped, RefuseShaped DEF LdSize
<1> QED BY <1>4 DEF a, b

LEMMA LdIndexedIs ==
  ASSUME NEW c, NEW q
  PROVE  FirstOf(LdIndexed(c, q)) =
           IF Reg8(Lhs(q)) /\ Lhs(q).form = "plain" /\ Rhs(q).index.ok THEN WithIndex(c, Rhs(q), <<>>)
           ELSE IF Lhs(q).index.ok /\ Reg8(Rhs(q)) /\ Rhs(q).form = "plain"
           THEN WithIndex(c, Lhs(q), <<>>)
           ELSE IF Lhs(q).index.ok /\ Rhs(q).value.ok
           THEN (IF InField(c, "byte", Rhs(q).value)
                 THEN WithIndex(c, Lhs(q), Field("byte", Rhs(q).value.value)) ELSE Refuse)
           ELSE IF Is(Lhs(q), "A") /\ Is(Rhs(q), "R") THEN Emit(Codes(2)) ELSE Refuse
<1> DEFINE a == Lhs(q)
           b == Rhs(q)
           k == IF InField(c, "byte", b.value)
                THEN WithIndex(c, a, Field("byte", b.value.value)) ELSE Refuse
<1>1. FirstOf(LdIndexed(c, q)) =
        IF Reg8(a) /\ a.form = "plain" /\ b.index.ok THEN WithIndex(c, b, <<>>)
        ELSE IF a.index.ok /\ Reg8(b) /\ b.form = "plain" THEN WithIndex(c, a, <<>>)
        ELSE IF a.index.ok /\ b.value.ok THEN k
        ELSE IF Is(a, "A") /\ Is(b, "R") THEN Emit(Codes(2)) ELSE Refuse
  <2> DEFINE g1 == Reg8(a) /\ a.form = "plain" /\ b.index.ok
             g2 == a.index.ok /\ Reg8(b) /\ b.form = "plain"
             g3 == a.index.ok /\ b.value.ok
             g4 == Is(a, "A") /\ Is(b, "R")
  <2>1. FirstOf(LdIndexed(c, q)) = FirstOf(<<Row(g1, WithIndex(c, b, <<>>)),
                                             Row(g2, WithIndex(c, a, <<>>)), Row(g3, k),
                                             Row(g4, Emit(Codes(2)))>>)
    BY DEF LdIndexed
  <2> HIDE DEF g1, g2, g3, g4
  <2>2. FirstOf(LdIndexed(c, q)) = IF g1 THEN WithIndex(c, b, <<>>)
                                   ELSE IF g2 THEN WithIndex(c, a, <<>>) ELSE IF g3 THEN k
                                   ELSE IF g4 THEN Emit(Codes(2)) ELSE Refuse
    BY <2>1, Rows4
  <2> QED BY <2>2 DEF g1, g2, g3, g4
<1> QED BY <1>1

\* LD through IX and IY.
LEMMA LdIndexedShaped ==
  ASSUME NEW c, NEW q, IsReadLine(c, q)
  PROVE  FirstOf(LdIndexed(c, q)) \in Shaped(LdSize(Lhs(q), Rhs(q)))
<1> DEFINE a == Lhs(q)
           b == Rhs(q)
           v == b.value
           f == WithIndex(c, b, <<>>)
           h == WithIndex(c, a, <<>>)
           extra == Field("byte", v.value)
           k == WithIndex(c, a, extra)
<1>1. f \in Shaped(3) /\ h \in Shaped(3)
  BY OperandsRead, IndexShaped
<1>2. k \in Shaped(4)
  <2>1. v.value \in Int /\ a.index \in Value
    BY OperandsRead, OperandIs
  <2>2. "byte" \in FieldKinds /\ WidthOf("byte") = 1
    BY DEF FieldKinds, WidthOf
  <2>3. extra \in Seq(BytesType) /\ Len(extra) = 1
    BY <2>1, <2>2, FieldIs
  <2> HIDE DEF extra, a
  <2>4. 4 = 3 + Len(extra)
    BY <2>3
  <2> QED BY <2>1, <2>3, <2>4, WithIndexShaped
<1>3. /\ v.ok => b.form = "plain"
      /\ a.index.ok => Indexed(a)
      /\ b.index.ok => Indexed(b)
  BY OperandsRead DEF IsRead
<1>4. FirstOf(LdIndexed(c, q)) =
        IF Reg8(a) /\ a.form = "plain" /\ b.index.ok THEN f
        ELSE IF a.index.ok /\ Reg8(b) /\ b.form = "plain" THEN h
        ELSE IF a.index.ok /\ v.ok THEN (IF InField(c, "byte", v) THEN k ELSE Refuse)
        ELSE IF Is(a, "A") /\ Is(b, "R") THEN Emit(Codes(2)) ELSE Refuse
  BY LdIndexedIs
<1>5. /\ \A n : Is(b, n) => b.form = "plain"
      /\ \A n : Is(a, n) => a.form = "plain"
      /\ OneOf(b, {"IX", "IY"}) => b.form = "plain"
      /\ OneOf(a, {"IX", "IY"}) => a.form = "plain"
      /\ OneOf(a, {"IX", "IY", "BC", "DE", "SP"}) => ~Reg8(a)
      /\ Reg16(a) => a.form = "plain"
      /\ Indexed(a) => a.form # "plain"
      /\ Indexed(b) => b.form # "plain"
      /\ Is(a, "A") => Reg8(a)
      /\ Reg8(a) /\ a.form = "plain" => ~Reg16(a) /\ ~OneOf(a, {"IX", "IY"}) /\ ~Is(a, "SP")
  BY NamesApart DEF Is, OneOf, Reg16, Indexed
<1> HIDE DEF f, h, k, a, b, v
<1>6. FirstOf(LdIndexed(c, q)) \in Shaped(LdSize(a, b))
  BY <1>1, <1>2, <1>3, <1>4, <1>5, OpcodeShaped, RefuseShaped DEF LdSize
<1> QED BY <1>6 DEF a, b

\* LD with an address.
LEMMA LdMemoryShaped ==
  ASSUME NEW c, NEW q, IsReadLine(c, q),
         ~(Lhs(q).index.ok /\ Reg8(Rhs(q)) /\ Rhs(q).form = "plain"),
         ~(Lhs(q).index.ok /\ Rhs(q).value.ok)
  PROVE  FirstOf(LdMemory(c, q)) \in Shaped(LdSize(Lhs(q), Rhs(q)))
<1> DEFINE a == Lhs(q)
           b == Rhs(q)
           to == a.indirect
           from == b.indirect
           f == With(c, 1, "address", to)
           h == With(c, 1, "address", from)
           k == With(c, 2, "address", to)
           m == With(c, 2, "address", from)
           Wide(o) == OneOf(o, {"IX", "IY", "BC", "DE", "SP"})
<1>1. f \in Shaped(3) /\ h \in Shaped(3) /\ k \in Shaped(4) /\ m \in Shaped(4)
  BY OperandsRead, OperandIs, FieldShaped
<1>2. FirstOf(LdMemory(c, q)) =
        IF to.ok /\ OneOf(b, {"A", "HL"}) THEN f ELSE IF from.ok /\ OneOf(a, {"A", "HL"}) THEN h
        ELSE IF to.ok /\ Wide(b) THEN k ELSE IF from.ok /\ Wide(a) THEN m ELSE Refuse
  <2> DEFINE g1 == to.ok /\ OneOf(b, {"A", "HL"})
             g2 == from.ok /\ OneOf(a, {"A", "HL"})
             g3 == to.ok /\ Wide(b)
             g4 == from.ok /\ Wide(a)
  <2>1. FirstOf(LdMemory(c, q)) = FirstOf(<<Row(g1, f), Row(g2, h), Row(g3, k), Row(g4, m)>>)
    BY DEF LdMemory
  <2> HIDE DEF g1, g2, g3, g4
  <2>2. FirstOf(LdMemory(c, q)) = IF g1 THEN f ELSE IF g2 THEN h ELSE IF g3 THEN k
                                  ELSE IF g4 THEN m ELSE Refuse
    BY <2>1, Rows4
  <2> QED BY <2>2 DEF g1, g2, g3, g4
<1>3. /\ to.ok => Address(a) \/ (Indexed(a) /\ a.index.ok /\ c.pass = 1)
      /\ from.ok => Address(b) \/ Indexed(b)
      /\ \A n : Is(b, n) /\ c.pass = 1 => b.value.ok
  BY OperandsRead DEF IsRead, Indexed, Address
<1>4. /\ \A n : Is(b, n) => b.form = "plain"
      /\ \A n : Is(a, n) => a.form = "plain"
      /\ Reg16(a) => a.form = "plain"
      /\ OneOf(b, {"IX", "IY"}) => b.form = "plain"
      /\ OneOf(a, {"IX", "IY"}) => a.form = "plain"
      /\ OneOf(a, {"A", "HL"}) => a.form = "plain"
      /\ Wide(a) => a.form = "plain"
      /\ OneOf(b, {"A", "HL"}) => b.form = "plain"
      /\ Wide(b) => b.form = "plain"
      /\ Indexed(a) => a.form # "plain"
      /\ Indexed(b) => b.form # "plain"
      /\ Address(a) => a.form # "plain" /\ ~Indexed(a)
      /\ Address(b) => b.form # "plain" /\ ~Indexed(b)
  BY DEF Is, OneOf, Reg16, Indexed, Address
<1>5. /\ OneOf(a, {"A", "HL"}) => ~Wide(a)
      /\ OneOf(b, {"A", "HL"}) => ~Wide(b)
      /\ OneOf(b, {"A", "HL"}) => \E n : Is(b, n)
      /\ Wide(b) => ~Reg8(b)
  BY NamesApart DEF OneOf
<1>6. OneOf(b, {"A", "HL"}) /\ to.ok => Address(a)
  BY <1>3, <1>5
<1> HIDE DEF f, h, k, m, a, b, to, from, Wide
<1>7. FirstOf(LdMemory(c, q)) \in Shaped(LdSize(a, b))
  <2>1. OneOf(b, {"A", "HL"}) /\ to.ok => LdSize(a, b) = 3
    BY <1>4, <1>6 DEF LdSize
  <2>2. OneOf(a, {"A", "HL"}) /\ from.ok => LdSize(a, b) = 3
    BY <1>3, <1>4, <1>5 DEF LdSize, Wide
  <2>3. Wide(b) /\ to.ok => LdSize(a, b) = 4
    BY <1>3, <1>4, <1>5 DEF LdSize
  <2>4. Wide(a) /\ from.ok => LdSize(a, b) = 4
    BY <1>3, <1>4, <1>5 DEF LdSize, Wide
  <2> QED BY <1>1, <1>2, <2>1, <2>2, <2>3, <2>4, RefuseShaped
<1> QED BY <1>7 DEF a, b

\* LD of bytes.
LEMMA LdByteShaped ==
  ASSUME NEW c, NEW q, IsReadLine(c, q)
  PROVE  FirstOf(LdByte(c, q)) \in Shaped(LdSize(Lhs(q), Rhs(q)))
<1> DEFINE a == Lhs(q)
           b == Rhs(q)
           v == b.value
           f == With(c, 1, "byte", v)
           Through == \E p \in {"BC", "DE"} : \/ Within(a, p) /\ Is(b, "A")
                                              \/ Is(a, "A") /\ Within(b, p)
<1>1. f \in Shaped(2) /\ (v.ok => b.form = "plain")
  BY OperandsRead, OperandIs, FieldShaped DEF IsRead
<1>2. FirstOf(LdByte(c, q)) =
        IF Through THEN Emit(Codes(1)) ELSE IF Within(a, "HL") /\ Within(b, "HL") THEN Refuse
        ELSE IF Reg8(a) /\ Reg8(b) THEN Emit(Codes(1)) ELSE IF Reg8(a) /\ v.ok THEN f ELSE Refuse
  <2> DEFINE g1 == Through
             g2 == Within(a, "HL") /\ Within(b, "HL")
             g3 == Reg8(a) /\ Reg8(b)
             g4 == Reg8(a) /\ v.ok
  <2>1. FirstOf(LdByte(c, q)) = FirstOf(<<Row(g1, Emit(Codes(1))), Row(g2, Refuse),
                                          Row(g3, Emit(Codes(1))), Row(g4, f)>>)
    BY DEF LdByte
  <2> HIDE DEF g1, g2, g3, g4
  <2>2. FirstOf(LdByte(c, q)) = IF g1 THEN Emit(Codes(1)) ELSE IF g2 THEN Refuse
                                ELSE IF g3 THEN Emit(Codes(1)) ELSE IF g4 THEN f ELSE Refuse
    BY <2>1, Rows4
  <2> QED BY <2>2 DEF g1, g2, g3, g4
<1>3. /\ \A n : Is(b, n) => b.form = "plain"
      /\ \A n : Is(a, n) => a.form = "plain"
      /\ Reg16(a) => a.form = "plain"
      /\ OneOf(b, {"IX", "IY"}) => b.form = "plain"
      /\ OneOf(a, {"IX", "IY"}) => a.form = "plain"
      /\ Indexed(a) => a.form \notin {"plain", "paren"}
      /\ Indexed(b) => b.form \notin {"plain", "paren"}
      /\ Address(a) => a.form = "paren"
      /\ Address(b) => b.form = "paren"
      /\ Reg8(a) => a.form = "plain" \/ (a.form = "paren" /\ ~Address(a))
      /\ Reg8(b) => b.form = "plain" \/ (b.form = "paren" /\ ~Address(b))
      /\ Through => \/ a.form = "paren" /\ ~Address(a) /\ Is(b, "A")
                    \/ Is(a, "A") /\ b.form = "paren" /\ ~Address(b)
  <2>1. Within(a, "HL") \/ Within(a, "BC") \/ Within(a, "DE") => a.form = "paren" /\ ~Address(a)
    BY DEF Within, Address, AtPair, Pairs
  <2>2. Within(b, "HL") \/ Within(b, "BC") \/ Within(b, "DE") => b.form = "paren" /\ ~Address(b)
    BY DEF Within, Address, AtPair, Pairs
  <2> QED BY <2>1, <2>2 DEF Is, OneOf, Reg16, Reg8, Indexed, Address
<1>4. /\ Is(a, "A") => Reg8(a)
      /\ Is(b, "A") => Reg8(b)
      /\ Is(b, "R") => ~Reg8(b)
      /\ Reg8(a) /\ a.form = "plain" => ~Reg16(a) /\ ~OneOf(a, {"IX", "IY"}) /\ ~Is(a, "SP")
  BY NamesApart
<1> HIDE DEF f, a, b, v, Through
<1>5. FirstOf(LdByte(c, q)) \in Shaped(LdSize(a, b))
  <2>1. Through => LdSize(a, b) = 1
    BY <1>3, <1>4 DEF LdSize
  <2>2. Reg8(a) /\ Reg8(b) => LdSize(a, b) = 1
    BY <1>3, <1>4 DEF LdSize
  <2>3. Reg8(a) /\ v.ok /\ ~Reg8(b) => LdSize(a, b) = 2
    BY <1>1, <1>3, <1>4 DEF LdSize
  <2> QED BY <1>1, <1>2, <2>1, <2>2, <2>3, OpcodeShaped, RefuseShaped
<1> QED BY <1>5 DEF a, b
-----------------------------------------------------------------------------
(* The rows of LD together, and an instruction whatever it is.             *)

Fires(s) == \E i \in 1..Len(s) : s[i].when

LEMMA FourGroups ==
  ASSUME NEW S, NEW s \in Seq(S), NEW t \in Seq(S), NEW u \in Seq(S), NEW v \in Seq(S)
  PROVE  FirstOf(s \o t \o u \o v) =
           IF Fires(s) THEN FirstOf(s) ELSE IF Fires(t) THEN FirstOf(t)
           ELSE IF Fires(u) THEN FirstOf(u) ELSE FirstOf(v)
<1>1. s \o t \in Seq(S) /\ s \o t \o u \in Seq(S)
  BY ConcatProperties
<1>2. FirstOf(s \o t) = IF Fires(s) THEN FirstOf(s) ELSE FirstOf(t)
  BY FirstOfSplit DEF Fires
<1>3. FirstOf(s \o t \o u) = IF Fires(s \o t) THEN FirstOf(s \o t) ELSE FirstOf(u)
  BY <1>1, FirstOfSplit DEF Fires
<1>4. FirstOf(s \o t \o u \o v) = IF Fires(s \o t \o u) THEN FirstOf(s \o t \o u) ELSE FirstOf(v)
  BY <1>1, FirstOfSplit DEF Fires
<1>5. \A x, y \in Seq(S) : Fires(x \o y) <=> Fires(x) \/ Fires(y)
  <2> TAKE x, y \in Seq(S)
  <2>1. /\ Len(x \o y) = Len(x) + Len(y) /\ Len(x) \in Nat /\ Len(y) \in Nat
        /\ \A i \in 1..Len(x) : (x \o y)[i] = x[i] /\ i \in 1..Len(x \o y)
        /\ \A i \in 1..Len(y) : (x \o y)[i + Len(x)] = y[i] /\ i + Len(x) \in 1..Len(x \o y)
        /\ \A i \in 1..Len(x \o y) : i \in 1..Len(x) \/ (i - Len(x) \in 1..Len(y)
                                                        /\ (x \o y)[i] = y[i - Len(x)])
    OBVIOUS
  <2> DEFINE w == x \o y
  <2>2. w = x \o y
    OBVIOUS
  <2> HIDE DEF w
  <2>3. Fires(w) => Fires(x) \/ Fires(y)
    BY <2>1, <2>2 DEF Fires
  <2>4. Fires(x) => Fires(w)
    BY <2>1, <2>2 DEF Fires
  <2>5. Fires(y) => Fires(w)
    BY <2>1, <2>2 DEF Fires
  <2> QED BY <2>2, <2>3, <2>4, <2>5
<1>6. (Fires(s \o t) <=> Fires(s) \/ Fires(t)) /\ (Fires(s \o t \o u) <=> Fires(s \o t) \/ Fires(u))
  BY <1>1, <1>5
<1> QED BY <1>2, <1>3, <1>4, <1>6

\* LD of any form has one size for its operands' forms.
LEMMA LdShaped ==
  ASSUME NEW c, NEW q, IsReadLine(c, q)
  PROVE  LdForm(c, q) \in Shaped(LdSize(Lhs(q), Rhs(q)))
<1> DEFINE s == LdWide(c, q)
           t == LdIndexed(c, q)
           u == LdMemory(c, q)
           w == LdByte(c, q)
           S == {s[1], s[2], s[3], s[4], t[1], t[2], t[3], t[4], u[1], u[2], u[3], u[4],
                 w[1], w[2], w[3], w[4]}
           z == Shaped(LdSize(Lhs(q), Rhs(q)))
<1>1. \A r1, r2, r3, r4 : << r1, r2, r3, r4 >> = <<<< r1, r2, r3, r4 >>[1], << r1, r2, r3, r4 >>[2],
        << r1, r2, r3, r4 >>[3], << r1, r2, r3, r4 >>[4]>>
  OBVIOUS
<1>2. /\ s = <<s[1], s[2], s[3], s[4]>> /\ t = <<t[1], t[2], t[3], t[4]>>
      /\ u = <<u[1], u[2], u[3], u[4]>> /\ w = <<w[1], w[2], w[3], w[4]>>
  <2>1. s = <<s[1], s[2], s[3], s[4]>>
    BY <1>1 DEF LdWide
  <2>2. t = <<t[1], t[2], t[3], t[4]>>
    BY <1>1 DEF LdIndexed
  <2>3. u = <<u[1], u[2], u[3], u[4]>>
    BY <1>1 DEF LdMemory
  <2>4. w = <<w[1], w[2], w[3], w[4]>>
    BY <1>1 DEF LdByte
  <2> QED BY <2>1, <2>2, <2>3, <2>4
<1>3. s \in Seq(S) /\ t \in Seq(S) /\ u \in Seq(S) /\ w \in Seq(S)
  <2>1. \A r1, r2, r3, r4 \in S : <<r1, r2, r3, r4>> \in Seq(S)
    OBVIOUS
  <2>2. /\ s[1] \in S /\ s[2] \in S /\ s[3] \in S /\ s[4] \in S
        /\ t[1] \in S /\ t[2] \in S /\ t[3] \in S /\ t[4] \in S
        /\ u[1] \in S /\ u[2] \in S /\ u[3] \in S /\ u[4] \in S
        /\ w[1] \in S /\ w[2] \in S /\ w[3] \in S /\ w[4] \in S
    OBVIOUS
  <2> HIDE DEF S, s, t, u, w
  <2>3. /\ <<s[1], s[2], s[3], s[4]>> \in Seq(S) /\ <<t[1], t[2], t[3], t[4]>> \in Seq(S)
        /\ <<u[1], u[2], u[3], u[4]>> \in Seq(S) /\ <<w[1], w[2], w[3], w[4]>> \in Seq(S)
    BY <2>1, <2>2
  <2> QED BY <1>2, <2>3
<1>4. /\ FirstOf(s) \in z /\ FirstOf(t) \in z /\ FirstOf(w) \in z
  BY LdWideShaped, LdIndexedShaped, LdByteShaped
<1>5. ~Fires(t) => FirstOf(u) \in z
  <2> DEFINE a == Lhs(q)
             b == Rhs(q)
  <2>1. /\ t[2].when <=> a.index.ok /\ Reg8(b) /\ b.form = "plain"
        /\ t[3].when <=> a.index.ok /\ b.value.ok
        /\ Len(t) = 4
    <3> DEFINE g1 == Reg8(a) /\ a.form = "plain" /\ b.index.ok
               g2 == a.index.ok /\ Reg8(b) /\ b.form = "plain"
               g3 == a.index.ok /\ b.value.ok
               g4 == Is(a, "A") /\ Is(b, "R")
               f3 == IF InField(c, "byte", b.value)
                     THEN WithIndex(c, a, Field("byte", b.value.value)) ELSE Refuse
    <3>1. t = <<Row(g1, WithIndex(c, b, <<>>)), Row(g2, WithIndex(c, a, <<>>)), Row(g3, f3),
                Row(g4, Emit(Codes(2)))>>
      BY DEF LdIndexed
    <3> HIDE DEF g1, g2, g3, g4, f3, t, a, b
    <3>2. t[2].when = g2 /\ t[3].when = g3 /\ Len(t) = 4
      BY <3>1, RowIs
    <3> QED BY <3>2 DEF g2, g3
  <2>2. ~Fires(t) => ~t[2].when /\ ~t[3].when
    BY <2>1 DEF Fires
  <2> HIDE DEF t, u
  <2>3. ~Fires(t) => FirstOf(LdMemory(c, q)) \in z
    BY <2>1, <2>2, LdMemoryShaped
  <2> QED BY <2>3 DEF u
<1>6. LdForm(c, q) = Refuse \/ LdForm(c, q) = FirstOf(s \o t \o u \o w)
  BY DEF LdForm
<1> HIDE DEF s, t, u, w, z, S
<1>7. FirstOf(s \o t \o u \o w) \in z
  BY <1>3, <1>4, <1>5, FourGroups
<1>8. Refuse \in z
  BY RefuseShaped DEF z
<1> QED BY <1>6, <1>7, <1>8 DEF z

LEMMA NextRegShaped ==
  ASSUME NEW c, NEW q, IsReadLine(c, q)
  PROVE  NextReg(c, q) \in Shaped(IF Is(Rhs(q), "A") THEN 3 ELSE 4)
<1> DEFINE reg == Z80nByte(Lhs(q))
           data == Z80nByte(Rhs(q))
           k == Codes(2)
           f == Field("byte", reg.value)
           h == Field("byte", data.value)
<1>1. reg.value \in Int /\ data.value \in Int
  <2>1. NoValue.value \in Int
    BY DEF NoValue
  <2> QED BY <2>1, OperandsRead, OperandIs DEF Z80nByte
<1>2. With(c, 2, "byte", reg) \in Shaped(3)
  BY <1>1, FieldShaped
<1>3. /\ k \in Seq(BytesType) /\ Len(k) = 2
      /\ f \in Seq(BytesType) /\ Len(f) = 1
      /\ h \in Seq(BytesType) /\ Len(h) = 1
  BY <1>1, CodesAre, FieldIs DEF FieldKinds, WidthOf
<1>4. Emit(k \o f \o h) \in Shaped(4)
  <2> HIDE DEF k, f, h
  <2>1. k \o f \in Seq(BytesType) /\ Len(k \o f) = 3
    <3>1. k \o f \in Seq(BytesType) /\ Len(k \o f) = Len(k) + Len(f)
      BY <1>3, ConcatProperties
    <3> QED BY <1>3, <3>1
  <2>2. k \o f \o h \in Seq(BytesType) /\ Len(k \o f \o h) = 4
    BY <1>3, <2>1
  <2> QED BY <2>2, EmitShaped
<1>5. NextReg(c, q) \in {Refuse, IF Is(Rhs(q), "A") THEN With(c, 2, "byte", reg)
                                 ELSE Emit(k \o f \o h)}
  BY DEF NextReg
<1> HIDE DEF k, f, h, reg
<1> QED BY <1>2, <1>4, <1>5, RefuseShaped

LEMMA PushShaped ==
  ASSUME NEW c, NEW q, IsReadLine(c, q)
  PROVE  PushWord(c, q) \in Shaped(4)
<1> DEFINE v == Lhs(q).value
           k == Codes(2)
           x == High(v.value)
           y == Low(v.value)
           f == <<x, y>>
<1>1. v.value \in Int
  BY OperandsRead, OperandIs
<1>2. k \in Seq(BytesType) /\ Len(k) = 2 /\ f \in Seq(BytesType) /\ Len(f) = 2
  <2>1. x \in BytesType /\ y \in BytesType
    BY <1>1 DEF BytesType, Low, High
  <2>2. k \in Seq(BytesType) /\ Len(k) = 2
    BY CodesAre
  <2> HIDE DEF x, y, k
  <2> QED BY <2>1, <2>2
<1> HIDE DEF k, f
<1>3. k \o f \in Seq(BytesType) /\ Len(k \o f) = 4
  <2>1. k \o f \in Seq(BytesType) /\ Len(k \o f) = Len(k) + Len(f)
    BY <1>2, ConcatProperties
  <2> QED BY <1>2, <2>1
<1>4. PushWord(c, q) \in {Refuse, Emit(k \o f)}
  BY DEF PushWord, k, f
<1> QED BY <1>3, <1>4, EmitShaped, RefuseShaped

Z80Size(op, n, a, b) ==
  IF op \in DOMAIN Implied THEN Implied[op]
  ELSE IF op \in {"BIT", "SET", "RES"} THEN IF Reg8(b) THEN 2 ELSE 4
  ELSE IF op \in {"RET", "RST"} THEN 1
  ELSE IF op \in {"DJNZ", "JR", "OUT", "IN"} THEN 2
  ELSE IF op = "JP" THEN IF n = 1 THEN JumpSize(a) ELSE 3
  ELSE IF op = "CALL" THEN 3
  ELSE IF op \in {"PUSH", "POP"} THEN IF Reg16Push(a) THEN 1 ELSE 2
  ELSE IF op \in {"INC", "DEC"} THEN StepSize(a)
  ELSE IF op = "EX" THEN IF Within(a, "SP") /\ ~Is(b, "HL") THEN 2 ELSE 1
  ELSE IF op = "ADC" THEN AluSize(b)
  ELSE IF op = "ADD" THEN AddSize(a, b)
  ELSE IF op \in {"SUB", "AND", "OR", "XOR", "CP"} THEN AluSize(a)
  ELSE LdSize(a, b)

LEMMA ImpliedIs ==
  /\ \A m \in DOMAIN Implied : Implied[m] \in {1, 2}
  /\ \A m \in {"BIT", "SET", "RES", "RET", "RST", "DJNZ", "JR", "OUT", "IN", "JP", "CALL", "PUSH", "POP",
               "INC", "DEC", "EX", "ADC", "ADD", "SUB", "AND", "OR", "XOR", "CP", "LD"} :
        m \notin DOMAIN Implied
BY DEF Implied

\* Which form a mnemonic of the Z80 takes.
LEMMA Z80Is ==
  ASSUME NEW c, NEW q
  PROVE  Z80(c, q) =
           IF q.op \in DOMAIN Implied
           THEN (IF Count(q) = 0 THEN Emit(Codes(Implied[q.op])) ELSE Refuse)
           ELSE IF q.op \in {"BIT", "SET", "RES"} THEN BitForm(c, q)
           ELSE IF q.op = "RET" THEN RetForm(q) ELSE IF q.op = "RST" THEN RstForm(q)
           ELSE IF q.op = "DJNZ" THEN DjnzForm(c, q) ELSE IF q.op = "JR" THEN JrForm(c, q)
           ELSE IF q.op = "JP" THEN JpForm(c, q) ELSE IF q.op = "CALL" THEN CallForm(c, q)
           ELSE IF q.op = "OUT" THEN OutForm(c, q) ELSE IF q.op = "IN" THEN InForm(c, q)
           ELSE IF q.op \in {"PUSH", "POP"} THEN StackForm(q)
           ELSE IF q.op \in {"INC", "DEC"} THEN StepForm(c, q)
           ELSE IF q.op = "EX" THEN ExForm(q) ELSE IF q.op = "ADC" THEN AdcForm(c, q)
           ELSE IF q.op = "ADD" THEN AddForm(c, q)
           ELSE IF q.op \in {"SUB", "AND", "OR", "XOR", "CP"} THEN LogicForm(c, q)
           ELSE IF q.op = "LD" THEN LdForm(c, q) ELSE Refuse
<1>1. CASE q.op \in DOMAIN Implied
  <2>1. q.op \notin {"BIT", "SET", "RES", "RET", "RST", "DJNZ", "JR", "OUT", "IN", "JP", "CALL", "PUSH",
               "POP", "INC", "DEC", "EX", "ADC", "ADD", "SUB", "AND", "OR", "XOR", "CP", "LD"}
    BY <1>1, ImpliedIs
  <2> DEFINE D == DOMAIN Implied
             x == q.op
  <2> HIDE DEF D, x
  <2> QED BY <1>1, <2>1 DEF Z80, D, x
<1>2. CASE q.op \notin DOMAIN Implied
  BY <1>2 DEF Z80
<1> QED BY <1>1, <1>2

\* The size of an instruction of the Z80 depends on its operands' forms alone.
LEMMA Z80Shaped ==
  ASSUME NEW c \in Context, NEW q, IsReadLine(c, q)
  PROVE  Z80(c, q) \in Shaped(Z80Size(q.op, Count(q), Lhs(q), Rhs(q)))
<1> DEFINE a == Lhs(q)
           b == Rhs(q)
           op == q.op
           n == Count(q)
           made == Z80(c, q)
<1>1. CASE op \in DOMAIN Implied
  <2>1. Implied[op] \in Nat /\ Emit(Codes(Implied[op])) \in Shaped(Implied[op])
    <3>1. Implied[op] \in Nat
      BY <1>1, ImpliedIs
    <3> QED BY <3>1, CodesShaped
  <2>2. made \in {Refuse, Emit(Codes(Implied[op]))}
    BY <1>1, Z80Is
  <2>3. Z80Size(op, n, a, b) = Implied[op]
    BY <1>1 DEF Z80Size
  <2> QED BY <2>1, <2>2, <2>3, RefuseShaped
<1>2. CASE op \in {"BIT", "SET", "RES", "RET", "RST"}
  <2>1. op \notin DOMAIN Implied
    BY <1>2, ImpliedIs
  <2> QED BY <1>2, <2>1, Z80Is, BitShaped, RetRstShaped DEF Z80Size
<1>3. CASE op \in {"DJNZ", "JR", "OUT", "IN", "CALL"}
  <2>1. op \notin DOMAIN Implied
    BY <1>3, ImpliedIs
  <2> QED BY <1>3, <2>1, Z80Is, JrShaped, PortShaped, CallShaped DEF Z80Size
<1>4. CASE op \in {"JP", "PUSH", "POP"}
  <2>1. op \notin DOMAIN Implied
    BY <1>4, ImpliedIs
  <2> QED BY <1>4, <2>1, Z80Is, JpShaped, StackShaped DEF Z80Size
<1>5. CASE op \in {"INC", "DEC", "EX", "ADC", "ADD"}
  <2>1. op \notin DOMAIN Implied
    BY <1>5, ImpliedIs
  <2> QED BY <1>5, <2>1, Z80Is, StepShaped, ExShaped, AddShaped DEF Z80Size
<1>6. CASE op \in {"SUB", "AND", "OR", "XOR", "CP", "LD"}
  <2>1. op \notin DOMAIN Implied
    BY <1>6, ImpliedIs
  <2> QED BY <1>6, <2>1, Z80Is, AddShaped, LdShaped DEF Z80Size
<1>7. CASE op \notin DOMAIN Implied
           /\ op \notin {"BIT", "SET", "RES", "RET", "RST", "DJNZ", "JR", "OUT", "IN", "CALL", "JP", "PUSH",
                         "POP", "INC", "DEC", "EX", "ADC", "ADD", "SUB", "AND", "OR", "XOR", "CP", "LD"}
  <2>1. made = Refuse
    BY <1>7, Z80Is
  <2> QED BY <2>1, RefuseShaped
<1> QED BY <1>1, <1>2, <1>3, <1>4, <1>5, <1>6, <1>7
-----------------------------------------------------------------------------
(* Encode: a row before and one after the seven of the Z80N.               *)

LEMMA Framed ==
  ASSUME NEW r, NEW p1, NEW p2, NEW p3, NEW p4, NEW p5, NEW p6, NEW p7, NEW w, w.when
  PROVE  FirstOf(<<r>> \o <<p1, p2, p3, p4, p5, p6, p7>> \o <<w>>) =
           IF r.when THEN r.form ELSE IF p1.when THEN p1.form ELSE IF p2.when THEN p2.form
           ELSE IF p3.when THEN p3.form ELSE IF p4.when THEN p4.form ELSE IF p5.when THEN p5.form
           ELSE IF p6.when THEN p6.form ELSE IF p7.when THEN p7.form ELSE w.form
<1> DEFINE S == {r, p1, p2, p3, p4, p5, p6, p7, w}
           s == <<r>>
           z == <<p1, p2, p3, p4, p5, p6, p7>>
           t == <<w>>
<1>1. s \in Seq(S) /\ z \in Seq(S) /\ t \in Seq(S)
  OBVIOUS
<1>2. r \in S
  OBVIOUS
<1>3. Fires(z) <=> p1.when \/ p2.when \/ p3.when \/ p4.when \/ p5.when \/ p6.when \/ p7.when
  <2>1. /\ Len(z) = 7 /\ z[1] = p1 /\ z[2] = p2 /\ z[3] = p3 /\ z[4] = p4 /\ z[5] = p5 /\ z[6] = p6
        /\ z[7] = p7
    OBVIOUS
  <2>2. 1..7 = {1, 2, 3, 4, 5, 6, 7}
    OBVIOUS
  <2> HIDE DEF z
  <2> QED BY <2>1, <2>2 DEF Fires
<1>4. FirstOf(t) = w.form
  BY FirstOf1
<1>5. FirstOf(z) = IF p1.when THEN p1.form ELSE IF p2.when THEN p2.form
           ELSE IF p3.when THEN p3.form ELSE IF p4.when THEN p4.form ELSE IF p5.when THEN p5.form
           ELSE IF p6.when THEN p6.form ELSE IF p7.when THEN p7.form ELSE Refuse
  BY FirstOf7
<1>6. s = <<r>>
  OBVIOUS
<1> HIDE DEF S, s, z, t
<1>7. s \o z \in Seq(S)
  BY <1>1, ConcatProperties
<1>8. FirstOf(s \o z) = IF r.when THEN r.form ELSE FirstOf(z)
  BY <1>1, <1>2, <1>6, FirstOfLeads
<1>9. FirstOf(s \o z \o t) = IF Fires(s \o z) THEN FirstOf(s \o z) ELSE FirstOf(t)
  BY <1>1, <1>7, FirstOfSplit DEF Fires
<1>10. Fires(s \o z) <=> r.when \/ Fires(z)
  <2>1. /\ Len(s \o z) = 1 + Len(z) /\ Len(z) \in Nat /\ (s \o z)[1] = r
        /\ \A i \in 1..Len(z) : (s \o z)[i + 1] = z[i] /\ i + 1 \in 1..Len(s \o z)
        /\ \A i \in 1..Len(s \o z) : i = 1 \/ (i - 1 \in 1..Len(z) /\ (s \o z)[i] = z[i - 1])
        /\ 1 \in 1..Len(s \o z)
    <3>1. Len(s) = 1 /\ s[1] = r /\ Len(z) \in Nat /\ Len(s \o z) = Len(s) + Len(z)
      BY <1>1, <1>6, ConcatProperties, LenProperties
    <3>2. \A i \in 1..(Len(s) + Len(z)) : (s \o z)[i] = IF i <= Len(s) THEN s[i] ELSE z[i - Len(s)]
      BY <1>1, ConcatProperties
    <3> QED BY <3>1, <3>2
  <2> DEFINE u == s \o z
  <2>2. u = s \o z
    OBVIOUS
  <2> HIDE DEF u
  <2>3. Fires(u) => r.when \/ Fires(z)
    BY <2>1, <2>2 DEF Fires
  <2>4. Fires(z) => Fires(u)
    BY <2>1, <2>2 DEF Fires
  <2>5. r.when => Fires(u)
    BY <2>1, <2>2 DEF Fires
  <2> QED BY <2>2, <2>3, <2>4, <2>5
<1>11. FirstOf(s \o z \o t) = IF r.when THEN r.form ELSE IF Fires(z) THEN FirstOf(z) ELSE w.form
  BY <1>4, <1>8, <1>9, <1>10
<1>12. FirstOf(s \o z \o t) =
           IF r.when THEN r.form ELSE IF p1.when THEN p1.form ELSE IF p2.when THEN p2.form
           ELSE IF p3.when THEN p3.form ELSE IF p4.when THEN p4.form ELSE IF p5.when THEN p5.form
           ELSE IF p6.when THEN p6.form ELSE IF p7.when THEN p7.form ELSE w.form
  BY <1>3, <1>5, <1>11
<1> QED BY <1>12 DEF s, z, t

PairName(o) == OneOf(o, {"HL", "DE", "BC"})
Z80nForm(c, q) ==
  IF q.op \in DOMAIN Z80nImplied /\ (Count(q) = 0 \/ Spelled(q, Z80nImplied[q.op]))
  THEN Emit(Codes(2)) ELSE Refuse
TestForm(c, q) == IF Count(q) = 1 THEN With(c, 2, "byte", Z80nByte(Lhs(q))) ELSE Refuse

\* Instructions of the Z80N come first.
LEMMA EncodeIs ==
  ASSUME NEW c, NEW q
  PROVE  Encode(c, q) =
           IF Count(q) > 2 THEN Refuse
           ELSE IF q.op \in DOMAIN Z80nImplied THEN Z80nForm(c, q)
           ELSE IF q.op = "TEST" THEN TestForm(c, q)
           ELSE IF q.op = "NEXTREG" THEN NextReg(c, q)
           ELSE IF q.op = "JP" /\ Count(q) = 1 /\ Within(Lhs(q), "C") THEN Emit(Codes(2))
           ELSE IF q.op = "ADD" /\ Count(q) = 2 /\ PairName(Lhs(q)) /\ Is(Rhs(q), "A")
           THEN Emit(Codes(2))
           ELSE IF q.op = "ADD" /\ Count(q) = 2 /\ PairName(Lhs(q)) /\ ~IsRegisterName(Rhs(q))
                   /\ Rhs(q).form = "plain"
           THEN With(c, 2, "word", Rhs(q).value)
           ELSE IF q.op = "PUSH" /\ Count(q) = 1 /\ ~IsRegisterName(Lhs(q)) THEN PushWord(c, q)
           ELSE Z80(c, q)
<1> DEFINE g0 == Count(q) > 2
           g1 == q.op \in DOMAIN Z80nImplied
           g2 == q.op = "TEST"
           g3 == q.op = "NEXTREG"
           g4 == q.op = "JP" /\ Count(q) = 1 /\ Within(Lhs(q), "C")
           g5 == q.op = "ADD" /\ Count(q) = 2 /\ PairName(Lhs(q)) /\ Is(Rhs(q), "A")
           g6 == q.op = "ADD" /\ Count(q) = 2 /\ PairName(Lhs(q)) /\ ~IsRegisterName(Rhs(q))
                   /\ Rhs(q).form = "plain"
           g7 == q.op = "PUSH" /\ Count(q) = 1 /\ ~IsRegisterName(Lhs(q))
           f1 == Z80nForm(c, q)
           f2 == TestForm(c, q)
           f3 == NextReg(c, q)
           f4 == Emit(Codes(2))
           f6 == With(c, 2, "word", Rhs(q).value)
           f7 == PushWord(c, q)
           f8 == Z80(c, q)
           yes == TRUE
<1>1. Z80n(c, q) = <<Row(g1, f1), Row(g2, f2), Row(g3, f3), Row(g4, f4), Row(g5, f4), Row(g6, f6),
                     Row(g7, f7)>>
  BY DEF Z80n, PairName, Z80nForm, TestForm
<1>2. Encode(c, q) = FirstOf(<<Row(g0, Refuse)>> \o Z80n(c, q) \o <<Row(yes, f8)>>)
  BY DEF Encode
<1>3. yes
  OBVIOUS
<1> HIDE DEF g0, g1, g2, g3, g4, g5, g6, g7, f1, f2, f3, f4, f6, f7, f8, yes
<1>4. Encode(c, q) = FirstOf(<<Row(g0, Refuse)>> \o <<Row(g1, f1), Row(g2, f2), Row(g3, f3),
                       Row(g4, f4), Row(g5, f4), Row(g6, f6), Row(g7, f7)>> \o <<Row(yes, f8)>>)
  BY <1>1, <1>2
<1>5. Encode(c, q) = IF g0 THEN Refuse ELSE IF g1 THEN f1 ELSE IF g2 THEN f2 ELSE IF g3 THEN f3
                     ELSE IF g4 THEN f4 ELSE IF g5 THEN f4 ELSE IF g6 THEN f6 ELSE IF g7 THEN f7 ELSE f8
  <2> DEFINE r0 == Row(g0, Refuse)
             r1 == Row(g1, f1)
             r2 == Row(g2, f2)
             r3 == Row(g3, f3)
             r4 == Row(g4, f4)
             r5 == Row(g5, f4)
             r6 == Row(g6, f6)
             r7 == Row(g7, f7)
             r8 == Row(yes, f8)
  <2>1. /\ r0.when = g0 /\ r1.when = g1 /\ r2.when = g2 /\ r3.when = g3 /\ r4.when = g4
        /\ r5.when = g5 /\ r6.when = g6 /\ r7.when = g7 /\ r8.when = yes
        /\ r0.form = Refuse /\ r1.form = f1 /\ r2.form = f2 /\ r3.form = f3 /\ r4.form = f4
        /\ r5.form = f4 /\ r6.form = f6 /\ r7.form = f7 /\ r8.form = f8
    BY RowIs
  <2>2. Encode(c, q) = FirstOf(<<r0>> \o <<r1, r2, r3, r4, r5, r6, r7>> \o <<r8>>)
    BY <1>4
  <2> HIDE DEF r0, r1, r2, r3, r4, r5, r6, r7, r8
  <2>3. r8.when
    BY <1>3, <2>1
  <2>4. FirstOf(<<r0>> \o <<r1, r2, r3, r4, r5, r6, r7>> \o <<r8>>) =
          IF r0.when THEN r0.form ELSE IF r1.when THEN r1.form ELSE IF r2.when THEN r2.form
          ELSE IF r3.when THEN r3.form ELSE IF r4.when THEN r4.form ELSE IF r5.when THEN r5.form
          ELSE IF r6.when THEN r6.form ELSE IF r7.when THEN r7.form ELSE r8.form
    BY <2>3, Framed
  <2> QED BY <2>1, <2>2, <2>4
<1> QED BY <1>5 DEF g0, g1, g2, g3, g4, g5, g6, g7, f1, f2, f3, f4, f6, f7, f8

EncodeSize(op, n, a, b) ==
  IF op \in DOMAIN Z80nImplied THEN 2
  ELSE IF op = "TEST" THEN 3
  ELSE IF op = "NEXTREG" THEN IF Is(b, "A") THEN 3 ELSE 4
  ELSE IF op = "JP" /\ n = 1 /\ Within(a, "C") THEN 2
  ELSE IF op = "ADD" /\ n = 2 /\ PairName(a) /\ Is(b, "A") THEN 2
  ELSE IF op = "ADD" /\ n = 2 /\ PairName(a) /\ ~IsRegisterName(b) /\ b.form = "plain" THEN 4
  ELSE IF op = "PUSH" /\ n = 1 /\ ~IsRegisterName(a) THEN 4
  ELSE Z80Size(op, n, a, b)

\* The size of every instruction depends on its operands' forms alone: the two
\* passes agree on it.
LEMMA EncodeShaped ==
  ASSUME NEW c \in Context, NEW q, IsReadLine(c, q)
  PROVE  Encode(c, q) \in Shaped(EncodeSize(q.op, Count(q), Lhs(q), Rhs(q)))
<1> DEFINE a == Lhs(q)
           b == Rhs(q)
           op == q.op
           n == Count(q)
<1>1. Z80nForm(c, q) \in Shaped(2)
  BY OpcodeShaped, RefuseShaped DEF Z80nForm
<1>2. TestForm(c, q) \in Shaped(3)
  <2>1. Z80nByte(a).value \in Int
    <3>1. NoValue.value \in Int
      BY DEF NoValue
    <3> QED BY <3>1, OperandsRead, OperandIs DEF Z80nByte
  <2> QED BY <2>1, FieldShaped, RefuseShaped DEF TestForm
<1>3. NextReg(c, q) \in Shaped(IF Is(b, "A") THEN 3 ELSE 4) /\ PushWord(c, q) \in Shaped(4)
  BY NextRegShaped, PushShaped
<1>4. With(c, 2, "word", b.value) \in Shaped(4)
  BY OperandsRead, OperandIs, FieldShaped
<1>5. Z80(c, q) \in Shaped(Z80Size(op, n, a, b))
  BY Z80Shaped
<1>6. Encode(c, q) =
           IF n > 2 THEN Refuse
           ELSE IF op \in DOMAIN Z80nImplied THEN Z80nForm(c, q)
           ELSE IF op = "TEST" THEN TestForm(c, q)
           ELSE IF op = "NEXTREG" THEN NextReg(c, q)
           ELSE IF op = "JP" /\ n = 1 /\ Within(a, "C") THEN Emit(Codes(2))
           ELSE IF op = "ADD" /\ n = 2 /\ PairName(a) /\ Is(b, "A")
           THEN Emit(Codes(2))
           ELSE IF op = "ADD" /\ n = 2 /\ PairName(a) /\ ~IsRegisterName(b) /\ b.form = "plain"
           THEN With(c, 2, "word", b.value)
           ELSE IF op = "PUSH" /\ n = 1 /\ ~IsRegisterName(a) THEN PushWord(c, q)
           ELSE Z80(c, q)
  BY EncodeIs
<1> HIDE DEF a, b, op, n
<1>7. Encode(c, q) \in Shaped(EncodeSize(op, n, a, b))
  BY <1>1, <1>2, <1>3, <1>4, <1>5, <1>6, OpcodeShaped, RefuseShaped DEF EncodeSize
<1> QED BY <1>7 DEF a, b, op, n

\* The size is the same however the line is read.
LEMMA SizeKept ==
  ASSUME NEW a, NEW b, NEW x, NEW y, NEW op, NEW n, SameShape(a, x), SameShape(b, y)
  PROVE  EncodeSize(op, n, a, b) = EncodeSize(op, n, x, y)
<1>1. \A m : (Is(a, m) <=> Is(x, m)) /\ (Is(b, m) <=> Is(y, m))
             /\ (Within(a, m) <=> Within(x, m)) /\ (Within(b, m) <=> Within(y, m))
  BY DEF Is, Within, SameShape
<1>2. /\ a.form = x.form /\ b.form = y.form /\ a.e = x.e
      /\ (Indexed(a) <=> Indexed(x)) /\ (Indexed(b) <=> Indexed(y))
  BY DEF SameShape, Indexed
<1>3. \A names : (OneOf(a, names) <=> OneOf(x, names)) /\ (OneOf(b, names) <=> OneOf(y, names))
  BY <1>1 DEF OneOf
<1>4. /\ (Reg8(a) <=> Reg8(x)) /\ (Reg8(b) <=> Reg8(y)) /\ (Reg16(a) <=> Reg16(x))
      /\ (Reg16Push(a) <=> Reg16Push(x)) /\ (PairName(a) <=> PairName(x))
      /\ (IsRegisterName(a) <=> IsRegisterName(x)) /\ (IsRegisterName(b) <=> IsRegisterName(y))
  BY <1>1, <1>3 DEF Reg8, Reg16, Reg16Push, PairName, IsRegisterName
<1>5. (Address(a) <=> Address(x)) /\ (Address(b) <=> Address(y))
  BY <1>1, <1>2 DEF Address, AtPair
<1>6. AluSize(a) = AluSize(x) /\ AluSize(b) = AluSize(y)
  BY <1>2, <1>4 DEF AluSize
<1>7. StepSize(a) = StepSize(x) /\ JumpSize(a) = JumpSize(x) /\ AddSize(a, b) = AddSize(x, y)
  BY <1>1, <1>2, <1>3, <1>4, <1>6 DEF StepSize, JumpSize, AddSize
<1>8. LdSize(a, b) = LdSize(x, y)
  BY <1>1, <1>2, <1>3, <1>4, <1>5 DEF LdSize
<1>9. Z80Size(op, n, a, b) = Z80Size(op, n, x, y)
  BY <1>1, <1>4, <1>6, <1>7, <1>8 DEF Z80Size
<1> QED BY <1>1, <1>2, <1>4, <1>9 DEF EncodeSize
-----------------------------------------------------------------------------
(* Contexts: the tables hold each name once, and only gain.                *)

Holds(table) == IsFiniteSet(DOMAIN table) /\ Cardinality(DOMAIN table) <= MaxLabels
GoodContext(c) ==
  /\ c \in Context /\ DOMAIN c.labels \cap DOMAIN c.constants = {}
  /\ Holds(c.labels) /\ Holds(c.constants)

\* Two contexts that differ in their tables only.
SameBut(c, d) ==
  /\ d.pass = c.pass /\ d.address = c.address /\ d.exhausted = c.exhausted
  /\ d.target = c.target /\ d.total = c.total /\ d.output = c.output

GrownTable(t, u) == \A n \in DOMAIN t : n \in DOMAIN u /\ u[n] = t[n]
Grown(c, d) == GrownTable(c.labels, d.labels) /\ GrownTable(c.constants, d.constants)

\* A context is its fields.
LEMMA ContextParts ==
  ASSUME NEW c \in Context
  PROVE  c = [pass |-> c.pass, address |-> c.address, exhausted |-> c.exhausted, target |-> c.target,
              labels |-> c.labels, constants |-> c.constants, total |-> c.total, output |-> c.output]
BY DEF Context

LEMMA LabelsSet ==
  ASSUME NEW c \in Context, NEW t, NEW e, e = [c EXCEPT !.labels = t]
  PROVE  e = [pass |-> c.pass, address |-> c.address, exhausted |-> c.exhausted, target |-> c.target,
              labels |-> t, constants |-> c.constants, total |-> c.total, output |-> c.output]
<1>1. c = [pass |-> c.pass, address |-> c.address, exhausted |-> c.exhausted, target |-> c.target,
           labels |-> c.labels, constants |-> c.constants, total |-> c.total, output |-> c.output]
  BY ContextParts
<1> QED BY <1>1, Zenon

LEMMA ConstantsSet ==
  ASSUME NEW c \in Context, NEW t, NEW e, e = [c EXCEPT !.constants = t]
  PROVE  e = [pass |-> c.pass, address |-> c.address, exhausted |-> c.exhausted, target |-> c.target,
              labels |-> c.labels, constants |-> t, total |-> c.total, output |-> c.output]
<1>1. c = [pass |-> c.pass, address |-> c.address, exhausted |-> c.exhausted, target |-> c.target,
           labels |-> c.labels, constants |-> c.constants, total |-> c.total, output |-> c.output]
  BY ContextParts
<1> QED BY <1>1, Zenon

\* A table with one entry more.
Enters(u, V, t, n, v) ==
  /\ u \in Tables(V) /\ DOMAIN u = DOMAIN t \cup {n} /\ u[n] = v
  /\ n \notin DOMAIN t => GrownTable(t, u)

LEMMA NamedIs ==
  ASSUME NEW V, NEW t \in Tables(V), NEW n \in STRING, NEW v \in V
  PROVE  Enters(Named(t, n, v), V, t, n, v)
<1>1. DOMAIN t \subseteq STRING /\ \A m \in DOMAIN t : t[m] \in V
  BY TableIs
<1> DEFINE D == DOMAIN t \cup {n}
           u == Named(t, n, v)
<1>2. u = [m \in D |-> IF m = n THEN v ELSE t[m]] /\ D \subseteq STRING /\ n \in D
  BY <1>1 DEF Named
<1>3. u \in [D -> V]
  BY <1>1, <1>2
<1> HIDE DEF u
<1>4. u \in Tables(V)
  BY <1>2, <1>3 DEF Tables
<1>5. u[n] = v /\ \A m \in DOMAIN t : m # n => u[m] = t[m] /\ m \in D
  BY <1>2
<1> QED BY <1>2, <1>4, <1>5 DEF u, GrownTable, Enters

LEMMA NamedHolds ==
  ASSUME NEW t, Holds(t), Cardinality(DOMAIN t) < MaxLabels, NEW n, NEW u,
         DOMAIN u = DOMAIN t \cup {n}
  PROVE  Holds(u)
<1>1. IsFiniteSet(DOMAIN u) /\ Cardinality(DOMAIN u) \in {Cardinality(DOMAIN t), Cardinality(DOMAIN t) + 1}
  BY FS_AddElement DEF Holds
<1>2. Cardinality(DOMAIN t) \in Nat /\ MaxLabels \in Nat
  BY FS_CardinalityType, ScaleAssumption DEF Holds
<1> QED BY <1>1, <1>2 DEF Holds

LEMMA GrownRefl ==
  \A c : Grown(c, c) /\ SameBut(c, c)
BY DEF Grown, GrownTable, SameBut

\* Contexts that follow one another only gain symbols.
LEMMA GrownTrans ==
  ASSUME NEW c, NEW d, NEW e, Grown(c, d), Grown(d, e)
  PROVE  Grown(c, e)
BY DEF Grown, GrownTable

\* What a definition makes of a context.
Defined(c, x) ==
  /\ x.ok \in BOOLEAN /\ GoodContext(x.ctx) /\ SameBut(c, x.ctx) /\ Grown(c, x.ctx)
  /\ c.pass = 2 => x.ctx = c

\* app_define_label enters a name once, within the table, and changes nothing
\* else.
LEMMA DefineLabelIs ==
  ASSUME NEW c, GoodContext(c), NEW n \in STRING
  PROVE  /\ Defined(c, DefineLabel(c, n)) /\ DefineLabel(c, n).ctx.constants = c.constants
         /\ DefineLabel(c, n) = [ok |-> DefineLabel(c, n).ok, ctx |-> DefineLabel(c, n).ctx]
         /\ DefineLabel(c, n).ok => /\ n \in DOMAIN DefineLabel(c, n).ctx.labels
                                    /\ DefineLabel(c, n).ctx.labels[n] = c.address
         /\ DOMAIN DefineLabel(c, n).ctx.labels \subseteq DOMAIN c.labels \cup {n}
<1> DEFINE x == DefineLabel(c, n)
           t == Named(c.labels, n, c.address)
           d == [c EXCEPT !.labels = t]
<1>1. /\ c \in Context /\ c.pass \in {1, 2} /\ c.labels \in Tables(Places) /\ c.address \in Places
      /\ c.constants \in Tables(Int32)
  BY ContextIs DEF GoodContext
<1>2. CASE c.pass = 2
  <2> DEFINE b == n \in DOMAIN c.labels /\ c.labels[n] = c.address
  <2>1. x = [ok |-> b, ctx |-> c] /\ b \in BOOLEAN
    BY <1>2 DEF DefineLabel
  <2> HIDE DEF x, b
  <2>2. x.ok = b /\ x.ctx = c /\ x = [ok |-> x.ok, ctx |-> x.ctx]
    BY <2>1
  <2>3. Defined(c, x)
    BY <2>1, <2>2, GrownRefl DEF Defined
  <2> QED BY <2>2, <2>3 DEF x, b
<1>3. CASE c.pass = 1 /\ ~Fresh(c, c.labels, n)
  <2>1. x = [ok |-> FALSE, ctx |-> c]
    BY <1>3 DEF DefineLabel
  <2> HIDE DEF x
  <2> QED BY <1>3, <2>1, GrownRefl DEF Defined, x
<1>4. CASE c.pass = 1 /\ Fresh(c, c.labels, n)
  <2>1. x = [ok |-> TRUE, ctx |-> d]
    BY <1>4 DEF DefineLabel
  <2>2. /\ t \in Tables(Places) /\ DOMAIN t = DOMAIN c.labels \cup {n} /\ t[n] = c.address
        /\ GrownTable(c.labels, t) /\ Holds(t) /\ n \notin DOMAIN c.constants
    <3>1. n \notin DOMAIN c.labels \cup DOMAIN c.constants /\ Cardinality(DOMAIN c.labels) < MaxLabels
      BY <1>4 DEF Fresh
    <3>2. /\ t \in Tables(Places) /\ DOMAIN t = DOMAIN c.labels \cup {n} /\ t[n] = c.address
          /\ GrownTable(c.labels, t)
      <4>1. n \notin DOMAIN c.labels
        BY <3>1
      <4>2. Enters(t, Places, c.labels, n, c.address)
        BY <1>1, NamedIs
      <4> QED BY <4>1, <4>2 DEF Enters
    <3> HIDE DEF t
    <3>3. Holds(t)
      BY <3>1, <3>2, NamedHolds DEF GoodContext
    <3> QED BY <3>1, <3>2, <3>3
  <2> HIDE DEF t
  <2>3. d = [pass |-> c.pass, address |-> c.address, exhausted |-> c.exhausted, target |-> c.target,
              labels |-> t, constants |-> c.constants, total |-> c.total, output |-> c.output]
    BY <1>1, LabelsSet
  <2> HIDE DEF d, x
  <2>4. d \in Context
    BY <1>1, <2>2, <2>3, ContextIs DEF Context
  <2>5. d.labels = t /\ d.constants = c.constants /\ SameBut(c, d)
    BY <2>3 DEF SameBut
  <2>6. GoodContext(d) /\ Grown(c, d)
    <3>1. GrownTable(c.constants, d.constants)
      BY <2>5 DEF GrownTable
    <3> QED BY <2>2, <2>4, <2>5, <3>1 DEF GoodContext, Grown
  <2>7. x.ok /\ x.ctx = d
    BY <2>1
  <2> QED BY <1>4, <2>1, <2>2, <2>5, <2>6, <2>7 DEF Defined, x
<1> QED BY <1>1, <1>2, <1>3, <1>4

\* So does app_define_constant.
LEMMA DefineConstantIs ==
  ASSUME NEW c, GoodContext(c), NEW n \in STRING, NEW v \in Int32
  PROVE  /\ Defined(c, DefineConstant(c, n, v)) /\ DefineConstant(c, n, v).ctx.labels = c.labels
         /\ DefineConstant(c, n, v) =
              [ok |-> DefineConstant(c, n, v).ok, ctx |-> DefineConstant(c, n, v).ctx]
<1> DEFINE x == DefineConstant(c, n, v)
           t == Named(c.constants, n, v)
           d == [c EXCEPT !.constants = t]
<1>1. c \in Context /\ c.pass \in {1, 2} /\ c.constants \in Tables(Int32)
  BY ContextIs DEF GoodContext
<1>2. CASE c.pass = 2
  <2>1. x = [ok |-> n \in DOMAIN c.constants /\ c.constants[n] = v, ctx |-> c]
    BY <1>2 DEF DefineConstant
  <2> HIDE DEF x
  <2> QED BY <2>1, GrownRefl DEF Defined, x
<1>3. CASE c.pass = 1 /\ ~Fresh(c, c.constants, n)
  <2>1. x = [ok |-> FALSE, ctx |-> c]
    BY <1>3 DEF DefineConstant
  <2> HIDE DEF x
  <2> QED BY <1>3, <2>1, GrownRefl DEF Defined, x
<1>4. CASE c.pass = 1 /\ Fresh(c, c.constants, n)
  <2>1. x = [ok |-> TRUE, ctx |-> d]
    BY <1>4 DEF DefineConstant
  <2>2. /\ t \in Tables(Int32) /\ DOMAIN t = DOMAIN c.constants \cup {n}
        /\ GrownTable(c.constants, t) /\ Holds(t) /\ n \notin DOMAIN c.labels
    <3>1. n \notin DOMAIN c.labels \cup DOMAIN c.constants /\ Cardinality(DOMAIN c.constants) < MaxLabels
      BY <1>4 DEF Fresh
    <3>2. /\ t \in Tables(Int32) /\ DOMAIN t = DOMAIN c.constants \cup {n}
          /\ GrownTable(c.constants, t)
      <4>1. n \notin DOMAIN c.constants
        BY <3>1
      <4>2. Enters(t, Int32, c.constants, n, v)
        BY <1>1, NamedIs
      <4> QED BY <4>1, <4>2 DEF Enters
    <3> HIDE DEF t
    <3>3. Holds(t)
      BY <3>1, <3>2, NamedHolds DEF GoodContext
    <3> QED BY <3>1, <3>2, <3>3
  <2> HIDE DEF t
  <2>3. d = [pass |-> c.pass, address |-> c.address, exhausted |-> c.exhausted, target |-> c.target,
              labels |-> c.labels, constants |-> t, total |-> c.total, output |-> c.output]
    BY <1>1, ConstantsSet
  <2> HIDE DEF d, x
  <2>4. d \in Context
    BY <1>1, <2>2, <2>3, ContextIs DEF Context
  <2>5. d.labels = c.labels /\ d.constants = t /\ SameBut(c, d)
    BY <2>3 DEF SameBut
  <2>6. GoodContext(d) /\ Grown(c, d)
    <3>1. GrownTable(c.labels, d.labels)
      BY <2>5 DEF GrownTable
    <3> QED BY <2>2, <2>4, <2>5, <3>1 DEF GoodContext, Grown
  <2>7. x.ok /\ x.ctx = d
    BY <2>1
  <2> QED BY <1>4, <2>1, <2>2, <2>5, <2>6, <2>7 DEF Defined, x
<1> QED BY <1>1, <1>2, <1>3, <1>4

LEMMA EquIs ==
  ASSUME NEW c, GoodContext(c), NEW q, IsReadLine(c, q), q.name \in STRING
  PROVE  /\ Defined(c, Equ(c, q)) /\ Equ(c, q).ctx.labels = c.labels
         /\ Equ(c, q) = [ok |-> Equ(c, q).ok, ctx |-> Equ(c, q).ctx]
<1> DEFINE v == Lhs(q).value
           x == Equ(c, q)
<1>1. v.value \in Int32
  BY OperandsRead, OperandIs DEF Value
<1>2. x = DefineConstant(c, q.name, v.value) \/ x = [ok |-> FALSE, ctx |-> c]
  BY DEF Equ
<1> HIDE DEF x, v
<1>3. CASE x = DefineConstant(c, q.name, v.value)
  BY <1>1, <1>3, DefineConstantIs DEF x
<1>4. CASE x = [ok |-> FALSE, ctx |-> c]
  BY <1>4, GrownRefl DEF Defined, x
<1> QED BY <1>2, <1>3, <1>4
-----------------------------------------------------------------------------
(* The labels of a line.                                                   *)

NamesOf(names) == {names[i] : i \in 1..Len(names)}

\* A step through the labels.
Labelled(c, names) ==
  {x \in [ok : BOOLEAN, ctx : Context] :
     /\ Defined(c, x) /\ x.ctx.constants = c.constants
     /\ DOMAIN x.ctx.labels \subseteq DOMAIN c.labels \cup NamesOf(names)}

LabelStep(x, name) == IF x.ok THEN DefineLabel(x.ctx, name) ELSE x

LEMMA DefinedTrans ==
  ASSUME NEW c, NEW x, NEW y, Defined(c, x), Defined(x.ctx, y)
  PROVE  Defined(c, y)
<1>1. Grown(c, y.ctx)
  BY GrownTrans DEF Defined
<1>2. SameBut(c, y.ctx)
  BY DEF Defined, SameBut
<1>3. c.pass = 2 => y.ctx = c
  BY DEF Defined, SameBut
<1> QED BY <1>1, <1>2, <1>3 DEF Defined

LEMMA LabelStepIs ==
  ASSUME NEW c, NEW names \in Seq(STRING), NEW x \in Labelled(c, names), NEW i \in 1..Len(names)
  PROVE  LabelStep(x, names[i]) \in Labelled(c, names)
<1> DEFINE n == names[i]
           y == DefineLabel(x.ctx, n)
<1>1. n \in STRING /\ n \in NamesOf(names)
  BY ElementOfSeq DEF NamesOf
<1>2. Defined(c, x) /\ GoodContext(x.ctx)
  BY DEF Labelled, Defined
<1> HIDE DEF n
<1>3. /\ Defined(x.ctx, y) /\ y.ctx.constants = x.ctx.constants
      /\ y = [ok |-> y.ok, ctx |-> y.ctx]
      /\ DOMAIN y.ctx.labels \subseteq DOMAIN x.ctx.labels \cup {n}
  BY <1>1, <1>2, DefineLabelIs
<1> HIDE DEF y
<1>4. Defined(c, y)
  BY <1>2, <1>3, DefinedTrans
<1>5. y \in [ok : BOOLEAN, ctx : Context]
  BY <1>3, <1>4 DEF Defined, GoodContext
<1>6. y \in Labelled(c, names)
  BY <1>1, <1>3, <1>4, <1>5 DEF Labelled
<1> QED BY <1>6 DEF LabelStep, n, y

LabelRun(c, names, done) ==
  /\ DefineLabels(c, names) = done[Len(names)]
  /\ done[0] = [ok |-> TRUE, ctx |-> c]
  /\ \A i \in 1..Len(names) : done[i] = LabelStep(done[i - 1], names[i])
  /\ \A i \in 0..Len(names) : done[i] \in Labelled(c, names)

LEMMA LabelRuns ==
  ASSUME NEW c, GoodContext(c), NEW names \in Seq(STRING)
  PROVE  \E done : LabelRun(c, names, done)
<1> DEFINE n == Len(names)
           S == Labelled(c, names)
           first == [ok |-> TRUE, ctx |-> c]
           Works(f) == f = [i \in 0..n |-> IF i = 0 THEN first
                           ELSE IF f[i - 1].ok THEN DefineLabel(f[i - 1].ctx, names[i]) ELSE f[i - 1]]
           T == [p \in S \X (1..n) |-> LabelStep(p[1], names[p[2]])]
<1>1. n \in Nat
  BY LenProperties
<1>2. first \in S
  <2>1. first \in [ok : BOOLEAN, ctx : Context] /\ first.ok /\ first.ctx = c
    BY DEF GoodContext
  <2> HIDE DEF first
  <2> QED BY <2>1, GrownRefl DEF Labelled, Defined
<1>3. \A s \in S, i \in 1..n : LabelStep(s, names[i]) \in S
  BY LabelStepIs
<1>4. T \in [S \X (1..n) -> S]
  BY <1>3
<1>5. \A s \in S, i \in 1..n : T[<<s, i>>] = LabelStep(s, names[i])
  OBVIOUS
<1>6. \E f : Works(f)
  <2> HIDE DEF first, T, n, S
  <2>1. PICK f : Iterates(f, S, n, first, T)
    BY <1>1, <1>2, <1>4, IterationExists, Zenon
  <2>2. \A i \in 1..n : f[i] = LabelStep(f[i - 1], names[i])
    <3> TAKE i \in 1..n
    <3>1. f[i - 1] \in S
      BY <1>1, <2>1 DEF Iterates
    <3> QED BY <1>5, <2>1, <3>1 DEF Iterates
  <2>3. \A i \in 0..n : f[i] = IF i = 0 THEN first
                           ELSE IF f[i - 1].ok THEN DefineLabel(f[i - 1].ctx, names[i]) ELSE f[i - 1]
    BY <1>1, <2>1, <2>2 DEF Iterates, LabelStep
  <2>4. f = [i \in 0..n |-> f[i]]
    BY <2>1 DEF Iterates
  <2>5. Works(f)
    BY <2>3, <2>4
  <2> QED BY <2>5
<1> DEFINE done == CHOOSE f : Works(f)
<1>7. Works(done)
  BY Zenon, <1>6
<1>8. DefineLabels(c, names) = done[n]
  BY DEF DefineLabels
<1> HIDE DEF done, first, T, n, S
<1>9. done[0] = first
  BY <1>1, <1>7
<1>10. \A i \in 1..n : done[i] = LabelStep(done[i - 1], names[i])
  <2> TAKE i \in 1..n
  <2>1. i \in 0..n /\ i # 0
    BY <1>1
  <2>2. done[i] = IF done[i - 1].ok THEN DefineLabel(done[i - 1].ctx, names[i]) ELSE done[i - 1]
    BY <1>7, <2>1, Zenon
  <2> QED BY <2>2 DEF LabelStep
<1>11. \A i \in 0..n : done[i] \in S
  <2>1. \A i \in 1..n : done[i - 1] \in S => done[i] \in S
    BY <1>3, <1>10
  <2> QED BY <1>1, <1>2, <1>9, <2>1, IterationKeeps
<1>12. LabelRun(c, names, done)
  BY <1>8, <1>9, <1>10, <1>11 DEF LabelRun, first, n, S
<1> QED BY <1>12

LEMMA DefineLabelsIs ==
  ASSUME NEW c, GoodContext(c), NEW names \in Seq(STRING)
  PROVE  /\ Defined(c, DefineLabels(c, names))
         /\ DefineLabels(c, names).ctx.constants = c.constants
         /\ DefineLabels(c, names) \in [ok : BOOLEAN, ctx : Context]
         /\ DOMAIN DefineLabels(c, names).ctx.labels \subseteq DOMAIN c.labels \cup NamesOf(names)
         /\ DefineLabels(c, names).ok =>
              \A n \in NamesOf(names) : /\ n \in DOMAIN DefineLabels(c, names).ctx.labels
                                        /\ DefineLabels(c, names).ctx.labels[n] = c.address
<1>1. PICK done : LabelRun(c, names, done)
  BY LabelRuns
<1> DEFINE k == Len(names)
           Has(i, j) == /\ names[j] \in DOMAIN done[i].ctx.labels
                        /\ done[i].ctx.labels[names[j]] = c.address
           B == {i \in 0..k : done[i].ok => \A j \in 1..i : Has(i, j)}
<1>2. k \in Nat /\ k \in 0..k
  BY LenProperties
<1>3. \A i \in 0..k : i \in B
  <2>1. 0 \in B
    BY <1>2
  <2>2. \A i \in 1..k : i - 1 \in B => i \in B
    <3> TAKE i \in 1..k
    <3> SUFFICES ASSUME i - 1 \in B, done[i].ok PROVE \A j \in 1..i : Has(i, j)
      BY <1>2
    <3> DEFINE x == done[i - 1]
               y == DefineLabel(x.ctx, names[i])
    <3>1. i - 1 \in 0..k /\ x \in Labelled(c, names) /\ done[i] = LabelStep(x, names[i])
      BY <1>1, <1>2 DEF LabelRun
    <3>2. x.ok /\ done[i] = y
      BY <3>1 DEF LabelStep
    <3>3. names[i] \in STRING /\ GoodContext(x.ctx) /\ x.ctx.address = c.address
      BY <3>1, ElementOfSeq DEF Labelled, Defined, SameBut
    <3>4. /\ Defined(x.ctx, y) /\ names[i] \in DOMAIN y.ctx.labels
          /\ y.ctx.labels[names[i]] = c.address
      BY <3>2, <3>3, DefineLabelIs
    <3>5. GrownTable(x.ctx.labels, y.ctx.labels)
      BY <3>4 DEF Defined, Grown
    <3>6. \A j \in 1..(i - 1) : Has(i - 1, j)
      BY <3>2
    <3> HIDE DEF x, y
    <3>7. \A j \in 1..(i - 1) : Has(i, j)
      BY <3>2, <3>5, <3>6 DEF GrownTable, x
    <3>8. Has(i, i)
      BY <3>2, <3>4
    <3> HIDE DEF Has
    <3> QED BY <3>7, <3>8
  <2> HIDE DEF B
  <2> QED BY <1>2, <2>1, <2>2, CountsUp
<1>4. DefineLabels(c, names) = done[k] /\ done[k] \in Labelled(c, names) /\ k \in B
  BY <1>1, <1>2, <1>3 DEF LabelRun
<1>5. done[k].ok => \A n \in NamesOf(names) : /\ n \in DOMAIN done[k].ctx.labels
                                              /\ done[k].ctx.labels[n] = c.address
  BY <1>4 DEF NamesOf
<1> HIDE DEF k, B
<1> QED BY <1>4, <1>5 DEF Labelled
-----------------------------------------------------------------------------
(* Bytes written.                                                          *)

RamType == [Places -> BytesType]

\* A tape block has a start once it has a byte.
Begun(c) == c.output.start = Nowhere => c.output.bytes = <<>>

SameProgram(c, d) ==
  /\ d.pass = c.pass /\ d.target = c.target /\ d.labels = c.labels /\ d.constants = c.constants

\* What bytes do to a tape.
Appends(c, d, bytes) ==
  c.target = "tape" =>
    /\ d.output.bytes = c.output.bytes \o bytes
    /\ c.output.start # Nowhere => d.output.start = c.output.start
    /\ bytes # <<>> => d.output.start + Len(c.output.bytes) = c.address
    /\ Begun(d)

\* What is known of a write, whether it was made or not.
Outcome(c, r, w) ==
  /\ w.ok \in BOOLEAN /\ GoodContext(w.ctx) /\ w.ram \in RamType
  /\ w = [ok |-> w.ok, ctx |-> w.ctx, ram |-> w.ram]
  /\ SameProgram(c, w.ctx)
  /\ c.target # "machine" => w.ram = r
  /\ c.target # "tape" => w.ctx.output = c.output

LEMMA DoneIs ==
  ASSUME NEW c, NEW r
  PROVE  /\ Done(c, r).ok /\ Done(c, r).ctx = c /\ Done(c, r).ram = r
         /\ ~Failed(c, r).ok /\ Failed(c, r).ctx = c /\ Failed(c, r).ram = r
         /\ Done(c, r) = [ok |-> TRUE, ctx |-> c, ram |-> r]
         /\ Failed(c, r) = [ok |-> FALSE, ctx |-> c, ram |-> r]
BY DEF Done, Failed

LEMMA StillOutcome ==
  ASSUME NEW c, GoodContext(c), NEW r \in RamType
  PROVE  Outcome(c, r, Done(c, r)) /\ Outcome(c, r, Failed(c, r))
BY DEF Outcome, SameProgram, Done, Failed

\* Output grows at its end.
LEMMA ExtendedIs ==
  ASSUME NEW c \in Context, NEW bytes \in Seq(BytesType)
  PROVE  /\ Extended(c, bytes) \in OutputType /\ Extended(c, bytes).start # Nowhere
         /\ Extended(c, bytes).bytes = c.output.bytes \o bytes
         /\ c.output.start = Nowhere => Extended(c, bytes).start = c.address
         /\ c.output.start # Nowhere => Extended(c, bytes).start = c.output.start
<1>1. c.output.bytes \in Seq(BytesType) /\ c.address \in Places /\ c.output.start \in Places \cup {Nowhere}
  BY ContextIs
<1>2. c.output.bytes \o bytes \in Seq(BytesType)
  BY <1>1, ConcatProperties
<1>3. Nowhere \notin Places
  BY ScaleIs DEF Nowhere, Places
<1> QED BY <1>1, <1>2, <1>3 DEF Extended, OutputType

\* What a write comes to.
LEMMA PlacedIs ==
  ASSUME NEW c, GoodContext(c), NEW r \in RamType, NEW bytes \in Seq(BytesType), bytes # <<>>,
         Fits(c, Len(bytes)), NEW w, w = Placed(c, r, bytes, c.address + Len(bytes))
  PROVE  /\ Outcome(c, r, w) /\ w.ok /\ w.ctx.total = c.total
         /\ w.ctx.address = IF c.address + Len(bytes) = MemoryTop THEN c.address
                            ELSE c.address + Len(bytes)
         /\ w.ctx.exhausted = (c.exhausted \/ c.address + Len(bytes) = MemoryTop)
         /\ w.ctx.output = IF c.target = "tape" THEN Extended(c, bytes) ELSE c.output
         /\ c.target = "machine" =>
              \A b \in 1..Len(bytes) : w.ram[c.address + b - 1] = bytes[b]
<1> DEFINE n == Len(bytes)
           end == c.address + n
           a == IF end = MemoryTop THEN c.address ELSE end
           x == c.exhausted \/ end = MemoryTop
           o == IF c.target = "tape" THEN Extended(c, bytes) ELSE c.output
           d == [c EXCEPT !.address = a, !.exhausted = x, !.output = o]
           f == [p \in Places |-> IF p \in c.address..(end - 1) THEN bytes[p - c.address + 1] ELSE r[p]]
           s == IF c.target = "machine" THEN f ELSE r
<1>1. c \in Context /\ c.address \in Places /\ c.exhausted \in BOOLEAN /\ c.output \in OutputType
  BY ContextIs DEF GoodContext
<1>2. n \in Nat /\ n > 0 /\ \A i \in 1..n : bytes[i] \in BytesType
  BY LenProperties, ElementOfSeq
<1>3. /\ MemoryTop \in Nat /\ c.address \in Nat /\ end <= MemoryTop /\ end \in Nat /\ c.address < end
  <2>1. c.address + n <= MemoryTop
    BY DEF Fits
  <2>2. MemoryTop \in Nat /\ c.address \in Nat
    BY <1>1, ScaleIs
  <2> HIDE DEF n
  <2> QED BY <1>2, <2>1, <2>2
<1>4. a \in Places
  BY <1>1, <1>3 DEF Places
<1>5. o \in OutputType
  BY <1>1, ExtendedIs
<1>6. f \in RamType /\ \A b \in 1..n : f[c.address + b - 1] = bytes[b]
  <2>1. \A p \in Places : p \in c.address..(end - 1) => p - c.address + 1 \in 1..n
    BY <1>2, <1>3, ScaleIs
  <2>2. \A p \in Places : f[p] \in BytesType
    BY <1>2, <2>1 DEF RamType
  <2>3. f \in RamType
    BY <2>2 DEF RamType
  <2>4. \A b \in 1..n : f[c.address + b - 1] = bytes[b]
    <3> TAKE b \in 1..n
    <3> DEFINE p == c.address + b - 1
    <3>1. p \in Places /\ p \in c.address..(end - 1) /\ p - c.address + 1 = b
      BY <1>2, <1>3 DEF Places
    <3> HIDE DEF p, end
    <3>2. f[p] = bytes[b]
      BY <3>1
    <3> QED BY <3>2 DEF p
  <2> QED BY <2>3, <2>4
<1>7. w = Done(d, s)
  BY DEF Placed
<1>8. s \in RamType /\ (c.target # "machine" => s = r) /\ (c.target = "machine" => s = f)
  BY <1>6
<1>9. d = [pass |-> c.pass, address |-> a, exhausted |-> x, target |-> c.target,
           labels |-> c.labels, constants |-> c.constants, total |-> c.total, output |-> o]
  <2> HIDE DEF a, x, o, d
  <2>1. d = [c EXCEPT !.address = a, !.exhausted = x, !.output = o]
    BY DEF d
  <2>2. c = [pass |-> c.pass, address |-> c.address, exhausted |-> c.exhausted, target |-> c.target,
             labels |-> c.labels, constants |-> c.constants, total |-> c.total, output |-> c.output]
    BY <1>1, ContextParts
  <2> QED BY <2>1, <2>2, Zenon
<1>10. x \in BOOLEAN
  OBVIOUS
<1> HIDE DEF d, f, s, a, x, o
<1>11. /\ d.pass = c.pass /\ d.address = a /\ d.exhausted = x /\ d.target = c.target
       /\ d.labels = c.labels /\ d.constants = c.constants /\ d.total = c.total /\ d.output = o
  BY <1>9
<1>12. d \in Context
  BY <1>1, <1>4, <1>5, <1>9, <1>10, ContextIs DEF Context
<1>13. GoodContext(d)
  BY <1>11, <1>12 DEF GoodContext
<1>14. w.ok /\ w.ctx = d /\ w.ram = s /\ w = [ok |-> w.ok, ctx |-> w.ctx, ram |-> w.ram] /\ w.ok \in BOOLEAN
  <2>1. w = [ok |-> TRUE, ctx |-> d, ram |-> s]
    BY <1>7 DEF Done
  <2>2. w.ok = TRUE /\ w.ctx = d /\ w.ram = s
    BY <2>1
  <2> QED BY <2>1, <2>2
<1>15. Outcome(c, r, w)
  <2>1. c.target # "tape" => w.ctx.output = c.output
    BY <1>11, <1>14 DEF o
  <2> QED BY <1>8, <1>11, <1>13, <1>14, <2>1 DEF Outcome, SameProgram
<1> QED BY <1>6, <1>8, <1>11, <1>14, <1>15 DEF a, x, o

Wrote(c, r, w, bytes) ==
  /\ Outcome(c, r, w) /\ w.ctx.total = c.total
  /\ ~w.ok \/ bytes = <<>> => w.ctx = c /\ w.ram = r
  /\ w.ok /\ Begun(c) => Appends(c, w.ctx, bytes)
  /\ w.ok /\ c.target = "machine" => \A b \in 1..Len(bytes) : w.ram[c.address + b - 1] = bytes[b]
  /\ w.ok /\ bytes # <<>> =>
       /\ ~c.exhausted
       /\ w.ctx.exhausted <=> c.address + Len(bytes) = MemoryTop
       /\ ~w.ctx.exhausted => w.ctx.address = c.address + Len(bytes)

Follows(c) == c.target = "tape" => FollowsOutput(c)

LEMMA WriteCases ==
  ASSUME NEW c, NEW r, NEW bytes
  PROVE  WriteBytes(c, r, bytes) =
           IF bytes = <<>> THEN Done(c, r)
           ELSE IF Fits(c, Len(bytes)) /\ Follows(c)
           THEN Placed(c, r, bytes, c.address + Len(bytes)) ELSE Failed(c, r)
BY DEF WriteBytes, Follows

\* app_assemble_write_bytes puts all the bytes down at the address, or changes
\* nothing.
LEMMA WriteIs ==
  ASSUME NEW c, GoodContext(c), NEW r \in RamType, NEW bytes \in Seq(BytesType)
  PROVE  Wrote(c, r, WriteBytes(c, r, bytes), bytes)
<1> DEFINE w == WriteBytes(c, r, bytes)
<1>0. c \in Context /\ c.output.bytes \in Seq(BytesType)
  BY ContextIs DEF GoodContext
<1>1. CASE bytes = <<>>
  <2>1. w = Done(c, r)
    BY <1>1, WriteCases
  <2>2. w.ok /\ w.ctx = c /\ w.ram = r /\ Outcome(c, r, w)
    BY <2>1, DoneIs, StillOutcome
  <2>3. Begun(c) => Appends(c, c, bytes)
    <3>1. c.output.bytes \o bytes = c.output.bytes
      BY <1>0, <1>1
    <3> QED BY <1>1, <3>1 DEF Appends
  <2>4. 1..Len(bytes) = {}
    BY <1>1
  <2> HIDE DEF w
  <2> QED BY <1>1, <2>2, <2>3, <2>4 DEF Wrote, w
<1>2. CASE bytes # <<>> /\ ~(Fits(c, Len(bytes)) /\ Follows(c))
  <2>1. w = Failed(c, r)
    BY <1>2, WriteCases
  <2>2. ~w.ok /\ w.ctx = c /\ w.ram = r /\ Outcome(c, r, w)
    BY <2>1, DoneIs, StillOutcome
  <2> HIDE DEF w
  <2> QED BY <1>2, <2>2 DEF Wrote, w
<1>3. CASE bytes # <<>> /\ Fits(c, Len(bytes)) /\ Follows(c)
  <2> DEFINE n == Len(bytes)
  <2>1. w = Placed(c, r, bytes, c.address + Len(bytes))
    BY <1>3, WriteCases
  <2> HIDE DEF w
  <2>2. /\ Outcome(c, r, w) /\ w.ok /\ w.ctx.total = c.total
        /\ w.ctx.address = IF c.address + n = MemoryTop THEN c.address ELSE c.address + n
        /\ w.ctx.exhausted = (c.exhausted \/ c.address + n = MemoryTop)
        /\ w.ctx.output = IF c.target = "tape" THEN Extended(c, bytes) ELSE c.output
        /\ c.target = "machine" => \A b \in 1..n : w.ram[c.address + b - 1] = bytes[b]
    BY <1>3, <2>1, PlacedIs
  <2>3. ~c.exhausted /\ c.exhausted \in BOOLEAN /\ c.address \in Int /\ n \in Nat
    BY <1>0, <1>3, ContextIs, ScaleIs, LenProperties DEF Fits
  <2>4. Begun(c) => Appends(c, w.ctx, bytes)
    <3> SUFFICES ASSUME Begun(c), c.target = "tape" PROVE Appends(c, w.ctx, bytes)
      BY DEF Appends
    <3> DEFINE o == w.ctx.output
    <3>1. o = Extended(c, bytes)
      BY <2>2
    <3>2. /\ o.start # Nowhere /\ o.bytes = c.output.bytes \o bytes
          /\ c.output.start = Nowhere => o.start = c.address
          /\ c.output.start # Nowhere => o.start = c.output.start
      BY <1>0, <3>1, ExtendedIs
    <3>3. o.start + Len(c.output.bytes) = c.address
      <4>1. CASE c.output.start = Nowhere
        <5>1. Len(c.output.bytes) = 0
          BY <4>1 DEF Begun
        <5> QED BY <2>3, <3>2, <4>1, <5>1
      <4>2. CASE c.output.start # Nowhere
        BY <1>3, <3>2, <4>2 DEF Follows, FollowsOutput
      <4> QED BY <4>1, <4>2
    <3> HIDE DEF o
    <3> QED BY <3>2, <3>3 DEF Appends, Begun, o
  <2>5. /\ w.ctx.exhausted <=> c.address + n = MemoryTop
        /\ ~w.ctx.exhausted => w.ctx.address = c.address + n
    BY <2>2, <2>3
  <2> QED BY <1>3, <2>2, <2>3, <2>4, <2>5 DEF Wrote, w
<1> QED BY <1>1, <1>2, <1>3

\* Two writes of as many bytes at one place, neither to a tape.
SamePlace(c, d) ==
  c.address = d.address /\ c.exhausted = d.exhausted /\ c.target # "tape" /\ d.target # "tape"

\* Two writes of one size at one place succeed alike and end at one place.
LEMMA WriteAlike ==
  ASSUME NEW c, NEW d, GoodContext(c), GoodContext(d), SamePlace(c, d), NEW r \in RamType, NEW s \in RamType,
         NEW x \in Seq(BytesType), NEW y \in Seq(BytesType), Len(x) = Len(y)
  PROVE  /\ WriteBytes(c, r, x).ok = WriteBytes(d, s, y).ok
         /\ SamePlace(WriteBytes(c, r, x).ctx, WriteBytes(d, s, y).ctx)
<1> DEFINE u == WriteBytes(c, r, x)
           w == WriteBytes(d, s, y)
<1>1. CASE x = <<>>
  <2>1. y = <<>>
    BY <1>1
  <2>2. u = Done(c, r) /\ w = Done(d, s)
    BY <1>1, <2>1, WriteCases
  <2> HIDE DEF u, w
  <2>3. u.ok = TRUE /\ w.ok = TRUE /\ u.ctx = c /\ w.ctx = d
    BY <2>2 DEF Done
  <2> QED BY <2>3 DEF u, w
<1>2. CASE x # <<>> /\ ~Fits(c, Len(x))
  <2>1. y # <<>> /\ ~Fits(d, Len(y))
    BY <1>2 DEF SamePlace, Fits
  <2>2. u = Failed(c, r) /\ w = Failed(d, s)
    BY <1>2, <2>1, WriteCases
  <2> HIDE DEF u, w
  <2>3. u.ok = FALSE /\ w.ok = FALSE /\ u.ctx = c /\ w.ctx = d
    BY <2>2 DEF Failed
  <2> QED BY <2>3 DEF u, w
<1>3. CASE x # <<>> /\ Fits(c, Len(x))
  <2>1. y # <<>> /\ Fits(d, Len(y)) /\ Follows(c) /\ Follows(d)
    BY <1>3 DEF SamePlace, Fits, Follows
  <2>2. u = Placed(c, r, x, c.address + Len(x)) /\ w = Placed(d, s, y, d.address + Len(y))
    BY <1>3, <2>1, WriteCases
  <2> HIDE DEF u, w
  <2>3. /\ u.ok /\ Outcome(c, r, u)
        /\ u.ctx.address = IF c.address + Len(x) = MemoryTop THEN c.address ELSE c.address + Len(x)
        /\ u.ctx.exhausted = (c.exhausted \/ c.address + Len(x) = MemoryTop)
    BY <1>3, <2>2, PlacedIs
  <2>4. /\ w.ok /\ Outcome(d, s, w)
        /\ w.ctx.address = IF d.address + Len(y) = MemoryTop THEN d.address ELSE d.address + Len(y)
        /\ w.ctx.exhausted = (d.exhausted \/ d.address + Len(y) = MemoryTop)
    BY <2>1, <2>2, PlacedIs
  <2>5. u.ok \in BOOLEAN /\ w.ok \in BOOLEAN /\ u.ctx.target = c.target /\ w.ctx.target = d.target
    BY <2>3, <2>4 DEF Outcome, SameProgram
  <2> DEFINE n == Len(x)
  <2>6. n = Len(y)
    OBVIOUS
  <2> HIDE DEF n
  <2> QED BY <2>3, <2>4, <2>5, <2>6 DEF SamePlace, u, w, n
<1> QED BY <1>1, <1>2, <1>3
-----------------------------------------------------------------------------
(* DEFS: chunk after chunk.                                                *)

Full(count)   == count \div ChunkSize
Chunks(count) == IF count % ChunkSize = 0 THEN Full(count) ELSE Full(count) + 1
SizeOf(count, i) == IF i <= Full(count) THEN ChunkSize ELSE count % ChunkSize
Chunk(count, value, i) == [b \in 1..SizeOf(count, i) |-> [kind |-> "data", value |-> value]]
UpTo(count, i) == IF i <= Full(count) THEN i * ChunkSize ELSE count

FillStep(w, bytes) == IF w.ok THEN WriteBytes(w.ctx, w.ram, bytes) ELSE w
Outcomes(c, r) == {w \in [ok : BOOLEAN, ctx : Context, ram : RamType] : Outcome(c, r, w)}

FillRun(c, r, count, value, f) ==
  /\ FillBytes(c, r, count, value) = f[Chunks(count)]
  /\ f[0] = Done(c, r)
  /\ \A i \in 1..Chunks(count) : f[i] = FillStep(f[i - 1], Chunk(count, value, i))
  /\ \A i \in 0..Chunks(count) : f[i] \in Outcomes(c, r)

\* The chunks of a fill cover it.
LEMMA ChunksAre ==
  ASSUME NEW count \in Nat
  PROVE  /\ Full(count) \in Nat /\ Chunks(count) \in Nat
         /\ UpTo(count, 0) = 0 /\ UpTo(count, Chunks(count)) = count
         /\ \A i \in 1..Chunks(count) :
              /\ SizeOf(count, i) \in Nat /\ UpTo(count, i - 1) \in Nat
              /\ UpTo(count, i) = UpTo(count, i - 1) + SizeOf(count, i)
<1> DEFINE k == ChunkSize
           q == count \div k
           m == count % k
<1>1. k \in Nat /\ k > 0
  BY ScaleAssumption
<1>2. q \in Nat /\ m \in Nat /\ m < k /\ count = q * k + m
  BY <1>1
<1>3. \A i \in Nat : i * k \in Nat /\ (i + 1) * k = i * k + k
  BY <1>1
<1>4. 0 * k = 0
  BY <1>1
<1>5. Full(count) = q /\ Chunks(count) = IF m = 0 THEN q ELSE q + 1
  BY DEF Full, Chunks
<1>6. \A i : /\ SizeOf(count, i) = IF i <= q THEN k ELSE m
             /\ UpTo(count, i) = IF i <= q THEN i * k ELSE count
  BY DEF SizeOf, UpTo, Full
<1> HIDE DEF k, q, m
<1>7. Chunks(count) \in Nat
  BY <1>2, <1>5
<1>8. UpTo(count, 0) = 0
  BY <1>2, <1>4, <1>6
<1>9. UpTo(count, Chunks(count)) = count
  <2>1. CASE m = 0
    BY <1>2, <1>3, <1>5, <1>6, <2>1
  <2>2. CASE m # 0
    <3>1. ~(q + 1 <= q) /\ Chunks(count) = q + 1
      BY <1>2, <1>5, <2>2
    <3> QED BY <1>6, <3>1
  <2> QED BY <2>1, <2>2
<1>10. ASSUME NEW i \in 1..Chunks(count)
       PROVE  /\ SizeOf(count, i) \in Nat /\ UpTo(count, i - 1) \in Nat
              /\ UpTo(count, i) = UpTo(count, i - 1) + SizeOf(count, i)
  <2>1. i - 1 \in Nat /\ i - 1 <= q /\ (i - 1) + 1 = i /\ i \in Nat
    BY <1>2, <1>5, <1>7
  <2>2. UpTo(count, i - 1) = (i - 1) * k /\ (i - 1) * k \in Nat /\ i * k = (i - 1) * k + k
    BY <1>3, <1>6, <2>1
  <2>3. CASE i <= q
    BY <1>1, <1>6, <2>2, <2>3
  <2>4. CASE ~(i <= q)
    <3>1. i - 1 = q /\ UpTo(count, i) = count /\ SizeOf(count, i) = m
      BY <1>2, <1>6, <2>1, <2>4
    <3>2. UpTo(count, i - 1) = q * k
      BY <2>2, <3>1
    <3> QED BY <1>2, <2>2, <3>1, <3>2
  <2> QED BY <2>3, <2>4
<1> QED BY <1>2, <1>5, <1>7, <1>8, <1>9, <1>10

LEMMA ChunkIs ==
  ASSUME NEW count \in Nat, NEW value \in Int, NEW i \in 1..Chunks(count)
  PROVE  /\ Chunk(count, value, i) \in Seq(BytesType)
         /\ Len(Chunk(count, value, i)) = SizeOf(count, i)
<1>1. SizeOf(count, i) \in Nat
  BY ChunksAre
<1>2. [kind |-> "data", value |-> value] \in BytesType
  BY DEF BytesType
<1> QED BY <1>1, <1>2 DEF Chunk

LEMMA OutcomeTrans ==
  ASSUME NEW c, NEW r, NEW w, NEW x, Outcome(c, r, w), Outcome(w.ctx, w.ram, x)
  PROVE  Outcome(c, r, x)
BY DEF Outcome, SameProgram

LEMMA OutcomesAre ==
  ASSUME NEW c, NEW r, NEW w, Outcome(c, r, w)
  PROVE  w \in Outcomes(c, r)
BY DEF Outcomes, Outcome, GoodContext

LEMMA FillStepIs ==
  ASSUME NEW c, NEW r, NEW w \in Outcomes(c, r), NEW bytes \in Seq(BytesType)
  PROVE  FillStep(w, bytes) \in Outcomes(c, r)
<1>1. Outcome(c, r, w) /\ GoodContext(w.ctx) /\ w.ram \in RamType
  BY DEF Outcomes, Outcome
<1>2. Outcome(w.ctx, w.ram, WriteBytes(w.ctx, w.ram, bytes))
  BY <1>1, WriteIs DEF Wrote
<1>3. Outcome(c, r, FillStep(w, bytes))
  BY <1>1, <1>2, OutcomeTrans DEF FillStep
<1> QED BY <1>3, OutcomesAre

\* A fill of any size is a run through its chunks.
LEMMA FillRuns ==
  ASSUME NEW c, GoodContext(c), NEW r \in RamType, NEW count \in Nat, NEW value \in Int
  PROVE  \E f : FillRun(c, r, count, value, f)
<1> DEFINE n == Chunks(count)
           S == Outcomes(c, r)
           first == Done(c, r)
           chunk(i) == Chunk(count, value, i)
           Works(f) == f = [i \in 0..n |-> IF i = 0 THEN first
                           ELSE IF f[i - 1].ok THEN WriteBytes(f[i - 1].ctx, f[i - 1].ram, chunk(i))
                           ELSE f[i - 1]]
           T == [p \in S \X (1..n) |-> FillStep(p[1], chunk(p[2]))]
<1>1. n \in Nat
  BY ChunksAre
<1>2. first \in S
  BY StillOutcome, OutcomesAre
<1>3. \A s \in S, i \in 1..n : FillStep(s, chunk(i)) \in S
  BY ChunkIs, FillStepIs
<1>4. T \in [S \X (1..n) -> S]
  BY <1>3
<1>5. \A s \in S, i \in 1..n : T[<<s, i>>] = FillStep(s, chunk(i))
  OBVIOUS
<1>6. \E f : Works(f)
  <2> HIDE DEF first, T, n, S, chunk
  <2>1. PICK f : Iterates(f, S, n, first, T)
    BY <1>1, <1>2, <1>4, IterationExists, Zenon
  <2>2. \A i \in 1..n : f[i] = FillStep(f[i - 1], chunk(i))
    <3> TAKE i \in 1..n
    <3>1. f[i - 1] \in S
      BY <1>1, <2>1 DEF Iterates
    <3> QED BY <1>5, <2>1, <3>1 DEF Iterates
  <2>3. \A i \in 0..n : f[i] = IF i = 0 THEN first
                           ELSE IF f[i - 1].ok THEN WriteBytes(f[i - 1].ctx, f[i - 1].ram, chunk(i))
                           ELSE f[i - 1]
    BY <1>1, <2>1, <2>2 DEF Iterates, FillStep
  <2>4. f = [i \in 0..n |-> f[i]]
    BY <2>1 DEF Iterates
  <2>5. Works(f)
    BY <2>3, <2>4
  <2> QED BY <2>5
<1> DEFINE done == CHOOSE f : Works(f)
<1>7. Works(done)
  BY Zenon, <1>6
<1>8. FillBytes(c, r, count, value) = done[n]
  BY DEF FillBytes, Chunks, Full, Chunk, SizeOf
<1> HIDE DEF done, first, T, n, S, chunk
<1>9. done[0] = first
  BY <1>1, <1>7
<1>10. \A i \in 1..n : done[i] = FillStep(done[i - 1], chunk(i))
  <2> TAKE i \in 1..n
  <2>1. i \in 0..n /\ i # 0
    BY <1>1
  <2>2. done[i] = IF done[i - 1].ok THEN WriteBytes(done[i - 1].ctx, done[i - 1].ram, chunk(i))
                  ELSE done[i - 1]
    BY <1>7, <2>1, Zenon
  <2> QED BY <2>2 DEF FillStep
<1>11. \A i \in 0..n : done[i] \in S
  <2>1. \A i \in 1..n : done[i - 1] \in S => done[i] \in S
    BY <1>3, <1>10
  <2> QED BY <1>1, <1>2, <1>9, <2>1, IterationKeeps
<1>12. FillRun(c, r, count, value, done)
  BY <1>8, <1>9, <1>10, <1>11 DEF FillRun, first, n, S, chunk
<1> QED BY <1>12

LEMMA AppendsTrans ==
  ASSUME NEW c, NEW d, NEW e, NEW x \in Seq(BytesType), NEW y \in Seq(BytesType),
         c \in Context, d.target = c.target, Appends(c, d, x), Appends(d, e, y), x = <<>> => d = c
  PROVE  Appends(c, e, x \o y)
<1> SUFFICES ASSUME c.target = "tape" PROVE Appends(c, e, x \o y)
  BY DEF Appends
<1> DEFINE p == c.output.bytes
           n == Len(p)
<1>1. p \in Seq(BytesType) /\ n \in Nat /\ c.address \in Int
  BY ContextIs, ScaleIs, LenProperties
<1>2. /\ d.output.bytes = p \o x /\ (c.output.start # Nowhere => d.output.start = c.output.start)
      /\ (x # <<>> => d.output.start + n = c.address) /\ Begun(d)
      /\ e.output.bytes = d.output.bytes \o y
      /\ (d.output.start # Nowhere => e.output.start = d.output.start)
      /\ (y # <<>> => e.output.start + Len(d.output.bytes) = d.address) /\ Begun(e)
  BY DEF Appends
<1> HIDE DEF p, n
<1>3. e.output.bytes = p \o (x \o y)
  <2>1. (p \o x) \o y = p \o (x \o y)
    BY <1>1, ConcatAssociative
  <2> QED BY <1>2, <2>1
<1>4. c.output.start # Nowhere => e.output.start = c.output.start
  BY <1>2
<1>5. x \o y # <<>> => e.output.start + n = c.address
  <2>1. CASE x = <<>>
    <3>1. x \o y = y /\ d = c
      BY <2>1
    <3> QED BY <1>2, <3>1 DEF p, n
  <2>2. CASE x # <<>>
    <3>1. p \o x # <<>>
      BY <1>1, <2>2, ConcatProperties, LenProperties
    <3>2. d.output.start # Nowhere
      BY <1>2, <3>1 DEF Begun
    <3> QED BY <1>2, <2>2, <3>2
  <2> QED BY <2>1, <2>2
<1> QED BY <1>2, <1>3, <1>4, <1>5 DEF Appends, p, n
-----------------------------------------------------------------------------
(* What DEFS comes to, as a whole.                                         *)

\* n bytes lie between two contexts.
Between(c, d, n) ==
  \E x \in Seq(BytesType) :
    Len(x) = n /\ (Begun(c) => Appends(c, d, x)) /\ (x = <<>> => d = c)

LEMMA NothingBetween ==
  ASSUME NEW c \in Context
  PROVE  Between(c, c, 0)
<1> DEFINE x == <<>>
<1>1. x \in Seq(BytesType) /\ Len(x) = 0 /\ x = <<>>
  OBVIOUS
<1>2. c.output.bytes \in Seq(BytesType)
  BY ContextIs
<1>3. c.output.bytes \o x = c.output.bytes
  BY <1>2, ConcatEmptySeq
<1> HIDE DEF x
<1>4. Begun(c) => Appends(c, c, x)
  BY <1>1, <1>3 DEF Appends
<1> QED BY <1>1, <1>4 DEF Between

LEMMA BetweenTrans ==
  ASSUME NEW c \in Context, NEW d, NEW e, d.target = c.target, NEW n \in Nat,
         Between(c, d, n), NEW y \in Seq(BytesType), Begun(d) => Appends(d, e, y),
         y = <<>> => e = d
  PROVE  Between(c, e, n + Len(y))
<1>1. PICK x \in Seq(BytesType) :
        Len(x) = n /\ (Begun(c) => Appends(c, d, x)) /\ (x = <<>> => d = c)
  BY DEF Between
<1> DEFINE z == x \o y
<1>2. z \in Seq(BytesType) /\ Len(z) = n + Len(y)
  BY <1>1, ConcatProperties
<1>3. z = <<>> => x = <<>> /\ y = <<>>
  BY <1>1, ConcatEqualIffEmpty
<1>4. ASSUME Begun(c) PROVE Appends(c, e, z)
  <2>1. CASE c.target = "tape"
    <3>1. Appends(c, d, x) /\ Begun(d)
      BY <1>1, <1>4, <2>1 DEF Appends
    <3> QED BY <1>1, <3>1, AppendsTrans
  <2>2. CASE c.target # "tape"
    BY <2>2 DEF Appends
  <2> QED BY <2>1, <2>2
<1> HIDE DEF z
<1> QED BY <1>1, <1>2, <1>3, <1>4 DEF Between

Filled(c, r, w, n) ==
  /\ Outcome(c, r, w) /\ w.ctx.total = c.total
  /\ w.ok => Between(c, w.ctx, n)

\* app_assemble_fill_bytes puts down as many bytes as it is told, or fails.
LEMMA FillIs ==
  ASSUME NEW c, GoodContext(c), NEW r \in RamType, NEW count \in Nat, NEW value \in Int
  PROVE  Filled(c, r, FillBytes(c, r, count, value), count)
<1> DEFINE n == Chunks(count)
<1>1. PICK f : FillRun(c, r, count, value, f)
  BY FillRuns
<1>2. /\ n \in Nat /\ UpTo(count, 0) = 0 /\ UpTo(count, n) = count
      /\ \A i \in 1..n : /\ SizeOf(count, i) \in Nat /\ UpTo(count, i - 1) \in Nat
                         /\ UpTo(count, i) = UpTo(count, i - 1) + SizeOf(count, i)
  BY ChunksAre
<1> DEFINE B == {i \in 0..n : Filled(c, r, f[i], UpTo(count, i))}
<1>3. f[0] = Done(c, r) /\ FillBytes(c, r, count, value) = f[n]
      /\ \A i \in 1..n : f[i] = FillStep(f[i - 1], Chunk(count, value, i))
  BY <1>1 DEF FillRun
<1>4. 0 \in B
  <2>1. Outcome(c, r, Done(c, r)) /\ Done(c, r).ctx = c
    BY StillOutcome, DoneIs
  <2>2. Between(c, c, 0)
    BY NothingBetween DEF GoodContext
  <2> QED BY <1>2, <1>3, <2>1, <2>2 DEF Filled
<1>5. ASSUME NEW i \in 1..n, i - 1 \in B PROVE i \in B
  <2> DEFINE x == f[i - 1]
             y == Chunk(count, value, i)
             w == WriteBytes(x.ctx, x.ram, y)
             m == UpTo(count, i - 1)
             k == UpTo(count, i)
  <2>1. i \in 0..n /\ i - 1 \in 0..n
    BY <1>2
  <2>2. Filled(c, r, x, m)
    BY <1>5
  <2>3. y \in Seq(BytesType) /\ Len(y) = SizeOf(count, i)
    BY ChunkIs
  <2>4. m \in Nat /\ k = m + Len(y) /\ f[i] = FillStep(x, y)
    BY <1>2, <1>3, <2>3
  <2> HIDE DEF x, y, m, k, n
  <2>5. Outcome(c, r, x) /\ GoodContext(x.ctx) /\ x.ram \in RamType /\ x.ctx.target = c.target
        /\ x.ctx.total = c.total
    BY <2>2 DEF Filled, Outcome, SameProgram
  <2>6. Wrote(x.ctx, x.ram, w, y)
    BY <2>3, <2>5, WriteIs
  <2>7. CASE ~x.ok
    <3>1. f[i] = x /\ ~x.ok
      BY <2>4, <2>7 DEF FillStep
    <3>2. Filled(c, r, f[i], k)
      BY <2>2, <3>1 DEF Filled
    <3> QED BY <2>1, <3>2 DEF k
  <2>8. CASE x.ok
    <3>1. f[i] = w
      BY <2>4, <2>8 DEF FillStep
    <3> HIDE DEF w
    <3>2. Outcome(c, r, w) /\ w.ctx.total = c.total
      BY <2>5, <2>6, OutcomeTrans DEF Wrote
    <3>3. ASSUME w.ok PROVE Between(c, w.ctx, k)
      <4>1. Between(c, x.ctx, m) /\ c \in Context
        BY <2>2, <2>8 DEF Filled, GoodContext
      <4>2. (Begun(x.ctx) => Appends(x.ctx, w.ctx, y)) /\ (y = <<>> => w.ctx = x.ctx)
        BY <2>6, <3>3 DEF Wrote
      <4> QED BY <2>3, <2>4, <2>5, <4>1, <4>2, BetweenTrans
    <3>4. Filled(c, r, f[i], k)
      BY <3>1, <3>2, <3>3 DEF Filled
    <3> QED BY <2>1, <3>4 DEF k
  <2> QED BY <2>7, <2>8
<1> HIDE DEF B
<1>6. n \in B
  <2>1. \A i \in 0..n : i \in B
    BY <1>2, <1>4, <1>5, CountsUp
  <2> QED BY <1>2, <2>1
<1>7. Filled(c, r, f[n], UpTo(count, n))
  BY <1>6 DEF B
<1> QED BY <1>2, <1>3, <1>7

\* Two fills of as many bytes at one place.
LEMMA FillAlike ==
  ASSUME NEW c, NEW d, GoodContext(c), GoodContext(d), SamePlace(c, d), NEW r \in RamType, NEW s \in RamType,
         NEW count \in Nat, NEW v \in Int, NEW u \in Int
  PROVE  /\ FillBytes(c, r, count, v).ok = FillBytes(d, s, count, u).ok
         /\ SamePlace(FillBytes(c, r, count, v).ctx, FillBytes(d, s, count, u).ctx)
<1> DEFINE n == Chunks(count)
<1>1. PICK f : FillRun(c, r, count, v, f)
  BY FillRuns
<1>2. PICK g : FillRun(d, s, count, u, g)
  BY FillRuns
<1>3. n \in Nat
  BY ChunksAre
<1> DEFINE B == {i \in 0..n : f[i].ok = g[i].ok /\ SamePlace(f[i].ctx, g[i].ctx)}
<1>4. 0 \in B
  <2>1. f[0] = Done(c, r) /\ g[0] = Done(d, s)
    BY <1>1, <1>2 DEF FillRun
  <2>2. f[0].ok = g[0].ok /\ f[0].ctx = c /\ g[0].ctx = d
    BY <2>1 DEF Done
  <2> QED BY <1>3, <2>2
<1>5. ASSUME NEW i \in 1..n, i - 1 \in B PROVE i \in B
  <2> DEFINE x == f[i - 1]
             y == g[i - 1]
             p == Chunk(count, v, i)
             q == Chunk(count, u, i)
             z == WriteBytes(x.ctx, x.ram, p)
             w == WriteBytes(y.ctx, y.ram, q)
  <2>1. i \in 0..n /\ i - 1 \in 0..n
    BY <1>3
  <2>2. x.ok = y.ok /\ SamePlace(x.ctx, y.ctx)
    BY <1>5
  <2>3. p \in Seq(BytesType) /\ q \in Seq(BytesType) /\ Len(p) = Len(q)
    BY ChunkIs
  <2>4. x \in Outcomes(c, r) /\ y \in Outcomes(d, s)
    BY <1>1, <1>2, <2>1 DEF FillRun
  <2>5. f[i] = FillStep(x, p) /\ g[i] = FillStep(y, q)
    BY <1>1, <1>2 DEF FillRun
  <2> HIDE DEF x, y, p, q, n
  <2>6. GoodContext(x.ctx) /\ x.ram \in RamType /\ GoodContext(y.ctx) /\ y.ram \in RamType
    BY <2>4 DEF Outcomes, Outcome
  <2>7. z.ok = w.ok /\ SamePlace(z.ctx, w.ctx)
    BY <2>2, <2>3, <2>6, WriteAlike
  <2> HIDE DEF z, w
  <2>8. f[i] = (IF x.ok THEN z ELSE x) /\ g[i] = (IF x.ok THEN w ELSE y)
    BY <2>2, <2>5 DEF FillStep, z, w
  <2>9. f[i].ok = g[i].ok /\ SamePlace(f[i].ctx, g[i].ctx)
    <3>1. CASE x.ok
      BY <2>7, <2>8, <3>1
    <3>2. CASE ~x.ok
      BY <2>2, <2>8, <3>2
    <3> QED BY <3>1, <3>2
  <2> QED BY <2>1, <2>9
<1> HIDE DEF B
<1>6. n \in B
  <2>1. \A i \in 0..n : i \in B
    BY <1>3, <1>4, <1>5, CountsUp
  <2> QED BY <1>3, <2>1
<1>7. f[n].ok = g[n].ok /\ SamePlace(f[n].ctx, g[n].ctx)
  BY <1>6 DEF B
<1> QED BY <1>1, <1>2, <1>7 DEF FillRun
-----------------------------------------------------------------------------
(* Bytes of a line, counted.                                               *)

LEMMA TotalSet ==
  ASSUME NEW c \in Context, NEW t, NEW e, e = [c EXCEPT !.total = t]
  PROVE  e = [pass |-> c.pass, address |-> c.address, exhausted |-> c.exhausted, target |-> c.target,
              labels |-> c.labels, constants |-> c.constants, total |-> t, output |-> c.output]
<1>1. c = [pass |-> c.pass, address |-> c.address, exhausted |-> c.exhausted, target |-> c.target,
           labels |-> c.labels, constants |-> c.constants, total |-> c.total, output |-> c.output]
  BY ContextParts
<1> QED BY <1>1, Zenon

\* Counting bytes changes the total alone.
LEMMA CountedIs ==
  ASSUME NEW c, NEW r, NEW w, Outcome(c, r, w), NEW n \in Nat
  PROVE  /\ Outcome(c, r, CountedBytes(w, n)) /\ CountedBytes(w, n).ok = w.ok
         /\ CountedBytes(w, n).ram = w.ram
         /\ CountedBytes(w, n).ctx.address = w.ctx.address
         /\ CountedBytes(w, n).ctx.exhausted = w.ctx.exhausted
         /\ CountedBytes(w, n).ctx.output = w.ctx.output
         /\ ~w.ok => CountedBytes(w, n) = w
         /\ w.ok => CountedBytes(w, n).ctx.total = w.ctx.total + n
<1>1. CASE ~w.ok
  <2>1. CountedBytes(w, n) = w
    BY <1>1 DEF CountedBytes
  <2> QED BY <1>1, <2>1
<1>2. CASE w.ok
  <2> DEFINE e == w.ctx
             t == e.total + n
             v == CountedBytes(w, n)
  <2>1. w = [ok |-> w.ok, ctx |-> e, ram |-> w.ram] /\ e \in Context /\ w.ok \in BOOLEAN
        /\ GoodContext(e) /\ w.ram \in RamType
    BY DEF Outcome, GoodContext
  <2>2. v = [w EXCEPT !.ctx.total = @ + n]
    BY <1>2 DEF CountedBytes
  <2>3. v = [ok |-> w.ok, ctx |-> [e EXCEPT !.total = t], ram |-> w.ram]
    <3> DEFINE o == w.ok
               m == w.ram
    <3>1. w = [ok |-> o, ctx |-> e, ram |-> m]
      BY <2>1
    <3>2. [w EXCEPT !.ctx.total = @ + n] = [w EXCEPT !.ctx = [e EXCEPT !.total = t]]
      OBVIOUS
    <3> HIDE DEF o, m, e, t, v
    <3>3. v = [ok |-> o, ctx |-> [e EXCEPT !.total = t], ram |-> m]
      BY <2>2, <3>1, <3>2, Zenon
    <3> QED BY <3>3 DEF o, m
  <2> DEFINE d == [e EXCEPT !.total = t]
  <2>5. t \in Nat
    BY <2>1, ContextIs
  <2> HIDE DEF e, t, v
  <2>6. d = [pass |-> e.pass, address |-> e.address, exhausted |-> e.exhausted, target |-> e.target,
             labels |-> e.labels, constants |-> e.constants, total |-> t, output |-> e.output]
    BY <2>1, TotalSet
  <2> HIDE DEF d
  <2>7. /\ d.pass = e.pass /\ d.address = e.address /\ d.exhausted = e.exhausted
        /\ d.target = e.target /\ d.labels = e.labels /\ d.constants = e.constants
        /\ d.total = t /\ d.output = e.output
    BY <2>6
  <2>8. d \in Context
    BY <2>1, <2>5, <2>6, ContextIs DEF Context
  <2>9. GoodContext(d)
    BY <2>1, <2>7, <2>8 DEF GoodContext
  <2>10. v.ok = w.ok /\ v.ctx = d /\ v.ram = w.ram /\ v = [ok |-> v.ok, ctx |-> v.ctx, ram |-> v.ram]
    BY <2>3 DEF d
  <2>11. SameProgram(c, e) /\ (c.target # "machine" => w.ram = r)
         /\ (c.target # "tape" => e.output = c.output)
    BY DEF Outcome, e
  <2>12. SameProgram(c, d)
    BY <2>7, <2>11 DEF SameProgram
  <2>13. Outcome(c, r, v)
    BY <2>1, <2>7, <2>9, <2>10, <2>11, <2>12 DEF Outcome
  <2> QED BY <1>2, <2>7, <2>10, <2>13 DEF e, t, v
<1> QED BY <1>1, <1>2

\* What a line that gives x has done.
Gave(c, r, w, x) ==
  /\ Outcome(c, r, w)
  /\ ~w.ok => w.ctx = c /\ w.ram = r
  /\ w.ok => /\ w.ctx.total = c.total + Len(x)
             /\ Begun(c) => Appends(c, w.ctx, x)
             /\ x = <<>> => w.ctx.address = c.address
             /\ c.target = "machine" => \A b \in 1..Len(x) : w.ram[c.address + b - 1] = x[b]

MadeType == [ok : BOOLEAN, bytes : Seq(BytesType)]

\* The end of a line that has made bytes.
LEMMA WrittenIs ==
  ASSUME NEW c, GoodContext(c), NEW r \in RamType, NEW made \in MadeType
  PROVE  /\ Gave(c, r, Written(c, r, made), made.bytes)
         /\ Written(c, r, made).ok => made.ok
<1> DEFINE x == made.bytes
           u == WriteBytes(c, r, x)
           w == Written(c, r, made)
<1>1. x \in Seq(BytesType) /\ Len(x) \in Nat
  BY LenProperties DEF MadeType
<1>2. CASE ~made.ok
  <2>1. w = Failed(c, r)
    BY <1>2 DEF Written
  <2>2. Outcome(c, r, w) /\ ~w.ok /\ w.ctx = c /\ w.ram = r
    BY <2>1, StillOutcome, DoneIs
  <2> QED BY <2>2 DEF Gave
<1>3. CASE made.ok
  <2>1. w = CountedBytes(u, Len(x))
    BY <1>3 DEF Written
  <2>2. Wrote(c, r, u, x)
    BY <1>1, WriteIs
  <2> HIDE DEF x, u, w
  <2>3. Outcome(c, r, u) /\ u.ctx.total = c.total
    BY <2>2 DEF Wrote
  <2>4. /\ Outcome(c, r, w) /\ w.ok = u.ok /\ w.ram = u.ram /\ w.ctx.address = u.ctx.address
        /\ w.ctx.output = u.ctx.output /\ (~u.ok => w = u)
        /\ (u.ok => w.ctx.total = u.ctx.total + Len(x))
    BY <1>1, <2>1, <2>3, CountedIs
  <2>5. ASSUME ~w.ok PROVE w.ctx = c /\ w.ram = r
    <3>1. u.ctx = c /\ u.ram = r /\ w = u
      BY <2>2, <2>4, <2>5 DEF Wrote
    <3> QED BY <3>1
  <2>6. ASSUME w.ok PROVE w.ctx.total = c.total + Len(x)
    BY <2>3, <2>4, <2>6
  <2>7. ASSUME w.ok, Begun(c) PROVE Appends(c, w.ctx, x)
    <3>1. Appends(c, u.ctx, x)
      BY <2>2, <2>4, <2>7 DEF Wrote
    <3> QED BY <2>4, <3>1 DEF Appends, Begun
  <2>8. ASSUME w.ok, x = <<>> PROVE w.ctx.address = c.address
    BY <2>2, <2>4, <2>8 DEF Wrote
  <2>9. ASSUME w.ok, c.target = "machine"
        PROVE  \A b \in 1..Len(x) : w.ram[c.address + b - 1] = x[b]
    BY <2>2, <2>4, <2>9 DEF Wrote
  <2>10. Gave(c, r, w, x)
    BY <2>4, <2>5, <2>6, <2>7, <2>8, <2>9 DEF Gave
  <2> QED BY <1>3, <2>10 DEF x, w
<1> QED BY <1>2, <1>3

LEMMA WrittenAlike ==
  ASSUME NEW c, NEW d, GoodContext(c), GoodContext(d), SamePlace(c, d), NEW r \in RamType, NEW s \in RamType,
         NEW m \in MadeType, NEW k \in MadeType, m.ok /\ k.ok => Len(m.bytes) = Len(k.bytes),
         Written(c, r, m).ok, Written(d, s, k).ok
  PROVE  SamePlace(Written(c, r, m).ctx, Written(d, s, k).ctx)
<1> DEFINE x == m.bytes
           y == k.bytes
           u == WriteBytes(c, r, x)
           w == WriteBytes(d, s, y)
<1>1. m.ok /\ k.ok /\ Len(x) = Len(y)
  BY WrittenIs
<1>2. x \in Seq(BytesType) /\ y \in Seq(BytesType) /\ Len(x) \in Nat
  BY LenProperties DEF MadeType
<1>3. SamePlace(u.ctx, w.ctx)
  BY <1>1, <1>2, WriteAlike
<1>4. Written(c, r, m) = CountedBytes(u, Len(x)) /\ Written(d, s, k) = CountedBytes(w, Len(y))
  BY <1>1 DEF Written
<1>5. Outcome(c, r, u) /\ Outcome(d, s, w)
  BY <1>2, WriteIs DEF Wrote
<1> HIDE DEF x, y, u, w
<1> DEFINE a == CountedBytes(u, Len(x))
           b == CountedBytes(w, Len(y))
<1>6. /\ a.ctx.address = u.ctx.address /\ a.ctx.exhausted = u.ctx.exhausted
      /\ b.ctx.address = w.ctx.address /\ b.ctx.exhausted = w.ctx.exhausted
      /\ Outcome(c, r, a) /\ Outcome(d, s, b)
  <2>1. /\ a.ctx.address = u.ctx.address /\ a.ctx.exhausted = u.ctx.exhausted
        /\ Outcome(c, r, a)
    BY <1>2, <1>5, CountedIs
  <2>2. Len(y) \in Nat
    BY <1>1, <1>2
  <2>3. /\ b.ctx.address = w.ctx.address /\ b.ctx.exhausted = w.ctx.exhausted
        /\ Outcome(d, s, b)
    BY <1>5, <2>2, CountedIs
  <2> HIDE DEF a, b
  <2> QED BY <2>1, <2>3
<1> HIDE DEF a, b
<1>7. a.ctx.target # "tape" /\ b.ctx.target # "tape"
  BY <1>6 DEF Outcome, SameProgram, SamePlace
<1>8. SamePlace(a.ctx, b.ctx)
  BY <1>3, <1>6, <1>7 DEF SamePlace
<1> QED BY <1>4, <1>8 DEF a, b
-----------------------------------------------------------------------------
(* Sequences joined, and the bytes of DB and DW.                           *)

FlattenRun(S, p, f) ==
  /\ f[0] = <<>> /\ \A i \in 1..Len(p) : f[i] = f[i - 1] \o p[i]
  /\ \A i \in 0..Len(p) : f[i] \in Seq(S)
  /\ FlattenSeq(p) = f[Len(p)]

\* Parts of any number are joined in their order.
LEMMA FlattenRuns ==
  ASSUME NEW S, NEW p, Len(p) \in Nat, \A i \in 1..Len(p) : p[i] \in Seq(S),
         Len(p) = 0 => p = <<>>
  PROVE  \E f : FlattenRun(S, p, f)
<1> DEFINE n == Len(p)
           Works(g) == g = [i \in 1..n |-> IF i = 1 THEN p[i] ELSE g[i - 1] \o p[i]]
           T == [q \in Seq(S) \X (1..n) |-> q[1] \o p[q[2]]]
           empty == <<>>
<1>1. n \in Nat /\ empty \in Seq(S) /\ \A s \in Seq(S) : empty \o s = s
  BY ConcatEmptySeq
<1>2. \A s \in Seq(S), i \in 1..n : s \o p[i] \in Seq(S)
  BY ConcatProperties
<1>3. T \in [Seq(S) \X (1..n) -> Seq(S)]
  BY <1>2
<1>4. \A s \in Seq(S), i \in 1..n : T[<<s, i>>] = s \o p[i]
  OBVIOUS
<1>5. CASE n = 0
  <2> DEFINE f == [i \in 0..0 |-> empty]
  <2>1. f[0] = <<>> /\ \A i \in 0..n : f[i] \in Seq(S)
    BY <1>1, <1>5
  <2>2. FlattenSeq(p) = f[n]
    BY <1>5, <2>1 DEF FlattenSeq
  <2>3. \A i \in 1..n : f[i] = f[i - 1] \o p[i]
    BY <1>5
  <2> HIDE DEF f
  <2>4. FlattenRun(S, p, f)
    BY <2>1, <2>2, <2>3 DEF FlattenRun
  <2> QED BY <2>4
<1>6. CASE n # 0
  <2>1. \E g : Works(g)
    <3> HIDE DEF T, n, empty
    <3>1. PICK f : Iterates(f, Seq(S), n, empty, T)
      BY <1>1, <1>3, IterationExists, Zenon
    <3> DEFINE g == [i \in 1..n |-> f[i]]
    <3>2. \A i \in 1..n : f[i] = f[i - 1] \o p[i]
      <4> TAKE i \in 1..n
      <4>1. f[i - 1] \in Seq(S)
        BY <1>1, <3>1 DEF Iterates
      <4> QED BY <1>4, <3>1, <4>1 DEF Iterates
    <3>3. \A i \in 1..n : g[i] = IF i = 1 THEN p[i] ELSE g[i - 1] \o p[i]
      <4> TAKE i \in 1..n
      <4>1. CASE i = 1
        <5>1. g[i] = f[0] \o p[i]
          <6>1. g[i] = f[i] /\ i - 1 = 0
            BY <4>1
          <6>2. f[i] = f[i - 1] \o p[i]
            BY <3>2
          <6> HIDE DEF g
          <6> QED BY <6>1, <6>2
        <5>2. f[0] = empty
          BY <3>1 DEF Iterates
        <5>3. p[i] \in Seq(S)
          BY DEF n
        <5> QED BY <1>1, <4>1, <5>1, <5>2, <5>3
      <4>2. CASE i # 1
        <5>1. i - 1 \in 1..n
          BY <1>1, <4>2
        <5> QED BY <3>2, <4>2, <5>1
      <4> QED BY <4>1, <4>2
    <3>4. Works(g)
      BY <3>3
    <3> HIDE DEF g, Works
    <3> QED BY <3>4
  <2> DEFINE g == CHOOSE h : Works(h)
  <2>2. Works(g)
    BY Zenon, <2>1
  <2>3. FlattenSeq(p) = g[n]
    BY <1>6 DEF FlattenSeq
  <2> HIDE DEF g, n, empty, T
  <2> DEFINE f == [i \in 0..n |-> IF i = 0 THEN empty ELSE g[i]]
  <2>4. n \in 0..n /\ 0 \in 0..n /\ f[n] = g[n] /\ f[0] = empty
    BY <1>1, <1>6
  <2>5. \A i \in 1..n : f[i] = f[i - 1] \o p[i]
    <3> TAKE i \in 1..n
    <3>0. i # 0 /\ i \in 0..n /\ i - 1 \in 0..n
      BY <1>1
    <3>1. f[i] = g[i] /\ g[i] = (IF i = 1 THEN p[i] ELSE g[i - 1] \o p[i]) /\ i - 1 \in 0..n
      <4>1. f[i] = g[i]
        BY <3>0
      <4>2. g[i] = IF i = 1 THEN p[i] ELSE g[i - 1] \o p[i]
        BY <2>2, Zenon
      <4> QED BY <3>0, <4>1, <4>2
    <3>2. CASE i = 1
      <4>1. f[i] = p[i] /\ f[i - 1] = empty /\ p[i] \in Seq(S)
        BY <2>4, <3>1, <3>2 DEF n
      <4> QED BY <1>1, <4>1
    <3>3. CASE i # 1
      <4>1. f[i - 1] = g[i - 1]
        BY <3>1, <3>3
      <4> QED BY <3>1, <3>3, <4>1
    <3> QED BY <3>2, <3>3
  <2> HIDE DEF f
  <2>6. \A i \in 0..n : f[i] \in Seq(S)
    <3>1. \A i \in 1..n : f[i - 1] \in Seq(S) => f[i] \in Seq(S)
      BY <1>2, <2>5
    <3>2. f[0] \in Seq(S)
      BY <1>1, <2>4
    <3> QED BY <1>1, <3>1, <3>2, IterationKeeps
  <2>7. FlattenRun(S, p, f)
    BY <2>3, <2>4, <2>5, <2>6 DEF FlattenRun, n, empty
  <2> QED BY <2>7
<1> QED BY <1>5, <1>6

\* Sequences of the same lengths, joined.
LEMMA FlattenAlike ==
  ASSUME NEW S, NEW p, NEW q, Len(p) \in Nat, Len(q) = Len(p),
         \A i \in 1..Len(p) : p[i] \in Seq(S) /\ q[i] \in Seq(S) /\ Len(p[i]) = Len(q[i]),
         Len(p) = 0 => p = <<>> /\ q = <<>>
  PROVE  Len(FlattenSeq(p)) = Len(FlattenSeq(q))
<1> DEFINE n == Len(p)
<1>1. PICK f : FlattenRun(S, p, f)
  BY FlattenRuns
<1>2. PICK g : FlattenRun(S, q, g)
  BY FlattenRuns
<1> DEFINE B == {i \in 0..n : Len(f[i]) = Len(g[i])}
<1>3. 0 \in B
  BY <1>1, <1>2 DEF FlattenRun
<1>4. ASSUME NEW i \in 1..n, i - 1 \in B PROVE i \in B
  <2>1. i \in 0..n /\ i - 1 \in 0..n
    OBVIOUS
  <2>2. f[i - 1] \in Seq(S) /\ g[i - 1] \in Seq(S) /\ p[i] \in Seq(S) /\ q[i] \in Seq(S)
    BY <1>1, <1>2, <2>1 DEF FlattenRun
  <2>3. f[i] = f[i - 1] \o p[i] /\ g[i] = g[i - 1] \o q[i]
    BY <1>1, <1>2 DEF FlattenRun
  <2>4. Len(f[i]) = Len(f[i - 1]) + Len(p[i])
    BY <2>2, <2>3, ConcatProperties
  <2>5. Len(g[i]) = Len(g[i - 1]) + Len(q[i])
    BY <2>2, <2>3, ConcatProperties
  <2> QED BY <1>4, <2>1, <2>4, <2>5
<1> HIDE DEF B
<1>5. \A i \in 0..n : i \in B
  BY <1>3, <1>4, CountsUp
<1>6. n \in B
  BY <1>5
<1> QED BY <1>1, <1>2, <1>6 DEF FlattenRun, B

ItemSize(o, kind) == IF kind = "byte" /\ o.form = "quoted" THEN o.size ELSE WidthOf(kind)

LEMMA DataItemShaped ==
  ASSUME NEW c, NEW o \in ReadType, NEW kind \in {"byte", "word"}
  PROVE  DataItem(c, o, kind) \in Shaped(ItemSize(o, kind))
<1>1. o.size \in Nat /\ o.value.value \in Int
  BY ReadTypeIs
<1>2. CASE kind = "byte" /\ o.form = "quoted"
  <2>1. Data(o.size) \in Seq(BytesType) /\ Len(Data(o.size)) = o.size
    <3>1. [kind |-> "data", value |-> 0] \in BytesType
      BY DEF BytesType
    <3> QED BY <1>1, <3>1 DEF Data
  <2> QED BY <1>2, <2>1, EmitShaped DEF DataItem, ItemSize
<1>3. CASE ~(kind = "byte" /\ o.form = "quoted")
  <2>1. With(c, 0, kind, o.value) \in Shaped(0 + WidthOf(kind))
    BY <1>1, WithShaped DEF FieldKinds
  <2>2. 0 + WidthOf(kind) = WidthOf(kind)
    BY DEF WidthOf
  <2> QED BY <1>3, <2>1, <2>2 DEF DataItem, ItemSize
<1> QED BY <1>2, <1>3

\* The bytes of the operands of a line.
DataParts(c, q, kind) ==
  [i \in DOMAIN q.operands |-> DataItem(c, q.operands[i], kind).bytes]

LEMMA DataLineForm ==
  ASSUME NEW c, NEW q, IsReadLine(c, q), NEW kind \in {"byte", "word"}
  PROVE  /\ Len(DataParts(c, q, kind)) = Len(q.operands) /\ Len(q.operands) \in Nat
         /\ Len(q.operands) = 0 => DataParts(c, q, kind) = <<>>
         /\ \A i \in 1..Len(q.operands) : DataParts(c, q, kind)[i] \in Seq(BytesType)
         /\ DataLine(c, q, kind).ok =>
              /\ DataLine(c, q, kind) = Emit(FlattenSeq(DataParts(c, q, kind)))
              /\ \A i \in 1..Len(q.operands) :
                   Len(DataParts(c, q, kind)[i]) = ItemSize(q.operands[i], kind)
         /\ ~DataLine(c, q, kind).ok => DataLine(c, q, kind) = Refuse
<1> DEFINE n == Len(q.operands)
           items == [i \in DOMAIN q.operands |-> DataItem(c, q.operands[i], kind)]
           p == DataParts(c, q, kind)
<1>1. q.operands \in Seq(ReadType) /\ n \in Nat /\ DOMAIN q.operands = 1..n
      /\ \A i \in 1..n : q.operands[i] \in ReadType
  BY LenProperties, ElementOfSeq DEF IsReadLine
<1>2. \A i \in 1..n : items[i] \in Shaped(ItemSize(q.operands[i], kind))
  BY <1>1, DataItemShaped
<1>3. [i \in DOMAIN items |-> items[i].bytes] = p
  BY DEF DataParts
<1>4. DataLine(c, q, kind) =
        IF q.operands = <<>> \/ (\E i \in DOMAIN items : ~items[i].ok)
           \/ Len(FlattenSeq([i \in DOMAIN items |-> items[i].bytes])) > LineBytes
        THEN Refuse ELSE Emit(FlattenSeq([i \in DOMAIN items |-> items[i].bytes]))
  BY DEF DataLine
<1>5. DataLine(c, q, kind) =
        IF q.operands = <<>> \/ (\E i \in 1..n : ~items[i].ok) \/ Len(FlattenSeq(p)) > LineBytes
        THEN Refuse ELSE Emit(FlattenSeq(p))
  BY <1>1, <1>3, <1>4
<1>6. p = [i \in 1..n |-> items[i].bytes]
  BY <1>1 DEF DataParts
<1>7. \A i \in 1..n : items[i].bytes \in Seq(BytesType)
                      /\ (items[i].ok => Len(items[i].bytes) = ItemSize(q.operands[i], kind))
  BY <1>2 DEF Shaped
<1>8. ~Refuse.ok /\ \A x : Emit(x).ok
  BY DEF Refuse, Emit
<1>9. n = 0 => p = <<>>
  BY <1>6
<1> HIDE DEF p, items
<1>10. Len(p) = n /\ \A i \in 1..n : p[i] = items[i].bytes
  BY <1>1, <1>6
<1>11. CASE q.operands = <<>> \/ (\E i \in 1..n : ~items[i].ok) \/ Len(FlattenSeq(p)) > LineBytes
  <2>1. DataLine(c, q, kind) = Refuse /\ ~DataLine(c, q, kind).ok
    BY <1>5, <1>8, <1>11
  <2> QED BY <1>1, <1>7, <1>9, <1>10, <2>1 DEF p
<1>12. CASE ~(q.operands = <<>> \/ (\E i \in 1..n : ~items[i].ok) \/ Len(FlattenSeq(p)) > LineBytes)
  <2>1. DataLine(c, q, kind) = Emit(FlattenSeq(p)) /\ DataLine(c, q, kind).ok
    BY <1>5, <1>8, <1>12
  <2> QED BY <1>1, <1>7, <1>9, <1>10, <1>12, <2>1 DEF p
<1> QED BY <1>11, <1>12

LEMMA RefuseMade == Refuse \in MadeType
BY DEF Refuse, MadeType

\* DB and DW make bytes.
LEMMA DataLineIs ==
  ASSUME NEW c, NEW q, IsReadLine(c, q), NEW kind \in {"byte", "word"}
  PROVE  DataLine(c, q, kind) \in MadeType
<1> DEFINE p == DataParts(c, q, kind)
<1>1. CASE ~DataLine(c, q, kind).ok
  BY <1>1, DataLineForm, RefuseMade
<1>2. CASE DataLine(c, q, kind).ok
  <2>1. /\ DataLine(c, q, kind) = Emit(FlattenSeq(p)) /\ Len(p) \in Nat
        /\ (Len(p) = 0 => p = <<>>) /\ \A i \in 1..Len(p) : p[i] \in Seq(BytesType)
    BY <1>2, DataLineForm
  <2> HIDE DEF p
  <2>2. PICK f : FlattenRun(BytesType, p, f)
    BY <2>1, FlattenRuns
  <2>3. FlattenSeq(p) \in Seq(BytesType)
    BY <2>1, <2>2 DEF FlattenRun
  <2> QED BY <2>1, <2>3 DEF Emit, MadeType
<1> QED BY <1>1, <1>2

\* Two readings of one DB or DW have one size.
LEMMA DataLineAlike ==
  ASSUME NEW c, NEW q, IsReadLine(c, q), NEW d, NEW k, IsReadLine(d, k),
         Len(q.operands) = Len(k.operands),
         \A i \in 1..Len(q.operands) : SameShape(q.operands[i], k.operands[i]),
         NEW kind \in {"byte", "word"}, DataLine(c, q, kind).ok, DataLine(d, k, kind).ok
  PROVE  Len(DataLine(c, q, kind).bytes) = Len(DataLine(d, k, kind).bytes)
<1> DEFINE p == DataParts(c, q, kind)
           r == DataParts(d, k, kind)
           n == Len(q.operands)
<1>1. /\ DataLine(c, q, kind) = Emit(FlattenSeq(p)) /\ n \in Nat /\ Len(p) = n
      /\ (n = 0 => p = <<>>) /\ \A i \in 1..n : p[i] \in Seq(BytesType)
      /\ \A i \in 1..n : Len(p[i]) = ItemSize(q.operands[i], kind)
  BY DataLineForm
<1>2. /\ DataLine(d, k, kind) = Emit(FlattenSeq(r)) /\ Len(r) = n
      /\ (n = 0 => r = <<>>) /\ \A i \in 1..n : r[i] \in Seq(BytesType)
      /\ \A i \in 1..n : Len(r[i]) = ItemSize(k.operands[i], kind)
  <2> DEFINE m == Len(k.operands)
  <2>1. /\ DataLine(d, k, kind) = Emit(FlattenSeq(r)) /\ Len(r) = m
        /\ (m = 0 => r = <<>>) /\ \A i \in 1..m : r[i] \in Seq(BytesType)
        /\ \A i \in 1..m : Len(r[i]) = ItemSize(k.operands[i], kind)
    BY DataLineForm
  <2>2. m = n
    OBVIOUS
  <2> HIDE DEF m, n, r
  <2> QED BY <2>1, <2>2
<1>3. \A i \in 1..n : ItemSize(q.operands[i], kind) = ItemSize(k.operands[i], kind)
  BY DEF ItemSize, SameShape
<1> HIDE DEF p, r
<1> HIDE DEF n
<1>4. \A i \in 1..Len(p) : p[i] \in Seq(BytesType) /\ r[i] \in Seq(BytesType) /\ Len(p[i]) = Len(r[i])
  BY <1>1, <1>2, <1>3
<1>5. Len(FlattenSeq(p)) = Len(FlattenSeq(r))
  <2>1. Len(p) \in Nat /\ Len(r) = Len(p) /\ (Len(p) = 0 => p = <<>> /\ r = <<>>)
    BY <1>1, <1>2
  <2> QED BY <1>4, <2>1, FlattenAlike
<1> QED BY <1>1, <1>2, <1>5 DEF Emit
-----------------------------------------------------------------------------
(* A line after its labels.                                                *)

\* What a line makes of the context and of memory, made or refused.
LineDone(c, r, w) ==
  /\ w.ok \in BOOLEAN /\ GoodContext(w.ctx) /\ w.ram \in RamType
  /\ w.ctx.pass = c.pass /\ w.ctx.target = c.target /\ Grown(c, w.ctx)
  /\ c.pass = 2 => w.ctx.labels = c.labels /\ w.ctx.constants = c.constants
  /\ c.target # "machine" => w.ram = r
  /\ c.target # "tape" => w.ctx.output = c.output

\* The bytes of a line that is taken; ORG alone moves without any.
Lays(c, w, op) ==
  \E x \in Seq(BytesType) :
    /\ w.ctx.total = c.total + Len(x)
    /\ Begun(c) => Appends(c, w.ctx, x)
    /\ x = <<>> /\ op # "ORG" => w.ctx.address = c.address

Line(c, r, w, op) ==
  /\ LineDone(c, r, w) /\ w.ctx.labels = c.labels
  /\ w.ok => Lays(c, w, op)
  /\ ~w.ok /\ op # "DS" => w.ram = r

LEMMA NoBytesAppend ==
  ASSUME NEW c \in Context, NEW d, d.output = c.output
  PROVE  Begun(c) => Appends(c, d, <<>>)
<1> DEFINE x == <<>>
<1>1. c.output.bytes \in Seq(BytesType)
  BY ContextIs
<1>2. c.output.bytes \o x = c.output.bytes /\ x = <<>>
  BY <1>1, ConcatEmptySeq
<1> HIDE DEF x
<1>3. Begun(c) => Appends(c, d, x)
  BY <1>2 DEF Appends, Begun
<1> QED BY <1>3 DEF x

LEMMA StillLine ==
  ASSUME NEW c, GoodContext(c), NEW r \in RamType, NEW op
  PROVE  Line(c, r, Done(c, r), op) /\ Line(c, r, Failed(c, r), op)
<1>1. LineDone(c, r, Done(c, r)) /\ LineDone(c, r, Failed(c, r))
  BY GrownRefl DEF LineDone, Done, Failed
<1> DEFINE x == <<>>
<1>2. x \in Seq(BytesType) /\ Len(x) = 0
  OBVIOUS
<1>3. Begun(c) => Appends(c, c, x)
  BY NoBytesAppend DEF GoodContext
<1>4. c.total = c.total + 0
  BY ContextIs DEF GoodContext
<1> HIDE DEF x
<1>5. Lays(c, Done(c, r), op)
  BY <1>2, <1>3, <1>4 DEF Lays, Done
<1> QED BY <1>1, <1>5 DEF Line, Done, Failed

LEMMA GaveLine ==
  ASSUME NEW c, NEW r, NEW w, NEW x \in Seq(BytesType), Gave(c, r, w, x), NEW op
  PROVE  Line(c, r, w, op)
<1>1. Outcome(c, r, w)
  BY DEF Gave
<1>2. LineDone(c, r, w) /\ w.ctx.labels = c.labels
  BY <1>1 DEF Outcome, SameProgram, LineDone, Grown, GrownTable
<1>3. w.ok => Lays(c, w, op)
  BY DEF Gave, Lays
<1>4. ~w.ok => w.ram = r
  BY DEF Gave
<1> QED BY <1>2, <1>3, <1>4 DEF Line

LEMMA WrittenLine ==
  ASSUME NEW c, GoodContext(c), NEW r \in RamType, NEW made \in MadeType, NEW op
  PROVE  Line(c, r, Written(c, r, made), op)
<1>1. Gave(c, r, Written(c, r, made), made.bytes) /\ made.bytes \in Seq(BytesType)
  BY WrittenIs DEF MadeType
<1> QED BY <1>1, GaveLine

LEMMA MovedTo ==
  ASSUME NEW c \in Context, NEW a, NEW b, NEW e, e = [c EXCEPT !.address = a, !.exhausted = b]
  PROVE  e = [pass |-> c.pass, address |-> a, exhausted |-> b, target |-> c.target,
              labels |-> c.labels, constants |-> c.constants, total |-> c.total, output |-> c.output]
<1>1. c = [pass |-> c.pass, address |-> c.address, exhausted |-> c.exhausted, target |-> c.target,
           labels |-> c.labels, constants |-> c.constants, total |-> c.total, output |-> c.output]
  BY ContextParts
<1> QED BY <1>1, Zenon

\* ORG, as it takes a line.
OrgGoes(q) == Count(q) = 1 /\ Lhs(q).value.ok /\ Lhs(q).value.resolved /\ Lhs(q).value.value \in Places

\* ORG moves the address and writes nothing.
LEMMA OrgIs ==
  ASSUME NEW c, GoodContext(c), NEW r \in RamType, NEW q
  PROVE  /\ Line(c, r, Org(c, r, q), "ORG")
         /\ Org(c, r, q).ok => /\ OrgGoes(q) /\ Org(c, r, q).ctx.address = Lhs(q).value.value
                               /\ Org(c, r, q).ctx.exhausted = FALSE
<1> DEFINE v == Lhs(q).value
           w == Org(c, r, q)
           d == [c EXCEPT !.address = v.value, !.exhausted = FALSE]
<1>1. CASE ~OrgGoes(q)
  <2>1. w = Failed(c, r)
    BY <1>1 DEF Org, OrgGoes
  <2> QED BY <2>1, StillLine, DoneIs
<1>2. CASE OrgGoes(q)
  <2>1. w = Done(d, r) /\ v.value \in Places
    BY <1>2 DEF Org, OrgGoes
  <2> DEFINE a == v.value
             b == FALSE
  <2>2. c \in Context
    BY DEF GoodContext
  <2>3. b \in BOOLEAN
    OBVIOUS
  <2> HIDE DEF a, b
  <2>4. d = [c EXCEPT !.address = a, !.exhausted = b]
    BY DEF a, b
  <2> HIDE DEF d, w, v
  <2>5. d = [pass |-> c.pass, address |-> a, exhausted |-> b, target |-> c.target,
             labels |-> c.labels, constants |-> c.constants, total |-> c.total, output |-> c.output]
    BY <2>2, <2>4, MovedTo
  <2>6. d \in Context
    BY <2>1, <2>2, <2>3, <2>5, ContextIs DEF Context, a
  <2>7. /\ d.pass = c.pass /\ d.address = a /\ d.exhausted = b /\ d.target = c.target
        /\ d.labels = c.labels /\ d.constants = c.constants /\ d.total = c.total
        /\ d.output = c.output
    BY <2>5
  <2>8. GoodContext(d)
    BY <2>6, <2>7 DEF GoodContext
  <2>9. w.ok /\ w.ctx = d /\ w.ram = r /\ w.ok \in BOOLEAN
    BY <2>1 DEF Done
  <2>10. LineDone(c, r, w) /\ w.ctx.labels = c.labels
    BY <2>7, <2>8, <2>9 DEF LineDone, Grown, GrownTable
  <2>11. Lays(c, w, "ORG")
    <3> DEFINE x == <<>>
    <3>1. x \in Seq(BytesType) /\ Len(x) = 0
      OBVIOUS
    <3>2. Begun(c) => Appends(c, d, x)
      BY <2>2, <2>7, NoBytesAppend
    <3>3. c.total = c.total + 0
      BY <2>2, ContextIs
    <3> HIDE DEF x
    <3> QED BY <2>7, <2>9, <3>1, <3>2, <3>3 DEF Lays
  <2> QED BY <1>2, <2>7, <2>9, <2>10, <2>11 DEF Line, a, b, v, w
<1> QED BY <1>1, <1>2

\* DEFS, as it comes to its fill.
FillOf(q) == IF Count(q) = 2 THEN Rhs(q).value ELSE Known(0)
DefsGoes(c, q) ==
  /\ Count(q) \in 1..2 /\ Lhs(q).value.ok /\ Lhs(q).value.resolved /\ Lhs(q).value.value >= 0
  /\ InField(c, "byte", FillOf(q))
DefsFill(c, r, q) == FillBytes(c, r, Lhs(q).value.value, FillOf(q).value)

\* DEFS puts down what its count says.
LEMMA DefsIs ==
  ASSUME NEW c, GoodContext(c), NEW r \in RamType, NEW q, IsReadLine(c, q)
  PROVE  /\ Line(c, r, Defs(c, r, q), "DS")
         /\ DefsGoes(c, q) => /\ Defs(c, r, q).ok = DefsFill(c, r, q).ok
                              /\ Lhs(q).value.value \in Nat /\ FillOf(q).value \in Int
                              /\ Defs(c, r, q).ctx.address = DefsFill(c, r, q).ctx.address
                              /\ Defs(c, r, q).ctx.exhausted = DefsFill(c, r, q).ctx.exhausted
         /\ ~DefsGoes(c, q) => ~Defs(c, r, q).ok /\ Defs(c, r, q).ram = r
<1> DEFINE n == Lhs(q).value.value
           v == FillOf(q).value
           w == Defs(c, r, q)
           u == DefsFill(c, r, q)
<1>1. CASE ~DefsGoes(c, q)
  <2>1. w = Failed(c, r)
    BY <1>1 DEF Defs, DefsGoes, FillOf
  <2> QED BY <1>1, <2>1, StillLine, DoneIs
<1>2. CASE DefsGoes(c, q)
  <2>1. n \in Nat /\ v \in Int
    <3>1. IsRead(c, Lhs(q)) /\ IsRead(c, Rhs(q))
      BY OperandsRead
    <3>2. Lhs(q).value.value \in Int /\ Rhs(q).value.value \in Int
      BY <3>1, ReadTypeIs DEF IsRead
    <3>3. Known(0).value = 0
      BY DEF Known
    <3> QED BY <1>2, <3>2, <3>3 DEF DefsGoes, FillOf
  <2>2. w = CountedBytes(u, n)
    BY <1>2 DEF Defs, DefsGoes, FillOf, DefsFill
  <2>3. Filled(c, r, u, n)
    BY <2>1, FillIs DEF DefsFill
  <2> HIDE DEF n, v, w, u
  <2>4. Outcome(c, r, u) /\ u.ctx.total = c.total /\ (u.ok => Between(c, u.ctx, n))
    BY <2>3 DEF Filled
  <2>5. /\ Outcome(c, r, w) /\ w.ok = u.ok /\ w.ctx.address = u.ctx.address
        /\ w.ctx.exhausted = u.ctx.exhausted /\ w.ctx.output = u.ctx.output
        /\ (u.ok => w.ctx.total = u.ctx.total + n)
    BY <2>1, <2>2, <2>4, CountedIs
  <2>6. LineDone(c, r, w) /\ w.ctx.labels = c.labels
    BY <2>5 DEF Outcome, SameProgram, LineDone, Grown, GrownTable
  <2>7. ASSUME w.ok PROVE Lays(c, w, "DS")
    <3>1. PICK x \in Seq(BytesType) :
            Len(x) = n /\ (Begun(c) => Appends(c, u.ctx, x)) /\ (x = <<>> => u.ctx = c)
      BY <2>4, <2>5, <2>7 DEF Between
    <3>2. Begun(c) => Appends(c, w.ctx, x)
      BY <2>5, <3>1 DEF Appends, Begun
    <3>3. x = <<>> => w.ctx.address = c.address
      BY <2>5, <3>1
    <3>4. w.ctx.total = c.total + Len(x)
      BY <2>4, <2>5, <2>7, <3>1
    <3> QED BY <3>2, <3>3, <3>4 DEF Lays
  <2>8. Line(c, r, w, "DS")
    BY <2>6, <2>7 DEF Line
  <2> QED BY <1>2, <2>1, <2>5, <2>8 DEF n, v, w, u
<1> QED BY <1>1, <1>2
-----------------------------------------------------------------------------
(* The directive or instruction of a line.                                 *)

SizeType == Nat \cup {Missing}
BinaryBytes(q) == IF Count(q) = 1 /\ binSize # Missing THEN Emit(Data(binSize)) ELSE Refuse

\* The directives, in the order of app_assemble_line.
LEMMA DirectiveIs ==
  ASSUME NEW c, NEW r, NEW q
  PROVE  Directive(c, r, q) =
           IF q.op = "" THEN Done(c, r)
           ELSE IF MissingOperand(q) THEN Failed(c, r)
           ELSE IF q.op = "EQU" THEN AfterEqu(Equ(c, q), r)
           ELSE IF q.op = "ORG" THEN Org(c, r, q)
           ELSE IF q.op = "DB" THEN Written(c, r, DataLine(c, q, "byte"))
           ELSE IF q.op = "DW" THEN Written(c, r, DataLine(c, q, "word"))
           ELSE IF q.op = "DS" THEN Defs(c, r, q)
           ELSE IF q.op = "INCBIN" THEN Written(c, r, BinaryBytes(q))
           ELSE Written(c, r, Encode(c, q))
<1> DEFINE g == MissingOperand(q)
<1>1. Directive(c, r, q) =
        CASE q.op = "" -> Done(c, r)
          [] q.op # "" /\ g -> Failed(c, r)
          [] q.op = "EQU" /\ ~g -> AfterEqu(Equ(c, q), r)
          [] q.op = "ORG" /\ ~g -> Org(c, r, q)
          [] q.op = "DB" /\ ~g -> Written(c, r, DataLine(c, q, "byte"))
          [] q.op = "DW" /\ ~g -> Written(c, r, DataLine(c, q, "word"))
          [] q.op = "DS" /\ ~g -> Defs(c, r, q)
          [] q.op = "INCBIN" /\ ~g -> Incbin(c, r, q)
          [] OTHER -> Written(c, r, Encode(c, q))
  BY DEF Directive
<1>2. Incbin(c, r, q) = Written(c, r, BinaryBytes(q))
  BY DEF Incbin, BinaryBytes
<1> HIDE DEF g
<1>3. Directive(c, r, q) =
           IF q.op = "" THEN Done(c, r)
           ELSE IF g THEN Failed(c, r)
           ELSE IF q.op = "EQU" THEN AfterEqu(Equ(c, q), r)
           ELSE IF q.op = "ORG" THEN Org(c, r, q)
           ELSE IF q.op = "DB" THEN Written(c, r, DataLine(c, q, "byte"))
           ELSE IF q.op = "DW" THEN Written(c, r, DataLine(c, q, "word"))
           ELSE IF q.op = "DS" THEN Defs(c, r, q)
           ELSE IF q.op = "INCBIN" THEN Incbin(c, r, q)
           ELSE Written(c, r, Encode(c, q))
  BY <1>1
<1> QED BY <1>2, <1>3 DEF g

\* INCBIN makes as many bytes as its file has.
LEMMA BinaryIs ==
  ASSUME NEW q, binSize \in SizeType
  PROVE  BinaryBytes(q) \in MadeType /\ (BinaryBytes(q).ok => Len(BinaryBytes(q).bytes) = binSize)
<1>1. CASE Count(q) = 1 /\ binSize # Missing
  <2>1. binSize \in Nat
    BY <1>1 DEF SizeType
  <2>2. Data(binSize) \in Seq(BytesType) /\ Len(Data(binSize)) = binSize
    <3>1. [kind |-> "data", value |-> 0] \in BytesType
      BY DEF BytesType
    <3> QED BY <2>1, <3>1 DEF Data
  <2>3. BinaryBytes(q) = Emit(Data(binSize))
    BY <1>1 DEF BinaryBytes
  <2> QED BY <2>2, <2>3 DEF Emit, MadeType
<1>2. CASE ~(Count(q) = 1 /\ binSize # Missing)
  <2>1. BinaryBytes(q) = Refuse
    BY <1>2 DEF BinaryBytes
  <2> QED BY <2>1, RefuseMade DEF Refuse
<1> QED BY <1>1, <1>2

LEMMA EncodeMade ==
  ASSUME NEW c \in Context, NEW q, IsReadLine(c, q)
  PROVE  Encode(c, q) \in MadeType
BY EncodeShaped DEF Shaped, MadeType

LEMMA EquLine ==
  ASSUME NEW c, GoodContext(c), NEW r \in RamType, NEW q, IsReadLine(c, q), q.name \in STRING
  PROVE  /\ Line(c, r, AfterEqu(Equ(c, q), r), "EQU") /\ SameBut(c, AfterEqu(Equ(c, q), r).ctx)
         /\ AfterEqu(Equ(c, q), r).ram = r
<1> DEFINE x == Equ(c, q)
           w == AfterEqu(x, r)
<1>1. Defined(c, x) /\ x.ctx.labels = c.labels
  BY EquIs
<1>2. w.ok = x.ok /\ w.ctx = x.ctx /\ w.ram = r
  BY DEF AfterEqu
<1> HIDE DEF w, x
<1>3. SameBut(c, w.ctx)
  BY <1>1, <1>2 DEF Defined
<1>4. LineDone(c, r, w) /\ w.ctx.labels = c.labels
  BY <1>1, <1>2 DEF Defined, LineDone, SameBut
<1>5. Lays(c, w, "EQU")
  <2> DEFINE y == <<>>
  <2>1. y \in Seq(BytesType) /\ Len(y) = 0
    OBVIOUS
  <2>2. Begun(c) => Appends(c, w.ctx, y)
    BY <1>3, NoBytesAppend DEF SameBut, GoodContext
  <2>3. w.ctx.total = c.total + 0 /\ w.ctx.address = c.address
    BY <1>3, ContextIs DEF SameBut, GoodContext
  <2> HIDE DEF y
  <2> QED BY <2>1, <2>2, <2>3 DEF Lays
<1>6. Line(c, r, w, "EQU")
  BY <1>2, <1>4, <1>5 DEF Line
<1> QED BY <1>2, <1>3, <1>6 DEF w, x

\* What a line does to context and memory, whatever directive it is.
LEMMA DirectiveLine ==
  ASSUME NEW c, GoodContext(c), NEW r \in RamType, NEW q, IsReadLine(c, q), q.name \in STRING,
         binSize \in SizeType
  PROVE  Line(c, r, Directive(c, r, q), q.op)
<1>1. CASE q.op = "" \/ MissingOperand(q)
  BY <1>1, DirectiveIs, StillLine
<1>2. CASE q.op = "EQU" /\ ~MissingOperand(q)
  <2>1. Directive(c, r, q) = AfterEqu(Equ(c, q), r)
    BY <1>2, DirectiveIs
  <2> QED BY <1>2, <2>1, EquLine
<1>3. CASE q.op = "ORG" /\ ~MissingOperand(q)
  <2>1. Directive(c, r, q) = Org(c, r, q)
    BY <1>3, DirectiveIs
  <2> QED BY <1>3, <2>1, OrgIs
<1>4. CASE q.op = "DS" /\ ~MissingOperand(q)
  <2>1. Directive(c, r, q) = Defs(c, r, q)
    BY <1>4, DirectiveIs
  <2> QED BY <1>4, <2>1, DefsIs
<1>5. CASE q.op \notin {"", "EQU", "ORG", "DS"} /\ ~MissingOperand(q)
  <2>1. \E made \in MadeType : Directive(c, r, q) = Written(c, r, made)
    <3>1. /\ DataLine(c, q, "byte") \in MadeType /\ DataLine(c, q, "word") \in MadeType
          /\ BinaryBytes(q) \in MadeType /\ Encode(c, q) \in MadeType
      BY DataLineIs, BinaryIs, EncodeMade DEF GoodContext
    <3>2. \/ Directive(c, r, q) = Written(c, r, DataLine(c, q, "byte"))
          \/ Directive(c, r, q) = Written(c, r, DataLine(c, q, "word"))
          \/ Directive(c, r, q) = Written(c, r, BinaryBytes(q))
          \/ Directive(c, r, q) = Written(c, r, Encode(c, q))
      BY <1>5, DirectiveIs
    <3> QED BY <3>1, <3>2
  <2> QED BY <2>1, WrittenLine
<1> QED BY <1>1, <1>2, <1>3, <1>4, <1>5

-----------------------------------------------------------------------------
(* The bytes of a jump.                                                    *)

JumpsTo(q, name) == q.op \in {"JP", "JR"} /\ Count(q) = 1 /\ Is(Lhs(q), name)

\* A jump to a label takes the form with an address or a displacement.
LEMMA JumpForms ==
  ASSUME NEW c, NEW q, NEW name, JumpsTo(q, name)
  PROVE  /\ q.op = "JP" => Encode(c, q) = With(c, 1, "address", Lhs(q).value)
         /\ q.op = "JR" => Encode(c, q) = With(c, 1, "relative", Relative(c, Lhs(q)))
<1>1. /\ Lhs(q).form = "plain" /\ Count(q) = 1 /\ \A n : ~Within(Lhs(q), n)
      /\ ~Indexed(Lhs(q))
  BY DEF JumpsTo, Is, Within, Indexed
<1>2. q.op = "JP" \/ q.op = "JR"
  BY DEF JumpsTo
<1>3. Encode(c, q) = Z80(c, q)
  <2>1. q.op \notin DOMAIN Z80nImplied
    BY <1>2 DEF Z80nImplied
  <2> QED BY <1>1, <1>2, <2>1, EncodeIs
<1>4. q.op \notin DOMAIN Implied
  BY <1>2 DEF Implied
<1>5. CASE q.op = "JP"
  <2>1. Z80(c, q) = JpForm(c, q)
    BY <1>4, <1>5, Z80Is
  <2>2. JpForm(c, q) = With(c, 1, "address", Lhs(q).value)
    BY <1>1, JpIs
  <2> QED BY <1>3, <1>5, <2>1, <2>2
<1>6. CASE q.op = "JR"
  <2>1. Z80(c, q) = JrForm(c, q)
    BY <1>4, <1>6, Z80Is
  <2>2. JrForm(c, q) = With(c, 1, "relative", Relative(c, Lhs(q)))
    <3> DEFINE f == With(c, 1, "relative", Relative(c, Lhs(q)))
               g == With(c, 1, "relative", Relative(c, Rhs(q)))
               g1 == Count(q) = 1
               g2 == Count(q) = 2 /\ OneOf(Lhs(q), ShortConditions)
    <3>1. JrForm(c, q) = FirstOf(<<Row(g1, f), Row(g2, g)>>)
      BY DEF JrForm
    <3> HIDE DEF g1, g2, f, g
    <3>2. JrForm(c, q) = IF g1 THEN f ELSE IF g2 THEN g ELSE Refuse
      BY <3>1, Rows2
    <3>3. g1
      BY <1>1 DEF g1
    <3> QED BY <3>2, <3>3 DEF f
  <2> QED BY <1>3, <1>6, <2>1, <2>2
<1> QED BY <1>5, <1>6

\* Its bytes hold the label's address, or the distance from the jump's end to
\* it.
LEMMA JumpBytes ==
  ASSUME NEW c, GoodContext(c), NEW l \in LineType, NEW q, q = ReadOperands(c, l), NEW name,
         name \in DOMAIN c.labels, JumpsTo(l, name), Encode(c, q).ok
  PROVE  /\ Len(Encode(c, q).bytes) >= 2
         /\ l.op = "JP" => Encode(c, q).bytes[2] = Low(c.labels[name])
         /\ l.op = "JR" => Encode(c, q).bytes[2].value = c.labels[name] - (c.address + 2)
<1>1. c \in Context /\ name \in STRING /\ name \in DOMAIN c.labels \ DOMAIN c.constants
      /\ c.labels[name] \in Int /\ c.address \in Int
  BY ContextIs, TableIs, ScaleIs DEF GoodContext
<1>2. IsReadLine(c, q) /\ SameLine(q, l)
      /\ \A i \in DOMAIN l.operands : q.operands[i] = Read(c, l.operands[i], ParseValue(c, l.operands[i].e))
  BY <1>1, ReadOperandsIs
<1>3. Lhs(l) = l.operands[1] /\ Lhs(q) = q.operands[1] /\ 1 \in DOMAIN l.operands
      /\ l.operands[1] \in OperandType
  <2>1. DOMAIN l.operands = 1..Len(l.operands) /\ Len(l.operands) = 1
        /\ DOMAIN q.operands = DOMAIN l.operands /\ \A i \in 1..Len(l.operands) : l.operands[i] \in OperandType
    BY <1>2, LineIs DEF JumpsTo, Count, SameLine
  <2> QED BY <2>1 DEF Lhs, OperandOf
<1>4. Lhs(q).value = Known(c.labels[name])
  <2>1. Lhs(l).form = "plain" /\ Lhs(l).e = Sym(name)
    BY DEF JumpsTo, Is
  <2>2. Lhs(q) = Read(c, l.operands[1], ParseValue(c, l.operands[1].e))
    BY <1>2, <1>3
  <2>3. Lhs(q).value = ParseValue(c, l.operands[1].e)
    BY <1>1, <1>3, <2>1, <2>2, ReadIs
  <2> QED BY <1>1, <1>3, <2>1, <2>3, ParseSym
<1>5. JumpsTo(q, name) /\ q.op = l.op
  BY <1>2, OperandsSame DEF JumpsTo, SameShape, Is
<1>6. Codes(1) = <<[kind |-> "code", value |-> 0]>>
  BY DEF Codes
<1>7. CASE l.op = "JP"
  <2> DEFINE v == Known(c.labels[name])
  <2>1. Encode(c, q) = With(c, 1, "address", v)
    BY <1>4, <1>5, <1>7, JumpForms
  <2>2. v.value = c.labels[name]
    BY DEF Known
  <2>3. Encode(c, q) = Emit(Codes(1) \o Field("address", v.value))
    BY <2>1 DEF With, Refuse
  <2>4. Encode(c, q).bytes = <<[kind |-> "code", value |-> 0]>> \o <<Low(v.value), High(v.value)>>
    <3>1. Field("address", v.value) = <<Low(v.value), High(v.value)>>
      BY DEF Field
    <3> HIDE DEF v
    <3>2. Encode(c, q).bytes = Codes(1) \o Field("address", v.value)
      BY <2>3 DEF Emit
    <3> QED BY <1>6, <3>1, <3>2
  <2> QED BY <1>7, <2>2, <2>4
<1>8. CASE l.op = "JR"
  <2> DEFINE v == Relative(c, Lhs(q))
  <2>1. Encode(c, q) = With(c, 1, "relative", v)
    BY <1>5, <1>8, JumpForms
  <2>2. v.value = c.labels[name] - (c.address + 2)
    <3>1. v.value = Lhs(q).value.value - (c.address + 2)
      BY <1>1, <1>2, OperandsRead, RelativeIs
    <3>2. Lhs(q).value.value = c.labels[name]
      BY <1>4 DEF Known
    <3> QED BY <3>1, <3>2
  <2> HIDE DEF v
  <2>3. Encode(c, q) = Emit(Codes(1) \o Field("relative", v.value))
    BY <2>1 DEF With, Refuse
  <2>4. Encode(c, q).bytes = <<[kind |-> "code", value |-> 0]>> \o <<[kind |-> "relative", value |-> v.value]>>
    BY <1>6, <2>3 DEF Emit, Field
  <2> QED BY <1>8, <2>2, <2>4
<1> QED BY <1>7, <1>8 DEF JumpsTo
-----------------------------------------------------------------------------
(* A whole line.                                                           *)

Kept(c, r, l, w) ==
  /\ LineDone(c, r, w)
  /\ DOMAIN w.ctx.labels \subseteq DOMAIN c.labels \cup NamesOf(l.labels)
  /\ ~w.ok /\ l.op # "DS" => w.ram = r
  /\ w.ok => /\ Lays(c, w, l.op)
             /\ \A n \in NamesOf(l.labels) : /\ n \in DOMAIN w.ctx.labels
                                             /\ w.ctx.labels[n] = c.address

\* A line keeps what holds of a context, done or refused.
LEMMA LineKept ==
  ASSUME NEW c, GoodContext(c), NEW r \in RamType, NEW l \in LineType, binSize \in SizeType
  PROVE  Kept(c, r, l, AssembleLine(c, r, l))
<1> DEFINE x == DefineLabels(c, l.labels)
           q == ReadOperands(x.ctx, l)
           v == Directive(x.ctx, r, q)
           w == AssembleLine(c, r, l)
<1>1. l.labels \in Seq(STRING) /\ l.name \in STRING
  BY LineIs
<1>2. /\ Defined(c, x) /\ DOMAIN x.ctx.labels \subseteq DOMAIN c.labels \cup NamesOf(l.labels)
      /\ x.ok => \A n \in NamesOf(l.labels) : /\ n \in DOMAIN x.ctx.labels
                                              /\ x.ctx.labels[n] = c.address
  BY <1>1, DefineLabelsIs
<1>3. GoodContext(x.ctx) /\ SameBut(c, x.ctx) /\ Grown(c, x.ctx) /\ (c.pass = 2 => x.ctx = c)
      /\ x.ctx \in Context
  BY <1>2 DEF Defined, GoodContext
<1>4. w = IF x.ok THEN v ELSE Failed(x.ctx, r)
  BY DEF AssembleLine, AfterLabels
<1>5. IsReadLine(x.ctx, q) /\ q.op = l.op /\ q.name = l.name
  BY <1>3, ReadOperandsIs DEF SameLine
<1> HIDE DEF x, q, w, v
<1>6. Line(x.ctx, r, v, l.op)
  BY <1>1, <1>3, <1>5, DirectiveLine DEF v
<1>7. Line(x.ctx, r, Failed(x.ctx, r), l.op) /\ ~Failed(x.ctx, r).ok /\ Failed(x.ctx, r).ram = r
  BY <1>3, StillLine, DoneIs
<1>8. Line(x.ctx, r, w, l.op) /\ (w.ok => x.ok) /\ (~w.ok /\ l.op # "DS" => w.ram = r)
  <2>1. CASE x.ok
    BY <1>4, <1>6, <2>1 DEF Line
  <2>2. CASE ~x.ok
    BY <1>4, <1>7, <2>2
  <2> QED BY <2>1, <2>2
<1>9. LineDone(x.ctx, r, w) /\ w.ctx.labels = x.ctx.labels
  BY <1>8 DEF Line
<1>10. LineDone(c, r, w)
  <2>1. Grown(c, w.ctx)
    BY <1>3, <1>9, GrownTrans DEF LineDone
  <2>2. c.pass = 2 => w.ctx.labels = c.labels /\ w.ctx.constants = c.constants
    BY <1>3, <1>9 DEF LineDone
  <2> QED BY <1>3, <1>9, <2>1, <2>2 DEF LineDone, SameBut
<1>11. ASSUME w.ok PROVE Lays(c, w, l.op)
  <2>1. PICK y \in Seq(BytesType) :
          /\ w.ctx.total = x.ctx.total + Len(y)
          /\ Begun(x.ctx) => Appends(x.ctx, w.ctx, y)
          /\ y = <<>> /\ l.op # "ORG" => w.ctx.address = x.ctx.address
    BY <1>8, <1>11 DEF Line, Lays
  <2>2. ASSUME Begun(c) PROVE Appends(c, w.ctx, y)
    <3>1. Begun(x.ctx)
      BY <1>3, <2>2 DEF SameBut, Begun
    <3>2. Appends(x.ctx, w.ctx, y)
      BY <2>1, <3>1
    <3> QED BY <1>3, <3>2 DEF SameBut, Appends
  <2>3. w.ctx.total = c.total + Len(y) /\ (y = <<>> /\ l.op # "ORG" => w.ctx.address = c.address)
    BY <1>3, <2>1 DEF SameBut
  <2> QED BY <2>2, <2>3 DEF Lays
<1>12. DOMAIN w.ctx.labels \subseteq DOMAIN c.labels \cup NamesOf(l.labels)
  BY <1>2, <1>9
<1>13. w.ok => \A n \in NamesOf(l.labels) : n \in DOMAIN w.ctx.labels /\ w.ctx.labels[n] = c.address
  BY <1>2, <1>8, <1>9
<1>14. Kept(c, r, l, w)
  BY <1>8, <1>10, <1>11, <1>12, <1>13 DEF Kept
<1> QED BY <1>14 DEF w

\* What a jump of pass 2 gives.
JumpGives(c, r, l, w, name) ==
  \E y \in Seq(BytesType) :
    /\ Gave(c, r, w, y) /\ Len(y) >= 2
    /\ l.op = "JP" => y[2] = Low(c.labels[name])
    /\ l.op = "JR" => y[2].value = c.labels[name] - (c.address + 2)

\* A jump to a label that pass 2 accepts leads to the label.
LEMMA LineJumps ==
  ASSUME NEW c, GoodContext(c), c.pass = 2, NEW r \in RamType, NEW l \in LineType,
         NEW name \in DOMAIN c.labels, JumpsTo(l, name), AssembleLine(c, r, l).ok
  PROVE  JumpGives(c, r, l, AssembleLine(c, r, l), name)
<1> DEFINE x == DefineLabels(c, l.labels)
           q == ReadOperands(x.ctx, l)
           m == Encode(c, q)
           w == AssembleLine(c, r, l)
<1>1. c \in Context /\ l.labels \in Seq(STRING)
  BY LineIs DEF GoodContext
<1>2. x.ctx = c
  BY <1>1, DefineLabelsIs DEF Defined
<1>3. w = Directive(c, r, q)
  <2>1. w = IF x.ok THEN Directive(x.ctx, r, q) ELSE Failed(x.ctx, r)
    BY DEF AssembleLine, AfterLabels
  <2>2. ~Failed(x.ctx, r).ok
    BY DoneIs
  <2> QED BY <1>2, <2>1, <2>2
<1>4. q = ReadOperands(c, l)
  BY <1>2
<1> HIDE DEF x, q, w
<1>5. IsReadLine(c, q) /\ q.op = l.op
  BY <1>1, <1>4, ReadOperandsIs DEF SameLine
<1>6. w = Written(c, r, m)
  <2>1. ~Failed(c, r).ok
    BY DoneIs
  <2>2. q.op = "JP" \/ q.op = "JR"
    BY <1>5 DEF JumpsTo
  <2>3. w.ok
    BY DEF w
  <2> QED BY <1>3, <2>1, <2>2, <2>3, DirectiveIs
<1>7. m \in MadeType
  BY <1>1, <1>5, EncodeMade
<1>8. Gave(c, r, w, m.bytes) /\ m.ok /\ m.bytes \in Seq(BytesType)
  <2>1. w.ok
    BY DEF w
  <2> HIDE DEF m
  <2> QED BY <1>6, <1>7, <2>1, WrittenIs DEF MadeType
<1>9. /\ Len(m.bytes) >= 2
      /\ l.op = "JP" => m.bytes[2] = Low(c.labels[name])
      /\ l.op = "JR" => m.bytes[2].value = c.labels[name] - (c.address + 2)
  BY <1>4, <1>8, JumpBytes
<1> HIDE DEF m
<1> QED BY <1>8, <1>9 DEF JumpGives, w
-----------------------------------------------------------------------------
(* A line that pass 1 took goes the same way in pass 2.                    *)

\* The first operand of ORG and DEFS has its value in both passes.
LEMMA FirstValuesAgree ==
  ASSUME NEW c \in Context, NEW d \in Context, Later(c, d), NEW l \in LineType, Count(l) >= 1
  PROVE  Agree(Lhs(ReadOperands(c, l)).value, Lhs(ReadOperands(d, l)).value)
<1> DEFINE o == l.operands[1]
           v == ParseValue(c, o.e)
           u == ParseValue(d, o.e)
           q == ReadOperands(c, l)
           k == ReadOperands(d, l)
<1>1. 1 \in DOMAIN l.operands /\ o \in OperandType
  BY LineIs DEF Count
<1>2. 1 \in DOMAIN q.operands /\ 1 \in DOMAIN k.operands
      /\ q.operands[1] = Read(c, o, v) /\ k.operands[1] = Read(d, o, u)
  BY <1>1, ReadOperandsIs DEF SameLine
<1>3. Lhs(q) = Read(c, o, v) /\ Lhs(k) = Read(d, o, u)
  BY <1>2 DEF Lhs, OperandOf
<1>4. IsRead(c, Read(c, o, v)) /\ SameShape(Read(c, o, v), o)
      /\ (o.form = "plain" => Read(c, o, v).value = v /\ Read(d, o, u).value = u)
  BY <1>1, ReadIs
<1>5. CASE o.form = "plain"
  <2>1. o.e \in ExpressionType
    BY <1>1 DEF OperandType
  <2>2. Agree(v, u)
    BY <2>1, ParseAgrees
  <2> HIDE DEF o, v, u, q, k
  <2>3. Lhs(q).value = v /\ Lhs(k).value = u
    BY <1>3, <1>4, <1>5
  <2> QED BY <2>2, <2>3 DEF q, k
<1>6. CASE o.form # "plain"
  <2> HIDE DEF o, v, u, q, k
  <2>1. ~Lhs(q).value.ok
    BY <1>3, <1>4, <1>6 DEF IsRead, SameShape
  <2> QED BY <2>1 DEF Agree, q, k
<1> QED BY <1>5, <1>6

\* The second line goes where the first went, or memory is as it was.
Alike(s, u, w) == IF w.ok THEN SamePlace(u.ctx, w.ctx) ELSE w.ram = s

\* Two lines of the same operands, read in two passes.
Readings(c, d, q, k) ==
  /\ GoodContext(c) /\ GoodContext(d) /\ SamePlace(c, d) /\ IsReadLine(c, q) /\ IsReadLine(d, k)
  /\ q.op = k.op /\ q.name = k.name /\ q.name \in STRING /\ Count(q) = Count(k)
  /\ SameShape(Lhs(q), Lhs(k)) /\ SameShape(Rhs(q), Rhs(k))
  /\ \A i \in 1..Count(q) : SameShape(q.operands[i], k.operands[i])
  /\ MissingOperand(q) <=> MissingOperand(k)
  /\ Count(q) >= 1 => Agree(Lhs(q).value, Lhs(k).value)

\* ORG goes to one place in both passes.
LEMMA OrgAlike ==
  ASSUME NEW c, NEW d, NEW q, NEW k, Readings(c, d, q, k), NEW r \in RamType, NEW s \in RamType,
         Org(c, r, q).ok
  PROVE  Alike(s, Org(c, r, q), Org(d, s, k))
<1> DEFINE u == Org(c, r, q)
           w == Org(d, s, k)
<1>1. GoodContext(c) /\ GoodContext(d) /\ SamePlace(c, d)
  BY DEF Readings
<1>2. /\ Line(c, r, u, "ORG") /\ OrgGoes(q) /\ u.ctx.address = Lhs(q).value.value
      /\ u.ctx.exhausted = FALSE
  BY <1>1, OrgIs
<1>3. /\ Line(d, s, w, "ORG")
      /\ w.ok => /\ OrgGoes(k) /\ w.ctx.address = Lhs(k).value.value
                 /\ w.ctx.exhausted = FALSE
  BY <1>1, OrgIs
<1> HIDE DEF u, w
<1>4. CASE w.ok
  <2>1. Agree(Lhs(q).value, Lhs(k).value)
    <3>1. Count(q) = 1
      BY <1>2 DEF OrgGoes
    <3>2. Count(q) >= 1
      BY <3>1
    <3> QED BY <3>2 DEF Readings
  <2>2. Lhs(q).value = Lhs(k).value
    BY <1>2, <1>3, <1>4, <2>1 DEF Agree, OrgGoes
  <2>3. u.ctx.target # "tape" /\ w.ctx.target # "tape"
    BY <1>1, <1>2, <1>3 DEF Line, LineDone, SamePlace
  <2>4. SamePlace(u.ctx, w.ctx)
    BY <1>2, <1>3, <1>4, <2>2, <2>3 DEF SamePlace
  <2> QED BY <1>4, <2>4 DEF Alike, u, w
<1>5. CASE ~w.ok
  <2>1. w.ram = s
    BY <1>3, <1>5 DEF Line
  <2> QED BY <1>5, <2>1 DEF Alike, w
<1> QED BY <1>4, <1>5

\* DEFS takes one size in both passes.
LEMMA DefsAlike ==
  ASSUME NEW c, NEW d, NEW q, NEW k, Readings(c, d, q, k), NEW r \in RamType, NEW s \in RamType,
         Defs(c, r, q).ok
  PROVE  Alike(s, Defs(c, r, q), Defs(d, s, k))
<1> DEFINE u == Defs(c, r, q)
           w == Defs(d, s, k)
<1>1. GoodContext(c) /\ GoodContext(d) /\ SamePlace(c, d) /\ IsReadLine(c, q) /\ IsReadLine(d, k)
  BY DEF Readings
<1>2. /\ Line(c, r, u, "DS") /\ DefsGoes(c, q) /\ u.ok = DefsFill(c, r, q).ok
      /\ Lhs(q).value.value \in Nat /\ FillOf(q).value \in Int
      /\ u.ctx.address = DefsFill(c, r, q).ctx.address
      /\ u.ctx.exhausted = DefsFill(c, r, q).ctx.exhausted
  BY <1>1, DefsIs
<1>3. /\ Line(d, s, w, "DS")
      /\ DefsGoes(d, k) => /\ w.ok = DefsFill(d, s, k).ok
                           /\ Lhs(k).value.value \in Nat /\ FillOf(k).value \in Int
                           /\ w.ctx.address = DefsFill(d, s, k).ctx.address
                           /\ w.ctx.exhausted = DefsFill(d, s, k).ctx.exhausted
      /\ ~DefsGoes(d, k) => ~w.ok /\ w.ram = s
  BY <1>1, DefsIs
<1>4. CASE DefsGoes(d, k)
  <2>1. Agree(Lhs(q).value, Lhs(k).value)
    <3>1. Count(q) >= 1
      BY <1>2 DEF DefsGoes
    <3> QED BY <3>1 DEF Readings
  <2>2. Lhs(q).value = Lhs(k).value
    BY <1>2, <1>4, <2>1 DEF Agree, DefsGoes
  <2> DEFINE n == Lhs(q).value.value
             f == DefsFill(c, r, q)
             g == DefsFill(d, s, k)
  <2>3. f = FillBytes(c, r, n, FillOf(q).value) /\ g = FillBytes(d, s, n, FillOf(k).value)
    BY <2>2 DEF DefsFill
  <2>4. n \in Nat /\ FillOf(q).value \in Int /\ FillOf(k).value \in Int
    BY <1>2, <1>3, <1>4
  <2> HIDE DEF f, g, n, u, w
  <2>5. f.ok = g.ok /\ SamePlace(f.ctx, g.ctx)
    BY <1>1, <2>3, <2>4, FillAlike
  <2>6. u.ok = f.ok /\ w.ok = g.ok /\ u.ctx.address = f.ctx.address
        /\ u.ctx.exhausted = f.ctx.exhausted
        /\ w.ctx.address = g.ctx.address /\ w.ctx.exhausted = g.ctx.exhausted
    BY <1>2, <1>3, <1>4 DEF f, g
  <2>7. u.ctx.target # "tape" /\ w.ctx.target # "tape"
    BY <1>1, <1>2, <1>3 DEF Line, LineDone, SamePlace
  <2>8. SamePlace(u.ctx, w.ctx)
    BY <2>5, <2>6, <2>7 DEF SamePlace
  <2>9. w.ok
    <3>1. u.ok
      BY DEF u
    <3> QED BY <2>5, <2>6, <3>1
  <2> QED BY <2>8, <2>9 DEF Alike, u, w
<1>5. CASE ~DefsGoes(d, k)
  <2>1. ~w.ok /\ w.ram = s
    BY <1>3, <1>5
  <2> QED BY <2>1 DEF Alike
<1> QED BY <1>4, <1>5

\* Lines that write what they are made into.
Sizes(m, k) == m \in MadeType /\ k \in MadeType /\ (m.ok /\ k.ok => Len(m.bytes) = Len(k.bytes))

\* Bytes of one size end at one place.
LEMMA WritesAlike ==
  ASSUME NEW c, NEW d, GoodContext(c), GoodContext(d), SamePlace(c, d), NEW r \in RamType, NEW s \in RamType,
         NEW m, NEW k, Sizes(m, k), Written(c, r, m).ok
  PROVE  Alike(s, Written(c, r, m), Written(d, s, k))
<1> DEFINE u == Written(c, r, m)
           w == Written(d, s, k)
<1>1. m \in MadeType /\ k \in MadeType
  BY DEF Sizes
<1>2. CASE w.ok
  <2>1. SamePlace(u.ctx, w.ctx)
    BY <1>1, <1>2, WrittenAlike DEF Sizes
  <2> QED BY <1>2, <2>1 DEF Alike
<1>3. CASE ~w.ok
  <2>1. Gave(d, s, w, k.bytes)
    BY <1>1, WrittenIs
  <2>2. w.ram = s
    BY <1>3, <2>1 DEF Gave
  <2> QED BY <1>3, <2>2 DEF Alike
<1> QED BY <1>2, <1>3

LEMMA SizesAlike ==
  ASSUME NEW c, NEW d, NEW q, NEW k, Readings(c, d, q, k), binSize \in SizeType
  PROVE  /\ Sizes(DataLine(c, q, "byte"), DataLine(d, k, "byte"))
         /\ Sizes(DataLine(c, q, "word"), DataLine(d, k, "word"))
         /\ Sizes(BinaryBytes(q), BinaryBytes(k)) /\ Sizes(Encode(c, q), Encode(d, k))
<1>1. /\ c \in Context /\ d \in Context /\ IsReadLine(c, q) /\ IsReadLine(d, k) /\ q.op = k.op
      /\ Count(q) = Count(k) /\ SameShape(Lhs(q), Lhs(k)) /\ SameShape(Rhs(q), Rhs(k))
      /\ Len(q.operands) = Len(k.operands)
      /\ \A i \in 1..Len(q.operands) : SameShape(q.operands[i], k.operands[i])
  BY DEF Readings, GoodContext, Count
<1>2. ASSUME NEW kind \in {"byte", "word"}
      PROVE  Sizes(DataLine(c, q, kind), DataLine(d, k, kind))
  <2>1. DataLine(c, q, kind) \in MadeType /\ DataLine(d, k, kind) \in MadeType
    BY <1>1, DataLineIs
  <2>2. DataLine(c, q, kind).ok /\ DataLine(d, k, kind).ok =>
          Len(DataLine(c, q, kind).bytes) = Len(DataLine(d, k, kind).bytes)
    BY <1>1, DataLineAlike
  <2> QED BY <2>1, <2>2 DEF Sizes
<1>3. Sizes(BinaryBytes(q), BinaryBytes(k))
  BY BinaryIs DEF Sizes
<1>4. Sizes(Encode(c, q), Encode(d, k))
  <2> DEFINE n == EncodeSize(q.op, Count(q), Lhs(q), Rhs(q))
             m == EncodeSize(k.op, Count(k), Lhs(k), Rhs(k))
  <2>1. n = m
    BY <1>1, SizeKept
  <2>2. Encode(c, q) \in Shaped(n) /\ Encode(d, k) \in Shaped(m)
    BY <1>1, EncodeShaped
  <2> HIDE DEF n, m
  <2> QED BY <2>1, <2>2 DEF Shaped, MadeType, Sizes
<1> QED BY <1>2, <1>3, <1>4

\* Every directive takes one size in both passes, as long as INCBIN's file
\* does.
LEMMA DirectiveAlike ==
  ASSUME NEW c, NEW d, NEW q, NEW k, Readings(c, d, q, k), NEW r \in RamType, NEW s \in RamType,
         binSize \in SizeType, Directive(c, r, q).ok
  PROVE  Alike(s, Directive(c, r, q), Directive(d, s, k))
<1>1. /\ GoodContext(c) /\ GoodContext(d) /\ SamePlace(c, d) /\ IsReadLine(c, q) /\ IsReadLine(d, k)
      /\ q.op = k.op /\ q.name \in STRING /\ k.name \in STRING
      /\ (MissingOperand(q) <=> MissingOperand(k))
  BY DEF Readings
<1>2. CASE q.op = ""
  <2>1. Directive(c, r, q) = Done(c, r) /\ Directive(d, s, k) = Done(d, s)
    BY <1>1, <1>2, DirectiveIs
  <2> QED BY <1>1, <2>1, DoneIs DEF Alike
<1>3. CASE q.op # "" /\ MissingOperand(q)
  <2>1. Directive(c, r, q) = Failed(c, r)
    BY <1>3, DirectiveIs
  <2> QED BY <2>1, DoneIs
<1>4. CASE q.op = "EQU" /\ ~MissingOperand(q)
  <2> DEFINE u == AfterEqu(Equ(c, q), r)
             w == AfterEqu(Equ(d, k), s)
  <2>1. Directive(c, r, q) = u /\ Directive(d, s, k) = w
    BY <1>1, <1>4, DirectiveIs
  <2>2. SameBut(c, u.ctx) /\ SameBut(d, w.ctx) /\ w.ram = s
    BY <1>1, EquLine
  <2>3. SamePlace(u.ctx, w.ctx)
    BY <1>1, <2>2 DEF SameBut, SamePlace
  <2> QED BY <2>1, <2>2, <2>3 DEF Alike
<1>5. CASE q.op = "ORG" /\ ~MissingOperand(q)
  <2>1. Directive(c, r, q) = Org(c, r, q) /\ Directive(d, s, k) = Org(d, s, k)
    BY <1>1, <1>5, DirectiveIs
  <2> QED BY <2>1, OrgAlike
<1>6. CASE q.op = "DS" /\ ~MissingOperand(q)
  <2>1. Directive(c, r, q) = Defs(c, r, q) /\ Directive(d, s, k) = Defs(d, s, k)
    BY <1>1, <1>6, DirectiveIs
  <2> QED BY <2>1, DefsAlike
<1>7. CASE q.op \notin {"", "EQU", "ORG", "DS"} /\ ~MissingOperand(q)
  <2>1. \E m, n : /\ Sizes(m, n) /\ Directive(c, r, q) = Written(c, r, m)
                  /\ Directive(d, s, k) = Written(d, s, n)
    <3>1. /\ Sizes(DataLine(c, q, "byte"), DataLine(d, k, "byte"))
          /\ Sizes(DataLine(c, q, "word"), DataLine(d, k, "word"))
          /\ Sizes(BinaryBytes(q), BinaryBytes(k)) /\ Sizes(Encode(c, q), Encode(d, k))
      BY SizesAlike
    <3>2. CASE q.op = "DB"
      <4>1. /\ Directive(c, r, q) = Written(c, r, DataLine(c, q, "byte"))
            /\ Directive(d, s, k) = Written(d, s, DataLine(d, k, "byte"))
        BY <1>1, <1>7, <3>2, DirectiveIs
      <4> QED BY <3>1, <4>1
    <3>3. CASE q.op = "DW"
      <4>1. /\ Directive(c, r, q) = Written(c, r, DataLine(c, q, "word"))
            /\ Directive(d, s, k) = Written(d, s, DataLine(d, k, "word"))
        BY <1>1, <1>7, <3>3, DirectiveIs
      <4> QED BY <3>1, <4>1
    <3>4. CASE q.op = "INCBIN"
      <4>1. /\ Directive(c, r, q) = Written(c, r, BinaryBytes(q))
            /\ Directive(d, s, k) = Written(d, s, BinaryBytes(k))
        BY <1>1, <1>7, <3>4, DirectiveIs
      <4> QED BY <3>1, <4>1
    <3>5. CASE q.op \notin {"DB", "DW", "INCBIN"}
      <4>1. /\ Directive(c, r, q) = Written(c, r, Encode(c, q))
            /\ Directive(d, s, k) = Written(d, s, Encode(d, k))
        BY <1>1, <1>7, <3>5, DirectiveIs
      <4> QED BY <3>1, <4>1
    <3> QED BY <3>2, <3>3, <3>4, <3>5
  <2>2. PICK m, n : /\ Sizes(m, n) /\ Directive(c, r, q) = Written(c, r, m)
                    /\ Directive(d, s, k) = Written(d, s, n)
    BY <2>1
  <2> QED BY <1>1, <2>2, WritesAlike
<1> QED BY <1>2, <1>3, <1>4, <1>5, <1>6, <1>7

\* Pass 1 took the line at c; pass 2 comes to it at d.
LEMMA LinesAlike ==
  ASSUME NEW c, NEW d, GoodContext(c), GoodContext(d), SamePlace(c, d), d.pass = 2, NEW l \in LineType,
         NEW r \in RamType, NEW s \in RamType, binSize \in SizeType, AssembleLine(c, r, l).ok,
         Grown(AssembleLine(c, r, l).ctx, d)
  PROVE  Alike(s, AssembleLine(c, r, l), AssembleLine(d, s, l))
<1> DEFINE x == DefineLabels(c, l.labels)
           y == DefineLabels(d, l.labels)
           q == ReadOperands(x.ctx, l)
           k == ReadOperands(d, l)
           u == AssembleLine(c, r, l)
           w == AssembleLine(d, s, l)
<1>1. l.labels \in Seq(STRING) /\ l.name \in STRING
  BY LineIs
<1>2. Defined(c, x) /\ Defined(d, y)
  BY <1>1, DefineLabelsIs
<1>3. GoodContext(x.ctx) /\ SameBut(c, x.ctx) /\ y.ctx = d
  BY <1>2 DEF Defined
<1>4. /\ u = IF x.ok THEN Directive(x.ctx, r, q) ELSE Failed(x.ctx, r)
      /\ w = IF y.ok THEN Directive(d, s, k) ELSE Failed(d, s)
  BY <1>3 DEF AssembleLine, AfterLabels
<1>5. x.ok /\ u = Directive(x.ctx, r, q) /\ u.ok
  <2>1. ~Failed(x.ctx, r).ok
    BY DoneIs
  <2> QED BY <1>4, <2>1
<1>6. CASE ~y.ok
  <2>1. w = Failed(d, s)
    BY <1>4, <1>6
  <2> HIDE DEF w, u
  <2> QED BY <2>1, DoneIs DEF Alike, w, u
<1>7. CASE y.ok
  <2> HIDE DEF x, y
  <2>1. x.ctx \in Context /\ d \in Context
    BY <1>3 DEF GoodContext
  <2>2. IsReadLine(x.ctx, q) /\ SameLine(q, l) /\ IsReadLine(d, k) /\ SameLine(k, l)
    BY <2>1, ReadOperandsIs
  <2>3. Line(x.ctx, r, u, q.op)
    BY <1>1, <1>3, <1>5, <2>2, DirectiveLine DEF SameLine
  <2>4. Later(x.ctx, d)
    <3>1. Grown(x.ctx, u.ctx)
      BY <2>3 DEF Line, LineDone
    <3>2. Grown(x.ctx, d)
      BY <3>1, GrownTrans
    <3>3. x.ctx.address = d.address
      BY <1>3 DEF SameBut, SamePlace
    <3>4. DOMAIN d.labels \cap DOMAIN d.constants = {}
      BY DEF GoodContext
    <3> QED BY <3>2, <3>3, <3>4 DEF Later, Grown, GrownTable
  <2>5. Count(l) >= 1 => Agree(Lhs(q).value, Lhs(k).value)
    BY <2>1, <2>4, FirstValuesAgree
  <2>6. SamePlace(x.ctx, d)
    BY <1>3 DEF SameBut, SamePlace
  <2> HIDE DEF q, k, u, w
  <2>7. Readings(x.ctx, d, q, k)
    <3>1. /\ q.op = l.op /\ k.op = l.op /\ q.name = l.name /\ k.name = l.name
          /\ Count(q) = Count(l) /\ Count(k) = Count(l)
          /\ (MissingOperand(q) <=> MissingOperand(l)) /\ (MissingOperand(k) <=> MissingOperand(l))
      BY <2>2, OperandsSame
    <3>2. SameShape(Lhs(q), Lhs(k)) /\ SameShape(Rhs(q), Rhs(k))
      BY <2>2, OperandsSame DEF SameShape
    <3>3. \A i \in 1..Count(q) : SameShape(q.operands[i], k.operands[i])
      <4>1. DOMAIN l.operands = 1..Count(q)
        BY <3>1, LineIs DEF Count
      <4> QED BY <2>2, <4>1 DEF SameLine, SameShape
    <3> QED BY <1>1, <1>3, <2>2, <2>5, <2>6, <3>1, <3>2, <3>3 DEF Readings
  <2>8. Alike(s, Directive(x.ctx, r, q), Directive(d, s, k))
    BY <1>5, <2>7, DirectiveAlike
  <2>9. w = Directive(d, s, k)
    BY <1>4, <1>7
  <2> QED BY <1>5, <2>8, <2>9 DEF u, w
<1> QED BY <1>6, <1>7
-----------------------------------------------------------------------------
(* The text of a program with its files in their places.                   *)

FlatOf(p) ==
  CHOOSE flat : flat =
    [depth \in 0..(MaxDepth + 1) |->
       [file \in DOMAIN p.text |->
          IF depth = 0 THEN <<>> ELSE FlattenSeq(Pieces(p.text[file], flat[depth - 1]))]]

TextsOf(p) == [DOMAIN p.text -> Seq(LineType)]

\* What a project holds.
LEMMA ProgramIs ==
  ASSUME NEW p \in Projects
  PROVE  /\ p.saved \in BOOLEAN /\ p.root \in DOMAIN p.text /\ p.binSizes \subseteq SizeType
         /\ \A file \in DOMAIN p.text : /\ p.text[file] \in Seq(LineType)
                                        /\ Len(p.text[file]) \in Nat
                                        /\ \A i \in 1..Len(p.text[file]) : p.text[file][i] \in LineType
<1>1. \A file \in DOMAIN p.text : p.text[file] \in Seq(LineType)
  BY ProjectsAssumption
<1>2. \A file \in DOMAIN p.text : /\ Len(p.text[file]) \in Nat
                                  /\ \A i \in 1..Len(p.text[file]) : p.text[file][i] \in LineType
  BY <1>1, LenProperties, ElementOfSeq
<1> QED BY <1>1, <1>2, ProjectsAssumption DEF SizeType

\* The pieces of a text: its lines, with the text of a file for each INCLUDE.
LEMMA PiecesAre ==
  ASSUME NEW text \in Seq(LineType), NEW D, NEW flat \in [D -> Seq(LineType)]
  PROVE  /\ Len(Pieces(text, flat)) = Len(text) /\ Len(text) \in Nat
         /\ Len(text) = 0 => Pieces(text, flat) = <<>>
         /\ \A i \in 1..Len(text) :
              /\ Pieces(text, flat)[i] \in Seq(LineType)
              /\ Pieces(text, flat)[i] =
                   IF text[i].op # "INCLUDE" THEN <<text[i]>>
                   ELSE IF FileName(text[i]) \in D THEN flat[FileName(text[i])] ELSE <<>>
<1> DEFINE n == Len(text)
           part(i) == IF text[i].op # "INCLUDE" THEN <<text[i]>>
                      ELSE IF FileName(text[i]) \in D THEN flat[FileName(text[i])] ELSE <<>>
           p == Pieces(text, flat)
<1>1. n \in Nat /\ DOMAIN text = 1..n /\ \A i \in 1..n : text[i] \in LineType
  BY LenProperties, ElementOfSeq
<1>2. DOMAIN flat = D
  OBVIOUS
<1>3. p = [i \in 1..n |-> part(i)]
  BY <1>1, <1>2 DEF Pieces
<1>4. \A i \in 1..n : part(i) \in Seq(LineType)
  <2> TAKE i \in 1..n
  <2>1. text[i] \in LineType
    BY <1>1
  <2>2. <<text[i]>> \in Seq(LineType)
    BY <2>1
  <2>3. FileName(text[i]) \in D => flat[FileName(text[i])] \in Seq(LineType)
    OBVIOUS
  <2>4. <<>> \in Seq(LineType)
    OBVIOUS
  <2> QED BY <2>2, <2>3, <2>4
<1> HIDE DEF part, p
<1>5. Len(p) = n /\ (n = 0 => p = <<>>) /\ \A i \in 1..n : p[i] = part(i)
  BY <1>1, <1>3
<1> QED BY <1>1, <1>4, <1>5 DEF part, p

\* The text of a file to a depth is the pieces of the file, with texts one
\* level less deep.
LEMMA FlatIs ==
  ASSUME NEW p \in Projects
  PROVE  /\ \A d \in 0..(MaxDepth + 1) : FlatOf(p)[d] \in TextsOf(p)
         /\ \A d \in 1..(MaxDepth + 1) : \A file \in DOMAIN p.text :
              FlatOf(p)[d][file] = FlattenSeq(Pieces(p.text[file], FlatOf(p)[d - 1]))
<1> DEFINE n == MaxDepth + 1
           S == TextsOf(p)
           first == [file \in DOMAIN p.text |-> <<>>]
           over(s) == [file \in DOMAIN p.text |-> FlattenSeq(Pieces(p.text[file], s))]
           Works(f) == f = [d \in 0..n |->
                           [file \in DOMAIN p.text |->
                              IF d = 0 THEN <<>> ELSE FlattenSeq(Pieces(p.text[file], f[d - 1]))]]
           T == [q \in S \X (1..n) |-> over(q[1])]
<1>1. n \in Nat
  BY ScaleAssumption
<1>2. first \in S
  BY DEF TextsOf
<1>3. \A s \in S : over(s) \in S
  <2> TAKE s \in S
  <2>1. \A file \in DOMAIN p.text : FlattenSeq(Pieces(p.text[file], s)) \in Seq(LineType)
    <3> TAKE file \in DOMAIN p.text
    <3> DEFINE k == Pieces(p.text[file], s)
    <3>1. p.text[file] \in Seq(LineType) /\ s \in [DOMAIN p.text -> Seq(LineType)]
      BY ProgramIs DEF TextsOf
    <3>2. Len(k) \in Nat /\ (Len(k) = 0 => k = <<>>) /\ \A i \in 1..Len(k) : k[i] \in Seq(LineType)
      BY <3>1, PiecesAre
    <3> HIDE DEF k
    <3>3. PICK f : FlattenRun(LineType, k, f)
      BY <3>2, FlattenRuns
    <3>4. FlattenSeq(k) \in Seq(LineType)
      BY <3>2, <3>3 DEF FlattenRun
    <3> QED BY <3>4 DEF k
  <2> QED BY <2>1 DEF TextsOf
<1>4. T \in [S \X (1..n) -> S]
  BY <1>3
<1>5. \A s \in S, i \in 1..n : T[<<s, i>>] = over(s)
  OBVIOUS
<1>6. \E f : Works(f)
  <2> HIDE DEF T, n, S, first, over
  <2>1. PICK f : Iterates(f, S, n, first, T)
    BY <1>1, <1>2, <1>4, IterationExists, Zenon
  <2>2. \A i \in 1..n : f[i] = over(f[i - 1])
    <3> TAKE i \in 1..n
    <3>1. f[i - 1] \in S
      BY <1>1, <2>1 DEF Iterates
    <3> QED BY <1>5, <2>1, <3>1 DEF Iterates
  <2>3. \A d \in 0..n :
          f[d] = [file \in DOMAIN p.text |->
                    IF d = 0 THEN <<>> ELSE FlattenSeq(Pieces(p.text[file], f[d - 1]))]
    <3> TAKE d \in 0..n
    <3>1. CASE d = 0
      BY <2>1, <3>1 DEF Iterates, first
    <3>2. CASE d # 0
      <4>1. d \in 1..n
        BY <1>1, <3>2
      <4>2. f[d] = over(f[d - 1])
        BY <2>2, <4>1
      <4> QED BY <3>2, <4>2 DEF over
    <3> QED BY <3>1, <3>2
  <2>4. f = [d \in 0..n |-> f[d]]
    BY <2>1 DEF Iterates
  <2>5. Works(f)
    BY <2>3, <2>4
  <2> HIDE DEF Works
  <2> QED BY <2>5
<1> DEFINE flat == FlatOf(p)
<1>7. Works(flat)
  BY <1>6 DEF FlatOf
<1> HIDE DEF flat, T, n, S, over
<1>8. \A d \in 0..n :
        flat[d] = [file \in DOMAIN p.text |->
                     IF d = 0 THEN <<>> ELSE FlattenSeq(Pieces(p.text[file], flat[d - 1]))]
  BY <1>7, Zenon
<1>9. 0 \in 0..n /\ \A d \in 1..n : d \in 0..n /\ d # 0
  BY <1>1
<1>10. flat[0] = first
  BY <1>8, <1>9
<1>11. \A d \in 1..n : flat[d] = over(flat[d - 1])
  <2> TAKE d \in 1..n
  <2>1. d # 0
    BY <1>9
  <2>2. flat[d] = [file \in DOMAIN p.text |->
                     IF d = 0 THEN <<>> ELSE FlattenSeq(Pieces(p.text[file], flat[d - 1]))]
    BY <1>8, <1>9
  <2> QED BY <2>1, <2>2 DEF over
<1> HIDE DEF first
<1>12. \A d \in 0..n : flat[d] \in S
  <2>1. \A d \in 1..n : flat[d - 1] \in S => flat[d] \in S
    BY <1>3, <1>11
  <2>2. flat[0] \in S
    BY <1>2, <1>10
  <2> QED BY <1>1, <2>1, <2>2, IterationKeeps
<1>13. \A d \in 1..n : \A file \in DOMAIN p.text :
         flat[d][file] = FlattenSeq(Pieces(p.text[file], flat[d - 1]))
  BY <1>11 DEF over
<1> QED BY <1>12, <1>13 DEF n, S, flat

\* The pieces of a file that is the k-th of those open, and the first i of them.
PartsOf(p, file, k) == Pieces(p.text[file], FlatOf(p)[MaxDepth + 1 - k])
RunOf(p, file, k) == CHOOSE f : FlattenRun(LineType, PartsOf(p, file, k), f)
FirstParts(p, file, k, i) == RunOf(p, file, k)[i]

\* The text up to a line grows by the line, or by the text of the file it
\* includes.
LEMMA FirstPartsAre ==
  ASSUME NEW p \in Projects, NEW k \in 1..MaxDepth, NEW file \in DOMAIN p.text
  PROVE  /\ FirstParts(p, file, k, 0) = <<>>
         /\ \A i \in 0..Len(p.text[file]) : FirstParts(p, file, k, i) \in Seq(LineType)
         /\ FirstParts(p, file, k, Len(p.text[file])) = FlatOf(p)[MaxDepth + 2 - k][file]
         /\ \A i \in 1..Len(p.text[file]) :
              FirstParts(p, file, k, i) =
                FirstParts(p, file, k, i - 1) \o
                  (IF p.text[file][i].op # "INCLUDE" THEN <<p.text[file][i]>>
                   ELSE IF FileName(p.text[file][i]) \in DOMAIN p.text
                   THEN FlatOf(p)[MaxDepth + 1 - k][FileName(p.text[file][i])] ELSE <<>>)
<1> DEFINE d == MaxDepth + 1 - k
           flat == FlatOf(p)[d]
           text == p.text[file]
           q == PartsOf(p, file, k)
           n == Len(text)
<1>1. MaxDepth \in Nat /\ d \in 0..(MaxDepth + 1) /\ d + 1 \in 1..(MaxDepth + 1)
      /\ (d + 1) - 1 = d /\ d + 1 = MaxDepth + 2 - k
  BY ScaleAssumption
<1>2. flat \in [DOMAIN p.text -> Seq(LineType)] /\ text \in Seq(LineType)
  BY <1>1, FlatIs, ProgramIs DEF TextsOf
<1>3. FlatOf(p)[MaxDepth + 2 - k][file] = FlattenSeq(q)
  <2>1. FlatOf(p)[d + 1][file] = FlattenSeq(Pieces(p.text[file], FlatOf(p)[(d + 1) - 1]))
    BY <1>1, FlatIs
  <2> QED BY <1>1, <2>1 DEF PartsOf
<1>4. q = Pieces(text, flat)
  BY DEF PartsOf
<1> HIDE DEF flat, text, q, d
<1>5. /\ Len(q) = n /\ n \in Nat /\ (n = 0 => q = <<>>)
      /\ \A i \in 1..n :
           /\ q[i] \in Seq(LineType)
           /\ q[i] = IF text[i].op # "INCLUDE" THEN <<text[i]>>
                     ELSE IF FileName(text[i]) \in DOMAIN p.text THEN flat[FileName(text[i])] ELSE <<>>
  BY <1>2, <1>4, PiecesAre
<1> DEFINE f == RunOf(p, file, k)
<1>6. \E g : FlattenRun(LineType, q, g)
  BY <1>5, FlattenRuns
<1>7. FlattenRun(LineType, q, f)
  BY <1>6 DEF RunOf, q
<1> HIDE DEF f
<1>8. /\ f[0] = <<>> /\ (\A i \in 1..n : f[i] = f[i - 1] \o q[i])
      /\ (\A i \in 0..n : f[i] \in Seq(LineType)) /\ FlattenSeq(q) = f[n]
  BY <1>5, <1>7 DEF FlattenRun
<1>9. \A i : FirstParts(p, file, k, i) = f[i]
  BY DEF FirstParts, f
<1>10. \A i \in 1..n : f[i] = f[i - 1] \o
            (IF text[i].op # "INCLUDE" THEN <<text[i]>>
             ELSE IF FileName(text[i]) \in DOMAIN p.text THEN flat[FileName(text[i])] ELSE <<>>)
  <2> TAKE i \in 1..n
  <2>1. f[i] = f[i - 1] \o q[i]
    BY <1>8
  <2>2. q[i] = IF text[i].op # "INCLUDE" THEN <<text[i]>>
               ELSE IF FileName(text[i]) \in DOMAIN p.text THEN flat[FileName(text[i])] ELSE <<>>
    BY <1>5
  <2> QED BY <2>1, <2>2
<1> QED BY <1>3, <1>8, <1>9, <1>10 DEF text, flat, d
-----------------------------------------------------------------------------
(* The files being expanded.                                               *)

FrameOf(p) == [file : DOMAIN p.text, line : Nat \ {0}]
FirstOpen(p) == IF p.saved THEN 1 ELSE 2
OpenTo(p, stack, k) == {stack[i].file : i \in FirstOpen(p)..k}

\* Lines of the k-th file whose text is done: the line of an INCLUDE is not
\* while its file is open.
DoneOf(stack, k) == IF k = Len(stack) THEN stack[k].line - 1 ELSE stack[k].line - 2

\* The prepared lines are those of the files, each as far as it is done.
Joined(p, stack, lines, b) ==
  /\ b[0] = <<>> /\ b[Len(stack)] = lines
  /\ \A k \in 0..Len(stack) : b[k] \in Seq(LineType)
  /\ \A k \in 1..Len(stack) :
       b[k] = b[k - 1] \o FirstParts(p, stack[k].file, k, DoneOf(stack, k))

FramesIn(p, stack) ==
  /\ stack \in Seq(FrameOf(p)) /\ Len(stack) \in 1..MaxDepth /\ stack[1].file = p.root
  /\ \A k \in 1..Len(stack) : stack[k].line <= Len(p.text[stack[k].file]) + 1
  /\ \A k \in 1..(Len(stack) - 1) :
       /\ stack[k].line >= 2
       /\ p.text[stack[k].file][stack[k].line - 1].op = "INCLUDE"
       /\ FileName(p.text[stack[k].file][stack[k].line - 1]) = stack[k + 1].file

\* No file is open twice, so that they can be counted.
Distinct(p, stack) ==
  \A k \in (FirstOpen(p) - 1)..Len(stack) :
    /\ IsFiniteSet(OpenTo(p, stack, k))
    /\ Cardinality(OpenTo(p, stack, k)) = k - FirstOpen(p) + 1

Nested(p, stack, lines) ==
  FramesIn(p, stack) /\ Distinct(p, stack) /\ \E b : Joined(p, stack, lines, b)

\* Files that are open are files of the project, at lines of theirs.
LEMMA FramesAre ==
  ASSUME NEW p \in Projects, NEW stack, FramesIn(p, stack)
  PROVE  /\ Len(stack) \in Nat /\ Len(stack) >= 1 /\ DOMAIN stack = 1..Len(stack)
         /\ Len(stack) \in 1..Len(stack) /\ Len(stack) <= MaxDepth /\ MaxDepth \in Nat
         /\ \A k \in 1..Len(stack) :
              /\ stack[k] \in FrameOf(p) /\ stack[k].file \in DOMAIN p.text
              /\ stack[k].line \in Nat \ {0}
              /\ stack[k] = [file |-> stack[k].file, line |-> stack[k].line]
              /\ Len(p.text[stack[k].file]) \in Nat
<1>1. Len(stack) \in Nat /\ DOMAIN stack = 1..Len(stack) /\ MaxDepth \in Nat
      /\ \A k \in 1..Len(stack) : stack[k] \in FrameOf(p)
  BY ScaleAssumption, LenProperties, ElementOfSeq DEF FramesIn
<1>2. Len(stack) >= 1 /\ Len(stack) <= MaxDepth
  BY <1>1 DEF FramesIn
<1>3. \A k \in 1..Len(stack) : stack[k].file \in DOMAIN p.text /\ stack[k].line \in Nat \ {0}
                               /\ stack[k] = [file |-> stack[k].file, line |-> stack[k].line]
  BY <1>1 DEF FrameOf
<1> QED BY <1>1, <1>2, <1>3, ProgramIs

\* Going on moves the last file by a line.
LEMMA AdvanceIs ==
  ASSUME NEW p \in Projects, NEW stack, FramesIn(p, stack)
  PROVE  /\ Advance(stack) \in Seq(FrameOf(p)) /\ Len(Advance(stack)) = Len(stack)
         /\ \A k \in 1..Len(stack) : k # Len(stack) => Advance(stack)[k] = stack[k]
         /\ Advance(stack)[Len(stack)].file = stack[Len(stack)].file
         /\ Advance(stack)[Len(stack)].line = stack[Len(stack)].line + 1
<1> DEFINE n == Len(stack)
           f == stack[n]
           g == [file |-> f.file, line |-> f.line + 1]
           u == Advance(stack)
<1>1. n \in Nat /\ n >= 1 /\ n \in 1..n /\ DOMAIN stack = 1..n
      /\ f.file \in DOMAIN p.text /\ f.line \in Nat /\ f = [file |-> f.file, line |-> f.line]
      /\ stack \in Seq(FrameOf(p))
  BY FramesAre DEF FramesIn
<1>2. u = [stack EXCEPT ![n] = [f EXCEPT !.line = f.line + 1]]
  BY DEF Advance
<1>3. [f EXCEPT !.line = f.line + 1] = g
  BY <1>1
<1>4. g \in FrameOf(p)
  BY <1>1 DEF FrameOf
<1>5. u = [stack EXCEPT ![n] = g]
  BY <1>2, <1>3
<1> HIDE DEF g, u
<1>6. u \in Seq(FrameOf(p)) /\ Len(u) = n
  BY <1>1, <1>4, <1>5, ExceptSeq
<1>7. \A k \in 1..n : u[k] = IF k = n THEN g ELSE stack[k]
  BY <1>1, <1>5
<1>8. g.file = f.file /\ g.line = f.line + 1
  BY DEF g
<1>9. u[n] = g /\ \A k \in 1..n : k # n => u[k] = stack[k]
  BY Zenon, <1>1, <1>7
<1>10. u[n].file = f.file /\ u[n].line = f.line + 1
  BY <1>8, <1>9
<1> HIDE DEF n, f
<1> QED BY <1>6, <1>9, <1>10 DEF u, n, f

\* The files open are those before.
LEMMA OpenSame ==
  ASSUME NEW p, NEW stack, NEW u, NEW n,
         \A i \in 1..n : u[i].file = stack[i].file,
         NEW k \in 0..n, p.saved \in BOOLEAN, n \in Nat
  PROVE  OpenTo(p, u, k) = OpenTo(p, stack, k)
<1>1. \A i \in FirstOpen(p)..k : u[i].file = stack[i].file
  <2>1. \A i \in FirstOpen(p)..k : i \in 1..n
    BY DEF FirstOpen
  <2> QED BY <2>1
<1> QED BY <1>1 DEF OpenTo

\* Files that are open are counted rightly.
LEMMA OpenIs ==
  ASSUME NEW p \in Projects, NEW stack, FramesIn(p, stack), Distinct(p, stack), p = project
  PROVE  /\ Open(stack) = OpenTo(p, stack, Len(stack)) /\ IsFiniteSet(Open(stack))
         /\ Cardinality(Open(stack)) = Len(stack) - FirstOpen(p) + 1
<1>1. Open(stack) = OpenTo(p, stack, Len(stack))
  BY DEF Open, OpenTo, FirstOpen
<1>2. Len(stack) \in (FirstOpen(p) - 1)..Len(stack)
  BY FramesAre DEF FirstOpen
<1> QED BY <1>1, <1>2 DEF Distinct

\* At the start the document is open and nothing is prepared.
LEMMA NestedStart ==
  ASSUME NEW p \in Projects
  PROVE  Nested(p, <<[file |-> p.root, line |-> 1]>>, <<>>)
<1> DEFINE g == [file |-> p.root, line |-> 1]
           u == <<g>>
           none == <<>>
           b == [k \in 0..1 |-> none]
           a == FirstOpen(p)
<1>1. MaxDepth \in Nat /\ MaxDepth >= 1
  BY ScaleAssumption
<1>2. g \in FrameOf(p) /\ g.file = p.root /\ g.line = 1 /\ p.root \in DOMAIN p.text
  BY ProgramIs DEF FrameOf
<1> HIDE DEF g
<1>3. u \in Seq(FrameOf(p)) /\ Len(u) = 1 /\ u[1] = g
  BY <1>2
<1>4. none \in Seq(LineType) /\ none \o none = none
  OBVIOUS
<1> HIDE DEF u
<1>5. FramesIn(p, u)
  <2>1. Len(p.text[p.root]) \in Nat
    BY <1>2, ProgramIs
  <2>2. \A k \in 1..Len(u) : k = 1
    BY <1>3
  <2>3. Len(u) \in 1..MaxDepth /\ 1..(Len(u) - 1) = {}
    BY <1>1, <1>3
  <2> QED BY <1>2, <1>3, <2>1, <2>2, <2>3 DEF FramesIn
<1>6. Distinct(p, u)
  <2>1. a \in 1..2
    BY DEF FirstOpen
  <2>2. ASSUME NEW k \in (a - 1)..Len(u)
        PROVE  IsFiniteSet(OpenTo(p, u, k)) /\ Cardinality(OpenTo(p, u, k)) = k - a + 1
    <3>1. k \in Int /\ (k = a - 1 \/ (k = 1 /\ a = 1))
      BY <1>3, <2>1
    <3>2. CASE k = a - 1
      <4>1. OpenTo(p, u, k) = {}
        BY <2>1, <3>2 DEF OpenTo
      <4>2. k - a + 1 = 0
        BY <2>1, <3>2
      <4>3. IsFiniteSet({}) /\ Cardinality({}) = 0
        BY FS_EmptySet
      <4> QED BY <4>1, <4>2, <4>3
    <3>3. CASE k = 1 /\ a = 1
      <4>1. OpenTo(p, u, k) = {g.file}
        BY <1>3, <3>3 DEF OpenTo
      <4>2. k - a + 1 = 1
        BY <3>3
      <4>3. IsFiniteSet({g.file}) /\ Cardinality({g.file}) = 1
        BY FS_Singleton
      <4> QED BY <4>1, <4>2, <4>3
    <3> QED BY <3>1, <3>2, <3>3
  <2> QED BY <2>2 DEF Distinct
<1>7. Joined(p, u, none, b)
  <2>1. b[0] = none /\ b[1] = none /\ \A k \in 0..1 : b[k] = none
    OBVIOUS
  <2>2. DoneOf(u, 1) = 0
    BY <1>2, <1>3 DEF DoneOf
  <2>3. FirstParts(p, u[1].file, 1, 0) = none
    <3>1. 1 \in 1..MaxDepth /\ u[1].file \in DOMAIN p.text
      BY <1>1, <1>2, <1>3
    <3> QED BY <3>1, FirstPartsAre
  <2> HIDE DEF b, none
  <2>4. \A k \in 1..Len(u) : b[k] = b[k - 1] \o FirstParts(p, u[k].file, k, DoneOf(u, k))
    <3> TAKE k \in 1..Len(u)
    <3>1. k = 1
      BY <1>3
    <3>2. b[1] = b[0] \o FirstParts(p, u[1].file, 1, DoneOf(u, 1))
      BY <1>4, <2>1, <2>2, <2>3
    <3>3. k - 1 = 0
      BY <3>1
    <3> QED BY <3>1, <3>2, <3>3
  <2> QED BY <1>3, <1>4, <2>1, <2>4 DEF Joined, none
<1> HIDE DEF b
<1> QED BY <1>5, <1>6, <1>7 DEF Nested, u, g

\* The line l is next, and it is no INCLUDE.
Reads(p, stack, l) ==
  /\ stack[Len(stack)].line <= Len(p.text[stack[Len(stack)].file])
  /\ l = p.text[stack[Len(stack)].file][stack[Len(stack)].line] /\ l.op # "INCLUDE"

\* A line of the last file is taken.
LEMMA NestedLine ==
  ASSUME NEW p \in Projects, NEW stack, NEW lines, Nested(p, stack, lines), NEW l,
         Reads(p, stack, l)
  PROVE  Nested(p, Advance(stack), Append(lines, l)) /\ l \in LineType
<1> DEFINE n == Len(stack)
           f == stack[n].file
           m == stack[n].line
           u == Advance(stack)
<1>1. FramesIn(p, stack) /\ Distinct(p, stack)
  BY DEF Nested
<1>2. PICK b : Joined(p, stack, lines, b)
  BY DEF Nested
<1>3. /\ n \in Nat /\ n >= 1 /\ n \in 1..n /\ n <= MaxDepth /\ MaxDepth \in Nat
      /\ f \in DOMAIN p.text /\ m \in Nat /\ m >= 1 /\ Len(p.text[f]) \in Nat
      /\ \A k \in 1..n : stack[k].file \in DOMAIN p.text
  <2>1. /\ n \in Nat /\ n >= 1 /\ n \in 1..n /\ n <= MaxDepth /\ MaxDepth \in Nat
        /\ \A k \in 1..n : /\ stack[k].file \in DOMAIN p.text /\ stack[k].line \in Nat \ {0}
                           /\ Len(p.text[stack[k].file]) \in Nat
    BY <1>1, FramesAre
  <2>2. f \in DOMAIN p.text /\ m \in Nat /\ m >= 1 /\ Len(p.text[f]) \in Nat
    BY <2>1
  <2> QED BY <2>1, <2>2
<1> HIDE DEF n, f, m, u
<1>4. /\ u \in Seq(FrameOf(p)) /\ Len(u) = n /\ (\A k \in 1..n : k # n => u[k] = stack[k])
      /\ u[n].file = f /\ u[n].line = m + 1
  BY Zenon, <1>1, AdvanceIs DEF u, n, f, m
<1>5. l = p.text[f][m] /\ m \in 1..Len(p.text[f]) /\ l \in LineType /\ l.op # "INCLUDE"
  <2>1. l = p.text[f][m] /\ m <= Len(p.text[f]) /\ l.op # "INCLUDE"
    BY Zenon DEF Reads, f, m, n
  <2> QED BY <1>3, <2>1, ProgramIs
<1>6. \A k \in 1..n : u[k].file = stack[k].file
  BY <1>4 DEF f, n
<1>7. FramesIn(p, u)
  <2>1. \A k \in 1..n : u[k].line <= Len(p.text[u[k].file]) + 1
    <3> TAKE k \in 1..n
    <3>1. CASE k = n
      BY <1>3, <1>4, <1>5, <3>1
    <3>2. CASE k # n
      BY <1>1, <1>4, <3>2 DEF FramesIn, n
    <3> QED BY <3>1, <3>2
  <2>2. \A k \in 1..(n - 1) :
          /\ u[k].line >= 2
          /\ p.text[u[k].file][u[k].line - 1].op = "INCLUDE"
          /\ FileName(p.text[u[k].file][u[k].line - 1]) = u[k + 1].file
    <3> TAKE k \in 1..(n - 1)
    <3>1. k \in 1..n /\ k # n /\ k + 1 \in 1..n
      BY <1>3
    <3>2. u[k] = stack[k] /\ u[k + 1].file = stack[k + 1].file
      BY <1>4, <1>6, <3>1
    <3> QED BY <1>1, <3>2 DEF FramesIn, n
  <2>3. u[1].file = p.root
    <3>1. 1 \in 1..n
      BY <1>3
    <3> QED BY <1>1, <1>6, <3>1 DEF FramesIn, n
  <2> QED BY Zenon, <1>1, <1>4, <2>1, <2>2, <2>3 DEF FramesIn, n
<1>8. Distinct(p, u)
  <2>1. ASSUME NEW k \in (FirstOpen(p) - 1)..n PROVE OpenTo(p, u, k) = OpenTo(p, stack, k)
    <3>1. k \in 0..n /\ p.saved \in BOOLEAN
      BY <1>3, ProgramIs DEF FirstOpen
    <3> QED BY <1>3, <1>6, <3>1, OpenSame
  <2> QED BY <1>1, <1>4, <2>1 DEF Distinct, n
<1> DEFINE d == [k \in 0..n |-> IF k = n THEN Append(lines, l) ELSE b[k]]
           x == FirstParts(p, f, n, m - 1)
           y == FirstParts(p, f, n, m)
<1>9. /\ b[0] = <<>> /\ b[n] = lines /\ (\A k \in 0..n : b[k] \in Seq(LineType))
      /\ \A k \in 1..n : b[k] = b[k - 1] \o FirstParts(p, stack[k].file, k, DoneOf(stack, k))
  BY <1>2 DEF Joined, n
<1>10. x \in Seq(LineType) /\ y = x \o <<l>> /\ <<l>> \in Seq(LineType)
  <2>1. n \in 1..MaxDepth
    BY <1>3
  <2>2. m - 1 \in 0..Len(p.text[f])
    BY <1>3, <1>5
  <2>3. x \in Seq(LineType)
    BY <1>3, <2>1, <2>2, FirstPartsAre
  <2>4. \A i \in 1..Len(p.text[f]) :
          FirstParts(p, f, n, i) =
            FirstParts(p, f, n, i - 1) \o
              (IF p.text[f][i].op # "INCLUDE" THEN <<p.text[f][i]>>
               ELSE IF FileName(p.text[f][i]) \in DOMAIN p.text
               THEN FlatOf(p)[MaxDepth + 1 - n][FileName(p.text[f][i])] ELSE <<>>)
    BY Zenon, <1>3, <2>1, FirstPartsAre
  <2>5. y = x \o (IF p.text[f][m].op # "INCLUDE" THEN <<p.text[f][m]>>
                   ELSE IF FileName(p.text[f][m]) \in DOMAIN p.text
                   THEN FlatOf(p)[MaxDepth + 1 - n][FileName(p.text[f][m])] ELSE <<>>)
    BY <1>5, <2>4
  <2> HIDE DEF x, y
  <2> QED BY <1>5, <2>3, <2>5
<1>11. d[n] = d[n - 1] \o y /\ d[n] \in Seq(LineType) /\ d[n] = Append(lines, l)
  <2>1. n - 1 \in 0..n /\ n - 1 # n /\ n \in 0..n
    BY <1>3
  <2>2. d[n] = Append(lines, l) /\ d[n - 1] = b[n - 1]
    BY <2>1
  <2>3. b[n] = b[n - 1] \o x
    BY <1>3, <1>9 DEF DoneOf, n, f, m
  <2>4. lines \in Seq(LineType) /\ b[n - 1] \in Seq(LineType)
    BY <1>9, <2>1
  <2> HIDE DEF d, x, y
  <2>5. Append(lines, l) = lines \o <<l>> /\ Append(lines, l) \in Seq(LineType)
    BY <1>5, <2>4, AppendIsConcat, AppendProperties
  <2>6. (b[n - 1] \o x) \o <<l>> = b[n - 1] \o (x \o <<l>>)
    <3> DEFINE s == b[n - 1]
               t == <<l>>
    <3>1. s \in Seq(LineType) /\ t \in Seq(LineType) /\ x \in Seq(LineType)
      BY <1>10, <2>4
    <3> HIDE DEF s, t
    <3>2. (s \o x) \o t = s \o (x \o t)
      BY <3>1, ConcatAssociative
    <3> QED BY Zenon, <3>2 DEF s, t
  <2> QED BY Zenon, <1>9, <1>10, <2>2, <2>3, <2>5, <2>6
<1>12. Joined(p, u, Append(lines, l), d)
  <2>1. d[0] = <<>>
    BY <1>3, <1>9
  <2>2. \A k \in 0..n : d[k] \in Seq(LineType)
    BY Zenon, <1>9, <1>11
  <2>3. \A k \in 1..n : d[k] = d[k - 1] \o FirstParts(p, u[k].file, k, DoneOf(u, k))
    <3> TAKE k \in 1..n
    <3>1. CASE k = n
      <4>1. DoneOf(u, k) = m
        BY <1>3, <1>4, <3>1 DEF DoneOf
      <4> HIDE DEF d
      <4> QED BY <1>4, <1>11, <3>1, <4>1
    <3>2. CASE k # n
      <4>1. k - 1 \in 0..n /\ k - 1 # n /\ k \in 0..n
        BY <1>3
      <4>2. d[k] = b[k] /\ d[k - 1] = b[k - 1]
        BY <3>2, <4>1
      <4>3. DoneOf(u, k) = DoneOf(stack, k) /\ u[k].file = stack[k].file
        BY <1>4, <3>2 DEF DoneOf, n
      <4> HIDE DEF d
      <4> QED BY <1>9, <4>2, <4>3
    <3> QED BY Zenon, <3>1, <3>2
  <2> HIDE DEF d
  <2> QED BY <1>4, <1>11, <2>1, <2>2, <2>3 DEF Joined
<1> HIDE DEF d
<1> QED BY <1>5, <1>7, <1>8, <1>12 DEF Nested, u
\* Of a file that has just been opened nothing is prepared.
LEMMA NoParts ==
  ASSUME NEW p \in Projects, NEW file \in DOMAIN p.text
  PROVE  \A k \in 1..MaxDepth : FirstParts(p, file, k, 0) = <<>>
BY FirstPartsAre

\* The line l is next, and it includes a file that can be opened.
Includes(p, stack, l, file) ==
  /\ stack[Len(stack)].line <= Len(p.text[stack[Len(stack)].file])
  /\ l = p.text[stack[Len(stack)].file][stack[Len(stack)].line] /\ l.op = "INCLUDE"
  /\ file = FileName(l) /\ file \in DOMAIN p.text /\ file \notin OpenTo(p, stack, Len(stack))
  /\ Cardinality(OpenTo(p, stack, Len(stack))) + 1 < MaxDepth

\* An INCLUDE opens its file.
LEMMA NestedPush ==
  ASSUME NEW p \in Projects, NEW stack, NEW lines, Nested(p, stack, lines), NEW l, NEW file,
         Includes(p, stack, l, file)
  PROVE  Nested(p, Append(Advance(stack), [file |-> file, line |-> 1]), lines)
<1> DEFINE n == Len(stack)
           f == stack[n].file
           m == stack[n].line
           v == Advance(stack)
           g == [file |-> file, line |-> 1]
           u == Append(v, g)
           a == FirstOpen(p)
<1>1. FramesIn(p, stack) /\ Distinct(p, stack)
  BY DEF Nested
<1>2. PICK b : Joined(p, stack, lines, b)
  BY DEF Nested
<1>3. /\ n \in Nat /\ n >= 1 /\ n \in 1..n /\ n <= MaxDepth /\ MaxDepth \in Nat
      /\ f \in DOMAIN p.text /\ m \in Nat /\ m >= 1
      /\ a \in 1..2 /\ p.saved \in BOOLEAN
  <2>1. /\ n \in Nat /\ n >= 1 /\ n \in 1..n /\ n <= MaxDepth /\ MaxDepth \in Nat
        /\ \A k \in 1..n : stack[k].file \in DOMAIN p.text /\ stack[k].line \in Nat \ {0}
    BY <1>1, FramesAre
  <2> HIDE DEF n
  <2>2. a \in 1..2 /\ p.saved \in BOOLEAN
    BY ProgramIs DEF FirstOpen
  <2> QED BY <2>1, <2>2
<1> HIDE DEF f, m, n, v, u, g, a
<1>4. /\ v \in Seq(FrameOf(p)) /\ Len(v) = n /\ (\A k \in 1..n : k # n => v[k] = stack[k])
      /\ v[n].file = f /\ v[n].line = m + 1
  BY Zenon, <1>1, AdvanceIs DEF v, n, f, m
<1>5. g \in FrameOf(p) /\ g.file = file /\ g.line = 1
  <2>1. file \in DOMAIN p.text
    BY DEF Includes
  <2> QED BY <2>1 DEF FrameOf, g
<1>6. /\ u \in Seq(FrameOf(p)) /\ Len(u) = n + 1 /\ u[n + 1] = g
      /\ \A k \in 1..n : u[k] = v[k]
  BY <1>4, <1>5, AppendProperties DEF u
<1>7. /\ l = p.text[f][m] /\ m <= Len(p.text[f]) /\ Len(p.text[f]) \in Nat
      /\ l.op = "INCLUDE" /\ file = FileName(l) /\ file \in DOMAIN p.text
  <2>1. Len(p.text[f]) \in Nat
    BY <1>3, ProgramIs
  <2> QED BY Zenon, <2>1 DEF Includes, f, m, n
<1>8. n + 1 <= MaxDepth
  <2>1. n \in (a - 1)..n
    BY <1>3
  <2>2. Cardinality(OpenTo(p, stack, n)) = n - a + 1
    BY <1>1, <2>1 DEF Distinct, n, a
  <2>3. (n - a + 1) + 1 < MaxDepth
    BY <2>2 DEF Includes, n
  <2> QED BY <1>3, <2>3
<1>9. \A k \in 1..n : u[k].file = stack[k].file
  BY <1>4, <1>6 DEF f, n
<1>10. u[n].file = f /\ u[n].line = m + 1 /\ \A k \in 1..n : k # n => u[k] = stack[k]
  BY <1>3, <1>4, <1>6
<1>11. FramesIn(p, u)
  <2>1. \A k \in 1..(n + 1) : u[k].line <= Len(p.text[u[k].file]) + 1
    <3> TAKE k \in 1..(n + 1)
    <3>1. CASE k = n
      BY <1>3, <1>7, <1>10, <3>1
    <3>2. CASE k = n + 1
      <4>1. Len(p.text[file]) \in Nat
        BY <1>7, ProgramIs
      <4> QED BY <1>5, <1>6, <3>2, <4>1
    <3>3. CASE k # n /\ k # n + 1
      <4>1. k \in 1..n
        BY <1>3, <3>3
      <4> QED BY Zenon, <1>1, <1>10, <3>3, <4>1 DEF FramesIn, n
    <3> QED BY <3>1, <3>2, <3>3
  <2>2. \A k \in 1..((n + 1) - 1) :
          /\ u[k].line >= 2
          /\ p.text[u[k].file][u[k].line - 1].op = "INCLUDE"
          /\ FileName(p.text[u[k].file][u[k].line - 1]) = u[k + 1].file
    <3> TAKE k \in 1..((n + 1) - 1)
    <3>0. k \in 1..n
      BY <1>3
    <3>1. CASE k = n
      <4>1. u[k].line - 1 = m /\ u[k].line >= 2 /\ u[k].file = f /\ u[k + 1].file = file
        BY <1>3, <1>5, <1>6, <1>10, <3>1
      <4> QED BY <1>7, <4>1
    <3>2. CASE k # n
      <4>1. k \in 1..(n - 1) /\ k + 1 \in 1..n
        BY <1>3, <3>0, <3>2
      <4>2. u[k] = stack[k] /\ u[k + 1].file = stack[k + 1].file
        BY <1>9, <1>10, <3>0, <3>2, <4>1
      <4> QED BY Zenon, <1>1, <4>1, <4>2 DEF FramesIn, n
    <3> QED BY <3>1, <3>2
  <2>3. u[1].file = p.root
    <3>1. 1 \in 1..n
      BY <1>3
    <3> QED BY Zenon, <1>1, <1>9, <3>1 DEF FramesIn, n
  <2>4. n + 1 \in 1..MaxDepth
    BY <1>3, <1>8
  <2> QED BY Zenon, <1>6, <2>1, <2>2, <2>3, <2>4 DEF FramesIn
<1>12. Distinct(p, u)
  <2>0. \A k \in 0..n : OpenTo(p, u, k) = OpenTo(p, stack, k)
    <3> TAKE k \in 0..n
    <3>1. \A i \in FirstOpen(p)..k : u[i].file = stack[i].file
      <4>1. \A i \in FirstOpen(p)..k : i \in 1..n
        BY <1>3 DEF a
      <4> QED BY <1>9, <4>1
    <3> QED BY <3>1 DEF OpenTo
  <2>1. ASSUME NEW k \in (a - 1)..(n + 1)
        PROVE  IsFiniteSet(OpenTo(p, u, k)) /\ Cardinality(OpenTo(p, u, k)) = k - a + 1
    <3>1. CASE k <= n
      <4>1. k \in 0..n
        BY <1>3, <3>1
      <4>2. OpenTo(p, u, k) = OpenTo(p, stack, k)
        BY <2>0, <4>1
      <4>3. k \in (a - 1)..n
        BY <1>3, <3>1
      <4> QED BY <1>1, <4>2, <4>3 DEF Distinct, n, a
    <3>2. CASE k = n + 1
      <4> DEFINE o == OpenTo(p, stack, n)
      <4>1. OpenTo(p, u, n) = o
        <5>1. n \in 0..n
          BY <1>3
        <5> QED BY <2>0, <5>1
      <4>2. a..(n + 1) = (a..n) \cup {n + 1}
        BY <1>3
      <4>3. OpenTo(p, u, n + 1) = o \cup {file}
        <5>1. u[n + 1].file = file
          BY <1>5, <1>6
        <5>2. OpenTo(p, u, n + 1) = {u[i].file : i \in (a..n) \cup {n + 1}}
          BY Zenon, <4>2 DEF OpenTo, a
        <5>3. {u[i].file : i \in (a..n) \cup {n + 1}} = {u[i].file : i \in a..n} \cup {u[n + 1].file}
          OBVIOUS
        <5> QED BY Zenon, <4>1, <5>1, <5>2, <5>3 DEF OpenTo, a
      <4>4. n \in (a - 1)..n
        BY <1>3
      <4>5. IsFiniteSet(o) /\ Cardinality(o) = n - a + 1 /\ file \notin o
        BY <1>1, <4>4 DEF Distinct, Includes, n, a
      <4> HIDE DEF o
      <4>6. IsFiniteSet(o \cup {file}) /\ Cardinality(o \cup {file}) = Cardinality(o) + 1
        BY <4>5, FS_AddElement
      <4>7. (n - a + 1) + 1 = k - a + 1
        BY <1>3, <3>2
      <4> QED BY Zenon, <3>2, <4>3, <4>5, <4>6, <4>7
    <3> QED BY <1>3, <3>1, <3>2
  <2> QED BY <1>6, <2>1 DEF Distinct, a
<1> DEFINE none == <<>>
           d == [k \in 0..(n + 1) |-> IF k = n + 1 THEN lines ELSE b[k]]
<1> HIDE DEF d
<1>13. /\ b[0] = none /\ b[n] = lines /\ (\A k \in 0..n : b[k] \in Seq(LineType))
       /\ \A k \in 1..n : b[k] = b[k - 1] \o FirstParts(p, stack[k].file, k, DoneOf(stack, k))
  BY <1>2 DEF Joined, n
<1>14. d[n + 1] = lines /\ \A k \in 0..n : d[k] = b[k] /\ k \in 0..(n + 1)
  BY <1>3 DEF d
<1>15. lines \in Seq(LineType) /\ lines \o none = lines
  <2>1. n \in 0..n
    BY <1>3
  <2> QED BY <1>13, <2>1, ConcatEmptySeq
<1>16. \A k \in 1..n : DoneOf(u, k) = DoneOf(stack, k)
  <2> TAKE k \in 1..n
  <2>1. CASE k = n
    <3>1. DoneOf(u, k) = u[k].line - 2 /\ DoneOf(stack, k) = m - 1 /\ u[k].line = m + 1
      BY <1>3, <1>6, <1>10, <2>1 DEF DoneOf, n, m
    <3> QED BY <1>3, <3>1
  <2>2. CASE k # n
    <3>1. u[k] = stack[k] /\ k # Len(u)
      BY <1>3, <1>6, <1>10, <2>2
    <3> QED BY <2>2, <3>1 DEF DoneOf, n
  <2> QED BY <2>1, <2>2
<1>17. Joined(p, u, lines, d)
  <2>1. d[0] = none
    BY <1>3, <1>13, <1>14
  <2>2. \A k \in 0..(n + 1) : d[k] \in Seq(LineType)
    <3> TAKE k \in 0..(n + 1)
    <3>1. k = n + 1 \/ k \in 0..n
      BY <1>3
    <3> QED BY <1>13, <1>14, <1>15, <3>1
  <2>3. \A k \in 1..(n + 1) : d[k] = d[k - 1] \o FirstParts(p, u[k].file, k, DoneOf(u, k))
    <3> TAKE k \in 1..(n + 1)
    <3>1. CASE k = n + 1
      <4>1. DoneOf(u, k) = 0 /\ u[k].file = file
        BY <1>5, <1>6, <3>1 DEF DoneOf
      <4>2. FirstParts(p, file, k, 0) = none
        <5>1. k \in 1..MaxDepth /\ file \in DOMAIN p.text
          BY <1>3, <1>7, <1>8, <3>1
        <5>2. FirstParts(p, file, k, 0) = <<>>
          BY <5>1, NoParts
        <5> QED BY <5>2
      <4>3. d[k] = lines /\ d[k - 1] = lines
        <5>1. k - 1 = n /\ n \in 0..n
          BY <1>3, <3>1
        <5> QED BY <1>13, <1>14, <3>1, <5>1
      <4> HIDE DEF none
      <4> QED BY Zenon, <1>15, <4>1, <4>2, <4>3
    <3>2. CASE k # n + 1
      <4>1. k \in 1..n /\ k \in 0..n /\ k - 1 \in 0..n
        BY <1>3, <3>2
      <4>2. d[k] = b[k] /\ d[k - 1] = b[k - 1]
        BY <1>14, <4>1
      <4>3. DoneOf(u, k) = DoneOf(stack, k) /\ u[k].file = stack[k].file
        BY <1>9, <1>16, <4>1
      <4> QED BY <1>13, <4>1, <4>2, <4>3
    <3> QED BY <3>1, <3>2
  <2> QED BY <1>6, <1>14, <2>1, <2>2, <2>3 DEF Joined, none
<1> QED BY Zenon, <1>11, <1>12, <1>17 DEF Nested, u, v, g

\* The text of the last file has ended, and it is not the document.
RunsOut(p, stack) ==
  Len(stack) > 1 /\ stack[Len(stack)].line > Len(p.text[stack[Len(stack)].file])

\* The end of an included file: its text is done, and its INCLUDE with it.
LEMMA NestedPop ==
  ASSUME NEW p \in Projects, NEW stack, NEW lines, Nested(p, stack, lines), RunsOut(p, stack)
  PROVE  Nested(p, Front(stack), lines)
<1> DEFINE n == Len(stack)
           f == stack[n].file
           m == stack[n].line
           u == Front(stack)
           h == n - 1
           e == stack[h].file
           i == stack[h].line - 1
<1>1. FramesIn(p, stack) /\ Distinct(p, stack)
  BY DEF Nested
<1>2. PICK b : Joined(p, stack, lines, b)
  BY DEF Nested
<1>3. /\ n \in Nat /\ n > 1 /\ n \in 1..n /\ n <= MaxDepth /\ MaxDepth \in Nat
      /\ h \in 1..n /\ h \in 1..h /\ h \in Nat /\ h >= 1 /\ h + 1 = n /\ n - 1 = h
      /\ f \in DOMAIN p.text /\ m \in Nat /\ e \in DOMAIN p.text /\ stack[h].line \in Nat
      /\ p.saved \in BOOLEAN
  <2>1. /\ n \in Nat /\ n > 1 /\ n \in 1..n /\ n <= MaxDepth /\ MaxDepth \in Nat
        /\ \A k \in 1..n : stack[k].file \in DOMAIN p.text /\ stack[k].line \in Nat \ {0}
    BY <1>1, FramesAre DEF RunsOut
  <2> HIDE DEF n
  <2>2. h \in 1..n /\ h \in 1..h /\ h \in Nat /\ h >= 1 /\ h + 1 = n
    BY <2>1
  <2>3. p.saved \in BOOLEAN
    BY ProgramIs
  <2> QED BY <2>1, <2>2, <2>3
<1> HIDE DEF u, f, m, h, e, i, n
<1>4. u \in Seq(FrameOf(p)) /\ Len(u) = h /\ \A k \in 1..h : u[k] = stack[k]
  <2>1. u = SubSeq(stack, 1, h)
    BY DEF Front, u, h, n
  <2>2. \A k \in 1..h : stack[k] \in FrameOf(p)
    <3>1. \A k \in 1..n : stack[k] \in FrameOf(p)
      BY <1>1, FramesAre DEF n
    <3>2. \A k \in 1..h : k \in 1..n
      BY <1>3
    <3> QED BY <3>1, <3>2
  <2>3. /\ SubSeq(stack, 1, h) \in Seq(FrameOf(p)) /\ Len(SubSeq(stack, 1, h)) = h - 1 + 1
        /\ \A k \in 1..(h - 1 + 1) : SubSeq(stack, 1, h)[k] = stack[1 + k - 1]
    BY <1>3, <2>2, SubSeqProperties
  <2>4. h - 1 + 1 = h /\ \A k \in 1..h : 1 + k - 1 = k
    BY <1>3
  <2> QED BY <2>1, <2>3, <2>4
<1>5. FramesIn(p, u)
  <2>1. \A k \in 1..h : /\ k \in 1..n
                        /\ (k \in 1..(h - 1) => k \in 1..(n - 1) /\ k + 1 \in 1..h)
    BY <1>3
  <2>2. h \in 1..MaxDepth /\ 1 \in 1..h
    BY <1>3
  <2>3. u[1].file = p.root
    BY <1>1, <1>4, <2>2 DEF FramesIn, n
  <2>4. \A k \in 1..h : u[k].line <= Len(p.text[u[k].file]) + 1
    BY <1>1, <1>4, <2>1 DEF FramesIn, n
  <2>5. \A k \in 1..(h - 1) : /\ u[k].line >= 2
                              /\ p.text[u[k].file][u[k].line - 1].op = "INCLUDE"
                              /\ FileName(p.text[u[k].file][u[k].line - 1]) = u[k + 1].file
    <3> TAKE k \in 1..(h - 1)
    <3>1. k \in 1..h /\ k \in 1..(n - 1) /\ k + 1 \in 1..h
      BY <1>3
    <3>2. u[k] = stack[k] /\ u[k + 1] = stack[k + 1]
      BY <1>4, <3>1
    <3> QED BY <1>1, <3>1, <3>2 DEF FramesIn, n
  <2> QED BY <1>4, <2>2, <2>3, <2>4, <2>5 DEF FramesIn
<1>6. Distinct(p, u)
  <2>1. ASSUME NEW k \in (FirstOpen(p) - 1)..h
        PROVE  OpenTo(p, u, k) = OpenTo(p, stack, k) /\ k \in (FirstOpen(p) - 1)..n
    <3>1. k \in 0..h /\ k \in (FirstOpen(p) - 1)..n
      BY <1>3 DEF FirstOpen
    <3>2. \A j \in 1..h : u[j].file = stack[j].file
      BY <1>4
    <3> QED BY Zenon, <1>3, <3>1, <3>2, OpenSame
  <2> QED BY <1>1, <1>4, <2>1 DEF Distinct, n
<1> DEFINE none == <<>>
           d == [k \in 0..h |-> IF k = h THEN lines ELSE b[k]]
           y == FirstParts(p, f, n, m - 1)
           x == FirstParts(p, e, h, i - 1)
           z == FirstParts(p, e, h, i)
<1>7. /\ b[0] = none /\ b[n] = lines /\ (\A k \in 0..n : b[k] \in Seq(LineType))
      /\ \A k \in 1..n : b[k] = b[k - 1] \o FirstParts(p, stack[k].file, k, DoneOf(stack, k))
  BY <1>2 DEF Joined, n
<1>8. m - 1 = Len(p.text[f])
  <2>1. m <= Len(p.text[f]) + 1
    BY <1>1, <1>3 DEF FramesIn, f, m, n
  <2>2. m > Len(p.text[f])
    BY DEF RunsOut, f, m, n
  <2>3. Len(p.text[f]) \in Nat
    BY <1>3, ProgramIs
  <2> QED BY <1>3, <2>1, <2>2, <2>3
<1>9. /\ i \in 1..Len(p.text[e]) /\ p.text[e][i].op = "INCLUDE" /\ FileName(p.text[e][i]) = f
  <2>1. h \in 1..(n - 1)
    BY <1>3
  <2>2. /\ stack[h].line >= 2 /\ p.text[e][i].op = "INCLUDE"
        /\ FileName(p.text[e][i]) = stack[h + 1].file
    BY <1>1, <2>1 DEF FramesIn, e, i, n
  <2>3. stack[h].line <= Len(p.text[e]) + 1 /\ Len(p.text[e]) \in Nat
    BY <1>1, <1>3, ProgramIs DEF FramesIn, e, n
  <2>4. stack[h + 1].file = f
    BY <1>3 DEF f
  <2>5. i = stack[h].line - 1
    BY DEF i
  <2> QED BY <1>3, <2>2, <2>3, <2>4, <2>5
<1>10. y \in Seq(LineType) /\ y = FlatOf(p)[MaxDepth + 2 - n][f]
  <2>1. n \in 1..MaxDepth /\ Len(p.text[f]) \in 0..Len(p.text[f])
    <3>1. Len(p.text[f]) \in Nat
      BY <1>3, ProgramIs
    <3> QED BY <1>3, <3>1
  <2> HIDE DEF y
  <2>2. /\ FirstParts(p, f, n, Len(p.text[f])) \in Seq(LineType)
        /\ FirstParts(p, f, n, Len(p.text[f])) = FlatOf(p)[MaxDepth + 2 - n][f]
    BY <1>3, <2>1, FirstPartsAre
  <2> QED BY <1>8, <2>2 DEF y
<1>11. x \in Seq(LineType) /\ z = x \o FlatOf(p)[MaxDepth + 1 - h][f]
  <2>1. h \in 1..MaxDepth /\ i - 1 \in 0..Len(p.text[e])
    BY <1>3, <1>9
  <2>2. x \in Seq(LineType)
    BY <1>3, <2>1, FirstPartsAre
  <2>3. \A j \in 1..Len(p.text[e]) :
          FirstParts(p, e, h, j) =
            FirstParts(p, e, h, j - 1) \o
              (IF p.text[e][j].op # "INCLUDE" THEN <<p.text[e][j]>>
               ELSE IF FileName(p.text[e][j]) \in DOMAIN p.text
               THEN FlatOf(p)[MaxDepth + 1 - h][FileName(p.text[e][j])] ELSE <<>>)
    BY <1>3, <2>1, FirstPartsAre
  <2>4. z = x \o (IF p.text[e][i].op # "INCLUDE" THEN <<p.text[e][i]>>
                   ELSE IF FileName(p.text[e][i]) \in DOMAIN p.text
                   THEN FlatOf(p)[MaxDepth + 1 - h][FileName(p.text[e][i])] ELSE <<>>)
    BY <1>9, <2>3
  <2> HIDE DEF x, z
  <2> QED BY <1>3, <1>9, <2>2, <2>4
<1>12. MaxDepth + 1 - h = MaxDepth + 2 - n
  BY <1>3
<1>13. DoneOf(stack, n) = m - 1 /\ DoneOf(stack, h) = i - 1 /\ DoneOf(u, h) = i
       /\ \A k \in 1..h : k # h => DoneOf(u, k) = DoneOf(stack, k)
  <2>1. DoneOf(stack, n) = m - 1
    BY DEF DoneOf, m, n
  <2>2. h # n /\ stack[h].line - 2 = (stack[h].line - 1) - 1
    BY <1>3
  <2>3. DoneOf(stack, h) = i - 1
    BY <2>2 DEF DoneOf, i, n
  <2>4. DoneOf(u, h) = i
    BY <1>3, <1>4 DEF DoneOf, i
  <2>5. ASSUME NEW k \in 1..h, k # h PROVE DoneOf(u, k) = DoneOf(stack, k)
    <3>1. k # n /\ u[k] = stack[k]
      BY <1>3, <1>4
    <3> QED BY <1>4, <2>5, <3>1 DEF DoneOf, n
  <2> QED BY <2>1, <2>3, <2>4, <2>5
<1>14. lines = b[h - 1] \o z
  <2>1. b[n] = b[h] \o y
    <3>1. b[n] = b[n - 1] \o FirstParts(p, stack[n].file, n, DoneOf(stack, n))
      BY <1>3, <1>7
    <3> QED BY <1>3, <1>13, <3>1 DEF f
  <2>2. b[h] = b[h - 1] \o x
    <3>1. b[h] = b[h - 1] \o FirstParts(p, stack[h].file, h, DoneOf(stack, h))
      BY <1>3, <1>7
    <3> QED BY <1>13, <3>1 DEF e
  <2>3. h - 1 \in 0..n
    BY <1>3
  <2> DEFINE s == b[h - 1]
  <2>4. s \in Seq(LineType)
    BY <1>7, <2>3
  <2>0. x \in Seq(LineType) /\ y \in Seq(LineType)
    BY <1>10, <1>11
  <2> HIDE DEF s, x, y, z
  <2>5. (s \o x) \o y = s \o (x \o y)
    BY <2>0, <2>4, ConcatAssociative
  <2>6. z = x \o y
    BY <1>10, <1>11, <1>12
  <2>7. b[h] = s \o x
    BY <2>2 DEF s
  <2>8. b[n] = lines
    BY <1>7
  <2> QED BY <2>1, <2>5, <2>6, <2>7, <2>8 DEF s
<1>15. lines \in Seq(LineType)
  <2>1. n \in 0..n
    BY <1>3
  <2> QED BY <1>7, <2>1
<1>16. d[h] = lines /\ \A k \in 0..h : k # h => d[k] = b[k]
  BY <1>3
<1> HIDE DEF d, z
<1>17. Joined(p, u, lines, d)
  <2>1. d[0] = none
    <3>1. 0 \in 0..h /\ 0 # h
      BY <1>3
    <3> QED BY <1>7, <1>16, <3>1
  <2>2. \A k \in 0..h : d[k] \in Seq(LineType)
    <3> TAKE k \in 0..h
    <3>1. k \in 0..n
      BY <1>3
    <3> QED BY <1>7, <1>15, <1>16, <3>1
  <2>3. \A k \in 1..h : d[k] = d[k - 1] \o FirstParts(p, u[k].file, k, DoneOf(u, k))
    <3> TAKE k \in 1..h
    <3>1. k - 1 \in 0..h /\ k - 1 # h /\ k \in 0..h /\ k \in 1..n
      BY <1>3
    <3>2. d[k - 1] = b[k - 1] /\ u[k].file = stack[k].file
      BY <1>4, <1>16, <3>1
    <3>3. CASE k = h
      <4>1. d[k] = lines /\ d[k - 1] = b[h - 1]
        BY <1>16, <3>2, <3>3
      <4>2. FirstParts(p, u[k].file, k, DoneOf(u, k)) = z
        BY <1>13, <3>2, <3>3 DEF e, z
      <4> QED BY <1>14, <4>1, <4>2
    <3>4. CASE k # h
      <4>1. d[k] = b[k] /\ DoneOf(u, k) = DoneOf(stack, k)
        BY <1>13, <1>16, <3>1, <3>4
      <4>2. b[k] = b[k - 1] \o FirstParts(p, stack[k].file, k, DoneOf(stack, k))
        BY <1>7, <3>1
      <4> QED BY <3>2, <4>1, <4>2
    <3> QED BY <3>3, <3>4
  <2> QED BY <1>4, <1>16, <2>1, <2>2, <2>3 DEF Joined, none
<1> QED BY <1>5, <1>6, <1>17 DEF Nested, u

\* The end of the text.
LEMMA NestedEnd ==
  ASSUME NEW p \in Projects, NEW stack, NEW lines, Nested(p, stack, lines), Len(stack) = 1,
         stack[1].line > Len(p.text[stack[1].file])
  PROVE  lines = FlatOf(p)[MaxDepth + 1][p.root] /\ lines \in Seq(LineType)
<1> DEFINE f == p.root
           n == Len(p.text[f])
           none == <<>>
<1>1. FramesIn(p, stack) /\ stack[1].file = f
  BY DEF Nested, FramesIn
<1>2. PICK b : Joined(p, stack, lines, b)
  BY DEF Nested
<1>3. n \in Nat /\ f \in DOMAIN p.text /\ MaxDepth \in Nat /\ 1 \in 1..MaxDepth
      /\ MaxDepth + 2 - 1 = MaxDepth + 1
  BY ProgramIs, ScaleAssumption
<1>4. stack[1].line - 1 = n
  <2>1. 1 \in 1..Len(stack)
    OBVIOUS
  <2>2. stack[1].line <= n + 1 /\ stack[1].line > n
    BY <1>1, <2>1 DEF FramesIn
  <2>3. stack[1].line \in Nat
    BY <1>1, <2>1, FramesAre
  <2> HIDE DEF n
  <2> QED BY <1>3, <2>2, <2>3
<1>5. DoneOf(stack, 1) = n
  BY <1>4 DEF DoneOf
<1>6. b[0] = none /\ b[1] = lines /\ b[1] \in Seq(LineType)
      /\ b[1] = b[0] \o FirstParts(p, f, 1, n)
  <2>1. 1 \in 1..Len(stack) /\ 1 \in 0..Len(stack) /\ 1 - 1 = 0
    OBVIOUS
  <2>2. b[1] = b[1 - 1] \o FirstParts(p, stack[1].file, 1, DoneOf(stack, 1))
    BY <1>2, <2>1 DEF Joined
  <2>3. b[0] = none /\ b[1] = lines /\ b[1] \in Seq(LineType)
    BY <1>2, <2>1 DEF Joined
  <2> QED BY <1>1, <1>5, <2>1, <2>2, <2>3
<1> HIDE DEF f, n
<1>7. FirstParts(p, f, 1, n) = FlatOf(p)[MaxDepth + 1][f] /\ FirstParts(p, f, 1, n) \in Seq(LineType)
  <2>1. n \in 0..n
    BY <1>3
  <2>2. FirstParts(p, f, 1, n) \in Seq(LineType) /\ FirstParts(p, f, 1, n) = FlatOf(p)[MaxDepth + 2 - 1][f]
    BY <1>3, <2>1, FirstPartsAre DEF n
  <2> QED BY <1>3, <2>2
<1>8. none \o FirstParts(p, f, 1, n) = FirstParts(p, f, 1, n)
  BY <1>7, ConcatEmptySeq
<1> QED BY <1>6, <1>7, <1>8 DEF f
-----------------------------------------------------------------------------
(* A line of pass 2, as it is recorded.                                    *)

BytesOf(c, w, n) ==
  [b \in 1..n |-> IF c.target = "tape" THEN w.ctx.output.bytes[Len(w.ctx.output.bytes) - n + b]
                  ELSE w.ram[c.address + b - 1]]

\* Where a line lies by the record: its labels, what follows it, its jumps.
Laid(l, a, bytes, next, labels) ==
  /\ \A n \in NamesOf(l.labels) : n \in DOMAIN labels /\ labels[n] = a
  /\ l.op # "ORG" /\ bytes = <<>> => next = a
  /\ \A name \in DOMAIN labels : JumpsTo(l, name) =>
       /\ l.op = "JP" => bytes[2] = Low(labels[name])
       /\ l.op = "JR" => bytes[2].value = labels[name] - (a + 2)

LEMMA BytesAre ==
  ASSUME NEW c, NEW w, NEW n \in Nat
  PROVE  /\ Len(BytesOf(c, w, n)) = n /\ DOMAIN BytesOf(c, w, n) = 1..n
         /\ BytesOf(c, w, n) = <<>> <=> n = 0
<1> DEFINE g == BytesOf(c, w, n)
<1>1. DOMAIN g = 1..n /\ g = [b \in 1..n |-> g[b]]
  BY DEF BytesOf
<1> HIDE DEF g
<1>2. Len(g) = n
  BY <1>1
<1>3. n = 0 => g = <<>>
  BY <1>1
<1>4. g = <<>> => n = 0
  BY <1>2
<1> QED BY <1>1, <1>2, <1>3, <1>4 DEF g

\* On a tape the record is what was appended.
LEMMA TapeBytes ==
  ASSUME NEW c \in Context, c.target = "tape", NEW w, NEW x \in Seq(BytesType),
         Appends(c, w.ctx, x)
  PROVE  BytesOf(c, w, Len(x)) = x
<1> DEFINE o == c.output.bytes
           v == w.ctx.output.bytes
           n == Len(x)
<1>1. v = o \o x /\ o \in Seq(BytesType)
  BY ContextIs DEF Appends
<1> HIDE DEF o, v
<1>2. Len(v) = Len(o) + n /\ Len(o) \in Nat /\ n \in Nat /\ \A b \in 1..n : v[Len(o) + b] = x[b]
  BY <1>1
<1>3. BytesOf(c, w, n) = [b \in 1..n |-> v[Len(v) - n + b]]
  BY DEF BytesOf, v
<1>4. \A b \in 1..n : v[Len(v) - n + b] = x[b]
  <2> HIDE DEF n
  <2>1. Len(v) - n = Len(o)
    BY <1>2
  <2> QED BY <1>2, <2>1
<1>5. x = [b \in 1..n |-> x[b]]
  OBVIOUS
<1> HIDE DEF n
<1> QED BY <1>3, <1>4, <1>5 DEF n

\* A line done in pass 2 is recorded with the bytes it put down.
LEMMA RecordIs ==
  ASSUME NEW c, GoodContext(c), Begun(c), c.pass = 2, c.target # "none", NEW r \in RamType,
         NEW l \in LineType, binSize \in SizeType, NEW w, w = AssembleLine(c, r, l), w.ok,
         NEW n, n = w.ctx.total - c.total
  PROVE  /\ n \in Nat
         /\ Laid(l, c.address, BytesOf(c, w, n), w.ctx.address, w.ctx.labels)
         /\ c.target = "tape" => \E x \in Seq(BytesType) :
              Len(x) = n /\ BytesOf(c, w, n) = x /\ Appends(c, w.ctx, x)
<1> DEFINE z == BytesOf(c, w, n)
<1>1. Kept(c, r, l, w) /\ c \in Context /\ c.target \in {"machine", "tape"} /\ c.total \in Nat
  BY LineKept, ContextIs DEF GoodContext
<1>2. LineDone(c, r, w) /\ Lays(c, w, l.op) /\ w.ctx.labels = c.labels
      /\ \A m \in NamesOf(l.labels) : m \in DOMAIN w.ctx.labels /\ w.ctx.labels[m] = c.address
  BY <1>1 DEF Kept, LineDone
<1>3. PICK x \in Seq(BytesType) :
        /\ w.ctx.total = c.total + Len(x) /\ Appends(c, w.ctx, x)
        /\ x = <<>> /\ l.op # "ORG" => w.ctx.address = c.address
  BY <1>2 DEF Lays
<1>4. n = Len(x) /\ n \in Nat /\ (x = <<>> <=> n = 0)
  <2>1. Len(x) \in Nat /\ (x = <<>> <=> Len(x) = 0)
    OBVIOUS
  <2> QED BY <1>1, <1>3, <2>1
<1>5. l.op # "ORG" /\ z = <<>> => w.ctx.address = c.address
  BY <1>3, <1>4, BytesAre
<1>6. c.target = "tape" => z = x
  BY <1>1, <1>3, <1>4, TapeBytes
<1> HIDE DEF z
<1>7. ASSUME NEW name \in DOMAIN w.ctx.labels, JumpsTo(l, name)
      PROVE  /\ l.op = "JP" => z[2] = Low(w.ctx.labels[name])
             /\ l.op = "JR" => z[2].value = w.ctx.labels[name] - (c.address + 2)
  <2>1. JumpGives(c, r, l, w, name)
    BY <1>2, <1>7, LineJumps
  <2>2. PICK y \in Seq(BytesType) :
          /\ Gave(c, r, w, y) /\ Len(y) >= 2
          /\ l.op = "JP" => y[2] = Low(c.labels[name])
          /\ l.op = "JR" => y[2].value = c.labels[name] - (c.address + 2)
    BY <2>1 DEF JumpGives
  <2>3. w.ctx.total = c.total + Len(y) /\ Appends(c, w.ctx, y)
        /\ (c.target = "machine" => \A b \in 1..Len(y) : w.ram[c.address + b - 1] = y[b])
    BY <2>2 DEF Gave
  <2>4. n = Len(y) /\ 2 \in 1..n
    <3>1. Len(y) \in Nat
      OBVIOUS
    <3> QED BY <1>1, <1>4, <2>2, <2>3, <3>1
  <2>5. z[2] = y[2]
    <3>1. CASE c.target = "tape"
      <4>1. BytesOf(c, w, Len(y)) = y
        BY <1>1, <2>3, <3>1, TapeBytes
      <4> QED BY <2>4, <4>1 DEF z
    <3>2. CASE c.target = "machine"
      <4>1. z[2] = w.ram[c.address + 2 - 1]
        BY <2>4, <3>2 DEF z, BytesOf
      <4> QED BY <2>3, <2>4, <3>2, <4>1
    <3> QED BY <1>1, <3>1, <3>2
  <2> QED BY <1>2, <2>2, <2>5
<1>8. Laid(l, c.address, z, w.ctx.address, w.ctx.labels)
  BY <1>2, <1>5, <1>7 DEF Laid
<1>9. c.target = "tape" => \E y \in Seq(BytesType) : Len(y) = n /\ z = y /\ Appends(c, w.ctx, y)
  BY <1>3, <1>4, <1>6
<1> QED BY <1>4, <1>8, <1>9 DEF z

-----------------------------------------------------------------------------
(* The tape block and its record.                                          *)

LEMMA SeqWiden ==
  ASSUME NEW S, NEW s \in Seq(S), NEW e
  PROVE  /\ s \in Seq(S \cup {e}) /\ Append(s, e) \in Seq(S \cup {e})
         /\ Len(Append(s, e)) = Len(s) + 1 /\ Len(s) \in Nat
         /\ DOMAIN s = 1..Len(s) /\ DOMAIN Append(s, e) = 1..(Len(s) + 1)
         /\ Append(s, e)[Len(s) + 1] = e /\ \A i \in 1..Len(s) : Append(s, e)[i] = s[i]
<1> DEFINE T == S \cup {e}
<1>1. s \in Seq(T) /\ e \in T
  BY SeqMonotonic
<1> HIDE DEF T
<1>2. /\ Append(s, e) \in Seq(T) /\ Len(Append(s, e)) = Len(s) + 1 /\ Len(s) \in Nat
      /\ DOMAIN s = 1..Len(s) /\ DOMAIN Append(s, e) = 1..(Len(s) + 1)
      /\ Append(s, e)[Len(s) + 1] = e /\ \A i \in 1..Len(s) : Append(s, e)[i] = s[i]
  BY <1>1
<1> QED BY <1>1, <1>2 DEF T

OnTape(c, at, bs) ==
  /\ \A i \in DOMAIN at : \A b \in DOMAIN bs[i] :
       LET place == at[i] - c.output.start + b
       IN  place \in DOMAIN c.output.bytes /\ c.output.bytes[place] = bs[i][b]
  /\ Len(c.output.bytes) = c.total

\* The block grows by the bytes of the line, at the distance the line's
\* address has.
LEMMA TapeGrows ==
  ASSUME NEW c \in Context, NEW d \in Context, c.target = "tape", Begun(c), NEW x \in Seq(BytesType),
         Appends(c, d, x), d.total = c.total + Len(x),
         NEW at \in Seq(Places), NEW S, NEW bs \in Seq(S), Len(at) = Len(bs), OnTape(c, at, bs)
  PROVE  OnTape(d, Append(at, c.address), Append(bs, x)) /\ Begun(d)
<1> DEFINE o == c.output.bytes
           v == d.output.bytes
           n == Len(at)
           p == Append(at, c.address)
           q == Append(bs, x)
<1>1. v = o \o x /\ o \in Seq(BytesType) /\ Begun(d) /\ c.address \in Places /\ c.total \in Nat
  BY ContextIs DEF Appends
<1>2. /\ c.output.start # Nowhere => d.output.start = c.output.start
      /\ x # <<>> => d.output.start + Len(o) = c.address
  BY DEF Appends
<1>3. c.output.start = Nowhere => o = <<>>
  BY DEF Begun
<1>4. \A i \in DOMAIN at : \A b \in DOMAIN bs[i] :
        (at[i] - c.output.start + b) \in DOMAIN o /\ o[at[i] - c.output.start + b] = bs[i][b]
  BY DEF OnTape
<1>5. Len(o) = c.total
  BY DEF OnTape
<1>6. c.output.start \in Int /\ d.output.start \in Int /\ c.address \in Int
  <2>1. c.output.start \in Places \cup {Nowhere} /\ d.output.start \in Places \cup {Nowhere}
    BY ContextIs
  <2>2. \A a \in Places : a \in Int
    BY DEF Places
  <2> QED BY <1>1, <2>1, <2>2 DEF Nowhere
<1> HIDE DEF o, v, p, q, n
<1>7. /\ Len(v) = Len(o) + Len(x) /\ Len(o) \in Nat /\ Len(x) \in Nat
      /\ DOMAIN o = 1..Len(o) /\ DOMAIN v = 1..(Len(o) + Len(x)) /\ DOMAIN x = 1..Len(x)
      /\ (\A b \in 1..Len(o) : v[b] = o[b]) /\ \A b \in 1..Len(x) : v[Len(o) + b] = x[b]
  BY <1>1
<1>8. /\ n \in Nat /\ DOMAIN at = 1..n /\ DOMAIN p = 1..(n + 1) /\ DOMAIN bs = 1..n
      /\ p[n + 1] = c.address /\ q[n + 1] = x
      /\ \A i \in 1..n : p[i] = at[i] /\ q[i] = bs[i] /\ at[i] \in Int
  <2>1. /\ Len(at) \in Nat /\ DOMAIN at = 1..Len(at) /\ DOMAIN Append(at, c.address) = 1..(Len(at) + 1)
        /\ Append(at, c.address)[Len(at) + 1] = c.address
        /\ \A i \in 1..Len(at) : Append(at, c.address)[i] = at[i]
    BY SeqWiden
  <2>2. /\ DOMAIN bs = 1..Len(bs) /\ Append(bs, x)[Len(bs) + 1] = x
        /\ \A i \in 1..Len(bs) : Append(bs, x)[i] = bs[i]
    BY SeqWiden
  <2>3. \A i \in 1..Len(at) : at[i] \in Int
    <3>1. \A i \in 1..Len(at) : at[i] \in Places
      BY ElementOfSeq
    <3> QED BY <3>1 DEF Places
  <2> QED BY <2>1, <2>2, <2>3 DEF n, p, q
<1>9. ASSUME NEW i \in DOMAIN p, NEW b \in DOMAIN q[i]
      PROVE  (p[i] - d.output.start + b) \in DOMAIN v /\ v[p[i] - d.output.start + b] = q[i][b]
  <2>1. CASE i = n + 1
    <3>1. b \in 1..Len(x) /\ x # <<>>
      BY <1>7, <1>8, <2>1
    <3>2. p[i] - d.output.start + b = Len(o) + b
      BY <1>2, <1>6, <1>7, <1>8, <2>1, <3>1
    <3>3. Len(o) + b \in 1..(Len(o) + Len(x))
      BY <1>7, <3>1
    <3> QED BY <1>7, <1>8, <2>1, <3>1, <3>2, <3>3
  <2>2. CASE i # n + 1
    <3>1. i \in 1..n /\ p[i] = at[i] /\ q[i] = bs[i] /\ b \in DOMAIN bs[i]
      BY <1>8, <2>2
    <3>2. (at[i] - c.output.start + b) \in 1..Len(o) /\ o[at[i] - c.output.start + b] = bs[i][b]
      BY <1>4, <1>7, <1>8, <3>1
    <3>3. d.output.start = c.output.start
      <4>1. o # <<>>
        BY <1>7, <3>2
      <4> QED BY <1>2, <1>3, <4>1
    <3>4. \A k \in 1..Len(o) : k \in DOMAIN v /\ v[k] = o[k]
      BY <1>7
    <3> QED BY <3>1, <3>2, <3>3, <3>4
  <2> QED BY <2>1, <2>2
<1>10. Len(v) = d.total
  BY <1>5, <1>7
<1> QED BY <1>1, <1>9, <1>10 DEF OnTape, p, q, v

\* A pass begins with empty tables.
LEMMA NewContextIs ==
  ASSUME NEW a \in Places
  PROVE  /\ GoodContext(NewContext(a)) /\ NewContext(a).pass = 1 /\ NewContext(a).address = a
         /\ NewContext(a).exhausted = FALSE /\ NewContext(a).target = "none"
         /\ NewContext(a).output = NoOutput /\ DOMAIN NewContext(a).labels = {}
<1> DEFINE c == NewContext(a)
           t == NoSymbols
<1>1. DOMAIN t = {} /\ \A V : t \in [{} -> V]
  BY DEF NoSymbols
<1> HIDE DEF t
<1>2. \A V : t \in Tables(V)
  BY <1>1 DEF Tables
<1>3. c = [pass |-> 1, address |-> a, exhausted |-> FALSE, target |-> "none",
           labels |-> t, constants |-> t, total |-> 0, output |-> NoOutput]
  BY DEF NewContext, t
<1>4. NoOutput \in OutputType
  BY DEF NoOutput, OutputType
<1> HIDE DEF c
<1>5. c \in Context
  BY <1>2, <1>3, <1>4 DEF Context
<1>6. Holds(t)
  <2>1. IsFiniteSet({}) /\ Cardinality({}) = 0
    BY FS_EmptySet
  <2>2. 0 <= MaxLabels
    BY ScaleAssumption
  <2> QED BY <1>1, <2>1, <2>2 DEF Holds
<1>7. /\ c.pass = 1 /\ c.address = a /\ c.exhausted = FALSE /\ c.target = "none"
      /\ c.output = NoOutput /\ c.labels = t /\ c.constants = t
  BY <1>3
<1>8. GoodContext(c)
  BY <1>1, <1>5, <1>6, <1>7 DEF GoodContext
<1> QED BY <1>1, <1>7, <1>8 DEF c
-----------------------------------------------------------------------------
(* The state of a build.                                                   *)

JobOf(phase, command, stack, lines, line, start, result) ==
  [phase |-> phase, command |-> command, stack |-> stack, lines |-> lines, line |-> line,
   start |-> start, result |-> result]

IsJob(j) ==
  /\ j = JobOf(j.phase, j.command, j.stack, j.lines, j.line, j.start, j.result)
  /\ j.phase \in {"idle", "expand", "scan", "pass"}
  /\ j.command \in {"none", "assemble", "run", "export"}
  /\ j.start \in Places \cup {Nowhere} /\ j.result \in {"none", "ok", "error"}

\* The lines to be assembled.
Whole(p) == FlatOf(p)[MaxDepth + 1][p.root]

\* What each phase works on.
Staged(p, j, c, h) ==
  /\ j.phase = "idle" => j.lines = <<>> /\ j.line = 1 /\ j.stack = <<>>
  /\ j.phase = "expand" => j.line = 1 /\ Nested(p, j.stack, j.lines)
  /\ j.phase \in {"scan", "pass"} =>
       /\ j.lines = Whole(p) /\ j.lines \in Seq(LineType) /\ j.stack = <<>>
       /\ j.line \in 1..(Len(j.lines) + 1)
  /\ j.phase \in {"expand", "scan"} => h = NoHistory
  /\ j.phase = "scan" => c.pass = 1 /\ c.target = "none"
  /\ j.phase = "pass" => j.start \in Places
  /\ j.phase = "pass" /\ c.pass = 1 =>
       c.target = "none" /\ h.at = <<>> /\ h.bytes = <<>>
  /\ j.phase = "pass" /\ c.target # "tape" => c.output = NoOutput
  /\ j.phase = "pass" /\ c.pass = 2 =>
       c.target = IF j.command = "export" THEN "tape" ELSE "machine"
  /\ j.phase # "idle" => j.result = "none"

\* Each label of a pass is one of a line.
Sourced(j, c) ==
  j.phase = "pass" =>
    \A n \in DOMAIN c.labels : \E i \in 1..Len(j.lines) : n \in NamesOf(j.lines[i].labels)

\* The lines of pass 2 that are done, and where they lie.
NextAt(h, c, i) == IF i < Len(h.at) THEN h.at[i + 1] ELSE c.address
Listed(j, c, h) ==
  j.phase = "pass" /\ c.pass = 2 =>
    /\ h.at \in Seq(Places) /\ Len(h.at) = j.line - 1 /\ Len(h.bytes) = j.line - 1
    /\ \E S : h.bytes \in Seq(S)
    /\ \A i \in 1..(j.line - 1) : Laid(j.lines[i], h.at[i], h.bytes[i], NextAt(h, c, i), c.labels)

Taped(j, c, h) ==
  c.target = "tape" =>
    /\ j.phase = "pass" \/ j.result = "ok" => OnTape(c, h.at, h.bytes)
    /\ j.phase = "pass" => Begun(c)

\* A line that pass 1 takes, from one context to the next.
Goes(x, l, y) == \E r \in RamType : AssembleLine(x, r, l).ok /\ AssembleLine(x, r, l).ctx = y

\* The contexts pass 1 has gone through: up to its line, or, in pass 2, to the
\* end, and pass 2 is where pass 1 was.
Trail(cs, j, c, m) ==
  /\ \A i \in 1..m : /\ GoodContext(cs[i]) /\ cs[i].pass = 1 /\ cs[i].target = "none"
                     /\ Grown(cs[i], c)
  /\ cs[1].address = j.start /\ cs[1].exhausted = FALSE
  /\ \A i \in 1..(m - 1) : Goes(cs[i], j.lines[i], cs[i + 1])
  /\ c.pass = 1 => m = j.line /\ cs[m] = c
  /\ c.pass = 2 => m = Len(j.lines) + 1 /\ SamePlace(cs[j.line], c)
Trailed(j, c, h) ==
  j.phase = "pass" /\ h.steady /\ c.target # "tape" => \E cs, m : m \in Nat /\ Trail(cs, j, c, m)

HeldInv ==
  /\ project \in Projects /\ binSize \in project.binSizes /\ ram \in RamType
  /\ tape.length = Len(tape.bytes) /\ running \in Places \cup {Nowhere}
  /\ history = [at |-> history.at, bytes |-> history.bytes, steady |-> history.steady]

AsmInv ==
  /\ HeldInv /\ IsJob(job) /\ GoodContext(ctx)
  /\ Staged(project, job, ctx, history) /\ Sourced(job, ctx) /\ Listed(job, ctx, history)
  /\ Taped(job, ctx, history) /\ Trailed(job, ctx, history)

\* Two jobs.
LEMMA JobIs ==
  ASSUME NEW a, NEW b, NEW s, NEW l, NEW n, NEW t, NEW r, NEW j, j = JobOf(a, b, s, l, n, t, r)
  PROVE  /\ j.phase = a /\ j.command = b /\ j.stack = s /\ j.lines = l /\ j.line = n
         /\ j.start = t /\ j.result = r
BY DEF JobOf

LEMMA JobParts ==
  ASSUME NEW j, IsJob(j)
  PROVE  j = [phase |-> j.phase, command |-> j.command, stack |-> j.stack, lines |-> j.lines,
              line |-> j.line, start |-> j.start, result |-> j.result]
BY DEF IsJob, JobOf

LEMMA StackSet ==
  ASSUME NEW j, IsJob(j), NEW x, NEW e, e = [j EXCEPT !.stack = x]
  PROVE  e = JobOf(j.phase, j.command, x, j.lines, j.line, j.start, j.result)
<1>1. j = [phase |-> j.phase, command |-> j.command, stack |-> j.stack, lines |-> j.lines,
           line |-> j.line, start |-> j.start, result |-> j.result]
  BY JobParts
<1> QED BY <1>1, Zenon DEF JobOf

LEMMA LineSet ==
  ASSUME NEW j, IsJob(j), NEW x, NEW e, e = [j EXCEPT !.line = x]
  PROVE  e = JobOf(j.phase, j.command, j.stack, j.lines, x, j.start, j.result)
<1>1. j = [phase |-> j.phase, command |-> j.command, stack |-> j.stack, lines |-> j.lines,
           line |-> j.line, start |-> j.start, result |-> j.result]
  BY JobParts
<1> QED BY <1>1, Zenon DEF JobOf

LEMMA LinesSet ==
  ASSUME NEW j, IsJob(j), NEW x, NEW y, NEW e, e = [j EXCEPT !.stack = x, !.lines = y]
  PROVE  e = JobOf(j.phase, j.command, x, y, j.line, j.start, j.result)
<1>1. j = [phase |-> j.phase, command |-> j.command, stack |-> j.stack, lines |-> j.lines,
           line |-> j.line, start |-> j.start, result |-> j.result]
  BY JobParts
<1> QED BY <1>1, Zenon DEF JobOf

LEMMA PhaseSet ==
  ASSUME NEW j, IsJob(j), NEW x, NEW y, NEW e, e = [j EXCEPT !.phase = x, !.stack = y]
  PROVE  e = JobOf(x, j.command, y, j.lines, j.line, j.start, j.result)
<1>1. j = [phase |-> j.phase, command |-> j.command, stack |-> j.stack, lines |-> j.lines,
           line |-> j.line, start |-> j.start, result |-> j.result]
  BY JobParts
<1> QED BY <1>1, Zenon DEF JobOf

LEMMA PassSet ==
  ASSUME NEW j, IsJob(j), NEW x, NEW y, NEW z, NEW e, e = [j EXCEPT !.phase = x, !.line = y, !.start = z]
  PROVE  e = JobOf(x, j.command, j.stack, j.lines, y, z, j.result)
<1>1. j = [phase |-> j.phase, command |-> j.command, stack |-> j.stack, lines |-> j.lines,
           line |-> j.line, start |-> j.start, result |-> j.result]
  BY JobParts
<1> QED BY <1>1, Zenon DEF JobOf

LEMMA IdleSet ==
  ASSUME NEW x, NEW e, e = [IdleJob EXCEPT !.result = x]
  PROVE  e = JobOf("idle", "none", <<>>, <<>>, 1, Nowhere, x)
BY Zenon DEF IdleJob, JobOf

LEMMA ExpandSet ==
  ASSUME NEW x, NEW y, NEW e, e = [IdleJob EXCEPT !.phase = "expand", !.command = x, !.stack = y]
  PROVE  e = JobOf("expand", x, y, <<>>, 1, Nowhere, "none")
BY Zenon DEF IdleJob, JobOf

\* A build that has ended leaves nothing to hold but its tape.
LEMMA EndsStaged ==
  ASSUME NEW p, NEW c, NEW h, NEW x \in {"none", "ok", "error"}, NEW j,
         j = [IdleJob EXCEPT !.result = x], c.target = "tape" /\ x = "ok" => OnTape(c, h.at, h.bytes)
  PROVE  /\ IsJob(j) /\ Staged(p, j, c, h) /\ Sourced(j, c) /\ Listed(j, c, h) /\ Taped(j, c, h)
         /\ j.phase = "idle" /\ j.result = x
<1>1. j = JobOf("idle", "none", <<>>, <<>>, 1, Nowhere, x)
  BY IdleSet
<1>2. /\ j.phase = "idle" /\ j.command = "none" /\ j.stack = <<>> /\ j.lines = <<>> /\ j.line = 1
      /\ j.start = Nowhere /\ j.result = x
  BY <1>1 DEF JobOf
<1>3. IsJob(j)
  BY <1>1, <1>2 DEF IsJob
<1>4. j.phase \notin {"expand", "scan", "pass"}
  BY <1>2
<1>5. Staged(p, j, c, h)
  BY <1>2, <1>4 DEF Staged
<1>6. Sourced(j, c) /\ Listed(j, c, h)
  BY <1>4 DEF Sourced, Listed
<1>7. Taped(j, c, h)
  BY <1>2, <1>4 DEF Taped
<1> QED BY <1>2, <1>3, <1>5, <1>6, <1>7

\* Reading the file of INCBIN is all a line needs of the state.
LEMMA SameBinary ==
  ASSUME NEW x, NEW r, NEW l, binSize' = binSize
  PROVE  AssembleLine(x, r, l)' = AssembleLine(x, r, l)
BY DEF AssembleLine, AfterLabels, Directive, Incbin

\* A step that leaves the trail as it is.
LEMMA SameGoes ==
  ASSUME binSize' = binSize, NEW x, NEW l, NEW y
  PROVE  Goes(x, l, y)' <=> Goes(x, l, y)
BY SameBinary DEF Goes
-----------------------------------------------------------------------------
(* A line of a pass.                                                       *)

\* What a line that is taken makes of a build.
Taken(j, c, h, w, k, g) ==
  /\ k = JobOf(j.phase, j.command, j.stack, j.lines, j.line + 1, j.start, j.result)
  /\ g = IF c.pass = 2
         THEN [at |-> Append(h.at, c.address),
               bytes |-> Append(h.bytes, BytesOf(c, w, w.ctx.total - c.total)),
               steady |-> h.steady]
         ELSE h

\* A line taken moves the job by one.
LEMMA TakenIs ==
  ASSUME NEW j, NEW c, NEW h, NEW w, NEW k, NEW g, Taken(j, c, h, w, k, g), IsJob(j)
  PROVE  /\ k.phase = j.phase /\ k.command = j.command /\ k.stack = j.stack /\ k.lines = j.lines
         /\ k.line = j.line + 1 /\ k.start = j.start /\ k.result = j.result /\ IsJob(k)
         /\ c.pass # 2 => g = h
         /\ g.steady = h.steady
<1>1. /\ k.phase = j.phase /\ k.command = j.command /\ k.stack = j.stack /\ k.lines = j.lines
      /\ k.line = j.line + 1 /\ k.start = j.start /\ k.result = j.result
  BY DEF Taken, JobOf
<1>2. IsJob(k)
  BY <1>1 DEF IsJob, Taken
<1>3. (c.pass # 2 => g = h) /\ g.steady = h.steady
  BY DEF Taken
<1> QED BY <1>1, <1>2, <1>3

\* The line at which a pass is.
AtLine(p, j, c, h, r, l, w) ==
  /\ IsJob(j) /\ GoodContext(c) /\ Staged(p, j, c, h) /\ r \in RamType /\ binSize \in SizeType
  /\ j.phase = "pass" /\ j.line <= Len(j.lines) /\ l = j.lines[j.line]
  /\ w = AssembleLine(c, r, l)

\* What holds where a line is assembled.
LEMMA AtLineIs ==
  ASSUME NEW p, NEW j, NEW c, NEW h, NEW r, NEW l, NEW w, AtLine(p, j, c, h, r, l, w)
  PROVE  /\ j.lines \in Seq(LineType) /\ Len(j.lines) \in Nat /\ j.line \in 1..Len(j.lines)
         /\ l \in LineType /\ Kept(c, r, l, w) /\ c.pass \in {1, 2} /\ c.total \in Nat
         /\ c.target \in {"none", "machine", "tape"}
<1>1. /\ j.lines \in Seq(LineType) /\ j.line \in 1..(Len(j.lines) + 1) /\ GoodContext(c)
      /\ j.line <= Len(j.lines) /\ l = j.lines[j.line]
  BY DEF AtLine, Staged
<1>2. Len(j.lines) \in Nat /\ j.line \in 1..Len(j.lines)
  BY <1>1
<1>3. l \in LineType
  BY <1>1, <1>2, ElementOfSeq
<1>4. Kept(c, r, l, w)
  BY <1>3, LineKept DEF AtLine
<1> QED BY <1>1, <1>2, <1>3, <1>4, ContextIs DEF GoodContext

\* A line taken leaves each phase what it works on.
LEMMA StagedLine ==
  ASSUME NEW p, NEW j, NEW c, NEW h, NEW r, NEW l, NEW w, AtLine(p, j, c, h, r, l, w), w.ok,
         NEW k, NEW g, Taken(j, c, h, w, k, g), Sourced(j, c)
  PROVE  IsJob(k) /\ Staged(p, k, w.ctx, g) /\ Sourced(k, w.ctx)
<1>1. /\ j.lines \in Seq(LineType) /\ Len(j.lines) \in Nat /\ j.line \in 1..Len(j.lines)
      /\ Kept(c, r, l, w) /\ c.pass \in {1, 2}
  BY AtLineIs
<1>2. /\ k.phase = j.phase /\ k.command = j.command /\ k.stack = j.stack /\ k.lines = j.lines
      /\ k.line = j.line + 1 /\ k.start = j.start /\ k.result = j.result /\ IsJob(k)
      /\ (c.pass # 2 => g = h)
  BY TakenIs DEF AtLine
<1>3. /\ w.ctx.pass = c.pass /\ w.ctx.target = c.target
      /\ c.target # "tape" => w.ctx.output = c.output
  BY <1>1 DEF Kept, LineDone
<1>4. j.phase = "pass" /\ l = j.lines[j.line]
  BY DEF AtLine
<1>5. Staged(p, k, w.ctx, g)
  <2>1. /\ j.lines = Whole(p) /\ j.stack = <<>> /\ j.start \in Places /\ j.result = "none"
        /\ (c.pass = 1 => c.target = "none" /\ h.at = <<>> /\ h.bytes = <<>>)
        /\ (c.target # "tape" => c.output = NoOutput)
        /\ (c.pass = 2 => c.target = IF j.command = "export" THEN "tape" ELSE "machine")
    BY <1>4 DEF AtLine, Staged
  <2>2. k.line \in 1..(Len(k.lines) + 1)
    BY <1>1, <1>2
  <2>3. k.phase = "pass"
    BY <1>2, <1>4
  <2>4. /\ w.ctx.pass = 1 => w.ctx.target = "none" /\ g.at = <<>> /\ g.bytes = <<>>
        /\ w.ctx.target # "tape" => w.ctx.output = NoOutput
    BY <1>2, <1>3, <2>1
  <2>5. w.ctx.pass = 2 => w.ctx.target = IF k.command = "export" THEN "tape" ELSE "machine"
    BY <1>2, <1>3, <2>1
  <2> QED BY <1>1, <1>2, <2>1, <2>2, <2>3, <2>4, <2>5 DEF Staged
<1>6. Sourced(k, w.ctx)
  <2>1. DOMAIN w.ctx.labels \subseteq DOMAIN c.labels \cup NamesOf(l.labels)
    BY <1>1 DEF Kept
  <2>2. \A n \in DOMAIN c.labels : \E i \in 1..Len(j.lines) : n \in NamesOf(j.lines[i].labels)
    BY <1>4 DEF Sourced
  <2> QED BY <1>1, <1>2, <1>4, <2>1, <2>2 DEF Sourced
<1> QED BY <1>2, <1>5, <1>6

\* A line done in pass 2 lies where it is recorded, and so do those before it.
LEMMA ListedLine ==
  ASSUME NEW p, NEW j, NEW c, NEW h, NEW r, NEW l, NEW w, AtLine(p, j, c, h, r, l, w), w.ok,
         NEW k, NEW g, Taken(j, c, h, w, k, g), Listed(j, c, h), Taped(j, c, h), c.pass = 2
  PROVE  Listed(k, w.ctx, g) /\ Taped(k, w.ctx, g)
<1> DEFINE n == w.ctx.total - c.total
           z == BytesOf(c, w, n)
           m == j.line
           at == h.at
           bs == h.bytes
           u == Append(at, c.address)
           v == Append(bs, z)
<1>1. /\ Len(j.lines) \in Nat /\ m \in 1..Len(j.lines) /\ GoodContext(c) /\ c \in Context
      /\ l \in LineType /\ Kept(c, r, l, w) /\ l = j.lines[m] /\ j.phase = "pass"
      /\ r \in RamType /\ binSize \in SizeType /\ c.target \in {"none", "machine", "tape"}
      /\ w = AssembleLine(c, r, l) /\ c.address \in Places /\ c.total \in Nat
  BY AtLineIs, ContextIs DEF AtLine, GoodContext
<1>2. /\ k.phase = j.phase /\ k.lines = j.lines /\ k.line = m + 1
      /\ g = [at |-> u, bytes |-> v, steady |-> h.steady]
  <2>1. k.phase = j.phase /\ k.lines = j.lines /\ k.line = m + 1
    BY TakenIs DEF AtLine
  <2>2. g = [at |-> u, bytes |-> v, steady |-> h.steady]
    BY DEF Taken
  <2> QED BY <2>1, <2>2
<1>3. /\ at \in Seq(Places) /\ Len(at) = m - 1 /\ Len(bs) = m - 1
      /\ \A i \in 1..(m - 1) : Laid(j.lines[i], at[i], bs[i], NextAt(h, c, i), c.labels)
  BY <1>1 DEF Listed
<1>4. PICK S : bs \in Seq(S)
  BY <1>1 DEF Listed
<1>5. c.target # "none" /\ Begun(c)
  <2>1. c.target # "none" /\ (c.target # "tape" => c.output = NoOutput)
    BY <1>1 DEF AtLine, Staged
  <2>2. CASE c.target = "tape"
    BY <1>1, <2>1, <2>2 DEF Taped
  <2>3. CASE c.target # "tape"
    <3>1. Begun(c)
      BY <2>1, <2>3 DEF Begun, NoOutput
    <3> QED BY <2>1, <3>1
  <2> QED BY <2>1, <2>2, <2>3
<1>6. /\ n \in Nat /\ Laid(l, c.address, z, w.ctx.address, w.ctx.labels)
      /\ c.target = "tape" => \E x \in Seq(BytesType) : Len(x) = n /\ z = x /\ Appends(c, w.ctx, x)
  BY <1>1, <1>5, RecordIs
<1>7. /\ LineDone(c, r, w) /\ w.ctx.pass = 2 /\ w.ctx.target = c.target
      /\ w.ctx.labels = c.labels /\ GoodContext(w.ctx) /\ w.ctx \in Context /\ w.ctx.total \in Nat
  <2>1. LineDone(c, r, w)
    BY <1>1 DEF Kept
  <2>2. GoodContext(w.ctx)
    BY <2>1 DEF LineDone
  <2> QED BY <2>1, <2>2, ContextIs DEF LineDone, GoodContext
<1>8. g.at = u /\ g.bytes = v
  BY <1>2
<1> HIDE DEF n, z, at, bs, u, v
<1>9. /\ u \in Seq(Places) /\ Len(u) = m /\ u[m] = c.address
      /\ \A i \in 1..(m - 1) : u[i] = at[i]
  <2>1. /\ Append(at, c.address) \in Seq(Places) /\ Len(Append(at, c.address)) = Len(at) + 1
        /\ Append(at, c.address)[Len(at) + 1] = c.address
        /\ \A i \in 1..Len(at) : Append(at, c.address)[i] = at[i]
    BY <1>1, <1>3, AppendProperties
  <2> QED BY <1>1, <1>3, <2>1 DEF u
<1>10. /\ v \in Seq(S \cup {z}) /\ Len(v) = m /\ v[m] = z
       /\ \A i \in 1..(m - 1) : v[i] = bs[i]
  <2>1. /\ Append(bs, z) \in Seq(S \cup {z}) /\ Len(Append(bs, z)) = Len(bs) + 1
        /\ Append(bs, z)[Len(bs) + 1] = z
        /\ \A i \in 1..Len(bs) : Append(bs, z)[i] = bs[i]
    BY <1>4, SeqWiden
  <2> QED BY <1>1, <1>3, <2>1 DEF v
<1>11. ASSUME NEW i \in 1..m
       PROVE  Laid(j.lines[i], u[i], v[i], NextAt(g, w.ctx, i), w.ctx.labels)
  <2>1. CASE i = m
    <3>1. NextAt(g, w.ctx, i) = w.ctx.address
      BY <1>1, <1>8, <1>9, <2>1 DEF NextAt
    <3> QED BY <1>1, <1>6, <1>9, <1>10, <2>1, <3>1
  <2>2. CASE i # m
    <3>1. i \in 1..(m - 1)
      BY <1>1, <2>2
    <3>2. NextAt(g, w.ctx, i) = NextAt(h, c, i)
      <4>1. NextAt(g, w.ctx, i) = u[i + 1]
        BY <1>1, <1>8, <1>9, <3>1 DEF NextAt
      <4>2. CASE i = m - 1
        <5>1. NextAt(h, c, i) = c.address
          BY <1>1, <1>3, <4>2 DEF NextAt, at
        <5>2. i + 1 = m
          BY <1>1, <4>2
        <5> QED BY <1>9, <4>1, <5>1, <5>2
      <4>3. CASE i # m - 1
        <5>1. i < m - 1 /\ i + 1 \in 1..(m - 1)
          BY <1>1, <3>1, <4>3
        <5>2. NextAt(h, c, i) = at[i + 1]
          BY <1>3, <5>1 DEF NextAt, at
        <5> QED BY <1>9, <4>1, <5>1, <5>2
      <4> QED BY <4>2, <4>3
    <3>3. Laid(j.lines[i], at[i], bs[i], NextAt(h, c, i), c.labels)
      BY <1>3, <3>1
    <3>4. u[i] = at[i] /\ v[i] = bs[i]
      BY <1>9, <1>10, <3>1
    <3> QED BY <1>7, <3>2, <3>3, <3>4
  <2> QED BY <2>1, <2>2
<1>12. Listed(k, w.ctx, g)
  <2>1. k.line - 1 = m
    BY <1>1, <1>2
  <2>2. \E T : v \in Seq(T)
    BY <1>10
  <2> QED BY <1>2, <1>8, <1>9, <1>10, <1>11, <2>1, <2>2 DEF Listed
<1>13. Taped(k, w.ctx, g)
  <2>1. CASE c.target = "tape"
    <3>1. PICK x \in Seq(BytesType) : Len(x) = n /\ z = x /\ Appends(c, w.ctx, x)
      BY <1>6, <2>1
    <3>2. OnTape(c, at, bs)
      BY <1>1, <2>1 DEF Taped, at, bs
    <3>3. w.ctx.total = c.total + Len(x)
      BY <1>1, <1>7, <3>1 DEF n
    <3>4. Len(at) = Len(bs)
      BY <1>3
    <3>5. OnTape(w.ctx, Append(at, c.address), Append(bs, x)) /\ Begun(w.ctx)
      BY <1>1, <1>3, <1>4, <1>5, <1>7, <2>1, <3>1, <3>2, <3>3, <3>4, TapeGrows
    <3>6. OnTape(w.ctx, u, v)
      BY <3>1, <3>5 DEF u, v
    <3> QED BY <1>8, <3>5, <3>6 DEF Taped
  <2>2. CASE c.target # "tape"
    BY <1>7, <2>2 DEF Taped
  <2> QED BY <2>1, <2>2
<1> QED BY <1>12, <1>13
\* The trail of a pass that takes a line.
LEMMA TrailedLine ==
  ASSUME NEW p, NEW j, NEW c, NEW h, NEW r, NEW l, NEW w, AtLine(p, j, c, h, r, l, w), w.ok,
         NEW k, NEW g, Taken(j, c, h, w, k, g), Trailed(j, c, h)
  PROVE  Trailed(k, w.ctx, g)
<1> DEFINE d == w.ctx
<1>1. /\ Len(j.lines) \in Nat /\ j.line \in 1..Len(j.lines) /\ GoodContext(c) /\ c.pass \in {1, 2}
      /\ l \in LineType /\ Kept(c, r, l, w) /\ l = j.lines[j.line] /\ j.phase = "pass"
      /\ r \in RamType /\ binSize \in SizeType /\ w = AssembleLine(c, r, l)
  BY AtLineIs DEF AtLine
<1>2. /\ k.phase = j.phase /\ k.lines = j.lines /\ k.line = j.line + 1 /\ k.start = j.start
      /\ g.steady = h.steady
  BY TakenIs DEF AtLine
<1>3. /\ d.pass = c.pass /\ d.target = c.target /\ GoodContext(d) /\ Grown(c, d)
      /\ c.pass = 2 => d.labels = c.labels /\ d.constants = c.constants
  BY <1>1 DEF Kept, LineDone
<1> HIDE DEF d
<1>4. SUFFICES ASSUME h.steady, c.target # "tape"
               PROVE  \E cs, m : m \in Nat /\ Trail(cs, k, d, m)
  <2>1. Trailed(k, d, g)
    BY <1>2, <1>3, <1>4 DEF Trailed
  <2> QED BY <2>1 DEF d
<1>5. PICK cs, m : m \in Nat /\ Trail(cs, j, c, m)
  BY <1>1, <1>4 DEF Trailed
<1>6. /\ \A i \in 1..m : /\ GoodContext(cs[i]) /\ cs[i].pass = 1 /\ cs[i].target = "none"
                         /\ Grown(cs[i], c)
      /\ cs[1].address = j.start /\ cs[1].exhausted = FALSE
      /\ \A i \in 1..(m - 1) : Goes(cs[i], j.lines[i], cs[i + 1])
      /\ c.pass = 1 => m = j.line /\ cs[m] = c
      /\ c.pass = 2 => m = Len(j.lines) + 1 /\ SamePlace(cs[j.line], c)
  BY <1>5 DEF Trail
<1>7. \A i \in 1..m : Grown(cs[i], d)
  BY <1>3, <1>6, GrownTrans
<1>8. CASE c.pass = 1
  <2> DEFINE q == m + 1
             ds == [i \in 1..q |-> IF i = q THEN d ELSE cs[i]]
  <2>1. m = j.line /\ cs[m] = c /\ m \in 1..m /\ m >= 1
    BY <1>1, <1>6, <1>8
  <2>2. q \in Nat /\ q - 1 = m /\ ds[q] = d /\ \A i \in 1..m : ds[i] = cs[i]
    <3>1. q \in Nat /\ q - 1 = m /\ q \in 1..q /\ \A i \in 1..m : i \in 1..q /\ i # q
      BY <1>5
    <3> HIDE DEF q
    <3> QED BY <3>1
  <2> HIDE DEF ds
  <2>3. c.target = "none"
    BY <1>6, <2>1
  <2>4. \A i \in 1..q : /\ GoodContext(ds[i]) /\ ds[i].pass = 1 /\ ds[i].target = "none"
                        /\ Grown(ds[i], d)
    <3> TAKE i \in 1..q
    <3>1. CASE i = q
      BY <1>3, <1>8, <2>2, <2>3, <3>1, GrownRefl
    <3>2. CASE i # q
      <4>1. i \in 1..m
        BY <1>5, <3>2
      <4> QED BY <1>6, <1>7, <2>2, <4>1
    <3> QED BY <3>1, <3>2
  <2>5. ds[1].address = k.start /\ ds[1].exhausted = FALSE
    <3>1. 1 \in 1..m
      BY <2>1, <1>5
    <3> QED BY <1>2, <1>6, <2>2, <3>1
  <2>6. Goes(c, l, d)
    BY <1>1 DEF Goes, d
  <2>7. \A i \in 1..(q - 1) : Goes(ds[i], k.lines[i], ds[i + 1])
    <3> TAKE i \in 1..(q - 1)
    <3>1. CASE i = m
      BY <1>1, <1>2, <2>1, <2>2, <2>6, <3>1
    <3>2. CASE i # m
      <4>1. i \in 1..(m - 1) /\ i \in 1..m /\ i + 1 \in 1..m
        BY <1>5, <2>2, <3>2
      <4> QED BY <1>2, <1>6, <2>2, <4>1
    <3> QED BY <3>1, <3>2
  <2>8. d.pass = 1 /\ q = k.line
    BY <1>2, <1>3, <1>8, <2>1
  <2> HIDE DEF q
  <2>9. Trail(ds, k, d, q)
    BY <2>2, <2>4, <2>5, <2>7, <2>8 DEF Trail
  <2> QED BY <2>2, <2>9
<1>9. CASE c.pass = 2
  <2> DEFINE a == j.line
  <2>1. m = Len(j.lines) + 1 /\ SamePlace(cs[a], c) /\ a \in 1..m /\ a \in 1..(m - 1)
        /\ a + 1 \in 1..m
    BY <1>1, <1>6, <1>9
  <2>2. PICK s \in RamType : AssembleLine(cs[a], s, l).ok /\ AssembleLine(cs[a], s, l).ctx = cs[a + 1]
    BY <1>1, <1>6, <2>1 DEF Goes
  <2>3. GoodContext(cs[a]) /\ Grown(cs[a + 1], c)
    BY <1>6, <2>1
  <2>4. Alike(r, AssembleLine(cs[a], s, l), AssembleLine(c, r, l))
    BY <1>1, <1>9, <2>1, <2>2, <2>3, LinesAlike
  <2>5. SamePlace(cs[a + 1], d)
    BY <1>1, <2>2, <2>4 DEF Alike, d
  <2>6. d.pass = 2 /\ m = Len(k.lines) + 1 /\ SamePlace(cs[k.line], d)
    BY <1>2, <1>3, <1>9, <2>1, <2>5
  <2>7. Trail(cs, k, d, m)
    BY <1>2, <1>6, <1>7, <2>6 DEF Trail
  <2> QED BY <1>5, <2>7
<1> QED BY <1>1, <1>8, <1>9

\* A line that pass 2 refuses has written nothing.
LEMMA RefusedLine ==
  ASSUME NEW p, NEW j, NEW c, NEW h, NEW r, NEW l, NEW w, AtLine(p, j, c, h, r, l, w), ~w.ok,
         Trailed(j, c, h), h.steady, c.target # "tape", c.pass = 2
  PROVE  w.ram = r
<1> DEFINE a == j.line
<1>1. /\ Len(j.lines) \in Nat /\ a \in 1..Len(j.lines) /\ GoodContext(c)
      /\ l \in LineType /\ l = j.lines[a] /\ j.phase = "pass"
      /\ r \in RamType /\ binSize \in SizeType /\ w = AssembleLine(c, r, l)
  BY AtLineIs DEF AtLine
<1>2. PICK cs, m : m \in Nat /\ Trail(cs, j, c, m)
  BY <1>1 DEF Trailed
<1>3. /\ \A i \in 1..m : GoodContext(cs[i]) /\ Grown(cs[i], c)
      /\ \A i \in 1..(m - 1) : Goes(cs[i], j.lines[i], cs[i + 1])
      /\ m = Len(j.lines) + 1 /\ SamePlace(cs[a], c)
  BY <1>2 DEF Trail
<1>4. a \in 1..m /\ a \in 1..(m - 1) /\ a + 1 \in 1..m
  BY <1>1, <1>3
<1>5. PICK s \in RamType : AssembleLine(cs[a], s, l).ok /\ AssembleLine(cs[a], s, l).ctx = cs[a + 1]
  BY <1>1, <1>3, <1>4 DEF Goes
<1>6. GoodContext(cs[a]) /\ Grown(cs[a + 1], c)
  BY <1>3, <1>4
<1>7. Alike(r, AssembleLine(cs[a], s, l), AssembleLine(c, r, l))
  BY <1>1, <1>3, <1>5, <1>6, LinesAlike
<1> QED BY <1>1, <1>7 DEF Alike
-----------------------------------------------------------------------------
(* The steps of a build.                                                   *)

LEMMA TrailedNext ==
  ASSUME binSize' = binSize, Trailed(job', ctx', history')
  PROVE  Trailed(job, ctx, history)'
BY SameGoes DEF Trailed, Trail

\* The parts of the invariant after a step.
LEMMA Stepped ==
  ASSUME HeldInv', IsJob(job'), GoodContext(ctx'), Staged(project', job', ctx', history'),
         Sourced(job', ctx'), Listed(job', ctx', history'), Taped(job', ctx', history'),
         Trailed(job, ctx, history)'
  PROVE  AsmInv'
BY DEF AsmInv

LEMMA SizeIs ==
  ASSUME HeldInv
  PROVE  binSize \in SizeType /\ project \in Projects
<1>1. project \in Projects /\ binSize \in project.binSizes
  BY DEF HeldInv
<1> QED BY <1>1, ProgramIs

LEMMA HeldKept ==
  ASSUME HeldInv, ram' \in RamType,
         UNCHANGED <<project, binSize, tape, running>>,
         history' = [at |-> history'.at, bytes |-> history'.bytes, steady |-> history'.steady]
  PROVE  HeldInv'
BY DEF HeldInv

\* A build that ends, in whatever way, leaves the invariant.
LEMMA Ended ==
  ASSUME HeldInv', GoodContext(ctx'), NEW x \in {"none", "ok", "error"},
         job' = [IdleJob EXCEPT !.result = x],
         ctx'.target = "tape" /\ x = "ok" => OnTape(ctx', history'.at, history'.bytes)
  PROVE  AsmInv'
<1>1. /\ IsJob(job') /\ Staged(project', job', ctx', history') /\ Sourced(job', ctx')
      /\ Listed(job', ctx', history') /\ Taped(job', ctx', history') /\ job'.phase = "idle"
  BY Zenon, EndsStaged
<1>2. Trailed(job, ctx, history)'
  BY <1>1 DEF Trailed
<1> QED BY <1>1, <1>2, Stepped

\* No build at the start.
LEMMA BuildStarts ==
  ASSUME InitAssembler
  PROVE  AsmInv
<1>1. project \in Projects /\ binSize \in project.binSizes /\ running = Nowhere
      /\ ctx = NewContext(0) /\ tape = TapeFile(NoOutput) /\ history = NoHistory
      /\ job = IdleJob /\ ram = [a \in Places |-> [kind |-> "old", value |-> 0]]
  BY DEF InitAssembler
<1>2. ram \in RamType
  <2>1. [kind |-> "old", value |-> 0] \in BytesType
    BY DEF BytesType
  <2> QED BY <1>1, <2>1 DEF RamType
<1>3. HeldInv
  <2>1. tape.length = Len(tape.bytes)
    BY <1>1 DEF TapeFile, NoOutput
  <2>2. history = [at |-> history.at, bytes |-> history.bytes, steady |-> history.steady]
    BY <1>1 DEF NoHistory
  <2> QED BY <1>1, <1>2, <2>1, <2>2 DEF HeldInv
<1>4. GoodContext(ctx) /\ ctx.target = "none"
  <2>1. 0 \in Places
    BY ScaleAssumption DEF Places
  <2> QED BY <1>1, <2>1, NewContextIs
<1>5. job = [IdleJob EXCEPT !.result = "none"]
  BY <1>1 DEF IdleJob
<1>6. /\ IsJob(job) /\ Staged(project, job, ctx, history) /\ Sourced(job, ctx)
      /\ Listed(job, ctx, history) /\ Taped(job, ctx, history) /\ job.phase = "idle"
  BY <1>4, <1>5, EndsStaged
<1>7. Trailed(job, ctx, history)
  BY <1>6 DEF Trailed
<1> QED BY <1>3, <1>4, <1>6, <1>7 DEF AsmInv

\* A build is asked for.
LEMMA StartKeeps ==
  ASSUME AsmInv, NEW command \in {"assemble", "run", "export"}, StartBuild(command)
  PROVE  AsmInv'
<1>1. HeldInv /\ GoodContext(ctx) /\ project \in Projects
  BY SizeIs DEF AsmInv
<1>2. /\ history' = NoHistory /\ UNCHANGED <<project, binSize, ram, ctx, tape, running>>
  BY DEF StartBuild
<1>3. HeldInv'
  <2>1. ram' \in RamType
    BY <1>1, <1>2 DEF HeldInv
  <2>2. history' = [at |-> history'.at, bytes |-> history'.bytes, steady |-> history'.steady]
    BY <1>2 DEF NoHistory
  <2> QED BY <1>1, <1>2, <2>1, <2>2, HeldKept
<1>4. GoodContext(ctx')
  BY <1>1, <1>2
<1>5. CASE Text(project.root) = <<>>
  <2>1. job' = [IdleJob EXCEPT !.result = "error"]
    BY <1>5 DEF StartBuild, Finish
  <2> QED BY <1>3, <1>4, <2>1, Ended
<1>6. CASE Text(project.root) # <<>>
  <2> DEFINE s == <<[file |-> project.root, line |-> 1]>>
  <2>1. job' = [IdleJob EXCEPT !.phase = "expand", !.command = command, !.stack = s]
    BY <1>6 DEF StartBuild
  <2> HIDE DEF s
  <2>2. job' = JobOf("expand", command, s, <<>>, 1, Nowhere, "none")
    BY <2>1, ExpandSet
  <2>3. /\ job'.phase = "expand" /\ job'.command = command /\ job'.stack = s
        /\ job'.lines = <<>> /\ job'.line = 1 /\ job'.start = Nowhere /\ job'.result = "none"
    BY <2>2 DEF JobOf
  <2>4. IsJob(job')
    BY <2>2, <2>3 DEF IsJob
  <2>5. Nested(project', job'.stack, job'.lines)
    BY <1>1, <1>2, <2>3, NestedStart DEF s
  <2>6. Staged(project', job', ctx', history')
    BY <1>2, <2>3, <2>5 DEF Staged
  <2>7. Sourced(job', ctx') /\ Listed(job', ctx', history') /\ Taped(job', ctx', history')
    BY <2>3 DEF Sourced, Listed, Taped
  <2>8. Trailed(job, ctx, history)'
    BY <2>3 DEF Trailed
  <2> QED BY <1>3, <1>4, <2>4, <2>6, <2>7, <2>8, Stepped
<1> QED BY <1>5, <1>6

\* A step of the expansion that stays in it.
LEMMA Expanding ==
  ASSUME AsmInv, job.phase = "expand", NEW s, NEW l,
         Nested(project, s, l), job' = JobOf("expand", job.command, s, l, 1, job.start, "none"),
         UNCHANGED <<project, binSize, ram, ctx, tape, running, history>>
  PROVE  AsmInv'
<1>1. HeldInv /\ GoodContext(ctx) /\ history = NoHistory /\ IsJob(job)
  BY DEF AsmInv, Staged
<1>2. HeldInv' /\ GoodContext(ctx')
  <2>1. ram' \in RamType
    BY <1>1 DEF HeldInv
  <2>2. history' = [at |-> history'.at, bytes |-> history'.bytes, steady |-> history'.steady]
    BY <1>1 DEF NoHistory
  <2> QED BY <1>1, <2>1, <2>2, HeldKept
<1>3. /\ job'.phase = "expand" /\ job'.command = job.command /\ job'.stack = s
      /\ job'.lines = l /\ job'.line = 1 /\ job'.start = job.start /\ job'.result = "none"
  BY DEF JobOf
<1>4. IsJob(job')
  <2>1. job.command \in {"none", "assemble", "run", "export"} /\ job.start \in Places \cup {Nowhere}
    BY <1>1 DEF IsJob
  <2> QED BY <1>3, <2>1 DEF IsJob
<1>5. Staged(project', job', ctx', history')
  BY <1>1, <1>3 DEF Staged
<1>6. Sourced(job', ctx') /\ Listed(job', ctx', history') /\ Taped(job', ctx', history')
  BY <1>3 DEF Sourced, Listed, Taped
<1>7. Trailed(job, ctx, history)'
  BY <1>3 DEF Trailed
<1> QED BY <1>2, <1>4, <1>5, <1>6, <1>7, Stepped
\* A failed or empty build.
LEMMA FailsKept ==
  ASSUME AsmInv, Finish("error"), ram' \in RamType, GoodContext(ctx'),
         UNCHANGED <<project, binSize, tape, running, history>>
  PROVE  AsmInv'
<1>1. HeldInv'
  <2>1. HeldInv
    BY DEF AsmInv
  <2>2. history' = [at |-> history'.at, bytes |-> history'.bytes, steady |-> history'.steady]
    BY <2>1 DEF HeldInv
  <2> QED BY <2>1, <2>2, HeldKept
<1>2. job' = [IdleJob EXCEPT !.result = "error"]
  BY DEF Finish
<1> QED BY <1>1, <1>2, Ended

\* A line prepared, a file opened or closed, or an error.
LEMMA ExpandKeeps ==
  ASSUME AsmInv, Expand
  PROVE  AsmInv'
<1> DEFINE stack == job.stack
           n == Len(stack)
           top == stack[n]
           text == project.text[top.file]
           l == text[top.line]
           ended == top.line > Len(text)
<1>1. /\ HeldInv /\ IsJob(job) /\ GoodContext(ctx) /\ project \in Projects /\ job.phase = "expand"
      /\ Nested(project, stack, job.lines) /\ job.line = 1 /\ job.result = "none"
      /\ history = NoHistory /\ ram \in RamType
  BY Zenon, SizeIs DEF AsmInv, Expand, Staged, HeldInv
<1>2. UNCHANGED <<project, binSize, ram, tape, running, history>>
  BY DEF Expand
<1>3. FramesIn(project, stack) /\ Distinct(project, stack)
  BY <1>1 DEF Nested
<1>4. /\ n \in Nat /\ n >= 1 /\ top.line \in Nat /\ Len(text) \in Nat /\ top.file \in DOMAIN project.text
  BY <1>1, <1>3, FramesAre
<1>5. Last(stack) = top /\ (ended \/ top.line <= Len(text))
  <2>1. Last(stack) = top
    BY DEF Last
  <2>2. ended \/ top.line <= Len(text)
    <3> HIDE DEF top, text
    <3> QED BY <1>4
  <2> QED BY <2>1, <2>2
<1> DEFINE Nest(s, lines) == JobOf("expand", job.command, s, lines, 1, job.start, "none")
           none == <<>>
           Popped == ended /\ n > 1 /\ job' = Nest(Front(stack), job.lines) /\ UNCHANGED ctx
           Joins == /\ ended /\ n = 1 /\ ctx' = NewContext(0)
                    /\ job' = JobOf("scan", job.command, none, job.lines, 1, job.start, "none")
           Fails == Finish("error") /\ UNCHANGED ctx
           file == FileName(l)
           opened == Append(Advance(stack), [file |-> file, line |-> 1])
           Pushed == /\ ~ended /\ l.op = "INCLUDE" /\ UNCHANGED ctx
                     /\ file \in DOMAIN project.text /\ file \notin Open(stack)
                     /\ ~(Cardinality(Open(stack)) + 1 >= MaxDepth)
                     /\ job' = Nest(opened, job.lines)
           Appended == /\ ~ended /\ l.op # "INCLUDE" /\ UNCHANGED ctx
                       /\ job' = Nest(Advance(stack), Append(job.lines, l))
<1>6. Popped \/ Joins \/ Fails \/ Pushed \/ Appended
  <2>1. \/ /\ ended /\ n > 1 /\ job' = [job EXCEPT !.stack = Front(@)] /\ UNCHANGED ctx
        \/ /\ ended /\ n = 1 /\ job' = [job EXCEPT !.phase = "scan", !.stack = <<>>]
           /\ ctx' = NewContext(0)
        \/ Finish("error") /\ UNCHANGED ctx
        \/ ~ended /\ l.op = "INCLUDE" /\ Include(l) /\ UNCHANGED ctx
        \/ /\ ~ended /\ l.op # "INCLUDE" /\ UNCHANGED ctx
           /\ job' = [job EXCEPT !.stack = Advance(@), !.lines = Append(@, l)]
    BY Zenon, <1>5 DEF Expand, Text
  <2> HIDE DEF ended, l, n
  <2>2. CASE ended /\ n > 1 /\ job' = [job EXCEPT !.stack = Front(@)] /\ UNCHANGED ctx
    BY Zenon, <1>1, <2>2, StackSet
  <2>3. CASE /\ ended /\ n = 1 /\ job' = [job EXCEPT !.phase = "scan", !.stack = <<>>]
             /\ ctx' = NewContext(0)
    BY Zenon, <1>1, <2>3, PhaseSet
  <2>4. CASE ~ended /\ l.op = "INCLUDE" /\ Include(l) /\ UNCHANGED ctx
    <3>1. \/ Finish("error")
          \/ /\ file \in DOMAIN project.text /\ file \notin Open(stack)
             /\ ~(Cardinality(Open(stack)) + 1 >= MaxDepth)
             /\ job' = [job EXCEPT !.stack = opened]
      BY Zenon, <2>4 DEF Include
    <3> HIDE DEF opened
    <3>2. CASE Finish("error")
      BY <2>4, <3>2
    <3>3. CASE /\ file \in DOMAIN project.text /\ file \notin Open(stack)
               /\ ~(Cardinality(Open(stack)) + 1 >= MaxDepth)
               /\ job' = [job EXCEPT !.stack = opened]
      <4>1. job' = Nest(opened, job.lines)
        BY Zenon, <1>1, <3>3, StackSet
      <4> QED BY Zenon, <2>4, <3>3, <4>1
    <3> QED BY <3>1, <3>2, <3>3
  <2>5. CASE /\ ~ended /\ l.op # "INCLUDE" /\ UNCHANGED ctx
             /\ job' = [job EXCEPT !.stack = Advance(@), !.lines = Append(@, l)]
    BY Zenon, <1>1, <2>5, LinesSet
  <2> QED BY Zenon, <2>1, <2>2, <2>3, <2>4, <2>5
<1>7. /\ ended <=> top.line > Len(text)
      /\ stack = job.stack /\ n = Len(stack) /\ top = stack[n] /\ text = project.text[top.file]
      /\ l = text[top.line]
  OBVIOUS
<1> HIDE DEF n, top, text, l, ended
<1>8. CASE Popped
  <2>1. Nested(project, Front(stack), job.lines)
    BY Zenon, <1>1, <1>7, <1>8, NestedPop DEF RunsOut
  <2>2. job' = Nest(Front(stack), job.lines)
    BY <1>8
  <2> QED BY Zenon, <1>1, <1>2, <1>8, <2>1, <2>2, Expanding
<1>9. CASE Joins
  <2>1. job.lines = Whole(project) /\ job.lines \in Seq(LineType)
    BY Zenon, <1>1, <1>7, <1>9, NestedEnd DEF Whole
  <2>2. job' = JobOf("scan", job.command, none, job.lines, 1, job.start, "none")
    BY <1>9
  <2> HIDE DEF none
  <2>3. /\ job'.phase = "scan" /\ job'.command = job.command /\ job'.stack = none
        /\ job'.lines = job.lines /\ job'.line = 1 /\ job'.start = job.start /\ job'.result = "none"
    BY <2>2 DEF JobOf
  <2>4. IsJob(job')
    <3>1. job.command \in {"none", "assemble", "run", "export"} /\ job.start \in Places \cup {Nowhere}
      BY <1>1 DEF IsJob
    <3> QED BY <2>2, <2>3, <3>1 DEF IsJob
  <2>5. GoodContext(ctx') /\ ctx'.pass = 1 /\ ctx'.target = "none"
    <3>1. 0 \in Places
      BY ScaleAssumption DEF Places
    <3> QED BY <1>9, <3>1, NewContextIs
  <2>6. 1 \in 1..(Len(job.lines) + 1)
    <3>1. Len(job.lines) \in Nat
      BY <2>1
    <3> QED BY <3>1
  <2>7. Staged(project', job', ctx', history')
    BY <1>1, <1>2, <2>1, <2>3, <2>5, <2>6 DEF Staged, none
  <2>8. Sourced(job', ctx') /\ Listed(job', ctx', history') /\ Taped(job', ctx', history')
    BY <2>3, <2>5 DEF Sourced, Listed, Taped
  <2>9. Trailed(job, ctx, history)'
    BY <2>3 DEF Trailed
  <2>10. HeldInv'
    BY <1>1, <1>2, HeldKept DEF NoHistory
  <2> QED BY <2>4, <2>5, <2>7, <2>8, <2>9, <2>10, Stepped
<1>10. CASE Fails
  BY <1>1, <1>2, <1>10, FailsKept
<1>11. CASE Pushed
  <2>1. /\ Open(stack) = OpenTo(project, stack, n)
        /\ Cardinality(Open(stack)) = n - FirstOpen(project) + 1
    BY <1>1, <1>3, <1>7, OpenIs
  <2>2. FirstOpen(project) \in Int /\ MaxDepth \in Nat
    BY ScaleAssumption DEF FirstOpen
  <2>3. Cardinality(OpenTo(project, stack, n)) + 1 < MaxDepth
    <3> DEFINE q == Cardinality(OpenTo(project, stack, n))
    <3>1. q = n - FirstOpen(project) + 1
      BY <2>1
    <3>2. ~(q + 1 >= MaxDepth)
      BY <1>11, <2>1
    <3> HIDE DEF q
    <3>3. q + 1 < MaxDepth
      BY <1>4, <2>2, <3>1, <3>2
    <3> QED BY <3>3 DEF q
  <2>4. Includes(project, stack, l, file)
    BY Zenon, <1>5, <1>7, <1>11, <2>1, <2>3 DEF Includes
  <2>5. Nested(project, opened, job.lines)
    BY Zenon, <1>1, <2>4, NestedPush
  <2> HIDE DEF opened
  <2>6. job' = Nest(opened, job.lines)
    BY <1>11
  <2> QED BY Zenon, <1>1, <1>2, <1>11, <2>5, <2>6, Expanding
<1>12. CASE Appended
  <2>1. Reads(project, stack, l)
    BY Zenon, <1>5, <1>7, <1>12 DEF Reads
  <2>2. Nested(project, Advance(stack), Append(job.lines, l))
    BY Zenon, <1>1, <2>1, NestedLine
  <2> QED BY Zenon, <1>1, <1>2, <1>12, <2>2, Expanding
<1> QED BY Zenon, <1>6, <1>8, <1>9, <1>10, <1>11, <1>12
\* The first pass begins.
LEMMA PassesBegin ==
  ASSUME AsmInv, job.phase = "scan", NEW start \in Places, BeginPasses(start),
         UNCHANGED <<project, binSize, ram, tape, running, history>>
  PROVE  AsmInv'
<1>1. /\ HeldInv /\ IsJob(job) /\ history = NoHistory /\ ram \in RamType
      /\ job.lines = Whole(project) /\ job.lines \in Seq(LineType) /\ job.stack = <<>>
      /\ job.result = "none"
  BY DEF AsmInv, Staged, HeldInv
<1>2. job' = [job EXCEPT !.phase = "pass", !.line = 1, !.start = start] /\ ctx' = NewContext(start)
  BY DEF BeginPasses
<1>3. job' = JobOf("pass", job.command, job.stack, job.lines, 1, start, "none")
  <2>1. IsJob(job) /\ job' = [job EXCEPT !.phase = "pass", !.line = 1, !.start = start]
    BY <1>1, <1>2
  <2>2. job' = JobOf("pass", job.command, job.stack, job.lines, 1, start, job.result)
    BY <2>1, PassSet, Zenon
  <2> QED BY <1>1, <2>2
<1>4. /\ job'.phase = "pass" /\ job'.command = job.command /\ job'.stack = job.stack
      /\ job'.lines = job.lines /\ job'.line = 1 /\ job'.start = start /\ job'.result = "none"
  BY <1>3 DEF JobOf
<1>5. IsJob(job')
  <2>1. job.command \in {"none", "assemble", "run", "export"}
    BY <1>1 DEF IsJob
  <2> QED BY <1>3, <1>4, <2>1 DEF IsJob
<1>6. /\ GoodContext(ctx') /\ ctx'.pass = 1 /\ ctx'.address = start /\ ctx'.exhausted = FALSE
      /\ ctx'.target = "none" /\ ctx'.output = NoOutput /\ DOMAIN ctx'.labels = {}
  BY <1>2, NewContextIs
<1>7. HeldInv'
  BY <1>1, HeldKept DEF NoHistory
<1>8. Staged(project', job', ctx', history')
  <2>1. 1 \in 1..(Len(job.lines) + 1)
    <3>1. Len(job.lines) \in Nat
      BY <1>1
    <3> QED BY <3>1
  <2>2. history'.at = <<>> /\ history'.bytes = <<>>
    BY <1>1 DEF NoHistory
  <2> QED BY <1>1, <1>4, <1>6, <2>1, <2>2 DEF Staged
<1>9. Sourced(job', ctx') /\ Listed(job', ctx', history') /\ Taped(job', ctx', history')
  BY <1>6 DEF Sourced, Listed, Taped
<1>10. Trailed(job', ctx', history')
  <2> DEFINE cs == [i \in 1..1 |-> ctx']
  <2>1. cs[1] = ctx' /\ \A i \in 1..1 : cs[i] = ctx'
    OBVIOUS
  <2>2. 1..(1 - 1) = {} /\ 1 \in Nat
    OBVIOUS
  <2> HIDE DEF cs
  <2>3. \A i \in 1..1 : GoodContext(cs[i]) /\ cs[i].pass = 1 /\ cs[i].target = "none" /\ Grown(cs[i], ctx')
    BY <1>6, <2>1, GrownRefl
  <2>4. Trail(cs, job', ctx', 1)
    BY <1>4, <1>6, <2>1, <2>2, <2>3 DEF Trail
  <2> QED BY <2>2, <2>4 DEF Trailed
<1>11. Trailed(job, ctx, history)'
  BY <1>10, TrailedNext
<1> QED BY <1>5, <1>6, <1>7, <1>8, <1>9, <1>11, Stepped

\* The scan goes on.
LEMMA ScanGoes ==
  ASSUME AsmInv, job.phase = "scan", job.line <= Len(job.lines), NEW c, NextLine(c), GoodContext(c),
         c.pass = 1, c.target = "none",
         UNCHANGED <<project, binSize, ram, tape, running, history>>
  PROVE  AsmInv'
<1>1. /\ HeldInv /\ IsJob(job) /\ history = NoHistory /\ ram \in RamType
      /\ job.lines = Whole(project) /\ job.lines \in Seq(LineType) /\ job.stack = <<>>
      /\ job.line \in 1..(Len(job.lines) + 1) /\ job.result = "none"
  BY DEF AsmInv, Staged, HeldInv
<1>2. job' = [job EXCEPT !.line = job.line + 1] /\ ctx' = c
  BY DEF NextLine
<1>3. job' = JobOf("scan", job.command, job.stack, job.lines, job.line + 1, job.start, "none")
  BY <1>1, <1>2, LineSet
<1>4. /\ job'.phase = "scan" /\ job'.command = job.command /\ job'.stack = job.stack
      /\ job'.lines = job.lines /\ job'.line = job.line + 1 /\ job'.start = job.start
      /\ job'.result = "none"
  BY <1>3 DEF JobOf
<1>5. IsJob(job')
  <2>1. job.command \in {"none", "assemble", "run", "export"} /\ job.start \in Places \cup {Nowhere}
    BY <1>1 DEF IsJob
  <2> QED BY <1>3, <1>4, <2>1 DEF IsJob
<1>6. HeldInv'
  BY <1>1, HeldKept DEF NoHistory
<1>7. job.line + 1 \in 1..(Len(job.lines) + 1)
  <2>1. Len(job.lines) \in Nat
    BY <1>1
  <2> QED BY <1>1, <2>1
<1>8. Staged(project', job', ctx', history')
  BY <1>1, <1>2, <1>4, <1>7 DEF Staged
<1>9. Sourced(job', ctx') /\ Listed(job', ctx', history') /\ Taped(job', ctx', history')
  BY <1>2, <1>4 DEF Sourced, Listed, Taped
<1>10. Trailed(job, ctx, history)'
  BY <1>4 DEF Trailed
<1> QED BY <1>2, <1>5, <1>6, <1>8, <1>9, <1>10, Stepped

\* A line of the search for ORG.
LEMMA ScanKeeps ==
  ASSUME AsmInv, ScanOrg
  PROVE  AsmInv'
<1> DEFINE l == job.lines[job.line]
           d == DefineLabels(ctx, l.labels)
           k == ReadOperands(d.ctx, l)
           q == ScanDirective(d.ctx, k)
<1>1. /\ job.phase = "scan" /\ GoodContext(ctx) /\ ctx.pass = 1 /\ ctx.target = "none"
      /\ job.lines \in Seq(LineType) /\ job.line \in 1..(Len(job.lines) + 1)
      /\ UNCHANGED <<project, binSize, ram, tape, running, history>>
  BY DEF AsmInv, ScanOrg, Staged
<1>2. ASSUME BeginAtPc PROVE AsmInv'
  <2>1. PICK pc \in ProgramCounters : BeginPasses(pc)
    BY <1>2 DEF BeginAtPc
  <2>2. pc \in Places
    BY ScaleAssumption
  <2> QED BY <1>1, <2>1, <2>2, PassesBegin
<1>3. CASE job.line > Len(job.lines) /\ BeginAtPc
  BY <1>2, <1>3
<1>4. CASE job.line <= Len(job.lines) /\ ScanLine(d, l)
  <2>1. l \in LineType
    <3>1. Len(job.lines) \in Nat
      BY <1>1
    <3>2. job.line \in 1..Len(job.lines)
      BY <1>1, <1>4, <3>1
    <3> QED BY <1>1, <3>2, ElementOfSeq
  <2>2. Defined(ctx, d)
    BY <1>1, <2>1, LineIs, DefineLabelsIs
  <2>3. GoodContext(d.ctx) /\ d.ctx.pass = 1 /\ d.ctx.target = "none" /\ d.ctx \in Context
    BY Zenon, <1>1, <2>2 DEF Defined, SameBut, GoodContext
  <2>4. IsReadLine(d.ctx, k) /\ k.name \in STRING
    BY <2>1, <2>3, ReadOperandsIs, LineIs DEF SameLine
  <2>5. \/ ~d.ok /\ BeginAtPc
        \/ d.ok /\ ScanRead(q, k)
    BY <1>4 DEF ScanLine, ScanUnlabelled
  <2> HIDE DEF d, k, l
  <2>6. GoodContext(q.ctx) /\ q.ctx.pass = 1 /\ q.ctx.target = "none"
    <3>1. \/ q = Equ(d.ctx, k)
          \/ q.ctx = d.ctx
      BY DEF ScanDirective
    <3>2. Defined(d.ctx, Equ(d.ctx, k))
      BY <2>3, <2>4, EquIs
    <3> HIDE DEF q
    <3>3. CASE q = Equ(d.ctx, k)
      BY <2>3, <3>2, <3>3 DEF Defined, SameBut
    <3>4. CASE q.ctx = d.ctx
      BY <2>3, <3>4
    <3> QED BY <3>1, <3>3, <3>4
  <2> HIDE DEF q
  <2>7. CASE BeginAtPc
    BY <1>2, <2>7
  <2>8. CASE IsOrg(k) /\ BeginPasses(Lhs(k).value.value)
    <3>1. Lhs(k).value.value \in Places
      BY <2>8 DEF IsOrg
    <3> QED BY <1>1, <2>8, <3>1, PassesBegin
  <2>9. CASE NextLine(q.ctx)
    BY <1>1, <1>4, <2>6, <2>9, ScanGoes
  <2> QED BY <2>5, <2>7, <2>8, <2>9 DEF ScanRead
<1> QED BY <1>3, <1>4 DEF ScanOrg

\* A line assembled or refused.
LEMMA AssembleKeeps ==
  ASSUME AsmInv, Assemble
  PROVE  AsmInv'
<1> DEFINE l == job.lines[job.line]
           w == AssembleLine(ctx, ram, l)
           n == w.ctx.total - ctx.total
<1>1. /\ HeldInv /\ IsJob(job) /\ GoodContext(ctx) /\ Staged(project, job, ctx, history)
      /\ Sourced(job, ctx) /\ Listed(job, ctx, history) /\ Taped(job, ctx, history)
      /\ Trailed(job, ctx, history) /\ job.phase = "pass" /\ job.line <= Len(job.lines)
      /\ ram \in RamType /\ binSize \in SizeType
      /\ history = [at |-> history.at, bytes |-> history.bytes, steady |-> history.steady]
  BY SizeIs DEF AsmInv, Assemble, HeldInv
<1>2. AtLine(project, job, ctx, history, ram, l, w)
  BY <1>1 DEF AtLine
<1>3. Kept(ctx, ram, l, w)
  BY <1>2, AtLineIs
<1>4. /\ UNCHANGED <<project, binSize, tape, running>> /\ ram' = w.ram /\ ctx' = w.ctx
      /\ \/ ~w.ok /\ Finish("error")
         \/ w.ok /\ job' = [job EXCEPT !.line = job.line + 1]
      /\ history' = IF ctx.pass = 2 /\ w.ok THEN Recorded(w, n) ELSE history
  BY DEF Assemble, AfterLine
<1>5. GoodContext(ctx') /\ ram' \in RamType
  BY <1>3, <1>4 DEF Kept, LineDone
<1> HIDE DEF w, l
<1>6. CASE ~w.ok
  <2>1. UNCHANGED history /\ Finish("error")
    BY <1>4, <1>6
  <2> QED BY <1>4, <1>5, <2>1, FailsKept
<1>7. CASE w.ok
  <2>1. job' = JobOf(job.phase, job.command, job.stack, job.lines, job.line + 1, job.start, job.result)
    BY <1>1, <1>4, <1>7, LineSet
  <2>2. Recorded(w, n) = [at |-> Append(history.at, ctx.address),
                          bytes |-> Append(history.bytes, BytesOf(ctx, w, n)),
                          steady |-> history.steady]
    <3> DEFINE u == history.at
               v == history.bytes
               z == BytesOf(ctx, w, n)
    <3>1. Recorded(w, n) = [history EXCEPT !.at = Append(u, ctx.address), !.bytes = Append(v, z)]
      BY DEF Recorded, BytesOf
    <3> HIDE DEF z, n
    <3> QED BY <1>1, <3>1, Zenon DEF z
  <2>3. history' = IF ctx.pass = 2
                   THEN [at |-> Append(history.at, ctx.address),
                         bytes |-> Append(history.bytes, BytesOf(ctx, w, n)),
                         steady |-> history.steady]
                   ELSE history
    BY <1>4, <1>7, <2>2
  <2>4. Taken(job, ctx, history, w, job', history')
    BY <2>1, <2>3 DEF Taken
  <2>5. IsJob(job') /\ Staged(project, job', ctx', history') /\ Sourced(job', ctx')
    BY <1>1, <1>2, <1>4, <1>7, <2>4, StagedLine
  <2>6. Trailed(job', ctx', history')
    BY <1>1, <1>2, <1>4, <1>7, <2>4, TrailedLine
  <2>7. Listed(job', ctx', history') /\ Taped(job', ctx', history')
    <3>1. CASE ctx.pass = 2
      BY <1>1, <1>2, <1>4, <1>7, <2>4, <3>1, ListedLine
    <3>2. CASE ctx.pass # 2
      <4>1. ctx.pass = 1 /\ ctx.target = "none"
        <5>1. ctx.pass \in {1, 2}
          BY <1>1, ContextIs DEF GoodContext
        <5> QED BY <1>1, <3>2, <5>1 DEF Staged
      <4>2. ctx'.pass = 1 /\ ctx'.target = "none"
        BY <1>3, <1>4, <4>1 DEF Kept, LineDone
      <4> QED BY <4>2 DEF Listed, Taped
    <3> QED BY <3>1, <3>2
  <2>8. Trailed(job, ctx, history)'
    BY <1>4, <2>6, TrailedNext
  <2>9. HeldInv'
    <3>1. history' = [at |-> history'.at, bytes |-> history'.bytes, steady |-> history'.steady]
      BY <1>1, <2>3
    <3> QED BY <1>1, <1>4, <1>5, <3>1, HeldKept
  <2> QED BY <1>4, <1>5, <2>5, <2>7, <2>8, <2>9, Stepped
<1> QED BY <1>4, <1>6, <1>7
\* The context of the second pass.
LEMMA SecondContext ==
  ASSUME NEW c \in Context, NEW a, NEW t, NEW d,
         d = [c EXCEPT !.pass = 2, !.address = a, !.exhausted = FALSE, !.total = 0, !.target = t]
  PROVE  d = [pass |-> 2, address |-> a, exhausted |-> FALSE, target |-> t, labels |-> c.labels,
              constants |-> c.constants, total |-> 0, output |-> c.output]
<1>1. c = [pass |-> c.pass, address |-> c.address, exhausted |-> c.exhausted, target |-> c.target,
           labels |-> c.labels, constants |-> c.constants, total |-> c.total, output |-> c.output]
  BY ContextParts
<1> QED BY <1>1, Zenon

\* The second pass begins.
LEMMA SecondBegins ==
  ASSUME AsmInv, job.phase = "pass", job.line > Len(job.lines), ctx.pass = 1,
         ctx' = [pass |-> 2, address |-> job.start, exhausted |-> FALSE,
                 target |-> IF job.command = "export" THEN "tape" ELSE "machine",
                 labels |-> ctx.labels, constants |-> ctx.constants, total |-> 0,
                 output |-> ctx.output],
         job' = [job EXCEPT !.line = 1],
         UNCHANGED <<project, binSize, ram, tape, running, history>>
  PROVE  AsmInv'
<1> DEFINE target == IF job.command = "export" THEN "tape" ELSE "machine"
<1>1. /\ HeldInv /\ IsJob(job) /\ GoodContext(ctx) /\ ram \in RamType /\ ctx \in Context
      /\ job.lines = Whole(project) /\ job.lines \in Seq(LineType) /\ job.stack = <<>>
      /\ job.line \in 1..(Len(job.lines) + 1) /\ job.result = "none" /\ job.start \in Places
      /\ ctx.target = "none" /\ ctx.output = NoOutput /\ history.at = <<>> /\ history.bytes = <<>>
      /\ Sourced(job, ctx) /\ Trailed(job, ctx, history)
      /\ history = [at |-> history.at, bytes |-> history.bytes, steady |-> history.steady]
  BY DEF AsmInv, Staged, HeldInv, GoodContext
<1>2. target \in {"tape", "machine"} /\ (target = "tape" => job.command = "export")
  OBVIOUS
<1> HIDE DEF target
<1>3. ctx' = [pass |-> 2, address |-> job.start, exhausted |-> FALSE, target |-> target,
              labels |-> ctx.labels, constants |-> ctx.constants, total |-> 0, output |-> ctx.output]
  BY DEF target
<1>4. /\ ctx'.pass = 2 /\ ctx'.address = job.start /\ ctx'.exhausted = FALSE
      /\ ctx'.target = target /\ ctx'.labels = ctx.labels /\ ctx'.constants = ctx.constants
      /\ ctx'.total = 0 /\ ctx'.output = NoOutput
  <2>1. /\ ctx'.pass = 2 /\ ctx'.address = job.start /\ ctx'.exhausted = FALSE
        /\ ctx'.target = target /\ ctx'.labels = ctx.labels /\ ctx'.constants = ctx.constants
        /\ ctx'.total = 0 /\ ctx'.output = ctx.output
    BY <1>3
  <2> QED BY <1>1, <2>1
<1>5. GoodContext(ctx')
  <2>1. ctx' \in Context
    BY <1>1, <1>2, <1>3, ContextIs DEF Context
  <2> QED BY <1>1, <1>4, <2>1 DEF GoodContext
<1>6. job' = JobOf("pass", job.command, job.stack, job.lines, 1, job.start, "none")
  <2>1. job' = JobOf(job.phase, job.command, job.stack, job.lines, 1, job.start, job.result)
    BY <1>1, LineSet, Zenon
  <2> QED BY <1>1, <2>1
<1>7. /\ job'.phase = "pass" /\ job'.command = job.command /\ job'.stack = job.stack
      /\ job'.lines = job.lines /\ job'.line = 1 /\ job'.start = job.start /\ job'.result = "none"
  BY <1>6 DEF JobOf
<1>8. IsJob(job')
  <2>1. job.command \in {"none", "assemble", "run", "export"} /\ job.start \in Places \cup {Nowhere}
    BY <1>1 DEF IsJob
  <2> QED BY <1>6, <1>7, <2>1 DEF IsJob
<1>9. HeldInv'
  BY <1>1, HeldKept
<1>10. Len(job.lines) \in Nat /\ job.line = Len(job.lines) + 1
  <2>1. Len(job.lines) \in Nat
    BY <1>1
  <2> QED BY <1>1, <2>1
<1>11. Staged(project', job', ctx', history')
  <2>1. 1 \in 1..(Len(job.lines) + 1)
    BY <1>10
  <2>2. ctx'.target = IF job'.command = "export" THEN "tape" ELSE "machine"
    BY <1>4, <1>7 DEF target
  <2> QED BY <1>1, <1>4, <1>7, <2>1, <2>2 DEF Staged
<1>12. Sourced(job', ctx')
  BY <1>1, <1>4, <1>7 DEF Sourced
<1>13. Listed(job', ctx', history')
  <2> DEFINE none == <<>>
  <2>1. none \in Seq(Places) /\ none \in Seq({}) /\ Len(none) = 0 /\ 1 - 1 = 0 /\ 1..0 = {}
    OBVIOUS
  <2>2. history'.at = none /\ history'.bytes = none
    BY <1>1
  <2> HIDE DEF none
  <2> QED BY <1>7, <2>1, <2>2 DEF Listed
<1>14. Taped(job', ctx', history')
  <2>1. OnTape(ctx', history'.at, history'.bytes)
    <3>1. DOMAIN history'.at = {}
      BY <1>1
    <3>2. Len(ctx'.output.bytes) = 0
      BY <1>4 DEF NoOutput
    <3> QED BY <1>4, <3>1, <3>2 DEF OnTape
  <2>2. Begun(ctx')
    BY <1>4 DEF Begun, NoOutput
  <2> QED BY <2>1, <2>2 DEF Taped
<1>15. Trailed(job', ctx', history')
  <2> SUFFICES ASSUME history.steady, target # "tape"
               PROVE  \E cs, m : m \in Nat /\ Trail(cs, job', ctx', m)
    BY <1>4 DEF Trailed
  <2>1. PICK cs, m : m \in Nat /\ Trail(cs, job, ctx, m)
    BY <1>1 DEF Trailed
  <2>2. /\ \A i \in 1..m : /\ GoodContext(cs[i]) /\ cs[i].pass = 1 /\ cs[i].target = "none"
                           /\ Grown(cs[i], ctx)
        /\ cs[1].address = job.start /\ cs[1].exhausted = FALSE
        /\ \A i \in 1..(m - 1) : Goes(cs[i], job.lines[i], cs[i + 1])
        /\ m = job.line
    BY <2>1 DEF Trail
  <2>3. \A i \in 1..m : Grown(cs[i], ctx')
    BY <1>4, <2>2 DEF Grown
  <2>4. m = Len(job'.lines) + 1 /\ 1 \in 1..m
    BY <1>7, <1>10, <2>2
  <2>5. cs[1].target = "none"
    BY <2>2, <2>4
  <2>6. SamePlace(cs[job'.line], ctx')
    BY <1>4, <1>7, <2>2, <2>5 DEF SamePlace
  <2>7. Trail(cs, job', ctx', m)
    <3>1. \A i \in 1..m : /\ GoodContext(cs[i]) /\ cs[i].pass = 1 /\ cs[i].target = "none"
                          /\ Grown(cs[i], ctx')
      BY <2>2, <2>3
    <3>2. cs[1].address = job'.start /\ cs[1].exhausted = FALSE
      BY <1>7, <2>2
    <3>3. \A i \in 1..(m - 1) : Goes(cs[i], job'.lines[i], cs[i + 1])
      BY <1>7, <2>2
    <3>4. ctx'.pass # 1
      BY <1>4
    <3> QED BY <2>4, <2>6, <3>1, <3>2, <3>3, <3>4 DEF Trail
  <2> QED BY <2>1, <2>7
<1>16. Trailed(job, ctx, history)'
  BY <1>15, TrailedNext
<1> QED BY <1>5, <1>8, <1>9, <1>11, <1>12, <1>13, <1>14, <1>16, Stepped

\* From the first pass to the second, and the end of the build.
LEMMA EndPassKeeps ==
  ASSUME AsmInv, EndPass
  PROVE  AsmInv'
<1>1. /\ HeldInv /\ GoodContext(ctx) /\ Staged(project, job, ctx, history) /\ Taped(job, ctx, history)
      /\ job.phase = "pass" /\ job.line > Len(job.lines) /\ job.start \in Places
      /\ UNCHANGED <<project, binSize, ram, history>>
  BY DEF AsmInv, EndPass, Staged
<1>2. /\ ram \in RamType /\ running \in Places \cup {Nowhere} /\ tape.length = Len(tape.bytes)
      /\ project \in Projects /\ binSize \in project.binSizes
      /\ history = [at |-> history.at, bytes |-> history.bytes, steady |-> history.steady]
  BY <1>1 DEF HeldInv
<1>3. ASSUME NEW x \in {"ok", "error"}, Finish(x), UNCHANGED ctx,
             tape'.length = Len(tape'.bytes), running' \in Places \cup {Nowhere}
      PROVE  AsmInv'
  <2>1. HeldInv'
    BY <1>1, <1>2, <1>3 DEF HeldInv
  <2>2. job' = [IdleJob EXCEPT !.result = x] /\ x \in {"none", "ok", "error"}
    BY <1>3 DEF Finish
  <2>3. ctx'.target = "tape" => OnTape(ctx', history'.at, history'.bytes)
    BY <1>1, <1>3 DEF Taped
  <2> QED BY <1>1, <1>3, <2>1, <2>2, <2>3, Ended
<1>4. CASE /\ ctx.pass = 1
           /\ ctx' = [ctx EXCEPT !.pass = 2, !.address = job.start, !.exhausted = FALSE, !.total = 0,
                                 !.target = IF job.command = "export" THEN "tape" ELSE "machine"]
           /\ job' = [job EXCEPT !.line = 1] /\ UNCHANGED <<tape, running>>
  <2> DEFINE t == IF job.command = "export" THEN "tape" ELSE "machine"
  <2>1. ctx \in Context
    BY <1>1 DEF GoodContext
  <2>2. ctx' = [ctx EXCEPT !.pass = 2, !.address = job.start, !.exhausted = FALSE, !.total = 0,
                           !.target = t]
    BY <1>4
  <2> HIDE DEF t
  <2>3. ctx' = [pass |-> 2, address |-> job.start, exhausted |-> FALSE, target |-> t,
                labels |-> ctx.labels, constants |-> ctx.constants, total |-> 0,
                output |-> ctx.output]
    BY <2>1, <2>2, SecondContext, Zenon
  <2> USE DEF t
  <2> QED BY <1>1, <1>4, <2>3, SecondBegins
<1>5. CASE /\ Finish("ok") /\ UNCHANGED <<ctx, tape>>
           /\ running' = IF job.command = "run" THEN job.start ELSE running
  BY <1>1, <1>2, <1>3, <1>5
<1>6. CASE ExportTape /\ UNCHANGED <<ctx, running>>
  <2>1. CASE Finish("error") /\ UNCHANGED tape
    BY <1>2, <1>3, <1>6, <2>1
  <2>2. CASE Finish("ok") /\ tape' = TapeFile(ctx.output)
    <3>1. tape'.length = Len(tape'.bytes)
      BY <2>2 DEF TapeFile
    <3> QED BY <1>2, <1>3, <1>6, <2>2, <3>1
  <2> QED BY <1>6, <2>1, <2>2 DEF ExportTape
<1> QED BY <1>4, <1>5, <1>6 DEF EndPass

\* The binary file is replaced.
LEMMA ReplaceKeeps ==
  ASSUME AsmInv, ReplaceBinary
  PROVE  AsmInv'
<1>1. /\ HeldInv /\ IsJob(job) /\ GoodContext(ctx) /\ Staged(project, job, ctx, history)
      /\ Sourced(job, ctx) /\ Listed(job, ctx, history) /\ Taped(job, ctx, history)
      /\ job.phase = "pass"
      /\ history = [at |-> history.at, bytes |-> history.bytes, steady |-> history.steady]
  BY DEF AsmInv, ReplaceBinary, HeldInv
<1>2. /\ UNCHANGED <<project, ram, job, ctx, tape, running>> /\ binSize' \in project.binSizes
      /\ history' = [history EXCEPT !.steady = FALSE]
  BY DEF ReplaceBinary
<1>3. history' = [at |-> history.at, bytes |-> history.bytes, steady |-> FALSE]
  BY <1>1, <1>2, Zenon
<1>4. history'.at = history.at /\ history'.bytes = history.bytes /\ history'.steady = FALSE
      /\ history' = [at |-> history'.at, bytes |-> history'.bytes, steady |-> history'.steady]
  BY <1>3
<1>5. HeldInv'
  BY <1>1, <1>2, <1>4 DEF HeldInv
<1>6. Staged(project', job', ctx', history')
  BY <1>1, <1>2, <1>4 DEF Staged
<1>7. Listed(job', ctx', history')
  BY <1>1, <1>2, <1>4 DEF Listed, NextAt
<1>8. Taped(job', ctx', history') /\ Sourced(job', ctx')
  BY <1>1, <1>2, <1>4 DEF Taped, Sourced
<1>9. Trailed(job, ctx, history)'
  BY <1>4 DEF Trailed
<1> QED BY <1>1, <1>2, <1>5, <1>6, <1>7, <1>8, <1>9, Stepped

\* A step of another part.
LEMMA StutterKeeps ==
  ASSUME AsmInv, UNCHANGED assemblerVars
  PROVE  AsmInv'
<1>1. /\ HeldInv /\ IsJob(job) /\ GoodContext(ctx) /\ Staged(project, job, ctx, history)
      /\ Sourced(job, ctx) /\ Listed(job, ctx, history) /\ Taped(job, ctx, history)
      /\ Trailed(job, ctx, history)
  BY DEF AsmInv
<1>2. UNCHANGED <<project, binSize, ram, job, ctx, tape, running, history>>
  BY DEF assemblerVars
<1>3. Trailed(job', ctx', history')
  BY <1>1, <1>2
<1>4. Trailed(job, ctx, history)'
  BY <1>2, <1>3, TrailedNext
<1>5. HeldInv'
  BY <1>1, <1>2 DEF HeldInv
<1> QED BY <1>1, <1>2, <1>4, <1>5, Stepped
-----------------------------------------------------------------------------
(* What holds of every build.                                              *)

(* A build, from the reading of the document to the last line of its       *)
(* second pass (app_assembler_apply_source): what it has prepared is what  *)
(* has been read, the second pass goes through the contexts of the first,  *)
(* and each line lies where it was put.                                    *)
THEOREM AssemblerInvariant == SpecAssembler => []AsmInv
<1>1. InitAssembler => AsmInv
  BY BuildStarts
<1>2. AsmInv /\ [NextAssembler]_assemblerVars => AsmInv'
  <2> SUFFICES ASSUME AsmInv, [NextAssembler]_assemblerVars
               PROVE  AsmInv'
    OBVIOUS
  <2>1. CASE Expand
    BY <2>1, ExpandKeeps
  <2>2. CASE ScanOrg
    BY <2>2, ScanKeeps
  <2>3. CASE Assemble
    BY <2>3, AssembleKeeps
  <2>4. CASE EndPass
    BY <2>4, EndPassKeeps
  <2>5. CASE ReplaceBinary
    BY <2>5, ReplaceKeeps
  <2>6. CASE \E command \in {"assemble", "run", "export"} : StartBuild(command)
    BY <2>6, StartKeeps
  <2>7. CASE UNCHANGED assemblerVars
    BY <2>7, StutterKeeps
  <2> QED BY <2>1, <2>2, <2>3, <2>4, <2>5, <2>6, <2>7 DEF NextAssembler
<1> QED BY <1>1, <1>2, PTL DEF SpecAssembler

(* The tables of app_assembler_ctx_t hold each name once and no more than  *)
(* they have room for, files are included no deeper than the limit, and    *)
(* addresses stay in memory.                                               *)
THEOREM AssemblerTypes == SpecAssembler => []AssemblerTypeOK
<1>1. AsmInv => AssemblerTypeOK
  <2> SUFFICES ASSUME AsmInv PROVE AssemblerTypeOK
    OBVIOUS
  <2>1. /\ project \in Projects /\ binSize \in project.binSizes /\ ram \in RamType
        /\ tape.length = Len(tape.bytes) /\ running \in Places \cup {Nowhere}
        /\ IsJob(job) /\ GoodContext(ctx) /\ Staged(project, job, ctx, history)
    BY DEF AsmInv, HeldInv
  <2>2. \A a \in Places : ram[a] \in BytesType
    BY <2>1 DEF RamType
  <2>3. /\ job.phase \in {"idle", "expand", "scan", "pass"}
        /\ job.command \in {"none", "assemble", "run", "export"} /\ job.start \in Places \cup {Nowhere}
    BY <2>1 DEF IsJob
  <2>4. Len(job.stack) <= MaxDepth /\ job.line \in 1..(Len(job.lines) + 1)
    <3> DEFINE none == <<>>
    <3>0. Len(none) = 0 /\ MaxDepth \in Nat
      BY ScaleAssumption
    <3>1. CASE job.phase = "idle"
      BY <2>1, <3>0, <3>1 DEF Staged
    <3>2. CASE job.phase = "expand"
      <4>1. job.line = 1 /\ FramesIn(project, job.stack) /\ \E b : Joined(project, job.stack, job.lines, b)
        BY <2>1, <3>2 DEF Staged, Nested
      <4>2. Len(job.stack) <= MaxDepth /\ Len(job.stack) \in Nat
        BY <2>1, <4>1, FramesAre
      <4>3. Len(job.lines) \in Nat
        <5>1. Len(job.stack) \in 0..Len(job.stack)
          BY <4>2
        <5>2. job.lines \in Seq(LineType)
          BY <4>1, <5>1 DEF Joined
        <5> QED BY <5>2, LenProperties
      <4>4. 1 \in 1..(Len(job.lines) + 1)
        BY <4>3
      <4> QED BY <4>1, <4>2, <4>4
    <3>3. CASE job.phase \in {"scan", "pass"}
      BY <2>1, <3>0, <3>3 DEF Staged
    <3> QED BY <2>3, <3>1, <3>2, <3>3
  <2>5. /\ ctx.pass \in {1, 2} /\ ctx.address \in Places /\ ctx.exhausted \in BOOLEAN
        /\ ctx.target \in {"none", "machine", "tape"} /\ ctx.total \in Nat
        /\ \A n \in DOMAIN ctx.labels : ctx.labels[n] \in Places
        /\ \A n \in DOMAIN ctx.constants : ctx.constants[n] \in Int32
        /\ ctx.output.start \in Places \cup {Nowhere}
    BY <2>1, ContextIs DEF GoodContext
  <2>6. \A n \in DOMAIN ctx.constants : ctx.constants[n] \in Int
    <3>1. \A i \in Int32 : i \in Int
      BY DEF Int32
    <3> QED BY <2>5, <3>1
  <2>7. /\ DOMAIN ctx.labels \cap DOMAIN ctx.constants = {}
        /\ Cardinality(DOMAIN ctx.labels) <= MaxLabels
        /\ Cardinality(DOMAIN ctx.constants) <= MaxLabels
    BY <2>1 DEF GoodContext, Holds
  <2> QED BY <2>1, <2>2, <2>3, <2>4, <2>5, <2>6, <2>7 DEF AssemblerTypeOK
<1> QED BY <1>1, AssemblerInvariant, PTL

\* The text that the property speaks of.
LEMMA FlattenedIs == Flattened = Whole(project)
BY DEF Flattened, Whole, FlatOf, Text

(* What the passes are given is the text of the document with each file    *)
(* in the place of its INCLUDE, however files include one another          *)
(* (app_assembler_expand_source): no line twice, none left out.            *)
THEOREM IncludesHold == SpecAssembler => []IncludesInPlace
<1>1. AsmInv => IncludesInPlace
  BY FlattenedIs DEF AsmInv, Staged, IncludesInPlace
<1> QED BY <1>1, AssemblerInvariant, PTL

\* From a label to the first bytes after it the address stays.
LEMMA TargetIs ==
  ASSUME AsmInv, Assembled, NEW name \in DOMAIN ctx.labels, NEW j \in Targets(name)
  PROVE  history.at[j] = ctx.labels[name] /\ j \in 1..Len(job.lines)
<1> DEFINE n == Len(job.lines)
           k == LabelLine(name)
           at == history.at
<1>1. /\ job.phase = "pass" /\ ctx.pass = 2 /\ job.line > n /\ Staged(project, job, ctx, history)
      /\ Sourced(job, ctx) /\ Listed(job, ctx, history)
  BY DEF AsmInv, Assembled
<1>2. /\ job.lines \in Seq(LineType) /\ n \in Nat /\ DOMAIN job.lines = 1..n /\ job.line = n + 1
      /\ job.line - 1 = n
  <2>1. job.lines \in Seq(LineType) /\ job.line \in 1..(n + 1)
    BY <1>1 DEF Staged
  <2>2. n \in Nat /\ DOMAIN job.lines = 1..n
    BY <2>1
  <2> HIDE DEF n
  <2> QED BY <1>1, <2>1, <2>2
<1>3. /\ at \in Seq(Places) /\ Len(at) = n
      /\ \A i \in 1..n : Laid(job.lines[i], at[i], history.bytes[i], NextAt(history, ctx, i), ctx.labels)
  BY <1>1, <1>2 DEF Listed
<1>4. k \in 1..n /\ name \in NamesOf(job.lines[k].labels)
  <2>1. \A i \in 1..n : ToSet(job.lines[i].labels) = NamesOf(job.lines[i].labels)
    <3> TAKE i \in 1..n
    <3>1. job.lines[i].labels \in Seq(STRING)
      <4>1. job.lines[i] \in LineType
        BY <1>2, ElementOfSeq
      <4> QED BY <4>1, LineIs
    <3>2. DOMAIN job.lines[i].labels = 1..Len(job.lines[i].labels)
      BY <3>1, LenProperties
    <3> QED BY <3>2 DEF ToSet, NamesOf
  <2>2. \E i \in 1..n : name \in NamesOf(job.lines[i].labels)
    BY <1>1 DEF Sourced
  <2>3. \E i \in DOMAIN job.lines : name \in ToSet(job.lines[i].labels)
    BY <1>2, <2>1, <2>2
  <2>4. k \in DOMAIN job.lines /\ name \in ToSet(job.lines[k].labels)
    BY <2>3 DEF LabelLine
  <2> QED BY <1>2, <2>1, <2>4
<1>5. /\ j \in k..n
      /\ \A i \in k..j : job.lines[i].op # "ORG"
      /\ \A i \in k..(j - 1) : history.bytes[i] = <<>>
  BY DEF Targets
<1> HIDE DEF k, n, at
<1>6. at[k] = ctx.labels[name]
  BY <1>3, <1>4 DEF Laid
<1>7. k \in Int /\ j \in Int /\ k >= 1 /\ k <= j /\ j <= n
  BY <1>2, <1>4, <1>5
<1> DEFINE B == {i \in Nat : at[k + i] = at[k]}
<1>8. \A i \in 1..(j - k) : i - 1 \in B => i \in B
  <2> SUFFICES ASSUME NEW i \in 1..(j - k), at[k + (i - 1)] = at[k] PROVE at[k + i] = at[k]
    OBVIOUS
  <2> DEFINE a == k + (i - 1)
  <2>1. a \in k..(j - 1) /\ a \in k..j /\ a \in 1..n /\ a < n /\ a + 1 = k + i
    BY <1>2, <1>7
  <2> HIDE DEF a
  <2>2. job.lines[a].op # "ORG" /\ history.bytes[a] = <<>>
    BY <1>5, <2>1
  <2>3. NextAt(history, ctx, a) = at[a]
    BY <1>3, <2>1, <2>2 DEF Laid
  <2>4. NextAt(history, ctx, a) = at[a + 1]
    BY <1>3, <2>1 DEF NextAt, at
  <2> QED BY <2>1, <2>3, <2>4 DEF a
<1>9. 0 \in B
  <2>1. k + 0 = k
    BY <1>7
  <2> QED BY <2>1
<1>10. j - k \in Nat /\ k + (j - k) = j /\ j - k \in 0..(j - k)
  BY <1>7
<1> HIDE DEF B
<1>11. \A i \in 0..(j - k) : i \in B
  BY <1>8, <1>9, <1>10, CountsUp
<1>12. at[j] = at[k]
  <2>1. j - k \in B
    BY <1>10, <1>11
  <2> QED BY <1>10, <2>1 DEF B
<1>13. j \in 1..n
  BY <1>2, <1>7
<1> QED BY <1>6, <1>12, <1>13 DEF at, n

(* A build that app_assemble_source accepts has every jump to a label      *)
(* land on the first byte behind the label, and its tape hold the bytes    *)
(* that lie there, for every source, memory and file of INCBIN.            *)
THEOREM LandsHold == SpecAssembler => []LandsInPlace
<1>1. AsmInv => LandsInPlace
  <2> SUFFICES ASSUME AsmInv PROVE LandsInPlace
    OBVIOUS
  <2>1. ASSUME Assembled, NEW i \in DOMAIN job.lines, NEW name \in DOMAIN ctx.labels,
               job.lines[i].op \in {"JP", "JR"}, Count(job.lines[i]) = 1,
               Is(Lhs(job.lines[i]), name), NEW j \in Targets(name)
        PROVE  IF job.lines[i].op = "JP" THEN history.bytes[i][2] = Low(history.at[j])
               ELSE history.bytes[i][2].value + history.at[i] + 2 = history.at[j]
    <3> DEFINE l == job.lines[i]
               z == history.bytes[i][2]
               a == history.at[i]
               v == ctx.labels[name]
    <3>1. history.at[j] = v
      BY <2>1, TargetIs
    <3>2. /\ job.phase = "pass" /\ ctx.pass = 2 /\ job.line > Len(job.lines)
          /\ Staged(project, job, ctx, history) /\ Listed(job, ctx, history) /\ GoodContext(ctx)
      BY <2>1 DEF AsmInv, Assembled
    <3>3. i \in 1..(job.line - 1) /\ history.at \in Seq(Places) /\ Len(history.at) = job.line - 1
          /\ Laid(l, a, history.bytes[i], NextAt(history, ctx, i), ctx.labels)
      <4>1. job.lines \in Seq(LineType) /\ job.line \in 1..(Len(job.lines) + 1)
        BY <3>2 DEF Staged
      <4>2. DOMAIN job.lines = 1..Len(job.lines) /\ Len(job.lines) \in Nat
        BY <4>1
      <4>3. i \in 1..(job.line - 1)
        BY <3>2, <4>1, <4>2
      <4> QED BY <3>2, <4>3 DEF Listed
    <3>4. a \in Int /\ v \in Int
      <4>1. a \in Places
        BY <3>3, ElementOfSeq
      <4>2. v \in Places
        BY <3>2, ContextIs DEF GoodContext
      <4> QED BY <4>1, <4>2 DEF Places
    <3>5. JumpsTo(l, name)
      BY <2>1 DEF JumpsTo
    <3>6. /\ l.op = "JP" => z = Low(v)
          /\ l.op = "JR" => z.value = v - (a + 2)
      BY <3>3, <3>5 DEF Laid
    <3> HIDE DEF a, v, z
    <3>7. CASE l.op = "JP"
      BY <3>1, <3>6, <3>7 DEF z
    <3>8. CASE l.op = "JR"
      <4>1. z.value + a + 2 = v
        BY <3>4, <3>6, <3>8
      <4> QED BY <3>1, <3>8, <4>1 DEF z, a
    <3> QED BY <2>1, <3>7, <3>8
  <2>2. JumpsLand
    BY <2>1 DEF JumpsLand
  <2>3. TapeLoadsInPlace
    BY DEF AsmInv, Taped, OnTape, TapeLoadsInPlace
  <2> QED BY <2>2, <2>3 DEF LandsInPlace
<1> QED BY <1>1, AssemblerInvariant, PTL

(* Memory is written by whole lines of the second pass alone, as long as   *)
(* the file of INCBIN keeps its size: what app_assemble_line would refuse  *)
(* half written, DEFS between two chunks, pass 1 has refused before.       *)
THEOREM RefusedHold == SpecAssembler => RefusedWritesNothing
<1>1. AsmInv /\ [NextAssembler]_assemblerVars =>
        [ram' # ram => /\ job.phase = "pass" /\ ctx.pass = 2 /\ job.command # "export"
                       /\ history.steady => job'.line = job.line + 1]_assemblerVars
  <2> SUFFICES ASSUME AsmInv, NextAssembler, ram' # ram
               PROVE  /\ job.phase = "pass" /\ ctx.pass = 2 /\ job.command # "export"
                      /\ history.steady => job'.line = job.line + 1
    BY DEF assemblerVars
  <2>1. Assemble
    BY DEF NextAssembler, Expand, ScanOrg, EndPass, ReplaceBinary, StartBuild
  <2> DEFINE l == job.lines[job.line]
             w == AssembleLine(ctx, ram, l)
  <2>2. /\ HeldInv /\ IsJob(job) /\ GoodContext(ctx) /\ Staged(project, job, ctx, history)
        /\ Trailed(job, ctx, history) /\ job.phase = "pass" /\ job.line <= Len(job.lines)
        /\ ram \in RamType /\ binSize \in SizeType
    BY <2>1, SizeIs DEF AsmInv, Assemble, HeldInv
  <2>3. AtLine(project, job, ctx, history, ram, l, w)
    BY <2>2 DEF AtLine
  <2>4. Kept(ctx, ram, l, w) /\ ctx.pass \in {1, 2}
    BY <2>3, AtLineIs
  <2>5. /\ ram' = w.ram
        /\ \/ ~w.ok
           \/ w.ok /\ job' = [job EXCEPT !.line = job.line + 1]
    BY <2>1 DEF Assemble, AfterLine
  <2> HIDE DEF w, l
  <2>6. ctx.target = "machine"
    BY <2>4, <2>5 DEF Kept, LineDone
  <2>7. ctx.pass = 2 /\ job.command # "export"
    BY <2>2, <2>4, <2>6 DEF Staged
  <2>8. ASSUME history.steady PROVE job'.line = job.line + 1
    <3>1. w.ok
      BY <2>2, <2>3, <2>5, <2>6, <2>7, <2>8, RefusedLine
    <3>2. job' = JobOf(job.phase, job.command, job.stack, job.lines, job.line + 1, job.start, job.result)
      BY <2>2, <2>5, <3>1, LineSet
    <3> QED BY <3>2 DEF JobOf
  <2> QED BY <2>2, <2>7, <2>8
<1> QED BY <1>1, AssemblerInvariant, PTL DEF SpecAssembler, RefusedWritesNothing
=============================================================================
