-------------------------- MODULE NextMemory_proofs --------------------------
(* Theorems about NextMemory, for every use of the machine: whatever ports, *)
(* registers and addresses a program, its Copper and the files it loads use. *)
EXTENDS NextMemory, SequenceTheorems, TLAPS

-----------------------------------------------------------------------------
(* Arithmetic of bytes and addresses.                                      *)

LEMMA BitIsBoolean == \A v, i : Bit(v, i) \in BOOLEAN
BY Zenon DEF Bit

LEMMA BitsRange ==
  ASSUME NEW v \in Byte
  PROVE  /\ Bits(v, 0, 1) \in 0..1 /\ Bits(v, 1, 1) \in 0..1 /\ Bits(v, 2, 1) \in 0..1
         /\ Bits(v, 4, 1) \in 0..1 /\ Bits(v, 6, 1) \in 0..1 /\ Bits(v, 7, 1) \in 0..1
         /\ Bits(v, 4, 3) \in 0..7 /\ Bits(v, 6, 2) \in 0..3 /\ Bits(v, 1, 2) \in 0..3
BY DEF Bits, Byte

LEMMA RomBankRange ==
  ASSUME NEW p \in Byte, NEW q \in Byte
  PROVE  RomBank(p, q) \in 0..3
BY DEF RomBank, Bits, Byte

LEMMA BankRange ==
  ASSUME NEW d \in Byte, NEW q \in Byte
  PROVE  Bank(d, q) \in 0..127 /\ Bank(d, q) = Bank(d % 16, q)
BY DEF Bank, Byte

\* One bit of a byte is replaced.
LEMMA RomBitSet ==
  ASSUME NEW v \in Byte, NEW x \in Byte
  PROVE  LET n == WithBits(v, 4, 1, x)
         IN  /\ n \in Byte /\ n % 8 = v % 8
             /\ Bits(n, 4, 1) = Bits(x, 0, 1) /\ Bits(n, 5, 1) = Bits(v, 5, 1)
BY DEF Byte, WithBits, Bits

LEMMA ScreenBitSet ==
  ASSUME NEW v \in Byte, NEW x \in 0..1
  PROVE  LET n == WithBits(v, 3, 1, x)
         IN  /\ n \in Byte /\ n % 8 = v % 8
             /\ Bits(n, 4, 1) = Bits(v, 4, 1) /\ Bits(n, 5, 1) = Bits(v, 5, 1)
BY SMTT(60) DEF Byte, WithBits, Bits

LEMMA LockBitCleared ==
  ASSUME NEW v \in Byte
  PROVE  LET n == WithBits(v, 5, 1, 0)
         IN  n \in Byte /\ n % 8 = v % 8 /\ Bits(n, 4, 1) = Bits(v, 4, 1)
BY DEF Byte, WithBits, Bits

LEMMA LowBitsSet ==
  ASSUME NEW v \in Byte, NEW x \in 0..15
  PROVE  LET n == WithBits(v, 0, 3, x)
         IN  /\ n \in Byte /\ n % 8 = x % 8
             /\ Bits(n, 4, 1) = Bits(v, 4, 1) /\ Bits(n, 5, 1) = Bits(v, 5, 1)
             /\ Bits(n, 2, 1) = Bits(x, 2, 1) /\ Bits(n, 0, 1) = Bits(x, 0, 1)
BY SMTT(60) DEF Byte, WithBits, Bits

\* The latch 1FFD that NR 8E writes.
LEMMA MappingLatch ==
  ASSUME NEW v \in Byte
  PROVE  LET x == Bits(v, 1, 1) * 4 + Bits(v, 0, 1) * 2 + Bits(v, 2, 1)
         IN  /\ x \in 0..7 /\ Bits(x, 2, 1) = Bits(v, 1, 1) /\ Bits(x, 0, 1) = Bits(v, 2, 1)
BY DEF Byte, Bits

LEMMA AddressUp ==
  ASSUME NEW sp \in Address
  PROVE  /\ Up(sp, 1) \in Address /\ Up(sp, -1) \in Address /\ Up(sp, 2) \in Address
         /\ Up(sp, 1) % 2 # sp % 2 /\ Up(Up(sp, -1), 1) = sp
<1> USE DEF Up, Address
<1>1. Up(sp, 1) \in Address /\ Up(sp, -1) \in Address /\ Up(sp, 2) \in Address
  BY SMTT(20)
<1>2. Up(sp, 1) % 2 # sp % 2
  BY SMTT(20)
<1>3. Up(Up(sp, -1), 1) = sp
  BY SMTT(20)
<1>4. QED
  BY <1>1, <1>2, <1>3

LEMMA PageAddress ==
  ASSUME NEW page \in Byte, NEW a \in Address
  PROVE  LET at == page * 8192 + (a % 8192)
         IN  at \in Nat /\ at < 2^21 /\ at % 2 = a % 2
BY DEF Byte, Address

LEMMA BankAddress ==
  ASSUME NEW bank \in 0..127, NEW a \in Address
  PROVE  LET at == bank * 16384 + (a % 16384)
         IN  at \in Nat /\ at < 2^21 /\ at % 2 = a % 2
BY DEF Address

\* Banks of 16K and pages of 8K below 4000h.
LEMMA LowAddress ==
  ASSUME NEW bank \in Nat, NEW a \in Address, a < 16384
  PROVE  LET at == bank * 16384 + a
         IN  at \in Nat /\ at < (bank + 1) * 16384 /\ at % 2 = a % 2
BY DEF Address

LEMMA LowPage ==
  ASSUME NEW bank \in Nat, NEW a \in Address, a < 16384
  PROVE  LET at == bank * 8192 + (a % 8192)
         IN  at \in Nat /\ at < (bank + 1) * 8192 /\ at % 2 = a % 2
BY DEF Address

-----------------------------------------------------------------------------
(* Where an address is.                                                    *)

Devices == {"ram", "rom", "divrom", "divram", "alt", "multiface", "loader"}
Places == [device: Devices, at: Nat]

\* A place inside its device, with the parity of its address.
Fits(c, a) ==
  c # Nowhere => /\ c \in Places /\ c.at < Sizes[c.device] /\ c.at % 2 = a % 2

LEMMA NowhereIsNoPlace == Nowhere \notin Places
BY DEF Nowhere, Places, Devices

LEMMA SizesAre ==
  /\ Sizes["ram"] = 2^21 /\ Sizes["rom"] = 65536 /\ Sizes["divrom"] = 8192
  /\ Sizes["divram"] = 2^17 /\ Sizes["alt"] = 32768 /\ Sizes["multiface"] = 16384
  /\ Sizes["loader"] = 8192
BY DEF Sizes

LEMMA InFits ==
  ASSUME NEW d \in Devices, NEW at \in Nat, at < Sizes[d], NEW a, at % 2 = a % 2
  PROVE  Fits(In(d, at), a)
BY DEF Fits, In, Places

LEMMA MachineFields ==
  ASSUME NEW m \in NextMachine
  PROVE  /\ m.mmu \in [Slots -> Byte] /\ m.nr \in [NextRegs -> Byte]
         /\ m.p7ffd \in Byte /\ m.p1ffd \in Byte /\ m.pdffd \in 0..15 /\ m.rom_bank \in 0..3
         /\ m.config_page \in Byte /\ m.layer2 \in Byte /\ m.layer2_offset \in 0..7
         /\ m.divmmc \in Byte /\ m.reset_type \in 0..4 /\ m.retn_reads \in 0..2
         /\ m.writes \in Seq(Note)
BY DEF NextMachine

LEMMA MappedFits ==
  ASSUME NEW m \in NextMachine, NEW a \in Address
  PROVE  Mapped(m, a) # Nowhere /\ Fits(Mapped(m, a), a)
<1>1. Slot(a) \in Slots
  BY DEF Slot, Slots, Address
<1> DEFINE page == m.mmu[Slot(a)]
           at == page * 8192 + (a % 8192)
<1>2. page \in Byte
  BY <1>1, MachineFields
<1> HIDE DEF page
<1>3. at \in Nat /\ at < 2^21 /\ at % 2 = a % 2
  BY <1>2, PageAddress
<1> HIDE DEF at
<1>4. Fits(In("ram", at), a)
  BY <1>3, InFits, SizesAre DEF Devices
<1>5. Mapped(m, a) = In("ram", at)
  BY DEF Mapped, at, page
<1>6. In("ram", at) # Nowhere
  BY DEF In, Nowhere
<1>7. QED
  BY <1>4, <1>5, <1>6

LEMMA Layer2Fits ==
  ASSUME NEW m \in NextMachine, NEW a \in Address
  PROVE  /\ Fits(Layer2(m, a), a)
         /\ Layer2(m, a) # Nowhere => Layer2(m, a).device = "ram"
<1> DEFINE segment == Bits(m.layer2, 6, 2)
           base == m.nr[IF Bit(m.layer2, 3) THEN 19 ELSE 18] % 128
           bank == base + (IF segment = 3 THEN a \div 16384 ELSE segment) + m.layer2_offset
           at == bank * 16384 + (a % 16384)
<1>1. m.layer2 \in Byte /\ m.layer2_offset \in 0..7
  BY MachineFields
<1>2. segment \in 0..3
  BY <1>1, BitsRange
<1>3. base \in 0..127
  <2>1. m.nr[18] \in Byte /\ m.nr[19] \in Byte
    BY MachineFields DEF NextRegs
  <2>2. QED
    BY <2>1 DEF Byte
<1> HIDE DEF segment, base
<1>4. bank \in Nat
  BY <1>1, <1>2, <1>3 DEF Address
<1>5. Layer2(m, a) = IF (a < 16384 \/ segment = 3) /\ a < 49152 /\ bank < 128
                     THEN In("ram", at) ELSE Nowhere
  BY DEF Layer2, segment, base
<1> HIDE DEF bank
<1>6. ASSUME bank < 128 PROVE Fits(In("ram", at), a)
  <2>1. at \in Nat /\ at < 2^21 /\ at % 2 = a % 2
    <3>1. bank \in 0..127
      BY <1>4, <1>6
    <3>2. QED
      BY <3>1, BankAddress
  <2> HIDE DEF at
  <2>2. QED
    BY <2>1, InFits, SizesAre DEF Devices
<1> HIDE DEF at
<1>7. QED
  BY <1>5, <1>6 DEF Fits, In

LEMMA DivmmcFits ==
  ASSUME NEW m \in NextMachine, NEW a \in Address, a < 16384, NEW reading \in BOOLEAN
  PROVE  /\ Fits(Divmmc(m, a, reading), a)
         /\ reading => Divmmc(m, a, reading) # Nowhere
<1> DEFINE bank == m.divmmc % 16
           high == bank * 8192 + (a % 8192)
           low == 3 * 8192 + a
<1>1. bank \in 0..15
  BY MachineFields DEF Byte
<1> HIDE DEF bank
<1>2. high \in Nat /\ high < 2^17 /\ high % 2 = a % 2
  BY <1>1, LowPage
<1>3. a < 8192 => low \in Nat /\ low < 2^17 /\ low % 2 = a % 2
  BY DEF Address
<1> HIDE DEF high, low
<1>4. Fits(In("divram", high), a)
  BY <1>2, InFits, SizesAre DEF Devices
<1>5. a < 8192 => Fits(In("divram", low), a) /\ Fits(In("divrom", a), a)
  BY <1>3, InFits, SizesAre DEF Devices, Address
<1>6. Fits(Nowhere, a) /\ \A d, at : d \in Devices => In(d, at) # Nowhere
  BY DEF Fits, In, Nowhere, Devices
<1>7. Divmmc(m, a, reading) =
        IF a >= 8192 THEN In("divram", high)
        ELSE IF ~reading THEN Nowhere
        ELSE IF Bit(m.divmmc, 6) THEN In("divram", low)
        ELSE In("divrom", a)
  BY DEF Divmmc, high, low, bank
<1>8. CASE a >= 8192
  BY <1>4, <1>6, <1>7, <1>8 DEF Devices
<1>9. CASE a < 8192
  BY <1>5, <1>6, <1>7, <1>9 DEF Devices, Address
<1>10. QED
  BY <1>8, <1>9 DEF Address

LEMMA ConfiguredFits ==
  ASSUME NEW m \in NextMachine, NEW a \in Address, a < 16384
  PROVE  Fits(Configured(m, a), a)
<1> DEFINE p == m.config_page
           Start(bank) == bank * 16384 + a
<1>1. p \in Byte /\ Fits(Nowhere, a)
  BY MachineFields DEF Fits
<1> HIDE DEF p
<1>2. \A bank \in Nat : Start(bank) \in Nat /\ Start(bank) < (bank + 1) * 16384 /\ Start(bank) % 2 = a % 2
  <2>1. SUFFICES ASSUME NEW bank \in Nat
                 PROVE  Start(bank) \in Nat /\ Start(bank) < (bank + 1) * 16384 /\ Start(bank) % 2 = a % 2
    OBVIOUS
  <2>2. QED
    BY LowAddress, SMT
<1>3. Configured(m, a) =
        IF p \in 0..3 THEN In("rom", Start(p))
        ELSE IF p = 4 /\ a < 8192 THEN In("divrom", a)
        ELSE IF p = 5 THEN In("multiface", a)
        ELSE IF p \in 6..7 THEN In("alt", Start(p - 6))
        ELSE IF p \in 8..15 THEN In("divram", Start(p - 8))
        ELSE IF p \in 16..127 THEN In("ram", Start(p - 16))
        ELSE Nowhere
  BY DEF Configured, p
<1> HIDE DEF Start
<1>4. CASE p \in 0..3
  <2>1. Configured(m, a) = In("rom", Start(p))
    BY <1>1, <1>3, <1>4
  <2>2. Start(p) \in Nat /\ Start(p) < 65536 /\ Start(p) % 2 = a % 2
    BY <1>1, <1>2, <1>4
  <2>3. QED
    BY <2>1, <2>2, InFits, SizesAre DEF Devices
<1>5. CASE p = 4
  <2>1. a < 8192 => Fits(In("divrom", a), a)
    BY InFits, SizesAre DEF Devices, Address
  <2>2. QED
    BY <1>1, <1>3, <1>5, <2>1
<1>6. CASE p = 5
  <2>1. Fits(In("multiface", a), a)
    BY InFits, SizesAre DEF Devices, Address
  <2>2. QED
    BY <1>3, <1>6, <2>1
<1>7. CASE p \in 6..7
  <2>1. Configured(m, a) = In("alt", Start(p - 6))
    BY <1>1, <1>3, <1>7
  <2>2. Start(p - 6) \in Nat /\ Start(p - 6) < 32768 /\ Start(p - 6) % 2 = a % 2
    BY <1>2, <1>7
  <2>3. QED
    BY <2>1, <2>2, InFits, SizesAre DEF Devices
<1>8. CASE p \in 8..15
  <2>1. Configured(m, a) = In("divram", Start(p - 8))
    BY <1>1, <1>3, <1>8
  <2>2. Start(p - 8) \in Nat /\ Start(p - 8) < 2^17 /\ Start(p - 8) % 2 = a % 2
    BY <1>2, <1>8
  <2>3. QED
    BY <2>1, <2>2, InFits, SizesAre DEF Devices
<1>9. CASE p \in 16..127
  <2>1. Configured(m, a) = In("ram", Start(p - 16))
    BY <1>1, <1>3, <1>9
  <2>2. Start(p - 16) \in Nat /\ Start(p - 16) < 2^21 /\ Start(p - 16) % 2 = a % 2
    BY <1>2, <1>9
  <2>3. QED
    BY <2>1, <2>2, InFits, SizesAre DEF Devices
<1>10. CASE p > 127
  BY <1>1, <1>3, <1>10
<1>11. QED
  BY <1>1, <1>4, <1>5, <1>6, <1>7, <1>8, <1>9, <1>10 DEF Byte

LEMMA AlternateFits ==
  ASSUME NEW m \in NextMachine, NEW a \in Address, a < 16384
  PROVE  Fits(Alternate(m, a), a) /\ Alternate(m, a) # Nowhere
<1> DEFINE bank == IF Bit(m.nr[140], 5) THEN 1 ELSE IF Bit(m.nr[140], 4) THEN 0 ELSE m.rom_bank % 2
           at == bank * 16384 + a
<1>1. bank \in 0..1
  BY MachineFields
<1>2. Alternate(m, a) = In("alt", at)
  BY DEF Alternate
<1> HIDE DEF bank
<1>3. at \in Nat /\ at < 32768 /\ at % 2 = a % 2
  BY <1>1, LowAddress
<1> HIDE DEF at
<1>4. Fits(In("alt", at), a) /\ In("alt", at) # Nowhere
  BY <1>3, InFits, SizesAre DEF Devices, In, Nowhere
<1>5. QED
  BY <1>2, <1>4

LEMMA RomFits ==
  ASSUME NEW m \in NextMachine, NEW a \in Address, a < 16384
  PROVE  LET c == In("rom", m.rom_bank * 16384 + a) IN Fits(c, a) /\ c # Nowhere
<1> DEFINE bank == m.rom_bank
           at == bank * 16384 + a
<1>1. bank \in 0..3
  BY MachineFields
<1> HIDE DEF bank
<1>2. at \in Nat /\ at < 65536 /\ at % 2 = a % 2
  BY <1>1, LowAddress
<1> HIDE DEF at
<1>3. Fits(In("rom", at), a) /\ In("rom", at) # Nowhere
  BY <1>2, InFits, SizesAre DEF Devices, In, Nowhere
<1>4. QED
  BY <1>3 DEF at, bank

LEMMA LowFits ==
  ASSUME NEW m \in NextMachine, NEW a \in Address, a < 16384, NEW reading \in BOOLEAN
  PROVE  Fits(Low(m, a, reading), a)
<1>1. a \in Address /\ Fits(Nowhere, a)
  BY DEF Address, Fits
<1>2. /\ Fits(Divmmc(m, a, reading), a) /\ Fits(Configured(m, a), a)
      /\ Fits(Layer2(m, a), a) /\ Fits(Alternate(m, a), a) /\ Fits(Mapped(m, a), a)
      /\ Fits(In("rom", m.rom_bank * 16384 + a), a)
  BY <1>1, DivmmcFits, ConfiguredFits, Layer2Fits, AlternateFits, MappedFits, RomFits
<1>3. a < 8192 => Fits(In("loader", a), a)
  BY InFits, SizesAre DEF Devices, Address
<1>4. Fits(In("multiface", a), a)
  BY InFits, SizesAre DEF Devices, Address
<1>5. QED
  BY <1>1, <1>2, <1>3, <1>4 DEF Low

LEMMA CellFits ==
  ASSUME NEW m \in NextMachine, NEW a \in Address, NEW reading \in BOOLEAN
  PROVE  Fits(Cell(m, a, reading), a)
<1>1. CASE a < 16384
  <2>2. Cell(m, a, reading) = Low(m, a, reading)
    BY <1>1 DEF Cell
  <2>3. QED
    BY <1>1, <2>2, LowFits
<1>2. CASE ~(a < 16384)
  <2>1. Cell(m, a, reading) \in {Layer2(m, a), Mapped(m, a)}
    BY <1>2 DEF Cell, Address
  <2>2. QED
    BY <2>1, Layer2Fits, MappedFits
<1>3. QED
  BY <1>1, <1>2

-----------------------------------------------------------------------------
(* Types: what the operations make of a machine and of memory.              *)

LEMMA MmuType ==
  /\ ResetMmu \in [Slots -> Byte]
  /\ \A mmu \in [Slots -> Byte], bank \in Int : WithBank(mmu, bank) \in [Slots -> Byte]
  /\ \A v \in Byte : AllRam(v) \in [Slots -> Byte]
<1>1. ResetMmu \in [Slots -> Byte]
  <2>1. \A s \in Slots : <<Rom, Rom, 10, 11, 4, 5, 0, 1>>[s + 1] \in Byte
    BY DEF Slots, Rom, Byte
  <2>2. QED
    BY <2>1 DEF ResetMmu
<1>2. ASSUME NEW mmu \in [Slots -> Byte], NEW bank \in Int
      PROVE  WithBank(mmu, bank) \in [Slots -> Byte]
  <2>1. (bank * 2) % 256 \in Byte /\ (bank * 2 + 1) % 256 \in Byte
    BY DEF Byte
  <2>2. QED
    BY <2>1 DEF WithBank
<1>3. ASSUME NEW v \in Byte
      PROVE  AllRam(v) \in [Slots -> Byte]
  <2> DEFINE row == Bits(v, 1, 2)
             table == <<<<0, 1, 2, 3>>, <<4, 5, 6, 7>>, <<4, 5, 6, 3>>, <<4, 7, 6, 3>>>>
             Page(s) == table[row + 1][(s \div 2) + 1] * 2 + (s % 2)
  <2>1. row \in 0..3
    BY BitsRange
  <2> HIDE DEF row
  <2>2. ASSUME NEW s \in Slots PROVE Page(s) \in Byte
    <3>1. s \div 2 \in 0..3 /\ s % 2 \in 0..1
      BY DEF Slots
    <3>2. table[row + 1][(s \div 2) + 1] \in 0..7
      BY <2>1, <3>1
    <3> HIDE DEF table
    <3>3. QED
      BY <3>1, <3>2 DEF Byte
  <2> HIDE DEF table
  <2>3. AllRam(v) = [s \in Slots |-> Page(s)]
    BY DEF AllRam, row, table
  <2>4. QED
    BY <2>2, <2>3
<1>4. QED
  BY <1>1, <1>2, <1>3

LEMMA Zeros == 0 \in Byte /\ 0 \in 0..2 /\ 0 \in 0..3 /\ 0 \in 0..4 /\ 0 \in 0..15
BY DEF Byte

LEMMA NoNotes == <<>> \in Seq(Note)
OBVIOUS

\* Registers keep their width when two of them are written.
LEMMA RegistersType ==
  ASSUME NEW nr \in [NextRegs -> Byte], NEW r, NEW v \in Byte
  PROVE  [nr EXCEPT ![r] = v] \in [NextRegs -> Byte]
OBVIOUS

LEMMA PowerOnType == PowerOn \in NextMachine
<1> DEFINE nr == [[r \in NextRegs |-> 0] EXCEPT ![3] = 178, ![8] = 16, ![10] = 16, ![18] = 8,
                                               ![19] = 11, ![184] = 131, ![187] = 205]
<1>1. {0, 178, 16, 8, 11, 131, 205} \subseteq Byte
  BY DEF Byte
<1>2. nr \in [NextRegs -> Byte]
  <2> DEFINE zeros == [r \in NextRegs |-> 0]
             first == [zeros EXCEPT ![3] = 178, ![8] = 16, ![10] = 16, ![18] = 8]
  <2>1. zeros \in [NextRegs -> Byte]
    BY <1>1
  <2> HIDE DEF zeros
  <2>2. first \in [NextRegs -> Byte]
    BY <1>1, <2>1
  <2> HIDE DEF first
  <2>3. [first EXCEPT ![19] = 11, ![184] = 131, ![187] = 205] \in [NextRegs -> Byte]
    BY <1>1, <2>2
  <2>4. QED
    BY <2>3 DEF zeros, first
<1> HIDE DEF nr
<1>3. PowerOn =
        [mmu |-> ResetMmu, p7ffd |-> 0, p1ffd |-> 0, pdffd |-> 0, locked |-> FALSE, rom_bank |-> 0,
         config_mode |-> TRUE, config_page |-> 0, loader |-> TRUE, reset_type |-> 4,
         layer2 |-> 0, layer2_offset |-> 0, divmmc |-> 0, automap |-> FALSE, pending |-> FALSE,
         paged |-> FALSE, nmi_active |-> FALSE, invisible |-> TRUE, request |-> FALSE,
         ed |-> FALSE, stackless |-> FALSE, retn_reads |-> 0, writes |-> <<>>, nr |-> nr]
  BY DEF PowerOn, nr
<1>4. QED
  BY <1>1, <1>2, <1>3, MmuType, NoNotes DEF NextMachine

LEMMA MultifaceResetType ==
  ASSUME NEW m \in NextMachine
  PROVE  MultifaceReset(m) \in NextMachine
BY Zeros, NoNotes, Zenon DEF MultifaceReset, NextMachine

LEMMA SoftResetType ==
  ASSUME NEW m \in NextMachine, NEW v \in Byte
  PROVE  SoftReset(m, v) \in NextMachine
<1> DEFINE type == m.reset_type \div 2
           nr == [m.nr EXCEPT ![2] = Bits(v, 7, 1) * 128 + (type % 4), ![140] = (@ % 16) * 17]
           n == MultifaceReset(m)
           paged == [n EXCEPT !.reset_type = type, !.mmu = ResetMmu, !.p7ffd = 0, !.p1ffd = 0,
                              !.pdffd = 0, !.locked = FALSE]
<1>1. n \in NextMachine
  BY MultifaceResetType
<1>2. type \in 0..2 /\ type \in 0..4
  BY MachineFields
<1>3. Bits(v, 7, 1) * 128 + (type % 4) \in Byte
  BY <1>2, BitsRange DEF Byte
<1>4. m.nr \in [NextRegs -> Byte] /\ (m.nr[140] % 16) * 17 \in Byte
  <2>1. m.nr[140] \in Byte
    BY MachineFields DEF NextRegs
  <2>2. QED
    BY <2>1, MachineFields DEF Byte
<1>5. SoftReset(m, v) = [paged EXCEPT !.rom_bank = 0, !.automap = FALSE, !.pending = FALSE, !.nr = nr]
  BY Zenon DEF SoftReset, paged, nr, n, type
<1>6. nr \in [NextRegs -> Byte]
  BY <1>3, <1>4
<1> HIDE DEF n, type, nr
<1>7. paged \in NextMachine
  BY <1>1, <1>2, Zeros, MmuType, Zenon DEF NextMachine
<1> HIDE DEF paged
<1>8. [paged EXCEPT !.rom_bank = 0, !.automap = FALSE, !.pending = FALSE, !.nr = nr] \in NextMachine
  BY <1>6, <1>7, Zeros, Zenon DEF NextMachine
<1>9. QED
  BY <1>5, <1>8

LEMMA RequestNmiType ==
  ASSUME NEW m \in NextMachine, NEW v \in Byte
  PROVE  RequestNmi(m, v) \in NextMachine
<1> DEFINE asks == Bit(v, 3) /\ ~m.nmi_active
           flag == Bit(v, 3) /\ (asks \/ Bit(m.nr[2], 3))
           x == Bits(v, 7, 1) * 128 + (IF flag THEN 8 ELSE 0) + (m.reset_type % 4)
           n == [m EXCEPT !.nr[2] = x]
<1>1. x \in Byte
  <2>1. Bits(v, 7, 1) \in 0..1 /\ m.reset_type \in 0..4
    BY BitsRange, MachineFields
  <2> HIDE DEF flag
  <2>2. (IF flag THEN 8 ELSE 0) \in {0, 8}
    OBVIOUS
  <2>3. QED
    BY <2>1, <2>2 DEF Byte
<1>2. m.nr \in [NextRegs -> Byte]
  BY MachineFields
<1> HIDE DEF x
<1>3. [m.nr EXCEPT ![2] = x] \in [NextRegs -> Byte]
  BY <1>1, <1>2
<1>4. n \in NextMachine
  BY <1>3 DEF NextMachine
<1>5. RequestNmi(m, v) = IF asks THEN [n EXCEPT !.nmi_active = TRUE, !.invisible = FALSE,
                                                 !.request = TRUE, !.writes = <<>>]
                         ELSE n
  BY DEF RequestNmi, x
<1> HIDE DEF n, asks
<1>6. [n EXCEPT !.nmi_active = TRUE, !.invisible = FALSE, !.request = TRUE, !.writes = <<>>] \in NextMachine
  BY <1>4, NoNotes DEF NextMachine
<1>7. QED
  BY <1>4, <1>5, <1>6

LEMMA WriteTypeType ==
  ASSUME NEW m \in NextMachine, NEW v \in Byte
  PROVE  WriteType(m, v) \in NextMachine
<1> DEFINE x == IF v % 8 = 0 THEN v + (m.nr[3] % 8) ELSE v
<1>1. m.nr \in [NextRegs -> Byte] /\ m.config_mode \in BOOLEAN
  BY MachineFields DEF NextMachine
<1>2. m.nr[3] \in Byte
  BY <1>1 DEF NextRegs
<1>3. x \in Byte
  BY <1>2 DEF Byte
<1> HIDE DEF x
<1>4. WriteType(m, v) = [m EXCEPT !.loader = FALSE, !.nr = [m.nr EXCEPT ![3] = x],
                                  !.config_mode = v % 8 = 7 \/ (v % 8 = 0 /\ m.config_mode)]
  BY DEF WriteType, x, NextMachine
<1>5. [m.nr EXCEPT ![3] = x] \in [NextRegs -> Byte]
  BY <1>1, <1>3
<1>6. (v % 8 = 7 \/ (v % 8 = 0 /\ m.config_mode)) \in BOOLEAN
  OBVIOUS
<1>7. QED
  BY <1>4, <1>5, <1>6, Zenon DEF NextMachine

LEMMA WriteMappingType ==
  ASSUME NEW m \in NextMachine, NEW v \in Byte
  PROVE  WriteMapping(m, v) \in NextMachine
<1> DEFINE p1ffd == WithBits(m.p1ffd, 0, 3, Bits(v, 1, 1) * 4 + Bits(v, 0, 1) * 2 + Bits(v, 2, 1))
           p7ffd == IF Bit(v, 2) THEN m.p7ffd ELSE WithBits(m.p7ffd, 4, 1, v)
           n == [m EXCEPT !.rom_bank = v % 4, !.p1ffd = p1ffd, !.p7ffd = p7ffd]
           bank == Bits(v, 4, 3) + Bits(v, 7, 1) * 8
           low == WithBits(p7ffd, 0, 3, bank)
<1>1. p1ffd \in Byte
  <2>1. Bits(v, 1, 1) * 4 + Bits(v, 0, 1) * 2 + Bits(v, 2, 1) \in 0..15
    BY BitsRange
  <2>2. QED
    BY <2>1, LowBitsSet, MachineFields
<1>2. p7ffd \in Byte
  BY RomBitSet, MachineFields
<1>3. bank \in 0..15
  BY BitsRange
<1> HIDE DEF p1ffd, p7ffd, bank
<1>4. low \in Byte
  BY <1>2, <1>3, LowBitsSet
<1> HIDE DEF low
<1>5. v % 4 \in 0..3 /\ Bits(v, 7, 1) \in 0..15
  BY BitsRange DEF Byte
<1>6. n \in NextMachine
  BY <1>1, <1>2, <1>5 DEF NextMachine
<1>7. WithBank(m.mmu, bank) \in [Slots -> Byte]
  <2>1. bank \in Int
    BY <1>3
  <2>2. QED
    BY <2>1, MmuType, MachineFields
<1>8. WriteMapping(m, v) =
        IF ~Bit(v, 3) THEN n
        ELSE [n EXCEPT !.p7ffd = low, !.pdffd = Bits(v, 7, 1), !.mmu = WithBank(m.mmu, bank)]
  BY DEF WriteMapping, p1ffd, p7ffd, bank, low, NextMachine
<1> HIDE DEF n
<1>9. [n EXCEPT !.p7ffd = low, !.pdffd = Bits(v, 7, 1), !.mmu = WithBank(m.mmu, bank)] \in NextMachine
  BY <1>4, <1>5, <1>6, <1>7 DEF NextMachine
<1>10. QED
  BY <1>6, <1>8, <1>9

LEMMA WriteRegisterType ==
  ASSUME NEW m \in NextMachine, NEW r, NEW v \in Byte
  PROVE  WriteRegister(m, r, v) \in NextMachine
<1> DEFINE nr == [x \in NextRegs |-> IF x = r THEN v ELSE m.nr[x]]
           n == [m EXCEPT !.nr = nr]
<1>1. nr \in [NextRegs -> Byte]
  BY MachineFields
<1> HIDE DEF nr
<1>2. n \in NextMachine /\ n.p7ffd \in Byte /\ n.nr \in [NextRegs -> Byte]
  <2>1. n \in NextMachine
    BY <1>1, Zenon DEF NextMachine
  <2>2. QED
    BY <2>1, MachineFields
<1>3. WriteRegister(m, r, v) =
        IF r = 2
        THEN IF Bit(v, 1) THEN PowerOn ELSE IF Bit(v, 0) THEN SoftReset(m, v) ELSE RequestNmi(m, v)
        ELSE IF r = 3 THEN WriteType(m, v)
        ELSE IF r = 4 /\ m.config_mode THEN [n EXCEPT !.config_page = v]
        ELSE IF r = 8 /\ Bit(v, 7)
        THEN [n EXCEPT !.nr[8] = v % 128, !.locked = FALSE, !.p7ffd = WithBits(@, 5, 1, 0)]
        ELSE IF r \in 80..87 THEN [m EXCEPT !.mmu[r - 80] = v]
        ELSE IF r = 105 THEN [n EXCEPT !.p7ffd = WithBits(@, 3, 1, Bits(v, 6, 1))]
        ELSE IF r = 142 THEN WriteMapping(n, v)
        ELSE n
  BY DEF WriteRegister, nr
<1> HIDE DEF n
<1>4. [n EXCEPT !.config_page = v] \in NextMachine
  BY <1>2, Zenon DEF NextMachine
<1>5. [n EXCEPT !.nr[8] = v % 128, !.locked = FALSE, !.p7ffd = WithBits(@, 5, 1, 0)] \in NextMachine
  <2>1. v % 128 \in Byte /\ WithBits(n.p7ffd, 5, 1, 0) \in Byte
    BY <1>2, LockBitCleared DEF Byte
  <2>2. [n.nr EXCEPT ![8] = v % 128] \in [NextRegs -> Byte]
    BY <1>2, <2>1, RegistersType
  <2> DEFINE u == [n EXCEPT !.nr[8] = v % 128]
             p7ffd == WithBits(n.p7ffd, 5, 1, 0)
  <2>3. u \in NextMachine /\ u.p7ffd = n.p7ffd
    BY <1>2, <2>2, Zenon DEF NextMachine
  <2>4. p7ffd \in Byte
    BY <2>1
  <2> HIDE DEF u, p7ffd
  <2>5. [u EXCEPT !.locked = FALSE, !.p7ffd = p7ffd] \in NextMachine
    BY <2>3, <2>4, Zenon DEF NextMachine
  <2>6. QED
    BY <2>5 DEF u, p7ffd
<1>6. [m EXCEPT !.mmu[r - 80] = v] \in NextMachine
  <2>1. [m.mmu EXCEPT ![r - 80] = v] \in [Slots -> Byte]
    BY MachineFields
  <2>2. QED
    BY <2>1, Zenon DEF NextMachine
<1>7. [n EXCEPT !.p7ffd = WithBits(@, 3, 1, Bits(v, 6, 1))] \in NextMachine
  <2>1. WithBits(n.p7ffd, 3, 1, Bits(v, 6, 1)) \in Byte
    BY <1>2, BitsRange, ScreenBitSet
  <2>2. QED
    BY <1>2, <2>1, Zenon DEF NextMachine
<1>8. WriteMapping(n, v) \in NextMachine
  BY <1>2, WriteMappingType
<1>9. QED
  BY <1>2, <1>3, <1>4, <1>5, <1>6, <1>7, <1>8,
     PowerOnType, SoftResetType, RequestNmiType, WriteTypeType

LEMMA LegacyPortType ==
  ASSUME NEW m \in NextMachine, NEW v \in Byte
  PROVE  /\ Write7ffd(m, v) \in NextMachine /\ Write1ffd(m, v) \in NextMachine
         /\ WriteDffd(m, v) \in NextMachine
<1>1. /\ m.mmu \in [Slots -> Byte] /\ m.p7ffd \in Byte /\ m.p1ffd \in Byte /\ m.pdffd \in Byte
      /\ v % 16 \in 0..15
  <2>1. m.pdffd \in 0..15
    BY MachineFields
  <2>2. m.pdffd \in Byte /\ v % 16 \in 0..15
    BY <2>1 DEF Byte
  <2>3. QED
    BY <2>2, MachineFields
<1>2. \A d \in Byte, q \in Byte, mmu \in [Slots -> Byte] : WithBank(mmu, Bank(d, q)) \in [Slots -> Byte]
  <2>1. SUFFICES ASSUME NEW d \in Byte, NEW q \in Byte, NEW mmu \in [Slots -> Byte]
                 PROVE  WithBank(mmu, Bank(d, q)) \in [Slots -> Byte]
    OBVIOUS
  <2>2. Bank(d, q) \in Int
    BY BankRange
  <2>3. QED
    BY <2>2, MmuType
<1>3. Write7ffd(m, v) \in NextMachine
  <2> DEFINE mmu == IF Bit(m.p1ffd, 0) THEN m.mmu ELSE WithBank(m.mmu, Bank(m.pdffd, v))
  <2>1. mmu \in [Slots -> Byte] /\ RomBank(m.p1ffd, v) \in 0..3 /\ Bit(v, 5) \in BOOLEAN
    BY <1>1, <1>2, RomBankRange, BitIsBoolean
  <2>2. Write7ffd(m, v) = IF m.locked THEN m
                          ELSE [m EXCEPT !.p7ffd = v, !.rom_bank = RomBank(m.p1ffd, v),
                                         !.locked = Bit(v, 5), !.mmu = mmu]
    BY DEF Write7ffd
  <2> HIDE DEF mmu
  <2>3. [m EXCEPT !.p7ffd = v, !.rom_bank = RomBank(m.p1ffd, v),
                  !.locked = Bit(v, 5), !.mmu = mmu] \in NextMachine
    BY <2>1, Zenon DEF NextMachine
  <2>4. QED
    BY <2>2, <2>3
<1>4. Write1ffd(m, v) \in NextMachine
  <2> DEFINE mmu == IF Bit(v, 0) THEN AllRam(v)
                    ELSE IF Bit(m.p1ffd, 0) THEN WithBank(ResetMmu, Bank(m.pdffd, m.p7ffd)) ELSE m.mmu
  <2>1. mmu \in [Slots -> Byte] /\ RomBank(v, m.p7ffd) \in 0..3
    BY <1>1, <1>2, RomBankRange, MmuType
  <2>2. Write1ffd(m, v) = IF m.locked THEN m
                          ELSE [m EXCEPT !.p1ffd = v, !.rom_bank = RomBank(v, m.p7ffd), !.mmu = mmu]
    BY DEF Write1ffd
  <2> HIDE DEF mmu
  <2>3. [m EXCEPT !.p1ffd = v, !.rom_bank = RomBank(v, m.p7ffd), !.mmu = mmu] \in NextMachine
    BY <2>1, Zenon DEF NextMachine
  <2>4. QED
    BY <2>2, <2>3
<1>5. WriteDffd(m, v) \in NextMachine
  <2> DEFINE mmu == IF Bit(m.p1ffd, 0) THEN m.mmu ELSE WithBank(m.mmu, Bank(v, m.p7ffd))
  <2>1. mmu \in [Slots -> Byte]
    BY <1>1, <1>2
  <2>2. WriteDffd(m, v) = IF m.locked THEN m ELSE [m EXCEPT !.pdffd = v % 16, !.mmu = mmu]
    BY DEF WriteDffd
  <2> HIDE DEF mmu
  <2>3. [m EXCEPT !.pdffd = v % 16, !.mmu = mmu] \in NextMachine
    BY <1>1, <2>1, Zenon DEF NextMachine
  <2>4. QED
    BY <2>2, <2>3
<1>6. QED
  BY <1>3, <1>4, <1>5

LEMMA PortType ==
  ASSUME NEW m \in NextMachine, NEW port
  PROVE  /\ ReadPort(m, port) \in NextMachine
         /\ \A v \in Byte : WritePort(m, port, v) \in NextMachine
<1>1. ReadPort(m, port) \in NextMachine
  <2>1. [m EXCEPT !.paged = FALSE] \in NextMachine /\ [m EXCEPT !.paged = TRUE] \in NextMachine
    BY Zenon DEF NextMachine
  <2>2. QED
    BY <2>1, Zenon DEF ReadPort
<1>2. ASSUME NEW v \in Byte PROVE WritePort(m, port, v) \in NextMachine
  <2>1. v % 8 \in 0..7
    BY DEF Byte
  <2>2. /\ [m EXCEPT !.invisible = TRUE] \in NextMachine
        /\ [m EXCEPT !.divmmc = v] \in NextMachine
        /\ [m EXCEPT !.layer2_offset = v % 8] \in NextMachine
        /\ [m EXCEPT !.layer2 = v] \in NextMachine
    BY <2>1, Zenon DEF NextMachine
  <2>3. QED
    BY <2>2, LegacyPortType, Zenon DEF WritePort
<1>3. QED
  BY <1>1, <1>2

\* What ports and registers leave alone.
LEMMA ReadPortKeeps ==
  ASSUME NEW m \in NextMachine, NEW port
  PROVE  LET n == ReadPort(m, port)
         IN  /\ n.writes = m.writes /\ n.nr = m.nr /\ n.nmi_active = m.nmi_active /\ n.ed = m.ed
             /\ n.stackless = m.stackless /\ n.retn_reads = m.retn_reads
             /\ n.mmu = m.mmu /\ n.p7ffd = m.p7ffd /\ n.p1ffd = m.p1ffd /\ n.pdffd = m.pdffd
             /\ n.rom_bank = m.rom_bank /\ n.locked = m.locked
BY DEF ReadPort, NextMachine

LEMMA WritePortKeeps ==
  ASSUME NEW m \in NextMachine, NEW port, NEW v \in Byte
  PROVE  LET n == WritePort(m, port, v)
         IN  /\ n.writes = m.writes /\ n.nr = m.nr /\ n.nmi_active = m.nmi_active /\ n.ed = m.ed
             /\ n.stackless = m.stackless /\ n.retn_reads = m.retn_reads
<1> DEFINE Same(n) == /\ n.writes = m.writes /\ n.nr = m.nr /\ n.nmi_active = m.nmi_active /\ n.ed = m.ed
                      /\ n.stackless = m.stackless /\ n.retn_reads = m.retn_reads
<1>1. Same(Write7ffd(m, v)) /\ Same(Write1ffd(m, v)) /\ Same(WriteDffd(m, v)) /\ Same(m)
  BY DEF Write7ffd, Write1ffd, WriteDffd, NextMachine
<1>2. /\ Same([m EXCEPT !.invisible = TRUE]) /\ Same([m EXCEPT !.divmmc = v])
      /\ Same([m EXCEPT !.layer2_offset = v % 8]) /\ Same([m EXCEPT !.layer2 = v])
  BY DEF NextMachine
<1>3. WritePort(m, port, v) \in
        {Write7ffd(m, v), Write1ffd(m, v), WriteDffd(m, v), m, [m EXCEPT !.invisible = TRUE],
         [m EXCEPT !.divmmc = v], [m EXCEPT !.layer2_offset = v % 8], [m EXCEPT !.layer2 = v]}
  BY Zenon DEF WritePort
<1>4. Same(WritePort(m, port, v))
  <2> HIDE DEF Same
  <2>1. QED
    BY <1>1, <1>2, <1>3
<1>5. QED
  BY <1>4

\* A reset is one of the two.
LEMMA ResetBits ==
  ASSUME NEW v \in Byte
  PROVE  Resets(2, v) <=> Bit(v, 0) \/ Bit(v, 1)
BY DEF Resets, Bit, Bits, Byte

LEMMA ResetIs ==
  ASSUME NEW m \in NextMachine, NEW r, NEW v \in Byte, Resets(r, v)
  PROVE  WriteRegister(m, r, v) \in {PowerOn, SoftReset(m, v)}
<1>1. r = 2
  BY DEF Resets
<1>2. Bit(v, 0) \/ Bit(v, 1)
  BY <1>1, ResetBits
<1>3. QED
  BY <1>1, <1>2 DEF WriteRegister

LEMMA ResetNotes ==
  ASSUME NEW m \in NextMachine, NEW v
  PROVE  PowerOn.writes = <<>> /\ SoftReset(m, v).writes = <<>>
<1>1. PowerOn.writes = <<>>
  BY DEF PowerOn
<1>2. MultifaceReset(m).writes = <<>> /\ MultifaceReset(m) \in NextMachine
  <2>1. MultifaceReset(m).writes = <<>>
    BY DEF MultifaceReset, NextMachine
  <2>2. QED
    BY <2>1, MultifaceResetType
<1>3. SoftReset(m, v).writes = <<>>
  <2> DEFINE n == MultifaceReset(m)
  <2>1. n.writes = <<>> /\ n \in NextMachine
    BY <1>2
  <2> HIDE DEF n
  <2>2. \A t, s : [n EXCEPT
         !.reset_type = t, !.mmu = ResetMmu, !.p7ffd = 0, !.p1ffd = 0, !.pdffd = 0,
         !.locked = FALSE, !.rom_bank = 0, !.automap = FALSE, !.pending = FALSE, !.nr = s].writes = <<>>
    BY <2>1 DEF NextMachine
  <2>3. QED
    BY <2>2 DEF SoftReset, n
<1>4. QED
  BY <1>1, <1>3

\* Any other write to a register.
LEMMA RegisterKeeps ==
  ASSUME NEW m \in NextMachine, NEW r, NEW v \in Byte, ~Resets(r, v)
  PROVE  LET n == WriteRegister(m, r, v)
         IN  /\ n.ed = m.ed /\ n.stackless = m.stackless /\ n.retn_reads = m.retn_reads
             /\ n.paged = m.paged /\ (m.nmi_active => n.nmi_active /\ n.writes = m.writes)
             /\ n.writes \in {m.writes, <<>>}
             /\ \A x \in {194, 195} : x # r => n.nr[x] = m.nr[x]
<1> DEFINE Same(n) == /\ n.ed = m.ed /\ n.stackless = m.stackless /\ n.retn_reads = m.retn_reads
                      /\ n.paged = m.paged /\ (m.nmi_active => n.nmi_active /\ n.writes = m.writes)
                      /\ n.writes \in {m.writes, <<>>}
                      /\ \A x \in {194, 195} : x # r => n.nr[x] = m.nr[x]
           nr == [x \in NextRegs |-> IF x = r THEN v ELSE m.nr[x]]
           n == [m EXCEPT !.nr = nr]
<1>1. nr \in [NextRegs -> Byte] /\ \A x \in {194, 195} : x # r => nr[x] = m.nr[x]
  BY MachineFields DEF NextRegs
<1> HIDE DEF nr
<1>2. n \in NextMachine /\ Same(n)
  <2>0. nr \in [NextRegs -> Byte]
    BY <1>1
  <2>1. n \in NextMachine
    BY <2>0, Zenon DEF NextMachine
  <2>2. Same(n)
    BY <1>1 DEF NextMachine
  <2>3. QED
    BY <2>1, <2>2
<1>3. WriteRegister(m, r, v) =
        IF r = 2
        THEN IF Bit(v, 1) THEN PowerOn ELSE IF Bit(v, 0) THEN SoftReset(m, v) ELSE RequestNmi(m, v)
        ELSE IF r = 3 THEN WriteType(m, v)
        ELSE IF r = 4 /\ m.config_mode THEN [n EXCEPT !.config_page = v]
        ELSE IF r = 8 /\ Bit(v, 7)
        THEN [n EXCEPT !.nr[8] = v % 128, !.locked = FALSE, !.p7ffd = WithBits(@, 5, 1, 0)]
        ELSE IF r \in 80..87 THEN [m EXCEPT !.mmu[r - 80] = v]
        ELSE IF r = 105 THEN [n EXCEPT !.p7ffd = WithBits(@, 3, 1, Bits(v, 6, 1))]
        ELSE IF r = 142 THEN WriteMapping(n, v)
        ELSE n
  BY DEF WriteRegister, nr
<1> HIDE DEF n
<1>4. Same([n EXCEPT !.config_page = v]) /\ Same([n EXCEPT !.p7ffd = WithBits(@, 3, 1, Bits(v, 6, 1))])
  BY <1>2 DEF NextMachine
<1>5. Same([n EXCEPT !.nr[8] = v % 128, !.locked = FALSE, !.p7ffd = WithBits(@, 5, 1, 0)])
  BY <1>2 DEF NextMachine
<1>6. Same([m EXCEPT !.mmu[r - 80] = v])
  BY DEF NextMachine
<1>7. Same(WriteMapping(n, v))
  BY <1>2 DEF WriteMapping, NextMachine
<1>8. Same(WriteType(m, v))
  BY DEF WriteType, NextMachine
<1>9. Same(RequestNmi(m, v))
  BY DEF RequestNmi, NextMachine
<1>10. r = 2 => ~Bit(v, 0) /\ ~Bit(v, 1)
  BY ResetBits
<1>11. Same(WriteRegister(m, r, v))
  <2> HIDE DEF Same
  <2>1. QED
    BY <1>2, <1>3, <1>4, <1>5, <1>6, <1>7, <1>8, <1>9, <1>10
<1>12. QED
  BY <1>11

IsMemory(mem) == mem \in [DOMAIN mem -> Byte \ {0}]

LEMMA HeldType ==
  ASSUME NEW mem, IsMemory(mem), NEW c
  PROVE  Held(mem, c) \in Byte
<1>1. 255 \in Byte /\ 0 \in Byte
  BY DEF Byte
<1>2. QED
  BY <1>1, Zenon DEF IsMemory, Held

LEMMA ReadType ==
  ASSUME NEW mem, IsMemory(mem), NEW m, NEW a
  PROVE  Read(m, mem, a) \in Byte
BY HeldType DEF Read

LEMMA PutType ==
  ASSUME NEW mem, IsMemory(mem), NEW c, NEW v \in Byte
  PROVE  IsMemory(Put(mem, c, v))
<1>1. CASE c = Nowhere
  BY <1>1 DEF Put
<1>2. CASE c # Nowhere
  <2> DEFINE D == (DOMAIN mem \cup {c}) \ (IF v = 0 THEN {c} ELSE {})
  <2>1. Put(mem, c, v) = [x \in D |-> IF x = c THEN v ELSE mem[x]]
    BY <1>2 DEF Put
  <2>2. ASSUME NEW x \in D PROVE (IF x = c THEN v ELSE mem[x]) \in Byte \ {0}
    BY Zenon DEF IsMemory
  <2> HIDE DEF D
  <2>3. QED
    BY <2>1, <2>2 DEF IsMemory
<1>3. QED
  BY <1>1, <1>2

LEMMA WriteMemoryType ==
  ASSUME NEW mem, IsMemory(mem), NEW m, NEW a, NEW v \in Byte
  PROVE  IsMemory(Write(m, mem, a, v))
BY PutType DEF Write

LEMMA WithoutType ==
  ASSUME NEW mem, IsMemory(mem), NEW pages
  PROVE  IsMemory(Without(mem, pages))
<1> DEFINE D == {x \in DOMAIN mem : ~(x.device = "ram" /\ x.at \div 8192 \in pages)}
<1>1. D \subseteq DOMAIN mem /\ Without(mem, pages) = [c \in D |-> mem[c]]
  BY DEF Without
<1> HIDE DEF D
<1>2. QED
  BY <1>1 DEF IsMemory

\* What the fetches and the writes of tick_inline make of the machine.
LEMMA AutomapType ==
  ASSUME NEW m \in NextMachine, NEW a
  PROVE  Automap(m, a) \in NextMachine
<1> DEFINE automap == m.automap \/ m.pending \/ Instant(m, a)
           pending == ~Instant(m, a) /\ (EntryPoint(m, a) \/ TapeTrap(m, a))
<1>1. automap \in BOOLEAN /\ pending \in BOOLEAN
  BY Zenon
<1>2. Automap(m, a) = IF ~Watches(m) THEN m ELSE [m EXCEPT !.automap = automap, !.pending = pending]
  BY DEF Automap
<1> HIDE DEF automap, pending
<1>3. [m EXCEPT !.automap = automap, !.pending = pending] \in NextMachine
  BY <1>1, Zenon DEF NextMachine
<1>4. QED
  BY <1>2, <1>3

LEMMA AcknowledgedType ==
  ASSUME NEW m \in NextMachine, NEW mem, IsMemory(mem), NEW sp
  PROVE  Acknowledged(m, mem, sp) \in NextMachine
<1> DEFINE low == Read(m, mem, sp)
           high == Read(m, mem, Up(sp, 1))
           nr == [m.nr EXCEPT ![194] = low, ![195] = high]
           stackless == m.stackless \/ Bit(m.nr[192], 3)
<1>1. low \in Byte /\ high \in Byte /\ stackless \in BOOLEAN
  BY ReadType
<1>2. Acknowledged(m, mem, sp) =
        [m EXCEPT !.nr = nr, !.stackless = stackless, !.writes = <<>>, !.paged = TRUE]
  BY DEF Acknowledged
<1> HIDE DEF low, high, stackless
<1>3. nr \in [NextRegs -> Byte]
  BY <1>1, MachineFields
<1> HIDE DEF nr
<1>4. [m EXCEPT !.nr = nr, !.stackless = stackless, !.writes = <<>>, !.paged = TRUE] \in NextMachine
  BY <1>1, <1>3, NoNotes, Zenon DEF NextMachine
<1>5. QED
  BY <1>2, <1>4

LEMMA OpcodeType ==
  ASSUME NEW m \in NextMachine, NEW opcode
  PROVE  Opcode(m, opcode) \in NextMachine
<1> DEFINE retn == m.ed /\ opcode = "retn"
           stackless == retn /\ m.stackless
           leaves == retn /\ m.nmi_active
           ed == ~m.ed /\ opcode = "ed"
           on == m.stackless /\ ~stackless
           reads == IF stackless THEN 2 ELSE m.retn_reads
           active == m.nmi_active /\ ~leaves
           paged == m.paged /\ ~leaves
<1>1. ed \in BOOLEAN /\ on \in BOOLEAN /\ active \in BOOLEAN /\ paged \in BOOLEAN
  BY Zenon
<1>2. reads \in 0..2
  BY MachineFields
<1>3. Opcode(m, opcode) = [m EXCEPT !.ed = ed, !.stackless = on, !.retn_reads = reads,
                                    !.nmi_active = active, !.paged = paged]
  BY DEF Opcode
<1> HIDE DEF ed, on, reads, active, paged
<1> DEFINE n == [m EXCEPT !.ed = ed, !.stackless = on, !.retn_reads = reads]
<1>4. n \in NextMachine
  BY <1>1, <1>2, Zenon DEF NextMachine
<1>5. Opcode(m, opcode) = [n EXCEPT !.nmi_active = active, !.paged = paged]
  BY <1>3
<1> HIDE DEF n
<1>6. [n EXCEPT !.nmi_active = active, !.paged = paged] \in NextMachine
  BY <1>1, <1>4, Zenon DEF NextMachine
<1>7. QED
  BY <1>5, <1>6

LEMMA ExitsType ==
  ASSUME NEW m \in NextMachine, NEW a
  PROVE  Exits(m, a) \in NextMachine
<1>1. [m EXCEPT !.automap = FALSE, !.pending = FALSE] \in NextMachine
  BY Zenon DEF NextMachine
<1>2. QED
  BY <1>1 DEF Exits

\* The last two of a list of writes and one more.
LEMMA LastTwo ==
  ASSUME NEW s \in Seq(Note), Len(s) <= 2, NEW e \in Note
  PROVE  LET list == Append(s, e)
             t == SubSeq(list, IF Len(list) > 2 THEN 2 ELSE 1, Len(list))
         IN  /\ t \in Seq(Note) /\ Len(t) \in 1..2 /\ t[Len(t)] = e
             /\ Len(s) > 0 => Len(t) = 2 /\ t[1] = s[Len(s)]
<1> DEFINE list == Append(s, e)
           first == IF Len(list) > 2 THEN 2 ELSE 1
           t == SubSeq(list, first, Len(list))
<1>1. /\ list \in Seq(Note) /\ Len(list) = Len(s) + 1 /\ list[Len(s) + 1] = e
      /\ \A i \in 1..Len(s) : list[i] = s[i]
      /\ Len(s) \in 0..2
  <2> DEFINE n == Len(s)
  <2>1. n \in Nat /\ n <= 2
    BY LenProperties
  <2> HIDE DEF n
  <2>2. n \in 0..2
    BY <2>1
  <2>3. QED
    BY <2>2, AppendProperties DEF n
<1> HIDE DEF list
<1>2. first \in 1..2 /\ first <= Len(list) /\ (Len(list) = 3 <=> first = 2)
  BY <1>1
<1> HIDE DEF first
<1>3. /\ t \in Seq(Note) /\ Len(t) = Len(list) - first + 1
      /\ \A i \in 1..Len(t) : t[i] = list[first + i - 1]
  BY <1>1, <1>2
<1> HIDE DEF t
<1>4. Len(t) \in 1..2 /\ t[Len(t)] = list[Len(list)]
  BY <1>1, <1>2, <1>3
<1>5. Len(s) > 0 => Len(t) = 2 /\ t[1] = list[first] /\ first = Len(s)
  BY <1>1, <1>2, <1>3
<1>6. /\ t \in Seq(Note) /\ Len(t) \in 1..2 /\ t[Len(t)] = e
      /\ Len(s) > 0 => Len(t) = 2 /\ t[1] = s[Len(s)]
  <2>1. t[Len(t)] = e
    BY <1>1, <1>4
  <2>2. Len(s) > 0 => first \in 1..Len(s) /\ list[first] = s[first]
    BY <1>1, <1>2, <1>5
  <2>3. Len(s) > 0 => Len(t) = 2 /\ t[1] = s[Len(s)]
    BY <1>5, <2>2
  <2>4. QED
    BY <1>3, <1>4, <2>1, <2>3
<1>7. QED
  BY <1>6, Zenon DEF t, first, list

\* At most the last two writes are noted, each with what it overwrote.
LEMMA NotedIs ==
  ASSUME NEW m \in NextMachine, Len(m.writes) <= 2, NEW a \in Address, IsMemory(memory)
  PROVE  LET n == Noted(m, a)
             old == Read(m, memory, a)
         IN  /\ n \in NextMachine /\ Len(n.writes) <= 2
             /\ n = [m EXCEPT !.writes = n.writes]
             /\ m.nmi_active /\ ~m.paged =>
                  /\ Len(n.writes) \in 1..2
                  /\ n.writes[Len(n.writes)] = [address |-> a, old |-> old]
                  /\ Len(m.writes) > 0 => Len(n.writes) = 2 /\ n.writes[1] = m.writes[Len(m.writes)]
<1> DEFINE n == Noted(m, a)
           e == [address |-> a, old |-> Read(m, memory, a)]
           list == Append(m.writes, e)
           t == SubSeq(list, IF Len(list) > 2 THEN 2 ELSE 1, Len(list))
<1>1. m.writes \in Seq(Note)
  BY MachineFields
<1>2. e \in Note
  BY ReadType DEF Note
<1>3. /\ t \in Seq(Note) /\ Len(t) \in 1..2 /\ t[Len(t)] = e
      /\ Len(m.writes) > 0 => Len(t) = 2 /\ t[1] = m.writes[Len(m.writes)]
  <2> HIDE DEF e
  <2>1. QED
    BY <1>1, <1>2, LastTwo
<1>4. n = IF ~(m.nmi_active /\ ~m.paged) THEN m ELSE [m EXCEPT !.writes = t]
  BY DEF Noted
<1> HIDE DEF t
<1>5. CASE ~(m.nmi_active /\ ~m.paged)
  <2>1. n = m
    BY <1>4, <1>5
  <2>2. m = [m EXCEPT !.writes = m.writes]
    BY Zenon DEF NextMachine
  <2> HIDE DEF n
  <2>3. QED
    BY <1>5, <2>1, <2>2, Zenon DEF n
<1>6. CASE m.nmi_active /\ ~m.paged
  <2>1. n = [m EXCEPT !.writes = t]
    BY <1>4, <1>6
  <2>2. [m EXCEPT !.writes = t] \in NextMachine /\ [m EXCEPT !.writes = t].writes = t
    BY <1>3, Zenon DEF NextMachine
  <2> HIDE DEF n
  <2>3. n \in NextMachine /\ n.writes = t /\ n = [m EXCEPT !.writes = n.writes] /\ Len(n.writes) <= 2
    BY <1>3, <2>1, <2>2
  <2>4. QED
    BY <1>3, <2>3 DEF n, e
<1>7. QED
  BY <1>5, <1>6

-----------------------------------------------------------------------------
(* Every latch keeps its width, whatever the program does.                  *)

\* What the uses allow.
LEMMA InputsType ==
  ASSUME use \in Uses
  PROVE  /\ \A w \in use.outs : w[2] \in Byte
         /\ \A w \in use.registers : w[1] \in Byte /\ w[2] \in Byte
         /\ \A b \in use.bytes : b[1] \in Address /\ b[2] \in Byte
         /\ use.fetches \subseteq Address /\ use.stacks \subseteq Address
         /\ use.probes \subseteq Address
         /\ \A f \in use.files : f.value \in Byte
BY UsesAssumption

Cpus == [phase: Phases, sp: Address, nmi: BOOLEAN]

LEMMA GotoType ==
  ASSUME cpu \in Cpus, NEW phase \in Phases, Goto(phase)
  PROVE  cpu' \in Cpus
BY Zenon DEF Cpus, Goto

LEMMA RestartedType ==
  ASSUME NEW sp \in Address
  PROVE  Restarted(sp) \in Cpus
BY DEF Restarted, Cpus, Phases

\* What the parts of a fetch leave alone.
LEMMA AutomapKeeps ==
  ASSUME NEW m \in NextMachine, NEW a
  PROVE  LET n == Automap(m, a)
         IN  /\ n.writes = m.writes /\ n.nr = m.nr /\ n.nmi_active = m.nmi_active
             /\ n.paged = m.paged /\ n.ed = m.ed /\ n.stackless = m.stackless
             /\ n.retn_reads = m.retn_reads /\ n.request = m.request
             /\ n.mmu = m.mmu /\ n.p7ffd = m.p7ffd /\ n.p1ffd = m.p1ffd /\ n.pdffd = m.pdffd
             /\ n.rom_bank = m.rom_bank /\ n.locked = m.locked
BY DEF Automap, NextMachine

LEMMA AcknowledgedKeeps ==
  ASSUME NEW m \in NextMachine, NEW mem, NEW sp
  PROVE  LET n == Acknowledged(m, mem, sp)
         IN  /\ n.writes = <<>> /\ n.nmi_active = m.nmi_active /\ n.ed = m.ed
             /\ n.stackless = (m.stackless \/ Bit(m.nr[192], 3))
             /\ n.retn_reads = m.retn_reads /\ n.request = m.request
             /\ n.mmu = m.mmu /\ n.p7ffd = m.p7ffd /\ n.p1ffd = m.p1ffd /\ n.pdffd = m.pdffd
             /\ n.rom_bank = m.rom_bank /\ n.locked = m.locked
BY DEF Acknowledged, NextMachine

LEMMA AcknowledgedRegisters ==
  ASSUME NEW m \in NextMachine, NEW mem, NEW sp
  PROVE  /\ Acknowledged(m, mem, sp).nr[194] = Read(m, mem, sp)
         /\ Acknowledged(m, mem, sp).nr[195] = Read(m, mem, Up(sp, 1))
BY MachineFields DEF Acknowledged, NextRegs, NextMachine

LEMMA OpcodeKeeps ==
  ASSUME NEW m \in NextMachine, NEW opcode
  PROVE  LET n == Opcode(m, opcode)
         IN  /\ n.writes = m.writes /\ n.nr = m.nr /\ n.request = m.request
             /\ n.ed = (~m.ed /\ opcode = "ed")
             /\ ~(m.ed /\ opcode = "retn") =>
                  /\ n.nmi_active = m.nmi_active /\ n.paged = m.paged
                  /\ n.stackless = m.stackless /\ n.retn_reads = m.retn_reads
             /\ m.ed /\ opcode = "retn" /\ m.stackless => n.retn_reads = 2
             /\ n.mmu = m.mmu /\ n.p7ffd = m.p7ffd /\ n.p1ffd = m.p1ffd /\ n.pdffd = m.pdffd
             /\ n.rom_bank = m.rom_bank /\ n.locked = m.locked
BY DEF Opcode, NextMachine

LEMMA ExitsKeeps ==
  ASSUME NEW m \in NextMachine, NEW a
  PROVE  LET n == Exits(m, a)
         IN  /\ n.writes = m.writes /\ n.nr = m.nr /\ n.nmi_active = m.nmi_active
             /\ n.paged = m.paged /\ n.ed = m.ed /\ n.stackless = m.stackless
             /\ n.retn_reads = m.retn_reads /\ n.request = m.request
             /\ n.mmu = m.mmu /\ n.p7ffd = m.p7ffd /\ n.p1ffd = m.p1ffd /\ n.pdffd = m.pdffd
             /\ n.rom_bank = m.rom_bank /\ n.locked = m.locked
BY DEF Exits, NextMachine

LEMMA RestoredType ==
  ASSUME NEW m \in NextMachine, Len(m.writes) <= 2, NEW mem, IsMemory(mem), NEW sp
  PROVE  IsMemory(Restored(m, mem, sp))
<1>1. CASE ~Pushed(m, sp)
  BY <1>1 DEF Restored
<1>2. CASE Pushed(m, sp)
  <2>1. m.writes \in Seq(Note) /\ Len(m.writes) = 2
    BY <1>2, MachineFields DEF Pushed
  <2>2. m.writes[1] \in Note /\ m.writes[2] \in Note
    BY <2>1
  <2>3. m.writes[1].old \in Byte /\ m.writes[2].old \in Byte
    BY <2>2 DEF Note
  <2>4. IsMemory(Write(m, mem, sp, m.writes[2].old))
    BY <2>3, WriteMemoryType
  <2>5. IsMemory(Write(m, Write(m, mem, sp, m.writes[2].old), Up(sp, 1), m.writes[1].old))
    BY <2>3, <2>4, WriteMemoryType
  <2>6. QED
    BY <2>5 DEF Restored
<1>3. QED
  BY <1>1, <1>2

\* A fetch leaves a machine and memory.
LEMMA FetchType ==
  ASSUME TypeOK, NEW a, NEW opcode, Cycle(a, opcode)
  PROVE  machine' \in NextMachine /\ Len(machine'.writes) <= 2 /\ IsMemory(memory')
<1> DEFINE m == Automap(machine, a)
           enters == EntersMultiface(m, a)
           n == IF enters THEN Acknowledged(m, memory, cpu.sp) ELSE m
<1>1. machine \in NextMachine /\ Len(machine.writes) <= 2 /\ IsMemory(memory)
  BY DEF TypeOK, IsMemory
<1>2. m \in NextMachine /\ m.writes = machine.writes
  BY <1>1, AutomapType, AutomapKeeps
<1> HIDE DEF m
<1>3. /\ machine' = Exits(Opcode(n, opcode), a)
      /\ memory' = IF enters THEN Restored(m, memory, cpu.sp) ELSE memory
  BY DEF Cycle, m
<1>4. n \in NextMachine /\ Len(n.writes) <= 2
  <2>1. Acknowledged(m, memory, cpu.sp) \in NextMachine
    BY <1>1, <1>2, AcknowledgedType
  <2>2. Acknowledged(m, memory, cpu.sp).writes = <<>>
    BY <1>2, AcknowledgedKeeps
  <2>3. Len(<<>>) <= 2
    OBVIOUS
  <2>4. QED
    BY <1>1, <1>2, <2>1, <2>2, <2>3
<1> HIDE DEF n, enters
<1>5. Opcode(n, opcode) \in NextMachine /\ Opcode(n, opcode).writes = n.writes
  BY <1>4, OpcodeType, OpcodeKeeps
<1>6. machine' \in NextMachine /\ machine'.writes = n.writes
  BY <1>3, <1>5, ExitsType, ExitsKeeps
<1>7. IsMemory(Restored(m, memory, cpu.sp))
  BY <1>1, <1>2, RestoredType
<1>8. QED
  BY <1>1, <1>3, <1>4, <1>6, <1>7

\* The history that the properties need.
Marks == Places \cup {Nowhere}
IsNmi(n) ==
  /\ n = [pc |-> n.pc, memory |-> n.memory, cells |-> n.cells, active |-> n.active, kept |-> n.kept]
  /\ n.pc \in Address \cup {-1} /\ IsMemory(n.memory) /\ n.cells \in Seq(Marks)
  /\ n.active \in BOOLEAN /\ n.kept \in BOOLEAN
IsHistory(h) ==
  /\ h = [legacy |-> h.legacy, writes |-> h.writes, nmi |-> h.nmi]
  /\ h.legacy \in BOOLEAN /\ h.writes \in Nat /\ IsNmi(h.nmi)
Serving == {"high", "pushing", "handler"}
Types ==
  /\ TypeOK
  /\ IsHistory(history)
  /\ cpu.phase \in Serving => history.nmi.pc \in Address

LEMMA EmptyMemory == IsMemory(<<>>)
BY DEF IsMemory

LEMMA NoNmiType == IsNmi(NoNmi) /\ ~NoNmi.kept /\ NoNmi.cells = <<>>
BY EmptyMemory DEF IsNmi, NoNmi

LEMMA NmiChange ==
  ASSUME NEW h, IsHistory(h), NEW x, IsNmi(x)
  PROVE  LET g == [h EXCEPT !.nmi = x] IN IsHistory(g) /\ g.nmi = x /\ g.legacy = h.legacy
BY DEF IsHistory

LEMMA KeptChange ==
  ASSUME NEW h, IsHistory(h), NEW k \in BOOLEAN
  PROVE  LET g == [h EXCEPT !.nmi.kept = k]
         IN  IsHistory(g) /\ g.nmi = [h.nmi EXCEPT !.kept = k] /\ g.legacy = h.legacy
BY DEF IsHistory, IsNmi

LEMMA LegacyChange ==
  ASSUME NEW h, IsHistory(h), NEW l \in BOOLEAN
  PROVE  LET g == [h EXCEPT !.legacy = l] IN IsHistory(g) /\ g.nmi = h.nmi /\ g.legacy = l
BY DEF IsHistory

LEMMA WritesChange ==
  ASSUME NEW h, IsHistory(h)
  PROVE  LET g == [h EXCEPT !.writes = @ + 1]
         IN  IsHistory(g) /\ g.nmi = h.nmi /\ g.legacy = h.legacy
BY DEF IsHistory

LEMMA CellsChange ==
  ASSUME NEW h, IsHistory(h), NEW c \in Marks
  PROVE  LET g == [h EXCEPT !.nmi.cells = Append(@, c)]
         IN  IsHistory(g) /\ g.nmi = [h.nmi EXCEPT !.cells = Append(h.nmi.cells, c)] /\ g.legacy = h.legacy
<1> DEFINE s == Append(h.nmi.cells, c)
<1>1. h.nmi.cells \in Seq(Marks)
  BY DEF IsHistory, IsNmi
<1>2. s \in Seq(Marks)
  BY <1>1, AppendProperties
<1>3. [h EXCEPT !.nmi.cells = Append(@, c)] = [h EXCEPT !.nmi.cells = s]
  OBVIOUS
<1> HIDE DEF s
<1>4. LET g == [h EXCEPT !.nmi.cells = s]
      IN  IsHistory(g) /\ g.nmi = [h.nmi EXCEPT !.cells = s] /\ g.legacy = h.legacy
  BY <1>2 DEF IsHistory, IsNmi
<1>5. QED
  BY <1>3, <1>4 DEF s

LEMMA NmiFields ==
  ASSUME NEW n, IsNmi(n)
  PROVE  /\ \A k : LET o == [n EXCEPT !.kept = k]
                   IN  /\ o.pc = n.pc /\ o.memory = n.memory /\ o.cells = n.cells
                       /\ o.active = n.active /\ o.kept = k
         /\ \A s : LET o == [n EXCEPT !.cells = s]
                   IN  /\ o.pc = n.pc /\ o.memory = n.memory /\ o.cells = s
                       /\ o.active = n.active /\ o.kept = n.kept
BY DEF IsNmi

\* The history of an NMI that is accepted.
Accepted(pc, mem, active) == [NoNmi EXCEPT !.pc = pc, !.memory = mem, !.active = active]

LEMMA AcceptedChange ==
  ASSUME NEW pc \in Address, NEW mem, IsMemory(mem), NEW active \in BOOLEAN
  PROVE  LET n == Accepted(pc, mem, active)
         IN  /\ IsNmi(n) /\ n.pc = pc /\ n.memory = mem /\ n.active = active
             /\ n.cells = <<>> /\ ~n.kept
<1> DEFINE x == NoNmi
           first == [x EXCEPT !.pc = pc]
           second == [first EXCEPT !.memory = mem]
           n == [second EXCEPT !.active = active]
<1>1. IsNmi(x)
  BY NoNmiType
<1>2. x.cells = <<>> /\ ~x.kept
  BY NoNmiType
<1> HIDE DEF x
<1>3. IsNmi(first) /\ first.pc = pc /\ first.cells = x.cells /\ first.kept = x.kept
  BY <1>1 DEF IsNmi
<1> HIDE DEF first
<1>4. /\ IsNmi(second) /\ second.pc = pc /\ second.memory = mem
      /\ second.cells = x.cells /\ second.kept = x.kept
  BY <1>3 DEF IsNmi
<1> HIDE DEF second
<1>5. /\ IsNmi(n) /\ n.pc = pc /\ n.memory = mem /\ n.active = active
      /\ n.cells = x.cells /\ n.kept = x.kept
  BY <1>4 DEF IsNmi
<1>6. QED
  BY <1>2, <1>5, Zenon DEF first, second, x, Accepted

LEMMA LandedType ==
  ASSUME NEW m \in NextMachine, NEW a \in Address
  PROVE  Landed(m, a) \in Marks
<1>1. Fits(Cell(m, a, FALSE), a)
  BY CellFits
<1>2. Cell(m, a, FALSE) \in Marks
  BY <1>1 DEF Fits, Marks
<1>3. Nowhere \in Marks
  BY DEF Marks
<1>4. QED
  BY <1>2, <1>3 DEF Landed

\* The types that a step leaves, part by part.
TypesAfter ==
  /\ machine' \in NextMachine /\ Len(machine'.writes) <= 2 /\ IsMemory(memory')
  /\ cpu' \in Cpus /\ IsHistory(history')
  /\ cpu'.phase \in Serving => history'.nmi.pc \in Address

LEMMA TypesAre ==
  ASSUME Types
  PROVE  /\ use \in Uses /\ machine \in NextMachine /\ Len(machine.writes) <= 2
         /\ IsMemory(memory) /\ cpu \in Cpus /\ cpu.sp \in Address /\ cpu.phase \in Phases
         /\ cpu.nmi \in BOOLEAN /\ IsHistory(history) /\ IsNmi(history.nmi)
         /\ history.legacy \in BOOLEAN /\ TypeOK
         /\ cpu.phase \in Serving => history.nmi.pc \in Address
BY DEF Types, TypeOK, IsMemory, Cpus, IsHistory

LEMMA PhaseChange ==
  ASSUME NEW c \in Cpus, NEW x \in Phases
  PROVE  LET d == [c EXCEPT !.phase = x]
         IN  d \in Cpus /\ d.phase = x /\ d.sp = c.sp /\ d.nmi = c.nmi
BY Zenon DEF Cpus

LEMMA SpChange ==
  ASSUME NEW c \in Cpus, NEW s \in Address
  PROVE  LET d == [c EXCEPT !.sp = s] IN d \in Cpus /\ d.phase = c.phase /\ d.sp = s
BY Zenon DEF Cpus

Moved(c, x, s) == [c EXCEPT !.sp = s, !.phase = x]
LEMMA StackChange ==
  ASSUME NEW c \in Cpus, NEW x \in Phases, NEW s \in Address
  PROVE  LET d == Moved(c, x, s) IN d \in Cpus /\ d.phase = x /\ d.sp = s
<1> DEFINE e == [c EXCEPT !.sp = s]
<1>1. e \in Cpus /\ e.sp = s
  BY SpChange
<1> HIDE DEF e
<1>2. LET d == [e EXCEPT !.phase = x] IN d \in Cpus /\ d.phase = x /\ d.sp = s
  BY <1>1, PhaseChange
<1>3. QED
  BY <1>2, Zenon DEF e, Moved

LEMMA LatchChange ==
  ASSUME NEW c \in Cpus, NEW n \in BOOLEAN
  PROVE  LET d == [c EXCEPT !.nmi = n] IN d \in Cpus /\ d.phase = c.phase /\ d.sp = c.sp
BY Zenon DEF Cpus

LEMMA IdlePhases ==
  ASSUME cpu \in Cpus, NEW x \in {"ready", "held", "body", "ed", "low", "popping"},
         cpu' = [cpu EXCEPT !.phase = x]
  PROVE  cpu' \in Cpus /\ cpu'.phase = x /\ cpu'.phase \notin Serving /\ cpu'.sp = cpu.sp
<1>1. x \in Phases /\ x \notin Serving
  BY DEF Phases, Serving
<1>2. QED
  BY <1>1, PhaseChange

\* Steps of the CPU that change no more than a phase, a flag or SP.
LEMMA IdleTypes ==
  ASSUME Types, Latch \/ Finish \/ Hold \/ Release \/ \E sp \in use.stacks : LoadSp(sp)
  PROVE  TypesAfter
<1> USE TypesAre
<1>1. CASE Latch
  <2>1. machine' = [machine EXCEPT !.request = FALSE] /\ cpu' = [cpu EXCEPT !.nmi = @ \/ cpu.phase # "held"]
        /\ memory' = memory /\ history' = history
    BY <1>1 DEF Latch
  <2>2. machine' \in NextMachine /\ machine'.writes = machine.writes
    BY <2>1 DEF NextMachine
  <2>3. cpu' \in Cpus /\ cpu'.phase = cpu.phase
    <3> DEFINE nmi == cpu.nmi \/ cpu.phase # "held"
    <3>1. cpu' = [cpu EXCEPT !.nmi = nmi] /\ nmi \in BOOLEAN
      BY <2>1
    <3> HIDE DEF nmi
    <3>2. QED
      BY <3>1, LatchChange
  <2>4. QED
    BY <2>1, <2>2, <2>3 DEF TypesAfter
<1>2. CASE Finish \/ Hold \/ Release
  <2>1. /\ machine' = machine /\ memory' = memory /\ history' = history
        /\ \E x \in {"ready", "held", "body"} : cpu' = [cpu EXCEPT !.phase = x]
    BY <1>2 DEF Finish, Hold, Release, Goto
  <2>2. cpu' \in Cpus /\ cpu'.phase \notin Serving
    BY <2>1, IdlePhases
  <2>3. QED
    BY <2>1, <2>2 DEF TypesAfter
<1>3. ASSUME NEW sp \in use.stacks, LoadSp(sp)
      PROVE  TypesAfter
  <2>1. /\ machine' = machine /\ memory' = memory /\ history' = history
        /\ cpu' = [cpu EXCEPT !.sp = sp]
    BY <1>3 DEF LoadSp
  <2>2. sp \in Address
    BY InputsType
  <2>3. cpu' \in Cpus /\ cpu'.phase = cpu.phase
    BY <2>1, <2>2, SpChange
  <2>4. QED
    BY <2>1, <2>3 DEF TypesAfter
<1>4. QED
  BY <1>1, <1>2, <1>3

\* A fetch changes no more of the history than whether an NMI is kept.
KeptNow(m) ==
  /\ cpu.phase = "handler" /\ history.nmi.active /\ Bit(m.nr[192], 3)
  /\ Nowhere \notin {history.nmi.cells[1], history.nmi.cells[2]}
  /\ <<Landed(m, Up(cpu.sp, 1)), Landed(m, cpu.sp)>> = history.nmi.cells
LEMMA FetchHistory ==
  ASSUME Types, NEW a, NEW opcode, M1(a, opcode)
  PROVE  /\ IsHistory(history') /\ history'.legacy = history.legacy
         /\ ~EntersMultiface(Automap(machine, a), a) => history' = history
         /\ EntersMultiface(Automap(machine, a), a) =>
              history'.nmi = [history.nmi EXCEPT !.kept = KeptNow(Automap(machine, a))]
<1> DEFINE m == Automap(machine, a)
           enters == EntersMultiface(m, a)
           kept == KeptNow(m)
<1>1. history' = IF enters THEN [history EXCEPT !.nmi.kept = kept] ELSE history
  BY DEF M1, KeptNow
<1>2. kept \in BOOLEAN
  BY Zenon DEF KeptNow
<1> HIDE DEF kept, enters
<1>3. LET g == [history EXCEPT !.nmi.kept = kept]
      IN  IsHistory(g) /\ g.nmi = [history.nmi EXCEPT !.kept = kept] /\ g.legacy = history.legacy
  BY <1>2, TypesAre, KeptChange
<1>4. IsHistory(history)
  BY TypesAre
<1>5. QED
  BY <1>1, <1>3, <1>4 DEF kept, enters

\* Opcode fetches, that of an NMI's handler included.
LEMMA FetchTypes ==
  ASSUME Types, Handler \/ \E a \in use.fetches : Fetch(a) \/ FetchSecond(a)
  PROVE  TypesAfter
<1> USE TypesAre
<1>1. \E a, opcode, x : /\ M1(a, opcode) /\ Goto(x)
                        /\ x \in {"body", "ed", "low"}
  BY DEF Handler, Fetch, FetchSecond
<1>2. PICK a, opcode, x : M1(a, opcode) /\ Goto(x) /\ x \in {"body", "ed", "low"}
  BY <1>1
<1>3. machine' \in NextMachine /\ Len(machine'.writes) <= 2 /\ IsMemory(memory')
  BY <1>2, FetchType DEF M1
<1>4. cpu' \in Cpus /\ cpu'.phase \notin Serving
  BY <1>2, IdlePhases DEF Goto
<1>5. IsHistory(history')
  BY <1>2, FetchHistory
<1>6. QED
  BY <1>3, <1>4, <1>5 DEF TypesAfter

\* The Z80's acceptance of an NMI and the pushes that follow it.
LEMMA AcceptTypes ==
  ASSUME Types, NEW pc \in use.fetches, Accept(pc)
  PROVE  TypesAfter
<1> USE TypesAre
<1>1. \E opcode : Cycle(pc, opcode)
  BY DEF Accept
<1>2. machine' \in NextMachine /\ Len(machine'.writes) <= 2 /\ IsMemory(memory')
  BY <1>1, FetchType
<1>3. /\ cpu' = [cpu EXCEPT !.phase = "high", !.nmi = FALSE]
      /\ history' = [history EXCEPT !.nmi = [NoNmi EXCEPT !.pc = pc, !.memory = memory',
                                                         !.active = machine.nmi_active]]
  BY DEF Accept
<1>4. pc \in Address /\ machine.nmi_active \in BOOLEAN
  BY InputsType DEF NextMachine
<1> DEFINE n == Accepted(pc, memory', machine.nmi_active)
<1>5. IsNmi(n) /\ n.pc = pc
  BY <1>2, <1>4, AcceptedChange
<1> HIDE DEF n
<1>6. IsHistory(history') /\ history'.nmi.pc = pc
  <2>1. history' = [history EXCEPT !.nmi = n]
    BY <1>3 DEF n, Accepted
  <2>2. QED
    BY <1>5, <2>1, NmiChange
<1>7. cpu' \in Cpus
  <2> DEFINE d == [cpu EXCEPT !.phase = "high"]
  <2>1. d \in Cpus
    BY PhaseChange DEF Phases
  <2>2. cpu' = [d EXCEPT !.nmi = FALSE]
    BY <1>3
  <2> HIDE DEF d
  <2>3. QED
    BY <2>1, <2>2, LatchChange
<1>8. QED
  BY <1>2, <1>3, <1>4, <1>6, <1>7 DEF TypesAfter

LEMMA PushTypes ==
  ASSUME Types, Push
  PROVE  TypesAfter
<1> USE TypesAre
<1> DEFINE a == Up(cpu.sp, -1)
           v == IF cpu.phase = "high" THEN history.nmi.pc \div 256 ELSE history.nmi.pc % 256
           phase == IF cpu.phase = "high" THEN "pushing" ELSE "handler"
<1>1. /\ machine' = Noted(machine, a) /\ memory' = Write(machine, memory, a, v)
      /\ cpu' = [cpu EXCEPT !.sp = a, !.phase = phase]
      /\ history' = [history EXCEPT !.nmi.cells = Append(@, Landed(machine, a))]
      /\ cpu.phase \in Serving
  BY DEF Push, Stores, At, Serving
<1>2. a \in Address
  BY AddressUp
<1>3. v \in Byte
  <2>1. history.nmi.pc \in Address
    BY <1>1
  <2> DEFINE p == history.nmi.pc
  <2> HIDE DEF p
  <2>2. p \in Address
    BY <2>1 DEF p
  <2>3. p \div 256 \in Byte /\ p % 256 \in Byte
    BY <2>2 DEF Address, Byte
  <2>4. QED
    BY <2>3 DEF p
<1> HIDE DEF a, v
<1>4. machine' \in NextMachine /\ Len(machine'.writes) <= 2
  BY <1>1, <1>2, NotedIs
<1>5. IsMemory(memory')
  BY <1>1, <1>3, WriteMemoryType
<1>6. cpu' \in Cpus
  <2>1. phase \in Phases
    BY DEF Phases
  <2>2. cpu' = Moved(cpu, phase, a)
    BY <1>1 DEF Moved
  <2> HIDE DEF phase
  <2>3. QED
    BY <1>2, <2>1, <2>2, StackChange
<1>7. IsHistory(history') /\ history'.nmi.pc = history.nmi.pc
  <2>1. Landed(machine, a) \in Marks
    BY <1>2, LandedType
  <2>2. IsHistory(history') /\ history'.nmi = [history.nmi EXCEPT !.cells = Append(history.nmi.cells, Landed(machine, a))]
    BY <1>1, <2>1, CellsChange
  <2>3. QED
    BY <2>2, NmiFields
<1>8. QED
  BY <1>1, <1>4, <1>5, <1>6, <1>7 DEF TypesAfter

LEMMA PopTypes ==
  ASSUME Types, Pop
  PROVE  TypesAfter
<1> USE TypesAre
<1> DEFINE phase == IF cpu.phase = "low" THEN "popping" ELSE "ready"
<1>1. /\ machine' = [machine EXCEPT !.retn_reads = IF @ > 0 THEN @ - 1 ELSE 0]
      /\ cpu' = [cpu EXCEPT !.sp = Up(@, 1), !.phase = phase] /\ memory' = memory
      /\ history' = IF cpu.phase = "popping" THEN [history EXCEPT !.nmi = NoNmi] ELSE history
  BY DEF Pop
<1>2. machine' \in NextMachine /\ machine'.writes = machine.writes
  <2> DEFINE reads == IF machine.retn_reads > 0 THEN machine.retn_reads - 1 ELSE 0
  <2>1. reads \in 0..2
    <3> DEFINE n == machine.retn_reads
    <3>1. n \in 0..2
      BY MachineFields
    <3> HIDE DEF n
    <3>2. (IF n > 0 THEN n - 1 ELSE 0) \in 0..2
      BY <3>1
    <3>3. QED
      BY <3>2 DEF n
  <2>2. machine' = [machine EXCEPT !.retn_reads = reads]
    BY <1>1
  <2> HIDE DEF reads
  <2>3. QED
    BY <2>1, <2>2 DEF NextMachine
<1>3. cpu' \in Cpus /\ cpu'.phase \notin Serving
  <2> DEFINE sp == Up(cpu.sp, 1)
  <2>1. phase \in Phases /\ phase \notin Serving /\ sp \in Address /\ cpu \in Cpus
    BY AddressUp DEF Phases, Serving
  <2>2. cpu' = Moved(cpu, phase, sp)
    BY <1>1 DEF Moved
  <2> HIDE DEF phase, sp
  <2>3. cpu' \in Cpus /\ cpu'.phase = phase
    BY <2>1, <2>2, StackChange
  <2>4. QED
    BY <2>1, <2>3
<1>4. IsHistory(history')
  BY <1>1, NmiChange, NoNmiType
<1>5. QED
  BY <1>1, <1>2, <1>3, <1>4 DEF TypesAfter

\* The body of an instruction.
LEMMA BodyTypes ==
  ASSUME Types,
         \/ \E b \in use.bytes : WriteByte(b[1], b[2])
         \/ \E port \in use.ins : InPort(port)
         \/ \E w \in use.outs : OutPort(w[1], w[2])
  PROVE  TypesAfter
<1> USE TypesAre
<1>1. ASSUME NEW b \in use.bytes, WriteByte(b[1], b[2])
      PROVE  TypesAfter
  <2> DEFINE a == b[1]
             v == b[2]
  <2>1. a \in Address /\ v \in Byte
    BY InputsType
  <2>2. /\ machine' = Noted(machine, a) /\ memory' = Write(machine, memory, a, v)
        /\ history' = [history EXCEPT !.writes = @ + 1] /\ cpu' = cpu
    BY <1>1 DEF WriteByte, Stores
  <2> HIDE DEF a, v
  <2>3. machine' \in NextMachine /\ Len(machine'.writes) <= 2
    BY <2>1, <2>2, NotedIs
  <2>4. IsMemory(memory')
    BY <2>1, <2>2, WriteMemoryType
  <2>5. IsHistory(history') /\ history'.nmi = history.nmi
    BY <2>2, WritesChange
  <2>6. QED
    BY <2>2, <2>3, <2>4, <2>5 DEF TypesAfter
<1>2. ASSUME NEW port \in use.ins, InPort(port)
      PROVE  TypesAfter
  <2>1. machine' = ReadPort(machine, port) /\ UNCHANGED <<memory, cpu, history>>
    BY <1>2 DEF InPort
  <2>2. machine' \in NextMachine
    BY <2>1, PortType
  <2>3. machine'.writes = machine.writes
    BY <2>1, ReadPortKeeps
  <2>4. QED
    BY <2>1, <2>2, <2>3 DEF TypesAfter
<1>3. ASSUME NEW w \in use.outs, OutPort(w[1], w[2])
      PROVE  TypesAfter
  <2> DEFINE port == w[1]
             v == w[2]
  <2>1. v \in Byte
    BY InputsType
  <2>2. /\ machine' = WritePort(machine, port, v) /\ memory' = memory /\ cpu' = cpu
        /\ history' = [history EXCEPT !.legacy = Outed(machine, port, v)]
    BY <1>3 DEF OutPort
  <2> HIDE DEF port, v
  <2>3. machine' \in NextMachine
    BY <2>1, <2>2, PortType
  <2>4. machine'.writes = machine.writes
    BY <2>1, <2>2, WritePortKeeps
  <2>5. Outed(machine, port, v) \in BOOLEAN
    BY Zenon DEF Outed
  <2>6. IsHistory(history') /\ history'.nmi = history.nmi
    BY <2>2, <2>5, LegacyChange
  <2>7. QED
    BY <2>2, <2>3, <2>4, <2>6 DEF TypesAfter
<1>4. QED
  BY <1>1, <1>2, <1>3

\* A NEXTREG, an OUT or a MOVE that writes a register.
LEMMA RegisterTypes ==
  ASSUME Types, NEW w \in use.registers, Register(w[1], w[2])
  PROVE  TypesAfter
<1> USE TypesAre
<1> DEFINE r == w[1]
           v == w[2]
<1>1. r \in Byte /\ v \in Byte
  BY InputsType
<1>2. machine' = WriteRegister(machine, r, v) /\ memory' = memory /\ history' = Recorded(r, v)
  BY DEF Register
<1>3. cpu' = IF ~Resets(r, v) THEN cpu ELSE Restarted(IF Bit(v, 1) THEN 65535 ELSE cpu.sp)
  BY DEF Register
<1> HIDE DEF r, v
<1>4. machine' \in NextMachine
  BY <1>1, <1>2, WriteRegisterType
<1>5. Len(machine'.writes) <= 2
  <2>1. CASE Resets(r, v)
    BY <1>1, <1>2, <2>1, ResetIs, ResetNotes
  <2>2. CASE ~Resets(r, v)
    <3>1. machine'.writes \in {machine.writes, <<>>}
      BY <1>1, <1>2, <2>2, RegisterKeeps
    <3>2. QED
      BY <3>1
  <2>3. QED
    BY <2>1, <2>2
<1>6. 65535 \in Address
  BY DEF Address
<1>7. cpu' \in Cpus /\ (Resets(r, v) => cpu'.phase = "ready") /\ (~Resets(r, v) => cpu' = cpu)
  BY <1>3, <1>6, RestartedType DEF Restarted
<1> DEFINE legacy == Registered(r, v)
           kept == history.nmi.kept /\ r \notin {194, 195}
           nmi == IF Resets(r, v) THEN NoNmi ELSE [history.nmi EXCEPT !.kept = kept]
<1>8. legacy \in BOOLEAN /\ kept \in BOOLEAN
  BY Zenon DEF Registered, Resets
<1>9. IsNmi(nmi) /\ (~Resets(r, v) => nmi.pc = history.nmi.pc)
  BY <1>8, NoNmiType DEF IsNmi
<1>10. history' = [history EXCEPT !.legacy = legacy, !.nmi = nmi]
  BY <1>2, Zenon DEF Recorded
<1> HIDE DEF legacy, nmi
<1>11. IsHistory(history') /\ history'.nmi = nmi
  <2> DEFINE h == [history EXCEPT !.legacy = legacy]
  <2>1. IsHistory(h)
    BY <1>8, LegacyChange
  <2>2. history' = [h EXCEPT !.nmi = nmi]
    BY <1>10
  <2> HIDE DEF h
  <2>3. QED
    BY <1>9, <2>1, <2>2, NmiChange
<1>12. cpu'.phase \in Serving => history'.nmi.pc \in Address
  BY <1>7, <1>9, <1>11 DEF Serving
<1>13. QED
  BY <1>2, <1>4, <1>5, <1>7, <1>11, <1>12 DEF TypesAfter

\* The loads of the front end.
LEMMA SnxType ==
  ASSUME NEW m \in NextMachine, NEW v \in Byte, NEW flag
  PROVE  Snx(m, v, flag) \in NextMachine /\ Snx(m, v, flag).writes = m.writes
<1> DEFINE bank == IF flag THEN v % 8 ELSE 0
           p7ffd == IF flag THEN v ELSE 16
           mmu == WithBank(ResetMmu, bank)
           rom == RomBank(4, p7ffd)
           paged == [m EXCEPT !.mmu = mmu, !.p7ffd = p7ffd, !.p1ffd = 4, !.pdffd = 0,
                              !.locked = FALSE, !.rom_bank = rom]
           n == [paged EXCEPT !.loader = FALSE, !.config_mode = FALSE, !.automap = FALSE,
                              !.pending = FALSE]
<1>1. bank \in Int /\ p7ffd \in Byte /\ 4 \in Byte
  BY DEF Byte
<1>2. mmu \in [Slots -> Byte]
  BY <1>1, MmuType
<1>3. rom \in 0..3
  BY <1>1, RomBankRange
<1>4. Snx(m, v, flag) = n
  BY Zenon DEF Snx
<1> HIDE DEF bank, p7ffd, mmu, rom
<1>5. paged \in NextMachine
  BY <1>1, <1>2, <1>3, Zeros, Zenon DEF NextMachine
<1>6. paged.writes = m.writes
  BY DEF NextMachine
<1> HIDE DEF paged
<1>7. n \in NextMachine
  BY <1>5, Zenon DEF NextMachine
<1>8. n.writes = m.writes
  BY <1>5, <1>6 DEF NextMachine
<1>9. QED
  BY <1>4, <1>7, <1>8

LEMMA NexFreshType == NexFresh \in NextMachine /\ Len(NexFresh.writes) <= 2
<1> DEFINE nr == [PowerOn.nr EXCEPT ![10] = 0]
           fresh == [PowerOn EXCEPT !.p1ffd = 4, !.rom_bank = 2, !.config_mode = FALSE, !.nr = nr]
<1>1. PowerOn \in NextMachine /\ PowerOn.nr \in [NextRegs -> Byte]
  BY PowerOnType, MachineFields
<1>2. nr \in [NextRegs -> Byte]
  BY <1>1, RegistersType, Zeros
<1>3. NexFresh = fresh
  BY Zenon DEF NexFresh
<1> HIDE DEF nr
<1>4. 4 \in Byte /\ 2 \in 0..3
  BY DEF Byte
<1>5. fresh \in NextMachine
  BY <1>1, <1>2, <1>4, Zenon DEF NextMachine
<1>6. PowerOn.writes = <<>>
  BY DEF PowerOn
<1>7. fresh.writes = <<>>
  BY <1>1, <1>6 DEF NextMachine
<1>8. Len(<<>>) <= 2
  OBVIOUS
<1>9. QED
  BY <1>3, <1>5, <1>7, <1>8

LEMMA NexType ==
  ASSUME NEW m \in NextMachine, NEW bank \in Byte
  PROVE  Nex(m, bank) \in NextMachine /\ Nex(m, bank).writes = m.writes
<1> DEFINE mmu == WithBank(m.mmu, bank)
           n == [m EXCEPT !.loader = FALSE, !.mmu = mmu]
<1>1. mmu \in [Slots -> Byte]
  <2>1. m.mmu \in [Slots -> Byte]
    BY MachineFields
  <2>2. bank \in Int
    BY DEF Byte
  <2>3. QED
    BY <2>1, <2>2, MmuType
<1>2. Nex(m, bank) = n
  BY Zenon DEF Nex
<1> HIDE DEF mmu
<1>3. n \in NextMachine
  BY <1>1, Zenon DEF NextMachine
<1>4. n.writes = m.writes
  BY DEF NextMachine
<1>5. QED
  BY <1>2, <1>3, <1>4

LEMMA LoadIs ==
  ASSUME NEW v, NEW flag, NEW sp, LoadSnx(v, flag, sp) \/ LoadNex(flag, v, sp)
  PROVE  /\ machine' \in {Snx(machine, v, flag), Nex(machine, v), Nex(NexFresh, v)}
         /\ \E pages : memory' = Without(memory, pages)
         /\ cpu' \in {Restarted(sp), Restarted(Up(sp, 2))}
         /\ \/ history' = Loaded(TRUE) /\ machine' = Snx(machine, v, flag)
            \/ history' = Loaded(FALSE)
         /\ use' = use
<1>1. CASE LoadSnx(v, flag, sp)
  <2> DEFINE pages == IF flag THEN 0..15 ELSE {0, 1, 4, 5, 10, 11}
  <2> HIDE DEF pages
  <2>1. memory' = Without(memory, pages)
    BY <1>1 DEF LoadSnx, pages
  <2>2. /\ machine' = Snx(machine, v, flag) /\ history' = Loaded(TRUE)
        /\ cpu' = Restarted(IF flag THEN sp ELSE Up(sp, 2)) /\ use' = use
    BY <1>1 DEF LoadSnx
  <2>3. QED
    BY <2>1, <2>2
<1>2. CASE LoadNex(flag, v, sp)
  <2> DEFINE pages == {v * 2, v * 2 + 1}
  <2>1. /\ machine' = Nex(IF flag THEN machine ELSE NexFresh, v) /\ history' = Loaded(FALSE)
        /\ cpu' = Restarted(sp) /\ memory' = Without(memory, pages) /\ use' = use
    BY <1>2 DEF LoadNex
  <2> HIDE DEF pages
  <2>2. QED
    BY <2>1
<1>3. QED
  BY <1>1, <1>2

LEMMA LoadTypes ==
  ASSUME Types, Loads
  PROVE  TypesAfter
<1> USE TypesAre
<1>1. PICK f \in use.files, sp \in use.stacks :
        \/ f.kind = "snx" /\ LoadSnx(f.value, f.flag, sp)
        \/ f.kind = "nex" /\ LoadNex(f.flag, f.value, sp)
  BY DEF Loads
<1> DEFINE v == f.value
           flag == f.flag
<1>2. v \in Byte /\ sp \in Address
  BY InputsType
<1>3. Up(sp, 2) \in Address
  BY <1>2, AddressUp
<1>4. LoadSnx(v, flag, sp) \/ LoadNex(flag, v, sp)
  BY <1>1
<1> HIDE DEF v, flag
<1>5. machine' \in NextMachine /\ Len(machine'.writes) <= 2
  <2>1. machine' \in {Snx(machine, v, flag), Nex(machine, v), Nex(NexFresh, v)}
    BY <1>4, LoadIs
  <2>2. QED
    BY <1>2, <2>1, SnxType, NexType, NexFreshType
<1>6. IsMemory(memory')
  <2>1. \E pages : memory' = Without(memory, pages)
    BY <1>4, LoadIs
  <2>2. QED
    BY <2>1, WithoutType
<1>7. cpu' \in Cpus /\ cpu'.phase \notin Serving
  <2>1. cpu' \in {Restarted(sp), Restarted(Up(sp, 2))}
    BY <1>4, LoadIs
  <2>2. QED
    BY <1>2, <1>3, <2>1, RestartedType DEF Restarted, Serving
<1>8. IsHistory(history')
  <2>1. PICK l \in BOOLEAN : history' = Loaded(l)
    BY <1>4, LoadIs
  <2> DEFINE h == [history EXCEPT !.legacy = l]
  <2>2. IsHistory(h)
    BY LegacyChange
  <2>3. history' = [h EXCEPT !.nmi = NoNmi]
    BY <2>1, Zenon DEF Loaded
  <2> HIDE DEF h
  <2>4. QED
    BY <2>2, <2>3, NmiChange, NoNmiType
<1>9. QED
  BY <1>5, <1>6, <1>7, <1>8 DEF TypesAfter

LEMMA TypesStart ==
  ASSUME Init
  PROVE  Types
<1>1. use \in Uses /\ machine = PowerOn /\ memory = <<>> /\ cpu = Restarted(65535)
      /\ history = [legacy |-> TRUE, writes |-> 0, nmi |-> NoNmi]
  BY DEF Init
<1>2. machine \in NextMachine /\ Len(machine.writes) <= 2
  BY <1>1, PowerOnType DEF PowerOn
<1>3. IsMemory(memory)
  BY <1>1, EmptyMemory
<1>4. 65535 \in Address
  BY DEF Address
<1>5. cpu \in Cpus /\ cpu.phase \notin Serving
  BY <1>1, <1>4, RestartedType DEF Restarted, Serving
<1>6. IsHistory(history)
  BY <1>1, NoNmiType DEF IsHistory
<1>7. QED
  BY <1>1, <1>2, <1>3, <1>5, <1>6 DEF Types, TypeOK, IsMemory, Cpus

LEMMA TypesStep ==
  ASSUME Types, [Next]_vars
  PROVE  Types'
<1>1. ASSUME UNCHANGED vars
      PROVE  Types'
  BY <1>1 DEF vars, Types, TypeOK, IsHistory, IsNmi, IsMemory, Serving
<1>2. ASSUME Next
      PROVE  Types'
  <2>1. use' = use
    <3>1. CASE Cpu
      BY <3>1, Zenon DEF Cpu, Latch, Push, Handler, Pop, Finish, Hold, Release, Fetch, FetchSecond,
           Accept, WriteByte, LoadSp, InPort, OutPort
    <3>2. CASE Loads
      <4>1. PICK f \in use.files, sp \in use.stacks :
               LoadSnx(f.value, f.flag, sp) \/ LoadNex(f.flag, f.value, sp)
        BY <3>2 DEF Loads
      <4>2. QED
        BY <4>1, LoadIs
    <3>3. CASE \E w \in use.registers : Register(w[1], w[2])
      BY <3>3 DEF Register
    <3>4. QED
      BY <1>2, <3>1, <3>2, <3>3 DEF Next
  <2>2. TypesAfter
    <3>1. CASE Cpu
      BY <3>1, IdleTypes, PushTypes, FetchTypes, PopTypes, AcceptTypes, BodyTypes DEF Cpu
    <3>2. CASE Loads
      BY <3>2, LoadTypes
    <3>3. CASE \E w \in use.registers : Register(w[1], w[2])
      BY <3>3, RegisterTypes
    <3>4. QED
      BY <1>2, <3>1, <3>2, <3>3 DEF Next
  <2>3. QED
    BY <2>1, <2>2, TypesAre DEF TypesAfter, Types, TypeOK, IsMemory, Cpus, IsHistory, IsNmi, Serving
<1>3. QED
  BY <1>1, <1>2

LEMMA TypesHold == Spec => []Types
<1>1. Init => Types
  BY TypesStart
<1>2. Types /\ [Next]_vars => Types'
  BY TypesStep
<1>3. QED
  BY <1>1, <1>2, PTL DEF Spec

\* Every latch keeps the width of the code's, whatever a program, its Copper
\* and its files write to the ports and registers of the memory map.
THEOREM TypeCorrect == Spec => []TypeOK
<1>1. Types => TypeOK
  BY DEF Types
<1>2. QED
  BY <1>1, TypesHold, PTL

-----------------------------------------------------------------------------
(* Accesses.                                                               *)

LEMMA InsideIs ==
  ASSUME NEW c, NEW a, Fits(c, a)
  PROVE  Inside(c)
<1>1. SUFFICES ASSUME c # Nowhere
               PROVE  c.at \in 0..(Sizes[c.device] - 1)
  BY DEF Inside
<1> DEFINE size == Sizes[c.device]
           at == c.at
<1>2. c \in Places /\ at < size
  BY <1>1 DEF Fits
<1>3. size \in Int
  BY <1>2, SizesAre DEF Places, Devices
<1>4. at \in Nat
  BY <1>2 DEF Places
<1> HIDE DEF size, at
<1>5. at \in 0..(size - 1)
  BY <1>2, <1>3, <1>4
<1>6. QED
  BY <1>5 DEF size, at

\* Devices by what maps them.
LEMMA DevicesAre ==
  ASSUME NEW m \in NextMachine, NEW a \in Address, NEW writing, ~writing
  PROVE  /\ ~ReadOnly(Nowhere) /\ ~ReadOnly(Mapped(m, a)) /\ ~ReadOnly(Alternate(m, a))
         /\ Layer2(m, a) # Nowhere => ~ReadOnly(Layer2(m, a))
         /\ a >= 8192 => ~ReadOnly(In("multiface", a))
         /\ ~ReadOnly(Divmmc(m, a, writing))
<1>1. Mapped(m, a).device = "ram" /\ Alternate(m, a).device = "alt" /\ Nowhere.device = "none"
  BY DEF Mapped, Alternate, In, Nowhere
<1>2. Layer2(m, a) # Nowhere => Layer2(m, a).device = "ram"
  BY Layer2Fits
<1>3. a >= 8192 => ~ReadOnly(In("multiface", a))
  BY DEF ReadOnly, In, Address
<1>4. Divmmc(m, a, writing).device \in {"divram", "none"}
  BY DEF Divmmc, In, Nowhere
<1>5. QED
  BY <1>1, <1>2, <1>3, <1>4 DEF ReadOnly

\* A write changes a ROM only in config mode.
LEMMA WritableIs ==
  ASSUME NEW m \in NextMachine, NEW a \in Address, NEW writing, ~writing,
         ReadOnly(Cell(m, a, writing))
  PROVE  m.config_mode /\ ~m.paged /\ ~DivmmcOn(m)
<1> USE DevicesAre
<1>1. Layer2Maps(m, a, writing) => Layer2(m, a) # Nowhere
  BY DEF Layer2Maps
<1>2. ReadOnly(Low(m, a, writing))
  BY <1>1 DEF Cell
<1>3. QED
  BY <1>1, <1>2 DEF Low

\* A byte is read back from where it was written.
LEMMA ReadBackIs ==
  ASSUME NEW m \in NextMachine, NEW a \in Address, NEW writing, ~writing,
         NEW reading \in BOOLEAN, reading <=> ~writing,
         Cell(m, a, writing) # Nowhere, ~m.loader, ~(m.config_mode /\ m.config_page > 127),
         Layer2Maps(m, a, reading) <=> Layer2Maps(m, a, writing),
         ~AlternateOn(m, reading), ~AlternateOn(m, writing), ~DivmmcOn(m)
  PROVE  Cell(m, a, reading) = Cell(m, a, writing)
<1>1. CASE a < 16384
  <2>1. m.config_mode => m.config_page < 128
    BY MachineFields DEF Byte
  <2>2. Low(m, a, writing) # Nowhere
    BY <1>1 DEF Cell
  <2>3. Low(m, a, reading) = Low(m, a, writing)
    BY <2>1, <2>2 DEF Low
  <2>4. QED
    BY <1>1, <2>3 DEF Cell
<1>2. CASE ~(a < 16384)
  BY <1>2 DEF Cell
<1>3. QED
  BY <1>1, <1>2

\* Whatever a program maps over what, at every address it can use: an access
\* lands inside the device that answers, a write changes a ROM only in config
\* mode, and a byte is read back where reads and writes are mapped alike.
THEOREM AccessesLandRight == Spec => []AccessesLand
<1>1. Types => AccessesLand
  <2>1. SUFFICES ASSUME Types, NEW a \in use.probes
                 PROVE  LET r == Cell(machine, a, TRUE)
                            w == Cell(machine, a, FALSE)
                            apart == \/ machine.loader
                                     \/ machine.config_mode /\ machine.config_page > 127
                                     \/ Layer2Maps(machine, a, TRUE) # Layer2Maps(machine, a, FALSE)
                                     \/ AlternateOn(machine, TRUE) \/ AlternateOn(machine, FALSE)
                                     \/ DivmmcOn(machine)
                        IN  /\ Inside(r) /\ Inside(w)
                            /\ ReadOnly(w) => machine.config_mode /\ ~machine.paged /\ ~DivmmcOn(machine)
                            /\ w # Nowhere /\ ~apart => r = w
    BY Zenon DEF AccessesLand
  <2>2. machine \in NextMachine /\ use \in Uses
    BY <2>1, TypesAre
  <2>3. a \in Address
    BY <2>1, <2>2, InputsType
  <2>4. Inside(Cell(machine, a, TRUE)) /\ Inside(Cell(machine, a, FALSE))
    <3>1. Fits(Cell(machine, a, TRUE), a) /\ Fits(Cell(machine, a, FALSE), a)
      BY <2>2, <2>3, CellFits
    <3>2. QED
      BY <3>1, InsideIs
  <2>5. ReadOnly(Cell(machine, a, FALSE)) => machine.config_mode /\ ~machine.paged /\ ~DivmmcOn(machine)
    BY <2>2, <2>3, WritableIs
  <2>6. QED
    BY <2>2, <2>3, <2>4, <2>5, ReadBackIs
<1>2. QED
  BY <1>1, TypesHold, PTL

-----------------------------------------------------------------------------
(* What the legacy latches stand for.                                      *)

Latched(m, legacy) ==
  /\ legacy => m.mmu = Legacy(m)
  /\ ~Bit(m.p1ffd, 0) => m.rom_bank = RomBank(m.p1ffd, m.p7ffd)
  /\ m.locked => Bit(m.p7ffd, 5)

LEMMA BankAgain ==
  /\ WithBank(ResetMmu, 0) = ResetMmu
  /\ \A mmu \in [Slots -> Byte] : \A x, y : WithBank(WithBank(mmu, x), y) = WithBank(mmu, y)
<1>1. WithBank(ResetMmu, 0) = ResetMmu
  BY DEF WithBank, ResetMmu, Slots
<1>2. ASSUME NEW mmu \in [Slots -> Byte], NEW x, NEW y
      PROVE  WithBank(WithBank(mmu, x), y) = WithBank(mmu, y)
  <2> DEFINE x6 == (x * 2) % 256
             x7 == (x * 2 + 1) % 256
             y6 == (y * 2) % 256
             y7 == (y * 2 + 1) % 256
  <2> HIDE DEF x6, x7, y6, y7
  <2>1. [[mmu EXCEPT ![6] = x6, ![7] = x7] EXCEPT ![6] = y6, ![7] = y7] = [mmu EXCEPT ![6] = y6, ![7] = y7]
    OBVIOUS
  <2>2. QED
    BY <2>1 DEF WithBank, x6, x7, y6, y7
<1>3. QED
  BY <1>1, <1>2

LEMMA LatchedSame ==
  ASSUME NEW m, NEW n, NEW legacy \in BOOLEAN, Latched(m, legacy), n.mmu = m.mmu, n.p7ffd = m.p7ffd,
         n.p1ffd = m.p1ffd, n.pdffd = m.pdffd, n.rom_bank = m.rom_bank, n.locked = m.locked
  PROVE  Latched(n, legacy)
BY DEF Latched, Legacy

\* A machine whose slots come from its bank, outside all-RAM paging.
LEMMA LatchedBank ==
  ASSUME NEW n, NEW legacy \in BOOLEAN, ~Bit(n.p1ffd, 0), n.mmu = WithBank(ResetMmu, Bank(n.pdffd, n.p7ffd)),
         n.rom_bank = RomBank(n.p1ffd, n.p7ffd), n.locked => Bit(n.p7ffd, 5)
  PROVE  Latched(n, legacy)
BY DEF Latched, Legacy

LEMMA LatchedZero ==
  ASSUME NEW n, NEW legacy \in BOOLEAN, n.p1ffd = 0, n.p7ffd = 0, n.pdffd = 0, n.rom_bank = 0, ~n.locked,
         n.mmu = ResetMmu
  PROVE  Latched(n, legacy)
<1>1. ~Bit(0, 0) /\ Bank(0, 0) = 0 /\ RomBank(0, 0) = 0
  BY DEF Bit, Bits, Bank, RomBank
<1>2. n.mmu = WithBank(ResetMmu, Bank(n.pdffd, n.p7ffd))
  BY <1>1, BankAgain
<1>3. QED
  BY <1>1, <1>2, LatchedBank

LEMMA LatchedReset ==
  ASSUME NEW m \in NextMachine, NEW v, NEW legacy \in BOOLEAN
  PROVE  Latched(PowerOn, legacy) /\ Latched(SoftReset(m, v), legacy)
<1>1. Latched(PowerOn, legacy)
  BY LatchedZero DEF PowerOn
<1>2. MultifaceReset(m) \in NextMachine
  BY MultifaceResetType
<1>3. LET n == SoftReset(m, v)
      IN  /\ n.p1ffd = 0 /\ n.p7ffd = 0 /\ n.pdffd = 0 /\ n.rom_bank = 0 /\ ~n.locked
          /\ n.mmu = ResetMmu
  BY <1>2 DEF SoftReset, NextMachine
<1>4. QED
  BY <1>1, <1>3, LatchedZero

LEMMA LatchedPorts ==
  ASSUME NEW m \in NextMachine, NEW v \in Byte, NEW l \in BOOLEAN, Latched(m, l),
         NEW k \in BOOLEAN, k => l \/ (~m.locked /\ (Bit(v, 0) \/ Bit(m.p1ffd, 0)))
  PROVE  /\ Latched(Write7ffd(m, v), l) /\ Latched(WriteDffd(m, v), l)
         /\ Latched(Write1ffd(m, v), k)
<1>1. CASE m.locked
  <2>1. Write7ffd(m, v) = m /\ WriteDffd(m, v) = m /\ Write1ffd(m, v) = m
    BY <1>1 DEF Write7ffd, WriteDffd, Write1ffd
  <2>2. k => l
    BY <1>1
  <2>3. Latched(m, k)
    BY <2>2 DEF Latched
  <2>4. QED
    BY <2>1, <2>3
<1>2. CASE ~m.locked
  <2> DEFINE all == Bit(m.p1ffd, 0)
             was == WithBank(ResetMmu, Bank(m.pdffd, m.p7ffd))
             bank == Bank(m.pdffd, v)
             other == Bank(v, m.p7ffd)
  <2>1. ResetMmu \in [Slots -> Byte]
    BY MmuType
  <2>2. /\ l /\ all => m.mmu = AllRam(m.p1ffd)
        /\ l /\ ~all => m.mmu = was
        /\ ~all => m.rom_bank = RomBank(m.p1ffd, m.p7ffd)
    BY DEF Latched, Legacy
  <2>3. l /\ ~all => /\ WithBank(m.mmu, bank) = WithBank(ResetMmu, bank)
                     /\ WithBank(m.mmu, other) = WithBank(ResetMmu, other)
    <3> HIDE DEF all, bank, other
    <3>1. l /\ ~all => m.mmu = was
      BY <2>2
    <3>2. WithBank(was, bank) = WithBank(ResetMmu, bank) /\ WithBank(was, other) = WithBank(ResetMmu, other)
      BY <2>1, BankAgain
    <3>3. QED
      BY <3>1, <3>2
  <2>4. Latched(Write7ffd(m, v), l)
    <3> DEFINE n == Write7ffd(m, v)
    <3>1. /\ n.p7ffd = v /\ n.p1ffd = m.p1ffd /\ n.pdffd = m.pdffd
          /\ n.rom_bank = RomBank(m.p1ffd, v) /\ n.locked = Bit(v, 5)
      BY <1>2 DEF Write7ffd, NextMachine
    <3>2. n.mmu = IF all THEN m.mmu ELSE WithBank(m.mmu, bank)
      BY <1>2 DEF Write7ffd, NextMachine
    <3>3. bank = Bank(n.pdffd, n.p7ffd)
      BY <3>1
    <3> HIDE DEF n, bank
    <3>4. l => n.mmu = Legacy(n)
      BY <2>2, <2>3, <3>1, <3>2, <3>3 DEF Legacy
    <3>5. n.rom_bank = RomBank(n.p1ffd, n.p7ffd) /\ (n.locked => Bit(n.p7ffd, 5))
      BY <3>1
    <3>6. QED
      BY <3>4, <3>5 DEF Latched, n
  <2>5. Latched(WriteDffd(m, v), l)
    <3> DEFINE n == WriteDffd(m, v)
    <3>1. /\ n.p7ffd = m.p7ffd /\ n.p1ffd = m.p1ffd /\ n.pdffd = v % 16
          /\ n.rom_bank = m.rom_bank /\ n.locked = m.locked
      BY <1>2 DEF WriteDffd, NextMachine
    <3>2. n.mmu = IF all THEN m.mmu ELSE WithBank(m.mmu, other)
      BY <1>2 DEF WriteDffd, NextMachine
    <3>3. Bank(n.pdffd, n.p7ffd) = other
      BY <3>1, MachineFields, BankRange
    <3> HIDE DEF n, other
    <3>4. l => n.mmu = Legacy(n)
      BY <2>2, <2>3, <3>1, <3>2, <3>3 DEF Legacy
    <3>5. /\ ~Bit(n.p1ffd, 0) => n.rom_bank = RomBank(n.p1ffd, n.p7ffd)
          /\ ~n.locked
      BY <1>2, <2>2, <3>1
    <3>6. QED
      BY <3>4, <3>5 DEF Latched, n
  <2>6. Latched(Write1ffd(m, v), k)
    <3> DEFINE n == Write1ffd(m, v)
    <3>1. /\ n.p7ffd = m.p7ffd /\ n.p1ffd = v /\ n.pdffd = m.pdffd
          /\ n.rom_bank = RomBank(v, m.p7ffd) /\ n.locked = m.locked
      BY <1>2 DEF Write1ffd, NextMachine
    <3>2. n.mmu = IF Bit(v, 0) THEN AllRam(v) ELSE IF all THEN was ELSE m.mmu
      BY <1>2 DEF Write1ffd, NextMachine
    <3>3. was = WithBank(ResetMmu, Bank(n.pdffd, n.p7ffd))
      BY <3>1
    <3> HIDE DEF n, was
    <3>4. k => n.mmu = Legacy(n)
      BY <1>2, <2>2, <3>1, <3>2, <3>3 DEF Legacy
    <3>5. n.rom_bank = RomBank(n.p1ffd, n.p7ffd) /\ ~n.locked
      BY <1>2, <3>1
    <3>6. QED
      BY <3>4, <3>5 DEF Latched, n
  <2>7. QED
    BY <2>4, <2>5, <2>6
<1>3. QED
  BY <1>1, <1>2

LEMMA LatchedFlags ==
  ASSUME NEW m \in NextMachine, NEW n, NEW l \in BOOLEAN, Latched(m, l), n.mmu = m.mmu,
         n.p1ffd = m.p1ffd, n.pdffd = m.pdffd, n.rom_bank = m.rom_bank,
         n.p7ffd % 8 = m.p7ffd % 8, Bits(n.p7ffd, 4, 1) = Bits(m.p7ffd, 4, 1),
         n.locked => m.locked /\ Bits(n.p7ffd, 5, 1) = Bits(m.p7ffd, 5, 1)
  PROVE  Latched(n, l)
<1>1. Bank(n.pdffd, n.p7ffd) = Bank(m.pdffd, m.p7ffd) /\ RomBank(n.p1ffd, n.p7ffd) = RomBank(m.p1ffd, m.p7ffd)
  BY DEF Bank, RomBank
<1>2. Legacy(n) = Legacy(m)
  BY <1>1 DEF Legacy
<1>3. QED
  BY <1>1, <1>2 DEF Latched, Bit

\* NR 8E sets bank and ROM, and leaves the lock alone.
LEMMA LatchedMapping ==
  ASSUME NEW m \in NextMachine, NEW v \in Byte, NEW l \in BOOLEAN, Latched(m, l),
         NEW k \in BOOLEAN, k => l /\ ~Bit(m.p1ffd, 0) /\ ~Bit(v, 2)
  PROVE  Latched(WriteMapping(m, v), k)
<1> DEFINE x == Bits(v, 1, 1) * 4 + Bits(v, 0, 1) * 2 + Bits(v, 2, 1)
           p1ffd == WithBits(m.p1ffd, 0, 3, x)
           p7ffd == IF Bit(v, 2) THEN m.p7ffd ELSE WithBits(m.p7ffd, 4, 1, v)
           bank == Bits(v, 4, 3) + Bits(v, 7, 1) * 8
           banked == WithBits(p7ffd, 0, 3, bank)
           set == Bit(v, 3)
           n == WriteMapping(m, v)
<1>1. /\ n.rom_bank = v % 4 /\ n.p1ffd = p1ffd /\ n.locked = m.locked
      /\ n.p7ffd = (IF set THEN banked ELSE p7ffd)
      /\ n.pdffd = (IF set THEN Bits(v, 7, 1) ELSE m.pdffd)
      /\ n.mmu = (IF set THEN WithBank(m.mmu, bank) ELSE m.mmu)
  BY DEF WriteMapping, NextMachine
<1> HIDE DEF n
<1>2. m.p1ffd \in Byte /\ m.p7ffd \in Byte /\ m.pdffd \in 0..15
  BY MachineFields
<1>3. x \in 0..7 /\ Bits(x, 2, 1) = Bits(v, 1, 1) /\ Bits(x, 0, 1) = Bits(v, 2, 1)
  BY MappingLatch
<1> HIDE DEF x
<1>4. x \in 0..15
  BY <1>3
<1>5. Bits(p1ffd, 2, 1) = Bits(v, 1, 1) /\ Bits(p1ffd, 0, 1) = Bits(v, 2, 1)
  BY <1>2, <1>3, <1>4, LowBitsSet
<1> HIDE DEF p1ffd
<1>6. /\ p7ffd \in Byte /\ p7ffd % 8 = m.p7ffd % 8 /\ Bits(p7ffd, 5, 1) = Bits(m.p7ffd, 5, 1)
      /\ ~Bit(v, 2) => Bits(p7ffd, 4, 1) = Bits(v, 0, 1)
  BY <1>2, RomBitSet
<1> HIDE DEF p7ffd
<1>7. /\ bank \in 0..15 /\ bank % 8 = Bits(v, 4, 3) /\ Bits(v, 7, 1) % 16 = Bits(v, 7, 1)
      /\ bank = (Bits(v, 7, 1) % 16) * 8 + (bank % 8)
  <2> DEFINE low == Bits(v, 4, 3)
             high == Bits(v, 7, 1)
  <2>1. low \in 0..7 /\ high \in 0..1
    BY BitsRange
  <2> HIDE DEF low, high
  <2>2. LET b == low + high * 8
        IN  b \in 0..15 /\ b % 8 = low /\ high % 16 = high /\ b = (high % 16) * 8 + (b % 8)
    BY <2>1
  <2>3. QED
    BY <2>2 DEF low, high
<1> HIDE DEF bank
<1>8. banked % 8 = bank % 8 /\ Bits(banked, 4, 1) = Bits(p7ffd, 4, 1) /\ Bits(banked, 5, 1) = Bits(p7ffd, 5, 1)
  BY <1>6, <1>7, LowBitsSet
<1> HIDE DEF banked, set
<1>9. Bits(n.p7ffd, 4, 1) = Bits(p7ffd, 4, 1) /\ Bits(n.p7ffd, 5, 1) = Bits(m.p7ffd, 5, 1)
  BY <1>1, <1>6, <1>8
<1>10. ~Bit(n.p1ffd, 0) => n.rom_bank = RomBank(n.p1ffd, n.p7ffd)
  <2>1. SUFFICES ASSUME ~Bit(n.p1ffd, 0) PROVE n.rom_bank = RomBank(n.p1ffd, n.p7ffd)
    OBVIOUS
  <2>2. ~Bit(v, 2)
    BY <1>1, <1>5, <2>1 DEF Bit
  <2>3. RomBank(n.p1ffd, n.p7ffd) = Bits(v, 1, 1) * 2 + Bits(v, 0, 1)
    BY <1>1, <1>5, <1>6, <1>9, <2>2 DEF RomBank
  <2>4. v % 4 = Bits(v, 1, 1) * 2 + Bits(v, 0, 1)
    BY DEF Bits, Byte
  <2>5. QED
    BY <1>1, <2>3, <2>4
<1>11. n.locked => Bit(n.p7ffd, 5)
  BY <1>1, <1>9 DEF Latched, Bit
<1>12. k => n.mmu = Legacy(n)
  <2>1. SUFFICES ASSUME k PROVE n.mmu = Legacy(n)
    OBVIOUS
  <2>2. ~Bit(n.p1ffd, 0) /\ m.mmu = WithBank(ResetMmu, Bank(m.pdffd, m.p7ffd))
    BY <1>1, <1>5, <2>1 DEF Bit, Latched, Legacy
  <2>3. n.mmu = WithBank(ResetMmu, Bank(n.pdffd, n.p7ffd))
    <3>1. CASE set
      <4>1. WithBank(m.mmu, bank) = WithBank(ResetMmu, bank)
        BY <2>2, MmuType, BankAgain
      <4>2. Bank(n.pdffd, n.p7ffd) = bank
        BY <1>1, <1>7, <1>8, <3>1 DEF Bank
      <4>3. QED
        BY <1>1, <3>1, <4>1, <4>2
    <3>2. CASE ~set
      BY <1>1, <1>6, <2>2, <3>2 DEF Bank
    <3>3. QED
      BY <3>1, <3>2
  <2>4. QED
    BY <2>2, <2>3 DEF Legacy
<1>13. QED
  BY <1>10, <1>11, <1>12 DEF Latched, n

LEMMA LatchedRegister ==
  ASSUME NEW m \in NextMachine, NEW r, NEW v \in Byte, NEW l \in BOOLEAN, Latched(m, l),
         NEW k \in BOOLEAN,
         k => \/ Resets(r, v)
              \/ /\ l /\ r \notin 80..87
                 /\ r = 142 => ~Bit(m.p1ffd, 0) /\ ~Bit(v, 2)
  PROVE  Latched(WriteRegister(m, r, v), k)
<1> DEFINE nr == [x \in NextRegs |-> IF x = r THEN v ELSE m.nr[x]]
           n == [m EXCEPT !.nr = nr]
<1>1. /\ n.mmu = m.mmu /\ n.p7ffd = m.p7ffd /\ n.p1ffd = m.p1ffd /\ n.pdffd = m.pdffd
      /\ n.rom_bank = m.rom_bank /\ n.locked = m.locked
  BY DEF NextMachine
<1>2. n \in NextMachine
  <2>1. nr \in [NextRegs -> Byte]
    BY MachineFields
  <2> HIDE DEF nr
  <2>2. QED
    BY <2>1, Zenon DEF NextMachine
<1>3. WriteRegister(m, r, v) =
        IF r = 2
        THEN IF Bit(v, 1) THEN PowerOn ELSE IF Bit(v, 0) THEN SoftReset(m, v) ELSE RequestNmi(m, v)
        ELSE IF r = 3 THEN WriteType(m, v)
        ELSE IF r = 4 /\ m.config_mode THEN [n EXCEPT !.config_page = v]
        ELSE IF r = 8 /\ Bit(v, 7)
        THEN [n EXCEPT !.nr[8] = v % 128, !.locked = FALSE, !.p7ffd = WithBits(@, 5, 1, 0)]
        ELSE IF r \in 80..87 THEN [m EXCEPT !.mmu[r - 80] = v]
        ELSE IF r = 105 THEN [n EXCEPT !.p7ffd = WithBits(@, 3, 1, Bits(v, 6, 1))]
        ELSE IF r = 142 THEN WriteMapping(n, v)
        ELSE n
  BY Zenon DEF WriteRegister
<1> HIDE DEF n
<1>4. Latched(n, l)
  BY <1>1, LatchedSame
<1>5. CASE Resets(r, v)
  <2>1. WriteRegister(m, r, v) \in {PowerOn, SoftReset(m, v)}
    BY <1>5, ResetIs
  <2>2. QED
    BY <2>1, LatchedReset
<1> SUFFICES ASSUME ~Resets(r, v)
             PROVE  Latched(WriteRegister(m, r, v), k)
  BY <1>5
<1>6. k => l /\ r \notin 80..87 /\ (r = 142 => ~Bit(m.p1ffd, 0) /\ ~Bit(v, 2))
  OBVIOUS
<1>7. ASSUME NEW x, Latched(x, l)
      PROVE  Latched(x, k)
  BY <1>6, <1>7 DEF Latched
<1>8. CASE r = 2
  <2>1. WriteRegister(m, r, v) = RequestNmi(m, v)
    BY <1>3, <1>8, ResetBits DEF Resets
  <2>2. Latched(RequestNmi(m, v), l)
    <3>1. LET o == RequestNmi(m, v)
          IN  /\ o.mmu = m.mmu /\ o.p7ffd = m.p7ffd /\ o.p1ffd = m.p1ffd /\ o.pdffd = m.pdffd
              /\ o.rom_bank = m.rom_bank /\ o.locked = m.locked
      BY DEF RequestNmi, NextMachine
    <3>2. QED
      BY <3>1, LatchedSame
  <2>3. QED
    BY <1>7, <2>1, <2>2
<1>9. CASE r = 3
  <2>1. LET o == WriteType(m, v)
        IN  /\ o.mmu = m.mmu /\ o.p7ffd = m.p7ffd /\ o.p1ffd = m.p1ffd /\ o.pdffd = m.pdffd
            /\ o.rom_bank = m.rom_bank /\ o.locked = m.locked
    BY DEF WriteType, NextMachine
  <2>2. Latched(WriteType(m, v), l)
    BY <2>1, LatchedSame
  <2>3. QED
    BY <1>3, <1>7, <1>9, <2>2
<1>10. CASE r = 4 /\ m.config_mode
  <2> DEFINE o == [n EXCEPT !.config_page = v]
  <2>1. /\ o.mmu = n.mmu /\ o.p7ffd = n.p7ffd /\ o.p1ffd = n.p1ffd /\ o.pdffd = n.pdffd
        /\ o.rom_bank = n.rom_bank /\ o.locked = n.locked
    BY <1>2 DEF NextMachine
  <2>2. WriteRegister(m, r, v) = o
    BY <1>3, <1>10
  <2> HIDE DEF o
  <2>3. QED
    BY <1>4, <1>7, <2>1, <2>2, LatchedSame
<1>11. CASE r = 8 /\ Bit(v, 7)
  <2> DEFINE o == [n EXCEPT !.nr[8] = v % 128, !.locked = FALSE, !.p7ffd = WithBits(n.p7ffd, 5, 1, 0)]
             p == WithBits(m.p7ffd, 5, 1, 0)
  <2>1. /\ o.mmu = n.mmu /\ o.p7ffd = WithBits(n.p7ffd, 5, 1, 0) /\ o.p1ffd = n.p1ffd /\ o.pdffd = n.pdffd
        /\ o.rom_bank = n.rom_bank /\ ~o.locked
    BY <1>2 DEF NextMachine
  <2>2. WriteRegister(m, r, v) = o
    BY <1>3, <1>11
  <2> HIDE DEF o
  <2>3. p % 8 = m.p7ffd % 8 /\ Bits(p, 4, 1) = Bits(m.p7ffd, 4, 1)
    BY MachineFields, LockBitCleared
  <2>4. QED
    BY <1>1, <1>7, <2>1, <2>2, <2>3, LatchedFlags
<1>12. CASE r \in 80..87
  <2> DEFINE o == [m EXCEPT !.mmu[r - 80] = v]
  <2>1. /\ o.p7ffd = m.p7ffd /\ o.p1ffd = m.p1ffd /\ o.rom_bank = m.rom_bank /\ o.locked = m.locked
    BY DEF NextMachine
  <2>2. WriteRegister(m, r, v) = o
    BY <1>3, <1>12
  <2> HIDE DEF o
  <2>3. QED
    BY <1>6, <1>12, <2>1, <2>2 DEF Latched
<1>13. CASE r = 105
  <2> DEFINE x == Bits(v, 6, 1)
             o == [n EXCEPT !.p7ffd = WithBits(n.p7ffd, 3, 1, x)]
             p == WithBits(m.p7ffd, 3, 1, x)
  <2>1. x \in 0..1
    BY BitsRange
  <2> HIDE DEF x
  <2>2. /\ o.mmu = n.mmu /\ o.p7ffd = WithBits(n.p7ffd, 3, 1, x) /\ o.p1ffd = n.p1ffd /\ o.pdffd = n.pdffd
        /\ o.rom_bank = n.rom_bank /\ o.locked = n.locked
    BY <1>2 DEF NextMachine
  <2>3. WriteRegister(m, r, v) = o
    BY <1>3, <1>13 DEF x
  <2> HIDE DEF o
  <2>4. p % 8 = m.p7ffd % 8 /\ Bits(p, 4, 1) = Bits(m.p7ffd, 4, 1) /\ Bits(p, 5, 1) = Bits(m.p7ffd, 5, 1)
    BY <2>1, MachineFields, ScreenBitSet
  <2>5. QED
    BY <1>1, <1>7, <2>2, <2>3, <2>4, LatchedFlags
<1>14. CASE r = 142
  <2>1. WriteRegister(m, r, v) = WriteMapping(n, v)
    BY <1>3, <1>14
  <2>2. k => l /\ ~Bit(n.p1ffd, 0) /\ ~Bit(v, 2)
    BY <1>1, <1>6, <1>14
  <2>3. QED
    BY <1>2, <1>4, <2>1, <2>2, LatchedMapping
<1>15. CASE r \notin {2, 3, 105, 142} /\ r \notin 80..87 /\ ~(r = 4 /\ m.config_mode) /\ ~(r = 8 /\ Bit(v, 7))
  <2>1. WriteRegister(m, r, v) = n
    BY <1>3, <1>15
  <2>2. QED
    BY <1>4, <1>7, <2>1
<1>16. QED
  BY <1>8, <1>9, <1>10, <1>11, <1>12, <1>13, <1>14, <1>15

LEMMA LatchedWritePort ==
  ASSUME NEW m \in NextMachine, NEW port, NEW v \in Byte, NEW l \in BOOLEAN, Latched(m, l),
         NEW k \in BOOLEAN, k => l \/ (port = "1ffd" /\ ~m.locked /\ (Bit(v, 0) \/ Bit(m.p1ffd, 0)))
  PROVE  Latched(WritePort(m, port, v), k)
<1>1. CASE port = "1ffd" /\ port \notin {EnablePort(m), DisablePort(m)}
  <2>1. WritePort(m, port, v) = Write1ffd(m, v)
    BY <1>1 DEF WritePort
  <2>2. QED
    BY <2>1, LatchedPorts
<1>2. CASE port # "1ffd" \/ port \in {EnablePort(m), DisablePort(m)}
  <2>1. "1ffd" \notin {EnablePort(m), DisablePort(m)}
    <3>1. Bits(m.nr[10], 6, 2) \in 0..3
      BY MachineFields, BitsRange DEF NextRegs
    <3>2. QED
      BY <3>1 DEF EnablePort, DisablePort
  <2>2. k => l
    BY <1>2, <2>1
  <2>3. Latched(m, k)
    BY <2>2 DEF Latched
  <2>4. ASSUME NEW n, n \in {[m EXCEPT !.invisible = TRUE], [m EXCEPT !.divmmc = v], m,
                             [m EXCEPT !.layer2_offset = v % 8], [m EXCEPT !.layer2 = v]}
        PROVE  Latched(n, k)
    <3>1. /\ n.mmu = m.mmu /\ n.p7ffd = m.p7ffd /\ n.p1ffd = m.p1ffd /\ n.pdffd = m.pdffd
          /\ n.rom_bank = m.rom_bank /\ n.locked = m.locked
      BY <2>4 DEF NextMachine
    <3>2. QED
      BY <2>3, <3>1, LatchedSame
  <2>5. Latched(Write7ffd(m, v), k) /\ Latched(WriteDffd(m, v), k)
    BY <2>3, LatchedPorts
  <2>6. WritePort(m, port, v) \in
          {[m EXCEPT !.invisible = TRUE], [m EXCEPT !.divmmc = v], m,
           [m EXCEPT !.layer2_offset = v % 8], [m EXCEPT !.layer2 = v]}
          \cup {Write7ffd(m, v), WriteDffd(m, v)}
    BY <1>2, <2>1, Zenon DEF WritePort
  <2>7. QED
    BY <2>4, <2>5, <2>6
<1>3. QED
  BY <1>1, <1>2

LEMMA LatchedLoads ==
  ASSUME NEW m \in NextMachine, NEW l \in BOOLEAN, Latched(m, l), NEW v \in Byte, NEW flag
  PROVE  /\ \A k \in BOOLEAN : Latched(Snx(m, v, flag), k)
         /\ \A k \in BOOLEAN : ~k => Latched(Nex(m, v), k) /\ Latched(Nex(NexFresh, v), k)
<1>1. ASSUME NEW k \in BOOLEAN
      PROVE  Latched(Snx(m, v, flag), k)
  <2> DEFINE bank == IF flag THEN v % 8 ELSE 0
             p7ffd == IF flag THEN v ELSE 16
             n == Snx(m, v, flag)
  <2>1. /\ n.mmu = WithBank(ResetMmu, bank) /\ n.p7ffd = p7ffd /\ n.p1ffd = 4 /\ n.pdffd = 0
        /\ n.rom_bank = RomBank(4, p7ffd) /\ ~n.locked
    BY DEF Snx, NextMachine
  <2>2. Bank(0, p7ffd) = bank
    BY DEF Bank, Byte
  <2>3. ~Bit(4, 0)
    BY DEF Bit, Bits
  <2> HIDE DEF n, bank, p7ffd
  <2>4. Latched(n, k)
    BY <2>1, <2>2, <2>3, LatchedBank
  <2>5. QED
    BY <2>4 DEF n
<1>2. ASSUME NEW k \in BOOLEAN, ~k, NEW x \in NextMachine, Latched(x, FALSE)
      PROVE  Latched(Nex(x, v), k)
  <2> DEFINE n == Nex(x, v)
  <2>1. n.p7ffd = x.p7ffd /\ n.p1ffd = x.p1ffd /\ n.rom_bank = x.rom_bank /\ n.locked = x.locked
    BY DEF Nex, NextMachine
  <2> HIDE DEF n
  <2>2. Latched(n, k)
    BY <1>2, <2>1 DEF Latched
  <2>3. QED
    BY <2>2 DEF n
<1>3. Latched(NexFresh, FALSE)
  <2>1. /\ NexFresh.p7ffd = 0 /\ NexFresh.p1ffd = 4 /\ NexFresh.rom_bank = 2 /\ ~NexFresh.locked
    BY DEF NexFresh, PowerOn
  <2>2. RomBank(4, 0) = 2
    BY DEF RomBank, Bits
  <2>3. QED
    BY <2>1, <2>2 DEF Latched
<1>4. Latched(m, FALSE)
  BY DEF Latched
<1>5. QED
  BY <1>1, <1>2, <1>3, <1>4, NexFreshType

Latches == Latched(machine, history.legacy)

\* A step that leaves the latches alone.
LatchesKept ==
  /\ machine'.mmu = machine.mmu /\ machine'.p7ffd = machine.p7ffd /\ machine'.p1ffd = machine.p1ffd
  /\ machine'.pdffd = machine.pdffd /\ machine'.rom_bank = machine.rom_bank
  /\ machine'.locked = machine.locked /\ history'.legacy = history.legacy

LEMMA KeptStep ==
  ASSUME Types, Latches, LatchesKept
  PROVE  Latches'
<1>1. history.legacy \in BOOLEAN
  BY TypesAre
<1>2. Latched(machine', history.legacy)
  BY <1>1, LatchedSame DEF Latches, LatchesKept
<1>3. history'.legacy = history.legacy
  BY DEF LatchesKept
<1>4. Latched(machine', history'.legacy)
  BY <1>2, <1>3
<1>5. QED
  BY <1>4 DEF Latches

\* A fetch leaves the latches alone.
LEMMA FetchLatches ==
  ASSUME Types, NEW a, NEW opcode, Cycle(a, opcode), history'.legacy = history.legacy
  PROVE  LatchesKept
<1> DEFINE Same(n) ==
             /\ n.mmu = machine.mmu /\ n.p7ffd = machine.p7ffd /\ n.p1ffd = machine.p1ffd
             /\ n.pdffd = machine.pdffd /\ n.rom_bank = machine.rom_bank
             /\ n.locked = machine.locked
           m == Automap(machine, a)
           entered == Acknowledged(m, memory, cpu.sp)
           n == IF EntersMultiface(m, a) THEN entered ELSE m
<1>1. machine \in NextMachine /\ IsMemory(memory)
  BY TypesAre
<1>2. m \in NextMachine /\ Same(m)
  BY <1>1, AutomapType, AutomapKeeps
<1>3. machine' = Exits(Opcode(n, opcode), a)
  BY DEF Cycle
<1> HIDE DEF m
<1>4. entered \in NextMachine /\ Same(entered)
  BY <1>1, <1>2, AcknowledgedType, AcknowledgedKeeps
<1> HIDE DEF entered
<1>5. n \in NextMachine /\ Same(n)
  BY <1>2, <1>4
<1> HIDE DEF n
<1>6. Opcode(n, opcode) \in NextMachine /\ Same(Opcode(n, opcode))
  BY <1>5, OpcodeType, OpcodeKeeps
<1>7. Same(machine')
  BY <1>3, <1>6, ExitsKeeps
<1>8. QED
  BY <1>7 DEF LatchesKept

LEMMA AcceptLatches ==
  ASSUME Types, NEW pc \in use.fetches, Accept(pc)
  PROVE  LatchesKept
<1>1. \E opcode : Cycle(pc, opcode)
  BY DEF Accept
<1>2. history'.legacy = history.legacy
  <2>1. IsHistory(history)
    BY TypesAre
  <2>2. history' = [history EXCEPT !.nmi = history'.nmi]
    BY <2>1 DEF Accept, IsHistory
  <2>3. QED
    BY <2>1, <2>2 DEF IsHistory
<1>3. QED
  BY <1>1, <1>2, FetchLatches

\* Pushes, pops and writes.
LEMMA CycleLatches ==
  ASSUME Types,
         \/ Latch \/ Push \/ Pop \/ Finish \/ Hold \/ Release
         \/ \E sp \in use.stacks : LoadSp(sp)
         \/ \E b \in use.bytes : WriteByte(b[1], b[2])
         \/ \E port \in use.ins : InPort(port)
  PROVE  LatchesKept
<1>1. machine \in NextMachine /\ Len(machine.writes) <= 2 /\ IsHistory(history) /\ use \in Uses
      /\ cpu.sp \in Address
  BY TypesAre
<1>2. CASE Latch
  <2>1. machine' = [machine EXCEPT !.request = FALSE] /\ history' = history
    BY <1>2 DEF Latch
  <2>2. QED
    BY <1>1, <2>1 DEF LatchesKept, NextMachine
<1>3. CASE Finish \/ Hold \/ Release \/ \E sp \in use.stacks : LoadSp(sp)
  BY <1>3 DEF Finish, Hold, Release, LoadSp, LatchesKept
<1>4. CASE Pop
  <2> DEFINE reads == IF machine.retn_reads > 0 THEN machine.retn_reads - 1 ELSE 0
  <2>1. machine' = [machine EXCEPT !.retn_reads = reads]
    BY <1>4 DEF Pop
  <2> HIDE DEF reads
  <2>2. history'.legacy = history.legacy
    <3>1. history' \in {history, [history EXCEPT !.nmi = NoNmi]}
      BY <1>4 DEF Pop
    <3>2. [history EXCEPT !.nmi = NoNmi].legacy = history.legacy
      BY <1>1, NmiChange, NoNmiType
    <3>3. QED
      BY <3>1, <3>2
  <2>3. QED
    BY <1>1, <2>1, <2>2 DEF LatchesKept, NextMachine
<1>5. ASSUME NEW a \in Address, machine' = Noted(machine, a)
      PROVE  /\ machine'.mmu = machine.mmu /\ machine'.p7ffd = machine.p7ffd
             /\ machine'.p1ffd = machine.p1ffd /\ machine'.pdffd = machine.pdffd
             /\ machine'.rom_bank = machine.rom_bank /\ machine'.locked = machine.locked
  <2>1. machine' = [machine EXCEPT !.writes = machine'.writes]
    BY <1>1, <1>5, NotedIs, TypesAre
  <2> DEFINE w == machine'.writes
  <2>2. machine' = [machine EXCEPT !.writes = w]
    BY <2>1
  <2> HIDE DEF w
  <2>3. QED
    BY <1>1, <2>2 DEF NextMachine
<1>6. CASE Push
  <2> DEFINE a == Up(cpu.sp, -1)
  <2>1. a \in Address
    BY <1>1, AddressUp
  <2>2. machine' = Noted(machine, a) /\ history' = [history EXCEPT !.nmi.cells = Append(@, Landed(machine, a))]
    BY <1>6 DEF Push, Stores
  <2> HIDE DEF a
  <2>3. history'.legacy = history.legacy
    BY <1>1, <2>1, <2>2, LandedType, CellsChange
  <2>4. QED
    BY <1>5, <2>1, <2>2, <2>3 DEF LatchesKept
<1>7. ASSUME NEW b \in use.bytes, WriteByte(b[1], b[2])
      PROVE  LatchesKept
  <2> DEFINE a == b[1]
  <2>1. a \in Address
    BY <1>1, InputsType
  <2>2. machine' = Noted(machine, a) /\ history' = [history EXCEPT !.writes = @ + 1]
    BY <1>7 DEF WriteByte, Stores
  <2> HIDE DEF a
  <2>3. history'.legacy = history.legacy
    BY <1>1, <2>2, WritesChange
  <2>4. QED
    BY <1>5, <2>1, <2>2, <2>3 DEF LatchesKept
<1>8. ASSUME NEW port \in use.ins, InPort(port)
      PROVE  LatchesKept
  <2>1. machine' = ReadPort(machine, port) /\ history' = history
    BY <1>8 DEF InPort
  <2>2. QED
    BY <1>1, <2>1, ReadPortKeeps DEF LatchesKept
<1>9. QED
  BY <1>2, <1>3, <1>4, <1>6, <1>7, <1>8

LEMMA LatchesStep ==
  ASSUME Types, Latches, [Next]_vars
  PROVE  Latches'
<1>1. /\ machine \in NextMachine /\ IsHistory(history) /\ use \in Uses
      /\ history.legacy \in BOOLEAN /\ Latched(machine, history.legacy)
  BY TypesAre DEF Latches
<1>2. CASE UNCHANGED vars
  BY <1>2 DEF vars, Latches
<1>3. CASE Cpu
  <2>1. ASSUME NEW w \in use.outs, OutPort(w[1], w[2])
        PROVE  Latches'
    <3> DEFINE port == w[1]
               v == w[2]
               k == Outed(machine, port, v)
    <3>1. v \in Byte
      BY <1>1, InputsType
    <3>2. machine' = WritePort(machine, port, v) /\ history' = [history EXCEPT !.legacy = k]
      BY <2>1 DEF OutPort
    <3>3. k \in BOOLEAN
      BY Zenon DEF Outed
    <3>4. k => history.legacy \/ (port = "1ffd" /\ ~machine.locked /\ (Bit(v, 0) \/ Bit(machine.p1ffd, 0)))
      BY DEF Outed
    <3> HIDE DEF port, v, k
    <3>5. Latched(WritePort(machine, port, v), k)
      BY <1>1, <3>1, <3>3, <3>4, LatchedWritePort
    <3>6. history'.legacy = k
      BY <1>1, <3>2, <3>3, LegacyChange
    <3>7. QED
      BY <3>2, <3>5, <3>6 DEF Latches
  <2>2. CASE \/ Latch \/ Push \/ Pop \/ Finish \/ Hold \/ Release
             \/ \E sp \in use.stacks : LoadSp(sp)
             \/ \E b \in use.bytes : WriteByte(b[1], b[2])
             \/ \E port \in use.ins : InPort(port)
    <3>1. LatchesKept
      BY <2>2, CycleLatches
    <3>2. QED
      BY <3>1, KeptStep
  <2>3. CASE Handler \/ \E a \in use.fetches : Fetch(a) \/ FetchSecond(a)
    <3>1. PICK a, opcode : M1(a, opcode)
      BY <2>3 DEF Handler, Fetch, FetchSecond
    <3>2. Cycle(a, opcode) /\ history'.legacy = history.legacy
      BY <3>1, FetchHistory DEF M1
    <3>3. QED
      BY <3>2, FetchLatches, KeptStep
  <2>4. CASE \E a \in use.fetches : Accept(a)
    BY <2>4, AcceptLatches, KeptStep
  <2>5. QED
    BY <1>3, <2>1, <2>2, <2>3, <2>4 DEF Cpu
<1>4. CASE Loads
  <2>1. PICK f \in use.files, sp \in use.stacks :
          LoadSnx(f.value, f.flag, sp) \/ LoadNex(f.flag, f.value, sp)
    BY <1>4 DEF Loads
  <2> DEFINE v == f.value
             flag == f.flag
  <2>2. v \in Byte
    BY <1>1, InputsType
  <2>3. /\ machine' \in {Snx(machine, v, flag), Nex(machine, v), Nex(NexFresh, v)}
        /\ \/ history' = Loaded(TRUE) /\ machine' = Snx(machine, v, flag)
           \/ history' = Loaded(FALSE)
    BY <2>1, LoadIs
  <2> HIDE DEF v, flag
  <2>4. ASSUME NEW k \in BOOLEAN, history' = Loaded(k)
        PROVE  history'.legacy = k
    <3> DEFINE h == [history EXCEPT !.legacy = k]
    <3>1. IsHistory(h) /\ h.legacy = k
      BY <1>1, LegacyChange
    <3>2. history' = [h EXCEPT !.nmi = NoNmi]
      BY <2>4, Zenon DEF Loaded
    <3> HIDE DEF h
    <3>3. QED
      BY <3>1, <3>2, NmiChange, NoNmiType
  <2>5. PICK k \in BOOLEAN : history' = Loaded(k) /\ (k => machine' = Snx(machine, v, flag))
    BY <2>3
  <2>6. Latched(machine', k)
    BY <1>1, <2>2, <2>3, <2>5, LatchedLoads
  <2>7. history'.legacy = k
    BY <2>4, <2>5
  <2>8. QED
    BY <2>6, <2>7 DEF Latches
<1>5. ASSUME NEW w \in use.registers, Register(w[1], w[2])
      PROVE  Latches'
  <2> DEFINE r == w[1]
             v == w[2]
             k == Registered(r, v)
  <2>1. v \in Byte
    BY <1>1, InputsType
  <2>2. machine' = WriteRegister(machine, r, v) /\ history' = Recorded(r, v)
    BY <1>5 DEF Register
  <2>3. k \in BOOLEAN
    BY Zenon DEF Registered, Resets
  <2>4. k => \/ Resets(r, v)
             \/ /\ history.legacy /\ r \notin 80..87
                /\ r = 142 => ~Bit(machine.p1ffd, 0) /\ ~Bit(v, 2)
    BY DEF Registered
  <2> HIDE DEF r, v
  <2>5. history'.legacy = k
    <3> DEFINE kept == history.nmi.kept /\ r \notin {194, 195}
               nmi == IF Resets(r, v) THEN NoNmi ELSE [history.nmi EXCEPT !.kept = kept]
               h == [history EXCEPT !.legacy = k]
    <3>1. kept \in BOOLEAN
      BY Zenon
    <3>2. IsNmi(nmi)
      BY <1>1, <3>1, NoNmiType DEF IsHistory, IsNmi
    <3>3. history' = [history EXCEPT !.legacy = k, !.nmi = nmi]
      BY <2>2, Zenon DEF Recorded
    <3> HIDE DEF nmi, k
    <3>4. IsHistory(h) /\ h.legacy = k
      BY <1>1, <2>3, LegacyChange
    <3>5. history' = [h EXCEPT !.nmi = nmi]
      BY <3>3, Zenon
    <3> HIDE DEF h
    <3>6. QED
      BY <3>2, <3>4, <3>5, NmiChange
  <2> HIDE DEF k
  <2>6. Latched(WriteRegister(machine, r, v), k)
    BY <1>1, <2>1, <2>3, <2>4, LatchedRegister
  <2>7. QED
    BY <2>2, <2>5, <2>6 DEF Latches
<1>6. QED
  BY <1>2, <1>3, <1>4, <1>5 DEF Next

\* NR 8E written with what it reads sets the same latches again.
LEMMA MappingAgain ==
  ASSUME NEW m \in NextMachine, m.mmu = Legacy(m), m.rom_bank = RomBank(m.p1ffd, m.p7ffd),
         ~Bit(m.p1ffd, 0), m.pdffd < 2
  PROVE  LET n == WriteMapping(m, Mapping(m))
         IN  n.mmu = m.mmu /\ n.rom_bank = m.rom_bank /\ n.p7ffd = m.p7ffd /\ n.pdffd = m.pdffd
<1> DEFINE v == Mapping(m)
           d == m.pdffd
           p == m.p7ffd
           q == m.p1ffd
           x == Bits(v, 1, 1) * 4 + Bits(v, 0, 1) * 2 + Bits(v, 2, 1)
           set == WithBits(p, 4, 1, v)
           bank == Bits(v, 4, 3) + Bits(v, 7, 1) * 8
           banked == WithBits(set, 0, 3, bank)
           n == WriteMapping(m, v)
<1>1. d \in 0..1 /\ p \in Byte /\ q \in Byte
  BY MachineFields
<1>2. v = Bits(d, 0, 1) * 128 + (p % 8) * 16 + 8 + Bits(q, 0, 1) * 4 + Bits(q, 2, 1) * 2 + Bits(p, 4, 1)
  BY DEF Mapping
<1> HIDE DEF v
<1>3. Bits(q, 0, 1) = 0 /\ m.rom_bank = Bits(q, 2, 1) * 2 + Bits(p, 4, 1) /\ m.mmu = WithBank(ResetMmu, Bank(d, p))
  <2>1. Bits(q, 0, 1) \in 0..1
    BY <1>1, BitsRange
  <2>2. Bits(q, 0, 1) = 0
    BY <2>1 DEF Bit
  <2>3. m.mmu = Legacy(m) /\ m.rom_bank = RomBank(q, p)
    OBVIOUS
  <2>4. QED
    BY <2>2, <2>3 DEF Legacy, RomBank
<1> HIDE DEF d, p, q
<1>4. Bits(q, 2, 1) \in 0..1 /\ Bits(p, 4, 1) \in 0..1 /\ Bits(d, 0, 1) = d /\ p % 8 \in 0..7
  <2>1. Bits(q, 2, 1) \in 0..1 /\ Bits(p, 4, 1) \in 0..1
    BY <1>1, BitsRange
  <2>2. Bits(d, 0, 1) = d
    BY <1>1 DEF Bits
  <2>3. p % 8 \in 0..7
    BY <1>1 DEF Byte
  <2>4. QED
    BY <2>1, <2>2, <2>3
<1>5. /\ v \in Byte /\ ~Bit(v, 2) /\ Bit(v, 3) /\ v % 4 = m.rom_bank /\ Bits(v, 4, 3) = p % 8
      /\ Bits(v, 7, 1) = d /\ Bits(v, 0, 1) = Bits(p, 4, 1)
  <2> DEFINE low == p % 8
             b2 == Bits(q, 2, 1)
             b4 == Bits(p, 4, 1)
  <2>1. /\ low \in 0..7 /\ b2 \in 0..1 /\ b4 \in 0..1 /\ d \in 0..1
        /\ v = d * 128 + low * 16 + 8 + 0 * 4 + b2 * 2 + b4
        /\ m.rom_bank = b2 * 2 + b4
    BY <1>1, <1>2, <1>3, <1>4
  <2> HIDE DEF low, b2, b4
  <2>2. /\ v \in Byte /\ ~Bit(v, 2) /\ Bit(v, 3) /\ v % 4 = b2 * 2 + b4 /\ Bits(v, 4, 3) = low
        /\ Bits(v, 7, 1) = d /\ Bits(v, 0, 1) = b4
    BY <2>1, SMTT(60) DEF Byte, Bit, Bits
  <2>3. QED
    BY <2>1, <2>2 DEF low, b4
<1>6. n.rom_bank = v % 4 /\ n.pdffd = Bits(v, 7, 1) /\ n.p7ffd = banked /\ n.mmu = WithBank(m.mmu, bank)
  BY <1>5 DEF WriteMapping, NextMachine, p, v
<1> HIDE DEF n
<1>7. set = p
  <2>1. v % 2^1 = Bits(v, 0, 1)
    <3>1. v \in Byte
      BY <1>5
    <3>2. QED
      BY <3>1 DEF Bits, Byte
  <2>2. (v % 2^1) - Bits(p, 4, 1) = 0
    BY <1>4, <1>5, <2>1
  <2>3. p + 0 * 2^4 = p
    BY <1>1 DEF Byte
  <2>4. QED
    BY <2>2, <2>3 DEF WithBits
<1>8. bank = (p % 8) + d * 8
  BY <1>5
<1>9. banked = p
  <2>1. LET b == (p % 8) + d * 8 IN p + ((b % 2^3) - Bits(p, 0, 3)) * 2^0 = p
    BY <1>1 DEF Bits, Byte
  <2>2. QED
    BY <1>7, <1>8, <2>1 DEF WithBits
<1>10. Bank(d, p) = bank
  BY <1>1, <1>8 DEF Bank, Byte
<1> HIDE DEF bank
<1>11. n.mmu = m.mmu
  BY <1>3, <1>6, <1>10, MmuType, BankAgain
<1>12. QED
  BY <1>5, <1>6, <1>9, <1>11 DEF n, v, p, d

\* Whatever a program writes to ports 7FFD, 1FFD and DFFD and to the paging
\* registers, in whatever order: the slots and the ROM are those that the
\* latches stand for, and NR 8E written with what it reads changes no paging.
THEOREM LatchesAgreeAlways == Spec => []LatchesAgree
<1>1. Init => Latches
  <2>1. SUFFICES ASSUME Init PROVE Latches
    OBVIOUS
  <2>2. machine = PowerOn /\ history.legacy = TRUE
    BY <2>1 DEF Init
  <2>3. PowerOn \in NextMachine
    BY PowerOnType
  <2>4. QED
    BY <2>2, <2>3, LatchedReset DEF Latches
<1>2. Types /\ Latches /\ [Next]_vars => Latches'
  BY LatchesStep
<1>3. Types /\ Latches => LatchesAgree
  <2>1. SUFFICES ASSUME Types, Latches PROVE LatchesAgree
    OBVIOUS
  <2>2. SlotsFollowLatches /\ RomFollowsLatches
    BY <2>1 DEF Latches, Latched, SlotsFollowLatches, RomFollowsLatches
  <2>3. machine \in NextMachine
    BY <2>1, TypesAre
  <2>4. MappingRestored
    <3>1. SUFFICES ASSUME history.legacy, ~Bit(machine.p1ffd, 0), machine.pdffd < 2
                   PROVE  LET n == WriteMapping(machine, Mapping(machine))
                          IN  <<n.mmu, n.rom_bank, n.p7ffd, n.pdffd>>
                                = <<machine.mmu, machine.rom_bank, machine.p7ffd, machine.pdffd>>
      BY Zenon DEF MappingRestored
    <3>2. machine.mmu = Legacy(machine) /\ machine.rom_bank = RomBank(machine.p1ffd, machine.p7ffd)
      BY <2>1, <3>1 DEF Latches, Latched
    <3>3. QED
      BY <2>3, <3>1, <3>2, MappingAgain
  <2>5. QED
    BY <2>2, <2>4 DEF LatchesAgree
<1>4. QED
  BY <1>1, <1>2, <1>3, TypesHold, PTL DEF Spec

-----------------------------------------------------------------------------
(* A stackless NMI.                                                        *)

\* What is kept at a place, whatever it is.
Kept(mem, c) == IF c \in DOMAIN mem THEN mem[c] ELSE 0

LEMMA KeptPut ==
  ASSUME NEW mem, IsMemory(mem), NEW c, c # Nowhere, NEW v \in Byte, NEW x
  PROVE  Kept(Put(mem, c, v), x) = IF x = c THEN v ELSE Kept(mem, x)
<1> DEFINE d == (DOMAIN mem \cup {c}) \ (IF v = 0 THEN {c} ELSE {})
           p == [y \in d |-> IF y = c THEN v ELSE mem[y]]
<1>1. Put(mem, c, v) = p
  BY DEF Put
<1>2. DOMAIN p = d /\ \A y \in d : p[y] = IF y = c THEN v ELSE mem[y]
  OBVIOUS
<1>3. x \in d <=> IF x = c THEN v # 0 ELSE x \in DOMAIN mem
  OBVIOUS
<1> HIDE DEF d, p
<1>4. QED
  BY <1>1, <1>2, <1>3 DEF Kept

LEMMA SameMemory ==
  ASSUME NEW f, IsMemory(f), NEW g, IsMemory(g), \A x : Kept(f, x) = Kept(g, x)
  PROVE  f = g
<1>1. f = [x \in DOMAIN f |-> f[x]] /\ g = [x \in DOMAIN g |-> g[x]]
  BY DEF IsMemory
<1>2. (\A x \in DOMAIN f : f[x] # 0) /\ (\A x \in DOMAIN g : g[x] # 0)
  BY DEF IsMemory
<1>3. ASSUME NEW x
      PROVE  x \in DOMAIN f <=> x \in DOMAIN g
  BY <1>2 DEF Kept
<1>4. DOMAIN f = DOMAIN g
  BY <1>3
<1>5. \A x \in DOMAIN f : f[x] = g[x]
  BY <1>4 DEF Kept
<1>6. QED
  BY <1>1, <1>4, <1>5

LEMMA HeldPut ==
  ASSUME NEW mem, IsMemory(mem), NEW c, c # Nowhere, NEW v \in Byte, NEW x, x # Nowhere
  PROVE  Held(Put(mem, c, v), x) = IF x = c THEN v ELSE Held(mem, x)
BY KeptPut DEF Held, Kept

\* Two bytes that are put back leave memory as it was.
LEMMA PutBack ==
  ASSUME NEW mem, IsMemory(mem), NEW c, c # Nowhere, NEW d, d # Nowhere, c # d,
         NEW v \in Byte, NEW w \in Byte
  PROVE  LET first == Put(mem, c, v)
             both == Put(first, d, w)
         IN  Put(Put(both, d, Held(first, d)), c, Held(mem, c)) = mem
<1> DEFINE first == Put(mem, c, v)
           both == Put(first, d, w)
           x == Held(first, d)
           y == Held(mem, c)
           third == Put(both, d, x)
           last == Put(third, c, y)
<1>1. IsMemory(first)
  BY PutType
<1>2. x \in Byte /\ y \in Byte /\ IsMemory(both)
  BY <1>1, HeldType, PutType
<1>3. x = Kept(mem, d) /\ y = Kept(mem, c)
  BY KeptPut DEF Held, Kept
<1>4. \A z : Kept(first, z) = IF z = c THEN v ELSE Kept(mem, z)
  BY KeptPut
<1> HIDE DEF first, x, y
<1>5. \A z : Kept(both, z) = IF z = d THEN w ELSE Kept(first, z)
  BY <1>1, KeptPut
<1> HIDE DEF both
<1>6. IsMemory(third) /\ \A z : Kept(third, z) = IF z = d THEN x ELSE Kept(both, z)
  BY <1>2, PutType, KeptPut
<1> HIDE DEF third
<1>7. IsMemory(last) /\ \A z : Kept(last, z) = IF z = c THEN y ELSE Kept(third, z)
  BY <1>2, <1>6, PutType, KeptPut
<1> HIDE DEF last
<1>8. \A z : Kept(last, z) = Kept(mem, z)
  BY <1>3, <1>4, <1>5, <1>6, <1>7
<1>9. last = mem
  BY <1>7, <1>8, SameMemory
<1>10. QED
  BY <1>9 DEF last, third, both, first, x, y

Entry(a, mem, c) == [address |-> a, old |-> Held(mem, c)]
First(n) == Put(n.memory, n.cells[1], n.pc \div 256)
Both(n) == Put(First(n), n.cells[2], n.pc % 256)

\* Between the acceptance of an NMI and its handler: memory is what it was
\* and the bytes pushed, and the notes hold what those overwrote.
AllPushed(m, sp, mem, n) ==
  /\ Len(n.cells) = 2 /\ Fits(n.cells[1], Up(sp, 1)) /\ Fits(n.cells[2], sp)
  /\ n.cells[1] # Nowhere /\ n.cells[2] # Nowhere =>
       /\ mem = Both(n)
       /\ n.active /\ ~m.paged =>
            /\ Len(m.writes) = 2 /\ m.writes[1] = Entry(Up(sp, 1), n.memory, n.cells[1])
            /\ m.writes[2] = Entry(sp, First(n), n.cells[2])
OnePushed(m, sp, mem, n) ==
  /\ Len(n.cells) = 1 /\ Fits(n.cells[1], sp)
  /\ n.cells[1] # Nowhere =>
       /\ mem = First(n)
       /\ n.active /\ ~m.paged =>
            /\ Len(m.writes) > 0
            /\ m.writes[Len(m.writes)] = Entry(sp, n.memory, n.cells[1])
NonePushed(mem, n) == n.cells = <<>> /\ n.memory = mem
PushedBy(phase, m, sp, mem, n) ==
  /\ ~n.kept /\ (n.active => m.nmi_active)
  /\ phase = "high" => NonePushed(mem, n)
  /\ phase = "pushing" => OnePushed(m, sp, mem, n)
  /\ phase = "handler" => AllPushed(m, sp, mem, n)
Pushing == cpu.phase \in Serving => PushedBy(cpu.phase, machine, cpu.sp, memory, history.nmi)

\* From its handler to its return: the return address is in NR C2 and C3, and
\* the RETN to come reads it.
ReturnsBy(phase, m, n) ==
  /\ phase \notin Serving
  /\ m.nr[194] = n.pc % 256 /\ m.nr[195] = n.pc \div 256
  /\ phase = "low" => m.retn_reads = 2
  /\ phase = "popping" => m.retn_reads = 1
  /\ phase \notin {"low", "popping"} => m.stackless /\ (m.ed <=> phase = "ed")
Returning == history.nmi.kept => ReturnsBy(cpu.phase, machine, history.nmi)

LEMMA AllPushedSame ==
  ASSUME NEW m, NEW n, NEW sp, NEW mem, NEW h, NEW g, NEW phase,
         PushedBy(phase, m, sp, mem, h),
         h.active => n.nmi_active /\ n.writes = m.writes, n.paged = m.paged,
         g.pc = h.pc, g.memory = h.memory, g.cells = h.cells, g.active = h.active, ~g.kept
  PROVE  PushedBy(phase, n, sp, mem, g)
<1>1. First(g) = First(h) /\ Both(g) = Both(h)
  BY DEF First, Both
<1>2. NonePushed(mem, h) => NonePushed(mem, g)
  BY DEF NonePushed
<1>3. OnePushed(m, sp, mem, h) => OnePushed(n, sp, mem, g)
  BY <1>1 DEF OnePushed
<1>4. AllPushed(m, sp, mem, h) => AllPushed(n, sp, mem, g)
  BY <1>1 DEF AllPushed
<1>5. QED
  BY <1>2, <1>3, <1>4 DEF PushedBy

\* The two bytes are at different places: one address is even, one odd.
LEMMA PlacesDiffer ==
  ASSUME NEW sp \in Address, NEW c, NEW d, Fits(c, Up(sp, 1)), Fits(d, sp), c # Nowhere, d # Nowhere
  PROVE  c # d
<1>1. c.at % 2 = Up(sp, 1) % 2 /\ d.at % 2 = sp % 2
  BY DEF Fits
<1>2. Up(sp, 1) % 2 # sp % 2
  BY AddressUp
<1>3. QED
  BY <1>1, <1>2

\* A byte pushed where it is read from, too.
LEMMA LandedIs ==
  ASSUME NEW m \in NextMachine, NEW a \in Address
  PROVE  /\ Fits(Landed(m, a), a)
         /\ Landed(m, a) # Nowhere => /\ Cell(m, a, TRUE) = Landed(m, a)
                                      /\ Cell(m, a, FALSE) = Landed(m, a)
<1>1. Fits(Cell(m, a, FALSE), a)
  BY CellFits
<1>2. Fits(Nowhere, a)
  BY DEF Fits
<1>3. Landed(m, a) = IF Cell(m, a, TRUE) = Cell(m, a, FALSE) THEN Cell(m, a, FALSE) ELSE Nowhere
  BY DEF Landed
<1> DEFINE r == Cell(m, a, TRUE)
           w == Cell(m, a, FALSE)
<1>4. Fits(w, a) /\ Landed(m, a) = IF r = w THEN w ELSE Nowhere
  BY <1>1, <1>3
<1> HIDE DEF r, w
<1>5. Fits(Landed(m, a), a) /\ (Landed(m, a) # Nowhere => r = Landed(m, a) /\ w = Landed(m, a))
  BY <1>2, <1>4
<1>6. QED
  BY <1>5 DEF r, w

LEMMA BytesOf ==
  ASSUME NEW pc \in Address
  PROVE  pc \div 256 \in Byte /\ pc % 256 \in Byte
BY DEF Address, Byte

\* A push, by its parts.
LEMMA PushIs ==
  ASSUME Types, Push
  PROVE  LET a == Up(cpu.sp, -1)
             c == Landed(machine, a)
             v == IF cpu.phase = "high" THEN history.nmi.pc \div 256 ELSE history.nmi.pc % 256
         IN  /\ a \in Address /\ Up(a, 1) = cpu.sp /\ Fits(c, a)
             /\ machine' = Noted(machine, a)
             /\ c # Nowhere => memory' = Put(memory, c, v) /\ Read(machine, memory, a) = Held(memory, c)
             /\ cpu'.sp = a /\ cpu'.phase = (IF cpu.phase = "high" THEN "pushing" ELSE "handler")
             /\ history'.nmi = [history.nmi EXCEPT !.cells = Append(history.nmi.cells, c)]
             /\ cpu.phase \in {"high", "pushing"}
<1> DEFINE a == Up(cpu.sp, -1)
           c == Landed(machine, a)
           v == IF cpu.phase = "high" THEN history.nmi.pc \div 256 ELSE history.nmi.pc % 256
           phase == IF cpu.phase = "high" THEN "pushing" ELSE "handler"
<1>1. machine \in NextMachine /\ cpu \in Cpus /\ cpu.sp \in Address /\ IsHistory(history)
  BY TypesAre
<1>2. a \in Address /\ Up(a, 1) = cpu.sp
  BY <1>1, AddressUp
<1>3. /\ machine' = Noted(machine, a) /\ memory' = Write(machine, memory, a, v)
      /\ cpu' = [cpu EXCEPT !.sp = a, !.phase = phase]
      /\ history' = [history EXCEPT !.nmi.cells = Append(@, c)]
      /\ cpu.phase \in {"high", "pushing"}
  BY DEF Push, Stores, At
<1>4. phase \in Phases
  BY DEF Phases
<1>5. cpu'.sp = a /\ cpu'.phase = phase
  <2>1. cpu' = Moved(cpu, phase, a)
    BY <1>3 DEF Moved
  <2> HIDE DEF phase, a
  <2>2. QED
    BY <1>1, <1>2, <1>4, <2>1, StackChange
<1> HIDE DEF a, v, phase
<1>6. Fits(c, a) /\ c \in Marks
  BY <1>1, <1>2, LandedIs, LandedType
<1>7. c # Nowhere => Cell(machine, a, TRUE) = c /\ Cell(machine, a, FALSE) = c
  BY <1>1, <1>2, LandedIs
<1>8. c # Nowhere => memory' = Put(memory, c, v) /\ Read(machine, memory, a) = Held(memory, c)
  BY <1>3, <1>7 DEF Write, Read
<1> HIDE DEF c
<1>9. history'.nmi = [history.nmi EXCEPT !.cells = Append(history.nmi.cells, c)]
  BY <1>1, <1>3, <1>6, CellsChange
<1>10. QED
  BY <1>2, <1>3, <1>5, <1>6, <1>8, <1>9 DEF a, c, v, phase

LEMMA PushStep ==
  ASSUME Types, Pushing, Push
  PROVE  PushedBy(cpu'.phase, machine', cpu'.sp, memory', history'.nmi)
<1> DEFINE a == Up(cpu.sp, -1)
           c == Landed(machine, a)
           high == cpu.phase = "high"
           v == IF high THEN history.nmi.pc \div 256 ELSE history.nmi.pc % 256
           n == history.nmi
           g == history'.nmi
           read == Read(machine, memory, a)
<1>1. /\ a \in Address /\ Up(a, 1) = cpu.sp /\ Fits(c, a) /\ machine' = Noted(machine, a)
      /\ c # Nowhere => memory' = Put(memory, c, v) /\ read = Held(memory, c)
      /\ cpu'.sp = a /\ cpu'.phase = (IF high THEN "pushing" ELSE "handler")
      /\ g = [n EXCEPT !.cells = Append(n.cells, c)] /\ cpu.phase \in {"high", "pushing"}
  BY PushIs
<1>2. /\ machine \in NextMachine /\ Len(machine.writes) <= 2 /\ IsMemory(memory) /\ IsNmi(n)
  BY TypesAre
<1>3. PushedBy(cpu.phase, machine, cpu.sp, memory, n)
  BY <1>1 DEF Pushing, Serving
<1> HIDE DEF g, n, c, a
<1>4. /\ g.pc = n.pc /\ g.memory = n.memory /\ g.active = n.active /\ g.kept = n.kept
      /\ g.cells = Append(n.cells, c) /\ n.cells \in Seq(Marks)
  BY <1>1, <1>2, NmiFields DEF IsNmi
<1>5. machine'.paged = machine.paged /\ machine'.nmi_active = machine.nmi_active
  <2> DEFINE w == machine'.writes
  <2>1. machine' = [machine EXCEPT !.writes = w]
    BY <1>1, <1>2, NotedIs
  <2> HIDE DEF w
  <2>2. QED
    BY <1>2, <2>1 DEF NextMachine
<1>6. n.active /\ ~machine.paged =>
        /\ Len(machine'.writes) \in 1..2
        /\ machine'.writes[Len(machine'.writes)] = [address |-> a, old |-> read]
        /\ Len(machine.writes) > 0 =>
             Len(machine'.writes) = 2 /\ machine'.writes[1] = machine.writes[Len(machine.writes)]
  BY <1>1, <1>2, <1>3, NotedIs DEF PushedBy, a
<1> HIDE DEF read
<1>7. CASE high
  <2>1. n.cells = <<>> /\ n.memory = memory
    BY <1>3, <1>7 DEF PushedBy, NonePushed
  <2>2. Len(g.cells) = 1 /\ g.cells[1] = c
    BY <1>4, <2>1
  <2>3. ASSUME c # Nowhere
        PROVE  /\ memory' = First(g)
               /\ n.active /\ ~machine.paged =>
                    /\ Len(machine'.writes) > 0
                    /\ machine'.writes[Len(machine'.writes)] = Entry(a, g.memory, c)
    BY <1>1, <1>4, <1>6, <1>7, <2>1, <2>2, <2>3 DEF First, Entry, n
  <2>4. OnePushed(machine', a, memory', g)
    BY <1>1, <1>4, <1>5, <2>2, <2>3 DEF OnePushed
  <2>5. QED
    BY <1>1, <1>3, <1>4, <1>5, <1>7, <2>4 DEF PushedBy, g
<1>8. CASE ~high
  <2>1. OnePushed(machine, cpu.sp, memory, n) /\ cpu.phase = "pushing"
    BY <1>1, <1>3, <1>8 DEF PushedBy
  <2>2. Len(n.cells) = 1
    BY <2>1 DEF OnePushed
  <2>3. Len(g.cells) = 2 /\ g.cells[1] = n.cells[1] /\ g.cells[2] = c
    BY <1>4, <2>2
  <2>4. First(g) = First(n)
    BY <1>4, <2>3 DEF First
  <2>5. Fits(g.cells[1], Up(a, 1)) /\ Fits(g.cells[2], a)
    BY <1>1, <2>1, <2>3 DEF OnePushed
  <2>6. ASSUME g.cells[1] # Nowhere, c # Nowhere
        PROVE  /\ memory' = Both(g)
               /\ n.active /\ ~machine.paged =>
                    /\ Len(machine'.writes) = 2 /\ machine'.writes[1] = Entry(Up(a, 1), g.memory, g.cells[1])
                    /\ machine'.writes[2] = Entry(a, First(g), c)
    <3>1. memory = First(n)
      BY <2>1, <2>3, <2>6 DEF OnePushed
    <3>2. memory' = Put(memory, c, n.pc % 256) /\ read = Held(memory, c)
      BY <1>1, <1>8, <2>6 DEF n
    <3>3. memory' = Both(g)
      BY <1>4, <2>3, <2>4, <3>1, <3>2 DEF Both
    <3>4. n.active /\ ~machine.paged =>
            Len(machine.writes) > 0 /\ machine.writes[Len(machine.writes)] = Entry(cpu.sp, n.memory, n.cells[1])
      BY <2>1, <2>3, <2>6 DEF OnePushed
    <3>5. ASSUME n.active /\ ~machine.paged
          PROVE  /\ Len(machine'.writes) = 2 /\ machine'.writes[1] = Entry(Up(a, 1), g.memory, g.cells[1])
                 /\ machine'.writes[2] = Entry(a, First(g), c)
      <4>1. Len(machine'.writes) = 2 /\ machine'.writes[1] = machine.writes[Len(machine.writes)]
        BY <1>6, <3>4, <3>5
      <4>2. machine'.writes[2] = Entry(a, First(g), c)
        BY <1>6, <2>4, <3>1, <3>2, <3>5, <4>1 DEF Entry
      <4>3. machine'.writes[1] = Entry(Up(a, 1), g.memory, g.cells[1])
        BY <1>1, <1>4, <2>3, <3>4, <3>5, <4>1
      <4>4. QED
        BY <4>1, <4>2, <4>3
    <3>6. QED
      BY <3>3, <3>5
  <2>7. AllPushed(machine', a, memory', g)
    BY <1>4, <1>5, <2>3, <2>5, <2>6 DEF AllPushed
  <2>8. QED
    BY <1>1, <1>3, <1>4, <1>5, <1>8, <2>7 DEF PushedBy, g
<1>9. QED
  BY <1>7, <1>8

\* A fetch, by what the return of an NMI depends on.
LEMMA FetchIs ==
  ASSUME Types, NEW a, NEW opcode, Cycle(a, opcode)
  PROVE  LET m == Automap(machine, a)
             enters == EntersMultiface(m, a)
             returns == machine.ed /\ opcode = "retn"
         IN  /\ machine'.ed = (~machine.ed /\ opcode = "ed")
             /\ ~returns => machine'.retn_reads = machine.retn_reads
             /\ returns /\ machine.stackless => machine'.retn_reads = 2
             /\ ~enters => machine'.nr = machine.nr
             /\ ~enters /\ ~returns => machine'.stackless = machine.stackless
             /\ enters => /\ machine'.nr[194] = Read(m, memory, cpu.sp)
                          /\ machine'.nr[195] = Read(m, memory, Up(cpu.sp, 1))
             /\ enters /\ ~returns => machine'.stackless = (machine.stackless \/ Bit(m.nr[192], 3))
             /\ memory' = IF enters THEN Restored(m, memory, cpu.sp) ELSE memory
<1> DEFINE m == Automap(machine, a)
           enters == EntersMultiface(m, a)
           returns == machine.ed /\ opcode = "retn"
           entered == Acknowledged(m, memory, cpu.sp)
           n == IF enters THEN entered ELSE m
           o == Opcode(n, opcode)
<1>1. machine \in NextMachine /\ IsMemory(memory)
  BY TypesAre
<1>2. /\ m \in NextMachine /\ m.nr = machine.nr /\ m.ed = machine.ed
      /\ m.stackless = machine.stackless /\ m.retn_reads = machine.retn_reads
  BY <1>1, AutomapType, AutomapKeeps
<1>3. machine' = Exits(o, a) /\ memory' = IF enters THEN Restored(m, memory, cpu.sp) ELSE memory
  BY DEF Cycle
<1> HIDE DEF m, enters
<1>4. /\ entered \in NextMachine /\ entered.ed = m.ed /\ entered.retn_reads = m.retn_reads
      /\ entered.stackless = (m.stackless \/ Bit(m.nr[192], 3))
      /\ entered.nr[194] = Read(m, memory, cpu.sp)
      /\ entered.nr[195] = Read(m, memory, Up(cpu.sp, 1))
  BY <1>1, <1>2, AcknowledgedType, AcknowledgedKeeps, AcknowledgedRegisters
<1> HIDE DEF entered
<1>5. n \in NextMachine
  BY <1>2, <1>4
<1> DEFINE x == n
<1>6. /\ x.ed = machine.ed /\ x.retn_reads = machine.retn_reads
      /\ ~enters => x.nr = machine.nr /\ x.stackless = machine.stackless
      /\ enters => /\ x.stackless = (machine.stackless \/ Bit(m.nr[192], 3))
                   /\ x.nr[194] = Read(m, memory, cpu.sp)
                   /\ x.nr[195] = Read(m, memory, Up(cpu.sp, 1))
                   /\ (machine.stackless => x.stackless)
  BY <1>2, <1>4
<1> HIDE DEF n
<1>7. /\ o \in NextMachine /\ o.nr = n.nr /\ o.ed = (~n.ed /\ opcode = "ed")
      /\ ~(n.ed /\ opcode = "retn") => o.stackless = n.stackless /\ o.retn_reads = n.retn_reads
      /\ n.ed /\ opcode = "retn" /\ n.stackless => o.retn_reads = 2
  BY <1>5, OpcodeType, OpcodeKeeps
<1> HIDE DEF o
<1>8. /\ machine'.nr = o.nr /\ machine'.ed = o.ed /\ machine'.stackless = o.stackless
      /\ machine'.retn_reads = o.retn_reads
  BY <1>3, <1>7, ExitsKeeps
<1>9. QED
  BY <1>3, <1>6, <1>7, <1>8 DEF m, enters

\* The opcode of the handler: an NMI that is kept has its two bytes put back
\* where they were, and its return address in NR C2 and C3.
LEMMA HandlerIs ==
  ASSUME Types, Pushing, Handler, history'.nmi.kept
  PROVE  /\ memory' = history.nmi.memory
         /\ ReturnsBy("body", machine', history'.nmi)
<1> DEFINE m == Automap(machine, 102)
           enters == EntersMultiface(m, 102)
           sp == cpu.sp
           n == history.nmi
           c == n.cells[1]
           d == n.cells[2]
           x == Held(n.memory, c)
           y == Held(First(n), d)
<1>1. M1(102, "other") /\ Cycle(102, "other") /\ cpu.phase = "handler"
  BY DEF Handler, At, M1
<1>2. /\ machine \in NextMachine /\ IsMemory(memory) /\ sp \in Address /\ IsNmi(n)
      /\ n.pc \in Address
  BY <1>1, TypesAre DEF Serving
<1>3. PushedBy("handler", machine, sp, memory, n)
  BY <1>1 DEF Pushing, Serving
<1>4. m \in NextMachine /\ m.writes = machine.writes /\ m.nr = machine.nr /\ m.paged = machine.paged
  BY <1>2, AutomapType, AutomapKeeps
<1>5. enters /\ KeptNow(m) /\ history'.nmi = [n EXCEPT !.kept = KeptNow(m)]
  <2>1. enters
    <3>1. ~enters => history' = history
      BY <1>1, FetchHistory
    <3>2. ~history.nmi.kept
      BY <1>3 DEF PushedBy
    <3>3. QED
      BY <3>1, <3>2
  <2>2. history'.nmi = [n EXCEPT !.kept = KeptNow(m)]
    BY <1>1, <2>1, FetchHistory
  <2> DEFINE k == KeptNow(m)
  <2>3. [n EXCEPT !.kept = k].kept = k
    BY <1>2, NmiFields
  <2>4. QED
    BY <2>1, <2>2, <2>3
<1> HIDE DEF m
<1>6. ~machine.paged
  BY <1>4, <1>5 DEF EntersMultiface
<1>7. /\ n.active /\ Bit(m.nr[192], 3) /\ c # Nowhere /\ d # Nowhere
      /\ <<Landed(m, Up(sp, 1)), Landed(m, sp)>> = n.cells
  BY <1>5 DEF KeptNow
<1>8. /\ Fits(c, Up(sp, 1)) /\ Fits(d, sp) /\ memory = Both(n) /\ Len(m.writes) = 2
      /\ m.writes[1] = Entry(Up(sp, 1), n.memory, c) /\ m.writes[2] = Entry(sp, First(n), d)
  BY <1>3, <1>4, <1>6, <1>7 DEF PushedBy, AllPushed
<1> HIDE DEF n, enters
<1>9. Landed(m, Up(sp, 1)) = c /\ Landed(m, sp) = d
  BY <1>7
<1>10. /\ Cell(m, Up(sp, 1), TRUE) = c /\ Cell(m, Up(sp, 1), FALSE) = c
       /\ Cell(m, sp, TRUE) = d /\ Cell(m, sp, FALSE) = d
  <2>1. Up(sp, 1) \in Address
    BY <1>2, AddressUp
  <2>2. QED
    BY <1>2, <1>4, <1>7, <1>9, <2>1, LandedIs
<1>11. c # d
  BY <1>2, <1>7, <1>8, PlacesDiffer
<1> DEFINE high == n.pc \div 256
           low == n.pc % 256
<1>12. high \in Byte /\ low \in Byte /\ IsMemory(n.memory)
  BY <1>2, BytesOf DEF IsNmi
<1> HIDE DEF c, d, sp
<1>13. First(n) = Put(n.memory, c, high) /\ memory = Put(First(n), d, low)
  BY <1>8 DEF First, Both, c, d
<1> HIDE DEF high, low, x, y
<1>14. memory' = n.memory
  <2>1. Pushed(m, sp)
    BY <1>8 DEF Pushed, Entry
  <2>2. m.writes[1].old = x /\ m.writes[2].old = y
    BY <1>8 DEF Entry, x, y
  <2>3. Restored(m, memory, sp) = Put(Put(memory, d, y), c, x)
    BY <1>7, <1>10, <2>1, <2>2 DEF Restored, Write
  <2>4. Put(Put(memory, d, y), c, x) = n.memory
    BY <1>7, <1>11, <1>12, <1>13, PutBack DEF x, y
  <2>5. memory' = Restored(m, memory, sp)
    BY <1>1, <1>5, FetchIs DEF m, enters, sp
  <2>6. QED
    BY <2>3, <2>4, <2>5
<1>15. machine'.nr[194] = low /\ machine'.nr[195] = high
  <2>1. machine'.nr[194] = Read(m, memory, sp) /\ machine'.nr[195] = Read(m, memory, Up(sp, 1))
    BY <1>1, <1>5, FetchIs DEF m, enters, sp
  <2>2. machine'.nr[194] = Held(memory, d) /\ machine'.nr[195] = Held(memory, c)
    BY <1>10, <2>1 DEF Read
  <2>3. IsMemory(First(n))
    BY <1>12, <1>13, PutType
  <2>4. Held(memory, d) = low /\ Held(memory, c) = Held(First(n), c)
    BY <1>7, <1>11, <1>12, <1>13, <2>3, HeldPut
  <2>5. Held(First(n), c) = high
    BY <1>7, <1>12, <1>13, HeldPut
  <2>6. QED
    BY <2>2, <2>4, <2>5
<1>16. machine'.ed = FALSE /\ machine'.stackless
  <2>1. "other" # "ed" /\ "other" # "retn"
    OBVIOUS
  <2>2. machine'.ed = (~machine.ed /\ "other" = "ed")
    BY <1>1, FetchIs
  <2>3. machine'.stackless = (machine.stackless \/ Bit(m.nr[192], 3))
    BY <1>1, <1>5, <2>1, FetchIs DEF m, enters
  <2>4. QED
    BY <1>7, <2>1, <2>2, <2>3
<1>17. history'.nmi.pc = n.pc
  <2> DEFINE k == KeptNow(m)
  <2>1. [n EXCEPT !.kept = k].pc = n.pc
    BY <1>2, NmiFields
  <2>2. QED
    BY <1>5, <2>1 DEF n
<1>18. QED
  BY <1>14, <1>15, <1>16, <1>17 DEF ReturnsBy, Serving, high, low, n

NmiInvariant == Pushing /\ Returning

LEMMA NoneAfter ==
  ASSUME cpu'.phase \notin Serving, ~history'.nmi.kept
  PROVE  NmiInvariant'
BY DEF NmiInvariant, Pushing, Returning

\* A step that leaves alone what an NMI and its return depend on.
NmiKept ==
  /\ machine'.paged = machine.paged
  /\ machine.nmi_active => machine'.nmi_active /\ machine'.writes = machine.writes
  /\ machine'.ed = machine.ed /\ machine'.stackless = machine.stackless
  /\ machine'.retn_reads = machine.retn_reads
  /\ history'.nmi.kept => machine'.nr[194] = machine.nr[194] /\ machine'.nr[195] = machine.nr[195]
  /\ memory' = memory /\ cpu'.phase = cpu.phase /\ cpu'.sp = cpu.sp
  /\ history'.nmi.pc = history.nmi.pc /\ history'.nmi.memory = history.nmi.memory
  /\ history'.nmi.cells = history.nmi.cells /\ history'.nmi.active = history.nmi.active
  /\ history'.nmi.kept => history.nmi.kept

LEMMA NmiKeptStep ==
  ASSUME NmiInvariant, NmiKept
  PROVE  NmiInvariant'
<1>1. Pushing'
  <2>1. SUFFICES ASSUME cpu'.phase \in Serving
                 PROVE  PushedBy(cpu'.phase, machine', cpu'.sp, memory', history'.nmi)
    BY DEF Pushing
  <2>2. PushedBy(cpu.phase, machine, cpu.sp, memory, history.nmi)
    BY <2>1 DEF NmiKept, NmiInvariant, Pushing
  <2>3. ~history'.nmi.kept
    BY <2>2 DEF NmiKept, PushedBy
  <2>4. history.nmi.active => machine'.nmi_active /\ machine'.writes = machine.writes
    BY <2>2 DEF NmiKept, PushedBy
  <2>5. PushedBy(cpu.phase, machine', cpu.sp, memory, history'.nmi)
    BY <2>2, <2>3, <2>4, AllPushedSame DEF NmiKept
  <2>6. cpu'.phase = cpu.phase /\ cpu'.sp = cpu.sp /\ memory' = memory
    BY DEF NmiKept
  <2>7. QED
    BY <2>5, <2>6
<1>2. Returning'
  <2>1. SUFFICES ASSUME history'.nmi.kept
                 PROVE  ReturnsBy(cpu'.phase, machine', history'.nmi)
    BY DEF Returning
  <2>2. ReturnsBy(cpu.phase, machine, history.nmi)
    BY <2>1 DEF NmiKept, NmiInvariant, Returning
  <2>3. QED
    BY <2>1, <2>2 DEF NmiKept, ReturnsBy
<1>3. QED
  BY <1>1, <1>2 DEF NmiInvariant

\* A step in the body of an instruction, in the middle of a handler.
BodyKept ==
  /\ cpu.phase \in {"body", "held"} /\ cpu'.phase \in {"body", "held", "ready"}
  /\ machine'.ed = machine.ed /\ machine'.stackless = machine.stackless
  /\ machine'.nr = machine.nr /\ history'.nmi = history.nmi

LEMMA BodyKeptStep ==
  ASSUME NmiInvariant, BodyKept
  PROVE  NmiInvariant'
<1>1. cpu'.phase \notin Serving
  BY DEF BodyKept, Serving
<1>2. CASE ~history'.nmi.kept
  BY <1>1, <1>2, NoneAfter
<1>3. CASE history'.nmi.kept
  <2>1. ReturnsBy(cpu.phase, machine, history.nmi)
    BY <1>3 DEF BodyKept, NmiInvariant, Returning
  <2>2. ReturnsBy(cpu'.phase, machine', history'.nmi)
    BY <1>1, <2>1 DEF BodyKept, ReturnsBy
  <2>3. QED
    BY <1>1, <2>2 DEF NmiInvariant, Pushing, Returning
<1>4. QED
  BY <1>2, <1>3

LEMMA BodyStep ==
  ASSUME Types, NmiInvariant,
         \/ Finish \/ Hold \/ Release
         \/ \E sp \in use.stacks : LoadSp(sp)
         \/ \E b \in use.bytes : WriteByte(b[1], b[2])
         \/ \E port \in use.ins : InPort(port)
         \/ \E w \in use.outs : OutPort(w[1], w[2])
  PROVE  NmiInvariant'
<1>1. /\ machine \in NextMachine /\ Len(machine.writes) <= 2 /\ IsMemory(memory) /\ use \in Uses
      /\ IsHistory(history) /\ cpu \in Cpus
  BY TypesAre
<1>2. CASE Finish \/ Hold \/ Release
  <2>1. PICK x \in {"ready", "held", "body"} : cpu' = [cpu EXCEPT !.phase = x]
    BY <1>2 DEF Finish, Hold, Release, Goto
  <2>2. cpu'.phase = x
    BY <1>1, <2>1, IdlePhases
  <2>3. cpu.phase \in {"body", "held"} /\ machine' = machine /\ history' = history
    BY <1>2 DEF Finish, Hold, Release, Body, At
  <2>4. BodyKept
    BY <2>2, <2>3 DEF BodyKept
  <2>5. QED
    BY <2>4, BodyKeptStep
<1>3. ASSUME NEW sp \in use.stacks, LoadSp(sp)
      PROVE  NmiInvariant'
  <2>1. sp \in Address
    BY <1>1, InputsType
  <2>2. cpu' = [cpu EXCEPT !.sp = sp] /\ cpu.phase = "body" /\ machine' = machine /\ history' = history
    BY <1>3 DEF LoadSp, Body, At
  <2>3. cpu'.phase = cpu.phase
    BY <1>1, <2>1, <2>2, SpChange
  <2>4. BodyKept
    BY <2>2, <2>3 DEF BodyKept
  <2>5. QED
    BY <2>4, BodyKeptStep
<1>4. ASSUME NEW b \in use.bytes, WriteByte(b[1], b[2])
      PROVE  NmiInvariant'
  <2> DEFINE a == b[1]
  <2>1. a \in Address
    BY <1>1, InputsType
  <2>2. /\ machine' = Noted(machine, a) /\ history' = [history EXCEPT !.writes = @ + 1]
        /\ cpu' = cpu /\ cpu.phase = "body"
    BY <1>4 DEF WriteByte, Stores, Body, At
  <2> HIDE DEF a
  <2>3. machine' = [machine EXCEPT !.writes = machine'.writes]
    BY <1>1, <2>1, <2>2, NotedIs
  <2> DEFINE w == machine'.writes
  <2>4. machine' = [machine EXCEPT !.writes = w]
    BY <2>3
  <2> HIDE DEF w
  <2>5. machine'.ed = machine.ed /\ machine'.stackless = machine.stackless /\ machine'.nr = machine.nr
    BY <1>1, <2>4 DEF NextMachine
  <2>6. history'.nmi = history.nmi
    BY <1>1, <2>2, WritesChange
  <2>7. BodyKept
    BY <2>2, <2>5, <2>6 DEF BodyKept
  <2>8. QED
    BY <2>7, BodyKeptStep
<1>5. ASSUME NEW port \in use.ins, InPort(port)
      PROVE  NmiInvariant'
  <2>1. machine' = ReadPort(machine, port) /\ history' = history /\ cpu' = cpu /\ cpu.phase = "body"
    BY <1>5 DEF InPort, Body, At
  <2>2. machine'.ed = machine.ed /\ machine'.stackless = machine.stackless /\ machine'.nr = machine.nr
    BY <1>1, <2>1, ReadPortKeeps
  <2>3. BodyKept
    BY <2>1, <2>2 DEF BodyKept
  <2>4. QED
    BY <2>3, BodyKeptStep
<1>6. ASSUME NEW w \in use.outs, OutPort(w[1], w[2])
      PROVE  NmiInvariant'
  <2> DEFINE port == w[1]
             v == w[2]
             k == Outed(machine, port, v)
  <2>1. v \in Byte
    BY <1>1, InputsType
  <2>2. /\ machine' = WritePort(machine, port, v) /\ history' = [history EXCEPT !.legacy = k]
        /\ cpu' = cpu /\ cpu.phase = "body"
    BY <1>6 DEF OutPort, Body, At
  <2>3. k \in BOOLEAN
    BY Zenon DEF Outed
  <2> HIDE DEF port, v, k
  <2>4. machine'.ed = machine.ed /\ machine'.stackless = machine.stackless /\ machine'.nr = machine.nr
    BY <1>1, <2>1, <2>2, WritePortKeeps
  <2>5. history'.nmi = history.nmi
    BY <1>1, <2>2, <2>3, LegacyChange
  <2>6. BodyKept
    BY <2>2, <2>4, <2>5 DEF BodyKept
  <2>7. QED
    BY <2>6, BodyKeptStep
<1>7. QED
  BY <1>2, <1>3, <1>4, <1>5, <1>6


\* What a register and a load leave of the history of an NMI.
LEMMA RegisterHistory ==
  ASSUME Types, NEW r, NEW v, Register(r, v)
  PROVE  LET n == history.nmi
             g == history'.nmi
         IN  /\ Resets(r, v) => g = NoNmi
             /\ ~Resets(r, v) => /\ g.pc = n.pc /\ g.memory = n.memory
                                 /\ g.cells = n.cells /\ g.active = n.active
                                 /\ g.kept = (n.kept /\ r \notin {194, 195})
<1> DEFINE kept == history.nmi.kept /\ r \notin {194, 195}
           changed == [history.nmi EXCEPT !.kept = kept]
           nmi == IF Resets(r, v) THEN NoNmi ELSE changed
           k == Registered(r, v)
           h == [history EXCEPT !.legacy = k]
<1>1. IsHistory(history) /\ IsNmi(history.nmi)
  BY TypesAre
<1>2. kept \in BOOLEAN /\ k \in BOOLEAN
  BY Zenon DEF Registered, Resets
<1>3. IsNmi(nmi)
  BY <1>1, <1>2, NoNmiType DEF IsNmi
<1>4. history' = [history EXCEPT !.legacy = k, !.nmi = nmi]
  <2>1. history' = Recorded(r, v)
    BY DEF Register
  <2>2. QED
    BY <2>1, Zenon DEF Recorded
<1> HIDE DEF nmi, k
<1>5. IsHistory(h)
  BY <1>1, <1>2, LegacyChange
<1>6. history' = [h EXCEPT !.nmi = nmi]
  BY <1>4, Zenon
<1> HIDE DEF h
<1>7. history'.nmi = nmi
  BY <1>3, <1>5, <1>6, NmiChange
<1> HIDE DEF kept
<1>8. /\ changed.pc = history.nmi.pc /\ changed.memory = history.nmi.memory
      /\ changed.cells = history.nmi.cells /\ changed.active = history.nmi.active
      /\ changed.kept = kept
  BY <1>1, NmiFields
<1> HIDE DEF changed
<1>9. (Resets(r, v) => history'.nmi = NoNmi) /\ (~Resets(r, v) => history'.nmi = changed)
  BY <1>7 DEF nmi
<1>10. QED
  BY <1>8, <1>9 DEF kept

LEMMA LoadHistory ==
  ASSUME Types, Loads
  PROVE  history'.nmi = NoNmi /\ cpu'.phase = "ready"
<1>1. PICK f \in use.files, sp \in use.stacks :
        LoadSnx(f.value, f.flag, sp) \/ LoadNex(f.flag, f.value, sp)
  BY DEF Loads
<1>2. /\ history' \in {Loaded(TRUE), Loaded(FALSE)}
      /\ cpu' \in {Restarted(sp), Restarted(Up(sp, 2))}
  BY <1>1, LoadIs
<1>3. PICK l \in BOOLEAN : history' = Loaded(l)
  BY <1>2
<1> DEFINE h == [history EXCEPT !.legacy = l]
<1>4. IsHistory(h)
  BY TypesAre, LegacyChange
<1>5. history' = [h EXCEPT !.nmi = NoNmi]
  BY <1>3, Zenon DEF Loaded
<1> HIDE DEF h
<1>6. history'.nmi = NoNmi
  BY <1>4, <1>5, NmiChange, NoNmiType
<1>7. QED
  BY <1>2, <1>6 DEF Restarted

\* Others than the CPU.
LEMMA OthersNmi ==
  ASSUME Types, NmiInvariant,
         Latch \/ Loads \/ \E w \in use.registers : Register(w[1], w[2])
  PROVE  NmiInvariant'
<1>1. machine \in NextMachine /\ cpu \in Cpus /\ use \in Uses
  BY TypesAre
<1>2. CASE Latch
  <2> DEFINE nmi == cpu.nmi \/ cpu.phase # "held"
  <2>1. /\ machine' = [machine EXCEPT !.request = FALSE] /\ cpu' = [cpu EXCEPT !.nmi = nmi]
        /\ memory' = memory /\ history' = history
    BY <1>2 DEF Latch
  <2>2. nmi \in BOOLEAN
    BY TypesAre
  <2> HIDE DEF nmi
  <2>3. cpu'.phase = cpu.phase /\ cpu'.sp = cpu.sp
    BY <1>1, <2>1, <2>2, LatchChange
  <2>4. /\ machine'.paged = machine.paged /\ machine'.nmi_active = machine.nmi_active
        /\ machine'.writes = machine.writes /\ machine'.ed = machine.ed
        /\ machine'.stackless = machine.stackless /\ machine'.retn_reads = machine.retn_reads
        /\ machine'.nr = machine.nr
    BY <1>1, <2>1 DEF NextMachine
  <2>5. NmiKept
    BY <2>1, <2>3, <2>4 DEF NmiKept
  <2>6. QED
    BY <2>5, NmiKeptStep
<1>3. CASE Loads
  <2>1. history'.nmi = NoNmi /\ cpu'.phase = "ready"
    BY <1>3, LoadHistory
  <2>2. QED
    BY <2>1, NoNmiType, NoneAfter DEF Serving
<1>4. ASSUME NEW w \in use.registers, Register(w[1], w[2])
      PROVE  NmiInvariant'
  <2> DEFINE r == w[1]
             v == w[2]
  <2>1. r \in Byte /\ v \in Byte /\ Register(r, v)
    BY <1>1, <1>4, InputsType
  <2> HIDE DEF r, v
  <2>2. /\ machine' = WriteRegister(machine, r, v) /\ memory' = memory
        /\ cpu' = IF ~Resets(r, v) THEN cpu ELSE Restarted(IF Bit(v, 1) THEN 65535 ELSE cpu.sp)
    BY <2>1 DEF Register
  <2>3. CASE Resets(r, v)
    <3>1. history'.nmi = NoNmi
      BY <2>1, <2>3, RegisterHistory
    <3>2. cpu'.phase = "ready"
      BY <2>2, <2>3 DEF Restarted
    <3>3. QED
      BY <3>1, <3>2, NoNmiType, NoneAfter DEF Serving
  <2>4. CASE ~Resets(r, v)
    <3>1. /\ history'.nmi.pc = history.nmi.pc /\ history'.nmi.memory = history.nmi.memory
          /\ history'.nmi.cells = history.nmi.cells /\ history'.nmi.active = history.nmi.active
      BY <2>1, <2>4, RegisterHistory
    <3>2. history'.nmi.kept = (history.nmi.kept /\ r \notin {194, 195})
      BY <2>1, <2>4, RegisterHistory
    <3>3. /\ machine'.ed = machine.ed /\ machine'.stackless = machine.stackless
          /\ machine'.retn_reads = machine.retn_reads /\ machine'.paged = machine.paged
          /\ machine.nmi_active => machine'.nmi_active /\ machine'.writes = machine.writes
      BY <1>1, <2>1, <2>2, <2>4, RegisterKeeps
    <3>4. \A x \in {194, 195} : x # r => machine'.nr[x] = machine.nr[x]
      BY <1>1, <2>1, <2>2, <2>4, RegisterKeeps
    <3>5. cpu'.phase = cpu.phase /\ cpu'.sp = cpu.sp /\ memory' = memory
      BY <2>2, <2>4
    <3>6. /\ history'.nmi.kept => machine'.nr[194] = machine.nr[194] /\ machine'.nr[195] = machine.nr[195]
          /\ history'.nmi.kept => history.nmi.kept
      BY <3>2, <3>4
    <3>7. NmiKept
      BY <3>1, <3>3, <3>5, <3>6 DEF NmiKept
    <3>8. QED
      BY <3>7, NmiKeptStep
  <2>5. QED
    BY <2>3, <2>4
<1>5. QED
  BY <1>2, <1>3, <1>4

\* Only a RETN ends an NMI.
LEMMA FetchActive ==
  ASSUME Types, NEW a, NEW opcode, opcode # "retn", Cycle(a, opcode)
  PROVE  machine'.nmi_active = machine.nmi_active
<1> DEFINE m == Automap(machine, a)
           entered == Acknowledged(m, memory, cpu.sp)
           n == IF EntersMultiface(m, a) THEN entered ELSE m
           o == Opcode(n, opcode)
<1>1. machine \in NextMachine /\ IsMemory(memory)
  BY TypesAre
<1>2. m \in NextMachine /\ m.nmi_active = machine.nmi_active
  BY <1>1, AutomapType, AutomapKeeps
<1>3. machine' = Exits(o, a)
  BY DEF Cycle
<1> HIDE DEF m
<1>4. entered \in NextMachine /\ entered.nmi_active = m.nmi_active
  BY <1>1, <1>2, AcknowledgedType, AcknowledgedKeeps
<1> HIDE DEF entered
<1>5. n \in NextMachine /\ n.nmi_active = m.nmi_active
  BY <1>2, <1>4
<1> HIDE DEF n
<1>6. o \in NextMachine /\ o.nmi_active = n.nmi_active
  BY <1>5, OpcodeType, OpcodeKeeps
<1> HIDE DEF o
<1>7. machine'.nmi_active = o.nmi_active
  BY <1>3, <1>6, ExitsKeeps
<1>8. QED
  BY <1>2, <1>5, <1>6, <1>7

\* The Z80 takes the NMI: memory is what it will have to be, and nothing is
\* pushed yet.
LEMMA AcceptStep ==
  ASSUME Types, NEW pc \in use.fetches, Accept(pc)
  PROVE  NmiInvariant'
<1> DEFINE n == Accepted(pc, memory', machine.nmi_active)
           d == [cpu EXCEPT !.phase = "high"]
<1>1. /\ machine \in NextMachine /\ cpu \in Cpus /\ IsMemory(memory) /\ IsHistory(history)
      /\ pc \in Address /\ machine.nmi_active \in BOOLEAN
  BY TypesAre, InputsType DEF NextMachine
<1>2. IsMemory(memory') /\ (machine.nmi_active => machine'.nmi_active)
  <2>1. PICK opcode \in {"ed", "other"} : Cycle(pc, opcode)
    BY DEF Accept
  <2>2. QED
    BY <2>1, TypesAre, FetchType, FetchActive
<1>3. /\ IsNmi(n) /\ n.memory = memory' /\ n.active = machine.nmi_active
      /\ n.cells = <<>> /\ ~n.kept
  BY <1>1, <1>2, AcceptedChange
<1>4. history' = [history EXCEPT !.nmi = n]
  BY DEF Accept, Accepted
<1> HIDE DEF n
<1>5. history'.nmi = n
  BY <1>1, <1>3, <1>4, NmiChange
<1>6. cpu'.phase = "high"
  <2>1. d \in Cpus /\ d.phase = "high"
    BY <1>1, PhaseChange DEF Phases
  <2>2. cpu' = [d EXCEPT !.nmi = FALSE]
    BY DEF Accept
  <2> HIDE DEF d
  <2>3. QED
    BY <2>1, <2>2, LatchChange
<1>7. PushedBy("high", machine', cpu'.sp, memory', history'.nmi)
  BY <1>2, <1>3, <1>5 DEF PushedBy, NonePushed
<1>8. Pushing' /\ Returning'
  BY <1>3, <1>5, <1>6, <1>7 DEF Pushing, Returning
<1>9. QED
  BY <1>8 DEF NmiInvariant

\* A push, and the opcode of the handler.
LEMMA ServingStep ==
  ASSUME Types, NmiInvariant, Push \/ Handler
  PROVE  NmiInvariant'
<1>1. CASE Push
  <2>1. PushedBy(cpu'.phase, machine', cpu'.sp, memory', history'.nmi)
    BY <1>1, PushStep DEF NmiInvariant
  <2>2. ~history'.nmi.kept
    BY <2>1 DEF PushedBy
  <2>3. QED
    BY <2>1, <2>2 DEF NmiInvariant, Pushing, Returning
<1>2. CASE Handler
  <2>1. cpu'.phase = "body" /\ cpu'.phase \notin Serving
    BY <1>2, TypesAre, IdlePhases DEF Handler, Goto
  <2>2. CASE ~history'.nmi.kept
    BY <2>1, <2>2, NoneAfter
  <2>3. CASE history'.nmi.kept
    <3>1. ReturnsBy("body", machine', history'.nmi)
      BY <1>2, <2>3, HandlerIs DEF NmiInvariant
    <3>2. QED
      BY <2>1, <3>1 DEF NmiInvariant, Pushing, Returning
  <2>4. QED
    BY <2>2, <2>3
<1>3. QED
  BY <1>1, <1>2

\* Any other fetch.
LEMMA FetchStep ==
  ASSUME Types, NmiInvariant, NEW a, Fetch(a) \/ FetchSecond(a)
  PROVE  NmiInvariant'
<1> DEFINE m == Automap(machine, a)
           enters == EntersMultiface(m, a)
<1>1. PICK opcode, x :
        /\ M1(a, opcode) /\ Goto(x)
        /\ \/ cpu.phase = "ready" /\ opcode \in {"ed", "other"} /\ x = IF opcode = "ed" THEN "ed" ELSE "body"
           \/ cpu.phase = "ed" /\ opcode \in {"retn", "other"} /\ x = IF opcode = "retn" THEN "low" ELSE "body"
  BY DEF Fetch, FetchSecond, At
<1>2. cpu'.phase = x /\ x \notin Serving
  BY <1>1, TypesAre, IdlePhases DEF Goto
<1>3. ASSUME ~history'.nmi.kept
      PROVE  NmiInvariant'
  BY <1>2, <1>3, NoneAfter
<1>4. CASE enters
  <2> DEFINE k == KeptNow(m)
  <2>1. history'.nmi = [history.nmi EXCEPT !.kept = k]
    BY <1>1, <1>4, FetchHistory
  <2>2. ~k
    BY <1>1 DEF KeptNow
  <2> HIDE DEF k
  <2>3. ~history'.nmi.kept
    BY <2>1, <2>2, TypesAre, NmiFields
  <2>4. QED
    BY <1>3, <2>3
<1>5. CASE ~enters
  <2>1. history' = history
    BY <1>1, <1>5, FetchHistory
  <2>2. CASE history.nmi.kept
    <3>1. ReturnsBy(cpu.phase, machine, history.nmi)
      BY <2>2 DEF NmiInvariant, Returning
    <3>2. /\ machine.nr[194] = history.nmi.pc % 256 /\ machine.nr[195] = history.nmi.pc \div 256
          /\ machine.stackless /\ (machine.ed <=> cpu.phase = "ed")
      BY <1>1, <3>1 DEF ReturnsBy
    <3>3. /\ machine'.ed = (~machine.ed /\ opcode = "ed") /\ machine'.nr = machine.nr
          /\ machine.ed /\ opcode = "retn" => machine'.retn_reads = 2
          /\ ~(machine.ed /\ opcode = "retn") => machine'.stackless = machine.stackless
      BY <1>1, <1>5, <3>2, FetchIs DEF M1
    <3>4. x = "low" => machine'.retn_reads = 2
      BY <1>1, <3>2, <3>3
    <3>5. x # "low" => machine'.stackless
      BY <1>1, <3>2, <3>3
    <3>6. machine'.ed <=> x = "ed"
      BY <1>1, <3>2, <3>3
    <3>7. x \in {"low", "ed", "body"}
      BY <1>1
    <3>8. ReturnsBy(x, machine', history.nmi)
      BY <1>2, <3>2, <3>3, <3>4, <3>5, <3>6, <3>7 DEF ReturnsBy
    <3>9. QED
      BY <1>2, <2>1, <3>8 DEF NmiInvariant, Pushing, Returning
  <2>3. QED
    BY <1>3, <2>1, <2>2
<1>6. QED
  BY <1>4, <1>5

\* The two reads of RETN.
LEMMA PopStep ==
  ASSUME Types, NmiInvariant, Pop
  PROVE  NmiInvariant'
<1> DEFINE phase == IF cpu.phase = "low" THEN "popping" ELSE "ready"
           sp == Up(cpu.sp, 1)
           reads == IF machine.retn_reads > 0 THEN machine.retn_reads - 1 ELSE 0
<1>1. machine \in NextMachine /\ cpu \in Cpus /\ sp \in Address /\ IsHistory(history)
  BY TypesAre, AddressUp
<1>2. /\ machine' = [machine EXCEPT !.retn_reads = reads]
      /\ cpu' = [cpu EXCEPT !.sp = sp, !.phase = phase]
      /\ history' = IF cpu.phase = "popping" THEN [history EXCEPT !.nmi = NoNmi] ELSE history
      /\ cpu.phase \in {"low", "popping"}
  BY DEF Pop, At
<1>3. phase \in Phases /\ phase \notin Serving
  BY DEF Phases, Serving
<1>4. cpu'.phase = phase
  <2>1. cpu' = Moved(cpu, phase, sp)
    BY <1>2 DEF Moved
  <2> HIDE DEF phase, sp
  <2>2. QED
    BY <1>1, <1>3, <2>1, StackChange
<1>5. machine'.nr = machine.nr /\ machine'.retn_reads = reads
  <2> HIDE DEF reads
  <2>1. QED
    BY <1>1, <1>2 DEF NextMachine
<1>6. CASE cpu.phase = "popping"
  <2>1. history' = [history EXCEPT !.nmi = NoNmi]
    BY <1>2, <1>6
  <2>2. ~history'.nmi.kept
    BY <1>1, <2>1, NoNmiType, NmiChange
  <2>3. QED
    BY <1>3, <1>4, <2>2, NoneAfter
<1>7. CASE cpu.phase = "low"
  <2>1. history' = history /\ phase = "popping"
    BY <1>2, <1>7
  <2>2. CASE history.nmi.kept
    <3>1. ReturnsBy("low", machine, history.nmi)
      BY <1>7, <2>2 DEF NmiInvariant, Returning
    <3>2. machine.retn_reads = 2
      BY <3>1 DEF ReturnsBy
    <3>3. reads = 1
      BY <3>2
    <3> HIDE DEF reads, phase
    <3>4. ReturnsBy("popping", machine', history.nmi)
      BY <1>3, <1>5, <2>1, <3>1, <3>3 DEF ReturnsBy
    <3>5. QED
      BY <1>3, <1>4, <2>1, <3>4 DEF NmiInvariant, Pushing, Returning
  <2>3. CASE ~history.nmi.kept
    BY <1>3, <1>4, <2>1, <2>3, NoneAfter
  <2>4. QED
    BY <2>2, <2>3
<1>8. QED
  BY <1>2, <1>6, <1>7

LEMMA NmiStart ==
  ASSUME Init
  PROVE  NmiInvariant
<1>1. history.nmi = NoNmi /\ cpu.phase = "ready"
  BY DEF Init, Restarted
<1>2. QED
  BY <1>1, NoNmiType DEF NmiInvariant, Pushing, Returning, Serving

LEMMA NmiStep ==
  ASSUME Types, NmiInvariant, [Next]_vars
  PROVE  NmiInvariant'
<1>1. CASE UNCHANGED vars
  BY <1>1 DEF vars, NmiInvariant, Pushing, Returning
<1>2. CASE Next
  <2>1. CASE Latch \/ Loads \/ \E w \in use.registers : Register(w[1], w[2])
    BY <2>1, OthersNmi
  <2>2. CASE Push \/ Handler
    BY <2>2, ServingStep
  <2>3. CASE Pop
    BY <2>3, PopStep
  <2>4. CASE \/ Finish \/ Hold \/ Release
             \/ \E sp \in use.stacks : LoadSp(sp)
             \/ \E b \in use.bytes : WriteByte(b[1], b[2])
             \/ \E port \in use.ins : InPort(port)
             \/ \E w \in use.outs : OutPort(w[1], w[2])
    BY <2>4, BodyStep
  <2>5. ASSUME NEW a \in use.fetches, Fetch(a) \/ FetchSecond(a) \/ Accept(a)
        PROVE  NmiInvariant'
    BY <2>5, FetchStep, AcceptStep
  <2>6. QED
    BY <1>2, <2>1, <2>2, <2>3, <2>4, <2>5 DEF Next, Cpu
<1>3. QED
  BY <1>1, <1>2

\* Of the steps that come upon an NMI whose bytes are pushed, only the opcode
\* of its handler settles that it is kept.
LEMMA OnlyHandler ==
  ASSUME Types, NmiInvariant, Next, cpu.phase = "handler", history'.nmi.kept
  PROVE  Handler
<1>1. ~history.nmi.kept
  BY DEF NmiInvariant, Pushing, PushedBy, Serving
<1>2. ~Latch
  BY <1>1 DEF Latch
<1>3. ~Loads
  BY LoadHistory, NoNmiType
<1>4. ~ \E w \in use.registers : Register(w[1], w[2])
  <2>1. SUFFICES ASSUME NEW w \in use.registers, Register(w[1], w[2])
                 PROVE  FALSE
    OBVIOUS
  <2> DEFINE r == w[1]
             v == w[2]
  <2>2. Register(r, v)
    BY <2>1
  <2> HIDE DEF r, v
  <2>3. (Resets(r, v) => history'.nmi = NoNmi) /\ (~Resets(r, v) => (history'.nmi.kept => history.nmi.kept))
    BY <2>2, RegisterHistory
  <2>4. QED
    BY <1>1, <2>3, NoNmiType
<1>5. Cpu
  BY <1>3, <1>4 DEF Next
<1>6. QED
  BY <1>2, <1>5, Zenon DEF Cpu, Push, Pop, Finish, Hold, Release, Fetch, FetchSecond, Accept,
     WriteByte, LoadSp, InPort, OutPort, Body, At

\* A stackless NMI whose stack is ordinary memory, as the Multiface finds it,
\* leaves memory as it was before, and its RETN returns where the program was
\* interrupted, whatever its handler, the Copper and the stack did meanwhile.
THEOREM NmiReturnsRight == Spec => NmiReturns
<1>1. Init => NmiInvariant
  BY NmiStart
<1>2. Types /\ NmiInvariant /\ [Next]_vars => NmiInvariant'
  BY NmiStep
<1>3. Types /\ NmiInvariant /\ [Next]_vars
        => [cpu.phase = "handler" /\ history'.nmi.kept => memory' = history.nmi.memory]_vars
  <2>1. SUFFICES ASSUME Types, NmiInvariant, Next, cpu.phase = "handler", history'.nmi.kept
                 PROVE  memory' = history.nmi.memory
    OBVIOUS
  <2>2. Handler
    BY <2>1, OnlyHandler
  <2>3. QED
    BY <2>1, <2>2, HandlerIs DEF NmiInvariant
<1>4. NmiInvariant =>
        (history.nmi.kept => /\ cpu.phase = "low" => Popped = history.nmi.pc % 256
                             /\ cpu.phase = "popping" => Popped = history.nmi.pc \div 256)
  BY DEF NmiInvariant, Returning, ReturnsBy, Popped
<1>5. QED
  BY <1>1, <1>2, <1>3, <1>4, TypesHold, PTL DEF Spec, NmiReturns, MemoryKept, PcKept
=============================================================================
