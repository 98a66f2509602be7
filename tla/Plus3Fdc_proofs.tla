--------------------------- MODULE Plus3Fdc_proofs ---------------------------
(* Theorems about the controller of Plus3Fdc and their proofs.              *)
EXTENDS Plus3Fdc, SequenceTheorems, WellFoundedInduction, TLAPS

-----------------------------------------------------------------------------
(* Sets of positions, and bytes with a bit more or less.                    *)

LEMMA LeastIn ==
  ASSUME NEW S \in SUBSET Nat, S # {}
  PROVE  Min(S) \in S
<1> DEFINE Less == {ss \in Nat \X Nat : ss[1] < ss[2]}
<1>1. IsWellFoundedOn(Less, Nat)
  BY NatLessThanWellFounded, Zenon DEF OpToRel
<1>2. \A x, y \in S : x < y => <<x, y>> \in Less
  OBVIOUS
<1> HIDE DEF Less
<1>3. PICK x \in S : \A y \in S : ~(<<y, x>> \in Less)
  BY <1>1, WFMin
<1>4. \A y \in S : x <= y
  <2> TAKE y \in S
  <2>1. ~(y < x) /\ x \in Nat /\ y \in Nat
    BY <1>2, <1>3
  <2> QED BY <2>1
<1> QED BY <1>4 DEF Min

LEMMA ByteFacts == /\ Byte \subseteq Nat
                   /\ \A b \in Byte : b <= 255
                   /\ \A n \in Nat : n <= 255 => n \in Byte
BY DEF Byte

LEMMA BitFacts ==
  ASSUME NEW b \in Byte, NEW bit \in {Deleted, DataError}
  PROVE  With(b, bit) \in Byte /\ Without(b, bit) \in Byte
<1>1. b \in 0..255
  BY DEF Byte
<1>2. CASE bit = 64
  BY <1>1, <1>2 DEF With, Without, HasBit, Byte
<1>3. CASE bit = 32
  BY <1>1, <1>3 DEF With, Without, HasBit, Byte
<1> QED BY <1>2, <1>3 DEF Deleted, DataError

LEMMA ParameterCountType ==
  ASSUME NEW c
  PROVE  /\ ParameterCount(c) \in 0..8
         /\ c % 32 \in {WriteData, WriteDeleted} => ParameterCount(c) = 8
         /\ c % 32 = Seek => ParameterCount(c) = 2
<1> DEFINE operation == c % 32
           one   == operation \in {SenseDrive, Recalibrate, ReadId}
           two   == operation \in {Specify, Seek}
           five  == operation = FormatTrack
           eight == operation \in {ReadTrack, WriteData, ReadData, WriteDeleted,
                                   ReadDeleted} \cup Scans
<1>1. ParameterCount(c) = CASE one -> 1 [] two -> 2 [] five -> 5 [] eight -> 8
                            [] OTHER -> 0
  BY Zenon DEF ParameterCount
<1>2. operation = Seek => ~one /\ two /\ ~five /\ ~eight
  BY DEF SenseDrive, Recalibrate, ReadId, Specify, Seek, FormatTrack,
     ReadTrack, ReadData, ReadDeleted, WriteData, WriteDeleted, Scans
<1>3. operation \in {WriteData, WriteDeleted} => ~one /\ ~two /\ ~five /\ eight
  BY DEF SenseDrive, Recalibrate, ReadId, Specify, Seek, FormatTrack,
     ReadTrack, ReadData, ReadDeleted, WriteData, WriteDeleted, Scans
<1>4. /\ ~(one /\ two) /\ ~(one /\ five) /\ ~(one /\ eight)
      /\ ~(two /\ five) /\ ~(two /\ eight) /\ ~(five /\ eight)
  BY DEF SenseDrive, Recalibrate, ReadId, Specify, Seek, FormatTrack,
     ReadTrack, ReadData, ReadDeleted, WriteData, WriteDeleted, Scans
<1> HIDE DEF operation, one, two, five, eight
<1>5. two => ParameterCount(c) = 2
  BY <1>1, <1>4
<1>6. eight => ParameterCount(c) = 8
  BY <1>1, <1>4
<1>7. ParameterCount(c) \in {0, 1, 2, 5, 8}
  BY <1>1, Zenon
<1> QED BY <1>2, <1>3, <1>5, <1>6, <1>7 DEF operation

-----------------------------------------------------------------------------
(* The controller's registers and the disk.                                 *)

Fdc ==
  [command : Byte, params : [1..8 -> Byte], count : 0..8, expected : 0..8,
   results : Seq(Byte), last_drive : Drives, cylinder : [Drives -> Byte],
   id_index : [Drives -> [{0, 1} -> Byte]],
   mode : {"NONE", "READ", "WRITE"}, id : Id, eot : Byte, st1 : Byte, st2 : Byte,
   last_bad : Id, repeats : BOOLEAN,
   buffer : Seq(Byte), pos : 0..BufferSize, size : 0..BufferSize,
   since : -HalfRange..(HalfRange - 1), interrupt_pending : BOOLEAN]

\* Parameters that are still to come are those of the command.
Counted(f) == /\ f.count <= f.expected
              /\ f.count < f.expected => f.expected = ParameterCount(f.command)
Typed(f) == f \in Fdc /\ Counted(f) /\ Len(f.results) <= 7

\* A transfer is short of the end of its sector.
Within(f) == /\ IF f.mode = "NONE" THEN f.pos = 0 ELSE f.pos < f.size
             /\ f.mode = "WRITE" => Len(f.buffer) = f.pos

IsDisk(d) ==
  /\ \E T : d \in [inserted : BOOLEAN, dirty : BOOLEAN, read_only : BOOLEAN,
                   tracks : T]
  /\ IsImage(d.tracks)

LEMMA SizeFacts ==
  /\ MinSize \in Nat /\ MinSize > 0 /\ BufferSize \in Nat /\ BufferSize >= MinSize
  /\ ByteTicks \in Nat /\ ByteTicks > 0 /\ HalfRange \in Nat /\ HalfRange > ByteTicks
BY SizeAssumption

LEMMA FdcFields ==
  ASSUME NEW f \in Fdc
  PROVE  /\ f.command \in Byte /\ f.params \in [1..8 -> Byte]
         /\ f.count \in 0..8 /\ f.expected \in 0..8 /\ f.results \in Seq(Byte)
         /\ f.last_drive \in Drives /\ f.cylinder \in [Drives -> Byte]
         /\ f.id_index \in [Drives -> [{0, 1} -> Byte]]
         /\ f.mode \in {"NONE", "READ", "WRITE"} /\ f.id \in Id /\ f.last_bad \in Id
         /\ f.eot \in Byte /\ f.st1 \in Byte /\ f.st2 \in Byte
         /\ f.repeats \in BOOLEAN /\ f.interrupt_pending \in BOOLEAN
         /\ f.buffer \in Seq(Byte) /\ f.pos \in 0..BufferSize
         /\ f.size \in 0..BufferSize /\ f.since \in -HalfRange..(HalfRange - 1)
BY Zenon DEF Fdc

LEMMA IdFields ==
  ASSUME NEW id \in Id
  PROVE  id.c \in Byte /\ id.h \in Byte /\ id.r \in Byte /\ id.n \in Byte
BY DEF Id

LEMMA UnitFacts ==
  ASSUME NEW p \in Byte
  PROVE  /\ DriveOf(p) \in Drives /\ HeadOf(p) \in {0, 1}
         /\ HeadOf(p) = 0 => p + 4 \in Byte /\ HeadOf(p + 4) = 1
BY DEF DriveOf, HeadOf, Drives, Byte

LEMMA Where ==
  ASSUME NEW f \in Fdc
  PROVE  /\ HeadIn(f) \in {0, 1} /\ CylinderOf(f) \in Byte
         /\ HeadDrive(f) \in 0..7 /\ f.params[1] \in Byte
         /\ f.id_index[f.last_drive][HeadIn(f)] \in Byte
<1>1. /\ f.params \in [1..8 -> Byte] /\ f.last_drive \in Drives
      /\ f.cylinder \in [Drives -> Byte] /\ f.id_index \in [Drives -> [{0, 1} -> Byte]]
  BY FdcFields
<1>2. f.params[1] \in Byte
  BY <1>1
<1>3. HeadIn(f) \in {0, 1}
  BY <1>2, UnitFacts DEF HeadIn
<1>4. f.last_drive \in 0..3
  BY <1>1 DEF Drives
<1>5. HeadDrive(f) \in 0..7
  BY <1>3, <1>4 DEF HeadDrive
<1> QED BY <1>1, <1>2, <1>3, <1>5 DEF CylinderOf

LEMMA SectorFields ==
  ASSUME NEW s \in Sectors
  PROVE  /\ s.c \in Byte /\ s.h \in Byte /\ s.r \in Byte /\ s.n \in Byte
         /\ s.st1 \in Byte /\ s.st2 \in Byte /\ s.data \in Seq(Byte)
         /\ IdOf(s) \in Id
         /\ IdOf(s).c = s.c /\ IdOf(s).h = s.h /\ IdOf(s).r = s.r /\ IdOf(s).n = s.n
<1>1. /\ s.c \in Byte /\ s.h \in Byte /\ s.r \in Byte /\ s.n \in Byte
      /\ s.st1 \in Byte /\ s.st2 \in Byte /\ s.data \in Seq(Byte)
  BY Zenon DEF Sectors
<1> QED BY <1>1 DEF IdOf, Id

LEMMA TrackType ==
  ASSUME NEW d, IsDisk(d), NEW drive, NEW cylinder, NEW head
  PROVE  LET t == Track(d, drive, cylinder, head)
         IN  t \in Seq(Sectors) /\ Len(t) \in 0..MaxSectors
<1> DEFINE place == <<cylinder, head>>
           t == Track(d, drive, cylinder, head)
<1>1. t = IF DriveReady(d, drive) /\ place \in DOMAIN d.tracks
          THEN d.tracks[place] ELSE <<>>
  BY Zenon DEF Track
<1>2. place \in DOMAIN d.tracks
        => d.tracks[place] \in Seq(Sectors) /\ Len(d.tracks[place]) <= MaxSectors
  BY DEF IsDisk, IsImage
<1>3. <<>> \in Seq(Sectors) /\ Len(<<>>) = 0
  OBVIOUS
<1> HIDE DEF t, place
<1>4. t \in Seq(Sectors) /\ Len(t) <= MaxSectors
  BY <1>1, <1>2, <1>3 DEF MaxSectors
<1> DEFINE n == Len(t)
<1>5. n \in Nat /\ n <= 29
  BY <1>4 DEF MaxSectors
<1> HIDE DEF n
<1>6. n \in 0..29
  BY <1>5
<1> QED BY <1>4, <1>6 DEF t, n, MaxSectors

(* Both searches of a track give a place on it, or 0.                       *)
LEMMA NumberedType ==
  ASSUME NEW t \in Seq(Sectors), NEW id
  PROVE  LET i == Numbered(t, id)
         IN  /\ i \in 0..Len(t)
             /\ i # 0 => /\ i \in DOMAIN t /\ t[i].r = id.r
                         /\ id.n \in {t[i].n, 255}
<1> DEFINE same == {i \in DOMAIN t : t[i].r = id.r /\ id.n \in {t[i].n, 255}}
<1>1. Numbered(t, id) = IF same = {} THEN 0 ELSE Min(same)
  BY Zenon DEF Numbered
<1>2. DOMAIN t = 1..Len(t) /\ Len(t) \in Nat
  OBVIOUS
<1>3. same \in SUBSET Nat
  BY <1>2
<1>4. same # {} => Min(same) \in same
  BY <1>3, LeastIn
<1>5. \A i \in same : i \in DOMAIN t /\ t[i].r = id.r /\ id.n \in {t[i].n, 255}
  OBVIOUS
<1> HIDE DEF same
<1> QED BY <1>1, <1>2, <1>4, <1>5

LEMMA FoundType ==
  ASSUME NEW f \in Fdc, NEW d, IsDisk(d)
  PROVE  LET t == TrackOf(f, d)
             i == Found(f, d)
         IN  /\ i \in 0..Len(t)
             /\ i # 0 => i \in DOMAIN t /\ IdOf(t[i]) = f.id
<1> DEFINE t == TrackOf(f, d)
           from == Position(f, f.last_drive, HeadIn(f), t)
           At(offset) == ((from + offset) % Len(t)) + 1
           hits == {o \in 0..(Len(t) - 1) : IdOf(t[At(o)]) = f.id}
<1>1. Found(f, d) = IF hits = {} THEN 0 ELSE At(Min(hits))
  BY Zenon DEF Found
<1>2. t \in Seq(Sectors) /\ Len(t) \in Nat /\ DOMAIN t = 1..Len(t)
  BY TrackType DEF TrackOf
<1>3. from \in Nat
  BY Where, ByteFacts DEF Position
<1> HIDE DEF t, from
<1>4. hits \in SUBSET Nat /\ (hits # {} => Min(hits) \in hits)
  <2>1. hits \in SUBSET Nat
    BY <1>2
  <2> HIDE DEF hits
  <2> QED BY <2>1, LeastIn
<1>5. \A o \in hits : /\ o \in Nat /\ Len(t) > 0
                      /\ At(o) \in 1..Len(t) /\ IdOf(t[At(o)]) = f.id
  <2> TAKE o \in hits
  <2>1. o \in 0..(Len(t) - 1) /\ IdOf(t[At(o)]) = f.id
    OBVIOUS
  <2>2. o \in Nat /\ Len(t) > 0 /\ from + o \in Nat
    BY <1>2, <1>3, <2>1
  <2>3. (from + o) % Len(t) \in 0..(Len(t) - 1)
    BY <1>2, <2>2
  <2> QED BY <1>2, <2>1, <2>2, <2>3
<1> HIDE DEF hits, At
<1>6. CASE hits = {}
  BY <1>1, <1>2, <1>6 DEF t
<1>7. CASE hits # {}
  <2>1. Min(hits) \in hits /\ Found(f, d) = At(Min(hits))
    BY <1>1, <1>4, <1>7
  <2>2. Found(f, d) \in 1..Len(t) /\ IdOf(t[Found(f, d)]) = f.id
    BY <1>5, <2>1
  <2> QED BY <1>2, <2>2 DEF t
<1> QED BY <1>6, <1>7

-----------------------------------------------------------------------------
(* The end of a command, and the start of a sector.                         *)

\* What the end of a command and the search for a sector leave alone.
SameCommand(f, e) ==
  /\ e.command = f.command /\ e.params = f.params /\ e.eot = f.eot
  /\ e.last_drive = f.last_drive /\ e.cylinder = f.cylinder
  /\ e.id = f.id

LEMMA SetResultsType ==
  ASSUME NEW f \in Fdc, NEW results \in Seq(Byte), Len(results) <= 7
  PROVE  LET e == SetResults(f, results)
         IN  /\ Typed(e) /\ Within(e) /\ e.mode = "NONE" /\ e.results = results
             /\ SameCommand(f, e) /\ e.id_index = f.id_index
             /\ e.since = f.since
<1> DEFINE e == [f EXCEPT !.results = results, !.count = 0, !.expected = 0,
                          !.mode = "NONE", !.buffer = <<>>, !.pos = 0, !.size = 0]
<1>1. /\ 0 \in 0..8 /\ 0 \in 0..BufferSize /\ <<>> \in Seq(Byte)
      /\ "NONE" \in {"NONE", "READ", "WRITE"}
  BY SizeFacts
<1>2. SetResults(f, results) = e
  BY Zenon DEF SetResults
<1>3. e \in Fdc
  BY <1>1, Zenon DEF Fdc
<1>4. /\ e.mode = "NONE" /\ e.results = results /\ e.pos = 0
      /\ e.count = 0 /\ e.expected = 0
      /\ SameCommand(f, e) /\ e.id_index = f.id_index /\ e.since = f.since
  BY DEF Fdc, SameCommand
<1> HIDE DEF e
<1>5. Counted(e) /\ Within(e)
  BY <1>4 DEF Counted, Within
<1> QED BY <1>2, <1>3, <1>4, <1>5 DEF Typed

LEMMA FinishDataType ==
  ASSUME NEW f \in Fdc, NEW st0 \in Byte, NEW st1 \in Byte, NEW st2 \in Byte
  PROVE  LET e == FinishData(f, st0, st1, st2)
         IN  /\ Typed(e) /\ Within(e) /\ e.mode = "NONE"
             /\ Len(e.results) = 7 /\ e.results[2] = st1 /\ e.results[3] = st2
             /\ SameCommand(f, e) /\ e.id_index = f.id_index
             /\ e.since = f.since
<1> DEFINE results == <<st0, st1, st2, f.id.c, f.id.h, f.id.r, f.id.n>>
<1>1. f.id \in Id
  BY FdcFields
<1>2. /\ results \in Seq(Byte) /\ Len(results) = 7
      /\ results[2] = st1 /\ results[3] = st2
  BY <1>1, IdFields
<1>3. FinishData(f, st0, st1, st2) = SetResults(f, results)
  BY Zenon DEF FinishData
<1> HIDE DEF results
<1> DEFINE e == SetResults(f, results)
<1>4. /\ Typed(e) /\ Within(e) /\ e.mode = "NONE" /\ e.results = results
      /\ SameCommand(f, e) /\ e.id_index = f.id_index /\ e.since = f.since
  <2>1. results \in Seq(Byte) /\ Len(results) <= 7
    BY <1>2
  <2> QED BY <2>1, SetResultsType, Zenon
<1> HIDE DEF e
<1>5. FinishData(f, st0, st1, st2) = e
  BY <1>3 DEF e
<1> QED BY <1>2, <1>4, <1>5

\* The results of a command that reached no data.
LEMMA ErrorBytes ==
  ASSUME NEW f \in Fdc
  PROVE  /\ 72 + HeadDrive(f) \in Byte /\ 64 + HeadDrive(f) \in Byte
         /\ HeadDrive(f) \in Byte
         /\ 0 \in Byte /\ 2 \in Byte /\ 4 \in Byte /\ 128 \in Byte
<1>1. HeadDrive(f) \in 0..7
  BY Where
<1> QED BY <1>1 DEF Byte

Ends(f, e) ==
  /\ Typed(e) /\ Within(e) /\ e.mode = "NONE" /\ Len(e.results) = 7
  /\ SameCommand(f, e) /\ e.since = f.since

LEMMA ErrorType ==
  ASSUME NEW f \in Fdc
  PROVE  /\ Ends(f, NotReady(f)) /\ Ends(f, NoData(f)) /\ Ends(f, EndOfCylinder(f))
<1>1. /\ 72 + HeadDrive(f) \in Byte /\ 64 + HeadDrive(f) \in Byte
      /\ 0 \in Byte /\ 4 \in Byte /\ 128 \in Byte
  BY ErrorBytes
<1>2. Ends(f, NotReady(f))
  BY <1>1, FinishDataType DEF NotReady, Ends
<1>3. Ends(f, NoData(f))
  BY <1>1, FinishDataType DEF NoData, Ends
<1>4. Ends(f, EndOfCylinder(f))
  BY <1>1, FinishDataType DEF EndOfCylinder, Ends
<1> QED BY <1>2, <1>3, <1>4

(* The head stands behind the sector found.                                 *)
LEMMA PassedType ==
  ASSUME NEW f \in Fdc, NEW d, IsDisk(d), Found(f, d) # 0
  PROVE  LET e == Passed(f, d)
         IN  /\ e \in Fdc /\ SameCommand(f, e)
             /\ e.count = f.count /\ e.expected = f.expected /\ e.results = f.results
             /\ e.mode = f.mode /\ e.pos = f.pos /\ e.size = f.size
             /\ e.since = f.since /\ e.last_bad = f.last_bad
             /\ e.buffer = f.buffer
             /\ e.id_index[f.last_drive][HeadIn(f)]
                  = Found(f, d) % Len(TrackOf(f, d))
<1> DEFINE n == Found(f, d) % Len(TrackOf(f, d))
           x == [f.id_index EXCEPT ![f.last_drive][HeadIn(f)] = n]
           e == [f EXCEPT !.id_index = x]
<1>1. n \in Byte
  <2> DEFINE l == Len(TrackOf(f, d))
             i == Found(f, d)
  <2>1. l \in 0..29
    BY TrackType DEF TrackOf, MaxSectors
  <2>2. i \in 0..l
    BY FoundType
  <2>3. i # 0
    OBVIOUS
  <2> HIDE DEF l, i
  <2>4. i % l \in 0..255
    BY <2>1, <2>2, <2>3
  <2> QED BY <2>4 DEF l, i, Byte
<1>2. Passed(f, d) = e
  BY Zenon DEF Passed
<1> HIDE DEF n
<1>3. /\ f.id_index \in [Drives -> [{0, 1} -> Byte]] /\ f.last_drive \in Drives
      /\ HeadIn(f) \in {0, 1}
  BY FdcFields, Where
<1>4. /\ x \in [Drives -> [{0, 1} -> Byte]]
      /\ x[f.last_drive][HeadIn(f)] = n
  BY <1>1, <1>3
<1> HIDE DEF x
<1>5. e \in Fdc
  BY <1>4, Zenon DEF Fdc
<1>6. /\ SameCommand(f, e) /\ e.id_index = x
      /\ e.count = f.count /\ e.expected = f.expected /\ e.results = f.results
      /\ e.mode = f.mode /\ e.pos = f.pos /\ e.size = f.size
      /\ e.since = f.since /\ e.last_bad = f.last_bad /\ e.buffer = f.buffer
  BY DEF Fdc, SameCommand
<1> HIDE DEF e
<1> QED BY <1>2, <1>4, <1>5, <1>6 DEF n

LEMMA VariedType ==
  ASSUME NEW data \in Seq(Byte), Len(data) > 0
  PROVE  Varied(data) \in Seq(Byte) /\ Len(Varied(data)) = Len(data)
<1> DEFINE b == (data[1] + 128) % 256
<1>1. b \in Byte
  <2> DEFINE c == data[1]
  <2>1. c \in Byte
    BY ElementOfSeq
  <2> HIDE DEF c
  <2>2. (c + 128) % 256 \in 0..255
    BY <2>1 DEF Byte
  <2> QED BY <2>2 DEF Byte, c
<1>2. Varied(data) = [data EXCEPT ![1] = b]
  BY Zenon DEF Varied
<1> HIDE DEF b
<1> QED BY <1>1, <1>2

(* A sector that is read: its data, its marks, from its first byte on.      *)
LEMMA StartReadType ==
  ASSUME NEW f, Typed(f), NEW s \in Sectors, Len(s.data) \in 1..BufferSize
  PROVE  LET e == StartRead(f, s)
         IN  /\ Typed(e) /\ Within(e) /\ e.mode = "READ" /\ SameCommand(f, e)
             /\ e.since = -ByteTicks /\ e.st1 = s.st1 /\ e.pos = 0
             /\ e.id_index = f.id_index
             /\ \/ e.buffer = s.data
                \/ IsWeak(s) /\ e.repeats /\ e.buffer = Varied(s.data)
<1> DEFINE again == f.last_bad = f.id
           seen == IF IsWeak(s)
                   THEN [f EXCEPT !.last_bad = f.id, !.repeats = again] ELSE f
           buffer == IF IsWeak(s) /\ again THEN Varied(s.data) ELSE s.data
           mark == MarkSeen(f, s)
           n == Len(s.data)
           since == -ByteTicks
           e == [seen EXCEPT !.buffer = buffer, !.st1 = s.st1, !.st2 = mark,
                             !.pos = 0, !.size = n, !.since = since, !.mode = "READ"]
<1>1. f \in Fdc
  BY DEF Typed
<1>2. again \in BOOLEAN /\ f.id \in Id
  BY <1>1, FdcFields
<1>3. StartRead(f, s) = e
  BY Zenon DEF StartRead
<1>4. buffer \in Seq(Byte)
  BY SectorFields, VariedType
<1>5. mark \in Byte /\ s.st1 \in Byte
  BY SectorFields, BitFacts DEF MarkSeen
<1>6. /\ n \in 0..BufferSize /\ n > 0 /\ since \in -HalfRange..(HalfRange - 1)
      /\ 0 \in 0..BufferSize /\ "READ" \in {"NONE", "READ", "WRITE"}
  BY SizeFacts
<1>7. \/ buffer = s.data
      \/ IsWeak(s) /\ again /\ buffer = Varied(s.data)
  OBVIOUS
<1> HIDE DEF again
<1>8. /\ seen \in Fdc /\ SameCommand(f, seen) /\ seen.count = f.count
      /\ seen.expected = f.expected /\ seen.results = f.results
      /\ IsWeak(s) => seen.repeats = again
      /\ seen.id_index = f.id_index
  <2> DEFINE w == [f EXCEPT !.last_bad = f.id, !.repeats = again]
  <2>1. w \in Fdc
    BY <1>1, <1>2, Zenon DEF Fdc
  <2>2. /\ SameCommand(f, w) /\ w.count = f.count /\ w.expected = f.expected
        /\ w.results = f.results /\ w.repeats = again /\ w.id_index = f.id_index
    BY <1>1 DEF Fdc, SameCommand
  <2>3. SameCommand(f, f)
    BY DEF SameCommand
  <2> HIDE DEF w
  <2>4. seen = IF IsWeak(s) THEN w ELSE f
    BY DEF w
  <2> QED BY <1>1, <2>1, <2>2, <2>3, <2>4
<1> HIDE DEF seen, buffer, mark, n, since
<1>9. e \in Fdc
  BY <1>4, <1>5, <1>6, <1>8, Zenon DEF Fdc
<1>10. /\ SameCommand(seen, e) /\ e.count = seen.count
       /\ e.expected = seen.expected /\ e.results = seen.results
       /\ e.repeats = seen.repeats /\ e.id_index = seen.id_index
       /\ e.buffer = buffer /\ e.st1 = s.st1 /\ e.pos = 0 /\ e.size = n
       /\ e.since = since /\ e.mode = "READ"
  BY <1>8 DEF Fdc, SameCommand
<1> HIDE DEF e
<1>11. Typed(e)
  BY <1>8, <1>9, <1>10 DEF Typed, Counted, SameCommand
<1>12. Within(e)
  BY <1>6, <1>10 DEF Within
<1>13. SameCommand(f, e)
  BY <1>8, <1>10 DEF SameCommand
<1>14. \/ e.buffer = s.data
       \/ IsWeak(s) /\ e.repeats /\ e.buffer = Varied(s.data)
  BY <1>7, <1>8, <1>10
<1> QED BY <1>3, <1>8, <1>10, <1>11, <1>12, <1>13, <1>14 DEF since

-----------------------------------------------------------------------------
(* One sector after another.                                                *)

\* Registers that no search, and no step to another sector, has to do with.
SameTransfer(f, e) ==
  /\ e.count = f.count /\ e.expected = f.expected /\ e.results = f.results
  /\ e.mode = f.mode /\ e.pos = f.pos /\ e.size = f.size
  /\ e.buffer = f.buffer /\ e.since = f.since

Begins(f, e, mode) ==
  /\ Typed(e) /\ Within(e) /\ SameCommand(f, e)
  /\ e.mode = mode /\ e.since = -ByteTicks /\ e.pos = 0

LEMMA PassedTyped ==
  ASSUME NEW f, Typed(f), NEW d, IsDisk(d), Found(f, d) # 0
  PROVE  /\ Typed(Passed(f, d)) /\ SameTransfer(f, Passed(f, d))
         /\ SameCommand(f, Passed(f, d))
<1>1. f \in Fdc
  BY DEF Typed
<1> QED BY <1>1, PassedType DEF Typed, Counted, SameTransfer, SameCommand

LEMMA SameSteps ==
  ASSUME NEW f, NEW g, SameCommand(f, g), g.since = f.since
  PROVE  /\ \A e : Ends(g, e) => Ends(f, e)
         /\ \A e, m : Begins(g, e, m) => Begins(f, e, m)
BY DEF SameCommand, Ends, Begins

LEMMA LoadReadSectorType ==
  ASSUME NEW f, Typed(f), NEW d, IsDisk(d)
  PROVE  \/ Ends(f, LoadReadSector(f, d))
         \/ Begins(f, LoadReadSector(f, d), "READ")
<1> DEFINE t == TrackOf(f, d)
           i == Numbered(t, f.id)
           p == Passed(f, d)
<1>1. f \in Fdc
  BY DEF Typed
<1>2. CASE ~DriveReady(d, f.last_drive)
  BY <1>1, <1>2, ErrorType DEF LoadReadSector
<1>3. CASE DriveReady(d, f.last_drive) /\ Found(f, d) = 0
  BY <1>1, <1>3, ErrorType DEF LoadReadSector
<1>4. CASE DriveReady(d, f.last_drive) /\ Found(f, d) # 0
  <2>1. /\ Typed(p) /\ SameCommand(f, p) /\ p.since = f.since
    BY <1>4, PassedTyped DEF SameTransfer
  <2>2. LoadReadSector(f, d) = IF ~Readable(t, f.id) THEN NoData(p)
                               ELSE StartRead(p, t[i])
    BY <1>4, Zenon DEF LoadReadSector
  <2> HIDE DEF p
  <2>3. Ends(f, NoData(p))
    BY <2>1, ErrorType, SameSteps DEF Typed
  <2>4. ASSUME Readable(t, f.id) PROVE Begins(f, StartRead(p, t[i]), "READ")
    <3>1. i # 0 /\ Len(t[i].data) \in 1..BufferSize
      BY <2>4 DEF Readable
    <3>2. t \in Seq(Sectors)
      BY TrackType DEF TrackOf
    <3> DEFINE s == t[i]
    <3>3. i \in 1..Len(t)
      BY <3>1, <3>2, NumberedType
    <3>4. s \in Sectors
      BY <3>2, <3>3, ElementOfSeq
    <3>5. Len(s.data) \in 1..BufferSize
      BY <3>1
    <3> HIDE DEF s
    <3>6. Begins(p, StartRead(p, s), "READ")
      BY <2>1, <3>4, <3>5, StartReadType DEF Begins
    <3> QED BY <2>1, <3>6, SameSteps DEF s
  <2> QED BY <2>2, <2>3, <2>4
<1> QED BY <1>2, <1>3, <1>4

(* The number of the sector after this one: one more, or 1 on the other     *)
(* side.                                                                    *)
LEMMA NextIdType ==
  ASSUME NEW f, Typed(f), MoreSectors(f)
  PROVE  LET e == NextId(f)
         IN  /\ Typed(e) /\ SameTransfer(f, e)
             /\ e.command = f.command /\ e.eot = f.eot /\ e.id_index = f.id_index
             /\ e.last_drive = f.last_drive /\ e.cylinder = f.cylinder
             /\ e.params[4] = f.params[4]
             /\ \/ /\ f.id.r < f.eot /\ e.params = f.params
                   /\ e.id = [f.id EXCEPT !.r = f.id.r + 1]
                \/ /\ ToSideOne(f) /\ HeadIn(f) = 0 /\ HeadIn(e) = 1
                   /\ e.id.r = 1
<1>1. f \in Fdc
  BY DEF Typed
<1>2. f.id \in Id /\ f.params \in [1..8 -> Byte] /\ f.eot \in Byte
  BY <1>1, FdcFields
<1>3. f.id.r \in Byte
  BY <1>2, IdFields
<1>4. CASE f.id.r < f.eot
  <2> DEFINE i == [f.id EXCEPT !.r = f.id.r + 1]
             e == [f EXCEPT !.id = i]
  <2>1. NextId(f) = e
    BY <1>4, Zenon DEF NextId
  <2>2. f.id.r + 1 \in Byte
    <3> DEFINE r == f.id.r
               n == f.eot
    <3>1. r \in Byte /\ n \in Byte /\ r < n
      BY <1>2, <1>3, <1>4
    <3> HIDE DEF r, n
    <3>2. r + 1 \in Byte
      BY <3>1 DEF Byte
    <3> QED BY <3>2 DEF r
  <2>3. i \in Id
    BY <1>2, <2>2 DEF Id
  <2> HIDE DEF i
  <2>4. e \in Fdc
    BY <1>1, <2>3, Zenon DEF Fdc
  <2>5. /\ SameTransfer(f, e)
        /\ e.command = f.command /\ e.eot = f.eot /\ e.id_index = f.id_index
        /\ e.last_drive = f.last_drive /\ e.cylinder = f.cylinder
        /\ e.params = f.params /\ e.id = i
    BY <1>1 DEF Fdc, SameTransfer
  <2> HIDE DEF e
  <2>6. Typed(e)
    BY <2>4, <2>5 DEF Typed, Counted, SameTransfer
  <2> QED BY <1>4, <2>1, <2>5, <2>6 DEF i
<1>5. CASE ~(f.id.r < f.eot)
  <2> DEFINE p == [f.params EXCEPT ![1] = f.params[1] + 4]
             i == [f.id EXCEPT !.h = 1, !.r = 1]
             e == [f EXCEPT !.params = p, !.id = i]
  <2>1. NextId(f) = e
    BY <1>5, Zenon DEF NextId
  <2>2. ToSideOne(f) /\ HeadIn(f) = 0
    BY <1>5 DEF MoreSectors, ToSideOne
  <2>3. f.params[1] + 4 \in Byte /\ HeadOf(f.params[1] + 4) = 1
    <3>1. f.params[1] \in Byte
      BY <1>2
    <3> QED BY <2>2, <3>1, UnitFacts DEF HeadIn
  <2>4. p \in [1..8 -> Byte] /\ p[4] = f.params[4] /\ HeadOf(p[1]) = 1
    <3> DEFINE u == f.params[1] + 4
    <3>1. u \in Byte /\ HeadOf(u) = 1 /\ p = [f.params EXCEPT ![1] = u]
      BY <2>3
    <3> HIDE DEF u, p
    <3>2. p \in [1..8 -> Byte] /\ p[4] = f.params[4] /\ p[1] = u
      BY <1>2, <3>1
    <3> QED BY <3>1, <3>2
  <2>5. i \in Id /\ i.r = 1
    <3>1. 1 \in Byte
      BY DEF Byte
    <3> QED BY <1>2, <3>1 DEF Id
  <2> HIDE DEF p, i
  <2>6. e \in Fdc
    BY <1>1, <2>4, <2>5, Zenon DEF Fdc
  <2>7. /\ SameTransfer(f, e)
        /\ e.command = f.command /\ e.eot = f.eot /\ e.id_index = f.id_index
        /\ e.last_drive = f.last_drive /\ e.cylinder = f.cylinder
        /\ e.params = p /\ e.id = i
    BY <1>1 DEF Fdc, SameTransfer
  <2> HIDE DEF e
  <2>8. Typed(e)
    BY <2>6, <2>7 DEF Typed, Counted, SameTransfer
  <2> QED BY <2>1, <2>2, <2>4, <2>5, <2>7, <2>8 DEF HeadIn
<1> QED BY <1>4, <1>5

(* The next sector's bytes are asked of the CPU.                            *)
LEMMA StartWriteType ==
  ASSUME NEW f, Typed(f), f.size > 0
  PROVE  LET e == StartWrite(f)
         IN  /\ Begins(f, e, "WRITE") /\ e.size = f.size /\ e.buffer = <<>>
             /\ e.id_index = f.id_index
<1> DEFINE since == -ByteTicks
           e == [f EXCEPT !.buffer = <<>>, !.pos = 0, !.since = since,
                          !.mode = "WRITE"]
<1>1. f \in Fdc
  BY DEF Typed
<1>2. StartWrite(f) = e
  BY Zenon DEF StartWrite
<1>3. /\ since \in -HalfRange..(HalfRange - 1) /\ 0 \in 0..BufferSize
      /\ <<>> \in Seq(Byte) /\ "WRITE" \in {"NONE", "READ", "WRITE"}
  BY SizeFacts
<1>4. since = -ByteTicks
  OBVIOUS
<1> HIDE DEF since
<1>5. e \in Fdc
  BY <1>1, <1>3, Zenon DEF Fdc
<1>6. /\ SameCommand(f, e) /\ e.count = f.count /\ e.expected = f.expected
      /\ e.results = f.results /\ e.size = f.size /\ e.buffer = <<>>
      /\ e.pos = 0 /\ e.since = since /\ e.mode = "WRITE"
      /\ e.id_index = f.id_index
  BY <1>1 DEF Fdc, SameCommand
<1> HIDE DEF e
<1>7. Typed(e)
  <2>1. Counted(f) /\ Len(f.results) <= 7
    BY DEF Typed
  <2>2. Counted(e)
    <3>1. /\ e.count = f.count /\ e.expected = f.expected
          /\ e.command = f.command
      BY <1>6 DEF SameCommand
    <3> QED BY <2>1, <3>1 DEF Counted
  <2>3. Len(e.results) <= 7
    BY <1>6, <2>1
  <2> QED BY <1>5, <2>2, <2>3 DEF Typed
<1>8. Within(e)
  <2>1. e.pos < e.size
    BY <1>6
  <2> QED BY <1>6, <2>1 DEF Within
<1> QED BY <1>2, <1>4, <1>6, <1>7, <1>8 DEF Begins

-----------------------------------------------------------------------------
(* What a write leaves on the disk.                                         *)

LEMMA PaddedType ==
  ASSUME NEW f \in Fdc, NEW B, f.buffer \in Seq(B), Len(f.buffer) = f.size
  PROVE  Padded(f) \in Seq(Byte) /\ Padded(f) \in Seq(B \cup {0})
<1> DEFINE fill == [i \in 1..MinSize |-> IF i <= f.size THEN f.buffer[i] ELSE 0]
<1>1. f.buffer \in Seq(Byte)
  BY FdcFields
<1>2. CASE f.id.n = 0 /\ f.size < MinSize
  <2>1. Padded(f) = fill
    BY <1>2, Zenon DEF Padded
  <2>2. \A i \in 1..MinSize : fill[i] \in Byte /\ fill[i] \in B \cup {0}
    <3> TAKE i \in 1..MinSize
    <3>1. CASE i <= f.size
      <4>1. i \in 1..Len(f.buffer)
        BY <1>2, <3>1, SizeFacts
      <4>2. f.buffer[i] \in Byte /\ f.buffer[i] \in B
        BY <1>1, <4>1, ElementOfSeq
      <4> QED BY <3>1, <4>2
    <3>2. CASE ~(i <= f.size)
      BY <3>2, ByteFacts
    <3> QED BY <3>1, <3>2
  <2>3. fill = [i \in 1..MinSize |-> fill[i]]
    OBVIOUS
  <2> HIDE DEF fill
  <2>4. fill \in [1..MinSize -> Byte] /\ fill \in [1..MinSize -> B \cup {0}]
    BY <2>2, <2>3, Zenon
  <2>5. MinSize \in Nat
    BY SizeFacts
  <2> QED BY <2>1, <2>4, <2>5, SeqDef
<1>3. CASE ~(f.id.n = 0 /\ f.size < MinSize)
  <2>1. Padded(f) = f.buffer
    BY <1>3, Zenon DEF Padded
  <2>2. B \subseteq B \cup {0}
    OBVIOUS
  <2> QED BY <1>1, <2>1, <2>2, SeqMonotonic
<1> QED BY <1>2, <1>3

\* A track with the sector at i written.
Rewritten(t, i, data, deleted) ==
  [t EXCEPT ![i] = [t[i] EXCEPT !.data = data, !.st1 = 0,
                                !.st2 = IF deleted THEN Deleted ELSE 0]]

LEMMA RewrittenType ==
  ASSUME NEW t \in Seq(Sectors), NEW i \in DOMAIN t, NEW data \in Seq(Byte),
         NEW deleted \in BOOLEAN
  PROVE  LET u == Rewritten(t, i, data, deleted)
         IN  /\ u \in Seq(Sectors) /\ Len(u) = Len(t) /\ DOMAIN u = DOMAIN t
             /\ \A j \in DOMAIN t : j # i => u[j] = t[j]
             /\ u[i].data = data /\ u[i].st1 = 0
             /\ u[i].st2 = IF deleted THEN Deleted ELSE 0
             /\ \A j \in DOMAIN t : /\ IdOf(u[j]) = IdOf(t[j])
                                    /\ u[j].r = t[j].r /\ u[j].n = t[j].n
<1> DEFINE s == t[i]
           mark == IF deleted THEN Deleted ELSE 0
           new == [s EXCEPT !.data = data, !.st1 = 0, !.st2 = mark]
           u == [t EXCEPT ![i] = new]
<1>1. Rewritten(t, i, data, deleted) = u
  BY Zenon DEF Rewritten
<1>2. mark \in Byte /\ 0 \in Byte
  BY DEF Deleted, Byte
<1>3. i \in 1..Len(t)
  OBVIOUS
<1>4. s \in Sectors
  BY <1>3, ElementOfSeq
<1> HIDE DEF mark
<1>5. s = t[i]
  OBVIOUS
<1> HIDE DEF s
<1>6. new \in Sectors
  BY <1>2, <1>4, Zenon DEF Sectors
<1>7. /\ new.data = data /\ new.st1 = 0 /\ new.st2 = mark
      /\ new.c = s.c /\ new.h = s.h /\ new.r = s.r /\ new.n = s.n
  BY <1>4 DEF Sectors
<1> HIDE DEF new
<1>8. /\ u \in Seq(Sectors) /\ Len(u) = Len(t) /\ DOMAIN u = DOMAIN t
      /\ u[i] = new /\ \A j \in DOMAIN t : j # i => u[j] = t[j]
  BY <1>6
<1> HIDE DEF u
<1>9. \A j \in DOMAIN t : /\ IdOf(u[j]) = IdOf(t[j])
                          /\ u[j].r = t[j].r /\ u[j].n = t[j].n
  <2> TAKE j \in DOMAIN t
  <2>1. CASE j # i
    <3>1. u[j] = t[j]
      BY <1>8, <2>1
    <3> QED BY <3>1
  <2>2. CASE j = i
    <3>1. u[j] = new /\ t[j] = s
      BY <1>5, <1>8, <2>2
    <3> QED BY <1>7, <3>1 DEF IdOf
  <2> QED BY <2>1, <2>2
<1> QED BY <1>1, <1>7, <1>8, <1>9 DEF mark

LEMMA StoredType ==
  ASSUME NEW d, IsDisk(d), NEW c, NEW h, <<c, h>> \in DOMAIN d.tracks,
         NEW id, Numbered(d.tracks[<<c, h>>], id) # 0,
         NEW data \in Seq(Byte), NEW deleted \in BOOLEAN
  PROVE  LET t == d.tracks[<<c, h>>]
             i == Numbered(t, id)
             e == Stored(d, c, h, id, data, deleted)
         IN  /\ IsDisk(e) /\ e.inserted = d.inserted /\ e.dirty
             /\ e.read_only = d.read_only
             /\ DOMAIN e.tracks = DOMAIN d.tracks
             /\ e.tracks[<<c, h>>] = Rewritten(t, i, data, deleted)
             /\ \A p \in DOMAIN d.tracks : p # <<c, h>> => e.tracks[p] = d.tracks[p]
<1> DEFINE place == <<c, h>>
           t == d.tracks[place]
           i == Numbered(t, id)
           u == Rewritten(t, i, data, deleted)
           all == [d.tracks EXCEPT ![place] = u]
           e == [d EXCEPT !.tracks = all, !.dirty = TRUE]
<1>1. t \in Seq(Sectors) /\ Len(t) <= MaxSectors
  BY DEF IsDisk, IsImage
<1>2. i \in DOMAIN t
  BY <1>1, NumberedType
<1>3. u \in Seq(Sectors) /\ Len(u) <= MaxSectors
  BY <1>1, <1>2, RewrittenType
<1>4. Stored(d, c, h, id, data, deleted) = e
  BY Zenon DEF Stored, Rewritten
<1> HIDE DEF u, t, place
<1>5. /\ DOMAIN all = DOMAIN d.tracks /\ all[place] = u
      /\ \A p \in DOMAIN d.tracks : p # place => all[p] = d.tracks[p]
  BY DEF place
<1>6. IsImage(all)
  <2>1. IsImage(d.tracks)
    BY DEF IsDisk
  <2> QED BY <1>3, <1>5, <2>1 DEF IsImage
<1> HIDE DEF all
<1>7. PICK T : d \in [inserted : BOOLEAN, dirty : BOOLEAN, read_only : BOOLEAN,
                       tracks : T]
  BY Zenon DEF IsDisk
<1>8. /\ e.inserted = d.inserted /\ e.dirty /\ e.read_only = d.read_only
      /\ e.tracks = all
  BY <1>7
<1>9. IsDisk(e)
  <2> DEFINE S == T \cup {all}
  <2>1. d \in [inserted : BOOLEAN, dirty : BOOLEAN, read_only : BOOLEAN, tracks : S]
    BY <1>7, Zenon
  <2>2. all \in S
    OBVIOUS
  <2> HIDE DEF S
  <2>3. e \in [inserted : BOOLEAN, dirty : BOOLEAN, read_only : BOOLEAN, tracks : S]
    BY <2>1, <2>2, Zenon
  <2> QED BY <1>6, <1>8, <2>3 DEF IsDisk
<1> HIDE DEF e
<1> QED BY <1>4, <1>5, <1>8, <1>9 DEF place, t, u

\* The mark that a write leaves in a sector.
Deleting(f) == f.command % 32 = WriteDeleted

LEMMA WrittenSector ==
  ASSUME NEW f \in Fdc, NEW d, IsDisk(d),
         NEW B, f.buffer \in Seq(B), Len(f.buffer) = f.size, SectorWritable(f, d)
  PROVE  LET t == TrackOf(f, d)
             i == Numbered(t, f.id)
             e == DiskAfterWrite(f, d)
         IN  /\ t \in Seq(Sectors) /\ i \in DOMAIN t
             /\ Padded(f) \in Seq(Byte) /\ Padded(f) \in Seq(B \cup {0})
             /\ IsDisk(e) /\ e.dirty /\ DOMAIN e.tracks = DOMAIN d.tracks
             /\ d.inserted /\ e.inserted
             /\ <<CylinderOf(f), HeadIn(f)>> \in DOMAIN d.tracks
             /\ t = d.tracks[<<CylinderOf(f), HeadIn(f)>>]
             /\ e.tracks[<<CylinderOf(f), HeadIn(f)>>]
                  = Rewritten(t, i, Padded(f), Deleting(f))
             /\ \A p \in DOMAIN d.tracks :
                  p # <<CylinderOf(f), HeadIn(f)>> => e.tracks[p] = d.tracks[p]
             /\ TrackOf(f, e) = Rewritten(t, i, Padded(f), Deleting(f))
<1> DEFINE place == <<CylinderOf(f), HeadIn(f)>>
           t == TrackOf(f, d)
           i == Numbered(t, f.id)
           data == Padded(f)
           e == Stored(d, CylinderOf(f), HeadIn(f), f.id, data, Deleting(f))
<1>1. Writable(d, f.last_drive, t, f.id, Len(data)) /\ DiskAfterWrite(f, d) = e
  BY Zenon DEF SectorWritable, DiskAfterWrite, Deleting
<1>2. i # 0 /\ DriveReady(d, f.last_drive)
  BY <1>1 DEF Writable, CanWrite
<1>3. t \in Seq(Sectors)
  BY TrackType DEF TrackOf
<1>4. i \in DOMAIN t
  BY <1>2, <1>3, NumberedType
<1>5. place \in DOMAIN d.tracks /\ t = d.tracks[place]
  <2>1. t = IF place \in DOMAIN d.tracks THEN d.tracks[place] ELSE <<>>
    BY <1>2, Zenon DEF TrackOf, Track
  <2>2. t # <<>>
    BY <1>4
  <2> QED BY <2>1, <2>2
<1>6. data \in Seq(Byte) /\ data \in Seq(B \cup {0}) /\ Deleting(f) \in BOOLEAN
  BY PaddedType DEF Deleting
<1> HIDE DEF t, data
<1>7. /\ IsDisk(e) /\ e.inserted = d.inserted /\ e.dirty /\ e.read_only = d.read_only
      /\ DOMAIN e.tracks = DOMAIN d.tracks
      /\ e.tracks[place] = Rewritten(t, i, data, Deleting(f))
      /\ \A p \in DOMAIN d.tracks : p # place => e.tracks[p] = d.tracks[p]
  <2> DEFINE c == CylinderOf(f)
             h == HeadIn(f)
             del == Deleting(f)
             q == d.tracks[<<c, h>>]
  <2>1. Numbered(q, f.id) # 0 /\ <<c, h>> \in DOMAIN d.tracks /\ q = t
    BY <1>2, <1>5
  <2>2. data \in Seq(Byte) /\ del \in BOOLEAN
    BY <1>6
  <2> HIDE DEF c, h, del
  <2>3. LET x == Stored(d, c, h, f.id, data, del)
        IN  /\ IsDisk(x) /\ x.inserted = d.inserted /\ x.dirty
            /\ x.read_only = d.read_only
            /\ DOMAIN x.tracks = DOMAIN d.tracks
            /\ x.tracks[<<c, h>>] = Rewritten(q, Numbered(q, f.id), data, del)
            /\ \A p \in DOMAIN d.tracks : p # <<c, h>> => x.tracks[p] = d.tracks[p]
    BY <2>1, <2>2, StoredType
  <2> HIDE DEF q
  <2> QED BY <2>1, <2>3 DEF c, h, del
<1> HIDE DEF e
<1>8. d.inserted /\ e.inserted
  BY <1>2, <1>7 DEF DriveReady
<1>9. TrackOf(f, e) = Rewritten(t, i, data, Deleting(f))
  <2>1. TrackOf(f, e) = IF DriveReady(e, f.last_drive) /\ place \in DOMAIN e.tracks
                        THEN e.tracks[place] ELSE <<>>
    BY Zenon DEF TrackOf, Track
  <2>2. DriveReady(e, f.last_drive)
    BY <1>2, <1>8 DEF DriveReady
  <2>3. place \in DOMAIN e.tracks
    BY <1>5, <1>7
  <2> HIDE DEF place
  <2> QED BY <1>7, <2>1, <2>2, <2>3
<1> QED BY <1>1, <1>3, <1>4, <1>5, <1>6, <1>7, <1>8, <1>9 DEF t, data

LEMMA DiskAfterWriteType ==
  ASSUME NEW f \in Fdc, NEW d, IsDisk(d), Len(f.buffer) = f.size
  PROVE  /\ IsDisk(DiskAfterWrite(f, d))
         /\ DiskAfterWrite(f, d) # d => DiskAfterWrite(f, d).dirty
<1>1. f.buffer \in Seq(Byte)
  BY FdcFields
<1>2. CASE SectorWritable(f, d)
  BY <1>1, <1>2, WrittenSector
<1>3. CASE ~SectorWritable(f, d)
  BY <1>3 DEF DiskAfterWrite
<1> QED BY <1>2, <1>3

(* A read goes on after a sector without marks, while there are more.       *)
LEMMA CompleteReadType ==
  ASSUME NEW f, Typed(f), NEW d, IsDisk(d)
  PROVE  LET e == CompleteRead(f, d)
         IN  \/ /\ Ends(f, e)
                /\ f.st1 # 0 \/ f.st2 # 0
                     => e.results[2] = f.st1 /\ e.results[3] = f.st2
             \/ /\ f.st1 = 0 /\ f.st2 = 0 /\ MoreSectors(f)
                /\ e = LoadReadSector(NextId(f), d) /\ Typed(NextId(f))
                /\ NextId(f).since = f.since
                /\ Ends(NextId(f), e) \/ Begins(NextId(f), e, "READ")
<1>1. f \in Fdc
  BY DEF Typed
<1>2. CASE f.st1 # 0 \/ f.st2 # 0
  <2> DEFINE st0 == 64 + HeadDrive(f)
             e == FinishData(f, st0, f.st1, f.st2)
  <2>1. CompleteRead(f, d) = e
    BY <1>2, Zenon DEF CompleteRead
  <2>2. st0 \in Byte /\ f.st1 \in Byte /\ f.st2 \in Byte
    BY <1>1, ErrorBytes, FdcFields
  <2> HIDE DEF st0
  <2>3. Ends(f, e) /\ e.results[2] = f.st1 /\ e.results[3] = f.st2
    BY <1>1, <2>2, FinishDataType DEF Ends
  <2> QED BY <2>1, <2>3
<1>3. CASE ~(f.st1 # 0 \/ f.st2 # 0) /\ MoreSectors(f)
  <2>1. CompleteRead(f, d) = LoadReadSector(NextId(f), d)
    BY <1>3, Zenon DEF CompleteRead
  <2>2. Typed(NextId(f)) /\ NextId(f).since = f.since
    BY <1>3, NextIdType DEF SameTransfer
  <2>3. \/ Ends(NextId(f), LoadReadSector(NextId(f), d))
        \/ Begins(NextId(f), LoadReadSector(NextId(f), d), "READ")
    BY <2>2, LoadReadSectorType
  <2> QED BY <1>3, <2>1, <2>2, <2>3
<1>4. CASE ~(f.st1 # 0 \/ f.st2 # 0) /\ ~MoreSectors(f)
  <2>1. CompleteRead(f, d) = EndOfCylinder(f)
    BY <1>4, Zenon DEF CompleteRead
  <2> QED BY <1>1, <1>4, <2>1, ErrorType
<1> QED BY <1>2, <1>3, <1>4

(* A write goes on after a sector that was stored, while there are more.    *)
LEMMA CompleteWriteType ==
  ASSUME NEW f, Typed(f), f.size > 0, NEW d, IsDisk(d)
  PROVE  LET e == CompleteWrite(f, d)
             p == Passed(f, d)
         IN  \/ Ends(f, e)
             \/ /\ SectorWritable(f, d) /\ MoreSectors(f)
                /\ Typed(p) /\ SameCommand(f, p) /\ MoreSectors(p)
                /\ e = StartWrite(NextId(p)) /\ Typed(NextId(p))
                /\ Begins(NextId(p), e, "WRITE") /\ e.buffer = <<>>
                /\ e.size = f.size
<1> DEFINE p == Passed(f, d)
           passed == IF Found(f, d) # 0 THEN p ELSE f
<1>1. /\ Typed(passed) /\ SameCommand(f, passed) /\ SameTransfer(f, passed)
  BY PassedTyped DEF SameCommand, SameTransfer
<1>2. CompleteWrite(f, d) = IF ~SectorWritable(f, d) THEN NoData(passed)
                            ELSE IF MoreSectors(f) THEN StartWrite(NextId(passed))
                            ELSE EndOfCylinder(passed)
  BY Zenon DEF CompleteWrite
<1>3. SectorWritable(f, d) => passed = p
  BY DEF SectorWritable
<1> HIDE DEF passed, p
<1>4. Ends(f, NoData(passed)) /\ Ends(f, EndOfCylinder(passed))
  <2>1. Ends(passed, NoData(passed)) /\ Ends(passed, EndOfCylinder(passed))
    BY <1>1, ErrorType DEF Typed
  <2>2. passed.since = f.since
    BY <1>1 DEF SameTransfer
  <2> QED BY <1>1, <2>1, <2>2, SameSteps
<1>5. CASE SectorWritable(f, d) /\ MoreSectors(f)
  <2>1. MoreSectors(p)
    BY <1>1, <1>3, <1>5 DEF MoreSectors, ToSideOne, HeadIn, SameCommand
  <2> DEFINE n == NextId(p)
  <2>2. /\ Typed(n) /\ n.size = f.size
    <3>1. Typed(p) /\ p.size = f.size
      BY <1>1, <1>3, <1>5 DEF SameTransfer
    <3>2. Typed(n) /\ SameTransfer(p, n)
      BY <2>1, <3>1, NextIdType
    <3> QED BY <3>1, <3>2 DEF SameTransfer
  <2> HIDE DEF n
  <2>3. /\ Begins(n, StartWrite(n), "WRITE") /\ StartWrite(n).buffer = <<>>
        /\ StartWrite(n).size = n.size
    BY <2>2, StartWriteType DEF n
  <2>4. CompleteWrite(f, d) = StartWrite(n)
    BY <1>2, <1>3, <1>5 DEF n
  <2> QED BY <1>1, <1>3, <1>5, <2>1, <2>2, <2>3, <2>4 DEF n, p
<1> QED BY <1>2, <1>4, <1>5

-----------------------------------------------------------------------------
(* Commands.                                                                *)

LEMMA ParamsType ==
  ASSUME NEW f \in Fdc, NEW i \in 1..8
  PROVE  f.params[i] \in Byte
<1>1. f.params \in [1..8 -> Byte]
  BY FdcFields
<1> QED BY <1>1

LEMMA ForCommandType ==
  ASSUME NEW f, Typed(f)
  PROVE  LET g == ForCommand(f)
         IN  /\ Typed(g) /\ SameTransfer(f, g)
             /\ g.command = f.command /\ g.params = f.params
             /\ g.id.r = f.params[4]
<1> DEFINE drive == DriveOf(f.params[1])
           id == [c |-> f.params[2], h |-> f.params[3], r |-> f.params[4],
                  n |-> f.params[5]]
           eot == f.params[6]
           e == [f EXCEPT !.last_drive = drive, !.id = id, !.eot = eot,
                          !.st1 = 0, !.st2 = 0]
<1>1. f \in Fdc
  BY DEF Typed
<1>2. ForCommand(f) = e
  BY Zenon DEF ForCommand
<1>3. /\ f.params[1] \in Byte /\ f.params[2] \in Byte /\ f.params[3] \in Byte
      /\ f.params[4] \in Byte /\ f.params[5] \in Byte /\ f.params[6] \in Byte
  BY <1>1, ParamsType
<1>4. drive \in Drives /\ id \in Id /\ eot \in Byte /\ 0 \in Byte
  <2>1. drive \in Drives
    BY <1>3, UnitFacts
  <2>2. id \in Id
    BY <1>3 DEF Id
  <2> QED BY <1>3, <2>1, <2>2, ByteFacts
<1>5. id.r = f.params[4]
  OBVIOUS
<1> HIDE DEF drive, id, eot
<1>6. e \in Fdc
  BY <1>1, <1>4, Zenon DEF Fdc
<1>7. /\ SameTransfer(f, e) /\ e.command = f.command /\ e.params = f.params
      /\ e.id = id
  BY <1>1 DEF Fdc, SameTransfer
<1> HIDE DEF e
<1>8. Typed(e)
  BY <1>6, <1>7 DEF Typed, Counted, SameTransfer
<1> QED BY <1>2, <1>5, <1>7, <1>8

\* A transfer that a write command begins, and its first sector.
WriteBegun(f, e) ==
  /\ Begins(e, e, "WRITE") /\ e.buffer = <<>> /\ e.command = f.command
  /\ e.params = f.params /\ e.id.r = f.params[4]

Idles(e) == Typed(e) /\ Within(e) /\ e.mode = "NONE"

LEMMA BeginWriteType ==
  ASSUME NEW f, Typed(f), NEW d
  PROVE  Idles(BeginWrite(f, d)) \/ WriteBegun(f, BeginWrite(f, d))
<1> DEFINE g == ForCommand(f)
           size == RequestedSize(g)
           s == [g EXCEPT !.size = size]
           refused == FinishData(g, 64 + HeadDrive(g), 2, 0)
<1>1. /\ Typed(g) /\ g.command = f.command /\ g.params = f.params
      /\ g.id.r = f.params[4]
  BY ForCommandType
<1>2. BeginWrite(f, d) =
        IF ~DriveReady(d, g.last_drive) THEN NotReady(g)
        ELSE IF ~CanWrite(d, g.last_drive) THEN refused
        ELSE IF size \notin 1..BufferSize THEN NoData(g)
        ELSE StartWrite(s)
  BY Zenon DEF BeginWrite
<1> HIDE DEF g, size
<1>3. g \in Fdc
  BY <1>1 DEF Typed
<1>4. Idles(NotReady(g)) /\ Idles(NoData(g))
  BY <1>3, ErrorType DEF Ends, Idles
<1>5. Idles(refused)
  <2>1. 64 + HeadDrive(g) \in Byte /\ 2 \in Byte /\ 0 \in Byte
    BY <1>3, ErrorBytes
  <2> QED BY <1>3, <2>1, FinishDataType DEF Idles
<1>6. ASSUME size \in 1..BufferSize PROVE WriteBegun(f, StartWrite(s))
  <2>1. size \in 0..BufferSize /\ size > 0
    BY <1>6, SizeFacts
  <2>2. s \in Fdc
    BY <1>3, <2>1, Zenon DEF Fdc
  <2>3. /\ SameCommand(g, s) /\ s.count = g.count /\ s.expected = g.expected
        /\ s.results = g.results /\ s.size = size
    BY <1>3 DEF Fdc, SameCommand
  <2> HIDE DEF s
  <2>4. Typed(s)
    BY <1>1, <2>2, <2>3 DEF Typed, Counted, SameCommand
  <2> DEFINE e == StartWrite(s)
  <2>5. Begins(s, e, "WRITE") /\ e.buffer = <<>>
    BY <2>1, <2>3, <2>4, StartWriteType
  <2> HIDE DEF e
  <2>6. Begins(e, e, "WRITE")
    BY <2>5 DEF Begins, SameCommand
  <2>7. e.command = f.command /\ e.params = f.params /\ e.id.r = f.params[4]
    BY <1>1, <2>3, <2>5 DEF Begins, SameCommand
  <2> QED BY <2>5, <2>6, <2>7 DEF WriteBegun, e
<1> HIDE DEF s, refused
<1> QED BY <1>2, <1>4, <1>5, <1>6

LEMMA DriveStatusType ==
  ASSUME NEW f \in Fdc, NEW d
  PROVE  DriveStatus(f, d) \in Byte
<1> DEFINE h == HeadDrive(f)
           a == IF CylinderOf(f) = 0 THEN 16 ELSE 0
           b == IF DriveReady(d, f.last_drive) THEN 32 ELSE 0
           c == IF DriveReady(d, f.last_drive) /\ ~CanWrite(d, f.last_drive)
                THEN 64 ELSE 0
           e == IF Track(d, f.last_drive, CylinderOf(f), 1) # <<>> THEN 8 ELSE 0
<1>1. DriveStatus(f, d) = h + a + b + c + e
  BY Zenon DEF DriveStatus
<1>2. h \in 0..7 /\ a \in {0, 16} /\ b \in {0, 32} /\ c \in {0, 64} /\ e \in {0, 8}
  BY Where
<1> HIDE DEF h, a, b, c, e
<1> QED BY <1>1, <1>2 DEF Byte

LEMMA SeekToType ==
  ASSUME NEW f, Typed(f), Within(f), NEW cylinder \in Byte
  PROVE  LET e == SeekTo(f, cylinder)
         IN  Typed(e) /\ Within(e) /\ e.mode = f.mode
<1> DEFINE x == [f.cylinder EXCEPT ![f.last_drive] = cylinder]
           e == [f EXCEPT !.cylinder = x, !.interrupt_pending = TRUE,
                          !.count = 0, !.expected = 0]
<1>1. f \in Fdc
  BY DEF Typed
<1>2. SeekTo(f, cylinder) = e
  BY Zenon DEF SeekTo
<1>3. x \in [Drives -> Byte]
  <2>1. f.cylinder \in [Drives -> Byte]
    BY <1>1, FdcFields
  <2> QED BY <2>1
<1>4. 0 \in 0..8 /\ TRUE \in BOOLEAN
  OBVIOUS
<1> HIDE DEF x
<1>5. e \in Fdc
  BY <1>1, <1>3, <1>4, Zenon DEF Fdc
<1>6. /\ e.count = 0 /\ e.expected = 0 /\ e.results = f.results
      /\ e.mode = f.mode /\ e.pos = f.pos /\ e.size = f.size
      /\ e.buffer = f.buffer
  BY <1>1 DEF Fdc
<1> HIDE DEF e
<1>7. Counted(e)
  BY <1>6 DEF Counted
<1>8. Len(e.results) <= 7
  BY <1>6 DEF Typed
<1>9. Within(e)
  BY <1>6 DEF Within
<1> QED BY <1>2, <1>5, <1>6, <1>7, <1>8, <1>9 DEF Typed

LEMMA InterruptStatusType ==
  ASSUME NEW f, Typed(f), NEW d
  PROVE  Idles(InterruptStatus(f, d))
<1> DEFINE quiet == [f EXCEPT !.interrupt_pending = FALSE]
           st0 == (IF DriveReady(d, f.last_drive) THEN 32 ELSE 72) + f.last_drive
           both == <<st0, CylinderOf(f)>>
           none == <<128>>
<1>1. f \in Fdc
  BY DEF Typed
<1>2. quiet \in Fdc
  BY <1>1, Zenon DEF Fdc
<1>3. st0 \in Byte
  <2>1. f.last_drive \in 0..3
    BY <1>1, FdcFields DEF Drives
  <2> QED BY <2>1 DEF Byte
<1>4. InterruptStatus(f, d) = IF f.interrupt_pending THEN SetResults(quiet, both)
                              ELSE SetResults(f, none)
  BY Zenon DEF InterruptStatus
<1>5. CylinderOf(f) \in Byte /\ 128 \in Byte
  BY <1>1, Where, ErrorBytes
<1> HIDE DEF st0
<1>6. /\ both \in Seq(Byte) /\ Len(both) <= 7
      /\ none \in Seq(Byte) /\ Len(none) <= 7
  BY <1>3, <1>5
<1> HIDE DEF quiet, both, none
<1>7. Idles(SetResults(quiet, both)) /\ Idles(SetResults(f, none))
  BY <1>1, <1>2, <1>6, SetResultsType DEF Idles
<1> QED BY <1>4, <1>7

LEMMA NextIdFieldType ==
  ASSUME NEW f, Typed(f), NEW d, IsDisk(d)
  PROVE  Idles(NextIdField(f, d))
<1> DEFINE here == [c |-> CylinderOf(f), h |-> HeadIn(f), r |-> 0, n |-> 0]
           track == TrackOf(f, d)
           index == Position(f, f.last_drive, HeadIn(f), track)
           sector == track[index + 1]
           st1 == IF HasBit(sector.st2, DataError)
                  THEN Without(sector.st1, DataError) ELSE sector.st1
           st2 == Without(Without(sector.st2, DataError), Deleted)
           lost == [f EXCEPT !.id = here]
           next == (index + 1) % Len(track)
           x == [f.id_index EXCEPT ![f.last_drive][HeadIn(f)] = next]
           st0 == HeadDrive(f) + (IF st1 # 0 \/ st2 # 0 THEN 64 ELSE 0)
           id == IdOf(sector)
           seen == [f EXCEPT !.id = id, !.id_index = x]
<1>1. f \in Fdc
  BY DEF Typed
<1>2. NextIdField(f, d) = IF ~DriveReady(d, f.last_drive) THEN NotReady(lost)
                          ELSE IF track = <<>> THEN NoData(lost)
                          ELSE FinishData(seen, st0, st1, st2)
  BY SMT DEF NextIdField
<1>3. Idles(NotReady(lost)) /\ Idles(NoData(lost))
  <2>1. CylinderOf(f) \in Byte /\ HeadIn(f) \in Byte /\ 0 \in Byte
    BY <1>1, Where, ByteFacts
  <2>2. here \in Id
    BY <2>1 DEF Id
  <2> HIDE DEF here
  <2>3. lost \in Fdc
    BY <1>1, <2>2, Zenon DEF Fdc
  <2> HIDE DEF lost
  <2> QED BY <2>3, ErrorType DEF Ends, Idles
<1>4. ASSUME track # <<>> PROVE Idles(FinishData(seen, st0, st1, st2))
  <2> DEFINE l == Len(track)
             k == f.id_index[f.last_drive][HeadIn(f)]
  <2>1. track \in Seq(Sectors) /\ l \in 0..29
    BY TrackType DEF TrackOf, MaxSectors
  <2>2. l > 0
    BY <1>4, <2>1
  <2>3. index = IF k < l THEN k ELSE 0
    BY Zenon DEF Position
  <2>4. k \in Nat
    BY <1>1, Where, ByteFacts
  <2> HIDE DEF l, k
  <2> HIDE DEF index
  <2>5. index \in 0..(l - 1)
    BY <2>1, <2>2, <2>3, <2>4
  <2>6. next \in 0..255
    <3>1. (index + 1) % l \in 0..255
      BY <2>1, <2>2, <2>5
    <3> QED BY <3>1 DEF l
  <2>7. next \in Byte
    BY <2>6 DEF Byte
  <2>8. sector \in Sectors
    <3>1. index + 1 \in 1..Len(track)
      BY <2>1, <2>5 DEF l
    <3> QED BY <2>1, <3>1, ElementOfSeq
  <2> HIDE DEF track, sector, next
  <2>9. st1 \in Byte /\ st2 \in Byte /\ id \in Id
    BY <2>8, SectorFields, BitFacts
  <2> HIDE DEF st1, st2, id
  <2>10. st0 \in Byte
    <3>1. HeadDrive(f) \in 0..7
      BY <1>1, Where
    <3> QED BY <3>1 DEF Byte
  <2>11. x \in [Drives -> [{0, 1} -> Byte]]
    <3>1. /\ f.id_index \in [Drives -> [{0, 1} -> Byte]] /\ f.last_drive \in Drives
          /\ HeadIn(f) \in {0, 1}
      BY <1>1, FdcFields, Where
    <3> QED BY <2>7, <3>1
  <2> HIDE DEF st0, x
  <2>12. seen \in Fdc
    BY <1>1, <2>9, <2>11, Zenon DEF Fdc
  <2> HIDE DEF seen
  <2> QED BY <2>9, <2>10, <2>12, FinishDataType DEF Idles
<1> HIDE DEF lost, seen, st0, st1, st2, track
<1> QED BY <1>2, <1>3, <1>4

LEMMA RefusedType ==
  ASSUME NEW f \in Fdc, NEW st1 \in Byte, NEW id \in Id
  PROVE  Idles(Refused(f, st1, id))
<1> DEFINE g == [f EXCEPT !.id = id]
           st0 == 64 + HeadDrive(f)
<1>1. Refused(f, st1, id) = FinishData(g, st0, st1, 0)
  BY Zenon DEF Refused
<1>2. g \in Fdc
  BY Zenon DEF Fdc
<1>3. st0 \in Byte /\ 0 \in Byte
  BY ErrorBytes
<1> HIDE DEF g, st0
<1> QED BY <1>1, <1>2, <1>3, FinishDataType DEF Idles

\* What a command may come to: no transfer; the transfer there was; one of the
\* disk's sectors read; a write begun.
Executed(f, d, e) ==
  \/ Idles(e)
  \/ Typed(e) /\ Within(e) /\ e.mode = f.mode
  \/ /\ Typed(e) /\ Within(e) /\ e.mode = "READ"
     /\ \E g : Typed(g) /\ e = LoadReadSector(g, d)
  \/ WriteBegun(f, e) /\ f.command % 32 \in {WriteData, WriteDeleted}

LEMMA BeginReadType ==
  ASSUME NEW f, Typed(f), NEW d, IsDisk(d)
  PROVE  Executed(f, d, BeginRead(f, d))
<1> DEFINE g == ForCommand(f)
           e == LoadReadSector(g, d)
<1>1. Typed(g)
  BY ForCommandType
<1> HIDE DEF g
<1>2. Ends(g, e) \/ Begins(g, e, "READ")
  BY <1>1, LoadReadSectorType
<1>3. e = LoadReadSector(g, d)
  OBVIOUS
<1> HIDE DEF e
<1>4. \/ Idles(e)
      \/ Typed(e) /\ Within(e) /\ e.mode = "READ"
  BY <1>2 DEF Ends, Begins, Idles
<1>5. Executed(f, d, e)
  BY <1>1, <1>3, <1>4 DEF Executed
<1> QED BY <1>5 DEF BeginRead, g, e

LEMMA ExecuteType ==
  ASSUME NEW f0, Typed(f0), Within(f0), f0.mode # "WRITE",
         f0.count = f0.expected, NEW d, IsDisk(d)
  PROVE  Executed(f0, d, Execute(f0, d))
<1> DEFINE operation == f0.command % 32
           unit == DriveOf(f0.params[1])
           moved == [f0 EXCEPT !.last_drive = unit]
           f == IF f0.count > 0 THEN moved ELSE f0
           e == Execute(f0, d)
           formatted == [c |-> CylinderOf(f), h |-> HeadIn(f), r |-> 0,
                         n |-> f.params[2]]
           scanned == [c |-> f.params[2], h |-> f.params[3],
                       r |-> f.params[4], n |-> f.params[5]]
           unknown == <<128>>
           ready == <<DriveStatus(f, d)>>
<1>1. f0 \in Fdc
  BY DEF Typed
<1>2. /\ f \in Fdc /\ SameTransfer(f0, f) /\ f.command = f0.command
      /\ f.params = f0.params
  <2>1. f0.params[1] \in Byte
    BY <1>1, ParamsType
  <2>2. unit \in Drives
    BY <2>1, UnitFacts
  <2> HIDE DEF unit
  <2>3. moved \in Fdc
    BY <1>1, <2>2, Zenon DEF Fdc
  <2>4. SameTransfer(f0, moved) /\ moved.command = f0.command
        /\ moved.params = f0.params
    BY <1>1 DEF Fdc, SameTransfer
  <2>5. SameTransfer(f0, f0)
    BY DEF SameTransfer
  <2> HIDE DEF moved
  <2> QED BY <1>1, <2>3, <2>4, <2>5
<1>3. e = CASE operation = Specify -> [f EXCEPT !.count = 0, !.expected = 0]
            [] operation = SenseDrive -> SetResults(f, ready)
            [] operation = Recalibrate -> SeekTo(f, 0)
            [] operation = Seek -> SeekTo(f, f.params[2])
            [] operation = SenseInterrupt -> InterruptStatus(f, d)
            [] operation \in {ReadTrack, ReadData, ReadDeleted} -> BeginRead(f, d)
            [] operation \in {WriteData, WriteDeleted} -> BeginWrite(f, d)
            [] operation = ReadId -> NextIdField(f, d)
            [] operation = FormatTrack -> Refused(f, 2, formatted)
            [] operation \in Scans -> Refused(f, 4, scanned)
            [] OTHER -> SetResults(f, unknown)
  BY Zenon DEF Execute
<1> HIDE DEF f, e
<1>4. Typed(f) /\ Within(f) /\ f.mode = f0.mode
  <2>1. Typed(f)
    BY <1>2 DEF Typed, Counted, SameTransfer
  <2> QED BY <1>2, <2>1 DEF Within, SameTransfer
<1>5. /\ 0 \in Byte /\ 2 \in Byte /\ 4 \in Byte /\ 128 \in Byte
      /\ f.params[2] \in Byte /\ f.params[3] \in Byte /\ f.params[4] \in Byte
      /\ f.params[5] \in Byte /\ CylinderOf(f) \in Byte /\ HeadIn(f) \in Byte
  BY <1>2, ErrorBytes, ParamsType, Where, ByteFacts
<1>6. Executed(f0, d, [f EXCEPT !.count = 0, !.expected = 0])
  <2> DEFINE s == [f EXCEPT !.count = 0, !.expected = 0]
  <2>1. s \in Fdc
    <3>1. 0 \in 0..8
      OBVIOUS
    <3> QED BY <1>2, <3>1, Zenon DEF Fdc
  <2>2. /\ s.count = 0 /\ s.expected = 0 /\ s.results = f.results
        /\ s.mode = f.mode /\ s.pos = f.pos /\ s.size = f.size
        /\ s.buffer = f.buffer
    BY <1>2 DEF Fdc
  <2> HIDE DEF s
  <2>3. Counted(s) /\ Len(s.results) <= 7
    BY <1>4, <2>2 DEF Counted, Typed
  <2>4. Within(s)
    BY <1>4, <2>2 DEF Within
  <2>5. Executed(f0, d, s)
    BY <1>4, <2>1, <2>2, <2>3, <2>4 DEF Executed, Typed
  <2> QED BY <2>5 DEF s
<1>7. Executed(f0, d, SetResults(f, ready)) /\ Executed(f0, d, SetResults(f, unknown))
  <2>1. /\ ready \in Seq(Byte) /\ Len(ready) <= 7
        /\ unknown \in Seq(Byte) /\ Len(unknown) <= 7
    BY <1>2, <1>5, DriveStatusType
  <2> HIDE DEF ready, unknown
  <2>2. Idles(SetResults(f, ready)) /\ Idles(SetResults(f, unknown))
    BY <1>2, <2>1, SetResultsType DEF Idles
  <2> QED BY <2>2 DEF Executed
<1>8. Executed(f0, d, SeekTo(f, 0)) /\ Executed(f0, d, SeekTo(f, f.params[2]))
  BY <1>4, <1>5, SeekToType DEF Executed
<1>9. Executed(f0, d, InterruptStatus(f, d)) /\ Executed(f0, d, NextIdField(f, d))
  BY <1>4, InterruptStatusType, NextIdFieldType DEF Executed
<1>10. Executed(f0, d, BeginRead(f, d))
  <2>1. Executed(f, d, BeginRead(f, d))
    BY <1>4, BeginReadType
  <2> DEFINE b == BeginRead(f, d)
  <2>2. f0.command = f.command /\ f0.params = f.params
    BY <1>2
  <2>3. WriteBegun(f, b) => WriteBegun(f0, b)
    BY <2>2 DEF WriteBegun
  <2> HIDE DEF b
  <2>4. Executed(f, d, b)
    BY <2>1 DEF b
  <2>5. Executed(f0, d, b)
    BY <1>4, <2>2, <2>3, <2>4 DEF Executed
  <2> QED BY <2>5 DEF b
<1>11. ASSUME operation \in {WriteData, WriteDeleted}
       PROVE  Executed(f0, d, BeginWrite(f, d))
  <2> DEFINE b == BeginWrite(f, d)
  <2>1. Idles(b) \/ WriteBegun(f, b)
    BY <1>4, BeginWriteType
  <2> HIDE DEF b
  <2>2. Idles(b) \/ WriteBegun(f0, b)
    BY <1>2, <2>1 DEF WriteBegun
  <2>3. Executed(f0, d, b)
    BY <1>11, <2>2 DEF Executed
  <2> QED BY <2>3 DEF b
<1>12. Executed(f0, d, Refused(f, 2, formatted)) /\ Executed(f0, d, Refused(f, 4, scanned))
  <2>1. formatted \in Id /\ scanned \in Id
    BY <1>5 DEF Id
  <2> HIDE DEF formatted, scanned
  <2> QED BY <1>2, <1>5, <2>1, RefusedType DEF Executed
<1> HIDE DEF operation, formatted, scanned, unknown, ready
<1> QED BY <1>3, <1>6, <1>7, <1>8, <1>9, <1>10, <1>11, <1>12, Zenon DEF e

-----------------------------------------------------------------------------
(* The invariant, and what each access of the CPU does.                     *)

IInv ==
  /\ software \in DOMAIN Software
  /\ Typed(fdc) /\ Within(fdc)
  /\ IsDisk(disk) /\ IsImage(file)
  /\ SavedOrDirty

LEMMA InvariantTyped == IInv => TypeOK
<1> SUFFICES ASSUME IInv PROVE TypeOK
  OBVIOUS
<1>1. fdc \in Fdc /\ Counted(fdc) /\ Within(fdc) /\ Len(fdc.results) <= 7
  BY DEF IInv, Typed
<1>2. /\ fdc.command \in Byte /\ fdc.params \in [1..8 -> Byte]
      /\ fdc.count \in 0..8 /\ fdc.expected \in 0..8 /\ fdc.results \in Seq(Byte)
      /\ fdc.last_drive \in Drives /\ fdc.cylinder \in [Drives -> Byte]
      /\ fdc.id_index \in [Drives -> [{0, 1} -> Byte]]
      /\ fdc.mode \in {"NONE", "READ", "WRITE"} /\ fdc.id \in Id
      /\ fdc.last_bad \in Id
      /\ fdc.eot \in Byte /\ fdc.st1 \in Byte /\ fdc.st2 \in Byte
      /\ fdc.repeats \in BOOLEAN /\ fdc.interrupt_pending \in BOOLEAN
      /\ fdc.pos \in 0..BufferSize
      /\ fdc.size \in 0..BufferSize /\ fdc.since \in -HalfRange..(HalfRange - 1)
  BY <1>1, FdcFields
<1>3. fdc.count \in 0..fdc.expected
  BY <1>1, <1>2 DEF Counted
<1>4. IF fdc.mode = "NONE" THEN fdc.pos = 0 ELSE fdc.pos \in 0..(fdc.size - 1)
  <2>1. CASE fdc.mode = "NONE"
    BY <1>1, <2>1 DEF Within
  <2>2. CASE fdc.mode # "NONE"
    <3> DEFINE pos == fdc.pos
               size == fdc.size
    <3>1. pos < size
      BY <1>1, <2>2 DEF Within
    <3>2. pos \in 0..BufferSize /\ size \in 0..BufferSize /\ BufferSize \in Nat
      BY <1>2, SizeFacts
    <3> HIDE DEF pos, size
    <3>3. pos \in 0..(size - 1)
      BY <3>1, <3>2
    <3> QED BY <2>2, <3>3 DEF pos, size
  <2> QED BY <2>1, <2>2
<1>5. software \in DOMAIN Software
  BY DEF IInv
<1> QED BY <1>1, <1>2, <1>3, <1>4, <1>5 DEF TypeOK

LEMMA ProgramFacts ==
  ASSUME software \in DOMAIN Software
  PROVE  /\ IsImage(Software[software].image)
         /\ \A p \in Commands : /\ p \in Seq(Byte)
                                /\ Len(p) = ParameterCount(p[1]) + 1
         /\ HostBytes \subseteq Byte /\ ReadOnly \subseteq BOOLEAN
BY ProgramAssumption DEF Commands

\* The bytes the controller has of a command are those of one of the program's.
FromProgram(f) ==
  \E p \in Commands : /\ p[1] = f.command
                      /\ \A i \in 1..f.expected : p[i + 1] = f.params[i]

LEMMA CommandBytesType ==
  ASSUME software \in DOMAIN Software, NEW f, Typed(f), NEW byte \in CommandBytes(f)
  PROVE  /\ byte \in Byte
         /\ f.count < f.expected =>
              \E p \in Commands : /\ p[1] = f.command /\ byte = p[f.count + 2]
                                  /\ \A i \in 1..f.count : p[i + 1] = f.params[i]
         /\ ~(f.count < f.expected) => \E p \in Commands : byte = p[1]
<1>1. f.count \in 0..8 /\ f.expected \in 0..8
  BY FdcFields DEF Typed
<1>2. CASE f.count < f.expected
  <2>1. PICK p \in Commands : /\ p[1] = f.command /\ byte = p[f.count + 2]
                              /\ \A i \in 1..f.count : p[i + 1] = f.params[i]
    BY <1>2 DEF CommandBytes
  <2>2. p \in Seq(Byte) /\ Len(p) = f.expected + 1
    BY <1>2, <2>1, ProgramFacts DEF Typed, Counted
  <2>3. f.count + 2 \in 1..Len(p)
    <3> DEFINE n == f.count
               m == f.expected
               l == Len(p)
    <3>1. n \in 0..8 /\ m \in 0..8 /\ n < m /\ l = m + 1
      BY <1>1, <1>2, <2>2
    <3> HIDE DEF n, m, l
    <3>2. n + 2 \in 1..l
      BY <3>1
    <3> QED BY <3>2 DEF n, l
  <2>4. byte \in Byte
    BY <2>1, <2>2, <2>3, ElementOfSeq
  <2> QED BY <1>2, <2>1, <2>4
<1>3. CASE ~(f.count < f.expected)
  <2>1. PICK p \in Commands : byte = p[1]
    BY <1>3 DEF CommandBytes
  <2>2. p \in Seq(Byte) /\ Len(p) = ParameterCount(p[1]) + 1
    BY <2>1, ProgramFacts
  <2>3. ParameterCount(p[1]) \in 0..8
    BY ParameterCountType
  <2>4. 1 \in 1..Len(p)
    BY <2>2, <2>3
  <2>5. byte \in Byte
    BY <2>1, <2>2, <2>4, ElementOfSeq
  <2> QED BY <1>3, <2>1, <2>5
<1> QED BY <1>2, <1>3

LEMMA CommandEffect ==
  ASSUME IInv, NEW byte \in CommandBytes(fdc), WriteCommand(byte)
  PROVE  \E f : /\ Typed(f) /\ Within(f) /\ f.mode = fdc.mode /\ f.mode # "WRITE"
                /\ \/ fdc' = f
                   \/ /\ f.count = f.expected /\ Executed(f, disk, fdc')
                      /\ f.expected = ParameterCount(f.command) /\ FromProgram(f)
<1>1. /\ fdc \in Fdc /\ Typed(fdc) /\ Within(fdc) /\ IsDisk(disk)
      /\ software \in DOMAIN Software
  BY DEF IInv, Typed
<1>2. fdc.mode # "WRITE" /\ Len(fdc.results) <= 7
  BY <1>1 DEF WriteCommand, TakesCommand, Typed
<1>3. fdc.count \in 0..8 /\ fdc.expected \in 0..8 /\ fdc.count <= fdc.expected
  BY <1>1, FdcFields DEF Typed, Counted
<1>4. byte \in Byte
  BY <1>1, CommandBytesType
<1>5. CASE fdc.count < fdc.expected
  <2> DEFINE n == fdc.count + 1
             p == [fdc.params EXCEPT ![n] = byte]
             f == [fdc EXCEPT !.params = p, !.count = n]
  <2>1. fdc' = IF f.count = f.expected THEN Execute(f, disk) ELSE f
    BY <1>5 DEF WriteCommand
  <2>2. n \in 1..8 /\ n \in 0..8 /\ n <= fdc.expected
    BY <1>3, <1>5
  <2>3. p \in [1..8 -> Byte] /\ p[n] = byte
        /\ \A i \in 1..8 : i # n => p[i] = fdc.params[i]
    <3>1. fdc.params \in [1..8 -> Byte]
      BY <1>1, FdcFields
    <3> HIDE DEF n
    <3> QED BY <1>4, <2>2, <3>1
  <2>4. n = fdc.count + 1
    OBVIOUS
  <2> HIDE DEF n, p
  <2>5. f \in Fdc
    BY <1>1, <2>2, <2>3, Zenon DEF Fdc
  <2>6. /\ f.count = n /\ f.expected = fdc.expected /\ f.command = fdc.command
        /\ f.results = fdc.results /\ f.mode = fdc.mode /\ f.pos = fdc.pos
        /\ f.size = fdc.size /\ f.buffer = fdc.buffer /\ f.params = p
    BY <1>1 DEF Fdc
  <2> HIDE DEF f
  <2>7. f.expected = ParameterCount(f.command)
    BY <1>1, <1>5, <2>6 DEF Typed, Counted
  <2>8. Typed(f) /\ Within(f)
    <3>1. Counted(f)
      BY <2>2, <2>6, <2>7 DEF Counted
    <3>2. Within(f)
      BY <1>1, <2>6 DEF Within
    <3> QED BY <1>2, <2>5, <2>6, <3>1, <3>2 DEF Typed
  <2>9. CASE f.count = f.expected
    <3>1. Executed(f, disk, fdc')
      BY <1>1, <1>2, <2>1, <2>6, <2>8, <2>9, ExecuteType
    <3>2. PICK q \in Commands : /\ q[1] = fdc.command /\ byte = q[fdc.count + 2]
                                /\ \A i \in 1..fdc.count : q[i + 1] = fdc.params[i]
      BY <1>1, <1>5, CommandBytesType
    <3>3. \A i \in 1..f.expected : q[i + 1] = f.params[i]
      <4> TAKE i \in 1..f.expected
      <4>1. i \in 1..n /\ i \in 1..8
        BY <1>3, <2>2, <2>6, <2>9
      <4>2. CASE i = n
        <5>1. i + 1 = fdc.count + 2
          BY <1>3, <2>4, <4>2
        <5> QED BY <2>3, <2>6, <3>2, <4>2, <5>1
      <4>3. CASE i # n
        <5>1. i \in 1..fdc.count
          BY <1>3, <2>4, <4>1, <4>3
        <5> QED BY <2>3, <2>6, <3>2, <4>1, <4>3, <5>1
      <4> QED BY <4>2, <4>3
    <3>4. FromProgram(f)
      BY <2>6, <3>2, <3>3 DEF FromProgram
    <3> QED BY <1>2, <2>6, <2>7, <2>8, <2>9, <3>1, <3>4
  <2>10. CASE f.count # f.expected
    BY <1>2, <2>1, <2>6, <2>8, <2>10
  <2> QED BY <2>9, <2>10
<1>6. CASE ~(fdc.count < fdc.expected)
  <2> DEFINE m == ParameterCount(byte)
             f == [fdc EXCEPT !.command = byte, !.count = 0, !.expected = m]
  <2>1. fdc' = IF f.expected = 0 THEN Execute(f, disk) ELSE f
    BY <1>6 DEF WriteCommand
  <2>2. m \in 0..8 /\ 0 \in 0..8
    BY ParameterCountType
  <2>3. m = ParameterCount(byte)
    OBVIOUS
  <2> HIDE DEF m
  <2>4. f \in Fdc
    BY <1>1, <1>4, <2>2, Zenon DEF Fdc
  <2>5. /\ f.count = 0 /\ f.expected = m /\ f.command = byte
        /\ f.results = fdc.results /\ f.mode = fdc.mode /\ f.pos = fdc.pos
        /\ f.size = fdc.size /\ f.buffer = fdc.buffer
    BY <1>1 DEF Fdc
  <2> HIDE DEF f
  <2>6. Typed(f) /\ Within(f)
    <3>1. Counted(f)
      BY <2>2, <2>3, <2>5 DEF Counted
    <3>2. Within(f)
      BY <1>1, <2>5 DEF Within
    <3> QED BY <1>2, <2>4, <2>5, <3>1, <3>2 DEF Typed
  <2>7. CASE f.expected = 0
    <3>1. Executed(f, disk, fdc')
      BY <1>1, <1>2, <2>1, <2>5, <2>6, <2>7, ExecuteType
    <3>2. PICK q \in Commands : byte = q[1]
      BY <1>1, <1>6, CommandBytesType
    <3>3. FromProgram(f)
      BY <2>5, <2>7, <3>2 DEF FromProgram
    <3> QED BY <1>2, <2>3, <2>5, <2>6, <2>7, <3>1, <3>3
  <2>8. CASE f.expected # 0
    BY <1>2, <2>1, <2>5, <2>6, <2>8
  <2> QED BY <2>7, <2>8
<1> QED BY <1>5, <1>6


\* The controller with a data byte moved.
Took(f, byte) ==
  [f EXCEPT !.buffer = Append(@, byte), !.pos = @ + 1, !.since = -ByteTicks]
Gave(f) == [f EXCEPT !.pos = @ + 1, !.since = -ByteTicks]

Marks(f, e) ==
  /\ e.id_index = f.id_index /\ e.st1 = f.st1 /\ e.st2 = f.st2
  /\ e.last_bad = f.last_bad /\ e.repeats = f.repeats

LEMMA TookType ==
  ASSUME NEW f, Typed(f), Within(f), f.mode = "WRITE", f.results = <<>>,
         NEW byte \in Byte
  PROVE  LET e == Took(f, byte)
         IN  /\ Typed(e) /\ SameCommand(f, e) /\ Marks(f, e) /\ e.mode = "WRITE"
             /\ e.since = -ByteTicks /\ e.size = f.size /\ e.pos = f.pos + 1
             /\ e.buffer = Append(f.buffer, byte) /\ e.buffer \in Seq(Byte)
             /\ Len(e.buffer) = e.pos /\ e.pos <= e.size /\ e.size > 0
             /\ e.count = f.count /\ e.expected = f.expected /\ e.results = f.results
<1> DEFINE pos == f.pos + 1
           since == -ByteTicks
           buffer == Append(f.buffer, byte)
           e == [f EXCEPT !.buffer = buffer, !.pos = pos, !.since = since]
<1>1. f \in Fdc /\ Counted(f) /\ Len(f.results) <= 7
  BY DEF Typed
<1>2. /\ f.pos \in 0..BufferSize /\ f.size \in 0..BufferSize /\ f.buffer \in Seq(Byte)
      /\ f.pos < f.size /\ Len(f.buffer) = f.pos
  BY <1>1, FdcFields DEF Within
<1>3. pos \in 0..BufferSize /\ pos <= f.size /\ f.size > 0
  <2> DEFINE n == f.pos
             m == f.size
  <2>1. n \in 0..BufferSize /\ m \in 0..BufferSize /\ n < m /\ BufferSize \in Nat
    BY <1>2, SizeFacts
  <2> HIDE DEF n, m
  <2>2. n + 1 \in 0..BufferSize /\ n + 1 <= m /\ m > 0
    BY <2>1
  <2> QED BY <2>2 DEF n, m
<1>4. since \in -HalfRange..(HalfRange - 1)
  BY SizeFacts
<1>5. buffer \in Seq(Byte) /\ Len(buffer) = pos
  BY <1>2
<1>6. Took(f, byte) = e
  BY Zenon DEF Took
<1>7. pos = f.pos + 1
  OBVIOUS
<1> HIDE DEF buffer, pos, since
<1>8. e \in Fdc
  BY <1>1, <1>3, <1>4, <1>5, Zenon DEF Fdc
<1>9. /\ e.command = f.command /\ e.params = f.params /\ e.eot = f.eot
      /\ e.last_drive = f.last_drive /\ e.cylinder = f.cylinder /\ e.id = f.id
      /\ e.id_index = f.id_index /\ e.st1 = f.st1 /\ e.st2 = f.st2
      /\ e.last_bad = f.last_bad /\ e.repeats = f.repeats /\ e.mode = f.mode
      /\ e.since = since /\ e.size = f.size /\ e.pos = pos /\ e.buffer = buffer
      /\ e.count = f.count /\ e.expected = f.expected /\ e.results = f.results
  BY <1>1 DEF Fdc
<1> HIDE DEF e
<1>10. Typed(e)
  BY <1>1, <1>8, <1>9 DEF Typed, Counted
<1>11. SameCommand(f, e) /\ Marks(f, e)
  BY <1>9 DEF SameCommand, Marks
<1>12. e.since = -ByteTicks /\ e.buffer = Append(f.buffer, byte)
  BY <1>9 DEF since, buffer
<1> QED BY <1>3, <1>5, <1>6, <1>7, <1>9, <1>10, <1>11, <1>12

LEMMA GaveType ==
  ASSUME NEW f, Typed(f), Within(f), f.mode = "READ", f.pos < f.size
  PROVE  LET e == Gave(f)
         IN  /\ Typed(e) /\ SameCommand(f, e) /\ Marks(f, e) /\ e.mode = "READ"
             /\ e.since = -ByteTicks /\ e.size = f.size /\ e.pos = f.pos + 1
             /\ e.buffer = f.buffer /\ e.pos <= e.size
             /\ e.count = f.count /\ e.expected = f.expected /\ e.results = f.results
<1> DEFINE pos == f.pos + 1
           since == -ByteTicks
           e == [f EXCEPT !.pos = pos, !.since = since]
<1>1. f \in Fdc /\ Counted(f) /\ Len(f.results) <= 7
  BY DEF Typed
<1>2. f.pos \in 0..BufferSize /\ f.size \in 0..BufferSize
  BY <1>1, FdcFields
<1>3. pos \in 0..BufferSize /\ pos <= f.size
  <2> DEFINE n == f.pos
             m == f.size
  <2>1. n \in 0..BufferSize /\ m \in 0..BufferSize /\ n < m /\ BufferSize \in Nat
    BY <1>2, SizeFacts
  <2> HIDE DEF n, m
  <2>2. n + 1 \in 0..BufferSize /\ n + 1 <= m
    BY <2>1
  <2> QED BY <2>2 DEF n, m
<1>4. since \in -HalfRange..(HalfRange - 1)
  BY SizeFacts
<1>6. Gave(f) = e
  BY Zenon DEF Gave
<1>7. pos = f.pos + 1
  OBVIOUS
<1> HIDE DEF pos, since
<1>8. e \in Fdc
  BY <1>1, <1>3, <1>4, Zenon DEF Fdc
<1>9. /\ e.command = f.command /\ e.params = f.params /\ e.eot = f.eot
      /\ e.last_drive = f.last_drive /\ e.cylinder = f.cylinder /\ e.id = f.id
      /\ e.id_index = f.id_index /\ e.st1 = f.st1 /\ e.st2 = f.st2
      /\ e.last_bad = f.last_bad /\ e.repeats = f.repeats /\ e.mode = f.mode
      /\ e.since = since /\ e.size = f.size /\ e.pos = pos /\ e.buffer = f.buffer
      /\ e.count = f.count /\ e.expected = f.expected /\ e.results = f.results
  BY <1>1 DEF Fdc
<1> HIDE DEF e
<1>10. Typed(e)
  BY <1>1, <1>8, <1>9 DEF Typed, Counted
<1>11. SameCommand(f, e) /\ Marks(f, e)
  BY <1>9 DEF SameCommand, Marks
<1>12. e.since = -ByteTicks
  BY <1>9 DEF since
<1> QED BY <1>3, <1>6, <1>7, <1>9, <1>10, <1>11, <1>12

\* A byte of the CPU: within the sector, or its last.
LEMMA WriteByteEffect ==
  ASSUME IInv, NEW byte \in HostBytes, WriteByte(byte)
  PROVE  LET f == Took(fdc, byte)
         IN  /\ Typed(f) /\ f.size > 0
             /\ \/ f.pos < f.size /\ fdc' = f /\ disk' = disk
                \/ /\ f.pos = f.size /\ fdc' = CompleteWrite(f, disk)
                   /\ disk' = DiskAfterWrite(f, disk)
<1> DEFINE f == Took(fdc, byte)
<1>1. Typed(fdc) /\ Within(fdc) /\ byte \in Byte
  BY ProgramFacts DEF IInv
<1>2. fdc.mode = "WRITE" /\ fdc.results = <<>>
  BY DEF WriteByte
<1>3. Typed(f) /\ f.pos <= f.size /\ f.size > 0
  BY <1>1, <1>2, TookType
<1>4. IF f.pos = f.size
      THEN fdc' = CompleteWrite(f, disk) /\ disk' = DiskAfterWrite(f, disk)
      ELSE fdc' = f /\ disk' = disk
  BY Zenon DEF WriteByte, Took
<1>5. f.pos \in Nat /\ f.size \in Nat
  BY <1>3, FdcFields, SizeFacts DEF Typed
<1> HIDE DEF f
<1>6. f.pos # f.size => f.pos < f.size
  BY <1>3, <1>5
<1> QED BY <1>3, <1>4, <1>6 DEF f

LEMMA ReadByteEffect ==
  ASSUME IInv, ReadByte
  PROVE  LET f == Gave(fdc)
         IN  /\ Typed(f)
             /\ \/ f.pos < f.size /\ fdc' = f
                \/ f.pos = f.size /\ fdc' = CompleteRead(f, disk)
<1> DEFINE f == Gave(fdc)
<1>1. Typed(fdc) /\ Within(fdc)
  BY DEF IInv
<1>2. fdc.mode = "READ" /\ fdc.pos < fdc.size
  BY DEF ReadByte
<1>3. Typed(f) /\ f.pos <= f.size
  BY <1>1, <1>2, GaveType
<1>4. IF f.pos = f.size THEN fdc' = CompleteRead(f, disk) ELSE fdc' = f
  BY Zenon DEF ReadByte, Gave
<1>5. f.pos \in Nat /\ f.size \in Nat
  BY <1>3, FdcFields, SizeFacts DEF Typed
<1> HIDE DEF f
<1>6. f.pos # f.size => f.pos < f.size
  BY <1>3, <1>5
<1> QED BY <1>3, <1>4, <1>6 DEF f
-----------------------------------------------------------------------------
(* The invariant holds at first and is kept by every action.                *)

LEMMA ClearedType ==
  /\ Typed(Cleared) /\ Within(Cleared) /\ Cleared.mode = "NONE"
<1> DEFINE params == [i \in 1..8 |-> 0]
           cylinder == [d \in Drives |-> 0]
           id_index == [d \in Drives |-> [h \in {0, 1} |-> 0]]
<1>1. 0 \in Byte /\ 0 \in 0..8 /\ 0 \in Drives /\ <<>> \in Seq(Byte)
      /\ "NONE" \in {"NONE", "READ", "WRITE"} /\ FALSE \in BOOLEAN
      /\ 0 \in 0..BufferSize /\ 0 \in -HalfRange..(HalfRange - 1) /\ Len(<<>>) = 0
  BY SizeFacts DEF Byte, Drives
<1>2. NoId \in Id
  BY <1>1 DEF NoId, Id
<1>3. params \in [1..8 -> Byte] /\ cylinder \in [Drives -> Byte]
      /\ id_index \in [Drives -> [{0, 1} -> Byte]]
  BY <1>1
<1> HIDE DEF params, cylinder, id_index
<1>4. Cleared \in Fdc
  BY <1>1, <1>2, <1>3, Zenon DEF Cleared, Fdc, params, cylinder, id_index
<1>5. /\ Cleared.count = 0 /\ Cleared.expected = 0 /\ Cleared.mode = "NONE"
      /\ Cleared.pos = 0 /\ Cleared.results = <<>>
  BY DEF Cleared
<1> QED BY <1>1, <1>4, <1>5 DEF Typed, Counted, Within

LEMMA LoadedType ==
  ASSUME NEW image, IsImage(image), NEW r \in BOOLEAN
  PROVE  /\ IsDisk(Loaded(image, r)) /\ Loaded(image, r).inserted
         /\ Loaded(image, r).tracks = image
<1>1. Loaded(image, r) \in [inserted : BOOLEAN, dirty : BOOLEAN,
                            read_only : BOOLEAN, tracks : {image}]
  BY DEF Loaded
<1>2. Loaded(image, r).tracks = image /\ Loaded(image, r).inserted
  BY DEF Loaded
<1> QED BY <1>1, <1>2 DEF IsDisk

LEMMA NoDiskType == IsDisk(NoDisk) /\ ~NoDisk.inserted
<1>1. NoDisk \in [inserted : BOOLEAN, dirty : BOOLEAN, read_only : BOOLEAN,
                  tracks : {<<>>}]
  BY DEF NoDisk
<1>2. NoDisk.tracks = <<>> /\ ~NoDisk.inserted
  BY DEF NoDisk
<1>3. IsImage(<<>>)
  BY DEF IsImage
<1> QED BY <1>1, <1>2, <1>3 DEF IsDisk

LEMMA InitInvariant == Init => IInv
<1> SUFFICES ASSUME Init PROVE IInv
  OBVIOUS
<1>1. software \in DOMAIN Software /\ fdc = Cleared /\ disk = NoDisk
      /\ file = Software[software].image
  BY DEF Init
<1>2. IsImage(file)
  BY <1>1, ProgramFacts
<1> QED BY <1>1, <1>2, ClearedType, NoDiskType DEF IInv, SavedOrDirty


LEMMA WriteCommandSound ==
  ASSUME IInv, NEW byte \in CommandBytes(fdc), WriteCommand(byte)
  PROVE  IInv'
<1>1. PICK f : /\ Typed(f) /\ Within(f)
               /\ \/ fdc' = f
                  \/ Executed(f, disk, fdc')
  BY CommandEffect
<1>2. Typed(fdc') /\ Within(fdc')
  BY <1>1 DEF Executed, Idles, WriteBegun, Begins
<1>3. UNCHANGED <<software, disk, file>>
  BY DEF WriteCommand
<1> QED BY <1>2, <1>3 DEF IInv, Typed, Within, Counted, SavedOrDirty

LEMMA WriteByteSound ==
  ASSUME IInv, NEW byte \in HostBytes, WriteByte(byte)
  PROVE  IInv'
<1> DEFINE f == Took(fdc, byte)
<1>1. Typed(fdc) /\ Within(fdc) /\ byte \in Byte /\ IsDisk(disk)
  BY ProgramFacts DEF IInv
<1>2. fdc.mode = "WRITE" /\ fdc.results = <<>>
  BY DEF WriteByte
<1>3. Typed(f) /\ f.mode = "WRITE" /\ Len(f.buffer) = f.pos /\ f.size > 0
  BY <1>1, <1>2, TookType
<1>4. UNCHANGED <<software, file>>
  BY DEF WriteByte
<1>5. CASE f.pos < f.size /\ fdc' = f /\ disk' = disk
  <2>1. Within(f)
    BY <1>3, <1>5 DEF Within
  <2> HIDE DEF f
  <2> QED BY <1>3, <1>4, <1>5, <2>1 DEF IInv, SavedOrDirty, Typed, Within, Counted
<1>6. CASE /\ f.pos = f.size /\ fdc' = CompleteWrite(f, disk)
           /\ disk' = DiskAfterWrite(f, disk)
  <2> HIDE DEF f
  <2>1. Typed(fdc') /\ Within(fdc')
    BY <1>1, <1>3, <1>6, CompleteWriteType DEF Ends, Begins
  <2>2. IsDisk(disk') /\ (disk' # disk => disk'.dirty)
    BY <1>1, <1>3, <1>6, DiskAfterWriteType DEF Typed
  <2> QED BY <1>4, <2>1, <2>2 DEF IInv, SavedOrDirty, Typed, Within, Counted
<1> QED BY <1>5, <1>6, WriteByteEffect

LEMMA ReadByteSound ==
  ASSUME IInv, ReadByte
  PROVE  IInv'
<1> DEFINE f == Gave(fdc)
<1>1. Typed(fdc) /\ Within(fdc) /\ IsDisk(disk)
  BY DEF IInv
<1>2. fdc.mode = "READ" /\ fdc.pos < fdc.size
  BY DEF ReadByte
<1>3. Typed(f) /\ f.mode = "READ"
  BY <1>1, <1>2, GaveType
<1>4. UNCHANGED <<software, disk, file>>
  BY DEF ReadByte
<1>5. Typed(fdc') /\ Within(fdc')
  <2> HIDE DEF f
  <2>1. CASE f.pos < f.size /\ fdc' = f
    BY <1>3, <2>1 DEF Within
  <2>2. CASE f.pos = f.size /\ fdc' = CompleteRead(f, disk)
    BY <1>1, <1>3, <2>2, CompleteReadType DEF Ends, Begins
  <2> QED BY <2>1, <2>2, ReadByteEffect DEF f
<1> QED BY <1>4, <1>5 DEF IInv, SavedOrDirty, Typed, Within, Counted

LEMMA ReadResultSound ==
  ASSUME IInv, ReadResult
  PROVE  IInv'
<1> DEFINE results == Tail(fdc.results)
           f == [fdc EXCEPT !.results = results]
<1>1. fdc \in Fdc /\ Counted(fdc) /\ Len(fdc.results) <= 7 /\ Within(fdc)
  BY DEF IInv, Typed
<1>2. fdc.results \in Seq(Byte) /\ fdc.results # <<>>
  BY <1>1, FdcFields DEF ReadResult
<1>3. results \in Seq(Byte) /\ Len(results) <= 7
  BY <1>1, <1>2
<1>4. fdc' = f /\ UNCHANGED <<software, disk, file>>
  BY DEF ReadResult
<1> HIDE DEF results
<1>5. f \in Fdc
  BY <1>1, <1>3, Zenon DEF Fdc
<1>6. /\ f.command = fdc.command /\ f.count = fdc.count
      /\ f.expected = fdc.expected /\ f.results = results
      /\ f.mode = fdc.mode /\ f.pos = fdc.pos /\ f.size = fdc.size
      /\ f.buffer = fdc.buffer
  BY <1>1 DEF Fdc
<1> HIDE DEF f
<1>7. Typed(f) /\ Within(f)
  BY <1>1, <1>3, <1>5, <1>6 DEF Typed, Counted, Within
<1> QED BY <1>4, <1>7 DEF IInv, SavedOrDirty, Typed, Within, Counted

LEMMA TickSound ==
  ASSUME IInv, Tick
  PROVE  IInv'
<1> DEFINE since == Ticks(fdc.since)
           f == [fdc EXCEPT !.since = since]
<1>1. fdc \in Fdc /\ Counted(fdc) /\ Len(fdc.results) <= 7 /\ Within(fdc)
  BY DEF IInv, Typed
<1>2. fdc.since \in -HalfRange..(HalfRange - 1)
  BY <1>1, FdcFields
<1>3. since \in -HalfRange..(HalfRange - 1)
  <2> DEFINE n == fdc.since
  <2>1. n \in -HalfRange..(HalfRange - 1) /\ HalfRange \in Nat /\ HalfRange > 0
    BY <1>2, SizeFacts
  <2>2. since = IF n + 1 < HalfRange THEN n + 1 ELSE -HalfRange
    BY DEF Ticks
  <2> HIDE DEF n, since
  <2> QED BY <2>1, <2>2
<1>4. fdc' = f /\ UNCHANGED <<software, disk, file>>
  BY DEF Tick
<1> HIDE DEF since
<1>5. f \in Fdc
  BY <1>1, <1>3, Zenon DEF Fdc
<1>6. /\ f.command = fdc.command /\ f.count = fdc.count
      /\ f.expected = fdc.expected /\ f.results = fdc.results
      /\ f.mode = fdc.mode /\ f.pos = fdc.pos /\ f.size = fdc.size
      /\ f.buffer = fdc.buffer
  BY <1>1 DEF Fdc
<1> HIDE DEF f
<1>7. Typed(f) /\ Within(f)
  BY <1>1, <1>5, <1>6 DEF Typed, Counted, Within
<1> QED BY <1>4, <1>7 DEF IInv, SavedOrDirty, Typed, Within, Counted

LEMMA SaveDiskType ==
  ASSUME IInv, SaveDisk
  PROVE  /\ IsDisk(disk') /\ disk'.inserted /\ ~disk'.dirty
         /\ disk'.tracks = disk.tracks /\ disk'.inserted = disk.inserted
<1>1. PICK T : disk \in [inserted : BOOLEAN, dirty : BOOLEAN, read_only : BOOLEAN,
                         tracks : T]
  BY DEF IInv, IsDisk
<1> DEFINE e == [disk EXCEPT !.dirty = FALSE]
<1>2. disk' = e /\ disk.inserted
  BY DEF SaveDisk
<1>3. e \in [inserted : BOOLEAN, dirty : BOOLEAN, read_only : BOOLEAN, tracks : T]
  BY <1>1
<1>4. e.inserted = disk.inserted /\ e.tracks = disk.tracks /\ ~e.dirty
  BY <1>1
<1> HIDE DEF e
<1>5. IsDisk(e)
  BY <1>3, <1>4 DEF IInv, IsDisk
<1> QED BY <1>2, <1>4, <1>5

LEMMA WindowSound ==
  ASSUME IInv,
         \/ Reset
         \/ SaveDisk
         \/ EjectDisk
         \/ \E image \in {Software[software].image, file}, r \in ReadOnly :
              InsertDisk(image, r)
  PROVE  IInv'
<1>1. CASE Reset
  <2>1. fdc' = Cleared /\ UNCHANGED <<software, disk, file>>
    BY <1>1 DEF Reset
  <2> QED BY <2>1, ClearedType DEF IInv, SavedOrDirty, Typed, Within, Counted
<1>2. CASE SaveDisk
  <2>1. file' = disk.tracks /\ UNCHANGED <<software, fdc>>
    BY <1>2 DEF SaveDisk
  <2>2. IsImage(disk.tracks)
    BY DEF IInv, IsDisk
  <2>3. disk'.tracks = disk.tracks /\ ~disk'.dirty /\ IsDisk(disk')
    BY <1>2, SaveDiskType
  <2> QED BY <2>1, <2>2, <2>3 DEF IInv, SavedOrDirty, Typed, Within, Counted
<1>3. CASE EjectDisk
  <2>1. disk' = NoDisk /\ fdc' = Cleared /\ UNCHANGED <<software, file>>
    BY <1>3 DEF EjectDisk
  <2> QED BY <2>1, ClearedType, NoDiskType
          DEF IInv, SavedOrDirty, Typed, Within, Counted
<1>4. ASSUME NEW image \in {Software[software].image, file}, NEW r \in ReadOnly,
             InsertDisk(image, r)
      PROVE  IInv'
  <2>1. /\ disk' = Loaded(image, r) /\ file' = image /\ fdc' = Cleared
        /\ software' = software
    BY <1>4 DEF InsertDisk
  <2>2. IsImage(image) /\ r \in BOOLEAN
    BY ProgramFacts DEF IInv
  <2>3. IsDisk(Loaded(image, r)) /\ Loaded(image, r).tracks = image
    BY <2>2, LoadedType
  <2> QED BY <2>1, <2>2, <2>3, ClearedType
          DEF IInv, SavedOrDirty, Typed, Within, Counted
<1> QED BY <1>1, <1>2, <1>3, <1>4

LEMMA NextInvariant == IInv /\ [Next]_vars => IInv'
<1> SUFFICES ASSUME IInv, [Next]_vars PROVE IInv'
  OBVIOUS
<1>1. CASE UNCHANGED vars
  BY <1>1 DEF vars, IInv, SavedOrDirty, Typed, Within, Counted
<1>2. ASSUME NEW byte \in CommandBytes(fdc), WriteCommand(byte) PROVE IInv'
  BY <1>2, WriteCommandSound
<1>3. ASSUME NEW byte \in HostBytes, WriteByte(byte) PROVE IInv'
  BY <1>3, WriteByteSound
<1>4. CASE ReadByte
  BY <1>4, ReadByteSound
<1>5. CASE ReadResult
  BY <1>5, ReadResultSound
<1>6. CASE Tick
  BY <1>6, TickSound
<1>7. ASSUME \/ Reset
             \/ SaveDisk
             \/ EjectDisk
             \/ \E image \in {Software[software].image, file}, r \in ReadOnly :
                  InsertDisk(image, r)
      PROVE  IInv'
  BY <1>7, WindowSound
<1> QED BY <1>1, <1>2, <1>3, <1>4, <1>5, <1>6, <1>7 DEF Next

THEOREM AlwaysInvariant == Spec => []IInv
<1> QED BY InitInvariant, NextInvariant, PTL DEF Spec

\* The controller's registers keep their types, and a transfer is always short
\* of the end of its sector, which fits the buffer of 8192 bytes: the index
\* that a data byte is read from or written to is inside it.
THEOREM TypeCorrect == Spec => []TypeOK
<1> QED BY AlwaysInvariant, InvariantTyped, PTL
-----------------------------------------------------------------------------
(* With R and N enough to tell the sectors of a track, the sector that is   *)
(* read or written is the one that was found.                               *)

NumbersTellSectors == \A s \in DOMAIN Software : NumbersTell(Software[s].image)

LEMMA OneSector ==
  ASSUME NEW f \in Fdc, NEW d, IsDisk(d), NumbersTell(d.tracks), Found(f, d) # 0
  PROVE  LET t == TrackOf(f, d)
         IN  /\ Numbered(t, f.id) = Found(f, d) /\ Found(f, d) \in DOMAIN t
             /\ IdOf(t[Found(f, d)]) = f.id
<1> DEFINE place == <<CylinderOf(f), HeadIn(f)>>
           t == TrackOf(f, d)
           i == Found(f, d)
           j == Numbered(t, f.id)
           same == {k \in DOMAIN t : t[k].r = f.id.r /\ f.id.n \in {t[k].n, 255}}
<1>1. t \in Seq(Sectors)
  BY TrackType DEF TrackOf
<1>2. i \in DOMAIN t /\ IdOf(t[i]) = f.id
  BY FoundType
<1>3. t = IF DriveReady(d, f.last_drive) /\ place \in DOMAIN d.tracks
          THEN d.tracks[place] ELSE <<>>
  BY Zenon DEF TrackOf, Track
<1>4. place \in DOMAIN d.tracks /\ t = d.tracks[place]
  BY <1>2, <1>3
<1>5. \A k, l \in DOMAIN t : /\ t[k].n # 255
                             /\ t[k].r = t[l].r /\ t[k].n = t[l].n => k = l
  BY <1>4 DEF NumbersTell
<1>6. t[i].r = f.id.r /\ t[i].n = f.id.n
  <2>1. t[i] \in Sectors
    BY <1>1, <1>2, ElementOfSeq
  <2> QED BY <1>2, <2>1, SectorFields
<1>7. i \in same
  BY <1>2, <1>6
<1>8. j # 0 /\ j \in same
  <2>1. j = IF same = {} THEN 0 ELSE Min(same)
    BY Zenon DEF Numbered
  <2>2. same \in SUBSET Nat /\ 0 \notin same
    BY <1>1
  <2> QED BY <1>7, <2>1, <2>2, LeastIn
<1>9. f.id.n # 255
  BY <1>2, <1>5, <1>6
<1>10. j \in DOMAIN t /\ t[j].r = f.id.r /\ t[j].n = f.id.n
  BY <1>8, <1>9
<1> HIDE DEF i, j, t, same, place
<1>11. i = j
  BY <1>2, <1>5, <1>6, <1>10
<1> QED BY <1>2, <1>11 DEF i, j, t

\* The sector that came under the head last.
Behind(f, d) ==
  LET track == TrackOf(f, d)
      next  == f.id_index[f.last_drive][HeadIn(f)]
  IN track[IF next = 0 THEN Len(track) ELSE next]

MatchedIn(f, d) ==
  /\ IdOf(Behind(f, d)) = f.id /\ f.st1 = Behind(f, d).st1
  /\ \/ f.buffer = Behind(f, d).data
     \/ IsWeak(Behind(f, d)) /\ f.repeats /\ f.buffer = Varied(Behind(f, d).data)

\* Whether a sector is the last of its track or not, the head is behind it.
LEMMA BehindFound ==
  ASSUME NEW f \in Fdc, NEW d, IsDisk(d), Found(f, d) # 0, NEW e,
         SameCommand(f, e),
         e.id_index[f.last_drive][HeadIn(f)] = Found(f, d) % Len(TrackOf(f, d))
  PROVE  TrackOf(e, d) = TrackOf(f, d) /\ Behind(e, d) = TrackOf(f, d)[Found(f, d)]
<1> DEFINE t == TrackOf(f, d)
           i == Found(f, d)
           n == Len(t)
           next == e.id_index[f.last_drive][HeadIn(f)]
<1>1. TrackOf(e, d) = t /\ e.last_drive = f.last_drive /\ HeadIn(e) = HeadIn(f)
  BY DEF SameCommand, TrackOf, HeadIn, CylinderOf
<1>2. i \in 1..n /\ n \in Nat
  <2>1. t \in Seq(Sectors)
    BY TrackType DEF TrackOf
  <2>2. i \in DOMAIN t
    BY FoundType
  <2> QED BY <2>1, <2>2
<1>3. next = i % n
  OBVIOUS
<1>4. Behind(e, d) = t[IF next = 0 THEN n ELSE next]
  BY <1>1, Zenon DEF Behind
<1> HIDE DEF t, i, n, next
<1>5. (IF next = 0 THEN n ELSE next) = i
  BY <1>2, <1>3
<1> QED BY <1>1, <1>4, <1>5 DEF t, i

LEMMA LoadReadSectorMatches ==
  ASSUME NEW f, Typed(f), NEW d, IsDisk(d), NumbersTell(d.tracks),
         LoadReadSector(f, d).mode = "READ"
  PROVE  MatchedIn(LoadReadSector(f, d), d)
<1> DEFINE t == TrackOf(f, d)
           i == Numbered(t, f.id)
           p == Passed(f, d)
           e == LoadReadSector(f, d)
<1>1. f \in Fdc
  BY DEF Typed
<1>2. NotReady(f).mode = "NONE" /\ NoData(f).mode = "NONE"
  BY <1>1, ErrorType DEF Ends
<1>3. e = IF ~DriveReady(d, f.last_drive) THEN NotReady(f)
          ELSE IF Found(f, d) = 0 THEN NoData(f)
          ELSE IF ~Readable(t, f.id) THEN NoData(p)
          ELSE StartRead(p, t[i])
  BY Zenon DEF LoadReadSector
<1>4. Found(f, d) # 0
  BY <1>2, <1>3
<1>5. p \in Fdc /\ Typed(p) /\ SameCommand(f, p)
      /\ p.id_index[f.last_drive][HeadIn(f)] = Found(f, d) % Len(t)
  BY <1>1, <1>4, PassedType, PassedTyped
<1>6. NoData(p).mode = "NONE"
  BY <1>5, ErrorType DEF Ends
<1>7. Readable(t, f.id) /\ e = StartRead(p, t[i])
  BY <1>2, <1>3, <1>6
<1> DEFINE s == t[i]
<1>8. i = Found(f, d) /\ i \in DOMAIN t /\ IdOf(s) = f.id
  BY <1>1, <1>4, OneSector
<1>9. t \in Seq(Sectors)
  BY TrackType DEF TrackOf
<1>10. s \in Sectors /\ Len(s.data) \in 1..BufferSize
  <2>1. s \in Sectors
    BY <1>8, <1>9, ElementOfSeq
  <2>2. Len(s.data) \in 1..BufferSize
    BY <1>7 DEF Readable
  <2> QED BY <2>1, <2>2
<1>11. /\ SameCommand(p, e) /\ e.st1 = s.st1 /\ e.id_index = p.id_index
       /\ \/ e.buffer = s.data
          \/ IsWeak(s) /\ e.repeats /\ e.buffer = Varied(s.data)
  <2> HIDE DEF s, p
  <2> QED BY <1>5, <1>7, <1>10, StartReadType DEF s
<1> HIDE DEF e, p
<1>12. SameCommand(f, e)
  BY <1>5, <1>11 DEF SameCommand
<1>13. Behind(e, d) = s
  BY <1>1, <1>4, <1>5, <1>8, <1>11, <1>12, BehindFound
<1>14. e.id = f.id
  BY <1>12 DEF SameCommand
<1> HIDE DEF s, t, i
<1>15. MatchedIn(e, d)
  BY <1>8, <1>11, <1>13, <1>14 DEF MatchedIn
<1> QED BY <1>15 DEF e

LEMMA OtherTracksKept ==
  ASSUME NEW f \in Fdc, NEW d, IsDisk(d), Len(f.buffer) = f.size, SectorWritable(f, d),
         NEW p \in DOMAIN d.tracks, p # <<CylinderOf(f), HeadIn(f)>>
  PROVE  DiskAfterWrite(f, d).tracks[p] = d.tracks[p]
<1> DEFINE c == CylinderOf(f)
           h == HeadIn(f)
           data == Padded(f)
           deleting == Deleting(f)
           id == f.id
           q == d.tracks[<<c, h>>]
           i == Numbered(TrackOf(f, d), f.id)
           e == Stored(d, c, h, id, data, deleting)
<1>1. DiskAfterWrite(f, d) = e
  BY Zenon DEF SectorWritable, DiskAfterWrite, Deleting
<1>2. f.buffer \in Seq(Byte)
  BY FdcFields
<1>3. /\ TrackOf(f, d) \in Seq(Sectors) /\ i \in DOMAIN TrackOf(f, d)
      /\ data \in Seq(Byte) /\ <<c, h>> \in DOMAIN d.tracks /\ TrackOf(f, d) = q
  BY <1>2, WrittenSector
<1>4. i # 0 /\ deleting \in BOOLEAN
  BY <1>3 DEF Deleting
<1>5. Numbered(q, id) # 0 /\ p # <<c, h>>
  BY <1>3, <1>4
<1> HIDE DEF c, h, data, deleting, id
<1>6. \A x \in DOMAIN d.tracks : x # <<c, h>> => e.tracks[x] = d.tracks[x]
  BY <1>3, <1>4, <1>5, StoredType
<1> HIDE DEF e
<1> QED BY <1>1, <1>5, <1>6

LEMMA NumbersTellAfterWrite ==
  ASSUME NEW f \in Fdc, NEW d, IsDisk(d), NumbersTell(d.tracks), Len(f.buffer) = f.size
  PROVE  NumbersTell(DiskAfterWrite(f, d).tracks)
<1>1. CASE ~SectorWritable(f, d)
  BY <1>1 DEF DiskAfterWrite
<1>2. CASE SectorWritable(f, d)
  <2> DEFINE t == TrackOf(f, d)
             i == Numbered(t, f.id)
             place == <<CylinderOf(f), HeadIn(f)>>
             e == DiskAfterWrite(f, d)
             u == Rewritten(t, i, Padded(f), Deleting(f))
  <2>1. f.buffer \in Seq(Byte)
    BY FdcFields
  <2>2. /\ t \in Seq(Sectors) /\ i \in DOMAIN t /\ Padded(f) \in Seq(Byte)
        /\ DOMAIN e.tracks = DOMAIN d.tracks /\ place \in DOMAIN d.tracks
        /\ t = d.tracks[place] /\ e.tracks[place] = u
        /\ \A p \in DOMAIN d.tracks : p # place => e.tracks[p] = d.tracks[p]
    <3>1. t \in Seq(Sectors) /\ i \in DOMAIN t /\ Padded(f) \in Seq(Byte)
      BY <1>2, <2>1, WrittenSector
    <3>2. DOMAIN e.tracks = DOMAIN d.tracks /\ place \in DOMAIN d.tracks
      BY <1>2, <2>1, WrittenSector
    <3>3. t = d.tracks[place]
      BY <1>2, <2>1, WrittenSector
    <3>4. e.tracks[place] = u
      BY <1>2, <2>1, WrittenSector
    <3>5. ASSUME NEW p \in DOMAIN d.tracks, p # place
          PROVE  e.tracks[p] = d.tracks[p]
      BY <1>2, <3>5, OtherTracksKept
    <3> QED BY <3>1, <3>2, <3>3, <3>4, <3>5
  <2>3. DOMAIN u = DOMAIN t /\ \A j \in DOMAIN t : u[j].r = t[j].r /\ u[j].n = t[j].n
    <3> DEFINE data == Padded(f)
               deleting == Deleting(f)
    <3>1. deleting \in BOOLEAN /\ data \in Seq(Byte) /\ t \in Seq(Sectors) /\ i \in DOMAIN t
      BY <2>2 DEF Deleting
    <3> HIDE DEF data, deleting, t, i
    <3>2. LET w == Rewritten(t, i, data, deleting)
          IN  DOMAIN w = DOMAIN t /\ \A j \in DOMAIN t : w[j].r = t[j].r /\ w[j].n = t[j].n
      BY <3>1, RewrittenType
    <3> QED BY <3>2 DEF data, deleting
  <2> HIDE DEF e, u, place, i, t
  <2>4. \A p \in DOMAIN d.tracks :
          /\ DOMAIN e.tracks[p] = DOMAIN d.tracks[p]
          /\ \A j \in DOMAIN d.tracks[p] : /\ e.tracks[p][j].r = d.tracks[p][j].r
                                           /\ e.tracks[p][j].n = d.tracks[p][j].n
    BY <2>2, <2>3
  <2>5. NumbersTell(e.tracks)
    BY <2>2, <2>4 DEF NumbersTell
  <2> QED BY <2>5 DEF e
<1> QED BY <1>1, <1>2

Tell == NumbersTell(disk.tracks) /\ NumbersTell(file)

LEMMA InitTell ==
  ASSUME NumbersTellSectors, Init
  PROVE  Tell
<1>1. software \in DOMAIN Software /\ disk = NoDisk /\ file = Software[software].image
  BY DEF Init
<1>2. NoDisk.tracks = <<>>
  BY DEF NoDisk
<1>3. NumbersTell(<<>>)
  BY DEF NumbersTell
<1> QED BY <1>1, <1>2, <1>3 DEF Tell, NumbersTellSectors

LEMMA TellKept ==
  ASSUME NumbersTellSectors, IInv, Tell, [Next]_vars
  PROVE  Tell'
<1>1. CASE disk' = disk /\ file' = file
  BY <1>1 DEF Tell
<1>2. ASSUME NEW byte \in HostBytes, WriteByte(byte)
      PROVE  Tell'
  <2> DEFINE f == Took(fdc, byte)
  <2>1. Typed(fdc) /\ Within(fdc) /\ byte \in Byte /\ IsDisk(disk)
        /\ fdc.mode = "WRITE" /\ fdc.results = <<>> /\ file' = file
    BY <1>2, ProgramFacts DEF IInv, WriteByte
  <2>2. Typed(f) /\ Len(f.buffer) = f.pos
    BY <2>1, TookType
  <2>3. CASE disk' = disk
    BY <2>1, <2>3 DEF Tell
  <2>4. CASE f.pos = f.size /\ disk' = DiskAfterWrite(f, disk)
    <3> HIDE DEF f
    <3>1. NumbersTell(DiskAfterWrite(f, disk).tracks)
      BY <2>1, <2>2, <2>4, NumbersTellAfterWrite DEF Tell, Typed
    <3> QED BY <2>1, <2>4, <3>1 DEF Tell
  <2> QED BY <1>2, <2>3, <2>4, WriteByteEffect
<1>3. CASE SaveDisk
  <2>1. file' = disk.tracks
    BY <1>3 DEF SaveDisk
  <2>2. disk'.tracks = disk.tracks
    BY <1>3, SaveDiskType
  <2> QED BY <2>1, <2>2 DEF Tell
<1>4. CASE EjectDisk
  <2>1. disk' = NoDisk /\ file' = file
    BY <1>4 DEF EjectDisk
  <2>2. NoDisk.tracks = <<>>
    BY DEF NoDisk
  <2>3. NumbersTell(<<>>)
    BY DEF NumbersTell
  <2> QED BY <2>1, <2>2, <2>3 DEF Tell
<1>5. ASSUME NEW image \in {Software[software].image, file}, NEW r \in ReadOnly,
             InsertDisk(image, r)
      PROVE  Tell'
  <2>1. disk' = Loaded(image, r) /\ file' = image
    BY <1>5 DEF InsertDisk
  <2>2. Loaded(image, r).tracks = image
    BY DEF Loaded
  <2>3. NumbersTell(image)
    BY DEF IInv, Tell, NumbersTellSectors
  <2> QED BY <2>1, <2>2, <2>3 DEF Tell
<1>6. ASSUME \/ UNCHANGED vars
             \/ \E byte \in CommandBytes(fdc) : WriteCommand(byte)
             \/ ReadByte \/ ReadResult \/ Tick \/ Reset
      PROVE  disk' = disk /\ file' = file
  BY <1>6, Zenon DEF vars, WriteCommand, ReadByte, ReadResult, Tick, Reset
<1> QED BY <1>1, <1>2, <1>3, <1>4, <1>5, <1>6 DEF Next

\* A program that minds the status has no command taken while a transfer goes on.
LEMMA CommandWaits ==
  ASSUME ObeysStatus, NEW byte, WriteCommand(byte), Typed(fdc)
  PROVE  fdc.mode = "NONE"
<1>1. fdc.results = <<>> /\ fdc.mode # "WRITE" /\ Status(fdc) \in {128, 144}
  BY DEF WriteCommand, TakesCommand
<1>2. fdc.mode \in {"NONE", "READ", "WRITE"}
  BY FdcFields DEF Typed
<1>3. fdc.mode = "READ" => Status(fdc) \in {240, 112}
  BY <1>1 DEF Status
<1> QED BY <1>1, <1>2, <1>3

LEMMA SameMatched ==
  ASSUME NEW f, NEW e, SameCommand(f, e), e.id_index = f.id_index, e.st1 = f.st1,
         e.buffer = f.buffer, e.repeats = f.repeats,
         NEW d, NEW d2, d2.tracks = d.tracks, d2.inserted = d.inserted, MatchedIn(f, d)
  PROVE  MatchedIn(e, d2)
<1>1. Behind(e, d2) = Behind(f, d)
  BY DEF SameCommand, Behind, TrackOf, HeadIn, CylinderOf, Track, DriveReady
<1> QED BY <1>1 DEF MatchedIn, SameCommand

LEMMA MatchedReading ==
  MatchedSector <=> (fdc.mode = "READ" /\ ObeysStatus => MatchedIn(fdc, disk))
<1>1. Matched = Behind(fdc, disk)
  BY Zenon DEF Matched, Behind
<1> QED BY <1>1 DEF MatchedSector, MatchedIn

LEMMA CommandMatched ==
  ASSUME IInv, Tell, ObeysStatus, NEW byte \in CommandBytes(fdc), WriteCommand(byte),
         fdc'.mode = "READ"
  PROVE  MatchedIn(fdc', disk)
<1>1. Typed(fdc) /\ IsDisk(disk) /\ NumbersTell(disk.tracks)
  BY DEF IInv, Tell
<1>2. fdc.mode = "NONE"
  BY <1>1, CommandWaits
<1>3. PICK f : /\ f.mode = fdc.mode
               /\ \/ fdc' = f
                  \/ Executed(f, disk, fdc')
  BY CommandEffect
<1>4. Executed(f, disk, fdc') /\ f.mode = "NONE"
  BY <1>2, <1>3
<1>5. PICK g : Typed(g) /\ fdc' = LoadReadSector(g, disk)
  BY <1>4 DEF Executed, Idles, WriteBegun, Begins
<1> QED BY <1>1, <1>5, LoadReadSectorMatches

LEMMA ReadMatched ==
  ASSUME IInv, Tell, ReadByte, MatchedIn(fdc, disk), fdc'.mode = "READ"
  PROVE  MatchedIn(fdc', disk)
<1> DEFINE f == Gave(fdc)
<1>1. Typed(fdc) /\ Within(fdc) /\ IsDisk(disk) /\ NumbersTell(disk.tracks)
  BY DEF IInv, Tell
<1>2. fdc.mode = "READ" /\ fdc.pos < fdc.size
  BY DEF ReadByte
<1>3. Typed(f) /\ SameCommand(fdc, f) /\ Marks(fdc, f) /\ f.buffer = fdc.buffer
  BY <1>1, <1>2, GaveType
<1> HIDE DEF f
<1>4. CASE fdc' = f
  BY <1>3, <1>4, SameMatched DEF Marks
<1>5. CASE fdc' = CompleteRead(f, disk)
  <2> DEFINE n == NextId(f)
  <2>1. fdc' = LoadReadSector(n, disk) /\ Typed(n)
    BY <1>1, <1>3, <1>5, CompleteReadType DEF Ends
  <2> HIDE DEF n
  <2> QED BY <1>1, <2>1, LoadReadSectorMatches
<1> QED BY <1>4, <1>5, ReadByteEffect DEF f

\* An action that changes neither the command nor what the head is behind.
LEMMA OthersMatched ==
  ASSUME IInv, MatchedIn(fdc, disk), Tick \/ ReadResult \/ SaveDisk
  PROVE  MatchedIn(fdc', disk')
<1>1. fdc \in Fdc
  BY DEF IInv, Typed
<1>2. CASE Tick
  <2> DEFINE since == Ticks(fdc.since)
             f == [fdc EXCEPT !.since = since]
  <2>1. fdc' = f /\ disk' = disk
    BY <1>2 DEF Tick
  <2> HIDE DEF since
  <2>2. /\ f.command = fdc.command /\ f.params = fdc.params /\ f.eot = fdc.eot
        /\ f.last_drive = fdc.last_drive /\ f.cylinder = fdc.cylinder /\ f.id = fdc.id
        /\ f.id_index = fdc.id_index /\ f.st1 = fdc.st1 /\ f.buffer = fdc.buffer
        /\ f.repeats = fdc.repeats
    BY <1>1 DEF Fdc
  <2> HIDE DEF f
  <2> QED BY <2>1, <2>2, SameMatched DEF SameCommand
<1>3. CASE ReadResult
  <2> DEFINE results == Tail(fdc.results)
             f == [fdc EXCEPT !.results = results]
  <2>1. fdc' = f /\ disk' = disk
    BY <1>3 DEF ReadResult
  <2> HIDE DEF results
  <2>2. /\ f.command = fdc.command /\ f.params = fdc.params /\ f.eot = fdc.eot
        /\ f.last_drive = fdc.last_drive /\ f.cylinder = fdc.cylinder /\ f.id = fdc.id
        /\ f.id_index = fdc.id_index /\ f.st1 = fdc.st1 /\ f.buffer = fdc.buffer
        /\ f.repeats = fdc.repeats
    BY <1>1 DEF Fdc
  <2> HIDE DEF f
  <2> QED BY <2>1, <2>2, SameMatched DEF SameCommand
<1>4. CASE SaveDisk
  <2>1. fdc' = fdc
    BY <1>4 DEF SaveDisk
  <2>2. disk'.tracks = disk.tracks /\ disk'.inserted = disk.inserted
    BY <1>4, SaveDiskType
  <2> QED BY <2>1, <2>2, SameMatched DEF SameCommand
<1> QED BY <1>2, <1>3, <1>4

LEMMA MatchedKept ==
  ASSUME IInv, Tell, MatchedSector, [Next]_vars
  PROVE  MatchedSector'
<1>1. MatchedSector' <=> (fdc'.mode = "READ" /\ ObeysStatus' => MatchedIn(fdc', disk'))
  <2>1. Matched' = Behind(fdc', disk')
    BY Zenon DEF Matched, Behind
  <2> QED BY <2>1 DEF MatchedSector, MatchedIn
<1>2. SUFFICES ASSUME fdc'.mode = "READ", ObeysStatus' PROVE MatchedIn(fdc', disk')
  BY <1>1
<1>3. fdc.mode = "READ" /\ ObeysStatus => MatchedIn(fdc, disk)
  BY MatchedReading
<1>4. software' = software => ObeysStatus
  BY <1>2 DEF ObeysStatus
<1>5. CASE UNCHANGED vars
  BY <1>2, <1>3, <1>4, <1>5 DEF vars
<1>6. ASSUME NEW byte \in CommandBytes(fdc), WriteCommand(byte)
      PROVE  MatchedIn(fdc', disk')
  <2>1. software' = software /\ disk' = disk
    BY <1>6 DEF WriteCommand
  <2> QED BY <1>2, <1>4, <1>6, <2>1, CommandMatched
<1>7. ASSUME NEW byte \in HostBytes, WriteByte(byte)
      PROVE  fdc'.mode # "READ"
  <2> DEFINE f == Took(fdc, byte)
  <2>1. /\ Typed(fdc) /\ Within(fdc) /\ IsDisk(disk) /\ byte \in Byte
        /\ fdc.mode = "WRITE" /\ fdc.results = <<>>
    BY <1>7, ProgramFacts DEF IInv, WriteByte
  <2>2. Typed(f) /\ f.mode = "WRITE" /\ f.size > 0
    BY <2>1, TookType
  <2> HIDE DEF f
  <2>3. CASE fdc' = f
    BY <2>2, <2>3
  <2>4. CASE fdc' = CompleteWrite(f, disk)
    BY <2>1, <2>2, <2>4, CompleteWriteType DEF Ends, Begins
  <2> QED BY <1>7, <2>3, <2>4, WriteByteEffect DEF f
<1>8. CASE ReadByte
  <2>1. software' = software /\ disk' = disk /\ fdc.mode = "READ"
    BY <1>8 DEF ReadByte
  <2> QED BY <1>2, <1>3, <1>4, <1>8, <2>1, ReadMatched
<1>9. CASE Tick \/ ReadResult \/ SaveDisk
  <2>1. fdc'.mode = fdc.mode /\ software' = software
    <3>1. fdc \in Fdc
      BY DEF IInv, Typed
    <3> QED BY <1>9, <3>1 DEF Tick, ReadResult, SaveDisk, Fdc
  <2> QED BY <1>2, <1>3, <1>4, <1>9, <2>1, OthersMatched
<1>10. CASE \/ Reset \/ EjectDisk
            \/ \E image \in {Software[software].image, file}, r \in ReadOnly :
                 InsertDisk(image, r)
  <2>1. fdc' = Cleared
    BY <1>10 DEF Reset, EjectDisk, InsertDisk
  <2> QED BY <1>2, <2>1, ClearedType
<1> QED BY <1>2, <1>5, <1>6, <1>7, <1>8, <1>9, <1>10 DEF Next

\* What a read gives is the data of the sector whose ID field the command named
\* and the controller found, on whatever track, read again or gone on to from
\* another: the second search, by R and N alone, finds the one the first did.
\* It does where R and N tell the sectors of every track apart.
THEOREM ReadsTheSectorFound ==
  ASSUME NumbersTellSectors
  PROVE  Spec => []MatchedSector
<1>1. Init => Tell
  BY InitTell
<1>2. IInv /\ Tell /\ [Next]_vars => Tell'
  BY TellKept
<1>3. Init => MatchedSector
  BY ClearedType, MatchedReading DEF Init
<1>4. IInv /\ Tell /\ MatchedSector /\ [Next]_vars => MatchedSector'
  BY MatchedKept
<1> QED BY <1>1, <1>2, <1>3, <1>4, AlwaysInvariant, PTL DEF Spec
-----------------------------------------------------------------------------
(* What a write has done so far.                                            *)

LEMMA IdWith ==
  ASSUME NEW id \in Id, NEW x \in Byte, NEW y
  PROVE  /\ [[id EXCEPT !.r = x] EXCEPT !.r = y] = [id EXCEPT !.r = y]
         /\ [id EXCEPT !.r = id.r] = id
         /\ [id EXCEPT !.r = y].r = y
         /\ [id EXCEPT !.r = x] \in Id
<1>1. [[id EXCEPT !.r = x] EXCEPT !.r = y] = [id EXCEPT !.r = y]
  BY DEF Id
<1>2. [id EXCEPT !.r = id.r] = id
  BY DEF Id
<1>3. [id EXCEPT !.r = y].r = y
  BY DEF Id
<1>4. [id EXCEPT !.r = x] \in Id
  BY DEF Id
<1> QED BY <1>1, <1>2, <1>3, <1>4

\* The sector numbered r as a write leaves it.
Fresh(f, sector, r) ==
  /\ IdOf(sector) = [f.id EXCEPT !.r = r]
  /\ sector.st1 = 0
  /\ HasBit(sector.st2, Deleted) = Deleting(f)
  /\ \A b \in 1..Len(sector.data) : sector.data[b] \in HostBytes \cup {0}

FilledIn(f, d) ==
  \A r \in FirstWritten(f)..(f.id.r - 1) :
    \E i \in DOMAIN TrackOf(f, d) : Fresh(f, TrackOf(f, d)[i], r)

LEMMA FilledWriting ==
  WrittenSoFar <=> (fdc.mode = "WRITE" /\ ObeysStatus => FilledIn(fdc, disk))
BY Zenon DEF WrittenSoFar, FilledIn, Fresh, Deleting

LEMMA FirstFacts ==
  ASSUME NEW f \in Fdc
  PROVE  /\ FirstWritten(f) \in Nat /\ f.params[4] \in Nat
         /\ FirstWritten(f) >= f.params[4]
         /\ f.command \div MultiTrack = 1 /\ HeadIn(f) = 1 => FirstWritten(f) >= 1
<1> DEFINE p == f.params[4]
           both == f.command \div MultiTrack = 1 /\ HeadIn(f) = 1
<1>1. p \in Nat
  <2>1. p \in Byte
    BY ParamsType
  <2> QED BY <2>1, ByteFacts
<1>2. FirstWritten(f) = IF both /\ p = 0 THEN 1 ELSE p
  BY Zenon DEF FirstWritten
<1>3. both <=> f.command \div MultiTrack = 1 /\ HeadIn(f) = 1
  OBVIOUS
<1> HIDE DEF p, both
<1>4. /\ FirstWritten(f) \in Nat /\ FirstWritten(f) >= p
      /\ both => FirstWritten(f) >= 1
  BY <1>1, <1>2
<1> QED BY <1>1, <1>3, <1>4 DEF p

\* Nothing is due of a side that is begun.
LEMMA FilledAtFirst ==
  ASSUME NEW f \in Fdc, NEW d,
         \/ f.id.r = f.params[4]
         \/ /\ f.id.r = 1 /\ f.command \div MultiTrack = 1 /\ HeadIn(f) = 1
  PROVE  FilledIn(f, d)
<1> DEFINE n == f.id.r
           m == FirstWritten(f)
           p == f.params[4]
<1>1. m \in Nat /\ p \in Nat /\ m >= p /\ (n = p \/ (n = 1 /\ m >= 1))
  BY FirstFacts
<1>2. FilledIn(f, d) <=> \A r \in m..(n - 1) :
         \E i \in DOMAIN TrackOf(f, d) : Fresh(f, TrackOf(f, d)[i], r)
  BY DEF FilledIn
<1> HIDE DEF m, n, p
<1>3. m..(n - 1) = {}
  BY <1>1
<1> QED BY <1>2, <1>3

\* The sector just filled.
LEMMA WrittenFresh ==
  ASSUME NEW f \in Fdc, NEW d, IsDisk(d), NumbersTell(d.tracks),
         f.buffer \in Seq(HostBytes), Len(f.buffer) = f.size, SectorWritable(f, d)
  PROVE  LET t == TrackOf(f, d)
             i == Numbered(t, f.id)
             u == TrackOf(f, DiskAfterWrite(f, d))
         IN  /\ i \in DOMAIN u /\ Fresh(f, u[i], f.id.r)
             /\ \A k \in DOMAIN t : \A r : Fresh(f, t[k], r) /\ r # f.id.r
                                             => k \in DOMAIN u /\ Fresh(f, u[k], r)
<1> DEFINE t == TrackOf(f, d)
           i == Numbered(t, f.id)
           u == TrackOf(f, DiskAfterWrite(f, d))
           data == Padded(f)
           deleting == Deleting(f)
<1>1. /\ t \in Seq(Sectors) /\ i \in DOMAIN t /\ data \in Seq(Byte)
      /\ data \in Seq(HostBytes \cup {0}) /\ u = Rewritten(t, i, data, deleting)
  <2>1. t \in Seq(Sectors) /\ i \in DOMAIN t /\ data \in Seq(Byte)
    BY WrittenSector
  <2>2. data \in Seq(HostBytes \cup {0})
    BY WrittenSector
  <2>3. u = Rewritten(t, i, data, deleting)
    BY WrittenSector
  <2> QED BY <2>1, <2>2, <2>3
<1>2. IdOf(t[i]) = f.id
  <2>1. Found(f, d) # 0
    BY DEF SectorWritable
  <2> QED BY <2>1, OneSector
<1>3. deleting \in BOOLEAN /\ f.id \in Id
  BY FdcFields DEF Deleting
<1>4. deleting = Deleting(f)
  OBVIOUS
<1> HIDE DEF t, i, u, data, deleting
<1>5. /\ DOMAIN u = DOMAIN t /\ u[i].data = data /\ u[i].st1 = 0
      /\ u[i].st2 = IF deleting THEN Deleted ELSE 0
      /\ \A k \in DOMAIN t : k # i => u[k] = t[k]
      /\ \A k \in DOMAIN t : IdOf(u[k]) = IdOf(t[k])
  BY <1>1, <1>3, RewrittenType
<1>6. HasBit(u[i].st2, Deleted) = deleting
  <2>1. HasBit(Deleted, Deleted) /\ ~HasBit(0, Deleted)
    BY DEF HasBit, Deleted
  <2>2. CASE deleting
    BY <1>5, <2>1, <2>2
  <2>3. CASE ~deleting
    <3>1. u[i].st2 = 0 /\ deleting = FALSE
      BY <1>3, <1>5, <2>3
    <3>2. HasBit(0, Deleted) = FALSE
      BY DEF HasBit, Deleted
    <3> QED BY <3>1, <3>2, Zenon
  <2> QED BY <2>2, <2>3
<1>7. \A b \in 1..Len(data) : data[b] \in HostBytes \cup {0}
  BY <1>1, ElementOfSeq
<1>8. Fresh(f, u[i], f.id.r)
  <2>1. f.id.r \in Byte
    BY <1>3, IdFields
  <2> DEFINE id == f.id
  <2>2. id \in Id /\ id.r \in Byte /\ IdOf(u[i]) = id
    BY <1>1, <1>2, <1>3, <1>5, <2>1
  <2> HIDE DEF id
  <2>3. IdOf(u[i]) = [id EXCEPT !.r = id.r]
    BY <2>2, IdWith, Zenon
  <2> QED BY <1>4, <1>5, <1>6, <1>7, <2>3 DEF Fresh, id
<1>9. ASSUME NEW k \in DOMAIN t, NEW r, Fresh(f, t[k], r), r # f.id.r
      PROVE  k \in DOMAIN u /\ Fresh(f, u[k], r)
  <2>1. IdOf(t[k]).r = r
    <3>1. IdOf(t[k]) = [f.id EXCEPT !.r = r]
      BY <1>9 DEF Fresh
    <3> DEFINE id == f.id
    <3>2. id \in Id /\ id.r \in Byte
      BY <1>3, IdFields
    <3> HIDE DEF id
    <3>3. [id EXCEPT !.r = r].r = r
      BY <3>2, IdWith, Zenon
    <3> QED BY <3>1, <3>3 DEF id
  <2>2. k # i
    BY <1>2, <1>9, <2>1
  <2> QED BY <1>5, <1>9, <2>2
<1> QED BY <1>1, <1>5, <1>8, <1>9 DEF t, i, u

LEMMA SameFilled ==
  ASSUME NEW f, NEW e, SameCommand(f, e), NEW d, NEW d2, d2.tracks = d.tracks,
         d2.inserted = d.inserted, FilledIn(f, d)
  PROVE  FilledIn(e, d2)
<1>1. TrackOf(e, d2) = TrackOf(f, d) /\ FirstWritten(e) = FirstWritten(f)
      /\ e.id = f.id
  BY DEF SameCommand, TrackOf, HeadIn, CylinderOf, Track, DriveReady, FirstWritten
<1>2. Deleting(e) = Deleting(f)
  BY DEF SameCommand, Deleting
<1>3. \A s, r : Fresh(f, s, r) => Fresh(e, s, r)
  BY <1>1, <1>2, Zenon DEF Fresh
<1> QED BY <1>1, <1>3, Zenon DEF FilledIn

\* A write that goes on to the next sector has filled the one before it.
LEMMA FilledGoesOn ==
  ASSUME NEW f, Typed(f), NEW d, IsDisk(d), NumbersTell(d.tracks),
         f.buffer \in Seq(HostBytes), Len(f.buffer) = f.size, f.size > 0,
         SectorWritable(f, d), FilledIn(f, d), CompleteWrite(f, d).mode = "WRITE"
  PROVE  FilledIn(CompleteWrite(f, d), DiskAfterWrite(f, d))
<1> DEFINE p == Passed(f, d)
           n == NextId(p)
           e == CompleteWrite(f, d)
           new == DiskAfterWrite(f, d)
<1>1. /\ SameCommand(f, p) /\ Typed(p) /\ MoreSectors(p) /\ Typed(n)
      /\ Begins(n, e, "WRITE")
  BY CompleteWriteType DEF Ends
<1>2. f \in Fdc /\ p \in Fdc /\ e \in Fdc
  BY <1>1 DEF Typed, Begins
<1>3. SameCommand(n, e)
  BY <1>1 DEF Begins
<1>4. /\ n.command = p.command /\ n.eot = p.eot
      /\ n.last_drive = p.last_drive /\ n.cylinder = p.cylinder
      /\ n.params[4] = p.params[4]
      /\ \/ /\ n.params = p.params /\ n.id = [p.id EXCEPT !.r = p.id.r + 1]
            /\ p.id.r < p.eot
         \/ ToSideOne(p) /\ HeadIn(n) = 1 /\ n.id.r = 1
  BY <1>1, NextIdType
<1> HIDE DEF n, p, e, new
<1>5. CASE ToSideOne(p) /\ HeadIn(n) = 1 /\ n.id.r = 1
  <2>1. e.id.r = 1 /\ e.command \div MultiTrack = 1 /\ HeadIn(e) = 1
    BY <1>3, <1>4, <1>5 DEF SameCommand, HeadIn, ToSideOne
  <2>2. FilledIn(e, new)
    BY <1>2, <2>1, FilledAtFirst
  <2> QED BY <2>2 DEF e, new
<1>6. CASE n.params = p.params /\ n.id = [p.id EXCEPT !.r = p.id.r + 1] /\ p.id.r < p.eot
  <2> DEFINE t == TrackOf(f, d)
             u == TrackOf(f, new)
             i == Numbered(t, f.id)
             last == f.id.r
             m == FirstWritten(f)
             next == [f.id EXCEPT !.r = last + 1]
  <2>1. /\ e.command = f.command /\ e.params = f.params
        /\ e.last_drive = f.last_drive /\ e.cylinder = f.cylinder
        /\ e.id = next
    BY <1>1, <1>3, <1>4, <1>6 DEF SameCommand
  <2>2. f.id \in Id /\ last \in Byte /\ last + 1 \in Byte
    <3>1. f.id \in Id /\ p.eot \in Byte /\ p.id.r < p.eot /\ p.id = f.id
      BY <1>1, <1>2, <1>6, FdcFields DEF SameCommand
    <3>2. last \in Byte
      BY <3>1, IdFields
    <3> DEFINE eot == p.eot
    <3>3. last < eot /\ eot \in Byte
      BY <3>1
    <3> HIDE DEF last, eot
    <3>4. last + 1 \in Byte
      BY <3>2, <3>3 DEF Byte
    <3> QED BY <3>1, <3>2, <3>4
  <2>3. TrackOf(e, new) = u /\ FirstWritten(e) = m /\ Deleting(e) = Deleting(f)
    BY <2>1, Zenon DEF TrackOf, HeadIn, CylinderOf, FirstWritten, Deleting
  <2>4. /\ i \in DOMAIN u /\ Fresh(f, u[i], last)
        /\ \A k \in DOMAIN t : \A r : Fresh(f, t[k], r) /\ r # last
                                        => k \in DOMAIN u /\ Fresh(f, u[k], r)
    BY <1>2, WrittenFresh DEF new
  <2>5. \A r \in m..(last - 1) : \E k \in DOMAIN t : Fresh(f, t[k], r)
    BY DEF FilledIn
  <2>6. next.r = last + 1 /\ \A r : [next EXCEPT !.r = r] = [f.id EXCEPT !.r = r]
    <3> DEFINE id == f.id
               x == last + 1
    <3>1. id \in Id /\ x \in Byte
      BY <2>2
    <3> HIDE DEF id, x
    <3>2. [id EXCEPT !.r = x].r = x
      BY <3>1 DEF Id
    <3>3. \A r : [[id EXCEPT !.r = x] EXCEPT !.r = r] = [id EXCEPT !.r = r]
      BY <3>1 DEF Id
    <3> QED BY <3>2, <3>3, Zenon DEF id, x
  <2>7. m \in Nat /\ last \in Nat
    BY <1>2, <2>2, FirstFacts, ByteFacts
  <2> HIDE DEF t, u, i, last, m, next
  <2>8. \A s, r : Fresh(f, s, r) => Fresh(e, s, r)
    BY <2>1, <2>3, <2>6, Zenon DEF Fresh
  <2>9. ASSUME NEW r \in m..((last + 1) - 1)
        PROVE  \E k \in DOMAIN u : Fresh(e, u[k], r)
    <3>1. r = last \/ (r \in m..(last - 1) /\ r # last)
      BY <2>7, <2>9
    <3> QED BY <2>4, <2>5, <2>8, <3>1
  <2>10. FilledIn(e, new)
    BY <2>1, <2>3, <2>6, <2>9, Zenon DEF FilledIn
  <2> QED BY <2>10 DEF e, new
<1> QED BY <1>4, <1>5, <1>6

\* What is in the buffer of a write is what the CPU sent.
Writing == /\ fdc.mode = "WRITE" => fdc.buffer \in Seq(HostBytes)
           /\ WrittenSoFar

LEMMA CommandWriting ==
  ASSUME IInv, NEW byte \in CommandBytes(fdc), WriteCommand(byte), fdc'.mode = "WRITE"
  PROVE  fdc'.buffer \in Seq(HostBytes) /\ FilledIn(fdc', disk)
<1>1. PICK f : /\ f.mode # "WRITE"
               /\ \/ fdc' = f
                  \/ Executed(f, disk, fdc')
  BY CommandEffect
<1>2. WriteBegun(f, fdc')
  BY <1>1 DEF Executed, Idles
<1>3. /\ Typed(fdc') /\ fdc'.buffer = <<>> /\ fdc'.params = f.params
      /\ fdc'.id.r = f.params[4]
  BY <1>2 DEF WriteBegun, Begins
<1>4. <<>> \in Seq(HostBytes) /\ fdc' \in Fdc
  BY <1>3 DEF Typed
<1> QED BY <1>3, <1>4, FilledAtFirst

LEMMA ByteWriting ==
  ASSUME IInv, Tell, Writing, ObeysStatus, NEW byte \in HostBytes, WriteByte(byte),
         fdc'.mode = "WRITE"
  PROVE  FilledIn(fdc', disk')
<1> DEFINE f == Took(fdc, byte)
<1>1. /\ Typed(fdc) /\ Within(fdc) /\ IsDisk(disk) /\ NumbersTell(disk.tracks)
      /\ byte \in Byte /\ fdc.mode = "WRITE" /\ fdc.results = <<>>
  BY ProgramFacts DEF IInv, Tell, WriteByte
<1>2. FilledIn(fdc, disk) /\ fdc.buffer \in Seq(HostBytes)
  BY <1>1, FilledWriting DEF Writing
<1>3. /\ Typed(f) /\ SameCommand(fdc, f) /\ f.size > 0 /\ Len(f.buffer) = f.pos
      /\ f.buffer = Append(fdc.buffer, byte)
  BY <1>1, TookType
<1>4. f.buffer \in Seq(HostBytes)
  <2> DEFINE buffer == fdc.buffer
  <2>1. buffer \in Seq(HostBytes)
    BY <1>2
  <2> HIDE DEF buffer
  <2>2. Append(buffer, byte) \in Seq(HostBytes)
    BY <2>1
  <2> QED BY <1>3, <2>2 DEF buffer
<1> HIDE DEF f
<1>5. FilledIn(f, disk)
  BY <1>2, <1>3, SameFilled
<1>6. CASE fdc' = f /\ disk' = disk
  BY <1>5, <1>6
<1>7. CASE /\ f.pos = f.size /\ fdc' = CompleteWrite(f, disk)
           /\ disk' = DiskAfterWrite(f, disk)
  <2>1. SectorWritable(f, disk)
    BY <1>1, <1>3, <1>7, CompleteWriteType DEF Ends
  <2> QED BY <1>1, <1>3, <1>4, <1>5, <1>7, <2>1, FilledGoesOn
<1> QED BY <1>6, <1>7, WriteByteEffect DEF f

LEMMA BytesOfCpu ==
  ASSUME IInv, Writing, NEW byte \in HostBytes, WriteByte(byte), fdc'.mode = "WRITE"
  PROVE  fdc'.buffer \in Seq(HostBytes)
<1> DEFINE f == Took(fdc, byte)
           buffer == fdc.buffer
<1>1. /\ Typed(fdc) /\ Within(fdc) /\ IsDisk(disk)
      /\ byte \in Byte /\ fdc.mode = "WRITE" /\ fdc.results = <<>>
  BY ProgramFacts DEF IInv, WriteByte
<1>2. buffer \in Seq(HostBytes)
  BY <1>1 DEF Writing
<1>3. Typed(f) /\ f.size > 0 /\ f.buffer = Append(buffer, byte)
  BY <1>1, TookType
<1> HIDE DEF f, buffer
<1>4. f.buffer \in Seq(HostBytes)
  BY <1>2, <1>3
<1>5. CASE fdc' = f
  BY <1>4, <1>5
<1>6. CASE fdc' = CompleteWrite(f, disk)
  <2>1. fdc'.buffer = <<>>
    BY <1>1, <1>3, <1>6, CompleteWriteType DEF Ends
  <2> QED BY <2>1
<1> QED BY <1>5, <1>6, WriteByteEffect DEF f

LEMMA OthersWriting ==
  ASSUME IInv, Tick \/ ReadResult \/ SaveDisk
  PROVE  /\ fdc'.mode = fdc.mode /\ fdc'.buffer = fdc.buffer
         /\ FilledIn(fdc, disk) => FilledIn(fdc', disk')
<1>1. fdc \in Fdc
  BY DEF IInv, Typed
<1>2. /\ fdc'.command = fdc.command /\ fdc'.params = fdc.params /\ fdc'.eot = fdc.eot
      /\ fdc'.last_drive = fdc.last_drive /\ fdc'.cylinder = fdc.cylinder
      /\ fdc'.id = fdc.id /\ fdc'.mode = fdc.mode /\ fdc'.buffer = fdc.buffer
  BY <1>1 DEF Tick, ReadResult, SaveDisk, Fdc
<1>3. disk'.tracks = disk.tracks /\ disk'.inserted = disk.inserted
  BY SaveDiskType DEF Tick, ReadResult
<1> QED BY <1>2, <1>3, SameFilled DEF SameCommand

LEMMA ReadsWriteNothing ==
  ASSUME IInv, ReadByte
  PROVE  fdc'.mode # "WRITE"
<1> DEFINE f == Gave(fdc)
<1>1. Typed(fdc) /\ Within(fdc) /\ IsDisk(disk) /\ fdc.mode = "READ" /\ fdc.pos < fdc.size
  BY DEF IInv, ReadByte
<1>2. Typed(f) /\ f.mode = "READ"
  BY <1>1, GaveType
<1> HIDE DEF f
<1>3. CASE fdc' = f
  BY <1>2, <1>3
<1>4. CASE fdc' = CompleteRead(f, disk)
  BY <1>1, <1>2, <1>4, CompleteReadType DEF Ends, Begins
<1> QED BY <1>3, <1>4, ReadByteEffect DEF f

LEMMA WritingKept ==
  ASSUME IInv, Tell, Writing, [Next]_vars
  PROVE  Writing'
<1>1. WrittenSoFar' <=> (fdc'.mode = "WRITE" /\ ObeysStatus' => FilledIn(fdc', disk'))
  BY Zenon DEF WrittenSoFar, FilledIn, Fresh, Deleting
<1>2. SUFFICES ASSUME fdc'.mode = "WRITE"
               PROVE  /\ fdc'.buffer \in Seq(HostBytes)
                      /\ ObeysStatus' => FilledIn(fdc', disk')
  BY <1>1 DEF Writing
<1>3. fdc.mode = "WRITE" => /\ fdc.buffer \in Seq(HostBytes)
                            /\ ObeysStatus => FilledIn(fdc, disk)
  BY FilledWriting DEF Writing
<1>4. software' = software => (ObeysStatus' <=> ObeysStatus)
  BY DEF ObeysStatus
<1>5. CASE UNCHANGED vars
  BY <1>2, <1>3, <1>4, <1>5 DEF vars
<1>6. ASSUME NEW byte \in CommandBytes(fdc), WriteCommand(byte)
      PROVE  fdc'.buffer \in Seq(HostBytes) /\ FilledIn(fdc', disk')
  <2>1. disk' = disk
    BY <1>6 DEF WriteCommand
  <2> QED BY <1>2, <1>6, <2>1, CommandWriting
<1>7. ASSUME NEW byte \in HostBytes, WriteByte(byte)
      PROVE  /\ fdc'.buffer \in Seq(HostBytes)
             /\ ObeysStatus' => FilledIn(fdc', disk')
  <2>1. software' = software
    BY <1>7 DEF WriteByte
  <2> QED BY <1>2, <1>4, <1>7, <2>1, BytesOfCpu, ByteWriting
<1>8. CASE Tick \/ ReadResult \/ SaveDisk
  <2>1. software' = software
    BY <1>8 DEF Tick, ReadResult, SaveDisk
  <2> QED BY <1>2, <1>3, <1>4, <1>8, <2>1, OthersWriting
<1>9. ~ReadByte
  BY <1>2, ReadsWriteNothing
<1>10. CASE \/ Reset \/ EjectDisk
            \/ \E image \in {Software[software].image, file}, r \in ReadOnly :
                 InsertDisk(image, r)
  <2>1. fdc' = Cleared
    BY <1>10 DEF Reset, EjectDisk, InsertDisk
  <2> QED BY <1>2, <2>1, ClearedType
<1> QED BY <1>5, <1>6, <1>7, <1>8, <1>9, <1>10 DEF Next

\* While a write goes on, every sector from the first it named up to the one it
\* is at holds what the CPU sent for it and has fresh marks: a sector that could
\* not be written has ended it. And a disk that differs from its file is marked
\* as changed. R and N are to tell the sectors of every track apart.
THEOREM WritesAreKept ==
  ASSUME NumbersTellSectors
  PROVE  Spec => []WritesKept
<1>1. Init => Tell
  BY InitTell
<1>2. IInv /\ Tell /\ [Next]_vars => Tell'
  BY TellKept
<1>3. Init => Writing
  BY ClearedType, FilledWriting DEF Init, Writing
<1>4. IInv /\ Tell /\ Writing /\ [Next]_vars => Writing'
  BY WritingKept
<1>5. IInv /\ Writing => WritesKept
  BY DEF IInv, Writing, WritesKept
<1> QED BY <1>1, <1>2, <1>3, <1>4, <1>5, AlwaysInvariant, PTL DEF Spec
-----------------------------------------------------------------------------
(* From one sector to the next, and to the last.                            *)

LEMMA WindowClears ==
  ASSUME IInv,
         \/ Reset \/ EjectDisk
         \/ \E image \in {Software[software].image, file}, r \in ReadOnly :
              InsertDisk(image, r)
  PROVE  fdc' = Cleared /\ fdc'.mode = "NONE"
BY ClearedType DEF Reset, EjectDisk, InsertDisk

\* Time alone does not make a data byte.
LEMMA NoByteMoved ==
  ASSUME IInv, DataReady(fdc), Tick \/ ReadResult
  PROVE  fdc'.since # -ByteTicks
<1>1. fdc \in Fdc
  BY DEF IInv, Typed
<1> DEFINE n == fdc.since
<1>2. n \in -HalfRange..(HalfRange - 1) /\ n >= 0
  BY <1>1, FdcFields DEF DataReady
<1>3. fdc'.since = n \/ fdc'.since = Ticks(n)
  BY <1>1 DEF Tick, ReadResult, Fdc
<1> HIDE DEF n
<1>4. Ticks(n) = IF n + 1 < HalfRange THEN n + 1 ELSE -HalfRange
  BY DEF Ticks
<1> QED BY <1>2, <1>3, <1>4, SizeFacts

Ascended(f, e) ==
  \/ HeadIn(e) = HeadIn(f) /\ e.id.r = f.id.r + 1 /\ e.id.r <= f.eot
  \/ HeadIn(e) = 1 /\ HeadIn(f) = 0 /\ e.id.r = 1

LEMMA NextIdAscends ==
  ASSUME NEW f, Typed(f), MoreSectors(f), NEW e, SameCommand(NextId(f), e)
  PROVE  Ascended(f, e)
<1> DEFINE n == NextId(f)
<1>1. \/ /\ f.id.r < f.eot /\ n.params = f.params
         /\ n.id = [f.id EXCEPT !.r = f.id.r + 1]
      \/ /\ ToSideOne(f) /\ HeadIn(f) = 0 /\ HeadIn(n) = 1
         /\ n.id.r = 1
  BY NextIdType
<1>2. e.params = n.params /\ e.id = n.id
  BY DEF SameCommand
<1> HIDE DEF n
<1>3. CASE HeadIn(f) = 0 /\ HeadIn(n) = 1 /\ n.id.r = 1
  BY <1>2, <1>3 DEF Ascended, HeadIn
<1>4. CASE /\ f.id.r < f.eot /\ n.params = f.params
           /\ n.id = [f.id EXCEPT !.r = f.id.r + 1]
  <2> DEFINE r == f.id.r
             eot == f.eot
  <2>1. f.id \in Id /\ eot \in Byte
    BY FdcFields DEF Typed
  <2>2. r \in Byte /\ r < eot
    BY <1>4, <2>1, IdFields
  <2>3. n.id.r = r + 1
    BY <1>4, <2>1 DEF Id
  <2> HIDE DEF r, eot
  <2>4. r + 1 <= eot
    BY <2>1, <2>2 DEF Byte
  <2> QED BY <1>2, <1>4, <2>3, <2>4 DEF Ascended, HeadIn, r, eot
<1> QED BY <1>1, <1>3, <1>4

LEMMA SameAscends ==
  ASSUME NEW f, NEW g, SameCommand(f, g), NEW e, Ascended(g, e)
  PROVE  Ascended(f, e)
BY DEF SameCommand, Ascended, HeadIn

LEMMA WriteAscends ==
  ASSUME IInv, NEW byte \in HostBytes, WriteByte(byte), fdc.pos + 1 = fdc.size,
         fdc'.mode # "NONE"
  PROVE  Ascended(fdc, fdc')
<1> DEFINE f == Took(fdc, byte)
           p == Passed(f, disk)
<1>1. /\ Typed(fdc) /\ Within(fdc) /\ IsDisk(disk) /\ byte \in Byte
      /\ fdc.mode = "WRITE" /\ fdc.results = <<>>
  BY ProgramFacts DEF IInv, WriteByte
<1>2. /\ Typed(f) /\ SameCommand(fdc, f) /\ f.size > 0
      /\ f.size = fdc.size /\ f.pos = fdc.pos + 1
  BY <1>1, TookType
<1>3. fdc' = CompleteWrite(f, disk)
  <2>1. f.size \in Nat
    BY <1>2, FdcFields, SizeFacts DEF Typed
  <2>2. f.pos = f.size
    BY <1>2
  <2> HIDE DEF f
  <2> QED BY <2>1, <2>2, WriteByteEffect DEF f
<1> HIDE DEF f
<1>4. /\ Typed(p) /\ SameCommand(f, p) /\ MoreSectors(p)
      /\ SameCommand(NextId(p), fdc')
  BY <1>1, <1>2, <1>3, CompleteWriteType DEF Ends, Begins
<1> HIDE DEF p
<1>5. Ascended(p, fdc')
  BY <1>4, NextIdAscends
<1> QED BY <1>2, <1>4, <1>5, SameAscends

LEMMA ReadAscends ==
  ASSUME IInv, ReadByte, fdc.pos + 1 = fdc.size, fdc'.mode # "NONE"
  PROVE  Ascended(fdc, fdc')
<1> DEFINE f == Gave(fdc)
<1>1. Typed(fdc) /\ Within(fdc) /\ IsDisk(disk) /\ fdc.mode = "READ" /\ fdc.pos < fdc.size
  BY DEF IInv, ReadByte
<1>2. /\ Typed(f) /\ SameCommand(fdc, f) /\ f.size = fdc.size /\ f.pos = fdc.pos + 1
  BY <1>1, GaveType
<1>3. fdc' = CompleteRead(f, disk)
  <2>1. f.size \in Nat
    BY <1>2, FdcFields, SizeFacts DEF Typed
  <2>2. f.pos = f.size
    BY <1>2
  <2> HIDE DEF f
  <2> QED BY <2>1, <2>2, ReadByteEffect DEF f
<1> HIDE DEF f
<1>4. MoreSectors(f) /\ Begins(NextId(f), fdc', "READ")
  BY <1>1, <1>2, <1>3, CompleteReadType DEF Ends
<1>5. Ascended(f, fdc')
  BY <1>2, <1>4, NextIdAscends DEF Begins
<1> QED BY <1>2, <1>5, SameAscends

LEMMA StepAscends ==
  ASSUME IInv, [Next]_vars, ByteMoved, ObeysStatus, fdc.pos + 1 = fdc.size,
         fdc'.mode # "NONE"
  PROVE  Ascended(fdc, fdc')
<1>1. DataReady(fdc) /\ fdc.mode # "NONE" /\ fdc'.since = -ByteTicks
  BY DEF ByteMoved
<1>2. ~UNCHANGED fdc
  BY <1>1, SizeFacts DEF DataReady
<1>3. ~(\E byte \in CommandBytes(fdc) : WriteCommand(byte))
  BY <1>1, CommandWaits DEF IInv
<1>4. ASSUME NEW byte \in HostBytes, WriteByte(byte) PROVE Ascended(fdc, fdc')
  BY <1>4, WriteAscends
<1>5. CASE ReadByte
  BY <1>5, ReadAscends
<1>6. ~Tick /\ ~ReadResult
  BY <1>1, NoByteMoved
<1>7. ~SaveDisk
  BY <1>2 DEF SaveDisk
<1>8. ~(\/ Reset \/ EjectDisk
        \/ \E image \in {Software[software].image, file}, r \in ReadOnly :
             InsertDisk(image, r))
  BY WindowClears
<1> QED BY <1>2, <1>3, <1>4, <1>5, <1>6, <1>7, <1>8 DEF Next, vars

Told(f, e) ==
  \/ /\ e.mode = "READ" /\ e.id = f.id
     /\ e.st1 = f.st1 /\ e.st2 = f.st2 /\ e.pos >= f.pos
  \/ /\ f.pos + 1 = f.size
     /\ Len(e.results) = 7
     /\ e.results[2] = f.st1 /\ e.results[3] = f.st2

LEMMA ReadTells ==
  ASSUME IInv, ReadByte, fdc.st1 # 0 \/ fdc.st2 # 0
  PROVE  Told(fdc, fdc')
<1> DEFINE f == Gave(fdc)
<1>1. Typed(fdc) /\ Within(fdc) /\ IsDisk(disk) /\ fdc.mode = "READ" /\ fdc.pos < fdc.size
  BY DEF IInv, ReadByte
<1>2. /\ Typed(f) /\ SameCommand(fdc, f) /\ f.size = fdc.size /\ f.pos = fdc.pos + 1
      /\ f.st1 = fdc.st1 /\ f.st2 = fdc.st2 /\ f.mode = "READ" /\ f.id = fdc.id
  BY <1>1, GaveType DEF Marks, SameCommand
<1>3. CASE f.pos < f.size /\ fdc' = f
  <2> DEFINE n == fdc.pos
  <2>1. n \in Nat /\ f.pos = n + 1
    BY <1>1, <1>2, FdcFields, SizeFacts DEF Typed
  <2> HIDE DEF n, f
  <2>2. f.pos >= n
    BY <2>1
  <2> QED BY <1>2, <1>3, <2>2 DEF Told, n
<1>4. CASE f.pos = f.size /\ fdc' = CompleteRead(f, disk)
  <2> HIDE DEF f
  <2>1. /\ Len(fdc'.results) = 7 /\ fdc'.results[2] = f.st1 /\ fdc'.results[3] = f.st2
    BY <1>1, <1>2, <1>4, CompleteReadType DEF Ends
  <2> QED BY <1>2, <1>4, <2>1 DEF Told
<1> QED BY <1>3, <1>4, ReadByteEffect

LEMMA StepTells ==
  ASSUME IInv, [Next]_vars, fdc.mode = "READ", ObeysStatus,
         fdc.st1 # 0 \/ fdc.st2 # 0, fdc' # Cleared
  PROVE  Told(fdc, fdc')
<1>1. fdc \in Fdc /\ fdc.pos \in Nat
  BY FdcFields, SizeFacts DEF IInv, Typed
<1>2. fdc.pos >= fdc.pos
  BY <1>1
<1>3. CASE UNCHANGED fdc
  BY <1>2, <1>3 DEF Told
<1>4. ~(\E byte \in CommandBytes(fdc) : WriteCommand(byte))
  BY CommandWaits DEF IInv
<1>5. ~(\E byte \in HostBytes : WriteByte(byte))
  BY DEF WriteByte
<1>6. CASE ReadByte
  BY <1>6, ReadTells
<1>7. CASE Tick \/ ReadResult
  <2>1. /\ fdc'.mode = fdc.mode /\ fdc'.id = fdc.id /\ fdc'.st1 = fdc.st1
        /\ fdc'.st2 = fdc.st2 /\ fdc'.pos = fdc.pos
    BY <1>1, <1>7 DEF Tick, ReadResult, Fdc
  <2> QED BY <1>2, <2>1 DEF Told
<1>8. SaveDisk => UNCHANGED fdc
  BY DEF SaveDisk
<1>9. ~(\/ Reset \/ EjectDisk
        \/ \E image \in {Software[software].image, file}, r \in ReadOnly :
             InsertDisk(image, r))
  BY WindowClears
<1> QED BY <1>3, <1>4, <1>5, <1>6, <1>7, <1>8, <1>9 DEF Next, vars

\* A command for several sectors goes on, after the last byte of one, to the
\* next number on its side or to 1 on side 1, and never past EOT; a sector with
\* a mark or an error is given to its last byte, is the last of its command, and
\* its marks are the result. So it is for every disk, twins or not.
THEOREM SectorsTakenInTurn == Spec => SectorsInTurn
<1> DEFINE A == ByteMoved /\ ObeysStatus /\ fdc.pos + 1 = fdc.size /\ fdc'.mode # "NONE"
                => \/ HeadIn(fdc') = HeadIn(fdc) /\ fdc'.id.r = fdc.id.r + 1
                                                 /\ fdc'.id.r <= fdc.eot
                   \/ HeadIn(fdc') = 1 /\ HeadIn(fdc) = 0 /\ fdc'.id.r = 1
           M == fdc.mode = "READ" /\ ObeysStatus /\ (fdc.st1 # 0 \/ fdc.st2 # 0)
                  /\ fdc' # Cleared
                => \/ /\ fdc'.mode = "READ" /\ fdc'.id = fdc.id
                      /\ fdc'.st1 = fdc.st1 /\ fdc'.st2 = fdc.st2 /\ fdc'.pos >= fdc.pos
                   \/ /\ fdc.pos + 1 = fdc.size
                      /\ Len(fdc'.results) = 7
                      /\ fdc'.results[2] = fdc.st1 /\ fdc'.results[3] = fdc.st2
<1>1. IInv /\ [Next]_vars => A
  BY StepAscends DEF Ascended
<1>2. IInv /\ [Next]_vars => M
  BY StepTells DEF Told
<1>3. Spec => [][A]_vars
  <2> HIDE DEF A
  <2> QED BY <1>1, AlwaysInvariant, PTL DEF Spec
<1>4. Spec => [][M]_vars
  <2> HIDE DEF M
  <2> QED BY <1>2, AlwaysInvariant, PTL DEF Spec
<1> QED BY <1>3, <1>4 DEF SectorsInTurn, SectorsAscend, MarksReported
=============================================================================
