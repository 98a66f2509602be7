------------------------------ MODULE Plus3Fdc ------------------------------
(* The floppy controller of the Spectrum +3 (src/third_party/chips/systems/ *)
(* zx.h, plus3_fdc) and the disk it drives.  The CPU writes a command byte  *)
(* and its parameters to port 3FFD, then moves the data of each sector a    *)
(* byte at a time, not sooner than ByteTicks after the byte before, and at  *)
(* last reads the result bytes; port 2FFD says which of these is due.       *)
(* Commands are done the moment their last parameter comes: the controller  *)
(* itself takes time only between data bytes.  From the window a user       *)
(* ejects the disk, inserts another, saves it, or resets the machine, at    *)
(* any moment.                                                             *)
(*                                                                         *)
(* result_index and result_count are the sequence of result bytes still to  *)
(* be read.  data_ready_tick is known by how far tick_count, a 32-bit       *)
(* counter, has come past it: `since', which is only read in a transfer.    *)
(* The count of repeated reads of a bad sector is only ever compared with   *)
(* 0.  Of the bytes that make a repeated read of a bad sector differ, at    *)
(* 28, 57 and so on, the first of the sector stands for all.                *)
EXTENDS Plus3Disk

CONSTANTS
  MinSize,      \* bytes of a sector with N = 0: 128
  ByteTicks,    \* ticks between data bytes
  HalfRange,    \* 2^31: tick differences are 32-bit integers with a sign
  HostBytes,    \* data bytes the CPU writes
  Software      \* what runs on the machine: by name, the image of its disk,
                \* the commands with their parameters that it may send, and
                \* whether it minds the direction and RQM of the status

ReadTrack == 2         WriteData == 5         ReadData == 6
WriteDeleted == 9      ReadDeleted == 12      ReadId == 10
Specify == 3           SenseDrive == 4        Recalibrate == 7
SenseInterrupt == 8    FormatTrack == 13      Seek == 15
Scans == {17, 25, 29}
MultiTrack == 128

ParameterCount(command) ==
  LET operation == command % 32
  IN CASE operation \in {SenseDrive, Recalibrate, ReadId} -> 1
       [] operation \in {Specify, Seek} -> 2
       [] operation = FormatTrack -> 5
       [] operation \in {ReadTrack, WriteData, ReadData, WriteDeleted,
                         ReadDeleted} \cup Scans -> 8
       [] OTHER -> 0

ASSUME SizeAssumption ==
  /\ MinSize \in Nat \ {0} /\ BufferSize \in Nat /\ BufferSize >= MinSize
  /\ ByteTicks \in Nat \ {0} /\ HalfRange \in Nat /\ HalfRange > ByteTicks
ASSUME ProgramAssumption ==
  /\ HostBytes \subseteq Byte /\ ReadOnly \subseteq BOOLEAN
  /\ \A s \in DOMAIN Software :
       /\ IsImage(Software[s].image)
       /\ Software[s].commands \subseteq Seq(Byte)
       /\ \A p \in Software[s].commands : Len(p) = ParameterCount(p[1]) + 1

VARIABLES
  software,  \* which of Software the machine runs; does not change
  fdc,       \* plus3_fdc of the machine
  disk,      \* the image in drive A:
  file       \* the sectors as the file of that image has them

vars == <<software, fdc, disk, file>>

Drives == 0..3
Id == [c : Byte, h : Byte, r : Byte, n : Byte]
NoId == [c |-> 0, h |-> 0, r |-> 0, n |-> 0]

Cleared ==
  [command |-> 0, params |-> [i \in 1..8 |-> 0], count |-> 0, expected |-> 0,
   results |-> <<>>, last_drive |-> 0, cylinder |-> [d \in Drives |-> 0],
   id_index |-> [d \in Drives |-> [h \in {0, 1} |-> 0]],
   mode |-> "NONE", id |-> NoId, eot |-> 0, st1 |-> 0, st2 |-> 0,
   last_bad |-> NoId, repeats |-> FALSE,
   buffer |-> <<>>, pos |-> 0, size |-> 0, since |-> 0, interrupt_pending |-> FALSE]

DriveOf(unit) == unit % 4
HeadOf(unit) == (unit \div 4) % 2

HeadIn(f) == HeadOf(f.params[1])
CylinderOf(f) == f.cylinder[f.last_drive]
HeadDrive(f) == f.last_drive + 4 * HeadIn(f)
TrackOf(f, d) == Track(d, f.last_drive, CylinderOf(f), HeadIn(f))
DataReady(f) == f.since >= 0

\* RQM 128, DIO 64, execution 32, busy 16.
Status(f) ==
  CASE f.results # <<>> -> 208
    [] f.results = <<>> /\ f.mode = "READ" ->
         IF DataReady(f) THEN 240 ELSE 112
    [] f.results = <<>> /\ f.mode = "WRITE" ->
         IF DataReady(f) THEN 176 ELSE 48
    [] OTHER -> IF f.count < f.expected THEN 144 ELSE 128

SetResults(f, results) ==
  [f EXCEPT !.results = results, !.count = 0, !.expected = 0,
            !.mode = "NONE", !.buffer = <<>>, !.pos = 0, !.size = 0]

FinishData(f, st0, st1, st2) ==
  SetResults(f, <<st0, st1, st2, f.id.c, f.id.h, f.id.r, f.id.n>>)
-----------------------------------------------------------------------------
(* The sector that comes under the head. *)

\* Where the head is on the track, counted from 0.
Position(f, drive, head, track) ==
  IF f.id_index[drive][head] < Len(track) THEN f.id_index[drive][head] ELSE 0

\* The first sector from there on whose ID field is the command's; 0 for none.
Found(f, d) ==
  LET track == TrackOf(f, d)
      from  == Position(f, f.last_drive, HeadIn(f), track)
      At(offset) == ((from + offset) % Len(track)) + 1
      hits  == {o \in 0..(Len(track) - 1) : IdOf(track[At(o)]) = f.id}
  IN IF hits = {} THEN 0 ELSE At(Min(hits))

Passed(f, d) ==
  [f EXCEPT !.id_index[f.last_drive][HeadIn(f)] =
     Found(f, d) % Len(TrackOf(f, d))]

MarkSeen(f, sector) ==
  IF HasBit(sector.st2, Deleted) = (f.command % 32 = ReadDeleted)
  THEN Without(sector.st2, Deleted)
  ELSE With(sector.st2, Deleted)

IsWeak(sector) == HasBit(sector.st1, DataError) /\ HasBit(sector.st2, DataError)

Varied(data) == [data EXCEPT ![1] = (@ + 128) % 256]

NotReady(f) == FinishData(f, 72 + HeadDrive(f), 0, 0)
NoData(f) == FinishData(f, 64 + HeadDrive(f), 4, 0)

StartRead(f, sector) ==
  LET again == f.last_bad = f.id
      seen == IF IsWeak(sector)
              THEN [f EXCEPT !.last_bad = f.id, !.repeats = again]
              ELSE f
  IN [seen EXCEPT
        !.buffer = IF IsWeak(sector) /\ again THEN Varied(sector.data)
                                              ELSE sector.data,
        !.st1 = sector.st1, !.st2 = MarkSeen(f, sector),
        !.pos = 0, !.size = Len(sector.data), !.since = -ByteTicks,
        !.mode = "READ"]

\* Mutant: the data is taken from the side that the ID field names.
LoadReadSector_SideOfId(f, d) ==
  LET named == Track(d, f.last_drive, CylinderOf(f), f.id.h)
  IN IF ~DriveReady(d, f.last_drive) THEN NotReady(f)
     ELSE IF Found(f, d) = 0 THEN NoData(f)
     ELSE IF ~Readable(named, f.id) THEN NoData(Passed(f, d))
     ELSE StartRead(Passed(f, d), named[Numbered(named, f.id)])

LoadReadSector(f, d) ==
  IF ~DriveReady(d, f.last_drive) THEN NotReady(f)
  ELSE IF Found(f, d) = 0 THEN NoData(f)
  ELSE IF ~Readable(TrackOf(f, d), f.id) THEN NoData(Passed(f, d))
  ELSE StartRead(Passed(f, d), TrackOf(f, d)[Numbered(TrackOf(f, d), f.id)])
-----------------------------------------------------------------------------
(* The end of a sector, and what follows it. *)

\* The buffer as it goes to the disk: a short sector of N = 0 is filled up.
Padded(f) ==
  IF f.id.n = 0 /\ f.size < MinSize
  THEN [i \in 1..MinSize |-> IF i <= f.size THEN f.buffer[i] ELSE 0]
  ELSE f.buffer

SectorWritable(f, d) ==
  /\ Found(f, d) # 0
  /\ Writable(d, f.last_drive, TrackOf(f, d), f.id, Len(Padded(f)))

DiskAfterWrite(f, d) ==
  IF SectorWritable(f, d)
  THEN Stored(d, CylinderOf(f), HeadIn(f), f.id, Padded(f),
              f.command % 32 = WriteDeleted)
  ELSE d

ToSideOne(f) == f.command \div MultiTrack = 1 /\ HeadIn(f) = 0
MoreSectors(f) == f.id.r < f.eot \/ ToSideOne(f)

\* The number of the next sector, which may be on the other side.
NextId(f) ==
  IF f.id.r < f.eot
  THEN [f EXCEPT !.id.r = @ + 1]
  ELSE [f EXCEPT !.params[1] = @ + 4, !.id.h = 1, !.id.r = 1]

\* Mutant: the next sector does not begin at the start of the buffer.
StartWrite_KeepsPos(f) == [f EXCEPT !.since = -ByteTicks, !.mode = "WRITE"]

StartWrite(f) ==
  [f EXCEPT !.buffer = <<>>, !.pos = 0, !.since = -ByteTicks, !.mode = "WRITE"]

EndOfCylinder(f) == FinishData(f, 64 + HeadDrive(f), 128, 0)

\* Mutant: goes on to the next sector whatever the marks of this one.
CompleteRead_GoesOn(f, d) ==
  IF MoreSectors(f) THEN LoadReadSector(NextId(f), d)
  ELSE EndOfCylinder(f)

CompleteRead(f, d) ==
  IF f.st1 # 0 \/ f.st2 # 0
  THEN FinishData(f, 64 + HeadDrive(f), f.st1, f.st2)
  ELSE IF MoreSectors(f) THEN LoadReadSector(NextId(f), d)
  ELSE EndOfCylinder(f)

\* Mutant: a sector that cannot be written is passed over.
CompleteWrite_GoesOn(f, d) ==
  LET passed == IF Found(f, d) # 0 THEN Passed(f, d) ELSE f
  IN IF MoreSectors(f) THEN StartWrite(NextId(passed))
     ELSE EndOfCylinder(passed)

\* A write has no status of its own; d is the disk before the sector is stored.
CompleteWrite(f, d) ==
  LET passed == IF Found(f, d) # 0 THEN Passed(f, d) ELSE f
  IN IF ~SectorWritable(f, d) THEN NoData(passed)
     ELSE IF MoreSectors(f) THEN StartWrite(NextId(passed))
     ELSE EndOfCylinder(passed)
-----------------------------------------------------------------------------
(* Commands. *)

\* C, H, R, N, EOT, GPL and DTL are parameters 2 to 8; 0 stands for a size
\* that no sector has.
RequestedSize(f) ==
  IF f.params[5] = 0 /\ f.params[8] # 0 THEN f.params[8]
  ELSE IF f.params[5] > 6 THEN 0
  ELSE MinSize * 2 ^ f.params[5]

ForCommand(f) ==
  [f EXCEPT !.last_drive = DriveOf(f.params[1]),
            !.id = [c |-> f.params[2], h |-> f.params[3], r |-> f.params[4],
                    n |-> f.params[5]],
            !.eot = f.params[6], !.st1 = 0, !.st2 = 0]

BeginRead(f, d) == LoadReadSector(ForCommand(f), d)

BeginWrite(f, d) ==
  LET g == ForCommand(f)
  IN IF ~DriveReady(d, g.last_drive) THEN NotReady(g)
     ELSE IF ~CanWrite(d, g.last_drive)
          THEN FinishData(g, 64 + HeadDrive(g), 2, 0)
     ELSE IF RequestedSize(g) \notin 1..BufferSize THEN NoData(g)
     ELSE StartWrite([g EXCEPT !.size = RequestedSize(g)])

DriveStatus(f, d) ==
  LET ready == DriveReady(d, f.last_drive)
  IN HeadDrive(f) + (IF CylinderOf(f) = 0 THEN 16 ELSE 0)
     + (IF ready THEN 32 ELSE 0)
     + (IF ready /\ ~CanWrite(d, f.last_drive) THEN 64 ELSE 0)
     + (IF Track(d, f.last_drive, CylinderOf(f), 1) # <<>> THEN 8 ELSE 0)

SeekTo(f, cylinder) ==
  [f EXCEPT !.cylinder[f.last_drive] = cylinder, !.interrupt_pending = TRUE,
            !.count = 0, !.expected = 0]

InterruptStatus(f, d) ==
  IF f.interrupt_pending
  THEN SetResults([f EXCEPT !.interrupt_pending = FALSE],
         <<(IF DriveReady(d, f.last_drive) THEN 32 ELSE 72) + f.last_drive,
           CylinderOf(f)>>)
  ELSE SetResults(f, <<128>>)

\* Read ID: the next ID field of the track, without the marks of its data.
NextIdField(f, d) ==
  LET here  == [c |-> CylinderOf(f), h |-> HeadIn(f), r |-> 0, n |-> 0]
      track == TrackOf(f, d)
      index == Position(f, f.last_drive, HeadIn(f), track)
      sector == track[index + 1]
      st1   == IF HasBit(sector.st2, DataError) THEN Without(sector.st1, DataError)
                                                ELSE sector.st1
      st2   == Without(Without(sector.st2, DataError), Deleted)
  IN IF ~DriveReady(d, f.last_drive) THEN NotReady([f EXCEPT !.id = here])
     ELSE IF track = <<>> THEN NoData([f EXCEPT !.id = here])
     ELSE FinishData(
            [f EXCEPT !.id = IdOf(sector),
               !.id_index[f.last_drive][HeadIn(f)] = (index + 1) % Len(track)],
            HeadDrive(f) + (IF st1 # 0 \/ st2 # 0 THEN 64 ELSE 0), st1, st2)

\* Format and the scans are refused as if the disk could not do them.
Refused(f, st1, id) ==
  FinishData([f EXCEPT !.id = id], 64 + HeadDrive(f), st1, 0)

\* last_drive is set from the first parameter of whatever command has one.
Execute(f0, d) ==
  LET operation == f0.command % 32
      f == IF f0.count > 0 THEN [f0 EXCEPT !.last_drive = DriveOf(f0.params[1])]
                           ELSE f0
  IN CASE operation = Specify -> [f EXCEPT !.count = 0, !.expected = 0]
       [] operation = SenseDrive -> SetResults(f, <<DriveStatus(f, d)>>)
       [] operation = Recalibrate -> SeekTo(f, 0)
       [] operation = Seek -> SeekTo(f, f.params[2])
       [] operation = SenseInterrupt -> InterruptStatus(f, d)
       [] operation \in {ReadTrack, ReadData, ReadDeleted} -> BeginRead(f, d)
       [] operation \in {WriteData, WriteDeleted} -> BeginWrite(f, d)
       [] operation = ReadId -> NextIdField(f, d)
       [] operation = FormatTrack ->
            Refused(f, 2, [c |-> CylinderOf(f), h |-> HeadIn(f), r |-> 0,
                           n |-> f.params[2]])
       [] operation \in Scans ->
            Refused(f, 4, [c |-> f.params[2], h |-> f.params[3],
                           r |-> f.params[4], n |-> f.params[5]])
       [] OTHER -> SetResults(f, <<128>>)
-----------------------------------------------------------------------------
(* The two ports, and the disk in the window's menu. *)

Commands == Software[software].commands
ObeysStatus == Software[software].obeys

\* Bytes that go on with one of the commands.
CommandBytes(f) ==
  IF f.count < f.expected
  THEN {p[f.count + 2] :
          p \in {q \in Commands : /\ q[1] = f.command
                                  /\ \A i \in 1..f.count : q[i + 1] = f.params[i]}}
  ELSE {p[1] : p \in Commands}

\* A byte written while results wait to be read is lost.
TakesCommand(f) ==
  /\ f.results = <<>> /\ f.mode # "WRITE"
  /\ ObeysStatus => Status(f) \in {128, 144}

WriteCommand(byte) ==
  /\ TakesCommand(fdc)
  /\ IF fdc.count < fdc.expected
     THEN LET f == [fdc EXCEPT !.params[fdc.count + 1] = byte, !.count = @ + 1]
          IN fdc' = IF f.count = f.expected THEN Execute(f, disk) ELSE f
     ELSE LET f == [fdc EXCEPT !.command = byte, !.count = 0,
                               !.expected = ParameterCount(byte)]
          IN fdc' = IF f.expected = 0 THEN Execute(f, disk) ELSE f
  /\ UNCHANGED <<software, disk, file>>

\* A data byte written too soon is lost.
WriteByte(byte) ==
  /\ fdc.mode = "WRITE" /\ fdc.results = <<>> /\ DataReady(fdc)
  /\ LET f == [fdc EXCEPT !.buffer = Append(@, byte), !.pos = @ + 1,
                          !.since = -ByteTicks]
     IN IF f.pos = f.size
        THEN /\ fdc' = CompleteWrite(f, disk)
             /\ disk' = DiskAfterWrite(f, disk)
        ELSE /\ fdc' = f
             /\ UNCHANGED disk
  /\ UNCHANGED <<software, file>>

ReadByte ==
  /\ fdc.mode = "READ" /\ fdc.pos < fdc.size /\ DataReady(fdc)
  /\ LET f == [fdc EXCEPT !.pos = @ + 1, !.since = -ByteTicks]
     IN fdc' = IF f.pos = f.size THEN CompleteRead(f, disk) ELSE f
  /\ UNCHANGED <<software, disk, file>>

ReadResult ==
  /\ fdc.results # <<>>
  /\ fdc.mode # "READ" \/ fdc.pos >= fdc.size
  /\ fdc' = [fdc EXCEPT !.results = Tail(@)]
  /\ UNCHANGED <<software, disk, file>>

Ticks(n) == IF n + 1 < HalfRange THEN n + 1 ELSE -HalfRange

Tick ==
  /\ fdc.mode # "NONE"
  /\ fdc' = [fdc EXCEPT !.since = Ticks(@)]
  /\ UNCHANGED <<software, disk, file>>

Reset ==
  /\ fdc' = Cleared
  /\ UNCHANGED <<software, disk, file>>

\* Saving an image of an archive is refused; file_write_atomic may fail.
SaveDisk ==
  /\ disk.inserted /\ ~disk.read_only
  /\ file' = disk.tracks
  /\ disk' = [disk EXCEPT !.dirty = FALSE]
  /\ UNCHANGED <<software, fdc>>

\* Ejecting asks about unsaved changes, and goes on if the answer is to save
\* and that succeeds (SaveDisk), or not to save.
EjectDisk ==
  /\ disk.inserted
  /\ disk' = NoDisk
  /\ fdc' = Cleared
  /\ UNCHANGED <<software, file>>

\* The file just ejected, or another.
InsertDisk(image, read_only) ==
  /\ disk' = Loaded(image, read_only)
  /\ file' = image
  /\ fdc' = Cleared
  /\ UNCHANGED software

Init ==
  /\ software \in DOMAIN Software
  /\ fdc = Cleared
  /\ disk = NoDisk
  /\ file = Software[software].image

Next ==
  \/ \E byte \in CommandBytes(fdc) : WriteCommand(byte)
  \/ \E byte \in HostBytes : WriteByte(byte)
  \/ ReadByte
  \/ ReadResult
  \/ Tick
  \/ Reset
  \/ SaveDisk
  \/ EjectDisk
  \/ \E image \in {Software[software].image, file}, r \in ReadOnly : InsertDisk(image, r)

Spec == Init /\ [][Next]_vars
-----------------------------------------------------------------------------
(* Properties. *)

\* The controller's registers, with the bounds that its buffer relies on: a
\* transfer is always short of the end of its sector, which fits the buffer.
TypeOK ==
  /\ software \in DOMAIN Software
  /\ fdc.command \in Byte
  /\ fdc.params \in [1..8 -> Byte]
  /\ fdc.expected \in 0..8 /\ fdc.count \in 0..fdc.expected
  /\ fdc.results \in Seq(Byte) /\ Len(fdc.results) <= 7
  /\ fdc.last_drive \in Drives /\ fdc.cylinder \in [Drives -> Byte]
  /\ fdc.id_index \in [Drives -> [{0, 1} -> Byte]]
  /\ fdc.mode \in {"NONE", "READ", "WRITE"}
  /\ fdc.id \in Id /\ fdc.last_bad \in Id
  /\ fdc.eot \in Byte /\ fdc.st1 \in Byte /\ fdc.st2 \in Byte
  /\ fdc.repeats \in BOOLEAN /\ fdc.interrupt_pending \in BOOLEAN
  /\ fdc.since \in -HalfRange..(HalfRange - 1)
  /\ fdc.size \in 0..BufferSize
  /\ IF fdc.mode = "NONE" THEN fdc.pos = 0 ELSE fdc.pos \in 0..(fdc.size - 1)

\* The sector whose ID field went by last.
Matched ==
  LET track == TrackOf(fdc, disk)
      next  == fdc.id_index[fdc.last_drive][HeadIn(fdc)]
  IN track[IF next = 0 THEN Len(track) ELSE next]

\* What a read gives is the data of the sector whose ID field the command
\* named and the controller found, with that sector's marks; only a bad
\* sector may differ, and only when it is read again.
MatchedSector ==
  fdc.mode = "READ" /\ ObeysStatus =>
    /\ IdOf(Matched) = fdc.id
    /\ fdc.st1 = Matched.st1
    /\ \/ fdc.buffer = Matched.data
       \/ IsWeak(Matched) /\ fdc.repeats /\ fdc.buffer = Varied(Matched.data)

\* A disk that differs from its file is marked so, and the user is asked
\* before the difference is thrown away.
SavedOrDirty == disk.inserted /\ ~disk.dirty => disk.tracks = file

ByteMoved == fdc.mode # "NONE" /\ DataReady(fdc) /\ fdc'.since = -ByteTicks

\* A command that goes on from one sector to another always goes on to a
\* sector it has not had, in ascending order on side 0 and then on side 1.
SectorsAscend ==
  [][ByteMoved /\ ObeysStatus /\ fdc.pos + 1 = fdc.size /\ fdc'.mode # "NONE"
       => \/ HeadIn(fdc') = HeadIn(fdc) /\ fdc'.id.r = fdc.id.r + 1
                                      /\ fdc'.id.r <= fdc.eot
          \/ HeadIn(fdc') = 1 /\ HeadIn(fdc) = 0 /\ fdc'.id.r = 1]_vars

\* A sector with a mark, a wrong CRC or no address mark is given to the CPU
\* to its last byte, is the last of its command, and its marks are the result.
\* Only the user's actions at the window cut this short.
MarksReported ==
  [][fdc.mode = "READ" /\ ObeysStatus /\ (fdc.st1 # 0 \/ fdc.st2 # 0) /\ fdc' # Cleared
       => \/ /\ fdc'.mode = "READ" /\ fdc'.id = fdc.id
             /\ fdc'.st1 = fdc.st1 /\ fdc'.st2 = fdc.st2 /\ fdc'.pos >= fdc.pos
          \/ /\ fdc.pos + 1 = fdc.size
             /\ Len(fdc'.results) = 7
             /\ fdc'.results[2] = fdc.st1 /\ fdc'.results[3] = fdc.st2]_vars

\* The first sector of this side that a write has had: a command for both
\* sides begins the other one at 1, whatever R it names.
FirstWritten(f) ==
  IF f.command \div MultiTrack = 1 /\ HeadIn(f) = 1 /\ f.params[4] = 0
  THEN 1 ELSE f.params[4]

\* While a write goes on, each sector from the first named up to the current
\* one has its new data and fresh marks: a sector that could not be written
\* has ended the command, and the R of the result says how far it came.
WrittenSoFar ==
  fdc.mode = "WRITE" /\ ObeysStatus =>
    \A r \in FirstWritten(fdc)..(fdc.id.r - 1) :
      \E i \in DOMAIN TrackOf(fdc, disk) :
        LET sector == TrackOf(fdc, disk)[i]
        IN /\ IdOf(sector) = [fdc.id EXCEPT !.r = r]
           /\ sector.st1 = 0
           /\ HasBit(sector.st2, Deleted) = (fdc.command % 32 = WriteDeleted)
           /\ \A b \in 1..Len(sector.data) : sector.data[b] \in HostBytes \cup {0}

\* What a program writes is kept on the disk, and in its file or marked.
WritesKept == WrittenSoFar /\ SavedOrDirty

\* A command takes its sectors in turn, as far as the first bad one.
SectorsInTurn == SectorsAscend /\ MarksReported
=============================================================================
