----------------------------- MODULE Plus3Disk -----------------------------
(* The disk in drive A: of the +3 (src/src/disk.c): a parsed DSK image and  *)
(* the questions and orders the floppy controller has for it.  A track is a *)
(* sequence of sectors, found by <<cylinder, head>>; a sector has the four  *)
(* bytes of its ID field, the status the image keeps for it, and its data.  *)
(* The bytes of the file that hold a sector are that sector here, so an     *)
(* image is written by changing the sector; weak copies of one sector,      *)
(* which a write makes equal and a read never looks past the first of, are  *)
(* one.  Track and ID numbers of an image are what its file says: they need *)
(* not agree.                                                              *)
EXTENDS Integers, Sequences, FiniteSetsExt

CONSTANTS
  BufferSize,  \* ZX_PLUS3_MAX_SECTOR_SIZE, 8192
  ReadOnly     \* the values read_only may have: TRUE for one from an archive

Byte == 0..255

\* What a DSK file is parsed to, its tracks by <<cylinder, head>>.  No more
\* sector descriptors than this fit the 256 bytes of a track's header.
MaxSectors == 29
Sectors == [c : Byte, h : Byte, r : Byte, n : Byte, st1 : Byte, st2 : Byte,
            data : Seq(Byte)]
IsImage(tracks) ==
  \A place \in DOMAIN tracks :
    tracks[place] \in Seq(Sectors) /\ Len(tracks[place]) <= MaxSectors

Deleted == 64         \* ST2 Control Mark
DataError == 32       \* ST1 and ST2, a bad CRC of the data field

HasBit(byte, bit) == (byte \div bit) % 2 = 1
With(byte, bit) == IF HasBit(byte, bit) THEN byte ELSE byte + bit
Without(byte, bit) == IF HasBit(byte, bit) THEN byte - bit ELSE byte

IdOf(sector) == [c |-> sector.c, h |-> sector.h, r |-> sector.r, n |-> sector.n]

NoDisk == [inserted |-> FALSE, dirty |-> FALSE, read_only |-> FALSE,
           tracks |-> <<>>]
Loaded(image, read_only) ==
  [inserted |-> TRUE, dirty |-> FALSE, read_only |-> read_only,
   tracks |-> image]

DriveReady(disk, drive) == drive = 0 /\ disk.inserted

\* The sectors under the head, in the order of their descriptors.
Track(disk, drive, cylinder, head) ==
  IF DriveReady(disk, drive) /\ <<cylinder, head>> \in DOMAIN disk.tracks
  THEN disk.tracks[<<cylinder, head>>]
  ELSE <<>>

\* The sector that dsk_read_sector and dsk_write_sector mean by R and N: the
\* first of the track that has them, whatever C and H its ID field holds; 0
\* for none.
Numbered(track, id) ==
  LET same == {i \in DOMAIN track : /\ track[i].r = id.r
                                    /\ id.n \in {track[i].n, 255}}
  IN IF same = {} THEN 0 ELSE Min(same)

\* That is all a write or a read is to need (dsk_find_sector): no two sectors
\* of a track have one R and N, nor one the N that stands for any.
NumbersTell(tracks) ==
  \A place \in DOMAIN tracks : \A i, j \in DOMAIN tracks[place] :
    /\ tracks[place][i].n # 255
    /\ /\ tracks[place][i].r = tracks[place][j].r
       /\ tracks[place][i].n = tracks[place][j].n
       => i = j

Readable(track, id) ==
  LET i == Numbered(track, id)
  IN i # 0 /\ Len(track[i].data) \in 1..BufferSize

CanWrite(disk, drive) == DriveReady(disk, drive) /\ ~disk.read_only

Writable(disk, drive, track, id, size) ==
  /\ CanWrite(disk, drive)
  /\ LET i == Numbered(track, id)
     IN i # 0 /\ Len(track[i].data) > 0 /\ Len(track[i].data) = size

\* The image after a write that Writable allows.  The marks of the image are
\* made afresh, and it has to be saved.
Stored(disk, cylinder, head, id, data, deleted) ==
  LET place  == <<cylinder, head>>
      i      == Numbered(disk.tracks[place], id)
      sector == [disk.tracks[place][i] EXCEPT
                   !.data = data, !.st1 = 0,
                   !.st2 = IF deleted THEN Deleted ELSE 0]
  IN [disk EXCEPT !.tracks[place][i] = sector, !.dirty = TRUE]
=============================================================================
