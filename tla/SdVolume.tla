------------------------------ MODULE SdVolume ------------------------------
(* What an SD card promises about the blocks of its image, whatever bytes    *)
(* cross the bus: a block changes only within a write the host began on a    *)
(* selected, writable card, at the address that write has reached, and all   *)
(* of it at once.  A block whose write failed on the host's file system is   *)
(* the one exception, and the host is told.                                  *)
EXTENDS Integers

CONSTANTS
  Blocks,     \* number of blocks of the image
  Fresh,      \* content of a block nobody wrote
  Contents,   \* what a whole packet can hold
  Broken      \* content of a block whose write failed half way

VARIABLES
  image,      \* block -> content
  job,        \* the write in progress: whether, at which block, how many
  selected,
  writable,
  accepted    \* whether the host was told that its last packet is written

vvars == <<image, job, selected, writable, accepted>>

NoJob == [active |-> FALSE, lba |-> 0, multi |-> FALSE]
NoBlock == [lba \in 0..(Blocks - 1) |-> Fresh]

VolumeInit ==
  /\ image = NoBlock /\ job = NoJob /\ selected = FALSE
  /\ writable \in BOOLEAN /\ accepted = TRUE

\* A file is opened in place of the card: nothing of the old card is left.
Insert ==
  /\ image' = NoBlock /\ job' = NoJob /\ selected' = FALSE
  /\ writable' \in BOOLEAN /\ accepted' = TRUE

\* The chip select changes: a write that is not complete is given up.
Select ==
  /\ selected' = ~selected /\ job' = NoJob
  /\ UNCHANGED <<image, writable, accepted>>

Begin ==
  /\ selected /\ ~job.active
  /\ \E lba \in 0..(Blocks - 1), multi \in BOOLEAN :
       job' = [active |-> TRUE, lba |-> lba, multi |-> multi]
  /\ UNCHANGED <<image, selected, writable, accepted>>

\* The job after one packet: the next block of a multiple write, or no more.
Advanced == IF job.multi THEN [job EXCEPT !.lba = @ + 1] ELSE NoJob

Commit ==
  /\ selected /\ job.active /\ writable /\ job.lba < Blocks
  /\ \E c \in Contents : image' = [image EXCEPT ![job.lba] = c]
  /\ job' = Advanced /\ accepted' = TRUE
  /\ UNCHANGED <<selected, writable>>

\* The packet is refused, or the file could not take it.
Refuse ==
  /\ selected /\ job.active
  /\ \/ UNCHANGED image
     \/ /\ writable /\ job.lba < Blocks
        /\ image' = [image EXCEPT ![job.lba] = Broken]
  /\ job' = Advanced /\ accepted' = FALSE
  /\ UNCHANGED <<selected, writable>>

\* The host ends a multiple write.
EndJob ==
  /\ selected /\ job.active /\ job.multi /\ job' = NoJob
  /\ UNCHANGED <<image, selected, writable, accepted>>

VolumeNext == Insert \/ Select \/ Begin \/ Commit \/ Refuse \/ EndJob

VolumeSpec == VolumeInit /\ [][VolumeNext]_vvars
=============================================================================
