----------------------------- MODULE MCPlus3Fdc -----------------------------
(* Constants of the model-checking runs of Plus3Fdc.                        *)
EXTENDS Plus3Fdc, TLC

Sector(c, h, r, n, data) ==
  [c |-> c, h |-> h, r |-> r, n |-> n, st1 |-> 0, st2 |-> 0, data |-> data]
Marked(sector, st1, st2) == [sector EXCEPT !.st1 = st1, !.st2 = st2]

\* Two sides of cylinder 0, the second with sectors that say they are on side
\* 0 or are too long; cylinder 1 has a deleted, a bad and an empty sector.
ProtectedImage ==
  <<0, 0>> :> << Sector(0, 0, 2, 0, <<12, 12>>), Sector(0, 0, 1, 0, <<11, 11>>) >>
  @@ <<0, 1>> :> << Sector(0, 1, 1, 0, <<21, 21>>), Sector(0, 0, 2, 0, <<22, 22>>),
                    Sector(0, 1, 2, 2, [i \in 1..8 |-> 23]) >>
  @@ <<1, 0>> :> << Marked(Sector(0, 0, 1, 0, <<31, 31>>), 0, 64),
                    Marked(Sector(0, 0, 2, 0, <<32, 32>>), 32, 32),
                    Sector(0, 0, 3, 0, <<>>) >>

\* Two sectors to a side; the second of side 1 is longer than it says.
PlainImage ==
  <<0, 0>> :> << Sector(0, 0, 1, 0, <<11, 11>>), Marked(Sector(0, 0, 2, 0, <<12, 12>>), 32, 32) >>
  @@ <<0, 1>> :> << Sector(0, 1, 1, 0, <<21, 21>>), Sector(0, 1, 2, 0, <<22, 22, 22, 22>>) >>

SmallImage ==
  <<0, 0>> :> << Sector(0, 0, 1, 0, <<11, 11>>), Marked(Sector(0, 0, 2, 0, <<12, 12>>), 0, 64) >>

ReadPrograms ==
  { <<ReadData, 0, 0, 0, 1, 0, 3, 0, 255>>, <<ReadDeleted, 0, 0, 0, 1, 0, 3, 0, 255>>,
    <<ReadData + MultiTrack, 0, 0, 0, 1, 0, 2, 0, 255>>,
    <<ReadTrack, 4, 0, 0, 2, 0, 2, 0, 255>>, <<ReadData, 4, 0, 1, 2, 2, 2, 0, 255>>,
    <<ReadData, 1, 0, 0, 1, 0, 3, 0, 255>>,
    <<ReadId, 0>>, <<ReadId, 4>>, <<ReadId, 1>>, <<Seek, 0, 1>>, <<Recalibrate, 0>> }
OtherPrograms ==
  { <<Specify, 1, 2>>, <<SenseDrive, 0>>, <<SenseDrive, 1>>, <<SenseInterrupt>>,
    <<Seek, 0, 1>>, <<Seek, 1, 1>>, <<Recalibrate, 0>>, <<FormatTrack, 0, 0, 9, 42, 229>>,
    <<17, 0, 0, 0, 1, 0, 1, 0, 1>>, <<31>>,
    <<ReadData, 0, 0, 0, 1, 0, 1, 0, 255>> }
WritePrograms ==
  { <<WriteData, 0, 0, 0, 1, 0, 2, 0, 2>>, <<WriteData, 0, 0, 0, 1, 0, 2, 0, 255>>,
    <<WriteDeleted, 0, 0, 0, 1, 0, 2, 0, 1>>,
    <<WriteData + MultiTrack, 0, 0, 0, 1, 0, 2, 0, 1>>,
    <<WriteData, 4, 0, 1, 1, 0, 3, 0, 2>>, <<WriteData, 4, 0, 1, 2, 7, 2, 0, 255>>,
    <<WriteData, 4, 0, 1, 1, 1, 1, 0, 255>>,
    <<WriteData, 1, 0, 0, 1, 0, 1, 0, 255>> }
\* For a CPU that writes commands into transfers.
MixedPrograms ==
  { <<ReadData + MultiTrack, 0, 0, 0, 1, 0, 2, 0, 255>>,
    <<WriteData, 0, 0, 0, 1, 0, 2, 0, 1>>,
    <<Seek, 0, 1>>, <<Recalibrate, 1>>, <<SenseInterrupt>>, <<Specify, 4, 2>>, <<ReadId, 4>> }
\* A loader of protected disks, a program that asks after the drive, one that
\* writes, and one that writes commands into transfers.
AllSoftware ==
  [protected |-> [image |-> ProtectedImage, commands |-> ReadPrograms, obeys |-> TRUE],
   utility   |-> [image |-> SmallImage, commands |-> OtherPrograms, obeys |-> TRUE],
   editor    |-> [image |-> PlainImage, commands |-> WritePrograms, obeys |-> TRUE],
   rude      |-> [image |-> SmallImage, commands |-> MixedPrograms, obeys |-> FALSE]]

\* The condition under which the theorems about sectors are proved.
ASSUME \A s \in DOMAIN Software : NumbersTell(Software[s].image)
=============================================================================
