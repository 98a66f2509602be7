------------------------------ MODULE TapePlayer ------------------------------
(* The running half of src/src/tape.c: a decoded tape is a sequence of timed *)
(* segments of the EAR signal and a list of blocks that the ROM's loader can *)
(* take whole.  tape_input_level moves along the segments as the machine's   *)
(* tick counter passes the end of each; tape_rewind returns to the start and *)
(* rescales every duration when the clock of the machine has changed.        *)
(*                                                                           *)
(* Indexes count from zero as in the code, so segment i is segments[i + 1].  *)
(* "nominal" is the duration in the file, in T-states of 3.5 MHz; the code   *)
(* does not keep it.  Signal levels and the bytes of blocks are left out.    *)
EXTENDS Integers, Sequences, FiniteSetsExt

CONSTANTS Hz48,    \* the clock of a 48K
          Hz128    \* the clock of every other model

\* 3500000 and 3546900 in the code.  Rescaling may lose a pulse's length if the
\* 128K's clock were the slower one, or faster by half.
ASSUME ClockAssumption ==
  /\ Hz48 \in Nat \ {0} /\ Hz128 \in Nat \ {0} /\ Hz48 % 2 = 0
  /\ Hz48 < Hz128 /\ 2 * Hz128 < 3 * Hz48

Clock(model) == IF model = "48K" THEN Hz48 ELSE Hz128

Targets == {"unknown", "48", "128"}       \* TAPE_AUTOLOAD_TARGET_...
StopModes == {"no", "always", "48K"}      \* TAPE_STOP_...

NoTape ==
  [inserted |-> FALSE, playing |-> FALSE, segments |-> <<>>, blocks |-> <<>>,
   block |-> 0, index |-> 0, end |-> 0, hz |-> 0, stop48 |-> FALSE,
   target |-> "unknown"]

\* A file as the decoder reads it: a TAP or a TZX, which may hold a choice.  Its
\* segments are pulses, pauses and, with no length, the stop markers; a block
\* ends within the tape.  A pause is one segment, which tape_append_pause makes
\* of two, and samples that tape_append_level joins are not modelled.
Images ==
  [tap : BOOLEAN, choice : BOOLEAN, target : Targets, blocks : Seq(Nat),
   segments : Seq([nominal : Nat, pause : BOOLEAN, stop : StopModes])]
IsImage(image) ==
  /\ image \in Images
  /\ \A i \in DOMAIN image.blocks : image.blocks[i] <= Len(image.segments)

\* A pulse is decoded to the nearest tick, a half falling; a pause rises.
PulseTicks(nominal, hz) ==
  LET ticks == (nominal * hz + Hz48 \div 2 - 1) \div Hz48
  IN IF ticks = 0 THEN 1 ELSE ticks
PauseTicks(nominal, hz) == (nominal * hz + Hz48 - 1) \div Hz48

\* The tape that a file becomes, decoded for a machine of clock hz.
Decoded(image, hz) ==
  LET Segment(s) ==
        [nominal |-> s.nominal, pause |-> s.pause, stop |-> s.stop,
         ticks |-> IF s.nominal = 0 THEN 0
                   ELSE IF s.pause THEN PauseTicks(s.nominal, hz)
                   ELSE PulseTicks(s.nominal, hz)]
  IN [NoTape EXCEPT !.inserted = TRUE, !.hz = hz, !.target = image.target,
                    !.blocks = image.blocks,
                    !.segments = [i \in DOMAIN image.segments |->
                                    Segment(image.segments[i])]]

HasTape(p) == p.inserted /\ p.segments # <<>>
TicksOf(p, i) == p.segments[i + 1].ticks

\* Mutant: the half that rounds is forgotten.
Scaled_Truncates(ticks, hz, previous) ==
  LET scaled == (ticks * hz) \div previous
  IN IF ticks = 0 THEN 0 ELSE IF scaled = 0 THEN 1 ELSE scaled

Scaled(ticks, hz, previous) ==
  LET scaled == (ticks * hz + previous \div 2) \div previous
  IN IF ticks = 0 THEN 0 ELSE IF scaled = 0 THEN 1 ELSE scaled

TapeRewind(p, hz) ==
  LET Rescaled(s) == [s EXCEPT !.ticks = Scaled(@, hz, p.hz)]
  IN [p EXCEPT !.segments = IF p.hz > 0 /\ p.hz # hz
                            THEN [i \in DOMAIN @ |-> Rescaled(@[i])] ELSE @,
               !.hz = hz, !.block = 0, !.index = 0, !.end = 0,
               !.playing = FALSE]

SetStopMode(p, stop48) == [p EXCEPT !.stop48 = stop48]
TapeStop(p) == [p EXCEPT !.playing = FALSE]

TapeStart(p, tick) ==
  IF ~HasTape(p) THEN p
  ELSE LET over  == p.index >= Len(p.segments)
           index == IF over THEN 0 ELSE p.index
       IN [p EXCEPT !.index = index, !.block = IF over THEN 0 ELSE @,
                    !.playing = TRUE, !.end = tick + TicksOf(p, index)]

StopsAfter(p, i) ==
  \/ i + 1 = Len(p.segments)
  \/ p.segments[i + 1].stop = "always"
  \/ p.segments[i + 1].stop = "48K" /\ p.stop48

\* When each segment ends, from the one that is playing on.
Ends(p) ==
  LET ends[i \in p.index .. Len(p.segments) - 1] ==
        IF i = p.index THEN p.end ELSE ends[i - 1] + TicksOf(p, i)
  IN ends

\* tape_input_level at a tick: passes every segment that has ended, up to one
\* the tape stops after.
InputLevel(p, tick) ==
  IF ~(HasTape(p) /\ p.playing) THEN p
  ELSE LET ends   == Ends(p)
           passed == {i \in DOMAIN ends : tick >= ends[i]}
           stops  == {i \in passed : StopsAfter(p, i)}
       IN IF passed = {} THEN p
          ELSE IF stops # {}
          THEN [p EXCEPT !.playing = FALSE, !.index = Min(stops) + 1,
                         !.end = ends[Min(stops)]]
          ELSE [p EXCEPT !.index = Max(passed) + 1,
                         !.end = ends[Max(passed) + 1]]

InPause(p) == p.playing /\ p.segments[p.index + 1].pause

\* tape_try_fast_load: blocks that the tape has passed are skipped; the next
\* one is taken if it is what the ROM asks for, and the tape goes on behind it.
NextBlock(p) ==
  LET ahead == {b \in p.block .. (Len(p.blocks) - 1) :
                  p.blocks[b + 1] > p.index}
  IN IF ahead = {} THEN Len(p.blocks) ELSE Min(ahead)
CanFastLoad(p) == NextBlock(p) < Len(p.blocks)
SkipPlayed(p) == [p EXCEPT !.block = NextBlock(p)]
FastLoad(p, tick) ==
  LET resume == p.blocks[NextBlock(p) + 1]
      more   == resume < Len(p.segments)
  IN [p EXCEPT !.block = NextBlock(p) + 1, !.index = resume, !.playing = more,
               !.end = IF more THEN tick + TicksOf(p, resume) ELSE 0]
===============================================================================
