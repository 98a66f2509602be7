------------------------- MODULE FrameLoops_proofs -------------------------
(***************************************************************************)
(* Proofs about the two loops that run a frame: NextFrame, for every       *)
(* length of a frame, a line and an interrupt, every set of speeds and     *)
(* every use; and Debugger, which runs a frame in slices, for every        *)
(* program, list of points and length of a frame.  In the program a slice  *)
(* of the Next is a call that stops early; the models share no state.      *)
(*                                                                         *)
(* NextFrame: first the arithmetic of a change of speed, then what a       *)
(* write to a register may move, then the parts of the invariant.          *)
(*                                                                         *)
(* Debugger: first what a condition evaluates to, whatever its length;     *)
(* then the list of points; then an invariant with a part for each         *)
(* property, kept by commands, slices and ticks.                           *)
(***************************************************************************)
EXTENDS NextFrame, Debugger, SequenceTheorems, WellFoundedInduction, TLAPS

Speeds == {1, 2, 4, 8}

-----------------------------------------------------------------------------
(* Arithmetic of a change of speed.                                        *)

LEMMA Division ==
  ASSUME NEW a \in Nat, NEW b \in Nat, b > 0
  PROVE  a \div b \in Nat /\ b * (a \div b) <= a /\ a < b * (a \div b) + b
OBVIOUS

\* A position within a length stays within the scaled length, and loses less
\* than one T-state.
LEMMA ScaledDown ==
  ASSUME NEW old \in Speeds, NEW new \in Speeds, NEW t \in Nat, NEW F \in Nat
  PROVE  LET q == (t * new) \div old
         IN  /\ q \in Nat /\ (t = 0 => q = 0)
             /\ t < F * old => q < F * new
             /\ (8 \div new) * q <= (8 \div old) * t
             /\ (8 \div old) * t <= (8 \div new) * q + 8
BY DEF Speeds

\* A count that runs goes on, within its scaled length.
LEMMA ScaledUp ==
  ASSUME NEW old \in Speeds, NEW new \in Speeds, NEW c \in Nat, NEW P \in Nat
  PROVE  LET r == (c * new + old - 1) \div old
         IN  /\ r \in Nat /\ (c = 0 <=> r = 0)
             /\ c <= P * old => r <= P * new
BY DEF Speeds

\* Where a count ends does not come nearer.
LEMMA ScaledSum ==
  ASSUME NEW old \in Speeds, NEW new \in Speeds, NEW t \in Nat, NEW c \in Nat,
         NEW S \in Nat, t + c >= S * old
  PROVE  (t * new) \div old + (c * new + old - 1) \div old >= S * new
BY DEF Speeds

-----------------------------------------------------------------------------
(* The invariant.                                                          *)

\* The line a register selects, and where it begins.
Line(r) == IF r.target = 0 THEN LastLine ELSE r.target - 1
OffsetKnown(m) ==
  m.nr22.line_on =>
    m.line_int_offset = Line(m.nr22) * LineTstates * m.cpu_speed_multiplier

Sound(m) ==
  /\ m \in NextMachine
  /\ m.frame_tstate < FrameTicks(m) /\ m.int_counter <= Pulse(m)
  /\ OffsetKnown(m)

Histories ==
  [ unrendered: 0..2, line_pulses: 0..2, writes: 0..MaxWrites, time: Nat,
    enabled: BOOLEAN, raised: BOOLEAN, skipped: BOOLEAN ]

\* The count that runs will end behind the window of the line interrupt.
Spent(m) == m.frame_tstate + m.int_counter >= m.line_int_offset + Pulse(m)

Position(m) == Unit(m) * m.frame_tstate

TimedPin(m, h) ==
  m.z80_int /\ ~ResetsItself /\ ~h.skipped => m.int_counter > 0 \/ m.frame_tstate = 0
Placed(m, h) ==
  Position(m) <= h.time /\ h.time <= Position(m) + Fast * h.writes
\* A count that runs has interrupted in this frame.
Raised(m, h) ==
  /\ m.int_counter > 0 => h.raised
  /\ h.enabled /\ m.frame_tstate > 0 => h.raised
OneSpeed == ~(use.ports /\ "SPEED" \in use.registers)
\* A line interrupt that has come is over, or will end behind its window.
Once(m, h) ==
  ~ResetsItself =>
    /\ m.line_int_pending => m.int_counter > 0
    /\ OneSpeed => /\ h.line_pulses <= 1
                   /\ h.line_pulses = 1 /\ m.nr22.line_on => Spent(m)
\* The call aims at the end of this frame.
Aimed(m, c, h) ==
  ~ResetsItself =>
    /\ c.pc = "loop" => c.target = m.frame_count + 1
    /\ c.pc = "render" => h.line_pulses = 0
    /\ ~use.stops /\ FitsFrame =>
         h.unrendered <= 1 /\ (c.pc # "render" => h.unrendered = 0)

Calls == [pc: {"out", "loop", "render"}, target: Nat]
Kept(m, h) == TimedPin(m, h) /\ Placed(m, h) /\ Raised(m, h) /\ Once(m, h)
IInv ==
  /\ use \in Uses /\ Sound(machine) /\ call \in Calls /\ history \in Histories
  /\ Kept(machine, history) /\ Aimed(machine, call, history)

LEMMA Known ==
  ASSUME IInv
  PROVE  /\ use \in Uses /\ Sound(machine) /\ call \in Calls /\ history \in Histories
         /\ Kept(machine, history) /\ Aimed(machine, call, history)
BY DEF IInv

\* The lengths of a machine.
LEMMA Lengths ==
  ASSUME NEW m, m \in NextMachine
  PROVE  /\ m.cpu_speed_multiplier \in Speeds
         /\ FrameTicks(m) \in Nat /\ FrameTicks(m) > 0
         /\ FrameTstates <= FrameTicks(m)
         /\ Pulse(m) \in Nat /\ Pulse(m) > 1
         /\ Unit(m) \in Speeds /\ Unit(m) = 8 \div m.cpu_speed_multiplier
<1>1. m.cpu_speed_multiplier \in Speeds
  BY MultiplierAssumption DEF NextMachine, Speeds
<1>2. FrameTicks(m) \in Nat /\ FrameTicks(m) > 0 /\ FrameTstates <= FrameTicks(m)
  BY <1>1, FrameAssumption DEF FrameTicks, Speeds
<1>3. Pulse(m) \in Nat /\ Pulse(m) > 1
  BY <1>1, FrameAssumption DEF Pulse, Speeds
<1>4. Unit(m) \in Speeds /\ Unit(m) = 8 \div m.cpu_speed_multiplier
  BY <1>1 DEF Unit, Fast, Speeds
<1>5. QED
  BY <1>1, <1>2, <1>3, <1>4

-----------------------------------------------------------------------------
(* Register writes.                                                        *)

\* What a write does to time and to the interrupt under way.
Moved(n, m) ==
  /\ Sound(n)
  /\ m.int_counter = 0 => n.int_counter = 0
  /\ m.frame_tstate = 0 => n.frame_tstate = 0
  /\ Position(n) <= Position(m)
  /\ n.frame_tstate = 0 \/ Position(m) <= Position(n) + Fast
  /\ ~ResetsItself =>
       /\ n.frame_count = m.frame_count /\ n.z80_int = m.z80_int
       /\ m.int_counter > 0 => n.int_counter > 0
       /\ n.line_int_pending => m.line_int_pending
       /\ n.nr22 = m.nr22 /\ m.nr22.line_on /\ Spent(m) => Spent(n)
       /\ "SPEED" \notin use.registers =>
            /\ n.frame_tstate = m.frame_tstate /\ n.int_counter = m.int_counter
            /\ n.cpu_speed_multiplier = m.cpu_speed_multiplier

LEMMA SelfMoved == ASSUME NEW m, Sound(m) PROVE Moved(m, m)
<1>1. Position(m) \in Nat
  BY Lengths DEF Sound, Position, Speeds, NextMachine
<1>2. QED
  BY <1>1 DEF Moved, Fast

LEMMA LineIsNat ==
  ASSUME NEW m, m \in NextMachine
  PROVE  /\ Line(m.nr22) \in Nat
         /\ Line(m.nr22) * LineTstates \in Nat
         /\ Line(m.nr22) * LineTstates * m.cpu_speed_multiplier \in Nat
<1>1. m.nr22.target \in Nat
  <2>1. m.nr22.target \in LineTargets \cup {0}
    BY DEF NextMachine
  <2>2. \A t \in LineTargets : t \in Nat
    BY HostAssumption, Zenon
  <2>3. CASE m.nr22.target = 0
    BY <2>3
  <2>4. QED
    BY <2>1, <2>2, <2>3
<1>2. Line(m.nr22) \in Nat
  BY <1>1, FrameAssumption DEF Line
<1>3. m.cpu_speed_multiplier \in Nat /\ LineTstates \in Nat
  BY Lengths, FrameAssumption DEF Speeds
<1>4. QED
  BY <1>2, <1>3

\* The registers are applied to a machine of sound time.
LEMMA ApplyInterruptsSound ==
  ASSUME NEW m, m \in NextMachine, m.frame_tstate < FrameTicks(m), m.int_counter <= Pulse(m)
  PROVE  LET n == ApplyInterrupts(m)
         IN  /\ Sound(n)
             /\ n.frame_count = m.frame_count /\ n.frame_tstate = m.frame_tstate
             /\ n.cpu_speed_multiplier = m.cpu_speed_multiplier
             /\ n.int_counter = m.int_counter /\ n.z80_int = m.z80_int /\ n.nr22 = m.nr22
             /\ n.line_int_pending => m.line_int_pending
<1> DEFINE off == m.nr22.frame_off
           offset == Line(m.nr22) * LineTstates * m.cpu_speed_multiplier
           n == ApplyInterrupts(m)
<1>1. off \in BOOLEAN /\ offset \in Nat
  BY LineIsNat DEF NextMachine
<1>2. n = IF m.nr22.line_on
          THEN [m EXCEPT !.frame_int_disabled = off, !.line_int_offset = offset]
          ELSE [m EXCEPT !.frame_int_disabled = off, !.line_int_offset = 0,
                         !.line_int_pending = FALSE]
  BY DEF ApplyInterrupts, Line
<1> HIDE DEF n, off
<1>3. /\ n \in NextMachine
      /\ n.frame_count = m.frame_count /\ n.frame_tstate = m.frame_tstate
      /\ n.cpu_speed_multiplier = m.cpu_speed_multiplier
      /\ n.int_counter = m.int_counter /\ n.z80_int = m.z80_int /\ n.nr22 = m.nr22
      /\ n.line_int_pending => m.line_int_pending
      /\ n.nr22.line_on => n.line_int_offset = offset
  <2> HIDE DEF offset
  <2>1. QED
    BY <1>1, <1>2 DEF NextMachine
<1>4. Sound(n)
  BY <1>3 DEF Sound, OffsetKnown, FrameTicks, Pulse
<1>5. QED
  BY <1>3, <1>4 DEF n

\* An equal count of a machine whose offset is known by its registers.
LEMMA SpentAlike ==
  ASSUME NEW m, NEW n, Sound(m), Sound(n), n.nr22 = m.nr22, m.nr22.line_on,
         n.cpu_speed_multiplier = m.cpu_speed_multiplier,
         n.frame_tstate = m.frame_tstate, n.int_counter = m.int_counter, Spent(m)
  PROVE  Spent(n)
BY DEF Spent, Sound, OffsetKnown, Pulse

LEMMA SpeedMoves ==
  ASSUME NEW m, Sound(m), NEW s \in Multipliers, "SPEED" \in use.registers
  PROVE  Moved(ApplyInterrupts(SetCpuSpeed(m, s)), m)
<1> DEFINE old == m.cpu_speed_multiplier
           t == m.frame_tstate
           c == m.int_counter
           q == (t * s) \div old
           r == (c * s + old - 1) \div old
           k == SetCpuSpeed(m, s)
           n == ApplyInterrupts(k)
<1>1. old \in Speeds /\ s \in Speeds /\ t \in Nat /\ c \in Nat
      /\ FrameTstates \in Nat /\ PulseTstates \in Nat
  BY Lengths, MultiplierAssumption, FrameAssumption DEF Sound, NextMachine, Speeds
<1>2. k = [m EXCEPT !.frame_tstate = q, !.int_counter = r, !.cpu_speed_multiplier = s]
  BY DEF SetCpuSpeed
<1>3. m \in NextMachine /\ t < FrameTstates * old /\ c <= PulseTstates * old
  BY DEF Sound, FrameTicks, Pulse
<1>4. /\ q \in Nat /\ (t = 0 => q = 0) /\ q < FrameTstates * s
      /\ (8 \div s) * q <= (8 \div old) * t
      /\ (8 \div old) * t <= (8 \div s) * q + 8
  BY <1>1, <1>3, ScaledDown
<1>5. r \in Nat /\ (c = 0 <=> r = 0) /\ r <= PulseTstates * s
  BY <1>1, <1>3, ScaledUp
<1>6. \A S \in Nat : t + c >= S * old => q + r >= S * s
  BY <1>1, ScaledSum
<1> HIDE DEF q, r, k
<1>7. /\ k \in NextMachine /\ k.frame_tstate = q /\ k.int_counter = r
      /\ k.cpu_speed_multiplier = s /\ k.frame_count = m.frame_count
      /\ k.z80_int = m.z80_int /\ k.nr22 = m.nr22
      /\ k.line_int_pending = m.line_int_pending
  BY <1>2, <1>3, <1>4, <1>5 DEF NextMachine
<1>8. k.frame_tstate < FrameTicks(k) /\ k.int_counter <= Pulse(k)
  BY <1>4, <1>5, <1>7 DEF FrameTicks, Pulse
<1>9. /\ Sound(n)
      /\ n.frame_count = m.frame_count /\ n.frame_tstate = q
      /\ n.cpu_speed_multiplier = s /\ n.int_counter = r /\ n.z80_int = m.z80_int
      /\ n.nr22 = m.nr22 /\ (n.line_int_pending => m.line_int_pending)
  BY <1>7, <1>8, ApplyInterruptsSound
<1> HIDE DEF n
<1>10. Position(n) = (8 \div s) * q /\ Position(m) = (8 \div old) * t
  BY <1>9 DEF Position, Unit, Fast
<1>11. ASSUME m.nr22.line_on, Spent(m) PROVE Spent(n)
  <2> DEFINE begin == Line(m.nr22) * LineTstates
             S == begin + PulseTstates
  <2>1. begin \in Nat
    BY <1>3, LineIsNat
  <2>2. m.line_int_offset = begin * old /\ n.line_int_offset = begin * s
    BY <1>9, <1>11 DEF Sound, OffsetKnown
  <2> HIDE DEF begin
  <2>3. m.line_int_offset + Pulse(m) = S * old /\ n.line_int_offset + Pulse(n) = S * s
    BY <1>1, <1>9, <2>1, <2>2 DEF Pulse, Speeds
  <2>4. S \in Nat
    BY <1>1, <2>1
  <2> HIDE DEF S
  <2>5. t + c >= S * old
    BY <1>11, <2>3 DEF Spent
  <2>6. QED
    BY <1>6, <1>9, <2>3, <2>4, <2>5 DEF Spent
<1>12. Moved(n, m)
  BY <1>4, <1>5, <1>9, <1>10, <1>11, <1>1 DEF Moved, Fast
<1>13. QED
  BY <1>12 DEF n, k

LEMMA InterruptsMove ==
  ASSUME NEW m, Sound(m), NEW off \in BOOLEAN, NEW on \in BOOLEAN, NEW target \in LineTargets
  PROVE  Moved(ApplyInterrupts([m EXCEPT !.nr22 =
                 [frame_off |-> off, line_on |-> on, target |-> target]]), m)
<1> DEFINE r == [frame_off |-> off, line_on |-> on, target |-> target]
           k == [m EXCEPT !.nr22 = r]
           n == ApplyInterrupts(k)
<1>1. r \in [frame_off: BOOLEAN, line_on: BOOLEAN, target: LineTargets \cup {0}]
  OBVIOUS
<1> HIDE DEF r
<1>2. /\ k \in NextMachine /\ k.frame_tstate = m.frame_tstate
      /\ k.int_counter = m.int_counter /\ k.cpu_speed_multiplier = m.cpu_speed_multiplier
      /\ k.frame_count = m.frame_count /\ k.z80_int = m.z80_int
      /\ k.line_int_pending = m.line_int_pending
  BY <1>1 DEF Sound, NextMachine
<1> HIDE DEF k
<1>3. k.frame_tstate < FrameTicks(k) /\ k.int_counter <= Pulse(k)
  BY <1>2 DEF Sound, FrameTicks, Pulse
<1>4. /\ Sound(n) /\ n.frame_count = m.frame_count /\ n.frame_tstate = m.frame_tstate
      /\ n.cpu_speed_multiplier = m.cpu_speed_multiplier
      /\ n.int_counter = m.int_counter /\ n.z80_int = m.z80_int
      /\ n.line_int_pending => m.line_int_pending
  BY <1>2, <1>3, ApplyInterruptsSound
<1> HIDE DEF n
<1>5. Position(n) = Position(m) /\ Position(m) \in Nat
  BY <1>4, Lengths DEF Position, Unit, Sound, NextMachine, Speeds
<1>6. n.nr22 = m.nr22 /\ m.nr22.line_on /\ Spent(m) => Spent(n)
  BY <1>4, SpentAlike
<1>7. Moved(n, m)
  BY <1>4, <1>5, <1>6 DEF Moved, Fast
<1>8. QED
  BY <1>7 DEF n, k, r

LEMMA ResetMoves ==
  ASSUME NEW m, Sound(m), ResetsItself
  PROVE  Moved(MachineReset(m), m) /\ Moved(SoftReset(m), m)
<1>1. Moved(MachineReset(m), m)
  <2> DEFINE n == MachineReset(m)
  <2>1. /\ InitialRegister \in [frame_off: BOOLEAN, line_on: BOOLEAN, target: LineTargets \cup {0}]
        /\ ~InitialRegister.line_on /\ 1 \in Multipliers
    BY MultiplierAssumption DEF InitialRegister
  <2>2. /\ n \in NextMachine /\ n.frame_tstate = 0 /\ n.int_counter = 0
        /\ n.nr22 = InitialRegister
    BY <2>1 DEF MachineReset, Sound, NextMachine
  <2> HIDE DEF n
  <2>3. Sound(n)
    BY <2>1, <2>2, Lengths DEF Sound, OffsetKnown
  <2>4. Position(n) = 0 /\ Position(m) \in Nat
    BY <2>2, Lengths DEF Position, Sound, NextMachine, Speeds
  <2>5. Moved(n, m)
    BY <2>2, <2>3, <2>4 DEF Moved
  <2>6. QED
    BY <2>5 DEF n
<1>2. Moved(SoftReset(m), m)
  <2> DEFINE n == SoftReset(m)
  <2>1. /\ n \in NextMachine /\ n.frame_tstate = m.frame_tstate /\ n.int_counter = 0
        /\ n.nr22 = m.nr22 /\ n.cpu_speed_multiplier = m.cpu_speed_multiplier
        /\ n.line_int_offset = m.line_int_offset
    BY DEF SoftReset, Sound, NextMachine
  <2> HIDE DEF n
  <2>2. Sound(n)
    BY <2>1, Lengths DEF Sound, OffsetKnown, FrameTicks
  <2>3. Position(n) = Position(m) /\ Position(m) \in Nat
    BY <2>1, Lengths DEF Position, Unit, Sound, NextMachine, Speeds
  <2>4. Moved(n, m)
    BY <2>1, <2>2, <2>3 DEF Moved, Fast
  <2>5. QED
    BY <2>4 DEF n
<1>3. QED
  BY <1>1, <1>2

LEMMA WritesMove ==
  ASSUME NEW m, Sound(m), NEW n \in Written(m)
  PROVE  Moved(n, m)
<1>1. CASE "RESET" \in use.registers /\ n = MachineReset(m)
  BY <1>1, ResetMoves DEF ResetsItself
<1>2. CASE "SOFT" \in use.registers /\ n = SoftReset(m)
  BY <1>2, ResetMoves DEF ResetsItself
<1>3. CASE /\ "SPEED" \in use.registers
           /\ \E s \in Multipliers : n = ApplyInterrupts(SetCpuSpeed(m, s))
  BY <1>3, SpeedMoves
<1>4. CASE \E off \in BOOLEAN, on \in BOOLEAN, t \in LineTargets :
             n = ApplyInterrupts([m EXCEPT !.nr22 =
                   [frame_off |-> off, line_on |-> on, target |-> t]])
  BY <1>4, InterruptsMove
<1>5. QED
  BY <1>1, <1>2, <1>3, <1>4 DEF Written
-----------------------------------------------------------------------------
(* One tick.                                                               *)

Same(i, m) ==
  /\ i.frame_count = m.frame_count /\ i.frame_tstate = m.frame_tstate
  /\ i.cpu_speed_multiplier = m.cpu_speed_multiplier
  /\ i.frame_int_disabled = m.frame_int_disabled
  /\ i.line_int_offset = m.line_int_offset /\ i.nr22 = m.nr22

Live(m) == m.line_int_pending \/ InLineWindow(m)

LEMMA InterruptResult ==
  ASSUME NEW m, Sound(m)
  PROVE  LET i == Interrupt(m)
         IN  /\ Sound(i) /\ Same(i, m)
             /\ Live(m) =>
                  /\ i.int_counter = (IF m.int_counter = 0 THEN Pulse(m) ELSE m.int_counter) - 1
                  /\ i.line_int_pending <=> i.int_counter > 0
                  /\ i.z80_int <=> i.int_counter > 0
             /\ ~Live(m) =>
                  /\ ~i.line_int_pending
                  /\ m.frame_tstate = 0 /\ m.frame_int_disabled =>
                       ~i.z80_int /\ i.int_counter = m.int_counter
                  /\ m.frame_tstate = 0 /\ ~m.frame_int_disabled =>
                       i.z80_int /\ i.int_counter = Pulse(m)
                  /\ m.frame_tstate # 0 /\ m.int_counter > 0 =>
                       /\ i.int_counter = m.int_counter - 1
                       /\ i.z80_int => i.int_counter > 0
                  /\ m.frame_tstate # 0 /\ m.int_counter = 0 => i = m
<1> DEFINE i == Interrupt(m)
<1>1. m \in NextMachine /\ m.int_counter \in Nat /\ m.int_counter <= Pulse(m)
      /\ Pulse(m) \in Nat /\ Pulse(m) > 1 /\ m.frame_tstate \in Nat
  BY Lengths DEF Sound, NextMachine
<1>2. CASE Live(m)
  <2> DEFINE count == (IF m.int_counter = 0 THEN Pulse(m) ELSE m.int_counter) - 1
             up == count > 0
  <2>1. count \in Nat /\ count <= Pulse(m) /\ up \in BOOLEAN
    BY <1>1
  <2>2. i = [m EXCEPT !.int_counter = count, !.line_int_pending = up, !.z80_int = up]
    BY <1>2 DEF Interrupt, LineInterrupt, Live
  <2>3. up <=> count > 0
    OBVIOUS
  <2> HIDE DEF up, i
  <2>4. /\ i \in NextMachine /\ Same(i, m) /\ i.int_counter = count
        /\ (i.line_int_pending <=> up) /\ (i.z80_int <=> up)
    <3> HIDE DEF count
    <3>1. QED
      BY <1>1, <2>1, <2>2 DEF NextMachine, Same
  <2>5. Sound(i)
    BY <2>1, <2>4 DEF Sound, Same, FrameTicks, Pulse, OffsetKnown
  <2>6. QED
    BY <1>2, <2>3, <2>4, <2>5 DEF i
<1>3. CASE ~Live(m) /\ m.frame_tstate = 0
  <2>1. i = IF m.frame_int_disabled THEN [m EXCEPT !.z80_int = FALSE]
            ELSE [m EXCEPT !.z80_int = TRUE, !.int_counter = Pulse(m)]
    BY <1>3 DEF Interrupt, Live
  <2> HIDE DEF i
  <2>2. /\ i \in NextMachine /\ Same(i, m) /\ i.line_int_pending = m.line_int_pending
        /\ m.frame_int_disabled => ~i.z80_int /\ i.int_counter = m.int_counter
        /\ ~m.frame_int_disabled => i.z80_int /\ i.int_counter = Pulse(m)
    BY <1>1, <2>1 DEF NextMachine, Same
  <2>3. Sound(i)
    BY <1>1, <2>2 DEF Sound, Same, FrameTicks, Pulse, OffsetKnown
  <2>4. QED
    BY <1>3, <2>2, <2>3 DEF i, Live
<1>4. CASE ~Live(m) /\ m.frame_tstate # 0 /\ m.int_counter > 0
  <2> DEFINE count == m.int_counter - 1
             up == m.z80_int /\ m.int_counter > 1
  <2>1. count \in Nat /\ count <= Pulse(m) /\ up \in BOOLEAN /\ (up => count > 0)
    BY <1>1, <1>4
  <2>2. i = [m EXCEPT !.int_counter = count, !.z80_int = up]
    BY <1>4 DEF Interrupt, Live
  <2> HIDE DEF up, i, count
  <2>3. /\ i \in NextMachine /\ Same(i, m) /\ i.line_int_pending = m.line_int_pending
        /\ i.int_counter = count /\ (i.z80_int <=> up)
    BY <1>1, <2>1, <2>2 DEF NextMachine, Same
  <2>4. Sound(i)
    BY <2>1, <2>3 DEF Sound, Same, FrameTicks, Pulse, OffsetKnown
  <2>5. QED
    BY <1>4, <2>1, <2>3, <2>4 DEF i, Live, count
<1>5. CASE ~Live(m) /\ m.frame_tstate # 0 /\ m.int_counter = 0
  <2>1. i = m
    BY <1>5 DEF Interrupt, Live
  <2>2. QED
    BY <1>5, <2>1 DEF Same, Live
<1>6. QED
  BY <1>1, <1>2, <1>3, <1>4, <1>5

LEMMA AdvanceResult ==
  ASSUME NEW m, Sound(m), NEW charge \in Nat
  PROVE  LET n == Advance(m, charge)
             ended == FramesIn(m, 1 + charge)
         IN  /\ Sound(n) /\ ended \in Nat
             /\ n.frame_count = m.frame_count + ended
             /\ n.z80_int = m.z80_int /\ n.nr22 = m.nr22
             /\ n.cpu_speed_multiplier = m.cpu_speed_multiplier
             /\ n.line_int_offset = m.line_int_offset
             /\ ended = 0 => /\ n.frame_tstate = m.frame_tstate + 1 + charge
                             /\ n.int_counter = m.int_counter
                             /\ n.line_int_pending = m.line_int_pending
             /\ ended > 0 => n.int_counter = 0 /\ ~n.line_int_pending
             /\ charge < FrameTstates => ended <= 1
<1> DEFINE F == FrameTicks(m)
           time == m.frame_tstate + (1 + charge)
           ended == FramesIn(m, 1 + charge)
           t == m.frame_tstate + 1 + charge - ended * F
           count == m.frame_count + ended
           n == Advance(m, charge)
<1>1. /\ m \in NextMachine /\ F \in Nat /\ F > 0 /\ FrameTstates <= F /\ FrameTstates \in Nat
      /\ m.frame_tstate \in Nat /\ m.frame_tstate < F /\ m.frame_count \in Nat
      /\ time \in Nat /\ time = m.frame_tstate + 1 + charge
  BY Lengths, FrameAssumption DEF Sound, NextMachine
<1>2. ended = time \div F
  BY DEF FramesIn
<1> HIDE DEF F, time, ended
<1>3. ended \in Nat /\ F * ended <= time /\ time < F * ended + F
  BY <1>1, <1>2, Division
<1>4. t \in Nat /\ t < F /\ count \in Nat /\ (ended = 0 => t = time)
  BY <1>1, <1>3
<1>5. charge < FrameTstates => ended <= 1
  <2>1. SUFFICES ASSUME charge < FrameTstates, ended > 1 PROVE FALSE
    BY <1>3
  <2>2. F * ended >= F * 2
    BY <1>1, <1>3, <2>1
  <2>3. time < F * 2
    BY <1>1, <2>1
  <2>4. F * ended \in Int
    BY <1>1, <1>3
  <2>5. QED
    BY <1>1, <1>3, <2>2, <2>3, <2>4
<1>6. n = IF ended > 0 THEN [m EXCEPT !.frame_tstate = t, !.frame_count = count,
                                      !.line_int_pending = FALSE, !.int_counter = 0]
          ELSE [m EXCEPT !.frame_tstate = t, !.frame_count = count]
  <2>1. m.frame_tstate \in Nat /\ m.frame_count \in Nat
    BY <1>1
  <2>2. QED
    BY <1>1 DEF Advance, ended, F
<1> HIDE DEF t, count, n
<1>7. /\ n \in NextMachine /\ n.frame_tstate = t /\ n.frame_count = count
      /\ n.z80_int = m.z80_int /\ n.nr22 = m.nr22
      /\ n.cpu_speed_multiplier = m.cpu_speed_multiplier
      /\ n.line_int_offset = m.line_int_offset
      /\ ended > 0 => n.int_counter = 0 /\ ~n.line_int_pending
      /\ ~(ended > 0) => n.int_counter = m.int_counter /\ n.line_int_pending = m.line_int_pending
  BY <1>1, <1>4, <1>6 DEF NextMachine
<1>8. Sound(n)
  <2>1. Pulse(n) = Pulse(m) /\ FrameTicks(n) = F /\ Pulse(m) \in Nat
    BY <1>1, <1>7, Lengths DEF Pulse, FrameTicks, F
  <2>2. n.int_counter <= Pulse(n)
    BY <1>7, <2>1 DEF Sound
  <2>3. OffsetKnown(n)
    BY <1>7 DEF Sound, OffsetKnown
  <2>4. QED
    BY <1>4, <1>7, <2>1, <2>2, <2>3 DEF Sound
<1>9. QED
  BY <1>1, <1>3, <1>4, <1>5, <1>7, <1>8 DEF ended, n, count

-----------------------------------------------------------------------------
(* What a tick keeps.  b is the machine after a write by NEXTREG, i after   *)
(* the interrupt logic, a after a write through the port, n after the tick. *)

Ticks(b, a, n, charge, wrote) ==
  /\ Moved(b, machine) /\ Moved(a, Interrupt(b)) /\ n = Advance(a, charge)
  /\ charge \in Nat
  /\ wrote \in {0, 1} /\ (wrote = 0 => b = machine /\ a = Interrupt(b))
  /\ b = machine \/ a = Interrupt(b)
  /\ ~use.ports => a = Interrupt(b)
  /\ history.writes + wrote <= MaxWrites

LEMMA TickFacts ==
  ASSUME IInv, NEW b, NEW a, NEW n, NEW charge, NEW wrote, Ticks(b, a, n, charge, wrote)
  PROVE  /\ Sound(b) /\ Sound(Interrupt(b)) /\ Sound(a) /\ Sound(n)
         /\ FramesIn(a, 1 + charge) \in Nat
<1>1. Sound(b) /\ Sound(a)
  BY DEF Ticks, Moved
<1>2. Sound(Interrupt(b))
  BY <1>1, InterruptResult
<1>3. Sound(n) /\ FramesIn(a, 1 + charge) \in Nat
  BY <1>1, AdvanceResult DEF Ticks
<1>4. QED
  BY <1>1, <1>2, <1>3

\* What a tick remembers.
LEMMA TickRemembers ==
  ASSUME IInv, NEW b, NEW a, NEW n, NEW charge, NEW wrote, Ticks(b, a, n, charge, wrote)
  PROVE  LET g == Remember(history, b, a, n, charge, wrote)
             ended == FramesIn(a, 1 + charge)
         IN  /\ g \in Histories
             /\ ended = 0 =>
                  /\ g.unrendered = history.unrendered /\ g.skipped = history.skipped
                  /\ g.writes = history.writes + wrote
                  /\ g.time = (IF a.frame_tstate = 0 THEN 0 ELSE history.time) + Unit(a) * (1 + charge)
                  /\ g.raised <=> history.raised \/ Interrupt(b).z80_int
                  /\ b.frame_tstate = 0 => (g.enabled <=> ~b.frame_int_disabled)
                  /\ b.frame_tstate # 0 => (g.enabled <=> history.enabled)
                  /\ a.nr22 # machine.nr22 => g.line_pulses = 0
                  /\ a.nr22 = machine.nr22 =>
                       g.line_pulses = Most(history.line_pulses + (IF LinePulseStarts(b) THEN 1 ELSE 0), 2)
             /\ ended > 0 =>
                  /\ g.unrendered = Most(history.unrendered + ended, 2) /\ g.line_pulses = 0
                  /\ ~g.raised /\ ~g.enabled /\ g.writes = 0
                  /\ g.skipped <=> n.frame_tstate > 0
                  /\ g.time = Unit(n) * n.frame_tstate
<1> DEFINE ended == FramesIn(a, 1 + charge)
           time == (IF a.frame_tstate = 0 THEN 0 ELSE history.time) + Unit(a) * (1 + charge)
           pulses == Most(history.line_pulses + (IF LinePulseStarts(b) THEN 1 ELSE 0), 2)
           counted == IF a.nr22 # machine.nr22 THEN 0 ELSE pulses
           on == IF b.frame_tstate = 0 THEN ~b.frame_int_disabled ELSE history.enabled
           raised == history.raised \/ Interrupt(b).z80_int
           writes == history.writes + wrote
           undrawn == Most(history.unrendered + ended, 2)
           late == n.frame_tstate > 0
           rest == Unit(n) * n.frame_tstate
           told == [history EXCEPT !.line_pulses = counted, !.enabled = on, !.raised = raised,
                             !.writes = writes, !.time = time]
           g == Remember(history, b, a, n, charge, wrote)
<1>0. /\ history \in Histories /\ Sound(b) /\ Sound(a) /\ Sound(n) /\ ended \in Nat
      /\ charge \in Nat /\ wrote \in {0, 1} /\ history.writes + wrote <= MaxWrites
  BY TickFacts, Known DEF Ticks
<1>1. g = IF ended = 0 THEN told
          ELSE [told EXCEPT !.unrendered = undrawn, !.line_pulses = 0, !.raised = FALSE,
                            !.enabled = FALSE, !.writes = 0, !.skipped = late, !.time = rest]
  <2>1. told.unrendered = history.unrendered
    BY DEF Histories
  <2>2. QED
    BY <2>1 DEF Remember
<1>2. ended \in Nat /\ time \in Nat /\ rest \in Nat /\ writes \in 0..MaxWrites
  <2>1. MaxWrites \in Nat
    BY HostAssumption
  <2>2. Unit(a) \in Nat /\ Unit(n) \in Nat /\ n.frame_tstate \in Nat
    BY <1>0, Lengths DEF Sound, NextMachine, Speeds
  <2>3. Unit(a) * (1 + charge) \in Nat /\ Unit(n) * n.frame_tstate \in Nat
    BY <1>0, <2>2
  <2>4. QED
    BY <1>0, <2>1, <2>3 DEF Histories
<1>3. on \in BOOLEAN /\ raised \in BOOLEAN /\ late \in BOOLEAN
  <2>1. raised \in BOOLEAN
    OBVIOUS
  <2>2. on \in BOOLEAN
    BY <1>0 DEF Histories
  <2>3. late \in BOOLEAN
    OBVIOUS
  <2>4. QED
    BY <2>1, <2>2, <2>3
<1>4. counted \in 0..2 /\ undrawn \in 0..2
  BY <1>0, <1>2 DEF Most, Histories
<1>5. /\ raised <=> history.raised \/ Interrupt(b).z80_int
      /\ b.frame_tstate = 0 => (on <=> ~b.frame_int_disabled)
      /\ b.frame_tstate # 0 => (on <=> history.enabled)
      /\ late <=> n.frame_tstate > 0
      /\ a.nr22 # machine.nr22 => counted = 0
      /\ a.nr22 = machine.nr22 => counted = pulses
  OBVIOUS
<1> HIDE DEF g, ended, time, pulses, counted, on, raised, writes, undrawn, late, rest
<1>6. /\ told \in Histories /\ told.unrendered = history.unrendered /\ told.skipped = history.skipped
      /\ told.writes = writes /\ told.time = time /\ (told.raised <=> raised)
      /\ (told.enabled <=> on) /\ told.line_pulses = counted
  BY <1>0, <1>2, <1>3, <1>4 DEF Histories
<1> HIDE DEF told
<1>7. CASE ended = 0
  BY <1>1, <1>5, <1>6, <1>7 DEF g, ended, time, pulses, writes
<1>8. CASE ended # 0
  <2>1. 0 \in 0..2 /\ 0 \in 0..MaxWrites
    BY HostAssumption
  <2>2. /\ g \in Histories /\ g.unrendered = undrawn /\ g.line_pulses = 0
        /\ ~g.raised /\ ~g.enabled /\ g.writes = 0 /\ (g.skipped <=> late) /\ g.time = rest
    BY <1>1, <1>2, <1>3, <1>4, <1>6, <1>8, <2>1 DEF Histories
  <2>3. QED
    BY <1>5, <1>8, <2>2 DEF g, ended, undrawn, rest
<1>9. QED
  BY <1>7, <1>8

LEMMA TickAdvances ==
  ASSUME IInv, NEW b, NEW a, NEW n, NEW charge, NEW wrote, Ticks(b, a, n, charge, wrote)
  PROVE  LET ended == FramesIn(a, 1 + charge)
         IN  /\ n.frame_count = a.frame_count + ended
             /\ n.z80_int = a.z80_int /\ n.nr22 = a.nr22
             /\ n.cpu_speed_multiplier = a.cpu_speed_multiplier
             /\ n.line_int_offset = a.line_int_offset
             /\ ended = 0 => /\ n.frame_tstate = a.frame_tstate + 1 + charge
                             /\ n.int_counter = a.int_counter
                             /\ n.line_int_pending = a.line_int_pending
             /\ ended > 0 => n.int_counter = 0 /\ ~n.line_int_pending
             /\ charge < FrameTstates => ended <= 1
<1>1. Sound(a)
  BY TickFacts
<1>2. charge \in Nat /\ n = Advance(a, charge)
  BY DEF Ticks
<1> DEFINE m == Advance(a, charge)
<1>3. LET ended == FramesIn(a, 1 + charge)
      IN  /\ m.frame_count = a.frame_count + ended
          /\ m.z80_int = a.z80_int /\ m.nr22 = a.nr22
          /\ m.cpu_speed_multiplier = a.cpu_speed_multiplier
          /\ m.line_int_offset = a.line_int_offset
          /\ ended = 0 => /\ m.frame_tstate = a.frame_tstate + 1 + charge
                          /\ m.int_counter = a.int_counter
                          /\ m.line_int_pending = a.line_int_pending
          /\ ended > 0 => m.int_counter = 0 /\ ~m.line_int_pending
          /\ charge < FrameTstates => ended <= 1
  BY <1>1, <1>2, AdvanceResult, Zenon
<1>4. n = m
  BY <1>2
<1> HIDE DEF m
<1>5. QED
  BY <1>3, <1>4, Zenon

LEMMA TickKeepsPin ==
  ASSUME IInv, NEW b, NEW a, NEW n, NEW charge, NEW wrote, Ticks(b, a, n, charge, wrote)
  PROVE  TimedPin(n, Remember(history, b, a, n, charge, wrote))
<1> DEFINE i == Interrupt(b)
           g == Remember(history, b, a, n, charge, wrote)
           ended == FramesIn(a, 1 + charge)
<1>1. /\ Sound(b) /\ Sound(i) /\ Sound(a) /\ Sound(n) /\ ended \in Nat
      /\ b.int_counter \in Nat /\ b.frame_tstate \in Nat /\ n.frame_tstate \in Nat
      /\ machine.int_counter \in Nat /\ machine.frame_tstate \in Nat
  BY TickFacts, Known DEF Sound, NextMachine
<1>2. CASE ended > 0
  <2>1. g.skipped <=> n.frame_tstate > 0
    BY <1>1, <1>2, TickRemembers
  <2>2. QED
    BY <1>1, <2>1 DEF TimedPin
<1>3. CASE ended = 0
  <2> SUFFICES ASSUME n.z80_int, ~ResetsItself, ~g.skipped PROVE n.int_counter > 0
    BY DEF TimedPin
  <2>1. ~history.skipped
    BY <1>1, <1>3, TickRemembers
  <2>2. n.int_counter = a.int_counter /\ n.z80_int = a.z80_int
    <3>1. n.int_counter = a.int_counter
      BY <1>1, <1>3, TickAdvances
    <3>2. n.z80_int = a.z80_int
      BY <1>1, <1>3, TickAdvances
    <3>3. QED
      BY <3>1, <3>2
  <2>3. /\ a.z80_int = i.z80_int /\ (i.int_counter > 0 => a.int_counter > 0)
        /\ b.z80_int = machine.z80_int
        /\ machine.int_counter > 0 => b.int_counter > 0
        /\ machine.frame_tstate = 0 => b.frame_tstate = 0
    BY DEF Ticks, Moved
  <2>4. Pulse(b) \in Nat /\ Pulse(b) > 1 /\ i.z80_int
    BY <1>1, <2>2, <2>3, Lengths DEF Sound
  <2>5. i.int_counter > 0
    <3>1. CASE Live(b)
      BY <1>1, <2>4, <3>1, InterruptResult
    <3>2. CASE ~Live(b) /\ b.frame_tstate = 0
      <4>1. CASE b.frame_int_disabled
        BY <1>1, <2>4, <3>2, <4>1, InterruptResult
      <4>2. CASE ~b.frame_int_disabled
        BY <1>1, <2>4, <3>2, <4>2, InterruptResult
      <4>3. QED
        BY <4>1, <4>2
    <3>3. CASE ~Live(b) /\ b.frame_tstate # 0 /\ b.int_counter > 0
      BY <1>1, <2>4, <3>3, InterruptResult
    <3>4. CASE ~Live(b) /\ b.frame_tstate # 0 /\ b.int_counter = 0
      <4>1. machine.z80_int
        BY <1>1, <2>2, <2>3, <3>4, InterruptResult
      <4>2. machine.int_counter > 0 \/ machine.frame_tstate = 0
        BY <2>1, <4>1, Known DEF Kept, TimedPin
      <4>3. QED
        BY <2>3, <3>4, <4>2
    <3>5. QED
      BY <1>1, <3>1, <3>2, <3>3, <3>4
  <2>6. QED
    BY <2>2, <2>3, <2>5
<1>4. QED
  BY <1>1, <1>2, <1>3

LEMMA TickKeepsPlace ==
  ASSUME IInv, NEW b, NEW a, NEW n, NEW charge, NEW wrote, Ticks(b, a, n, charge, wrote)
  PROVE  Placed(n, Remember(history, b, a, n, charge, wrote))
<1> DEFINE i == Interrupt(b)
           g == Remember(history, b, a, n, charge, wrote)
           ended == FramesIn(a, 1 + charge)
           U == Unit(a)
<1>1. /\ Sound(b) /\ Sound(i) /\ Sound(a) /\ Sound(n) /\ ended \in Nat
      /\ Position(machine) \in Nat /\ Position(b) \in Nat /\ Position(i) \in Nat
      /\ Position(a) \in Nat /\ Position(n) \in Nat
      /\ a.frame_tstate \in Nat /\ U \in Nat /\ charge \in Nat
  <2>1. \A m : Sound(m) => Position(m) \in Nat /\ m.frame_tstate \in Nat /\ Unit(m) \in Nat
    BY Lengths DEF Sound, Position, Speeds, NextMachine
  <2>2. QED
    BY <2>1, TickFacts, Known DEF Ticks
<1>2. history.writes \in Nat /\ history.time \in Nat /\ wrote \in Nat
  BY Known, HostAssumption DEF Histories, Ticks
<1>3. CASE ended > 0
  <2>1. g.time = Position(n) /\ g.writes = 0
    BY <1>1, <1>3, TickRemembers DEF Position
  <2>2. QED
    BY <1>1, <2>1 DEF Placed, Fast
<1>4. CASE ended = 0
  <2>1. /\ n.frame_tstate = a.frame_tstate + 1 + charge
        /\ n.cpu_speed_multiplier = a.cpu_speed_multiplier
    BY <1>1, <1>4, TickAdvances
  <2>2. /\ g.writes = history.writes + wrote
        /\ g.time = (IF a.frame_tstate = 0 THEN 0 ELSE history.time) + U * (1 + charge)
    BY <1>1, <1>4, TickRemembers
  <2>3. Position(n) = Position(a) + U * (1 + charge) /\ U * (1 + charge) \in Nat
    <3>1. Position(n) = U * (a.frame_tstate + 1 + charge)
      BY <2>1 DEF Position, Unit
    <3>2. Position(a) = U * a.frame_tstate
      BY DEF Position
    <3> HIDE DEF U
    <3>3. QED
      BY <1>1, <3>1, <3>2
  <2> DEFINE spent == U * (1 + charge)
  <2> HIDE DEF spent
  <2>4. CASE a.frame_tstate = 0
    <3>1. Position(a) = 0
      BY <1>1, <2>4 DEF Position
    <3>2. g.time = spent /\ Position(n) = spent /\ spent \in Nat
      BY <1>1, <2>2, <2>3, <2>4, <3>1 DEF spent
    <3>3. QED
      BY <1>2, <2>2, <3>2 DEF Placed, Fast
  <2>5. CASE a.frame_tstate # 0
    <3>1. Position(i) = Position(b) /\ i.frame_tstate = b.frame_tstate
      BY <1>1, InterruptResult DEF Same, Position, Unit
    <3>2. /\ Position(b) <= Position(machine) /\ Position(a) <= Position(i)
          /\ b.frame_tstate = 0 \/ Position(machine) <= Position(b) + Fast
          /\ a.frame_tstate = 0 \/ Position(i) <= Position(a) + Fast
          /\ i.frame_tstate = 0 => a.frame_tstate = 0
      BY DEF Ticks, Moved
    <3>3. Position(a) <= Position(machine)
      BY <1>1, <3>1, <3>2
    <3>4. Position(machine) <= Position(a) + Fast * wrote
      <4>1. CASE wrote = 0
        <5>1. b = machine /\ a = i
          BY <4>1 DEF Ticks
        <5>2. Position(a) = Position(machine)
          BY <3>1, <5>1, Zenon
        <5>3. QED
          BY <1>1, <4>1, <5>2 DEF Fast
      <4>2. CASE wrote = 1 /\ b = machine
        BY <1>1, <2>5, <3>1, <3>2, <4>2 DEF Fast
      <4>3. CASE wrote = 1 /\ a = i
        BY <1>1, <2>5, <3>1, <3>2, <4>3 DEF Fast
      <4>4. QED
        BY <4>1, <4>2, <4>3 DEF Ticks
    <3>5. Position(machine) <= history.time
          /\ history.time <= Position(machine) + Fast * history.writes
      BY Known DEF Kept, Placed
    <3>6. /\ g.time = history.time + spent /\ Position(n) = Position(a) + spent
          /\ spent \in Nat
      BY <2>2, <2>3, <2>5 DEF spent
    <3>7. QED
      BY <1>1, <1>2, <2>2, <3>3, <3>4, <3>5, <3>6 DEF Placed, Fast
  <2>6. QED
    BY <2>4, <2>5
<1>5. QED
  BY <1>1, <1>3, <1>4

LEMMA TickRaises ==
  ASSUME IInv, NEW b, NEW a, NEW n, NEW charge, NEW wrote, Ticks(b, a, n, charge, wrote)
  PROVE  Raised(n, Remember(history, b, a, n, charge, wrote))
<1> DEFINE i == Interrupt(b)
           g == Remember(history, b, a, n, charge, wrote)
           ended == FramesIn(a, 1 + charge)
<1>1. /\ Sound(b) /\ Sound(i) /\ Sound(a) /\ Sound(n) /\ ended \in Nat
      /\ b.int_counter \in Nat /\ b.frame_tstate \in Nat /\ i.int_counter \in Nat
      /\ a.int_counter \in Nat
      /\ machine.int_counter \in Nat /\ machine.frame_tstate \in Nat
      /\ Pulse(b) \in Nat /\ Pulse(b) > 1
  BY TickFacts, Known, Lengths DEF Sound, NextMachine
<1>2. CASE ended > 0
  <2>1. n.int_counter = 0
    BY <1>1, <1>2, TickAdvances
  <2>2. ~g.enabled
    BY <1>1, <1>2, TickRemembers
  <2>3. QED
    BY <2>1, <2>2 DEF Raised
<1>3. CASE ended = 0
  <2>1. n.int_counter = a.int_counter
    BY <1>1, <1>3, TickAdvances
  <2>2. /\ i.int_counter = 0 => a.int_counter = 0
        /\ machine.int_counter = 0 => b.int_counter = 0
        /\ machine.frame_tstate = 0 => b.frame_tstate = 0
    BY DEF Ticks, Moved
  <2>3. /\ g.raised <=> history.raised \/ i.z80_int
        /\ b.frame_tstate = 0 => (g.enabled <=> ~b.frame_int_disabled)
        /\ b.frame_tstate # 0 => (g.enabled <=> history.enabled)
    BY <1>1, <1>3, TickRemembers
  <2>4. /\ machine.int_counter > 0 => history.raised
        /\ history.enabled /\ machine.frame_tstate > 0 => history.raised
    BY Known DEF Kept, Raised
  <2>5. b.int_counter > 0 => g.raised
    BY <1>1, <2>2, <2>3, <2>4
  <2>6. i.int_counter > 0 => g.raised
    <3>1. CASE Live(b)
      BY <1>1, <2>3, <3>1, InterruptResult
    <3>2. CASE ~Live(b) /\ b.frame_tstate = 0
      BY <1>1, <2>3, <2>5, <3>2, InterruptResult
    <3>3. CASE ~Live(b) /\ b.frame_tstate # 0
      BY <1>1, <2>5, <3>3, InterruptResult
    <3>4. QED
      BY <3>1, <3>2, <3>3
  <2>7. g.enabled => g.raised
    <3>1. CASE b.frame_tstate # 0
      BY <1>1, <2>2, <2>3, <2>4, <3>1
    <3>2. CASE b.frame_tstate = 0 /\ Live(b)
      <4>1. CASE b.int_counter = 0
        BY <1>1, <2>3, <3>2, <4>1, InterruptResult
      <4>2. CASE b.int_counter > 0
        BY <2>5, <4>2
      <4>3. QED
        BY <1>1, <4>1, <4>2
    <3>3. CASE b.frame_tstate = 0 /\ ~Live(b)
      BY <1>1, <2>3, <3>3, InterruptResult
    <3>4. QED
      BY <3>1, <3>2, <3>3
  <2>8. QED
    BY <1>1, <2>1, <2>2, <2>6, <2>7 DEF Raised
<1>4. QED
  BY <1>1, <1>2, <1>3

\* A line interrupt that has come does not begin again.
LEMMA TickSpends ==
  ASSUME IInv, NEW b, NEW a, NEW n, NEW charge, NEW wrote, Ticks(b, a, n, charge, wrote),
         ~ResetsItself, OneSpeed, FramesIn(a, 1 + charge) = 0, a.nr22 = machine.nr22
  PROVE  LET g == Remember(history, b, a, n, charge, wrote)
         IN  g.line_pulses <= 1 /\ (g.line_pulses = 1 /\ n.nr22.line_on => Spent(n))
<1> DEFINE i == Interrupt(b)
           g == Remember(history, b, a, n, charge, wrote)
<1>1. /\ Sound(b) /\ Sound(i) /\ Sound(a) /\ Sound(n) /\ charge \in Nat
      /\ b.int_counter \in Nat /\ b.frame_tstate \in Nat /\ b.line_int_offset \in Nat
      /\ i.int_counter \in Nat /\ i.frame_tstate \in Nat
      /\ b.int_counter <= Pulse(b) /\ Pulse(b) \in Nat /\ Pulse(b) > 1
      /\ machine.int_counter \in Nat
  <2>1. Sound(b) /\ Sound(i) /\ Sound(a) /\ Sound(n) /\ Sound(machine)
    BY TickFacts, Known
  <2>2. charge \in Nat
    BY DEF Ticks
  <2>3. Pulse(b) \in Nat /\ Pulse(b) > 1
    BY <2>1, Lengths DEF Sound
  <2> HIDE DEF i, g
  <2>4. /\ b.int_counter \in Nat /\ b.frame_tstate \in Nat /\ b.line_int_offset \in Nat
        /\ b.int_counter <= Pulse(b)
    BY <2>1 DEF Sound, NextMachine
  <2>5. i.int_counter \in Nat /\ i.frame_tstate \in Nat /\ machine.int_counter \in Nat
    BY <2>1 DEF Sound, NextMachine
  <2>6. QED
    BY <2>1, <2>2, <2>3, <2>4, <2>5
<1>2. Same(i, b)
  BY <1>1, InterruptResult
<1>3. /\ n.frame_tstate = a.frame_tstate + 1 + charge /\ n.int_counter = a.int_counter
      /\ n.nr22 = a.nr22 /\ n.line_int_offset = a.line_int_offset
      /\ n.cpu_speed_multiplier = a.cpu_speed_multiplier
  BY TickAdvances
<1>4. /\ machine.int_counter > 0 => b.int_counter > 0
      /\ b.line_int_pending => machine.line_int_pending
      /\ b.nr22 = machine.nr22 /\ machine.nr22.line_on /\ Spent(machine) => Spent(b)
  BY DEF Ticks, Moved
<1>5. /\ machine.line_int_pending => machine.int_counter > 0
      /\ history.line_pulses <= 1
      /\ history.line_pulses = 1 /\ machine.nr22.line_on => Spent(machine)
  BY Known DEF Kept, Once
<1>6. b.line_int_pending => b.int_counter > 0
  BY <1>4, <1>5
<1>7. b.nr22 = machine.nr22
  <2>1. CASE b = machine
    BY <2>1
  <2>2. CASE a = i
    BY <1>2, <2>2 DEF Same
  <2>3. QED
    BY <2>1, <2>2 DEF Ticks
<1>8. /\ a.frame_tstate = b.frame_tstate /\ a.int_counter = i.int_counter
      /\ a.cpu_speed_multiplier = b.cpu_speed_multiplier
  <2>1. CASE a = i
    BY <1>2, <2>1 DEF Same
  <2>2. CASE a # i
    <3>1. "SPEED" \notin use.registers
      BY <2>2 DEF Ticks, OneSpeed
    <3>2. /\ a.frame_tstate = i.frame_tstate /\ a.int_counter = i.int_counter
          /\ a.cpu_speed_multiplier = i.cpu_speed_multiplier
      BY <3>1 DEF Ticks, Moved
    <3>3. QED
      BY <1>2, <3>2 DEF Same
  <2>3. QED
    BY <2>1, <2>2
<1>9. a.nr22.line_on =>
        a.line_int_offset = b.line_int_offset /\ Pulse(a) = Pulse(b) /\ Pulse(n) = Pulse(b)
  BY <1>1, <1>3, <1>7, <1>8 DEF Sound, OffsetKnown, Pulse
<1>10. history.line_pulses = 1 /\ b.nr22.line_on => Spent(b)
  BY <1>4, <1>5, <1>7
<1>11. LinePulseStarts(b) =>
        /\ b.nr22.line_on /\ b.int_counter = 0 /\ Live(b) /\ ~Spent(b)
        /\ b.frame_tstate >= b.line_int_offset
  BY <1>1, <1>6 DEF LinePulseStarts, InLineWindow, Live, Spent
<1>12. history.line_pulses \in 0..2
  BY Known DEF Histories
<1>13. g.line_pulses = Most(history.line_pulses + (IF LinePulseStarts(b) THEN 1 ELSE 0), 2)
  BY TickRemembers
<1>14. g.line_pulses <= 1 /\ (g.line_pulses = 1 =>
         (history.line_pulses = 1 /\ ~LinePulseStarts(b)) \/ LinePulseStarts(b))
  <2>1. CASE LinePulseStarts(b)
    <3>1. history.line_pulses # 1
      BY <1>10, <1>11, <2>1
    <3>2. QED
      BY <1>5, <1>12, <1>13, <2>1, <3>1 DEF Most
  <2>2. CASE ~LinePulseStarts(b)
    BY <1>5, <1>12, <1>13, <2>2 DEF Most
  <2>3. QED
    BY <2>1, <2>2
<1>15. ASSUME g.line_pulses = 1, n.nr22.line_on PROVE Spent(n)
  <2>1. b.nr22.line_on /\ a.nr22.line_on
    BY <1>3, <1>7, <1>15
  <2>2. b.frame_tstate + i.int_counter + 1 >= b.line_int_offset + Pulse(b)
    <3>1. CASE LinePulseStarts(b)
      <4>1. i.int_counter = Pulse(b) - 1
        BY <1>1, <1>11, <3>1, InterruptResult
      <4>2. QED
        BY <1>1, <1>11, <3>1, <4>1
    <3>2. CASE ~LinePulseStarts(b)
      <4>1. b.frame_tstate + b.int_counter >= b.line_int_offset + Pulse(b)
        BY <1>10, <1>14, <1>15, <2>1, <3>2 DEF Spent
      <4>2. CASE Live(b)
        <5>1. b.int_counter # 0
          BY <3>2, <4>2 DEF LinePulseStarts, Live
        <5>2. i.int_counter = b.int_counter - 1
          BY <1>1, <4>2, <5>1, InterruptResult
        <5>3. QED
          BY <1>1, <4>1, <5>2
      <4>3. CASE ~Live(b) /\ b.frame_tstate = 0
        <5>1. i.int_counter >= b.int_counter
          <6>1. CASE b.frame_int_disabled
            BY <1>1, <4>3, <6>1, InterruptResult
          <6>2. CASE ~b.frame_int_disabled
            BY <1>1, <4>3, <6>2, InterruptResult
          <6>3. QED
            BY <6>1, <6>2
        <5>2. QED
          BY <1>1, <4>1, <5>1
      <4>4. CASE ~Live(b) /\ b.frame_tstate # 0
        <5>1. i.int_counter + 1 >= b.int_counter
          <6>1. CASE b.int_counter = 0
            BY <1>1, <6>1
          <6>2. CASE b.int_counter > 0
            BY <1>1, <4>4, <6>2, InterruptResult
          <6>3. QED
            BY <1>1, <6>1, <6>2
        <5>2. QED
          BY <1>1, <4>1, <5>1
      <4>5. QED
        BY <4>2, <4>3, <4>4
    <3>3. QED
      BY <3>1, <3>2
  <2>3. n.frame_tstate + n.int_counter >= b.line_int_offset + Pulse(b)
    BY <1>1, <1>3, <1>8, <2>2
  <2>4. QED
    BY <1>3, <1>9, <2>1, <2>3 DEF Spent
<1>16. QED
  BY <1>14, <1>15

LEMMA TickInterruptsOnce ==
  ASSUME IInv, NEW b, NEW a, NEW n, NEW charge, NEW wrote, Ticks(b, a, n, charge, wrote)
  PROVE  Once(n, Remember(history, b, a, n, charge, wrote))
<1> DEFINE i == Interrupt(b)
           g == Remember(history, b, a, n, charge, wrote)
           ended == FramesIn(a, 1 + charge)
<1> SUFFICES ASSUME ~ResetsItself
             PROVE  /\ n.line_int_pending => n.int_counter > 0
                    /\ OneSpeed => /\ g.line_pulses <= 1
                                   /\ g.line_pulses = 1 /\ n.nr22.line_on => Spent(n)
  BY DEF Once
<1>1. Sound(b) /\ ended \in Nat
  BY TickFacts
<1>2. CASE ended > 0
  BY <1>1, <1>2, TickAdvances, TickRemembers
<1>3. CASE ended = 0
  <2>1. n.line_int_pending => n.int_counter > 0
    <3>1. n.line_int_pending = a.line_int_pending /\ n.int_counter = a.int_counter
      BY <1>3, TickAdvances
    <3>2. /\ a.line_int_pending => i.line_int_pending
          /\ i.int_counter > 0 => a.int_counter > 0
      BY DEF Ticks, Moved
    <3>3. i.line_int_pending => i.int_counter > 0
      <4>1. CASE Live(b)
        BY <1>1, <4>1, InterruptResult
      <4>2. CASE ~Live(b)
        BY <1>1, <4>2, InterruptResult
      <4>3. QED
        BY <4>1, <4>2
    <3>4. QED
      BY <3>1, <3>2, <3>3, Zenon
  <2>2. CASE a.nr22 # machine.nr22
    <3>1. g.line_pulses = 0
      BY <1>3, <2>2, TickRemembers
    <3>2. QED
      BY <2>1, <3>1
  <2>3. CASE a.nr22 = machine.nr22
    BY <1>3, <2>1, <2>3, TickSpends
  <2>4. QED
    BY <2>2, <2>3
<1>4. QED
  BY <1>1, <1>2, <1>3

LEMMA TickAims ==
  ASSUME IInv, NEW b, NEW a, NEW n, NEW charge, NEW wrote, Ticks(b, a, n, charge, wrote),
         call.pc = "loop", charge \in use.charges, NEW stop \in {FALSE, use.stops}, NEW c,
         c = IF stop THEN [pc |-> "out", target |-> 0]
             ELSE IF n.frame_count >= call.target THEN [pc |-> "render", target |-> 0]
             ELSE call
  PROVE  c \in Calls /\ Aimed(n, c, Remember(history, b, a, n, charge, wrote))
<1> DEFINE g == Remember(history, b, a, n, charge, wrote)
           ended == FramesIn(a, 1 + charge)
<1>1. /\ Sound(machine) /\ Sound(b) /\ ended \in Nat /\ call \in Calls
      /\ history \in Histories /\ Aimed(machine, call, history)
  BY TickFacts, Known
<1>2. c \in Calls
  BY <1>1 DEF Calls
<1>3. ASSUME ~ResetsItself PROVE Aimed(n, c, g)
  <2>1. call.target = machine.frame_count + 1
    BY <1>1, <1>3 DEF Aimed
  <2>2. n.frame_count = machine.frame_count + ended
    <3>1. n.frame_count = a.frame_count + ended
      BY TickAdvances
    <3>2. a.frame_count = Interrupt(b).frame_count /\ b.frame_count = machine.frame_count
      BY <1>3 DEF Ticks, Moved
    <3>3. Interrupt(b).frame_count = b.frame_count
      BY <1>1, InterruptResult DEF Same
    <3>4. QED
      BY <3>1, <3>2, <3>3
  <2>3. machine.frame_count \in Nat
    BY <1>1 DEF Sound, NextMachine
  <2>4. n.frame_count >= call.target <=> ended > 0
    BY <1>1, <2>1, <2>2, <2>3
  <2>5. c.pc = "loop" => c.target = n.frame_count + 1
    BY <1>1, <2>1, <2>2, <2>3, <2>4
  <2>6. c.pc = "render" => g.line_pulses = 0
    BY <1>1, <2>4, TickRemembers
  <2>7. ASSUME ~use.stops, FitsFrame
        PROVE  g.unrendered <= 1 /\ (c.pc # "render" => g.unrendered = 0)
    <3>1. history.unrendered = 0
      BY <1>1, <1>3, <2>7 DEF Aimed
    <3>2. charge < FrameTstates
      BY <2>7 DEF FitsFrame
    <3>3. ended <= 1
      BY <3>2, TickAdvances
    <3>4. CASE ended = 0
      BY <3>1, <3>4, TickRemembers
    <3>5. CASE ended = 1
      <4>1. g.unrendered = Most(history.unrendered + ended, 2)
        BY <3>5, TickRemembers
      <4>2. c.pc = "render"
        <5>1. n.frame_count >= call.target
          BY <2>4, <3>5
        <5>2. ~stop
          BY <2>7, Zenon
        <5>3. QED
          BY <5>1, <5>2, Zenon
      <4>3. QED
        BY <3>1, <3>5, <4>1, <4>2 DEF Most
    <3>6. QED
      BY <1>1, <3>3, <3>4, <3>5
  <2>8. QED
    BY <2>5, <2>6, <2>7 DEF Aimed
<1>4. QED
  BY <1>2, <1>3 DEF Aimed

\* Every tick of the model is one of those.
LEMMA WriteMoves ==
  ASSUME IInv, NEW m, Sound(m), NEW n \in {m} \cup MayWrite(m)
  PROVE  /\ Moved(n, m)
         /\ n # m => history.writes < use.maxWrites
<1>1. CASE n = m
  BY <1>1, SelfMoved
<1>2. CASE n \in MayWrite(m)
  <2>1. history.writes < use.maxWrites /\ n \in Written(m)
    BY <1>2 DEF MayWrite
  <2>2. QED
    BY <2>1, WritesMove
<1>3. QED
  BY <1>1, <1>2

\* The bounds of a use.
LEMMA UseBounds ==
  ASSUME IInv
  PROVE  /\ use.stops \in BOOLEAN /\ \A c \in use.charges : c \in Nat
         /\ history.writes \in Nat /\ history.writes <= MaxWrites /\ MaxWrites \in Nat
         /\ use.maxWrites \in Nat /\ use.maxWrites <= MaxWrites
<1>1. use \in Uses /\ history \in Histories
  BY Known
<1>2. use.stops \in BOOLEAN /\ use.charges \subseteq Nat /\ use.maxWrites \in 0..MaxWrites
  BY <1>1, HostAssumption
<1>3. QED
  BY <1>1, <1>2, HostAssumption DEF Histories

\* A step does not change the use, so its properties carry over.
LEMMA Carried ==
  ASSUME use' = use, use \in Uses, Sound(machine'), call' \in Calls, history' \in Histories,
         Kept(machine', history'), Aimed(machine', call', history')
  PROVE  IInv'
<1>1. /\ ResetsItself' = ResetsItself /\ FitsFrame' = FitsFrame
      /\ OneSpeed' = OneSpeed /\ use'.stops = use.stops
  BY DEF ResetsItself, FitsFrame, OneSpeed
<1>2. Sound(machine)'
  BY DEF Sound, NextMachine, FrameTicks, Pulse, OffsetKnown, Line
<1>3. (call \in Calls)' /\ (history \in Histories)' /\ (use \in Uses)'
  BY DEF Calls, Histories
<1>4. TimedPin(machine, history)'
  BY <1>1 DEF Kept, TimedPin
<1>5. Placed(machine, history)' /\ Raised(machine, history)'
  BY DEF Kept, Placed, Raised, Position, Unit
<1>6. Once(machine, history)'
  BY <1>1 DEF Kept, Once, Spent, Pulse
<1>7. Aimed(machine, call, history)'
  BY <1>1 DEF Aimed
<1>8. QED
  BY <1>2, <1>3, <1>4, <1>5, <1>6, <1>7 DEF IInv, Kept

LEMMA TickKeeps ==
  ASSUME IInv, Tick
  PROVE  IInv'
<1>1. PICK charge \in use.charges, stop \in {FALSE, use.stops},
           b \in {machine} \cup MayWrite(machine) :
        \E a \in {Interrupt(b)} \cup
              (IF use.ports /\ b = machine THEN MayWrite(Interrupt(b)) ELSE {}) :
          LET n == Advance(a, charge)
              wrote == IF b = machine /\ a = Interrupt(b) THEN 0 ELSE 1
          IN  /\ machine' = n
              /\ history' = Remember(history, b, a, n, charge, wrote)
              /\ call' = IF stop THEN [pc |-> "out", target |-> 0]
                         ELSE IF n.frame_count >= call.target
                         THEN [pc |-> "render", target |-> 0]
                         ELSE call
  BY DEF Tick
<1>2. PICK a \in {Interrupt(b)} \cup
              (IF use.ports /\ b = machine THEN MayWrite(Interrupt(b)) ELSE {}) :
          LET n == Advance(a, charge)
              wrote == IF b = machine /\ a = Interrupt(b) THEN 0 ELSE 1
          IN  /\ machine' = n
              /\ history' = Remember(history, b, a, n, charge, wrote)
              /\ call' = IF stop THEN [pc |-> "out", target |-> 0]
                         ELSE IF n.frame_count >= call.target
                         THEN [pc |-> "render", target |-> 0]
                         ELSE call
  BY <1>1
<1> DEFINE i == Interrupt(b)
           n == Advance(a, charge)
           wrote == IF b = machine /\ a = i THEN 0 ELSE 1
<1>3. /\ machine' = n /\ history' = Remember(history, b, a, n, charge, wrote)
      /\ call' = IF stop THEN [pc |-> "out", target |-> 0]
                 ELSE IF n.frame_count >= call.target THEN [pc |-> "render", target |-> 0]
                 ELSE call
  BY <1>2
<1>4. call.pc = "loop" /\ use' = use
  BY DEF Tick
<1>5. Sound(machine) /\ use \in Uses
  BY Known
<1>6. Moved(b, machine) /\ (b # machine => history.writes < use.maxWrites)
  BY <1>5, WriteMoves
<1>7. Sound(i)
  BY <1>6, InterruptResult DEF Moved
<1>8. a \in {i} \cup MayWrite(i)
  BY <1>2
<1>9. Moved(a, i) /\ (a # i => history.writes < use.maxWrites)
  BY <1>7, <1>8, WriteMoves
<1>10. (~use.ports => a = i) /\ (b = machine \/ a = i)
  BY <1>2
<1>11. charge \in Nat /\ wrote \in {0, 1} /\ history.writes + wrote <= MaxWrites
  BY <1>6, <1>9, UseBounds
<1>12. Ticks(b, a, n, charge, wrote)
  BY <1>6, <1>9, <1>10, <1>11 DEF Ticks
<1> HIDE DEF n, wrote, i
<1>13. Sound(n) /\ Remember(history, b, a, n, charge, wrote) \in Histories
  BY <1>12, TickFacts, TickRemembers
<1>14. Kept(n, Remember(history, b, a, n, charge, wrote))
  BY <1>12, TickKeepsPin, TickKeepsPlace, TickRaises, TickInterruptsOnce DEF Kept
<1>15. call' \in Calls /\ Aimed(n, call', Remember(history, b, a, n, charge, wrote))
  BY <1>3, <1>4, <1>12, TickAims
<1>16. Sound(machine') /\ history' \in Histories /\ Kept(machine', history')
       /\ Aimed(machine', call', history')
  BY <1>3, <1>13, <1>14, <1>15
<1>17. QED
  BY <1>4, <1>5, <1>15, <1>16, Carried

-----------------------------------------------------------------------------
(* The other steps.                                                        *)

LEMMA CallKeeps ==
  ASSUME IInv, Call
  PROVE  IInv'
<1>1. /\ call.pc = "out" /\ call' = [pc |-> "loop", target |-> machine.frame_count + 1]
      /\ use' = use /\ machine' = machine /\ history' = history
  BY DEF Call
<1>2. machine.frame_count \in Nat
  BY Known DEF Sound, NextMachine
<1>3. call' \in Calls
  BY <1>1, <1>2 DEF Calls
<1>4. Aimed(machine, call', history)
  BY <1>1, Known DEF Aimed
<1>5. /\ use \in Uses /\ Sound(machine') /\ history' \in Histories
      /\ Kept(machine', history') /\ Aimed(machine', call', history')
  BY <1>1, <1>4, Known
<1>6. QED
  BY <1>1, <1>3, <1>5, Carried

LEMMA RenderKeeps ==
  ASSUME IInv, Render
  PROVE  IInv'
<1>1. PICK m \in {machine} \cup MayWrite(machine) :
        /\ machine' = m
        /\ history' = [history EXCEPT !.unrendered = 0,
                                      !.time = IF m.frame_tstate = 0 THEN 0 ELSE @,
                                      !.writes = IF m = machine THEN @ ELSE @ + 1]
  BY DEF Render
<1> DEFINE time == IF m.frame_tstate = 0 THEN 0 ELSE history.time
           writes == IF m = machine THEN history.writes ELSE history.writes + 1
           g == [history EXCEPT !.unrendered = 0, !.time = time, !.writes = writes]
<1>2. /\ call.pc = "render" /\ call' = [pc |-> "out", target |-> 0] /\ use' = use
      /\ machine' = m /\ history' = g
  BY <1>1 DEF Render
<1>3. /\ use \in Uses /\ Sound(machine) /\ history \in Histories
      /\ Kept(machine, history) /\ Aimed(machine, call, history)
  BY Known
<1>4. Moved(m, machine) /\ (m # machine => history.writes < use.maxWrites)
  BY <1>3, WriteMoves
<1>5. /\ time \in Nat /\ writes \in 0..MaxWrites /\ 0 \in 0..2
      /\ history.time \in Nat /\ history.writes \in Nat
  BY <1>3, <1>4, UseBounds DEF Histories
<1>6. /\ g \in Histories /\ g.unrendered = 0 /\ g.time = time /\ g.writes = writes
      /\ g.line_pulses = history.line_pulses /\ (g.raised <=> history.raised)
      /\ (g.enabled <=> history.enabled) /\ (g.skipped <=> history.skipped)
  <2> HIDE DEF time, writes
  <2>1. QED
    BY <1>3, <1>5 DEF Histories
<1> HIDE DEF g
<1>7. /\ m.frame_tstate \in Nat /\ m.int_counter \in Nat
      /\ machine.frame_tstate \in Nat /\ machine.int_counter \in Nat
      /\ Position(m) \in Nat /\ Position(machine) \in Nat /\ Sound(m)
  BY <1>3, <1>4, Lengths DEF Moved, Sound, NextMachine, Position, Speeds
<1>8. /\ machine.int_counter = 0 => m.int_counter = 0
      /\ machine.frame_tstate = 0 => m.frame_tstate = 0
      /\ ~ResetsItself => /\ m.z80_int = machine.z80_int
                          /\ machine.int_counter > 0 => m.int_counter > 0
                          /\ m.line_int_pending => machine.line_int_pending
  BY <1>4 DEF Moved
<1>9. TimedPin(m, g)
  BY <1>3, <1>6, <1>8 DEF Kept, TimedPin
<1>10. Placed(m, g)
  <2>1. CASE m.frame_tstate = 0
    <3>1. Position(m) = 0
      BY <1>7, <2>1, Lengths DEF Sound, Position, Speeds
    <3>2. QED
      BY <1>5, <1>6, <2>1, <3>1 DEF Placed, Fast
  <2>2. CASE m.frame_tstate # 0
    <3>1. Position(m) <= Position(machine) /\ Position(machine) <= Position(m) + Fast
      BY <1>4, <2>2 DEF Moved
    <3>2. Position(machine) <= history.time
          /\ history.time <= Position(machine) + Fast * history.writes
      BY <1>3 DEF Kept, Placed
    <3>3. CASE m = machine
      BY <1>6, <2>2, <3>2, <3>3 DEF Placed
    <3>4. CASE m # machine
      BY <1>5, <1>6, <1>7, <2>2, <3>1, <3>2, <3>4 DEF Placed, Fast
    <3>5. QED
      BY <3>3, <3>4
  <2>3. QED
    BY <2>1, <2>2
<1>11. Raised(m, g)
  BY <1>3, <1>6, <1>7, <1>8 DEF Kept, Raised
<1>12. Once(m, g)
  BY <1>2, <1>3, <1>6, <1>8 DEF Kept, Once, Aimed
<1>13. call' \in Calls /\ Aimed(m, call', g)
  BY <1>2, <1>6 DEF Calls, Aimed
<1>14. QED
  BY <1>2, <1>3, <1>6, <1>7, <1>9, <1>10, <1>11, <1>12, <1>13, Carried DEF Kept

LEMMA MenuResetKeeps ==
  ASSUME IInv, MenuReset
  PROVE  IInv'
<1> DEFINE k == MachineReset(machine)
           m == [k EXCEPT !.z80_int = FALSE]
           g == [InitialHistory EXCEPT !.unrendered = history.unrendered]
<1>1. /\ machine' = m /\ history' = g /\ use' = use /\ call' = call /\ ResetsItself
  BY DEF MenuReset, ResetsItself
<1>2. Sound(machine) /\ call \in Calls /\ use \in Uses /\ history \in Histories
  BY Known
<1>3. /\ Sound(k) /\ k.int_counter = 0 /\ k.frame_tstate = 0 /\ k \in NextMachine
  <2>1. Sound(k)
    BY <1>1, <1>2, ResetMoves DEF Moved
  <2>2. k.int_counter = 0 /\ k.frame_tstate = 0
    BY <1>2 DEF Sound, NextMachine, MachineReset
  <2>3. QED
    BY <2>1, <2>2 DEF Sound
<1> HIDE DEF k
<1>4. /\ m \in NextMachine /\ m.int_counter = 0 /\ m.frame_tstate = 0
      /\ m.cpu_speed_multiplier = k.cpu_speed_multiplier /\ m.nr22 = k.nr22
      /\ m.line_int_offset = k.line_int_offset
  BY <1>3 DEF NextMachine
<1> HIDE DEF m
<1>5. Sound(m)
  BY <1>3, <1>4 DEF Sound, FrameTicks, Pulse, OffsetKnown
<1>6. g \in Histories /\ g.time = 0 /\ g.writes = 0 /\ ~g.enabled
  <2>1. MaxWrites \in Nat
    BY HostAssumption
  <2>2. history.unrendered \in 0..2 /\ 0 \in 0..2 /\ 0 \in 0..MaxWrites
    BY <1>2, <2>1 DEF Histories
  <2>3. /\ InitialHistory \in Histories
        /\ InitialHistory.time = 0 /\ InitialHistory.writes = 0 /\ ~InitialHistory.enabled
    BY <2>2 DEF Histories, InitialHistory
  <2>4. QED
    BY <2>2, <2>3 DEF Histories
<1> HIDE DEF g
<1>7. Position(m) = 0
  BY <1>4, Lengths DEF Position, Speeds
<1>8. Kept(m, g) /\ Aimed(m, call, g)
  BY <1>1, <1>4, <1>6, <1>7 DEF Kept, TimedPin, Placed, Raised, Once, Aimed, Fast
<1>9. QED
  BY <1>1, <1>2, <1>5, <1>6, <1>8, Carried

LEMMA Begins == Init => IInv
<1> SUFFICES ASSUME Init PROVE IInv
  OBVIOUS
<1>1. /\ use \in Uses /\ call = [pc |-> "out", target |-> 0] /\ history = InitialHistory
      /\ machine =
           [ frame_count |-> 0, frame_tstate |-> 0, cpu_speed_multiplier |-> 1,
             int_counter |-> 0, line_int_pending |-> FALSE, frame_int_disabled |-> FALSE,
             line_int_offset |-> 0, z80_int |-> FALSE, nr22 |-> InitialRegister ]
  BY DEF Init
<1>2. machine \in NextMachine
  BY <1>1, MultiplierAssumption DEF NextMachine, InitialRegister
<1>3. /\ machine.frame_tstate = 0 /\ machine.int_counter = 0 /\ ~machine.z80_int
      /\ ~machine.nr22.line_on /\ ~machine.line_int_pending
  BY <1>1 DEF InitialRegister
<1>4. Sound(machine)
  BY <1>2, <1>3, Lengths DEF Sound, OffsetKnown
<1>5. call \in Calls /\ history \in Histories
  BY <1>1, HostAssumption DEF Calls, Histories, InitialHistory
<1>6. Position(machine) = 0
  BY <1>2, <1>3, Lengths DEF Position, Speeds
<1>7. /\ history.time = 0 /\ history.writes = 0 /\ ~history.enabled
      /\ history.line_pulses = 0 /\ history.unrendered = 0 /\ call.pc = "out"
  BY <1>1 DEF InitialHistory
<1>8. Kept(machine, history)
  BY <1>3, <1>6, <1>7 DEF Kept, TimedPin, Placed, Raised, Once, Fast
<1>9. Aimed(machine, call, history)
  BY <1>7 DEF Aimed
<1>10. QED
  BY <1>1, <1>4, <1>5, <1>8, <1>9 DEF IInv

LEMMA Preserved == IInv /\ [Next]_vars => IInv'
<1> SUFFICES ASSUME IInv, [Next]_vars PROVE IInv'
  OBVIOUS
<1>1. CASE Call
  BY <1>1, CallKeeps
<1>2. CASE Tick
  BY <1>2, TickKeeps
<1>3. CASE Render
  BY <1>3, RenderKeeps
<1>4. CASE MenuReset
  BY <1>4, MenuResetKeeps
<1>5. CASE UNCHANGED vars
  <2>1. use' = use /\ machine' = machine /\ call' = call /\ history' = history
    BY <1>5 DEF vars
  <2>2. QED
    BY <2>1, Known, Carried
<1>6. QED
  BY <1>1, <1>2, <1>3, <1>4, <1>5 DEF Next, Enough

LEMMA Invariance == Spec => []IInv
<1>1. Init => IInv
  BY Begins
<1>2. IInv /\ [Next]_vars => IInv'
  BY Preserved
<1>3. QED
  BY <1>1, <1>2, PTL DEF Spec

-----------------------------------------------------------------------------
(* The theorems.                                                           *)

\* The position is within the frame and an interrupt within its length at any
\* speed (next_set_cpu_speed scales both; next_machine_exec_frame).
THEOREM TypeCorrect == Spec => []TypeOK
<1>1. IInv => TypeOK
  <2> SUFFICES ASSUME IInv PROVE TypeOK
    OBVIOUS
  <2>1. QED
    BY Known DEF TypeOK, Sound, Calls, Histories
<1>2. QED
  BY <1>1, Invariance, PTL

\* However often a program changes the speed of the CPU, in the middle of an
\* interrupt or of a frame, the interrupt pin is lowered again and a frame
\* takes the time it has, but for the fractions that next_set_cpu_speed rounds.
THEOREM TimeIsKept == Spec => []TimeKept
<1>1. IInv => TimeKept
  <2> SUFFICES ASSUME IInv PROVE TimeKept
    OBVIOUS
  <2>1. TimedPin(machine, history) /\ Placed(machine, history)
    BY Known DEF Kept
  <2>2. PinIsTimed
    BY <2>1 DEF TimedPin, PinIsTimed
  <2>3. PositionKept
    BY <2>1 DEF Placed, Position, PositionKept
  <2>4. QED
    BY <2>2, <2>3 DEF TimeKept
<1>2. QED
  BY <1>1, Invariance, PTL

\* A frame interrupts the CPU, has its line interrupt and is drawn once
\* (next_tick, next_machine_exec_frame), with the exceptions the property
\* names.
THEOREM FramesInterruptOnce == Spec => []OncePerFrame
<1>1. IInv => OncePerFrame
  <2> SUFFICES ASSUME IInv PROVE OncePerFrame
    OBVIOUS
  <2>1. Raised(machine, history) /\ Once(machine, history) /\ Aimed(machine, call, history)
    BY Known DEF Kept
  <2>2. FrameInterrupts
    BY <2>1 DEF Raised, FrameInterrupts
  <2>3. LineOncePerFrame
    BY <2>1 DEF Once, OneSpeed, LineOncePerFrame
  <2>4. EveryFrameRendered
    BY <2>1 DEF Aimed, EveryFrameRendered
  <2>5. QED
    BY <2>2, <2>3, <2>4 DEF OncePerFrame
<1>2. QED
  BY <1>1, Invariance, PTL

-----------------------------------------------------------------------------
(* Iteration: what a recursive function over 0..n gives.                   *)

LEMMA LeastIn ==
  ASSUME NEW B \in SUBSET Nat, B # {}
  PROVE  \E x \in B : \A y \in B : x <= y
<1> DEFINE Less == {ss \in Nat \X Nat : ss[1] < ss[2]}
<1>1. IsWellFoundedOn(Less, Nat)
  BY NatLessThanWellFounded, Zenon DEF OpToRel
<1>2. \A x, y \in B : x < y => <<x, y>> \in Less
  OBVIOUS
<1> HIDE DEF Less
<1>3. PICK x \in B : \A y \in B : ~(<<y, x>> \in Less)
  BY <1>1, WFMin
<1>4. \A y \in B : x <= y
  <2> TAKE y \in B
  <2>1. ~(y < x) /\ x \in Nat /\ y \in Nat
    BY <1>2, <1>3
  <2> QED BY <2>1
<1> QED BY <1>4

\* A property of the first value that each step keeps holds of all.
LEMMA IterationKeeps ==
  ASSUME NEW S, NEW n \in Nat, NEW g, g[0] \in S,
         \A i \in 1..n : g[i - 1] \in S => g[i] \in S
  PROVE  \A i \in 0..n : g[i] \in S
<1> DEFINE Bad == {i \in 0..n : g[i] \notin S}
<1>1. SUFFICES ASSUME Bad # {} PROVE FALSE
  OBVIOUS
<1>2. PICK m \in Bad : \A y \in Bad : m <= y
  <2>1. Bad \in SUBSET Nat
    OBVIOUS
  <2> QED BY <1>1, <2>1, LeastIn
<1>3. m \in 0..n /\ g[m] \notin S /\ m # 0
  BY <1>2
<1>4. m \in 1..n /\ m - 1 \in 0..n /\ m - 1 \notin Bad
  BY <1>2, <1>3
<1> QED BY <1>3, <1>4

\* f is the iteration of a step T on S from b.
Iterates(f, S, n, b, T) ==
  /\ f \in [0..n -> S] /\ f[0] = b
  /\ \A i \in 1..n : f[i] = T[<<f[i - 1], i>>]

\* An iteration has values.
LEMMA IterationExists ==
  ASSUME NEW S, NEW n \in Nat, NEW b \in S, NEW T \in [S \X (1..n) -> S]
  PROVE  \E f : Iterates(f, S, n, b, T)
<1> USE DEF Iterates
<1> DEFINE Works(f, m) == Iterates(f, S, m, b, T)
           Bad == {m \in 0..n : ~ \E f : Works(f, m)}
<1>1. SUFFICES ASSUME Bad # {} PROVE FALSE
  <2>1. SUFFICES ASSUME Bad = {} PROVE \E f : Works(f, n)
    OBVIOUS
  <2>2. n \in 0..n /\ n \notin Bad
    BY <2>1
  <2> QED BY <2>2
<1>2. PICK m \in Bad : \A y \in Bad : m <= y
  <2>1. Bad \in SUBSET Nat
    OBVIOUS
  <2> HIDE DEF Bad
  <2> QED BY <1>1, <2>1, LeastIn
<1>3. m \in 0..n /\ ~ \E f : Works(f, m)
  BY <1>2
<1>4. m # 0
  <2> SUFFICES ASSUME m = 0 PROVE FALSE
    OBVIOUS
  <2> DEFINE f == [i \in 0..0 |-> b]
  <2>1. Works(f, 0)
    OBVIOUS
  <2> QED BY <1>3, <2>1
<1>5. m - 1 \in 0..n /\ m - 1 \notin Bad
  <2>1. m - 1 \in 0..n /\ ~(m <= m - 1)
    BY <1>3, <1>4
  <2> HIDE DEF Bad
  <2> QED BY <1>2, <2>1
<1>6. PICK f : Works(f, m - 1)
  BY <1>5
<1> DEFINE g == [i \in 0..m |-> IF i = m THEN T[<<f[m - 1], m>>] ELSE f[i]]
<1>7. m - 1 \in 0..(m - 1) /\ m \in 1..n
  BY <1>3, <1>4
<1>8. f[m - 1] \in S /\ T[<<f[m - 1], m>>] \in S
  BY <1>6, <1>7
<1>9. \A i \in 0..m : i # m => i \in 0..(m - 1)
  BY <1>3
<1>10. g \in [0..m -> S]
  BY <1>6, <1>8, <1>9
<1>11. g[0] = b
  BY <1>3, <1>4, <1>6
<1>12. \A i \in 1..m : g[i] = T[<<g[i - 1], i>>]
  <2> TAKE i \in 1..m
  <2>1. i - 1 \in 0..m /\ i - 1 # m /\ i \in 0..m
    BY <1>3
  <2>2. g[i - 1] = f[i - 1]
    BY <2>1
  <2>3. CASE i = m
    BY <2>1, <2>2, <2>3
  <2>4. CASE i # m
    <3>1. i \in 1..(m - 1)
      BY <1>3, <2>4
    <3>2. f[i] = T[<<f[i - 1], i>>]
      BY <1>6, <3>1
    <3> QED BY <2>1, <2>2, <2>4, <3>2
  <2> QED BY <2>3, <2>4
<1>13. Works(g, m)
  BY <1>10, <1>11, <1>12
<1> HIDE DEF g, Works
<1> QED BY <1>3, <1>13

-----------------------------------------------------------------------------
(* Conditions.                                                             *)

Results == [ok : BOOLEAN, value : Int]
Sums ==
  {x \in [operands : Seq(Results), operators : Seq(Operators)] :
     Len(x.operands) = Len(x.operators) + 1}

LEMMA QuotientIs ==
  ASSUME NEW x \in Int, NEW y \in Int, y # 0
  PROVE  Quotient(x, y) \in Int
<1>1. Magnitude(x) \in Nat /\ Magnitude(y) \in Nat /\ Magnitude(y) > 0
  BY DEF Magnitude
<1>2. Magnitude(x) \div Magnitude(y) \in Int
  BY <1>1
<1> QED BY <1>2 DEF Quotient

LEMMA BinaryIs ==
  ASSUME NEW op \in Operators, NEW x \in Results, NEW y \in Results
  PROVE  Binary(op, x, y) \in Results
<1>1. x.value \in Int /\ y.value \in Int /\ x.ok \in BOOLEAN /\ y.ok \in BOOLEAN
  BY DEF Results
<1>2. x.value * y.value \in Int /\ x.value + y.value \in Int /\ x.value - y.value \in Int
  BY <1>1
<1>4. y.value # 0 => Quotient(x.value, y.value) \in Int
  BY <1>1, QuotientIs
<1>5. Binary(op, x, y).value \in Int
  <2> DEFINE v == Binary(op, x, y).value
  <2>1. CASE op = "*"
    <3>1. v = x.value * y.value
      BY <2>1 DEF Binary
    <3> QED BY <1>2, <3>1
  <2>2. CASE op = "/"
    <3>1. v = IF y.value = 0 THEN 0 ELSE Quotient(x.value, y.value)
      BY <2>2 DEF Binary
    <3> QED BY <1>4, <3>1
  <2>3. CASE op = "+"
    <3>1. v = x.value + y.value
      BY <2>3 DEF Binary
    <3> QED BY <1>2, <3>1
  <2>4. CASE op = "-"
    <3>1. v = x.value - y.value
      BY <2>4 DEF Binary
    <3> QED BY <1>2, <3>1
  <2>5. CASE op \in {"<", "==", "&&", "||"}
    <3>1. \/ v = Truth(x.value < y.value)
          \/ v = Truth(x.value = y.value)
          \/ v = Truth(x.value # 0 /\ y.value # 0)
          \/ v = Truth(x.value # 0 \/ y.value # 0)
      BY <2>5 DEF Binary
    <3> HIDE DEF v
    <3>2. v \in Int
      BY <3>1 DEF Truth
    <3> QED BY <3>2 DEF v
  <2> QED BY <2>1, <2>2, <2>3, <2>4, <2>5 DEF Operators
<1>6. Binary(op, x, y).ok \in BOOLEAN
  BY <1>1 DEF Binary
<1> QED BY <1>5, <1>6 DEF Binary, Results

LEMMA JoinedIs ==
  ASSUME NEW level, NEW done \in Sums, NEW op \in Operators, NEW right \in Results
  PROVE  Joined(level, done, op, right) \in Sums
<1> DEFINE n == Len(done.operands)
<1>1. /\ done \in [operands : Seq(Results), operators : Seq(Operators)]
      /\ n = Len(done.operators) + 1 /\ Len(done.operators) \in Nat
  BY DEF Sums
<1>2. done.operands \in Seq(Results) /\ done.operators \in Seq(Operators) /\ n \in 1..n
  BY <1>1
<1>3. done.operands[n] \in Results
  BY <1>2, ElementOfSeq
<1>4. CASE op \in level
  <2> DEFINE r == Binary(op, done.operands[n], right)
             s == [done.operands EXCEPT ![n] = r]
  <2>1. r \in Results
    BY <1>3, BinaryIs
  <2>2. s \in Seq(Results) /\ Len(s) = n
    BY <1>2, <2>1
  <2>3. Joined(level, done, op, right) = [done EXCEPT !.operands = s]
    BY <1>1, <1>4 DEF Joined
  <2> HIDE DEF s
  <2> QED BY <1>1, <2>2, <2>3 DEF Sums
<1>5. CASE op \notin level
  BY <1>1, <1>2, <1>5 DEF Joined, Sums
<1> QED BY <1>4, <1>5

LEMMA ReduceIs ==
  ASSUME NEW x \in Sums, NEW level
  PROVE  Reduce(x, level) \in Sums
<1> DEFINE n == Len(x.operators)
           first == [operands |-> <<Head(x.operands)>>, operators |-> <<>>]
           Works(f) == f = [i \in 0..n |-> IF i = 0 THEN first
                                        ELSE Joined(level, f[i - 1], x.operators[i], x.operands[i + 1])]
           T == [p \in Sums \X (1..n) |-> Joined(level, p[1], x.operators[p[2]], x.operands[p[2] + 1])]
<1>1. /\ x.operands \in Seq(Results) /\ x.operators \in Seq(Operators)
      /\ Len(x.operands) = n + 1 /\ n \in Nat
  BY DEF Sums
<1>2. \A i \in 1..n : x.operators[i] \in Operators /\ x.operands[i + 1] \in Results
  <2> TAKE i \in 1..n
  <2>1. i \in 1..Len(x.operators) /\ i + 1 \in 1..Len(x.operands)
    BY <1>1
  <2> QED BY <1>1, <2>1, ElementOfSeq
<1>3. first \in Sums
  <2>1. x.operands # <<>> /\ Head(x.operands) \in Results
    BY <1>1
  <2>2. <<Head(x.operands)>> \in Seq(Results) /\ Len(<<Head(x.operands)>>) = 1
    BY <2>1
  <2>3. <<>> \in Seq(Operators) /\ Len(<<>>) = 0
    OBVIOUS
  <2> DEFINE a == <<Head(x.operands)>>
             c == <<>>
  <2>4. first = [operands |-> a, operators |-> c]
    OBVIOUS
  <2>5. a \in Seq(Results) /\ c \in Seq(Operators) /\ Len(a) = Len(c) + 1
    BY <2>2, <2>3
  <2> HIDE DEF first, a, c
  <2> QED BY <2>4, <2>5 DEF Sums
<1>4. \A s \in Sums, i \in 1..n : Joined(level, s, x.operators[i], x.operands[i + 1]) \in Sums
  BY <1>2, JoinedIs
<1>5. T \in [Sums \X (1..n) -> Sums]
  BY <1>4
<1>6. \A s \in Sums, i \in 1..n :
        T[<<s, i>>] = Joined(level, s, x.operators[i], x.operands[i + 1])
  OBVIOUS
<1>7. \E f : Works(f)
  <2> HIDE DEF first, T, n
  <2>1. PICK f : Iterates(f, Sums, n, first, T)
    BY <1>1, <1>3, <1>5, IterationExists, Zenon
  <2>2. \A i \in 1..n : f[i] = Joined(level, f[i - 1], x.operators[i], x.operands[i + 1])
    <3> TAKE i \in 1..n
    <3>1. f[i - 1] \in Sums
      BY <1>1, <2>1 DEF Iterates
    <3> QED BY <1>6, <2>1, <3>1 DEF Iterates
  <2>3. \A i \in 0..n : f[i] = IF i = 0 THEN first
                               ELSE Joined(level, f[i - 1], x.operators[i], x.operands[i + 1])
    BY <1>1, <2>1, <2>2 DEF Iterates
  <2>4. f = [i \in 0..n |-> f[i]]
    BY <2>1 DEF Iterates
  <2>5. Works(f)
    BY <2>3, <2>4
  <2> QED BY <2>5
<1> DEFINE done == CHOOSE f : Works(f)
<1>8. Works(done)
  BY <1>7
<1>9. Reduce(x, level) = done[n]
  BY DEF Reduce
<1> HIDE DEF done, first, T, n
<1>10. done[0] = first
  BY <1>1, <1>8
<1>11. \A i \in 1..n : done[i] = Joined(level, done[i - 1], x.operators[i], x.operands[i + 1])
  <2> TAKE i \in 1..n
  <2>1. i \in 0..n /\ i # 0
    BY <1>1
  <2> QED BY <1>8, <2>1, Zenon
<1>12. \A i \in 0..n : done[i] \in Sums
  <2>1. \A i \in 1..n : done[i - 1] \in Sums => done[i] \in Sums
    BY <1>4, <1>11
  <2> QED BY <1>1, <1>3, <1>10, <2>1, IterationKeeps
<1> QED BY <1>1, <1>9, <1>12

\* A condition has a result, whatever its operators.
LEMMA EvaluateIs ==
  ASSUME NEW e \in Expressions, NEW address \in Int, NEW value \in Int, cpu.sp \in Int
  PROVE  Evaluate(e, address, value) \in Results
<1> DEFINE names == [SP |-> cpu.sp, ADDR |-> address, VALUE |-> value]
           n == Len(Levels)
           first == [operands |-> [k \in DOMAIN e.operands |-> Operand(e.operands[k], names)],
                     operators |-> e.operators]
           Works(f) == f = [i \in 0..n |-> IF i = 0 THEN first ELSE Reduce(f[i - 1], Levels[i])]
           T == [p \in Sums \X (1..n) |-> Reduce(p[1], Levels[p[2]])]
<1>1. n = 6 /\ n \in Nat
  BY DEF Levels
<1>2. first \in Sums
  <2>1. /\ e.operands \in Seq([name : STRING, number : Int]) /\ e.operators \in Seq(Operators)
        /\ Len(e.operands) = Len(e.operators) + 1
    BY DEF Expressions
  <2>2. \A o \in [name : STRING, number : Int] : Operand(o, names) \in Results
    <3> TAKE o \in [name : STRING, number : Int]
    <3>1. DOMAIN names = {"SP", "ADDR", "VALUE"}
      OBVIOUS
    <3>2. \A k \in DOMAIN names : names[k] \in Int
      OBVIOUS
    <3> HIDE DEF names
    <3> QED BY <3>2 DEF Operand, Results
  <2> DEFINE s == [k \in DOMAIN e.operands |-> Operand(e.operands[k], names)]
  <2> DEFINE N == [name : STRING, number : Int]
             q == e.operands
             m == Len(q)
  <2>3. q \in Seq(N) /\ m \in Nat /\ DOMAIN q = 1..m /\ \A k \in 1..m : q[k] \in N
    <3> HIDE DEF N
    <3>1. q \in Seq(N)
      BY <2>1 DEF N
    <3> QED BY <3>1, ElementOfSeq
  <2>4. s \in Seq(Results) /\ Len(s) = m
    <3> HIDE DEF N, names
    <3>1. \A k \in 1..m : Operand(q[k], names) \in Results
      BY <2>2, <2>3 DEF N, names
    <3> HIDE DEF q
    <3>2. s = [k \in 1..m |-> Operand(q[k], names)]
      BY <2>3 DEF q
    <3> HIDE DEF s, m
    <3> QED BY <2>3, <3>1, <3>2
  <2> HIDE DEF s, m
  <2>5. first = [operands |-> s, operators |-> e.operators]
    BY DEF s
  <2> QED BY <2>1, <2>4, <2>5 DEF Sums, m
<1>3. \A s \in Sums, i \in 1..n : Reduce(s, Levels[i]) \in Sums
  BY ReduceIs
<1> HIDE DEF first, names
<1>4. \E f : Works(f)
  <2>1. T \in [Sums \X (1..n) -> Sums]
    BY <1>3
  <2>2. \A s \in Sums, i \in 1..n : T[<<s, i>>] = Reduce(s, Levels[i])
    OBVIOUS
  <2> HIDE DEF T, n
  <2>3. PICK f : Iterates(f, Sums, n, first, T)
    BY <1>1, <1>2, <2>1, IterationExists, Zenon
  <2>4. \A i \in 1..n : f[i] = Reduce(f[i - 1], Levels[i])
    <3> TAKE i \in 1..n
    <3>1. f[i - 1] \in Sums
      BY <1>1, <2>3 DEF Iterates
    <3> QED BY <2>2, <2>3, <3>1 DEF Iterates
  <2>5. \A i \in 0..n : f[i] = IF i = 0 THEN first ELSE Reduce(f[i - 1], Levels[i])
    BY <1>1, <2>3, <2>4 DEF Iterates
  <2>6. f = [i \in 0..n |-> f[i]]
    BY <2>3 DEF Iterates
  <2>7. Works(f)
    BY <2>5, <2>6
  <2> QED BY <2>7
<1> DEFINE reduced == CHOOSE f : Works(f)
<1>5. Works(reduced)
  BY <1>4
<1>6. Evaluate(e, address, value) = reduced[n].operands[1]
  BY DEF Evaluate, first, names
<1> HIDE DEF reduced, T, n
<1>7. reduced[0] = first /\ \A i \in 1..n : reduced[i] = Reduce(reduced[i - 1], Levels[i])
  BY <1>1, <1>5
<1>8. \A i \in 0..n : reduced[i] \in Sums
  <2>1. \A i \in 1..n : reduced[i - 1] \in Sums => reduced[i] \in Sums
    BY <1>3, <1>7
  <2>2. reduced[0] \in Sums /\ n \in Nat
    BY <1>1, <1>2, <1>7
  <2> QED BY <2>1, <2>2, IterationKeeps
<1>9. reduced[n] \in Sums
  BY <1>1, <1>8
<1>10. reduced[n].operands \in Seq(Results) /\ 1 \in 1..Len(reduced[n].operands)
  BY <1>9 DEF Sums
<1> QED BY <1>6, <1>10, ElementOfSeq

-----------------------------------------------------------------------------
(* Points.                                                                 *)

\* A list the debugger may hold.
IsList(list) ==
  /\ list \in Seq(PointType) /\ Len(list) <= MaxPoints
  /\ \A i \in DOMAIN list : list[i].hits <= list[i].target

\* All that the machine's running changes in a list.
CountsOnly(old, new) ==
  /\ Len(new) = Len(old)
  /\ \A i \in DOMAIN old : \E n \in Nat : new[i] = [old[i] EXCEPT !.hits = n]

LEMMA CountedIs ==
  ASSUME NEW p \in PointType, p.hits <= p.target
  PROVE  /\ Counted(p) \in PointType /\ Counted(p).hits <= Counted(p).target
         /\ \E n \in Nat : Counted(p) = [p EXCEPT !.hits = n]
<1>1. p.hits \in Nat /\ p.target \in Nat
  BY DEF PointType
<1> DEFINE n == IF p.hits < p.target THEN p.hits + 1 ELSE p.hits
<1>2. n \in Nat /\ n <= p.target
  BY <1>1
<1>3. Counted(p) = [p EXCEPT !.hits = n]
  BY DEF Counted
<1> HIDE DEF n
<1>4. Counted(p) \in PointType /\ Counted(p).hits = n /\ Counted(p).target = p.target
  BY <1>2, <1>3 DEF PointType
<1> QED BY <1>2, <1>3, <1>4

LEMMA MatchIs ==
  ASSUME IsList(points), NEW kind, NEW address, NEW value
  PROVE  LET m == MatchPoint(kind, address, value)
         IN  IsList(m.points) /\ CountsOnly(points, m.points)
<1> DEFINE m == MatchPoint(kind, address, value)
           n == Len(points)
<1>1. points \in Seq(PointType) /\ n \in Nat /\ DOMAIN points = 1..n /\ n <= MaxPoints
  BY DEF IsList
<1>2. \A i \in 1..n : points[i] \in PointType /\ points[i].hits <= points[i].target
  BY <1>1, ElementOfSeq DEF IsList
<1> DEFINE new(i) == IF /\ (m.index = 0 \/ i <= m.index)
                        /\ Matches(points[i], kind, address, value)
                     THEN Counted(points[i]) ELSE points[i]
<1>3. m.points = [i \in 1..n |-> new(i)]
  BY <1>1 DEF MatchPoint
<1>4. \A i \in 1..n : /\ new(i) \in PointType /\ new(i).hits <= new(i).target
                      /\ \E k \in Nat : new(i) = [points[i] EXCEPT !.hits = k]
  <2> TAKE i \in 1..n
  <2>1. CASE new(i) = Counted(points[i])
    BY <1>2, <2>1, CountedIs
  <2>2. CASE new(i) = points[i]
    <3>1. points[i].hits \in Nat /\ points[i] = [points[i] EXCEPT !.hits = points[i].hits]
      BY <1>2 DEF PointType
    <3> QED BY <1>2, <2>2, <3>1
  <2> HIDE DEF m
  <2> QED BY <2>1, <2>2
<1> HIDE DEF new, m, n
<1>5. m.points \in Seq(PointType) /\ Len(m.points) = n /\ DOMAIN m.points = 1..n
  BY <1>1, <1>3, <1>4
<1>6. \A i \in 1..n : m.points[i] = new(i)
  BY <1>3
<1>7. IsList(m.points)
  BY <1>1, <1>4, <1>5, <1>6 DEF IsList
<1>8. CountsOnly(points, m.points)
  BY <1>1, <1>4, <1>5, <1>6 DEF CountsOnly, n
<1> QED BY <1>7, <1>8 DEF m

\* Some point is found when one triggers.
LEMMA MatchFinds ==
  ASSUME points \in Seq(PointType), NEW kind, NEW address, NEW value,
         NEW i \in DOMAIN points, Triggers(points[i], kind, address, value)
  PROVE  MatchPoint(kind, address, value).index # 0
<1> DEFINE I == {k \in 1..Len(points) : Triggers(points[k], kind, address, value)}
<1>1. i \in I
  OBVIOUS
<1>2. I \in SUBSET Nat /\ I # {} /\ 0 \notin I
  BY <1>1
<1>3. MatchPoint(kind, address, value).index = Min(I)
  BY <1>2 DEF MatchPoint, SelectInSeq
<1> HIDE DEF I
<1>4. Min(I) \in I
  BY <1>2, LeastIn DEF Min
<1> QED BY <1>2, <1>3, <1>4

\* A list whose counts alone change is the same to the settings file, and
\* covers the same addresses.
LEMMA CountsStored ==
  ASSUME NEW old, IsList(old), NEW new, IsList(new), CountsOnly(old, new)
  PROVE  /\ DOMAIN new = DOMAIN old
         /\ [i \in DOMAIN new |-> Stored(new[i])] = [i \in DOMAIN old |-> Stored(old[i])]
         /\ \A i \in DOMAIN old : \A a :
              /\ new[i].kind = old[i].kind /\ new[i].enabled = old[i].enabled
              /\ Plain(new[i]) = Plain(old[i]) /\ Covers(new[i], a) = Covers(old[i], a)
<1>1. DOMAIN new = DOMAIN old
  BY DEF IsList, CountsOnly
<1>2. ASSUME NEW i \in DOMAIN old
      PROVE  /\ Stored(new[i]) = Stored(old[i])
             /\ new[i].kind = old[i].kind /\ new[i].enabled = old[i].enabled
             /\ new[i].start = old[i].start /\ new[i].end = old[i].end
             /\ new[i].target = old[i].target /\ new[i].value = old[i].value
             /\ new[i].condition = old[i].condition
  <2>1. old[i] \in PointType
    BY ElementOfSeq DEF IsList
  <2>2. PICK n \in Nat : new[i] = [old[i] EXCEPT !.hits = n]
    BY DEF CountsOnly
  <2> HIDE DEF CountsOnly, IsList
  <2> QED BY <2>1, <2>2 DEF PointType, Stored
<1>3. \A i \in DOMAIN old : Stored(new[i]) = Stored(old[i])
  BY <1>2
<1>4. \A i \in DOMAIN old : \A a :
         Plain(new[i]) = Plain(old[i]) /\ Covers(new[i], a) = Covers(old[i], a)
  BY <1>2 DEF Plain, Covers
<1> QED BY <1>1, <1>2, <1>3, <1>4

\* A plain point triggers wherever it covers.
LEMMA PlainTriggers ==
  ASSUME NEW p \in PointType, p.kind = "exec", Plain(p), NEW a, Covers(p, a)
  PROVE  Triggers(p, "exec", a, 0)
<1>1. p.hits \in Nat /\ p.hits + 1 >= 1
  BY DEF PointType
<1> QED BY <1>1 DEF Triggers, Matches, Holds, Plain


-----------------------------------------------------------------------------
(* Where the machine is, and what the commands make of the debugger.       *)

LEMMA ProgramIs ==
  ASSUME NEW a \in Addresses
  PROVE  /\ Program[a].length \in Nat /\ Program[a].accesses \in Seq(AccessType)
         /\ Len(Program[a].accesses) \in Nat \ {0}
         /\ Program[a].next \subseteq [to : Addresses, pops : Int]
<1>1. Program[a] \in InstructionType
  BY ProgramAssumption
<1>2. /\ Program[a].length \in Nat /\ Program[a].accesses \in Seq(AccessType) \ {<<>>}
      /\ Program[a].next \subseteq [to : Addresses, pops : Int]
  BY <1>1 DEF InstructionType
<1>3. Len(Program[a].accesses) # 0
  BY <1>2, EmptySeq
<1> QED BY <1>2, <1>3

LEMMA WrapsTo ==
  ASSUME NEW n \in Int
  PROVE  n % AddressTop \in Addresses /\ n % ValueTop \in Values
BY ProgramAssumption DEF Addresses, Values

LEMMA PcIs ==
  ASSUME DebuggerTypeOK
  PROVE  CurrentPc \in Addresses /\ cpu.at \in Addresses /\ cpu.sp \in Values
<1>1. cpu.at \in Addresses /\ cpu.at \in Nat /\ cpu.sp \in Values
  BY ProgramAssumption DEF DebuggerTypeOK, CpuType, Addresses
<1>2. Program[cpu.at].length \in Nat
  BY <1>1, ProgramIs
<1>3. (cpu.at + Program[cpu.at].length) % AddressTop \in Addresses
  BY <1>1, <1>2, WrapsTo
<1> QED BY <1>1, <1>3 DEF CurrentPc

LEMMA ClearedIs ==
  ASSUME NEW d \in DebugType
  PROVE  /\ Cleared(d) \in DebugType
         /\ ~Cleared(d).stopRequested /\ ~Cleared(d).pointHit /\ ~Cleared(d).runToHit
         /\ ~Cleared(d).pending /\ ~Cleared(d).leftBoundary
         /\ Cleared(d).open = d.open /\ Cleared(d).paused = d.paused
         /\ Cleared(d).stepping = d.stepping /\ Cleared(d).runTo = d.runTo
         /\ Cleared(d).skip = d.skip
BY DEF Cleared, DebugType

LEMMA ResumedIs ==
  ASSUME DebuggerTypeOK
  PROVE  Resumed \in DebugType /\ ~Resumed.paused /\ ~Resumed.stepping
<1>1. debug \in DebugType
  BY DEF DebuggerTypeOK
<1>2. Cleared(debug) \in DebugType
  BY <1>1, ClearedIs
<1>3. (IF HasBreakpoint(CurrentPc) THEN CurrentPc ELSE None) \in Addresses \cup {None}
  BY PcIs
<1> QED BY <1>2, <1>3, ZenonT(60) DEF Resumed, DebugType

-----------------------------------------------------------------------------
(* The invariant.                                                          *)

\* An address to run to does not outlive the stop it waited for.
GoalsEnd ==
  /\ debug.paused => debug.runTo = None
  /\ slice.by = "frame" /\ (system = "classic" \/ debug.open)
       /\ (debug.pointHit \/ debug.runToHit) => debug.runTo = None

\* A frame has the hook when a point is enabled, and is at a breakpoint only
\* when the machine has been paused there, when it is the arrival that is
\* passed, or when the hook has asked it to stop.
PlainAt(a) ==
  \E i \in DOMAIN points :
     points[i].kind = "exec" /\ Plain(points[i]) /\ Covers(points[i], a)
Warned ==
  slice.by = "frame" /\ debug.open =>
    /\ HasEnabledPoints => slice.armed
    /\ cpu.tick = 0 /\ PlainAt(cpu.at) =>
         seen.shown \/ seen.passed \/ (slice.armed /\ debug.stopRequested)

\* A step is in its instruction, with the ticks left that the rest of it takes
\* at most, or has ended it and asked to stop.
StallsLeft == IF cpu.held THEN 0 ELSE 1
InIt ==
  /\ seen.done = 0 /\ ~debug.stopRequested /\ cpu.tick # Prefetch
  /\ cpu.tick > 0 => debug.leftBoundary
  /\ system = "classic" =>
       left >= Len(Program[cpu.at].accesses) - cpu.tick + 1 + StallsLeft
PastIt == seen.done = 1 /\ AtBoundary /\ debug.stopRequested
Whole ==
  /\ seen.whole => slice.by = "step" /\ slice.armed /\ (InIt \/ PastIt)
  /\ ~seen.whole => seen.done = 0

\* Where the hook passes a breakpoint the machine was set going from last,
\* and has not arrived since.
Passing == debug.skip # None => seen.resumed = debug.skip

DebugInv == DebuggerTypeOK /\ GoalsEnd /\ Warned /\ Whole /\ Passing

\* A step that changes no more of the history than what has been shown.
LEMMA ShownIs ==
  ASSUME NEW s \in SeenType, NEW shown \in BOOLEAN
  PROVE  LET t == [s EXCEPT !.shown = shown]
         IN  /\ t \in SeenType /\ t.shown = shown /\ t.passed = s.passed
             /\ t.resumed = s.resumed /\ t.done = s.done /\ t.whole = s.whole
BY DEF SeenType

\* What TypeOK says of the parts a step leaves or changes by themselves.
LEMMA PartsAre ==
  ASSUME DebuggerTypeOK
  PROVE  /\ system \in {"classic", "next"} /\ cpu \in CpuType /\ left \in 0..FrameLength
         /\ slice \in [by : {"none", "frame", "step", "pause"}, armed : BOOLEAN]
         /\ IsList(points) /\ saved = [i \in DOMAIN points |-> Stored(points[i])]
         /\ debug \in DebugType /\ seen \in SeenType
         /\ cpu.tick \in Prefetch..Len(Program[cpu.at].accesses)
         /\ slice.by \in {"step", "pause"} <=> debug.stepping
BY DEF DebuggerTypeOK, IsList

LEMMA PartsMake ==
  ASSUME system' \in {"classic", "next"}, cpu' \in CpuType, left' \in 0..FrameLength,
         slice' \in [by : {"none", "frame", "step", "pause"}, armed : BOOLEAN],
         IsList(points)', saved' = [i \in DOMAIN points' |-> Stored(points'[i])],
         debug' \in DebugType, seen' \in SeenType,
         cpu'.tick \in Prefetch..Len(Program[cpu'.at].accesses),
         slice'.by \in {"step", "pause"} <=> debug'.stepping
  PROVE  DebuggerTypeOK'
BY DEF DebuggerTypeOK, IsList

\* Between slices only the first part of GoalsEnd says anything.
LEMMA IdleKeeps ==
  ASSUME DebuggerTypeOK', slice'.by = "none", ~seen'.whole, seen'.done = 0,
         debug'.paused => debug'.runTo = None, Passing'
  PROVE  DebugInv'
BY DEF DebugInv, GoalsEnd, Warned, Whole

LEMMA IdleIs ==
  ASSUME DebugInv, Between
  PROVE  ~seen.whole /\ seen.done = 0 /\ ~debug.stepping
         /\ slice.by = "none" /\ (debug.paused => debug.runTo = None)
BY DEF DebugInv, GoalsEnd, Whole, DebuggerTypeOK, Between

LEMMA CommandKeeps ==
  ASSUME DebugInv, Between, NEW d \in DebugType, ~d.stepping, d.paused => d.runTo = None,
         d.skip = debug.skip, Command(d)
  PROVE  DebugInv'
<1>1. DebuggerTypeOK'
  <2>1. ~debug.stepping /\ slice.by = "none"
    BY IdleIs
  <2>2. debug' = d
    BY DEF Command
  <2>3. UNCHANGED <<system, cpu, left, slice, points, saved, seen>>
    BY DEF Command
  <2> QED BY <2>1, <2>2, <2>3 DEF DebugInv, DebuggerTypeOK
<1>2. Passing'
  BY DEF DebugInv, Passing, Command
<1> QED BY <1>1, <1>2, IdleIs, IdleKeeps DEF Command

LEMMA SetGoingKeeps ==
  ASSUME DebugInv, Between, NEW d \in DebugType, ~d.stepping, d.paused => d.runTo = None,
         SetGoing(d)
  PROVE  DebugInv'
<1> DEFINE shown == seen.shown \/ (cpu.tick <= 0 /\ d.skip = cpu.at)
<1>1. ~debug.stepping /\ slice.by = "none" /\ seen \in SeenType /\ ~seen.whole /\ seen.done = 0
  BY IdleIs, PartsAre DEF DebugInv
<1>2. debug' = d /\ UNCHANGED <<system, cpu, left, slice, points, saved>>
      /\ seen' = [seen EXCEPT !.shown = shown, !.resumed = d.skip]
  BY DEF SetGoing
<1>3. shown \in BOOLEAN /\ d.skip \in Addresses \cup {None}
  BY <1>1 DEF SeenType, DebugType
<1> HIDE DEF shown
<1>4. seen' \in SeenType /\ ~seen'.whole /\ seen'.done = 0 /\ seen'.resumed = d.skip
  BY <1>1, <1>2, <1>3 DEF SeenType
<1>5. DebuggerTypeOK'
  BY <1>1, <1>2, <1>4 DEF DebugInv, DebuggerTypeOK
<1>6. Passing'
  BY <1>2, <1>4 DEF Passing
<1> QED BY <1>1, <1>2, <1>4, <1>5, <1>6, IdleKeeps

-----------------------------------------------------------------------------
(* The list of points.                                                     *)

LEMMA EditKeeps ==
  ASSUME DebugInv, NEW list, IsList(list), Edit(list)
  PROVE  DebugInv'
<1>1. DebuggerTypeOK'
  BY DEF DebugInv, DebuggerTypeOK, Edit, Save, IsList
<1>2. Passing'
  BY DEF DebugInv, Passing, Edit
<1> QED BY <1>1, <1>2, IdleIs, IdleKeeps DEF Edit

LEMMA AppendIsList ==
  ASSUME IsList(points), Len(points) < MaxPoints, NEW p \in PointType, p.hits = 0
  PROVE  IsList(Append(points, p))
<1> DEFINE n == Len(points)
<1>1. points \in Seq(PointType) /\ n \in Nat /\ DOMAIN points = 1..n
  BY DEF IsList
<1>2. /\ Append(points, p) \in Seq(PointType) /\ Len(Append(points, p)) = n + 1
      /\ DOMAIN Append(points, p) = 1..(n + 1)
      /\ \A i \in 1..(n + 1) : Append(points, p)[i] = IF i = n + 1 THEN p ELSE points[i]
  BY <1>1, AppendProperties
<1>3. p.hits <= p.target
  BY DEF PointType
<1>4. MaxPoints \in Nat
  BY InputsAssumption
<1> QED BY <1>1, <1>2, <1>3, <1>4 DEF IsList

LEMMA SimpleIs ==
  ASSUME NEW kind \in {"exec", "write"}, NEW a \in Addresses
  PROVE  Simple(kind, a) \in PointType /\ Simple(kind, a).hits = 0
BY DEF Simple, PointType, AnyValue

LEMMA RemovedIsList ==
  ASSUME IsList(points), NEW k \in DOMAIN points
  PROVE  IsList(RemoveAt(points, k))
<1> DEFINE n == Len(points)
           before == SubSeq(points, 1, k - 1)
           after == SubSeq(points, k + 1, n)
           removed == RemoveAt(points, k)
<1>1. points \in Seq(PointType) /\ n \in Nat /\ k \in 1..n /\ n <= MaxPoints
  BY DEF IsList
<1>2. removed = before \o after
  BY DEF RemoveAt
<1>3. /\ before \in Seq(PointType) /\ Len(before) = k - 1
      /\ \A i \in 1..(k - 1) : before[i] = points[i]
  BY <1>1
<1>4. /\ after \in Seq(PointType) /\ Len(after) = n - k
      /\ \A i \in 1..(n - k) : after[i] = points[k + i]
  BY <1>1
<1> HIDE DEF removed, before, after
<1>5. /\ removed \in Seq(PointType) /\ Len(removed) = n - 1
      /\ \A i \in 1..(n - 1) : removed[i] = IF i <= k - 1 THEN before[i] ELSE after[i - (k - 1)]
  <2>1. Len(before) + Len(after) = n - 1
    BY <1>1, <1>3, <1>4
  <2>2. /\ removed \in Seq(PointType) /\ Len(removed) = Len(before) + Len(after)
        /\ \A i \in 1..(Len(before) + Len(after)) :
              removed[i] = IF i <= Len(before) THEN before[i] ELSE after[i - Len(before)]
    BY <1>2, <1>3, <1>4, ConcatProperties, Zenon
  <2>3. Len(before) = k - 1
    BY <1>3
  <2> HIDE DEF n
  <2> QED BY <2>1, <2>2, <2>3
<1>6. \A i \in 1..(n - 1) : removed[i] = IF i < k THEN points[i] ELSE points[i + 1]
  <2> HIDE DEF n
  <2> TAKE i \in 1..(n - 1)
  <2>1. CASE i < k
    BY <1>1, <1>3, <1>5, <2>1
  <2>2. CASE ~(i < k)
    <3>1. PICK j \in 1..(n - k) : j = i - (k - 1)
      BY <1>1, <2>2
    <3>2. removed[i] = after[j]
      BY <1>1, <1>5, <2>2, <3>1
    <3>3. after[j] = points[k + j]
      BY <1>4
    <3>4. k + j = i + 1
      BY <1>1, <3>1
    <3> QED BY <2>2, <3>2, <3>3, <3>4
  <2> QED BY <2>1, <2>2
<1>7. \A i \in 1..(n - 1) : removed[i].hits <= removed[i].target
  BY <1>1, <1>6 DEF IsList
<1>8. DOMAIN removed = 1..(n - 1)
  BY <1>1, <1>5
<1>9. MaxPoints \in Nat /\ n - 1 <= MaxPoints
  BY <1>1, InputsAssumption
<1> HIDE DEF n
<1>10. IsList(removed)
  BY <1>5, <1>7, <1>8, <1>9 DEF IsList
<1> QED BY <1>10 DEF removed

LEMMA MarkedIsList ==
  ASSUME IsList(points), NEW S, NEW b \in BOOLEAN
  PROVE  /\ IsList([i \in DOMAIN points |->
                      [points[i] EXCEPT !.enabled = IF i \in S THEN b ELSE @]])
         /\ IsList([i \in DOMAIN points |->
                      [points[i] EXCEPT !.hits = IF i \in S THEN 0 ELSE @]])
<1> DEFINE n == Len(points)
           enabled(i) == [points[i] EXCEPT !.enabled = IF i \in S THEN b ELSE @]
           reset(i) == [points[i] EXCEPT !.hits = IF i \in S THEN 0 ELSE @]
<1>1. points \in Seq(PointType) /\ n \in Nat /\ DOMAIN points = 1..n /\ n <= MaxPoints
  BY DEF IsList
<1>2. \A i \in 1..n : points[i] \in PointType /\ points[i].hits <= points[i].target
  BY <1>1, ElementOfSeq DEF IsList
<1>3. \A i \in 1..n : enabled(i) \in PointType /\ enabled(i).hits <= enabled(i).target
  BY <1>2 DEF PointType
<1>4. \A i \in 1..n : reset(i) \in PointType /\ reset(i).hits <= reset(i).target
  BY <1>2 DEF PointType
<1> HIDE DEF enabled, reset
<1>5. IsList([i \in 1..n |-> enabled(i)])
  BY <1>1, <1>3 DEF IsList
<1>6. IsList([i \in 1..n |-> reset(i)])
  BY <1>1, <1>4 DEF IsList
<1> QED BY <1>1, <1>5, <1>6 DEF enabled, reset

LEMMA PointsKeep ==
  ASSUME DebugInv, Points
  PROVE  DebugInv'
<1>1. IsList(points)
  BY PartsAre DEF DebugInv
<1>2. ASSUME NEW p \in PointInputs, AddPoint(p) PROVE DebugInv'
  <2>1. p \in PointType /\ p.hits = 0
    BY InputsAssumption
  <2>2. IsList(Append(points, p))
    BY <1>1, <1>2, <2>1, AppendIsList DEF AddPoint
  <2> QED BY <1>2, <2>2, EditKeeps DEF AddPoint
<1>3. ASSUME NEW a \in AddressInputs, NEW kind \in {"exec", "write"}, TogglePoint(kind, a)
      PROVE  DebugInv'
  <2> DEFINE Test(p) == p.kind = kind /\ p.start = a /\ p.end = a
             k == SelectInSeq(points, LAMBDA p : Test(p))
  <2>1. CASE k # 0 /\ Edit(RemoveAt(points, k))
    <3>1. k \in DOMAIN points
      <4> DEFINE I == {i \in 1..Len(points) : Test(points[i])}
      <4>1. points \in Seq(PointType) /\ DOMAIN points = 1..Len(points)
        BY <1>1 DEF IsList
      <4>2. k = IF I # {} THEN Min(I) ELSE 0
        BY DEF SelectInSeq
      <4> HIDE DEF k
      <4>3. I # {} /\ k = Min(I)
        BY <2>1, <4>2
      <4>4. I \in SUBSET Nat
        OBVIOUS
      <4> HIDE DEF I
      <4>5. Min(I) \in I
        BY <4>3, <4>4, LeastIn DEF Min
      <4> QED BY <4>1, <4>3, <4>5 DEF I
    <3> QED BY <1>1, <2>1, <3>1, RemovedIsList, EditKeeps
  <2>2. CASE k = 0 /\ Len(points) < MaxPoints /\ Edit(Append(points, Simple(kind, a)))
    <3>1. a \in Addresses
      BY InputsAssumption
    <3> QED BY <1>1, <2>2, <3>1, SimpleIs, AppendIsList, EditKeeps
  <2> QED BY <1>3, <2>1, <2>2 DEF TogglePoint
<1>4. CASE DeletePoints
  <2>1. IsList(<<>>)
    BY InputsAssumption DEF IsList
  <2> QED BY <1>4, <2>1, EditKeeps DEF DeletePoints
<1>5. ASSUME NEW i \in DOMAIN points, DeletePoint(i) PROVE DebugInv'
  BY <1>1, <1>5, RemovedIsList, EditKeeps DEF DeletePoint
<1>6. ASSUME NEW S, ResetHits(S) PROVE DebugInv'
  BY <1>1, <1>6, MarkedIsList, EditKeeps DEF ResetHits
<1>7. ASSUME NEW S, NEW b \in BOOLEAN, EnablePoints(S, b) PROVE DebugInv'
  BY <1>1, <1>7, MarkedIsList, EditKeeps DEF EnablePoints
<1> QED BY <1>2, <1>3, <1>4, <1>5, <1>6, <1>7 DEF Points

-----------------------------------------------------------------------------
(* Commands.                                                               *)

\* A slice begins: the step that is whole has its instruction before it.
LEMMA BeginSliceKeeps ==
  ASSUME DebugInv, Between, NEW by \in {"step", "pause"}, BeginSlice(by, TRUE),
         debug' \in DebugType, debug'.paused, debug'.stepping, debug'.runTo = None,
         ~debug'.stopRequested, debug'.skip = debug.skip, UNCHANGED <<system, cpu, points, saved>>
  PROVE  DebugInv'
<1> USE DEF DebugInv
<1>1. seen' \in SeenType
      /\ seen'.done = 0 /\ (seen'.whole <=> by = "step" /\ AtBoundary)
      /\ seen'.resumed = seen.resumed
  <2>1. seen \in SeenType /\ seen.done = 0
    BY IdleIs, PartsAre
  <2> DEFINE passed == seen.passed \/ (AtBoundary /\ seen.resumed = cpu.at)
             whole == by = "step" /\ AtBoundary
  <2>2. passed \in BOOLEAN /\ whole \in BOOLEAN
    BY <2>1 DEF SeenType
  <2>3. seen' = [seen EXCEPT !.passed = passed, !.whole = whole]
    BY DEF BeginSlice
  <2> HIDE DEF passed, whole
  <2>4. seen' \in SeenType /\ seen'.done = seen.done /\ seen'.whole = whole
        /\ seen'.resumed = seen.resumed
    BY <2>1, <2>2, <2>3 DEF SeenType
  <2> QED BY <2>1, <2>4 DEF whole
<1>2. slice' = [by |-> by, armed |-> TRUE]
      /\ left' = IF system = "classic" THEN FrameLength ELSE left
  BY DEF BeginSlice
<1>3. DebuggerTypeOK'
  <2>1. left' \in 0..FrameLength /\ slice' \in [by : {"none", "frame", "step", "pause"}, armed : BOOLEAN]
    BY <1>2, PartsAre, LengthAssumption
  <2>2. slice'.by \in {"step", "pause"}
    BY <1>2
  <2>3. cpu' \in CpuType /\ cpu'.tick \in Prefetch..Len(Program[cpu'.at].accesses)
        /\ system' \in {"classic", "next"}
        /\ IsList(points)' /\ saved' = [i \in DOMAIN points' |-> Stored(points'[i])]
    <3>1. cpu' = cpu /\ system' = system /\ points' = points /\ saved' = saved
      OBVIOUS
    <3> QED BY <3>1, PartsAre DEF IsList
  <2> QED BY <1>1, <2>1, <2>2, <2>3, PartsMake
<1>4. GoalsEnd' /\ Warned' /\ Passing'
  BY <1>1, <1>2 DEF GoalsEnd, Warned, Passing
<1>5. Whole'
  <2>1. seen'.whole => InIt'
    <3> SUFFICES ASSUME seen'.whole PROVE InIt'
      OBVIOUS
    <3>1. cpu'.tick = 0 /\ cpu' = cpu /\ system' = system
      BY <1>1 DEF AtBoundary
    <3>2. cpu.at \in Addresses
      BY PcIs
    <3>3. Len(Program[cpu.at].accesses) \in Nat
          /\ Len(Program[cpu.at].accesses) + 2 <= FrameLength /\ FrameLength \in Nat
      BY <3>2, ProgramIs, LengthAssumption
    <3>4. StallsLeft' \in {0, 1}
      BY DEF StallsLeft
    <3>5. system' = "classic" =>
            left' >= Len(Program[cpu'.at].accesses) - cpu'.tick + 1 + StallsLeft'
      <4> HIDE DEF DebugInv
      <4> QED BY <1>2, <3>1, <3>3, <3>4
    <3> QED BY <1>1, <3>1, <3>5 DEF InIt, Prefetch
  <2> QED BY <1>1, <1>2, <2>1 DEF Whole
<1> QED BY <1>3, <1>4, <1>5

LEMMA PauseKeeps ==
  ASSUME DebugInv, Pause
  PROVE  DebugInv'
<1>1. debug \in DebugType /\ Cleared(debug) \in DebugType /\ AtBoundary \in BOOLEAN
  BY PartsAre, ClearedIs DEF DebugInv, AtBoundary
<1>2. debug' = [Cleared(debug) EXCEPT !.paused = TRUE, !.stepping = ~AtBoundary,
                                     !.runTo = None, !.stepOut = None,
                                     !.leftBoundary = ~AtBoundary]
  BY DEF Pause
<1>3. debug' \in DebugType /\ debug'.paused /\ debug'.runTo = None
      /\ debug'.stepping = ~AtBoundary /\ ~debug'.stopRequested /\ debug'.skip = debug.skip
  <2>1. ~Cleared(debug).stopRequested /\ Cleared(debug).skip = debug.skip
    BY <1>1, ClearedIs
  <2> HIDE DEF AtBoundary
  <2> QED BY <1>1, <1>2, <2>1 DEF DebugType
<1>4. CASE AtBoundary
  <2>1. seen' = [seen EXCEPT !.shown = TRUE] /\ UNCHANGED <<left, slice, system, cpu, points, saved>>
    BY <1>4 DEF Pause
  <2>2. seen' \in SeenType /\ ~seen'.whole /\ seen'.done = 0 /\ seen'.resumed = seen.resumed
    BY <2>1, IdleIs, PartsAre, ShownIs DEF DebugInv, Pause
  <2>3. ~debug'.stepping /\ slice'.by = "none" /\ slice.by = "none"
    BY <1>3, <1>4, <2>1, IdleIs DEF Pause
  <2>4. DebuggerTypeOK'
    BY <1>3, <2>1, <2>2, <2>3 DEF DebugInv, DebuggerTypeOK
  <2>5. Passing'
    BY <1>3, <2>2 DEF DebugInv, Passing
  <2> QED BY <1>3, <2>2, <2>3, <2>4, <2>5, IdleKeeps
<1>5. CASE ~AtBoundary
  BY <1>3, <1>5, BeginSliceKeeps DEF Pause
<1> QED BY <1>4, <1>5

LEMMA StepKeeps ==
  ASSUME DebugInv, Step
  PROVE  DebugInv'
<1>1. Cleared(debug) \in DebugType /\ ~Cleared(debug).stopRequested
      /\ Cleared(debug).skip = debug.skip
  BY PartsAre, ClearedIs DEF DebugInv
<1>2. debug' \in DebugType /\ debug'.paused /\ debug'.stepping /\ debug'.runTo = None
      /\ ~debug'.stopRequested /\ debug'.skip = debug.skip
  BY <1>1 DEF Step, DebugType
<1> QED BY <1>2, BeginSliceKeeps DEF Step

LEMMA ResumesKeep ==
  ASSUME DebugInv, Resume \/ StepOver \/ StepOut
  PROVE  DebugInv'
<1>1. DebuggerTypeOK /\ Resumed \in DebugType /\ ~Resumed.paused /\ ~Resumed.stepping
  BY ResumedIs DEF DebugInv
<1>2. CurrentPc \in Addresses /\ cpu.sp \in Values
  BY <1>1, PcIs
<1>3. CASE Resume
  BY <1>1, <1>3, SetGoingKeeps DEF Resume
<1>4. CASE StepOver
  <2> DEFINE to == (CurrentPc + Program[CurrentPc].length) % AddressTop
             d == [Resumed EXCEPT !.runTo = to, !.skip = CurrentPc]
  <2>1. to \in Addresses
    <3>1. CurrentPc \in Int /\ Program[CurrentPc].length \in Nat
      BY <1>2, ProgramIs, ProgramAssumption DEF Addresses
    <3> QED BY <3>1, WrapsTo
  <2> HIDE DEF to
  <2>2. d \in DebugType /\ ~d.paused /\ ~d.stepping
    BY <1>1, <1>2, <2>1 DEF DebugType
  <2>3. Between /\ SetGoing(d)
    BY <1>4 DEF StepOver, to
  <2> QED BY <2>2, <2>3, SetGoingKeeps
<1>5. CASE StepOut
  <2> DEFINE d == [Resumed EXCEPT !.stepOut = cpu.sp, !.runTo = None]
  <2>1. d \in DebugType /\ ~d.paused /\ ~d.stepping
    BY <1>1, <1>2 DEF DebugType
  <2>2. Between /\ SetGoing(d)
    BY <1>5 DEF StepOut
  <2> QED BY <2>1, <2>2, SetGoingKeeps
<1> QED BY <1>3, <1>4, <1>5

LEMMA RunToKeeps ==
  ASSUME DebugInv, NEW a \in Addresses, RunTo(a)
  PROVE  DebugInv'
<1>1. CASE /\ debug' = [Cleared(debug) EXCEPT !.paused = TRUE, !.runTo = None, !.runToHit = TRUE]
           /\ seen' = [seen EXCEPT !.shown = TRUE]
           /\ UNCHANGED <<system, cpu, left, slice, points, saved>>
  <2>1. Cleared(debug) \in DebugType /\ Cleared(debug).stepping = debug.stepping
        /\ Cleared(debug).skip = debug.skip
    BY PartsAre, ClearedIs DEF DebugInv
  <2>2. debug' \in DebugType /\ debug'.paused /\ debug'.runTo = None /\ debug'.stepping = debug.stepping
        /\ debug'.skip = debug.skip
    BY <1>1, <2>1 DEF DebugType
  <2>3. seen' \in SeenType /\ ~seen'.whole /\ seen'.done = 0 /\ seen'.resumed = seen.resumed
    BY <1>1, IdleIs, PartsAre, ShownIs DEF DebugInv, RunTo
  <2>4. DebuggerTypeOK'
    BY <1>1, <2>2, <2>3 DEF DebugInv, DebuggerTypeOK
  <2>5. Passing'
    BY <2>2, <2>3 DEF DebugInv, Passing
  <2> QED BY <1>1, <2>2, <2>3, <2>4, <2>5, IdleIs, IdleKeeps DEF RunTo
<1>2. CASE SetGoing([Resumed EXCEPT !.runTo = a])
  <2> DEFINE d == [Resumed EXCEPT !.runTo = a]
  <2>1. d \in DebugType /\ ~d.paused /\ ~d.stepping
    BY ResumedIs DEF DebugInv, DebugType
  <2> QED BY <1>2, <2>1, SetGoingKeeps DEF RunTo
<1> QED BY <1>1, <1>2 DEF RunTo

LEMMA JumpedIs ==
  ASSUME DebuggerTypeOK, NEW a \in Addresses
  PROVE  /\ Jumped(a) \in CpuType
         /\ Jumped(a).tick \in Prefetch..Len(Program[Jumped(a).at].accesses)
<1>1. cpu \in CpuType
  BY DEF DebuggerTypeOK
<1>2. Jumped(a) \in CpuType
  <2>1. Prefetch \in Int
    BY DEF Prefetch
  <2> HIDE DEF Prefetch
  <2> QED BY <1>1, <2>1 DEF Jumped, CpuType
<1>4. Jumped(a).tick = Prefetch /\ Jumped(a).at = a
  BY <1>1 DEF Jumped, CpuType
<1>3. Prefetch \in Prefetch..Len(Program[a].accesses)
  BY ProgramIs DEF Prefetch
<1> QED BY <1>2, <1>3, <1>4

LEMMA RunFromKeeps ==
  ASSUME DebugInv, NEW a \in Addresses, RunFrom(a)
  PROVE  DebugInv'
<1>1. debug' \in DebugType /\ ~debug'.paused /\ ~debug'.stepping
  BY ResumedIs DEF DebugInv, DebugType, RunFrom
<1>2. cpu' \in CpuType /\ cpu'.tick \in Prefetch..Len(Program[cpu'.at].accesses)
  BY JumpedIs DEF DebugInv, RunFrom
<1>3. UNCHANGED <<system, left, slice, points, saved>> /\ slice.by = "none"
  BY IdleIs DEF RunFrom
<1>4. seen' \in SeenType /\ ~seen'.whole /\ seen'.done = 0 /\ seen'.resumed = a
  <2>1. seen \in SeenType /\ ~seen.whole /\ seen.done = 0
    BY IdleIs, PartsAre DEF DebugInv, RunFrom
  <2>2. seen' = [seen EXCEPT !.shown = TRUE, !.resumed = a]
    BY DEF RunFrom
  <2> QED BY <2>1, <2>2 DEF SeenType
<1>5. DebuggerTypeOK'
  BY <1>1, <1>2, <1>3, <1>4 DEF DebugInv, DebuggerTypeOK
<1>6. Passing'
  <2>1. debug'.skip = a
    BY ResumedIs DEF DebugInv, DebugType, RunFrom
  <2> QED BY <1>4, <2>1 DEF Passing
<1> QED BY <1>1, <1>3, <1>4, <1>5, <1>6, IdleKeeps

LEMMA SetRegisterKeeps ==
  ASSUME DebugInv, NEW r \in RegisterInputs, SetRegister(r)
  PROVE  DebugInv'
<1> DEFINE v == Evaluate(r.e, 0, 0)
<1>1. r.name \in {"SP", "PC"} /\ r.e \in Expressions
  BY InputsAssumption
<1>2. cpu \in CpuType /\ cpu.sp \in Int
  BY PartsAre, ProgramAssumption DEF DebugInv, CpuType, Values
<1>3. v.value \in Int
  BY <1>1, <1>2, EvaluateIs DEF Results
<1>4. v.value % ValueTop \in Values /\ v.value % AddressTop \in Addresses
  BY <1>3, WrapsTo
<1>5. cpu' = CASE r.name = "SP" -> [cpu EXCEPT !.sp = v.value % ValueTop]
               [] r.name = "PC" -> Jumped(v.value % AddressTop)
  BY DEF SetRegister
<1> HIDE DEF v
<1>6. cpu' \in CpuType /\ cpu'.tick \in Prefetch..Len(Program[cpu'.at].accesses)
  <2>1. CASE r.name = "SP"
    <3>1. cpu' = [cpu EXCEPT !.sp = v.value % ValueTop]
      BY <1>5, <2>1
    <3>2. cpu' \in CpuType /\ cpu'.tick = cpu.tick /\ cpu'.at = cpu.at
      BY <1>2, <1>4, <3>1 DEF CpuType
    <3> QED BY <3>2, PartsAre DEF DebugInv
  <2>2. CASE r.name = "PC"
    <3>1. cpu' = Jumped(v.value % AddressTop)
      BY <1>5, <2>2
    <3> QED BY <1>4, <3>1, JumpedIs DEF DebugInv
  <2> QED BY <1>1, <2>1, <2>2
<1>7. UNCHANGED <<system, left, slice, points, saved, debug>>
  BY DEF SetRegister
<1>8. seen' \in SeenType /\ seen'.whole = seen.whole /\ seen'.done = seen.done
      /\ seen'.resumed = seen.resumed
  <2> DEFINE shown == seen.shown /\ r.name # "PC"
  <2>1. seen \in SeenType /\ shown \in BOOLEAN
    BY PartsAre DEF DebugInv
  <2>2. seen' = [seen EXCEPT !.shown = shown]
    BY DEF SetRegister
  <2> HIDE DEF shown
  <2> QED BY <2>1, <2>2, ShownIs
<1>9. DebuggerTypeOK'
  BY <1>6, <1>7, <1>8 DEF DebugInv, DebuggerTypeOK
<1>10. Passing'
  BY <1>7, <1>8 DEF DebugInv, Passing
<1> QED BY <1>7, <1>8, <1>9, <1>10, IdleIs, IdleKeeps DEF SetRegister

LEMMA WindowKeeps ==
  ASSUME DebugInv, OpenWindow \/ CloseWindow
  PROVE  DebugInv'
<1>1. debug \in DebugType
  BY PartsAre DEF DebugInv
<1>2. CASE OpenWindow
  <2> DEFINE d == [debug EXCEPT !.open = TRUE]
  <2>1. Between /\ Command(d)
    BY <1>2 DEF OpenWindow
  <2>2. d \in DebugType /\ ~d.stepping /\ (d.paused => d.runTo = None) /\ d.skip = debug.skip
    BY <1>1, <2>1, IdleIs DEF DebugType
  <2> QED BY <2>1, <2>2, CommandKeeps
<1>3. CASE CloseWindow
  <2> DEFINE d == [debug EXCEPT !.open = FALSE, !.paused = FALSE, !.stepping = FALSE,
                           !.stopRequested = FALSE, !.runTo = None, !.runToHit = FALSE,
                           !.stepOut = None]
  <2>1. Between /\ Command(d)
    BY <1>3 DEF CloseWindow
  <2>2. d \in DebugType /\ ~d.stepping /\ ~d.paused /\ d.skip = debug.skip
    BY <1>1 DEF DebugType
  <2> QED BY <2>1, <2>2, CommandKeeps
<1> QED BY <1>2, <1>3

LEMMA StartIs ==
  /\ ResetCpu \in CpuType /\ ResetCpu.tick \in Prefetch..Len(Program[ResetCpu.at].accesses)
  /\ NoDebug \in DebugType /\ NothingSeen \in SeenType
  /\ FrameLength \in 0..FrameLength
<1>1. 0 \in Addresses /\ 0 \in Values
  BY ProgramAssumption DEF Addresses, Values
<1>2. Len(Program[0].accesses) \in Nat
  BY <1>1, ProgramIs
<1>3. ResetCpu \in CpuType /\ ResetCpu.tick \in Prefetch..Len(Program[ResetCpu.at].accesses)
  BY <1>1, <1>2 DEF ResetCpu, CpuType, Prefetch
<1> QED BY <1>3, LengthAssumption DEF NoDebug, DebugType, NothingSeen, SeenType

LEMMA MachineChangedKeeps ==
  ASSUME DebugInv, MachineChanged
  PROVE  DebugInv'
<1>1. Cleared(debug) \in DebugType /\ DebuggerTypeOK /\ slice.by = "none"
  BY PartsAre, ClearedIs, IdleIs DEF DebugInv, MachineChanged
<1>2. debug' \in DebugType /\ ~debug'.stepping /\ debug'.runTo = None /\ debug'.skip = None
  BY <1>1 DEF MachineChanged, DebugType
<1>3. /\ system' \in {"classic", "next"} /\ cpu' = ResetCpu /\ left' = FrameLength
      /\ seen' = NothingSeen /\ UNCHANGED <<slice, points, saved>>
  BY DEF MachineChanged
<1>4. DebuggerTypeOK'
  BY <1>1, <1>2, <1>3, StartIs DEF DebuggerTypeOK
<1>5. Passing'
  BY <1>2 DEF Passing
<1> QED BY <1>1, <1>2, <1>3, <1>4, <1>5, IdleKeeps DEF NothingSeen

LEMMA RestartKeeps ==
  ASSUME DebugInv, Restart
  PROVE  DebugInv'
<1> DEFINE n == Len(points)
<1>1. IsList(points) /\ saved = [i \in DOMAIN points |-> Stored(points[i])] /\ slice.by = "none"
      /\ slice \in [by : {"none", "frame", "step", "pause"}, armed : BOOLEAN]
  BY PartsAre, IdleIs DEF DebugInv, Restart
<1>2. points \in Seq(PointType) /\ n \in Nat /\ DOMAIN points = 1..n /\ n <= MaxPoints
  BY <1>1 DEF IsList
<1>3. \A i \in 1..n : /\ Stored(points[i]) \in PointType
                      /\ Stored(points[i]).hits <= Stored(points[i]).target
                      /\ Stored(Stored(points[i])) = Stored(points[i])
  <2>1. \A i \in 1..n : points[i] \in PointType
    BY <1>2, ElementOfSeq
  <2>2. ASSUME NEW p \in PointType
        PROVE  Stored(p) \in PointType /\ Stored(p).hits <= Stored(p).target
               /\ Stored(Stored(p)) = Stored(p)
    <3>1. Stored(p) \in PointType /\ Stored(p).hits = 0 /\ Stored(p).target \in Nat
      BY DEF PointType, Stored
    <3>2. Stored(Stored(p)) = Stored(p)
      BY DEF PointType, Stored
    <3> QED BY <3>1, <3>2
  <2> QED BY <2>1, <2>2
<1>4. DOMAIN saved = 1..n /\ saved \in Seq(PointType) /\ Len(saved) = n
      /\ \A i \in 1..n : saved[i] = Stored(points[i])
  <2>1. saved = [i \in 1..n |-> Stored(points[i])]
    BY <1>1, <1>2
  <2> HIDE DEF n
  <2> QED BY <1>2, <1>3, <2>1
<1> HIDE DEF n
<1>5. IsList(saved)
  BY <1>2, <1>3, <1>4 DEF IsList
<1>6. saved = [i \in DOMAIN saved |-> Stored(saved[i])]
  <2>1. saved = [i \in DOMAIN saved |-> saved[i]]
    BY <1>4
  <2>2. \A i \in DOMAIN saved : Stored(saved[i]) = saved[i]
    BY <1>3, <1>4
  <2> QED BY <2>1, <2>2
<1>7. /\ system' = "classic" /\ cpu' = ResetCpu /\ left' = FrameLength
      /\ points' = saved /\ debug' = NoDebug /\ seen' = NothingSeen /\ UNCHANGED <<slice, saved>>
  BY DEF Restart
<1>8. IsList(points)' /\ saved' = [i \in DOMAIN points' |-> Stored(points'[i])]
  BY <1>5, <1>6, <1>7 DEF IsList
<1>9. DebuggerTypeOK'
  <2>1. slice'.by = "none" /\ ~debug'.stepping
    BY <1>1, <1>7 DEF NoDebug
  <2> QED BY <1>1, <1>7, <1>8, <2>1, StartIs, PartsMake
<1>10. Passing'
  BY <1>7 DEF Passing, NoDebug
<1> QED BY <1>1, <1>7, <1>9, <1>10, IdleKeeps DEF NothingSeen, NoDebug

LEMMA InitInv ==
  ASSUME InitDebugger
  PROVE  DebugInv
<1>1. DebuggerTypeOK
  <2>1. saved = [i \in DOMAIN points |-> Stored(points[i])]
    BY DEF InitDebugger
  <2> QED BY <2>1, StartIs, InputsAssumption DEF InitDebugger, DebuggerTypeOK, Idle, NoDebug
<1> QED BY <1>1 DEF InitDebugger, DebugInv, GoalsEnd, Warned, Whole, Passing, NoDebug, NothingSeen, Idle

LEMMA CommandsKeep ==
  ASSUME DebugInv, Commands
  PROVE  DebugInv'
<1>1. AddressInputs \subseteq Addresses
  BY InputsAssumption
<1> QED BY <1>1, ResumesKeep, PauseKeeps, StepKeeps, RunToKeeps, RunFromKeeps, SetRegisterKeeps
        DEF Commands

-----------------------------------------------------------------------------
(* The hook behind a tick.                                                 *)

LEMMA CountsNone ==
  ASSUME IsList(points)
  PROVE  CountsOnly(points, points)
<1>1. \A i \in DOMAIN points : points[i] \in PointType
  BY ElementOfSeq DEF IsList
<1>2. ASSUME NEW p \in PointType PROVE \E n \in Nat : p = [p EXCEPT !.hits = n]
  <2>1. p.hits \in Nat /\ p = [p EXCEPT !.hits = p.hits]
    BY DEF PointType
  <2> QED BY <2>1
<1> QED BY <1>1, <1>2 DEF CountsOnly

\* What the hook leaves alone: whether the machine is stepped or paused, the
\* points but their counts, and an address to run to while nothing is hit.
HookKeeps ==
  /\ debug' \in DebugType /\ IsList(points)' /\ CountsOnly(points, points')
  /\ debug'.open = debug.open /\ debug'.paused = debug.paused
  /\ debug'.stepping = debug.stepping
  /\ \/ debug'.runTo = None
     \/ /\ debug'.runTo = debug.runTo /\ debug'.pointHit = debug.pointHit
        /\ debug'.runToHit = debug.runToHit

LEMMA MatchedList ==
  ASSUME IsList(points), NEW kind, NEW address, NEW value,
         points' \in {points, MatchPoint(kind, address, value).points}
  PROVE  IsList(points)' /\ CountsOnly(points, points')
<1>1. CASE points' = points
  BY <1>1, CountsNone DEF IsList
<1>2. CASE points' = MatchPoint(kind, address, value).points
  <2> DEFINE list == MatchPoint(kind, address, value).points
  <2>1. IsList(list) /\ CountsOnly(points, list)
    BY MatchIs
  <2> HIDE DEF list
  <2>2. points' = list
    BY <1>2 DEF list
  <2> QED BY <2>1, <2>2 DEF IsList
<1> QED BY <1>1, <1>2

LEMMA NoHook ==
  ASSUME DebuggerTypeOK, UNCHANGED <<points, debug>>
  PROVE  HookKeeps
BY PartsAre, CountsNone DEF HookKeeps, IsList

LEMMA DebugFields ==
  ASSUME NEW d \in DebugType
  PROVE  /\ d.open \in BOOLEAN /\ d.paused \in BOOLEAN /\ d.stepping \in BOOLEAN
         /\ d.stopRequested \in BOOLEAN /\ d.pointHit \in BOOLEAN /\ d.runToHit \in BOOLEAN
         /\ d.pending \in BOOLEAN /\ d.leftBoundary \in BOOLEAN
         /\ d.runTo \in Addresses \cup {None} /\ d.stepOut \in Values \cup {None}
         /\ d.skip \in Addresses \cup {None}
BY DEF DebugType

\* d and e differ in what an access leaves: whether one is pending and whether
\* the instruction that was stepped to has left its first tick.
FlagsOnly(d, e, c) ==
  /\ e \in DebugType /\ e.open = d.open /\ e.paused = d.paused
  /\ e.stepping = d.stepping /\ e.runTo = d.runTo
  /\ e.pointHit = d.pointHit /\ e.runToHit = d.runToHit
  /\ e.stopRequested = d.stopRequested /\ e.leftBoundary = c /\ e.skip = d.skip

LEMMA FlagsOf ==
  ASSUME NEW d \in DebugType, NEW p \in BOOLEAN, NEW c \in BOOLEAN, NEW e,
         e = [d EXCEPT !.pending = p, !.leftBoundary = c]
  PROVE  FlagsOnly(d, e, c)
<1>2. e = [open |-> d.open, paused |-> d.paused, stepping |-> d.stepping,
             stopRequested |-> d.stopRequested, pointHit |-> d.pointHit, runToHit |-> d.runToHit,
             pending |-> p, leftBoundary |-> c, runTo |-> d.runTo,
             stepOut |-> d.stepOut, skip |-> d.skip]
  BY Zenon DEF DebugType
<1>3. e \in DebugType
  BY <1>2, DebugFields DEF DebugType
<1> QED BY <1>2, <1>3 DEF FlagsOnly

LEMMA SeesAccessIs ==
  ASSUME DebuggerTypeOK, NEW x \in AccessType, SeesAccess(x)
  PROVE  /\ HookKeeps
         /\ debug'.stopRequested = debug.stopRequested /\ debug'.skip = debug.skip
         /\ debug.stepping => debug'.leftBoundary
<1> DEFINE m == MatchPoint(x.kind, x.address, x.value)
           looks == x.kind # "idle" /\ ~debug.pending
<1>1. IsList(points) /\ debug \in DebugType
  BY PartsAre
<1>2. points' \in {points, m.points}
  BY DEF SeesAccess
<1>3. IsList(points)' /\ CountsOnly(points, points')
  BY <1>1, <1>2, MatchedList
<1>4. debug' = [debug EXCEPT !.pending = @ \/ (looks /\ m.index # 0),
                            !.leftBoundary = @ \/ debug.stepping]
  BY DEF SeesAccess
<1> DEFINE pending == debug.pending \/ (looks /\ m.index # 0)
           crossed == debug.leftBoundary \/ debug.stepping
<1>5. pending \in BOOLEAN
  BY <1>1 DEF DebugType
<1>6. crossed \in BOOLEAN /\ crossed = (debug.leftBoundary \/ debug.stepping)
  BY <1>1 DEF DebugType
<1>7. debug' = [debug EXCEPT !.pending = pending, !.leftBoundary = crossed]
  BY <1>1, <1>4 DEF DebugType
<1> HIDE DEF pending, crossed
<1>8. FlagsOnly(debug, debug', crossed)
  BY <1>1, <1>5, <1>6, <1>7, FlagsOf, Zenon
<1>9. debug.stepping => debug'.leftBoundary
  BY <1>6, <1>8 DEF FlagsOnly
<1> QED BY <1>3, <1>8, <1>9 DEF HookKeeps, FlagsOnly

LEMMA StopWithIs ==
  ASSUME NEW d \in DebugType
  PROVE  /\ StopWith(d) \in DebugType /\ StopWith(d).runTo = None /\ StopWith(d).stopRequested
         /\ StopWith(d).open = d.open /\ StopWith(d).paused = d.paused
         /\ StopWith(d).stepping = d.stepping /\ StopWith(d).skip = d.skip
<1>1. PICK half : half = [d EXCEPT !.pointHit = TRUE, !.runTo = None]
  OBVIOUS
<1>2. half =
        [open |-> d.open, paused |-> d.paused, stepping |-> d.stepping,
         stopRequested |-> d.stopRequested, pointHit |-> TRUE, runToHit |-> d.runToHit,
         pending |-> d.pending, leftBoundary |-> d.leftBoundary, runTo |-> None,
         stepOut |-> d.stepOut, skip |-> d.skip]
  BY <1>1, Zenon DEF DebugType
<1>3. half \in DebugType
  BY <1>2, DebugFields DEF DebugType
<1>4. StopWith(d) = [half EXCEPT !.stepOut = None, !.stopRequested = TRUE]
  BY <1>1, Zenon DEF StopWith
<1>5. StopWith(d) =
        [open |-> half.open, paused |-> half.paused, stepping |-> half.stepping,
         stopRequested |-> TRUE, pointHit |-> half.pointHit, runToHit |-> half.runToHit,
         pending |-> half.pending, leftBoundary |-> half.leftBoundary, runTo |-> half.runTo,
         stepOut |-> None, skip |-> half.skip]
  BY <1>3, <1>4, Zenon DEF DebugType
<1>6. StopWith(d) \in DebugType
  BY <1>3, <1>5, DebugFields DEF DebugType
<1> QED BY <1>2, <1>5, <1>6

LEMMA ReachesRunToIs ==
  ASSUME NEW d \in DebugType, NEW a
  PROVE  LET e == ReachesRunTo(d, a)
         IN  /\ e \in DebugType /\ e.open = d.open /\ e.paused = d.paused
             /\ e.stepping = d.stepping /\ (d.stopRequested => e.stopRequested)
             /\ e.skip = d.skip
             /\ \/ e.runTo = None
                \/ e.runTo = d.runTo /\ e.pointHit = d.pointHit /\ e.runToHit = d.runToHit
<1> DEFINE e == ReachesRunTo(d, a)
<1>1. CASE d.runTo = a
  <2>1. e = [open |-> d.open, paused |-> d.paused, stepping |-> d.stepping,
             stopRequested |-> TRUE, pointHit |-> d.pointHit, runToHit |-> TRUE,
             pending |-> d.pending, leftBoundary |-> d.leftBoundary, runTo |-> None,
             stepOut |-> d.stepOut, skip |-> d.skip]
    BY <1>1, Zenon DEF ReachesRunTo, DebugType
  <2> HIDE DEF e
  <2>2. e \in DebugType
    BY <2>1, DebugFields DEF DebugType
  <2>3. e.open = d.open /\ e.paused = d.paused /\ e.stepping = d.stepping /\ e.stopRequested
        /\ e.runTo = None /\ e.skip = d.skip
    BY <2>1
  <2> QED BY <2>2, <2>3 DEF e
<1>2. CASE d.runTo # a
  <2>1. e = d
    BY <1>2 DEF ReachesRunTo
  <2> HIDE DEF e
  <2> QED BY <2>1 DEF e
<1> QED BY <1>1, <1>2

\* An instruction is complete: a watchpoint that was hit, a plain breakpoint
\* that is not passed, and a step that has left its boundary ask to stop.
LEMMA SeesInstructionIs ==
  ASSUME DebuggerTypeOK, NEW a \in Addresses, NEW sp \in Values, SeesInstruction(a, sp)
  PROVE  /\ HookKeeps
         /\ debug.pending => debug'.stopRequested
         /\ debug.stepping /\ debug.leftBoundary => debug'.stopRequested
         /\ PlainAt(a) /\ debug.skip # a => debug'.stopRequested
         /\ debug'.skip # a /\ debug'.skip \in {debug.skip, None}
<1> DEFINE skips == Skipping(debug, a)
           d == [debug EXCEPT !.skip = IF skips THEN None ELSE @]
           m == MatchPoint("exec", a, 0)
<1>1. IsList(points) /\ debug \in DebugType
  BY PartsAre
<1>2. /\ d \in DebugType /\ d.open = debug.open /\ d.paused = debug.paused
      /\ d.stepping = debug.stepping /\ d.leftBoundary = debug.leftBoundary
      /\ d.runTo = debug.runTo /\ d.pointHit = debug.pointHit /\ d.runToHit = debug.runToHit
      /\ d.skip # a /\ d.skip \in {debug.skip, None}
  <2>1. None # a
    BY ProgramAssumption DEF None, Addresses
  <2> QED BY <1>1, <2>1 DEF DebugType, Skipping
<1>3. PlainAt(a) /\ debug.skip # a => ~skips /\ m.index # 0
  <2> SUFFICES ASSUME PlainAt(a), debug.skip # a PROVE ~skips /\ m.index # 0
    OBVIOUS
  <2>1. PICK i \in DOMAIN points :
             points[i].kind = "exec" /\ Plain(points[i]) /\ Covers(points[i], a)
    BY DEF PlainAt
  <2>2. points \in Seq(PointType) /\ points[i] \in PointType
    BY <1>1, ElementOfSeq DEF IsList
  <2>3. Triggers(points[i], "exec", a, 0)
    BY <2>1, <2>2, PlainTriggers
  <2> QED BY <2>2, <2>3, MatchFinds DEF Skipping
<1>4. \/ /\ debug.pending
         /\ debug' = StopWith([d EXCEPT !.pending = FALSE]) /\ points' = points
      \/ /\ ~debug.pending /\ ~skips /\ m.index # 0
         /\ debug' = StopWith(d) /\ points' = m.points
      \/ /\ ~debug.pending /\ (skips \/ m.index = 0)
         /\ points' = IF skips THEN points ELSE m.points
         /\ debug' = IF LeavesRoutine(d, sp) THEN StopWith(ReachesRunTo(d, a))
                     ELSE [ReachesRunTo(d, a) EXCEPT
                             !.stopRequested = @ \/ (d.stepping /\ d.leftBoundary)]
  BY DEF SeesInstruction
<1>5. points' \in {points, m.points}
  BY <1>4
<1>6. IsList(points)' /\ CountsOnly(points, points')
  BY <1>1, <1>5, MatchedList
<1> HIDE DEF d, skips, m
<1>7. CASE debug.pending /\ debug' = StopWith([d EXCEPT !.pending = FALSE])
  <2> DEFINE e == [d EXCEPT !.pending = FALSE]
  <2>1. /\ e \in DebugType /\ e.open = debug.open /\ e.paused = debug.paused
        /\ e.stepping = debug.stepping /\ e.skip = d.skip
    BY <1>2 DEF DebugType
  <2> HIDE DEF e
  <2>2. debug' = StopWith(e)
    BY <1>7 DEF e
  <2> QED BY <1>2, <1>6, <2>1, <2>2, StopWithIs DEF HookKeeps
<1>8. CASE debug' = StopWith(d)
  BY <1>2, <1>6, <1>8, StopWithIs DEF HookKeeps
<1>9. CASE /\ ~debug.pending /\ (skips \/ m.index = 0)
           /\ debug' = IF LeavesRoutine(d, sp) THEN StopWith(ReachesRunTo(d, a))
                       ELSE [ReachesRunTo(d, a) EXCEPT
                               !.stopRequested = @ \/ (d.stepping /\ d.leftBoundary)]
  <2> DEFINE e == ReachesRunTo(d, a)
  <2>1. /\ e \in DebugType /\ e.open = debug.open /\ e.paused = debug.paused
        /\ e.stepping = debug.stepping /\ e.skip = d.skip
        /\ \/ e.runTo = None
           \/ e.runTo = debug.runTo /\ e.pointHit = debug.pointHit /\ e.runToHit = debug.runToHit
    BY <1>2, ReachesRunToIs
  <2> HIDE DEF e
  <2>2. CASE debug' = StopWith(e)
    BY <1>2, <1>6, <2>1, <2>2, StopWithIs DEF HookKeeps
  <2>3. CASE debug' = [e EXCEPT !.stopRequested = @ \/ (d.stepping /\ d.leftBoundary)]
    <3>1. /\ debug' \in DebugType /\ debug'.open = e.open /\ debug'.paused = e.paused
          /\ debug'.stepping = e.stepping /\ debug'.runTo = e.runTo /\ debug'.skip = e.skip
          /\ debug'.pointHit = e.pointHit /\ debug'.runToHit = e.runToHit
          /\ debug'.stopRequested = (e.stopRequested \/ (d.stepping /\ d.leftBoundary))
      BY <1>2, <2>1, <2>3 DEF DebugType
    <3>2. HookKeeps
      BY <1>6, <2>1, <3>1 DEF HookKeeps
    <3> QED BY <1>2, <1>3, <1>9, <2>1, <3>1, <3>2
  <2> QED BY <1>9, <2>2, <2>3 DEF e
<1> QED BY <1>4, <1>7, <1>8, <1>9

\* Points whose counts alone change are enabled and cover what they did.
LEMMA SamePoints ==
  ASSUME IsList(points), IsList(points)', CountsOnly(points, points')
  PROVE  /\ HasEnabledPoints' <=> HasEnabledPoints
         /\ \A a : PlainAt(a)' <=> PlainAt(a)
         /\ [i \in DOMAIN points' |-> Stored(points'[i])] = [i \in DOMAIN points |-> Stored(points[i])]
<1> DEFINE new == points'
<1>1. IsList(new)
  BY DEF IsList
<1> HIDE DEF new
<1>2. /\ DOMAIN new = DOMAIN points
      /\ [i \in DOMAIN new |-> Stored(new[i])] = [i \in DOMAIN points |-> Stored(points[i])]
      /\ \A i \in DOMAIN points : \A a :
           /\ new[i].kind = points[i].kind /\ new[i].enabled = points[i].enabled
           /\ Plain(new[i]) = Plain(points[i]) /\ Covers(new[i], a) = Covers(points[i], a)
  BY <1>1, CountsStored DEF new
<1>3. HasEnabledPoints' <=> HasEnabledPoints
  BY <1>2 DEF HasEnabledPoints, new
<1>4. ASSUME NEW a PROVE PlainAt(a)' <=> PlainAt(a)
  <2>1. PlainAt(a)' <=> \E i \in DOMAIN new : /\ new[i].kind = "exec" /\ Plain(new[i])
                                              /\ Covers(new[i], a)
    BY DEF PlainAt, Plain, Covers, new
  <2> QED BY <1>2, <2>1 DEF PlainAt
<1> QED BY <1>2, <1>3, <1>4 DEF new

-----------------------------------------------------------------------------
(* Slices.                                                                 *)

LEMMA BeginFrameKeeps ==
  ASSUME DebugInv, BeginFrame
  PROVE  DebugInv'
<1>1. DebuggerTypeOK /\ IsList(points) /\ debug \in DebugType /\ ~debug.paused /\ ~debug.stepping
      /\ slice.by = "none" /\ ~seen.whole /\ seen.done = 0
      /\ seen \in SeenType
  BY PartsAre, IdleIs DEF DebugInv, BeginFrame
<1>2. points' \in {points, MatchPoint("exec", cpu.at, 0).points}
  BY DEF BeginFrame
<1>3. IsList(points)' /\ CountsOnly(points, points')
  BY <1>1, <1>2, MatchedList
<1>4. /\ saved' = [i \in DOMAIN points' |-> Stored(points'[i])]
      /\ HasEnabledPoints' <=> HasEnabledPoints
      /\ \A a : PlainAt(a)' <=> PlainAt(a)
  BY <1>1, <1>3, PartsAre, SamePoints DEF BeginFrame
<1>5. /\ system' = system /\ cpu' = cpu
      /\ system' \in {"classic", "next"} /\ cpu' \in CpuType
      /\ cpu'.tick \in Prefetch..Len(Program[cpu'.at].accesses)
  BY <1>1, PartsAre DEF BeginFrame
<1>6. CASE /\ StopBefore
           /\ debug' = [debug EXCEPT !.pointHit = TRUE, !.runTo = None, !.stepOut = None,
                                     !.paused = TRUE]
           /\ seen' = [seen EXCEPT !.shown = TRUE]
           /\ UNCHANGED <<left, slice>>
  <2>1. debug' \in DebugType /\ debug'.runTo = None /\ ~debug'.stepping /\ debug'.skip = debug.skip
    BY <1>1, <1>6 DEF DebugType
  <2>2. seen' \in SeenType /\ ~seen'.whole /\ seen'.done = 0 /\ seen'.resumed = seen.resumed
    BY <1>1, <1>6, ShownIs
  <2>3. slice'.by = "none" /\ left' \in 0..FrameLength
        /\ slice' \in [by : {"none", "frame", "step", "pause"}, armed : BOOLEAN]
    BY <1>1, <1>6, PartsAre
  <2>4. DebuggerTypeOK'
    BY <1>3, <1>4, <1>5, <2>1, <2>2, <2>3, PartsMake
  <2>5. Passing'
    BY <2>1, <2>2 DEF DebugInv, Passing
  <2> QED BY <2>1, <2>2, <2>3, <2>4, <2>5, IdleKeeps
<1>7. CASE /\ ~StopBefore
           /\ debug' = IF system = "next" /\ ~debug.open THEN debug ELSE Cleared(debug)
           /\ BeginSlice("frame", debug.open /\
                            (HasEnabledPoints \/ debug.runTo # None \/ debug.stepOut # None))
  <2> DEFINE armed == debug.open /\
                        (HasEnabledPoints \/ debug.runTo # None \/ debug.stepOut # None)
  <2>1. /\ slice' = [by |-> "frame", armed |-> armed]
        /\ left' = IF system = "classic" THEN FrameLength ELSE left
        /\ seen' = [seen EXCEPT !.passed = @ \/ (AtBoundary /\ seen.resumed = cpu.at),
                                !.whole = "frame" = "step" /\ AtBoundary]
    BY <1>7 DEF BeginSlice
  <2>2. armed \in BOOLEAN /\ (debug.open /\ HasEnabledPoints => armed)
    BY <1>1 DEF DebugType
  <2> HIDE DEF armed
  <2>3. /\ seen' \in SeenType /\ ~seen'.whole /\ seen'.done = 0 /\ seen'.resumed = seen.resumed
        /\ AtBoundary /\ seen.resumed = cpu.at => seen'.passed
    <3> DEFINE passed == seen.passed \/ (AtBoundary /\ seen.resumed = cpu.at)
    <3>1. ("frame" = "step" /\ AtBoundary) = FALSE
      OBVIOUS
    <3>2. passed \in BOOLEAN /\ (AtBoundary /\ seen.resumed = cpu.at => passed)
      BY <1>1 DEF SeenType
    <3>3. seen' = [seen EXCEPT !.passed = passed, !.whole = FALSE]
      BY <2>1, <3>1
    <3> HIDE DEF AtBoundary, passed
    <3> QED BY <1>1, <3>2, <3>3 DEF SeenType
  <2>4. Cleared(debug) \in DebugType /\ ~Cleared(debug).pointHit /\ ~Cleared(debug).runToHit
        /\ ~Cleared(debug).paused /\ ~Cleared(debug).stepping /\ Cleared(debug).open = debug.open
        /\ Cleared(debug).skip = debug.skip
    BY <1>1, ClearedIs
  <2>5. /\ debug' \in DebugType /\ ~debug'.paused /\ ~debug'.stepping /\ debug'.open = debug.open
        /\ system = "classic" \/ debug'.open => ~debug'.pointHit /\ ~debug'.runToHit
        /\ debug'.skip = debug.skip
    BY <1>1, <1>7, <2>4
  <2>6. DebuggerTypeOK'
    <3>1. left' \in 0..FrameLength
          /\ slice' \in [by : {"none", "frame", "step", "pause"}, armed : BOOLEAN]
          /\ slice'.by = "frame"
      BY <1>1, <2>1, <2>2, PartsAre, LengthAssumption
    <3>2. slice'.by \in {"step", "pause"} <=> debug'.stepping
      BY <2>5, <3>1
    <3> QED BY <1>3, <1>4, <1>5, <2>3, <2>5, <3>1, <3>2, PartsMake
  <2>7. GoalsEnd'
    BY <1>5, <2>5 DEF GoalsEnd
  <2>8. Warned'
    <3> SUFFICES ASSUME debug'.open
                 PROVE  /\ HasEnabledPoints' => slice'.armed
                        /\ cpu'.tick = 0 /\ PlainAt(cpu.at)' => seen'.passed
      BY <1>5 DEF Warned, PlainAt
    <3>1. HasEnabledPoints' => slice'.armed
      BY <1>4, <2>1, <2>2, <2>5
    <3>2. ASSUME cpu'.tick = 0, PlainAt(cpu.at)' PROVE seen'.passed
      <4>1. AtBoundary /\ PlainAt(cpu.at) /\ CurrentPc = cpu.at /\ debug.open
        BY <1>4, <1>5, <2>5, <3>2 DEF AtBoundary, CurrentPc
      <4>2. CASE debug.skip = cpu.at
        <5>1. cpu.at # None
          BY <1>1, PcIs, ProgramAssumption DEF Addresses, None
        <5> QED BY <2>3, <4>1, <4>2, <5>1 DEF DebugInv, Passing
      <4>3. CASE debug.skip # cpu.at
        <5>1. MatchPoint("exec", cpu.at, 0).index = 0
          BY <1>7, <4>1, <4>3 DEF StopBefore, Skipping
        <5>2. PICK i \in DOMAIN points :
                 points[i].kind = "exec" /\ Plain(points[i]) /\ Covers(points[i], cpu.at)
          BY <4>1 DEF PlainAt
        <5>3. points \in Seq(PointType) /\ points[i] \in PointType
          BY <1>1, ElementOfSeq DEF IsList
        <5>4. Triggers(points[i], "exec", cpu.at, 0)
          BY <5>2, <5>3, PlainTriggers
        <5> QED BY <5>1, <5>3, <5>4, MatchFinds
      <4> QED BY <4>2, <4>3
    <3> QED BY <3>1, <3>2
  <2>9. Whole' /\ Passing'
    BY <2>3, <2>5 DEF DebugInv, Whole, Passing
  <2> QED BY <2>6, <2>7, <2>8, <2>9 DEF DebugInv
<1> QED BY <1>6, <1>7 DEF BeginFrame

LEMMA EndSliceKeeps ==
  ASSUME DebugInv, EndSlice
  PROVE  DebugInv'
<1>1. DebuggerTypeOK /\ debug \in DebugType /\ GoalsEnd
      /\ seen \in SeenType
  BY PartsAre DEF DebugInv
<1> DEFINE hit == /\ slice.by = "frame" /\ (system = "classic" \/ debug.open)
                  /\ (debug.pointHit \/ debug.runToHit)
<1>2. debug' = [debug EXCEPT !.stepping = FALSE,
                            !.leftBoundary = IF slice.by = "pause" THEN FALSE ELSE @,
                            !.paused = @ \/ hit]
  BY DEF EndSlice, Ended
<1>3. hit \in BOOLEAN /\ (hit => debug.runTo = None)
  BY <1>1 DEF GoalsEnd, DebugType
<1> HIDE DEF hit
<1>4. /\ debug' \in DebugType /\ ~debug'.stepping /\ debug'.runTo = debug.runTo
      /\ debug'.paused = (debug.paused \/ hit) /\ debug'.skip = debug.skip
  <2> DEFINE paused == debug.paused \/ hit
             leftBoundary == IF slice.by = "pause" THEN FALSE ELSE debug.leftBoundary
  <2>1. paused \in BOOLEAN /\ leftBoundary \in BOOLEAN
    BY <1>1 DEF DebugType
  <2>2. debug' = [debug EXCEPT !.stepping = FALSE, !.leftBoundary = leftBoundary,
                              !.paused = paused]
    BY <1>1, <1>2 DEF DebugType
  <2> HIDE DEF paused, leftBoundary
  <2>3. debug' \in DebugType /\ ~debug'.stepping /\ debug'.runTo = debug.runTo
        /\ debug'.paused = paused /\ debug'.skip = debug.skip
    BY <1>1, <2>1, <2>2 DEF DebugType
  <2> QED BY <2>3 DEF paused
<1>5. debug'.paused => debug'.runTo = None
  BY <1>1, <1>3, <1>4 DEF GoalsEnd
<1>6. seen' \in SeenType /\ ~seen'.whole /\ seen'.done = 0 /\ seen'.resumed = seen.resumed
  <2> DEFINE shown == seen.shown \/ debug'.paused
  <2>1. shown \in BOOLEAN
    OBVIOUS
  <2>2. seen' = [seen EXCEPT !.shown = shown, !.done = 0, !.whole = FALSE]
    BY <1>1 DEF EndSlice
  <2>3. 0 \in 0..2 /\ FALSE \in BOOLEAN /\ seen \in SeenType
    BY <1>1
  <2> HIDE DEF shown
  <2> DEFINE x == [seen EXCEPT !.shown = shown]
             y == [x EXCEPT !.done = 0]
             z == [y EXCEPT !.whole = FALSE]
  <2>4. x \in SeenType /\ x.resumed = seen.resumed
    BY <2>1, <2>3, ShownIs
  <2>5. seen' = z
    BY <2>2, Zenon
  <2> HIDE DEF x
  <2>6. y \in SeenType /\ y.resumed = x.resumed /\ y.done = 0
    BY <2>4 DEF SeenType
  <2> HIDE DEF y
  <2>7. z \in SeenType /\ z.resumed = y.resumed /\ z.done = y.done /\ ~z.whole
    BY <2>6 DEF SeenType
  <2> HIDE DEF z
  <2> QED BY <2>4, <2>5, <2>6, <2>7
<1>7. slice' = Idle /\ left' = (IF left = 0 \/ system = "classic" THEN FrameLength ELSE left)
      /\ UNCHANGED <<system, cpu, points, saved>>
  BY DEF EndSlice
<1>8. left' \in 0..FrameLength
  BY <1>1, <1>7, PartsAre, LengthAssumption
<1>9. DebuggerTypeOK'
  <2>1. slice' \in [by : {"none", "frame", "step", "pause"}, armed : BOOLEAN]
        /\ ~(slice'.by \in {"step", "pause"})
    BY <1>7 DEF Idle
  <2>2. cpu' \in CpuType /\ cpu'.tick \in Prefetch..Len(Program[cpu'.at].accesses)
        /\ system' \in {"classic", "next"}
        /\ IsList(points)' /\ saved' = [i \in DOMAIN points' |-> Stored(points'[i])]
    BY <1>1, <1>7, PartsAre DEF IsList
  <2> QED BY <1>4, <1>6, <1>8, <2>1, <2>2, PartsMake
<1>10. Passing'
  BY <1>4, <1>6 DEF DebugInv, Passing
<1> QED BY <1>5, <1>6, <1>7, <1>9, <1>10, IdleKeeps DEF Idle

-----------------------------------------------------------------------------
(* Ticks.                                                                  *)

\* What the three kinds of tick share.
LEMMA TickTypes ==
  ASSUME DebuggerTypeOK, MachineTick, HookKeeps, cpu' \in CpuType,
         cpu'.tick \in Prefetch..Len(Program[cpu'.at].accesses),
         seen' \in SeenType
  PROVE  DebuggerTypeOK'
<1>1. left \in 0..FrameLength /\ left > 0 /\ left' = left - 1 /\ FrameLength \in Nat
  BY PartsAre, LengthAssumption DEF MachineTick, Running
<1>2. left' \in 0..FrameLength
  BY <1>1
<1>3. /\ system' = system /\ slice' = slice /\ saved' = saved
  BY DEF MachineTick
<1>4. saved' = [i \in DOMAIN points' |-> Stored(points'[i])]
  BY <1>3, PartsAre, SamePoints DEF HookKeeps
<1>5. slice'.by \in {"step", "pause"} <=> debug'.stepping
  BY <1>3, PartsAre DEF HookKeeps
<1>6. IsList(points)' /\ debug' \in DebugType
  BY DEF HookKeeps
<1> QED BY <1>2, <1>3, <1>4, <1>5, <1>6, PartsAre, PartsMake

LEMMA TickGoals ==
  ASSUME GoalsEnd, MachineTick, HookKeeps
  PROVE  GoalsEnd'
BY DEF GoalsEnd, MachineTick, HookKeeps

\* A step that is whole has not ended its instruction while the machine runs.
LEMMA RunningInIt ==
  ASSUME DebugInv, MachineTick, seen.whole
  PROVE  InIt /\ slice.by = "step" /\ slice.armed /\ debug.stepping
BY DEF DebugInv, Whole, PastIt, MachineTick, Running, DebuggerTypeOK

LEMMA AccessKeeps ==
  ASSUME DebugInv, MachineTick, Access
  PROVE  DebugInv' /\ HookKeeps
<1> DEFINE accesses == Program[cpu.at].accesses
<1>1. DebuggerTypeOK /\ cpu \in CpuType /\ cpu.at \in Addresses
  BY PartsAre, PcIs DEF DebugInv
<1>2. accesses \in Seq(AccessType) /\ Len(accesses) \in Nat
  BY <1>1, ProgramIs
<1>3. cpu.tick \in 0..(Len(accesses) - 1) /\ cpu' = [cpu EXCEPT !.tick = @ + 1]
      /\ seen' = seen
      /\ IF slice.armed THEN SeesAccess(accesses[cpu.tick + 1]) ELSE UNCHANGED <<points, debug>>
  BY DEF Access
<1>4. accesses[cpu.tick + 1] \in AccessType
  <2>1. cpu.tick + 1 \in 1..Len(accesses)
    BY <1>2, <1>3
  <2> HIDE DEF accesses
  <2> QED BY <1>2, <2>1, ElementOfSeq
<1>5. /\ HookKeeps /\ debug'.stopRequested = debug.stopRequested
      /\ debug'.skip = debug.skip
      /\ slice.armed /\ debug.stepping => debug'.leftBoundary
  BY <1>1, <1>3, <1>4, SeesAccessIs, NoHook
<1>6. /\ cpu' \in CpuType /\ cpu'.tick = cpu.tick + 1 /\ cpu'.at = cpu.at
      /\ cpu'.held = cpu.held
  BY <1>1, <1>3 DEF CpuType
<1>7. cpu'.tick \in 1..Len(accesses) /\ cpu.tick \in Int
  BY <1>2, <1>3, <1>6
<1>8. DebuggerTypeOK'
  <2>1. cpu'.tick \in Prefetch..Len(Program[cpu'.at].accesses)
    BY <1>2, <1>6, <1>7 DEF Prefetch
  <2>2. seen' \in SeenType
    BY <1>1, <1>3, PartsAre
  <2> QED BY <1>1, <1>5, <1>6, <2>1, <2>2, TickTypes
<1>9. GoalsEnd'
  BY <1>5, TickGoals DEF DebugInv
<1>10. Warned'
  <2>1. HasEnabledPoints' <=> HasEnabledPoints
    BY <1>1, <1>5, PartsAre, SamePoints DEF HookKeeps
  <2>2. slice' = slice /\ debug'.open = debug.open
    BY <1>5 DEF MachineTick, HookKeeps
  <2> QED BY <1>7, <2>1, <2>2 DEF DebugInv, Warned
<1>11. Whole'
  <2>1. ASSUME seen.whole PROVE InIt'
    <3>1. InIt /\ slice.armed /\ debug.stepping
      BY <2>1, RunningInIt
    <3>2. system' = system /\ left' = left - 1 /\ left \in Int
      BY <1>1, PartsAre, LengthAssumption DEF MachineTick
    <3>3. StallsLeft' = StallsLeft /\ StallsLeft \in Int
      BY <1>6 DEF StallsLeft
    <3>4. system' = "classic" =>
            left' >= Len(Program[cpu'.at].accesses) - cpu'.tick + 1 + StallsLeft'
      <4> DEFINE n == Len(accesses)
      <4>1. n \in Nat /\ (system = "classic" => left >= n - cpu.tick + 1 + StallsLeft)
        BY <1>2, <3>1 DEF InIt
      <4>2. n = Len(Program[cpu'.at].accesses)
        BY <1>6
      <4> HIDE DEF n
      <4>3. cpu.tick \in Int /\ cpu'.tick = cpu.tick + 1
        BY <1>6, <1>7
      <4> HIDE DEF accesses
      <4>4. system = "classic" => left' >= n - cpu'.tick + 1 + StallsLeft'
        BY <3>2, <3>3, <4>1, <4>3
      <4> QED BY <3>2, <4>2, <4>4
    <3>5. cpu'.tick # Prefetch
      BY <1>7 DEF Prefetch
    <3> QED BY <1>3, <1>5, <3>1, <3>4, <3>5 DEF InIt
  <2>2. slice' = slice
    BY DEF MachineTick
  <2> QED BY <1>3, <2>1, <2>2 DEF DebugInv, Whole
<1>12. Passing'
  BY <1>3, <1>5 DEF DebugInv, Passing
<1> QED BY <1>5, <1>8, <1>9, <1>10, <1>11, <1>12 DEF DebugInv

LEMMA StallIs ==
  ASSUME DebuggerTypeOK, Stall
  PROVE  /\ HookKeeps /\ debug'.stopRequested = debug.stopRequested
         /\ debug'.skip = debug.skip /\ (debug.leftBoundary => debug'.leftBoundary)
<1>1. IsList(points) /\ debug \in DebugType /\ points' = points
  BY PartsAre DEF Stall
<1>2. CASE debug' = debug
  BY <1>1, <1>2, NoHook
<1>3. CASE debug' = [debug EXCEPT !.leftBoundary = @ \/ (slice.armed /\ debug.stepping)]
  <2> DEFINE crossed == debug.leftBoundary \/ (slice.armed /\ debug.stepping)
  <2>1. crossed \in BOOLEAN /\ (debug.leftBoundary => crossed) /\ debug.pending \in BOOLEAN
    BY <1>1 DEF DebugType
  <2>2. debug' = [debug EXCEPT !.pending = debug.pending, !.leftBoundary = crossed]
    BY <1>1, <1>3 DEF DebugType
  <2> HIDE DEF crossed
  <2>3. FlagsOnly(debug, debug', crossed)
    BY <1>1, <2>1, <2>2, FlagsOf, Zenon
  <2>4. IsList(points)' /\ CountsOnly(points, points')
    BY <1>1, CountsNone DEF IsList
  <2> QED BY <2>1, <2>3, <2>4 DEF HookKeeps, FlagsOnly
<1> QED BY <1>2, <1>3 DEF Stall

LEMMA StallKeeps ==
  ASSUME DebugInv, MachineTick, Stall
  PROVE  DebugInv' /\ HookKeeps
<1>1. /\ DebuggerTypeOK /\ cpu \in CpuType /\ HookKeeps /\ seen' = seen
      /\ debug'.stopRequested = debug.stopRequested /\ debug'.skip = debug.skip
      /\ (debug.leftBoundary => debug'.leftBoundary)
  BY PartsAre, StallIs DEF DebugInv, Stall
<1>2. /\ cpu' \in CpuType /\ cpu'.tick = cpu.tick /\ cpu'.at = cpu.at
      /\ cpu'.held = (system = "classic")
  <2>1. cpu' = [cpu EXCEPT !.held = (system = "classic")]
    BY DEF Stall
  <2>2. (system = "classic") \in BOOLEAN
    OBVIOUS
  <2> QED BY <1>1, <2>1, <2>2 DEF CpuType
<1>3. DebuggerTypeOK'
  <2>1. /\ cpu'.tick \in Prefetch..Len(Program[cpu'.at].accesses)
        /\ seen' \in SeenType
    BY <1>1, <1>2, PartsAre
  <2> QED BY <1>1, <1>2, <2>1, TickTypes
<1>4. GoalsEnd'
  BY <1>1, TickGoals DEF DebugInv
<1>5. Warned'
  <2>1. points' = points /\ debug'.open = debug.open /\ slice' = slice
    BY <1>1 DEF Stall, MachineTick, HookKeeps
  <2>2. HasEnabledPoints' = HasEnabledPoints /\ PlainAt(cpu.at)' = PlainAt(cpu.at)
    BY <1>2, <2>1 DEF HasEnabledPoints, PlainAt
  <2> QED BY <1>1, <1>2, <2>1, <2>2 DEF DebugInv, Warned
<1>6. Whole'
  <2>1. ASSUME seen.whole PROVE InIt'
    <3>1. InIt
      BY <2>1, RunningInIt
    <3>2. system' = system /\ left' = left - 1 /\ left \in Int
      BY <1>1, PartsAre, LengthAssumption DEF MachineTick
    <3>3. system = "classic" => StallsLeft = 1 /\ StallsLeft' = 0
      BY <1>2 DEF Stall, StallsLeft
    <3>4. Len(Program[cpu.at].accesses) \in Nat /\ cpu.tick \in Int
      BY <1>1, PcIs, ProgramIs DEF CpuType
    <3>5. system' = "classic" =>
            left' >= Len(Program[cpu'.at].accesses) - cpu'.tick + 1 + StallsLeft'
      BY <1>2, <3>1, <3>2, <3>3, <3>4 DEF InIt
    <3> QED BY <1>1, <1>2, <3>1, <3>2, <3>5 DEF InIt
  <2>2. slice' = slice
    BY DEF MachineTick
  <2> QED BY <1>1, <2>1, <2>2 DEF DebugInv, Whole
<1>7. Passing'
  BY <1>1 DEF DebugInv, Passing
<1> QED BY <1>1, <1>3, <1>4, <1>5, <1>6, <1>7 DEF DebugInv

\* The hook of a fetch, and what is seen of it.
LEMMA FetchKeeps ==
  ASSUME DebugInv, MachineTick, NEW a \in Addresses, NEW sp \in Values, Fetch(a, sp),
         seen.whole => cpu.tick # Prefetch /\ debug.leftBoundary
  PROVE  /\ DebugInv' /\ HookKeeps
         /\ debug.pending /\ slice.armed => debug'.stopRequested
<1>1. DebuggerTypeOK /\ cpu \in CpuType /\ seen \in SeenType
  BY PartsAre DEF DebugInv
<1>2. /\ HookKeeps
      /\ slice.armed =>
           /\ debug.pending => debug'.stopRequested
           /\ debug.stepping /\ debug.leftBoundary => debug'.stopRequested
           /\ PlainAt(a) /\ debug.skip # a => debug'.stopRequested
           /\ debug'.skip # a
      /\ debug'.skip \in {debug.skip, None}
  BY <1>1, NoHook, SeesInstructionIs DEF Fetch
<1>3. /\ cpu' \in CpuType /\ cpu'.tick = 0 /\ cpu'.at = a
  <2>1. cpu' = [cpu EXCEPT !.at = a, !.tick = 0, !.sp = sp, !.held = FALSE]
    BY DEF Fetch
  <2>2. cpu' = [at |-> a, tick |-> 0, held |-> FALSE, sp |-> sp]
    BY <1>1, <2>1, Zenon DEF CpuType
  <2> QED BY <2>2 DEF CpuType
<1>4. /\ seen' \in SeenType /\ seen'.whole = seen.whole /\ seen'.passed = (seen.resumed = a)
      /\ seen'.resumed = IF slice.armed /\ seen.resumed = a THEN None ELSE seen.resumed
      /\ seen'.done = IF seen.whole /\ cpu.tick # Prefetch THEN Capped(seen.done) ELSE seen.done
  <2> DEFINE shown == seen.shown /\ cpu.tick = Prefetch
             passed == seen.resumed = a
             resumed == IF slice.armed /\ seen.resumed = a THEN None ELSE seen.resumed
             done == IF seen.whole /\ cpu.tick # Prefetch THEN Capped(seen.done) ELSE seen.done
  <2>1. /\ shown \in BOOLEAN /\ passed \in BOOLEAN /\ resumed \in Addresses \cup {None}
        /\ done \in 0..2 /\ seen \in SeenType
    BY <1>1 DEF Capped, SeenType
  <2>2. seen' = [seen EXCEPT !.shown = shown, !.passed = passed, !.resumed = resumed,
                            !.done = done]
    BY DEF Fetch
  <2> HIDE DEF shown, passed, resumed, done
  <2> DEFINE w == [seen EXCEPT !.shown = shown]
             x == [w EXCEPT !.passed = passed]
             y == [x EXCEPT !.resumed = resumed]
             z == [y EXCEPT !.done = done]
  <2>3. w \in SeenType /\ w.whole = seen.whole
    BY <2>1, ShownIs
  <2>4. seen' = z
    BY <2>2, Zenon
  <2> HIDE DEF w
  <2>5. x \in SeenType /\ x.whole = w.whole /\ x.passed = passed
    BY <2>1, <2>3 DEF SeenType
  <2> HIDE DEF x
  <2>6. y \in SeenType /\ y.whole = x.whole /\ y.passed = x.passed /\ y.resumed = resumed
    BY <2>1, <2>5 DEF SeenType
  <2> HIDE DEF y
  <2>7. /\ z \in SeenType /\ z.whole = y.whole /\ z.passed = y.passed
        /\ z.resumed = y.resumed /\ z.done = done
    BY <2>1, <2>6 DEF SeenType
  <2> HIDE DEF z
  <2> QED BY <2>3, <2>4, <2>5, <2>6, <2>7 DEF passed, resumed, done
<1>5. DebuggerTypeOK'
  <2>1. cpu'.tick \in Prefetch..Len(Program[cpu'.at].accesses)
    BY <1>3, ProgramIs DEF Prefetch
  <2> QED BY <1>1, <1>2, <1>3, <1>4, <2>1, TickTypes
<1>6. GoalsEnd'
  BY <1>2, TickGoals DEF DebugInv
<1>7. Warned'
  <2>1. slice' = slice /\ debug'.open = debug.open
    BY <1>2 DEF MachineTick, HookKeeps
  <2>2. /\ HasEnabledPoints' <=> HasEnabledPoints
        /\ \A b : PlainAt(b)' <=> PlainAt(b)
    BY <1>1, <1>2, PartsAre, SamePoints DEF HookKeeps
  <2> SUFFICES ASSUME slice.by = "frame", debug.open, PlainAt(cpu.at)'
               PROVE  seen'.shown \/ seen'.passed \/ (slice.armed /\ debug'.stopRequested)
    BY <2>1, <2>2 DEF DebugInv, Warned
  <2>3. PlainAt(a)
    <3>1. PlainAt(cpu.at)' <=> PlainAt(a)'
      BY <1>3 DEF PlainAt
    <3> QED BY <2>2, <3>1
  <2>4. slice.armed
    BY <2>3 DEF PlainAt, Plain, HasEnabledPoints, DebugInv, Warned
  <2>5. CASE debug.skip = a
    <3>1. a # None
      BY ProgramAssumption DEF Addresses, None
    <3>2. seen'.passed
      BY <1>4, <2>5, <3>1 DEF DebugInv, Passing
    <3> QED BY <3>2
  <2>6. CASE debug.skip # a
    BY <1>2, <2>3, <2>4, <2>6
  <2> QED BY <2>5, <2>6
<1>8. Whole'
  <2>1. ASSUME seen.whole PROVE PastIt'
    <3>1. InIt /\ slice.armed /\ debug.stepping
      BY <2>1, RunningInIt
    <3>2. seen'.done = 1
      BY <1>4, <2>1, <3>1 DEF InIt, Capped
    <3> QED BY <1>2, <1>3, <2>1, <3>1, <3>2 DEF PastIt, AtBoundary
  <2>2. slice' = slice
    BY DEF MachineTick
  <2>3. ~seen.whole => seen'.done = 0
    BY <1>4 DEF DebugInv, Whole
  <2> QED BY <1>4, <2>1, <2>2, <2>3 DEF DebugInv, Whole
<1>9. Passing'
  BY <1>2, <1>4 DEF DebugInv, Passing
<1> QED BY <1>2, <1>5, <1>6, <1>7, <1>8, <1>9 DEF DebugInv

LEMMA CompleteKeeps ==
  ASSUME DebugInv, MachineTick, Complete
  PROVE  /\ DebugInv' /\ HookKeeps
         /\ debug.pending /\ slice.armed => debug'.stopRequested
<1>1. cpu.at \in Addresses /\ cpu.sp \in Values
  BY PcIs DEF DebugInv
<1>2. CASE cpu.tick = Prefetch /\ Fetch(cpu.at, cpu.sp)
  <2>1. ~seen.whole
    BY <1>2, RunningInIt DEF InIt
  <2> QED BY <1>1, <1>2, <2>1, FetchKeeps
<1>3. ASSUME cpu.tick = Len(Program[cpu.at].accesses), NEW s \in Program[cpu.at].next,
             Fetch(s.to, (cpu.sp + s.pops) % ValueTop)
      PROVE  /\ DebugInv' /\ HookKeeps
             /\ debug.pending /\ slice.armed => debug'.stopRequested
  <2>1. s.to \in Addresses /\ s.pops \in Int /\ cpu.tick \in Nat \ {0}
    BY <1>1, <1>3, ProgramIs
  <2>2. (cpu.sp + s.pops) % ValueTop \in Values
    <3>1. cpu.sp \in Int
      BY <1>1, ProgramAssumption DEF Values
    <3> QED BY <2>1, <3>1, WrapsTo
  <2>3. seen.whole => cpu.tick # Prefetch /\ debug.leftBoundary
    BY <2>1, RunningInIt DEF InIt, Prefetch
  <2> QED BY <1>3, <2>1, <2>2, <2>3, FetchKeeps
<1> QED BY <1>2, <1>3 DEF Complete

LEMMA DebuggerTickKeeps ==
  ASSUME DebugInv, MachineTick
  PROVE  DebugInv'
BY AccessKeeps, CompleteKeeps, StallKeeps DEF MachineTick

-----------------------------------------------------------------------------
(* The theorems.                                                           *)

LEMMA NextKeeps ==
  ASSUME DebugInv, [NextDebugger]_debuggerVars
  PROVE  DebugInv'
<1>1. CASE NextDebugger
  BY <1>1, PointsKeep, CommandsKeep, BeginFrameKeeps, DebuggerTickKeeps, EndSliceKeeps, WindowKeeps,
     MachineChangedKeeps, RestartKeeps DEF NextDebugger
<1>2. CASE UNCHANGED debuggerVars
  <2>1. UNCHANGED <<system, cpu, left, slice, points, saved, debug, seen>>
    BY <1>2 DEF debuggerVars
  <2>2. DebuggerTypeOK' /\ GoalsEnd' /\ Whole' /\ Passing'
    BY <2>1 DEF DebugInv, DebuggerTypeOK, GoalsEnd, Whole, Passing, InIt, PastIt, StallsLeft, AtBoundary
  <2>3. Warned'
    <3>1. HasEnabledPoints' = HasEnabledPoints /\ PlainAt(cpu.at)' = PlainAt(cpu.at)
      BY <2>1 DEF HasEnabledPoints, PlainAt
    <3> QED BY <2>1, <3>1 DEF DebugInv, Warned
  <2> QED BY <2>2, <2>3 DEF DebugInv
<1> QED BY <1>1, <1>2

\* The invariant of the debugger holds of every program and list of points.
THEOREM DebuggerInvariant == SpecDebugger => []DebugInv
<1>1. InitDebugger => DebugInv
  BY InitInv
<1>2. DebugInv /\ [NextDebugger]_debuggerVars => DebugInv'
  BY NextKeeps
<1> QED BY <1>1, <1>2, PTL DEF SpecDebugger

\* The state is well formed, and what the settings file holds is the list.
THEOREM DebuggerTypeCorrect == SpecDebugger => []DebuggerTypeOK
<1>1. DebugInv => DebuggerTypeOK
  BY DEF DebugInv
<1> QED BY <1>1, DebuggerInvariant, PTL

\* A run-to that was asked for does not outlive a pause.
THEOREM RunToEndsAlways == SpecDebugger => []RunToEnds
<1>1. DebugInv => RunToEnds
  BY DEF DebugInv, GoalsEnd, RunToEnds
<1> QED BY <1>1, DebuggerInvariant, PTL

\* A breakpoint's instruction is not executed in a frame before the machine
\* has been paused there, but for the first arrival at the address it was last
\* set going from; and a watchpoint that was hit stops the machine.
THEOREM StopsAtBreakpoints == SpecDebugger => BreakpointsStop
<1> DEFINE Step1 == \A a \in Addresses :
                      Leaves(a) /\ slice.by = "frame" /\ debug.open
                        /\ (\E i \in DOMAIN points : points[i].kind = "exec" /\ Plain(points[i])
                                                       /\ Covers(points[i], a))
                        => seen.shown \/ seen.passed
           Step2 == debug.pending /\ slice.armed /\ slice.by = "frame" /\ cpu.tick > 0
                      /\ cpu'.tick = 0 => debug'.stopRequested
<1>1. DebugInv /\ [NextDebugger]_debuggerVars => [Step1 /\ Step2]_debuggerVars
  <2> SUFFICES ASSUME DebugInv, NextDebugger PROVE Step1 /\ Step2
    OBVIOUS
  <2>1. ASSUME cpu'.tick # cpu.tick, slice.by = "frame" PROVE MachineTick
    <3>1. ~Between
      BY <2>1 DEF Between
    <3>2. ~EndSlice
      BY <2>1 DEF EndSlice
    <3>3. ~Points /\ ~Commands
      BY <3>1 DEF Points, Commands, AddPoint, TogglePoint, DeletePoint, DeletePoints, EnablePoints,
                  ResetHits, Edit, Resume, Pause, Step, StepOver, StepOut, RunTo, RunFrom, SetRegister
    <3> QED BY <3>1, <3>2, <3>3 DEF NextDebugger, BeginFrame, OpenWindow, CloseWindow, MachineChanged, Restart
  <2>2. Step1
    <3> SUFFICES ASSUME NEW a \in Addresses, Leaves(a), slice.by = "frame", debug.open, PlainAt(a)
                 PROVE  seen.shown \/ seen.passed
      BY DEF PlainAt
    <3>1. cpu.tick = 0 /\ cpu.at = a /\ cpu'.tick = 1
      BY DEF Leaves
    <3>2. ~(slice.armed /\ debug.stopRequested)
      BY <2>1, <3>1 DEF MachineTick, Running
    <3> QED BY <3>1, <3>2 DEF DebugInv, Warned
  <2>3. Step2
    <3> SUFFICES ASSUME debug.pending, slice.armed, slice.by = "frame", cpu.tick > 0, cpu'.tick = 0
                 PROVE  debug'.stopRequested
      OBVIOUS
    <3>1. MachineTick /\ cpu \in CpuType /\ cpu.tick \in Int
      BY <2>1, PartsAre DEF DebugInv, CpuType
    <3>2. ~Access /\ ~Stall
      <4>1. CASE Access
        <5>1. cpu'.tick = cpu.tick + 1
          BY <3>1, <4>1 DEF Access, CpuType
        <5> QED BY <3>1, <5>1
      <4>2. CASE Stall
        BY <3>1, <4>2 DEF Stall, CpuType
      <4> QED BY <4>1, <4>2
    <3>3. Complete
      BY <3>1, <3>2 DEF MachineTick
    <3> QED BY <3>1, <3>3, CompleteKeeps
  <2> QED BY <2>2, <2>3
<1> QED BY <1>1, DebuggerInvariant, PTL DEF SpecDebugger, BreakpointsStop

\* A step executes one instruction, unless the Next's frame ends in it.
THEOREM OneInstructionAStep == SpecDebugger => StepsOneInstruction
<1> DEFINE Step1 == slice.by = "step" /\ slice'.by = "none" /\ seen.whole
                      => \/ seen.done = 1 /\ AtBoundary
                         \/ system = "next" /\ left = 0 /\ ~debug.stopRequested
<1>1. DebugInv /\ [NextDebugger]_debuggerVars => [Step1]_debuggerVars
  <2> SUFFICES ASSUME DebugInv, NextDebugger, slice.by = "step", slice'.by = "none", seen.whole
               PROVE  \/ seen.done = 1 /\ AtBoundary
                      \/ system = "next" /\ left = 0 /\ ~debug.stopRequested
    OBVIOUS
  <2>1. EndSlice
    <3>1. ~Between
      BY DEF Between
    <3>2. ~Points /\ ~Commands
      BY <3>1 DEF Points, Commands, AddPoint, TogglePoint, DeletePoint, DeletePoints, EnablePoints,
                  ResetHits, Edit, Resume, Pause, Step, StepOver, StepOut, RunTo, RunFrom, SetRegister
    <3>3. ~MachineTick
      BY DEF MachineTick
    <3> QED BY <3>1, <3>2, <3>3 DEF NextDebugger, BeginFrame, OpenWindow, CloseWindow, MachineChanged, Restart
  <2>2. CASE PastIt
    BY <2>2 DEF PastIt
  <2>3. CASE InIt
    <3>1. left \in 0..FrameLength /\ FrameLength \in Nat /\ system \in {"classic", "next"}
          /\ cpu.tick <= Len(Program[cpu.at].accesses) /\ cpu.tick \in Int
          /\ Len(Program[cpu.at].accesses) \in Nat
      BY PartsAre, LengthAssumption, PcIs, ProgramIs DEF DebugInv, CpuType, Prefetch
    <3>2. left = 0
      BY <2>1, <2>3, <3>1 DEF EndSlice, Running, InIt, Between
    <3>3. system # "classic"
      <4>1. StallsLeft \in Nat
        BY DEF StallsLeft
      <4> QED BY <2>3, <3>1, <3>2, <4>1 DEF InIt
    <3> QED BY <2>3, <3>1, <3>2, <3>3 DEF InIt
  <2> QED BY <2>2, <2>3 DEF DebugInv, Whole
<1> QED BY <1>1, DebuggerInvariant, PTL DEF SpecDebugger, StepsOneInstruction
=============================================================================
