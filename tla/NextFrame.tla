----------------------------- MODULE NextFrame -----------------------------
(* Time on the ZX Spectrum Next (src/src/next_machine.c): the tick of the   *)
(* CPU clock, which counts the frame and drives the interrupt pin, and      *)
(* next_machine_exec_frame, which runs ticks to the end of a frame and      *)
(* draws it, or returns early for the debugger.                             *)
(*                                                                         *)
(* The CPU is an environment: in a tick it may write a register, either as  *)
(* it decodes a NEXTREG instruction (before the interrupt logic) or through *)
(* the I/O port (after it), and start a DMA transfer that is charged to     *)
(* this tick.  Memory, sound and drawing are left out.                      *)
EXTENDS Integers, FiniteSets

CONSTANTS
  FrameTstates,   \* NEXT_FRAME_TSTATES, at the slowest clock
  LineTstates,    \* NEXT_LINE_TSTATES
  PulseTstates,   \* length of an interrupt: 32
  Multipliers,    \* clocks a program uses: 1, 2, 4 and 8 in the code
  LineTargets,    \* values of NR 22/23 a program uses, 0 for line 310
  LastLine,       \* 310
  Uses,           \* uses of the machine: the registers a program writes in
                  \* mid-frame, whether it writes them with OUT, the T-states
                  \* a tick may owe to the DMA, whether a debugger hook may
                  \* stop the machine, and bounds: writes in a frame, frames
  MaxWrites       \* the most writes of any use

ASSUME FrameAssumption ==
  /\ FrameTstates \in Nat \ {0} /\ LineTstates \in Nat \ {0}
  /\ PulseTstates \in Nat /\ PulseTstates > 1 /\ LastLine \in Nat
ASSUME MultiplierAssumption == 1 \in Multipliers /\ Multipliers \subseteq {1, 2, 4, 8}
ASSUME HostAssumption ==
  /\ LineTargets \subseteq Nat /\ MaxWrites \in Nat
  /\ \A u \in Uses :
       /\ u.registers \subseteq {"RESET", "SOFT", "SPEED", "INTERRUPTS"}
       /\ u.ports \in BOOLEAN /\ u.stops \in BOOLEAN
       /\ 0 \in u.charges /\ u.charges \subseteq Nat
       /\ u.maxWrites \in 0..MaxWrites /\ u.maxFrames \in Nat

VARIABLES
  use,       \* which of Uses this is; does not change
  machine,   \* NextMachine
  call,      \* next_machine_exec_frame
  history    \* what the properties remember

vars == <<use, machine, call, history>>

NextMachine ==
  [ frame_count: Nat, frame_tstate: Nat, cpu_speed_multiplier: Multipliers,
    int_counter: Nat, line_int_pending: BOOLEAN, frame_int_disabled: BOOLEAN,
    line_int_offset: Nat, z80_int: BOOLEAN,
    nr22: [frame_off: BOOLEAN, line_on: BOOLEAN, target: LineTargets \cup {0}] ]

FrameTicks(m) == FrameTstates * m.cpu_speed_multiplier
Pulse(m) == PulseTstates * m.cpu_speed_multiplier

InitialRegister == [frame_off |-> FALSE, line_on |-> FALSE, target |-> 0]

-----------------------------------------------------------------------------
(* Register writes.                                                        *)

\* NR 22, 23 and 07, once their values are stored.
ApplyInterrupts(m) ==
  LET r == m.nr22
      line == IF r.target = 0 THEN LastLine ELSE r.target - 1
      n == [m EXCEPT !.frame_int_disabled = r.frame_off]
  IN  IF r.line_on
      THEN [n EXCEPT !.line_int_offset = line * LineTstates * m.cpu_speed_multiplier]
      ELSE [n EXCEPT !.line_int_offset = 0, !.line_int_pending = FALSE]

\* Mutant: the interrupt under way is not rescaled.
SetCpuSpeed_KeepsPulse(m, multiplier) ==
  LET old == m.cpu_speed_multiplier
  IN  [m EXCEPT !.frame_tstate = (@ * multiplier) \div old,
                !.cpu_speed_multiplier = multiplier]

\* next_set_cpu_speed
SetCpuSpeed(m, multiplier) ==
  LET old == m.cpu_speed_multiplier
  IN  [m EXCEPT !.frame_tstate = (@ * multiplier) \div old,
                !.int_counter = (@ * multiplier + old - 1) \div old,
                !.cpu_speed_multiplier = multiplier]

\* next_machine_reset, which leaves the interrupt flags alone.  The pins that
\* z80_reset returns reach the CPU only when no tick is under way.
MachineReset(m) ==
  [m EXCEPT !.nr22 = InitialRegister, !.frame_count = 0, !.frame_tstate = 0,
            !.int_counter = 0, !.cpu_speed_multiplier = 1]

\* next_soft_reset
SoftReset(m) == [m EXCEPT !.int_counter = 0]

\* next_machine_write_nextreg: the machines that a write may lead to.
Written(m) ==
  (IF "RESET" \in use.registers THEN {MachineReset(m)} ELSE {})
  \cup (IF "SOFT" \in use.registers THEN {SoftReset(m)} ELSE {})
  \cup (IF "SPEED" \in use.registers
        THEN {ApplyInterrupts(SetCpuSpeed(m, s)) : s \in Multipliers} ELSE {})
  \cup (IF "INTERRUPTS" \in use.registers
        THEN {ApplyInterrupts([m EXCEPT !.nr22 =
                [frame_off |-> off, line_on |-> on, target |-> t]]) :
              off \in BOOLEAN, on \in BOOLEAN, t \in LineTargets}
        ELSE {})

-----------------------------------------------------------------------------
(* One tick.                                                               *)

\* Mutant: the window is one tick longer than the interrupt.
InLineWindow_OffByOne(m) ==
  /\ m.nr22.line_on
  /\ m.frame_tstate >= m.line_int_offset
  /\ m.frame_tstate <= m.line_int_offset + Pulse(m)

InLineWindow(m) ==
  /\ m.nr22.line_on
  /\ m.frame_tstate >= m.line_int_offset
  /\ m.frame_tstate < m.line_int_offset + Pulse(m)

LinePulseStarts(m) == (m.line_int_pending \/ InLineWindow(m)) /\ m.int_counter = 0

\* Mutant: the end of a line interrupt leaves the pin up.
LineInterrupt_KeepsPin(m) ==
  LET count == (IF m.int_counter = 0 THEN Pulse(m) ELSE m.int_counter) - 1
  IN  [m EXCEPT !.int_counter = count, !.line_int_pending = count > 0,
                !.z80_int = TRUE]

LineInterrupt(m) ==
  LET count == (IF m.int_counter = 0 THEN Pulse(m) ELSE m.int_counter) - 1
  IN  [m EXCEPT !.int_counter = count, !.line_int_pending = count > 0,
                !.z80_int = count > 0]

\* The interrupt logic: a pending line interrupt goes before the frame's.
Interrupt(m) ==
  IF m.line_int_pending \/ InLineWindow(m) THEN LineInterrupt(m)
  ELSE IF m.frame_tstate = 0
  THEN IF m.frame_int_disabled THEN [m EXCEPT !.z80_int = FALSE]
       ELSE [m EXCEPT !.z80_int = TRUE, !.int_counter = Pulse(m)]
  ELSE IF m.int_counter > 0
  THEN [m EXCEPT !.int_counter = @ - 1, !.z80_int = m.z80_int /\ m.int_counter > 1]
  ELSE m

\* How many frames end when so much time has passed.
FramesIn(m, time) == (m.frame_tstate + time) \div FrameTicks(m)

\* The end of the tick: its own T-state and those the DMA took.
Advance(m, charge) ==
  LET ended == FramesIn(m, 1 + charge)
      n == [m EXCEPT !.frame_tstate = @ + 1 + charge - ended * FrameTicks(m),
                     !.frame_count = @ + ended]
  IN  IF ended > 0 THEN [n EXCEPT !.line_int_pending = FALSE, !.int_counter = 0] ELSE n

-----------------------------------------------------------------------------
(* next_machine_exec_frame.                                                *)

\* History.  Time is counted in T-states of the fastest clock.
Most(a, b) == IF a < b THEN a ELSE b
Fast == 8
Unit(m) == Fast \div m.cpu_speed_multiplier

InitialHistory ==
  [ unrendered |-> 0, line_pulses |-> 0, writes |-> 0, time |-> 0,
    enabled |-> FALSE, raised |-> FALSE, skipped |-> FALSE ]

\* What a tick adds; line interrupts are counted from the last change of their
\* line: "before" is the machine before the interrupt logic, "after"
\* the one after the CPU's writes, "next" the one after the tick.
Remember(h, before, after, next, charge, wrote) ==
  LET time  == (IF after.frame_tstate = 0 THEN 0 ELSE h.time) + Unit(after) * (1 + charge)
      pulse == IF LinePulseStarts(before) THEN 1 ELSE 0
      seen  == [h EXCEPT
                  !.line_pulses = IF after.nr22 # machine.nr22 THEN 0 ELSE Most(@ + pulse, 2),
                  !.enabled = IF before.frame_tstate = 0
                              THEN ~before.frame_int_disabled ELSE @,
                  !.raised = @ \/ Interrupt(before).z80_int,
                  !.writes = @ + wrote,
                  !.time = time]
      ended == FramesIn(after, 1 + charge)
  IN  IF ended = 0 THEN seen
      ELSE [seen EXCEPT !.unrendered = Most(@ + ended, 2), !.line_pulses = 0,
                        !.raised = FALSE, !.enabled = FALSE, !.writes = 0,
                        !.skipped = next.frame_tstate > 0,
                        !.time = Unit(next) * next.frame_tstate]

\* The call, for a new frame or one that a stop left unfinished.
Call ==
  /\ call.pc = "out" /\ machine.frame_count < use.maxFrames
  /\ call' = [pc |-> "loop", target |-> machine.frame_count + 1]
  /\ UNCHANGED <<use, machine, history>>

MayWrite(m) == IF history.writes < use.maxWrites THEN Written(m) ELSE {}

\* One tick of the loop, with a write of the CPU before or after the interrupt
\* logic, and then the debugger's word.
Tick ==
  /\ call.pc = "loop"
  /\ \E charge \in use.charges, stop \in {FALSE, use.stops}, before \in {machine} \cup MayWrite(machine) :
       \E after \in {Interrupt(before)} \cup
                   (IF use.ports /\ before = machine THEN MayWrite(Interrupt(before)) ELSE {}) :
         LET next == Advance(after, charge)
             wrote == IF before = machine /\ after = Interrupt(before) THEN 0 ELSE 1
         IN  /\ machine' = next
             /\ history' = Remember(history, before, after, next, charge, wrote)
             /\ call' = IF stop THEN [pc |-> "out", target |-> 0]
                        ELSE IF next.frame_count >= call.target
                        THEN [pc |-> "render", target |-> 0]
                        ELSE call
  /\ UNCHANGED use

\* next_machine_render_frame_internal: the Copper may write a register.
Render ==
  /\ call.pc = "render"
  /\ \E m \in {machine} \cup MayWrite(machine) :
       /\ machine' = m
       /\ history' = [history EXCEPT !.unrendered = 0,
                                     !.time = IF m.frame_tstate = 0 THEN 0 ELSE @,
                                     !.writes = IF m = machine THEN @ ELSE @ + 1]
  /\ call' = [pc |-> "out", target |-> 0]
  /\ UNCHANGED use

\* File -> Reset, between two calls: the CPU gets the pins of z80_reset.
MenuReset ==
  /\ call.pc = "out" /\ "RESET" \in use.registers
  /\ machine' = [MachineReset(machine) EXCEPT !.z80_int = FALSE]
  /\ history' = [InitialHistory EXCEPT !.unrendered = history.unrendered]
  /\ UNCHANGED <<use, call>>

-----------------------------------------------------------------------------
Init ==
  /\ use \in Uses
  /\ machine =
       [ frame_count |-> 0, frame_tstate |-> 0, cpu_speed_multiplier |-> 1,
         int_counter |-> 0, line_int_pending |-> FALSE, frame_int_disabled |-> FALSE,
         line_int_offset |-> 0, z80_int |-> FALSE, nr22 |-> InitialRegister ]
  /\ call = [pc |-> "out", target |-> 0]
  /\ history = InitialHistory

\* The bound on frames is reached.
Enough == call.pc = "out" /\ machine.frame_count >= use.maxFrames /\ UNCHANGED vars

Next == Call \/ Tick \/ Render \/ MenuReset \/ Enough

Spec == Init /\ [][Next]_vars

-----------------------------------------------------------------------------
(* What the machine promises.                                              *)

\* The position stays within the frame and an interrupt within its length,
\* through every change of speed.
TypeOK ==
  /\ use \in Uses
  /\ machine \in NextMachine
  /\ machine.frame_tstate < FrameTicks(machine)
  /\ machine.int_counter <= Pulse(machine)
  /\ call \in [pc: {"out", "loop", "render"}, target: Nat]
  /\ history \in [unrendered: 0..2, line_pulses: 0..2, writes: 0..MaxWrites,
                  time: Nat, enabled: BOOLEAN, raised: BOOLEAN, skipped: BOOLEAN]

\* The interrupt pin is never left up with nothing that will lower it: a count
\* runs, or the frame is about to begin and decides it anew.  Two things the
\* code does differently: after a reset by the program the tick goes on with
\* the pins from before it, and a frame whose first tick a DMA transfer took
\* (skipped) keeps the pin of the frame before.
ResetsItself == use.registers \cap {"RESET", "SOFT"} # {}
PinIsTimed ==
  machine.z80_int /\ ~ResetsItself /\ ~history.skipped =>
    machine.int_counter > 0 \/ machine.frame_tstate = 0

\* "Preserve their position within the video/audio interval when software
\* changes turbo speed": a frame is as long as its T-states at the speeds they
\* were run at, but for the fraction each change rounds away.
PositionKept ==
  LET position == Unit(machine) * machine.frame_tstate
  IN  position <= history.time /\ history.time <= position + Fast * history.writes

\* Time and its interrupts fit whatever is changed meanwhile.
TimeKept == PinIsTimed /\ PositionKept

\* A frame that began with frame interrupts on has interrupted the CPU.
FrameInterrupts ==
  history.enabled /\ machine.frame_tstate > 0 => history.raised

\* A line interrupt comes once a frame at most, however its line and its
\* enable bit change, and whatever the speed does with NEXTREG.  A speed
\* change through the I/O port is different: it comes between the count of
\* the interrupt and that of the frame.
LineOncePerFrame ==
  ~ResetsItself /\ ~(use.ports /\ "SPEED" \in use.registers)
    => history.line_pulses <= 1

\* "so the frame is only rendered (and the Copper advanced) once": no frame ends
\* while one that ended before it is still to be rendered.  Three things the
\* code does differently: a debugger's stop in the tick that ends a frame leaves
\* it undrawn; a reset by the program restarts the count of frames, and the call
\* goes on until the count it had aimed at; and the tick that owes the time of a
\* DMA block longer than a frame ends several.
FitsFrame == \A c \in use.charges : c < FrameTstates
EveryFrameRendered ==
  ~use.stops /\ ~ResetsItself /\ FitsFrame => history.unrendered <= 1

\* A frame interrupts, is drawn and has its line once.
OncePerFrame == FrameInterrupts /\ LineOncePerFrame /\ EveryFrameRendered
=============================================================================
