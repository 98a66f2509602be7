------------------------------ MODULE NextDma ------------------------------
(* The zxnDMA controller of the ZX Spectrum Next (src/src/next_dma.c) and   *)
(* the part of the machine tick that drives it.                            *)
(*                                                                         *)
(* A program writes the controller's command port one byte at a time.  A   *)
(* byte is a base byte of WR0-WR6, or the parameter that an earlier base   *)
(* byte announced.  A transfer without a prescaler runs inside the port    *)
(* write that enables it; one with a prescaler is paced by the tick, and   *)
(* in continuous mode holds the CPU until it is done.                      *)
(*                                                                         *)
(* The loops of next_dma_run_block and next_dma_step are one action per    *)
(* byte: an endpoint may be an I/O port, and the ports include the         *)
(* controller's own command port and the one that resets the machine, so   *)
(* the loop is re-entered from within.  bus_delay is never set by any code *)
(* of the emulator, so it and `stalled` are left out.                      *)
EXTENDS Integers, Sequences

CONSTANTS
  Base,          \* values of a byte: 256 in the code
  Speed,         \* machine->cpu_speed_multiplier
  Z80Ports,      \* ports a program uses: FALSE for 6B, TRUE for 0B
  ReadsBack,     \* whether a program reads the controller
  Wr0, Wr1, Wr2, Wr3, Wr4, Wr5,  \* base bytes a program writes, decoded
  Commands,      \* WR6 commands a program writes
  Parameters     \* parameter bytes a program writes, by all their readings

Byte == 0..(Base - 1)
Top  == Base * Base - 1
Word == 0..Top

AddrModes == {"DECREMENT", "INCREMENT", "FIXED"}
Modes     == {"CONTINUOUS", "BURST"}
AllCommands == {"RESET", "LOAD", "CONTINUE", "ENABLE", "RESET_A_TIMING",
                "RESET_B_TIMING", "READ_MASK", "START_READ", "READ_STATUS",
                "CLEAR_STATUS", "DISABLE"}
Ops == {"IGNORE", "PORT_A_LOW", "PORT_A_HIGH", "BLOCK_LEN_LOW", "BLOCK_LEN_HIGH",
        "PORT_B_LOW", "PORT_B_HIGH", "A_TIMING", "B_TIMING", "PRESCALER",
        "READ_MASK"}
\* Longest list of parameters that a base byte announces.
MaxPending == 4

ASSUME BaseAssumption  == Base \in Nat /\ Base >= 2
ASSUME SpeedAssumption == Speed \in Nat /\ Speed >= 1
ASSUME ProgramAssumption ==
  /\ Z80Ports \subseteq BOOLEAN /\ ReadsBack \in BOOLEAN
  /\ Wr0 \subseteq [a_to_b: BOOLEAN, a_low: BOOLEAN, a_high: BOOLEAN,
                    len_low: BOOLEAN, len_high: BOOLEAN]
  /\ Wr1 \subseteq [mode: AddrModes, io: BOOLEAN, timing: BOOLEAN]
  /\ Wr2 \subseteq [mode: AddrModes, io: BOOLEAN, timing: BOOLEAN]
  /\ Wr3 \subseteq [mask: BOOLEAN, match: BOOLEAN, enable: BOOLEAN]
  /\ Wr4 \subseteq [mode: Modes, b_low: BOOLEAN, b_high: BOOLEAN,
                    control: BOOLEAN]
  /\ Wr5 \subseteq BOOLEAN
  /\ Commands \subseteq AllCommands
  /\ Parameters \subseteq [value: Byte, cycles: 2..4, prescaled: BOOLEAN,
                           mask: SUBSET (0..6)]

VARIABLES
  dma,      \* NextDma; dma.due stands for next_due - machine->ticks
  at,       \* where the tick is
  call,     \* locals of the transfer loop that is running
  history   \* what the properties remember

vars == <<dma, at, call, history>>

Dma ==
  [ port_a_start: Word, port_b_start: Word, block_len: Word,
    cur_a: Word, cur_b: Word, counter: Word,
    a_to_b: BOOLEAN, a_mode: AddrModes, b_mode: AddrModes,
    a_is_io: BOOLEAN, b_is_io: BOOLEAN, z80_mode: BOOLEAN,
    a_cycle_len: 2..4, b_cycle_len: 2..4, prescaler: Byte,
    mode: Modes, auto_restart: BOOLEAN,
    end_of_block: BOOLEAN, at_least_one: BOOLEAN,
    pending_charge: Nat,
    read_mask: SUBSET (0..6), read_reg: 0..6,
    active_burst: BOOLEAN, hold_cpu: BOOLEAN, in_transfer: BOOLEAN,
    remaining: 0..(Top + 1), due: Int,
    wedged: BOOLEAN, pending: Seq(Ops) ]

-----------------------------------------------------------------------------
(* Addresses, counters and timing.                                         *)

Inc(w) == IF w = Top THEN 0 ELSE w + 1
Dec(w) == IF w = 0 THEN Top ELSE w - 1

\* next_dma_step_addr
StepAddr(w, mode) ==
  CASE mode = "INCREMENT" -> Inc(w)
    [] mode = "DECREMENT" -> Dec(w)
    [] mode = "FIXED"     -> w

SetLow(w, v)  == (w \div Base) * Base + v
SetHigh(w, v) == (v * Base) + (w % Base)

\* next_dma_counter_init
CounterInit(d) == IF d.z80_mode THEN Top ELSE 0

\* next_dma_block_bytes, its loop in closed form: at least one byte moves, and
\* a Z80-compatible counter wraps first.
BlockBytes(counter, len) ==
  IF counter = Top THEN len + 1
  ELSE IF len - counter > 1 THEN len - counter
  ELSE 1

ByteCycles(d) == d.a_cycle_len + d.b_cycle_len
PrescalerTstates(d) == 4 * d.prescaler * Speed
PerByteCycles(d) ==
  IF PrescalerTstates(d) > ByteCycles(d) THEN PrescalerTstates(d)
  ELSE ByteCycles(d)

-----------------------------------------------------------------------------
(* What the controller does with its registers.                            *)

\* next_dma_init
InitialDma ==
  [ port_a_start |-> 0, port_b_start |-> 0, block_len |-> 0,
    cur_a |-> 0, cur_b |-> 0, counter |-> 0,
    a_to_b |-> FALSE, a_mode |-> "DECREMENT", b_mode |-> "DECREMENT",
    a_is_io |-> FALSE, b_is_io |-> FALSE, z80_mode |-> FALSE,
    a_cycle_len |-> 3, b_cycle_len |-> 3, prescaler |-> 0,
    mode |-> "CONTINUOUS", auto_restart |-> FALSE,
    end_of_block |-> FALSE, at_least_one |-> FALSE,
    pending_charge |-> 0,
    read_mask |-> 0..6, read_reg |-> 0,
    active_burst |-> FALSE, hold_cpu |-> FALSE, in_transfer |-> FALSE,
    remaining |-> 0, due |-> 0, wedged |-> FALSE, pending |-> <<>> ]

\* next_dma_reset: next_machine_reset calls it.
ResetDma(d) ==
  [d EXCEPT !.wedged = FALSE, !.pending = <<>>, !.active_burst = FALSE,
            !.hold_cpu = FALSE, !.in_transfer = FALSE, !.remaining = 0,
            !.due = 0, !.counter = 0, !.a_cycle_len = 3, !.b_cycle_len = 3,
            !.prescaler = 0, !.mode = "CONTINUOUS", !.auto_restart = FALSE,
            !.read_mask = 0..6, !.read_reg = 0,
            !.end_of_block = FALSE, !.at_least_one = FALSE]

Load(d) ==
  [d EXCEPT !.cur_a = d.port_a_start, !.cur_b = d.port_b_start,
            !.counter = CounterInit(d)]

\* Mutant: a new block starts with the old addresses.
FinishBlock_KeepsPointers(d) ==
  IF d.auto_restart
  THEN [d EXCEPT !.end_of_block = TRUE, !.counter = CounterInit(d)]
  ELSE [d EXCEPT !.end_of_block = TRUE, !.at_least_one = FALSE]

\* next_dma_finish_block
FinishBlock(d) ==
  IF d.auto_restart
  THEN [Load(d) EXCEPT !.end_of_block = TRUE]
  ELSE [d EXCEPT !.end_of_block = TRUE, !.at_least_one = FALSE]

\* Mutant: every enable transfers a whole block.
Trigger_WholeBlock(d) ==
  LET moved == BlockBytes(CounterInit(d), d.block_len)
  IN  IF d.in_transfer \/ d.active_burst THEN d
      ELSE IF d.prescaler # 0
      THEN [d EXCEPT !.remaining = moved, !.active_burst = TRUE,
                     !.hold_cpu = (d.mode = "CONTINUOUS"), !.due = 0]
      ELSE [d EXCEPT !.remaining = moved, !.in_transfer = TRUE]

\* next_dma_trigger, up to the first byte.
Trigger(d) ==
  LET moved == BlockBytes(d.counter, d.block_len)
  IN  IF d.in_transfer \/ d.active_burst THEN d
      ELSE IF d.prescaler # 0
      THEN [d EXCEPT !.remaining = moved, !.active_burst = TRUE,
                     !.hold_cpu = (d.mode = "CONTINUOUS"), !.due = 0]
      ELSE [d EXCEPT !.remaining = moved, !.in_transfer = TRUE]

\* next_dma_first_read_reg and next_dma_next_read_reg
FirstReadReg(mask) ==
  IF mask = {} THEN 0 ELSE CHOOSE r \in mask : \A q \in mask : r <= q

NextReadReg(mask, cur) ==
  IF mask = {} THEN 0
  ELSE IF \E r \in mask : r > cur
  THEN FirstReadReg({r \in mask : r > cur})
  ELSE FirstReadReg(mask)

\* next_dma_push, for a condition and an operation.
When(condition, op) == IF condition THEN <<op>> ELSE <<>>

\* next_dma_apply_pending, after the operation was taken off the queue.
ApplyPending(d, op, p) ==
  CASE op = "PORT_A_LOW"     -> [d EXCEPT !.port_a_start = SetLow(@, p.value)]
    [] op = "PORT_A_HIGH"    -> [d EXCEPT !.port_a_start = SetHigh(@, p.value)]
    [] op = "BLOCK_LEN_LOW"  -> [d EXCEPT !.block_len = SetLow(@, p.value)]
    [] op = "BLOCK_LEN_HIGH" -> [d EXCEPT !.block_len = SetHigh(@, p.value)]
    [] op = "PORT_B_LOW"     -> [d EXCEPT !.port_b_start = SetLow(@, p.value)]
    [] op = "PORT_B_HIGH"    -> [d EXCEPT !.port_b_start = SetHigh(@, p.value)]
    [] op = "A_TIMING"       -> [d EXCEPT !.a_cycle_len = p.cycles]
    [] op = "B_TIMING"       -> [d EXCEPT !.b_cycle_len = p.cycles,
                                          !.pending = @ \o When(p.prescaled,
                                                                "PRESCALER")]
    [] op = "PRESCALER"      -> [d EXCEPT !.prescaler = p.value]
    [] op = "READ_MASK"      -> [d EXCEPT !.read_mask = p.mask,
                                          !.read_reg = FirstReadReg(p.mask)]
    [] op = "IGNORE"         -> d

\* Mutant: the CPU is not given back.
Disable_KeepsHold(d) ==
  [d EXCEPT !.active_burst = FALSE, !.remaining = 0, !.in_transfer = FALSE,
            !.at_least_one = FALSE]

\* Commands 83 and C3.
Disable(d) ==
  [d EXCEPT !.active_burst = FALSE, !.hold_cpu = FALSE, !.remaining = 0,
            !.in_transfer = FALSE, !.at_least_one = FALSE]
ResetCommand(d) ==
  [Disable(d) EXCEPT !.end_of_block = FALSE, !.a_cycle_len = 3,
                     !.b_cycle_len = 3, !.prescaler = 0, !.auto_restart = FALSE]

\* next_dma_command
Command(d, c) ==
  CASE c = "RESET"          -> ResetCommand(d)
    [] c = "LOAD"           -> [Load(d) EXCEPT !.end_of_block = FALSE]
    [] c = "CONTINUE"       -> [d EXCEPT !.counter = CounterInit(d),
                                         !.end_of_block = FALSE]
    [] c = "ENABLE"         -> Trigger(d)
    [] c = "RESET_A_TIMING" -> [d EXCEPT !.a_cycle_len = 3]
    [] c = "RESET_B_TIMING" -> [d EXCEPT !.b_cycle_len = 3]
    [] c = "READ_MASK"      -> [d EXCEPT !.pending = <<"READ_MASK">>]
    [] c = "START_READ"     -> [d EXCEPT !.read_reg = FirstReadReg(d.read_mask)]
    [] c = "READ_STATUS"    -> [d EXCEPT !.read_reg = 0]
    [] c = "CLEAR_STATUS"   -> [d EXCEPT !.end_of_block = FALSE,
                                         !.at_least_one = FALSE]
    [] c = "DISABLE"        -> Disable(d)

\* The base bytes, each a branch of next_dma_decode_base.
WriteWr0(d, b) ==
  [d EXCEPT !.a_to_b = b.a_to_b,
            !.pending = When(b.a_low, "PORT_A_LOW")
                        \o When(b.a_high, "PORT_A_HIGH")
                        \o When(b.len_low, "BLOCK_LEN_LOW")
                        \o When(b.len_high, "BLOCK_LEN_HIGH")]
WriteWr1(d, b) ==
  [d EXCEPT !.a_mode = b.mode, !.a_is_io = b.io,
            !.pending = When(b.timing, "A_TIMING")]
WriteWr2(d, b) ==
  [d EXCEPT !.b_mode = b.mode, !.b_is_io = b.io,
            !.pending = When(b.timing, "B_TIMING")]
WriteWr3(d, b) ==
  LET ignoring == [d EXCEPT !.pending = When(b.mask, "IGNORE")
                                        \o When(b.match, "IGNORE")]
  IN  IF b.enable THEN Trigger(ignoring) ELSE ignoring
WriteWr4(d, b) ==
  [d EXCEPT !.mode = b.mode,
            !.pending = When(b.b_low, "PORT_B_LOW")
                        \o When(b.b_high, "PORT_B_HIGH"),
            !.wedged = ~b.b_low /\ ~b.b_high /\ b.control]
WriteWr5(d, restart) == [d EXCEPT !.auto_restart = restart]

Parameter(d, p) ==
  ApplyPending([d EXCEPT !.pending = Tail(@)], Head(d.pending), p)

\* What the controller may be after one more byte on its command port:
\* next_dma_write_command.
Written(d) ==
  IF d.wedged THEN {d}
  ELSE IF d.pending # <<>> THEN {Parameter(d, p) : p \in Parameters}
  ELSE {WriteWr0(d, b) : b \in Wr0} \cup {WriteWr1(d, b) : b \in Wr1}
       \cup {WriteWr2(d, b) : b \in Wr2} \cup {WriteWr3(d, b) : b \in Wr3}
       \cup {WriteWr4(d, b) : b \in Wr4} \cup {WriteWr5(d, b) : b \in Wr5}
       \cup {Command(d, c) : c \in Commands}

\* Ports 6B and 0B both reach the controller and choose its mode.
SetZ80Mode(d, on) == [d EXCEPT !.z80_mode = on]

\* next_dma_read_command
ReadCommand(d) == [d EXCEPT !.read_reg = NextReadReg(d.read_mask, d.read_reg)]

\* What an I/O access to an arbitrary port may do to the controller.
PortRead(d)    == {d} \cup {ReadCommand(SetZ80Mode(d, on)) :
                             on \in IF ReadsBack THEN Z80Ports ELSE {}}
PortWritten(d) == {d, ResetDma(d)}
                  \cup UNION {Written(SetZ80Mode(d, on)) : on \in Z80Ports}

-----------------------------------------------------------------------------
(* One byte of a transfer.                                                 *)

\* next_dma_port_read and next_dma_port_write: the endpoint is accessed, then
\* its address steps, whatever the access did to the controller.
IsIo(d, a)      == IF a THEN d.a_is_io ELSE d.b_is_io
StepPointer(d, a) == IF a THEN [d EXCEPT !.cur_a = StepAddr(@, d.a_mode)]
                          ELSE [d EXCEPT !.cur_b = StepAddr(@, d.b_mode)]
AfterRead(d, a)  == {StepPointer(e, a) : e \in IF IsIo(d, a) THEN PortRead(d) ELSE {d}}
AfterWrite(d, a) == {StepPointer(e, a) : e \in IF IsIo(d, a) THEN PortWritten(d) ELSE {d}}

\* Mutant: the counter is wider than its register.
Counted_Wide(d) == [d EXCEPT !.counter = @ + 1, !.remaining = @ - 1]

Counted(d) == [d EXCEPT !.counter = Inc(@), !.remaining = @ - 1]
Moved(d, a) == UNION {AfterWrite(Counted(e), ~a) : e \in AfterRead(d, a)}

\* The same byte between endpoints that leave the controller alone.
Undisturbed(d, a) == StepPointer(Counted(StepPointer(d, a)), ~a)

\* History: whether counter and pointers are as the last load left them or as
\* the transfer moved them, and whether the block was reprogrammed since the
\* transfer was enabled.
AtStart(d) == /\ d.cur_a = d.port_a_start
              /\ d.cur_b = d.port_b_start
              /\ d.counter = CounterInit(d)
SameBlock(d, e) == e.counter = d.counter /\ e.block_len = d.block_len
SamePointers(d, e) ==
  /\ e.port_a_start = d.port_a_start /\ e.port_b_start = d.port_b_start
  /\ e.cur_a = d.cur_a /\ e.cur_b = d.cur_b /\ e.counter = d.counter
  /\ e.a_mode = d.a_mode /\ e.b_mode = d.b_mode /\ e.z80_mode = d.z80_mode
Remember(plain, e) ==
  [ loaded |-> AtStart(e) \/ (history.loaded /\ SamePointers(plain, e)),
    reprogrammed |-> history.reprogrammed \/ ~SameBlock(plain, e) ]

Busy(d) == d.active_burst \/ d.in_transfer

-----------------------------------------------------------------------------
(* One machine tick: next_dma_step, the CPU's turn, the end of the tick.   *)

Idle == [src_is_a |-> TRUE, per |-> 0, duration |-> 0, moved |-> 0]

Init ==
  /\ dma = InitialDma
  /\ at = "dma"
  /\ call = Idle
  /\ history = [loaded |-> TRUE, reprogrammed |-> FALSE]

\* next_dma_step, up to its loop.
EnterStep ==
  /\ at = "dma" /\ dma.active_burst
  /\ dma' = [dma EXCEPT !.in_transfer = TRUE]
  /\ call' = [Idle EXCEPT !.src_is_a = dma.a_to_b, !.per = PerByteCycles(dma)]
  /\ at' = "step"
  /\ UNCHANGED history

NoStep ==
  /\ at = "dma" /\ ~dma.active_burst
  /\ at' = "cpu"
  /\ UNCHANGED <<dma, call, history>>

Paid(d) ==
  [d EXCEPT !.at_least_one = TRUE,
            !.pending_charge = @ + IF d.hold_cpu THEN 0 ELSE ByteCycles(d),
            !.due = @ + call.per]

\* One pass of the loop of next_dma_step.
StepByte ==
  /\ at = "step" /\ dma.remaining > 0 /\ dma.due <= 0
  /\ \E e \in Moved(dma, call.src_is_a) :
       /\ history' = Remember(Undisturbed(dma, call.src_is_a), e)
       /\ IF e.in_transfer
          THEN /\ dma' = Paid(e)
               /\ call' = [call EXCEPT !.moved = @ + 1]
               /\ UNCHANGED at
          ELSE /\ dma' = e
               /\ call' = Idle
               /\ at' = "cpu"

\* What next_dma_step does after the last byte of a block.
Stopped(d) ==
  IF d.auto_restart /\ ~d.hold_cpu
  THEN [d EXCEPT !.remaining = BlockBytes(d.counter, d.block_len)]
  ELSE [d EXCEPT !.active_burst = FALSE, !.hold_cpu = FALSE]

LeaveStep ==
  LET left == [dma EXCEPT !.in_transfer = FALSE]
  IN  /\ at = "step" /\ ~(dma.remaining > 0 /\ dma.due <= 0)
      /\ dma' = IF dma.remaining = 0 THEN Stopped(FinishBlock(left)) ELSE left
      /\ history' = IF dma.remaining = 0
                    THEN Remember(FinishBlock(left), dma') ELSE history
      /\ call' = Idle
      /\ at' = "cpu"

CpuFrozen == dma.active_burst /\ dma.hold_cpu

\* The CPU's turn: frozen, or an instruction that leaves the controller alone.
CpuPasses ==
  /\ at = "cpu"
  /\ at' = "end"
  /\ UNCHANGED <<dma, call, history>>

\* OUT to the command port.  A transfer without a prescaler starts in it.
CpuWrites ==
  /\ at = "cpu" /\ ~CpuFrozen
  /\ \E on \in Z80Ports : \E e \in Written(SetZ80Mode(dma, on)) :
       /\ dma' = e
       /\ history' = IF Busy(e) /\ ~Busy(dma)
                     THEN [Remember(dma, e) EXCEPT !.reprogrammed = FALSE]
                     ELSE Remember(dma, e)
       /\ IF e.in_transfer
          THEN /\ at' = "block"
               /\ call' = [Idle EXCEPT !.src_is_a = e.a_to_b,
                                       !.duration = e.remaining
                                                    * PerByteCycles(e)]
          ELSE /\ at' = "end"
               /\ UNCHANGED call

CpuReads ==
  /\ at = "cpu" /\ ~CpuFrozen /\ ReadsBack
  /\ \E on \in Z80Ports : dma' = ReadCommand(SetZ80Mode(dma, on))
  /\ history' = Remember(dma, dma')
  /\ at' = "end"
  /\ UNCHANGED call

\* A machine reset, by the CPU's own write of NR 02 or by the front end, which
\* comes between two ticks.
MachineReset ==
  /\ \/ at = "cpu" /\ ~CpuFrozen /\ at' = "end"
     \/ at = "dma" /\ UNCHANGED at
  /\ dma' = ResetDma(dma)
  /\ history' = Remember(dma, dma')
  /\ UNCHANGED call

\* One pass of the loop of next_dma_run_block.
BlockByte ==
  /\ at = "block" /\ dma.remaining > 0
  /\ \E e \in Moved(dma, call.src_is_a) :
       /\ history' = Remember(Undisturbed(dma, call.src_is_a), e)
       /\ IF e.in_transfer
          THEN /\ dma' = [e EXCEPT !.at_least_one = TRUE]
               /\ UNCHANGED <<at, call>>
          ELSE /\ dma' = e
               /\ call' = Idle
               /\ at' = "end"

LeaveBlock ==
  LET done == FinishBlock([dma EXCEPT !.in_transfer = FALSE,
                                      !.pending_charge = @ + call.duration])
  IN  /\ at = "block" /\ dma.remaining = 0
      /\ dma' = done
      /\ history' = Remember(done, done)
      /\ call' = Idle
      /\ at' = "end"

\* Mutant: the next byte is not nearer when a tick has passed.
EndTick_StandsStill ==
  /\ at = "end"
  /\ dma' = [dma EXCEPT !.pending_charge = 0]
  /\ at' = "dma"
  /\ UNCHANGED <<call, history>>

\* The clock passes the tick and the bus time of the bytes moved in it:
\* next_dma_take_charge.
EndTick ==
  /\ at = "end"
  /\ dma' = [dma EXCEPT !.pending_charge = 0,
                        !.due = IF dma.active_burst
                                THEN @ - 1 - dma.pending_charge ELSE @]
  /\ at' = "dma"
  /\ UNCHANGED <<call, history>>

Next ==
  \/ EnterStep \/ NoStep \/ StepByte \/ LeaveStep
  \/ CpuPasses \/ CpuWrites \/ CpuReads \/ MachineReset
  \/ BlockByte \/ LeaveBlock \/ EndTick

Spec == Init /\ [][Next]_vars

\* The frame loop ticks as long as the emulator runs.
FairSpec == Spec /\ WF_vars(Next)

-----------------------------------------------------------------------------
(* What the controller promises.                                           *)

\* Every register keeps its type; in particular no base byte announces more
\* parameters than the queue of NEXT_DMA_PENDING_CAPACITY holds, so none is
\* dropped by next_dma_push.
TypeOK ==
  /\ dma \in Dma
  /\ Len(dma.pending) <= MaxPending
  /\ at \in {"dma", "step", "cpu", "block", "end"}
  /\ call \in [src_is_a: BOOLEAN, per: Nat, duration: Nat, moved: Nat]
  /\ history \in [loaded: BOOLEAN, reprogrammed: BOOLEAN]

\* A CPU is held only by a transfer that still has bytes to move, and a
\* transfer that is active has bytes to move: nothing waits for a transfer that
\* no tick will finish, whatever commands the program, or the transfer itself
\* through the command port, wrote on the way.
HeldOnlyByTransfer ==
  /\ dma.hold_cpu => dma.active_burst
  /\ at # "step" => (dma.active_burst => dma.remaining > 0)

\* in_transfer is set exactly while a loop runs; left set by one of the early
\* returns it would make next_dma_trigger ignore every later enable.
TransferringOnlyInLoop == dma.in_transfer <=> at \in {"step", "block"}

\* Bytes left and the counter tell the same story while a transfer is not
\* reprogrammed, also through the wrap of a Z80-compatible counter and through
\* auto-restart: the transfer moves the whole block and nothing more.
RemainingIsBlock ==
  Busy(dma) /\ ~history.reprogrammed /\ dma.remaining > 0
    => dma.remaining = BlockBytes(dma.counter, dma.block_len)

\* The addresses a program reads back are the start addresses advanced by what
\* the counter it reads back says was moved.
Advanced(w, mode, n) ==
  CASE mode = "INCREMENT" -> (w + n) % (Top + 1)
    [] mode = "DECREMENT" -> (w - n) % (Top + 1)
    [] mode = "FIXED"     -> w
PointersFollowCounter ==
  LET n == (dma.counter - CounterInit(dma)) % (Top + 1)
  IN  history.loaded =>
        /\ dma.cur_a = Advanced(dma.port_a_start, dma.a_mode, n)
        /\ dma.cur_b = Advanced(dma.port_b_start, dma.b_mode, n)

\* A transfer that was disabled or reset, also by a byte it wrote itself, does
\* not end as if its block were complete: end_of_block rises only when no byte
\* is left and no command of that moment cleared the transfer.
EndOfBlockIsComplete ==
  [][~dma.end_of_block /\ dma'.end_of_block
       => at \in {"step", "block"} /\ dma.remaining = 0 /\ dma.in_transfer]_vars

\* Blocks are moved whole, by a loop that is marked as running while it does,
\* and end when they are.
BlocksAreWhole == [](RemainingIsBlock /\ TransferringOnlyInLoop) /\ EndOfBlockIsComplete

\* The bus time of a byte passes once: a transfer that holds the CPU leaves no
\* charge, the ticks it lasts being spent already.
HeldTimePassesOnce == [][dma.hold_cpu /\ at = "step" => 
                         dma'.pending_charge = dma.pending_charge]_vars

\* "Burst mode returns the bus to the CPU between bytes": one pass of the tick
\* moves at most one byte of a burst.
BurstSharesBus == at = "step" /\ ~dma.hold_cpu => call.moved <= 1

\* A held CPU gets the bus back.
CpuResumes == dma.hold_cpu ~> ~dma.hold_cpu
=============================================================================
