--------------------------- MODULE NextDma_proofs ---------------------------
(* Proofs about NextDma for every width of a byte, every speed and every   *)
(* set of bytes a program may write.                                       *)
EXTENDS NextDma, TLAPS, SequenceTheorems

-----------------------------------------------------------------------------
(* Words.                                                                  *)

LEMMA TopType == Top \in Nat /\ Top >= 3
<1>1. Base \in Nat /\ Base >= 2
  BY BaseAssumption
<1>2. Base * Base >= 2 * Base
  BY <1>1
<1> QED BY <1>1, <1>2 DEF Top

LEMMA IncType == ASSUME NEW w \in Word PROVE Inc(w) \in Word
BY TopType DEF Inc, Word

LEMMA DecType == ASSUME NEW w \in Word PROVE Dec(w) \in Word
BY TopType DEF Dec, Word

LEMMA StepAddrType ==
  ASSUME NEW w \in Word, NEW mode \in AddrModes
  PROVE  StepAddr(w, mode) \in Word
BY IncType, DecType DEF StepAddr, AddrModes

(* The halves of a word, each replaced by a byte.                          *)
LEMMA HalvesType ==
  ASSUME NEW w \in Word, NEW v \in Byte
  PROVE  SetLow(w, v) \in Word /\ SetHigh(w, v) \in Word
<1>1. Base \in Nat /\ Base >= 2
  BY BaseAssumption
<1>2. w \in Nat /\ w < Base * Base /\ v \in Nat /\ v < Base
  BY <1>1 DEF Word, Top, Byte
<1> DEFINE high == w \div Base
           low == w % Base
<1>3. high \in Nat /\ low \in Nat /\ low < Base /\ w = high * Base + low
  BY <1>1, <1>2
<1> HIDE DEF high, low
<1>4. high < Base
  <2>1. SUFFICES ASSUME high >= Base PROVE FALSE
    BY <1>1, <1>3
  <2>2. high * Base >= Base * Base
    BY <1>1, <1>3, <2>1
  <2> QED BY <1>1, <1>2, <1>3, <2>2
<1>5. ASSUME NEW a \in Nat, NEW b \in Nat, a < Base, b < Base
      PROVE  a * Base + b \in Word
  <2>1. a * Base <= (Base - 1) * Base
    BY <1>1, <1>5
  <2>2. (Base - 1) * Base = Base * Base - Base
    BY <1>1
  <2>3. a * Base \in Nat
    BY <1>1, <1>5
  <2> QED BY <1>1, <1>5, <2>1, <2>2, <2>3 DEF Word, Top
<1>6. high * Base + v \in Word
  BY <1>2, <1>3, <1>4, <1>5
<1>7. v * Base + low \in Word
  BY <1>2, <1>3, <1>5
<1> QED BY <1>6, <1>7 DEF SetLow, SetHigh, high, low

LEMMA BlockBytesType ==
  ASSUME NEW c \in Word, NEW len \in Word
  PROVE  BlockBytes(c, len) \in 1..(Top + 1)
BY TopType DEF BlockBytes, Word

(* A byte that is not the last leaves one byte less of the same block,     *)
(* through the wrap of the counter.                                        *)
LEMMA BlockBytesStep ==
  ASSUME NEW c \in Word, NEW len \in Word, BlockBytes(c, len) > 1
  PROVE  BlockBytes(Inc(c), len) = BlockBytes(c, len) - 1
BY TopType DEF BlockBytes, Inc, Word

-----------------------------------------------------------------------------
(* Types of what the operators return.                                     *)

(* d is well typed and announces no more parameters than the queue holds.   *)
Typed(d) == d \in Dma /\ Len(d.pending) <= MaxPending

LEMMA CounterInitType == ASSUME NEW d PROVE CounterInit(d) \in Word
BY TopType DEF CounterInit, Word

LEMMA FirstReadRegType ==
  ASSUME NEW mask \in SUBSET (0..6)
  PROVE  FirstReadReg(mask) \in 0..6
<1>1. CASE mask = {}
  BY <1>1 DEF FirstReadReg
<1>2. CASE mask # {}
  <2>1. \E r \in mask : \A q \in mask : r <= q
    <3> DEFINE least(r) == r \in mask /\ \A q \in mask : r <= q
    <3>1. mask \subseteq 0..6
      OBVIOUS
    <3>2. 0 \in mask => least(0)
      BY <3>1
    <3>3. 0 \notin mask /\ 1 \in mask => least(1)
      BY <3>1
    <3>4. (\A r \in 0..1 : r \notin mask) /\ 2 \in mask => least(2)
      BY <3>1
    <3>5. (\A r \in 0..2 : r \notin mask) /\ 3 \in mask => least(3)
      BY <3>1
    <3>6. (\A r \in 0..3 : r \notin mask) /\ 4 \in mask => least(4)
      BY <3>1
    <3>7. (\A r \in 0..4 : r \notin mask) /\ 5 \in mask => least(5)
      BY <3>1
    <3>8. (\A r \in 0..5 : r \notin mask) => 6 \in mask /\ least(6)
      <4>1. SUFFICES ASSUME \A r \in 0..5 : r \notin mask
                     PROVE  6 \in mask /\ least(6)
        OBVIOUS
      <4>2. \A r \in mask : r = 6
        BY <3>1, <4>1
      <4>3. PICK r \in mask : TRUE
        BY <1>2
      <4>4. 6 \in mask
        BY <4>2, <4>3
      <4> QED BY <4>2, <4>4
    <3> QED BY <3>2, <3>3, <3>4, <3>5, <3>6, <3>7, <3>8
  <2>2. FirstReadReg(mask) \in mask
    BY <1>2, <2>1, Zenon DEF FirstReadReg
  <2> QED BY <2>2
<1> QED BY <1>1, <1>2

LEMMA NextReadRegType ==
  ASSUME NEW mask \in SUBSET (0..6), NEW cur \in 0..6
  PROVE  NextReadReg(mask, cur) \in 0..6
<1>1. {r \in mask : r > cur} \in SUBSET (0..6)
  OBVIOUS
<1> QED BY <1>1, FirstReadRegType DEF NextReadReg

LEMMA WhenType ==
  ASSUME NEW c, NEW op \in Ops
  PROVE  When(c, op) \in Seq(Ops) /\ Len(When(c, op)) <= 1
BY DEF When

LEMMA AppendedType ==
  ASSUME NEW s \in Seq(Ops), NEW t \in Seq(Ops)
  PROVE  s \o t \in Seq(Ops) /\ Len(s \o t) = Len(s) + Len(t)
BY ConcatProperties

(* The values that the operators assign.                                   *)
LEMMA Literals ==
  /\ 0 \in Word /\ 0 \in Byte /\ 0 \in 0..(Top + 1) /\ 0 \in Int /\ 0 \in Nat
  /\ 0 \in 0..6 /\ 0..6 \in SUBSET (0..6) /\ 3 \in 2..4
  /\ "DECREMENT" \in AddrModes /\ "CONTINUOUS" \in Modes
  /\ <<>> \in Seq(Ops) /\ Len(<<>>) <= MaxPending
  /\ TRUE \in BOOLEAN /\ FALSE \in BOOLEAN
BY TopType, BaseAssumption DEF Word, Byte, AddrModes, Modes, MaxPending

LEMMA InitialDmaTyped == Typed(InitialDma)
<1>1. InitialDma \in Dma
  BY Literals DEF InitialDma, Dma
<1> QED BY <1>1, Literals DEF InitialDma, Typed

LEMMA DmaFields ==
  ASSUME NEW d \in Dma
  PROVE  /\ d.port_a_start \in Word /\ d.port_b_start \in Word
         /\ d.block_len \in Word /\ d.counter \in Word
         /\ d.cur_a \in Word /\ d.cur_b \in Word
         /\ d.a_mode \in AddrModes /\ d.b_mode \in AddrModes
         /\ d.a_cycle_len \in 2..4 /\ d.b_cycle_len \in 2..4
         /\ d.prescaler \in Byte /\ d.pending_charge \in Nat
         /\ d.read_mask \in SUBSET (0..6) /\ d.read_reg \in 0..6
         /\ d.active_burst \in BOOLEAN /\ d.hold_cpu \in BOOLEAN
         /\ d.in_transfer \in BOOLEAN /\ d.remaining \in 0..(Top + 1)
         /\ d.due \in Int /\ d.pending \in Seq(Ops)
BY DEF Dma

LEMMA ResetDmaTyped ==
  ASSUME NEW d \in Dma PROVE Typed(ResetDma(d))
<1> DEFINE stopped == [d EXCEPT !.wedged = FALSE, !.pending = <<>>,
                                !.active_burst = FALSE, !.hold_cpu = FALSE,
                                !.in_transfer = FALSE, !.remaining = 0,
                                !.due = 0]
           timed == [stopped EXCEPT !.counter = 0, !.a_cycle_len = 3,
                                    !.b_cycle_len = 3, !.prescaler = 0,
                                    !.mode = "CONTINUOUS"]
<1>1. stopped \in Dma
  BY Literals, Zenon DEF Dma
<1>2. timed \in Dma
  <2> HIDE DEF stopped
  <2> QED BY <1>1, Literals, Zenon DEF Dma
<1>3. ResetDma(d) = [timed EXCEPT !.auto_restart = FALSE, !.read_mask = 0..6,
                                  !.read_reg = 0, !.end_of_block = FALSE,
                                  !.at_least_one = FALSE]
  BY Zenon DEF ResetDma
<1>4. ResetDma(d) \in Dma
  <2> HIDE DEF timed
  <2> DEFINE reads == [timed EXCEPT !.auto_restart = FALSE,
                                    !.read_mask = 0..6, !.read_reg = 0]
  <2>1. reads \in Dma
    BY <1>2, 0..6 \in SUBSET (0..6), 0 \in 0..6, Zenon DEF Dma
  <2>2. ResetDma(d) = [reads EXCEPT !.end_of_block = FALSE,
                                    !.at_least_one = FALSE]
    BY <1>3, Zenon
  <2> HIDE DEF reads
  <2>3. [reads EXCEPT !.end_of_block = FALSE, !.at_least_one = FALSE] \in Dma
    BY <2>1, Zenon DEF Dma
  <2> QED BY <2>2, <2>3, Zenon
<1>5. ResetDma(d).pending = <<>>
  BY DEF ResetDma, Dma
<1> QED BY <1>4, <1>5, Literals DEF Typed

LEMMA LoadTyped ==
  ASSUME NEW d \in Dma
  PROVE  Load(d) \in Dma /\ Load(d).pending = d.pending
<1>1. Load(d) \in Dma
  BY CounterInitType, DmaFields, Zenon DEF Load, Dma
<1> QED BY <1>1 DEF Load, Dma

LEMMA FinishBlockTyped ==
  ASSUME NEW d \in Dma
  PROVE  FinishBlock(d) \in Dma /\ FinishBlock(d).pending = d.pending
<1>1. CASE d.auto_restart
  <2>1. FinishBlock(d) = [Load(d) EXCEPT !.end_of_block = TRUE]
    BY <1>1, Zenon DEF FinishBlock
  <2>2. FinishBlock(d) \in Dma
    <3> DEFINE e == Load(d)
    <3>1. e \in Dma
      BY LoadTyped
    <3>2. FinishBlock(d) = [e EXCEPT !.end_of_block = TRUE]
      BY <2>1
    <3> HIDE DEF e
    <3> QED BY <3>1, <3>2, Zenon DEF Dma
  <2> QED BY <2>1, <2>2, LoadTyped DEF Dma
<1>2. CASE ~d.auto_restart
  <2>1. FinishBlock(d) = [d EXCEPT !.end_of_block = TRUE, !.at_least_one = FALSE]
    BY <1>2, Zenon DEF FinishBlock
  <2>2. FinishBlock(d) \in Dma
    <3>1. [d EXCEPT !.end_of_block = TRUE, !.at_least_one = FALSE] \in Dma
      BY Zenon DEF Dma
    <3> QED BY <2>1, <3>1, Zenon
  <2> QED BY <2>1, <2>2 DEF Dma
<1> QED BY <1>1, <1>2

LEMMA TriggerTyped ==
  ASSUME NEW d \in Dma
  PROVE  Trigger(d) \in Dma /\ Trigger(d).pending = d.pending
<1> DEFINE moved == BlockBytes(d.counter, d.block_len)
           hold  == (d.mode = "CONTINUOUS")
<1>1. moved \in 0..(Top + 1) /\ hold \in BOOLEAN
  BY BlockBytesType, DmaFields, TopType
<1>2. Trigger(d) = IF d.in_transfer \/ d.active_burst THEN d
                   ELSE IF d.prescaler # 0
                   THEN [d EXCEPT !.remaining = moved, !.active_burst = TRUE,
                                  !.hold_cpu = hold, !.due = 0]
                   ELSE [d EXCEPT !.remaining = moved, !.in_transfer = TRUE]
  BY Zenon DEF Trigger
<1> HIDE DEF moved, hold
<1>3. [d EXCEPT !.remaining = moved, !.active_burst = TRUE,
                !.hold_cpu = hold, !.due = 0] \in Dma
  BY <1>1, Literals, Zenon DEF Dma
<1>4. [d EXCEPT !.remaining = moved, !.in_transfer = TRUE] \in Dma
  BY <1>1, Literals, Zenon DEF Dma
<1>5. Trigger(d) \in Dma
  BY <1>2, <1>3, <1>4, Zenon
<1> QED BY <1>2, <1>5 DEF Dma

LEMMA DisableTyped ==
  ASSUME NEW d \in Dma
  PROVE  /\ Disable(d) \in Dma /\ Disable(d).pending = d.pending
         /\ ResetCommand(d) \in Dma /\ ResetCommand(d).pending = d.pending
<1>1. Disable(d) \in Dma
  BY Literals, Zenon DEF Disable, Dma
<1>2. Disable(d).pending = d.pending
  BY DEF Disable, Dma
<1>3. ResetCommand(d) \in Dma
  <2> DEFINE e == Disable(d)
  <2>1. ResetCommand(d) = [e EXCEPT !.end_of_block = FALSE, !.a_cycle_len = 3,
                            !.b_cycle_len = 3, !.prescaler = 0,
                            !.auto_restart = FALSE]
    BY Zenon DEF ResetCommand
  <2> HIDE DEF e
  <2>2. e \in Dma
    BY <1>1 DEF e
  <2>3. 3 \in 2..4 /\ 0 \in Byte
    BY Literals
  <2>4. [e EXCEPT !.end_of_block = FALSE, !.a_cycle_len = 3,
                  !.b_cycle_len = 3, !.prescaler = 0,
                  !.auto_restart = FALSE] \in Dma
    BY <2>2, <2>3, Zenon DEF Dma
  <2> QED BY <2>1, <2>4, Zenon
<1>4. ResetCommand(d).pending = d.pending
  BY <1>1, <1>2 DEF ResetCommand, Dma
<1> QED BY <1>1, <1>2, <1>3, <1>4

-----------------------------------------------------------------------------
(* What one byte on the command port can do to a transfer: nothing, end    *)
(* it, or start one where none is running.                                 *)

Steady(d, e) == /\ e.active_burst = d.active_burst /\ e.hold_cpu = d.hold_cpu
                /\ e.in_transfer = d.in_transfer /\ e.remaining = d.remaining
Ended(e) == ~e.active_burst /\ ~e.hold_cpu /\ ~e.in_transfer /\ e.remaining = 0
Started(d, e) == /\ ~Busy(d) /\ Busy(e)
                 /\ ~(e.active_burst /\ e.in_transfer)
                 /\ e.hold_cpu => e.active_burst
                 /\ e.remaining = BlockBytes(e.counter, e.block_len)
CommandStep(d, e) ==
  /\ Typed(e)
  /\ Steady(d, e) \/ Ended(e) \/ Started(d, e)
  /\ e.end_of_block => d.end_of_block
  /\ e.pending_charge = d.pending_charge

LEMMA TriggerStep ==
  ASSUME NEW d \in Dma, Typed(d), d.hold_cpu => d.active_burst
  PROVE  CommandStep(d, Trigger(d))
<1>1. Typed(Trigger(d))
  BY TriggerTyped DEF Typed
<1>2. CASE Busy(d)
  <2>1. Trigger(d) = d
    BY <1>2 DEF Trigger, Busy
  <2> QED BY <1>1, <2>1 DEF CommandStep, Steady
<1>3. CASE ~Busy(d) /\ d.prescaler # 0
  BY <1>1, <1>3 DEF CommandStep, Started, Trigger, Busy, Dma
<1>4. CASE ~Busy(d) /\ d.prescaler = 0
  BY <1>1, <1>4 DEF CommandStep, Started, Trigger, Busy, Dma
<1> QED BY <1>2, <1>3, <1>4

LEMMA DisableStep ==
  ASSUME NEW d \in Dma, Typed(d)
  PROVE  CommandStep(d, Disable(d)) /\ CommandStep(d, ResetCommand(d))
<1> DEFINE e == Disable(d)
           r == ResetCommand(d)
<1>1. Typed(e) /\ Typed(r)
  BY DisableTyped DEF Typed
<1>2. /\ Ended(e) /\ e.end_of_block = d.end_of_block
      /\ e.pending_charge = d.pending_charge
  BY DEF Ended, Disable, Dma
<1>3. Ended(r) /\ ~r.end_of_block /\ r.pending_charge = d.pending_charge
  <2> HIDE DEF e
  <2>1. e \in Dma
    BY <1>1 DEF Typed
  <2>2. r = [e EXCEPT !.end_of_block = FALSE, !.a_cycle_len = 3,
                      !.b_cycle_len = 3, !.prescaler = 0,
                      !.auto_restart = FALSE]
    BY Zenon DEF ResetCommand, e
  <2> HIDE DEF r
  <2> QED BY <1>2, <2>1, <2>2 DEF Ended, Dma
<1> HIDE DEF e, r
<1>4. CommandStep(d, e) /\ CommandStep(d, r)
  BY <1>1, <1>2, <1>3 DEF CommandStep
<1> QED BY <1>4 DEF e, r

(* A command that touches none of the fields of a transfer.                *)
LEMMA OtherStep ==
  ASSUME NEW d \in Dma, Typed(d), NEW e \in Dma,
         Len(e.pending) <= MaxPending, Steady(d, e),
         e.end_of_block => d.end_of_block, e.pending_charge = d.pending_charge
  PROVE  CommandStep(d, e)
BY DEF CommandStep, Typed

LEMMA CommandIsStep ==
  ASSUME NEW d \in Dma, Typed(d), d.hold_cpu => d.active_burst,
         NEW c \in AllCommands
  PROVE  CommandStep(d, Command(d, c))
<1> USE DEF Steady
<1>1. CASE c = "RESET"
  BY <1>1, DisableStep DEF Command
<1>2. CASE c = "LOAD"
  <2> DEFINE l == Load(d)
             e == [l EXCEPT !.end_of_block = FALSE]
  <2>1. Command(d, c) = e
    BY <1>2 DEF Command
  <2>2. l \in Dma /\ l.pending = d.pending /\ Steady(d, l)
        /\ l.pending_charge = d.pending_charge
    BY LoadTyped DEF Load, Dma
  <2> HIDE DEF l
  <2>3. e \in Dma
    BY <2>2, Zenon DEF Dma
  <2>4. e.pending = d.pending /\ Steady(d, e) /\ e.pending_charge = d.pending_charge
        /\ (e.end_of_block => d.end_of_block)
    BY <2>2 DEF Dma
  <2> HIDE DEF e
  <2> QED BY <2>1, <2>3, <2>4, OtherStep DEF Typed
<1>3. CASE c = "CONTINUE"
  <2> DEFINE e == [d EXCEPT !.counter = CounterInit(d), !.end_of_block = FALSE]
  <2>1. Command(d, c) = e
    BY <1>3 DEF Command
  <2>2. e \in Dma
    BY CounterInitType, Zenon DEF Dma
  <2>3. e.pending = d.pending /\ Steady(d, e) /\ e.pending_charge = d.pending_charge
        /\ (e.end_of_block => d.end_of_block)
    BY DEF Dma
  <2> HIDE DEF e
  <2> QED BY <2>1, <2>2, <2>3, OtherStep DEF Typed
<1>4. CASE c = "ENABLE"
  BY <1>4, TriggerStep DEF Command
<1>5. CASE c = "RESET_A_TIMING"
  <2> DEFINE e == [d EXCEPT !.a_cycle_len = 3]
  <2>1. Command(d, c) = e
    BY <1>5 DEF Command
  <2>2. e \in Dma
    BY 3 \in 2..4, Zenon DEF Dma
  <2>3. e.pending = d.pending /\ Steady(d, e) /\ e.pending_charge = d.pending_charge
        /\ (e.end_of_block => d.end_of_block)
    BY DEF Dma
  <2> HIDE DEF e
  <2> QED BY <2>1, <2>2, <2>3, OtherStep DEF Typed
<1>6. CASE c = "RESET_B_TIMING"
  <2> DEFINE e == [d EXCEPT !.b_cycle_len = 3]
  <2>1. Command(d, c) = e
    BY <1>6 DEF Command
  <2>2. e \in Dma
    BY 3 \in 2..4, Zenon DEF Dma
  <2>3. e.pending = d.pending /\ Steady(d, e) /\ e.pending_charge = d.pending_charge
        /\ (e.end_of_block => d.end_of_block)
    BY DEF Dma
  <2> HIDE DEF e
  <2> QED BY <2>1, <2>2, <2>3, OtherStep DEF Typed
<1>7. CASE c = "READ_MASK"
  <2> DEFINE q == <<"READ_MASK">>
             e == [d EXCEPT !.pending = q]
  <2>1. Command(d, c) = e
    BY <1>7 DEF Command
  <2>2. q \in Seq(Ops) /\ Len(q) <= MaxPending
    BY DEF Ops, MaxPending
  <2> HIDE DEF q
  <2>3. e \in Dma
    BY <2>2, Zenon DEF Dma
  <2>4. e.pending = q /\ Steady(d, e) /\ e.pending_charge = d.pending_charge
        /\ (e.end_of_block => d.end_of_block)
    BY DEF Dma
  <2> HIDE DEF e
  <2> QED BY <2>1, <2>2, <2>3, <2>4, OtherStep
<1>8. CASE c = "START_READ"
  <2> DEFINE r == FirstReadReg(d.read_mask)
             e == [d EXCEPT !.read_reg = r]
  <2>1. Command(d, c) = e
    BY <1>8 DEF Command
  <2>2. r \in 0..6
    BY FirstReadRegType, DmaFields
  <2> HIDE DEF r
  <2>3. e \in Dma
    BY <2>2, Zenon DEF Dma
  <2>4. e.pending = d.pending /\ Steady(d, e) /\ e.pending_charge = d.pending_charge
        /\ (e.end_of_block => d.end_of_block)
    BY DEF Dma
  <2> HIDE DEF e
  <2> QED BY <2>1, <2>3, <2>4, OtherStep DEF Typed
<1>9. CASE c = "READ_STATUS"
  <2> DEFINE e == [d EXCEPT !.read_reg = 0]
  <2>1. Command(d, c) = e
    BY <1>9 DEF Command
  <2>2. e \in Dma
    BY 0 \in 0..6, Zenon DEF Dma
  <2>3. e.pending = d.pending /\ Steady(d, e) /\ e.pending_charge = d.pending_charge
        /\ (e.end_of_block => d.end_of_block)
    BY DEF Dma
  <2> HIDE DEF e
  <2> QED BY <2>1, <2>2, <2>3, OtherStep DEF Typed
<1>10. CASE c = "CLEAR_STATUS"
  <2> DEFINE e == [d EXCEPT !.end_of_block = FALSE, !.at_least_one = FALSE]
  <2>1. Command(d, c) = e
    BY <1>10 DEF Command
  <2>2. e \in Dma
    BY Zenon DEF Dma
  <2>3. e.pending = d.pending /\ Steady(d, e) /\ e.pending_charge = d.pending_charge
        /\ (e.end_of_block => d.end_of_block)
    BY DEF Dma
  <2> HIDE DEF e
  <2> QED BY <2>1, <2>2, <2>3, OtherStep DEF Typed
<1>11. CASE c = "DISABLE"
  BY <1>11, DisableStep DEF Command
<1> QED
  BY <1>1, <1>2, <1>3, <1>4, <1>5, <1>6, <1>7, <1>8, <1>9, <1>10, <1>11
     DEF AllCommands

(* The parameter that heads the queue, taken off and applied.              *)
LEMMA ParameterIsStep ==
  ASSUME NEW d \in Dma, Typed(d), d.pending # <<>>, NEW p \in Parameters
  PROVE  CommandStep(d, Parameter(d, p))
<1> USE DEF Steady
<1> DEFINE q  == Tail(d.pending)
           op == Head(d.pending)
           t  == [d EXCEPT !.pending = q]
<1>1. /\ q \in Seq(Ops) /\ Len(q) <= MaxPending - 1
      /\ op \in Ops
  BY HeadTailProperties, DmaFields DEF Typed, MaxPending
<1>2. /\ p.value \in Byte /\ p.cycles \in 2..4 /\ p.prescaled \in BOOLEAN
      /\ p.mask \in SUBSET (0..6)
  BY ProgramAssumption
<1>3. Parameter(d, p) = ApplyPending(t, op, p)
  BY DEF Parameter
<1> HIDE DEF q, op
<1>4. t \in Dma
  BY <1>1, Zenon DEF Dma
<1>5. /\ t.pending = q /\ Steady(d, t)
      /\ t.pending_charge = d.pending_charge /\ t.end_of_block = d.end_of_block
  BY DEF Dma
<1> HIDE DEF t
<1>6. ASSUME NEW e \in Dma, Len(e.pending) <= MaxPending, Steady(t, e),
             e.pending_charge = t.pending_charge, e.end_of_block = t.end_of_block
      PROVE  CommandStep(d, e)
  BY <1>5, <1>6 DEF CommandStep, Typed
<1>7. Len(q) <= MaxPending
  BY <1>1 DEF MaxPending
<1> DEFINE low(w)  == SetLow(w, p.value)
           high(w) == SetHigh(w, p.value)
<1>8. /\ low(t.port_a_start) \in Word /\ high(t.port_a_start) \in Word
      /\ low(t.port_b_start) \in Word /\ high(t.port_b_start) \in Word
      /\ low(t.block_len) \in Word /\ high(t.block_len) \in Word
  BY <1>2, <1>4, DmaFields, HalvesType
<1> HIDE DEF low, high
<1>9. CASE op = "PORT_A_LOW"
  <2> DEFINE e == [t EXCEPT !.port_a_start = low(t.port_a_start)]
  <2>1. Parameter(d, p) = e
    BY <1>3, <1>9 DEF ApplyPending, low, high
  <2>2. e \in Dma
    BY <1>2, <1>4, <1>8, Zenon DEF Dma
  <2>3. /\ e.pending = q /\ Steady(t, e)
        /\ e.pending_charge = t.pending_charge /\ e.end_of_block = t.end_of_block
    BY <1>4, <1>5 DEF Dma
  <2> HIDE DEF e
  <2> QED BY <1>6, <1>7, <2>1, <2>2, <2>3
<1>10. CASE op = "PORT_A_HIGH"
  <2> DEFINE e == [t EXCEPT !.port_a_start = high(t.port_a_start)]
  <2>1. Parameter(d, p) = e
    BY <1>3, <1>10 DEF ApplyPending, low, high
  <2>2. e \in Dma
    BY <1>2, <1>4, <1>8, Zenon DEF Dma
  <2>3. /\ e.pending = q /\ Steady(t, e)
        /\ e.pending_charge = t.pending_charge /\ e.end_of_block = t.end_of_block
    BY <1>4, <1>5 DEF Dma
  <2> HIDE DEF e
  <2> QED BY <1>6, <1>7, <2>1, <2>2, <2>3
<1>11. CASE op = "BLOCK_LEN_LOW"
  <2> DEFINE e == [t EXCEPT !.block_len = low(t.block_len)]
  <2>1. Parameter(d, p) = e
    BY <1>3, <1>11 DEF ApplyPending, low, high
  <2>2. e \in Dma
    BY <1>2, <1>4, <1>8, Zenon DEF Dma
  <2>3. /\ e.pending = q /\ Steady(t, e)
        /\ e.pending_charge = t.pending_charge /\ e.end_of_block = t.end_of_block
    BY <1>4, <1>5 DEF Dma
  <2> HIDE DEF e
  <2> QED BY <1>6, <1>7, <2>1, <2>2, <2>3
<1>12. CASE op = "BLOCK_LEN_HIGH"
  <2> DEFINE e == [t EXCEPT !.block_len = high(t.block_len)]
  <2>1. Parameter(d, p) = e
    BY <1>3, <1>12 DEF ApplyPending, low, high
  <2>2. e \in Dma
    BY <1>2, <1>4, <1>8, Zenon DEF Dma
  <2>3. /\ e.pending = q /\ Steady(t, e)
        /\ e.pending_charge = t.pending_charge /\ e.end_of_block = t.end_of_block
    BY <1>4, <1>5 DEF Dma
  <2> HIDE DEF e
  <2> QED BY <1>6, <1>7, <2>1, <2>2, <2>3
<1>13. CASE op = "PORT_B_LOW"
  <2> DEFINE e == [t EXCEPT !.port_b_start = low(t.port_b_start)]
  <2>1. Parameter(d, p) = e
    BY <1>3, <1>13 DEF ApplyPending, low, high
  <2>2. e \in Dma
    BY <1>2, <1>4, <1>8, Zenon DEF Dma
  <2>3. /\ e.pending = q /\ Steady(t, e)
        /\ e.pending_charge = t.pending_charge /\ e.end_of_block = t.end_of_block
    BY <1>4, <1>5 DEF Dma
  <2> HIDE DEF e
  <2> QED BY <1>6, <1>7, <2>1, <2>2, <2>3
<1>14. CASE op = "PORT_B_HIGH"
  <2> DEFINE e == [t EXCEPT !.port_b_start = high(t.port_b_start)]
  <2>1. Parameter(d, p) = e
    BY <1>3, <1>14 DEF ApplyPending, low, high
  <2>2. e \in Dma
    BY <1>2, <1>4, <1>8, Zenon DEF Dma
  <2>3. /\ e.pending = q /\ Steady(t, e)
        /\ e.pending_charge = t.pending_charge /\ e.end_of_block = t.end_of_block
    BY <1>4, <1>5 DEF Dma
  <2> HIDE DEF e
  <2> QED BY <1>6, <1>7, <2>1, <2>2, <2>3
<1>15. CASE op = "A_TIMING"
  <2> DEFINE e == [t EXCEPT !.a_cycle_len = p.cycles]
  <2>1. Parameter(d, p) = e
    BY <1>3, <1>15 DEF ApplyPending, low, high
  <2>2. e \in Dma
    BY <1>2, <1>4, <1>8, Zenon DEF Dma
  <2>3. /\ e.pending = q /\ Steady(t, e)
        /\ e.pending_charge = t.pending_charge /\ e.end_of_block = t.end_of_block
    BY <1>4, <1>5 DEF Dma
  <2> HIDE DEF e
  <2> QED BY <1>6, <1>7, <2>1, <2>2, <2>3
<1>16. CASE op = "PRESCALER"
  <2> DEFINE e == [t EXCEPT !.prescaler = p.value]
  <2>1. Parameter(d, p) = e
    BY <1>3, <1>16 DEF ApplyPending, low, high
  <2>2. e \in Dma
    BY <1>2, <1>4, <1>8, Zenon DEF Dma
  <2>3. /\ e.pending = q /\ Steady(t, e)
        /\ e.pending_charge = t.pending_charge /\ e.end_of_block = t.end_of_block
    BY <1>4, <1>5 DEF Dma
  <2> HIDE DEF e
  <2> QED BY <1>6, <1>7, <2>1, <2>2, <2>3
<1>17. CASE op = "B_TIMING"
  <2> DEFINE pushed == q \o When(p.prescaled, "PRESCALER")
             e == [t EXCEPT !.b_cycle_len = p.cycles, !.pending = pushed]
  <2>1. Parameter(d, p) = e
    BY <1>3, <1>5, <1>17 DEF ApplyPending
  <2>2. pushed \in Seq(Ops) /\ Len(pushed) <= MaxPending
    <3>1. "PRESCALER" \in Ops
      BY DEF Ops
    <3>2. /\ When(p.prescaled, "PRESCALER") \in Seq(Ops)
          /\ Len(When(p.prescaled, "PRESCALER")) <= 1
      BY <3>1, WhenType
    <3> QED BY <1>1, <3>2, AppendedType, LenProperties DEF MaxPending
  <2> HIDE DEF pushed
  <2>3. e \in Dma
    BY <1>2, <1>4, <2>2, Zenon DEF Dma
  <2>4. /\ e.pending = pushed /\ Steady(t, e)
        /\ e.pending_charge = t.pending_charge /\ e.end_of_block = t.end_of_block
    BY <1>4 DEF Dma
  <2> HIDE DEF e
  <2> QED BY <1>6, <2>1, <2>2, <2>3, <2>4
<1>18. CASE op = "READ_MASK"
  <2> DEFINE r == FirstReadReg(p.mask)
             e == [t EXCEPT !.read_mask = p.mask, !.read_reg = r]
  <2>1. Parameter(d, p) = e
    BY <1>3, <1>18 DEF ApplyPending
  <2>2. r \in 0..6
    BY <1>2, FirstReadRegType
  <2> HIDE DEF r
  <2>3. e \in Dma
    BY <1>2, <1>4, <2>2, Zenon DEF Dma
  <2>4. /\ e.pending = q /\ Steady(t, e)
        /\ e.pending_charge = t.pending_charge /\ e.end_of_block = t.end_of_block
    BY <1>4, <1>5 DEF Dma
  <2> HIDE DEF e
  <2> QED BY <1>6, <1>7, <2>1, <2>3, <2>4
<1>19. CASE op = "IGNORE"
  <2>1. Parameter(d, p) = t
    BY <1>3, <1>19 DEF ApplyPending
  <2> QED BY <1>4, <1>5, <1>6, <1>7, <2>1
<1> QED
  BY <1>1, <1>9, <1>10, <1>11, <1>12, <1>13, <1>14, <1>15, <1>16, <1>17,
     <1>18, <1>19 DEF Ops

(* The parameters that base bytes announce.                                *)
LEMMA QueueType ==
  ASSUME NEW a, NEW b, NEW c, NEW f
  PROVE  /\ When(a, "A_TIMING") \in Seq(Ops) /\ Len(When(a, "A_TIMING")) <= MaxPending
         /\ When(a, "B_TIMING") \in Seq(Ops) /\ Len(When(a, "B_TIMING")) <= MaxPending
         /\ LET q == When(a, "IGNORE") \o When(b, "IGNORE")
            IN  q \in Seq(Ops) /\ Len(q) <= MaxPending
         /\ LET q == When(a, "PORT_B_LOW") \o When(b, "PORT_B_HIGH")
            IN  q \in Seq(Ops) /\ Len(q) <= MaxPending
         /\ LET q == When(a, "PORT_A_LOW") \o When(b, "PORT_A_HIGH")
                     \o When(c, "BLOCK_LEN_LOW") \o When(f, "BLOCK_LEN_HIGH")
            IN  q \in Seq(Ops) /\ Len(q) <= MaxPending
<1>1. \A x, op : op \in Ops => /\ When(x, op) \in Seq(Ops)
                               /\ Len(When(x, op)) \in Nat /\ Len(When(x, op)) <= 1
  BY WhenType, LenProperties
<1>2. /\ "A_TIMING" \in Ops /\ "B_TIMING" \in Ops /\ "IGNORE" \in Ops
      /\ "PORT_A_LOW" \in Ops /\ "PORT_A_HIGH" \in Ops /\ "PORT_B_LOW" \in Ops
      /\ "PORT_B_HIGH" \in Ops /\ "BLOCK_LEN_LOW" \in Ops
      /\ "BLOCK_LEN_HIGH" \in Ops
  BY DEF Ops
<1>3. \A x, y, op, oq : op \in Ops /\ oq \in Ops =>
        /\ When(x, op) \o When(y, oq) \in Seq(Ops)
        /\ Len(When(x, op) \o When(y, oq)) \in 0..2
  BY <1>1, AppendedType, LenProperties
<1> DEFINE q2 == When(a, "PORT_A_LOW") \o When(b, "PORT_A_HIGH")
           q3 == q2 \o When(c, "BLOCK_LEN_LOW")
           q4 == q3 \o When(f, "BLOCK_LEN_HIGH")
<1>4. q2 \in Seq(Ops) /\ Len(q2) \in 0..2
  BY <1>2, <1>3
<1> HIDE DEF q2
<1>5. q3 \in Seq(Ops) /\ Len(q3) \in 0..3
  <2> DEFINE w == When(c, "BLOCK_LEN_LOW")
  <2>1. w \in Seq(Ops) /\ Len(w) <= 1
    BY <1>2, WhenType
  <2> HIDE DEF w
  <2>2. q2 \o w \in Seq(Ops) /\ Len(q2 \o w) = Len(q2) + Len(w)
    BY <1>4, <2>1, AppendedType
  <2>3. Len(w) \in Nat
    BY <2>1, LenProperties
  <2>4. q3 = q2 \o w
    BY DEF w
  <2> HIDE DEF q3
  <2> QED BY <1>4, <2>1, <2>2, <2>3, <2>4
<1> HIDE DEF q3
<1>6. q4 \in Seq(Ops) /\ Len(q4) \in 0..4
  <2> DEFINE w == When(f, "BLOCK_LEN_HIGH")
  <2>1. w \in Seq(Ops) /\ Len(w) <= 1
    BY <1>2, WhenType
  <2> HIDE DEF w
  <2>2. q3 \o w \in Seq(Ops) /\ Len(q3 \o w) = Len(q3) + Len(w)
    BY <1>5, <2>1, AppendedType
  <2>3. Len(w) \in Nat
    BY <2>1, LenProperties
  <2>4. q4 = q3 \o w
    BY Zenon DEF w, q4
  <2> HIDE DEF q4
  <2>5. q4 \in Seq(Ops) /\ Len(q4) = Len(q3) + Len(w)
    BY <2>2, <2>4
  <2>6. \A n \in 0..3, m \in Nat : m <= 1 => n + m \in 0..4
    OBVIOUS
  <2>7. Len(q3) + Len(w) \in 0..4
    BY <1>5, <2>1, <2>3, <2>6
  <2> QED BY <2>5, <2>7
<1>7. q4 = When(a, "PORT_A_LOW") \o When(b, "PORT_A_HIGH")
           \o When(c, "BLOCK_LEN_LOW") \o When(f, "BLOCK_LEN_HIGH")
  BY DEF q3, q2
<1> HIDE DEF q4
<1> QED BY <1>1, <1>2, <1>3, <1>6, <1>7 DEF MaxPending

LEMMA BaseByteIsStep ==
  ASSUME NEW d \in Dma, Typed(d), d.hold_cpu => d.active_burst
  PROVE  /\ \A b \in Wr0 : CommandStep(d, WriteWr0(d, b))
         /\ \A b \in Wr1 : CommandStep(d, WriteWr1(d, b))
         /\ \A b \in Wr2 : CommandStep(d, WriteWr2(d, b))
         /\ \A b \in Wr3 : CommandStep(d, WriteWr3(d, b))
         /\ \A b \in Wr4 : CommandStep(d, WriteWr4(d, b))
         /\ \A b \in Wr5 : CommandStep(d, WriteWr5(d, b))
<1> USE DEF Steady
<1> DEFINE Fits(q) == q \in Seq(Ops) /\ Len(q) <= MaxPending
<1>1. ASSUME NEW b \in Wr0 PROVE CommandStep(d, WriteWr0(d, b))
  <2> DEFINE q == When(b.a_low, "PORT_A_LOW") \o When(b.a_high, "PORT_A_HIGH")
                  \o When(b.len_low, "BLOCK_LEN_LOW")
                  \o When(b.len_high, "BLOCK_LEN_HIGH")
             e == [d EXCEPT !.a_to_b = b.a_to_b, !.pending = q]
  <2>1. Fits(q) /\ b.a_to_b \in BOOLEAN
    BY QueueType, ProgramAssumption
  <2>2. WriteWr0(d, b) = e
    BY Zenon DEF WriteWr0
  <2> HIDE DEF q
  <2>3. e \in Dma
    BY <2>1, Zenon DEF Dma
  <2>4. /\ e.pending = q /\ Steady(d, e)
        /\ e.pending_charge = d.pending_charge /\ e.end_of_block = d.end_of_block
    BY DEF Dma
  <2> HIDE DEF e
  <2> QED BY <2>1, <2>2, <2>3, <2>4, OtherStep
<1>2. ASSUME NEW b \in Wr1 PROVE CommandStep(d, WriteWr1(d, b))
  <2> DEFINE q == When(b.timing, "A_TIMING")
             e == [d EXCEPT !.a_mode = b.mode, !.a_is_io = b.io, !.pending = q]
  <2>1. Fits(q) /\ b.mode \in AddrModes /\ b.io \in BOOLEAN
    BY QueueType, ProgramAssumption
  <2>2. WriteWr1(d, b) = e
    BY Zenon DEF WriteWr1
  <2> HIDE DEF q
  <2>3. e \in Dma
    BY <2>1, Zenon DEF Dma
  <2>4. /\ e.pending = q /\ Steady(d, e)
        /\ e.pending_charge = d.pending_charge /\ e.end_of_block = d.end_of_block
    BY DEF Dma
  <2> HIDE DEF e
  <2> QED BY <2>1, <2>2, <2>3, <2>4, OtherStep
<1>3. ASSUME NEW b \in Wr2 PROVE CommandStep(d, WriteWr2(d, b))
  <2> DEFINE q == When(b.timing, "B_TIMING")
             e == [d EXCEPT !.b_mode = b.mode, !.b_is_io = b.io, !.pending = q]
  <2>1. Fits(q) /\ b.mode \in AddrModes /\ b.io \in BOOLEAN
    BY QueueType, ProgramAssumption
  <2>2. WriteWr2(d, b) = e
    BY Zenon DEF WriteWr2
  <2> HIDE DEF q
  <2>3. e \in Dma
    BY <2>1, Zenon DEF Dma
  <2>4. /\ e.pending = q /\ Steady(d, e)
        /\ e.pending_charge = d.pending_charge /\ e.end_of_block = d.end_of_block
    BY DEF Dma
  <2> HIDE DEF e
  <2> QED BY <2>1, <2>2, <2>3, <2>4, OtherStep
<1>4. ASSUME NEW b \in Wr3 PROVE CommandStep(d, WriteWr3(d, b))
  <2> DEFINE q == When(b.mask, "IGNORE") \o When(b.match, "IGNORE")
             e == [d EXCEPT !.pending = q]
  <2>1. Fits(q)
    BY QueueType
  <2>2. WriteWr3(d, b) = IF b.enable THEN Trigger(e) ELSE e
    BY Zenon DEF WriteWr3
  <2> HIDE DEF q
  <2>3. e \in Dma
    BY <2>1, Zenon DEF Dma
  <2>4. /\ e.pending = q /\ Steady(d, e)
        /\ e.pending_charge = d.pending_charge /\ e.end_of_block = d.end_of_block
    BY DEF Dma
  <2> HIDE DEF e
  <2>5. CommandStep(d, e)
    BY <2>1, <2>3, <2>4, OtherStep
  <2>6. Typed(e)
    BY <2>1, <2>3, <2>4 DEF Typed
  <2>7. CommandStep(e, Trigger(e))
    BY <2>3, <2>4, <2>6, TriggerStep
  <2>8. CommandStep(d, Trigger(e))
    BY <2>4, <2>7 DEF CommandStep, Started, Busy
  <2> QED BY <2>2, <2>5, <2>8
<1>5. ASSUME NEW b \in Wr4 PROVE CommandStep(d, WriteWr4(d, b))
  <2> DEFINE q == When(b.b_low, "PORT_B_LOW") \o When(b.b_high, "PORT_B_HIGH")
             w == ~b.b_low /\ ~b.b_high /\ b.control
             e == [d EXCEPT !.mode = b.mode, !.pending = q, !.wedged = w]
  <2>1. Fits(q) /\ b.mode \in Modes /\ w \in BOOLEAN
    BY QueueType, ProgramAssumption
  <2>2. WriteWr4(d, b) = e
    BY Zenon DEF WriteWr4
  <2> HIDE DEF q, w
  <2>3. e \in Dma
    BY <2>1, Zenon DEF Dma
  <2>4. /\ e.pending = q /\ Steady(d, e)
        /\ e.pending_charge = d.pending_charge /\ e.end_of_block = d.end_of_block
    BY DEF Dma
  <2> HIDE DEF e
  <2> QED BY <2>1, <2>2, <2>3, <2>4, OtherStep
<1>6. ASSUME NEW b \in Wr5 PROVE CommandStep(d, WriteWr5(d, b))
  <2> DEFINE e == [d EXCEPT !.auto_restart = b]
  <2>1. b \in BOOLEAN
    BY ProgramAssumption
  <2>2. WriteWr5(d, b) = e
    BY Zenon DEF WriteWr5
  <2>3. e \in Dma
    BY <2>1, Zenon DEF Dma
  <2>4. /\ e.pending = d.pending /\ Steady(d, e)
        /\ e.pending_charge = d.pending_charge /\ e.end_of_block = d.end_of_block
    BY DEF Dma
  <2> HIDE DEF e
  <2> QED BY <2>2, <2>3, <2>4, OtherStep DEF Typed
<1> QED BY <1>1, <1>2, <1>3, <1>4, <1>5, <1>6

LEMMA WrittenIsStep ==
  ASSUME NEW d \in Dma, Typed(d), d.hold_cpu => d.active_burst,
         NEW e \in Written(d)
  PROVE  CommandStep(d, e)
<1>1. CASE d.wedged
  BY <1>1 DEF Written, CommandStep, Steady
<1>2. CASE ~d.wedged /\ d.pending # <<>>
  <2>1. PICK p \in Parameters : e = Parameter(d, p)
    BY <1>2 DEF Written
  <2> QED BY <1>2, <2>1, ParameterIsStep
<1>3. CASE ~d.wedged /\ d.pending = <<>>
  <2>1. Commands \subseteq AllCommands
    BY ProgramAssumption
  <2> QED BY <1>3, <2>1, BaseByteIsStep, CommandIsStep DEF Written
<1> QED BY <1>1, <1>2, <1>3

(* Either port, then a byte; the reset of the machine; a read.             *)
LEMMA SetZ80ModeType ==
  ASSUME NEW d \in Dma, Typed(d), NEW on \in BOOLEAN
  PROVE  LET e == SetZ80Mode(d, on)
         IN  /\ Typed(e) /\ Steady(d, e) /\ e.end_of_block = d.end_of_block
             /\ e.pending_charge = d.pending_charge
             /\ e.counter = d.counter /\ e.block_len = d.block_len
<1> DEFINE e == [d EXCEPT !.z80_mode = on]
<1>1. e \in Dma
  BY Zenon DEF Dma
<1>2. /\ e.pending = d.pending /\ Steady(d, e) /\ e.end_of_block = d.end_of_block
      /\ e.pending_charge = d.pending_charge
      /\ e.counter = d.counter /\ e.block_len = d.block_len
  BY DEF Dma, Steady
<1> HIDE DEF e
<1>3. Typed(e)
  BY <1>1, <1>2 DEF Typed
<1> QED BY <1>2, <1>3 DEF SetZ80Mode, e

LEMMA PortWriteIsStep ==
  ASSUME NEW d \in Dma, Typed(d), d.hold_cpu => d.active_burst,
         NEW on \in BOOLEAN, NEW e \in Written(SetZ80Mode(d, on))
  PROVE  CommandStep(d, e)
<1> DEFINE z == SetZ80Mode(d, on)
<1>1. /\ z \in Dma /\ Typed(z) /\ Steady(d, z) /\ z.end_of_block = d.end_of_block
      /\ z.pending_charge = d.pending_charge
  BY SetZ80ModeType DEF Typed
<1> HIDE DEF z
<1>2. CommandStep(z, e)
  BY <1>1, WrittenIsStep DEF Steady, z
<1> QED BY <1>1, <1>2 DEF CommandStep, Steady, Started, Busy

LEMMA ResetIsStep ==
  ASSUME NEW d \in Dma
  PROVE  CommandStep(d, ResetDma(d)) /\ Ended(ResetDma(d))
<1>1. /\ Ended(ResetDma(d)) /\ ~ResetDma(d).end_of_block
      /\ ResetDma(d).pending_charge = d.pending_charge
  BY DEF Ended, ResetDma, Dma
<1> QED BY <1>1, ResetDmaTyped DEF CommandStep

LEMMA ReadCommandType ==
  ASSUME NEW d \in Dma, Typed(d)
  PROVE  LET e == ReadCommand(d)
         IN  /\ Typed(e) /\ Steady(d, e) /\ e.end_of_block = d.end_of_block
             /\ e.pending_charge = d.pending_charge
             /\ e.counter = d.counter /\ e.block_len = d.block_len
<1> DEFINE r == NextReadReg(d.read_mask, d.read_reg)
           e == [d EXCEPT !.read_reg = r]
<1>1. r \in 0..6
  BY DmaFields, NextReadRegType
<1> HIDE DEF r
<1>2. e \in Dma
  BY <1>1, Zenon DEF Dma
<1>3. /\ e.pending = d.pending /\ Steady(d, e) /\ e.end_of_block = d.end_of_block
      /\ e.pending_charge = d.pending_charge
      /\ e.counter = d.counter /\ e.block_len = d.block_len
  BY DEF Dma, Steady
<1> HIDE DEF e
<1>4. Typed(e)
  BY <1>2, <1>3 DEF Typed
<1> QED BY <1>3, <1>4 DEF ReadCommand, e, r

-----------------------------------------------------------------------------
(* One byte.                                                               *)

(* The address steps, and nothing else.                                    *)
LEMMA StepPointerType ==
  ASSUME NEW d \in Dma, Typed(d), NEW a \in BOOLEAN
  PROVE  LET e == StepPointer(d, a)
         IN  /\ Typed(e) /\ Steady(d, e) /\ e.end_of_block = d.end_of_block
             /\ e.pending_charge = d.pending_charge
             /\ e.counter = d.counter /\ e.block_len = d.block_len
<1> DEFINE u == StepAddr(d.cur_a, d.a_mode)
           v == StepAddr(d.cur_b, d.b_mode)
           x == [d EXCEPT !.cur_a = u]
           y == [d EXCEPT !.cur_b = v]
<1>1. u \in Word /\ v \in Word
  BY DmaFields, StepAddrType
<1> HIDE DEF u, v
<1>2. x \in Dma /\ y \in Dma
  BY <1>1, Zenon DEF Dma
<1>3. /\ x.pending = d.pending /\ Steady(d, x) /\ x.end_of_block = d.end_of_block
      /\ x.pending_charge = d.pending_charge
      /\ x.counter = d.counter /\ x.block_len = d.block_len
  BY DEF Dma, Steady
<1>4. /\ y.pending = d.pending /\ Steady(d, y) /\ y.end_of_block = d.end_of_block
      /\ y.pending_charge = d.pending_charge
      /\ y.counter = d.counter /\ y.block_len = d.block_len
  BY DEF Dma, Steady
<1>5. StepPointer(d, a) = IF a THEN x ELSE y
  BY Zenon DEF StepPointer, u, v
<1> HIDE DEF x, y
<1>6. Typed(x) /\ Typed(y)
  BY <1>2, <1>3, <1>4 DEF Typed
<1> QED BY <1>3, <1>4, <1>5, <1>6

LEMMA CountedType ==
  ASSUME NEW d \in Dma, Typed(d), d.remaining > 0
  PROVE  LET e == Counted(d)
         IN  /\ Typed(e)
             /\ e.active_burst = d.active_burst /\ e.hold_cpu = d.hold_cpu
             /\ e.in_transfer = d.in_transfer
             /\ e.remaining = d.remaining - 1
             /\ e.end_of_block = d.end_of_block
             /\ e.pending_charge = d.pending_charge
             /\ e.counter = Inc(d.counter) /\ e.block_len = d.block_len
<1> DEFINE c == Inc(d.counter)
           r == d.remaining - 1
           e == [d EXCEPT !.counter = c, !.remaining = r]
<1>1. c \in Word /\ r \in 0..(Top + 1)
  BY DmaFields, IncType, TopType
<1>2. Counted(d) = e
  BY Zenon DEF Counted
<1> HIDE DEF c, r
<1>3. e \in Dma
  BY <1>1, Zenon DEF Dma
<1>4. /\ e.active_burst = d.active_burst /\ e.hold_cpu = d.hold_cpu
      /\ e.in_transfer = d.in_transfer
      /\ e.remaining = r
      /\ e.end_of_block = d.end_of_block
      /\ e.pending_charge = d.pending_charge
      /\ e.counter = c /\ e.block_len = d.block_len /\ e.pending = d.pending
  BY DEF Dma
<1> HIDE DEF e
<1> QED BY <1>2, <1>3, <1>4 DEF Typed, c, r

(* The transfer after a byte: one byte shorter, or ended by what the byte   *)
(* wrote to an I/O port.                                                   *)
ByteMoved(d, e) ==
  /\ Typed(e)
  /\ \/ /\ e.active_burst = d.active_burst /\ e.hold_cpu = d.hold_cpu
        /\ e.in_transfer /\ e.remaining = d.remaining - 1
     \/ Ended(e)
  /\ e.end_of_block => d.end_of_block
  /\ e.pending_charge = d.pending_charge

LEMMA MovedIsByte ==
  ASSUME NEW d \in Dma, Typed(d), d.hold_cpu => d.active_burst,
         d.in_transfer, d.remaining > 0,
         NEW a \in BOOLEAN, NEW e \in Moved(d, a)
  PROVE  ByteMoved(d, e)
<1>1. PICK r \in AfterRead(d, a) : e \in AfterWrite(Counted(r), ~a)
  BY DEF Moved
<1>2. /\ r \in Dma /\ Typed(r) /\ Steady(d, r) /\ r.end_of_block = d.end_of_block
      /\ r.pending_charge = d.pending_charge
  <2>1. PICK p \in {d} \cup PortRead(d) : r = StepPointer(p, a)
    BY <1>1 DEF AfterRead
  <2>2. /\ p \in Dma /\ Typed(p) /\ Steady(d, p) /\ p.end_of_block = d.end_of_block
        /\ p.pending_charge = d.pending_charge
    <3>1. CASE p = d
      BY <3>1 DEF Steady
    <3>2. CASE p # d
      <4>1. PICK on \in BOOLEAN : p = ReadCommand(SetZ80Mode(d, on))
        BY <2>1, <3>2, ProgramAssumption DEF PortRead
      <4> DEFINE z == SetZ80Mode(d, on)
      <4>2. /\ z \in Dma /\ Typed(z) /\ Steady(d, z)
            /\ z.end_of_block = d.end_of_block
            /\ z.pending_charge = d.pending_charge
        BY SetZ80ModeType DEF Typed
      <4> HIDE DEF z
      <4>3. /\ Typed(ReadCommand(z)) /\ Steady(z, ReadCommand(z))
            /\ ReadCommand(z).end_of_block = z.end_of_block
            /\ ReadCommand(z).pending_charge = z.pending_charge
        BY <4>2, ReadCommandType
      <4> QED BY <4>1, <4>2, <4>3 DEF Steady, Typed, z
    <3> QED BY <3>1, <3>2
  <2>3. /\ Typed(StepPointer(p, a)) /\ Steady(p, StepPointer(p, a))
        /\ StepPointer(p, a).end_of_block = p.end_of_block
        /\ StepPointer(p, a).pending_charge = p.pending_charge
    BY <2>2, StepPointerType
  <2> QED BY <2>1, <2>2, <2>3 DEF Steady, Typed
<1> DEFINE c == Counted(r)
<1>3. /\ c \in Dma /\ Typed(c)
      /\ c.active_burst = d.active_burst /\ c.hold_cpu = d.hold_cpu
      /\ c.in_transfer = d.in_transfer /\ c.remaining = d.remaining - 1
      /\ c.end_of_block = d.end_of_block /\ c.pending_charge = d.pending_charge
  <2>1. r.remaining > 0
    BY <1>2 DEF Steady
  <2> QED BY <1>2, <2>1, CountedType DEF Steady, Typed
<1> HIDE DEF c
<1>4. PICK w \in {c} \cup PortWritten(c) : e = StepPointer(w, ~a)
  BY <1>1 DEF AfterWrite, c
<1>5. CommandStep(c, w)
  <2>1. CASE w = c
    BY <1>3, <2>1 DEF CommandStep, Steady
  <2>2. CASE w = ResetDma(c)
    BY <1>3, <2>2, ResetIsStep
  <2>3. CASE \E on \in BOOLEAN : w \in Written(SetZ80Mode(c, on))
    BY <1>3, <2>3, PortWriteIsStep
  <2> QED BY <1>4, <2>1, <2>2, <2>3, ProgramAssumption DEF PortWritten
<1>6. ~Started(c, w)
  BY <1>3 DEF Started, Busy
<1>7. /\ Typed(e) /\ Steady(w, e) /\ e.end_of_block = w.end_of_block
      /\ e.pending_charge = w.pending_charge
  <2>1. w \in Dma /\ Typed(w)
    BY <1>5 DEF CommandStep, Typed
  <2>2. (~a) \in BOOLEAN
    OBVIOUS
  <2> QED BY <1>4, <2>1, <2>2, StepPointerType
<1> QED BY <1>3, <1>5, <1>6, <1>7 DEF CommandStep, Steady, Ended, ByteMoved

(* A byte that touches neither port leaves the counter one further.        *)
LEMMA UndisturbedBlock ==
  ASSUME NEW d \in Dma, Typed(d), d.remaining > 0, NEW a \in BOOLEAN
  PROVE  LET u == Undisturbed(d, a)
         IN  u.counter = Inc(d.counter) /\ u.block_len = d.block_len
<1> DEFINE s == StepPointer(d, a)
           c == Counted(s)
<1>1. /\ s \in Dma /\ Typed(s) /\ s.remaining = d.remaining
      /\ s.counter = d.counter /\ s.block_len = d.block_len
  BY StepPointerType DEF Typed, Steady
<1> HIDE DEF s
<1>2. /\ c \in Dma /\ Typed(c)
      /\ c.counter = Inc(d.counter) /\ c.block_len = d.block_len
  BY <1>1, CountedType DEF Typed
<1> HIDE DEF c
<1>3. (~a) \in BOOLEAN
  OBVIOUS
<1>4. /\ StepPointer(c, ~a).counter = c.counter
      /\ StepPointer(c, ~a).block_len = c.block_len
  BY <1>2, <1>3, StepPointerType
<1> QED BY <1>2, <1>4 DEF Undisturbed, c, s

(* The charge and the due time of a byte.                                  *)
LEMMA PaidType ==
  ASSUME NEW d \in Dma, Typed(d), call.per \in Nat
  PROVE  LET e == Paid(d)
         IN  /\ Typed(e) /\ Steady(d, e) /\ e.end_of_block = d.end_of_block
             /\ e.counter = d.counter /\ e.block_len = d.block_len
             /\ d.hold_cpu => e.pending_charge = d.pending_charge
<1> DEFINE p == d.pending_charge + IF d.hold_cpu THEN 0 ELSE ByteCycles(d)
           u == d.due + call.per
           e == [d EXCEPT !.at_least_one = TRUE, !.pending_charge = p, !.due = u]
<1>1. p \in Nat /\ u \in Int /\ (d.hold_cpu => p = d.pending_charge)
  <2>1. d.a_cycle_len \in Nat /\ d.b_cycle_len \in Nat /\ d.pending_charge \in Nat
    BY DmaFields
  <2>2. ByteCycles(d) \in Nat
    BY <2>1 DEF ByteCycles
  <2>3. d.due \in Int
    BY DmaFields
  <2> QED BY <2>1, <2>2, <2>3
<1>2. Paid(d) = e
  BY Zenon DEF Paid
<1> HIDE DEF p, u
<1>3. e \in Dma
  BY <1>1, Zenon DEF Dma
<1>4. /\ e.pending = d.pending /\ Steady(d, e) /\ e.end_of_block = d.end_of_block
      /\ e.counter = d.counter /\ e.block_len = d.block_len
      /\ e.pending_charge = p
  BY DEF Dma, Steady
<1> HIDE DEF e
<1> QED BY <1>1, <1>2, <1>3, <1>4 DEF Typed

(* The end of a block leaves the transfer's control alone.                 *)
LEMMA FinishBlockSteady ==
  ASSUME NEW d \in Dma, Typed(d)
  PROVE  LET e == FinishBlock(d)
         IN  /\ Typed(e) /\ Steady(d, e)
             /\ e.block_len = d.block_len /\ e.pending_charge = d.pending_charge
<1>1. Typed(FinishBlock(d))
  BY FinishBlockTyped DEF Typed
<1>2. /\ Steady(d, Load(d)) /\ Load(d).block_len = d.block_len
      /\ Load(d).pending_charge = d.pending_charge /\ Load(d) \in Dma
  BY LoadTyped DEF Steady, Load, Dma
<1>3. CASE d.auto_restart
  <2> DEFINE l == Load(d)
  <2>1. FinishBlock(d) = [l EXCEPT !.end_of_block = TRUE]
    BY <1>3, Zenon DEF FinishBlock
  <2> HIDE DEF l
  <2>2. l \in Dma
    BY <1>2 DEF l
  <2>3. /\ Steady(l, FinishBlock(d)) /\ FinishBlock(d).block_len = l.block_len
        /\ FinishBlock(d).pending_charge = l.pending_charge
    BY <2>1, <2>2 DEF Steady, Dma
  <2> QED BY <1>1, <1>2, <2>3 DEF Steady, l
<1>4. CASE ~d.auto_restart
  <2>1. FinishBlock(d) = [d EXCEPT !.end_of_block = TRUE, !.at_least_one = FALSE]
    BY <1>4, Zenon DEF FinishBlock
  <2> QED BY <1>1, <2>1 DEF Steady, Dma
<1> QED BY <1>3, <1>4

(* After the last byte a paced transfer starts over or stops.              *)
LEMMA StoppedType ==
  ASSUME NEW d \in Dma, Typed(d)
  PROVE  LET e == Stopped(d)
         IN  /\ Typed(e)
             /\ e.in_transfer = d.in_transfer
             /\ e.counter = d.counter /\ e.block_len = d.block_len
             /\ e.pending_charge = d.pending_charge
             /\ \/ ~e.active_burst /\ ~e.hold_cpu
                \/ /\ e.active_burst = d.active_burst /\ ~e.hold_cpu
                   /\ e.remaining = BlockBytes(e.counter, e.block_len)
<1> DEFINE m == BlockBytes(d.counter, d.block_len)
           x == [d EXCEPT !.remaining = m]
           y == [d EXCEPT !.active_burst = FALSE, !.hold_cpu = FALSE]
<1>1. m \in 0..(Top + 1)
  BY DmaFields, BlockBytesType, TopType
<1>2. Stopped(d) = IF d.auto_restart /\ ~d.hold_cpu THEN x ELSE y
  BY Zenon DEF Stopped
<1> HIDE DEF m
<1>3. x \in Dma /\ y \in Dma
  BY <1>1, Zenon DEF Dma
<1>4. /\ x.pending = d.pending /\ x.in_transfer = d.in_transfer
      /\ x.counter = d.counter /\ x.block_len = d.block_len
      /\ x.pending_charge = d.pending_charge
      /\ x.active_burst = d.active_burst /\ x.hold_cpu = d.hold_cpu
      /\ x.remaining = m
  BY DEF Dma
<1>5. /\ y.pending = d.pending /\ y.in_transfer = d.in_transfer
      /\ y.counter = d.counter /\ y.block_len = d.block_len
      /\ y.pending_charge = d.pending_charge
      /\ ~y.active_burst /\ ~y.hold_cpu
  BY DEF Dma
<1> HIDE DEF x, y
<1> QED BY <1>2, <1>3, <1>4, <1>5 DEF Typed, m

(* in_transfer and the charge are the tick's own to change.                *)
LEMMA FlagType ==
  ASSUME NEW d \in Dma, Typed(d), NEW f \in BOOLEAN
  PROVE  /\ LET e == [d EXCEPT !.in_transfer = f]
            IN  /\ Typed(e) /\ e.in_transfer = f
                /\ e.active_burst = d.active_burst
                /\ e.hold_cpu = d.hold_cpu /\ e.remaining = d.remaining
                /\ e.counter = d.counter /\ e.block_len = d.block_len
                /\ e.end_of_block = d.end_of_block
                /\ e.pending_charge = d.pending_charge
         /\ LET e == [d EXCEPT !.at_least_one = TRUE]
            IN  /\ Typed(e) /\ Steady(d, e) /\ e.end_of_block = d.end_of_block
                /\ e.counter = d.counter /\ e.block_len = d.block_len
<1> DEFINE w == [d EXCEPT !.in_transfer = f]
           z == [d EXCEPT !.at_least_one = TRUE]
<1>1. w \in Dma /\ z \in Dma
  BY Zenon DEF Dma
<1> QED BY <1>1 DEF Typed, Steady, Dma

LEMMA BlockChargeType ==
  ASSUME NEW d \in Dma, Typed(d), NEW n \in Nat
  PROVE  LET e == [d EXCEPT !.in_transfer = FALSE, !.pending_charge = n]
         IN  /\ Typed(e) /\ ~e.in_transfer /\ e.active_burst = d.active_burst
             /\ e.hold_cpu = d.hold_cpu /\ e.remaining = d.remaining
<1> DEFINE x == [d EXCEPT !.in_transfer = FALSE, !.pending_charge = n]
<1>1. x \in Dma
  BY Zenon DEF Dma
<1> QED BY <1>1 DEF Typed, Dma

LEMMA TickChargeType ==
  ASSUME NEW d \in Dma, Typed(d), NEW due \in Int
  PROVE  LET e == [d EXCEPT !.pending_charge = 0, !.due = due]
         IN  /\ Typed(e) /\ Steady(d, e) /\ e.end_of_block = d.end_of_block
             /\ e.counter = d.counter /\ e.block_len = d.block_len
<1> DEFINE y == [d EXCEPT !.pending_charge = 0, !.due = due]
<1>1. y \in Dma
  BY Literals, Zenon DEF Dma
<1> QED BY <1>1 DEF Typed, Steady, Dma

-----------------------------------------------------------------------------
(* The inductive invariant: outside its loops nothing is in transfer, a     *)
(* paced transfer is in the loop of next_dma_step and an unpaced one in     *)
(* that of next_dma_run_block, and never both.                              *)

LoopIsOfItsKind ==
  /\ at = "step"  => dma.active_burst
  /\ at = "block" => ~dma.active_burst

IInv ==
  /\ TypeOK
  /\ HeldOnlyByTransfer
  /\ TransferringOnlyInLoop
  /\ LoopIsOfItsKind
  /\ RemainingIsBlock

LEMMA InitHolds == Init => IInv
<1> SUFFICES ASSUME Init PROVE IInv
  OBVIOUS
<1>1. TypeOK
  <2>1. call \in [src_is_a: BOOLEAN, per: Nat, duration: Nat, moved: Nat]
    BY DEF Init, Idle
  <2> QED BY <2>1, InitialDmaTyped DEF Init, TypeOK, Typed
<1>2. /\ ~dma.active_burst /\ ~dma.hold_cpu /\ ~dma.in_transfer
  BY DEF Init, InitialDma
<1> QED BY <1>1, <1>2 DEF Init, IInv, HeldOnlyByTransfer, TransferringOnlyInLoop,
           LoopIsOfItsKind, RemainingIsBlock, Busy

LEMMA RememberType ==
  ASSUME NEW p, NEW e
  PROVE  /\ Remember(p, e) \in [loaded: BOOLEAN, reprogrammed: BOOLEAN]
         /\ ~Remember(p, e).reprogrammed => /\ ~history.reprogrammed
                                            /\ SameBlock(p, e)
<1> DEFINE l == AtStart(e) \/ (history.loaded /\ SamePointers(p, e))
           r == history.reprogrammed \/ ~SameBlock(p, e)
<1>1. Remember(p, e) = [loaded |-> l, reprogrammed |-> r]
  BY DEF Remember
<1>2. l \in BOOLEAN /\ r \in BOOLEAN
  OBVIOUS
<1> HIDE DEF l
<1>3. r => (history.reprogrammed \/ ~SameBlock(p, e))
  OBVIOUS
<1>4. ~r => ~history.reprogrammed /\ SameBlock(p, e)
  OBVIOUS
<1> HIDE DEF r
<1>5. Remember(p, e) \in [loaded: BOOLEAN, reprogrammed: BOOLEAN]
  BY <1>1, <1>2
<1>6. Remember(p, e).reprogrammed = r
  BY <1>1
<1> QED BY <1>4, <1>5, <1>6

LEMMA CallType ==
  ASSUME NEW d \in Dma, NEW a \in BOOLEAN
  PROVE  /\ Idle \in [src_is_a: BOOLEAN, per: Nat, duration: Nat, moved: Nat]
         /\ PerByteCycles(d) \in Nat
         /\ [Idle EXCEPT !.src_is_a = a, !.per = PerByteCycles(d)]
              \in [src_is_a: BOOLEAN, per: Nat, duration: Nat, moved: Nat]
         /\ [Idle EXCEPT !.src_is_a = a, !.duration = d.remaining * PerByteCycles(d)]
              \in [src_is_a: BOOLEAN, per: Nat, duration: Nat, moved: Nat]
<1>1. PerByteCycles(d) \in Nat
  <2>1. /\ d.a_cycle_len \in Nat /\ d.b_cycle_len \in Nat /\ d.prescaler \in Nat
        /\ Speed \in Nat
    BY DmaFields, SpeedAssumption, BaseAssumption DEF Byte
  <2>2. d.prescaler * Speed \in Nat
    BY <2>1
  <2>3. 4 * d.prescaler * Speed \in Nat
    BY <2>1
  <2> HIDE DEF PrescalerTstates
  <2>4. PrescalerTstates(d) \in Nat /\ ByteCycles(d) \in Nat
    BY <2>1, <2>3 DEF PrescalerTstates, ByteCycles
  <2> QED BY <2>4 DEF PerByteCycles
<1>2. d.remaining \in Nat
  BY DmaFields, TopType
<1> DEFINE p == PerByteCycles(d)
           m == d.remaining * PerByteCycles(d)
<1>3. p \in Nat /\ m \in Nat
  BY <1>1, <1>2
<1> HIDE DEF p, m
<1> QED BY <1>1, <1>3 DEF Idle, p, m

(* One pass of either loop, as the lemmas above see it.                     *)
LEMMA PassFacts ==
  ASSUME IInv, dma.in_transfer, dma.remaining > 0,
         NEW e \in Moved(dma, call.src_is_a)
  PROVE  /\ ByteMoved(dma, e)
         /\ history.reprogrammed \in BOOLEAN
         /\ Remember(Undisturbed(dma, call.src_is_a), e)
              \in [loaded: BOOLEAN, reprogrammed: BOOLEAN]
         /\ /\ ~Remember(Undisturbed(dma, call.src_is_a), e).reprogrammed
            /\ e.in_transfer /\ e.remaining > 0
            => e.remaining = BlockBytes(e.counter, e.block_len)
<1> DEFINE a == call.src_is_a
           u == Undisturbed(dma, a)
<1>1. dma \in Dma /\ Typed(dma) /\ a \in BOOLEAN
  BY DEF IInv, TypeOK, Typed
<1>2. ByteMoved(dma, e)
  BY <1>1, MovedIsByte DEF IInv, HeldOnlyByTransfer
<1>3. u.counter = Inc(dma.counter) /\ u.block_len = dma.block_len
  BY <1>1, UndisturbedBlock
<1> HIDE DEF u
<1>4. ASSUME ~Remember(u, e).reprogrammed, e.in_transfer, e.remaining > 0
      PROVE  e.remaining = BlockBytes(e.counter, e.block_len)
  <2>1. ~history.reprogrammed /\ SameBlock(u, e)
    BY <1>4, RememberType
  <2>2. e.remaining = dma.remaining - 1
    BY <1>2, <1>4 DEF ByteMoved, Ended
  <2>3. dma.remaining = BlockBytes(dma.counter, dma.block_len)
    BY <2>1 DEF IInv, RemainingIsBlock, Busy
  <2>4. dma.counter \in Word /\ dma.block_len \in Word /\ dma.remaining \in Nat
    BY <1>1, DmaFields, TopType
  <2>5. BlockBytes(Inc(dma.counter), dma.block_len) = dma.remaining - 1
    BY <1>4, <2>2, <2>3, <2>4, BlockBytesStep
  <2> QED BY <1>3, <2>1, <2>2, <2>5 DEF SameBlock
<1>5. history.reprogrammed \in BOOLEAN
  BY DEF IInv, TypeOK
<1> QED BY <1>2, <1>4, <1>5, RememberType DEF u

-----------------------------------------------------------------------------
(* Every step preserves the invariant and keeps the action properties.     *)

\* What a step may not do, the two action properties without their boxes.
EndsComplete ==
  ~dma.end_of_block /\ dma'.end_of_block
    => at \in {"step", "block"} /\ dma.remaining = 0 /\ dma.in_transfer
ChargesOnce ==
  dma.hold_cpu /\ at = "step" => dma'.pending_charge = dma.pending_charge
Good == IInv' /\ EndsComplete /\ ChargesOnce

\* Where a transfer may be, for a controller d at the place p.
Placed(d, p) ==
  /\ d.hold_cpu => d.active_burst
  /\ p # "step" => (d.active_burst => d.remaining > 0)
  /\ d.in_transfer <=> p \in {"step", "block"}
  /\ p = "step"  => d.active_burst
  /\ p = "block" => ~d.active_burst

LEMMA GoodByParts ==
  ASSUME Typed(dma'), Placed(dma', at'),
         at' \in {"dma", "step", "cpu", "block", "end"},
         call' \in [src_is_a: BOOLEAN, per: Nat, duration: Nat, moved: Nat],
         history' \in [loaded: BOOLEAN, reprogrammed: BOOLEAN],
         RemainingIsBlock'
  PROVE  IInv'
BY DEF IInv, TypeOK, Typed, HeldOnlyByTransfer, TransferringOnlyInLoop,
       LoopIsOfItsKind, Placed

LEMMA Now ==
  ASSUME IInv
  PROVE  /\ dma \in Dma /\ Typed(dma) /\ Placed(dma, at)
         /\ call \in [src_is_a: BOOLEAN, per: Nat, duration: Nat, moved: Nat]
         /\ history \in [loaded: BOOLEAN, reprogrammed: BOOLEAN]
         /\ at \in {"dma", "step", "cpu", "block", "end"}
         /\ RemainingIsBlock
         /\ dma.remaining \in Nat /\ dma.active_burst \in BOOLEAN
         /\ dma.in_transfer \in BOOLEAN /\ dma.hold_cpu \in BOOLEAN
BY DmaFields, TopType
   DEF IInv, TypeOK, Typed, HeldOnlyByTransfer, TransferringOnlyInLoop,
       LoopIsOfItsKind, Placed

LEMMA EnterStepGood == ASSUME IInv, EnterStep PROVE Good
<1>1. /\ Typed(dma') /\ dma'.in_transfer /\ dma'.active_burst
      /\ dma'.hold_cpu = dma.hold_cpu /\ dma'.remaining = dma.remaining
      /\ dma'.counter = dma.counter /\ dma'.block_len = dma.block_len
      /\ dma'.end_of_block = dma.end_of_block
  <2>1. dma' = [dma EXCEPT !.in_transfer = TRUE] /\ dma.active_burst
    BY DEF EnterStep
  <2> QED BY <2>1, Now, FlagType
<1>2. call' \in [src_is_a: BOOLEAN, per: Nat, duration: Nat, moved: Nat]
  BY Now, CallType DEF EnterStep, Dma
<1>3. RemainingIsBlock'
  BY <1>1, Now DEF EnterStep, RemainingIsBlock, Busy
<1>4. Placed(dma', at')
  BY <1>1, Now DEF EnterStep, Placed
<1> QED BY <1>1, <1>2, <1>3, <1>4, Now, GoodByParts
           DEF EnterStep, Good, EndsComplete, ChargesOnce

LEMMA NoStepGood == ASSUME IInv, NoStep PROVE Good
<1>1. Placed(dma', at') /\ RemainingIsBlock'
  BY Now DEF NoStep, Placed, RemainingIsBlock, Busy, BlockBytes
<1> QED BY <1>1, Now, GoodByParts DEF NoStep, Good, EndsComplete, ChargesOnce

LEMMA StepByteGood == ASSUME IInv, StepByte PROVE Good
<1>1. PICK e \in Moved(dma, call.src_is_a) :
        /\ history' = Remember(Undisturbed(dma, call.src_is_a), e)
        /\ IF e.in_transfer
           THEN /\ dma' = Paid(e)
                /\ call' = [call EXCEPT !.moved = @ + 1]
                /\ UNCHANGED at
           ELSE /\ dma' = e /\ call' = Idle /\ at' = "cpu"
  BY DEF StepByte
<1>2. /\ at = "step" /\ dma.remaining > 0 /\ dma.in_transfer /\ dma.active_burst
      /\ dma.hold_cpu \in BOOLEAN /\ dma.remaining \in Nat
  BY Now DEF StepByte, Placed
<1>3. /\ ByteMoved(dma, e)
      /\ history' \in [loaded: BOOLEAN, reprogrammed: BOOLEAN]
      /\ ~history'.reprogrammed /\ e.in_transfer /\ e.remaining > 0
           => e.remaining = BlockBytes(e.counter, e.block_len)
  BY <1>1, <1>2, PassFacts
<1>4. e \in Dma /\ Typed(e)
  BY <1>3 DEF ByteMoved, Typed
<1>5. CASE e.in_transfer
  <2>1. /\ e.active_burst /\ e.hold_cpu = dma.hold_cpu
        /\ e.remaining = dma.remaining - 1
    BY <1>2, <1>3, <1>5 DEF ByteMoved, Ended
  <2>2. /\ Typed(dma') /\ Steady(e, dma') /\ dma'.end_of_block = e.end_of_block
        /\ dma'.counter = e.counter /\ dma'.block_len = e.block_len
        /\ e.hold_cpu => dma'.pending_charge = e.pending_charge
    BY <1>1, <1>4, <1>5, Now, PaidType
  <2>3. Placed(dma', at')
    BY <1>1, <1>2, <1>5, <2>1, <2>2 DEF Placed, Steady
  <2>4. RemainingIsBlock'
    BY <1>3, <1>5, <2>2 DEF RemainingIsBlock, Steady
  <2>5. call' \in [src_is_a: BOOLEAN, per: Nat, duration: Nat, moved: Nat]
    BY <1>1, <1>5, Now
  <2>6. EndsComplete /\ ChargesOnce
    BY <1>2, <1>3, <2>1, <2>2 DEF EndsComplete, ChargesOnce, ByteMoved
  <2> QED BY <1>1, <1>2, <1>3, <1>5, <2>2, <2>3, <2>4, <2>5, <2>6, GoodByParts
             DEF Good
<1>6. CASE ~e.in_transfer
  <2>1. Ended(e)
    BY <1>3, <1>6 DEF ByteMoved
  <2>2. Placed(dma', at') /\ RemainingIsBlock'
    BY <1>1, <1>6, <2>1 DEF Placed, Ended, RemainingIsBlock, Busy
  <2>3. EndsComplete /\ ChargesOnce
    BY <1>1, <1>3, <1>6 DEF EndsComplete, ChargesOnce, ByteMoved
  <2>4. call' = Idle /\ at' = "cpu" /\ dma' = e
    BY <1>1, <1>6
  <2>5. call' \in [src_is_a: BOOLEAN, per: Nat, duration: Nat, moved: Nat]
    BY <1>4, <2>4, CallType DEF Idle
  <2> QED BY <1>3, <1>4, <2>2, <2>3, <2>4, <2>5, GoodByParts DEF Good
<1> QED BY <1>5, <1>6

LEMMA LeaveStepGood == ASSUME IInv, LeaveStep PROVE Good
<1> DEFINE left == [dma EXCEPT !.in_transfer = FALSE]
           done == FinishBlock(left)
<1>1. /\ left \in Dma /\ Typed(left) /\ ~left.in_transfer
      /\ left.active_burst = dma.active_burst
      /\ left.hold_cpu = dma.hold_cpu /\ left.remaining = dma.remaining
      /\ left.counter = dma.counter /\ left.block_len = dma.block_len
      /\ left.end_of_block = dma.end_of_block
      /\ left.pending_charge = dma.pending_charge
  BY Now, FlagType DEF Typed
<1>2. /\ at = "step" /\ at' = "cpu" /\ call' = Idle
      /\ dma' = IF dma.remaining = 0 THEN Stopped(done) ELSE left
      /\ history' = IF dma.remaining = 0 THEN Remember(done, dma') ELSE history
  BY DEF LeaveStep
<1> HIDE DEF left
<1>3. dma.in_transfer /\ dma.active_burst
  BY <1>2, Now DEF Placed
<1>4. call' \in [src_is_a: BOOLEAN, per: Nat, duration: Nat, moved: Nat]
  BY <1>2 DEF Idle
<1>5. history' \in [loaded: BOOLEAN, reprogrammed: BOOLEAN]
  BY <1>2, Now, RememberType
<1>6. CASE dma.remaining = 0
  <2>1. /\ done \in Dma /\ Typed(done) /\ Steady(left, done)
        /\ done.pending_charge = left.pending_charge
    BY <1>1, FinishBlockSteady DEF Typed
  <2> HIDE DEF done
  <2>2. /\ Typed(dma') /\ ~dma'.in_transfer
        /\ dma'.pending_charge = dma.pending_charge
        /\ \/ ~dma'.active_burst /\ ~dma'.hold_cpu
           \/ /\ dma'.active_burst /\ ~dma'.hold_cpu
              /\ dma'.remaining = BlockBytes(dma'.counter, dma'.block_len)
    BY <1>1, <1>2, <1>3, <1>6, <2>1, StoppedType DEF Steady
  <2>3. BlockBytes(dma'.counter, dma'.block_len) > 0
    <3>1. dma' \in Dma
      BY <2>2 DEF Typed
    <3> QED BY <3>1, DmaFields, BlockBytesType, TopType
  <2>4. Placed(dma', at') /\ RemainingIsBlock'
    BY <1>2, <2>2, <2>3 DEF Placed, RemainingIsBlock, Busy
  <2>5. EndsComplete /\ ChargesOnce
    BY <1>2, <1>3, <1>6, <2>2 DEF EndsComplete, ChargesOnce
  <2> QED BY <1>2, <1>4, <1>5, <2>2, <2>4, <2>5, GoodByParts DEF Good
<1>7. CASE dma.remaining # 0
  <2>1. dma' = left /\ history' = history
    BY <1>2, <1>7
  <2>2. (dma.hold_cpu => dma.active_burst) /\ dma.remaining > 0
    BY <1>7, Now DEF Placed
  <2>5. Placed(dma', at')
    BY <1>1, <1>2, <2>1, <2>2 DEF Placed
  <2>3. RemainingIsBlock'
    BY <1>1, <2>1, <1>3, Now DEF RemainingIsBlock, Busy
  <2>4. EndsComplete /\ ChargesOnce
    BY <1>1, <2>1 DEF EndsComplete, ChargesOnce
  <2> QED BY <1>1, <1>2, <1>4, <1>5, <2>1, <2>3, <2>4, <2>5, GoodByParts DEF Good
<1> QED BY <1>6, <1>7

LEMMA CpuPassesGood == ASSUME IInv, CpuPasses PROVE Good
<1>1. Placed(dma', at') /\ RemainingIsBlock'
  BY Now DEF CpuPasses, Placed, RemainingIsBlock, Busy, BlockBytes
<1> QED BY <1>1, Now, GoodByParts DEF CpuPasses, Good, EndsComplete, ChargesOnce

LEMMA CpuWritesGood == ASSUME IInv, CpuWrites PROVE Good
<1>0. PICK on \in Z80Ports : \E e \in Written(SetZ80Mode(dma, on)) :
        /\ dma' = e
        /\ history' = IF Busy(e) /\ ~Busy(dma)
                      THEN [Remember(dma, e) EXCEPT !.reprogrammed = FALSE]
                      ELSE Remember(dma, e)
        /\ IF e.in_transfer
           THEN /\ at' = "block"
                /\ call' = [Idle EXCEPT !.src_is_a = e.a_to_b,
                                        !.duration = e.remaining
                                                     * PerByteCycles(e)]
           ELSE /\ at' = "end" /\ UNCHANGED call
  BY DEF CpuWrites
<1>1. PICK e \in Written(SetZ80Mode(dma, on)) :
        /\ dma' = e
        /\ history' = IF Busy(e) /\ ~Busy(dma)
                      THEN [Remember(dma, e) EXCEPT !.reprogrammed = FALSE]
                      ELSE Remember(dma, e)
        /\ IF e.in_transfer
           THEN /\ at' = "block"
                /\ call' = [Idle EXCEPT !.src_is_a = e.a_to_b,
                                        !.duration = e.remaining
                                                     * PerByteCycles(e)]
           ELSE /\ at' = "end" /\ UNCHANGED call
  BY <1>0
<1>2. at = "cpu" /\ ~dma.in_transfer
  BY Now DEF CpuWrites, Placed
<1>3. /\ dma.hold_cpu => dma.active_burst
      /\ dma.active_burst => dma.remaining > 0
  BY <1>2, Now DEF Placed
<1>4. CommandStep(dma, e)
  <2>1. on \in BOOLEAN
    BY <1>1, ProgramAssumption
  <2> QED BY <1>1, <1>3, <2>1, Now, PortWriteIsStep
<1>5. e \in Dma /\ Typed(e)
  BY <1>4 DEF CommandStep, Typed
<1>6. e.remaining \in Nat /\ BlockBytes(e.counter, e.block_len) > 0
  BY <1>5, DmaFields, BlockBytesType, TopType
<1>7. history' \in [loaded: BOOLEAN, reprogrammed: BOOLEAN]
  <2> DEFINE h == Remember(dma, e)
  <2>1. h \in [loaded: BOOLEAN, reprogrammed: BOOLEAN]
    BY RememberType
  <2> HIDE DEF h
  <2>2. [h EXCEPT !.reprogrammed = FALSE] \in [loaded: BOOLEAN, reprogrammed: BOOLEAN]
    BY <2>1
  <2>3. history' = IF Busy(e) /\ ~Busy(dma)
                   THEN [h EXCEPT !.reprogrammed = FALSE] ELSE h
    BY <1>1 DEF h
  <2> QED BY <2>1, <2>2, <2>3
<1>8. call' \in [src_is_a: BOOLEAN, per: Nat, duration: Nat, moved: Nat]
  <2>1. e.a_to_b \in BOOLEAN
    BY <1>5 DEF Dma
  <2> QED BY <1>1, <1>5, <2>1, Now, CallType
<1>9. at' = IF e.in_transfer THEN "block" ELSE "end"
  BY <1>1
<1>10. Placed(e, at')
  BY <1>2, <1>3, <1>4, <1>6, <1>9
     DEF CommandStep, Steady, Ended, Started, Busy, Placed
<1>11. RemainingIsBlock'
  <2>1. SUFFICES ASSUME Busy(e), ~history'.reprogrammed, e.remaining > 0
                 PROVE  e.remaining = BlockBytes(e.counter, e.block_len)
    BY <1>1 DEF RemainingIsBlock
  <2>2. CASE Started(dma, e)
    BY <2>2 DEF Started
  <2>3. CASE Steady(dma, e)
    <3>1. Busy(dma) /\ dma.remaining = e.remaining
      BY <2>1, <2>3 DEF Busy, Steady
    <3>2. ~history.reprogrammed /\ SameBlock(dma, e)
      BY <1>1, <2>1, <3>1, RememberType
    <3> QED BY <2>1, <3>1, <3>2, Now DEF RemainingIsBlock, SameBlock
  <2>4. CASE Ended(e)
    BY <2>1, <2>4 DEF Ended, Busy
  <2> QED BY <1>4, <2>2, <2>3, <2>4 DEF CommandStep
<1>12. EndsComplete /\ ChargesOnce
  BY <1>1, <1>2, <1>4 DEF EndsComplete, ChargesOnce, CommandStep
<1> QED BY <1>1, <1>5, <1>7, <1>8, <1>9, <1>10, <1>11, <1>12, GoodByParts DEF Good

LEMMA CpuReadsGood == ASSUME IInv, CpuReads PROVE Good
<1>1. PICK on \in Z80Ports : dma' = ReadCommand(SetZ80Mode(dma, on))
  BY DEF CpuReads
<1>2. at = "cpu" /\ at' = "end" /\ history' = Remember(dma, dma') /\ call' = call
  BY DEF CpuReads
<1> DEFINE z == SetZ80Mode(dma, on)
<1>3. /\ z \in Dma /\ Typed(z) /\ Steady(dma, z)
      /\ z.end_of_block = dma.end_of_block
      /\ z.counter = dma.counter /\ z.block_len = dma.block_len
  BY Now, ProgramAssumption, SetZ80ModeType DEF Typed
<1>4. dma' = ReadCommand(z)
  BY <1>1
<1> HIDE DEF z
<1>5. /\ Typed(dma') /\ Steady(dma, dma') /\ dma'.end_of_block = dma.end_of_block
      /\ dma'.counter = dma.counter /\ dma'.block_len = dma.block_len
  BY <1>3, <1>4, ReadCommandType DEF Steady
<1>6. Placed(dma', at') /\ EndsComplete /\ ChargesOnce
  BY <1>2, <1>5, Now DEF Placed, Steady, EndsComplete, ChargesOnce
<1>7. RemainingIsBlock'
  <2>1. ~history'.reprogrammed => ~history.reprogrammed
    BY <1>2, RememberType
  <2> QED BY <1>5, <2>1, Now DEF RemainingIsBlock, Busy, Steady
<1> QED BY <1>2, <1>5, <1>6, <1>7, Now, RememberType, GoodByParts DEF Good

LEMMA MachineResetGood == ASSUME IInv, MachineReset PROVE Good
<1>1. /\ at \in {"cpu", "dma"} /\ at' \in {"end", "dma"}
      /\ dma' = ResetDma(dma) /\ history' = Remember(dma, dma') /\ call' = call
  BY DEF MachineReset
<1>2. CommandStep(dma, dma') /\ Ended(dma')
  BY <1>1, Now, ResetIsStep
<1>3. Placed(dma', at') /\ RemainingIsBlock'
  BY <1>1, <1>2 DEF Placed, Ended, RemainingIsBlock, Busy
<1>4. EndsComplete /\ ChargesOnce
  BY <1>1, <1>2 DEF EndsComplete, ChargesOnce, CommandStep
<1> QED BY <1>1, <1>2, <1>3, <1>4, Now, RememberType, GoodByParts
           DEF Good, CommandStep

LEMMA BlockByteGood == ASSUME IInv, BlockByte PROVE Good
<1>1. PICK e \in Moved(dma, call.src_is_a) :
        /\ history' = Remember(Undisturbed(dma, call.src_is_a), e)
        /\ IF e.in_transfer
           THEN /\ dma' = [e EXCEPT !.at_least_one = TRUE]
                /\ UNCHANGED <<at, call>>
           ELSE /\ dma' = e /\ call' = Idle /\ at' = "end"
  BY DEF BlockByte
<1>2. /\ at = "block" /\ dma.remaining > 0 /\ dma.in_transfer /\ ~dma.active_burst
      /\ ~dma.hold_cpu
  BY Now DEF BlockByte, Placed
<1>3. /\ ByteMoved(dma, e)
      /\ history' \in [loaded: BOOLEAN, reprogrammed: BOOLEAN]
      /\ ~history'.reprogrammed /\ e.in_transfer /\ e.remaining > 0
           => e.remaining = BlockBytes(e.counter, e.block_len)
  BY <1>1, <1>2, PassFacts
<1>4. e \in Dma /\ Typed(e)
  BY <1>3 DEF ByteMoved, Typed
<1>5. CASE e.in_transfer
  <2>1. ~e.active_burst /\ ~e.hold_cpu
    BY <1>2, <1>3 DEF ByteMoved, Ended
  <2>2. /\ Typed(dma') /\ Steady(e, dma') /\ dma'.end_of_block = e.end_of_block
        /\ dma'.counter = e.counter /\ dma'.block_len = e.block_len
    BY <1>1, <1>4, <1>5, FlagType
  <2>3. Placed(dma', at') /\ RemainingIsBlock'
    BY <1>1, <1>2, <1>3, <1>5, <2>1, <2>2 DEF Placed, Steady, RemainingIsBlock
  <2>4. EndsComplete /\ ChargesOnce
    BY <1>2, <1>3, <2>2 DEF EndsComplete, ChargesOnce, ByteMoved
  <2> QED BY <1>1, <1>2, <1>3, <1>5, <2>2, <2>3, <2>4, Now, GoodByParts DEF Good
<1>6. CASE ~e.in_transfer
  <2>1. Ended(e) /\ call' = Idle /\ at' = "end" /\ dma' = e
    BY <1>1, <1>3, <1>6 DEF ByteMoved
  <2>2. Placed(dma', at') /\ RemainingIsBlock'
    BY <2>1 DEF Placed, Ended, RemainingIsBlock, Busy
  <2>3. EndsComplete /\ ChargesOnce
    BY <1>2, <1>3, <2>1 DEF EndsComplete, ChargesOnce, ByteMoved
  <2>4. call' \in [src_is_a: BOOLEAN, per: Nat, duration: Nat, moved: Nat]
    BY <2>1 DEF Idle
  <2> QED BY <1>3, <1>4, <2>1, <2>2, <2>3, <2>4, GoodByParts DEF Good
<1> QED BY <1>5, <1>6

LEMMA LeaveBlockGood == ASSUME IInv, LeaveBlock PROVE Good
<1> DEFINE n == dma.pending_charge + call.duration
           left == [dma EXCEPT !.in_transfer = FALSE, !.pending_charge = n]
<1>1. /\ at = "block" /\ dma.remaining = 0 /\ at' = "end" /\ call' = Idle
      /\ dma' = FinishBlock(left) /\ history' = Remember(dma', dma')
  BY DEF LeaveBlock
<1>2. n \in Nat
  BY Now, DmaFields
<1> HIDE DEF n
<1>3. /\ left \in Dma /\ Typed(left) /\ ~left.in_transfer
      /\ ~left.active_burst /\ ~left.hold_cpu
  <2>1. /\ Typed(left) /\ ~left.in_transfer
        /\ left.active_burst = dma.active_burst /\ left.hold_cpu = dma.hold_cpu
    BY <1>2, Now, BlockChargeType
  <2> QED BY <1>1, <2>1, Now DEF Typed, Placed
<1> HIDE DEF left
<1>4. Typed(dma') /\ Steady(left, dma')
  BY <1>1, <1>3, FinishBlockSteady
<1>5. Placed(dma', at') /\ RemainingIsBlock'
  BY <1>1, <1>3, <1>4 DEF Placed, Steady, RemainingIsBlock, Busy
<1>6. EndsComplete /\ ChargesOnce
  BY <1>1, Now DEF EndsComplete, ChargesOnce, Placed
<1>7. call' \in [src_is_a: BOOLEAN, per: Nat, duration: Nat, moved: Nat]
  BY <1>1 DEF Idle
<1> QED BY <1>1, <1>4, <1>5, <1>6, <1>7, RememberType, GoodByParts DEF Good

LEMMA EndTickGood == ASSUME IInv, EndTick PROVE Good
<1> DEFINE u == IF dma.active_burst THEN dma.due - 1 - dma.pending_charge
                ELSE dma.due
<1>1. /\ at = "end" /\ at' = "dma" /\ call' = call /\ history' = history
      /\ dma' = [dma EXCEPT !.pending_charge = 0, !.due = u]
  BY DEF EndTick
<1>2. u \in Int
  <2>1. dma.due \in Int /\ dma.pending_charge \in Nat
    BY Now, DmaFields
  <2> QED BY <2>1
<1> HIDE DEF u
<1>3. /\ Typed(dma') /\ Steady(dma, dma') /\ dma'.end_of_block = dma.end_of_block
      /\ dma'.counter = dma.counter /\ dma'.block_len = dma.block_len
  BY <1>1, <1>2, Now, TickChargeType
<1>4. Placed(dma', at') /\ RemainingIsBlock' /\ EndsComplete /\ ChargesOnce
  BY <1>1, <1>3, Now
     DEF Placed, Steady, RemainingIsBlock, Busy, EndsComplete, ChargesOnce
<1> QED BY <1>1, <1>3, <1>4, Now, GoodByParts DEF Good

LEMMA StepHolds == IInv /\ [Next]_vars => Good
<1> SUFFICES ASSUME IInv, [Next]_vars PROVE Good
  OBVIOUS
<1>1. CASE UNCHANGED vars
  BY <1>1, Zenon DEF vars, Good, IInv, TypeOK, HeldOnlyByTransfer,
     TransferringOnlyInLoop, LoopIsOfItsKind, RemainingIsBlock,
     EndsComplete, ChargesOnce
<1> QED BY <1>1, EnterStepGood, NoStepGood, StepByteGood, LeaveStepGood,
           CpuPassesGood, CpuWritesGood, CpuReadsGood, MachineResetGood,
           BlockByteGood, LeaveBlockGood, EndTickGood, Zenon DEF Next

LEMMA IInvHolds == Spec => []IInv
<1>1. IInv /\ [Next]_vars => IInv'
  BY StepHolds DEF Good
<1> QED BY <1>1, InitHolds, PTL DEF Spec

-----------------------------------------------------------------------------
(* Whatever bytes a program, or a transfer through a port, writes to the    *)
(* controller, its registers keep their types and the parameter queue of    *)
(* NEXT_DMA_PENDING_CAPACITY never overflows.                               *)
THEOREM TypeCorrect == Spec => []TypeOK
BY IInvHolds, PTL DEF IInv

(* hold_cpu freezes the CPU only while next_dma_step has a transfer that    *)
(* still moves bytes, so the CPU never waits for a transfer that is over.   *)
THEOREM CpuNeverHeldForNothing == Spec => []HeldOnlyByTransfer
BY IInvHolds, PTL DEF IInv

(* No path out of next_dma_step or next_dma_run_block, by the last byte or  *)
(* by an abort in the middle, leaves in_transfer set and next_dma_trigger   *)
(* deaf.                                                                    *)
THEOREM TriggerNeverDeaf == Spec => []TransferringOnlyInLoop
BY IInvHolds, PTL DEF IInv

(* A transfer that is not reprogrammed moves exactly the bytes that         *)
(* next_dma_block_bytes counts, through the wrap of the counter, with and   *)
(* without a prescaler and through auto-restart.                            *)
THEOREM WholeBlockMoves == Spec => []RemainingIsBlock
BY IInvHolds, PTL DEF IInv

(* The end-of-block bit a program polls for rises only at the end of a      *)
(* block whose last byte moved, never when the transfer was aborted.        *)
THEOREM EndOfBlockTrue == Spec => EndOfBlockIsComplete
<1>1. IInv /\ [Next]_vars => [EndsComplete]_vars
  BY StepHolds DEF Good
<1> QED BY <1>1, IInvHolds, PTL DEF Spec, EndOfBlockIsComplete, EndsComplete

(* A transfer that holds the CPU adds no charge to the ticks it lasts.      *)
THEOREM HeldTimeNotCharged == Spec => HeldTimePassesOnce
<1>1. IInv /\ [Next]_vars => [ChargesOnce]_vars
  BY StepHolds DEF Good
<1> QED BY <1>1, IInvHolds, PTL DEF Spec, HeldTimePassesOnce, ChargesOnce

(* What is left is always the rest of the block, and the end-of-block bit   *)
(* says so.                                                                *)
THEOREM BlocksMoveWhole == Spec => BlocksAreWhole
BY WholeBlockMoves, TriggerNeverDeaf, EndOfBlockTrue, PTL DEF BlocksAreWhole

-----------------------------------------------------------------------------
(* Counter and pointers.                                                   *)

Size == Top + 1

LEMMA Remainder ==
  ASSUME NEW n \in Nat, n > 0, NEW r \in 0..(n - 1), NEW x \in {r, r + n, r - n}
  PROVE  x % n = r
<1>1. CASE x = r
  BY <1>1
<1>2. CASE x = r + n
  BY <1>2
<1>3. CASE x = r - n
  BY <1>3
<1> QED BY <1>1, <1>2, <1>3

(* What two words differ by, and their sum, around the end of memory.       *)
LEMMA Around ==
  ASSUME NEW v \in Word, NEW w \in Word
  PROVE  /\ (v - w) % Size = IF v >= w THEN v - w ELSE v - w + Size
         /\ (v + w) % Size = IF v + w <= Top THEN v + w ELSE v + w - Size
         /\ (v - w) % Size \in Word /\ (v + w) % Size \in Word
<1> DEFINE d == IF v >= w THEN v - w ELSE v - w + Size
           s == IF v + w <= Top THEN v + w ELSE v + w - Size
<1>1. Size \in Nat /\ Size > 0 /\ Size - 1 = Top
  BY TopType DEF Size
<1>2. d \in 0..(Size - 1) /\ s \in 0..(Size - 1) /\ v - w \in {d, d + Size, d - Size}
      /\ v + w \in {s, s + Size, s - Size}
  BY TopType DEF Size, Word
<1> HIDE DEF d, s
<1>3. (v - w) % Size = d
  BY <1>1, <1>2, Remainder
<1>4. (v + w) % Size = s
  BY <1>1, <1>2, Remainder
<1> QED BY <1>1, <1>2, <1>3, <1>4 DEF d, s, Word

LEMMA CountedOnce ==
  ASSUME NEW c \in Word, NEW i \in Word
  PROVE  (Inc(c) - i) % Size = Inc((c - i) % Size)
<1>1. Inc(c) \in Word
  BY IncType
<1>2. /\ (Inc(c) - i) % Size = IF Inc(c) >= i THEN Inc(c) - i ELSE Inc(c) - i + Size
      /\ (c - i) % Size = IF c >= i THEN c - i ELSE c - i + Size
  BY <1>1, Around
<1> QED BY <1>2, TopType DEF Inc, Word, Size

LEMMA AdvancedOnce ==
  ASSUME NEW w \in Word, NEW mode \in AddrModes, NEW n \in Word
  PROVE  /\ Advanced(w, mode, 0) = w
         /\ Advanced(w, mode, Inc(n)) = StepAddr(Advanced(w, mode, n), mode)
<1>1. Inc(n) \in Word /\ 0 \in Word
  BY IncType, TopType DEF Word
<1>2. /\ (w - 0) % Size = w /\ (w + 0) % Size = w
  BY <1>1, Around, TopType DEF Word
<1>3. CASE mode = "INCREMENT"
  <2>1. /\ (w + n) % Size = IF w + n <= Top THEN w + n ELSE w + n - Size
        /\ (w + Inc(n)) % Size = IF w + Inc(n) <= Top THEN w + Inc(n) ELSE w + Inc(n) - Size
    BY <1>1, Around
  <2>2. (w + Inc(n)) % Size = Inc((w + n) % Size)
    BY <2>1, TopType DEF Inc, Word, Size
  <2> QED BY <1>2, <1>3, <2>2 DEF Advanced, StepAddr, Size
<1>4. CASE mode = "DECREMENT"
  <2>1. /\ (w - n) % Size = IF w >= n THEN w - n ELSE w - n + Size
        /\ (w - Inc(n)) % Size = IF w >= Inc(n) THEN w - Inc(n) ELSE w - Inc(n) + Size
    BY <1>1, Around
  <2>2. (w - Inc(n)) % Size = Dec((w - n) % Size)
    BY <2>1, TopType DEF Inc, Dec, Word, Size
  <2> QED BY <1>2, <1>4, <2>2 DEF Advanced, StepAddr, Size
<1>5. CASE mode = "FIXED"
  BY <1>5 DEF Advanced, StepAddr
<1> QED BY <1>3, <1>4, <1>5 DEF AddrModes

Follows(d) ==
  LET n == (d.counter - CounterInit(d)) % (Top + 1)
  IN  /\ d.cur_a = Advanced(d.port_a_start, d.a_mode, n)
      /\ d.cur_b = Advanced(d.port_b_start, d.b_mode, n)

(* As a load leaves them, or as one byte more than before.                  *)
LEMMA FollowsAtStart ==
  ASSUME NEW d \in Dma, AtStart(d)
  PROVE  Follows(d)
<1>1. /\ d.port_a_start \in Word /\ d.port_b_start \in Word
      /\ d.a_mode \in AddrModes /\ d.b_mode \in AddrModes
  BY DmaFields
<1>2. CounterInit(d) \in Word /\ 0 \in Word
  BY CounterInitType, TopType DEF Word
<1> DEFINE i == CounterInit(d)
<1>3. (i - i) % Size = 0
  <2> HIDE DEF i
  <2>1. i \in Word
    BY <1>2 DEF i
  <2>2. (i - i) % Size = IF i >= i THEN i - i ELSE i - i + Size
    BY <2>1, Around
  <2> QED BY <2>1, <2>2, TopType DEF Word
<1> QED BY <1>1, <1>2, <1>3, AdvancedOnce DEF Follows, AtStart, Size

LEMMA FollowsSame ==
  ASSUME NEW d, NEW e, SamePointers(d, e), Follows(d)
  PROVE  Follows(e)
BY DEF SamePointers, Follows, CounterInit

(* A byte between endpoints that leave the controller alone moves counter   *)
(* and pointers one further, each as its mode says.                         *)
LEMMA StepPointerPointers ==
  ASSUME NEW d \in Dma, NEW a \in BOOLEAN
  PROVE  LET e == StepPointer(d, a)
         IN  /\ e.cur_a = IF a THEN StepAddr(d.cur_a, d.a_mode) ELSE d.cur_a
             /\ e.cur_b = IF a THEN d.cur_b ELSE StepAddr(d.cur_b, d.b_mode)
             /\ e.port_a_start = d.port_a_start /\ e.port_b_start = d.port_b_start
             /\ e.counter = d.counter /\ e.a_mode = d.a_mode /\ e.b_mode = d.b_mode
             /\ e.z80_mode = d.z80_mode
BY DEF StepPointer, Dma

LEMMA CountedPointers ==
  ASSUME NEW d \in Dma
  PROVE  LET e == Counted(d)
         IN  /\ e.cur_a = d.cur_a /\ e.cur_b = d.cur_b
             /\ e.port_a_start = d.port_a_start /\ e.port_b_start = d.port_b_start
             /\ e.counter = Inc(d.counter) /\ e.a_mode = d.a_mode /\ e.b_mode = d.b_mode
             /\ e.z80_mode = d.z80_mode
BY DEF Counted, Dma

LEMMA FollowsUndisturbed ==
  ASSUME NEW d \in Dma, Typed(d), d.remaining > 0, NEW a \in BOOLEAN, Follows(d)
  PROVE  Follows(Undisturbed(d, a))
<1> DEFINE s == StepPointer(d, a)
           c == Counted(s)
           u == StepPointer(c, ~a)
           n == (d.counter - CounterInit(d)) % Size
<1>1. s \in Dma /\ Typed(s) /\ s.remaining = d.remaining
  BY StepPointerType DEF Typed, Steady
<1>2. /\ s.cur_a = IF a THEN StepAddr(d.cur_a, d.a_mode) ELSE d.cur_a
      /\ s.cur_b = IF a THEN d.cur_b ELSE StepAddr(d.cur_b, d.b_mode)
      /\ s.port_a_start = d.port_a_start /\ s.port_b_start = d.port_b_start
      /\ s.counter = d.counter /\ s.a_mode = d.a_mode /\ s.b_mode = d.b_mode
      /\ s.z80_mode = d.z80_mode
  BY StepPointerPointers
<1> HIDE DEF s
<1>3. c \in Dma
  BY <1>1, CountedType DEF Typed
<1>4. /\ c.cur_a = s.cur_a /\ c.cur_b = s.cur_b
      /\ c.port_a_start = s.port_a_start /\ c.port_b_start = s.port_b_start
      /\ c.counter = Inc(s.counter) /\ c.a_mode = s.a_mode /\ c.b_mode = s.b_mode
      /\ c.z80_mode = s.z80_mode
  BY <1>1, CountedPointers
<1> HIDE DEF c
<1>5. /\ u.cur_a = IF ~a THEN StepAddr(c.cur_a, c.a_mode) ELSE c.cur_a
      /\ u.cur_b = IF ~a THEN c.cur_b ELSE StepAddr(c.cur_b, c.b_mode)
      /\ u.port_a_start = c.port_a_start /\ u.port_b_start = c.port_b_start
      /\ u.counter = c.counter /\ u.a_mode = c.a_mode /\ u.b_mode = c.b_mode
      /\ u.z80_mode = c.z80_mode
  <2>1. (~a) \in BOOLEAN
    OBVIOUS
  <2> QED BY <1>3, <2>1, StepPointerPointers
<1> HIDE DEF u
<1>6. /\ u.cur_a = StepAddr(d.cur_a, d.a_mode) /\ u.cur_b = StepAddr(d.cur_b, d.b_mode)
      /\ u.port_a_start = d.port_a_start /\ u.port_b_start = d.port_b_start
      /\ u.counter = Inc(d.counter) /\ u.a_mode = d.a_mode /\ u.b_mode = d.b_mode
      /\ CounterInit(u) = CounterInit(d)
  BY <1>2, <1>4, <1>5 DEF CounterInit
<1>7. /\ d.port_a_start \in Word /\ d.port_b_start \in Word /\ d.counter \in Word
      /\ d.a_mode \in AddrModes /\ d.b_mode \in AddrModes /\ CounterInit(d) \in Word
  BY DmaFields, CounterInitType
<1>8. n \in Word /\ (u.counter - CounterInit(u)) % Size = Inc(n)
  <2> DEFINE i == CounterInit(d)
             k == d.counter
  <2> HIDE DEF i, k
  <2>1. i \in Word /\ k \in Word
    BY <1>7 DEF i, k
  <2>2. (k - i) % Size \in Word /\ (Inc(k) - i) % Size = Inc((k - i) % Size)
    BY <2>1, CountedOnce, Around
  <2>3. u.counter = Inc(k) /\ CounterInit(u) = i /\ n = (k - i) % Size
    BY <1>6 DEF i, k
  <2> QED BY <2>2, <2>3
<1>9. /\ d.cur_a = Advanced(d.port_a_start, d.a_mode, n)
      /\ d.cur_b = Advanced(d.port_b_start, d.b_mode, n)
  BY DEF Follows, Size
<1> HIDE DEF n
<1>10. /\ u.cur_a = Advanced(u.port_a_start, u.a_mode, Inc(n))
       /\ u.cur_b = Advanced(u.port_b_start, u.b_mode, Inc(n))
  BY <1>6, <1>7, <1>8, <1>9, AdvancedOnce
<1>11. Follows(u)
  BY <1>8, <1>10 DEF Follows, Size
<1> QED BY <1>11 DEF Undisturbed, u, c, s

(* What is remembered of counter and pointers is true of the controller     *)
(* that is remembered.                                                      *)
LEMMA Remembered ==
  ASSUME NEW p, NEW e \in Dma, history.loaded => Follows(p), Remember(p, e).loaded
  PROVE  Follows(e)
<1>1. AtStart(e) \/ (history.loaded /\ SamePointers(p, e))
  BY DEF Remember
<1> QED BY <1>1, FollowsAtStart, FollowsSame

LEMMA FinishBlockFollows ==
  ASSUME NEW d \in Dma, Follows(d)
  PROVE  Follows(FinishBlock(d))
<1> DEFINE i == CounterInit(d)
           l == [d EXCEPT !.cur_a = d.port_a_start, !.cur_b = d.port_b_start, !.counter = i]
           x == [l EXCEPT !.end_of_block = TRUE]
           y == [d EXCEPT !.end_of_block = TRUE, !.at_least_one = FALSE]
<1>1. /\ d.port_a_start \in Word /\ d.port_b_start \in Word /\ i \in Word
  BY DmaFields, CounterInitType
<1>2. i = IF d.z80_mode THEN Top ELSE 0
  BY DEF CounterInit
<1> HIDE DEF i
<1>3. l \in Dma
  BY <1>1, Zenon DEF Dma
<1>4. /\ l.cur_a = l.port_a_start /\ l.cur_b = l.port_b_start /\ l.counter = i
      /\ l.z80_mode = d.z80_mode
  BY DEF Dma
<1> HIDE DEF l
<1>5. x \in Dma
  BY <1>3, Zenon DEF Dma
<1>6. /\ x.cur_a = x.port_a_start /\ x.cur_b = x.port_b_start /\ x.counter = i
      /\ x.z80_mode = d.z80_mode
  BY <1>3, <1>4 DEF Dma
<1> HIDE DEF x
<1>7. Follows(x)
  BY <1>2, <1>5, <1>6, FollowsAtStart DEF AtStart, CounterInit
<1>8. SamePointers(d, y)
  BY DEF SamePointers, Dma
<1> HIDE DEF y
<1>9. Follows(y)
  BY <1>8, FollowsSame
<1>10. FinishBlock(d) = IF d.auto_restart THEN x ELSE y
  BY Zenon DEF FinishBlock, Load, x, l, i, y
<1> QED BY <1>7, <1>9, <1>10

Tracked == history.loaded => Follows(dma)

LEMMA KeptTracked ==
  ASSUME Tracked, history' = history, SamePointers(dma, dma')
  PROVE  Tracked'
BY FollowsSame DEF Tracked

(* The registers that neither the charge of a byte nor the end of a block  *)
(* of a paced transfer touches.                                            *)
LEMMA PaidPointers ==
  ASSUME NEW d \in Dma
  PROVE  SamePointers(d, Paid(d))
BY DEF Paid, SamePointers, Dma

LEMMA StoppedPointers ==
  ASSUME NEW d \in Dma
  PROVE  SamePointers(d, Stopped(d))
BY DEF Stopped, SamePointers, Dma

(* One pass of either loop: what it remembers is what a byte between       *)
(* endpoints that leave the controller alone makes of the pointers.        *)
LEMMA MovedFollows ==
  ASSUME IInv, Tracked, dma.in_transfer, dma.remaining > 0,
         NEW e \in Moved(dma, call.src_is_a),
         Remember(Undisturbed(dma, call.src_is_a), e).loaded
  PROVE  e \in Dma /\ Follows(e)
<1> DEFINE a == call.src_is_a
           u == Undisturbed(dma, a)
<1>1. dma \in Dma /\ Typed(dma) /\ a \in BOOLEAN
  BY Now
<1>2. history.loaded => Follows(u)
  BY <1>1, FollowsUndisturbed DEF Tracked
<1>3. e \in Dma
  BY PassFacts DEF ByteMoved, Typed
<1> HIDE DEF u
<1>4. Remember(u, e).loaded
  BY DEF u
<1> QED BY <1>2, <1>3, <1>4, Remembered

LEMMA StepByteTracked == ASSUME IInv, Tracked, StepByte PROVE Tracked'
<1>1. PICK e \in Moved(dma, call.src_is_a) :
        /\ history' = Remember(Undisturbed(dma, call.src_is_a), e)
        /\ dma' = IF e.in_transfer THEN Paid(e) ELSE e
  BY DEF StepByte
<1>2. dma.in_transfer /\ dma.remaining > 0
  BY Now DEF StepByte, Placed
<1>3. e \in Dma
  BY <1>2, PassFacts DEF ByteMoved, Typed
<1>4. SamePointers(e, dma')
  BY <1>1, <1>3, PaidPointers DEF SamePointers
<1>5. history'.loaded => Follows(e)
  BY <1>1, <1>2, MovedFollows
<1> QED BY <1>4, <1>5, FollowsSame DEF Tracked

LEMMA BlockByteTracked == ASSUME IInv, Tracked, BlockByte PROVE Tracked'
<1>1. PICK e \in Moved(dma, call.src_is_a) :
        /\ history' = Remember(Undisturbed(dma, call.src_is_a), e)
        /\ dma' = IF e.in_transfer THEN [e EXCEPT !.at_least_one = TRUE] ELSE e
  BY DEF BlockByte
<1>2. dma.in_transfer /\ dma.remaining > 0
  BY Now DEF BlockByte, Placed
<1>3. e \in Dma
  BY <1>2, PassFacts DEF ByteMoved, Typed
<1>4. SamePointers(e, dma')
  BY <1>1, <1>3 DEF SamePointers, Dma
<1>5. history'.loaded => Follows(e)
  BY <1>1, <1>2, MovedFollows
<1> QED BY <1>4, <1>5, FollowsSame DEF Tracked

LEMMA LeaveStepTracked == ASSUME IInv, Tracked, LeaveStep PROVE Tracked'
<1> DEFINE left == [dma EXCEPT !.in_transfer = FALSE]
           done == FinishBlock(left)
<1>1. left \in Dma /\ SamePointers(dma, left)
  <2>1. left \in Dma
    BY Now, Zenon DEF Dma
  <2> QED BY <2>1, Now DEF SamePointers, Dma
<1>2. /\ dma' = IF dma.remaining = 0 THEN Stopped(done) ELSE left
      /\ history' = IF dma.remaining = 0 THEN Remember(done, dma') ELSE history
  BY DEF LeaveStep
<1>3. Typed(left)
  BY <1>1, Now DEF Typed, Dma
<1>4. history.loaded => Follows(left)
  BY <1>1, FollowsSame DEF Tracked
<1> HIDE DEF left
<1>5. CASE dma.remaining = 0
  <2>1. done \in Dma /\ (history.loaded => Follows(done)) /\ Typed(done)
    BY <1>1, <1>3, <1>4, FinishBlockFollows, FinishBlockSteady DEF Typed
  <2> HIDE DEF done
  <2>2. dma' \in Dma
    BY <1>2, <1>5, <2>1, StoppedType DEF Typed
  <2> QED BY <1>2, <1>5, <2>1, <2>2, Remembered DEF Tracked
<1>6. CASE dma.remaining # 0
  BY <1>2, <1>4, <1>6 DEF Tracked
<1> QED BY <1>5, <1>6

LEMMA CpuWritesTracked == ASSUME IInv, Tracked, CpuWrites PROVE Tracked'
<1>1. PICK e : /\ dma' = e
               /\ history' = IF Busy(e) /\ ~Busy(dma)
                             THEN [Remember(dma, e) EXCEPT !.reprogrammed = FALSE]
                             ELSE Remember(dma, e)
  BY DEF CpuWrites
<1>2. dma' \in Dma
  BY CpuWritesGood DEF Good, IInv, TypeOK
<1>3. history'.loaded => Remember(dma, dma').loaded
  <2> DEFINE h == Remember(dma, dma')
  <2>1. h \in [loaded: BOOLEAN, reprogrammed: BOOLEAN]
    BY RememberType
  <2> HIDE DEF h
  <2>2. history' = IF Busy(dma') /\ ~Busy(dma)
                   THEN [h EXCEPT !.reprogrammed = FALSE] ELSE h
    BY <1>1 DEF h
  <2>3. [h EXCEPT !.reprogrammed = FALSE].loaded = h.loaded
    BY <2>1
  <2> QED BY <2>2, <2>3 DEF h
<1> QED BY <1>2, <1>3, Remembered DEF Tracked

LEMMA CpuReadsTracked == ASSUME IInv, Tracked, CpuReads PROVE Tracked'
<1>1. history' = Remember(dma, dma')
  BY DEF CpuReads
<1>2. dma' \in Dma
  BY CpuReadsGood DEF Good, IInv, TypeOK
<1> QED BY <1>1, <1>2, Remembered DEF Tracked

LEMMA MachineResetTracked == ASSUME IInv, Tracked, MachineReset PROVE Tracked'
<1>1. history' = Remember(dma, dma')
  BY DEF MachineReset
<1>2. dma' \in Dma
  BY MachineResetGood DEF Good, IInv, TypeOK
<1> QED BY <1>1, <1>2, Remembered DEF Tracked

LEMMA LeaveBlockTracked == ASSUME IInv, Tracked, LeaveBlock PROVE Tracked'
<1> DEFINE n == dma.pending_charge + call.duration
           left == [dma EXCEPT !.in_transfer = FALSE, !.pending_charge = n]
<1>1. dma' = FinishBlock(left) /\ history' = Remember(dma', dma')
  BY DEF LeaveBlock
<1>2. n \in Nat
  BY Now, DmaFields
<1> HIDE DEF n
<1>3. left \in Dma
  BY <1>2, Now, Zenon DEF Dma
<1>4. SamePointers(dma, left)
  BY Now DEF SamePointers, Dma
<1> HIDE DEF left
<1>5. history.loaded => Follows(dma')
  BY <1>1, <1>3, <1>4, FollowsSame, FinishBlockFollows DEF Tracked
<1>6. dma' \in Dma
  BY LeaveBlockGood DEF Good, IInv, TypeOK
<1> QED BY <1>1, <1>5, <1>6, Remembered DEF Tracked

LEMMA EndTickTracked == ASSUME IInv, Tracked, EndTick PROVE Tracked'
<1> DEFINE u == IF dma.active_burst THEN dma.due - 1 - dma.pending_charge
                ELSE dma.due
<1>1. history' = history /\ dma' = [dma EXCEPT !.pending_charge = 0, !.due = u]
  BY DEF EndTick
<1> HIDE DEF u
<1>2. SamePointers(dma, dma')
  BY <1>1, Now DEF SamePointers, Dma
<1> QED BY <1>1, <1>2, KeptTracked

LEMMA EnterStepTracked == ASSUME IInv, Tracked, EnterStep PROVE Tracked'
<1>1. history' = history /\ dma' = [dma EXCEPT !.in_transfer = TRUE]
  BY DEF EnterStep
<1>2. SamePointers(dma, dma')
  BY <1>1, Now DEF SamePointers, Dma
<1> QED BY <1>1, <1>2, KeptTracked

LEMMA TrackedHolds == IInv /\ Tracked /\ [Next]_vars => Tracked'
<1> SUFFICES ASSUME IInv, Tracked, [Next]_vars PROVE Tracked'
  OBVIOUS
<1>1. CASE UNCHANGED vars
  BY <1>1, Zenon DEF vars, Tracked
<1>2. CASE NoStep
  BY <1>2, Zenon DEF NoStep, Tracked
<1>3. CASE CpuPasses
  BY <1>3, Zenon DEF CpuPasses, Tracked
<1> QED BY <1>1, <1>2, <1>3, EnterStepTracked, StepByteTracked, LeaveStepTracked,
           CpuWritesTracked, CpuReadsTracked, MachineResetTracked,
           BlockByteTracked, LeaveBlockTracked, EndTickTracked, Zenon DEF Next

LEMMA InitTracked == Init => Tracked
<1>1. InitialDma \in Dma
  BY InitialDmaTyped DEF Typed
<1>2. AtStart(InitialDma)
  BY DEF AtStart, InitialDma, CounterInit
<1> QED BY <1>1, <1>2, FollowsAtStart DEF Init, Tracked

(* The addresses a program reads back are the start addresses advanced, as  *)
(* their modes say, by what the counter it reads back says was moved:       *)
(* through the wraps of either, auto-restart, an abort, and whatever the    *)
(* transfer wrote to its own command port, as long as nothing but the       *)
(* transfer moved them since the last load.                                 *)
THEOREM PointersTellTheCount == Spec => []PointersFollowCounter
<1>1. Tracked <=> PointersFollowCounter
  BY DEF Tracked, Follows, PointersFollowCounter
<1>2. IInv /\ IInv' /\ Tracked /\ [Next]_vars => Tracked'
  BY TrackedHolds
<1>3. Spec => []Tracked
  BY <1>2, InitTracked, IInvHolds, PTL DEF Spec
<1> QED BY <1>1, <1>3, PTL
=============================================================================
