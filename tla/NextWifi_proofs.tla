-------------------------- MODULE NextWifi_proofs --------------------------
(* Theorems about NextWifi, for every number of connections and every size  *)
(* of its FIFOs and buffers.  The worker's operators are shown to keep what  *)
(* holds of the worker alone (Good), so that each action is left with what   *)
(* relates the two threads.                                                 *)
EXTENDS NextWifi, FiniteSetTheorems, TLAPS

\* The worker's fields have their types; a payload fits besides.
Typed(w) == w \in Worker /\ Len(w.bytes) <= TxCapacity /\ Len(w.line) < LineCapacity
Fits(w)  == w.send.active => w.send.received < w.send.length
Good(w)  == Typed(w) /\ Fits(w)

\* The values of the worker's send field.
Sends == [active: BOOLEAN, connection: Ids, length: 0..MaxSend, received: 0..MaxSend]

\* What a command may not touch: where the worker's loop is.
SamePlace(x, w) ==
  x.pc = w.pc /\ x.id = w.id /\ x.maximum = w.maximum /\ x.bytes = w.bytes

-----------------------------------------------------------------------------
(* The worker's operators.                                                 *)

LEMMA IdsFinite == Cardinality(Ids) \in Nat \ {0} /\ 0 \in Ids
<1>1. Cardinality(Ids) \in Nat
  BY IdsAssumption, FS_CardinalityType
<1>2. QED
  BY <1>1, IdsAssumption

\* Texts are queued behind those that wait.
LEMMA SayTyped ==
  ASSUME NEW w, Typed(w), NEW n \in {1, 2}
  PROVE  Typed(Say(w, n)) /\ SamePlace(Say(w, n), w) /\ Say(w, n).send = w.send
<1> DEFINE Texts == [i \in 1..n |-> TextSize]
           Text  == 1..(TextSize + HeaderSize + Chunk)
<1>1. Texts \in Seq(Text)
  BY SizeAssumption
<1>2. w.out \in Seq(Text)
  BY DEF Typed, Worker
<1>3. w.out \o Texts \in Seq(Text)
  <2> HIDE DEF Texts, Text
  <2> QED BY <1>1, <1>2
<1>4. Say(w, n) = [w EXCEPT !.out = w.out \o Texts]
  BY DEF Say
<1> HIDE DEF Texts
<1>5. QED
  BY <1>3, <1>4 DEF Typed, Worker, SamePlace

LEMMA SayGood ==
  ASSUME NEW w, Good(w), NEW n \in {1, 2}
  PROVE  Good(Say(w, n)) /\ SamePlace(Say(w, n), w)
BY SayTyped DEF Good, Fits

\* The fields that commands set, one at a time.
LEMMA LineTyped ==
  ASSUME NEW w, Typed(w), NEW l \in Seq(session.symbols), Len(l) < LineCapacity
  PROVE  LET x == [w EXCEPT !.line = l]
         IN  Typed(x) /\ SamePlace(x, w) /\ x.send = w.send
BY DEF Typed, Worker, SamePlace

LEMMA NoLine == <<>> \in Seq(session.symbols) /\ Len(<<>>) < LineCapacity
BY SizeAssumption

LEMMA SendTyped ==
  ASSUME NEW w, Typed(w), NEW s \in Sends
  PROVE  LET x == [w EXCEPT !.send = s]
         IN  Typed(x) /\ SamePlace(x, w) /\ x.send = s
BY DEF Typed, Worker, SamePlace, Sends

LEMMA IdleSends == Idle \in Sends /\ ~Idle.active
BY IdsFinite, SizeAssumption DEF Idle, Sends

LEMMA FlagsTyped ==
  ASSUME NEW w, Typed(w), NEW c \in [Ids -> BOOLEAN], NEW p \in BOOLEAN, NEW e \in BOOLEAN,
         NEW m \in BOOLEAN
  PROVE  LET x == [w EXCEPT !.connections = c, !.line_pending = p, !.echo = e, !.multiplex = m]
         IN  Typed(x) /\ SamePlace(x, w) /\ x.send = w.send
BY DEF Typed, Worker, SamePlace

LEMMA ResetGood ==
  ASSUME NEW w, Typed(w)
  PROVE  Good(WorkerReset(w)) /\ SamePlace(WorkerReset(w), w)
<1> DEFINE closed  == [id \in Ids |-> FALSE]
           flags   == [w EXCEPT !.connections = closed, !.line_pending = FALSE, !.echo = TRUE,
                                !.multiplex = FALSE]
           sending == [flags EXCEPT !.send = Idle]
           lined   == [sending EXCEPT !.line = <<>>]
<1>1. closed \in [Ids -> BOOLEAN]
  OBVIOUS
<1>2. WorkerReset(w) = lined
  BY DEF WorkerReset, Typed, Worker
<1>3. Typed(flags) /\ SamePlace(flags, w)
  BY <1>1, FlagsTyped
<1> HIDE DEF flags
<1>4. Typed(sending) /\ SamePlace(sending, flags) /\ ~sending.send.active
  BY <1>3, SendTyped, IdleSends
<1> HIDE DEF sending
<1>5. Typed(lined) /\ SamePlace(lined, sending) /\ ~lined.send.active
  BY <1>4, LineTyped, NoLine
<1>6. QED
  BY <1>2, <1>3, <1>4, <1>5 DEF Good, Fits, SamePlace

LEMMA CloseConnectionTyped ==
  ASSUME NEW w, Typed(w), NEW id \in Ids
  PROVE  /\ Typed(CloseConnection(w, id)) /\ SamePlace(CloseConnection(w, id), w)
         /\ CloseConnection(w, id).send = w.send /\ CloseConnection(w, id).out = w.out
BY DEF Typed, Worker, CloseConnection, SamePlace

LEMMA StartGood ==
  ASSUME NEW w, Good(w), NEW id \in Ids, NEW x \in Start(w, id)
  PROVE  Good(x) /\ SamePlace(x, w)
<1> DEFINE opened == [w EXCEPT !.connections[id] = TRUE]
<1>1. Good(opened) /\ SamePlace(opened, w)
  BY DEF Good, Typed, Fits, Worker, SamePlace
<1>2. x = Say(w, 1) \/ x = Say(opened, 2)
  BY DEF Start
<1> HIDE DEF opened
<1>3. QED
  BY <1>1, <1>2, SayGood DEF SamePlace

LEMMA BeginSendGood ==
  ASSUME NEW w, Good(w), NEW id \in Ids, NEW x \in BeginSend(w, id)
  PROVE  Good(x) /\ SamePlace(x, w)
<1> DEFINE begun(n) == [w EXCEPT !.send = [active |-> TRUE, connection |-> id,
                                           length |-> n, received |-> 0]]
<1>1. \A n \in 1..MaxSend : Good(begun(n)) /\ SamePlace(begun(n), w)
  <2> TAKE n \in 1..MaxSend
  <2> DEFINE sending == [active |-> TRUE, connection |-> id, length |-> n, received |-> 0]
  <2>1. sending \in Sends /\ sending.received < sending.length
    BY SizeAssumption DEF Sends
  <2>2. begun(n) = [w EXCEPT !.send = sending]
    OBVIOUS
  <2> HIDE DEF sending, begun
  <2>3. QED
    BY <2>1, <2>2, SendTyped DEF Good, Fits
<1>2. x = Say(w, 1) \/ \E n \in 1..MaxSend : x = Say(begun(n), 1)
  BY DEF BeginSend
<1> HIDE DEF begun
<1>3. QED
  BY <1>1, <1>2, SayGood DEF SamePlace

LEMMA CloseGood ==
  ASSUME NEW w, Good(w), NEW id \in Ids
  PROVE  Good(Close(w, id)) /\ SamePlace(Close(w, id), w)
<1>1. Good(CloseConnection(w, id)) /\ SamePlace(CloseConnection(w, id), w)
  BY CloseConnectionTyped DEF Good, Fits
<1>2. QED
  BY <1>1, SayGood DEF Close, SamePlace

\* Whatever a line says, the worker stays good and where it is.
LEMMA CommandGood ==
  ASSUME NEW w, Good(w), NEW name, NEW x \in Command(w, name)
  PROVE  Good(x) /\ SamePlace(x, w)
<1>0. Named(w) \subseteq Ids
  BY IdsFinite DEF Named
<1>1. CASE name = "RST"
  <2>1. x = Say(WorkerReset(w), 1)
    BY <1>1 DEF Command
  <2>2. QED
    BY <2>1, ResetGood, SayGood DEF Good, SamePlace
<1>2. CASE name \in {"MUX0", "MUX1", "ECHO0", "ECHO1"}
  <2>1. PICK y \in {[w EXCEPT !.multiplex = FALSE], [w EXCEPT !.multiplex = TRUE],
                    [w EXCEPT !.echo = FALSE], [w EXCEPT !.echo = TRUE]} : x = Say(y, 1)
    BY <1>2 DEF Command
  <2>2. Good(y) /\ SamePlace(y, w)
    BY <2>1 DEF Good, Typed, Fits, Worker, SamePlace
  <2>3. QED
    BY <2>1, <2>2, SayGood DEF SamePlace
<1>3. CASE name = "START"
  <2>1. PICK id \in Named(w) : x \in Start(w, id)
    BY <1>3 DEF Command
  <2>2. QED
    BY <1>0, <2>1, StartGood
<1>4. CASE name = "SEND"
  <2>1. PICK id \in Named(w) : x \in BeginSend(w, id)
    BY <1>4 DEF Command
  <2>2. QED
    BY <1>0, <2>1, BeginSendGood
<1>5. CASE name = "CLOSE"
  <2>1. x = Say(w, 1) \/ \E id \in Named(w) : x = Close(w, id)
    BY <1>5 DEF Command
  <2>2. QED
    BY <1>0, <2>1, CloseGood, SayGood
<1>6. CASE name \notin {"RST", "MUX0", "MUX1", "ECHO0", "ECHO1", "START", "SEND", "CLOSE"}
  <2>1. x = Say(w, 1)
    BY <1>6 DEF Command
  <2>2. QED
    BY <2>1, SayGood
<1>7. QED
  BY <1>1, <1>2, <1>3, <1>4, <1>5, <1>6

LEMMA RunLineGood ==
  ASSUME NEW w, Good(w), NEW x \in RunLine(w)
  PROVE  Good(x) /\ SamePlace(x, w)
<1> DEFINE ended == [w EXCEPT !.line_pending = FALSE]
<1>1. Good(ended) /\ SamePlace(ended, w)
  BY DEF Good, Typed, Fits, Worker, SamePlace
<1>2. PICK name : \E y \in Command(ended, name) : x = [y EXCEPT !.line = <<>>]
  BY DEF RunLine
<1>2a. PICK y \in Command(ended, name) : x = [y EXCEPT !.line = <<>>]
  BY <1>2
<1> HIDE DEF ended
<1>3. Good(y) /\ SamePlace(y, ended)
  BY <1>1, <1>2a, CommandGood
<1>4. Typed(x) /\ SamePlace(x, y) /\ x.send = y.send
  BY <1>2a, <1>3, LineTyped, NoLine DEF Good
<1>5. QED
  BY <1>1, <1>3, <1>4 DEF Good, Fits, SamePlace

LEMMA FinishSendGood ==
  ASSUME NEW w, Typed(w), NEW x \in FinishSend(w)
  PROVE  Good(x) /\ SamePlace(x, w)
<1> DEFINE over == [w EXCEPT !.send = Idle]
           id   == w.send.connection
<1>1. Good(over) /\ SamePlace(over, w) /\ id \in Ids
  <2>1. id \in Ids
    BY DEF Typed, Worker
  <2>2. QED
    BY <2>1, SendTyped, IdleSends DEF Good, Fits
<1>2. x = Say(over, 1) \/ x = Say(CloseConnection(over, id), 2)
  BY DEF FinishSend
<1> HIDE DEF over, id
<1>3. Good(CloseConnection(over, id)) /\ SamePlace(CloseConnection(over, id), over)
  BY <1>1, CloseConnectionTyped DEF Good, Fits
<1>4. QED
  BY <1>1, <1>2, <1>3, SayGood DEF SamePlace

LEMMA PayloadGood ==
  ASSUME NEW w, Good(w), w.send.active, NEW x \in Payload(w)
  PROVE  Good(x) /\ SamePlace(x, w)
<1> DEFINE further == [w.send EXCEPT !.received = w.send.received + 1]
           got     == [w EXCEPT !.send.received = w.send.received + 1]
<1>0. w.send \in Sends /\ w.send.received < w.send.length
  BY DEF Good, Typed, Fits, Worker, Sends
<1>0a. further \in Sends /\ further.received <= further.length
  BY <1>0, SizeAssumption DEF Sends
<1>0b. got = [w EXCEPT !.send = further]
  BY DEF Good, Typed, Worker
<1>1. Typed(got) /\ SamePlace(got, w) /\ got.send = further
  BY <1>0a, <1>0b, SendTyped DEF Good
<1>2. got.send.received # got.send.length => Good(got)
  BY <1>0a, <1>1 DEF Good, Fits, Sends
<1>3. IF got.send.received = got.send.length THEN x \in FinishSend(got) ELSE x = got
  BY DEF Payload
<1> HIDE DEF got
<1>4. QED
  BY <1>1, <1>2, <1>3, FinishSendGood DEF SamePlace

LEMMA EchoedGood ==
  ASSUME NEW w, Good(w)
  PROVE  Good(Echoed(w)) /\ SamePlace(Echoed(w), w)
<1>1. 1 \in 1..(TextSize + HeaderSize + Chunk)
  BY SizeAssumption
<1>2. Append(w.out, 1) \in Seq(1..(TextSize + HeaderSize + Chunk))
  BY <1>1 DEF Good, Typed, Worker
<1>3. QED
  BY <1>2 DEF Echoed, Good, Typed, Fits, Worker, SamePlace

LEMMA LineByteGood ==
  ASSUME NEW w, Good(w), NEW v \in session.symbols, NEW x \in LineByte(w, v)
  PROVE  Good(x) /\ SamePlace(x, w)
<1> DEFINE e == Echoed(w)
           longer == Append(e.line, v)
<1>1. Good(e) /\ SamePlace(e, w)
  BY EchoedGood
<1>2. \/ x = [e EXCEPT !.line_pending = TRUE]
      \/ x \in RunLine(e)
      \/ x = e
      \/ Len(e.line) + 1 < LineCapacity /\ x = [e EXCEPT !.line = longer]
      \/ x = Say([e EXCEPT !.line = <<>>], 1)
  BY DEF LineByte
<1> HIDE DEF e
<1>3. CASE x = [e EXCEPT !.line_pending = TRUE]
  BY <1>1, <1>3 DEF Good, Typed, Fits, Worker, SamePlace
<1>4. CASE x \in RunLine(e)
  BY <1>1, <1>4, RunLineGood DEF SamePlace
<1>5. CASE Len(e.line) + 1 < LineCapacity /\ x = [e EXCEPT !.line = longer]
  <2>1. longer \in Seq(session.symbols) /\ Len(longer) = Len(e.line) + 1
    BY <1>1 DEF Good, Typed, Worker
  <2> HIDE DEF longer
  <2>2. QED
    BY <1>1, <1>5, <2>1 DEF Good, Typed, Fits, Worker, SamePlace
<1>6. CASE x = Say([e EXCEPT !.line = <<>>], 1)
  <2>1. Good([e EXCEPT !.line = <<>>]) /\ SamePlace([e EXCEPT !.line = <<>>], e)
    BY <1>1, LineTyped, NoLine DEF Good, Fits
  <2>2. QED
    BY <1>1, <1>6, <2>1, SayGood DEF SamePlace
<1>7. QED
  BY <1>1, <1>2, <1>3, <1>4, <1>5, <1>6

LEMMA ProcessTxByteGood ==
  ASSUME NEW w, Good(w), NEW v \in session.symbols, NEW x \in ProcessTxByte(w, v)
  PROVE  Good(x) /\ SamePlace(x, w)
<1>1. CASE w.send.active
  BY <1>1, PayloadGood DEF ProcessTxByte
<1>2. CASE ~w.send.active /\ ~w.line_pending
  BY <1>2, LineByteGood DEF ProcessTxByte
<1>3. CASE ~w.send.active /\ w.line_pending /\ v = "LF"
  BY <1>3, EchoedGood, RunLineGood DEF ProcessTxByte, SamePlace
<1>4. CASE ~w.send.active /\ w.line_pending /\ v # "LF"
  <2>1. PICK y \in RunLine(w) : x \in LineByte(y, v)
    BY <1>4 DEF ProcessTxByte
  <2>2. QED
    BY <2>1, RunLineGood, LineByteGood DEF SamePlace
<1>5. QED
  BY <1>1, <1>2, <1>3, <1>4

-----------------------------------------------------------------------------
(* The invariant.                                                          *)

\* What is measured in one critical section of the worker holds in the next:
\* at recv the room for a header and "maximum" bytes, as nothing is queued
\* before it, and at poll no more than one packet waits.
RoomKept ==
  /\ worker.pc = "recv" => /\ worker.out = <<>> /\ worker.id < Cardinality(Ids)
                           /\ worker.maximum + Reserve <= RxCapacity - uart.rx_count
  /\ worker.pc = "poll" => Len(worker.out) <= 2

\* A pass that began before the CPU's reset is followed by one that sees it.
ResetSeen ==
  /\ history.oldPass => uart.reset_requested
  /\ ~history.oldPass => history.stale = {}

IInv == TypeOK /\ PayloadFits /\ PacketFits /\ RoomKept /\ LossIsReported /\ ResetSeen

\* TypeOK and PayloadFits, by variable.
Nets == [Ids -> [incoming: 0..session.maxIncoming, closed: BOOLEAN]]
Histories == [oldPass: BOOLEAN, stale: SUBSET Items, lost: BOOLEAN]
UartTyped(u) == u \in Uart /\ Len(u.tx) <= TxCapacity
Sound ==
  session \in Sessions /\ UartTyped(uart) /\ Good(worker) /\ net \in Nets /\ history \in Histories

LEMMA SoundIsTyped == (TypeOK /\ PayloadFits) <=> Sound
BY DEF TypeOK, PayloadFits, Sound, UartTyped, Good, Typed, Fits, Nets, Histories

LEMMA SoundNext ==
  ASSUME session \in Sessions, session' = session, UartTyped(uart'), Good(worker'),
         net' \in Nets, history' \in Histories
  PROVE  Sound'
BY DEF Sound, UartTyped, Uart, Good, Typed, Fits, Worker, Nets, Histories, Items

LEMMA HoldsTyped == ASSUME NEW w PROVE Holds(w) \in SUBSET Items
BY DEF Holds

LEMMA StaleTyped ==
  ASSUME history \in Histories, NEW w
  PROVE  /\ StaleAfter(history, w) \in Histories
         /\ StaleAfter(history, w) = [history EXCEPT !.stale = history.stale \cap Holds(w)]
BY DEF StaleAfter, Histories

LEMMA NetTyped ==
  ASSUME session \in Sessions, net \in Nets, NEW w
  PROVE  NetAfter(w) \in Nets
BY HostAssumption DEF NetAfter, Nets

\* A pass of the worker holds nothing once it has reset itself.
LEMMA ResetHoldsNothing == ASSUME NEW w, Typed(w) PROVE Holds(WorkerReset(w)) = {}
<1>1. /\ WorkerReset(w).line = <<>> /\ ~WorkerReset(w).line_pending
      /\ ~WorkerReset(w).send.active
      /\ \A id \in Ids : ~WorkerReset(w).connections[id]
  BY DEF WorkerReset, Typed, Worker, Idle
<1>2. ASSUME NEW i \in Items PROVE i \notin Holds(WorkerReset(w))
  <2>1. i[1] = "line" \/ i[1] = "send" \/ (i[1] = "connection" /\ i[2] \in Ids)
    BY DEF Items
  <2>2. QED
    BY <1>1, <2>1 DEF Holds
<1>3. QED
  BY <1>2 DEF Holds

LEMMA QueueTyped ==
  ASSUME UartTyped(uart), NEW n \in Nat
  PROVE  /\ UartTyped(QueueBytes(uart, n))
         /\ QueueBytes(uart, n).rx_overflow = (uart.rx_overflow \/ n > RxCapacity - uart.rx_count)
         /\ QueueBytes(uart, n).reset_requested = uart.reset_requested
         /\ n <= RxCapacity - uart.rx_count => QueueBytes(uart, n).rx_count = uart.rx_count + n
<1> DEFINE room  == RxCapacity - uart.rx_count
           count == uart.rx_count + (IF n < room THEN n ELSE room)
           over  == uart.rx_overflow \/ n > room
<1>1. uart.rx_count \in 0..RxCapacity
  BY DEF UartTyped, Uart
<1>2. count \in 0..RxCapacity /\ (n <= room => count = uart.rx_count + n)
  BY <1>1, SizeAssumption
<1>3. over \in BOOLEAN
  OBVIOUS
<1>4. QueueBytes(uart, n) = [uart EXCEPT !.rx_count = count, !.rx_overflow = over]
  BY DEF QueueBytes
<1> HIDE DEF count, over
<1>5. QED
  <2>1. /\ UartTyped(QueueBytes(uart, n)) /\ QueueBytes(uart, n).rx_overflow = over
        /\ QueueBytes(uart, n).reset_requested = uart.reset_requested
        /\ QueueBytes(uart, n).rx_count = count
    BY <1>2, <1>3, <1>4 DEF UartTyped, Uart
  <2>2. QED
    BY <1>2, <2>1 DEF over

LEMMA ClearTyped ==
  ASSUME UartTyped(uart)
  PROVE  /\ UartTyped(ClearFifos(uart)) /\ ClearFifos(uart).rx_count = 0
         /\ ClearFifos(uart).reset_requested = uart.reset_requested
<1>1. 0 \in 0..RxCapacity /\ <<>> \in Seq(session.symbols) /\ Len(<<>>) <= TxCapacity
  BY SizeAssumption
<1>2. QED
  BY <1>1 DEF UartTyped, Uart, ClearFifos
-----------------------------------------------------------------------------
(* The emulator thread and the network.                                    *)

\* What the emulator thread may do to the FIFOs keeps the worker's room.
LEMMA EmulatorKeeps ==
  ASSUME IInv, session' = session, worker' = worker, net' = net,
         UartTyped(uart'), history' \in Histories,
         uart'.rx_count <= uart.rx_count,
         history'.lost => uart'.rx_overflow,
         history'.oldPass => uart'.reset_requested,
         ~history'.oldPass => history'.stale = {}
  PROVE  IInv'
<1>1. Sound /\ uart.rx_count \in Nat /\ uart'.rx_count \in Nat /\ RxCapacity \in Nat
  BY SoundIsTyped, SizeAssumption DEF IInv, Sound, UartTyped, Uart
<1>2. Sound'
  BY <1>1, SoundNext DEF Sound
<1>3. TypeOK' /\ PayloadFits'
  BY <1>2, SoundIsTyped, PTL
<1>4. PacketFits'
  <2>1. SUFFICES ASSUME Len(worker.out) = 2, worker.out[1] = HeaderSize, worker.pc = "poll"
                 PROVE  worker.out[1] + worker.out[2] <= RxCapacity - uart'.rx_count
    BY DEF PacketFits
  <2>2. worker.out[1] \in Int /\ worker.out[2] \in Int
    BY <1>1, <2>1, SizeAssumption DEF Sound, Good, Typed, Worker
  <2>3. QED
    BY <1>1, <2>1, <2>2 DEF IInv, PacketFits
<1>5. RoomKept'
  <2>1. worker.maximum \in Int /\ Reserve \in Int
    BY <1>1, SizeAssumption DEF Sound, Good, Typed, Worker
  <2>2. QED
    BY <1>1, <2>1 DEF IInv, RoomKept
<1>6. LossIsReported' /\ ResetSeen'
  BY DEF LossIsReported, ResetSeen
<1>7. QED
  BY <1>3, <1>4, <1>5, <1>6 DEF IInv

LEMMA EmulatorInv == ASSUME IInv, EmulatorStep PROVE IInv'
<1>0. Sound /\ UartTyped(uart) /\ history \in Histories /\ uart.rx_count \in Int
  BY SoundIsTyped, SizeAssumption DEF IInv, Sound, UartTyped, Uart
<1>1. CASE WriteTx
  <2>1. PICK v \in session.symbols : uart' = [uart EXCEPT !.tx = Append(uart.tx, v)]
    BY <1>1 DEF WriteTx
  <2>2. /\ Append(uart.tx, v) \in Seq(session.symbols)
        /\ Len(Append(uart.tx, v)) = Len(uart.tx) + 1
    BY <1>0 DEF UartTyped, Uart
  <2>3. Len(uart.tx) \in Nat /\ Len(Append(uart.tx, v)) <= TxCapacity
    BY <1>0, <1>1, <2>2, SizeAssumption DEF WriteTx, UartTyped, Uart
  <2>4. UartTyped(uart')
    BY <1>0, <2>1, <2>2, <2>3 DEF UartTyped, Uart
  <2>5. /\ uart'.rx_count = uart.rx_count /\ uart'.rx_overflow = uart.rx_overflow
        /\ uart'.reset_requested = uart.reset_requested
    BY <1>0, <2>1 DEF UartTyped, Uart
  <2>6. QED
    BY <1>0, <1>1, <2>4, <2>5, EmulatorKeeps DEF WriteTx, IInv, LossIsReported, ResetSeen
<1>2. CASE ReadRx
  <2>1. uart.rx_count - 1 \in 0..RxCapacity
    BY <1>0, <1>2, SizeAssumption DEF ReadRx, UartTyped, Uart
  <2>2. /\ UartTyped(uart') /\ uart'.rx_count = uart.rx_count - 1
        /\ uart'.rx_overflow = uart.rx_overflow
        /\ uart'.reset_requested = uart.reset_requested
    BY <1>0, <1>2, <2>1 DEF ReadRx, UartTyped, Uart
  <2>3. QED
    BY <1>0, <1>2, <2>2, EmulatorKeeps DEF ReadRx, IInv, LossIsReported, ResetSeen
<1>3. CASE ReadStatus
  <2>1. /\ UartTyped(uart') /\ uart'.rx_count = uart.rx_count
        /\ uart'.reset_requested = uart.reset_requested
    BY <1>0, <1>3 DEF ReadStatus, UartTyped, Uart
  <2>2. /\ history' \in Histories /\ ~history'.lost
        /\ history'.oldPass = history.oldPass /\ history'.stale = history.stale
    BY <1>0, <1>3 DEF ReadStatus, Histories
  <2>3. QED
    BY <1>0, <1>3, <2>1, <2>2, EmulatorKeeps DEF ReadStatus, IInv, ResetSeen
<1>4. CASE ClearFrame
  <2>1. /\ UartTyped(uart') /\ uart'.rx_count <= uart.rx_count
        /\ uart'.reset_requested = uart.reset_requested
    BY <1>0, <1>4, ClearTyped DEF ClearFrame, UartTyped, Uart
  <2>2. /\ history' \in Histories /\ ~history'.lost
        /\ history'.oldPass = history.oldPass /\ history'.stale = history.stale
    BY <1>0, <1>4 DEF ClearFrame, Histories
  <2>3. QED
    BY <1>0, <1>4, <2>1, <2>2, EmulatorKeeps DEF ClearFrame, IInv, ResetSeen
<1>5. CASE Reset
  <2> DEFINE cleared == ClearFifos(uart)
  <2>0. uart' = [cleared EXCEPT !.reset_requested = TRUE]
    BY <1>5 DEF Reset
  <2>1. UartTyped(cleared) /\ cleared.rx_count = 0
    BY <1>0, ClearTyped
  <2> HIDE DEF cleared
  <2>1a. /\ UartTyped(uart') /\ uart'.rx_count = 0 /\ uart'.reset_requested = TRUE
    BY <2>0, <2>1 DEF UartTyped, Uart
  <2>2. /\ UartTyped(uart') /\ uart'.rx_count <= uart.rx_count /\ uart'.reset_requested
    BY <1>0, <2>1a DEF UartTyped, Uart
  <2>3. history' \in Histories /\ ~history'.lost /\ history'.oldPass
    BY <1>0, <1>5, HoldsTyped DEF Reset, Histories
  <2>4. QED
    BY <1>0, <1>5, <2>2, <2>3, EmulatorKeeps DEF Reset
<1>6. CASE SetEnabled
  <2>1. PICK on \in BOOLEAN : uart' = [ClearFifos(uart) EXCEPT !.enabled = on]
    BY <1>6 DEF SetEnabled
  <2>2. /\ UartTyped(ClearFifos(uart)) /\ ClearFifos(uart).rx_count = 0
        /\ ClearFifos(uart).reset_requested = uart.reset_requested
    BY <1>0, ClearTyped
  <2>3. /\ UartTyped(uart') /\ uart'.rx_count <= uart.rx_count
        /\ uart'.reset_requested = uart.reset_requested
    BY <1>0, <2>1, <2>2 DEF UartTyped, Uart
  <2>4. /\ history' \in Histories /\ ~history'.lost
        /\ history'.oldPass = history.oldPass /\ history'.stale = history.stale
    BY <1>0, <1>6 DEF SetEnabled, Histories
  <2>5. QED
    BY <1>0, <1>6, <2>3, <2>4, EmulatorKeeps DEF SetEnabled, IInv, ResetSeen
<1>7. CASE Destroy
  <2>1. /\ UartTyped(uart') /\ uart'.rx_count = uart.rx_count
        /\ uart'.rx_overflow = uart.rx_overflow
        /\ uart'.reset_requested = uart.reset_requested
    BY <1>0, <1>7 DEF Destroy, UartTyped, Uart
  <2>2. QED
    BY <1>0, <1>7, <2>1, EmulatorKeeps DEF Destroy, IInv, LossIsReported, ResetSeen
<1>8. QED
  BY <1>1, <1>2, <1>3, <1>4, <1>5, <1>6, <1>7 DEF EmulatorStep

\* The network changes nothing that the two threads rely on.
LEMMA NetworkInv == ASSUME IInv, PeerSends \/ PeerCloses PROVE IInv'
<1>0. Sound /\ session.maxIncoming \in Nat
  BY SoundIsTyped, HostAssumption DEF IInv, Sound
<1>1. UNCHANGED <<session, uart, worker, history>>
  BY DEF PeerSends, PeerCloses
<1>2. net' \in Nets
  <2>1. CASE PeerSends
    <3>1. PICK id \in Ids, n \in 1..session.maxIncoming :
            /\ net[id].incoming + n <= session.maxIncoming
            /\ net' = [net EXCEPT ![id].incoming = net[id].incoming + n]
      BY <2>1 DEF PeerSends
    <3>2. net[id].incoming + n \in 0..session.maxIncoming
      BY <1>0, <3>1 DEF Sound, Nets
    <3>3. QED
      BY <1>0, <3>1, <3>2 DEF Sound, Nets
  <2>2. CASE PeerCloses
    BY <1>0, <2>2 DEF PeerCloses, Sound, Nets
  <2>3. QED
    BY <2>1, <2>2
<1>3. Sound'
  BY <1>0, <1>1, <1>2, SoundNext DEF Sound
<1>4. TypeOK' /\ PayloadFits'
  BY <1>3, SoundIsTyped, PTL
<1>5. QED
  BY <1>1, <1>4 DEF IInv, PacketFits, RoomKept, LossIsReported, ResetSeen
-----------------------------------------------------------------------------
(* The worker thread.                                                      *)

Places == {"start", "loop", "bytes", "poll", "recv", "wait", "done"}

LEMMA OutGood ==
  ASSUME NEW w, Good(w), NEW o \in Seq(1..(TextSize + HeaderSize + Chunk))
  PROVE  LET x == [w EXCEPT !.out = o]
         IN  Good(x) /\ SamePlace(x, w) /\ x.out = o
BY DEF Good, Typed, Fits, Worker, SamePlace

LEMMA BytesGood ==
  ASSUME NEW w, Good(w), NEW b \in Seq(session.symbols), Len(b) <= TxCapacity
  PROVE  LET x == [w EXCEPT !.bytes = b]
         IN  Good(x) /\ x.bytes = b /\ x.pc = w.pc /\ x.out = w.out
BY DEF Good, Typed, Fits, Worker

\* A step of the worker that leaves the FIFOs alone.
LEMMA WorkerKeeps ==
  ASSUME IInv, session' = session, uart' = uart, Good(worker'), net' \in Nets,
         history' \in Histories, history'.lost = history.lost,
         history'.oldPass = history.oldPass, ~history.oldPass => history'.stale = {},
         RoomKept', PacketFits'
  PROVE  IInv'
<1>1. Sound
  BY SoundIsTyped DEF IInv
<1>2. UartTyped(uart')
  BY <1>1 DEF Sound, UartTyped, Uart
<1>3. Sound'
  BY <1>1, <1>2, SoundNext DEF Sound
<1>4. TypeOK' /\ PayloadFits'
  BY <1>3, SoundIsTyped, PTL
<1>5. QED
  BY <1>4 DEF IInv, LossIsReported, ResetSeen

\* Away from the polling of connections nothing is promised of the room.
LEMMA ElsewhereKept ==
  ASSUME worker'.pc \notin {"poll", "recv"}
  PROVE  RoomKept' /\ PacketFits'
BY DEF RoomKept, PacketFits

\* Of the worker alone, and of what the history says of it.
LEMMA WorkerKnown ==
  ASSUME IInv
  PROVE  /\ Sound /\ session \in Sessions /\ UartTyped(uart) /\ Good(worker) /\ Typed(worker)
         /\ net \in Nets /\ history \in Histories
         /\ (~history.oldPass => history.stale = {})
BY SoundIsTyped DEF IInv, Sound, ResetSeen, Good

LEMMA ThreadStartsInv == ASSUME IInv, ThreadStarts PROVE IInv'
<1> DEFINE w == WorkerReset(worker)
<1>1. worker' = [w EXCEPT !.pc = "loop"]
  BY DEF ThreadStarts
<1>2. Good(w)
  BY WorkerKnown, ResetGood
<1> HIDE DEF w
<1>3. Good(worker') /\ worker'.pc = "loop"
  BY <1>1, <1>2 DEF Good, Typed, Fits, Worker
<1>4. QED
  BY <1>3, WorkerKnown, WorkerKeeps, ElsewhereKept DEF ThreadStarts

LEMMA BytesDoneInv == ASSUME IInv, BytesDone PROVE IInv'
<1>1. worker' = [worker EXCEPT !.pc = "poll", !.id = 0] /\ worker.out = <<>>
  BY DEF BytesDone, At
<1>1a. 0 \in 0..Cardinality(Ids)
  BY IdsFinite
<1>2. Good(worker') /\ worker'.pc = "poll" /\ worker'.out = <<>>
  BY <1>1, <1>1a, WorkerKnown DEF Good, Typed, Fits, Worker
<1>3. RoomKept' /\ PacketFits'
  BY <1>2 DEF RoomKept, PacketFits
<1>4. QED
  BY <1>2, <1>3, WorkerKnown, WorkerKeeps DEF BytesDone

LEMMA PollDoneInv == ASSUME IInv, PollDone PROVE IInv'
<1>1. worker' = [worker EXCEPT !.pc = "wait"]
  BY DEF PollDone
<1>2. Good(worker') /\ worker'.pc = "wait"
  BY <1>1, WorkerKnown DEF Good, Typed, Fits, Worker
<1>3. QED
  BY <1>2, WorkerKnown, WorkerKeeps, ElsewhereKept DEF PollDone

LEMMA WaitInv == ASSUME IInv, Wait PROVE IInv'
<1>1. worker' = [worker EXCEPT !.pc = "loop"]
  BY DEF Wait
<1>2. Good(worker') /\ worker'.pc = "loop"
  BY <1>1, WorkerKnown DEF Good, Typed, Fits, Worker
<1>3. QED
  BY <1>2, WorkerKnown, WorkerKeeps, ElsewhereKept DEF Wait

\* The room measured is for maximum bytes and a header.
LEMMA PollInv == ASSUME IInv, Poll PROVE IInv'
<1> DEFINE m == IF PollRoom < Chunk THEN PollRoom ELSE Chunk
<1>1. /\ worker.out = <<>> /\ worker.pc = "poll" /\ worker.id < Cardinality(Ids)
      /\ UNCHANGED <<session, uart, net, history>>
      /\ \/ PollRoom > 0 /\ worker' = [worker EXCEPT !.pc = "recv", !.maximum = m]
         \/ worker' = [worker EXCEPT !.id = worker.id + 1]
  BY DEF Poll, At
<1>2. /\ worker.id \in Nat /\ uart.rx_count \in Nat
      /\ PollRoom = RxCapacity - uart.rx_count - Reserve
  BY WorkerKnown, IdsFinite, SizeAssumption DEF Typed, Worker, UartTyped, Uart, PollRoom
<1>3. CASE PollRoom > 0 /\ worker' = [worker EXCEPT !.pc = "recv", !.maximum = m]
  <2>1. m \in 0..Chunk /\ m + Reserve <= RxCapacity - uart.rx_count
    BY <1>2, <1>3, SizeAssumption
  <2> HIDE DEF m
  <2>2. /\ Good(worker') /\ worker'.pc = "recv" /\ worker'.out = worker.out
        /\ worker'.id = worker.id /\ worker'.maximum = m
    BY <1>3, <2>1, WorkerKnown DEF Good, Typed, Fits, Worker
  <2>3. RoomKept' /\ PacketFits'
    BY <1>1, <2>1, <2>2 DEF RoomKept, PacketFits
  <2>4. QED
    BY <1>1, <2>2, <2>3, WorkerKnown, WorkerKeeps
<1>4. CASE worker' = [worker EXCEPT !.id = worker.id + 1]
  <2>1. worker.id + 1 \in 0..Cardinality(Ids)
    BY <1>1, <1>2, IdsFinite
  <2>2. Good(worker') /\ worker'.pc = "poll" /\ worker'.out = <<>>
    BY <1>1, <1>4, <2>1, WorkerKnown DEF Good, Typed, Fits, Worker
  <2>3. RoomKept' /\ PacketFits'
    BY <2>2 DEF RoomKept, PacketFits
  <2>4. QED
    BY <1>1, <2>2, <2>3, WorkerKnown, WorkerKeeps
<1>5. QED
  BY <1>1, <1>3, <1>4

\* Where a poll of one connection goes on.
LEMMA PollNextGood ==
  ASSUME IInv, At("recv")
  PROVE  /\ Good(PollNext(worker)) /\ PollNext(worker).pc = "poll"
         /\ PollNext(worker).out = <<>> /\ worker.id \in Ids
<1>1. worker.id \in 0..Cardinality(Ids) /\ worker.id < Cardinality(Ids)
  BY WorkerKnown DEF IInv, RoomKept, At, Typed, Worker
<1>2. worker.id + 1 \in 0..Cardinality(Ids) /\ worker.id \in Ids
  BY <1>1, IdsFinite, IdsAssumption
<1>3. 0 \in 0..Chunk
  BY SizeAssumption
<1>4. PollNext(worker) = [worker EXCEPT !.pc = "poll", !.id = worker.id + 1, !.maximum = 0]
  BY DEF PollNext
<1>5. Good(worker) /\ worker.out = <<>> /\ "poll" \in Places
  BY WorkerKnown DEF At, Places
<1> DEFINE next == worker.id + 1
<1>6. QED
  <2>1. next \in 0..Cardinality(Ids)
    BY <1>2
  <2>2. PollNext(worker) = [worker EXCEPT !.pc = "poll", !.id = next, !.maximum = 0]
    BY <1>4
  <2> HIDE DEF next
  <2>3. Good(PollNext(worker)) /\ PollNext(worker).pc = "poll" /\ PollNext(worker).out = <<>>
    BY <1>3, <1>5, <2>1, <2>2 DEF Good, Typed, Fits, Worker, Places
  <2>4. QED
    BY <1>2, <2>3

LEMMA ReceiveInv == ASSUME IInv, Receive PROVE IInv'
<1> DEFINE id == worker.id
           x == PollNext(worker)
<1>1. PICK n \in 1..net[id].incoming :
        /\ n <= worker.maximum
        /\ worker' = [x EXCEPT !.out = <<HeaderSize, n>>]
        /\ net' = [net EXCEPT ![id].incoming = net[id].incoming - n]
  BY DEF Receive
<1>2. /\ Good(x) /\ x.pc = "poll" /\ id \in Ids
      /\ worker.maximum \in 0..Chunk /\ worker.maximum + Reserve <= RxCapacity - uart.rx_count
      /\ net[id].incoming \in 0..session.maxIncoming /\ session.maxIncoming \in Nat
      /\ net \in Nets /\ uart.rx_count \in Nat
  BY PollNextGood, WorkerKnown, HostAssumption
  DEF Receive, At, IInv, RoomKept, Typed, Worker, Nets, UartTyped, Uart
<1> HIDE DEF x
<1>3. net[id].incoming - n \in 0..session.maxIncoming
  BY <1>2
<1>4. net' \in Nets
  BY <1>1, <1>2, <1>3 DEF Nets
<1>5. /\ n \in 1..(TextSize + HeaderSize + Chunk)
      /\ HeaderSize \in 1..(TextSize + HeaderSize + Chunk)
  BY <1>1, <1>2, SizeAssumption
<1>6. <<HeaderSize, n>> \in Seq(1..(TextSize + HeaderSize + Chunk))
  BY <1>5
<1>7. Good(worker') /\ worker'.pc = "poll" /\ worker'.out = <<HeaderSize, n>>
  BY <1>1, <1>2, <1>6, OutGood DEF SamePlace
<1>8. HeaderSize + n <= RxCapacity - uart.rx_count
  BY <1>1, <1>2, SizeAssumption
<1>9. UNCHANGED <<session, uart, history>>
  BY DEF Receive
<1>10. RoomKept' /\ PacketFits'
  BY <1>7, <1>8, <1>9 DEF RoomKept, PacketFits
<1>11. QED
  BY <1>4, <1>7, <1>9, <1>10, WorkerKnown, WorkerKeeps

LEMMA ReceiveNothingInv == ASSUME IInv, ReceiveNothing PROVE IInv'
<1>1. Good(worker') /\ worker'.pc = "poll" /\ worker'.out = <<>>
  BY PollNextGood DEF ReceiveNothing
<1>2. RoomKept' /\ PacketFits'
  BY <1>1 DEF RoomKept, PacketFits
<1>3. QED
  BY <1>1, <1>2, WorkerKnown, WorkerKeeps DEF ReceiveNothing

LEMMA ReceiveFailsInv == ASSUME IInv, ReceiveFails PROVE IInv'
<1> DEFINE x == CloseConnection(PollNext(worker), worker.id)
           w == Say(x, 1)
<1>1. /\ worker' = w /\ net' = NetAfter(w) /\ history' = StaleAfter(history, w)
      /\ UNCHANGED <<session, uart>> /\ At("recv")
  BY DEF ReceiveFails
<1>2. Good(x) /\ x.pc = "poll" /\ x.out = <<>>
  <2> DEFINE p == PollNext(worker)
  <2>1. Good(p) /\ p.pc = "poll" /\ p.out = <<>> /\ worker.id \in Ids
    BY <1>1, PollNextGood
  <2>2. x = CloseConnection(p, worker.id)
    OBVIOUS
  <2> HIDE DEF p, x
  <2>3. QED
    BY <2>1, <2>2, CloseConnectionTyped DEF Good, Fits, SamePlace
<1> HIDE DEF x
<1>3. Good(w) /\ w.pc = "poll"
  BY <1>2, SayGood DEF SamePlace
<1>4. Len(w.out) = 1
  <2> DEFINE Text == [i \in 1..1 |-> TextSize]
  <2>1. w.out = x.out \o Text
    BY <1>2 DEF Say, Good, Typed, Worker
  <2>2. Text \in Seq(Nat) /\ Len(Text) = 1 /\ <<>> \in Seq(Nat)
    BY SizeAssumption
  <2> HIDE DEF Text
  <2>3. Len(<<>> \o Text) = 1
    BY <2>2
  <2>4. QED
    BY <1>2, <2>1, <2>3
<1> HIDE DEF w
<1>5. RoomKept' /\ PacketFits'
  BY <1>1, <1>3, <1>4 DEF RoomKept, PacketFits
<1>6. /\ history' \in Histories /\ history'.lost = history.lost
      /\ history'.oldPass = history.oldPass
      /\ (~history.oldPass => history'.stale = {})
  BY <1>1, WorkerKnown, StaleTyped DEF Histories
<1>7. net' \in Nets
  BY <1>1, WorkerKnown, NetTyped
<1>8. QED
  BY <1>1, <1>3, <1>5, <1>6, <1>7, WorkerKeeps

LEMMA HeadAndTail ==
  ASSUME NEW S, NEW q \in Seq(S), q # <<>>
  PROVE  Head(q) \in S /\ Tail(q) \in Seq(S) /\ Len(Tail(q)) = Len(q) - 1 /\ Len(q) \in Nat
OBVIOUS

LEMMA ProcessByteInv == ASSUME IInv, ProcessByte PROVE IInv'
<1> DEFINE rest == Tail(worker.bytes)
           v    == Head(worker.bytes)
           x    == [worker EXCEPT !.bytes = rest]
<1>1. /\ At("bytes") /\ worker.bytes # <<>> /\ UNCHANGED <<session, uart>>
      /\ \E w \in ProcessTxByte(x, v) :
           /\ worker' = w
           /\ net' = NetAfter(w)
           /\ history' = IF history.oldPass THEN [history EXCEPT !.stale = Holds(w)]
                         ELSE StaleAfter(history, w)
  BY DEF ProcessByte
<1>2. worker.bytes \in Seq(session.symbols) /\ Len(worker.bytes) <= TxCapacity
  BY WorkerKnown DEF Typed, Worker
<1>3. v \in session.symbols /\ rest \in Seq(session.symbols) /\ Len(rest) <= TxCapacity
  <2>1. /\ v \in session.symbols /\ rest \in Seq(session.symbols)
        /\ Len(rest) = Len(worker.bytes) - 1 /\ Len(worker.bytes) \in Nat
    <3> HIDE DEF rest, v
    <3> QED BY <1>1, <1>2, HeadAndTail DEF rest, v
  <2> HIDE DEF rest, v
  <2>2. QED
    BY <1>2, <2>1, SizeAssumption
<1> HIDE DEF rest
<1>4. Good(x) /\ x.pc = "bytes"
  BY <1>1, <1>3, WorkerKnown DEF At, Good, Typed, Fits, Worker
<1> HIDE DEF x, v
<1>5. PICK w \in ProcessTxByte(x, v) :
        /\ worker' = w
        /\ net' = NetAfter(w)
        /\ history' = IF history.oldPass THEN [history EXCEPT !.stale = Holds(w)]
                      ELSE StaleAfter(history, w)
  BY <1>1
<1>6. Good(w) /\ w.pc = "bytes"
  BY <1>3, <1>4, ProcessTxByteGood DEF SamePlace
<1>7. RoomKept' /\ PacketFits'
  BY <1>5, <1>6, ElsewhereKept
<1>8. /\ history' \in Histories /\ history'.lost = history.lost
      /\ history'.oldPass = history.oldPass
      /\ (~history.oldPass => history'.stale = {})
  BY <1>5, WorkerKnown, StaleTyped, HoldsTyped DEF Histories
<1>9. net' \in Nets
  BY <1>5, WorkerKnown, NetTyped
<1>10. QED
  BY <1>1, <1>5, <1>6, <1>7, <1>8, <1>9, WorkerKeeps

\* The pass that begins after a reset by the CPU resets the worker: what was
\* stale is gone.
LEMMA BeginPassInv == ASSUME IInv, BeginPass PROVE IInv'
<1> DEFINE seen == [worker EXCEPT !.enabled = uart.enabled, !.bytes = uart.tx,
                                  !.worker_enabled = uart.enabled]
           t    == Taken(worker, uart)
           reset == WorkerReset(seen)
           over  == WorkerReset(worker)
           ended == [over EXCEPT !.pc = "done", !.bytes = <<>>]
<1>1. /\ \E p \in {"done", "bytes", "wait"} : (worker' = t /\ t.pc = p) \/ worker' = [t EXCEPT !.pc = p]
      /\ net' = NetAfter(t)
      /\ history' = [StaleAfter(history, t) EXCEPT !.oldPass = FALSE]
      /\ uart' = [uart EXCEPT !.reset_requested = FALSE, !.tx = <<>>]
      /\ session' = session
  BY DEF BeginPass
<1>2. t = ended \/ t = reset \/ (~uart.reset_requested /\ t = seen)
  BY DEF Taken
<1>3. Good(seen)
  BY WorkerKnown DEF Good, Typed, Fits, Worker, UartTyped, Uart
<1>4. <<>> \in Seq(session.symbols) /\ Len(<<>>) <= TxCapacity
  BY SizeAssumption
<1> HIDE DEF seen
<1>5. Good(reset) /\ Holds(reset) = {}
  BY <1>3, ResetGood, ResetHoldsNothing DEF Good
<1>6. Good(over) /\ Holds(over) = {}
  BY WorkerKnown, ResetGood, ResetHoldsNothing
<1> HIDE DEF reset, over
<1>7. /\ Good(ended) /\ ended.line = over.line /\ ended.line_pending = over.line_pending
      /\ ended.send = over.send /\ ended.connections = over.connections
  BY <1>4, <1>6 DEF Good, Typed, Fits, Worker
<1> HIDE DEF ended
<1>8. Holds(ended) = Holds(over)
  BY <1>7 DEF Holds
<1>9. Good(t) /\ (uart.reset_requested => Holds(t) = {})
  BY <1>2, <1>3, <1>5, <1>6, <1>7, <1>8
<1> HIDE DEF t
<1>10. Good(worker') /\ worker'.pc \in {"done", "bytes", "wait"}
  <2>1. PICK p \in {"done", "bytes", "wait"} : (worker' = t /\ t.pc = p) \/ worker' = [t EXCEPT !.pc = p]
    BY <1>1
  <2>2. CASE worker' = t /\ t.pc = p
    BY <1>9, <2>2
  <2>3. CASE worker' = [t EXCEPT !.pc = p]
    BY <1>9, <2>1, <2>3 DEF Good, Typed, Fits, Worker
  <2>4. QED
    BY <2>1, <2>2, <2>3
<1>11. /\ UartTyped(uart') /\ uart'.rx_overflow = uart.rx_overflow
  BY <1>1, <1>4, WorkerKnown DEF UartTyped, Uart
<1>12. /\ history' \in Histories /\ history'.lost = history.lost
       /\ history'.oldPass = FALSE /\ history'.stale = {}
  <2>1. /\ history' \in Histories /\ history'.lost = history.lost
        /\ history'.oldPass = FALSE /\ history'.stale = history.stale \cap Holds(t)
    <3> DEFINE h == StaleAfter(history, t)
    <3>1. /\ h \in Histories /\ h = [history EXCEPT !.stale = history.stale \cap Holds(t)]
      BY WorkerKnown, StaleTyped
    <3>2. h.lost = history.lost /\ h.stale = history.stale \cap Holds(t)
      BY <3>1, WorkerKnown DEF Histories
    <3>3. history' = [h EXCEPT !.oldPass = FALSE]
      BY <1>1
    <3> HIDE DEF h
    <3>4. QED
      BY <3>1, <3>2, <3>3 DEF Histories
  <2>2. history.oldPass => uart.reset_requested
    BY DEF IInv, ResetSeen
  <2>3. QED
    BY <1>9, <2>1, <2>2, WorkerKnown DEF Histories
<1>13. net' \in Nets
  BY <1>1, WorkerKnown, NetTyped
<1>14. Sound'
  BY <1>1, <1>10, <1>11, <1>12, <1>13, WorkerKnown, SoundNext
<1>15. TypeOK' /\ PayloadFits'
  BY <1>14, SoundIsTyped, PTL
<1>16. RoomKept' /\ PacketFits'
  BY <1>10, ElsewhereKept
<1>17. LossIsReported' /\ ResetSeen'
  BY <1>11, <1>12 DEF IInv, LossIsReported, ResetSeen
<1>18. QED
  BY <1>15, <1>16, <1>17 DEF IInv

\* A text queued sets the overflow flag exactly when it is cut.
LEMMA QueueTextInv == ASSUME IInv, QueueText PROVE IInv'
<1> DEFINE n    == Head(worker.out)
           rest == Tail(worker.out)
           cut  == n > RxCapacity - uart.rx_count
<1>1. /\ worker.out # <<>> /\ worker' = [worker EXCEPT !.out = rest]
      /\ uart' = QueueBytes(uart, n)
      /\ history' = [history EXCEPT !.lost = history.lost \/ cut]
      /\ UNCHANGED <<session, net>>
  BY DEF QueueText
<1>2. worker.out \in Seq(1..(TextSize + HeaderSize + Chunk))
  BY WorkerKnown DEF Typed, Worker
<1>3. /\ n \in 1..(TextSize + HeaderSize + Chunk)
      /\ rest \in Seq(1..(TextSize + HeaderSize + Chunk))
      /\ Len(rest) = Len(worker.out) - 1 /\ Len(worker.out) \in Nat
  BY <1>1, <1>2, HeadAndTail
<1>4. n \in Nat
  BY <1>3, SizeAssumption
<1> HIDE DEF n, rest
<1>5. /\ UartTyped(uart') /\ uart'.rx_overflow = (uart.rx_overflow \/ cut)
      /\ uart'.reset_requested = uart.reset_requested
  BY <1>1, <1>4, WorkerKnown, QueueTyped
<1> HIDE DEF cut
<1>6. /\ history' \in Histories /\ history'.lost = (history.lost \/ cut)
      /\ history'.oldPass = history.oldPass /\ history'.stale = history.stale
  <2>1. (history.lost \/ cut) \in BOOLEAN
    OBVIOUS
  <2> DEFINE lost == history.lost \/ cut
  <2>2. history' = [history EXCEPT !.lost = lost]
    BY <1>1
  <2> HIDE DEF lost
  <2>3. /\ history' \in Histories /\ history'.lost = lost
        /\ history'.oldPass = history.oldPass /\ history'.stale = history.stale
    BY <2>1, <2>2, WorkerKnown DEF Histories, lost
  <2>4. QED
    BY <2>3 DEF lost
<1>7. Good(worker') /\ worker'.pc = worker.pc /\ worker'.out = rest
  BY <1>1, <1>3, WorkerKnown, OutGood DEF SamePlace
<1>8. Sound'
  BY <1>1, <1>5, <1>6, <1>7, WorkerKnown, SoundNext
<1>9. TypeOK' /\ PayloadFits'
  BY <1>8, SoundIsTyped, PTL
<1>10. RoomKept' /\ PacketFits'
  BY <1>1, <1>3, <1>7 DEF IInv, RoomKept, PacketFits
<1>11. LossIsReported' /\ ResetSeen'
  BY <1>5, <1>6 DEF IInv, LossIsReported, ResetSeen
<1>12. QED
  BY <1>9, <1>10, <1>11 DEF IInv

-----------------------------------------------------------------------------
(* The theorems.                                                           *)

LEMMA InitInv == Init => IInv
<1> SUFFICES ASSUME Init PROVE IInv
  OBVIOUS
<1>1. <<>> \in Seq(session.symbols) /\ Len(<<>>) = 0
  OBVIOUS
<1>2. UartTyped(uart)
  BY <1>1, SizeAssumption DEF Init, UartTyped, Uart
<1>3. Good(worker) /\ worker.pc = "start" /\ worker.out = <<>>
  <2> DEFINE closed == [id \in Ids |-> FALSE]
  <2>1. closed \in [Ids -> BOOLEAN]
    OBVIOUS
  <2>2. 0 \in 0..Cardinality(Ids) /\ 0 \in 0..Chunk /\ 0 < LineCapacity /\ 0 <= TxCapacity
    BY IdsFinite, SizeAssumption
  <2>3. <<>> \in Seq(1..(TextSize + HeaderSize + Chunk))
    OBVIOUS
  <2>4. Idle \in [active: BOOLEAN, connection: Ids, length: 0..MaxSend, received: 0..MaxSend]
    BY IdleSends DEF Sends
  <2>5. worker = [pc |-> "start", enabled |-> FALSE, worker_enabled |-> FALSE, bytes |-> <<>>,
                  echo |-> FALSE, multiplex |-> FALSE, line |-> <<>>, line_pending |-> FALSE,
                  send |-> Idle, connections |-> closed, id |-> 0, maximum |-> 0, out |-> <<>>]
    BY DEF Init, InitialWorker
  <2> HIDE DEF closed
  <2>6. QED
    BY <1>1, <2>1, <2>2, <2>3, <2>4, <2>5, IdleSends DEF Good, Typed, Fits, Worker
<1>4. net \in Nets
  BY HostAssumption DEF Init, Nets
<1>5. history \in Histories /\ ~history.lost /\ ~history.oldPass /\ history.stale = {}
  BY DEF Init, Histories
<1>6. Sound
  BY <1>2, <1>3, <1>4, <1>5 DEF Init, Sound
<1>7. QED
  BY <1>3, <1>5, <1>6, SoundIsTyped
  DEF IInv, RoomKept, PacketFits, LossIsReported, ResetSeen

LEMMA StutterInv == ASSUME IInv, UNCHANGED vars PROVE IInv'
BY DEF vars, IInv, TypeOK, PayloadFits, PacketFits, RoomKept, LossIsReported, ResetSeen,
       Uart, Worker, Items, Idle

LEMMA StepInv == ASSUME IInv, [Next]_vars PROVE IInv'
<1>1. CASE WorkerStep
  BY <1>1, ThreadStartsInv, BeginPassInv, ProcessByteInv, BytesDoneInv, PollInv, ReceiveInv,
     ReceiveNothingInv, ReceiveFailsInv, PollDoneInv, WaitInv, QueueTextInv DEF WorkerStep
<1>2. CASE EmulatorStep \/ PeerSends \/ PeerCloses
  BY <1>2, EmulatorInv, NetworkInv
<1>3. CASE Finished \/ UNCHANGED vars
  BY <1>3, StutterInv DEF Finished
<1>4. QED
  BY <1>1, <1>2, <1>3 DEF Next

LEMMA Invariance == Spec => []IInv
BY InitInv, StepInv, PTL DEF Spec

\* The FIFOs stay within their capacities, a line within its buffer, and every
\* field of next_wifi has the values the code gives it.
THEOREM TypeCorrect == Spec => []TypeOK
<1>1. IInv => TypeOK
  BY DEF IInv
<1>2. QED
  BY <1>1, Invariance, PTL

\* What passes between the CPU and the network is not cut without a sign: a
\* packet that next_wifi_poll_connection measured room for fits when it is
\* queued, a payload stays within its buffer, and a byte that
\* next_wifi_queue_bytes drops shows in the status.
THEOREM NothingCut == Spec => []PassesWhole
<1>1. IInv => PassesWhole
  BY DEF IInv, PassesWhole
<1>2. QED
  BY <1>1, Invariance, PTL

\* From the first pass of next_wifi_thread after next_wifi_reset on, no half
\* line, payload or connection from before the reset is left.
THEOREM ResetsComplete == Spec => []NothingSurvivesReset
<1>1. IInv => NothingSurvivesReset
  BY DEF IInv, ResetSeen, NothingSurvivesReset
<1>2. QED
  BY <1>1, Invariance, PTL
=============================================================================
