------------------------------ MODULE NextWifi ------------------------------
(* The ESP8266 of the ZX Spectrum Next (src/src/next_wifi.c): two threads,  *)
(* the emulator's, which is the Next's CPU and menu, and a worker with the  *)
(* sockets, over two FIFOs and some flags under one lock.                   *)
(*                                                                         *)
(* Every critical section is one action.  What the worker does between two  *)
(* of them touches only its own state and the network, and is part of the   *)
(* action before.  Of the bytes for the CPU only the number is kept; every  *)
(* answer has TextSize of them.  A command's text is one symbol.  The       *)
(* prescaler, control and frame registers are only stored, but for the      *)
(* frame bit that clears the FIFOs.                                         *)
EXTENDS Integers, Sequences, FiniteSets

CONSTANTS
  Ids,          \* connections: 0..4 in the code
  RxCapacity,   \* NEXT_WIFI_RX_CAPACITY
  TxCapacity,   \* NEXT_WIFI_TX_CAPACITY
  LineCapacity, \* NEXT_WIFI_LINE_CAPACITY
  Chunk,        \* NEXT_WIFI_SOCKET_CHUNK
  TextSize,     \* bytes of an answer
  HeaderSize,   \* longest +IPD header
  Reserve,      \* room next_wifi_poll_connection leaves for it: 16 or 18
  MaxSend,      \* longest payload a program sends
  Sessions      \* uses of the device: the symbols the program writes, whether
                \* the menu turns networking off and on, whether connections
                \* carry datagrams, and a bound, the bytes that wait at a socket

CommandNames == {"START", "SEND", "CLOSE", "RST", "MUX0", "MUX1", "ECHO0", "ECHO1",
                 "INFO"}
ASSUME IdsAssumption == IsFiniteSet(Ids) /\ Ids = 0..(Cardinality(Ids) - 1) /\ Ids # {}
ASSUME SizeAssumption ==
  /\ RxCapacity \in Nat /\ TxCapacity \in Nat \ {0} /\ LineCapacity \in Nat \ {0}
  /\ Chunk \in Nat \ {0} /\ TextSize \in Nat \ {0} /\ HeaderSize \in Nat \ {0}
  /\ Reserve \in Nat /\ HeaderSize <= Reserve
  /\ MaxSend \in Nat \ {0}
ASSUME HostAssumption ==
  /\ \A s \in Sessions :
       /\ s.symbols \subseteq CommandNames \cup {"CR", "LF", "x"}
       /\ s.detaches \in BOOLEAN /\ s.udp \in BOOLEAN /\ s.maxIncoming \in Nat

VARIABLES
  session,    \* which of Sessions this is; does not change
  uart,       \* what the lock guards: rx_count, tx and the flags
  worker,     \* the thread: its locals and the fields only it touches
  net,        \* per connection, what the network holds
  history     \* what the properties remember

vars == <<session, uart, worker, net, history>>

Uart ==
  [ enabled: BOOLEAN, reset_requested: BOOLEAN, stop_requested: BOOLEAN,
    rx_count: 0..RxCapacity, rx_overflow: BOOLEAN, tx: Seq(session.symbols) ]

Idle == [active |-> FALSE, connection |-> 0, length |-> 0, received |-> 0]
Worker ==
  [ pc: {"start", "loop", "bytes", "poll", "recv", "wait", "done"},
    enabled: BOOLEAN, worker_enabled: BOOLEAN, bytes: Seq(session.symbols),
    echo: BOOLEAN, multiplex: BOOLEAN, line: Seq(session.symbols), line_pending: BOOLEAN,
    send: [active: BOOLEAN, connection: Ids, length: 0..MaxSend, received: 0..MaxSend],
    connections: [Ids -> BOOLEAN],
    id: 0..Cardinality(Ids), maximum: 0..Chunk,
    out: Seq(1..(TextSize + HeaderSize + Chunk)) ]

-----------------------------------------------------------------------------
(* The FIFOs, each operator one critical section.                          *)

\* next_wifi_queue_bytes
QueueBytes(u, n) ==
  LET room == RxCapacity - u.rx_count
  IN  [u EXCEPT !.rx_count = @ + (IF n < room THEN n ELSE room),
                !.rx_overflow = @ \/ n > room]

ClearFifos(u) == [u EXCEPT !.rx_count = 0, !.tx = <<>>, !.rx_overflow = FALSE]

-----------------------------------------------------------------------------
(* The worker's own state.                                                 *)

\* next_wifi_worker_reset
WorkerReset(w) ==
  [w EXCEPT !.connections = [id \in Ids |-> FALSE], !.send = Idle,
            !.line = <<>>, !.line_pending = FALSE,
            !.echo = TRUE, !.multiplex = FALSE]

CloseConnection(w, id) == [w EXCEPT !.connections[id] = FALSE]

\* Texts for the CPU, queued one critical section each.
Say(w, n) == [w EXCEPT !.out = @ \o [i \in 1..n |-> TextSize]]

\* The connection a command names, in either mode.
Named(w) == IF w.multiplex THEN Ids ELSE {0}

\* next_wifi_open_connection and the answer to CIPSTART.  A connection of that
\* id is closed without a word.
Start(w, id) == {Say(w, 1), Say([w EXCEPT !.connections[id] = TRUE], 2)}

\* next_wifi_begin_send
BeginSend(w, id) ==
  IF ~w.connections[id] THEN {Say(w, 1)}
  ELSE {Say(w, 1)}
       \cup {Say([w EXCEPT !.send = [active |-> TRUE, connection |-> id,
                                     length |-> n, received |-> 0]], 1) :
             n \in 1..MaxSend}

\* CIPCLOSE
Close(w, id) ==
  IF w.connections[id] THEN Say(CloseConnection(w, id), 2) ELSE Say(w, 1)

\* next_wifi_command, over the ids it may name and the network's answers.
Command(w, name) ==
  CASE name = "RST"   -> {Say(WorkerReset(w), 1)}
    [] name = "MUX0"  -> {Say([w EXCEPT !.multiplex = FALSE], 1)}
    [] name = "MUX1"  -> {Say([w EXCEPT !.multiplex = TRUE], 1)}
    [] name = "ECHO0" -> {Say([w EXCEPT !.echo = FALSE], 1)}
    [] name = "ECHO1" -> {Say([w EXCEPT !.echo = TRUE], 1)}
    [] name = "START" -> UNION {Start(w, id) : id \in Named(w)}
    [] name = "SEND"  -> UNION {BeginSend(w, id) : id \in Named(w)}
    [] name = "CLOSE" -> {Close(w, id) : id \in Named(w)} \cup {Say(w, 1)}
    [] OTHER          -> {Say(w, 1)}

\* A line that is not one of the commands, or is one and more, is an error.
RunLine(w) ==
  LET name == IF Len(w.line) = 1 THEN w.line[1] ELSE "x"
  IN  {[v EXCEPT !.line = <<>>] : v \in Command([w EXCEPT !.line_pending = FALSE], name)}

\* next_wifi_finish_send: sent, or failed and the connection given up.
FinishSend(w) ==
  LET id   == w.send.connection
      over == [w EXCEPT !.send = Idle]
      fail == Say(CloseConnection(over, id), 2)
  IN  IF w.connections[id] THEN {Say(over, 1), fail} ELSE {fail}

Payload(w) ==
  LET got == [w EXCEPT !.send.received = @ + 1]
  IN  IF got.send.received = got.send.length THEN FinishSend(got) ELSE {got}

Echoed(w) == IF w.echo THEN [w EXCEPT !.out = Append(@, 1)] ELSE w

\* Mutant: the line is as long as its buffer.
LineByte_OffByOne(w, v) ==
  LET e == Echoed(w)
  IN  IF v = "CR" THEN {[e EXCEPT !.line_pending = TRUE]}
      ELSE IF v = "LF" THEN (IF e.line # <<>> THEN RunLine(e) ELSE {e})
      ELSE IF Len(e.line) < LineCapacity THEN {[e EXCEPT !.line = Append(@, v)]}
      ELSE {Say([e EXCEPT !.line = <<>>], 1)}

\* The end of next_wifi_process_tx_byte.
LineByte(w, v) ==
  LET e == Echoed(w)
  IN  IF v = "CR" THEN {[e EXCEPT !.line_pending = TRUE]}
      ELSE IF v = "LF" THEN (IF e.line # <<>> THEN RunLine(e) ELSE {e})
      ELSE IF Len(e.line) + 1 < LineCapacity THEN {[e EXCEPT !.line = Append(@, v)]}
      ELSE {Say([e EXCEPT !.line = <<>>], 1)}

\* next_wifi_process_tx_byte: a line that ended with CR runs when the next
\* byte comes, and that byte, unless it is LF, begins the next line.
ProcessTxByte(w, v) ==
  IF w.send.active THEN Payload(w)
  ELSE IF ~w.line_pending THEN LineByte(w, v)
  ELSE IF v = "LF" THEN RunLine(Echoed(w))
  ELSE UNION {LineByte(x, v) : x \in RunLine(w)}

-----------------------------------------------------------------------------
(* The worker thread.  It goes on only when its texts are queued.          *)

InitialWorker ==
  [ pc |-> "start", enabled |-> FALSE, worker_enabled |-> FALSE, bytes |-> <<>>,
    echo |-> FALSE, multiplex |-> FALSE, line |-> <<>>, line_pending |-> FALSE,
    send |-> Idle, connections |-> [id \in Ids |-> FALSE], id |-> 0, maximum |-> 0,
    out |-> <<>> ]

\* What a worker may hold from one byte to the next.
Items == {<<"line", 0>>, <<"send", 0>>} \cup ({"connection"} \X Ids)
Holds(w) ==
  {i \in Items : CASE i[1] = "line" -> w.line # <<>> \/ w.line_pending
                  [] i[1] = "send" -> w.send.active
                  [] OTHER         -> w.connections[i[2]]}

\* History: what the worker has from before the CPU's last reset is stale, as
\* is all it does in a pass that began before it.
StaleAfter(h, w) == [h EXCEPT !.stale = @ \cap Holds(w)]

At(pc) == worker.pc = pc /\ worker.out = <<>>

\* Connections that are opened or closed begin with nothing on the network.
NetAfter(w) ==
  [id \in Ids |-> IF w.connections[id] /\ worker.connections[id] THEN net[id]
                  ELSE [incoming |-> 0, closed |-> FALSE]]

ThreadStarts ==
  /\ At("start")
  /\ worker' = [WorkerReset(worker) EXCEPT !.pc = "loop"]
  /\ UNCHANGED <<session, uart, net, history>>

\* Mutant: a reset that comes during a pass is forgotten at its end.
Taken_ForgetsReset(w, u) ==
  LET seen == [w EXCEPT !.enabled = u.enabled, !.bytes = u.tx, !.worker_enabled = u.enabled]
  IN  IF u.stop_requested THEN [WorkerReset(w) EXCEPT !.pc = "done", !.bytes = <<>>]
      ELSE IF u.enabled # w.worker_enabled THEN WorkerReset(seen) ELSE seen

\* The pass of next_wifi_thread after its critical section: the bytes taken,
\* the flags seen.  worker_enabled follows enabled whenever they differ.
Taken(w, u) ==
  LET seen == [w EXCEPT !.enabled = u.enabled, !.bytes = u.tx, !.worker_enabled = u.enabled]
  IN  IF u.stop_requested THEN [WorkerReset(w) EXCEPT !.pc = "done", !.bytes = <<>>]
      ELSE IF u.reset_requested \/ u.enabled # w.worker_enabled THEN WorkerReset(seen)
      ELSE seen

BeginPass ==
  /\ At("loop")
  /\ LET t == Taken(worker, uart)
     IN  /\ worker' = IF t.pc = "done" THEN t
                      ELSE [t EXCEPT !.pc = IF t.enabled THEN "bytes" ELSE "wait"]
         /\ net' = NetAfter(t)
         /\ history' = [StaleAfter(history, t) EXCEPT !.oldPass = FALSE]
  /\ uart' = [uart EXCEPT !.reset_requested = FALSE, !.tx = <<>>]
  /\ UNCHANGED session

ProcessByte ==
  /\ At("bytes") /\ worker.bytes # <<>>
  /\ \E w \in ProcessTxByte([worker EXCEPT !.bytes = Tail(@)], Head(worker.bytes)) :
       /\ worker' = w
       /\ net' = NetAfter(w)
       /\ history' = IF history.oldPass THEN [history EXCEPT !.stale = Holds(w)]
                     ELSE StaleAfter(history, w)
  /\ UNCHANGED <<session, uart>>

BytesDone ==
  /\ At("bytes") /\ worker.bytes = <<>>
  /\ worker' = [worker EXCEPT !.pc = "poll", !.id = 0]
  /\ UNCHANGED <<session, uart, net, history>>

\* Mutant: no room is left for the header.
PollRoom_NoReserve == RxCapacity - uart.rx_count

\* next_wifi_rx_free, less the room for the header.
PollRoom == RxCapacity - uart.rx_count - Reserve

\* Mutant: the worker waits for room before it polls.
Poll_WaitsForRoom ==
  /\ At("poll") /\ worker.id < Cardinality(Ids)
  /\ worker' = IF ~worker.connections[worker.id] THEN [worker EXCEPT !.id = @ + 1]
               ELSE IF PollRoom <= 0 THEN worker
               ELSE [worker EXCEPT !.pc = "recv",
                       !.maximum = IF PollRoom < Chunk THEN PollRoom ELSE Chunk]
  /\ UNCHANGED <<session, uart, net, history>>

\* next_wifi_poll_connection, up to its recv.
Poll ==
  /\ At("poll") /\ worker.id < Cardinality(Ids)
  /\ worker' = IF worker.connections[worker.id] /\ PollRoom > 0
               THEN [worker EXCEPT !.pc = "recv",
                       !.maximum = IF PollRoom < Chunk THEN PollRoom ELSE Chunk]
               ELSE [worker EXCEPT !.id = @ + 1]
  /\ UNCHANGED <<session, uart, net, history>>

PollNext(w) == [w EXCEPT !.pc = "poll", !.id = @ + 1, !.maximum = 0]

\* recv gives bytes: a stream as many as there are, up to maximum, a datagram
\* whole.
Receive ==
  /\ At("recv")
  /\ LET id == worker.id
         waiting == net[id].incoming
     IN  /\ waiting > 0
         /\ \E n \in 1..waiting :
              /\ n <= worker.maximum /\ (session.udp => n = waiting)
              /\ worker' = [PollNext(worker) EXCEPT !.out = <<HeaderSize, n>>]
              /\ net' = [net EXCEPT ![id].incoming = @ - n]
  /\ UNCHANGED <<session, uart, history>>

\* recv would block.
ReceiveNothing ==
  /\ At("recv")
  /\ net[worker.id].incoming = 0 /\ ~net[worker.id].closed
  /\ worker' = PollNext(worker)
  /\ UNCHANGED <<session, uart, net, history>>

\* recv says that the peer closed, or fails; on a datagram socket it fails too
\* when the buffer is shorter than the datagram.
ReceiveFails ==
  /\ At("recv")
  /\ LET id == worker.id
         cutOff == session.udp /\ net[id].incoming > worker.maximum
         w == Say(CloseConnection(PollNext(worker), id), 1)
     IN  /\ cutOff \/ (net[id].incoming = 0 /\ net[id].closed)
         /\ worker' = w
         /\ net' = NetAfter(w)
         /\ history' = StaleAfter(history, w)
  /\ UNCHANGED <<session, uart>>

PollDone ==
  /\ At("poll") /\ worker.id = Cardinality(Ids)
  /\ worker' = [worker EXCEPT !.pc = "wait"]
  /\ UNCHANGED <<session, uart, net, history>>

\* The wake event or its timeout: nothing waits for the event to be set.
Wait ==
  /\ At("wait")
  /\ worker' = [worker EXCEPT !.pc = "loop"]
  /\ UNCHANGED <<session, uart, net, history>>

\* One text for the CPU.
QueueText ==
  /\ worker.out # <<>>
  /\ worker' = [worker EXCEPT !.out = Tail(@)]
  /\ uart' = QueueBytes(uart, Head(worker.out))
  /\ history' = [history EXCEPT !.lost = @ \/ Head(worker.out) > RxCapacity - uart.rx_count]
  /\ UNCHANGED <<session, net>>

WorkerStep ==
  \/ ThreadStarts \/ BeginPass \/ ProcessByte \/ BytesDone
  \/ Poll \/ Receive \/ ReceiveNothing \/ ReceiveFails \/ PollDone \/ Wait
  \/ QueueText

-----------------------------------------------------------------------------
(* The emulator thread.  After next_wifi_destroy it has no device.          *)

Alive == ~uart.stop_requested

\* next_wifi_write_tx
WriteTx ==
  /\ Alive /\ uart.enabled /\ Len(uart.tx) < TxCapacity
  /\ \E v \in session.symbols : uart' = [uart EXCEPT !.tx = Append(@, v)]
  /\ UNCHANGED <<session, worker, net, history>>

\* next_wifi_read_rx
ReadRx ==
  /\ Alive /\ uart.enabled /\ uart.rx_count > 0
  /\ uart' = [uart EXCEPT !.rx_count = @ - 1]
  /\ UNCHANGED <<session, worker, net, history>>

\* next_wifi_read_status
ReadStatus ==
  /\ Alive
  /\ uart' = [uart EXCEPT !.rx_overflow = FALSE]
  /\ history' = [history EXCEPT !.lost = FALSE]
  /\ UNCHANGED <<session, worker, net>>

\* next_wifi_write_frame with bit 7.
ClearFrame ==
  /\ Alive
  /\ uart' = ClearFifos(uart)
  /\ history' = [history EXCEPT !.lost = FALSE]
  /\ UNCHANGED <<session, worker, net>>

\* next_wifi_reset, from next_machine_reset.
Reset ==
  /\ Alive
  /\ uart' = [ClearFifos(uart) EXCEPT !.reset_requested = TRUE]
  /\ history' = [history EXCEPT !.lost = FALSE,
                                !.oldPass = TRUE, !.stale = Holds(worker)]
  /\ UNCHANGED <<session, worker, net>>

\* next_wifi_set_enabled, from the menu.
SetEnabled ==
  /\ Alive
  /\ \E on \in BOOLEAN :
       /\ on \/ session.detaches
       /\ uart' = [ClearFifos(uart) EXCEPT !.enabled = on]
  /\ history' = [history EXCEPT !.lost = FALSE]
  /\ UNCHANGED <<session, worker, net>>

\* next_wifi_destroy, up to its wait for the thread.
Destroy ==
  /\ Alive
  /\ uart' = [uart EXCEPT !.stop_requested = TRUE]
  /\ UNCHANGED <<session, worker, net, history>>

EmulatorStep ==
  WriteTx \/ ReadRx \/ ReadStatus \/ ClearFrame \/ Reset \/ SetEnabled \/ Destroy

-----------------------------------------------------------------------------
(* The network.                                                            *)

\* A datagram arrives whole and waits alone; a stream grows by a byte.
PeerSends ==
  /\ \E id \in Ids, n \in 1..session.maxIncoming :
       /\ worker.connections[id] /\ ~net[id].closed
       /\ IF session.udp THEN net[id].incoming = 0 ELSE n = 1
       /\ net[id].incoming + n <= session.maxIncoming
       /\ net' = [net EXCEPT ![id].incoming = @ + n]
  /\ UNCHANGED <<session, uart, worker, history>>

PeerCloses ==
  /\ ~session.udp
  /\ \E id \in Ids :
       /\ worker.connections[id] /\ ~net[id].closed
       /\ net' = [net EXCEPT ![id].closed = TRUE]
  /\ UNCHANGED <<session, uart, worker, history>>

-----------------------------------------------------------------------------
Init ==
  /\ session \in Sessions
  /\ uart = [enabled |-> FALSE, reset_requested |-> FALSE, stop_requested |-> FALSE,
             rx_count |-> 0, rx_overflow |-> FALSE, tx |-> <<>>]
  /\ worker = InitialWorker
  /\ net = [id \in Ids |-> [incoming |-> 0, closed |-> FALSE]]
  /\ history = [oldPass |-> FALSE, stale |-> {}, lost |-> FALSE]

\* The thread has ended and next_wifi_destroy has joined it.
Finished == worker.pc = "done" /\ UNCHANGED vars

Next == WorkerStep \/ EmulatorStep \/ PeerSends \/ PeerCloses \/ Finished

\* The worker is a thread the system schedules, and its only waits, for the
\* event and for sockets, have timeouts.
FairSpec == Init /\ [][Next]_vars /\ WF_vars(WorkerStep)

Spec == Init /\ [][Next]_vars

-----------------------------------------------------------------------------
(* What the device promises.                                               *)

TypeOK ==
  /\ session \in Sessions
  /\ uart \in Uart /\ Len(uart.tx) <= TxCapacity
  /\ worker \in Worker /\ Len(worker.bytes) <= TxCapacity
  /\ Len(worker.line) < LineCapacity
  /\ net \in [Ids -> [incoming: 0..session.maxIncoming, closed: BOOLEAN]]
  /\ history \in [oldPass: BOOLEAN, stale: SUBSET Items, lost: BOOLEAN]

\* The payload collected for CIPSEND stays within the buffer that was allocated
\* for it, whatever resets, closings and commands come meanwhile.
PayloadFits == worker.send.active => worker.send.received < worker.send.length

\* A packet from the network is never cut by a full FIFO: the room measured in
\* one critical section is still there in the two that queue the header and the
\* data, whatever the CPU did in between.
PacketFits ==
  Len(worker.out) = 2 /\ worker.out[1] = HeaderSize /\ worker.pc = "poll"
    => worker.out[1] + worker.out[2] <= RxCapacity - uart.rx_count

\* Once a pass begins after a reset by the CPU nothing from before it is left
\* in the worker: no half line, payload or connection.
NothingSurvivesReset == ~history.oldPass => history.stale = {}

\* A byte that the FIFO had no room for shows in the status until the CPU
\* reads it or clears the FIFO.
LossIsReported == history.lost => uart.rx_overflow

\* What passes between the CPU and the network is not cut without a sign.
PassesWhole == LossIsReported /\ PacketFits /\ PayloadFits

\* A full transmit FIFO is taken by the worker: a program that waits for the
\* full bit to go goes on.
TxTaken == Len(uart.tx) = TxCapacity ~> Len(uart.tx) < TxCapacity
=============================================================================
