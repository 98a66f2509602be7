------------------------------- MODULE NextSd -------------------------------
(* The SD card of the ZX Spectrum Next (src/src/next_sd.c): an SPI device   *)
(* that the CPU drives a byte at a time through ports E7 (chip select) and  *)
(* EB (data).  Bytes written make commands or the packets of a block write; *)
(* bytes read come from a queue of responses.  Unlike on the wire, writing  *)
(* a byte does not clock a response byte out, so what the CPU leaves unread *)
(* stays in the queue, in front of the next response.                       *)
(*                                                                         *)
(* Sizes are constants: a block of BlockSize bytes for 512, a queue of      *)
(* Capacity for NEXT_SD_RESPONSE_CAPACITY, a command of CommandSize for 6.  *)
(* The argument of a command is known when its last byte comes, and its     *)
(* number is forgotten with it.  The bytes of a data packet are all alike,  *)
(* which tells packets apart.                                              *)
(* high_capacity is never set, so CSD and OCR are those of a small card.    *)
EXTENDS Integers, Sequences

CONSTANTS
  Blocks,       \* blocks of the image
  BlockSize,
  RegisterSize, \* bytes of a register sent as a data packet: SCR, CSD, CID
  Capacity,
  CommandSize,
  Hosts,        \* programs that may drive the card: the commands each sends,
                \* 99 being one the card does not know, and a bound: it
                \* starts none with more than that many bytes unread
  Fills,        \* bytes the host fills a packet with
  Writable,     \* how the image may be opened
  IoFails,      \* whether the file system of the emulator's host may fail
  MaxPastEnd    \* bound: packets of a CMD25 after the last block

ASSUME SizeAssumption ==
  /\ Blocks \in Nat /\ Blocks > 0 /\ BlockSize \in Nat /\ BlockSize > 0
  /\ RegisterSize \in Nat /\ RegisterSize > 0 /\ RegisterSize <= BlockSize
  /\ CommandSize \in Nat /\ CommandSize > 1
  /\ MaxPastEnd \in Nat
  \* 1024 holds one answered block of 519 bytes, not two.
  /\ Capacity \in Nat /\ Capacity >= BlockSize + 7
ASSUME HostAssumption ==
  /\ \A h \in Hosts :
       /\ h.commands \subseteq {0, 1, 8, 9, 10, 12, 13, 16, 17, 18, 24, 25, 41,
                                51, 55, 58, 59, 99}
       /\ h.maxUnread \in Nat
  /\ Writable \subseteq BOOLEAN /\ IoFails \in BOOLEAN /\ Fills # {}

VARIABLES
  host,      \* which of Hosts drives the card; does not change
  card,      \* NextSdCard
  image,     \* the blocks of card->image
  fill,      \* the byte the host fills the current packet with
  history    \* what the properties remember

vars == <<host, card, image, fill, history>>

Fresh  == "fresh"
Broken == "broken"
Addresses == 0..Blocks     \* Blocks stands for every address past the end

\* What a response is made of.
Items == {"FF", "00", "01", "04", "05", "08", "0D", "20", "FE", "data", "crc",
          "info"}
\* Bytes of a packet in write_buffer: its token, its data, its CRC.
PacketSize == BlockSize + 3

Card ==
  [ mounted: BOOLEAN, writable: BOOLEAN, selected: BOOLEAN, idle: BOOLEAN,
    app_command: BOOLEAN, command: host.commands \cup {99}, command_length: 0..(CommandSize - 1),
    unread: Seq(Items), response_read: 0..Capacity,
    multi_read: BOOLEAN, multi_read_lba: Nat,
    write_pending: BOOLEAN, write_multi: BOOLEAN, write_lba: Nat,
    write_buffer: Seq({"token", "crc"} \cup Fills) ]

-----------------------------------------------------------------------------
(* The response queue.  unread is response[response_read..response_write-1]. *)

ResponseWrite(c) == c.response_read + Len(c.unread)

Repeat(n, item) == [i \in 1..n |-> item]
R1(value)       == <<"FF", "FF", value>>
IdleR1(c)       == R1(IF c.idle THEN "01" ELSE "00")
DataPacket(n)   == <<"FF", "FE">> \o Repeat(n, "data") \o <<"crc", "crc">>
\* SCR, CID, and the CSD that next_sd_build_csd makes.
RegisterPacket  == DataPacket(RegisterSize)

\* next_sd_clear_response
ClearResponse(c) == [c EXCEPT !.unread = <<>>, !.response_read = 0]

\* Mutant: the queue is written past its end.
QueueBytes_Unbounded(c, items) ==
  [(IF c.unread = <<>> THEN ClearResponse(c) ELSE c) EXCEPT !.unread = @ \o items]

\* next_sd_queue_byte, for the bytes of one response: a drained queue starts
\* over, a full one drops.
Compacted(c) == IF c.unread = <<>> THEN ClearResponse(c) ELSE c
Room(c)      == Capacity - ResponseWrite(Compacted(c))
QueueBytes(c, items) ==
  LET base == Compacted(c)
      kept == IF Room(c) < Len(items) THEN Room(c) ELSE Len(items)
  IN  [base EXCEPT !.unread = @ \o SubSeq(items, 1, kept)]

\* History: a response was queued behind an unread one, or lost its end; the
\* emptying of the queue forgets both.
Lost(c, items) == Len(QueueBytes(c, items).unread) < Len(c.unread) + Len(items)
Queued(h, c, items) ==
  IF c.unread = <<>>
  THEN [h EXCEPT !.piled = FALSE, !.cut = Lost(c, items)]
  ELSE [h EXCEPT !.piled = TRUE, !.cut = @ \/ Lost(c, items)]
Forgotten(h) == [h EXCEPT !.piled = FALSE, !.cut = FALSE]

\* A card and the history after it answered with the given bytes.
Answer(c, h, items) == [card |-> QueueBytes(c, items), history |-> Queued(h, c, items)]

-----------------------------------------------------------------------------
(* Commands.                                                               *)

InRange(lba) == lba < Blocks

\* next_sd_read_block: out of range, or the file fails, or the block.
ReadResults(lba) == {InRange(lba)} \cup (IF IoFails THEN {FALSE} ELSE {})

\* next_sd_queue_block for the answer to CMD17 and CMD18: what is sent.
BlockAnswer(read) == IF read THEN R1("00") \o DataPacket(BlockSize) ELSE R1("20")

\* Mutant: the stream starts with the block it has already sent.
StartStream_Repeats(c, h, lba) ==
  IF ~InRange(lba) THEN {Answer([c EXCEPT !.multi_read_lba = lba], h, R1("20"))}
  ELSE {Answer([c EXCEPT !.multi_read_lba = lba, !.multi_read = read],
               [h EXCEPT !.next = lba + 1], BlockAnswer(read))
        : read \in ReadResults(lba)}

\* CMD18
StartStream(c, h, lba) ==
  IF ~InRange(lba) THEN {Answer([c EXCEPT !.multi_read_lba = lba], h, R1("20"))}
  ELSE {Answer([c EXCEPT !.multi_read_lba = lba + 1, !.multi_read = read],
               [h EXCEPT !.next = lba + 1], BlockAnswer(read))
        : read \in ReadResults(lba)}

\* CMD24 and CMD25
StartWrite(c, h, lba, multi) ==
  IF ~InRange(lba) THEN Answer([c EXCEPT !.write_lba = lba], h, R1("20"))
  ELSE Answer([c EXCEPT !.write_lba = lba, !.write_pending = TRUE,
                        !.write_multi = multi, !.write_buffer = <<>>], h, R1("00"))

\* next_sd_dispatch_app
DispatchApp(c, h) ==
  LET done == [c EXCEPT !.app_command = FALSE]
  IN  CASE c.command = 41 -> Answer([done EXCEPT !.idle = FALSE], h, R1("00"))
        [] c.command = 13 -> Answer(done, h, R1("00") \o <<"00">>)
        [] c.command = 51 -> Answer(done, h, R1("00") \o RegisterPacket)
        [] OTHER          -> Answer(done, h, R1("04"))

\* CMD12
StopStream(c, h) ==
  Answer(ClearResponse([c EXCEPT !.multi_read = FALSE]), Forgotten(h), R1("00"))

\* next_sd_dispatch
Dispatch(c, h, lba) ==
  IF c.app_command THEN {DispatchApp(c, h)}
  ELSE CASE c.command = 0  -> {Answer([c EXCEPT !.idle = TRUE, !.multi_read = FALSE],
                                      h, R1("01"))}
         [] c.command = 1  -> {Answer([c EXCEPT !.idle = FALSE], h, R1("00"))}
         [] c.command = 8  -> {Answer(c, h, IdleR1(c) \o Repeat(4, "info"))}
         [] c.command \in {9, 10} ->
              {Answer(c, h, R1("00") \o RegisterPacket)}
         [] c.command = 12 -> {StopStream(c, h)}
         [] c.command = 13 -> {Answer(c, h, R1("00") \o <<"00">>)}
         [] c.command \in {16, 59} -> {Answer(c, h, R1("00"))}
         [] c.command = 17 -> {Answer(c, h, BlockAnswer(read)) : read \in ReadResults(lba)}
         [] c.command = 18 -> StartStream(c, h, lba)
         [] c.command \in {24, 25} -> {StartWrite(c, h, lba, c.command = 25)}
         [] c.command = 55 -> {Answer([c EXCEPT !.app_command = TRUE], h, IdleR1(c))}
         [] c.command = 58 -> {Answer(c, h, IdleR1(c) \o Repeat(4, "info"))}
         [] OTHER          -> {Answer(c, h, R1(IF c.idle THEN "05" ELSE "04"))}

-----------------------------------------------------------------------------
(* The card's life.                                                        *)

\* next_sd_init, then the fields next_sd_open_image sets.
InitialCard(writable) ==
  [ mounted |-> TRUE, writable |-> writable, selected |-> FALSE, idle |-> TRUE,
    app_command |-> FALSE, command |-> 99, command_length |-> 0,
    unread |-> <<>>, response_read |-> 0,
    multi_read |-> FALSE, multi_read_lba |-> 0,
    write_pending |-> FALSE, write_multi |-> FALSE, write_lba |-> 0,
    write_buffer |-> <<>> ]
InitialHistory == [piled |-> FALSE, cut |-> FALSE, next |-> 0, accepted |-> TRUE]
FreshImage == [lba \in 0..(Blocks - 1) |-> Fresh]

Init ==
  /\ host \in Hosts
  /\ \E w \in Writable : card = InitialCard(w)
  /\ image = FreshImage
  /\ fill = CHOOSE f \in Fills : TRUE
  /\ history = InitialHistory

\* next_sd_open_image: a card is replaced by another, whatever it was doing.
OpenImage ==
  /\ \E w \in Writable : card' = InitialCard(w)
  /\ image' = FreshImage
  /\ history' = InitialHistory
  /\ UNCHANGED <<host, fill>>

Deselected(c) ==
  [ClearResponse(c) EXCEPT !.command = 99, !.command_length = 0,
                           !.write_pending = FALSE, !.write_multi = FALSE,
                           !.write_buffer = <<>>]

\* next_sd_write_chip_select, from port E7 and from a soft reset; writing what
\* is selected already changes nothing.
ChipSelect ==
  /\ card' = [Deselected(card) EXCEPT !.selected = ~@]
  /\ history' = Forgotten(history)
  /\ UNCHANGED <<host, image, fill>>

Ready == card.selected /\ card.mounted

-----------------------------------------------------------------------------
(* next_sd_write_data, by what a byte is to the card.                       *)

InGap == card.write_pending /\ card.write_buffer = <<>>

\* FD ends a CMD25.
StopToken ==
  /\ Ready /\ InGap /\ card.write_multi
  /\ LET c == ClearResponse([card EXCEPT !.write_pending = FALSE,
                                         !.write_multi = FALSE])
         a == Answer(c, Forgotten(history), <<"FF", "00", "FF">>)
     IN  card' = a.card /\ history' = a.history
  /\ UNCHANGED <<host, image, fill>>

\* FC or FE begins a packet; any other byte before it is ignored.
PacketToken ==
  /\ Ready /\ InGap /\ card.write_lba < Blocks + MaxPastEnd
  /\ card' = [card EXCEPT !.write_buffer = <<"token">>]
  /\ fill' \in Fills
  /\ UNCHANGED <<host, image, history>>

PacketByte ==
  /\ Ready /\ card.write_pending
  /\ card.write_buffer # <<>> /\ Len(card.write_buffer) < PacketSize - 1
  /\ card' = [card EXCEPT !.write_buffer =
                Append(@, IF Len(@) <= BlockSize THEN fill ELSE "crc")]
  /\ UNCHANGED <<host, image, fill, history>>

\* What the packet's data bytes are as the content of a block.
Content(bytes) ==
  IF \E f \in Fills : \A i \in DOMAIN bytes : bytes[i] = f
  THEN CHOOSE f \in Fills : \A i \in DOMAIN bytes : bytes[i] = f
  ELSE Broken

PacketData(buffer) == SubSeq(buffer, 2, BlockSize + 1)

\* next_sd_write_block: refused, or written, or the file fails, with the block
\* as it was or written in part.
WriteResults(lba, data) ==
  IF ~card.writable \/ ~InRange(lba) THEN {[written |-> FALSE, image |-> image]}
  ELSE {[written |-> TRUE, image |-> [image EXCEPT ![lba] = Content(data)]]}
       \cup IF IoFails
            THEN {[written |-> FALSE, image |-> image],
                  [written |-> FALSE, image |-> [image EXCEPT ![lba] = Broken]]}
            ELSE {}

\* Mutant: a refused packet does not move the address on.
AfterPacket_StaysOnError(c, written) ==
  IF c.write_multi
  THEN ClearResponse([c EXCEPT !.write_lba = IF written THEN @ + 1 ELSE @])
  ELSE [c EXCEPT !.write_pending = FALSE]

\* A CMD25 goes on with the next block, a CMD24 is over.
AfterPacket(c, written) ==
  IF c.write_multi THEN ClearResponse([c EXCEPT !.write_lba = @ + 1])
  ELSE [c EXCEPT !.write_pending = FALSE]

\* The last byte of a packet.
PacketEnd ==
  /\ Ready /\ card.write_pending /\ Len(card.write_buffer) = PacketSize - 1
  /\ \E r \in WriteResults(card.write_lba, PacketData(Append(card.write_buffer, "crc"))) :
       LET c == AfterPacket([card EXCEPT !.write_buffer = <<>>], r.written)
           h == IF card.write_multi THEN Forgotten(history) ELSE history
           a == Answer(c, [h EXCEPT !.accepted = r.written], <<IF r.written THEN "05" ELSE "0D", "00", "FF">>)
       IN  card' = a.card /\ history' = a.history /\ image' = r.image
  /\ UNCHANGED <<host, fill>>

\* The card takes a byte for a command: none is being written, or the bytes
\* 40..7F abort a CMD25 between its packets.
TakesCommand == ~card.write_pending \/ (InGap /\ card.write_multi)

\* The first byte of a command; other bytes in its place are ignored.
CommandStart ==
  /\ Ready /\ TakesCommand /\ card.command_length = 0
  /\ Len(card.unread) <= host.maxUnread
  /\ \E n \in host.commands :
       card' = [card EXCEPT !.write_pending = FALSE, !.write_multi = FALSE,
                            !.command = n, !.command_length = 1]
  /\ UNCHANGED <<host, image, fill, history>>

CommandByte ==
  /\ Ready /\ ~card.write_pending
  /\ card.command_length \in 1..(CommandSize - 2)
  /\ card' = [card EXCEPT !.command_length = @ + 1]
  /\ UNCHANGED <<host, image, fill, history>>

CommandEnd ==
  /\ Ready /\ ~card.write_pending /\ card.command_length = CommandSize - 1
  /\ \E lba \in Addresses :
     \E a \in Dispatch([card EXCEPT !.command_length = 0], history, lba) :
       /\ card' = [a.card EXCEPT !.command = 99]
       /\ history' = a.history
  /\ UNCHANGED <<host, image, fill>>

-----------------------------------------------------------------------------
(* next_sd_read_data                                                       *)

Read(c) == [c EXCEPT !.unread = Tail(@), !.response_read = @ + 1]

\* A byte of the response, or FF when there is none and no stream.
ReadResponse ==
  /\ Ready
  /\ \/ card.unread # <<>> /\ card' = Read(card) /\ UNCHANGED history
     \/ /\ card.unread = <<>> /\ ~card.multi_read
        /\ card' = ClearResponse(card) /\ history' = Forgotten(history)
  /\ UNCHANGED <<host, image, fill>>

\* The next block of a CMD18, or the token that ends it.
StreamItems(c, read) ==
  [ card |-> [c EXCEPT !.multi_read_lba = @ + 1, !.multi_read = read],
    items |-> <<"FF", "FF">> \o IF read THEN DataPacket(BlockSize)
                                ELSE <<"FF", IF InRange(c.multi_read_lba) THEN "01"
                                             ELSE "08">> ]

ReadStream ==
  /\ Ready /\ card.unread = <<>> /\ card.multi_read
  /\ \E read \in ReadResults(card.multi_read_lba) :
       LET s == StreamItems(ClearResponse(card), read)
           a == Answer(s.card, [Forgotten(history) EXCEPT !.next = @ + 1], s.items)
       IN  card' = Read(a.card) /\ history' = a.history
  /\ UNCHANGED <<host, image, fill>>

Next ==
  \/ OpenImage \/ ChipSelect
  \/ StopToken \/ PacketToken \/ PacketByte \/ PacketEnd
  \/ CommandStart \/ CommandByte \/ CommandEnd
  \/ ReadResponse \/ ReadStream

Spec == Init /\ [][Next]_vars

-----------------------------------------------------------------------------
(* What the card promises.                                                 *)

TypeOK ==
  /\ host \in Hosts
  /\ card \in Card /\ ResponseWrite(card) <= Capacity
  /\ Len(card.write_buffer) < PacketSize
  /\ image \in [0..(Blocks - 1) -> {Fresh, Broken} \cup Fills]
  /\ fill \in Fills
  /\ history \in [piled: BOOLEAN, cut: BOOLEAN, next: Nat, accepted: BOOLEAN]

\* A host that reads a response to its end, or throws it away, before it causes
\* the next one never loses a byte to the bound of the queue, whatever it asks
\* for and however often: only responses left unread push a later one over
\* NEXT_SD_RESPONSE_CAPACITY, where next_sd_queue_byte drops its end.
ResponseWhole == history.cut => history.piled

\* A stream goes on with the block after the last one it sent, whatever other
\* commands and selections came between, unless a CMD18 that was refused has
\* moved it past the end, where it sends no data.
StreamInOrder ==
  card.multi_read => card.multi_read_lba = history.next \/ ~InRange(card.multi_read_lba)

\* After the stop command nothing of the stream is left in front of its answer.
StopIsHeard ==
  [][card.command = 12 /\ card.command_length = CommandSize - 1
     /\ ~card.app_command /\ card'.command_length = 0 /\ card'.selected = card.selected
       => card'.unread = R1("00") \/ ~card'.selected]_vars

\* Responses and streams reach the host whole, in order, and stop.
ResponsesArrive == [](ResponseWhole /\ StreamInOrder) /\ StopIsHeard

\* The card keeps what SdVolume promises about its blocks.
Job(c) ==
  IF c.write_pending THEN [active |-> TRUE, lba |-> c.write_lba, multi |-> c.write_multi]
  ELSE [active |-> FALSE, lba |-> 0, multi |-> FALSE]
Volume ==
  INSTANCE SdVolume WITH
    Contents <- Fills,
    job <- Job(card),
    selected <- card.selected,
    writable <- card.writable,
    accepted <- history.accepted
KeepsVolume == Volume!VolumeSpec
=============================================================================
