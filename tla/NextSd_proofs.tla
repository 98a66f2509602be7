---------------------------- MODULE NextSd_proofs ----------------------------
(* Theorems about NextSd, for every size of its blocks, its queue and its   *)
(* image, with the refinement of SdVolume.                                 *)
EXTENDS NextSd, SequenceTheorems, TLAPS

Histories == [piled: BOOLEAN, cut: BOOLEAN, next: Nat, accepted: BOOLEAN]

\* A card, and a history, that keep the two promises about responses.
CardTyped(c) ==
  c \in Card /\ ResponseWrite(c) <= Capacity /\ Len(c.write_buffer) < PacketSize
Good(c, h) ==
  /\ CardTyped(c) /\ h \in Histories
  /\ h.cut => h.piled
  /\ c.multi_read => c.multi_read_lba = h.next \/ ~InRange(c.multi_read_lba)

\* What SdVolume sees of a card.
Kept(x, c) ==
  /\ x.selected = c.selected /\ x.writable = c.writable
  /\ x.write_pending = c.write_pending /\ x.write_multi = c.write_multi
  /\ x.write_lba = c.write_lba /\ x.write_buffer = c.write_buffer

\* A response that fits the queue once it is empty.
Response(items) == items \in Seq(Items) /\ Len(items) <= BlockSize + 7

-----------------------------------------------------------------------------
(* The response queue.                                                     *)

LEMMA JoinedIsSeq ==
  ASSUME NEW s \in Seq(Items), NEW t \in Seq(Items)
  PROVE  s \o t \in Seq(Items) /\ Len(s \o t) = Len(s) + Len(t)
OBVIOUS

LEMMA RepeatIsSeq ==
  ASSUME NEW n \in Nat, NEW item \in Items
  PROVE  Repeat(n, item) \in Seq(Items) /\ Len(Repeat(n, item)) = n
BY DEF Repeat

LEMMA R1IsResponse ==
  ASSUME NEW v \in Items
  PROVE  R1(v) \in Seq(Items) /\ Len(R1(v)) = 3 /\ Response(R1(v))
<1>1. "FF" \in Items
  BY DEF Items
<1>2. <<"FF", "FF", v>> \in Seq(Items) /\ Len(<<"FF", "FF", v>>) = 3
  BY <1>1
<1>3. QED
  BY <1>2, SizeAssumption DEF R1, Response

LEMMA DataPacketIsSeq ==
  ASSUME NEW n \in Nat
  PROVE  DataPacket(n) \in Seq(Items) /\ Len(DataPacket(n)) = n + 4
<1> DEFINE head == <<"FF", "FE">>
           data == Repeat(n, "data")
           tail == <<"crc", "crc">>
<1>1. head \in Seq(Items) /\ Len(head) = 2 /\ tail \in Seq(Items) /\ Len(tail) = 2
  BY DEF Items
<1>2. data \in Seq(Items) /\ Len(data) = n
  BY RepeatIsSeq DEF Items
<1>3. DataPacket(n) = (head \o data) \o tail
  BY DEF DataPacket
<1> HIDE DEF head, data, tail
<1> DEFINE front == head \o data
<1>4. front \in Seq(Items) /\ Len(front) = 2 + n /\ DataPacket(n) = front \o tail
  BY <1>1, <1>2, <1>3, JoinedIsSeq
<1> HIDE DEF front
<1>5. front \o tail \in Seq(Items) /\ Len(front \o tail) = n + 4
  <2>1. front \o tail \in Seq(Items) /\ Len(front \o tail) = Len(front) + Len(tail)
    BY <1>1, <1>4, JoinedIsSeq, Zenon
  <2>2. Len(front) + Len(tail) = n + 4
    BY <1>1, <1>4
  <2>3. QED
    BY <2>1, <2>2, Zenon
<1>6. QED
  BY <1>4, <1>5, Zenon

\* An answer and what follows it in one response.
LEMMA JoinedIsResponse ==
  ASSUME NEW v \in Items, NEW items \in Seq(Items), Len(items) <= BlockSize + 4
  PROVE  Response(R1(v) \o items)
<1>1. R1(v) \o items \in Seq(Items) /\ Len(R1(v) \o items) = 3 + Len(items)
  BY R1IsResponse, JoinedIsSeq
<1>2. Len(items) \in Nat
  OBVIOUS
<1>3. QED
  BY <1>1, <1>2, SizeAssumption DEF Response

LEMMA SubSeqTyped ==
  ASSUME NEW items \in Seq(Items), NEW k \in 0..Len(items)
  PROVE  SubSeq(items, 1, k) \in Seq(Items) /\ Len(SubSeq(items, 1, k)) = k
<1>1. Len(items) \in Nat /\ k \in Int /\ \A i \in 1..k : items[i] \in Items
  BY ElementOfSeq
<1>2. SubSeq(items, 1, k) \in Seq(Items) /\ Len(SubSeq(items, 1, k)) = IF 1 <= k THEN k - 1 + 1 ELSE 0
  BY <1>1, SubSeqProperties
<1>3. QED
  BY <1>1, <1>2

\* A queue that was read to its end takes a response whole; another may cut it.
LEMMA QueueBytesTyped ==
  ASSUME NEW c, CardTyped(c), NEW items, Response(items)
  PROVE  LET q == QueueBytes(c, items)
         IN  /\ CardTyped(q) /\ Kept(q, c)
             /\ q.multi_read = c.multi_read /\ q.multi_read_lba = c.multi_read_lba
             /\ q.command = c.command /\ q.command_length = c.command_length
             /\ c.unread = <<>> => q.unread = items /\ Len(q.unread) = Len(c.unread) + Len(items)
<1> DEFINE base == Compacted(c)
           room == Capacity - ResponseWrite(base)
           kept == IF room < Len(items) THEN room ELSE Len(items)
           more == SubSeq(items, 1, kept)
           unread == base.unread \o more
           q      == QueueBytes(c, items)
<1>1. /\ base \in Card /\ ResponseWrite(base) <= Capacity /\ Kept(base, c)
      /\ Len(base.write_buffer) < PacketSize
      /\ base.multi_read = c.multi_read /\ base.multi_read_lba = c.multi_read_lba
      /\ base.command = c.command /\ base.command_length = c.command_length
      /\ base.unread = c.unread
      /\ c.unread = <<>> => base.response_read = 0
  <2>1. CASE c.unread = <<>>
    <3>1. base = [c EXCEPT !.unread = <<>>, !.response_read = 0]
      BY <2>1 DEF Compacted, ClearResponse
    <3>2. <<>> \in Seq(Items) /\ Len(<<>>) = 0 /\ 0 \in 0..Capacity
      BY SizeAssumption
    <3> HIDE DEF base
    <3>3. /\ base \in Card /\ Kept(base, c)
          /\ base.multi_read = c.multi_read /\ base.multi_read_lba = c.multi_read_lba
          /\ base.command = c.command /\ base.command_length = c.command_length
          /\ base.unread = <<>> /\ base.response_read = 0 /\ base.write_buffer = c.write_buffer
      BY <3>1, <3>2 DEF CardTyped, Card, Kept
    <3>4. QED
      BY <2>1, <3>2, <3>3, SizeAssumption DEF CardTyped, ResponseWrite
  <2>2. CASE c.unread # <<>>
    BY <2>2 DEF Compacted, CardTyped, Kept
  <2>3. QED
    BY <2>1, <2>2
<1>2. /\ QueueBytes(c, items) = [base EXCEPT !.unread = unread]
  BY DEF QueueBytes, Room
<1> HIDE DEF base
<1>3. base.unread \in Seq(Items) /\ Len(base.unread) \in Nat /\ base.response_read \in Nat
  BY <1>1, SizeAssumption DEF Card
<1>4. items \in Seq(Items) /\ Len(items) \in Nat /\ Len(items) <= BlockSize + 7
  BY DEF Response
<1>5. /\ room \in Nat /\ kept \in 0..Len(items) /\ kept <= room
      /\ room = Capacity - (base.response_read + Len(base.unread))
  BY <1>1, <1>3, <1>4, SizeAssumption DEF ResponseWrite
<1>6. more \in Seq(Items) /\ Len(more) = kept
  <2> HIDE DEF kept
  <2>1. QED
    BY <1>4, <1>5, SubSeqTyped
<1>7. c.unread = <<>> => kept = Len(items)
  <2>1. c.unread = <<>> => Len(base.unread) = 0
    BY <1>1
  <2>2. QED
    BY <1>1, <1>4, <1>5, <2>1, SizeAssumption
<1>8. c.unread = <<>> => more = items
  BY <1>4, <1>7, SubSeqFull
<1> HIDE DEF more, kept, room
<1>9. unread \in Seq(Items) /\ Len(unread) = Len(base.unread) + kept
  BY <1>3, <1>6, JoinedIsSeq
<1>10. c.unread = <<>> => unread = items
  BY <1>1, <1>4, <1>8, ConcatEmptySeq
<1> HIDE DEF unread
<1>11. base.response_read + Len(unread) <= Capacity
  BY <1>3, <1>5, <1>9, SizeAssumption
<1>12. /\ q \in Card /\ q.response_read = base.response_read /\ q.unread = unread
       /\ q.multi_read = c.multi_read /\ q.multi_read_lba = c.multi_read_lba
       /\ q.command = c.command /\ q.command_length = c.command_length
       /\ Kept(q, c) /\ Len(q.write_buffer) < PacketSize
  BY <1>1, <1>2, <1>9 DEF Card, Kept
<1> HIDE DEF q
<1>13. CardTyped(q)
  BY <1>11, <1>12 DEF CardTyped, ResponseWrite
<1>14. c.unread = <<>> => Len(c.unread) = 0
  OBVIOUS
<1>15. QED
  BY <1>4, <1>10, <1>12, <1>13, <1>14 DEF q

LEMMA AnswerGood ==
  ASSUME NEW c, NEW h, Good(c, h), NEW items, Response(items)
  PROVE  LET a == Answer(c, h, items)
         IN  /\ Good(a.card, a.history) /\ Kept(a.card, c)
             /\ a.card.command_length = c.command_length
             /\ a.history.next = h.next /\ a.history.accepted = h.accepted
             /\ c.unread = <<>> => a.card.unread = items
<1> DEFINE q == QueueBytes(c, items)
           lost == Lost(c, items)
           h2 == Queued(h, c, items)
<1>1. /\ CardTyped(q) /\ Kept(q, c)
      /\ q.multi_read = c.multi_read /\ q.multi_read_lba = c.multi_read_lba
      /\ q.command = c.command /\ q.command_length = c.command_length
      /\ c.unread = <<>> => q.unread = items /\ Len(q.unread) = Len(c.unread) + Len(items)
  BY QueueBytesTyped DEF Good
<1>2. lost \in BOOLEAN /\ (c.unread = <<>> => ~lost)
  <2>1. Len(c.unread) \in Nat /\ Len(items) \in Nat
    BY DEF Good, CardTyped, Card, Response
  <2>2. QED
    BY <1>1, <2>1 DEF Lost
<1>3. h2 = IF c.unread = <<>> THEN [h EXCEPT !.piled = FALSE, !.cut = lost]
           ELSE [h EXCEPT !.piled = TRUE, !.cut = h.cut \/ lost]
  BY DEF Queued
<1> HIDE DEF lost, h2, q
<1>4. /\ h2 \in Histories /\ (h2.cut => h2.piled)
      /\ h2.next = h.next /\ h2.accepted = h.accepted
  <2>1. CASE c.unread = <<>>
    BY <1>2, <1>3, <2>1 DEF Good, Histories
  <2>2. CASE c.unread # <<>>
    <3> DEFINE cut == h.cut \/ lost
    <3>1. cut \in BOOLEAN
      OBVIOUS
    <3>2. h2 = [h EXCEPT !.piled = TRUE, !.cut = cut]
      BY <1>3, <2>2
    <3> HIDE DEF cut
    <3>3. QED
      BY <3>1, <3>2 DEF Good, Histories
  <2>3. QED
    BY <2>1, <2>2
<1>5. Good(q, h2)
  BY <1>1, <1>4 DEF Good
<1>6. Answer(c, h, items) = [card |-> q, history |-> h2]
  BY DEF Answer, q, h2
<1>7. QED
  BY <1>1, <1>4, <1>5, <1>6

-----------------------------------------------------------------------------
(* Commands.                                                               *)

LEMMA BlockAnswerIsResponse == ASSUME NEW read PROVE Response(BlockAnswer(read))
<1>1. Response(R1("20"))
  BY R1IsResponse DEF Items
<1>2. Response(R1("00") \o DataPacket(BlockSize))
  BY DataPacketIsSeq, JoinedIsResponse, SizeAssumption DEF Items
<1>3. QED
  BY <1>1, <1>2 DEF BlockAnswer

LEMMA AnswersAreResponses ==
  /\ \A v \in Items : Response(R1(v)) /\ Response(R1(v) \o Repeat(4, "info"))
  /\ Response(R1("00") \o <<"00">>) /\ Response(R1("00") \o RegisterPacket)
<1>1. ASSUME NEW v \in Items
      PROVE  Response(R1(v)) /\ Response(R1(v) \o Repeat(4, "info"))
  <2> DEFINE info == Repeat(4, "info")
  <2>1. info \in Seq(Items) /\ Len(info) = 4
    BY RepeatIsSeq DEF Items
  <2> HIDE DEF info
  <2>2. Len(info) <= BlockSize + 4
    BY <2>1, SizeAssumption
  <2>3. Response(R1(v)) /\ Response(R1(v) \o info)
    BY <2>1, <2>2, R1IsResponse, JoinedIsResponse, Zenon
  <2>4. QED
    BY <2>3 DEF info
<1>2. "00" \in Items
  BY DEF Items
<1>3. <<"00">> \in Seq(Items) /\ Len(<<"00">>) = 1
  BY <1>2
<1>4. RegisterPacket \in Seq(Items) /\ Len(RegisterPacket) = RegisterSize + 4
  BY DataPacketIsSeq, SizeAssumption DEF RegisterPacket
<1>4a. 1 <= BlockSize + 4 /\ RegisterSize + 4 <= BlockSize + 4
  BY SizeAssumption
<1>5. Response(R1("00") \o <<"00">>)
  BY <1>2, <1>3, <1>4a, JoinedIsResponse, Zenon
<1>6. Response(R1("00") \o RegisterPacket)
  BY <1>2, <1>4, <1>4a, JoinedIsResponse, Zenon
<1>7. QED
  BY <1>1, <1>5, <1>6

\* A card that is not in another stream or write than before.
Alike(d, c) ==
  /\ CardTyped(d) /\ Kept(d, c) /\ d.unread = c.unread
  /\ d.command_length = c.command_length
  /\ d.multi_read => c.multi_read
  /\ d.multi_read_lba = c.multi_read_lba

LEMMA AlikeAnswers ==
  ASSUME NEW c, NEW h, Good(c, h), NEW d, Alike(d, c), NEW items, Response(items)
  PROVE  LET a == Answer(d, h, items)
         IN  /\ Good(a.card, a.history) /\ Kept(a.card, c)
             /\ a.card.command_length = c.command_length
             /\ a.history.accepted = h.accepted
<1>1. Good(d, h)
  BY DEF Good, Alike
<1>2. QED
  BY <1>1, AnswerGood DEF Alike, Kept

LEMMA Selves == ASSUME NEW c, CardTyped(c) PROVE Alike(c, c)
BY DEF Alike, Kept

\* What a command may do: as the card was, or a write begun where none was.
Served(a, c, h, lba) ==
  /\ Good(a.card, a.history) /\ a.history.accepted = h.accepted
  /\ a.card.command_length = c.command_length
  /\ a.card.selected = c.selected /\ a.card.writable = c.writable
  /\ \/ Kept(a.card, c)
     \/ ~a.card.write_pending /\ a.card.write_buffer = c.write_buffer
     \/ /\ a.card.write_pending /\ a.card.write_lba = lba /\ InRange(lba)
        /\ a.card.write_buffer = <<>>

LEMMA DispatchAppServes ==
  ASSUME NEW c, NEW h, Good(c, h), NEW lba
  PROVE  Served(DispatchApp(c, h), c, h, lba)
<1> DEFINE done == [c EXCEPT !.app_command = FALSE]
           ready == [done EXCEPT !.idle = FALSE]
<1>1. Alike(done, c)
  BY DEF Good, CardTyped, Card, Alike, Kept, ResponseWrite
<1>2. Alike(ready, c)
  BY DEF Good, CardTyped, Card, Alike, Kept, ResponseWrite
<1>3. PICK d \in {done, ready}, items \in {R1("00"), R1("00") \o <<"00">>,
                                           R1("00") \o RegisterPacket, R1("04")} :
        DispatchApp(c, h) = Answer(d, h, items)
  BY DEF DispatchApp
<1> HIDE DEF done, ready
<1>4. Response(items) /\ Alike(d, c)
  BY <1>1, <1>2, <1>3, AnswersAreResponses DEF Items
<1>5. QED
  BY <1>3, <1>4, AlikeAnswers DEF Served, Kept

LEMMA StartStreamServes ==
  ASSUME NEW c, NEW h, Good(c, h), NEW lba \in Addresses, NEW a \in StartStream(c, h, lba)
  PROVE  Served(a, c, h, lba)
<1>0. lba \in Nat /\ lba + 1 \in Nat
  BY SizeAssumption DEF Addresses
<1>1. CASE ~InRange(lba)
  <2> DEFINE d == [c EXCEPT !.multi_read_lba = lba]
  <2>1. a = Answer(d, h, R1("20")) /\ Response(R1("20"))
    BY <1>1, AnswersAreResponses DEF StartStream, Items
  <2>2. Good(d, h) /\ Kept(d, c) /\ d.command_length = c.command_length
    BY <1>0, <1>1 DEF Good, CardTyped, Card, Kept, ResponseWrite
  <2> HIDE DEF d
  <2>3. QED
    BY <2>1, <2>2, AnswerGood DEF Served, Kept
<1>2. CASE InRange(lba)
  <2> DEFINE next == lba + 1
             d(read) == [c EXCEPT !.multi_read_lba = next, !.multi_read = read]
             g       == [h EXCEPT !.next = next]
  <2>1. PICK read \in BOOLEAN : a = Answer(d(read), g, BlockAnswer(read))
    BY <1>2 DEF StartStream, ReadResults, InRange
  <2>2. /\ Good(d(read), g) /\ Kept(d(read), c) /\ d(read).command_length = c.command_length
        /\ g.accepted = h.accepted
    <3> HIDE DEF next
    <3>1. next \in Nat
      BY <1>0 DEF next
    <3>2. QED
      BY <3>1 DEF Good, CardTyped, Card, Kept, ResponseWrite, Histories
  <2>3. Response(BlockAnswer(read))
    BY BlockAnswerIsResponse
  <2> HIDE DEF d, g
  <2>4. QED
    BY <2>1, <2>2, <2>3, AnswerGood DEF Served, Kept
<1>3. QED
  BY <1>1, <1>2

LEMMA StartWriteServes ==
  ASSUME NEW c, NEW h, Good(c, h), ~c.write_pending, NEW lba \in Addresses, NEW multi \in BOOLEAN
  PROVE  Served(StartWrite(c, h, lba, multi), c, h, lba)
<1>0. lba \in Nat /\ <<>> \in Seq({"token", "crc"} \cup Fills) /\ Len(<<>>) < PacketSize
  BY SizeAssumption DEF Addresses, PacketSize
<1>1. CASE ~InRange(lba)
  <2> DEFINE d == [c EXCEPT !.write_lba = lba]
  <2>1. StartWrite(c, h, lba, multi) = Answer(d, h, R1("20")) /\ Response(R1("20"))
    BY <1>1, AnswersAreResponses DEF StartWrite, Items
  <2>2. /\ Good(d, h) /\ ~d.write_pending /\ d.write_buffer = c.write_buffer
        /\ d.selected = c.selected /\ d.writable = c.writable
        /\ d.command_length = c.command_length
    BY <1>0 DEF Good, CardTyped, Card, ResponseWrite
  <2> HIDE DEF d
  <2>3. QED
    BY <2>1, <2>2, AnswerGood DEF Served, Kept
<1>2. CASE InRange(lba)
  <2> DEFINE d == [c EXCEPT !.write_lba = lba, !.write_pending = TRUE,
                            !.write_multi = multi, !.write_buffer = <<>>]
  <2>1. StartWrite(c, h, lba, multi) = Answer(d, h, R1("00")) /\ Response(R1("00"))
    BY <1>2, AnswersAreResponses DEF StartWrite, Items
  <2>2. /\ Good(d, h) /\ d.write_pending /\ d.write_buffer = <<>> /\ d.write_lba = lba
        /\ d.selected = c.selected /\ d.writable = c.writable
        /\ d.command_length = c.command_length
    BY <1>0 DEF Good, CardTyped, Card, ResponseWrite
  <2> HIDE DEF d
  <2>3. QED
    BY <1>2, <2>1, <2>2, AnswerGood DEF Served, Kept
<1>3. QED
  BY <1>1, <1>2

LEMMA DispatchServes ==
  ASSUME NEW c, NEW h, Good(c, h), ~c.write_pending, NEW lba \in Addresses,
         NEW a \in Dispatch(c, h, lba)
  PROVE  Served(a, c, h, lba)
<1> DEFINE Simple == \E d, items : Alike(d, c) /\ Response(items) /\ a = Answer(d, h, items)
<1>0. Simple => Served(a, c, h, lba)
  BY AlikeAnswers DEF Served, Kept
<1>1. CASE c.app_command
  BY <1>1, DispatchAppServes DEF Dispatch
<1>2. CASE ~c.app_command /\ c.command = 0
  <2> DEFINE d == [c EXCEPT !.idle = TRUE, !.multi_read = FALSE]
  <2>1. Alike(d, c)
    BY DEF Good, CardTyped, Card, Alike, Kept, ResponseWrite
  <2>2. a = Answer(d, h, R1("01")) /\ Response(R1("01"))
    BY <1>2, AnswersAreResponses DEF Dispatch, Items
  <2>3. QED
    BY <1>0, <2>1, <2>2
<1>3. CASE ~c.app_command /\ c.command = 1
  <2> DEFINE d == [c EXCEPT !.idle = FALSE]
  <2>1. Alike(d, c)
    BY DEF Good, CardTyped, Card, Alike, Kept, ResponseWrite
  <2>2. a = Answer(d, h, R1("00")) /\ Response(R1("00"))
    BY <1>3, AnswersAreResponses DEF Dispatch, Items
  <2>3. QED
    BY <1>0, <2>1, <2>2
<1>4. CASE ~c.app_command /\ c.command \in {8, 58}
  <2>1. PICK v \in {"00", "01"} : a = Answer(c, h, R1(v) \o Repeat(4, "info"))
    BY <1>4 DEF Dispatch, IdleR1
  <2>2. Response(R1(v) \o Repeat(4, "info"))
    BY AnswersAreResponses DEF Items
  <2>3. QED
    BY <1>0, <2>1, <2>2, Selves DEF Good
<1>5. CASE ~c.app_command /\ c.command \in {9, 10}
  <2>1. a = Answer(c, h, R1("00") \o RegisterPacket)
    BY <1>5 DEF Dispatch
  <2>2. QED
    BY <1>0, <2>1, AnswersAreResponses, Selves DEF Good
<1>6. CASE ~c.app_command /\ c.command = 12
  <2> DEFINE d == ClearResponse([c EXCEPT !.multi_read = FALSE])
             g == Forgotten(h)
  <2>1. /\ Good(d, g) /\ Kept(d, c) /\ d.command_length = c.command_length
        /\ g.accepted = h.accepted
    <3>1. d = [c EXCEPT !.multi_read = FALSE, !.unread = <<>>, !.response_read = 0]
      BY DEF ClearResponse
    <3>2. <<>> \in Seq(Items) /\ Len(<<>>) = 0 /\ 0 \in 0..Capacity
      BY SizeAssumption
    <3> HIDE DEF d
    <3>3. /\ d \in Card /\ Kept(d, c) /\ d.command_length = c.command_length
          /\ d.response_read = 0 /\ d.unread = <<>> /\ ~d.multi_read
      BY <3>1, <3>2 DEF Good, CardTyped, Card, Kept
    <3>4. CardTyped(d)
      BY <3>2, <3>3, SizeAssumption DEF Good, CardTyped, ResponseWrite, Kept
    <3>5. g \in Histories /\ g.accepted = h.accepted /\ ~g.cut
      BY DEF Good, Forgotten, Histories
    <3>6. QED
      BY <3>3, <3>4, <3>5 DEF Good
  <2>2. a = Answer(d, g, R1("00")) /\ Response(R1("00"))
    BY <1>6, AnswersAreResponses DEF Dispatch, StopStream, Items
  <2> HIDE DEF d, g
  <2>3. QED
    BY <2>1, <2>2, AnswerGood DEF Served, Kept
<1>7. CASE ~c.app_command /\ c.command = 13
  <2>1. a = Answer(c, h, R1("00") \o <<"00">>)
    BY <1>7 DEF Dispatch
  <2>2. QED
    BY <1>0, <2>1, AnswersAreResponses, Selves DEF Good
<1>8. CASE ~c.app_command /\ c.command \in {16, 59}
  <2>1. a = Answer(c, h, R1("00")) /\ Response(R1("00"))
    BY <1>8, AnswersAreResponses DEF Dispatch, Items
  <2>2. QED
    BY <1>0, <2>1, Selves DEF Good
<1>9. CASE ~c.app_command /\ c.command = 17
  <2>1. a \in {Answer(c, h, BlockAnswer(read)) : read \in ReadResults(lba)}
    BY <1>9 DEF Dispatch
  <2>2. PICK read : a = Answer(c, h, BlockAnswer(read))
    BY <2>1
  <2>3. QED
    BY <1>0, <2>2, BlockAnswerIsResponse, Selves DEF Good
<1>10. CASE ~c.app_command /\ c.command = 18
  BY <1>10, StartStreamServes DEF Dispatch
<1>11. CASE ~c.app_command /\ c.command \in {24, 25}
  <2> DEFINE multi == c.command = 25
  <2>1. a = StartWrite(c, h, lba, multi)
    BY <1>11 DEF Dispatch
  <2>2. multi \in BOOLEAN
    OBVIOUS
  <2> HIDE DEF multi
  <2>3. QED
    BY <2>1, <2>2, StartWriteServes
<1>12. CASE ~c.app_command /\ c.command = 55
  <2> DEFINE d == [c EXCEPT !.app_command = TRUE]
  <2>1. Alike(d, c)
    BY DEF Good, CardTyped, Card, Alike, Kept, ResponseWrite
  <2>2. PICK v \in {"00", "01"} : a = Answer(d, h, R1(v))
    BY <1>12 DEF Dispatch, IdleR1
  <2>3. Response(R1(v))
    BY AnswersAreResponses DEF Items
  <2>4. QED
    BY <1>0, <2>1, <2>2, <2>3
<1>13. CASE ~c.app_command /\ c.command \notin {0, 1, 8, 58, 9, 10, 12, 13, 16, 59, 17, 18, 24, 25, 55}
  <2>1. PICK v \in {"04", "05"} : a = Answer(c, h, R1(v))
    BY <1>13 DEF Dispatch
  <2>2. Response(R1(v))
    BY AnswersAreResponses DEF Items
  <2>3. QED
    BY <1>0, <2>1, <2>2, Selves DEF Good
<1>14. QED
  BY <1>1, <1>2, <1>3, <1>4, <1>5, <1>6, <1>7, <1>8, <1>9, <1>10, <1>11, <1>12, <1>13

-----------------------------------------------------------------------------
(* The invariant.                                                          *)

\* The data bytes taken of a packet so far are what the host fills it with.
Uniform(buffer, f) == \A i \in 2..Len(buffer) : i <= BlockSize + 1 => buffer[i] = f

IInv == TypeOK /\ ResponseWhole /\ StreamInOrder /\ Uniform(card.write_buffer, fill)

Images == [0..(Blocks - 1) -> {Fresh, Broken} \cup Fills]
Sound ==
  /\ host \in Hosts /\ Good(card, history) /\ image \in Images /\ fill \in Fills
  /\ Uniform(card.write_buffer, fill)

LEMMA SoundIsInv == IInv <=> Sound
BY DEF IInv, TypeOK, ResponseWhole, StreamInOrder, Sound, Good, CardTyped, Histories, Images

LEMMA SoundNext ==
  ASSUME Sound, host' = host, Good(card', history'), image' \in Images, fill' \in Fills,
         Uniform(card'.write_buffer, fill')
  PROVE  IInv'
<1>1. Sound'
  BY DEF Sound, Good, CardTyped, Card, ResponseWrite, PacketSize, Histories, InRange, Images,
         Items, Uniform
<1>2. QED
  BY <1>1, SoundIsInv, PTL

LEMMA NoBuffer ==
  /\ <<>> \in Seq({"token", "crc"} \cup Fills) /\ Len(<<>>) = 0 /\ Len(<<>>) < PacketSize
  /\ \A f : Uniform(<<>>, f)
BY SizeAssumption DEF PacketSize, Uniform

-----------------------------------------------------------------------------
(* The steps, each with what SdVolume sees of it.                          *)

NoWrite == [active |-> FALSE, lba |-> 0, multi |-> FALSE]

\* A step in which the card goes on waiting for the same byte of a command.
SameLength == card'.command_length = card.command_length

\* A step that SdVolume does not see.
Unseen ==
  /\ image' = image /\ Job(card') = Job(card) /\ card'.selected = card.selected
  /\ card'.writable = card.writable /\ history'.accepted = history.accepted

LEMMA KeptIsUnseen ==
  ASSUME Kept(card', card), image' = image, history'.accepted = history.accepted
  PROVE  Unseen
BY DEF Kept, Unseen, Job

LEMMA Known ==
  ASSUME IInv
  PROVE  /\ Sound /\ host \in Hosts /\ Good(card, history) /\ CardTyped(card) /\ card \in Card
         /\ history \in Histories /\ image \in Images /\ fill \in Fills
         /\ Uniform(card.write_buffer, fill)
BY SoundIsInv DEF Sound, Good, CardTyped

\* A card that is cleared holds nothing unread.
LEMMA ClearedGood ==
  ASSUME NEW c, NEW h, Good(c, h)
  PROVE  /\ Good(ClearResponse(c), h) /\ Kept(ClearResponse(c), c)
         /\ ClearResponse(c).unread = <<>> /\ ClearResponse(c).multi_read = c.multi_read
         /\ ClearResponse(c).multi_read_lba = c.multi_read_lba
         /\ ClearResponse(c).command_length = c.command_length
<1> DEFINE d == ClearResponse(c)
<1>1. d = [c EXCEPT !.unread = <<>>, !.response_read = 0]
  BY DEF ClearResponse
<1>2. <<>> \in Seq(Items) /\ Len(<<>>) = 0 /\ 0 \in 0..Capacity
  BY SizeAssumption
<1> HIDE DEF d
<1>3. /\ d \in Card /\ Kept(d, c) /\ d.multi_read = c.multi_read
      /\ d.multi_read_lba = c.multi_read_lba /\ d.command_length = c.command_length
      /\ d.response_read = 0 /\ d.unread = <<>>
  BY <1>1, <1>2 DEF Good, CardTyped, Card, Kept
<1>4. CardTyped(d)
  BY <1>2, <1>3, SizeAssumption DEF Good, CardTyped, ResponseWrite, Kept
<1>5. QED
  BY <1>3, <1>4 DEF Good, d

LEMMA ForgottenGood ==
  ASSUME NEW c, NEW h, Good(c, h)
  PROVE  Good(c, Forgotten(h)) /\ Forgotten(h).next = h.next /\ Forgotten(h).accepted = h.accepted
BY DEF Good, Forgotten, Histories

LEMMA ReadGood ==
  ASSUME NEW c, NEW h, Good(c, h), c.unread # <<>>
  PROVE  Good(Read(c), h) /\ Kept(Read(c), c) /\ Read(c).command_length = c.command_length
<1> DEFINE rest == Tail(c.unread)
           next == c.response_read + 1
<1>1. /\ c.unread \in Seq(Items) /\ c.response_read \in 0..Capacity
      /\ c.response_read + Len(c.unread) <= Capacity
  BY DEF Good, CardTyped, Card, ResponseWrite
<1>2. /\ rest \in Seq(Items) /\ Len(rest) = Len(c.unread) - 1 /\ Len(c.unread) \in Nat
      /\ Len(rest) \in Nat
  BY <1>1
<1> HIDE DEF rest
<1>3. next \in 0..Capacity /\ next + Len(rest) <= Capacity
  BY <1>1, <1>2, SizeAssumption
<1>4. Read(c) = [c EXCEPT !.unread = rest, !.response_read = next]
  BY DEF Read, rest
<1> HIDE DEF next
<1> DEFINE d == Read(c)
<1> HIDE DEF d
<1>5. /\ d \in Card /\ Kept(d, c) /\ d.command_length = c.command_length
      /\ d.unread = rest /\ d.response_read = next
      /\ d.multi_read = c.multi_read /\ d.multi_read_lba = c.multi_read_lba
  <2>1. d = [c EXCEPT !.unread = rest, !.response_read = next] /\ c \in Card
    BY <1>4 DEF d, Good, CardTyped
  <2>2. rest \in Seq(Items) /\ next \in 0..Capacity
    BY <1>2, <1>3
  <2>3. QED
    BY <2>1, <2>2 DEF Card, Kept
<1>6. CardTyped(d)
  BY <1>3, <1>5 DEF Good, CardTyped, ResponseWrite, Kept
<1>7. QED
  BY <1>5, <1>6 DEF Good, d

LEMMA StopTokenStep == ASSUME IInv, StopToken PROVE IInv' /\ Volume!EndJob /\ SameLength
<1> DEFINE d == [card EXCEPT !.write_pending = FALSE, !.write_multi = FALSE]
           c == ClearResponse(d)
           h == Forgotten(history)
           items == <<"FF", "00", "FF">>
           a == Answer(c, h, items)
<1>1. /\ Ready /\ InGap /\ card.write_multi /\ card' = a.card /\ history' = a.history
      /\ host' = host /\ image' = image /\ fill' = fill
  BY DEF StopToken
<1>2. /\ Good(d, history) /\ ~d.write_pending /\ d.write_buffer = card.write_buffer
      /\ d.selected = card.selected /\ d.writable = card.writable
      /\ d.command_length = card.command_length
  BY Known DEF Good, CardTyped, Card, ResponseWrite
<1> HIDE DEF d
<1>3. /\ Good(c, h) /\ Kept(c, d) /\ h.accepted = history.accepted
      /\ c.command_length = d.command_length
  BY <1>2, ClearedGood, ForgottenGood
<1> HIDE DEF c, h
<1>4. Response(items)
  BY SizeAssumption DEF Response, Items
<1> HIDE DEF items
<1>5. /\ Good(card', history') /\ Kept(card', c) /\ history'.accepted = history.accepted
      /\ card'.command_length = c.command_length
  BY <1>1, <1>3, <1>4, AnswerGood
<1>6. IInv'
  BY <1>1, <1>2, <1>3, <1>5, Known, SoundNext DEF Kept
<1>7. Volume!EndJob
  BY <1>1, <1>2, <1>3, <1>5 DEF Volume!EndJob, Volume!NoJob, Job, Kept, Ready, InGap
<1>8. QED
  BY <1>2, <1>3, <1>5, <1>6, <1>7 DEF SameLength

LEMMA PacketTokenStep == ASSUME IInv, PacketToken PROVE IInv' /\ Unseen
<1> DEFINE buffer == <<"token">>
<1>1. /\ card' = [card EXCEPT !.write_buffer = buffer]
      /\ fill' \in Fills /\ UNCHANGED <<host, image, history>>
  BY DEF PacketToken
<1>2. /\ buffer \in Seq({"token", "crc"} \cup Fills) /\ Len(buffer) = 1 /\ Len(buffer) < PacketSize
      /\ Uniform(buffer, fill')
  BY SizeAssumption DEF PacketSize, Uniform
<1> HIDE DEF buffer
<1>3. /\ Good(card', history) /\ card'.write_buffer = buffer
      /\ card'.selected = card.selected /\ card'.writable = card.writable
      /\ card'.write_pending = card.write_pending /\ card'.write_multi = card.write_multi
      /\ card'.write_lba = card.write_lba
  BY <1>1, <1>2, Known DEF Good, CardTyped, Card, ResponseWrite
<1>4. IInv'
  BY <1>1, <1>2, <1>3, Known, SoundNext
<1>5. QED
  BY <1>1, <1>3, <1>4 DEF Unseen, Job

LEMMA PacketByteStep == ASSUME IInv, PacketByte PROVE IInv' /\ Unseen
<1> DEFINE old == card.write_buffer
           byte == IF Len(old) <= BlockSize THEN fill ELSE "crc"
           buffer == Append(old, byte)
<1>1. /\ card' = [card EXCEPT !.write_buffer = buffer]
      /\ old # <<>> /\ Len(old) < PacketSize - 1
      /\ UNCHANGED <<host, image, fill, history>>
  BY DEF PacketByte
<1>2. old \in Seq({"token", "crc"} \cup Fills) /\ Len(old) \in Nat /\ byte \in {"token", "crc"} \cup Fills
  BY Known DEF Card
<1>3. /\ buffer \in Seq({"token", "crc"} \cup Fills) /\ Len(buffer) = Len(old) + 1
      /\ \A i \in 1..Len(old) : buffer[i] = old[i]
      /\ buffer[Len(old) + 1] = byte
  <2> HIDE DEF byte, old
  <2>1. QED
    BY <1>2
<1>4. Len(buffer) < PacketSize
  BY <1>1, <1>2, <1>3, SizeAssumption DEF PacketSize
<1> HIDE DEF buffer
<1>5. Uniform(buffer, fill)
  <2>1. SUFFICES ASSUME NEW i \in 2..Len(buffer), i <= BlockSize + 1 PROVE buffer[i] = fill
    BY DEF Uniform
  <2>2. CASE i <= Len(old)
    <3>1. i \in 2..Len(old) /\ i \in 1..Len(old)
      BY <1>2, <2>2
    <3>2. QED
      BY <1>3, <2>1, <3>1, Known DEF Uniform
  <2>3. CASE i > Len(old)
    <3>1. i = Len(old) + 1 /\ Len(old) <= BlockSize
      BY <1>2, <1>3, <2>1, <2>3, SizeAssumption
    <3>2. QED
      BY <1>3, <3>1
  <2>4. QED
    BY <1>2, <2>2, <2>3
<1>6. /\ Good(card', history) /\ card'.write_buffer = buffer
      /\ card'.selected = card.selected /\ card'.writable = card.writable
      /\ card'.write_pending = card.write_pending /\ card'.write_multi = card.write_multi
      /\ card'.write_lba = card.write_lba
  BY <1>1, <1>3, <1>4, Known DEF Good, CardTyped, Card, ResponseWrite
<1>7. IInv'
  BY <1>1, <1>5, <1>6, Known, SoundNext
<1>8. QED
  BY <1>1, <1>6, <1>7 DEF Unseen, Job

\* Its data bytes are all alike, so a packet is one of the contents the host
\* may write.
LEMMA ContentOfPacket ==
  ASSUME IInv, Len(card.write_buffer) = PacketSize - 1
  PROVE  Content(PacketData(Append(card.write_buffer, "crc"))) \in Fills
<1> DEFINE old  == card.write_buffer
           all  == Append(old, "crc")
           data == PacketData(all)
           Is(f) == \A i \in DOMAIN data : data[i] = f
<1>1. old \in Seq({"token", "crc"} \cup Fills) /\ Len(old) = BlockSize + 2 /\ BlockSize \in Nat \ {0}
  BY Known, SizeAssumption DEF Card, PacketSize
<1>2. /\ \A i \in 1..Len(old) : all[i] = old[i]
      /\ all \in Seq({"token", "crc"} \cup Fills) /\ Len(all) = Len(old) + 1
  BY <1>1
<1> HIDE DEF all
<1>3. \A i \in 2..(BlockSize + 1) : all[i] = fill
  <2>1. TAKE i \in 2..(BlockSize + 1)
  <2>2. i \in 2..Len(old) /\ i \in 1..Len(old) /\ i <= BlockSize + 1
    BY <1>1
  <2>3. old[i] = fill
    BY <2>2, Known DEF Uniform
  <2>4. QED
    BY <1>2, <2>2, <2>3
<1>4. /\ data \in Seq({fill}) /\ Len(data) = BlockSize
      /\ \A i \in 1..BlockSize : data[i] = fill
  <2>1. 2 \in Int /\ BlockSize + 1 \in Int /\ \A i \in 2..(BlockSize + 1) : all[i] \in {fill}
    BY <1>1, <1>3
  <2>2. /\ SubSeq(all, 2, BlockSize + 1) \in Seq({fill})
        /\ Len(SubSeq(all, 2, BlockSize + 1)) =
             IF 2 <= BlockSize + 1 THEN (BlockSize + 1) - 2 + 1 ELSE 0
    BY <2>1, SubSeqProperties
  <2>3. data \in Seq({fill}) /\ Len(data) = BlockSize
    BY <1>1, <2>2 DEF PacketData
  <2> HIDE DEF data
  <2>4. \A i \in 1..BlockSize : data[i] \in {fill}
    BY <2>3
  <2>5. QED
    BY <2>3, <2>4
<1> HIDE DEF data
<1>5. DOMAIN data = 1..BlockSize /\ 1 \in DOMAIN data
  BY <1>1, <1>4
<1>6. Is(fill)
  BY <1>4, <1>5
<1>7. \A f : Is(f) => f = fill
  BY <1>4, <1>5
<1>8. fill \in Fills
  BY Known
<1>9. (CHOOSE f \in Fills : Is(f)) \in Fills
  BY <1>6, <1>8
<1>10. QED
  BY <1>6, <1>8, <1>9 DEF Content, data, all

LEMMA PacketEndStep ==
  ASSUME IInv, PacketEnd
  PROVE  IInv' /\ (Volume!Commit \/ Volume!Refuse) /\ SameLength
<1> DEFINE lba   == card.write_lba
           data  == PacketData(Append(card.write_buffer, "crc"))
           empty == [card EXCEPT !.write_buffer = <<>>]
           h     == IF card.write_multi THEN Forgotten(history) ELSE history
<1>1. PICK r \in WriteResults(lba, data) :
        LET c == AfterPacket(empty, r.written)
            a == Answer(c, [h EXCEPT !.accepted = r.written],
                        <<IF r.written THEN "05" ELSE "0D", "00", "FF">>)
        IN  card' = a.card /\ history' = a.history /\ image' = r.image
  BY DEF PacketEnd
<1>2. /\ Ready /\ card.write_pending /\ Len(card.write_buffer) = PacketSize - 1
      /\ UNCHANGED <<host, fill>>
  BY DEF PacketEnd
<1> DEFINE c == AfterPacket(empty, r.written)
           g == [h EXCEPT !.accepted = r.written]
           items == <<IF r.written THEN "05" ELSE "0D", "00", "FF">>
           a == Answer(c, g, items)
<1>3. card' = a.card /\ history' = a.history /\ image' = r.image
  BY <1>1
<1>4. lba \in Nat /\ image \in Images /\ card.writable \in BOOLEAN /\ card.write_multi \in BOOLEAN
  BY Known DEF Card
<1>5. \/ /\ r.written = TRUE /\ card.writable /\ InRange(lba)
         /\ r.image = [image EXCEPT ![lba] = Content(data)]
      \/ /\ r.written = FALSE
         /\ \/ r.image = image
            \/ card.writable /\ InRange(lba) /\ r.image = [image EXCEPT ![lba] = Broken]
  <2> DEFINE full == [image EXCEPT ![lba] = Content(data)]
             part == [image EXCEPT ![lba] = Broken]
  <2>1. \/ r = [written |-> FALSE, image |-> image]
        \/ card.writable /\ InRange(lba) /\ r = [written |-> TRUE, image |-> full]
        \/ card.writable /\ InRange(lba) /\ r = [written |-> FALSE, image |-> part]
    BY DEF WriteResults
  <2> HIDE DEF full, part
  <2>2. \/ r.written = TRUE /\ card.writable /\ InRange(lba) /\ r.image = full
        \/ r.written = FALSE /\ r.image = image
        \/ r.written = FALSE /\ card.writable /\ InRange(lba) /\ r.image = part
    <3>1. CASE r = [written |-> FALSE, image |-> image]
      BY <3>1
    <3>2. CASE card.writable /\ InRange(lba) /\ r = [written |-> TRUE, image |-> full]
      BY <3>2
    <3>3. CASE card.writable /\ InRange(lba) /\ r = [written |-> FALSE, image |-> part]
      BY <3>3
    <3>4. QED
      BY <2>1, <3>1, <3>2, <3>3
  <2>3. QED
    BY <2>2 DEF full, part
<1>6. Content(data) \in Fills
  BY <1>2, ContentOfPacket
<1>7. r.written \in BOOLEAN /\ r.image \in Images
  <2>1. r.written \in BOOLEAN
    BY <1>5
  <2>2. InRange(lba) => lba \in 0..(Blocks - 1)
    BY <1>4, SizeAssumption DEF InRange
  <2> HIDE DEF data, lba
  <2>3. QED
    BY <1>4, <1>5, <1>6, <2>1, <2>2 DEF Images
<1> HIDE DEF data
<1>8. /\ Good(empty, h) /\ empty.write_buffer = <<>> /\ empty.write_pending /\ empty.write_lba = lba
      /\ empty.write_multi = card.write_multi /\ empty.selected = card.selected
      /\ empty.writable = card.writable /\ empty.command_length = card.command_length
  <2>1. /\ Good(empty, history) /\ empty.write_buffer = <<>> /\ empty.write_pending
        /\ empty.write_lba = lba
        /\ empty.write_multi = card.write_multi /\ empty.selected = card.selected
        /\ empty.writable = card.writable /\ empty.command_length = card.command_length
    BY <1>2, Known, NoBuffer DEF Good, CardTyped, Card, ResponseWrite
  <2> HIDE DEF empty
  <2>2. QED
    BY <2>1, ForgottenGood
<1> HIDE DEF empty, h
<1>9. /\ Good(c, h) /\ c.write_buffer = <<>> /\ c.selected = card.selected
      /\ c.writable = card.writable /\ c.command_length = card.command_length
      /\ IF card.write_multi
         THEN c.write_pending /\ c.write_multi /\ c.write_lba = lba + 1
         ELSE ~c.write_pending
  <2>1. CASE card.write_multi
    <3> DEFINE next == lba + 1
               d == [empty EXCEPT !.write_lba = next]
    <3>1. next \in Nat
      BY <1>4
    <3>2. c = ClearResponse(d)
      BY <1>8, <2>1 DEF AfterPacket
    <3> HIDE DEF next
    <3>3. /\ Good(d, h) /\ d.write_buffer = <<>> /\ d.write_pending /\ d.write_multi
          /\ d.write_lba = next /\ d.selected = card.selected /\ d.writable = card.writable
          /\ d.command_length = card.command_length
      BY <1>8, <2>1, <3>1 DEF Good, CardTyped, Card, ResponseWrite
    <3> HIDE DEF d, c
    <3>4. QED
      BY <2>1, <3>2, <3>3, ClearedGood DEF Kept, next
  <2>2. CASE ~card.write_multi
    <3>1. c = [empty EXCEPT !.write_pending = FALSE]
      BY <1>8, <2>2 DEF AfterPacket
    <3> HIDE DEF c
    <3>2. /\ Good(c, h) /\ c.write_buffer = <<>> /\ c.selected = card.selected
          /\ c.writable = card.writable /\ ~c.write_pending
          /\ c.command_length = card.command_length
      BY <1>8, <3>1 DEF Good, CardTyped, Card, ResponseWrite
    <3>3. QED
      BY <2>2, <3>2
  <2>3. QED
    BY <2>1, <2>2
<1> HIDE DEF c
<1>10. Good(c, g) /\ g.accepted = r.written
  BY <1>7, <1>9 DEF Good, Histories
<1> HIDE DEF g
<1>11. Response(items)
  <2>1. PICK v \in Items : items = <<v, "00", "FF">>
    BY DEF Items
  <2>2. QED
    BY <2>1, SizeAssumption DEF Response, Items
<1> HIDE DEF items
<1>12. /\ Good(card', history') /\ Kept(card', c) /\ history'.accepted = r.written
       /\ card'.command_length = c.command_length
  BY <1>3, <1>10, <1>11, AnswerGood
<1>13. Uniform(card'.write_buffer, fill)
  BY <1>9, <1>12, NoBuffer DEF Kept
<1>14. IInv'
  BY <1>2, <1>3, <1>7, <1>12, <1>13, Known, SoundNext
<1>15. /\ Job(card).active /\ Job(card).lba = lba /\ Job(card).multi = card.write_multi
       /\ Job(card') = IF Job(card).multi THEN [Job(card) EXCEPT !.lba = lba + 1] ELSE NoWrite
  BY <1>2, <1>9, <1>12 DEF Job, Kept, NoWrite
<1>16. card'.selected = card.selected /\ card'.writable = card.writable /\ card.selected
  BY <1>2, <1>9, <1>12 DEF Kept, Ready
<1> HIDE DEF lba
<1>17. ASSUME r.written PROVE Volume!Commit
  BY <1>3, <1>5, <1>6, <1>12, <1>15, <1>16, <1>17
  DEF Volume!Commit, Volume!Advanced, Volume!NoJob, NoWrite, InRange
<1>18. ASSUME ~r.written PROVE Volume!Refuse
  BY <1>3, <1>5, <1>12, <1>15, <1>16, <1>18
  DEF Volume!Refuse, Volume!Advanced, Volume!NoJob, NoWrite, InRange
<1>19. QED
  BY <1>9, <1>12, <1>14, <1>17, <1>18 DEF SameLength

LEMMA CommandStartStep == ASSUME IInv, CommandStart PROVE IInv' /\ (Volume!EndJob \/ Unseen)
<1>1. /\ Ready /\ UNCHANGED <<host, image, fill, history>>
      /\ ~card.write_pending \/ (InGap /\ card.write_multi)
      /\ \E n \in host.commands :
           card' = [card EXCEPT !.write_pending = FALSE, !.write_multi = FALSE,
                                !.command = n, !.command_length = 1]
  BY DEF CommandStart, TakesCommand
<1>2. PICK n \in host.commands :
        card' = [card EXCEPT !.write_pending = FALSE, !.write_multi = FALSE,
                             !.command = n, !.command_length = 1]
  BY <1>1
<1>3. 1 \in 0..(CommandSize - 1) /\ n \in host.commands \cup {99}
  BY SizeAssumption
<1>4. /\ Good(card', history) /\ card'.write_buffer = card.write_buffer
      /\ card'.selected = card.selected /\ card'.writable = card.writable
      /\ ~card'.write_pending
  BY <1>2, <1>3, Known DEF Good, CardTyped, Card, ResponseWrite
<1>5. IInv'
  BY <1>1, <1>4, Known, SoundNext
<1>6. CASE ~card.write_pending
  BY <1>1, <1>4, <1>5, <1>6 DEF Unseen, Job
<1>7. CASE card.write_pending /\ card.write_multi
  BY <1>1, <1>4, <1>5, <1>7 DEF Volume!EndJob, Volume!NoJob, Job, Ready
<1>8. QED
  BY <1>1, <1>6, <1>7 DEF InGap

LEMMA CommandByteStep == ASSUME IInv, CommandByte PROVE IInv' /\ Unseen
<1> DEFINE length == card.command_length + 1
<1>1. /\ card' = [card EXCEPT !.command_length = length]
      /\ card.command_length \in 1..(CommandSize - 2)
      /\ UNCHANGED <<host, image, fill, history>>
  BY DEF CommandByte
<1>2. length \in 0..(CommandSize - 1)
  BY <1>1, SizeAssumption
<1> HIDE DEF length
<1>3. Good(card', history) /\ Kept(card', card)
  BY <1>1, <1>2, Known DEF Good, CardTyped, Card, ResponseWrite, Kept
<1>4. IInv'
  BY <1>1, <1>3, Known, SoundNext DEF Kept
<1>5. QED
  BY <1>1, <1>3, <1>4, KeptIsUnseen

LEMMA CommandEndStep == ASSUME IInv, CommandEnd PROVE IInv' /\ (Volume!Begin \/ Unseen)
<1> DEFINE c == [card EXCEPT !.command_length = 0]
<1>1. /\ Ready /\ ~card.write_pending /\ UNCHANGED <<host, image, fill>>
      /\ \E lba \in Addresses : \E a \in Dispatch(c, history, lba) :
           card' = [a.card EXCEPT !.command = 99] /\ history' = a.history
  BY DEF CommandEnd
<1>2. Good(c, history) /\ Kept(c, card)
  <2>1. 0 \in 0..(CommandSize - 1)
    BY SizeAssumption
  <2>2. QED
    BY <2>1, Known DEF Good, CardTyped, Card, ResponseWrite, Kept
<1> HIDE DEF c
<1>3. PICK lba \in Addresses : \E a \in Dispatch(c, history, lba) :
        card' = [a.card EXCEPT !.command = 99] /\ history' = a.history
  BY <1>1
<1>4. PICK a \in Dispatch(c, history, lba) :
        card' = [a.card EXCEPT !.command = 99] /\ history' = a.history
  BY <1>3
<1>5. Served(a, c, history, lba)
  BY <1>1, <1>2, DispatchServes DEF Kept
<1>6. Good(card', history') /\ Kept(card', a.card) /\ history'.accepted = history.accepted
  BY <1>4, <1>5 DEF Served, Good, CardTyped, Card, ResponseWrite, Kept
<1>7. /\ card'.selected = card.selected /\ card'.writable = card.writable
      /\ \/ Kept(card', card)
         \/ ~card'.write_pending /\ card'.write_buffer = card.write_buffer
         \/ /\ card'.write_pending /\ card'.write_lba = lba /\ InRange(lba)
            /\ card'.write_buffer = <<>>
  BY <1>2, <1>5, <1>6 DEF Served, Kept
<1>8. Uniform(card'.write_buffer, fill)
  BY <1>7, Known, NoBuffer DEF Kept
<1>9. IInv'
  BY <1>1, <1>6, <1>8, Known, SoundNext
<1>10. CASE Kept(card', card)
  BY <1>1, <1>6, <1>9, <1>10, KeptIsUnseen
<1>11. CASE ~card'.write_pending
  BY <1>1, <1>6, <1>7, <1>9, <1>11 DEF Unseen, Job
<1>12. CASE card'.write_pending /\ card'.write_lba = lba /\ InRange(lba)
  <2>1. lba \in 0..(Blocks - 1) /\ card'.write_multi \in BOOLEAN
    BY <1>6, <1>12, SizeAssumption DEF InRange, Addresses, Good, CardTyped, Card
  <2>2. Job(card') = [active |-> TRUE, lba |-> lba, multi |-> card'.write_multi]
    BY <1>12 DEF Job
  <2>3. ~Job(card).active
    BY <1>1 DEF Job
  <2>4. Volume!Begin
    BY <1>1, <1>6, <1>7, <2>1, <2>2, <2>3 DEF Volume!Begin, Ready
  <2>5. QED
    BY <1>9, <2>4
<1>13. QED
  BY <1>7, <1>10, <1>11, <1>12

LEMMA ReadResponseStep == ASSUME IInv, ReadResponse PROVE IInv' /\ Unseen /\ SameLength
<1>1. UNCHANGED <<host, image, fill>>
  BY DEF ReadResponse
<1>2. /\ Good(card', history') /\ Kept(card', card) /\ history'.accepted = history.accepted
      /\ card'.command_length = card.command_length
  <2>1. CASE card.unread # <<>> /\ card' = Read(card) /\ UNCHANGED history
    BY <2>1, Known, ReadGood
  <2>2. CASE card' = ClearResponse(card) /\ history' = Forgotten(history)
    BY <2>2, Known, ClearedGood, ForgottenGood
  <2>3. QED
    BY <2>1, <2>2 DEF ReadResponse
<1>3. IInv'
  BY <1>1, <1>2, Known, SoundNext DEF Kept
<1>4. QED
  BY <1>1, <1>2, <1>3, KeptIsUnseen DEF SameLength

\* A stream that goes on is at the block that comes next.
LEMMA ReadStreamStep == ASSUME IInv, ReadStream PROVE IInv' /\ Unseen /\ SameLength
<1> DEFINE c == ClearResponse(card)
           f == Forgotten(history)
<1>1. /\ Ready /\ card.unread = <<>> /\ card.multi_read /\ UNCHANGED <<host, image, fill>>
      /\ \E read \in ReadResults(card.multi_read_lba) :
           LET s == StreamItems(c, read)
               a == Answer(s.card, [f EXCEPT !.next = @ + 1], s.items)
           IN  card' = Read(a.card) /\ history' = a.history
  BY DEF ReadStream
<1>2. PICK read \in ReadResults(card.multi_read_lba) :
        LET s == StreamItems(c, read)
            a == Answer(s.card, [f EXCEPT !.next = @ + 1], s.items)
        IN  card' = Read(a.card) /\ history' = a.history
  BY <1>1
<1> DEFINE items == <<"FF", "FF">> \o IF read THEN DataPacket(BlockSize)
                                      ELSE <<"FF", IF InRange(c.multi_read_lba) THEN "01" ELSE "08">>
           lba == c.multi_read_lba + 1
           next == f.next + 1
           d == [c EXCEPT !.multi_read_lba = lba, !.multi_read = read]
           h == [f EXCEPT !.next = next]
           a == Answer(d, h, items)
<1>3. card' = Read(a.card) /\ history' = a.history
  BY <1>2 DEF StreamItems
<1>4. /\ Good(c, f) /\ Kept(c, card) /\ c.unread = <<>> /\ c.multi_read
      /\ f.accepted = history.accepted /\ c.command_length = card.command_length
  BY <1>1, Known, ClearedGood, ForgottenGood
<1>5. read \in BOOLEAN
  <2>1. InRange(card.multi_read_lba) \in BOOLEAN
    BY DEF InRange
  <2>2. read = InRange(card.multi_read_lba) \/ read = FALSE
    BY DEF ReadResults
  <2>3. QED
    BY <2>1, <2>2, Zenon
<1>6. /\ items \in Seq(Items) /\ Len(items) <= BlockSize + 7 /\ items # <<>>
  <2> DEFINE ff == <<"FF", "FF">>
             rest == IF read THEN DataPacket(BlockSize)
                     ELSE <<"FF", IF InRange(c.multi_read_lba) THEN "01" ELSE "08">>
  <2>0. items = ff \o rest
    OBVIOUS
  <2> HIDE DEF items
  <2>1. ff \in Seq(Items) /\ Len(ff) = 2
    BY DEF Items
  <2>2. rest \in Seq(Items) /\ Len(rest) <= BlockSize + 4 /\ Len(rest) \in Nat
    <3>1. CASE read
      BY <3>1, DataPacketIsSeq, SizeAssumption
    <3>2. CASE ~read
      <4>1. rest = <<"FF", "01">> \/ rest = <<"FF", "08">>
        BY <3>2
      <4> HIDE DEF rest
      <4>2. rest \in Seq(Items) /\ Len(rest) = 2
        <5>1. PICK v \in {"01", "08"} : rest = <<"FF", v>>
          BY <4>1
        <5>2. "FF" \in Items /\ v \in Items
          BY DEF Items
        <5>3. QED
          BY <5>1, <5>2
      <4>3. QED
        BY <4>2, SizeAssumption
    <3>3. QED
      BY <3>1, <3>2
  <2> HIDE DEF ff, rest
  <2>3. ff \o rest \in Seq(Items) /\ Len(ff \o rest) = Len(ff) + Len(rest)
    BY <2>1, <2>2, JoinedIsSeq, Zenon
  <2>4. ff \o rest # <<>>
    BY <2>1, <2>2, <2>3
  <2>5. Len(ff) + Len(rest) <= BlockSize + 7
    BY <2>1, <2>2, SizeAssumption
  <2>6. items \in Seq(Items) /\ items # <<>> /\ Len(items) = Len(ff) + Len(rest)
    BY <2>0, <2>3, <2>4, Zenon
  <2>7. QED
    BY <2>5, <2>6
<1> HIDE DEF items
<1>7. /\ Good(d, h) /\ Kept(d, card) /\ d.unread = <<>> /\ h.accepted = history.accepted
      /\ d.command_length = card.command_length
  <2>1. c.multi_read_lba \in Nat /\ f.next \in Nat
    BY <1>4 DEF Good, CardTyped, Card, Histories
  <2>2. /\ lba \in Nat /\ next \in Nat
        /\ lba = next \/ ~InRange(lba)
    BY <1>4, <2>1, SizeAssumption DEF Good, InRange
  <2> HIDE DEF lba, next
  <2>3. h \in Histories /\ ~(h.cut /\ ~h.piled) /\ h.next = next /\ h.accepted = f.accepted
    BY <1>4, <2>2 DEF Good, Histories
  <2> HIDE DEF h, c
  <2>4. /\ CardTyped(d) /\ Kept(d, c) /\ d.unread = <<>> /\ d.multi_read_lba = lba
        /\ d.command_length = c.command_length
    BY <1>4, <1>5, <2>2 DEF Good, CardTyped, Card, ResponseWrite, Kept
  <2>5. QED
    BY <1>4, <2>2, <2>3, <2>4 DEF Good, Kept
<1> HIDE DEF d, h
<1>8. /\ Good(a.card, a.history) /\ Kept(a.card, d) /\ a.card.unread = items
      /\ a.history.accepted = h.accepted /\ a.card.command_length = d.command_length
  BY <1>6, <1>7, AnswerGood DEF Response
<1> HIDE DEF a
<1>9. /\ Good(card', history') /\ Kept(card', card) /\ history'.accepted = history.accepted
      /\ card'.command_length = card.command_length
  BY <1>3, <1>6, <1>7, <1>8, ReadGood DEF Kept
<1>10. IInv'
  BY <1>1, <1>9, Known, SoundNext DEF Kept
<1>11. QED
  BY <1>1, <1>9, <1>10, KeptIsUnseen DEF SameLength

LEMMA InitialGood ==
  ASSUME NEW w \in Writable, host \in Hosts
  PROVE  /\ Good(InitialCard(w), InitialHistory) /\ InitialCard(w).write_buffer = <<>>
         /\ ~InitialCard(w).write_pending /\ ~InitialCard(w).selected
         /\ InitialCard(w).writable = w /\ w \in BOOLEAN /\ InitialHistory.accepted
         /\ FreshImage \in Images
<1> DEFINE c == InitialCard(w)
<1>1. w \in BOOLEAN
  BY HostAssumption
<1>2. /\ 0 \in 0..(CommandSize - 1) /\ 0 \in 0..Capacity /\ <<>> \in Seq(Items) /\ Len(<<>>) = 0
  BY SizeAssumption
<1>3. /\ c \in Card /\ c.write_buffer = <<>> /\ ~c.write_pending /\ ~c.selected /\ c.writable = w
      /\ c.unread = <<>> /\ c.response_read = 0 /\ ~c.multi_read
  BY <1>1, <1>2, NoBuffer DEF InitialCard, Card
<1> HIDE DEF c
<1>4. CardTyped(c)
  BY <1>2, <1>3, NoBuffer, SizeAssumption DEF CardTyped, ResponseWrite
<1>5. InitialHistory \in Histories /\ ~InitialHistory.cut /\ InitialHistory.accepted
  BY DEF InitialHistory, Histories
<1>6. FreshImage \in Images
  BY DEF FreshImage, Images
<1>7. QED
  BY <1>1, <1>3, <1>4, <1>5, <1>6 DEF Good, c

LEMMA OpenImageStep == ASSUME IInv, OpenImage PROVE IInv' /\ Volume!Insert
<1>1. PICK w \in Writable : card' = InitialCard(w)
  BY DEF OpenImage
<1>2. image' = FreshImage /\ history' = InitialHistory /\ UNCHANGED <<host, fill>>
  BY DEF OpenImage
<1>3. IInv'
  BY <1>1, <1>2, InitialGood, Known, NoBuffer, SoundNext
<1>4. Volume!Insert
  BY <1>1, <1>2, InitialGood, Known
  DEF Volume!Insert, Volume!NoBlock, Volume!NoJob, Job, FreshImage, InitialHistory
<1>5. QED
  BY <1>3, <1>4

LEMMA ChipSelectStep == ASSUME IInv, ChipSelect PROVE IInv' /\ Volume!Select
<1> DEFINE cleared == ClearResponse(card)
           on == ~card.selected
           c == [cleared EXCEPT !.command = 99, !.command_length = 0, !.write_pending = FALSE,
                                !.write_multi = FALSE, !.write_buffer = <<>>]
<1>1. /\ card' = [c EXCEPT !.selected = ~c.selected] /\ history' = Forgotten(history)
      /\ UNCHANGED <<host, image, fill>>
  BY DEF ChipSelect, Deselected
<1>2. Good(cleared, Forgotten(history)) /\ Kept(cleared, card)
  BY Known, ClearedGood, ForgottenGood
<1> HIDE DEF cleared
<1>3. 0 \in 0..(CommandSize - 1)
  BY SizeAssumption
<1>4. /\ Good(c, Forgotten(history)) /\ ~c.write_pending /\ c.write_buffer = <<>>
      /\ c.selected = cleared.selected /\ c.writable = cleared.writable
  <2> DEFINE silent == [cleared EXCEPT !.command = 99, !.command_length = 0]
  <2>0. /\ silent \in Card /\ silent.selected = cleared.selected
        /\ silent.writable = cleared.writable /\ silent.unread = cleared.unread
        /\ silent.response_read = cleared.response_read
        /\ silent.multi_read = cleared.multi_read
        /\ silent.multi_read_lba = cleared.multi_read_lba
    <3>1. cleared \in Card /\ 99 \in host.commands \cup {99}
      BY <1>2 DEF Good, CardTyped
    <3>2. QED
      BY <1>3, <3>1 DEF Card
  <2>0a. c = [silent EXCEPT !.write_pending = FALSE, !.write_multi = FALSE, !.write_buffer = <<>>]
    BY <2>0 DEF Card
  <2> HIDE DEF silent, c
  <2>1. /\ c \in Card /\ ~c.write_pending /\ c.write_buffer = <<>>
        /\ c.selected = cleared.selected /\ c.writable = cleared.writable
        /\ c.unread = cleared.unread /\ c.response_read = cleared.response_read
        /\ c.multi_read = cleared.multi_read /\ c.multi_read_lba = cleared.multi_read_lba
    <3> DEFINE none == <<>>
    <3>1. none \in Seq({"token", "crc"} \cup Fills)
      OBVIOUS
    <3>2. c = [silent EXCEPT !.write_pending = FALSE, !.write_multi = FALSE,
                              !.write_buffer = none]
      BY <2>0a
    <3>3. silent \in Card
      BY <2>0
    <3> HIDE DEF none
    <3>4. c \in Card
      BY <3>1, <3>2, <3>3 DEF Card
    <3>5. ~c.write_pending /\ c.write_buffer = <<>>
      BY <2>0, <2>0a, <3>1 DEF Card
    <3>6. /\ c.selected = cleared.selected /\ c.writable = cleared.writable
          /\ c.unread = cleared.unread /\ c.response_read = cleared.response_read
          /\ c.multi_read = cleared.multi_read /\ c.multi_read_lba = cleared.multi_read_lba
      BY <2>0, <2>0a DEF Card
    <3>7. QED
      BY <3>4, <3>5, <3>6, Zenon
  <2>2. CardTyped(c)
    BY <1>2, <2>1, NoBuffer DEF Good, CardTyped, ResponseWrite
  <2>3. QED
    BY <1>2, <2>1, <2>2 DEF Good
<1> HIDE DEF c
<1>5. /\ Good(card', history') /\ ~card'.write_pending /\ card'.write_buffer = <<>>
      /\ card'.selected = ~card.selected /\ card'.writable = card.writable
  <2>1. c.selected = card.selected /\ c.writable = card.writable /\ c.selected \in BOOLEAN
    BY <1>2, <1>4 DEF Kept, Good, CardTyped, Card
  <2> DEFINE other == ~c.selected
  <2>2. other \in BOOLEAN
    OBVIOUS
  <2>3. card' = [c EXCEPT !.selected = other]
    BY <1>1
  <2> HIDE DEF other
  <2>4. /\ Good(card', history') /\ ~card'.write_pending /\ card'.write_buffer = <<>>
        /\ card'.selected = other /\ card'.writable = card.writable
    BY <1>1, <1>4, <2>1, <2>2, <2>3 DEF Good, CardTyped, Card, ResponseWrite
  <2>5. QED
    BY <2>1, <2>4 DEF other
<1>6. IInv'
  BY <1>1, <1>5, Known, NoBuffer, SoundNext
<1>7. Volume!Select
  BY <1>1, <1>5, Known, ForgottenGood DEF Volume!Select, Volume!NoJob, Job
<1>8. QED
  BY <1>6, <1>7

LEMMA UnseenIsStutter == Unseen => UNCHANGED Volume!vvars
BY DEF Unseen, Volume!vvars

\* Every step keeps the invariant, and is a step or a stutter of SdVolume.
LEMMA StepRefines == ASSUME IInv, [Next]_vars PROVE IInv' /\ [Volume!VolumeNext]_(Volume!vvars)
<1>1. CASE OpenImage
  BY <1>1, OpenImageStep DEF Volume!VolumeNext
<1>2. CASE ChipSelect
  BY <1>2, ChipSelectStep DEF Volume!VolumeNext
<1>3. CASE StopToken
  BY <1>3, StopTokenStep DEF Volume!VolumeNext
<1>4. CASE PacketToken \/ PacketByte
  BY <1>4, PacketTokenStep, PacketByteStep, UnseenIsStutter
<1>5. CASE PacketEnd
  BY <1>5, PacketEndStep DEF Volume!VolumeNext
<1>6. CASE CommandStart
  BY <1>6, CommandStartStep, UnseenIsStutter DEF Volume!VolumeNext
<1>7. CASE CommandByte
  BY <1>7, CommandByteStep, UnseenIsStutter
<1>8. CASE CommandEnd
  BY <1>8, CommandEndStep, UnseenIsStutter DEF Volume!VolumeNext
<1>9. CASE ReadResponse \/ ReadStream
  BY <1>9, ReadResponseStep, ReadStreamStep, UnseenIsStutter
<1>10. CASE UNCHANGED vars
  <2>1. card' = card /\ image' = image /\ fill' = fill /\ history' = history /\ host' = host
    BY <1>10 DEF vars
  <2>2. Good(card', history') /\ Kept(card', card)
    BY <2>1, Known DEF Kept
  <2>3. IInv'
    BY <2>1, <2>2, Known, SoundNext DEF Kept
  <2>4. Unseen
    BY <2>1, <2>2, KeptIsUnseen
  <2>5. QED
    BY <2>3, <2>4, UnseenIsStutter
<1>11. QED
  BY <1>1, <1>2, <1>3, <1>4, <1>5, <1>6, <1>7, <1>8, <1>9, <1>10 DEF Next

LEMMA InitRefines == Init => IInv /\ Volume!VolumeInit
<1> SUFFICES ASSUME Init PROVE IInv /\ Volume!VolumeInit
  OBVIOUS
<1>1. PICK w \in Writable : card = InitialCard(w)
  BY DEF Init
<1>2. host \in Hosts /\ image = FreshImage /\ history = InitialHistory
  BY DEF Init
<1>3. fill \in Fills
  BY HostAssumption DEF Init
<1>4. Sound
  BY <1>1, <1>2, <1>3, InitialGood, NoBuffer DEF Sound
<1>5. Volume!VolumeInit
  BY <1>1, <1>2, InitialGood
  DEF Volume!VolumeInit, Volume!NoBlock, Volume!NoJob, Job, FreshImage, InitialHistory
<1>6. QED
  BY <1>4, <1>5, SoundIsInv

LEMMA Invariance == Spec => []IInv
<1>1. Init => IInv
  BY InitRefines
<1>2. IInv /\ [Next]_vars => IInv'
  BY StepRefines
<1>3. QED
  BY <1>1, <1>2, PTL DEF Spec

-----------------------------------------------------------------------------
(* The stop command.                                                       *)

\* A step that ends CMD12, and what the host then finds in the queue.
Stops ==
  /\ card.command = 12 /\ card.command_length = CommandSize - 1
  /\ ~card.app_command /\ card'.command_length = 0 /\ card'.selected = card.selected
Heard == card'.unread = R1("00") \/ ~card'.selected

LEMMA StopChangesLength == ASSUME Stops PROVE ~SameLength
<1>1. CommandSize - 1 # 0
  BY SizeAssumption
<1>2. QED
  BY <1>1, Zenon DEF Stops, SameLength

LEMMA StopCommand == ASSUME IInv, Stops, CommandEnd PROVE Heard
<1> DEFINE c == [card EXCEPT !.command_length = 0]
           e == [c EXCEPT !.multi_read = FALSE]
           d == ClearResponse(e)
<1>1. PICK lba \in Addresses : \E a \in Dispatch(c, history, lba) :
        card' = [a.card EXCEPT !.command = 99]
  BY DEF CommandEnd
<1>2. PICK a \in Dispatch(c, history, lba) : card' = [a.card EXCEPT !.command = 99]
  BY <1>1
<1>3. c.command = 12 /\ ~c.app_command
  BY Known DEF Card, Stops
<1>4. Good(c, history)
  <2>1. 0 \in 0..(CommandSize - 1)
    BY SizeAssumption
  <2>2. /\ c \in Card /\ c.unread = card.unread /\ c.response_read = card.response_read
        /\ c.write_buffer = card.write_buffer /\ c.multi_read = card.multi_read
        /\ c.multi_read_lba = card.multi_read_lba
    BY <2>1, Known DEF Card
  <2> HIDE DEF c
  <2>3. CardTyped(c)
    BY <2>2, Known DEF CardTyped, ResponseWrite
  <2>4. QED
    BY <2>2, <2>3, Known DEF Good
<1>5. a = Answer(d, Forgotten(history), R1("00"))
  <2> HIDE DEF c
  <2>1. QED
    BY <1>3 DEF Dispatch, StopStream
<1> HIDE DEF c
<1>6. Good(e, history)
  <2>1. c \in Card
    BY <1>4 DEF Good, CardTyped
  <2>2. /\ e \in Card /\ e.unread = c.unread /\ e.response_read = c.response_read
        /\ e.write_buffer = c.write_buffer /\ ~e.multi_read
    BY <2>1 DEF Card
  <2> HIDE DEF e
  <2>3. CardTyped(e)
    BY <1>4, <2>2 DEF Good, CardTyped, ResponseWrite
  <2>4. QED
    BY <1>4, <2>2, <2>3 DEF Good
<1> HIDE DEF e
<1>7. Good(d, Forgotten(history)) /\ d.unread = <<>>
  BY <1>6, ClearedGood, ForgottenGood
<1> HIDE DEF d
<1>8. Response(R1("00"))
  BY R1IsResponse DEF Items
<1>9. a.card.unread = R1("00") /\ a.card \in Card
  BY <1>5, <1>7, <1>8, AnswerGood DEF Good, CardTyped
<1>10. QED
  BY <1>2, <1>9 DEF Card, Heard

LEMMA StopStep == ASSUME IInv, [Next]_vars, Stops PROVE Heard
<1>1. ~SameLength
  BY StopChangesLength
<1>2. CASE OpenImage
  BY <1>2, Known, InitialGood DEF OpenImage, Heard
<1>3. CASE ChipSelect
  <2>1. card'.selected = ~card.selected /\ card'.selected = card.selected
    BY <1>3, ChipSelectStep DEF Volume!Select, Stops
  <2>2. QED
    BY <2>1
<1>4. CASE StopToken \/ PacketEnd \/ ReadResponse \/ ReadStream
  BY <1>1, <1>4, StopTokenStep, PacketEndStep, ReadResponseStep, ReadStreamStep
<1>5. CASE PacketToken \/ PacketByte
  <2>1. card \in Card
    BY Known
  <2>2. SameLength
    BY <1>5, <2>1 DEF PacketToken, PacketByte, SameLength, Card
  <2>3. QED
    BY <1>1, <2>2
<1>6. CASE CommandStart
  <2>1. CommandSize - 1 # 0
    BY SizeAssumption
  <2>2. QED
    BY <1>6, <2>1 DEF CommandStart, Stops
<1>7. CASE CommandByte
  BY <1>7, SizeAssumption DEF CommandByte, Stops
<1>8. CASE CommandEnd
  BY <1>8, StopCommand
<1>9. CASE UNCHANGED vars
  BY <1>1, <1>9 DEF vars, SameLength
<1>10. QED
  BY <1>2, <1>3, <1>4, <1>5, <1>6, <1>7, <1>8, <1>9 DEF Next

-----------------------------------------------------------------------------
(* The theorems.                                                           *)

\* Every field of NextSdCard has the values the code gives it; the queue of
\* responses and the buffer of a packet stay within their arrays.
THEOREM TypeCorrect == Spec => []TypeOK
<1>1. IInv => TypeOK
  BY DEF IInv
<1>2. QED
  BY <1>1, Invariance, PTL

\* The card implements SdVolume: whatever bytes cross the bus, a block changes
\* only in a write that was begun, at its address, whole or reported as failed.
THEOREM KeepsItsVolume == Spec => KeepsVolume
<1>1. Init => Volume!VolumeInit
  BY InitRefines
<1>2. IInv /\ [Next]_vars => [Volume!VolumeNext]_(Volume!vvars)
  BY StepRefines
<1>3. QED
  BY <1>1, <1>2, Invariance, PTL DEF Spec, KeepsVolume, Volume!VolumeSpec

\* A response read to its end before the next is asked for is whole, a stream
\* goes on with the block after the last one it sent, and after CMD12 nothing of
\* the stream is in front of its answer.
THEOREM ResponsesReachHost == Spec => ResponsesArrive
<1>1. IInv => ResponseWhole /\ StreamInOrder
  BY DEF IInv
<1>2. IInv /\ [Next]_vars => [Stops => Heard]_vars
  BY StopStep
<1>3. (Stops => Heard) <=>
      (card.command = 12 /\ card.command_length = CommandSize - 1
       /\ ~card.app_command /\ card'.command_length = 0 /\ card'.selected = card.selected
       => card'.unread = R1("00") \/ ~card'.selected)
  BY DEF Stops, Heard
<1>4. QED
  BY <1>1, <1>2, <1>3, Invariance, PTL DEF Spec, StopIsHeard, ResponsesArrive
=============================================================================
