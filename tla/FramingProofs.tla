---------------------------- MODULE FramingProofs ----------------------------
(***************************************************************************)
(* Proofs about Framing for any header, word and buffer size and any       *)
(* capacity of at least two buffer sizes: packets arrive whole and in      *)
(* order, and there is always room to receive.                             *)
(*                                                                         *)
(* Sent counts the bytes handed to the system, Received those in the       *)
(* receive buffer so far.  The invariant pins every byte on its way to its *)
(* place in the stream: the wire holds Received..Sent-1 (WireInv), the     *)
(* unread part of the buffer the bytes before Received (BufInv), and the   *)
(* next byte to parse is the first one of the next packet (HandInv).       *)
(***************************************************************************)
EXTENDS Framing, SequenceTheorems, TLAPS

\* The stream position of the sender's event.
EventPos == IF index <= taken THEN packets[index].at + offset ELSE EndOf(taken)

Sent == IF spc = "consume" THEN EventPos + left ELSE EventPos

Received == Sent - Len(wire)

\* The packets follow each other; each is one of the protocol or a foreign one.
PacketInv ==
    /\ \A i \in 1..Len(packets) :
          \/ /\ packets[i].payload \in Payloads
             /\ packets[i].len = packets[i].payload + Header
             /\ packets[i].claims = packets[i].len
          \/ /\ packets[i].payload = NoByte
             /\ packets[i].len = Header /\ packets[i].claims < Header
    /\ \A i \in 1..Len(packets) : packets[i].at = EndOf(i - 1)
    /\ \A i, j \in 1..Len(packets) : i < j => packets[i].at + packets[i].len <= packets[j].at

SendInv ==
    /\ index <= taken => offset < packets[index].len
    /\ index > taken => offset = 0
    /\ spc = "post" => index <= taken \/ taken < Len(packets)
    /\ spc = "posted" => index <= taken
    /\ spc = "consume" => EventPos + left <= EndOf(taken)

WireInv == \A k \in 1..Len(wire) : wire[k] = Received + k - 1

BufInv ==
    /\ Received >= DataSize
    /\ \A k \in readPos..(writePos - 1) : buf[k] = Received - writePos + k

HandInv ==
    /\ PacketsInOrder
    /\ Received - writePos + Address = EndOf(Len(handled))

RoomInv ==
    /\ RoomToReceive
    /\ rpc = "posted" => processLen = 0
    /\ rpc = "read" /\ open => Unread < BufferSize

IndInv ==
    /\ TypeOK /\ PacketInv /\ SendInv /\ WireInv /\ BufInv /\ HandInv /\ RoomInv
    /\ NoFalseClose

-----------------------------------------------------------------------------
(* Facts about the operators *)

\* The buffer holds at least two largest packets.
LEMMA CapacityFacts ==
  /\ Capacity \in Nat /\ Capacity >= 2 * BufferSize
  /\ BufferSize \in Nat /\ BufferSize > 0 /\ Header \in Nat /\ Header > 0
  /\ Header <= BufferSize /\ Word \in Nat /\ Word <= BufferSize
<1>1. BufferSize \in Nat /\ Factor \in Nat /\ Factor >= 2 BY FramingAssumption
<1>2. Factor * BufferSize \in Nat BY <1>1
<1>3. Factor * BufferSize >= 2 * BufferSize BY <1>1
<1> QED BY <1>1, <1>2, <1>3, FramingAssumption DEF Capacity

\* For a packet of the protocol the 16-bit arithmetic of MakeSendBuffer is exact.
LEMMA PacketSizeExact ==
  ASSUME NEW p \in Payloads
  PROVE  p \in Nat /\ PacketSize(p) = p + Header /\ p + Header \in 0..(Word - 1)
<1>1. p \in Nat /\ Header \in Nat /\ Word \in Nat /\ p + Header < Word
  BY FramingAssumption, Zenon
<1>2. p % Word = p BY <1>1
<1>3. (p + Header) % Word = p + Header BY <1>1
<1> QED BY <1>1, <1>2, <1>3 DEF PacketSize

\* The counters and lengths are numbers.
LEMMA Types ==
  ASSUME TypeOK
  PROVE  /\ Len(packets) \in Nat /\ DOMAIN packets = 1..Len(packets)
         /\ Len(wire) \in Nat /\ Len(handled) \in Nat /\ DOMAIN handled = 1..Len(handled)
         /\ taken \in Nat /\ taken <= Len(packets)
         /\ index \in Nat /\ 1 <= index /\ index <= taken + 1
         /\ offset \in Nat /\ left \in Nat
         /\ writePos \in Nat /\ writePos <= Capacity
         /\ readPos \in Nat /\ readPos <= writePos
         /\ processLen \in Nat /\ processLen <= writePos - readPos
<1>1. Capacity \in Nat BY CapacityFacts
<1>2. packets \in Seq(Packet) /\ wire \in Seq(Nat) /\ handled \in Seq(Call)
  BY Zenon DEF TypeOK
<1>3. /\ Len(packets) \in Nat /\ DOMAIN packets = 1..Len(packets)
      /\ Len(wire) \in Nat /\ Len(handled) \in Nat /\ DOMAIN handled = 1..Len(handled)
  BY <1>2
<1> QED BY <1>1, <1>3 DEF TypeOK

\* The fields of a packet are numbers.
LEMMA PacketTypes ==
  ASSUME TypeOK, NEW i \in 1..Len(packets)
  PROVE  /\ packets[i] \in Packet
         /\ packets[i].at \in Nat /\ packets[i].len \in Nat
         /\ packets[i].claims \in Nat /\ packets[i].claims < Word
<1>1. packets[i] \in Packet BY DEF TypeOK
<1> QED BY <1>1, CapacityFacts DEF Packet

\* The end of the stream after n packets is a position.
LEMMA EndOfType ==
  ASSUME TypeOK, NEW n \in 0..Len(packets)
  PROVE  EndOf(n) \in Nat
<1>1. n = 0 \/ n \in 1..Len(packets) BY Types
<1> QED BY <1>1, PacketTypes DEF EndOf

\* No packet is empty, and one with a possible size is of the protocol.
LEMMA PacketLength ==
  ASSUME TypeOK, PacketInv, NEW i \in 1..Len(packets)
  PROVE  /\ packets[i].len >= Header
         /\ packets[i].claims >= Header =>
              /\ packets[i].claims = packets[i].len
              /\ packets[i].len = packets[i].payload + Header
<1>1. packets[i].claims \in Nat BY PacketTypes
<1>2. CASE /\ packets[i].payload \in Payloads
           /\ packets[i].len = packets[i].payload + Header
           /\ packets[i].claims = packets[i].len
  <2>1. packets[i].payload \in Nat BY <1>2, FramingAssumption, Zenon
  <2> QED BY <1>2, <2>1, CapacityFacts
<1>3. CASE packets[i].len = Header /\ packets[i].claims < Header
  BY <1>1, <1>3, CapacityFacts
<1> QED BY <1>2, <1>3 DEF PacketInv

\* The stream grows with the packets.
LEMMA EndOfMonotone ==
  ASSUME TypeOK, PacketInv, NEW n \in 0..Len(packets)
  PROVE  EndOf(n) <= EndOf(Len(packets))
<1>0. Len(packets) \in Nat /\ EndOf(n) \in Nat /\ EndOf(Len(packets)) \in Nat
  BY Types, EndOfType, SMTT(30)
<1>1. CASE n = 0 BY <1>0, <1>1 DEF EndOf
<1>2. CASE n = Len(packets) BY <1>0, <1>2
<1>3. CASE n # 0 /\ n < Len(packets)
  <2>1. n \in 1..Len(packets) /\ Len(packets) \in 1..Len(packets) BY <1>0, <1>3
  <2>2. packets[n].at + packets[n].len <= packets[Len(packets)].at
    BY <1>3, <2>1, Zenon DEF PacketInv
  <2> QED BY <1>0, <2>1, <2>2, PacketTypes DEF EndOf
<1> QED BY <1>0, <1>1, <1>2, <1>3

\* The positions are numbers and no byte is sent that was not written.
LEMMA Positions ==
  ASSUME TypeOK, PacketInv, SendInv, BufInv
  PROVE  /\ EventPos \in Nat /\ Sent \in Nat /\ Received \in Nat
         /\ Sent <= EndOf(taken) /\ EndOf(taken) <= EndOf(Len(packets))
         /\ EndOf(taken) \in Nat /\ EndOf(Len(packets)) \in Nat
<1>2. /\ EndOf(taken) \in Nat /\ EndOf(taken) <= EndOf(Len(packets))
      /\ EndOf(Len(packets)) \in Nat
  BY Types, EndOfType, EndOfMonotone, SMTT(30)
<1>3. EventPos \in Nat /\ EventPos <= EndOf(taken)
  <2>1. CASE index <= taken
    <3>1. index \in 1..Len(packets) /\ taken \in 1..Len(packets)
      BY Types, <2>1
    <3>2. /\ packets[index].at \in Nat /\ packets[index].len \in Nat
          /\ packets[taken].at \in Nat /\ packets[taken].len \in Nat
      BY <3>1, PacketTypes, Zenon
    <3>3. packets[index].at + packets[index].len <= packets[taken].at + packets[taken].len
      <4>1. CASE index = taken BY <3>2, <4>1
      <4>2. CASE index < taken
        <5>1. packets[index].at + packets[index].len <= packets[taken].at
          BY <3>1, <4>2, Zenon DEF PacketInv
        <5> QED BY <3>2, <5>1
      <4> QED BY <2>1, <4>1, <4>2, Types
    <3>4. EndOf(taken) = packets[taken].at + packets[taken].len BY <3>1 DEF EndOf
    <3>5. offset \in Nat /\ offset < packets[index].len BY <2>1, Types DEF SendInv
    <3>6. EventPos = packets[index].at + offset BY <2>1 DEF EventPos
    <3> QED BY <3>2, <3>3, <3>4, <3>5, <3>6
  <2>2. CASE ~(index <= taken) BY <1>2, <2>2 DEF EventPos
  <2> QED BY <2>1, <2>2
<1>4. Sent \in Nat /\ Sent <= EndOf(taken) BY <1>2, <1>3, Types, SMTT(30) DEF Sent, SendInv
<1>5. Received \in Int BY <1>4, Types DEF Received
<1>6. Received >= 0 BY <1>5, Types, SMTT(30) DEF BufInv, DataSize
<1> QED BY <1>2, <1>3, <1>4, <1>5, <1>6

\* The header at the next address to parse is the next packet's.
LEMMA NextHeader ==
  ASSUME IndInv, rpc = "parse", Unread >= Header
  PROVE  /\ Len(handled) < Len(packets)
         /\ buf[Address] = packets[Len(handled) + 1].at
         /\ HeaderSizes(Address) = {packets[Len(handled) + 1].claims}
<1> DEFINE h == Len(handled)
<1> DEFINE A == EndOf(h)
<1>0. TypeOK /\ PacketInv BY DEF IndInv
<1>1. h \in Nat /\ Len(packets) \in Nat /\ h <= Len(packets)
  BY <1>0, Types, Zenon DEF IndInv, HandInv, PacketsInOrder
<1>2. Received \in Nat /\ Received <= EndOf(Len(packets))
  <2>1. /\ Received \in Nat /\ Sent \in Nat /\ Sent <= EndOf(taken)
        /\ EndOf(taken) <= EndOf(Len(packets)) /\ EndOf(taken) \in Nat
        /\ EndOf(Len(packets)) \in Nat
    BY <1>0, Positions, Zenon DEF IndInv
  <2>2. Len(wire) \in Nat BY <1>0, Types
  <2> QED BY <2>1, <2>2 DEF Received
<1>3. /\ readPos \in Nat /\ writePos \in Nat /\ processLen \in Nat
      /\ Address \in Nat /\ Address + Header <= writePos /\ Address >= readPos
  <2>1. readPos \in Nat /\ writePos \in Nat /\ processLen \in Nat BY <1>0, Types
  <2>2. Header \in Nat BY CapacityFacts
  <2>3. writePos - readPos - processLen >= Header BY DEF Unread, DataSize
  <2> QED BY <2>1, <2>2, <2>3 DEF Address
<1>4. \A k \in 0..(Header - 1) : buf[Address + k] = A + k
  BY <1>2, <1>3, CapacityFacts DEF IndInv, BufInv, HandInv
<1>5. buf[Address] = A
  BY <1>3, <1>4, CapacityFacts DEF IndInv, BufInv, HandInv
<1>6. h < Len(packets)
  <2>1. A < Received BY <1>2, <1>3, CapacityFacts DEF IndInv, HandInv
  <2>2. EndOf(Len(packets)) \in Nat BY <1>0, <1>1, EndOfType
  <2> QED BY <1>1, <1>2, <2>1, <2>2
<1>7. packets[h + 1].at = A BY <1>1, <1>6 DEF IndInv, PacketInv
<1>8. ASSUME NEW i \in 1..Len(packets), i # h + 1 PROVE packets[i].at # A
  <2>1. /\ packets[i].at \in Nat /\ packets[i].len \in Nat /\ packets[i].len > 0
        /\ packets[h + 1].at \in Nat /\ packets[h + 1].len \in Nat /\ packets[h + 1].len > 0
    <3>1. h + 1 \in 1..Len(packets) BY <1>1, <1>6
    <3>2. /\ packets[i].at \in Nat /\ packets[i].len \in Nat
          /\ packets[h + 1].at \in Nat /\ packets[h + 1].len \in Nat
      BY <1>0, <3>1, PacketTypes, Zenon
    <3>3. packets[i].len >= Header /\ packets[h + 1].len >= Header
      BY <1>0, <3>1, PacketLength, Zenon
    <3> QED BY <3>2, <3>3, CapacityFacts, SMTT(30)
  <2>1a. h + 1 \in 1..Len(packets) BY <1>1, <1>6
  <2>2. CASE i < h + 1
    <3>1. packets[i].at + packets[i].len <= packets[h + 1].at BY <2>2, <2>1a, <1>0 DEF PacketInv
    <3> QED BY <1>7, <2>1, <3>1
  <2>3. CASE i > h + 1
    <3>1. packets[h + 1].at + packets[h + 1].len <= packets[i].at BY <2>3, <2>1a, <1>0 DEF PacketInv
    <3> QED BY <1>7, <2>1, <3>1
  <2> QED BY <1>1, <1>8, <2>2, <2>3
<1>9. Consecutive(Address, Header) BY <1>4, <1>5 DEF Consecutive
<1>10. DOMAIN packets = 1..Len(packets) BY <1>0, Types
<1> HIDE DEF A
<1>11. {i \in DOMAIN packets : packets[i].at = buf[Address] /\ Consecutive(Address, Header)}
         = {h + 1}
  BY <1>1, <1>5, <1>6, <1>7, <1>8, <1>9, <1>10
<1>12. HeaderSizes(Address) = {packets[h + 1].claims}
  BY <1>11, Zenon DEF HeaderSizes
<1> QED BY <1>5, <1>6, <1>7, <1>12

-----------------------------------------------------------------------------
(* The sender's steps *)

\* A new packet follows the last one; nothing under way is touched.
LEMMA QueueInd ==
  ASSUME IndInv, NEW len \in Nat, NEW claims \in 0..(Word - 1),
         NEW payload \in Payloads \cup {NoByte}, Queue(len, claims, payload),
         \/ payload \in Payloads /\ len = payload + Header /\ claims = len
         \/ payload = NoByte /\ len = Header /\ claims < Header
  PROVE  IndInv'
<1> DEFINE L == Len(packets)
<1> DEFINE new == [at |-> EndOf(L), len |-> len, claims |-> claims, payload |-> payload]
<1>0. TypeOK /\ PacketInv /\ SendInv /\ BufInv BY DEF IndInv
<1>1. L \in Nat /\ EndOf(L) \in Nat BY <1>0, Types, EndOfType, SMTT(30)
<1>2. new \in Packet BY <1>1 DEF Packet
<1>3. packets \in Seq(Packet) /\ packets' = Append(packets, new)
  BY <1>0, Zenon DEF TypeOK, Queue
<1> HIDE DEF new
<1>4. /\ packets' \in Seq(Packet) /\ Len(packets') = L + 1
      /\ \A i \in 1..L : packets'[i] = packets[i]
      /\ packets'[L + 1] = new
  BY <1>2, <1>3
<1>5. \A n \in 0..L : EndOf(n)' = EndOf(n) BY <1>1, <1>4 DEF EndOf
<1>6. new.at = EndOf(L) /\ new.len = len /\ new.claims = claims /\ new.payload = payload
  BY Zenon DEF new
<1>7. /\ UNCHANGED <<taken, index, offset, left, wire, recvVars>>
      /\ spc' = IF spc = "idle" THEN "post" ELSE spc
  BY Zenon DEF Queue
<1>8. EventPos' = EventPos /\ Sent' = Sent /\ Received' = Received
  <2>1. taken \in 0..L /\ (index <= taken => index \in 1..L) BY <1>0, <1>1, Types, SMTT(30)
  <2>2. EventPos' = EventPos BY <1>4, <1>5, <1>7, <2>1 DEF EventPos
  <2> QED BY <1>7, <2>2 DEF Sent, Received
<1>9. TypeOK'
  <2>1. taken' \in 0..Len(packets') BY <1>0, <1>1, <1>4, <1>7, Types, SMTT(30)
  <2> QED BY <1>0, <1>4, <1>7, <2>1 DEF TypeOK, recvVars
<1>10. PacketInv'
  <2>1. \A i \in 1..Len(packets)' : i \in 1..L \/ i = L + 1 BY <1>1, <1>4
  <2>2. ASSUME NEW i \in 1..Len(packets)'
        PROVE  \/ /\ packets'[i].payload \in Payloads
                  /\ packets'[i].len = packets'[i].payload + Header
                  /\ packets'[i].claims = packets'[i].len
               \/ /\ packets'[i].payload = NoByte
                  /\ packets'[i].len = Header /\ packets'[i].claims < Header
    BY <1>0, <1>4, <1>6, <2>1, SMTT(30) DEF PacketInv
  <2>3. ASSUME NEW i \in 1..Len(packets)' PROVE packets'[i].at = EndOf(i - 1)'
    <3>1. CASE i \in 1..L
      <4>1. i - 1 \in 0..L BY <1>1, <3>1
      <4> QED BY <1>0, <1>4, <1>5, <3>1, <4>1 DEF PacketInv
    <3>2. CASE i = L + 1
      <4>1. i - 1 = L /\ L \in 0..L BY <1>1, <3>2
      <4> QED BY <1>4, <1>5, <1>6, <3>2, <4>1
    <3> QED BY <2>1, <3>1, <3>2
  <2>4. ASSUME NEW i \in 1..Len(packets)', NEW j \in 1..Len(packets)', i < j
        PROVE  packets'[i].at + packets'[i].len <= packets'[j].at
    <3>1. i \in 1..L BY <1>1, <1>4, <2>4
    <3>2. CASE j \in 1..L BY <1>0, <1>4, <2>4, <3>1, <3>2, SMTT(30) DEF PacketInv
    <3>3. CASE j = L + 1
      <4>1. EndOf(i) = packets[i].at + packets[i].len BY <3>1 DEF EndOf
      <4>2. EndOf(i) <= EndOf(L) BY <1>0, <1>1, <3>1, EndOfMonotone
      <4> QED BY <1>4, <1>6, <3>1, <3>3, <4>1, <4>2
    <3> QED BY <2>1, <3>2, <3>3
  <2> QED BY <2>2, <2>3, <2>4 DEF PacketInv
<1>11. SendInv'
  <2>1. taken \in 0..L /\ (index <= taken => index \in 1..L) BY <1>0, <1>1, Types
  <2>2. taken' < Len(packets)' BY <1>1, <1>4, <1>7, <2>1
  <2>3. index' <= taken' => offset' < packets'[index'].len
    BY <1>0, <1>4, <1>7, <2>1, Zenon DEF SendInv
  <2>4. EndOf(taken)' = EndOf(taken) BY <1>5, <1>7, <2>1
  <2> QED BY <1>0, <1>7, <1>8, <2>2, <2>3, <2>4 DEF SendInv
<1>12. WireInv' BY <1>7, <1>8 DEF IndInv, WireInv
<1>13. BufInv' BY <1>0, <1>7, <1>8 DEF BufInv, DataSize, recvVars
<1>14. HandInv'
  <2>1. DOMAIN handled = 1..Len(handled) /\ Len(handled) \in Nat BY <1>0, Types
  <2>2. PacketsInOrder BY DEF IndInv, HandInv
  <2>3. PacketsInOrder'
    BY <1>1, <1>4, <1>7, <2>1, <2>2 DEF PacketsInOrder, recvVars
  <2>4. EndOf(Len(handled))' = EndOf(Len(handled))
    <3>1. Len(handled) \in 0..L BY <1>1, <2>1, <2>2 DEF PacketsInOrder
    <3> QED BY <1>5, <1>7, <3>1 DEF recvVars
  <2> QED BY <1>7, <1>8, <2>3, <2>4 DEF IndInv, HandInv, Address, recvVars
<1>15. RoomInv'
  BY <1>7, Zenon DEF IndInv, RoomInv, RoomToReceive, FreeSize, Unread, DataSize, recvVars
<1>16. NoFalseClose'
  <2> SUFFICES ASSUME rpc' = "closed"
               PROVE  /\ Len(handled)' < Len(packets)'
                      /\ packets'[Len(handled)' + 1].claims < Header
    BY Zenon DEF NoFalseClose
  <2>1. Len(handled) < L /\ packets[Len(handled) + 1].claims < Header
    BY <1>7, Zenon DEF IndInv, NoFalseClose, recvVars
  <2>2. Len(handled) \in Nat /\ handled' = handled BY <1>0, <1>7, Types DEF recvVars
  <2>3. Len(handled) + 1 \in 1..L BY <1>1, <2>1, <2>2
  <2> QED BY <1>1, <1>4, <2>1, <2>2, <2>3
<1> QED BY <1>9, <1>10, <1>11, <1>12, <1>13, <1>14, <1>15, <1>16 DEF IndInv

\* When the stream's counters do not move, the receiver's part is untouched by
\* a sender's step.
LEMMA SenderStep ==
  ASSUME IndInv, UNCHANGED <<packets, recvVars>>, Received' = Received
  PROVE  PacketInv' /\ BufInv' /\ HandInv' /\ RoomInv' /\ NoFalseClose'
<1> USE DEF IndInv, recvVars
<1>1. PacketInv' BY DEF PacketInv, EndOf
<1>2. BufInv' BY DEF BufInv, DataSize
<1>3. HandInv' BY DEF HandInv, PacketsInOrder, Address, EndOf
<1>4. RoomInv' BY DEF RoomInv, RoomToReceive, FreeSize, Unread, DataSize
<1>5. NoFalseClose' BY DEF NoFalseClose
<1> QED BY <1>1, <1>2, <1>3, <1>4, <1>5

\* Posting a send moves no byte.
LEMMA RegisterSendInd == IndInv /\ RegisterSend => IndInv'
<1> SUFFICES ASSUME IndInv, RegisterSend PROVE IndInv' OBVIOUS
<1>0. TypeOK /\ PacketInv /\ SendInv BY DEF IndInv
<1>1. /\ Len(packets) \in Nat /\ taken \in Nat /\ taken <= Len(packets)
      /\ index \in Nat /\ 1 <= index /\ index <= taken + 1 /\ offset \in Nat
  BY <1>0, Types, Zenon
<1>2. /\ UNCHANGED <<packets, index, offset, left, wire, recvVars>>
      /\ spc = "post" /\ spc' = "posted"
      /\ taken' = IF index <= taken THEN taken ELSE Len(packets)
  BY Zenon DEF RegisterSend, HasPendingData
<1>3. index' <= taken' BY <1>0, <1>1, <1>2 DEF SendInv
<1>4. EventPos' = EventPos /\ offset' < packets'[index'].len
  <2>1. CASE index <= taken BY <1>0, <1>2, <2>1 DEF EventPos, SendInv
  <2>2. CASE ~(index <= taken)
    <3>1. index = taken + 1 /\ offset = 0 /\ index \in 1..Len(packets)
      BY <1>0, <1>1, <1>2, <1>3, <2>2 DEF SendInv
    <3>2. packets[index].at = EndOf(taken)
      <4>1. index - 1 = taken BY <1>1, <3>1
      <4> QED BY <1>0, <3>1, <4>1 DEF PacketInv
    <3>3. packets[index].len > 0 /\ packets[index].at \in Nat
      BY <1>0, <3>1, PacketTypes, PacketLength, CapacityFacts
    <3> QED BY <1>2, <1>3, <2>2, <3>1, <3>2, <3>3 DEF EventPos
  <2> QED BY <2>1, <2>2
<1>5. Sent' = Sent /\ Received' = Received BY <1>2, <1>4 DEF Sent, Received
<1>6. TypeOK'
  <2>1. taken' \in 0..Len(packets') /\ index' \in 1..(taken' + 1) BY <1>1, <1>2, <1>3
  <2> QED BY <1>0, <1>2, <2>1 DEF TypeOK, recvVars
<1>7. SendInv' BY <1>1, <1>2, <1>3, <1>4 DEF SendInv
<1>8. WireInv' BY <1>2, <1>5 DEF IndInv, WireInv
<1> QED BY <1>2, <1>5, <1>6, <1>7, <1>8, SenderStep DEF IndInv

\* The bytes the system takes are the next ones of the stream.
LEMMA TransmitInd ==
  ASSUME IndInv, spc = "posted", NEW n \in 1..(EndOf(taken) - SendPos), Transmit(n)
  PROVE  IndInv'
<1>0. TypeOK /\ PacketInv /\ SendInv /\ BufInv BY DEF IndInv
<1>1. /\ UNCHANGED <<packets, taken, index, offset, recvVars>>
      /\ spc' = "consume" /\ left' = n
      /\ wire' = wire \o [k \in 1..n |-> SendPos + k - 1]
  BY Zenon DEF Transmit
<1>2. EventPos = SendPos /\ EventPos' = EventPos /\ Sent = EventPos
  BY <1>0, <1>1, Zenon DEF SendInv, EventPos, SendPos, EndOf, Sent
<1>3. EventPos \in Nat /\ Received \in Nat /\ EndOf(taken) \in Nat /\ n \in Nat /\ n > 0
  BY <1>0, <1>2, Positions
<1> DEFINE more == [k \in 1..n |-> SendPos + k - 1]
<1>4. more \in Seq(Nat) /\ Len(more) = n /\ \A k \in 1..n : more[k] = EventPos + k - 1
  BY <1>2, <1>3
<1>5. wire \in Seq(Nat) /\ Len(wire) \in Nat BY <1>0, Types DEF TypeOK
<1> HIDE DEF more
<1>6. /\ wire' \in Seq(Nat) /\ Len(wire') = Len(wire) + n
      /\ \A k \in 1..Len(wire) : wire'[k] = wire[k]
      /\ \A k \in 1..n : wire'[Len(wire) + k] = more[k]
  BY <1>1, <1>3, <1>4, <1>5 DEF more
<1>7. Sent' = EventPos + n BY <1>1, <1>2 DEF Sent
<1>8. Received' = Received BY <1>2, <1>3, <1>5, <1>6, <1>7 DEF Received
<1>9. TypeOK' BY <1>0, <1>1, <1>3, <1>6 DEF TypeOK, recvVars
<1>10. SendInv'
  <2>1. EndOf(taken)' = EndOf(taken) BY <1>1 DEF EndOf
  <2> QED BY <1>0, <1>1, <1>2, <1>3, <2>1 DEF SendInv
<1>11. WireInv'
  <2> SUFFICES ASSUME NEW k \in 1..Len(wire)' PROVE wire'[k] = Received + k - 1
    BY <1>8, Zenon DEF WireInv
  <2>1. CASE k \in 1..Len(wire) BY <1>6, <2>1 DEF IndInv, WireInv
  <2>2. CASE k \notin 1..Len(wire)
    <3>1. k - Len(wire) \in 1..n /\ k = Len(wire) + (k - Len(wire)) BY <1>3, <1>5, <1>6, <2>2
    <3>2. wire'[k] = EventPos + (k - Len(wire)) - 1 BY <1>4, <1>6, <3>1, Zenon
    <3> QED BY <1>2, <1>3, <1>5, <3>1, <3>2 DEF Received
  <2> QED BY <2>1, <2>2
<1> QED BY <1>1, <1>8, <1>9, <1>10, <1>11, SenderStep DEF IndInv

\* The loop of consume_sent_bytes moves the event to the byte after those sent.
LEMMA ConsumeInd == IndInv /\ Consume => IndInv'
<1> SUFFICES ASSUME IndInv, Consume PROVE IndInv' OBVIOUS
<1>0. TypeOK /\ PacketInv /\ SendInv /\ BufInv BY DEF IndInv
<1>1. /\ UNCHANGED <<packets, spc, taken, wire, recvVars>>
      /\ spc = "consume" /\ left > 0
  BY Zenon DEF Consume
<1>2. /\ Len(packets) \in Nat /\ taken \in Nat /\ taken <= Len(packets)
      /\ index \in Nat /\ 1 <= index /\ index <= taken + 1
      /\ offset \in Nat /\ left \in Nat
  BY <1>0, Types, Zenon
<1>3. index <= taken
  <2>1. EventPos \in Nat /\ EndOf(taken) \in Nat BY <1>0, Positions
  <2>2. EventPos + left <= EndOf(taken) BY <1>0, <1>1 DEF SendInv
  <2>3. index > taken => EventPos = EndOf(taken) BY <1>2 DEF EventPos
  <2> QED BY <1>1, <1>2, <2>1, <2>2, <2>3
<1>4. index \in 1..Len(packets) BY <1>2, <1>3
<1>5. packets[index].at \in Nat /\ packets[index].len \in Nat /\ offset < packets[index].len
  BY <1>0, <1>3, <1>4, PacketTypes, Zenon DEF SendInv
<1>6. EventPos = packets[index].at + offset BY <1>3 DEF EventPos
<1>7. CASE /\ left < packets[index].len - offset
           /\ offset' = offset + left /\ left' = 0 /\ index' = index
  <2>1. EventPos' = packets[index].at + offset + left
    BY <1>1, <1>2, <1>3, <1>5, <1>7, SMTT(30) DEF EventPos
  <2>2. Sent' = Sent /\ Received' = Received
    BY <1>1, <1>2, <1>5, <1>6, <1>7, <2>1, SMTT(30) DEF Sent, Received
  <2>3. TypeOK' BY <1>0, <1>1, <1>2, <1>7 DEF TypeOK, recvVars
  <2>4. SendInv'
    <3>1. EndOf(taken)' = EndOf(taken) BY <1>1 DEF EndOf
    <3>2. EventPos' + left' <= EndOf(taken)
      BY <1>0, <1>1, <1>2, <1>5, <1>6, <1>7, <2>1 DEF SendInv
    <3> QED BY <1>1, <1>2, <1>3, <1>5, <1>7, <3>1, <3>2 DEF SendInv
  <2>5. WireInv' BY <1>1, <2>2 DEF IndInv, WireInv
  <2> QED BY <1>1, <2>2, <2>3, <2>4, <2>5, SenderStep DEF IndInv
<1>8. CASE /\ left >= packets[index].len - offset
           /\ left' = left - (packets[index].len - offset)
           /\ index' = index + 1 /\ offset' = 0
  <2>0. left' \in Nat BY <1>2, <1>5, <1>8, SMTT(30)
  <2>1. EventPos' = packets[index].at + packets[index].len
    <3>1. CASE index + 1 <= taken
      <4>1. index + 1 \in 1..Len(packets) /\ (index + 1) - 1 = index BY <1>2, <3>1
      <4>2. packets[index + 1].at = EndOf(index) BY <1>0, <4>1 DEF PacketInv
      <4>3. EndOf(index) = packets[index].at + packets[index].len BY <1>4 DEF EndOf
      <4> QED BY <1>1, <1>5, <1>8, <3>1, <4>2, <4>3 DEF EventPos
    <3>2. CASE ~(index + 1 <= taken)
      <4>1. index = taken BY <1>2, <1>3, <3>2
      <4> QED BY <1>1, <1>4, <1>8, <3>2, <4>1 DEF EventPos, EndOf
    <3> QED BY <3>1, <3>2
  <2>1a. EventPos' + left' = EventPos + left
    <3>1. EventPos' = packets[index].at + packets[index].len /\ EventPos = packets[index].at + offset
      BY <1>6, <2>1, Zenon
    <3>2. left' = left - (packets[index].len - offset) BY <1>8
    <3>3. ASSUME NEW a \in Nat, NEW n \in Nat, NEW o \in Nat, NEW m \in Nat
          PROVE  (a + n) + (m - (n - o)) = (a + o) + m
      OBVIOUS
    <3>4. (packets[index].at + packets[index].len) + (left - (packets[index].len - offset))
            = (packets[index].at + offset) + left
      BY <1>2, <1>5, <3>3, SMTT(30)
    <3> QED BY <3>1, <3>2, <3>4
  <2>2. Sent' = Sent /\ Received' = Received
    BY <1>1, <2>1a, Zenon DEF Sent, Received
  <2>3. TypeOK'
    <3>1. index' \in 1..(taken' + 1) /\ offset' \in Nat BY <1>1, <1>2, <1>3, <1>8
    <3> QED BY <1>0, <1>1, <2>0, <3>1 DEF TypeOK, recvVars
  <2>4. SendInv'
    <3>1. EndOf(taken)' = EndOf(taken) BY <1>1 DEF EndOf
    <3>2. EventPos' + left' <= EndOf(taken)
      BY <1>0, <1>1, <2>1a, Zenon DEF SendInv
    <3>3. index' <= taken' => packets'[index'].len > 0
      <4>1. index + 1 <= taken => index + 1 \in 1..Len(packets) BY <1>2
      <4> QED BY <1>0, <1>1, <1>8, <4>1, PacketTypes, PacketLength, CapacityFacts
    <3> QED BY <1>1, <1>8, <3>1, <3>2, <3>3 DEF SendInv
  <2>5. WireInv' BY <1>1, <2>2 DEF IndInv, WireInv
  <2> QED BY <1>1, <2>2, <2>3, <2>4, <2>5, SenderStep DEF IndInv
<1> QED BY <1>7, <1>8 DEF Consume

\* The end of process_send moves no byte.
LEMMA ConsumedInd == IndInv /\ Consumed => IndInv'
<1> SUFFICES ASSUME IndInv, Consumed PROVE IndInv' OBVIOUS
<1>0. TypeOK /\ PacketInv /\ SendInv /\ BufInv BY DEF IndInv
<1>1. /\ UNCHANGED <<packets, taken, index, offset, left, wire, recvVars>>
      /\ spc = "consume" /\ left = 0
      /\ spc' = IF index <= taken \/ taken < Len(packets) THEN "post" ELSE "idle"
  BY Zenon DEF Consumed, AfterSend, HasPendingData
<1>2. EventPos' = EventPos /\ EventPos \in Nat BY <1>0, <1>1, Positions DEF EventPos, EndOf
<1>3. Sent' = Sent /\ Received' = Received BY <1>1, <1>2 DEF Sent, Received
<1>4. TypeOK' BY <1>0, <1>1 DEF TypeOK, recvVars
<1>5. SendInv' BY <1>0, <1>1 DEF SendInv
<1>6. WireInv' BY <1>1, <1>3 DEF IndInv, WireInv
<1> QED BY <1>1, <1>3, <1>4, <1>5, <1>6, SenderStep DEF IndInv

-----------------------------------------------------------------------------
(* The receiver's steps *)

\* A receiver's step leaves the sender's part alone.
LEMMA ReceiverStep ==
  ASSUME IndInv, UNCHANGED <<packets, sendVars>>
  PROVE  PacketInv' /\ SendInv' /\ Sent' = Sent /\ \A n : EndOf(n)' = EndOf(n)
<1> USE DEF IndInv, sendVars
<1>1. \A n : EndOf(n)' = EndOf(n) BY DEF EndOf
<1>2. EventPos' = EventPos BY <1>1 DEF EventPos
<1>3. PacketInv' BY <1>1 DEF PacketInv
<1>4. SendInv' BY <1>1, <1>2 DEF SendInv
<1>5. Sent' = Sent BY <1>2 DEF Sent
<1> QED BY <1>1, <1>3, <1>4, <1>5

\* A completed receive puts the first bytes of the wire behind the data.
LEMMA ReceiveInd == ASSUME IndInv, NEW n \in 0..Capacity, Receive(n) PROVE IndInv'
<1>0. TypeOK /\ PacketInv /\ SendInv /\ BufInv BY DEF IndInv
<1>1. /\ Len(wire) \in Nat /\ writePos \in Nat /\ readPos \in Nat /\ readPos <= writePos
      /\ Capacity \in Nat /\ Received \in Nat /\ n \in Nat
  BY <1>0, Types, CapacityFacts, Positions
<1>2. /\ rpc = "posted" /\ open /\ n <= FreeSize /\ n <= Len(wire)
      /\ UNCHANGED <<packets, sendVars, readPos, handled>>
      /\ wire' = SubSeq(wire, n + 1, Len(wire))
      /\ writePos' = writePos + n /\ processLen' = 0
  BY Zenon DEF Receive
<1>3. n > 0 /\ rpc' = "parse" /\ open' \in BOOLEAN
  <2>1. FreeSize >= BufferSize /\ FreeSize # 0
    BY <1>1, <1>2, CapacityFacts DEF IndInv, RoomInv, RoomToReceive, FreeSize
  <2>2. n > 0 /\ rpc' = "parse" BY <1>1, <2>1 DEF Receive
  <2>3. open' = (n > 0) BY DEF Receive
  <2>4. (n > 0) \in BOOLEAN OBVIOUS
  <2>5. open' \in BOOLEAN BY <2>3, <2>4, Zenon
  <2> QED BY <2>2, <2>5
<1>4. writePos + n <= Capacity BY <1>1, <1>2 DEF FreeSize
<1>5. /\ wire' \in Seq(Nat) /\ Len(wire') = Len(wire) - n
      /\ \A k \in 1..(Len(wire) - n) : wire'[k] = wire[n + k]
  <2>1. wire \in Seq(Nat) BY <1>0 DEF TypeOK
  <2>2. \A k \in 1..(Len(wire) - n) : n + k \in 1..Len(wire) BY <1>1, <1>2
  <2> QED BY <1>1, <1>2, <2>1, <2>2, SMTT(30)
<1>6. Sent' = Sent /\ PacketInv' /\ SendInv' /\ \A m : EndOf(m)' = EndOf(m)
  BY <1>2, ReceiverStep, Zenon
<1>7. Received' = Received + n
  <2>1. Sent \in Nat BY <1>0, Positions
  <2> QED BY <1>1, <1>5, <1>6, <2>1 DEF Received
<1>8. DOMAIN buf = 0..(Capacity - 1) /\ buf \in [0..(Capacity - 1) -> Nat \cup {NoByte}]
  BY <1>0, Zenon DEF TypeOK
<1>9. buf' = [i \in 0..(Capacity - 1) |->
                 IF i \in writePos..(writePos + n - 1) THEN wire[i - writePos + 1] ELSE buf[i]]
  BY <1>8, Zenon DEF Receive
<1>10. \A i \in writePos..(writePos + n - 1) : wire[i - writePos + 1] = Received + (i - writePos)
  <2> TAKE i \in writePos..(writePos + n - 1)
  <2>1. i - writePos + 1 \in 1..Len(wire) BY <1>1, <1>2
  <2>2. wire[i - writePos + 1] = Received + (i - writePos + 1) - 1
    BY <2>1, Zenon DEF IndInv, WireInv
  <2> QED BY <1>1, <2>2
<1>11. TypeOK'
  <2>1. buf' \in [0..(Capacity - 1) -> Nat \cup {NoByte}]
    <3>1. ASSUME NEW i \in 0..(Capacity - 1), i \in writePos..(writePos + n - 1)
          PROVE  wire[i - writePos + 1] \in Nat
      BY <1>1, <1>10, <3>1
    <3> QED BY <1>8, <1>9, <3>1
  <2>2. writePos' \in 0..Capacity /\ readPos' \in 0..writePos'
        /\ processLen' \in 0..(writePos' - readPos')
    BY <1>1, <1>2, <1>4
  <2> QED BY <1>0, <1>2, <1>3, <1>5, <2>1, <2>2, SMTT(30) DEF TypeOK, sendVars
<1>12. WireInv'
  <2> SUFFICES ASSUME NEW k \in 1..(Len(wire) - n) PROVE wire'[k] = (Received + n) + k - 1
    BY <1>5, <1>7, Zenon DEF WireInv
  <2>1. n + k \in 1..Len(wire) BY <1>1, <1>2
  <2>2. wire[n + k] = Received + (n + k) - 1 BY <2>1 DEF IndInv, WireInv
  <2> QED BY <1>1, <1>5, <2>2
<1>13. BufInv'
  <2>1. Received' >= DataSize' BY <1>0, <1>1, <1>2, <1>7 DEF BufInv, DataSize
  <2>2. ASSUME NEW k \in readPos'..(writePos' - 1)
        PROVE  buf'[k] = Received' - writePos' + k
    <3>1. k \in 0..(Capacity - 1) BY <1>1, <1>2, <1>4
    <3>2. CASE k \in writePos..(writePos + n - 1)
      BY <1>1, <1>2, <1>7, <1>9, <1>10, <3>1, <3>2
    <3>3. CASE k \notin writePos..(writePos + n - 1)
      <4>1. k \in readPos..(writePos - 1) BY <1>1, <1>2, <3>3
      <4>2. buf[k] = Received - writePos + k BY <1>0, <4>1 DEF BufInv
      <4> QED BY <1>1, <1>2, <1>7, <1>9, <3>1, <3>3, <4>2
    <3> QED BY <3>2, <3>3
  <2> QED BY <2>1, <2>2 DEF BufInv
<1>14. HandInv'
  <2>1. PacketsInOrder' BY <1>2 DEF IndInv, HandInv, PacketsInOrder
  <2>2. processLen = 0 BY <1>2 DEF IndInv, RoomInv
  <2>3. Received - writePos + readPos + 0 = EndOf(Len(handled))
    BY <1>1, <2>2 DEF IndInv, HandInv, Address
  <2> QED BY <1>1, <1>2, <1>6, <1>7, <2>1, <2>3 DEF HandInv, Address
<1>15. RoomInv' /\ NoFalseClose' BY <1>3 DEF RoomInv, RoomToReceive, NoFalseClose
<1> QED BY <1>6, <1>11, <1>12, <1>13, <1>14, <1>15 DEF IndInv

\* The packet handed over is the next one, whole.
LEMMA HandlePacketInd == IndInv /\ HandlePacket => IndInv'
<1> SUFFICES ASSUME IndInv, HandlePacket PROVE IndInv' OBVIOUS
<1> DEFINE h == Len(handled)
<1>0. TypeOK /\ PacketInv /\ SendInv /\ BufInv BY DEF IndInv
<1>1. rpc = "parse" /\ Unread >= Header BY DEF HandlePacket
<1>2. /\ h < Len(packets) /\ buf[Address] = packets[h + 1].at
      /\ HeaderSizes(Address) = {packets[h + 1].claims}
  BY <1>1, NextHeader, Zenon
<1> DEFINE size == packets[h + 1].claims
<1>3. /\ ~BadSize(size) /\ Unread >= size
      /\ handled' = Append(handled, [first |-> buf[Address], len |-> size,
                                     whole |-> Consecutive(Address, size)])
      /\ processLen' = processLen + size
      /\ rpc' = IF open THEN "parse" ELSE "read"
      /\ UNCHANGED <<packets, sendVars, wire, buf, readPos, writePos, open>>
  BY <1>2, Zenon DEF HandlePacket
<1>4. h \in Nat /\ Len(packets) \in Nat /\ h + 1 \in 1..Len(packets) BY <1>0, <1>2, Types, SMTT(30)
<1>5. /\ size \in Nat /\ size >= Header /\ size = packets[h + 1].len
      /\ packets[h + 1].len = packets[h + 1].payload + Header
      /\ packets[h + 1].at \in Nat
  <2>1. size \in Nat /\ packets[h + 1].at \in Nat BY <1>0, <1>4, PacketTypes
  <2>2. size >= Header BY <1>3, <2>1, CapacityFacts DEF BadSize
  <2> QED BY <1>0, <1>4, <2>1, <2>2, PacketLength
<1>6. /\ readPos \in Nat /\ writePos \in Nat /\ processLen \in Nat /\ Received \in Nat
      /\ readPos + processLen + size <= writePos
  <2>1. /\ readPos \in Nat /\ writePos \in Nat /\ processLen \in Nat /\ Received \in Nat
    BY <1>0, Types, Positions, Zenon
  <2> QED BY <1>3, <1>5, <2>1 DEF Unread, DataSize
<1> HIDE DEF size
<1>7. Consecutive(Address, size)
  <2>1. ASSUME NEW k \in 0..(size - 1) PROVE buf[Address + k] = Received - writePos + (Address + k)
    <3>1. Address + k \in readPos..(writePos - 1) BY <1>5, <1>6 DEF Address
    <3> QED BY <1>0, <3>1 DEF BufInv
  <2>2. buf[Address] = Received - writePos + Address
    <3>1. Address \in readPos..(writePos - 1) BY <1>5, <1>6, CapacityFacts DEF Address
    <3> QED BY <1>0, <3>1 DEF BufInv
  <2>3. Address \in Nat BY <1>6 DEF Address
  <2> QED BY <1>5, <1>6, <2>1, <2>2, <2>3 DEF Consecutive
<1> DEFINE call == [first |-> packets[h + 1].at, len |-> packets[h + 1].payload + Header,
                    whole |-> TRUE]
<1>8. handled' = Append(handled, call)
  BY <1>2, <1>3, <1>5, <1>7, Zenon
<1>9. call \in Call BY <1>5 DEF Call
<1>10. handled \in Seq(Call) BY <1>0 DEF TypeOK
<1> HIDE DEF call
<1>11. /\ handled' \in Seq(Call) /\ Len(handled') = h + 1
       /\ \A i \in 1..h : handled'[i] = handled[i]
       /\ handled'[h + 1] = call /\ DOMAIN handled' = 1..(h + 1)
  BY <1>4, <1>8, <1>9, <1>10
<1>12. Sent' = Sent /\ PacketInv' /\ SendInv' /\ \A m : EndOf(m)' = EndOf(m)
  BY <1>3, ReceiverStep, Zenon
<1>13. Received' = Received BY <1>3, <1>12 DEF Received
<1>14. TypeOK'
  <2>1. processLen' \in 0..(writePos' - readPos')
    <3>1. processLen + size \in 0..(writePos - readPos) BY <1>5, <1>6, SMTT(30)
    <3> QED BY <1>3, <3>1
  <2>2. rpc' \in {"posted", "parse", "read", "closed", "done"} BY <1>3
  <2> QED BY <1>0, <1>3, <1>11, <2>1, <2>2 DEF TypeOK, sendVars
<1>15. WireInv' BY <1>3, <1>13 DEF IndInv, WireInv
<1>16. BufInv' BY <1>0, <1>3, <1>13 DEF BufInv, DataSize
<1>17. HandInv'
  <2>1. DOMAIN handled = 1..h BY <1>0, Types
  <2>2. PacketsInOrder'
    <3>1. Len(handled') <= Len(packets') BY <1>2, <1>3, <1>4, <1>11
    <3>2. ASSUME NEW i \in DOMAIN handled'
          PROVE  handled'[i] = [first |-> packets'[i].at, len |-> packets'[i].payload + Header,
                                whole |-> TRUE]
      <4>1. CASE i \in 1..h BY <1>3, <1>11, <2>1, <4>1 DEF IndInv, HandInv, PacketsInOrder
      <4>2. CASE i = h + 1 BY <1>3, <1>11, <4>2 DEF call
      <4> QED BY <1>4, <1>11, <4>1, <4>2
    <3> QED BY <3>1, <3>2 DEF PacketsInOrder
  <2>3. EndOf(h + 1) = EndOf(h) + size
    <3>1. (h + 1) - 1 = h /\ h + 1 # 0 BY <1>4
    <3>2. packets[h + 1].at = EndOf(h) BY <1>0, <1>4, <3>1 DEF PacketInv
    <3> QED BY <1>5, <3>1, <3>2 DEF EndOf
  <2>4. Received - writePos + Address = EndOf(h) BY DEF IndInv, HandInv
  <2>5. Address' = Address + size /\ Address \in Nat BY <1>3, <1>5, <1>6 DEF Address
  <2>6. Received - writePos + (Address + size) = EndOf(h) + size
    BY <1>5, <1>6, <2>4, <2>5
  <2> QED BY <1>3, <1>11, <1>12, <1>13, <2>2, <2>3, <2>5, <2>6 DEF HandInv
<1>18. RoomInv' /\ NoFalseClose'
  BY <1>3, Zenon DEF RoomInv, RoomToReceive, NoFalseClose
<1> QED BY <1>12, <1>14, <1>15, <1>16, <1>17, <1>18 DEF IndInv

\* The connection is ended at a foreign header only.
LEMMA BadHeaderInd == IndInv /\ BadHeader => IndInv'
<1> SUFFICES ASSUME IndInv, BadHeader PROVE IndInv' OBVIOUS
<1>0. TypeOK /\ PacketInv /\ SendInv /\ BufInv BY DEF IndInv
<1>1. /\ rpc = "parse" /\ Unread >= Header /\ open' = FALSE /\ rpc' = "closed"
      /\ UNCHANGED <<packets, sendVars, wire, buf, readPos, writePos, processLen, handled>>
      /\ \E size \in HeaderSizes(Address) : BadSize(size)
  BY Zenon DEF BadHeader
<1>2. Len(handled) < Len(packets) /\ BadSize(packets[Len(handled) + 1].claims)
  BY <1>1, NextHeader, Zenon
<1>3. packets[Len(handled) + 1].claims < Header
  <2>1. Len(handled) + 1 \in 1..Len(packets) BY <1>0, <1>2, Types
  <2>2. packets[Len(handled) + 1].claims \in Nat /\ packets[Len(handled) + 1].claims < Word
    BY <1>0, <2>1, PacketTypes, Zenon
  <2> QED BY <1>2, <2>2, CapacityFacts DEF BadSize
<1>4. Sent' = Sent /\ PacketInv' /\ SendInv' /\ \A m : EndOf(m)' = EndOf(m)
  BY <1>1, ReceiverStep, Zenon
<1>5. Received' = Received BY <1>1, <1>4 DEF Received
<1>6. TypeOK' BY <1>0, <1>1, Zenon DEF TypeOK, sendVars
<1>7. WireInv' BY <1>1, <1>5 DEF IndInv, WireInv
<1>8. BufInv' BY <1>0, <1>1, <1>5 DEF BufInv, DataSize
<1>9. HandInv' BY <1>1, <1>4, <1>5 DEF IndInv, HandInv, PacketsInOrder, Address
<1>10. RoomInv' /\ NoFalseClose'
  BY <1>1, <1>2, <1>3, Zenon DEF RoomInv, RoomToReceive, NoFalseClose
<1> QED BY <1>4, <1>6, <1>7, <1>8, <1>9, <1>10 DEF IndInv

\* What is left is less than a largest packet.
LEMMA IncompleteInd == IndInv /\ Incomplete => IndInv'
<1> SUFFICES ASSUME IndInv, Incomplete PROVE IndInv' OBVIOUS
<1>0. TypeOK /\ PacketInv /\ SendInv /\ BufInv BY DEF IndInv
<1>1. /\ rpc = "parse" /\ rpc' = "read"
      /\ UNCHANGED <<packets, sendVars, wire, buf, readPos, writePos, processLen, handled, open>>
  BY Zenon DEF Incomplete
<1>2. Unread < BufferSize
  <2>1. Unread \in Int BY <1>0, Types DEF Unread, DataSize
  <2>2. CASE Unread < Header BY <2>1, <2>2, CapacityFacts
  <2>3. CASE /\ Unread >= Header
             /\ \E size \in HeaderSizes(Address) : ~BadSize(size) /\ Unread < size
    <3>1. /\ Len(handled) < Len(packets)
          /\ Unread < packets[Len(handled) + 1].claims
      BY <1>1, <2>3, NextHeader, Zenon
    <3>2. Len(handled) + 1 \in 1..Len(packets) BY <1>0, <3>1, Types, SMTT(30)
    <3>3. packets[Len(handled) + 1].claims \in Nat /\ packets[Len(handled) + 1].claims < Word
      BY <1>0, <3>2, PacketTypes, Zenon
    <3> QED BY <2>1, <3>1, <3>3, CapacityFacts
  <2> QED BY <2>2, <2>3 DEF Incomplete
<1>4. Sent' = Sent /\ PacketInv' /\ SendInv' /\ \A m : EndOf(m)' = EndOf(m)
  BY <1>1, ReceiverStep, Zenon
<1>5. Received' = Received BY <1>1, <1>4 DEF Received
<1>6. TypeOK' BY <1>0, <1>1 DEF TypeOK, sendVars
<1>7. WireInv' BY <1>1, <1>5 DEF IndInv, WireInv
<1>8. BufInv' BY <1>0, <1>1, <1>5 DEF BufInv, DataSize
<1>9. HandInv' BY <1>1, <1>4, <1>5 DEF IndInv, HandInv, PacketsInOrder, Address
<1>10. RoomInv' /\ NoFalseClose'
  BY <1>1, <1>2, Zenon DEF RoomInv, RoomToReceive, NoFalseClose, Unread, DataSize
<1> QED BY <1>4, <1>6, <1>7, <1>8, <1>9, <1>10 DEF IndInv

\* on_read, clean and the next receive keep the unread bytes and make room.
LEMMA EndRecvInd == IndInv /\ EndRecv => IndInv'
<1> SUFFICES ASSUME IndInv, EndRecv PROVE IndInv' OBVIOUS
<1> DEFINE rest == DataSize - processLen
<1> DEFINE from == readPos + processLen
<1>0. TypeOK /\ PacketInv /\ SendInv /\ BufInv BY DEF IndInv
<1>1. /\ rpc = "read" /\ processLen' = 0 /\ rpc' = IF open THEN "posted" ELSE "done"
      /\ UNCHANGED <<packets, sendVars, wire, handled, open>>
  BY Zenon DEF EndRecv
<1>2. /\ readPos \in Nat /\ writePos \in Nat /\ processLen \in Nat /\ Received \in Nat
      /\ writePos <= Capacity /\ Capacity \in Nat
      /\ rest \in Nat /\ from \in Nat /\ from + rest = writePos /\ readPos <= from
      /\ BufferSize \in Nat /\ Capacity >= 2 * BufferSize /\ BufferSize > 0
  <2>1. /\ readPos \in Nat /\ writePos \in Nat /\ processLen \in Nat
        /\ writePos <= Capacity /\ processLen <= writePos - readPos
    BY <1>0, Types, Zenon
  <2>2. Received \in Nat BY <1>0, Positions
  <2>3. rest = writePos - readPos - processLen BY DEF DataSize
  <2>4. rest \in Nat /\ from \in Nat /\ from + rest = writePos /\ readPos <= from
    BY <2>1, <2>3
  <2> QED BY <2>1, <2>2, <2>4, CapacityFacts
<1>3. open => rest < BufferSize BY <1>1 DEF IndInv, RoomInv, Unread
<1>4. Sent' = Sent /\ PacketInv' /\ SendInv' /\ \A m : EndOf(m)' = EndOf(m)
  BY <1>1, ReceiverStep, Zenon
<1>5. Received' = Received BY <1>1, <1>4 DEF Received
<1>6. Received - writePos + from = EndOf(Len(handled)) BY DEF IndInv, HandInv, Address
<1>7. Received >= rest BY <1>0, <1>2 DEF BufInv, DataSize
<1>8. \A k \in from..(writePos - 1) : buf[k] = Received - writePos + k
  BY <1>0, <1>2 DEF BufInv
<1>9. buf \in [0..(Capacity - 1) -> Nat \cup {NoByte}] /\ DOMAIN buf = 0..(Capacity - 1)
  BY <1>0, Zenon DEF TypeOK
<1>10. /\ rest = 0 => readPos' = 0 /\ writePos' = 0 /\ buf' = buf
       /\ rest > 0 /\ MustMove => readPos' = 0 /\ writePos' = rest /\ buf' = Moved(from, rest)
       /\ rest > 0 /\ ~MustMove => readPos' = from /\ writePos' = writePos /\ buf' = buf
  BY <1>2 DEF EndRecv
<1> HIDE DEF rest, from
\* What the three cases have in common.
<1>11. ASSUME NEW r \in Nat, NEW w \in Nat, w - r = rest, w <= Capacity,
              readPos' = r, writePos' = w,
              buf' \in [0..(Capacity - 1) -> Nat \cup {NoByte}],
              \A k \in r..(w - 1) : buf'[k] = Received - w + k,
              open => Capacity - w >= BufferSize
       PROVE  IndInv'
  <2>1. w \in 0..Capacity /\ r \in 0..w /\ 0 \in 0..(w - r) BY <1>2, <1>11
  <2>2. rpc' \in {"posted", "parse", "read", "closed", "done"} BY <1>1
  <2>3. TypeOK' BY <1>0, <1>1, <1>11, <2>1, <2>2 DEF TypeOK, sendVars
  <2>4. WireInv' BY <1>1, <1>5 DEF IndInv, WireInv
  <2>5. BufInv' BY <1>5, <1>7, <1>11 DEF BufInv, DataSize
  <2>6. HandInv'
    <3>1. PacketsInOrder' BY <1>1 DEF IndInv, HandInv, PacketsInOrder
    <3>2. Received - w + (r + 0) = EndOf(Len(handled)) BY <1>2, <1>6, <1>11
    <3> QED BY <1>1, <1>4, <1>5, <1>11, <3>1, <3>2 DEF HandInv, Address
  <2>7. RoomInv' BY <1>1, <1>11 DEF RoomInv, RoomToReceive, FreeSize
  <2>8. NoFalseClose' BY <1>1 DEF NoFalseClose
  <2> QED BY <1>4, <2>3, <2>4, <2>5, <2>6, <2>7, <2>8 DEF IndInv
<1>12. CASE rest = 0
  <2>1. readPos' = 0 /\ writePos' = 0 /\ buf' = buf BY <1>10, <1>12
  <2> QED BY <1>2, <1>9, <1>11, <1>12, <2>1
<1>13. CASE rest > 0 /\ MustMove
  <2>1. readPos' = 0 /\ writePos' = rest /\ buf' = Moved(from, rest)
    BY <1>10, <1>13, Zenon
  <2>2. buf' = [i \in 0..(Capacity - 1) |-> IF i < rest THEN buf[from + i] ELSE buf[i]]
    BY <1>9, <2>1, Zenon DEF Moved
  <2>3. \A k \in 0..(rest - 1) : from + k \in from..(writePos - 1) /\ from + k \in 0..(Capacity - 1)
                                  /\ k \in 0..(Capacity - 1)
    BY <1>2
  <2>4. \A k \in 0..(rest - 1) : buf'[k] = Received - rest + k
    <3> TAKE k \in 0..(rest - 1)
    <3>1. buf'[k] = buf[from + k] BY <1>2, <2>2, <2>3
    <3>2. buf[from + k] = Received - writePos + (from + k) BY <1>8, <2>3
    <3> QED BY <1>2, <3>1, <3>2
  <2>5. buf' \in [0..(Capacity - 1) -> Nat \cup {NoByte}]
    <3>1. ASSUME NEW i \in 0..(Capacity - 1), i < rest PROVE from + i \in 0..(Capacity - 1)
      BY <1>2, <3>1
    <3> QED BY <1>9, <2>2, <3>1
  <2>6. writePos' <= Capacity BY <1>2, <2>1
  <2>7. open => Capacity - writePos' >= BufferSize BY <1>2, <1>3, <2>1
  <2> QED BY <1>2, <1>11, <2>1, <2>4, <2>5, <2>6, <2>7
<1>14. CASE rest > 0 /\ ~MustMove
  <2>1. readPos' = from /\ writePos' = writePos /\ buf' = buf
    BY <1>10, <1>14, Zenon
  <2>2. Capacity - writePos >= BufferSize BY <1>2, <1>14 DEF MustMove, FreeSize
  <2> QED BY <1>2, <1>8, <1>9, <1>11, <2>1, <2>2
<1> QED BY <1>2, <1>12, <1>13, <1>14

\* A disconnect changes nothing the invariant relates.
LEMMA DisconnectInd == IndInv /\ Disconnect => IndInv'
<1> SUFFICES ASSUME IndInv, Disconnect PROVE IndInv' OBVIOUS
<1>1. /\ UNCHANGED <<packets, sendVars, wire, rpc, buf, readPos, writePos, processLen, handled>>
      /\ open' = FALSE
  BY Zenon DEF Disconnect
<1>2. Sent' = Sent /\ PacketInv' /\ SendInv' /\ \A m : EndOf(m)' = EndOf(m)
  BY <1>1, ReceiverStep, Zenon
<1>3. Received' = Received BY <1>1, <1>2 DEF Received
<1>4. TypeOK' BY <1>1, Zenon DEF IndInv, TypeOK, sendVars
<1>5. WireInv' BY <1>1, <1>3 DEF IndInv, WireInv
<1>6. BufInv' BY <1>1, <1>3 DEF IndInv, BufInv, DataSize
<1>7. HandInv' BY <1>1, <1>2, <1>3 DEF IndInv, HandInv, PacketsInOrder, Address
<1>8. RoomInv' /\ NoFalseClose'
  BY <1>1, Zenon DEF IndInv, RoomInv, RoomToReceive, NoFalseClose, FreeSize
<1> QED BY <1>2, <1>4, <1>5, <1>6, <1>7, <1>8 DEF IndInv

\* So does a step that changes nothing.
LEMMA StutterInd == IndInv /\ UNCHANGED vars => IndInv'
<1> SUFFICES ASSUME IndInv, UNCHANGED vars PROVE IndInv' OBVIOUS
<1>1. UNCHANGED <<packets, sendVars, wire, rpc, buf, readPos, writePos, processLen, handled, open>>
  BY Zenon DEF vars, recvVars
<1>2. Sent' = Sent /\ PacketInv' /\ SendInv' /\ \A m : EndOf(m)' = EndOf(m)
  BY <1>1, ReceiverStep, Zenon
<1>3. Received' = Received BY <1>1, <1>2 DEF Received
<1>4. TypeOK' BY <1>1 DEF IndInv, TypeOK, sendVars
<1>5. WireInv' BY <1>1, <1>3 DEF IndInv, WireInv
<1>6. BufInv' BY <1>1, <1>3 DEF IndInv, BufInv, DataSize
<1>7. HandInv' BY <1>1, <1>2, <1>3 DEF IndInv, HandInv, PacketsInOrder, Address
<1>8. RoomInv' /\ NoFalseClose'
  BY <1>1, Zenon DEF IndInv, RoomInv, RoomToReceive, NoFalseClose, FreeSize, Unread, DataSize
<1> QED BY <1>2, <1>4, <1>5, <1>6, <1>7, <1>8 DEF IndInv

-----------------------------------------------------------------------------
(* The invariant is inductive *)

LEMMA InitInd == Init => IndInv
<1> SUFFICES ASSUME Init PROVE IndInv OBVIOUS
<1>1. Capacity \in Nat /\ Capacity >= BufferSize BY CapacityFacts
<1>2. /\ packets = <<>> /\ spc = "idle" /\ taken = 0 /\ index = 1 /\ offset = 0 /\ left = 0
      /\ wire = <<>> /\ rpc = "posted" /\ buf = [i \in 0..(Capacity - 1) |-> NoByte]
      /\ readPos = 0 /\ writePos = 0 /\ processLen = 0 /\ handled = <<>> /\ open = TRUE
  BY Zenon DEF Init
<1>3. Len(packets) = 0 /\ Len(wire) = 0 /\ Len(handled) = 0 BY <1>2
<1>4. EndOf(0) = 0 /\ EventPos = 0 /\ Sent = 0 /\ Received = 0
  <2>1. EndOf(0) = 0 BY DEF EndOf
  <2>2. EventPos = 0 BY <1>2, <2>1 DEF EventPos
  <2>3. Sent = 0 BY <1>2, <2>2 DEF Sent
  <2> QED BY <1>3, <2>1, <2>2, <2>3 DEF Received
<1>5. TypeOK BY <1>1, <1>2, <1>3 DEF TypeOK
<1>6. PacketInv /\ SendInv BY <1>2, <1>3 DEF PacketInv, SendInv
<1>7. WireInv /\ BufInv BY <1>2, <1>3, <1>4 DEF WireInv, BufInv, DataSize
<1>8. HandInv BY <1>2, <1>3, <1>4 DEF HandInv, PacketsInOrder, Address
<1>9. RoomInv /\ NoFalseClose BY <1>1, <1>2 DEF RoomInv, RoomToReceive, NoFalseClose, FreeSize
<1> QED BY <1>5, <1>6, <1>7, <1>8, <1>9 DEF IndInv

LEMMA NextInd == IndInv /\ [Next]_vars => IndInv'
<1> SUFFICES ASSUME IndInv, [Next]_vars PROVE IndInv' OBVIOUS
<1>1. ASSUME NEW p \in Payloads, Send(p) PROVE IndInv'
  BY <1>1, PacketSizeExact, QueueInd DEF Send
<1>2. ASSUME NEW f \in ForeignSizes, SendForeign(f) PROVE IndInv'
  <2>1. f \in 0..(Word - 1) /\ f < Header /\ Header \in Nat BY FramingAssumption
  <2> QED BY <1>2, <2>1, QueueInd DEF SendForeign
<1>3. CASE Sends BY <1>3, RegisterSendInd, ConsumeInd, ConsumedInd, TransmitInd DEF Sends
<1>4. CASE Receives
  BY <1>4, HandlePacketInd, BadHeaderInd, IncompleteInd, EndRecvInd, ReceiveInd, Zenon DEF Receives
<1>5. CASE Disconnect BY <1>5, DisconnectInd
<1>6. CASE UNCHANGED vars BY <1>6, StutterInd
<1> QED BY <1>1, <1>2, <1>3, <1>4, <1>5, <1>6 DEF Next, Finished

LEMMA Inductive == Spec => []IndInv
BY InitInd, NextInd, PTL DEF Spec

-----------------------------------------------------------------------------
(* Theorems *)

\* Every variable keeps its type; in particular the read and write positions of
\* the receive buffer stay inside it.
THEOREM TypeCorrect == Spec => []TypeOK
BY Inductive, PTL DEF IndInv

\* on_recv_packet gets the packets that were sent, each whole, once and in order.
THEOREM PacketsArriveInOrder == Spec => []PacketsInOrder
<1>1. IndInv => PacketsInOrder BY DEF IndInv, HandInv
<1> QED BY <1>1, Inductive, PTL

\* A posted receive always has room for a largest packet: RecvBuffer::clean
\* keeps up with on_recv.
THEOREM AlwaysRoom == Spec => []RoomToReceive
<1>1. IndInv => RoomToReceive BY DEF IndInv, RoomInv
<1> QED BY <1>1, Inductive, PTL

\* on_recv ends a connection only at a header no packet of the protocol has.
THEOREM ClosesOnlyBadHeaders == Spec => []NoFalseClose
<1>1. IndInv => NoFalseClose BY DEF IndInv
<1> QED BY <1>1, Inductive, PTL

-----------------------------------------------------------------------------
(* The connection implements a channel of packets *)

SentBar(ps) == [i \in DOMAIN ps |-> ps[i].payload]
DeliveredBar(hs) == [i \in DOMAIN hs |-> hs[i].len - Header]

\* A sequence one longer with the same beginning is an Append.
LEMMA IsAppend ==
  ASSUME NEW S, NEW s \in Seq(S), NEW t \in Seq(S), NEW e \in S,
         Len(t) = Len(s) + 1, \A i \in 1..Len(s) : t[i] = s[i], t[Len(s) + 1] = e
  PROVE  t = Append(s, e)
<1>1. Append(s, e) \in Seq(S) /\ Len(Append(s, e)) = Len(t)
  OBVIOUS
<1>2. ASSUME NEW i \in 1..Len(t) PROVE Append(s, e)[i] = t[i]
  <2>1. CASE i \in 1..Len(s) BY <2>1
  <2>2. CASE i = Len(s) + 1 BY <2>2
  <2> QED BY <2>1, <2>2
<1> QED BY <1>1, <1>2, SeqEqual


\* The mapped sequences, element by element.
LEMMA SentBarSeq ==
  ASSUME NEW ps \in Seq(Packet)
  PROVE  /\ SentBar(ps) \in Seq(Int) /\ Len(SentBar(ps)) = Len(ps) /\ Len(ps) \in Nat
         /\ \A i \in 1..Len(ps) : SentBar(ps)[i] = ps[i].payload
<1>1. Len(ps) \in Nat /\ DOMAIN ps = 1..Len(ps) OBVIOUS
<1>2. ASSUME NEW i \in 1..Len(ps) PROVE ps[i].payload \in Int
  <2>1. ps[i] \in Packet OBVIOUS
  <2>2. ps[i].payload \in Payloads \cup {NoByte} BY <2>1 DEF Packet
  <2>3. Payloads \subseteq Int BY FramingAssumption
  <2>4. NoByte \in Int BY DEF NoByte
  <2> QED BY <2>2, <2>3, <2>4, Zenon
<1>3. SentBar(ps) \in [1..Len(ps) -> Int] BY <1>1, <1>2 DEF SentBar
<1>4. SentBar(ps) \in Seq(Int) BY <1>1, <1>3, SeqDef
<1> QED BY <1>1, <1>3, <1>4 DEF SentBar

LEMMA DeliveredBarSeq ==
  ASSUME NEW hs \in Seq(Call)
  PROVE  /\ DeliveredBar(hs) \in Seq(Int) /\ Len(DeliveredBar(hs)) = Len(hs) /\ Len(hs) \in Nat
         /\ \A i \in 1..Len(hs) : DeliveredBar(hs)[i] = hs[i].len - Header
<1>1. Len(hs) \in Nat /\ DOMAIN hs = 1..Len(hs) OBVIOUS
<1>2. ASSUME NEW i \in 1..Len(hs) PROVE hs[i].len - Header \in Int
  <2>1. hs[i] \in Call OBVIOUS
  <2> QED BY <2>1, CapacityFacts DEF Call
<1>3. DeliveredBar(hs) \in [1..Len(hs) -> Int] BY <1>1, <1>2 DEF DeliveredBar
<1>4. DeliveredBar(hs) \in Seq(Int) BY <1>1, <1>3, SeqDef
<1> QED BY <1>1, <1>3, <1>4 DEF DeliveredBar

\* Queueing a packet is the channel's Send.
LEMMA QueueRefines ==
  ASSUME NEW len, NEW claims, NEW payload \in Payloads \cup {NoByte},
         TypeOK, TypeOK', Queue(len, claims, payload)
  PROVE  SentBar(packets') = Append(SentBar(packets), payload) /\ handled' = handled
<1>1. packets \in Seq(Packet) /\ packets' \in Seq(Packet) BY DEF TypeOK
<1> DEFINE new == [at |-> EndOf(Len(packets)), len |-> len, claims |-> claims,
                   payload |-> payload]
<1>2. packets' = Append(packets, new) /\ handled' = handled BY DEF Queue, recvVars
<1>3. new.payload = payload OBVIOUS
<1> HIDE DEF new
<1>4. /\ Len(packets') = Len(packets) + 1 /\ packets'[Len(packets) + 1] = new
      /\ \A i \in 1..Len(packets) : packets'[i] = packets[i] /\ Len(packets) \in Nat
  BY <1>1, <1>2
<1>5. payload \in Int BY FramingAssumption DEF NoByte
<1>6. /\ Len(SentBar(packets')) = Len(SentBar(packets)) + 1
      /\ \A i \in 1..Len(SentBar(packets)) : SentBar(packets')[i] = SentBar(packets)[i]
      /\ SentBar(packets')[Len(SentBar(packets)) + 1] = payload
      /\ SentBar(packets) \in Seq(Int) /\ SentBar(packets') \in Seq(Int)
  <2>1. /\ SentBar(packets) \in Seq(Int) /\ Len(SentBar(packets)) = Len(packets)
        /\ \A i \in 1..Len(packets) : SentBar(packets)[i] = packets[i].payload
        /\ Len(packets) \in Nat
    BY <1>1, SentBarSeq, Zenon
  <2>2. /\ SentBar(packets') \in Seq(Int) /\ Len(SentBar(packets')) = Len(packets')
        /\ \A i \in 1..Len(packets') : SentBar(packets')[i] = packets'[i].payload
    BY <1>1, SentBarSeq, Zenon
  <2>3. \A i \in 1..Len(packets) : i \in 1..Len(packets') BY <1>4, <2>1
  <2>4. Len(packets) + 1 \in 1..Len(packets') BY <1>4, <2>1
  <2> QED BY <1>3, <1>4, <2>1, <2>2, <2>3, <2>4
<1>7. SentBar(packets') = Append(SentBar(packets), payload)
  BY <1>5, <1>6, IsAppend
<1> QED BY <1>2, <1>7

\* Handing a packet over is the channel's Deliver.
LEMMA HandlePacketRefines ==
  ASSUME TypeOK, TypeOK', PacketsInOrder', HandlePacket
  PROVE  /\ Len(DeliveredBar(handled)) < Len(SentBar(packets))
         /\ DeliveredBar(handled') =
              Append(DeliveredBar(handled), SentBar(packets)[Len(DeliveredBar(handled)) + 1])
         /\ packets' = packets
<1> DEFINE h == Len(handled)
<1>1. packets \in Seq(Packet) /\ handled \in Seq(Call) /\ handled' \in Seq(Call)
  BY Zenon DEF TypeOK
<1>2. PICK c : handled' = Append(handled, c) BY DEF HandlePacket
<1>3. packets' = packets BY DEF HandlePacket
<1>4. /\ Len(handled') = h + 1 /\ h \in Nat
      /\ \A i \in 1..h : handled'[i] = handled[i]
      /\ DOMAIN handled' = 1..(h + 1)
  BY <1>1, <1>2
<1>5. /\ h + 1 <= Len(packets)
      /\ handled'[h + 1] = [first |-> packets[h + 1].at, len |-> packets[h + 1].payload + Header,
                            whole |-> TRUE]
  <2>1. h + 1 \in DOMAIN handled' BY <1>4
  <2> QED BY <1>3, <1>4, <2>1, Zenon DEF PacketsInOrder
<1>6. /\ SentBar(packets) \in Seq(Int) /\ Len(SentBar(packets)) = Len(packets)
      /\ Len(packets) \in Nat /\ h + 1 \in 1..Len(packets)
      /\ SentBar(packets)[h + 1] = packets[h + 1].payload
      /\ packets[h + 1].payload \in Int
  <2>1. /\ SentBar(packets) \in Seq(Int) /\ Len(SentBar(packets)) = Len(packets)
        /\ \A i \in 1..Len(packets) : SentBar(packets)[i] = packets[i].payload
        /\ Len(packets) \in Nat
    BY <1>1, SentBarSeq
  <2>2. h + 1 \in 1..Len(packets) BY <1>4, <1>5, <2>1
  <2>3. SentBar(packets)[h + 1] \in Int BY <2>1, <2>2
  <2> QED BY <2>1, <2>2, <2>3
<1>7. handled'[h + 1].len - Header = packets[h + 1].payload
  BY <1>5, <1>6, CapacityFacts
<1>8. /\ DeliveredBar(handled) \in Seq(Int) /\ DeliveredBar(handled') \in Seq(Int)
      /\ Len(DeliveredBar(handled)) = h /\ Len(DeliveredBar(handled')) = h + 1
      /\ \A i \in 1..h : DeliveredBar(handled')[i] = DeliveredBar(handled)[i]
      /\ DeliveredBar(handled')[h + 1] = packets[h + 1].payload
  <2>1. /\ DeliveredBar(handled) \in Seq(Int) /\ Len(DeliveredBar(handled)) = h
        /\ \A i \in 1..h : DeliveredBar(handled)[i] = handled[i].len - Header
    BY <1>1, DeliveredBarSeq, Zenon
  <2>2. /\ DeliveredBar(handled') \in Seq(Int) /\ Len(DeliveredBar(handled')) = h + 1
        /\ \A i \in 1..(h + 1) : DeliveredBar(handled')[i] = handled'[i].len - Header
    BY <1>1, <1>4, DeliveredBarSeq, Zenon
  <2>3. \A i \in 1..h : i \in 1..(h + 1) BY <1>4
  <2>4. h + 1 \in 1..(h + 1) BY <1>4
  <2> QED BY <1>4, <1>7, <2>1, <2>2, <2>3, <2>4, Zenon
<1>9. DeliveredBar(handled') = Append(DeliveredBar(handled), packets[h + 1].payload)
  BY <1>6, <1>8, IsAppend, SMTT(30)
<1> QED BY <1>3, <1>5, <1>4, <1>6, <1>8, <1>9

\* The connection, from MakeSendBuffer to on_recv_packet, implements a channel of
\* whole packets.
THEOREM ImplementsChannel == Spec => ChannelSpec
<1>1. Init => Channel!Init
  <2> SUFFICES ASSUME Init PROVE Channel!Init OBVIOUS
  <2>1. packets = <<>> /\ handled = <<>> BY DEF Init
  <2>2. packets \in Seq(Packet) /\ handled \in Seq(Call) /\ Len(packets) = 0 /\ Len(handled) = 0
    BY <2>1
  <2>3. SentBar(packets) \in Seq(Int) /\ Len(SentBar(packets)) = 0 BY <2>2, SentBarSeq, Zenon
  <2>4. DeliveredBar(handled) \in Seq(Int) /\ Len(DeliveredBar(handled)) = 0
    BY <2>2, DeliveredBarSeq, Zenon
  <2>5. SentBar(packets) = <<>> /\ DeliveredBar(handled) = <<>>
    BY <2>3, <2>4, EmptySeq, Zenon
  <2> QED BY <2>5 DEF Channel!Init, SentBar, DeliveredBar
<1>2. IndInv /\ IndInv' /\ [Next]_vars =>
        [Channel!Send \/ Channel!Deliver]_<<SentBar(packets), DeliveredBar(handled)>>
  <2> SUFFICES ASSUME IndInv, IndInv', [Next]_vars
               PROVE  [Channel!Send \/ Channel!Deliver]_<<SentBar(packets), DeliveredBar(handled)>>
    BY Zenon
  <2>0. TypeOK /\ TypeOK' /\ PacketsInOrder' BY DEF IndInv, HandInv
  <2>1. ASSUME NEW payload \in Payloads \cup {NoByte},
               SentBar(packets') = Append(SentBar(packets), payload), handled' = handled
        PROVE  Channel!Send
    BY <2>1, Zenon DEF Channel!Send, SentBar, DeliveredBar
  <2>2. ASSUME NEW p \in Payloads, Send(p) PROVE Channel!Send
    BY <2>0, <2>1, <2>2, QueueRefines, Zenon DEF Send
  <2>3. ASSUME NEW f \in ForeignSizes, SendForeign(f) PROVE Channel!Send
    BY <2>0, <2>1, <2>3, QueueRefines, Zenon DEF SendForeign
  <2>4. CASE HandlePacket
    <3>1. Channel!Deliver
      BY <2>0, <2>4, HandlePacketRefines, Zenon DEF Channel!Deliver, SentBar, DeliveredBar
    <3> QED BY <3>1
  <2>5. ASSUME UNCHANGED <<packets, handled>>
        PROVE  UNCHANGED <<SentBar(packets), DeliveredBar(handled)>>
    BY <2>5, Zenon DEF SentBar, DeliveredBar
  <2>6. CASE Sends
    BY <2>5, <2>6, Zenon DEF Sends, RegisterSend, Consume, Consumed, Transmit, recvVars
  <2>7. CASE Receives /\ ~HandlePacket
    BY <2>5, <2>7, Zenon DEF Receives, BadHeader, Incomplete, EndRecv, Receive
  <2>8. CASE Disconnect BY <2>5, <2>8 DEF Disconnect
  <2>9. CASE UNCHANGED vars BY <2>5, <2>9 DEF vars, recvVars
  <2> QED BY <2>2, <2>3, <2>4, <2>6, <2>7, <2>8, <2>9 DEF Next, Finished
<1> QED BY <1>1, <1>2, Inductive, PTL DEF Spec, ChannelSpec, Channel!Spec, SentBar, DeliveredBar
=============================================================================
