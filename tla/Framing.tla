------------------------------- MODULE Framing -------------------------------
(***************************************************************************)
(* One direction of a connection, from the packet a handler builds to the  *)
(* packet a handler gets: MakeSendBuffer, the SendEvent's position in its  *)
(* buffers across partial sends, the byte stream, RecvBuffer and the loop  *)
(* of Session::on_recv.  The server and the test client have the same code *)
(* on both ends.  Who may post a send or a receive is module Session's     *)
(* subject; here each end has one under way.                               *)
(*                                                                         *)
(* A byte is its position in the stream of all bytes the sender has        *)
(* written into send buffers, so that a byte that is lost, doubled or      *)
(* moved is seen wherever it shows up.                                     *)
(***************************************************************************)
EXTENDS Integers, Sequences

CONSTANTS Word,         \* 2^16: the range of a uint16
          Header,       \* sizeof(PacketHeader)
          BufferSize,   \* Session::BUFFER_SIZE
          Factor,       \* the 10 of RecvBuffer's capacity
          Payloads,     \* the sizes of the serialised packets
          ForeignSizes, \* impossible header sizes a foreign peer may send
          MaxPackets    \* packets sent in a behaviour

\* Every packet of the protocol fits: the largest one leaves room for its
\* header in 16 bits.  The buffer size is the range of the size field.
ASSUME FramingAssumption ==
    /\ Word \in Nat /\ Header \in Nat \ {0} /\ BufferSize \in Nat /\ Factor \in Nat
    /\ Payloads \subseteq Nat /\ ForeignSizes \subseteq 0..(Header - 1) /\ MaxPackets \in Nat
    /\ \A p \in Payloads : p + Header < Word
    /\ Header <= Word /\ Word <= BufferSize /\ Factor >= 2

Capacity == Factor * BufferSize

NoByte == -1   \* a byte of the buffer nothing was received into

VARIABLES
    packets,    \* packets[i]: the i-th send buffer: its place and length in the
                \* stream, the size its header claims, the size of its payload
    \* the sender's SendEvent
    spc,        \* "idle", "post", "posted" or "consume"
    taken,      \* packets moved from the queue into the event so far
    index,      \* the packet _buffer_index stands at
    offset,     \* _buffer_offset
    left,       \* numOfBytes of the loop in consume_sent_bytes
    wire,       \* bytes sent and not received
    \* the receiver
    rpc,        \* "posted", "parse", "read"; "closed": it ended the connection
                \* itself; "done": it found the connection ended
    buf,        \* RecvBuffer::_buffer
    readPos, writePos,
    processLen, \* of on_recv
    handled,    \* what on_recv_packet was called with
    open        \* is_connected()

sendVars == <<spc, taken, index, offset, left>>
recvVars == <<rpc, buf, readPos, writePos, processLen, handled, open>>
vars == <<packets, sendVars, wire, recvVars>>

\* Where the stream ends after the first n packets.
EndOf(n) == IF n = 0 THEN 0 ELSE packets[n].at + packets[n].len

Packet == [at : Nat, len : Nat, claims : 0..(Word - 1), payload : Payloads \cup {NoByte}]

\* The arguments of on_recv_packet: the first byte, their number, and whether
\* they are consecutive.
Call == [first : Nat \cup {NoByte}, len : Nat, whole : BOOLEAN]

TypeOK ==
    /\ packets \in Seq(Packet)
    /\ spc \in {"idle", "post", "posted", "consume"}
    /\ taken \in 0..Len(packets) /\ index \in 1..(taken + 1)
    /\ offset \in Nat /\ left \in Nat
    /\ wire \in Seq(Nat)
    /\ rpc \in {"posted", "parse", "read", "closed", "done"}
    /\ buf \in [0..(Capacity - 1) -> Nat \cup {NoByte}]
    /\ writePos \in 0..Capacity /\ readPos \in 0..writePos
    /\ processLen \in 0..(writePos - readPos)
    /\ handled \in Seq(Call)
    /\ open \in BOOLEAN

Init ==
    /\ packets = <<>> /\ spc = "idle" /\ taken = 0 /\ index = 1 /\ offset = 0 /\ left = 0
    /\ wire = <<>>
    /\ rpc = "posted" /\ buf = [i \in 0..(Capacity - 1) |-> NoByte]
    /\ readPos = 0 /\ writePos = 0 /\ processLen = 0 /\ handled = <<>> /\ open = TRUE

-----------------------------------------------------------------------------
(* The sender *)

\* packetSize of MakeSendBuffer, in uint16 arithmetic; it does not wrap for the
\* payloads of FramingAssumption, which the bounds on texts in the handlers keep.
PacketSize(p) == ((p % Word) + Header) % Word

\* Session::send queues the buffer and, with no send under way, posts one.
Queue(len, claims, payload) ==
    /\ Len(packets) < MaxPackets
    /\ packets' = Append(packets, [at |-> EndOf(Len(packets)), len |-> len,
                                   claims |-> claims, payload |-> payload])
    /\ spc' = IF spc = "idle" THEN "post" ELSE spc
    /\ UNCHANGED <<taken, index, offset, left, wire, recvVars>>

\* A packet of the protocol: the buffer has the size its header claims.
Send(p) == Queue(PacketSize(p), PacketSize(p), p)

\* A peer that is not this program's client sends a header no packet can have.
SendForeign(f) == Queue(Header, f, NoByte)

HasPendingData == index <= taken

\* register_send: the queue moves into the event unless a partial send is to be
\* continued.
RegisterSend ==
    /\ spc = "post"
    /\ taken' = IF HasPendingData THEN taken ELSE Len(packets)
    /\ spc' = "posted"
    /\ UNCHANGED <<packets, index, offset, left, wire, recvVars>>

\* The first byte of build_wsabufs.
SendPos == packets[index].at + offset

\* The system takes any number of the bytes handed to WSASend; the queue keeps
\* the packets in order, so the event's bytes are consecutive.
Transmit(n) ==
    /\ spc = "posted"
    /\ wire' = wire \o [k \in 1..n |-> SendPos + k - 1]
    /\ left' = n
    /\ spc' = "consume"
    /\ UNCHANGED <<packets, taken, index, offset, recvVars>>

\* One iteration of the loop of consume_sent_bytes.
Consume ==
    /\ spc = "consume" /\ left > 0
    /\ LET available == packets[index].len - offset IN
        \/ /\ left < available
           /\ offset' = offset + left
           /\ left' = 0
           /\ UNCHANGED index
        \/ /\ left >= available
           /\ left' = left - available
           /\ index' = index + 1
           /\ offset' = 0
    /\ UNCHANGED <<packets, spc, taken, wire, recvVars>>

StopUnchecked == IF HasPendingData THEN "post" ELSE "idle"   \* Mutant: the queue is not looked at

\* The end of process_send: the rest of the event, then the queue.
AfterSend == IF HasPendingData \/ taken < Len(packets) THEN "post" ELSE "idle"

Consumed ==
    /\ spc = "consume" /\ left = 0
    /\ spc' = AfterSend
    /\ UNCHANGED <<packets, taken, index, offset, left, wire, recvVars>>

-----------------------------------------------------------------------------
(* The receiver *)

DataSize == writePos - readPos

FreeSize == Capacity - writePos

\* process_recv: a completion of n bytes; zero bytes mean the peer has closed.
Receive(n) ==
    /\ rpc = "posted" /\ open
    /\ n <= FreeSize /\ n <= Len(wire)
    /\ n = 0 => FreeSize = 0
    /\ buf' = [i \in DOMAIN buf |->
                  IF i \in writePos..(writePos + n - 1) THEN wire[i - writePos + 1] ELSE buf[i]]
    /\ wire' = SubSeq(wire, n + 1, Len(wire))
    /\ writePos' = writePos + n
    /\ processLen' = 0
    /\ open' = (n > 0)
    /\ rpc' = IF n > 0 THEN "parse" ELSE "closed"
    /\ UNCHANGED <<packets, sendVars, readPos, handled>>

\* n bytes from address a are consecutive bytes of the stream.
Consecutive(a, n) == \A k \in 0..(n - 1) : buf[a + k] = buf[a] + k

\* The size field of the header at address a: garbage unless a packet begins
\* there.
HeaderSizes(a) ==
    LET here == {i \in DOMAIN packets : packets[i].at = buf[a] /\ Consecutive(a, Header)}
    IN  IF here = {} THEN 0..(Word - 1) ELSE {packets[i].claims : i \in here}

\* The checks of on_recv that return -1.
BadSize(size) == size < Header \/ size > BufferSize

Address == readPos + processLen
Unread == DataSize - processLen   \* dataSize of on_recv

\* One iteration of the loop of on_recv that hands a packet over.
HandlePacket ==
    /\ rpc = "parse" /\ Unread >= Header
    /\ \E size \in HeaderSizes(Address) :
        /\ ~BadSize(size) /\ Unread >= size
        /\ handled' = Append(handled, [first |-> buf[Address], len |-> size,
                                       whole |-> Consecutive(Address, size)])
        /\ processLen' = processLen + size
    /\ rpc' = IF open THEN "parse" ELSE "read"
    /\ UNCHANGED <<packets, sendVars, wire, buf, readPos, writePos, open>>

\* A size that no packet can have ends the connection.
BadHeader ==
    /\ rpc = "parse" /\ Unread >= Header
    /\ \E size \in HeaderSizes(Address) : BadSize(size)
    /\ open' = FALSE /\ rpc' = "closed"
    /\ UNCHANGED <<packets, sendVars, wire, buf, readPos, writePos, processLen, handled>>

\* The header or the packet is not complete yet.
Incomplete ==
    /\ rpc = "parse"
    /\ \/ Unread < Header
       \/ /\ Unread >= Header
          /\ \E size \in HeaderSizes(Address) : ~BadSize(size) /\ Unread < size
    /\ rpc' = "read"
    /\ UNCHANGED <<packets, sendVars, wire, buf, readPos, writePos, processLen, handled, open>>

WhenFull == FreeSize = 0   \* Mutant: the data is moved only when nothing is free

\* clean moves the data when the rest of the buffer is less than BufferSize.
MustMove == FreeSize < BufferSize

NotMoved(from, n) == buf   \* Mutant: the positions are reset and the data stays

\* The memmove of clean.
Moved(from, n) == [i \in DOMAIN buf |-> IF i < n THEN buf[from + i] ELSE buf[i]]

\* on_read, clean and register_recv.
EndRecv ==
    /\ rpc = "read"
    /\ LET rest == DataSize - processLen
           from == readPos + processLen
       IN  \/ /\ rest = 0
              /\ readPos' = 0 /\ writePos' = 0 /\ UNCHANGED buf
           \/ /\ rest > 0 /\ MustMove
              /\ readPos' = 0 /\ writePos' = rest /\ buf' = Moved(from, rest)
           \/ /\ rest > 0 /\ ~MustMove
              /\ readPos' = from /\ UNCHANGED <<writePos, buf>>
    /\ processLen' = 0
    /\ rpc' = IF open THEN "posted" ELSE "done"
    /\ UNCHANGED <<packets, sendVars, wire, handled, open>>

\* Another thread ends the connection.
Disconnect ==
    /\ open
    /\ open' = FALSE
    /\ UNCHANGED <<packets, sendVars, wire, rpc, buf, readPos, writePos, processLen, handled>>

-----------------------------------------------------------------------------

Sends ==
    \/ RegisterSend \/ Consume \/ Consumed
    \/ spc = "posted" /\ \E n \in 1..(EndOf(taken) - SendPos) : Transmit(n)

Receives ==
    \/ HandlePacket \/ BadHeader \/ Incomplete \/ EndRecv
    \/ \E n \in 0..Capacity : Receive(n)

\* Everything was sent, and handled or the connection is gone.
Finished ==
    /\ Len(packets) = MaxPackets /\ spc = "idle"
    /\ IF open THEN rpc = "posted" /\ wire = <<>> ELSE rpc \in {"posted", "closed", "done"}
    /\ UNCHANGED vars

Next ==
    \/ \E p \in Payloads : Send(p)
    \/ \E f \in ForeignSizes : SendForeign(f)
    \/ Sends \/ Receives \/ Disconnect \/ Finished

Spec == Init /\ [][Next]_vars

\* The system completes posted operations and the workers run.
FairSpec == Spec /\ WF_vars(Sends) /\ WF_vars(Receives)

-----------------------------------------------------------------------------
(* Properties *)

\* on_recv_packet is called with the packets that were sent, each whole, once
\* and in order, however the bytes were split on the way.
PacketsInOrder ==
    /\ Len(handled) <= Len(packets)
    /\ \A i \in DOMAIN handled :
           handled[i] = [first |-> packets[i].at, len |-> packets[i].payload + Header,
                         whole |-> TRUE]

\* Whenever a receive is posted there is room for a largest packet: the buffer
\* never fills up, and no receive of length zero is taken for a close.
RoomToReceive == rpc = "posted" => FreeSize >= BufferSize

\* The receiver ends a connection only at a header no packet can have, after
\* handling every packet before it.
NoFalseClose ==
    rpc = "closed" =>
        /\ Len(handled) < Len(packets)
        /\ packets[Len(handled) + 1].claims < Header

\* Every packet sent is handled, unless the connection ends.
EverySentHandled ==
    \A n \in 1..MaxPackets : Len(packets) >= n ~> Len(handled) >= n \/ ~open

\* The connection implements a channel of whole packets.
Channel == INSTANCE PacketChannel WITH
    Packets <- Payloads \cup {NoByte},
    sent <- [i \in DOMAIN packets |-> packets[i].payload],
    delivered <- [i \in DOMAIN handled |-> handled[i].len - Header]

ChannelSpec == Channel!Spec
=============================================================================
