-------------------------------- MODULE Wire --------------------------------
(***************************************************************************)
(* One direction of a PeerConnection (core/p2p/network_manager.cpp): the    *)
(* sender's queue of unsent bytes, the socket, and the receiver's buffer    *)
(* that is cut back into messages.                                          *)
(*                                                                          *)
(* A byte is a pair <<message, position>>.  A header has HeaderSize bytes   *)
(* and tells the length of its payload; contents are left out.  A socket    *)
(* takes and gives any number of bytes, or would block.  send_mutex_ makes  *)
(* SendRaw and DrainSendQueue exclude each other; while the queue is not    *)
(* empty the order of an append and of a further send does not matter, so   *)
(* that a drain is one step per send().                                     *)
(***************************************************************************)
EXTENDS Integers, Sequences, SequencesExt, FiniteSetsExt

CONSTANTS
    HeaderSize,     \* the bytes of a header
    Payloads,       \* the lengths of payloads
    Room,           \* the bytes a socket holds
    MaxMessages     \* bound on the messages sent

ASSUME WireAssumption ==
    /\ HeaderSize \in Nat \ {0} /\ Payloads \subseteq Nat
    /\ Room \in Nat /\ MaxMessages \in Nat

VARIABLES
    accepted,   \* history: the payload lengths SendMessage returned true for
    sendQueue,  \* send_queue_
    offset,     \* send_queue_offset_
    socket,     \* the bytes under way
    recvBuffer, \* recv_buffer_
    handled,    \* history: the messages ProcessMessage was called with
    link        \* "up", "closed" by the sender, "down" at the receiver
wireVars == <<accepted, sendQueue, offset, socket, recvBuffer, handled, link>>

InitWire ==
    /\ accepted = <<>> /\ sendQueue = <<>> /\ offset = 0 /\ socket = <<>>
    /\ recvBuffer = <<>> /\ handled = <<>> /\ link = "up"

(* CreateNetworkMessage *)
Bytes(n, payload) == [i \in 1 .. HeaderSize + payload |-> <<n, i>>]
Free == Room - Len(socket)
Upto(n, m) == 0 .. (IF n < m THEN n ELSE m)

-----------------------------------------------------------------------------
(* Mutant: what the socket did not take is queued from the start *)
Rest_All(bytes, sent) == IF sent = Len(bytes) THEN <<>> ELSE bytes

Rest(bytes, sent) == SubSeq(bytes, sent + 1, Len(bytes))

(* SendMessage, SendRaw: behind a queue, or to the socket as far as it takes it *)
SendMessage(payload) ==
    LET bytes == Bytes(Len(accepted) + 1, payload) IN
    /\ link = "up" /\ Len(accepted) < MaxMessages
    /\ accepted' = Append(accepted, payload)
    /\ IF sendQueue # <<>>
       THEN sendQueue' = Append(sendQueue, bytes) /\ UNCHANGED socket
       ELSE \E sent \in Upto(Len(bytes), Free) :
               /\ socket' = socket \o SubSeq(bytes, 1, sent)
               /\ sendQueue' = IF sent = Len(bytes) THEN <<>> ELSE <<Rest(bytes, sent)>>
    /\ UNCHANGED <<offset, recvBuffer, handled, link>>

(* One send() of DrainSendQueue *)
Drain ==
    /\ link = "up" /\ sendQueue # <<>>
    /\ LET data == Head(sendQueue) IN
       \E sent \in Upto(Len(data) - offset, Free) \ {0} :
          /\ socket' = socket \o SubSeq(data, offset + 1, offset + sent)
          /\ IF offset + sent = Len(data)
             THEN sendQueue' = Tail(sendQueue) /\ offset' = 0
             ELSE offset' = offset + sent /\ UNCHANGED sendQueue
    /\ UNCHANGED <<accepted, recvBuffer, handled, link>>

-----------------------------------------------------------------------------
(* A header is where a message begins; anything else fails IsValid *)
IsHeader(buffer) == buffer[1][2] = 1

(* 24 + header.length *)
TotalSize(buffer) == HeaderSize + accepted[buffer[1][1]]

(* The buffer after ReceiveRaw, when it is shorter than needed; zero bytes: would block *)
Received(needed) ==
    IF Len(recvBuffer) >= needed THEN {0} ELSE Upto(Len(socket), Len(socket))

(* ReceiveMessage: at most one read for the header and one for the rest *)
ReceiveMessage ==
    /\ link # "down"
    /\ \E first \in Received(HeaderSize) :
       LET buffer == recvBuffer \o SubSeq(socket, 1, first)
           left   == SubSeq(socket, first + 1, Len(socket))
       IN  IF Len(buffer) < HeaderSize
           THEN recvBuffer' = buffer /\ socket' = left /\ UNCHANGED <<handled, link>>
           ELSE IF ~IsHeader(buffer)
           THEN link' = "down" /\ recvBuffer' = buffer /\ socket' = left /\ UNCHANGED handled
           ELSE \E second \in IF Len(buffer) >= TotalSize(buffer) THEN {0} ELSE 0 .. Len(left) :
                LET filled == buffer \o SubSeq(left, 1, second)
                    total  == TotalSize(buffer)
                IN  /\ socket' = SubSeq(left, second + 1, Len(left))
                    /\ IF Len(filled) < total
                       THEN recvBuffer' = filled /\ UNCHANGED handled
                       ELSE /\ handled' = Append(handled, SubSeq(filled, 1, total))
                            /\ recvBuffer' = SubSeq(filled, total + 1, Len(filled))
                    /\ UNCHANGED link
    /\ UNCHANGED <<accepted, sendQueue, offset>>

(* Disconnect: what is queued is never sent; the socket still delivers what it holds *)
Disconnect ==
    /\ link = "up"
    /\ link' = "closed"
    /\ UNCHANGED <<accepted, sendQueue, offset, socket, recvBuffer, handled>>

(* The connection breaks: bytes under way are lost from the end *)
Break ==
    /\ link = "up"
    /\ \E kept \in 0 .. Len(socket) : socket' = SubSeq(socket, 1, kept)
    /\ link' = "closed"
    /\ UNCHANGED <<accepted, sendQueue, offset, recvBuffer, handled>>

(* recv() returns zero, or an error *)
EndOfStream ==
    /\ link = "closed" /\ socket = <<>>
    /\ link' = "down"
    /\ UNCHANGED <<accepted, sendQueue, offset, socket, recvBuffer, handled>>

WireStep ==
    \/ \E payload \in Payloads : SendMessage(payload)
    \/ Drain \/ ReceiveMessage \/ Disconnect \/ Break \/ EndOfStream

WireSpec == InitWire /\ [][WireStep]_wireVars

-----------------------------------------------------------------------------
WireTypeOK ==
    /\ accepted \in Seq(Payloads) /\ Len(socket) <= Room
    /\ link \in {"up", "closed", "down"}
    /\ sendQueue = <<>> => offset = 0
    /\ sendQueue # <<>> => offset < Len(Head(sendQueue))

(* What was handed over and not processed, as long as it can still arrive *)
InFlight ==
    recvBuffer \o socket \o
    (IF link # "up" \/ sendQueue = <<>> THEN <<>>
     ELSE SubSeq(Head(sendQueue), offset + 1, Len(Head(sendQueue))) \o FlattenSeq(Tail(sendQueue)))

(* Partial sends, queued rests and partial reads keep the stream whole: one direction of  *)
(* a PeerConnection implements a FIFO channel, so that no message is lost, repeated, torn  *)
(* or overtaken while the connection is up, and two correct ends never meet a wrong header. *)
Fifo == INSTANCE Channel WITH sent <- Len(accepted), inFlight <- InFlight, ended <- link # "up"
ImplementsChannel == Fifo!Spec
=============================================================================
