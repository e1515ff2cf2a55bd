---------------------------- MODULE PacketStream ----------------------------
(***************************************************************************)
(* How CRPSend and CRPRecv (protocol/init.c) carry packets over a TCP      *)
(* connection, in one of its two directions and without encryption:        *)
(*                                                                         *)
(*   "toServer"  The client's socket blocks: send takes the whole packet,  *)
(*               piece by piece.  The server's does not: the listener      *)
(*               waits for bytes, a worker collects what is there in       *)
(*               context->buffer, and a packet may take several rounds     *)
(*               through epoll and the job queue.                          *)
(*   "toClient"  send takes what fits and CRPSend returns; the client      *)
(*               waits for a header and then for the rest.                 *)
(*                                                                         *)
(* Bytes are counted, not kept: packet i fills the positions of the stream *)
(* after packets[i].start, put of them so far.  Both ends share one number *)
(* of bytes the network holds.  Record states, the queue and the threads   *)
(* of the server are in UserLifecycle and JobQueue.                        *)
(***************************************************************************)
EXTENDS Integers, Sequences

CONSTANTS Ways,        \* directions to consider
          Threads,     \* threads that call CRPSend
          Header,      \* sizeof(CRPBaseHeader)
          Sizes,       \* lengths of packets, header included
          Capacity,    \* bytes the network and the two sockets hold
          MaxPackets   \* bound: packets ever sent

ASSUME StreamAssumption ==
  /\ Ways \subseteq {"toServer", "toClient"}
  /\ Header \in Nat \ {0}
  /\ Sizes \subseteq {n \in Nat : n >= Header}
  /\ Capacity \in Nat /\ Capacity >= Header
  /\ MaxPackets \in Nat

VARIABLES way,       \* the direction, fixed
          packets,   \* all packets sent: length, first position, bytes taken by send
          sending,   \* the packet each thread is in CRPSend with, 0 if none
          got,       \* bytes of the stream recv has returned
          taken,     \* bytes of the stream handed over in packets; the buffer, of
                     \* context->bLengthAct bytes, holds those from there up to got
          received,  \* what CRPRecv has returned: positions before first and of last
          receiver,  \* where the receiver is
          errno,     \* the worker's errno: is it EAGAIN?
          closed     \* the sender's end is closed

vars == <<way, packets, sending, got, taken, received, receiver, errno, closed>>

Receivers == {"epoll", "header", "body", "complete", "gone"}
Errnos == {"EAGAIN", "other"}
Packet == [size : Sizes, start : Nat, put : Nat]

Last == Len(packets)
EndOf(p) == p.start + p.put

\* Bytes send has taken, and those of them the receiver has not yet got.
Written == IF packets = <<>> THEN 0 ELSE EndOf(packets[Last])
Space == Capacity - (Written - got)
Smaller(m, n) == IF m <= n THEN m ELSE n

-----------------------------------------------------------------------------

Init ==
  /\ way \in Ways
  /\ packets = <<>>
  /\ sending = [t \in Threads |-> 0]
  /\ got = 0 /\ taken = 0
  /\ received = <<>>
  /\ receiver = IF way = "toServer" THEN "epoll" ELSE "header"
  /\ errno = "other"
  /\ closed = FALSE

receiverVars == <<got, taken, received, receiver, errno>>

(* CRPSend. *)

\* Mutant: nobody waits for the lock.
SendLockNone == TRUE

SendLockFree == \A t \in Threads : sending[t] = 0

\* CRPSend gets sendLock and makes the packet.
Begin(t, n) ==
  /\ ~closed
  /\ sending[t] = 0 /\ SendLockFree
  /\ Last < MaxPackets
  /\ packets' = Append(packets, [size |-> n, start |-> Written, put |-> 0])
  /\ sending' = [sending EXCEPT ![t] = Last + 1]
  /\ UNCHANGED <<way, closed>> /\ UNCHANGED receiverVars

\* The client: send waits until the packet has been taken.
SendBlocking(t) ==
  /\ way = "toServer" /\ ~closed
  /\ sending[t] # 0
  /\ LET i == sending[t] IN
       \E k \in 1 .. Smaller(Space, packets[i].size - packets[i].put) :
         /\ packets' = [packets EXCEPT ![i].put = @ + k]
         /\ sending' = [sending EXCEPT ![t] =
                          IF packets[i].put + k = packets[i].size THEN 0 ELSE i]
  /\ UNCHANGED <<way, closed>> /\ UNCHANGED receiverVars

\* The server: send takes what there is space for, and that is all.
SendNonblocking(t) ==
  /\ way = "toClient" /\ ~closed
  /\ sending[t] # 0 /\ Space > 0
  /\ LET i == sending[t] IN
       packets' = [packets EXCEPT ![i].put = Smaller(Space, packets[i].size)]
  /\ sending' = [sending EXCEPT ![t] = 0]
  /\ UNCHANGED <<way, closed>> /\ UNCHANGED receiverVars

\* The server: no space for three seconds, and CRPSend returns -1.
SendTimeout(t) ==
  /\ way = "toClient" /\ ~closed
  /\ sending[t] # 0 /\ Space = 0
  /\ sending' = [sending EXCEPT ![t] = 0]
  /\ UNCHANGED <<way, packets, closed>> /\ UNCHANGED receiverVars

\* The sender's end is closed; the client may do so in the middle of a packet.
Close ==
  /\ ~closed
  /\ way = "toClient" => SendLockFree
  /\ closed' = TRUE
  /\ UNCHANGED <<way, packets, sending>> /\ UNCHANGED receiverVars

(* CRPRecv in the server, and what its callers do between two packets. *)

senderVars == <<way, packets, sending, closed>>

\* Mutant: the connection is given up whenever a packet is incomplete.
NoPacketGivesUp(e) == errno' = e /\ receiver' = "gone"

\* Mutant: the connection is armed again whatever the reason.
NoPacketRearms(e) == errno' = e /\ receiver' = "epoll"

\* CRPRecv has returned NULL: the worker looks at errno, and arms epoll again or
\* deletes the user.
NoPacket(e) == errno' = e /\ receiver' = IF e = "EAGAIN" THEN "epoll" ELSE "gone"

\* The listener finds the socket readable, which a closed one is too.
Report ==
  /\ way = "toServer" /\ receiver = "epoll"
  /\ got < Written \/ closed
  /\ receiver' = "header"
  /\ UNCHANGED <<got, taken, received, errno>> /\ UNCHANGED senderVars

\* One call of recv for the n bytes missing: on to next if they all are there.  At
\* the end of a closed stream it returns 0 and leaves errno alone.
Recv(n, next) ==
  IF got < Written
    THEN LET k == Smaller(n, Written - got) IN
         /\ got' = got + k
         /\ IF k = n THEN receiver' = next /\ UNCHANGED errno ELSE NoPacket("EAGAIN")
    ELSE /\ UNCHANGED got
         /\ NoPacket(IF closed THEN errno ELSE "EAGAIN")

RecvHeader ==
  /\ way = "toServer" /\ receiver = "header"
  /\ LET missing == Header - (got - taken) IN
       IF missing > 0 THEN Recv(missing, "body")
                      ELSE receiver' = "body" /\ UNCHANGED <<got, errno>>
  /\ UNCHANGED <<taken, received>> /\ UNCHANGED senderVars

\* Mutant: the bytes in the buffer are not counted.
MissingAll(p) == p.size

\* Bytes of packet p that are not in the buffer.
Missing(p) == p.size - (got - taken)

\* packet->totalLength is read from the header in the buffer.
RecvBody ==
  /\ way = "toServer" /\ receiver = "body"
  /\ \E i \in DOMAIN packets :
       /\ packets[i].start = taken /\ packets[i].put > 0
       /\ IF Missing(packets[i]) > 0
            THEN Recv(Missing(packets[i]), "complete")
            ELSE receiver' = "complete" /\ UNCHANGED <<got, errno>>
  /\ UNCHANGED <<taken, received>> /\ UNCHANGED senderVars

\* The packet is copied, the buffer emptied and the packet processed, which may leave
\* anything in errno.
Return ==
  /\ receiver = "complete"
  /\ received' = Append(received, <<taken, got>>)
  /\ taken' = got
  /\ receiver' = IF way = "toServer" THEN "epoll" ELSE "header"
  /\ IF way = "toServer" THEN errno' \in Errnos ELSE UNCHANGED errno
  /\ UNCHANGED got /\ UNCHANGED senderVars

\* The worker handles other connections.
OtherConnection ==
  /\ way = "toServer" /\ receiver = "epoll"
  /\ errno' \in Errnos
  /\ UNCHANGED <<got, taken, received, receiver>> /\ UNCHANGED senderVars

(* CRPRecv in the client. *)

\* MSG_PEEK | MSG_WAITALL: the header, which must have the magic number.  One that has
\* been cut short counts as one without.
RecvPeek ==
  /\ way = "toClient" /\ receiver = "header"
  /\ Written - got >= Header \/ closed
  /\ receiver' = IF \E i \in DOMAIN packets : packets[i].start = got /\ packets[i].put >= Header
                   THEN "body" ELSE "gone"
  /\ UNCHANGED <<got, taken, received, errno>> /\ UNCHANGED senderVars

\* MSG_WAITALL: as many bytes as the header says, whatever they are.  One call waits
\* for them all; they are counted as they arrive.
RecvWaitAll ==
  /\ way = "toClient" /\ receiver = "body"
  /\ \E i \in DOMAIN packets :
       /\ packets[i].start = taken /\ packets[i].put >= Header
       /\ \/ /\ got < Written
             /\ LET k == Smaller(Missing(packets[i]), Written - got) IN
                  /\ got' = got + k
                  /\ receiver' = IF k = Missing(packets[i]) THEN "complete" ELSE "body"
          \/ /\ got = Written /\ closed
             /\ UNCHANGED got
             /\ receiver' = "gone"
  /\ UNCHANGED <<taken, received, errno>> /\ UNCHANGED senderVars

-----------------------------------------------------------------------------

Receive == Report \/ RecvHeader \/ RecvBody \/ Return \/ RecvPeek \/ RecvWaitAll

Next ==
  \/ \E t \in Threads :
       \/ \E n \in Sizes : Begin(t, n)
       \/ SendBlocking(t) \/ SendNonblocking(t) \/ SendTimeout(t)
  \/ Close
  \/ Report \/ RecvHeader \/ RecvBody \/ Return \/ OtherConnection
  \/ RecvPeek \/ RecvWaitAll

Spec == Init /\ [][Next]_vars

\* The listener, the workers and the client's receiving thread keep running.
FairSpec == Spec /\ WF_vars(Receive)

-----------------------------------------------------------------------------

\* send has left out the end of packet p, and nobody is going to send it.
Cut(i) == packets[i].put \notin {0, packets[i].size} /\ \A t \in Threads : sending[t] # i

Uncut == \A i \in DOMAIN packets : ~Cut(i)

Types ==
  /\ way \in {"toServer", "toClient"}
  /\ packets \in Seq(Packet)
  /\ \A i \in DOMAIN packets : packets[i].put <= packets[i].size
  /\ sending \in [Threads -> 0 .. Last]
  /\ got \in Nat /\ taken \in Nat
  /\ taken <= got /\ got <= Written /\ Written <= got + Capacity
  /\ received \in Seq(Nat \X Nat)
  /\ receiver \in Receivers
  /\ errno \in Errnos
  /\ closed \in BOOLEAN

\* The buffer holds no bytes behind the packet at its start.
InBuffer == \A i \in DOMAIN packets :
              packets[i].start = taken /\ packets[i].put > 0 => got <= taken + packets[i].size

\* Types; the buffer never holds more than the packet at its start, in whatever pieces
\* CRPRecv collects it, so that context->buffer, emptied with each packet, is never
\* emptied of bytes of the next one.
TypeOK == Types /\ InBuffer

\* Packets do not run into each other, however many threads send: each begins where
\* the one before it ends, and only the last one can be incomplete unless one has
\* been cut.
Contiguous ==
  /\ \A i \in DOMAIN packets \ {1} : packets[i].start = EndOf(packets[i - 1])
  /\ \A t \in Threads : sending[t] \in {0, Last}

\* As long as no packet has been cut, CRPRecv has returned packets that were sent, each
\* of them whole and no other bytes with it, in the order of the stream and without a
\* gap, whatever the pieces in which they arrive.
WholePackets ==
  Uncut =>
    /\ \A n \in DOMAIN received :
         /\ \E i \in DOMAIN packets :
              /\ received[n][1] = packets[i].start
              /\ received[n][2] = packets[i].start + packets[i].size
              /\ packets[i].put = packets[i].size
         /\ received[n][1] = IF n = 1 THEN 0 ELSE received[n - 1][2]
    /\ taken = IF received = <<>> THEN 0 ELSE received[Len(received)][2]

IsComplete(i) == i \in DOMAIN packets /\ packets[i].put = packets[i].size
IsReturned(i) == i \in DOMAIN packets /\ taken >= EndOf(packets[i])

\* A complete packet to the server is handed over, though it may need many rounds.
CompleteIsReturned ==
  \A i \in 1 .. MaxPackets : (way = "toServer" /\ IsComplete(i)) ~> IsReturned(i)

\* A connection whose client has closed it is deleted, unless its worker's errno is
\* EAGAIN, which recv does not change when it returns 0.
CloseIsNoticed == closed ~> receiver = "gone" \/ (way = "toServer" /\ errno = "EAGAIN")
=============================================================================
