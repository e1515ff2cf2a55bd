------------------------- MODULE PacketStreamProofs -------------------------
(***************************************************************************)
(* CRPSend and CRPRecv keep packets apart, for any number of threads, any  *)
(* lengths, any capacity of the network and any pieces in which it         *)
(* delivers: TypeOK, Contiguous and WholePackets of PacketStream.          *)
(*                                                                         *)
(* The inductive invariant IInv says of the sending side that packets lie  *)
(* one behind the other (Contiguous, Order), that one thread at a time is  *)
(* in CRPSend (OneSender) and that its packet is not yet complete (Fresh); *)
(* of the receiving side that the buffer never reaches behind the packet   *)
(* at its start (InBuffer) and ends with it when CRPRecv returns it        *)
(* (AtPacket).  A step of the sender leaves the receiver's part alone      *)
(* because packets that are not being sent stay as they are (Kept).        *)
(***************************************************************************)
EXTENDS PacketStream, SequenceTheorems, TLAPS

\* sendLock: one thread at a time is in CRPSend.
OneSender == \A t, u \in Threads : sending[t] # 0 /\ sending[u] # 0 => t = u

\* send is called once for a packet to a client, and until it returns for one to the server.
Fresh == \A t \in Threads : sending[t] # 0 =>
           packets[sending[t]].put < packets[sending[t]].size
             /\ (way = "toClient" => packets[sending[t]].put = 0)

\* A packet ends before the ones behind it begin.
Order == \A i, j \in DOMAIN packets : i < j => EndOf(packets[i]) <= packets[j].start

\* A packet about to be returned begins where the buffer does, and its length is the
\* number of bytes in the buffer.
AtPacket == receiver = "complete" =>
              \E i \in DOMAIN packets : /\ packets[i].start = taken
                                        /\ packets[i].put > 0
                                        /\ got = taken + packets[i].size

Senders == Types /\ Contiguous /\ Order /\ OneSender /\ Fresh

IInv == Senders /\ InBuffer /\ AtPacket

-----------------------------------------------------------------------------

\* What CRPSend changes of the packets that are not being sent: nothing.
Kept == \A i \in DOMAIN packets : /\ i \in DOMAIN packets'
                                  /\ packets'[i].size = packets[i].size
                                  /\ packets'[i].start = packets[i].start
                                  /\ packets'[i].put >= packets[i].put
                                  /\ (\A t \in Threads : sending[t] # i) =>
                                        /\ packets'[i].put = packets[i].put
                                        /\ \A t \in Threads : sending'[t] # i

\* A packet whose first bytes are sent begins behind all bytes sent before.
Started == \A i \in DOMAIN packets' : packets'[i].put > 0 =>
             i \in DOMAIN packets /\ (packets[i].put > 0 \/ packets[i].start = Written)

\* What has been sent of any packet is among the bytes sent.
LEMMA EndsBefore ==
  ASSUME StreamAssumption, Senders, NEW i \in DOMAIN packets
  PROVE  /\ packets[i].size \in Nat /\ packets[i].size >= Header
         /\ packets[i].start \in Nat /\ packets[i].put \in Nat
         /\ Last \in Nat /\ DOMAIN packets = 1 .. Last /\ Written \in Nat
         /\ Written = EndOf(packets[Last])
         /\ EndOf(packets[i]) <= Written
<1>1. /\ packets \in Seq(Packet) /\ Last \in Nat /\ DOMAIN packets = 1 .. Last
      /\ i \in 1 .. Last /\ Last \in 1 .. Last
  BY DEF Senders, Types, Last
<1>2. packets[i] \in Packet /\ packets[Last] \in Packet
  BY <1>1
<1>3. /\ packets[i].size \in Nat /\ packets[i].start \in Nat /\ packets[i].put \in Nat
      /\ packets[i].size >= Header
      /\ packets[Last].start \in Nat /\ packets[Last].put \in Nat
  BY <1>2 DEF Packet, StreamAssumption
<1>4. packets # <<>>
  BY <1>1
<1>5. Written = EndOf(packets[Last])
  BY <1>4 DEF Written
<1>6. EndOf(packets[i]) <= EndOf(packets[Last])
  <2>1. CASE i = Last
    BY <2>1, <1>3 DEF EndOf
  <2>2. CASE i < Last
    BY <2>2, <1>1, <1>3 DEF EndOf, Senders, Order
  <2> QED
    BY <2>1, <2>2, <1>1
<1> QED
  BY <1>1, <1>3, <1>5, <1>6 DEF EndOf

\* CRPSend gets the lock: a new packet begins at the end of the last one.
LEMMA BeginInv ==
  ASSUME StreamAssumption, Senders,
         NEW t \in Threads, NEW n \in Sizes, Begin(t, n)
  PROVE  Senders' /\ Kept /\ Started /\ Written' = Written
<1> USE DEF Senders
<1> DEFINE p == [size |-> n, start |-> Written, put |-> 0]
<1>t. /\ packets \in Seq(Packet) /\ Last \in Nat /\ DOMAIN packets = 1 .. Last
      /\ got \in Nat /\ n \in Nat /\ n > 0 /\ n \in Sizes
  BY DEF StreamAssumption, Types, Last
<1>w. Written \in Nat
  <2>1. CASE packets = <<>>
    BY <2>1 DEF Written
  <2>2. CASE packets # <<>>
    <3>1. packets[Last] \in Packet
      BY <2>2, <1>t DEF Last
    <3> QED
      BY <3>1, <2>2 DEF Written, EndOf, Packet
  <2> QED
    BY <2>1, <2>2
<1>1. /\ packets \in Seq(Packet) /\ p \in Packet /\ n \in Nat /\ n > 0
      /\ Last \in Nat /\ Written \in Nat /\ got \in Nat
  BY <1>t, <1>w DEF Packet
<1>2. /\ packets' = Append(packets, p)
      /\ packets' \in Seq(Packet) /\ Len(packets') = Last + 1
      /\ packets'[Last + 1] = p
      /\ \A i \in DOMAIN packets : i \in DOMAIN packets' /\ packets'[i] = packets[i]
      /\ DOMAIN packets = 1 .. Last /\ DOMAIN packets' = 1 .. Last + 1
  BY <1>1 DEF Begin, Last
<1>3. Last' = Last + 1 /\ Written' = Written
  BY <1>1, <1>2 DEF Written, Last, EndOf
<1>4. /\ sending' = [sending EXCEPT ![t] = Last + 1]
      /\ \A u \in Threads : sending[u] = 0
      /\ \A u \in Threads \ {t} : sending'[u] = 0
      /\ sending'[t] = Last + 1
      /\ sending \in [Threads -> 0 .. Last]
  BY DEF Begin, SendLockFree, Types
<1>5. Types'
  BY <1>1, <1>2, <1>3, <1>4 DEF Types, Begin, receiverVars
<1>6. Contiguous'
  <2>1. ASSUME NEW i \in (DOMAIN packets \ {1})'
        PROVE  packets'[i].start = EndOf(packets'[i - 1])
    <3>1. CASE i \in DOMAIN packets
      BY <3>1, <1>2, <2>1 DEF Contiguous, EndOf
    <3>2. CASE i = Last + 1
      <4>1. Last # 0 /\ packets # <<>> /\ i - 1 = Last /\ packets'[Last] = packets[Last]
        <5>1. i # 1 /\ Last # 0 /\ i - 1 = Last
          BY <3>2, <1>1, <2>1
        <5>2. Last \in DOMAIN packets
          BY <5>1, <1>1, <1>2
        <5>3. packets # <<>>
          BY <5>1, <1>1 DEF Last
        <5> QED
          BY <5>1, <5>2, <5>3, <1>2
      <4> QED
        BY <4>1, <3>2, <1>2 DEF Written
    <3> QED
      BY <3>1, <3>2, <1>1, <1>2
  <2> QED
    BY <2>1, <1>3, <1>4 DEF Contiguous, EndOf
<1>7. OneSender' /\ Fresh'
  BY <1>1, <1>2, <1>4 DEF OneSender, Fresh, Begin
<1>8. Kept
  <2>1. ASSUME NEW j \in DOMAIN packets
        PROVE  /\ j \in DOMAIN packets'
               /\ packets'[j].size = packets[j].size
               /\ packets'[j].start = packets[j].start
               /\ packets'[j].put >= packets[j].put
    <3>1. packets[j].put \in Nat
      <4>1. packets[j] \in Packet
        BY <1>1
      <4> QED
        BY <4>1 DEF Packet
    <3> QED
      BY <3>1, <1>1, <1>2, <1>4
  <2>2. ASSUME NEW j \in DOMAIN packets, \A u \in Threads : sending[u] # j
        PROVE  /\ packets'[j].put = packets[j].put
               /\ \A u \in Threads : sending'[u] # j
    BY <2>2, <1>1, <1>2, <1>4
  <2> QED
    BY <2>1, <2>2 DEF Kept
<1>9. Started
  BY <1>1, <1>2 DEF Started
<1>10. Order'
  <2>1. ASSUME NEW i \in DOMAIN packets PROVE EndOf(packets[i]) <= Written
    BY <1>1, <2>1, EndsBefore
  <2> QED
    BY <1>1, <1>2, <2>1 DEF Order, EndOf
<1> QED
  BY <1>3, <1>5, <1>6, <1>7, <1>8, <1>9, <1>10

\* send takes k more bytes of the packet of t, which is the last one.
LEMMA PutInv ==
  ASSUME StreamAssumption, Senders,
         NEW t \in Threads, NEW k \in Nat, sending[t] # 0,
         k <= Space, packets[sending[t]].put + k <= packets[sending[t]].size,
         k # 0,
         packets' = [packets EXCEPT ![sending[t]].put = @ + k],
         \/ /\ sending' = [sending EXCEPT ![t] = 0]
         \/ /\ sending' = sending /\ way # "toClient"
            /\ packets[sending[t]].put + k < packets[sending[t]].size,
         UNCHANGED <<way, closed>>, UNCHANGED receiverVars
  PROVE  Senders' /\ Kept /\ Started /\ Written' = Written + k
<1> USE DEF Senders
<1> DEFINE i == sending[t]
<1>1. /\ i = Last /\ i \in DOMAIN packets /\ Last \in Nat /\ DOMAIN packets = 1 .. Last
      /\ packets \in Seq(Packet) /\ packets[i] \in Packet
      /\ sending \in [Threads -> 0 .. Last]
  BY DEF Contiguous, Types, Last
<1>2. /\ packets' \in Seq(Packet) /\ Len(packets') = Last /\ DOMAIN packets' = DOMAIN packets
      /\ \A j \in DOMAIN packets : j # i => packets'[j] = packets[j]
      /\ packets'[i] = [packets[i] EXCEPT !.put = @ + k]
  <2>1. [packets[i] EXCEPT !.put = @ + k] \in Packet
    <3> DEFINE q == packets[i]
    <3>1. q \in Packet
      BY <1>1
    <3> HIDE DEF q
    <3>2. [q EXCEPT !.put = @ + k] \in Packet
      BY <3>1 DEF Packet
    <3> QED
      BY <3>2 DEF q
  <2>2. packets' = [packets EXCEPT ![i] = [packets[i] EXCEPT !.put = @ + k]]
    OBVIOUS
  <2>3. /\ [packets EXCEPT ![i] = [packets[i] EXCEPT !.put = @ + k]] \in Seq(Packet)
        /\ Len([packets EXCEPT ![i] = [packets[i] EXCEPT !.put = @ + k]]) = Last
    <3> DEFINE e == [packets[i] EXCEPT !.put = @ + k]
    <3>1. e \in Packet /\ i \in 1 .. Len(packets)
      BY <1>1, <2>1
    <3> HIDE DEF e, i
    <3>2. [packets EXCEPT ![i] = e] \in Seq(Packet) /\ Len([packets EXCEPT ![i] = e]) = Len(packets)
      BY <1>1, <3>1, ExceptSeq
    <3> QED
      BY <3>2 DEF e, Last
  <2>4. packets' \in Seq(Packet) /\ Len(packets') = Last /\ DOMAIN packets' = DOMAIN packets
    BY <1>1, <2>2, <2>3 DEF Last
  <2>5. /\ \A j \in DOMAIN packets : j # i => packets'[j] = packets[j]
        /\ packets'[i] = [packets[i] EXCEPT !.put = @ + k]
    <3> DEFINE e == [packets[i] EXCEPT !.put = @ + k]
    <3>1. packets' = [packets EXCEPT ![i] = e]
      BY <2>2
    <3> HIDE DEF e, i
    <3>2. packets'[i] = e /\ \A j \in DOMAIN packets : j # i => packets'[j] = packets[j]
      BY <1>1, <3>1
    <3> QED
      BY <3>2 DEF e
  <2> QED
    BY <2>4, <2>5
<1>3. /\ packets'[i].size = packets[i].size /\ packets'[i].start = packets[i].start
      /\ packets'[i].put = packets[i].put + k
      /\ packets[i].put \in Nat /\ packets[i].size \in Nat /\ packets[i].start \in Nat
  BY <1>1, <1>2 DEF Packet, StreamAssumption
<1>4. Last' = Last /\ Written' = Written + k /\ Written \in Nat
  BY <1>1, <1>2, <1>3 DEF Written, Last, EndOf
<1>5. /\ sending' \in [Threads -> 0 .. Last]
      /\ \A u \in Threads \ {t} : sending'[u] = sending[u]
      /\ \A u \in Threads : sending'[u] # 0 => sending'[u] = sending[u]
      /\ \A u \in Threads \ {t} : sending[u] = 0
  BY <1>1 DEF OneSender
<1>6. Types'
  <2>1. \A j \in DOMAIN packets' : packets'[j].put <= packets'[j].size
    BY <1>1, <1>2, <1>3 DEF Types
  <2>2. got \in Nat /\ Capacity \in Nat /\ got <= Written /\ Written + k <= got + Capacity
    BY <1>4 DEF Types, StreamAssumption, Space
  <2>3. got' <= Written' /\ Written' <= got' + Capacity /\ taken' <= got'
    BY <1>4, <2>2 DEF Types, receiverVars
  <2> QED
    BY <1>2, <1>4, <1>5, <2>1, <2>3 DEF Types, receiverVars
<1>7. Contiguous'
  <2>1. ASSUME NEW j \in DOMAIN packets \ {1}
        PROVE  packets'[j].start = packets'[j - 1].start + packets'[j - 1].put
    <3>1. j - 1 \in DOMAIN packets /\ j - 1 # i
      BY <1>1
    <3> QED
      BY <3>1, <1>2, <1>3 DEF Contiguous, EndOf
  <2> QED
    BY <2>1, <1>2, <1>4, <1>5 DEF Contiguous, EndOf
<1>8. OneSender'
  BY <1>5 DEF OneSender
<1>9. Fresh'
  BY <1>1, <1>2, <1>3, <1>5 DEF Fresh
<1>10. Kept
  <2>1. ASSUME NEW j \in DOMAIN packets
        PROVE  /\ j \in DOMAIN packets'
               /\ packets'[j].size = packets[j].size
               /\ packets'[j].start = packets[j].start
               /\ packets'[j].put >= packets[j].put
    <3>1. packets[j].put \in Nat
      <4>1. packets[j] \in Packet
        BY <1>1
      <4> QED
        BY <4>1 DEF Packet
    <3> QED
      BY <3>1, <1>1, <1>2, <1>3, <1>5
  <2>2. ASSUME NEW j \in DOMAIN packets, \A u \in Threads : sending[u] # j
        PROVE  /\ packets'[j].put = packets[j].put
               /\ \A u \in Threads : sending'[u] # j
    BY <2>2, <1>1, <1>2, <1>3, <1>5
  <2> QED
    BY <2>1, <2>2 DEF Kept
<1>11. Started
  BY <1>1, <1>2, <1>3 DEF Started, Written, EndOf, Last
<1>12. Order'
  BY <1>1, <1>2, <1>3 DEF Order, EndOf
<1> QED
  BY <1>4, <1>6, <1>7, <1>8, <1>9, <1>10, <1>11, <1>12

\* Two packets of which something has been sent do not begin at the same place.
LEMMA OneAtPlace ==
  ASSUME StreamAssumption, Senders,
         NEW i \in DOMAIN packets, NEW j \in DOMAIN packets,
         packets[i].start = packets[j].start, packets[i].put > 0, packets[j].put > 0
  PROVE  i = j
<1>1. /\ i \in Int /\ j \in Int
      /\ packets[i].start \in Nat /\ packets[i].put \in Nat
      /\ packets[j].start \in Nat /\ packets[j].put \in Nat
  BY EndsBefore
<1>2. ~(i < j) /\ ~(j < i)
  BY <1>1 DEF Senders, Order, EndOf
<1> QED
  BY <1>1, <1>2

\* CRPSend and the end of the connection change nothing the receiver relies on.
LEMMA SenderStep ==
  ASSUME StreamAssumption, IInv,
         \/ \E t \in Threads :
              \/ \E n \in Sizes : Begin(t, n)
              \/ SendBlocking(t) \/ SendNonblocking(t) \/ SendTimeout(t)
         \/ Close
  PROVE  IInv' /\ Kept /\ UNCHANGED <<way, receiverVars>>
<1>t. got \in Nat /\ Written \in Nat /\ Capacity \in Nat /\ got <= Written
  <2>1. CASE packets = <<>>
    BY <2>1 DEF IInv, Senders, Types, StreamAssumption, Written
  <2>2. CASE packets # <<>>
    BY <2>2, EndsBefore DEF IInv, Senders, Types, StreamAssumption
  <2> QED
    BY <2>1, <2>2
<1>1. Senders' /\ Kept /\ Started /\ UNCHANGED <<way, receiverVars>>
  <2>1. ASSUME NEW t \in Threads, NEW n \in Sizes, Begin(t, n)
        PROVE  Senders' /\ Kept /\ Started /\ UNCHANGED <<way, receiverVars>>
    BY <2>1, BeginInv DEF IInv, Begin
  <2>2. ASSUME NEW t \in Threads, SendBlocking(t)
        PROVE  Senders' /\ Kept /\ Started /\ UNCHANGED <<way, receiverVars>>
    <3>1. PICK k \in 1 .. Smaller(Space, packets[sending[t]].size - packets[sending[t]].put) :
            /\ packets' = [packets EXCEPT ![sending[t]].put = @ + k]
            /\ sending' = [sending EXCEPT ![t] =
                             IF packets[sending[t]].put + k = packets[sending[t]].size
                               THEN 0 ELSE sending[t]]
      BY <2>2 DEF SendBlocking
    <3>2. sending[t] \in DOMAIN packets /\ sending \in [Threads -> 0 .. Last]
      BY <2>2 DEF SendBlocking, IInv, Senders, Types, Last
    <3>3. packets[sending[t]].size \in Nat /\ packets[sending[t]].put \in Nat
      BY <3>2, EndsBefore DEF IInv
    <3>4. /\ k \in Nat /\ k # 0 /\ k <= Space
          /\ packets[sending[t]].put + k <= packets[sending[t]].size
      BY <1>t, <3>1, <3>3 DEF Smaller, Space
    <3>5. \/ sending' = [sending EXCEPT ![t] = 0]
          \/ /\ sending' = sending
             /\ packets[sending[t]].put + k < packets[sending[t]].size
      <4>1. CASE packets[sending[t]].put + k = packets[sending[t]].size
        BY <4>1, <3>1
      <4>2. CASE packets[sending[t]].put + k # packets[sending[t]].size
        <5>1. packets[sending[t]].put + k < packets[sending[t]].size
          BY <4>2, <3>3, <3>4
        <5>2. sending' = [sending EXCEPT ![t] = sending[t]]
          BY <4>2, <3>1
        <5> QED
          BY <5>1, <5>2, <3>2
      <4> QED
        BY <4>1, <4>2
    <3> QED
      BY <2>2, <3>1, <3>4, <3>5, PutInv DEF SendBlocking, IInv
  <2>3. ASSUME NEW t \in Threads, SendNonblocking(t)
        PROVE  Senders' /\ Kept /\ Started /\ UNCHANGED <<way, receiverVars>>
    <3> DEFINE k == Smaller(Space, packets[sending[t]].size)
    <3>2. sending[t] \in DOMAIN packets /\ sending \in [Threads -> 0 .. Last]
      BY <2>3 DEF SendNonblocking, IInv, Senders, Types, Last
    <3>3. /\ packets[sending[t]].size \in Nat
          /\ packets[sending[t]].put = 0 /\ packets[sending[t]].put < packets[sending[t]].size
      BY <2>3, <3>2, EndsBefore DEF SendNonblocking, IInv, Senders, Fresh
    <3>4. /\ k \in Nat /\ k # 0 /\ k <= Space
          /\ packets[sending[t]].put + k <= packets[sending[t]].size
      BY <2>3, <1>t, <3>3 DEF Smaller, Space, SendNonblocking
    <3>5. packets' = [packets EXCEPT ![sending[t]].put = @ + k]
      <4>1. packets' = [packets EXCEPT ![sending[t]].put = k]
        BY <2>3 DEF SendNonblocking
      <4> HIDE DEF k
      <4>2. packets[sending[t]].put + k = k
        BY <3>3, <3>4
      <4> QED
        BY <4>1, <4>2
    <3> HIDE DEF k
    <3> QED
      BY <2>3, <3>4, <3>5, PutInv DEF SendNonblocking, IInv
  <2>4. ASSUME NEW t \in Threads, SendTimeout(t)
        PROVE  Senders' /\ Kept /\ Started /\ UNCHANGED <<way, receiverVars>>
    <3>1. /\ \A u \in Threads : sending'[u] # 0 => sending'[u] = sending[u]
          /\ \A u \in Threads : sending'[u] \in {0, sending[u]}
          /\ packets' = packets /\ Last' = Last /\ Written' = Written
          /\ sending' \in [Threads -> 0 .. Last]
      BY <2>4 DEF SendTimeout, IInv, Senders, Types, Last, Written
    <3>2. Senders'
      BY <2>4, <3>1 DEF SendTimeout, IInv, Senders, Types, Contiguous, Order, OneSender,
         Fresh, receiverVars
    <3>3. Kept
      <4>1. ASSUME NEW j \in DOMAIN packets
            PROVE  packets[j].put \in Nat
        BY <4>1, EndsBefore DEF IInv
      <4>2. ASSUME NEW j \in DOMAIN packets, \A u \in Threads : sending[u] # j
            PROVE  \A u \in Threads : sending'[u] # j
        <5>1. j # 0
          BY <4>2 DEF IInv, Senders, Types
        <5> QED
          BY <4>2, <3>1, <5>1
      <4> QED
        BY <3>1, <4>1, <4>2 DEF Kept
    <3>4. Started
      BY <3>1 DEF Started
    <3> QED
      BY <2>4, <3>2, <3>3, <3>4 DEF SendTimeout
  <2>5. ASSUME Close
        PROVE  Senders' /\ Kept /\ Started /\ UNCHANGED <<way, receiverVars>>
    <3>1. packets' = packets /\ sending' = sending /\ Last' = Last /\ Written' = Written
      BY <2>5 DEF Close, Last, Written
    <3>2. Senders'
      BY <2>5, <3>1 DEF Close, IInv, Senders, Types, Contiguous, Order, OneSender, Fresh,
         receiverVars
    <3>3. Kept
      <4>1. ASSUME NEW j \in DOMAIN packets
            PROVE  packets[j].put \in Nat
        BY <4>1, EndsBefore DEF IInv
      <4> QED
        BY <3>1, <4>1 DEF Kept
    <3>4. Started
      BY <3>1 DEF Started
    <3> QED
      BY <2>5, <3>2, <3>3, <3>4 DEF Close
  <2> QED
    BY <2>1, <2>2, <2>3, <2>4, <2>5
<1>2. InBuffer'
  <2> SUFFICES ASSUME NEW i \in DOMAIN packets',
                      packets'[i].start = taken, packets'[i].put > 0
               PROVE  got <= taken + packets'[i].size
    BY <1>1 DEF InBuffer, receiverVars
  <2>1. /\ i \in DOMAIN packets
        /\ packets[i].put > 0 \/ packets[i].start = Written
        /\ packets'[i].size = packets[i].size /\ packets'[i].start = packets[i].start
    BY <1>1 DEF Started, Kept
  <2>2. packets[i].size \in Nat /\ taken \in Nat
    BY <2>1, EndsBefore DEF IInv, Senders, Types
  <2>3. CASE packets[i].put > 0
    BY <2>1, <2>3 DEF IInv, InBuffer
  <2>4. CASE packets[i].start = Written
    BY <2>1, <2>2, <2>4, <1>t
  <2> QED
    BY <2>1, <2>3, <2>4
<1>3. AtPacket'
  <2>1. ASSUME NEW i \in DOMAIN packets, packets[i].put > 0
        PROVE  /\ i \in DOMAIN packets' /\ packets'[i].put > 0
               /\ packets'[i].size = packets[i].size /\ packets'[i].start = packets[i].start
    <3>1. packets[i].put \in Nat
      BY <2>1, EndsBefore DEF IInv
    <3>2. packets'[i].put \in Nat
      <4>1. packets'[i] \in Packet
        BY <2>1, <1>1 DEF Kept, Senders, Types
      <4> QED
        BY <4>1 DEF Packet
    <3> QED
      BY <2>1, <3>1, <3>2, <1>1 DEF Kept
  <2> QED
    BY <1>1, <2>1 DEF IInv, AtPacket, receiverVars
<1> QED
  BY <1>1, <1>2, <1>3 DEF IInv

\* One call of recv.
LEMMA RecvInv ==
  ASSUME NEW n \in Nat, n > 0, NEW next \in {"body", "complete"},
         got \in Nat, Written \in Nat, got <= Written, errno \in Errnos,
         Recv(n, next)
  PROVE  /\ got' \in Nat /\ got <= got' /\ got' <= Written /\ got' <= got + n
         /\ receiver' \in {next, "epoll", "gone"} /\ errno' \in Errnos
         /\ receiver' = next => got' = got + n
<1>1. CASE got < Written
  <2>1. Smaller(n, Written - got) \in Nat /\ Smaller(n, Written - got) <= n
          /\ Smaller(n, Written - got) <= Written - got
    BY <1>1 DEF Smaller
  <2> QED
    BY <1>1, <2>1 DEF Recv, NoPacket, Errnos
<1>2. CASE ~(got < Written)
  BY <1>2 DEF Recv, NoPacket, Errnos
<1> QED
  BY <1>1, <1>2

\* Types of what has been received.
ReceivedTyped == received \in Seq(Nat \X Nat)

\* What has been written still fits when more of it has been got.
LEMMA RoomKept ==
  \A w, g, gg, c \in Nat : w <= g + c /\ g <= gg => w <= gg + c
OBVIOUS

\* The receiver changes nothing of what has been sent, and keeps the buffer at the
\* beginning of a packet.
LEMMA ReceiverStep ==
  ASSUME StreamAssumption, IInv,
         Report \/ RecvHeader \/ RecvBody \/ Return \/ OtherConnection
           \/ RecvPeek \/ RecvWaitAll
  PROVE  IInv' /\ UNCHANGED senderVars
<1>1. UNCHANGED senderVars
  BY DEF Report, RecvHeader, RecvBody, Return, OtherConnection, RecvPeek, RecvWaitAll
<1> SUFFICES IInv'
  BY <1>1
<1>2. Last' = Last /\ Written' = Written
  BY <1>1 DEF senderVars, Last, Written
<1>t. /\ got \in Nat /\ taken \in Nat /\ Written \in Nat /\ taken <= got /\ got <= Written
      /\ Header \in Nat /\ Header > 0 /\ Capacity \in Nat /\ Written <= got + Capacity
      /\ errno \in Errnos
  <2>1. Written \in Nat
    <3>1. CASE packets = <<>>
      BY <3>1 DEF Written
    <3>2. CASE packets # <<>>
      <4>1. 1 \in DOMAIN packets
        BY <3>2 DEF IInv, Senders, Types
      <4> QED
        BY <4>1, EndsBefore DEF IInv
    <3> QED
      BY <3>1, <3>2
  <2> QED
    BY <2>1 DEF IInv, Senders, Types, StreamAssumption
<1>r. ReceivedTyped
  BY DEF IInv, Senders, Types, ReceivedTyped
\* It suffices to look at the buffer, and at where the receiver is.
<1>3. ASSUME got' \in Nat, taken' \in Nat, taken' <= got', got <= got', got' <= Written,
             ReceivedTyped', receiver' \in Receivers, errno' \in Errnos,
             InBuffer', AtPacket'
      PROVE  IInv'
  <2>1. Types'
    <3>1. Types
      BY DEF IInv, Senders
    <3>2. /\ way' = way /\ packets' = packets /\ sending' = sending /\ closed' = closed
          /\ Last' = Last
      BY <1>1, <1>2 DEF senderVars
    <3>3. /\ way \in {"toServer", "toClient"} /\ packets \in Seq(Packet)
          /\ \A i \in DOMAIN packets : packets[i].put <= packets[i].size
          /\ sending \in [Threads -> 0 .. Last] /\ closed \in BOOLEAN
      BY <3>1 DEF Types
    <3>4. /\ way' \in {"toServer", "toClient"} /\ packets' \in Seq(Packet)
          /\ \A i \in DOMAIN packets' : packets'[i].put <= packets'[i].size
          /\ sending' \in [Threads -> 0 .. Last'] /\ closed' \in BOOLEAN
      BY <3>2, <3>3
    <3>5. got' <= Written' /\ Written' <= got' + Capacity
      BY <1>2, <1>3, <1>t, RoomKept
    <3> QED
      BY <3>4, <3>5, <1>3 DEF Types, ReceivedTyped
  <2>2. Contiguous' /\ Order' /\ OneSender' /\ Fresh'
    BY <1>1, <1>2 DEF IInv, Senders, Contiguous, Order, OneSender, Fresh, senderVars
  <2> QED
    BY <2>1, <2>2, <1>3 DEF IInv, Senders
<1>u. received' = received => ReceivedTyped'
  BY <1>r DEF ReceivedTyped
<1>4. CASE UNCHANGED <<got, taken, received>> /\ receiver' \in Receivers \ {"complete"}
             /\ errno' \in Errnos
  <2>1. InBuffer' /\ AtPacket'
    BY <1>1, <1>4 DEF IInv, InBuffer, AtPacket, senderVars
  <2> QED
    BY <2>1, <1>3, <1>4, <1>t, <1>u
<1>5. CASE Report \/ OtherConnection \/ RecvPeek
  BY <1>4, <1>5, <1>t DEF Report, OtherConnection, RecvPeek, Receivers
<1>6. CASE RecvHeader
  <2>1. CASE Header - (got - taken) > 0
    <3> DEFINE n == Header - (got - taken)
    <3>1. n \in Nat /\ n > 0
      BY <2>1, <1>t
    <3>2. Recv(n, "body") /\ UNCHANGED <<taken, received>>
      BY <1>6, <2>1 DEF RecvHeader
    <3> HIDE DEF n
    <3>3. /\ got' \in Nat /\ got <= got' /\ got' <= Written /\ got' <= got + n
          /\ receiver' \in {"body", "epoll", "gone"} /\ errno' \in Errnos
      BY <3>1, <3>2, <1>t, RecvInv
    <3>4. got' <= taken + Header
      BY <3>3, <1>t DEF n
    <3>5. InBuffer'
      <4>1. ASSUME NEW i \in DOMAIN packets PROVE taken + Header <= taken + packets[i].size
        BY <4>1, <1>t, EndsBefore DEF IInv
      <4>2. ASSUME NEW i \in DOMAIN packets PROVE packets[i].size \in Nat
        BY <4>2, EndsBefore DEF IInv
      <4> QED
        BY <4>1, <4>2, <3>2, <3>3, <3>4, <1>1, <1>t DEF InBuffer, senderVars
    <3>6. AtPacket'
      BY <3>3 DEF AtPacket
    <3> QED
      BY <3>2, <3>3, <3>5, <3>6, <1>3, <1>t, <1>u DEF Receivers
  <2>2. CASE ~(Header - (got - taken) > 0)
    BY <1>4, <1>6, <2>2, <1>t DEF RecvHeader, Receivers
  <2> QED
    BY <2>1, <2>2
<1>7. CASE RecvBody
  <2>1. PICK i \in DOMAIN packets :
          /\ packets[i].start = taken /\ packets[i].put > 0
          /\ IF Missing(packets[i]) > 0
               THEN Recv(Missing(packets[i]), "complete")
               ELSE receiver' = "complete" /\ UNCHANGED <<got, errno>>
    BY <1>7 DEF RecvBody
  <2>2. packets[i].size \in Nat /\ UNCHANGED <<taken, received>> /\ got <= taken + packets[i].size
    BY <1>7, <2>1, EndsBefore DEF RecvBody, IInv, InBuffer
  <2> DEFINE n == Missing(packets[i])
  <2>3. n \in Nat /\ n = packets[i].size - (got - taken)
    BY <2>2, <1>t DEF Missing
  <2>4. /\ got' \in Nat /\ got <= got' /\ got' <= Written /\ got' <= got + n
        /\ receiver' \in {"complete", "epoll", "gone"} /\ errno' \in Errnos
        /\ receiver' = "complete" => got' = got + n
    <3>1. CASE n > 0
      <4>1. Recv(n, "complete")
        BY <2>1, <3>1
      <4> HIDE DEF n
      <4> QED
        BY <2>3, <3>1, <4>1, <1>t, RecvInv
    <3>2. CASE ~(n > 0)
      <4>1. n = 0 /\ receiver' = "complete" /\ UNCHANGED <<got, errno>>
        BY <2>1, <2>3, <3>2
      <4> HIDE DEF n
      <4> QED
        BY <4>1, <1>t
    <3> QED
      BY <3>1, <3>2
  <2> HIDE DEF n
  <2>5. got' <= taken + packets[i].size /\ (receiver' = "complete" => got' = taken + packets[i].size)
    BY <2>2, <2>3, <2>4, <1>t
  <2>6. InBuffer' /\ AtPacket'
    BY <2>1, <2>2, <2>5, <1>1, OneAtPlace DEF IInv, InBuffer, AtPacket, senderVars
  <2> QED
    BY <2>2, <2>4, <2>6, <1>3, <1>t, <1>u DEF Receivers
<1>8. CASE RecvWaitAll
  <2>1. PICK i \in DOMAIN packets :
          /\ packets[i].start = taken /\ packets[i].put >= Header
          /\ \/ /\ got < Written
                /\ LET k == Smaller(Missing(packets[i]), Written - got) IN
                     /\ got' = got + k
                     /\ receiver' = IF k = Missing(packets[i]) THEN "complete" ELSE "body"
             \/ /\ got = Written /\ closed
                /\ UNCHANGED got
                /\ receiver' = "gone"
    BY <1>8 DEF RecvWaitAll
  <2>2. /\ packets[i].size \in Nat /\ packets[i].put \in Nat /\ packets[i].put > 0
        /\ UNCHANGED <<taken, received, errno>> /\ got <= taken + packets[i].size
    BY <1>8, <1>t, <2>1, EndsBefore DEF RecvWaitAll, IInv, InBuffer
  <2> DEFINE n == Missing(packets[i])
  <2>3. n \in Nat /\ n = packets[i].size - (got - taken)
    BY <2>2, <1>t DEF Missing
  <2>4. /\ got' \in Nat /\ got <= got' /\ got' <= Written /\ got' <= got + n
        /\ receiver' \in {"complete", "body", "gone"}
        /\ receiver' = "complete" => got' = got + n
    <3> HIDE DEF n
    <3>1. CASE got < Written
      <4>1. /\ got' = got + Smaller(n, Written - got)
            /\ receiver' = IF Smaller(n, Written - got) = n THEN "complete" ELSE "body"
        BY <2>1, <3>1, <1>t DEF n
      <4> QED
        BY <2>3, <3>1, <4>1, <1>t DEF Smaller
    <3>2. CASE got = Written
      BY <2>1, <2>3, <3>2, <1>t
    <3> QED
      BY <3>1, <3>2, <1>t
  <2> HIDE DEF n
  <2>5. got' <= taken + packets[i].size /\ (receiver' = "complete" => got' = taken + packets[i].size)
    BY <2>2, <2>3, <2>4, <1>t
  <2>6. InBuffer' /\ AtPacket'
    BY <2>1, <2>2, <2>5, <1>1, OneAtPlace DEF IInv, InBuffer, AtPacket, senderVars
  <2> QED
    BY <2>2, <2>4, <2>6, <1>3, <1>t, <1>u DEF Receivers
<1>9. CASE Return
  <2>1. /\ UNCHANGED got /\ taken' = got /\ received' = Append(received, <<taken, got>>)
        /\ receiver' \in {"epoll", "header"} /\ errno' \in Errnos
    BY <1>9, <1>t DEF Return
  <2>2. ReceivedTyped'
    BY <2>1, <1>t, <1>r DEF ReceivedTyped
  <2>3. InBuffer'
    <3>1. ASSUME NEW i \in DOMAIN packets PROVE got <= got + packets[i].size
      BY <3>1, <1>t, EndsBefore DEF IInv
    <3> QED
      BY <2>1, <3>1, <1>1 DEF InBuffer, senderVars
  <2>4. AtPacket'
    BY <2>1 DEF AtPacket
  <2> QED
    BY <2>1, <2>2, <2>3, <2>4, <1>3, <1>t, <1>u DEF Receivers
<1> QED
  BY <1>1, <1>5, <1>6, <1>7, <1>8, <1>9

-----------------------------------------------------------------------------

LEMMA InitInv == StreamAssumption /\ Init => IInv /\ WholePackets
<1> SUFFICES ASSUME StreamAssumption, Init PROVE IInv /\ WholePackets
  OBVIOUS
<1>1. packets = <<>> /\ Last = 0 /\ Written = 0 /\ DOMAIN packets = {}
  BY DEF Init, Last, Written
<1>2. Types
  <2>1. packets \in Seq(Packet) /\ received \in Seq(Nat \X Nat)
    BY <1>1 DEF Init
  <2>2. /\ \A i \in DOMAIN packets : packets[i].put <= packets[i].size
        /\ sending \in [Threads -> 0 .. Last]
    BY <1>1 DEF Init
  <2>3. got \in Nat /\ taken \in Nat /\ taken <= got /\ got <= Written
          /\ Written <= got + Capacity
    BY <1>1 DEF Init, StreamAssumption
  <2>4. /\ way \in {"toServer", "toClient"} /\ receiver \in Receivers
        /\ errno \in Errnos /\ closed \in BOOLEAN
    BY DEF Init, StreamAssumption, Receivers, Errnos
  <2> QED
    BY <2>1, <2>2, <2>3, <2>4 DEF Types
<1>3. Contiguous /\ Order /\ OneSender /\ Fresh /\ InBuffer /\ AtPacket
  BY <1>1 DEF Init, Contiguous, Order, OneSender, Fresh, InBuffer, AtPacket
<1>4. WholePackets
  BY DEF Init, WholePackets
<1> QED
  BY <1>2, <1>3, <1>4 DEF IInv, Senders

LEMMA NextInv == StreamAssumption /\ IInv /\ [Next]_vars => IInv'
<1> SUFFICES ASSUME StreamAssumption, IInv, [Next]_vars PROVE IInv'
  OBVIOUS
<1>1. CASE Next
  BY <1>1, SenderStep, ReceiverStep DEF Next
<1>2. CASE UNCHANGED vars
  BY <1>2 DEF vars, IInv, Senders, Types, Contiguous, Order, OneSender, Fresh, InBuffer,
     AtPacket, Last, Written
<1> QED
  BY <1>1, <1>2

\* PacketStream keeps its types, for all numbers of threads, lengths and capacities.
THEOREM StreamTypeCorrect == Spec => []TypeOK
<1>1. IInv => TypeOK
  BY DEF IInv, Senders, TypeOK
<1> QED
  BY <1>1, InitInv, NextInv, StreamAssumption, PTL DEF Spec

\* sendLock keeps packets apart: whatever the number of threads in CRPSend, each packet
\* begins where the one before it ends.
THEOREM ContiguousAlways == Spec => []Contiguous
<1>1. IInv => Contiguous
  BY DEF IInv, Senders
<1> QED
  BY <1>1, InitInv, NextInv, StreamAssumption, PTL DEF Spec

\* A step returns at most the packet at the start of the buffer, and what was returned
\* and sent before it stays.
LEMMA WholeStep == StreamAssumption /\ IInv /\ WholePackets /\ [Next]_vars => WholePackets'
<1> SUFFICES ASSUME StreamAssumption, IInv, WholePackets, [Next]_vars, Uncut'
             PROVE  /\ \A n \in DOMAIN received' :
                         /\ \E i \in DOMAIN packets' :
                              /\ received'[n][1] = packets'[i].start
                              /\ received'[n][2] = packets'[i].start + packets'[i].size
                              /\ packets'[i].put = packets'[i].size
                         /\ received'[n][1] = IF n = 1 THEN 0 ELSE received'[n - 1][2]
                    /\ taken' = IF received' = <<>> THEN 0 ELSE received'[Len(received')][2]
  BY DEF WholePackets
<1>i. IInv'
  BY NextInv
\* CRPSend: what is complete stays so, and what has been cut too.
<1>1. CASE Kept /\ UNCHANGED receiverVars
  <2>1. Uncut
    <3>1. ASSUME NEW i \in DOMAIN packets, Cut(i) PROVE FALSE
      <4>1. i \in DOMAIN packets' /\ Cut(i)'
        BY <3>1, <1>1 DEF Cut, Kept
      <4> QED
        BY <4>1 DEF Uncut
    <3> QED
      BY <3>1 DEF Uncut
  <2>2. ASSUME NEW i \in DOMAIN packets, packets[i].put = packets[i].size
        PROVE  /\ i \in DOMAIN packets' /\ packets'[i].put = packets'[i].size
               /\ packets'[i].size = packets[i].size /\ packets'[i].start = packets[i].start
    <3>1. /\ i \in DOMAIN packets' /\ packets'[i].put >= packets'[i].size
          /\ packets'[i].size = packets[i].size /\ packets'[i].start = packets[i].start
      BY <2>2, <1>1 DEF Kept
    <3>2. packets'[i].put \in Nat /\ packets'[i].size \in Nat
            /\ packets'[i].put <= packets'[i].size
      <4>1. packets'[i] \in Packet /\ packets'[i].put <= packets'[i].size
        BY <3>1, <1>i DEF IInv, Senders, Types
      <4>2. packets'[i].put \in Nat /\ packets'[i].size \in Nat
        BY <4>1 DEF Packet, StreamAssumption
      <4> QED
        BY <4>1, <4>2
    <3> QED
      BY <3>1, <3>2
  <2> QED
    BY <1>1, <2>1, <2>2 DEF WholePackets, receiverVars
\* All receiver's steps but one.
<1>2. CASE UNCHANGED <<packets, sending, taken, received>>
  <2>1. Uncut
    BY <1>2 DEF Uncut, Cut
  <2> QED
    BY <1>2, <2>1 DEF WholePackets
\* The packet that is returned is complete: it has been taken to its end.
<1>3. CASE Return
  <2>1. /\ UNCHANGED senderVars /\ received' = Append(received, <<taken, got>>)
        /\ taken' = got /\ got' = got
    BY <1>3 DEF Return
  <2>2. Uncut
    BY <2>1 DEF Uncut, Cut, senderVars
  <2>3. PICK i \in DOMAIN packets :
          packets[i].start = taken /\ packets[i].put > 0 /\ got = taken + packets[i].size
    BY <1>3 DEF Return, IInv, AtPacket
  <2>4. /\ packets[i].size \in Nat /\ packets[i].put \in Nat /\ packets[i].start \in Nat
        /\ Written = EndOf(packets[Last]) /\ Written \in Nat /\ got <= Written
        /\ packets[i].put <= packets[i].size
    BY <2>3, EndsBefore DEF IInv, Senders, Types
  <2>5. packets[i].put = packets[i].size
    <3>1. CASE packets[i].put \in {0, packets[i].size}
      BY <3>1, <2>3, <2>4
    <3>2. CASE packets[i].put \notin {0, packets[i].size}
      <4>1. i = Last
        <5>1. PICK t \in Threads : sending[t] = i
          BY <3>2, <2>2, <2>3 DEF Uncut, Cut
        <5>2. i # 0
          BY <2>3 DEF IInv, Senders, Types
        <5> QED
          BY <5>1, <5>2 DEF IInv, Senders, Contiguous
      <4> QED
        BY <4>1, <2>3, <2>4 DEF EndOf
    <3> QED
      BY <3>1, <3>2
  <2>6. /\ received \in Seq(Nat \X Nat) /\ taken \in Nat /\ got \in Nat
        /\ \A n \in DOMAIN received :
             /\ \E j \in DOMAIN packets :
                  /\ received[n][1] = packets[j].start
                  /\ received[n][2] = packets[j].start + packets[j].size
                  /\ packets[j].put = packets[j].size
             /\ received[n][1] = IF n = 1 THEN 0 ELSE received[n - 1][2]
        /\ taken = IF received = <<>> THEN 0 ELSE received[Len(received)][2]
    BY <2>2 DEF WholePackets, IInv, Senders, Types
  <2> DEFINE N == Len(received)
  <2>7. /\ N \in Nat /\ DOMAIN received = 1 .. N /\ DOMAIN received' = 1 .. N + 1
        /\ Len(received') = N + 1 /\ received' # <<>>
        /\ received'[N + 1] = <<taken, got>>
        /\ \A n \in 1 .. N : received'[n] = received[n]
        /\ received = <<>> <=> N = 0
    BY <2>1, <2>6
  <2> HIDE DEF N
  <2>8. ASSUME NEW n \in 1 .. N + 1
        PROVE  /\ \E j \in DOMAIN packets :
                    /\ received'[n][1] = packets[j].start
                    /\ received'[n][2] = packets[j].start + packets[j].size
                    /\ packets[j].put = packets[j].size
               /\ received'[n][1] = IF n = 1 THEN 0 ELSE received'[n - 1][2]
    <3>1. CASE n = N + 1
      <4>1. received'[n][1] = taken /\ received'[n][2] = got
        BY <3>1, <2>7
      <4>2. \E j \in DOMAIN packets :
              /\ received'[n][1] = packets[j].start
              /\ received'[n][2] = packets[j].start + packets[j].size
              /\ packets[j].put = packets[j].size
        BY <4>1, <2>3, <2>5
      <4>3. taken = IF n = 1 THEN 0 ELSE received'[n - 1][2]
        <5>1. CASE N = 0
          BY <5>1, <3>1, <2>6, <2>7
        <5>2. CASE N # 0
          <6>1. n # 1 /\ n - 1 = N /\ received'[N] = received[N] /\ received # <<>>
            BY <5>2, <3>1, <2>7
          <6>2. taken = received[N][2]
            BY <6>1, <2>6 DEF N
          <6> QED
            BY <6>1, <6>2
        <5> QED
          BY <5>1, <5>2
      <4> QED
        BY <4>1, <4>2, <4>3
    <3>2. CASE n \in 1 .. N
      <4>1. received'[n] = received[n] /\ (n # 1 => received'[n - 1] = received[n - 1])
        BY <3>2, <2>7
      <4>2. n \in DOMAIN received
        BY <3>2, <2>7
      <4>3. \E j \in DOMAIN packets :
              /\ received'[n][1] = packets[j].start
              /\ received'[n][2] = packets[j].start + packets[j].size
              /\ packets[j].put = packets[j].size
        <5>1. PICK j \in DOMAIN packets :
                /\ received[n][1] = packets[j].start
                /\ received[n][2] = packets[j].start + packets[j].size
                /\ packets[j].put = packets[j].size
          BY <4>2, <2>6
        <5> QED
          BY <5>1, <4>1
      <4>4. received'[n][1] = IF n = 1 THEN 0 ELSE received'[n - 1][2]
        <5>1. received[n][1] = IF n = 1 THEN 0 ELSE received[n - 1][2]
          BY <4>2, <2>6
        <5> QED
          BY <5>1, <4>1
      <4> QED
        BY <4>3, <4>4
    <3> QED
      BY <3>1, <3>2, <2>7
  <2> QED
    BY <2>1, <2>7, <2>8 DEF senderVars
<1>4. CASE UNCHANGED vars
  BY <1>2, <1>4 DEF vars
<1>5. CASE Report \/ RecvHeader \/ RecvBody \/ OtherConnection \/ RecvPeek \/ RecvWaitAll
  <2>1. UNCHANGED <<packets, sending, taken, received>>
    BY <1>5 DEF Report, RecvHeader, RecvBody, OtherConnection, RecvPeek, RecvWaitAll, senderVars
  <2> QED
    BY <1>2, <2>1
<1>6. CASE \/ \E t \in Threads :
                \/ \E n \in Sizes : Begin(t, n)
                \/ SendBlocking(t) \/ SendNonblocking(t) \/ SendTimeout(t)
           \/ Close
  BY <1>1, <1>6, SenderStep
<1> QED
  BY <1>3, <1>4, <1>5, <1>6 DEF Next

\* For all numbers of threads, lengths of packets, capacities of the network and pieces
\* in which it delivers: as long as no send to a client was short, CRPRecv returns the
\* packets that were sent, whole, in order and without a gap.
THEOREM WholePacketsAlways == Spec => []WholePackets
<1>1. IInv /\ WholePackets /\ [Next]_vars => (IInv /\ WholePackets)'
  BY NextInv, WholeStep, StreamAssumption
<1> QED
  BY <1>1, InitInv, StreamAssumption, PTL DEF Spec
=============================================================================
