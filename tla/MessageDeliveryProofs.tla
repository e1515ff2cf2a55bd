------------------------ MODULE MessageDeliveryProofs ------------------------
(***************************************************************************)
(* Theorems about MessageDelivery, for every set of accounts and every     *)
(* bound on messages, time and rows of a query; and about ChatRecord, for  *)
(* every record, page length and user.                                     *)
(***************************************************************************)
EXTENDS MessageDelivery, ChatRecord, LineProofs, FiniteSetTheorems, TLAPS

\* Messages are numbered in the order of their times, and the one that is being posted
\* is the last; a client that is off reads nothing.
Chronicle ==
  /\ \A m \in 1 .. Len(msgs) : msgs[m].time <= clock
  /\ \A m, n \in 1 .. Len(msgs) : m < n => msgs[m].time <= msgs[n].time
  /\ \A u \in Uids : lastlogout[u] <= clock
  /\ posting # Idle => posting.msg = Len(msgs)
  /\ \A u \in Uids : client[u] = "off" => wire[u] = <<>>

\* Nothing is sent before the receiver's file has taken it or failed to.
Recorded ==
  /\ SentIsOnRecord
  /\ posting.step \in {"from", "send"} => Tried(To(posting.msg), posting.msg)
  /\ \A u \in Uids : \A i \in 1 .. Len(wire[u]) : Tried(u, wire[u][i])

\* Nobody has been sent the message that is being posted.
Unsent == posting # Idle =>
  \A u \in Uids : /\ posting.msg \notin shown[u]
                  /\ \A i \in 1 .. Len(wire[u]) : wire[u][i] # posting.msg

\* What a user has been shown was posted no later than it logged out, until it is served
\* again, and before that nothing is on its way to it.
ShownBeforeLogout(u) ==
  /\ client[u] \in {"loading", "asked"} => wire[u] = <<>>
  /\ client[u] \in {"loading", "asked"} \/ u \notin online =>
       \A n \in shown[u] : msgs[n].time <= lastlogout[u]

\* What is on its way to a user is in order and newer than what it has been shown.
WireInOrder(u) ==
  \A i \in 1 .. Len(wire[u]) : /\ \A n \in shown[u] : n < wire[u][i]
                               /\ \A j \in 1 .. i - 1 : wire[u][j] < wire[u][i]

Ordered == \A u \in Uids : "order" \notin mishaps[u] => WireInOrder(u) /\ ShownBeforeLogout(u)

\* A kick is a mishap.
KickIsLoss == \A u \in kicking : "loss" \in mishaps[u]

InProgress(m) == posting # Idle /\ posting.msg = m

\* Where a message on record with u is: it has been shown; or the next query will find it;
\* and while u is served, or its client has gone unnoticed, it is not left to a query.
Accounted(u, m) ==
  /\ m \in shown[u] \/ msgs[m].time > lastlogout[u]
  /\ ~InProgress(m) =>
       /\ client[u] = "served" => m \in shown[u] \/ \E i \in 1 .. Len(wire[u]) : wire[u][i] = m
       /\ u \in online /\ client[u] = "off" => m \in shown[u]

Clean(u) == mishaps[u] \intersect {"loss", "overflow"} = {}

OwedTo(u) ==
  /\ posting # Idle /\ To(posting.msg) = u => msgs[posting.msg].time > lastlogout[u]
  /\ \A m \in 1 .. Len(msgs) : To(m) = u /\ m \in box[u] => Accounted(u, m)

\* A user without mishaps is owed every message to it.
Owed == \A u \in Uids : Clean(u) => OwedTo(u)

DeliveryInv == TypeOK /\ Chronicle /\ Recorded /\ Unsent /\ Ordered /\ KickIsLoss /\ Owed

-----------------------------------------------------------------------------
(* The rows of a query.                                                    *)

\* ORDER BY, without LIMIT: every row that is wanted, in order.
LEMMA InOrderIs ==
  ASSUME TypeOK, NEW S, S \subseteq 1 .. Len(msgs)
  PROVE  InOrder(S) \in Seq(Nat) /\ Ascending(InOrder(S)) /\ Members(InOrder(S)) = S
<1> DEFINE ranked == [m \in 1 .. Len(msgs) |-> IF m \in S THEN m ELSE 0]
<1>1. Len(msgs) \in Nat
  BY DEF TypeOK
<1>2. ranked \in Seq(Nat) /\ Len(ranked) = Len(msgs) /\ \A i \in 1 .. Len(ranked) : ranked[i] \in {0, i}
  BY <1>1
<1>3. Members(ranked) \ {0} = S
  <2>1. DOMAIN ranked = 1 .. Len(msgs) /\ \A i \in 1 .. Len(msgs) : ranked[i] = IF i \in S THEN i ELSE 0
    OBVIOUS
  <2>2. 0 \notin S
    OBVIOUS
  <2> HIDE DEF ranked
  <2> QED BY <2>1, <2>2 DEF Members
<1>4. InOrder(S) = Without(ranked, 0)
  BY DEF InOrder
<1> HIDE DEF ranked
<1>5. Without(ranked, 0) \in Seq(Nat) /\ Members(Without(ranked, 0)) = S
  BY <1>2, <1>3, WithoutType, WithoutMembers
<1>6. Ascending(Without(ranked, 0))
  BY <1>2, WithoutAscending
<1> QED BY <1>4, <1>5, <1>6

\* The query returns rows that are wanted, in order, and all of them up to Limit.
LEMMA FirstRowsAre ==
  ASSUME TypeOK, NEW S, S \subseteq 1 .. Len(msgs), NEW q, q = FirstRows(S)
  PROVE  /\ q \in Seq(1 .. Len(msgs)) /\ Ascending(q)
         /\ \A i \in 1 .. Len(q) : q[i] \in S
         /\ Len(InOrder(S)) <= Limit => \A m \in S : \E i \in 1 .. Len(q) : q[i] = m
<1> DEFINE ranked == InOrder(S)
<1>1. ranked \in Seq(Nat) /\ Ascending(ranked) /\ Members(ranked) = S
  BY InOrderIs
<1>2. q = IF Len(ranked) > Limit THEN SubSeq(ranked, 1, Limit) ELSE ranked
  BY DEF FirstRows
<1> HIDE DEF ranked
<1>3. /\ Len(ranked) \in Nat /\ DOMAIN ranked = 1 .. Len(ranked)
      /\ \A i \in 1 .. Len(ranked) : ranked[i] \in S
      /\ \A m \in S : \E i \in 1 .. Len(ranked) : ranked[i] = m
  BY <1>1 DEF Members
<1>4. q \in Seq(Nat) /\ Len(q) <= Len(ranked) /\ \A i \in 1 .. Len(q) : q[i] = ranked[i]
  <2>1. CASE Len(ranked) > Limit
    <3>1. SubSeq(ranked, 1, Limit) \in Seq(Nat) /\ Len(SubSeq(ranked, 1, Limit)) = Limit
          /\ \A i \in 1 .. Limit : SubSeq(ranked, 1, Limit)[i] = ranked[i]
      BY <1>1, <1>3, <2>1, DeliveryAssumption
    <3> QED BY <1>2, <2>1, <3>1
  <2>2. CASE ~(Len(ranked) > Limit)
    BY <1>1, <1>2, <2>2
  <2> QED BY <2>1, <2>2
<1>5. Len(q) \in Nat /\ DOMAIN q = 1 .. Len(q) /\ q = [i \in 1 .. Len(q) |-> q[i]]
  BY <1>4
<1>6. \A i \in 1 .. Len(q) : q[i] \in S /\ q[i] \in 1 .. Len(msgs)
  BY <1>3, <1>4, <1>5
<1>7. q \in Seq(1 .. Len(msgs))
  BY <1>5, <1>6
<1>8. Ascending(q)
  BY <1>1, <1>3, <1>4, <1>5 DEF Ascending
<1>9. Len(ranked) <= Limit => q = ranked
  <2>1. Limit \in Nat
    BY DeliveryAssumption
  <2>2. Len(ranked) <= Limit => ~(Len(ranked) > Limit)
    BY <2>1, <1>3
  <2> QED BY <1>2, <2>2
<1> QED BY <1>3, <1>6, <1>7, <1>8, <1>9 DEF ranked

\* What a query is asked for.
LEMMA UnseenAre ==
  ASSUME TypeOK, NEW u \in Uids
  PROVE  /\ Unseen(u) \subseteq 1 .. Len(msgs)
         /\ \A m : m \in Unseen(u) <=> m \in box[u] /\ To(m) = u /\ msgs[m].time > lastlogout[u]
BY DEF TypeOK, Unseen

-----------------------------------------------------------------------------
(* What TypeOK says of single messages and users.                          *)

\* What TypeOK says of the numbers and of the message that is being posted.
LEMMA Typed ==
  ASSUME TypeOK
  PROVE  /\ Len(msgs) \in Nat /\ clock \in Nat /\ lastlogout \in [Uids -> Nat]
         /\ \A m \in 1 .. Len(msgs) : msgs[m].time \in Nat /\ msgs[m].from \in Uids /\ To(m) \in Uids
         /\ \A u \in Uids : wire[u] \in Seq(1 .. Len(msgs)) /\ Len(wire[u]) \in Nat
         /\ posting.step = "idle" <=> posting = Idle
         /\ posting # Idle => /\ posting \in [msg : 1 .. Len(msgs), step : {"to", "from", "send"}]
                              /\ posting.msg \in 1 .. Len(msgs)
<1>1. Len(msgs) \in Nat /\ \A m \in 1 .. Len(msgs) : msgs[m] \in Message
  BY DEF TypeOK
<1>2. \A r \in Message : r.time \in Nat /\ r.from \in Uids /\ r.to \in Uids
  BY DeliveryAssumption DEF Message
<1>3. clock \in Nat /\ lastlogout \in [Uids -> Nat]
  BY DeliveryAssumption DEF TypeOK
<1>4. \A u \in Uids : wire[u] \in Seq(1 .. Len(msgs)) /\ Len(wire[u]) \in Nat
  <2>1. \A u \in Uids : wire[u] \in Seq(1 .. Len(msgs))
    BY DEF TypeOK
  <2> QED BY <2>1
<1>5. posting \in {Idle} \union [msg : 1 .. Len(msgs), step : {"to", "from", "send"}]
  BY DEF TypeOK
<1>6. posting # Idle => /\ posting \in [msg : 1 .. Len(msgs), step : {"to", "from", "send"}]
                        /\ posting.msg \in 1 .. Len(msgs) /\ posting.step # "idle"
  BY <1>5
<1>7. Idle.step = "idle"
  BY DEF Idle
<1> QED BY <1>1, <1>2, <1>3, <1>4, <1>6, <1>7 DEF To

-----------------------------------------------------------------------------
(* The history.                                                            *)

\* A mishap is never forgotten.
LEMMA MishapsStay ==
  ASSUME TypeOK, Next
  PROVE  \A u \in Uids : mishaps[u] \subseteq mishaps'[u]
<1> USE DEF TypeOK, Mark
<1>1. CASE Tick \/ PostToReceiver \/ PostToSender \/ Crash
  BY <1>1 DEF Tick, PostToReceiver, PostToSender, PostInto, InsertInto, NotInserted, Crash
<1>2. CASE PostToClient
  BY <1>2 DEF PostToClient
<1>3. ASSUME NEW u \in Uids,
             \/ Login(u) \/ OnlineUserDelete(u) \/ ProcessPacketMessageQueryOffline(u)
             \/ CLIKick(u) \/ CLIKickSave(u) \/ QueryOfflineSend(u) \/ ServeMessage(u) \/ Quit(u)
      PROVE  \A v \in Uids : mishaps[v] \subseteq mishaps'[v]
  <2>1. mishaps' = mishaps \/ \E S : Mark(u, S)
    BY <1>3 DEF Login, OnlineUserDelete, ProcessPacketMessageQueryOffline, CLIKick, CLIKickSave,
                QueryOfflineSend, ServeMessage, Quit
  <2>2. mishaps \in [Uids -> SUBSET Mishaps]
    OBVIOUS
  <2> HIDE DEF TypeOK
  <2> QED BY <2>1, <2>2
<1>4. ASSUME NEW u \in Uids, NEW v \in Uids, ProcessPacketMessageNormal(u, v)
      PROVE  \A w \in Uids : mishaps[w] \subseteq mishaps'[w]
  BY <1>4 DEF ProcessPacketMessageNormal
<1> QED BY <1>1, <1>2, <1>3, <1>4 DEF Next

\* A message is the same for ever.
LEMMA MessagesStay ==
  ASSUME TypeOK, Next
  PROVE  /\ Len(msgs) \in Nat
         /\ \/ msgs' = msgs
            \/ /\ posting = Idle /\ Len(msgs') = Len(msgs) + 1
               /\ \E u, v \in Uids : ProcessPacketMessageNormal(u, v)
         /\ \A m \in 1 .. Len(msgs) : m \in 1 .. Len(msgs') /\ msgs'[m] = msgs[m]
<1>1. ASSUME NEW u \in Uids, NEW v \in Uids, ProcessPacketMessageNormal(u, v)
      PROVE  /\ posting = Idle /\ Len(msgs') = Len(msgs) + 1
             /\ \A m \in 1 .. Len(msgs) : msgs'[m] = msgs[m]
  <2>1. posting = Idle /\ \E x : msgs' = Append(msgs, x)
    BY <1>1 DEF ProcessPacketMessageNormal
  <2> QED BY <2>1 DEF TypeOK
<1>2. Len(msgs) \in Nat
  BY DEF TypeOK
<1>3. CASE msgs' = msgs
  BY <1>2, <1>3
<1>4. \/ msgs' = msgs
      \/ \E u, v \in Uids : ProcessPacketMessageNormal(u, v)
  BY DEF Next, Tick, PostToReceiver, PostToSender, PostToClient, PostInto, InsertInto, NotInserted, Crash, Login, OnlineUserDelete,
         ProcessPacketMessageQueryOffline, CLIKick, CLIKickSave, QueryOfflineSend, ServeMessage, Quit
<1> QED BY <1>1, <1>2, <1>3, <1>4

-----------------------------------------------------------------------------
(* Types.                                                                  *)

\* A line of messages is one when there are more messages.
LEMMA LongerSeq ==
  ASSUME NEW n \in Nat, NEW q \in Seq(1 .. n)
  PROVE  q \in Seq(1 .. n + 1)
OBVIOUS

\* Every step keeps the types.
LEMMA TypeStep ==
  ASSUME TypeOK, Next
  PROVE  TypeOK'
<1> USE Typed DEF Mark, Mishaps
<1>0. Len(msgs) \in Nat /\ MaxMessages \in Nat /\ MaxTime \in Nat
  BY DeliveryAssumption DEF TypeOK
<1>1. CASE Tick
  BY <1>0, <1>1 DEF Tick, TypeOK
<1>2. ASSUME NEW u \in Uids, NEW next \in {"from", "send"}, PostInto(u, next), posting # Idle
      PROVE  TypeOK'
  <2>1. posting.msg \in 1 .. Len(msgs) /\ posting' \in [msg : 1 .. Len(msgs), step : {"to", "from", "send"}]
    BY <1>2 DEF PostInto, InsertInto, NotInserted
  <2>2. CASE InsertInto(u, next)
    BY <1>0, <2>1, <2>2 DEF InsertInto, TypeOK
  <2>3. CASE NotInserted(u, next)
    <3>1. unwritten' \subseteq (1 .. Len(msgs)) \X Uids
      BY <2>1, <2>3 DEF NotInserted, TypeOK
    <3> QED BY <1>0, <2>1, <2>3, <3>1 DEF NotInserted, TypeOK
  <2> QED BY <1>2, <2>2, <2>3 DEF PostInto
<1>3. CASE PostToReceiver \/ PostToSender
  <2>1. posting # Idle /\ posting.msg \in 1 .. Len(msgs)
    BY <1>3 DEF PostToReceiver, PostToSender
  <2>2. msgs[posting.msg].from \in Uids /\ To(posting.msg) \in Uids
    BY <2>1
  <2> QED BY <1>2, <1>3, <2>1, <2>2 DEF PostToReceiver, PostToSender
<1>4. CASE PostToClient
  <2>1. posting.msg \in 1 .. Len(msgs) /\ To(posting.msg) \in Uids
    BY <1>4 DEF PostToClient
  <2>2. wire' \in [Uids -> Seq(1 .. Len(msgs))]
    <3> DEFINE v == To(posting.msg)
               longer == Append(wire[v], posting.msg)
    <3>1. v \in Uids /\ longer \in Seq(1 .. Len(msgs))
      BY <2>1
    <3>2. wire' = [wire EXCEPT ![v] = longer] \/ wire' = wire
      BY <1>4 DEF PostToClient
    <3> HIDE DEF v, longer
    <3> QED BY <3>1, <3>2 DEF TypeOK
  <2>3. mishaps' \in [Uids -> SUBSET Mishaps]
    BY <1>0, <1>4, <2>1 DEF PostToClient, TypeOK
  <2> QED BY <1>0, <1>4, <2>2, <2>3 DEF PostToClient, TypeOK
<1>5. CASE Crash
  BY <1>0, <1>5 DEF Crash, TypeOK
<1>6. ASSUME NEW u \in Uids, Login(u) \/ Quit(u) PROVE TypeOK'
  <2>1. wire' = [wire EXCEPT ![u] = <<>>] /\ <<>> \in Seq(1 .. Len(msgs))
    BY <1>6 DEF Login, Quit
  <2>2. wire' \in [Uids -> Seq(1 .. Len(msgs))]
    BY <2>1 DEF TypeOK
  <2>3. mishaps' \in [Uids -> SUBSET Mishaps]
    <3>1. LeftBehind(u) \subseteq Mishaps /\ mishaps' = [mishaps EXCEPT ![u] = @ \union LeftBehind(u)]
      BY <1>6 DEF Login, Quit, LeftBehind
    <3> QED BY <3>1 DEF TypeOK
  <2>4. CASE Login(u)
    BY <1>0, <2>4, <2>2, <2>3 DEF Login, TypeOK
  <2>5. CASE Quit(u)
    BY <1>0, <2>5, <2>2, <2>3 DEF Quit, TypeOK
  <2> QED BY <1>6, <2>4, <2>5
<1>7. ASSUME NEW u \in Uids, OnlineUserDelete(u) \/ QueryOfflineSend(u) \/ CLIKickSave(u) PROVE TypeOK'
  <2>1. CASE OnlineUserDelete(u)
    BY <1>0, <2>1 DEF OnlineUserDelete, TypeOK
  <2>2. CASE QueryOfflineSend(u)
    BY <1>0, <2>2 DEF QueryOfflineSend, TypeOK
  <2>3. CASE CLIKickSave(u)
    BY <1>0, <2>3 DEF CLIKickSave, TypeOK
  <2> QED BY <1>7, <2>1, <2>2, <2>3
<1>11. ASSUME NEW u \in Uids, CLIKick(u) PROVE TypeOK'
  <2>1. wire' = [wire EXCEPT ![u] = <<>>] /\ <<>> \in Seq(1 .. Len(msgs))
    BY <1>11 DEF CLIKick
  <2>2. wire' \in [Uids -> Seq(1 .. Len(msgs))]
    BY <2>1 DEF TypeOK
  <2> QED BY <1>0, <1>11, <2>2 DEF CLIKick, TypeOK
<1>8. ASSUME NEW u \in Uids, ProcessPacketMessageQueryOffline(u) PROVE TypeOK'
  <2> DEFINE q == FirstRows(Unseen(u))
  <2>1. q \in Seq(1 .. Len(msgs))
    BY FirstRowsAre, UnseenAre
  <2>2. wire' = [wire EXCEPT ![u] = @ \o q]
    BY <1>8 DEF ProcessPacketMessageQueryOffline
  <2> HIDE DEF q
  <2>3. wire' \in [Uids -> Seq(1 .. Len(msgs))]
    BY <2>1, <2>2 DEF TypeOK
  <2> QED BY <1>0, <1>8, <2>3 DEF ProcessPacketMessageQueryOffline, TypeOK
<1>9. ASSUME NEW u \in Uids, ServeMessage(u) PROVE TypeOK'
  <2>1. Head(wire[u]) \in 1 .. Len(msgs) /\ Tail(wire[u]) \in Seq(1 .. Len(msgs))
    <3> DEFINE q == wire[u]
    <3>1. q \in Seq(1 .. Len(msgs)) /\ q # <<>>
      BY <1>9 DEF ServeMessage
    <3> HIDE DEF q
    <3>2. Head(q) \in 1 .. Len(msgs) /\ Tail(q) \in Seq(1 .. Len(msgs))
      BY <3>1
    <3> QED BY <3>2 DEF q
  <2> QED BY <1>0, <1>9, <2>1, SMTT(60) DEF ServeMessage, TypeOK
<1>10. ASSUME NEW u \in Uids, NEW v \in Uids, ProcessPacketMessageNormal(u, v) PROVE TypeOK'
  <2>1. msgs' \in Seq(Message) /\ Len(msgs') = Len(msgs) + 1 /\ Len(msgs') <= MaxMessages
    <3>1. [from |-> u, to |-> v, time |-> clock] \in Message
      BY DEF Message, TypeOK
    <3> QED BY <1>0, <1>10, <3>1 DEF ProcessPacketMessageNormal, TypeOK
  <2>2. \A q \in Seq(1 .. Len(msgs)) : q \in Seq(1 .. Len(msgs'))
    BY <1>0, <2>1, LongerSeq
  <2>3. wire' \in [Uids -> Seq(1 .. Len(msgs'))]
    BY <1>10, <2>2 DEF ProcessPacketMessageNormal, TypeOK
  <2>4. \A S \in SUBSET (1 .. Len(msgs)) : S \in SUBSET (1 .. Len(msgs'))
    BY <1>0, <2>1
  <2>5. box' \in [Uids -> SUBSET (1 .. Len(msgs'))] /\ shown' \in [Uids -> SUBSET (1 .. Len(msgs'))]
    BY <1>10, <2>4 DEF ProcessPacketMessageNormal, TypeOK
  <2>6. posting' \in [msg : 1 .. Len(msgs'), step : {"to", "from", "send"}]
    BY <1>0, <1>10, <2>1 DEF ProcessPacketMessageNormal
  <2>7. unwritten' \subseteq (1 .. Len(msgs')) \X Uids
    BY <1>0, <1>10, <2>1 DEF ProcessPacketMessageNormal, TypeOK
  <2> QED BY <1>0, <1>10, <2>1, <2>3, <2>5, <2>6, <2>7 DEF ProcessPacketMessageNormal, TypeOK
<1> QED BY <1>1, <1>3, <1>4, <1>5, <1>6, <1>7, <1>8, <1>9, <1>10, <1>11 DEF Next

\* Messages are numbered in the order of their times.
LEMMA ChronicleStep ==
  ASSUME TypeOK, Chronicle, Next
  PROVE  Chronicle'
<1> USE Typed
<1>0. Len(msgs) \in Nat /\ clock \in Nat
  OBVIOUS
<1>1. CASE Tick
  BY <1>0, <1>1 DEF Tick, Chronicle
<1>2. CASE PostToReceiver \/ PostToSender
  <2>1. /\ UNCHANGED <<clock, msgs, lastlogout, client, wire>>
        /\ posting # Idle /\ posting'.msg = posting.msg
    BY <1>2 DEF PostToReceiver, PostToSender, PostInto, InsertInto, NotInserted
  <2> QED BY <2>1 DEF Chronicle
<1>3. CASE PostToClient
  BY <1>0, <1>3 DEF PostToClient, TypeOK, Chronicle
<1>4. CASE Crash
  BY <1>0, <1>4 DEF Crash, TypeOK, Chronicle
<1>5. ASSUME NEW u \in Uids, Login(u) \/ OnlineUserDelete(u) \/ CLIKickSave(u) PROVE Chronicle'
  <2>1. \A v \in Uids : lastlogout'[v] <= clock
    <3>1. \A v \in Uids : lastlogout'[v] = lastlogout[v] \/ lastlogout'[v] = clock
      BY <1>5 DEF Login, OnlineUserDelete, CLIKickSave
    <3>2. clock <= clock /\ \A v \in Uids : lastlogout[v] <= clock
      BY <1>0 DEF Chronicle
    <3> QED BY <3>1, <3>2
  <2>2. \A v \in Uids : client'[v] = "off" => wire'[v] = <<>>
    BY <1>5 DEF Login, OnlineUserDelete, CLIKickSave, Chronicle, TypeOK
  <2> QED BY <1>5, <2>1, <2>2 DEF Login, OnlineUserDelete, CLIKickSave, Chronicle
<1>6. ASSUME NEW u \in Uids, CLIKick(u) \/ QueryOfflineSend(u) \/ ServeMessage(u) \/ Quit(u) PROVE Chronicle'
  <2>1. \A v \in Uids : client'[v] = "off" => wire'[v] = <<>>
    BY <1>6 DEF CLIKick, QueryOfflineSend, ServeMessage, Quit, Chronicle, TypeOK
  <2> QED BY <1>6, <2>1 DEF CLIKick, QueryOfflineSend, ServeMessage, Quit, Chronicle
<1>8. ASSUME NEW u \in Uids, ProcessPacketMessageQueryOffline(u) PROVE Chronicle'
  <2>1. \A v \in Uids : client'[v] = "off" => wire'[v] = <<>>
    BY <1>8 DEF ProcessPacketMessageQueryOffline, TypeOK, Chronicle
  <2> QED BY <1>0, <1>8, <2>1 DEF ProcessPacketMessageQueryOffline, Chronicle
<1>9. ASSUME NEW u \in Uids, NEW v \in Uids, ProcessPacketMessageNormal(u, v) PROVE Chronicle'
  <2> DEFINE n == Len(msgs) + 1
  <2>1. Len(msgs') = n /\ msgs'[n].time = clock /\ \A m \in 1 .. Len(msgs) : msgs'[m] = msgs[m]
    BY <1>9 DEF ProcessPacketMessageNormal, TypeOK
  <2>2. UNCHANGED <<clock, lastlogout, client, wire>> /\ posting'.msg = n
    BY <1>9 DEF ProcessPacketMessageNormal
  <2>3. \A m \in 1 .. n : m \in 1 .. Len(msgs) \/ m = n
    BY <1>0
  <2>4. \A m \in 1 .. n : msgs'[m].time <= clock
    <3> SUFFICES ASSUME NEW m \in 1 .. n PROVE msgs'[m].time <= clock
      OBVIOUS
    <3>1. CASE m \in 1 .. Len(msgs)
      BY <2>1, <3>1 DEF Chronicle
    <3>2. CASE m = n
      BY <1>0, <2>1, <3>2
    <3> QED BY <2>3, <3>1, <3>2
  <2>5. \A m, k \in 1 .. n : m < k => msgs'[m].time <= msgs'[k].time
    <3> SUFFICES ASSUME NEW m \in 1 .. n, NEW k \in 1 .. n, m < k PROVE msgs'[m].time <= msgs'[k].time
      OBVIOUS
    <3>1. m \in 1 .. Len(msgs) /\ (k \in 1 .. Len(msgs) \/ k = n)
      BY <1>0, SMTT(60)
    <3>2. CASE k \in 1 .. Len(msgs)
      BY <2>1, <3>1, <3>2 DEF Chronicle
    <3>3. CASE k = n
      BY <2>1, <3>1, <3>3 DEF Chronicle
    <3> QED BY <3>1, <3>2, <3>3
  <2> HIDE DEF n
  <2> QED BY <1>0, <2>1, <2>2, <2>4, <2>5 DEF Chronicle
<1> QED BY <1>1, <1>2, <1>3, <1>4, <1>5, <1>6, <1>8, <1>9 DEF Next

-----------------------------------------------------------------------------
(* What each step does to a wire.                                          *)

\* One place more.
LEMMA LastOrBefore ==
  ASSUME NEW n \in Nat
  PROVE  \A i \in 1 .. n + 1 : i \in 1 .. n \/ i = n + 1
OBVIOUS

\* A message that is sent to v is the last before it.
LEMMA WireSend ==
  ASSUME TypeOK, PostToClient, NEW v \in Uids
  PROVE  IF v = To(posting.msg) /\ v \in online /\ client[v] # "off"
         THEN /\ Len(wire'[v]) = Len(wire[v]) + 1 /\ wire'[v][Len(wire[v]) + 1] = posting.msg
              /\ \A i \in 1 .. Len(wire[v]) : wire'[v][i] = wire[v][i]
         ELSE wire'[v] = wire[v]
<1> DEFINE q == wire[v]
           longer == Append(q, posting.msg)
<1>1. q \in Seq(1 .. Len(msgs)) /\ posting.msg \in 1 .. Len(msgs)
  BY Typed DEF PostToClient
<1>2. To(posting.msg) \in Uids /\ wire \in [Uids -> Seq(1 .. Len(msgs))]
  BY <1>1, Typed DEF TypeOK
<1>3. IF To(posting.msg) \in online /\ client[To(posting.msg)] # "off"
      THEN wire' = [wire EXCEPT ![To(posting.msg)] = Append(wire[To(posting.msg)], posting.msg)]
      ELSE wire' = wire
  BY DEF PostToClient
<1>4. IF v = To(posting.msg) /\ v \in online /\ client[v] # "off" THEN wire'[v] = longer ELSE wire'[v] = q
  BY <1>2, <1>3
<1> HIDE DEF q
<1>5. Len(longer) = Len(q) + 1 /\ longer[Len(q) + 1] = posting.msg /\ \A i \in 1 .. Len(q) : longer[i] = q[i]
  BY <1>1
<1> HIDE DEF longer
<1> QED BY <1>4, <1>5 DEF q

\* The answer to a query comes after what is on its way.
LEMMA WireQuery ==
  ASSUME TypeOK, NEW u \in Uids, ProcessPacketMessageQueryOffline(u), NEW q, q = FirstRows(Unseen(u))
  PROVE  /\ \A v \in Uids : v # u => wire'[v] = wire[v]
         /\ Len(q) \in Nat /\ Len(wire'[u]) = Len(wire[u]) + Len(q)
         /\ \A i \in 1 .. Len(wire[u]) : wire'[u][i] = wire[u][i]
         /\ \A i \in 1 .. Len(q) : wire'[u][Len(wire[u]) + i] = q[i]
<1>1. wire[u] \in Seq(1 .. Len(msgs)) /\ q \in Seq(1 .. Len(msgs))
  BY Typed, FirstRowsAre, UnseenAre
<1>2. wire' = [wire EXCEPT ![u] = wire[u] \o q] /\ wire \in [Uids -> Seq(1 .. Len(msgs))]
  BY DEF ProcessPacketMessageQueryOffline, TypeOK
<1> DEFINE a == wire[u]
<1>3. wire'[u] = a \o q /\ \A v \in Uids : v # u => wire'[v] = wire[v]
  BY <1>2
<1>4. a \in Seq(1 .. Len(msgs))
  BY <1>1
<1> HIDE DEF a
<1>5. Len(q) \in Nat /\ Len(a \o q) = Len(a) + Len(q)
  BY <1>1, <1>4
<1>6. \A i \in 1 .. Len(a) : (a \o q)[i] = a[i]
  BY <1>1, <1>4
<1>7. \A i \in 1 .. Len(q) : (a \o q)[Len(a) + i] = q[i]
  BY <1>1, <1>4
<1> QED BY <1>3, <1>5, <1>6, <1>7 DEF a

\* A client reads the first packet.
LEMMA WireServe ==
  ASSUME TypeOK, NEW u \in Uids, ServeMessage(u)
  PROVE  /\ \A v \in Uids : v # u => wire'[v] = wire[v] /\ shown'[v] = shown[v]
         /\ Len(wire[u]) \in Nat \ {0} /\ Len(wire'[u]) = Len(wire[u]) - 1
         /\ \A i \in 1 .. Len(wire[u]) - 1 : wire'[u][i] = wire[u][i + 1]
         /\ shown'[u] = IF client[u] = "loading" THEN shown[u] ELSE shown[u] \union {wire[u][1]}
<1> DEFINE a == wire[u]
<1>1. a \in Seq(1 .. Len(msgs)) /\ a # <<>>
  BY Typed DEF ServeMessage
<1>2. wire \in [Uids -> Seq(1 .. Len(msgs))] /\ shown \in [Uids -> SUBSET (1 .. Len(msgs))]
  BY DEF TypeOK
<1>3. wire'[u] = Tail(a) /\ \A v \in Uids : v # u => wire'[v] = wire[v] /\ shown'[v] = shown[v]
  BY <1>2 DEF ServeMessage
<1>4. shown'[u] = IF client[u] = "loading" THEN shown[u] ELSE shown[u] \union {Head(a)}
  BY <1>2 DEF ServeMessage
<1> HIDE DEF a
<1>5. /\ Len(a) \in Nat \ {0} /\ Len(Tail(a)) = Len(a) - 1 /\ Head(a) = a[1]
      /\ \A i \in 1 .. Len(a) - 1 : Tail(a)[i] = a[i + 1]
  BY <1>1
<1> QED BY <1>3, <1>4, <1>5 DEF a

-----------------------------------------------------------------------------
(* Records.                                                                *)

\* What is recorded stays recorded when the files do not change and nothing is sent or shown
\* that is not on record.
LEMMA RecordedKept ==
  ASSUME TypeOK, Recorded, UNCHANGED <<msgs, box, unwritten>>, posting' \in {posting, Idle},
         \A v \in Uids : \A m \in shown'[v] : Tried(v, m),
         \A v \in Uids : \A i \in 1 .. Len(wire'[v]) : Tried(v, wire'[v][i])
  PROVE  Recorded'
<1>1. SentIsOnRecord'
  BY DEF Recorded, SentIsOnRecord, To, Tried
<1>2. posting'.step \in {"from", "send"} => Tried(To(posting'.msg), posting'.msg)
  BY DEF Recorded, Idle
<1>3. \A m, v : To(m)' = To(m) /\ (Tried(v, m)' <=> Tried(v, m))
  BY DEF To, Tried
<1> QED BY <1>1, <1>2, <1>3 DEF Recorded, To, Tried

\* The receiver's file gets a message first.
LEMMA RecordedStep ==
  ASSUME TypeOK, Recorded, Next
  PROVE  Recorded'
<1> USE Typed
<1>0. /\ \A v \in Uids : \A m \in shown[v] : Tried(v, m)
      /\ \A v \in Uids : \A i \in 1 .. Len(wire[v]) : Tried(v, wire[v][i])
      /\ box \in [Uids -> SUBSET (1 .. Len(msgs))]
  BY DEF Recorded, SentIsOnRecord, TypeOK
<1>1. ASSUME UNCHANGED <<msgs, box, unwritten, shown>>, posting' \in {posting, Idle},
             \A v \in Uids : wire'[v] = wire[v] \/ wire'[v] = <<>>
      PROVE  Recorded'
  <2>1. ASSUME NEW v \in Uids, NEW i \in 1 .. Len(wire'[v]) PROVE Tried(v, wire'[v][i])
    <3>1. CASE wire'[v] = wire[v]
      BY <1>0, <3>1
    <3>2. CASE wire'[v] = <<>>
      <4>1. 1 .. Len(<<>>) = {}
        OBVIOUS
      <4> QED BY <3>2, <4>1
    <3> QED BY <1>1, <3>1, <3>2
  <2>2. \A v \in Uids : \A m \in shown'[v] : Tried(v, m)
    BY <1>0, <1>1
  <2> QED BY <1>1, <2>1, <2>2, RecordedKept
<1>2. CASE Tick \/ Crash
  <2>1. /\ UNCHANGED <<msgs, box, unwritten, shown>> /\ posting' \in {posting, Idle}
        /\ wire' = wire \/ wire' = [v \in Uids |-> <<>>]
    BY <1>2 DEF Tick, Crash
  <2> QED BY <1>1, <2>1
<1>3. ASSUME NEW u \in Uids, Login(u) \/ OnlineUserDelete(u) \/ CLIKick(u) \/ CLIKickSave(u)
                             \/ QueryOfflineSend(u) \/ Quit(u)
      PROVE  Recorded'
  <2>1. UNCHANGED <<msgs, box, unwritten, shown, posting>>
    BY <1>3 DEF Login, OnlineUserDelete, CLIKick, CLIKickSave, QueryOfflineSend, Quit
  <2>2. wire' = wire \/ wire' = [wire EXCEPT ![u] = <<>>]
    BY <1>3 DEF Login, OnlineUserDelete, CLIKick, CLIKickSave, QueryOfflineSend, Quit
  <2>3. \A v \in Uids : wire'[v] = wire[v] \/ wire'[v] = <<>>
    BY <2>2 DEF TypeOK
  <2> QED BY <1>1, <2>1, <2>3
<1>4. ASSUME NEW u \in Uids, ServeMessage(u) PROVE Recorded'
  <2>1. UNCHANGED <<msgs, box, unwritten, posting>>
    BY <1>4 DEF ServeMessage
  <2>5. /\ Len(wire[u]) \in Nat \ {0} /\ Len(wire'[u]) = Len(wire[u]) - 1
        /\ \A i \in 1 .. Len(wire[u]) - 1 : wire'[u][i] = wire[u][i + 1]
        /\ shown'[u] = IF client[u] = "loading" THEN shown[u] ELSE shown[u] \union {wire[u][1]}
    BY <1>4, WireServe
  <2>6. \A i \in 1 .. Len(wire[u]) : Tried(u, wire[u][i])
    BY <1>0
  <2>2. ASSUME NEW i \in 1 .. Len(wire'[u]) PROVE Tried(u, wire'[u][i])
    <3>1. i \in 1 .. Len(wire[u]) - 1 /\ i + 1 \in 1 .. Len(wire[u])
      BY <2>5
    <3> QED BY <2>5, <2>6, <3>1
  <2>3. \A m \in shown'[u] : Tried(u, m)
    <3>1. Tried(u, wire[u][1])
      BY <2>5, <2>6
    <3>2. \A m \in shown[u] : Tried(u, m)
      BY <1>0
    <3> HIDE DEF Tried
    <3> QED BY <2>5, <3>1, <3>2, Zenon
  <2>4. \A v \in Uids : v # u => wire'[v] = wire[v] /\ shown'[v] = shown[v]
    BY <1>4, WireServe
  <2> QED BY <1>0, <2>1, <2>2, <2>3, <2>4, RecordedKept
<1>5. ASSUME NEW u \in Uids, ProcessPacketMessageQueryOffline(u) PROVE Recorded'
  <2>1. UNCHANGED <<msgs, box, unwritten, posting, shown>>
    BY <1>5 DEF ProcessPacketMessageQueryOffline
  <2> DEFINE q == FirstRows(Unseen(u))
  <2>2. \A i \in 1 .. Len(q) : Tried(u, q[i])
    BY FirstRowsAre, UnseenAre DEF Tried
  <2>3. /\ \A v \in Uids : v # u => wire'[v] = wire[v]
        /\ Len(q) \in Nat /\ Len(wire'[u]) = Len(wire[u]) + Len(q)
        /\ \A i \in 1 .. Len(wire[u]) : wire'[u][i] = wire[u][i]
        /\ \A i \in 1 .. Len(q) : wire'[u][Len(wire[u]) + i] = q[i]
    BY <1>5, WireQuery, SMTT(60)
  <2> HIDE DEF q
  <2>4. ASSUME NEW i \in 1 .. Len(wire'[u]) PROVE Tried(u, wire'[u][i])
    <3>1. CASE i \in 1 .. Len(wire[u])
      BY <1>0, <2>3, <3>1
    <3>2. CASE i \notin 1 .. Len(wire[u])
      <4>1. i - Len(wire[u]) \in 1 .. Len(q) /\ i = Len(wire[u]) + (i - Len(wire[u]))
        BY <2>3, <3>2
      <4> QED BY <2>2, <2>3, <4>1
    <3> QED BY <3>1, <3>2
  <2> QED BY <1>0, <2>1, <2>3, <2>4, RecordedKept
<1>6. CASE PostToClient
  <2>1. UNCHANGED <<msgs, box, unwritten, shown>> /\ posting' = Idle /\ Tried(To(posting.msg), posting.msg)
    BY <1>6 DEF PostToClient, Recorded
  <2>2. ASSUME NEW v \in Uids PROVE \A i \in 1 .. Len(wire'[v]) : Tried(v, wire'[v][i])
    <3>1. CASE wire'[v] = wire[v]
      BY <1>0, <3>1
    <3>2. CASE ~(wire'[v] = wire[v])
      <4>1. /\ v = To(posting.msg)
            /\ Len(wire'[v]) = Len(wire[v]) + 1 /\ wire'[v][Len(wire[v]) + 1] = posting.msg
            /\ \A i \in 1 .. Len(wire[v]) : wire'[v][i] = wire[v][i]
        BY <1>6, <3>2, WireSend
      <4>2. \A i \in 1 .. Len(wire[v]) + 1 : i \in 1 .. Len(wire[v]) \/ i = Len(wire[v]) + 1
        BY Typed, LastOrBefore
      <4>3. \A i \in 1 .. Len(wire[v]) : Tried(v, wire[v][i])
        BY <1>0
      <4> QED BY <2>1, <4>1, <4>2, <4>3
    <3> QED BY <3>1, <3>2
  <2> QED BY <1>0, <2>1, <2>2, RecordedKept
<1>7. ASSUME NEW u \in Uids, NEW next \in {"from", "send"}, PostInto(u, next), posting # Idle,
             NEW m0, m0 = posting.msg, u = To(posting.msg) \/ Tried(To(posting.msg), posting.msg)
      PROVE  Recorded'
  <2>1. UNCHANGED <<msgs, wire, shown>> /\ posting'.msg = m0
    BY <1>7 DEF PostInto, InsertInto, NotInserted
  <2>2. /\ \A v \in Uids : box[v] \subseteq box'[v] /\ box'[v] \subseteq box[v] \union {m0}
        /\ unwritten \subseteq unwritten'
        /\ m0 \in box'[u] \/ <<m0, u>> \in unwritten'
    <3>1. CASE InsertInto(u, next)
      BY <1>0, <1>7, <3>1 DEF InsertInto
    <3>2. CASE NotInserted(u, next)
      <4>1. box' = box /\ unwritten' = unwritten \union {<<m0, u>>}
        BY <1>7, <3>2 DEF NotInserted
      <4> QED BY <4>1
    <3> QED BY <1>7, <3>1, <3>2 DEF PostInto
  <2>3. m0 \in 1 .. Len(msgs) /\ To(m0) \in Uids
    BY <1>7
  <2>4. \A v \in Uids : \A m : Tried(v, m) => Tried(v, m)'
    BY <2>2 DEF Tried
  <2>5. Tried(To(m0), m0)'
    <3>1. Tried(u, m0)'
      BY <2>1, <2>2 DEF Tried
    <3>2. CASE u = To(posting.msg)
      BY <1>7, <2>1, <3>1, <3>2 DEF Tried, To
    <3>3. CASE Tried(To(posting.msg), posting.msg)
      BY <1>7, <2>1, <2>2, <2>3, <3>3 DEF Tried, To
    <3> QED BY <1>7, <3>2, <3>3
  <2>6. \A m \in DOMAIN msgs : m \in box'[msgs[m].from] => Tried(To(m), m)'
    <3>1. DOMAIN msgs = 1 .. Len(msgs)
      BY DEF TypeOK
    <3>2. \A m \in 1 .. Len(msgs) : m \in box[msgs[m].from] => Tried(To(m), m)
      BY <3>1 DEF Recorded, SentIsOnRecord
    <3> SUFFICES ASSUME NEW m \in 1 .. Len(msgs), m \in box'[msgs[m].from] PROVE Tried(To(m), m)'
      BY <3>1
    <3>3. CASE m = m0
      BY <2>1, <2>5, <3>3 DEF Tried, To
    <3>4. CASE m # m0
      <4>1. m \in box[msgs[m].from] /\ To(m) \in Uids
        BY <2>2, <3>4
      <4> QED BY <2>1, <2>2, <3>2, <4>1 DEF Tried, To
    <3> QED BY <3>3, <3>4
  <2>7. \A v \in Uids : \A m \in shown'[v] : Tried(v, m)'
    BY <1>0, <2>1, <2>4
  <2>8. \A v \in Uids : \A i \in 1 .. Len(wire'[v]) : Tried(v, wire[v][i])'
    BY <1>0, <2>1, <2>2 DEF Tried
  <2>9. SentIsOnRecord'
    BY <2>1, <2>6, <2>7 DEF SentIsOnRecord, Tried, To
  <2>10. Tried(To(posting.msg), posting.msg)'
    BY <2>1, <2>5 DEF Tried, To
  <2> QED BY <2>1, <2>8, <2>9, <2>10 DEF Recorded
<1>8. CASE PostToReceiver
  <2>1. posting # Idle /\ posting.msg \in 1 .. Len(msgs)
    BY <1>8 DEF PostToReceiver
  <2> QED BY <1>7, <1>8, <2>1 DEF PostToReceiver
<1>9. CASE PostToSender
  <2>1. posting # Idle /\ posting.msg \in 1 .. Len(msgs) /\ Tried(To(posting.msg), posting.msg)
    BY <1>9 DEF PostToSender, Recorded
  <2> QED BY <1>7, <1>9, <2>1 DEF PostToSender
<1>10. ASSUME NEW u \in Uids, NEW v \in Uids, ProcessPacketMessageNormal(u, v) PROVE Recorded'
  <2>1. UNCHANGED <<box, unwritten, wire, shown>> /\ posting'.step = "to"
    BY <1>10 DEF ProcessPacketMessageNormal
  <2>2. /\ Len(msgs) \in Nat /\ Len(msgs') = Len(msgs) + 1
        /\ \A m \in 1 .. Len(msgs) : msgs'[m] = msgs[m]
    BY <1>10, MessagesStay DEF ProcessPacketMessageNormal, TypeOK
  <2>3. DOMAIN msgs = 1 .. Len(msgs) /\ DOMAIN msgs' = 1 .. Len(msgs')
    BY <1>10, TypeStep DEF TypeOK
  <2>4. \A m \in DOMAIN msgs' : m \in box'[msgs'[m].from] => Tried(msgs'[m].to, m)
    <3> SUFFICES ASSUME NEW m \in 1 .. Len(msgs'), m \in box[msgs'[m].from]
                 PROVE  Tried(msgs'[m].to, m)
      BY <2>1, <2>3
    <3>1. TypeOK'
      BY TypeStep
    <3>2. msgs'[m].from \in Uids
      <4>0. msgs' \in Seq(Message)
        BY <3>1 DEF TypeOK, Message
      <4>1. msgs'[m] \in Message
        BY <4>0
      <4> QED BY <4>1 DEF Message
    <3>3. m \in 1 .. Len(msgs)
      BY <1>0, <3>2
    <3> QED BY <2>2, <2>3, <3>3 DEF Recorded, SentIsOnRecord, To
  <2>5. \A x, m : Tried(x, m)' <=> Tried(x, m)
    BY <2>1 DEF Tried
  <2> QED BY <1>0, <2>1, <2>4, <2>5 DEF Recorded, SentIsOnRecord, To, Tried
<1> QED BY <1>2, <1>3, <1>4, <1>5, <1>6, <1>8, <1>9, <1>10 DEF Next

-----------------------------------------------------------------------------
(* The message in progress, and the console.                               *)

\* The message that is being posted reaches its receiver in the last step.
LEMMA UnsentStep ==
  ASSUME TypeOK, Unsent, Next
  PROVE  Unsent'
<1> SUFFICES ASSUME posting' # Idle, NEW v \in Uids
             PROVE  posting'.msg \notin shown'[v] /\ \A i \in 1 .. Len(wire'[v]) : wire'[v][i] # posting'.msg
  BY DEF Unsent
<1>0. posting # Idle =>
        posting.msg \notin shown[v] /\ \A i \in 1 .. Len(wire[v]) : wire[v][i] # posting.msg
  BY DEF Unsent
<1>1. ASSUME posting'.msg = posting.msg, posting # Idle, shown'[v] = shown[v],
             wire'[v] = wire[v] \/ wire'[v] = <<>>
      PROVE  posting'.msg \notin shown'[v] /\ \A i \in 1 .. Len(wire'[v]) : wire'[v][i] # posting'.msg
  BY <1>0, <1>1
<1>2. CASE Tick \/ PostToReceiver \/ PostToSender
  <2>1. posting # Idle /\ posting'.msg = posting.msg /\ UNCHANGED <<shown, wire>>
    BY <1>2, Typed DEF Tick, PostToReceiver, PostToSender, PostInto, InsertInto, NotInserted
  <2> QED BY <1>1, <2>1
<1>3. CASE PostToClient \/ Crash
  BY <1>3 DEF PostToClient, Crash
<1>4. ASSUME NEW u \in Uids, Login(u) \/ OnlineUserDelete(u) \/ ProcessPacketMessageQueryOffline(u)
      PROVE  FALSE
  BY <1>4 DEF Login, OnlineUserDelete, ProcessPacketMessageQueryOffline
<1>5. ASSUME NEW u \in Uids, CLIKick(u) \/ CLIKickSave(u) \/ QueryOfflineSend(u) \/ Quit(u)
      PROVE  posting'.msg \notin shown'[v] /\ \A i \in 1 .. Len(wire'[v]) : wire'[v][i] # posting'.msg
  <2>1. posting' = posting /\ shown' = shown
    BY <1>5 DEF CLIKick, CLIKickSave, QueryOfflineSend, Quit
  <2>2. wire' = wire \/ wire' = [wire EXCEPT ![u] = <<>>]
    BY <1>5 DEF CLIKick, CLIKickSave, QueryOfflineSend, Quit
  <2>3. wire'[v] = wire[v] \/ wire'[v] = <<>>
    BY <2>2 DEF TypeOK
  <2> QED BY <1>1, <2>1, <2>3
<1>6. ASSUME NEW u \in Uids, ServeMessage(u)
      PROVE  posting'.msg \notin shown'[v] /\ \A i \in 1 .. Len(wire'[v]) : wire'[v][i] # posting'.msg
  <2>1. posting' = posting
    BY <1>6 DEF ServeMessage
  <2>2. CASE v # u
    BY <1>1, <1>6, <2>1, <2>2, WireServe
  <2>3. CASE v = u
    <3>1. /\ Len(wire[v]) \in Nat \ {0} /\ Len(wire'[v]) = Len(wire[v]) - 1
          /\ \A i \in 1 .. Len(wire[v]) - 1 : wire'[v][i] = wire[v][i + 1]
          /\ shown'[v] \subseteq shown[v] \union {wire[v][1]}
      BY <1>6, <2>3, WireServe
    <3>2. \A i \in 1 .. Len(wire[v]) - 1 : i + 1 \in 1 .. Len(wire[v])
      BY <3>1
    <3>3. 1 \in 1 .. Len(wire[v])
      BY <3>1
    <3> QED BY <1>0, <2>1, <3>1, <3>2, <3>3
  <2> QED BY <2>2, <2>3
<1>7. ASSUME NEW u \in Uids, NEW w \in Uids, ProcessPacketMessageNormal(u, w)
      PROVE  posting'.msg \notin shown'[v] /\ \A i \in 1 .. Len(wire'[v]) : wire'[v][i] # posting'.msg
  <2>1. posting'.msg = Len(msgs) + 1 /\ UNCHANGED <<shown, wire>>
    BY <1>7 DEF ProcessPacketMessageNormal
  <2>2. Len(msgs) \in Nat /\ posting'.msg \notin 1 .. Len(msgs)
    BY <2>1, Typed
  <2>3. wire[v] \in Seq(1 .. Len(msgs)) /\ shown[v] \subseteq 1 .. Len(msgs)
    BY Typed DEF TypeOK
  <2>4. \A i \in 1 .. Len(wire[v]) : wire[v][i] \in 1 .. Len(msgs)
    BY <2>3
  <2> QED BY <2>1, <2>2, <2>3, <2>4
<1> QED BY <1>2, <1>3, <1>4, <1>5, <1>6, <1>7 DEF Next

\* Who is being kicked has lost something.
LEMMA KickStep ==
  ASSUME TypeOK, KickIsLoss, Next
  PROVE  KickIsLoss'
<1>1. CASE kicking' \subseteq kicking
  BY <1>1, MishapsStay DEF KickIsLoss, TypeOK
<1>2. ASSUME NEW u \in Uids, CLIKick(u) PROVE KickIsLoss'
  BY <1>2 DEF CLIKick, Mark, KickIsLoss, TypeOK
<1>3. kicking' \subseteq kicking \/ \E u \in Uids : CLIKick(u)
  BY DEF Next, Tick, PostToReceiver, PostToSender, PostToClient, PostInto, InsertInto, NotInserted, Crash, Login, OnlineUserDelete,
         ProcessPacketMessageQueryOffline, CLIKickSave, QueryOfflineSend, ServeMessage, Quit,
         ProcessPacketMessageNormal
<1> QED BY <1>1, <1>2, <1>3

-----------------------------------------------------------------------------
(* Order.                                                                  *)

\* Nothing changes for v but perhaps that its wire is cut.
LEMMA OrderKept ==
  ASSUME TypeOK, NEW v \in Uids, WireInOrder(v), shown'[v] = shown[v],
         wire'[v] = wire[v] \/ wire'[v] = <<>>
  PROVE  WireInOrder(v)'
BY DEF WireInOrder

\* What has been shown was posted by now.
LEMMA ShownByNow ==
  ASSUME TypeOK, Chronicle, NEW v \in Uids, lastlogout'[v] = clock,
         UNCHANGED <<msgs, shown>>
  PROVE  \A n \in shown'[v] : msgs'[n].time <= lastlogout'[v]
<1>1. shown[v] \subseteq 1 .. Len(msgs)
  BY DEF TypeOK
<1>2. \A n \in 1 .. Len(msgs) : msgs[n].time <= clock
  BY DEF Chronicle
<1> QED BY <1>1, <1>2

\* The answer to a query is newer than what the user was shown in its last session.
LEMMA QueryInOrder ==
  ASSUME TypeOK, Chronicle, NEW u \in Uids, ProcessPacketMessageQueryOffline(u),
         wire[u] = <<>>, \A n \in shown[u] : msgs[n].time <= lastlogout[u]
  PROVE  WireInOrder(u)'
<1> DEFINE q == FirstRows(Unseen(u))
<1>1. /\ q \in Seq(1 .. Len(msgs)) /\ Ascending(q)
      /\ \A i \in 1 .. Len(q) : q[i] \in Unseen(u)
  BY FirstRowsAre, UnseenAre
<1>2. Len(q) \in Nat /\ Len(wire'[u]) = Len(q) /\ \A i \in 1 .. Len(q) : wire'[u][i] = q[i]
  <2>1. /\ Len(q) \in Nat /\ Len(wire'[u]) = Len(wire[u]) + Len(q)
        /\ \A i \in 1 .. Len(q) : wire'[u][Len(wire[u]) + i] = q[i]
    BY WireQuery
  <2>2. Len(wire[u]) = 0
    OBVIOUS
  <2> HIDE DEF q
  <2> QED BY <2>1, <2>2
<1>3. shown'[u] = shown[u]
  BY DEF ProcessPacketMessageQueryOffline
<1>4. \A i \in 1 .. Len(q) : q[i] \in 1 .. Len(msgs) /\ msgs[q[i]].time > lastlogout[u]
  BY <1>1, UnseenAre
<1>5. \A n \in shown[u] : n \in 1 .. Len(msgs)
  BY DEF TypeOK
<1> HIDE DEF q
<1>6. ASSUME NEW i \in 1 .. Len(q), NEW n \in shown[u] PROVE n < q[i]
  <2> DEFINE m == q[i]
  <2>1. m \in 1 .. Len(msgs) /\ n \in 1 .. Len(msgs) /\ msgs[m].time > lastlogout[u] /\ msgs[n].time <= lastlogout[u]
    BY <1>4, <1>5
  <2> HIDE DEF m
  <2>2. m < n => msgs[m].time <= msgs[n].time
    BY <2>1 DEF Chronicle
  <2>3. msgs[m].time \in Nat /\ msgs[n].time \in Nat /\ lastlogout[u] \in Nat /\ Len(msgs) \in Nat
    BY <2>1, Typed
  <2>4. ~(m < n) /\ m # n
    BY <2>1, <2>2, <2>3
  <2>5. n < m
    BY <2>1, <2>3, <2>4
  <2> QED BY <2>5 DEF m
<1>7. ASSUME NEW i \in 1 .. Len(q), NEW j \in 1 .. i - 1 PROVE q[j] < q[i]
  <2>1. j \in 1 .. Len(q) /\ j < i
    BY <1>2
  <2> QED BY <1>1, <2>1 DEF Ascending
<1>8. \A i \in 1 .. Len(q) : \A j \in 1 .. i - 1 : j \in 1 .. Len(q)
  BY <1>2
<1> QED BY <1>2, <1>3, <1>6, <1>7, <1>8 DEF WireInOrder

\* Reading the first packet leaves the others in order, and newer.
LEMMA ServeInOrder ==
  ASSUME TypeOK, NEW u \in Uids, ServeMessage(u), WireInOrder(u)
  PROVE  WireInOrder(u)'
<1> DEFINE n == Len(wire[u]) - 1
<1>1. /\ Len(wire[u]) \in Nat \ {0} /\ Len(wire'[u]) = n /\ n \in Nat
      /\ \A i \in 1 .. n : wire'[u][i] = wire[u][i + 1]
      /\ shown'[u] \subseteq shown[u] \union {wire[u][1]}
  <2>1. /\ Len(wire[u]) \in Nat \ {0} /\ Len(wire'[u]) = Len(wire[u]) - 1
        /\ \A i \in 1 .. Len(wire[u]) - 1 : wire'[u][i] = wire[u][i + 1]
    BY WireServe
  <2>2. shown'[u] = IF client[u] = "loading" THEN shown[u] ELSE shown[u] \union {wire[u][1]}
    BY WireServe
  <2>3. n \in Nat
    BY <2>1
  <2> QED BY <2>1, <2>2, <2>3
<1>2. \A i \in 1 .. n : i + 1 \in 1 .. Len(wire[u]) /\ 1 \in 1 .. (i + 1) - 1
  BY <1>1
<1>3. \A i \in 1 .. n : \A j \in 1 .. i - 1 : j \in 1 .. n /\ j + 1 \in 1 .. (i + 1) - 1
  BY <1>1
<1> HIDE DEF n
<1>4. ASSUME NEW i \in 1 .. n, NEW k \in shown'[u] PROVE k < wire'[u][i]
  <2>1. k \in shown[u] \/ k = wire[u][1]
    BY <1>1
  <2> QED BY <1>1, <1>2, <2>1 DEF WireInOrder
<1>5. ASSUME NEW i \in 1 .. n, NEW j \in 1 .. i - 1 PROVE wire'[u][j] < wire'[u][i]
  BY <1>1, <1>2, <1>3 DEF WireInOrder
<1> QED BY <1>1, <1>4, <1>5 DEF WireInOrder

\* The message that is being posted is the newest.
LEMMA SendInOrder ==
  ASSUME TypeOK, Chronicle, Unsent, PostToClient, NEW v \in Uids, WireInOrder(v)
  PROVE  WireInOrder(v)'
<1> DEFINE n == Len(wire[v])
           m == posting.msg
<1>1. n \in Nat /\ m = Len(msgs) /\ posting # Idle /\ shown' = shown /\ Len(msgs) \in Nat
  BY Typed DEF PostToClient, Chronicle
<1>2. \A k \in shown[v] : k < m
  <2>1. \A k \in shown[v] : k \in 1 .. Len(msgs) /\ k # m
    BY <1>1 DEF TypeOK, Unsent
  <2> QED BY <1>1, <2>1
<1>3. \A i \in 1 .. n : wire[v][i] < m
  <2>1. wire[v] \in Seq(1 .. Len(msgs))
    BY Typed
  <2>2. \A i \in 1 .. n : wire[v][i] \in 1 .. Len(msgs) /\ wire[v][i] # m
    BY <1>1, <2>1 DEF Unsent
  <2> HIDE DEF n, m
  <2> QED BY <1>1, <2>2
<1>4. CASE wire'[v] = wire[v]
  BY <1>1, <1>4 DEF WireInOrder
<1>5. CASE wire'[v] # wire[v]
  <2>1. /\ Len(wire'[v]) = n + 1 /\ wire'[v][n + 1] = m
        /\ \A i \in 1 .. n : wire'[v][i] = wire[v][i]
    BY <1>5, WireSend
  <2> HIDE DEF n, m
  <2>2. \A i \in 1 .. n + 1 : i \in 1 .. n \/ i = n + 1
    BY <1>1, LastOrBefore
  <2>3. \A i \in 1 .. n + 1 : \A j \in 1 .. i - 1 : j \in 1 .. n
    BY <1>1
  <2>4. ASSUME NEW i \in 1 .. n + 1, NEW k \in shown'[v] PROVE k < wire'[v][i]
    <3>1. CASE i \in 1 .. n
      BY <1>1, <2>1, <3>1 DEF WireInOrder, n
    <3>2. CASE i = n + 1
      BY <1>1, <1>2, <2>1, <3>2
    <3> QED BY <2>2, <3>1, <3>2
  <2>5. ASSUME NEW i \in 1 .. n + 1, NEW j \in 1 .. i - 1 PROVE wire'[v][j] < wire'[v][i]
    <3>1. CASE i \in 1 .. n
      BY <2>1, <2>3, <3>1 DEF WireInOrder, n
    <3>2. CASE i = n + 1
      BY <1>3, <2>1, <2>3, <3>2
    <3> QED BY <2>2, <3>1, <3>2
  <2> QED BY <2>1, <2>4, <2>5 DEF WireInOrder
<1> QED BY <1>4, <1>5

\* Nothing but the mishap "order" puts a message out of order.
LEMMA OrderedStep ==
  ASSUME TypeOK, Chronicle, Unsent, Ordered, Next
  PROVE  Ordered'
<1> SUFFICES ASSUME NEW v \in Uids, "order" \notin mishaps'[v]
             PROVE  WireInOrder(v)' /\ ShownBeforeLogout(v)'
  BY DEF Ordered
<1>0. WireInOrder(v) /\ ShownBeforeLogout(v)
  BY MishapsStay DEF Ordered
<1>a. shown[v] \subseteq 1 .. Len(msgs) /\ wire[v] \in Seq(1 .. Len(msgs))
  BY DEF TypeOK
<1>1. CASE Tick \/ PostToReceiver \/ PostToSender
  <2>1. UNCHANGED <<msgs, shown, wire, client, online, lastlogout>>
    BY <1>1 DEF Tick, PostToReceiver, PostToSender, PostInto, InsertInto, NotInserted
  <2> QED BY <1>0, <2>1 DEF WireInOrder, ShownBeforeLogout
<1>2. CASE PostToClient
  <2>1. WireInOrder(v)'
    BY <1>0, <1>2, SendInOrder
  <2>2. UNCHANGED <<msgs, shown, client, online, lastlogout>>
    BY <1>2 DEF PostToClient
  <2>3. client[v] \in {"loading", "asked"} => wire'[v] = <<>>
    <3> SUFFICES ASSUME client[v] \in {"loading", "asked"} PROVE wire'[v] = <<>>
      OBVIOUS
    <3>1. wire[v] = <<>>
      BY <1>0 DEF ShownBeforeLogout
    <3>2. v # To(posting.msg) \/ v \notin online
      BY <1>2 DEF PostToClient, Mark, TypeOK
    <3>3. wire'[v] = wire[v]
      BY <1>2, <3>2, WireSend
    <3> QED BY <3>1, <3>3
  <2> QED BY <1>0, <2>1, <2>2, <2>3 DEF ShownBeforeLogout
<1>3. CASE Crash
  BY <1>3 DEF Crash
<1>4. ASSUME NEW u \in Uids, Login(u) PROVE WireInOrder(v)' /\ ShownBeforeLogout(v)'
  <2>1. UNCHANGED <<msgs, shown>> /\ online' = online \union {u}
    BY <1>4 DEF Login
  <2>2. v = u => wire'[v] = <<>> /\ client'[v] = "loading"
    BY <1>4 DEF Login, TypeOK
  <2>3. v # u => wire'[v] = wire[v] /\ client'[v] = client[v] /\ lastlogout'[v] = lastlogout[v]
    BY <1>4 DEF Login, TypeOK
  <2>4. v = u => IF v \in online THEN lastlogout'[v] = clock ELSE lastlogout'[v] = lastlogout[v]
    BY <1>4 DEF Login, TypeOK
  <2>5. WireInOrder(v)'
    BY <1>0, <2>1, <2>2, <2>3, OrderKept
  <2>6. CASE v = u
    BY <1>0, <2>1, <2>2, <2>4, <2>5, <2>6, ShownByNow DEF ShownBeforeLogout
  <2>7. CASE v # u
    BY <1>0, <2>1, <2>3, <2>5, <2>7 DEF ShownBeforeLogout
  <2> QED BY <2>5, <2>6, <2>7
<1>5. ASSUME NEW u \in Uids, OnlineUserDelete(u) \/ CLIKickSave(u)
      PROVE  WireInOrder(v)' /\ ShownBeforeLogout(v)'
  <2>1. UNCHANGED <<msgs, shown, wire, client>>
    BY <1>5 DEF OnlineUserDelete, CLIKickSave
  <2>2. v = u => lastlogout'[v] = clock
    BY <1>5 DEF OnlineUserDelete, CLIKickSave, TypeOK
  <2>3. v # u => lastlogout'[v] = lastlogout[v] /\ (v \in online' <=> v \in online)
    BY <1>5 DEF OnlineUserDelete, CLIKickSave, TypeOK
  <2>4. WireInOrder(v)'
    BY <1>0, <2>1, OrderKept
  <2>5. CASE v = u
    BY <1>0, <2>1, <2>2, <2>4, <2>5, ShownByNow DEF ShownBeforeLogout
  <2>6. CASE v # u
    BY <1>0, <2>1, <2>3, <2>4, <2>6 DEF ShownBeforeLogout
  <2> QED BY <2>4, <2>5, <2>6
<1>6. ASSUME NEW u \in Uids, CLIKick(u) PROVE WireInOrder(v)' /\ ShownBeforeLogout(v)'
  <2>1. v # u
    BY <1>6 DEF CLIKick, Mark, TypeOK
  <2>2. /\ UNCHANGED <<msgs, shown, lastlogout>> /\ wire'[v] = wire[v] /\ client'[v] = client[v]
        /\ v \in online' <=> v \in online
    BY <1>6, <2>1 DEF CLIKick, TypeOK
  <2> QED BY <1>0, <2>2, OrderKept DEF ShownBeforeLogout
<1>7. ASSUME NEW u \in Uids, QueryOfflineSend(u) PROVE WireInOrder(v)' /\ ShownBeforeLogout(v)'
  <2>1. UNCHANGED <<msgs, shown, lastlogout, wire, online>>
    BY <1>7 DEF QueryOfflineSend
  <2>2. client'[v] = client[v] \/ (client[v] = "loading" /\ client'[v] = "asked")
    BY <1>7 DEF QueryOfflineSend, TypeOK
  <2> QED BY <1>0, <2>1, <2>2, OrderKept DEF ShownBeforeLogout
<1>8. ASSUME NEW u \in Uids, Quit(u) PROVE WireInOrder(v)' /\ ShownBeforeLogout(v)'
  <2>1. UNCHANGED <<msgs, shown, lastlogout, online>> /\ u \in online
    BY <1>8 DEF Quit, TypeOK
  <2>2. v = u => wire'[v] = <<>> /\ client'[v] = "off"
    BY <1>8 DEF Quit, TypeOK
  <2>3. v # u => wire'[v] = wire[v] /\ client'[v] = client[v]
    BY <1>8 DEF Quit, TypeOK
  <2>4. WireInOrder(v)'
    BY <1>0, <2>1, <2>2, <2>3, OrderKept
  <2>5. ShownBeforeLogout(v)'
    BY <1>0, <2>1, <2>2, <2>3 DEF ShownBeforeLogout
  <2> QED BY <2>4, <2>5
<1>9. ASSUME NEW u \in Uids, ServeMessage(u) PROVE WireInOrder(v)' /\ ShownBeforeLogout(v)'
  <2>1. UNCHANGED <<msgs, client, lastlogout, online>> /\ wire[u] # <<>>
    BY <1>9 DEF ServeMessage
  <2>2. CASE v # u
    <3>1. wire'[v] = wire[v] /\ shown'[v] = shown[v]
      BY <1>9, <2>2, WireServe
    <3> QED BY <1>0, <2>1, <3>1, OrderKept DEF ShownBeforeLogout
  <2>3. CASE v = u
    <3>1. client[v] = "served"
      BY <1>0, <2>1, <2>3 DEF ShownBeforeLogout, Chronicle, TypeOK
    <3>2. v \in online
      BY <3>1 DEF TypeOK
    <3>3. WireInOrder(v)'
      BY <1>0, <1>9, <2>3, ServeInOrder
    <3> QED BY <2>1, <3>1, <3>2, <3>3 DEF ShownBeforeLogout
  <2> QED BY <2>2, <2>3
<1>10. ASSUME NEW u \in Uids, ProcessPacketMessageQueryOffline(u) PROVE WireInOrder(v)' /\ ShownBeforeLogout(v)'
  <2>1. UNCHANGED <<msgs, shown, lastlogout, online>> /\ client[u] = "asked" /\ u \in online
    BY <1>10 DEF ProcessPacketMessageQueryOffline
  <2>2. CASE v # u
    <3>1. wire'[v] = wire[v] /\ client'[v] = client[v]
      BY <1>10, <2>2, WireQuery DEF ProcessPacketMessageQueryOffline, TypeOK
    <3> QED BY <1>0, <2>1, <3>1, OrderKept DEF ShownBeforeLogout
  <2>3. CASE v = u
    <3>1. wire[v] = <<>> /\ \A n \in shown[v] : msgs[n].time <= lastlogout[v]
      BY <1>0, <2>1, <2>3 DEF ShownBeforeLogout
    <3>2. WireInOrder(v)'
      BY <1>10, <2>3, <3>1, QueryInOrder
    <3>3. client'[v] = "served"
      BY <1>10, <2>3 DEF ProcessPacketMessageQueryOffline, TypeOK
    <3> QED BY <2>1, <2>3, <3>2, <3>3 DEF ShownBeforeLogout
  <2> QED BY <2>2, <2>3
<1>11. ASSUME NEW u \in Uids, NEW w \in Uids, ProcessPacketMessageNormal(u, w)
       PROVE  WireInOrder(v)' /\ ShownBeforeLogout(v)'
  <2>1. UNCHANGED <<shown, wire, client, online, lastlogout>>
    BY <1>11 DEF ProcessPacketMessageNormal
  <2>2. \A n \in shown[v] : msgs'[n] = msgs[n]
    BY <1>a, MessagesStay
  <2> QED BY <1>0, <2>1, <2>2, OrderKept DEF ShownBeforeLogout
<1> QED BY <1>1, <1>2, <1>3, <1>4, <1>5, <1>6, <1>7, <1>8, <1>9, <1>10, <1>11 DEF Next

-----------------------------------------------------------------------------
(* What is owed.                                                           *)

\* A user whose client has read everything, or is gone, has been shown all but the
\* message that is being posted.
LEMMA AllShown ==
  ASSUME TypeOK, NEW v \in Uids, OwedTo(v),
         (client[v] = "served" /\ wire[v] = <<>>) \/ (client[v] = "off" /\ v \in online),
         NEW m \in 1 .. Len(msgs), To(m) = v, m \in box[v], ~InProgress(m)
  PROVE  m \in shown[v]
<1>1. /\ client[v] = "served" => m \in shown[v] \/ \E i \in 1 .. Len(wire[v]) : wire[v][i] = m
      /\ v \in online /\ client[v] = "off" => m \in shown[v]
  BY DEF OwedTo, Accounted
<1>2. wire[v] = <<>> => 1 .. Len(wire[v]) = {}
  OBVIOUS
<1> QED BY <1>1, <1>2

\* Nothing changes for v but that its client comes nearer to a query, or goes with
\* nothing unread, or goes with the session.
LEMMA OwedKept ==
  ASSUME TypeOK, NEW v \in Uids, OwedTo(v), UNCHANGED <<msgs, box, unwritten>>,
         lastlogout'[v] = lastlogout[v], shown[v] \subseteq shown'[v],
         \/ posting' = posting /\ wire'[v] = wire[v] /\ client'[v] = client[v] /\ (v \in online' => v \in online)
         \/ posting' \in {posting, Idle} /\ client'[v] \in {"loading", "asked"}
         \/ posting' \in {posting, Idle} /\ client'[v] = "off" /\ v \notin online'
         \/ posting' = posting /\ client'[v] = "off" /\ client[v] = "served" /\ wire[v] = <<>>
  PROVE  OwedTo(v)'
<1>1. posting' # Idle /\ To(posting.msg)' = v => msgs'[posting'.msg].time > lastlogout'[v]
  BY DEF OwedTo, To, Idle
<1>2. ASSUME NEW m \in 1 .. Len(msgs'), To(m)' = v, m \in box'[v] PROVE Accounted(v, m)'
  <2>1. m \in 1 .. Len(msgs) /\ To(m) = v /\ m \in box[v]
    BY <1>2 DEF To
  <2>2. Accounted(v, m)
    BY <2>1 DEF OwedTo
  <2>3. ASSUME client[v] = "served", wire[v] = <<>>, ~InProgress(m) PROVE m \in shown[v]
    BY <2>1, <2>3, AllShown
  <2> QED BY <2>2, <2>3 DEF Accounted, InProgress
<1> QED BY <1>1, <1>2 DEF OwedTo

\* A session of v ends that leaves nothing unread: no message is left to the next query.
LEMMA OwedAtEnd ==
  ASSUME TypeOK, NEW v \in Uids, OwedTo(v), UNCHANGED <<msgs, box, unwritten, shown>>, posting = Idle, posting' = Idle,
         (client[v] = "served" /\ wire[v] = <<>>) \/ (client[v] = "off" /\ v \in online),
         client'[v] = "loading" \/ (v \notin online' /\ client'[v] = "off")
  PROVE  OwedTo(v)'
<1>1. ASSUME NEW m \in 1 .. Len(msgs'), To(m)' = v, m \in box'[v] PROVE Accounted(v, m)'
  <2>1. m \in 1 .. Len(msgs) /\ To(m) = v /\ m \in box[v] /\ ~InProgress(m)
    BY <1>1 DEF To, InProgress
  <2>2. m \in shown[v]
    BY <2>1, AllShown
  <2> QED BY <2>2 DEF Accounted
<1> QED BY <1>1 DEF OwedTo

\* A message comes on record: it is the one being posted.
LEMMA OwedOnRecord ==
  ASSUME TypeOK, NEW v \in Uids, OwedTo(v), posting # Idle,
         NEW u \in Uids, NEW next, next \in {"from", "send"}, PostInto(u, next)
  PROVE  OwedTo(v)'
<1>1. UNCHANGED <<msgs, lastlogout, online, client, wire, shown>> /\ posting'.msg = posting.msg
  BY Typed DEF PostInto, InsertInto, NotInserted
<1>2. box'[v] \subseteq box[v] \union {posting.msg}
  BY DEF PostInto, InsertInto, NotInserted, TypeOK
<1>3. ASSUME NEW m \in 1 .. Len(msgs'), To(m)' = v, m \in box'[v] PROVE Accounted(v, m)'
  <2>1. m \in 1 .. Len(msgs) /\ To(m) = v
    BY <1>1, <1>3 DEF To
  <2>2. CASE m = posting.msg
    <3>1. msgs[m].time > lastlogout[v]
      BY <2>1, <2>2 DEF OwedTo
    <3>2. InProgress(m)'
      BY <1>1, <2>2, Typed DEF InProgress, PostInto, InsertInto, NotInserted, Idle
    <3> QED BY <1>1, <3>1, <3>2 DEF Accounted
  <2>3. CASE m # posting.msg
    <3>1. Accounted(v, m)
      BY <1>2, <1>3, <2>1, <2>3 DEF OwedTo
    <3> QED BY <1>1, <2>3, <3>1 DEF Accounted, InProgress
  <2> QED BY <2>2, <2>3
<1>4. posting' # Idle /\ To(posting.msg)' = v => msgs'[posting'.msg].time > lastlogout'[v]
  BY <1>1 DEF OwedTo, To
<1> QED BY <1>3, <1>4 DEF OwedTo

\* The message is sent: to a client that is served it is on its way, to one that is not
\* it is left for the query.
LEMMA OwedOnSend ==
  ASSUME TypeOK, NEW v \in Uids, OwedTo(v), PostToClient, "loss" \notin mishaps'[v]
  PROVE  OwedTo(v)'
<1>1. UNCHANGED <<msgs, box, unwritten, lastlogout, online, client, shown>> /\ posting # Idle /\ posting' = Idle
  BY Typed DEF PostToClient
<1>2. v = To(posting.msg) /\ v \in online => client[v] # "off"
  BY DEF PostToClient, Mark, TypeOK
<1>3. ASSUME NEW m \in 1 .. Len(msgs), To(m) = v, m \in box[v] PROVE Accounted(v, m)'
  <2>0. Accounted(v, m)
    BY <1>3 DEF OwedTo
  <2>1. m \in shown'[v] \/ msgs'[m].time > lastlogout'[v]
    BY <1>1, <2>0 DEF Accounted
  <2>2. CASE v = To(posting.msg) /\ v \in online /\ client[v] # "off"
    <3>1. /\ Len(wire'[v]) = Len(wire[v]) + 1 /\ wire'[v][Len(wire[v]) + 1] = posting.msg
          /\ \A i \in 1 .. Len(wire[v]) : wire'[v][i] = wire[v][i]
      BY <2>2, WireSend
    <3>2. Len(wire[v]) \in Nat
      BY Typed
    <3>3. Len(wire[v]) + 1 \in 1 .. Len(wire'[v]) /\ \A i \in 1 .. Len(wire[v]) : i \in 1 .. Len(wire'[v])
      BY <3>1, <3>2
    <3>4. client[v] = "served" => m \in shown[v] \/ \E i \in 1 .. Len(wire'[v]) : wire'[v][i] = m
      <4>1. CASE InProgress(m)
        BY <3>1, <3>3, <4>1 DEF InProgress
      <4>2. CASE ~InProgress(m)
        BY <2>0, <3>1, <3>3, <4>2 DEF Accounted
      <4> QED BY <4>1, <4>2
    <3> QED BY <1>1, <2>1, <2>2, <3>4 DEF Accounted
  <2>3. CASE ~(v = To(posting.msg) /\ v \in online /\ client[v] # "off")
    <3>1. wire'[v] = wire[v]
      BY <2>3, WireSend
    <3>2. InProgress(m) => v \notin online
      BY <1>2, <1>3, <2>3 DEF InProgress
    <3>3. InProgress(m) => client[v] = "off"
      BY <3>2 DEF TypeOK
    <3> QED BY <1>1, <2>0, <2>1, <3>1, <3>2, <3>3 DEF Accounted
  <2> QED BY <2>2, <2>3
<1> QED BY <1>1, <1>3 DEF OwedTo, To

\* A query that does not overflow answers with every message not yet shown.
LEMMA OwedOnQuery ==
  ASSUME TypeOK, NEW u \in Uids, OwedTo(u), ProcessPacketMessageQueryOffline(u),
         "overflow" \notin mishaps'[u]
  PROVE  OwedTo(u)'
<1> DEFINE q == FirstRows(Unseen(u))
<1>1. /\ UNCHANGED <<msgs, box, unwritten, lastlogout, online, posting, shown>> /\ posting = Idle
      /\ client'[u] = "served"
  BY DEF ProcessPacketMessageQueryOffline, TypeOK
<1>2. ~(Len(InOrder(Unseen(u))) > Limit)
  BY DEF ProcessPacketMessageQueryOffline, Mark, TypeOK
<1>3. Len(InOrder(Unseen(u))) \in Nat /\ Limit \in Nat
  <2>1. InOrder(Unseen(u)) \in Seq(Nat)
    BY UnseenAre, InOrderIs
  <2> QED BY <2>1, DeliveryAssumption
<1>4. \A m \in Unseen(u) : \E i \in 1 .. Len(q) : q[i] = m
  <2>1. Len(InOrder(Unseen(u))) <= Limit
    BY <1>2, <1>3
  <2> QED BY <2>1, UnseenAre, FirstRowsAre
<1>5. /\ Len(q) \in Nat /\ Len(wire'[u]) = Len(wire[u]) + Len(q)
      /\ \A i \in 1 .. Len(q) : wire'[u][Len(wire[u]) + i] = q[i]
  BY WireQuery
<1>6. Len(wire[u]) \in Nat
  BY Typed
<1> HIDE DEF q
<1>7. \A i \in 1 .. Len(q) : Len(wire[u]) + i \in 1 .. Len(wire'[u])
  BY <1>5, <1>6
<1>8. ASSUME NEW m \in 1 .. Len(msgs), To(m) = u, m \in box[u] PROVE Accounted(u, m)'
  <2>1. m \in shown[u] \/ msgs[m].time > lastlogout[u]
    BY <1>8 DEF OwedTo, Accounted
  <2>2. m \in shown[u] \/ m \in Unseen(u)
    BY <1>8, <2>1, UnseenAre
  <2>3. m \in shown[u] \/ \E i \in 1 .. Len(wire'[u]) : wire'[u][i] = m
    BY <1>4, <1>5, <1>7, <2>2
  <2> QED BY <1>1, <2>1, <2>3 DEF Accounted
<1> QED BY <1>1, <1>8 DEF OwedTo, To

\* The packet a client reads is shown, unless the client is not served yet.
LEMMA OwedOnServe ==
  ASSUME TypeOK, Chronicle, NEW u \in Uids, OwedTo(u), ServeMessage(u)
  PROVE  OwedTo(u)'
<1>1. UNCHANGED <<msgs, box, unwritten, lastlogout, online, client, posting>> /\ client[u] # "off"
  BY DEF ServeMessage, Chronicle
<1>2. /\ Len(wire[u]) \in Nat \ {0} /\ Len(wire'[u]) = Len(wire[u]) - 1
      /\ \A i \in 1 .. Len(wire[u]) - 1 : wire'[u][i] = wire[u][i + 1]
      /\ shown'[u] = IF client[u] = "loading" THEN shown[u] ELSE shown[u] \union {wire[u][1]}
  BY WireServe
<1>3. ASSUME NEW m \in 1 .. Len(msgs), To(m) = u, m \in box[u] PROVE Accounted(u, m)'
  <2>1. Accounted(u, m)
    BY <1>3 DEF OwedTo
  <2>2. ASSUME NEW i \in 1 .. Len(wire[u]), wire[u][i] = m, client[u] = "served"
        PROVE  m \in shown'[u] \/ \E j \in 1 .. Len(wire'[u]) : wire'[u][j] = m
    <3>1. CASE i = 1
      BY <1>2, <2>2, <3>1
    <3>2. CASE i # 1
      <4>1. i - 1 \in 1 .. Len(wire[u]) - 1 /\ (i - 1) + 1 = i
        BY <1>2, <3>2
      <4>2. wire'[u][i - 1] = m
        BY <1>2, <2>2, <4>1
      <4> QED BY <1>2, <4>1, <4>2
    <3> QED BY <3>1, <3>2
  <2>3. shown[u] \subseteq shown'[u]
    BY <1>2
  <2> QED BY <1>1, <2>1, <2>2, <2>3 DEF Accounted, InProgress
<1> QED BY <1>1, <1>3 DEF OwedTo, To

\* A message is accepted in a second later than the receiver's last logout.
LEMMA OwedOnAccept ==
  ASSUME TypeOK, NEW v \in Uids, OwedTo(v), "loss" \notin mishaps'[v],
         NEW u \in Uids, NEW w \in Uids, ProcessPacketMessageNormal(u, w)
  PROVE  OwedTo(v)'
<1> DEFINE n == Len(msgs) + 1
<1>1. /\ UNCHANGED <<box, unwritten, lastlogout, online, client, wire, shown>> /\ posting = Idle
      /\ posting'.msg = n /\ Len(msgs) \in Nat
  BY Typed DEF ProcessPacketMessageNormal
<1>2. /\ Len(msgs') = n /\ msgs'[n].time = clock /\ msgs'[n].to = w
      /\ \A m \in 1 .. Len(msgs) : msgs'[m] = msgs[m]
  BY DEF ProcessPacketMessageNormal, TypeOK
<1>3. v = w => clock > lastlogout[v]
  <2>1. v = w => ~(clock <= lastlogout[v])
    BY DEF ProcessPacketMessageNormal, Mark, TypeOK
  <2> QED BY <2>1, Typed
<1>4. box[v] \subseteq 1 .. Len(msgs)
  BY DEF TypeOK
<1> HIDE DEF n
<1>5. ASSUME NEW m \in box'[v], To(m)' = v PROVE Accounted(v, m)'
  <2>1. m \in 1 .. Len(msgs) /\ m \in box[v] /\ To(m) = v /\ msgs'[m] = msgs[m]
    BY <1>1, <1>2, <1>4, <1>5 DEF To
  <2>2. Accounted(v, m) /\ ~InProgress(m)
    BY <1>1, <2>1 DEF OwedTo, InProgress
  <2> QED BY <1>1, <2>1, <2>2 DEF Accounted
<1>6. To(posting.msg)' = v => msgs'[posting'.msg].time > lastlogout'[v]
  BY <1>1, <1>2, <1>3 DEF To
<1> QED BY <1>5, <1>6 DEF OwedTo

\* Nothing but the mishaps "loss" and "overflow" costs a user a message.
LEMMA OwedStep ==
  ASSUME TypeOK, Chronicle, KickIsLoss, Owed, Next
  PROVE  Owed'
<1> SUFFICES ASSUME NEW v \in Uids, Clean(v)'
             PROVE  OwedTo(v)'
  BY DEF Owed
<1>0. OwedTo(v) /\ "loss" \notin mishaps'[v] /\ "overflow" \notin mishaps'[v]
  BY MishapsStay DEF Owed, Clean
<1>a. client[v] \in {"off", "loading", "asked", "served"}
  BY DEF TypeOK
<1>1. CASE Tick
  BY <1>0, <1>1, OwedKept DEF Tick
<1>2. CASE PostToReceiver \/ PostToSender
  <2>1. posting # Idle /\ To(posting.msg) \in Uids /\ msgs[posting.msg].from \in Uids
    BY <1>2, Typed DEF PostToReceiver, PostToSender
  <2> QED BY <1>0, <1>2, <2>1, OwedOnRecord DEF PostToReceiver, PostToSender
<1>3. CASE PostToClient
  BY <1>0, <1>3, OwedOnSend
<1>4. CASE Crash
  <2>1. /\ UNCHANGED <<msgs, box, unwritten, lastlogout, shown>> /\ posting' = Idle
        /\ client'[v] = "off" /\ v \notin online'
    BY <1>4 DEF Crash
  <2> QED BY <1>0, <2>1, OwedKept
<1>5. ASSUME NEW u \in Uids, Login(u) PROVE OwedTo(v)'
  <2>1. UNCHANGED <<msgs, box, unwritten, shown, posting>> /\ posting = Idle
    BY <1>5 DEF Login
  <2>2. CASE v # u
    <3>1. /\ wire'[v] = wire[v] /\ client'[v] = client[v] /\ lastlogout'[v] = lastlogout[v]
          /\ v \in online' => v \in online
      BY <1>5, <2>2 DEF Login, TypeOK
    <3> QED BY <1>0, <2>1, <3>1, OwedKept
  <2>3. CASE v = u
    <3>1. client'[v] = "loading" /\ (v \notin online => lastlogout'[v] = lastlogout[v])
      BY <1>5, <2>3 DEF Login, TypeOK
    <3>2. wire[v] = <<>> /\ client[v] \in {"off", "served"}
      BY <1>0, <1>5, <1>a, <2>3 DEF Login, Mark, LeftBehind, TypeOK
    <3>3. CASE v \in online
      <4>1. (client[v] = "served" /\ wire[v] = <<>>) \/ (client[v] = "off" /\ v \in online)
        BY <3>2, <3>3
      <4>2. posting' = Idle
        BY <2>1
      <4> QED BY <1>0, <2>1, <3>1, <4>1, <4>2, OwedAtEnd
    <3>4. CASE v \notin online
      BY <1>0, <2>1, <3>1, <3>4, OwedKept
    <3> QED BY <3>3, <3>4
  <2> QED BY <2>2, <2>3
<1>6. ASSUME NEW u \in Uids, OnlineUserDelete(u) PROVE OwedTo(v)'
  <2>1. UNCHANGED <<msgs, box, unwritten, shown, posting, client, wire>> /\ posting = Idle
    BY <1>6 DEF OnlineUserDelete
  <2>2. CASE v # u
    <3>1. lastlogout'[v] = lastlogout[v] /\ (v \in online' => v \in online)
      BY <1>6, <2>2 DEF OnlineUserDelete, TypeOK
    <3> QED BY <1>0, <2>1, <3>1, OwedKept
  <2>3. CASE v = u
    <3>1. client[v] = "off" /\ v \in online /\ v \notin online'
      BY <1>6, <2>3 DEF OnlineUserDelete
    <3> QED BY <1>0, <2>1, <3>1, OwedAtEnd
  <2> QED BY <2>2, <2>3
<1>7. ASSUME NEW u \in Uids, ProcessPacketMessageQueryOffline(u) PROVE OwedTo(v)'
  <2>1. CASE v # u
    <3>1. /\ UNCHANGED <<msgs, box, unwritten, shown, posting, lastlogout, online>> /\ client'[v] = client[v]
          /\ wire'[v] = wire[v]
      BY <1>7, <2>1, WireQuery DEF ProcessPacketMessageQueryOffline, TypeOK
    <3> QED BY <1>0, <3>1, OwedKept
  <2>2. CASE v = u
    BY <1>0, <1>7, <2>2, OwedOnQuery
  <2> QED BY <2>1, <2>2
<1>8. ASSUME NEW u \in Uids, CLIKick(u) \/ CLIKickSave(u) PROVE OwedTo(v)'
  <2>1. v # u
    <3>1. CLIKick(u) => "loss" \in mishaps'[u]
      BY DEF CLIKick, Mark, TypeOK
    <3>2. CLIKickSave(u) => "loss" \in mishaps'[u]
      BY DEF CLIKickSave, KickIsLoss
    <3> QED BY <1>0, <1>8, <3>1, <3>2
  <2>2. /\ UNCHANGED <<msgs, box, unwritten, shown, posting>> /\ lastlogout'[v] = lastlogout[v]
        /\ client'[v] = client[v] /\ wire'[v] = wire[v] /\ (v \in online' => v \in online)
    BY <1>8, <2>1 DEF CLIKick, CLIKickSave, TypeOK
  <2> QED BY <1>0, <2>2, OwedKept
<1>9. ASSUME NEW u \in Uids, QueryOfflineSend(u) PROVE OwedTo(v)'
  <2>1. UNCHANGED <<msgs, box, unwritten, shown, posting, lastlogout, wire, online>>
    BY <1>9 DEF QueryOfflineSend
  <2>2. client'[v] = client[v] \/ client'[v] = "asked"
    BY <1>9 DEF QueryOfflineSend, TypeOK
  <2> QED BY <1>0, <2>1, <2>2, OwedKept
<1>10. ASSUME NEW u \in Uids, ServeMessage(u) PROVE OwedTo(v)'
  <2>1. CASE v # u
    <3>1. UNCHANGED <<msgs, box, unwritten, posting, lastlogout, online, client>> /\ wire'[v] = wire[v] /\ shown'[v] = shown[v]
      BY <1>10, <2>1, WireServe DEF ServeMessage
    <3> QED BY <1>0, <3>1, OwedKept
  <2>2. CASE v = u
    BY <1>0, <1>10, <2>2, OwedOnServe
  <2> QED BY <2>1, <2>2
<1>11. ASSUME NEW u \in Uids, Quit(u) PROVE OwedTo(v)'
  <2>1. UNCHANGED <<msgs, box, unwritten, shown, posting, lastlogout, online>>
    BY <1>11 DEF Quit
  <2>2. CASE v # u
    <3>1. wire'[v] = wire[v] /\ client'[v] = client[v]
      BY <1>11, <2>2 DEF Quit, TypeOK
    <3> QED BY <1>0, <2>1, <3>1, OwedKept
  <2>3. CASE v = u
    <3>1. wire[v] = <<>> /\ client[v] = "served"
      BY <1>0, <1>11, <1>a, <2>3 DEF Quit, Mark, LeftBehind, TypeOK
    <3>2. client'[v] = "off"
      BY <1>11, <2>3 DEF Quit, TypeOK
    <3> QED BY <1>0, <2>1, <3>1, <3>2, OwedKept
  <2> QED BY <2>2, <2>3
<1>12. ASSUME NEW u \in Uids, NEW w \in Uids, ProcessPacketMessageNormal(u, w) PROVE OwedTo(v)'
  BY <1>0, <1>12, OwedOnAccept
<1> QED BY <1>1, <1>2, <1>3, <1>4, <1>5, <1>6, <1>7, <1>8, <1>9, <1>10, <1>11, <1>12 DEF Next

-----------------------------------------------------------------------------
(* The theorems.                                                           *)

\* The invariant holds at first.
LEMMA DeliveryInit ==
  ASSUME Init
  PROVE  DeliveryInv
<1>1. TypeOK
  BY DeliveryAssumption DEF Init, TypeOK, Idle, Message
<1>2. Chronicle /\ Recorded
  BY DEF Init, Chronicle, Recorded, SentIsOnRecord, Idle
<1>3. Unsent /\ KickIsLoss
  BY DEF Init, Unsent, KickIsLoss
<1>4. Ordered
  BY DEF Init, Ordered, WireInOrder, ShownBeforeLogout
<1>5. Owed
  BY DEF Init, Owed, OwedTo
<1> QED BY <1>1, <1>2, <1>3, <1>4, <1>5 DEF DeliveryInv

\* Every step keeps the invariant.
LEMMA DeliveryStep ==
  ASSUME DeliveryInv, [Next]_vars
  PROVE  DeliveryInv'
<1>1. CASE Next
  BY <1>1, TypeStep, ChronicleStep, RecordedStep, UnsentStep, OrderedStep, KickStep, OwedStep DEF DeliveryInv
<1>2. CASE UNCHANGED vars
  <2>0. UNCHANGED <<clock, msgs, box, unwritten, lastlogout, online, kicking, posting, client, wire, shown, mishaps>>
    BY <1>2 DEF vars
  <2>1. TypeOK'
    BY <2>0 DEF DeliveryInv, TypeOK
  <2>2. Chronicle' /\ Unsent' /\ KickIsLoss'
    BY <2>0 DEF DeliveryInv, Chronicle, Unsent, KickIsLoss
  <2>3. Recorded'
    BY <2>0 DEF DeliveryInv, Recorded, SentIsOnRecord, To, Tried
  <2>4. Ordered'
    BY <2>0 DEF DeliveryInv, Ordered, WireInOrder, ShownBeforeLogout
  <2>5. Owed'
    BY <2>0 DEF DeliveryInv, Owed, OwedTo, Clean, Accounted, InProgress, To
  <2> QED BY <2>1, <2>2, <2>3, <2>4, <2>5 DEF DeliveryInv
<1> QED BY <1>1, <1>2

\* The inductive invariant of message delivery.
THEOREM DeliveryInvHolds == Spec => []DeliveryInv
BY DeliveryInit, DeliveryStep, PTL DEF Spec

\* Rows, files and packets are of messages that were posted, and only a client that the
\* server knows is told any (PostMessage, OnlineUserGet).
THEOREM TypeCorrect == Spec => []TypeOK
<1>1. DeliveryInv => TypeOK
  BY DEF DeliveryInv
<1> QED BY <1>1, DeliveryInvHolds, PTL

\* PostMessage writes the receiver's file before the sender's, and sends last: what a
\* sender has on record the receiver has too, and nobody is shown what it has not, but
\* for the messages that the receiver's file failed to take.
THEOREM SentIsOnRecordAlways == Spec => []SentIsOnRecord
<1>1. DeliveryInv => SentIsOnRecord
  BY DEF DeliveryInv, Recorded
<1> QED BY <1>1, DeliveryInvHolds, PTL

\* Over all sessions a user is shown each message once and in the order of posting, for
\* every number of users and messages, unless one of the mishaps "order" names happens.
THEOREM ShownInOrderOnceAlways == Spec => []ShownInOrderOnce
<1>1. DeliveryInv => ShownInOrderOnce
  <2> SUFFICES ASSUME DeliveryInv PROVE ShownInOrderOnce
    OBVIOUS
  <2>1. \A u \in Uids : DOMAIN wire[u] = 1 .. Len(wire[u])
    BY DEF DeliveryInv, TypeOK
  <2> QED BY <2>1 DEF DeliveryInv, Ordered, WireInOrder, ShownInOrderOnce
<1> QED BY <1>1, DeliveryInvHolds, PTL

\* A user who was served and has read everything has been shown every message to it that
\* is on record, unless one of the mishaps "loss" and "overflow" name happens.
THEOREM NothingMissedAlways == Spec => []NothingMissed
<1>1. DeliveryInv => NothingMissed
  <2> SUFFICES ASSUME DeliveryInv, NEW u \in Uids, Settled(u),
                      mishaps[u] \intersect {"loss", "overflow"} = {},
                      NEW m \in Posted(u), m \in box[u]
               PROVE  m \in shown[u]
    BY DEF NothingMissed
  <2>1. TypeOK /\ OwedTo(u)
    BY DEF DeliveryInv, Owed, Clean
  <2>2. m \in 1 .. Len(msgs) /\ To(m) = u
    BY <2>1 DEF Posted, TypeOK
  <2>3. ~InProgress(m)
    BY <2>2 DEF Settled, InProgress
  <2>4. client[u] = "served" /\ wire[u] = <<>>
    BY DEF Settled
  <2> QED BY <2>1, <2>2, <2>3, <2>4, AllShown
<1> QED BY <1>1, DeliveryInvHolds, PTL

-----------------------------------------------------------------------------
(* The invariant of ChatRecord.                                            *)

\* The server's answers: messages in the order of their ids, no more than a page.
Answers == UNION {[1 .. n -> 1 .. stored] : n \in 0 .. PageRows}

\* The answer s is the page next to the one on the screen, as it was asked for.
Adjoins(s) ==
  page # <<>> /\ s # <<>> =>
    /\ asked[1] = "up" => /\ Contiguous(s) /\ Last(s) = Head(page) - 1
                          /\ (Len(s) = PageRows \/ Head(s) = 1)
    /\ asked[1] = "next" => /\ Contiguous(s) /\ Head(s) = Last(page) + 1
                            /\ (Len(s) = PageRows \/ Last(s) >= asked[2])

\* The query asks for it.
Asks(q) ==
  page # <<>> =>
    /\ asked[1] = "up" => q = Query("id", "<", Head(page))
    /\ asked[1] = "next" => q = Query("id", ">", Last(page))

\* The messages of s behind the first k, and OK, are what is in dn.
Comes(dn, s, k) ==
  /\ Len(dn) = Len(s) - k + 1
  /\ \A i \in 1 .. Len(s) - k : dn[i] = <<"row", s[k + i]>>
  /\ dn[Len(s) - k + 1] = <<"ok">>

\* Of the answer s the first rows are in the array; a picture may be in hand.
Coming(s) ==
  /\ s \in Answers /\ Ascending(s)
  /\ Len(rows) <= Len(s) /\ \A i \in 1 .. Len(rows) : rows[i] = s[i]
  /\ \/ receiver = Free /\ Comes(down, s, Len(rows))
     \/ /\ receiver[1] = "picture" /\ Len(rows) < Len(s) /\ receiver[2] = s[Len(rows) + 1]
        /\ Comes(down, s, Len(rows) + 1)

\* Nothing has been asked for; a page has been asked for; it is coming; it is here; or it
\* has been refused.
NotAsked ==
  /\ window = "none" /\ queries = <<>> /\ down = <<>> /\ wanted = <<>> /\ idle = <<>>
  /\ receiver = Free /\ drawer = None
  /\ rows = <<>> /\ images = 0 /\ page = <<>> /\ endFlag = FALSE

Asked ==
  /\ window = "open" /\ queries # <<>> /\ queries = <<Head(queries)>>
  /\ down = <<>> /\ wanted = <<>> /\ idle = <<>>
  /\ receiver = Free /\ drawer = None
  /\ rows = <<>> /\ images = 0 /\ endFlag = FALSE
  /\ CountIsRight => Asks(Head(queries))

IsComing ==
  /\ window = "open" /\ queries = <<>> /\ endFlag = FALSE
  /\ \E s \in Answers : Coming(s) /\ (CountIsRight => Adjoins(s))

IsHere ==
  /\ window = "open" \/ (window = "closed" /\ AllSettled)
  /\ queries = <<>> /\ down = <<>> /\ endFlag = TRUE
  /\ receiver = Free \/ receiver = <<"flag">>
  /\ rows \in Answers /\ Ascending(rows)
  /\ CountIsRight => page = rows \/ Adjoins(rows)

IsRefused ==
  /\ window = "open" \/ (window = "closed" /\ AllSettled)
  /\ queries = <<>> /\ (down = <<>> \/ down = <<<<"failure">>>>) /\ endFlag = FALSE
  /\ receiver = Free /\ rows = <<>> /\ images = 0
  /\ wanted = <<>> /\ idle = <<>> /\ drawer = None

\* No picture is waited for; or the only one of the page is.
NoPicture == images = 0 /\ wanted = <<>> /\ drawer = None /\ \A i \in 1 .. Len(idle) : idle[i] = "show"

OnePicture ==
  /\ images = 1 /\ \E i \in 1 .. Len(rows) : rows[i] \in Pictures
  /\ \/ Len(wanted) = 1 /\ idle = <<>> /\ drawer = None
     \/ wanted = <<>> /\ idle = <<"picture">> /\ drawer = None
     \/ wanted = <<>> /\ idle = <<>> /\ drawer = 1

\* The page is shown as soon as it is complete and its picture is there, and not before.
ShownInTime ==
  /\ NoPicture \/ OnePicture
  /\ idle # <<>> /\ NoPicture => endFlag = TRUE /\ rows # <<>>
  /\ receiver[1] = "picture" => NoPicture /\ receiver[3] = 0
  /\ endFlag = TRUE => rows = <<>> \/ page = rows \/ OnePicture \/ idle # <<>> \/ receiver = <<"flag">>

\* The window knows the ends of its page, and of the rows that come.
KnowsEnds ==
  /\ page # <<>> => maxId = Last(page)
  /\ rows # <<>> => minId = Head(rows)
  /\ rows = <<>> /\ page # <<>> => minId = Head(page)

RecordTypes ==
  /\ stored \in 0 .. Len(Times)
  /\ window \in {"none", "open", "closed"} /\ node \in BOOLEAN
  /\ rows \in Seq(Messages) /\ Len(rows) <= Slots /\ page \in Seq(Messages)
  /\ minId \in 0 .. Len(Times) /\ maxId \in 0 .. Len(Times)
  /\ endFlag \in BOOLEAN /\ images \in Int
  /\ down \in Seq({<<"ok">>, <<"failure">>} \union ({"row"} \X Messages)) /\ wanted \in Seq(Pictures)
  /\ found \subseteq Pictures /\ idle \in Seq({"picture", "show"})
  /\ receiver \in {Free, <<"flag">>} \union ({"picture"} \X Pictures \X Int)
  /\ drawer \in Int \union {None}
  /\ turns \in 0 .. MaxTurns /\ asked \in {"open", "next", "up", "day"} \X (0 .. Len(Times))
  /\ undefined \in BOOLEAN /\ setting \in Settings

\* While the user waits for each page, there is one request at a time.
OneRequest ==
  /\ ~undefined /\ (window = "open" => node)
  /\ NotAsked \/ Asked \/ IsComing \/ IsHere \/ IsRefused

\* And with pictures that are counted right the page is shown when it should be.
ShownRight == ShownInTime /\ KnowsEnds /\ page \in Seq(1 .. stored) /\ asked[2] <= stored

Orderly == OneRequest /\ (CountIsRight => ShownRight)

RecordInv == RecordTypes /\ (setting.patient => Orderly)


-----------------------------------------------------------------------------
(* The server's answers.                                                   *)

\* Numbers that differ, m of them, are in a range of at least m.
LEMMA RangeOf ==
  ASSUME NEW m \in Nat, NEW a \in Int, NEW b \in Int, NEW s \in [1 .. m -> a .. b], Ascending(s), m > 0,
         Len(s) = m
  PROVE  m <= b - a + 1
<1>1. \A i, j \in 1 .. m : s[i] = s[j] => i = j
  <2>1. ASSUME NEW i \in 1 .. m, NEW j \in 1 .. m, s[i] = s[j], i < j PROVE FALSE
    <3>1. s[i] < s[j]
      BY <2>1 DEF Ascending
    <3>2. s[i] \in Int
      OBVIOUS
    <3> QED BY <2>1, <3>1, <3>2
  <2>2. ASSUME NEW i \in 1 .. m, NEW j \in 1 .. m, s[i] = s[j] PROVE i = j
    <3>1. ~(i < j) /\ ~(j < i)
      BY <2>1, <2>2
    <3> QED BY <3>1
  <2> QED BY <2>2
<1>2. s \in Injection(1 .. m, a .. b)
  BY <1>1 DEF Injection, IsInjective
<1>3. IsFiniteSet(a .. b)
  BY FS_Interval
<1>4. Cardinality(1 .. m) <= Cardinality(a .. b)
  BY <1>2, <1>3, FS_Injection
<1>5. Cardinality(1 .. m) = m
  <2>1. Cardinality(1 .. m) = IF 1 > m THEN 0 ELSE m - 1 + 1
    BY FS_Interval
  <2> QED BY <2>1
<1>6. Cardinality(a .. b) = IF a > b THEN 0 ELSE b - a + 1
  BY FS_Interval
<1>7. s[1] \in a .. b
  OBVIOUS
<1>8. ~(a > b)
  BY <1>7
<1> QED BY <1>4, <1>5, <1>6, <1>8

\* What the server takes from the file.
LEMMA QueryIs ==
  ASSUME stored \in 0 .. Len(Times), NEW q, NEW s \in MessageFileQuery(q)
  PROVE  /\ Matches(q) \subseteq 1 .. stored /\ Cardinality(Matches(q)) \in Nat
         /\ s \in [1 .. Len(s) -> Matches(q)] /\ Len(s) \in Nat
         /\ Len(s) = IF Cardinality(Matches(q)) < PageRows THEN Cardinality(Matches(q)) ELSE PageRows
         /\ s \in Answers /\ Ascending(s) /\ Len(s) <= PageRows
         /\ \A m \in Matches(q), i \in 1 .. Len(s) :
              Nearer(q, m, s[i]) => \E j \in 1 .. Len(s) : s[j] = m
<1>1. PageRows \in Nat /\ stored \in Nat
  BY ChatRecordAssumption
<1>2. Matches(q) \subseteq 1 .. stored
  BY DEF Matches
<1>3. PICK c : c = Cardinality(Matches(q))
  OBVIOUS
<1>4. c \in Nat
  <2>1. IsFiniteSet(1 .. stored)
    BY <1>1, FS_Interval
  <2>2. IsFiniteSet(Matches(q))
    BY <1>2, <2>1, FS_Subset
  <2> QED BY <1>3, <2>2, FS_CardinalityType
<1>5. PICK n : n = IF c < PageRows THEN c ELSE PageRows
  OBVIOUS
<1>6. n \in 0 .. PageRows
  BY <1>1, <1>4, <1>5
<1>7. /\ s \in [1 .. n -> Matches(q)]
      /\ \A i, j \in 1 .. n : i < j => s[i] < s[j]
      /\ \A m \in Matches(q), i \in 1 .. n : Nearer(q, m, s[i]) => \E j \in 1 .. n : s[j] = m
  BY <1>3, <1>5 DEF MessageFileQuery
<1>8. n \in Nat /\ n <= PageRows
  BY <1>1, <1>6
<1>9. Len(s) = n
  BY <1>7, <1>8
<1>10. s \in [1 .. n -> 1 .. stored]
  BY <1>2, <1>7
<1>11. s \in Answers
  BY <1>6, <1>10 DEF Answers
<1>12. Ascending(s)
  BY <1>7, <1>9 DEF Ascending
<1> QED BY <1>2, <1>3, <1>4, <1>5, <1>7, <1>8, <1>9, <1>11, <1>12

\* An answer is a line of messages that are stored.
LEMMA AnswerIs ==
  ASSUME stored \in 0 .. Len(Times), NEW s \in Answers
  PROVE  /\ s \in Seq(1 .. stored) /\ s \in Seq(Messages) /\ Len(s) \in Nat /\ Len(s) <= PageRows
         /\ DOMAIN s = 1 .. Len(s) /\ \A i \in 1 .. Len(s) : s[i] \in 1 .. stored
<1>1. PageRows \in Nat /\ stored \in Nat /\ 1 .. stored \subseteq Messages
  <2>1. Len(Times) \in Nat
    BY ChatRecordAssumption
  <2> QED BY <2>1, ChatRecordAssumption DEF Messages
<1>2. PICK n \in 0 .. PageRows : s \in [1 .. n -> 1 .. stored]
  BY DEF Answers
<1>3. n \in Nat /\ n <= PageRows
  BY <1>1
<1>4. s \in Seq(1 .. stored) /\ Len(s) = n
  BY <1>2, <1>3
<1>5. s \in Seq(Messages)
  <2>1. s \in [1 .. n -> Messages]
    BY <1>1, <1>2
  <2> QED BY <1>3, <2>1
<1> QED BY <1>2, <1>3, <1>4, <1>5

\* The page above: the last messages before v.
LEMMA PageAbove ==
  ASSUME stored \in 0 .. Len(Times), NEW v \in 1 .. stored, NEW s \in MessageFileQuery(Query("id", "<", v)),
         s # <<>>
  PROVE  /\ Contiguous(s) /\ s[Len(s)] = v - 1
         /\ (Len(s) = PageRows \/ s[1] = 1)
<1>1. PICK q : q = Query("id", "<", v)
  OBVIOUS
<1>2. PICK n : n = Len(s)
  OBVIOUS
<1>3. stored \in Nat /\ PageRows \in Nat /\ v \in Nat /\ v >= 1 /\ v <= stored
  BY ChatRecordAssumption
<1>4. Matches(q) = 1 .. v - 1
  <2>1. \A m \in 1 .. stored : m \in Matches(q) <=> m < v
    BY <1>1 DEF Matches, Query, Value
  <2>2. Matches(q) \subseteq 1 .. stored
    BY DEF Matches
  <2>3. \A m : m \in Matches(q) <=> m \in 1 .. stored /\ m < v
    BY <2>1, <2>2
  <2>4. \A m : m \in 1 .. v - 1 <=> m \in 1 .. stored /\ m < v
    BY <1>3
  <2> QED BY <2>3, <2>4
<1>5. \A m, k : Nearer(q, m, k) <=> m > k
  BY <1>1 DEF Nearer, Query, Value
<1>6. /\ s \in [1 .. n -> 1 .. v - 1] /\ n \in Nat
      /\ n = IF Cardinality(Matches(q)) < PageRows THEN Cardinality(Matches(q)) ELSE PageRows
      /\ Ascending(s)
      /\ \A m \in 1 .. v - 1, i \in 1 .. n : m > s[i] => \E j \in 1 .. n : s[j] = m
  <2>1. s \in MessageFileQuery(q)
    BY <1>1
  <2>2. /\ s \in [1 .. n -> Matches(q)] /\ n \in Nat
        /\ n = IF Cardinality(Matches(q)) < PageRows THEN Cardinality(Matches(q)) ELSE PageRows
        /\ Ascending(s)
        /\ \A m \in Matches(q), i \in 1 .. n :
             Nearer(q, m, s[i]) => \E j \in 1 .. n : s[j] = m
    BY <1>2, <2>1, QueryIs
  <2> QED BY <1>4, <1>5, <2>2
<1>7. n > 0
  BY <1>2, <1>6
<1>8. \A i \in 1 .. n : s[i] \in 1 .. v - 1 /\ s[i] \in Nat
  BY <1>6
<1>9. \A i, j \in 1 .. n : i < j => s[i] < s[j]
  BY <1>2, <1>6 DEF Ascending
<1>10. s[n] = v - 1
  <2>1. n \in 1 .. n /\ v - 1 \in 1 .. v - 1 /\ s[n] <= v - 1
    <3>1. n \in 1 .. n
      BY <1>6, <1>7
    <3>2. s[n] \in 1 .. v - 1
      BY <1>8, <3>1
    <3> QED BY <1>3, <3>1, <3>2
  <2>2. SUFFICES ASSUME s[n] # v - 1 PROVE FALSE
    OBVIOUS
  <2>3. v - 1 > s[n]
    BY <1>3, <1>8, <2>1, <2>2
  <2>4. PICK j \in 1 .. n : s[j] = v - 1
    BY <1>6, <2>1, <2>3
  <2>5. j < n
    BY <1>6, <2>2, <2>4
  <2>6. s[j] < s[n]
    BY <1>9, <2>1, <2>5
  <2> QED BY <1>8, <2>1, <2>3, <2>4, <2>6
<1>11. \A i \in 1 .. n - 1 : s[i + 1] = s[i] + 1
  <2>1. ASSUME NEW i \in 1 .. n - 1 PROVE s[i + 1] = s[i] + 1
    <3>1. i \in 1 .. n /\ i + 1 \in 1 .. n /\ i < i + 1 /\ i \in Nat
      BY <1>6
    <3>2. PICK x, y : x = s[i] /\ y = s[i + 1]
      OBVIOUS
    <3>3. x \in Nat /\ y \in Nat /\ x >= 1 /\ y <= v - 1 /\ x < y
      <4>1. x \in 1 .. v - 1 /\ y \in 1 .. v - 1
        BY <1>8, <3>1, <3>2
      <4>2. x < y
        BY <1>9, <3>1, <3>2
      <4> QED BY <1>3, <4>1, <4>2
    <3>4. x + 1 \in 1 .. v - 1 /\ x + 1 > x /\ x + 1 <= y
      BY <1>3, <3>3
    <3>5. PICK j \in 1 .. n : s[j] = x + 1
      BY <1>6, <3>1, <3>2, <3>4
    <3>6. ~(j <= i)
      <4>1. SUFFICES ASSUME j <= i PROVE FALSE
        OBVIOUS
      <4>2. CASE j = i
        BY <3>2, <3>3, <3>4, <3>5, <4>2
      <4>3. CASE j < i
        <5>1. s[j] < s[i]
          BY <1>9, <3>1, <4>3
        <5> QED BY <3>2, <3>3, <3>4, <3>5, <5>1
      <4> QED BY <3>1, <4>1, <4>2, <4>3
    <3>7. ~(j > i + 1)
      <4>1. SUFFICES ASSUME j > i + 1 PROVE FALSE
        OBVIOUS
      <4>2. s[i + 1] < s[j]
        BY <1>9, <3>1, <4>1
      <4>3. y < x + 1
        BY <3>2, <3>5, <4>2
      <4> QED BY <3>3, <3>4, <4>3
    <3>8. j = i + 1
      BY <3>1, <3>6, <3>7
    <3> QED BY <3>2, <3>5, <3>8
  <2> QED BY <2>1
<1>12. n = PageRows \/ s[1] = 1
  <2>1. SUFFICES ASSUME n # PageRows, s[1] # 1 PROVE FALSE
    OBVIOUS
  <2>2. n = v - 1
    <3>1. Cardinality(1 .. v - 1) = IF 1 > v - 1 THEN 0 ELSE v - 1 - 1 + 1
      BY <1>3, FS_Interval
    <3>2. n = Cardinality(1 .. v - 1)
      BY <1>4, <1>6, <2>1
    <3> QED BY <1>3, <1>7, <3>1, <3>2
  <2>3. \A i \in 1 .. n : s[i] \in 2 .. v - 1
    <3>1. 1 \in 1 .. n
      BY <1>6, <1>7
    <3>2. s[1] \in 2 .. v - 1
      <4>1. s[1] \in 1 .. v - 1
        BY <1>8, <3>1
      <4> QED BY <1>3, <2>1, <4>1
    <3>3. ASSUME NEW i \in 1 .. n PROVE s[i] \in 2 .. v - 1
      <4>1. CASE i = 1
        BY <3>2, <4>1
      <4>2. CASE 1 < i
        <5>1. s[1] < s[i] /\ s[i] \in 1 .. v - 1
          BY <1>8, <1>9, <3>1, <4>2
        <5> QED BY <1>3, <3>2, <5>1
      <4> QED BY <1>6, <4>1, <4>2
    <3> QED BY <3>3
  <2>4. s \in [1 .. n -> 2 .. v - 1]
    BY <1>6, <2>3
  <2>5. n <= v - 1 - 2 + 1
    <3>1. 2 \in Int /\ v - 1 \in Int
      BY <1>3
    <3> QED BY <1>2, <1>6, <1>7, <2>4, <3>1, RangeOf
  <2> QED BY <1>3, <2>2, <2>5
<1>13. Contiguous(s)
  BY <1>2, <1>11 DEF Contiguous
<1> QED BY <1>2, <1>10, <1>12, <1>13

\* The page below: the first messages after v.
LEMMA PageBelow ==
  ASSUME stored \in 0 .. Len(Times), NEW v \in 1 .. stored, NEW s \in MessageFileQuery(Query("id", ">", v)),
         s # <<>>
  PROVE  /\ Contiguous(s) /\ s[1] = v + 1
         /\ (Len(s) = PageRows \/ s[Len(s)] = stored)
<1>1. PICK q : q = Query("id", ">", v)
  OBVIOUS
<1>2. PICK n : n = Len(s)
  OBVIOUS
<1>3. stored \in Nat /\ PageRows \in Nat /\ v \in Nat /\ v >= 1 /\ v <= stored
  BY ChatRecordAssumption
<1>4. Matches(q) = v + 1 .. stored
  <2>1. \A m \in 1 .. stored : m \in Matches(q) <=> m > v
    BY <1>1 DEF Matches, Query, Value
  <2>2. Matches(q) \subseteq 1 .. stored
    BY DEF Matches
  <2>3. \A m : m \in Matches(q) <=> m \in 1 .. stored /\ m > v
    BY <2>1, <2>2
  <2>4. \A m : m \in v + 1 .. stored <=> m \in 1 .. stored /\ m > v
    BY <1>3
  <2> QED BY <2>3, <2>4
<1>5. \A m, k : Nearer(q, m, k) <=> m < k
  BY <1>1 DEF Nearer, Query, Value
<1>6. /\ s \in [1 .. n -> v + 1 .. stored] /\ n \in Nat
      /\ n = IF Cardinality(Matches(q)) < PageRows THEN Cardinality(Matches(q)) ELSE PageRows
      /\ Ascending(s)
      /\ \A m \in v + 1 .. stored, i \in 1 .. n : m < s[i] => \E j \in 1 .. n : s[j] = m
  <2>1. s \in MessageFileQuery(q)
    BY <1>1
  <2>2. /\ s \in [1 .. n -> Matches(q)] /\ n \in Nat
        /\ n = IF Cardinality(Matches(q)) < PageRows THEN Cardinality(Matches(q)) ELSE PageRows
        /\ Ascending(s)
        /\ \A m \in Matches(q), i \in 1 .. n :
             Nearer(q, m, s[i]) => \E j \in 1 .. n : s[j] = m
    BY <1>2, <2>1, QueryIs
  <2> QED BY <1>4, <1>5, <2>2
<1>7. n > 0
  BY <1>2, <1>6
<1>8. \A i \in 1 .. n : s[i] \in v + 1 .. stored /\ s[i] \in Nat
  BY <1>3, <1>6
<1>9. \A i, j \in 1 .. n : i < j => s[i] < s[j]
  BY <1>2, <1>6 DEF Ascending
<1>10. s[1] = v + 1
  <2>1. 1 \in 1 .. n /\ v + 1 \in v + 1 .. stored /\ s[1] >= v + 1
    <3>1. 1 \in 1 .. n
      BY <1>6, <1>7
    <3>2. s[1] \in v + 1 .. stored
      BY <1>8, <3>1
    <3> QED BY <1>3, <3>1, <3>2
  <2>2. SUFFICES ASSUME s[1] # v + 1 PROVE FALSE
    OBVIOUS
  <2>3. v + 1 < s[1]
    BY <1>3, <1>8, <2>1, <2>2
  <2>4. PICK j \in 1 .. n : s[j] = v + 1
    BY <1>6, <2>1, <2>3
  <2>5. 1 < j
    BY <1>6, <2>2, <2>4
  <2>6. s[1] < s[j]
    BY <1>9, <2>1, <2>5
  <2> QED BY <1>8, <2>1, <2>3, <2>4, <2>6
<1>11. \A i \in 1 .. n - 1 : s[i + 1] = s[i] + 1
  <2>1. ASSUME NEW i \in 1 .. n - 1 PROVE s[i + 1] = s[i] + 1
    <3>1. i \in 1 .. n /\ i + 1 \in 1 .. n /\ i < i + 1 /\ i \in Nat
      BY <1>6
    <3>2. PICK x, y : x = s[i] /\ y = s[i + 1]
      OBVIOUS
    <3>3. x \in Nat /\ y \in Nat /\ x >= v + 1 /\ y <= stored /\ x < y
      <4>1. x \in v + 1 .. stored /\ y \in v + 1 .. stored
        BY <1>8, <3>1, <3>2
      <4>2. x < y
        BY <1>9, <3>1, <3>2
      <4> QED BY <1>3, <4>1, <4>2
    <3>4. x + 1 \in v + 1 .. stored /\ x + 1 > x
      BY <1>3, <3>3
    <3>5. SUFFICES ASSUME x + 1 # y PROVE FALSE
      BY <3>2
    <3>6. x + 1 < y
      BY <3>3, <3>5
    <3>7. PICK j \in 1 .. n : s[j] = x + 1
      BY <1>6, <3>1, <3>2, <3>4, <3>6
    <3>8. ~(j <= i)
      <4>1. SUFFICES ASSUME j <= i PROVE FALSE
        OBVIOUS
      <4>2. CASE j = i
        BY <3>2, <3>3, <3>4, <3>7, <4>2
      <4>3. CASE j < i
        <5>1. s[j] < s[i]
          BY <1>9, <3>1, <4>3
        <5> QED BY <3>2, <3>3, <3>4, <3>7, <5>1
      <4> QED BY <3>1, <4>1, <4>2, <4>3
    <3>9. ~(j >= i + 1)
      <4>1. SUFFICES ASSUME j >= i + 1 PROVE FALSE
        OBVIOUS
      <4>2. CASE j = i + 1
        BY <3>2, <3>6, <3>7, <4>2, <3>3
      <4>3. CASE j > i + 1
        <5>1. s[i + 1] < s[j]
          BY <1>9, <3>1, <4>3
        <5>2. y < x + 1
          BY <3>2, <3>7, <5>1
        <5> QED BY <3>3, <3>6, <5>2
      <4> QED BY <3>1, <4>1, <4>2, <4>3
    <3> QED BY <3>1, <3>8, <3>9
  <2> QED BY <2>1
<1>12. n = PageRows \/ s[n] = stored
  <2>1. SUFFICES ASSUME n # PageRows, s[n] # stored PROVE FALSE
    OBVIOUS
  <2>2. n = stored - v
    <3>1. Cardinality(v + 1 .. stored) = IF v + 1 > stored THEN 0 ELSE stored - (v + 1) + 1
      BY <1>3, FS_Interval
    <3>2. n = Cardinality(v + 1 .. stored)
      BY <1>4, <1>6, <2>1
    <3> QED BY <1>3, <1>7, <3>1, <3>2
  <2>3. \A i \in 1 .. n : s[i] \in v + 1 .. stored - 1
    <3>1. n \in 1 .. n
      BY <1>6, <1>7
    <3>2. s[n] \in v + 1 .. stored - 1
      <4>1. s[n] \in v + 1 .. stored
        BY <1>8, <3>1
      <4> QED BY <1>3, <2>1, <4>1
    <3>3. ASSUME NEW i \in 1 .. n PROVE s[i] \in v + 1 .. stored - 1
      <4>1. CASE i = n
        BY <3>2, <4>1
      <4>2. CASE i < n
        <5>1. s[i] < s[n] /\ s[i] \in v + 1 .. stored
          BY <1>8, <1>9, <3>1, <4>2
        <5> QED BY <1>3, <3>2, <5>1
      <4> QED BY <1>6, <4>1, <4>2
    <3> QED BY <3>3
  <2>4. s \in [1 .. n -> v + 1 .. stored - 1]
    BY <1>6, <2>3
  <2>5. n <= stored - 1 - (v + 1) + 1
    <3>1. v + 1 \in Int /\ stored - 1 \in Int
      BY <1>3
    <3> QED BY <1>2, <1>6, <1>7, <2>4, <3>1, RangeOf
  <2> QED BY <1>3, <2>2, <2>5
<1>13. Contiguous(s)
  BY <1>2, <1>11 DEF Contiguous
<1> QED BY <1>2, <1>10, <1>12, <1>13

\* The answer to the query for the next page is the next page.
LEMMA AnswerAdjoins ==
  ASSUME stored \in 0 .. Len(Times), page \in Seq(1 .. stored), asked[2] \in 0 .. stored,
         NEW q, Asks(q), NEW s \in MessageFileQuery(q)
  PROVE  Adjoins(s)
<1>1. SUFFICES ASSUME page # <<>>, s # <<>>
               PROVE  /\ asked[1] = "up" => /\ Contiguous(s) /\ Last(s) = Head(page) - 1
                                            /\ (Len(s) = PageRows \/ Head(s) = 1)
                      /\ asked[1] = "next" => /\ Contiguous(s) /\ Head(s) = Last(page) + 1
                                              /\ (Len(s) = PageRows \/ Last(s) >= asked[2])
  BY DEF Adjoins
<1>2. Head(page) \in 1 .. stored /\ Last(page) \in 1 .. stored
  <2>1. Len(page) \in 1 .. Len(page) /\ 1 \in 1 .. Len(page)
    BY <1>1
  <2>2. Head(page) = page[1] /\ Last(page) = page[Len(page)]
    BY <1>1 DEF Last
  <2>3. \A i \in 1 .. Len(page) : page[i] \in 1 .. stored
    <3>1. page \in Seq(1 .. stored)
      OBVIOUS
    <3> QED BY ONLY <3>1, ElementOfSeq
  <2> QED BY <2>1, <2>2, <2>3
<1>3. s \in Seq(1 .. stored)
  BY QueryIs, AnswerIs
<1>4. Head(s) = s[1] /\ Last(s) = s[Len(s)]
  BY <1>1, <1>3 DEF Last
<1>5. ASSUME asked[1] = "up" PROVE /\ Contiguous(s) /\ Last(s) = Head(page) - 1
                                   /\ (Len(s) = PageRows \/ Head(s) = 1)
  <2>1. q = Query("id", "<", Head(page))
    BY <1>1, <1>5 DEF Asks
  <2> QED BY <1>1, <1>2, <1>4, <2>1, PageAbove
<1>6. ASSUME asked[1] = "next" PROVE /\ Contiguous(s) /\ Head(s) = Last(page) + 1
                                     /\ (Len(s) = PageRows \/ Last(s) >= asked[2])
  <2>1. q = Query("id", ">", Last(page))
    BY <1>1, <1>6 DEF Asks
  <2>2. stored >= asked[2]
    BY ChatRecordAssumption
  <2> QED BY <1>1, <1>2, <1>4, <2>1, <2>2, PageBelow
<1> QED BY <1>5, <1>6

-----------------------------------------------------------------------------
(* The types.                                                              *)

DownPacket == {<<"ok">>, <<"failure">>} \union ({"row"} \X Messages)

\* A row, taken off the line.
LEMMA RowTaken ==
  ASSUME RecordTypes, down # <<>>
  PROVE  /\ Tail(down) \in Seq(DownPacket) /\ Head(down) \in DownPacket
         /\ Head(down)[1] = "row" => Head(down)[2] \in Messages
<1>1. down \in Seq(DownPacket)
  BY DEF RecordTypes, DownPacket
<1>2. Tail(down) \in Seq(DownPacket) /\ Head(down) \in DownPacket
  BY <1>1
<1>3. \A x \in DownPacket : x[1] = "row" => x[2] \in Messages
  BY DEF DownPacket
<1> QED BY <1>2, <1>3

\* A row goes into the array, if there is room.
LEMMA RowAddedType ==
  ASSUME RecordTypes, NEW m \in Messages, AddRow(m)
  PROVE  /\ rows' \in Seq(Messages) /\ Len(rows') <= Slots /\ minId' \in 0 .. Len(Times)
         /\ node' \in BOOLEAN /\ undefined' \in BOOLEAN
<1>1. Slots \in Nat /\ Len(Times) \in Nat
  BY ChatRecordAssumption
<1>2. rows \in Seq(Messages) /\ Len(rows) <= Slots /\ minId \in 0 .. Len(Times) /\ undefined \in BOOLEAN
  BY DEF RecordTypes
<1>3. minId' \in 0 .. Len(Times)
  BY <1>1, <1>2 DEF AddRow, MinId, Messages
<1>4. node' \in BOOLEAN
  BY DEF AddRow, NodeAfter
<1>5. CASE Len(rows) < Slots
  <2>1. rows' = Append(rows, m) /\ undefined' = undefined
    BY <1>5 DEF AddRow
  <2>2. Append(rows, m) \in Seq(Messages) /\ Len(Append(rows, m)) = Len(rows) + 1 /\ Len(rows) \in Nat
    BY <1>2
  <2> QED BY <1>1, <1>2, <1>3, <1>4, <1>5, <2>1, <2>2
<1>6. CASE ~(Len(rows) < Slots)
  <2>1. rows' = rows /\ undefined' = TRUE
    BY <1>6 DEF AddRow
  <2> QED BY <1>2, <1>3, <1>4, <2>1
<1> QED BY <1>5, <1>6

\* The packets of an answer.
LEMMA RowsIs ==
  ASSUME stored \in 0 .. Len(Times), down \in Seq(DownPacket), NEW s \in Answers
  PROVE  /\ down \o Rows(s) \o <<<<"ok">>>> \in Seq(DownPacket)
         /\ down = <<>> => Comes(down \o Rows(s) \o <<<<"ok">>>>, s, 0)
<1>1. /\ Len(s) \in Nat /\ DOMAIN s = 1 .. Len(s) /\ s \in Seq(Messages)
      /\ \A i \in 1 .. Len(s) : s[i] \in Messages
  <2>1. /\ Len(s) \in Nat /\ DOMAIN s = 1 .. Len(s) /\ s \in Seq(Messages)
    BY AnswerIs
  <2> QED BY <2>1, ElementOfSeq
<1>2. PICK n : n = Len(s)
  OBVIOUS
<1>3. Rows(s) = [i \in 1 .. n |-> <<"row", s[i]>>] /\ n \in Nat
  BY <1>1, <1>2 DEF Rows
<1>4. \A i \in 1 .. n : <<"row", s[i]>> \in DownPacket
  BY <1>1, <1>2 DEF DownPacket
<1>5. PICK r : r = Rows(s)
  OBVIOUS
<1>6. r \in Seq(DownPacket) /\ Len(r) = n /\ \A i \in 1 .. n : r[i] = <<"row", s[i]>>
  BY <1>3, <1>4, <1>5
<1>7. PICK o : o = <<"ok">>
  OBVIOUS
<1>8. <<o>> \in Seq(DownPacket) /\ Len(<<o>>) = 1 /\ <<o>>[1] = o
  BY <1>7 DEF DownPacket
<1>9. down \o r \in Seq(DownPacket)
  BY <1>6
<1>10. (down \o r) \o <<o>> \in Seq(DownPacket)
  BY <1>8, <1>9, Joined
<1>11. ASSUME down = <<>> PROVE Comes((down \o r) \o <<o>>, s, 0)
  <2>1. down \o r = r
    BY <1>6, <1>11, ConcatEmptySeq
  <2>2. /\ Len(r \o <<o>>) = Len(r) + Len(<<o>>)
        /\ \A j \in 1 .. Len(r) + Len(<<o>>) : (r \o <<o>>)[j] = IF j <= Len(r) THEN r[j] ELSE <<o>>[j - Len(r)]
    BY <1>6, <1>8, Joined
  <2>3. PICK d : d = r \o <<o>>
    OBVIOUS
  <2>4. Len(d) = n + 1 /\ (\A j \in 1 .. n : d[j] = r[j]) /\ d[n + 1] = o
    <3>1. /\ Len(d) = n + 1
          /\ \A j \in 1 .. n + 1 : d[j] = IF j <= n THEN r[j] ELSE <<o>>[j - n]
      BY <1>6, <1>8, <2>2, <2>3
    <3>2. n + 1 \in 1 .. n + 1 /\ ~(n + 1 <= n) /\ n + 1 - n = 1
          /\ \A j \in 1 .. n : j \in 1 .. n + 1 /\ j <= n
      BY <1>3
    <3>3. \A j \in 1 .. n : d[j] = r[j]
      BY <3>1, <3>2
    <3>4. d[n + 1] = <<o>>[1]
      <4>1. n \in Nat
        BY <1>3
      <4>2. PICK e : e = <<o>>
        OBVIOUS
      <4>3. \A j \in 1 .. n + 1 : d[j] = IF j <= n THEN r[j] ELSE e[j - n]
        BY <3>1, <4>2
      <4>4. d[n + 1] = e[1]
        BY ONLY <4>1, <4>3
      <4> QED BY <4>2, <4>4
    <3>5. d[n + 1] = o
      BY <1>8, <3>2, <3>4
    <3> QED BY <3>1, <3>3, <3>5
  <2>5. n - 0 = n /\ \A i \in 1 .. n : 0 + i = i
    BY <1>3
  <2>6. Comes(d, s, 0)
    BY <1>2, <1>6, <1>7, <2>4, <2>5 DEF Comes
  <2> QED BY <2>1, <2>3, <2>6
<1> QED BY <1>5, <1>7, <1>10, <1>11

\* A request begins with an empty array.
LEMMA RecordsReset ==
  ASSUME NEW q, get_record(q)
  PROVE  /\ rows' \in Seq(Messages) /\ Len(rows') <= Slots
         /\ endFlag' \in BOOLEAN /\ images' \in Int
<1>1. Slots \in Nat
  BY ChatRecordAssumption
<1>2. rows' = <<>> /\ images' = 0
  BY DEF get_record, RowsReset
<1>3. endFlag' \in BOOLEAN
  BY Zenon DEF get_record
<1> QED BY <1>1, <1>2, <1>3

\* Every step keeps the types.
LEMMA RecordTypesKept ==
  ASSUME RecordTypes, RecordNext
  PROVE  RecordTypes'
<1>0. /\ Len(Times) \in Nat /\ MaxTurns \in Nat /\ Slots \in Nat /\ None \notin Int
      /\ stored \in 0 .. Len(Times)
  BY ChatRecordAssumption DEF RecordTypes
<1>1. CASE Post
  <2>1. stored' \in 0 .. Len(Times)
    BY <1>0, <1>1 DEF Post
  <2> QED BY <1>1, <2>1 DEF Post, RecordTypes, structure, network, threads, Pictures
<1>2. CASE ProcessPacketMessageRecordQuery
  <2>1. ASSUME NEW s \in MessageFileQuery(Head(queries)), down' = down \o Rows(s) \o <<<<"ok">>>>
        PROVE  down' \in Seq(DownPacket)
    <3>1. s \in Answers
      BY <1>0, QueryIs
    <3> QED BY <1>0, <2>1, <3>1, RowsIs DEF RecordTypes, DownPacket
  <2>2. ASSUME down' = Append(down, <<"failure">>) PROVE down' \in Seq(DownPacket)
    BY <2>2 DEF RecordTypes, DownPacket
  <2>3. down' \in Seq(DownPacket)
    BY <1>2, <2>1, <2>2 DEF ProcessPacketMessageRecordQuery
  <2> QED BY <1>2, <2>3 DEF ProcessPacketMessageRecordQuery, RecordTypes, structure, threads, Pictures,
                            DownPacket
<1>3. CASE ReceiveRow
  <2>1. down # <<>> /\ down' = Tail(down) /\ Head(down)[1] = "row"
    BY <1>3 DEF ReceiveRow
  <2>2. PICK m : m = Head(down)[2]
    OBVIOUS
  <2>3. m \in Messages /\ down' \in Seq(DownPacket)
    BY <2>1, <2>2, RowTaken
  <2>4. /\ stored' = stored /\ window' = window /\ maxId' = maxId /\ endFlag' = endFlag /\ images' = images
        /\ page' = page /\ wanted' = wanted /\ found' = found /\ idle' = idle /\ drawer' = drawer
        /\ turns' = turns /\ asked' = asked /\ setting' = setting
    BY <1>3 DEF ReceiveRow
  <2>5. CASE ~node
    <3>1. node' = node /\ rows' = rows /\ minId' = minId /\ receiver' = receiver /\ undefined' = undefined
      BY <1>3, <2>5 DEF ReceiveRow
    <3> QED BY <2>3, <2>4, <3>1 DEF RecordTypes, Pictures, DownPacket
  <2>6. CASE node /\ m \in Pictures
    <3>1. receiver' = <<"picture", m, images>> /\ node' = node /\ rows' = rows /\ minId' = minId
          /\ undefined' = undefined
      BY <1>3, <2>2, <2>6 DEF ReceiveRow
    <3>2. receiver' \in {"picture"} \X Pictures \X Int
      BY <2>6, <3>1 DEF RecordTypes
    <3> QED BY <2>3, <2>4, <3>1, <3>2 DEF RecordTypes, Pictures, DownPacket
  <2>7. CASE node /\ m \notin Pictures
    <3>1. AddRow(m) /\ receiver' = receiver
      BY <1>3, <2>2, <2>7 DEF ReceiveRow
    <3> QED BY <2>3, <2>4, <3>1, RowAddedType DEF RecordTypes, Pictures, DownPacket
  <2> QED BY <2>5, <2>6, <2>7
<1>4. CASE FindImage
  <2>1. PICK m : m = receiver[2]
    OBVIOUS
  <2>2. m \in Pictures /\ receiver[3] \in Int
    <3>1. receiver[1] = "picture"
      BY <1>4 DEF FindImage
    <3>2. receiver \in {"picture"} \X Pictures \X Int
      BY <3>1 DEF RecordTypes, Free
    <3> QED BY <2>1, <3>2
  <2>3. Pictures \subseteq Messages
    BY ChatRecordAssumption DEF RecordTypes, Pictures
  <2>4. /\ stored' = stored /\ window' = window /\ maxId' = maxId /\ endFlag' = endFlag
        /\ page' = page /\ down' = down /\ found' = found /\ drawer' = drawer
        /\ turns' = turns /\ asked' = asked /\ setting' = setting
        /\ images' = receiver[3] + 1 /\ AddRow(m) /\ receiver' = Free
    BY <1>4, <2>1 DEF FindImage
  <2>5. wanted' \in Seq(Pictures) /\ idle' \in Seq({"picture", "show"})
    <3>1. wanted \in Seq(Pictures) /\ idle \in Seq({"picture", "show"})
      BY DEF RecordTypes
    <3>2. Append(wanted, m) \in Seq(Pictures) /\ Append(idle, "picture") \in Seq({"picture", "show"})
      BY <2>2, <3>1
    <3>3. \/ idle' = Append(idle, "picture") /\ wanted' = wanted
          \/ wanted' = Append(wanted, m) /\ idle' = idle
      BY <1>4, <2>1 DEF FindImage
    <3> QED BY <3>1, <3>2, <3>3
  <2>6. images' \in Int
    BY <2>2, <2>4
  <2> QED BY <2>2, <2>3, <2>4, <2>5, <2>6, RowAddedType DEF RecordTypes, Pictures
<1>5. CASE ReceiveOK
  <2>1. down' \in Seq(DownPacket)
    BY <1>5, RowTaken DEF ReceiveOK
  <2>2. endFlag' \in BOOLEAN /\ (receiver' = receiver \/ receiver' = <<"flag">>)
    BY <1>5 DEF ReceiveOK, RecordTypes
  <2> QED BY <1>5, <2>1, <2>2 DEF ReceiveOK, RecordTypes, Pictures, DownPacket
<1>6. CASE ShowIfComplete
  <2>1. idle' \in Seq({"picture", "show"})
    <3>1. idle \in Seq({"picture", "show"})
      BY DEF RecordTypes
    <3>2. Append(idle, "show") \in Seq({"picture", "show"})
      BY <3>1
    <3> QED BY <1>6, <3>1, <3>2 DEF ShowIfComplete
  <2> QED BY <1>6, <2>1 DEF ShowIfComplete, RecordTypes, structure, network, Pictures, NodeAfter
<1>7. CASE ReceivePicture
  <2>1. wanted \in Seq(Pictures) /\ idle \in Seq({"picture", "show"}) /\ wanted # <<>> /\ found \subseteq Pictures
    BY <1>7 DEF ReceivePicture, RecordTypes
  <2>2. Head(wanted) \in Pictures /\ Tail(wanted) \in Seq(Pictures)
        /\ Append(idle, "picture") \in Seq({"picture", "show"})
    BY <2>1
  <2>3. wanted' \in Seq(Pictures) /\ found' \subseteq Pictures /\ idle' \in Seq({"picture", "show"})
    BY <1>7, <2>1, <2>2 DEF ReceivePicture
  <2> QED BY <1>7, <2>3 DEF ReceivePicture, RecordTypes, structure, Pictures
<1>8. CASE ChartRecord
  <2>1. ASSUME NEW q, get_record(q)
        PROVE  /\ rows' \in Seq(Messages) /\ Len(rows') <= Slots
               /\ endFlag' \in BOOLEAN /\ images' \in Int
    BY <1>0, <2>1, RecordsReset
  <2>2. minId' \in 0 .. Len(Times) /\ maxId' \in 0 .. Len(Times)
    BY <1>0, <1>8 DEF ChartRecord
  <2>3. PICK q : get_record(q)
    BY <1>8 DEF ChartRecord
  <2>4. rows' \in Seq(Messages) /\ Len(rows') <= Slots /\ endFlag' \in BOOLEAN /\ images' \in Int
    BY <2>1, <2>3
  <2>5. /\ stored' = stored /\ window' = "open" /\ node' = TRUE /\ page' = page /\ down' = down
        /\ wanted' = wanted /\ found' = found /\ idle' = idle /\ receiver' = receiver /\ drawer' = drawer
        /\ turns' = turns /\ asked' = asked /\ undefined' = undefined /\ setting' = setting
    BY <1>8 DEF ChartRecord, threads
  <2>6. window' \in {"none", "open", "closed"} /\ node' \in BOOLEAN
    BY <2>5
  <2> QED BY <2>2, <2>4, <2>5, <2>6 DEF RecordTypes, Pictures
<1>9. ASSUME NEW how \in {"next", "up", "day"}, NEW q, Turn(how, q) PROVE RecordTypes'
  <2>1. rows' \in Seq(Messages) /\ Len(rows') <= Slots /\ endFlag' \in BOOLEAN /\ images' \in Int
    <3>1. get_record(q)
      BY <1>9 DEF Turn
    <3> QED BY <3>1, RecordsReset
  <2>2. turns' \in 0 .. MaxTurns
    BY <1>0, <1>9 DEF Turn, RecordTypes
  <2>3. asked' \in {"open", "next", "up", "day"} \X (0 .. Len(Times))
    BY <1>0, <1>9 DEF Turn
  <2>4. /\ stored' = stored /\ window' = window /\ node' = node /\ page' = page /\ down' = down
        /\ minId' = minId /\ maxId' = maxId
        /\ wanted' = wanted /\ found' = found /\ idle' = idle /\ receiver' = receiver /\ drawer' = drawer
        /\ undefined' = undefined /\ setting' = setting
    BY <1>9 DEF Turn, threads
  <2> QED BY <2>1, <2>2, <2>3, <2>4 DEF RecordTypes, Pictures
<1>10. CASE NextPage \/ Upward \/ CalendarEvent
  BY <1>9, <1>10 DEF NextPage, Upward, CalendarEvent
<1>11. CASE Close
  BY <1>11 DEF Close, RecordTypes, structure, network, threads, Pictures
<1>12. CASE PictureHere
  <2>1. idle' \in Seq({"picture", "show"}) /\ drawer' \in Int
    BY <1>12 DEF PictureHere, RecordTypes
  <2> QED BY <1>12, <2>1 DEF PictureHere, RecordTypes, structure, network, Pictures
<1>13. CASE PictureCounted
  <2>1. idle' \in Seq({"picture", "show"})
    <3>1. idle \in Seq({"picture", "show"})
      BY DEF RecordTypes
    <3>2. Append(idle, "show") \in Seq({"picture", "show"})
      BY <3>1
    <3> QED BY <1>13, <3>1, <3>2 DEF PictureCounted
  <2>2. images' \in Int /\ drawer' = None
    BY <1>13 DEF PictureCounted, RecordTypes
  <2> QED BY <1>13, <2>1, <2>2 DEF PictureCounted, RecordTypes, network, Pictures
<1>14. CASE ReceiveFailure
  <2>1. down' \in Seq(DownPacket)
    BY <1>14, RowTaken DEF ReceiveFailure
  <2>2. node' \in BOOLEAN
    BY <1>14 DEF ReceiveFailure, NodeAfter, RecordTypes
  <2> QED BY <1>14, <2>1, <2>2 DEF ReceiveFailure, RecordTypes, structure, threads, Pictures, DownPacket
<1>15. CASE ShowRecord
  <2>1. idle' \in Seq({"picture", "show"})
    BY <1>15 DEF ShowRecord, RecordTypes
  <2>2. page' \in Seq(Messages) /\ maxId' \in 0 .. Len(Times) /\ undefined' \in BOOLEAN
    <3>1. rows \in Seq(Messages) /\ page \in Seq(Messages) /\ maxId \in 0 .. Len(Times) /\ undefined \in BOOLEAN
      BY DEF RecordTypes
    <3>2. rows # <<>> => Last(rows) \in 0 .. Len(Times)
      <4>1. SUFFICES ASSUME rows # <<>> PROVE Last(rows) \in 0 .. Len(Times)
        OBVIOUS
      <4>2. Last(rows) \in Messages
        BY <3>1, <4>1 DEF Last
      <4> QED BY <1>0, <4>2 DEF Messages
    <3> QED BY <1>15, <3>1, <3>2 DEF ShowRecord
  <2> QED BY <1>15, <2>1, <2>2 DEF ShowRecord, RecordTypes, network, Pictures
<1> QED BY <1>1, <1>2, <1>3, <1>4, <1>5, <1>6, <1>7, <1>8, <1>10, <1>11, <1>12, <1>13, <1>14, <1>15
      DEF RecordNext

-----------------------------------------------------------------------------
(* One request at a time, and the page next to the one before.             *)

\* What the user is like does not change.
LEMMA SettingKept ==
  ASSUME RecordNext
  PROVE  setting' = setting
<1>1. CASE Post \/ ProcessPacketMessageRecordQuery
  BY <1>1 DEF Post, ProcessPacketMessageRecordQuery
<1>2. CASE ReceiveRow \/ FindImage \/ ReceiveOK \/ ShowIfComplete \/ ReceiveFailure \/ ReceivePicture
  BY <1>2 DEF ReceiveRow, FindImage, ReceiveOK, ShowIfComplete, ReceiveFailure, ReceivePicture
<1>3. CASE ChartRecord \/ Close
  BY <1>3 DEF ChartRecord, Close
<1>4. CASE NextPage \/ Upward \/ CalendarEvent
  BY <1>4 DEF NextPage, Upward, CalendarEvent, Turn
<1>5. CASE PictureHere \/ PictureCounted \/ ShowRecord
  BY <1>5 DEF PictureHere, PictureCounted, ShowRecord
<1> QED BY <1>1, <1>2, <1>3, <1>4, <1>5 DEF RecordNext

\* Counted right, all pictures are one.
LEMMA TheOnePicture ==
  ASSUME RecordTypes, CountIsRight, NEW x \in Pictures, NEW y \in Pictures
  PROVE  x = y
<1>1. Len(Times) \in Nat /\ Pictures \subseteq 1 .. Len(Times)
  <2>1. Pictures \subseteq Messages
    BY ChatRecordAssumption DEF RecordTypes, Pictures
  <2>2. Len(Times) \in Nat
    BY ChatRecordAssumption
  <2> QED BY <2>1, <2>2 DEF Messages
<1>2. IsFiniteSet(1 .. Len(Times))
  BY <1>1, FS_Interval
<1>3. IsFiniteSet(Pictures)
  BY <1>1, <1>2, FS_Subset
<1>4. Cardinality(Pictures) \in Nat /\ Cardinality(Pictures) <= 1
  BY <1>3, FS_CardinalityType DEF CountIsRight
<1>5. CASE Cardinality(Pictures) = 0
  <2>1. Pictures = {}
    BY <1>3, <1>5, FS_EmptySet
  <2> QED BY <2>1
<1>6. CASE Cardinality(Pictures) = 1
  <2>1. \E z : Pictures = {z}
    BY <1>3, <1>6, FS_Singleton
  <2> QED BY <2>1
<1> QED BY <1>4, <1>5, <1>6

\* While a picture or a page for the screen is under way a page is coming or here, and the window is open.
LEMMA UnderWay ==
  ASSUME OneRequest, wanted # <<>> \/ idle # <<>> \/ drawer # None
  PROVE  window = "open" /\ node /\ (IsComing \/ IsHere)
<1>1. ~NotAsked /\ ~Asked /\ ~IsRefused
  BY DEF NotAsked, Asked, IsRefused
<1>2. ~AllSettled
  BY DEF AllSettled
<1>3. IsComing \/ IsHere
  BY <1>1 DEF OneRequest
<1>4. window = "open"
  BY <1>2, <1>3 DEF IsComing, IsHere
<1> QED BY <1>3, <1>4 DEF OneRequest

\* Before the page has been asked for, the server has nothing to answer with.
LEMMA AskedFirst ==
  ASSUME OneRequest, queries # <<>>
  PROVE  Asked
BY DEF OneRequest, NotAsked, IsComing, IsHere, IsRefused

\* It stays under way when only the pictures go on.
LEMMA StageKept ==
  ASSUME setting' = setting, stored' = stored, window' = window, window = "open", node' = node, rows' = rows,
         page' = page, queries' = queries, down' = down, endFlag' = endFlag, receiver' = receiver,
         asked' = asked, undefined' = undefined, OneRequest, IsComing \/ IsHere
  PROVE  OneRequest'
<1>1. Answers' = Answers /\ (CountIsRight' <=> CountIsRight)
  BY DEF Answers, CountIsRight, Pictures
<1>2. \A s : Adjoins(s)' <=> Adjoins(s)
  BY DEF Adjoins
<1>3. \A s : Coming(s)' <=> Coming(s)
  BY <1>1 DEF Coming
<1>4. IsComing => IsComing'
  BY <1>1, <1>2, <1>3 DEF IsComing
<1>5. IsHere => IsHere'
  BY <1>1, <1>2 DEF IsHere
<1> QED BY <1>4, <1>5 DEF OneRequest

\* A function on the places is a line.
LEMMA LineOf ==
  ASSUME NEW S, NEW n \in Nat, NEW p \in [1 .. n -> S]
  PROVE  p \in Seq(S)
OBVIOUS

\* Another message makes no difference to the page that has been asked for.
LEMMA PostInOrder ==
  ASSUME RecordTypes, Orderly, Post
  PROVE  Orderly'
<1>1. /\ window' = window /\ node' = node /\ rows' = rows /\ minId' = minId /\ maxId' = maxId
      /\ endFlag' = endFlag /\ images' = images /\ page' = page /\ queries' = queries /\ down' = down
      /\ wanted' = wanted /\ idle' = idle /\ receiver' = receiver /\ drawer' = drawer
      /\ asked' = asked /\ undefined' = undefined /\ setting' = setting
  BY DEF Post, structure, network, threads
<1>2. stored \in Nat /\ stored' = stored + 1 /\ Len(Times) \in Nat
  BY ChatRecordAssumption DEF RecordTypes, Post
<1>3. 1 .. stored \subseteq (1 .. stored')
  BY <1>2
<1>4. Answers \subseteq Answers'
  <2>1. \A n \in 0 .. PageRows : [1 .. n -> 1 .. stored] \subseteq [1 .. n -> 1 .. stored']
    BY <1>3
  <2> QED BY <2>1 DEF Answers
<1>5. CountIsRight' <=> CountIsRight
  BY <1>1 DEF CountIsRight, Pictures
<1>6. \A s : Adjoins(s)' <=> Adjoins(s)
  BY <1>1 DEF Adjoins
<1>7. \A s : Coming(s) => Coming(s)'
  BY <1>1, <1>4 DEF Coming
<1>8. NotAsked => NotAsked'
  BY <1>1 DEF NotAsked
<1>9. Asked => Asked'
  BY <1>1, <1>5 DEF Asked, Asks
<1>10. IsComing => IsComing'
  BY <1>1, <1>4, <1>5, <1>6, <1>7 DEF IsComing
<1>11. IsHere => IsHere'
  BY <1>1, <1>4, <1>5, <1>6 DEF IsHere, AllSettled
<1>12. OneRequest'
  <2>1. IsRefused => IsRefused'
    BY <1>1 DEF IsRefused, AllSettled, Free
  <2> QED BY <1>1, <1>8, <1>9, <1>10, <1>11, <2>1 DEF OneRequest, Orderly
<1>13. ASSUME CountIsRight PROVE ShownRight'
  <2>1. ShownRight
    BY <1>13 DEF Orderly
  <2>2. ShownInTime'
    BY <1>1, <2>1 DEF ShownRight, ShownInTime, NoPicture, OnePicture, Pictures
  <2>3. KnowsEnds'
    BY <1>1, <2>1 DEF ShownRight, KnowsEnds
  <2>4. page' \in Seq(1 .. stored')
    <3>1. page \in Seq(1 .. stored)
      BY <2>1 DEF ShownRight
    <3>2. \A i \in 1 .. Len(page) : page[i] \in 1 .. stored'
      BY <1>3, <3>1, ElementOfSeq
    <3>3. Len(page) \in Nat /\ DOMAIN page = 1 .. Len(page) /\ page = [i \in 1 .. Len(page) |-> page[i]]
      BY <3>1
    <3>4. page \in [1 .. Len(page) -> 1 .. stored']
      BY <3>2, <3>3
    <3>5. page \in Seq(1 .. stored')
      BY <3>3, <3>4, LineOf
    <3> QED BY <1>1, <3>5
  <2>5. asked'[2] <= stored'
    <3>1. asked[2] <= stored /\ asked[2] \in Nat
      BY <1>2, <2>1 DEF ShownRight, RecordTypes
    <3> QED BY <1>1, <1>2, <3>1
  <2> QED BY <2>2, <2>3, <2>4, <2>5 DEF ShownRight
<1> QED BY <1>5, <1>12, <1>13 DEF Orderly

\* The answer is the page next to the one on the screen.
LEMMA AnswerAdjoining ==
  ASSUME RecordTypes, ShownRight, NEW q, Asks(q), NEW s \in MessageFileQuery(q)
  PROVE  Adjoins(s)
<1>1. SUFFICES ASSUME page # <<>>, s # <<>>
               PROVE  /\ asked[1] = "up" => /\ Contiguous(s) /\ Last(s) = Head(page) - 1
                                            /\ (Len(s) = PageRows \/ Head(s) = 1)
                      /\ asked[1] = "next" => /\ Contiguous(s) /\ Head(s) = Last(page) + 1
                                              /\ (Len(s) = PageRows \/ Last(s) >= asked[2])
  BY DEF Adjoins
<1>2. stored \in 0 .. Len(Times) /\ page \in Seq(1 .. stored) /\ asked[2] <= stored /\ asked[2] \in Nat
  BY ChatRecordAssumption DEF RecordTypes, ShownRight
<1>3. Head(page) \in 1 .. stored /\ Last(page) \in 1 .. stored
  <2>1. PICK p : p = page
    OBVIOUS
  <2>2. p \in Seq(1 .. stored) /\ p # <<>>
    BY <1>1, <1>2, <2>1
  <2>3. Len(p) \in 1 .. Len(p) /\ 1 \in 1 .. Len(p) /\ Head(p) = p[1] /\ Last(p) = p[Len(p)]
    BY <2>2 DEF Last
  <2>4. p[1] \in 1 .. stored /\ p[Len(p)] \in 1 .. stored
    BY <2>2, <2>3, ElementOfSeq
  <2> QED BY <2>1, <2>3, <2>4
<1>4. s \in Seq(1 .. stored)
  BY <1>2, QueryIs, AnswerIs
<1>5. Head(s) = s[1] /\ Last(s) = s[Len(s)]
  BY <1>1, <1>4 DEF Last
<1>6. ASSUME asked[1] = "up"
      PROVE  Contiguous(s) /\ Last(s) = Head(page) - 1 /\ (Len(s) = PageRows \/ Head(s) = 1)
  <2>1. q = Query("id", "<", Head(page))
    BY <1>1, <1>6 DEF Asks
  <2>2. Contiguous(s) /\ s[Len(s)] = Head(page) - 1 /\ (Len(s) = PageRows \/ s[1] = 1)
    BY <1>1, <1>2, <1>3, <2>1, PageAbove
  <2> QED BY <1>5, <2>2
<1>7. ASSUME asked[1] = "next"
      PROVE  Contiguous(s) /\ Head(s) = Last(page) + 1 /\ (Len(s) = PageRows \/ Last(s) >= asked[2])
  <2>1. q = Query("id", ">", Last(page))
    BY <1>1, <1>7 DEF Asks
  <2>2. Contiguous(s) /\ s[1] = Last(page) + 1 /\ (Len(s) = PageRows \/ s[Len(s)] = stored)
    BY <1>1, <1>2, <1>3, <2>1, PageBelow
  <2> QED BY <1>2, <1>5, <2>2
<1> QED BY <1>6, <1>7

\* The server answers: the page is coming.
LEMMA AnswerInOrder ==
  ASSUME RecordTypes, Orderly, ProcessPacketMessageRecordQuery,
         NEW s \in MessageFileQuery(Head(queries)), down' = down \o Rows(s) \o <<<<"ok">>>>
  PROVE  Orderly'
<1>1. /\ stored' = stored /\ window' = window /\ node' = node /\ rows' = rows /\ minId' = minId
      /\ maxId' = maxId /\ endFlag' = endFlag /\ images' = images /\ page' = page /\ wanted' = wanted
      /\ idle' = idle /\ receiver' = receiver /\ drawer' = drawer
      /\ asked' = asked /\ undefined' = undefined /\ setting' = setting /\ queries' = Tail(queries)
  BY DEF ProcessPacketMessageRecordQuery, structure, threads
<1>2. OneRequest /\ Asked
  BY AskedFirst DEF ProcessPacketMessageRecordQuery, Orderly
<1>3. stored \in 0 .. Len(Times)
  BY DEF RecordTypes
<1>4. s \in Answers /\ Ascending(s)
  BY <1>3, QueryIs
<1>5. Comes(down', s, 0)
  <2>1. down = <<>> /\ down \in Seq(DownPacket)
    BY <1>2 DEF Asked, RecordTypes, DownPacket
  <2> QED BY <1>3, <1>4, <2>1, RowsIs
<1>6. CountIsRight => Adjoins(s)
  <2>1. SUFFICES ASSUME CountIsRight PROVE Adjoins(s)
    OBVIOUS
  <2>2. Asks(Head(queries))
    BY <1>2, <2>1 DEF Asked
  <2>3. ShownRight
    BY <2>1 DEF Orderly
  <2> QED BY <2>2, <2>3, AnswerAdjoining
<1>7. queries' = <<>>
  <2>1. PICK q : queries = <<q>>
    BY <1>2 DEF Asked
  <2> QED BY <1>1, <2>1
<1>8. Coming(s)'
  <2>1. rows' = <<>> /\ receiver' = Free
    BY <1>1, <1>2 DEF Asked
  <2>2. s \in Answers'
    BY <1>1, <1>4 DEF Answers
  <2>3. Len(s) \in Nat /\ Len(rows') = 0
    BY <1>3, <1>4, <2>1, AnswerIs
  <2>4. Len(rows') <= Len(s) /\ \A i \in 1 .. Len(rows') : rows'[i] = s[i]
    BY <2>3
  <2>5. Comes(down', s, Len(rows'))
    BY <1>5, <2>3
  <2> QED BY <1>4, <2>1, <2>2, <2>4, <2>5 DEF Coming, Comes, Free
<1>9. CountIsRight' <=> CountIsRight
  BY <1>1 DEF CountIsRight, Pictures
<1>10. IsComing'
  <2>1. s \in Answers'
    BY <1>1, <1>4 DEF Answers
  <2>2. Adjoins(s)' <=> Adjoins(s)
    BY <1>1 DEF Adjoins
  <2>3. window' = "open" /\ endFlag' = FALSE
    BY <1>1, <1>2 DEF Asked
  <2> QED BY <1>6, <1>7, <1>8, <1>9, <2>1, <2>2, <2>3 DEF IsComing
<1>11. OneRequest'
  BY <1>1, <1>2, <1>10 DEF OneRequest
<1>12. ShownRight => ShownRight'
  <2>1. ShownInTime => ShownInTime'
    BY <1>1 DEF ShownInTime, NoPicture, OnePicture, Pictures
  <2>2. KnowsEnds => KnowsEnds'
    BY <1>1 DEF KnowsEnds
  <2> QED BY <1>1, <2>1, <2>2 DEF ShownRight
<1> QED BY <1>9, <1>11, <1>12 DEF Orderly

\* Or refuses.
LEMMA RefusalInOrder ==
  ASSUME RecordTypes, Orderly, ProcessPacketMessageRecordQuery, down' = Append(down, <<"failure">>)
  PROVE  Orderly'
<1>1. /\ stored' = stored /\ window' = window /\ node' = node /\ rows' = rows /\ minId' = minId
      /\ maxId' = maxId /\ endFlag' = endFlag /\ images' = images /\ page' = page /\ wanted' = wanted
      /\ idle' = idle /\ receiver' = receiver /\ drawer' = drawer
      /\ asked' = asked /\ undefined' = undefined /\ setting' = setting /\ queries' = Tail(queries)
  BY DEF ProcessPacketMessageRecordQuery, structure, threads
<1>2. OneRequest /\ Asked
  BY AskedFirst DEF ProcessPacketMessageRecordQuery, Orderly
<1>3. queries' = <<>>
  <2>1. PICK q : queries = <<q>>
    BY <1>2 DEF Asked
  <2> QED BY <1>1, <2>1
<1>4. down' = <<<<"failure">>>>
  BY <1>2 DEF Asked
<1>5. IsRefused'
  BY <1>1, <1>2, <1>3, <1>4 DEF Asked, IsRefused, Free
<1>6. OneRequest'
  BY <1>1, <1>2, <1>5 DEF OneRequest
<1>7. CountIsRight' <=> CountIsRight
  BY <1>1 DEF CountIsRight, Pictures
<1>8. ShownRight => ShownRight'
  <2>1. ShownInTime => ShownInTime'
    BY <1>1 DEF ShownInTime, NoPicture, OnePicture, Pictures
  <2>2. KnowsEnds => KnowsEnds'
    BY <1>1 DEF KnowsEnds
  <2> QED BY <1>1, <2>1, <2>2 DEF ShownRight
<1> QED BY <1>6, <1>7, <1>8 DEF Orderly

\* A row goes behind those of the answer that are in the array.
LEMMA RowAdded ==
  ASSUME RecordTypes, window = "open", NEW s \in Answers, Len(rows) < Len(s),
         \A i \in 1 .. Len(rows) : rows[i] = s[i], AddRow(s[Len(rows) + 1])
  PROVE  /\ rows' = Append(rows, s[Len(rows) + 1]) /\ undefined' = undefined /\ node' = TRUE
         /\ Len(rows) \in Nat /\ Len(rows') = Len(rows) + 1 /\ rows' # <<>>
         /\ \A i \in 1 .. Len(rows') : rows'[i] = s[i]
         /\ (rows # <<>> => minId = Head(rows)) => minId' = Head(rows')
<1>1. PICK m : m = s[Len(rows) + 1]
  OBVIOUS
<1>2. stored \in 0 .. Len(Times) /\ rows \in Seq(Messages) /\ Len(rows) \in Nat
  BY DEF RecordTypes
<1>3. Len(s) \in Nat /\ Len(s) <= PageRows
  BY <1>2, AnswerIs
<1>4. Len(rows) < Slots
  BY <1>2, <1>3, ChatRecordAssumption
<1>5. m \in Messages
  <2>1. s \in Seq(Messages)
    BY <1>2, AnswerIs
  <2>2. Len(rows) + 1 \in 1 .. Len(s)
    BY <1>2, <1>3
  <2> QED BY <1>1, <2>1, <2>2, ElementOfSeq
<1>6. rows' = Append(rows, m) /\ undefined' = undefined /\ minId' = MinId(m)
  BY <1>1, <1>4 DEF AddRow
<1>7. node' = TRUE
  BY Zenon DEF AddRow, NodeAfter
<1>8. /\ Append(rows, m) # <<>> /\ Len(Append(rows, m)) = Len(rows) + 1
      /\ \A i \in 1 .. Len(rows) : Append(rows, m)[i] = rows[i]
      /\ Append(rows, m)[Len(rows) + 1] = m
      /\ Head(Append(rows, m)) = IF rows = <<>> THEN m ELSE Head(rows)
  BY <1>2, <1>5, AppendProperties, HeadTailAppend
<1>9. ASSUME NEW i \in 1 .. Len(rows') PROVE rows'[i] = s[i]
  <2>1. i \in 1 .. Len(rows) \/ i = Len(rows) + 1
    BY <1>2, <1>6, <1>8
  <2>2. CASE i \in 1 .. Len(rows)
    BY <1>6, <1>8, <2>2
  <2>3. CASE i = Len(rows) + 1
    BY <1>1, <1>6, <1>8, <2>3
  <2> QED BY <2>1, <2>2, <2>3
<1>10. (rows # <<>> => minId = Head(rows)) => minId' = Head(rows')
  BY <1>6, <1>8 DEF MinId
<1> QED BY <1>1, <1>2, <1>6, <1>7, <1>8, <1>9, <1>10

\* What is next of an answer that is coming: a row, or OK after the last one.
LEMMA NextComing ==
  ASSUME RecordTypes, NEW s \in Answers, Len(rows) <= Len(s), Comes(down, s, Len(rows))
  PROVE  /\ Len(rows) < Len(s) => /\ Head(down) = <<"row", s[Len(rows) + 1]>>
                                  /\ Comes(Tail(down), s, Len(rows) + 1)
         /\ ~(Len(rows) < Len(s)) => /\ Head(down) = <<"ok">> /\ Tail(down) = <<>>
                                     /\ Len(rows) = Len(s)
<1>1. PICK k, n, d : k = Len(rows) /\ n = Len(s) /\ d = down
  OBVIOUS
<1>2. k \in Nat /\ n \in Nat /\ k <= n /\ d \in Seq(DownPacket)
  BY <1>1, AnswerIs DEF RecordTypes, DownPacket
<1>3. /\ Len(d) = n - k + 1
      /\ \A i \in 1 .. n - k : d[i] = <<"row", s[k + i]>>
      /\ d[n - k + 1] = <<"ok">>
  BY <1>1 DEF Comes
<1>4. d # <<>> /\ Head(d) = d[1] /\ Tail(d) \in Seq(DownPacket) /\ Len(Tail(d)) = n - k
      /\ \A i \in 1 .. n - k : Tail(d)[i] = d[i + 1]
  <2>1. d # <<>> /\ Len(d) - 1 = n - k
    BY <1>2, <1>3
  <2> QED BY <1>2, <1>3, <2>1, HeadTailProperties
<1>5. CASE k < n
  <2>1. 1 \in 1 .. n - k /\ n - k \in 1 .. n - k
    BY <1>2, <1>5
  <2>2. Head(d) = <<"row", s[k + 1]>>
    BY <1>3, <1>4, <2>1
  <2>3. Tail(d)[n - k] = <<"ok">>
    BY <1>3, <1>4, <2>1
  <2>4. ASSUME NEW i \in 1 .. n - (k + 1) PROVE Tail(d)[i] = <<"row", s[k + 1 + i]>>
    <3>1. i \in 1 .. n - k /\ i + 1 \in 1 .. n - k /\ k + (i + 1) = k + 1 + i
      BY <1>2
    <3>2. Tail(d)[i] = d[i + 1] /\ d[i + 1] = <<"row", s[k + (i + 1)]>>
      BY <1>3, <1>4, <3>1
    <3> QED BY <3>1, <3>2
  <2>5. n - (k + 1) + 1 = n - k
    BY <1>2
  <2>6. Comes(Tail(d), s, k + 1)
    BY <1>1, <1>4, <2>3, <2>4, <2>5 DEF Comes
  <2> QED BY <1>1, <1>5, <2>2, <2>6
<1>6. CASE ~(k < n)
  <2>1. k = n /\ n - k = 0
    BY <1>2, <1>6
  <2>2. Head(d) = <<"ok">>
    BY <1>3, <1>4, <2>1
  <2>3. Tail(d) = <<>>
    BY <1>4, <2>1
  <2> QED BY <1>1, <1>6, <2>1, <2>2, <2>3
<1> QED BY <1>5, <1>6

\* While an answer comes there is something on its way, or a picture in hand.
LEMMA SomethingComes ==
  ASSUME RecordTypes, NEW s \in Answers, Coming(s)
  PROVE  down # <<>> /\ (receiver = Free \/ receiver[1] = "picture")
<1>1. Len(s) \in Nat /\ Len(rows) \in Nat /\ Len(rows) <= Len(s)
  BY AnswerIs DEF RecordTypes, Coming
<1>2. Len(down) = Len(s) - Len(rows) + 1 \/ (Len(rows) < Len(s) /\ Len(down) = Len(s) - (Len(rows) + 1) + 1)
  BY DEF Coming, Comes
<1>3. Len(down) > 0
  BY <1>1, <1>2
<1>4. down # <<>>
  BY <1>3
<1> QED BY <1>4 DEF Coming

\* A refusal comes alone.
LEMMA RefusedLine ==
  ASSUME IsRefused, down # <<>>
  PROVE  Head(down) = <<"failure">> /\ Head(down)[1] = "failure" /\ Tail(down) = <<>>
<1>1. PICK o : o = <<"failure">>
  OBVIOUS
<1>2. down = <<o>>
  BY <1>1 DEF IsRefused
<1>3. Head(down) = o /\ Tail(down) = <<>>
  BY <1>2
<1> QED BY <1>1, <1>3

\* A row of the page that is coming.
LEMMA RowInOrder ==
  ASSUME RecordTypes, Orderly, ReceiveRow
  PROVE  Orderly'
<1>1. /\ stored' = stored /\ window' = window /\ maxId' = maxId
      /\ endFlag' = endFlag /\ images' = images /\ page' = page /\ queries' = queries /\ wanted' = wanted
      /\ idle' = idle /\ drawer' = drawer /\ asked' = asked /\ setting' = setting
      /\ down # <<>> /\ down' = Tail(down) /\ Head(down)[1] = "row" /\ receiver = Free
  BY DEF ReceiveRow, Receiving
<1>2. OneRequest /\ IsComing /\ window = "open" /\ node /\ queries = <<>> /\ endFlag = FALSE
  <2>1. OneRequest /\ IsComing
    BY <1>1, RefusedLine DEF Orderly, OneRequest, NotAsked, Asked, IsHere
  <2> QED BY <2>1 DEF IsComing, OneRequest
<1>3. PICK s \in Answers : Coming(s) /\ (CountIsRight => Adjoins(s))
  BY <1>2 DEF IsComing
<1>4. /\ Ascending(s) /\ Len(rows) <= Len(s) /\ \A i \in 1 .. Len(rows) : rows[i] = s[i]
      /\ Comes(down, s, Len(rows))
  BY <1>1, <1>3 DEF Coming, Free
<1>5. /\ Len(rows) < Len(s) /\ Head(down) = <<"row", s[Len(rows) + 1]>>
      /\ Comes(Tail(down), s, Len(rows) + 1)
  <2>1. Head(down) # <<"ok">>
    BY <1>1
  <2> QED BY <1>4, <2>1, NextComing
<1>6. PICK m : m = s[Len(rows) + 1]
  OBVIOUS
<1>7. Head(down)[2] = m
  BY <1>5, <1>6
<1>8. Answers' = Answers /\ (CountIsRight' <=> CountIsRight) /\ (Adjoins(s)' <=> Adjoins(s))
  BY <1>1 DEF Answers, CountIsRight, Pictures, Adjoins
<1>9. Len(rows) \in Nat /\ Len(s) \in Nat
  BY AnswerIs DEF RecordTypes
<1>10. SUFFICES /\ Coming(s)' /\ ~undefined' /\ node'
                /\ CountIsRight => ShownInTime' /\ KnowsEnds'
  <2>1. Coming(s)' => IsComing'
    BY <1>1, <1>2, <1>3, <1>8 DEF IsComing
  <2>2. ShownRight => page' \in Seq(1 .. stored') /\ asked'[2] <= stored'
    BY <1>1 DEF ShownRight
  <2> QED BY <1>8, <2>1, <2>2 DEF Orderly, OneRequest, ShownRight
<1>11. CASE m \in Pictures
  <2>1. receiver' = <<"picture", m, images>> /\ node' = node /\ rows' = rows /\ minId' = minId
        /\ undefined' = undefined
    BY <1>2, <1>7, <1>11 DEF ReceiveRow
  <2>2. Coming(s)'
    <3>1. Comes(down', s, Len(rows') + 1)
      BY <1>1, <1>5, <2>1
    <3>2. receiver'[1] = "picture" /\ receiver'[2] = s[Len(rows') + 1]
      BY <1>6, <2>1
    <3>3. s \in Answers' /\ Len(rows') < Len(s) /\ Len(rows') <= Len(s)
          /\ \A i \in 1 .. Len(rows') : rows'[i] = s[i]
      BY <1>4, <1>5, <1>8, <2>1
    <3> QED BY <1>4, <3>1, <3>2, <3>3 DEF Coming, Comes
  <2>3. ASSUME CountIsRight PROVE ShownInTime' /\ KnowsEnds'
    <3>1. ShownInTime /\ KnowsEnds
      BY <2>3 DEF Orderly, ShownRight
    <3>2. ~OnePicture
      <4>1. SUFFICES ASSUME NEW i \in 1 .. Len(rows), rows[i] \in Pictures PROVE FALSE
        BY DEF OnePicture
      <4>2. s[i] = m
        BY <1>4, <1>11, <2>3, <4>1, TheOnePicture
      <4>3. i \in 1 .. Len(s) /\ Len(rows) + 1 \in 1 .. Len(s) /\ i < Len(rows) + 1
        BY <1>5, <1>9
      <4>4. s[i] < s[Len(rows) + 1]
        BY <1>4, <4>3 DEF Ascending
      <4>5. m \in Int
        BY <1>11, ChatRecordAssumption DEF RecordTypes, Pictures, Messages
      <4> QED BY <1>6, <4>2, <4>4, <4>5
    <3>3. NoPicture /\ images = 0
      BY <3>1, <3>2 DEF ShownInTime, NoPicture
    <3>4. NoPicture' /\ receiver'[3] = 0
      BY <1>1, <2>1, <3>3 DEF NoPicture
    <3>5. ShownInTime'
      BY <1>1, <1>2, <2>1, <3>1, <3>3, <3>4 DEF ShownInTime
    <3>6. KnowsEnds'
      BY <1>1, <2>1, <3>1 DEF KnowsEnds
    <3> QED BY <3>5, <3>6
  <2> QED BY <1>2, <2>1, <2>2, <2>3 DEF OneRequest
<1>12. CASE m \notin Pictures
  <2>1. AddRow(s[Len(rows) + 1]) /\ receiver' = Free
    BY <1>1, <1>2, <1>6, <1>7, <1>12 DEF ReceiveRow
  <2>2. /\ undefined' = undefined /\ node' = TRUE
        /\ Len(rows') = Len(rows) + 1 /\ rows' # <<>>
        /\ \A i \in 1 .. Len(rows') : rows'[i] = s[i]
        /\ (rows # <<>> => minId = Head(rows)) => minId' = Head(rows')
    BY <1>2, <1>4, <1>5, <2>1, RowAdded
  <2>3. Coming(s)'
    <3>1. Comes(down', s, Len(rows'))
      BY <1>1, <1>5, <2>2
    <3>2. s \in Answers' /\ Len(rows') <= Len(s)
      BY <1>5, <1>8, <1>9, <2>2
    <3> QED BY <1>4, <2>1, <2>2, <3>1, <3>2 DEF Coming, Comes, Free
  <2>4. ASSUME CountIsRight PROVE ShownInTime' /\ KnowsEnds'
    <3>1. ShownInTime /\ KnowsEnds
      BY <2>4 DEF Orderly, ShownRight
    <3>2. NoPicture => NoPicture'
      BY <1>1 DEF NoPicture
    <3>3. NoPicture' => NoPicture
      BY <1>1 DEF NoPicture
    <3>4. OnePicture => OnePicture'
      <4>1. SUFFICES ASSUME OnePicture PROVE OnePicture'
        OBVIOUS
      <4>2. PICK i \in 1 .. Len(rows) : rows[i] \in Pictures
        BY <4>1 DEF OnePicture
      <4>3. i \in 1 .. Len(rows')
        BY <1>9, <2>2
      <4>4. rows'[i] \in Pictures'
        BY <1>1, <1>4, <2>2, <4>2, <4>3 DEF Pictures
      <4> QED BY <1>1, <4>1, <4>3, <4>4 DEF OnePicture
    <3>5. receiver'[1] # "picture"
      BY <2>1 DEF Free
    <3>6. ShownInTime'
      BY <1>1, <1>2, <3>1, <3>2, <3>3, <3>4, <3>5 DEF ShownInTime
    <3>7. KnowsEnds'
      BY <1>1, <2>2, <3>1 DEF KnowsEnds
    <3> QED BY <3>6, <3>7
  <2> QED BY <1>2, <2>2, <2>3, <2>4 DEF OneRequest
<1> QED BY <1>11, <1>12

\* A picture in a row of the page that is coming.
LEMMA ImageInOrder ==
  ASSUME RecordTypes, Orderly, FindImage
  PROVE  Orderly'
<1>1. /\ stored' = stored /\ window' = window /\ maxId' = maxId
      /\ endFlag' = endFlag /\ page' = page /\ queries' = queries /\ down' = down
      /\ drawer' = drawer /\ asked' = asked /\ setting' = setting
      /\ receiver[1] = "picture" /\ receiver' = Free /\ images' = receiver[3] + 1 /\ AddRow(receiver[2])
  BY DEF FindImage
<1>2. OneRequest /\ IsComing /\ window = "open" /\ node /\ queries = <<>> /\ endFlag = FALSE
  <2>1. receiver # Free /\ receiver # <<"flag">>
    BY <1>1 DEF Free
  <2>2. OneRequest /\ IsComing
    BY <2>1 DEF Orderly, OneRequest, NotAsked, Asked, IsHere, IsRefused
  <2> QED BY <2>2 DEF IsComing, OneRequest
<1>3. PICK s \in Answers : Coming(s) /\ (CountIsRight => Adjoins(s))
  BY <1>2 DEF IsComing
<1>4. /\ Ascending(s) /\ Len(rows) < Len(s) /\ \A i \in 1 .. Len(rows) : rows[i] = s[i]
      /\ receiver[2] = s[Len(rows) + 1] /\ Comes(down, s, Len(rows) + 1)
  BY <1>1, <1>3 DEF Coming, Free
<1>5. PICK m : m = s[Len(rows) + 1]
  OBVIOUS
<1>6. m \in Pictures
  <2>1. receiver \in {"picture"} \X Pictures \X Int
    BY <1>1 DEF RecordTypes, Free
  <2> QED BY <1>4, <1>5, <2>1
<1>7. Answers' = Answers /\ (CountIsRight' <=> CountIsRight) /\ (Adjoins(s)' <=> Adjoins(s))
  BY <1>1 DEF Answers, CountIsRight, Pictures, Adjoins
<1>8. Len(rows) \in Nat /\ Len(s) \in Nat
  BY AnswerIs DEF RecordTypes
<1>9. SUFFICES /\ Coming(s)' /\ ~undefined' /\ node'
               /\ CountIsRight => ShownInTime' /\ KnowsEnds'
  <2>1. Coming(s)' => IsComing'
    BY <1>1, <1>2, <1>3, <1>7 DEF IsComing
  <2>2. ShownRight => page' \in Seq(1 .. stored') /\ asked'[2] <= stored'
    BY <1>1 DEF ShownRight
  <2> QED BY <1>7, <2>1, <2>2 DEF Orderly, OneRequest, ShownRight
<1>10. /\ undefined' = undefined /\ node' = TRUE
       /\ Len(rows') = Len(rows) + 1 /\ rows' # <<>>
       /\ \A i \in 1 .. Len(rows') : rows'[i] = s[i]
       /\ (rows # <<>> => minId = Head(rows)) => minId' = Head(rows')
  BY <1>1, <1>2, <1>4, RowAdded
<1>11. Coming(s)'
  <2>1. Comes(down', s, Len(rows'))
    BY <1>1, <1>4, <1>10
  <2>2. s \in Answers' /\ Len(rows') <= Len(s)
    BY <1>4, <1>7, <1>8, <1>10
  <2> QED BY <1>1, <1>4, <1>10, <2>1, <2>2 DEF Coming, Comes, Free
<1>12. ASSUME CountIsRight PROVE ShownInTime' /\ KnowsEnds'
  <2>1. ShownInTime /\ KnowsEnds
    BY <1>12 DEF Orderly, ShownRight
  <2>2. NoPicture /\ receiver[3] = 0
    BY <1>1, <2>1 DEF ShownInTime
  <2>3. idle = <<>> /\ wanted = <<>> /\ drawer = None
    BY <1>2, <2>1, <2>2 DEF ShownInTime, NoPicture
  <2>4. images' = 1
    BY <1>1, <2>2
  <2>5. rows'[Len(rows')] \in Pictures' /\ Len(rows') \in 1 .. Len(rows')
    <3>1. Len(rows') \in 1 .. Len(rows')
      BY <1>8, <1>10
    <3>2. rows'[Len(rows')] = s[Len(rows')]
      BY <1>10, <3>1
    <3> QED BY <1>1, <1>5, <1>6, <1>10, <3>1, <3>2 DEF Pictures
  <2>6. \/ idle' = <<"picture">> /\ wanted' = <<>>
        \/ idle' = <<>> /\ wanted' = <<receiver[2]>>
    BY <2>3 DEF FindImage
  <2>7. \/ Len(wanted') = 1 /\ idle' = <<>> /\ drawer' = None
        \/ wanted' = <<>> /\ idle' = <<"picture">> /\ drawer' = None
    BY <1>1, <2>3, <2>6
  <2>8. OnePicture'
    BY <2>4, <2>5, <2>7 DEF OnePicture
  <2>9. ShownInTime'
    <3>1. ~NoPicture'
      BY <2>4 DEF NoPicture
    <3>2. receiver'[1] # "picture"
      BY <1>1 DEF Free
    <3> QED BY <2>8, <3>1, <3>2 DEF ShownInTime
  <2>10. KnowsEnds'
    BY <1>1, <1>10, <2>1 DEF KnowsEnds
  <2> QED BY <2>9, <2>10
<1> QED BY <1>2, <1>10, <1>11, <1>12 DEF OneRequest

\* OK: the page is here.
LEMMA OKInOrder ==
  ASSUME RecordTypes, Orderly, ReceiveOK
  PROVE  Orderly'
<1>1. /\ stored' = stored /\ window' = window /\ node' = node /\ rows' = rows /\ minId' = minId
      /\ maxId' = maxId /\ images' = images /\ page' = page /\ queries' = queries
      /\ wanted' = wanted /\ idle' = idle /\ drawer' = drawer
      /\ asked' = asked /\ undefined' = undefined /\ setting' = setting
      /\ down # <<>> /\ down' = Tail(down) /\ Head(down) = <<"ok">> /\ receiver = Free
  BY DEF ReceiveOK, Receiving
<1>2. OneRequest /\ IsComing /\ window = "open" /\ node /\ queries = <<>> /\ endFlag = FALSE
  <2>1. OneRequest /\ IsComing
    BY <1>1, RefusedLine DEF Orderly, OneRequest, NotAsked, Asked, IsHere
  <2> QED BY <2>1 DEF IsComing, OneRequest
<1>3. PICK s \in Answers : Coming(s) /\ (CountIsRight => Adjoins(s))
  BY <1>2 DEF IsComing
<1>4. /\ Ascending(s) /\ Len(rows) <= Len(s) /\ \A i \in 1 .. Len(rows) : rows[i] = s[i]
      /\ Comes(down, s, Len(rows))
  BY <1>1, <1>3 DEF Coming, Free
<1>5. down' = <<>> /\ Len(rows) = Len(s)
  <2>1. Head(down) # <<"row", s[Len(rows) + 1]>>
    BY <1>1
  <2> QED BY <1>1, <1>4, <2>1, NextComing
<1>6. rows = s
  <2>1. PICK r : r = rows
    OBVIOUS
  <2>2. r \in Seq(Messages) /\ s \in Seq(Messages) /\ Len(r) = Len(s) /\ \A i \in 1 .. Len(r) : r[i] = s[i]
    BY <1>4, <1>5, <2>1, AnswerIs DEF RecordTypes
  <2>3. r = s
    BY <2>2
  <2> QED BY <2>1, <2>3
<1>7. endFlag' = TRUE /\ receiver' = <<"flag">>
  BY <1>2, Zenon DEF ReceiveOK
<1>8. Answers' = Answers /\ (CountIsRight' <=> CountIsRight) /\ (Adjoins(rows)' <=> Adjoins(rows))
  BY <1>1 DEF Answers, CountIsRight, Pictures, Adjoins
<1>9. OneRequest'
  <2>1. rows \in Answers /\ Ascending(rows) /\ (CountIsRight => Adjoins(rows))
    BY <1>3, <1>4, <1>6
  <2>2. rows' \in Answers' /\ Ascending(rows')
    BY <1>1, <1>8, <2>1
  <2>3. IsHere'
    BY <1>1, <1>2, <1>5, <1>7, <1>8, <2>1, <2>2 DEF IsHere, Ascending
  <2> QED BY <1>1, <1>2, <2>3 DEF OneRequest
<1>10. ASSUME CountIsRight PROVE ShownRight'
  <2>1. ShownRight
    BY <1>10 DEF Orderly
  <2>2. (NoPicture' <=> NoPicture) /\ (OnePicture' <=> OnePicture)
    BY <1>1 DEF NoPicture, OnePicture, Pictures
  <2>3. receiver'[1] # "picture"
    BY <1>7
  <2>4. ShownInTime'
    BY <1>1, <1>2, <1>7, <2>1, <2>2, <2>3 DEF ShownRight, ShownInTime
  <2>5. KnowsEnds'
    BY <1>1, <2>1 DEF ShownRight, KnowsEnds
  <2> QED BY <1>1, <2>1, <2>4, <2>5 DEF ShownRight
<1> QED BY <1>8, <1>9, <1>10 DEF Orderly

\* The page is here, and nothing is missing: it will be shown.
LEMMA CompleteInOrder ==
  ASSUME RecordTypes, Orderly, ShowIfComplete
  PROVE  Orderly'
<1>1. /\ stored' = stored /\ window' = window /\ rows' = rows /\ minId' = minId /\ maxId' = maxId
      /\ endFlag' = endFlag /\ images' = images /\ page' = page /\ queries' = queries /\ down' = down
      /\ wanted' = wanted /\ drawer' = drawer /\ asked' = asked /\ undefined' = undefined
      /\ setting' = setting /\ receiver = <<"flag">> /\ receiver' = Free
  BY DEF ShowIfComplete, structure, network
<1>2. OneRequest /\ IsHere /\ window = "open"
  <2>1. receiver # Free /\ receiver[1] # "picture"
    BY <1>1 DEF Free
  <2>2. OneRequest /\ IsHere
    BY <2>1, SomethingComes DEF Orderly, OneRequest, NotAsked, Asked, IsComing, IsRefused
  <2> QED BY <2>1, <2>2 DEF IsHere, AllSettled
<1>3. node' = TRUE
  BY <1>2, Zenon DEF ShowIfComplete, NodeAfter
<1>4. Answers' = Answers /\ (CountIsRight' <=> CountIsRight) /\ (Adjoins(rows)' <=> Adjoins(rows))
  BY <1>1 DEF Answers, CountIsRight, Pictures, Adjoins
<1>5. IsHere'
  BY <1>1, <1>2, <1>4 DEF IsHere, Ascending
<1>6. OneRequest'
  BY <1>1, <1>2, <1>3, <1>5 DEF OneRequest
<1>7. ASSUME CountIsRight PROVE ShownRight'
  <2>1. ShownInTime /\ KnowsEnds /\ page \in Seq(1 .. stored) /\ asked[2] <= stored
    BY <1>7 DEF Orderly, ShownRight
  <2>2. endFlag = TRUE
    BY <1>2 DEF IsHere
  <2>3. receiver'[1] # "picture"
    BY <1>1 DEF Free
  <2>4. CASE NoPicture
    <3>1. idle' = IF rows # <<>> THEN Append(idle, "show") ELSE idle
      BY <2>4 DEF ShowIfComplete, NoPicture
    <3>2. idle \in Seq({"picture", "show"}) /\ \A i \in 1 .. Len(idle) : idle[i] = "show"
      BY <2>4 DEF RecordTypes, NoPicture
    <3>3. \A i \in 1 .. Len(idle') : idle'[i] = "show"
      BY <3>1, <3>2
    <3>4. NoPicture'
      BY <1>1, <2>4, <3>3 DEF NoPicture
    <3>5. idle = <<>> \/ rows # <<>>
      BY <2>1, <2>4 DEF ShownInTime
    <3>6. rows = <<>> \/ idle' # <<>>
      BY <3>1, <3>2
    <3>7. idle' # <<>> => rows # <<>>
      BY <3>1, <3>5
    <3>8. ShownInTime'
      BY <1>1, <2>2, <2>3, <3>4, <3>6, <3>7 DEF ShownInTime
    <3>9. KnowsEnds'
      BY <1>1, <2>1 DEF KnowsEnds
    <3> QED BY <1>1, <2>1, <3>8, <3>9 DEF ShownRight
  <2>5. CASE OnePicture
    <3>1. idle' = idle
      BY <2>5 DEF ShowIfComplete, OnePicture
    <3>2. OnePicture' /\ ~NoPicture'
      BY <1>1, <2>5, <3>1 DEF OnePicture, NoPicture, Pictures
    <3>3. ShownInTime'
      BY <2>3, <3>2 DEF ShownInTime
    <3>4. KnowsEnds'
      BY <1>1, <2>1 DEF KnowsEnds
    <3> QED BY <1>1, <2>1, <3>3, <3>4 DEF ShownRight
  <2> QED BY <2>1, <2>4, <2>5 DEF ShownInTime
<1> QED BY <1>4, <1>6, <1>7 DEF Orderly

\* The refusal has come: the page on the screen stays.
LEMMA FailureInOrder ==
  ASSUME RecordTypes, Orderly, ReceiveFailure
  PROVE  Orderly'
<1>1. /\ stored' = stored /\ window' = window /\ rows' = rows /\ minId' = minId /\ maxId' = maxId
      /\ endFlag' = endFlag /\ images' = images /\ page' = page /\ queries' = queries
      /\ wanted' = wanted /\ idle' = idle /\ receiver' = receiver /\ drawer' = drawer
      /\ asked' = asked /\ undefined' = undefined /\ setting' = setting
      /\ down # <<>> /\ down' = Tail(down) /\ Head(down) = <<"failure">> /\ receiver = Free
  BY DEF ReceiveFailure, Receiving, structure, threads
<1>2. ~IsComing
  <2>1. SUFFICES ASSUME NEW s \in Answers, Coming(s) PROVE FALSE
    BY DEF IsComing
  <2>2. Len(rows) <= Len(s) /\ Comes(down, s, Len(rows))
    BY <1>1, <2>1 DEF Coming, Free
  <2>3. Head(down) # <<"ok">> /\ Head(down) # <<"row", s[Len(rows) + 1]>>
    BY <1>1
  <2> QED BY <2>2, <2>3, NextComing
<1>3. OneRequest /\ IsRefused
  BY <1>1, <1>2 DEF Orderly, OneRequest, NotAsked, Asked, IsHere
<1>4. window = "open" /\ down' = <<>>
  BY <1>1, <1>3, RefusedLine DEF IsRefused, AllSettled
<1>5. node' = TRUE
  BY <1>3, <1>4, Zenon DEF OneRequest, ReceiveFailure, NodeAfter
<1>6. IsRefused'
  BY <1>1, <1>3, <1>4 DEF IsRefused, Free
<1>7. OneRequest'
  BY <1>1, <1>3, <1>5, <1>6 DEF OneRequest
<1>8. CountIsRight' <=> CountIsRight
  BY <1>1 DEF CountIsRight, Pictures
<1>9. ShownRight => ShownRight'
  <2>1. ShownInTime => ShownInTime'
    BY <1>1 DEF ShownInTime, NoPicture, OnePicture, Pictures
  <2>2. KnowsEnds => KnowsEnds'
    BY <1>1 DEF KnowsEnds
  <2> QED BY <1>1, <2>1, <2>2 DEF ShownRight
<1> QED BY <1>7, <1>8, <1>9 DEF Orderly

\* The picture is here.
LEMMA PictureInOrder ==
  ASSUME RecordTypes, Orderly, ReceivePicture
  PROVE  Orderly'
<1>1. /\ stored' = stored /\ window' = window /\ node' = node /\ rows' = rows /\ minId' = minId
      /\ maxId' = maxId /\ endFlag' = endFlag /\ images' = images /\ page' = page /\ queries' = queries
      /\ down' = down /\ receiver' = receiver /\ drawer' = drawer
      /\ asked' = asked /\ undefined' = undefined /\ setting' = setting
      /\ wanted # <<>> /\ wanted' = Tail(wanted)
  BY DEF ReceivePicture, structure
<1>2. OneRequest /\ window = "open" /\ (IsComing \/ IsHere)
  BY <1>1, UnderWay DEF Orderly
<1>3. OneRequest'
  BY <1>1, <1>2, StageKept
<1>4. CountIsRight' <=> CountIsRight
  BY <1>1 DEF CountIsRight, Pictures
<1>5. ASSUME CountIsRight PROVE ShownRight'
  <2>1. ShownInTime /\ KnowsEnds /\ page \in Seq(1 .. stored) /\ asked[2] <= stored
    BY <1>5 DEF Orderly, ShownRight
  <2>2. ~NoPicture
    BY <1>1 DEF NoPicture
  <2>3. OnePicture /\ Len(wanted) = 1 /\ idle = <<>> /\ drawer = None /\ receiver[1] # "picture"
    BY <1>1, <2>1, <2>2 DEF ShownInTime, OnePicture
  <2>4. idle' = <<"picture">>
    <3>1. setting.lost = {}
      BY <1>5 DEF CountIsRight
    <3>2. idle' = Append(idle, "picture")
      BY <3>1 DEF ReceivePicture
    <3> QED BY <2>3, <3>2
  <2>5. wanted' = <<>>
    BY <1>1, <2>3, OneEntry DEF RecordTypes
  <2>6. OnePicture' /\ ~NoPicture'
    BY <1>1, <2>3, <2>4, <2>5 DEF OnePicture, NoPicture, Pictures
  <2>7. ShownInTime'
    BY <1>1, <2>3, <2>6 DEF ShownInTime
  <2>8. KnowsEnds'
    BY <1>1, <2>1 DEF KnowsEnds
  <2> QED BY <1>1, <2>1, <2>7, <2>8 DEF ShownRight
<1> QED BY <1>3, <1>4, <1>5 DEF Orderly

\* The window opens, and asks for its first page.
LEMMA OpenInOrder ==
  ASSUME RecordTypes, Orderly, ChartRecord
  PROVE  Orderly'
<1>1. /\ stored' = stored /\ window = "none" /\ window' = "open" /\ page' = page /\ down' = down
      /\ wanted' = wanted /\ idle' = idle /\ receiver' = receiver /\ drawer' = drawer
      /\ asked' = asked /\ undefined' = undefined /\ setting' = setting
  BY DEF ChartRecord, threads
<1>2. node' = TRUE
  BY Zenon DEF ChartRecord
<1>3. OneRequest /\ NotAsked
  BY <1>1 DEF Orderly, OneRequest, Asked, IsComing, IsHere, IsRefused
<1>4. PICK q : get_record(q)
  BY DEF ChartRecord
<1>5. rows' = <<>> /\ images' = 0 /\ queries' = Append(queries, q)
  BY <1>4 DEF get_record, RowsReset
<1>6. endFlag' = FALSE
  BY <1>4, Zenon DEF get_record
<1>7. queries' # <<>> /\ queries' = <<Head(queries')>>
  <2>1. queries' = <<q>>
    BY <1>3, <1>5 DEF NotAsked
  <2> QED BY <2>1
<1>8. page' = <<>> /\ down' = <<>> /\ wanted' = <<>> /\ idle' = <<>> /\ receiver' = Free /\ drawer' = None
  BY <1>1, <1>3 DEF NotAsked
<1>9. Asked'
  BY <1>1, <1>5, <1>6, <1>7, <1>8 DEF Asked, Asks, Free
<1>10. OneRequest'
  BY <1>1, <1>2, <1>3, <1>9 DEF OneRequest
<1>11. CountIsRight' <=> CountIsRight
  BY <1>1 DEF CountIsRight, Pictures
<1>12. ASSUME CountIsRight PROVE ShownRight'
  <2>1. NoPicture'
    BY <1>5, <1>8 DEF NoPicture
  <2>2. receiver'[1] # "picture"
    BY <1>8 DEF Free
  <2>3. ShownInTime'
    BY <1>6, <1>8, <2>1, <2>2 DEF ShownInTime
  <2>4. KnowsEnds'
    BY <1>5, <1>8 DEF KnowsEnds
  <2>5. page' \in Seq(1 .. stored') /\ asked'[2] <= stored'
    BY <1>1, <1>12 DEF Orderly, ShownRight
  <2> QED BY <2>3, <2>4, <2>5 DEF ShownRight
<1> QED BY <1>10, <1>11, <1>12 DEF Orderly

\* Nothing being on its way, the page is here, or was refused.
LEMMA SettledHere ==
  ASSUME RecordTypes, OneRequest, AllSettled, window = "open"
  PROVE  IsHere \/ IsRefused
<1>1. ~NotAsked /\ ~Asked
  BY DEF NotAsked, Asked, AllSettled
<1>2. ~IsComing
  BY SomethingComes DEF IsComing, AllSettled
<1> QED BY <1>1, <1>2 DEF OneRequest

\* The user who waits turns the page on the screen.
LEMMA TurnInOrder ==
  ASSUME RecordTypes, Orderly, setting.patient, NEW how, NEW q, Turn(how, q),
         how = "up" => q = Query("id", "<", minId),
         how = "next" => q = Query("id", ">", maxId)
  PROVE  Orderly'
<1>1. /\ stored' = stored /\ window = "open" /\ window' = window /\ node' = node /\ page' = page /\ down' = down
      /\ minId' = minId /\ maxId' = maxId
      /\ wanted' = wanted /\ idle' = idle /\ receiver' = receiver /\ drawer' = drawer
      /\ undefined' = undefined /\ setting' = setting /\ asked' = <<how, stored>>
      /\ AllSettled /\ get_record(q)
  BY DEF Turn, threads
<1>2. OneRequest /\ (IsHere \/ IsRefused)
  BY <1>1, SettledHere DEF Orderly
<1>3. rows' = <<>> /\ images' = 0 /\ queries' = Append(queries, q)
  BY <1>1 DEF get_record, RowsReset
<1>4. endFlag' = FALSE
  BY <1>1, Zenon DEF get_record
<1>5. /\ queries = <<>> /\ down = <<>> /\ wanted = <<>> /\ idle = <<>> /\ receiver = Free /\ drawer = None
      /\ endFlag = TRUE \/ rows = <<>>
  BY <1>1, <1>2 DEF AllSettled, IsHere, IsRefused
<1>6. queries' # <<>> /\ queries' = <<Head(queries')>> /\ Head(queries') = q
  <2>1. queries' = <<q>>
    BY <1>3, <1>5
  <2> QED BY <2>1
<1>7. CountIsRight' <=> CountIsRight
  BY <1>1 DEF CountIsRight, Pictures
<1>8. ASSUME CountIsRight, page # <<>> PROVE minId = Head(page) /\ maxId = Last(page)
  <2>1. ShownInTime /\ KnowsEnds
    BY <1>8 DEF Orderly, ShownRight
  <2>2. ~OnePicture
    <3>1. None # 1
      BY ChatRecordAssumption
    <3>2. Len(wanted) = 0
      BY <1>5
    <3> QED BY <1>5, <3>1, <3>2 DEF OnePicture
  <2>3. rows = <<>> \/ page = rows
    <3>1. receiver # <<"flag">>
      BY <1>5 DEF Free
    <3> QED BY <1>5, <2>1, <2>2, <3>1 DEF ShownInTime
  <2> QED BY <1>8, <2>1, <2>3 DEF KnowsEnds
<1>9. CountIsRight => Asks(q)'
  BY <1>1, <1>8 DEF Asks
<1>10. Asked'
  <2>1. CountIsRight' => Asks(Head(queries))'
    BY <1>6, <1>7, <1>9 DEF Asks
  <2> QED BY <1>1, <1>3, <1>4, <1>5, <1>6, <2>1 DEF Asked, Free
<1>11. OneRequest'
  BY <1>1, <1>2, <1>10 DEF OneRequest
<1>12. ASSUME CountIsRight PROVE ShownRight'
  <2>1. NoPicture'
    BY <1>1, <1>3, <1>5 DEF NoPicture
  <2>2. receiver'[1] # "picture"
    BY <1>1, <1>5 DEF Free
  <2>3. ShownInTime'
    BY <1>1, <1>4, <1>5, <2>1, <2>2 DEF ShownInTime
  <2>4. KnowsEnds'
    BY <1>1, <1>3, <1>8, <1>12 DEF KnowsEnds
  <2>5. page' \in Seq(1 .. stored')
    BY <1>1, <1>12 DEF Orderly, ShownRight
  <2>6. asked'[2] <= stored'
    <3>1. stored \in Int
      BY DEF RecordTypes
    <3>2. asked'[2] = stored
      BY <1>1
    <3> QED BY <1>1, <3>1, <3>2
  <2> QED BY <2>3, <2>4, <2>5, <2>6 DEF ShownRight
<1> QED BY <1>7, <1>11, <1>12 DEF Orderly

\* The window is closed when the page is here.
LEMMA CloseInOrder ==
  ASSUME RecordTypes, Orderly, setting.patient, Close
  PROVE  Orderly'
<1>1. /\ stored' = stored /\ window = "open" /\ window' = "closed" /\ rows' = rows
      /\ minId' = minId /\ maxId' = maxId /\ endFlag' = endFlag /\ images' = images /\ page' = page
      /\ queries' = queries /\ down' = down /\ wanted' = wanted
      /\ idle' = idle /\ receiver' = receiver /\ drawer' = drawer /\ asked' = asked
      /\ undefined' = undefined /\ setting' = setting /\ AllSettled
  BY DEF Close, structure, network, threads
<1>2. OneRequest /\ (IsHere \/ IsRefused)
  BY <1>1, SettledHere DEF Orderly
<1>3. Answers' = Answers /\ (CountIsRight' <=> CountIsRight) /\ (Adjoins(rows)' <=> Adjoins(rows))
  BY <1>1 DEF Answers, CountIsRight, Pictures, Adjoins
<1>4. AllSettled'
  BY <1>1 DEF AllSettled, Free
<1>5. IsHere' \/ IsRefused'
  BY <1>1, <1>2, <1>3, <1>4 DEF IsHere, IsRefused, Ascending, Free
<1>6. OneRequest'
  BY <1>1, <1>2, <1>5 DEF OneRequest
<1>7. ShownRight => ShownRight'
  <2>1. ShownInTime => ShownInTime'
    BY <1>1 DEF ShownInTime, NoPicture, OnePicture, Pictures
  <2>2. KnowsEnds => KnowsEnds'
    BY <1>1 DEF KnowsEnds
  <2> QED BY <1>1, <2>1, <2>2 DEF ShownRight
<1> QED BY <1>3, <1>6, <1>7 DEF Orderly

\* The drawing thread hears of the picture: it reads the count.
LEMMA HereInOrder ==
  ASSUME RecordTypes, Orderly, PictureHere
  PROVE  Orderly'
<1>1. /\ stored' = stored /\ window' = window /\ node' = node /\ rows' = rows /\ minId' = minId
      /\ maxId' = maxId /\ endFlag' = endFlag /\ images' = images /\ page' = page /\ queries' = queries
      /\ down' = down /\ wanted' = wanted /\ receiver' = receiver
      /\ asked' = asked /\ undefined' = undefined /\ setting' = setting
      /\ drawer' = images /\ idle # <<>> /\ Head(idle) = "picture" /\ idle' = Tail(idle)
  BY DEF PictureHere, structure, network
<1>2. OneRequest /\ window = "open" /\ (IsComing \/ IsHere)
  BY <1>1, UnderWay DEF Orderly
<1>3. OneRequest'
  BY <1>1, <1>2, StageKept
<1>4. CountIsRight' <=> CountIsRight
  BY <1>1 DEF CountIsRight, Pictures
<1>5. ASSUME CountIsRight PROVE ShownRight'
  <2>1. ShownInTime /\ KnowsEnds /\ page \in Seq(1 .. stored) /\ asked[2] <= stored
    BY <1>5 DEF Orderly, ShownRight
  <2>2. ~NoPicture
    <3>1. idle \in Seq({"picture", "show"})
      BY DEF RecordTypes
    <3>2. Head(idle) = idle[1] /\ 1 \in 1 .. Len(idle)
      BY <1>1, <3>1
    <3> QED BY <1>1, <3>2 DEF NoPicture
  <2>3. OnePicture /\ wanted = <<>> /\ idle = <<"picture">> /\ images = 1 /\ receiver[1] # "picture"
    BY <1>1, <2>1, <2>2 DEF ShownInTime, OnePicture
  <2>4. idle' = <<>> /\ drawer' = 1 /\ wanted' = <<>>
    BY <1>1, <2>3
  <2>5. OnePicture'
    BY <1>1, <2>3, <2>4 DEF OnePicture, Pictures
  <2>6. ~NoPicture'
    BY <1>1, <2>3 DEF NoPicture
  <2>7. ShownInTime'
    BY <1>1, <2>3, <2>5, <2>6 DEF ShownInTime
  <2>8. KnowsEnds'
    BY <1>1, <2>1 DEF KnowsEnds
  <2> QED BY <1>1, <2>1, <2>7, <2>8 DEF ShownRight
<1> QED BY <1>3, <1>4, <1>5 DEF Orderly

\* It counts the picture, and the page can be shown if it is here.
LEMMA CountedInOrder ==
  ASSUME RecordTypes, Orderly, PictureCounted
  PROVE  Orderly'
<1>1. /\ stored' = stored /\ window' = window /\ node' = node /\ rows' = rows /\ minId' = minId
      /\ maxId' = maxId /\ endFlag' = endFlag /\ page' = page /\ queries' = queries
      /\ down' = down /\ wanted' = wanted /\ receiver' = receiver
      /\ asked' = asked /\ undefined' = undefined /\ setting' = setting
      /\ drawer # None /\ drawer' = None /\ images' = drawer - 1
      /\ idle' = IF images' = 0 /\ endFlag THEN Append(idle, "show") ELSE idle
  BY DEF PictureCounted, network
<1>2. OneRequest /\ window = "open" /\ (IsComing \/ IsHere)
  BY <1>1, UnderWay DEF Orderly
<1>3. OneRequest'
  BY <1>1, <1>2, StageKept
<1>4. CountIsRight' <=> CountIsRight
  BY <1>1 DEF CountIsRight, Pictures
<1>5. ASSUME CountIsRight PROVE ShownRight'
  <2>1. ShownInTime /\ KnowsEnds /\ page \in Seq(1 .. stored) /\ asked[2] <= stored
    BY <1>5 DEF Orderly, ShownRight
  <2>2. ~NoPicture
    BY <1>1 DEF NoPicture
  <2>3. OnePicture /\ wanted = <<>> /\ idle = <<>> /\ drawer = 1 /\ receiver[1] # "picture"
    BY <1>1, <2>1, <2>2 DEF ShownInTime, OnePicture
  <2>4. images' = 0
    BY <1>1, <2>3
  <2>5. idle' = IF endFlag THEN <<"show">> ELSE <<>>
    BY <1>1, <2>3, <2>4
  <2>6. NoPicture'
    <3>1. \A i \in 1 .. Len(idle') : idle'[i] = "show"
      BY <2>5
    <3> QED BY <1>1, <2>3, <2>4, <3>1 DEF NoPicture
  <2>7. rows' # <<>>
    <3>1. PICK i \in 1 .. Len(rows) : rows[i] \in Pictures
      BY <2>3 DEF OnePicture
    <3>2. rows # <<>>
      BY <3>1 DEF RecordTypes
    <3> QED BY <1>1, <3>2
  <2>8. endFlag \in BOOLEAN
    BY DEF RecordTypes
  <2>9. ShownInTime'
    BY <1>1, <2>3, <2>5, <2>6, <2>7, <2>8 DEF ShownInTime
  <2>10. KnowsEnds'
    BY <1>1, <2>1 DEF KnowsEnds
  <2> QED BY <1>1, <2>1, <2>9, <2>10 DEF ShownRight
<1> QED BY <1>3, <1>4, <1>5 DEF Orderly

\* What is shown is the page that is here.
LEMMA ShownIsHere ==
  ASSUME RecordTypes, Orderly, CountIsRight, ShowRecord
  PROVE  /\ window = "open" /\ IsHere /\ NoPicture /\ rows # <<>>
         /\ page' = rows /\ maxId' = Last(rows)
<1>1. idle # <<>> /\ Head(idle) = "show" /\ idle \in Seq({"picture", "show"})
  BY DEF ShowRecord, RecordTypes
<1>2. OneRequest /\ window = "open" /\ (IsComing \/ IsHere)
  BY <1>1, UnderWay DEF Orderly
<1>3. ShownInTime
  BY DEF Orderly, ShownRight
<1>4. idle # <<"picture">>
  BY <1>1
<1>5. NoPicture
  BY <1>1, <1>3, <1>4 DEF ShownInTime, OnePicture
<1>6. endFlag = TRUE /\ rows # <<>>
  BY <1>1, <1>3, <1>5 DEF ShownInTime
<1>7. IsHere
  BY <1>2, <1>6 DEF IsComing
<1> QED BY <1>2, <1>5, <1>6, <1>7 DEF ShowRecord

\* The page is shown.
LEMMA ShowInOrder ==
  ASSUME RecordTypes, Orderly, ShowRecord
  PROVE  Orderly'
<1>1. /\ stored' = stored /\ window' = window /\ node' = node /\ rows' = rows /\ minId' = minId
      /\ endFlag' = endFlag /\ images' = images /\ queries' = queries
      /\ down' = down /\ wanted' = wanted /\ receiver' = receiver /\ drawer' = drawer
      /\ asked' = asked /\ setting' = setting
      /\ idle # <<>> /\ Head(idle) = "show" /\ idle' = Tail(idle) /\ idle \in Seq({"picture", "show"})
  BY DEF ShowRecord, network, RecordTypes
<1>2. OneRequest /\ window = "open" /\ (IsComing \/ IsHere)
  BY <1>1, UnderWay DEF Orderly
<1>3. undefined' = undefined /\ page' = rows
  BY <1>2 DEF ShowRecord
<1>4. Answers' = Answers /\ (CountIsRight' <=> CountIsRight)
  BY <1>1 DEF Answers, CountIsRight, Pictures
<1>5. \A s : Coming(s)' <=> Coming(s)
  BY <1>1, <1>4 DEF Coming, Free
<1>6. IsHere => IsHere'
  BY <1>1, <1>2, <1>3, <1>4 DEF IsHere, Ascending, Free
<1>7. OneRequest'
  <2>1. CASE CountIsRight
    <3>1. IsHere
      BY <2>1, ShownIsHere
    <3> QED BY <1>1, <1>2, <1>3, <1>6, <3>1 DEF OneRequest
  <2>2. CASE ~CountIsRight
    <3>1. IsComing => IsComing'
      BY <1>1, <1>4, <1>5, <2>2 DEF IsComing
    <3> QED BY <1>1, <1>2, <1>3, <1>6, <3>1 DEF OneRequest
  <2> QED BY <2>1, <2>2
<1>8. ASSUME CountIsRight PROVE ShownRight'
  <2>1. ShownInTime /\ KnowsEnds /\ page \in Seq(1 .. stored) /\ asked[2] <= stored
    BY <1>8 DEF Orderly, ShownRight
  <2>2. IsHere /\ NoPicture /\ rows # <<>> /\ maxId' = Last(rows)
    BY <1>8, ShownIsHere
  <2>3. endFlag = TRUE /\ rows \in Seq(1 .. stored)
    BY <2>2, AnswerIs DEF IsHere, RecordTypes
  <2>4. NoPicture'
    <3>1. /\ Len(Tail(idle)) \in Nat /\ Len(Tail(idle)) = Len(idle) - 1
          /\ \A i \in 1 .. Len(Tail(idle)) : Tail(idle)[i] = idle[i + 1]
      BY <1>1
    <3>2. \A i \in 1 .. Len(idle) : idle[i] = "show"
      BY <2>2 DEF NoPicture
    <3>3. Len(idle) \in Nat
      BY <1>1
    <3>4. \A i \in 1 .. Len(Tail(idle)) : Tail(idle)[i] = "show"
      BY <3>1, <3>2, <3>3
    <3> QED BY <1>1, <2>2, <3>4 DEF NoPicture
  <2>5. ShownInTime'
    BY <1>1, <1>3, <2>1, <2>2, <2>3, <2>4 DEF ShownInTime
  <2>6. KnowsEnds'
    BY <1>1, <1>3, <2>1, <2>2 DEF KnowsEnds
  <2> QED BY <1>1, <1>3, <2>1, <2>3, <2>5, <2>6 DEF ShownRight
<1> QED BY <1>4, <1>7, <1>8 DEF Orderly

\* Every step keeps the order.
LEMMA RecordInvKept ==
  ASSUME RecordInv, [RecordNext]_recordVars
  PROVE  RecordInv'
<1>1. CASE RecordNext
  <2>1. RecordTypes /\ RecordTypes' /\ setting' = setting
    BY <1>1, RecordTypesKept, SettingKept DEF RecordInv
  <2>2. ASSUME setting.patient PROVE Orderly'
    <3>1. Orderly
      BY <2>2 DEF RecordInv
    <3>2. CASE Post \/ ProcessPacketMessageRecordQuery
      <4>1. ProcessPacketMessageRecordQuery =>
              \/ \E s \in MessageFileQuery(Head(queries)) : down' = down \o Rows(s) \o <<<<"ok">>>>
              \/ down' = Append(down, <<"failure">>)
        BY DEF ProcessPacketMessageRecordQuery
      <4> QED BY <2>1, <3>1, <3>2, <4>1, PostInOrder, AnswerInOrder, RefusalInOrder
    <3>3. CASE ReceiveRow \/ FindImage
      BY <2>1, <3>1, <3>3, RowInOrder, ImageInOrder
    <3>4. CASE ReceiveOK \/ ShowIfComplete \/ ReceiveFailure \/ ReceivePicture
      BY <2>1, <3>1, <3>4, OKInOrder, CompleteInOrder, FailureInOrder, PictureInOrder
    <3>5. CASE ChartRecord \/ Close
      BY <2>1, <2>2, <3>1, <3>5, OpenInOrder, CloseInOrder
    <3>6. CASE NextPage
      BY <2>1, <2>2, <3>1, <3>6, TurnInOrder DEF NextPage
    <3>7. CASE Upward
      BY <2>1, <2>2, <3>1, <3>7, TurnInOrder DEF Upward
    <3>8. CASE CalendarEvent
      <4>1. PICK day : Turn("day", Query("time", ">=", day))
        BY <3>8 DEF CalendarEvent
      <4> QED BY <2>1, <2>2, <3>1, <4>1, TurnInOrder
    <3>9. CASE PictureHere \/ PictureCounted \/ ShowRecord
      BY <2>1, <3>1, <3>9, HereInOrder, CountedInOrder, ShowInOrder
    <3> QED BY <1>1, <3>2, <3>3, <3>4, <3>5, <3>6, <3>7, <3>8, <3>9 DEF RecordNext
  <2> QED BY <2>1, <2>2 DEF RecordInv
<1>2. CASE UNCHANGED recordVars
  <2>1. /\ stored' = stored /\ window' = window /\ node' = node /\ rows' = rows /\ minId' = minId
        /\ maxId' = maxId /\ endFlag' = endFlag /\ images' = images /\ page' = page /\ queries' = queries
        /\ down' = down /\ wanted' = wanted /\ found' = found /\ idle' = idle /\ receiver' = receiver
        /\ drawer' = drawer /\ turns' = turns /\ asked' = asked /\ undefined' = undefined
        /\ setting' = setting
    BY <1>2 DEF recordVars, structure, network, threads
  <2>2. RecordTypes'
    BY <2>1 DEF RecordInv, RecordTypes, Pictures
  <2>3. Answers' = Answers /\ (CountIsRight' <=> CountIsRight) /\ (\A s : Adjoins(s)' <=> Adjoins(s))
    BY <2>1 DEF Answers, CountIsRight, Pictures, Adjoins
  <2>4. \A s : Coming(s)' <=> Coming(s)
    BY <2>1, <2>3 DEF Coming
  <2>5. OneRequest => OneRequest'
    BY <2>1, <2>3, <2>4 DEF OneRequest, NotAsked, Asked, IsComing, IsHere, IsRefused, AllSettled,
                               Asks
  <2>6. ShownRight => ShownRight'
    BY <2>1 DEF ShownRight, ShownInTime, KnowsEnds, NoPicture, OnePicture, Pictures
  <2> QED BY <2>1, <2>2, <2>3, <2>5, <2>6 DEF RecordInv, Orderly
<1> QED BY <1>1, <1>2

\* A behaviour begins in order.
LEMMA RecordInvFirst ==
  ASSUME RecordInit
  PROVE  RecordInv
<1>1. Len(Times) \in Nat /\ MaxTurns \in Nat /\ Slots \in Nat /\ None \notin Int
  BY ChatRecordAssumption
<1>2. node = FALSE /\ endFlag = FALSE /\ undefined = FALSE
  BY Zenon DEF RecordInit
<1>3. node \in BOOLEAN /\ endFlag \in BOOLEAN /\ undefined \in BOOLEAN
  BY <1>2, Zenon
<1>4. RecordTypes
  BY <1>1, <1>3 DEF RecordInit, RecordTypes, Pictures, Free
<1>5. NotAsked
  BY <1>2 DEF RecordInit, NotAsked, Free
<1>6. OneRequest
  BY <1>2, <1>5 DEF RecordInit, OneRequest
<1>7. ShownRight
  <2>1. NoPicture /\ KnowsEnds
    BY DEF RecordInit, NoPicture, KnowsEnds
  <2>2. ShownInTime
    BY <1>2, <2>1 DEF RecordInit, ShownInTime, Free
  <2>3. page \in Seq(1 .. stored) /\ asked[2] <= stored
    BY <1>1 DEF RecordInit
  <2> QED BY <2>1, <2>2, <2>3 DEF ShownRight
<1> QED BY <1>4, <1>6, <1>7 DEF RecordInv, Orderly

\* The invariant holds in every state of every behaviour.
LEMMA RecordInvAlways ==
  RecordSpec => []RecordInv
BY RecordInvFirst, RecordInvKept, PTL DEF RecordSpec

\* The types, and with them: a user who waits for each page never has more rows than
\* a page in the array, and no page is shown in a window that is gone.
THEOREM RecordTypeCorrect ==
  RecordSpec => []RecordTypeOK
<1>1. ASSUME RecordInv PROVE RecordTypeOK
  <2>1. RecordTypes /\ stored \in 0 .. Len(Times) /\ Slots \in Nat /\ PageRows \in Nat
    BY <1>1, ChatRecordAssumption DEF RecordInv, RecordTypes
  <2>2. ASSUME setting.patient PROVE ~undefined /\ Len(rows) <= PageRows
    <3>1. OneRequest
      BY <1>1, <2>2 DEF RecordInv, Orderly
    <3>2. CASE NotAsked \/ Asked \/ IsRefused
      <4>1. rows = <<>>
        BY <3>2 DEF NotAsked, Asked, IsRefused
      <4> QED BY <2>1, <3>1, <4>1 DEF OneRequest
    <3>3. CASE IsComing
      <4>1. PICK s \in Answers : Len(rows) <= Len(s)
        BY <3>3 DEF IsComing, Coming
      <4>2. Len(s) <= PageRows /\ Len(s) \in Nat /\ Len(rows) \in Nat
        BY <2>1, AnswerIs DEF RecordTypes
      <4> QED BY <2>1, <3>1, <4>1, <4>2 DEF OneRequest
    <3>4. CASE IsHere
      <4>1. Len(rows) <= PageRows
        BY <2>1, <3>4, AnswerIs DEF IsHere
      <4> QED BY <3>1, <4>1 DEF OneRequest
    <3> QED BY <3>1, <3>2, <3>3, <3>4 DEF OneRequest
  <2> QED BY <2>1, <2>2 DEF RecordTypes, RecordTypeOK
<1> QED BY <1>1, RecordInvAlways, PTL

\* Only a page that is shown changes what is on the screen.
LEMMA OnlyShown ==
  ASSUME RecordNext, page' # page
  PROVE  ShowRecord
<1>1. ~Post /\ ~ProcessPacketMessageRecordQuery
  BY DEF Post, ProcessPacketMessageRecordQuery
<1>2. ~ReceiveRow /\ ~FindImage /\ ~ReceiveOK /\ ~ShowIfComplete /\ ~ReceiveFailure /\ ~ReceivePicture
  BY DEF ReceiveRow, FindImage, ReceiveOK, ShowIfComplete, ReceiveFailure, ReceivePicture, structure
<1>3. ~ChartRecord /\ ~Close
  BY DEF ChartRecord, Close
<1>4. ~NextPage /\ ~Upward /\ ~CalendarEvent
  BY DEF NextPage, Upward, CalendarEvent, Turn
<1>5. ~PictureHere /\ ~PictureCounted
  BY DEF PictureHere, PictureCounted
<1> QED BY <1>1, <1>2, <1>3, <1>4, <1>5 DEF RecordNext

\* Turning pages, one at a time, misses nothing and repeats nothing, however long the
\* record and the pages are and whatever is written meanwhile.
THEOREM PagesAdjoinAlways ==
  RecordSpec => PagesAdjoin
<1>1. ASSUME RecordInv, [RecordNext]_recordVars,
             page' # page, page # <<>>, setting.patient, CountIsRight
      PROVE  /\ (asked[1] = "up") => /\ Contiguous(page') /\ Last(page') = Head(page) - 1
                                     /\ (Len(page') = PageRows \/ Head(page') = 1)
             /\ (asked[1] = "next") => /\ Contiguous(page') /\ Head(page') = Last(page) + 1
                                       /\ (Len(page') = PageRows \/ Last(page') >= asked[2])
  <2>1. ShowRecord
    BY <1>1, OnlyShown DEF recordVars
  <2>2. IsHere /\ rows # <<>> /\ page' = rows
    BY <1>1, <2>1, ShownIsHere DEF RecordInv
  <2>3. Adjoins(rows)
    BY <1>1, <2>2 DEF IsHere
  <2> QED BY <1>1, <2>2, <2>3 DEF Adjoins
<1>2. RecordInv /\ [RecordNext]_recordVars =>
        [(page' # page /\ page # <<>> /\ setting.patient /\ CountIsRight) =>
           /\ (asked[1] = "up") => /\ Contiguous(page') /\ Last(page') = Head(page) - 1
                                  /\ (Len(page') = PageRows \/ Head(page') = 1)
           /\ (asked[1] = "next") => /\ Contiguous(page') /\ Head(page') = Last(page) + 1
                                    /\ (Len(page') = PageRows \/ Last(page') >= asked[2])]_recordVars
  BY <1>1
<1> QED BY <1>2, RecordInvAlways, PTL DEF RecordSpec, PagesAdjoin
=============================================================================
