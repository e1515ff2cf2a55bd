--------------------------- MODULE MessageDelivery ---------------------------
(***************************************************************************)
(* How a message gets from one user to another: kept in both users'        *)
(* message files (PostMessage in run/user.c, imcommon/message.c), sent to  *)
(* the receiver if it is online, and sent after its next login if it is    *)
(* not (message/QueryOffline.c), as far as the time of its last logout     *)
(* tells the two apart (OnlineUserDelete, datafile/user.c).                *)
(*                                                                         *)
(* The server has one worker, as configured, so packets are processed one  *)
(* after the other.  Between the steps of PostMessage the console can kick *)
(* a user, the clock can pass to the next second and the server can die.   *)
(*                                                                         *)
(* mishaps is a history variable: whether something has happened to an     *)
(* account that can cost it a message ("loss", or "overflow" of a query)   *)
(* or the order of its messages ("order").  The properties say that        *)
(* nothing else can.  Messages the server posts itself (friend requests),  *)
(* queries of old records and the client's blacklist are left out.         *)
(*                                                                         *)
(* Either file can fail to take a message: it is not there or cannot be    *)
(* opened (Normal.c does not ask whether the receiver's account exists),   *)
(* or SQLite refuses the row.  PostMessage goes on either way.  unwritten  *)
(* is a history variable too: which files failed to take which messages.   *)
(***************************************************************************)
EXTENDS Integers, FiniteSets, Line

CONSTANTS Uids,         \* accounts
          Limit,        \* rows MessageFileQuery returns at most; 20 in message.c:206
          MaxMessages,  \* bound: messages ever posted
          MaxTime,      \* bound: seconds the clock runs
          MaxUnwritten  \* bound: messages that files fail to take

ASSUME DeliveryAssumption ==
  /\ Limit \in Nat \ {0}
  /\ MaxMessages \in Nat /\ MaxTime \in Nat /\ MaxUnwritten \in Nat

VARIABLES clock,       \* time(), in seconds
          msgs,        \* every message posted: from, to, time; its number is its row id
          box,         \* the messages in each account's message file
          unwritten,   \* history: <<m, u>> when the file of u has failed to take m
          lastlogout,  \* info->lastlogout in each account's info file
          online,      \* accounts in OnlineUserTable
          kicking,     \* accounts CLIKick has taken from the table, logout time not yet saved
          posting,     \* the call of PostMessage in progress: message and next step
          client,      \* each account's client: "off", "loading" until its first query
                       \* is sent, "asked" until the query is answered, "served"
          wire,        \* packets on their way to the client
          shown,       \* messages each user has been shown
          mishaps      \* history, see above

vars == <<clock, msgs, box, unwritten, lastlogout, online, kicking, posting, client, wire, shown, mishaps>>

Ids == 1 .. MaxMessages
Mishaps == {"loss", "overflow", "order"}
Idle == [msg |-> 0, step |-> "idle"]

To(m) == msgs[m].to
Mark(u, S) == mishaps' = [mishaps EXCEPT ![u] = @ \union S]

-----------------------------------------------------------------------------

Init ==
  /\ clock = 0
  /\ msgs = <<>>
  /\ box = [u \in Uids |-> {}]
  /\ unwritten = {}
  /\ lastlogout = [u \in Uids |-> 0]
  /\ online = {}
  /\ kicking = {}
  /\ posting = Idle
  /\ client = [u \in Uids |-> "off"]
  /\ wire = [u \in Uids |-> <<>>]
  /\ shown = [u \in Uids |-> {}]
  /\ mishaps = [u \in Uids |-> {}]

Tick ==
  /\ clock < MaxTime
  /\ clock' = clock + 1
  /\ UNCHANGED <<msgs, box, unwritten, lastlogout, online, kicking, posting, client, wire, shown, mishaps>>

\* What is on its way to a client that goes away is never read; if the client had
\* not been served, the end of its session ends its claim to older messages.
LeftBehind(u) ==
  IF wire[u] # <<>> \/ client[u] \in {"loading", "asked"} THEN {"loss"} ELSE {}

(* The worker: sessions. *)

\* Login: a present session of the account is deleted first, by OnlineUserDelete.
Login(u) ==
  /\ posting = Idle
  /\ online' = online \union {u}
  /\ lastlogout' = IF u \in online THEN [lastlogout EXCEPT ![u] = clock] ELSE lastlogout
  /\ client' = [client EXCEPT ![u] = "loading"]
  /\ wire' = [wire EXCEPT ![u] = <<>>]
  /\ Mark(u, LeftBehind(u))
  /\ UNCHANGED <<clock, msgs, box, unwritten, kicking, posting, shown>>

\* Mutant: a user is deleted whose client is still there.
OnlineUserDeleteAlive(u) ==
  /\ posting = Idle
  /\ u \in online
  /\ online' = online \ {u}
  /\ lastlogout' = [lastlogout EXCEPT ![u] = clock]
  /\ UNCHANGED <<clock, msgs, box, unwritten, kicking, posting, client, wire, shown, mishaps>>

\* CRPRecv finds that the client is gone: OnlineUserDelete.
OnlineUserDelete(u) ==
  /\ posting = Idle
  /\ u \in online /\ client[u] = "off"
  /\ online' = online \ {u}
  /\ lastlogout' = [lastlogout EXCEPT ![u] = clock]
  /\ UNCHANGED <<clock, msgs, box, unwritten, kicking, posting, client, wire, shown, mishaps>>

(* The worker: a message of u to v, and the calls of PostMessage. *)

ProcessPacketMessageNormal(u, v) ==
  /\ posting = Idle
  /\ u # v /\ u \in online /\ client[u] # "off"
  /\ Len(msgs) < MaxMessages
  /\ msgs' = Append(msgs, [from |-> u, to |-> v, time |-> clock])
  /\ posting' = [msg |-> Len(msgs) + 1, step |-> "to"]
  /\ Mark(v, IF clock <= lastlogout[v] THEN {"loss"} ELSE {})
  /\ UNCHANGED <<clock, box, unwritten, lastlogout, online, kicking, client, wire, shown>>

\* MessageFileInsert, in the file of u, which is the receiver's or the sender's.
InsertInto(u, next) ==
  /\ box' = [box EXCEPT ![u] = @ \union {posting.msg}]
  /\ posting' = [posting EXCEPT !.step = next]
  /\ UNCHANGED <<clock, msgs, unwritten, lastlogout, online, kicking, client, wire, shown, mishaps>>

\* UserMessageFileGet returns NULL, or MessageFileInsert fails, which nobody looks at.
NotInserted(u, next) ==
  /\ Cardinality(unwritten) < MaxUnwritten
  /\ unwritten' = unwritten \union {<<posting.msg, u>>}
  /\ posting' = [posting EXCEPT !.step = next]
  /\ UNCHANGED <<clock, msgs, box, lastlogout, online, kicking, client, wire, shown, mishaps>>

PostInto(u, next) == InsertInto(u, next) \/ NotInserted(u, next)

\* Mutant: the sender's file comes first.
PostToReceiverLate ==
  \/ posting.step = "to" /\ PostInto(msgs[posting.msg].from, "from")
  \/ posting.step = "from" /\ PostInto(To(posting.msg), "send")

PostToReceiver == posting.step = "to" /\ PostInto(To(posting.msg), "from")

PostToSender == posting.step = "from" /\ PostInto(msgs[posting.msg].from, "send")

\* OnlineUserGet(to), CRPMessageNormalSend.  If the client is gone, so is the packet.
PostToClient ==
  /\ posting.step = "send"
  /\ LET v == To(posting.msg) IN
       /\ wire' = IF v \in online /\ client[v] # "off"
                    THEN [wire EXCEPT ![v] = Append(@, posting.msg)] ELSE wire
       /\ Mark(v, IF v \notin online THEN {}
                  ELSE IF client[v] = "off" THEN {"loss"}
                  ELSE IF client[v] # "served" THEN {"order"} ELSE {})
  /\ posting' = Idle
  /\ UNCHANGED <<clock, msgs, box, unwritten, lastlogout, online, kicking, client, shown>>

(* The worker: the query for messages that came while the user was offline. *)

\* Mutant: the messages of the second of the logout are among them.
UnseenFrom(u) == {m \in box[u] : To(m) = u /\ msgs[m].time >= lastlogout[u]}

\* Messages to u later than its last logout.
Unseen(u) == {m \in box[u] : To(m) = u /\ msgs[m].time > lastlogout[u]}

\* The order of time, and of insertion within a second: the order of the row ids.
InOrder(S) == Without([m \in 1 .. Len(msgs) |-> IF m \in S THEN m ELSE 0], 0)

\* Mutant: the query stops one row early.
FirstFew(S) == IF S = {} THEN <<>> ELSE SubSeq(InOrder(S), 1, Limit - 1)

\* ORDER BY `time` ASC LIMIT.
FirstRows(S) ==
  LET rows == InOrder(S) IN IF Len(rows) > Limit THEN SubSeq(rows, 1, Limit) ELSE rows

ProcessPacketMessageQueryOffline(u) ==
  /\ posting = Idle
  /\ u \in online /\ client[u] = "asked"
  /\ wire' = [wire EXCEPT ![u] = @ \o FirstRows(Unseen(u))]
  /\ client' = [client EXCEPT ![u] = "served"]
  /\ Mark(u, IF Len(InOrder(Unseen(u))) > Limit THEN {"overflow"} ELSE {})
  /\ UNCHANGED <<clock, msgs, box, unwritten, lastlogout, online, kicking, posting, shown>>

(* The console. *)

\* "kick": the account leaves the table first ...
CLIKick(u) ==
  /\ kicking = {}
  /\ u \in online
  /\ online' = online \ {u}
  /\ kicking' = {u}
  /\ client' = [client EXCEPT ![u] = "off"]
  /\ wire' = [wire EXCEPT ![u] = <<>>]
  /\ Mark(u, {"loss", "order"})
  /\ UNCHANGED <<clock, msgs, box, unwritten, lastlogout, posting, shown>>

\* ... and the time of its logout is saved when nobody holds the record any more.
CLIKickSave(u) ==
  /\ u \in kicking
  /\ kicking' = {}
  /\ lastlogout' = [lastlogout EXCEPT ![u] = clock]
  /\ UNCHANGED <<clock, msgs, box, unwritten, online, posting, client, wire, shown, mishaps>>

(* The client. *)

\* The client has loaded friends and icons: it registers servemessage and asks.
QueryOfflineSend(u) ==
  /\ client[u] = "loading"
  /\ client' = [client EXCEPT ![u] = "asked"]
  /\ UNCHANGED <<clock, msgs, box, unwritten, lastlogout, online, kicking, posting, wire, shown, mishaps>>

\* A packet.  While the client loads, it ignores messages.
ServeMessage(u) ==
  /\ wire[u] # <<>>
  /\ wire' = [wire EXCEPT ![u] = Tail(@)]
  /\ shown' = IF client[u] = "loading" THEN shown
                                      ELSE [shown EXCEPT ![u] = @ \union {Head(wire[u])}]
  /\ UNCHANGED <<clock, msgs, box, unwritten, lastlogout, online, kicking, posting, client, mishaps>>

\* The user quits, or the client or its network dies: it says nothing to the server.
Quit(u) ==
  /\ client[u] # "off"
  /\ client' = [client EXCEPT ![u] = "off"]
  /\ wire' = [wire EXCEPT ![u] = <<>>]
  /\ Mark(u, LeftBehind(u))
  /\ UNCHANGED <<clock, msgs, box, unwritten, lastlogout, online, kicking, posting, shown>>

\* The server dies.  Files keep what was written, clients give up.
Crash ==
  /\ online' = {}
  /\ kicking' = {}
  /\ posting' = Idle
  /\ client' = [u \in Uids |-> "off"]
  /\ wire' = [u \in Uids |-> <<>>]
  /\ mishaps' = [u \in Uids |-> mishaps[u] \union {"order"}]
  /\ UNCHANGED <<clock, msgs, box, unwritten, lastlogout, shown>>

-----------------------------------------------------------------------------

Next ==
  \/ Tick
  \/ PostToReceiver \/ PostToSender \/ PostToClient
  \/ Crash
  \/ \E u \in Uids :
       \/ Login(u) \/ OnlineUserDelete(u)
       \/ ProcessPacketMessageQueryOffline(u)
       \/ CLIKick(u) \/ CLIKickSave(u)
       \/ QueryOfflineSend(u) \/ ServeMessage(u) \/ Quit(u)
       \/ \E v \in Uids : ProcessPacketMessageNormal(u, v)

Spec == Init /\ [][Next]_vars

-----------------------------------------------------------------------------

Message == [from : Uids, to : Uids, time : 0 .. MaxTime]

\* The types; one post at a time, and a client that was told messages is online.
TypeOK ==
  /\ clock \in 0 .. MaxTime
  /\ msgs \in Seq(Message) /\ Len(msgs) <= MaxMessages
  /\ box \in [Uids -> SUBSET (1 .. Len(msgs))]
  /\ unwritten \subseteq (1 .. Len(msgs)) \X Uids
  /\ lastlogout \in [Uids -> 0 .. MaxTime]
  /\ online \subseteq Uids
  /\ kicking \subseteq Uids
  /\ posting \in {Idle} \union [msg : 1 .. Len(msgs), step : {"to", "from", "send"}]
  /\ client \in [Uids -> {"off", "loading", "asked", "served"}]
  /\ \A u \in Uids : client[u] # "off" => u \in online
  /\ wire \in [Uids -> Seq(1 .. Len(msgs))]
  /\ shown \in [Uids -> SUBSET (1 .. Len(msgs))]
  /\ mishaps \in [Uids -> SUBSET Mishaps]

\* The client has been served and has read everything.
Settled(u) ==
  /\ client[u] = "served" /\ wire[u] = <<>>
  /\ posting # Idle => To(posting.msg) # u

Posted(u) == {m \in DOMAIN msgs : To(m) = u}

\* "Won't be lost" (ClientSockfd.c:216): a user who has logged in and been served
\* has been shown every message to it that is on record, whatever sessions, queries
\* and deaths of the server lie between, unless
\*   - a message was posted in the second of the user's last logout,
\*   - its client went away with packets unread, or before it was served,
\*   - a message was sent to a client that had gone unnoticed,
\*   - the console has kicked it, or
\*   - a query had more than Limit rows to return.
NothingMissed ==
  \A u \in Uids : Settled(u) /\ mishaps[u] \intersect {"loss", "overflow"} = {}
                    => Posted(u) \intersect box[u] \subseteq shown[u]

\* Messages are shown once each and in the order of posting, over all sessions of an
\* account: what is on its way is in order and newer than all that has been shown,
\* unless a message came between a login and the answer to its query, the server
\* died before it saved a logout, or the console's kick saved it late.
ShownInOrderOnce ==
  \A u \in Uids : "order" \notin mishaps[u] =>
    \A i \in DOMAIN wire[u] : /\ \A n \in shown[u] : n < wire[u][i]
                              /\ \A j \in 1 .. i - 1 : wire[u][j] < wire[u][i]

\* The file of u has taken m, or has failed to.
Tried(u, m) == m \in box[u] \/ <<m, u>> \in unwritten

\* What a sender finds in its own record the receiver has on record too, even if the
\* server dies inside PostMessage, unless the receiver's file failed to take it; and
\* with the same exception nobody is shown what it has not on record.
SentIsOnRecord ==
  /\ \A m \in DOMAIN msgs : m \in box[msgs[m].from] => Tried(To(m), m)
  /\ \A u \in Uids : \A m \in shown[u] : Tried(u, m)
=============================================================================
