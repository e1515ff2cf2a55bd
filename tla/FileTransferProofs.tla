------------------------- MODULE FileTransferProofs -------------------------
(***************************************************************************)
(* Theorems about FileTransfer, for any accounts, files, numbers of pages, *)
(* sessions and logins, with and without a server that runs out of space.  *)
(***************************************************************************)
EXTENDS FileTransfer, LineProofs, FiniteSetTheorems, TLAPS

-----------------------------------------------------------------------------
(* The invariant.                                                          *)

\* A packet of session s.
Of(p, s) == "session" \in DOMAIN p /\ p.session = s

\* The packets of session s in a channel, and that there is one of them at most.
Among(c, s) == {c[i] : i \in {j \in 1 .. Len(c) : Of(c[j], s)}}
AtMostOne(c, s) == \A i, j \in 1 .. Len(c) : Of(c[i], s) /\ Of(c[j], s) => i = j

\* The operations of session s in a list, and that there is one of them at most.
OpsOf(o, s) == {o[i] : i \in {j \in 1 .. Len(o) : o[j].session = s}}
OneEach(o) == \A i, j \in 1 .. Len(o) : o[i].session = o[j].session => i = j

\* What has come of file k, in the order of its pages: nothing is missing but what write
\* has not taken.
Prefix(d, k) == /\ d \in Contents /\ Len(d) <= Pages[k]
                /\ \A i \in 1 .. Len(d) : d[i] = i \/ (d[i] = 0 /\ <<"short", k>> \in mishaps)
Complete(d, k) == Prefix(d, k) /\ Len(d) = Pages[k]

ServerPackets ==
  {Closed} \union {InfoRequest(f) : f \in Users} \union {NewIcon(k) : k \in Keys}
  \union {FileMessage(v, k) : v \in Users, k \in Keys}
  \union {FileStoreRequest(s, k) : s \in Sessions, k \in Keys}
  \union {FileRequest(s, k) : s \in Sessions, k \in Keys}
  \union {FileData(s, n, n + 1) : s \in Sessions, n \in Nat}
  \union {FileDataEnd(s, "ok") : s \in Sessions} \union {OK(s) : s \in Sessions}

ClientPackets ==
  {Closed} \union {InfoReply(f, k) : f \in Users, k \in Keys}
  \union {FileDataStart(s) : s \in Sessions}
  \union {FileData(s, n, p) : s \in Sessions, n \in Nat, p \in Nat}
  \union {FileDataEnd(s, c) : s \in Sessions, c \in {"ok", "exists", "canceled"}}
  \union {OK(s) : s \in Sessions} \union {Failure(s) : s \in Sessions}

\* The operations of a list.
OpFits(op) ==
  /\ op \in Operations
  /\ op.type = "store" => Prefix(op.data, op.key) /\ op.left = Pages[op.key] - Len(op.data)
  /\ op.type = "request" => Complete(op.data, op.key) /\ op.left <= Len(op.data)

OpList(o) == o \in Seq(Operations) /\ OneEach(o)
OpsFit(o) == OpList(o) /\ \A i \in 1 .. Len(o) : OpFits(o[i])

IsUpload(n) == n # Absent /\ n.kind \in {"file", "photo"}
IsDownload(n) == n # Absent /\ n.kind \in Downloads
IsIcon(n) == n # Absent /\ n.kind \in {"login", "image"}

\* The node of session s in a client's table.
NodeFits(n, s, ph, st) ==
  n # Absent =>
    /\ n \in Entries /\ ph # "out"
    /\ n.kind \in {"login", "loaded"} => s \in Users /\ ph = "login"
    /\ n.kind \notin {"login", "loaded"} => s \in 1 .. st
    /\ n.kind \in {"login", "image", "loaded"} => Stored(n.key)

ClientFits(n, ph, st) ==
  /\ n \in [Sessions -> Entries \union {Absent}]
  /\ ph # "main" => st = 0
  /\ \A s \in Sessions : NodeFits(n[s], s, ph, st)

-----------------------------------------------------------------------------
(* A session, whose packet is at the server, at the client, or nowhere.  n is the   *)
(* node, O the operations of the session.  A client that is out knows nothing.      *)

Known(s, st) == s \in Users \union 1 .. st

PacketAtServer(u, p, s, n, O, ph, st) ==
  \/ /\ p = InfoRequest(s) /\ s \in Users /\ O = {}
     /\ ph # "out" => ph = "login" /\ n = Absent
  \/ /\ \E k \in Keys : p = FileRequest(s, k)
     /\ O = {}
     /\ ph # "out" => IsDownload(n) /\ n.key = p.key /\ n.data = <<>>
  \/ /\ \E k \in Keys : p = FileStoreRequest(s, k)
     /\ O = {}
     /\ ph # "out" => IsUpload(n) /\ n.key = p.key /\ n.open /\ n.seq = 0
  \/ \E op \in O :
       /\ p = FileData(s, Len(op.data), Len(op.data) + 1)
       /\ op.type = "store"
       /\ ph # "out" => IsUpload(n) /\ n.key = op.key /\ n.open /\ n.seq = Len(op.data) + 1
  \/ \E op \in O :
       /\ p = FileDataEnd(s, "ok") /\ op.type = "store"
       /\ ph # "out" => \/ n = Absent /\ s \notin Users
                        \/ IsUpload(n) /\ n.key = op.key /\ ~n.open
  \/ \E op \in O :
       /\ p = OK(s) /\ op.type = "request"
       /\ ph # "out" => /\ IsDownload(n) /\ n.key = op.key
                        /\ n.data = SubSeq(op.data, 1, Len(op.data) - op.left)

PacketAtClient(u, p, s, n, O, ph, st) ==
  \/ /\ \E k \in Keys : p = InfoReply(s, k) /\ Stored(k)
     /\ s \in Users /\ O = {} /\ ph = "login" /\ n = Absent
  \/ \E op \in O :
       /\ p = FileDataStart(s) /\ op.type = "request"
       /\ IsDownload(n) /\ n.key = op.key /\ n.data = <<>> /\ op.left = Len(op.data)
  \/ \E op \in O :
       /\ p.type = "FileData" /\ op.type = "request"
       /\ IsDownload(n) /\ n.key = op.key
       /\ Append(n.data, p.page) = SubSeq(op.data, 1, Len(op.data) - op.left)
  \/ p = FileDataEnd(s, "ok") /\ O = {} /\ IsDownload(n)
  \/ p = FileDataEnd(s, "exists") /\ O = {} /\ IsUpload(n) /\ n.open /\ Stored(n.key)
  \/ /\ p = OK(s)
     /\ \/ \E op \in O : /\ op.type = "store" /\ IsUpload(n) /\ n.key = op.key
                         /\ n.open /\ n.seq = Len(op.data)
        \/ O = {} /\ IsUpload(n) /\ ~n.open /\ Stored(n.key)
        \/ O = {} /\ n = Absent /\ s \notin Users
  \/ /\ p = Failure(s)
     /\ \/ O = {} /\ n = Absent /\ (s \in Users => <<"refused", u>> \in mishaps)
        \/ IsUpload(n) /\ (~n.open => O = {})
        \/ O = {} /\ IsDownload(n) /\ (IsIcon(n) => <<"refused", u>> \in mishaps)

\* Nothing is on its way, and nobody waits for it.
AtRest(u, s, n, O, ph, st) ==
  \/ /\ n = Absent
     /\ s \in Users => /\ O = {}
                       /\ ph = "login" /\ s \in Range(Roster[u]) => <<"refused", u>> \in mishaps
     /\ s \notin Users /\ s > st => O = {}
  \/ n # Absent /\ n.kind = "loaded" /\ O = {}
  \/ IsIcon(n) /\ O = {} /\ <<"refused", u>> \in mishaps

Flow(u, s, S, C, n, O, ph, st) ==
  \/ S = {} /\ C = {} /\ (ph # "out" => AtRest(u, s, n, O, ph, st))
  \/ /\ C = {} /\ \E p \in S : S = {p} /\ PacketAtServer(u, p, s, n, O, ph, st)
     /\ ph # "out" => Known(s, st)
  \/ /\ S = {} /\ \E p \in C : C = {p} /\ PacketAtClient(u, p, s, n, O, ph, st)
     /\ ph # "out" /\ Known(s, st)

\* What the server answers to packets that are on their way, as long as it serves u.
Served(u, ts, tc, o, n, ph, st) ==
  /\ \A s \in Sessions : /\ AtMostOne(ts, s) /\ AtMostOne(tc, s)
                         /\ Flow(u, s, Among(ts, s), Among(tc, s), n[s], OpsOf(o, s), ph, st)
  /\ ph # "out" => /\ \A i \in 1 .. Len(ts) : ts[i] # Closed
                   /\ \A i \in 1 .. Len(tc) : tc[i] # Closed

\* Information, or that there is none, comes before anything else.
Early(p) == p.type \in {"InfoData", "Failure"}

InfoFirst(ts, tc) ==
  /\ \A i \in 1 .. Len(ts) : ts[i].type = "InfoRequest" =>
       /\ \A j \in 1 .. i : ts[j].type = "InfoRequest"
       /\ \A j \in 1 .. Len(tc) : Early(tc[j])
  /\ \A i \in 1 .. Len(tc) : tc[i].type = "InfoData" => \A j \in 1 .. i : Early(tc[j])

\* What a client announces is stored, or will be when the packets before have been
\* processed.
Promised(ts, o) ==
  \A i \in 1 .. Len(ts) :
    /\ ts[i].type = "InfoData" => Stored(ts[i].key)
    /\ ts[i].type = "MessageNormal" =>
         \/ Stored(ts[i].key) \/ <<"failed", ts[i].key>> \in mishaps
         \/ \E j \in 1 .. i - 1 : /\ ts[j].type = "FileDataEnd"
                                  /\ \E op \in OpsOf(o, ts[j].session) :
                                       op.type = "store" /\ op.key = ts[i].key

\* Icons that the client hears of are stored; when a download ends well, all of it has
\* been received.
Delivered(tc, n, st) ==
  \A i \in 1 .. Len(tc) :
    /\ "session" \in DOMAIN tc[i] => Known(tc[i].session, st)
    /\ tc[i].type = "InfoData" => Stored(tc[i].key)
    /\ tc[i].type = "FileDataEnd" /\ tc[i].code = "ok" =>
         /\ \A j \in 1 .. i - 1 : ~Of(tc[j], tc[i].session)
         /\ n[tc[i].session] # Absent => /\ IsDownload(n[tc[i].session])
                                         /\ Complete(n[tc[i].session].data, n[tc[i].session].key)

UserFits(u, S, ts, tc, o, n, ph, st) ==
  /\ ts \in Seq(ServerPackets) /\ tc \in Seq(ClientPackets)
  /\ OpsFit(o) /\ ClientFits(n, ph, st)
  /\ u \notin S => ts = <<>> /\ o = <<>>
  /\ ph = "out" => tc = <<>>
  /\ u \in S => Served(u, ts, tc, o, n, ph, st) /\ InfoFirst(ts, tc)
  /\ Promised(ts, o) /\ Delivered(tc, n, st)

\* What the server has of files, and what its users have heard of.
FilesFit ==
  /\ files \in [Keys -> Contents \union {Absent}]
  /\ \A k \in Keys : Stored(k) => Complete(files[k], k)
  /\ icon \in [Users -> Keys] /\ \A u \in Users : Stored(icon[u])
  /\ mail \in [Users -> SUBSET Keys]
  /\ \A u \in Users : \A k \in mail[u] : Stored(k) \/ <<"failed", k>> \in mishaps
  /\ mishaps \subseteq {"short", "failed"} \X Keys \union {"refused"} \X Users

\* The rest of the state.
StateFits ==
  /\ serving \subseteq Users
  /\ ops \in [Users -> Seq(Operations)]
  /\ toServer \in [Users -> Seq(ServerPackets)] /\ toClient \in [Users -> Seq(ClientPackets)]
  /\ phase \in [Users -> {"out", "login", "main"}]
  /\ nodes \in [Users -> [Sessions -> Entries \union {Absent}]]
  /\ logins \in 0 .. MaxLogins
  /\ started \in [Users -> 0 .. MaxSessions]
  /\ cached \in [Users -> SUBSET Keys]

Fits(u) == UserFits(u, serving, toServer[u], toClient[u], ops[u], nodes[u], phase[u], started[u])

TransferInv == FilesFit /\ StateFits /\ \A u \in Users : Fits(u)

-----------------------------------------------------------------------------
(* Packets.                                                                *)

Channels == ServerPackets \union ClientPackets

\* The session of a packet, and its type.
LEMMA PacketOf ==
  /\ \A f, s : Of(InfoRequest(f), s) <=> f = s
  /\ \A f, k, s : Of(InfoReply(f, k), s) <=> f = s
  /\ \A k, s : ~Of(NewIcon(k), s)
  /\ \A v, k, s : ~Of(FileMessage(v, k), s)
  /\ \A f, k, s : Of(FileStoreRequest(f, k), s) <=> f = s
  /\ \A f, k, s : Of(FileRequest(f, k), s) <=> f = s
  /\ \A f, s : Of(FileDataStart(f), s) <=> f = s
  /\ \A f, a, b, s : Of(FileData(f, a, b), s) <=> f = s
  /\ \A f, c, s : Of(FileDataEnd(f, c), s) <=> f = s
  /\ \A f, s : Of(OK(f), s) <=> f = s
  /\ \A f, s : Of(Failure(f), s) <=> f = s
  /\ \A s : ~Of(Closed, s)
BY DEF Of, InfoRequest, InfoReply, NewIcon, FileMessage, FileStoreRequest, FileRequest, FileDataStart,
       FileData, FileDataEnd, OK, Failure, Closed

\* The type of a packet.
LEMMA PacketType ==
  /\ \A f : InfoRequest(f).type = "InfoRequest"
  /\ \A f, k : InfoReply(f, k).type = "InfoData"
  /\ \A k : NewIcon(k).type = "InfoData"
  /\ \A v, k : FileMessage(v, k).type = "MessageNormal"
  /\ \A s, k : FileStoreRequest(s, k).type = "FileStoreRequest"
  /\ \A s, k : FileRequest(s, k).type = "FileRequest"
  /\ \A s : FileDataStart(s).type = "FileDataStart"
  /\ \A s, a, b : FileData(s, a, b).type = "FileData"
  /\ \A s, c : FileDataEnd(s, c).type = "FileDataEnd"
  /\ \A s : OK(s).type = "OK"
  /\ \A s : Failure(s).type = "Failure"
  /\ Closed.type = "Closed"
BY DEF InfoRequest, InfoReply, NewIcon, FileMessage, FileStoreRequest, FileRequest, FileDataStart,
       FileData, FileDataEnd, OK, Failure, Closed

\* What else a packet says.
LEMMA PacketFields ==
  /\ \A f, k : InfoReply(f, k).session = f /\ InfoReply(f, k).key = k
  /\ \A f : InfoRequest(f).session = f
  /\ \A k : NewIcon(k).key = k
  /\ \A v, k : FileMessage(v, k).to = v /\ FileMessage(v, k).key = k
  /\ \A s, k : /\ FileStoreRequest(s, k).session = s /\ FileStoreRequest(s, k).key = k
               /\ FileStoreRequest(s, k).length = Pages[k]
  /\ \A s, k : FileRequest(s, k).session = s /\ FileRequest(s, k).key = k
  /\ \A s : FileDataStart(s).session = s
  /\ \A s, a, b : /\ FileData(s, a, b).session = s /\ FileData(s, a, b).seq = a
                  /\ FileData(s, a, b).page = b
  /\ \A s, c : FileDataEnd(s, c).session = s /\ FileDataEnd(s, c).code = c
  /\ \A s : OK(s).session = s
  /\ \A s : Failure(s).session = s
BY DEF InfoRequest, InfoReply, NewIcon, FileMessage, FileStoreRequest, FileRequest, FileDataStart,
       FileData, FileDataEnd, OK, Failure, Closed

\* A packet to the server is determined by its type and what it says.
LEMMA ServerPacketIs ==
  ASSUME NEW p \in ServerPackets
  PROVE  /\ p.type \in {"Closed", "InfoRequest", "InfoData", "MessageNormal", "FileStoreRequest", "FileRequest",
                        "FileData", "FileDataEnd", "OK"}
         /\ p.type = "Closed" => p = Closed
         /\ p.type = "InfoRequest" => p.session \in Users /\ p = InfoRequest(p.session)
         /\ p.type = "InfoData" => p.key \in Keys /\ p = NewIcon(p.key)
         /\ p.type = "MessageNormal" => p.key \in Keys /\ p.to \in Users /\ p = FileMessage(p.to, p.key)
         /\ p.type = "FileStoreRequest" => /\ p.session \in Sessions /\ p.key \in Keys
                                           /\ p = FileStoreRequest(p.session, p.key)
         /\ p.type = "FileRequest" => /\ p.session \in Sessions /\ p.key \in Keys
                                      /\ p = FileRequest(p.session, p.key)
         /\ p.type = "FileData" => /\ p.session \in Sessions /\ p.seq \in Nat
                                   /\ p = FileData(p.session, p.seq, p.seq + 1)
         /\ p.type = "FileDataEnd" => p.session \in Sessions /\ p = FileDataEnd(p.session, "ok")
         /\ p.type = "OK" => p.session \in Sessions /\ p = OK(p.session)
BY PacketType, PacketFields DEF ServerPackets

\* So is a packet to the client.
LEMMA ClientPacketIs ==
  ASSUME NEW p \in ClientPackets
  PROVE  /\ p.type \in {"Closed", "InfoData", "FileDataStart", "FileData", "FileDataEnd", "OK", "Failure"}
         /\ p.type = "Closed" => p = Closed
         /\ p.type = "InfoData" => /\ p.session \in Users /\ p.key \in Keys
                                   /\ p = InfoReply(p.session, p.key)
         /\ p.type = "FileDataStart" => p.session \in Sessions /\ p = FileDataStart(p.session)
         /\ p.type = "FileData" => /\ p.session \in Sessions /\ p.seq \in Nat /\ p.page \in Nat
                                   /\ p = FileData(p.session, p.seq, p.page)
         /\ p.type = "FileDataEnd" => /\ p.session \in Sessions /\ p.code \in {"ok", "exists", "canceled"}
                                      /\ p = FileDataEnd(p.session, p.code)
         /\ p.type = "OK" => p.session \in Sessions /\ p = OK(p.session)
         /\ p.type = "Failure" => p.session \in Sessions /\ p = Failure(p.session)
BY PacketType, PacketFields DEF ClientPackets

-----------------------------------------------------------------------------
(* Channels: what a packet that is taken out or put in changes.            *)

\* The first packet leaves.
LEMMA ChannelTail ==
  ASSUME NEW P, NEW c \in Seq(P), c # <<>>
  PROVE  /\ Tail(c) \in Seq(P) /\ Head(c) \in P /\ Head(c) = c[1]
         /\ Len(Tail(c)) = Len(c) - 1 /\ 1 \in 1 .. Len(c)
         /\ \A i \in 1 .. Len(Tail(c)) : Tail(c)[i] = c[i + 1] /\ i + 1 \in 1 .. Len(c)
OBVIOUS

\* Of the packets of a session only the first can have left.
LEMMA AmongTail ==
  ASSUME NEW P, NEW c \in Seq(P), c # <<>>, NEW s, AtMostOne(c, s)
  PROVE  /\ AtMostOne(Tail(c), s)
         /\ Of(Head(c), s) => Among(c, s) = {Head(c)} /\ Among(Tail(c), s) = {}
         /\ ~Of(Head(c), s) => Among(Tail(c), s) = Among(c, s)
<1>0. Len(c) \in Nat /\ Len(c) >= 1
  OBVIOUS
<1>1. /\ Head(c) = c[1] /\ Len(Tail(c)) = Len(c) - 1
      /\ \A i \in 1 .. Len(Tail(c)) : Tail(c)[i] = c[i + 1] /\ i + 1 \in 1 .. Len(c)
  BY ChannelTail
<1>2. AtMostOne(Tail(c), s)
  <2> SUFFICES ASSUME NEW i \in 1 .. Len(Tail(c)), NEW j \in 1 .. Len(Tail(c)),
                      Of(Tail(c)[i], s), Of(Tail(c)[j], s)
               PROVE  i = j
    BY DEF AtMostOne
  <2>1. i + 1 = j + 1
    BY <1>1 DEF AtMostOne
  <2> QED BY <2>1
<1>3. ASSUME Of(Head(c), s) PROVE Among(c, s) = {Head(c)} /\ Among(Tail(c), s) = {}
  <2>1. \A i \in 1 .. Len(c) : Of(c[i], s) <=> i = 1
    BY <1>0, <1>1, <1>3 DEF AtMostOne
  <2>2. \A i \in 1 .. Len(Tail(c)) : ~Of(Tail(c)[i], s)
    BY <1>0, <1>1, <2>1
  <2>3. {j \in 1 .. Len(c) : Of(c[j], s)} = {1}
    BY <1>0, <2>1
  <2> QED BY <1>1, <2>2, <2>3 DEF Among
<1>4. ASSUME ~Of(Head(c), s) PROVE Among(Tail(c), s) = Among(c, s)
  <2>1. \A i \in 1 .. Len(c) : Of(c[i], s) => i - 1 \in 1 .. Len(Tail(c)) /\ Tail(c)[i - 1] = c[i]
    BY <1>0, <1>1, <1>4
  <2>2. ASSUME NEW p PROVE p \in Among(c, s) => p \in Among(Tail(c), s)
    BY <2>1 DEF Among
  <2>3. ASSUME NEW p PROVE p \in Among(Tail(c), s) => p \in Among(c, s)
    BY <1>1 DEF Among
  <2> QED BY <2>2, <2>3
<1> QED BY <1>2, <1>3, <1>4

\* What is sent stands last.
LEMMA ChannelAppend ==
  ASSUME NEW P, NEW c \in Seq(P), NEW q \in P
  PROVE  /\ c \o <<q>> = Append(c, q) /\ Append(c, q) \in Seq(P)
         /\ Len(Append(c, q)) = Len(c) + 1 /\ Append(c, q)[Len(c) + 1] = q
         /\ \A i \in 1 .. Len(c) : Append(c, q)[i] = c[i]
         /\ \A i \in 1 .. Len(Append(c, q)) : i \in 1 .. Len(c) \/ i = Len(c) + 1
OBVIOUS

\* Of the packets of a session there is one more, or none.
LEMMA AmongAppend ==
  ASSUME NEW P, NEW c \in Seq(P), NEW q \in P, NEW s, AtMostOne(c, s)
  PROVE  /\ Of(q, s) /\ Among(c, s) = {} => AtMostOne(Append(c, q), s) /\ Among(Append(c, q), s) = {q}
         /\ ~Of(q, s) => AtMostOne(Append(c, q), s) /\ Among(Append(c, q), s) = Among(c, s)
<1> DEFINE a == Append(c, q)
           N == Len(c)
<1>1. /\ N \in Nat /\ Len(a) = N + 1 /\ a[N + 1] = q
      /\ \A i \in 1 .. N : a[i] = c[i]
      /\ \A i \in 1 .. N + 1 : i \in 1 .. N \/ i = N + 1
      /\ \A i \in 1 .. N : i \in 1 .. N + 1
      /\ N + 1 \in 1 .. N + 1
  BY ChannelAppend
<1> HIDE DEF a, N
<1>2. ASSUME Of(q, s), Among(c, s) = {} PROVE AtMostOne(a, s) /\ Among(a, s) = {q}
  <2>1. \A i \in 1 .. N : ~Of(c[i], s)
    BY <1>2 DEF Among, N
  <2>2. \A i \in 1 .. N + 1 : Of(a[i], s) <=> i = N + 1
    BY <1>1, <1>2, <2>1
  <2>3. {j \in 1 .. N + 1 : Of(a[j], s)} = {N + 1}
    BY <1>1, <2>2
  <2> QED BY <1>1, <2>2, <2>3 DEF AtMostOne, Among
<1>3. ASSUME ~Of(q, s) PROVE AtMostOne(a, s) /\ Among(a, s) = Among(c, s)
  <2>1. \A i \in 1 .. N + 1 : Of(a[i], s) => i \in 1 .. N /\ a[i] = c[i]
    BY <1>1, <1>3
  <2>2. {j \in 1 .. N + 1 : Of(a[j], s)} = {j \in 1 .. N : Of(c[j], s)}
    BY <1>1, <2>1
  <2>3. Among(a, s) = Among(c, s)
    BY <1>1, <2>2 DEF Among, N
  <2>4. AtMostOne(a, s)
    BY <1>1, <2>1 DEF AtMostOne, N
  <2> QED BY <2>3, <2>4
<1> QED BY <1>2, <1>3 DEF a

\* A channel without packets of the session.
LEMMA AmongNone ==
  ASSUME NEW c, NEW s, Among(c, s) = {}
  PROVE  AtMostOne(c, s)
BY DEF Among, AtMostOne

\* An empty channel has packets of no session.
LEMMA AmongEmpty ==
  ASSUME NEW s
  PROVE  AtMostOne(<<>>, s) /\ Among(<<>>, s) = {}
BY DEF AtMostOne, Among

-----------------------------------------------------------------------------
(* Lists of operations.                                                    *)

\* UserOperationGet finds the operation of a session, if there is one.
LEMMA OperationGet ==
  ASSUME NEW u \in Users, NEW s, ops[u] \in Seq(Operations), OneEach(ops[u])
  PROVE  LET i == UserOperationGet(u, s)
         IN  \/ i = 0 /\ OpsOf(ops[u], s) = {}
             \/ /\ i \in 1 .. Len(ops[u]) /\ i # 0 /\ ops[u][i].session = s
                /\ OpsOf(ops[u], s) = {ops[u][i]}
<1> DEFINE o == ops[u]
           I == {i \in 1 .. Len(o) : o[i].session = s}
<1>1. UserOperationGet(u, s) = IF I # {} THEN Min(I) ELSE 0
  BY DEF UserOperationGet, SelectInSeq
<1>2. CASE I = {}
  BY <1>1, <1>2 DEF OpsOf
<1>3. CASE I # {}
  <2>1. PICK i \in I : TRUE
    BY <1>3
  <2>2. I = {i}
    BY <2>1 DEF OneEach
  <2>3. Min({i}) = i
    BY <2>1 DEF Min
  <2>4. UserOperationGet(u, s) = i
    BY <1>1, <2>1, <2>2, <2>3
  <2>5. OpsOf(o, s) = {o[i]}
    BY <2>2 DEF OpsOf
  <2> HIDE DEF o
  <2> QED BY <2>1, <2>4, <2>5 DEF o
<1> QED BY <1>2, <1>3

\* A new operation, of a session that has none.
LEMMA OpsRegister ==
  ASSUME NEW o, OpList(o), NEW op \in Operations, OpsOf(o, op.session) = {}
  PROVE  /\ \A j \in 1 .. Len(Append(o, op)) : Append(o, op)[j] = op \/ \E k \in 1 .. Len(o) : Append(o, op)[j] = o[k]
         /\ OpList(Append(o, op)) /\ OpsOf(Append(o, op), op.session) = {op}
         /\ \A s : s # op.session => OpsOf(Append(o, op), s) = OpsOf(o, s)
<1> DEFINE a == Append(o, op)
           N == Len(o)
<1>1. /\ N \in Nat /\ Len(a) = N + 1 /\ a[N + 1] = op /\ a \in Seq(Operations)
      /\ \A i \in 1 .. N : a[i] = o[i]
      /\ \A i \in 1 .. N + 1 : i \in 1 .. N \/ i = N + 1
      /\ \A i \in 1 .. N : i \in 1 .. N + 1
      /\ N + 1 \in 1 .. N + 1
  BY ChannelAppend DEF OpList
<1>2. \A i \in 1 .. N : o[i].session # op.session
  BY DEF OpsOf
<1>3. \A i, j \in 1 .. N : o[i].session = o[j].session => i = j
  BY DEF OpList, OneEach
<1> HIDE DEF a, N
<1>5. OneEach(a)
  BY <1>1, <1>2, <1>3 DEF OneEach
<1>6. \A j \in 1 .. Len(a) : a[j] = op \/ \E k \in 1 .. N : a[j] = o[k]
  BY <1>1
<1>7. OpsOf(a, op.session) = {op}
  <2>1. {j \in 1 .. N + 1 : a[j].session = op.session} = {N + 1}
    BY <1>1, <1>2
  <2> QED BY <1>1, <2>1 DEF OpsOf
<1>8. ASSUME NEW s, s # op.session PROVE OpsOf(a, s) = OpsOf(o, s)
  <2>1. {j \in 1 .. N + 1 : a[j].session = s} = {j \in 1 .. N : o[j].session = s}
    BY <1>1, <1>8
  <2> QED BY <1>1, <2>1 DEF OpsOf, N
<1> QED BY <1>1, <1>5, <1>6, <1>7, <1>8 DEF OpList, a, N

\* A sequence without one of its entries.
LEMMA RemovedAt ==
  ASSUME NEW P, NEW c \in Seq(P), NEW i \in 1 .. Len(c)
  PROVE  /\ RemoveAt(c, i) \in Seq(P) /\ Len(RemoveAt(c, i)) = Len(c) - 1
         /\ \A j \in 1 .. Len(c) - 1 : RemoveAt(c, i)[j] = IF j < i THEN c[j] ELSE c[j + 1]
<1> DEFINE a == SubSeq(c, 1, i - 1)
           b == SubSeq(c, i + 1, Len(c))
           N == Len(c)
<1>1. /\ a \in Seq(P) /\ Len(a) = i - 1
      /\ \A j \in 1 .. i - 1 : a[j] = c[j]
  OBVIOUS
<1>2. /\ b \in Seq(P) /\ Len(b) = N - i
      /\ \A j \in 1 .. N - i : b[j] = c[i + j]
  OBVIOUS
<1>0. N \in Nat /\ i \in 1 .. N
  OBVIOUS
<1> HIDE DEF a, b, N
<1>3. /\ a \o b \in Seq(P) /\ Len(a \o b) = N - 1
      /\ \A j \in 1 .. N - 1 : (a \o b)[j] = IF j <= i - 1 THEN a[j] ELSE b[j - (i - 1)]
  <2>0. a \in Seq(P) /\ b \in Seq(P)
    BY <1>1, <1>2
  <2>1. a \o b \in Seq(P) /\ Len(a \o b) = Len(a) + Len(b)
    BY <2>0, ConcatProperties
  <2>2. \A j \in 1 .. Len(a) + Len(b) : (a \o b)[j] = IF j <= Len(a) THEN a[j] ELSE b[j - Len(a)]
    BY <2>0, ConcatProperties
  <2>3. Len(a) = i - 1 /\ Len(b) = N - i /\ (i - 1) + (N - i) = N - 1
    BY <1>0, <1>1, <1>2
  <2> QED BY <2>1, <2>2, <2>3
<1>4. ASSUME NEW j \in 1 .. N - 1 PROVE (a \o b)[j] = IF j < i THEN c[j] ELSE c[j + 1]
  <2>1. CASE j < i
    <3>1. j \in 1 .. i - 1 /\ j <= i - 1
      BY <1>0, <2>1
    <3> QED BY <1>1, <1>3, <2>1, <3>1
  <2>2. CASE ~(j < i)
    <3>1. j - (i - 1) \in 1 .. N - i /\ i + (j - (i - 1)) = j + 1 /\ ~(j <= i - 1)
      BY <1>0, <2>2
    <3> QED BY <1>2, <1>3, <2>2, <3>1
  <2> QED BY <2>1, <2>2
<1> QED BY <1>3, <1>4 DEF RemoveAt, a, b, N

\* An operation less.
LEMMA OpsUnregister ==
  ASSUME NEW o, OpList(o), NEW i \in 1 .. Len(o)
  PROVE  /\ \A j \in 1 .. Len(RemoveAt(o, i)) : \E k \in 1 .. Len(o) : RemoveAt(o, i)[j] = o[k]
         /\ OpList(RemoveAt(o, i)) /\ OpsOf(RemoveAt(o, i), o[i].session) = {}
         /\ \A s : s # o[i].session => OpsOf(RemoveAt(o, i), s) = OpsOf(o, s)
<1> DEFINE r == RemoveAt(o, i)
           N == Len(o)
<1>1. /\ N \in Nat /\ i \in 1 .. N /\ Len(r) = N - 1 /\ r \in Seq(Operations)
      /\ \A j \in 1 .. N - 1 : /\ r[j] = IF j < i THEN o[j] ELSE o[j + 1]
                               /\ j \in 1 .. N /\ j + 1 \in 1 .. N
  BY RemovedAt DEF OpList
<1>2. \A j, k \in 1 .. N : o[j].session = o[k].session => j = k
  BY DEF OpList, OneEach
<1> HIDE DEF r, N
<1>4. OneEach(r)
  <2> DEFINE f(j) == IF j < i THEN j ELSE j + 1
  <2>1. \A j \in 1 .. N - 1 : f(j) \in 1 .. N /\ r[j] = o[f(j)]
    BY <1>1
  <2>2. \A j, k \in 1 .. N - 1 : f(j) = f(k) => j = k
    BY <1>1
  <2> HIDE DEF f
  <2>3. ASSUME NEW j \in 1 .. N - 1, NEW k \in 1 .. N - 1, r[j].session = r[k].session PROVE j = k
    <3>1. f(j) = f(k)
      BY <1>2, <2>1, <2>3
    <3> QED BY <2>2, <3>1
  <2> QED BY <1>1, <2>3 DEF OneEach
<1>5. \A j \in 1 .. Len(r) : \E k \in 1 .. N : r[j] = o[k]
  BY <1>1
<1>6. OpsOf(r, o[i].session) = {}
  <2>1. ASSUME NEW j \in 1 .. N - 1 PROVE r[j].session # o[i].session
    <3>1. PICK k \in 1 .. N : r[j] = o[k] /\ k # i
      <4>1. CASE j < i
        BY <1>1, <4>1
      <4>2. CASE ~(j < i)
        <5>1. j + 1 \in 1 .. N /\ j + 1 # i /\ r[j] = o[j + 1]
          BY <1>1, <4>2
        <5> QED BY <5>1
      <4> QED BY <4>1, <4>2
    <3> QED BY <1>1, <1>2, <3>1
  <2> QED BY <1>1, <2>1 DEF OpsOf
<1>7. ASSUME NEW s, s # o[i].session PROVE OpsOf(r, s) = OpsOf(o, s)
  <2>1. ASSUME NEW x PROVE x \in OpsOf(r, s) => x \in OpsOf(o, s)
    BY <1>1 DEF OpsOf, N
  <2>2. ASSUME NEW j \in 1 .. N, o[j].session = s PROVE \E k \in 1 .. N - 1 : r[k] = o[j]
    <3>1. j # i
      BY <1>7, <2>2
    <3>2. CASE j < i
      BY <1>1, <3>2
    <3>3. CASE j > i
      <4>1. j - 1 \in 1 .. N - 1 /\ ~(j - 1 < i) /\ (j - 1) + 1 = j
        BY <1>1, <3>3
      <4> QED BY <1>1, <4>1
    <3> QED BY <1>1, <3>1, <3>2, <3>3
  <2>3. ASSUME NEW x PROVE x \in OpsOf(o, s) => x \in OpsOf(r, s)
    BY <1>1, <2>2, SMTT(20) DEF OpsOf, N
  <2> QED BY <2>1, <2>3
<1> QED BY <1>1, <1>4, <1>5, <1>6, <1>7 DEF OpList, r, N

\* Operation i of o has gone on, and is op.
GoesOn(o, i, op, a) ==
  /\ a \in Seq(Operations) /\ Len(a) = Len(o)
  /\ \A j \in 1 .. Len(o) : a[j] = IF j = i THEN op ELSE o[j]
  /\ i \in 1 .. Len(o) /\ op.session = o[i].session /\ op \in Operations

\* An operation has gone on.
LEMMA OpsUpdate ==
  ASSUME NEW o, OpList(o), NEW i, NEW op, NEW a, GoesOn(o, i, op, a)
  PROVE  /\ \A j \in 1 .. Len(a) : a[j] = op \/ \E k \in 1 .. Len(o) : a[j] = o[k]
         /\ OpList(a) /\ OpsOf(a, op.session) = {op}
         /\ \A s : s # op.session => OpsOf(a, s) = OpsOf(o, s)
<1>1. PICK N \in Nat : /\ N = Len(o) /\ N = Len(a) /\ i \in 1 .. N /\ op.session = o[i].session
                       /\ \A j \in 1 .. N : a[j] = IF j = i THEN op ELSE o[j]
                       /\ a \in Seq(Operations)
  BY DEF GoesOn
<1>2. \A j, k \in 1 .. N : o[j].session = o[k].session => j = k
  BY <1>1 DEF OpList, OneEach
<1>3. \A j \in 1 .. N : a[j].session = o[j].session
  BY <1>1
<1>4. OneEach(a)
  BY <1>1, <1>2, <1>3 DEF OneEach
<1>5. \A j \in 1 .. Len(a) : a[j] = op \/ \E k \in 1 .. Len(o) : a[j] = o[k]
  BY <1>1
<1>6. OpsOf(a, op.session) = {op}
  <2>1. PICK s : s = op.session
    OBVIOUS
  <2>2. i \in 1 .. N /\ a[i].session = s /\ \A j \in 1 .. N : a[j].session = a[i].session => j = i
    BY <1>1, <1>2, <1>3, <2>1
  <2>3. \A j \in 1 .. N : a[j].session = s <=> j = i
    BY <2>2
  <2>4. {j \in 1 .. N : a[j].session = s} = {i}
    BY <2>2, <2>3
  <2>5. N = Len(a) /\ a[i] = op
    BY <1>1
  <2>6. OpsOf(a, s) = {a[j] : j \in {i}}
    BY <2>4, <2>5 DEF OpsOf
  <2>7. OpsOf(a, s) = {op}
    BY <2>5, <2>6
  <2> QED BY <2>1, <2>7
<1>7. ASSUME NEW s, s # op.session PROVE OpsOf(a, s) = OpsOf(o, s)
  <2>1. {j \in 1 .. N : a[j].session = s} = {j \in 1 .. N : o[j].session = s}
    BY <1>3
  <2>2. i \notin {j \in 1 .. N : o[j].session = s}
    BY <1>1, <1>7
  <2>3. \A j \in {j \in 1 .. N : o[j].session = s} : a[j] = o[j]
    BY <1>1, <2>2
  <2> QED BY <1>1, <2>1, <2>3 DEF OpsOf
<1> QED BY <1>1, <1>4, <1>5, <1>6, <1>7 DEF OpList

-----------------------------------------------------------------------------
(* Files stay, and so does what has gone wrong: what holds of one user is  *)
(* not disturbed by what is done for another.                              *)

Grows(u) ==
  /\ \A k \in Keys : Stored(k) => Stored(k)'
  /\ \A k \in Keys, m \in {"short", "failed"} : <<m, k>> \in mishaps => <<m, k>> \in mishaps'
  /\ <<"refused", u>> \in mishaps => <<"refused", u>> \in mishaps'

\* What has come of a file stays what it is.
LEMMA PrefixKept ==
  ASSUME NEW u, Grows(u), NEW d, NEW k \in Keys
  PROVE  /\ Prefix(d, k) => Prefix(d, k)'
         /\ Complete(d, k) => Complete(d, k)'
BY DEF Grows, Prefix, Complete, Contents

\* So do the operations.
LEMMA OpsKept ==
  ASSUME NEW u, Grows(u), NEW op, OpFits(op)
  PROVE  OpFits(op)'
BY PrefixKept DEF OpFits, Operations

\* And the nodes of a client, also when it gives out more sessions.
LEMMA NodeKept ==
  ASSUME NEW u, Grows(u), NEW n, NEW s, NEW ph, NEW st \in Nat, NEW st1 \in Nat, st <= st1,
         NodeFits(n, s, ph, st)
  PROVE  NodeFits(n, s, ph, st1)'
<1>1. n \in Entries => n.key \in Keys
  BY DEF Entries
<1>2. s \in 1 .. st => s \in 1 .. st1
  OBVIOUS
<1> QED BY <1>1, <1>2 DEF NodeFits, Grows

\* And the stage a session is at.
LEMMA FlowKept ==
  ASSUME NEW u, Grows(u), NEW s \in Sessions, NEW S, NEW C, NEW n \in Entries \union {Absent}, NEW O, NEW ph,
         NEW st \in Nat, NEW st1 \in Nat, st <= st1,
         Flow(u, s, S, C, n, O, ph, st)
  PROVE  Flow(u, s, S, C, n, O, ph, st1)'
<1>1. n # Absent => n.key \in Keys
  BY DEF Entries
<1>2. Known(s, st) => Known(s, st1)
  BY DEF Known
<1>3. ASSUME AtRest(u, s, n, O, ph, st) PROVE AtRest(u, s, n, O, ph, st1)'
  <2>1. s \notin Users => s \in Nat
    BY TransferAssumption DEF Sessions
  <2> QED BY <1>3, <2>1 DEF AtRest, Grows, IsIcon
<1>4. ASSUME NEW p, PacketAtServer(u, p, s, n, O, ph, st) PROVE PacketAtServer(u, p, s, n, O, ph, st1)'
  BY <1>4 DEF PacketAtServer, IsUpload, IsDownload
<1>5. ASSUME NEW p, PacketAtClient(u, p, s, n, O, ph, st) PROVE PacketAtClient(u, p, s, n, O, ph, st1)'
  BY <1>1, <1>5 DEF PacketAtClient, Grows, IsUpload, IsDownload, IsIcon
<1> QED BY <1>2, <1>3, <1>4, <1>5 DEF Flow

\* And what has been promised.
LEMMA PromisedKept ==
  ASSUME NEW u, Grows(u), NEW ts \in Seq(ServerPackets), NEW o, Promised(ts, o)
  PROVE  Promised(ts, o)'
<1>1. \A i \in 1 .. Len(ts) : ts[i].type \in {"InfoData", "MessageNormal"} => ts[i].key \in Keys
  BY ServerPacketIs
<1> QED BY <1>1 DEF Promised, Grows

\* And what is delivered.
LEMMA DeliveredKept ==
  ASSUME NEW u, Grows(u), NEW tc \in Seq(ClientPackets), NEW n \in [Sessions -> Entries \union {Absent}],
         NEW st, Delivered(tc, n, st)
  PROVE  Delivered(tc, n, st)'
<1>1. ASSUME NEW p \in ClientPackets
      PROVE  /\ p.type = "FileDataEnd" => p.session \in Sessions
             /\ p.type = "InfoData" => (Stored(p.key) => Stored(p.key)')
  <2>1. p.type = "InfoData" => p.key \in Keys
    BY ClientPacketIs
  <2> QED BY <2>1, ClientPacketIs DEF Grows
<1>2. ASSUME NEW s \in Sessions, NEW e, e = n[s], e # Absent, Complete(e.data, e.key)
      PROVE  Complete(e.data, e.key)'
  <2>1. e.key \in Keys
    BY <1>2 DEF Entries
  <2> QED BY <1>2, <2>1, PrefixKept
<1>3. ASSUME NEW i \in 1 .. Len(tc)
      PROVE  /\ "session" \in DOMAIN tc[i] => Known(tc[i].session, st)
             /\ tc[i].type = "InfoData" => Stored(tc[i].key)'
             /\ tc[i].type = "FileDataEnd" /\ tc[i].code = "ok" =>
                  /\ \A j \in 1 .. i - 1 : ~Of(tc[j], tc[i].session)
                  /\ n[tc[i].session] # Absent =>
                       /\ IsDownload(n[tc[i].session])
                       /\ Complete(n[tc[i].session].data, n[tc[i].session].key)'
  <2>1. /\ "session" \in DOMAIN tc[i] => Known(tc[i].session, st)
        /\ tc[i].type = "InfoData" => Stored(tc[i].key)
        /\ tc[i].type = "FileDataEnd" /\ tc[i].code = "ok" =>
             /\ \A j \in 1 .. i - 1 : ~Of(tc[j], tc[i].session)
             /\ n[tc[i].session] # Absent =>
                  /\ IsDownload(n[tc[i].session])
                  /\ Complete(n[tc[i].session].data, n[tc[i].session].key)
    BY DEF Delivered
  <2>2. PICK p \in ClientPackets : p = tc[i]
    OBVIOUS
  <2>2a. PICK e : e = n[p.session]
    OBVIOUS
  <2>3. p.type = "InfoData" /\ Stored(p.key) => Stored(p.key)'
    BY <1>1
  <2>4. p.type = "FileDataEnd" /\ e # Absent /\ Complete(e.data, e.key) => Complete(e.data, e.key)'
    <3>1. p.type = "FileDataEnd" => p.session \in Sessions
      BY <1>1
    <3> QED BY <1>2, <2>2, <2>2a, <3>1
  <2> QED BY <2>1, <2>2, <2>2a, <2>3, <2>4
<1> QED BY <1>3 DEF Delivered, IsDownload

\* All that holds of a user that a step does not concern.
LEMMA UserKept ==
  ASSUME NEW u, Grows(u), NEW S, NEW S1, u \in S <=> u \in S1,
         NEW ts, NEW tc, NEW o, NEW n, NEW ph, NEW st \in Nat,
         UserFits(u, S, ts, tc, o, n, ph, st)
  PROVE  UserFits(u, S1, ts, tc, o, n, ph, st)'
<1>1. /\ ts \in Seq(ServerPackets) /\ tc \in Seq(ClientPackets)
      /\ n \in [Sessions -> Entries \union {Absent}]
  BY DEF UserFits, ClientFits
<1>2. OpsFit(o)'
  BY OpsKept DEF UserFits, OpsFit
<1>3. ClientFits(n, ph, st)'
  BY NodeKept DEF UserFits, ClientFits
<1>4. ASSUME u \in S PROVE Served(u, ts, tc, o, n, ph, st)' /\ InfoFirst(ts, tc)
  BY <1>1, <1>4, FlowKept DEF UserFits, Served
<1>5. Promised(ts, o)' /\ Delivered(tc, n, st)'
  BY <1>1, PromisedKept, DeliveredKept DEF UserFits
<1> QED BY <1>1, <1>2, <1>3, <1>4, <1>5 DEF UserFits

\* A session has moved on, and the others are where they were.
LEMMA SessionMoves ==
  ASSUME NEW u, Grows(u), NEW ts, NEW tc, NEW o, NEW n \in [Sessions -> Entries \union {Absent}],
         NEW ph, NEW st \in Nat, Served(u, ts, tc, o, n, ph, st),
         NEW ts1, NEW tc1, NEW o1, NEW n1, NEW st1 \in Nat, st <= st1,
         NEW s \in Sessions,
         \A r \in Sessions \ {s} : /\ AtMostOne(ts1, r) /\ Among(ts1, r) = Among(ts, r)
                                   /\ AtMostOne(tc1, r) /\ Among(tc1, r) = Among(tc, r)
                                   /\ OpsOf(o1, r) = OpsOf(o, r) /\ n1[r] = n[r],
         AtMostOne(ts1, s) /\ AtMostOne(tc1, s),
         Flow(u, s, Among(ts1, s), Among(tc1, s), n1[s], OpsOf(o1, s), ph, st1)',
         ph # "out" => /\ \A i \in 1 .. Len(ts1) : ts1[i] # Closed
                       /\ \A i \in 1 .. Len(tc1) : tc1[i] # Closed
  PROVE  Served(u, ts1, tc1, o1, n1, ph, st1)'
<1>1. ASSUME NEW r \in Sessions, r # s
      PROVE  Flow(u, r, Among(ts1, r), Among(tc1, r), n1[r], OpsOf(o1, r), ph, st1)'
  <2>1. Flow(u, r, Among(ts, r), Among(tc, r), n[r], OpsOf(o, r), ph, st)
    BY DEF Served
  <2>2. Flow(u, r, Among(ts, r), Among(tc, r), n[r], OpsOf(o, r), ph, st1)'
    BY <2>1, FlowKept
  <2> QED BY <1>1, <2>2
<1> QED BY <1>1 DEF Served

-----------------------------------------------------------------------------
(* A step of the server: a packet is taken, and one of the same session is *)
(* sent, or none.                                                          *)

\* The packet that is first at the server is where its session is.
LEMMA FirstAtServer ==
  ASSUME NEW u, NEW S, u \in S, NEW ts, NEW tc, NEW o, NEW n, NEW ph, NEW st,
         UserFits(u, S, ts, tc, o, n, ph, st), ts # <<>>,
         NEW s \in Sessions, Of(Head(ts), s)
  PROVE  /\ PacketAtServer(u, Head(ts), s, n[s], OpsOf(o, s), ph, st)
         /\ Among(tc, s) = {}
<1>1. /\ ts \in Seq(ServerPackets) /\ AtMostOne(ts, s)
      /\ Flow(u, s, Among(ts, s), Among(tc, s), n[s], OpsOf(o, s), ph, st)
  BY DEF UserFits, Served
<1>2. Among(ts, s) = {Head(ts)}
  BY <1>1, AmongTail
<1>3. PICK p \in Among(ts, s) : /\ Among(ts, s) = {p} /\ PacketAtServer(u, p, s, n[s], OpsOf(o, s), ph, st)
                                /\ Among(tc, s) = {}
  BY <1>1, <1>2 DEF Flow
<1>4. p = Head(ts)
  BY <1>2, <1>3
<1> QED BY <1>3, <1>4

\* And its session is one the client has begun.
LEMMA KnownAtServer ==
  ASSUME NEW u, NEW S, u \in S, NEW ts, NEW tc, NEW o, NEW n, NEW ph, NEW st,
         UserFits(u, S, ts, tc, o, n, ph, st), ts # <<>>,
         NEW s \in Sessions, Of(Head(ts), s), ph # "out"
  PROVE  Known(s, st)
<1>1. /\ ts \in Seq(ServerPackets) /\ AtMostOne(ts, s)
      /\ Flow(u, s, Among(ts, s), Among(tc, s), n[s], OpsOf(o, s), ph, st)
  BY DEF UserFits, Served
<1>2. Among(ts, s) = {Head(ts)}
  BY <1>1, AmongTail
<1> QED BY <1>1, <1>2 DEF Flow

\* A promise is kept when the first packet has been processed.
LEMMA PromisedTail ==
  ASSUME NEW u, Grows(u), NEW ts \in Seq(ServerPackets), ts # <<>>, NEW o, NEW o1, Promised(ts, o),
         NEW s, Of(Head(ts), s), AtMostOne(ts, s),
         \A r \in Sessions \ {s} : OpsOf(o1, r) = OpsOf(o, r),
         Head(ts).type = "FileDataEnd" => \A op \in OpsOf(o, s) : op.type = "store" =>
           Stored(op.key)' \/ <<"failed", op.key>> \in mishaps'
  PROVE  Promised(Tail(ts), o1)'
<1> DEFINE N == Len(ts)
           t == Tail(ts)
<1>1. /\ N \in Nat /\ N >= 1 /\ Len(t) = N - 1 /\ Head(ts) = ts[1] /\ 1 \in 1 .. N
      /\ \A i \in 1 .. N - 1 : t[i] = ts[i + 1] /\ i + 1 \in 1 .. N
  BY ChannelTail
<1>2. \A i \in 1 .. N : ts[i].type \in {"InfoData", "MessageNormal"} => ts[i].key \in Keys
  BY ServerPacketIs
<1>3. \A i \in 1 .. N : ts[i].type = "FileDataEnd" => ts[i].session \in Sessions /\ Of(ts[i], ts[i].session)
  BY ServerPacketIs, PacketOf
<1>4. \A i \in 1 .. N : Of(ts[i], s) => i = 1
  BY <1>1 DEF AtMostOne
<1>5. ts[1].type = "FileDataEnd" => ts[1].session = s
  BY <1>1 DEF Of
<1> HIDE DEF N, t
<1>6. ASSUME NEW i \in 1 .. N - 1, t[i].type = "InfoData" PROVE Stored(t[i].key)'
  BY <1>1, <1>2, <1>6 DEF Promised, Grows, N
<1>7. ASSUME NEW i \in 1 .. N - 1, t[i].type = "MessageNormal"
      PROVE  \/ Stored(t[i].key)' \/ <<"failed", t[i].key>> \in mishaps'
             \/ \E j \in 1 .. i - 1 : /\ t[j].type = "FileDataEnd"
                                      /\ \E op \in OpsOf(o1, t[j].session) :
                                           op.type = "store" /\ op.key = t[i].key
  <2>1. /\ t[i] = ts[i + 1] /\ i + 1 \in 1 .. N /\ ts[i + 1].key \in Keys
        /\ ts[i + 1].type = "MessageNormal"
    BY <1>1, <1>2, <1>7
  <2>2. \/ Stored(ts[i + 1].key) \/ <<"failed", ts[i + 1].key>> \in mishaps
        \/ \E j \in 1 .. (i + 1) - 1 : /\ ts[j].type = "FileDataEnd"
                                       /\ \E op \in OpsOf(o, ts[j].session) :
                                            op.type = "store" /\ op.key = ts[i + 1].key
    BY <2>1 DEF Promised, N
  <2>3. CASE Stored(ts[i + 1].key) \/ <<"failed", ts[i + 1].key>> \in mishaps
    BY <2>1, <2>3 DEF Grows
  <2>4. ASSUME NEW j \in 1 .. (i + 1) - 1, ts[j].type = "FileDataEnd",
               NEW op \in OpsOf(o, ts[j].session), op.type = "store", op.key = ts[i + 1].key
        PROVE  \/ Stored(t[i].key)' \/ <<"failed", t[i].key>> \in mishaps'
               \/ \E k \in 1 .. i - 1 : /\ t[k].type = "FileDataEnd"
                                        /\ \E op1 \in OpsOf(o1, t[k].session) :
                                             op1.type = "store" /\ op1.key = t[i].key
    <3>1. CASE j = 1
      BY <1>1, <1>5, <2>1, <2>4, <3>1
    <3>2. CASE j # 1
      <4>1. j \in 1 .. N /\ j - 1 \in 1 .. i - 1 /\ j - 1 \in 1 .. N - 1 /\ (j - 1) + 1 = j
        BY <1>1, <3>2
      <4>2. t[j - 1] = ts[j]
        BY <1>1, <4>1
      <4>3. ts[j].session \in Sessions /\ ts[j].session # s
        BY <1>3, <1>4, <2>4, <3>2, <4>1
      <4>4. op \in OpsOf(o1, t[j - 1].session)
        BY <2>4, <4>2, <4>3
      <4> QED BY <2>1, <2>4, <4>1, <4>2, <4>4
    <3> QED BY <3>1, <3>2
  <2> QED BY <2>2, <2>3, <2>4
<1> QED BY <1>1, <1>6, <1>7 DEF Promised, t

\* The same if the packet has no session.
LEMMA PromisedTailPlain ==
  ASSUME NEW u, Grows(u), NEW ts \in Seq(ServerPackets), ts # <<>>, NEW o, Promised(ts, o),
         Head(ts).type # "FileDataEnd"
  PROVE  Promised(Tail(ts), o)'
<1> DEFINE N == Len(ts)
           t == Tail(ts)
<1>1. /\ N \in Nat /\ N >= 1 /\ Len(t) = N - 1 /\ Head(ts) = ts[1]
      /\ \A i \in 1 .. N - 1 : t[i] = ts[i + 1] /\ i + 1 \in 1 .. N
  BY ChannelTail
<1>2. Promised(ts, o)'
  BY PromisedKept
<1> HIDE DEF t, N
<1>3. ASSUME NEW i \in 1 .. N - 1, t[i].type = "MessageNormal",
             ~Stored(t[i].key)', <<"failed", t[i].key>> \notin mishaps'
      PROVE  \E j \in 1 .. i - 1 : /\ t[j].type = "FileDataEnd"
                                   /\ \E op \in OpsOf(o, t[j].session) :
                                        op.type = "store" /\ op.key = t[i].key
  <2>1. PICK j \in 1 .. (i + 1) - 1 : /\ ts[j].type = "FileDataEnd"
                                      /\ \E op \in OpsOf(o, ts[j].session) :
                                           op.type = "store" /\ op.key = ts[i + 1].key
    BY <1>1, <1>2, <1>3 DEF Promised, N
  <2>2. j # 1
    BY <1>1, <2>1
  <2>3. j - 1 \in 1 .. i - 1 /\ j - 1 \in 1 .. N - 1 /\ (j - 1) + 1 = j
    BY <1>1, <2>2
  <2> QED BY <1>1, <2>1, <2>3
<1>4. ASSUME NEW i \in 1 .. N - 1, t[i].type = "InfoData" PROVE Stored(t[i].key)'
  BY <1>1, <1>2, <1>4 DEF Promised, N
<1> QED BY <1>1, <1>3, <1>4 DEF Promised, t

\* Information is still first when the first packet has been processed.
LEMMA InfoTail ==
  ASSUME NEW ts \in Seq(ServerPackets), ts # <<>>, NEW tc, InfoFirst(ts, tc)
  PROVE  InfoFirst(Tail(ts), tc)
<1> DEFINE N == Len(ts)
           t == Tail(ts)
<1>1. /\ N \in Nat /\ N >= 1 /\ Len(t) = N - 1
      /\ \A i \in 1 .. N - 1 : t[i] = ts[i + 1] /\ i + 1 \in 1 .. N
  BY ChannelTail
<1> HIDE DEF t, N
<1>2. ASSUME NEW i \in 1 .. N - 1, t[i].type = "InfoRequest"
      PROVE  /\ \A j \in 1 .. i : t[j].type = "InfoRequest"
             /\ \A j \in 1 .. Len(tc) : Early(tc[j])
  <2>1. /\ \A j \in 1 .. i + 1 : ts[j].type = "InfoRequest"
        /\ \A j \in 1 .. Len(tc) : Early(tc[j])
    BY <1>1, <1>2 DEF InfoFirst, N
  <2>2. \A j \in 1 .. i : j \in 1 .. N - 1 /\ j + 1 \in 1 .. i + 1
    BY <1>1
  <2> QED BY <1>1, <2>1, <2>2
<1> QED BY <1>1, <1>2 DEF InfoFirst, t

\* Information is still first when the client is sent more.
LEMMA InfoSent ==
  ASSUME NEW ts \in Seq(ServerPackets), NEW tc \in Seq(ClientPackets), NEW q \in ClientPackets,
         InfoFirst(ts, tc),
         q.type = "InfoData" => \A j \in 1 .. Len(tc) : Early(tc[j]),
         ~Early(q) => \A i \in 1 .. Len(ts) : ts[i].type # "InfoRequest"
  PROVE  InfoFirst(ts, Append(tc, q))
<1> DEFINE N == Len(tc)
           a == Append(tc, q)
<1>1. /\ N \in Nat /\ Len(a) = N + 1 /\ a[N + 1] = q
      /\ \A i \in 1 .. N : a[i] = tc[i]
      /\ \A i \in 1 .. N + 1 : i \in 1 .. N \/ i = N + 1
  BY ChannelAppend
<1>2. \A i \in 1 .. N : tc[i].type = "InfoData" => \A j \in 1 .. i : Early(tc[j]) /\ j \in 1 .. N
  <2>1. ASSUME NEW i \in 1 .. N, NEW j \in 1 .. i PROVE j \in 1 .. N
    BY <1>1
  <2> QED BY <2>1 DEF InfoFirst
<1>3. /\ q.type = "InfoData" => \A j \in 1 .. N : Early(tc[j])
      /\ \A i \in 1 .. Len(ts) : ts[i].type = "InfoRequest" =>
           /\ \A j \in 1 .. i : ts[j].type = "InfoRequest"
           /\ \A j \in 1 .. N : Early(tc[j])
  BY DEF InfoFirst
<1> HIDE DEF a, N
<1>4. ASSUME NEW i \in 1 .. Len(ts), ts[i].type = "InfoRequest"
      PROVE  \A j \in 1 .. N + 1 : Early(a[j])
  BY <1>1, <1>3, <1>4
<1>5. ASSUME NEW i \in 1 .. N + 1, a[i].type = "InfoData", NEW j \in 1 .. i PROVE Early(a[j])
  <2>1. CASE i \in 1 .. N
    BY <1>1, <1>2, <1>5, <2>1
  <2>2. CASE i = N + 1
    <3>1. q.type = "InfoData"
      BY <1>1, <1>5, <2>2
    <3>2. Early(q) /\ \A m \in 1 .. N : Early(tc[m])
      BY <1>3, <3>1 DEF Early
    <3>3. j \in 1 .. N \/ j = N + 1
      BY <1>1, <2>2
    <3> QED BY <1>1, <3>2, <3>3
  <2> QED BY <1>1, <2>1, <2>2
<1> QED BY <1>1, <1>3, <1>4, <1>5 DEF InfoFirst, a

\* What else is delivered, when the client is sent a packet of a session.
LEMMA DeliveredSent ==
  ASSUME NEW tc \in Seq(ClientPackets), NEW n, NEW st, NEW q \in ClientPackets, Delivered(tc, n, st)',
         "session" \in DOMAIN q => Known(q.session, st),
         q.type = "InfoData" => Stored(q.key)',
         q.type = "FileDataEnd" /\ q.code = "ok" =>
           /\ Among(tc, q.session) = {}
           /\ n[q.session] # Absent => /\ IsDownload(n[q.session])
                                       /\ Complete(n[q.session].data, n[q.session].key)'
  PROVE  Delivered(Append(tc, q), n, st)'
<1> DEFINE N == Len(tc)
           a == Append(tc, q)
<1>1. /\ N \in Nat /\ Len(a) = N + 1 /\ a[N + 1] = q
      /\ \A i \in 1 .. N : a[i] = tc[i]
      /\ \A i \in 1 .. N + 1 : i \in 1 .. N \/ i = N + 1
  BY ChannelAppend
<1>2. \A i \in 1 .. N + 1 : \A j \in 1 .. i - 1 : j \in 1 .. N
  BY <1>1
<1>3. \A s : Among(tc, s) = {} => \A i \in 1 .. N : ~Of(tc[i], s)
  BY DEF Among
<1> HIDE DEF a, N
<1>4. ASSUME NEW i \in 1 .. N
      PROVE  /\ "session" \in DOMAIN a[i] => Known(a[i].session, st)
             /\ a[i].type = "InfoData" => Stored(a[i].key)'
             /\ a[i].type = "FileDataEnd" /\ a[i].code = "ok" =>
                  /\ \A j \in 1 .. i - 1 : ~Of(a[j], a[i].session)
                  /\ n[a[i].session] # Absent =>
                       /\ IsDownload(n[a[i].session])
                       /\ Complete(n[a[i].session].data, n[a[i].session].key)'
  <2>1. i \in 1 .. N + 1 /\ a[i] = tc[i] /\ \A j \in 1 .. i - 1 : a[j] = tc[j]
    BY <1>1, <1>2
  <2> QED BY <2>1 DEF Delivered, N, IsDownload
<1>5. /\ "session" \in DOMAIN q => Known(q.session, st)
      /\ q.type = "InfoData" => Stored(q.key)'
      /\ q.type = "FileDataEnd" /\ q.code = "ok" =>
           /\ \A j \in 1 .. N : ~Of(a[j], q.session)
           /\ n[q.session] # Absent => /\ IsDownload(n[q.session])
                                       /\ Complete(n[q.session].data, n[q.session].key)'
  BY <1>1, <1>3
<1> QED BY <1>1, <1>2, <1>4, <1>5 DEF Delivered, a, IsDownload

\* The server answers a packet of session s by another of this session.
LEMMA ServerAnswers ==
  ASSUME NEW u, Grows(u), NEW S, u \in S, NEW ts, NEW tc, NEW o, NEW n, NEW ph, NEW st \in Nat,
         UserFits(u, S, ts, tc, o, n, ph, st), ts # <<>>,
         NEW s \in Sessions, Of(Head(ts), s),
         NEW o1, OpsFit(o1)', \A r \in Sessions \ {s} : OpsOf(o1, r) = OpsOf(o, r),
         NEW q \in ClientPackets, Of(q, s),
         q.type = "InfoData" => Head(ts).type = "InfoRequest", Head(ts).type = "InfoRequest" => Early(q),
         Promised(Tail(ts), o1)',
         ph # "out" => /\ PacketAtClient(u, q, s, n[s], OpsOf(o1, s), ph, st)'
                       /\ q.type = "FileDataEnd" /\ q.code = "ok" /\ n[s] # Absent =>
                            IsDownload(n[s]) /\ Complete(n[s].data, n[s].key)'
  PROVE  UserFits(u, S, Tail(ts), IF ph = "out" THEN <<>> ELSE tc \o <<q>>, o1, n, ph, st)'
<1>0. SUFFICES ASSUME NEW ts1, ts1 = Tail(ts), NEW tc1, tc1 = IF ph = "out" THEN <<>> ELSE tc \o <<q>>
             PROVE  UserFits(u, S, ts1, tc1, o1, n, ph, st)'
  OBVIOUS
<1>1. /\ ts \in Seq(ServerPackets) /\ tc \in Seq(ClientPackets)
      /\ n \in [Sessions -> Entries \union {Absent}]
      /\ Served(u, ts, tc, o, n, ph, st) /\ InfoFirst(ts, tc)
      /\ Delivered(tc, n, st)
      /\ ph = "out" => tc = <<>>
  BY DEF UserFits, ClientFits
<1>2. Among(tc, s) = {} /\ (ph # "out" => Known(s, st))
  <2>1. Among(tc, s) = {}
    BY FirstAtServer
  <2>2. ph # "out" => Known(s, st)
    BY KnownAtServer
  <2> QED BY <2>1, <2>2
<1>3. \A r \in Sessions : AtMostOne(ts, r) /\ AtMostOne(tc, r)
  BY <1>1 DEF Served
<1>4. /\ ts1 \in Seq(ServerPackets)
      /\ \A r \in Sessions : AtMostOne(ts1, r)
      /\ \A r \in Sessions \ {s} : Among(ts1, r) = Among(ts, r)
      /\ Among(ts1, s) = {}
  <2>1. \A r \in Sessions \ {s} : ~Of(Head(ts), r)
    BY DEF Of
  <2> QED BY <1>0, <1>1, <1>3, <2>1, ChannelTail, AmongTail
<1>5. /\ tc1 \in Seq(ClientPackets)
      /\ \A r \in Sessions : AtMostOne(tc1, r)
      /\ \A r \in Sessions \ {s} : Among(tc1, r) = Among(tc, r)
      /\ Among(tc1, s) = IF ph = "out" THEN {} ELSE {q}
  <2>1. \A r \in Sessions \ {s} : ~Of(q, r)
    BY DEF Of
  <2>2. CASE ph = "out"
    BY <1>0, <1>1, <2>2, AmongEmpty
  <2>3. CASE ph # "out"
    <3>1. tc1 = Append(tc, q) /\ tc1 \in Seq(ClientPackets)
      BY <1>0, <1>1, <2>3, ChannelAppend
    <3>2. \A r \in Sessions \ {s} : AtMostOne(Append(tc, q), r) /\ Among(Append(tc, q), r) = Among(tc, r)
      BY <1>1, <1>3, <2>1, AmongAppend
    <3>3. AtMostOne(Append(tc, q), s) /\ Among(Append(tc, q), s) = {q}
      BY <1>1, <1>2, <1>3, AmongAppend
    <3> QED BY <2>3, <3>1, <3>2, <3>3
  <2> QED BY <2>2, <2>3
<1>6. Served(u, ts1, tc1, o1, n, ph, st)'
  <2>1. Flow(u, s, Among(ts1, s), Among(tc1, s), n[s], OpsOf(o1, s), ph, st)'
    BY <1>2, <1>4, <1>5 DEF Flow
  <2>2. ph # "out" => /\ \A i \in 1 .. Len(ts1) : ts1[i] # Closed
                      /\ \A i \in 1 .. Len(tc1) : tc1[i] # Closed
    <3>1. q # Closed
      BY PacketOf
    <3>2. SUFFICES ASSUME ph # "out"
                   PROVE  /\ \A i \in 1 .. Len(ts1) : ts1[i] # Closed
                          /\ \A i \in 1 .. Len(Append(tc, q)) : Append(tc, q)[i] # Closed
      BY <1>0, <1>1, ChannelAppend
    <3>3. /\ \A i \in 1 .. Len(ts) : ts[i] # Closed
          /\ \A i \in 1 .. Len(tc) : tc[i] # Closed
      BY <1>1, <3>2 DEF Served
    <3>4. \A i \in 1 .. Len(ts1) : ts1[i] # Closed
      BY <1>0, <1>1, <3>3, ChannelTail
    <3>5. \A i \in 1 .. Len(Append(tc, q)) : Append(tc, q)[i] # Closed
      BY <1>1, <3>1, <3>3, ChannelAppend
    <3> QED BY <3>4, <3>5
  <2>3. \A r \in Sessions \ {s} : /\ AtMostOne(ts1, r) /\ Among(ts1, r) = Among(ts, r)
                                  /\ AtMostOne(tc1, r) /\ Among(tc1, r) = Among(tc, r)
                                  /\ OpsOf(o1, r) = OpsOf(o, r) /\ n[r] = n[r]
    BY <1>4, <1>5
  <2>4. AtMostOne(ts1, s) /\ AtMostOne(tc1, s) /\ st <= st
    BY <1>4, <1>5
  <2> QED BY <1>1, <2>1, <2>2, <2>3, <2>4, SessionMoves
<1>7. InfoFirst(ts1, tc1)
  <2>1. InfoFirst(ts1, tc)
    BY <1>0, <1>1, InfoTail
  <2>2. CASE ph = "out"
    BY <1>0, <1>1, <2>1, <2>2
  <2>3. CASE ph # "out"
    <3>1. Head(ts) = ts[1] /\ 1 \in 1 .. Len(ts) /\ \A i \in 1 .. Len(ts) : 1 \in 1 .. i
      BY <1>1
    <3>2. q.type = "InfoData" => \A j \in 1 .. Len(tc) : Early(tc[j])
      BY <1>1, <3>1 DEF InfoFirst
    <3>3. ~Early(q) => \A i \in 1 .. Len(ts) : ts[i].type # "InfoRequest"
      BY <1>1, <3>1 DEF InfoFirst
    <3>4. ~Early(q) => \A i \in 1 .. Len(ts1) : ts1[i].type # "InfoRequest"
      BY <1>0, <1>1, <3>3, ChannelTail
    <3>5. InfoFirst(ts1, Append(tc, q))
      BY <1>1, <1>4, <2>1, <3>2, <3>4, InfoSent
    <3>6. tc1 = Append(tc, q)
      BY <1>0, <1>1, <2>3, ChannelAppend
    <3> QED BY <3>5, <3>6
  <2> QED BY <2>2, <2>3
<1>8. Delivered(tc1, n, st)'
  <2>1. Delivered(tc, n, st)'
    BY <1>1, DeliveredKept
  <2>2. CASE ph = "out"
    BY <1>0, <1>1, <2>1, <2>2
  <2>3. CASE ph # "out"
    <3>1. q.session = s
      BY DEF Of
    <3>2. q.type = "InfoData" => Stored(q.key)'
      <4>1. PacketAtClient(u, q, s, n[s], OpsOf(o1, s), ph, st)'
        BY <2>3
      <4> QED BY <4>1, PacketType, PacketFields DEF PacketAtClient
    <3>2a. Delivered(Append(tc, q), n, st)'
      BY <1>1, <1>2, <2>1, <2>3, <3>1, <3>2, DeliveredSent
    <3>3. tc1 = Append(tc, q)
      BY <1>0, <1>1, <2>3, ChannelAppend
    <3> QED BY <3>2a, <3>3
  <2> QED BY <2>2, <2>3
<1>9. ClientFits(n, ph, st)'
  BY NodeKept DEF UserFits, ClientFits
<1> QED BY <1>0, <1>4, <1>5, <1>6, <1>7, <1>8, <1>9 DEF UserFits

\* The server processes a packet of no session, and sends nothing.
LEMMA ServerSilent ==
  ASSUME NEW u, Grows(u), NEW S, u \in S, NEW ts, NEW tc, NEW o, NEW n, NEW ph, NEW st \in Nat,
         UserFits(u, S, ts, tc, o, n, ph, st), ts # <<>>,
         \A s \in Sessions : ~Of(Head(ts), s), Head(ts).type # "FileDataEnd"
  PROVE  UserFits(u, S, Tail(ts), IF ph = "out" THEN <<>> ELSE tc \o <<>>, o, n, ph, st)'
<1>1. /\ ts \in Seq(ServerPackets) /\ tc \in Seq(ClientPackets)
      /\ UserFits(u, S, ts, tc, o, n, ph, st)'
      /\ Promised(ts, o) /\ InfoFirst(ts, tc)
      /\ ph = "out" => tc = <<>>
  BY UserKept DEF UserFits
<1>2. (IF ph = "out" THEN <<>> ELSE tc \o <<>>) = tc
  BY <1>1
<1>3. \A s \in Sessions : AtMostOne(Tail(ts), s) /\ Among(Tail(ts), s) = Among(ts, s)
  <2>1. \A s \in Sessions : AtMostOne(ts, s)
    BY <1>1 DEF UserFits, Served
  <2> QED BY <1>1, <2>1, AmongTail
<1>4. /\ Tail(ts) \in Seq(ServerPackets)
      /\ \A i \in 1 .. Len(Tail(ts)) : Tail(ts)[i] = ts[i + 1] /\ i + 1 \in 1 .. Len(ts)
  BY <1>1, ChannelTail
<1>5. Served(u, Tail(ts), tc, o, n, ph, st)'
  BY <1>1, <1>3, <1>4 DEF UserFits, Served
<1>6. Promised(Tail(ts), o)'
  BY <1>1, PromisedTailPlain
<1>7. InfoFirst(Tail(ts), tc)
  BY <1>1, InfoTail
<1> QED BY <1>1, <1>2, <1>4, <1>5, <1>6, <1>7 DEF UserFits

-----------------------------------------------------------------------------
(* A step as a whole: it concerns one user, and the others see only that   *)
(* there are more files.                                                   *)

\* What is there of a user.
At(u, S, ts, tc, o, n, ph, st) ==
  /\ serving = S /\ toServer[u] = ts /\ toClient[u] = tc /\ ops[u] = o
  /\ nodes[u] = n /\ phase[u] = ph /\ started[u] = st

\* A step leaves what is there of v.
LeftAlone(v) ==
  /\ v \in serving <=> v \in serving'
  /\ toServer'[v] = toServer[v] /\ toClient'[v] = toClient[v] /\ ops'[v] = ops[v]
  /\ nodes'[v] = nodes[v] /\ phase'[v] = phase[v] /\ started'[v] = started[v]

\* The invariant speaks of what is there.
LEMMA FitsAt ==
  ASSUME NEW u, NEW S, NEW ts, NEW tc, NEW o, NEW n, NEW ph, NEW st
  PROVE  /\ At(u, S, ts, tc, o, n, ph, st) => (Fits(u) <=> UserFits(u, S, ts, tc, o, n, ph, st))
         /\ At(u, S, ts, tc, o, n, ph, st)' => (Fits(u)' <=> UserFits(u, S, ts, tc, o, n, ph, st)')
BY DEF At, Fits

\* It holds after a step if it holds for the user it concerns.
LEMMA OneMoves ==
  ASSUME TransferInv, NEW u \in Users, FilesFit', StateFits',
         \A v \in Users \ {u} : Grows(v) /\ LeftAlone(v),
         Fits(u)'
  PROVE  TransferInv'
<1>1. ASSUME NEW v \in Users, v # u PROVE Fits(v)'
  <2>1. PICK S, S1, ts, tc, o, n, ph, st : At(v, S, ts, tc, o, n, ph, st) /\ S1 = serving'
    BY DEF At
  <2>2. UserFits(v, S, ts, tc, o, n, ph, st)
    BY <2>1, FitsAt DEF TransferInv
  <2>3. st \in Nat /\ (v \in S <=> v \in S1) /\ Grows(v) /\ LeftAlone(v)
    <3>1. started[v] \in Nat
      BY TransferAssumption DEF TransferInv, StateFits
    <3> QED BY <1>1, <2>1, <3>1 DEF At, LeftAlone
  <2>4. UserFits(v, S1, ts, tc, o, n, ph, st)'
    BY <2>2, <2>3, UserKept
  <2>5. At(v, S1, ts, tc, o, n, ph, st)'
    BY <2>1, <2>3 DEF At, LeftAlone
  <2> QED BY <2>4, <2>5, FitsAt
<1> QED BY <1>1 DEF TransferInv

\* As long as the files are the same, and nothing goes wrong, nothing is lost.
LEMMA FilesSame ==
  ASSUME FilesFit, UNCHANGED <<files, icon, mail, mishaps>>
  PROVE  FilesFit' /\ \A v : Grows(v)
BY DEF FilesFit, Grows, Stored, Complete, Prefix

\* Nor if something goes wrong.
LEMMA FilesNoted ==
  ASSUME FilesFit, UNCHANGED <<files, icon, mail>>, NEW m \in {"short", "failed"} \X Keys \union {"refused"} \X Users,
         mishaps' = mishaps \union {m}
  PROVE  FilesFit' /\ \A v : Grows(v)
<1>1. \A v : Grows(v)
  BY DEF Grows, Stored
<1>2. \A k \in Keys : Stored(k)' => Complete(files[k], k)'
  BY <1>1, PrefixKept DEF FilesFit, Stored
<1> QED BY <1>1, <1>2 DEF FilesFit, Stored

\* The server has answered a packet.
LEMMA ServerStep ==
  ASSUME TransferInv, NEW u \in Users, u \in serving, toServer[u] # <<>>,
         UNCHANGED <<serving, clientVars>>,
         NEW S, NEW ts, NEW tc, NEW o, NEW n, NEW ph, NEW st, At(u, S, ts, tc, o, n, ph, st),
         NEW packets \in Seq(ClientPackets), Answer(u, packets),
         NEW o1 \in Seq(Operations), ops' = [ops EXCEPT ![u] = o1],
         FilesFit', \A v : Grows(v),
         UserFits(u, S, Tail(ts), IF ph = "out" THEN <<>> ELSE tc \o packets, o1, n, ph, st)'
  PROVE  TransferInv'
<1>1. /\ toServer \in [Users -> Seq(ServerPackets)] /\ toClient \in [Users -> Seq(ClientPackets)]
      /\ ops \in [Users -> Seq(Operations)]
  BY DEF TransferInv, StateFits
<1>2. /\ toServer' = [toServer EXCEPT ![u] = Tail(toServer[u])]
      /\ toClient' = [toClient EXCEPT ![u] = IF phase[u] = "out" THEN <<>> ELSE toClient[u] \o packets]
  BY <1>1 DEF Answer
<1>3. /\ Tail(toServer[u]) \in Seq(ServerPackets)
      /\ (IF phase[u] = "out" THEN <<>> ELSE toClient[u] \o packets) \in Seq(ClientPackets)
  BY <1>1
<1>4. StateFits'
  BY <1>1, <1>2, <1>3 DEF TransferInv, StateFits, clientVars
<1>5. \A v \in Users \ {u} : LeftAlone(v)
  BY <1>1, <1>2 DEF LeftAlone, clientVars
<1>6. At(u, S, Tail(ts), IF ph = "out" THEN <<>> ELSE tc \o packets, o1, n, ph, st)'
  BY <1>1, <1>2 DEF At, clientVars
<1>7. Fits(u)'
  BY <1>6, FitsAt
<1> QED BY <1>4, <1>5, <1>7, OneMoves

-----------------------------------------------------------------------------
(* The packet handlers of the server.                                      *)

\* The first packet of u, and what is there of u.
Taken(u, S, ts, tc, o, n, ph, st) ==
  /\ At(u, S, ts, tc, o, n, ph, st) /\ UserFits(u, S, ts, tc, o, n, ph, st)
  /\ u \in S /\ ts # <<>> /\ st \in Nat /\ n \in [Sessions -> Entries \union {Absent}]
  /\ ts \in Seq(ServerPackets) /\ Head(ts) \in ServerPackets /\ Head(ts) = ts[1] /\ 1 \in 1 .. Len(ts)
  /\ o \in Seq(Operations) /\ OpsFit(o) /\ Promised(ts, o) /\ ClientFits(n, ph, st)
  /\ \A s \in Sessions : AtMostOne(ts, s)

\* A packet the server has received is one of somebody it serves.
LEMMA ServerTakes ==
  ASSUME TransferInv, NEW u \in Users, toServer[u] # <<>>
  PROVE  \E S, ts, tc, o, n, ph, st : Taken(u, S, ts, tc, o, n, ph, st)
<1>1. PICK S, ts, tc, o, n, ph, st : At(u, S, ts, tc, o, n, ph, st)
  BY DEF At
<1>2. UserFits(u, S, ts, tc, o, n, ph, st)
  BY <1>1, FitsAt DEF TransferInv
<1>3. ts # <<>> /\ st \in Nat /\ ts \in Seq(ServerPackets) /\ o \in Seq(Operations)
  <2>1. started[u] \in Nat
    BY TransferAssumption DEF TransferInv, StateFits
  <2> QED BY <1>1, <2>1 DEF TransferInv, StateFits, At
<1>4. u \in S /\ OpsFit(o) /\ Promised(ts, o) /\ ClientFits(n, ph, st) /\ n \in [Sessions -> Entries \union {Absent}]
  BY <1>2, <1>3 DEF UserFits, ClientFits
<1>5. \A s \in Sessions : AtMostOne(ts, s)
  BY <1>2, <1>4 DEF UserFits, Served
<1>6. Head(ts) \in ServerPackets /\ Head(ts) = ts[1] /\ 1 \in 1 .. Len(ts)
  BY <1>3, ChannelTail
<1> QED BY <1>1, <1>2, <1>3, <1>4, <1>5, <1>6 DEF Taken

\* What the type of a packet to the server says of the stage of its session.
LEMMA StageAtServer ==
  ASSUME NEW u, NEW p, NEW s, NEW n, NEW O, NEW ph, NEW st, PacketAtServer(u, p, s, n, O, ph, st)
  PROVE  /\ p.type = "InfoRequest" => s \in Users /\ O = {} /\ (ph # "out" => ph = "login" /\ n = Absent)
         /\ p.type = "FileRequest" => O = {} /\ (ph # "out" => IsDownload(n) /\ n.key = p.key /\ n.data = <<>>)
         /\ p.type = "FileStoreRequest" =>
              O = {} /\ (ph # "out" => IsUpload(n) /\ n.key = p.key /\ n.open /\ n.seq = 0)
         /\ p.type = "FileData" =>
              \E op \in O : /\ p = FileData(s, Len(op.data), Len(op.data) + 1) /\ op.type = "store"
                            /\ ph # "out" => IsUpload(n) /\ n.key = op.key /\ n.open /\ n.seq = Len(op.data) + 1
         /\ p.type = "FileDataEnd" =>
              \E op \in O : /\ op.type = "store"
                            /\ ph # "out" => \/ n = Absent /\ s \notin Users
                                             \/ IsUpload(n) /\ n.key = op.key /\ ~n.open
         /\ p.type = "OK" =>
              \E op \in O : /\ op.type = "request"
                            /\ ph # "out" => /\ IsDownload(n) /\ n.key = op.key
                                             /\ n.data = SubSeq(op.data, 1, Len(op.data) - op.left)
BY PacketType DEF PacketAtServer

\* A single packet.
LEMMA One ==
  ASSUME NEW P, NEW q \in P
  PROVE  <<q>> \in Seq(P)
OBVIOUS

\* The handler has answered by a packet of the session, and nothing else is disturbed.
LEMMA ServerDone ==
  ASSUME TransferInv, NEW u \in Users,
         NEW S, NEW ts, NEW tc, NEW o, NEW n, NEW ph, NEW st, Taken(u, S, ts, tc, o, n, ph, st),
         NEW s \in Sessions, Of(Head(ts), s),
         UNCHANGED <<serving, clientVars>>, FilesFit', \A v : Grows(v),
         NEW o1, ops' = [ops EXCEPT ![u] = o1], OpsFit(o1)', \A r \in Sessions \ {s} : OpsOf(o1, r) = OpsOf(o, r),
         Promised(Tail(ts), o1)',
         NEW q \in ClientPackets, Answer(u, <<q>>),
         Of(q, s),
         q.type = "InfoData" => Head(ts).type = "InfoRequest", Head(ts).type = "InfoRequest" => Early(q),
         ph # "out" => PacketAtClient(u, q, s, n[s], OpsOf(o1, s), ph, st)',
         ph # "out" /\ q.type = "FileDataEnd" /\ q.code = "ok" /\ n[s] # Absent =>
           IsDownload(n[s]) /\ Complete(n[s].data, n[s].key)'
  PROVE  TransferInv'
<1>0. ph # "out" => /\ PacketAtClient(u, q, s, n[s], OpsOf(o1, s), ph, st)'
                    /\ q.type = "FileDataEnd" /\ q.code = "ok" /\ n[s] # Absent =>
                         IsDownload(n[s]) /\ Complete(n[s].data, n[s].key)'
  OBVIOUS
<1>1. UserFits(u, S, Tail(ts), IF ph = "out" THEN <<>> ELSE tc \o <<q>>, o1, n, ph, st)'
  BY <1>0, ServerAnswers DEF Taken
<1>2. <<q>> \in Seq(ClientPackets)
  BY One
<1>3. o1 \in Seq(Operations)
  BY DEF OpsFit, OpList, Operations, Contents
<1>4. u \in serving /\ toServer[u] # <<>> /\ At(u, S, ts, tc, o, n, ph, st)
  BY DEF Taken, At
<1> QED BY <1>1, <1>2, <1>3, <1>4, ServerStep

\* The same if the operations are as they were.
LEMMA ServerDoneSame ==
  ASSUME TransferInv, NEW u \in Users,
         NEW S, NEW ts, NEW tc, NEW o, NEW n, NEW ph, NEW st, Taken(u, S, ts, tc, o, n, ph, st),
         NEW s \in Sessions, Of(Head(ts), s), Head(ts).type # "FileDataEnd",
         UNCHANGED <<serving, ops, clientVars>>, FilesFit', \A v : Grows(v),
         NEW q \in ClientPackets, Answer(u, <<q>>),
         Of(q, s),
         q.type = "InfoData" => Head(ts).type = "InfoRequest", Head(ts).type = "InfoRequest" => Early(q),
         q.type = "FileDataEnd" => q.code # "ok",
         ph # "out" => PacketAtClient(u, q, s, n[s], OpsOf(o, s), ph, st)'
  PROVE  TransferInv'
<1>1. OpsFit(o)'
  BY OpsKept DEF OpsFit, Taken
<1>2. Promised(Tail(ts), o)'
  BY PromisedTailPlain DEF Taken
<1>3. ops' = [ops EXCEPT ![u] = o]
  BY DEF Taken, At, TransferInv, StateFits
<1>4. UNCHANGED <<serving, clientVars>>
  OBVIOUS
<1>5. /\ \A r \in Sessions \ {s} : OpsOf(o, r) = OpsOf(o, r)
      /\ ph # "out" /\ q.type = "FileDataEnd" /\ q.code = "ok" /\ n[s] # Absent =>
           IsDownload(n[s]) /\ Complete(n[s].data, n[s].key)'
  OBVIOUS
<1> QED BY <1>1, <1>2, <1>3, <1>4, <1>5, ServerDone

\* ProcessPacketInfoRequest: the key of an icon the server has, or that there is none.
LEMMA InfoRequestStep ==
  ASSUME TransferInv, NEW u \in Users, ProcessPacketInfoRequest(u)
  PROVE  TransferInv'
<1>1. toServer[u] # <<>> /\ Head(toServer[u]).type = "InfoRequest"
  BY DEF ProcessPacketInfoRequest, Arrived
<1>2. PICK S, ts, tc, o, n, ph, st : Taken(u, S, ts, tc, o, n, ph, st)
  BY <1>1, ServerTakes
<1>3. Head(ts).type = "InfoRequest"
  BY <1>1, <1>2 DEF Taken, At
<1>4. PICK f \in Users : Head(ts) = InfoRequest(f)
  BY <1>2, <1>3, ServerPacketIs DEF Taken
<1>5. f \in Sessions /\ Of(Head(ts), f)
  BY <1>4, PacketOf DEF Sessions
<1>6. PICK k \in Keys : k = icon[f] /\ Stored(k)
  BY DEF TransferInv, FilesFit
<1>7. OpsOf(o, f) = {} /\ (ph # "out" => ph = "login" /\ n[f] = Absent)
  <2>1. PacketAtServer(u, Head(ts), f, n[f], OpsOf(o, f), ph, st)
    BY <1>2, <1>5, FirstAtServer DEF Taken
  <2> QED BY <1>3, <2>1, StageAtServer
<1>8. UNCHANGED <<serving, ops, files, icon, mail, clientVars>>
  BY DEF ProcessPacketInfoRequest, serverVars
<1>9. ASSUME FilesFit', \A v : Grows(v), NEW q \in ClientPackets, Answer(u, <<q>>), Of(q, f), Early(q),
             ph # "out" => PacketAtClient(u, q, f, n[f], OpsOf(o, f), ph, st)'
      PROVE  TransferInv'
  BY <1>2, <1>3, <1>5, <1>8, <1>9, ServerDoneSame DEF Early
<1>10. Head(toServer[u]).session = f
  BY <1>2, <1>4, PacketFields DEF At, Taken
<1>11. ASSUME Answer(u, <<InfoReply(f, k)>>), UNCHANGED mishaps PROVE TransferInv'
  <2>1. FilesFit' /\ (\A v : Grows(v))
    BY <1>8, <1>11, FilesSame DEF TransferInv
  <2>2. Stored(k)'
    BY <1>6, <2>1 DEF Grows
  <2>3. PICK q \in ClientPackets : q = InfoReply(f, k)
    BY DEF ClientPackets
  <2>4. ph # "out" => PacketAtClient(u, q, f, n[f], OpsOf(o, f), ph, st)'
    BY <1>7, <2>2, <2>3 DEF PacketAtClient
  <2>5. Of(q, f) /\ Early(q)
    BY <2>3, PacketOf, PacketType DEF Early
  <2> QED BY <1>9, <1>11, <2>1, <2>3, <2>4, <2>5
<1>12. ASSUME Answer(u, <<Failure(f)>>), Note({<<"refused", u>>}) PROVE TransferInv'
  <2>1. mishaps' = mishaps \union {<<"refused", u>>}
    BY <1>12 DEF Note
  <2>2. <<"refused", u>> \in {"short", "failed"} \X Keys \union {"refused"} \X Users
    OBVIOUS
  <2>3. FilesFit' /\ (\A v : Grows(v)) /\ <<"refused", u>> \in mishaps'
    BY <1>8, <2>1, <2>2, FilesNoted DEF TransferInv
  <2>4. PICK q \in ClientPackets : q = Failure(f)
    BY <1>5 DEF ClientPackets
  <2>5. ph # "out" => PacketAtClient(u, q, f, n[f], OpsOf(o, f), ph, st)'
    BY <1>7, <2>3, <2>4 DEF PacketAtClient
  <2>6. Of(q, f) /\ Early(q)
    BY <1>5, <2>4, PacketOf, PacketType DEF Early
  <2> QED BY <1>9, <1>12, <2>3, <2>4, <2>5, <2>6
<1> QED BY <1>6, <1>10, <1>11, <1>12 DEF ProcessPacketInfoRequest

\* The handler has taken note of a packet of no session.
LEMMA ServerNoted ==
  ASSUME TransferInv, NEW u \in Users,
         NEW S, NEW ts, NEW tc, NEW o, NEW n, NEW ph, NEW st, Taken(u, S, ts, tc, o, n, ph, st),
         \A s \in Sessions : ~Of(Head(ts), s), Head(ts).type # "FileDataEnd",
         UNCHANGED <<serving, ops, clientVars>>, FilesFit', \A v : Grows(v),
         Answer(u, <<>>)
  PROVE  TransferInv'
<1>1. UserFits(u, S, Tail(ts), IF ph = "out" THEN <<>> ELSE tc \o <<>>, o, n, ph, st)'
  BY ServerSilent DEF Taken
<1>2. <<>> \in Seq(ClientPackets)
  OBVIOUS
<1>3. o \in Seq(Operations) /\ ops' = [ops EXCEPT ![u] = o]
  BY DEF Taken, At, TransferInv, StateFits
<1>4. u \in serving /\ toServer[u] # <<>> /\ At(u, S, ts, tc, o, n, ph, st) /\ UNCHANGED <<serving, clientVars>>
  BY DEF Taken, At
<1> QED BY <1>1, <1>2, <1>3, <1>4, ServerStep

\* ProcessPacketInfoData: the new icon is there when it is set.
LEMMA InfoDataStep ==
  ASSUME TransferInv, NEW u \in Users, ProcessPacketInfoData(u)
  PROVE  TransferInv'
<1>1. toServer[u] # <<>> /\ Head(toServer[u]).type = "InfoData"
  BY DEF ProcessPacketInfoData, Arrived
<1>2. PICK S, ts, tc, o, n, ph, st : Taken(u, S, ts, tc, o, n, ph, st)
  BY <1>1, ServerTakes
<1>3. Head(ts).type = "InfoData" /\ Head(ts) = Head(toServer[u])
  BY <1>1, <1>2 DEF Taken, At
<1>4. PICK k \in Keys : Head(ts) = NewIcon(k) /\ Head(ts).key = k
  BY <1>2, <1>3, ServerPacketIs DEF Taken
<1>5. Stored(k)
  BY <1>2, <1>3, <1>4 DEF Taken, Promised
<1>6. icon' = [icon EXCEPT ![u] = k] \/ icon' = icon
  BY <1>3, <1>4 DEF ProcessPacketInfoData
<1>7. \A v : Grows(v)
  BY DEF Grows, Stored, ProcessPacketInfoData
<1>8. FilesFit'
  <2>1. \A f \in Keys : Stored(f)' => Complete(files[f], f)'
    BY <1>7, PrefixKept DEF TransferInv, FilesFit, Stored, ProcessPacketInfoData
  <2>2. icon' \in [Users -> Keys] /\ \A v \in Users : Stored(icon[v])'
    BY <1>5, <1>6 DEF TransferInv, FilesFit, Stored, ProcessPacketInfoData
  <2> QED BY <2>1, <2>2 DEF TransferInv, FilesFit, Stored, ProcessPacketInfoData
<1>9. UNCHANGED <<serving, ops, clientVars>> /\ Answer(u, <<>>)
  BY DEF ProcessPacketInfoData
<1>10. \A s \in Sessions : ~Of(Head(ts), s)
  BY <1>4, PacketOf
<1> QED BY <1>2, <1>3, <1>7, <1>8, <1>9, <1>10, ServerNoted

\* ProcessPacketMessageNormal: what is announced is stored, or its upload has failed.
LEMMA MessageNormalStep ==
  ASSUME TransferInv, NEW u \in Users, ProcessPacketMessageNormal(u)
  PROVE  TransferInv'
<1>1. toServer[u] # <<>> /\ Head(toServer[u]).type = "MessageNormal"
  BY DEF ProcessPacketMessageNormal, Arrived
<1>2. PICK S, ts, tc, o, n, ph, st : Taken(u, S, ts, tc, o, n, ph, st)
  BY <1>1, ServerTakes
<1>3. Head(ts).type = "MessageNormal" /\ Head(ts) = Head(toServer[u])
  BY <1>1, <1>2 DEF Taken, At
<1>4. PICK v \in Users, k \in Keys : Head(ts) = FileMessage(v, k) /\ Head(ts).key = k /\ Head(ts).to = v
  BY <1>2, <1>3, ServerPacketIs DEF Taken
<1>5. Stored(k) \/ <<"failed", k>> \in mishaps
  BY <1>2, <1>3, <1>4 DEF Taken, Promised
<1>6. mail' = [mail EXCEPT ![v] = mail[v] \union {k}]
  BY <1>3, <1>4 DEF ProcessPacketMessageNormal, TransferInv, FilesFit
<1>7. \A w : Grows(w)
  BY DEF Grows, Stored, ProcessPacketMessageNormal
<1>8. FilesFit'
  <2>1. \A f \in Keys : Stored(f)' => Complete(files[f], f)'
    BY <1>7, PrefixKept DEF TransferInv, FilesFit, Stored, ProcessPacketMessageNormal
  <2>2. /\ mail' \in [Users -> SUBSET Keys]
        /\ \A w \in Users : \A f \in mail'[w] : Stored(f)' \/ <<"failed", f>> \in mishaps'
    <3>1. /\ mail \in [Users -> SUBSET Keys]
          /\ \A w \in Users : \A f \in mail[w] : Stored(f)' \/ <<"failed", f>> \in mishaps'
      BY DEF TransferInv, FilesFit, Stored, ProcessPacketMessageNormal
    <3>2. Stored(k)' \/ <<"failed", k>> \in mishaps'
      BY <1>5 DEF Stored, ProcessPacketMessageNormal
    <3>3. \A w \in Users : mail'[w] = IF w = v THEN mail[v] \union {k} ELSE mail[w]
      BY <1>6, <3>1
    <3>4. mail' \in [Users -> SUBSET Keys]
      BY <1>6, <3>1
    <3> QED BY <3>1, <3>2, <3>3, <3>4
  <2> QED BY <2>1, <2>2 DEF TransferInv, FilesFit, Stored, ProcessPacketMessageNormal
<1>9. UNCHANGED <<serving, ops, clientVars>> /\ Answer(u, <<>>)
  BY DEF ProcessPacketMessageNormal
<1>10. \A s \in Sessions : ~Of(Head(ts), s)
  BY <1>4, PacketOf
<1> QED BY <1>2, <1>3, <1>7, <1>8, <1>9, <1>10, ServerNoted

\* The operations fit when one of them is new or has gone on.
LEMMA OpsFitWith ==
  ASSUME NEW u, Grows(u), NEW o, OpsFit(o), NEW op, OpFits(op)', NEW o1, OpList(o1),
         \A j \in 1 .. Len(o1) : o1[j] = op \/ \E k \in 1 .. Len(o) : o1[j] = o[k]
  PROVE  OpsFit(o1)'
<1>1. OpList(o1)'
  BY DEF OpList, Operations, Contents
<1>2. \A k \in 1 .. Len(o) : OpFits(o[k])'
  BY OpsKept DEF OpsFit
<1>3. \A j \in 1 .. Len(o1) : OpFits(o1[j])'
  BY <1>2
<1> QED BY <1>1, <1>3 DEF OpsFit

\* And when one is taken out.
LEMMA OpsFitLess ==
  ASSUME NEW u, Grows(u), NEW o, OpsFit(o), NEW o1, OpList(o1),
         \A j \in 1 .. Len(o1) : \E k \in 1 .. Len(o) : o1[j] = o[k]
  PROVE  OpsFit(o1)'
<1>1. OpList(o1)'
  BY DEF OpList, Operations, Contents
<1>2. \A k \in 1 .. Len(o) : OpFits(o[k])'
  BY OpsKept DEF OpsFit
<1>3. \A j \in 1 .. Len(o1) : OpFits(o1[j])'
  BY <1>2
<1> QED BY <1>1, <1>3 DEF OpsFit

\* Another operation.
LEMMA OpsAdded ==
  ASSUME NEW u, Grows(u), NEW o, OpsFit(o), NEW op \in Operations, OpFits(op)',
         OpsOf(o, op.session) = {}
  PROVE  \E o1 : /\ o1 = Append(o, op)
                 /\ OpsFit(o1)' /\ OpsOf(o1, op.session) = {op}
                 /\ \A r \in Sessions \ {op.session} : OpsOf(o1, r) = OpsOf(o, r)
<1>1. OpList(o) /\ OpsOf(o, op.session) = {}
  BY DEF OpsFit
<1>2. /\ \A j \in 1 .. Len(Append(o, op)) :
           Append(o, op)[j] = op \/ \E k \in 1 .. Len(o) : Append(o, op)[j] = o[k]
      /\ OpList(Append(o, op)) /\ OpsOf(Append(o, op), op.session) = {op}
      /\ \A r : r # op.session => OpsOf(Append(o, op), r) = OpsOf(o, r)
  BY <1>1, OpsRegister
<1>3. PICK o1 : o1 = Append(o, op)
  OBVIOUS
<1>4. /\ \A j \in 1 .. Len(o1) : o1[j] = op \/ \E k \in 1 .. Len(o) : o1[j] = o[k]
      /\ OpList(o1) /\ OpsOf(o1, op.session) = {op}
      /\ \A r : r # op.session => OpsOf(o1, r) = OpsOf(o, r)
  BY <1>2, <1>3
<1>5. OpsFit(o1)'
  BY <1>4, OpsFitWith
<1> QED BY <1>3, <1>4, <1>5

\* Another operation of its session has taken the place of one, or has come.
Changed(o, o1, op) ==
  /\ OpsOf(o1, op.session) = {op}
  /\ \A r \in Sessions \ {op.session} : OpsOf(o1, r) = OpsOf(o, r)

\* An operation that has gone on.
LEMMA OpsWentOn ==
  ASSUME NEW u, Grows(u), NEW o, OpsFit(o), NEW i, NEW op, OpFits(op)', NEW a, GoesOn(o, i, op, a)
  PROVE  OpsFit(a)' /\ Changed(o, a, op)
<1>1. OpList(o)
  BY DEF OpsFit
<1>2. /\ \A j \in 1 .. Len(a) : a[j] = op \/ \E k \in 1 .. Len(o) : a[j] = o[k]
      /\ OpList(a) /\ OpsOf(a, op.session) = {op}
      /\ \A s : s # op.session => OpsOf(a, s) = OpsOf(o, s)
  BY <1>1, OpsUpdate, SMTT(20)
<1>3. OpsFit(a)'
  BY <1>2, OpsFitWith
<1> QED BY <1>2, <1>3 DEF Changed

\* An operation that is over.
LEMMA OpsOver ==
  ASSUME NEW u, Grows(u), NEW o, OpsFit(o), NEW i \in 1 .. Len(o)
  PROVE  \E o1 : /\ o1 = RemoveAt(o, i)
                 /\ OpsFit(o1)' /\ OpsOf(o1, o[i].session) = {}
                 /\ \A r \in Sessions \ {o[i].session} : OpsOf(o1, r) = OpsOf(o, r)
<1>1. OpList(o)
  BY DEF OpsFit
<1>2. /\ \A j \in 1 .. Len(RemoveAt(o, i)) :
           \E k \in 1 .. Len(o) : RemoveAt(o, i)[j] = o[k]
      /\ OpList(RemoveAt(o, i)) /\ OpsOf(RemoveAt(o, i), o[i].session) = {}
      /\ \A r : r # o[i].session => OpsOf(RemoveAt(o, i), r) = OpsOf(o, r)
  BY <1>1, OpsUnregister
<1>3. PICK o1 : o1 = RemoveAt(o, i)
  OBVIOUS
<1>4. /\ \A j \in 1 .. Len(o1) : \E k \in 1 .. Len(o) : o1[j] = o[k]
      /\ OpList(o1) /\ OpsOf(o1, o[i].session) = {}
      /\ \A r : r # o[i].session => OpsOf(o1, r) = OpsOf(o, r)
  BY <1>2, <1>3
<1>5. OpsFit(o1)'
  BY <1>4, OpsFitLess
<1> QED BY <1>3, <1>4, <1>5

\* A packet of a session, received by the server.
LEMMA SessionTaken ==
  ASSUME TransferInv, NEW u \in Users, NEW S, NEW ts, NEW tc, NEW o, NEW n, NEW ph, NEW st,
         Taken(u, S, ts, tc, o, n, ph, st), NEW s \in Sessions, Of(Head(ts), s)
  PROVE  /\ PacketAtServer(u, Head(ts), s, n[s], OpsOf(o, s), ph, st)
         /\ LET i == UserOperationGet(u, s)
            IN  \/ i = 0 /\ OpsOf(o, s) = {}
                \/ /\ i \in 1 .. Len(o) /\ i # 0 /\ o[i].session = s
                   /\ OpsOf(o, s) = {o[i]} /\ o[i] \in Operations /\ OpFits(o[i])
<1>1. PacketAtServer(u, Head(ts), s, n[s], OpsOf(o, s), ph, st)
  BY FirstAtServer DEF Taken
<1>2. ops[u] = o /\ ops[u] \in Seq(Operations) /\ OneEach(ops[u])
  BY DEF Taken, At, OpsFit, OpList
<1>3. LET i == UserOperationGet(u, s)
      IN  \/ i = 0 /\ OpsOf(o, s) = {}
          \/ i \in 1 .. Len(o) /\ i # 0 /\ o[i].session = s /\ OpsOf(o, s) = {o[i]}
  BY <1>2, OperationGet
<1>4. \A i \in 1 .. Len(o) : o[i] \in Operations /\ OpFits(o[i])
  BY DEF Taken, OpsFit, OpFits
<1> QED BY <1>1, <1>3, <1>4

\* ProcessPacketFileStoreRequest: the file is there, or an operation begins.
LEMMA FileStoreRequestStep ==
  ASSUME TransferInv, NEW u \in Users, ProcessPacketFileStoreRequest(u)
  PROVE  TransferInv'
<1>1. toServer[u] # <<>> /\ Head(toServer[u]).type = "FileStoreRequest"
  BY DEF ProcessPacketFileStoreRequest, Arrived
<1>2. PICK S, ts, tc, o, n, ph, st : Taken(u, S, ts, tc, o, n, ph, st)
  BY <1>1, ServerTakes
<1>3. Head(ts).type = "FileStoreRequest" /\ Head(ts) = Head(toServer[u]) /\ ops[u] = o
  BY <1>1, <1>2 DEF Taken, At
<1>4. PICK s \in Sessions, k \in Keys : Head(ts) = FileStoreRequest(s, k)
  BY <1>2, <1>3, ServerPacketIs DEF Taken
<1>5. /\ Of(Head(ts), s)
      /\ Head(ts).session = s /\ Head(ts).key = k /\ Head(ts).length = Pages[k]
  BY <1>4, PacketOf, PacketFields
<1>6. OpsOf(o, s) = {} /\ (ph # "out" => IsUpload(n[s]) /\ n[s].key = k /\ n[s].open /\ n[s].seq = 0)
  BY <1>2, <1>3, <1>5, SessionTaken, StageAtServer
<1>7. FilesFit' /\ (\A v : Grows(v)) /\ UNCHANGED <<serving, clientVars>> /\ \A f : Stored(f)' <=> Stored(f)
  BY FilesSame DEF TransferInv, ProcessPacketFileStoreRequest, Stored
<1>8. ASSUME Stored(k), Answer(u, <<FileDataEnd(s, "exists")>>), UNCHANGED ops PROVE TransferInv'
  <2>1. PICK q \in ClientPackets : q = FileDataEnd(s, "exists")
    BY DEF ClientPackets
  <2>2. Of(q, s) /\ q.type = "FileDataEnd" /\ q.code = "exists"
    BY <2>1, PacketOf, PacketType, PacketFields
  <2>3. ph # "out" => PacketAtClient(u, q, s, n[s], OpsOf(o, s), ph, st)'
    BY <1>6, <1>7, <1>8, <2>1 DEF PacketAtClient, IsUpload
  <2>4. Answer(u, <<q>>) /\ UNCHANGED <<serving, ops, clientVars>>
    BY <1>7, <1>8, <2>1
  <2> QED BY <1>2, <1>3, <1>5, <1>7, <2>2, <2>3, <2>4, ServerDoneSame
<1>9. ASSUME Answer(u, <<Failure(s)>>), UNCHANGED ops PROVE TransferInv'
  <2>1. PICK q \in ClientPackets : q = Failure(s)
    BY DEF ClientPackets
  <2>2. Of(q, s) /\ q.type = "Failure"
    BY <2>1, PacketOf, PacketType
  <2>3. ph # "out" => PacketAtClient(u, q, s, n[s], OpsOf(o, s), ph, st)'
    BY <1>6, <2>1 DEF PacketAtClient, IsUpload
  <2>4. Answer(u, <<q>>) /\ UNCHANGED <<serving, ops, clientVars>>
    BY <1>7, <1>9, <2>1
  <2> QED BY <1>2, <1>3, <1>5, <1>7, <2>2, <2>3, <2>4, ServerDoneSame
<1>10. ASSUME UserOperationRegister(u, StoreOperation(Head(ts))), Answer(u, <<OK(s)>>) PROVE TransferInv'
  <2>1. PICK q \in ClientPackets : q = OK(s)
    BY DEF ClientPackets
  <2>2. Of(q, s) /\ q.type = "OK"
    BY <2>1, PacketOf, PacketType
  <2>3. PICK op : op = StoreOperation(Head(ts))
    OBVIOUS
  <2>4. /\ op.type = "store" /\ op.session = s /\ op.key = k /\ op.left = Pages[k] /\ op.data = <<>>
        /\ op \in Operations
    BY <1>5, <2>3, TransferAssumption DEF StoreOperation, Operations, Contents
  <2>5. OpFits(op)'
    BY <2>4, TransferAssumption DEF OpFits, Prefix, Operations, Contents
  <2>6. OpsFit(o) /\ Grows(u) /\ OpsOf(o, op.session) = {}
    BY <1>2, <1>6, <1>7, <2>4 DEF Taken
  <2>7. PICK o1 : /\ o1 = Append(o, op)
                  /\ OpsFit(o1)' /\ OpsOf(o1, op.session) = {op}
                  /\ \A r \in Sessions \ {op.session} : OpsOf(o1, r) = OpsOf(o, r)
    BY <2>4, <2>5, <2>6, OpsAdded
  <2>7a. OpsFit(o1)' /\ OpsOf(o1, s) = {op} /\ \A r \in Sessions \ {s} : OpsOf(o1, r) = OpsOf(o, r)
    BY <2>4, <2>7
  <2>8. Promised(Tail(ts), o1)'
    <3>1. /\ ts \in Seq(ServerPackets) /\ ts # <<>> /\ Promised(ts, o) /\ AtMostOne(ts, s)
          /\ Of(Head(ts), s) /\ Grows(u)
          /\ \A r \in Sessions \ {s} : OpsOf(o1, r) = OpsOf(o, r)
      BY <1>2, <1>5, <1>7, <2>7a DEF Taken
    <3>2. Head(ts).type # "FileDataEnd"
      BY <1>3
    <3> QED BY <3>1, <3>2, PromisedTail
  <2>9. ph # "out" => PacketAtClient(u, q, s, n[s], OpsOf(o1, s), ph, st)'
    BY <1>6, <2>1, <2>4, <2>7 DEF PacketAtClient, IsUpload
  <2>10. ops' = [ops EXCEPT ![u] = o1] /\ Answer(u, <<q>>)
    BY <1>3, <1>10, <2>1, <2>3, <2>7 DEF UserOperationRegister, TransferInv, StateFits
  <2>11. /\ q.type = "InfoData" => Head(ts).type = "InfoRequest"
         /\ Head(ts).type = "InfoRequest" => Early(q)
         /\ q.type # "FileDataEnd"
    BY <1>3, <2>2
  <2>12. /\ Of(Head(ts), s) /\ UNCHANGED <<serving, clientVars>> /\ FilesFit' /\ \A v : Grows(v)
         /\ Of(q, s) /\ \A r \in Sessions \ {s} : OpsOf(o1, r) = OpsOf(o, r)
    BY <1>5, <1>7, <2>2, <2>7a
  <2> QED BY <1>2, <2>7a, <2>8, <2>9, <2>10, <2>11, <2>12, ServerDone
<1> QED BY <1>3, <1>5, <1>8, <1>9, <1>10 DEF ProcessPacketFileStoreRequest, Stored

\* An update of an operation in the list.
LEMMA GoesOnUpdate ==
  ASSUME NEW o \in Seq(Operations), NEW i \in 1 .. Len(o), NEW op \in Operations, op.session = o[i].session
  PROVE  \E o1 : o1 = [o EXCEPT ![i] = op] /\ GoesOn(o, i, op, o1)
<1>1. PICK o1 : o1 = [o EXCEPT ![i] = op]
  OBVIOUS
<1>2. o1 \in Seq(Operations) /\ Len(o1) = Len(o) /\ \A j \in 1 .. Len(o) : o1[j] = IF j = i THEN op ELSE o[j]
  BY <1>1
<1> QED BY <1>1, <1>2 DEF GoesOn

LEMMA OpsUpdated ==
  ASSUME NEW u, Grows(u), NEW o, OpsFit(o), NEW i, NEW op, OpFits(op)',
         i \in 1 .. Len(o) /\ op.session = o[i].session
  PROVE  \E o1 : o1 = [o EXCEPT ![i] = op] /\ OpsFit(o1)' /\ Changed(o, o1, op)
<1>1. PICK o1 : o1 = [o EXCEPT ![i] = op] /\ GoesOn(o, i, op, o1)
  <2>1. op \in Operations
    BY DEF OpFits, Operations, Contents
  <2>2. o \in Seq(Operations)
    BY DEF OpsFit, OpList
  <2> QED BY <2>1, <2>2, GoesOnUpdate
<1>2. GoesOn(o, i, op, o1)
  BY <1>1
<1>3. OpsFit(o1)' /\ Changed(o, o1, op)
  BY <1>2, OpsWentOn
<1> QED BY <1>1, <1>3

\* What has been promised when the operation of a session has changed.
LEMMA PromisedOn ==
  ASSUME NEW u, Grows(u), NEW S, NEW ts, NEW tc, NEW o, NEW n, NEW ph, NEW st, Taken(u, S, ts, tc, o, n, ph, st),
         NEW s \in Sessions, Of(Head(ts), s), Head(ts).type # "FileDataEnd",
         NEW o1, \A r \in Sessions \ {s} : OpsOf(o1, r) = OpsOf(o, r)
  PROVE  Promised(Tail(ts), o1)'
<1>1. /\ ts \in Seq(ServerPackets) /\ ts # <<>> /\ Promised(ts, o) /\ AtMostOne(ts, s)
      /\ Head(ts).type = "FileDataEnd" => \A op \in OpsOf(o, s) : op.type = "store" =>
           Stored(op.key)' \/ <<"failed", op.key>> \in mishaps'
  BY DEF Taken
<1> QED BY <1>1, PromisedTail

\* The operation when another page of the file has come.
LEMMA PageStored ==
  ASSUME NEW u, Grows(u), NEW op, OpFits(op), op.type = "store", op.left # 0,
         NEW page \in Nat, page = Len(op.data) + 1 \/ (page = 0 /\ <<"short", op.key>> \in mishaps')
  PROVE  \E op1 :
           /\ op1 \in Operations /\ op1 = [op EXCEPT !.data = Append(@, page), !.left = @ - 1]
           /\ OpFits(op1)'
           /\ op1.session = op.session /\ op1.type = "store" /\ op1.key = op.key
           /\ Len(op1.data) = Len(op.data) + 1
<1>1. /\ op \in Operations /\ op.key \in Keys /\ op.data \in Seq(Nat) /\ Len(op.data) \in Nat
      /\ Len(op.data) <= Pages[op.key]
      /\ \A i \in 1 .. Len(op.data) : op.data[i] = i \/ (op.data[i] = 0 /\ <<"short", op.key>> \in mishaps)
      /\ op.left = Pages[op.key] - Len(op.data)
  <2>1. op \in Operations /\ Prefix(op.data, op.key) /\ op.left = Pages[op.key] - Len(op.data)
    BY DEF OpFits
  <2>2. op.key \in Keys /\ op.data \in Seq(Nat) /\ Len(op.data) \in Nat
    BY <2>1 DEF Operations, Contents
  <2> QED BY <2>1, <2>2 DEF Prefix
<1>2. Pages[op.key] \in Nat
  BY <1>1, TransferAssumption
<1>3. PICK op1 : op1 = [op EXCEPT !.data = Append(@, page), !.left = @ - 1]
  OBVIOUS
<1>4. /\ op1.type = "store" /\ op1.session = op.session /\ op1.key = op.key
      /\ op1.left = Pages[op.key] - (Len(op.data) + 1) /\ op1.data = Append(op.data, page)
  BY <1>1, <1>2, <1>3 DEF Operations
<1>5. Len(op.data) + 1 <= Pages[op.key] /\ op1.left \in Nat
  BY <1>1, <1>2, <1>4
<1>6. /\ op1.data \in Seq(Nat) /\ Len(op1.data) = Len(op.data) + 1 /\ op1.data[Len(op.data) + 1] = page
      /\ \A i \in 1 .. Len(op.data) : op1.data[i] = op.data[i]
      /\ \A i \in 1 .. Len(op.data) + 1 : i \in 1 .. Len(op.data) \/ i = Len(op.data) + 1
  BY <1>1, <1>2, <1>4, ChannelAppend
<1>7. op1 \in Operations
  BY <1>1, <1>3, <1>5, <1>6 DEF Operations, Contents
<1>8. \A i \in 1 .. Len(op.data) : op.data[i] = i \/ (op.data[i] = 0 /\ <<"short", op.key>> \in mishaps')
  BY <1>1 DEF Grows
<1>9. \A i \in 1 .. Len(op1.data) : op1.data[i] = i \/ (op1.data[i] = 0 /\ <<"short", op1.key>> \in mishaps')
  BY <1>4, <1>6, <1>8
<1>10. Prefix(op1.data, op1.key)'
  BY <1>4, <1>5, <1>6, <1>9 DEF Prefix, Contents
<1>11. OpFits(op1)'
  <2>1. (op1 \in Operations)'
    BY <1>7 DEF Operations, Contents
  <2>2. op1.left = Pages[op1.key] - Len(op1.data) /\ op1.type = "store"
    BY <1>4, <1>6
  <2> QED BY <1>10, <2>1, <2>2 DEF OpFits
<1> QED BY <1>3, <1>4, <1>6, <1>7, <1>11

\* ProcessPacketFileData: another page, or a refusal.
LEMMA FileDataStep ==
  ASSUME TransferInv, NEW u \in Users, ProcessPacketFileData(u)
  PROVE  TransferInv'
<1>1. toServer[u] # <<>> /\ Head(toServer[u]).type = "FileData"
  BY DEF ProcessPacketFileData, Arrived
<1>2. PICK S, ts, tc, o, n, ph, st : Taken(u, S, ts, tc, o, n, ph, st)
  BY <1>1, ServerTakes
<1>3. Head(ts).type = "FileData" /\ Head(ts) = Head(toServer[u]) /\ ops[u] = o
  BY <1>1, <1>2 DEF Taken, At
<1>4. PICK s \in Sessions, a \in Nat : Head(ts) = FileData(s, a, a + 1)
  BY <1>2, <1>3, ServerPacketIs DEF Taken
<1>5. /\ Of(Head(ts), s)
      /\ Head(ts).session = s /\ Head(ts).seq = a /\ Head(ts).page = a + 1
  BY <1>4, PacketOf, PacketFields
<1>6. PacketAtServer(u, Head(ts), s, n[s], OpsOf(o, s), ph, st)
  BY <1>2, <1>5, SessionTaken
<1>7. PICK op \in OpsOf(o, s) :
        /\ Head(ts) = FileData(s, Len(op.data), Len(op.data) + 1) /\ op.type = "store"
        /\ ph # "out" => IsUpload(n[s]) /\ n[s].key = op.key /\ n[s].open /\ n[s].seq = Len(op.data) + 1
  BY <1>3, <1>6, StageAtServer
<1>8. a = Len(op.data)
  BY <1>5, <1>7, PacketFields
<1>9. PICK i : /\ i = UserOperationGet(u, s)
               /\ i \in 1 .. Len(o) /\ i # 0 /\ op = o[i] /\ OpsOf(o, s) = {op}
               /\ op.session = s /\ op \in Operations /\ OpFits(op)
  BY <1>2, <1>5, <1>7, SessionTaken
<1>10. UNCHANGED <<serving, files, icon, mail, clientVars>>
  BY DEF ProcessPacketFileData
<1>11. \/ Answer(u, <<Failure(s)>>) /\ UNCHANGED <<ops, mishaps>>
       \/ /\ op.left # 0
          /\ \E page \in {a + 1} \union (IF Trouble THEN {0} ELSE {}) :
                /\ ops' = [ops EXCEPT ![u][i].data = Append(@, page), ![u][i].left = @ - 1]
                /\ Note(IF page = 0 THEN {<<"short", op.key>>} ELSE {})
                /\ Answer(u, <<OK(s)>>)
  BY <1>3, <1>5, <1>8, <1>9 DEF ProcessPacketFileData
<1>12. ASSUME Answer(u, <<Failure(s)>>), UNCHANGED <<ops, mishaps>> PROVE TransferInv'
  <2>1. PICK q \in ClientPackets : q = Failure(s)
    BY DEF ClientPackets
  <2>2. Of(q, s) /\ q.type = "Failure"
    BY <2>1, PacketOf, PacketType
  <2>3. ph # "out" => PacketAtClient(u, q, s, n[s], OpsOf(o, s), ph, st)'
    BY <1>7, <2>1 DEF PacketAtClient, IsUpload
  <2>4. Answer(u, <<q>>) /\ UNCHANGED <<serving, ops, clientVars>>
    BY <1>10, <1>12, <2>1
  <2>5. FilesFit' /\ \A v : Grows(v)
    BY <1>10, <1>12, FilesSame DEF TransferInv
  <2> QED BY <1>2, <1>3, <1>5, <2>2, <2>3, <2>4, <2>5, ServerDoneSame
<1>13. ASSUME op.left # 0,
              NEW page \in {a + 1} \union (IF Trouble THEN {0} ELSE {}),
              ops' = [ops EXCEPT ![u][i].data = Append(@, page), ![u][i].left = @ - 1],
              Note(IF page = 0 THEN {<<"short", op.key>>} ELSE {}),
              Answer(u, <<OK(s)>>)
       PROVE  TransferInv'
  <2>1. PICK q \in ClientPackets : q = OK(s)
    BY DEF ClientPackets
  <2>2. Of(q, s) /\ q.type = "OK"
    BY <2>1, PacketOf, PacketType
  <2>3. (page = a + 1 \/ page = 0) /\ a + 1 # 0
    BY <1>4, <1>13
  <2>4. FilesFit' /\ \A v : Grows(v)
    <3>1. CASE page = 0
      <4>1. <<"short", op.key>> \in {"short", "failed"} \X Keys \union {"refused"} \X Users
        BY <1>9 DEF Operations
      <4>2. mishaps' = mishaps \union {<<"short", op.key>>}
        BY <1>13, <3>1 DEF Note
      <4> QED BY <1>10, <4>1, <4>2, FilesNoted DEF TransferInv
    <3>2. CASE page # 0
      <4>1. mishaps' = mishaps
        BY <1>13, <3>2 DEF Note
      <4> QED BY <1>10, <4>1, FilesSame DEF TransferInv
    <3> QED BY <3>1, <3>2
  <2>5. page \in Nat /\ (page = Len(op.data) + 1 \/ (page = 0 /\ <<"short", op.key>> \in mishaps'))
    <3>1. Note(IF page = 0 THEN {<<"short", op.key>>} ELSE {})
      BY <1>13
    <3>2. page = 0 => <<"short", op.key>> \in mishaps'
      BY <3>1 DEF Note
    <3> QED BY <1>4, <1>8, <2>3, <3>2
  <2>6. PICK op1 :
           /\ op1 \in Operations /\ op1 = [op EXCEPT !.data = Append(@, page), !.left = @ - 1]
           /\ OpFits(op1)'
           /\ op1.session = op.session /\ op1.type = "store" /\ op1.key = op.key
           /\ Len(op1.data) = Len(op.data) + 1
    <3>1. OpFits(op) /\ op.type = "store" /\ op.left # 0 /\ Grows(u)
      BY <1>7, <1>9, <1>13, <2>4
    <3> QED BY <2>5, <3>1, PageStored
  <2>7. /\ op1 \in Operations /\ OpFits(op1)' /\ op1.session = s /\ op1.session = o[i].session /\ op1.type = "store" /\ op1.key = op.key
        /\ Len(op1.data) = Len(op.data) + 1
    BY <1>9, <2>6
  <2>8. PICK o1 : o1 = [o EXCEPT ![i] = op1] /\ OpsFit(o1)' /\ Changed(o, o1, op1)
    <3>1. OpsFit(o) /\ Grows(u)
      BY <1>2, <2>4 DEF Taken
    <3>2. OpFits(op1)' /\ i \in 1 .. Len(o) /\ op1.session = o[i].session
      BY <1>9, <2>7
    <3> QED BY <3>1, <3>2, OpsUpdated
  <2>9. OpsFit(o1)' /\ OpsOf(o1, s) = {op1} /\ \A r \in Sessions \ {s} : OpsOf(o1, r) = OpsOf(o, r)
    BY <2>7, <2>8 DEF Changed
  <2>10. ops' = [ops EXCEPT ![u] = o1]
    <3>1. ops' = [ops EXCEPT ![u] = [ops[u] EXCEPT ![i] = [ops[u][i] EXCEPT !.data = Append(@, page), !.left = @ - 1]]]
      <4>1. ops \in [Users -> Seq(Operations)] /\ i \in 1 .. Len(ops[u])
        BY <1>3, <1>9 DEF TransferInv, StateFits
      <4>2. ops' = [ops EXCEPT ![u][i].data = Append(@, page), ![u][i].left = @ - 1]
        BY <1>13
      <4> QED BY <4>1, <4>2
    <3> QED BY <1>3, <1>9, <2>6, <2>8, <3>1
  <2>11. Promised(Tail(ts), o1)'
    <3>1. Head(ts).type # "FileDataEnd" /\ Of(Head(ts), s) /\ Grows(u)
      BY <1>3, <1>5, <2>4
    <3>2. \A r \in Sessions \ {s} : OpsOf(o1, r) = OpsOf(o, r)
      BY <2>9
    <3> QED BY <1>2, <3>1, <3>2, PromisedOn
  <2>12. ph # "out" => PacketAtClient(u, q, s, n[s], OpsOf(o1, s), ph, st)'
    BY <1>7, <2>1, <2>7, <2>9 DEF PacketAtClient, IsUpload
  <2>13. /\ q.type = "InfoData" => Head(ts).type = "InfoRequest"
         /\ Head(ts).type = "InfoRequest" => Early(q)
         /\ q.type # "FileDataEnd"
    BY <1>3, <2>2
  <2>14. Of(Head(ts), s) /\ Answer(u, <<q>>) /\ UNCHANGED <<serving, clientVars>>
    BY <1>5, <1>10, <1>13, <2>1
  <2> QED BY <1>2, <2>2, <2>4, <2>9, <2>10, <2>11, <2>12, <2>13, <2>14, ServerDone
<1> QED BY <1>11, <1>12, <1>13

\* A file has got its name.
LEMMA FilesStored ==
  ASSUME FilesFit, NEW k \in Keys, NEW d, Complete(d, k), files' = [files EXCEPT ![k] = d],
         UNCHANGED <<icon, mail, mishaps>>
  PROVE  FilesFit' /\ (\A v : Grows(v)) /\ Stored(k)'
<1>1. d \in Contents /\ d # Absent
  BY AbsentAssumption DEF Complete, Prefix
<1>2. files' \in [Keys -> Contents \union {Absent}] /\ files'[k] = d /\ \A f \in Keys : f # k => files'[f] = files[f]
  BY <1>1 DEF FilesFit
<1>3. Stored(k)' /\ \A f \in Keys : Stored(f) => Stored(f)'
  BY <1>1, <1>2 DEF Stored
<1>4. \A v : Grows(v)
  BY <1>3 DEF Grows
<1>5. Complete(d, k)'
  BY DEF Complete, Prefix, Contents
<1>6. \A f \in Keys : Stored(f)' => Complete(files[f], f)'
  <2>1. \A f \in Keys : f # k /\ Stored(f)' => Complete(files[f], f)
    BY <1>2 DEF Stored, FilesFit
  <2>2. \A f \in Keys : f # k /\ Stored(f)' => Complete(files[f], f)'
    BY <1>2, <2>1 DEF Complete, Prefix, Contents
  <2>3. Complete(files[k], k)'
    BY <1>2, <1>5 DEF Complete, Prefix, Contents
  <2> QED BY <2>2, <2>3
<1> QED BY <1>2, <1>3, <1>4, <1>6 DEF FilesFit, Contents

\* ProcessPacketFileDataEnd: the file is stored, or it is not.
LEMMA FileDataEndStep ==
  ASSUME TransferInv, NEW u \in Users, ProcessPacketFileDataEnd(u)
  PROVE  TransferInv'
<1>1. toServer[u] # <<>> /\ Head(toServer[u]).type = "FileDataEnd"
  BY DEF ProcessPacketFileDataEnd, Arrived
<1>2. PICK S, ts, tc, o, n, ph, st : Taken(u, S, ts, tc, o, n, ph, st)
  BY <1>1, ServerTakes
<1>3. Head(ts).type = "FileDataEnd" /\ Head(ts) = Head(toServer[u]) /\ ops[u] = o
  BY <1>1, <1>2 DEF Taken, At
<1>4. PICK s \in Sessions : Head(ts) = FileDataEnd(s, "ok")
  BY <1>2, <1>3, ServerPacketIs DEF Taken
<1>5. Of(Head(ts), s) /\ Head(ts).session = s
  BY <1>4, PacketOf, PacketFields
<1>6. PacketAtServer(u, Head(ts), s, n[s], OpsOf(o, s), ph, st)
  BY <1>2, <1>5, SessionTaken
<1>7. PICK op \in OpsOf(o, s) :
        /\ op.type = "store"
        /\ ph # "out" => \/ n[s] = Absent /\ s \notin Users
                         \/ IsUpload(n[s]) /\ n[s].key = op.key /\ ~n[s].open
  BY <1>3, <1>6, StageAtServer
<1>8. PICK i : /\ i = UserOperationGet(u, s)
               /\ i \in 1 .. Len(o) /\ i # 0 /\ op = o[i] /\ OpsOf(o, s) = {op}
               /\ op.session = s /\ op \in Operations /\ OpFits(op)
  BY <1>2, <1>5, <1>7, SessionTaken
<1>9. UNCHANGED <<serving, icon, mail, clientVars>>
  BY DEF ProcessPacketFileDataEnd
<1>10. /\ UserOperationUnregister(u, i)
       /\ \/ /\ op.left = 0
             /\ files' = [files EXCEPT ![op.key] = op.data]
             /\ Answer(u, <<OK(s)>>)
             /\ UNCHANGED mishaps
          \/ /\ Answer(u, <<Failure(s)>>)
             /\ Note({<<"failed", op.key>>})
             /\ UNCHANGED files
  BY <1>3, <1>5, <1>8 DEF ProcessPacketFileDataEnd
<1>11. op.key \in Keys
  BY <1>8 DEF Operations
<1>12. ASSUME FilesFit', \A v : Grows(v), Stored(op.key)' \/ <<"failed", op.key>> \in mishaps',
              NEW q \in ClientPackets, Answer(u, <<q>>), Of(q, s),
              (q = OK(s) /\ Stored(op.key)') \/ q = Failure(s)
       PROVE  TransferInv'
  <2>1. q.type \in {"OK", "Failure"}
    BY <1>12, PacketType
  <2>2. PICK o1 : /\ o1 = RemoveAt(o, i)
                  /\ OpsFit(o1)' /\ OpsOf(o1, o[i].session) = {}
                  /\ \A r \in Sessions \ {o[i].session} : OpsOf(o1, r) = OpsOf(o, r)
    BY <1>2, <1>8, <1>12, OpsOver DEF Taken
  <2>3. OpsFit(o1)' /\ OpsOf(o1, s) = {} /\ \A r \in Sessions \ {s} : OpsOf(o1, r) = OpsOf(o, r)
    BY <1>8, <2>2
  <2>4. ops' = [ops EXCEPT ![u] = o1]
    BY <1>3, <1>10, <2>2 DEF UserOperationUnregister, TransferInv, StateFits
  <2>5. Promised(Tail(ts), o1)'
    <3>1. \A p \in OpsOf(o, s) : p.type = "store" => Stored(p.key)' \/ <<"failed", p.key>> \in mishaps'
      BY <1>8, <1>12
    <3>2. /\ ts \in Seq(ServerPackets) /\ ts # <<>> /\ Promised(ts, o) /\ AtMostOne(ts, s)
          /\ Of(Head(ts), s) /\ Grows(u) /\ \A r \in Sessions \ {s} : OpsOf(o1, r) = OpsOf(o, r)
      BY <1>2, <1>5, <1>12, <2>3 DEF Taken
    <3> QED BY <3>1, <3>2, PromisedTail
  <2>6. ph # "out" => PacketAtClient(u, q, s, n[s], OpsOf(o1, s), ph, st)'
    BY <1>7, <1>12, <2>3 DEF PacketAtClient, IsUpload, Stored
  <2>7. /\ q.type = "InfoData" => Head(ts).type = "InfoRequest"
        /\ Head(ts).type = "InfoRequest" => Early(q)
        /\ q.type # "FileDataEnd"
    BY <1>3, <2>1
  <2>8. Of(Head(ts), s) /\ Answer(u, <<q>>) /\ UNCHANGED <<serving, clientVars>> /\ FilesFit' /\ \A v : Grows(v)
    BY <1>5, <1>9, <1>12
  <2> QED BY <1>2, <1>12, <2>3, <2>4, <2>5, <2>6, <2>7, <2>8, ServerDone
<1>13. CASE /\ op.left = 0
            /\ files' = [files EXCEPT ![op.key] = op.data]
            /\ Answer(u, <<OK(s)>>)
            /\ UNCHANGED mishaps
  <2>1. Complete(op.data, op.key)
    <3>1. Prefix(op.data, op.key) /\ op.left = Pages[op.key] - Len(op.data)
      BY <1>7, <1>8 DEF OpFits
    <3>2. Len(op.data) \in Nat /\ Pages[op.key] \in Nat
      BY <1>8, <1>11, TransferAssumption DEF Operations, Contents
    <3> QED BY <1>13, <3>1, <3>2 DEF Complete
  <2>2. FilesFit' /\ (\A v : Grows(v)) /\ Stored(op.key)'
    BY <1>9, <1>11, <1>13, <2>1, FilesStored DEF TransferInv
  <2>3. PICK q \in ClientPackets : q = OK(s)
    BY DEF ClientPackets
  <2>4. Of(q, s) /\ Answer(u, <<q>>) /\ ((q = OK(s) /\ Stored(op.key)') \/ q = Failure(s))
    BY <1>13, <2>2, <2>3, PacketOf
  <2> QED BY <1>12, <2>2, <2>4
<1>14. CASE Answer(u, <<Failure(s)>>) /\ Note({<<"failed", op.key>>}) /\ UNCHANGED files
  <2>1. mishaps' = mishaps \union {<<"failed", op.key>>}
    BY <1>14 DEF Note
  <2>2. <<"failed", op.key>> \in {"short", "failed"} \X Keys \union {"refused"} \X Users
    BY <1>11
  <2>3. FilesFit' /\ (\A v : Grows(v)) /\ <<"failed", op.key>> \in mishaps'
    BY <1>9, <1>14, <2>1, <2>2, FilesNoted DEF TransferInv
  <2>4. PICK q \in ClientPackets : q = Failure(s)
    BY DEF ClientPackets
  <2>5. Of(q, s) /\ Answer(u, <<q>>) /\ ((q = OK(s) /\ Stored(op.key)') \/ q = Failure(s))
    BY <1>14, <2>4, PacketOf
  <2> QED BY <1>12, <2>3, <2>5
<1> QED BY <1>10, <1>13, <1>14

\* ProcessPacketFileRequest: a file is opened, or it is not.
LEMMA FileRequestStep ==
  ASSUME TransferInv, NEW u \in Users, ProcessPacketFileRequest(u)
  PROVE  TransferInv'
<1>1. toServer[u] # <<>> /\ Head(toServer[u]).type = "FileRequest"
  BY DEF ProcessPacketFileRequest, Arrived
<1>2. PICK S, ts, tc, o, n, ph, st : Taken(u, S, ts, tc, o, n, ph, st)
  BY <1>1, ServerTakes
<1>3. Head(ts).type = "FileRequest" /\ Head(ts) = Head(toServer[u]) /\ ops[u] = o
  BY <1>1, <1>2 DEF Taken, At
<1>4. PICK s \in Sessions, k \in Keys : Head(ts) = FileRequest(s, k)
  BY <1>2, <1>3, ServerPacketIs DEF Taken
<1>5. Of(Head(ts), s) /\ Head(ts).session = s /\ Head(ts).key = k
  BY <1>4, PacketOf, PacketFields
<1>6. OpsOf(o, s) = {} /\ (ph # "out" => IsDownload(n[s]) /\ n[s].key = k /\ n[s].data = <<>>)
  BY <1>2, <1>3, <1>5, SessionTaken, StageAtServer
<1>7. UNCHANGED <<serving, files, icon, mail, clientVars>>
  BY DEF ProcessPacketFileRequest
<1>8. ASSUME UNCHANGED ops, Answer(u, <<Failure(s)>>), FilesFit', \A v : Grows(v),
             ph # "out" /\ IsIcon(n[s]) => <<"refused", u>> \in mishaps'
      PROVE  TransferInv'
  <2>1. PICK q \in ClientPackets : q = Failure(s)
    BY DEF ClientPackets
  <2>2. Of(q, s) /\ q.type = "Failure"
    BY <2>1, PacketOf, PacketType
  <2>3. ph # "out" => PacketAtClient(u, q, s, n[s], OpsOf(o, s), ph, st)'
    BY <1>6, <1>8, <2>1 DEF PacketAtClient, IsDownload, IsIcon
  <2>4. Answer(u, <<q>>) /\ UNCHANGED <<serving, ops, clientVars>>
    BY <1>7, <1>8, <2>1
  <2> QED BY <1>2, <1>3, <1>5, <1>8, <2>2, <2>3, <2>4, ServerDoneSame
<1>9. ASSUME ~Stored(k), UNCHANGED <<ops, mishaps>>, Answer(u, <<Failure(s)>>) PROVE TransferInv'
  <2>1. FilesFit' /\ \A v : Grows(v)
    BY <1>7, <1>9, FilesSame DEF TransferInv
  <2>2. ph # "out" /\ IsIcon(n[s]) => <<"refused", u>> \in mishaps'
    BY <1>2, <1>6, <1>9 DEF Taken, ClientFits, NodeFits, IsIcon
  <2> QED BY <1>8, <1>9, <2>1, <2>2
<1>10. ASSUME Note({<<"refused", u>>}), UNCHANGED ops, Answer(u, <<Failure(s)>>) PROVE TransferInv'
  <2>1. mishaps' = mishaps \union {<<"refused", u>>}
    BY <1>10 DEF Note
  <2>2. <<"refused", u>> \in {"short", "failed"} \X Keys \union {"refused"} \X Users
    OBVIOUS
  <2>3. FilesFit' /\ (\A v : Grows(v)) /\ <<"refused", u>> \in mishaps'
    BY <1>7, <2>1, <2>2, FilesNoted DEF TransferInv
  <2> QED BY <1>8, <1>10, <2>3
<1>11. ASSUME Stored(k), UserOperationRegister(u, RequestOperation(Head(ts))), UNCHANGED mishaps,
              Answer(u, <<FileDataStart(s)>>)
       PROVE  TransferInv'
  <2>1. PICK q \in ClientPackets : q = FileDataStart(s)
    BY DEF ClientPackets
  <2>2. Of(q, s) /\ q.type = "FileDataStart"
    BY <2>1, PacketOf, PacketType
  <2>3. FilesFit' /\ \A v : Grows(v)
    BY <1>7, <1>11, FilesSame DEF TransferInv
  <2>4. PICK op : op = RequestOperation(Head(ts))
    OBVIOUS
  <2>5. Complete(files[k], k)' /\ files[k] \in Seq(Nat) /\ files' = files
    BY <1>7, <1>11, <2>3 DEF FilesFit, Stored, Complete, Prefix, Contents
  <2>6. /\ op.type = "request" /\ op.session = s /\ op.key = k /\ op.data = files[k]
        /\ op.left = Len(files[k]) /\ Len(files[k]) \in Nat
        /\ op \in Operations
    BY <1>5, <2>4, <2>5 DEF RequestOperation, Operations, Contents
  <2>7. OpFits(op)'
    <3>1. Complete(op.data, op.key)'
      BY <2>5, <2>6 DEF Complete, Prefix, Contents
    <3>2. (op \in Operations)'
      BY <2>6 DEF Operations, Contents
    <3> QED BY <2>6, <3>1, <3>2 DEF OpFits
  <2>8. OpsFit(o) /\ Grows(u) /\ OpsOf(o, op.session) = {}
    BY <1>2, <1>6, <2>3, <2>6 DEF Taken
  <2>9. PICK o1 : /\ o1 = Append(o, op)
                  /\ OpsFit(o1)' /\ OpsOf(o1, op.session) = {op}
                  /\ \A r \in Sessions \ {op.session} : OpsOf(o1, r) = OpsOf(o, r)
    BY <2>6, <2>7, <2>8, OpsAdded
  <2>10. OpsFit(o1)' /\ OpsOf(o1, s) = {op} /\ \A r \in Sessions \ {s} : OpsOf(o1, r) = OpsOf(o, r)
    BY <2>6, <2>9
  <2>11. Promised(Tail(ts), o1)'
    BY <1>2, <1>3, <1>5, <2>8, <2>10, PromisedOn
  <2>12. ph # "out" => PacketAtClient(u, q, s, n[s], OpsOf(o1, s), ph, st)'
    BY <1>6, <2>1, <2>6, <2>10 DEF PacketAtClient, IsDownload
  <2>13. ops' = [ops EXCEPT ![u] = o1] /\ Answer(u, <<q>>)
    BY <1>3, <1>11, <2>1, <2>4, <2>9 DEF UserOperationRegister, TransferInv, StateFits
  <2>14. /\ q.type = "InfoData" => Head(ts).type = "InfoRequest"
         /\ Head(ts).type = "InfoRequest" => Early(q)
         /\ q.type # "FileDataEnd"
    BY <1>3, <2>2
  <2>15. Of(Head(ts), s) /\ UNCHANGED <<serving, clientVars>> /\ FilesFit' /\ \A v : Grows(v)
    BY <1>5, <1>7, <2>3
  <2> QED BY <1>2, <2>2, <2>10, <2>11, <2>12, <2>13, <2>14, <2>15, ServerDone
<1> QED BY <1>3, <1>5, <1>9, <1>10, <1>11 DEF ProcessPacketFileRequest, Stored

\* The operation when another page of the file has been sent, and what the client has then.
LEMMA PageSent ==
  ASSUME NEW u, Grows(u), NEW op, OpFits(op), op.type = "request", op.left > 0
  PROVE  \E op1 :
           /\ op1 = [op EXCEPT !.left = @ - 1]
           /\ OpFits(op1)' /\ op1.type = "request" /\ op1.session = op.session /\ op1.key = op.key
           /\ Len(op.data) - op.left \in Nat /\ op.data[Len(op.data) - op.left + 1] \in Nat
           /\ \A d : d = SubSeq(op.data, 1, Len(op.data) - op.left) =>
                Append(d, op.data[Len(op.data) - op.left + 1])
                  = SubSeq(op1.data, 1, Len(op1.data) - op1.left)
<1>1. op \in Operations /\ Complete(op.data, op.key) /\ op.left <= Len(op.data)
  BY DEF OpFits
<1>2. op.data \in Seq(Nat) /\ Len(op.data) \in Nat /\ op.left \in Nat /\ op.key \in Keys /\ op.session \in Sessions
  BY <1>1 DEF Operations, Contents
<1>3. PICK op1 : op1 = [op EXCEPT !.left = @ - 1]
  OBVIOUS
<1>4. /\ op1.type = "request" /\ op1.session = op.session /\ op1.key = op.key
      /\ op1.left = op.left - 1 /\ op1.data = op.data
  BY <1>1, <1>3 DEF Operations
<1>5. op1.left \in Nat /\ op1.left <= Len(op.data)
  BY <1>1, <1>2, <1>4
<1>6. op1 \in Operations
  BY <1>1, <1>3, <1>5 DEF Operations
<1>7. OpFits(op1)'
  <2>1. Complete(op1.data, op1.key)'
    BY <1>1, <1>2, <1>4, PrefixKept
  <2>2. (op1 \in Operations)'
    BY <1>6 DEF Operations, Contents
  <2> QED BY <1>4, <1>5, <2>1, <2>2 DEF OpFits
<1>8. ASSUME NEW d, NEW x, NEW m, d = op.data, x = op.left, m = Len(d) - x
      PROVE  m \in Nat /\ d[m + 1] \in Nat /\ Append(SubSeq(d, 1, m), d[m + 1]) = SubSeq(d, 1, m + 1)
  <2>1. d \in Seq(Nat) /\ m \in Nat /\ m + 1 \in 1 .. Len(d)
    BY <1>1, <1>2, <1>8
  <2>2. d[m + 1] \in Nat
    BY <2>1
  <2>3. Append(SubSeq(d, 1, m), d[m + 1]) = SubSeq(d, 1, m + 1)
    BY <2>1
  <2> QED BY <2>1, <2>2, <2>3
<1>9. Len(op.data) - op1.left = Len(op.data) - op.left + 1
  BY <1>2, <1>4
<1> QED BY <1>3, <1>4, <1>7, <1>8, <1>9

\* ProcessPacketStatusOK: the next page, or the end of the file.
LEMMA StatusOKStep ==
  ASSUME TransferInv, NEW u \in Users, ProcessPacketStatusOK(u)
  PROVE  TransferInv'
<1>1. toServer[u] # <<>> /\ Head(toServer[u]).type = "OK"
  BY DEF ProcessPacketStatusOK, Arrived
<1>2. PICK S, ts, tc, o, n, ph, st : Taken(u, S, ts, tc, o, n, ph, st)
  BY <1>1, ServerTakes
<1>3. Head(ts).type = "OK" /\ Head(ts) = Head(toServer[u]) /\ ops[u] = o
  BY <1>1, <1>2 DEF Taken, At
<1>4. PICK s \in Sessions : Head(ts) = OK(s)
  BY <1>2, <1>3, ServerPacketIs DEF Taken
<1>5. Of(Head(ts), s) /\ Head(ts).session = s
  BY <1>4, PacketOf, PacketFields
<1>6. PacketAtServer(u, Head(ts), s, n[s], OpsOf(o, s), ph, st)
  BY <1>2, <1>5, SessionTaken
<1>7. PICK op \in OpsOf(o, s) :
        /\ op.type = "request"
        /\ ph # "out" => /\ IsDownload(n[s]) /\ n[s].key = op.key
                         /\ n[s].data = SubSeq(op.data, 1, Len(op.data) - op.left)
  BY <1>3, <1>6, StageAtServer
<1>8. PICK i : /\ i = UserOperationGet(u, s)
               /\ i \in 1 .. Len(o) /\ i # 0 /\ op = o[i] /\ OpsOf(o, s) = {op}
               /\ op.session = s /\ op \in Operations /\ OpFits(op)
  BY <1>2, <1>5, <1>7, SessionTaken
<1>9. UNCHANGED <<serving, files, icon, mail, clientVars, mishaps>>
  BY DEF ProcessPacketStatusOK
<1>10. FilesFit' /\ \A v : Grows(v)
  BY <1>9, FilesSame DEF TransferInv
<1>11. \/ /\ op.left > 0
          /\ Answer(u, <<FileData(s, Len(op.data) - op.left, op.data[Len(op.data) - op.left + 1])>>)
          /\ ops' = [ops EXCEPT ![u][i].left = @ - 1]
       \/ /\ ~(op.left > 0)
          /\ Answer(u, <<FileDataEnd(s, "ok")>>)
          /\ UserOperationUnregister(u, i)
  <2>1. RequestContinue(u, i)
    BY <1>3, <1>5, <1>8 DEF ProcessPacketStatusOK
  <2>2. op = ops[u][i] /\ op.session = s
    BY <1>3, <1>8
  <2> QED BY <2>1, <2>2 DEF RequestContinue
<1>12. CASE /\ op.left > 0
            /\ Answer(u, <<FileData(s, Len(op.data) - op.left, op.data[Len(op.data) - op.left + 1])>>)
            /\ ops' = [ops EXCEPT ![u][i].left = @ - 1]
  <2>1. PICK op1 :
           /\ op1 = [op EXCEPT !.left = @ - 1]
           /\ OpFits(op1)' /\ op1.type = "request" /\ op1.session = op.session /\ op1.key = op.key
           /\ Len(op.data) - op.left \in Nat /\ op.data[Len(op.data) - op.left + 1] \in Nat
           /\ \A d : d = SubSeq(op.data, 1, Len(op.data) - op.left) =>
                Append(d, op.data[Len(op.data) - op.left + 1])
                  = SubSeq(op1.data, 1, Len(op1.data) - op1.left)
    <3>1. Grows(u) /\ OpFits(op) /\ op.type = "request" /\ op.left > 0
      BY <1>7, <1>8, <1>10, <1>12
    <3> QED BY <3>1, PageSent
  <2>2. PICK m \in Nat, page \in Nat :
          m = Len(op.data) - op.left /\ page = op.data[Len(op.data) - op.left + 1]
    BY <2>1
  <2>3. PICK q \in ClientPackets : q = FileData(s, m, page)
    BY DEF ClientPackets
  <2>4. Of(q, s) /\ q.type = "FileData" /\ q.page = page
    BY <2>3, PacketOf, PacketType, PacketFields
  <2>5. PICK o1 : o1 = [o EXCEPT ![i] = op1] /\ OpsFit(o1)' /\ Changed(o, o1, op1)
    <3>1. OpsFit(o) /\ Grows(u)
      BY <1>2, <1>10 DEF Taken
    <3>2. OpFits(op1)' /\ i \in 1 .. Len(o) /\ op1.session = o[i].session
      BY <1>8, <2>1
    <3> QED BY <3>1, <3>2, OpsUpdated
  <2>6. op1.session = s
    BY <1>8, <2>1
  <2>7. OpsFit(o1)' /\ OpsOf(o1, s) = {op1} /\ \A r \in Sessions \ {s} : OpsOf(o1, r) = OpsOf(o, r)
    BY <2>5, <2>6 DEF Changed
  <2>8. ops' = [ops EXCEPT ![u] = o1]
    <3>1. ops' = [ops EXCEPT ![u] = [ops[u] EXCEPT ![i] = [ops[u][i] EXCEPT !.left = @ - 1]]]
      <4>1. ops \in [Users -> Seq(Operations)] /\ i \in 1 .. Len(ops[u])
        BY <1>3, <1>8 DEF TransferInv, StateFits
      <4>2. ops' = [ops EXCEPT ![u][i].left = @ - 1]
        BY <1>12
      <4> QED BY <4>1, <4>2
    <3> QED BY <1>3, <1>8, <2>1, <2>5, <3>1
  <2>9. Promised(Tail(ts), o1)'
    <3>1. Head(ts).type # "FileDataEnd" /\ Of(Head(ts), s) /\ Grows(u)
      BY <1>3, <1>5, <1>10
    <3>2. \A r \in Sessions \ {s} : OpsOf(o1, r) = OpsOf(o, r)
      BY <2>7
    <3> QED BY <1>2, <3>1, <3>2, PromisedOn
  <2>10. ph # "out" => PacketAtClient(u, q, s, n[s], OpsOf(o1, s), ph, st)'
    <3>1. ASSUME ph # "out"
          PROVE  /\ IsDownload(n[s]) /\ n[s].key = op1.key
                 /\ Append(n[s].data, q.page) = SubSeq(op1.data, 1, Len(op1.data) - op1.left)
      <4>1. /\ IsDownload(n[s]) /\ n[s].key = op.key
            /\ n[s].data = SubSeq(op.data, 1, Len(op.data) - op.left)
        BY <1>7, <3>1
      <4>2. q.page = op.data[Len(op.data) - op.left + 1]
        BY <2>2, <2>4
      <4>3. Append(n[s].data, op.data[Len(op.data) - op.left + 1])
              = SubSeq(op1.data, 1, Len(op1.data) - op1.left)
        BY <2>1, <4>1
      <4>4. n[s].key = op1.key
        BY <2>1, <4>1
      <4> QED BY <4>1, <4>2, <4>3, <4>4
    <3>2. op1 \in OpsOf(o1, s) /\ op1.type = "request" /\ q.type = "FileData"
      BY <2>1, <2>4, <2>7
    <3> QED BY <3>1, <3>2 DEF PacketAtClient, IsDownload
  <2>11. /\ q.type = "InfoData" => Head(ts).type = "InfoRequest"
         /\ Head(ts).type = "InfoRequest" => Early(q)
         /\ q.type # "FileDataEnd"
    BY <1>3, <2>4
  <2>12. Answer(u, <<q>>)
    BY <1>12, <2>2, <2>3
  <2>13. Of(Head(ts), s) /\ Of(q, s) /\ UNCHANGED <<serving, clientVars>>
    BY <1>5, <1>9, <2>4
  <2> QED BY <1>2, <1>10, <2>7, <2>8, <2>9, <2>10, <2>11, <2>12, <2>13, ServerDone
<1>13. CASE ~(op.left > 0) /\ Answer(u, <<FileDataEnd(s, "ok")>>) /\ UserOperationUnregister(u, i)
  <2>1. PICK q \in ClientPackets : q = FileDataEnd(s, "ok")
    BY DEF ClientPackets
  <2>2. Of(q, s) /\ q.type = "FileDataEnd" /\ q.code = "ok"
    BY <2>1, PacketOf, PacketType, PacketFields
  <2>3. PICK o1 : /\ o1 = RemoveAt(o, i)
                  /\ OpsFit(o1)' /\ OpsOf(o1, o[i].session) = {}
                  /\ \A r \in Sessions \ {o[i].session} : OpsOf(o1, r) = OpsOf(o, r)
    BY <1>2, <1>8, <1>10, OpsOver DEF Taken
  <2>4. OpsFit(o1)' /\ OpsOf(o1, s) = {} /\ \A r \in Sessions \ {s} : OpsOf(o1, r) = OpsOf(o, r)
    BY <1>8, <2>3
  <2>5. ops' = [ops EXCEPT ![u] = o1]
    BY <1>3, <1>13, <2>3 DEF UserOperationUnregister, TransferInv, StateFits
  <2>6. Promised(Tail(ts), o1)'
    BY <1>2, <1>3, <1>5, <1>10, <2>4, PromisedOn
  <2>7. ph # "out" => PacketAtClient(u, q, s, n[s], OpsOf(o1, s), ph, st)'
    BY <1>7, <2>1, <2>4 DEF PacketAtClient, IsDownload
  <2>8. ph # "out" => IsDownload(n[s]) /\ Complete(n[s].data, n[s].key)'
    <3>1. /\ Complete(op.data, op.key) /\ op.left = 0 /\ Len(op.data) \in Nat /\ op.key \in Keys
          /\ op.data \in Seq(Nat)
      BY <1>7, <1>8, <1>13 DEF OpFits, Operations, Contents
    <3>2. SubSeq(op.data, 1, Len(op.data) - op.left) = op.data
      BY <3>1
    <3>3. Complete(op.data, op.key)'
      BY <1>10, <3>1, PrefixKept
    <3>4. ph # "out" => IsDownload(n[s]) /\ n[s].data = op.data /\ n[s].key = op.key
      BY <1>7, <3>2
    <3> QED BY <3>3, <3>4 DEF Complete, Prefix, Contents
  <2>9. /\ q.type = "InfoData" => Head(ts).type = "InfoRequest"
        /\ Head(ts).type = "InfoRequest" => Early(q)
        /\ ph # "out" /\ q.type = "FileDataEnd" /\ q.code = "ok" /\ n[s] # Absent =>
             IsDownload(n[s]) /\ Complete(n[s].data, n[s].key)'
    BY <1>3, <2>2, <2>8
  <2>10. Of(Head(ts), s) /\ Of(q, s) /\ UNCHANGED <<serving, clientVars>> /\ Answer(u, <<q>>)
    BY <1>5, <1>9, <1>13, <2>1, <2>2
  <2> QED BY <1>2, <1>10, <2>4, <2>5, <2>6, <2>7, <2>9, <2>10, ServerDone
<1> QED BY <1>11, <1>12, <1>13

-----------------------------------------------------------------------------
(* The end of a user's service.                                            *)

\* What is sent then: the ends of downloads.
LEMMA CancellationsAre ==
  ASSUME NEW u, NEW o \in Seq(Operations), ops[u] = o
  PROVE  /\ Cancellations(u) \in Seq(ClientPackets)
         /\ \A i \in 1 .. Len(Cancellations(u)) :
              \E j \in 1 .. Len(o) : Cancellations(u)[i] = FileDataEnd(o[j].session, "canceled")
<1> DEFINE A == ClientPackets \union {Absent}
           t == [i \in 1 .. Len(o) |->
                   IF o[i].type = "request" THEN FileDataEnd(o[i].session, "canceled") ELSE Absent]
           w == Without(t, Absent)
<1>1. \A i \in 1 .. Len(o) : FileDataEnd(o[i].session, "canceled") \in ClientPackets
  <2>1. \A s \in Sessions : FileDataEnd(s, "canceled") \in ClientPackets
    BY DEF ClientPackets
  <2>2. ASSUME NEW op \in Operations PROVE op.session \in Sessions
    BY DEF Operations
  <2>3. \A i \in 1 .. Len(o) : o[i] \in Operations
    OBVIOUS
  <2> QED BY <2>1, <2>2, <2>3
<1>2. t \in Seq(A) /\ Len(t) = Len(o)
  BY <1>1
<1>3. Cancellations(u) = w
  BY DEF Cancellations
<1>4. \A i \in 1 .. Len(o) : t[i] = Absent \/ t[i] = FileDataEnd(o[i].session, "canceled")
  OBVIOUS
<1> HIDE DEF t
<1>5. w \in Seq(A) /\ Members(w) = Members(t) \ {Absent}
  BY <1>2, WithoutType, WithoutMembers
<1> HIDE DEF w
<1>6. ASSUME NEW i \in 1 .. Len(w)
      PROVE  \E j \in 1 .. Len(o) : w[i] = FileDataEnd(o[j].session, "canceled")
  <2>1. w[i] \in Members(w)
    BY <1>5 DEF Members
  <2>2. w[i] \in Members(t) /\ w[i] # Absent
    BY <1>5, <2>1
  <2>3. PICK j \in 1 .. Len(o) : w[i] = t[j]
    BY <1>2, <2>2 DEF Members
  <2> QED BY <1>4, <2>2, <2>3
<1>7. \A i \in 1 .. Len(w) : w[i] \in ClientPackets
  BY <1>1, <1>6
<1>8. w \in Seq(ClientPackets)
  BY <1>5, <1>7
<1> QED BY <1>3, <1>6, <1>8

\* They are no news of complete files.
LEMMA DeliveredAtEnd ==
  ASSUME NEW tc \in Seq(ClientPackets), NEW n, NEW st, Delivered(tc, n, st),
         NEW c \in Seq(ClientPackets),
         \A i \in 1 .. Len(c) : \E s : Known(s, st) /\ c[i] = FileDataEnd(s, "canceled")
  PROVE  Append(tc \o c, Closed) \in Seq(ClientPackets) /\ Delivered(Append(tc \o c, Closed), n, st)
<1> DEFINE N == Len(tc)
           a == Append(tc \o c, Closed)
<1>1. Closed \in ClientPackets
  BY DEF ClientPackets
<1>2. /\ N \in Nat /\ Len(c) \in Nat /\ a \in Seq(ClientPackets) /\ Len(a) = N + Len(c) + 1
      /\ \A i \in 1 .. N : a[i] = tc[i]
      /\ \A i \in 1 .. Len(c) : a[N + i] = c[i]
      /\ a[N + Len(c) + 1] = Closed
  BY <1>1
<1> HIDE DEF a, N
<1>3. \A i \in 1 .. Len(a) : i \in 1 .. N \/ a[i] = Closed \/ (i - N \in 1 .. Len(c) /\ a[i] = c[i - N])
  <2>1. ASSUME NEW i \in 1 .. Len(a), i \notin 1 .. N, i # N + Len(c) + 1
        PROVE  i - N \in 1 .. Len(c) /\ a[i] = c[i - N]
    <3>1. i - N \in 1 .. Len(c) /\ N + (i - N) = i
      BY <1>2, <2>1
    <3> QED BY <1>2, <3>1
  <2> QED BY <1>2, <2>1
<1>4. /\ "session" \notin DOMAIN Closed /\ Closed.type = "Closed"
      /\ \A s : LET q == FileDataEnd(s, "canceled") IN q.session = s /\ q.code = "canceled" /\ q.type = "FileDataEnd"
  BY PacketFields, PacketType DEF Closed
<1>5. ASSUME NEW i \in 1 .. Len(a), i \notin 1 .. N
      PROVE  /\ "session" \in DOMAIN a[i] => Known(a[i].session, st)
             /\ a[i].type # "InfoData"
             /\ ~(a[i].type = "FileDataEnd" /\ a[i].code = "ok")
  <2>1. CASE a[i] = Closed
    BY <1>4, <2>1
  <2>2. CASE \E s : Known(s, st) /\ a[i] = FileDataEnd(s, "canceled")
    BY <1>4, <2>2
  <2> QED BY <1>3, <1>5, <2>1, <2>2
<1>6. ASSUME NEW i \in 1 .. N
      PROVE  a[i] = tc[i] /\ \A j \in 1 .. i - 1 : j \in 1 .. N /\ a[j] = tc[j]
  BY <1>2
<1>7. Delivered(a, n, st)
  BY <1>5, <1>6 DEF Delivered, N
<1> QED BY <1>2, <1>7 DEF a

\* An operation is one of a session the client has begun.
LEMMA OperationKnown ==
  ASSUME NEW u, NEW S, u \in S, NEW ts, NEW tc, NEW o, NEW n, NEW ph, NEW st \in Nat,
         UserFits(u, S, ts, tc, o, n, ph, st), ph # "out",
         NEW i \in 1 .. Len(o)
  PROVE  Known(o[i].session, st)
<1>1. o[i] \in OpsOf(o, o[i].session)
  BY DEF OpsOf
<1>2. PICK s : s = o[i].session
  OBVIOUS
<1>3. s \in Sessions /\ OpsOf(o, s) # {}
  <2>1. o[i] \in Operations
    BY DEF UserFits, OpsFit, OpList
  <2>2. o[i].session \in Sessions
    BY <2>1 DEF Operations
  <2> QED BY <1>1, <1>2, <2>2
<1>4. Flow(u, s, Among(ts, s), Among(tc, s), n[s], OpsOf(o, s), ph, st)
  BY <1>3 DEF UserFits, Served
<1>5. s \notin Users => s \in Nat /\ s >= 1
  BY <1>3, TransferAssumption DEF Sessions
<1>6. ASSUME AtRest(u, s, n[s], OpsOf(o, s), ph, st) PROVE Known(s, st)
  BY <1>3, <1>5, <1>6 DEF AtRest, Known
<1> QED BY <1>2, <1>4, <1>6 DEF Flow

\* OnlineUserDelete.
LEMMA DeleteStep ==
  ASSUME TransferInv, NEW u \in Users, u \in serving, OnlineUserDelete(u)
  PROVE  TransferInv'
<1>1. PICK S, ts, tc, o, n, ph, st : At(u, S, ts, tc, o, n, ph, st)
  BY DEF At
<1>2. UserFits(u, S, ts, tc, o, n, ph, st) /\ u \in S
  BY <1>1, FitsAt DEF TransferInv, At
<1>3. /\ serving \subseteq Users /\ ops \in [Users -> Seq(Operations)]
      /\ toServer \in [Users -> Seq(ServerPackets)] /\ toClient \in [Users -> Seq(ClientPackets)]
  BY DEF TransferInv, StateFits
<1>4. st \in Nat /\ o \in Seq(Operations) /\ tc \in Seq(ClientPackets) /\ n \in [Sessions -> Entries \union {Absent}]
  BY <1>1, TransferAssumption DEF At, TransferInv, StateFits
<1>5. FilesFit' /\ \A v : Grows(v)
  BY FilesSame DEF OnlineUserDelete, TransferInv
<1>6. PICK c : c = Cancellations(u)
  OBVIOUS
<1>7. PICK tc1 : tc1 = IF ph = "out" THEN <<>> ELSE Append(tc \o c, Closed)
  OBVIOUS
<1>8. tc1 \in Seq(ClientPackets) /\ Delivered(tc1, n, st) /\ (ph = "out" => tc1 = <<>>)
  <2>1. CASE ph = "out"
    BY <1>7, <2>1 DEF Delivered
  <2>2. CASE ph # "out"
    <3>1. c \in Seq(ClientPackets) /\ \A i \in 1 .. Len(c) : \E j \in 1 .. Len(o) :
            c[i] = FileDataEnd(o[j].session, "canceled")
      <4>1. ops[u] = o
        BY <1>1 DEF At
      <4>2. /\ Cancellations(u) \in Seq(ClientPackets)
            /\ \A i \in 1 .. Len(Cancellations(u)) :
                 \E j \in 1 .. Len(o) : Cancellations(u)[i] = FileDataEnd(o[j].session, "canceled")
        BY <1>4, <4>1, CancellationsAre
      <4> QED BY <1>6, <4>2
    <3>2. \A j \in 1 .. Len(o) : Known(o[j].session, st)
      BY <1>2, <1>4, <2>2, OperationKnown
    <3>3. \A i \in 1 .. Len(c) : \E s : Known(s, st) /\ c[i] = FileDataEnd(s, "canceled")
      BY <3>1, <3>2
    <3>4. Delivered(tc, n, st)
      BY <1>2 DEF UserFits
    <3> QED BY <1>4, <1>7, <2>2, <3>1, <3>3, <3>4, DeliveredAtEnd
  <2> QED BY <2>1, <2>2
<1>9. /\ serving' = serving \ {u} /\ ops' = [ops EXCEPT ![u] = <<>>]
      /\ toServer' = [toServer EXCEPT ![u] = <<>>] /\ toClient' = [toClient EXCEPT ![u] = tc1]
      /\ UNCHANGED clientVars
  BY <1>1, <1>3, <1>6, <1>7 DEF OnlineUserDelete, At
<1>10. StateFits'
  BY <1>3, <1>8, <1>9 DEF TransferInv, StateFits, clientVars
<1>11. \A v \in Users \ {u} : LeftAlone(v)
  BY <1>3, <1>9 DEF LeftAlone, clientVars
<1>12. PICK S1 : S1 = serving'
  OBVIOUS
<1>13. At(u, S1, <<>>, tc1, <<>>, n, ph, st)'
  BY <1>1, <1>3, <1>9, <1>12 DEF At, clientVars
<1>14. UserFits(u, S1, <<>>, tc1, <<>>, n, ph, st)'
  <2>1. OpsFit(<<>>)' /\ Promised(<<>>, <<>>)'
    BY DEF OpsFit, OpList, OneEach, Promised
  <2>2. ClientFits(n, ph, st)'
    BY <1>2, <1>4, <1>5, NodeKept DEF UserFits, ClientFits
  <2>3. Delivered(tc1, n, st)'
    BY <1>4, <1>5, <1>8, DeliveredKept
  <2>4. u \notin S1
    BY <1>9, <1>12
  <2> QED BY <1>8, <2>1, <2>2, <2>3, <2>4 DEF UserFits
<1>15. Fits(u)'
  BY <1>13, <1>14, FitsAt
<1> QED BY <1>5, <1>10, <1>11, <1>15, OneMoves

-----------------------------------------------------------------------------
(* A step of the client: a packet is taken, and the session goes on, or it *)
(* is at rest.                                                             *)

\* The packet that is first at the client is where its session is.
LEMMA FirstAtClient ==
  ASSUME NEW u, NEW S, u \in S, NEW ts, NEW tc, NEW o, NEW n, NEW ph, NEW st,
         UserFits(u, S, ts, tc, o, n, ph, st), tc # <<>>,
         NEW s \in Sessions, Of(Head(tc), s)
  PROVE  /\ PacketAtClient(u, Head(tc), s, n[s], OpsOf(o, s), ph, st)
         /\ Among(ts, s) = {}
<1>1. /\ tc \in Seq(ClientPackets) /\ AtMostOne(tc, s)
      /\ Flow(u, s, Among(ts, s), Among(tc, s), n[s], OpsOf(o, s), ph, st)
  BY DEF UserFits, Served
<1>2. Among(tc, s) = {Head(tc)}
  BY <1>1, AmongTail
<1>3. PICK p \in Among(tc, s) : /\ Among(tc, s) = {p} /\ PacketAtClient(u, p, s, n[s], OpsOf(o, s), ph, st)
                                /\ Among(ts, s) = {}
  BY <1>1, <1>2 DEF Flow
<1>4. p = Head(tc)
  BY <1>2, <1>3
<1> QED BY <1>3, <1>4

\* Information is still first when the client has taken a packet.
LEMMA InfoTaken ==
  ASSUME NEW ts, NEW tc \in Seq(ClientPackets), tc # <<>>, InfoFirst(ts, tc)
  PROVE  InfoFirst(ts, Tail(tc))
<1> DEFINE N == Len(tc)
           t == Tail(tc)
<1>1. /\ N \in Nat /\ N >= 1 /\ Len(t) = N - 1
      /\ \A i \in 1 .. N - 1 : t[i] = tc[i + 1] /\ i + 1 \in 1 .. N
  BY ChannelTail
<1> HIDE DEF t, N
<1>2. ASSUME NEW i \in 1 .. N - 1, t[i].type = "InfoData"
      PROVE  \A j \in 1 .. i : Early(t[j])
  <2>1. \A j \in 1 .. i + 1 : Early(tc[j])
    BY <1>1, <1>2 DEF InfoFirst, N
  <2>2. \A j \in 1 .. i : j \in 1 .. N - 1 /\ j + 1 \in 1 .. i + 1
    BY <1>1
  <2> QED BY <1>1, <2>1, <2>2
<1>3. ASSUME NEW i \in 1 .. Len(ts), ts[i].type = "InfoRequest"
      PROVE  /\ \A j \in 1 .. i : ts[j].type = "InfoRequest"
             /\ \A j \in 1 .. N - 1 : Early(t[j])
  <2>1. /\ \A j \in 1 .. i : ts[j].type = "InfoRequest"
        /\ \A j \in 1 .. N : Early(tc[j])
    BY <1>3 DEF InfoFirst, N
  <2> QED BY <1>1, <2>1
<1> QED BY <1>1, <1>2, <1>3 DEF InfoFirst, t

\* And when it sends one that is no request for information.
LEMMA InfoReplied ==
  ASSUME NEW ts \in Seq(ServerPackets), NEW tc, InfoFirst(ts, tc), NEW q \in ServerPackets, q.type # "InfoRequest"
  PROVE  InfoFirst(Append(ts, q), tc)
<1> DEFINE N == Len(ts)
           a == Append(ts, q)
<1>1. /\ N \in Nat /\ Len(a) = N + 1 /\ a[N + 1] = q
      /\ \A i \in 1 .. N : a[i] = ts[i]
      /\ \A i \in 1 .. N + 1 : i \in 1 .. N \/ i = N + 1
  BY ChannelAppend
<1>2. \A i \in 1 .. N : \A j \in 1 .. i : j \in 1 .. N
  BY <1>1
<1> HIDE DEF a, N
<1>3. ASSUME NEW i \in 1 .. N + 1, a[i].type = "InfoRequest"
      PROVE  /\ \A j \in 1 .. i : a[j].type = "InfoRequest"
             /\ \A j \in 1 .. Len(tc) : Early(tc[j])
  <2>1. i \in 1 .. N /\ ts[i].type = "InfoRequest"
    BY <1>1, <1>3
  <2>2. /\ \A j \in 1 .. i : ts[j].type = "InfoRequest"
        /\ \A j \in 1 .. Len(tc) : Early(tc[j])
    BY <2>1 DEF InfoFirst, N
  <2> QED BY <1>1, <1>2, <2>1, <2>2
<1> QED BY <1>1, <1>3 DEF InfoFirst, a

\* What is delivered when a packet of session s has been taken, whose node may be
\* another one now.
LEMMA DeliveredTail ==
  ASSUME NEW tc \in Seq(ClientPackets), tc # <<>>, NEW n, NEW st, Delivered(tc, n, st),
         NEW s \in Sessions, Of(Head(tc), s), NEW n1, \A r \in Sessions \ {s} : n1[r] = n[r]
  PROVE  Delivered(Tail(tc), n1, st)
<1> DEFINE N == Len(tc)
           t == Tail(tc)
<1>1. /\ N \in Nat /\ N >= 1 /\ Len(t) = N - 1 /\ Head(tc) = tc[1]
      /\ \A i \in 1 .. N - 1 : t[i] = tc[i + 1] /\ i + 1 \in 1 .. N /\ 1 \in 1 .. (i + 1) - 1
  BY ChannelTail
<1> HIDE DEF t, N
<1>2. ASSUME NEW i \in 1 .. N - 1
      PROVE  /\ "session" \in DOMAIN t[i] => Known(t[i].session, st)
             /\ t[i].type = "InfoData" => Stored(t[i].key)
             /\ t[i].type = "FileDataEnd" /\ t[i].code = "ok" =>
                  /\ \A j \in 1 .. i - 1 : ~Of(t[j], t[i].session)
                  /\ n1[t[i].session] # Absent =>
                       /\ IsDownload(n1[t[i].session])
                       /\ Complete(n1[t[i].session].data, n1[t[i].session].key)
  <2>1. PICK p \in ClientPackets : p = t[i] /\ p = tc[i + 1] /\ i + 1 \in 1 .. N
    BY <1>1 DEF N
  <2>2. /\ "session" \in DOMAIN p => Known(p.session, st)
        /\ p.type = "InfoData" => Stored(p.key)
        /\ p.type = "FileDataEnd" /\ p.code = "ok" =>
             /\ \A j \in 1 .. (i + 1) - 1 : ~Of(tc[j], p.session)
             /\ n[p.session] # Absent => /\ IsDownload(n[p.session])
                                         /\ Complete(n[p.session].data, n[p.session].key)
    BY <2>1 DEF Delivered, N
  <2>3. ASSUME p.type = "FileDataEnd", p.code = "ok"
        PROVE  (\A j \in 1 .. i - 1 : ~Of(t[j], p.session)) /\ n1[p.session] = n[p.session]
    <3>1. \A j \in 1 .. i - 1 : j \in 1 .. N - 1 /\ t[j] = tc[j + 1] /\ j + 1 \in 1 .. (i + 1) - 1
      BY <1>1
    <3>2. p.session \in Sessions
      BY <2>3, ClientPacketIs
    <3>3. p.session # s
      BY <1>1, <2>2, <2>3
    <3> QED BY <2>2, <2>3, <3>1, <3>2, <3>3
  <2> QED BY <2>1, <2>2, <2>3
<1> QED BY <1>1, <1>2 DEF Delivered, t

\* What else is promised.
LEMMA PromisedSent ==
  ASSUME NEW ts \in Seq(ServerPackets), NEW o, Promised(ts, o), NEW q \in ServerPackets,
         q.type = "InfoData" => Stored(q.key),
         q.type = "MessageNormal" =>
           \/ Stored(q.key) \/ <<"failed", q.key>> \in mishaps
           \/ \E j \in 1 .. Len(ts) : /\ ts[j].type = "FileDataEnd"
                                      /\ \E op \in OpsOf(o, ts[j].session) : op.type = "store" /\ op.key = q.key
  PROVE  Promised(Append(ts, q), o)
<1> DEFINE N == Len(ts)
           a == Append(ts, q)
<1>1. /\ N \in Nat /\ Len(a) = N + 1 /\ a[N + 1] = q
      /\ \A i \in 1 .. N : a[i] = ts[i]
      /\ \A i \in 1 .. N + 1 : i \in 1 .. N \/ i = N + 1
      /\ \A i \in 1 .. N : \A j \in 1 .. i - 1 : j \in 1 .. N
      /\ (N + 1) - 1 = N
  BY ChannelAppend
<1>2. q.type = "MessageNormal" =>
        \/ Stored(q.key) \/ <<"failed", q.key>> \in mishaps
        \/ \E j \in 1 .. N : /\ ts[j].type = "FileDataEnd"
                             /\ \E op \in OpsOf(o, ts[j].session) : op.type = "store" /\ op.key = q.key
  OBVIOUS
<1> HIDE DEF a, N
<1>3. ASSUME NEW i \in 1 .. N
      PROVE  /\ a[i].type = "InfoData" => Stored(a[i].key)
             /\ a[i].type = "MessageNormal" =>
                  \/ Stored(a[i].key) \/ <<"failed", a[i].key>> \in mishaps
                  \/ \E j \in 1 .. i - 1 : /\ a[j].type = "FileDataEnd"
                                           /\ \E op \in OpsOf(o, a[j].session) :
                                                op.type = "store" /\ op.key = a[i].key
  <2>1. /\ ts[i].type = "InfoData" => Stored(ts[i].key)
        /\ ts[i].type = "MessageNormal" =>
             \/ Stored(ts[i].key) \/ <<"failed", ts[i].key>> \in mishaps
             \/ \E j \in 1 .. i - 1 : /\ ts[j].type = "FileDataEnd"
                                      /\ \E op \in OpsOf(o, ts[j].session) :
                                           op.type = "store" /\ op.key = ts[i].key
    BY DEF Promised, N
  <2>2. a[i] = ts[i] /\ \A j \in 1 .. i - 1 : a[j] = ts[j]
    BY <1>1
  <2> QED BY <2>1, <2>2
<1>4. /\ q.type = "InfoData" => Stored(q.key)
      /\ q.type = "MessageNormal" =>
           \/ Stored(q.key) \/ <<"failed", q.key>> \in mishaps
           \/ \E j \in 1 .. N : /\ a[j].type = "FileDataEnd"
                                /\ \E op \in OpsOf(o, a[j].session) : op.type = "store" /\ op.key = q.key
  BY <1>1, <1>2
<1>5. ASSUME NEW i \in 1 .. N + 1
      PROVE  /\ a[i].type = "InfoData" => Stored(a[i].key)
             /\ a[i].type = "MessageNormal" =>
                  \/ Stored(a[i].key) \/ <<"failed", a[i].key>> \in mishaps
                  \/ \E j \in 1 .. i - 1 : /\ a[j].type = "FileDataEnd"
                                           /\ \E op \in OpsOf(o, a[j].session) :
                                                op.type = "store" /\ op.key = a[i].key
  <2>1. CASE i \in 1 .. N
    BY <1>3, <2>1
  <2>2. CASE i = N + 1
    BY <1>1, <1>4, <2>2
  <2> QED BY <1>1, <2>1, <2>2
<1> QED BY <1>1, <1>5 DEF Promised, a

\* The client has processed a packet of session s, and it sends one of this session or
\* the session is at rest.  ts1 is what is on its way then.
GoesOnOrRests(u, s, ts, ts1, x, O, ph, st) ==
  \/ ts1 = ts /\ AtRest(u, s, x, O, ph, st)
  \/ \E q \in ServerPackets :
       /\ ts1 = Append(ts, q) /\ Of(q, s) /\ q.type \notin {"InfoRequest", "InfoData", "MessageNormal"}
       /\ PacketAtServer(u, q, s, x, O, ph, st)

LEMMA ClientServed ==
  ASSUME NEW u, \A v : Grows(v), NEW S, u \in S, NEW ts, NEW tc, NEW o, NEW n, NEW ph, NEW st \in Nat,
         UserFits(u, S, ts, tc, o, n, ph, st), tc # <<>>, ph # "out",
         NEW s \in Sessions, Of(Head(tc), s), Known(s, st),
         NEW n1, \A r \in Sessions \ {s} : n1[r] = n[r], n1[s] \in Entries \union {Absent},
         NEW ts1, GoesOnOrRests(u, s, ts, ts1, n1[s], OpsOf(o, s), ph, st)
  PROVE  /\ ts1 \in Seq(ServerPackets)
         /\ Served(u, ts1, Tail(tc), o, n1, ph, st)'
         /\ InfoFirst(ts1, Tail(tc)) /\ Promised(ts1, o)
<1>1. /\ ts \in Seq(ServerPackets) /\ tc \in Seq(ClientPackets)
      /\ n \in [Sessions -> Entries \union {Absent}]
      /\ Served(u, ts, tc, o, n, ph, st) /\ InfoFirst(ts, tc) /\ Promised(ts, o)
      /\ \A r \in Sessions : AtMostOne(ts, r) /\ AtMostOne(tc, r)
      /\ \A i \in 1 .. Len(ts) : ts[i] # Closed
      /\ \A i \in 1 .. Len(tc) : tc[i] # Closed
  BY DEF UserFits, ClientFits, Served
<1>2. Among(ts, s) = {}
  BY FirstAtClient
<1>3. PICK tc1 : tc1 = Tail(tc)
  OBVIOUS
<1>4. /\ \A r \in Sessions : AtMostOne(tc1, r)
      /\ \A r \in Sessions \ {s} : Among(tc1, r) = Among(tc, r)
      /\ Among(tc1, s) = {}
  <2>1. \A r : Of(Head(tc), r) => r = s
    BY DEF Of
  <2> QED BY <1>1, <1>3, <2>1, AmongTail
<1>5. InfoFirst(ts, tc1) /\ \A i \in 1 .. Len(tc1) : tc1[i] # Closed
  BY <1>1, <1>3, InfoTaken, ChannelTail
<1>5a. ASSUME ts1 \in Seq(ServerPackets), AtMostOne(ts1, s),
              \A r \in Sessions \ {s} : AtMostOne(ts1, r) /\ Among(ts1, r) = Among(ts, r),
              Flow(u, s, Among(ts1, s), {}, n1[s], OpsOf(o, s), ph, st),
              \A i \in 1 .. Len(ts1) : ts1[i] # Closed
       PROVE  Served(u, ts1, tc1, o, n1, ph, st)'
  <2>1. PICK A, C, x, O : A = Among(ts1, s) /\ C = {} /\ x = n1[s] /\ O = OpsOf(o, s)
    OBVIOUS
  <2>2. Flow(u, s, A, C, x, O, ph, st) /\ x \in Entries \union {Absent}
    BY <1>5a, <2>1
  <2>3. Flow(u, s, A, C, x, O, ph, st)'
    <3>1. Grows(u) /\ st <= st
      OBVIOUS
    <3> QED BY <2>2, <3>1, FlowKept
  <2>4. Flow(u, s, Among(ts1, s), Among(tc1, s), n1[s], OpsOf(o, s), ph, st)'
    BY <1>4, <2>1, <2>3
  <2>5. \A r \in Sessions \ {s} : /\ AtMostOne(ts1, r) /\ Among(ts1, r) = Among(ts, r)
                                   /\ AtMostOne(tc1, r) /\ Among(tc1, r) = Among(tc, r)
                                   /\ OpsOf(o, r) = OpsOf(o, r) /\ n1[r] = n[r]
    BY <1>4, <1>5a
  <2>6. /\ \A i \in 1 .. Len(ts1) : ts1[i] # Closed
        /\ \A i \in 1 .. Len(tc1) : tc1[i] # Closed
        /\ AtMostOne(ts1, s) /\ AtMostOne(tc1, s)
    BY <1>4, <1>5, <1>5a
  <2>7. Grows(u) /\ Served(u, ts, tc, o, n, ph, st) /\ n \in [Sessions -> Entries \union {Absent}] /\ st <= st
    BY <1>1
  <2> QED BY ONLY <2>4, <2>5, <2>6, <2>7, st \in Nat, s \in Sessions, SessionMoves
<1>6. CASE ts1 = ts /\ AtRest(u, s, n1[s], OpsOf(o, s), ph, st)
  <2>1. Flow(u, s, Among(ts1, s), {}, n1[s], OpsOf(o, s), ph, st)
    BY <1>2, <1>6 DEF Flow
  <2>2. Served(u, ts1, tc1, o, n1, ph, st)'
    BY <1>1, <1>5a, <1>6, <2>1
  <2> QED BY <1>1, <1>3, <1>5, <1>6, <2>2
<1>7. ASSUME NEW q \in ServerPackets, ts1 = Append(ts, q), Of(q, s),
             q.type \notin {"InfoRequest", "InfoData", "MessageNormal"},
             PacketAtServer(u, q, s, n1[s], OpsOf(o, s), ph, st)
      PROVE  /\ ts1 \in Seq(ServerPackets)
             /\ Served(u, ts1, Tail(tc), o, n1, ph, st)'
             /\ InfoFirst(ts1, Tail(tc)) /\ Promised(ts1, o)
  <2>1. Among(ts1, s) = {q} /\ AtMostOne(ts1, s)
    BY <1>1, <1>2, <1>7, AmongAppend
  <2>2. \A r \in Sessions \ {s} : AtMostOne(ts1, r) /\ Among(ts1, r) = Among(ts, r)
    <3>1. \A r : Of(q, r) => r = s
      BY <1>7 DEF Of
    <3> QED BY <1>1, <1>7, <3>1, AmongAppend
  <2>3. Flow(u, s, Among(ts1, s), {}, n1[s], OpsOf(o, s), ph, st)
    BY <1>7, <2>1 DEF Flow
  <2>4. q # Closed
    BY <1>7, PacketOf
  <2>5. ts1 \in Seq(ServerPackets) /\ \A i \in 1 .. Len(ts1) : ts1[i] # Closed
    BY <1>1, <1>7, <2>4, ChannelAppend
  <2>6. InfoFirst(ts1, tc1)
    BY <1>1, <1>5, <1>7, InfoReplied
  <2>7. Promised(ts1, o)
    BY <1>1, <1>7, PromisedSent
  <2>8. Served(u, ts1, tc1, o, n1, ph, st)'
    BY <1>5a, <2>1, <2>2, <2>3, <2>5
  <2> QED BY <1>3, <2>5, <2>6, <2>7, <2>8
<1> QED BY <1>6, <1>7 DEF GoesOnOrRests

\* What there is for the server then.
SendsOn(u, ts1, tc1, o, n1, ph, st) ==
  /\ ts1 \in Seq(ServerPackets)
  /\ Served(u, ts1, tc1, o, n1, ph, st)'
  /\ InfoFirst(ts1, tc1) /\ Promised(ts1, o)

\* The client sends a message or its icon, too.
LEMMA ClientSays ==
  ASSUME NEW u, NEW ts, NEW tc, NEW o, NEW n, NEW ph, NEW st, SendsOn(u, ts, tc, o, n, ph, st),
         NEW m \in ServerPackets, m.type \in {"InfoData", "MessageNormal"},
         m.type = "InfoData" => Stored(m.key),
         m.type = "MessageNormal" =>
           \/ Stored(m.key) \/ <<"failed", m.key>> \in mishaps
           \/ \E j \in 1 .. Len(ts) : /\ ts[j].type = "FileDataEnd"
                                      /\ \E op \in OpsOf(o, ts[j].session) : op.type = "store" /\ op.key = m.key
  PROVE  SendsOn(u, Append(ts, m), tc, o, n, ph, st)
<1>1. /\ ts \in Seq(ServerPackets) /\ InfoFirst(ts, tc) /\ Promised(ts, o)
      /\ Served(u, ts, tc, o, n, ph, st)'
  BY DEF SendsOn
<1>2. m # Closed /\ \A s : ~Of(m, s)
  BY PacketType, PacketOf, ServerPacketIs
<1>3. PICK ts1 : ts1 = Append(ts, m)
  OBVIOUS
<1>4. \A s \in Sessions : AtMostOne(ts1, s) /\ Among(ts1, s) = Among(ts, s)
  <2>1. \A s \in Sessions : AtMostOne(ts, s)
    BY <1>1 DEF Served
  <2> QED BY <1>1, <1>2, <1>3, <2>1, AmongAppend
<1>5. ts1 \in Seq(ServerPackets) /\ \A i \in 1 .. Len(ts1) : ts1[i] = m \/ \E j \in 1 .. Len(ts) : ts1[i] = ts[j]
  BY <1>1, <1>3, ChannelAppend
<1>6. Served(u, ts1, tc, o, n, ph, st)'
  BY <1>1, <1>2, <1>4, <1>5 DEF Served
<1>7. InfoFirst(ts1, tc)
  BY <1>1, <1>3, InfoReplied
<1>8. Promised(ts1, o)
  BY <1>1, <1>3, PromisedSent
<1> QED BY <1>3, <1>5, <1>6, <1>7, <1>8 DEF SendsOn

\* The first packet for u, and what is there of u.
Received(u, S, ts, tc, o, n, ph, st) ==
  /\ At(u, S, ts, tc, o, n, ph, st) /\ UserFits(u, S, ts, tc, o, n, ph, st)
  /\ tc # <<>> /\ ph # "out" /\ st \in Nat /\ st <= MaxSessions /\ n \in [Sessions -> Entries \union {Absent}]
  /\ ts \in Seq(ServerPackets) /\ tc \in Seq(ClientPackets) /\ Head(tc) \in ClientPackets
  /\ o \in Seq(Operations) /\ OpsFit(o) /\ ClientFits(n, ph, st) /\ Delivered(tc, n, st)

LEMMA ClientTakes ==
  ASSUME TransferInv, NEW u \in Users, toClient[u] # <<>>
  PROVE  \E S, ts, tc, o, n, ph, st : Received(u, S, ts, tc, o, n, ph, st)
<1>1. PICK S, ts, tc, o, n, ph, st : At(u, S, ts, tc, o, n, ph, st)
  BY DEF At
<1>2. UserFits(u, S, ts, tc, o, n, ph, st) /\ tc # <<>>
  BY <1>1, FitsAt DEF TransferInv, At
<1>3. st \in Nat /\ st <= MaxSessions
  BY <1>1, TransferAssumption DEF At, TransferInv, StateFits
<1>4. /\ ts \in Seq(ServerPackets) /\ tc \in Seq(ClientPackets) /\ n \in [Sessions -> Entries \union {Absent}]
      /\ OpsFit(o) /\ o \in Seq(Operations) /\ ClientFits(n, ph, st) /\ Delivered(tc, n, st)
      /\ ph = "out" => tc = <<>>
  BY <1>2 DEF UserFits, ClientFits, OpsFit, OpList
<1>5. Head(tc) \in ClientPackets
  BY <1>2, <1>4, ChannelTail
<1> QED BY <1>1, <1>2, <1>3, <1>4, <1>5 DEF Received

\* It is of a session the client has begun, unless the connection is closed.
LEMMA SessionReceived ==
  ASSUME NEW u, NEW S, NEW ts, NEW tc, NEW o, NEW n, NEW ph, NEW st, Received(u, S, ts, tc, o, n, ph, st),
         Head(tc).type # "Closed"
  PROVE  /\ Head(tc).session \in Sessions /\ Of(Head(tc), Head(tc).session)
         /\ Known(Head(tc).session, st)
         /\ u \in S => PacketAtClient(u, Head(tc), Head(tc).session, n[Head(tc).session],
                                      OpsOf(o, Head(tc).session), ph, st)
<1>1. PICK p, s : p = Head(tc) /\ s = p.session
  OBVIOUS
<1>2. p \in ClientPackets /\ p.type # "Closed"
  BY <1>1 DEF Received
<1>3. s \in Sessions
  BY <1>1, <1>2, ClientPacketIs DEF Sessions
<1>4. "session" \in DOMAIN p
  BY <1>2, PacketType DEF ClientPackets, InfoReply, FileDataStart, FileData, FileDataEnd, OK, Failure
<1>5. Of(p, s)
  BY <1>1, <1>4 DEF Of
<1>6. Known(s, st)
  <2>1. p = tc[1] /\ 1 \in 1 .. Len(tc)
    BY <1>1, ChannelTail DEF Received
  <2> QED BY <1>1, <1>4, <2>1 DEF Received, Delivered
<1>7. u \in S => PacketAtClient(u, p, s, n[s], OpsOf(o, s), ph, st)
  BY <1>1, <1>3, <1>5, FirstAtClient DEF Received
<1> QED BY <1>1, <1>3, <1>5, <1>6, <1>7

\* A step of a client that leaves the rest as it is, and changes one node at most.
ClientOnly ==
  UNCHANGED <<serverVars, phase, started, logins, mishaps>> /\ cached' \in [Users -> SUBSET Keys]
NodeBecomes(u, s, n, n1) ==
  /\ nodes' = [nodes EXCEPT ![u] = n1] /\ n1 \in [Sessions -> Entries \union {Absent}]
  /\ \A r \in Sessions \ {s} : n1[r] = n[r]

\* The client has processed a packet of session s, and its phase is the same.
LEMMA ClientDone ==
  ASSUME TransferInv, NEW u \in Users,
         NEW S, NEW ts, NEW tc, NEW o, NEW n, NEW ph, NEW st, Received(u, S, ts, tc, o, n, ph, st),
         NEW s \in Sessions, Of(Head(tc), s),
         ClientOnly, NEW n1, NodeBecomes(u, s, n, n1), NodeFits(n1[s], s, ph, st),
         NEW packets, Reply(u, packets),
         NEW ts1, u \in S => ts1 = ts \o packets /\ SendsOn(u, ts1, Tail(tc), o, n1, ph, st)
  PROVE  TransferInv'
<1>0. /\ UNCHANGED <<serverVars, phase, started, logins, mishaps>> /\ cached' \in [Users -> SUBSET Keys]
      /\ nodes' = [nodes EXCEPT ![u] = n1] /\ n1 \in [Sessions -> Entries \union {Absent}]
      /\ \A r \in Sessions \ {s} : n1[r] = n[r]
  BY DEF ClientOnly, NodeBecomes
<1>1. /\ toServer \in [Users -> Seq(ServerPackets)] /\ toClient \in [Users -> Seq(ClientPackets)]
      /\ nodes \in [Users -> [Sessions -> Entries \union {Absent}]]
  BY DEF TransferInv, StateFits
<1>2. FilesFit' /\ \A v : Grows(v)
  BY <1>0, FilesSame DEF TransferInv, serverVars
<1>3. PICK ts2 : ts2 = IF u \in S THEN ts1 ELSE <<>>
  OBVIOUS
<1>4. ts2 \in Seq(ServerPackets) /\ (u \in S => SendsOn(u, ts2, Tail(tc), o, n1, ph, st)) /\ (u \notin S => ts2 = <<>>)
  BY <1>3 DEF SendsOn
<1>5. toServer' = [toServer EXCEPT ![u] = ts2] /\ toClient' = [toClient EXCEPT ![u] = Tail(tc)]
  BY <1>1, <1>3 DEF Reply, Received, At
<1>6. Tail(tc) \in Seq(ClientPackets)
  BY ChannelTail DEF Received
<1>7. StateFits'
  BY <1>0, <1>1, <1>4, <1>5, <1>6 DEF TransferInv, StateFits, serverVars
<1>8. \A v \in Users \ {u} : LeftAlone(v)
  BY <1>0, <1>1, <1>5 DEF LeftAlone, serverVars
<1>9. At(u, S, ts2, Tail(tc), o, n1, ph, st)'
  BY <1>0, <1>1, <1>5 DEF At, Received, serverVars
<1>10. UserFits(u, S, ts2, Tail(tc), o, n1, ph, st)'
  <2>1. OpsFit(o)'
    BY <1>2, OpsKept DEF Received, OpsFit
  <2>2. ClientFits(n1, ph, st)'
    <3>1. \A r \in Sessions : NodeFits(n1[r], r, ph, st)
      BY <1>0 DEF Received, ClientFits
    <3>2. \A r \in Sessions : NodeFits(n1[r], r, ph, st)'
      <4>1. ASSUME NEW r \in Sessions, NEW x, x = n1[r] PROVE NodeFits(x, r, ph, st)'
        <5>1. Grows(u) /\ st \in Nat /\ st <= st /\ NodeFits(x, r, ph, st)
          BY <1>2, <3>1, <4>1 DEF Received
        <5> QED BY <5>1, NodeKept
      <4> QED BY <4>1
    <3> QED BY <1>0, <3>2 DEF Received, ClientFits
  <2>3. Delivered(Tail(tc), n1, st)'
    <3>1. Delivered(Tail(tc), n1, st)
      BY <1>0, DeliveredTail DEF Received
    <3> QED BY <1>0, <1>2, <1>6, <3>1, DeliveredKept
  <2>4. Promised(ts2, o)'
    <3>1. CASE u \in S
      <4>1. Promised(ts2, o) /\ ts2 \in Seq(ServerPackets)
        BY <1>4, <3>1 DEF SendsOn
      <4> QED BY <1>2, <4>1, PromisedKept
    <3>2. CASE u \notin S
      BY <1>4, <3>2 DEF Promised
    <3> QED BY <3>1, <3>2
  <2>5. u \in S => Served(u, ts2, Tail(tc), o, n1, ph, st)' /\ InfoFirst(ts2, Tail(tc))
    BY <1>4 DEF SendsOn
  <2>6. u \notin S => ts2 = <<>> /\ o = <<>>
    BY <1>4 DEF Received, UserFits
  <2>7. ph # "out"
    BY DEF Received
  <2> QED BY <1>4, <1>6, <2>1, <2>2, <2>3, <2>4, <2>5, <2>6, <2>7 DEF UserFits
<1>11. Fits(u)'
  BY <1>9, <1>10, FitsAt
<1> QED BY <1>2, <1>7, <1>8, <1>11, OneMoves

\* The first packet for u, of session s, and what is there of u.
ReceivedOf(u, S, ts, tc, o, n, ph, st, p, s) ==
  /\ Received(u, S, ts, tc, o, n, ph, st)
  /\ p = Head(tc) /\ p = Head(toClient[u]) /\ nodes[u] = n /\ phase[u] = ph
  /\ p \in ClientPackets /\ s = p.session /\ s \in Sessions /\ Of(p, s) /\ Known(s, st)
  /\ n[s] \in Entries \union {Absent} /\ NodeFits(n[s], s, ph, st)
  /\ p.type = "InfoData" => Stored(p.key)
  /\ u \in S => PacketAtClient(u, p, s, n[s], OpsOf(o, s), ph, st)

LEMMA ClientTakesOf ==
  ASSUME TransferInv, NEW u \in Users, toClient[u] # <<>>, Head(toClient[u]).type # "Closed"
  PROVE  \E S, ts, tc, o, n, ph, st, p, s : ReceivedOf(u, S, ts, tc, o, n, ph, st, p, s)
<1>1. PICK S, ts, tc, o, n, ph, st : Received(u, S, ts, tc, o, n, ph, st)
  BY ClientTakes
<1>2. Head(tc) = Head(toClient[u]) /\ nodes[u] = n /\ phase[u] = ph
  BY <1>1 DEF Received, At
<1>3. Head(tc).type # "Closed"
  BY <1>2
<1>4. /\ Head(tc).session \in Sessions /\ Of(Head(tc), Head(tc).session)
      /\ Known(Head(tc).session, st)
      /\ u \in S => PacketAtClient(u, Head(tc), Head(tc).session, n[Head(tc).session],
                                   OpsOf(o, Head(tc).session), ph, st)
  BY <1>1, <1>3, SessionReceived
<1>5. n[Head(tc).session] \in Entries \union {Absent} /\ NodeFits(n[Head(tc).session], Head(tc).session, ph, st)
  BY <1>1, <1>4 DEF Received, ClientFits
<1>6. Head(tc).type = "InfoData" => Stored(Head(tc).key)
  <2>1. Head(tc) = tc[1] /\ 1 \in 1 .. Len(tc)
    BY <1>1, ChannelTail DEF Received
  <2> QED BY <1>1, <2>1 DEF Received, Delivered
<1>7. PICK p, s : p = Head(tc) /\ s = p.session
  OBVIOUS
<1>8. ReceivedOf(u, S, ts, tc, o, n, ph, st, p, s)
  BY <1>1, <1>2, <1>4, <1>5, <1>6, <1>7 DEF ReceivedOf, Received
<1> QED BY <1>8

\* What the client may send, if it is served: nothing, the next packet of the session, an
\* announcement of what is stored, or both at the end of a file.
Follows(u, s, packets, x, O, ph, st) ==
  \/ packets = <<>> /\ AtRest(u, s, x, O, ph, st)
  \/ \E q \in ServerPackets :
       /\ packets = <<q>> /\ Of(q, s) /\ q.type \notin {"InfoRequest", "InfoData", "MessageNormal"}
       /\ PacketAtServer(u, q, s, x, O, ph, st)
  \/ \E m \in ServerPackets :
       /\ packets = <<m>> /\ m.type \in {"InfoData", "MessageNormal"} /\ Stored(m.key)
       /\ AtRest(u, s, x, O, ph, st)
  \/ \E q \in ServerPackets, m \in ServerPackets :
       /\ packets = <<q, m>> /\ Of(q, s) /\ q.type = "FileDataEnd"
       /\ PacketAtServer(u, q, s, x, O, ph, st)
       /\ m.type = "MessageNormal" /\ \E op \in O : op.type = "store" /\ op.key = m.key

\* One packet more, or two.
LEMMA ChannelMore ==
  ASSUME NEW P, NEW c \in Seq(P)
  PROVE  /\ c \o <<>> = c
         /\ \A q \in P : c \o <<q>> = Append(c, q)
         /\ \A q \in P, m \in P : c \o <<q, m>> = Append(Append(c, q), m)
<1>1. \A q \in P, m \in P : c \o <<q, m>> = Append(Append(c, q), m)
  OBVIOUS
<1> QED BY <1>1

LEMMA FollowsOn ==
  ASSUME \A v : Grows(v),
         NEW u, NEW S, NEW ts, NEW tc, NEW o, NEW n, NEW ph, NEW st, NEW p, NEW s,
         ReceivedOf(u, S, ts, tc, o, n, ph, st, p, s), u \in S,
         NEW n1, \A r \in Sessions \ {s} : n1[r] = n[r], n1[s] \in Entries \union {Absent},
         NEW packets, Follows(u, s, packets, n1[s], OpsOf(o, s), ph, st),
         NEW ts1, ts1 = ts \o packets
  PROVE  SendsOn(u, ts1, Tail(tc), o, n1, ph, st)
<1>1. /\ UserFits(u, S, ts, tc, o, n, ph, st) /\ tc # <<>> /\ ph # "out" /\ st \in Nat
      /\ ts \in Seq(ServerPackets)
      /\ s \in Sessions /\ Of(Head(tc), s) /\ Known(s, st)
  BY DEF ReceivedOf, Received
<1>2. ASSUME NEW c, GoesOnOrRests(u, s, ts, c, n1[s], OpsOf(o, s), ph, st)
      PROVE  SendsOn(u, c, Tail(tc), o, n1, ph, st)
  BY <1>1, <1>2, ClientServed DEF SendsOn
<1>3. CASE packets = <<>> /\ AtRest(u, s, n1[s], OpsOf(o, s), ph, st)
  <2>1. GoesOnOrRests(u, s, ts, ts, n1[s], OpsOf(o, s), ph, st)
    BY <1>3 DEF GoesOnOrRests
  <2>2. ts1 = ts
    BY <1>1, <1>3, ChannelMore
  <2> QED BY <1>2, <2>1, <2>2
<1>4. ASSUME NEW q \in ServerPackets, packets = <<q>>, Of(q, s),
             q.type \notin {"InfoRequest", "InfoData", "MessageNormal"},
             PacketAtServer(u, q, s, n1[s], OpsOf(o, s), ph, st)
      PROVE  SendsOn(u, ts1, Tail(tc), o, n1, ph, st)
  <2>1. GoesOnOrRests(u, s, ts, Append(ts, q), n1[s], OpsOf(o, s), ph, st)
    BY <1>4 DEF GoesOnOrRests
  <2>2. ts1 = Append(ts, q)
    BY <1>1, <1>4, ChannelMore
  <2> QED BY <1>2, <2>1, <2>2
<1>5. ASSUME NEW m \in ServerPackets, packets = <<m>>, m.type \in {"InfoData", "MessageNormal"},
             Stored(m.key), AtRest(u, s, n1[s], OpsOf(o, s), ph, st)
      PROVE  SendsOn(u, ts1, Tail(tc), o, n1, ph, st)
  <2>1. GoesOnOrRests(u, s, ts, ts, n1[s], OpsOf(o, s), ph, st)
    BY <1>5 DEF GoesOnOrRests
  <2>2. ts1 = Append(ts, m)
    BY <1>1, <1>5, ChannelMore
  <2>3. SendsOn(u, ts, Tail(tc), o, n1, ph, st)
    BY <1>2, <2>1
  <2> QED BY <1>5, <2>2, <2>3, ClientSays
<1>6. ASSUME NEW q \in ServerPackets, NEW m \in ServerPackets, packets = <<q, m>>, Of(q, s), q.type = "FileDataEnd",
             PacketAtServer(u, q, s, n1[s], OpsOf(o, s), ph, st), m.type = "MessageNormal",
             \E op \in OpsOf(o, s) : op.type = "store" /\ op.key = m.key
      PROVE  SendsOn(u, ts1, Tail(tc), o, n1, ph, st)
  <2>1. PICK c : c = Append(ts, q)
    OBVIOUS
  <2>2. GoesOnOrRests(u, s, ts, c, n1[s], OpsOf(o, s), ph, st)
    BY <1>6, <2>1 DEF GoesOnOrRests
  <2>3. ts1 = Append(c, m)
    BY <1>1, <1>6, <2>1, ChannelMore
  <2>4. SendsOn(u, c, Tail(tc), o, n1, ph, st)
    BY <1>2, <2>2
  <2>5. \E j \in 1 .. Len(c) : /\ c[j].type = "FileDataEnd"
                               /\ \E op \in OpsOf(o, c[j].session) : op.type = "store" /\ op.key = m.key
    <3>1. Len(ts) + 1 \in 1 .. Len(c) /\ c[Len(ts) + 1] = q
      BY <1>1, <2>1
    <3>2. q.session = s
      BY <1>6 DEF Of
    <3> QED BY <1>6, <3>1, <3>2
  <2> QED BY <1>6, <2>3, <2>4, <2>5, ClientSays
<1> QED BY <1>3, <1>4, <1>5, <1>6 DEF Follows

\* A step of the client in which session s goes on.
LEMMA ClientGoesOn ==
  ASSUME TransferInv, NEW u \in Users,
         NEW S, NEW ts, NEW tc, NEW o, NEW n, NEW ph, NEW st, NEW p, NEW s,
         ReceivedOf(u, S, ts, tc, o, n, ph, st, p, s),
         ClientOnly, NEW x, x \in Entries \union {Absent} /\ NodeFits(x, s, ph, st), SetNode(u, s, x),
         NEW packets, Reply(u, packets),
         u \in S => Follows(u, s, packets, x, OpsOf(o, s), ph, st)
  PROVE  TransferInv'
<1>1. /\ Received(u, S, ts, tc, o, n, ph, st) /\ s \in Sessions /\ Of(Head(tc), s)
      /\ n \in [Sessions -> Entries \union {Absent}]
      /\ nodes[u] = n
  BY DEF ReceivedOf, Received
<1>2. PICK n1 : n1 = [n EXCEPT ![s] = x]
  OBVIOUS
<1>3. /\ n1 \in [Sessions -> Entries \union {Absent}] /\ n1[s] = x
      /\ \A r \in Sessions \ {s} : n1[r] = n[r]
  BY <1>1, <1>2
<1>4. NodeBecomes(u, s, n, n1)
  <2>1. nodes' = [nodes EXCEPT ![u] = n1]
    BY <1>1, <1>2 DEF SetNode, TransferInv, StateFits
  <2> QED BY <1>3, <2>1 DEF NodeBecomes
<1>5. PICK ts1 : ts1 = ts \o packets
  OBVIOUS
<1>6. \A v : Grows(v)
  BY FilesSame DEF TransferInv, ClientOnly, serverVars
<1>7. ASSUME u \in S PROVE SendsOn(u, ts1, Tail(tc), o, n1, ph, st)
  BY <1>3, <1>5, <1>6, <1>7, FollowsOn
<1>8. NodeFits(n1[s], s, ph, st)
  BY <1>3
<1>9. u \in S => ts1 = ts \o packets /\ SendsOn(u, ts1, Tail(tc), o, n1, ph, st)
  BY <1>5, <1>7
<1> QED BY <1>1, <1>4, <1>8, <1>9, ClientDone

-----------------------------------------------------------------------------
(* What the client does with packets.                                      *)

\* The stage of a session, by the type of the packet that is at the client.
Continues(n, page, op) == Append(n.data, page) = SubSeq(op.data, 1, Len(op.data) - op.left)

OKFits(n, s, O) ==
  \/ \E op \in O : /\ op.type = "store" /\ IsUpload(n) /\ n.key = op.key
                   /\ n.open /\ n.seq = Len(op.data)
  \/ O = {} /\ IsUpload(n) /\ ~n.open /\ Stored(n.key)
  \/ O = {} /\ n = Absent /\ s \notin Users

LEMMA StageAtClient ==
  ASSUME NEW u, NEW p, NEW s, NEW n, NEW O, NEW ph, NEW st, PacketAtClient(u, p, s, n, O, ph, st)
  PROVE  /\ p.type = "InfoData" => s \in Users /\ O = {} /\ ph = "login" /\ n = Absent
         /\ p.type = "FileDataStart" =>
              \E op \in O : /\ op.type = "request" /\ IsDownload(n) /\ n.key = op.key /\ n.data = <<>>
                            /\ op.left = Len(op.data)
         /\ p.type = "FileData" =>
              \E op \in O : /\ op.type = "request" /\ IsDownload(n) /\ n.key = op.key
                            /\ Continues(n, p.page, op)
         /\ p.type = "FileDataEnd" =>
              O = {} /\ (IsDownload(n) \/ (IsUpload(n) /\ Stored(n.key)))
         /\ p.type = "OK" => OKFits(n, s, O)
         /\ p.type = "Failure" =>
              \/ O = {} /\ n = Absent /\ (s \in Users => <<"refused", u>> \in mishaps)
              \/ IsUpload(n) /\ (~n.open => O = {})
              \/ O = {} /\ IsDownload(n) /\ (IsIcon(n) => <<"refused", u>> \in mishaps)
<1>1. ASSUME NEW k, p = InfoReply(s, k) PROVE p.type = "InfoData"
  BY <1>1, PacketType
<1>2. /\ p = FileDataStart(s) => p.type = "FileDataStart"
      /\ p = FileDataEnd(s, "ok") => p.type = "FileDataEnd"
      /\ p = FileDataEnd(s, "exists") => p.type = "FileDataEnd"
      /\ p = OK(s) => p.type = "OK"
      /\ p = Failure(s) => p.type = "Failure"
  BY PacketType
<1> DEFINE Stage ==
      \/ p.type = "InfoData" /\ s \in Users /\ O = {} /\ ph = "login" /\ n = Absent
      \/ /\ p.type = "FileDataStart"
         /\ \E op \in O : /\ op.type = "request" /\ IsDownload(n) /\ n.key = op.key /\ n.data = <<>>
                         /\ op.left = Len(op.data)
      \/ /\ p.type = "FileData"
         /\ \E op \in O : op.type = "request" /\ IsDownload(n) /\ n.key = op.key /\ Continues(n, p.page, op)
      \/ p.type = "FileDataEnd" /\ O = {} /\ (IsDownload(n) \/ (IsUpload(n) /\ Stored(n.key)))
      \/ p.type = "OK" /\ OKFits(n, s, O)
      \/ /\ p.type = "Failure"
         /\ \/ O = {} /\ n = Absent /\ (s \in Users => <<"refused", u>> \in mishaps)
            \/ IsUpload(n) /\ (~n.open => O = {})
            \/ O = {} /\ IsDownload(n) /\ (IsIcon(n) => <<"refused", u>> \in mishaps)
<1> HIDE DEF Stage
<1>3. ASSUME (\E k \in Keys : p = InfoReply(s, k) /\ Stored(k)) /\ s \in Users /\ O = {} /\ ph = "login" /\ n = Absent
      PROVE  Stage
  BY <1>1, <1>3 DEF Stage
<1>4. ASSUME \E op \in O : /\ p = FileDataStart(s) /\ op.type = "request"
                          /\ IsDownload(n) /\ n.key = op.key /\ n.data = <<>> /\ op.left = Len(op.data)
      PROVE  Stage
  BY <1>2, <1>4, Zenon DEF Stage
<1>5. ASSUME \E op \in O : /\ p.type = "FileData" /\ op.type = "request"
                          /\ IsDownload(n) /\ n.key = op.key
                          /\ Append(n.data, p.page) = SubSeq(op.data, 1, Len(op.data) - op.left)
      PROVE  Stage
  BY <1>5, Zenon DEF Continues, Stage
<1>6. ASSUME p = FileDataEnd(s, "ok") /\ O = {} /\ IsDownload(n)
      PROVE  Stage
  <2>1. p.type = "FileDataEnd"
    BY <1>2, <1>6, Zenon
  <2>2. O = {} /\ IsDownload(n)
    BY <1>6
  <2> QED BY <2>1, <2>2, Zenon DEF Stage
<1>7. ASSUME p = FileDataEnd(s, "exists") /\ O = {} /\ IsUpload(n) /\ n.open /\ Stored(n.key)
      PROVE  Stage
  BY <1>2, <1>7, Zenon DEF Stage
<1>8. ASSUME /\ p = OK(s)
             /\ \/ \E op \in O : /\ op.type = "store" /\ IsUpload(n) /\ n.key = op.key
                                 /\ n.open /\ n.seq = Len(op.data)
                \/ O = {} /\ IsUpload(n) /\ ~n.open /\ Stored(n.key)
                \/ O = {} /\ n = Absent /\ s \notin Users
      PROVE  Stage
  BY <1>2, <1>8, Zenon DEF Stage, OKFits
<1>9. ASSUME /\ p = Failure(s)
             /\ \/ O = {} /\ n = Absent /\ (s \in Users => <<"refused", u>> \in mishaps)
                \/ IsUpload(n) /\ (~n.open => O = {})
                \/ O = {} /\ IsDownload(n) /\ (IsIcon(n) => <<"refused", u>> \in mishaps)
      PROVE  Stage
  BY <1>2, <1>9, Zenon DEF Stage
<1>10. Stage
  BY <1>3, <1>4, <1>5, <1>6, <1>7, <1>8, <1>9 DEF PacketAtClient
<1> QED BY <1>10 DEF Stage

\* The kinds of nodes exclude each other.
LEMMA Kinds ==
  ASSUME NEW n
  PROVE  /\ ~(IsUpload(n) /\ IsDownload(n))
         /\ n = Absent => ~IsUpload(n) /\ ~IsDownload(n) /\ ~IsIcon(n)
BY DEF IsUpload, IsDownload, IsIcon, Downloads

\* A session that is over is at rest.
LEMMA OverAtRest ==
  ASSUME NEW u, NEW s \in Sessions, NEW n \in Entries, NEW ph, NEW st \in Nat, st <= MaxSessions,
         NodeFits(n, s, ph, st), n.kind \notin {"login", "loaded"}, NEW O
  PROVE  s \notin Users /\ s \in 1 .. st /\ AtRest(u, s, Absent, O, ph, st) /\ NodeFits(Absent, s, ph, st)
<1>1. s \in 1 .. st
  BY AbsentAssumption DEF NodeFits
<1>2. s \notin Users
  BY <1>1, TransferAssumption DEF Sessions
<1> QED BY <1>1, <1>2 DEF AtRest, NodeFits

\* LoginInfoData: the icon of a friend is asked for.
LEMMA LoginInfoDataStep ==
  ASSUME TransferInv, NEW u \in Users, LoginInfoData(u)
  PROVE  TransferInv'
<1>1. toClient[u] # <<>> /\ Head(toClient[u]).type = "InfoData"
  BY DEF LoginInfoData, Arrived
<1>2. PICK S, ts, tc, o, n, ph, st, p, s : ReceivedOf(u, S, ts, tc, o, n, ph, st, p, s)
  BY <1>1, ClientTakesOf
<1>3. /\ p = Head(toClient[u]) /\ p.type = "InfoData" /\ p \in ClientPackets /\ s = p.session /\ Stored(p.key)
      /\ ph = "login" /\ s \in Sessions /\ NodeFits(n[s], s, ph, st)
  BY <1>1, <1>2 DEF ReceivedOf, LoginInfoData
<1>4. s \in Users /\ p.key \in Keys
  BY <1>3, ClientPacketIs
<1>5. PICK x, q : x = Download("login", p.key) /\ q = FileRequest(s, p.key)
  OBVIOUS
<1>6. /\ x \in Entries /\ x # Absent /\ x.kind = "login" /\ x.key = p.key /\ x.data = <<>>
      /\ q \in ServerPackets /\ Of(q, s) /\ q.type = "FileRequest" /\ q.key = p.key
  <2>1. x \in Entries /\ x.kind = "login" /\ x.key = p.key /\ x.data = <<>>
    BY <1>4, <1>5 DEF Download, Entries, Contents, Downloads
  <2>2. q \in ServerPackets /\ Of(q, s) /\ q.type = "FileRequest" /\ q.key = p.key
    BY <1>3, <1>4, <1>5, PacketOf, PacketType, PacketFields DEF ServerPackets
  <2> QED BY <2>1, <2>2, AbsentAssumption
<1>7. NodeFits(x, s, ph, st)
  BY <1>3, <1>4, <1>6 DEF NodeFits
<1>8. ASSUME u \in S PROVE Follows(u, s, <<q>>, x, OpsOf(o, s), ph, st)
  <2>1. PacketAtClient(u, p, s, n[s], OpsOf(o, s), ph, st)
    BY <1>2, <1>8 DEF ReceivedOf
  <2>2. OpsOf(o, s) = {}
    BY <1>3, <2>1, StageAtClient
  <2>3. PacketAtServer(u, q, s, x, OpsOf(o, s), ph, st)
    BY <1>4, <1>5, <1>6, <2>2 DEF PacketAtServer, IsDownload, Downloads
  <2> QED BY <1>6, <2>3 DEF Follows
<1>9. SetNode(u, s, x) /\ Reply(u, <<q>>)
  BY <1>3, <1>5 DEF LoginInfoData
<1>10. ClientOnly
  BY DEF ClientOnly, LoginInfoData, TransferInv, StateFits
<1>11. x \in Entries \union {Absent} /\ NodeFits(x, s, ph, st)
  BY <1>6, <1>7
<1> QED BY <1>2, <1>8, <1>9, <1>10, <1>11, ClientGoesOn

\* FileDataStarted: the first page is asked for.
LEMMA FileDataStartedStep ==
  ASSUME TransferInv, NEW u \in Users, FileDataStarted(u)
  PROVE  TransferInv'
<1>1. toClient[u] # <<>> /\ Head(toClient[u]).type = "FileDataStart"
  BY DEF FileDataStarted, Arrived
<1>2. PICK S, ts, tc, o, n, ph, st, p, s : ReceivedOf(u, S, ts, tc, o, n, ph, st, p, s)
  BY <1>1, ClientTakesOf
<1>3. /\ p = Head(toClient[u]) /\ p.type = "FileDataStart" /\ s = p.session /\ nodes[u] = n
      /\ s \in Sessions /\ n[s] \in Entries \union {Absent} /\ NodeFits(n[s], s, ph, st)
  BY <1>1, <1>2 DEF ReceivedOf
<1>4. n[s] # Absent /\ n[s] \in Entries /\ n[s].key \in Keys
  <2>1. n[s] # Absent
    BY <1>3 DEF FileDataStarted, Node
  <2> QED BY <1>3, <2>1 DEF Entries
<1>5. PICK q \in ServerPackets : q = OK(s)
  BY <1>3 DEF ServerPackets
<1>6. Of(q, s) /\ q.type = "OK"
  BY <1>5, PacketOf, PacketType
<1>7. ASSUME u \in S PROVE Follows(u, s, <<q>>, n[s], OpsOf(o, s), ph, st)
  <2>1. PacketAtClient(u, p, s, n[s], OpsOf(o, s), ph, st)
    BY <1>2, <1>7 DEF ReceivedOf
  <2>2. PICK op \in OpsOf(o, s) : /\ op.type = "request" /\ IsDownload(n[s]) /\ n[s].key = op.key /\ n[s].data = <<>>
                                  /\ op.left = Len(op.data)
    BY <1>3, <2>1, StageAtClient
  <2>3. op \in Operations
    BY <1>2 DEF ReceivedOf, Received, OpsFit, OpList, OpsOf
  <2>4. SubSeq(op.data, 1, Len(op.data) - op.left) = <<>>
    <3>1. op.data \in Seq(Nat) /\ Len(op.data) \in Nat
      BY <2>3 DEF Operations, Contents
    <3>2. Len(op.data) - op.left = 0
      BY <2>2, <3>1
    <3> QED BY <3>1, <3>2
  <2>5. PacketAtServer(u, q, s, n[s], OpsOf(o, s), ph, st)
    BY <1>5, <2>2, <2>4 DEF PacketAtServer, IsDownload
  <2> QED BY <1>6, <2>5 DEF Follows
<1>8. SetNode(u, s, n[s]) /\ Reply(u, <<q>>)
  BY <1>3, <1>5 DEF FileDataStarted, SetNode, TransferInv, StateFits
<1>9. ClientOnly
  BY <1>3, <1>4 DEF ClientOnly, FileDataStarted, Node, TransferInv, StateFits
<1> QED BY <1>2, <1>3, <1>7, <1>8, <1>9, ClientGoesOn

\* FileDataReceived: so is the next.
LEMMA FileDataReceivedStep ==
  ASSUME TransferInv, NEW u \in Users, FileDataReceived(u)
  PROVE  TransferInv'
<1>1. toClient[u] # <<>> /\ Head(toClient[u]).type = "FileData"
  BY DEF FileDataReceived, Arrived
<1>2. PICK S, ts, tc, o, n, ph, st, p, s : ReceivedOf(u, S, ts, tc, o, n, ph, st, p, s)
  BY <1>1, ClientTakesOf
<1>3. /\ p = Head(toClient[u]) /\ p.type = "FileData" /\ s = p.session /\ nodes[u] = n /\ p \in ClientPackets
      /\ s \in Sessions /\ n[s] \in Entries \union {Absent} /\ NodeFits(n[s], s, ph, st)
  BY <1>1, <1>2 DEF ReceivedOf
<1>4. n[s] # Absent /\ n[s].kind \in Downloads /\ n[s] \in Entries /\ p.page \in Nat
  BY <1>3, ClientPacketIs DEF FileDataReceived, Node
<1>5. PICK x : x = [n[s] EXCEPT !.data = Append(@, p.page)]
  OBVIOUS
<1>6. /\ x \in Entries /\ x # Absent /\ x.kind = n[s].kind /\ x.key = n[s].key /\ x.data = Append(n[s].data, p.page)
  <2>1. n[s] \in [kind : Downloads \union {"loaded"}, key : Keys, data : Contents]
    BY <1>4 DEF Entries, Downloads
  <2>2. PICK e : e = n[s]
    OBVIOUS
  <2>3. PICK d : d = Append(e.data, p.page)
    OBVIOUS
  <2>4. e \in [kind : Downloads \union {"loaded"}, key : Keys, data : Contents] /\ d \in Contents
    BY <1>4, <2>1, <2>2, <2>3 DEF Contents
  <2>5. x = [e EXCEPT !.data = d]
    BY <1>5, <2>2, <2>3, <2>4
  <2>6. /\ x \in [kind : Downloads \union {"loaded"}, key : Keys, data : Contents]
        /\ x.kind = e.kind /\ x.key = e.key /\ x.data = d
    BY <2>4, <2>5
  <2> QED BY <2>2, <2>3, <2>6, AbsentAssumption DEF Entries
<1>7. PICK q \in ServerPackets : q = OK(s)
  BY <1>3 DEF ServerPackets
<1>8. Of(q, s) /\ q.type = "OK"
  BY <1>7, PacketOf, PacketType
<1>9. ASSUME u \in S PROVE Follows(u, s, <<q>>, x, OpsOf(o, s), ph, st)
  <2>1. PacketAtClient(u, p, s, n[s], OpsOf(o, s), ph, st)
    BY <1>2, <1>9 DEF ReceivedOf
  <2>2. PICK op \in OpsOf(o, s) : /\ op.type = "request" /\ IsDownload(n[s]) /\ n[s].key = op.key
                                  /\ Continues(n[s], p.page, op)
    <3>1. PICK d, O : d = n[s] /\ O = OpsOf(o, s)
      OBVIOUS
    <3>2. PacketAtClient(u, p, s, d, O, ph, st) /\ p.type = "FileData"
      BY <1>3, <2>1, <3>1
    <3>3. \E op \in O : op.type = "request" /\ IsDownload(d) /\ d.key = op.key /\ Continues(d, p.page, op)
      BY <3>2, StageAtClient
    <3> QED BY <3>1, <3>3
  <2>3. x.data = SubSeq(op.data, 1, Len(op.data) - op.left) /\ x.key = op.key
    BY <1>6, <2>2 DEF Continues
  <2>4. PacketAtServer(u, q, s, x, OpsOf(o, s), ph, st)
    BY <1>4, <1>6, <1>7, <2>2, <2>3 DEF PacketAtServer, IsDownload
  <2> QED BY <1>8, <2>4 DEF Follows
<1>10. SetNode(u, s, x) /\ Reply(u, <<q>>)
  <2>1. Node(u, p) = n[s]
    BY <1>3 DEF Node
  <2>2. SetNode(u, s, x)
    BY <1>3, <1>5, <2>1 DEF FileDataReceived
  <2>3. Reply(u, <<q>>)
    BY <1>3, <1>7 DEF FileDataReceived
  <2> QED BY <2>2, <2>3
<1>11. ClientOnly
  BY DEF ClientOnly, FileDataReceived, TransferInv, StateFits
<1>12. x \in Entries \union {Absent} /\ NodeFits(x, s, ph, st)
  BY <1>3, <1>4, <1>6 DEF NodeFits
<1> QED BY <1>2, <1>9, <1>10, <1>11, <1>12, ClientGoesOn

\* What has been received, and of which session.
LEMMA ReceivedIs ==
  ASSUME NEW u, NEW S, NEW ts, NEW tc, NEW o, NEW n, NEW ph, NEW st, NEW p, NEW s,
         ReceivedOf(u, S, ts, tc, o, n, ph, st, p, s)
  PROVE  /\ p = Head(toClient[u]) /\ s = p.session /\ nodes[u] = n /\ Node(u, p) = n[s] /\ p \in ClientPackets
         /\ s \in Sessions /\ n[s] \in Entries \union {Absent} /\ NodeFits(n[s], s, ph, st)
         /\ n[s] # Absent => n[s] \in Entries
         /\ st \in Nat /\ st <= MaxSessions /\ Known(s, st) /\ ph # "out" /\ phase[u] = ph
<1>1. /\ p = Head(toClient[u]) /\ s = p.session /\ nodes[u] = n /\ p \in ClientPackets
      /\ s \in Sessions /\ n[s] \in Entries \union {Absent} /\ NodeFits(n[s], s, ph, st)
      /\ st \in Nat /\ st <= MaxSessions /\ Known(s, st) /\ ph # "out" /\ phase[u] = ph
  BY DEF ReceivedOf, Received
<1>2. Node(u, p) = n[s]
  BY <1>1 DEF Node
<1> QED BY <1>1, <1>2

\* A step of the client in which session s is over.
LEMMA ClientEnds ==
  ASSUME TransferInv, NEW u \in Users,
         NEW S, NEW ts, NEW tc, NEW o, NEW n, NEW ph, NEW st, NEW p, NEW s,
         ReceivedOf(u, S, ts, tc, o, n, ph, st, p, s),
         ClientOnly, SetNode(u, s, Absent), n[s] # Absent, n[s].kind \notin {"login", "loaded"},
         NEW packets, Reply(u, packets),
         u \in S /\ s \notin Users /\ AtRest(u, s, Absent, OpsOf(o, s), ph, st) =>
           Follows(u, s, packets, Absent, OpsOf(o, s), ph, st)
  PROVE  TransferInv'
<1>1. PICK O, e : O = OpsOf(o, s) /\ e = n[s]
  OBVIOUS
<1>2. e \in Entries /\ NodeFits(e, s, ph, st) /\ e.kind \notin {"login", "loaded"} /\ st \in Nat /\ st <= MaxSessions
      /\ s \in Sessions
  BY <1>1, ReceivedIs
<1>3. s \notin Users /\ AtRest(u, s, Absent, O, ph, st) /\ NodeFits(Absent, s, ph, st)
  BY <1>2, OverAtRest
<1>4. u \in S => Follows(u, s, packets, Absent, OpsOf(o, s), ph, st)
  BY <1>1, <1>3
<1>5. Absent \in Entries \union {Absent} /\ NodeFits(Absent, s, ph, st)
  BY <1>3
<1> QED BY <1>4, <1>5, ClientGoesOn

\* A node that is left as it is.
LEMMA NodeStays ==
  ASSUME TransferInv, NEW u \in Users, NEW s \in Sessions, UNCHANGED nodes
  PROVE  SetNode(u, s, nodes[u][s])
<1>1. nodes \in [Users -> [Sessions -> Entries \union {Absent}]]
  BY DEF TransferInv, StateFits
<1> QED BY <1>1 DEF SetNode

\* FailureReceived: a file is not saved, and an icon is waited for.
LEMMA FailureReceivedStep ==
  ASSUME TransferInv, NEW u \in Users, FailureReceived(u)
  PROVE  TransferInv'
<1>1. toClient[u] # <<>> /\ Head(toClient[u]).type = "Failure"
  BY DEF FailureReceived, Arrived
<1>2. PICK S, ts, tc, o, n, ph, st, p, s : ReceivedOf(u, S, ts, tc, o, n, ph, st, p, s)
  BY <1>1, ClientTakesOf
<1>3. /\ p = Head(toClient[u]) /\ s = p.session /\ nodes[u] = n /\ Node(u, p) = n[s]
      /\ s \in Sessions /\ n[s] \in Entries \union {Absent} /\ NodeFits(n[s], s, ph, st)
  BY <1>2, ReceivedIs
<1>4. p.type = "Failure" /\ n[s] # Absent /\ n[s].kind \in Downloads
  BY <1>1, <1>3 DEF FailureReceived
<1>5. ClientOnly /\ Reply(u, <<>>)
  BY DEF ClientOnly, FailureReceived, TransferInv, StateFits
<1>6. CASE n[s].kind = "save"
  <2>1. SetNode(u, s, Absent)
    BY <1>3, <1>6 DEF FailureReceived
  <2>2. AtRest(u, s, Absent, OpsOf(o, s), ph, st) => Follows(u, s, <<>>, Absent, OpsOf(o, s), ph, st)
    BY DEF Follows
  <2>3. n[s].kind \notin {"login", "loaded"}
    BY <1>6
  <2> QED BY <1>2, <1>4, <1>5, <2>1, <2>2, <2>3, ClientEnds
<1>7. CASE n[s].kind # "save"
  <2>1. UNCHANGED nodes
    BY <1>3, <1>7 DEF FailureReceived
  <2>2. SetNode(u, s, n[s])
    BY <1>3, <2>1, NodeStays
  <2>3. IsIcon(n[s]) /\ IsDownload(n[s])
    BY <1>4, <1>7 DEF IsIcon, IsDownload, Downloads
  <2>4. ASSUME u \in S PROVE Follows(u, s, <<>>, n[s], OpsOf(o, s), ph, st)
    <3>1. PICK d, O : d = n[s] /\ O = OpsOf(o, s)
      OBVIOUS
    <3>2. PacketAtClient(u, p, s, d, O, ph, st) /\ p.type = "Failure"
      BY <1>2, <1>4, <2>4, <3>1 DEF ReceivedOf
    <3>3. /\ IsIcon(d) /\ ~IsUpload(d) /\ d # Absent
      BY <2>3, <3>1, Kinds
    <3>4. O = {} /\ <<"refused", u>> \in mishaps
      BY <3>2, <3>3, StageAtClient
    <3>5. AtRest(u, s, d, O, ph, st)
      BY <3>3, <3>4 DEF AtRest
    <3> QED BY <3>1, <3>5 DEF Follows
  <2> QED BY <1>2, <1>3, <1>5, <2>2, <2>4, ClientGoesOn
<1> QED BY <1>6, <1>7

\* Unclaimed: nothing is waiting for the packet.
LEMMA UnclaimedStep ==
  ASSUME TransferInv, NEW u \in Users, Unclaimed(u)
  PROVE  TransferInv'
<1>1. toClient[u] # <<>> /\ Head(toClient[u]).type \notin {"Closed", "InfoData"}
  BY DEF Unclaimed
<1>2. PICK S, ts, tc, o, n, ph, st, p, s : ReceivedOf(u, S, ts, tc, o, n, ph, st, p, s)
  BY <1>1, ClientTakesOf
<1>3. /\ p = Head(toClient[u]) /\ s = p.session /\ nodes[u] = n /\ Node(u, p) = n[s] /\ p \in ClientPackets
      /\ s \in Sessions /\ n[s] \in Entries \union {Absent} /\ NodeFits(n[s], s, ph, st)
  BY <1>2, ReceivedIs
<1>4. n[s] = Absent /\ p.type \in {"FileDataStart", "FileData", "FileDataEnd", "OK", "Failure"}
  BY <1>1, <1>3, ClientPacketIs DEF Unclaimed
<1>5. ClientOnly /\ Reply(u, <<>>)
  BY DEF ClientOnly, Unclaimed, TransferInv, StateFits, clientVars
<1>6. SetNode(u, s, n[s])
  <2>1. UNCHANGED nodes
    BY DEF Unclaimed, clientVars
  <2> QED BY <1>3, <2>1, NodeStays
<1>7. ASSUME u \in S PROVE Follows(u, s, <<>>, n[s], OpsOf(o, s), ph, st)
  <2>1. PICK d, O : d = n[s] /\ O = OpsOf(o, s)
    OBVIOUS
  <2>2. PacketAtClient(u, p, s, d, O, ph, st)
    BY <1>2, <1>7, <2>1 DEF ReceivedOf
  <2>3. d = Absent /\ ~IsUpload(d) /\ ~IsDownload(d)
    BY <1>4, <2>1, Kinds
  <2>4. O = {} /\ (s \in Users => <<"refused", u>> \in mishaps)
    <3>1. ~IsUpload(d) /\ ~IsDownload(d)
      BY <2>3
    <3>2. p.type \in {"FileDataStart", "FileData", "FileDataEnd", "OK", "Failure"}
      BY <1>4
    <3>3. p.type \in {"OK", "Failure"}
      BY <2>2, <3>1, <3>2, StageAtClient
    <3>4. CASE p.type = "OK"
      <4>1. \/ \E op \in O : IsUpload(d)
            \/ O = {} /\ IsUpload(d)
            \/ O = {} /\ s \notin Users
        <5>1. OKFits(d, s, O)
          BY <2>2, <3>4, StageAtClient
        <5> QED BY <5>1, Zenon DEF OKFits
      <4> QED BY <3>1, <4>1
    <3>5. CASE p.type = "Failure"
      BY <2>2, <3>1, <3>5, StageAtClient
    <3> QED BY <3>3, <3>4, <3>5
  <2>5. AtRest(u, s, d, O, ph, st)
    BY <2>3, <2>4 DEF AtRest
  <2> QED BY <2>1, <2>5 DEF Follows
<1> QED BY <1>2, <1>3, <1>5, <1>6, <1>7, ClientGoesOn

\* UploadFailed.
LEMMA UploadFailedStep ==
  ASSUME TransferInv, NEW u \in Users, UploadFailed(u)
  PROVE  TransferInv'
<1>1. toClient[u] # <<>> /\ Head(toClient[u]).type = "Failure"
  BY DEF UploadFailed, Arrived
<1>2. PICK S, ts, tc, o, n, ph, st, p, s : ReceivedOf(u, S, ts, tc, o, n, ph, st, p, s)
  BY <1>1, ClientTakesOf
<1>3. p = Head(toClient[u]) /\ s = p.session /\ Node(u, p) = n[s]
  BY <1>2, ReceivedIs
<1>4. /\ n[s] # Absent /\ n[s].kind \notin {"login", "loaded"}
      /\ SetNode(u, s, Absent) /\ Reply(u, <<>>)
  BY <1>3 DEF UploadFailed
<1>5. ClientOnly
  BY DEF ClientOnly, UploadFailed, TransferInv, StateFits
<1>6. AtRest(u, s, Absent, OpsOf(o, s), ph, st) => Follows(u, s, <<>>, Absent, OpsOf(o, s), ph, st)
  BY DEF Follows
<1> QED BY <1>2, <1>4, <1>5, <1>6, ClientEnds

\* UploadNotNeeded: the file is there, so it is announced.
LEMMA UploadNotNeededStep ==
  ASSUME TransferInv, NEW u \in Users, UploadNotNeeded(u)
  PROVE  TransferInv'
<1>1. toClient[u] # <<>> /\ Head(toClient[u]).type = "FileDataEnd"
  BY DEF UploadNotNeeded, Arrived
<1>2. PICK S, ts, tc, o, n, ph, st, p, s : ReceivedOf(u, S, ts, tc, o, n, ph, st, p, s)
  BY <1>1, ClientTakesOf
<1>3. /\ p = Head(toClient[u]) /\ s = p.session /\ Node(u, p) = n[s]
      /\ n[s] # Absent => n[s] \in Entries
  BY <1>2, ReceivedIs
<1>4. /\ n[s] # Absent /\ n[s].kind \in {"file", "photo"} /\ SetNode(u, s, Absent) /\ p.type = "FileDataEnd"
      /\ Reply(u, <<IF n[s].kind = "file" THEN FileMessage(n[s].to, n[s].key) ELSE NewIcon(n[s].key)>>)
  BY <1>1, <1>3 DEF UploadNotNeeded
<1>5. ClientOnly
  BY DEF ClientOnly, UploadNotNeeded, TransferInv, StateFits
<1>6. n[s].to \in Users /\ n[s].key \in Keys
  BY <1>3, <1>4 DEF Entries, Downloads
<1>7. PICK m \in ServerPackets : m = IF n[s].kind = "file" THEN FileMessage(n[s].to, n[s].key) ELSE NewIcon(n[s].key)
  BY <1>6 DEF ServerPackets
<1>8. m.type \in {"InfoData", "MessageNormal"} /\ m.key = n[s].key
  BY <1>7, PacketType, PacketFields
<1>9. ASSUME u \in S, AtRest(u, s, Absent, OpsOf(o, s), ph, st)
      PROVE  Follows(u, s, <<m>>, Absent, OpsOf(o, s), ph, st)
  <2>1. PICK d, O : d = n[s] /\ O = OpsOf(o, s)
    OBVIOUS
  <2>2. PacketAtClient(u, p, s, d, O, ph, st) /\ p.type = "FileDataEnd"
    BY <1>2, <1>4, <1>9, <2>1 DEF ReceivedOf
  <2>3. ~IsDownload(d)
    BY <1>4, <2>1 DEF IsDownload, Downloads
  <2>4. Stored(d.key)
    BY <2>2, <2>3, StageAtClient
  <2> QED BY <1>8, <1>9, <2>1, <2>4 DEF Follows
<1>10. Reply(u, <<m>>) /\ n[s].kind \notin {"login", "loaded"}
  BY <1>4, <1>7
<1> QED BY <1>2, <1>4, <1>5, <1>9, <1>10, ClientEnds

\* An upload, with the next page sent, and with its data gone.
LEMMA UploadIs ==
  ASSUME NEW e \in Entries, e.kind \in {"file", "photo"}
  PROVE  /\ e.key \in Keys /\ e.to \in Users /\ e.seq \in Nat /\ e.size \in Nat /\ e.open \in BOOLEAN
         /\ \E x \in Entries : /\ x = [e EXCEPT !.seq = @ + 1] /\ x # Absent
                               /\ x.kind = e.kind /\ x.key = e.key /\ x.open = e.open /\ x.seq = e.seq + 1
         /\ \E x \in Entries : /\ x = [e EXCEPT !.open = FALSE] /\ x # Absent
                               /\ x.kind = e.kind /\ x.key = e.key /\ x.open = FALSE
<1> DEFINE U == [kind : {"file", "photo"}, key : Keys, to : Users, size : Nat, seq : Nat, open : BOOLEAN]
<1>1. e \in U
  BY DEF Entries, Downloads
<1>2. [e EXCEPT !.seq = @ + 1] \in U /\ [e EXCEPT !.open = FALSE] \in U
  <2>1. e.seq + 1 \in Nat
    BY <1>1
  <2>2. [e EXCEPT !.seq = e.seq + 1] \in U
    BY <1>1, <2>1
  <2>3. [e EXCEPT !.open = FALSE] \in U
    BY <1>1, Zenon
  <2> QED BY <2>2, <2>3
<1>3. /\ [e EXCEPT !.seq = @ + 1] \in Entries /\ [e EXCEPT !.seq = @ + 1] # Absent
      /\ [e EXCEPT !.open = FALSE] \in Entries /\ [e EXCEPT !.open = FALSE] # Absent
  BY <1>2, AbsentAssumption DEF Entries
<1>4. e.key \in Keys /\ e.to \in Users /\ e.seq \in Nat /\ e.size \in Nat /\ e.open \in BOOLEAN
  BY <1>1
<1>5. /\ [e EXCEPT !.seq = @ + 1].kind = e.kind /\ [e EXCEPT !.seq = @ + 1].key = e.key
      /\ [e EXCEPT !.seq = @ + 1].open = e.open /\ [e EXCEPT !.seq = @ + 1].seq = e.seq + 1
  BY <1>1
<1>6. /\ [e EXCEPT !.open = FALSE].kind = e.kind /\ [e EXCEPT !.open = FALSE].key = e.key
      /\ [e EXCEPT !.open = FALSE].open = FALSE
  BY <1>1
<1> QED BY <1>3, <1>4, <1>5, <1>6

\* The server is asked to go on with an upload, or has processed the end of it.
LEMMA UploadAsked ==
  ASSUME NEW u, NEW p, NEW s, NEW d, NEW O, NEW ph, NEW st, PacketAtClient(u, p, s, d, O, ph, st),
         p.type = "OK", IsUpload(d)
  PROVE  /\ d.open => \E op \in O : op.type = "store" /\ d.key = op.key /\ d.seq = Len(op.data)
         /\ ~d.open => Stored(d.key)
<1>1. d # Absent
  BY DEF IsUpload
<1>2. \/ \E op \in O : op.type = "store" /\ d.key = op.key /\ d.open /\ d.seq = Len(op.data)
      \/ ~d.open /\ Stored(d.key)
      \/ d = Absent
  <2>1. OKFits(d, s, O)
    BY StageAtClient
  <2> QED BY <2>1, Zenon DEF OKFits
<1> QED BY <1>1, <1>2, Zenon

\* UploadOK: the next page, the end of the file, or the new icon.
LEMMA UploadOKStep ==
  ASSUME TransferInv, NEW u \in Users, UploadOK(u)
  PROVE  TransferInv'
<1>1. toClient[u] # <<>> /\ Head(toClient[u]).type = "OK"
  BY DEF UploadOK, Arrived
<1>2. PICK S, ts, tc, o, n, ph, st, p, s : ReceivedOf(u, S, ts, tc, o, n, ph, st, p, s)
  BY <1>1, ClientTakesOf
<1>3. /\ p = Head(toClient[u]) /\ s = p.session /\ Node(u, p) = n[s]
      /\ s \in Sessions /\ NodeFits(n[s], s, ph, st)
      /\ n[s] # Absent => n[s] \in Entries
  BY <1>2, ReceivedIs
<1>4. PICK d, O : d = n[s] /\ O = OpsOf(o, s)
  OBVIOUS
<1>5. /\ d # Absent /\ d \in Entries /\ d.kind \in {"file", "photo"} /\ p.type = "OK"
      /\ NodeFits(d, s, ph, st)
  BY <1>1, <1>3, <1>4 DEF UploadOK
<1>6. \/ /\ d.open /\ d.seq < d.size
         /\ Reply(u, <<NextPage(d, s)>>) /\ SetNode(u, s, [d EXCEPT !.seq = @ + 1])
      \/ /\ d.open /\ d.seq = d.size /\ d.kind = "file"
         /\ Reply(u, <<FileDataEnd(s, "ok"), FileMessage(d.to, d.key)>>) /\ SetNode(u, s, Absent)
      \/ /\ d.open /\ d.seq = d.size
         /\ Reply(u, <<FileDataEnd(s, "ok")>>) /\ SetNode(u, s, [d EXCEPT !.open = FALSE])
      \/ /\ ~d.open
         /\ Reply(u, <<NewIcon(d.key)>>) /\ SetNode(u, s, Absent)
  BY <1>3, <1>4 DEF UploadOK, FileEnded, PhotoEnded
<1>7. ClientOnly
  BY DEF ClientOnly, UploadOK, TransferInv, StateFits
<1>8. /\ d.key \in Keys /\ d.to \in Users /\ d.seq \in Nat /\ d.size \in Nat /\ IsUpload(d)
      /\ n[s] # Absent /\ n[s].kind \notin {"login", "loaded"}
  BY <1>4, <1>5, UploadIs DEF IsUpload
<1>9. ASSUME u \in S
      PROVE  /\ d.open => \E op \in O : op.type = "store" /\ d.key = op.key /\ d.seq = Len(op.data)
             /\ ~d.open => Stored(d.key)
  <2>1. PacketAtClient(u, p, s, d, O, ph, st)
    BY <1>2, <1>4, <1>9 DEF ReceivedOf
  <2> QED BY <1>5, <1>8, <2>1, UploadAsked
<1>10. CASE /\ d.open /\ d.seq < d.size
            /\ Reply(u, <<NextPage(d, s)>>) /\ SetNode(u, s, [d EXCEPT !.seq = @ + 1])
  <2>1. PICK x \in Entries : /\ x = [d EXCEPT !.seq = @ + 1] /\ x # Absent
                             /\ x.kind = d.kind /\ x.key = d.key /\ x.open = d.open /\ x.seq = d.seq + 1
    BY <1>5, UploadIs
  <2>2. x \in Entries \union {Absent} /\ NodeFits(x, s, ph, st)
    <3>1. x \in Entries /\ x.kind = d.kind /\ x.key = d.key
      BY <2>1
    <3> QED BY <1>5, <3>1 DEF NodeFits
  <2>3. PICK q \in ServerPackets : q = NextPage(d, s)
    BY <1>3, <1>8 DEF NextPage, ServerPackets
  <2>4. q = FileData(s, d.seq, d.seq + 1) /\ Of(q, s) /\ q.type = "FileData"
    BY <2>3, PacketOf, PacketType DEF NextPage
  <2>5. ASSUME u \in S PROVE Follows(u, s, <<q>>, x, O, ph, st)
    <3>1. PICK op \in O : op.type = "store" /\ d.key = op.key /\ d.seq = Len(op.data)
      BY <1>9, <1>10, <2>5
    <3>2. IsUpload(x) /\ x.key = op.key /\ x.open /\ x.seq = Len(op.data) + 1
      BY <1>5, <1>10, <2>1, <3>1 DEF IsUpload
    <3>3. q = FileData(s, Len(op.data), Len(op.data) + 1)
      BY <2>4, <3>1
    <3>4. PacketAtServer(u, q, s, x, O, ph, st)
      BY <3>1, <3>2, <3>3 DEF PacketAtServer
    <3> QED BY <2>4, <3>4 DEF Follows
  <2>6. SetNode(u, s, x) /\ Reply(u, <<q>>) /\ (u \in S => Follows(u, s, <<q>>, x, OpsOf(o, s), ph, st))
    BY <1>4, <1>10, <2>1, <2>3, <2>5
  <2> QED BY <1>2, <1>7, <2>2, <2>6, ClientGoesOn
<1>11. CASE /\ d.open /\ d.seq = d.size /\ d.kind = "file"
            /\ Reply(u, <<FileDataEnd(s, "ok"), FileMessage(d.to, d.key)>>) /\ SetNode(u, s, Absent)
  <2>1. PICK q \in ServerPackets : q = FileDataEnd(s, "ok")
    BY <1>3 DEF ServerPackets
  <2>2. PICK m \in ServerPackets : m = FileMessage(d.to, d.key)
    BY <1>8 DEF ServerPackets
  <2>3. Of(q, s) /\ q.type = "FileDataEnd" /\ m.type = "MessageNormal" /\ m.key = d.key
    BY <2>1, <2>2, PacketOf, PacketType, PacketFields
  <2>4. ASSUME u \in S, s \notin Users PROVE Follows(u, s, <<q, m>>, Absent, O, ph, st)
    <3>1. PICK op \in O : op.type = "store" /\ d.key = op.key /\ d.seq = Len(op.data)
      BY <1>9, <1>11, <2>4
    <3>2. PacketAtServer(u, q, s, Absent, O, ph, st)
      BY <2>1, <2>4, <3>1 DEF PacketAtServer
    <3> QED BY <2>3, <3>1, <3>2 DEF Follows
  <2>5. Reply(u, <<q, m>>) /\ SetNode(u, s, Absent)
    BY <1>11, <2>1, <2>2
  <2>6. u \in S /\ s \notin Users => Follows(u, s, <<q, m>>, Absent, OpsOf(o, s), ph, st)
    BY <1>4, <2>4
  <2> QED BY <1>2, <1>7, <1>8, <2>5, <2>6, ClientEnds
<1>12. CASE /\ d.open /\ d.seq = d.size
            /\ Reply(u, <<FileDataEnd(s, "ok")>>) /\ SetNode(u, s, [d EXCEPT !.open = FALSE])
  <2>1. PICK x \in Entries : /\ x = [d EXCEPT !.open = FALSE] /\ x # Absent
                             /\ x.kind = d.kind /\ x.key = d.key /\ x.open = FALSE
    BY <1>5, UploadIs
  <2>2. x \in Entries \union {Absent} /\ NodeFits(x, s, ph, st)
    <3>1. x \in Entries /\ x.kind = d.kind /\ x.key = d.key
      BY <2>1
    <3> QED BY <1>5, <3>1 DEF NodeFits
  <2>3. PICK q \in ServerPackets : q = FileDataEnd(s, "ok")
    BY <1>3 DEF ServerPackets
  <2>4. Of(q, s) /\ q.type = "FileDataEnd"
    BY <2>3, PacketOf, PacketType
  <2>5. ASSUME u \in S PROVE Follows(u, s, <<q>>, x, O, ph, st)
    <3>1. PICK op \in O : op.type = "store" /\ d.key = op.key /\ d.seq = Len(op.data)
      BY <1>9, <1>12, <2>5
    <3>2. IsUpload(x) /\ x.key = op.key /\ ~x.open
      BY <1>5, <2>1, <3>1 DEF IsUpload
    <3>3. PacketAtServer(u, q, s, x, O, ph, st)
      BY <2>3, <3>1, <3>2 DEF PacketAtServer
    <3> QED BY <2>4, <3>3 DEF Follows
  <2>6. SetNode(u, s, x) /\ Reply(u, <<q>>) /\ (u \in S => Follows(u, s, <<q>>, x, OpsOf(o, s), ph, st))
    BY <1>4, <1>12, <2>1, <2>3, <2>5
  <2> QED BY <1>2, <1>7, <2>2, <2>6, ClientGoesOn
<1>13. CASE ~d.open /\ Reply(u, <<NewIcon(d.key)>>) /\ SetNode(u, s, Absent)
  <2>1. PICK m \in ServerPackets : m = NewIcon(d.key)
    BY <1>8 DEF ServerPackets
  <2>2. m.type = "InfoData" /\ m.key = d.key
    BY <2>1, PacketType, PacketFields
  <2>3. ASSUME u \in S, AtRest(u, s, Absent, O, ph, st) PROVE Follows(u, s, <<m>>, Absent, O, ph, st)
    BY <1>9, <1>13, <2>2, <2>3 DEF Follows
  <2>4. Reply(u, <<m>>) /\ SetNode(u, s, Absent)
    BY <1>13, <2>1
  <2>5. u \in S /\ AtRest(u, s, Absent, OpsOf(o, s), ph, st) => Follows(u, s, <<m>>, Absent, OpsOf(o, s), ph, st)
    BY <1>4, <2>3
  <2> QED BY <1>2, <1>7, <1>8, <2>4, <2>5, ClientEnds
<1> QED BY <1>6, <1>10, <1>11, <1>12, <1>13

\* When all icons are there, the main window is shown: no node is left, and nothing is on
\* its way but what concerns earlier sessions.
LEMMA LoadedStage ==
  ASSUME NEW u, NEW s, NEW n, n = Absent \/ n.kind = "loaded", NEW O,
         NEW ph, ph = "login", NEW ph1, ph1 # "login", NEW st, NEW p
  PROVE  /\ PacketAtServer(u, p, s, n, O, ph, st) /\ p.type # "InfoRequest" =>
              PacketAtServer(u, p, s, Absent, O, ph1, st)
         /\ PacketAtClient(u, p, s, n, O, ph, st) /\ p.type # "InfoData" =>
              PacketAtClient(u, p, s, Absent, O, ph1, st)
         /\ AtRest(u, s, n, O, ph, st) => AtRest(u, s, Absent, O, ph1, st)
<1>1. ~IsUpload(n) /\ ~IsDownload(n) /\ ~IsIcon(n)
  BY DEF IsUpload, IsDownload, IsIcon, Downloads
<1>2. ASSUME PacketAtServer(u, p, s, n, O, ph, st), p.type # "InfoRequest"
      PROVE  PacketAtServer(u, p, s, Absent, O, ph1, st)
  <2>1. p # InfoRequest(s) /\ ph # "out"
    BY <1>2, PacketType
  <2>2. \E op \in O : p = FileDataEnd(s, "ok") /\ op.type = "store" /\ n = Absent /\ s \notin Users
    BY <1>1, <1>2, <2>1, Zenon DEF PacketAtServer
  <2> QED BY <2>2, Zenon DEF PacketAtServer
<1>3. ASSUME PacketAtClient(u, p, s, n, O, ph, st), p.type # "InfoData"
      PROVE  PacketAtClient(u, p, s, Absent, O, ph1, st)
  <2>1. ~\E k \in Keys : p = InfoReply(s, k)
    BY <1>3, PacketType
  <2>2. \/ p = OK(s) /\ O = {} /\ n = Absent /\ s \notin Users
        \/ p = Failure(s) /\ O = {} /\ n = Absent /\ (s \in Users => <<"refused", u>> \in mishaps)
    BY <1>1, <1>3, <2>1, Zenon DEF PacketAtClient
  <2> QED BY <2>2, Zenon DEF PacketAtClient
<1>4. ASSUME AtRest(u, s, n, O, ph, st)
      PROVE  AtRest(u, s, Absent, O, ph1, st)
  <2>1. /\ s \in Users => O = {}
        /\ s \notin Users /\ s > st => O = {}
    BY <1>1, <1>4 DEF AtRest
  <2> QED BY <2>1 DEF AtRest
<1> QED BY <1>2, <1>3, <1>4

LEMMA LoadedFlow ==
  ASSUME NEW u, NEW s, NEW n, n = Absent \/ n.kind = "loaded", NEW O, NEW A, NEW C,
         NEW ph, ph = "login", NEW ph1, ph1 \notin {"login", "out"}, NEW st,
         \A p \in A : p.type # "InfoRequest", \A p \in C : p.type # "InfoData",
         Flow(u, s, A, C, n, O, ph, st)
  PROVE  Flow(u, s, A, C, Absent, O, ph1, st)
<1>1. CASE A = {} /\ C = {} /\ AtRest(u, s, n, O, ph, st)
  <2>1. AtRest(u, s, Absent, O, ph1, st)
    BY <1>1, LoadedStage
  <2> QED BY <1>1, <2>1 DEF Flow
<1>2. ASSUME NEW p \in A, A = {p}, C = {}, PacketAtServer(u, p, s, n, O, ph, st), Known(s, st)
      PROVE  Flow(u, s, A, C, Absent, O, ph1, st)
  <2>1. PacketAtServer(u, p, s, Absent, O, ph1, st)
    BY <1>2, LoadedStage
  <2> QED BY <1>2, <2>1 DEF Flow
<1>3. ASSUME NEW p \in C, C = {p}, A = {}, PacketAtClient(u, p, s, n, O, ph, st), Known(s, st)
      PROVE  Flow(u, s, A, C, Absent, O, ph1, st)
  <2>1. PacketAtClient(u, p, s, Absent, O, ph1, st)
    BY <1>3, LoadedStage
  <2> QED BY <1>3, <2>1 DEF Flow
<1>4. ph # "out"
  OBVIOUS
<1> QED BY <1>1, <1>2, <1>3, <1>4 DEF Flow

\* No information is asked for, and none is to come.
LEMMA NoInformation ==
  ASSUME NEW ts \in Seq(ServerPackets), NEW tc \in Seq(ClientPackets), tc # <<>>, InfoFirst(ts, tc),
         ~Early(Head(tc)), NEW s
  PROVE  /\ \A p \in Among(ts, s) : p.type # "InfoRequest"
         /\ \A p \in Among(tc, s) : p.type # "InfoData"
<1>1. Head(tc) = tc[1] /\ 1 \in 1 .. Len(tc) /\ Len(tc) \in Nat /\ \A i \in 1 .. Len(tc) : 1 \in 1 .. i
  BY ChannelTail
<1>2. ASSUME NEW p \in Among(ts, s), p.type = "InfoRequest" PROVE FALSE
  <2>1. PICK i \in 1 .. Len(ts) : ts[i] = p
    BY DEF Among
  <2> QED BY <1>1, <1>2, <2>1 DEF InfoFirst
<1>3. ASSUME NEW p \in Among(tc, s), p.type = "InfoData" PROVE FALSE
  <2>1. PICK i \in 1 .. Len(tc) : tc[i] = p
    BY DEF Among
  <2> QED BY <1>1, <1>3, <2>1 DEF InfoFirst
<1> QED BY <1>2, <1>3

\* The end of the last of the icons.
LoadedAll(n, s) == \A r \in Sessions \ {s} : n[r] = Absent \/ n[r].kind = "loaded"

LEMMA AllLoaded ==
  ASSUME NEW u, \A v : Grows(v),
         NEW S, NEW ts, NEW tc, NEW o, NEW n, NEW ph, NEW st, NEW p, NEW s,
         ReceivedOf(u, S, ts, tc, o, n, ph, st, p, s), u \in S,
         p.type = "FileDataEnd", ph = "login", n[s] # Absent, n[s].kind = "login",
         LoadedAll(n, s),
         NEW n1, \A r \in Sessions : n1[r] = Absent,
         NEW ph1, ph1 \notin {"login", "out"}
  PROVE  Served(u, ts, Tail(tc), o, n1, ph1, st)' /\ InfoFirst(ts, Tail(tc))
<1>1. /\ UserFits(u, S, ts, tc, o, n, ph, st) /\ tc # <<>> /\ p = Head(tc) /\ st \in Nat
      /\ s \in Sessions /\ Of(Head(tc), s) /\ NodeFits(n[s], s, ph, st)
      /\ PacketAtClient(u, p, s, n[s], OpsOf(o, s), ph, st)
  BY DEF ReceivedOf, Received
<1>2. /\ ts \in Seq(ServerPackets) /\ tc \in Seq(ClientPackets)
      /\ Served(u, ts, tc, o, n, ph, st) /\ InfoFirst(ts, tc)
  BY <1>1 DEF UserFits
<1>3. PICK tc1 : tc1 = Tail(tc)
  OBVIOUS
<1>4. /\ tc1 \in Seq(ClientPackets) /\ InfoFirst(ts, tc1)
      /\ \A i \in 1 .. Len(tc1) : \E j \in 1 .. Len(tc) : tc1[i] = tc[j]
  BY <1>1, <1>2, <1>3, ChannelTail, InfoTaken
<1>5. ASSUME NEW r \in Sessions
      PROVE  /\ AtMostOne(ts, r) /\ AtMostOne(tc1, r)
             /\ Flow(u, r, Among(ts, r), Among(tc1, r), n1[r], OpsOf(o, r), ph1, st)'
  <2>1. AtMostOne(ts, r) /\ AtMostOne(tc, r) /\ Flow(u, r, Among(ts, r), Among(tc, r), n[r], OpsOf(o, r), ph, st)
    BY <1>2 DEF Served
  <2>2. PICK A, C, d, O, x : A = Among(ts, r) /\ C = Among(tc1, r) /\ d = n[r] /\ O = OpsOf(o, r) /\ x = n1[r]
    OBVIOUS
  <2>3. AtMostOne(tc1, r)
    BY <1>1, <1>2, <1>3, <2>1, AmongTail
  <2>4. Flow(u, r, A, C, x, O, ph1, st)
    <3>1. CASE r = s
      <4>1. A = {} /\ C = {}
        BY <1>1, <1>2, <1>3, <2>1, <2>2, <3>1, AmongTail, FirstAtClient
      <4>2. PacketAtClient(u, p, s, d, O, ph, st)
        BY <1>1, <2>2, <3>1
      <4>3. O = {}
        BY <4>2, StageAtClient
      <4>4. s \in Users
        BY <1>1 DEF NodeFits
      <4>5. x = Absent
        BY <2>2
      <4>6. AtRest(u, r, x, O, ph1, st)
        BY <3>1, <4>3, <4>4, <4>5 DEF AtRest
      <4> QED BY <4>1, <4>6 DEF Flow
    <3>2. CASE r # s
      <4>1. ~Of(Head(tc), r)
        BY <1>1, <3>2 DEF Of
      <4>2. C = Among(tc, r)
        BY <1>1, <1>2, <1>3, <2>1, <2>2, <4>1, AmongTail
      <4>3. Flow(u, r, A, C, d, O, ph, st)
        BY <2>1, <2>2, <4>2
      <4>4. (\A q \in A : q.type # "InfoRequest") /\ (\A q \in C : q.type # "InfoData")
        BY <1>1, <1>2, <2>2, <4>2, NoInformation DEF Early
      <4>5. x = Absent /\ (d = Absent \/ d.kind = "loaded")
        BY <2>2, <3>2 DEF LoadedAll
      <4>6. Flow(u, r, A, C, Absent, O, ph1, st)
        BY <4>3, <4>4, <4>5, LoadedFlow
      <4> QED BY <4>5, <4>6
    <3> QED BY <3>1, <3>2
  <2>5. Flow(u, r, A, C, x, O, ph1, st)'
    <3>1. Grows(u) /\ st <= st /\ x \in Entries \union {Absent}
      BY <1>1, <2>2
    <3> QED BY <1>1, <2>4, <3>1, FlowKept
  <2> QED BY <2>1, <2>2, <2>3, <2>5
<1>6. /\ \A i \in 1 .. Len(ts) : ts[i] # Closed
      /\ \A i \in 1 .. Len(tc1) : tc1[i] # Closed
  BY <1>2, <1>4 DEF Served
<1>7. Served(u, ts, tc1, o, n1, ph1, st)'
  BY <1>5, <1>6 DEF Served
<1> QED BY <1>3, <1>4, <1>7

\* FileDataEnded, when it was the last icon.
LEMMA LoginEndedStep ==
  ASSUME TransferInv, NEW u \in Users,
         NEW S, NEW ts, NEW tc, NEW o, NEW n, NEW ph, NEW st, NEW p, NEW s,
         ReceivedOf(u, S, ts, tc, o, n, ph, st, p, s),
         p.type = "FileDataEnd", n[s] # Absent, n[s].kind = "login", LoadedAll(n, s),
         phase' = [phase EXCEPT ![u] = "main"],
         nodes' = [nodes EXCEPT ![u] = [r \in Sessions |-> Absent]],
         Reply(u, <<>>), UNCHANGED <<serverVars, started, cached, logins, mishaps>>
  PROVE  TransferInv'
<1>1. /\ Received(u, S, ts, tc, o, n, ph, st) /\ s \in Sessions /\ NodeFits(n[s], s, ph, st)
      /\ Of(Head(tc), s) /\ UserFits(u, S, ts, tc, o, n, ph, st) /\ tc # <<>> /\ st \in Nat
  BY DEF ReceivedOf, Received
<1>2. ph = "login" /\ st = 0
  <2>1. ph = "login"
    BY <1>1 DEF NodeFits
  <2> QED BY <1>1, <2>1 DEF Received, ClientFits
<1>3. /\ toServer \in [Users -> Seq(ServerPackets)] /\ toClient \in [Users -> Seq(ClientPackets)]
      /\ nodes \in [Users -> [Sessions -> Entries \union {Absent}]]
      /\ phase \in [Users -> {"out", "login", "main"}]
  BY DEF TransferInv, StateFits
<1>4. FilesFit' /\ \A v : Grows(v)
  BY FilesSame DEF TransferInv, serverVars
<1>5. PICK n1 : n1 = [r \in Sessions |-> Absent]
  OBVIOUS
<1>6. n1 \in [Sessions -> Entries \union {Absent}] /\ \A r \in Sessions : n1[r] = Absent
  BY <1>5
<1>7. PICK tc1 : tc1 = Tail(tc)
  OBVIOUS
<1>8. tc1 \in Seq(ClientPackets)
  BY <1>1, <1>7, ChannelTail DEF Received
<1>9. ts \in Seq(ServerPackets) /\ (u \notin S => ts = <<>> /\ o = <<>>)
  BY <1>1 DEF UserFits
<1>10. toServer' = toServer /\ toClient' = [toClient EXCEPT ![u] = tc1]
  <2>1. serving = S /\ toServer[u] = ts /\ toClient[u] = tc
    BY <1>1 DEF Received, At
  <2>2. (IF u \in serving THEN ts \o <<>> ELSE <<>>) = ts
    BY <1>9, <2>1, ChannelMore
  <2>3. toServer' = [toServer EXCEPT ![u] = ts]
    BY <1>3, <2>1, <2>2 DEF Reply
  <2>4. toServer' = toServer
    BY <1>3, <2>1, <2>3
  <2> QED BY <1>7, <2>1, <2>4 DEF Reply
<1>11. StateFits'
  BY <1>3, <1>5, <1>6, <1>8, <1>10 DEF TransferInv, StateFits, serverVars
<1>12. \A v \in Users \ {u} : LeftAlone(v)
  BY <1>3, <1>10 DEF LeftAlone, serverVars
<1>13. PICK ph1 : ph1 = "main"
  OBVIOUS
<1>14. At(u, S, ts, tc1, o, n1, ph1, st)'
  BY <1>1, <1>3, <1>5, <1>10, <1>13 DEF At, Received, serverVars
<1>15. UserFits(u, S, ts, tc1, o, n1, ph1, st)'
  <2>1. OpsFit(o)'
    BY <1>1, <1>4, OpsKept DEF Received, OpsFit
  <2>2. ClientFits(n1, ph1, st)'
    BY <1>2, <1>6 DEF ClientFits, NodeFits
  <2>3. Delivered(tc1, n1, st)'
    <3>1. Delivered(tc1, n, st)
      BY <1>1, <1>7, DeliveredTail DEF Received
    <3>2. Delivered(tc1, n1, st)
      <4>1. \A i \in 1 .. Len(tc1) : tc1[i].type = "FileDataEnd" => tc1[i].session \in Sessions
        <5>1. ASSUME NEW i \in 1 .. Len(tc1), tc1[i].type = "FileDataEnd" PROVE tc1[i].session \in Sessions
          <6>1. PICK q \in ClientPackets : q = tc1[i]
            BY <1>8
          <6> QED BY <5>1, <6>1, ClientPacketIs
        <5> QED BY <5>1
      <4> QED BY <1>6, <3>1, <4>1 DEF Delivered
    <3> QED BY <1>4, <1>6, <1>8, <3>2, DeliveredKept
  <2>4. Promised(ts, o)'
    BY <1>1, <1>4, <1>9, PromisedKept DEF UserFits
  <2>5. ASSUME u \in S PROVE Served(u, ts, tc1, o, n1, ph1, st)' /\ InfoFirst(ts, tc1)
    BY <1>2, <1>4, <1>6, <1>7, <1>13, <2>5, AllLoaded, SMTT(20)
  <2> QED BY <1>8, <1>9, <1>13, <2>1, <2>2, <2>3, <2>4, <2>5 DEF UserFits
<1>16. Fits(u)'
  BY <1>14, <1>15, FitsAt
<1> QED BY <1>4, <1>11, <1>12, <1>16, OneMoves

\* FileDataEnded.
LEMMA FileDataEndedStep ==
  ASSUME TransferInv, NEW u \in Users, FileDataEnded(u)
  PROVE  TransferInv'
<1>1. toClient[u] # <<>> /\ Head(toClient[u]).type = "FileDataEnd"
  BY DEF FileDataEnded, Arrived
<1>2. PICK S, ts, tc, o, n, ph, st, p, s : ReceivedOf(u, S, ts, tc, o, n, ph, st, p, s)
  BY <1>1, ClientTakesOf
<1>3. /\ p = Head(toClient[u]) /\ s = p.session /\ Node(u, p) = n[s] /\ nodes[u] = n
      /\ s \in Sessions /\ NodeFits(n[s], s, ph, st)
      /\ n[s] # Absent => n[s] \in Entries
  BY <1>2, ReceivedIs
<1>4. n[s] # Absent /\ n[s].kind \in Downloads /\ n[s] \in Entries /\ p.type = "FileDataEnd"
  BY <1>1, <1>3 DEF FileDataEnded
<1>5. Reply(u, <<>>) /\ UNCHANGED <<serverVars, started, cached, logins, mishaps>>
  BY DEF FileDataEnded
<1>6. CASE n[s].kind # "login"
  <2>1. SetNode(u, s, Absent) /\ UNCHANGED phase
    BY <1>3, <1>6 DEF FileDataEnded
  <2>2. ClientOnly
    BY <1>5, <2>1 DEF ClientOnly, TransferInv, StateFits
  <2>3. AtRest(u, s, Absent, OpsOf(o, s), ph, st) => Follows(u, s, <<>>, Absent, OpsOf(o, s), ph, st)
    BY DEF Follows
  <2>4. n[s].kind \notin {"login", "loaded"}
    BY <1>4, <1>6 DEF Downloads
  <2> QED BY <1>2, <1>4, <1>5, <2>1, <2>2, <2>3, <2>4, ClientEnds
<1>7. CASE n[s].kind = "login" /\ ~LoadedAll(n, s)
  <2>1. SetNode(u, s, [n[s] EXCEPT !.kind = "loaded"]) /\ UNCHANGED phase
    BY <1>3, <1>7 DEF FileDataEnded, LoadedAll
  <2>2. ClientOnly
    BY <1>5, <2>1 DEF ClientOnly, TransferInv, StateFits
  <2>3. PICK d, O : d = n[s] /\ O = OpsOf(o, s)
    OBVIOUS
  <2>4. PICK x : x = [d EXCEPT !.kind = "loaded"]
    OBVIOUS
  <2>5. d \in [kind : Downloads \union {"loaded"}, key : Keys, data : Contents]
    BY <1>4, <2>3 DEF Entries, Downloads
  <2>6. x \in [kind : Downloads \union {"loaded"}, key : Keys, data : Contents] /\ x.kind = "loaded" /\ x.key = d.key
    BY <2>4, <2>5
  <2>7. x \in Entries /\ x # Absent /\ x \in Entries \union {Absent}
    BY <2>6, AbsentAssumption DEF Entries
  <2>8. NodeFits(x, s, ph, st)
    <3>1. NodeFits(d, s, ph, st) /\ d # Absent /\ d.kind = "login"
      BY <1>3, <1>4, <1>7, <2>3
    <3>2. x.kind = "loaded" /\ x.key = d.key
      BY <2>6
    <3> QED BY <2>7, <3>1, <3>2 DEF NodeFits
  <2>9. ASSUME u \in S PROVE Follows(u, s, <<>>, x, O, ph, st)
    <3>1. PacketAtClient(u, p, s, d, O, ph, st)
      BY <1>2, <2>3, <2>9 DEF ReceivedOf
    <3>2. O = {}
      BY <1>4, <3>1, StageAtClient
    <3>3. AtRest(u, s, x, O, ph, st)
      BY <2>6, <2>7, <3>2 DEF AtRest
    <3> QED BY <3>3 DEF Follows
  <2>10. SetNode(u, s, x) /\ (u \in S => Follows(u, s, <<>>, x, OpsOf(o, s), ph, st))
    BY <2>1, <2>3, <2>4, <2>9
  <2> QED BY <1>2, <1>5, <2>2, <2>7, <2>8, <2>10, ClientGoesOn
<1>8. CASE n[s].kind = "login" /\ LoadedAll(n, s)
  <2>1. phase' = [phase EXCEPT ![u] = "main"] /\ nodes' = [nodes EXCEPT ![u] = [r \in Sessions |-> Absent]]
    BY <1>3, <1>8 DEF FileDataEnded, LoadedAll
  <2> QED BY <1>2, <1>4, <1>5, <1>8, <2>1, LoginEndedStep
<1> QED BY <1>6, <1>7, <1>8

-----------------------------------------------------------------------------
(* What users do.                                                          *)

\* A session that has not been given out yet, and its first packet.
NewSession(u, ts, tc, o, n, ph, st, s) ==
  /\ ph = "main" /\ st \in Nat /\ s = st + 1 /\ s \in Sessions /\ s \notin Users /\ ~Known(s, st)
  /\ n \in [Sessions -> Entries \union {Absent}] /\ ts \in Seq(ServerPackets) /\ tc \in Seq(ClientPackets)
  /\ OpsFit(o) /\ ClientFits(n, ph, st) /\ Promised(ts, o) /\ Delivered(tc, n, st)

LEMMA SessionGivenOut ==
  ASSUME TransferInv, NEW u \in Users, phase[u] = "main", started[u] < MaxSessions
  PROVE  \E S, ts, tc, o, n, ph, st, s : /\ At(u, S, ts, tc, o, n, ph, st) /\ UserFits(u, S, ts, tc, o, n, ph, st)
                                         /\ NewSession(u, ts, tc, o, n, ph, st, s)
<1>1. PICK S, ts, tc, o, n, ph, st : At(u, S, ts, tc, o, n, ph, st)
  BY DEF At
<1>2. UserFits(u, S, ts, tc, o, n, ph, st) /\ ph = "main"
  BY <1>1, FitsAt DEF TransferInv, At
<1>3. PICK s : s = st + 1
  OBVIOUS
<1>4. st \in Nat /\ s \in 1 .. MaxSessions /\ s \notin 1 .. st
  BY <1>1, <1>3, TransferAssumption DEF At, TransferInv, StateFits
<1>5. s \in Sessions /\ s \notin Users /\ ~Known(s, st)
  BY <1>4, TransferAssumption DEF Sessions, Known
<1>6. /\ n \in [Sessions -> Entries \union {Absent}] /\ ts \in Seq(ServerPackets) /\ tc \in Seq(ClientPackets)
      /\ OpsFit(o) /\ ClientFits(n, ph, st) /\ Promised(ts, o) /\ Delivered(tc, n, st)
  BY <1>2 DEF UserFits, ClientFits
<1>7. NewSession(u, ts, tc, o, n, ph, st, s)
  BY <1>2, <1>3, <1>4, <1>5, <1>6 DEF NewSession
<1> QED BY <1>1, <1>2, <1>7

\* Nothing is known of it.
LEMMA NothingKnown ==
  ASSUME NEW u, NEW S, NEW ts, NEW tc, NEW o, NEW n, NEW ph, NEW st, NEW s,
         UserFits(u, S, ts, tc, o, n, ph, st), NewSession(u, ts, tc, o, n, ph, st, s)
  PROVE  /\ n[s] = Absent
         /\ u \in S => Among(ts, s) = {} /\ Among(tc, s) = {} /\ OpsOf(o, s) = {}
<1>1. n[s] = Absent
  <2>1. NodeFits(n[s], s, ph, st) /\ s \notin Users /\ s \notin 1 .. st
    BY DEF NewSession, ClientFits, Known
  <2> QED BY <2>1 DEF NodeFits
<1>2. ASSUME u \in S PROVE Among(ts, s) = {} /\ Among(tc, s) = {} /\ OpsOf(o, s) = {}
  <2>1. PICK A, C, x, O : A = Among(ts, s) /\ C = Among(tc, s) /\ x = n[s] /\ O = OpsOf(o, s)
    OBVIOUS
  <2>2. Flow(u, s, A, C, x, O, ph, st)
    BY <1>2, <2>1 DEF UserFits, Served, NewSession
  <2>3. ~Known(s, st) /\ s \notin Users /\ s > st /\ ph # "out" /\ x = Absent
    BY <1>1, <2>1 DEF NewSession
  <2>4. A = {} /\ C = {} /\ AtRest(u, s, x, O, ph, st)
    BY <2>2, <2>3 DEF Flow
  <2>5. O = {}
    BY <2>3, <2>4 DEF AtRest, IsIcon
  <2> QED BY <2>1, <2>4, <2>5
<1> QED BY <1>1, <1>2

\* What is there when the session has begun.
LEMMA SessionBegun ==
  ASSUME NEW u, \A v : Grows(v), NEW S, NEW ts, NEW tc, NEW o, NEW n, NEW ph, NEW st, NEW s,
         UserFits(u, S, ts, tc, o, n, ph, st), NewSession(u, ts, tc, o, n, ph, st, s), u \in S,
         NEW q \in ServerPackets, Of(q, s), q.type \notin {"Closed", "InfoRequest", "InfoData", "MessageNormal"},
         NEW n1, \A r \in Sessions \ {s} : n1[r] = n[r], n1[s] \in Entries,
         PacketAtServer(u, q, s, n1[s], {}, ph, s)
  PROVE  SendsOn(u, Append(ts, q), tc, o, n1, ph, s)
<1>1. /\ st \in Nat /\ s = st + 1 /\ s \in Nat /\ s \in Sessions /\ ph = "main" /\ st <= s
      /\ n \in [Sessions -> Entries \union {Absent}] /\ ts \in Seq(ServerPackets) /\ tc \in Seq(ClientPackets)
      /\ Promised(ts, o)
  BY DEF NewSession
<1>2. Served(u, ts, tc, o, n, ph, st) /\ InfoFirst(ts, tc)
  BY DEF UserFits
<1>3. \A r \in Sessions : AtMostOne(ts, r) /\ AtMostOne(tc, r)
  BY <1>2 DEF Served
<1>4. Among(ts, s) = {} /\ Among(tc, s) = {} /\ OpsOf(o, s) = {}
  BY NothingKnown
<1>5. PICK ts1 : ts1 = Append(ts, q)
  OBVIOUS
<1>6. /\ Among(ts1, s) = {q} /\ AtMostOne(ts1, s)
      /\ \A r \in Sessions \ {s} : AtMostOne(ts1, r) /\ Among(ts1, r) = Among(ts, r)
  <2>1. \A r : Of(q, r) => r = s
    BY DEF Of
  <2> QED BY <1>1, <1>3, <1>4, <1>5, <2>1, AmongAppend
<1>7. PICK A, C, x, O : A = Among(ts1, s) /\ C = Among(tc, s) /\ x = n1[s] /\ O = OpsOf(o, s)
  OBVIOUS
<1>8. Flow(u, s, A, C, x, O, ph, s)'
  <2>1. A = {q} /\ C = {} /\ O = {}
    BY <1>4, <1>6, <1>7
  <2>2. PacketAtServer(u, q, s, x, O, ph, s)
    BY <1>7, <2>1
  <2>3. Known(s, s)
    BY <1>1 DEF Known
  <2>4. Flow(u, s, A, C, x, O, ph, s)
    BY <2>1, <2>2, <2>3 DEF Flow
  <2>5. x \in Entries \union {Absent} /\ s <= s /\ Grows(u)
    BY <1>1, <1>7
  <2> QED BY <1>1, <2>4, <2>5, FlowKept
<1>9. Flow(u, s, Among(ts1, s), Among(tc, s), n1[s], OpsOf(o, s), ph, s)'
  BY <1>7, <1>8
<1>10. \A r \in Sessions \ {s} : /\ AtMostOne(ts1, r) /\ Among(ts1, r) = Among(ts, r)
                                  /\ AtMostOne(tc, r) /\ Among(tc, r) = Among(tc, r)
                                  /\ OpsOf(o, r) = OpsOf(o, r) /\ n1[r] = n[r]
  BY <1>3, <1>6
<1>11. /\ ts1 \in Seq(ServerPackets)
       /\ \A i \in 1 .. Len(ts1) : ts1[i] # Closed
       /\ \A i \in 1 .. Len(tc) : tc[i] # Closed
  <2>1. q # Closed
    BY PacketOf
  <2>2. /\ \A i \in 1 .. Len(ts) : ts[i] # Closed
        /\ \A i \in 1 .. Len(tc) : tc[i] # Closed
    BY <1>1, <1>2 DEF Served
  <2> QED BY <1>1, <1>5, <2>1, <2>2, ChannelAppend
<1>12. Served(u, ts1, tc, o, n1, ph, s)'
  <2>1. Grows(u) /\ AtMostOne(ts1, s) /\ AtMostOne(tc, s)
    BY <1>1, <1>3, <1>6
  <2> QED BY ONLY <1>1, <1>2, <1>9, <1>10, <1>11, <2>1, SessionMoves, SMTT(20)
<1>13. InfoFirst(ts1, tc) /\ Promised(ts1, o)
  BY <1>1, <1>2, <1>5, InfoReplied, PromisedSent
<1> QED BY <1>5, <1>11, <1>12, <1>13 DEF SendsOn

\* So the invariant holds when it has.
LEMMA StartStep ==
  ASSUME TransferInv, NEW u \in Users, NEW x, NEW q \in ServerPackets, Start(u, x, q),
         x \in Entries, x.kind \notin {"login", "loaded"}, x.kind = "image" => Stored(x.key),
         Of(q, CountSessionId(u)), q.type \notin {"Closed", "InfoRequest", "InfoData", "MessageNormal"},
         PacketAtServer(u, q, CountSessionId(u), x, {}, phase[u], CountSessionId(u)),
         UNCHANGED <<serverVars, phase, logins, mishaps>>, cached' \in [Users -> SUBSET Keys]
  PROVE  TransferInv'
<1>1. PICK S, ts, tc, o, n, ph, st, s : /\ At(u, S, ts, tc, o, n, ph, st) /\ UserFits(u, S, ts, tc, o, n, ph, st)
                                        /\ NewSession(u, ts, tc, o, n, ph, st, s)
  BY SessionGivenOut DEF Start
<1>2. CountSessionId(u) = s /\ ph = "main" /\ phase[u] = ph /\ serving = S /\ s <= MaxSessions
  <2>1. started[u] = st /\ s = st + 1 /\ st \in Nat /\ st < MaxSessions /\ MaxSessions \in Nat
    BY <1>1, TransferAssumption DEF At, NewSession, Start
  <2> QED BY <1>1, <2>1 DEF CountSessionId, At, NewSession
<1>3. /\ st \in Nat /\ s = st + 1 /\ s \in Nat /\ s \in 1 .. s /\ s \in Sessions
      /\ n \in [Sessions -> Entries \union {Absent}] /\ ts \in Seq(ServerPackets) /\ tc \in Seq(ClientPackets)
      /\ OpsFit(o) /\ ClientFits(n, ph, st) /\ Promised(ts, o) /\ Delivered(tc, n, st)
  BY <1>1 DEF NewSession
<1>4. /\ toServer \in [Users -> Seq(ServerPackets)] /\ toClient \in [Users -> Seq(ClientPackets)]
      /\ nodes \in [Users -> [Sessions -> Entries \union {Absent}]] /\ started \in [Users -> 0 .. MaxSessions]
  BY DEF TransferInv, StateFits
<1>5. FilesFit' /\ \A v : Grows(v)
  BY FilesSame DEF TransferInv, serverVars
<1>6. PICK n1 : n1 = [n EXCEPT ![s] = x]
  OBVIOUS
<1>7. /\ n1 \in [Sessions -> Entries \union {Absent}] /\ n1[s] = x
      /\ \A r \in Sessions \ {s} : n1[r] = n[r]
  BY <1>3, <1>6
<1>8. PICK ts2 : ts2 = IF u \in S THEN Append(ts, q) ELSE <<>>
  OBVIOUS
<1>9. ASSUME u \in S PROVE SendsOn(u, ts2, tc, o, n1, ph, s)
  <2>1. PacketAtServer(u, q, s, n1[s], {}, ph, s) /\ n1[s] \in Entries /\ Of(q, s)
    BY <1>2, <1>7
  <2>2. SendsOn(u, Append(ts, q), tc, o, n1, ph, s)
    BY <1>1, <1>5, <1>7, <1>9, <2>1, SessionBegun
  <2> QED BY <1>8, <1>9, <2>2
<1>10. ts2 \in Seq(ServerPackets)
  BY <1>8, <1>9 DEF SendsOn
<1>11. /\ toServer' = [toServer EXCEPT ![u] = ts2] /\ UNCHANGED toClient
       /\ nodes' = [nodes EXCEPT ![u] = n1] /\ started' = [started EXCEPT ![u] = s]
  <2>1. toServer[u] = ts /\ nodes[u] = n
    BY <1>1 DEF At
  <2>2. ts \o <<q>> = Append(ts, q)
    BY <1>3, ChannelMore
  <2>3. toServer' = [toServer EXCEPT ![u] = ts2] /\ UNCHANGED toClient
    BY <1>2, <1>4, <1>8, <2>1, <2>2 DEF Start, Send
  <2>4. nodes' = [nodes EXCEPT ![u] = n1]
    BY <1>2, <1>4, <1>6, <2>1 DEF Start, SetNode
  <2>5. started' = [started EXCEPT ![u] = s]
    BY <1>2 DEF Start
  <2> QED BY <2>3, <2>4, <2>5
<1>12. StateFits'
  <2>1. s \in 0 .. MaxSessions
    BY <1>2, <1>3, TransferAssumption
  <2>2. /\ toServer' \in [Users -> Seq(ServerPackets)] /\ started' \in [Users -> 0 .. MaxSessions]
        /\ nodes' \in [Users -> [Sessions -> Entries \union {Absent}]]
    BY <1>4, <1>7, <1>10, <1>11, <2>1
  <2> QED BY <1>11, <2>2 DEF TransferInv, StateFits, serverVars
<1>13. \A v \in Users \ {u} : LeftAlone(v)
  BY <1>4, <1>11 DEF LeftAlone, serverVars
<1>14. At(u, S, ts2, tc, o, n1, ph, s)'
  BY <1>1, <1>4, <1>11 DEF At, serverVars
<1>15. UserFits(u, S, ts2, tc, o, n1, ph, s)'
  <2>1. OpsFit(o)'
    BY <1>3, <1>5, OpsKept DEF OpsFit
  <2>2. ClientFits(n1, ph, s)'
    <3>1. \A r \in Sessions : NodeFits(n1[r], r, ph, s)'
      <4>1. ASSUME NEW r \in Sessions, NEW e, e = n1[r] PROVE NodeFits(e, r, ph, s)'
        <5>1. CASE r = s
          <6>1. NodeFits(e, r, ph, s)
            BY <1>2, <1>3, <1>7, <4>1, <5>1 DEF NodeFits
          <6>2. Grows(u) /\ s <= s
            BY <1>3, <1>5
          <6> QED BY <1>3, <6>1, <6>2, NodeKept
        <5>2. CASE r # s
          <6>1. NodeFits(e, r, ph, st) /\ st <= s /\ Grows(u)
            BY <1>3, <1>5, <1>7, <4>1, <5>2 DEF ClientFits
          <6> QED BY <1>3, <6>1, NodeKept
        <5> QED BY <5>1, <5>2
      <4> QED BY <4>1
    <3> QED BY <1>2, <1>7, <3>1 DEF ClientFits
  <2>3. Delivered(tc, n1, s)'
    <3>1. Delivered(tc, n1, s)
      <4>1. ASSUME NEW i \in 1 .. Len(tc)
            PROVE  /\ "session" \in DOMAIN tc[i] => Known(tc[i].session, s)
                   /\ tc[i].type = "InfoData" => Stored(tc[i].key)
                   /\ tc[i].type = "FileDataEnd" /\ tc[i].code = "ok" =>
                        /\ \A j \in 1 .. i - 1 : ~Of(tc[j], tc[i].session)
                        /\ n1[tc[i].session] # Absent =>
                             /\ IsDownload(n1[tc[i].session])
                             /\ Complete(n1[tc[i].session].data, n1[tc[i].session].key)
        <5>1. /\ "session" \in DOMAIN tc[i] => Known(tc[i].session, st)
              /\ tc[i].type = "InfoData" => Stored(tc[i].key)
              /\ tc[i].type = "FileDataEnd" /\ tc[i].code = "ok" =>
                   /\ \A j \in 1 .. i - 1 : ~Of(tc[j], tc[i].session)
                   /\ n[tc[i].session] # Absent =>
                        /\ IsDownload(n[tc[i].session])
                        /\ Complete(n[tc[i].session].data, n[tc[i].session].key)
          BY <1>3 DEF Delivered
        <5>2. PICK p \in ClientPackets : p = tc[i]
          BY <1>3
        <5>3. \A r : Known(r, st) => Known(r, s) /\ r # s
          BY <1>1, <1>3 DEF Known, NewSession
        <5>4. p.type = "FileDataEnd" => p.session \in Sessions /\ Known(p.session, st)
          <6>1. ASSUME p.type = "FileDataEnd" PROVE "session" \in DOMAIN p /\ p.session \in Sessions
            <7>1. p.session \in Sessions /\ p = FileDataEnd(p.session, p.code)
              BY <6>1, ClientPacketIs
            <7>2. "session" \in DOMAIN p
              BY <7>1, PacketOf DEF Of
            <7> QED BY <7>1, <7>2
          <6> QED BY <5>1, <5>2, <6>1
        <5>5. p.type = "FileDataEnd" => n1[p.session] = n[p.session]
          BY <1>7, <5>3, <5>4
        <5> QED BY <5>1, <5>2, <5>3, <5>5
      <4> QED BY <4>1 DEF Delivered
    <3> QED BY <1>3, <1>5, <1>7, <3>1, DeliveredKept
  <2>4. Promised(ts2, o)'
    <3>1. CASE u \in S
      <4>1. Promised(ts2, o)
        BY <1>9, <3>1 DEF SendsOn
      <4> QED BY <1>5, <1>10, <4>1, PromisedKept
    <3>2. CASE u \notin S
      BY <1>8, <3>2 DEF Promised
    <3> QED BY <3>1, <3>2
  <2>5. u \in S => Served(u, ts2, tc, o, n1, ph, s)' /\ InfoFirst(ts2, tc)
    BY <1>9 DEF SendsOn
  <2>6. u \notin S => ts2 = <<>> /\ o = <<>>
    BY <1>1, <1>8 DEF UserFits
  <2> QED BY <1>2, <1>3, <1>10, <2>1, <2>2, <2>3, <2>4, <2>5, <2>6 DEF UserFits
<1>16. Fits(u)'
  BY <1>14, <1>15, FitsAt
<1> QED BY <1>5, <1>12, <1>13, <1>16, OneMoves

\* The packets that begin a transfer.
LEMMA FirstRequest ==
  ASSUME NEW u, NEW s \in Sessions, NEW ph, NEW st, NEW k \in Keys, NEW x, x.key = k,
         IsDownload(x), x.data = <<>>
  PROVE  \E q \in ServerPackets : /\ q = FileRequest(s, k) /\ Of(q, s) /\ q.type = "FileRequest"
                                   /\ PacketAtServer(u, q, s, x, {}, ph, st)
<1>1. PICK q \in ServerPackets : q = FileRequest(s, k)
  BY DEF ServerPackets
<1>2. Of(q, s) /\ q.type = "FileRequest" /\ q.key = k
  BY <1>1, PacketOf, PacketType, PacketFields
<1>3. PacketAtServer(u, q, s, x, {}, ph, st)
  BY <1>1, <1>2 DEF PacketAtServer
<1> QED BY <1>1, <1>2, <1>3

LEMMA FirstStoreRequest ==
  ASSUME NEW u, NEW s \in Sessions, NEW ph, NEW st, NEW k \in Keys, NEW x, x.key = k,
         IsUpload(x), x.open, x.seq = 0
  PROVE  \E q \in ServerPackets : /\ q = FileStoreRequest(s, k) /\ Of(q, s) /\ q.type = "FileStoreRequest"
                                   /\ PacketAtServer(u, q, s, x, {}, ph, st)
<1>1. PICK q \in ServerPackets : q = FileStoreRequest(s, k)
  BY DEF ServerPackets
<1>2. Of(q, s) /\ q.type = "FileStoreRequest" /\ q.key = k
  BY <1>1, PacketOf, PacketType, PacketFields
<1>3. PacketAtServer(u, q, s, x, {}, ph, st)
  BY <1>1, <1>2 DEF PacketAtServer
<1> QED BY <1>1, <1>2, <1>3

\* The nodes that wait for it.
LEMMA NewNodes ==
  ASSUME NEW k \in Keys
  PROVE  /\ \A kind \in {"save", "image"} :
              LET x == Download(kind, k)
              IN  /\ x \in Entries /\ x.key = k /\ x.kind = kind
                  /\ IsDownload(x) /\ x.data = <<>>
         /\ \A kind \in {"file", "photo"} : \A v \in Users, m \in Nat :
              LET x == Upload(kind, k, v, m)
              IN  /\ x \in Entries /\ x.key = k /\ x.kind = kind
                  /\ IsUpload(x) /\ x.open /\ x.seq = 0
<1>1. ASSUME NEW kind \in {"save", "image"}, NEW x, x = Download(kind, k)
      PROVE  x \in Entries /\ x.key = k /\ x.kind = kind /\ IsDownload(x) /\ x.data = <<>>
  <2>1. x \in Entries /\ x.key = k /\ x.kind = kind /\ x.data = <<>>
    BY <1>1 DEF Download, Entries, Downloads, Contents
  <2> QED BY <2>1, AbsentAssumption DEF IsDownload, Downloads
<1>2. ASSUME NEW kind \in {"file", "photo"}, NEW v \in Users, NEW m \in Nat, NEW x, x = Upload(kind, k, v, m)
      PROVE  x \in Entries /\ x.key = k /\ x.kind = kind /\ IsUpload(x) /\ x.open /\ x.seq = 0
  <2>1. x \in Entries /\ x.key = k /\ x.kind = kind /\ x.open /\ x.seq = 0
    BY <1>2 DEF Upload, Entries
  <2> QED BY <2>1, AbsentAssumption DEF IsUpload
<1> QED BY <1>1, <1>2

\* A transfer begins with a request.
LEMMA TransferBegins ==
  ASSUME TransferInv, NEW u \in Users, NEW k \in Keys, NEW x, x \in Entries, x.key = k,
         x.kind \notin {"login", "loaded"}, x.kind = "image" => Stored(k),
         NEW q, Start(u, x, q),
         \/ IsDownload(x) /\ x.data = <<>> /\ q = FileRequest(CountSessionId(u), k)
         \/ IsUpload(x) /\ x.open /\ x.seq = 0 /\ q = FileStoreRequest(CountSessionId(u), k),
         UNCHANGED <<serverVars, phase, logins, mishaps>>, cached' \in [Users -> SUBSET Keys]
  PROVE  TransferInv'
<1>1. PICK s : s = CountSessionId(u)
  OBVIOUS
<1>2. s \in Sessions
  <2>1. phase[u] = "main" /\ started[u] < MaxSessions /\ started[u] \in 0 .. MaxSessions
    BY DEF Start, TransferInv, StateFits
  <2> QED BY <1>1, <2>1, TransferAssumption DEF CountSessionId, Sessions
<1>3. PICK m \in ServerPackets : /\ m = q /\ Of(m, s) /\ m.type \in {"FileRequest", "FileStoreRequest"}
                                 /\ PacketAtServer(u, m, s, x, {}, phase[u], s)
  <2>1. CASE IsDownload(x) /\ x.data = <<>> /\ q = FileRequest(s, k)
    <3>1. PICK m \in ServerPackets : /\ m = FileRequest(s, k) /\ Of(m, s) /\ m.type = "FileRequest"
                                     /\ PacketAtServer(u, m, s, x, {}, phase[u], s)
      BY <1>2, <2>1, FirstRequest
    <3>2. m = q
      BY <2>1, <3>1
    <3> QED BY <3>1, <3>2
  <2>2. CASE IsUpload(x) /\ x.open /\ x.seq = 0 /\ q = FileStoreRequest(s, k)
    <3>1. PICK m \in ServerPackets : /\ m = FileStoreRequest(s, k) /\ Of(m, s) /\ m.type = "FileStoreRequest"
                                     /\ PacketAtServer(u, m, s, x, {}, phase[u], s)
      <4>1. IsUpload(x) /\ x.open /\ x.seq = 0 /\ x \in Entries /\ x.key = k /\ k \in Keys
        BY <2>2
      <4> QED BY <1>2, <4>1, FirstStoreRequest
    <3>2. m = q
      BY <2>2, <3>1
    <3> QED BY <3>1, <3>2
  <2> QED BY <1>1, <2>1, <2>2
<1>4. m.type \notin {"Closed", "InfoRequest", "InfoData", "MessageNormal"} /\ Start(u, x, m)
  BY <1>3
<1> QED BY <1>1, <1>3, <1>4, StartStep

LEMMA FileMessageRecvStep ==
  ASSUME TransferInv, NEW u \in Users, NEW k \in Chosen, file_message_recv(u, k)
  PROVE  TransferInv'
<1>1. k \in Keys
  BY TransferAssumption
<1>2. PICK x : x = Download("save", k)
  OBVIOUS
<1>3. x \in Entries /\ x.key = k /\ x.kind = "save" /\ IsDownload(x) /\ x.data = <<>>
  BY <1>1, <1>2, NewNodes
<1>4. PICK q : q = FileRequest(CountSessionId(u), k)
  OBVIOUS
<1>5. Start(u, x, q)
  BY <1>2, <1>4 DEF file_message_recv
<1>6. UNCHANGED <<serverVars, phase, logins, mishaps>> /\ cached' \in [Users -> SUBSET Keys]
  BY DEF file_message_recv, TransferInv, StateFits
<1> QED BY <1>1, <1>3, <1>4, <1>5, <1>6, TransferBegins

LEMMA FindImageStep ==
  ASSUME TransferInv, NEW u \in Users, NEW f \in Users, FindImage(u, f)
  PROVE  TransferInv'
<1>1. PICK k : k = icon[f]
  OBVIOUS
<1>2. k \in Keys /\ Stored(k)
  BY <1>1 DEF TransferInv, FilesFit
<1>3. PICK x : x = Download("image", k)
  OBVIOUS
<1>4. x \in Entries /\ x.key = k /\ x.kind = "image" /\ IsDownload(x) /\ x.data = <<>>
  BY <1>2, <1>3, NewNodes
<1>5. PICK q : q = FileRequest(CountSessionId(u), k)
  OBVIOUS
<1>6. Start(u, x, q)
  BY <1>1, <1>3, <1>5 DEF FindImage
<1>7. UNCHANGED <<serverVars, phase, logins, mishaps>> /\ cached' \in [Users -> SUBSET Keys]
  BY DEF FindImage, TransferInv, StateFits
<1> QED BY <1>2, <1>4, <1>5, <1>6, <1>7, TransferBegins

LEMMA UploadingFileStep ==
  ASSUME TransferInv, NEW u \in Users, NEW k \in Chosen, NEW v \in Users, UploadingFile(u, k, v)
  PROVE  TransferInv'
<1>1. k \in Keys /\ Lengths(k) \subseteq Nat
  BY TransferAssumption DEF Lengths
<1>2. PICK m \in Nat : Start(u, Upload("file", k, v, m), FileStoreRequest(CountSessionId(u), k))
  BY <1>1 DEF UploadingFile
<1>3. PICK x : x = Upload("file", k, v, m)
  OBVIOUS
<1>4. x \in Entries /\ x.key = k /\ x.kind = "file" /\ IsUpload(x) /\ x.open /\ x.seq = 0
  BY <1>1, <1>3, NewNodes
<1>5. PICK q : q = FileStoreRequest(CountSessionId(u), k)
  OBVIOUS
<1>6. Start(u, x, q)
  BY <1>2, <1>3, <1>5
<1>7. UNCHANGED <<serverVars, phase, logins, mishaps>> /\ cached' \in [Users -> SUBSET Keys]
  BY DEF UploadingFile, TransferInv, StateFits
<1> QED BY <1>1, <1>4, <1>5, <1>6, <1>7, TransferBegins

LEMMA NewHeadStep ==
  ASSUME TransferInv, NEW u \in Users, NEW k \in Chosen, new_head(u, k)
  PROVE  TransferInv'
<1>1. k \in Keys /\ Pages[k] \in Nat
  BY TransferAssumption
<1>2. PICK x : x = Upload("photo", k, u, Pages[k])
  OBVIOUS
<1>3. x \in Entries /\ x.key = k /\ x.kind = "photo" /\ IsUpload(x) /\ x.open /\ x.seq = 0
  BY <1>1, <1>2, NewNodes
<1>4. PICK q : q = FileStoreRequest(CountSessionId(u), k)
  OBVIOUS
<1>5. Start(u, x, q)
  BY <1>2, <1>4 DEF new_head
<1>6. UNCHANGED <<serverVars, phase, logins, mishaps>> /\ cached' \in [Users -> SUBSET Keys]
  BY <1>1 DEF new_head, TransferInv, StateFits
<1> QED BY <1>1, <1>3, <1>4, <1>5, <1>6, TransferBegins

\* Login: what the client asks for, and that nothing else is there.
LEMMA RosterAsked ==
  ASSUME NEW u \in Users, NEW ts, ts = [i \in DOMAIN Roster[u] |-> InfoRequest(Roster[u][i])]
  PROVE  /\ ts \in Seq(ServerPackets)
         /\ \A i \in 1 .. Len(ts) : ts[i].type = "InfoRequest" /\ ts[i] # Closed
         /\ \A s : AtMostOne(ts, s)
         /\ \A s : s \notin Range(Roster[u]) => Among(ts, s) = {}
         /\ \A s \in Range(Roster[u]) : s \in Users /\ Among(ts, s) = {InfoRequest(s)}
<1>1. Roster[u] \in Seq(Users) /\ IsInjective(Roster[u])
  BY TransferAssumption
<1>2. PICK R : R = Roster[u]
  OBVIOUS
<1>3. R \in Seq(Users) /\ DOMAIN R = 1 .. Len(R) /\ Len(R) \in Nat
  BY <1>1, <1>2
<1>4. \A i, j \in 1 .. Len(R) : R[i] = R[j] => i = j
  BY <1>1, <1>2, <1>3 DEF IsInjective
<1>5. \A i \in 1 .. Len(R) : R[i] \in Users /\ InfoRequest(R[i]) \in ServerPackets
  BY <1>3 DEF ServerPackets
<1>6. ts \in Seq(ServerPackets) /\ Len(ts) = Len(R) /\ \A i \in 1 .. Len(R) : ts[i] = InfoRequest(R[i])
  <2>1. ts = [i \in 1 .. Len(R) |-> InfoRequest(R[i])]
    BY <1>2, <1>3
  <2> QED BY <1>3, <1>5, <2>1
<1>7. \A i \in 1 .. Len(ts) : ts[i].type = "InfoRequest" /\ ts[i] # Closed
  <2>1. \A f : InfoRequest(f).type = "InfoRequest" /\ InfoRequest(f) # Closed
    BY PacketType
  <2> QED BY <1>6, <2>1
<1>8. \A i \in 1 .. Len(ts) : \A s : Of(ts[i], s) <=> R[i] = s
  BY <1>6, PacketOf
<1>9. \A s : AtMostOne(ts, s)
  <2>1. ASSUME NEW s, NEW i \in 1 .. Len(ts), NEW j \in 1 .. Len(ts), Of(ts[i], s), Of(ts[j], s) PROVE i = j
    <3>1. i \in 1 .. Len(R) /\ j \in 1 .. Len(R) /\ R[i] = s /\ R[j] = s
      BY <1>6, <1>8, <2>1
    <3> QED BY <1>4, <3>1
  <2> QED BY <2>1 DEF AtMostOne
<1>10. \A s : s \in Range(R) <=> \E i \in 1 .. Len(R) : R[i] = s
  BY <1>3 DEF Range
<1>11. \A s : s \notin Range(R) => Among(ts, s) = {}
  <2>1. ASSUME NEW s, s \notin Range(R), NEW i \in 1 .. Len(ts), Of(ts[i], s) PROVE FALSE
    <3>1. i \in 1 .. Len(R) /\ R[i] = s
      BY <1>6, <1>8, <2>1
    <3> QED BY <1>10, <2>1, <3>1
  <2>2. ASSUME NEW s, s \notin Range(R) PROVE Among(ts, s) = {}
    <3>1. \A i \in 1 .. Len(ts) : ~Of(ts[i], s)
      BY <2>1, <2>2
    <3> QED BY <3>1 DEF Among
  <2> QED BY <2>2
<1>12. ASSUME NEW s \in Range(R) PROVE s \in Users /\ Among(ts, s) = {InfoRequest(s)}
  <2>1. PICK i \in 1 .. Len(R) : R[i] = s
    BY <1>10
  <2>2. ts[i] = InfoRequest(s) /\ Of(ts[i], s) /\ i \in 1 .. Len(ts)
    BY <1>6, <1>8, <2>1
  <2>3. \A j \in 1 .. Len(ts) : Of(ts[j], s) => j = i
    BY <2>2, <1>9 DEF AtMostOne
  <2>4. Among(ts, s) = {ts[i]}
    BY <2>2, <2>3 DEF Among
  <2> QED BY <1>5, <2>1, <2>2, <2>4
<1> QED BY <1>2, <1>6, <1>7, <1>9, <1>11, <1>12

LEMMA AskedFlow ==
  ASSUME NEW u \in Users, NEW s, NEW A, NEW C, C = {}, NEW n, n = Absent, NEW O, O = {}, NEW ph, ph = "login", NEW st,
         s \notin Range(Roster[u]) => A = {},
         s \in Range(Roster[u]) => s \in Users /\ A = {InfoRequest(s)}
  PROVE  Flow(u, s, A, C, n, O, ph, st)'
<1>1. CASE s \notin Range(Roster[u])
  <2>1. AtRest(u, s, n, O, ph, st)'
    BY <1>1 DEF AtRest
  <2> QED BY <1>1, <2>1 DEF Flow
<1>2. CASE s \in Range(Roster[u])
  <2>1. PICK p : p = InfoRequest(s)
    OBVIOUS
  <2>2. PacketAtServer(u, p, s, n, O, ph, st)'
    BY <1>2, <2>1 DEF PacketAtServer
  <2>3. Known(s, st)'
    BY <1>2 DEF Known
  <2>4. p \in A /\ A = {p}
    BY <1>2, <2>1
  <2> QED BY <2>2, <2>3, <2>4 DEF Flow
<1> QED BY <1>1, <1>2

LEMMA LoginStep ==
  ASSUME TransferInv, NEW u \in Users, Login(u)
  PROVE  TransferInv'
<1>1. PICK S, ts, tc, o, n, ph, st : At(u, S, ts, tc, o, n, ph, st)
  BY DEF At
<1>2. UserFits(u, S, ts, tc, o, n, ph, st) /\ u \notin S /\ ph = "out"
  BY <1>1, FitsAt DEF TransferInv, At, Login
<1>3. /\ n \in [Sessions -> Entries \union {Absent}] /\ \A s \in Sessions : n[s] = Absent
      /\ st = 0 /\ tc = <<>> /\ o = <<>>
  BY <1>2 DEF UserFits, ClientFits, NodeFits
<1>4. /\ serving \subseteq Users /\ toServer \in [Users -> Seq(ServerPackets)]
      /\ phase \in [Users -> {"out", "login", "main"}]
      /\ logins \in 0 .. MaxLogins /\ logins < MaxLogins /\ MaxLogins \in Nat
  BY TransferAssumption DEF TransferInv, StateFits, Login
<1>5. PICK ts1 : ts1 = [i \in DOMAIN Roster[u] |-> InfoRequest(Roster[u][i])]
  OBVIOUS
<1>6. /\ ts1 \in Seq(ServerPackets)
      /\ \A i \in 1 .. Len(ts1) : ts1[i].type = "InfoRequest" /\ ts1[i] # Closed
      /\ \A s : AtMostOne(ts1, s)
      /\ \A s : s \notin Range(Roster[u]) => Among(ts1, s) = {}
      /\ \A s \in Range(Roster[u]) : s \in Users /\ Among(ts1, s) = {InfoRequest(s)}
  BY <1>5, RosterAsked
<1>7. /\ phase' = [phase EXCEPT ![u] = "login"] /\ serving' = serving \union {u}
      /\ toServer' = [toServer EXCEPT ![u] = ts1] /\ logins' = logins + 1
      /\ mishaps' = mishaps \ {<<"refused", u>>}
      /\ UNCHANGED <<ops, files, icon, mail, nodes, started, cached, toClient>>
  BY <1>5 DEF Login
<1>8. FilesFit' /\ \A v \in Users \ {u} : Grows(v)
  <2>1. \A k, m : m \in {"short", "failed"} /\ <<m, k>> \in mishaps => <<m, k>> \in mishaps'
    BY <1>7
  <2>2. \A v \in Users \ {u} : <<"refused", v>> \in mishaps => <<"refused", v>> \in mishaps'
    BY <1>7
  <2>3. \A k : Stored(k)' <=> Stored(k)
    BY <1>7 DEF Stored
  <2>4. \A v \in Users \ {u} : Grows(v)
    BY <2>1, <2>2, <2>3 DEF Grows
  <2>5. \A d, k : Complete(d, k) => Complete(d, k)'
    BY <2>1 DEF Complete, Prefix
  <2>6. FilesFit'
    <3>1. FilesFit
      BY DEF TransferInv
    <3>2. mishaps' \subseteq {"short", "failed"} \X Keys \union {"refused"} \X Users
      BY <1>7, <3>1 DEF FilesFit
    <3>3. \A v \in Users : \A k \in mail'[v] : Stored(k)' \/ <<"failed", k>> \in mishaps'
      BY <1>7, <2>1, <2>3, <3>1 DEF FilesFit
    <3>4. ASSUME NEW k \in Keys, Stored(k)' PROVE Complete(files[k], k)'
      <4>1. PICK d : d = files[k]
        OBVIOUS
      <4>2. Complete(d, k)
        BY <2>3, <3>1, <3>4, <4>1 DEF FilesFit
      <4>3. Complete(d, k)'
        BY <2>5, <4>2
      <4>4. d = files'[k]
        BY <1>7, <4>1
      <4> QED BY <4>3, <4>4 DEF Complete, Prefix
    <3>5. /\ files' \in [Keys -> Contents \union {Absent}] /\ icon' \in [Users -> Keys]
          /\ mail' \in [Users -> SUBSET Keys] /\ \A v \in Users : Stored(icon[v])'
      BY <1>7, <2>3, <3>1 DEF FilesFit
    <3> QED BY <3>2, <3>3, <3>4, <3>5 DEF FilesFit
  <2> QED BY <2>4, <2>6
<1>9. StateFits'
  <2>1. logins' \in 0 .. MaxLogins
    BY <1>4, <1>7
  <2>2. /\ serving' \subseteq Users /\ toServer' \in [Users -> Seq(ServerPackets)]
        /\ phase' \in [Users -> {"out", "login", "main"}]
    BY <1>4, <1>6, <1>7
  <2> QED BY <1>7, <2>1, <2>2 DEF TransferInv, StateFits
<1>10. \A v \in Users \ {u} : LeftAlone(v)
  BY <1>4, <1>7 DEF LeftAlone
<1>11. PICK S1, ph1 : S1 = serving' /\ ph1 = "login"
  OBVIOUS
<1>12. At(u, S1, ts1, tc, o, n, ph1, st)'
  BY <1>1, <1>4, <1>7, <1>11 DEF At
<1>13. UserFits(u, S1, ts1, tc, o, n, ph1, st)'
  <2>1. OpsFit(o)'
    BY <1>3 DEF OpsFit, OpList, OneEach
  <2>2. ClientFits(n, ph1, st)'
    BY <1>3, <1>11 DEF ClientFits, NodeFits
  <2>3. Delivered(tc, n, st)' /\ tc \in Seq(ClientPackets)
    BY <1>3 DEF Delivered
  <2>4. Promised(ts1, o)'
    BY <1>6 DEF Promised
  <2>5. InfoFirst(ts1, tc)
    <3>1. \A i \in 1 .. Len(ts1) : \A j \in 1 .. i : j \in 1 .. Len(ts1)
      BY <1>6
    <3> QED BY <1>3, <1>6, <3>1 DEF InfoFirst
  <2>6. Served(u, ts1, tc, o, n, ph1, st)'
    <3>1. ASSUME NEW s \in Sessions
          PROVE  /\ AtMostOne(ts1, s) /\ AtMostOne(tc, s)
                 /\ Flow(u, s, Among(ts1, s), Among(tc, s), n[s], OpsOf(o, s), ph1, st)'
      <4>1. AtMostOne(ts1, s) /\ AtMostOne(tc, s) /\ Among(tc, s) = {}
        BY <1>3, <1>6, AmongEmpty
      <4>2. OpsOf(o, s) = {}
        BY <1>3 DEF OpsOf
      <4>3. PICK A, C, x, O : A = Among(ts1, s) /\ C = Among(tc, s) /\ x = n[s] /\ O = OpsOf(o, s)
        OBVIOUS
      <4>4. Flow(u, s, A, C, x, O, ph1, st)'
        <5>1. C = {} /\ x = Absent /\ O = {} /\ ph1 = "login"
          BY <1>3, <1>11, <4>1, <4>2, <4>3
        <5>2. /\ s \notin Range(Roster[u]) => A = {}
              /\ s \in Range(Roster[u]) => s \in Users /\ A = {InfoRequest(s)}
          BY <1>6, <4>3
        <5> QED BY <5>1, <5>2, AskedFlow
      <4> QED BY <4>1, <4>3, <4>4
    <3> QED BY <1>3, <1>6, <3>1 DEF Served
  <2>7. u \in S1 /\ ph1 # "out"
    BY <1>7, <1>11
  <2> QED BY <1>6, <2>1, <2>2, <2>3, <2>4, <2>5, <2>6, <2>7 DEF UserFits
<1>14. Fits(u)'
  BY <1>12, <1>13, FitsAt
<1> QED BY <1>8, <1>9, <1>10, <1>14, OneMoves

\* A client that goes away knows nothing of its sessions any more.
LEMMA OutFlow ==
  ASSUME NEW u, NEW s, NEW A, NEW C, NEW n, NEW O, NEW ph, NEW st, Flow(u, s, A, C, n, O, ph, st),
         NEW n1, NEW ph1, ph1 = "out", NEW st1, NEW C1, C1 = {}
  PROVE  Flow(u, s, A, C1, n1, O, ph1, st1)'
<1>1. CASE A = {}
  BY <1>1 DEF Flow
<1>2. ASSUME NEW p \in A, A = {p}, PacketAtServer(u, p, s, n, O, ph, st)
      PROVE  Flow(u, s, A, C1, n1, O, ph1, st1)'
  <2>1. PacketAtServer(u, p, s, n1, O, ph1, st1)'
    BY <1>2, Zenon DEF PacketAtServer
  <2> QED BY <1>2, <2>1 DEF Flow
<1> QED BY <1>1, <1>2 DEF Flow

\* Disconnected and Quit: the connection is closed.
LEMMA OutStep ==
  ASSUME TransferInv, NEW u \in Users, Out(u),
         toServer' = [toServer EXCEPT ![u] = IF u \in serving THEN Append(@, Closed) ELSE <<>>]
  PROVE  TransferInv'
<1>1. PICK S, ts, tc, o, n, ph, st : At(u, S, ts, tc, o, n, ph, st)
  BY DEF At
<1>2. UserFits(u, S, ts, tc, o, n, ph, st)
  BY <1>1, FitsAt DEF TransferInv, At
<1>3. /\ ts \in Seq(ServerPackets) /\ Promised(ts, o) /\ OpsFit(o) /\ (u \notin S => o = <<>>)
  BY <1>2 DEF UserFits
<1>4. /\ toServer \in [Users -> Seq(ServerPackets)] /\ toClient \in [Users -> Seq(ClientPackets)]
      /\ nodes \in [Users -> [Sessions -> Entries \union {Absent}]]
      /\ phase \in [Users -> {"out", "login", "main"}] /\ started \in [Users -> 0 .. MaxSessions]
  BY DEF TransferInv, StateFits
<1>5. FilesFit' /\ \A v : Grows(v)
  BY FilesSame DEF TransferInv, Out, serverVars
<1>6. PICK n1 : n1 = [s \in Sessions |-> Absent]
  OBVIOUS
<1>7. n1 \in [Sessions -> Entries \union {Absent}] /\ \A s \in Sessions : n1[s] = Absent
  BY <1>6
<1>8. PICK ts1 : ts1 = IF u \in S THEN Append(ts, Closed) ELSE <<>>
  OBVIOUS
<1>9. Closed \in ServerPackets /\ Closed.type = "Closed" /\ \A s : ~Of(Closed, s)
  BY PacketType, PacketOf DEF ServerPackets
<1>10. ts1 \in Seq(ServerPackets)
  BY <1>3, <1>8, <1>9, ChannelAppend
<1>11. /\ toServer' = [toServer EXCEPT ![u] = ts1] /\ toClient' = [toClient EXCEPT ![u] = <<>>]
       /\ phase' = [phase EXCEPT ![u] = "out"] /\ nodes' = [nodes EXCEPT ![u] = n1]
       /\ started' = [started EXCEPT ![u] = 0] /\ UNCHANGED <<serverVars, cached, logins, mishaps>>
  <2>1. serving = S /\ toServer[u] = ts
    BY <1>1 DEF At
  <2> QED BY <1>6, <1>8, <2>1 DEF Out
<1>12. StateFits'
  <2>1. /\ toServer' \in [Users -> Seq(ServerPackets)] /\ toClient' \in [Users -> Seq(ClientPackets)]
        /\ nodes' \in [Users -> [Sessions -> Entries \union {Absent}]]
        /\ phase' \in [Users -> {"out", "login", "main"}] /\ started' \in [Users -> 0 .. MaxSessions]
    BY <1>4, <1>7, <1>10, <1>11, TransferAssumption
  <2> QED BY <1>11, <2>1 DEF TransferInv, StateFits, serverVars
<1>13. \A v \in Users \ {u} : LeftAlone(v)
  BY <1>4, <1>11 DEF LeftAlone, serverVars
<1>14. PICK ph1, tc1, st1 : ph1 = "out" /\ tc1 = <<>> /\ st1 = 0
  OBVIOUS
<1>15. At(u, S, ts1, tc1, o, n1, ph1, st1)'
  BY <1>1, <1>4, <1>11, <1>14 DEF At, serverVars
<1>16. UserFits(u, S, ts1, tc1, o, n1, ph1, st1)'
  <2>1. OpsFit(o)'
    BY <1>3, <1>5, OpsKept DEF OpsFit
  <2>2. ClientFits(n1, ph1, st1)'
    BY <1>7, <1>14 DEF ClientFits, NodeFits
  <2>3. Delivered(tc1, n1, st1)' /\ tc1 \in Seq(ClientPackets)
    BY <1>14 DEF Delivered
  <2>4. Promised(ts1, o)'
    <3>1. CASE u \in S
      <4>1. Promised(ts1, o)
        BY <1>3, <1>8, <1>9, <3>1, PromisedSent
      <4> QED BY <1>5, <1>10, <4>1, PromisedKept
    <3>2. CASE u \notin S
      BY <1>8, <3>2 DEF Promised
    <3> QED BY <3>1, <3>2
  <2>5. ASSUME u \in S PROVE Served(u, ts1, tc1, o, n1, ph1, st1)' /\ InfoFirst(ts1, tc1)
    <3>1. Served(u, ts, tc, o, n, ph, st) /\ InfoFirst(ts, tc)
      BY <1>2, <2>5 DEF UserFits
    <3>2. InfoFirst(ts1, tc1)
      <4>1. InfoFirst(ts, tc1)
        BY <1>14, <3>1 DEF InfoFirst
      <4> QED BY <1>3, <1>8, <1>9, <2>5, <4>1, InfoReplied
    <3>3. ASSUME NEW s \in Sessions
          PROVE  /\ AtMostOne(ts1, s) /\ AtMostOne(tc1, s)
                 /\ Flow(u, s, Among(ts1, s), Among(tc1, s), n1[s], OpsOf(o, s), ph1, st1)'
      <4>1. AtMostOne(ts, s) /\ Flow(u, s, Among(ts, s), Among(tc, s), n[s], OpsOf(o, s), ph, st)
        BY <3>1 DEF Served
      <4>2. AtMostOne(ts1, s) /\ Among(ts1, s) = Among(ts, s)
        BY <1>3, <1>8, <1>9, <2>5, <4>1, AmongAppend
      <4>3. AtMostOne(tc1, s) /\ Among(tc1, s) = {}
        BY <1>14, AmongEmpty
      <4>4. PICK A, C, C1, x, x1, O : /\ A = Among(ts1, s) /\ C = Among(tc, s) /\ C1 = Among(tc1, s)
                                      /\ x = n[s] /\ x1 = n1[s] /\ O = OpsOf(o, s)
        OBVIOUS
      <4>5. Flow(u, s, A, C, x, O, ph, st) /\ C1 = {}
        BY <4>1, <4>2, <4>3, <4>4
      <4>6. Flow(u, s, A, C1, x1, O, ph1, st1)'
        BY <1>14, <4>5, OutFlow
      <4> QED BY <4>2, <4>3, <4>4, <4>6
    <3> QED BY <1>14, <3>2, <3>3 DEF Served
  <2>6. u \notin S => ts1 = <<>> /\ o = <<>>
    BY <1>3, <1>8
  <2> QED BY <1>10, <1>14, <2>1, <2>2, <2>3, <2>4, <2>5, <2>6 DEF UserFits
<1>17. Fits(u)'
  BY <1>15, <1>16, FitsAt
<1> QED BY <1>5, <1>12, <1>13, <1>17, OneMoves

LEMMA DisconnectedStep ==
  ASSUME TransferInv, NEW u \in Users, Disconnected(u)
  PROVE  TransferInv'
<1>1. toClient[u] # <<>> /\ Head(toClient[u]).type = "Closed"
  BY DEF Disconnected, Arrived
<1>2. PICK S, ts, tc, o, n, ph, st : Received(u, S, ts, tc, o, n, ph, st)
  BY <1>1, ClientTakes
<1>3. /\ toClient[u] = tc /\ toServer[u] = ts /\ serving = S /\ tc \in Seq(ClientPackets) /\ tc # <<>>
      /\ ph # "out" /\ UserFits(u, S, ts, tc, o, n, ph, st)
  BY <1>2 DEF Received, At
<1>4. Head(tc) = Closed /\ Head(tc) = tc[1] /\ 1 \in 1 .. Len(tc)
  <2>1. Head(tc) \in ClientPackets /\ Head(tc).type = "Closed"
    BY <1>1, <1>3, ChannelTail
  <2>2. Head(tc) = Closed
    BY <2>1, ClientPacketIs
  <2>3. Head(tc) = tc[1] /\ 1 \in 1 .. Len(tc)
    BY <1>3, ChannelTail
  <2> QED BY <2>2, <2>3
<1>5. u \notin S
  BY <1>3, <1>4 DEF UserFits, Served
<1>6. ts = <<>>
  BY <1>3, <1>5 DEF UserFits
<1>7. toServer' = [toServer EXCEPT ![u] = IF u \in serving THEN Append(@, Closed) ELSE <<>>]
  <2>1. toServer \in [Users -> Seq(ServerPackets)]
    BY DEF TransferInv, StateFits
  <2>2. toServer' = toServer
    BY DEF Disconnected
  <2> QED BY <1>3, <1>5, <1>6, <2>1, <2>2
<1>8. Out(u)
  BY DEF Disconnected
<1> QED BY <1>7, <1>8, OutStep

LEMMA QuitStep ==
  ASSUME TransferInv, NEW u \in Users, Quit(u)
  PROVE  TransferInv'
BY OutStep DEF Quit

\* Hangup: the server has heard of it.
LEMMA HangupStep ==
  ASSUME TransferInv, NEW u \in Users, Hangup(u)
  PROVE  TransferInv'
<1>1. toServer[u] # <<>> /\ OnlineUserDelete(u)
  BY DEF Hangup, Arrived
<1>2. u \in serving
  BY <1>1 DEF TransferInv, Fits, UserFits
<1> QED BY <1>1, <1>2, DeleteStep

-----------------------------------------------------------------------------
(* The theorems.                                                           *)

LEMMA TransferInvAtFirst == Init => TransferInv
<1> SUFFICES ASSUME Init PROVE TransferInv
  OBVIOUS
<1>1. Whole(DefaultIcon) \in Contents /\ Complete(Whole(DefaultIcon), DefaultIcon) /\ Whole(DefaultIcon) # Absent
  <2>1. Pages[DefaultIcon] \in Nat
    BY TransferAssumption
  <2>2. /\ Whole(DefaultIcon) \in Seq(Nat) /\ Len(Whole(DefaultIcon)) = Pages[DefaultIcon]
        /\ \A i \in 1 .. Len(Whole(DefaultIcon)) : Whole(DefaultIcon)[i] = i
    BY <2>1 DEF Whole
  <2> QED BY <2>1, <2>2, AbsentAssumption DEF Contents, Complete, Prefix
<1>2. FilesFit
  <2>1. /\ files = [k \in Keys |-> IF k = DefaultIcon THEN Whole(k) ELSE Absent]
        /\ icon = [u \in Users |-> DefaultIcon] /\ mail = [u \in Users |-> {}] /\ mishaps = {}
        /\ DefaultIcon \in Keys
    BY TransferAssumption DEF Init
  <2>2. files \in [Keys -> Contents \union {Absent}] /\ Stored(DefaultIcon)
    BY <1>1, <2>1 DEF Stored
  <2>3. ASSUME NEW k \in Keys, Stored(k) PROVE Complete(files[k], k)
    <3>1. k = DefaultIcon /\ files[k] = Whole(DefaultIcon)
      BY <2>1, <2>3 DEF Stored
    <3> QED BY <1>1, <3>1
  <2> QED BY <2>1, <2>2, <2>3 DEF FilesFit
<1>3. StateFits
  BY TransferAssumption DEF Init, StateFits
<1>4. ASSUME NEW u \in Users PROVE Fits(u)
  <2>1. PICK S, ts, tc, o, n, ph, st : At(u, S, ts, tc, o, n, ph, st)
    BY DEF At
  <2>2. /\ S = {} /\ ts = <<>> /\ tc = <<>> /\ o = <<>> /\ ph = "out" /\ st = 0
        /\ n = [s \in Sessions |-> Absent]
    BY <2>1 DEF At, Init
  <2>3. ClientFits(n, ph, st)
    BY <2>2 DEF ClientFits, NodeFits
  <2>4. OpsFit(o) /\ Promised(ts, o) /\ Delivered(tc, n, st)
    BY <2>2 DEF OpsFit, OpList, OneEach, Promised, Delivered
  <2>5. UserFits(u, S, ts, tc, o, n, ph, st)
    BY <2>2, <2>3, <2>4 DEF UserFits
  <2> QED BY <2>1, <2>5, FitsAt
<1> QED BY <1>2, <1>3, <1>4 DEF TransferInv

LEMMA TransferInvKept == TransferInv /\ [Next]_vars => TransferInv'
<1> SUFFICES ASSUME TransferInv, [Next]_vars PROVE TransferInv'
  OBVIOUS
<1>1. CASE UNCHANGED vars
  <2>1. FilesFit' /\ \A v : Grows(v)
    BY <1>1, FilesSame DEF TransferInv, vars, serverVars
  <2>2. StateFits'
    BY <1>1 DEF TransferInv, StateFits, vars, serverVars, clientVars
  <2>3. ASSUME NEW u \in Users PROVE Fits(u)'
    <3>1. PICK S, ts, tc, o, n, ph, st : At(u, S, ts, tc, o, n, ph, st)
      BY DEF At
    <3>2. UserFits(u, S, ts, tc, o, n, ph, st) /\ st \in Nat /\ Grows(u)
      BY <2>1, <3>1, FitsAt, TransferAssumption DEF TransferInv, StateFits, At
    <3>3. UserFits(u, S, ts, tc, o, n, ph, st)'
      BY <3>2, UserKept
    <3>4. At(u, S, ts, tc, o, n, ph, st)'
      BY <1>1, <3>1 DEF At, vars, serverVars, clientVars
    <3> QED BY <3>3, <3>4, FitsAt
  <2> QED BY <2>1, <2>2, <2>3 DEF TransferInv
<1>2. ASSUME NEW u \in Users, Serve(u) PROVE TransferInv'
  BY <1>2, InfoRequestStep, InfoDataStep, MessageNormalStep, FileStoreRequestStep, FileDataStep,
     FileDataEndStep, FileRequestStep, StatusOKStep, HangupStep DEF Serve
<1>3. ASSUME NEW u \in Users, Receive(u) PROVE TransferInv'
  BY <1>3, LoginInfoDataStep, FileDataStartedStep, FileDataReceivedStep, FileDataEndedStep,
     FailureReceivedStep, UnclaimedStep, UploadOKStep, UploadNotNeededStep, UploadFailedStep,
     DisconnectedStep DEF Receive
<1>4. ASSUME NEW u \in Users, Use(u) PROVE TransferInv'
  <2>1. ASSUME Kick(u) PROVE TransferInv'
    BY <2>1, DeleteStep DEF Kick
  <2> QED BY <1>4, <2>1, LoginStep, QuitStep, FileMessageRecvStep, NewHeadStep, UploadingFileStep,
             FindImageStep DEF Use
<1> QED BY <1>1, <1>2, <1>3, <1>4 DEF Next

\* FileTransfer, all of it: whoever may lose a packet or a page, the packets on their way
\* are those that the nodes and operations of both sides stand for.
THEOREM TransferInvHolds == Spec => []TransferInv
BY TransferInvAtFirst, TransferInvKept, PTL DEF Spec

\* The state is of its type; a user's operations are one for each session at most, and are
\* gone when its record is (UserOperationRemoveAll in OnlineUserDelete).
THEOREM TypeCorrect == Spec => []TypeOK
<1>1. TransferInv => TypeOK
  <2> SUFFICES ASSUME TransferInv PROVE TypeOK
    OBVIOUS
  <2>1. ASSUME NEW u \in Users
        PROVE  /\ \A i \in DOMAIN ops[u] : ops[u][i] \in Operations
               /\ \A i, j \in DOMAIN ops[u] : ops[u][i].session = ops[u][j].session => i = j
               /\ ops[u] # <<>> => u \in serving
               /\ \A s \in Sessions : nodes[u][s] \in Entries \union {Absent}
               /\ cached[u] \subseteq Keys
    <3>1. ops[u] \in Seq(Operations) /\ OneEach(ops[u]) /\ (u \notin serving => ops[u] = <<>>)
      BY DEF TransferInv, Fits, UserFits, OpsFit, OpList
    <3>2. nodes[u] \in [Sessions -> Entries \union {Absent}] /\ cached[u] \subseteq Keys
      BY DEF TransferInv, StateFits
    <3> QED BY <3>1, <3>2 DEF OneEach
  <2>2. \A k \in Keys : files[k] = Absent \/ files[k] \in Contents
    BY DEF TransferInv, FilesFit
  <2> QED BY <2>1, <2>2 DEF TransferInv, FilesFit, StateFits, TypeOK
<1> QED BY <1>1, TransferInvHolds, PTL

\* Whoever hears of a file can fetch it, and so can whoever sees an icon, unless the server
\* has failed to give the file its name (ProcessPacketFileDataEnd).
THEOREM AnnouncedIsStoredAlways == Spec => []AnnouncedIsStored
<1>1. TransferInv => AnnouncedIsStored
  BY DEF TransferInv, FilesFit, AnnouncedIsStored
<1> QED BY <1>1, TransferInvHolds, PTL

\* A file of which write has taken every page is the one that was sent.
LEMMA CompleteIsWhole ==
  ASSUME NEW k \in Keys, NEW d, Complete(d, k), <<"short", k>> \notin mishaps
  PROVE  d = Whole(k)
<1>1. /\ d \in Seq(Nat) /\ Len(d) = Pages[k] /\ Pages[k] \in Nat
      /\ \A i \in 1 .. Len(d) : d[i] = i
  BY TransferAssumption DEF Complete, Prefix, Contents
<1>2. d = [i \in 1 .. Pages[k] |-> d[i]]
  BY <1>1
<1> QED BY <1>1, <1>2 DEF Whole

\* Files are whole, where they are stored and where they have been fetched, however
\* transfers of them overlap.
THEOREM FilesAreWholeAlways == Spec => []FilesAreWhole
<1>1. TransferInv => FilesAreWhole
  <2> SUFFICES ASSUME TransferInv, NEW k \in Keys, <<"short", k>> \notin mishaps
               PROVE  /\ Stored(k) => files[k] = Whole(k)
                      /\ \A u \in Users :
                           Arrived(toClient[u], "FileDataEnd") =>
                             LET h == Head(toClient[u])
                                 node == Node(u, h)
                             IN  node # Absent /\ node.key = k /\ h.code = "ok" => node.data = Whole(k)
    BY DEF FilesAreWhole
  <2>1. Stored(k) => files[k] = Whole(k)
    BY CompleteIsWhole DEF TransferInv, FilesFit
  <2>2. ASSUME NEW u \in Users, Arrived(toClient[u], "FileDataEnd"),
               NEW h, h = Head(toClient[u]), NEW node, node = Node(u, h),
               node # Absent, node.key = k, h.code = "ok"
        PROVE  node.data = Whole(k)
    <3>1. PICK tc, n : tc = toClient[u] /\ n = nodes[u]
      OBVIOUS
    <3>2. /\ tc \in Seq(ClientPackets) /\ tc # <<>> /\ Head(tc) = h /\ h.type = "FileDataEnd"
          /\ Delivered(tc, n, started[u])
      BY <2>2, <3>1 DEF TransferInv, Fits, UserFits, Arrived
    <3>3. tc[1] = h /\ 1 \in 1 .. Len(tc)
      BY <3>2, ChannelTail
    <3>4. node = n[h.session]
      BY <2>2, <3>1 DEF Node
    <3>5. Complete(node.data, node.key)
      BY <2>2, <3>2, <3>3, <3>4 DEF Delivered
    <3> QED BY <2>2, <3>5, CompleteIsWhole
  <2> QED BY <2>1, <2>2
<1> QED BY <1>1, TransferInvHolds, PTL

\* What InFlight counts.
LEMMA CountOf ==
  ASSUME NEW P, NEW c \in Seq(P), NEW s, AtMostOne(c, s), NEW I, I = {i \in DOMAIN c : Of(c[i], s)}
  PROVE  /\ Among(c, s) = {} => Cardinality(I) = 0
         /\ Among(c, s) # {} => Cardinality(I) = 1
<1>1. DOMAIN c = 1 .. Len(c)
  OBVIOUS
<1>2. CASE Among(c, s) = {}
  <2>1. \A i \in 1 .. Len(c) : ~Of(c[i], s)
    BY <1>2 DEF Among
  <2>2. I = {}
    BY <1>1, <2>1
  <2> QED BY <1>2, <2>2, FS_EmptySet
<1>3. CASE Among(c, s) # {}
  <2>1. PICK i \in 1 .. Len(c) : Of(c[i], s)
    BY <1>3 DEF Among
  <2>2. \A j \in 1 .. Len(c) : Of(c[j], s) => j = i
    BY <2>1 DEF AtMostOne
  <2>3. I = {i}
    BY <1>1, <2>1, <2>2
  <2> QED BY <1>3, <2>3, FS_Singleton
<1> QED BY <1>2, <1>3

\* A transfer waits for a packet that is on its way, and for one only; so does a login for
\* each of the icons.  Only an icon that the server has refused is waited for in vain.
THEOREM TransfersGoOnAlways == Spec => []TransfersGoOn
<1>1. TransferInv => TransfersGoOn
  <2> SUFFICES ASSUME TransferInv, NEW u \in serving, phase[u] # "out", NEW s \in Sessions
               PROVE  /\ InFlight(u, s) <= 1
                      /\ Waits(u, s) /\ <<"refused", u>> \notin mishaps => InFlight(u, s) = 1
    BY DEF TransfersGoOn
  <2>1. u \in Users
    BY DEF TransferInv, StateFits
  <2>2. PICK S, ts, tc, o, n, ph, st : At(u, S, ts, tc, o, n, ph, st)
    BY DEF At
  <2>3. /\ toServer[u] = ts /\ toClient[u] = tc /\ nodes[u] = n /\ phase[u] = ph /\ u \in S
        /\ UserFits(u, S, ts, tc, o, n, ph, st)
    BY <2>1, <2>2, FitsAt DEF TransferInv, At
  <2>4. ts \in Seq(ServerPackets) /\ tc \in Seq(ClientPackets) /\ Served(u, ts, tc, o, n, ph, st)
    BY <2>3 DEF UserFits
  <2>5. PICK A, C, x, O : A = Among(ts, s) /\ C = Among(tc, s) /\ x = n[s] /\ O = OpsOf(o, s)
    OBVIOUS
  <2>6. AtMostOne(ts, s) /\ AtMostOne(tc, s) /\ Flow(u, s, A, C, x, O, ph, st)
    BY <2>4, <2>5 DEF Served
  <2>7. PICK I, J : I = {i \in DOMAIN ts : Of(ts[i], s)} /\ J = {i \in DOMAIN tc : Of(tc[i], s)}
    OBVIOUS
  <2>8. InFlight(u, s) = Cardinality(I) + Cardinality(J)
    BY <2>3, <2>7 DEF InFlight, Of
  <2>9. /\ A = {} => Cardinality(I) = 0
        /\ A # {} => Cardinality(I) = 1
        /\ C = {} => Cardinality(J) = 0
        /\ C # {} => Cardinality(J) = 1
    BY <2>4, <2>5, <2>6, <2>7, CountOf
  <2>10. \/ A = {} /\ C = {} /\ AtRest(u, s, x, O, ph, st)
         \/ A = {} /\ C # {}
         \/ A # {} /\ C = {}
    BY <2>3, <2>6 DEF Flow
  <2>11. ASSUME AtRest(u, s, x, O, ph, st), Waits(u, s) PROVE <<"refused", u>> \in mishaps
    <3>1. /\ x = Absent => ph = "login" /\ s \in Range(Roster[u])
          /\ x # Absent => x.kind # "loaded"
      BY <2>3, <2>5, <2>11 DEF Waits
    <3>2. s \in Range(Roster[u]) => s \in Users
      <4>1. Roster[u] \in Seq(Users)
        BY <2>1, TransferAssumption
      <4> QED BY <4>1 DEF Range
    <3> QED BY <2>11, <3>1, <3>2 DEF AtRest
  <2> QED BY <2>8, <2>9, <2>10, <2>11
<1> QED BY <1>1, TransferInvHolds, PTL
=============================================================================
