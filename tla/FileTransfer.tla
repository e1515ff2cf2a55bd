---------------------------- MODULE FileTransfer ----------------------------
(***************************************************************************)
(* Files and icons.  A client stores a file under the MD5 of its contents  *)
(* (packets/file/StoreRequest.c, Data.c, DataEnd.c) and tells a friend     *)
(* about it, or makes it its icon; other clients fetch it by that key      *)
(* (packets/file/Request.c), page by page, and a client fetches the icons  *)
(* of all its friends before it shows its main window (ClientSockfd.c).    *)
(*                                                                         *)
(* The server has one worker, as configured: a packet is processed before  *)
(* the next one is received.  A transfer is an operation (run/operation.c) *)
(* in the server and a node of the receiving thread's table in the client  *)
(* (MessageLoop.c).  Contents are sequences of page numbers; 0 is a page   *)
(* that write has taken only a part of.                                    *)
(*                                                                         *)
(* mishaps is a history variable.  Local files do not lose or gain a page  *)
(* unless Rough, and what is opened on the server is read whole.  Left     *)
(* out: the client's progress bar, whose timer frees what an upload points *)
(* to once it sees it ended (chartmessage.c:238-243); when the server has  *)
(* the file already, the receiving thread marks the end before it reads    *)
(* that for the message (chartmessage.c:306-312), and UploadNotNeeded is   *)
(* the run in which the timer does not come in between.                    *)
(***************************************************************************)
EXTENDS Integers, Sequences, FiniteSets, SequencesExt, Line

CONSTANTS Users,        \* accounts
          Roster,       \* the friends of each account in the order of its list, itself included
          Keys,         \* contents of files
          Chosen,       \* those that users send and make their icons
          DefaultIcon,  \* the icon of a new account, put in place by InitializeDataDirectory
          Pages,        \* the number of pages of each file
          MaxSessions,  \* bound: transfers a client starts in one session
          MaxLogins,    \* bound: logins
          MaxMishaps,   \* bound: mishaps that the server brings about
          Rough,        \* can the server run out of space, memory or descriptors, and
                        \* can local files be edited while they are sent?
          Absent        \* no such file, operation or node

ASSUME TransferAssumption ==
  /\ Roster \in [Users -> Seq(Users)]
  /\ \A u \in Users : IsInjective(Roster[u])   \* Friendship's OneGroup
  /\ DefaultIcon \in Keys /\ Chosen \subseteq Keys
  /\ Pages \in [Keys -> Nat]
  /\ MaxSessions \in Nat /\ MaxLogins \in Nat /\ MaxMishaps \in Nat
  /\ Rough \in BOOLEAN
  /\ Users \intersect 1 .. MaxSessions = {}

VARIABLES serving,   \* accounts with a record in the server
          ops,       \* the list of operations of each record
          files,     \* the server's files/: the contents under each key
          icon,      \* the icon in each account's info file
          mail,      \* keys each account has had file messages about
          toServer,  \* packets on their way, per client
          toClient,
          phase,     \* each client: "out", "login" until it has all icons, "main"
          nodes,     \* each client's table, by session
          logins,    \* number of logins, for the bound
          started,   \* sessions given out by CountSessionId
          cached,    \* the icons each client has a file of
          mishaps    \* what has gone wrong, and with which key or for which user

serverVars == <<serving, ops, files, icon, mail>>
clientVars == <<phase, nodes, started, cached, logins>>
vars == <<serverVars, clientVars, toServer, toClient, mishaps>>

Sessions == Users \union 1 .. MaxSessions

Whole(k) == [i \in 1 .. Pages[k] |-> i]

Note(S) == mishaps' = mishaps \union S

\* The server can run short of something once more.
Trouble == Rough /\ Cardinality(mishaps) < MaxMishaps

-----------------------------------------------------------------------------

(* Packets. *)

InfoRequest(f) == [type |-> "InfoRequest", session |-> f]
InfoReply(f, k) == [type |-> "InfoData", session |-> f, key |-> k]
NewIcon(k) == [type |-> "InfoData", key |-> k]
FileMessage(v, k) == [type |-> "MessageNormal", to |-> v, key |-> k]
FileStoreRequest(s, k) == [type |-> "FileStoreRequest", session |-> s, key |-> k, length |-> Pages[k]]
FileRequest(s, k) == [type |-> "FileRequest", session |-> s, key |-> k]
FileDataStart(s) == [type |-> "FileDataStart", session |-> s]
FileData(s, seq, page) == [type |-> "FileData", session |-> s, seq |-> seq, page |-> page]
FileDataEnd(s, code) == [type |-> "FileDataEnd", session |-> s, code |-> code]
OK(s) == [type |-> "OK", session |-> s]
FileReset(s) == [type |-> "FileReset", session |-> s]
Failure(s) == [type |-> "Failure", session |-> s]

\* The end of a connection, and of all that was sent over it.
Closed == [type |-> "Closed"]

\* The first packet in a channel is of this type.
Arrived(channel, type) == channel # <<>> /\ Head(channel).type = type

\* The server has processed the first packet of u, and sends these.
Answer(u, packets) ==
  /\ toServer' = [toServer EXCEPT ![u] = Tail(@)]
  /\ toClient' = [toClient EXCEPT ![u] = IF phase[u] = "out" THEN <<>> ELSE @ \o packets]

\* The client has received the first packet, and sends these.
Reply(u, packets) ==
  /\ toClient' = [toClient EXCEPT ![u] = Tail(@)]
  /\ toServer' = [toServer EXCEPT ![u] = IF u \in serving THEN @ \o packets ELSE <<>>]

\* The client sends these of its own accord.
Send(u, packets) ==
  /\ toServer' = [toServer EXCEPT ![u] = IF u \in serving THEN @ \o packets ELSE <<>>]
  /\ UNCHANGED toClient

-----------------------------------------------------------------------------

Init ==
  /\ serving = {}
  /\ ops = [u \in Users |-> <<>>]
  /\ files = [k \in Keys |-> IF k = DefaultIcon THEN Whole(k) ELSE Absent]
  /\ icon = [u \in Users |-> DefaultIcon]
  /\ mail = [u \in Users |-> {}]
  /\ toServer = [u \in Users |-> <<>>]
  /\ toClient = [u \in Users |-> <<>>]
  /\ phase = [u \in Users |-> "out"]
  /\ nodes = [u \in Users |-> [s \in Sessions |-> Absent]]
  /\ logins = 0
  /\ started = [u \in Users |-> 0]
  /\ cached = [u \in Users |-> {}]
  /\ mishaps = {}

(* Operations of the server.  left is the number of pages still to come or to go. *)

StoreOperation(h) ==
  [type |-> "store", session |-> h.session, key |-> h.key, left |-> h.length, data |-> <<>>]
RequestOperation(h) ==
  [type |-> "request", session |-> h.session, key |-> h.key, left |-> Len(files[h.key]),
   data |-> files[h.key]]

\* UserOperationGet: the place of the first operation of session s, 0 if there is none.
UserOperationGet(u, s) == SelectInSeq(ops[u], LAMBDA op : op.session = s)

UserOperationRegister(u, op) == ops' = [ops EXCEPT ![u] = Append(@, op)]
UserOperationUnregister(u, i) == ops' = [ops EXCEPT ![u] = RemoveAt(@, i)]

-----------------------------------------------------------------------------

(* The server's packet handlers. *)

\* An info file that cannot be opened is no information.
ProcessPacketInfoRequest(u) ==
  /\ Arrived(toServer[u], "InfoRequest")
  /\ LET f == Head(toServer[u]).session IN
       \/ Answer(u, <<InfoReply(f, icon[f])>>) /\ UNCHANGED mishaps
       \/ Trouble /\ Answer(u, <<Failure(f)>>) /\ Note({<<"refused", u>>})
  /\ UNCHANGED <<serverVars, clientVars>>

\* Friends are told, who then ask for the icon (FindImage); or the file could not be
\* opened.  The answer to u itself, OK or FAILURE, concerns a dialog only.
ProcessPacketInfoData(u) ==
  /\ Arrived(toServer[u], "InfoData")
  /\ \/ icon' = [icon EXCEPT ![u] = Head(toServer[u]).key]
     \/ Rough /\ UNCHANGED icon
  /\ Answer(u, <<>>)
  /\ UNCHANGED <<serving, ops, files, mail, clientVars, mishaps>>

\* How a message gets to v is in MessageDelivery.
ProcessPacketMessageNormal(u) ==
  /\ Arrived(toServer[u], "MessageNormal")
  /\ LET h == Head(toServer[u]) IN mail' = [mail EXCEPT ![h.to] = @ \union {h.key}]
  /\ Answer(u, <<>>)
  /\ UNCHANGED <<serving, ops, files, icon, clientVars, mishaps>>

\* Mutant: somebody else's upload of the same file will do.
StoreRequestTrusting(u) ==
  /\ Arrived(toServer[u], "FileStoreRequest")
  /\ LET h == Head(toServer[u])
         Coming == \E v \in Users : \E i \in DOMAIN ops[v] : ops[v][i].key = h.key
     IN  \/ /\ files[h.key] # Absent \/ Coming
            /\ Answer(u, <<FileDataEnd(h.session, "exists")>>)
            /\ UNCHANGED ops
         \/ /\ files[h.key] = Absent /\ ~Coming
            /\ UserOperationRegister(u, StoreOperation(h))
            /\ Answer(u, <<OK(h.session)>>)
  /\ UNCHANGED <<serving, files, icon, mail, clientVars, mishaps>>

ProcessPacketFileStoreRequest(u) ==
  /\ Arrived(toServer[u], "FileStoreRequest")
  /\ LET h == Head(toServer[u]) IN
       \/ /\ files[h.key] # Absent
          /\ Answer(u, <<FileDataEnd(h.session, "exists")>>)
          /\ UNCHANGED ops
       \/ /\ files[h.key] = Absent
          /\ UserOperationRegister(u, StoreOperation(h))
          /\ Answer(u, <<OK(h.session)>>)
       \/ /\ files[h.key] = Absent /\ Rough
          /\ Answer(u, <<Failure(h.session)>>)
          /\ UNCHANGED ops
  /\ UNCHANGED <<serving, files, icon, mail, clientVars, mishaps>>

\* The length counts what has been received, not what write has taken.  A packet out of
\* turn is answered by a reset, which this client ignores.
ProcessPacketFileData(u) ==
  /\ Arrived(toServer[u], "FileData")
  /\ LET h == Head(toServer[u])
         i == UserOperationGet(u, h.session)
         op == ops[u][i]
         Refused(answer) == Answer(u, <<answer>>) /\ UNCHANGED <<ops, mishaps>>
     IN  IF i = 0 THEN Refused(Failure(h.session))
         ELSE IF h.seq # Len(op.data) THEN Refused(FileReset(h.session))
         ELSE IF op.left = 0 THEN Refused(Failure(h.session))
         ELSE \E page \in {h.page} \union (IF Trouble THEN {0} ELSE {}) :
                /\ ops' = [ops EXCEPT ![u][i].data = Append(@, page), ![u][i].left = @ - 1]
                /\ Note(IF page = 0 THEN {<<"short", op.key>>} ELSE {})
                /\ Answer(u, <<OK(h.session)>>)
  /\ UNCHANGED <<serving, files, icon, mail, clientVars>>

\* The file gets its name if all of it has come.  The operation is over in any case.
ProcessPacketFileDataEnd(u) ==
  /\ Arrived(toServer[u], "FileDataEnd")
  /\ LET h == Head(toServer[u])
         i == UserOperationGet(u, h.session)
         op == ops[u][i]
     IN  IF i = 0 THEN Answer(u, <<Failure(h.session)>>) /\ UNCHANGED <<ops, files, mishaps>>
         ELSE /\ UserOperationUnregister(u, i)
              /\ \/ /\ op.left = 0
                    /\ files' = [files EXCEPT ![op.key] = op.data]
                    /\ Answer(u, <<OK(h.session)>>)
                    /\ UNCHANGED mishaps
                 \/ /\ op.left # 0 \/ Trouble
                    /\ Answer(u, <<Failure(h.session)>>)
                    /\ Note({<<"failed", op.key>>})
                    /\ UNCHANGED files
  /\ UNCHANGED <<serving, icon, mail, clientVars>>

\* The file is opened here: what is sent is what is in it now.
ProcessPacketFileRequest(u) ==
  /\ Arrived(toServer[u], "FileRequest")
  /\ LET h == Head(toServer[u]) IN
       \/ /\ files[h.key] # Absent
          /\ UserOperationRegister(u, RequestOperation(h))
          /\ Answer(u, <<FileDataStart(h.session)>>)
          /\ UNCHANGED mishaps
       \/ /\ files[h.key] = Absent
          /\ Answer(u, <<Failure(h.session)>>)
          /\ UNCHANGED <<ops, mishaps>>
       \/ /\ files[h.key] # Absent /\ Trouble
          /\ Answer(u, <<Failure(h.session)>>)
          /\ Note({<<"refused", u>>})
          /\ UNCHANGED ops
  /\ UNCHANGED <<serving, files, icon, mail, clientVars>>

\* Mutant: the last page is not waited for.
RequestContinueShort(u, i) ==
  LET op == ops[u][i] IN
    IF op.left > 1
      THEN /\ Answer(u, <<FileData(op.session, Len(op.data) - op.left, op.data[Len(op.data) - op.left + 1])>>)
           /\ ops' = [ops EXCEPT ![u][i].left = @ - 1]
      ELSE /\ Answer(u, <<FileDataEnd(op.session, "ok")>>)
           /\ UserOperationUnregister(u, i)

\* The next page, or the end of the file.
RequestContinue(u, i) ==
  LET op == ops[u][i]
      sent == Len(op.data) - op.left
  IN  IF op.left > 0
        THEN /\ Answer(u, <<FileData(op.session, sent, op.data[sent + 1])>>)
             /\ ops' = [ops EXCEPT ![u][i].left = @ - 1]
        ELSE /\ Answer(u, <<FileDataEnd(op.session, "ok")>>)
             /\ UserOperationUnregister(u, i)

\* An OK without an operation is ignored; one for a store is never sent.
ProcessPacketStatusOK(u) ==
  /\ Arrived(toServer[u], "OK")
  /\ LET i == UserOperationGet(u, Head(toServer[u]).session) IN
       IF i = 0 THEN Answer(u, <<>>) /\ UNCHANGED ops ELSE RequestContinue(u, i)
  /\ UNCHANGED <<serving, files, icon, mail, clientVars, mishaps>>

\* What UserOperationRemoveAll sends: onRequestCancel of every download.
Cancellations(u) ==
  LET Cancel(op) == IF op.type = "request" THEN FileDataEnd(op.session, "canceled") ELSE Absent
  IN  Without([i \in DOMAIN ops[u] |-> Cancel(ops[u][i])], Absent)

\* Mutant: the operations are left alone.
DeleteLeavingOperations(u) ==
  /\ serving' = serving \ {u}
  /\ toServer' = [toServer EXCEPT ![u] = <<>>]
  /\ toClient' = [toClient EXCEPT ![u] = IF phase[u] = "out" THEN <<>> ELSE Append(@, Closed)]
  /\ UNCHANGED <<ops, files, icon, mail, clientVars, mishaps>>

\* OnlineUserDelete: all operations are cancelled, and the connection is closed.
OnlineUserDelete(u) ==
  /\ serving' = serving \ {u}
  /\ ops' = [ops EXCEPT ![u] = <<>>]
  /\ toServer' = [toServer EXCEPT ![u] = <<>>]
  /\ toClient' = [toClient EXCEPT ![u] =
                    IF phase[u] = "out" THEN <<>> ELSE Append(@ \o Cancellations(u), Closed)]
  /\ UNCHANGED <<files, icon, mail, clientVars, mishaps>>

\* The client has closed the connection, and all before that has been processed.
Hangup(u) == Arrived(toServer[u], "Closed") /\ OnlineUserDelete(u)

\* A kick from the console, or by another login of the account.
Kick(u) == u \in serving /\ OnlineUserDelete(u)

-----------------------------------------------------------------------------

(* The client. *)

\* A login has been accepted.  The client gets its list of friends and asks for the
\* information on all of them.
Login(u) ==
  /\ phase[u] = "out" /\ u \notin serving /\ logins < MaxLogins
  /\ logins' = logins + 1
  /\ phase' = [phase EXCEPT ![u] = "login"]
  /\ serving' = serving \union {u}
  /\ toServer' = [toServer EXCEPT ![u] = [i \in DOMAIN Roster[u] |-> InfoRequest(Roster[u][i])]]
  /\ mishaps' = mishaps \ {<<"refused", u>>}
  /\ UNCHANGED <<ops, files, icon, mail, nodes, started, cached, toClient>>

\* Entries of the client's table.
Download(kind, k) == [kind |-> kind, key |-> k, data |-> <<>>]
Upload(kind, k, v, n) == [kind |-> kind, key |-> k, to |-> v, size |-> n, seq |-> 0, open |-> TRUE]
Downloads == {"login", "image", "save"}

Node(u, h) == nodes[u][h.session]
SetNode(u, s, node) == nodes' = [nodes EXCEPT ![u][s] = node]

\* Login: the information on f has come; its icon is fetched in a session named f.
LoginInfoData(u) ==
  /\ phase[u] = "login" /\ Arrived(toClient[u], "InfoData")
  /\ LET h == Head(toClient[u]) IN
       /\ SetNode(u, h.session, Download("login", h.key))
       /\ Reply(u, <<FileRequest(h.session, h.key)>>)
  /\ UNCHANGED <<serverVars, phase, started, cached, logins, mishaps>>

\* A download of any kind begins: an icon at login or later, or a file the user saves.
\* Only icons go to files that FindImage looks for.
FileDataStarted(u) ==
  /\ Arrived(toClient[u], "FileDataStart")
  /\ LET h == Head(toClient[u])
         node == Node(u, h)
     IN  /\ node # Absent /\ node.kind \in Downloads
         /\ cached' = [cached EXCEPT ![u] = IF node.kind = "save" THEN @ ELSE @ \union {node.key}]
         /\ Reply(u, <<OK(h.session)>>)
  /\ UNCHANGED <<serverVars, phase, nodes, started, logins, mishaps>>

FileDataReceived(u) ==
  /\ Arrived(toClient[u], "FileData")
  /\ LET h == Head(toClient[u])
         node == Node(u, h)
     IN  /\ node # Absent /\ node.kind \in Downloads
         /\ SetNode(u, h.session, [node EXCEPT !.data = Append(@, h.page)])
         /\ Reply(u, <<OK(h.session)>>)
  /\ UNCHANGED <<serverVars, phase, started, cached, logins, mishaps>>

\* The download is taken for complete, whatever the code.  Login is over when all the
\* icons asked for so far are there.
FileDataEnded(u) ==
  /\ Arrived(toClient[u], "FileDataEnd")
  /\ LET h == Head(toClient[u])
         node == Node(u, h)
         Loaded == \A s \in Sessions \ {h.session} :
                      nodes[u][s] # Absent => nodes[u][s].kind = "loaded"
     IN  /\ node # Absent /\ node.kind \in Downloads
         /\ IF node.kind = "login"
              THEN IF Loaded
                     THEN /\ phase' = [phase EXCEPT ![u] = "main"]
                          /\ nodes' = [nodes EXCEPT ![u] = [s \in Sessions |-> Absent]]
                     ELSE /\ SetNode(u, h.session, [node EXCEPT !.kind = "loaded"])
                          /\ UNCHANGED phase
              ELSE SetNode(u, h.session, Absent) /\ UNCHANGED phase
  /\ Reply(u, <<>>)
  /\ UNCHANGED <<serverVars, started, cached, logins, mishaps>>

\* A failure ends the saving of a file.  An icon's node stays, and so does the login.
FailureReceived(u) ==
  /\ Arrived(toClient[u], "Failure")
  /\ LET h == Head(toClient[u]) IN
       /\ Node(u, h) # Absent /\ Node(u, h).kind \in Downloads
       /\ IF Node(u, h).kind = "save" THEN SetNode(u, h.session, Absent) ELSE UNCHANGED nodes
  /\ Reply(u, <<>>)
  /\ UNCHANGED <<serverVars, phase, started, cached, logins, mishaps>>

\* A packet whose session is not in the table.
Unclaimed(u) ==
  /\ toClient[u] # <<>> /\ Head(toClient[u]).type # "Closed"
  /\ "session" \in DOMAIN Head(toClient[u]) /\ Head(toClient[u]).type # "InfoData"
  /\ Node(u, Head(toClient[u])) = Absent
  /\ Reply(u, <<>>)
  /\ UNCHANGED <<serverVars, clientVars, mishaps>>

CountSessionId(u) == started[u] + 1

\* A new session, and the node and the packet that start its transfer.
Start(u, node, packet) ==
  /\ phase[u] = "main" /\ started[u] < MaxSessions
  /\ started' = [started EXCEPT ![u] = CountSessionId(u)]
  /\ SetNode(u, CountSessionId(u), node)
  /\ Send(u, <<packet>>)

\* The user saves a file it has had a message about.
file_message_recv(u, k) ==
  /\ k \in mail[u]
  /\ Start(u, Download("save", k), FileRequest(CountSessionId(u), k))
  /\ UNCHANGED <<serverVars, phase, cached, logins, mishaps>>

\* FindImage: the icon of a friend is fetched unless there is a file of it.
FindImage(u, f) ==
  /\ f \in Range(Roster[u]) /\ icon[f] \notin cached[u]
  /\ Start(u, Download("image", icon[f]), FileRequest(CountSessionId(u), icon[f]))
  /\ UNCHANGED <<serverVars, phase, cached, logins, mishaps>>

\* What fread delivers of file k, in pages.
Lengths(k) == {Pages[k]} \union (IF Rough THEN {Pages[k] + 1} \union (0 .. Pages[k]) ELSE {})

\* The user sends file k to v.
UploadingFile(u, k, v) ==
  /\ \E n \in Lengths(k) :
       Start(u, Upload("file", k, v, n), FileStoreRequest(CountSessionId(u), k))
  /\ UNCHANGED <<serverVars, phase, cached, logins, mishaps>>

\* The user chooses picture k for its icon.  It is copied to the client's icons.
new_head(u, k) ==
  /\ Start(u, Upload("photo", k, u, Pages[k]), FileStoreRequest(CountSessionId(u), k))
  /\ cached' = [cached EXCEPT ![u] = @ \union {k}]
  /\ UNCHANGED <<serverVars, phase, logins, mishaps>>

\* The next page of a file, when the server has asked for it.
NextPage(node, s) == FileData(s, node.seq, node.seq + 1)

\* Mutant: the icon is set without waiting for the server to have it.
PhotoEndedAtOnce(u, h, node) ==
  /\ Reply(u, <<FileDataEnd(h.session, "ok"), NewIcon(node.key)>>)
  /\ SetNode(u, h.session, Absent)

\* dealwith_photo, at the end of the picture.
PhotoEnded(u, h, node) ==
  /\ Reply(u, <<FileDataEnd(h.session, "ok")>>)
  /\ SetNode(u, h.session, [node EXCEPT !.open = FALSE])

\* deal_with_file, at the end of the file: the friend is told, and whether the server
\* has stored the file is not looked at.
FileEnded(u, h, node) ==
  /\ Reply(u, <<FileDataEnd(h.session, "ok"), FileMessage(node.to, node.key)>>)
  /\ SetNode(u, h.session, Absent)

\* An OK: the next page, or the end.  After a photo's end the icon is set; its node
\* stays in the table without its data, and nothing more comes for it.
UploadOK(u) ==
  /\ Arrived(toClient[u], "OK")
  /\ LET h == Head(toClient[u])
         node == Node(u, h)
     IN  /\ node # Absent /\ node.kind \in {"file", "photo"}
         /\ \/ /\ node.open /\ node.seq < node.size
               /\ Reply(u, <<NextPage(node, h.session)>>)
               /\ SetNode(u, h.session, [node EXCEPT !.seq = @ + 1])
            \/ /\ node.open /\ node.seq = node.size
               /\ IF node.kind = "file" THEN FileEnded(u, h, node) ELSE PhotoEnded(u, h, node)
            \/ /\ ~node.open
               /\ Reply(u, <<NewIcon(node.key)>>)
               /\ SetNode(u, h.session, Absent)
  /\ UNCHANGED <<serverVars, phase, started, cached, logins, mishaps>>

\* The server has the file already.
UploadNotNeeded(u) ==
  /\ Arrived(toClient[u], "FileDataEnd")
  /\ LET h == Head(toClient[u])
         node == Node(u, h)
     IN  /\ node # Absent /\ node.kind \in {"file", "photo"}
         /\ Reply(u, <<IF node.kind = "file" THEN FileMessage(node.to, node.key)
                                             ELSE NewIcon(node.key)>>)
         /\ SetNode(u, h.session, Absent)
  /\ UNCHANGED <<serverVars, phase, started, cached, logins, mishaps>>

\* The upload is given up.
UploadFailed(u) ==
  /\ Arrived(toClient[u], "Failure")
  /\ LET h == Head(toClient[u])
         node == Node(u, h)
     IN  /\ node # Absent /\ node.kind \in {"file", "photo"} /\ node.open
         /\ SetNode(u, h.session, Absent)
  /\ Reply(u, <<>>)
  /\ UNCHANGED <<serverVars, phase, started, cached, logins, mishaps>>

\* Nothing is left of the client's session.
Out(u) ==
  /\ phase' = [phase EXCEPT ![u] = "out"]
  /\ nodes' = [nodes EXCEPT ![u] = [s \in Sessions |-> Absent]]
  /\ started' = [started EXCEPT ![u] = 0]
  /\ toClient' = [toClient EXCEPT ![u] = <<>>]
  /\ UNCHANGED <<serverVars, cached, logins, mishaps>>

\* The server has closed the connection.
Disconnected(u) ==
  /\ Arrived(toClient[u], "Closed")
  /\ Out(u)
  /\ UNCHANGED toServer

\* The user quits.  So does the client when the end of a photo fails: fclose(NULL).
Quit(u) ==
  /\ phase[u] # "out"
  /\ Out(u)
  /\ toServer' = [toServer EXCEPT ![u] = IF u \in serving THEN Append(@, Closed) ELSE <<>>]

-----------------------------------------------------------------------------

\* The worker has the first packet of u.
Serve(u) ==
  \/ ProcessPacketInfoRequest(u) \/ ProcessPacketInfoData(u) \/ ProcessPacketMessageNormal(u)
  \/ ProcessPacketFileStoreRequest(u) \/ ProcessPacketFileData(u) \/ ProcessPacketFileDataEnd(u)
  \/ ProcessPacketFileRequest(u) \/ ProcessPacketStatusOK(u) \/ Hangup(u)

\* The client has received a packet.
Receive(u) ==
  \/ LoginInfoData(u) \/ FileDataStarted(u) \/ FileDataReceived(u) \/ FileDataEnded(u)
  \/ FailureReceived(u) \/ Unclaimed(u)
  \/ UploadOK(u) \/ UploadNotNeeded(u) \/ UploadFailed(u) \/ Disconnected(u)

\* What users and the console decide.
Use(u) ==
  \/ Login(u) \/ Quit(u) \/ Kick(u)
  \/ \E k \in Chosen :
       \/ file_message_recv(u, k) \/ new_head(u, k)
       \/ \E v \in Users : UploadingFile(u, k, v)
  \/ \E f \in Users : FindImage(u, f)

Next == \E u \in Users : Serve(u) \/ Receive(u) \/ Use(u)

Spec == Init /\ [][Next]_vars

-----------------------------------------------------------------------------

Stored(k) == files[k] # Absent
Contents == Seq(Nat)

Operations ==
  [type : {"store", "request"}, session : Sessions, key : Keys, left : Nat, data : Contents]
Entries ==
  [kind : Downloads \union {"loaded"}, key : Keys, data : Contents]
    \union [kind : {"file", "photo"}, key : Keys, to : Users, size : Nat, seq : Nat, open : BOOLEAN]

ASSUME AbsentAssumption == Absent \notin Contents \union Entries

\* Types; a session's operations are those of a user that is being served, at most one
\* for each session.
TypeOK ==
  /\ serving \subseteq Users
  /\ \A u \in Users :
       /\ \A i \in DOMAIN ops[u] : ops[u][i] \in Operations
       /\ \A i, j \in DOMAIN ops[u] : ops[u][i].session = ops[u][j].session => i = j
       /\ ops[u] # <<>> => u \in serving
       /\ \A s \in Sessions : nodes[u][s] \in Entries \union {Absent}
       /\ cached[u] \subseteq Keys
  /\ \A k \in Keys : files[k] = Absent \/ files[k] \in Contents
  /\ icon \in [Users -> Keys]
  /\ mail \in [Users -> SUBSET Keys]
  /\ phase \in [Users -> {"out", "login", "main"}]
  /\ logins \in 0 .. MaxLogins
  /\ started \in [Users -> 0 .. MaxSessions]
  /\ mishaps \subseteq {"short", "failed"} \X Keys \union {"refused"} \X Users

\* Nobody is told about a file that the server does not have, unless it has refused the
\* end of an upload of it; and every icon that users have is there, even then.
AnnouncedIsStored ==
  \A u \in Users :
    /\ \A k \in mail[u] : Stored(k) \/ <<"failed", k>> \in mishaps
    /\ Stored(icon[u])

\* Files on the server are whole, and so is what a client has received when the server
\* says that a download is complete, however many clients send and fetch a file at the
\* same time, unless write has taken a part of a page only.
FilesAreWhole ==
  \A k \in Keys : <<"short", k>> \notin mishaps =>
    /\ Stored(k) => files[k] = Whole(k)
    /\ \A u \in Users :
         Arrived(toClient[u], "FileDataEnd") =>
           LET h == Head(toClient[u])
               node == Node(u, h)
           IN  node # Absent /\ node.key = k /\ h.code = "ok" => node.data = Whole(k)

\* Packets of session s of u on their way.
InFlight(u, s) ==
  LET Of(channel) == {i \in DOMAIN channel : "session" \in DOMAIN channel[i] /\ channel[i].session = s}
  IN  Cardinality(Of(toServer[u])) + Cardinality(Of(toClient[u]))

\* A transfer is waiting for a packet.
Waits(u, s) ==
  IF nodes[u][s] = Absent THEN phase[u] = "login" /\ s \in Range(Roster[u])
                          ELSE nodes[u][s].kind # "loaded"

\* No transfer, and no login, waits for a packet that nobody is going to send: of each
\* there is always one on its way, and never two.  Only a friend's icon or information
\* that the server could not open, for want of memory or descriptors, never comes.
TransfersGoOn ==
  \A u \in serving : phase[u] # "out" =>
    \A s \in Sessions :
      /\ InFlight(u, s) <= 1
      /\ Waits(u, s) /\ <<"refused", u>> \notin mishaps => InFlight(u, s) = 1
=============================================================================
