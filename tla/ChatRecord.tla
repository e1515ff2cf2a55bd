----------------------------- MODULE ChatRecord -----------------------------
(***************************************************************************)
(* The window with the record of a conversation (client/ChartRecord.c):    *)
(* pages of a few messages, which the server takes from the user's file    *)
(* (RecordQuery.c, imcommon/message.c) and the user turns up and down.     *)
(*                                                                         *)
(* One structure is shared by the thread that draws, which asks for a page *)
(* and shows it, and the one that receives, which collects its rows and    *)
(* fetches the pictures in them; nothing locks it.  Messages keep coming   *)
(* while the record is read.  A message is its place in the conversation:  *)
(* the ids of other conversations in between make no difference.           *)
(*                                                                         *)
(* Messages are as the client's own editor writes them, with one picture   *)
(* at most: the scan for pictures in a row (ChartRecord.c:282-340) is the  *)
(* set of messages that have one.  That it would skip the byte after a     *)
(* font's slant, or never leave a code it does not know, is not modelled.  *)
(***************************************************************************)
EXTENDS Integers, Sequences, FiniteSets, SequencesExt

CONSTANTS None,
          Times,      \* the time of each message that will have been stored
          PageRows,   \* rows of a page, 8 in the code
          Slots,      \* rows record_message_data has room for, 10 in the code
          Settings,   \* what a behaviour has to live with, a set of records: whether the
                      \* user waits for a page before turning it, the messages with a
                      \* picture in them, the pictures the server has lost
          MaxTurns    \* bound: pages asked for after the first

Messages == 1 .. Len(Times)

ASSUME ChatRecordAssumption ==
  /\ Times \in Seq(Nat)
  /\ \A m, n \in Messages : m <= n => Times[m] <= Times[n]
  /\ PageRows \in Nat \ {0} /\ Slots \in Nat /\ PageRows <= Slots
  /\ Settings \subseteq [patient : BOOLEAN, pictures : SUBSET Messages, lost : SUBSET Messages]
  /\ MaxTurns \in Nat
  /\ None \notin Int

VARIABLES stored,     \* how many messages the server has stored
          window,     \* "none", "open" or "closed"
          node,       \* the receiving thread has a handler for the window's session
          rows,       \* the messages in record_message_data; its length is i
          minId, maxId, endFlag, images,   \* min_id, max_id, record_end_flag, imagecount
          page,       \* the messages on the screen
          queries,    \* queries on their way to the server
          down,       \* rows, OKs and FAILUREs on their way back
          wanted,     \* pictures asked of the server
          found,      \* pictures in the client's files
          idle,       \* functions given to g_idle_add
          receiver,   \* what the receiving thread is in the middle of: "none", "flag"
                      \* after it has set record_end_flag, or a picture with what it
                      \* has read of imagecount
          drawer,     \* what the drawing thread has read of imagecount, or None
          turns,      \* pages asked for after the first
          asked,      \* for the properties: how the latest page was asked for, and how many
                      \* messages were stored then
          undefined,  \* the program has done what C gives no meaning to
          setting     \* the member of Settings this behaviour has; it never changes

structure == <<rows, minId, maxId, endFlag, images>>
network == <<queries, down, wanted, found>>
threads == <<idle, receiver, drawer>>
recordVars == <<stored, window, node, structure, page, network, threads, turns, asked, undefined, setting>>

Pictures == setting.pictures
Free == <<"none">>

RecordInit ==
  /\ stored \in 0 .. Len(Times)
  /\ window = "none" /\ node = FALSE
  /\ rows = <<>> /\ minId = 0 /\ maxId = 0 /\ endFlag = FALSE /\ images = 0
  /\ page = <<>>
  /\ queries = <<>> /\ down = <<>> /\ wanted = <<>> /\ found = {}
  /\ idle = <<>> /\ receiver = Free /\ drawer = None
  /\ turns = 0 /\ asked = <<"open", 0>>
  /\ undefined = FALSE
  /\ setting \in Settings

-----------------------------------------------------------------------------
(* The server.                                                             *)

\* One of the two writes to the other, and the message is on record.
Post ==
  /\ stored < Len(Times)
  /\ stored' = stored + 1
  /\ UNCHANGED <<window, node, structure, page, network, threads, turns, asked, undefined, setting>>

\* A query: which messages, and at which end of them the page is taken.
Query(by, op, value) == [by |-> by, op |-> op, value |-> value]

Value(q, m) == IF q.by = "id" THEN m ELSE Times[m]

Matches(q) ==
  {m \in 1 .. stored : CASE q.op = "<"  -> Value(q, m) < q.value
                         [] q.op = ">"  -> Value(q, m) > q.value
                         [] q.op = ">=" -> Value(q, m) >= q.value}

\* ORDER BY: m comes before n.
Nearer(q, m, n) == IF q.op = "<" THEN Value(q, m) > Value(q, n) ELSE Value(q, m) < Value(q, n)

\* LIMIT: those nearest to the value; which of several with the same time is left to
\* the database.  They are listed as the handler's qsort leaves them, by id.
MessageFileQuery(q) ==
  LET count == IF Cardinality(Matches(q)) < PageRows THEN Cardinality(Matches(q)) ELSE PageRows
  IN {s \in [1 .. count -> Matches(q)] :
        /\ \A i, j \in 1 .. count : i < j => s[i] < s[j]
        /\ \A m \in Matches(q), i \in 1 .. count :
             Nearer(q, m, s[i]) => \E j \in 1 .. count : s[j] = m}

\* A packet for each message.
Rows(s) == [i \in DOMAIN s |-> <<"row", s[i]>>]

\* The rows and OK; or FAILURE, when the database does not take the query.
ProcessPacketMessageRecordQuery ==
  /\ queries # <<>>
  /\ \/ \E s \in MessageFileQuery(Head(queries)) : down' = down \o Rows(s) \o <<<<"ok">>>>
     \/ down' = Append(down, <<"failure">>)
  /\ queries' = Tail(queries)
  /\ UNCHANGED <<stored, window, node, structure, page, wanted, found, threads, turns, asked,
                 undefined, setting>>

-----------------------------------------------------------------------------
(* The receiving thread.                                                   *)

Receiving == receiver = Free /\ ~undefined

\* The window is looked at when a packet has been dealt with, and the node goes
\* with it.
NodeAfter == node' = (window = "open")

\* Mutant: min_id is set by every row.
MinIdOfLast(m) == m

MinId(m) == IF rows = <<>> THEN m ELSE minId

\* A row is added to the array, if there is room.
AddRow(m) ==
  /\ minId' = MinId(m)
  /\ IF Len(rows) < Slots THEN rows' = Append(rows, m) /\ UNCHANGED undefined
                          ELSE undefined' = TRUE /\ UNCHANGED rows
  /\ NodeAfter

\* handle_record_message with a row.  A picture in it is counted first ...
ReceiveRow ==
  /\ Receiving
  /\ down # <<>> /\ Head(down)[1] = "row"
  /\ down' = Tail(down)
  /\ LET m == Head(down)[2]
     IN IF ~node
          THEN UNCHANGED <<node, rows, minId, receiver, undefined>>
          ELSE IF m \in Pictures
          THEN receiver' = <<"picture", m, images>> /\ UNCHANGED <<node, rows, minId, undefined>>
          ELSE AddRow(m) /\ UNCHANGED receiver
  /\ UNCHANGED <<stored, window, maxId, endFlag, images, page, queries, wanted, found, idle, drawer,
                 turns, asked, setting>>

\* ... and looked for in the files, or asked of the server (FindImage).
FindImage ==
  /\ receiver[1] = "picture" /\ ~undefined
  /\ LET m == receiver[2]
     IN /\ images' = receiver[3] + 1
        /\ IF m \in found THEN idle' = Append(idle, "picture") /\ UNCHANGED wanted
                          ELSE wanted' = Append(wanted, m) /\ UNCHANGED idle
        /\ AddRow(m)
  /\ receiver' = Free
  /\ UNCHANGED <<stored, window, maxId, endFlag, page, queries, down, found, drawer, turns, asked, setting>>

\* OK: the flag is set ...
ReceiveOK ==
  /\ Receiving
  /\ down # <<>> /\ Head(down) = <<"ok">>
  /\ down' = Tail(down)
  /\ IF node THEN endFlag' = TRUE /\ receiver' = <<"flag">> ELSE UNCHANGED <<endFlag, receiver>>
  /\ UNCHANGED <<stored, window, node, rows, minId, maxId, images, page, queries, wanted, found, idle,
                 drawer, turns, asked, undefined, setting>>

\* ... and the page shown, unless a picture is missing or there are no rows.
ShowIfComplete ==
  /\ receiver = <<"flag">> /\ ~undefined
  /\ idle' = IF images = 0 /\ rows # <<>> THEN Append(idle, "show") ELSE idle
  /\ NodeAfter
  /\ receiver' = Free
  /\ UNCHANGED <<stored, window, structure, page, network, drawer, turns, asked, undefined, setting>>

\* FAILURE is logged, and that is all.
ReceiveFailure ==
  /\ Receiving
  /\ down # <<>> /\ Head(down) = <<"failure">>
  /\ down' = Tail(down)
  /\ IF node THEN NodeAfter ELSE UNCHANGED node
  /\ UNCHANGED <<stored, window, structure, page, queries, wanted, found, threads, turns, asked, undefined,
                 setting>>

\* recv_new_friend_image: the last packet of a picture, or FAILURE, of which nobody
\* is told.
ReceivePicture ==
  /\ Receiving
  /\ wanted # <<>>
  /\ wanted' = Tail(wanted)
  /\ IF Head(wanted) \in setting.lost
       THEN UNCHANGED <<found, idle>>
       ELSE found' = found \union {Head(wanted)} /\ idle' = Append(idle, "picture")
  /\ UNCHANGED <<stored, window, node, structure, page, queries, down, receiver, drawer, turns, asked,
                 undefined, setting>>

-----------------------------------------------------------------------------
(* The drawing thread: what the user does, and the idle functions.         *)

Drawing == drawer = None /\ ~undefined

\* Nothing is on its way any more.
AllSettled ==
  /\ queries = <<>> /\ down = <<>> /\ wanted = <<>>
  /\ idle = <<>> /\ receiver = Free /\ drawer = None

\* Mutant: i is left as it is.
RowsKept == rows

RowsReset == <<>>

get_record(q) ==
  /\ rows' = RowsReset /\ endFlag' = FALSE /\ images' = 0
  /\ queries' = Append(queries, q)

\* The window opens at the messages before this second; a second is not over when
\* its last message has come.  min_id and max_id are what malloc has left there, a
\* small number or a large one.
ChartRecord ==
  /\ Drawing /\ window = "none"
  /\ window' = "open" /\ node' = TRUE
  /\ \E now \in 0 .. Times[Len(Times)] + 1 :
       /\ \A m \in 1 .. stored : Times[m] <= now
       /\ \A m \in Messages \ (1 .. stored) : now <= Times[m]
       /\ get_record(Query("time", "<", now))
  /\ minId' \in {0, Len(Times)} /\ maxId' \in {0, Len(Times)}
  /\ UNCHANGED <<stored, page, down, wanted, found, threads, turns, asked, undefined, setting>>

\* The user turns the page in the open window; a patient one waits before.
Turn(how, q) ==
  /\ Drawing /\ window = "open" /\ turns < MaxTurns
  /\ setting.patient => AllSettled
  /\ get_record(q)
  /\ turns' = turns + 1
  /\ asked' = <<how, stored>>
  /\ UNCHANGED <<stored, window, node, minId, maxId, page, down, wanted, found, threads, undefined, setting>>

NextPage == Turn("next", Query("id", ">", maxId))

Upward == Turn("up", Query("id", "<", minId))

CalendarEvent == \E day \in Range(Times) : Turn("day", Query("time", ">=", day))

Close ==
  /\ Drawing /\ window = "open"
  /\ setting.patient => AllSettled
  /\ window' = "closed"
  /\ UNCHANGED <<stored, node, structure, page, network, threads, turns, asked, undefined, setting>>

\* deal_with_record_message: one picture less ...
PictureHere ==
  /\ Drawing /\ idle # <<>> /\ Head(idle) = "picture"
  /\ drawer' = images
  /\ idle' = Tail(idle)
  /\ UNCHANGED <<stored, window, node, structure, page, network, receiver, turns, asked, undefined, setting>>

\* ... and the page shown, if it was the last and the rows are complete.
PictureCounted ==
  /\ drawer # None /\ ~undefined
  /\ images' = drawer - 1
  /\ idle' = IF images' = 0 /\ endFlag THEN Append(idle, "show") ELSE idle
  /\ drawer' = None
  /\ UNCHANGED <<stored, window, node, rows, minId, maxId, endFlag, page, network, receiver, turns, asked,
                 undefined, setting>>

\* show_record_message; the text buffer goes with the window.
ShowRecord ==
  /\ Drawing /\ idle # <<>> /\ Head(idle) = "show"
  /\ idle' = Tail(idle)
  /\ IF window # "open"
       THEN undefined' = TRUE /\ UNCHANGED <<page, maxId>>
       ELSE /\ page' = rows
            /\ maxId' = IF rows = <<>> THEN maxId ELSE Last(rows)
            /\ UNCHANGED undefined
  /\ UNCHANGED <<stored, window, node, rows, minId, endFlag, images, network, receiver, drawer, turns, asked,
                 setting>>

-----------------------------------------------------------------------------

RecordNext ==
  \/ Post \/ ProcessPacketMessageRecordQuery
  \/ ReceiveRow \/ FindImage \/ ReceiveOK \/ ShowIfComplete \/ ReceiveFailure \/ ReceivePicture
  \/ ChartRecord \/ NextPage \/ Upward \/ CalendarEvent \/ Close
  \/ PictureHere \/ PictureCounted \/ ShowRecord

RecordSpec == RecordInit /\ [][RecordNext]_recordVars

-----------------------------------------------------------------------------

\* A user who waits for each page never has the rows of two requests in the array,
\* nor a page shown in a window that is gone (ChartRecord.c:345-354).
RecordTypeOK ==
  /\ stored \in 0 .. Len(Times)
  /\ window \in {"none", "open", "closed"} /\ node \in BOOLEAN
  /\ rows \in Seq(Messages) /\ page \in Seq(Messages)
  /\ Len(rows) <= IF setting.patient THEN PageRows ELSE Slots
  /\ minId \in 0 .. Len(Times) /\ maxId \in 0 .. Len(Times)
  /\ endFlag \in BOOLEAN /\ images \in Int
  /\ down \in Seq({<<"ok">>, <<"failure">>} \union ({"row"} \X Messages)) /\ wanted \in Seq(Pictures) /\ found \subseteq Pictures
  /\ idle \in Seq({"picture", "show"})
  /\ receiver \in {Free, <<"flag">>} \union ({"picture"} \X Pictures \X Int)
  /\ drawer \in Int \union {None}
  /\ turns \in 0 .. MaxTurns /\ asked \in {"open", "next", "up", "day"} \X (0 .. Len(Times))
  /\ undefined \in BOOLEAN /\ (setting.patient => ~undefined)
  /\ setting \in Settings

\* imagecount is right: with two pictures in a page the threads can overwrite each
\* other's count, and a lost one is never counted down.
CountIsRight == Cardinality(Pictures) <= 1 /\ setting.lost = {}

Contiguous(p) == \A i \in 1 .. Len(p) - 1 : p[i + 1] = p[i] + 1

\* Turning pages, one at a time, misses nothing and repeats nothing, whatever is
\* written meanwhile: the page above ends where this one begins, the page below
\* begins where it ends, and each is full unless the record ends
\* there, or did when it was asked for (ChartRecord.c:345-348, 424-427, 483-485).
PagesAdjoin ==
  [][(page' # page /\ page # <<>> /\ setting.patient /\ CountIsRight) =>
       /\ (asked[1] = "up") => /\ Contiguous(page') /\ Last(page') = Head(page) - 1
                               /\ (Len(page') = PageRows \/ Head(page') = 1)
       /\ (asked[1] = "next") => /\ Contiguous(page') /\ Head(page') = Last(page) + 1
                                 /\ (Len(page') = PageRows \/ Last(page') >= asked[2])]_recordVars
=============================================================================
