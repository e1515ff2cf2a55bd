# MoMo IM: TLA+ models and proofs

MoMo is an instant messenger: a C server (`server/`) that runs one listener
thread, a pool of worker threads and a console, a packet protocol (`protocol/`),
data structures shared by server and client (`imcommon/`), and a GTK client
(`client/`, `media/`). This directory holds TLA+ specifications of the server's
core and of the parts of the client that work with it, TLC configurations for small
instances, and TLAPS proofs.

## 1. The system

| Component | State | Operations | Talks to |
|---|---|---|---|
| Job queue (`server/run/jobs.c`) | ring of `CONFIG_JOB_QUEUE_SIZE` slots, head, tail, one mutex, one condition | push, pop, kick | listener pushes, workers pop, deletions and logins kick |
| Listener (`server/run/listener.c`) | epoll set, batch of events, ban list | accept, disarm and push, NAT discovery replies | epoll, job queue, user manager |
| Workers (`server/run/worker.c`) | the record in hand | receive, process, arm again, drop, delete; worker 0 also runs `UserGC` by chance | job queue, packet handlers |
| User manager (`server/run/user.c`) | record states, hold locks, table of online users (a 16-ary tree under one recursive lock), counter, list of pending users | new, hold, drop, get, set state, delete, GC, broadcast | everything |
| Operations (`server/run/operation.c`) | per user: list of operations, recursive list lock, a lock per operation, a condition | register, get, drop, cancel, unregister, remove all | file, NAT, OK/Failure/Cancel handlers |
| Packet handlers (`server/packets/`) | none of their own | one function per packet | all of the above |
| Friends (`imcommon/friends.c`, `server/datafile/friends.c`) | groups of user ids in memory, a file per user, reference counts | get, drop, save; add, move, delete friends and groups | friend handlers, broadcast |
| Messages (`imcommon/message.c`, `server/datafile/message.c`) | an SQLite file per user | insert, query | message handlers |
| NAT host discovery (`server/run/natTraversal.c`) | list of registered keys under a read-write lock | register, unregister, notify | listener, NAT handlers |
| Calls (`client/media.c`, `server/packets/net/`) | an entry, a node and a thread per call end; nothing on the server but the registered keys | request, accept, refuse, exchange datagrams, start to talk | client threads, worker, listener |
| Record of a conversation (`client/ChartRecord.c`) | one structure per window: rows of a page, least and greatest id, pictures missing | open, turn, calendar, close | both client threads, query on the server |
| Accounts and files (`server/datafile/`) | SQLite tables, directories | register, authenticate, store | login and file handlers |
| Protocol (`protocol/`) | receive buffer and cipher per connection | framing, encoding | server and client |
| Client (`client/`) | session table, receive loop, GTK widgets | requests with callbacks | server |

A connection goes round a circuit: epoll reports it, the listener removes it
from epoll and pushes it on the job queue, a worker pops it and holds it,
receives one packet, adds it to epoll again (online users before the packet is
processed, pending ones by their handler) and drops it. Sessions interfere with
this circuit from the side: a login takes over the account's previous session
and deletes it, the console kicks, a broken connection deletes itself.

### What is hard here

* Threads share records by raw pointers. The epoll set, the batch of events in
  the listener, the job queue, the online table and the workers' hands all hold
  such pointers; deletion has to reach all of them.
* The hold lock is a read lock that is only taken for online users; the state
  decides, when the lock is given back, whether there is something to give back.
* One condition variable is shared by both sides of a bounded queue.
* A login moves a record to another address (`realloc`).
* A list, a message or a file is kept twice, by two users, by server and screen, in memory and on disk;
  requests and notifications cross on the wire.
* Transfers are chains of packets without retry or timeout; the same key may be uploaded twice at a time.
* Sockets of the server do not block: packets are sent and received in parts.
* Two clients agree over datagrams that get lost and packets through the server when to start to talk; four
  threads and the server's two free and use the same entries.
* The client's two threads fill and show the same structures without a lock.
* The same account can log in twice at once, and be kicked meanwhile.

### What makes each part correct

| Component | Correct when |
|---|---|
| Job queue | a connection is queued once and handled by one worker until it is armed again; no wakeup is lost; what is queued is served; together with its lock it is a bounded first-in first-out line |
| User manager, listener, workers | the table holds live records of the right account and counts them; an account has one session; an online connection is always watched or on its way; a record is freed when nobody has it, and then somebody does free it |
| Protocol framing | what is received is what was sent, packet by packet, whatever the pieces; a closed connection is noticed |
| Friends | both halves of a friendship come and go together, by consent; nobody is in two groups; a request can be answered; what is not in memory is in the file |
| Groups | the screen shows the server's groups in the server's order; no group disappears unless its owner deletes it |
| Messages | a user is shown every message once, in order, over all sessions; sender and receiver have the same record |
| Operations and files | a file is whole or absent; what is announced can be fetched; a transfer ends, and login with it |
| Calls | who starts to talk is heard and hears; a thread that looks for the other end stops; nobody uses an entry that is freed |
| Record of a conversation | turning pages misses nothing and repeats nothing; a page is shown when it is complete |
| Client sessions | a packet finds the callback registered for its session, once |
| NAT discovery | a key is answered once, or cancelled, and its operation is not used afterwards |
| Collection and shutdown | silent connections are deleted; at the end nothing is used after it is deleted |
| Packet encodings | each `Cast` returns what its `Send` was given, within the bounds of its buffer |

`PROJECT.json` lists each hazard with its line and the properties that cover it.

## 2. Modules

Twelve modules describe the code and what it promises. `Line` and `JobQueueRefinement` serve them, `*Proofs`
modules hold the theorems (section 4), and `MC*` modules give the constants small values. `FriendshipProofs` is
about the three modules that model friend lists, `MessageDeliveryProofs` about both that read the message file; so that one
module can extend several specifications, `GroupOrder`, `FriendsTable` and `ChatRecord` name theirs `GroupSpec`, `TableSpec`
and `RecordSpec`, and the parts accordingly. `MCFriendLists` runs the three modules of friend lists in one
go: a behaviour of `ListsSpec` is a behaviour of one of them, in which the variables of the others keep
their initial values.

| Module | What it models | Composed with |
|---|---|---|
| `JobQueue` | `jobs.c`, the loops of `listener.c` and `worker.c` around it | `JobQueueRefinement` instantiates `JobService` |
| `JobService` | the abstract line of jobs: bounded, first in first out, an entry can be struck out | used as a property of `JobQueue`, and as the queue of `UserLifecycle` |
| `Line` | striking entries out of a sequence (`JobManagerKick`, the rows of a query) | used by `JobService`, the refinement, `MessageDelivery` and `FileTransfer` |
| `UserLifecycle` | records of connections from accept to free: `user.c`, the handlers of Hello and Login, `cli.c` | takes the queue as the sequence `JobService` promises |
| `PacketStream` | `CRPSend` and `CRPRecv` over a TCP connection, both directions | why other modules may take a connection for a channel of whole packets in order, unless a send is cut short |
| `Friendship` | what is in the friend lists, the handlers of friend packets | handlers are atomic, one worker, nobody at the console |
| `FriendsTable` | one list: its references, lock, copies in memory and file, between worker, console and a server that dies | the list of one user of `Friendship`, as the set of changes made to it |
| `GroupOrder` | order of groups on the server and on the screen | the list of one user of `Friendship`, with the order that one leaves out |
| `MessageDelivery` | `PostMessage`, message files, the query after login | sessions as in `UserLifecycle`, seen from accounts |
| `FileTransfer` | operations, files and icons on the server, the transfers of the client | sessions as above, kick and hang-up included |
| `AudioCall` | a voice call: both clients with their three threads, worker, listener, keys and operations, datagrams | packets as `PacketStream` promises them, deletion as in `UserLifecycle` |
| `ChatRecord` | the window with the record of a conversation, the query behind it, its pictures | the message file of one conversation of `MessageDelivery`, at length |

### JobQueue, JobService

`slot`, `head`, `tail` are `jobQueue`, `jobQueueHead`, `jobQueueTail`; `lock` is
the mutex, `waiting` the threads inside `pthread_cond_wait`. `Push` and `PopTake`
are the critical sections of `JobManagerPush` and `JobManagerPop`; `PushWait`
and `PopWait` the turns through their `while` loops; a signal wakes *any* one
waiter, as POSIX allows, and `SpuriousWakeup` wakes one without cause.
`JobManagerKick` replaces every live occurrence by `NULL` after `EpollRemove`.
The listener is `EpollWait`, `Report` (`EpollDel` and then push), the worker
`WorkerLoop`, `PopTake`, `Rearm`, `Done`. `Stop` is the console's command.
`JobQueueRefinement` maps the ring to the entries of its occupied slots in ring order,
without the holes that struck jobs leave (`Without(RingSeq, NULL)`). A hole still takes room
until it is popped; the abstract line only promises that no more than its capacity wait, so
popping a hole is a step in which nothing happens.

### UserLifecycle

A record is an address (`Conns`); a freed address can be accepted again.
`st`, `uid`, `table`, `count`, `readers`, `writer` are the record's state, its
account, `OnlineUserTable`, `OnlineUserCount` and the two sides of `holdLock`;
`armed`, `batch`, `jobs` are where raw pointers wait: epoll, the events the
listener has in its array, the queue. Each thread has a `pc`, the record in hand
(`cur`), the one it deletes or relays to (`other`) and the account it looks for.
A step is what no other thread can come between. `OnlineUserDelete` is eight of
them, from `OnlineUserTableRemove` to `free`. `LoginRealloc` moves the record.
`setting`, which a behaviour keeps, says whether an operator kicks on the console and which
records there are, and whether addresses are used again at once. A login is `LoginAuth`, `LoginRealloc` (the record moves, or not), `LoginReallocKick` (its old
address, which the listener may have given to a new connection by then, is struck out of the queue)
and `LoginPublish`; before the last two memory may run out (`LoginNoMemory`): the record is freed, and
the worker goes on with it (`astray`). `Allocatable` is what `malloc` may return; with `reuse` in the setting,
also an address to which an old pointer waits in the batch, in the queue or in the listener's hands.
`Undefined` holds where C gives the next step no meaning, because a thread is bound to follow a pointer to
freed memory (`Uses`) or to give back a lock it has not; behaviours end there, so that nothing is concluded
from what undefined behaviour might do. A pointer that only waits does not end them: its
address may be another record's when it is followed.

### PacketStream

Bytes are counted. A packet is a position in the stream, a length and the part
that `send` has taken. `Begin`, `SendBlocking`, `SendNonblocking`, `SendTimeout`
are `CRPSend` under its send lock; `RecvHeader`, `RecvBody`, `Return` the states of
the server's non-blocking `CRPRecv`, `RecvPeek` and `RecvWaitAll` the client's
blocking one. `errno` is a variable, because `worker.c:47` reads it after a `recv`
that may not have set it; `OtherConnection` is other work of the same thread that does.

### Friendship, FriendsTable, GroupOrder

`friends` is the list `UserFriendsGet` returns, `file` what the disk holds, and
`Put` what a handler leaves: the list of an online owner in memory, that of any other in its file.
With one worker that handles one packet after the other, and nobody at the console, nothing comes between the
references a handler takes and gives back.
`shown` holds what a client still displays although it is no longer so. Each
handler is one action with all its list operations and its notification. What the
environment may do is a record `mode`, one of `Modes`, that a behaviour keeps from its
first state: `cross` (two users ask each other), `hurried` (a user acts on a screen that
is older than the list), `fails` (the server dies). `Calm` is the mode without them.

`FriendsTable` is about what `Put` leaves out. `entry`, `refs` and `lock` are the account's
`UserFriendsEntry`, its `refLock` and its `friendsLock`; `heap` and `content` the lists in memory, with the set of changes that
have been made to each; `stored` and `whole` the file. The worker logs the account in (`LoginGets`), runs
its handlers (`OwnerChanges`) and those of others that take its list (`GetForHandler`, `HandlerChanges`, `HandlerDrops`), and
deletes its session; the console deletes it too, in a thread of its own: `LeaveTable`, `Broadcast`,
`SessionDrops`. Whoever drops the last reference takes the entry out of the table, unlocks the table and
then saves (`SaveOpen`, `SaveEncode`), so that others read the old file, or an unfinished one, meanwhile. A
save can fail (`SaveFails`), and the server die and start again (`Die`) at any step. `lock` is "left" after the handler that
returns with it (`DeleteUnknownGroup`), and "broken" after `SessionDrops` has given back a lock its thread had not taken; the rwlocks
are those of glibc. `mishaps` is a history variable: "overlap" when a list was read while another thread had
it to save, "unsaved" after a failed save, "cut" when the server died with the file emptied.

`GroupOrder` has the server's array, `Pending` last, the rows of the client with
their priorities, and the two channels between them. `MoveBefore` follows the loop
of `GroupMove.c:33-45` index by index, the overwritten element included.

### MessageDelivery

Messages are numbered; `box[u]` is the message file of u. The three writes of
`PostMessage` are steps of their own, between which the console can kick a user
(`CLIKick`, then `CLIKickSave`), the clock can tick or the server can die.
`lastlogout` and the query of `QueryOffline.c` work in seconds of `clock`, as the
code does. The rows of a query are the line of all numbers from which those that the query does not
want are struck out. `mishaps` is a history variable: it records for each account that an
event has happened after which the code does lose, or reorder, messages. The
properties say that nothing else does. Each of the two files may fail to take a message, because it cannot be
opened or the insertion fails (`NotInserted`); `PostMessage` looks at neither. `unwritten` keeps which.

### FileTransfer

`ops[u]` is the list of operations of a session, in order; `files` maps a key
(the MD5) to contents. The handlers of `packets/file` and `status/OK.c` are
actions of the server, the callbacks `mysockfd` (login), `recv_new_friend_image`,
`deal_with_recv_file`, `deal_with_file` and `dealwith_photo` actions of the client;
`nodes[u]` is the client's table by session. A transfer is a chain of packets in
which each side waits for the other; nothing is retried and nothing times out, so
a packet too few stops it for ever and one too many confuses it. The client's two
threads take turns between packets. Where the server's own files cannot be opened (`Rough`) it
answers FAILURE. The timer of the client's progress bar is left out: it frees what an
upload points to when it sees the upload ended, which the receiving thread marks before it has made the
message of it when the server had the file already (`chartmessage.c:306-312`).

### AudioCall

`call[e]` is the `AudioDiscoverProcessEntry` of an end with its node in the client's list of
handlers and its thread: `node`, `entry` ("live", "freed"), `sent` (`messageSent`), `keySet`,
`addr`, `ready` (`peerReady`), `pipe` (`isRecvPipeOK`), `served` (`isServerDetected`), `tries`, and
`len`, what the stack holds where `opAddrLen` has no value. `up` and `down` are the packets to and
from the server; `probe`, `echo`, `dgram` say for which end there is a datagram on its way to the
server, the server's answer, or a datagram of the other end: each is sent or lost, and several of a
kind count as one, since a thread that reads a second one does what it did at the first. A step of
the thread is what it does from one `select` to the next. `op` and `table` are the operation and
the key of each end on the server; `NatHostDiscoverRegister` and `RegisterDone` are the two halves
of the handler, `OnlineUserTableRemove` and `UserOperationRemoveAll` those of a deletion,
`NatHostDiscoverFind`, `DiscoverDetected` and `NatHostDiscoverUnregister` the listener's notification, with the
lock given back after the first. A read of freed memory, a thread stopped that never ran and an
operation completed after it was cancelled set `undefined`, where behaviours end. `sound` is the address
`StartAudioChat` was given when the thread ended well; a short length garbles it. Kicks by the console, which delete a
session between the halves of a registration too, are left out.

### ChatRecord

`rows`, `minId`, `maxId`, `endFlag`, `images` are the fields of `RcordMessage`, `page` is the text
on the screen. The two threads meet in `idle` (what `g_idle_add` was given) and in the structure:
`images` is read in one step and written in the next by each of them (`ReceiveRow`, `FindImage`;
`PictureHere`, `PictureCounted`), as `imagecount++` and `imagecount--` are. `MessageFileQuery`
returns every choice of rows that ORDER BY and LIMIT allow: messages of the same second have no
order there; the rows are listed by id, as the handler's `qsort` leaves them. `get_record` is one step; a user who does not wait can take it between any two
rows. `setting` says whether the user waits, which messages have pictures and which of those
are lost. The database may refuse a query, to which the server answers FAILURE and the client does nothing
(`ReceiveFailure`). A message has one picture at most: the scan for pictures (`ChartRecord.c:282-340`) is the set of
messages that have one.

## 3. Runs

| Run | Instance | States | Shows |
|---|---|---|---|
| `job_queue_one_worker` | 1 worker, 3 connections, ring of 3 slots | 28,746 | `QueuedOnce`, `SerialUntilArmed`, `SleepersHaveCause`, the refinement of `JobService`, and that neither end of the queue waits for ever (`QueueGoesOn`) |
| `user_lifecycle` | 1 worker; 3 records and 2 accounts without the console, 2 records with it; `reuse` | 1,007,680 | `TableSound`, `OnlineInCircuit`, `HoldsSound` |
| `lifecycle_deletion` | the same records without `reuse` | 152,148 | a waiting deletion gets its lock |
| `lifecycle_stale_event` | 1 worker, 2 records | violation | finding 1 |
| `friend_lists` | `Friendship`: 2 accounts, calm or with everything (`RoughMode`); `GroupOrder`: up to 3 groups added, one request in flight; `FriendsTable`: 2 copies, 2 changes | 370,888 | friendship is mutual, one group each, requests answerable, friends by consent, all when calm; screen and server agree; copies and references fit, no change is lost but by the mishaps, a kick completes |
| `friendship_hurried` | 2 accounts, `Hurried` | violation | finding 2 |
| `group_order_hurried` | two requests in flight | violation | finding 3 |
| `message_delivery` | 2 accounts, 2 messages, 3 seconds, queries of 1 row, one insertion that fails | 3,751,317 | nothing missed, order, record of what was sent |
| `packet_stream` | 2 threads, 3 packets of 2 or 4 bytes, 3 bytes in the network | 4,404 | whole packets in order; complete ones are handed over; closed connections are noticed |
| `file_transfer` | 2 users, 3 logins, a file and an icon of a page, one transfer each per session, one mishap | 1,232,300 | files are whole, what is announced is stored, no transfer waits for ever |
| `audio_call` | 2 ends; 2 tries and nobody leaves, or 1 try and one of them leaves, or a stack with a wrong length | 403,661 | `HeardBothWays`, `DanglingAfterGivingUp`, `KeysHaveOwners`, `WaitEnds` |
| `chat_record` | 5 messages, 2 rows a page, 2 turns; a user who waits, with and without pictures, and one who does not | 1,790,616 | an array is never filled by two answers, pages adjoin |

Why the bounds are enough for what the runs are about:

* A ring of three slots holds two jobs. Three connections fill it, make the
  listener wait, and wrap both indices; the proofs take any size from two on.
* Two accounts and three records let one account log in twice while the other is
  relayed to. Only two sessions of an account can meet, because the second waits
  in `OnlineUserDelete` for the first.
* Packets of 2 and 4 bytes with a header of 2 and 3 bytes of room: headers and
  bodies split at each place, and a packet that does not fit into the socket.
* A query of `Limit` = 1 row with two messages overflows; in the code the limit is
  20 (`message.c:206`) and nothing else depends on it.
* One page and `MaxSessions` = 1: a client's transfers have different sessions and
  do not share state; at login both icons of a roster are fetched side by side.
  With `Rough` a local file may have a page less or more than was announced, so
  an upload of no page, one and two occurs. The server fails to store, to open or to write whole once (`MaxMishaps`),
  at any of these places; with two such mishaps the run holds as well, with 2,541,406 states. The proofs take any number.
* One copy of a list is in the table and one in the hands of a thread that saves; a second thread that saves
  has dropped an entry made since, so two copies may be all in use and a third reader waits. Two changes let one be saved and the other not.
* One failed insertion (`MaxUnwritten`) may be the receiver's or the sender's, of either message.
* Friendship is between two; a third account adds groups and requests, no new interference, and
  was checked with the same result.
* One or two tries for the ten of `AudioCall`: the count only separates the last silent
  second from the others. One packet one way on one connection (`MaxPackets`) still lets a READY, an OK and a
  FAILURE cross, because the queues of the two ends are independent.
* Pages of 2 rows in an array of 3 for 8 in 10: the array holds one answer and not two. Five messages, two of the
  same second, and two turns give a page above, below and past the end.

`CHECK_DEADLOCK FALSE` is said where the system may stop: behaviours of
`UserLifecycle` end at `Undefined`, a closed and drained connection of
`PacketStream` does nothing more, the bound on logins ends `FileTransfer`,
a call is over in `AudioCall`, and the window is closed in `ChatRecord`.
In all other runs deadlock is checked.

### Fairness

`JobQueue`: weak fairness of each worker's step and of the listener's step; threads
that can run do run. Nothing is assumed of `Stop`, kicks, arrivals or wakeups
without cause. `UserLifecycle`: weak fairness of a worker's packet and of a
deletion's steps; strong fairness of `DeleteWrlock`, because readers come and go
and the lock must not pass the writer over for ever: glibc's default prefers
readers, but a record that has left the table gets no new ones. `FriendsTable`: a handler
drops the list it has taken, a save ends or fails, and a session that is being deleted is dropped (weak); strong fairness of
the console's `Broadcast`, which waits for a read lock while the worker takes it for writing and gives it back again and
again, as glibc lets readers in when a writer unlocks. `PacketStream`:
weak fairness of the receiving side. No fairness for senders, users or networks. `AudioCall`:
weak fairness of the worker, of the listener, and of each client's receiving thread and call
thread; users promise nothing and every datagram may be lost.

## 4. Proofs

All proofs hold for every value of the constants allowed by the named assumption
of the module.

`JobQueueProofs` (from `JobQueueAssumption`: a ring of at least two slots).
`TypeInv` adds to `TypeOK` that a thread that pushes or works has a record in hand.
`TurnInv == TypeInv /\ QueuedOnce /\ SerialUntilArmed` is inductive: `QueuedOnce`
alone is not, as a record in a worker's hands could be pushed a second time; what
keeps a second copy out is that the record is then neither armed nor reported.
The lemmas `PushWindow` and `PopWindow` say what a push and a pop do to the set of
live slots, modulo the size of the ring. `OneWorkerNoLostWakeup` assumes one
worker and needs `NotEmptyAndFull`: since the ring is never both, the two
conditions that share the one condition variable have no waiters at the same time.
With two workers it is false (section 6).
`QueueImplementsService` is the refinement, step by step: `RingPush`, `RingPop` and `RingKick` say what a
push, a pop and a kick do to the occupied slots read in ring order, wherever head and tail stand, and
the lemmas of `LineProofs` carry that over to the line without holes. `ImplementsService` also needs
`HandsEmpty`: what the abstract line calls "nothing in hand" is `NULL` in the code's variables at the
steps at which a thread takes a job.

`LineProofs` holds what those proofs and those on messages need of `Without`: the order is kept, an appended entry is
struck or stays last, the head is struck or stays first. The library's induction takes an
operator as parameter, which the provers cannot instantiate, so induction is done on a set of numbers:
`NatLeast` (a set of numbers has a least one) gives `UpTo`, and that `EveryLine`, induction on the
length of a line. `Without` is written as a recursive function because the provers cannot see into
`SelectSeq`.

`FriendshipProofs`. `FriendshipTypeCorrect` holds under every mode. `SoundWhenCalmAlways` speaks of calm behaviours.
`MutualInv` strengthens its three parts with `NobodyCrosses` (two users never wait for each
other) and `NothingStale` (screens name only where a friend is); without the first
an acceptance could leave the other request in Pending, without the second a move
could add half a friendship. None of the three conditions of `Calm` can be dropped. `FriendsByConsentAlways` is the action property:
under `MutualInv` an acceptance is the only step after which two users are friends who were not (`NewFriendWaited`).

Of `FriendsTable` (from `FriendsTableAssumption`: two threads, and "no copy" is not a copy) it proves
`TableTypeCorrect`, `SharedCopyAlways` and `NothingLostAlways`, for any number of copies and changes. The invariant is
`TableInv == TableTypeOK /\ SharedCopy /\ NothingLost /\ SavedIsKept`. `SharedCopy` says who has which copy, so that
who drops a list of the table drops the one it has; `SavedIsKept` says, while no mishap has happened, that
what has been saved is in every copy in use and that one thread at a time saves: without it a later save
of an older copy could take a change out of the file. The lemmas `Got`, on taking a reference, and its like on dropping one do
the work of the actions that share `UserFriendsGet` and `UserFriendsDrop`.

Of `GroupOrder` (from `GroupOrderAssumption`) the same module proves `GroupTypeCorrect`, `ScreenAgreesAlways`
and `GroupsLeaveByDeleteAlways`, for any number of groups. All three have the hypothesis `OneAtATime`, which
says what `friend_lists` runs: the user waits for each answer, and whoever moves groups deletes
none. With two requests under way the last two are false (finding 3), and they are false for a patient user
who both moves and deletes (section 6). The types are not safe without it either: once a move has overwritten
a group, another is in the list twice, the lost id is free again on the screen, and the list grows longer than
there are ids, with priorities to match. `GroupInv` follows one request from the screen to the server and
back: `OneInFlight` has three cases. Nothing is on its way and the screen shows the server's list (`Shows`);
or a request is at the server, and it fits what the screen shows (`RequestFits`: the id of a new group is
free, the two groups of a move are neighbours); or its answer is on the way, and the list is what the screen
will show when it has come (`Granted`). `ListFits` and `RowsFit` say that no group is twice in the list or on
the screen. Without deletions they say more, `ListCounted` and `RowsCounted`: the ids of n groups are the
first n numbers and the priorities of their rows the first n below 1. That is why a new row goes to the end of
the screen as the new group goes to the end of the list, and hence why `SameOrder` is kept. The loop of
`GroupMove.c:33-45` exchanges two neighbours named in the right order; adding and deleting a group come down
to the lemmas of `LineProofs` on putting an entry before the last and cutting one out.

`PacketStreamProofs` (from `StreamAssumption`). `IInv == Senders /\ InBuffer /\
AtPacket`: packets lie end to end, one thread at a time is inside one, and it is the
last; the bytes in the receiver's buffer begin at the place a packet starts. The
sender's and the receiver's steps are separate lemmas (`SenderStep`, `ReceiverStep`),
joined in `NextInv`. `WholePacketsAlways` then follows the receiver packet by packet:
its hypothesis `Uncut` is needed because a partial send of a non-blocking socket
does break the stream.

`UserLifecycleProofs` (from `LifecycleAssumption`). `TypeCorrect` holds for any workers; `SessionsServed`, `HoldsAreSound`
and `TableIsSound` assume what the server is built with, one worker (`config.h:8`) and at most one console, and the last
that there are finitely many accounts, since it counts them. The proof is one inductive invariant, `LifeInv`:

| Part | Says | Needed because |
|---|---|---|
| `Typed` | `TypeOK`, and what each thread has in hand at each step | the program counter alone does not say whose record a step changes |
| `Locks` | a record about to be freed is only in the hands of its deleter | the address is used again by the next connection |
| `HoldsAccounted`, `NotHeld` | a read lock belongs to the thread that will give it back; a worker has none on a record that was pending when it was popped, and the listener has none | dropping is decided by the state at the time, not by whether a lock was taken (`UserDrop`) |
| `TableOpen`, `OnlineHasUid`, `OneSession` | table entries are sessions that nobody has begun to close, and an account has one such session | a login looks the account up in one step and publishes its session in a later one |
| `OnlineInCircuit` | an online connection is watched, queued, in hand or in deletion | |
| `~Undefined => Defined` | what the threads want still exists: `PendingInHand`, `DeletedOnline`, `WantFree`, `OnlineInTable` | it holds only until somebody is bound to follow a pointer to freed memory |

`HoldsSound` says of each step that `HoldsAccounted` holds after it, and `FreedInNoHand`: the step that frees a record
leaves it in no worker's hands, without a console. A login for which there is no memory is excepted there by the step at which it
leaves the defined (`astray`): the proof has it as a case like the others.

The last implication is what makes the invariant inductive: the stale event of finding 1 and two threads that
close one session (`DeletedTwice`) do break those facts, in states whose next step C does not define.

`MessageDeliveryProofs` (from `DeliveryAssumption`). `DeliveryInv` is `TypeOK` and:
`Chronicle`, numbers are in the order of their times, so that ORDER BY time shows them in the order of posting;
`Recorded`, whatever is sent or on the sender's record is on the receiver's or in `unwritten`, as `PostMessage` tries that
first; `Unsent`, the message being posted has been sent to nobody, or sending it
could repeat it; `Ordered`, what is on the wire to a client is in order and later than what it has shown
(unless the mishap "order" is on record); `KickIsLoss`, a kick between two writes is a mishap on record; and `Owed`, every message
on record is shown, on the wire, or later than `lastlogout`, so that the next query finds it (unless the mishap "loss" or "overflow"
is). `NothingMissed` and `ShownInOrderOnce` are not inductive because they speak of what has been shown;
`Owed` and `Ordered` say the same of what is under way. `SentIsOnRecordAlways`, `ShownInOrderOnceAlways` and
`NothingMissedAlways` follow, for every limit on a query, any number of accounts, sessions and deaths of the server.

Of `ChatRecord` (from `ChatRecordAssumption`: messages are numbered in the order of their times, and an array
has room for a page) the same module proves `RecordTypeCorrect` and `PagesAdjoinAlways`, for records and pages
of any length, any number of turns and any user. `RecordInv` is about the user who waits; of the other nothing
but types can be said. `OneRequest` follows a request: `NotAsked`, `Asked`, `IsComing`, `IsHere`, or `IsRefused` after a FAILURE, which leaves the window as it is, with an empty array and no further page. `Coming(s)`
is the case that matters: of the server's answer `s` the first rows are in the array, the others and OK are on
the line in their order, and between them there may be one row in hand, whose picture is looked for. It gives
the bound on the rows, which is why no row is written behind the array, and since a window is closed or turned
only when the page is here, nothing is shown in a window that is gone. The part about pages has the condition
`CountIsRight`, like the property. `Asks` and `Adjoins` say, of the query and of its answer, that they are for
the page next to the one on the screen; `PageAbove` and `PageBelow` prove that ORDER BY and LIMIT pick just
those messages, which comes down to counting (`RangeOf`). `ShownInTime` is what ties the two threads together:
the page's picture is asked for, or announced, or being counted, and otherwise `images` is 0; and when all is
still, a page that is not empty has been shown. Without that the next query would start from the ends of a
page nobody has seen: `minId` is set when the first row comes, `maxId` when the page is shown (`KnowsEnds`).

`AudioCallProofs` (from `AudioCallAssumption`: two different ends and, in every setting,
tries and lengths in range). `HeardBothWays` is not inductive: that an end is ready says
nothing of the other until one knows where the READY came from. `HeardInv` follows it
back through both queues of the server to the end that sent it, which heard the other then and
keeps its pipe. `KeptSuffices` says what a step has to keep, and each action has a lemma
that it does. The part about the address follows from `AddressInv`, about one end at a time: an address is garbled only where the length
is short, and who has heard the other has its address.

The other three theorems rest on `CallInv`: types, `ThreadsFit` (what an end knows where its thread stands) and
`Agree`, how far both ends, the worker and the listener are in the call: `Registers`, a registration is the first thing an end sends, and
nothing comes to it before the answer; `BeforeRequest`, `BeforeAccept`, `OneRequest`, `AfterAccept` and `OneAnswer`, each packet
of the negotiation comes once and after the one that causes it; `OwnersThere`, a key in the table has its operation.
The steps are split where the callee has told its key (`FirstHalfStep`, `SecondHalfStep`), as little of one half
is of interest in the other. `TypeCorrect` is the deep one of the three: `ACCEPT` and `DETECTED` both start the thread
when the other has come (`media.c:198`, `215`), and that an end never has two of them needs that key and address come once each. No
theorem limits how often the users call.

`FileTransferProofs` (from `TransferAssumption` and `AbsentAssumption`: accounts are not session
numbers, no friend is twice in a list, which `Friendship` shows of calm users, and "nothing" is neither a file nor a
node). The heart of `TransferInv` is `Flow`: of each session one packet is at the server, at
the client, or nowhere, and `PacketAtServer`, `PacketAtClient` and `AtRest` say in each case what the
node of the client and the operation of the server are. Nothing else holds the two sides together, as the code has
neither time-outs nor a check that an answer belongs to what was asked. Around it:

| Part | Says | Needed because |
|---|---|---|
| `OpsFit`, `Prefix`, `Complete` | an operation holds the pages received so far, in order; one that sends holds a whole file | the server writes under the final name only at the end, and reads what it found at the beginning |
| `Promised` | a message on its way to the server names a file that is stored, or whose last packet is ahead of it | the client posts the message before the server has answered the end of the upload |
| `Delivered` | a download whose end is on its way has all its pages, and no packet of its session is ahead of the end | the client takes the end for success and checks nothing |
| `InfoFirst` | information about friends, asked for at login, comes before anything else, or a FAILURE in its place (`Early`) | a session of a login is the account of the friend, which stays in use until its icon has come |
| `ClientFits` | sessions up to the last one given out are known; the ones after are free | otherwise a late packet could meet a new transfer |
| `ph # "out"` in all of these | what is left at the server of a client that is out | the server may go on for a client that has closed its end: it serves, but nobody knows |

Each packet has a lemma for its handler on the server and one for its callback in the client; `ServerDone` and
`ClientDone` say once what a step that takes one packet and answers it has to show. `Cancellations`, what
`UserOperationRemoveAll` sends to a user who is being deleted, is written with `Without`, so that `LineProofs`
applies. The theorems hold for all bounds on logins and transfers, and users may be kicked or leave
at any step.

Only model-checked: the liveness properties (`QueueGoesOn`, `DeletionCompletes`, `KickCompletes`, `CompleteIsReturned`,
`CloseIsNoticed`, `WaitEnds`), which are out of reach of the proof system. Every invariant and every action
property of the passing runs is stated by a theorem. What is proved of `UserLifecycle` beyond its types is for
one worker, and of `GroupOrder` and `ChatRecord` for the users named above, because it is false of the others.
Nothing is proved of the conditions themselves: that a send is not cut short, that a user waits, that an
operator stays away.

## 5. Findings

1. `lifecycle_stale_event` (`user.c:565`). A deletion removes the record from epoll and from
   the queue. An event that `epoll_wait` has already returned is in neither, and
   the listener pushes the freed record.
2. `friendship_hurried` (`Move.c:29`). A move of a friend who has just deleted the
   friendship adds the friend back on one side; the comment at `Move.c:24` says a
   failed delete can be undone, but its result is not looked at.
3. `group_order_hurried` (`GroupMove.c:45`). A second "up" sent before the first is
   answered names two groups already in that order; the loop stops short and the
   assignment overwrites a group with its friends.

## 6. Remarks

Each of these can be reproduced by changing a constant; none is a run of the project,
because it needs a configuration the code does not ship or restates a run above.

* Two workers, `JobQueue`: `SleepersHaveCause` and `QueueGoesOn` fail. `NotifyPusher`
  (`jobs.c:55`) can wake a popper, and the pusher sleeps on beside a free slot, against the
  comment at `jobs.c:75`. `CONFIG_WORKER_COUNT` is 1 (`config.h:8`).
* Two workers, `UserLifecycle`: `HoldsSound` and `TableSound` fail. Two deletions of one record meet at
  `user.c:457-459`, against `user.h:153`, and the counter goes down twice. With one worker and a console
  the counter goes wrong in the same way and the worker can have a freed record in hand, so those two parts have the
  condition `Unattended`; that the table leads to live sessions of the right account holds beside a console too
  (`TableIsSound`).
* A login for which there is no memory, `UserLifecycle`: "to protect the server, the user in a wrong state is
  deleted at once" (`user.c:512`). `UserSetState` frees the record, when `calloc` or `malloc` fails (`user.c:532-542`) with
  the address from before `realloc`, and returns NULL; `Login.c:36` answers over the pointer it has, and `worker.c:72` deletes the record
  again. `HoldsSound` without its exception shows it.
* `FriendsTable`, `KickCompletes` without its first exception: a request to delete a friend from a group that does not exist
  returns with the list locked (`Delete.c:11-17`), and a kick waits for that lock in `UserBroadcastNotify` (`cli.c:71`,
  `user.c:391`) until another handler happens to unlock it; the console takes no more commands. A drop of a
  session unlocks a lock that its thread has not taken (`user.c:477`), after which the worker may wait for ever.
* `FriendsTable`, `NothingLost` without the exception "overlap": a kick by the console drops the last reference, and before
  it has saved (`datafile/friends.c:233-234`) the account logs in again or a handler takes its list, which comes from the
  old file or from half of the new one. The changes of the session before are lost when that list is saved.
* A message whose receiver's file fails to take it (`user.c:587-589`): the sender is told OK and has it on record, and a receiver who was
  offline is never shown it, against "不会丢的" (will not be lost, `ClientSockfd.c:216`). `SentIsOnRecord` excepts it
  (`unwritten`). The same happens to a message for an account that does not exist, which `Normal.c` does not check.
* `SoundWhenCalm` without its condition: in mode `cross` `PendingIsAnswerable` fails (`Accept.c:30`). In mode `fails` `FriendsMutual`
  fails, as the two lists are saved at different times (`datafile/friends.c:234`).
* `ScreenAgrees` without its exception for deletions fails: the row of a new group that reuses an
  id is sorted elsewhere (`AddGroup.c:83`). With `MaxInFlight` = 2 it fails too: one
  variable keeps the id to delete (`DeleteGroup.c:42`).
* `GroupOrder` with a user who both moves and deletes, `MaxInFlight` = 1: `GroupsLeaveByDelete` fails
  although each answer is waited for. A new group takes the id of one that was deleted, and its row, whose place is given by
  the id, is not where the server has the group; a later "up" names two groups in the order opposite to the
  server's, and `GroupMove.c:45` overwrites one as in finding 3.
* More than 20 messages while offline: the older ones are not delivered
  (`QueryOffline.c:15`, "不会丢的" at `ClientSockfd.c:216`); `MessageDelivery` marks it "overflow".
* `FileTransfer`: the end of a file is taken for success whatever its code, so a kick in mid-download
  leaves a short file that is shown as complete (`MainInterface.c:708`); `FilesAreWhole` therefore
  speaks of ends with the code "ok". The progress bar says that a file has been sent
  after a failure too (`chartmessage.c:237`, `255-266`). A failure at the end of an icon's upload calls
  `fclose(NULL)` (`Infomation.c:545`, `566`); `Quit` stands for what follows. An icon the server could not open is
  waited for at login for ever (`ClientSockfd.c:503`), and so is information about a friend it could not open; `TransfersGoOn` excepts both by name. An icon that is being
  fetched exists as a file already, so `FindImage` shows it partly fetched. Stored contents are not
  compared with their key. `StoreRequest.c:58-59` opens the temporary file twice and loses a descriptor.

* `AudioCall`, what `undefined` stands for. A call to a friend who is offline is answered with FAILURE before a
  thread was started, and `pthread_cancel` is called with 0 (`media.c:172`); the callee's FAILURE frees the entry of the
  thread that runs (`media.c:358`). A thread that gives up leaves its node, so a late READY or FAILURE uses the
  freed entry (`media.c:147`). The listener completes an operation that a deletion has
  cancelled since it found the key (`natTraversal.c:107`).
* `AudioCall`, `HeardBothWays` without its exception: a stack that holds a short `opAddrLen` (`media.c:110`, `305`)
  makes `recvfrom` store the address of the other end in part, `media.c:124` and `318` copy it, and the sound goes elsewhere
  (`media.c:154`, `343`).
* `AudioCall`, `WaitEnds` without its conditions: two ends whose sessions are both gone keep hearing each other and
  send for ever, as only silent seconds are counted; so does an end whose `opAddrLen` is negative garbage
  (`media.c:110`). The comment "equal to the local key" (`media.c:114`, `310`) stands at a comparison with the
  other's key.
* Also in the calls, and outside the properties: a refused or unanswered call leaves key and operation on
  the server until logout, and `UserOperationRegister` returns NULL after 1000 of them, unchecked
  (`NATRegister.c:61-63`); the button pressed during the negotiation does not stop it, and the sound starts later
  (`chart.c:287`); sockets are not closed.
* `ChatRecord`, `PagesAdjoin` without its conditions: two clicks before an answer put up to 16 rows into an array of 10
  (`ChartRecord.c:345-354`) or make pages that do not adjoin; with two pictures in a page the threads can overwrite each other's
  `imagecount` (`ChartRecord.c:241`), and a picture the server has lost is never counted down: the page is
  not shown, its `min_id` stays, and the page above it is skipped. A message of the second in which the window is
  opened is not on its first page (`ChartRecord.c:817`).
* Encryption is switched on after an online user is back in epoll (`SwitchProtocol.c:15`), and the bytes received are
  compared with `encryptedLength` without the two bytes in front (`init.c:425`); the client keeps its call commented
  out (`ClientSockfd.c:416-432`).

* Also seen, in code the modules leave out: `UserGC` walks the list of pending users, to which nobody is added, and compares times the
  wrong way round (`user.c:361`, `343`); deletion of a pending user does not close its descriptor (`user.c:430`); the workers are
  cancelled and not joined at shutdown (`server.c:73`); `DiscoverRefuse.c:19` uses a record after dropping it; the list of
  operations is changed without its lock (`operation.c:66`), and `UserFriendsGet` waits for one list with the table locked
  (`datafile/friends.c:198`), which matter with a second worker; `aio_return` is asked of a read that has not ended
  (`file/Request.c:44`).

## 7. Not modelled, and the plan

Not modelled: GTK windows, audio and video, SQL statements, log output, encryption
(no client turns it on), and the drivers in `*_test/`. `FileTransfer` leaves out the
locks of operations (one worker), the handlers of FileReset and Cancel (no client
sends either) and read errors of `aio`. `Friendship` leaves out searches by name;
`ChatRecord` a window opened again before the packets of the last one have come, and
messages of other kinds than text.

Most of the repository's C is not the program's own: `imcommon/sqlite3.c` and its header are 159,528 of
182,880 lines, and most of the client's are widgets and drawing. The
modules are about the 23,352 others.

The modules were written in the order of what breaks worst when it is wrong: queue, life
cycle, framing, then the data the server keeps. The next ones, in order:

1. Shutdown and garbage collection: `UserGC`, `UserManagerFinalize`, `server.c`.
2. The locks of `operation.c` with more than one worker.
3. Picture messages (`chartmessage.c:441-632`) and video calls (`FriendDiscover.c`, `DiscoverAccept.c`).
4. Packet encodings as pure functions: each `Cast` returns what its `Send` was given.
5. Encrypted framing, as a second mode of `PacketStream`.

Proofs follow the same order: of each new module first its types and the invariant that makes it safe.
