--------------------------- MODULE UserLifecycle ---------------------------
(***************************************************************************)
(* The life of a connection record on the server: accepted by the listener *)
(* (listener.c), greeted and logged in by a worker (worker.c, Hello.c,     *)
(* Login.c), entered in the table of online users, held while it is used,  *)
(* deleted when its client leaves, when the account logs in again or when  *)
(* the console kicks it (user.c, cli.c).                                   *)
(*                                                                         *)
(* The job queue is the line of JobService, which JobQueue implements.     *)
(* Steps are what other threads can come between: a call that takes and    *)
(* releases a lock, one epoll_ctl, one write to the record.                *)
(*                                                                         *)
(* C gives no meaning to a thread that follows a pointer to a freed record *)
(* or gives back a read lock it does not hold, so a behaviour of this      *)
(* module ends where that has become unavoidable (Undefined).  A pointer   *)
(* that only waits, in the batch or in the queue, is a number until then:  *)
(* its address may be another record's by the time it is followed.         *)
(***************************************************************************)
EXTENDS Integers, FiniteSets, Line

CONSTANTS Workers,     \* worker threads
          Listener,    \* the listener thread
          Admins,      \* threads that execute "kick" on the console (at most one)
          Conns,       \* addresses of connection records
          Uids,        \* accounts
          None,
          MaxClients,  \* CONFIG_MAX_CLIENTS
          Settings     \* what a behaviour may have at its disposal: a set of records
                       \* of the administrators who act, the records in use, and
                       \* whether an address is given out again that still waits

ASSUME LifecycleAssumption ==
  /\ Listener \notin Workers /\ Admins \intersect (Workers \union {Listener}) = {}
  /\ None \notin Conns \union Uids
  /\ MaxClients \in Nat \ {0}
  /\ Settings \subseteq [admins : SUBSET Admins, conns : SUBSET Conns, reuse : BOOLEAN]

VARIABLES st,       \* user->state of each record, "free" when it is not allocated
          uid,      \* user->uid, None before the login
          table,    \* OnlineUserTable
          count,    \* OnlineUserCount
          readers,  \* threads holding user->holdLock for reading
          writer,   \* threads holding it for writing
          armed,    \* records in serverIOPool
          batch,    \* events returned by epoll_wait, not handled yet
          jobs,     \* the job queue
          pc,       \* where each thread is
          cur,      \* the record a thread handles (its own packet's)
          other,    \* the record of another user it looked up, or one it deletes;
                    \* of a login, the address its record had before realloc
          want,     \* the account a login asks for
          setting   \* the member of Settings this behaviour has; it never changes

connVars == <<st, uid, readers, writer>>
tableVars == <<table, count>>
circuit == <<armed, batch, jobs>>
threadVars == <<pc, cur, other, want>>
vars == <<connVars, tableVars, circuit, threadVars, setting>>

-----------------------------------------------------------------------------

Threads == Workers \union {Listener} \union Admins
Queue == {jobs[i] : i \in DOMAIN jobs}
Pending == {"hello", "login"}

Goto(t, label) == pc' = [pc EXCEPT ![t] = label]

\* The next state of a thread: its label and the record it handles.
Leave(t) == /\ pc' = [pc EXCEPT ![t] = "idle"]
            /\ cur' = [cur EXCEPT ![t] = None]
            /\ UNCHANGED <<other, want>>

\* The records a thread is bound to follow its pointers to.  The listener has only to
\* push what it has in hand, and a login only to strike out its record's old address.
Uses(t) ==
  IF t = Listener THEN {}
  ELSE IF pc[t] \in {"reallocKick", "publish"} THEN {cur[t]}
  ELSE {cur[t], other[t]}

\* A pointer to freed memory is where it is bound to be followed or has been followed, or
\* a lock is about to be released by a thread that never took it.
Undefined ==
  \/ \E t \in Threads, r \in Conns : r \in Uses(t) /\ st[r] = "free"
  \/ \E t \in Threads : pc[t] = "astray"
  \/ \E t \in Threads : pc[t] = "drop" /\ st[cur[t]] = "online" /\ t \notin readers[cur[t]]

\* Thread t is about to execute the step called label.
At(t, label) == pc[t] = label /\ ~Undefined

\* OnlineUserHold: the read lock is tried only for an online user; a pending
\* one is simply taken.
Holdable(r) == st[r] # "online" \/ writer[r] = {}

Hold(t, r) == readers' = IF st[r] = "online" THEN [readers EXCEPT ![r] = @ \union {t}]
                                             ELSE readers

\* UserDrop.
Dropped(t, r) == IF st[r] = "online" THEN [readers EXCEPT ![r] = @ \ {t}] ELSE readers

\* OnlineUserGet(u): the table's record, if there is one and it can be held.
Found(u) == IF table[u] # None /\ Holdable(table[u]) THEN table[u] ELSE None

\* malloc may give out c.
Allocatable(c) ==
  /\ c \in setting.conns /\ st[c] = "free"
  /\ c \in batch \union Queue \union {cur[Listener]} => setting.reuse

-----------------------------------------------------------------------------

Init ==
  /\ st = [c \in Conns |-> "free"]
  /\ uid = [c \in Conns |-> None]
  /\ table = [u \in Uids |-> None]
  /\ count = 0
  /\ readers = [c \in Conns |-> {}]
  /\ writer = [c \in Conns |-> {}]
  /\ armed = {}
  /\ batch = {}
  /\ jobs = <<>>
  /\ pc = [t \in Threads |-> "idle"]
  /\ cur = [t \in Threads |-> None]
  /\ other = [t \in Threads |-> None]
  /\ want = [t \in Threads |-> None]
  /\ setting \in Settings

(* The listener. *)

\* UserNew and EpollAdd for an accepted connection.  OnlineUserCount is
\* unsigned: below zero it is beyond every limit.
Accept(c) ==
  /\ At(Listener, "idle") /\ Allocatable(c)
  /\ count \in 0 .. MaxClients - 1
  /\ st' = [st EXCEPT ![c] = "hello"]
  /\ armed' = armed \union {c}
  /\ UNCHANGED <<uid, readers, writer, tableVars, batch, jobs, threadVars, setting>>

EpollWait ==
  /\ At(Listener, "idle") /\ batch = {}
  /\ \E ready \in SUBSET armed \ {{}} : batch' = ready
  /\ UNCHANGED <<connVars, tableVars, armed, jobs, threadVars, setting>>

\* EpollRemove(events[i].data.ptr): the descriptor is read from the record.
Report(c) ==
  /\ At(Listener, "idle")
  /\ c \in batch
  /\ batch' = batch \ {c}
  /\ armed' = armed \ {c}
  /\ cur' = [cur EXCEPT ![Listener] = c]
  /\ Goto(Listener, IF st[c] = "free" THEN "astray" ELSE "push")
  /\ UNCHANGED <<connVars, tableVars, jobs, other, want, setting>>

Push ==
  /\ At(Listener, "push")
  /\ jobs' = Append(jobs, cur[Listener])
  /\ Leave(Listener)
  /\ UNCHANGED <<connVars, tableVars, armed, batch, setting>>

(* A worker takes a record and reads its next packet. *)

Pop(w) ==
  /\ At(w, "idle") /\ jobs # <<>>
  /\ LET c == Head(jobs) IN
       IF Holdable(c)
       THEN /\ Hold(w, c)
            /\ cur' = [cur EXCEPT ![w] = c]
            /\ Goto(w, "recv")
       ELSE UNCHANGED <<readers, cur, pc>>
  /\ jobs' = Tail(jobs)
  /\ UNCHANGED <<st, uid, writer, tableVars, armed, batch, other, want, setting>>

\* Mutant: EAGAIN does not arm the record again.
RecvNothingUnarmed(w) ==
  /\ At(w, "recv")
  /\ Goto(w, "drop")
  /\ UNCHANGED <<connVars, tableVars, circuit, cur, other, want, setting>>

\* CRPRecv has no whole packet yet (EAGAIN): arm the record again and drop it.
RecvNothing(w) ==
  /\ At(w, "recv")
  /\ armed' = armed \union {cur[w]}
  /\ Goto(w, "drop")
  /\ UNCHANGED <<connVars, tableVars, batch, jobs, cur, other, want, setting>>

\* CRPRecv fails, the client is gone: OnlineUserDelete(user).
RecvError(w) ==
  /\ At(w, "recv")
  /\ other' = [other EXCEPT ![w] = cur[w]]
  /\ Goto(w, "delete")
  /\ UNCHANGED <<connVars, tableVars, circuit, cur, want, setting>>

\* Mutant: every packet is treated like one of a pending user.
RecvPacketPending(w) ==
  /\ At(w, "recv")
  /\ Goto(w, st[cur[w]])
  /\ UNCHANGED <<connVars, tableVars, circuit, cur, other, want, setting>>

\* A packet.  An online user is armed again before the packet is processed, a
\* pending one is not: its handler has to do it.
RecvPacket(w) ==
  /\ At(w, "recv")
  /\ IF st[cur[w]] = "online"
     THEN armed' = armed \union {cur[w]} /\ Goto(w, "process")
     ELSE UNCHANGED armed /\ Goto(w, st[cur[w]])
  /\ UNCHANGED <<connVars, tableVars, batch, jobs, cur, other, want, setting>>

(* Packets of online users. *)

\* A handler that concerns this user only, then UserDrop.
ProcessOwn(w) ==
  /\ At(w, "process")
  /\ Goto(w, "drop")
  /\ UNCHANGED <<connVars, tableVars, circuit, cur, other, want, setting>>

\* A handler that sends something to another user's connection: PostMessage,
\* UserBroadcastNotify, the NET relays.  OnlineUserGet, send, UserDrop.
ProcessRelay(w, u) ==
  /\ At(w, "process")
  /\ Found(u) \notin {None, cur[w]}
  /\ other' = [other EXCEPT ![w] = Found(u)]
  /\ Hold(w, Found(u))
  /\ Goto(w, "relay")
  /\ UNCHANGED <<st, uid, writer, tableVars, circuit, cur, want, setting>>

\* Mutant: the handler returns without UserDrop(duser).
RelayDoneHolding(w) ==
  /\ At(w, "relay")
  /\ other' = [other EXCEPT ![w] = None]
  /\ Goto(w, "drop")
  /\ UNCHANGED <<connVars, tableVars, circuit, cur, want, setting>>

RelayDone(w) ==
  /\ At(w, "relay")
  /\ readers' = Dropped(w, other[w])
  /\ other' = [other EXCEPT ![w] = None]
  /\ Goto(w, "drop")
  /\ UNCHANGED <<st, uid, writer, tableVars, circuit, cur, want, setting>>

\* A handler returns 0, as Logout does: OnlineUserDelete(user).
ProcessQuit(w) ==
  /\ At(w, "process")
  /\ other' = [other EXCEPT ![w] = cur[w]]
  /\ Goto(w, "delete")
  /\ UNCHANGED <<connVars, tableVars, circuit, cur, want, setting>>

Drop(w) ==
  /\ At(w, "drop")
  /\ readers' = Dropped(w, cur[w])
  /\ Leave(w)
  /\ UNCHANGED <<st, uid, writer, tableVars, circuit, setting>>

(* Packets of pending users. *)

\* Hello: UserSetState(user, OUS_PENDING_LOGIN) ...
HelloSetState(w) ==
  /\ At(w, "hello")
  /\ st' = [st EXCEPT ![cur[w]] = "login"]
  /\ Goto(w, "helloArm")
  /\ UNCHANGED <<uid, readers, writer, tableVars, circuit, cur, other, want, setting>>

\* ... EpollAdd(user) ...
HelloArm(w) ==
  /\ At(w, "helloArm")
  /\ armed' = armed \union {cur[w]}
  /\ Goto(w, "helloOK")
  /\ UNCHANGED <<connVars, tableVars, batch, jobs, cur, other, want, setting>>

\* ... and CRPOKSend(user->crp) when the record may be in other hands already.
HelloOK(w) ==
  /\ At(w, "helloOK")
  /\ Leave(w)
  /\ UNCHANGED <<connVars, tableVars, circuit, setting>>

\* EpollAdd, the last thing Login, refused or not, and SwitchProtocol do.  The
\* worker does not drop a record that was pending (worker.c:87).
Arm(w) ==
  /\ At(w, "arm")
  /\ armed' = armed \union {cur[w]}
  /\ Leave(w)
  /\ UNCHANGED <<connVars, tableVars, batch, jobs, setting>>

\* Login with a wrong password, SwitchProtocol: nothing but EpollAdd.
LoginRefused(w) ==
  /\ At(w, "login")
  /\ Goto(w, "arm")
  /\ UNCHANGED <<connVars, tableVars, circuit, cur, other, want, setting>>

\* Register, KeepAlive, and packets refused with EACCES: the handler replies
\* and returns 1 without EpollAdd.
PendingOther(w) ==
  /\ pc[w] \in Pending /\ ~Undefined
  /\ Leave(w)
  /\ UNCHANGED <<connVars, tableVars, circuit, setting>>

\* A handler or ProcessUser returns 0: Hello out of turn, an unknown packet.
PendingQuit(w) ==
  /\ pc[w] \in Pending /\ ~Undefined
  /\ other' = [other EXCEPT ![w] = cur[w]]
  /\ Goto(w, "delete")
  /\ UNCHANGED <<connVars, tableVars, circuit, cur, want, setting>>

\* Mutant: Login does not ask for the account's present session.
LoginAuthBlind(w, u) ==
  /\ At(w, "login")
  /\ want' = [want EXCEPT ![w] = u]
  /\ Goto(w, "realloc")
  /\ UNCHANGED <<connVars, tableVars, circuit, cur, other, setting>>

\* Login, first half: AuthUser accepts; the account's present session, if
\* there is one, is told it is kicked and deleted.
LoginAuth(w, u) ==
  /\ At(w, "login")
  /\ want' = [want EXCEPT ![w] = u]
  /\ IF Found(u) # None
     THEN /\ Hold(w, Found(u))
          /\ other' = [other EXCEPT ![w] = Found(u)]
          /\ Goto(w, "delete")
     ELSE /\ UNCHANGED <<readers, other>>
          /\ Goto(w, "realloc")
  /\ UNCHANGED <<st, uid, writer, tableVars, circuit, cur, setting>>

\* UserSetState(user, OUS_ONLINE): the record may move when it grows ...
LoginRealloc(w, new) ==
  /\ At(w, "realloc")
  /\ LET old == cur[w] IN
     /\ new = old \/ Allocatable(new)
     /\ st' = [st EXCEPT ![old] = "free", ![new] = st[old]]
     /\ cur' = [cur EXCEPT ![w] = new]
     /\ other' = [other EXCEPT ![w] = old]
  /\ Goto(w, "reallocKick")
  /\ UNCHANGED <<uid, readers, writer, tableVars, circuit, want, setting>>

\* ... and the old address is kicked out of the queue, whosever it is by now ...
LoginReallocKick(w) ==
  /\ At(w, "reallocKick")
  /\ jobs' = Without(jobs, other[w])
  /\ Goto(w, "publish")
  /\ UNCHANGED <<connVars, tableVars, armed, batch, cur, other, want, setting>>

\* ... unless there is no memory, for the larger record or for what belongs to it:
\* PendingUserDelete is given the old address, of a record that has not moved or is gone
\* already.  UserSetState returns NULL, and Login and WorkerMain go on with the pointer.
LoginNoMemory(w) ==
  /\ At(w, "realloc") \/ At(w, "publish")
  /\ st' = IF other[w] \in {None, cur[w]} THEN [st EXCEPT ![cur[w]] = "free"] ELSE st
  /\ other' = [other EXCEPT ![w] = None]
  /\ want' = [want EXCEPT ![w] = None]
  /\ Goto(w, "astray")
  /\ UNCHANGED <<uid, readers, writer, tableVars, circuit, cur, setting>>

\* ... state = OUS_ONLINE and OnlineUserTableSet(user).
LoginPublish(w) ==
  /\ At(w, "publish")
  /\ st' = [st EXCEPT ![cur[w]] = "online"]
  /\ uid' = [uid EXCEPT ![cur[w]] = want[w]]
  /\ table' = [table EXCEPT ![want[w]] = cur[w]]
  /\ count' = count + 1
  /\ want' = [want EXCEPT ![w] = None]
  /\ other' = [other EXCEPT ![w] = None]
  /\ Goto(w, "arm")
  /\ UNCHANGED <<readers, writer, circuit, cur, setting>>

(* OnlineUserDelete(other[t]), by whichever thread. *)

\* Mutant: the worker goes on with the record it has deleted, to UserDrop.
AfterDeleteDrop(t) ==
  /\ other' = [other EXCEPT ![t] = None]
  /\ Goto(t, IF want[t] # None THEN "realloc" ELSE IF cur[t] # None THEN "drop" ELSE "idle")
  /\ UNCHANGED <<cur, want>>

\* The deleting thread goes on: a login to its second half, the rest is over.
AfterDelete(t) ==
  /\ other' = [other EXCEPT ![t] = None]
  /\ IF want[t] # None THEN Goto(t, "realloc") /\ UNCHANGED cur
     ELSE Goto(t, "idle") /\ cur' = [cur EXCEPT ![t] = None]
  /\ UNCHANGED want

\* PendingUserDelete: the record is freed at once; its socket is not closed.
DeletePending(t) ==
  /\ At(t, "delete") /\ st[other[t]] \in Pending
  /\ st' = [st EXCEPT ![other[t]] = "free"]
  /\ AfterDelete(t)
  /\ UNCHANGED <<uid, readers, writer, tableVars, circuit, setting>>

\* UserSetState(user, OUS_PENDING_CLEAN): OnlineUserTableRemove(user->uid) ...
DeleteTable(t) ==
  /\ At(t, "delete") /\ st[other[t]] = "online"
  /\ table' = [table EXCEPT ![uid[other[t]]] = None]
  /\ count' = count - 1
  /\ Goto(t, "delEpoll")
  /\ UNCHANGED <<connVars, circuit, cur, other, want, setting>>

\* ... EpollRemove(user) ...
DeleteEpoll(t) ==
  /\ At(t, "delEpoll")
  /\ armed' = armed \ {other[t]}
  /\ Goto(t, "delKick")
  /\ UNCHANGED <<connVars, tableVars, batch, jobs, cur, other, want, setting>>

\* ... JobManagerKick(user), and the OFFLINE broadcast.
DeleteKick(t) ==
  /\ At(t, "delKick")
  /\ jobs' = Without(jobs, other[t])
  /\ Goto(t, "delUnhold")
  /\ UNCHANGED <<connVars, tableVars, armed, batch, cur, other, want, setting>>

DeleteUnhold(t) ==
  /\ At(t, "delUnhold")
  /\ readers' = [readers EXCEPT ![other[t]] = @ \ {t}]
  /\ Goto(t, "delWait")
  /\ UNCHANGED <<st, uid, writer, tableVars, circuit, cur, other, want, setting>>

\* Mutant: the deleting thread does not wait for the others that hold the record.
DeleteWrlockAtOnce(t) ==
  /\ At(t, "delWait")
  /\ writer[other[t]] = {}
  /\ writer' = [writer EXCEPT ![other[t]] = {t}]
  /\ Goto(t, "delFree")
  /\ UNCHANGED <<st, uid, readers, tableVars, circuit, cur, other, want, setting>>

\* pthread_rwlock_wrlock(user->holdLock): until nobody holds the record.
DeleteWrlock(t) ==
  /\ At(t, "delWait")
  /\ readers[other[t]] = {} /\ writer[other[t]] = {}
  /\ writer' = [writer EXCEPT ![other[t]] = {t}]
  /\ Goto(t, "delFree")
  /\ UNCHANGED <<st, uid, readers, tableVars, circuit, cur, other, want, setting>>

\* CRPClose (closing the descriptor takes it out of epoll), save, free.
DeleteFree(t) ==
  /\ At(t, "delFree")
  /\ st' = [st EXCEPT ![other[t]] = "free"]
  /\ uid' = [uid EXCEPT ![other[t]] = None]
  /\ writer' = [writer EXCEPT ![other[t]] = {}]
  /\ armed' = armed \ {other[t]}
  /\ AfterDelete(t)
  /\ UNCHANGED <<readers, tableVars, batch, jobs, setting>>

\* "kick" on the console.
CLIKick(a, u) ==
  /\ At(a, "idle") /\ a \in setting.admins
  /\ Found(u) # None
  /\ other' = [other EXCEPT ![a] = Found(u)]
  /\ Hold(a, Found(u))
  /\ Goto(a, "delete")
  /\ UNCHANGED <<st, uid, writer, tableVars, circuit, cur, want, setting>>

-----------------------------------------------------------------------------

ListenerStep == \/ \E c \in Conns : Accept(c) \/ Report(c)
                \/ EpollWait
                \/ Push

PacketStep(w) ==
  \/ RecvNothing(w) \/ RecvError(w) \/ RecvPacket(w)
  \/ ProcessOwn(w) \/ RelayDone(w) \/ ProcessQuit(w) \/ Drop(w)
  \/ HelloSetState(w) \/ HelloArm(w) \/ HelloOK(w) \/ Arm(w)
  \/ LoginRefused(w) \/ PendingOther(w) \/ PendingQuit(w)
  \/ LoginReallocKick(w) \/ LoginNoMemory(w) \/ LoginPublish(w)
  \/ \E u \in Uids : ProcessRelay(w, u) \/ LoginAuth(w, u)
  \/ \E c \in Conns : LoginRealloc(w, c)

DeleteStep(t) ==
  \/ DeletePending(t) \/ DeleteTable(t) \/ DeleteEpoll(t) \/ DeleteKick(t)
  \/ DeleteUnhold(t) \/ DeleteWrlock(t) \/ DeleteFree(t)

Next ==
  \/ ListenerStep
  \/ \E w \in Workers : Pop(w) \/ PacketStep(w)
  \/ \E t \in Workers \union Admins : DeleteStep(t)
  \/ \E a \in Admins, u \in Uids : CLIKick(a, u)

Spec == Init /\ [][Next]_vars

\* Threads that have something to do keep doing it; the clients, the accept
\* queue and the console promise nothing.  A thread waiting to write-lock a
\* record gets the lock if the record is free of readers again and again.
FairSpec ==
  /\ Spec
  /\ \A w \in Workers : WF_vars(Pop(w) \/ PacketStep(w))
  /\ \A t \in Workers \union Admins : WF_vars(DeleteStep(t)) /\ SF_vars(DeleteWrlock(t))

-----------------------------------------------------------------------------

Labels == {"idle", "push", "recv", "process", "relay", "drop", "hello", "login",
           "arm", "helloArm", "helloOK", "realloc", "reallocKick", "publish", "delete", "delEpoll",
           "delKick", "delUnhold", "delWait", "delFree", "astray"}

TypeOK ==
  /\ st \in [Conns -> {"free", "hello", "login", "online"}]
  /\ uid \in [Conns -> Uids \union {None}]
  /\ table \in [Uids -> Conns \union {None}]
  /\ count \in Int
  /\ readers \in [Conns -> SUBSET Threads]
  /\ writer \in [Conns -> SUBSET Threads]
  /\ armed \subseteq Conns
  /\ batch \subseteq Conns
  /\ jobs \in Seq(Conns)
  /\ pc \in [Threads -> Labels]
  /\ cur \in [Threads -> Conns \union {None}]
  /\ other \in [Threads -> Conns \union {None}]
  /\ want \in [Threads -> Uids \union {None}]
  /\ setting \in Settings

\* Nobody kicks users on the console: the one worker does all deletions.
Unattended == setting.admins = {}

\* Between OnlineUserTableRemove and free, in OnlineUserDelete.
Deleting(c) == \E t \in Threads :
  other[t] = c /\ pc[t] \in {"delEpoll", "delKick", "delUnhold", "delWait", "delFree"}

\* OnlineUserCount is the number of accounts in the table.
CountIsTable == count = Cardinality({u \in Uids : table[u] # None})

\* A second record of an account exists only while the first is being deleted
\* (Login.c:26-32).
OneSession ==
  \A c, d \in Conns : st[c] = "online" /\ st[d] = "online" /\ uid[c] = uid[d] /\ c # d
                        => Deleting(c) \/ Deleting(d)

\* An account has one session, OnlineUserGet never returns a record that is freed, not
\* logged in, or of another account, however deletions and logins interleave
\* (user.c:243-294), and without the console the count that the accept limit relies on
\* stays right (listener.c:144).  With the console a session can be deleted twice, and
\* the count goes down twice.
TableSound ==
  /\ OneSession
  /\ \A u \in Uids : table[u] # None => st[table[u]] = "online" /\ uid[table[u]] = u
  /\ Unattended => CountIsTable

\* A logged-in connection is never forgotten: epoll watches it, or it is on
\* its way through the listener and the queue to a worker that will arm it
\* again, or it is being deleted (worker.c:54-62, jobs.c:58).
OnlineInCircuit ==
  \A c \in Conns : st[c] = "online" =>
    \/ c \in armed \union batch \union Queue \union {cur[Listener]}
    \/ \E w \in Workers : cur[w] = c /\ pc[w] \in {"recv", "arm"}
    \/ Deleting(c)
    \/ \E t \in Threads : other[t] = c /\ pc[t] = "delete"

\* Whoever holds a record has it in its hands, and it is not freed.
HoldsAccounted ==
  \A c \in Conns, t \in Threads : t \in readers[c] => st[c] = "online" /\ c \in {cur[t], other[t]}

\* The step that frees a record, in a deletion, a takeover or a realloc, leaves no worker
\* with it, but a login for which there is no memory.
FreedInNoHand ==
  Unattended => \A c \in Conns, w \in Workers :
    st[c] # "free" /\ st'[c] = "free" /\ c \in Uses(w)' => pc'[w] = "astray"

\* OnlineUserDelete "blocks the thread until the user is released" (user.h:153): it waits
\* for threads that will give their hold back, and no worker that got the record is left
\* with it when it is freed, if the console does not delete it too.  The one that is, is a
\* login for which there is no memory (user.c:513, Login.c:36, worker.c:72).
HoldsSound == [][HoldsAccounted' /\ FreedInNoHand]_vars

\* A record that is freed is in no queue and nobody's hands: "delete pending
\* jobs" (user.c:565) has seen to it.
FreedNotQueued == \A c \in Queue \union batch : st[c] # "free"

\* A deletion waiting for the holders to let go gets the record in the end.
DeletionCompletes ==
  \A t \in Workers \union Admins : (pc[t] = "delWait") ~> (pc[t] # "delWait" \/ Undefined)
=============================================================================
