-------------------------- MODULE UserLifecycleProofs --------------------------
(***************************************************************************)
(* Theorems about UserLifecycle, for every set of records and accounts and *)
(* every limit on clients.  But for TypeCorrect they are about one worker, *)
(* as config.h has it, and at most one console.                            *)
(*                                                                         *)
(* The invariant is LifeInv.  Each lemma <Part>Step says that a step keeps *)
(* one of its parts; the parts of Defined are kept as long as nobody is    *)
(* bound to follow a pointer to freed memory, and Next has no step after   *)
(* that.                                                                   *)
(***************************************************************************)
EXTENDS UserLifecycle, LineProofs, FiniteSetTheorems, TLAPS

\* OnlineUserDelete once the record is out of the table.
Closing == {"delEpoll", "delKick", "delUnhold", "delWait", "delFree"}
Deleters == Workers \union Admins

\* What each kind of thread does, and what it has in hand at each step.
Control ==
  /\ /\ pc[Listener] \in {"idle", "push", "astray"}
     /\ pc[Listener] # "idle" <=> cur[Listener] # None
     /\ other[Listener] = None
  /\ \A a \in Admins :
       /\ pc[a] \in {"idle", "delete"} \union Closing
       /\ pc[a] # "idle" => a \in setting.admins
       /\ cur[a] = None /\ want[a] = None
       /\ other[a] # None <=> pc[a] # "idle"
  /\ \A w \in Workers :
       /\ pc[w] # "push"
       /\ cur[w] # None <=> pc[w] # "idle"
       /\ other[w] # None <=> pc[w] \in {"relay", "reallocKick", "publish", "delete"} \union Closing
       /\ pc[w] \in {"realloc", "reallocKick", "publish"} => want[w] # None
       /\ want[w] # None => pc[w] \in {"realloc", "reallocKick", "publish", "delete"} \union Closing
       /\ want[w] = None /\ pc[w] \in {"delete"} \union Closing => other[w] = cur[w]

\* Type correctness needs Control: what a thread has in hand is put in table, jobs, armed.
Typed == TypeOK /\ Control

\* holdLock: a record about to be freed is in its deleter's hands only.
Locks ==
  /\ \A t \in Deleters : pc[t] = "delFree" => writer[other[t]] = {t} /\ readers[other[t]] = {}
  /\ \A c \in Conns : \A t \in writer[c] : t \in Deleters /\ pc[t] = "delFree" /\ other[t] = c

\* A worker does not hold a record that was pending when it was popped, and the listener
\* holds nothing.
NotHeld ==
  /\ \A w \in Workers :
       pc[w] \in {"hello", "helloArm", "helloOK", "login", "realloc", "publish", "arm"} \/ want[w] # None
         => w \notin readers[cur[w]]
  /\ \A w \in Workers : pc[w] \in {"reallocKick", "publish"} => w \notin readers[other[w]]
  /\ \A c \in Conns : Listener \notin readers[c]

\* The table leads to sessions that nobody has begun to close.
TableOpen == \A u \in Uids : table[u] # None =>
  st[table[u]] = "online" /\ uid[table[u]] = u /\ ~Deleting(table[u])

\* A session is of an account.
OnlineHasUid == \A c \in Conns : st[c] = "online" => uid[c] \in Uids

\* As long as nobody follows a pointer to freed memory:
PendingInHand == \A w \in Workers :
  /\ pc[w] = "hello" => st[cur[w]] = "hello"
  /\ pc[w] \in {"helloArm", "login"} \/ want[w] # None => st[cur[w]] = "login"
  /\ pc[w] = "reallocKick" => st[other[w]] # "online"

\* A record in deletion is a session, unless a worker deletes the one whose packet it handles.
DeletedOnline == \A t \in Deleters :
  pc[t] \in Closing \/ (pc[t] = "delete" /\ (want[t] # None \/ t \in Admins)) => st[other[t]] = "online"

\* A login has seen to the account's present session.
WantFree == \A w \in Workers : want[w] # None =>
  IF pc[w] = "delete" THEN uid[other[w]] = want[w] ELSE table[want[w]] = None

\* Two threads close one session.
DeletedTwice == \E t1, t2 \in Deleters :
  t1 # t2 /\ pc[t1] \in Closing /\ pc[t2] \in Closing /\ other[t1] = other[t2]

\* A session that nobody closes is in the table.
OnlineInTable == \A c \in Conns : st[c] = "online" =>
  Deleting(c) \/ table[uid[c]] = c \/ DeletedTwice

\* These parts fail once a pointer to freed memory is about to be followed.
Defined == PendingInHand /\ DeletedOnline /\ WantFree /\ OnlineInTable

LifeInv ==
  /\ Typed
  /\ Locks /\ HoldsAccounted /\ NotHeld
  /\ TableOpen /\ OnlineHasUid /\ OneSession
  /\ OnlineInCircuit
  /\ ~Undefined => Defined

\* The proofs are about one worker (config.h:8) and at most one console.
OneOfEach == (\A v, w \in Workers : v = w) /\ (\A a, b \in Admins : a = b)

-----------------------------------------------------------------------------
(* What the steps keep of types and control.                               *)

\* The variables keep their types.
LEMMA TypeStep ==
  ASSUME Typed, Next
  PROVE  TypeOK'
<1> USE LifecycleAssumption DEF Typed, TypeOK, Control, Threads, Deleters, Closing, Labels, At, Goto,
        Leave, connVars, tableVars, circuit, threadVars
<1>1. ASSUME NEW c \in Conns, Accept(c) PROVE TypeOK'
  BY <1>1 DEF Accept, Allocatable
<1>2. ASSUME EpollWait PROVE TypeOK'
  BY <1>2 DEF EpollWait
<1>3. ASSUME NEW c \in Conns, Report(c) PROVE TypeOK'
  BY <1>3 DEF Report
<1>4. ASSUME Push PROVE TypeOK'
  BY <1>4 DEF Push
<1>5. ASSUME NEW w \in Workers, Pop(w) PROVE TypeOK'
  <2>1. Head(jobs) \in Conns /\ Tail(jobs) \in Seq(Conns)
    BY <1>5 DEF Pop
  <2>2. readers' \in [Conns -> SUBSET Threads]
    BY <1>5, <2>1 DEF Pop, Hold
  <2>3. cur' \in [Threads -> Conns \union {None}]
    <3>1. CASE cur' = [cur EXCEPT ![w] = Head(jobs)]
      BY <2>1, <3>1
    <3>2. CASE cur' = cur
      BY <3>2
    <3> QED BY <1>5, <3>1, <3>2 DEF Pop
  <2>4. pc' \in [Threads -> Labels]
    <3>1. pc' = pc \/ pc' = [pc EXCEPT ![w] = "recv"]
      BY <1>5 DEF Pop
    <3> QED BY <3>1
  <2> QED BY <1>5, <2>1, <2>2, <2>3, <2>4 DEF Pop
<1>6. ASSUME NEW w \in Workers, RecvNothing(w) PROVE TypeOK'
  BY <1>6 DEF RecvNothing
<1>7. ASSUME NEW w \in Workers, RecvError(w) PROVE TypeOK'
  BY <1>7 DEF RecvError
<1>8. ASSUME NEW w \in Workers, RecvPacket(w) PROVE TypeOK'
  BY <1>8 DEF RecvPacket, Undefined, Uses
<1>9. ASSUME NEW w \in Workers, ProcessOwn(w) PROVE TypeOK'
  BY <1>9 DEF ProcessOwn
<1>10. ASSUME NEW w \in Workers, RelayDone(w) PROVE TypeOK'
  BY <1>10 DEF RelayDone, Dropped
<1>11. ASSUME NEW w \in Workers, ProcessQuit(w) PROVE TypeOK'
  BY <1>11 DEF ProcessQuit
<1>12. ASSUME NEW w \in Workers, Drop(w) PROVE TypeOK'
  BY <1>12 DEF Drop, Dropped
<1>13. ASSUME NEW w \in Workers, HelloSetState(w) PROVE TypeOK'
  BY <1>13 DEF HelloSetState
<1>14. ASSUME NEW w \in Workers, HelloArm(w) PROVE TypeOK'
  BY <1>14 DEF HelloArm
<1>15. ASSUME NEW w \in Workers, HelloOK(w) PROVE TypeOK'
  BY <1>15 DEF HelloOK
<1>16. ASSUME NEW w \in Workers, Arm(w) PROVE TypeOK'
  BY <1>16 DEF Arm
<1>17. ASSUME NEW w \in Workers, LoginRefused(w) PROVE TypeOK'
  BY <1>17 DEF LoginRefused
<1>18. ASSUME NEW w \in Workers, PendingOther(w) PROVE TypeOK'
  BY <1>18 DEF PendingOther, Pending
<1>19. ASSUME NEW w \in Workers, PendingQuit(w) PROVE TypeOK'
  BY <1>19 DEF PendingQuit, Pending
<1>20. ASSUME NEW w \in Workers, LoginPublish(w) PROVE TypeOK'
  BY <1>20 DEF LoginPublish
<1>21. ASSUME NEW w \in Workers, NEW u \in Uids, ProcessRelay(w, u) PROVE TypeOK'
  BY <1>21 DEF ProcessRelay, Found, Hold, Holdable
<1>22. ASSUME NEW w \in Workers, NEW u \in Uids, LoginAuth(w, u) PROVE TypeOK'
  <2>1. want' \in [Threads -> Uids \union {None}] /\ readers' \in [Conns -> SUBSET Threads]
    BY <1>22 DEF LoginAuth, Found, Hold, Holdable
  <2>2. other' \in [Threads -> Conns \union {None}]
    BY <1>22 DEF LoginAuth, Found
  <2>3. pc' \in [Threads -> Labels]
    <3>1. pc' = [pc EXCEPT ![w] = "delete"] \/ pc' = [pc EXCEPT ![w] = "realloc"]
      BY <1>22 DEF LoginAuth
    <3> QED BY <3>1
  <2> QED BY <1>22, <2>1, <2>2, <2>3 DEF LoginAuth
<1>23. ASSUME NEW w \in Workers, NEW c \in Conns, LoginRealloc(w, c) PROVE TypeOK'
  BY <1>23, WithoutType DEF LoginRealloc, Allocatable
<1>23a. ASSUME NEW w \in Workers, LoginReallocKick(w) PROVE TypeOK'
  <2>1. jobs' \in Seq(Conns)
    BY <1>23a, WithoutType DEF LoginReallocKick
  <2>2. pc' \in [Threads -> Labels]
    BY <1>23a DEF LoginReallocKick
  <2> QED BY <1>23a, <2>1, <2>2 DEF LoginReallocKick
<1>23b. ASSUME NEW w \in Workers, LoginNoMemory(w) PROVE TypeOK'
  BY <1>23b DEF LoginNoMemory
<1>24. ASSUME NEW t \in Deleters, DeletePending(t) PROVE TypeOK'
  BY <1>24 DEF DeletePending, AfterDelete, Pending
<1>25. ASSUME NEW t \in Deleters, DeleteTable(t) PROVE TypeOK'
  <2>1. table' \in [Uids -> Conns \union {None}]
    BY <1>25 DEF DeleteTable
  <2>2. count' \in Int
    BY <1>25 DEF DeleteTable
  <2> QED BY <1>25, <2>1, <2>2 DEF DeleteTable
<1>26. ASSUME NEW t \in Deleters, DeleteEpoll(t) PROVE TypeOK'
  BY <1>26 DEF DeleteEpoll
<1>27. ASSUME NEW t \in Deleters, DeleteKick(t) PROVE TypeOK'
  BY <1>27, WithoutType DEF DeleteKick
<1>28. ASSUME NEW t \in Deleters, DeleteUnhold(t) PROVE TypeOK'
  BY <1>28 DEF DeleteUnhold
<1>29. ASSUME NEW t \in Deleters, DeleteWrlock(t) PROVE TypeOK'
  BY <1>29 DEF DeleteWrlock
<1>30. ASSUME NEW t \in Deleters, DeleteFree(t) PROVE TypeOK'
  <2>1. st' \in [Conns -> {"free", "hello", "login", "online"}] /\ uid' \in [Conns -> Uids \union {None}]
    BY <1>30 DEF DeleteFree
  <2>2. writer' \in [Conns -> SUBSET Threads] /\ armed' \subseteq Conns
    BY <1>30 DEF DeleteFree
  <2>3. pc' \in [Threads -> Labels] /\ other' \in [Threads -> Conns \union {None}]
    BY <1>30, SMTT(60) DEF DeleteFree, AfterDelete
  <2>4. cur' \in [Threads -> Conns \union {None}] /\ want' = want
    BY <1>30 DEF DeleteFree, AfterDelete
  <2> QED BY <1>30, <2>1, <2>2, <2>3, <2>4 DEF DeleteFree
<1>31. ASSUME NEW a \in Admins, NEW u \in Uids, CLIKick(a, u) PROVE TypeOK'
  BY <1>31 DEF CLIKick, Found, Hold, Holdable
<1> QED
  BY <1>1, <1>2, <1>3, <1>4, <1>5, <1>6, <1>7, <1>8, <1>9, <1>10, <1>11, <1>12, <1>13, <1>14,
     <1>15, <1>16, <1>17, <1>18, <1>19, <1>20, <1>21, <1>22, <1>23, <1>23a, <1>23b, <1>24, <1>25, <1>26,
     <1>27, <1>28, <1>29, <1>30, <1>31
     DEF Next, ListenerStep, PacketStep, DeleteStep, Deleters

\* Every thread goes through its steps with the records in hand that they need.
LEMMA ControlStep ==
  ASSUME Typed, Next
  PROVE  Control'
<1> USE LifecycleAssumption DEF Typed, TypeOK, Control, Threads, Deleters, Closing, Labels, At, Goto,
        Leave, connVars, tableVars, circuit, threadVars
<1>1. ASSUME NEW c \in Conns, Accept(c) PROVE Control'
  BY <1>1 DEF Accept, Allocatable
<1>2. ASSUME EpollWait PROVE Control'
  BY <1>2 DEF EpollWait
<1>3. ASSUME NEW c \in Conns, Report(c) PROVE Control'
  BY <1>3 DEF Report
<1>4. ASSUME Push PROVE Control'
  BY <1>4 DEF Push
<1>5. ASSUME NEW w \in Workers, Pop(w) PROVE Control'
  <2>1. Head(jobs) \in Conns
    BY <1>5 DEF Pop
  <2>2. UNCHANGED <<other, want, setting>> /\ \A t \in Threads : t # w => pc'[t] = pc[t] /\ cur'[t] = cur[t]
    BY <1>5 DEF Pop
  <2>3. pc[w] = "idle" /\ ((pc'[w] = "recv" /\ cur'[w] \in Conns) \/ (pc' = pc /\ cur' = cur))
    BY <1>5, <2>1 DEF Pop
  <2> QED BY <2>2, <2>3
<1>6. ASSUME NEW w \in Workers, RecvNothing(w) PROVE Control'
  BY <1>6 DEF RecvNothing
<1>7. ASSUME NEW w \in Workers, RecvError(w) PROVE Control'
  BY <1>7 DEF RecvError
<1>8. ASSUME NEW w \in Workers, RecvPacket(w) PROVE Control'
  BY <1>8, SMTT(60) DEF RecvPacket, Undefined, Uses
<1>9. ASSUME NEW w \in Workers, ProcessOwn(w) PROVE Control'
  BY <1>9 DEF ProcessOwn
<1>10. ASSUME NEW w \in Workers, RelayDone(w) PROVE Control'
  BY <1>10 DEF RelayDone, Dropped
<1>11. ASSUME NEW w \in Workers, ProcessQuit(w) PROVE Control'
  BY <1>11 DEF ProcessQuit
<1>12. ASSUME NEW w \in Workers, Drop(w) PROVE Control'
  BY <1>12 DEF Drop, Dropped
<1>13. ASSUME NEW w \in Workers, HelloSetState(w) PROVE Control'
  BY <1>13 DEF HelloSetState
<1>14. ASSUME NEW w \in Workers, HelloArm(w) PROVE Control'
  BY <1>14 DEF HelloArm
<1>15. ASSUME NEW w \in Workers, HelloOK(w) PROVE Control'
  BY <1>15 DEF HelloOK
<1>16. ASSUME NEW w \in Workers, Arm(w) PROVE Control'
  BY <1>16 DEF Arm
<1>17. ASSUME NEW w \in Workers, LoginRefused(w) PROVE Control'
  BY <1>17 DEF LoginRefused
<1>18. ASSUME NEW w \in Workers, PendingOther(w) PROVE Control'
  BY <1>18 DEF PendingOther, Pending
<1>19. ASSUME NEW w \in Workers, PendingQuit(w) PROVE Control'
  BY <1>19 DEF PendingQuit, Pending
<1>20. ASSUME NEW w \in Workers, LoginPublish(w) PROVE Control'
  BY <1>20 DEF LoginPublish
<1>21. ASSUME NEW w \in Workers, NEW u \in Uids, ProcessRelay(w, u) PROVE Control'
  BY <1>21 DEF ProcessRelay, Found, Hold, Holdable
<1>22. ASSUME NEW w \in Workers, NEW u \in Uids, LoginAuth(w, u) PROVE Control'
  BY <1>22 DEF LoginAuth, Found, Hold, Holdable
<1>23. ASSUME NEW w \in Workers, NEW c \in Conns, LoginRealloc(w, c) PROVE Control'
  BY <1>23 DEF LoginRealloc, Allocatable
<1>23a. ASSUME NEW w \in Workers, LoginReallocKick(w) PROVE Control'
  BY <1>23a DEF LoginReallocKick
<1>23b. ASSUME NEW w \in Workers, LoginNoMemory(w) PROVE Control'
  BY <1>23b DEF LoginNoMemory
<1>24. ASSUME NEW t \in Deleters, DeletePending(t) PROVE Control'
  BY <1>24 DEF DeletePending, AfterDelete, Pending
<1>25. ASSUME NEW t \in Deleters, DeleteTable(t) PROVE Control'
  BY <1>25 DEF DeleteTable
<1>26. ASSUME NEW t \in Deleters, DeleteEpoll(t) PROVE Control'
  BY <1>26 DEF DeleteEpoll
<1>27. ASSUME NEW t \in Deleters, DeleteKick(t) PROVE Control'
  BY <1>27 DEF DeleteKick
<1>28. ASSUME NEW t \in Deleters, DeleteUnhold(t) PROVE Control'
  BY <1>28 DEF DeleteUnhold
<1>29. ASSUME NEW t \in Deleters, DeleteWrlock(t) PROVE Control'
  BY <1>29 DEF DeleteWrlock
<1>30. ASSUME NEW t \in Deleters, DeleteFree(t) PROVE Control'
  BY <1>30 DEF DeleteFree, AfterDelete
<1>31. ASSUME NEW a \in Admins, NEW u \in Uids, CLIKick(a, u) PROVE Control'
  BY <1>31 DEF CLIKick, Found, Hold, Holdable
<1> QED
  BY <1>1, <1>2, <1>3, <1>4, <1>5, <1>6, <1>7, <1>8, <1>9, <1>10, <1>11, <1>12, <1>13, <1>14,
     <1>15, <1>16, <1>17, <1>18, <1>19, <1>20, <1>21, <1>22, <1>23, <1>23a, <1>23b, <1>24, <1>25, <1>26,
     <1>27, <1>28, <1>29, <1>30, <1>31
     DEF Next, ListenerStep, PacketStep, DeleteStep, Deleters

-----------------------------------------------------------------------------
(* Lemmas for the parts below.                                             *)

\* What a thread has in hand is a record.
LEMMA InHand ==
  ASSUME Typed
  PROVE  /\ \A t \in Deleters : pc[t] \in {"delete"} \union Closing => other[t] \in Conns
         /\ \A w \in Workers : pc[w] # "idle" => cur[w] \in Conns
<1>1. ASSUME NEW t \in Workers PROVE pc[t] \in {"delete"} \union Closing => other[t] \in Conns
  BY DEF Typed, TypeOK, Control, Threads
<1>2. ASSUME NEW t \in Admins, pc[t] \in {"delete"} \union Closing PROVE other[t] \in Conns
  <2>1. pc[t] # "idle"
    BY <1>2 DEF Closing
  <2> QED BY <2>1 DEF Typed, TypeOK, Control, Threads
<1>3. ASSUME NEW w \in Workers PROVE pc[w] # "idle" => cur[w] \in Conns
  BY DEF Typed, TypeOK, Control, Threads
<1> QED BY <1>1, <1>2, <1>3 DEF Deleters

\* A packet is for the handlers of the record's state.
LEMMA PacketFor ==
  ASSUME Typed, NEW w \in Workers, RecvPacket(w)
  PROVE  /\ pc' = [pc EXCEPT ![w] = pc'[w]] /\ pc'[w] \in {"process", "hello", "login"}
         /\ UNCHANGED <<st, uid, readers, writer, tableVars, other, cur, want>>
<1>1. cur[w] \in Conns /\ st[cur[w]] \in {"hello", "login", "online"}
  <2>1. w \in Threads /\ w # Listener /\ pc[w] = "recv" /\ ~Undefined
    BY LifecycleAssumption DEF RecvPacket, At, Threads
  <2>2. cur[w] \in Conns
    BY <2>1, InHand
  <2>3. st[cur[w]] # "free"
    BY <2>1, <2>2 DEF Undefined, Uses
  <2> QED BY <2>2, <2>3 DEF Typed, TypeOK
<1>2. w \in Threads /\ pc \in [Threads -> Labels]
  BY DEF Typed, TypeOK, Threads
<1> QED BY <1>1, <1>2 DEF RecvPacket, Goto, connVars

\* A record that is write-locked is in deletion.
LEMMA WriterDeletes ==
  ASSUME Locks, NEW c \in Conns, writer[c] # {}
  PROVE  Deleting(c)
BY DEF Locks, Deleting, Deleters, Threads

\* A deletion that nobody gives up or finishes goes on.
LEMMA StillDeleting ==
  ASSUME Typed, \A t \in Deleters : pc[t] \in Closing => pc'[t] \in Closing /\ other'[t] = other[t]
  PROVE  (\A c \in Conns : Deleting(c) => Deleting(c)') /\ (DeletedTwice => DeletedTwice')
<1>1. \A t \in Threads : pc[t] \in Closing => t \in Deleters
  BY DEF Typed, Control, Closing, Threads, Deleters
<1>2. Deleters \subseteq Threads
  BY DEF Deleters, Threads
<1>3. ASSUME NEW c \in Conns, Deleting(c) PROVE Deleting(c)'
  BY <1>1, <1>2, <1>3 DEF Deleting, Closing
<1>4. ASSUME DeletedTwice PROVE DeletedTwice'
  BY <1>4 DEF DeletedTwice
<1> QED BY <1>3, <1>4

-----------------------------------------------------------------------------
(* holdLock.                                                               *)

\* OnlineUserHold does not get a record whose deleter has the write lock.
LEMMA HoldKeepsLocks ==
  ASSUME Typed, Locks, NEW t, NEW r \in Conns, Holdable(r), Hold(t, r)
  PROVE  \A d \in Deleters : pc[d] = "delFree" => readers'[other[d]] = {}
<1> SUFFICES ASSUME NEW d \in Deleters, pc[d] = "delFree" PROVE readers'[other[d]] = {}
  OBVIOUS
<1>1. other[d] \in Conns
  BY InHand DEF Closing
<1>2. d \in writer[other[d]] /\ readers[other[d]] = {}
  BY DEF Locks
<1>3. st[r] = "online" => r # other[d]
  BY <1>2 DEF Holdable
<1> QED BY <1>1, <1>2, <1>3 DEF Hold, Typed, TypeOK

\* A record that a look-up returns can be held.
LEMMA FoundIsHoldable ==
  ASSUME Typed, NEW u \in Uids, Found(u) # None
  PROVE  Found(u) \in Conns /\ Found(u) = table[u] /\ Holdable(Found(u))
<1> QED BY DEF Typed, TypeOK, Found

\* Nobody gets hold of a record between its write lock and its release, and only the
\* thread that frees it has the lock.
LEMMA LocksStep ==
  ASSUME Typed, Locks, Next
  PROVE  Locks'
<1> USE LifecycleAssumption DEF Locks, Typed, TypeOK, Control, Threads, Deleters, Closing, At, Goto,
        Leave, connVars, tableVars, circuit, threadVars
<1>1. ASSUME NEW c \in Conns, Accept(c) PROVE Locks'
  BY <1>1 DEF Accept, Allocatable
<1>2. ASSUME EpollWait PROVE Locks'
  BY <1>2 DEF EpollWait
<1>3. ASSUME NEW c \in Conns, Report(c) PROVE Locks'
  BY <1>3 DEF Report
<1>4. ASSUME Push PROVE Locks'
  BY <1>4 DEF Push
<1>5. ASSUME NEW w \in Workers, Pop(w) PROVE Locks'
  <2>1. Head(jobs) \in Conns
    BY <1>5 DEF Pop
  <2>2. \A d \in Deleters : pc'[d] = "delFree" <=> pc[d] = "delFree"
    BY <1>5 DEF Pop
  <2>3. \A d \in Deleters : pc[d] = "delFree" => readers'[other[d]] = {}
    <3>1. (Holdable(Head(jobs)) /\ Hold(w, Head(jobs))) \/ readers' = readers
      BY <1>5 DEF Pop
    <3> HIDE DEF Typed, Locks
    <3>3. Typed /\ Locks /\ \A d \in Deleters : pc[d] = "delFree" => readers[other[d]] = {}
      BY DEF Locks
    <3>4. CASE readers' = readers
      BY <3>3, <3>4
    <3>5. CASE Holdable(Head(jobs)) /\ Hold(w, Head(jobs))
      BY <2>1, <3>3, <3>5, HoldKeepsLocks
    <3> QED BY <3>1, <3>4, <3>5
  <2>4. /\ writer' = writer /\ other' = other
        /\ \A c \in Conns : \A t \in writer[c] : t \in Deleters /\ pc[t] = "delFree" /\ other[t] = c
        /\ \A t \in Deleters : pc[t] = "delFree" => writer[other[t]] = {t}
    BY <1>5 DEF Pop
  <2> HIDE DEF Typed, Control, TypeOK
  <2>5. \A t \in Deleters : pc'[t] = "delFree" => writer'[other'[t]] = {t} /\ readers'[other'[t]] = {}
    BY <2>2, <2>3, <2>4
  <2>6. \A c \in Conns : \A t \in writer'[c] : t \in Deleters /\ pc'[t] = "delFree" /\ other'[t] = c
    BY <2>2, <2>4
  <2> QED BY <2>5, <2>6
<1>6. ASSUME NEW w \in Workers, RecvNothing(w) PROVE Locks'
  BY <1>6 DEF RecvNothing
<1>7. ASSUME NEW w \in Workers, RecvError(w) PROVE Locks'
  BY <1>7 DEF RecvError
<1>8. ASSUME NEW w \in Workers, RecvPacket(w) PROVE Locks'
  BY <1>8, SMTT(60) DEF RecvPacket, Undefined, Uses
<1>9. ASSUME NEW w \in Workers, ProcessOwn(w) PROVE Locks'
  BY <1>9 DEF ProcessOwn
<1>10. ASSUME NEW w \in Workers, RelayDone(w) PROVE Locks'
  BY <1>10 DEF RelayDone, Dropped
<1>11. ASSUME NEW w \in Workers, ProcessQuit(w) PROVE Locks'
  BY <1>11 DEF ProcessQuit
<1>12. ASSUME NEW w \in Workers, Drop(w) PROVE Locks'
  BY <1>12 DEF Drop, Dropped
<1>13. ASSUME NEW w \in Workers, HelloSetState(w) PROVE Locks'
  BY <1>13 DEF HelloSetState
<1>14. ASSUME NEW w \in Workers, HelloArm(w) PROVE Locks'
  BY <1>14 DEF HelloArm
<1>15. ASSUME NEW w \in Workers, HelloOK(w) PROVE Locks'
  BY <1>15 DEF HelloOK
<1>16. ASSUME NEW w \in Workers, Arm(w) PROVE Locks'
  BY <1>16 DEF Arm
<1>17. ASSUME NEW w \in Workers, LoginRefused(w) PROVE Locks'
  BY <1>17 DEF LoginRefused
<1>18. ASSUME NEW w \in Workers, PendingOther(w) PROVE Locks'
  BY <1>18 DEF PendingOther, Pending
<1>19. ASSUME NEW w \in Workers, PendingQuit(w) PROVE Locks'
  BY <1>19 DEF PendingQuit, Pending
<1>20. ASSUME NEW w \in Workers, LoginPublish(w) PROVE Locks'
  BY <1>20 DEF LoginPublish
<1>21. ASSUME NEW w \in Workers, NEW u \in Uids, ProcessRelay(w, u) PROVE Locks'
  <2>1. \A d \in Deleters : pc'[d] = "delFree" => pc[d] = "delFree" /\ other'[d] = other[d]
    BY <1>21 DEF ProcessRelay
  <2>2. \A d \in Deleters : pc[d] = "delFree" => readers'[other[d]] = {} /\ other'[d] = other[d] /\ pc'[d] = "delFree"
    BY <1>21, FoundIsHoldable, HoldKeepsLocks DEF ProcessRelay
  <2> QED BY <1>21, <2>1, <2>2, ZenonT(60) DEF ProcessRelay
<1>22. ASSUME NEW w \in Workers, NEW u \in Uids, LoginAuth(w, u) PROVE Locks'
  <2>1. \A d \in Deleters : pc'[d] = "delFree" => pc[d] = "delFree" /\ other'[d] = other[d]
    BY <1>22 DEF LoginAuth
  <2>2. \A d \in Deleters : pc[d] = "delFree" => other'[d] = other[d] /\ pc'[d] = "delFree"
    BY <1>22 DEF LoginAuth
  <2>3. \A d \in Deleters : pc[d] = "delFree" => readers'[other[d]] = {}
    <3>1. (Found(u) # None /\ Hold(w, Found(u))) \/ readers' = readers
      BY <1>22 DEF LoginAuth
    <3> HIDE DEF Typed, Locks
    <3>3. Typed /\ Locks /\ \A d \in Deleters : pc[d] = "delFree" => readers[other[d]] = {}
      BY DEF Locks
    <3>4. CASE readers' = readers
      BY <3>3, <3>4
    <3>5. CASE Found(u) # None /\ Hold(w, Found(u))
      BY <3>3, <3>5, FoundIsHoldable, HoldKeepsLocks
    <3> QED BY <3>1, <3>4, <3>5
  <2>4. writer' = writer /\ \A c \in Conns : \A t \in writer[c] : t \in Deleters /\ pc[t] = "delFree" /\ other[t] = c
    BY <1>22 DEF LoginAuth
  <2> HIDE DEF Typed, Control, TypeOK
  <2>5. \A t \in Deleters : pc'[t] = "delFree" => writer'[other'[t]] = {t} /\ readers'[other'[t]] = {}
    BY <2>1, <2>2, <2>3, <2>4
  <2>6. \A c \in Conns : \A t \in writer'[c] : t \in Deleters /\ pc'[t] = "delFree" /\ other'[t] = c
    BY <2>2, <2>4
  <2> QED BY <2>5, <2>6
<1>23. ASSUME NEW w \in Workers, NEW c \in Conns, LoginRealloc(w, c) PROVE Locks'
  BY <1>23 DEF LoginRealloc, Allocatable
<1>23a. ASSUME NEW w \in Workers, LoginReallocKick(w) PROVE Locks'
  BY <1>23a DEF LoginReallocKick
<1>23b. ASSUME NEW w \in Workers, LoginNoMemory(w) PROVE Locks'
  BY <1>23b DEF LoginNoMemory
<1>24. ASSUME NEW t \in Deleters, DeletePending(t) PROVE Locks'
  BY <1>24 DEF DeletePending, AfterDelete, Pending
<1>25. ASSUME NEW t \in Deleters, DeleteTable(t) PROVE Locks'
  BY <1>25 DEF DeleteTable
<1>26. ASSUME NEW t \in Deleters, DeleteEpoll(t) PROVE Locks'
  BY <1>26 DEF DeleteEpoll
<1>27. ASSUME NEW t \in Deleters, DeleteKick(t) PROVE Locks'
  BY <1>27 DEF DeleteKick
<1>28. ASSUME NEW t \in Deleters, DeleteUnhold(t) PROVE Locks'
  BY <1>28 DEF DeleteUnhold
<1>29. ASSUME NEW t \in Deleters, DeleteWrlock(t) PROVE Locks'
  <2>1. other[t] \in Conns /\ writer' = [writer EXCEPT ![other[t]] = {t}] /\ writer[other[t]] = {}
    BY <1>29 DEF DeleteWrlock
  <2>2. \A d \in Deleters : pc'[d] = "delFree" <=> pc[d] = "delFree" \/ d = t
    BY <1>29 DEF DeleteWrlock
  <2>3. \A d \in Deleters : pc[d] = "delFree" => other[d] # other[t]
    <3>1. \A d \in Deleters : pc[d] = "delFree" => d \in writer[other[d]]
      OBVIOUS
    <3> QED BY <2>1, <3>1
  <2> QED BY <1>29, <2>1, <2>2, <2>3 DEF DeleteWrlock
<1>30. ASSUME NEW t \in Deleters, DeleteFree(t) PROVE Locks'
  <2>1. other[t] \in Conns /\ writer' = [writer EXCEPT ![other[t]] = {}] /\ writer[other[t]] = {t}
    BY <1>30 DEF DeleteFree
  <2>2. \A d \in Deleters : pc'[d] = "delFree" <=> pc[d] = "delFree" /\ d # t
    BY <1>30 DEF DeleteFree, AfterDelete
  <2>3. \A d \in Deleters : pc[d] = "delFree" /\ d # t => other'[d] = other[d] /\ other[d] # other[t]
    <3>1. \A d \in Deleters : pc[d] = "delFree" => writer[other[d]] = {d}
      OBVIOUS
    <3>2. \A d \in Deleters : pc[d] = "delFree" /\ d # t => other[d] # other[t]
      BY <2>1, <3>1
    <3>3. \A d \in Deleters : d # t => other'[d] = other[d]
      BY <1>30 DEF DeleteFree, AfterDelete
    <3> QED BY <3>2, <3>3
  <2> QED BY <1>30, <2>1, <2>2, <2>3 DEF DeleteFree
<1>31. ASSUME NEW a \in Admins, NEW u \in Uids, CLIKick(a, u) PROVE Locks'
  <2>1. \A d \in Deleters : pc'[d] = "delFree" => pc[d] = "delFree" /\ other'[d] = other[d]
    BY <1>31 DEF CLIKick
  <2>2. \A d \in Deleters : pc[d] = "delFree" => other'[d] = other[d] /\ pc'[d] = "delFree"
    BY <1>31 DEF CLIKick
  <2>3. \A d \in Deleters : pc[d] = "delFree" => readers'[other[d]] = {}
    <3>1. Found(u) # None /\ Hold(a, Found(u))
      BY <1>31 DEF CLIKick
    <3> HIDE DEF Typed, Locks
    <3> QED BY <3>1, FoundIsHoldable, HoldKeepsLocks
  <2>4. writer' = writer /\ \A c \in Conns : \A t \in writer[c] : t \in Deleters /\ pc[t] = "delFree" /\ other[t] = c
    BY <1>31 DEF CLIKick
  <2>5. \A t \in Deleters : pc[t] = "delFree" => writer[other[t]] = {t}
    OBVIOUS
  <2> HIDE DEF Typed, Control, TypeOK
  <2>6. \A t \in Deleters : pc'[t] = "delFree" => writer'[other'[t]] = {t} /\ readers'[other'[t]] = {}
    BY <2>1, <2>2, <2>3, <2>4, <2>5
  <2>7. \A c \in Conns : \A t \in writer'[c] : t \in Deleters /\ pc'[t] = "delFree" /\ other'[t] = c
    BY <2>2, <2>4
  <2> QED BY <2>6, <2>7
<1> QED
  BY <1>1, <1>2, <1>3, <1>4, <1>5, <1>6, <1>7, <1>8, <1>9, <1>10, <1>11, <1>12, <1>13, <1>14,
     <1>15, <1>16, <1>17, <1>18, <1>19, <1>20, <1>21, <1>22, <1>23, <1>23a, <1>23b, <1>24, <1>25, <1>26,
     <1>27, <1>28, <1>29, <1>30, <1>31
     DEF Next, ListenerStep, PacketStep, DeleteStep, Deleters

\* A thread that holds a record keeps it in hand until it drops it.
LEMMA HoldsStep ==
  ASSUME OneOfEach, Typed, Locks, HoldsAccounted, NotHeld, PendingInHand, Next
  PROVE  HoldsAccounted'
<1> USE LifecycleAssumption DEF OneOfEach, Locks, HoldsAccounted, NotHeld, PendingInHand, Typed, TypeOK, Control, Threads, Deleters, Closing, At, Goto,
        Leave, connVars, tableVars, circuit, threadVars
<1>1. ASSUME NEW c \in Conns, Accept(c) PROVE HoldsAccounted'
  BY <1>1 DEF Accept, Allocatable
<1>2. ASSUME EpollWait PROVE HoldsAccounted'
  BY <1>2 DEF EpollWait
<1>3. ASSUME NEW c \in Conns, Report(c) PROVE HoldsAccounted'
  BY <1>3 DEF Report
<1>4. ASSUME Push PROVE HoldsAccounted'
  BY <1>4 DEF Push
<1>5. ASSUME NEW w \in Workers, Pop(w) PROVE HoldsAccounted'
  BY <1>5 DEF Pop, Hold, Holdable
<1>6. ASSUME NEW w \in Workers, RecvNothing(w) PROVE HoldsAccounted'
  BY <1>6 DEF RecvNothing
<1>7. ASSUME NEW w \in Workers, RecvError(w) PROVE HoldsAccounted'
  <2>1. other'[w] = cur[w] /\ cur' = cur /\ readers' = readers /\ st' = st /\ other[w] = None
    BY <1>7 DEF RecvError
  <2>2. \A t \in Threads : t # w => other'[t] = other[t]
    BY <1>7 DEF RecvError
  <2> HIDE DEF OneOfEach, Locks, NotHeld, PendingInHand, Typed, TypeOK, Control
  <2> QED BY <2>1, <2>2
<1>8. ASSUME NEW w \in Workers, RecvPacket(w) PROVE HoldsAccounted'
  BY <1>8 DEF RecvPacket, Undefined, Uses
<1>9. ASSUME NEW w \in Workers, ProcessOwn(w) PROVE HoldsAccounted'
  BY <1>9 DEF ProcessOwn
<1>10. ASSUME NEW w \in Workers, RelayDone(w) PROVE HoldsAccounted'
  BY <1>10 DEF RelayDone, Dropped
<1>11. ASSUME NEW w \in Workers, ProcessQuit(w) PROVE HoldsAccounted'
  <2>1. other'[w] = cur[w] /\ cur' = cur /\ readers' = readers /\ st' = st /\ other[w] = None
    BY <1>11 DEF ProcessQuit
  <2>2. \A t \in Threads : t # w => other'[t] = other[t]
    BY <1>11 DEF ProcessQuit
  <2> HIDE DEF OneOfEach, Locks, NotHeld, PendingInHand, Typed, TypeOK, Control
  <2> QED BY <2>1, <2>2
<1>12. ASSUME NEW w \in Workers, Drop(w) PROVE HoldsAccounted'
  BY <1>12 DEF Drop, Dropped
<1>13. ASSUME NEW w \in Workers, HelloSetState(w) PROVE HoldsAccounted'
  BY <1>13 DEF HelloSetState
<1>14. ASSUME NEW w \in Workers, HelloArm(w) PROVE HoldsAccounted'
  BY <1>14 DEF HelloArm
<1>15. ASSUME NEW w \in Workers, HelloOK(w) PROVE HoldsAccounted'
  BY <1>15 DEF HelloOK
<1>16. ASSUME NEW w \in Workers, Arm(w) PROVE HoldsAccounted'
  BY <1>16 DEF Arm
<1>17. ASSUME NEW w \in Workers, LoginRefused(w) PROVE HoldsAccounted'
  BY <1>17 DEF LoginRefused
<1>18. ASSUME NEW w \in Workers, PendingOther(w) PROVE HoldsAccounted'
  BY <1>18 DEF PendingOther, Pending
<1>19. ASSUME NEW w \in Workers, PendingQuit(w) PROVE HoldsAccounted'
  <2>1. other'[w] = cur[w] /\ cur' = cur /\ readers' = readers /\ st' = st /\ other[w] = None
    BY <1>19 DEF PendingQuit, Pending
  <2>2. \A t \in Threads : t # w => other'[t] = other[t]
    BY <1>19 DEF PendingQuit
  <2> HIDE DEF OneOfEach, Locks, NotHeld, PendingInHand, Typed, TypeOK, Control
  <2> QED BY <2>1, <2>2
<1>20. ASSUME NEW w \in Workers, LoginPublish(w) PROVE HoldsAccounted'
  BY <1>20 DEF LoginPublish
<1>21. ASSUME NEW w \in Workers, NEW u \in Uids, ProcessRelay(w, u) PROVE HoldsAccounted'
  BY <1>21 DEF ProcessRelay, Found, Hold, Holdable
<1>22. ASSUME NEW w \in Workers, NEW u \in Uids, LoginAuth(w, u) PROVE HoldsAccounted'
  BY <1>22 DEF LoginAuth, Found, Hold, Holdable
<1>23. ASSUME NEW w \in Workers, NEW c \in Conns, LoginRealloc(w, c) PROVE HoldsAccounted'
  BY <1>23 DEF LoginRealloc, Allocatable
<1>23a. ASSUME NEW w \in Workers, LoginReallocKick(w) PROVE HoldsAccounted'
  BY <1>23a DEF LoginReallocKick
<1>23b. ASSUME NEW w \in Workers, LoginNoMemory(w) PROVE HoldsAccounted'
  BY <1>23b DEF LoginNoMemory
<1>24. ASSUME NEW t \in Deleters, DeletePending(t) PROVE HoldsAccounted'
  BY <1>24 DEF DeletePending, AfterDelete, Pending
<1>25. ASSUME NEW t \in Deleters, DeleteTable(t) PROVE HoldsAccounted'
  BY <1>25 DEF DeleteTable
<1>26. ASSUME NEW t \in Deleters, DeleteEpoll(t) PROVE HoldsAccounted'
  BY <1>26 DEF DeleteEpoll
<1>27. ASSUME NEW t \in Deleters, DeleteKick(t) PROVE HoldsAccounted'
  BY <1>27 DEF DeleteKick
<1>28. ASSUME NEW t \in Deleters, DeleteUnhold(t) PROVE HoldsAccounted'
  BY <1>28 DEF DeleteUnhold
<1>29. ASSUME NEW t \in Deleters, DeleteWrlock(t) PROVE HoldsAccounted'
  BY <1>29 DEF DeleteWrlock
<1>30. ASSUME NEW t \in Deleters, DeleteFree(t) PROVE HoldsAccounted'
  BY <1>30 DEF DeleteFree, AfterDelete
<1>31. ASSUME NEW a \in Admins, NEW u \in Uids, CLIKick(a, u) PROVE HoldsAccounted'
  BY <1>31 DEF CLIKick, Found, Hold, Holdable
<1> QED
  BY <1>1, <1>2, <1>3, <1>4, <1>5, <1>6, <1>7, <1>8, <1>9, <1>10, <1>11, <1>12, <1>13, <1>14,
     <1>15, <1>16, <1>17, <1>18, <1>19, <1>20, <1>21, <1>22, <1>23, <1>23a, <1>23b, <1>24, <1>25, <1>26,
     <1>27, <1>28, <1>29, <1>30, <1>31
     DEF Next, ListenerStep, PacketStep, DeleteStep, Deleters

\* A worker whose record was pending when it was popped does not hold it; until the record
\* is dropped or left, nobody makes it an online one and takes the lock for it.
LEMMA NotHeldStep ==
  ASSUME OneOfEach, Typed, HoldsAccounted, NotHeld, TableOpen, PendingInHand, Next
  PROVE  NotHeld'
<1> USE LifecycleAssumption DEF OneOfEach, HoldsAccounted, NotHeld, TableOpen, PendingInHand, Typed, TypeOK, Control, Threads, Deleters, Closing, At, Goto,
        Leave, connVars, tableVars, circuit, threadVars
<1>1. ASSUME NEW c \in Conns, Accept(c) PROVE NotHeld'
  BY <1>1 DEF Accept, Allocatable
<1>2. ASSUME EpollWait PROVE NotHeld'
  BY <1>2 DEF EpollWait
<1>3. ASSUME NEW c \in Conns, Report(c) PROVE NotHeld'
  BY <1>3 DEF Report
<1>4. ASSUME Push PROVE NotHeld'
  BY <1>4 DEF Push
<1>5. ASSUME NEW w \in Workers, Pop(w) PROVE NotHeld'
  <2>1. pc'[w] \in {"idle", "recv"} /\ want' = want /\ want[w] = None
    <3>1. pc[w] = "idle" /\ want' = want /\ (pc' = pc \/ pc' = [pc EXCEPT ![w] = "recv"])
      BY <1>5 DEF Pop
    <3>2. want[w] = None
      BY <3>1
    <3> QED BY <3>1, <3>2
  <2>2. \A c \in Conns : Listener \notin readers'[c]
    BY <1>5 DEF Pop, Hold
  <2>3. \A v \in Workers : v = w
    OBVIOUS
  <2> QED BY <2>1, <2>2, <2>3
<1>6. ASSUME NEW w \in Workers, RecvNothing(w) PROVE NotHeld'
  BY <1>6 DEF RecvNothing
<1>7. ASSUME NEW w \in Workers, RecvError(w) PROVE NotHeld'
  BY <1>7 DEF RecvError
<1>8. ASSUME NEW w \in Workers, RecvPacket(w) PROVE NotHeld'
  BY <1>8 DEF RecvPacket, Undefined, Uses
<1>9. ASSUME NEW w \in Workers, ProcessOwn(w) PROVE NotHeld'
  BY <1>9 DEF ProcessOwn
<1>10. ASSUME NEW w \in Workers, RelayDone(w) PROVE NotHeld'
  BY <1>10 DEF RelayDone, Dropped
<1>11. ASSUME NEW w \in Workers, ProcessQuit(w) PROVE NotHeld'
  BY <1>11 DEF ProcessQuit
<1>12. ASSUME NEW w \in Workers, Drop(w) PROVE NotHeld'
  <2>1. \A v \in Workers : v = w
    OBVIOUS
  <2>2. pc'[w] = "idle" /\ want'[w] = None
    BY <1>12 DEF Drop
  <2>3. \A c \in Conns : readers'[c] \subseteq readers[c]
    BY <1>12 DEF Drop, Dropped
  <2> HIDE DEF Typed, TypeOK, Control, HoldsAccounted, TableOpen, PendingInHand, OneOfEach
  <2> QED BY <2>1, <2>2, <2>3
<1>13. ASSUME NEW w \in Workers, HelloSetState(w) PROVE NotHeld'
  BY <1>13 DEF HelloSetState
<1>14. ASSUME NEW w \in Workers, HelloArm(w) PROVE NotHeld'
  BY <1>14 DEF HelloArm
<1>15. ASSUME NEW w \in Workers, HelloOK(w) PROVE NotHeld'
  BY <1>15 DEF HelloOK
<1>16. ASSUME NEW w \in Workers, Arm(w) PROVE NotHeld'
  BY <1>16 DEF Arm
<1>17. ASSUME NEW w \in Workers, LoginRefused(w) PROVE NotHeld'
  BY <1>17 DEF LoginRefused
<1>18. ASSUME NEW w \in Workers, PendingOther(w) PROVE NotHeld'
  <2>1. \A v \in Workers : v # w => pc'[v] = pc[v] /\ cur'[v] = cur[v]
    BY <1>18 DEF PendingOther
  <2>2. pc'[w] = "idle" /\ want[w] = None
    BY <1>18 DEF PendingOther, Pending
  <2> QED BY <1>18, <2>1, <2>2 DEF PendingOther
<1>19. ASSUME NEW w \in Workers, PendingQuit(w) PROVE NotHeld'
  BY <1>19 DEF PendingQuit, Pending
<1>20. ASSUME NEW w \in Workers, LoginPublish(w) PROVE NotHeld'
  BY <1>20 DEF LoginPublish
<1>21. ASSUME NEW w \in Workers, NEW u \in Uids, ProcessRelay(w, u) PROVE NotHeld'
  BY <1>21 DEF ProcessRelay, Found, Hold, Holdable
<1>22. ASSUME NEW w \in Workers, NEW u \in Uids, LoginAuth(w, u) PROVE NotHeld'
  BY <1>22 DEF LoginAuth, Found, Hold, Holdable
<1>23. ASSUME NEW w \in Workers, NEW c \in Conns, LoginRealloc(w, c) PROVE NotHeld'
  BY <1>23 DEF LoginRealloc, Allocatable
<1>23a. ASSUME NEW w \in Workers, LoginReallocKick(w) PROVE NotHeld'
  BY <1>23a DEF LoginReallocKick
<1>23b. ASSUME NEW w \in Workers, LoginNoMemory(w) PROVE NotHeld'
  BY <1>23b DEF LoginNoMemory
<1>24. ASSUME NEW t \in Deleters, DeletePending(t) PROVE NotHeld'
  BY <1>24 DEF DeletePending, AfterDelete, Pending
<1>25. ASSUME NEW t \in Deleters, DeleteTable(t) PROVE NotHeld'
  BY <1>25 DEF DeleteTable
<1>26. ASSUME NEW t \in Deleters, DeleteEpoll(t) PROVE NotHeld'
  BY <1>26 DEF DeleteEpoll
<1>27. ASSUME NEW t \in Deleters, DeleteKick(t) PROVE NotHeld'
  BY <1>27 DEF DeleteKick
<1>28. ASSUME NEW t \in Deleters, DeleteUnhold(t) PROVE NotHeld'
  BY <1>28 DEF DeleteUnhold
<1>29. ASSUME NEW t \in Deleters, DeleteWrlock(t) PROVE NotHeld'
  BY <1>29 DEF DeleteWrlock
<1>30. ASSUME NEW t \in Deleters, DeleteFree(t) PROVE NotHeld'
  BY <1>30 DEF DeleteFree, AfterDelete
<1>31. ASSUME NEW a \in Admins, NEW u \in Uids, CLIKick(a, u) PROVE NotHeld'
  <2>1. Found(u) \in Conns /\ a \notin Workers /\ a # Listener
    BY <1>31, FoundIsHoldable DEF CLIKick
  <2>2. Hold(a, Found(u)) /\ UNCHANGED <<cur, want>>
    BY <1>31 DEF CLIKick
  <2>3. \A w \in Workers : pc'[w] = pc[w]
    BY <1>31, <2>1 DEF CLIKick
  <2>4. \A c \in Conns : readers'[c] \subseteq readers[c] \union {a}
    BY <2>1, <2>2 DEF Hold
  <2>5. \A w \in Workers : cur[w] # None => cur[w] \in Conns
    OBVIOUS
  <2>6. \A w \in Workers : pc[w] \in {"hello", "helloArm", "helloOK", "login", "realloc", "publish", "arm"} \/ want[w] # None
                             => cur[w] # None
    OBVIOUS
  <2>7. \A w \in Workers : pc[w] \in {"reallocKick", "publish"} => other[w] \in Conns /\ w \notin readers[other[w]]
    OBVIOUS
  <2>8. (\A w \in Workers : other'[w] = other[w]) /\ NotHeld
    BY <1>31, <2>1 DEF CLIKick
  <2> HIDE DEF OneOfEach, HoldsAccounted, TableOpen, PendingInHand, Typed, TypeOK, Control
  <2> QED BY <2>1, <2>2, <2>3, <2>4, <2>5, <2>6, <2>7, <2>8
<1> QED
  BY <1>1, <1>2, <1>3, <1>4, <1>5, <1>6, <1>7, <1>8, <1>9, <1>10, <1>11, <1>12, <1>13, <1>14,
     <1>15, <1>16, <1>17, <1>18, <1>19, <1>20, <1>21, <1>22, <1>23, <1>23a, <1>23b, <1>24, <1>25, <1>26,
     <1>27, <1>28, <1>29, <1>30, <1>31
     DEF Next, ListenerStep, PacketStep, DeleteStep, Deleters

-----------------------------------------------------------------------------
(* The table of online users.                                              *)

\* OnlineUserTableRemove comes before everything else in a deletion, OnlineUserTableSet
\* after the record is online.
LEMMA TableStep ==
  ASSUME OneOfEach, Typed, TableOpen, PendingInHand, DeletedOnline, Next
  PROVE  TableOpen'
<1> USE LifecycleAssumption DEF OneOfEach, TableOpen, Deleting, PendingInHand, DeletedOnline, Typed, TypeOK, Control, Threads, Deleters, Closing, At, Goto,
        Leave, connVars, tableVars, circuit, threadVars
<1>1. ASSUME NEW c \in Conns, Accept(c) PROVE TableOpen'
  BY <1>1 DEF Accept, Allocatable
<1>2. ASSUME EpollWait PROVE TableOpen'
  BY <1>2 DEF EpollWait
<1>3. ASSUME NEW c \in Conns, Report(c) PROVE TableOpen'
  BY <1>3 DEF Report
<1>4. ASSUME Push PROVE TableOpen'
  BY <1>4 DEF Push
<1>5. ASSUME NEW w \in Workers, Pop(w) PROVE TableOpen'
  BY <1>5 DEF Pop, Hold, Holdable
<1>6. ASSUME NEW w \in Workers, RecvNothing(w) PROVE TableOpen'
  BY <1>6 DEF RecvNothing
<1>7. ASSUME NEW w \in Workers, RecvError(w) PROVE TableOpen'
  BY <1>7 DEF RecvError
<1>8. ASSUME NEW w \in Workers, RecvPacket(w) PROVE TableOpen'
  BY <1>8 DEF RecvPacket, Undefined, Uses
<1>9. ASSUME NEW w \in Workers, ProcessOwn(w) PROVE TableOpen'
  BY <1>9 DEF ProcessOwn
<1>10. ASSUME NEW w \in Workers, RelayDone(w) PROVE TableOpen'
  BY <1>10 DEF RelayDone, Dropped
<1>11. ASSUME NEW w \in Workers, ProcessQuit(w) PROVE TableOpen'
  BY <1>11 DEF ProcessQuit
<1>12. ASSUME NEW w \in Workers, Drop(w) PROVE TableOpen'
  BY <1>12 DEF Drop, Dropped
<1>13. ASSUME NEW w \in Workers, HelloSetState(w) PROVE TableOpen'
  BY <1>13 DEF HelloSetState
<1>14. ASSUME NEW w \in Workers, HelloArm(w) PROVE TableOpen'
  BY <1>14 DEF HelloArm
<1>15. ASSUME NEW w \in Workers, HelloOK(w) PROVE TableOpen'
  BY <1>15 DEF HelloOK
<1>16. ASSUME NEW w \in Workers, Arm(w) PROVE TableOpen'
  BY <1>16 DEF Arm
<1>17. ASSUME NEW w \in Workers, LoginRefused(w) PROVE TableOpen'
  BY <1>17 DEF LoginRefused
<1>18. ASSUME NEW w \in Workers, PendingOther(w) PROVE TableOpen'
  BY <1>18 DEF PendingOther, Pending
<1>19. ASSUME NEW w \in Workers, PendingQuit(w) PROVE TableOpen'
  BY <1>19 DEF PendingQuit, Pending
<1>20. ASSUME NEW w \in Workers, LoginPublish(w) PROVE TableOpen'
  BY <1>20 DEF LoginPublish
<1>21. ASSUME NEW w \in Workers, NEW u \in Uids, ProcessRelay(w, u) PROVE TableOpen'
  BY <1>21 DEF ProcessRelay, Found, Hold, Holdable
<1>22. ASSUME NEW w \in Workers, NEW u \in Uids, LoginAuth(w, u) PROVE TableOpen'
  BY <1>22 DEF LoginAuth, Found, Hold, Holdable
<1>23. ASSUME NEW w \in Workers, NEW c \in Conns, LoginRealloc(w, c) PROVE TableOpen'
  BY <1>23 DEF LoginRealloc, Allocatable
<1>23a. ASSUME NEW w \in Workers, LoginReallocKick(w) PROVE TableOpen'
  BY <1>23a DEF LoginReallocKick
<1>23b. ASSUME NEW w \in Workers, LoginNoMemory(w) PROVE TableOpen'
  BY <1>23b DEF LoginNoMemory
<1>24. ASSUME NEW t \in Deleters, DeletePending(t) PROVE TableOpen'
  BY <1>24 DEF DeletePending, AfterDelete, Pending
<1>25. ASSUME NEW t \in Deleters, DeleteTable(t) PROVE TableOpen'
  BY <1>25 DEF DeleteTable
<1>26. ASSUME NEW t \in Deleters, DeleteEpoll(t) PROVE TableOpen'
  BY <1>26 DEF DeleteEpoll
<1>27. ASSUME NEW t \in Deleters, DeleteKick(t) PROVE TableOpen'
  BY <1>27 DEF DeleteKick
<1>28. ASSUME NEW t \in Deleters, DeleteUnhold(t) PROVE TableOpen'
  BY <1>28 DEF DeleteUnhold
<1>29. ASSUME NEW t \in Deleters, DeleteWrlock(t) PROVE TableOpen'
  BY <1>29 DEF DeleteWrlock
<1>30. ASSUME NEW t \in Deleters, DeleteFree(t) PROVE TableOpen'
  BY <1>30 DEF DeleteFree, AfterDelete
<1>31. ASSUME NEW a \in Admins, NEW u \in Uids, CLIKick(a, u) PROVE TableOpen'
  BY <1>31 DEF CLIKick, Found, Hold, Holdable
<1> QED
  BY <1>1, <1>2, <1>3, <1>4, <1>5, <1>6, <1>7, <1>8, <1>9, <1>10, <1>11, <1>12, <1>13, <1>14, ZenonT(60),
     <1>15, <1>16, <1>17, <1>18, <1>19, <1>20, <1>21, <1>22, <1>23, <1>23a, <1>23b, <1>24, <1>25, <1>26,
     <1>27, <1>28, <1>29, <1>30, <1>31
     DEF Next, ListenerStep, PacketStep, DeleteStep, Deleters

\* uid is set with the state and cleared with it.
LEMMA UidStep ==
  ASSUME OneOfEach, Typed, OnlineHasUid, PendingInHand, Next
  PROVE  OnlineHasUid'
<1> USE LifecycleAssumption DEF OneOfEach, OnlineHasUid, PendingInHand, Typed, TypeOK, Control, Threads, Deleters, Closing, At, Goto,
        Leave, connVars, tableVars, circuit, threadVars
<1>1. ASSUME NEW c \in Conns, Accept(c) PROVE OnlineHasUid'
  BY <1>1 DEF Accept, Allocatable
<1>2. ASSUME EpollWait PROVE OnlineHasUid'
  BY <1>2 DEF EpollWait
<1>3. ASSUME NEW c \in Conns, Report(c) PROVE OnlineHasUid'
  BY <1>3 DEF Report
<1>4. ASSUME Push PROVE OnlineHasUid'
  BY <1>4 DEF Push
<1>5. ASSUME NEW w \in Workers, Pop(w) PROVE OnlineHasUid'
  BY <1>5 DEF Pop, Hold, Holdable
<1>6. ASSUME NEW w \in Workers, RecvNothing(w) PROVE OnlineHasUid'
  BY <1>6 DEF RecvNothing
<1>7. ASSUME NEW w \in Workers, RecvError(w) PROVE OnlineHasUid'
  BY <1>7 DEF RecvError
<1>8. ASSUME NEW w \in Workers, RecvPacket(w) PROVE OnlineHasUid'
  BY <1>8 DEF RecvPacket, Undefined, Uses
<1>9. ASSUME NEW w \in Workers, ProcessOwn(w) PROVE OnlineHasUid'
  BY <1>9 DEF ProcessOwn
<1>10. ASSUME NEW w \in Workers, RelayDone(w) PROVE OnlineHasUid'
  BY <1>10 DEF RelayDone, Dropped
<1>11. ASSUME NEW w \in Workers, ProcessQuit(w) PROVE OnlineHasUid'
  BY <1>11 DEF ProcessQuit
<1>12. ASSUME NEW w \in Workers, Drop(w) PROVE OnlineHasUid'
  BY <1>12 DEF Drop, Dropped
<1>13. ASSUME NEW w \in Workers, HelloSetState(w) PROVE OnlineHasUid'
  BY <1>13 DEF HelloSetState
<1>14. ASSUME NEW w \in Workers, HelloArm(w) PROVE OnlineHasUid'
  BY <1>14 DEF HelloArm
<1>15. ASSUME NEW w \in Workers, HelloOK(w) PROVE OnlineHasUid'
  BY <1>15 DEF HelloOK
<1>16. ASSUME NEW w \in Workers, Arm(w) PROVE OnlineHasUid'
  BY <1>16 DEF Arm
<1>17. ASSUME NEW w \in Workers, LoginRefused(w) PROVE OnlineHasUid'
  BY <1>17 DEF LoginRefused
<1>18. ASSUME NEW w \in Workers, PendingOther(w) PROVE OnlineHasUid'
  BY <1>18 DEF PendingOther, Pending
<1>19. ASSUME NEW w \in Workers, PendingQuit(w) PROVE OnlineHasUid'
  BY <1>19 DEF PendingQuit, Pending
<1>20. ASSUME NEW w \in Workers, LoginPublish(w) PROVE OnlineHasUid'
  BY <1>20 DEF LoginPublish
<1>21. ASSUME NEW w \in Workers, NEW u \in Uids, ProcessRelay(w, u) PROVE OnlineHasUid'
  BY <1>21 DEF ProcessRelay, Found, Hold, Holdable
<1>22. ASSUME NEW w \in Workers, NEW u \in Uids, LoginAuth(w, u) PROVE OnlineHasUid'
  BY <1>22 DEF LoginAuth, Found, Hold, Holdable
<1>23. ASSUME NEW w \in Workers, NEW c \in Conns, LoginRealloc(w, c) PROVE OnlineHasUid'
  BY <1>23 DEF LoginRealloc, Allocatable
<1>23a. ASSUME NEW w \in Workers, LoginReallocKick(w) PROVE OnlineHasUid'
  BY <1>23a DEF LoginReallocKick
<1>23b. ASSUME NEW w \in Workers, LoginNoMemory(w) PROVE OnlineHasUid'
  BY <1>23b DEF LoginNoMemory
<1>24. ASSUME NEW t \in Deleters, DeletePending(t) PROVE OnlineHasUid'
  BY <1>24 DEF DeletePending, AfterDelete, Pending
<1>25. ASSUME NEW t \in Deleters, DeleteTable(t) PROVE OnlineHasUid'
  BY <1>25 DEF DeleteTable
<1>26. ASSUME NEW t \in Deleters, DeleteEpoll(t) PROVE OnlineHasUid'
  BY <1>26 DEF DeleteEpoll
<1>27. ASSUME NEW t \in Deleters, DeleteKick(t) PROVE OnlineHasUid'
  BY <1>27 DEF DeleteKick
<1>28. ASSUME NEW t \in Deleters, DeleteUnhold(t) PROVE OnlineHasUid'
  BY <1>28 DEF DeleteUnhold
<1>29. ASSUME NEW t \in Deleters, DeleteWrlock(t) PROVE OnlineHasUid'
  BY <1>29 DEF DeleteWrlock
<1>30. ASSUME NEW t \in Deleters, DeleteFree(t) PROVE OnlineHasUid'
  BY <1>30 DEF DeleteFree, AfterDelete
<1>31. ASSUME NEW a \in Admins, NEW u \in Uids, CLIKick(a, u) PROVE OnlineHasUid'
  BY <1>31 DEF CLIKick, Found, Hold, Holdable
<1> QED
  BY <1>1, <1>2, <1>3, <1>4, <1>5, <1>6, <1>7, <1>8, <1>9, <1>10, <1>11, <1>12, <1>13, <1>14,
     <1>15, <1>16, <1>17, <1>18, <1>19, <1>20, <1>21, <1>22, <1>23, <1>23a, <1>23b, <1>24, <1>25, <1>26,
     <1>27, <1>28, <1>29, <1>30, <1>31
     DEF Next, ListenerStep, PacketStep, DeleteStep, Deleters

\* LoginPublish finds no other session of the account but one that is being deleted.
LEMMA OneSessionStep ==
  ASSUME OneOfEach, Typed, TableOpen, OneSession, PendingInHand, DeletedOnline, WantFree, OnlineInTable, Next
  PROVE  OneSession'
<1> USE LifecycleAssumption DEF OneOfEach, TableOpen, Deleting, DeletedTwice, PendingInHand, DeletedOnline, WantFree, OnlineInTable, OneSession, Typed, TypeOK, Control, Threads, Deleters, Closing, At, Goto,
        Leave, connVars, tableVars, circuit, threadVars
<1>1. ASSUME NEW c \in Conns, Accept(c) PROVE OneSession'
  BY <1>1 DEF Accept, Allocatable
<1>2. ASSUME EpollWait PROVE OneSession'
  BY <1>2 DEF EpollWait
<1>3. ASSUME NEW c \in Conns, Report(c) PROVE OneSession'
  BY <1>3 DEF Report
<1>4. ASSUME Push PROVE OneSession'
  BY <1>4 DEF Push
<1>5. ASSUME NEW w \in Workers, Pop(w) PROVE OneSession'
  BY <1>5 DEF Pop, Hold, Holdable
<1>6. ASSUME NEW w \in Workers, RecvNothing(w) PROVE OneSession'
  BY <1>6 DEF RecvNothing
<1>7. ASSUME NEW w \in Workers, RecvError(w) PROVE OneSession'
  BY <1>7 DEF RecvError
<1>8. ASSUME NEW w \in Workers, RecvPacket(w) PROVE OneSession'
  <2> HIDE DEF Typed, TypeOK, Control, Deleting, Closing, Deleters, Threads, tableVars
  <2>1. pc \in [Threads -> Labels] /\ Workers \subseteq Threads /\ Deleters \subseteq Threads
    BY DEF Typed, TypeOK, Threads, Deleters
  <2>2. \A d \in Deleters : pc[d] \in Closing => pc'[d] \in Closing /\ other'[d] = other[d]
    <3>1. pc[w] \notin Closing
      BY <1>8 DEF RecvPacket, Closing
    <3> QED BY <1>8, <2>1, <3>1, PacketFor
  <2>3. \A d \in Conns : Deleting(d) => Deleting(d)'
    BY <2>2, StillDeleting
  <2>4. st' = st /\ uid' = uid
    BY <1>8, PacketFor
  <2> QED BY <2>3, <2>4
<1>9. ASSUME NEW w \in Workers, ProcessOwn(w) PROVE OneSession'
  BY <1>9 DEF ProcessOwn
<1>10. ASSUME NEW w \in Workers, RelayDone(w) PROVE OneSession'
  BY <1>10 DEF RelayDone, Dropped
<1>11. ASSUME NEW w \in Workers, ProcessQuit(w) PROVE OneSession'
  BY <1>11 DEF ProcessQuit
<1>12. ASSUME NEW w \in Workers, Drop(w) PROVE OneSession'
  BY <1>12 DEF Drop, Dropped
<1>13. ASSUME NEW w \in Workers, HelloSetState(w) PROVE OneSession'
  BY <1>13 DEF HelloSetState
<1>14. ASSUME NEW w \in Workers, HelloArm(w) PROVE OneSession'
  BY <1>14 DEF HelloArm
<1>15. ASSUME NEW w \in Workers, HelloOK(w) PROVE OneSession'
  BY <1>15 DEF HelloOK
<1>16. ASSUME NEW w \in Workers, Arm(w) PROVE OneSession'
  BY <1>16 DEF Arm
<1>17. ASSUME NEW w \in Workers, LoginRefused(w) PROVE OneSession'
  BY <1>17 DEF LoginRefused
<1>18. ASSUME NEW w \in Workers, PendingOther(w) PROVE OneSession'
  BY <1>18 DEF PendingOther, Pending
<1>19. ASSUME NEW w \in Workers, PendingQuit(w) PROVE OneSession'
  BY <1>19 DEF PendingQuit, Pending
<1>20. ASSUME NEW w \in Workers, LoginPublish(w) PROVE OneSession'
  <2>1. \A d \in Deleters : pc[d] \in Closing => pc'[d] \in Closing /\ other'[d] = other[d]
    BY <1>20 DEF LoginPublish
  <2>2. (\A c \in Conns : Deleting(c) => Deleting(c)') /\ (DeletedTwice => DeletedTwice')
    <3> HIDE DEF Typed, Closing, Deleting, DeletedTwice
    <3> QED BY <2>1, StillDeleting
  <2>3. cur[w] \in Conns /\ want[w] \in Uids /\ table[want[w]] = None
    BY <1>20 DEF LoginPublish
  <2>4. /\ \A c \in Conns : c # cur[w] => st'[c] = st[c] /\ uid'[c] = uid[c]
        /\ uid'[cur[w]] = want[w]
    BY <1>20, <2>3 DEF LoginPublish
  <2>5. ~DeletedTwice
    <3>1. pc[w] = "publish" /\ \A v \in Workers : v = w
      BY <1>20 DEF LoginPublish
    <3> QED BY <3>1 DEF DeletedTwice
  <2>6. ASSUME NEW c \in Conns, st[c] = "online", uid[c] = want[w] PROVE Deleting(c)
    <3>1. Deleting(c) \/ table[uid[c]] = c
      BY <2>5, <2>6
    <3> QED BY <2>3, <2>6, <3>1, LifecycleAssumption
  <2>7. \A c, d \in Conns : st[c] = "online" /\ st[d] = "online" /\ uid[c] = uid[d] /\ c # d
                              => Deleting(c) \/ Deleting(d)
    OBVIOUS
  <2> HIDE DEF Deleting, DeletedTwice, Closing, Typed, Control
  <2> QED BY <2>2, <2>3, <2>4, <2>6, <2>7
<1>21. ASSUME NEW w \in Workers, NEW u \in Uids, ProcessRelay(w, u) PROVE OneSession'
  BY <1>21 DEF ProcessRelay, Found, Hold, Holdable
<1>22. ASSUME NEW w \in Workers, NEW u \in Uids, LoginAuth(w, u) PROVE OneSession'
  BY <1>22, SMTT(60) DEF LoginAuth, Found, Hold, Holdable
<1>23. ASSUME NEW w \in Workers, NEW c \in Conns, LoginRealloc(w, c) PROVE OneSession'
  <2>1. \A d \in Conns : st'[d] = "online" => st[d] = "online"
    BY <1>23 DEF LoginRealloc, Allocatable
  <2>2. \A d \in Deleters : pc[d] \in Closing => pc'[d] \in Closing /\ other'[d] = other[d]
    BY <1>23 DEF LoginRealloc
  <2>3. \A d \in Conns : Deleting(d) => Deleting(d)'
    <3> HIDE DEF Typed, Closing, Deleting, DeletedTwice
    <3> QED BY <2>2, StillDeleting
  <2>4. uid' = uid /\ OneSession
    BY <1>23 DEF LoginRealloc
  <2> HIDE DEF Deleting, Typed, TypeOK, Control, Closing
  <2> QED BY <2>1, <2>3, <2>4
<1>23a. ASSUME NEW w \in Workers, LoginReallocKick(w) PROVE OneSession'
  BY <1>23a DEF LoginReallocKick
<1>23b. ASSUME NEW w \in Workers, LoginNoMemory(w) PROVE OneSession'
  BY <1>23b DEF LoginNoMemory
<1>24. ASSUME NEW t \in Deleters, DeletePending(t) PROVE OneSession'
  <2>1. \A d \in Deleters : pc[d] \in Closing => pc'[d] \in Closing /\ other'[d] = other[d]
    BY <1>24 DEF DeletePending, AfterDelete
  <2>2. \A c \in Conns : Deleting(c) => Deleting(c)'
    <3> HIDE DEF Typed, Closing, Deleting, DeletedTwice
    <3> QED BY <2>1, StillDeleting
  <2>3. (\A c \in Conns : st'[c] = "online" => st[c] = "online") /\ uid' = uid
    BY <1>24 DEF DeletePending
  <2> HIDE DEF Deleting, DeletedTwice, Closing
  <2> QED BY <2>2, <2>3
<1>25. ASSUME NEW t \in Deleters, DeleteTable(t) PROVE OneSession'
  BY <1>25 DEF DeleteTable
<1>26. ASSUME NEW t \in Deleters, DeleteEpoll(t) PROVE OneSession'
  BY <1>26 DEF DeleteEpoll
<1>27. ASSUME NEW t \in Deleters, DeleteKick(t) PROVE OneSession'
  BY <1>27 DEF DeleteKick
<1>28. ASSUME NEW t \in Deleters, DeleteUnhold(t) PROVE OneSession'
  BY <1>28 DEF DeleteUnhold
<1>29. ASSUME NEW t \in Deleters, DeleteWrlock(t) PROVE OneSession'
  BY <1>29 DEF DeleteWrlock
<1>30. ASSUME NEW t \in Deleters, DeleteFree(t) PROVE OneSession'
  <2>1. \A d \in Deleters \ {t} : pc'[d] = pc[d] /\ other'[d] = other[d]
    BY <1>30 DEF DeleteFree, AfterDelete
  <2>2. ASSUME NEW c \in Conns, c # other[t], Deleting(c) PROVE Deleting(c)'
    <3>1. PICK d \in Threads : other[d] = c /\ pc[d] \in Closing
      BY <2>2
    <3>2. d \in Deleters \ {t}
      BY <2>2, <3>1
    <3> QED BY <2>1, <3>1, <3>2
  <2>3. \A c \in Conns : st'[c] = "online" => st[c] = "online" /\ uid'[c] = uid[c] /\ c # other[t]
    BY <1>30 DEF DeleteFree
  <2> HIDE DEF Deleting, DeletedTwice, Closing
  <2> QED BY <2>2, <2>3
<1>31. ASSUME NEW a \in Admins, NEW u \in Uids, CLIKick(a, u) PROVE OneSession'
  BY <1>31 DEF CLIKick, Found, Hold, Holdable
<1> QED
  BY <1>1, <1>2, <1>3, <1>4, <1>5, <1>6, <1>7, <1>8, <1>9, <1>10, <1>11, <1>12, <1>13, <1>14, ZenonT(60),
     <1>15, <1>16, <1>17, <1>18, <1>19, <1>20, <1>21, <1>22, <1>23, <1>23a, <1>23b, <1>24, <1>25, <1>26,
     <1>27, <1>28, <1>29, <1>30, <1>31
     DEF Next, ListenerStep, PacketStep, DeleteStep, Deleters

-----------------------------------------------------------------------------
(* As long as every step is defined.                                       *)

\* A pending record is in the hands of the one worker that handles its packet.
LEMMA PendingStep ==
  ASSUME OneOfEach, Typed, PendingInHand, DeletedOnline, Next
  PROVE  PendingInHand'
<1> USE LifecycleAssumption DEF OneOfEach, PendingInHand, DeletedOnline, Typed, TypeOK, Control, Threads, Deleters, Closing, At, Goto,
        Leave, connVars, tableVars, circuit, threadVars
<1>1. ASSUME NEW c \in Conns, Accept(c) PROVE PendingInHand'
  BY <1>1 DEF Accept, Allocatable
<1>2. ASSUME EpollWait PROVE PendingInHand'
  BY <1>2 DEF EpollWait
<1>3. ASSUME NEW c \in Conns, Report(c) PROVE PendingInHand'
  BY <1>3 DEF Report
<1>4. ASSUME Push PROVE PendingInHand'
  BY <1>4 DEF Push
<1>5. ASSUME NEW w \in Workers, Pop(w) PROVE PendingInHand'
  BY <1>5 DEF Pop, Hold, Holdable
<1>6. ASSUME NEW w \in Workers, RecvNothing(w) PROVE PendingInHand'
  BY <1>6 DEF RecvNothing
<1>7. ASSUME NEW w \in Workers, RecvError(w) PROVE PendingInHand'
  BY <1>7 DEF RecvError
<1>8. ASSUME NEW w \in Workers, RecvPacket(w) PROVE PendingInHand'
  BY <1>8 DEF RecvPacket, Undefined, Uses
<1>9. ASSUME NEW w \in Workers, ProcessOwn(w) PROVE PendingInHand'
  BY <1>9 DEF ProcessOwn
<1>10. ASSUME NEW w \in Workers, RelayDone(w) PROVE PendingInHand'
  BY <1>10 DEF RelayDone, Dropped
<1>11. ASSUME NEW w \in Workers, ProcessQuit(w) PROVE PendingInHand'
  BY <1>11 DEF ProcessQuit
<1>12. ASSUME NEW w \in Workers, Drop(w) PROVE PendingInHand'
  BY <1>12 DEF Drop, Dropped
<1>13. ASSUME NEW w \in Workers, HelloSetState(w) PROVE PendingInHand'
  BY <1>13 DEF HelloSetState
<1>14. ASSUME NEW w \in Workers, HelloArm(w) PROVE PendingInHand'
  BY <1>14 DEF HelloArm
<1>15. ASSUME NEW w \in Workers, HelloOK(w) PROVE PendingInHand'
  BY <1>15 DEF HelloOK
<1>16. ASSUME NEW w \in Workers, Arm(w) PROVE PendingInHand'
  BY <1>16 DEF Arm
<1>17. ASSUME NEW w \in Workers, LoginRefused(w) PROVE PendingInHand'
  BY <1>17 DEF LoginRefused
<1>18. ASSUME NEW w \in Workers, PendingOther(w) PROVE PendingInHand'
  BY <1>18 DEF PendingOther, Pending
<1>19. ASSUME NEW w \in Workers, PendingQuit(w) PROVE PendingInHand'
  BY <1>19 DEF PendingQuit, Pending
<1>20. ASSUME NEW w \in Workers, LoginPublish(w) PROVE PendingInHand'
  BY <1>20 DEF LoginPublish
<1>21. ASSUME NEW w \in Workers, NEW u \in Uids, ProcessRelay(w, u) PROVE PendingInHand'
  BY <1>21 DEF ProcessRelay, Found, Hold, Holdable
<1>22. ASSUME NEW w \in Workers, NEW u \in Uids, LoginAuth(w, u) PROVE PendingInHand'
  BY <1>22 DEF LoginAuth, Found, Hold, Holdable
<1>23. ASSUME NEW w \in Workers, NEW c \in Conns, LoginRealloc(w, c) PROVE PendingInHand'
  BY <1>23 DEF LoginRealloc, Allocatable
<1>23a. ASSUME NEW w \in Workers, LoginReallocKick(w) PROVE PendingInHand'
  BY <1>23a DEF LoginReallocKick
<1>23b. ASSUME NEW w \in Workers, LoginNoMemory(w) PROVE PendingInHand'
  BY <1>23b DEF LoginNoMemory
<1>24. ASSUME NEW t \in Deleters, DeletePending(t) PROVE PendingInHand'
  BY <1>24 DEF DeletePending, AfterDelete, Pending
<1>25. ASSUME NEW t \in Deleters, DeleteTable(t) PROVE PendingInHand'
  BY <1>25 DEF DeleteTable
<1>26. ASSUME NEW t \in Deleters, DeleteEpoll(t) PROVE PendingInHand'
  BY <1>26 DEF DeleteEpoll
<1>27. ASSUME NEW t \in Deleters, DeleteKick(t) PROVE PendingInHand'
  BY <1>27 DEF DeleteKick
<1>28. ASSUME NEW t \in Deleters, DeleteUnhold(t) PROVE PendingInHand'
  BY <1>28 DEF DeleteUnhold
<1>29. ASSUME NEW t \in Deleters, DeleteWrlock(t) PROVE PendingInHand'
  BY <1>29 DEF DeleteWrlock
<1>30. ASSUME NEW t \in Deleters, DeleteFree(t) PROVE PendingInHand'
  BY <1>30 DEF DeleteFree, AfterDelete
<1>31. ASSUME NEW a \in Admins, NEW u \in Uids, CLIKick(a, u) PROVE PendingInHand'
  BY <1>31 DEF CLIKick, Found, Hold, Holdable
<1> QED
  BY <1>1, <1>2, <1>3, <1>4, <1>5, <1>6, <1>7, <1>8, <1>9, <1>10, <1>11, <1>12, <1>13, <1>14,
     <1>15, <1>16, <1>17, <1>18, <1>19, <1>20, <1>21, <1>22, <1>23, <1>23a, <1>23b, <1>24, <1>25, <1>26,
     <1>27, <1>28, <1>29, <1>30, <1>31
     DEF Next, ListenerStep, PacketStep, DeleteStep, Deleters

\* Whoever deletes a record that it looked up in the table deletes a session.
LEMMA DeletedStep ==
  ASSUME OneOfEach, Typed, TableOpen, PendingInHand, DeletedOnline, ~Undefined', Next
  PROVE  DeletedOnline'
<1> USE LifecycleAssumption DEF OneOfEach, TableOpen, PendingInHand, DeletedOnline, Undefined, Uses, Typed, TypeOK, Control, Threads, Deleters, Closing, At, Goto,
        Leave, connVars, tableVars, circuit, threadVars
<1>1. ASSUME NEW c \in Conns, Accept(c) PROVE DeletedOnline'
  BY <1>1 DEF Accept, Allocatable
<1>2. ASSUME EpollWait PROVE DeletedOnline'
  BY <1>2 DEF EpollWait
<1>3. ASSUME NEW c \in Conns, Report(c) PROVE DeletedOnline'
  BY <1>3 DEF Report
<1>4. ASSUME Push PROVE DeletedOnline'
  BY <1>4 DEF Push
<1>5. ASSUME NEW w \in Workers, Pop(w) PROVE DeletedOnline'
  BY <1>5 DEF Pop, Hold, Holdable
<1>6. ASSUME NEW w \in Workers, RecvNothing(w) PROVE DeletedOnline'
  BY <1>6 DEF RecvNothing
<1>7. ASSUME NEW w \in Workers, RecvError(w) PROVE DeletedOnline'
  BY <1>7 DEF RecvError
<1>8. ASSUME NEW w \in Workers, RecvPacket(w) PROVE DeletedOnline'
  <2>1. \A d \in Deleters : pc'[d] \in {"delete"} \union Closing => pc'[d] = pc[d]
    BY <1>8, PacketFor
  <2>2. st' = st /\ other' = other /\ want' = want
    BY <1>8, PacketFor
  <2> HIDE DEF Typed, TypeOK, Control, Undefined, PendingInHand, TableOpen, OneOfEach
  <2> QED BY <2>1, <2>2
<1>9. ASSUME NEW w \in Workers, ProcessOwn(w) PROVE DeletedOnline'
  BY <1>9 DEF ProcessOwn
<1>10. ASSUME NEW w \in Workers, RelayDone(w) PROVE DeletedOnline'
  BY <1>10 DEF RelayDone, Dropped
<1>11. ASSUME NEW w \in Workers, ProcessQuit(w) PROVE DeletedOnline'
  BY <1>11 DEF ProcessQuit
<1>12. ASSUME NEW w \in Workers, Drop(w) PROVE DeletedOnline'
  BY <1>12 DEF Drop, Dropped
<1>13. ASSUME NEW w \in Workers, HelloSetState(w) PROVE DeletedOnline'
  BY <1>13 DEF HelloSetState
<1>14. ASSUME NEW w \in Workers, HelloArm(w) PROVE DeletedOnline'
  BY <1>14 DEF HelloArm
<1>15. ASSUME NEW w \in Workers, HelloOK(w) PROVE DeletedOnline'
  BY <1>15 DEF HelloOK
<1>16. ASSUME NEW w \in Workers, Arm(w) PROVE DeletedOnline'
  BY <1>16 DEF Arm
<1>17. ASSUME NEW w \in Workers, LoginRefused(w) PROVE DeletedOnline'
  BY <1>17 DEF LoginRefused
<1>18. ASSUME NEW w \in Workers, PendingOther(w) PROVE DeletedOnline'
  BY <1>18 DEF PendingOther, Pending
<1>19. ASSUME NEW w \in Workers, PendingQuit(w) PROVE DeletedOnline'
  BY <1>19 DEF PendingQuit, Pending
<1>20. ASSUME NEW w \in Workers, LoginPublish(w) PROVE DeletedOnline'
  BY <1>20 DEF LoginPublish
<1>21. ASSUME NEW w \in Workers, NEW u \in Uids, ProcessRelay(w, u) PROVE DeletedOnline'
  BY <1>21 DEF ProcessRelay, Found, Hold, Holdable
<1>22. ASSUME NEW w \in Workers, NEW u \in Uids, LoginAuth(w, u) PROVE DeletedOnline'
  BY <1>22 DEF LoginAuth, Found, Hold, Holdable
<1>23. ASSUME NEW w \in Workers, NEW c \in Conns, LoginRealloc(w, c) PROVE DeletedOnline'
  BY <1>23 DEF LoginRealloc, Allocatable
<1>23a. ASSUME NEW w \in Workers, LoginReallocKick(w) PROVE DeletedOnline'
  BY <1>23a DEF LoginReallocKick
<1>23b. ASSUME NEW w \in Workers, LoginNoMemory(w) PROVE DeletedOnline'
  BY <1>23b DEF LoginNoMemory
<1>24. ASSUME NEW t \in Deleters, DeletePending(t) PROVE DeletedOnline'
  BY <1>24 DEF DeletePending, AfterDelete, Pending
<1>25. ASSUME NEW t \in Deleters, DeleteTable(t) PROVE DeletedOnline'
  BY <1>25 DEF DeleteTable
<1>26. ASSUME NEW t \in Deleters, DeleteEpoll(t) PROVE DeletedOnline'
  BY <1>26 DEF DeleteEpoll
<1>27. ASSUME NEW t \in Deleters, DeleteKick(t) PROVE DeletedOnline'
  BY <1>27 DEF DeleteKick
<1>28. ASSUME NEW t \in Deleters, DeleteUnhold(t) PROVE DeletedOnline'
  BY <1>28 DEF DeleteUnhold
<1>29. ASSUME NEW t \in Deleters, DeleteWrlock(t) PROVE DeletedOnline'
  BY <1>29 DEF DeleteWrlock
<1>30. ASSUME NEW t \in Deleters, DeleteFree(t) PROVE DeletedOnline'
  BY <1>30 DEF DeleteFree, AfterDelete
<1>31. ASSUME NEW a \in Admins, NEW u \in Uids, CLIKick(a, u) PROVE DeletedOnline'
  BY <1>31 DEF CLIKick, Found, Hold, Holdable
<1> QED
  BY <1>1, <1>2, <1>3, <1>4, <1>5, <1>6, <1>7, <1>8, <1>9, <1>10, <1>11, <1>12, <1>13, <1>14,
     <1>15, <1>16, <1>17, <1>18, <1>19, <1>20, <1>21, <1>22, <1>23, <1>23a, <1>23b, <1>24, <1>25, <1>26,
     <1>27, <1>28, <1>29, <1>30, <1>31
     DEF Next, ListenerStep, PacketStep, DeleteStep, Deleters

\* Between the look-up of an account and the entry of its new session nobody enters one.
LEMMA WantStep ==
  ASSUME OneOfEach, Typed, Locks, TableOpen, PendingInHand, DeletedOnline, WantFree, ~Undefined', Next
  PROVE  WantFree'
<1> USE LifecycleAssumption DEF OneOfEach, Locks, TableOpen, Deleting, PendingInHand, DeletedOnline, WantFree, Undefined, Uses, Typed, TypeOK, Control, Threads, Deleters, Closing, At, Goto,
        Leave, connVars, tableVars, circuit, threadVars
<1>1. ASSUME NEW c \in Conns, Accept(c) PROVE WantFree'
  BY <1>1 DEF Accept, Allocatable
<1>2. ASSUME EpollWait PROVE WantFree'
  BY <1>2 DEF EpollWait
<1>3. ASSUME NEW c \in Conns, Report(c) PROVE WantFree'
  BY <1>3 DEF Report
<1>4. ASSUME Push PROVE WantFree'
  BY <1>4 DEF Push
<1>5. ASSUME NEW w \in Workers, Pop(w) PROVE WantFree'
  BY <1>5 DEF Pop, Hold, Holdable
<1>6. ASSUME NEW w \in Workers, RecvNothing(w) PROVE WantFree'
  BY <1>6 DEF RecvNothing
<1>7. ASSUME NEW w \in Workers, RecvError(w) PROVE WantFree'
  BY <1>7 DEF RecvError
<1>8. ASSUME NEW w \in Workers, RecvPacket(w) PROVE WantFree'
  BY <1>8 DEF RecvPacket, Undefined, Uses
<1>9. ASSUME NEW w \in Workers, ProcessOwn(w) PROVE WantFree'
  BY <1>9 DEF ProcessOwn
<1>10. ASSUME NEW w \in Workers, RelayDone(w) PROVE WantFree'
  BY <1>10 DEF RelayDone, Dropped
<1>11. ASSUME NEW w \in Workers, ProcessQuit(w) PROVE WantFree'
  BY <1>11 DEF ProcessQuit
<1>12. ASSUME NEW w \in Workers, Drop(w) PROVE WantFree'
  BY <1>12 DEF Drop, Dropped
<1>13. ASSUME NEW w \in Workers, HelloSetState(w) PROVE WantFree'
  BY <1>13 DEF HelloSetState
<1>14. ASSUME NEW w \in Workers, HelloArm(w) PROVE WantFree'
  BY <1>14 DEF HelloArm
<1>15. ASSUME NEW w \in Workers, HelloOK(w) PROVE WantFree'
  BY <1>15 DEF HelloOK
<1>16. ASSUME NEW w \in Workers, Arm(w) PROVE WantFree'
  BY <1>16 DEF Arm
<1>17. ASSUME NEW w \in Workers, LoginRefused(w) PROVE WantFree'
  BY <1>17 DEF LoginRefused
<1>18. ASSUME NEW w \in Workers, PendingOther(w) PROVE WantFree'
  BY <1>18 DEF PendingOther, Pending
<1>19. ASSUME NEW w \in Workers, PendingQuit(w) PROVE WantFree'
  BY <1>19 DEF PendingQuit, Pending
<1>20. ASSUME NEW w \in Workers, LoginPublish(w) PROVE WantFree'
  BY <1>20 DEF LoginPublish
<1>21. ASSUME NEW w \in Workers, NEW u \in Uids, ProcessRelay(w, u) PROVE WantFree'
  <2>1. UNCHANGED <<want, table, uid>>
    BY <1>21 DEF ProcessRelay
  <2>2. want[w] = None
    BY <1>21 DEF ProcessRelay
  <2>3. \A v \in Workers : v # w => pc'[v] = pc[v] /\ other'[v] = other[v]
    BY <1>21 DEF ProcessRelay
  <2> HIDE DEF OneOfEach, Locks, TableOpen, PendingInHand, DeletedOnline, Undefined, Uses, Typed, TypeOK, Control
  <2> QED BY <2>1, <2>2, <2>3
<1>22. ASSUME NEW w \in Workers, NEW u \in Uids, LoginAuth(w, u) PROVE WantFree'
  <2>1. want'[w] = u /\ UNCHANGED <<uid, table, st>> /\ \A v \in Workers : v = w
    BY <1>22 DEF LoginAuth
  <2>2. CASE Found(u) = None
    <3>1. pc'[w] = "realloc"
      BY <1>22, <2>2 DEF LoginAuth
    <3>2. table[u] # None => table[u] \in Conns /\ writer[table[u]] = {}
      <4>1. table[u] # None => table[u] \in Conns /\ ~Deleting(table[u])
        OBVIOUS
      <4> QED BY <4>1, WriterDeletes
    <3>3. table[u] = None
      BY <2>2, <3>2 DEF Found, Holdable
    <3> QED BY <2>1, <3>1, <3>3
  <2>3. CASE Found(u) # None
    <3>1. pc'[w] = "delete" /\ other'[w] = table[u]
      BY <1>22, <2>3 DEF LoginAuth, Found
    <3>2. uid[table[u]] = u
      BY <2>3 DEF Found
    <3> QED BY <2>1, <3>1, <3>2
  <2> QED BY <2>2, <2>3
<1>23. ASSUME NEW w \in Workers, NEW c \in Conns, LoginRealloc(w, c) PROVE WantFree'
  BY <1>23 DEF LoginRealloc, Allocatable
<1>23a. ASSUME NEW w \in Workers, LoginReallocKick(w) PROVE WantFree'
  BY <1>23a DEF LoginReallocKick
<1>23b. ASSUME NEW w \in Workers, LoginNoMemory(w) PROVE WantFree'
  BY <1>23b DEF LoginNoMemory
<1>24. ASSUME NEW t \in Deleters, DeletePending(t) PROVE WantFree'
  BY <1>24 DEF DeletePending, AfterDelete, Pending
<1>25. ASSUME NEW t \in Deleters, DeleteTable(t) PROVE WantFree'
  BY <1>25 DEF DeleteTable
<1>26. ASSUME NEW t \in Deleters, DeleteEpoll(t) PROVE WantFree'
  BY <1>26 DEF DeleteEpoll
<1>27. ASSUME NEW t \in Deleters, DeleteKick(t) PROVE WantFree'
  BY <1>27 DEF DeleteKick
<1>28. ASSUME NEW t \in Deleters, DeleteUnhold(t) PROVE WantFree'
  BY <1>28 DEF DeleteUnhold
<1>29. ASSUME NEW t \in Deleters, DeleteWrlock(t) PROVE WantFree'
  BY <1>29 DEF DeleteWrlock
<1>30. ASSUME NEW t \in Deleters, DeleteFree(t) PROVE WantFree'
  BY <1>30 DEF DeleteFree, AfterDelete
<1>31. ASSUME NEW a \in Admins, NEW u \in Uids, CLIKick(a, u) PROVE WantFree'
  <2>1. UNCHANGED <<want, table, uid>>
    BY <1>31 DEF CLIKick
  <2>2. \A v \in Workers : pc'[v] = pc[v] /\ other'[v] = other[v]
    BY <1>31 DEF CLIKick
  <2> HIDE DEF OneOfEach, Locks, TableOpen, PendingInHand, DeletedOnline, Undefined, Uses, Typed, TypeOK, Control
  <2> QED BY <2>1, <2>2
<1> QED
  BY <1>1, <1>2, <1>3, <1>4, <1>5, <1>6, <1>7, <1>8, <1>9, <1>10, <1>11, <1>12, <1>13, <1>14,
     <1>15, <1>16, <1>17, <1>18, <1>19, <1>20, <1>21, <1>22, <1>23, <1>23a, <1>23b, <1>24, <1>25, <1>26,
     <1>27, <1>28, <1>29, <1>30, <1>31
     DEF Next, ListenerStep, PacketStep, DeleteStep, Deleters

\* Only a deletion takes a session out of the table; two deletions of one session can take
\* out the next one.
LEMMA InTableStep ==
  ASSUME OneOfEach, Typed, TableOpen, OnlineHasUid, PendingInHand, DeletedOnline, WantFree, OnlineInTable, ~Undefined', Next
  PROVE  OnlineInTable'
<1> USE LifecycleAssumption DEF OneOfEach, TableOpen, Deleting, DeletedTwice, PendingInHand, DeletedOnline, WantFree, OnlineInTable, Undefined, Uses, Typed, TypeOK, Control, Threads, Deleters, Closing, At, Goto,
        Leave, connVars, tableVars, circuit, threadVars
<1>1. ASSUME NEW c \in Conns, Accept(c) PROVE OnlineInTable'
  BY <1>1 DEF Accept, Allocatable
<1>2. ASSUME EpollWait PROVE OnlineInTable'
  BY <1>2 DEF EpollWait
<1>3. ASSUME NEW c \in Conns, Report(c) PROVE OnlineInTable'
  BY <1>3 DEF Report
<1>4. ASSUME Push PROVE OnlineInTable'
  BY <1>4 DEF Push
<1>5. ASSUME NEW w \in Workers, Pop(w) PROVE OnlineInTable'
  <2>1. \A d \in Deleters : pc[d] \in Closing => pc'[d] \in Closing /\ other'[d] = other[d]
    <3>1. pc' = pc \/ pc' = [pc EXCEPT ![w] = "recv"]
      BY <1>5 DEF Pop
    <3> QED BY <1>5, <3>1 DEF Pop
  <2>2. (\A c \in Conns : Deleting(c) => Deleting(c)') /\ (DeletedTwice => DeletedTwice')
    <3> HIDE DEF Typed, Closing, Deleting, DeletedTwice
    <3> QED BY <2>1, StillDeleting
  <2>3. UNCHANGED <<st, table, uid>>
    BY <1>5 DEF Pop
  <2> HIDE DEF Deleting, DeletedTwice, Closing
  <2> QED BY <2>2, <2>3
<1>6. ASSUME NEW w \in Workers, RecvNothing(w) PROVE OnlineInTable'
  BY <1>6 DEF RecvNothing
<1>7. ASSUME NEW w \in Workers, RecvError(w) PROVE OnlineInTable'
  BY <1>7 DEF RecvError
<1>8. ASSUME NEW w \in Workers, RecvPacket(w) PROVE OnlineInTable'
  BY <1>8, SMTT(60) DEF RecvPacket, Undefined, Uses
<1>9. ASSUME NEW w \in Workers, ProcessOwn(w) PROVE OnlineInTable'
  <2>1. \A t \in Deleters : pc[t] \in Closing => pc'[t] \in Closing /\ other'[t] = other[t]
    BY <1>9 DEF ProcessOwn
  <2>2. (\A c \in Conns : Deleting(c) => Deleting(c)') /\ (DeletedTwice => DeletedTwice')
    <3> HIDE DEF Typed, Closing, Deleting, DeletedTwice
    <3> QED BY <2>1, StillDeleting
  <2>3. UNCHANGED <<st, table, uid>>
    BY <1>9 DEF ProcessOwn
  <2> HIDE DEF Deleting, DeletedTwice, Closing
  <2> QED BY <2>2, <2>3
<1>10. ASSUME NEW w \in Workers, RelayDone(w) PROVE OnlineInTable'
  BY <1>10 DEF RelayDone, Dropped
<1>11. ASSUME NEW w \in Workers, ProcessQuit(w) PROVE OnlineInTable'
  BY <1>11 DEF ProcessQuit
<1>12. ASSUME NEW w \in Workers, Drop(w) PROVE OnlineInTable'
  BY <1>12 DEF Drop, Dropped
<1>13. ASSUME NEW w \in Workers, HelloSetState(w) PROVE OnlineInTable'
  BY <1>13 DEF HelloSetState
<1>14. ASSUME NEW w \in Workers, HelloArm(w) PROVE OnlineInTable'
  BY <1>14 DEF HelloArm
<1>15. ASSUME NEW w \in Workers, HelloOK(w) PROVE OnlineInTable'
  BY <1>15 DEF HelloOK
<1>16. ASSUME NEW w \in Workers, Arm(w) PROVE OnlineInTable'
  BY <1>16 DEF Arm
<1>17. ASSUME NEW w \in Workers, LoginRefused(w) PROVE OnlineInTable'
  BY <1>17 DEF LoginRefused
<1>18. ASSUME NEW w \in Workers, PendingOther(w) PROVE OnlineInTable'
  <2>1. \A d \in Deleters : pc[d] \in Closing => pc'[d] \in Closing /\ other'[d] = other[d]
    BY <1>18 DEF PendingOther, Pending
  <2>2. (\A c \in Conns : Deleting(c) => Deleting(c)') /\ (DeletedTwice => DeletedTwice')
    <3> HIDE DEF Typed, Closing, Deleting, DeletedTwice
    <3> QED BY <2>1, StillDeleting
  <2>3. UNCHANGED <<st, table, uid>>
    BY <1>18 DEF PendingOther
  <2> HIDE DEF Deleting, DeletedTwice, Closing
  <2> QED BY <2>2, <2>3
<1>19. ASSUME NEW w \in Workers, PendingQuit(w) PROVE OnlineInTable'
  BY <1>19 DEF PendingQuit, Pending
<1>20. ASSUME NEW w \in Workers, LoginPublish(w) PROVE OnlineInTable'
  <2>1. \A d \in Deleters : pc[d] \in Closing => pc'[d] \in Closing /\ other'[d] = other[d]
    BY <1>20 DEF LoginPublish
  <2>2. (\A c \in Conns : Deleting(c) => Deleting(c)') /\ (DeletedTwice => DeletedTwice')
    <3> HIDE DEF Typed, Closing, Deleting, DeletedTwice
    <3> QED BY <2>1, StillDeleting
  <2>3. cur[w] \in Conns /\ want[w] \in Uids /\ table[want[w]] = None
    BY <1>20 DEF LoginPublish
  <2>4. /\ \A c \in Conns : c # cur[w] => st'[c] = st[c] /\ uid'[c] = uid[c]
        /\ uid'[cur[w]] = want[w] /\ table' = [table EXCEPT ![want[w]] = cur[w]]
    BY <1>20, <2>3 DEF LoginPublish
  <2>5. table'[want[w]] = cur[w] /\ \A u \in Uids : u # want[w] => table'[u] = table[u]
    BY <2>3, <2>4
  <2>6. \A c \in Conns : st[c] = "online" => uid[c] \in Uids
    BY DEF OnlineHasUid
  <2> HIDE DEF Deleting, DeletedTwice, Closing, Typed, Control
  <2> QED BY <2>2, <2>3, <2>4, <2>5, <2>6
<1>21. ASSUME NEW w \in Workers, NEW u \in Uids, ProcessRelay(w, u) PROVE OnlineInTable'
  BY <1>21 DEF ProcessRelay, Found, Hold, Holdable
<1>22. ASSUME NEW w \in Workers, NEW u \in Uids, LoginAuth(w, u) PROVE OnlineInTable'
  <2>1. \A t \in Deleters : pc[t] \in Closing => pc'[t] \in Closing /\ other'[t] = other[t]
    BY <1>22 DEF LoginAuth
  <2>2. (\A c \in Conns : Deleting(c) => Deleting(c)') /\ (DeletedTwice => DeletedTwice')
    <3> HIDE DEF Typed, Closing, Deleting, DeletedTwice
    <3> QED BY <2>1, StillDeleting
  <2>3. UNCHANGED <<st, table, uid>>
    BY <1>22 DEF LoginAuth
  <2> HIDE DEF Deleting, DeletedTwice, Closing
  <2> QED BY <2>2, <2>3
<1>23. ASSUME NEW w \in Workers, NEW c \in Conns, LoginRealloc(w, c) PROVE OnlineInTable'
  BY <1>23 DEF LoginRealloc, Allocatable
<1>23a. ASSUME NEW w \in Workers, LoginReallocKick(w) PROVE OnlineInTable'
  <2>1. \A d \in Deleters : pc[d] \in Closing => pc'[d] \in Closing /\ other'[d] = other[d]
    BY <1>23a DEF LoginReallocKick
  <2>2. (\A c \in Conns : Deleting(c) => Deleting(c)') /\ (DeletedTwice => DeletedTwice')
    <3> HIDE DEF Typed, Closing, Deleting, DeletedTwice
    <3> QED BY <2>1, StillDeleting
  <2>3. UNCHANGED <<st, table, uid>>
    BY <1>23a DEF LoginReallocKick
  <2> HIDE DEF Deleting, DeletedTwice, Closing
  <2> QED BY <2>2, <2>3
<1>23b. ASSUME NEW w \in Workers, LoginNoMemory(w) PROVE OnlineInTable'
  BY <1>23b DEF LoginNoMemory
<1>24. ASSUME NEW t \in Deleters, DeletePending(t) PROVE OnlineInTable'
  BY <1>24 DEF DeletePending, AfterDelete, Pending
<1>25. ASSUME NEW t \in Deleters, DeleteTable(t) PROVE OnlineInTable'
  <2>1. other[t] \in Conns /\ uid[other[t]] \in Uids /\ pc[t] = "delete"
    BY <1>25 DEF DeleteTable, OnlineHasUid
  <2>2. pc'[t] \in Closing /\ \A d \in Deleters : other'[d] = other[d] /\ (d # t => pc'[d] = pc[d])
    BY <1>25 DEF DeleteTable
  <2>3. (\A c \in Conns : Deleting(c) => Deleting(c)') /\ (DeletedTwice => DeletedTwice')
    <3>1. \A d \in Deleters : pc[d] \in Closing => pc'[d] \in Closing /\ other'[d] = other[d]
      BY <2>1, <2>2
    <3> HIDE DEF Typed, Closing, Deleting, DeletedTwice
    <3> QED BY <3>1, StillDeleting
  <2>4. \A c \in Conns : c = other[t] => Deleting(c)'
    BY <2>2 DEF Deleting
  <2>5. Deleting(other[t]) => DeletedTwice'
    <3>1. ASSUME NEW d \in Threads, other[d] = other[t], pc[d] \in Closing PROVE DeletedTwice'
      <4>1. d \in Deleters /\ d # t
        BY <2>1, <3>1
      <4> QED BY <2>2, <3>1, <4>1 DEF DeletedTwice
    <3> QED BY <3>1 DEF Deleting, Closing
  <2>6. Deleting(other[t]) \/ table[uid[other[t]]] = other[t] \/ DeletedTwice
    BY <1>25, <2>1 DEF DeleteTable
  <2>7. UNCHANGED <<st, uid>> /\ table' = [table EXCEPT ![uid[other[t]]] = None]
    BY <1>25 DEF DeleteTable
  <2>8. \A u \in Uids : table'[u] = table[u] \/ u = uid[other[t]]
    BY <2>7
  <2>9. ASSUME NEW c \in Conns, st[c] = "online"
        PROVE  uid[c] \in Uids /\ (Deleting(c) \/ table[uid[c]] = c \/ DeletedTwice)
    BY <2>9 DEF OnlineHasUid
  <2> HIDE DEF Deleting, DeletedTwice, Closing, Typed, Control
  <2> QED BY <2>1, <2>3, <2>4, <2>5, <2>6, <2>7, <2>8, <2>9
<1>26. ASSUME NEW t \in Deleters, DeleteEpoll(t) PROVE OnlineInTable'
  BY <1>26 DEF DeleteEpoll
<1>27. ASSUME NEW t \in Deleters, DeleteKick(t) PROVE OnlineInTable'
  BY <1>27 DEF DeleteKick
<1>28. ASSUME NEW t \in Deleters, DeleteUnhold(t) PROVE OnlineInTable'
  BY <1>28 DEF DeleteUnhold
<1>29. ASSUME NEW t \in Deleters, DeleteWrlock(t) PROVE OnlineInTable'
  <2>1. \A d \in Deleters : pc[d] \in Closing => pc'[d] \in Closing /\ other'[d] = other[d]
    BY <1>29 DEF DeleteWrlock
  <2>2. (\A c \in Conns : Deleting(c) => Deleting(c)') /\ (DeletedTwice => DeletedTwice')
    <3> HIDE DEF Typed, Closing, Deleting, DeletedTwice
    <3> QED BY <2>1, StillDeleting
  <2>3. UNCHANGED <<st, table, uid>>
    BY <1>29 DEF DeleteWrlock
  <2> HIDE DEF Deleting, DeletedTwice, Closing
  <2> QED BY <2>2, <2>3
<1>30. ASSUME NEW t \in Deleters, DeleteFree(t) PROVE OnlineInTable'
  <2>1. pc[t] = "delFree" /\ other[t] \in Conns /\ table' = table
    BY <1>30, InHand DEF DeleteFree
  <2>2. /\ st'[other[t]] = "free"
        /\ \A c \in Conns : c # other[t] => st'[c] = st[c] /\ uid'[c] = uid[c]
    BY <1>30, <2>1 DEF DeleteFree
  <2>3. \A d \in Threads : d # t => pc'[d] = pc[d] /\ other'[d] = other[d]
    BY <1>30 DEF DeleteFree, AfterDelete
  <2>4. ASSUME NEW d \in Deleters, d # t, pc[d] \in Closing, other[d] = other[t] PROVE FALSE
    <3>1. pc'[d] \in Closing /\ other'[d] = other[t] /\ d \in Threads
      BY <2>3, <2>4
    <3> QED BY <2>1, <2>2, <3>1
  <2>5. ~DeletedTwice
    <3>1. \A d1, d2 \in Deleters : d1 # d2 => t \in {d1, d2}
      OBVIOUS
    <3> HIDE DEF Undefined, Typed, TypeOK, Control, Closing, Deleters, OneOfEach, Deleting, OnlineInTable
    <3> QED BY <2>4, <3>1
  <2>6. \A c \in Conns : c # other[t] /\ Deleting(c) => Deleting(c)'
    BY <2>3
  <2> HIDE DEF OneOfEach, TableOpen, Deleting, DeletedTwice, PendingInHand, DeletedOnline, WantFree, Undefined,
               Typed, TypeOK, Control, Threads, Deleters, Closing, At, Goto
  <2> QED BY <2>1, <2>2, <2>5, <2>6
<1>31. ASSUME NEW a \in Admins, NEW u \in Uids, CLIKick(a, u) PROVE OnlineInTable'
  BY <1>31, ZenonT(60) DEF CLIKick, Found, Hold, Holdable
<1> QED
  BY <1>1, <1>2, <1>3, <1>4, <1>5, <1>6, <1>7, <1>8, <1>9, <1>10, <1>11, <1>12, <1>13, <1>14, ZenonT(60),
     <1>15, <1>16, <1>17, <1>18, <1>19, <1>20, <1>21, <1>22, <1>23, <1>23a, <1>23b, <1>24, <1>25, <1>26,
     <1>27, <1>28, <1>29, <1>30, <1>31
     DEF Next, ListenerStep, PacketStep, DeleteStep, Deleters


-----------------------------------------------------------------------------
(* The circuit of a session.                                               *)

\* Where a session can be found.
InCircuit(c) ==
  \/ c \in armed \union batch \union Queue \union {cur[Listener]}
  \/ \E w \in Workers : cur[w] = c /\ pc[w] \in {"recv", "arm"}
  \/ \E t \in Threads : other[t] = c /\ pc[t] \in {"delete"} \union Closing

\* OnlineInCircuit, one connection at a time.
LEMMA InCircuitIs == OnlineInCircuit <=> \A c \in Conns : st[c] = "online" => InCircuit(c)
BY DEF OnlineInCircuit, InCircuit, Deleting, Closing

\* A step of t cannot lose a session that t does not have in hand.
LEMMA CircuitGoesOn ==
  ASSUME OnlineInCircuit, NEW t \in Deleters,
         \A d \in Threads \ {t} : pc'[d] = pc[d] /\ cur'[d] = cur[d] /\ other'[d] = other[d],
         \A c \in Conns : st'[c] = "online" =>
           \/ InCircuit(c)'
           \/ /\ st[c] = "online"
              /\ c \in armed \union batch \union Queue => c \in (armed \union batch \union Queue)'
              /\ c = cur[t] => pc[t] \notin {"recv", "arm"}
              /\ c = other[t] => pc[t] \notin {"delete"} \union Closing
  PROVE  OnlineInCircuit'
<1> SUFFICES ASSUME NEW c \in Conns, st'[c] = "online" PROVE InCircuit(c)'
  BY DEF OnlineInCircuit, InCircuit, Deleting, Closing
<1> SUFFICES ASSUME /\ st[c] = "online"
                    /\ c \in armed \union batch \union Queue => c \in (armed \union batch \union Queue)'
                    /\ c = cur[t] => pc[t] \notin {"recv", "arm"}
                    /\ c = other[t] => pc[t] \notin {"delete"} \union Closing
             PROVE  InCircuit(c)'
  OBVIOUS
<1>1. InCircuit(c)
  BY InCircuitIs
<1>2. CASE c \in armed \union batch \union Queue
  BY <1>2 DEF InCircuit
<1>3. CASE c = cur[Listener]
  <2>1. Listener \in Threads \ {t}
    BY LifecycleAssumption DEF Threads, Deleters
  <2> QED BY <1>3, <2>1 DEF InCircuit
<1>4. CASE \E w \in Workers : cur[w] = c /\ pc[w] \in {"recv", "arm"}
  <2>1. PICK w \in Workers : cur[w] = c /\ pc[w] \in {"recv", "arm"}
    BY <1>4
  <2>2. w \in Threads \ {t}
    BY <2>1 DEF Threads
  <2> QED BY <2>1, <2>2 DEF InCircuit
<1>5. CASE \E d \in Threads : other[d] = c /\ pc[d] \in {"delete"} \union Closing
  <2>1. PICK d \in Threads : other[d] = c /\ pc[d] \in {"delete"} \union Closing
    BY <1>5
  <2>2. d \in Threads \ {t}
    BY <2>1
  <2> QED BY <2>1, <2>2 DEF InCircuit
<1> QED BY <1>1, <1>2, <1>3, <1>4, <1>5 DEF InCircuit

\* Each step leaves every session where InCircuit says it can be found.
LEMMA CircuitStep ==
  ASSUME OneOfEach, Typed, Locks, PendingInHand, DeletedOnline, OnlineInCircuit, Next
  PROVE  OnlineInCircuit'
<1> USE DEF At, Goto, Leave, connVars, tableVars, circuit, threadVars
<1>0. /\ st \in [Conns -> {"free", "hello", "login", "online"}] /\ armed \subseteq Conns /\ batch \subseteq Conns
      /\ jobs \in Seq(Conns) /\ pc \in [Threads -> Labels] /\ cur \in [Threads -> Conns \union {None}]
      /\ other \in [Threads -> Conns \union {None}]
      /\ Workers \subseteq Threads /\ Deleters \subseteq Threads /\ Workers \subseteq Deleters /\ Listener \in Threads
  BY DEF Typed, TypeOK, Threads, Deleters
<1>a. OnlineInCircuit' <=> \A d \in Conns : st'[d] = "online" => InCircuit(d)'
  BY DEF OnlineInCircuit, InCircuit, Deleting, Closing
<1>b. \A d \in Conns : st[d] = "online" => InCircuit(d)
  BY InCircuitIs
<1>c. cur[Listener] # None <=> pc[Listener] # "idle"
  BY DEF Typed, Control
<1>1. ASSUME NEW c \in Conns, Accept(c) PROVE OnlineInCircuit'
  <2>1. \A d \in Conns : (st'[d] = "online" => st[d] = "online") /\ (InCircuit(d) => InCircuit(d)')
    BY <1>0, <1>1 DEF Accept, InCircuit, Queue
  <2> QED BY <1>a, <1>b, <2>1
<1>2. ASSUME EpollWait PROVE OnlineInCircuit'
  <2>1. \A d \in Conns : InCircuit(d) => InCircuit(d)'
    BY <1>2 DEF EpollWait, InCircuit, Queue
  <2> QED BY <1>2, <1>a, <1>b, <2>1 DEF EpollWait
<1>3. ASSUME NEW c \in Conns, Report(c) PROVE OnlineInCircuit'
  <2>1. UNCHANGED <<st, jobs, other>> /\ cur[Listener] = None /\ cur'[Listener] = c /\ armed' = armed \ {c} /\ batch' = batch \ {c}
    BY <1>3, <1>0, <1>c DEF Report
  <2>2. \A t \in Threads : t = Listener \/ (cur'[t] = cur[t] /\ pc'[t] = pc[t])
    BY <1>3, <1>0 DEF Report
  <2>3. Listener \notin Workers /\ pc[Listener] \notin {"delete"} \union Closing
    BY LifecycleAssumption, <1>3 DEF Report, Closing
  <2>4. \A d \in Conns : InCircuit(d) => InCircuit(d)'
    BY <1>0, <2>1, <2>2, <2>3, LifecycleAssumption DEF InCircuit, Queue
  <2> QED BY <2>1, <1>a, <1>b, <2>4
<1>4. ASSUME Push PROVE OnlineInCircuit'
  <2>1. cur[Listener] \in Conns /\ Queue' = Queue \union {cur[Listener]}
    <3>1. cur[Listener] \in Conns /\ jobs' = Append(jobs, cur[Listener])
      BY <1>4, <1>0, <1>c DEF Push
    <3> QED BY <3>1, <1>0, MembersAppend, SMTT(60) DEF Queue, Members
  <2>2. UNCHANGED <<st, armed, batch, other>>
    BY <1>4 DEF Push
  <2>3. \A t \in Threads : t = Listener \/ (cur'[t] = cur[t] /\ pc'[t] = pc[t])
    BY <1>4, <1>0 DEF Push
  <2>4. Listener \notin Workers /\ pc[Listener] \notin {"delete"} \union Closing
    BY LifecycleAssumption, <1>4 DEF Push, Closing
  <2>5. \A d \in Conns : InCircuit(d) => InCircuit(d)'
    BY <1>0, <2>1, <2>2, <2>3, <2>4 DEF InCircuit
  <2> QED BY <2>2, <1>a, <1>b, <2>5
<1>5. ASSUME NEW w \in Workers, Pop(w) PROVE OnlineInCircuit'
  <2>1. \A d \in Threads \ {w} : pc'[d] = pc[d] /\ cur'[d] = cur[d] /\ other'[d] = other[d]
    BY <1>5, <1>0 DEF Pop
  <2>2. UNCHANGED <<st, armed, batch, other>> /\ pc[w] = "idle" /\ Head(jobs) \in Conns
    BY <1>5, <1>0 DEF Pop
  <2>3. \A c \in Queue : c = Head(jobs) \/ c \in Queue'
    <3>1. \A i \in DOMAIN jobs : i = 1 \/ (i - 1 \in DOMAIN Tail(jobs) /\ jobs[i] = Tail(jobs)[i - 1])
      BY <1>5, <1>0 DEF Pop
    <3>2. \A i \in DOMAIN jobs : i = 1 \/ jobs[i] \in Queue'
      BY <1>5, <3>1 DEF Queue, Pop
    <3>3. jobs[1] = Head(jobs)
      BY <1>5, <1>0 DEF Pop
    <3> QED BY <3>2, <3>3 DEF Queue
  <2>4. \A c \in Conns : c = Head(jobs) /\ st[c] = "online" => InCircuit(c)'
    <3>1. CASE Holdable(Head(jobs))
      <4>1. cur'[w] = Head(jobs) /\ pc'[w] = "recv"
        BY <1>5, <1>0, <3>1 DEF Pop
      <4> QED BY <4>1 DEF InCircuit
    <3>2. CASE ~Holdable(Head(jobs))
      <4>1. Deleting(Head(jobs)) /\ pc' = pc
        BY <1>5, <2>2, <3>2, WriterDeletes DEF Holdable, Pop
      <4> QED BY <4>1, <2>2 DEF InCircuit, Deleting, Closing
    <3> QED BY <3>1, <3>2
  <2>5. pc[w] \notin {"recv", "arm"} /\ pc[w] \notin {"delete"} \union Closing
    BY <2>2 DEF Closing
  <2>6. \A c \in Conns : st'[c] = "online" => InCircuit(c)'
           \/ (st[c] = "online" /\ (c \in armed \union batch \union Queue => c \in (armed \union batch \union Queue)'))
    BY <2>2, <2>3, <2>4
  <2> QED BY <1>0, <2>1, <2>5, <2>6, CircuitGoesOn
<1>6. ASSUME NEW w \in Workers, RecvNothing(w) PROVE OnlineInCircuit'
  <2>1. \A d \in Threads \ {w} : pc'[d] = pc[d] /\ cur'[d] = cur[d] /\ other'[d] = other[d]
    BY <1>6, <1>0 DEF RecvNothing
  <2>3. \A c \in Conns : c = cur[w] => InCircuit(c)'
    BY <1>6, <1>0 DEF RecvNothing, InCircuit, Closing
  <2>2. \A c \in Conns : st'[c] = "online" =>
           \/ InCircuit(c)'
           \/ /\ st[c] = "online"
              /\ c \in armed \union batch \union Queue => c \in (armed \union batch \union Queue)'
              /\ c = cur[w] => pc[w] \notin {"recv", "arm"}
              /\ c = other[w] => pc[w] \notin {"delete"} \union Closing
    BY <1>6, <1>0, <2>3 DEF RecvNothing, Queue, Closing
  <2> QED BY <1>0, <2>1, <2>2, CircuitGoesOn
<1>7. ASSUME NEW w \in Workers, RecvError(w) PROVE OnlineInCircuit'
  <2>1. \A d \in Threads \ {w} : pc'[d] = pc[d] /\ cur'[d] = cur[d] /\ other'[d] = other[d]
    BY <1>7, <1>0 DEF RecvError
  <2>3. \A c \in Conns : c = cur[w] => InCircuit(c)'
    BY <1>7, <1>0 DEF RecvError, InCircuit, Closing
  <2>2. \A c \in Conns : st'[c] = "online" =>
           \/ InCircuit(c)'
           \/ /\ st[c] = "online"
              /\ c \in armed \union batch \union Queue => c \in (armed \union batch \union Queue)'
              /\ c = cur[w] => pc[w] \notin {"recv", "arm"}
              /\ c = other[w] => pc[w] \notin {"delete"} \union Closing
    BY <1>7, <1>0, <2>3 DEF RecvError, Queue, Closing
  <2> QED BY <1>0, <2>1, <2>2, CircuitGoesOn
<1>8. ASSUME NEW w \in Workers, RecvPacket(w) PROVE OnlineInCircuit'
  <2>1. \A d \in Threads \ {w} : pc'[d] = pc[d] /\ cur'[d] = cur[d] /\ other'[d] = other[d]
    BY <1>8, <1>0 DEF RecvPacket, Undefined, Uses
  <2>3. \A c \in Conns : c = cur[w] /\ st[c] = "online" => InCircuit(c)'
    BY <1>8, <1>0 DEF RecvPacket, InCircuit
  <2>2. \A c \in Conns : st'[c] = "online" =>
           \/ InCircuit(c)'
           \/ /\ st[c] = "online"
              /\ c \in armed \union batch \union Queue => c \in (armed \union batch \union Queue)'
              /\ c = cur[w] => pc[w] \notin {"recv", "arm"}
              /\ c = other[w] => pc[w] \notin {"delete"} \union Closing
    BY <1>8, <1>0, <2>3 DEF RecvPacket, Queue, Closing
  <2> QED BY <1>0, <2>1, <2>2, CircuitGoesOn
<1>9. ASSUME NEW w \in Workers, ProcessOwn(w) PROVE OnlineInCircuit'
  <2>1. \A d \in Threads \ {w} : pc'[d] = pc[d] /\ cur'[d] = cur[d] /\ other'[d] = other[d]
    BY <1>9, <1>0 DEF ProcessOwn
  <2>2. \A c \in Conns : st'[c] = "online" =>
           \/ InCircuit(c)'
           \/ /\ st[c] = "online"
              /\ c \in armed \union batch \union Queue => c \in (armed \union batch \union Queue)'
              /\ c = cur[w] => pc[w] \notin {"recv", "arm"}
              /\ c = other[w] => pc[w] \notin {"delete"} \union Closing
    BY <1>9, <1>0 DEF ProcessOwn, Queue, Closing
  <2> QED BY <1>0, <2>1, <2>2, CircuitGoesOn
<1>10. ASSUME NEW w \in Workers, RelayDone(w) PROVE OnlineInCircuit'
  <2>1. \A d \in Threads \ {w} : pc'[d] = pc[d] /\ cur'[d] = cur[d] /\ other'[d] = other[d]
    BY <1>10, <1>0 DEF RelayDone
  <2>2. \A c \in Conns : st'[c] = "online" =>
           \/ InCircuit(c)'
           \/ /\ st[c] = "online"
              /\ c \in armed \union batch \union Queue => c \in (armed \union batch \union Queue)'
              /\ c = cur[w] => pc[w] \notin {"recv", "arm"}
              /\ c = other[w] => pc[w] \notin {"delete"} \union Closing
    BY <1>10, <1>0 DEF RelayDone, Queue, Closing
  <2> QED BY <1>0, <2>1, <2>2, CircuitGoesOn
<1>11. ASSUME NEW w \in Workers, ProcessQuit(w) PROVE OnlineInCircuit'
  <2>1. \A d \in Threads \ {w} : pc'[d] = pc[d] /\ cur'[d] = cur[d] /\ other'[d] = other[d]
    BY <1>11, <1>0 DEF ProcessQuit
  <2>3. \A c \in Conns : c = cur[w] => InCircuit(c)'
    BY <1>11, <1>0 DEF ProcessQuit, InCircuit, Closing
  <2>2. \A c \in Conns : st'[c] = "online" =>
           \/ InCircuit(c)'
           \/ /\ st[c] = "online"
              /\ c \in armed \union batch \union Queue => c \in (armed \union batch \union Queue)'
              /\ c = cur[w] => pc[w] \notin {"recv", "arm"}
              /\ c = other[w] => pc[w] \notin {"delete"} \union Closing
    BY <1>11, <1>0, <2>3 DEF ProcessQuit, Queue, Closing
  <2> QED BY <1>0, <2>1, <2>2, CircuitGoesOn
<1>12. ASSUME NEW w \in Workers, Drop(w) PROVE OnlineInCircuit'
  <2>1. \A d \in Threads \ {w} : pc'[d] = pc[d] /\ cur'[d] = cur[d] /\ other'[d] = other[d]
    BY <1>12, <1>0 DEF Drop
  <2>2. \A c \in Conns : st'[c] = "online" =>
           \/ InCircuit(c)'
           \/ /\ st[c] = "online"
              /\ c \in armed \union batch \union Queue => c \in (armed \union batch \union Queue)'
              /\ c = cur[w] => pc[w] \notin {"recv", "arm"}
              /\ c = other[w] => pc[w] \notin {"delete"} \union Closing
    BY <1>12, <1>0 DEF Drop, Queue, Closing
  <2> QED BY <1>0, <2>1, <2>2, CircuitGoesOn
<1>13. ASSUME NEW w \in Workers, HelloSetState(w) PROVE OnlineInCircuit'
  <2>1. \A d \in Threads \ {w} : pc'[d] = pc[d] /\ cur'[d] = cur[d] /\ other'[d] = other[d]
    BY <1>13, <1>0 DEF HelloSetState
  <2>2. \A c \in Conns : st'[c] = "online" =>
           \/ InCircuit(c)'
           \/ /\ st[c] = "online"
              /\ c \in armed \union batch \union Queue => c \in (armed \union batch \union Queue)'
              /\ c = cur[w] => pc[w] \notin {"recv", "arm"}
              /\ c = other[w] => pc[w] \notin {"delete"} \union Closing
    BY <1>13, <1>0 DEF HelloSetState, Queue, Closing
  <2> QED BY <1>0, <2>1, <2>2, CircuitGoesOn
<1>14. ASSUME NEW w \in Workers, HelloArm(w) PROVE OnlineInCircuit'
  <2>1. \A d \in Threads \ {w} : pc'[d] = pc[d] /\ cur'[d] = cur[d] /\ other'[d] = other[d]
    BY <1>14, <1>0 DEF HelloArm
  <2>2. \A c \in Conns : st'[c] = "online" =>
           \/ InCircuit(c)'
           \/ /\ st[c] = "online"
              /\ c \in armed \union batch \union Queue => c \in (armed \union batch \union Queue)'
              /\ c = cur[w] => pc[w] \notin {"recv", "arm"}
              /\ c = other[w] => pc[w] \notin {"delete"} \union Closing
    BY <1>14, <1>0 DEF HelloArm, Queue, Closing
  <2> QED BY <1>0, <2>1, <2>2, CircuitGoesOn
<1>15. ASSUME NEW w \in Workers, HelloOK(w) PROVE OnlineInCircuit'
  <2>1. \A d \in Threads \ {w} : pc'[d] = pc[d] /\ cur'[d] = cur[d] /\ other'[d] = other[d]
    BY <1>15, <1>0 DEF HelloOK
  <2>2. \A c \in Conns : st'[c] = "online" =>
           \/ InCircuit(c)'
           \/ /\ st[c] = "online"
              /\ c \in armed \union batch \union Queue => c \in (armed \union batch \union Queue)'
              /\ c = cur[w] => pc[w] \notin {"recv", "arm"}
              /\ c = other[w] => pc[w] \notin {"delete"} \union Closing
    BY <1>15, <1>0 DEF HelloOK, Queue, Closing
  <2> QED BY <1>0, <2>1, <2>2, CircuitGoesOn
<1>16. ASSUME NEW w \in Workers, Arm(w) PROVE OnlineInCircuit'
  <2>1. \A d \in Threads \ {w} : pc'[d] = pc[d] /\ cur'[d] = cur[d] /\ other'[d] = other[d]
    BY <1>16, <1>0 DEF Arm
  <2>3. \A c \in Conns : c = cur[w] => InCircuit(c)'
    BY <1>16, <1>0 DEF Arm, InCircuit, Closing
  <2>2. \A c \in Conns : st'[c] = "online" =>
           \/ InCircuit(c)'
           \/ /\ st[c] = "online"
              /\ c \in armed \union batch \union Queue => c \in (armed \union batch \union Queue)'
              /\ c = cur[w] => pc[w] \notin {"recv", "arm"}
              /\ c = other[w] => pc[w] \notin {"delete"} \union Closing
    BY <1>16, <1>0, <2>3 DEF Arm, Queue, Closing
  <2> QED BY <1>0, <2>1, <2>2, CircuitGoesOn
<1>17. ASSUME NEW w \in Workers, LoginRefused(w) PROVE OnlineInCircuit'
  <2>1. \A d \in Threads \ {w} : pc'[d] = pc[d] /\ cur'[d] = cur[d] /\ other'[d] = other[d]
    BY <1>17, <1>0 DEF LoginRefused
  <2>2. \A c \in Conns : st'[c] = "online" =>
           \/ InCircuit(c)'
           \/ /\ st[c] = "online"
              /\ c \in armed \union batch \union Queue => c \in (armed \union batch \union Queue)'
              /\ c = cur[w] => pc[w] \notin {"recv", "arm"}
              /\ c = other[w] => pc[w] \notin {"delete"} \union Closing
    BY <1>17, <1>0 DEF LoginRefused, Queue, Closing
  <2> QED BY <1>0, <2>1, <2>2, CircuitGoesOn
<1>18. ASSUME NEW w \in Workers, PendingOther(w) PROVE OnlineInCircuit'
  <2>1. \A d \in Threads \ {w} : pc'[d] = pc[d] /\ cur'[d] = cur[d] /\ other'[d] = other[d]
    BY <1>18, <1>0 DEF PendingOther, Pending
  <2>2. \A c \in Conns : st'[c] = "online" =>
           \/ InCircuit(c)'
           \/ /\ st[c] = "online"
              /\ c \in armed \union batch \union Queue => c \in (armed \union batch \union Queue)'
              /\ c = cur[w] => pc[w] \notin {"recv", "arm"}
              /\ c = other[w] => pc[w] \notin {"delete"} \union Closing
    BY <1>18, <1>0 DEF PendingOther, Queue, Closing, Pending
  <2> QED BY <1>0, <2>1, <2>2, CircuitGoesOn
<1>19. ASSUME NEW w \in Workers, PendingQuit(w) PROVE OnlineInCircuit'
  <2>1. \A d \in Threads \ {w} : pc'[d] = pc[d] /\ cur'[d] = cur[d] /\ other'[d] = other[d]
    BY <1>19, <1>0 DEF PendingQuit, Pending
  <2>2. \A c \in Conns : st'[c] = "online" =>
           \/ InCircuit(c)'
           \/ /\ st[c] = "online"
              /\ c \in armed \union batch \union Queue => c \in (armed \union batch \union Queue)'
              /\ c = cur[w] => pc[w] \notin {"recv", "arm"}
              /\ c = other[w] => pc[w] \notin {"delete"} \union Closing
    BY <1>19, <1>0 DEF PendingQuit, Queue, Closing, Pending
  <2> QED BY <1>0, <2>1, <2>2, CircuitGoesOn
<1>20. ASSUME NEW w \in Workers, LoginPublish(w) PROVE OnlineInCircuit'
  <2>1. \A d \in Threads \ {w} : pc'[d] = pc[d] /\ cur'[d] = cur[d] /\ other'[d] = other[d]
    BY <1>20, <1>0 DEF LoginPublish
  <2>3. \A c \in Conns : c = cur[w] => InCircuit(c)'
    BY <1>20, <1>0 DEF LoginPublish, InCircuit, Closing
  <2>2. \A c \in Conns : st'[c] = "online" =>
           \/ InCircuit(c)'
           \/ /\ st[c] = "online"
              /\ c \in armed \union batch \union Queue => c \in (armed \union batch \union Queue)'
              /\ c = cur[w] => pc[w] \notin {"recv", "arm"}
              /\ c = other[w] => pc[w] \notin {"delete"} \union Closing
    BY <1>20, <1>0, <2>3 DEF LoginPublish, Queue, Closing
  <2> QED BY <1>0, <2>1, <2>2, CircuitGoesOn
<1>21. ASSUME NEW w \in Workers, NEW u \in Uids, ProcessRelay(w, u) PROVE OnlineInCircuit'
  <2>1. \A d \in Threads \ {w} : pc'[d] = pc[d] /\ cur'[d] = cur[d] /\ other'[d] = other[d]
    BY <1>21, <1>0 DEF ProcessRelay
  <2>2. \A c \in Conns : st'[c] = "online" =>
           \/ InCircuit(c)'
           \/ /\ st[c] = "online"
              /\ c \in armed \union batch \union Queue => c \in (armed \union batch \union Queue)'
              /\ c = cur[w] => pc[w] \notin {"recv", "arm"}
              /\ c = other[w] => pc[w] \notin {"delete"} \union Closing
    BY <1>21, <1>0 DEF ProcessRelay, Queue, Closing
  <2> QED BY <1>0, <2>1, <2>2, CircuitGoesOn
<1>22. ASSUME NEW w \in Workers, NEW u \in Uids, LoginAuth(w, u) PROVE OnlineInCircuit'
  <2>1. \A d \in Threads \ {w} : pc'[d] = pc[d] /\ cur'[d] = cur[d] /\ other'[d] = other[d]
    BY <1>22, <1>0 DEF LoginAuth
  <2>2. \A c \in Conns : st'[c] = "online" =>
           \/ InCircuit(c)'
           \/ /\ st[c] = "online"
              /\ c \in armed \union batch \union Queue => c \in (armed \union batch \union Queue)'
              /\ c = cur[w] => pc[w] \notin {"recv", "arm"}
              /\ c = other[w] => pc[w] \notin {"delete"} \union Closing
    BY <1>22, <1>0 DEF LoginAuth, Queue, Closing
  <2> QED BY <1>0, <2>1, <2>2, CircuitGoesOn
<1>23. ASSUME NEW w \in Workers, NEW c \in Conns, LoginRealloc(w, c) PROVE OnlineInCircuit'
  <2>1. \A d \in Threads \ {w} : pc'[d] = pc[d] /\ cur'[d] = cur[d] /\ other'[d] = other[d]
    BY <1>23, <1>0 DEF LoginRealloc
  <2>2. cur[w] \in Conns /\ st[cur[w]] = "login"
    BY <1>23, InHand DEF LoginRealloc, PendingInHand, Typed, Control
  <2>3. \A d \in Conns : st'[d] = "online" => st[d] = "online" /\ d # cur[w]
    BY <1>23, <1>0, <2>2 DEF LoginRealloc, Allocatable
  <2>4. UNCHANGED <<armed, batch, jobs>> /\ pc[w] \notin {"recv", "arm"} /\ pc[w] \notin {"delete"} \union Closing
    BY <1>23 DEF LoginRealloc, Closing
  <2> QED BY <1>0, <2>1, <2>3, <2>4, CircuitGoesOn DEF Queue
<1>23a. ASSUME NEW w \in Workers, LoginReallocKick(w) PROVE OnlineInCircuit'
  <2>1. \A d \in Threads \ {w} : pc'[d] = pc[d] /\ cur'[d] = cur[d] /\ other'[d] = other[d]
    BY <1>23a, <1>0 DEF LoginReallocKick
  <2>2. st[other[w]] # "online"
    BY <1>23a DEF LoginReallocKick, PendingInHand
  <2>3. Queue' = Queue \ {other[w]}
    <3>1. jobs' = Without(jobs, other[w])
      BY <1>23a DEF LoginReallocKick
    <3>2. Members(Without(jobs, other[w])) = Members(jobs) \ {other[w]}
      BY <1>0, WithoutMembers
    <3> QED BY <3>1, <3>2 DEF Queue, Members
  <2>4. UNCHANGED <<st, armed, batch>> /\ pc[w] \notin {"recv", "arm"} /\ pc[w] \notin {"delete"} \union Closing
    BY <1>23a DEF LoginReallocKick, Closing
  <2> QED BY <1>0, <2>1, <2>2, <2>3, <2>4, CircuitGoesOn
<1>23b. ASSUME NEW w \in Workers, LoginNoMemory(w) PROVE OnlineInCircuit'
  <2>1. \A d \in Threads \ {w} : pc'[d] = pc[d] /\ cur'[d] = cur[d] /\ other'[d] = other[d]
    BY <1>23b, <1>0 DEF LoginNoMemory
  <2>2. \A d \in Conns : st'[d] = "online" => st[d] = "online"
    BY <1>23b, <1>0 DEF LoginNoMemory
  <2>3. UNCHANGED <<armed, batch, jobs>> /\ pc[w] \notin {"recv", "arm"} /\ pc[w] \notin {"delete"} \union Closing
    BY <1>23b DEF LoginNoMemory, Closing
  <2> QED BY <1>0, <2>1, <2>2, <2>3, CircuitGoesOn DEF Queue
<1>24. ASSUME NEW t \in Deleters, DeletePending(t) PROVE OnlineInCircuit'
  <2>1. \A d \in Threads \ {t} : pc'[d] = pc[d] /\ cur'[d] = cur[d] /\ other'[d] = other[d]
    BY <1>24, <1>0 DEF DeletePending, AfterDelete, Pending
  <2>2. \A c \in Conns : st'[c] = "online" =>
           \/ InCircuit(c)'
           \/ /\ st[c] = "online"
              /\ c \in armed \union batch \union Queue => c \in (armed \union batch \union Queue)'
              /\ c = cur[t] => pc[t] \notin {"recv", "arm"}
              /\ c = other[t] => pc[t] \notin {"delete"} \union Closing
    BY <1>24, <1>0 DEF DeletePending, Queue, Closing, AfterDelete, Pending
  <2> QED BY <1>0, <2>1, <2>2, CircuitGoesOn
<1>25. ASSUME NEW t \in Deleters, DeleteTable(t) PROVE OnlineInCircuit'
  <2>1. \A d \in Threads \ {t} : pc'[d] = pc[d] /\ cur'[d] = cur[d] /\ other'[d] = other[d]
    BY <1>25, <1>0 DEF DeleteTable
  <2>3. \A c \in Conns : c = other[t] => InCircuit(c)'
    BY <1>25, <1>0 DEF DeleteTable, InCircuit, Closing
  <2>2. \A c \in Conns : st'[c] = "online" =>
           \/ InCircuit(c)'
           \/ /\ st[c] = "online"
              /\ c \in armed \union batch \union Queue => c \in (armed \union batch \union Queue)'
              /\ c = cur[t] => pc[t] \notin {"recv", "arm"}
              /\ c = other[t] => pc[t] \notin {"delete"} \union Closing
    BY <1>25, <1>0, <2>3 DEF DeleteTable, Queue, Closing
  <2> QED BY <1>0, <2>1, <2>2, CircuitGoesOn
<1>26. ASSUME NEW t \in Deleters, DeleteEpoll(t) PROVE OnlineInCircuit'
  <2>1. \A d \in Threads \ {t} : pc'[d] = pc[d] /\ cur'[d] = cur[d] /\ other'[d] = other[d]
    BY <1>26, <1>0 DEF DeleteEpoll
  <2>3. \A c \in Conns : c = other[t] => InCircuit(c)'
    BY <1>26, <1>0 DEF DeleteEpoll, InCircuit, Closing
  <2>2. \A c \in Conns : st'[c] = "online" =>
           \/ InCircuit(c)'
           \/ /\ st[c] = "online"
              /\ c \in armed \union batch \union Queue => c \in (armed \union batch \union Queue)'
              /\ c = cur[t] => pc[t] \notin {"recv", "arm"}
              /\ c = other[t] => pc[t] \notin {"delete"} \union Closing
    BY <1>26, <1>0, <2>3 DEF DeleteEpoll, Queue, Closing
  <2> QED BY <1>0, <2>1, <2>2, CircuitGoesOn
<1>27. ASSUME NEW t \in Deleters, DeleteKick(t) PROVE OnlineInCircuit'
  <2>1. \A d \in Threads \ {t} : pc'[d] = pc[d] /\ cur'[d] = cur[d] /\ other'[d] = other[d]
    BY <1>27, <1>0 DEF DeleteKick
  <2>2. Queue' = Queue \ {other[t]}
    <3>1. jobs' = Without(jobs, other[t])
      BY <1>27 DEF DeleteKick
    <3>2. Members(Without(jobs, other[t])) = Members(jobs) \ {other[t]}
      BY <1>0, WithoutMembers
    <3> QED BY <3>1, <3>2 DEF Queue, Members
  <2>3. \A c \in Conns : c = other[t] => InCircuit(c)'
    BY <1>27, <1>0 DEF DeleteKick, InCircuit, Closing
  <2>4. UNCHANGED <<st, armed, batch>> /\ pc[t] \notin {"recv", "arm"}
    BY <1>27 DEF DeleteKick
  <2> QED BY <1>0, <2>1, <2>2, <2>3, <2>4, CircuitGoesOn
<1>28. ASSUME NEW t \in Deleters, DeleteUnhold(t) PROVE OnlineInCircuit'
  <2>1. \A d \in Threads \ {t} : pc'[d] = pc[d] /\ cur'[d] = cur[d] /\ other'[d] = other[d]
    BY <1>28, <1>0 DEF DeleteUnhold
  <2>3. \A c \in Conns : c = other[t] => InCircuit(c)'
    BY <1>28, <1>0 DEF DeleteUnhold, InCircuit, Closing
  <2>2. \A c \in Conns : st'[c] = "online" =>
           \/ InCircuit(c)'
           \/ /\ st[c] = "online"
              /\ c \in armed \union batch \union Queue => c \in (armed \union batch \union Queue)'
              /\ c = cur[t] => pc[t] \notin {"recv", "arm"}
              /\ c = other[t] => pc[t] \notin {"delete"} \union Closing
    BY <1>28, <1>0, <2>3 DEF DeleteUnhold, Queue, Closing
  <2> QED BY <1>0, <2>1, <2>2, CircuitGoesOn
<1>29. ASSUME NEW t \in Deleters, DeleteWrlock(t) PROVE OnlineInCircuit'
  <2>1. \A d \in Threads \ {t} : pc'[d] = pc[d] /\ cur'[d] = cur[d] /\ other'[d] = other[d]
    BY <1>29, <1>0 DEF DeleteWrlock
  <2>3. \A c \in Conns : c = other[t] => InCircuit(c)'
    BY <1>29, <1>0 DEF DeleteWrlock, InCircuit, Closing
  <2>2. \A c \in Conns : st'[c] = "online" =>
           \/ InCircuit(c)'
           \/ /\ st[c] = "online"
              /\ c \in armed \union batch \union Queue => c \in (armed \union batch \union Queue)'
              /\ c = cur[t] => pc[t] \notin {"recv", "arm"}
              /\ c = other[t] => pc[t] \notin {"delete"} \union Closing
    BY <1>29, <1>0, <2>3 DEF DeleteWrlock, Queue, Closing
  <2> QED BY <1>0, <2>1, <2>2, CircuitGoesOn
<1>30. ASSUME NEW t \in Deleters, DeleteFree(t) PROVE OnlineInCircuit'
  <2>1. \A d \in Threads \ {t} : pc'[d] = pc[d] /\ cur'[d] = cur[d] /\ other'[d] = other[d]
    BY <1>30, <1>0 DEF DeleteFree, AfterDelete
  <2>2. \A c \in Conns : st'[c] = "online" =>
           \/ InCircuit(c)'
           \/ /\ st[c] = "online"
              /\ c \in armed \union batch \union Queue => c \in (armed \union batch \union Queue)'
              /\ c = cur[t] => pc[t] \notin {"recv", "arm"}
              /\ c = other[t] => pc[t] \notin {"delete"} \union Closing
    BY <1>30, <1>0 DEF DeleteFree, Queue, Closing, AfterDelete
  <2> QED BY <1>0, <2>1, <2>2, CircuitGoesOn
<1>31. ASSUME NEW a \in Admins, NEW u \in Uids, CLIKick(a, u) PROVE OnlineInCircuit'
  <2> a \in Deleters
    BY DEF Deleters
  <2>1. \A d \in Threads \ {a} : pc'[d] = pc[d] /\ cur'[d] = cur[d] /\ other'[d] = other[d]
    BY <1>31, <1>0 DEF CLIKick
  <2>2. \A c \in Conns : st'[c] = "online" =>
           \/ InCircuit(c)'
           \/ /\ st[c] = "online"
              /\ c \in armed \union batch \union Queue => c \in (armed \union batch \union Queue)'
              /\ c = cur[a] => pc[a] \notin {"recv", "arm"}
              /\ c = other[a] => pc[a] \notin {"delete"} \union Closing
    BY <1>31, <1>0 DEF CLIKick, Queue, Closing
  <2> QED BY <1>0, <2>1, <2>2, CircuitGoesOn
<1> QED
  BY <1>1, <1>2, <1>3, <1>4, <1>5, <1>6, <1>7, <1>8, <1>9, <1>10, <1>11, <1>12, <1>13, <1>14,
     <1>15, <1>16, <1>17, <1>18, <1>19, <1>20, <1>21, <1>22, <1>23, <1>23a, <1>23b, <1>24, <1>25, <1>26,
     <1>27, <1>28, <1>29, <1>30, <1>31
     DEF Next, ListenerStep, PacketStep, DeleteStep, Deleters

-----------------------------------------------------------------------------
(* The count of online users.                                              *)

\* Only the entry and the removal of a session touch the table.
LEMMA TableChanges ==
  ASSUME Next
  PROVE  \/ UNCHANGED tableVars
         \/ \E w \in Workers : LoginPublish(w)
         \/ \E t \in Deleters : DeleteTable(t)
BY DEF Next, ListenerStep, PacketStep, DeleteStep, Deleters, tableVars, Accept, EpollWait,
       Report, Push, Pop, RecvNothing, RecvError, RecvPacket, ProcessOwn, RelayDone,
       ProcessQuit, Drop, HelloSetState, HelloArm, HelloOK, Arm, LoginRefused, PendingOther,
       PendingQuit, ProcessRelay, LoginAuth, LoginRealloc, LoginReallocKick, LoginNoMemory, DeletePending, DeleteEpoll,
       DeleteKick, DeleteUnhold, DeleteWrlock, DeleteFree, CLIKick

\* Without the console the count follows the table.
LEMMA CountStep ==
  ASSUME OneOfEach, IsFiniteSet(Uids), LifeInv, ~Undefined, Unattended, CountIsTable, Next
  PROVE  CountIsTable'
<1> DEFINE Present == {u \in Uids : table[u] # None}
<1>0. Defined /\ Typed
  BY DEF LifeInv
<1>1. IsFiniteSet(Present) /\ count = Cardinality(Present)
  BY FS_Subset DEF CountIsTable
<1>2. CASE UNCHANGED tableVars
  BY <1>2 DEF tableVars, CountIsTable
<1>3. ASSUME NEW w \in Workers, LoginPublish(w) PROVE CountIsTable'
  <2>1. cur[w] \in Conns /\ want[w] \in Uids /\ table[want[w]] = None
    <3>1. pc[w] = "publish"
      BY <1>3 DEF LoginPublish, At
    <3>2. want[w] # None /\ cur[w] # None
      BY <1>0, <3>1 DEF Typed, Control
    <3> QED BY <1>0, <3>1, <3>2 DEF Typed, TypeOK, Threads, Defined, WantFree
  <2>2. table' = [table EXCEPT ![want[w]] = cur[w]] /\ count' = count + 1
    BY <1>3 DEF LoginPublish
  <2>3. {u \in Uids : table'[u] # None} = Present \union {want[w]}
    BY <1>0, <2>1, <2>2, LifecycleAssumption DEF Typed, TypeOK
  <2>4. Cardinality(Present \union {want[w]}) = Cardinality(Present) + 1
    <3>1. want[w] \notin Present
      BY <2>1
    <3> HIDE DEF Present
    <3> QED BY <1>1, <3>1, FS_AddElement
  <2> HIDE DEF Present
  <2> QED BY <1>1, <2>2, <2>3, <2>4 DEF CountIsTable
<1>4. ASSUME NEW t \in Deleters, DeleteTable(t) PROVE CountIsTable'
  <2>1. pc[t] = "delete" /\ st[other[t]] = "online"
    BY <1>4 DEF DeleteTable, At
  <2>2. t \in Workers
    BY <1>0, <2>1 DEF Typed, Control, Unattended, Deleters
  <2>3. other[t] \in Conns /\ uid[other[t]] \in Uids
    BY <1>0, <2>1, InHand DEF LifeInv, OnlineHasUid
  <2>4. \A d \in Threads : pc[d] \notin Closing
    <3>1. \A a \in Admins : pc[a] = "idle"
      BY <1>0 DEF Typed, Control, Unattended
    <3>2. \A d \in Workers : d = t
      BY <2>2 DEF OneOfEach
    <3> QED BY <1>0, <2>1, <3>1, <3>2 DEF Threads, Typed, Control, Closing
  <2>5. table[uid[other[t]]] = other[t]
    <3>1. ~Deleting(other[t]) /\ ~DeletedTwice
      BY <2>4 DEF Deleting, DeletedTwice, Closing, Threads, Deleters
    <3> QED BY <1>0, <2>1, <2>3, <3>1 DEF Defined, OnlineInTable
  <2> DEFINE u == uid[other[t]]
  <2>6. table' = [table EXCEPT ![u] = None] /\ count' = count - 1
    BY <1>4 DEF DeleteTable
  <2>7. u \in Uids /\ u \in Present
    BY <2>3, <2>5, LifecycleAssumption
  <2> HIDE DEF u
  <2>8. {v \in Uids : table'[v] # None} = Present \ {u}
    BY <1>0, <2>6, <2>7 DEF Typed, TypeOK
  <2>9. Cardinality(Present \ {u}) = Cardinality(Present) - 1
    <3> HIDE DEF Present
    <3> QED BY <1>1, <2>7, FS_RemoveElement
  <2> HIDE DEF Present
  <2> QED BY <1>1, <2>6, <2>8, <2>9 DEF CountIsTable
<1> QED BY <1>2, <1>3, <1>4, TableChanges

-----------------------------------------------------------------------------
(* The invariant and the theorems.                                         *)

\* No thread does anything once undefined behaviour has become unavoidable.
LEMMA NextIsDefined ==
  ASSUME Next
  PROVE  ~Undefined /\ setting' = setting
BY ZenonT(60) DEF At, Next, ListenerStep, PacketStep, DeleteStep, Accept, EpollWait, Report, Push, Pop,
       RecvNothing, RecvError, RecvPacket, ProcessOwn, RelayDone, ProcessQuit, Drop,
       HelloSetState, HelloArm, HelloOK, Arm, LoginRefused, PendingOther, PendingQuit,
       LoginPublish, ProcessRelay, LoginAuth, LoginRealloc, LoginReallocKick, LoginNoMemory, DeletePending, DeleteTable,
       DeleteEpoll, DeleteKick, DeleteUnhold, DeleteWrlock, DeleteFree, CLIKick

\* Types and control need no other part, and any number of workers will do.
LEMMA TypedHolds == Spec => []Typed
<1>1. Init => Typed
  BY LifecycleAssumption DEF Init, Typed, TypeOK, Control, Threads, Labels, Closing
<1>2. Typed /\ [Next]_vars => Typed'
  <2>1. CASE Next
    BY <2>1, TypeStep, ControlStep DEF Typed
  <2>2. CASE UNCHANGED vars
    BY <2>2 DEF Typed, TypeOK, Control, vars, connVars, tableVars, circuit, threadVars
  <2> QED BY <2>1, <2>2
<1> QED BY <1>1, <1>2, PTL DEF Spec

\* Nobody is connected and nobody works.
LEMMA LifeInit == LifecycleAssumption /\ Init => LifeInv
<1> SUFFICES ASSUME Init PROVE LifeInv
  OBVIOUS
<1>1. Typed
  BY LifecycleAssumption DEF Init, Typed, TypeOK, Control, Threads, Labels, Closing
<1>2. Locks /\ HoldsAccounted /\ NotHeld
  BY LifecycleAssumption DEF Init, Locks, HoldsAccounted, NotHeld, Deleters, Threads
<1>3. TableOpen /\ OnlineHasUid /\ OneSession /\ OnlineInCircuit
  BY DEF Init, TableOpen, OnlineHasUid, OneSession, OnlineInCircuit
<1>4. Defined
  BY LifecycleAssumption DEF Init, Defined, PendingInHand, DeletedOnline, WantFree, OnlineInTable,
       Closing, Deleters, Threads
<1> QED BY <1>1, <1>2, <1>3, <1>4 DEF LifeInv

\* The parts together keep each other.
LEMMA LifeStep ==
  ASSUME OneOfEach, LifeInv, Next
  PROVE  LifeInv'
<1>1. ~Undefined
  BY NextIsDefined
<1>2. Typed /\ Locks /\ HoldsAccounted /\ NotHeld /\ TableOpen /\ OnlineHasUid /\ OneSession /\ OnlineInCircuit
  BY DEF LifeInv
<1>3. PendingInHand /\ DeletedOnline /\ WantFree /\ OnlineInTable
  BY <1>1 DEF LifeInv, Defined
<1>4. Typed'
  BY <1>2, TypeStep, ControlStep DEF Typed
<1>5. Locks' /\ HoldsAccounted' /\ NotHeld'
  BY <1>2, <1>3, LocksStep, HoldsStep, NotHeldStep
<1>6. TableOpen' /\ OnlineHasUid' /\ OneSession'
  BY <1>2, <1>3, TableStep, UidStep, OneSessionStep
<1>7. OnlineInCircuit'
  BY <1>2, <1>3, CircuitStep
<1>8. ASSUME ~Undefined' PROVE Defined'
  BY <1>2, <1>3, <1>8, PendingStep, DeletedStep, WantStep, InTableStep DEF Defined
<1> QED BY <1>4, <1>5, <1>6, <1>7, <1>8 DEF LifeInv

\* A step of nobody changes nothing.
LEMMA LifeStutter ==
  ASSUME LifeInv, UNCHANGED vars
  PROVE  LifeInv'
<1> USE DEF vars, connVars, tableVars, circuit, threadVars
<1>1. (Typed <=> Typed') /\ (Locks <=> Locks') /\ (HoldsAccounted <=> HoldsAccounted') /\ (NotHeld <=> NotHeld')
  BY DEF Typed, TypeOK, Control, Locks, HoldsAccounted, NotHeld
<1>2. (TableOpen <=> TableOpen') /\ (OnlineHasUid <=> OnlineHasUid') /\ (OneSession <=> OneSession')
  BY DEF TableOpen, OnlineHasUid, OneSession, Deleting
<1>3. OnlineInCircuit <=> OnlineInCircuit'
  BY DEF OnlineInCircuit, Deleting, Queue
<1>4. (Defined <=> Defined') /\ (Undefined <=> Undefined')
  <2>1. Undefined <=> Undefined'
    BY DEF Undefined, Uses
  <2>2. (PendingInHand <=> PendingInHand') /\ (DeletedOnline <=> DeletedOnline') /\ (WantFree <=> WantFree')
    BY DEF PendingInHand, DeletedOnline, WantFree
  <2>3. OnlineInTable <=> OnlineInTable'
    BY DEF OnlineInTable, Deleting, DeletedTwice
  <2> QED BY <2>1, <2>2, <2>3 DEF Defined
<1> QED BY <1>1, <1>2, <1>3, <1>4 DEF LifeInv

\* Four steps free a record.
LEMMA WhoFrees ==
  ASSUME Typed, Next, NEW c \in Conns, st[c] # "free", st'[c] = "free"
  PROVE  \/ \E w \in Workers : LoginNoMemory(w)
         \/ \E w \in Workers, new \in Conns : LoginRealloc(w, new)
         \/ \E t \in Deleters : (DeletePending(t) \/ DeleteFree(t)) /\ c = other[t]
<1> USE DEF Typed, TypeOK, connVars, Deleters
<1>1. \A d \in Conns : ~Accept(d)
  BY DEF Accept, Allocatable
<1>2. ~EpollWait /\ ~Push /\ \A d \in Conns : ~Report(d)
  BY DEF EpollWait, Push, Report
<1>3. \A w \in Workers : ~Pop(w)
  BY DEF Pop
<1>4. ASSUME NEW w \in Workers, PacketStep(w)
      PROVE  LoginNoMemory(w) \/ \E new \in Conns : LoginRealloc(w, new)
  <2>1. ~HelloSetState(w) /\ ~LoginPublish(w)
    BY DEF HelloSetState, LoginPublish
  <2>2. CASE UNCHANGED st
    BY <2>2
  <2>3. CASE st' # st
    BY <1>4, <2>1, <2>3 DEF PacketStep, RecvNothing, RecvError, RecvPacket, ProcessOwn, RelayDone,
         ProcessQuit, Drop, HelloArm, HelloOK, Arm, LoginRefused, PendingOther,
         PendingQuit, ProcessRelay, LoginAuth, LoginReallocKick
  <2> QED BY <2>2, <2>3
<1>5. ASSUME NEW t \in Deleters, DeleteStep(t)
      PROVE  (DeletePending(t) \/ DeleteFree(t)) /\ c = other[t]
  BY <1>5 DEF DeleteStep, DeletePending, DeleteFree, DeleteTable, DeleteEpoll, DeleteKick,
       DeleteUnhold, DeleteWrlock
<1>6. \A a \in Admins, u \in Uids : ~CLIKick(a, u)
  BY DEF CLIKick
<1> QED BY <1>1, <1>2, <1>3, <1>4, <1>5, <1>6 DEF Next, ListenerStep

\* Without the console only the worker frees records, and it lets go of what it frees.
LEMMA FreedStep ==
  ASSUME OneOfEach, LifeInv, Next
  PROVE  FreedInNoHand
<1> SUFFICES ASSUME Unattended, NEW c \in Conns, NEW w \in Workers,
                    st[c] # "free", st'[c] = "free", c \in Uses(w)'
             PROVE  pc'[w] = "astray"
  BY DEF FreedInNoHand
<1>0. Typed /\ PendingInHand /\ DeletedOnline
  BY NextIsDefined DEF LifeInv, Defined
<1>1. ASSUME NEW v \in Workers, LoginNoMemory(v) PROVE pc'[w] = "astray"
  BY <1>0, <1>1 DEF LoginNoMemory, OneOfEach, Goto, Typed, TypeOK, Threads
<1>2. ASSUME NEW v \in Workers, NEW new \in Conns, LoginRealloc(v, new) PROVE FALSE
  <2>1. v = w
    BY DEF OneOfEach
  <2>2. pc'[w] = "reallocKick" /\ cur'[w] = new
    BY <1>0, <1>2, <2>1 DEF LoginRealloc, Goto, Typed, TypeOK, Threads
  <2>3. c = new
    BY <2>2, LifecycleAssumption DEF Uses
  <2>4. st'[new] # "free"
    BY <1>0, <1>2, InHand DEF LoginRealloc, At, PendingInHand, Typed, TypeOK, Control
  <2> QED BY <2>3, <2>4
<1>3. ASSUME NEW t \in Deleters, DeletePending(t) \/ DeleteFree(t), c = other[t] PROVE FALSE
  <2>1. pc[t] \in {"delete"} \union Closing /\ AfterDelete(t)
    BY <1>3 DEF DeletePending, DeleteFree, At, Closing
  <2>2. t = w
    <3>1. t \notin Admins
      BY <1>0, <2>1 DEF Typed, Control, Unattended, Closing
    <3> QED BY <3>1 DEF Deleters, OneOfEach
  <2>3. other'[w] = None /\ pc'[w] \in {"realloc", "idle"} /\ cur'[w] = IF want[w] # None THEN cur[w] ELSE None
    BY <1>0, <2>1, <2>2 DEF AfterDelete, Goto, Typed, TypeOK, Threads
  <2>4. want[w] # None /\ c = cur[w]
    BY <2>3, LifecycleAssumption DEF Uses
  <2>5. st[c] = "login" /\ st[c] = "online"
    BY <1>0, <1>3, <2>1, <2>2, <2>4 DEF PendingInHand, DeletedOnline
  <2> QED BY <2>5
<1> QED BY <1>0, <1>1, <1>2, <1>3, WhoFrees

\* The inductive invariant, for one worker and at most one console.
LEMMA LifeInvHolds ==
  ASSUME OneOfEach
  PROVE  Spec => []LifeInv
<1>1. Init => LifeInv
  BY LifeInit, LifecycleAssumption
<1>2. LifeInv /\ [Next]_vars => LifeInv'
  BY LifeStep, LifeStutter
<1> QED BY <1>1, <1>2, PTL DEF Spec

\* The variables keep their types, however many workers there are.
THEOREM TypeCorrect == Spec => []TypeOK
<1>1. Typed => TypeOK
  BY DEF Typed
<1> QED BY <1>1, TypedHolds, PTL

\* A logged-in connection is never forgotten by all of epoll, the listener, the queue
\* and the worker (worker.c:54-62, jobs.c:58), with or without the console.
THEOREM SessionsServed ==
  ASSUME NEW worker, Workers = {worker}, NEW console, Admins \subseteq {console}
  PROVE  Spec => []OnlineInCircuit
<1>1. OneOfEach
  BY DEF OneOfEach
<1>2. LifeInv => OnlineInCircuit
  BY DEF LifeInv
<1> QED BY <1>1, <1>2, LifeInvHolds, PTL

\* OnlineUserDelete waits for the threads that still have the record in hand, and without
\* the console a record that is freed is out of every hand, unless a login has had it freed
\* for want of memory (user.h:140-154, user.c:513).
THEOREM HoldsAreSound ==
  ASSUME NEW worker, Workers = {worker}, NEW console, Admins \subseteq {console}
  PROVE  Spec => HoldsSound
<1>1. OneOfEach
  BY DEF OneOfEach
<1>2. LifeInv /\ LifeInv' /\ [Next]_vars => [HoldsAccounted' /\ FreedInNoHand]_vars
  <2>1. LifeInv' => HoldsAccounted'
    BY DEF LifeInv
  <2> QED BY <1>1, <2>1, FreedStep
<1> QED BY <1>1, <1>2, LifeInvHolds, PTL DEF Spec, HoldsSound

\* One session for an account, a table that leads to live sessions of the right account,
\* with or without the console, and without it a right count (user.c:243-294).
THEOREM TableIsSound ==
  ASSUME NEW worker, Workers = {worker}, NEW console, Admins \subseteq {console}, IsFiniteSet(Uids)
  PROVE  Spec => []TableSound
<1> DEFINE Counted == Unattended => CountIsTable
<1>1. OneOfEach
  BY DEF OneOfEach
<1>2. Init => Counted
  <2>1. Init => {u \in Uids : table[u] # None} = {}
    BY DEF Init
  <2> QED BY <2>1, FS_EmptySet DEF Init, CountIsTable
<1>3. LifeInv /\ Counted /\ [Next]_vars => Counted'
  <2>1. CASE Next
    BY <1>1, <2>1, CountStep, NextIsDefined DEF Unattended
  <2>2. CASE UNCHANGED vars
    BY <2>2 DEF vars, tableVars, CountIsTable, Unattended
  <2> QED BY <2>1, <2>2
<1>4. LifeInv /\ Counted => TableSound
  BY DEF LifeInv, TableOpen, TableSound
<1> QED BY <1>1, <1>2, <1>3, <1>4, LifeInvHolds, PTL DEF Spec
=============================================================================
