--------------------------- MODULE JobQueueProofs ---------------------------
(***************************************************************************)
(* Theorems about JobQueue for every queue size, every set of connections  *)
(* and, unless a theorem says otherwise, every number of workers.          *)
(***************************************************************************)
EXTENDS JobQueueRefinement, LineProofs, TLAPS

-----------------------------------------------------------------------------
(* Types.  TypeOK alone is not inductive: Rearm puts what the worker holds  *)
(* into armed, so a worker that works must hold a record.                  *)

HandsFull ==
  \A t \in Threads : pc[t] \in {"push", "work", "armed"} => inHand[t] # NULL

TypeInv == TypeOK /\ HandsFull

LEMMA TypeInvHolds == Spec => []TypeInv
<1>1. Init => TypeInv
  BY JobQueueAssumption DEF Init, TypeInv, HandsFull, TypeOK, Slots, Threads
<1>2. TypeInv /\ [Next]_vars => TypeInv'
  <2> SUFFICES ASSUME TypeInv, [Next]_vars PROVE TypeInv'
    OBVIOUS
  <2> USE JobQueueAssumption DEF TypeInv, HandsFull, TypeOK, Threads
  <2>1. ASSUME NEW u \in Users, Accept(u) PROVE TypeInv'
    BY <2>1 DEF Accept, queueVars
  <2>2. ASSUME EpollWait PROVE TypeInv'
    BY <2>2 DEF EpollWait, queueVars
  <2>3. ASSUME NEW u \in Users, Report(u) PROVE TypeInv'
    BY <2>3 DEF Report, EpollDel, queueVars
  <2>4. ASSUME PushWait PROVE TypeInv'
    BY <2>4 DEF PushWait, queueVars
  <2>5. ASSUME Push PROVE TypeInv'
    <3>1. waiting' \subseteq Threads
      BY <2>5 DEF Push, NotifyPopper, Signal
    <3>2. tail' \in Slots
      BY <2>5 DEF Push, Succ, Slots
    <3>3. QED BY <2>5, <3>1, <3>2 DEF Push
  <2>6. ASSUME ListenerExit PROVE TypeInv'
    BY <2>6 DEF ListenerExit, queueVars
  <2>7. ASSUME NEW w \in Workers, WorkerLoop(w) PROVE TypeInv'
    BY <2>7 DEF WorkerLoop, queueVars
  <2>8. ASSUME NEW w \in Workers, PopWait(w) PROVE TypeInv'
    BY <2>8 DEF PopWait, queueVars
  <2>9. ASSUME NEW w \in Workers, NEW held \in BOOLEAN, PopTake(w, held) PROVE TypeInv'
    <3>1. waiting' \subseteq Threads
      BY <2>9 DEF PopTake, NotifyPusher, Signal
    <3>2. Succ(head) \in Slots
      BY DEF Succ, Slots
    <3>3. lock' \subseteq {w}
      BY <2>9 DEF PopTake
    <3>4. pc' \in [Threads -> {"loop", "push", "pop", "work", "armed", "exit"}]
      BY <2>9 DEF PopTake
    <3>5. inHand' \in [Threads -> Users \union {NULL}]
      BY <2>9, <3>2 DEF PopTake
    <3>6. slot' \in [Slots -> Users \union {NULL}]
      BY <2>9, <3>2 DEF PopTake
    <3>7. QED BY <2>9, <3>1, <3>2, <3>3, <3>4, <3>5, <3>6 DEF PopTake
  <2>10. ASSUME NEW w \in Workers, Rearm(w) PROVE TypeInv'
    BY <2>10 DEF Rearm, queueVars
  <2>11. ASSUME NEW w \in Workers, Done(w) PROVE TypeInv'
    BY <2>11 DEF Done, queueVars
  <2>12. ASSUME NEW u \in Users, EpollRemove(u) PROVE TypeInv'
    BY <2>12 DEF EpollRemove, EpollDel, queueVars
  <2>13. ASSUME NEW u \in Users, JobManagerKick(u) PROVE TypeInv'
    BY <2>13 DEF JobManagerKick
  <2>14. ASSUME NEW t \in Threads, SpuriousWakeup(t) PROVE TypeInv'
    BY <2>14 DEF SpuriousWakeup, queueVars
  <2>15. ASSUME Stop PROVE TypeInv'
    BY <2>15 DEF Stop, queueVars
  <2>16. ASSUME UNCHANGED vars PROVE TypeInv'
    BY <2>16 DEF vars
  <2> HIDE DEF TypeInv
  <2>17. QED
    BY <2>1, <2>2, <2>3, <2>4, <2>5, <2>6, <2>7, <2>8, <2>9, <2>10, <2>11,
       <2>12, <2>13, <2>14, <2>15, <2>16 DEF Next, ListenerStep, WorkerStep
<1>3. QED BY <1>1, <1>2, PTL DEF Spec

\* The variables keep their types; in particular the two indices stay in the
\* ring and only workers hold jobLock from one step to the next.
THEOREM TypeCorrect == Spec => []TypeOK
<1>1. TypeInv => TypeOK
  BY DEF TypeInv
<1>2. QED BY <1>1, TypeInvHolds, PTL

-----------------------------------------------------------------------------
(* The window of live slots.  Everything that follows uses these facts and *)
(* forgets how Live compares indices.                                      *)

\* A push makes the slot at tail live, and no other.
LEMMA PushWindow ==
  ASSUME TypeOK, ~Full, tail' = Succ(tail), head' = head
  PROVE  /\ ~Live(tail)
         /\ \A p \in Slots : Live(p)' <=> Live(p) \/ p = tail
BY JobQueueAssumption DEF TypeOK, Full, Succ, Live, Slots

\* A pop takes the slot after head out of the window, and no other.
LEMMA PopWindow ==
  ASSUME TypeOK, ~Empty, head' = Succ(head), tail' = tail
  PROVE  /\ Succ(head) \in Slots
         /\ Live(Succ(head))
         /\ \A p \in Slots : Live(p)' <=> Live(p) /\ p # Succ(head)
BY JobQueueAssumption DEF TypeOK, Empty, Succ, Live, Slots

LEMMA QueuedMember ==
  \A u : u \in Queued <=> u # NULL /\ \E p \in Slots : Live(p) /\ slot[p] = u
BY DEF Queued

LEMMA QueuedMemberPrime ==
  \A u : u \in Queued' <=> u # NULL /\ \E p \in Slots : Live(p)' /\ slot'[p] = u
BY DEF Queued

-----------------------------------------------------------------------------
(* One queue entry per connection. *)

TurnInv == TypeInv /\ QueuedOnce /\ SerialUntilArmed

LEMMA TurnInvHolds == Spec => []TurnInv
<1>1. Init => TurnInv
  <2>1. Init => TypeInv
    BY JobQueueAssumption DEF Init, TypeInv, HandsFull, TypeOK, Slots, Threads
  <2>2. Init => QueuedOnce /\ SerialUntilArmed
    BY JobQueueAssumption
       DEF Init, QueuedOnce, SerialUntilArmed, Queued, Pushable, Slots, Threads
  <2>3. QED BY <2>1, <2>2 DEF TurnInv
<1>2. TurnInv /\ TypeInv' /\ [Next]_vars => TurnInv'
  <2> SUFFICES ASSUME TypeOK, HandsFull, QueuedOnce, SerialUntilArmed, [Next]_vars
               PROVE  QueuedOnce' /\ SerialUntilArmed'
    BY DEF TurnInv, TypeInv
  <2> USE JobQueueAssumption, QueuedMember, QueuedMemberPrime
  <2> DEFINE Goal == QueuedOnce' /\ SerialUntilArmed'
  <2>0. ASSUME UNCHANGED <<queueVars, armed, batch>>,
               inHand'[Listener] = inHand[Listener],
               \A w \in Workers : pc'[w] = "work" => pc[w] = "work" /\ inHand'[w] = inHand[w]
        PROVE  Goal
    BY <2>0 DEF QueuedOnce, SerialUntilArmed, Queued, Pushable, Live, Slots, queueVars
  <2>1. ASSUME NEW u \in Users, Accept(u) PROVE Goal
    <3>1. /\ UNCHANGED <<slot, head, tail, pc, inHand, batch>>
          /\ Pushable' = Pushable \union {u}
          /\ Queued' = Queued
          /\ \A p : Live(p)' <=> Live(p)
      BY <2>1 DEF Accept, Pushable, Queued, Live, queueVars
    <3>2. u \notin Queued /\ \A t \in Threads : inHand[t] # u
      BY <2>1 DEF Accept, Held
    <3>3. QED BY <3>1, <3>2 DEF QueuedOnce, SerialUntilArmed, Threads
  <2>2. ASSUME EpollWait PROVE Goal
    <3>1. /\ UNCHANGED <<slot, head, tail, pc, inHand>>
          /\ Pushable' = Pushable
          /\ Queued' = Queued
          /\ \A p : Live(p)' <=> Live(p)
      BY <2>2 DEF EpollWait, Pushable, Queued, Live, queueVars
    <3>2. QED BY <3>1 DEF QueuedOnce, SerialUntilArmed
  <2>3. ASSUME NEW u \in Users, Report(u) PROVE Goal
    <3>1. /\ UNCHANGED <<slot, head, tail>>
          /\ Pushable' = Pushable \ {u}
          /\ Queued' = Queued
          /\ \A p : Live(p)' <=> Live(p)
          /\ u \in Pushable
      BY <2>3 DEF Report, EpollDel, Pushable, Queued, Live, queueVars
    <3>2. /\ inHand'[Listener] = u
          /\ \A w \in Workers : pc'[w] = pc[w] /\ inHand'[w] = inHand[w]
      BY <2>3 DEF Report, TypeOK, Threads
    <3>3. QED BY <3>1, <3>2 DEF QueuedOnce, SerialUntilArmed
  <2>4. ASSUME PushWait PROVE Goal
    BY <2>0, <2>4 DEF PushWait
  <2>5. ASSUME Push PROVE Goal
    <3> DEFINE u == inHand[Listener]
    <3>1. /\ slot' = [slot EXCEPT ![tail] = u]
          /\ UNCHANGED <<armed, batch>>
          /\ ~Live(tail)
          /\ \A p \in Slots : Live(p)' <=> Live(p) \/ p = tail
      BY <2>5, PushWindow DEF Push
    <3>2. /\ inHand'[Listener] = NULL
          /\ \A w \in Workers : pc'[w] = pc[w] /\ inHand'[w] = inHand[w]
      BY <2>5 DEF Push, TypeOK, Threads
    <3>3. u # NULL
      BY <2>5 DEF Push, HandsFull, Threads
    <3>4. \A p \in Slots : slot'[p] = IF p = tail THEN u ELSE slot[p]
      BY <3>1 DEF TypeOK
    <3>5. Pushable' = Pushable
      BY <3>1 DEF Pushable
    <3>6. \A v \in Queued' : v \in Queued \/ v = u
      BY <3>1, <3>4
    <3>7. NULL \notin Pushable
      BY DEF Pushable, TypeOK
    <3>8. QueuedOnce'
      <4>1. ASSUME NEW p \in Slots, NEW q \in Slots, Live(p)', Live(q)',
                   slot'[p] = slot'[q], p # q, slot'[p] # NULL
            PROVE  FALSE
        <5>1. CASE p = tail
          BY <5>1, <4>1, <3>1, <3>4 DEF QueuedOnce
        <5>2. CASE q = tail
          BY <5>2, <4>1, <3>1, <3>4 DEF QueuedOnce
        <5>3. CASE p # tail /\ q # tail
          BY <5>3, <4>1, <3>1, <3>4 DEF QueuedOnce
        <5>4. QED BY <5>1, <5>2, <5>3
      <4>2. Queued' \intersect (Pushable' \union {inHand'[Listener]}) = {}
        BY <3>2, <3>5, <3>6 DEF QueuedOnce
      <4>3. inHand'[Listener] \notin Pushable'
        BY <3>2, <3>5, <3>7
      <4>4. QED BY <4>1, <4>2, <4>3 DEF QueuedOnce
    <3>9. SerialUntilArmed'
      <4>1. \A w \in Workers : pc[w] = "work" => inHand[w] # NULL
        BY DEF HandsFull, Threads
      <4>2. QED BY <4>1, <3>2, <3>5, <3>6 DEF SerialUntilArmed
    <3>10. QED BY <3>8, <3>9
  <2>6. ASSUME ListenerExit PROVE Goal
    <3>1. \A w \in Workers : pc'[w] = pc[w]
      BY <2>6 DEF ListenerExit, TypeOK, Threads
    <3>2. QED BY <2>0, <2>6, <3>1 DEF ListenerExit
  <2>7. ASSUME NEW w \in Workers, WorkerLoop(w) PROVE Goal
    <3>1. \A v \in Workers : pc'[v] = "work" => pc[v] = "work"
      BY <2>7 DEF WorkerLoop, TypeOK, Threads
    <3>2. QED BY <2>0, <2>7, <3>1 DEF WorkerLoop
  <2>8. ASSUME NEW w \in Workers, PopWait(w) PROVE Goal
    BY <2>0, <2>8 DEF PopWait
  <2>9. ASSUME NEW w \in Workers, NEW held \in BOOLEAN, PopTake(w, held) PROVE Goal
    <3> DEFINE next == Succ(head)
               user == slot[next]
               redo == user = NULL \/ ~held
    <3>1. /\ slot' = [slot EXCEPT ![next] = NULL]
          /\ next \in Slots
          /\ Live(next)
          /\ \A p \in Slots : Live(p)' <=> Live(p) /\ p # next
          /\ UNCHANGED <<armed, batch>>
      BY <2>9, PopWindow DEF PopTake
    <3>2. \A p \in Slots : slot'[p] = IF p = next THEN NULL ELSE slot[p]
      BY <3>1 DEF TypeOK
    <3>3. Pushable' = Pushable
      BY <3>1 DEF Pushable
    <3>4. \A v \in Queued' : v \in Queued /\ v # user
      BY <3>1, <3>2 DEF QueuedOnce
    <3>5. inHand'[Listener] = inHand[Listener]
      BY <2>9 DEF PopTake, TypeOK, Threads
    <3>6. \A v \in Workers : v # w => pc'[v] = pc[v] /\ inHand'[v] = inHand[v]
      BY <2>9 DEF PopTake, TypeOK, Threads
    <3>7. pc'[w] = "work" => ~redo /\ inHand'[w] = user
      BY <2>9 DEF PopTake, TypeOK, Threads
    <3>8. ~redo => user \in Queued
      BY <3>1
    <3>9. QueuedOnce'
      BY <3>1, <3>2, <3>3, <3>4, <3>5 DEF QueuedOnce
    <3>10. SerialUntilArmed'
      <4>1. ASSUME NEW v \in Workers, pc'[v] = "work"
            PROVE  inHand'[v] \notin Pushable' \union Queued' \union {inHand'[Listener]}
        <5>1. CASE v = w
          BY <5>1, <4>1, <3>3, <3>4, <3>5, <3>7, <3>8 DEF QueuedOnce
        <5>2. CASE v # w
          BY <5>2, <4>1, <3>3, <3>4, <3>5, <3>6 DEF SerialUntilArmed
        <5>3. QED BY <5>1, <5>2
      <4>2. ASSUME NEW v \in Workers, NEW x \in Workers \ {v},
                   pc'[v] = "work", pc'[x] = "work"
            PROVE  inHand'[x] # inHand'[v]
        <5>1. CASE v = w
          BY <5>1, <4>2, <3>6, <3>7, <3>8 DEF SerialUntilArmed
        <5>2. CASE x = w
          BY <5>2, <4>2, <3>6, <3>7, <3>8 DEF SerialUntilArmed
        <5>3. CASE v # w /\ x # w
          BY <5>3, <4>2, <3>6 DEF SerialUntilArmed
        <5>4. QED BY <5>1, <5>2, <5>3
      <4>3. QED BY <4>1, <4>2 DEF SerialUntilArmed
    <3>11. QED BY <3>9, <3>10
  <2>10. ASSUME NEW w \in Workers, Rearm(w) PROVE Goal
    <3>1. /\ UNCHANGED <<slot, head, tail, inHand>>
          /\ Pushable' = Pushable \union {inHand[w]}
          /\ Queued' = Queued
          /\ \A p : Live(p)' <=> Live(p)
      BY <2>10 DEF Rearm, Pushable, Queued, Live, queueVars
    <3>2. /\ pc[w] = "work"
          /\ \A v \in Workers : pc'[v] = "work" => pc[v] = "work" /\ v # w
      BY <2>10 DEF Rearm, TypeOK, Threads
    <3>3. QED BY <3>1, <3>2 DEF QueuedOnce, SerialUntilArmed
  <2>11. ASSUME NEW w \in Workers, Done(w) PROVE Goal
    <3>1. /\ inHand'[Listener] = inHand[Listener]
          /\ \A v \in Workers : pc'[v] = "work" => pc[v] = "work" /\ inHand'[v] = inHand[v]
      BY <2>11 DEF Done, TypeOK, Threads
    <3>2. QED BY <2>0, <2>11, <3>1 DEF Done
  <2>12. ASSUME NEW u \in Users, EpollRemove(u) PROVE Goal
    <3>1. /\ UNCHANGED <<slot, head, tail, pc, inHand>>
          /\ Pushable' \subseteq Pushable
          /\ Queued' = Queued
          /\ \A p : Live(p)' <=> Live(p)
      BY <2>12 DEF EpollRemove, EpollDel, Pushable, Queued, Live, queueVars
    <3>2. QED BY <3>1 DEF QueuedOnce, SerialUntilArmed
  <2>13. ASSUME NEW u \in Users, JobManagerKick(u) PROVE Goal
    <3>1. /\ UNCHANGED <<head, tail, pc, inHand, armed, batch>>
          /\ Pushable' = Pushable
          /\ \A p : Live(p)' <=> Live(p)
          /\ \A p \in Slots : slot'[p] = slot[p] \/ slot'[p] = NULL
      BY <2>13 DEF JobManagerKick, Pushable, Live
    <3>2. Queued' \subseteq Queued
      BY <3>1
    <3>3. QED BY <3>1, <3>2 DEF QueuedOnce, SerialUntilArmed
  <2>14. ASSUME NEW t \in Threads, SpuriousWakeup(t) PROVE Goal
    BY <2>0, <2>14 DEF SpuriousWakeup
  <2>15. ASSUME Stop PROVE Goal
    BY <2>0, <2>15 DEF Stop
  <2>16. ASSUME UNCHANGED vars PROVE Goal
    BY <2>0, <2>16 DEF vars, queueVars
  <2>17. QED
    BY <2>1, <2>2, <2>3, <2>4, <2>5, <2>6, <2>7, <2>8, <2>9, <2>10, <2>11,
       <2>12, <2>13, <2>14, <2>15, <2>16 DEF Next, ListenerStep, WorkerStep
<1>3. QED BY <1>1, <1>2, TypeInvHolds, PTL DEF Spec

\* A connection has at most one entry in the queue, and none while epoll or
\* the listener could still queue it.
THEOREM QueuedOnceAlways == Spec => []QueuedOnce
<1>1. TurnInv => QueuedOnce
  BY DEF TurnInv
<1>2. QED BY <1>1, TurnInvHolds, PTL

\* Until it is armed again, a popped connection belongs to one worker, however
\* many workers run.
THEOREM SerialUntilArmedAlways == Spec => []SerialUntilArmed
<1>1. TurnInv => SerialUntilArmed
  BY DEF TurnInv
<1>2. QED BY <1>1, TurnInvHolds, PTL

-----------------------------------------------------------------------------
(* No lost wakeup with one worker. *)

LEMMA NotEmptyAndFull == TypeOK => ~(Empty /\ Full)
BY JobQueueAssumption DEF TypeOK, Empty, Full, Slots

\* With one worker, as config.h sets it, a thread asleep on the shared
\* condition variable always has its reason to sleep, whatever the queue size:
\* no signal goes to the wrong thread.
THEOREM OneWorkerNoLostWakeup ==
  ASSUME NEW worker, Workers = {worker}
  PROVE  Spec => []SleepersHaveCause
<1>1. Init => SleepersHaveCause
  BY DEF Init, SleepersHaveCause
<1>2. TypeOK /\ SleepersHaveCause /\ [Next]_vars => SleepersHaveCause'
  <2> SUFFICES ASSUME TypeOK, SleepersHaveCause, [Next]_vars
               PROVE  SleepersHaveCause'
    OBVIOUS
  <2> USE Workers = {worker}, JobQueueAssumption DEF SleepersHaveCause
  <2>0. ASSUME UNCHANGED <<head, tail>>, waiting' \subseteq waiting
        PROVE  SleepersHaveCause'
    BY <2>0 DEF Empty, Full
  <2>1. ASSUME waiting' = {} PROVE SleepersHaveCause'
    BY <2>1
  <2>2. ASSUME PushWait PROVE SleepersHaveCause'
    BY <2>2, NotEmptyAndFull DEF PushWait, Empty, Full, queueVars
  <2>3. ASSUME NEW w \in Workers, PopWait(w) PROVE SleepersHaveCause'
    BY <2>3, NotEmptyAndFull DEF PopWait, Empty, Full, queueVars
  <2>4. ASSUME Push PROVE SleepersHaveCause'
    <3>1. waiting \subseteq {worker}
      BY <2>4 DEF Push, CanEnter, TypeOK, Threads
    <3>2. waiting' = {}
      BY <2>4, <3>1 DEF Push, NotifyPopper, Signal
    <3>3. QED BY <3>2, <2>1
  <2>5. ASSUME NEW w \in Workers, NEW held \in BOOLEAN, PopTake(w, held)
        PROVE  SleepersHaveCause'
    <3>1. waiting \subseteq {Listener}
      BY <2>5 DEF PopTake, CanEnter, TypeOK, Threads
    <3>2. waiting' = {}
      BY <2>5, <3>1 DEF PopTake, NotifyPusher, Signal
    <3>3. QED BY <3>2, <2>1
  <2>6. CASE \/ \E u \in Users : Accept(u) \/ Report(u) \/ EpollRemove(u) \/ JobManagerKick(u)
             \/ EpollWait \/ ListenerExit \/ Stop \/ UNCHANGED vars
    BY <2>6, <2>0 DEF Accept, Report, EpollRemove, JobManagerKick, EpollWait,
                      ListenerExit, Stop, vars, queueVars
  <2>7. CASE \/ \E w \in Workers : WorkerLoop(w) \/ Rearm(w) \/ Done(w)
             \/ \E t \in Threads : SpuriousWakeup(t)
    BY <2>7, <2>0 DEF WorkerLoop, Rearm, Done, SpuriousWakeup, queueVars
  <2>8. QED
    BY <2>2, <2>3, <2>4, <2>5, <2>6, <2>7 DEF Next, ListenerStep, WorkerStep
<1>3. QED BY <1>1, <1>2, TypeCorrect, PTL DEF Spec

-----------------------------------------------------------------------------
(* The ring implements JobService.  The line the service sees is the live   *)
(* slots without the holes: a push appends to it, a pop takes its first     *)
(* entry or a hole it cannot see, and a kick leaves it without one entry.   *)

\* What a live slot holds: a connection, or the hole a kick left.
Entries == Users \union {NULL}

\* The live slots are as many as head and tail leave, and hold entries.
LEMMA RingType ==
  ASSUME TypeOK
  PROVE  /\ Occupancy \in 0 .. QueueSize - 1
         /\ \A i \in 1 .. Occupancy : SlotAt(i) \in Slots /\ Live(SlotAt(i))
         /\ RingSeq \in Seq(Entries) /\ Len(RingSeq) = Occupancy
<1>1. Occupancy \in 0 .. QueueSize - 1
  BY JobQueueAssumption DEF TypeOK, Slots, Occupancy
<1>2. \A i \in 1 .. Occupancy : SlotAt(i) \in Slots /\ Live(SlotAt(i))
  BY JobQueueAssumption DEF TypeOK, Slots, Occupancy, SlotAt, Live
<1>3. \A i \in 1 .. Occupancy : slot[SlotAt(i)] \in Entries
  BY <1>2 DEF TypeOK, Entries
<1> QED BY <1>1, <1>2, <1>3 DEF RingSeq

\* The waiting jobs are queued in the ring.
LEMMA WaitingQueued ==
  ASSUME TypeOK
  PROVE  Members(Without(RingSeq, NULL)) \subseteq Queued
<1>1. Members(Without(RingSeq, NULL)) = Members(RingSeq) \ {NULL}
  BY RingType, WithoutMembers
<1>2. DOMAIN RingSeq = 1 .. Occupancy /\ \A i \in 1 .. Occupancy : RingSeq[i] = slot[SlotAt(i)]
  BY DEF RingSeq
<1> QED BY <1>1, <1>2, RingType DEF Members, Queued

\* Writing at tail and moving it appends the job to the ring's line.
LEMMA RingPush ==
  ASSUME TypeOK, ~Full, tail' = Succ(tail), head' = head,
         NEW u \in Users, slot' = [slot EXCEPT ![tail] = u]
  PROVE  Occupancy < QueueSize - 1 /\ RingSeq' = Append(RingSeq, u)
<1>1. Occupancy < QueueSize - 1 /\ Occupancy' = Occupancy + 1
  BY JobQueueAssumption DEF TypeOK, Slots, Occupancy, Full, Succ
<1>2. \A i \in 1 .. Occupancy : SlotAt(i)' = SlotAt(i) /\ SlotAt(i) # tail
  BY JobQueueAssumption DEF TypeOK, Slots, Occupancy, Full, SlotAt
<1>3. \A i : i = Occupancy + 1 => SlotAt(i)' = tail
  BY JobQueueAssumption DEF TypeOK, Slots, Occupancy, Full, SlotAt
<1>4. TypeOK => tail \in Slots /\ slot'[tail] = u /\ \A p \in Slots : p # tail => slot'[p] = slot[p]
  BY DEF TypeOK
<1>5. \A i \in 1 .. Occupancy' : RingSeq'[i] = IF i = Occupancy + 1 THEN u ELSE RingSeq[i]
  BY <1>1, <1>2, <1>3, <1>4, RingType DEF RingSeq
<1>6. RingSeq' = [i \in 1 .. Occupancy + 1 |-> RingSeq'[i]]
  BY <1>1 DEF RingSeq
<1>7. RingSeq' = [i \in 1 .. Occupancy + 1 |-> IF i = Occupancy + 1 THEN u ELSE RingSeq[i]]
  BY <1>1, <1>5, <1>6
<1> DEFINE longer == Append(RingSeq, u)
<1>8. /\ RingSeq \in Seq(Entries) /\ Len(RingSeq) = Occupancy /\ u \in Entries
  BY RingType DEF Entries
<1>9. /\ longer \in Seq(Entries) /\ Len(longer) = Occupancy + 1
      /\ \A i \in 1 .. Occupancy + 1 : longer[i] = IF i = Occupancy + 1 THEN u ELSE RingSeq[i]
  BY <1>8
<1> HIDE DEF longer
<1>10. RingSeq' \in Seq(Entries) /\ Len(RingSeq') = Occupancy + 1
  BY <1>7, <1>8, RingType
<1>11. RingSeq' = longer
  BY <1>7, <1>9, <1>10, SeqEqual
<1> QED BY <1>1, <1>11 DEF longer

\* Moving head and reading there takes the first entry of the line.
LEMMA RingPop ==
  ASSUME TypeOK, ~Empty, head' = Succ(head), tail' = tail,
         slot' = [slot EXCEPT ![Succ(head)] = NULL]
  PROVE  RingSeq # <<>> /\ RingSeq[1] = slot[Succ(head)] /\ RingSeq' = Tail(RingSeq)
<1>1. Occupancy >= 1 /\ Occupancy' = Occupancy - 1
  BY JobQueueAssumption DEF TypeOK, Slots, Occupancy, Empty, Succ
<1>2. SlotAt(1) = Succ(head)
  BY JobQueueAssumption DEF TypeOK, Slots, Succ, SlotAt
<1>3. \A i \in 1 .. Occupancy - 1 : SlotAt(i)' = SlotAt(i + 1) /\ SlotAt(i + 1) # Succ(head)
  BY JobQueueAssumption DEF TypeOK, Slots, Occupancy, Empty, Succ, SlotAt
<1>4. \A p \in Slots : p # Succ(head) => slot'[p] = slot[p]
  BY DEF TypeOK
<1>5. \A i \in 1 .. Occupancy - 1 : RingSeq'[i] = RingSeq[i + 1]
  BY <1>1, <1>3, <1>4, RingType DEF RingSeq
<1> QED BY <1>1, <1>2, <1>5, RingType DEF RingSeq

\* Kicking makes a hole of each entry of the kicked connection, and of no other.
LEMMA RingKick ==
  ASSUME TypeOK, UNCHANGED <<head, tail>>, NEW u \in Users,
         slot' = [p \in Slots |-> IF Live(p) /\ slot[p] = u THEN NULL ELSE slot[p]]
  PROVE  RingSeq' \in Seq(Entries) /\ Holes(RingSeq', RingSeq, u, NULL)
<1>1. Occupancy' = Occupancy /\ \A i : SlotAt(i)' = SlotAt(i)
  BY DEF Occupancy, SlotAt
<1>2. \A i \in 1 .. Occupancy : slot'[SlotAt(i)] = HoleFor(slot[SlotAt(i)], u, NULL)
  BY RingType DEF HoleFor
<1>3. RingSeq' = [i \in 1 .. Occupancy |-> HoleFor(RingSeq[i], u, NULL)]
  BY <1>1, <1>2 DEF RingSeq
<1>4. \A i \in 1 .. Occupancy : HoleFor(RingSeq[i], u, NULL) \in Entries
  BY RingType DEF HoleFor, Entries
<1> QED BY <1>3, <1>4, RingType DEF Holes

\* A thread that is about to ask for a job, or has ended, holds none: what it
\* takes next overwrites nothing (jobs.c JobManagerPop's caller).
HandsEmpty == \A t \in Threads : pc[t] \in {"loop", "pop", "exit"} => inHand[t] = NULL

\* The hands are empty where the code leaves them so, whatever the interleaving.
LEMMA HandsEmptyHolds == Spec => []HandsEmpty
<1>1. Init => HandsEmpty
  BY DEF Init, HandsEmpty
<1>2. TypeInv /\ HandsEmpty /\ [Next]_vars => HandsEmpty'
  <2> SUFFICES ASSUME TypeInv, HandsEmpty, [Next]_vars PROVE HandsEmpty'
    OBVIOUS
  <2> USE JobQueueAssumption DEF HandsEmpty, TypeInv, HandsFull, TypeOK, Threads
  <2>1. CASE \/ \E u \in Users : Accept(u) \/ Report(u) \/ EpollRemove(u) \/ JobManagerKick(u)
             \/ EpollWait \/ PushWait \/ Push \/ ListenerExit \/ Stop \/ UNCHANGED vars
    BY <2>1 DEF Accept, Report, EpollRemove, JobManagerKick, EpollWait, PushWait, Push, ListenerExit, Stop, vars
  <2>2. ASSUME NEW w \in Workers, WorkerLoop(w) \/ PopWait(w) \/ Rearm(w) \/ Done(w) PROVE HandsEmpty'
    BY <2>2 DEF WorkerLoop, PopWait, Rearm, Done
  <2>3. ASSUME NEW w \in Workers, NEW held \in BOOLEAN, PopTake(w, held) PROVE HandsEmpty'
    BY <2>3 DEF PopTake
  <2>4. ASSUME NEW t \in Threads, SpuriousWakeup(t) PROVE HandsEmpty'
    BY <2>4 DEF SpuriousWakeup
  <2> QED BY <2>1, <2>2, <2>3, <2>4 DEF Next, ListenerStep, WorkerStep
<1> QED BY <1>1, <1>2, TypeInvHolds, PTL DEF Spec

\* What the service sees of the ring: the waiting jobs, in order.
ServiceLine == Without(RingSeq, NULL)

\* The service sees no change when the ring is left alone.
LEMMA SameLine ==
  ASSUME UNCHANGED queueVars
  PROVE  ServiceLine' = ServiceLine
BY DEF queueVars, ServiceLine, RingSeq, Occupancy, SlotAt

\* The empty ring shows the service an empty line.
LEMMA ServiceInit == Init => Service!Init
<1> SUFFICES ASSUME Init PROVE Service!Init
  OBVIOUS
<1>1. RingSeq = <<>>
  <2>1. Occupancy = 0
    BY JobQueueAssumption DEF Init, Occupancy
  <2>2. RingSeq = [i \in 1 .. 0 |-> slot[SlotAt(i)]]
    BY <2>1 DEF RingSeq
  <2> QED BY <2>2
<1>2. Without(RingSeq, NULL) = <<>>
  BY <1>1, WithoutEmpty
<1> QED BY <1>2 DEF Init, Service!Init, Threads

\* Every step of the ring is a step of the service or invisible to it, one step
\* of the proof for each handler.
LEMMA ServiceStep ==
  ASSUME TypeOK, HandsFull, HandsEmpty, [Next]_vars
  PROVE  [Service!Next]_(Service!vars)
<1> DEFINE J == Without(RingSeq, NULL)
<1> USE DEF Service!vars
<1>1. ASSUME NEW u \in Users, Accept(u) PROVE Service!Accept(u)
  <2>1. J' = J
    BY <1>1, SameLine DEF Accept, ServiceLine
  <2>2. u \notin Service!Waiting
    BY <1>1, WaitingQueued DEF Accept, Service!Waiting, Members
  <2>3. DOMAIN inHand = Threads /\ u # NULL
    BY JobQueueAssumption DEF TypeOK
  <2> QED BY <1>1, <2>1, <2>2, <2>3 DEF Accept, Service!Accept, Held
<1>2. ASSUME EpollWait PROVE Service!EpollWait
  <2>1. J' = J
    BY <1>2, SameLine DEF EpollWait, ServiceLine
  <2> QED BY <1>2, <2>1 DEF EpollWait, Service!EpollWait
<1>3. ASSUME NEW u \in Users, Report(u) PROVE Service!Report(u)
  <2>1. J' = J
    BY <1>3, SameLine DEF Report, ServiceLine
  <2> QED BY <1>3, <2>1 DEF Report, EpollDel, Service!Report, HandsEmpty, Threads
<1>4. ASSUME Push PROVE Service!Push
  <2>1. pc[Listener] = "push" /\ inHand[Listener] \in Users
    BY <1>4 DEF Push, HandsFull, TypeOK, Threads
  <2> DEFINE u == inHand[Listener]
  <2>2. Occupancy < QueueSize - 1 /\ RingSeq' = Append(RingSeq, u)
    BY <1>4, <2>1, RingPush DEF Push
  <2>3. RingSeq \in Seq(Entries) /\ u \in Entries /\ u # NULL /\ Len(RingSeq) = Occupancy
    BY <2>1, RingType, JobQueueAssumption DEF Entries
  <2> HIDE DEF u
  <2>4. Without(Append(RingSeq, u), NULL) = Append(J, u)
    BY <2>3, WithoutAppend
  <2>5. Len(J) <= Occupancy /\ Len(J) \in Nat
    BY <2>3, WithoutType
  <2>6. Len(J) < QueueSize - 1
    BY <2>2, <2>5, RingType, JobQueueAssumption
  <2>7. J' = Append(J, u)
    BY <2>2, <2>4
  <2> QED BY <1>4, <2>3, <2>6, <2>7 DEF Push, Service!Push, u
<1>5. ASSUME NEW w \in Workers, NEW held \in BOOLEAN, PopTake(w, held)
      PROVE  Service!Pop(w) \/ Service!Discard \/ UNCHANGED Service!vars
  <2> DEFINE user == slot[Succ(head)]
  <2>1. RingSeq # <<>> /\ RingSeq[1] = user /\ RingSeq' = Tail(RingSeq)
    BY <1>5, RingPop DEF PopTake
  <2>2. inHand[w] = NULL
    BY <1>5 DEF PopTake, HandsEmpty, Threads
  <2>3. IF user = NULL THEN J = Without(Tail(RingSeq), NULL)
        ELSE J # <<>> /\ Head(J) = user /\ Tail(J) = Without(Tail(RingSeq), NULL)
    BY <2>1, RingType, WithoutFirst
  <2>4. IF user = NULL THEN J' = J ELSE J # <<>> /\ Head(J) = user /\ J' = Tail(J)
    BY <2>1, <2>3
  <2>5. UNCHANGED <<armed, batch>>
    BY <1>5 DEF PopTake
  <2>6. inHand' = IF user = NULL \/ ~held THEN inHand ELSE [inHand EXCEPT ![w] = user]
    BY <1>5 DEF PopTake
  <2> HIDE DEF user
  <2>7. CASE user = NULL
    BY <2>4, <2>5, <2>6, <2>7
  <2>8. CASE user # NULL /\ ~held
    BY <2>4, <2>5, <2>6, <2>8 DEF Service!Discard
  <2>9. CASE user # NULL /\ held
    BY <2>2, <2>4, <2>5, <2>6, <2>9 DEF Service!Pop
  <2> QED BY <2>7, <2>8, <2>9
<1>6. ASSUME NEW w \in Workers, Rearm(w) PROVE Service!Rearm(w)
  <2>1. J' = J
    BY <1>6, SameLine DEF Rearm, ServiceLine
  <2> QED BY <1>6, <2>1 DEF Rearm, Service!Rearm, HandsFull, Threads
<1>7. ASSUME NEW w \in Workers, Done(w) PROVE Service!Done(w)
  <2>1. J' = J
    BY <1>7, SameLine DEF Done, ServiceLine
  <2> QED BY <1>7, <2>1 DEF Done, Service!Done, HandsFull, Threads
<1>8. ASSUME NEW u \in Users, JobManagerKick(u) PROVE Service!Strike(u)
  <2>1. RingSeq' \in Seq(Entries) /\ Holes(RingSeq', RingSeq, u, NULL)
    BY <1>8, RingKick DEF JobManagerKick
  <2>2. u # NULL /\ RingSeq \in Seq(Entries)
    BY JobQueueAssumption, RingType
  <2>3. HolesOut(Entries, RingSeq, u, NULL)
    BY <2>2, WithoutHoles
  <2>4. J' = Without(J, u)
    BY <2>1, <2>3 DEF HolesOut
  <2> QED BY <1>8, <2>4 DEF JobManagerKick, Service!Strike, Service!Without, Service!Kept, Without, Kept
<1>9. ASSUME NEW u \in Users, EpollRemove(u) PROVE Service!Disarm(u)
  <2>1. J' = J
    BY <1>9, SameLine DEF EpollRemove, ServiceLine
  <2> QED BY <1>9, <2>1 DEF EpollRemove, EpollDel, Service!Disarm
<1>10. CASE \/ PushWait \/ ListenerExit \/ Stop \/ UNCHANGED vars
            \/ \E w \in Workers : WorkerLoop(w) \/ PopWait(w)
            \/ \E t \in Threads : SpuriousWakeup(t)
  <2>1. UNCHANGED <<queueVars, inHand, armed, batch>>
    <3>1. CASE PushWait \/ ListenerExit \/ Stop \/ UNCHANGED vars
      BY <3>1 DEF PushWait, ListenerExit, Stop, vars, queueVars
    <3>2. ASSUME NEW w \in Workers, WorkerLoop(w) \/ PopWait(w)
          PROVE  UNCHANGED <<queueVars, inHand, armed, batch>>
      BY <3>2 DEF WorkerLoop, PopWait
    <3>3. ASSUME NEW t \in Threads, SpuriousWakeup(t)
          PROVE  UNCHANGED <<queueVars, inHand, armed, batch>>
      BY <3>3 DEF SpuriousWakeup
    <3> QED BY <1>10, <3>1, <3>2, <3>3
  <2>2. J' = J
    BY <2>1, SameLine DEF ServiceLine
  <2> QED BY <2>1, <2>2
<1> QED
  BY <1>1, <1>2, <1>3, <1>4, <1>5, <1>6, <1>7, <1>8, <1>9, <1>10
     DEF Next, ListenerStep, WorkerStep, Service!Next

\* The ring with its lock, its one condition variable and its holes promises
\* what the service does: first pushed, first served, each job once, and a kick
\* strikes out one connection and leaves the order of the others (jobs.c), for
\* every queue size, every set of connections and every number of workers.
THEOREM QueueImplementsService == Spec => ImplementsService
<1>1. TypeInv /\ HandsEmpty /\ [Next]_vars => [Service!Next]_(Service!vars)
  BY ServiceStep DEF TypeInv
<1>2. Spec => []HandsEmpty
  BY HandsEmptyHolds
<1> QED BY ServiceInit, <1>1, <1>2, TypeInvHolds, PTL DEF Spec, ImplementsService, Service!Spec
=============================================================================
