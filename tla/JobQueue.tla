------------------------------ MODULE JobQueue ------------------------------
(***************************************************************************)
(* The job queue between the listener thread and the worker threads:       *)
(* server/run/jobs.c, with the loops of listener.c and worker.c that call  *)
(* it.  The queue is a ring of QueueSize slots; head is the slot popped    *)
(* last and tail the next free one, so that one slot is always unused.     *)
(* A single condition variable serves the poppers and the pusher alike.    *)
(*                                                                         *)
(* A connection goes round a circuit: epoll reports it (armed), the        *)
(* listener disarms it and pushes it, a worker pops it, arms it again and  *)
(* lets go of it.  Users are connection records; a record released and     *)
(* accepted again is a new one here (reuse of the address is the subject   *)
(* of UserLifecycle).                                                      *)
(***************************************************************************)
EXTENDS Naturals

CONSTANTS Workers,    \* worker threads (CONFIG_WORKER_COUNT of them)
          Listener,   \* the listener thread, the only caller of JobManagerPush
          Users,      \* connection records
          NULL,       \* an empty slot, no user in hand
          QueueSize   \* CONFIG_JOB_QUEUE_SIZE

ASSUME JobQueueAssumption ==
  /\ QueueSize \in Nat \ {0, 1}
  /\ Workers # {} /\ Listener \notin Workers
  /\ NULL \notin Users

VARIABLES slot,     \* jobQueue[]
          head,     \* pJobQueueHead - jobQueue
          tail,     \* pJobQueueTail - jobQueue
          lock,     \* the set of threads that hold jobLock between two steps
          waiting,  \* threads asleep in pthread_cond_wait(&cond, &jobLock)
          pc,       \* where each thread is
          inHand,   \* the record a thread works on
          armed,    \* records registered in serverIOPool
          batch,    \* events epoll_wait returned and listenLoop has still to handle
          running   \* IsServerRunning

queueVars == <<slot, head, tail>>
vars == <<slot, head, tail, lock, waiting, pc, inHand, armed, batch, running>>

-----------------------------------------------------------------------------

Threads == Workers \union {Listener}
Slots == 0 .. QueueSize - 1

\* Mutant: the modulo is forgotten.
SuccNoWrap(p) == p + 1

\* jobQueue + (p - jobQueue + 1) % CONFIG_JOB_QUEUE_SIZE
Succ(p) == IF p + 1 = QueueSize THEN 0 ELSE p + 1

Empty == head + 1 = tail \/ head + 1 = tail + QueueSize
\* Mutant: full is noticed one push too late.
FullLate == tail + 1 = head

Full == head = tail

\* The slots that hold entries: from the one after head up to the one before tail.
Live(p) == IF head < tail THEN head < p /\ p < tail
                          ELSE head < p \/ p < tail

\* pthread_cond_signal: one waiter, whichever, wakes; none if nobody waits.
Signal == IF waiting = {} THEN UNCHANGED waiting
          ELSE \E t \in waiting : waiting' = waiting \ {t}

\* A push signals if the queue was empty, a pop if it was full.
\* Mutants: the test is made after the index has moved, and so never holds.
NotifyPopperNever == UNCHANGED waiting
NotifyPusherNever == UNCHANGED waiting

NotifyPopper == IF Empty THEN Signal ELSE UNCHANGED waiting

NotifyPusher == IF Full THEN Signal ELSE UNCHANGED waiting

\* epoll_ctl(EPOLL_CTL_DEL).  Mutant: the record stays registered.
EpollDelNothing(u) == UNCHANGED armed

EpollDel(u) == armed' = armed \ {u}

\* t can run a step inside jobLock: it holds it, or nobody does and t was not
\* put to sleep on the condition.
CanEnter(t) == lock \subseteq {t} /\ t \notin waiting

Queued == {slot[p] : p \in {q \in Slots : Live(q)}} \ {NULL}
Held == {inHand[t] : t \in Threads} \ {NULL}

-----------------------------------------------------------------------------

Init ==
  /\ slot = [p \in Slots |-> NULL]
  /\ head = 0
  /\ tail = 1
  /\ lock = {}
  /\ waiting = {}
  /\ pc = [t \in Threads |-> "loop"]
  /\ inHand = [t \in Threads |-> NULL]
  /\ armed = {}
  /\ batch = {}
  /\ running = TRUE

\* accept() gives a connection: a new record, registered in epoll.
Accept(u) ==
  /\ pc[Listener] = "loop" /\ running
  /\ u \notin armed \union batch \union Queued \union Held
  /\ armed' = armed \union {u}
  /\ UNCHANGED <<queueVars, lock, waiting, pc, inHand, batch, running>>

\* epoll_wait: some of the armed records have data.
EpollWait ==
  /\ pc[Listener] = "loop" /\ running
  /\ batch = {}
  /\ \E ready \in SUBSET armed : batch' = ready
  /\ UNCHANGED <<queueVars, lock, waiting, pc, inHand, armed, running>>

\* The next event of the batch: EpollRemove(u), then into JobManagerPush(u).
Report(u) ==
  /\ pc[Listener] = "loop"
  /\ u \in batch
  /\ batch' = batch \ {u}
  /\ EpollDel(u)
  /\ inHand' = [inHand EXCEPT ![Listener] = u]
  /\ pc' = [pc EXCEPT ![Listener] = "push"]
  /\ UNCHANGED <<queueVars, lock, waiting, running>>

PushWait ==
  /\ pc[Listener] = "push" /\ CanEnter(Listener)
  /\ Full
  /\ waiting' = waiting \union {Listener}
  /\ UNCHANGED <<queueVars, lock, pc, inHand, armed, batch, running>>

\* JobManagerPush once the queue has room; signals if it was empty.
Push ==
  /\ pc[Listener] = "push" /\ CanEnter(Listener)
  /\ ~Full
  /\ slot' = [slot EXCEPT ![tail] = inHand[Listener]]
  /\ tail' = Succ(tail)
  /\ inHand' = [inHand EXCEPT ![Listener] = NULL]
  /\ pc' = [pc EXCEPT ![Listener] = "loop"]
  /\ NotifyPopper
  /\ UNCHANGED <<head, lock, armed, batch, running>>

\* WorkerMain goes round its loop while IsServerRunning.
WorkerLoop(w) ==
  /\ pc[w] = "loop"
  /\ pc' = [pc EXCEPT ![w] = IF running THEN "pop" ELSE "exit"]
  /\ UNCHANGED <<queueVars, lock, waiting, inHand, armed, batch, running>>

\* listenLoop tests IsServerRunning between two batches.
ListenerExit ==
  /\ pc[Listener] = "loop" /\ batch = {} /\ ~running
  /\ pc' = [pc EXCEPT ![Listener] = "exit"]
  /\ UNCHANGED <<queueVars, lock, waiting, inHand, armed, batch, running>>

PopWait(w) ==
  /\ pc[w] = "pop" /\ CanEnter(w)
  /\ Empty
  /\ waiting' = waiting \union {w}
  /\ lock' = {}
  /\ UNCHANGED <<queueVars, pc, inHand, armed, batch, running>>

\* One round of JobManagerPop: take the next entry, signal if the queue was
\* full, and keep the record if there is one and OnlineUserHold(user) gets it
\* (held: the record's read lock may be refused while it is being deleted).
\* Otherwise go round again without giving up jobLock, or return NULL when the
\* server is stopping.
PopTake(w, held) ==
  /\ pc[w] = "pop" /\ CanEnter(w)
  /\ ~Empty
  /\ LET next == Succ(head)
         user == slot[next]
         redo == user = NULL \/ ~held
     IN  /\ head' = next
         /\ slot' = [slot EXCEPT ![next] = NULL]
         /\ inHand' = IF redo THEN inHand ELSE [inHand EXCEPT ![w] = user]
         /\ lock' = IF redo /\ running THEN {w} ELSE {}
         /\ pc' = [pc EXCEPT ![w] = IF ~redo THEN "work"
                                    ELSE IF running THEN "pop" ELSE "loop"]
  /\ NotifyPusher
  /\ UNCHANGED <<tail, armed, batch, running>>

\* The worker arms the record it works on, before or after processing its packet.
Rearm(w) ==
  /\ pc[w] = "work"
  /\ armed' = armed \union {inHand[w]}
  /\ pc' = [pc EXCEPT ![w] = "armed"]
  /\ UNCHANGED <<queueVars, lock, waiting, inHand, batch, running>>

\* UserDrop after the record was armed, or the record is deleted.
Done(w) ==
  /\ pc[w] \in {"work", "armed"}
  /\ pc' = [pc EXCEPT ![w] = "loop"]
  /\ inHand' = [inHand EXCEPT ![w] = NULL]
  /\ UNCHANGED <<queueVars, lock, waiting, armed, batch, running>>

\* The thread that deletes u, or logs it in, takes it out of epoll ...
EpollRemove(u) ==
  /\ EpollDel(u)
  /\ UNCHANGED <<queueVars, lock, waiting, pc, inHand, batch, running>>

\* ... and out of the queue: every entry for u becomes a hole.
JobManagerKick(u) ==
  /\ lock = {}
  /\ slot' = [p \in Slots |-> IF Live(p) /\ slot[p] = u THEN NULL ELSE slot[p]]
  /\ UNCHANGED <<head, tail, lock, waiting, pc, inHand, armed, batch, running>>

\* POSIX lets pthread_cond_wait return without a signal.
SpuriousWakeup(t) ==
  /\ t \in waiting
  /\ waiting' = waiting \ {t}
  /\ UNCHANGED <<queueVars, lock, pc, inHand, armed, batch, running>>

\* "stop" on the console clears IsServerRunning.
Stop ==
  /\ running
  /\ running' = FALSE
  /\ UNCHANGED <<queueVars, lock, waiting, pc, inHand, armed, batch>>

ListenerStep == \/ \E u \in Users : Accept(u) \/ Report(u)
                \/ EpollWait
                \/ PushWait
                \/ Push
                \/ ListenerExit

WorkerStep(w) == \/ WorkerLoop(w)
                 \/ PopWait(w)
                 \/ \E held \in BOOLEAN : PopTake(w, held)
                 \/ Rearm(w)
                 \/ Done(w)

Next == \/ ListenerStep
        \/ \E w \in Workers : WorkerStep(w)
        \/ \E u \in Users : EpollRemove(u) \/ JobManagerKick(u)
        \/ \E t \in Threads : SpuriousWakeup(t)
        \/ Stop

Spec == Init /\ [][Next]_vars

\* Both kinds of threads keep running: a worker finishes the packet it works
\* on and comes back, the listener finishes the event it handles.  No fairness
\* for spurious wakeups, deletions, new connections or "stop".
FairSpec == /\ Spec
            /\ \A w \in Workers : WF_vars(WorkerStep(w))
            /\ WF_vars(PushWait \/ Push \/ \E u \in Users : Report(u))

-----------------------------------------------------------------------------

TypeOK ==
  /\ slot \in [Slots -> Users \union {NULL}]
  /\ head \in Slots
  /\ tail \in Slots
  /\ \E t \in Workers : lock \subseteq {t}
  /\ waiting \subseteq Threads
  /\ pc \in [Threads -> {"loop", "push", "pop", "work", "armed", "exit"}]
  /\ inHand \in [Threads -> Users \union {NULL}]
  /\ armed \subseteq Users
  /\ batch \subseteq Users
  /\ running \in BOOLEAN

\* Records the listener may still push: registered, or reported and not handled.
Pushable == armed \union batch

\* A record waits in at most one slot, and while it is queued nothing else can
\* queue it again: it is neither armed nor in the listener's hands
\* (listener.c:176-177 disarms before it pushes).
QueuedOnce ==
  /\ \A p, q \in Slots : Live(p) /\ Live(q) /\ slot[p] = slot[q] /\ p # q => slot[p] = NULL
  /\ Queued \intersect (Pushable \union {inHand[Listener]}) = {}
  /\ inHand[Listener] \notin Pushable

\* Until the worker that popped a record arms it again, no other worker has it
\* and none can get it: packets of a connection that is not logged in are
\* processed one after the other (worker.c:62, the comment on EpollAdd).
SerialUntilArmed ==
  \A w \in Workers : pc[w] = "work" =>
    /\ inHand[w] \notin Pushable \union Queued \union {inHand[Listener]}
    /\ \A v \in Workers \ {w} : pc[v] = "work" => inHand[v] # inHand[w]

\* With a single worker a thread sleeps on cond only as long as it has to: the
\* listener while the queue is full, the worker while it is empty.  Signals
\* are sent only when the queue leaves one of these states and cond is shared,
\* so this is what keeps a wakeup from getting lost (jobs.c:53-56, 91-94).
SleepersHaveCause ==
  /\ Listener \in waiting => Full
  /\ waiting \intersect Workers # {} => Empty

\* JobManagerPush "blocks the thread until it can add the user" (jobs.c:75): it
\* does return while the server runs.
PushReturns == (pc[Listener] = "push") ~> (pc[Listener] # "push" \/ ~running)

\* A queued connection is popped or kicked while the server runs.
QueuedIsServed == \A u \in Users : (u \in Queued) ~> (u \notin Queued \/ ~running)

\* Neither end of the queue waits for the other for ever (jobs.c:36-56, 78-94).
QueueGoesOn == PushReturns /\ QueuedIsServed
=============================================================================
