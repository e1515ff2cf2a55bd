----------------------------- MODULE JobService -----------------------------
(***************************************************************************)
(* What the job queue promises, without ring, lock or condition variable:  *)
(* a bounded first-in first-out line of connections, from which a          *)
(* connection can also be struck out.  JobQueueRefinement shows that       *)
(* JobQueue implements this module.                                        *)
(***************************************************************************)
EXTENDS Line

CONSTANTS Workers, Listener, Users, NULL,
          Capacity   \* how many jobs may wait at a time

VARIABLES jobs,      \* the records waiting, first come first
          inHand,    \* the record each thread works on
          armed,     \* records epoll watches
          batch      \* records epoll has reported

vars == <<jobs, inHand, armed, batch>>

Waiting == {jobs[i] : i \in DOMAIN jobs}

Init ==
  /\ jobs = <<>>
  /\ inHand = [t \in Workers \union {Listener} |-> NULL]
  /\ armed = {}
  /\ batch = {}

Accept(u) ==
  /\ u \notin armed \union batch \union Waiting
  /\ \A t \in DOMAIN inHand : inHand[t] # u
  /\ armed' = armed \union {u}
  /\ UNCHANGED <<jobs, inHand, batch>>

EpollWait ==
  /\ batch = {}
  /\ \E ready \in SUBSET armed : batch' = ready
  /\ UNCHANGED <<jobs, inHand, armed>>

Report(u) ==
  /\ inHand[Listener] = NULL
  /\ u \in batch
  /\ batch' = batch \ {u}
  /\ armed' = armed \ {u}
  /\ inHand' = [inHand EXCEPT ![Listener] = u]
  /\ UNCHANGED jobs

Push ==
  /\ inHand[Listener] # NULL
  /\ Len(jobs) < Capacity
  /\ jobs' = Append(jobs, inHand[Listener])
  /\ inHand' = [inHand EXCEPT ![Listener] = NULL]
  /\ UNCHANGED <<armed, batch>>

Pop(w) ==
  /\ inHand[w] = NULL
  /\ jobs # <<>>
  /\ inHand' = [inHand EXCEPT ![w] = Head(jobs)]
  /\ jobs' = Tail(jobs)
  /\ UNCHANGED <<armed, batch>>

\* The first record cannot be held: it is being deleted.
Discard ==
  /\ jobs # <<>>
  /\ jobs' = Tail(jobs)
  /\ UNCHANGED <<inHand, armed, batch>>

Rearm(w) ==
  /\ inHand[w] # NULL
  /\ armed' = armed \union {inHand[w]}
  /\ UNCHANGED <<jobs, inHand, batch>>

Done(w) ==
  /\ inHand[w] # NULL
  /\ inHand' = [inHand EXCEPT ![w] = NULL]
  /\ UNCHANGED <<jobs, armed, batch>>

Strike(u) ==
  /\ jobs' = Without(jobs, u)
  /\ UNCHANGED <<inHand, armed, batch>>

Disarm(u) ==
  /\ armed' = armed \ {u}
  /\ UNCHANGED <<jobs, inHand, batch>>

Next == \/ \E u \in Users : Accept(u) \/ Report(u) \/ Strike(u) \/ Disarm(u)
        \/ \E w \in Workers : Pop(w) \/ Rearm(w) \/ Done(w)
        \/ EpollWait \/ Push \/ Discard

Spec == Init /\ [][Next]_vars
=============================================================================
