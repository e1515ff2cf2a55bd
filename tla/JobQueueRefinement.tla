-------------------------- MODULE JobQueueRefinement --------------------------
(***************************************************************************)
(* The ring of JobQueue implements the line of JobService: the waiting     *)
(* jobs are the entries of the live slots, in ring order, holes left out.  *)
(***************************************************************************)
EXTENDS JobQueue, Line

\* How many slots are live.
Occupancy == IF head < tail THEN tail - head - 1 ELSE tail + QueueSize - head - 1

\* The slot i places after head.
SlotAt(i) == IF head + i < QueueSize THEN head + i ELSE head + i - QueueSize

RingSeq == [i \in 1 .. Occupancy |-> slot[SlotAt(i)]]

Service == INSTANCE JobService
             WITH Capacity <- QueueSize - 1,
                  jobs <- Without(RingSeq, NULL)

\* Jobs are served in the order they were pushed, each once, never more than
\* QueueSize - 1 at a time; kicking strikes out exactly the kicked connection
\* and leaves the order of the others (jobs.c as a whole).
ImplementsService == Service!Spec
=============================================================================
