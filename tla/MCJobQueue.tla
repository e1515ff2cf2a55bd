----------------------------- MODULE MCJobQueue -----------------------------
(* JobQueue and its refinement with sets small enough for TLC. *)
EXTENDS JobQueueRefinement, TLC

CONSTANTS w1, w2, u1, u2, u3

OneWorker == {w1}
TwoWorkers == {w1, w2}
TwoUsers == {u1, u2}
ThreeUsers == {u1, u2, u3}

WorkerUserSymmetry == Permutations(ThreeUsers) \union Permutations(TwoWorkers)
=============================================================================
