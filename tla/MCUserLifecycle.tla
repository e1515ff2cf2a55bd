--------------------------- MODULE MCUserLifecycle ---------------------------
(* UserLifecycle with sets small enough for TLC. *)
EXTENDS UserLifecycle, TLC

CONSTANTS w1, cli, c1, c2, c3, u1, u2

OneWorker == {w1}
OneAdmin == {cli}
ThreeConns == {c1, c2, c3}
OneUid == {u1}
TwoUids == {u1, u2}

\* Three records without the console, two with it; addresses are used again while
\* pointers to their last records wait, or only afterwards.
Unattended3(reuse) == [admins |-> {}, conns |-> ThreeConns, reuse |-> reuse]
Attended2(reuse) == [admins |-> {cli}, conns |-> {c1, c2}, reuse |-> reuse]
UsedAgain == {Unattended3(TRUE), Attended2(TRUE)}
UsedOnce == {Unattended3(FALSE), Attended2(FALSE)}
TwoRecords == {[admins |-> {}, conns |-> {c1, c2}, reuse |-> FALSE]}

\* Records are not all alike, as the console's behaviours lack one.
Symmetry == Permutations({c1, c2}) \union Permutations(TwoUids)
=============================================================================
