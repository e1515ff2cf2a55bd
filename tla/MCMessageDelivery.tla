-------------------------- MODULE MCMessageDelivery --------------------------
(* MessageDelivery with two accounts. *)
EXTENDS MessageDelivery, TLC

CONSTANTS u1, u2

TwoUids == {u1, u2}

UidSymmetry == Permutations(TwoUids)
=============================================================================
