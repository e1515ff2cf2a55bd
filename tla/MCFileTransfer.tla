--------------------------- MODULE MCFileTransfer ---------------------------
(* FileTransfer with two accounts, each the other's friend. *)
EXTENDS FileTransfer, TLC

CONSTANTS u1, u2, default, file

TwoUsers == {u1, u2}
TwoKeys == {default, file}
OneFile == {file}

\* Symmetric: the roster of each begins with itself.
UserSymmetry == Permutations(TwoUsers)

Everybody == u1 :> <<u1, u2>> @@ u2 :> <<u2, u1>>
OnePage == default :> 1 @@ file :> 1
=============================================================================
