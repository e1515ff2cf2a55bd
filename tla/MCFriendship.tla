---------------------------- MODULE MCFriendship ----------------------------
(* Friendship with two accounts and the groups every list has. *)
EXTENDS Friendship, TLC

CONSTANTS u1, u2, Blacklist

TwoUids == {u1, u2}
ListedGroups == {Default, Blacklist}

CalmMode == [cross |-> FALSE, hurried |-> FALSE, fails |-> FALSE]
HurriedMode == [CalmMode EXCEPT !.hurried = TRUE]
RoughMode == [cross |-> TRUE, hurried |-> TRUE, fails |-> TRUE]

CalmAndRough == {CalmMode, RoughMode}
HurriedOnly == {HurriedMode}

UidSymmetry == Permutations(Uids)
=============================================================================
