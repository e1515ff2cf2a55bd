--------------------------- MODULE MCFriendLists ----------------------------
(***************************************************************************)
(* The three parts of what the server keeps of an account's friends, for   *)
(* TLC: who is in whose list (Friendship), the order of the groups of one  *)
(* list (GroupOrder), and how a list is shared, saved and read             *)
(* (FriendsTable).  They have no variable in common; a behaviour is one  *)
(* of the parts, and in it the other two keep their initial values.        *)
(***************************************************************************)
EXTENDS MCFriendship, MCGroupOrder, FriendsTable

CONSTANTS c1, c2, x1, x2

\* One copy in the table and one that is being saved: the two threads need no third.
TwoCopies == {c1, c2}
TwoChanges == {x1, x2}

VARIABLE part    \* the part whose behaviour this is

partVars == <<part, vars, groupVars, tableVars>>

ListsInit ==
  /\ part \in {"lists", "order", "table"}
  /\ Init /\ GroupInit /\ TableInit
  /\ part # "lists" => mode = CalmMode
  /\ part # "order" => habit = {"move"}

ListsNext ==
  \/ part = "lists" /\ Next /\ UNCHANGED <<part, groupVars, tableVars>>
  \/ part = "order" /\ GroupNext /\ UNCHANGED <<part, vars, tableVars>>
  \/ part = "table" /\ TableNext /\ UNCHANGED <<part, vars, groupVars>>

InTable(A) == part = "table" /\ A /\ UNCHANGED <<part, vars, groupVars>>

\* The fairness of TableFairSpec, in the behaviours of the table.
ListsSpec ==
  /\ ListsInit /\ [][ListsNext]_partVars
  /\ WF_partVars(InTable(HandlerDrops))
  /\ SF_partVars(InTable(Broadcast(Console)))
  /\ WF_partVars(InTable(SessionDrops(Console)))
  /\ \A t \in Threads : /\ WF_partVars(InTable(SaveOpen(t)))
                        /\ WF_partVars(InTable(SaveEncode(t) \/ SaveFails(t)))
=============================================================================
