----------------------------- MODULE GroupOrder -----------------------------
(***************************************************************************)
(* The groups of one friend list and their order, on the server            *)
(* (imcommon/friends.c, server/packets/friend/Group*.c) and on the screen  *)
(* of the client (client/managegroup, MainInterface.c).                    *)
(*                                                                         *)
(* The server keeps the groups in an array, Pending last.  The client      *)
(* gives every row a priority and lets GTK sort; it changes the screen     *)
(* when the answer to its request arrives, but does not wait for it before *)
(* it sends the next request.  A move names two groups: the one to move    *)
(* and the one that shall come after it.                                   *)
(*                                                                         *)
(* Friends are left out: a group moves with all of them, and which groups  *)
(* are empty only restricts what can be deleted.                           *)
(***************************************************************************)
EXTENDS Integers, Sequences, SequencesExt, FiniteSets

CONSTANTS MaxGid,        \* bound: ids the client gives to new groups are 2 .. MaxGid
          MaxInFlight,   \* bound: requests not answered yet when the user does the next thing
          Habits         \* what users do besides adding groups: sets of "move", "delete"

ASSUME GroupOrderAssumption ==
  /\ MaxGid \in Nat /\ MaxGid \in 2 .. 254
  /\ MaxInFlight \in Nat \ {0}
  /\ Habits \subseteq SUBSET {"move", "delete"}

VARIABLES habit,     \* what this user does
          groups,    \* friends->groups on the server: group ids in order
          rows,      \* the rows on the screen, in order: group id and priority
          delGid,    \* del_gid, the group chosen for deletion last
          sent,      \* packets on their way to the server
          answers    \* answers on their way to the client

groupVars == <<habit, groups, rows, delGid, sent, answers>>

UGI_BLACKLIST == 0
UGI_DEFAULT == 1
UGI_PENDING == 255
FixedGroups == {UGI_BLACKLIST, UGI_DEFAULT}
Gids == 0 .. MaxGid

-----------------------------------------------------------------------------
(* The array of groups. *)

Has(gs, g) == \E i \in DOMAIN gs : gs[i] = g

\* UserFriendsGroupGet returns the first group with the id.
UserFriendsGroupGet(gs, g) ==
  CHOOSE i \in DOMAIN gs : gs[i] = g /\ \A j \in 1 .. i - 1 : gs[j] # g

\* Mutant: the new group becomes the last.
UserFriendsGroupAddLast(gs, g) == Append(gs, g)

\* The last group moves one up, and the new one takes its place.
UserFriendsGroupAdd(gs, g) == InsertAt(gs, Len(gs), g)

\* Mutant: the groups behind the deleted one are not moved, the last is cut off.
UserFriendsGroupDeleteLast(gs, g) == Front(gs)

UserFriendsGroupDelete(gs, g) == RemoveAt(gs, UserFriendsGroupGet(gs, g))

\* Mutants: the loop stops one short; the group is put behind the other.
MoveBeforeShort(gs, p, q) ==
  [i \in DOMAIN gs |-> IF i = q THEN gs[p]
                       ELSE IF p < q THEN IF i \in p .. q - 2 THEN gs[i + 1] ELSE gs[i]
                       ELSE IF i \in q + 2 .. p THEN gs[i - 1] ELSE gs[i]]
MoveBehind(gs, p, q) ==
  IF q < p THEN InsertAt(RemoveAt(gs, p), q + 1, gs[p]) ELSE gs

\* The shifts of GroupMove.c, on a copy of the group at p.  If the group is
\* behind the other (q < p), those between move one down.  If it is before, the
\* loop moves those between one up but stops before the other, which is then
\* overwritten.
MoveBefore(gs, p, q) ==
  [i \in DOMAIN gs |-> IF i = q THEN gs[p]
                       ELSE IF p < q THEN IF i \in p .. q - 2 THEN gs[i + 1] ELSE gs[i]
                       ELSE IF i \in q + 1 .. p THEN gs[i - 1] ELSE gs[i]]

-----------------------------------------------------------------------------
(* The rows on the screen. *)

Shown == {rows[i].gid : i \in DOMAIN rows}
RowOf(g) == CHOOSE i \in DOMAIN rows : rows[i].gid = g

\* The orders GTK may give to a set of rows: the highest priority first, rows of
\* the same priority in any order.
Sorted(rs) ==
  {s \in Bijection(1 .. Cardinality(rs), rs) :
     \A i, j \in DOMAIN s : i < j => s[i].pri >= s[j].pri}

RowSet == {rows[i] : i \in DOMAIN rows}

\* Mutant: the priority has the wrong sign.
CreateModelRising(gs) == [i \in 1 .. Len(gs) - 1 |-> [gid |-> gs[i], pri |-> i - 1]]

\* createModel: every group but the last, each a priority lower than the one before.
CreateModel(gs) == [i \in 1 .. Len(gs) - 1 |-> [gid |-> gs[i], pri |-> 1 - i]]

\* The first id that is free in the client's list.
FreeGids == (2 .. MaxGid) \ Shown
FreeGid == CHOOSE g \in FreeGids : \A h \in FreeGids : g <= h

-----------------------------------------------------------------------------

\* A new account's groups, and its owner's client after the login.
GroupInit ==
  /\ habit \in Habits
  /\ groups = <<UGI_DEFAULT, UGI_BLACKLIST, UGI_PENDING>>
  /\ rows = CreateModel(groups)
  /\ delGid = 0
  /\ sent = <<>>
  /\ answers = <<>>

InFlight == Len(sent) + Len(answers)

Send(op, g, h) ==
  /\ InFlight < MaxInFlight
  /\ sent' = Append(sent, [op |-> op, gid |-> g, next |-> h])
  /\ UNCHANGED <<habit, groups, rows, answers>>

\* add_group_done.
AddGroup ==
  /\ FreeGids # {}
  /\ Send("add", FreeGid, 0)
  /\ UNCHANGED delGid

\* DeleteGroupButtonPressEvent: the choice is kept even if the group may not be
\* deleted.
DeleteGroup(g) ==
  /\ "delete" \in habit
  /\ InFlight < MaxInFlight
  /\ g \in Shown
  /\ delGid' = g
  /\ IF g \in FixedGroups THEN UNCHANGED <<habit, groups, rows, sent, answers>>
                          ELSE Send("delete", g, 0)

\* UpGroupButtonPressEvent: the row before the chosen one shall come after it.
UpGroup(g) ==
  /\ "move" \in habit
  /\ g \in Shown /\ RowOf(g) > 1
  /\ Send("up", g, rows[RowOf(g) - 1].gid)
  /\ UNCHANGED delGid

\* DownGroupButtonPressEvent: the row behind the chosen one shall come before it.
DownGroup(g) ==
  /\ "move" \in habit
  /\ g \in Shown /\ RowOf(g) < Len(rows)
  /\ Send("down", rows[RowOf(g) + 1].gid, g)
  /\ UNCHANGED delGid

\* The server answers the packet at the head of the line.
Answer(ok, gs) ==
  /\ groups' = gs
  /\ answers' = Append(answers, [ok |-> ok, request |-> Head(sent)])
  /\ sent' = Tail(sent)
  /\ UNCHANGED <<habit, rows, delGid>>

ProcessPacketFriendGroupAdd ==
  /\ sent # <<>> /\ Head(sent).op = "add"
  /\ LET g == Head(sent).gid
     IN IF Has(groups, g) THEN Answer(FALSE, groups)
                          ELSE Answer(TRUE, UserFriendsGroupAdd(groups, g))

ProcessPacketFriendGroupDelete ==
  /\ sent # <<>> /\ Head(sent).op = "delete"
  /\ LET g == Head(sent).gid
     IN IF Has(groups, g) THEN Answer(TRUE, UserFriendsGroupDelete(groups, g))
                          ELSE Answer(FALSE, groups)

ProcessPacketFriendGroupMove ==
  /\ sent # <<>> /\ Head(sent).op \in {"up", "down"}
  /\ LET g == Head(sent).gid
         h == Head(sent).next
     IN IF g = UGI_PENDING \/ g = h \/ ~Has(groups, g) \/ ~Has(groups, h)
          THEN Answer(FALSE, groups)
          ELSE Answer(TRUE, MoveBefore(groups, UserFriendsGroupGet(groups, g),
                                               UserFriendsGroupGet(groups, h)))

\* add_group_recv: a row whose priority is the negative id.
AddedRow(g) == rows' \in Sorted(RowSet \union {[gid |-> g, pri |-> -g]})

\* delete_group_recv removes the row chosen last.
DeletedRow == rows' = IF delGid \in Shown THEN RemoveAt(rows, RowOf(delGid)) ELSE rows

\* up_group and down_grou: the row with the id swaps its priority with the row
\* that follows it on the screen now.  When the id is gone, or its row is the last one,
\* gtk_tree_model_iter_next has made the iterator invalid (MoveGroup.c:35, 44), and GTK
\* refuses to read, set or move by it: a warning, and the rows stay as they are.
SwappedRow(g) ==
  IF g \in Shown /\ RowOf(g) < Len(rows)
    THEN LET i == RowOf(g)
             upper == rows[i]
             lower == rows[i + 1]
         IN rows' \in Sorted((RowSet \ {upper, lower})
                             \union {[upper EXCEPT !.pri = lower.pri],
                                     [lower EXCEPT !.pri = upper.pri]})
    ELSE UNCHANGED rows

\* The client takes an answer.  For "up" it passes the group that was above, for
\* "down" the chosen one: both times the one that goes down.
Receive ==
  /\ answers # <<>>
  /\ LET a == Head(answers)
     IN \/ ~a.ok /\ UNCHANGED rows
        \/ a.ok /\ a.request.op = "add" /\ AddedRow(a.request.gid)
        \/ a.ok /\ a.request.op = "delete" /\ DeletedRow
        \/ a.ok /\ a.request.op \in {"up", "down"} /\ SwappedRow(a.request.next)
  /\ answers' = Tail(answers)
  /\ UNCHANGED <<habit, groups, delGid, sent>>

\* The owner logs in again: the screen is built from the server's list.
GroupLogin ==
  /\ rows' = CreateModel(groups)
  /\ delGid' = 0
  /\ sent' = <<>>
  /\ answers' = <<>>
  /\ UNCHANGED <<habit, groups>>

GroupNext ==
  \/ AddGroup
  \/ \E g \in Gids : DeleteGroup(g) \/ UpGroup(g) \/ DownGroup(g)
  \/ ProcessPacketFriendGroupAdd
  \/ ProcessPacketFriendGroupDelete
  \/ ProcessPacketFriendGroupMove
  \/ Receive
  \/ GroupLogin

GroupSpec == GroupInit /\ [][GroupNext]_groupVars

-----------------------------------------------------------------------------

Request == [op : {"add", "delete", "up", "down"}, gid : Gids, next : Gids]

\* Rows show the groups a client can know, in the types the packets carry.
\* UserFriendsGroupAdd and the client rely on Pending being the last group.
GroupTypeOK ==
  /\ habit \in Habits
  /\ groups \in Seq(Gids \union {UGI_PENDING}) /\ groups # <<>> /\ Last(groups) = UGI_PENDING
  /\ rows \in Seq([gid : Gids, pri : -MaxGid .. 0])
  /\ delGid \in Gids
  /\ sent \in Seq(Request)
  /\ answers \in Seq([ok : BOOLEAN, request : Request])

Quiet == sent = <<>> /\ answers = <<>>

\* When every request is answered, the screen shows the server's groups, and for a
\* user who never deletes it shows them in the server's order: the next move names
\* two groups that are where the client takes them to be.  A deletion frees an id,
\* and the row of a new group that gets it is not put last (AddGroup.c:83,
\* MainInterface.c:343-348).
ScreenAgrees ==
  Quiet => /\ Shown = ToSet(groups) \ {UGI_PENDING}
           /\ "delete" \notin habit => [i \in DOMAIN rows |-> rows[i].gid] = Front(groups)

\* A group disappears from the list, with the friends it holds, only because the
\* user deletes it.
GroupsLeaveByDelete ==
  [][\A g \in ToSet(groups) \ ToSet(groups') :
       sent # <<>> /\ Head(sent).op = "delete" /\ Head(sent).gid = g]_groupVars
=============================================================================
