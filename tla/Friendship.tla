----------------------------- MODULE Friendship -----------------------------
(***************************************************************************)
(* The friend lists of all accounts, under the handlers of the friend      *)
(* packets (server/packets/friend) and the login and the logout of their   *)
(* owners (user.c).  The server has one worker and nobody at its console:  *)
(* a handler, with the references it takes on lists and gives back, is one *)
(* step, after which a list is in memory while its owner is online and in  *)
(* its file while not.  What a kick by the console, a save that fails or a *)
(* death in the middle of one does to a list is module FriendsTable.       *)
(*                                                                         *)
(* A friendship is kept twice, in two lists, of which one may be on disk   *)
(* only.  A request waits in the Pending group of the one who asks; the    *)
(* one who is asked has a message (UMT_NEW_FRIEND) and nothing in the list.*)
(*                                                                         *)
(* What comes between handlers is everything the clients do, each with the *)
(* list it was told about.  The order of groups and of friends is that of module GroupOrder *)
(* and does not matter here: a list maps a group to a set of friends.      *)
(***************************************************************************)
CONSTANTS Uids,           \* accounts
          Groups,         \* group ids a client displays: all but Pending
          Default,        \* UGI_DEFAULT
          Pending,        \* UGI_PENDING
          Modes           \* how clients and server may behave

ASSUME FriendshipAssumption ==
  /\ Default \in Groups /\ Pending \notin Groups
  /\ Modes \subseteq [cross : BOOLEAN,     \* two users may ask each other
                      hurried : BOOLEAN,   \* a client may act before it was told of a change
                      fails : BOOLEAN]     \* the process may die

VARIABLES friends,    \* the list UserFriendsGet returns: that of the table, or else the file's
          file,       \* the list in the account's file
          online,     \* accounts with a session, which keeps the list in the table
          requests,   \* accounts whose request a client has on its screen or in its messages
          shown,      \* friends a client still displays in a group they have left
          mode        \* the member of Modes this behaviour has; it never changes

vars == <<friends, file, online, requests, shown, mode>>

AllGroups == Groups \union {Pending}
Lists == [AllGroups -> SUBSET Uids]

-----------------------------------------------------------------------------

\* The groups other than Pending in which list fs has account v.
GroupsOf(fs, v) == {g \in Groups : v \in fs[g]}

UserFriendsUserAdd(fs, g, v) == [fs EXCEPT ![g] = @ \union {v}]
UserFriendsUserDelete(fs, g, v) == [fs EXCEPT ![g] = @ \ {v}]

\* A delete, then an add; if the add finds the friend there already, the friend
\* is put back where it was.
UserFriendsUserMove(fs, src, dst, v) ==
  IF v \in fs[src] /\ v \notin fs[dst]
    THEN UserFriendsUserAdd(UserFriendsUserDelete(fs, src, v), dst, v)
    ELSE fs

\* The lists become fs.  At the end of the handler the list of an online owner
\* still has the reference of the session; that of any other has been saved.
Put(fs) == /\ friends' = fs
           /\ file' = [u \in Uids |-> IF u \in online THEN file[u] ELSE fs[u]]

\* Client u goes on showing v in group g until its notification arrives.
StillShown(sh, u, v, g) == IF mode.hurried /\ u \in online THEN [sh EXCEPT ![u] = @ \union {<<v, g>>}]
                                                      ELSE sh

-----------------------------------------------------------------------------

\* Mutant: the Pending group is forgotten.
NewListNoPending(u) == [g \in Groups |-> IF g = Default THEN {u} ELSE {}]

\* UserFriendsCreate: the default group has its owner as a friend.
NewList(u) == [g \in AllGroups |-> IF g = Default THEN {u} ELSE {}]

Init ==
  /\ friends = [u \in Uids |-> NewList(u)]
  /\ file = friends
  /\ online = {}
  /\ requests = [u \in Uids |-> {}]
  /\ shown = [u \in Uids |-> {}]
  /\ mode \in Modes

\* A login takes a reference on the list.  If the account is online already,
\* its session is deleted first, and with it the list is saved and read again.
Login(u) ==
  /\ online' = online \union {u}
  /\ file' = [file EXCEPT ![u] = friends[u]]
  /\ shown' = [shown EXCEPT ![u] = {}]
  /\ UNCHANGED <<friends, requests, mode>>

\* OnlineUserDelete by the worker: the session's reference is the last, and the
\* list is saved.
Logout(u) ==
  /\ u \in online
  /\ online' = online \ {u}
  /\ file' = [file EXCEPT ![u] = friends[u]]
  /\ shown' = [shown EXCEPT ![u] = {}]
  /\ UNCHANGED <<friends, requests, mode>>

\* Mutants: the friend goes straight to the default group; no message is posted.
AddAtOnce(u, v) ==
  /\ u \in online /\ u # v
  /\ GroupsOf(friends[u], v) = {}
  /\ Put([friends EXCEPT ![u] = UserFriendsUserAdd(@, Default, v)])
  /\ requests' = [requests EXCEPT ![v] = @ \union {u}]
  /\ UNCHANGED <<online, shown, mode>>

\* The client of u asks v.  A friend is refused, a request that is pending
\* already is only sent again.
ProcessPacketFriendAdd(u, v) ==
  /\ u \in online /\ u # v
  /\ GroupsOf(friends[u], v) = {}
  /\ mode.cross \/ u \notin friends[v][Pending]
  /\ Put([friends EXCEPT ![u] = UserFriendsUserAdd(@, Pending, v)])
  /\ requests' = [requests EXCEPT ![v] = @ \union {u}]
  /\ UNCHANGED <<online, shown, mode>>

\* The client of u accepts v's request.  First v's list: if u does not wait
\* there, or is a friend already, the handler stops.  Then u's own: if v is
\* there already, it stops after the first half.
ProcessPacketFriendAccept(u, v) ==
  /\ u \in online /\ v \in requests[u]
  /\ requests' = [requests EXCEPT ![u] = @ \ {v}]
  /\ LET moved == UserFriendsUserMove(friends[v], Pending, Default, u)
     IN IF moved = friends[v]
          THEN UNCHANGED <<friends, file>>
          ELSE Put([friends EXCEPT ![v] = moved,
                                   ![u] = UserFriendsUserAdd(@, Default, v)])
  /\ UNCHANGED <<online, shown, mode>>

\* Mutant: the peer's list is not touched.
DeleteMineOnly(u, v, g) ==
  /\ u \in online /\ u # v
  /\ v \in friends[u][g]
  /\ Put([friends EXCEPT ![u] = UserFriendsUserDelete(@, g, v)])
  /\ UNCHANGED <<online, requests, shown, mode>>

\* The client of u deletes friend v from group g.  The peer's list loses u in
\* the first group that has it: the order of the groups is the peer's choice,
\* but Pending is the last.  For a group that u has not the handler returns with
\* the list locked (Delete.c:13-17): no list changes, and the lock keeps out
\* nobody but the console (FriendsTable!DeleteUnknownGroup).
ProcessPacketFriendDelete(u, v, g) ==
  /\ u \in online /\ u # v
  /\ v \in friends[u][g]
  /\ LET mine == [friends EXCEPT ![u] = UserFriendsUserDelete(@, g, v)]
         has == GroupsOf(friends[v], u)
     IN \E h \in IF has = {} THEN {Pending} ELSE has :
          /\ Put([mine EXCEPT ![v] = UserFriendsUserDelete(@, h, u)])
          /\ shown' = LET sh == StillShown(shown, u, v, g)
                      IN IF h \in has THEN StillShown(sh, v, u, h) ELSE sh
  /\ UNCHANGED <<online, requests, mode>>

\* The client of u moves friend v from group g to group h.  The handler adds
\* first, and does not look at what the delete returns.
ProcessPacketFriendMove(u, v, g, h) ==
  /\ u \in online /\ u # v /\ g # h
  /\ v \in friends[u][g] \/ <<v, g>> \in shown[u]
  /\ v \notin friends[u][h]
  /\ Put([friends EXCEPT ![u] = UserFriendsUserDelete(UserFriendsUserAdd(@, h, v), g, v)])
  /\ shown' = StillShown(shown, u, v, g)
  /\ UNCHANGED <<online, requests, mode>>

\* The notification of a change reaches the client.
FriendNotify(u, v, g) ==
  /\ <<v, g>> \in shown[u]
  /\ shown' = [shown EXCEPT ![u] = @ \ {<<v, g>>}]
  /\ UNCHANGED <<friends, file, online, requests, mode>>

\* The process dies: what is left is what the files hold.
Fail ==
  /\ mode.fails
  /\ online # {}
  /\ friends' = file
  /\ online' = {}
  /\ shown' = [u \in Uids |-> {}]
  /\ UNCHANGED <<file, requests, mode>>

Next ==
  \/ \E u \in Uids : Login(u) \/ Logout(u)
  \/ \E u, v \in Uids : ProcessPacketFriendAdd(u, v) \/ ProcessPacketFriendAccept(u, v)
  \/ \E u, v \in Uids, g \in Groups :
       \/ ProcessPacketFriendDelete(u, v, g)
       \/ FriendNotify(u, v, g)
       \/ \E h \in Groups : ProcessPacketFriendMove(u, v, g, h)
  \/ Fail

Spec == Init /\ [][Next]_vars

-----------------------------------------------------------------------------

TypeOK ==
  /\ friends \in [Uids -> Lists]
  /\ file \in [Uids -> Lists]
  /\ online \subseteq Uids
  /\ requests \in [Uids -> SUBSET Uids]
  /\ shown \in [Uids -> SUBSET (Uids \X Groups)]
  /\ mode \in Modes

\* Nobody asks one who asks, clients wait for what they are told, the server lives.
Calm == ~mode.cross /\ ~mode.hurried /\ ~mode.fails

Friend(u, v) == GroupsOf(friends[u], v) # {}

\* The two halves of a friendship, each in a list of its own, come and go together.
FriendsMutual == \A u, v \in Uids : Friend(u, v) <=> Friend(v, u)

\* Nobody is in two groups of a list, waiting in Pending included.
OneGroup ==
  \A u, v \in Uids : \A g, h \in AllGroups :
    v \in friends[u][g] /\ v \in friends[u][h] => g = h

\* Whoever waits in Pending is waited for: the request is on the other side's
\* screen or among its messages, and can be accepted.
PendingIsAnswerable ==
  \A u, v \in Uids : v \in friends[u][Pending] => u \in requests[v]

\* While all is calm friendship is mutual, whatever is accepted and deleted (Accept.c,
\* Delete.c), nobody gets into two groups of a list (Move.c adds first and deletes
\* afterwards, Accept.c adds without looking at the other groups), and no request is left
\* that nobody can answer (Add.c, Accept.c).
SoundWhenCalm == Calm => FriendsMutual /\ OneGroup /\ PendingIsAnswerable

\* While all is calm nobody gets a friend it did not ask for and was not asked by.
FriendsByConsent ==
  [][Calm => \A u, v \in Uids : ~Friend(u, v) /\ Friend(u, v)'
       => v \in friends[u][Pending] \/ u \in friends[v][Pending]]_vars

=============================================================================
