-------------------------- MODULE FriendshipProofs --------------------------
(***************************************************************************)
(* Theorems about Friendship for every set of accounts and groups.  Types  *)
(* do not depend on how clients and server behave; that a friendship is    *)
(* mutual is proved while nobody asks one who asks, clients wait for what  *)
(* they are told, and the server does not die (Calm).                      *)
(*                                                                         *)
(* Theorems about GroupOrder for every number of groups: for a user who    *)
(* waits for the answers, and does not both move and delete groups         *)
(* (OneAtATime), the screen and the server keep the same list.             *)
(***************************************************************************)
EXTENDS Friendship, FriendsTable, GroupOrder, LineProofs, FiniteSetTheorems, TLAPS

-----------------------------------------------------------------------------
(* What the operations on one list do to each of its groups.               *)

\* UserFriendsUserAdd changes one group, by one friend.
LEMMA ListAdd ==
  ASSUME NEW fs \in Lists, NEW g \in AllGroups, NEW v \in Uids
  PROVE  /\ UserFriendsUserAdd(fs, g, v) \in Lists
         /\ \A h \in AllGroups, w \in Uids :
              w \in UserFriendsUserAdd(fs, g, v)[h] <=> (w \in fs[h] \/ (h = g /\ w = v))
BY DEF UserFriendsUserAdd, Lists

\* So does UserFriendsUserDelete.
LEMMA ListDelete ==
  ASSUME NEW fs \in Lists, NEW g \in AllGroups, NEW v \in Uids
  PROVE  /\ UserFriendsUserDelete(fs, g, v) \in Lists
         /\ \A h \in AllGroups, w \in Uids :
              w \in UserFriendsUserDelete(fs, g, v)[h] <=> (w \in fs[h] /\ ~(h = g /\ w = v))
BY DEF UserFriendsUserDelete, Lists

\* UserFriendsUserMove changes a list only if the friend was in the source
\* group and not in the target, and then it is the other way round.
LEMMA ListMove ==
  ASSUME NEW fs \in Lists, NEW src \in AllGroups, NEW dst \in AllGroups, src # dst,
         NEW v \in Uids
  PROVE  /\ UserFriendsUserMove(fs, src, dst, v) \in Lists
         /\ UserFriendsUserMove(fs, src, dst, v) = fs => v \notin fs[src] \/ v \in fs[dst]
         /\ UserFriendsUserMove(fs, src, dst, v) # fs =>
              /\ v \in fs[src] /\ v \notin fs[dst]
              /\ \A h \in AllGroups, w \in Uids :
                   w \in UserFriendsUserMove(fs, src, dst, v)[h]
                     <=> \/ w \in fs[h] /\ ~(h = src /\ w = v)
                         \/ h = dst /\ w = v
<1>1. UserFriendsUserDelete(fs, src, v) \in Lists
  BY ListDelete
<1>2. UserFriendsUserAdd(UserFriendsUserDelete(fs, src, v), dst, v) \in Lists
  BY <1>1, ListAdd
<1>3. \A h \in AllGroups, w \in Uids :
        w \in UserFriendsUserAdd(UserFriendsUserDelete(fs, src, v), dst, v)[h]
          <=> (w \in UserFriendsUserDelete(fs, src, v)[h] \/ (h = dst /\ w = v))
  BY <1>1, ListAdd
<1>4. \A h \in AllGroups, w \in Uids :
        w \in UserFriendsUserDelete(fs, src, v)[h] <=> (w \in fs[h] /\ ~(h = src /\ w = v))
  BY ListDelete
<1>5. v \notin UserFriendsUserAdd(UserFriendsUserDelete(fs, src, v), dst, v)[src]
  BY <1>3, <1>4
<1>6. QED BY <1>2, <1>3, <1>4, <1>5 DEF UserFriendsUserMove

-----------------------------------------------------------------------------
(* Types.                                                                  *)

\* Put keeps the types.
LEMMA PutTyped ==
  ASSUME TypeOK, NEW fs \in [Uids -> Lists], Put(fs)
  PROVE  friends' \in [Uids -> Lists] /\ file' \in [Uids -> Lists]
BY DEF TypeOK, Put

\* The types hold however clients and server behave.
THEOREM FriendshipTypeCorrect == Spec => []TypeOK
<1>1. Init => TypeOK
  BY FriendshipAssumption DEF Init, TypeOK, NewList, Lists, AllGroups
<1>2. TypeOK /\ [Next]_vars => TypeOK'
  <2> SUFFICES ASSUME TypeOK, [Next]_vars PROVE TypeOK'
    OBVIOUS
  <2>0. TypeOK /\ Groups \subseteq AllGroups /\ Pending \in AllGroups
        /\ Default \in Groups /\ Pending # Default
    BY FriendshipAssumption DEF TypeOK, AllGroups
  <2>1. ASSUME NEW u \in Uids, Login(u) PROVE TypeOK'
    BY <2>0, <2>1 DEF Login, TypeOK
  <2>2. ASSUME NEW u \in Uids, Logout(u) PROVE TypeOK'
    BY <2>0, <2>2 DEF Logout, TypeOK
  <2>3. ASSUME NEW u \in Uids, NEW v \in Uids, ProcessPacketFriendAdd(u, v) PROVE TypeOK'
    <3> DEFINE fs == [friends EXCEPT ![u] = UserFriendsUserAdd(@, Pending, v)]
    <3>1. fs \in [Uids -> Lists]
      BY <2>0, ListAdd DEF TypeOK
    <3>2. Put(fs) /\ online' = online /\ shown' = shown /\ mode' = mode
      BY <2>3 DEF ProcessPacketFriendAdd
    <3>3. requests' \in [Uids -> SUBSET Uids]
      BY <2>0, <2>3 DEF ProcessPacketFriendAdd, TypeOK
    <3>4. QED BY <2>0, <3>1, <3>2, <3>3, PutTyped DEF TypeOK
  <2>4. ASSUME NEW u \in Uids, NEW v \in Uids, ProcessPacketFriendAccept(u, v) PROVE TypeOK'
    <3> DEFINE moved == UserFriendsUserMove(friends[v], Pending, Default, u)
               fs == [friends EXCEPT ![v] = moved, ![u] = UserFriendsUserAdd(@, Default, v)]
    <3>1. moved \in Lists
      BY <2>0, ListMove DEF TypeOK
    <3>2. fs \in [Uids -> Lists]
      <4>1. [friends EXCEPT ![v] = moved] \in [Uids -> Lists]
        BY <2>0, <3>1 DEF TypeOK
      <4>2. QED BY <2>0, <4>1, ListAdd DEF TypeOK
    <3>3. online' = online /\ shown' = shown /\ mode' = mode /\ requests' \in [Uids -> SUBSET Uids]
      BY <2>0, <2>4 DEF ProcessPacketFriendAccept, TypeOK
    <3>4. CASE moved = friends[v]
      <4>1. UNCHANGED <<friends, file>>
        BY <2>4, <3>4 DEF ProcessPacketFriendAccept
      <4>2. QED BY <2>0, <3>3, <4>1 DEF TypeOK
    <3>5. CASE moved # friends[v]
      <4>1. Put(fs)
        BY <2>4, <3>5 DEF ProcessPacketFriendAccept
      <4>2. QED BY <2>0, <3>2, <3>3, <4>1, PutTyped DEF TypeOK
    <3>6. QED BY <3>4, <3>5
  <2>5. ASSUME NEW u \in Uids, NEW v \in Uids, NEW g \in Groups,
               ProcessPacketFriendDelete(u, v, g)
        PROVE  TypeOK'
    <3> DEFINE mine == [friends EXCEPT ![u] = UserFriendsUserDelete(@, g, v)]
    <3>1. PICK h \in AllGroups : Put([mine EXCEPT ![v] = UserFriendsUserDelete(@, h, u)])
                                 /\ shown' \in [Uids -> SUBSET (Uids \X Groups)]
      <4>1. PICK h \in IF GroupsOf(friends[v], u) = {} THEN {Pending} ELSE GroupsOf(friends[v], u) :
              /\ Put([mine EXCEPT ![v] = UserFriendsUserDelete(@, h, u)])
              /\ shown' = LET sh == StillShown(shown, u, v, g)
                          IN IF h \in GroupsOf(friends[v], u) THEN StillShown(sh, v, u, h) ELSE sh
        BY <2>5 DEF ProcessPacketFriendDelete
      <4>2. h \in AllGroups /\ (h \in GroupsOf(friends[v], u) => h \in Groups)
        BY <2>0, <4>1 DEF GroupsOf
      <4>3. StillShown(shown, u, v, g) \in [Uids -> SUBSET (Uids \X Groups)]
        BY <2>0 DEF StillShown, TypeOK
      <4>4. h \in Groups => StillShown(StillShown(shown, u, v, g), v, u, h)
                              \in [Uids -> SUBSET (Uids \X Groups)]
        BY <4>3 DEF StillShown
      <4>5. QED BY <4>1, <4>2, <4>3, <4>4
    <3>2. mine \in [Uids -> Lists]
      BY <2>0, ListDelete DEF TypeOK
    <3>3. [mine EXCEPT ![v] = UserFriendsUserDelete(@, h, u)] \in [Uids -> Lists]
      BY <3>1, <3>2, ListDelete
    <3>4. UNCHANGED <<online, requests, mode>>
      BY <2>5 DEF ProcessPacketFriendDelete
    <3>5. QED BY <2>0, <3>1, <3>3, <3>4, PutTyped DEF TypeOK
  <2>6. ASSUME NEW u \in Uids, NEW v \in Uids, NEW g \in Groups, FriendNotify(u, v, g)
        PROVE  TypeOK'
    BY <2>0, <2>6 DEF FriendNotify, TypeOK
  <2>7. ASSUME NEW u \in Uids, NEW v \in Uids, NEW g \in Groups, NEW h \in Groups,
               ProcessPacketFriendMove(u, v, g, h)
        PROVE  TypeOK'
    <3> DEFINE added == UserFriendsUserAdd(friends[u], h, v)
               fs == [friends EXCEPT ![u] = UserFriendsUserDelete(UserFriendsUserAdd(@, h, v), g, v)]
    <3>1. added \in Lists
      BY <2>0, ListAdd DEF TypeOK
    <3>2. UserFriendsUserDelete(added, g, v) \in Lists
      BY <2>0, <3>1, ListDelete
    <3>3. fs \in [Uids -> Lists]
      BY <2>0, <3>2 DEF TypeOK
    <3>4. Put(fs) /\ UNCHANGED <<online, requests, mode>>
      BY <2>7 DEF ProcessPacketFriendMove
    <3>5. shown' \in [Uids -> SUBSET (Uids \X Groups)]
      BY <2>0, <2>7 DEF ProcessPacketFriendMove, StillShown, TypeOK
    <3>6. QED BY <2>0, <3>3, <3>4, <3>5, PutTyped DEF TypeOK
  <2>8. CASE Fail
    BY <2>0, <2>8 DEF Fail, TypeOK
  <2>9. CASE UNCHANGED vars
    BY <2>0, <2>9 DEF vars, TypeOK
  <2>10. QED BY <2>1, <2>2, <2>3, <2>4, <2>5, <2>6, <2>7, <2>8, <2>9 DEF Next
<1>3. QED BY <1>1, <1>2, PTL DEF Spec

-----------------------------------------------------------------------------
(* Friendship is mutual.  FriendsMutual is not inductive: Accept puts the   *)
(* acceptor v in the list of u's friends without looking in which other    *)
(* group u has v.  That it is in none follows from three facts: whoever    *)
(* waits in Pending is nowhere else in that list, two users never wait for *)
(* each other, and the friends that are already there are mutual.          *)

NobodyCrosses ==
  \A u, v \in Uids : ~(v \in friends[u][Pending] /\ u \in friends[v][Pending])

NothingStale == \A u \in Uids : shown[u] = {}

MutualInv == /\ TypeOK /\ FriendsMutual /\ OneGroup
             /\ NobodyCrosses /\ NothingStale /\ PendingIsAnswerable

CalmInv == Calm => MutualInv

\* A friend is in one of the groups that are not Pending.
LEMMA FriendIsListed ==
  /\ \A u, v : Friend(u, v) <=> \E g \in Groups : v \in friends[u][g]
  /\ \A u, v : Friend(u, v)' <=> \E g \in Groups : v \in friends'[u][g]
BY DEF Friend, GroupsOf

LEMMA CalmInvHolds == Spec => []CalmInv
<1>1. Init => CalmInv
  <2> SUFFICES ASSUME Init PROVE MutualInv
    BY DEF CalmInv
  <2>1. TypeOK
    BY FriendshipAssumption DEF Init, TypeOK, NewList, Lists, AllGroups
  <2>2. \A u, v \in Uids, g \in AllGroups : v \in friends[u][g] <=> (g = Default /\ v = u)
    BY DEF Init, NewList
  <2>3. FriendsMutual
    BY <2>2, FriendIsListed, FriendshipAssumption DEF FriendsMutual, AllGroups
  <2>4. OneGroup /\ NobodyCrosses /\ PendingIsAnswerable
    BY <2>2, FriendshipAssumption DEF OneGroup, NobodyCrosses, PendingIsAnswerable, AllGroups
  <2>5. NothingStale
    BY DEF Init, NothingStale
  <2>6. QED BY <2>1, <2>3, <2>4, <2>5 DEF MutualInv
<1>2. CalmInv /\ TypeOK' /\ [Next]_vars => CalmInv'
  <2> SUFFICES ASSUME CalmInv, TypeOK', [Next]_vars, Calm' PROVE MutualInv'
    BY DEF CalmInv
  <2>m. mode' = mode
    <3>1. \A u, v \in Uids : /\ Login(u) \/ Logout(u) => mode' = mode
                             /\ ProcessPacketFriendAdd(u, v) => mode' = mode
                             /\ ProcessPacketFriendAccept(u, v) => mode' = mode
      BY DEF Login, Logout, ProcessPacketFriendAdd, ProcessPacketFriendAccept
    <3>2. \A u, v \in Uids, g \in Groups :
            /\ ProcessPacketFriendDelete(u, v, g) \/ FriendNotify(u, v, g) => mode' = mode
            /\ \A h \in Groups : ProcessPacketFriendMove(u, v, g, h) => mode' = mode
      BY DEF ProcessPacketFriendDelete, FriendNotify, ProcessPacketFriendMove
    <3>3. Fail => mode' = mode
      BY DEF Fail
    <3>4. QED BY <3>1, <3>2, <3>3 DEF Next, vars
  <2>c. Calm /\ MutualInv
    BY <2>m DEF Calm, CalmInv
  <2>0. /\ TypeOK /\ FriendsMutual /\ OneGroup /\ NobodyCrosses /\ NothingStale /\ PendingIsAnswerable
        /\ AllGroups = Groups \union {Pending} /\ Pending \notin Groups
        /\ Default \in Groups /\ Default # Pending
        /\ \A a \in Uids : friends[a] \in Lists
    BY <2>c, FriendshipAssumption DEF MutualInv, AllGroups, TypeOK
  <2>t. /\ \A a \in Uids : friends[a] \in Lists
        /\ Pending \in AllGroups /\ Default \in AllGroups /\ Pending # Default
        /\ \A g \in Groups : g \in AllGroups
        /\ friends \in [Uids -> Lists]
    BY <2>0 DEF TypeOK
  <2>00. ASSUME NEW sh, NEW u \in Uids, NEW v \in Uids, NEW g \in Groups
         PROVE  StillShown(sh, u, v, g) = sh
    BY <2>c DEF StillShown, Calm
  <2>1. ASSUME friends' = friends, requests' = requests, NothingStale' PROVE MutualInv'
    BY <2>0, <2>1 DEF MutualInv, FriendsMutual, Friend, GroupsOf, OneGroup, NobodyCrosses,
                      PendingIsAnswerable
  <2>2. ASSUME NEW u \in Uids, NEW v \in Uids, ProcessPacketFriendAdd(u, v) PROVE MutualInv'
    <3>1. \A a, b \in Uids, g \in AllGroups :
            b \in friends'[a][g] <=> b \in friends[a][g] \/ (a = u /\ b = v /\ g = Pending)
      <4>1. friends' = [friends EXCEPT ![u] = UserFriendsUserAdd(@, Pending, v)]
        BY <2>2 DEF ProcessPacketFriendAdd, Put
      <4>2. \A k \in AllGroups, w \in Uids : w \in UserFriendsUserAdd(friends[u], Pending, v)[k]
              <=> (w \in friends[u][k] \/ (k = Pending /\ w = v))
        BY <2>t, ListAdd
      <4>3. \A a \in Uids : friends'[a] = IF a = u THEN UserFriendsUserAdd(friends[u], Pending, v)
                                         ELSE friends[a]
        BY <2>t, <4>1
      <4>4. QED BY <2>t, <4>2, <4>3
    <3>2. /\ u # v /\ \A g \in Groups : v \notin friends[u][g]
          /\ u \notin friends[v][Pending]
          /\ requests' = [requests EXCEPT ![v] = @ \union {u}] /\ shown' = shown
      BY <2>2, <2>c DEF ProcessPacketFriendAdd, GroupsOf, Calm
    <3>3. FriendsMutual'
      BY <2>0, <3>1, FriendIsListed DEF FriendsMutual
    <3>4. OneGroup'
      BY <2>0, <3>1, <3>2 DEF OneGroup
    <3>5. NobodyCrosses'
      BY <2>0, <3>1, <3>2 DEF NobodyCrosses
    <3>6. PendingIsAnswerable'
      BY <2>0, <3>1, <3>2 DEF PendingIsAnswerable, TypeOK
    <3>7. QED BY <2>0, <3>2, <3>3, <3>4, <3>5, <3>6 DEF MutualInv, NothingStale
  <2>3. ASSUME NEW u \in Uids, NEW v \in Uids, ProcessPacketFriendAccept(u, v) PROVE MutualInv'
    <3> DEFINE moved == UserFriendsUserMove(friends[v], Pending, Default, u)
    <3>1. requests' = [requests EXCEPT ![u] = @ \ {v}] /\ shown' = shown
      BY <2>3 DEF ProcessPacketFriendAccept
    <3>2. CASE moved = friends[v]
      <4>1. friends' = friends
        BY <2>3, <3>2 DEF ProcessPacketFriendAccept
      <4>2. u \notin friends[v][Pending]
        BY <2>0, <3>2, ListMove DEF TypeOK, OneGroup
      <4>3. PendingIsAnswerable'
        BY <2>0, <3>1, <4>1, <4>2 DEF PendingIsAnswerable, TypeOK
      <4>4. QED BY <2>0, <3>1, <4>1, <4>3 DEF MutualInv, FriendsMutual, Friend, GroupsOf,
                                              OneGroup, NobodyCrosses, NothingStale
    <3>3. CASE moved # friends[v]
      <4>1. /\ u \in friends[v][Pending] /\ u \notin friends[v][Default]
            /\ moved \in Lists
            /\ \A g \in AllGroups, w \in Uids : w \in moved[g]
                 <=> \/ w \in friends[v][g] /\ ~(g = Pending /\ w = u)
                     \/ g = Default /\ w = u
        BY <2>t, <3>3, ListMove
      <4>2. u # v
        BY <2>0, <4>1 DEF NobodyCrosses
      <4>3. /\ \A g \in AllGroups : v \notin friends[u][g]
            /\ \A g \in Groups : u \notin friends[v][g]
        <5>1. \A g \in Groups : u \notin friends[v][g]
          BY <2>0, <4>1 DEF OneGroup
        <5>2. \A g \in Groups : v \notin friends[u][g]
          BY <2>0, <5>1, FriendIsListed DEF FriendsMutual
        <5>3. v \notin friends[u][Pending]
          BY <2>0, <4>1 DEF NobodyCrosses
        <5>4. QED BY <2>0, <5>1, <5>2, <5>3
      <4>4. \A a, b \in Uids, g \in AllGroups : b \in friends'[a][g] <=>
              \/ b \in friends[a][g] /\ ~(a = v /\ b = u /\ g = Pending)
              \/ a = v /\ b = u /\ g = Default
              \/ a = u /\ b = v /\ g = Default
        <5>1. friends' = [friends EXCEPT ![v] = moved, ![u] = UserFriendsUserAdd(@, Default, v)]
          BY <2>3, <3>3 DEF ProcessPacketFriendAccept, Put
        <5>2. \A a \in Uids : friends'[a] = IF a = u THEN UserFriendsUserAdd(friends[u], Default, v)
                                           ELSE IF a = v THEN moved ELSE friends[a]
          BY <2>0, <4>2, <5>1 DEF TypeOK
        <5>3. \A g \in AllGroups, w \in Uids : w \in UserFriendsUserAdd(friends[u], Default, v)[g]
                <=> (w \in friends[u][g] \/ (g = Default /\ w = v))
          BY <2>t, ListAdd
        <5>4. QED BY <2>t, <4>1, <4>2, <5>2, <5>3
      <4>5. FriendsMutual'
        <5>1. \A a, b \in Uids : Friend(a, b)' <=> \/ Friend(a, b)
                                                   \/ (a = v /\ b = u) \/ (a = u /\ b = v)
          BY <2>0, <4>4, FriendIsListed
        <5>2. QED BY <2>0, <5>1 DEF FriendsMutual
      <4>6. OneGroup'
        BY <2>0, <4>3, <4>4 DEF OneGroup
      <4>7. NobodyCrosses'
        BY <2>0, <4>4 DEF NobodyCrosses
      <4>8. PendingIsAnswerable'
        BY <2>0, <3>1, <4>4 DEF PendingIsAnswerable, TypeOK
      <4>9. QED BY <2>0, <3>1, <4>5, <4>6, <4>7, <4>8 DEF MutualInv, NothingStale
    <3>4. QED BY <3>2, <3>3
  <2>4. ASSUME NEW u \in Uids, NEW v \in Uids, NEW g \in Groups,
               ProcessPacketFriendDelete(u, v, g)
        PROVE  MutualInv'
    <3>1. u # v /\ v \in friends[u][g] /\ UNCHANGED requests
      BY <2>4 DEF ProcessPacketFriendDelete
    <3>2. PICK h \in Groups :
            /\ u \in friends[v][h]
            /\ friends' = [[friends EXCEPT ![u] = UserFriendsUserDelete(@, g, v)]
                                   EXCEPT ![v] = UserFriendsUserDelete(@, h, u)]
            /\ shown' = shown
      <4>1. GroupsOf(friends[v], u) # {}
        BY <2>0, <3>1 DEF FriendsMutual, Friend, GroupsOf
      <4>2. PICK h \in GroupsOf(friends[v], u) :
              /\ Put([[friends EXCEPT ![u] = UserFriendsUserDelete(@, g, v)]
                               EXCEPT ![v] = UserFriendsUserDelete(@, h, u)])
              /\ shown' = StillShown(StillShown(shown, u, v, g), v, u, h)
        BY <2>4, <4>1 DEF ProcessPacketFriendDelete
      <4>3. h \in Groups /\ u \in friends[v][h]
        BY DEF GroupsOf
      <4>4. shown' = shown
        BY <2>00, <4>2, <4>3
      <4>5. QED BY <4>2, <4>3, <4>4 DEF Put
    <3>3. \A a, b \in Uids, k \in AllGroups : b \in friends'[a][k] <=>
            /\ b \in friends[a][k]
            /\ ~(a = u /\ b = v /\ k = g) /\ ~(a = v /\ b = u /\ k = h)
      <4>1. \A a \in Uids : friends'[a] = IF a = v THEN UserFriendsUserDelete(friends[v], h, u)
                                         ELSE IF a = u THEN UserFriendsUserDelete(friends[u], g, v)
                                         ELSE friends[a]
        BY <2>0, <3>1, <3>2 DEF TypeOK
      <4>2. /\ \A k \in AllGroups, w \in Uids : w \in UserFriendsUserDelete(friends[v], h, u)[k]
                 <=> (w \in friends[v][k] /\ ~(k = h /\ w = u))
            /\ \A k \in AllGroups, w \in Uids : w \in UserFriendsUserDelete(friends[u], g, v)[k]
                 <=> (w \in friends[u][k] /\ ~(k = g /\ w = v))
        <5>1. g \in AllGroups /\ h \in AllGroups /\ friends[u] \in Lists /\ friends[v] \in Lists
          BY <2>t
        <5>2. \A k \in AllGroups, w \in Uids : w \in UserFriendsUserDelete(friends[v], h, u)[k]
                 <=> (w \in friends[v][k] /\ ~(k = h /\ w = u))
          BY <5>1, ListDelete, SMTT(60)
        <5>3. \A k \in AllGroups, w \in Uids : w \in UserFriendsUserDelete(friends[u], g, v)[k]
                 <=> (w \in friends[u][k] /\ ~(k = g /\ w = v))
          BY <5>1, ListDelete, SMTT(60)
        <5>4. QED BY <5>2, <5>3
      <4>3. QED BY <2>t, <3>1, <4>1, <4>2
    <3>4. FriendsMutual'
      <4>1. \A a, b \in Uids : Friend(a, b)' <=> /\ Friend(a, b)
                                                 /\ ~(a = u /\ b = v) /\ ~(a = v /\ b = u)
        <5>1. \A k \in Groups : (v \in friends[u][k] => k = g) /\ (u \in friends[v][k] => k = h)
          BY <2>0, <2>t, <3>1, <3>2 DEF OneGroup
        <5>2. ~Friend(u, v)' /\ ~Friend(v, u)'
          BY <2>t, <3>1, <3>3, <5>1, FriendIsListed
        <5>3. ASSUME NEW a \in Uids, NEW b \in Uids, ~(a = u /\ b = v), ~(a = v /\ b = u)
              PROVE  Friend(a, b)' <=> Friend(a, b)
          BY <2>t, <3>3, <5>3, FriendIsListed
        <5>4. QED BY <5>2, <5>3
      <4>2. QED BY <2>0, <4>1 DEF FriendsMutual
    <3>5. OneGroup' /\ NobodyCrosses' /\ PendingIsAnswerable'
      BY <2>0, <3>1, <3>3 DEF OneGroup, NobodyCrosses, PendingIsAnswerable
    <3>6. QED BY <2>0, <3>2, <3>4, <3>5 DEF MutualInv, NothingStale
  <2>5. ASSUME NEW u \in Uids, NEW v \in Uids, NEW g \in Groups, NEW h \in Groups,
               ProcessPacketFriendMove(u, v, g, h)
        PROVE  MutualInv'
    <3>1. /\ g # h /\ v \in friends[u][g] /\ UNCHANGED requests /\ shown' = shown
          /\ friends' = [friends EXCEPT
                           ![u] = UserFriendsUserDelete(UserFriendsUserAdd(@, h, v), g, v)]
      BY <2>0, <2>5, <2>00 DEF ProcessPacketFriendMove, Put, NothingStale
    <3>2. \A a, b \in Uids, k \in AllGroups : b \in friends'[a][k] <=>
            \/ b \in friends[a][k] /\ ~(a = u /\ b = v /\ k = g)
            \/ a = u /\ b = v /\ k = h
      <4> DEFINE added == UserFriendsUserAdd(friends[u], h, v)
      <4>1. /\ added \in Lists
            /\ \A k \in AllGroups, w \in Uids :
                 w \in added[k] <=> (w \in friends[u][k] \/ (k = h /\ w = v))
        BY <2>t, ListAdd
      <4>2. \A k \in AllGroups, w \in Uids : w \in UserFriendsUserDelete(added, g, v)[k]
              <=> (w \in added[k] /\ ~(k = g /\ w = v))
        <5>1. g \in AllGroups /\ added \in Lists
          BY <2>t, <4>1
        <5> HIDE DEF added
        <5>2. QED BY <5>1, ListDelete
      <4>3. \A a \in Uids : friends'[a] = IF a = u THEN UserFriendsUserDelete(added, g, v) ELSE friends[a]
        BY <2>0, <3>1 DEF TypeOK
      <4>4. QED BY <2>t, <3>1, <4>1, <4>2, <4>3
    <3>3. FriendsMutual'
      <4>1. \A a, b \in Uids : Friend(a, b)' <=> Friend(a, b)
        BY <2>0, <3>1, <3>2, FriendIsListed
      <4>2. QED BY <2>0, <4>1 DEF FriendsMutual
    <3>4. OneGroup' /\ NobodyCrosses' /\ PendingIsAnswerable'
      BY <2>0, <3>1, <3>2 DEF OneGroup, NobodyCrosses, PendingIsAnswerable
    <3>5. QED BY <2>0, <3>1, <3>3, <3>4 DEF MutualInv, NothingStale
  <2>6. ASSUME NEW u \in Uids, Login(u) \/ Logout(u) PROVE MutualInv'
    BY <2>0, <2>1, <2>6 DEF Login, Logout, NothingStale, TypeOK
  <2>7. ASSUME NEW u \in Uids, NEW v \in Uids, NEW g \in Groups, FriendNotify(u, v, g)
        PROVE  MutualInv'
    BY <2>0, <2>7 DEF FriendNotify, NothingStale
  <2>8. CASE Fail
    BY <2>8, <2>c DEF Fail, Calm
  <2>9. CASE UNCHANGED vars
    BY <2>0, <2>1, <2>9 DEF vars, NothingStale
  <2>10. QED BY <2>2, <2>3, <2>4, <2>5, <2>6, <2>7, <2>8, <2>9 DEF Next
<1>3. QED BY <1>1, <1>2, FriendshipTypeCorrect, PTL DEF Spec

\* While nobody asks one who asks, clients wait for notifications and the server lives,
\* either both lists of a pair have the other or neither, nobody is in two groups of a
\* list, and whoever waits in Pending can still be accepted (Add.c, Accept.c, Delete.c,
\* Move.c), for any number of accounts and groups.
THEOREM SoundWhenCalmAlways == Spec => []SoundWhenCalm
<1>1. CalmInv => SoundWhenCalm
  BY DEF CalmInv, MutualInv, SoundWhenCalm
<1>2. QED BY <1>1, CalmInvHolds, PTL
-----------------------------------------------------------------------------
(* Consent.                                                                *)

\* The groups of a list change outside Pending where somebody waited in it, or loses a friend,
\* or has the friend in another group already.
LEMMA NewFriendWaited ==
  ASSUME Calm, MutualInv, [Next]_vars,
         NEW a \in Uids, NEW b \in Uids, NEW k \in Groups,
         b \in friends'[a][k], \A g \in Groups : b \notin friends[a][g]
  PROVE  b \in friends[a][Pending] \/ a \in friends[b][Pending]
<1>1. /\ friends \in [Uids -> Lists] /\ NothingStale
      /\ \A x \in Uids : friends[x] \in Lists
      /\ Pending \in AllGroups /\ Default \in AllGroups /\ Pending # Default /\ Pending \notin Groups
      /\ \A g \in Groups : g \in AllGroups
  BY FriendshipAssumption DEF MutualInv, TypeOK, AllGroups
<1>2. ASSUME NEW u \in Uids, NEW v \in Uids, ProcessPacketFriendAdd(u, v) PROVE FALSE
  <2>1. friends' = [friends EXCEPT ![u] = UserFriendsUserAdd(@, Pending, v)]
    BY <1>2 DEF ProcessPacketFriendAdd, Put
  <2>2. \A w \in Uids : w \in UserFriendsUserAdd(friends[u], Pending, v)[k]
                          <=> (w \in friends[u][k] \/ (k = Pending /\ w = v))
    BY <1>1, ListAdd
  <2> QED BY <1>1, <2>1, <2>2
<1>3. ASSUME NEW u \in Uids, NEW v \in Uids, ProcessPacketFriendAccept(u, v)
      PROVE  b \in friends[a][Pending] \/ a \in friends[b][Pending]
  <2> DEFINE moved == UserFriendsUserMove(friends[v], Pending, Default, u)
  <2>1. moved # friends[v]
    BY <1>3 DEF ProcessPacketFriendAccept
  <2>2. /\ u \in friends[v][Pending] /\ moved \in Lists
        /\ \A w \in Uids : w \in moved[k] <=> \/ w \in friends[v][k] /\ ~(k = Pending /\ w = u)
                                              \/ k = Default /\ w = u
    BY <1>1, <2>1, ListMove
  <2>3. friends' = [friends EXCEPT ![v] = moved, ![u] = UserFriendsUserAdd(@, Default, v)]
    BY <1>3, <2>1 DEF ProcessPacketFriendAccept, Put
  <2>4. u # v
    BY <2>2 DEF MutualInv, NobodyCrosses
  <2>5. \A w \in Uids : w \in UserFriendsUserAdd(friends[u], Default, v)[k]
                          <=> (w \in friends[u][k] \/ (k = Default /\ w = v))
    BY <1>1, ListAdd
  <2>6. friends'[a] = IF a = u THEN UserFriendsUserAdd(friends[u], Default, v)
                      ELSE IF a = v THEN moved ELSE friends[a]
    BY <1>1, <2>3, <2>4
  <2> QED BY <2>2, <2>5, <2>6
<1>4. ASSUME NEW u \in Uids, NEW v \in Uids, NEW g \in Groups, ProcessPacketFriendDelete(u, v, g)
      PROVE  FALSE
  <2> DEFINE mine == [friends EXCEPT ![u] = UserFriendsUserDelete(@, g, v)]
  <2>1. PICK h \in AllGroups : friends' = [mine EXCEPT ![v] = UserFriendsUserDelete(@, h, u)]
    BY <1>1, <1>4 DEF ProcessPacketFriendDelete, Put, GroupsOf
  <2>2. mine \in [Uids -> Lists] /\ \A x \in Uids : x \in Uids => mine[x][k] \subseteq friends[x][k]
    BY <1>1, ListDelete DEF UserFriendsUserDelete, Lists
  <2> HIDE DEF mine
  <2>3. friends'[a][k] \subseteq mine[a][k]
    BY <1>1, <2>1, <2>2 DEF UserFriendsUserDelete, Lists
  <2> QED BY <2>2, <2>3
<1>5. ASSUME NEW u \in Uids, NEW v \in Uids, NEW g \in Groups, NEW h \in Groups,
             ProcessPacketFriendMove(u, v, g, h)
      PROVE  FALSE
  <2>1. v \in friends[u][g]
    BY <1>1, <1>5 DEF ProcessPacketFriendMove, NothingStale
  <2>2. friends' = [friends EXCEPT ![u] = UserFriendsUserDelete(UserFriendsUserAdd(@, h, v), g, v)]
    BY <1>5 DEF ProcessPacketFriendMove, Put
  <2>3. UserFriendsUserDelete(UserFriendsUserAdd(friends[u], h, v), g, v)[k]
          \subseteq friends[u][k] \union {v}
    BY <1>1 DEF UserFriendsUserDelete, UserFriendsUserAdd, Lists
  <2> QED BY <1>1, <2>1, <2>2, <2>3
<1>6. ASSUME friends' = friends PROVE FALSE
  BY <1>6
<1>7. ~Fail
  BY DEF Fail, Calm
<1> QED
  BY <1>2, <1>3, <1>4, <1>5, <1>6, <1>7 DEF Next, vars, Login, Logout, FriendNotify

\* While all is calm only an acceptance makes two users friends, and only if one of them
\* waited for the other: no delete, move, login or notification does (Accept.c, Move.c),
\* for any number of accounts and groups.
THEOREM FriendsByConsentAlways == Spec => FriendsByConsent
<1>1. CalmInv /\ [Next]_vars
        => [Calm => \A u, v \in Uids : ~Friend(u, v) /\ Friend(u, v)'
              => v \in friends[u][Pending] \/ u \in friends[v][Pending]]_vars
  BY NewFriendWaited, FriendIsListed DEF CalmInv
<1>2. QED BY <1>1, CalmInvHolds, PTL DEF Spec, FriendsByConsent

-----------------------------------------------------------------------------
(* The invariant of GroupOrder.                                            *)

\* The user waits for each answer, and does not both move and delete groups: an id that
\* is used again is sorted elsewhere on the screen, and a move then names two groups in
\* the wrong order.
OneAtATime == MaxInFlight = 1 /\ \A h \in Habits : ~({"move", "delete"} \subseteq h)

Row == [gid : Gids, pri : -MaxGid .. 0]
HasRow(rs, g) == \E i \in 1 .. Len(rs) : rs[i].gid = g

\* Without deletions the ids of n groups are 0 .. n - 1.
ListCounted(gs) ==
  /\ Len(gs) > 2 /\ \A i \in 1 .. Len(gs) - 1 : gs[i] < Len(gs) - 1
  /\ \A g \in 0 .. Len(gs) - 2 : \E i \in 1 .. Len(gs) - 1 : gs[i] = g

\* Nobody is twice in the list; Pending is last.
ListFits(gs, keeps) ==
  /\ gs \in Seq(Gids \union {UGI_PENDING}) /\ Len(gs) > 0 /\ gs[Len(gs)] = UGI_PENDING
  /\ \A i, j \in 1 .. Len(gs) : gs[i] = gs[j] => i = j
  /\ keeps => ListCounted(gs)

\* Without deletions a new row goes to the end, for its priority is the lowest.
RowsCounted(rs) ==
  /\ Len(rs) >= 2 /\ \A i \in 1 .. Len(rs) : rs[i].pri = 1 - i /\ rs[i].gid < Len(rs)
  /\ \A g \in 0 .. Len(rs) - 1 : HasRow(rs, g)

\* A group has one row.
RowsFit(rs, keeps) ==
  /\ rs \in Seq(Row)
  /\ \A i, j \in 1 .. Len(rs) : rs[i].gid = rs[j].gid => i = j
  /\ keeps => RowsCounted(rs)

SameOrder(rs, gs) == Len(gs) = Len(rs) + 1 /\ \A i \in 1 .. Len(rs) : gs[i] = rs[i].gid

\* The screen shows the list gs.
Shows(rs, gs, keeps) ==
  /\ \A g \in Gids : HasRow(rs, g) <=> Has(gs, g)
  /\ keeps => SameOrder(rs, gs)

\* What a request can be, as long as the screen is as it was when it was sent.
RequestFits(r, rs, keeps, del) ==
  \/ r.op = "add" /\ r.gid \in 2 .. MaxGid /\ ~HasRow(rs, r.gid) /\ (keeps => r.gid = Len(rs))
  \/ r.op = "delete" /\ ~keeps /\ r.gid = del /\ HasRow(rs, del)
  \/ /\ r.op \in {"up", "down"} /\ keeps
     /\ \E i \in 1 .. Len(rs) - 1 : r.next = rs[i].gid /\ r.gid = rs[i + 1].gid

\* What the server has, when it has granted request r and the screen shows the list from
\* before.
AddGranted(g, rs, gs, keeps) ==
  /\ \A h \in Gids : (HasRow(rs, h) \/ h = g) <=> Has(gs, h)
  /\ keeps => /\ Len(gs) = Len(rs) + 2 /\ gs[Len(rs) + 1] = g
              /\ \A i \in 1 .. Len(rs) : gs[i] = rs[i].gid

DeleteGranted(g, rs, gs) == \A h \in Gids : (HasRow(rs, h) /\ h # g) <=> Has(gs, h)

MoveGranted(h, rs, gs) ==
  /\ Len(gs) = Len(rs) + 1
  /\ \A i \in 1 .. Len(rs) - 1 : h = rs[i].gid =>
       /\ gs[i] = rs[i + 1].gid /\ gs[i + 1] = rs[i].gid
       /\ \A j \in 1 .. Len(rs) : j # i /\ j # i + 1 => gs[j] = rs[j].gid

Granted(r, rs, gs, keeps) ==
  /\ r.op = "add" => AddGranted(r.gid, rs, gs, keeps)
  /\ r.op = "delete" => DeleteGranted(r.gid, rs, gs)
  /\ r.op \in {"up", "down"} => MoveGranted(r.next, rs, gs)

\* One request is on its way to the server, or its answer back, or nothing.
OneInFlight(rs, gs, keeps, del, out, back) ==
  \/ out = <<>> /\ back = <<>> /\ Shows(rs, gs, keeps)
  \/ /\ Len(out) = 1 /\ back = <<>> /\ Shows(rs, gs, keeps)
     /\ RequestFits(out[1], rs, keeps, del)
  \/ /\ out = <<>> /\ Len(back) = 1 /\ back[1].ok
     /\ RequestFits(back[1].request, rs, keeps, del)
     /\ Granted(back[1].request, rs, gs, keeps)

Keeps == "delete" \notin habit

GroupInv ==
  /\ habit \in Habits /\ ~({"move", "delete"} \subseteq habit) /\ delGid \in Gids
  /\ sent \in Seq(Request) /\ answers \in Seq([ok : BOOLEAN, request : Request])
  /\ ListFits(groups, Keeps) /\ RowsFit(rows, Keeps)
  /\ OneInFlight(rows, groups, Keeps, delGid, sent, answers)

-----------------------------------------------------------------------------
(* The list and the rows.                                                  *)

\* The ids the client can give are small enough that Pending is none of them.
LEMMA GidRange == MaxGid \in 2 .. 254 /\ Gids = 0 .. MaxGid /\ Gids \subseteq Nat /\ UGI_PENDING \notin Gids
BY GroupOrderAssumption DEF Gids, UGI_PENDING

\* The group with an id is where it is.
LEMMA GroupGet ==
  ASSUME NEW gs, NEW S, gs \in Seq(S), NEW i \in 1 .. Len(gs),
         \A j, k \in 1 .. Len(gs) : gs[j] = gs[k] => j = k
  PROVE  UserFriendsGroupGet(gs, gs[i]) = i
<1>1. DOMAIN gs = 1 .. Len(gs) /\ Len(gs) \in Nat
  OBVIOUS
<1> DEFINE First(j) == gs[j] = gs[i] /\ \A k \in 1 .. j - 1 : gs[k] # gs[i]
<1>2. First(i)
  <2>1. \A k \in 1 .. i - 1 : k \in 1 .. Len(gs) /\ k # i
    BY <1>1
  <2> QED BY <2>1
<1>3. \A j \in 1 .. Len(gs) : First(j) => j = i
  OBVIOUS
<1>4. UserFriendsGroupGet(gs, gs[i]) = CHOOSE j \in 1 .. Len(gs) : First(j)
  BY <1>1 DEF UserFriendsGroupGet
<1> HIDE DEF First
<1>5. \E j \in 1 .. Len(gs) : First(j)
  BY <1>2
<1>6. (CHOOSE j \in 1 .. Len(gs) : First(j)) = i
  BY <1>3, <1>5
<1> QED BY <1>4, <1>6

\* Its row, too.
LEMMA RowOfIs ==
  ASSUME NEW keeps, RowsFit(rows, keeps), NEW i \in 1 .. Len(rows)
  PROVE  RowOf(rows[i].gid) = i
<1>1. DOMAIN rows = 1 .. Len(rows) /\ \A j \in 1 .. Len(rows) : rows[j].gid = rows[i].gid => j = i
  BY DEF RowsFit
<1>2. RowOf(rows[i].gid) = CHOOSE j \in 1 .. Len(rows) : rows[j].gid = rows[i].gid
  BY <1>1 DEF RowOf
<1> QED BY <1>1, <1>2

\* The groups that have a row.
LEMMA ShownIs ==
  ASSUME NEW keeps, RowsFit(rows, keeps)
  PROVE  /\ \A g : g \in Shown <=> HasRow(rows, g)
         /\ \A g : HasRow(rows, g) => g \in Gids
         /\ \A g : HasRow(rows, g) => RowOf(g) \in 1 .. Len(rows) /\ rows[RowOf(g)].gid = g
<1>1. DOMAIN rows = 1 .. Len(rows) /\ rows \in Seq(Row)
  BY DEF RowsFit
<1>2. \A i \in 1 .. Len(rows) : rows[i] \in Row
  BY <1>1
<1>3. \A g : g \in Shown <=> HasRow(rows, g)
  BY <1>1 DEF Shown, HasRow
<1>4. \A g : HasRow(rows, g) => g \in Gids
  BY <1>2 DEF HasRow, Row
<1>5. ASSUME NEW g, HasRow(rows, g) PROVE RowOf(g) \in 1 .. Len(rows) /\ rows[RowOf(g)].gid = g
  <2>1. PICK i \in 1 .. Len(rows) : rows[i].gid = g
    BY <1>5 DEF HasRow
  <2>2. RowOf(g) = i
    BY <2>1, RowOfIs
  <2> QED BY <2>1, <2>2
<1> QED BY <1>3, <1>4, <1>5

\* An entry of the list.
LEMMA HasIs ==
  ASSUME NEW gs, NEW S, gs \in Seq(S)
  PROVE  \A g : Has(gs, g) <=> \E i \in 1 .. Len(gs) : gs[i] = g
BY DEF Has

\* Without deletions the free id is the number of rows.
LEMMA FreeGidIs ==
  ASSUME NEW keeps, RowsFit(rows, keeps), FreeGids # {}
  PROVE  /\ FreeGid \in 2 .. MaxGid /\ ~HasRow(rows, FreeGid)
         /\ keeps => FreeGid = Len(rows)
<1>1. \A g : g \in FreeGids <=> g \in 2 .. MaxGid /\ ~HasRow(rows, g)
  BY ShownIs DEF FreeGids
<1>2. FreeGids \subseteq Nat
  BY <1>1, GidRange
<1>3. PICK m \in FreeGids : \A h \in FreeGids : m <= h
  BY <1>2, NatLeast
<1>4. FreeGid \in FreeGids /\ \A h \in FreeGids : FreeGid <= h
  BY <1>3 DEF FreeGid
<1>5. ASSUME keeps PROVE FreeGid = Len(rows)
  <2>1. Len(rows) >= 2 /\ Len(rows) \in Nat
        /\ \A i \in 1 .. Len(rows) : rows[i].gid < Len(rows)
        /\ \A g \in 0 .. Len(rows) - 1 : HasRow(rows, g)
    BY <1>5 DEF RowsFit, RowsCounted
  <2>2. ~HasRow(rows, Len(rows))
    BY <2>1 DEF HasRow
  <2>3. FreeGid \in 2 .. MaxGid /\ ~HasRow(rows, FreeGid) /\ MaxGid \in Nat
    BY <1>1, <1>4, GidRange
  <2>4. ~(FreeGid \in 0 .. Len(rows) - 1)
    BY <2>1, <2>3
  <2>5. Len(rows) \in 2 .. MaxGid /\ Len(rows) <= FreeGid
    BY <2>1, <2>3, <2>4
  <2>6. FreeGid <= Len(rows)
    BY <1>1, <1>4, <2>2, <2>5
  <2> QED BY <2>1, <2>3, <2>5, <2>6
<1> QED BY <1>1, <1>4, <1>5

\* The list has room for every id and Pending.
LEMMA ListLength ==
  ASSUME NEW gs, NEW keeps, ListFits(gs, keeps)
  PROVE  Len(gs) <= MaxGid + 2
<1>1. gs \in [1 .. Len(gs) -> Gids \union {UGI_PENDING}] /\ Len(gs) \in Nat
  BY DEF ListFits
<1>2. gs \in Injection(1 .. Len(gs), Gids \union {UGI_PENDING})
  BY <1>1 DEF ListFits, Injection, IsInjective
<1>3. IsFiniteSet(Gids) /\ Cardinality(Gids) = MaxGid + 1
  BY GidRange, FS_Interval
<1>4. IsFiniteSet(Gids \union {UGI_PENDING}) /\ Cardinality(Gids \union {UGI_PENDING}) = MaxGid + 2
  BY <1>3, GidRange, FS_AddElement
<1>5. Cardinality(1 .. Len(gs)) <= Cardinality(Gids \union {UGI_PENDING})
  BY <1>2, <1>4, FS_Injection
<1>6. Cardinality(1 .. Len(gs)) = Len(gs)
  <2> DEFINE n == Len(gs)
  <2>1. n \in Nat
    BY <1>1
  <2> HIDE DEF n
  <2>2. Cardinality(1 .. n) = IF 1 > n THEN 0 ELSE n - 1 + 1
    BY <2>1, FS_Interval
  <2>3. Cardinality(1 .. n) = n
    BY <2>1, <2>2
  <2> QED BY <2>3 DEF n
<1> QED BY <1>4, <1>5, <1>6

\* createModel shows the list.
LEMMA CreateModelShows ==
  ASSUME NEW gs, NEW keeps, ListFits(gs, keeps)
  PROVE  RowsFit(CreateModel(gs), keeps) /\ Shows(CreateModel(gs), gs, keeps)
<1> DEFINE rs == CreateModel(gs)
           n == Len(gs) - 1
<1>1. gs \in Seq(Gids \union {UGI_PENDING}) /\ Len(gs) > 0 /\ Len(gs) \in Nat
      /\ gs[Len(gs)] = UGI_PENDING
      /\ \A i, j \in 1 .. Len(gs) : gs[i] = gs[j] => i = j
  BY DEF ListFits
<1>2. n \in Nat /\ Len(gs) = n + 1 /\ n <= MaxGid + 1 /\ MaxGid \in Nat
  BY <1>1, ListLength, GidRange
<1>3. rs = [i \in 1 .. n |-> [gid |-> gs[i], pri |-> 1 - i]]
  BY DEF CreateModel
<1> HIDE DEF rs, n
<1>4. \A i \in 1 .. n : gs[i] \in Gids
  <2>1. \A i \in 1 .. n : i \in 1 .. Len(gs) /\ i # Len(gs)
    BY <1>2
  <2>2. \A i \in 1 .. n : gs[i] # UGI_PENDING /\ gs[i] \in Gids \union {UGI_PENDING}
    BY <1>1, <1>2, <2>1
  <2> QED BY <2>2
<1>5. \A i \in 1 .. n : 1 - i \in -MaxGid .. 0
  BY <1>2
<1>6. \A i \in 1 .. n : rs[i].gid = gs[i] /\ rs[i].pri = 1 - i
  BY <1>3
<1>7. rs \in Seq(Row) /\ Len(rs) = n
  BY <1>2, <1>3, <1>4, <1>5 DEF Row
<1>8. \A i, j \in 1 .. Len(rs) : rs[i].gid = rs[j].gid => i = j
  BY <1>1, <1>2, <1>6, <1>7
<1>9. \A g \in Gids : HasRow(rs, g) <=> \E i \in 1 .. n : gs[i] = g
  BY <1>6, <1>7 DEF HasRow
<1>10. \A g \in Gids : (\E i \in 1 .. n : gs[i] = g) <=> Has(gs, g)
  <2>1. \A i : i \in 1 .. Len(gs) <=> i \in 1 .. n \/ i = Len(gs)
    BY <1>2
  <2> QED BY <1>1, <2>1, HasIs, GidRange
<1>11. SameOrder(rs, gs)
  BY <1>2, <1>6, <1>7 DEF SameOrder
<1>12. ASSUME keeps PROVE RowsCounted(rs)
  <2>1. n >= 2 /\ (\A i \in 1 .. n : gs[i] < n) /\ \A g \in 0 .. n - 1 : \E i \in 1 .. n : gs[i] = g
    BY <1>2, <1>12 DEF ListFits, ListCounted, n
  <2>2. \A g \in 0 .. n - 1 : HasRow(rs, g)
    BY <1>6, <1>7, <2>1 DEF HasRow
  <2> QED BY <1>6, <1>7, <2>1, <2>2 DEF RowsCounted
<1>13. RowsFit(rs, keeps)
  BY <1>7, <1>8, <1>12 DEF RowsFit
<1>14. Shows(rs, gs, keeps)
  BY <1>9, <1>10, <1>11 DEF Shows
<1> QED BY <1>13, <1>14 DEF rs

-----------------------------------------------------------------------------
(* The orders GTK may give to the rows.                                    *)

\* Rows whose priorities are 0, -1, -2, ... have one order.
LEMMA SortedUnique ==
  ASSUME NEW n \in Nat, NEW t, \A i \in 1 .. n : t[i].pri = 1 - i,
         NEW rs, \A x : x \in rs <=> \E i \in 1 .. n : x = t[i],
         NEW s \in Sorted(rs)
  PROVE  s \in [1 .. n -> rs] /\ \A i \in 1 .. n : s[i] = t[i]
<1> DEFINE f == [i \in 1 .. n |-> t[i]]
<1>1. \A i, j \in 1 .. n : t[i] = t[j] => i = j
  <2>1. ASSUME NEW i \in 1 .. n, NEW j \in 1 .. n, t[i] = t[j] PROVE i = j
    <3>1. 1 - i = 1 - j
      BY <2>1
    <3> QED BY <3>1
  <2> QED BY <2>1
<1>2. f \in Bijection(1 .. n, rs)
  BY <1>1 DEF Bijection, Injection, IsInjective, Surjection
<1>3. Cardinality(rs) = n
  <2>1. ExistsBijection(1 .. n, rs)
    BY <1>2 DEF ExistsBijection
  <2> QED BY <2>1, FS_CountingElements
<1>4. s \in Bijection(1 .. n, rs) /\ \A i, j \in DOMAIN s : i < j => s[i].pri >= s[j].pri
  BY <1>3 DEF Sorted
<1>5. /\ s \in [1 .. n -> rs] /\ DOMAIN s = 1 .. n
      /\ \A i, j \in 1 .. n : s[i] = s[j] => i = j
      /\ \A x \in rs : \E i \in 1 .. n : s[i] = x
      /\ \A i, j \in 1 .. n : i < j => s[i].pri >= s[j].pri
  BY <1>4 DEF Bijection, Injection, IsInjective, Surjection
<1> HIDE DEF f
<1> DEFINE G == {m \in 0 .. n : \A i \in 1 .. n : i <= m => s[i] = t[i]}
<1>6. 0 \in G
  OBVIOUS
<1>7. ASSUME NEW m \in 1 .. n, m - 1 \in G PROVE m \in G
  <2>1. \A i \in 1 .. n : i < m => s[i] = t[i]
    BY <1>7
  <2>2. PICK k \in 1 .. n : s[m] = t[k]
    BY <1>5
  <2>3. PICK j \in 1 .. n : s[j] = t[m]
    BY <1>5
  <2>4. ~(k < m)
    <3>1. SUFFICES ASSUME k < m PROVE FALSE
      OBVIOUS
    <3>2. s[k] = s[m] /\ k # m
      BY <2>1, <2>2, <3>1
    <3> QED BY <1>5, <3>2
  <2>5. ~(j < m)
    <3>1. SUFFICES ASSUME j < m PROVE FALSE
      OBVIOUS
    <3>2. t[j] = t[m] /\ j # m
      BY <2>1, <2>3, <3>1
    <3> QED BY <1>1, <3>2
  <2>6. s[m] = t[m]
    <3>1. CASE j = m
      BY <2>3, <3>1
    <3>2. CASE j # m
      <4>1. s[m].pri >= s[j].pri
        BY <1>5, <2>5, <3>2
      <4>2. s[m].pri = 1 - k /\ s[j].pri = 1 - m
        BY <2>2, <2>3
      <4>3. 1 - k >= 1 - m
        BY <4>1, <4>2
      <4>4. k = m
        BY <2>4, <4>3
      <4> QED BY <2>2, <4>4
    <3> QED BY <3>1, <3>2
  <2>7. \A i \in 1 .. n : i <= m => s[i] = t[i]
    <3>1. \A i \in 1 .. n : i <= m => i < m \/ i = m
      OBVIOUS
    <3> QED BY <2>1, <2>6, <3>1
  <2>8. m \in 0 .. n
    OBVIOUS
  <2> QED BY <2>7, <2>8
<1>8. \A i \in 0 .. n : i \in G
  <2> HIDE DEF G
  <2> QED BY <1>6, <1>7, UpTo
<1>9. \A i \in 1 .. n : s[i] = t[i]
  BY <1>8
<1> QED BY <1>5, <1>9

\* Otherwise every row is there once, in some order.
LEMMA SortedKeeps ==
  ASSUME NEW rs, IsFiniteSet(rs), rs \subseteq Row, NEW s \in Sorted(rs),
         \A x, y \in rs : x.gid = y.gid => x = y
  PROVE  /\ s \in Seq(Row)
         /\ \A i, j \in 1 .. Len(s) : s[i].gid = s[j].gid => i = j
         /\ \A g : HasRow(s, g) <=> \E x \in rs : x.gid = g
<1> DEFINE n == Cardinality(rs)
<1>1. n \in Nat
  BY FS_CardinalityType
<1>2. s \in Bijection(1 .. n, rs)
  BY DEF Sorted
<1> HIDE DEF n
<1>3. /\ s \in [1 .. n -> rs]
      /\ \A i, j \in 1 .. n : s[i] = s[j] => i = j
      /\ \A x \in rs : \E i \in 1 .. n : s[i] = x
  BY <1>2 DEF Bijection, Injection, IsInjective, Surjection
<1>4. s \in Seq(Row) /\ Len(s) = n
  <2>1. s \in [1 .. n -> Row]
    BY <1>3
  <2> QED BY <1>1, <2>1
<1>5. \A i, j \in 1 .. n : s[i].gid = s[j].gid => i = j
  <2>1. \A i \in 1 .. n : s[i] \in rs
    BY <1>3
  <2> QED BY <1>3, <2>1
<1>6. \A g : HasRow(s, g) <=> \E x \in rs : x.gid = g
  <2>1. \A i \in 1 .. n : s[i] \in rs
    BY <1>3
  <2> QED BY <1>3, <1>4, <2>1 DEF HasRow
<1> QED BY <1>4, <1>5, <1>6

\* The rows are finitely many.
LEMMA RowSetIs ==
  ASSUME NEW keeps, RowsFit(rows, keeps)
  PROVE  /\ \A x : x \in RowSet <=> \E i \in 1 .. Len(rows) : x = rows[i]
         /\ RowSet \subseteq Row /\ IsFiniteSet(RowSet)
<1>1. rows \in Seq(Row) /\ Len(rows) \in Nat /\ DOMAIN rows = 1 .. Len(rows)
  BY DEF RowsFit
<1>2. \A x : x \in RowSet <=> \E i \in 1 .. Len(rows) : x = rows[i]
  BY <1>1 DEF RowSet
<1>3. RowSet \subseteq Row
  BY <1>1, <1>2
<1>4. IsFiniteSet(RowSet)
  <2>1. IsFiniteSet(1 .. Len(rows))
    BY <1>1, FS_Interval
  <2>2. rows \in Surjection(1 .. Len(rows), RowSet)
    BY <1>1, <1>2 DEF Surjection
  <2> QED BY <2>1, <2>2, FS_Surjection
<1> QED BY <1>2, <1>3, <1>4

\* add_group_recv: the new group gets a row.
LEMMA RowAdded ==
  ASSUME NEW keeps, RowsFit(rows, keeps), NEW g \in 2 .. MaxGid, ~HasRow(rows, g),
         keeps => g = Len(rows),
         NEW s \in Sorted(RowSet \union {[gid |-> g, pri |-> -g]})
  PROVE  /\ RowsFit(s, keeps)
         /\ \A h \in Gids : HasRow(s, h) <=> (HasRow(rows, h) \/ h = g)
         /\ keeps => /\ Len(s) = Len(rows) + 1 /\ s[Len(rows) + 1].gid = g
                     /\ \A i \in 1 .. Len(rows) : s[i].gid = rows[i].gid
<1> DEFINE new == [gid |-> g, pri |-> -g]
           rs == RowSet \union {new}
           n == Len(rows)
<1>1. new \in Row /\ new.gid = g /\ new.pri = -g
  BY GidRange DEF Row
<1>2. rows \in Seq(Row) /\ n \in Nat /\ \A i, j \in 1 .. n : rows[i].gid = rows[j].gid => i = j
  BY DEF RowsFit
<1>3. /\ \A x : x \in RowSet <=> \E i \in 1 .. n : x = rows[i]
      /\ RowSet \subseteq Row /\ IsFiniteSet(RowSet)
  BY RowSetIs
<1>4. \A i \in 1 .. n : rows[i].gid # g
  BY DEF HasRow
<1>5. s \in Sorted(rs)
  OBVIOUS
<1> HIDE DEF new, n
<1>6. IsFiniteSet(rs) /\ rs \subseteq Row
  BY <1>1, <1>3, FS_AddElement
<1>7. \A x, y \in rs : x.gid = y.gid => x = y
  <2>1. ASSUME NEW x \in rs, NEW y \in rs, x.gid = y.gid PROVE x = y
    <3>1. CASE x \in RowSet /\ y \in RowSet
      BY <1>2, <1>3, <2>1, <3>1
    <3>2. CASE x = new /\ y = new
      BY <3>2
    <3>3. CASE x \in RowSet /\ y = new
      BY <1>1, <1>3, <1>4, <2>1, <3>3
    <3>4. CASE x = new /\ y \in RowSet
      BY <1>1, <1>3, <1>4, <2>1, <3>4
    <3> QED BY <3>1, <3>2, <3>3, <3>4
  <2> QED BY <2>1
<1>8. \A x : x \in rs <=> (\E i \in 1 .. n : x = rows[i]) \/ x = new
  BY <1>3
<1> HIDE DEF rs
<1>9. /\ s \in Seq(Row)
      /\ \A i, j \in 1 .. Len(s) : s[i].gid = s[j].gid => i = j
      /\ \A h : HasRow(s, h) <=> \E x \in rs : x.gid = h
  BY <1>5, <1>6, <1>7, SortedKeeps
<1>10. \A h \in Gids : HasRow(s, h) <=> (HasRow(rows, h) \/ h = g)
  <2>1. ASSUME NEW h \in Gids PROVE HasRow(s, h) <=> (HasRow(rows, h) \/ h = g)
    <3>1. HasRow(rows, h) <=> \E i \in 1 .. n : rows[i].gid = h
      BY DEF HasRow, n
    <3>2. HasRow(s, h) <=> \E x \in rs : x.gid = h
      BY <1>9
    <3>3. (\E x \in rs : x.gid = h) <=> (\E i \in 1 .. n : rows[i].gid = h) \/ h = g
      BY <1>1, <1>8, Zenon
    <3> QED BY <3>1, <3>2, <3>3
  <2> QED BY <2>1
<1>11. ASSUME keeps PROVE /\ RowsCounted(s) /\ Len(s) = n + 1 /\ s[n + 1].gid = g
                          /\ \A i \in 1 .. n : s[i].gid = rows[i].gid
  <2> DEFINE t == [i \in 1 .. n + 1 |-> IF i = n + 1 THEN new ELSE rows[i]]
  <2>1. g = n /\ n >= 2 /\ (\A i \in 1 .. n : rows[i].pri = 1 - i /\ rows[i].gid < n)
        /\ \A h \in 0 .. n - 1 : HasRow(rows, h)
    BY <1>11 DEF RowsFit, RowsCounted, n
  <2>2. t[n + 1] = new /\ \A i \in 1 .. n : t[i] = rows[i]
    BY <1>2
  <2> HIDE DEF t
  <2>3. \A i \in 1 .. n + 1 : t[i].pri = 1 - i
    <3>1. ASSUME NEW i \in 1 .. n + 1 PROVE t[i].pri = 1 - i
      <4>1. CASE i \in 1 .. n
        BY <2>1, <2>2, <4>1
      <4>2. CASE i = n + 1
        <5>1. t[i].pri = -g /\ 1 - i = -g
          BY <1>1, <1>2, <2>1, <2>2, <4>2
        <5> QED BY <5>1
      <4> QED BY <1>2, <4>1, <4>2
    <3> QED BY <3>1
  <2>4. \A x : x \in rs <=> \E i \in 1 .. n + 1 : x = t[i]
    <3>1. \A i : i \in 1 .. n + 1 <=> i \in 1 .. n \/ i = n + 1
      BY <1>2
    <3> QED BY <1>8, <2>2, <3>1
  <2>5. n + 1 \in Nat
    BY <1>2
  <2>6. s \in [1 .. n + 1 -> rs] /\ \A i \in 1 .. n + 1 : s[i] = t[i]
    BY <1>5, <2>3, <2>4, <2>5, SortedUnique
  <2>7. Len(s) = n + 1
    BY <1>9, <2>5, <2>6
  <2>8. s[n + 1].gid = g /\ \A i \in 1 .. n : s[i].gid = rows[i].gid
    <3>1. n + 1 \in 1 .. n + 1 /\ \A i \in 1 .. n : i \in 1 .. n + 1
      BY <1>2
    <3> QED BY <1>1, <2>2, <2>6, <3>1
  <2>9. \A i \in 1 .. n + 1 : s[i].pri = 1 - i /\ s[i].gid < n + 1
    <3>1. \A i \in 1 .. n + 1 : s[i].pri = 1 - i
      BY <2>3, <2>6
    <3>2. \A i \in 1 .. n : s[i].gid < n + 1
      <4>1. \A x \in Row : x.gid \in Nat
        BY GidRange DEF Row
      <4>2. \A i \in 1 .. n : rows[i] \in Row
        BY <1>2 DEF n
      <4>3. \A i \in 1 .. n : s[i].gid = rows[i].gid /\ rows[i].gid \in Nat /\ rows[i].gid < n
        BY <2>1, <2>8, <4>1, <4>2
      <4> QED BY <1>2, <4>3
    <3>3. s[n + 1].gid < n + 1
      BY <1>2, <2>1, <2>8
    <3>4. \A i : i \in 1 .. n + 1 <=> i \in 1 .. n \/ i = n + 1
      BY <1>2
    <3> QED BY <3>1, <3>2, <3>3, <3>4
  <2>10. \A h \in 0 .. n : HasRow(s, h)
    <3>1. HasRow(s, n)
      BY <1>2, <2>1, <2>7, <2>8 DEF HasRow
    <3>2. ASSUME NEW h \in 0 .. n - 1 PROVE HasRow(s, h)
      <4>1. PICK i \in 1 .. n : rows[i].gid = h
        BY <2>1 DEF HasRow, n
      <4>2. i \in 1 .. Len(s) /\ s[i].gid = h
        BY <1>2, <2>7, <2>8, <4>1
      <4> QED BY <4>2 DEF HasRow
    <3>3. \A h : h \in 0 .. n <=> h \in 0 .. n - 1 \/ h = n
      BY <1>2
    <3> QED BY <3>1, <3>2, <3>3
  <2>11. Len(s) >= 2 /\ Len(s) - 1 = n
    BY <1>2, <2>1, <2>7
  <2>12. RowsCounted(s)
    BY <2>7, <2>9, <2>10, <2>11 DEF RowsCounted
  <2> QED BY <2>7, <2>8, <2>12
<1>12. RowsFit(s, keeps)
  BY <1>9, <1>11 DEF RowsFit
<1> QED BY <1>10, <1>11, <1>12 DEF n

\* up_group and down_grou: two rows next to each other change places.
LEMMA RowsSwapped ==
  ASSUME RowsFit(rows, TRUE), NEW i \in 1 .. Len(rows) - 1,
         NEW s \in Sorted((RowSet \ {rows[i], rows[i + 1]})
                          \union {[rows[i] EXCEPT !.pri = rows[i + 1].pri],
                                  [rows[i + 1] EXCEPT !.pri = rows[i].pri]})
  PROVE  /\ RowsFit(s, TRUE) /\ Len(s) = Len(rows)
         /\ s[i].gid = rows[i + 1].gid /\ s[i + 1].gid = rows[i].gid
         /\ \A j \in 1 .. Len(rows) : j # i /\ j # i + 1 => s[j].gid = rows[j].gid
<1> DEFINE n == Len(rows)
           down == [rows[i] EXCEPT !.pri = rows[i + 1].pri]
           up == [rows[i + 1] EXCEPT !.pri = rows[i].pri]
           rs == (RowSet \ {rows[i], rows[i + 1]}) \union {down, up}
           t == [j \in 1 .. n |-> IF j = i THEN up ELSE IF j = i + 1 THEN down ELSE rows[j]]
<1>1. /\ rows \in Seq(Row) /\ n \in Nat /\ i \in 1 .. n /\ i + 1 \in 1 .. n /\ i + 1 # i
      /\ \A j, k \in 1 .. n : rows[j].gid = rows[k].gid => j = k
  BY DEF RowsFit
<1>2. /\ n >= 2 /\ \A j \in 1 .. n : rows[j].pri = 1 - j /\ rows[j].gid < n
      /\ \A h \in 0 .. n - 1 : HasRow(rows, h)
  BY DEF RowsFit, RowsCounted
<1>3. \A j \in 1 .. n : rows[j] \in Row
  BY <1>1
<1>4. /\ down \in Row /\ down.gid = rows[i].gid /\ down.pri = 1 - (i + 1)
      /\ up \in Row /\ up.gid = rows[i + 1].gid /\ up.pri = 1 - i
  <2>1. rows[i] \in Row /\ rows[i + 1] \in Row
    BY <1>1, <1>3
  <2>2. rows[i].pri = 1 - i /\ rows[i + 1].pri = 1 - (i + 1)
    BY <1>1, <1>2
  <2>3. PICK a, b : a = rows[i] /\ b = rows[i + 1]
    OBVIOUS
  <2>4. /\ [a EXCEPT !.pri = b.pri] \in Row /\ [a EXCEPT !.pri = b.pri].gid = a.gid
        /\ [a EXCEPT !.pri = b.pri].pri = b.pri
    BY <2>1, <2>3 DEF Row
  <2>5. /\ [b EXCEPT !.pri = a.pri] \in Row /\ [b EXCEPT !.pri = a.pri].gid = b.gid
        /\ [b EXCEPT !.pri = a.pri].pri = a.pri
    BY <2>1, <2>3 DEF Row
  <2> QED BY <2>2, <2>3, <2>4, <2>5
<1>5. \A x : x \in RowSet <=> \E j \in 1 .. n : x = rows[j]
  BY RowSetIs
<1>6. s \in Sorted(rs)
  OBVIOUS
<1> HIDE DEF n, down, up
<1>7. t[i] = up /\ t[i + 1] = down /\ \A j \in 1 .. n : j # i /\ j # i + 1 => t[j] = rows[j]
  BY <1>1
<1>8. \A x : x \in rs <=> \E j \in 1 .. n : x = t[j]
  <2>1. ASSUME NEW j \in 1 .. n PROVE t[j] \in rs
    <3>1. CASE j # i /\ j # i + 1
      <4>1. rows[j] # rows[i] /\ rows[j] # rows[i + 1]
        BY <1>1, <3>1
      <4> QED BY <1>5, <1>7, <3>1, <4>1
    <3>2. CASE j = i \/ j = i + 1
      BY <1>7, <3>2
    <3> QED BY <3>1, <3>2
  <2>2. ASSUME NEW x \in rs PROVE \E j \in 1 .. n : x = t[j]
    <3>1. CASE x = down \/ x = up
      BY <1>1, <1>7, <3>1
    <3>2. CASE x \in RowSet /\ x # rows[i] /\ x # rows[i + 1]
      BY <1>5, <1>7, <3>2
    <3> QED BY <3>1, <3>2
  <2> HIDE DEF t, rs
  <2> QED BY <2>1, <2>2
<1> HIDE DEF t, rs
<1>9. \A j \in 1 .. n : t[j] \in Row /\ t[j].pri = 1 - j /\ t[j].gid < n
  <2>1. ASSUME NEW j \in 1 .. n PROVE t[j] \in Row /\ t[j].pri = 1 - j /\ t[j].gid < n
    <3>1. CASE j = i
      BY <1>1, <1>2, <1>4, <1>7, <3>1
    <3>2. CASE j = i + 1
      BY <1>1, <1>2, <1>4, <1>7, <3>2
    <3>3. CASE j # i /\ j # i + 1
      BY <1>2, <1>3, <1>7, <3>3
    <3> QED BY <3>1, <3>2, <3>3
  <2> QED BY <2>1
<1>10. s \in [1 .. n -> rs] /\ \A j \in 1 .. n : s[j] = t[j]
  <2>1. \A j \in 1 .. n : t[j].pri = 1 - j
    BY <1>9
  <2>2. n \in Nat
    BY <1>1
  <2> QED BY ONLY <1>6, <1>8, <2>1, <2>2, SortedUnique
<1>11. s \in Seq(Row) /\ Len(s) = n
  <2>1. rs \subseteq Row
    BY <1>8, <1>9
  <2>2. s \in [1 .. n -> Row]
    BY <1>10, <2>1
  <2>3. n \in Nat
    BY <1>1
  <2> QED BY ONLY <2>2, <2>3
<1>12. /\ s[i].gid = rows[i + 1].gid /\ s[i + 1].gid = rows[i].gid
       /\ \A j \in 1 .. n : j # i /\ j # i + 1 => s[j].gid = rows[j].gid
  BY <1>1, <1>4, <1>7, <1>10
<1>13. \A j, k \in 1 .. n : s[j].gid = s[k].gid => j = k
  <2> DEFINE f(j) == IF j = i THEN i + 1 ELSE IF j = i + 1 THEN i ELSE j
  <2>1. \A j \in 1 .. n : f(j) \in 1 .. n /\ s[j].gid = rows[f(j)].gid
    BY <1>1, <1>12
  <2>2. \A j, k \in 1 .. n : f(j) = f(k) => j = k
    BY <1>1
  <2> HIDE DEF f
  <2>3. ASSUME NEW j \in 1 .. n, NEW k \in 1 .. n, s[j].gid = s[k].gid PROVE j = k
    <3>1. rows[f(j)].gid = rows[f(k)].gid
      BY <2>1, <2>3
    <3>2. f(j) = f(k)
      BY <1>1, <2>1, <3>1
    <3> QED BY <2>2, <3>2
  <2> QED BY <2>3
<1>14. \A h \in 0 .. n - 1 : HasRow(s, h)
  <2>1. ASSUME NEW h \in 0 .. n - 1 PROVE HasRow(s, h)
    <3>1. PICK j \in 1 .. n : rows[j].gid = h
      BY <1>2 DEF HasRow, n
    <3>2. \E k \in 1 .. n : s[k].gid = h
      <4>1. CASE j = i
        BY <1>1, <1>12, <3>1, <4>1
      <4>2. CASE j = i + 1
        BY <1>1, <1>12, <3>1, <4>2
      <4>3. CASE j # i /\ j # i + 1
        BY <1>12, <3>1, <4>3
      <4> QED BY <4>1, <4>2, <4>3
    <3> QED BY <1>11, <3>2 DEF HasRow
  <2> QED BY <2>1
<1>15. \A j \in 1 .. n : s[j].pri = 1 - j /\ s[j].gid < n
  BY <1>9, <1>10
<1>16. RowsCounted(s)
  BY <1>2, <1>11, <1>14, <1>15 DEF RowsCounted
<1>17. RowsFit(s, TRUE)
  BY <1>11, <1>13, <1>16 DEF RowsFit
<1> QED BY <1>11, <1>12, <1>17 DEF n

-----------------------------------------------------------------------------
(* The operations on the list.                                             *)

\* UserFriendsGroupAdd puts a new group before Pending.
LEMMA ListAdded ==
  ASSUME NEW gs, NEW keeps, ListFits(gs, keeps), NEW g \in Gids, ~Has(gs, g),
         keeps => g = Len(gs) - 1
  PROVE  LET r == UserFriendsGroupAdd(gs, g)
         IN /\ ListFits(r, keeps) /\ Len(r) = Len(gs) + 1 /\ r[Len(gs)] = g
            /\ \A i \in 1 .. Len(gs) - 1 : r[i] = gs[i]
            /\ \A h \in Gids : Has(r, h) <=> (Has(gs, h) \/ h = g)
<1> DEFINE n == Len(gs)
           r == UserFriendsGroupAdd(gs, g)
           S == Gids \union {UGI_PENDING}
<1>1. gs \in Seq(S) /\ n \in Nat /\ n > 0 /\ gs[n] = UGI_PENDING
      /\ \A i, j \in 1 .. n : gs[i] = gs[j] => i = j
  BY DEF ListFits
<1>2. /\ r \in Seq(S) /\ Len(r) = n + 1 /\ r[n] = g /\ r[n + 1] = gs[n]
      /\ \A i \in 1 .. n - 1 : r[i] = gs[i]
  <2>1. gs # <<>> /\ g \in S
    BY <1>1
  <2>2. r = BeforeLast(gs, g)
    BY DEF UserFriendsGroupAdd, InsertAt, BeforeLast
  <2> HIDE DEF S, r
  <2>3. /\ BeforeLast(gs, g) \in Seq(S) /\ Len(BeforeLast(gs, g)) = n + 1
        /\ BeforeLast(gs, g)[n] = g /\ BeforeLast(gs, g)[n + 1] = gs[n]
        /\ \A i \in 1 .. n - 1 : BeforeLast(gs, g)[i] = gs[i]
    <3>1. gs \in Seq(S)
      BY <1>1
    <3> QED BY ONLY <2>1, <3>1, PutBeforeLast
  <2> QED BY ONLY <2>2, <2>3
<1>3. \A i \in 1 .. n : gs[i] # g
  BY <1>1, HasIs
<1> HIDE DEF r, n, S
<1>4. \A i : i \in 1 .. n + 1 <=> i \in 1 .. n - 1 \/ i = n \/ i = n + 1
  BY <1>1
<1>5. \A i : i \in 1 .. n <=> i \in 1 .. n - 1 \/ i = n
  BY <1>1
<1>6. n # n + 1 /\ n \notin 1 .. n - 1 /\ n + 1 \notin 1 .. n - 1 /\ n \in 1 .. n
  BY <1>1
<1>7. g # UGI_PENDING
  BY GidRange
<1>8. \A i, j \in 1 .. Len(r) : r[i] = r[j] => i = j
  <2> DEFINE f(i) == IF i = n + 1 THEN n ELSE i
  <2>1. \A i \in 1 .. n + 1 : i # n => f(i) \in 1 .. n /\ r[i] = gs[f(i)]
    BY <1>2, <1>4, <1>5, <1>6
  <2>2. \A i, j \in 1 .. n + 1 : i # n /\ j # n /\ f(i) = f(j) => i = j
    BY <1>1
  <2> HIDE DEF f
  <2>3. ASSUME NEW i \in 1 .. n + 1, NEW j \in 1 .. n + 1, r[i] = r[j] PROVE i = j
    <3>1. CASE i # n /\ j # n
      <4>1. f(i) = f(j)
        BY <1>1, <2>1, <2>3, <3>1
      <4> QED BY <2>2, <3>1, <4>1
    <3>2. CASE i = n /\ j # n
      BY <1>2, <1>3, <2>1, <2>3, <3>2
    <3>3. CASE i # n /\ j = n
      BY <1>2, <1>3, <2>1, <2>3, <3>3
    <3> QED BY <3>1, <3>2, <3>3
  <2> QED BY <1>2, <2>3
<1>9. ASSUME NEW h \in Gids PROVE Has(r, h) <=> (Has(gs, h) \/ h = g)
  <2>1. Has(r, h) <=> \E i \in 1 .. n + 1 : r[i] = h
    BY <1>2, HasIs
  <2>2. Has(gs, h) <=> \E i \in 1 .. n : gs[i] = h
    BY <1>1, HasIs DEF n
  <2>3. h # UGI_PENDING
    BY GidRange
  <2> QED BY <1>1, <1>2, <1>4, <1>5, <2>1, <2>2, <2>3
<1>10. ASSUME keeps PROVE ListCounted(r)
  <2>1. /\ n > 2 /\ g = n - 1 /\ \A i \in 1 .. n - 1 : gs[i] < n - 1
        /\ \A h \in 0 .. n - 2 : \E i \in 1 .. n - 1 : gs[i] = h
    BY <1>10 DEF ListFits, ListCounted, n
  <2>2. \A i \in 1 .. n - 1 : gs[i] \in Nat
    <3>1. \A i \in 1 .. n - 1 : gs[i] \in S /\ gs[i] # UGI_PENDING
      BY <1>1, <1>5, <1>6 DEF n
    <3> QED BY <3>1, GidRange DEF S
  <2>3. \A i \in 1 .. n : r[i] < n
    <3>1. \A i \in 1 .. n - 1 : r[i] < n
      <4>1. \A i \in 1 .. n - 1 : r[i] \in Nat /\ r[i] < n - 1
        BY <1>2, <2>1, <2>2
      <4> QED BY <1>1, <4>1
    <3>2. r[n] < n
      BY <1>1, <1>2, <2>1
    <3> QED BY <1>5, <3>1, <3>2
  <2>4. \A h \in 0 .. n - 1 : \E i \in 1 .. n : r[i] = h
    <3>1. \A h : h \in 0 .. n - 1 <=> h \in 0 .. n - 2 \/ h = n - 1
      BY <1>1
    <3>2. \A h \in 0 .. n - 2 : \E i \in 1 .. n : r[i] = h
      BY <1>2, <1>5, <2>1
    <3>3. r[n] = n - 1
      BY <1>2, <2>1
    <3> QED BY <1>6, <3>1, <3>2, <3>3
  <2>5. Len(r) - 1 = n /\ Len(r) - 2 = n - 1 /\ Len(r) > 2
    BY <1>1, <1>2, <2>1
  <2> QED BY <2>3, <2>4, <2>5 DEF ListCounted
<1>11. ListFits(r, keeps)
  BY <1>1, <1>2, <1>8, <1>10 DEF ListFits, S
<1> QED BY <1>2, <1>9, <1>11 DEF r, n

\* UserFriendsGroupDelete takes out the group and no other.
LEMMA ListDeleted ==
  ASSUME NEW gs, ListFits(gs, FALSE), NEW g \in Gids, Has(gs, g)
  PROVE  LET r == UserFriendsGroupDelete(gs, g)
         IN ListFits(r, FALSE) /\ \A h \in Gids : Has(r, h) <=> (Has(gs, h) /\ h # g)
<1> DEFINE n == Len(gs)
           S == Gids \union {UGI_PENDING}
           r == UserFriendsGroupDelete(gs, g)
<1>1. gs \in Seq(S) /\ n \in Nat /\ n > 0 /\ gs[n] = UGI_PENDING
      /\ \A i, j \in 1 .. n : gs[i] = gs[j] => i = j
  BY DEF ListFits
<1>2. PICK k \in 1 .. n : gs[k] = g
  BY <1>1, HasIs
<1>3. r = RemoveAt(gs, k)
  BY <1>1, <1>2, GroupGet DEF UserFriendsGroupDelete
<1>4. /\ r \in Seq(S) /\ Len(r) = n - 1
      /\ \A j \in 1 .. n - 1 : r[j] = IF j < k THEN gs[j] ELSE gs[j + 1]
  <2>1. /\ RemoveAt(gs, k) \in Seq(S) /\ Len(RemoveAt(gs, k)) = n - 1
        /\ \A j \in 1 .. n - 1 : RemoveAt(gs, k)[j] = IF j < k THEN gs[j] ELSE gs[j + 1]
    <3> HIDE DEF S
    <3> QED BY <1>1, CutOut DEF RemoveAt
  <2> HIDE DEF r
  <2> QED BY <1>3, <2>1
<1> HIDE DEF r, n, S
<1> DEFINE f(j) == IF j < k THEN j ELSE j + 1
<1>5. \A j \in 1 .. n - 1 : f(j) \in 1 .. n /\ f(j) # k /\ r[j] = gs[f(j)]
  BY <1>1, <1>2, <1>4
<1>6. \A i, j \in 1 .. n - 1 : f(i) = f(j) => i = j
  BY <1>1, <1>2
<1>7. \A i \in 1 .. n : i # k => \E j \in 1 .. n - 1 : f(j) = i
  <2>1. ASSUME NEW i \in 1 .. n, i # k PROVE \E j \in 1 .. n - 1 : f(j) = i
    <3>1. CASE i < k
      BY <1>1, <1>2, <3>1
    <3>2. CASE ~(i < k)
      <4>1. i - 1 \in 1 .. n - 1 /\ f(i - 1) = i
        BY <1>1, <1>2, <2>1, <3>2
      <4> QED BY <4>1
    <3> QED BY <3>1, <3>2
  <2> QED BY <2>1
<1>8. k # n /\ n > 1 /\ f(n - 1) = n
  <2>1. k # n
    BY <1>1, <1>2, GidRange
  <2> QED BY <1>1, <1>2, <2>1
<1> HIDE DEF f
<1>9. \A i, j \in 1 .. n - 1 : r[i] = r[j] => i = j
  BY <1>1, <1>5, <1>6
<1>10. r[n - 1] = UGI_PENDING /\ n - 1 > 0
  <2>1. n - 1 \in 1 .. n - 1
    BY <1>1, <1>8
  <2> QED BY <1>1, <1>5, <1>8, <2>1
<1>11. ASSUME NEW h \in Gids PROVE Has(r, h) <=> (Has(gs, h) /\ h # g)
  <2>1. Has(r, h) <=> \E j \in 1 .. n - 1 : r[j] = h
    BY <1>4, HasIs
  <2>2. Has(gs, h) <=> \E j \in 1 .. n : gs[j] = h
    BY <1>1, HasIs DEF n
  <2>3. ASSUME NEW j \in 1 .. n - 1, r[j] = h PROVE (\E i \in 1 .. n : gs[i] = h) /\ h # g
    <3>1. gs[f(j)] = h /\ f(j) \in 1 .. n /\ f(j) # k
      BY <1>5, <2>3
    <3> QED BY <1>1, <1>2, <3>1
  <2>4. ASSUME NEW i \in 1 .. n, gs[i] = h, h # g PROVE \E j \in 1 .. n - 1 : r[j] = h
    <3>1. i # k
      BY <1>2, <2>4
    <3>2. PICK j \in 1 .. n - 1 : f(j) = i
      BY <1>7, <3>1
    <3> QED BY <1>5, <2>4, <3>2
  <2> QED BY <2>1, <2>2, <2>3, <2>4
<1>12. ListFits(r, FALSE)
  BY <1>4, <1>9, <1>10 DEF ListFits, S
<1> QED BY <1>11, <1>12 DEF r

\* The move of a group before the one in front of it is a swap.
LEMMA ListMoved ==
  ASSUME NEW gs, ListFits(gs, TRUE), NEW i \in 1 .. Len(gs) - 2
  PROVE  LET r == MoveBefore(gs, i + 1, i)
         IN /\ ListFits(r, TRUE) /\ Len(r) = Len(gs)
            /\ r[i] = gs[i + 1] /\ r[i + 1] = gs[i]
            /\ \A j \in 1 .. Len(gs) : j # i /\ j # i + 1 => r[j] = gs[j]
            /\ \A g : Has(r, g) <=> Has(gs, g)
<1> DEFINE n == Len(gs)
           S == Gids \union {UGI_PENDING}
           r == MoveBefore(gs, i + 1, i)
<1>1. /\ gs \in Seq(S) /\ n \in Nat /\ n > 2 /\ gs[n] = UGI_PENDING /\ DOMAIN gs = 1 .. n
      /\ i \in 1 .. n - 1 /\ i + 1 \in 1 .. n - 1 /\ i + 1 # i
      /\ \A j, k \in 1 .. n : gs[j] = gs[k] => j = k
      /\ \A j \in 1 .. n - 1 : gs[j] < n - 1
      /\ \A h \in 0 .. n - 2 : \E j \in 1 .. n - 1 : gs[j] = h
  BY DEF ListFits, ListCounted
<1> DEFINE f(j) == IF j = i THEN i + 1 ELSE IF j = i + 1 THEN i ELSE j
<1>2. r = [j \in 1 .. n |-> gs[f(j)]]
  <2>1. r = [j \in 1 .. n |-> IF j = i THEN gs[i + 1]
                              ELSE IF j \in i + 1 .. i + 1 THEN gs[j - 1] ELSE gs[j]]
    BY <1>1 DEF MoveBefore
  <2>2. ASSUME NEW j \in 1 .. n
        PROVE (IF j = i THEN gs[i + 1]
               ELSE IF j \in i + 1 .. i + 1 THEN gs[j - 1] ELSE gs[j]) = gs[f(j)]
    <3>1. j \in i + 1 .. i + 1 <=> j = i + 1
      BY <1>1
    <3>2. i + 1 - 1 = i
      BY <1>1
    <3> QED BY <3>1, <3>2
  <2> HIDE DEF r, f
  <2> QED BY <2>1, <2>2
<1> HIDE DEF r, n, S
<1>3. /\ \A j \in 1 .. n : f(j) \in 1 .. n /\ f(f(j)) = j
      /\ \A j \in 1 .. n - 1 : f(j) \in 1 .. n - 1
      /\ f(n) = n
  BY <1>1
<1>4. f(i) = i + 1 /\ f(i + 1) = i /\ \A j \in 1 .. n : j # i /\ j # i + 1 => f(j) = j
  BY <1>1
<1> HIDE DEF f
<1>5. r \in Seq(S) /\ Len(r) = n /\ \A j \in 1 .. n : r[j] = gs[f(j)]
  <2>1. \A j \in 1 .. n : gs[f(j)] \in S
    BY <1>1, <1>3 DEF n
  <2> QED BY <1>1, <1>2, <2>1
<1>6. \A j \in 1 .. n - 1 : j \in 1 .. n
  BY <1>1
<1>7. n \in 1 .. n /\ r[n] = UGI_PENDING
  BY <1>1, <1>3, <1>5
<1>8. \A j, k \in 1 .. n : r[j] = r[k] => j = k
  <2>1. ASSUME NEW j \in 1 .. n, NEW k \in 1 .. n, r[j] = r[k] PROVE j = k
    <3>1. f(j) = f(k)
      BY <1>1, <1>3, <1>5, <2>1
    <3> QED BY <1>3, <3>1
  <2> QED BY <2>1
<1>9. \A j \in 1 .. n - 1 : r[j] < n - 1
  <2>1. ASSUME NEW j \in 1 .. n - 1 PROVE r[j] < n - 1
    <3>1. f(j) \in 1 .. n - 1 /\ r[j] = gs[f(j)]
      BY <1>3, <1>5, <1>6
    <3> QED BY <1>1, <3>1
  <2> QED BY <2>1
<1>10. \A h \in 0 .. n - 2 : \E j \in 1 .. n - 1 : r[j] = h
  <2>1. ASSUME NEW h \in 0 .. n - 2 PROVE \E j \in 1 .. n - 1 : r[j] = h
    <3>1. PICK k \in 1 .. n - 1 : gs[k] = h
      BY <1>1
    <3>2. f(k) \in 1 .. n - 1 /\ r[f(k)] = h
      BY <1>3, <1>5, <1>6, <3>1
    <3> QED BY <3>2
  <2> QED BY <2>1
<1>11. ListCounted(r)
  BY <1>1, <1>5, <1>9, <1>10 DEF ListCounted
<1>12. ListFits(r, TRUE)
  BY <1>1, <1>5, <1>7, <1>8, <1>11 DEF ListFits, S
<1>13. \A g : Has(r, g) <=> Has(gs, g)
  <2>1. \A g : Has(r, g) <=> \E j \in 1 .. n : r[j] = g
    BY <1>5, HasIs
  <2>2. \A g : Has(gs, g) <=> \E j \in 1 .. n : gs[j] = g
    BY <1>1, HasIs DEF n
  <2>3. ASSUME NEW j \in 1 .. n PROVE (\E k \in 1 .. n : gs[k] = r[j]) /\ \E k \in 1 .. n : r[k] = gs[j]
    <3>1. f(j) \in 1 .. n /\ r[j] = gs[f(j)] /\ r[f(j)] = gs[j]
      BY <1>3, <1>5
    <3> QED BY <3>1
  <2> QED BY <2>1, <2>2, <2>3
<1> QED BY <1>1, <1>4, <1>5, <1>6, <1>12, <1>13 DEF r, n

-----------------------------------------------------------------------------
(* The steps, for a user who waits.                                        *)

\* Nothing is in flight when a request is sent.
LEMMA NothingInFlight ==
  ASSUME OneAtATime, GroupInv, InFlight < MaxInFlight
  PROVE  sent = <<>> /\ answers = <<>> /\ Shows(rows, groups, Keeps)
<1>1. Len(sent) \in Nat /\ Len(answers) \in Nat
  BY DEF GroupInv
<1>2. Len(sent) + Len(answers) < 1
  BY DEF OneAtATime, InFlight
<1>3. Len(sent) # 1 /\ Len(answers) # 1
  BY <1>1, <1>2
<1> QED BY <1>3 DEF GroupInv, OneInFlight

\* One request is on its way when the server takes one.
LEMMA RequestTaken ==
  ASSUME GroupInv, sent # <<>>
  PROVE  /\ Tail(sent) = <<>> /\ answers = <<>> /\ Shows(rows, groups, Keeps)
         /\ Head(sent) \in Request /\ RequestFits(Head(sent), rows, Keeps, delGid)
<1>1. sent \in Seq(Request)
  BY DEF GroupInv
<1>2. Len(sent) = 1 /\ answers = <<>> /\ Shows(rows, groups, Keeps)
      /\ RequestFits(sent[1], rows, Keeps, delGid)
  BY DEF GroupInv, OneInFlight
<1>3. Tail(sent) = <<>> /\ Head(sent) = sent[1] /\ sent[1] \in Request
  BY <1>1, <1>2, OneEntry
<1> QED BY <1>2, <1>3

\* One answer is on its way when the client takes one.
LEMMA AnswerTaken ==
  ASSUME GroupInv, answers # <<>>
  PROVE  /\ Tail(answers) = <<>> /\ sent = <<>> /\ Head(answers).ok
         /\ Head(answers).request \in Request
         /\ RequestFits(Head(answers).request, rows, Keeps, delGid)
         /\ Granted(Head(answers).request, rows, groups, Keeps)
<1>1. answers \in Seq([ok : BOOLEAN, request : Request])
  BY DEF GroupInv
<1>2. Len(answers) = 1 /\ sent = <<>> /\ answers[1].ok
      /\ RequestFits(answers[1].request, rows, Keeps, delGid)
      /\ Granted(answers[1].request, rows, groups, Keeps)
  BY DEF GroupInv, OneInFlight
<1>3. Tail(answers) = <<>> /\ Head(answers) = answers[1]
      /\ answers[1] \in [ok : BOOLEAN, request : Request]
  BY <1>1, <1>2, OneEntry
<1>4. answers[1].request \in Request
  BY <1>3
<1> QED BY <1>2, <1>3, <1>4

\* A request that fits the screen is sent.
LEMMA SendStep ==
  ASSUME OneAtATime, GroupInv, NEW op \in {"add", "delete", "up", "down"},
         NEW g \in Gids, NEW h \in Gids, Send(op, g, h), delGid' \in Gids,
         op = "add" => g \in 2 .. MaxGid /\ ~HasRow(rows, g) /\ (Keeps => g = Len(rows)),
         op = "delete" => ~Keeps /\ g = delGid' /\ HasRow(rows, g),
         op \in {"up", "down"} => /\ Keeps
                                  /\ \E i \in 1 .. Len(rows) - 1 : h = rows[i].gid /\ g = rows[i + 1].gid
  PROVE  GroupInv' /\ groups' = groups
<1>1. sent = <<>> /\ answers = <<>> /\ Shows(rows, groups, Keeps)
  BY NothingInFlight DEF Send
<1>2. PICK r : r = [op |-> op, gid |-> g, next |-> h]
  OBVIOUS
<1>3. r \in Request /\ r.op = op /\ r.gid = g /\ r.next = h
  BY <1>2 DEF Request
<1>4. RequestFits(r, rows, Keeps, delGid')
  BY <1>3 DEF RequestFits
<1>5. habit' = habit /\ groups' = groups /\ rows' = rows /\ answers' = <<>> /\ Keeps' = Keeps
  BY <1>1 DEF Send, Keeps
<1>6. sent' = <<r>>
  <2>1. sent' = Append(<<>>, r)
    BY <1>1, <1>2 DEF Send
  <2> QED BY <2>1
<1>7. sent' \in Seq(Request) /\ Len(sent') = 1 /\ sent'[1] = r
  BY <1>3, <1>6
<1>8. answers' \in Seq([ok : BOOLEAN, request : Request])
  BY <1>5
<1>9. OneInFlight(rows', groups', Keeps', delGid', sent', answers')
  BY <1>1, <1>4, <1>5, <1>7 DEF OneInFlight
<1>10. /\ habit' \in Habits /\ ~({"move", "delete"} \subseteq habit')
       /\ ListFits(groups', Keeps') /\ RowsFit(rows', Keeps')
  BY <1>5 DEF GroupInv
<1> QED BY <1>5, <1>7, <1>8, <1>9, <1>10 DEF GroupInv

\* The user adds a group.
LEMMA AddGroupStep ==
  ASSUME OneAtATime, GroupInv, AddGroup
  PROVE  GroupInv' /\ groups' = groups
<1>1. RowsFit(rows, Keeps) /\ delGid \in Gids
  BY DEF GroupInv
<1>2. FreeGid \in 2 .. MaxGid /\ ~HasRow(rows, FreeGid) /\ (Keeps => FreeGid = Len(rows))
  BY <1>1, FreeGidIs DEF AddGroup
<1>3. Send("add", FreeGid, 0) /\ delGid' \in Gids
  BY <1>1 DEF AddGroup
<1>4. FreeGid \in Gids /\ 0 \in Gids
  BY <1>2, GidRange
<1> QED BY <1>2, <1>3, <1>4, SendStep

\* The user deletes the group of a row.
LEMMA DeleteGroupStep ==
  ASSUME OneAtATime, GroupInv, NEW g \in Gids, DeleteGroup(g)
  PROVE  GroupInv' /\ groups' = groups
<1>1. "delete" \in habit /\ InFlight < MaxInFlight /\ HasRow(rows, g) /\ delGid' = g
  <2>1. RowsFit(rows, Keeps)
    BY DEF GroupInv
  <2>2. g \in Shown <=> HasRow(rows, g)
    BY <2>1, ShownIs
  <2> QED BY <2>2 DEF DeleteGroup
<1>2. CASE g \in FixedGroups
  <2>1. habit' = habit /\ groups' = groups /\ rows' = rows /\ sent' = sent /\ answers' = answers
    BY <1>2 DEF DeleteGroup
  <2>2. sent = <<>> /\ answers = <<>> /\ Shows(rows, groups, Keeps)
    BY <1>1, NothingInFlight
  <2>3. Keeps' = Keeps
    BY <2>1 DEF Keeps
  <2>4. OneInFlight(rows', groups', Keeps', delGid', sent', answers')
    BY <2>1, <2>2, <2>3 DEF OneInFlight
  <2> QED BY <1>1, <2>1, <2>3, <2>4 DEF GroupInv
<1>3. CASE g \notin FixedGroups
  <2>1. Send("delete", g, 0)
    BY <1>3 DEF DeleteGroup
  <2>2. 0 \in Gids
    BY GidRange
  <2>3. ~Keeps
    BY <1>1 DEF Keeps
  <2> QED BY <1>1, <2>1, <2>2, <2>3, SendStep
<1> QED BY <1>2, <1>3

\* The user moves a group up.
LEMMA UpGroupStep ==
  ASSUME OneAtATime, GroupInv, NEW g \in Gids, UpGroup(g)
  PROVE  GroupInv' /\ groups' = groups
<1>1. RowsFit(rows, Keeps) /\ delGid' \in Gids /\ Keeps
  BY DEF GroupInv, UpGroup, Keeps
<1>2. PICK i : i = RowOf(g)
  OBVIOUS
<1>3. i \in 1 .. Len(rows) /\ i > 1 /\ rows[i].gid = g /\ Send("up", g, rows[i - 1].gid)
  <2>1. HasRow(rows, g)
    BY <1>1, ShownIs DEF UpGroup
  <2>2. i \in 1 .. Len(rows) /\ rows[i].gid = g
    BY <1>1, <1>2, <2>1, ShownIs
  <2> QED BY <1>2, <2>2 DEF UpGroup
<1>4. i - 1 \in 1 .. Len(rows) - 1 /\ i - 1 \in 1 .. Len(rows) /\ i - 1 + 1 = i
  BY <1>1, <1>3 DEF RowsFit
<1>5. rows[i - 1].gid \in Gids
  BY <1>1, <1>4, ShownIs DEF HasRow
<1>6. \E j \in 1 .. Len(rows) - 1 : rows[i - 1].gid = rows[j].gid /\ g = rows[j + 1].gid
  BY <1>3, <1>4
<1> QED BY <1>1, <1>3, <1>5, <1>6, SendStep

\* The user moves a group down.
LEMMA DownGroupStep ==
  ASSUME OneAtATime, GroupInv, NEW g \in Gids, DownGroup(g)
  PROVE  GroupInv' /\ groups' = groups
<1>1. RowsFit(rows, Keeps) /\ delGid' \in Gids /\ Keeps
  BY DEF GroupInv, DownGroup, Keeps
<1>2. PICK i : i = RowOf(g)
  OBVIOUS
<1>3. i \in 1 .. Len(rows) /\ i < Len(rows) /\ rows[i].gid = g /\ Send("down", rows[i + 1].gid, g)
  <2>1. HasRow(rows, g)
    BY <1>1, ShownIs DEF DownGroup
  <2>2. i \in 1 .. Len(rows) /\ rows[i].gid = g
    BY <1>1, <1>2, <2>1, ShownIs
  <2> QED BY <1>2, <2>2 DEF DownGroup
<1>4. i \in 1 .. Len(rows) - 1 /\ i + 1 \in 1 .. Len(rows)
  BY <1>1, <1>3 DEF RowsFit
<1>5. rows[i + 1].gid \in Gids
  BY <1>1, <1>4, ShownIs DEF HasRow
<1>6. \E j \in 1 .. Len(rows) - 1 : g = rows[j].gid /\ rows[i + 1].gid = rows[j + 1].gid
  BY <1>3, <1>4
<1> QED BY <1>1, <1>3, <1>5, <1>6, SendStep

\* The server grants the request.
LEMMA AnswerStep ==
  ASSUME GroupInv, sent # <<>>, NEW gs, Answer(TRUE, gs),
         ListFits(gs, Keeps), Granted(Head(sent), rows, gs, Keeps)
  PROVE  GroupInv'
<1>1. PICK r : r = Head(sent)
  OBVIOUS
<1>2. /\ Tail(sent) = <<>> /\ answers = <<>> /\ r \in Request
      /\ RequestFits(r, rows, Keeps, delGid)
  BY <1>1, RequestTaken
<1>3. /\ habit' = habit /\ rows' = rows /\ delGid' = delGid /\ Keeps' = Keeps
      /\ groups' = gs /\ sent' = <<>>
  BY <1>2 DEF Answer, Keeps
<1>4. PICK a : a = [ok |-> TRUE, request |-> r]
  OBVIOUS
<1>5. a \in [ok : BOOLEAN, request : Request] /\ a.ok /\ a.request = r
  BY <1>2, <1>4
<1>6. answers' = <<a>>
  <2>1. answers' = Append(<<>>, a)
    BY <1>1, <1>2, <1>4 DEF Answer
  <2> QED BY <2>1
<1>7. answers' \in Seq([ok : BOOLEAN, request : Request]) /\ Len(answers') = 1 /\ answers'[1] = a
  BY <1>5, <1>6
<1>8. sent' \in Seq(Request)
  BY <1>3
<1>9. Granted(r, rows, gs, Keeps)
  BY <1>1
<1>10. OneInFlight(rows', groups', Keeps', delGid', sent', answers')
  BY <1>2, <1>3, <1>5, <1>7, <1>9 DEF OneInFlight
<1>11. habit' \in Habits /\ ~({"move", "delete"} \subseteq habit') /\ delGid' \in Gids
       /\ RowsFit(rows', Keeps')
  BY <1>3 DEF GroupInv
<1> QED BY <1>3, <1>7, <1>8, <1>10, <1>11 DEF GroupInv

\* The server adds the group; no other goes.
LEMMA ProcessAddStep ==
  ASSUME GroupInv, ProcessPacketFriendGroupAdd
  PROVE  /\ GroupInv' /\ \A h : Has(groups, h) => Has(groups', h)
<1>1. sent # <<>> /\ Head(sent).op = "add"
  BY DEF ProcessPacketFriendGroupAdd
<1>2. PICK g : g = Head(sent).gid
  OBVIOUS
<1>3. ListFits(groups, Keeps) /\ Shows(rows, groups, Keeps)
  BY <1>1, RequestTaken DEF GroupInv
<1>4. g \in 2 .. MaxGid /\ g \in Gids /\ ~HasRow(rows, g) /\ (Keeps => g = Len(rows))
  <2>1. g \in 2 .. MaxGid /\ ~HasRow(rows, g) /\ (Keeps => g = Len(rows))
    BY <1>1, <1>2, RequestTaken DEF RequestFits
  <2> QED BY <2>1, GidRange
<1>5. ~Has(groups, g) /\ (Keeps => g = Len(groups) - 1)
  <2>1. ~Has(groups, g)
    BY <1>3, <1>4 DEF Shows
  <2>2. ASSUME Keeps PROVE g = Len(groups) - 1
    <3>1. g \in Nat /\ g = Len(rows) /\ Len(groups) = Len(rows) + 1
      BY <1>3, <1>4, <2>2, GidRange DEF Shows, SameOrder
    <3> QED BY <3>1
  <2> QED BY <2>1, <2>2
<1> DEFINE r == UserFriendsGroupAdd(groups, g)
<1>6. Answer(TRUE, r)
  BY <1>2, <1>5 DEF ProcessPacketFriendGroupAdd
<1>7. /\ ListFits(r, Keeps) /\ Len(r) = Len(groups) + 1 /\ r[Len(groups)] = g
      /\ \A i \in 1 .. Len(groups) - 1 : r[i] = groups[i]
      /\ \A h \in Gids : Has(r, h) <=> (Has(groups, h) \/ h = g)
  BY <1>3, <1>4, <1>5, ListAdded
<1> HIDE DEF r
<1>8. AddGranted(g, rows, r, Keeps)
  <2>1. \A h \in Gids : (HasRow(rows, h) \/ h = g) <=> Has(r, h)
    BY <1>3, <1>7 DEF Shows
  <2>2. ASSUME Keeps PROVE /\ Len(r) = Len(rows) + 2 /\ r[Len(rows) + 1] = g
                           /\ \A i \in 1 .. Len(rows) : r[i] = rows[i].gid
    <3>1. Len(groups) = Len(rows) + 1 /\ \A i \in 1 .. Len(rows) : groups[i] = rows[i].gid
      BY <1>3, <2>2 DEF Shows, SameOrder
    <3>2. Len(rows) \in Nat
      BY DEF GroupInv, RowsFit
    <3>3. Len(groups) + 1 = Len(rows) + 2 /\ Len(groups) - 1 = Len(rows)
      BY <3>1, <3>2
    <3> QED BY <1>7, <3>1, <3>3
  <2> QED BY <2>1, <2>2 DEF AddGranted
<1>9. Granted(Head(sent), rows, r, Keeps)
  BY <1>1, <1>2, <1>8 DEF Granted
<1>10. GroupInv'
  BY <1>1, <1>6, <1>7, <1>9, AnswerStep
<1>11. groups' = r
  BY <1>6 DEF Answer
<1>12. \A h : Has(groups, h) => Has(r, h)
  <2>1. ASSUME NEW h, Has(groups, h) PROVE Has(r, h)
    <3>1. /\ groups \in Seq(Gids \union {UGI_PENDING}) /\ groups[Len(groups)] = UGI_PENDING
          /\ r \in Seq(Gids \union {UGI_PENDING}) /\ Len(r) > 0 /\ r[Len(r)] = UGI_PENDING
      BY <1>3, <1>7 DEF ListFits
    <3>2. h \in Gids \union {UGI_PENDING}
      BY <2>1, <3>1, HasIs
    <3>3. CASE h \in Gids
      BY <1>7, <2>1, <3>3
    <3>4. CASE h = UGI_PENDING
      <4>1. Len(r) \in 1 .. Len(r)
        BY <3>1
      <4> QED BY <3>1, <3>4, <4>1, HasIs
    <3> QED BY <3>2, <3>3, <3>4
  <2> QED BY <2>1
<1> QED BY <1>10, <1>11, <1>12

\* The server deletes the group; no other goes.
LEMMA ProcessDeleteStep ==
  ASSUME GroupInv, ProcessPacketFriendGroupDelete
  PROVE  /\ GroupInv' /\ sent # <<>> /\ Head(sent).op = "delete"
         /\ \A h : Has(groups, h) /\ h # Head(sent).gid => Has(groups', h)
<1>1. sent # <<>> /\ Head(sent).op = "delete"
  BY DEF ProcessPacketFriendGroupDelete
<1>2. PICK g : g = Head(sent).gid
  OBVIOUS
<1>3. ListFits(groups, Keeps) /\ Shows(rows, groups, Keeps) /\ RowsFit(rows, Keeps)
  BY <1>1, RequestTaken DEF GroupInv
<1>4. ~Keeps /\ HasRow(rows, g)
  BY <1>1, <1>2, RequestTaken DEF RequestFits
<1>5. g \in Gids /\ Has(groups, g)
  <2>1. g \in Gids
    BY <1>3, <1>4, ShownIs
  <2> QED BY <1>3, <1>4, <2>1 DEF Shows
<1>6. ListFits(groups, FALSE)
  BY <1>3 DEF ListFits
<1> DEFINE r == UserFriendsGroupDelete(groups, g)
<1>7. Answer(TRUE, r)
  BY <1>2, <1>5 DEF ProcessPacketFriendGroupDelete
<1>8. ListFits(r, FALSE) /\ \A h \in Gids : Has(r, h) <=> (Has(groups, h) /\ h # g)
  BY <1>5, <1>6, ListDeleted
<1> HIDE DEF r
<1>9. DeleteGranted(g, rows, r)
  BY <1>3, <1>8 DEF DeleteGranted, Shows
<1>10. Granted(Head(sent), rows, r, Keeps) /\ ListFits(r, Keeps)
  BY <1>1, <1>2, <1>4, <1>8, <1>9 DEF Granted, ListFits
<1>11. GroupInv'
  BY <1>1, <1>7, <1>10, AnswerStep
<1>12. groups' = r
  BY <1>7 DEF Answer
<1>13. ASSUME NEW h, Has(groups, h), h # g PROVE Has(r, h)
  <2>1. /\ groups \in Seq(Gids \union {UGI_PENDING})
        /\ r \in Seq(Gids \union {UGI_PENDING}) /\ Len(r) > 0 /\ r[Len(r)] = UGI_PENDING
    BY <1>6, <1>8 DEF ListFits
  <2>2. h \in Gids \union {UGI_PENDING}
    BY <1>13, <2>1, HasIs
  <2>3. CASE h \in Gids
    BY <1>8, <1>13, <2>3
  <2>4. CASE h = UGI_PENDING
    <3>1. Len(r) \in 1 .. Len(r)
      BY <2>1
    <3> QED BY <2>1, <2>4, <3>1, HasIs
  <2> QED BY <2>2, <2>3, <2>4
<1> QED BY <1>1, <1>2, <1>11, <1>12, <1>13

\* The server moves the group; all stay.
LEMMA ProcessMoveStep ==
  ASSUME GroupInv, ProcessPacketFriendGroupMove
  PROVE  GroupInv' /\ \A h : Has(groups, h) => Has(groups', h)
<1>1. sent # <<>> /\ Head(sent).op \in {"up", "down"}
  BY DEF ProcessPacketFriendGroupMove
<1>2. PICK g, h : g = Head(sent).gid /\ h = Head(sent).next
  OBVIOUS
<1>3. ListFits(groups, Keeps) /\ Shows(rows, groups, Keeps) /\ RowsFit(rows, Keeps)
  BY <1>1, RequestTaken DEF GroupInv
<1>4. Keeps /\ \E i \in 1 .. Len(rows) - 1 : h = rows[i].gid /\ g = rows[i + 1].gid
  BY <1>1, <1>2, RequestTaken DEF RequestFits
<1>5. PICK i \in 1 .. Len(rows) - 1 : h = rows[i].gid /\ g = rows[i + 1].gid
  BY <1>4
<1>6. /\ Len(rows) \in Nat /\ Len(groups) = Len(rows) + 1
      /\ \A j \in 1 .. Len(rows) : groups[j] = rows[j].gid
  BY <1>3, <1>4 DEF Shows, SameOrder, RowsFit
<1>7. /\ i \in 1 .. Len(rows) /\ i + 1 \in 1 .. Len(rows) /\ i # i + 1
      /\ i \in 1 .. Len(groups) /\ i + 1 \in 1 .. Len(groups) /\ i \in 1 .. Len(groups) - 2
      /\ i + 1 # Len(groups) /\ Len(groups) \in 1 .. Len(groups)
  BY <1>6
<1>8. groups[i] = h /\ groups[i + 1] = g
  BY <1>5, <1>6, <1>7
<1>9. ListFits(groups, TRUE)
  BY <1>3, <1>4 DEF ListFits
<1>10. /\ groups \in Seq(Gids \union {UGI_PENDING}) /\ groups[Len(groups)] = UGI_PENDING
       /\ \A j, k \in 1 .. Len(groups) : groups[j] = groups[k] => j = k
  BY <1>3 DEF ListFits
<1>11. g # UGI_PENDING /\ g # h /\ Has(groups, g) /\ Has(groups, h)
  <2>1. g # UGI_PENDING /\ g # h
    BY <1>7, <1>8, <1>10
  <2>2. Has(groups, g) /\ Has(groups, h)
    BY <1>7, <1>8, <1>10, HasIs
  <2> QED BY <2>1, <2>2
<1>12. UserFriendsGroupGet(groups, g) = i + 1 /\ UserFriendsGroupGet(groups, h) = i
  <2>1. UserFriendsGroupGet(groups, groups[i + 1]) = i + 1
    BY <1>7, <1>10, GroupGet
  <2>2. UserFriendsGroupGet(groups, groups[i]) = i
    BY <1>7, <1>10, GroupGet
  <2> QED BY <1>8, <2>1, <2>2
<1> DEFINE r == MoveBefore(groups, i + 1, i)
<1>13. Answer(TRUE, r)
  BY <1>2, <1>11, <1>12 DEF ProcessPacketFriendGroupMove
<1>14. /\ ListFits(r, TRUE) /\ Len(r) = Len(groups)
       /\ r[i] = groups[i + 1] /\ r[i + 1] = groups[i]
       /\ \A j \in 1 .. Len(groups) : j # i /\ j # i + 1 => r[j] = groups[j]
       /\ \A x : Has(r, x) <=> Has(groups, x)
  BY <1>7, <1>9, ListMoved
<1> HIDE DEF r
<1>15. MoveGranted(h, rows, r)
  <2>1. \A j \in 1 .. Len(rows) - 1 : h = rows[j].gid => j = i
    <3>1. \A j \in 1 .. Len(rows) - 1 : j \in 1 .. Len(rows)
      BY <1>6
    <3>2. \A j \in 1 .. Len(rows) : rows[j].gid = rows[i].gid => j = i
      BY <1>3, <1>7 DEF RowsFit
    <3> QED BY <1>5, <3>1, <3>2
  <2>2. r[i] = rows[i + 1].gid /\ r[i + 1] = rows[i].gid
    BY <1>5, <1>8, <1>14
  <2>3. \A j \in 1 .. Len(rows) : j # i /\ j # i + 1 => r[j] = rows[j].gid
    BY <1>6, <1>14
  <2> QED BY <1>6, <1>14, <2>1, <2>2, <2>3 DEF MoveGranted
<1>16. Granted(Head(sent), rows, r, Keeps) /\ ListFits(r, Keeps)
  BY <1>1, <1>2, <1>4, <1>14, <1>15 DEF Granted, ListFits
<1>17. GroupInv'
  BY <1>1, <1>13, <1>16, AnswerStep
<1>18. groups' = r
  BY <1>13 DEF Answer
<1> QED BY <1>14, <1>17, <1>18

\* The client takes the answer that the group is added.
LEMMA AddedReceived ==
  ASSUME NEW keeps, NEW gs, NEW r, RowsFit(rows, keeps), ListFits(gs, keeps), r.op = "add",
         RequestFits(r, rows, keeps, delGid), Granted(r, rows, gs, keeps), AddedRow(r.gid)
  PROVE  RowsFit(rows', keeps) /\ Shows(rows', gs, keeps)
<1>1. PICK g : g = r.gid
  OBVIOUS
<1>2. g \in 2 .. MaxGid /\ ~HasRow(rows, g) /\ (keeps => g = Len(rows))
  BY <1>1 DEF RequestFits
<1>3. AddGranted(g, rows, gs, keeps)
  BY <1>1 DEF Granted
<1>4. PICK s : s = rows'
  OBVIOUS
<1>5. s \in Sorted(RowSet \union {[gid |-> g, pri |-> -g]})
  BY <1>1, <1>4 DEF AddedRow
<1>6. /\ RowsFit(s, keeps)
      /\ \A h \in Gids : HasRow(s, h) <=> (HasRow(rows, h) \/ h = g)
      /\ keeps => /\ Len(s) = Len(rows) + 1 /\ s[Len(rows) + 1].gid = g
                  /\ \A i \in 1 .. Len(rows) : s[i].gid = rows[i].gid
  BY <1>2, <1>5, RowAdded
<1>7. \A h \in Gids : HasRow(s, h) <=> Has(gs, h)
  BY <1>3, <1>6 DEF AddGranted
<1>8. ASSUME keeps PROVE SameOrder(s, gs)
  <2>1. /\ Len(gs) = Len(rows) + 2 /\ gs[Len(rows) + 1] = g
        /\ \A i \in 1 .. Len(rows) : gs[i] = rows[i].gid
    BY <1>3, <1>8 DEF AddGranted
  <2>2. /\ Len(s) = Len(rows) + 1 /\ s[Len(rows) + 1].gid = g
        /\ \A i \in 1 .. Len(rows) : s[i].gid = rows[i].gid
    BY <1>6, <1>8
  <2>3. Len(rows) \in Nat
    BY DEF RowsFit
  <2>4. Len(gs) = Len(s) + 1 /\ \A i \in 1 .. Len(s) : i \in 1 .. Len(rows) \/ i = Len(rows) + 1
    BY <2>1, <2>2, <2>3
  <2> QED BY <2>1, <2>2, <2>4 DEF SameOrder
<1> QED BY <1>4, <1>6, <1>7, <1>8 DEF Shows

\* The client takes the answer that the group is deleted.
LEMMA DeletedReceived ==
  ASSUME NEW gs, NEW r, RowsFit(rows, FALSE), r.op = "delete",
         RequestFits(r, rows, FALSE, delGid), Granted(r, rows, gs, FALSE), DeletedRow
  PROVE  RowsFit(rows', FALSE) /\ Shows(rows', gs, FALSE)
<1>1. r.gid = delGid /\ HasRow(rows, delGid) /\ DeleteGranted(delGid, rows, gs)
  BY DEF RequestFits, Granted
<1>2. PICK k : k = RowOf(delGid)
  OBVIOUS
<1>3. k \in 1 .. Len(rows) /\ rows[k].gid = delGid /\ delGid \in Shown
  BY <1>1, <1>2, ShownIs
<1>4. PICK s : s = rows'
  OBVIOUS
<1>5. s = RemoveAt(rows, k)
  BY <1>2, <1>3, <1>4 DEF DeletedRow
<1>6. PICK n : n = Len(rows)
  OBVIOUS
<1>7. /\ rows \in Seq(Row) /\ n \in Nat /\ k \in 1 .. n
      /\ \A i, j \in 1 .. n : rows[i].gid = rows[j].gid => i = j
  BY <1>3, <1>6 DEF RowsFit
<1>8. /\ s \in Seq(Row) /\ Len(s) = n - 1
      /\ \A j \in 1 .. n - 1 : s[j] = IF j < k THEN rows[j] ELSE rows[j + 1]
  <2>1. rows \in Seq(Row) /\ k \in 1 .. Len(rows)
    BY <1>3, <1>7
  <2>2. /\ RemoveAt(rows, k) \in Seq(Row) /\ Len(RemoveAt(rows, k)) = Len(rows) - 1
        /\ \A j \in 1 .. Len(rows) - 1 : RemoveAt(rows, k)[j] = IF j < k THEN rows[j] ELSE rows[j + 1]
    BY ONLY <2>1, CutOut DEF RemoveAt
  <2> QED BY <1>5, <1>6, <2>2
<1> DEFINE f(j) == IF j < k THEN j ELSE j + 1
<1>9. \A j \in 1 .. n - 1 : f(j) \in 1 .. n /\ f(j) # k /\ s[j] = rows[f(j)]
  BY <1>7, <1>8
<1>10. \A i, j \in 1 .. n - 1 : f(i) = f(j) => i = j
  BY <1>7
<1>11. \A i \in 1 .. n : i # k => \E j \in 1 .. n - 1 : f(j) = i
  <2>1. ASSUME NEW i \in 1 .. n, i # k PROVE \E j \in 1 .. n - 1 : f(j) = i
    <3>1. CASE i < k
      BY <1>7, <3>1
    <3>2. CASE ~(i < k)
      <4>1. i - 1 \in 1 .. n - 1 /\ f(i - 1) = i
        BY <1>7, <2>1, <3>2
      <4> QED BY <4>1
    <3> QED BY <3>1, <3>2
  <2> QED BY <2>1
<1> HIDE DEF f
<1>12. ASSUME NEW i \in 1 .. n - 1, NEW j \in 1 .. n - 1, s[i].gid = s[j].gid PROVE i = j
  <2>1. f(i) = f(j)
    BY <1>7, <1>9, <1>12
  <2> QED BY <1>10, <2>1
<1>13. ASSUME NEW h \in Gids PROVE HasRow(s, h) <=> (HasRow(rows, h) /\ h # delGid)
  <2>1. ASSUME NEW j \in 1 .. n - 1, s[j].gid = h PROVE HasRow(rows, h) /\ h # delGid
    <3>1. f(j) \in 1 .. n /\ f(j) # k /\ rows[f(j)].gid = h
      BY <1>9, <2>1
    <3>2. h # delGid
      BY <1>3, <1>7, <3>1
    <3> QED BY <1>6, <3>1, <3>2 DEF HasRow
  <2>2. ASSUME NEW i \in 1 .. n, rows[i].gid = h, h # delGid PROVE \E j \in 1 .. n - 1 : s[j].gid = h
    <3>1. PICK j \in 1 .. n - 1 : f(j) = i
      BY <1>3, <1>11, <2>2
    <3> QED BY <1>9, <2>2, <3>1
  <2> QED BY <1>6, <1>8, <2>1, <2>2 DEF HasRow
<1>14. RowsFit(s, FALSE)
  BY <1>8, <1>12 DEF RowsFit
<1>15. Shows(s, gs, FALSE)
  BY <1>1, <1>13 DEF Shows, DeleteGranted
<1> QED BY <1>4, <1>14, <1>15

\* The client takes the answer that the group is moved.
LEMMA MovedReceived ==
  ASSUME NEW gs, NEW r, RowsFit(rows, TRUE), ListFits(gs, TRUE), r.op \in {"up", "down"},
         RequestFits(r, rows, TRUE, delGid), Granted(r, rows, gs, TRUE), SwappedRow(r.next)
  PROVE  RowsFit(rows', TRUE) /\ Shows(rows', gs, TRUE)
<1>1. PICK h : h = r.next
  OBVIOUS
<1>2. PICK i \in 1 .. Len(rows) - 1 : h = rows[i].gid
  BY <1>1 DEF RequestFits
<1>3. MoveGranted(h, rows, gs) /\ SwappedRow(h)
  BY <1>1 DEF Granted
<1>4. PICK n : n = Len(rows)
  OBVIOUS
<1>5. rows \in Seq(Row) /\ n \in Nat /\ i \in 1 .. n /\ i + 1 \in 1 .. n /\ i < n /\ i \in 1 .. n - 1
  BY <1>2, <1>4 DEF RowsFit
<1>6. h \in Shown /\ RowOf(h) = i
  <2>1. RowOf(rows[i].gid) = i
    BY <1>4, <1>5, RowOfIs
  <2>2. HasRow(rows, h)
    BY <1>2, <1>4, <1>5 DEF HasRow
  <2> QED BY <1>2, <2>1, <2>2, ShownIs
<1>7. PICK s : s = rows'
  OBVIOUS
<1>8. s \in Sorted((RowSet \ {rows[i], rows[i + 1]})
                   \union {[rows[i] EXCEPT !.pri = rows[i + 1].pri],
                           [rows[i + 1] EXCEPT !.pri = rows[i].pri]})
  BY <1>3, <1>4, <1>5, <1>6, <1>7 DEF SwappedRow
<1>9. /\ RowsFit(s, TRUE) /\ Len(s) = n
      /\ s[i].gid = rows[i + 1].gid /\ s[i + 1].gid = rows[i].gid
      /\ \A j \in 1 .. n : j # i /\ j # i + 1 => s[j].gid = rows[j].gid
  <2>1. i \in 1 .. Len(rows) - 1
    BY <1>2
  <2> QED BY <1>4, <1>8, <2>1, RowsSwapped
<1>10. /\ Len(gs) = n + 1 /\ gs[i] = rows[i + 1].gid /\ gs[i + 1] = rows[i].gid
       /\ \A j \in 1 .. n : j # i /\ j # i + 1 => gs[j] = rows[j].gid
  BY <1>2, <1>3, <1>4 DEF MoveGranted
<1>11. \A j \in 1 .. n : gs[j] = s[j].gid
  BY <1>9, <1>10
<1>12. SameOrder(s, gs)
  BY <1>9, <1>10, <1>11 DEF SameOrder
<1>13. \A x \in Gids : HasRow(s, x) <=> Has(gs, x)
  <2>1. /\ gs \in Seq(Gids \union {UGI_PENDING}) /\ gs[n + 1] = UGI_PENDING
        /\ \A j : j \in 1 .. Len(gs) <=> j \in 1 .. n \/ j = n + 1
    <3>1. gs \in Seq(Gids \union {UGI_PENDING}) /\ gs[Len(gs)] = UGI_PENDING
      BY DEF ListFits
    <3>2. Len(gs) = n + 1 /\ n \in Nat
      BY <1>5, <1>10
    <3> QED BY <3>1, <3>2
  <2>2. UGI_PENDING \notin Gids
    BY GidRange
  <2>3. \A x : HasRow(s, x) <=> \E j \in 1 .. n : s[j].gid = x
    BY <1>9 DEF HasRow
  <2>4. \A x : Has(gs, x) <=> \E j \in 1 .. Len(gs) : gs[j] = x
    BY <2>1, HasIs
  <2> QED BY <1>11, <2>1, <2>2, <2>3, <2>4
<1> QED BY <1>7, <1>9, <1>12, <1>13 DEF Shows

\* The client takes an answer, and the screen shows the list again.
LEMMA ReceiveStep ==
  ASSUME GroupInv, Receive
  PROVE  GroupInv' /\ groups' = groups
<1>1. /\ Tail(answers) = <<>> /\ sent = <<>> /\ Head(answers).ok
      /\ RequestFits(Head(answers).request, rows, Keeps, delGid)
      /\ Granted(Head(answers).request, rows, groups, Keeps)
  BY AnswerTaken DEF Receive
<1>2. PICK r : r = Head(answers).request
  OBVIOUS
<1>3. /\ habit' = habit /\ groups' = groups /\ delGid' = delGid /\ Keeps' = Keeps
      /\ sent' = <<>> /\ answers' = <<>>
  BY <1>1 DEF Receive, Keeps
<1>4. ListFits(groups, Keeps) /\ RowsFit(rows, Keeps)
  BY DEF GroupInv
<1>5. RowsFit(rows', Keeps) /\ Shows(rows', groups, Keeps)
  <2>1. \/ r.op = "add" /\ AddedRow(r.gid)
        \/ r.op = "delete" /\ DeletedRow
        \/ r.op \in {"up", "down"} /\ SwappedRow(r.next)
    BY <1>1, <1>2 DEF Receive
  <2>2. RequestFits(r, rows, Keeps, delGid) /\ Granted(r, rows, groups, Keeps)
    BY <1>1, <1>2
  <2>3. CASE r.op = "add" /\ AddedRow(r.gid)
    BY <1>4, <2>2, <2>3, AddedReceived
  <2>4. CASE r.op = "delete" /\ DeletedRow
    <3>1. Keeps = FALSE
      BY <2>2, <2>4 DEF RequestFits, Keeps
    <3> QED BY <1>4, <2>2, <2>4, <3>1, DeletedReceived
  <2>5. CASE r.op \in {"up", "down"} /\ SwappedRow(r.next)
    <3>1. Keeps = TRUE
      BY <2>2, <2>5 DEF RequestFits, Keeps
    <3> QED BY <1>4, <2>2, <2>5, <3>1, MovedReceived
  <2> QED BY <2>1, <2>3, <2>4, <2>5
<1>6. OneInFlight(rows', groups', Keeps', delGid', sent', answers')
  BY <1>3, <1>5 DEF OneInFlight
<1>7. /\ habit' \in Habits /\ ~({"move", "delete"} \subseteq habit') /\ delGid' \in Gids
      /\ sent' \in Seq(Request) /\ answers' \in Seq([ok : BOOLEAN, request : Request])
  BY <1>3 DEF GroupInv
<1> QED BY <1>3, <1>4, <1>5, <1>6, <1>7 DEF GroupInv

\* After a login the screen shows the list.
LEMMA GroupLoginStep ==
  ASSUME GroupInv, GroupLogin
  PROVE  GroupInv' /\ groups' = groups
<1>1. /\ habit' = habit /\ groups' = groups /\ delGid' = 0 /\ Keeps' = Keeps
      /\ sent' = <<>> /\ answers' = <<>> /\ rows' = CreateModel(groups)
  BY DEF GroupLogin, Keeps
<1>2. ListFits(groups, Keeps)
  BY DEF GroupInv
<1>3. RowsFit(rows', Keeps) /\ Shows(rows', groups, Keeps)
  BY <1>1, <1>2, CreateModelShows
<1>4. OneInFlight(rows', groups', Keeps', delGid', sent', answers')
  BY <1>1, <1>3 DEF OneInFlight
<1>5. /\ habit' \in Habits /\ ~({"move", "delete"} \subseteq habit') /\ delGid' \in Gids
      /\ sent' \in Seq(Request) /\ answers' \in Seq([ok : BOOLEAN, request : Request])
  BY <1>1, GidRange DEF GroupInv
<1> QED BY <1>1, <1>2, <1>3, <1>4, <1>5 DEF GroupInv

\* So it does at the beginning.
LEMMA GroupInvAtFirst ==
  ASSUME OneAtATime, GroupInit
  PROVE  GroupInv
<1>1. /\ habit \in Habits /\ rows = CreateModel(groups) /\ delGid = 0
      /\ sent = <<>> /\ answers = <<>> /\ groups = <<1, 0, 255>>
  BY DEF GroupInit, UGI_DEFAULT, UGI_BLACKLIST, UGI_PENDING
<1>2. ListFits(groups, Keeps)
  <2>1. groups \in Seq(Gids \union {UGI_PENDING})
    BY <1>1, GidRange DEF UGI_PENDING
  <2>2. Len(groups) = 3 /\ groups[1] = 1 /\ groups[2] = 0 /\ groups[3] = 255
    BY <1>1
  <2>3. \A i : i \in 1 .. 3 <=> i = 1 \/ i = 2 \/ i = 3
    OBVIOUS
  <2>4. ListCounted(groups)
    BY <2>2 DEF ListCounted
  <2> QED BY <2>1, <2>2, <2>3, <2>4 DEF ListFits, UGI_PENDING
<1>3. RowsFit(rows, Keeps) /\ Shows(rows, groups, Keeps)
  BY <1>1, <1>2, CreateModelShows
<1>4. OneInFlight(rows, groups, Keeps, delGid, sent, answers)
  BY <1>1, <1>3 DEF OneInFlight
<1>5. sent \in Seq(Request) /\ answers \in Seq([ok : BOOLEAN, request : Request])
      /\ delGid \in Gids /\ ~({"move", "delete"} \subseteq habit)
  BY <1>1, GidRange DEF OneAtATime
<1> QED BY <1>1, <1>2, <1>3, <1>4, <1>5 DEF GroupInv

\* A group only leaves the list by a step that takes a request to delete it.
LEMMA GroupInvKept ==
  ASSUME OneAtATime, GroupInv, [GroupNext]_groupVars
  PROVE  /\ GroupInv'
         /\ \A h : Has(groups, h) /\ ~Has(groups', h) =>
              sent # <<>> /\ Head(sent).op = "delete" /\ Head(sent).gid = h
<1>1. CASE AddGroup
  BY <1>1, AddGroupStep
<1>2. CASE \E g \in Gids : DeleteGroup(g) \/ UpGroup(g) \/ DownGroup(g)
  BY <1>2, DeleteGroupStep, UpGroupStep, DownGroupStep
<1>3. CASE ProcessPacketFriendGroupAdd
  BY <1>3, ProcessAddStep
<1>4. CASE ProcessPacketFriendGroupDelete
  BY <1>4, ProcessDeleteStep
<1>5. CASE ProcessPacketFriendGroupMove
  BY <1>5, ProcessMoveStep
<1>6. CASE Receive
  BY <1>6, ReceiveStep
<1>7. CASE GroupLogin
  BY <1>7, GroupLoginStep
<1>8. CASE UNCHANGED groupVars
  <2>1. /\ habit' = habit /\ groups' = groups /\ rows' = rows /\ delGid' = delGid
        /\ sent' = sent /\ answers' = answers /\ Keeps' = Keeps
    BY <1>8 DEF groupVars, Keeps
  <2> QED BY <2>1 DEF GroupInv
<1> QED BY <1>1, <1>2, <1>3, <1>4, <1>5, <1>6, <1>7, <1>8 DEF GroupNext

\* The invariant holds for a user who waits.
LEMMA GroupInvHolds ==
  ASSUME OneAtATime
  PROVE  GroupSpec => []GroupInv
<1>1. GroupInit => GroupInv
  BY GroupInvAtFirst
<1>2. GroupInv /\ [GroupNext]_groupVars => GroupInv'
  BY GroupInvKept
<1> QED BY <1>1, <1>2, PTL DEF GroupSpec

\* The list of a user who waits ends in Pending, and what travels has its type.
THEOREM GroupTypeCorrect ==
  ASSUME OneAtATime
  PROVE  GroupSpec => []GroupTypeOK
<1>1. GroupInv => GroupTypeOK
  <2> SUFFICES ASSUME GroupInv PROVE GroupTypeOK
    OBVIOUS
  <2>1. groups \in Seq(Gids \union {UGI_PENDING}) /\ groups # <<>> /\ Last(groups) = UGI_PENDING
    BY DEF GroupInv, ListFits, Last
  <2>2. rows \in Seq([gid : Gids, pri : -MaxGid .. 0])
    BY DEF GroupInv, RowsFit, Row
  <2> QED BY <2>1, <2>2 DEF GroupInv, GroupTypeOK
<1> QED BY <1>1, GroupInvHolds, PTL

\* Whenever such a user has all the answers, the screen shows the server's list, and in
\* its order if the user never deletes a group.
THEOREM ScreenAgreesAlways ==
  ASSUME OneAtATime
  PROVE  GroupSpec => []ScreenAgrees
<1>1. GroupInv => ScreenAgrees
  <2> SUFFICES ASSUME GroupInv, Quiet PROVE /\ Shown = ToSet(groups) \ {UGI_PENDING}
                                            /\ Keeps => [i \in DOMAIN rows |-> rows[i].gid] = Front(groups)
    BY DEF ScreenAgrees, Keeps
  <2>1. Shows(rows, groups, Keeps) /\ RowsFit(rows, Keeps) /\ ListFits(groups, Keeps)
    BY DEF GroupInv, OneInFlight, Quiet
  <2>2. groups \in Seq(Gids \union {UGI_PENDING}) /\ rows \in Seq(Row)
    BY <2>1 DEF ListFits, RowsFit
  <2>3. Shown = ToSet(groups) \ {UGI_PENDING}
    <3>1. \A g : g \in ToSet(groups) <=> Has(groups, g)
      BY <2>2 DEF ToSet, Has
    <3>2. \A g : Has(groups, g) => g \in Gids \/ g = UGI_PENDING
      BY <2>2, HasIs
    <3>3. \A g : g \in Shown <=> g \in Gids /\ HasRow(rows, g)
      BY <2>1, ShownIs
    <3>4. UGI_PENDING \notin Gids
      BY GidRange
    <3>5. \A g \in Gids : HasRow(rows, g) <=> Has(groups, g)
      BY <2>1 DEF Shows
    <3> QED BY <3>1, <3>2, <3>3, <3>4, <3>5
  <2>4. ASSUME Keeps PROVE [i \in DOMAIN rows |-> rows[i].gid] = Front(groups)
    <3>1. Len(groups) = Len(rows) + 1 /\ \A i \in 1 .. Len(rows) : groups[i] = rows[i].gid
      BY <2>1, <2>4 DEF Shows, SameOrder
    <3>2. PICK n : n = Len(rows)
      OBVIOUS
    <3>3. n \in Nat /\ DOMAIN rows = 1 .. n /\ Len(groups) - 1 = n /\ n <= Len(groups)
      BY <2>2, <3>1, <3>2
    <3>4. Front(groups) = SubSeq(groups, 1, n)
      BY <3>3 DEF Front
    <3>5. SubSeq(groups, 1, n) = [i \in 1 .. n |-> groups[i]]
      BY <2>2, <3>3
    <3> QED BY <3>1, <3>2, <3>3, <3>4, <3>5
  <2> QED BY <2>3, <2>4
<1> QED BY <1>1, GroupInvHolds, PTL

\* A group of such a user leaves the list only because the user deletes it.
THEOREM GroupsLeaveByDeleteAlways ==
  ASSUME OneAtATime
  PROVE  GroupSpec => GroupsLeaveByDelete
<1> DEFINE Leave == \A g \in ToSet(groups) \ ToSet(groups') :
                      sent # <<>> /\ Head(sent).op = "delete" /\ Head(sent).gid = g
<1>1. GroupInv /\ GroupInv' /\ [GroupNext]_groupVars => [Leave]_groupVars
  <2> SUFFICES ASSUME GroupInv, GroupInv', [GroupNext]_groupVars PROVE Leave
    OBVIOUS
  <2>1. \A g : g \in ToSet(groups) <=> Has(groups, g)
    BY DEF ToSet, Has
  <2>2. \A g : g \in ToSet(groups') <=> Has(groups', g)
    BY DEF ToSet, Has
  <2> QED BY <2>1, <2>2, GroupInvKept
<1>2. GroupSpec => [][Leave]_groupVars
  <2> HIDE DEF Leave
  <2> QED BY <1>1, GroupInvHolds, PTL DEF GroupSpec
<1> QED BY <1>2 DEF GroupsLeaveByDelete

-----------------------------------------------------------------------------
(* The list of one account: its references and its copies.                  *)

\* While nothing has gone wrong what was saved is in the lists too, one thread saves
\* at a time, and only a thread that writes the file leaves it empty.
SavedIsKept ==
  mishaps = {} => /\ entry # None => safe \subseteq content[entry]
                  /\ \A t \in Threads : pc[t] \in Saving => safe \subseteq content[hand[t]]
                  /\ \A s, t \in Threads : pc[s] \in Saving /\ pc[t] \in Saving => s = t
                  /\ ~whole => \E t \in Threads : pc[t] = "write"

TableInv == TableTypeOK /\ SharedCopy /\ NothingLost /\ SavedIsKept

LEMMA TableInvAtFirst == TableInit => TableInv
BY FriendsTableAssumption
   DEF TableInit, TableInv, TableTypeOK, SharedCopy, NothingLost, SavedIsKept, Users, Holding, Saving, Threads

\* A new reference is to the list of the table, which is the one it was before or,
\* if there was none and nobody was saving one, the file's.
LEMMA Got ==
  ASSUME TableInv, UserFriendsGet
  PROVE  /\ entry' \in Copies /\ entry' \in heap' /\ heap' \subseteq Copies /\ heap \subseteq heap'
         /\ content' \in [Copies -> SUBSET Changes] /\ refs' = refs + 1
         /\ entry # None => entry' = entry /\ heap' = heap /\ content' = content /\ mishaps' = mishaps
         /\ entry = None => /\ refs = 0 /\ entry' \notin heap
                            /\ \A c \in Copies : c # entry' => content'[c] = content[c]
         /\ mishaps' = {} => /\ mishaps = {} /\ due \subseteq content'[entry'] /\ safe \subseteq content'[entry']
                             /\ \A t \in Threads : pc[t] \notin Saving
         /\ mishaps' \subseteq {"overlap", "unsaved", "cut"}
<1>0. /\ entry \in Copies \union {None} /\ None \notin Copies /\ refs \in Nat
      /\ heap \subseteq Copies /\ content \in [Copies -> SUBSET Changes] /\ stored \subseteq Changes
      /\ mishaps \subseteq {"overlap", "unsaved", "cut"}
      /\ \A t \in Threads : pc[t] = "write" => hand[t] \in Copies
  BY FriendsTableAssumption DEF TableInv, TableTypeOK, SharedCopy, Saving
<1>1. CASE entry # None
  <2>1. refs' = refs + 1 /\ UNCHANGED <<entry, heap, content, mishaps>>
    BY <1>1 DEF UserFriendsGet
  <2>2. entry \in heap /\ entry \in Copies
    BY <1>0, <1>1 DEF TableInv, SharedCopy
  <2>3. mishaps = {} => /\ due \subseteq content[entry] /\ safe \subseteq content[entry]
                        /\ \A t \in Threads : pc[t] \notin Saving
    BY <1>1 DEF TableInv, NothingLost, SavedIsKept
  <2> QED BY <1>0, <1>1, <2>1, <2>2, <2>3
<1>2. CASE entry = None
  <2>1. PICK c \in Copies \ heap, list \in Readable :
          /\ entry' = c /\ heap' = heap \union {c} /\ content' = [content EXCEPT ![c] = list]
          /\ refs' = 1
          /\ mishaps' = IF \E t \in Threads : pc[t] \in Saving THEN mishaps \union {"overlap"} ELSE mishaps
    BY <1>2 DEF UserFriendsGet
  <2>2. list \subseteq Changes
    <3>1. \A t \in Threads : pc[t] = "write" => content[hand[t]] \subseteq Changes
      BY <1>0
    <3>2. CASE whole
      BY <1>0, <2>1, <3>2 DEF Readable
    <3>3. CASE ~whole
      BY <2>1, <3>1, <3>3 DEF Readable
    <3> QED BY <3>2, <3>3
  <2>3. refs = 0
    BY <1>2 DEF TableInv, SharedCopy
  <2>4. ASSUME mishaps' = {} PROVE /\ mishaps = {} /\ due \subseteq list /\ safe \subseteq list
                                            /\ \A t \in Threads : pc[t] \notin Saving
    <3>1. mishaps = {} /\ \A t \in Threads : pc[t] \notin Saving
      BY <2>1, <2>4
    <3>2. whole /\ due \subseteq stored /\ safe \subseteq stored
      BY <1>2, <3>1 DEF TableInv, NothingLost
    <3> QED BY <2>1, <3>1, <3>2 DEF Readable
  <2>5. content' \in [Copies -> SUBSET Changes] /\ content'[c] = list
        /\ \A d \in Copies : d # c => content'[d] = content[d]
    BY <1>0, <2>1, <2>2
  <2>6. mishaps' \subseteq {"overlap", "unsaved", "cut"}
    BY <1>0, <2>1
  <2> QED BY <1>0, <1>2, <2>1, <2>3, <2>4, <2>5, <2>6
<1> QED BY <1>1, <1>2

\* A new reference that the session or the worker has, which had none.
LEMMA GotKept ==
  ASSUME TableInv, UserFriendsGet, UNCHANGED <<disk, due, safe>>,
         lock' \in {"free", "worker", "left", "broken"},
         \/ session = None /\ session' = entry' /\ UNCHANGED <<pc, hand>>
         \/ /\ pc[Worker] = "idle" /\ session' = session
            /\ \E p \in {"handling", "stuckInGet"} : Goes(Worker, p, entry')
  PROVE  TableInv'
<1>0. Worker \in Threads /\ Console \in Threads /\ Worker # Console /\ None \notin Copies
      /\ \A t : t \in Threads <=> t = Worker \/ t = Console
  BY FriendsTableAssumption DEF Threads
<1>t. TableTypeOK /\ SharedCopy /\ NothingLost
  BY DEF TableInv
<1>1. /\ entry' \in Copies /\ entry' \in heap' /\ heap' \subseteq Copies /\ heap \subseteq heap'
      /\ content' \in [Copies -> SUBSET Changes] /\ refs' = refs + 1 /\ refs \in Nat
      /\ (entry # None => entry' = entry)
      /\ (entry = None => /\ refs = 0 /\ entry' \notin heap
                          /\ \A c \in Copies : c # entry' => content'[c] = content[c])
      /\ mishaps' \subseteq {"overlap", "unsaved", "cut"}
  BY <1>t, Got DEF TableTypeOK
<1>2. mishaps' = {} => /\ mishaps = {} /\ due \subseteq content'[entry'] /\ safe \subseteq content'[entry']
                       /\ \A t \in Threads : pc[t] \notin Saving
  BY Got
<1>3. /\ pc' \in [Threads -> {"idle", "stuck"} \union Holding \union Saving]
      /\ hand' \in [Threads -> Copies \union {None}]
      /\ \A t \in Threads : pc'[t] \in Saving => pc[t] = pc'[t] /\ hand'[t] = hand[t]
      /\ \A t \in Threads : pc'[t] \in Holding => hand'[t] = entry' \/ (pc[t] = pc'[t] /\ hand'[t] = hand[t])
      /\ \A t \in Threads : pc[t] = "write" => pc'[t] = "write"
  BY <1>t, <1>0, <1>1 DEF TableTypeOK, Goes, Holding, Saving
<1>4. TableTypeOK'
  BY <1>t, <1>1, <1>3 DEF TableTypeOK, disk
<1>5. Users' = Users + 1
  <2>1. CASE session = None /\ session' = entry' /\ UNCHANGED <<pc, hand>>
    BY <2>1, <1>0, <1>1 DEF Users
  <2>2. CASE /\ pc[Worker] = "idle" /\ session' = session
             /\ \E p \in {"handling", "stuckInGet"} : Goes(Worker, p, entry')
    <3>1. pc'[Worker] \in Holding /\ pc'[Console] = pc[Console] /\ pc[Worker] \notin Holding
      BY <1>t, <1>0, <2>2 DEF Goes, Holding, TableTypeOK
    <3> QED BY <2>2, <3>1 DEF Users
  <2> QED BY <2>1, <2>2
<1>6. SharedCopy'
  <2>1. refs' = Users' /\ ((entry' = None) <=> (refs' = 0)) /\ (entry' # None => entry' \in heap')
    BY <1>t, <1>0, <1>1, <1>5 DEF SharedCopy
  <2>2. entry = None => session = None /\ \A t \in Threads : pc[t] \notin Holding
    <3>1. entry = None => Users = 0
      BY <1>t DEF SharedCopy
    <3> QED BY <3>1, <1>0 DEF Users
  <2>3. session' # None => session' = entry'
    BY <1>t, <1>1, <2>2 DEF SharedCopy
  <2>4. \A t \in Threads : pc'[t] \in Holding => hand'[t] = entry'
    BY <1>t, <1>1, <1>3, <2>2 DEF SharedCopy
  <2>5. \A t \in Threads : pc'[t] \in Saving => hand'[t] \in heap' \ {entry'}
    BY <1>t, <1>1, <1>3 DEF SharedCopy
  <2>6. \A s, t \in Threads : pc'[s] \in Saving /\ pc'[t] \in Saving /\ s # t => hand'[s] # hand'[t]
    BY <1>t, <1>3 DEF SharedCopy
  <2> QED BY <2>1, <2>3, <2>4, <2>5, <2>6 DEF SharedCopy
<1>7. NothingLost' /\ SavedIsKept'
  <2> SUFFICES ASSUME mishaps' = {}
               PROVE  NothingLost' /\ SavedIsKept'
    BY DEF NothingLost, SavedIsKept
  <2>1. mishaps = {} /\ due \subseteq content'[entry'] /\ safe \subseteq content'[entry'] /\ \A t \in Threads : pc[t] \notin Saving
    BY <1>2
  <2>2. \A t \in Threads : pc'[t] \notin Saving
    BY <1>3, <2>1
  <2>3. whole /\ safe \subseteq stored
    BY <2>1 DEF TableInv, NothingLost, SavedIsKept, Saving
  <2> QED BY <1>0, <1>1, <2>1, <2>2, <2>3 DEF NothingLost, SavedIsKept, disk
<1> QED BY <1>4, <1>6, <1>7 DEF TableInv

\* A reference is given back, and with the last one the thread that had it has a list to save.
LEMMA DropKept ==
  ASSUME TableInv, NEW t \in Threads, NEW l \in {"free", "worker", "left", "broken"},
         pc[t] \in Holding, UserFriendsDrop(t, l)
  PROVE  TableInv'
<1>0. Worker \in Threads /\ Console \in Threads /\ Worker # Console /\ None \notin Copies
      /\ \A s : s \in Threads <=> s = Worker \/ s = Console
  BY FriendsTableAssumption DEF Threads
<1>t. TableTypeOK /\ SharedCopy /\ NothingLost /\ hand[t] = entry /\ refs = Users /\ Users \in Nat
  BY DEF TableInv, TableTypeOK, SharedCopy
<1>1. Users >= 1 /\ (Users = 1 => session = None /\ \A s \in Threads : s # t => pc[s] \notin Holding)
  BY <1>0 DEF Users
<1>2. entry # None /\ entry \in heap /\ entry \in Copies
  BY <1>0, <1>t, <1>1 DEF SharedCopy, TableTypeOK
<1>3. refs' = refs - 1 /\ UNCHANGED <<heap, content, stored, whole, session, due, safe, mishaps>>
  BY DEF UserFriendsDrop, disk, history
<1>4. CASE refs = 1
  <2>1. entry' = None /\ lock' = "free" /\ pc' = [pc EXCEPT ![t] = "save"] /\ hand' = hand
    BY <1>4 DEF UserFriendsDrop
  <2>2. /\ pc' \in [Threads -> {"idle", "stuck"} \union Holding \union Saving] /\ pc'[t] = "save"
        /\ \A s \in Threads : s # t => pc'[s] = pc[s]
    BY <1>t, <2>1 DEF TableTypeOK, Saving
  <2>3. \A s \in Threads : pc'[s] \notin Holding
    BY <1>t, <1>1, <1>4, <2>2 DEF Holding
  <2>4. TableTypeOK'
    BY <1>t, <1>3, <1>4, <2>1, <2>2 DEF TableTypeOK
  <2>5. Users' = 0
    BY <1>0, <1>t, <1>1, <1>3, <1>4, <2>3 DEF Users
  <2>6. SharedCopy'
    <3>1. \A s \in Threads : pc'[s] \in Saving => hand'[s] \in heap' \ {entry'}
      BY <1>0, <1>t, <1>2, <1>3, <2>1, <2>2 DEF SharedCopy, TableTypeOK
    <3>2. \A s \in Threads : s # t /\ pc'[s] \in Saving => hand'[s] # hand'[t]
      BY <1>t, <2>1, <2>2 DEF SharedCopy
    <3>3. \A s \in Threads : s = Worker \/ s = Console
      BY <1>0
    <3>4. \A r, s \in Threads : pc'[r] \in Saving /\ pc'[s] \in Saving /\ r # s => hand'[r] # hand'[s]
      BY <1>t, <2>1, <2>2, <3>2 DEF SharedCopy
    <3> QED BY <1>t, <1>1, <1>3, <1>4, <2>1, <2>3, <2>5, <3>1, <3>4 DEF SharedCopy
  <2>7. NothingLost' /\ SavedIsKept'
    <3> SUFFICES ASSUME mishaps = {}
                 PROVE  NothingLost' /\ SavedIsKept'
      BY <1>3 DEF NothingLost, SavedIsKept
    <3>1. due \subseteq content[entry] /\ safe \subseteq content[entry] /\ whole /\ safe \subseteq stored
          /\ \A s \in Threads : pc[s] \notin Saving
      BY <1>2 DEF TableInv, NothingLost, SavedIsKept, Saving
    <3>2. \A s \in Threads : pc'[s] \in Saving => s = t
      BY <2>2, <3>1
    <3> QED BY <1>t, <1>3, <2>1, <2>2, <3>1, <3>2 DEF NothingLost, SavedIsKept, Saving
  <2> QED BY <2>4, <2>6, <2>7 DEF TableInv
<1>5. CASE refs # 1
  <2>1. pc' = [pc EXCEPT ![t] = "idle"] /\ hand' = [hand EXCEPT ![t] = None] /\ lock' = l /\ entry' = entry
    BY <1>5 DEF UserFriendsDrop, Goes
  <2>2. /\ pc' \in [Threads -> {"idle", "stuck"} \union Holding \union Saving] /\ pc'[t] = "idle"
        /\ hand' \in [Threads -> Copies \union {None}]
        /\ \A s \in Threads : s # t => pc'[s] = pc[s] /\ hand'[s] = hand[s]
    BY <1>t, <2>1 DEF TableTypeOK
  <2>3. refs' \in Nat /\ refs' # 0
    BY <1>t, <1>1, <1>3, <1>5
  <2>4. TableTypeOK'
    BY <1>t, <1>3, <2>1, <2>2, <2>3 DEF TableTypeOK
  <2>5. Users' = Users - 1
    <3>1. pc'[t] \notin Holding
      BY <2>2 DEF Holding
    <3> QED BY <1>0, <1>3, <2>2, <3>1 DEF Users
  <2>6. SharedCopy'
    BY <1>t, <1>2, <1>3, <2>1, <2>2, <2>3, <2>5 DEF SharedCopy, Holding, Saving
  <2>7. NothingLost' /\ SavedIsKept'
    <3>1. \A s \in Threads : (pc'[s] \in Saving => pc[s] \in Saving /\ hand'[s] = hand[s])
                             /\ (pc[s] = "write" => pc'[s] = "write")
      BY <2>2 DEF Saving, Holding
    <3> QED BY <1>2, <1>3, <2>1, <3>1 DEF TableInv, NothingLost, SavedIsKept
  <2> QED BY <2>4, <2>6, <2>7 DEF TableInv
<1> QED BY <1>4, <1>5

\* A thread that saves goes on, or gives up.
LEMMA SaveKept ==
  ASSUME TableInv, NEW t \in Threads, SaveOpen(t) \/ SaveEncode(t) \/ SaveFails(t)
  PROVE  TableInv'
<1>0. Worker \in Threads /\ Console \in Threads /\ Worker # Console /\ None \notin Copies
      /\ \A s : s \in Threads <=> s = Worker \/ s = Console
  BY FriendsTableAssumption DEF Threads
<1>t. TableTypeOK /\ SharedCopy /\ NothingLost
  BY DEF TableInv
<1>1. /\ pc[t] \in Saving /\ hand[t] \in heap \ {entry} /\ hand[t] \in Copies
      /\ content[hand[t]] \subseteq Changes
      /\ \A s \in Threads : s # t /\ pc[s] \in Saving => hand[s] # hand[t]
  BY <1>t DEF SaveOpen, SaveEncode, SaveFails, SharedCopy, TableTypeOK, Saving
<1>2. CASE SaveOpen(t)
  <2>1. /\ pc[t] = "save" /\ pc' = [pc EXCEPT ![t] = "write"] /\ whole' = FALSE
        /\ UNCHANGED <<entry, refs, heap, content, lock, stored, session, hand, due, safe, mishaps>>
    BY <1>2 DEF SaveOpen, table, history
  <2>2. /\ pc' \in [Threads -> {"idle", "stuck"} \union Holding \union Saving] /\ pc'[t] = "write"
        /\ \A s \in Threads : s # t => pc'[s] = pc[s]
        /\ \A s \in Threads : (pc'[s] \in Holding <=> pc[s] \in Holding) /\ (pc'[s] \in Saving <=> pc[s] \in Saving)
    BY <1>t, <2>1 DEF TableTypeOK, Saving, Holding
  <2>3. TableTypeOK'
    BY <1>t, <2>1, <2>2 DEF TableTypeOK
  <2>4. Users' = Users
    BY <1>0, <2>1, <2>2 DEF Users
  <2>5. SharedCopy'
    BY <1>t, <2>1, <2>2, <2>4 DEF SharedCopy
  <2>6. NothingLost' /\ SavedIsKept'
    BY <1>1, <2>1, <2>2 DEF TableInv, NothingLost, SavedIsKept
  <2> QED BY <2>3, <2>5, <2>6 DEF TableInv
<1>3. CASE SaveEncode(t) \/ SaveFails(t)
  <2>1. /\ pc' = [pc EXCEPT ![t] = "idle"] /\ hand' = [hand EXCEPT ![t] = None]
        /\ heap' = heap \ {hand[t]}
        /\ UNCHANGED <<entry, refs, content, lock, session, due>>
    BY <1>3 DEF SaveEncode, SaveFails, Goes
  <2>2. /\ pc' \in [Threads -> {"idle", "stuck"} \union Holding \union Saving] /\ pc'[t] = "idle"
        /\ hand' \in [Threads -> Copies \union {None}]
        /\ \A s \in Threads : s # t => pc'[s] = pc[s] /\ hand'[s] = hand[s]
        /\ pc'[t] \notin Holding /\ pc'[t] \notin Saving /\ pc[t] \notin Holding
    BY <1>t, <1>1, <2>1 DEF TableTypeOK, Saving, Holding
  <2>3. TableTypeOK'
    <3>1. /\ stored' \subseteq Changes /\ whole' \in BOOLEAN /\ safe' \subseteq Changes
          /\ mishaps' \subseteq {"overlap", "unsaved", "cut"}
      BY <1>t, <1>1, <1>3 DEF SaveEncode, SaveFails, TableTypeOK, disk
    <3> QED BY <1>t, <2>1, <2>2, <3>1 DEF TableTypeOK
  <2>4. Users' = Users
    BY <1>0, <2>1, <2>2 DEF Users
  <2>5. SharedCopy'
    BY <1>t, <1>1, <2>1, <2>2, <2>4 DEF SharedCopy
  <2>6. NothingLost' /\ SavedIsKept'
    <3> SUFFICES ASSUME mishaps' = {}
                 PROVE  NothingLost' /\ SavedIsKept'
      BY DEF NothingLost, SavedIsKept
    <3>1. SaveEncode(t) /\ mishaps = {}
      BY <1>3 DEF SaveEncode, SaveFails
    <3>2. /\ stored' = content[hand[t]] /\ whole' = (\A s \in Threads \ {t} : pc[s] # "write")
          /\ safe' = safe \union content[hand[t]]
      BY <3>1 DEF SaveEncode
    <3>3. /\ entry = None /\ due \subseteq stored' /\ safe' \subseteq stored'
          /\ \A s \in Threads : s # t => pc[s] \notin Saving
      BY <1>1, <3>1, <3>2 DEF TableInv, NothingLost, SavedIsKept
    <3>4. \A s \in Threads : pc'[s] \notin Saving
      BY <2>2, <3>3
    <3>5. whole'
      BY <3>2, <3>3 DEF Saving
    <3> QED BY <2>1, <3>1, <3>3, <3>4, <3>5 DEF NothingLost, SavedIsKept, Saving
  <2> QED BY <2>3, <2>5, <2>6 DEF TableInv
<1> QED BY <1>2, <1>3

\* A change gets into the one copy there is.
LEMMA ChangeKept ==
  ASSUME TableInv, NEW x \in Changes, HandlerChanges(x) \/ OwnerChanges(x)
  PROVE  TableInv'
<1>0. Worker \in Threads /\ Console \in Threads /\ None \notin Copies
      /\ TableTypeOK /\ SharedCopy /\ NothingLost /\ SavedIsKept
  BY FriendsTableAssumption DEF Threads, TableInv
<1>1. /\ UNCHANGED <<entry, refs, heap, stored, whole, session, pc, hand, safe, mishaps>>
      /\ due' = due \union {x} /\ lock' \in {"free", "worker", "left", "broken"}
      /\ \E c \in {hand[t] : t \in {s \in Threads : pc[s] \in Holding}} \union ({session} \ {None}) :
           content' = [content EXCEPT ![c] = @ \union {x}]
  <2>1. CASE HandlerChanges(x)
    <3>1. /\ pc[Worker] \in Holding /\ content' = [content EXCEPT ![hand[Worker]] = @ \union {x}]
          /\ UNCHANGED <<entry, refs, heap, stored, whole, session, pc, hand, safe, mishaps, lock>>
          /\ due' = due \union {x}
      BY <2>1 DEF HandlerChanges, Holding, disk
    <3> QED BY <1>0, <3>1 DEF TableTypeOK
  <2>2. CASE OwnerChanges(x)
    <3>1. PICK c \in Owned : content' = [content EXCEPT ![c] = @ \union {x}]
      BY <2>2 DEF OwnerChanges
    <3>2. c \in {hand[t] : t \in {s \in Threads : pc[s] \in Holding}} \union ({session} \ {None})
      BY <1>0, <3>1 DEF Owned, Holding
    <3>3. lock' \in {"free", "worker", "left", "broken"}
      BY <1>0, <2>2 DEF OwnerChanges, Unlocked, TableTypeOK
    <3> QED BY <2>2, <3>1, <3>2, <3>3 DEF OwnerChanges, disk
  <2> QED BY <2>1, <2>2
<1>2. content' = [content EXCEPT ![entry] = @ \union {x}] /\ entry # None /\ entry \in Copies
  <2>1. entry # None
    <3>1. Users # 0
      BY <1>0, <1>1, FriendsTableAssumption DEF Users, Threads
    <3> QED BY <1>0, <3>1 DEF SharedCopy
  <2>2. \A c \in {hand[t] : t \in {s \in Threads : pc[s] \in Holding}} \union ({session} \ {None}) : c = entry
    BY <1>0 DEF SharedCopy
  <2> QED BY <1>0, <1>1, <2>1, <2>2 DEF TableTypeOK
<1>3. /\ content' \in [Copies -> SUBSET Changes] /\ content'[entry] = content[entry] \union {x}
      /\ \A c \in Copies : content[c] \subseteq content'[c]
  BY <1>0, <1>2 DEF TableTypeOK
<1>4. TableTypeOK'
  BY <1>0, <1>1, <1>3 DEF TableTypeOK
<1>5. SharedCopy'
  BY <1>0, <1>1 DEF SharedCopy, Users
<1>6. NothingLost' /\ SavedIsKept'
  <2>1. mishaps = {} => \A t \in Threads : pc[t] \notin Saving
    BY <1>0, <1>2 DEF NothingLost
  <2> QED BY <1>0, <1>1, <1>2, <1>3, <2>1 DEF NothingLost, SavedIsKept, Saving
<1> QED BY <1>4, <1>5, <1>6 DEF TableInv

\* A session that leaves the table gives its reference to the thread that deletes it.
LEMMA LeaveKept ==
  ASSUME TableInv, NEW t \in Threads, LeaveTable(t) \/ Broadcast(t)
  PROVE  TableInv'
<1>0. Worker \in Threads /\ Console \in Threads /\ Worker # Console /\ None \notin Copies
      /\ \A s : s \in Threads <=> s = Worker \/ s = Console
  BY FriendsTableAssumption DEF Threads
<1>t. TableTypeOK /\ SharedCopy /\ NothingLost /\ SavedIsKept
  BY DEF TableInv
<1>1. /\ UNCHANGED <<entry, refs, heap, content, stored, whole, due, safe, mishaps>>
      /\ lock' \in {"free", "worker", "left", "broken"}
  BY <1>t DEF LeaveTable, Broadcast, Unlocked, table, disk, history, TableTypeOK
<1>2. /\ pc' \in [Threads -> {"idle", "stuck"} \union Holding \union Saving]
      /\ hand' \in [Threads -> Copies \union {None}]
      /\ pc'[t] \in Holding /\ pc'[t] \notin Saving /\ pc[t] \notin Saving
      /\ \A s \in Threads : s # t => pc'[s] = pc[s] /\ hand'[s] = hand[s]
      /\ session' \in Copies \union {None}
  BY <1>t, <1>0 DEF LeaveTable, Broadcast, Goes, TableTypeOK, Holding, Saving
<1>3. hand'[t] = entry /\ session' \in {session, None} /\ Users' = Users
  <2>1. CASE LeaveTable(t)
    <3>1. /\ pc[t] \notin Holding /\ session = entry /\ session # None /\ session' = None
          /\ hand'[t] = session
      BY <1>t, <2>1 DEF LeaveTable, Goes, Holding, SharedCopy, TableTypeOK
    <3> QED BY <1>0, <1>2, <3>1 DEF Users
  <2>2. CASE Broadcast(t)
    <3>1. pc[t] \in Holding /\ session' = session /\ hand' = hand
      BY <2>2 DEF Broadcast, Holding
    <3> QED BY <1>0, <1>t, <1>2, <3>1 DEF Users, SharedCopy
  <2> QED BY <2>1, <2>2
<1>4. TableTypeOK'
  BY <1>t, <1>1, <1>2 DEF TableTypeOK
<1>5. SharedCopy'
  BY <1>t, <1>1, <1>2, <1>3 DEF SharedCopy
<1>6. NothingLost' /\ SavedIsKept'
  <2>1. \A s \in Threads : /\ pc'[s] \in Saving <=> pc[s] \in Saving
                           /\ pc[s] \in Saving => hand'[s] = hand[s] /\ pc'[s] = pc[s]
    BY <1>2
  <2>2. \A s \in Threads : pc[s] = "write" => pc'[s] = "write"
    BY <2>1 DEF Saving
  <2> QED BY <1>t, <1>1, <2>1, <2>2 DEF NothingLost, SavedIsKept
<1> QED BY <1>4, <1>5, <1>6 DEF TableInv

LEMMA TableInvKept == TableInv /\ [TableNext]_tableVars => TableInv'
<1> SUFFICES ASSUME TableInv, [TableNext]_tableVars PROVE TableInv'
  OBVIOUS
<1>0. Worker \in Threads /\ Console \in Threads /\ Worker # Console /\ None \notin Copies
      /\ \A s : s \in Threads <=> s = Worker \/ s = Console
  BY FriendsTableAssumption DEF Threads
<1>t. TableTypeOK /\ SharedCopy /\ NothingLost /\ SavedIsKept
  BY DEF TableInv
<1>l. lock \in {"free", "worker", "left", "broken"} /\ Unlocked(lock) \in {"free", "worker", "left", "broken"}
  BY <1>t DEF TableTypeOK, Unlocked
<1>1. CASE GetForHandler
  <2>1. /\ UserFriendsGet /\ UNCHANGED <<disk, due, safe>> /\ session' = session
        /\ lock' \in {"free", "worker", "left", "broken"}
        /\ pc[Worker] = "idle" /\ Goes(Worker, "handling", entry')
    BY <1>1, <1>l DEF GetForHandler
  <2> QED BY <2>1, GotKept
<1>2. CASE LoginGets
  <2>1. /\ UserFriendsGet /\ UNCHANGED <<disk, due, safe>> /\ session = None /\ session' = entry'
        /\ lock' \in {"free", "worker", "left", "broken"} /\ UNCHANGED <<pc, hand>>
    BY <1>2, <1>l DEF LoginGets
  <2> QED BY <2>1, GotKept
<1>3. CASE WaitForBroken
  <2>1. CASE UserFriendsGet /\ Goes(Worker, "stuckInGet", entry')
    <3>1. /\ UNCHANGED <<disk, due, safe>> /\ session' = session /\ pc[Worker] = "idle"
          /\ lock' \in {"free", "worker", "left", "broken"}
      BY <1>3, <1>l DEF WaitForBroken
    <3> QED BY <2>1, <3>1, GotKept
  <2>2. CASE pc' = [pc EXCEPT ![Worker] = "stuck"] /\ UNCHANGED <<table, hand, mishaps>>
    <3>1. UNCHANGED <<entry, refs, heap, content, lock, stored, whole, session, hand, due, safe, mishaps>>
          /\ pc[Worker] = "idle"
      BY <1>3, <2>2 DEF WaitForBroken, table, disk
    <3>2. /\ pc' \in [Threads -> {"idle", "stuck"} \union Holding \union Saving]
          /\ pc'[Console] = pc[Console] /\ pc'[Worker] = "stuck"
      BY <1>0, <1>t, <2>2 DEF TableTypeOK
    <3>3. \A s \in Threads : /\ pc'[s] \in Holding <=> pc[s] \in Holding
                             /\ pc'[s] \in Saving <=> pc[s] \in Saving
                             /\ pc'[s] = "write" <=> pc[s] = "write"
      BY <1>0, <3>1, <3>2 DEF Holding, Saving
    <3>4. Users' = Users
      BY <1>0, <3>1, <3>3 DEF Users
    <3>5. TableTypeOK'
      BY <1>t, <3>1, <3>2 DEF TableTypeOK
    <3>6. SharedCopy'
      BY <1>t, <3>1, <3>3, <3>4 DEF SharedCopy
    <3>7. NothingLost' /\ SavedIsKept'
      BY <1>t, <3>1, <3>3 DEF NothingLost, SavedIsKept
    <3> QED BY <3>5, <3>6, <3>7 DEF TableInv
  <2> QED BY <1>3, <2>1, <2>2 DEF WaitForBroken
<1>4. CASE HandlerDrops
  <2>1. pc[Worker] \in Holding /\ UserFriendsDrop(Worker, Unlocked(lock))
    BY <1>4 DEF HandlerDrops, Holding
  <2> QED BY <1>0, <1>l, <2>1, DropKept
<1>5. CASE DeleteUnknownGroup
  <2>1. /\ UNCHANGED <<entry, refs, heap, content, stored, whole, session, pc, hand, due, safe, mishaps>>
        /\ lock' \in {"free", "worker", "left", "broken"}
    BY <1>5, <1>l DEF DeleteUnknownGroup, table, disk, history
  <2> QED BY <2>1 DEF TableInv, TableTypeOK, SharedCopy, NothingLost, SavedIsKept, Users
<1>6. ASSUME NEW x \in Changes, HandlerChanges(x) \/ OwnerChanges(x) PROVE TableInv'
  BY <1>6, ChangeKept
<1>7. ASSUME NEW t \in Threads, LeaveTable(t) \/ Broadcast(t) PROVE TableInv'
  BY <1>7, LeaveKept
<1>8. ASSUME NEW t \in Threads, SessionDrops(t) PROVE TableInv'
  <2>1. pc[t] \in Holding /\ UserFriendsDrop(t, "broken")
    BY <1>8 DEF SessionDrops, Holding
  <2> QED BY <2>1, DropKept
<1>9. ASSUME NEW t \in Threads, SaveOpen(t) \/ SaveEncode(t) \/ SaveFails(t) PROVE TableInv'
  BY <1>9, SaveKept
<1>10. CASE Die
  <2>1. /\ entry' = None /\ refs' = 0 /\ lock' = "free" /\ heap' = {} /\ session' = None
        /\ pc' = [t \in Threads |-> "idle"] /\ hand' = [t \in Threads |-> None]
        /\ due' = safe /\ UNCHANGED <<content, stored, whole, safe>>
        /\ mishaps' = IF whole THEN mishaps ELSE mishaps \union {"cut"}
    BY <1>10 DEF Die, disk
  <2>2. TableTypeOK'
    BY <1>t, <2>1 DEF TableTypeOK
  <2>3. \A t \in Threads : pc'[t] \notin Holding /\ pc'[t] \notin Saving
    BY <2>1 DEF Holding, Saving
  <2>4. SharedCopy'
    BY <1>0, <2>1, <2>3 DEF SharedCopy, Users
  <2>5. NothingLost' /\ SavedIsKept'
    BY <1>t, <2>1, <2>3 DEF NothingLost, SavedIsKept
  <2> QED BY <2>2, <2>4, <2>5 DEF TableInv
<1>11. CASE UNCHANGED tableVars
  BY <1>11 DEF tableVars, table, disk, history, TableInv, TableTypeOK, SharedCopy, NothingLost, SavedIsKept, Users
<1> QED BY <1>1, <1>2, <1>3, <1>4, <1>5, <1>6, <1>7, <1>8, <1>9, <1>10, <1>11 DEF TableNext

LEMMA TableInvHolds == TableSpec => []TableInv
BY TableInvAtFirst, TableInvKept, PTL DEF TableSpec

\* What the table and the threads remember has its type.
THEOREM TableTypeCorrect == TableSpec => []TableTypeOK
<1>1. TableInv => TableTypeOK
  BY DEF TableInv
<1> QED BY <1>1, TableInvHolds, PTL

\* Whoever has a reference on the list has the table's, which is allocated and saved
\* by the one who drops the last (UserFriendsGet, UserFriendsDrop), for any numbers of
\* changes and of addresses the lists may have.
THEOREM SharedCopyAlways == TableSpec => []SharedCopy
<1>1. TableInv => SharedCopy
  BY DEF TableInv
<1> QED BY <1>1, TableInvHolds, PTL

\* No change is lost, whatever handlers, logins, kicks and restarts come in whatever order,
\* but by the three mishaps that are named (friends.c:161-243).
THEOREM NothingLostAlways == TableSpec => []NothingLost
<1>1. TableInv => NothingLost
  BY DEF TableInv
<1> QED BY <1>1, TableInvHolds, PTL
=============================================================================
