---------------------------- MODULE FriendsTable ----------------------------
(***************************************************************************)
(* How the list of one account is kept (server/datafile/friends.c): in its *)
(* file, in memory while somebody uses it, and how often the two change    *)
(* places.  An account's session holds a reference on its list             *)
(* (user.c:547), a handler that changes the list of somebody else takes    *)
(* one for as long as it runs (Accept.c, Delete.c), and who drops the last *)
(* one writes the file, after the table has been unlocked.                 *)
(*                                                                         *)
(* Two threads come here: the worker, which runs the handlers, logs        *)
(* accounts in and deletes the sessions that break, and the console, whose *)
(* kick deletes a session (cli.c:71).  What is in a list is module         *)
(* Friendship's matter: here it is the set of the changes made to it.      *)
(*                                                                         *)
(* The rwlocks are those of glibc: a thread that asks for a lock it holds  *)
(* for writing gets EDEADLK, which nobody looks at, and goes on.           *)
(***************************************************************************)
EXTENDS Naturals

CONSTANTS Worker, Console,
          None,
          Copies,    \* addresses of lists in memory
          Changes    \* changes a handler may make; each is in a list once

ASSUME FriendsTableAssumption == Worker # Console /\ None \notin Copies

Threads == {Worker, Console}

VARIABLES entry,     \* friends of the account's entry in the table, or None
          refs,      \* readers of the entry's refLock
          lock,      \* the entry's lock: "free", "worker" while a handler has it, "left" when
                     \* a handler has returned with it, "broken" after an unlock too many
          heap,      \* the copies that are allocated
          content,   \* the changes in each copy
          stored,    \* the changes in the file
          whole,     \* FALSE from the truncation of the file until the list is in it
          session,   \* the copy the session that is online refers to, or None
          pc,        \* what each thread is doing with this account
          hand,      \* the copy it does it with
          due,       \* the changes that must be found again
          safe,      \* the changes a save has written
          mishaps    \* what has happened that may lose changes

table == <<entry, refs, heap, content>>
disk == <<stored, whole>>
history == <<due, safe, mishaps>>
tableVars == <<table, lock, disk, session, pc, hand, history>>

Holding == {"handling", "leaving", "dropping", "stuckInGet"}
Saving == {"save", "write"}

TableInit ==
  /\ entry = None /\ refs = 0 /\ lock = "free" /\ heap = {}
  /\ content = [c \in Copies |-> {}]
  /\ stored = {} /\ whole = TRUE
  /\ session = None
  /\ pc = [t \in Threads |-> "idle"] /\ hand = [t \in Threads |-> None]
  /\ due = {} /\ safe = {} /\ mishaps = {}

Goes(t, p, c) == pc' = [pc EXCEPT ![t] = p] /\ hand' = [hand EXCEPT ![t] = c]

-----------------------------------------------------------------------------

\* What the file may be read as while it is whole, and while it is not: as an
\* empty file it makes the server die (Die), as zeros it has no groups, and it
\* has the first of them when UserFriendsEncode is on its way.
Readable ==
  IF whole THEN {stored} ELSE SUBSET UNION {content[hand[t]] : t \in {s \in Threads : pc[s] = "write"}}

\* UserFriendsGet, without the lock of the list: the table's list, or else the
\* file's, which another thread may be about to write.
UserFriendsGet ==
  \/ /\ entry # None
     /\ refs' = refs + 1
     /\ UNCHANGED <<entry, heap, content, mishaps>>
  \/ /\ entry = None
     /\ \E c \in Copies \ heap, list \in Readable :
          /\ entry' = c
          /\ heap' = heap \union {c}
          /\ content' = [content EXCEPT ![c] = list]
     /\ refs' = 1
     /\ mishaps' = IF \E t \in Threads : pc[t] \in Saving THEN mishaps \union {"overlap"} ELSE mishaps

\* The worker has the lock of the list and gives it back: a lock that was left
\* to it is free then, a broken one stays broken.
Unlocked(l) == IF l = "broken" THEN l ELSE "free"

\* Mutant: the entry stays in the table when its list is saved and freed.
DropKeepsEntry(t, unlocked) ==
  /\ refs' = refs - 1
  /\ IF refs = 1 THEN pc' = [pc EXCEPT ![t] = "save"] /\ lock' = "free" /\ UNCHANGED <<entry, hand>>
                 ELSE Goes(t, "idle", None) /\ lock' = unlocked /\ UNCHANGED entry
  /\ UNCHANGED <<heap, content, disk, session, history>>

\* Mutant: the last reference frees the list and does not save it.
DropUnsaved(t, unlocked) ==
  /\ refs' = refs - 1
  /\ IF refs = 1 THEN entry' = None /\ lock' = "free" /\ heap' = heap \ {entry}
                 ELSE lock' = unlocked /\ UNCHANGED <<entry, heap>>
  /\ Goes(t, "idle", None)
  /\ UNCHANGED <<content, disk, session, history>>

\* UserFriendsDrop up to its unlocking of the table; the last reference takes
\* the entry with it.
UserFriendsDrop(t, unlocked) ==
  /\ refs' = refs - 1
  /\ IF refs = 1 THEN /\ entry' = None /\ lock' = "free"
                      /\ pc' = [pc EXCEPT ![t] = "save"] /\ UNCHANGED hand
                 ELSE Goes(t, "idle", None) /\ lock' = unlocked /\ UNCHANGED entry
  /\ UNCHANGED <<heap, content, disk, session, history>>

\* UserFriendsSave opens the file, and with that empties it.
SaveOpen(t) ==
  /\ pc[t] = "save"
  /\ pc' = [pc EXCEPT ![t] = "write"]
  /\ whole' = FALSE
  /\ UNCHANGED <<table, lock, stored, session, hand, history>>

\* It writes the list, which is freed.  A file that another thread has truncated
\* since may make the write fail altogether (Die).
SaveEncode(t) ==
  /\ pc[t] = "write"
  /\ stored' = content[hand[t]]
  /\ whole' = \A s \in Threads \ {t} : pc[s] # "write"
  /\ safe' = safe \union content[hand[t]]
  /\ heap' = heap \ {hand[t]}
  /\ Goes(t, "idle", None)
  /\ UNCHANGED <<entry, refs, lock, content, session, due, mishaps>>

\* The file cannot be opened, expanded or mapped: nobody looks at the result of
\* UserFriendsSave, and the list is freed.
SaveFails(t) ==
  /\ pc[t] \in Saving
  /\ mishaps' = mishaps \union {"unsaved"}
  /\ heap' = heap \ {hand[t]}
  /\ Goes(t, "idle", None)
  /\ UNCHANGED <<entry, refs, lock, content, disk, session, due, safe>>

-----------------------------------------------------------------------------
(* The worker.                                                             *)

\* A handler for somebody else takes this list for writing.
GetForHandler ==
  /\ pc[Worker] = "idle"
  /\ UserFriendsGet
  /\ lock' = IF entry # None /\ lock = "broken" THEN lock ELSE "worker"
  /\ Goes(Worker, "handling", entry')
  /\ UNCHANGED <<disk, session, due, safe>>

\* It may make a change,
HandlerChanges(x) ==
  /\ pc[Worker] = "handling" /\ x \notin due
  /\ content' = [content EXCEPT ![hand[Worker]] = @ \union {x}]
  /\ due' = due \union {x}
  /\ UNCHANGED <<entry, refs, lock, heap, disk, session, pc, hand, safe, mishaps>>

\* Mutant: the lock of the list is not given back.
HandlerDropsLocked ==
  /\ pc[Worker] = "handling"
  /\ UserFriendsDrop(Worker, lock)

\* and it drops the list.
HandlerDrops ==
  /\ pc[Worker] = "handling"
  /\ UserFriendsDrop(Worker, Unlocked(lock))

\* The copies a session the worker has a packet of refers to: the one online, or
\* the one that the console is deleting and waits for.
Owned == ({session} \union {hand[t] : t \in {s \in {Console} : pc[s] = "leaving"}}) \ {None}

\* A handler of the account's own session changes the list, under its lock.
OwnerChanges(x) ==
  /\ pc[Worker] = "idle" /\ x \notin due
  /\ \E c \in Owned : content' = [content EXCEPT ![c] = @ \union {x}]
  /\ due' = due \union {x}
  /\ lock' = Unlocked(lock)
  /\ UNCHANGED <<entry, refs, heap, disk, session, pc, hand, safe, mishaps>>

\* ProcessPacketFriendDelete for a group the owner has not: it returns with the
\* list locked.
DeleteUnknownGroup ==
  /\ pc[Worker] = "idle" /\ Owned # {}
  /\ lock' = IF lock = "broken" THEN lock ELSE "left"
  /\ UNCHANGED <<table, disk, session, pc, hand, history>>

\* A broken lock may never be had again.  A handler that waits for it in
\* UserFriendsGet waits with its reference, and with the lock of the table.
WaitForBroken ==
  /\ pc[Worker] = "idle" /\ entry # None /\ lock = "broken"
  /\ \/ Owned # {} /\ pc' = [pc EXCEPT ![Worker] = "stuck"] /\ UNCHANGED <<table, hand, mishaps>>
     \/ UserFriendsGet /\ Goes(Worker, "stuckInGet", entry')
  /\ UNCHANGED <<lock, disk, session, due, safe>>

\* The account logs in: a reference without the lock, then the news to the
\* friends, for which the list is locked and unlocked.
LoginGets ==
  /\ pc[Worker] = "idle" /\ session = None
  /\ UserFriendsGet
  /\ session' = entry'
  /\ lock' = Unlocked(lock)
  /\ UNCHANGED <<disk, pc, hand, due, safe>>

-----------------------------------------------------------------------------
(* OnlineUserDelete, by either thread.                                     *)

\* The session leaves the table of users.
LeaveTable(t) ==
  /\ pc[t] = "idle" /\ session # None
  /\ session' = None
  /\ Goes(t, "leaving", session)
  /\ UNCHANGED <<table, lock, disk, history>>

\* UserBroadcastNotify reads the list, for which the console waits while it is
\* locked; then the thread is alone with the session (holdLock).
Broadcast(t) ==
  /\ pc[t] = "leaving"
  /\ t = Worker \/ lock \notin {"worker", "left"}
  /\ lock' = IF t = Worker THEN Unlocked(lock) ELSE lock
  /\ pc' = [pc EXCEPT ![t] = "dropping"]
  /\ UNCHANGED <<table, disk, session, hand, history>>

\* The session's reference is dropped, and with it a lock that this thread has
\* not taken; unless the entry goes too, that lock is broken.
SessionDrops(t) ==
  /\ pc[t] = "dropping"
  /\ pc[Worker] # "stuckInGet"
  /\ UserFriendsDrop(t, "broken")

\* The process dies and is started again.
Die ==
  /\ entry' = None /\ refs' = 0 /\ lock' = "free" /\ heap' = {} /\ session' = None
  /\ pc' = [t \in Threads |-> "idle"] /\ hand' = [t \in Threads |-> None]
  /\ due' = safe
  /\ mishaps' = IF whole THEN mishaps ELSE mishaps \union {"cut"}
  /\ UNCHANGED <<content, disk, safe>>

TableNext ==
  \/ GetForHandler \/ HandlerDrops \/ DeleteUnknownGroup \/ WaitForBroken \/ LoginGets
  \/ \E x \in Changes : HandlerChanges(x) \/ OwnerChanges(x)
  \/ \E t \in Threads : \/ LeaveTable(t) \/ Broadcast(t) \/ SessionDrops(t)
                        \/ SaveOpen(t) \/ SaveEncode(t) \/ SaveFails(t)
  \/ Die

TableSpec == TableInit /\ [][TableNext]_tableVars

\* A handler returns, a save ends, and a thread that waits for a lock gets it if
\* it is free again and again: glibc lets readers in when a writer unlocks.
TableFairSpec ==
  /\ TableSpec
  /\ WF_tableVars(HandlerDrops)
  /\ SF_tableVars(Broadcast(Console))
  /\ WF_tableVars(SessionDrops(Console))
  /\ \A t \in Threads : WF_tableVars(SaveOpen(t)) /\ WF_tableVars(SaveEncode(t) \/ SaveFails(t))

-----------------------------------------------------------------------------

TableTypeOK ==
  /\ entry \in Copies \union {None} /\ session \in Copies \union {None}
  /\ refs \in Nat
  /\ lock \in {"free", "worker", "left", "broken"}
  /\ heap \subseteq Copies /\ content \in [Copies -> SUBSET Changes]
  /\ stored \subseteq Changes /\ whole \in BOOLEAN
  /\ pc \in [Threads -> {"idle", "stuck"} \union Holding \union Saving]
  /\ hand \in [Threads -> Copies \union {None}]
  /\ due \subseteq Changes /\ safe \subseteq Changes
  /\ mishaps \subseteq {"overlap", "unsaved", "cut"}

\* How many references there should be: one of the session, one of each thread that uses the list.
Users == (IF session = None THEN 0 ELSE 1)
         + (IF pc[Worker] \in Holding THEN 1 ELSE 0) + (IF pc[Console] \in Holding THEN 1 ELSE 0)

\* Whoever has a reference has the list of the table, and nobody frees it: the
\* table is looked up again for every drop, so a list that is not the table's
\* would never be saved, and one that is freed early would be used on
\* (UserFriendsGet, UserFriendsDrop).
SharedCopy ==
  /\ refs = Users /\ (entry = None <=> refs = 0)
  /\ entry # None => entry \in heap
  /\ session # None => session = entry
  /\ \A t \in Threads : /\ pc[t] \in Holding => hand[t] = entry
                        /\ pc[t] \in Saving => hand[t] \in heap \ {entry}
  /\ \A s, t \in Threads : pc[s] \in Saving /\ pc[t] \in Saving /\ s # t => hand[s] # hand[t]

\* Every change that was made is in the list in use, or in the one that is being
\* saved, or in the file, and a restart finds what was saved before (friends.c:
\* 161-243); unless the list was read while another thread had yet to write it, a
\* save failed, or the process died with the file emptied.
NothingLost ==
  mishaps = {} =>
    /\ entry # None => due \subseteq content[entry]
    /\ \A t \in Threads : pc[t] \in Saving => entry = None /\ due \subseteq content[hand[t]]
    /\ entry = None /\ (\A t \in Threads : pc[t] \notin Saving) => whole /\ due \subseteq stored
    /\ whole => safe \subseteq stored

\* A session the console has taken out of the table is deleted in the end
\* (cli.c:71), while the worker comes and goes; unless a lock is left to the worker
\* or broken for it.
KickCompletes ==
  pc[Console] # "idle" ~> pc[Console] = "idle" \/ lock = "left" \/ pc[Worker] \in {"stuck", "stuckInGet"}

=============================================================================
