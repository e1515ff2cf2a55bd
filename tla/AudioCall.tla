----------------------------- MODULE AudioCall -----------------------------
(***************************************************************************)
(* A voice call: two clients (client/media.c, client/chart.c) that look    *)
(* for a way to send each other datagrams, with the server's help.  Each   *)
(* registers a key (NATRegister.c), tells it to the other through the      *)
(* server, and sends the other's key from its socket to the server's       *)
(* datagram port, where the listener finds out whose key it is and tells   *)
(* the owner the address it came from (natTraversal.c).  Then both send to *)
(* the address they know until each has heard the other and been told that *)
(* it was heard.                                                           *)
(*                                                                         *)
(* Each client has a thread that receives packets, one that draws, and one *)
(* per call end that exchanges datagrams; the server has one worker and    *)
(* the listener, which share keys and operations.  Any datagram may be     *)
(* lost, a user may leave and a session may be deleted at any time.  What  *)
(* C leaves undefined ends a behaviour (undefined).  Left out: kicks by    *)
(* the console, which delete a session in a thread of their own, between   *)
(* the halves of a registration too (UserLifecycle has them).              *)
(***************************************************************************)
EXTENDS Naturals, Sequences

CONSTANTS Caller, Callee, None,
          Settings,      \* what a behaviour has to live with, a set of records: who may
                         \* leave, after how many silent rounds a thread gives up (10 in
                         \* the code), what the two stacks hold for opAddrLen
          MaxPackets     \* bound: packets one way on one connection, when another is sent

Lengths == {"negative", "short", "enough"}

ASSUME AudioCallAssumption ==
  /\ Caller # Callee /\ None \notin {Caller, Callee}
  /\ Settings \subseteq [leavers : SUBSET {Caller, Callee}, tries : Nat \ {0},
                         lengths : [{Caller, Callee} -> Lengths]]
  /\ MaxPackets \in Nat \ {0}

VARIABLES call,      \* AudioDiscoverProcessEntry, its node and its thread, at each end
          asked,     \* the callee's user sees the question whether to accept
          up, down,  \* packets on their way to the server and to the clients
          probe,     \* ends with a datagram on its way to the server's port
          echo,      \* ends with the server's answer to it in their socket
          dgram,     \* ends with a datagram of the other end in their socket
          session,   \* the session of each client: "on", "closing" or "off"
          op,        \* the operation of each registered key: "none", "fresh" before it
                     \* has onCancel, "armed", "gone" when it is freed
          table,     \* ends whose key is in the table of natTraversal.c
          worker,    \* the end whose packet or deletion is half done, or None
          listener,  \* where the listener is with which key
          undefined, \* the program has done what C gives no meaning to
          setting    \* the member of Settings this behaviour has; it never changes

clientVars == <<call, asked>>
serverVars == <<session, op, table, worker, listener>>
datagrams == <<probe, echo, dgram>>
vars == <<clientVars, up, down, datagrams, serverVars, undefined, setting>>

Ends == {Caller, Callee}
Idle == <<"idle", None>>
Peer(e) == CHOOSE p \in Ends : p # e

\* To the server, by a client whose connection is not closed, and to a client.
ToServer(e, packet) == IF session[e] = "on" THEN [up EXCEPT ![e] = Append(@, packet)] ELSE up
ToClient(queue, e, packet) == [queue EXCEPT ![e] = Append(@, packet)]
Received(queue, e) == [queue EXCEPT ![e] = Tail(@)]

-----------------------------------------------------------------------------
(* Clients: what the users do.                                             *)

\* A call end before it begins.  len is what the thread's stack holds where it
\* declares opAddrLen without a value: a negative length, with which recvfrom
\* fails, one that cuts the address short, or a sufficient one.
NewEnd(len) ==
  [node |-> FALSE, entry |-> "none", sent |-> FALSE, keySet |-> FALSE, addr |-> "none",
   ready |-> FALSE, pipe |-> FALSE, served |-> FALSE, tries |-> 0, threads |-> 0,
   at |-> "none", len |-> len, sound |-> "none"]

Init ==
  /\ setting \in Settings
  /\ call = [e \in Ends |-> NewEnd(setting.lengths[e])]
  /\ asked = FALSE
  /\ up = [e \in Ends |-> <<>>] /\ down = [e \in Ends |-> <<>>]
  /\ probe = {} /\ echo = {} /\ dgram = {}
  /\ session = [e \in Ends |-> "on"]
  /\ op = [e \in Ends |-> "none"]
  /\ table = {}
  /\ worker = None /\ listener = Idle
  /\ undefined = FALSE

\* The caller presses the voice button.
AudioRequestNATDiscover ==
  /\ ~undefined
  /\ call[Caller].entry = "none"
  /\ call' = [call EXCEPT ![Caller].node = TRUE, ![Caller].entry = "live"]
  /\ up' = ToServer(Caller, "register")
  /\ UNCHANGED <<asked, down, datagrams, serverVars, undefined, setting>>

\* The callee's user accepts.
AudioAcceptNatDiscover ==
  /\ ~undefined
  /\ asked
  /\ asked' = FALSE
  /\ call' = [call EXCEPT ![Callee].node = TRUE, ![Callee].entry = "live", ![Callee].keySet = TRUE]
  /\ up' = ToServer(Callee, "register")
  /\ UNCHANGED <<down, datagrams, serverVars, undefined, setting>>

\* The callee's user declines.
Refuse ==
  /\ ~undefined
  /\ asked
  /\ asked' = FALSE
  /\ up' = ToServer(Callee, "refuse")
  /\ UNCHANGED <<call, down, datagrams, serverVars, undefined, setting>>

-----------------------------------------------------------------------------
(* Clients: the receiving thread, ProcessNatDiscoveredOnAudio for the       *)
(* caller and AcceptNATDiscoverProcess for the callee.                     *)

StartThread(c) == [c EXCEPT !.threads = @ + 1, !.at = "select"]

\* The thread ends, and with the entry and the stack what they held.  StartAudioChat
\* has copied the address, sound is where it sends to; that the other was heard is kept
\* for the properties.
EndThread(c, at) ==
  [NewEnd("enough") EXCEPT !.node = c.node, !.entry = "freed", !.pipe = c.pipe,
                           !.threads = c.threads, !.at = at,
                           !.sound = IF at = "audio" THEN c.addr ELSE "none"]

\* What is sent to a socket nobody reads any more is lost.
ReadBy(ends) == {e \in ends : call[e].at = "select"}

\* The top of the thread's loop, c being the call end: send the other's key to the
\* server, until it has answered, and to the other, if its address is known.  Each
\* may be lost.
Sends(e, c, inSocket) ==
  /\ probe' \in IF c.served THEN {probe} ELSE {probe, probe \union {e}}
  /\ dgram' \in IF c.addr = "peer" THEN {inSocket, inSocket \union ReadBy({Peer(e)})} ELSE {inSocket}

\* Mutant: || in place of && in the loop condition.
ConnectedHalf(c) == c.ready \/ c.pipe

Connected(c) == c.ready /\ c.pipe

\* One more round, or StartAudioChat and free(entry).
Round(e, c, inSocket) ==
  IF Connected(c)
    THEN /\ call' = [call EXCEPT ![e] = EndThread(c, "audio")]
         /\ dgram' = inSocket \ {e} /\ UNCHANGED probe
    ELSE call' = [call EXCEPT ![e] = c] /\ Sends(e, c, inSocket)

Selects(e) == call[e].at = "select" /\ ~undefined

\* Each handler: the call end and what it sends.  A node goes away when the
\* handler returns 0.
OnOK(e, c) ==
  IF c.sent THEN c
  ELSE IF e = Caller THEN [c EXCEPT !.sent = TRUE] ELSE [StartThread(c) EXCEPT !.sent = TRUE]

OnAccept(c) ==
  LET d == [c EXCEPT !.keySet = TRUE] IN IF c.addr # "none" THEN StartThread(d) ELSE d

\* Mutant: the thread starts without the other's key.
OnDetectedEager(e, c) ==
  LET d == [c EXCEPT !.addr = "peer"] IN IF e = Caller THEN StartThread(d) ELSE d

OnDetected(e, c) ==
  LET d == [c EXCEPT !.addr = "peer"] IN IF e = Caller /\ c.keySet THEN StartThread(d) ELSE d

\* Mutant: the handler returns 1, and the node stays.
OnReadyKept(c) == [c EXCEPT !.ready = TRUE]

OnReady(c) == [c EXCEPT !.ready = TRUE, !.node = FALSE]

\* The entry is freed.  Only the caller stops its thread first.
OnFailure(c) == [EndThread(c, "cancelled") EXCEPT !.node = FALSE]

OnRefuse(c) == [c EXCEPT !.node = FALSE]

\* The handler reads or frees an entry that is gone, or stops a thread that was
\* never started, or frees the entry of a thread that runs on.
HandlerUndefined(e, c, packet) ==
  \/ c.entry = "freed"
  \/ packet = "failure" /\ (e = Caller) = (c.at # "select")

Handled(e, c, packet) ==
  CASE packet = "ok"       -> OnOK(e, c)
    [] packet = "accept"   -> OnAccept(c)
    [] packet = "detected" -> OnDetected(e, c)
    [] packet = "ready"    -> OnReady(c)
    [] packet = "failure"  -> OnFailure(c)
    [] packet = "refuse"   -> OnRefuse(c)

\* The first OK answers the registration: now the other is told the key.
Answered(e, c, packet) ==
  IF packet = "ok" /\ ~c.sent
    THEN ToServer(e, IF e = Caller THEN "request" ELSE "accept")
    ELSE up

\* MessageLoopFunc with a packet of the call's session.  A thread that is stopped
\* may be between two calls of select, and reads the entry before the next.
ReceiveCall(e) ==
  /\ ~undefined
  /\ down[e] # <<>> /\ Head(down[e]) # "request"
  /\ LET c == call[e]
         packet == Head(down[e])
     IN IF ~c.node
          THEN UNCHANGED <<call, up, probe, dgram, undefined>>
          ELSE IF HandlerUndefined(e, c, packet)
          THEN undefined' = TRUE /\ UNCHANGED <<call, up, probe, dgram>>
          ELSE LET d == Handled(e, c, packet)
               IN /\ call' = [call EXCEPT ![e] = d]
                  /\ up' = Answered(e, c, packet)
                  /\ IF d.threads > c.threads THEN Sends(e, d, dgram) ELSE UNCHANGED <<probe, dgram>>
                  /\ undefined' \in IF packet = "failure" THEN BOOLEAN ELSE {FALSE}
  /\ down' = Received(down, e)
  /\ UNCHANGED <<asked, echo, serverVars, setting>>

\* The request has session 0: ClientSockfd.c has the user asked.
ReceiveRequest(e) ==
  /\ ~undefined
  /\ down[e] # <<>> /\ Head(down[e]) = "request"
  /\ asked' = TRUE
  /\ down' = Received(down, e)
  /\ UNCHANGED <<call, up, datagrams, serverVars, undefined, setting>>

-----------------------------------------------------------------------------
(* Clients: the thread that exchanges datagrams, AudioWaitConnection for   *)
(* the caller and AudioWaitDiscover for the callee.  It waits in select; a *)
(* step is what it does until it waits again.                              *)

\* A datagram was there, but recvfrom fails for opAddrLen.
ThreadRecvFails(e) ==
  /\ Selects(e) /\ call[e].len = "negative"
  /\ \/ e \in dgram /\ Round(e, call[e], dgram \ {e}) /\ UNCHANGED echo
     \/ e \in echo /\ Round(e, call[e], dgram) /\ echo' = echo \ {e}
  /\ UNCHANGED <<asked, up, down, serverVars, undefined, setting>>

\* The server's answer: the key, or zeros.
ThreadHearsServer(e) ==
  /\ Selects(e) /\ call[e].len # "negative"
  /\ e \in echo
  /\ echo' = echo \ {e}
  /\ Round(e, [call[e] EXCEPT !.served = TRUE, !.len = "enough"], dgram)
  /\ UNCHANGED <<asked, up, down, serverVars, undefined, setting>>

\* The own key: the other end has sent it.  recvfrom leaves the right length, but
\* what it has stored was cut to the old one.
ThreadHearsPeer(e) ==
  /\ Selects(e) /\ call[e].len # "negative"
  /\ e \in dgram /\ Len(up[e]) < MaxPackets
  /\ Round(e, [call[e] EXCEPT !.pipe = TRUE, !.len = "enough",
                              !.addr = IF call[e].len = "enough" THEN "peer" ELSE "garbled"],
           dgram \ {e})
  /\ up' = ToServer(e, "ready")
  /\ UNCHANGED <<asked, down, echo, serverVars, undefined, setting>>

\* Mutant: the tries start anew.
SilenceForgotten(c) == [c EXCEPT !.tries = 0]

\* A second without a datagram: one try less.  After the last the entry is freed;
\* its node is left.
Silence(c) ==
  IF c.tries + 1 >= setting.tries THEN EndThread(c, "gaveUp")
                             ELSE [c EXCEPT !.tries = @ + 1]

ThreadTimeout(e) ==
  /\ Selects(e)
  /\ LET c == Silence(call[e])
     IN IF c.at = "gaveUp"
          THEN call' = [call EXCEPT ![e] = c] /\ dgram' = dgram \ {e} /\ UNCHANGED probe
          ELSE Round(e, c, dgram)
  /\ UNCHANGED <<asked, up, down, echo, serverVars, undefined, setting>>

-----------------------------------------------------------------------------
(* The server: the worker.                                                 *)

\* The next packet of a client with a session, when the worker is free.
Next1(e, packets) ==
  /\ ~undefined
  /\ worker = None /\ session[e] = "on"
  /\ up[e] # <<>> /\ Head(up[e]) \in packets

\* UserOperationRegister and NatHostDiscoverRegister ...
NatHostDiscoverRegister(e) ==
  /\ Next1(e, {"register"})
  /\ op' = [op EXCEPT ![e] = "fresh"]
  /\ table' = table \union {e}
  /\ worker' = e
  /\ up' = Received(up, e)
  /\ UNCHANGED <<clientVars, down, datagrams, session, listener, undefined, setting>>

\* ... then onCancel is set and the client told.
RegisterDone(e) ==
  /\ ~undefined
  /\ worker = e /\ session[e] = "on"
  /\ IF op[e] = "fresh" THEN op' = [op EXCEPT ![e] = "armed"] /\ UNCHANGED undefined
                        ELSE undefined' = TRUE /\ UNCHANGED op
  /\ worker' = None
  /\ down' = ToClient(down, e, "ok")
  /\ UNCHANGED <<clientVars, up, datagrams, session, table, listener, setting>>

\* NATRequest, NATAccept, NATRefuse, NATReady: to the other and OK, or FAILURE if
\* the other is not online.
ProcessPacketNETNAT(e) ==
  /\ Next1(e, {"request", "accept", "refuse", "ready"})
  /\ Len(down[e]) < MaxPackets /\ Len(down[Peer(e)]) < MaxPackets
  /\ down' = IF session[Peer(e)] = "on" THEN ToClient(ToClient(down, Peer(e), Head(up[e])), e, "ok")
                                       ELSE ToClient(down, e, "failure")
  /\ up' = Received(up, e)
  /\ UNCHANGED <<clientVars, datagrams, serverVars, undefined, setting>>

\* OnlineUserDelete: the client has left or logs in elsewhere.  The session is out of
\* the table of users first ...
OnlineUserTableRemove(e) ==
  /\ ~undefined
  /\ worker = None /\ session[e] = "on" /\ e \in setting.leavers
  /\ session' = [session EXCEPT ![e] = "closing"]
  /\ worker' = e
  /\ up' = [up EXCEPT ![e] = <<>>]
  /\ UNCHANGED <<clientVars, down, datagrams, op, table, listener, undefined, setting>>

\* Mutant: the key is left in the table.
CancelLeavingKey(t, e) == t

\* DiscoverCancelHandler takes the key out of the table.
DiscoverCancelHandler(t, e) == t \ {e}

\* ... and UserOperationRemoveAll cancels its operations.
UserOperationRemoveAll(e) ==
  /\ ~undefined
  /\ worker = e /\ session[e] = "closing"
  /\ IF op[e] = "armed"
       THEN table' = DiscoverCancelHandler(table, e) /\ op' = [op EXCEPT ![e] = "gone"]
       ELSE UNCHANGED <<table, op>>
  /\ session' = [session EXCEPT ![e] = "off"]
  /\ worker' = None
  /\ UNCHANGED <<clientVars, up, down, datagrams, listener, undefined, setting>>

-----------------------------------------------------------------------------
(* The server: the listener and the datagrams, NatHostDiscoverNotify.      *)

\* A datagram of e, which has the other's key.  The lock is released as soon as
\* the key is found.
NatHostDiscoverFind(e) ==
  /\ ~undefined
  /\ listener = Idle /\ e \in probe
  /\ probe' = probe \ {e}
  /\ IF Peer(e) \in table
       THEN listener' = <<"found", Peer(e)>> /\ UNCHANGED echo
       ELSE echo' = echo \union ReadBy({e}) /\ UNCHANGED listener
  /\ UNCHANGED <<clientVars, up, down, dgram, session, op, table, worker, undefined, setting>>

\* The owner is told and the operation freed.  Both the entry and the owner may be
\* gone by now: the one is used, the other not asked for.
DiscoverDetected(o) ==
  /\ ~undefined
  /\ listener = <<"found", o>>
  /\ IF op[o] = "gone" \/ session[o] # "on"
       THEN undefined' = TRUE /\ UNCHANGED <<op, down, listener>>
       ELSE /\ op' = [op EXCEPT ![o] = "gone"]
            /\ down' = ToClient(down, o, "detected")
            /\ listener' = <<"told", o>>
            /\ UNCHANGED undefined
  /\ UNCHANGED <<clientVars, up, datagrams, session, table, worker, setting>>

\* The entry goes, and the sender gets its answer.
NatHostDiscoverUnregister(o) ==
  /\ ~undefined
  /\ listener = <<"told", o>>
  /\ table' = table \ {o}
  /\ echo' = echo \union ReadBy({Peer(o)})
  /\ listener' = Idle
  /\ UNCHANGED <<clientVars, up, down, probe, dgram, session, op, worker, undefined, setting>>

-----------------------------------------------------------------------------

Receive(e) == ReceiveCall(e) \/ ReceiveRequest(e)

Thread(e) ==
  \/ ThreadRecvFails(e) \/ ThreadHearsServer(e) \/ ThreadHearsPeer(e) \/ ThreadTimeout(e)

Worker(e) == \/ NatHostDiscoverRegister(e) \/ RegisterDone(e) \/ ProcessPacketNETNAT(e)
             \/ UserOperationRemoveAll(e)

Listener(e) == NatHostDiscoverFind(e) \/ DiscoverDetected(e) \/ NatHostDiscoverUnregister(e)

Next ==
  \/ AudioRequestNATDiscover \/ AudioAcceptNatDiscover \/ Refuse
  \/ \E e \in Ends : OnlineUserTableRemove(e)
  \/ \E e \in Ends : Receive(e) \/ Thread(e) \/ Worker(e) \/ Listener(e)

\* Threads run; users promise nothing, and the network only what Thread and
\* Listener say of it.
Spec ==
  /\ Init /\ [][Next]_vars
  /\ WF_vars(\E e \in Ends : Worker(e)) /\ WF_vars(\E e \in Ends : Listener(e))
  /\ \A e \in Ends : WF_vars(Receive(e)) /\ WF_vars(Thread(e))

-----------------------------------------------------------------------------

CallEnd == [node : BOOLEAN, entry : {"none", "live", "freed"}, sent : BOOLEAN, keySet : BOOLEAN,
            addr : {"none", "peer", "garbled"}, ready : BOOLEAN, pipe : BOOLEAN, served : BOOLEAN,
            tries : Nat, threads : 0 .. 1,
            at : {"none", "select", "audio", "gaveUp", "cancelled"},
            len : Lengths, sound : {"none", "peer", "garbled"}]

Packets == {"register", "request", "accept", "refuse", "ready", "ok", "detected", "failure"}

\* An end has at most one thread, although both ACCEPT and DETECTED start it.
TypeOK ==
  /\ call \in [Ends -> CallEnd]
  /\ asked \in BOOLEAN
  /\ up \in [Ends -> Seq(Packets)] /\ down \in [Ends -> Seq(Packets)]
  /\ probe \subseteq Ends /\ echo \subseteq Ends /\ dgram \subseteq Ends
  /\ session \in [Ends -> {"on", "closing", "off"}]
  /\ op \in [Ends -> {"none", "fresh", "armed", "gone"}]
  /\ table \subseteq Ends
  /\ worker \in Ends \union {None}
  /\ listener \in {Idle} \union ({"found", "told"} \X Ends)
  /\ undefined \in BOOLEAN
  /\ setting \in Settings

\* Who starts to talk has heard the other and been heard by it, whatever was lost on the
\* way (media.c:89, 279), and sends the sound to the address the other was heard from,
\* unless its stack held a short length for opAddrLen (media.c:124, 318).  The other may
\* have given up since, or not have been told yet.
HeardBothWays ==
  \A e \in Ends : call[e].at = "audio" =>
    /\ call[e].pipe /\ call[Peer(e)].pipe
    /\ call[e].sound = "peer" \/ setting.lengths[e] = "short"

\* A packet finds an entry that is gone only after a thread has given up: the
\* handler that lets the thread end removes the node first (media.c:181, 364).
DanglingAfterGivingUp ==
  \A e \in Ends : call[e].node /\ call[e].entry = "freed" => call[e].at = "gaveUp"

\* A key in the table has an operation to complete, of a user who is there or is
\* being deleted, unless the listener is about to take it out (NATRegister.c:15-52);
\* and the listener completes none whose registration is not finished: a key is told
\* only after the answer, so nobody sends it before onCancel is set.
KeysHaveOwners ==
  /\ \A e \in table : \/ op[e] \in {"fresh", "armed"} /\ session[e] # "off"
                      \/ listener = <<"told", e>>
  /\ \A e \in Ends : op[e] = "fresh" => listener # <<"found", e>>

\* A thread that looks for the other end does not look for ever, if recvfrom does
\* not fail for a length nobody has set (media.c:110, 305) and the server has at
\* most one of the two leave: with both gone they can hear each other and go on
\* sending, while no READY arrives.
WaitEnds ==
  ((\A e \in Ends : setting.lengths[e] # "negative") /\ setting.leavers # Ends)
    => \A e \in Ends : call[e].at = "select" ~> call[e].at # "select" \/ undefined
=============================================================================
