-------------------------- MODULE AudioCallProofs --------------------------
(***************************************************************************)
(* Proofs about AudioCall: who starts to talk has been heard and hears,    *)
(* whatever is lost and whoever leaves.  An end is ready when a READY has  *)
(* reached it; HeardInv follows that packet from the end that sent it      *)
(* through both queues of the server to the other end.  CallInv says how   *)
(* far a call has come, at both ends, in the queues and on the server: a   *)
(* thread is started once, a handler's entry is there until the thread     *)
(* gives up, and a key in the table has an owner.                          *)
(***************************************************************************)
EXTENDS AudioCall, TLAPS

\* A call end, without the bound on its threads that TypeOK states.
End == [node : BOOLEAN, entry : {"none", "live", "freed"}, sent : BOOLEAN, keySet : BOOLEAN,
        addr : {"none", "peer", "garbled"}, ready : BOOLEAN, pipe : BOOLEAN, served : BOOLEAN,
        tries : Nat, threads : Nat,
        at : {"none", "select", "audio", "gaveUp", "cancelled"},
        len : Lengths, sound : {"none", "peer", "garbled"}]

ReadyIn(q) == \E i \in 1 .. Len(q) : q[i] = "ready"

\* What the server sends to a client.
Sendable == Packets \ {"register"}

TypeInv ==
  /\ call \in [Ends -> End]
  /\ up \in [Ends -> Seq(Packets)]
  /\ down \in [Ends -> Seq(Sendable)]
  /\ setting \in Settings

\* A READY on its way, or arrived, comes from an end that has heard the other.
ReadyInv ==
  \A e \in Ends :
    /\ ReadyIn(up[e]) => call[e].pipe
    /\ ReadyIn(down[e]) => call[Peer(e)].pipe
    /\ call[e].ready => call[Peer(e)].pipe

\* Who starts to talk has heard and been heard.
Heard == \A e \in Ends : call[e].at = "audio" => call[e].pipe /\ call[Peer(e)].pipe

HeardInv == TypeInv /\ ReadyInv /\ Heard

-----------------------------------------------------------------------------
(* Ends and queues.                                                        *)

LEMMA PeerIsOther == \A e \in Ends : Peer(e) \in Ends /\ Peer(e) # e /\ Peer(Peer(e)) = e
  BY AudioCallAssumption DEF Peer, Ends

LEMMA ReadyAppended ==
  ASSUME NEW S, NEW q \in Seq(S), NEW p \in S
  PROVE  Append(q, p) \in Seq(S) /\ (ReadyIn(Append(q, p)) => ReadyIn(q) \/ p = "ready")
  BY DEF ReadyIn

LEMMA ReadyTail ==
  ASSUME NEW S, NEW q \in Seq(S), q # <<>>
  PROVE  /\ Tail(q) \in Seq(S) /\ Head(q) \in S
         /\ ReadyIn(Tail(q)) => ReadyIn(q)
         /\ Head(q) = "ready" => ReadyIn(q)
<1>1. Tail(q) \in Seq(S) /\ Head(q) \in S
  OBVIOUS
<1>2. ReadyIn(Tail(q)) => ReadyIn(q)
  <2> SUFFICES ASSUME NEW i \in 1 .. Len(Tail(q)), Tail(q)[i] = "ready" PROVE ReadyIn(q)
    BY DEF ReadyIn
  <2> i + 1 \in 1 .. Len(q) /\ q[i + 1] = "ready"
    OBVIOUS
  <2> QED BY DEF ReadyIn
<1>3. Head(q) = "ready" => ReadyIn(q)
  <2> 1 \in 1 .. Len(q) /\ q[1] = Head(q)
    OBVIOUS
  <2> QED BY DEF ReadyIn
<1> QED BY <1>1, <1>2, <1>3

LEMMA NoneReady == ~ReadyIn(<<>>)
  BY DEF ReadyIn

\* What a client sends: nothing new, or one more packet.
LEMMA Sent ==
  ASSUME TypeInv, NEW e \in Ends, NEW p \in Packets
  PROVE  /\ ToServer(e, p) \in [Ends -> Seq(Packets)]
         /\ \A x \in Ends : ReadyIn(ToServer(e, p)[x]) => ReadyIn(up[x]) \/ (x = e /\ p = "ready")
<1>1. Append(up[e], p) \in Seq(Packets) /\ (ReadyIn(Append(up[e], p)) => ReadyIn(up[e]) \/ p = "ready")
  BY ReadyAppended DEF TypeInv
<1>2. ToServer(e, p) = up \/ ToServer(e, p) = [up EXCEPT ![e] = Append(up[e], p)]
  BY DEF ToServer
<1> QED BY <1>1, <1>2 DEF TypeInv

-----------------------------------------------------------------------------
(* Steps of a call end.                                                    *)

\* What a step does to a call end keeps it heard, and it is ready only if it was,
\* or may be.
Grows(c, d, mayBeReady) ==
  /\ d \in End
  /\ c.pipe => d.pipe
  /\ d.ready => c.ready \/ mayBeReady
  /\ d.at = "audio" => c.at = "audio" \/ (d.pipe /\ c.ready)

LEMMA NewIsEnd == \A l \in Lengths : NewEnd(l) \in End
  BY DEF NewEnd, End, Lengths

LEMMA EndedIsEnd ==
  ASSUME NEW c \in End, NEW at \in {"audio", "gaveUp", "cancelled"}
  PROVE  /\ EndThread(c, at) \in End
         /\ EndThread(c, at).pipe = c.pipe /\ EndThread(c, at).ready = FALSE
         /\ EndThread(c, at).at = at
<1> DEFINE n == NewEnd("enough")
           w == IF at = "audio" THEN c.addr ELSE "none"
           d == [n EXCEPT !.node = c.node, !.entry = "freed", !.pipe = c.pipe,
                          !.threads = c.threads, !.at = at, !.sound = w]
<1>1. n \in End /\ n.ready = FALSE
  BY NewIsEnd DEF NewEnd, Lengths
<1>2. w \in {"none", "peer", "garbled"}
  BY DEF End
<1>3. EndThread(c, at) = d
  BY DEF EndThread
<1> HIDE DEF n, w
<1>4. d \in End /\ d.pipe = c.pipe /\ d.ready = FALSE /\ d.at = at
  BY <1>1, <1>2 DEF End
<1> QED BY <1>3, <1>4

LEMMA StartGrows ==
  ASSUME NEW c \in End
  PROVE  /\ StartThread(c) \in End /\ Grows(c, StartThread(c), FALSE)
         /\ StartThread(c).pipe = c.pipe /\ StartThread(c).ready = c.ready
         /\ StartThread(c).at = "select"
<1> DEFINE d == [c EXCEPT !.threads = c.threads + 1, !.at = "select"]
<1>1. StartThread(c) = d
  BY DEF StartThread
<1>2. c.threads + 1 \in Nat
  BY DEF End
<1>3. d \in End
  BY <1>2 DEF End
<1>4. d.pipe = c.pipe /\ d.ready = c.ready /\ d.at = "select"
  BY DEF End
<1> HIDE DEF d
<1> QED BY <1>1, <1>3, <1>4 DEF Grows

LEMMA HandlerGrows ==
  ASSUME NEW e \in Ends, NEW c \in End, NEW packet \in Sendable \ {"request"}
  PROVE  Grows(c, Handled(e, c, packet), packet = "ready")
<1>1. CASE packet = "ok"
  <2> DEFINE d == [c EXCEPT !.sent = TRUE]
             s == [StartThread(c) EXCEPT !.sent = TRUE]
  <2>1. Handled(e, c, packet) \in {c, d, s}
    BY <1>1 DEF Handled, OnOK
  <2>2. Grows(c, c, FALSE) /\ Grows(c, d, FALSE)
    BY DEF Grows, End
  <2>3. Grows(c, s, FALSE)
    <3> DEFINE t == StartThread(c)
    <3>1. t \in End /\ t.pipe = c.pipe /\ t.ready = c.ready /\ t.at = "select"
      BY StartGrows
    <3> HIDE DEF t
    <3>2. [t EXCEPT !.sent = TRUE] \in End
      BY <3>1 DEF End
    <3>3. /\ [t EXCEPT !.sent = TRUE].pipe = c.pipe /\ [t EXCEPT !.sent = TRUE].ready = c.ready
          /\ [t EXCEPT !.sent = TRUE].at = "select"
      BY <3>1 DEF End
    <3> QED BY <3>2, <3>3 DEF Grows, t
  <2> HIDE DEF d, s
  <2> QED BY <2>1, <2>2, <2>3 DEF Grows
<1>2. CASE packet = "accept"
  <2> DEFINE d == [c EXCEPT !.keySet = TRUE]
  <2>1. Handled(e, c, packet) \in {d, StartThread(d)}
    BY <1>2 DEF Handled, OnAccept
  <2>2. d \in End /\ Grows(c, d, FALSE)
    BY DEF Grows, End
  <2> HIDE DEF d
  <2> QED BY <2>1, <2>2, StartGrows DEF Grows
<1>3. CASE packet = "detected"
  <2> DEFINE d == [c EXCEPT !.addr = "peer"]
  <2>1. Handled(e, c, packet) \in {d, StartThread(d)}
    BY <1>3 DEF Handled, OnDetected
  <2>2. d \in End /\ Grows(c, d, FALSE)
    BY DEF Grows, End
  <2> HIDE DEF d
  <2> QED BY <2>1, <2>2, StartGrows DEF Grows
<1>4. CASE packet = "ready"
  BY <1>4 DEF Grows, Handled, OnReady, End
<1>5. CASE packet = "refuse"
  BY <1>5 DEF Grows, Handled, OnRefuse, End
<1>6. CASE packet = "failure"
  <2>1. EndThread(c, "cancelled") \in End /\ EndThread(c, "cancelled").pipe = c.pipe
        /\ EndThread(c, "cancelled").ready = FALSE /\ EndThread(c, "cancelled").at = "cancelled"
    BY EndedIsEnd
  <2> DEFINE d == EndThread(c, "cancelled")
  <2> HIDE DEF d
  <2>2. Handled(e, c, packet) = [d EXCEPT !.node = FALSE]
    BY <1>6 DEF Handled, OnFailure, d
  <2> QED BY <2>1, <2>2 DEF Grows, End, d
<1> QED BY <1>1, <1>2, <1>3, <1>4, <1>5, <1>6 DEF Packets, Sendable

\* A round of the thread with c in place of what the end was.
LEMMA RoundGrows ==
  ASSUME TypeInv, NEW e \in Ends, NEW c \in End, NEW inSocket,
         Round(e, c, inSocket), call[e].at = "select",
         call[e].pipe => c.pipe, c.ready = call[e].ready, c.at = "select"
  PROVE  \E d \in End : call' = [call EXCEPT ![e] = d] /\ Grows(call[e], d, FALSE)
                        /\ (c.pipe => d.pipe)
<1>1. CASE Connected(c)
  <2>1. call' = [call EXCEPT ![e] = EndThread(c, "audio")]
    BY <1>1 DEF Round
  <2>2. /\ EndThread(c, "audio") \in End
        /\ EndThread(c, "audio").pipe = c.pipe /\ EndThread(c, "audio").ready = FALSE
    BY EndedIsEnd
  <2>3. c.ready /\ c.pipe
    BY <1>1 DEF Connected
  <2> QED BY <2>1, <2>2, <2>3 DEF Grows
<1>2. CASE ~Connected(c)
  <2>1. call' = [call EXCEPT ![e] = c]
    BY <1>2 DEF Round
  <2> QED BY <2>1 DEF Grows, End
<1> QED BY <1>1, <1>2

-----------------------------------------------------------------------------
(* One lemma says what every step has to keep, the others that it does.    *)

LEMMA Told ==
  ASSUME NEW q \in [Ends -> Seq(Sendable)], NEW e \in Ends, NEW p \in Sendable
  PROVE  /\ ToClient(q, e, p) \in [Ends -> Seq(Sendable)]
         /\ \A x \in Ends : ReadyIn(ToClient(q, e, p)[x]) => ReadyIn(q[x]) \/ (x = e /\ p = "ready")
<1>1. Append(q[e], p) \in Seq(Sendable) /\ (ReadyIn(Append(q[e], p)) => ReadyIn(q[e]) \/ p = "ready")
  BY ReadyAppended
<1>2. ToClient(q, e, p) = [q EXCEPT ![e] = Append(q[e], p)]
  BY DEF ToClient
<1> QED BY <1>1, <1>2

LEMMA Taken ==
  ASSUME NEW S, NEW q \in [Ends -> Seq(S)], NEW e \in Ends, q[e] # <<>>
  PROVE  /\ Received(q, e) \in [Ends -> Seq(S)]
         /\ \A x \in Ends : ReadyIn(Received(q, e)[x]) => ReadyIn(q[x])
<1>1. Tail(q[e]) \in Seq(S) /\ (ReadyIn(Tail(q[e])) => ReadyIn(q[e]))
  BY ReadyTail
<1>2. Received(q, e) = [q EXCEPT ![e] = Tail(q[e])]
  BY DEF Received
<1> QED BY <1>1, <1>2

\* A step keeps what has been heard, makes nobody ready without a READY, and puts
\* READY into a queue only where it has come from, or of an end that has heard.
Kept ==
  /\ call' \in [Ends -> End]
  /\ \A x \in Ends : Grows(call[x], call'[x], ReadyIn(down[x]))
  /\ up' \in [Ends -> Seq(Packets)]
  /\ \A x \in Ends : ReadyIn(up'[x]) => ReadyIn(up[x]) \/ call'[x].pipe
  /\ down' \in [Ends -> Seq(Sendable)]
  /\ \A x \in Ends : ReadyIn(down'[x]) => ReadyIn(down[x]) \/ ReadyIn(up[Peer(x)])
  /\ setting' \in Settings

LEMMA KeptSuffices ==
  ASSUME HeardInv, Kept
  PROVE  HeardInv'
<1>1. TypeInv'
  BY DEF Kept, TypeInv
<1>2. \A x \in Ends : (call[x].pipe => call'[x].pipe) /\ (call[Peer(x)].pipe => call'[Peer(x)].pipe)
  BY PeerIsOther DEF Kept, Grows
<1>3. ReadyInv'
  <2> SUFFICES ASSUME NEW x \in Ends
               PROVE  /\ ReadyIn(up'[x]) => call'[x].pipe
                      /\ ReadyIn(down'[x]) => call'[Peer(x)].pipe
                      /\ call'[x].ready => call'[Peer(x)].pipe
    BY Zenon DEF ReadyInv, ReadyIn, Peer
  <2>1. Peer(x) \in Ends
    BY PeerIsOther
  <2>2. ReadyIn(up'[x]) => call'[x].pipe
    BY <1>2 DEF Kept, HeardInv, ReadyInv
  <2>3. ReadyIn(down'[x]) => call'[Peer(x)].pipe
    BY <1>2, <2>1 DEF Kept, HeardInv, ReadyInv
  <2>4. call'[x].ready => call'[Peer(x)].pipe
    BY <1>2 DEF Kept, Grows, HeardInv, ReadyInv
  <2> QED BY <2>2, <2>3, <2>4
<1>4. Heard'
  <2> SUFFICES ASSUME NEW x \in Ends, call'[x].at = "audio"
               PROVE  call'[x].pipe /\ call'[Peer(x)].pipe
    BY Zenon DEF Heard, Peer
  <2>1. CASE call[x].at = "audio"
    BY <1>2, <2>1 DEF HeardInv, Heard
  <2>2. CASE call'[x].pipe /\ call[x].ready
    BY <1>2, <2>2 DEF HeardInv, ReadyInv
  <2> QED BY <2>1, <2>2 DEF Kept, Grows
<1> QED BY <1>1, <1>3, <1>4 DEF HeardInv

LEMMA GrowsItself == \A c \in End, b \in BOOLEAN : Grows(c, c, b)
  BY DEF Grows

\* An end changes, and the other stays as it is.
LEMMA OneEnd ==
  ASSUME TypeInv, NEW e \in Ends, NEW d \in End, call' = [call EXCEPT ![e] = d],
         Grows(call[e], d, ReadyIn(down[e]))
  PROVE  /\ call' \in [Ends -> End] /\ call'[e] = d
         /\ \A x \in Ends : Grows(call[x], call'[x], ReadyIn(down[x]))
  BY GrowsItself DEF TypeInv, ReadyIn, Grows

\* No end changes.
LEMMA NoEnd ==
  ASSUME TypeInv, UNCHANGED call
  PROVE  /\ call' \in [Ends -> End]
         /\ \A x \in Ends : Grows(call[x], call'[x], ReadyIn(down[x]))
  BY DEF TypeInv, Grows

-----------------------------------------------------------------------------
(* The users and the clients' receiving threads.                           *)

LEMMA RequestStep == TypeInv /\ AudioRequestNATDiscover => Kept
<1> SUFFICES ASSUME TypeInv, AudioRequestNATDiscover PROVE Kept
  OBVIOUS
<1> DEFINE d == [call[Caller] EXCEPT !.node = TRUE, !.entry = "live"]
<1>1. Caller \in Ends /\ "register" \in Packets
  BY DEF Ends, Packets
<1>2. call' = [call EXCEPT ![Caller] = d]
  BY <1>1 DEF AudioRequestNATDiscover, TypeInv
<1>3. call[Caller] \in End
  BY <1>1 DEF TypeInv
<1>4. d \in End /\ Grows(call[Caller], d, ReadyIn(down[Caller]))
  BY <1>3 DEF Grows, End
<1>5. up' = ToServer(Caller, "register") /\ UNCHANGED <<down, setting>>
  BY DEF AudioRequestNATDiscover
<1> HIDE DEF d
<1>6. call' \in [Ends -> End] /\ \A x \in Ends : Grows(call[x], call'[x], ReadyIn(down[x]))
  BY <1>1, <1>2, <1>4, OneEnd
<1> QED BY <1>1, <1>5, <1>6, Sent DEF Kept, TypeInv

LEMMA AcceptStep == TypeInv /\ AudioAcceptNatDiscover => Kept
<1> SUFFICES ASSUME TypeInv, AudioAcceptNatDiscover PROVE Kept
  OBVIOUS
<1> DEFINE d == [call[Callee] EXCEPT !.node = TRUE, !.entry = "live", !.keySet = TRUE]
<1>1. Callee \in Ends /\ "register" \in Packets
  BY DEF Ends, Packets
<1>2. call' = [call EXCEPT ![Callee] = d]
  BY <1>1 DEF AudioAcceptNatDiscover, TypeInv
<1>3. call[Callee] \in End
  BY <1>1 DEF TypeInv
<1>4. d \in End /\ Grows(call[Callee], d, ReadyIn(down[Callee]))
  BY <1>3 DEF Grows, End
<1>5. up' = ToServer(Callee, "register") /\ UNCHANGED <<down, setting>>
  BY DEF AudioAcceptNatDiscover
<1> HIDE DEF d
<1>6. call' \in [Ends -> End] /\ \A x \in Ends : Grows(call[x], call'[x], ReadyIn(down[x]))
  BY <1>1, <1>2, <1>4, OneEnd
<1> QED BY <1>1, <1>5, <1>6, Sent DEF Kept, TypeInv

LEMMA RefuseStep == TypeInv /\ Refuse => Kept
<1> SUFFICES ASSUME TypeInv, Refuse PROVE Kept
  OBVIOUS
<1>1. Callee \in Ends /\ "refuse" \in Packets
  BY DEF Ends, Packets
<1>2. up' = ToServer(Callee, "refuse") /\ UNCHANGED <<call, down, setting>>
  BY DEF Refuse
<1> QED BY <1>1, <1>2, Sent, NoEnd DEF Kept, TypeInv

LEMMA ReceiveCallStep ==
  ASSUME TypeInv, NEW e \in Ends, ReceiveCall(e)
  PROVE  Kept
<1> DEFINE packet == Head(down[e])
           d == Handled(e, call[e], packet)
<1>1. down[e] # <<>> /\ down[e] \in Seq(Sendable) /\ call[e] \in End
  BY DEF ReceiveCall, TypeInv
<1>2. down' = Received(down, e) /\ UNCHANGED setting
  BY DEF ReceiveCall
<1>3. /\ down' \in [Ends -> Seq(Sendable)]
      /\ \A x \in Ends : ReadyIn(down'[x]) => ReadyIn(down[x])
  BY <1>1, <1>2, Taken DEF TypeInv
<1>4. CASE UNCHANGED <<call, up>>
  BY <1>2, <1>3, <1>4, NoEnd DEF Kept, TypeInv
<1>5. CASE call' = [call EXCEPT ![e] = d] /\ up' = Answered(e, call[e], packet)
  <2>1. packet \in Sendable \ {"request"} /\ (packet = "ready" => ReadyIn(down[e]))
    BY <1>1, ReadyTail DEF ReceiveCall
  <2>2. Grows(call[e], d, packet = "ready")
    BY <1>1, <2>1, HandlerGrows
  <2>3. d \in End /\ Grows(call[e], d, ReadyIn(down[e]))
    BY <2>1, <2>2 DEF Grows
  <2> HIDE DEF d
  <2>4. call' \in [Ends -> End] /\ \A x \in Ends : Grows(call[x], call'[x], ReadyIn(down[x]))
    BY <1>5, <2>3, OneEnd
  <2>5. /\ up' \in [Ends -> Seq(Packets)]
        /\ \A x \in Ends : ReadyIn(up'[x]) => ReadyIn(up[x])
    <3>1. "request" \in Packets /\ "accept" \in Packets
      BY DEF Packets
    <3>2. up' = up \/ up' = ToServer(e, "request") \/ up' = ToServer(e, "accept")
      BY <1>5 DEF Answered
    <3> QED BY <3>1, <3>2, Sent DEF TypeInv
  <2> QED BY <1>2, <1>3, <2>4, <2>5 DEF Kept, TypeInv
<1> QED BY <1>4, <1>5 DEF ReceiveCall

LEMMA ReceiveRequestStep ==
  ASSUME TypeInv, NEW e \in Ends, ReceiveRequest(e)
  PROVE  Kept
<1>1. down[e] # <<>> /\ down' = Received(down, e) /\ UNCHANGED <<call, up, setting>>
  BY DEF ReceiveRequest
<1> QED BY <1>1, Taken, NoEnd DEF Kept, TypeInv

-----------------------------------------------------------------------------
(* The thread that exchanges datagrams.                                    *)

\* A round with nothing new, or with the other heard.
LEMMA RoundKept ==
  ASSUME TypeInv, NEW e \in Ends, NEW c \in End, NEW inSocket,
         Round(e, c, inSocket), call[e].at = "select",
         call[e].pipe => c.pipe, c.ready = call[e].ready, c.at = "select",
         up' = up \/ (c.pipe /\ up' = ToServer(e, "ready")), UNCHANGED <<down, setting>>
  PROVE  Kept
<1>1. PICK d \in End : call' = [call EXCEPT ![e] = d] /\ Grows(call[e], d, FALSE) /\ (c.pipe => d.pipe)
  BY RoundGrows
<1>2. Grows(call[e], d, ReadyIn(down[e]))
  BY <1>1 DEF Grows
<1>3. /\ call' \in [Ends -> End] /\ call'[e] = d
      /\ \A x \in Ends : Grows(call[x], call'[x], ReadyIn(down[x]))
  BY <1>1, <1>2, OneEnd
<1>4. "ready" \in Packets
  BY DEF Packets
<1>5. up' \in [Ends -> Seq(Packets)] /\ \A x \in Ends : ReadyIn(up'[x]) => ReadyIn(up[x]) \/ call'[x].pipe
  BY <1>1, <1>3, <1>4, Sent, SMTT(60) DEF TypeInv
<1> QED BY <1>3, <1>5 DEF Kept, TypeInv

LEMMA ThreadStep ==
  ASSUME TypeInv, NEW e \in Ends, Thread(e)
  PROVE  Kept
<1> DEFINE c == call[e]
<1>1. c \in End
  BY DEF TypeInv
<1>2. CASE ThreadRecvFails(e)
  BY <1>1, <1>2, RoundKept DEF ThreadRecvFails, Selects
<1>3. CASE ThreadHearsServer(e)
  <2> DEFINE d == [c EXCEPT !.served = TRUE, !.len = "enough"]
  <2>1. d \in End /\ d.pipe = c.pipe /\ d.ready = c.ready /\ d.at = c.at
    BY <1>1 DEF End, Lengths
  <2>2. Round(e, d, dgram) /\ c.at = "select" /\ UNCHANGED <<up, down, setting>>
    BY <1>3 DEF ThreadHearsServer, Selects
  <2> HIDE DEF d
  <2> QED BY <2>1, <2>2, RoundKept
<1>4. CASE ThreadHearsPeer(e)
  <2> DEFINE d == [c EXCEPT !.pipe = TRUE, !.len = "enough",
                            !.addr = IF c.len = "enough" THEN "peer" ELSE "garbled"]
  <2>1. d \in End /\ d.pipe /\ d.ready = c.ready /\ d.at = c.at
    BY <1>1 DEF End, Lengths
  <2>2. Round(e, d, dgram \ {e}) /\ c.at = "select" /\ up' = ToServer(e, "ready") /\ UNCHANGED <<down, setting>>
    BY <1>4 DEF ThreadHearsPeer, Selects
  <2> HIDE DEF d
  <2> QED BY <2>1, <2>2, RoundKept
<1>5. CASE ThreadTimeout(e)
  <2> DEFINE d == Silence(c)
  <2>1. c.at = "select" /\ UNCHANGED <<up, down, setting>>
    BY <1>5 DEF ThreadTimeout, Selects
  <2>2. CASE d.at = "gaveUp"
    <3>1. call' = [call EXCEPT ![e] = d]
      BY <1>5, <2>2 DEF ThreadTimeout
    <3>2. CASE d = EndThread(c, "gaveUp")
      <4>1. d \in End /\ d.pipe = c.pipe /\ d.ready = FALSE
        <5> DEFINE g == EndThread(c, "gaveUp")
        <5>1. g \in End /\ g.pipe = c.pipe /\ g.ready = FALSE
          BY <1>1, EndedIsEnd
        <5>2. d = g
          BY <3>2
        <5> HIDE DEF d, g
        <5> QED BY <5>1, <5>2
      <4>2. Grows(c, d, ReadyIn(down[e]))
        BY <2>2, <4>1 DEF Grows
      <4> HIDE DEF d
      <4>3. call' \in [Ends -> End] /\ \A x \in Ends : Grows(call[x], call'[x], ReadyIn(down[x]))
        BY <3>1, <4>1, <4>2, OneEnd
      <4> QED BY <2>1, <4>3 DEF Kept, TypeInv
    <3>3. CASE d = [c EXCEPT !.tries = @ + 1]
      BY <1>1, <2>1, <2>2, <3>3 DEF End
    <3> QED BY <3>2, <3>3 DEF Silence
  <2>3. CASE d.at # "gaveUp"
    <3>1. d = [c EXCEPT !.tries = @ + 1]
      <4>1. EndThread(c, "gaveUp").at = "gaveUp"
        BY <1>1, EndedIsEnd
      <4> QED BY <2>3, <4>1 DEF Silence
    <3>2. c.tries + 1 \in Nat
      BY <1>1 DEF End
    <3>3. d \in End /\ d.pipe = c.pipe /\ d.ready = c.ready /\ d.at = c.at
      BY <1>1, <3>1, <3>2 DEF End
    <3>4. Round(e, d, dgram)
      BY <1>5, <2>3 DEF ThreadTimeout
    <3> HIDE DEF d
    <3> QED BY <2>1, <3>3, <3>4, RoundKept
  <2> QED BY <2>2, <2>3
<1> QED BY <1>2, <1>3, <1>4, <1>5 DEF Thread

-----------------------------------------------------------------------------
(* The server.                                                             *)

LEMMA WorkerStep ==
  ASSUME TypeInv, NEW e \in Ends, Worker(e) \/ OnlineUserTableRemove(e)
  PROVE  Kept
<1>1. CASE NatHostDiscoverRegister(e)
  <2>1. up[e] # <<>> /\ up' = Received(up, e) /\ UNCHANGED <<call, down, setting>>
    BY <1>1 DEF NatHostDiscoverRegister, Next1, clientVars
  <2> QED BY <2>1, Taken, NoEnd DEF Kept, TypeInv
<1>2. CASE RegisterDone(e)
  <2>1. down' = ToClient(down, e, "ok") /\ UNCHANGED <<call, up, setting>> /\ "ok" \in Sendable
    BY <1>2 DEF RegisterDone, clientVars, Packets, Sendable
  <2>2. /\ down' \in [Ends -> Seq(Sendable)]
        /\ \A x \in Ends : ReadyIn(down'[x]) => ReadyIn(down[x])
    BY <2>1, Told DEF TypeInv
  <2> QED BY <2>1, <2>2, NoEnd DEF Kept, TypeInv
<1>3. CASE ProcessPacketNETNAT(e)
  <2> DEFINE p == Head(up[e])
  <2>1. up[e] # <<>> /\ p \in {"request", "accept", "refuse", "ready"} /\ UNCHANGED <<call, setting>>
    BY <1>3 DEF ProcessPacketNETNAT, Next1, clientVars
  <2>2. p \in Sendable /\ "ok" \in Sendable /\ "failure" \in Sendable /\ Peer(e) \in Ends
    BY <2>1, PeerIsOther DEF Packets, Sendable
  <2>3. p = "ready" => ReadyIn(up[e])
    BY <2>1, ReadyTail DEF TypeInv
  <2>4. up' = Received(up, e)
    BY <1>3 DEF ProcessPacketNETNAT
  <2>5. /\ up' \in [Ends -> Seq(Packets)]
        /\ \A x \in Ends : ReadyIn(up'[x]) => ReadyIn(up[x])
    BY <2>1, <2>4, Taken DEF TypeInv
  <2>6. /\ down' \in [Ends -> Seq(Sendable)]
        /\ \A x \in Ends : ReadyIn(down'[x]) => ReadyIn(down[x]) \/ ReadyIn(up[Peer(x)])
    <3> DEFINE relayed == ToClient(down, Peer(e), p)
    <3>1. /\ relayed \in [Ends -> Seq(Sendable)]
          /\ \A x \in Ends : ReadyIn(relayed[x]) => ReadyIn(down[x]) \/ (x = Peer(e) /\ p = "ready")
      BY <2>2, Told DEF TypeInv
    <3> HIDE DEF p, relayed
    <3>2. CASE down' = ToClient(relayed, e, "ok")
      <4>1. /\ down' \in [Ends -> Seq(Sendable)]
            /\ \A x \in Ends : ReadyIn(down'[x]) => ReadyIn(relayed[x])
        BY <2>2, <3>1, <3>2, Told, ZenonT(60)
      <4> QED BY <2>3, <3>1, <4>1, PeerIsOther
    <3>3. CASE down' = ToClient(down, e, "failure")
      BY <2>2, <3>3, Told, ZenonT(60) DEF TypeInv
    <3> QED BY <1>3, <3>2, <3>3 DEF ProcessPacketNETNAT, relayed, p
  <2> QED BY <2>1, <2>5, <2>6, NoEnd DEF Kept, TypeInv
<1>4. CASE UserOperationRemoveAll(e)
  BY <1>4, NoEnd DEF UserOperationRemoveAll, clientVars, Kept, TypeInv
<1>5. CASE OnlineUserTableRemove(e)
  <2>1. up' = [up EXCEPT ![e] = <<>>] /\ UNCHANGED <<call, down, setting>>
    BY <1>5 DEF OnlineUserTableRemove, clientVars
  <2>2. <<>> \in Seq(Packets)
    OBVIOUS
  <2>3. up' \in [Ends -> Seq(Packets)] /\ \A x \in Ends : ReadyIn(up'[x]) => ReadyIn(up[x])
    BY <2>1, <2>2, NoneReady DEF TypeInv
  <2> QED BY <2>1, <2>3, NoEnd DEF Kept, TypeInv
<1> QED BY <1>1, <1>2, <1>3, <1>4, <1>5 DEF Worker

LEMMA ListenerStep ==
  ASSUME TypeInv, NEW e \in Ends, Listener(e)
  PROVE  Kept
<1>1. CASE NatHostDiscoverFind(e) \/ NatHostDiscoverUnregister(e)
  BY <1>1, NoEnd DEF NatHostDiscoverFind, NatHostDiscoverUnregister, clientVars, Kept, TypeInv
<1>2. CASE DiscoverDetected(e)
  <2>1. UNCHANGED <<call, up, setting>> /\ down' \in {down, ToClient(down, e, "detected")}
    BY <1>2 DEF DiscoverDetected, clientVars
  <2>2. "detected" \in Sendable
    BY DEF Packets, Sendable
  <2>3. /\ down' \in [Ends -> Seq(Sendable)]
        /\ \A x \in Ends : ReadyIn(down'[x]) => ReadyIn(down[x])
    <3>1. CASE down' = down
      BY <3>1 DEF TypeInv
    <3>2. CASE down' = ToClient(down, e, "detected")
      <4>1. down \in [Ends -> Seq(Sendable)]
        BY DEF TypeInv
      <4> QED BY <2>2, <3>2, <4>1, Told, ZenonT(60)
    <3> QED BY <2>1, <3>1, <3>2
  <2> QED BY <2>1, <2>3, NoEnd DEF Kept, TypeInv
<1> QED BY <1>1, <1>2 DEF Listener

-----------------------------------------------------------------------------

LEMMA InitHeard == Init => HeardInv
<1> SUFFICES ASSUME Init PROVE HeardInv
  OBVIOUS
<1>1. \A e \in Ends : setting.lengths[e] \in Lengths
  BY AudioCallAssumption DEF Init, Ends
<1>2. \A l \in Lengths : NewEnd(l) \in End /\ NewEnd(l).at = "none" /\ NewEnd(l).ready = FALSE
  BY NewIsEnd DEF NewEnd
<1>3. TypeInv
  BY <1>1, <1>2 DEF Init, TypeInv
<1>4. \A e \in Ends : call[e].at = "none" /\ ~call[e].ready /\ up[e] = <<>> /\ down[e] = <<>>
  BY <1>1, <1>2 DEF Init
<1> QED BY <1>3, <1>4, NoneReady DEF HeardInv, ReadyInv, Heard

LEMMA NextHeard == HeardInv /\ [Next]_vars => HeardInv'
<1> SUFFICES ASSUME HeardInv, [Next]_vars PROVE HeardInv'
  OBVIOUS
<1>0. TypeInv
  BY DEF HeardInv
<1>1. CASE AudioRequestNATDiscover \/ AudioAcceptNatDiscover \/ Refuse
  BY <1>0, <1>1, RequestStep, AcceptStep, RefuseStep, KeptSuffices
<1>2. ASSUME NEW e \in Ends, Receive(e) PROVE HeardInv'
  BY <1>0, <1>2, ReceiveCallStep, ReceiveRequestStep, KeptSuffices DEF Receive
<1>3. ASSUME NEW e \in Ends, Thread(e) PROVE HeardInv'
  BY <1>0, <1>3, ThreadStep, KeptSuffices
<1>4. ASSUME NEW e \in Ends, Worker(e) \/ OnlineUserTableRemove(e) PROVE HeardInv'
  BY <1>0, <1>4, WorkerStep, KeptSuffices
<1>5. ASSUME NEW e \in Ends, Listener(e) PROVE HeardInv'
  BY <1>0, <1>5, ListenerStep, KeptSuffices
<1>6. CASE UNCHANGED vars
  <2>1. Kept
    BY <1>0, <1>6, NoEnd DEF vars, clientVars, Kept, TypeInv
  <2> QED BY <2>1, KeptSuffices
<1> QED BY <1>1, <1>2, <1>3, <1>4, <1>5, <1>6 DEF Next

-----------------------------------------------------------------------------
(* How a call comes about, step by step: who registers, asks, accepts and   *)
(* starts a thread does so once.                                            *)

Has(q, p) == \E i \in 1 .. Len(q) : q[i] = p
Once(q, p) == \A i, j \in 1 .. Len(q) : q[i] = p /\ q[j] = p => i = j

\* An end that has not told its key to the other: it tells it at the first OK.
Unsent(c) == c.entry = "none" \/ (c.entry = "live" /\ ~c.sent)

\* The thread of a call end and what the end knows: the caller's thread starts when key
\* and address of the other are there, the callee's when it has told its own key.
Fits(e, c) ==
  /\ c.entry = "none" => /\ c.at = "none" /\ c.threads = 0 /\ ~c.node /\ ~c.ready
                         /\ ~c.sent /\ ~c.keySet /\ c.addr = "none"
  /\ c.entry = "live" => /\ (c.at = "none" /\ c.threads = 0) \/ (c.at = "select" /\ c.threads = 1)
                         /\ c.at = "select" <=> IF e = Caller THEN c.keySet /\ c.addr # "none" ELSE c.sent
  /\ c.entry = "freed" => /\ c.at \in {"audio", "gaveUp", "cancelled"} /\ c.threads <= 1
                          /\ ~c.keySet /\ c.addr = "none"
                          /\ c.node => c.at = "gaveUp"
  /\ c.ready => ~c.node

ThreadsFit == \A e \in Ends : Fits(e, call[e])

ServerTypeInv ==
  /\ asked \in BOOLEAN
  /\ probe \subseteq Ends /\ echo \subseteq Ends /\ dgram \subseteq Ends
  /\ session \in [Ends -> {"on", "closing", "off"}]
  /\ op \in [Ends -> {"none", "fresh", "armed", "gone"}]
  /\ table \subseteq Ends
  /\ worker \in Ends \union {None}
  /\ listener \in {Idle} \union ({"found", "told"} \X Ends)
  /\ undefined \in BOOLEAN

\* A registration is the first thing an end sends, and nothing comes to it before the answer.
Registers(c, u, d, o, s, w) ==
  \A e \in Ends :
    /\ w = e /\ s[e] = "on" <=> o[e] = "fresh"
    /\ Has(u[e], "register") => u[e] = <<"register">> /\ o[e] = "none"
    /\ Has(u[e], "register") \/ o[e] = "fresh" => /\ c[e].entry = "live" /\ ~c[e].sent
                                                  /\ d[e] = <<>>
    /\ c[e].entry = "none" => o[e] = "none" /\ ~Has(u[e], "register")

\* Until the caller has told its key, nothing has happened at the callee.
BeforeRequest(c, a, u, d) ==
  Unsent(c[Caller]) =>
    /\ c[Callee].entry = "none" /\ u[Callee] = <<>> /\ d[Callee] = <<>> /\ ~a
    /\ u[Caller] \in {<<>>, <<"register">>} /\ d[Caller] \in {<<>>, <<"ok">>}
    /\ c[Caller].entry = "none" => u[Caller] = <<>> /\ d[Caller] = <<>>

\* Until the callee has told its key, nobody looks for the other.
BeforeAccept(c, u, d, pr, l) ==
  Unsent(c[Callee]) =>
    /\ pr = {} /\ l = Idle
    /\ c[Caller].entry # "freed" /\ ~c[Caller].keySet /\ c[Caller].addr = "none"
    /\ u[Caller] \in {<<>>, <<"register">>, <<"request">>}
    /\ u[Callee] \in {<<>>, <<"register">>, <<"refuse">>}
    /\ \A p \in {"request", "accept", "detected", "ready"} : ~Has(d[Caller], p)
    /\ \A p \in {"accept", "refuse", "detected", "ready"} : ~Has(d[Callee], p)
    /\ c[Callee].entry = "live" => u[Callee] # <<"refuse">> /\ d[Callee] \in {<<>>, <<"ok">>}

\* The request is in one place, and it is there once.
OneRequest(c, a, u, d) ==
  /\ u[Caller] = <<"request">> => /\ c[Callee].entry = "none" /\ ~a
                                  /\ u[Callee] = <<>> /\ d[Callee] = <<>>
  /\ Has(d[Callee], "request") => /\ c[Callee].entry = "none" /\ ~a
                                  /\ u[Callee] = <<>> /\ d[Callee] = <<"request">>
                                  /\ u[Caller] # <<"request">>
  /\ a => /\ c[Callee].entry = "none" /\ u[Caller] # <<"request">>
          /\ u[Callee] = <<>> /\ d[Callee] = <<>>

\* After the callee has told its key nobody registers or asks any more.
AfterAccept(c, a, u, d) ==
  ~Unsent(c[Callee]) => /\ ~a
                        /\ \A e \in Ends : ~Has(u[e], "request") /\ ~Has(d[e], "request")

\* The caller gets the callee's key once, and the address of the callee once.
OneAnswer(c, u, d, o) ==
  /\ ~Has(u[Caller], "accept") /\ ~Has(d[Callee], "accept")
  /\ Has(u[Callee], "accept") => /\ Once(u[Callee], "accept") /\ ~Has(d[Caller], "accept")
                                 /\ ~c[Caller].keySet
  /\ Has(d[Caller], "accept") => Once(d[Caller], "accept") /\ ~c[Caller].keySet
  /\ Has(d[Caller], "detected") => /\ o[Caller] = "gone" /\ c[Caller].addr = "none"
                                   /\ Once(d[Caller], "detected")
  /\ c[Caller].addr # "none" => o[Caller] = "gone"

\* A key in the table has an owner.
OwnersThere(s, o, t, l) ==
  \A e \in t : (o[e] \in {"fresh", "armed"} /\ s[e] # "off") \/ l = <<"told", e>>

\* Both ends, the worker and the listener agree how far the call has come.
Agree(c, a, u, d, pr, s, o, t, w, l) ==
  /\ Registers(c, u, d, o, s, w) /\ BeforeRequest(c, a, u, d) /\ BeforeAccept(c, u, d, pr, l)
  /\ OneRequest(c, a, u, d) /\ AfterAccept(c, a, u, d) /\ OneAnswer(c, u, d, o) /\ OwnersThere(s, o, t, l)

CallInv ==
  /\ TypeInv /\ ServerTypeInv /\ ThreadsFit
  /\ Agree(call, asked, up, down, probe, session, op, table, worker, listener)

AgreeNext == Agree(call', asked', up', down', probe', session', op', table', worker', listener')

\* AgreeNext is Agree after the step.
LEMMA NextAgrees == AgreeNext => Agree(call, asked, up, down, probe, session, op, table, worker, listener)'
  BY Zenon DEF AgreeNext, Agree, Registers, BeforeRequest, BeforeAccept, OneRequest, AfterAccept, OneAnswer,
               OwnersThere, Has, Once, Unsent

\* What one more packet makes of a queue.
LEMMA PacketAppended ==
  ASSUME NEW S, NEW q \in Seq(S), NEW p \in S
  PROVE  /\ \A x : Has(Append(q, p), x) <=> Has(q, x) \/ x = p
         /\ \A x : Once(q, x) /\ (x = p => ~Has(q, x)) => Once(Append(q, p), x)
<1> DEFINE r == Append(q, p)
<1>1. /\ Len(q) \in Nat /\ Len(r) = Len(q) + 1 /\ r[Len(q) + 1] = p
      /\ \A i \in 1 .. Len(q) : r[i] = q[i]
  OBVIOUS
<1> HIDE DEF r
<1>2. /\ \A i \in 1 .. Len(r) : i \in 1 .. Len(q) \/ i = Len(q) + 1
      /\ \A i \in 1 .. Len(q) : i \in 1 .. Len(r)
      /\ Len(q) + 1 \in 1 .. Len(r)
  BY <1>1
<1>3. \A x : Has(r, x) <=> Has(q, x) \/ x = p
  BY <1>1, <1>2 DEF Has
<1>4. ASSUME NEW x, Once(q, x), x = p => ~Has(q, x) PROVE Once(r, x)
  <2> SUFFICES ASSUME NEW i \in 1 .. Len(r), NEW j \in 1 .. Len(r), r[i] = x, r[j] = x PROVE i = j
    BY DEF Once
  <2>1. CASE i \in 1 .. Len(q) /\ j \in 1 .. Len(q)
    BY <1>1, <1>4, <2>1 DEF Once
  <2>2. CASE x = p
    BY <1>1, <1>2, <1>4, <2>2 DEF Has
  <2> QED BY <1>1, <1>2, <2>1, <2>2
<1> QED BY <1>3, <1>4 DEF r

\* What is left of it without the first.
LEMMA PacketTaken ==
  ASSUME NEW S, NEW q \in Seq(S), q # <<>>
  PROVE  /\ Has(q, Head(q))
         /\ \A x : Has(Tail(q), x) => Has(q, x)
         /\ \A x : Once(q, x) => Once(Tail(q), x) /\ (Head(q) = x => ~Has(Tail(q), x))
<1> DEFINE r == Tail(q)
           h == Head(q)
<1>1. /\ Len(q) \in Nat \ {0} /\ Len(r) = Len(q) - 1 /\ q[1] = h
      /\ \A i \in 1 .. Len(r) : r[i] = q[i + 1]
  OBVIOUS
<1> HIDE DEF r, h
<1>2. /\ \A i \in 1 .. Len(r) : i + 1 \in 1 .. Len(q) /\ i + 1 # 1
      /\ 1 \in 1 .. Len(q)
  BY <1>1
<1>3. Has(q, h) /\ \A x : Has(r, x) => Has(q, x)
  BY <1>1, <1>2 DEF Has
<1>4. ASSUME NEW x, Once(q, x) PROVE Once(r, x) /\ (h = x => ~Has(r, x))
  <2>1. ASSUME NEW i \in 1 .. Len(r), NEW j \in 1 .. Len(r), r[i] = x, r[j] = x PROVE i = j
    <3>1. i + 1 = j + 1
      BY <1>1, <1>2, <1>4, <2>1 DEF Once
    <3> QED BY <3>1
  <2>2. ASSUME NEW i \in 1 .. Len(r), r[i] = x, h = x PROVE FALSE
    BY <1>1, <1>2, <1>4, <2>2 DEF Once
  <2> QED BY <2>1, <2>2 DEF Once, Has
<1> QED BY <1>3, <1>4 DEF r, h

\* A queue of one packet, and an empty one.
LEMMA OnePacket ==
  /\ \A p, x : Has(<<p>>, x) <=> x = p
  /\ \A x : ~Has(<<>>, x) /\ Once(<<>>, x)
  /\ \A p : Head(<<p>>) = p /\ Tail(<<p>>) = <<>> /\ Append(<<>>, p) = <<p>> /\ <<p>> # <<>>
<1>1. \A p, x : Has(<<p>>, x) <=> x = p
  BY DEF Has
<1>2. \A x : ~Has(<<>>, x) /\ Once(<<>>, x)
  BY DEF Has, Once
<1>3. \A p : Head(<<p>>) = p /\ Tail(<<p>>) = <<>> /\ Append(<<>>, p) = <<p>> /\ <<p>> # <<>>
  OBVIOUS
<1> QED BY <1>1, <1>2, <1>3

\* The two ends.
LEMMA TwoEnds ==
  /\ Ends = {Caller, Callee} /\ Caller # Callee /\ None \notin Ends
  /\ Peer(Caller) = Callee /\ Peer(Callee) = Caller
<1>1. Ends = {Caller, Callee} /\ Caller # Callee /\ None \notin Ends
  BY AudioCallAssumption DEF Ends
<1>2. Peer(Caller) \in Ends /\ Peer(Caller) # Caller /\ Peer(Callee) \in Ends /\ Peer(Callee) # Callee
  BY <1>1, PeerIsOther
<1> QED BY <1>1, <1>2

\* A packet to the server.
LEMMA ToServerDoes ==
  ASSUME TypeInv, NEW e \in Ends, NEW p \in Packets, NEW q, q = ToServer(e, p)
  PROVE  /\ \A x \in Ends : x # e => q[x] = up[x]
         /\ q[e] = up[e] \/ q[e] = Append(up[e], p)
BY DEF ToServer, TypeInv

-----------------------------------------------------------------------------
(* Handlers and thread.                                                    *)

\* The packets with which an end's thread starts.
Starts(e, c, p) ==
  \/ p = "ok" /\ ~c.sent /\ e # Caller
  \/ p = "accept" /\ c.addr # "none"
  \/ p = "detected" /\ e = Caller /\ c.keySet

\* What a handler of the receiving thread makes of an end.
LEMMA Handles ==
  ASSUME NEW e \in Ends, NEW c \in End, NEW p \in Sendable \ {"request"}, p # "failure"
  PROVE  /\ Handled(e, c, p).entry = c.entry
         /\ Handled(e, c, p).sent <=> (c.sent \/ p = "ok")
         /\ Handled(e, c, p).keySet <=> (c.keySet \/ p = "accept")
         /\ Handled(e, c, p).addr = IF p = "detected" THEN "peer" ELSE c.addr
         /\ Handled(e, c, p).node <=> (c.node /\ p \notin {"ready", "refuse"})
         /\ Handled(e, c, p).ready <=> (c.ready \/ p = "ready")
         /\ Handled(e, c, p).threads = IF Starts(e, c, p) THEN c.threads + 1 ELSE c.threads
         /\ Handled(e, c, p).at = IF Starts(e, c, p) THEN "select" ELSE c.at
<1> USE DEF End
<1>1. CASE p = "ok"
  BY <1>1 DEF Handled, OnOK, StartThread, Starts
<1>2. CASE p = "accept"
  BY <1>2 DEF Handled, OnAccept, StartThread, Starts
<1>3. CASE p = "detected"
  BY <1>3 DEF Handled, OnDetected, StartThread, Starts
<1>4. CASE p = "ready"
  BY <1>4 DEF Handled, OnReady, Starts
<1>5. CASE p = "refuse"
  BY <1>5 DEF Handled, OnRefuse, Starts
<1> QED BY <1>1, <1>2, <1>3, <1>4, <1>5 DEF Sendable, Packets

\* An end whose entry is freed.
Freed(c, d, at) ==
  /\ d \in End /\ d.entry = "freed" /\ ~d.sent /\ ~d.keySet /\ d.addr = "none"
  /\ ~d.ready /\ d.threads = c.threads /\ d.at = at

\* EndThread frees the entry and leaves the node.
LEMMA EndsFreed ==
  ASSUME NEW c \in End, NEW at \in {"audio", "gaveUp", "cancelled"}
  PROVE  Freed(c, EndThread(c, at), at) /\ EndThread(c, at).node = c.node
<1> DEFINE n == NewEnd("enough")
           w == IF at = "audio" THEN c.addr ELSE "none"
           d == [n EXCEPT !.node = c.node, !.entry = "freed", !.pipe = c.pipe,
                          !.threads = c.threads, !.at = at, !.sound = w]
<1>1. n \in End /\ ~n.sent /\ ~n.keySet /\ n.addr = "none" /\ ~n.ready
  BY NewIsEnd DEF NewEnd, Lengths
<1>2. w \in {"none", "peer", "garbled"}
  BY DEF End
<1>3. EndThread(c, at) = d
  BY DEF EndThread
<1> HIDE DEF n, w
<1>4. Freed(c, d, at) /\ d.node = c.node
  BY <1>1, <1>2 DEF End, Freed
<1> QED BY <1>3, <1>4

\* FAILURE frees the entry and removes the node.
LEMMA Fails ==
  ASSUME NEW e \in Ends, NEW c \in End
  PROVE  Freed(c, Handled(e, c, "failure"), "cancelled") /\ ~Handled(e, c, "failure").node
<1> DEFINE f == EndThread(c, "cancelled")
<1>1. Freed(c, f, "cancelled")
  BY EndsFreed
<1> HIDE DEF f
<1>2. Handled(e, c, "failure") = [f EXCEPT !.node = FALSE]
  BY DEF Handled, OnFailure, f
<1> QED BY <1>1, <1>2 DEF End, Freed

\* A handler keeps thread and knowledge together, if the key comes to the caller only
\* and key and address come once.
LEMMA HandledFits ==
  ASSUME NEW e \in Ends, NEW c \in End, NEW p \in Sendable \ {"request"}, NEW d, d = Handled(e, c, p),
         Fits(e, c), c.node, ~HandlerUndefined(e, c, p),
         p = "accept" => e = Caller /\ ~c.keySet,
         p = "detected" /\ e = Caller => c.addr = "none"
  PROVE  Fits(e, d) /\ c.entry = "live"
<1>1. c.entry = "live"
  BY DEF Fits, HandlerUndefined, End
<1>2. CASE p = "failure"
  BY <1>1, <1>2, Fails DEF Fits, Freed
<1>3. CASE p # "failure"
  <2>1. /\ d.entry = c.entry
        /\ d.sent <=> (c.sent \/ p = "ok")
        /\ d.keySet <=> (c.keySet \/ p = "accept")
        /\ d.addr = IF p = "detected" THEN "peer" ELSE c.addr
        /\ d.node <=> (c.node /\ p \notin {"ready", "refuse"})
        /\ d.ready <=> (c.ready \/ p = "ready")
        /\ d.threads = IF Starts(e, c, p) THEN c.threads + 1 ELSE c.threads
        /\ d.at = IF Starts(e, c, p) THEN "select" ELSE c.at
    BY <1>3, Handles
  <2>2. c.ready => ~c.node
    BY DEF Fits
  <2>3. /\ (c.at = "none" /\ c.threads = 0) \/ (c.at = "select" /\ c.threads = 1)
        /\ c.at = "select" <=> IF e = Caller THEN c.keySet /\ c.addr # "none" ELSE c.sent
    BY <1>1 DEF Fits
  <2>4. Starts(e, c, p) => c.at = "none"
    BY <2>3 DEF Starts
  <2>5. d.at = "select" <=> IF e = Caller THEN d.keySet /\ d.addr # "none" ELSE d.sent
    BY <2>1, <2>3, <2>4 DEF Starts
  <2>6. (d.at = "none" /\ d.threads = 0) \/ (d.at = "select" /\ d.threads = 1)
    BY <2>1, <2>3, <2>4
  <2>7. d.ready => ~d.node
    BY <2>1, <2>2
  <2> QED BY <1>1, <2>1, <2>5, <2>6, <2>7 DEF Fits
<1> QED BY <1>2, <1>3

\* The thread's round.
LEMMA RoundFits ==
  ASSUME TypeInv, NEW e \in Ends, NEW c \in End, NEW inSocket, Round(e, c, inSocket),
         Fits(e, call[e]), call[e].at = "select",
         c.entry = call[e].entry, c.at = call[e].at, c.threads = call[e].threads,
         c.sent = call[e].sent, c.keySet = call[e].keySet, c.node = call[e].node, c.ready = call[e].ready,
         call[e].addr # "none" => c.addr # "none"
  PROVE  \E d \in End :
           /\ call' = [call EXCEPT ![e] = d] /\ Fits(e, d)
           /\ \/ d.entry = "freed" /\ ~d.keySet /\ d.addr = "none"
              \/ d.entry = "live" /\ d.sent = call[e].sent /\ d.keySet = call[e].keySet
<1>0. call[e] \in End /\ call[e].entry = "live"
  BY DEF TypeInv, Fits, End
<1>1. CASE Connected(c)
  <2> DEFINE d == EndThread(c, "audio")
  <2>1. call' = [call EXCEPT ![e] = d]
    BY <1>1 DEF Round
  <2>2. Freed(c, d, "audio") /\ d.node = c.node
    BY EndsFreed
  <2> HIDE DEF d
  <2>3. ~c.node
    BY <1>1 DEF Connected, Fits
  <2>4. c.threads = 1
    BY <1>0 DEF Fits
  <2>5. Fits(e, d)
    BY <2>2, <2>3, <2>4 DEF Fits, Freed
  <2> QED BY <2>1, <2>2, <2>5 DEF Freed
<1>2. CASE ~Connected(c)
  <2>1. call' = [call EXCEPT ![e] = c]
    BY <1>2 DEF Round
  <2>2. Fits(e, c)
    BY <1>0 DEF Fits
  <2> QED BY <1>0, <2>1, <2>2
<1> QED BY <1>1, <1>2
-----------------------------------------------------------------------------
(* Queues.                                                                 *)

\* r is what is left of q.
Shrinks(q, r) ==
  /\ \A p : (Has(r, p) => Has(q, p)) /\ (Once(q, p) => Once(r, p))
  /\ \A p : q = <<p>> => r \in {q, <<>>}
  /\ q = <<>> => r = <<>>

\* A queue as it is, emptied, or without its first packet.
LEMMA Shrinking ==
  ASSUME NEW S, NEW q \in Seq(S)
  PROVE  Shrinks(q, q) /\ Shrinks(q, <<>>) /\ (q # <<>> => Shrinks(q, Tail(q)))
<1>1. Shrinks(q, q)
  BY DEF Shrinks
<1>2. Shrinks(q, <<>>)
  BY OnePacket DEF Shrinks
<1>3. ASSUME q # <<>> PROVE Shrinks(q, Tail(q))
  BY <1>3, PacketTaken, OnePacket DEF Shrinks
<1> QED BY <1>1, <1>2, <1>3

\* r is q and one more packet p.
Gains(q, r, p) ==
  /\ \A x : Has(r, x) <=> Has(q, x) \/ x = p
  /\ \A x : Once(q, x) /\ (x = p => ~Has(q, x)) => Once(r, x)
  /\ q = <<>> => r = <<p>>

\* A queue with one more packet.
LEMMA Gaining ==
  ASSUME NEW S, NEW q \in Seq(S), NEW p \in S
  PROVE  Gains(q, Append(q, p), p)
BY PacketAppended, OnePacket DEF Gains

\* An empty queue gets one packet, or none because the connection is closed.
LEMMA SentAlone ==
  ASSUME TypeInv, NEW e \in Ends, NEW p \in Packets, up[e] = <<>>
  PROVE  /\ ToServer(e, p)[Peer(e)] = up[Peer(e)]
         /\ ToServer(e, p)[e] \in {<<>>, <<p>>}
BY OnePacket, PeerIsOther DEF ToServer, TypeInv

\* What the worker or a client takes from a queue.
LEMMA TakenFrom ==
  ASSUME NEW S, NEW q \in [Ends -> Seq(S)], NEW e \in Ends, q[e] # <<>>
  PROVE  /\ \A x \in Ends : Shrinks(q[x], Received(q, e)[x]) /\ (x # e => Received(q, e)[x] = q[x])
         /\ Has(q[e], Head(q[e]))
         /\ Once(q[e], Head(q[e])) => ~Has(Received(q, e)[e], Head(q[e]))
         /\ \A p : q[e] = <<p>> => Head(q[e]) = p /\ Received(q, e)[e] = <<>>
<1>1. Received(q, e) = [q EXCEPT ![e] = Tail(q[e])]
  BY DEF Received
<1>2. /\ Received(q, e)[e] = Tail(q[e])
      /\ \A x \in Ends : x # e => Received(q, e)[x] = q[x]
  BY <1>1
<1>3. \A x \in Ends : Shrinks(q[x], q[x]) /\ Shrinks(q[e], Tail(q[e]))
  BY Shrinking
<1>4. Has(q[e], Head(q[e])) /\ (Once(q[e], Head(q[e])) => ~Has(Tail(q[e]), Head(q[e])))
  BY PacketTaken
<1>5. \A p : q[e] = <<p>> => Head(q[e]) = p /\ Tail(q[e]) = <<>>
  BY OnePacket
<1> QED BY <1>2, <1>3, <1>4, <1>5

\* What the server sends.
LEMMA SentDown ==
  ASSUME NEW q \in [Ends -> Seq(Sendable)], NEW e \in Ends, NEW p \in Sendable
  PROVE  /\ Gains(q[e], ToClient(q, e, p)[e], p)
         /\ \A x \in Ends : x # e => ToClient(q, e, p)[x] = q[x]
BY Gaining DEF ToClient

-----------------------------------------------------------------------------
(* The callee has told its key.                                            *)

\* An end that has told its key does not go back.
Forward(c, d) == Unsent(d) => Unsent(c)

\* What holds when the callee has told its key.
LEMMA SecondHalf ==
  ASSUME CallInv, ~Unsent(call[Callee])
  PROVE  /\ ~Unsent(call[Caller]) /\ ~asked
         /\ \A e \in Ends : /\ ~Has(up[e], "register") /\ ~Has(up[e], "request") /\ ~Has(down[e], "request")
                            /\ op[e] # "fresh" /\ call[e].entry # "none"
                            /\ call[e].entry = "live" => call[e].sent
                            /\ ~(worker = e /\ session[e] = "on")
<1>1. ~asked /\ \A e \in Ends : ~Has(up[e], "request") /\ ~Has(down[e], "request")
  BY DEF CallInv, Agree, AfterAccept
<1>2. ~Unsent(call[Caller])
  BY DEF CallInv, Agree, BeforeRequest, Unsent
<1>3. \A e \in Ends : ~Unsent(call[e])
  BY <1>2, TwoEnds
<1>4. \A e \in Ends : call[e].entry # "none" /\ (call[e].entry = "live" => call[e].sent)
  BY <1>3 DEF Unsent
<1>5. \A e \in Ends : ~Has(up[e], "register") /\ op[e] # "fresh" /\ ~(worker = e /\ session[e] = "on")
  BY <1>4 DEF CallInv, Agree, Registers
<1> QED BY <1>1, <1>2, <1>4, <1>5

\* What a step then has to show.
LEMMA SecondHalfStep ==
  ASSUME \A e \in Ends : ~Unsent(call'[e]), ~asked',
         \A e \in Ends : /\ ~Has(up'[e], "register") /\ ~Has(up'[e], "request") /\ ~Has(down'[e], "request")
                         /\ op'[e] # "fresh" /\ ~(worker' = e /\ session'[e] = "on"),
         OneAnswer(call', up', down', op'), OwnersThere(session', op', table', listener')
  PROVE  AgreeNext
<1> USE TwoEnds
<1>1. Registers(call', up', down', op', session', worker')
  BY DEF Registers, Unsent
<1>2. BeforeRequest(call', asked', up', down') /\ BeforeAccept(call', up', down', probe', listener')
  BY DEF BeforeRequest, BeforeAccept
<1>3. OneRequest(call', asked', up', down') /\ AfterAccept(call', asked', up', down')
  <2>1. up'[Caller] # <<"request">>
    <3>1. Has(<<"request">>, "request")
      BY OnePacket
    <3> QED BY <3>1
  <2> QED BY <2>1 DEF OneRequest, AfterAccept
<1> QED BY <1>1, <1>2, <1>3 DEF AgreeNext, Agree
-----------------------------------------------------------------------------
(* The users.                                                              *)

\* AudioRequestNATDiscover: the first thing of all.
LEMMA AskAgrees == CallInv /\ AudioRequestNATDiscover => AgreeNext
<1> SUFFICES ASSUME CallInv, AudioRequestNATDiscover PROVE AgreeNext
  OBVIOUS
<1> USE TwoEnds
<1>0. TypeInv /\ call[Caller] \in End /\ Fits(Caller, call[Caller])
  BY DEF CallInv, ThreadsFit, TypeInv
<1>1. /\ call[Caller].entry = "none" /\ Unsent(call[Caller]) /\ ~call[Caller].sent
      /\ ~call[Caller].keySet /\ call[Caller].addr = "none"
  BY <1>0 DEF AudioRequestNATDiscover, Unsent, Fits
<1>2. /\ call[Callee].entry = "none" /\ Unsent(call[Callee]) /\ ~asked
      /\ \A e \in Ends : up[e] = <<>> /\ down[e] = <<>>
  BY <1>1 DEF CallInv, Agree, BeforeRequest, Unsent
<1>3. op[Caller] = "none" /\ ~(worker = Caller /\ session[Caller] = "on")
  BY <1>1 DEF CallInv, Agree, Registers
<1>4. /\ call'[Callee] = call[Callee] /\ call'[Caller].entry = "live" /\ ~call'[Caller].sent
      /\ ~call'[Caller].keySet /\ call'[Caller].addr = "none"
  BY <1>0, <1>1 DEF AudioRequestNATDiscover, TypeInv, End
<1>5. up'[Callee] = <<>> /\ up'[Caller] \in {<<>>, <<"register">>}
  BY <1>0, <1>2, SentAlone DEF AudioRequestNATDiscover, Packets
<1>6. UNCHANGED <<asked, down, probe, session, op, table, worker, listener>>
  BY DEF AudioRequestNATDiscover, datagrams, serverVars
<1>7. Registers(call', up', down', op', session', worker')
  BY <1>2, <1>3, <1>4, <1>5, <1>6, OnePacket DEF CallInv, Agree, Registers
<1>8. BeforeRequest(call', asked', up', down')
  BY <1>2, <1>4, <1>5, <1>6 DEF BeforeRequest
<1>9. BeforeAccept(call', up', down', probe', listener')
  BY <1>2, <1>4, <1>5, <1>6, OnePacket DEF CallInv, Agree, BeforeAccept
<1>10. OneRequest(call', asked', up', down') /\ AfterAccept(call', asked', up', down')
  BY <1>2, <1>4, <1>5, <1>6, OnePacket DEF OneRequest, AfterAccept
<1>11. OneAnswer(call', up', down', op')
  BY <1>2, <1>4, <1>5, <1>6, OnePacket DEF OneAnswer
<1>12. OwnersThere(session', op', table', listener')
  BY <1>6 DEF CallInv, Agree, OwnersThere
<1> QED BY <1>7, <1>8, <1>9, <1>10, <1>11, <1>12 DEF AgreeNext, Agree

\* The callee is asked: what holds then.
LEMMA Asked ==
  ASSUME CallInv, asked
  PROVE  /\ call[Callee].entry = "none" /\ Unsent(call[Callee]) /\ ~Unsent(call[Caller])
         /\ up[Callee] = <<>> /\ down[Callee] = <<>> /\ up[Caller] # <<"request">>
         /\ op[Callee] = "none" /\ ~(worker = Callee /\ session[Callee] = "on")
<1>1. /\ call[Callee].entry = "none" /\ up[Callee] = <<>> /\ down[Callee] = <<>> /\ up[Caller] # <<"request">>
  BY DEF CallInv, Agree, OneRequest
<1>2. ~Unsent(call[Caller])
  BY DEF CallInv, Agree, BeforeRequest
<1>3. op[Callee] = "none" /\ ~(worker = Callee /\ session[Callee] = "on")
  BY <1>1, TwoEnds DEF CallInv, Agree, Registers
<1> QED BY <1>1, <1>2, <1>3 DEF Unsent

\* AudioAcceptNatDiscover.
LEMMA AcceptAgrees == CallInv /\ AudioAcceptNatDiscover => AgreeNext
<1> SUFFICES ASSUME CallInv, AudioAcceptNatDiscover PROVE AgreeNext
  OBVIOUS
<1> USE TwoEnds
<1>0. TypeInv /\ call[Callee] \in End /\ Fits(Callee, call[Callee]) /\ asked
  BY DEF CallInv, ThreadsFit, TypeInv, AudioAcceptNatDiscover
<1>1. /\ call[Callee].entry = "none" /\ Unsent(call[Callee]) /\ ~Unsent(call[Caller])
      /\ up[Callee] = <<>> /\ down[Callee] = <<>> /\ up[Caller] # <<"request">>
      /\ op[Callee] = "none" /\ ~(worker = Callee /\ session[Callee] = "on")
  BY <1>0, Asked
<1>2. call'[Caller] = call[Caller] /\ call'[Callee].entry = "live" /\ ~call'[Callee].sent
  BY <1>0, <1>1 DEF AudioAcceptNatDiscover, TypeInv, End, Fits
<1>3. up'[Caller] = up[Caller] /\ up'[Callee] \in {<<>>, <<"register">>}
  BY <1>0, <1>1, SentAlone DEF AudioAcceptNatDiscover, Packets
<1>4. ~asked' /\ UNCHANGED <<down, probe, session, op, table, worker, listener>>
  BY DEF AudioAcceptNatDiscover, datagrams, serverVars
<1>5. Registers(call', up', down', op', session', worker')
  BY <1>1, <1>2, <1>3, <1>4, OnePacket DEF CallInv, Agree, Registers
<1>6. BeforeRequest(call', asked', up', down')
  BY <1>1, <1>2 DEF BeforeRequest
<1>7. BeforeAccept(call', up', down', probe', listener')
  BY <1>1, <1>2, <1>3, <1>4, OnePacket DEF CallInv, Agree, BeforeAccept
<1>8. OneRequest(call', asked', up', down') /\ AfterAccept(call', asked', up', down')
  BY <1>1, <1>2, <1>3, <1>4, OnePacket DEF OneRequest, AfterAccept, Unsent
<1>9. OneAnswer(call', up', down', op')
  BY <1>1, <1>2, <1>3, <1>4, OnePacket DEF CallInv, Agree, OneAnswer
<1>10. OwnersThere(session', op', table', listener')
  BY <1>4 DEF CallInv, Agree, OwnersThere
<1> QED BY <1>5, <1>6, <1>7, <1>8, <1>9, <1>10 DEF AgreeNext, Agree

\* The user declines.
LEMMA RefuseAgrees == CallInv /\ Refuse => AgreeNext
<1> SUFFICES ASSUME CallInv, Refuse PROVE AgreeNext
  OBVIOUS
<1> USE TwoEnds
<1>0. TypeInv /\ asked
  BY DEF CallInv, Refuse
<1>1. /\ call[Callee].entry = "none" /\ Unsent(call[Callee]) /\ ~Unsent(call[Caller])
      /\ up[Callee] = <<>> /\ down[Callee] = <<>> /\ up[Caller] # <<"request">>
      /\ op[Callee] = "none" /\ ~(worker = Callee /\ session[Callee] = "on")
  BY <1>0, Asked
<1>2. up'[Caller] = up[Caller] /\ up'[Callee] \in {<<>>, <<"refuse">>}
  BY <1>0, <1>1, SentAlone DEF Refuse, Packets
<1>3. ~asked' /\ UNCHANGED <<call, down, probe, session, op, table, worker, listener>>
  BY DEF Refuse, datagrams, serverVars
<1>5. Registers(call', up', down', op', session', worker')
  BY <1>1, <1>2, <1>3, OnePacket DEF CallInv, Agree, Registers
<1>6. BeforeRequest(call', asked', up', down')
  BY <1>1, <1>3 DEF BeforeRequest
<1>7. BeforeAccept(call', up', down', probe', listener')
  BY <1>1, <1>2, <1>3, OnePacket DEF CallInv, Agree, BeforeAccept
<1>8. OneRequest(call', asked', up', down') /\ AfterAccept(call', asked', up', down')
  BY <1>1, <1>2, <1>3, OnePacket DEF OneRequest, AfterAccept, Unsent
<1>9. OneAnswer(call', up', down', op')
  BY <1>1, <1>2, <1>3, OnePacket DEF CallInv, Agree, OneAnswer
<1>10. OwnersThere(session', op', table', listener')
  BY <1>3 DEF CallInv, Agree, OwnersThere
<1> QED BY <1>5, <1>6, <1>7, <1>8, <1>9, <1>10 DEF AgreeNext, Agree
-----------------------------------------------------------------------------
(* The clients' receiving threads.                                         *)

FitNext == \A e \in Ends : Fits(e, call'[e])

\* What a packet that is received leaves of the queues.
LEMMA Receives ==
  ASSUME CallInv, NEW e \in Ends, down[e] # <<>>, down' = Received(down, e), NEW p, p = Head(down[e])
  PROVE  /\ \A x \in Ends : Shrinks(down[x], down'[x]) /\ (x # e => down'[x] = down[x])
         /\ Has(down[e], p) /\ (Once(down[e], p) => ~Has(down'[e], p))
         /\ \A x : down[e] = <<x>> => p = x /\ down'[e] = <<>>
         /\ p \in Sendable
<1>1. down \in [Ends -> Seq(Sendable)]
  BY DEF CallInv, TypeInv
<1>2. p \in Sendable
  BY <1>1
<1> QED BY <1>1, <1>2, TakenFrom

\* ClientSockfd.c has the user asked.
LEMMA RequestArrives == \A e \in Ends : CallInv /\ ReceiveRequest(e) => AgreeNext /\ FitNext
<1> SUFFICES ASSUME NEW e \in Ends, CallInv, ReceiveRequest(e) PROVE AgreeNext /\ FitNext
  OBVIOUS
<1> USE TwoEnds
<1>1. Has(down[e], "request") /\ down[e] # <<>> /\ down' = Received(down, e) /\ Head(down[e]) = "request"
  BY Receives DEF ReceiveRequest
<1>2. /\ asked' = TRUE
      /\ UNCHANGED <<call, up, probe, session, op, table, worker, listener>>
  BY DEF ReceiveRequest, datagrams, serverVars
<1>3. Unsent(call[Callee])
  BY <1>1, SecondHalf
<1>4. e = Callee
  BY <1>1, <1>3 DEF CallInv, Agree, BeforeAccept
<1>5. /\ call[Callee].entry = "none" /\ up[Callee] = <<>> /\ down[Callee] = <<"request">>
      /\ up[Caller] # <<"request">>
  BY <1>1, <1>4 DEF CallInv, Agree, OneRequest
<1>6. down'[Callee] = <<>> /\ down'[Caller] = down[Caller]
  BY <1>1, <1>4, <1>5, Receives
<1>7. ~Unsent(call[Caller])
  BY <1>5, OnePacket DEF CallInv, Agree, BeforeRequest
<1>8. Registers(call', up', down', op', session', worker')
  BY <1>2, <1>6 DEF CallInv, Agree, Registers
<1>9. BeforeRequest(call', asked', up', down')
  BY <1>2, <1>7 DEF BeforeRequest
<1>10. BeforeAccept(call', up', down', probe', listener')
  BY <1>2, <1>5, <1>6, OnePacket DEF CallInv, Agree, BeforeAccept
<1>11. OneRequest(call', asked', up', down') /\ AfterAccept(call', asked', up', down')
  BY <1>2, <1>3, <1>5, <1>6, OnePacket DEF OneRequest, AfterAccept
<1>12. OneAnswer(call', up', down', op')
  BY <1>2, <1>6, OnePacket DEF CallInv, Agree, OneAnswer
<1>13. OwnersThere(session', op', table', listener')
  BY <1>2 DEF CallInv, Agree, OwnersThere
<1>14. FitNext
  BY <1>2 DEF CallInv, ThreadsFit, FitNext
<1> QED BY <1>8, <1>9, <1>10, <1>11, <1>12, <1>13, <1>14 DEF AgreeNext, Agree

\* A packet for a node that is gone, or one that the handler cannot stand.
LEMMA PacketDropped ==
  ASSUME CallInv, NEW e \in Ends, down[e] # <<>>, down' = Received(down, e),
         UNCHANGED <<call, asked, up, probe, session, op, table, worker, listener>>
  PROVE  AgreeNext /\ FitNext
<1> USE TwoEnds
<1>1. \A x \in Ends : Shrinks(down[x], down'[x])
  BY Receives
<1>2. Registers(call', up', down', op', session', worker')
  BY <1>1 DEF CallInv, Agree, Registers, Shrinks
<1>3. BeforeRequest(call', asked', up', down')
  BY <1>1 DEF CallInv, Agree, BeforeRequest, Shrinks
<1>4. BeforeAccept(call', up', down', probe', listener')
  BY <1>1 DEF CallInv, Agree, BeforeAccept, Shrinks
<1>5. OneRequest(call', asked', up', down') /\ AfterAccept(call', asked', up', down')
  BY <1>1, OnePacket DEF CallInv, Agree, OneRequest, AfterAccept, Shrinks
<1>6. OneAnswer(call', up', down', op')
  BY <1>1 DEF CallInv, Agree, OneAnswer, Shrinks
<1>7. OwnersThere(session', op', table', listener')
  BY DEF CallInv, Agree, OwnersThere
<1>8. FitNext
  BY DEF CallInv, ThreadsFit, FitNext
<1> QED BY <1>2, <1>3, <1>4, <1>5, <1>6, <1>7, <1>8 DEF AgreeNext, Agree

\* An end is d after a handler, which has had p.
AfterHandler(e, p, d) ==
  /\ FitNext /\ call'[e] = d /\ call'[Peer(e)] = call[Peer(e)]
  /\ call[e].entry = "live" /\ ~Unsent(d)
  /\ ~call[e].sent => p = "ok" /\ down[e] = <<"ok">>
  /\ d.keySet => call[e].keySet \/ p = "accept"
  /\ d.addr # "none" => call[e].addr # "none" \/ p = "detected"
  /\ d.entry = "freed" => p = "failure" /\ (e = Caller => call[e].at = "select")

\* A handler that may run leaves the end so.
LEMMA HandledEnd ==
  ASSUME CallInv, NEW e \in Ends, NEW p, p = Head(down[e]), down[e] # <<>>, p # "request",
         NEW d, d = Handled(e, call[e], p), call[e].node, ~HandlerUndefined(e, call[e], p),
         call' = [call EXCEPT ![e] = d]
  PROVE  AfterHandler(e, p, d)
<1> USE TwoEnds
<1>0. TypeInv /\ call[e] \in End /\ Fits(e, call[e]) /\ \A x \in Ends : Fits(x, call[x])
  BY DEF CallInv, ThreadsFit, TypeInv
<1>1. p \in Sendable /\ Has(down[e], p)
  BY <1>0, PacketTaken DEF TypeInv
<1>2. p = "accept" => e = Caller /\ ~call[e].keySet
  BY <1>1 DEF CallInv, Agree, OneAnswer
<1>3. p = "detected" /\ e = Caller => call[e].addr = "none"
  BY <1>1 DEF CallInv, Agree, OneAnswer
<1>4. Fits(e, d) /\ call[e].entry = "live"
  BY <1>0, <1>1, <1>2, <1>3, HandledFits
<1>5. call'[e] = d /\ call'[Peer(e)] = call[Peer(e)] /\ \A x \in Ends : x # e => call'[x] = call[x]
  BY <1>0, PeerIsOther DEF TypeInv
<1>6. FitNext
  BY <1>0, <1>4, <1>5 DEF FitNext
<1>7. ~call[e].sent => down[e] = <<"ok">> /\ p = "ok"
  <2> SUFFICES ASSUME ~call[e].sent PROVE down[e] = <<"ok">>
    BY OnePacket
  <2>1. Unsent(call[e])
    BY <1>4 DEF Unsent
  <2> QED BY <1>4, <2>1 DEF CallInv, Agree, BeforeRequest, BeforeAccept
<1>8. CASE p = "failure"
  <2>1. Freed(call[e], d, "cancelled")
    BY <1>0, <1>8, Fails
  <2>2. e = Caller => call[e].at = "select"
    BY <1>8 DEF HandlerUndefined
  <2> QED BY <1>4, <1>5, <1>6, <1>7, <1>8, <2>1, <2>2 DEF Freed, Unsent, AfterHandler
<1>9. CASE p # "failure"
  <2>1. /\ d.entry = call[e].entry
        /\ d.sent <=> (call[e].sent \/ p = "ok")
        /\ d.keySet <=> (call[e].keySet \/ p = "accept")
        /\ d.addr = IF p = "detected" THEN "peer" ELSE call[e].addr
    BY <1>0, <1>1, <1>9, Handles
  <2>2. ~Unsent(d)
    BY <1>4, <1>7, <2>1 DEF Unsent
  <2> QED BY <1>4, <1>5, <1>6, <1>7, <2>1, <2>2 DEF AfterHandler
<1> QED BY <1>8, <1>9

\* The caller's first OK: it asks for the call.
LEMMA CallerAsks ==
  ASSUME CallInv, down[Caller] = <<"ok">>, down'[Caller] = <<>>, down'[Callee] = down[Callee],
         call[Caller].entry = "live", ~call[Caller].sent, call'[Callee] = call[Callee],
         ~Unsent(call'[Caller]), call'[Caller].entry # "freed", ~call'[Caller].keySet, call'[Caller].addr = "none",
         up' = ToServer(Caller, "request"), UNCHANGED <<asked, probe, session, op, table, worker, listener>>
  PROVE  AgreeNext
<1> USE TwoEnds
<1>1. Unsent(call[Caller])
  BY DEF Unsent
<1>2. /\ call[Callee].entry = "none" /\ up[Callee] = <<>> /\ down[Callee] = <<>> /\ ~asked
      /\ up[Caller] \in {<<>>, <<"register">>}
  BY <1>1 DEF CallInv, Agree, BeforeRequest
<1>3. up[Caller] = <<>> /\ op[Caller] # "fresh" /\ ~(worker = Caller /\ session[Caller] = "on")
  <2>1. ~Has(up[Caller], "register") /\ op[Caller] # "fresh" /\ ~(worker = Caller /\ session[Caller] = "on")
    <3>1. down[Caller] # <<>>
      BY OnePacket
    <3> QED BY <3>1 DEF CallInv, Agree, Registers
  <2> QED BY <1>2, <2>1, OnePacket
<1>4. up'[Callee] = <<>> /\ up'[Caller] \in {<<>>, <<"request">>}
  BY <1>2, <1>3, SentAlone DEF CallInv, Packets
<1>5. Unsent(call[Callee]) /\ Unsent(call'[Callee])
  BY <1>2 DEF Unsent
<1>6. Registers(call', up', down', op', session', worker')
  <2>1. op'[Callee] = "none" /\ ~(worker' = Callee /\ session'[Callee] = "on")
    BY <1>2 DEF CallInv, Agree, Registers
  <2>2. ~Has(up'[Caller], "register") /\ ~Has(up'[Callee], "register")
    BY <1>4, OnePacket
  <2>3. call'[Caller].entry # "none"
    BY DEF Unsent
  <2> QED BY <1>3, <2>1, <2>2, <2>3 DEF Registers
<1>7. BeforeRequest(call', asked', up', down')
  BY DEF BeforeRequest
<1>8. BeforeAccept(call', up', down', probe', listener')
  BY <1>2, <1>4, <1>5, OnePacket DEF CallInv, Agree, BeforeAccept
<1>9. OneRequest(call', asked', up', down') /\ AfterAccept(call', asked', up', down')
  BY <1>2, <1>4, <1>5, OnePacket DEF OneRequest, AfterAccept
<1>10. OneAnswer(call', up', down', op')
  BY <1>2, <1>4, OnePacket DEF OneAnswer
<1>11. OwnersThere(session', op', table', listener')
  BY DEF CallInv, Agree, OwnersThere
<1> QED BY <1>6, <1>7, <1>8, <1>9, <1>10, <1>11 DEF AgreeNext, Agree

\* The callee's first OK: it accepts the call.
LEMMA CalleeAccepts ==
  ASSUME CallInv, down[Callee] = <<"ok">>, down'[Callee] = <<>>, down'[Caller] = down[Caller],
         call[Callee].entry = "live", ~call[Callee].sent, call'[Caller] = call[Caller],
         ~Unsent(call'[Callee]), up' = ToServer(Callee, "accept"),
         UNCHANGED <<asked, session, op, table, worker, listener>>
  PROVE  AgreeNext
<1> USE TwoEnds
<1>1. Unsent(call[Callee])
  BY DEF Unsent
<1>2. ~Unsent(call[Caller]) /\ ~asked
  BY OnePacket DEF CallInv, Agree, BeforeRequest, OneRequest
<1>3. /\ ~call[Caller].keySet /\ call[Caller].addr = "none" /\ listener = Idle
      /\ up[Caller] \in {<<>>, <<"register">>, <<"request">>}
      /\ up[Callee] \in {<<>>, <<"register">>}
      /\ \A p \in {"request", "accept", "detected", "ready"} : ~Has(down[Caller], p)
  BY <1>1 DEF CallInv, Agree, BeforeAccept
<1>4. ~Has(up[Callee], "register") /\ op[Callee] # "fresh" /\ ~(worker = Callee /\ session[Callee] = "on")
  BY OnePacket DEF CallInv, Agree, Registers
<1>5. ~Has(up[Caller], "register") /\ op[Caller] # "fresh" /\ ~(worker = Caller /\ session[Caller] = "on")
  BY <1>2 DEF CallInv, Agree, Registers, Unsent
<1>6. up[Caller] # <<"request">>
  BY DEF CallInv, Agree, OneRequest
<1>7. up[Caller] = <<>> /\ up[Callee] = <<>>
  BY <1>3, <1>4, <1>5, <1>6, OnePacket
<1>8. up'[Caller] = <<>> /\ up'[Callee] \in {<<>>, <<"accept">>}
  BY <1>7, SentAlone DEF CallInv, Packets
<1>9. OneAnswer(call', up', down', op')
  <2>1. Once(up'[Callee], "accept")
    <3>1. Once(<<"accept">>, "accept") /\ Once(<<>>, "accept")
      BY DEF Once
    <3> QED BY <1>8, <3>1
  <2> QED BY <1>3, <1>8, <2>1, OnePacket DEF OneAnswer
<1>10. OwnersThere(session', op', table', listener')
  BY DEF CallInv, Agree, OwnersThere
<1>11. \A e \in Ends : /\ ~Has(up'[e], "register") /\ ~Has(up'[e], "request") /\ ~Has(down'[e], "request")
                       /\ op'[e] # "fresh" /\ ~(worker' = e /\ session'[e] = "on")
  BY <1>3, <1>4, <1>5, <1>8, OnePacket
<1>12. \A e \in Ends : ~Unsent(call'[e])
  BY <1>2
<1> QED BY <1>2, <1>9, <1>10, <1>11, <1>12, SecondHalfStep

\* Later packets.
LEMMA LaterPacket ==
  ASSUME CallInv, NEW e \in Ends, NEW p, p = Head(down[e]), down[e] # <<>>, down' = Received(down, e),
         call'[Peer(e)] = call[Peer(e)], call[e].entry = "live", call[e].sent, ~Unsent(call'[e]),
         call'[e].keySet => call[e].keySet \/ p = "accept",
         call'[e].addr # "none" => call[e].addr # "none" \/ p = "detected",
         call'[e].entry = "freed" => p = "failure" /\ (e = Caller => call[e].at = "select"),
         up' = up, Unsent(call[Callee]) => probe' = probe,
         UNCHANGED <<asked, session, op, table, worker, listener>>
  PROVE  AgreeNext
<1> USE TwoEnds
<1>0. ~Unsent(call[e])
  BY DEF Unsent
<1>1. /\ \A x \in Ends : Shrinks(down[x], down'[x]) /\ (x # e => down'[x] = down[x])
      /\ Has(down[e], p) /\ (Once(down[e], p) => ~Has(down'[e], p))
  BY Receives
<1>2. OneAnswer(call', up', down', op')
  <2>1. CASE e = Caller
    BY <1>1, <2>1 DEF CallInv, Agree, OneAnswer, Shrinks
  <2>2. CASE e = Callee
    BY <1>1, <2>2 DEF CallInv, Agree, OneAnswer, Shrinks
  <2> QED BY <2>1, <2>2
<1>3. OwnersThere(session', op', table', listener')
  BY DEF CallInv, Agree, OwnersThere
<1>4. CASE ~Unsent(call[Callee])
  <2>1. \A x \in Ends : ~Unsent(call'[x])
    BY <1>0, <1>4, SecondHalf
  <2> QED BY <1>1, <1>2, <1>3, <1>4, <2>1, SecondHalf, SecondHalfStep DEF Shrinks
<1>5. CASE Unsent(call[Callee])
  <2>1. e = Caller /\ call'[Callee] = call[Callee] /\ down'[Callee] = down[Callee]
    BY <1>0, <1>1, <1>5
  <2>2. p \notin {"accept", "detected"}
    BY <1>1, <1>5, <2>1 DEF CallInv, Agree, BeforeAccept
  <2>3. ~call'[Caller].keySet /\ call'[Caller].addr = "none"
    BY <1>5, <2>1, <2>2 DEF CallInv, Agree, BeforeAccept
  <2>4. call[Caller].at # "select"
    <3>1. ~call[Caller].keySet /\ Fits(Caller, call[Caller])
      BY <1>5 DEF CallInv, ThreadsFit, Agree, BeforeAccept
    <3> QED BY <2>1, <3>1 DEF Fits
  <2>5. call'[Caller].entry # "freed"
    BY <2>1, <2>4
  <2>6. Registers(call', up', down', op', session', worker')
    <3>1. ~Has(up[Caller], "register") /\ op[Caller] # "fresh" /\ call'[Caller].entry # "none"
      BY <2>1 DEF CallInv, Agree, Registers, Unsent
    <3> QED BY <2>1, <3>1 DEF CallInv, Agree, Registers
  <2>7. BeforeRequest(call', asked', up', down')
    BY <2>1 DEF BeforeRequest
  <2>8. BeforeAccept(call', up', down', probe', listener')
    BY <1>1, <1>5, <2>1, <2>3, <2>5 DEF CallInv, Agree, BeforeAccept, Shrinks
  <2>9. OneRequest(call', asked', up', down') /\ AfterAccept(call', asked', up', down')
    BY <1>5, <2>1 DEF CallInv, Agree, OneRequest, AfterAccept
  <2> QED BY <1>2, <1>3, <2>6, <2>7, <2>8, <2>9 DEF AgreeNext, Agree
<1> QED BY <1>4, <1>5


\* MessageLoopFunc with a packet of the session of the call.
LEMMA PacketArrives == \A e \in Ends : CallInv /\ ReceiveCall(e) => AgreeNext /\ FitNext
<1> SUFFICES ASSUME NEW e \in Ends, CallInv, ReceiveCall(e) PROVE AgreeNext /\ FitNext
  OBVIOUS
<1> USE TwoEnds
<1> PICK p : p = Head(down[e])
  OBVIOUS
<1> PICK d : d = Handled(e, call[e], p)
  OBVIOUS
<1>1. /\ down[e] # <<>> /\ p # "request" /\ down' = Received(down, e)
      /\ UNCHANGED <<asked, session, op, table, worker, listener>>
  BY DEF ReceiveCall, serverVars
<1>2. CASE UNCHANGED <<call, up, probe>>
  BY <1>1, <1>2, PacketDropped
<1>3. CASE /\ call[e].node /\ ~HandlerUndefined(e, call[e], p) /\ call' = [call EXCEPT ![e] = d]
           /\ up' = Answered(e, call[e], p)
           /\ d.threads > call[e].threads \/ probe' = probe
  <2>0. /\ down[e] # <<>> /\ p # "request" /\ call[e].node /\ ~HandlerUndefined(e, call[e], p)
        /\ call' = [call EXCEPT ![e] = d]
    BY <1>1, <1>3
  <2>1. AfterHandler(e, p, d)
    BY <2>0, HandledEnd
  <2>2. CASE call[e].sent
    <3>1. up' = up
      BY <1>3, <2>2 DEF Answered
    <3>2. ASSUME Unsent(call[Callee]) PROVE probe' = probe
      <4>1. e = Caller
        BY <2>1, <2>2, <3>2 DEF Unsent, AfterHandler
      <4>2. ~Starts(e, call[e], p)
        <5>1. ~call[Caller].keySet /\ call[Caller].addr = "none"
          BY <3>2 DEF CallInv, Agree, BeforeAccept
        <5> QED BY <4>1, <5>1 DEF Starts
      <4>3. d.threads = call[e].threads
        <5>1. call[e] \in End /\ p \in Sendable
          BY <1>1, Receives DEF CallInv, TypeInv
        <5>2. CASE p = "failure"
          BY <5>1, <5>2, Fails DEF Freed
        <5>3. CASE p # "failure"
          <6>1. p \in Sendable \ {"request"}
            BY <1>1, <5>1
          <6> QED BY <4>2, <5>1, <5>3, <6>1, Handles
        <5> QED BY <5>2, <5>3
      <4>4. call[e].threads \in Nat
        BY DEF CallInv, TypeInv, End
      <4> QED BY <1>3, <4>3, <4>4
    <3>3. AgreeNext
      BY <1>1, <2>1, <2>2, <3>1, <3>2, LaterPacket DEF AfterHandler
    <3> QED BY <2>1, <3>3 DEF AfterHandler
  <2>3. CASE ~call[e].sent
    <3>1. down'[e] = <<>> /\ down'[Peer(e)] = down[Peer(e)]
      BY <1>1, <2>1, <2>3, PeerIsOther, Receives DEF AfterHandler
    <3>2. up' = ToServer(e, IF e = Caller THEN "request" ELSE "accept")
      BY <1>3, <2>1, <2>3 DEF Answered, AfterHandler
    <3>3. call[e] \in End /\ p \in Sendable \ {"request"} /\ p # "failure"
      BY <2>1, <2>3 DEF CallInv, TypeInv, Sendable, Packets, AfterHandler
    <3>4. d.keySet <=> call[e].keySet
      BY <2>1, <2>3, <3>3, Handles DEF AfterHandler
    <3>5. d.addr = call[e].addr /\ d.entry = "live"
      BY <2>1, <2>3, <3>3, Handles DEF AfterHandler
    <3>6. CASE e = Caller
      <4>1. ~call[e].keySet /\ call[e].addr = "none" /\ Fits(e, call[e]) /\ call[e] \in End
        <5>1. Unsent(call[Caller])
          BY <2>1, <2>3, <3>6 DEF Unsent, AfterHandler
        <5>2. Unsent(call[Callee])
          BY <5>1, SecondHalf
        <5> QED BY <3>3, <3>6, <5>2 DEF CallInv, ThreadsFit, Agree, BeforeAccept
      <4>2. probe' = probe
        <5>1. ~Starts(e, call[e], p)
          BY <2>1, <2>3, <3>6 DEF Starts, AfterHandler
        <5>2. d.threads = call[e].threads /\ call[e].threads \in Nat
          BY <3>3, <5>1, Handles DEF End
        <5> QED BY <1>3, <5>2
      <4> QED BY <1>1, <2>1, <2>3, <3>1, <3>2, <3>4, <3>5, <3>6, <4>1, <4>2, CallerAsks DEF AfterHandler
    <3>7. CASE e = Callee
      <4> QED BY <1>1, <2>1, <2>3, <3>1, <3>2, <3>7, CalleeAccepts DEF AfterHandler
    <3> QED BY <3>6, <3>7
  <2> QED BY <2>2, <2>3
<1> QED BY <1>2, <1>3 DEF ReceiveCall
-----------------------------------------------------------------------------
(* The threads.                                                            *)

\* The thread of an end steps: the end is d then, and has perhaps sent READY.
LEMMA SteppedAgrees ==
  ASSUME CallInv, NEW e \in Ends, NEW d \in End, call' = [call EXCEPT ![e] = d], Fits(e, d),
         call[e].at = "select",
         \/ d.entry = "freed" /\ ~d.keySet /\ d.addr = "none"
         \/ d.entry = "live" /\ d.sent = call[e].sent /\ d.keySet = call[e].keySet,
         up' \in {up, ToServer(e, "ready")},
         UNCHANGED <<asked, down, session, op, table, worker, listener>>
  PROVE  AgreeNext /\ FitNext
<1> USE TwoEnds
<1>0. TypeInv /\ call[e] \in End /\ Fits(e, call[e]) /\ \A x \in Ends : Fits(x, call[x])
  BY DEF CallInv, ThreadsFit, TypeInv
<1>2. call'[e] = d /\ \A x \in Ends : x # e => call'[x] = call[x]
  BY <1>0 DEF TypeInv
<1>3. FitNext
  BY <1>0, <1>2 DEF FitNext
<1>4. call[e].entry = "live"
  BY <1>0 DEF Fits, End
<1>5. IF e = Caller THEN call[e].keySet /\ call[e].addr # "none" ELSE call[e].sent
  BY <1>0, <1>4 DEF Fits
<1>6. ~Unsent(call[Callee])
  BY <1>4, <1>5 DEF CallInv, Agree, BeforeAccept, Unsent
<1>7. \A x \in Ends : ~Unsent(call'[x])
  <2>1. call[e].sent
    BY <1>4, <1>6, SecondHalf
  <2>2. ~Unsent(call'[e])
    BY <1>2, <2>1 DEF Unsent
  <2>3. ~Unsent(call[Caller]) /\ ~Unsent(call[Callee])
    BY <1>6, SecondHalf
  <2> QED BY <1>2, <2>2, <2>3
<1>8. \A x \in Ends : up'[x] = up[x] \/ Gains(up[x], up'[x], "ready")
  <2>1. "ready" \in Packets /\ \A x \in Ends : up[x] \in Seq(Packets)
    BY <1>0 DEF TypeInv, Packets
  <2>2. Gains(up[e], Append(up[e], "ready"), "ready")
    BY <2>1, Gaining
  <2>3. up' = up \/ up' = [up EXCEPT ![e] = Append(up[e], "ready")]
    BY DEF ToServer
  <2> QED BY <1>0, <2>2, <2>3 DEF TypeInv
<1>9. \A x \in Ends : \A p \in {"register", "request", "accept"} :
        /\ Has(up'[x], p) <=> Has(up[x], p)
        /\ Once(up[x], p) => Once(up'[x], p)
  BY <1>8 DEF Gains
<1>10. OneAnswer(call', up', down', op')
  <2>1. CASE e = Caller
    BY <1>2, <1>5, <1>9, <2>1 DEF CallInv, Agree, OneAnswer
  <2>2. CASE e = Callee
    BY <1>2, <1>9, <2>2 DEF CallInv, Agree, OneAnswer
  <2> QED BY <2>1, <2>2
<1>11. OwnersThere(session', op', table', listener')
  BY DEF CallInv, Agree, OwnersThere
<1>12. AgreeNext
  BY <1>6, <1>7, <1>9, <1>10, <1>11, SecondHalf, SecondHalfStep
<1> QED BY <1>3, <1>12

\* A round with nothing new, or with the other heard and its address known.
LEMMA RoundAgrees ==
  ASSUME CallInv, NEW e \in Ends, NEW c \in End, NEW inSocket, Round(e, c, inSocket),
         call[e].at = "select",
         c.entry = call[e].entry, c.at = call[e].at, c.threads = call[e].threads,
         c.sent = call[e].sent, c.keySet = call[e].keySet, c.node = call[e].node, c.ready = call[e].ready,
         call[e].addr # "none" => c.addr # "none",
         up' \in {up, ToServer(e, "ready")},
         UNCHANGED <<asked, down, session, op, table, worker, listener>>
  PROVE  AgreeNext /\ FitNext
<1>0. TypeInv /\ Fits(e, call[e])
  BY DEF CallInv, ThreadsFit
<1>1. PICK d \in End :
        /\ call' = [call EXCEPT ![e] = d] /\ Fits(e, d)
        /\ \/ d.entry = "freed" /\ ~d.keySet /\ d.addr = "none"
           \/ d.entry = "live" /\ d.sent = call[e].sent /\ d.keySet = call[e].keySet
  BY <1>0, RoundFits
<1> QED BY <1>1, SteppedAgrees

\* Each step of a thread.
LEMMA ThreadAgrees == \A e \in Ends : CallInv /\ Thread(e) => AgreeNext /\ FitNext
<1> SUFFICES ASSUME NEW e \in Ends, CallInv, Thread(e) PROVE AgreeNext /\ FitNext
  OBVIOUS
<1> DEFINE c == call[e]
<1>1. c \in End
  BY DEF CallInv, TypeInv
<1>2. CASE ThreadRecvFails(e)
  <2>1. /\ c.at = "select" /\ UNCHANGED <<asked, up, down, session, op, table, worker, listener>>
        /\ \E s : Round(e, c, s)
    BY <1>2 DEF ThreadRecvFails, Selects, serverVars
  <2> QED BY <1>1, <2>1, RoundAgrees
<1>3. CASE ThreadHearsServer(e)
  <2> DEFINE d == [c EXCEPT !.served = TRUE, !.len = "enough"]
  <2>1. /\ d \in End /\ d.entry = c.entry /\ d.at = c.at /\ d.threads = c.threads
        /\ d.sent = c.sent /\ d.keySet = c.keySet /\ d.node = c.node /\ d.ready = c.ready /\ d.addr = c.addr
    BY <1>1 DEF End, Lengths
  <2>2. /\ c.at = "select" /\ UNCHANGED <<asked, up, down, session, op, table, worker, listener>>
        /\ Round(e, d, dgram)
    BY <1>3 DEF ThreadHearsServer, Selects, serverVars
  <2> HIDE DEF d
  <2> QED BY <2>1, <2>2, RoundAgrees
<1>4. CASE ThreadHearsPeer(e)
  <2> DEFINE d == [c EXCEPT !.pipe = TRUE, !.len = "enough",
                            !.addr = IF c.len = "enough" THEN "peer" ELSE "garbled"]
  <2>1. /\ d \in End /\ d.entry = c.entry /\ d.at = c.at /\ d.threads = c.threads
        /\ d.sent = c.sent /\ d.keySet = c.keySet /\ d.node = c.node /\ d.ready = c.ready /\ d.addr # "none"
    BY <1>1 DEF End, Lengths
  <2>2. /\ c.at = "select" /\ UNCHANGED <<asked, down, session, op, table, worker, listener>>
        /\ Round(e, d, dgram \ {e}) /\ up' = ToServer(e, "ready")
    BY <1>4 DEF ThreadHearsPeer, Selects, serverVars
  <2> HIDE DEF d
  <2> QED BY <2>1, <2>2, RoundAgrees
<1>5. CASE ThreadTimeout(e)
  <2>0. c.at = "select" /\ UNCHANGED <<asked, up, down, session, op, table, worker, listener>>
    BY <1>5 DEF ThreadTimeout, Selects, serverVars
  <2>1. CASE Silence(c) = EndThread(c, "gaveUp")
    <3>1. Freed(c, Silence(c), "gaveUp")
      BY <1>1, <2>1, EndsFreed
    <3>2. call' = [call EXCEPT ![e] = Silence(c)]
      BY <1>5, <3>1 DEF ThreadTimeout, Freed
    <3>3. Fits(e, Silence(c))
      <4>1. Fits(e, c) /\ c.entry # "none"
        BY <1>1, <2>0 DEF CallInv, ThreadsFit, Fits
      <4>2. c.threads <= 1
        BY <1>1, <2>0, <4>1 DEF Fits, End
      <4> QED BY <3>1, <4>2 DEF Fits, Freed
    <3> QED BY <1>1, <2>0, <3>1, <3>2, <3>3, SteppedAgrees DEF Freed
  <2>2. CASE Silence(c) = [c EXCEPT !.tries = @ + 1]
    <3> DEFINE d == [c EXCEPT !.tries = c.tries + 1]
    <3>0. c.tries + 1 \in Nat
      BY <1>1 DEF End
    <3>1. /\ d \in End /\ d.entry = c.entry /\ d.at = c.at /\ d.threads = c.threads
          /\ d.sent = c.sent /\ d.keySet = c.keySet /\ d.node = c.node /\ d.ready = c.ready /\ d.addr = c.addr
      BY <1>1, <3>0 DEF End
    <3>2. Silence(c) = d
      BY <2>2
    <3> HIDE DEF d
    <3>3. Round(e, d, dgram)
      BY <1>5, <2>0, <3>1, <3>2 DEF ThreadTimeout
    <3> QED BY <2>0, <3>1, <3>3, RoundAgrees
  <2> QED BY <2>1, <2>2 DEF Silence
<1> QED BY <1>2, <1>3, <1>4, <1>5 DEF Thread
-----------------------------------------------------------------------------
(* The worker and the listener.                                            *)

\* What leaves the ends alone.
LEMMA ServerFits == CallInv /\ UNCHANGED call => FitNext
BY DEF CallInv, ThreadsFit, FitNext

\* What the worker takes, and what it sends.
LEMMA Takes ==
  ASSUME TypeInv, NEW e \in Ends, up[e] # <<>>, up' = Received(up, e), NEW p, p = Head(up[e])
  PROVE  /\ \A x \in Ends : Shrinks(up[x], up'[x]) /\ (x # e => up'[x] = up[x])
         /\ Has(up[e], p) /\ (Once(up[e], p) => ~Has(up'[e], p))
         /\ \A x : up[e] = <<x>> => p = x /\ up'[e] = <<>>
<1>1. up \in [Ends -> Seq(Packets)]
  BY DEF TypeInv
<1> QED BY <1>1, TakenFrom

\* What it sends.
LEMMA Tells ==
  ASSUME TypeInv, NEW e \in Ends, NEW p \in Sendable, down' = ToClient(down, e, p)
  PROVE  Gains(down[e], down'[e], p) /\ \A x \in Ends : x # e => down'[x] = down[x]
<1>1. down \in [Ends -> Seq(Sendable)]
  BY DEF TypeInv
<1> QED BY <1>1, SentDown

\* Before the callee has told its key: what a step of the worker has to show.
LEMMA FirstHalfStep ==
  ASSUME CallInv, Unsent(call[Callee]), UNCHANGED <<call, asked, probe, listener>>,
         Registers(call', up', down', op', session', worker'), BeforeRequest(call', asked', up', down'),
         up'[Caller] \in {<<>>, <<"register">>, <<"request">>}, up'[Callee] \in {<<>>, <<"register">>, <<"refuse">>},
         \A p \in {"request", "accept", "detected", "ready"} : ~Has(down'[Caller], p),
         \A p \in {"accept", "refuse", "detected", "ready"} : ~Has(down'[Callee], p),
         call[Callee].entry = "live" => up'[Callee] # <<"refuse">> /\ down'[Callee] \in {<<>>, <<"ok">>},
         OneRequest(call', asked', up', down'),
         OwnersThere(session', op', table', listener')
  PROVE  AgreeNext
<1>1. BeforeAccept(call', up', down', probe', listener') /\ AfterAccept(call', asked', up', down')
  BY DEF CallInv, Agree, BeforeAccept, AfterAccept
<1>2. ~Has(up'[Caller], "accept") /\ ~Has(up'[Callee], "accept")
  BY OnePacket
<1>3. OneAnswer(call', up', down', op')
  BY <1>2 DEF CallInv, Agree, BeforeAccept, OneAnswer
<1> QED BY <1>1, <1>3 DEF AgreeNext, Agree

\* A session is taken out of the table of users.
LEMMA DeleteAgrees == \A e \in Ends : CallInv /\ OnlineUserTableRemove(e) => AgreeNext /\ FitNext
<1> SUFFICES ASSUME NEW e \in Ends, CallInv, OnlineUserTableRemove(e) PROVE AgreeNext /\ FitNext
  OBVIOUS
<1> USE TwoEnds
<1>1. /\ worker = None /\ worker' = e /\ session[e] = "on"
      /\ UNCHANGED <<call, asked, down, probe, op, table, listener>>
  BY DEF OnlineUserTableRemove, clientVars, datagrams
<1>2. /\ session'[e] = "closing" /\ up'[e] = <<>>
      /\ \A x \in Ends : x # e => session'[x] = session[x] /\ up'[x] = up[x]
  BY DEF OnlineUserTableRemove, CallInv, TypeInv, ServerTypeInv
<1>3. \A x \in Ends : op[x] # "fresh"
  BY <1>1 DEF CallInv, Agree, Registers
<1>4. \A x \in Ends : Shrinks(up[x], up'[x])
  BY <1>2, Shrinking DEF CallInv, TypeInv
<1>5. Registers(call', up', down', op', session', worker')
  BY <1>1, <1>2, <1>3, <1>4, OnePacket DEF CallInv, Agree, Registers
<1>6. BeforeRequest(call', asked', up', down')
  BY <1>1, <1>2 DEF CallInv, Agree, BeforeRequest
<1>7. BeforeAccept(call', up', down', probe', listener')
  BY <1>1, <1>2, OnePacket DEF CallInv, Agree, BeforeAccept
<1>8. OneRequest(call', asked', up', down') /\ AfterAccept(call', asked', up', down')
  BY <1>1, <1>2, OnePacket DEF CallInv, Agree, OneRequest, AfterAccept
<1>9. OneAnswer(call', up', down', op')
  BY <1>1, <1>4 DEF CallInv, Agree, OneAnswer, Shrinks
<1>10. OwnersThere(session', op', table', listener')
  BY <1>1, <1>2 DEF CallInv, ServerTypeInv, Agree, OwnersThere
<1> QED BY <1>1, <1>5, <1>6, <1>7, <1>8, <1>9, <1>10, ServerFits DEF AgreeNext, Agree

\* A key is registered ...
LEMMA RegisterAgrees == \A e \in Ends : CallInv /\ NatHostDiscoverRegister(e) => AgreeNext /\ FitNext
<1> SUFFICES ASSUME NEW e \in Ends, CallInv, NatHostDiscoverRegister(e) PROVE AgreeNext /\ FitNext
  OBVIOUS
<1> USE TwoEnds
<1>0. TypeInv
  BY DEF CallInv
<1>1. /\ worker = None /\ worker' = e /\ session[e] = "on" /\ up[e] # <<>> /\ Head(up[e]) = "register"
      /\ up' = Received(up, e)
      /\ UNCHANGED <<call, asked, down, probe, session, listener>>
  BY DEF NatHostDiscoverRegister, Next1, clientVars, datagrams
<1>2. op'[e] = "fresh" /\ \A x \in Ends : x # e => op'[x] = op[x]
  BY DEF NatHostDiscoverRegister, CallInv, ServerTypeInv
<1>3. table' = table \union {e}
  BY DEF NatHostDiscoverRegister
<1>4. Has(up[e], "register")
  BY <1>0, <1>1, PacketTaken DEF TypeInv
<1>5. /\ up[e] = <<"register">> /\ call[e].entry = "live" /\ ~call[e].sent /\ down[e] = <<>>
      /\ \A x \in Ends : op[x] # "fresh"
  BY <1>1, <1>4 DEF CallInv, Agree, Registers
<1>6. up'[e] = <<>> /\ \A x \in Ends : x # e => up'[x] = up[x]
  BY <1>0, <1>1, <1>5, Takes
<1>7. Unsent(call[Callee])
  BY <1>4, SecondHalf
<1>8. Registers(call', up', down', op', session', worker')
  BY <1>1, <1>2, <1>5, <1>6, OnePacket DEF CallInv, Agree, Registers
<1>9. BeforeRequest(call', asked', up', down')
  BY <1>1, <1>6 DEF CallInv, Agree, BeforeRequest
<1>10. /\ up'[Caller] \in {<<>>, <<"register">>, <<"request">>} /\ up'[Callee] \in {<<>>, <<"register">>, <<"refuse">>}
       /\ \A p \in {"request", "accept", "detected", "ready"} : ~Has(down'[Caller], p)
       /\ \A p \in {"accept", "refuse", "detected", "ready"} : ~Has(down'[Callee], p)
       /\ call[Callee].entry = "live" => up'[Callee] # <<"refuse">> /\ down'[Callee] \in {<<>>, <<"ok">>}
  BY <1>1, <1>6, <1>7, OnePacket DEF CallInv, Agree, BeforeAccept
<1>11. OneRequest(call', asked', up', down')
  BY <1>1, <1>6, OnePacket DEF CallInv, Agree, OneRequest
<1>12. OwnersThere(session', op', table', listener')
  BY <1>1, <1>2, <1>3 DEF CallInv, Agree, OwnersThere, ServerTypeInv
<1> QED BY <1>1, <1>7, <1>8, <1>9, <1>10, <1>11, <1>12, FirstHalfStep, ServerFits

\* ... and its owner told: nothing has come to it before.
LEMMA RegisterDoneAgrees == \A e \in Ends : CallInv /\ RegisterDone(e) => AgreeNext /\ FitNext
<1> SUFFICES ASSUME NEW e \in Ends, CallInv, RegisterDone(e) PROVE AgreeNext /\ FitNext
  OBVIOUS
<1> USE TwoEnds
<1>1. /\ worker = e /\ session[e] = "on" /\ worker' = None
      /\ down' = ToClient(down, e, "ok")
      /\ UNCHANGED <<call, asked, up, probe, session, table, listener>>
  BY DEF RegisterDone, clientVars, datagrams
<1>2. op[e] = "fresh" /\ call[e].entry = "live" /\ ~call[e].sent /\ down[e] = <<>>
  BY <1>1 DEF CallInv, Agree, Registers
<1>3. op'[e] = "armed" /\ \A x \in Ends : x # e => op'[x] = op[x]
  BY <1>2 DEF RegisterDone, CallInv, ServerTypeInv
<1>4. down'[e] = <<"ok">> /\ \A x \in Ends : x # e => down'[x] = down[x]
  <2>1. TypeInv /\ "ok" \in Sendable
    BY DEF CallInv, Sendable, Packets
  <2>2. Gains(down[e], down'[e], "ok") /\ \A x \in Ends : x # e => down'[x] = down[x]
    BY <1>1, <2>1, Tells
  <2> QED BY <1>2, <2>2 DEF Gains
<1>5. Unsent(call[Callee])
  BY <1>2, SecondHalf
<1>6. Registers(call', up', down', op', session', worker')
  BY <1>1, <1>2, <1>3, <1>4 DEF CallInv, Agree, Registers
<1>7. BeforeRequest(call', asked', up', down')
  <2>1. CASE e = Caller
    BY <1>1, <1>2, <1>4, <2>1 DEF CallInv, Agree, BeforeRequest
  <2>2. CASE e = Callee
    BY <1>1, <1>2, <2>2 DEF CallInv, Agree, BeforeRequest
  <2> QED BY <2>1, <2>2
<1>8. /\ up'[Caller] \in {<<>>, <<"register">>, <<"request">>} /\ up'[Callee] \in {<<>>, <<"register">>, <<"refuse">>}
      /\ \A p \in {"request", "accept", "detected", "ready"} : ~Has(down'[Caller], p)
      /\ \A p \in {"accept", "refuse", "detected", "ready"} : ~Has(down'[Callee], p)
      /\ call[Callee].entry = "live" => up'[Callee] # <<"refuse">> /\ down'[Callee] \in {<<>>, <<"ok">>}
  <2>1. \A p : Has(down'[e], p) => p = "ok"
    BY <1>4, OnePacket
  <2>2. CASE e = Caller
    BY <1>1, <1>4, <1>5, <2>1, <2>2 DEF CallInv, Agree, BeforeAccept
  <2>3. CASE e = Callee
    BY <1>1, <1>4, <1>5, <2>1, <2>3 DEF CallInv, Agree, BeforeAccept
  <2> QED BY <2>2, <2>3
<1>9. OneRequest(call', asked', up', down')
  <2>1. CASE e = Caller
    BY <1>1, <1>4, <2>1, OnePacket DEF CallInv, Agree, OneRequest
  <2>2. CASE e = Callee
    <3>1. up[Caller] # <<"request">> /\ ~asked
      BY <1>2, <2>2 DEF CallInv, Agree, OneRequest
    <3>2. ~Has(down'[e], "request")
      <4>1. ~Has(<<"ok">>, "request")
        BY OnePacket
      <4> QED BY <1>4, <4>1
    <3> QED BY <1>1, <2>2, <3>1, <3>2 DEF OneRequest
  <2> QED BY <2>1, <2>2
<1>10. OwnersThere(session', op', table', listener')
  BY <1>1, <1>3 DEF CallInv, Agree, OwnersThere, ServerTypeInv
<1> QED BY <1>1, <1>5, <1>6, <1>7, <1>8, <1>9, <1>10, FirstHalfStep, ServerFits

\* A packet for the other client, and the answer.
LEMMA Relayed ==
  ASSUME TypeInv, NEW e \in Ends, ProcessPacketNETNAT(e), NEW p, p = Head(up[e])
  PROVE  /\ p \in {"request", "accept", "refuse", "ready"} /\ Has(up[e], p)
         /\ \A x \in Ends : Shrinks(up[x], up'[x]) /\ (x # e => up'[x] = up[x])
         /\ Once(up[e], p) => ~Has(up'[e], p)
         /\ \A x : up[e] = <<x>> => p = x /\ up'[e] = <<>>
         /\ \/ Gains(down[Peer(e)], down'[Peer(e)], p) /\ Gains(down[e], down'[e], "ok")
            \/ down'[Peer(e)] = down[Peer(e)] /\ Gains(down[e], down'[e], "failure")
<1>1. p \in {"request", "accept", "refuse", "ready"} /\ up[e] # <<>> /\ up' = Received(up, e)
  BY DEF ProcessPacketNETNAT, Next1
<1>2. /\ \A x \in Ends : Shrinks(up[x], up'[x]) /\ (x # e => up'[x] = up[x])
      /\ Has(up[e], p) /\ (Once(up[e], p) => ~Has(up'[e], p))
      /\ \A x : up[e] = <<x>> => p = x /\ up'[e] = <<>>
  BY <1>1, Takes
<1>3. Peer(e) \in Ends /\ Peer(e) # e
  BY PeerIsOther
<1>4. down \in [Ends -> Seq(Sendable)] /\ p \in Sendable /\ "ok" \in Sendable /\ "failure" \in Sendable
  BY <1>1 DEF TypeInv, Sendable, Packets
<1>5. CASE down' = ToClient(ToClient(down, Peer(e), p), e, "ok")
  <2> PICK q : q = ToClient(down, Peer(e), p)
    OBVIOUS
  <2>1. q \in [Ends -> Seq(Sendable)] /\ Gains(down[Peer(e)], q[Peer(e)], p) /\ q[e] = down[e]
    <3>1. q \in [Ends -> Seq(Sendable)]
      BY <1>3, <1>4, Told
    <3>2. Gains(down[Peer(e)], q[Peer(e)], p)
      BY <1>3, <1>4, SentDown
    <3>3. q[e] = down[e]
      BY <1>3 DEF ToClient
    <3> QED BY <3>1, <3>2, <3>3
  <2>2. Gains(q[e], down'[e], "ok") /\ down'[Peer(e)] = q[Peer(e)]
    BY <1>3, <1>4, <1>5, <2>1, SentDown, ZenonT(60)
  <2>3. Gains(down[Peer(e)], down'[Peer(e)], p) /\ Gains(down[e], down'[e], "ok")
    BY <2>1, <2>2
  <2> QED BY <1>1, <1>2, <2>3
<1>6. CASE down' = ToClient(down, e, "failure")
  <2>1. Gains(down[e], down'[e], "failure") /\ down'[Peer(e)] = down[Peer(e)]
    BY <1>3, <1>4, <1>6, SentDown
  <2> QED BY <1>1, <1>2, <2>1
<1> QED BY <1>5, <1>6 DEF ProcessPacketNETNAT

\* A request reaches the callee, or its caller hears that it is offline.
LEMMA RequestRelayed ==
  ASSUME CallInv, ProcessPacketNETNAT(Caller), Head(up[Caller]) = "request"
  PROVE  AgreeNext
<1> USE TwoEnds
<1>0. TypeInv /\ Caller \in Ends
  BY DEF CallInv
<1>1. /\ UNCHANGED <<call, asked, probe, session, op, table, worker, listener>>
  BY DEF ProcessPacketNETNAT, clientVars, datagrams, serverVars
<1>2. /\ Has(up[Caller], "request") /\ up'[Callee] = up[Callee]
      /\ \A x : up[Caller] = <<x>> => up'[Caller] = <<>>
      /\ \/ Gains(down[Callee], down'[Callee], "request") /\ Gains(down[Caller], down'[Caller], "ok")
         \/ down'[Callee] = down[Callee] /\ Gains(down[Caller], down'[Caller], "failure")
  BY <1>0, Relayed
<1>3. Unsent(call[Callee])
  BY <1>2, SecondHalf
<1>4. up[Caller] = <<"request">>
  BY <1>2, <1>3, OnePacket DEF CallInv, Agree, BeforeAccept
<1>5. /\ call[Callee].entry = "none" /\ ~asked /\ up[Callee] = <<>> /\ down[Callee] = <<>>
      /\ ~Unsent(call[Caller])
  BY <1>4, OnePacket DEF CallInv, Agree, OneRequest, BeforeRequest
<1>6. up'[Caller] = <<>> /\ up'[Callee] = <<>> /\ down'[Callee] \in {<<>>, <<"request">>}
  BY <1>2, <1>4, <1>5 DEF Gains
<1>7. Registers(call', up', down', op', session', worker')
  <2>1. op[Caller] # "fresh" /\ op[Callee] # "fresh" /\ call[Caller].entry # "none"
    BY <1>5 DEF CallInv, Agree, Registers, Unsent
  <2> QED BY <1>1, <1>6, <2>1, OnePacket DEF CallInv, Agree, Registers
<1>8. BeforeRequest(call', asked', up', down')
  BY <1>1, <1>5 DEF BeforeRequest
<1>9. /\ \A p \in {"request", "accept", "detected", "ready"} : ~Has(down'[Caller], p)
      /\ \A p \in {"accept", "refuse", "detected", "ready"} : ~Has(down'[Callee], p)
  <2>1. \A p \in {"request", "accept", "detected", "ready"} : ~Has(down'[Caller], p)
    BY <1>2, <1>3 DEF CallInv, Agree, BeforeAccept, Gains
  <2>2. \A p \in {"accept", "refuse", "detected", "ready"} : ~Has(down'[Callee], p)
    BY <1>6, OnePacket
  <2> QED BY <2>1, <2>2
<1>10. OneRequest(call', asked', up', down')
  BY <1>1, <1>5, <1>6, OnePacket DEF OneRequest
<1>11. OwnersThere(session', op', table', listener')
  BY <1>1 DEF CallInv, Agree, OwnersThere
<1> QED BY <1>1, <1>3, <1>5, <1>6, <1>7, <1>8, <1>9, <1>10, <1>11, FirstHalfStep

\* A refusal.
LEMMA RefusalRelayed ==
  ASSUME CallInv, NEW e \in Ends, ProcessPacketNETNAT(e), Head(up[e]) # "request", Unsent(call[Callee])
  PROVE  AgreeNext
<1> USE TwoEnds
<1>0. TypeInv
  BY DEF CallInv
<1>1. /\ UNCHANGED <<call, asked, probe, session, op, table, worker, listener>>
  BY DEF ProcessPacketNETNAT, clientVars, datagrams, serverVars
<1>2. Has(up[e], Head(up[e])) /\ Head(up[e]) \in {"accept", "refuse", "ready"}
  BY <1>0, Relayed
<1>3. e = Callee /\ up[Callee] = <<"refuse">> /\ Head(up[Callee]) = "refuse"
  BY <1>2, OnePacket DEF CallInv, Agree, BeforeAccept
<1>4. /\ up'[Caller] = up[Caller]
      /\ \A x : up[Callee] = <<x>> => up'[Callee] = <<>>
      /\ \/ Gains(down[Caller], down'[Caller], "refuse") /\ Gains(down[Callee], down'[Callee], "ok")
         \/ down'[Caller] = down[Caller] /\ Gains(down[Callee], down'[Callee], "failure")
  BY <1>0, <1>3, Relayed
<1>5. up'[Callee] = <<>>
  BY <1>3, <1>4
<1>6. /\ call[Callee].entry = "none" /\ ~Unsent(call[Caller]) /\ ~asked /\ up[Caller] # <<"request">>
      /\ ~Has(down[Callee], "request")
  <2>1. ~Unsent(call[Caller]) /\ ~asked /\ up[Caller] # <<"request">> /\ ~Has(down[Callee], "request")
    BY <1>3, OnePacket DEF CallInv, Agree, BeforeRequest, OneRequest
  <2>2. call[Callee].entry # "live"
    BY <1>3 DEF CallInv, Agree, BeforeAccept
  <2> QED BY <2>1, <2>2 DEF Unsent
<1>7. /\ \A p \in {"request", "accept", "detected", "ready"} : ~Has(down'[Caller], p)
      /\ \A p \in {"request", "accept", "refuse", "detected", "ready"} : ~Has(down'[Callee], p)
  <2>1. /\ \A p \in {"request", "accept", "detected", "ready"} : ~Has(down[Caller], p)
        /\ \A p \in {"request", "accept", "refuse", "detected", "ready"} : ~Has(down[Callee], p)
    BY <1>6 DEF CallInv, Agree, BeforeAccept
  <2> QED BY <1>4, <2>1 DEF Gains
<1>8. Registers(call', up', down', op', session', worker')
  <2>1. op[Callee] = "none" /\ op[Caller] # "fresh" /\ ~Has(up[Caller], "register") /\ call[Caller].entry # "none"
    BY <1>6 DEF CallInv, Agree, Registers, Unsent
  <2> QED BY <1>1, <1>4, <1>5, <2>1, OnePacket DEF CallInv, Agree, Registers
<1>9. BeforeRequest(call', asked', up', down')
  BY <1>1, <1>6 DEF BeforeRequest
<1>10. up'[Caller] \in {<<>>, <<"register">>, <<"request">>}
  BY <1>4 DEF CallInv, Agree, BeforeAccept
<1>11. OneRequest(call', asked', up', down')
  BY <1>1, <1>4, <1>6, <1>7 DEF OneRequest
<1>12. OwnersThere(session', op', table', listener')
  BY <1>1 DEF CallInv, Agree, OwnersThere
<1> QED BY <1>1, <1>5, <1>6, <1>7, <1>8, <1>9, <1>10, <1>11, <1>12, FirstHalfStep

\* What is relayed after the callee has told its key.
LEMMA LaterRelayed ==
  ASSUME CallInv, NEW e \in Ends, ProcessPacketNETNAT(e), ~Unsent(call[Callee])
  PROVE  AgreeNext
<1> USE TwoEnds
<1>0. TypeInv
  BY DEF CallInv
<1>1. UNCHANGED <<call, asked, probe, session, op, table, worker, listener>>
  BY DEF ProcessPacketNETNAT, clientVars, datagrams, serverVars
<1> PICK p : p = Head(up[e])
  OBVIOUS
<1>2. /\ p \in {"request", "accept", "refuse", "ready"} /\ Has(up[e], p)
      /\ \A x \in Ends : Shrinks(up[x], up'[x]) /\ (x # e => up'[x] = up[x])
      /\ Once(up[e], p) => ~Has(up'[e], p)
      /\ \/ Gains(down[Peer(e)], down'[Peer(e)], p) /\ Gains(down[e], down'[e], "ok")
         \/ down'[Peer(e)] = down[Peer(e)] /\ Gains(down[e], down'[e], "failure")
  BY <1>0, Relayed
<1>3. p # "request"
  BY <1>2, SecondHalf
<1>4. p = "accept" => e = Callee
  BY <1>2 DEF CallInv, Agree, OneAnswer
<1>5. OneAnswer(call', up', down', op')
  <2>1. CASE e = Caller
    <3>1. /\ \A x \in {"accept", "detected"} : \A y \in Ends :
               /\ Has(down'[y], x) <=> Has(down[y], x)
               /\ Once(down[y], x) => Once(down'[y], x)
      BY <1>2, <1>3, <1>4, <2>1 DEF Gains
    <3> QED BY <1>1, <1>2, <2>1, <3>1 DEF CallInv, Agree, OneAnswer, Shrinks
  <2>2. CASE e = Callee /\ p # "accept"
    <3>1. /\ \A x \in {"accept", "detected"} : \A y \in Ends :
               /\ Has(down'[y], x) <=> Has(down[y], x)
               /\ Once(down[y], x) => Once(down'[y], x)
      BY <1>2, <1>3, <2>2 DEF Gains
    <3> QED BY <1>1, <1>2, <2>2, <3>1 DEF CallInv, Agree, OneAnswer, Shrinks
  <2>3. CASE e = Callee /\ p = "accept"
    <3>1. /\ ~Has(up'[Callee], "accept") /\ ~Has(down[Caller], "accept") /\ ~call[Caller].keySet
          /\ up'[Caller] = up[Caller]
      BY <1>2, <2>3 DEF CallInv, Agree, OneAnswer
    <3>2. /\ Has(down'[Caller], "accept") => Once(down'[Caller], "accept")
          /\ Has(down'[Caller], "detected") <=> Has(down[Caller], "detected")
          /\ Once(down[Caller], "detected") => Once(down'[Caller], "detected")
          /\ Has(down'[Callee], "accept") <=> Has(down[Callee], "accept")
      <4>1. \/ Gains(down[Caller], down'[Caller], "accept") /\ Gains(down[Callee], down'[Callee], "ok")
            \/ down'[Caller] = down[Caller] /\ Gains(down[Callee], down'[Callee], "failure")
        BY <1>2, <2>3
      <4>2. Once(down[Caller], "accept")
        BY <3>1 DEF Has, Once
      <4> QED BY <3>1, <4>1, <4>2 DEF Gains
    <3> QED BY <1>1, <3>1, <3>2 DEF CallInv, Agree, OneAnswer
  <2> QED BY <2>1, <2>2, <2>3
<1>6. OwnersThere(session', op', table', listener')
  BY <1>1 DEF CallInv, Agree, OwnersThere
<1>7. \A x \in Ends : /\ ~Has(up'[x], "register") /\ ~Has(up'[x], "request") /\ ~Has(down'[x], "request")
                      /\ op'[x] # "fresh" /\ ~(worker' = x /\ session'[x] = "on") /\ ~Unsent(call'[x])
  <2>1. \A x \in Ends : Has(down'[x], "request") => Has(down[x], "request")
    BY <1>2, <1>3 DEF Gains
  <2>2. \A x \in Ends : Has(up'[x], "request") => Has(up[x], "request")
    BY <1>2 DEF Shrinks
  <2>3. \A x \in Ends : Has(up'[x], "register") => Has(up[x], "register")
    BY <1>2 DEF Shrinks
  <2> QED BY <1>1, <2>1, <2>2, <2>3, SecondHalf
<1>8. ~asked'
  BY <1>1, SecondHalf
<1> QED BY <1>5, <1>6, <1>7, <1>8, SecondHalfStep

\* NATRequest, NATAccept, NATRefuse, NATReady.
LEMMA ProcessAgrees == \A e \in Ends : CallInv /\ ProcessPacketNETNAT(e) => AgreeNext /\ FitNext
<1> SUFFICES ASSUME NEW e \in Ends, CallInv, ProcessPacketNETNAT(e) PROVE AgreeNext /\ FitNext
  OBVIOUS
<1>1. FitNext
  BY ServerFits DEF ProcessPacketNETNAT, clientVars
<1>2. CASE ~Unsent(call[Callee])
  BY <1>1, <1>2, LaterRelayed
<1>3. CASE Unsent(call[Callee]) /\ Head(up[e]) # "request"
  BY <1>1, <1>3, RefusalRelayed
<1>4. CASE Unsent(call[Callee]) /\ Head(up[e]) = "request"
  <2>1. TypeInv
    BY DEF CallInv
  <2>2. Has(up[e], "request")
    BY <1>4, <2>1, Relayed
  <2>3. e # Callee
    BY <1>4, <2>2, OnePacket DEF CallInv, Agree, BeforeAccept
  <2>4. e = Caller
    BY <2>3, TwoEnds
  <2> QED BY <1>1, <1>4, <2>4, RequestRelayed
<1> QED BY <1>2, <1>3, <1>4

\* The operations of a deleted user are cancelled, and their keys with them.
LEMMA RemoveAllAgrees == \A e \in Ends : CallInv /\ UserOperationRemoveAll(e) => AgreeNext /\ FitNext
<1> SUFFICES ASSUME NEW e \in Ends, CallInv, UserOperationRemoveAll(e) PROVE AgreeNext /\ FitNext
  OBVIOUS
<1> USE TwoEnds
<1>1. /\ worker = e /\ session[e] = "closing" /\ worker' = None
      /\ UNCHANGED <<call, asked, up, down, probe, listener>>
  BY DEF UserOperationRemoveAll, clientVars, datagrams
<1>2. session'[e] = "off" /\ \A x \in Ends : x # e => session'[x] = session[x]
  BY DEF UserOperationRemoveAll, CallInv, ServerTypeInv
<1>3. /\ \A x \in Ends : x # e => op'[x] = op[x]
      /\ op[e] = "armed" => op'[e] = "gone" /\ table' = table \ {e}
      /\ op[e] # "armed" => op'[e] = op[e] /\ table' = table
  BY DEF UserOperationRemoveAll, DiscoverCancelHandler, CallInv, ServerTypeInv
<1>4. \A x \in Ends : op[x] # "fresh" /\ op'[x] # "fresh"
  BY <1>1, <1>3 DEF CallInv, Agree, Registers
<1>5. Registers(call', up', down', op', session', worker')
  BY <1>1, <1>3, <1>4 DEF CallInv, Agree, Registers
<1>6. BeforeRequest(call', asked', up', down') /\ BeforeAccept(call', up', down', probe', listener')
  BY <1>1 DEF CallInv, Agree, BeforeRequest, BeforeAccept
<1>7. OneRequest(call', asked', up', down') /\ AfterAccept(call', asked', up', down')
  BY <1>1 DEF CallInv, Agree, OneRequest, AfterAccept
<1>8. OneAnswer(call', up', down', op')
  BY <1>1, <1>3 DEF CallInv, Agree, OneAnswer
<1>9. OwnersThere(session', op', table', listener')
  <2> SUFFICES ASSUME NEW x \in table'
               PROVE  (op'[x] \in {"fresh", "armed"} /\ session'[x] # "off") \/ listener' = <<"told", x>>
    BY DEF OwnersThere
  <2>1. x \in table /\ x \in Ends
    BY <1>3 DEF CallInv, ServerTypeInv
  <2>2. (op[x] \in {"fresh", "armed"} /\ session[x] # "off") \/ listener = <<"told", x>>
    BY <2>1 DEF CallInv, Agree, OwnersThere
  <2> QED BY <1>1, <1>2, <1>3, <1>4, <2>1, <2>2
<1> QED BY <1>1, <1>5, <1>6, <1>7, <1>8, <1>9, ServerFits DEF AgreeNext, Agree

\* Nothing to listen for before the callee has told its key.
LEMMA ListenerIsLater ==
  ASSUME CallInv, NEW e \in Ends, Listener(e)
  PROVE  ~Unsent(call[Callee])
<1>1. e \in probe \/ listener # Idle
  BY DEF Listener, NatHostDiscoverFind, DiscoverDetected, NatHostDiscoverUnregister, Idle
<1> QED BY <1>1 DEF CallInv, Agree, BeforeAccept

\* The listener finds a key, tells its owner, takes it out.
LEMMA ListenerAgrees == \A e \in Ends : CallInv /\ Listener(e) => AgreeNext /\ FitNext
<1> SUFFICES ASSUME NEW e \in Ends, CallInv, Listener(e) PROVE AgreeNext /\ FitNext
  OBVIOUS
<1>1. ~Unsent(call[Callee])
  BY ListenerIsLater
<1>2. UNCHANGED <<call, asked, up, session, worker>>
  BY DEF Listener, NatHostDiscoverFind, DiscoverDetected, NatHostDiscoverUnregister, clientVars
<1>3. /\ down' = down \/ down' = ToClient(down, e, "detected")
      /\ \A x \in Ends : op'[x] # "fresh"
  <2>1. \A x \in Ends : op[x] # "fresh"
    BY <1>1, SecondHalf
  <2> QED BY <2>1 DEF Listener, NatHostDiscoverFind, DiscoverDetected, NatHostDiscoverUnregister,
                      CallInv, ServerTypeInv
<1>4. \A x \in Ends : ~Has(down'[x], "request")
  <2>1. CASE down' = down
    BY <1>1, <2>1, SecondHalf
  <2>2. CASE down' = ToClient(down, e, "detected")
    <3>1. TypeInv /\ "detected" \in Sendable
      BY DEF CallInv, Sendable, Packets
    <3>2. Gains(down[e], down'[e], "detected") /\ \A x \in Ends : x # e => down'[x] = down[x]
      BY <2>2, <3>1, Tells
    <3> QED BY <1>1, <3>2, SecondHalf DEF Gains
  <2> QED BY <1>3, <2>1, <2>2
<1>5. /\ ~asked'
      /\ \A x \in Ends : /\ ~Has(up'[x], "register") /\ ~Has(up'[x], "request")
                         /\ ~(worker' = x /\ session'[x] = "on") /\ ~Unsent(call'[x])
  BY <1>1, <1>2, SecondHalf, TwoEnds
<1>6. OneAnswer(call', up', down', op') /\ OwnersThere(session', op', table', listener')
  <2>1. CASE NatHostDiscoverFind(e)
    <3>1. UNCHANGED <<down, op, table>> /\ listener = Idle
      BY <2>1 DEF NatHostDiscoverFind
    <3>2. \A x : listener # <<"told", x>>
      BY <3>1 DEF Idle
    <3> QED BY <1>2, <3>1, <3>2 DEF CallInv, Agree, OneAnswer, OwnersThere
  <2>2. CASE NatHostDiscoverUnregister(e)
    <3>1. UNCHANGED <<down, op>> /\ table' = table \ {e} /\ listener = <<"told", e>>
      BY <2>2 DEF NatHostDiscoverUnregister
    <3>2. OneAnswer(call', up', down', op')
      BY <1>2, <3>1 DEF CallInv, Agree, OneAnswer
    <3>3. OwnersThere(session', op', table', listener')
      BY <1>2, <3>1 DEF CallInv, Agree, OwnersThere
    <3> QED BY <3>2, <3>3
  <2>3. CASE DiscoverDetected(e)
    <3>1. CASE UNCHANGED <<op, down, listener>>
      BY <1>2, <2>3, <3>1 DEF DiscoverDetected, CallInv, Agree, OneAnswer, OwnersThere
    <3>2. CASE /\ op[e] # "gone" /\ down' = ToClient(down, e, "detected") /\ listener' = <<"told", e>>
               /\ op' = [op EXCEPT ![e] = "gone"]
      <4>1. TypeInv /\ "detected" \in Sendable
        BY DEF CallInv, Sendable, Packets
      <4>2. Gains(down[e], down'[e], "detected") /\ \A x \in Ends : x # e => down'[x] = down[x]
        BY <3>2, <4>1, Tells
      <4>3. op'[e] = "gone" /\ \A x \in Ends : x # e => op'[x] = op[x]
        BY <3>2 DEF CallInv, ServerTypeInv
      <4>4. OneAnswer(call', up', down', op')
        <5>1. CASE e = Caller
          <6>1. ~Has(down[Caller], "detected") /\ call[Caller].addr = "none"
            BY <3>2, <5>1 DEF CallInv, Agree, OneAnswer
          <6>2. Once(down[Caller], "detected")
            BY <6>1 DEF Has, Once
          <6>3. Once(down'[Caller], "detected")
            BY <4>2, <5>1, <6>1, <6>2 DEF Gains
          <6> QED BY <1>2, <4>2, <4>3, <5>1, <6>1, <6>3, TwoEnds DEF CallInv, Agree, OneAnswer, Gains
        <5>2. CASE e = Callee
          BY <1>2, <4>2, <4>3, <5>2, TwoEnds DEF CallInv, Agree, OneAnswer, Gains
        <5> QED BY <5>1, <5>2, TwoEnds
      <4>5. OwnersThere(session', op', table', listener')
        <5>1. UNCHANGED table /\ listener = <<"found", e>>
          BY <2>3 DEF DiscoverDetected
        <5>2. \A x : listener # <<"told", x>>
          BY <5>1
        <5> QED BY <1>2, <3>2, <4>3, <5>1, <5>2 DEF CallInv, ServerTypeInv, Agree, OwnersThere
      <4> QED BY <4>4, <4>5
    <3> QED BY <2>3, <3>1, <3>2 DEF DiscoverDetected
  <2> QED BY <2>1, <2>2, <2>3 DEF Listener
<1> QED BY <1>2, <1>3, <1>4, <1>5, <1>6, SecondHalfStep, ServerFits

-----------------------------------------------------------------------------
(* The variables that CallInv adds to TypeInv.                             *)

\* A round sends datagrams of ends to ends.
LEMMA RoundTyped ==
  ASSUME NEW e \in Ends, NEW c, NEW s, s \subseteq Ends, ServerTypeInv, Round(e, c, s)
  PROVE  probe' \subseteq Ends /\ dgram' \subseteq Ends
BY PeerIsOther DEF Round, Sends, ReadBy, ServerTypeInv

\* The clients leave the server alone.
LEMMA ClientTyped ==
  ASSUME ServerTypeInv, NEW e \in Ends, Receive(e) \/ Thread(e)
  PROVE  /\ probe' \subseteq Ends /\ dgram' \subseteq Ends /\ echo' \subseteq Ends
         /\ asked' \in BOOLEAN /\ undefined' \in BOOLEAN /\ UNCHANGED serverVars
<1>1. CASE ReceiveCall(e)
  <2>1. UNCHANGED <<asked, echo, serverVars>>
    BY <1>1 DEF ReceiveCall
  <2>2. undefined' \in BOOLEAN
    BY <1>1 DEF ReceiveCall, ServerTypeInv
  <2>3. UNCHANGED <<probe, dgram>> \/ \E d : Sends(e, d, dgram)
    BY <1>1 DEF ReceiveCall
  <2>4. probe' \subseteq Ends /\ dgram' \subseteq Ends
    BY <2>3, PeerIsOther DEF Sends, ReadBy, ServerTypeInv
  <2> QED BY <2>1, <2>2, <2>4 DEF ServerTypeInv
<1>2. CASE ReceiveRequest(e)
  BY <1>2 DEF ReceiveRequest, ServerTypeInv, datagrams
<1>3. CASE Thread(e)
  <2>1. UNCHANGED <<asked, serverVars, undefined>>
    BY <1>3 DEF Thread, ThreadRecvFails, ThreadHearsServer, ThreadHearsPeer, ThreadTimeout
  <2>2. echo' \subseteq Ends
    BY <1>3 DEF Thread, ThreadRecvFails, ThreadHearsServer, ThreadHearsPeer, ThreadTimeout, ServerTypeInv
  <2>3. \/ UNCHANGED probe /\ dgram' = dgram \ {e}
        \/ \E c : Round(e, c, dgram) \/ Round(e, c, dgram \ {e})
    BY <1>3 DEF Thread, ThreadRecvFails, ThreadHearsServer, ThreadHearsPeer, ThreadTimeout
  <2>4. probe' \subseteq Ends /\ dgram' \subseteq Ends
    <3>1. dgram \subseteq Ends /\ dgram \ {e} \subseteq Ends
      BY DEF ServerTypeInv
    <3> QED BY <2>3, <3>1, RoundTyped DEF ServerTypeInv
  <2> QED BY <2>1, <2>2, <2>4 DEF ServerTypeInv
<1> QED BY <1>1, <1>2, <1>3 DEF Receive

\* The worker.
LEMMA ServerTyped ==
  ASSUME ServerTypeInv, NEW e \in Ends, Worker(e) \/ OnlineUserTableRemove(e)
  PROVE  ServerTypeInv'
<1> USE DEF ServerTypeInv, clientVars, datagrams
<1>1. CASE NatHostDiscoverRegister(e)
  BY <1>1 DEF NatHostDiscoverRegister
<1>2. CASE RegisterDone(e)
  BY <1>2 DEF RegisterDone
<1>3. CASE ProcessPacketNETNAT(e)
  BY <1>3 DEF ProcessPacketNETNAT, serverVars
<1>4. CASE UserOperationRemoveAll(e)
  BY <1>4 DEF UserOperationRemoveAll, DiscoverCancelHandler
<1>5. CASE OnlineUserTableRemove(e)
  BY <1>5 DEF OnlineUserTableRemove
<1> QED BY <1>1, <1>2, <1>3, <1>4, <1>5 DEF Worker

\* The listener.
LEMMA ListenerTyped ==
  ASSUME ServerTypeInv, NEW e \in Ends, Listener(e)
  PROVE  ServerTypeInv'
<1> USE PeerIsOther DEF ServerTypeInv, clientVars, ReadBy
<1>1. CASE NatHostDiscoverFind(e)
  BY <1>1 DEF NatHostDiscoverFind
<1>2. CASE DiscoverDetected(e)
  <2>1. /\ UNCHANGED <<asked, probe, echo, dgram, session, table, worker>>
        /\ undefined' \in BOOLEAN /\ op' \in [Ends -> {"none", "fresh", "armed", "gone"}]
        /\ listener' = listener \/ listener' = <<"told", e>>
    BY <1>2 DEF DiscoverDetected, datagrams
  <2>2. <<"told", e>> \in {"found", "told"} \X Ends
    OBVIOUS
  <2> QED BY <2>1, <2>2
<1>3. CASE NatHostDiscoverUnregister(e)
  BY <1>3 DEF NatHostDiscoverUnregister
<1> QED BY <1>1, <1>2, <1>3 DEF Listener

-----------------------------------------------------------------------------

\* Before the call nothing is anywhere.
LEMMA CallInit == Init => CallInv
<1> SUFFICES ASSUME Init PROVE CallInv
  OBVIOUS
<1> USE TwoEnds
<1>1. TypeInv
  BY InitHeard DEF HeardInv
<1>2. ServerTypeInv
  BY DEF Init, ServerTypeInv
<1>3. \A e \in Ends : /\ call[e].entry = "none" /\ call[e].at = "none" /\ call[e].threads = 0
                      /\ ~call[e].node /\ ~call[e].ready /\ ~call[e].sent /\ ~call[e].keySet
                      /\ call[e].addr = "none"
  BY DEF Init, NewEnd
<1>4. ThreadsFit
  BY <1>3 DEF ThreadsFit, Fits
<1>5. /\ ~asked /\ probe = {} /\ table = {} /\ worker = None /\ listener = Idle
      /\ \A e \in Ends : up[e] = <<>> /\ down[e] = <<>> /\ session[e] = "on" /\ op[e] = "none"
  BY DEF Init
<1>6. Agree(call, asked, up, down, probe, session, op, table, worker, listener)
  BY <1>3, <1>5, OnePacket DEF Agree, Registers, BeforeRequest, BeforeAccept, OneRequest, AfterAccept,
     OneAnswer, OwnersThere, Unsent
<1> QED BY <1>1, <1>2, <1>4, <1>6 DEF CallInv

\* The users start ends that know nothing.
LEMMA UserFits ==
  ASSUME CallInv, AudioRequestNATDiscover \/ AudioAcceptNatDiscover \/ Refuse
  PROVE  FitNext
<1> USE TwoEnds
<1>0. /\ \A e \in Ends : call[e] \in End /\ Fits(e, call[e])
      /\ call \in [Ends -> End]
  BY DEF CallInv, TypeInv, ThreadsFit
<1>1. CASE AudioRequestNATDiscover
  BY <1>0, <1>1 DEF AudioRequestNATDiscover, FitNext, Fits, End
<1>2. CASE AudioAcceptNatDiscover
  <2>1. call[Callee].entry = "none"
    BY <1>2, Asked DEF AudioAcceptNatDiscover
  <2> QED BY <1>0, <1>2, <2>1 DEF AudioAcceptNatDiscover, FitNext, Fits, End
<1>3. CASE Refuse
  BY <1>0, <1>3 DEF Refuse, FitNext
<1> QED BY <1>1, <1>2, <1>3

\* The users touch nothing of the server.
LEMMA UserTyped ==
  ASSUME ServerTypeInv, AudioRequestNATDiscover \/ AudioAcceptNatDiscover \/ Refuse
  PROVE  ServerTypeInv'
BY DEF AudioRequestNATDiscover, AudioAcceptNatDiscover, Refuse, ServerTypeInv, datagrams, serverVars

\* Every step keeps the invariant.
LEMMA CallStep == HeardInv /\ CallInv /\ [Next]_vars => CallInv'
<1> SUFFICES ASSUME HeardInv, CallInv, [Next]_vars PROVE CallInv'
  OBVIOUS
<1>0. TypeInv' /\ ServerTypeInv
  BY NextHeard DEF HeardInv, CallInv
<1>1. ASSUME ServerTypeInv', AgreeNext, FitNext PROVE CallInv'
  <2>1. ThreadsFit'
    BY <1>1, Zenon DEF ThreadsFit, FitNext, Fits
  <2> QED BY <1>0, <1>1, <2>1, NextAgrees DEF CallInv
<1>2. CASE AudioRequestNATDiscover \/ AudioAcceptNatDiscover \/ Refuse
  BY <1>0, <1>1, <1>2, AskAgrees, AcceptAgrees, RefuseAgrees, UserFits, UserTyped
<1>3. ASSUME NEW e \in Ends, Receive(e) \/ Thread(e) PROVE CallInv'
  <2>1. AgreeNext /\ FitNext
    BY <1>3, PacketArrives, RequestArrives, ThreadAgrees DEF Receive
  <2>2. ServerTypeInv'
    BY <1>0, <1>3, ClientTyped DEF ServerTypeInv, serverVars
  <2> QED BY <1>1, <2>1, <2>2
<1>4. ASSUME NEW e \in Ends, Worker(e) \/ OnlineUserTableRemove(e) PROVE CallInv'
  <2>1. AgreeNext /\ FitNext
    BY <1>4, DeleteAgrees, RegisterAgrees, RegisterDoneAgrees, ProcessAgrees, RemoveAllAgrees DEF Worker
  <2> QED BY <1>0, <1>1, <1>4, <2>1, ServerTyped
<1>5. ASSUME NEW e \in Ends, Listener(e) PROVE CallInv'
  BY <1>0, <1>1, <1>5, ListenerAgrees, ListenerTyped
<1>6. CASE UNCHANGED vars
  <2>1. UNCHANGED <<call, asked, up, down, probe, echo, dgram, session, op, table, worker, listener, undefined>>
    BY <1>6 DEF vars, clientVars, datagrams, serverVars
  <2>2. AgreeNext
    BY <2>1 DEF AgreeNext, CallInv
  <2>3. ServerTypeInv'
    BY <1>0, <2>1 DEF ServerTypeInv
  <2> QED BY <1>1, <2>1, <2>2, <2>3, ServerFits
<1> QED BY <1>2, <1>3, <1>4, <1>5, <1>6 DEF Next

\* The inductive invariant of how a call comes about.
THEOREM CallInvHolds == Spec => []CallInv
<1>1. Init => HeardInv /\ CallInv
  BY InitHeard, CallInit
<1>2. (HeardInv /\ CallInv) /\ [Next]_vars => (HeardInv /\ CallInv)'
  BY NextHeard, CallStep
<1> QED BY <1>1, <1>2, PTL DEF Spec

\* The variables keep their types; in particular an end has at most one thread, although
\* ACCEPT and DETECTED both start it (media.c:198, 215, 370).
THEOREM TypeCorrect == Spec => []TypeOK
<1>1. CallInv => TypeOK
  <2> SUFFICES ASSUME CallInv PROVE TypeOK
    OBVIOUS
  <2>1. \A e \in Ends : call[e] \in End /\ call[e].threads \in 0 .. 1
    <3> SUFFICES ASSUME NEW e \in Ends PROVE call[e] \in End /\ call[e].threads \in 0 .. 1
      OBVIOUS
    <3>1. call[e] \in End /\ Fits(e, call[e])
      BY DEF CallInv, TypeInv, ThreadsFit
    <3> QED BY <3>1 DEF End, Fits
  <2>2. \A c \in End : c.threads \in 0 .. 1 => c \in CallEnd
    BY DEF End, CallEnd
  <2>3. call \in [Ends -> CallEnd]
    BY <2>1, <2>2 DEF CallInv, TypeInv
  <2>4. down \in [Ends -> Seq(Packets)]
    BY DEF CallInv, TypeInv, Sendable
  <2> QED BY <2>3, <2>4 DEF CallInv, TypeInv, ServerTypeInv, TypeOK
<1> QED BY <1>1, CallInvHolds, PTL

\* A packet finds an entry that is gone only after a thread has given up, whatever is lost
\* and whoever leaves (media.c:181, 364).
THEOREM DanglingAfterGivingUpAlways == Spec => []DanglingAfterGivingUp
<1>1. CallInv => DanglingAfterGivingUp
  BY DEF CallInv, ThreadsFit, Fits, DanglingAfterGivingUp
<1> QED BY <1>1, CallInvHolds, PTL

\* A key in the table has an operation of a user who is there, and the listener completes
\* none whose registration is not finished (NATRegister.c:15-52).
THEOREM KeysHaveOwnersAlways == Spec => []KeysHaveOwners
<1>1. CallInv => KeysHaveOwners
  <2> SUFFICES ASSUME CallInv PROVE KeysHaveOwners
    OBVIOUS
  <2>1. \A e \in table : \/ op[e] \in {"fresh", "armed"} /\ session[e] # "off"
                         \/ listener = <<"told", e>>
    BY DEF CallInv, Agree, OwnersThere
  <2>2. ASSUME NEW e \in Ends, op[e] = "fresh" PROVE listener # <<"found", e>>
    <3>1. Unsent(call[Callee])
      BY <2>2, SecondHalf
    <3>2. listener = Idle
      BY <3>1 DEF CallInv, Agree, BeforeAccept
    <3> QED BY <3>2 DEF Idle
  <2> QED BY <2>1, <2>2 DEF KeysHaveOwners
<1> QED BY <1>1, CallInvHolds, PTL

-----------------------------------------------------------------------------
(* Where the sound goes.                                                   *)

\* What an end whose stack held the length l knows of the other's address: it has one
\* when it has heard the other, and the one it has is cut only for a short length.
Reach(l, c) ==
  /\ c.len # "enough" => c.len = l
  /\ c.addr = "garbled" => l = "short"
  /\ c.entry # "freed" /\ c.pipe => c.addr # "none" /\ c.at = "select"
  /\ c.at = "audio" => c.sound = "peer" \/ l = "short"

AddressInv == \A e \in Ends : Reach(setting.lengths[e], call[e])

\* The end of a thread.
LEMMA EndedReaches ==
  ASSUME NEW c \in End, NEW l, Reach(l, c), c.entry # "freed",
         NEW at \in {"audio", "gaveUp", "cancelled"}, at = "audio" => c.pipe
  PROVE  Reach(l, EndThread(c, at))
<1> DEFINE n == NewEnd("enough")
           d == [n EXCEPT !.node = c.node, !.entry = "freed", !.pipe = c.pipe,
                          !.threads = c.threads, !.at = at,
                          !.sound = IF at = "audio" THEN c.addr ELSE "none"]
<1>1. n \in End /\ n.addr = "none" /\ n.len = "enough"
  BY NewIsEnd DEF NewEnd, Lengths
<1>2. EndThread(c, at) = d
  BY DEF EndThread
<1> HIDE DEF n
<1>3. /\ d.addr = "none" /\ d.len = "enough" /\ d.entry = "freed" /\ d.at = at
      /\ d.sound = IF at = "audio" THEN c.addr ELSE "none"
  BY <1>1 DEF End
<1>4. at = "audio" => c.addr = "peer" \/ l = "short"
  BY DEF Reach, End
<1> HIDE DEF d
<1> QED BY <1>2, <1>3, <1>4 DEF Reach

\* A packet from the server.
LEMMA HandledReaches ==
  ASSUME NEW e \in Ends, NEW c \in End, NEW l, Reach(l, c), Fits(e, c), c.node,
         NEW p \in Sendable \ {"request"}, ~HandlerUndefined(e, c, p)
  PROVE  Reach(l, Handled(e, c, p))
<1>1. c.entry = "live"
  BY DEF Fits, HandlerUndefined, End
<1>2. CASE p = "failure"
  <2> DEFINE d == EndThread(c, "cancelled")
  <2>1. Reach(l, d) /\ d \in End
    BY <1>1, EndedReaches, EndedIsEnd
  <2> HIDE DEF d
  <2>2. Handled(e, c, p) = [d EXCEPT !.node = FALSE]
    BY <1>2 DEF Handled, OnFailure, d
  <2> QED BY <2>1, <2>2 DEF Reach, End
<1>3. CASE p # "failure"
  <2> DEFINE d == Handled(e, c, p)
  <2>1. /\ d.addr \in {c.addr, "peer"} /\ d.len = c.len /\ d.entry = c.entry
        /\ d.pipe = c.pipe /\ d.at \in {c.at, "select"} /\ d.sound = c.sound
    BY <1>3 DEF Handled, OnOK, OnAccept, OnDetected, OnReady, OnRefuse, StartThread, End, Packets, Sendable
  <2>2. d.addr = "none" => c.addr = "none"
    BY <2>1
  <2> HIDE DEF d
  <2> QED BY <1>1, <2>1, <2>2 DEF Reach, d
<1> QED BY <1>2, <1>3

\* A round.
LEMMA RoundReaches ==
  ASSUME TypeInv, NEW e \in Ends, NEW c \in End, NEW l, Reach(l, c), c.entry # "freed",
         NEW inSocket, Round(e, c, inSocket)
  PROVE  Reach(l, call'[e]) /\ \A x \in Ends : x # e => call'[x] = call[x]
<1>1. CASE Connected(c)
  <2>1. Reach(l, EndThread(c, "audio"))
    BY <1>1, EndedReaches DEF Connected
  <2> QED BY <1>1, <2>1 DEF Round, TypeInv
<1>2. CASE ~Connected(c)
  BY <1>2 DEF Round, TypeInv
<1> QED BY <1>1, <1>2

\* The thread.
LEMMA ThreadReaches ==
  ASSUME TypeInv, NEW e \in Ends, NEW l, Reach(l, call[e]), Fits(e, call[e]), Thread(e)
  PROVE  Reach(l, call'[e]) /\ \A x \in Ends : x # e => call'[x] = call[x]
<1> DEFINE c == call[e]
<1>1. c \in End /\ c.at = "select" /\ c.entry # "freed"
  BY DEF TypeInv, Thread, ThreadRecvFails, ThreadHearsServer, ThreadHearsPeer, ThreadTimeout, Selects,
         Fits, End
<1>2. CASE ThreadRecvFails(e)
  BY <1>1, <1>2, RoundReaches DEF ThreadRecvFails
<1>3. CASE ThreadHearsServer(e)
  <2> DEFINE d == [c EXCEPT !.served = TRUE, !.len = "enough"]
  <2>1. d \in End /\ Reach(l, d) /\ d.entry # "freed"
    BY <1>1 DEF End, Lengths, Reach
  <2>2. Round(e, d, dgram)
    BY <1>3 DEF ThreadHearsServer
  <2> HIDE DEF d
  <2> QED BY <2>1, <2>2, RoundReaches
<1>4. CASE ThreadHearsPeer(e)
  <2> DEFINE d == [c EXCEPT !.pipe = TRUE, !.len = "enough",
                            !.addr = IF c.len = "enough" THEN "peer" ELSE "garbled"]
  <2>1. c.len # "enough" => l = "short"
    BY <1>1, <1>4 DEF ThreadHearsPeer, Reach, End, Lengths
  <2>2. d \in End /\ Reach(l, d) /\ d.entry # "freed"
    BY <1>1, <2>1 DEF End, Lengths, Reach
  <2>3. Round(e, d, dgram \ {e})
    BY <1>4 DEF ThreadHearsPeer
  <2> HIDE DEF d
  <2> QED BY <2>2, <2>3, RoundReaches
<1>5. CASE ThreadTimeout(e)
  <2> DEFINE d == [c EXCEPT !.tries = c.tries + 1]
             g == EndThread(c, "gaveUp")
  <2>1. d \in End /\ Reach(l, d) /\ d.entry # "freed" /\ d.at = "select"
    BY <1>1 DEF End, Reach
  <2>2. Reach(l, g) /\ g.at = "gaveUp"
    BY <1>1, EndedReaches, EndedIsEnd
  <2>3. Silence(c) \in {d, g}
    BY DEF Silence
  <2>4. /\ Silence(c).at = "gaveUp" => call' = [call EXCEPT ![e] = Silence(c)]
        /\ Silence(c).at # "gaveUp" => Round(e, Silence(c), dgram)
    BY <1>5 DEF ThreadTimeout
  <2> HIDE DEF d, g
  <2>5. CASE Silence(c) = g
    BY <1>1, <2>2, <2>4, <2>5 DEF TypeInv
  <2>6. CASE Silence(c) = d
    <3>1. Round(e, d, dgram)
      BY <2>1, <2>4, <2>6
    <3> QED BY <2>1, <3>1, RoundReaches
  <2> QED BY <2>3, <2>5, <2>6
<1> QED BY <1>2, <1>3, <1>4, <1>5 DEF Thread

\* The users.
LEMMA UserReaches ==
  ASSUME CallInv, AddressInv, AudioRequestNATDiscover \/ AudioAcceptNatDiscover \/ Refuse
  PROVE  AddressInv'
<1> USE TwoEnds
<1>0. /\ \A e \in Ends : call[e] \in End /\ Reach(setting.lengths[e], call[e])
      /\ call \in [Ends -> End]
  BY DEF CallInv, TypeInv, AddressInv
<1>1. CASE AudioRequestNATDiscover
  <2> DEFINE d == [call[Caller] EXCEPT !.node = TRUE, !.entry = "live"]
  <2>1. Reach(setting.lengths[Caller], d)
    BY <1>0, <1>1 DEF AudioRequestNATDiscover, Reach, End
  <2>2. call' = [call EXCEPT ![Caller] = d] /\ setting' = setting
    BY <1>1 DEF AudioRequestNATDiscover
  <2> HIDE DEF d
  <2> QED BY <1>0, <2>1, <2>2 DEF AddressInv, Reach
<1>2. CASE AudioAcceptNatDiscover
  <2> DEFINE d == [call[Callee] EXCEPT !.node = TRUE, !.entry = "live", !.keySet = TRUE]
  <2>1. call[Callee].entry = "none"
    BY <1>2, Asked DEF AudioAcceptNatDiscover
  <2>2. Reach(setting.lengths[Callee], d)
    BY <1>0, <2>1 DEF Reach, End
  <2>3. call' = [call EXCEPT ![Callee] = d] /\ setting' = setting
    BY <1>2 DEF AudioAcceptNatDiscover
  <2> HIDE DEF d
  <2> QED BY <1>0, <2>2, <2>3 DEF AddressInv, Reach
<1>3. CASE Refuse
  BY <1>3 DEF Refuse, AddressInv, Reach
<1> QED BY <1>1, <1>2, <1>3

\* Every step.
LEMMA AddressStep == CallInv /\ AddressInv /\ [Next]_vars => AddressInv'
<1> SUFFICES ASSUME CallInv, AddressInv, [Next]_vars PROVE AddressInv'
  OBVIOUS
<1>0. TypeInv /\ \A e \in Ends : /\ call[e] \in End /\ Fits(e, call[e])
                                /\ Reach(setting.lengths[e], call[e])
  BY DEF CallInv, TypeInv, ThreadsFit, AddressInv
<1>1. ASSUME UNCHANGED <<call, setting>> PROVE AddressInv'
  BY <1>1 DEF AddressInv, Reach
<1>2. ASSUME NEW e \in Ends, setting' = setting, Reach(setting.lengths[e], call'[e]),
             \A x \in Ends : x # e => call'[x] = call[x]
      PROVE  AddressInv'
  <2>1. \A x \in Ends : Reach(setting.lengths[x], call'[x])
    BY <1>0, <1>2
  <2> QED BY <1>2, <2>1 DEF AddressInv, Reach
<1>3. CASE AudioRequestNATDiscover \/ AudioAcceptNatDiscover \/ Refuse
  BY <1>3, UserReaches
<1>4. ASSUME NEW e \in Ends, ReceiveCall(e) PROVE AddressInv'
  <2> DEFINE c == call[e]
             p == Head(down[e])
  <2>1. p \in Sendable \ {"request"} /\ setting' = setting
    BY <1>0, <1>4 DEF ReceiveCall, TypeInv
  <2>2. CASE call' = call
    BY <1>1, <2>1, <2>2
  <2>3. CASE call' # call
    <3>1. c.node /\ ~HandlerUndefined(e, c, p) /\ call' = [call EXCEPT ![e] = Handled(e, c, p)]
      BY <1>4, <2>3 DEF ReceiveCall
    <3>2. Reach(setting.lengths[e], Handled(e, c, p))
      BY <1>0, <2>1, <3>1, HandledReaches
    <3> HIDE DEF c, p
    <3>3. Reach(setting.lengths[e], call'[e]) /\ \A x \in Ends : x # e => call'[x] = call[x]
      BY <1>0, <3>1, <3>2 DEF TypeInv
    <3> QED BY <1>2, <2>1, <3>3
  <2> QED BY <2>2, <2>3
<1>5. ASSUME NEW e \in Ends, Thread(e) PROVE AddressInv'
  <2>1. setting' = setting
    BY <1>5 DEF Thread, ThreadRecvFails, ThreadHearsServer, ThreadHearsPeer, ThreadTimeout
  <2> QED BY <1>0, <1>2, <1>5, <2>1, ThreadReaches
<1>6. ASSUME NEW e \in Ends,
             ReceiveRequest(e) \/ Worker(e) \/ OnlineUserTableRemove(e) \/ Listener(e)
      PROVE  AddressInv'
  BY <1>1, <1>6 DEF ReceiveRequest, Worker, OnlineUserTableRemove, Listener, NatHostDiscoverRegister,
     RegisterDone, ProcessPacketNETNAT, UserOperationRemoveAll, NatHostDiscoverFind, DiscoverDetected,
     NatHostDiscoverUnregister, clientVars
<1>7. CASE UNCHANGED vars
  BY <1>1, <1>7 DEF vars, clientVars
<1> QED BY <1>3, <1>4, <1>5, <1>6, <1>7 DEF Next, Receive

\* It holds at first.
LEMMA AddressInit == Init => AddressInv
<1> SUFFICES ASSUME Init, NEW e \in Ends PROVE Reach(setting.lengths[e], call[e])
  BY DEF AddressInv
<1>1. call[e] = NewEnd(setting.lengths[e])
  BY DEF Init
<1> QED BY <1>1 DEF NewEnd, Reach

\* Whatever is lost, whoever leaves and however long the others try: an end starts to talk
\* only when it has heard the other and the other it, and sends the sound to the address
\* it heard it from unless its stack held a short opAddrLen (media.c:89, 124, 154; audio.c:250).
THEOREM HeardBothWaysAlways == Spec => []HeardBothWays
<1>1. HeardInv /\ AddressInv => HeardBothWays
  BY DEF HeardInv, Heard, AddressInv, Reach, HeardBothWays
<1>2. Init => HeardInv /\ CallInv /\ AddressInv
  BY InitHeard, CallInit, AddressInit
<1>3. (HeardInv /\ CallInv /\ AddressInv) /\ [Next]_vars => (HeardInv /\ CallInv /\ AddressInv)'
  BY NextHeard, CallStep, AddressStep
<1> QED BY <1>1, <1>2, <1>3, PTL DEF Spec
=============================================================================
