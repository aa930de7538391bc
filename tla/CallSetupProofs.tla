-------------------------- MODULE CallSetupProofs --------------------------
(***************************************************************************)
(* The two endpoints of a call together: what the messages on their way    *)
(* say about the endpoint that sent them.                                  *)
(*                                                                         *)
(* CallInvProofs shows what a handler keeps true of its own endpoint.      *)
(* Here the handlers are looked at once more for what they send and for    *)
(* the direction in which they move the session and its dialog.            *)
(***************************************************************************)
EXTENDS CallInvProofs, SequenceTheorems

(***************************************************************************)
(* The way of a session.                                                   *)
(***************************************************************************)

\* The session moves on, never back: Idle, set-up, established, over, released.
Onward(s, t) ==
  /\ s = "Idle" => t \in EarlyState
  /\ s \in EarlyState \ {"Idle"} => t # "Idle"
  /\ s \notin EarlyState => t \notin EarlyState /\ (t = "Released" => s \in OverState)
  /\ s \in OverState => t \in OverState
  /\ s = "Released" => t = "Released"

\* Where a session may come from that rests in a state: the states it may be
\* taken back to are established ones, and each side has its own way of set-up.
Grounded(e) ==
  /\ e.state # "Connected"
  /\ e.state \in EstablishedState \ {"StreamsRunning"} =>
       e.prevState \in EstablishedState /\ e.lastStable # "Idle"
  /\ e.incoming => e.state \notin {"OutgoingInit", "OutgoingProgress", "OutgoingRinging"}
  /\ ~e.incoming => e.state # "IncomingReceived"
  /\ e.state = "Idle" => ~e.attached

\* A handler moves the session on and leaves it where a session may rest.
Course(d, e) == d.incoming = e.incoming /\ Onward(e.state, d.state) /\ Grounded(d)

\* What an INVITE does not write of the op and of the stack.
Kept(d, e) ==
  /\ d.incoming = e.incoming /\ d.released = e.released /\ d.releaseLater = e.releaseLater
  /\ d.remote = e.remote /\ d.dialog = e.dialog /\ d.server = e.server
  /\ d.info = e.info /\ d.bye = e.bye

\* What setState() does not write, but for the op of a session it releases.
Beside(d, e) ==
  /\ Kept(d, e)
  /\ d.retry = e.retry /\ d.timers = e.timers /\ d.lastRequest = e.lastRequest
  /\ d.offer = e.offer /\ d.client = e.client

\* The same of a handler that sends nothing.
Apart(d, e) == Beside(d, e) /\ d.out = e.out

\* CallSessionPrivate::setState() sends nothing, and writes neither dialog nor
\* transactions.
LEMMA SetStateApart ==
  ASSUME NEW e \in Endpoint, NEW s \in CallState
  PROVE  Apart(SetState(e, s), e)
<1> DEFINE noted == [e EXCEPT !.prevState = e.state,
                              !.lastStable = IF e.state \in {"StreamsRunning", "Paused"}
                                             THEN e.state ELSE @]
           moved == [noted EXCEPT !.state = s, !.execLater = TRUE]
<1>1. noted \in Endpoint /\ Apart(noted, e)
  <2>1. noted \in Endpoint BY Zenon DEF Endpoint
  <2>2. Apart(noted, e) BY DEF Apart, Beside, Kept, Endpoint
  <2> QED BY <2>1, <2>2
<1> HIDE DEF noted
<1>2. moved \in Endpoint BY <1>1, Zenon DEF Endpoint
<1>3. Apart(moved, noted) BY <1>1 DEF Apart, Beside, Kept, Endpoint
<1>4. Apart([noted EXCEPT !.fatal = TRUE], noted) BY <1>1 DEF Apart, Beside, Kept, Endpoint
<1> HIDE DEF moved
<1>5. Apart(SetSessionReleased(moved), moved)
  BY <1>2 DEF SetSessionReleased, OpRelease, Apart, Beside, Kept, Endpoint
<1> QED BY <1>1, <1>3, <1>4, <1>5 DEF SetState, noted, moved, Apart, Beside, Kept

\* Nothing but what is sent.
Twin(d, e) == Beside(d, e) /\ SameSession(d, e) /\ d.op = e.op

\* Sending changes nothing but what is sent.
LEMMA SendTwin ==
  ASSUME NEW e \in Endpoint, NEW m \in Msg
  PROVE  /\ Send(e, m) \in Endpoint /\ Twin(Send(e, m), e)
         /\ Send(e, m).out = Append(e.out, m)
<1>1. Send(e, m) \in Endpoint BY SendType
<1> QED BY <1>1 DEF Send, Twin, Beside, Kept, SameSession, Endpoint

\* A handler that leaves the session alone moves it nowhere.
LEMMA SameCourse ==
  ASSUME NEW e \in Endpoint, Grounded(e), NEW d, d.incoming = e.incoming,
         d.state = e.state, d.prevState = e.prevState, d.lastStable = e.lastStable,
         d.attached => e.attached
  PROVE  Course(d, e)
BY DEF Course, Grounded, Onward, OverState, EarlyState

\* A session that ends moves on.
LEMMA OverCourse ==
  ASSUME NEW e \in Endpoint, NEW d, d.incoming = e.incoming, e.state # "Idle",
         d.state \in OverState, e.state = "Released" => d.state = "Released",
         d.state = "Released" => e.state \in EarlyState \cup OverState
  PROVE  Course(d, e)
BY DEF Course, Grounded, Onward, OverState, EarlyState, EstablishedState

\* What CallSessionPrivate::setState() makes of a session, if the transition is legal.
LEMMA SetStateTo ==
  ASSUME NEW e \in Endpoint, NEW s \in CallState \ {"Released"}, ~BadTransition(e.state, s)
  PROVE  LET d == SetState(e, s)
         IN  /\ d \in Endpoint /\ Apart(d, e) /\ d.op = e.op /\ d.attached = e.attached
             /\ d.state = s /\ d.incoming = e.incoming
             /\ d.prevState = IF e.state = s THEN e.prevState ELSE e.state
             /\ d.lastStable = IF e.state # s /\ e.state \in {"StreamsRunning", "Paused"}
                               THEN e.state ELSE e.lastStable
<1>1. SetState(e, s) \in Endpoint BY SetStateType
<1>2. Apart(SetState(e, s), e) BY SetStateApart
<1>3. CASE e.state = s BY <1>1, <1>2, <1>3 DEF SetState
<1>4. CASE e.state # s BY <1>1, <1>2, <1>4 DEF SetState, Endpoint
<1> QED BY <1>3, <1>4

\* A renegotiation moves an established session to an established one.
LEMMA EstablishedCourse ==
  ASSUME NEW e \in Endpoint, Grounded(e), e.state \in EstablishedState,
         NEW s \in EstablishedState
  PROVE  /\ Course(SetState(e, s), e) /\ SetState(e, s) \in Endpoint
         /\ SetState(e, s).state = s /\ Apart(SetState(e, s), e)
         /\ SetState(e, s).op = e.op /\ SetState(e, s).attached = e.attached
<1>1. s \in CallState \ {"Released"} /\ ~BadTransition(e.state, s)
  BY DEF EstablishedState, CallState, BadTransition
<1> DEFINE d == SetState(e, s)
<1>2. /\ d \in Endpoint /\ Apart(d, e) /\ d.op = e.op /\ d.attached = e.attached
      /\ d.state = s /\ d.incoming = e.incoming
      /\ d.prevState = IF e.state = s THEN e.prevState ELSE e.state
      /\ d.lastStable = IF e.state # s /\ e.state \in {"StreamsRunning", "Paused"}
                        THEN e.state ELSE e.lastStable
  BY <1>1, SetStateTo
<1> HIDE DEF d
<1>3. Course(d, e)
  BY <1>2 DEF Course, Onward, Grounded, EstablishedState, EarlyState, OverState
<1> QED BY <1>2, <1>3 DEF d

\* One move after another of an established session is a move.
LEMMA CourseChain ==
  ASSUME NEW e \in Endpoint, NEW d \in Endpoint, NEW f, Course(d, e), Course(f, d),
         e.state \in EstablishedState, d.state \in EstablishedState
  PROVE  Course(f, e)
BY DEF Course, Onward, EarlyState, OverState, EstablishedState

\* MediaSession::initiateOutgoing() and startInvite(): what is offered first is a
\* stream in both directions.
LEMMA InitiateOutgoingCourse ==
  ASSUME NEW e \in Endpoint, ~e.incoming, e.state = "Idle"
  PROVE  LET d == InitiateOutgoing(e)
         IN  /\ Course(d, e) /\ d \in Endpoint /\ Apart(d, e) /\ d.op = e.op
             /\ d.state = "OutgoingInit"
<1> DEFINE a == [e EXCEPT !.attached = TRUE]
<1>1. a \in Endpoint /\ Apart(a, e) /\ a.state = e.state /\ a.op = e.op
  <2>1. a \in Endpoint BY Zenon DEF Endpoint
  <2> QED BY <2>1 DEF Apart, Beside, Kept, Endpoint
<1> HIDE DEF a
<1>2. "OutgoingInit" \in CallState \ {"Released"} /\ ~BadTransition(a.state, "OutgoingInit")
  BY <1>1 DEF CallState, BadTransition
<1> DEFINE d == SetState(a, "OutgoingInit")
<1>3. d \in Endpoint /\ Apart(d, a) /\ d.op = a.op /\ d.state = "OutgoingInit"
  BY <1>1, <1>2, SetStateTo
<1> HIDE DEF d
<1>4. Course(d, e)
  BY <1>1, <1>3 DEF Course, Grounded, Onward, Apart, Beside, Kept, EarlyState, OverState, EstablishedState
<1> QED BY <1>1, <1>3, <1>4 DEF InitiateOutgoing, d, a, Apart, Beside, Kept

\* An INVITE opens its client transaction and is the last request of the op.
LEMMA SendInviteFacts ==
  ASSUME NEW e \in Endpoint, NEW dir \in Dir
  PROVE  LET d == SendInvite(e, dir)
         IN  /\ d \in Endpoint /\ SameSession(d, e) /\ Kept(d, e) /\ d.op = e.op
             /\ d.client = "calling" /\ d.lastRequest = "INVITE" /\ d.offer = dir
             /\ d.out = Append(e.out, Request("INVITE", dir))
<1> DEFINE a == [e EXCEPT !.client = "calling", !.lastRequest = "INVITE", !.offer = dir]
           m == Request("INVITE", dir)
<1>1. a \in Endpoint BY Zenon DEF Endpoint, ClientState, Method
<1>2. /\ SameSession(a, e) /\ Kept(a, e) /\ a.op = e.op /\ a.out = e.out
      /\ a.client = "calling" /\ a.lastRequest = "INVITE" /\ a.offer = dir
  BY <1>1 DEF SameSession, Kept, Endpoint
<1> HIDE DEF a
<1>3. m \in Msg BY DEF Msg, Request, Method, Code
<1> HIDE DEF m
<1>4. Send(a, m) \in Endpoint /\ Twin(Send(a, m), a) /\ Send(a, m).out = Append(a.out, m)
  BY <1>1, <1>3, SendTwin
<1>5. SendInvite(e, dir) = Send(a, m) BY DEF SendInvite, a, m
<1> HIDE DEF a, m
<1> QED BY <1>2, <1>4, <1>5 DEF Twin, Beside, Kept, SameSession, m

\* MediaSession::startInvite() takes the session to OutgoingProgress.
LEMMA StartInviteCourse ==
  ASSUME NEW e \in Endpoint, ~e.incoming, e.state = "OutgoingInit", e.out = <<>>
  PROVE  LET d == StartInvite(e)
         IN  /\ Course(d, e) /\ d \in Endpoint
             /\ d.state = "OutgoingProgress" /\ d.op = e.op /\ d.dialog = e.dialog
             /\ d.client = "calling" /\ d.bye = e.bye /\ d.info = e.info
             /\ d.lastRequest = "INVITE" /\ d.offer = "sendrecv"
             /\ d.released = e.released /\ d.releaseLater = e.releaseLater
             /\ d.out = <<Request("INVITE", "sendrecv")>>
<1> DEFINE m == Request("INVITE", "sendrecv")
           i == SendInvite(e, "sendrecv")
           d == SetState(i, "OutgoingProgress")
<1>1. LocalDir(e) = "sendrecv" BY DEF LocalDir
<1>2. i \in Endpoint BY SendInviteType DEF Dir
<1>3. /\ i.incoming = e.incoming /\ i.state = e.state /\ i.op = e.op
      /\ i.dialog = e.dialog /\ i.client = "calling" /\ i.bye = e.bye /\ i.info = e.info
      /\ i.lastRequest = "INVITE" /\ i.offer = "sendrecv"
      /\ i.released = e.released /\ i.releaseLater = e.releaseLater
      /\ i.out = <<m>>
  <2>1. "sendrecv" \in Dir /\ Append(<<>>, m) = <<m>> BY DEF Dir
  <2> QED BY <2>1, SendInviteFacts DEF Kept, SameSession
<1> HIDE DEF i, m
<1>4. "OutgoingProgress" \in CallState \ {"Released"} /\ ~BadTransition(i.state, "OutgoingProgress")
  BY <1>3 DEF CallState, BadTransition
<1>5. d \in Endpoint /\ Apart(d, i) /\ d.op = i.op /\ d.state = "OutgoingProgress"
  BY <1>2, <1>4, SetStateTo
<1> HIDE DEF d
<1>6. Course(d, e)
  BY <1>3, <1>5 DEF Course, Grounded, Onward, Apart, Beside, Kept, EarlyState, OverState, EstablishedState
<1>7. StartInvite(e) = d BY <1>1 DEF StartInvite, d, i
<1>8. /\ d.state = "OutgoingProgress" /\ d.op = e.op /\ d.dialog = e.dialog
      /\ d.client = "calling" /\ d.bye = e.bye /\ d.info = e.info
      /\ d.lastRequest = "INVITE" /\ d.offer = "sendrecv"
      /\ d.released = e.released /\ d.releaseLater = e.releaseLater
      /\ d.out = <<m>>
  BY <1>3, <1>5 DEF Apart, Beside, Kept
<1> QED BY <1>5, <1>6, <1>7, <1>8 DEF m

\* A final response closes the server transaction.
LEMMA ReplyFacts ==
  ASSUME NEW e \in Endpoint, e.server, NEW code \in Code \ {0}, NEW dir \in Dir \cup {"none"}
  PROVE  LET d == Reply(e, code, dir)
         IN  /\ d \in Endpoint /\ SameSession(d, e) /\ d.op = e.op /\ ~d.server
             /\ d.released = e.released /\ d.releaseLater = e.releaseLater
             /\ d.info = e.info /\ d.bye = e.bye /\ d.client = e.client
             /\ d.dialog = IF code >= 300 /\ e.dialog \in {"Null", "Early"}
                           THEN "TermEarly" ELSE e.dialog
             /\ d.out = Append(e.out, Response("INVITE", code, dir))
<1> DEFINE g == IF code >= 300 /\ e.dialog \in {"Null", "Early"} THEN "TermEarly" ELSE e.dialog
           a == [e EXCEPT !.server = FALSE, !.dialog = g]
           m == Response("INVITE", code, dir)
<1>1. g \in DialogState BY Zenon DEF Endpoint, DialogState
<1>2. a \in Endpoint
  <2> HIDE DEF g
  <2> QED BY <1>1, Zenon DEF Endpoint
<1>3. Reply(e, code, dir) = Send(a, m) BY DEF Reply, a, g, m
<1>4. /\ SameSession(a, e) /\ a.op = e.op /\ ~a.server /\ a.out = e.out
      /\ a.released = e.released /\ a.releaseLater = e.releaseLater
      /\ a.info = e.info /\ a.bye = e.bye /\ a.client = e.client /\ a.dialog = g
  <2> HIDE DEF g
  <2> QED BY <1>2 DEF SameSession, Endpoint
<1> HIDE DEF a
<1>5. m \in Msg BY MsgType DEF Method
<1> HIDE DEF m
<1>6. Send(a, m) \in Endpoint /\ Twin(Send(a, m), a) /\ Send(a, m).out = Append(a.out, m)
  BY <1>2, <1>5, SendTwin
<1> HIDE DEF g
<1>7. LET d == Send(a, m)
      IN  /\ d \in Endpoint /\ SameSession(d, e) /\ d.op = e.op /\ ~d.server
          /\ d.released = e.released /\ d.releaseLater = e.releaseLater
          /\ d.info = e.info /\ d.bye = e.bye /\ d.client = e.client /\ d.dialog = g
          /\ d.out = Append(e.out, m)
  BY <1>4, <1>6 DEF Twin, Beside, Kept, SameSession
<1> QED BY <1>3, <1>7 DEF g, m

\* SalCallOp::accept() sends the one 200 of a server transaction and confirms the
\* dialog; without a server transaction it does nothing.
LEMMA OpAcceptFacts ==
  ASSUME NEW e \in Endpoint, e.server
  PROVE  LET d == OpAccept(e)
         IN  /\ d \in Endpoint /\ SameSession(d, e) /\ ~d.server
             /\ d.op = IF e.op = "Early" THEN "Active" ELSE e.op
             /\ d.released = e.released /\ d.releaseLater = e.releaseLater
             /\ d.info = e.info /\ d.bye = e.bye /\ d.client = e.client
             /\ d.dialog = IF e.dialog \in {"Null", "Early"} THEN "Confirmed" ELSE e.dialog
             /\ d.out = Append(e.out, Response("INVITE", 200,
                                        ComputeDirIncoming(LocalDir(e), e.remote)))
<1> DEFINE a == ComputeDirIncoming(LocalDir(e), e.remote)
           r == Reply(e, 200, a)
<1>1. a \in Dir BY DirType DEF Endpoint
<1> HIDE DEF a
<1>2. /\ r \in Endpoint /\ SameSession(r, e) /\ r.op = e.op /\ ~r.server
      /\ r.released = e.released /\ r.releaseLater = e.releaseLater
      /\ r.info = e.info /\ r.bye = e.bye /\ r.client = e.client /\ r.dialog = e.dialog
      /\ r.out = Append(e.out, Response("INVITE", 200, a))
  <2>1. 200 \in Code \ {0} /\ ~(200 >= 300) BY DEF Code
  <2> QED BY <1>1, <2>1, ReplyFacts
<1> HIDE DEF r
<1>3. OpAccept(e) = [r EXCEPT !.dialog = IF @ \in {"Null", "Early"} THEN "Confirmed" ELSE @,
                              !.op = IF @ = "Early" THEN "Active" ELSE @, !.result = a]
  BY DEF OpAccept, r, a
<1>4. OpAccept(e) \in Endpoint BY OpAcceptType
<1>5. LET d == OpAccept(e)
      IN  /\ SameSession(d, r) /\ ~d.server
          /\ d.op = IF r.op = "Early" THEN "Active" ELSE r.op
          /\ d.released = r.released /\ d.releaseLater = r.releaseLater
          /\ d.info = r.info /\ d.bye = r.bye /\ d.client = r.client
          /\ d.dialog = IF r.dialog \in {"Null", "Early"} THEN "Confirmed" ELSE r.dialog
          /\ d.out = r.out
  BY <1>2, <1>3, <1>4 DEF SameSession, Endpoint
<1> QED BY <1>2, <1>4, <1>5 DEF SameSession, a

\* MediaSessionPrivate::startAccept(): the answer to that offer is one as well.
LEMMA StartAcceptCourse ==
  ASSUME NEW e \in Endpoint, EndpointInv(e), e.incoming, e.state = "IncomingReceived",
         e.out = <<>>
  PROVE  LET d == StartAccept(e)
         IN  /\ Course(d, e) /\ d \in Endpoint
             /\ d.state = "StreamsRunning" /\ d.dialog = "Confirmed" /\ ~d.server
             /\ d.bye = e.bye /\ d.released = e.released /\ d.releaseLater = e.releaseLater
             /\ \E a \in Dir : d.out = <<Response("INVITE", 200, a)>>
                               /\ (e.remote = "sendrecv" => a = "sendrecv")
<1> DEFINE a == ComputeDirIncoming(LocalDir(e), e.remote)
           m == Response("INVITE", 200, a)
           o == OpAccept(e)
           c == SetState(o, "Connected")
           d == SetState(c, "StreamsRunning")
<1>1. a \in Dir /\ (e.remote = "sendrecv" => a = "sendrecv")
  <2>1. a \in Dir BY DirType DEF Endpoint
  <2>2. LocalDir(e) = "sendrecv" BY DEF LocalDir
  <2>3. e.remote = "sendrecv" => a = "sendrecv" BY <2>2 DEF ComputeDirIncoming
  <2> QED BY <2>1, <2>3
<1>2. o \in Endpoint BY OpAcceptType
<1>3. e.server /\ e.dialog = "Early" BY DEF EndpointInv, FreshInv
<1> HIDE DEF a
<1>4. /\ o.incoming = e.incoming /\ o.state = e.state /\ o.dialog = "Confirmed" /\ ~o.server
      /\ o.bye = e.bye /\ o.released = e.released /\ o.releaseLater = e.releaseLater
      /\ o.out = <<m>>
  <2>1. Append(<<>>, m) = <<m>> OBVIOUS
  <2> QED BY <1>3, <2>1, OpAcceptFacts DEF SameSession, a
<1> HIDE DEF o, m
<1>5. "Connected" \in CallState \ {"Released"} /\ ~BadTransition(o.state, "Connected")
      /\ "StreamsRunning" \in CallState \ {"Released"}
  BY <1>4 DEF CallState, BadTransition
<1>6. c \in Endpoint /\ Apart(c, o) /\ c.state = "Connected" BY <1>2, <1>5, SetStateTo
<1> HIDE DEF c
<1>7. ~BadTransition(c.state, "StreamsRunning") BY <1>6 DEF BadTransition
<1>8. d \in Endpoint /\ Apart(d, c) /\ d.state = "StreamsRunning" BY <1>5, <1>6, <1>7, SetStateTo
<1> HIDE DEF d
<1>9. Course(d, e)
  BY <1>4, <1>6, <1>8 DEF Course, Grounded, Onward, Apart, Beside, Kept, EarlyState, OverState, EstablishedState
<1>10. d.dialog = "Confirmed" /\ ~d.server /\ d.bye = e.bye /\ d.released = e.released
       /\ d.releaseLater = e.releaseLater /\ d.out = <<m>>
  BY <1>4, <1>6, <1>8 DEF Apart, Beside, Kept
<1> QED BY <1>1, <1>8, <1>9, <1>10 DEF StartAccept, d, c, o, m

(***************************************************************************)
(* Renegotiation.                                                          *)
(***************************************************************************)

\* What a handler does that may ask for a re-INVITE: the dialog and the op stay,
\* and an INVITE is sent in a confirmed dialog only.
Renewed(d, e) ==
  /\ d \in Endpoint /\ Kept(d, e) /\ d.op = e.op /\ Course(d, e)
  /\ d.attached = e.attached
  /\ e.state \notin EstablishedState => d.state = e.state
  /\ e.state \in EstablishedState => d.state \in EstablishedState
  /\ \/ /\ d.out = <<>>
        /\ d.client = e.client /\ d.lastRequest = e.lastRequest /\ d.offer = e.offer
     \/ e.dialog = "Confirmed" /\ \E x \in Dir : d.out = <<Request("INVITE", x)>>

\* A handler that writes the retry function, a timer or the queue of actions only.
LEMMA SameRenewed ==
  ASSUME NEW e \in Endpoint, Grounded(e), NEW d \in Endpoint,
         SameSession(d, e), Beside(d, e), d.op = e.op, d.out = <<>>
  PROVE  Renewed(d, e)
<1>1. Course(d, e) BY SameCourse DEF SameSession
<1> QED BY <1>1 DEF Renewed, Beside, SameSession

\* SalCallOp::update() sends an INVITE or does nothing.
LEMMA OpUpdateFacts ==
  ASSUME NEW e \in Endpoint, e.out = <<>>
  PROVE  LET d == OpUpdate(e)
         IN  /\ d \in Endpoint /\ SameSession(d, e) /\ Kept(d, e) /\ d.op = e.op
             /\ \/ d = e
                \/ e.dialog = "Confirmed" /\ \E x \in Dir : d.out = <<Request("INVITE", x)>>
<1>1. CASE ~CanSendRequest(e) BY <1>1 DEF OpUpdate, SameSession, Kept
<1>2. CASE CanSendRequest(e)
  <2> DEFINE d == SendInvite(e, LocalDir(e))
  <2>1. LocalDir(e) \in Dir BY DirType
  <2>2. /\ d \in Endpoint /\ SameSession(d, e) /\ Kept(d, e) /\ d.op = e.op
        /\ d.out = Append(<<>>, Request("INVITE", LocalDir(e)))
    BY <2>1, SendInviteFacts
  <2>3. d.out = <<Request("INVITE", LocalDir(e))>> BY <2>2
  <2>4. OpUpdate(e) = d BY <1>2 DEF OpUpdate
  <2>5. e.dialog = "Confirmed" BY <1>2 DEF CanSendRequest
  <2> HIDE DEF d
  <2> QED BY <2>1, <2>2, <2>3, <2>4, <2>5
<1> QED BY <1>1, <1>2

\* Asking for a re-INVITE after the session has moved to an established state.
LEMMA AskRenewed ==
  ASSUME NEW e \in Endpoint, Grounded(e), e.state \in EstablishedState, e.out = <<>>,
         NEW d \in Endpoint, Course(d, e), Apart(d, e), d.op = e.op, d.attached = e.attached,
         d.state \in EstablishedState,
         NEW f \in Endpoint, SameSession(f, d), Kept(f, d), f.op = d.op,
         \/ /\ f.out = <<>>
            /\ f.client = d.client /\ f.lastRequest = d.lastRequest /\ f.offer = d.offer
         \/ d.dialog = "Confirmed" /\ \E x \in Dir : f.out = <<Request("INVITE", x)>>
  PROVE  Renewed(f, e)
<1>1. Course(f, e)
  BY DEF Course, SameSession, Grounded
<1> QED BY <1>1 DEF Renewed, Apart, Beside, Kept, SameSession

\* SalOp::setRetryFunction() writes the retry function only.
LEMMA SetRetryFacts ==
  ASSUME NEW e \in Endpoint, NEW r \in RetryFunc
  PROVE  LET d == [e EXCEPT !.retry = r]
         IN  /\ d \in Endpoint /\ SameSession(d, e) /\ Kept(d, e) /\ d.op = e.op
             /\ d.out = e.out /\ d.timers = e.timers
             /\ d.client = e.client /\ d.lastRequest = e.lastRequest /\ d.offer = e.offer
<1>1. [e EXCEPT !.retry = r] \in Endpoint BY SetRetryType
<1> QED BY <1>1 DEF SameSession, Kept, Endpoint

\* MediaSession::pause() and MediaSession::update().
LEMMA PauseRenewed ==
  ASSUME NEW e \in Endpoint, Grounded(e), CanPause(e), e.out = <<>>
  PROVE  Renewed(Pause(e), e)
<1> DEFINE d == SetState(e, "Pausing")
           p == OpUpdate(d)
           r == [p EXCEPT !.retry = "pause"]
<1>1. e.state \in EstablishedState /\ "Pausing" \in EstablishedState
  BY DEF CanPause, EstablishedState
<1>2. /\ Course(d, e) /\ d \in Endpoint /\ Apart(d, e) /\ d.op = e.op
      /\ d.attached = e.attached /\ d.state \in EstablishedState
  BY <1>1, EstablishedCourse
<1> HIDE DEF d
<1>3. d.out = <<>> BY <1>2 DEF Apart
<1>4. /\ p \in Endpoint /\ SameSession(p, d) /\ Kept(p, d) /\ p.op = d.op
      /\ \/ p = d
         \/ d.dialog = "Confirmed" /\ \E x \in Dir : p.out = <<Request("INVITE", x)>>
  BY <1>2, <1>3, OpUpdateFacts
<1> HIDE DEF p
<1>5. /\ r \in Endpoint /\ SameSession(r, p) /\ Kept(r, p) /\ r.op = p.op /\ r.out = p.out
      /\ r.client = p.client /\ r.lastRequest = p.lastRequest /\ r.offer = p.offer
  BY <1>4, SetRetryFacts, NamedRetries
<1> HIDE DEF r
<1>6. SameSession(r, d) /\ Kept(r, d) /\ r.op = d.op BY <1>4, <1>5 DEF SameSession, Kept
<1>7. Renewed(r, e) BY <1>1, <1>2, <1>3, <1>4, <1>5, <1>6, AskRenewed
<1> QED BY <1>7 DEF Pause, r, p, d

\* MediaSession::update() sends one INVITE at most.
LEMMA UpdateRenewed ==
  ASSUME NEW e \in Endpoint, EndpointInv(e), Grounded(e), CanUpdate(e), e.out = <<>>
  PROVE  Renewed(Update(e), e)
<1> DEFINE s == UpdateState[e.state]
           d == SetState(e, s)
           p == OpUpdate(d)
           r == [p EXCEPT !.retry = "update"]
<1>1. e.state \in EstablishedState /\ s \in EstablishedState
  BY DEF CanUpdate, UpdateState, TransientState, EstablishedState, Grounded
<1> HIDE DEF s
<1>2. /\ Course(d, e) /\ d \in Endpoint /\ Apart(d, e) /\ d.op = e.op
      /\ d.attached = e.attached /\ d.state \in EstablishedState
  BY <1>1, EstablishedCourse
<1> HIDE DEF d
<1>3. d.out = <<>> BY <1>2 DEF Apart
<1>4. /\ p \in Endpoint /\ SameSession(p, d) /\ Kept(p, d) /\ p.op = d.op
      /\ \/ p = d
         \/ d.dialog = "Confirmed" /\ \E x \in Dir : p.out = <<Request("INVITE", x)>>
  BY <1>2, <1>3, OpUpdateFacts
<1> HIDE DEF p
<1>5. /\ r \in Endpoint /\ SameSession(r, p) /\ Kept(r, p) /\ r.op = p.op /\ r.out = p.out
      /\ r.client = p.client /\ r.lastRequest = p.lastRequest /\ r.offer = p.offer
  BY <1>4, SetRetryFacts, NamedRetries
<1> HIDE DEF r
<1>6. SameSession(r, d) /\ Kept(r, d) /\ r.op = d.op BY <1>4, <1>5 DEF SameSession, Kept
<1>7. Renewed(r, e) BY <1>1, <1>2, <1>3, <1>4, <1>5, <1>6, AskRenewed
<1> QED BY <1>7 DEF Update, r, p, d, s

\* What only writes the retry function, its timers or the queue of pending actions.
Trimmed(d, e) ==
  /\ d \in Endpoint /\ SameSession(d, e) /\ Kept(d, e) /\ d.op = e.op /\ d.out = e.out
  /\ d.client = e.client /\ d.lastRequest = e.lastRequest /\ d.offer = e.offer

\* What is written before and after a request of a session changes nothing about it.
LEMMA TrimmedRenewed ==
  ASSUME NEW e \in Endpoint, NEW x \in Endpoint, NEW y \in Endpoint, NEW d \in Endpoint,
         Trimmed(x, e), Renewed(y, x), Trimmed(d, y)
  PROVE  Renewed(d, e)
<1>1. Course(d, e) BY DEF Trimmed, Renewed, SameSession, Course, Grounded
<1> QED BY <1>1 DEF Trimmed, Renewed, SameSession, Kept

\* Setting the retry function is such a write.
LEMMA SetRetryTrimmed ==
  ASSUME NEW e \in Endpoint, NEW r \in RetryFunc
  PROVE  Trimmed([e EXCEPT !.retry = r], e) /\ [e EXCEPT !.retry = r].timers = e.timers
BY SetRetryFacts DEF Trimmed

\* So is none.
LEMMA SelfTrimmed ==
  ASSUME NEW e \in Endpoint
  PROVE  Trimmed(e, e)
BY DEF Trimmed, SameSession, Kept

\* So is counting a pending action.
LEMMA SetPendingTrimmed ==
  ASSUME NEW e \in Endpoint, NEW n \in Nat
  PROVE  Trimmed([e EXCEPT !.pendingActions = n], e)
<1>1. [e EXCEPT !.pendingActions = n] \in Endpoint BY Zenon DEF Endpoint
<1> QED BY <1>1 DEF Trimmed, SameSession, Kept, Endpoint

\* A handler that writes nothing else leaves the session where it is.
LEMMA StillRenewed ==
  ASSUME NEW e \in Endpoint, Grounded(e), e.out = <<>>, NEW d \in Endpoint, Trimmed(d, e)
  PROVE  Renewed(d, e)
<1>1. Course(d, e) BY SameCourse DEF Trimmed, SameSession
<1> QED BY <1>1 DEF Renewed, Trimmed, SameSession

\* The retryable part of MediaSession::resume() asks, or goes back to where it came from.
LEMMA RetryResumeRenewed ==
  ASSUME NEW e \in Endpoint, Grounded(e), e.state \in EstablishedState, e.out = <<>>
  PROVE  Renewed(RetryResume(e), e)
<1> DEFINE r == SetState(e, "Resuming")
           p == OpUpdate(r)
           b == SetState(r, e.state)
<1>1. "Resuming" \in EstablishedState BY DEF EstablishedState
<1>2. /\ Course(r, e) /\ r \in Endpoint /\ Apart(r, e) /\ r.op = e.op /\ r.attached = e.attached
      /\ r.state = "Resuming"
  BY <1>1, EstablishedCourse
<1> HIDE DEF r
<1>3. r.out = <<>> BY <1>2 DEF Apart
<1>4. CASE CanSendRequest(r)
  <2>1. /\ p \in Endpoint /\ SameSession(p, r) /\ Kept(p, r) /\ p.op = r.op
        /\ \/ p = r
           \/ r.dialog = "Confirmed" /\ \E x \in Dir : p.out = <<Request("INVITE", x)>>
    BY <1>2, <1>3, OpUpdateFacts
  <2> HIDE DEF p
  <2>2. Renewed(p, e) BY <1>1, <1>2, <1>3, <2>1, AskRenewed
  <2> QED BY <1>4, <2>2 DEF RetryResume, p, r
<1>5. CASE ~CanSendRequest(r)
  <2>1. Grounded(r) /\ r.state \in EstablishedState BY <1>1, <1>2 DEF Course
  <2>2. /\ Course(b, r) /\ b \in Endpoint /\ Apart(b, r) /\ b.op = r.op
        /\ b.attached = r.attached /\ b.state \in EstablishedState
    BY <1>2, <2>1, EstablishedCourse
  <2> HIDE DEF b
  <2>3. Course(b, e) BY <1>2, <2>1, <2>2, CourseChain
  <2>4. Renewed(b, e) BY <1>2, <1>3, <2>2, <2>3 DEF Renewed, Apart, Beside, Kept
  <2> QED BY <1>5, <2>4 DEF RetryResume, b, r
<1> QED BY <1>4, <1>5

\* MediaSession::resume()
LEMMA ResumeRenewed ==
  ASSUME NEW e \in Endpoint, Grounded(e), e.out = <<>>
  PROVE  Renewed(Resume(e), e)
<1>1. CASE e.state = "Pausing"
  <2>1. e.pendingActions + 1 \in Nat BY DEF Endpoint
  <2>2. Trimmed([e EXCEPT !.pendingActions = @ + 1], e) BY <2>1, SetPendingTrimmed
  <2> QED BY <1>1, <2>2, StillRenewed DEF Resume, Trimmed
<1>2. CASE e.state = "Paused"
  <2> DEFINE x == [e EXCEPT !.retry = "resume"]
             y == RetryResume(x)
  <2>1. x \in Endpoint /\ Trimmed(x, e) BY SetRetryTrimmed, NamedRetries DEF Trimmed
  <2> HIDE DEF x
  <2>2. Grounded(x) /\ x.state \in EstablishedState /\ x.out = <<>>
    BY <1>2, <2>1 DEF Trimmed, SameSession, Grounded, EstablishedState
  <2>3. Renewed(y, x) BY <2>1, <2>2, RetryResumeRenewed
  <2> HIDE DEF y
  <2>4. y \in Endpoint BY <2>3 DEF Renewed
  <2>5. Renewed(y, e) BY <2>1, <2>3, <2>4, SelfTrimmed, TrimmedRenewed
  <2> QED BY <1>2, <2>5 DEF Resume, y, x
<1>3. CASE e.state \notin {"Pausing", "Paused"}
  BY <1>3, SelfTrimmed, StillRenewed DEF Resume
<1> QED BY <1>1, <1>2, <1>3

\* CallSessionPrivate::executePendingActions()
LEMMA ExecutePendingActionsRenewed ==
  ASSUME NEW e0 \in Endpoint, Grounded(e0), e0.out = <<>>
  PROVE  Renewed(ExecutePendingActions(e0), e0)
<1> DEFINE e == [e0 EXCEPT !.execLater = FALSE]
           r == Resume(e)
           x == ExecutePendingActions(e0)
<1>1. e \in Endpoint BY Zenon DEF Endpoint
<1>2. Trimmed(e, e0) BY <1>1 DEF Trimmed, SameSession, Kept, Endpoint
<1> HIDE DEF e
<1>3. Grounded(e) /\ e.out = <<>> BY <1>2 DEF Trimmed, SameSession, Grounded
<1>4. Renewed(r, e) BY <1>1, <1>3, ResumeRenewed
<1> HIDE DEF r
<1>5. r \in Endpoint BY <1>4 DEF Renewed
<1>6. Renewed(e, e) BY <1>1, <1>3, SelfTrimmed, StillRenewed
<1>7. ASSUME NEW y \in Endpoint, Renewed(y, e), NEW d \in Endpoint, Trimmed(d, y)
      PROVE  Renewed(d, e0)
  BY <1>1, <1>2, <1>7, TrimmedRenewed
<1>8. x \in Endpoint BY ExecutePendingActionsType
<1>9. CASE x \in {e, r} BY <1>1, <1>4, <1>5, <1>6, <1>7, <1>9, SelfTrimmed
<1>10. CASE e.state = "Pausing" /\ x = [e EXCEPT !.pendingActions = 2 * @]
  <2>1. 2 * e.pendingActions \in Nat BY <1>1 DEF Endpoint
  <2>2. Trimmed(x, e) BY <1>1, <1>10, <2>1, SetPendingTrimmed
  <2> QED BY <1>1, <1>6, <1>7, <1>8, <2>2
<1>11. CASE x = [r EXCEPT !.pendingActions = @ - 1]
  <2>1. x.pendingActions \in Nat /\ x.pendingActions = r.pendingActions - 1
    BY <1>5, <1>8, <1>11 DEF Endpoint
  <2>2. x = [r EXCEPT !.pendingActions = x.pendingActions] BY <1>5, <1>11, <2>1
  <2>3. Trimmed(x, r) BY <1>5, <2>1, <2>2, SetPendingTrimmed
  <2> QED BY <1>4, <1>5, <1>7, <1>8, <2>3
<1>12. \/ x \in {e, r}
       \/ e.state = "Pausing" /\ x = [e EXCEPT !.pendingActions = 2 * @]
       \/ x = [r EXCEPT !.pendingActions = @ - 1]
  BY DEF ExecutePendingActions, e, r
<1> QED BY <1>9, <1>10, <1>11, <1>12

\* SalOp::runRetryFunc()
LEMMA RunRetryFuncRenewed ==
  ASSUME NEW e0 \in Endpoint, EndpointInv(e0), Grounded(e0), e0.timers > 0, e0.out = <<>>,
         e0.retry = "none" \/ e0.dialog # "Confirmed" \/ ~RequestPending(e0)
  PROVE  Renewed(RunRetryFunc(e0), e0)
<1> DEFINE e == [e0 EXCEPT !.timers = @ - 1]
           x == RunRetryFunc(e0)
<1>1. e \in Endpoint
  <2>1. e0.timers - 1 \in Nat BY DEF Endpoint
  <2> QED BY <2>1, Zenon DEF Endpoint
<1>2. Trimmed(e, e0) /\ e.retry = e0.retry
  BY <1>1 DEF Trimmed, SameSession, Kept, Endpoint
<1> HIDE DEF e
<1>3. Grounded(e) /\ e.out = <<>> /\ e.dialog = e0.dialog /\ e.bye = e0.bye /\ e.state = e0.state
  BY <1>2 DEF Trimmed, SameSession, Grounded, Kept
<1>4. ASSUME NEW y, Renewed(y, e)
      PROVE  Renewed([y EXCEPT !.retry = "none"], e0)
  <2>1. y \in Endpoint BY <1>4 DEF Renewed
  <2>2. Trimmed([y EXCEPT !.retry = "none"], y) BY <2>1, SetRetryTrimmed, NamedRetries
  <2> QED BY <1>1, <1>2, <1>4, <2>1, <2>2, TrimmedRenewed DEF Trimmed
<1>5. Renewed(e, e) BY <1>1, <1>3, SelfTrimmed, StillRenewed
<1>6. CASE e.dialog \in {"None", "TermEarly", "TermConf", "Terminated"} \/ e.retry = "none"
  BY <1>4, <1>5, <1>6 DEF RunRetryFunc, e
<1>7. CASE e.dialog \in {"Null", "Early", "Confirmed"} /\ e.retry # "none"
  <2>1. e.dialog = "Confirmed" BY <1>2, <1>3, <1>7 DEF EndpointInv, RequestInv, OverInv
  <2>2. e0.bye = 0 BY <1>2, <1>3, <1>7, <2>1, FieldTypes DEF RequestPending
  <2>3. /\ e0.state \notin OverState
        /\ e0.state \in TransientState \cup {"Paused"}
    BY <1>2, <1>3, <1>7, <2>1, <2>2 DEF EndpointInv, RequestInv
  <2>4. e.state \in EstablishedState BY <1>3, <2>3 DEF TransientState, EstablishedState
  <2>5. CASE e.retry = "resume"
    <3>1. Renewed(RetryResume(e), e) BY <1>1, <1>3, <2>4, RetryResumeRenewed
    <3> QED BY <1>4, <1>7, <2>5, <3>1 DEF RunRetryFunc, e
  <2>6. CASE e.retry \in {"pause", "update"}
    <3> DEFINE p == OpUpdate(e)
    <3>1. /\ p \in Endpoint /\ SameSession(p, e) /\ Kept(p, e) /\ p.op = e.op
          /\ \/ p = e
             \/ e.dialog = "Confirmed" /\ \E d \in Dir : p.out = <<Request("INVITE", d)>>
      BY <1>1, <1>3, OpUpdateFacts
    <3> HIDE DEF p
    <3>2. Course(e, e) /\ Apart(e, e) BY <1>5 DEF Renewed, Apart, Beside, Kept
    <3>3. Renewed(p, e) BY <1>1, <1>3, <2>4, <3>1, <3>2, AskRenewed
    <3> QED BY <1>4, <1>7, <2>6, <3>3 DEF RunRetryFunc, e, p
  <2> QED BY <1>1, <1>7, <2>5, <2>6, FieldTypes DEF RetryFunc
<1> QED BY <1>1, <1>6, <1>7, FieldTypes DEF DialogState

(***************************************************************************)
(* Answering a re-INVITE.                                                  *)
(***************************************************************************)

\* What a handler does that may answer a re-INVITE: an established session stays
\* established, and a final response closes the server transaction.
Served(d, e) ==
  /\ d \in Endpoint /\ Course(d, e) /\ d.attached = e.attached
  /\ d.released = e.released /\ d.releaseLater = e.releaseLater /\ d.dialog = e.dialog
  /\ d.info = e.info /\ d.bye = e.bye
  /\ d.op = e.op \/ (e.op = "Early" /\ d.op = "Active")
  /\ e.state \notin EstablishedState => d.state = e.state
  /\ e.state \in EstablishedState => d.state \in EstablishedState
  /\ \/ d.out = e.out /\ d.server = e.server
     \/ /\ e.server /\ ~d.server
        /\ \E code \in {200, 487, 488}, dir \in Dir \cup {"none"} :
             d.out = Append(e.out, Response("INVITE", code, dir))

\* What a handler does before it answers counts as well.
LEMMA ServedChain ==
  ASSUME NEW e \in Endpoint, NEW d \in Endpoint, NEW f,
         Served(d, e), d.out = e.out, d.server = e.server, d.op = e.op, Served(f, d)
  PROVE  Served(f, e)
<1>1. Course(f, e)
  BY DEF Served, Course, Onward, EarlyState, OverState, EstablishedState
<1> QED BY <1>1 DEF Served

\* An established session may change to another established state meanwhile.
LEMMA SetStateServed ==
  ASSUME NEW e \in Endpoint, Grounded(e), e.state \in EstablishedState,
         NEW s \in EstablishedState
  PROVE  LET d == SetState(e, s)
         IN  /\ Served(d, e) /\ d.out = e.out /\ d.server = e.server /\ d.op = e.op
             /\ d.state = s
<1> DEFINE d == SetState(e, s)
<1>1. /\ Course(d, e) /\ d \in Endpoint /\ d.state = s /\ Apart(d, e) /\ d.op = e.op
      /\ d.attached = e.attached
  BY EstablishedCourse
<1> HIDE DEF d
<1>2. /\ Served(d, e) /\ d.out = e.out /\ d.server = e.server /\ d.op = e.op /\ d.state = s
  BY <1>1 DEF Served, Apart, Beside, Kept
<1> QED BY <1>2 DEF d

\* A final response closes the server transaction, when there is one.
LEMMA ReplyServed ==
  ASSUME NEW e \in Endpoint, Grounded(e), e.dialog = "Confirmed",
         NEW code \in {200, 487, 488}, NEW dir \in Dir \cup {"none"}
  PROVE  Served(Reply(e, code, dir), e) /\ SameSession(Reply(e, code, dir), e)
<1> DEFINE d == Reply(e, code, dir)
<1>1. CASE ~e.server
  <2>1. d = e BY <1>1 DEF Reply
  <2> HIDE DEF d
  <2>2. SameSession(d, e) BY <2>1 DEF SameSession
  <2>3. Course(d, e) BY <2>2, SameCourse DEF SameSession
  <2>4. Served(d, e) BY <2>1, <2>3 DEF Served
  <2> QED BY <2>2, <2>4 DEF d
<1>2. CASE e.server
  <2>1. code \in Code \ {0} BY DEF Code
  <2>2. /\ d \in Endpoint /\ SameSession(d, e) /\ d.op = e.op /\ ~d.server
        /\ d.released = e.released /\ d.releaseLater = e.releaseLater
        /\ d.info = e.info /\ d.bye = e.bye /\ d.dialog = e.dialog
        /\ d.out = Append(e.out, Response("INVITE", code, dir))
    BY <1>2, <2>1, ReplyFacts
  <2> HIDE DEF d
  <2>3. Course(d, e) BY <2>2, SameCourse DEF SameSession
  <2>4. Served(d, e) BY <1>2, <2>2, <2>3 DEF Served, SameSession
  <2> QED BY <2>2, <2>4 DEF d
<1> QED BY <1>1, <1>2

\* SalCallOp::accept() answers with the negotiated direction.
LEMMA OpAcceptServed ==
  ASSUME NEW e \in Endpoint, Grounded(e), e.dialog = "Confirmed"
  PROVE  Served(OpAccept(e), e) /\ SameSession(OpAccept(e), e)
<1> DEFINE d == OpAccept(e)
<1>1. CASE ~e.server
  <2>1. d = e BY <1>1 DEF OpAccept
  <2> HIDE DEF d
  <2>2. SameSession(d, e) BY <2>1 DEF SameSession
  <2>3. Course(d, e) BY <2>2, SameCourse DEF SameSession
  <2>4. Served(d, e) BY <2>1, <2>3 DEF Served
  <2> QED BY <2>2, <2>4 DEF d
<1>2. CASE e.server
  <2> DEFINE a == ComputeDirIncoming(LocalDir(e), e.remote)
  <2>1. a \in Dir BY DirType DEF Endpoint
  <2>2. /\ d \in Endpoint /\ SameSession(d, e) /\ ~d.server
        /\ d.op = IF e.op = "Early" THEN "Active" ELSE e.op
        /\ d.released = e.released /\ d.releaseLater = e.releaseLater
        /\ d.info = e.info /\ d.bye = e.bye /\ d.dialog = e.dialog
        /\ d.out = Append(e.out, Response("INVITE", 200, a))
    BY <1>2, OpAcceptFacts
  <2> HIDE DEF d, a
  <2>3. Course(d, e) BY <2>2, SameCourse DEF SameSession
  <2>4. Served(d, e) BY <1>2, <2>1, <2>2, <2>3 DEF Served, SameSession
  <2> QED BY <2>2, <2>4 DEF d
<1> QED BY <1>1, <1>2

\* MediaSessionPrivate::startAcceptUpdate()
LEMMA AcceptUpdateServed ==
  ASSUME NEW e \in Endpoint, Grounded(e), e.dialog = "Confirmed",
         e.state \in EstablishedState, NEW s \in EstablishedState
  PROVE  Served(AcceptUpdate(e, s), e)
<1> DEFINE a == OpAccept(e)
           d == SetState(a, s)
<1>1. Served(a, e) /\ SameSession(a, e) BY OpAcceptServed
<1> HIDE DEF a
<1>2. a \in Endpoint /\ Grounded(a) /\ a.state \in EstablishedState
  BY <1>1 DEF Served, Course
<1>3. Served(d, a) /\ d.out = a.out /\ d.server = a.server /\ d.op = a.op
  BY <1>2, SetStateServed
<1> HIDE DEF d
<1>4. Course(d, e)
  BY <1>1, <1>3 DEF Served, Course, Onward, EarlyState, OverState, EstablishedState
<1>5. Served(d, e) BY <1>1, <1>2, <1>3, <1>4 DEF Served
<1> QED BY <1>5 DEF AcceptUpdate, d, a

\* CallSession::acceptUpdate() goes back to the state the update found.
LEMMA AcceptUpdateAskedServed ==
  ASSUME NEW e \in Endpoint, Grounded(e), e.dialog = "Confirmed", e.state = "UpdatedByRemote"
  PROVE  Served(AcceptUpdateAsked(e), e)
<1>1. e.state \in EstablishedState /\ e.prevState \in EstablishedState
  BY DEF Grounded, EstablishedState
<1> QED BY <1>1, AcceptUpdateServed DEF AcceptUpdateAsked

\* The remote update is accepted at once or deferred.
LEMMA UpdatedByRemoteServed ==
  ASSUME NEW e \in Endpoint, Grounded(e), e.dialog = "Confirmed",
         e.state \in EstablishedState, NEW defer
  PROVE  Served(UpdatedByRemote(e, defer), e)
<1> DEFINE x == SetState(e, "UpdatedByRemote")
           d == AcceptUpdateAsked(x)
<1>1. "UpdatedByRemote" \in EstablishedState BY DEF EstablishedState
<1>2. /\ Served(x, e) /\ x.out = e.out /\ x.server = e.server /\ x.op = e.op
      /\ x.state = "UpdatedByRemote"
  BY <1>1, SetStateServed
<1> HIDE DEF x
<1>3. x \in Endpoint /\ Grounded(x) /\ x.dialog = "Confirmed" BY <1>2 DEF Served, Course
<1>4. Served(d, x) BY <1>2, <1>3, AcceptUpdateAskedServed
<1> HIDE DEF d
<1>5. Served(d, e) BY <1>2, <1>3, <1>4, ServedChain
<1> QED BY <1>2, <1>5 DEF UpdatedByRemote, d, x

\* MediaSessionPrivate::updated()
LEMMA UpdatedServed ==
  ASSUME NEW e \in Endpoint, Grounded(e), e.dialog = "Confirmed", NEW defer
  PROVE  Served(Updated(e, defer), e)
<1>1. CASE e.state \in {"PausedByRemote", "StreamsRunning", "UpdatedByRemote"}
  <2>1. /\ e.state \in EstablishedState /\ e.state \notin {"Paused"} \cup TransientState
        /\ "StreamsRunning" \in EstablishedState /\ "PausedByRemote" \in EstablishedState
    BY <1>1 DEF EstablishedState, TransientState
  <2>2. /\ Served(AcceptUpdate(e, "StreamsRunning"), e)
        /\ Served(AcceptUpdate(e, "PausedByRemote"), e)
        /\ Served(UpdatedByRemote(e, defer), e)
    BY <2>1, AcceptUpdateServed, UpdatedByRemoteServed
  <2>3. e.remote \in {"sendrecv", "recvonly"} \/ e.remote \in {"sendonly", "inactive"}
    BY DEF Endpoint, Dir
  <2>4. CASE e.state = "PausedByRemote" /\ e.remote \in {"sendrecv", "recvonly"}
    BY <2>1, <2>2, <2>4 DEF Updated
  <2>5. CASE e.state = "PausedByRemote" /\ e.remote \in {"sendonly", "inactive"}
    BY <2>1, <2>2, <2>5 DEF Updated
  <2>6. CASE e.state # "PausedByRemote" /\ e.remote \in {"sendonly", "inactive"}
    BY <1>1, <2>1, <2>2, <2>6 DEF Updated
  <2>7. CASE e.state # "PausedByRemote" /\ e.remote \in {"sendrecv", "recvonly"}
    BY <1>1, <2>1, <2>2, <2>7 DEF Updated
  <2> QED BY <2>3, <2>4, <2>5, <2>6, <2>7
<1>2. CASE e.state \in {"Paused"} \cup TransientState
  <2> DEFINE x == SetState(e, "UpdatedByRemote")
             d == AcceptUpdate(x, e.state)
  <2>1. "UpdatedByRemote" \in EstablishedState /\ e.state \in EstablishedState
    BY <1>2 DEF EstablishedState, TransientState
  <2>2. /\ Served(x, e) /\ x.out = e.out /\ x.server = e.server /\ x.op = e.op
        /\ x.state = "UpdatedByRemote"
    BY <2>1, SetStateServed
  <2> HIDE DEF x
  <2>3. x \in Endpoint /\ Grounded(x) /\ x.dialog = "Confirmed" BY <2>2 DEF Served, Course
  <2>4. Served(d, x) BY <2>1, <2>2, <2>3, AcceptUpdateServed
  <2> HIDE DEF d
  <2>5. Served(d, e) BY <2>2, <2>3, <2>4, ServedChain
  <2>6. Updated(e, defer) = d
    BY <1>2 DEF Updated, TransientState, d, x
  <2> QED BY <2>5, <2>6
<1>3. CASE e.state \notin {"PausedByRemote", "StreamsRunning", "UpdatedByRemote", "Paused"}
                          \cup TransientState
  <2>1. Updated(e, defer) = e BY <1>3 DEF Updated, Grounded
  <2>2. Course(e, e) BY SameCourse
  <2> QED BY <2>1, <2>2 DEF Served
<1> QED BY <1>1, <1>2, <1>3

\* MediaSessionPrivate::updating(), under the call_updating callback.
LEMMA UpdatingServed ==
  ASSUME NEW e \in Endpoint, Grounded(e), e.dialog = "Confirmed", NEW compatible, NEW defer,
         e.attached => e.state \notin {"End", "Released"}
  PROVE  Served(Updating(e, compatible, defer), e)
<1>1. Course(e, e) BY SameCourse
<1>2. Served(e, e) BY <1>1 DEF Served
<1>3. Served(Reply(e, 488, "none"), e) BY ReplyServed
<1>4. Served(Updated(e, defer), e) BY UpdatedServed
<1> QED BY <1>2, <1>3, <1>4 DEF Updating

(***************************************************************************)
(* An open dialog.                                                         *)
(***************************************************************************)

\* The messages by what they tell their receiver.  A plain message says nothing
\* about the dialog of its sender.
ByeAnswer == {m \in Msg : m.method = "BYE" /\ m.code # 0}
Plain == {m \in Msg : m \notin ByeAnswer /\ ~(m.method = "INVITE" /\ m.code = 481)}
NoBye == {m \in Msg : ~(m.method = "BYE" /\ m.code = 0)}
Cancels == {m \in Msg : m.method = "CANCEL" /\ m.code = 0}
CancelAnswer == {m \in Msg : m.method = "CANCEL" /\ m.code # 0}

\* The dialog is established.  A session that is over has a BYE of its own on the
\* way, and its op rejects what still arrives unless an aborted call revived it.
Open(e) ==
  /\ e.dialog = "Confirmed" /\ ~e.releaseLater /\ e.state \notin EarlyState
  /\ e.state \in OverState => e.bye > 0
  /\ e.state \in {"End", "Released"} => e.op = "Terminating"

\* The dialog is gone, and the session with it; the callee may have had none.
Lost(e) ==
  /\ e.released \/ e.dialog \in {"TermEarly", "TermConf", "Terminated"}
  /\ e.state \in OverState \/ (e.incoming /\ e.state = "Idle" /\ ~e.attached)

\* What keeps a dialog open: no BYE leaves uncounted.
Lasting(d, e) ==
  /\ Open(d) /\ (e.bye > 0 => d.bye > 0)
  /\ d.out \in Seq(Plain) /\ (d.bye = 0 => d.out \in Seq(NoBye))

\* The messages a handler builds.
LEMMA Messages ==
  /\ \A x \in Dir : Request("INVITE", x) \in Plain \cap NoBye
  /\ \A me \in {"BYE", "INFO", "CANCEL"} : Request(me, "none") \in Plain
  /\ \A me \in {"INFO", "CANCEL"} : Request(me, "none") \in NoBye
  /\ Request("CANCEL", "none") \in Cancels
  /\ \A code \in {100, 180, 200, 486, 487, 488, 491, 603}, x \in Dir \cup {"none"} :
        Response("INVITE", code, x) \in Plain \cap NoBye
  /\ \A code \in {200, 481} :
        Response("CANCEL", code, "none") \in CancelAnswer \cap Plain \cap NoBye
  /\ \A code \in {200, 481, 491, 501} : Response("INFO", code, "none") \in Plain \cap NoBye
  /\ \A code \in {200, 481} : Response("BYE", code, "none") \in ByeAnswer
BY DEF Plain, NoBye, Cancels, CancelAnswer, ByeAnswer, Msg, Request, Response, Method, Code

\* The sequences a handler sends: nothing, one message or two.
LEMMA Short ==
  ASSUME NEW S, NEW a \in S, NEW b \in S
  PROVE  <<>> \in Seq(S) /\ <<a>> \in Seq(S) /\ Append(<<a>>, b) \in Seq(S)
         /\ Append(<<>>, a) = <<a>>
OBVIOUS

\* A request of the session leaves the dialog open.
LEMMA RenewedOpen ==
  ASSUME NEW e \in Endpoint, Open(e), NEW d, Renewed(d, e)
  PROVE  Lasting(d, e)
<1>1. Open(d)
  BY DEF Renewed, Kept, Open, Course, Onward, EarlyState, OverState, EstablishedState, Grounded
<1>2. d.out \in Seq(Plain) /\ d.out \in Seq(NoBye)
  <2>1. CASE d.out = <<>> BY <2>1
  <2>2. CASE \E x \in Dir : d.out = <<Request("INVITE", x)>>
    BY <2>2, Messages, Short
  <2> QED BY <2>1, <2>2 DEF Renewed
<1>3. d.bye = e.bye BY DEF Renewed, Kept
<1> QED BY <1>1, <1>2, <1>3 DEF Lasting

\* So does the answer to a re-INVITE.
LEMMA ServedOpen ==
  ASSUME NEW e \in Endpoint, Open(e), e.out = <<>>, NEW d, Served(d, e)
  PROVE  /\ Lasting(d, e)
         /\ ~e.server => ~d.server /\ d.out = <<>>
<1>1. Open(d)
  BY DEF Served, Open, Course, Onward, EarlyState, OverState, EstablishedState, Grounded
<1>2. d.out \in Seq(Plain) /\ d.out \in Seq(NoBye)
  <2>1. CASE d.out = <<>> BY <2>1
  <2>2. CASE \E code \in {200, 487, 488}, x \in Dir \cup {"none"} :
               d.out = Append(e.out, Response("INVITE", code, x))
    BY <2>2, Messages, Short
  <2> QED BY <2>1, <2>2 DEF Served
<1>3. d.bye = e.bye BY DEF Served
<1> QED BY <1>1, <1>2, <1>3 DEF Lasting, Served

\* A handler that leaves session, dialog and op alone leaves an open dialog open.
LEMMA SameOpen ==
  ASSUME NEW e \in Endpoint, Open(e), NEW d, SameSession(d, e), d.op = e.op,
         d.dialog = e.dialog, d.releaseLater = e.releaseLater, d.bye = e.bye,
         d.out \in Seq(Plain), d.out \in Seq(NoBye)
  PROVE  Lasting(d, e)
BY DEF Lasting, Open, SameSession

\* So does any other message but a BYE and its answer.
LEMMA SendSame ==
  ASSUME NEW e \in Endpoint, Open(e), e.out = <<>>, NEW m \in Plain \cap NoBye
  PROVE  /\ Send(e, m) \in Endpoint /\ SameSession(Send(e, m), e) /\ Lasting(Send(e, m), e)
         /\ Send(e, m).out = <<m>> /\ Send(e, m).server = e.server
<1>1. m \in Msg BY DEF Plain
<1> DEFINE d == Send(e, m)
<1>2. d \in Endpoint /\ Twin(d, e) /\ d.out = Append(e.out, m) BY <1>1, SendTwin
<1> HIDE DEF d
<1>3. d.out = <<m>> /\ d.out \in Seq(Plain) /\ d.out \in Seq(NoBye) BY <1>2
<1>4. Lasting(d, e) BY <1>2, <1>3, SameOpen DEF Twin, Beside, Kept
<1> QED BY <1>2, <1>3, <1>4 DEF d, Twin, Beside, Kept

(***************************************************************************)
(* Ending a session.                                                       *)
(***************************************************************************)

\* MediaSessionPrivate::failure() and terminated() touch the session only.
LEMMA FailureApart ==
  ASSUME NEW e \in Endpoint, NEW code
  PROVE  Apart(Failure(e, code), e)
<1>1. Apart(e, e) BY DEF Apart, Beside, Kept
<1>2. \A s \in CallState : Apart(SetState(e, s), e) BY SetStateApart
<1> QED BY <1>1, <1>2, StateFields, NamedStates DEF Failure

\* See FailureApart.
LEMMA TerminatedApart ==
  ASSUME NEW e \in Endpoint
  PROVE  Apart(Terminated(e), e)
<1>1. Apart(e, e) BY DEF Apart, Beside, Kept
<1>2. \A s \in CallState : Apart(SetState(e, s), e) BY SetStateApart
<1> QED BY <1>1, <1>2, NamedStates DEF Terminated

\* A session that was told to end moves on, if it had begun.
LEMMA EndedCourse ==
  ASSUME NEW e \in Endpoint, EndpointInv(e), Grounded(e), NEW d, Ended(d, e)
  PROVE  /\ Course(d, e)
         /\ d.state \in OverState \/ (e.state = "Idle" /\ d.state = "Idle" /\ ~d.attached)
<1>1. CASE e.attached
  <2>1. e.state \notin {"Idle", "Released"} /\ d.state \in {"End", "Error"} /\ d.incoming = e.incoming
    BY <1>1 DEF Ended, EndpointInv, SessionInv, Grounded
  <2> QED BY <2>1, OverCourse DEF OverState
<1>2. CASE ~e.attached
  <2>1. e.state \in {"Idle", "Released"} BY <1>2 DEF EndpointInv, SessionInv
  <2>2. d.incoming = e.incoming /\ d.state = e.state /\ ~d.attached BY <1>2 DEF Ended
  <2> QED BY <2>1, <2>2
        DEF Course, Onward, Grounded, OverState, EarlyState, EstablishedState
<1> QED BY <1>1, <1>2

\* Ended looks at the session only.
LEMMA EndedSame ==
  ASSUME NEW e, NEW x, SameSession(x, e), NEW d, Ended(d, x)
  PROVE  Ended(d, e)
BY DEF Ended, SameSession

\* SalCallOp::setReleased() after the session was told.
LEMMA SetOpReleasedFacts ==
  ASSUME NEW e \in Endpoint, e.attached => e.state \in {"End", "Error"}
  PROVE  LET d == SetOpReleased(e)
         IN  /\ d \in Endpoint /\ d.incoming = e.incoming /\ d.released
             /\ d.info = e.info /\ d.out = e.out /\ d.client = e.client
             /\ d.releaseLater = e.releaseLater /\ d.bye = e.bye
             /\ ~e.released => d.dialog = "None"
             /\ ~e.released /\ e.attached => d.state = "Released"
             /\ \/ d.state = e.state /\ d.attached = e.attached
                   /\ d.prevState = e.prevState /\ d.lastStable = e.lastStable
                \/ e.state \in {"End", "Error"} /\ d.state = "Released"
<1>1. SetOpReleased(e) \in Endpoint BY SetOpReleasedType
<1>2. CASE e.released BY <1>1, <1>2 DEF SetOpReleased
<1>3. CASE ~e.released
  <2> DEFINE dead == [e EXCEPT !.op = "Terminated", !.released = TRUE]
             gone == SetState(dead, "Released")
  <2>1. dead \in Endpoint BY Zenon DEF Endpoint, OpState
  <2>2. /\ dead.incoming = e.incoming /\ dead.released /\ dead.attached = e.attached
        /\ dead.state = e.state /\ dead.prevState = e.prevState
        /\ dead.lastStable = e.lastStable /\ dead.info = e.info /\ dead.out = e.out
        /\ dead.client = e.client /\ dead.releaseLater = e.releaseLater /\ dead.bye = e.bye
    BY <2>1 DEF Endpoint
  <2> HIDE DEF dead
  <2>3. CASE ~e.attached
    <3>1. SetOpReleased(e) = [dead EXCEPT !.dialog = "None"]
      BY <1>3, <2>3 DEF SetOpReleased, dead
    <3> QED BY <1>1, <2>1, <2>2, <2>3, <3>1 DEF Endpoint
  <2>4. CASE e.attached
    <3>1. gone \in Endpoint /\ Apart(gone, dead) BY <2>1, NamedStates, SetStateType, SetStateApart
    <3>2. LetGo(gone, dead) BY <2>1, <2>2, <2>4, SetStateReleased
    <3> HIDE DEF gone
    <3>3. SetOpReleased(e) = [gone EXCEPT !.dialog = "None"]
      BY <1>3, <2>4 DEF SetOpReleased, dead, gone
    <3>4. /\ SetOpReleased(e).incoming = gone.incoming /\ SetOpReleased(e).released = gone.released
          /\ SetOpReleased(e).info = gone.info /\ SetOpReleased(e).out = gone.out
          /\ SetOpReleased(e).client = gone.client /\ SetOpReleased(e).bye = gone.bye
          /\ SetOpReleased(e).releaseLater = gone.releaseLater
          /\ SetOpReleased(e).dialog = "None" /\ SetOpReleased(e).state = gone.state
      BY <3>1, <3>3 DEF Endpoint
    <3> QED BY <1>1, <2>2, <2>4, <3>1, <3>2, <3>4 DEF LetGo, Apart, Beside, Kept
  <2> QED BY <2>3, <2>4
<1> QED BY <1>2, <1>3

\* Being released is a move of a session that never was established or is over.
LEMMA ReleasedCourse ==
  ASSUME NEW e \in Endpoint, Grounded(e), e.state \in EarlyState \cup OverState,
         NEW x \in Endpoint, Course(x, e),
         x.state \in OverState \/ (e.state = "Idle" /\ x.state = "Idle" /\ ~x.attached),
         NEW d, d.incoming = x.incoming,
         \/ d.state = x.state /\ d.attached = x.attached
            /\ d.prevState = x.prevState /\ d.lastStable = x.lastStable
         \/ x.state \in {"End", "Error"} /\ d.state = "Released"
  PROVE  /\ Course(d, e)
         /\ d.state \in OverState \/ (e.state = "Idle" /\ d.state = "Idle" /\ ~d.attached)
BY DEF Course, Onward, Grounded, OverState, EarlyState, EstablishedState

\* A BYE in an established dialog ends it, and is answered.
LEMMA ReceiveByeOpen ==
  ASSUME NEW e \in Endpoint, EndpointInv(e), Grounded(e), e.dialog = "Confirmed", e.out = <<>>
  PROVE  LET d == ReceiveBye(e)
         IN  /\ d \in Endpoint /\ Course(d, e)
             /\ d.dialog = "TermConf" /\ d.out = <<Response("BYE", 200, "none")>>
             /\ d.state \in OverState \/ (e.state = "Idle" /\ d.state = "Idle" /\ ~d.attached)
<1> DEFINE a == [e EXCEPT !.op = "Terminating", !.dialog = "TermConf"]
           m == Response("BYE", 200, "none")
           b == Send(a, m)
           d == Terminated(b)
<1>1. a \in Endpoint BY Zenon DEF Endpoint, OpState, DialogState
<1>2. SameSession(a, e) /\ a.dialog = "TermConf" /\ a.out = e.out
  BY <1>1 DEF SameSession, Endpoint
<1> HIDE DEF a
<1>3. m \in Msg BY MsgType DEF Method, Code
<1> HIDE DEF m
<1>4. b \in Endpoint /\ Twin(b, a) /\ b.out = Append(a.out, m) BY <1>1, <1>3, SendTwin
<1> HIDE DEF b
<1>5. SameSession(b, e) /\ b.dialog = "TermConf" /\ b.out = <<m>>
  BY <1>2, <1>4 DEF SameSession, Twin, Beside, Kept
<1>6. b.attached => b.state # "Released" BY <1>5 DEF EndpointInv, SessionInv, SameSession
<1>7. Ended(d, b) /\ Apart(d, b) BY <1>4, <1>6, TerminatedEnded, TerminatedApart
<1> HIDE DEF d
<1>8. Ended(d, e) BY <1>5, <1>7, EndedSame
<1>9. /\ Course(d, e)
      /\ d.state \in OverState \/ (e.state = "Idle" /\ d.state = "Idle" /\ ~d.attached)
  BY <1>8, EndedCourse
<1>10. d \in Endpoint /\ d.dialog = "TermConf" /\ d.out = <<m>>
  BY <1>5, <1>7 DEF Ended, Apart, Beside, Kept
<1>11. ReceiveBye(e) = d BY DEF ReceiveBye, d, b, a, m
<1> QED BY <1>9, <1>10, <1>11 DEF m

\* Writing the state of the op changes nothing else.
LEMMA SetOpApart ==
  ASSUME NEW e \in Endpoint, NEW s \in OpState
  PROVE  LET d == [e EXCEPT !.op = s]
         IN  d \in Endpoint /\ SameSession(d, e) /\ Apart(d, e) /\ d.op = s
<1>1. [e EXCEPT !.op = s] \in Endpoint BY SetOpType
<1> QED BY <1>1 DEF SameSession, Apart, Beside, Kept, Endpoint

\* SalOp::sendRequest() for a BYE counts it.
LEMMA SendByeFacts ==
  ASSUME NEW e \in Endpoint
  PROVE  LET d == SendBye(e)
         IN  /\ d \in Endpoint /\ SameSession(d, e) /\ d.op = e.op
             /\ d.released = e.released /\ d.releaseLater = e.releaseLater
             /\ d.dialog = e.dialog /\ d.bye = e.bye + 1 /\ d.server = e.server
             /\ d.info = e.info /\ d.client = e.client
             /\ d.out = Append(e.out, Request("BYE", "none"))
<1>1. SendBye(e) \in Endpoint BY SendByeType
<1> QED BY <1>1 DEF SendBye, Send, SameSession, Endpoint

\* CallSessionPrivate::terminate() ends the session, and releases it at once when
\* no dialog will report its end.
LEMMA TerminateSessionFacts ==
  ASSUME NEW p \in Endpoint, p.state \notin OverState
  PROVE  LET d == TerminateSession(p)
         IN  /\ d \in Endpoint /\ Apart(d, p)
             /\ p.attached /\ p.dialog # "None" => d.state = "End" /\ d.op = p.op
             /\ ~(p.attached /\ p.dialog # "None") =>
                  /\ d.state = "Released"
                  /\ d.op = IF ~p.attached \/ p.op = "Terminating" THEN p.op ELSE "Terminated"
<1> DEFINE n == SetState(p, "End")
           r == SetState(n, "Released")
<1>1. "End" \in CallState \ {"Released"} /\ ~BadTransition(p.state, "End")
  BY DEF CallState, BadTransition, OverState
<1>2. n \in Endpoint /\ Apart(n, p) /\ n.op = p.op /\ n.attached = p.attached /\ n.state = "End"
  BY <1>1, SetStateTo
<1> HIDE DEF n
<1>3. r \in Endpoint /\ Apart(r, n) BY <1>2, NamedStates, SetStateType, SetStateApart
<1>4. LetGo(r, n) BY <1>2, SetStateReleased
<1> HIDE DEF r
<1>5. TerminateSession(p) = IF n.attached /\ HasDialog(n) THEN n ELSE r
  BY DEF TerminateSession, n, r
<1>6. HasDialog(n) <=> p.dialog # "None" BY <1>2 DEF HasDialog, Apart, Beside, Kept
<1>7. Apart(r, p) BY <1>2, <1>3 DEF Apart, Beside, Kept
<1> QED BY <1>2, <1>3, <1>4, <1>5, <1>6, <1>7 DEF LetGo

\* CallSession::terminate() moves on whatever session there is.
LEMMA TerminateCourse ==
  ASSUME NEW e \in Endpoint, EndpointInv(e), Grounded(e), e.state \notin OverState \cup {"Idle"}
  PROVE  Course(Terminate(e), e)
<1>1. e.attached BY DEF EndpointInv, SessionInv, OverState
<1>2. ASSUME NEW p \in Endpoint, p.incoming = e.incoming, p.state = e.state,
             e.state \in EstablishedState => p.attached /\ p.dialog # "None"
      PROVE  Course(TerminateSession(p), e)
  <2> DEFINE d == TerminateSession(p)
  <2>1. /\ d \in Endpoint /\ Apart(d, p)
        /\ p.attached /\ p.dialog # "None" => d.state = "End"
        /\ ~(p.attached /\ p.dialog # "None") => d.state = "Released"
    BY <1>2, TerminateSessionFacts
  <2> HIDE DEF d
  <2>2. d.incoming = e.incoming /\ d.state \in OverState
    BY <1>2, <2>1 DEF Apart, Beside, Kept, OverState
  <2>3. d.state = "Released" => e.state \in EarlyState
    <3>1. e.state \in EarlyState \cup EstablishedState
      BY StateFields DEF Grounded, CallState, EarlyState, EstablishedState, OverState
    <3> QED BY <1>2, <2>1, <3>1
  <2>4. Course(d, e) BY <2>2, <2>3, OverCourse DEF OverState
  <2> QED BY <2>4 DEF d
<1>3. CASE e.state = "IncomingReceived"
  <2> DEFINE p == Reply(e, 603, "none")
  <2>1. p \in Endpoint /\ Replied(p, e) BY ReplyType, ReplyReplied DEF Code
  <2> HIDE DEF p
  <2>2. e.state \notin EstablishedState BY <1>3 DEF EstablishedState
  <2>3. Course(TerminateSession(p), e) BY <1>2, <2>1, <2>2 DEF Replied, SameSession
  <2> QED BY <1>3, <2>3 DEF Terminate, p
<1>4. CASE e.state = "OutgoingInit"
  <2> DEFINE p == OpRelease(e)
  <2>1. p \in Endpoint BY OpReleaseType
  <2>2. p.incoming = e.incoming /\ p.state = e.state BY DEF OpRelease, Endpoint
  <2> HIDE DEF p
  <2>3. e.state \notin EstablishedState BY <1>4 DEF EstablishedState
  <2>4. Course(TerminateSession(p), e) BY <1>2, <2>1, <2>2, <2>3
  <2> QED BY <1>4, <2>4 DEF Terminate, p
<1>5. CASE e.state \notin {"IncomingReceived", "OutgoingInit"}
  <2> DEFINE p == OpTerminate(e)
  <2>1. p \in Endpoint BY OpTerminateType
  <2>2. /\ SameSession(p, e)
        /\ p.dialog = e.dialog \/ (e.dialog \in {"Null", "Early"} /\ p.dialog = "TermEarly")
    BY <1>1, OpTerminateStopped
  <2>3. e.state \in EstablishedState => e.dialog = "Confirmed" BY EstablishedFacts
  <2> HIDE DEF p
  <2>4. Course(TerminateSession(p), e) BY <1>1, <1>2, <2>1, <2>2, <2>3 DEF SameSession
  <2> QED BY <1>5, <2>4 DEF Terminate, p
<1> QED BY <1>3, <1>4, <1>5

\* Terminating an established call sends the BYE.
LEMMA TerminateOpen ==
  ASSUME NEW e \in Endpoint, EndpointInv(e), Open(e), e.out = <<>>, e.state \in EstablishedState
  PROVE  LET d == Terminate(e)
         IN  Lasting(d, e) /\ (d.server = e.server) /\ d.out = <<Request("BYE", "none")>>
<1>1. e.attached /\ e.op \in {"Early", "Active"}
  BY FieldTypes DEF EndpointInv, SessionInv, OverInv, EstablishedState, OpState
<1> DEFINE b == SendBye(e)
           p == [b EXCEPT !.op = "Terminating"]
           d == TerminateSession(p)
<1>2. /\ b \in Endpoint /\ SameSession(b, e)
      /\ b.releaseLater = e.releaseLater /\ b.dialog = e.dialog /\ b.bye = e.bye + 1
      /\ b.server = e.server /\ b.out = Append(e.out, Request("BYE", "none"))
  BY SendByeFacts
<1>3. b.out = <<Request("BYE", "none")>> BY <1>2, Messages, Short
<1> HIDE DEF b
<1>4. "Terminating" \in OpState BY DEF OpState
<1>5. p \in Endpoint /\ SameSession(p, b) /\ Apart(p, b) /\ p.op = "Terminating"
  BY <1>2, <1>4, SetOpApart
<1>6. OpTerminate(e) = p BY <1>1 DEF OpTerminate, Open, p, b
<1> HIDE DEF p
<1>7. p.state \notin OverState /\ p.attached /\ p.dialog # "None"
  BY <1>1, <1>2, <1>5 DEF SameSession, Apart, Beside, Kept, Open, EstablishedState, OverState
<1>8. d \in Endpoint /\ Apart(d, p) /\ d.state = "End" /\ d.op = p.op
  BY <1>5, <1>7, TerminateSessionFacts
<1>9. Terminate(e) = d BY <1>6 DEF Terminate, d, EstablishedState
<1> HIDE DEF d
<1>10. /\ d.dialog = "Confirmed" /\ ~d.releaseLater /\ d.bye = e.bye + 1 /\ d.server = e.server
       /\ d.out = <<Request("BYE", "none")>>
  BY <1>2, <1>3, <1>5, <1>8 DEF Apart, Beside, Kept, Open
<1>11. d.bye > 0 BY <1>10, FieldTypes
<1>12. d.out \in Seq(Plain) BY <1>10, Messages, Short
<1> QED BY <1>5, <1>8, <1>9, <1>10, <1>11, <1>12 DEF Lasting, Open, EarlyState, OverState

(***************************************************************************)
(* Requests inside the dialog.                                             *)
(***************************************************************************)

\* SalCallOp::sendDtmf() touches the INFO transaction only.
LEMMA SendDtmfFacts ==
  ASSUME NEW e \in Endpoint, e.out = <<>>
  PROVE  LET d == SendDtmf(e)
         IN  /\ d \in Endpoint /\ SameSession(d, e) /\ d.op = e.op /\ d.dialog = e.dialog
             /\ d.released = e.released /\ d.releaseLater = e.releaseLater
             /\ d.bye = e.bye /\ d.client = e.client /\ d.server = e.server
             /\ d.offer = e.offer /\ d.remote = e.remote
             /\ \/ RequestPending(e) /\ d.info = "queued" /\ d.out = <<>>
                \/ ~RequestPending(e) /\ d.out = <<Request("INFO", "none")>>
<1>1. SendDtmf(e) \in Endpoint BY InfoType
<1>2. CASE RequestPending(e) BY <1>1, <1>2 DEF SendDtmf, SameSession, Endpoint
<1>3. CASE ~RequestPending(e)
  <2> DEFINE a == [e EXCEPT !.info = "sent", !.lastRequest = "INFO"]
             m == Request("INFO", "none")
  <2>1. a \in Endpoint BY Zenon DEF Endpoint, InfoState, Method
  <2>2. /\ SameSession(a, e) /\ a.op = e.op /\ a.dialog = e.dialog
        /\ a.released = e.released /\ a.releaseLater = e.releaseLater
        /\ a.bye = e.bye /\ a.client = e.client /\ a.server = e.server /\ a.out = e.out
        /\ a.offer = e.offer /\ a.remote = e.remote
    BY <2>1 DEF SameSession, Endpoint
  <2> HIDE DEF a
  <2>3. m \in Msg BY Messages DEF Plain
  <2>4. Append(<<>>, m) = <<m>> OBVIOUS
  <2> HIDE DEF m
  <2>5. Send(a, m) \in Endpoint /\ Twin(Send(a, m), a) /\ Send(a, m).out = Append(a.out, m)
    BY <2>1, <2>3, SendTwin
  <2>6. SendDtmf(e) = Send(a, m) BY <1>3 DEF SendDtmf, a, m
  <2> QED BY <1>3, <2>2, <2>4, <2>5, <2>6 DEF Twin, Beside, Kept, SameSession, m
<1> QED BY <1>2, <1>3

\* The INFO the dialog had queued.
LEMMA SendQueuedInfoFacts ==
  ASSUME NEW e \in Endpoint, e.out = <<>>
  PROVE  LET d == SendQueuedInfo(e)
         IN  /\ d \in Endpoint /\ SameSession(d, e) /\ d.op = e.op /\ d.dialog = e.dialog
             /\ d.releaseLater = e.releaseLater /\ d.bye = e.bye /\ d.server = e.server
             /\ d.out = <<Request("INFO", "none")>>
<1> DEFINE a == [e EXCEPT !.info = "sent"]
           m == Request("INFO", "none")
<1>1. a \in Endpoint BY Zenon DEF Endpoint, InfoState
<1>2. /\ SameSession(a, e) /\ a.op = e.op /\ a.dialog = e.dialog
      /\ a.releaseLater = e.releaseLater /\ a.bye = e.bye /\ a.server = e.server /\ a.out = e.out
  BY <1>1 DEF SameSession, Endpoint
<1> HIDE DEF a
<1>3. m \in Msg BY Messages DEF Plain
<1>4. Append(<<>>, m) = <<m>> OBVIOUS
<1> HIDE DEF m
<1>5. Send(a, m) \in Endpoint /\ Twin(Send(a, m), a) /\ Send(a, m).out = Append(a.out, m)
  BY <1>1, <1>3, SendTwin
<1>6. SendQueuedInfo(e) = Send(a, m) BY DEF SendQueuedInfo, a, m
<1> QED BY <1>2, <1>4, <1>5, <1>6 DEF Twin, Beside, Kept, SameSession, m

\* An INFO of ours, and the answer to one of theirs, leave an open dialog open.
LEMMA InfoOpen ==
  ASSUME NEW e \in Endpoint, Open(e), e.out = <<>>
  PROVE  /\ Lasting(SendDtmf(e), e) /\ SendDtmf(e).server = e.server
         /\ Lasting(SendQueuedInfo(e), e) /\ SendQueuedInfo(e).server = e.server
         /\ Lasting(ReceiveInfo(e), e)
<1> DEFINE m == Request("INFO", "none")
<1>1. <<>> \in Seq(Plain) /\ <<>> \in Seq(NoBye) OBVIOUS
<1>2. <<m>> \in Seq(Plain) /\ <<m>> \in Seq(NoBye) BY Messages, Short
<1> HIDE DEF m
<1>3. Lasting(SendDtmf(e), e) /\ SendDtmf(e).server = e.server
  <2> DEFINE d == SendDtmf(e)
  <2>1. /\ d \in Endpoint /\ SameSession(d, e) /\ d.op = e.op /\ d.dialog = e.dialog
        /\ d.releaseLater = e.releaseLater /\ d.bye = e.bye /\ d.server = e.server
        /\ d.out \in {<<>>, <<m>>}
    BY SendDtmfFacts DEF m
  <2> HIDE DEF d
  <2>2. Lasting(d, e) BY <1>1, <1>2, <2>1, SameOpen
  <2> QED BY <2>1, <2>2 DEF d
<1>4. Lasting(SendQueuedInfo(e), e) /\ SendQueuedInfo(e).server = e.server
  <2> DEFINE d == SendQueuedInfo(e)
  <2>1. /\ d \in Endpoint /\ SameSession(d, e) /\ d.op = e.op /\ d.dialog = e.dialog
        /\ d.releaseLater = e.releaseLater /\ d.bye = e.bye /\ d.server = e.server
        /\ d.out = <<m>>
    BY SendQueuedInfoFacts DEF m
  <2> HIDE DEF d
  <2>2. Lasting(d, e) BY <1>2, <2>1, SameOpen
  <2> QED BY <2>1, <2>2 DEF d
<1>5. Lasting(ReceiveInfo(e), e)
  <2>1. \E code \in {200, 491} : ReceiveInfo(e) = Send(e, Response("INFO", code, "none"))
    BY DEF ReceiveInfo, Open
  <2> QED BY <2>1, Messages, SendSame
<1> QED BY <1>3, <1>4, <1>5

\* processRequestEventCb() on a re-INVITE: what becomes of the transaction.
LEMMA ReinviteRecord ==
  ASSUME NEW e \in Endpoint, NEW dir \in Dir
  PROVE  /\ [e EXCEPT !.server = TRUE, !.remote = dir] \in Endpoint
         /\ [e EXCEPT !.server = TRUE] \in Endpoint
         /\ LET r == [e EXCEPT !.server = TRUE, !.remote = dir]
            IN  /\ SameSession(r, e) /\ r.op = e.op /\ r.dialog = e.dialog
                /\ r.releaseLater = e.releaseLater /\ r.bye = e.bye /\ r.out = e.out
         /\ LET r == [e EXCEPT !.server = TRUE]
            IN  /\ SameSession(r, e) /\ r.op = e.op /\ r.dialog = e.dialog
                /\ r.releaseLater = e.releaseLater /\ r.bye = e.bye /\ r.out = e.out
<1>1. [e EXCEPT !.server = TRUE, !.remote = dir] \in Endpoint BY Zenon DEF Endpoint
<1>2. [e EXCEPT !.server = TRUE] \in Endpoint BY Zenon DEF Endpoint
<1> QED BY <1>1, <1>2 DEF SameSession, Endpoint

\* SalCallOp::processRequestEventCb() on a re-INVITE moves an established session
\* only, and keeps it established.
LEMMA ReinviteCourse ==
  ASSUME NEW e \in Endpoint, Grounded(e), e.dialog = "Confirmed",
         NEW m \in Msg, m.dir \in Dir, NEW compatible, NEW defer
  PROVE  Course(ReceiveReinvite(e, m, compatible, defer), e)
<1> DEFINE r == [e EXCEPT !.server = TRUE, !.remote = m.dir]
           s == [e EXCEPT !.server = TRUE]
           a == Send(e, Response("INVITE", 491, "none"))
           d == Updating(r, compatible, defer)
<1>1. r \in Endpoint /\ SameSession(r, e) /\ r.dialog = e.dialog /\ SameSession(s, e)
  BY ReinviteRecord
<1>2. Response("INVITE", 491, "none") \in Msg BY Messages DEF Plain
<1>3. Twin(a, e) BY <1>2, SendTwin
<1> HIDE DEF r, s, a
<1>4. Course(s, e) /\ Course(a, e) BY <1>1, <1>3, SameCourse DEF SameSession, Twin
<1>5. Grounded(r) BY <1>1 DEF SameSession, Grounded
<1>6. Course(d, e)
  <2>1. CASE r.attached => r.state \notin {"End", "Released"}
    <3>1. Served(d, r) BY <1>1, <1>5, <2>1, UpdatingServed
    <3> HIDE DEF d
    <3> QED BY <1>1, <3>1 DEF Served, Course, SameSession
  <2>2. CASE r.attached /\ r.state \in {"End", "Released"}
    <3> DEFINE x == Reply(r, 481, "none")
    <3>1. Replied(x, r) BY <1>1, ReplyReplied DEF Code
    <3>2. d = x BY <2>2 DEF Updating
    <3> HIDE DEF x, d
    <3>3. SameSession(d, e) BY <1>1, <3>1, <3>2 DEF Replied, SameSession
    <3> QED BY <3>3, SameCourse DEF SameSession
  <2> QED BY <2>1, <2>2
<1>7. ReceiveReinvite(e, m, compatible, defer) \in {a, s, d}
  BY DEF ReceiveReinvite, a, s, d, r
<1> QED BY <1>4, <1>6, <1>7

\* In an open dialog a re-INVITE is never answered by a 481.
LEMMA ReinviteOpen ==
  ASSUME NEW e \in Endpoint, Grounded(e), Open(e), e.out = <<>>,
         NEW m \in Msg, m.dir \in Dir, NEW compatible, NEW defer
  PROVE  Lasting(ReceiveReinvite(e, m, compatible, defer), e)
<1> DEFINE r == [e EXCEPT !.server = TRUE, !.remote = m.dir]
           s == [e EXCEPT !.server = TRUE]
           d == Updating(r, compatible, defer)
<1>1. /\ r \in Endpoint /\ SameSession(r, e) /\ r.op = e.op /\ r.dialog = e.dialog
      /\ r.releaseLater = e.releaseLater /\ r.bye = e.bye /\ r.out = e.out
      /\ SameSession(s, e) /\ s.op = e.op /\ s.dialog = e.dialog
      /\ s.releaseLater = e.releaseLater /\ s.bye = e.bye /\ s.out = e.out
  BY ReinviteRecord
<1> HIDE DEF r, s
<1>2. CASE Crossing(e)
  <2>1. Lasting(Send(e, Response("INVITE", 491, "none")), e) BY Messages, SendSame
  <2> QED BY <1>2, <2>1 DEF ReceiveReinvite
<1>3. CASE ~Crossing(e) /\ e.op \in {"Terminating", "Terminated"}
  <2>1. s.out \in Seq(Plain) /\ s.out \in Seq(NoBye) BY <1>1
  <2>2. Lasting(s, e) BY <1>1, <2>1, SameOpen
  <2> QED BY <1>3, <2>2 DEF ReceiveReinvite, s
<1>4. CASE ~Crossing(e) /\ e.op \notin {"Terminating", "Terminated"}
  <2>1. r.state \notin {"End", "Released"} BY <1>1, <1>4 DEF Open, SameSession
  <2>2. Grounded(r) /\ Open(r) BY <1>1 DEF Grounded, Open, SameSession
  <2>3. Served(d, r) BY <1>1, <2>1, <2>2, UpdatingServed DEF Open
  <2> HIDE DEF d
  <2>4. Lasting(d, r) BY <1>1, <2>2, <2>3, ServedOpen
  <2>5. Lasting(d, e) BY <1>1, <2>4 DEF Lasting
  <2> QED BY <1>4, <2>5 DEF ReceiveReinvite, d, r
<1> QED BY <1>2, <1>3, <1>4

\* Sending a message does not move the session.
LEMMA SendCourse ==
  ASSUME NEW e \in Endpoint, Grounded(e), NEW m \in Msg
  PROVE  Course(Send(e, m), e)
<1>1. Twin(Send(e, m), e) BY SendTwin
<1> QED BY <1>1, SameCourse DEF Twin, SameSession

\* SalCallOp::callTerminated() on a CANCEL: the call that was ringing ends.
LEMMA ReceiveCancelRinging ==
  ASSUME NEW e \in Endpoint, EndpointInv(e), Grounded(e), e.dialog \in {"Null", "Early"},
         e.out = <<>>
  PROVE  LET d == ReceiveCancel(e)
         IN  /\ d \in Endpoint /\ Course(d, e)
             /\ d.state \in OverState \/ (e.state = "Idle" /\ d.state = "Idle" /\ ~d.attached)
             /\ e.server => d.dialog = "TermEarly"
             /\ e.server => d.out = Append(<<Response("CANCEL", 200, "none")>>,
                                           Response("INVITE", 487, "none"))
<1> DEFINE m == Response("CANCEL", 200, "none")
           n == Response("INVITE", 487, "none")
           ok == Send(e, m)
           t == [ok EXCEPT !.op = "Terminating"]
           r == Reply(t, 487, "none")
           d == Terminated(r)
<1>1. m \in Msg /\ Append(<<>>, m) = <<m>> BY Messages, Short DEF Plain
<1>2. ok \in Endpoint /\ Twin(ok, e) /\ ok.out = Append(e.out, m) BY <1>1, SendTwin
<1> HIDE DEF ok, m
<1>3. t \in Endpoint /\ SameSession(t, ok) /\ Apart(t, ok) BY <1>2, SetOpApart DEF OpState
<1> HIDE DEF t
<1>4. SameSession(t, e) /\ t.out = <<m>> /\ t.server = e.server /\ t.dialog = e.dialog
  BY <1>1, <1>2, <1>3 DEF SameSession, Twin, Apart, Beside, Kept
<1>5. r \in Endpoint /\ SameSession(r, t)
  BY <1>3, ReplyType, ReplyReplied DEF Replied, Code
<1>6. e.server => r.dialog = "TermEarly" /\ r.out = Append(<<m>>, n)
  <2>1. 487 \in Code \ {0} /\ 487 >= 300 BY DEF Code
  <2> SUFFICES ASSUME e.server PROVE r.dialog = "TermEarly" /\ r.out = Append(<<m>>, n)
    OBVIOUS
  <2>2. t.server /\ t.dialog \in {"Null", "Early"} BY <1>4
  <2>3. r.out = Append(t.out, n) BY <1>3, <2>1, <2>2, ReplyFacts
  <2>4. r.dialog = IF 487 >= 300 /\ t.dialog \in {"Null", "Early"} THEN "TermEarly" ELSE t.dialog
    BY <1>3, <2>1, <2>2, ReplyFacts
  <2> QED BY <1>4, <2>1, <2>2, <2>3, <2>4
<1> HIDE DEF r, n
<1>7. SameSession(r, e) BY <1>4, <1>5 DEF SameSession
<1>8. r.attached => r.state # "Released" BY <1>7 DEF SameSession, EndpointInv, SessionInv
<1>9. Ended(d, r) /\ Apart(d, r) BY <1>5, <1>8, TerminatedEnded, TerminatedApart
<1> HIDE DEF d
<1>10. Ended(d, e) BY <1>7, <1>9, EndedSame
<1>11. /\ Course(d, e)
       /\ d.state \in OverState \/ (e.state = "Idle" /\ d.state = "Idle" /\ ~d.attached)
  BY <1>10, EndedCourse
<1>12. d \in Endpoint /\ (e.server => d.dialog = "TermEarly" /\ d.out = Append(<<m>>, n))
  BY <1>6, <1>9 DEF Ended, Apart, Beside, Kept
<1>13. ReceiveCancel(e) = d BY DEF ReceiveCancel, d, r, t, ok, m
<1> QED BY <1>11, <1>12, <1>13 DEF m, n

\* On a CANCEL that comes too late nothing but an answer is sent.
LEMMA ReceiveCancelOpen ==
  ASSUME NEW e \in Endpoint, Grounded(e), Open(e), e.out = <<>>
  PROVE  LET d == ReceiveCancel(e)
         IN  /\ Lasting(d, e) /\ Course(d, e)
             /\ ~e.server => ~d.server /\ d.out \in Seq(CancelAnswer)
<1> DEFINE m == Response("CANCEL", 200, "none")
           n == Response("CANCEL", 481, "none")
           ok == Send(e, m)
           d == Reply(ok, 487, "none")
           x == Send(e, n)
<1>1. /\ m \in Plain \cap NoBye /\ n \in Plain \cap NoBye /\ n \in CancelAnswer
      /\ m \in Msg /\ n \in Msg
  BY Messages DEF Plain
<1> HIDE DEF m, n
<1>2. CASE e.server
  <2>1. /\ ok \in Endpoint /\ SameSession(ok, e) /\ Lasting(ok, e) /\ ok.out = <<m>>
        /\ ok.server
    BY <1>1, <1>2, SendSame
  <2> HIDE DEF ok
  <2>2. Grounded(ok) /\ ok.dialog = "Confirmed"
    BY <2>1 DEF Grounded, SameSession, Lasting, Open
  <2>3. Served(d, ok) /\ SameSession(d, ok) BY <2>1, <2>2, ReplyServed
  <2>4. d.out = Append(<<m>>, Response("INVITE", 487, "none"))
    <3>1. 487 \in Code \ {0} BY DEF Code
    <3> QED BY <2>1, <3>1, ReplyFacts
  <2> HIDE DEF d
  <2>5. d.out \in Seq(Plain) /\ d.out \in Seq(NoBye) BY <1>1, <2>4, Messages, Short
  <2>6. Open(d) /\ d.bye = ok.bye
    BY <2>1, <2>3 DEF Lasting, Open, SameSession, Served
  <2>7. Lasting(d, e) BY <2>1, <2>5, <2>6 DEF Lasting
  <2>8. SameSession(d, e) BY <2>1, <2>3 DEF SameSession
  <2>9. Course(d, e) BY <2>8, SameCourse DEF SameSession
  <2>10. ReceiveCancel(e) = d BY <1>2 DEF ReceiveCancel, Open, d, ok, m
  <2> QED BY <1>2, <2>7, <2>9, <2>10
<1>3. CASE ~e.server
  <2>1. Lasting(x, e) /\ x.out = <<n>> /\ x.server = e.server BY <1>1, SendSame
  <2>2. Course(x, e) BY <1>1, SendCourse
  <2> HIDE DEF x
  <2>3. x.out \in Seq(CancelAnswer) BY <1>1, <2>1
  <2>4. ReceiveCancel(e) = x BY <1>3 DEF ReceiveCancel, Open, x, n
  <2> QED BY <1>3, <2>1, <2>2, <2>3, <2>4
<1> QED BY <1>2, <1>3

\* A CANCEL for a dialog that is gone is answered at most.
LEMMA ReceiveCancelLost ==
  ASSUME NEW e \in Endpoint, EndpointInv(e), Grounded(e), Lost(e), e.out = <<>>
  PROVE  LET d == ReceiveCancel(e)
         IN  /\ d \in Endpoint /\ Course(d, e) /\ Lost(d) /\ d.info = e.info
             /\ d.out \in Seq(CancelAnswer)
<1> DEFINE n == Response("CANCEL", 481, "none")
           x == Send(e, n)
<1>1. n \in CancelAnswer /\ n \in Msg BY Messages DEF Plain
<1> HIDE DEF n
<1>2. CASE e.dialog \in {"TermEarly", "TermConf", "Terminated"}
  <2>1. ReceiveCancel(e) = e BY <1>2 DEF ReceiveCancel
  <2>2. Course(e, e) BY SameCourse
  <2>3. e.out \in Seq(CancelAnswer) OBVIOUS
  <2> QED BY <2>1, <2>2, <2>3
<1>3. CASE e.dialog \notin {"TermEarly", "TermConf", "Terminated"}
  <2>1. e.dialog = "None" BY <1>3 DEF Lost, EndpointInv, OverInv
  <2>2. ReceiveCancel(e) = x BY <2>1 DEF ReceiveCancel, x, n
  <2>3. x \in Endpoint /\ Twin(x, e) /\ x.out = Append(e.out, n) BY <1>1, SendTwin
  <2>4. Course(x, e) BY <1>1, SendCourse
  <2> HIDE DEF x
  <2>5. x.out \in Seq(CancelAnswer) BY <1>1, <2>3
  <2>6. Lost(x) /\ x.info = e.info BY <2>3 DEF Lost, Twin, Beside, Kept, SameSession
  <2> QED BY <2>2, <2>3, <2>4, <2>5, <2>6
<1> QED BY <1>2, <1>3

\* A CANCEL moves no session but one that is ringing.
LEMMA ReceiveCancelCourse ==
  ASSUME NEW e \in Endpoint, EndpointInv(e), Grounded(e), e.out = <<>>
  PROVE  Course(ReceiveCancel(e), e)
<1> DEFINE m == Response("CANCEL", 200, "none")
           n == Response("CANCEL", 481, "none")
           ok == Send(e, m)
           r == Reply(ok, 487, "none")
<1>1. m \in Msg /\ n \in Msg BY Messages DEF Plain
<1> HIDE DEF m, n
<1>2. CASE e.dialog \in {"Null", "Early"} BY <1>2, ReceiveCancelRinging
<1>3. CASE e.dialog \notin {"Null", "Early"}
  <2>1. Course(e, e) /\ Course(Send(e, n), e) BY <1>1, SameCourse, SendCourse
  <2>2. ok \in Endpoint /\ Twin(ok, e) BY <1>1, SendTwin
  <2> HIDE DEF ok
  <2>3. Replied(r, ok) BY <2>2, ReplyReplied DEF Code
  <2> HIDE DEF r
  <2>4. Course(r, e) BY <2>2, <2>3, SameCourse DEF Twin, Replied, SameSession
  <2>5. ReceiveCancel(e) \in {e, Send(e, n), r} BY <1>3 DEF ReceiveCancel, n, r, ok, m
  <2> QED BY <2>1, <2>4, <2>5
<1> QED BY <1>2, <1>3

(***************************************************************************)
(* Responses.                                                              *)
(***************************************************************************)

\* What a response does to the stack before the op hears of it.
LEMMA StackFacts ==
  ASSUME NEW e \in Endpoint, NEW m \in Msg, Matched(e, m)
  PROVE  LET d == StackResponse(e, m)
         IN  /\ d \in Endpoint /\ SameSession(d, e) /\ d.op = e.op /\ d.out = e.out
             /\ d.released = e.released /\ d.releaseLater = e.releaseLater
             /\ d.server = e.server /\ d.lastRequest = e.lastRequest /\ d.offer = e.offer
             /\ d.retry = e.retry
             /\ m.method # "INVITE" => d.client = e.client
             /\ m.method # "INFO" => d.info = e.info
             /\ m.method # "BYE" => d.bye = e.bye
             /\ m.method \notin {"INVITE", "BYE"} => d.dialog = e.dialog
             /\ m.method = "BYE" =>
                  d.dialog = IF e.dialog = "Confirmed" THEN "TermConf" ELSE e.dialog
             /\ m.method = "INVITE" =>
                  /\ d.client = IF m.code >= 200 THEN "none" ELSE "proceeding"
                  /\ e.released \/ e.dialog \notin {"None", "Early"} => d.dialog = e.dialog
                  /\ ~e.released /\ e.dialog \in {"None", "Early"} /\ m.code = 200 =>
                       d.dialog = "Confirmed"
                  /\ ~e.released /\ e.dialog = "None" /\ m.code = 180 => d.dialog = "Early"
                  /\ e.dialog = "None" /\ m.code \notin {180, 200} => d.dialog = "None"
                  /\ ~e.released /\ e.dialog = "Early" /\ m.code >= 300 => d.dialog = "TermEarly"
                  /\ e.dialog = "Early" /\ m.code < 200 => d.dialog = "Early"
<1>1. StackResponse(e, m) \in Endpoint BY StackResponseType
<1>2. m.code \in Code /\ m.method \in Method BY DEF Msg
<1>3. CASE m.method = "INVITE"
  <2> DEFINE g == CASE e.released -> e.dialog
                    [] ~e.released /\ e.dialog \in {"None", "Early"} /\ m.code >= 200 /\ m.code < 300 -> "Confirmed"
                    [] ~e.released /\ e.dialog = "None" /\ m.code = 180 -> "Early"
                    [] ~e.released /\ e.dialog = "Early" /\ m.code >= 200 /\ ~(m.code < 300) -> "TermEarly"
                    [] OTHER -> e.dialog
             c == IF m.code >= 200 THEN "none" ELSE "proceeding"
             d == [e EXCEPT !.client = c, !.dialog = g]
  <2>1. StackResponse(e, m) = d BY <1>3 DEF StackResponse
  <2>2. /\ e.released \/ e.dialog \notin {"None", "Early"} => g = e.dialog
        /\ ~e.released /\ e.dialog \in {"None", "Early"} /\ m.code = 200 => g = "Confirmed"
        /\ ~e.released /\ e.dialog = "None" /\ m.code = 180 => g = "Early"
        /\ e.dialog = "None" /\ m.code \notin {180, 200} => g = "None"
        /\ ~e.released /\ e.dialog = "Early" /\ m.code >= 300 => g = "TermEarly"
        /\ e.dialog = "Early" /\ m.code < 200 => g = "Early"
    BY <1>2 DEF Code
  <2> HIDE DEF g, c
  <2>3. /\ SameSession(d, e) /\ d.op = e.op /\ d.out = e.out
        /\ d.released = e.released /\ d.releaseLater = e.releaseLater
        /\ d.server = e.server /\ d.lastRequest = e.lastRequest /\ d.offer = e.offer
        /\ d.retry = e.retry /\ d.info = e.info /\ d.bye = e.bye
        /\ d.client = c /\ d.dialog = g
    BY <1>1, <2>1 DEF SameSession, Endpoint
  <2> HIDE DEF d
  <2> QED BY <1>1, <1>3, <2>1, <2>2, <2>3 DEF c
<1>4. CASE m.method = "BYE"
  <2> DEFINE g == IF e.dialog = "Confirmed" THEN "TermConf" ELSE e.dialog
             d == [e EXCEPT !.bye = @ - 1, !.dialog = g]
  <2>1. StackResponse(e, m) = d BY <1>4 DEF StackResponse
  <2> HIDE DEF g
  <2>2. /\ SameSession(d, e) /\ d.op = e.op /\ d.out = e.out
        /\ d.released = e.released /\ d.releaseLater = e.releaseLater
        /\ d.server = e.server /\ d.lastRequest = e.lastRequest /\ d.offer = e.offer
        /\ d.retry = e.retry /\ d.info = e.info /\ d.client = e.client /\ d.dialog = g
    BY <1>1, <2>1 DEF SameSession, Endpoint
  <2> HIDE DEF d
  <2> QED BY <1>1, <1>4, <2>1, <2>2 DEF g
<1>5. CASE m.method = "INFO"
  <2>1. StackResponse(e, m) = [e EXCEPT !.info = "none"] BY <1>5 DEF StackResponse
  <2> QED BY <1>1, <1>5, <2>1 DEF SameSession, Endpoint
<1>6. CASE m.method = "CANCEL"
  <2>1. StackResponse(e, m) = e BY <1>6 DEF StackResponse
  <2> QED BY <1>1, <1>6, <2>1 DEF SameSession
<1> QED BY <1>2, <1>3, <1>4, <1>5, <1>6 DEF Method

\* SalOp::handleRetry() and what else becomes of the retry function.
LEMMA RetryTrimmed ==
  ASSUME NEW e \in Endpoint, NEW code
  PROVE  LET d == IF code = 491 THEN HandleRetry(e) ELSE [e EXCEPT !.retry = "none"]
         IN  d \in Endpoint /\ Trimmed(d, e)
<1>1. [e EXCEPT !.retry = "none"] \in Endpoint /\ Trimmed([e EXCEPT !.retry = "none"], e)
  BY SetRetryTrimmed, NamedRetries DEF Trimmed
<1>2. HandleRetry(e) \in Endpoint BY HandleRetryType
<1>3. Trimmed(HandleRetry(e), e)
  <2>1. CASE HandleRetry(e) = e BY <2>1, SelfTrimmed
  <2>2. CASE HandleRetry(e) = [e EXCEPT !.retry = "none"] BY <1>1, <2>2
  <2>3. CASE HandleRetry(e) = [e EXCEPT !.timers = @ + 1]
    BY <1>2, <2>3 DEF Trimmed, SameSession, Kept, Endpoint
  <2> QED BY <2>1, <2>2, <2>3 DEF HandleRetry
<1> QED BY <1>1, <1>2, <1>3

\* MediaSessionPrivate::accepted() on the answer to a re-INVITE.
LEMMA AcceptedServed ==
  ASSUME NEW e \in Endpoint, EndpointInv(e), Grounded(e), e.state \in TransientState,
         NEW answered, NEW compatible
  PROVE  LET d == Accepted(e, answered, compatible)
         IN  Served(d, e) /\ d.out = e.out /\ d.server = e.server
<1> DEFINE md == ComputeDirOutgoing(e.offer, answered)
           r == [e EXCEPT !.result = md]
           next == AcceptedNextState(e, md)
<1>1. md \in Dir BY DirType DEF Endpoint
<1> HIDE DEF md
<1>2. r \in Endpoint BY <1>1, Zenon DEF Endpoint
<1>3. Trimmed(r, e) BY <1>2 DEF Trimmed, SameSession, Kept, Endpoint
<1> HIDE DEF r
<1>4. e.state \in EstablishedState /\ e.state \notin {"OutgoingProgress", "OutgoingRinging"}
      /\ e.state \notin {"PausedByRemote", "Paused", "StreamsRunning"}
  BY DEF TransientState, EstablishedState
<1>5. e.attached BY <1>4, EstablishedFacts
<1>6. e.prevState \in EstablishedState /\ e.prevState \notin EarlyState
  BY DEF Grounded, TransientState, EstablishedState, EarlyState
<1>7. next \in EstablishedState /\ next # "Idle"
  BY DEF AcceptedNextState, TransientState, EstablishedState
<1> HIDE DEF next
<1>8. Grounded(r) /\ r.state \in EstablishedState
  BY <1>3, <1>4 DEF Trimmed, SameSession, Grounded
<1>9. \E s \in EstablishedState : Accepted(e, answered, compatible) = SetState(r, s)
  BY <1>4, <1>5, <1>6, <1>7 DEF Accepted, r, next, md
<1>10. ASSUME NEW s \in EstablishedState
       PROVE  LET d == SetState(r, s)
              IN  Served(d, e) /\ d.out = e.out /\ d.server = e.server
  <2> DEFINE d == SetState(r, s)
  <2>1. Served(d, r) /\ d.out = r.out /\ d.server = r.server /\ d.op = r.op
    BY <1>2, <1>8, SetStateServed
  <2> HIDE DEF d
  <2>2. Course(d, e) BY <1>3, <2>1 DEF Trimmed, SameSession, Served, Course
  <2>3. Served(d, e) /\ d.out = e.out /\ d.server = e.server
    BY <1>3, <2>1, <2>2 DEF Trimmed, SameSession, Served, Kept
  <2> QED BY <2>3 DEF d
<1> QED BY <1>9, <1>10

\* MediaSessionPrivate::failure() on an error to a re-INVITE.
LEMMA FailureServed ==
  ASSUME NEW e \in Endpoint, EndpointInv(e), Grounded(e), e.state \in TransientState,
         NEW code, code # 481
  PROVE  LET d == Failure(e, code)
         IN  Served(d, e) /\ d.out = e.out /\ d.server = e.server
<1>1. e.state \in EstablishedState BY DEF TransientState, EstablishedState
<1>2. e.attached BY <1>1, EstablishedFacts
<1>3. /\ e.prevState \in EstablishedState /\ e.lastStable \in EstablishedState
  BY DEF Grounded, TransientState, EstablishedState, EndpointInv, SessionInv
<1>4. Failure(e, code) \in {e, SetState(e, e.lastStable), SetState(e, e.prevState)}
  BY <1>2 DEF Failure
<1>5. Course(e, e) BY SameCourse
<1>6. Served(e, e) BY <1>5 DEF Served
<1> QED BY <1>1, <1>3, <1>4, <1>6, SetStateServed

\* The endpoint as the op finds it on a response.
Heard(e, m) ==
  LET x == StackResponse(e, m)
  IN  IF m.code = 491 THEN HandleRetry(x) ELSE [x EXCEPT !.retry = "none"]

\* The stack and the retry function leave session and op alone.
LEMMA HeardFacts ==
  ASSUME NEW e \in Endpoint, EndpointInv(e), NEW m \in Msg, m.code # 0, Matched(e, m)
  PROVE  LET d == Heard(e, m)
             x == StackResponse(e, m)
         IN  /\ d \in Endpoint /\ EndpointInv(d) /\ Trimmed(d, x) /\ Trimmed(x, d)
             /\ SameSession(d, e) /\ d.op = e.op /\ d.out = e.out
             /\ m.method = "INVITE" =>
                  /\ e.state \in TransientState \cup {"OutgoingProgress", "OutgoingRinging"}
                                 \cup OverState
                  /\ e.op \notin {"Terminating", "Terminated"} =>
                       /\ e.attached
                       /\ e.state \in TransientState \cup {"OutgoingProgress", "OutgoingRinging"}
<1> DEFINE x == StackResponse(e, m)
           d == Heard(e, m)
<1>1. /\ x \in Endpoint /\ EndpointInv(x) /\ SameSession(x, e) /\ x.op = e.op /\ x.out = e.out
  BY StackFacts, StackResponseInv
<1> HIDE DEF x
<1>2. d \in Endpoint /\ Trimmed(d, x) BY <1>1, RetryTrimmed DEF Heard, x
<1>3. EndpointInv(d)
  <2>1. CASE m.code = 491 BY <1>1, <2>1, HandleRetryInv DEF Heard, x
  <2>2. CASE m.code # 491 BY <1>1, <2>2, DropRetryInv DEF Heard, x
  <2> QED BY <2>1, <2>2
<1> HIDE DEF d
<1>4. SameSession(d, e) /\ d.op = e.op /\ d.out = e.out /\ Trimmed(x, d)
  BY <1>1, <1>2 DEF Trimmed, SameSession, Kept
<1>5. ASSUME m.method = "INVITE"
      PROVE  /\ e.state \in TransientState \cup {"OutgoingProgress", "OutgoingRinging"}
                            \cup OverState
             /\ e.op \notin {"Terminating", "Terminated"} =>
                  /\ e.attached
                  /\ e.state \in TransientState \cup {"OutgoingProgress", "OutgoingRinging"}
  <2>1. e.client # "none" BY <1>5 DEF Matched
  <2>2. e.state \in TransientState \cup {"OutgoingProgress", "OutgoingRinging"} \cup OverState
    BY <2>1 DEF EndpointInv, RequestInv
  <2>3. ASSUME e.op \notin {"Terminating", "Terminated"}
        PROVE  e.attached /\ e.state \notin OverState
    BY <2>1, <2>2, <2>3
       DEF EndpointInv, RequestInv, OverInv, SessionInv, OverState, TransientState
  <2> QED BY <2>2, <2>3
<1> QED BY <1>1, <1>2, <1>3, <1>4, <1>5 DEF d, x

\* SalCallOp::processResponseCb(), by the state of the dialog.
LEMMA ResponseCases ==
  ASSUME NEW e \in Endpoint, NEW m \in Msg, NEW compatible,
         Matched(e, m), Heard(e, m).dialog = StackResponse(e, m).dialog,
         Heard(e, m).op = StackResponse(e, m).op,
         Heard(e, m).dialog \in DialogState
  PROVE  LET d == Heard(e, m)
             f == ProcessResponse(e, m, compatible)
         IN  /\ d.op = "Terminated" => f = StackResponse(e, m)
             /\ d.op # "Terminated" /\ d.dialog \in {"None", "Null", "Early"} =>
                  f = EarlyResponse(d, m)
             /\ d.op # "Terminated" /\ d.dialog = "Confirmed" =>
                  f = ConfirmedResponse(d, m, compatible)
             /\ d.op # "Terminated" /\ d.dialog \in {"TermEarly", "TermConf", "Terminated"} =>
                  f = IF m.code >= 300 /\ m.code # 491 /\ m.method \in {"INVITE", "BYE"}
                      THEN SetFatalError(d, m.code) ELSE d
<1> DEFINE x == StackResponse(e, m)
           d == Heard(e, m)
           f == ProcessResponse(e, m, compatible)
<1>1. f = IF x.op = "Terminated" THEN x
          ELSE CASE x.dialog \in {"None", "Null", "Early"} -> EarlyResponse(d, m)
                 [] x.dialog = "Confirmed" -> ConfirmedResponse(d, m, compatible)
                 [] OTHER ->
                      IF m.code >= 300 /\ m.code # 491 /\ m.method \in {"INVITE", "BYE"}
                      THEN SetFatalError(d, m.code) ELSE d
  BY DEF ProcessResponse, Heard
<1> HIDE DEF x, d, f
<1>2. x.dialog = d.dialog /\ x.op = d.op /\ d.dialog \in DialogState BY DEF x, d
<1>3. CASE d.op = "Terminated" BY <1>1, <1>2, <1>3 DEF x, d, f
<1>4. CASE d.op # "Terminated" /\ d.dialog \in {"None", "Null", "Early"}
  BY <1>1, <1>2, <1>4 DEF d, f
<1>5. CASE d.op # "Terminated" /\ d.dialog = "Confirmed" BY <1>1, <1>2, <1>5 DEF d, f
<1>6. CASE d.op # "Terminated" /\ d.dialog \in {"TermEarly", "TermConf", "Terminated"}
  BY <1>1, <1>2, <1>6 DEF d, f
<1> QED BY <1>2, <1>3, <1>4, <1>5, <1>6 DEF DialogState, d

\* SalCallOp::setError() ends what was not established.
LEMMA SetFatalErrorFacts ==
  ASSUME NEW e \in Endpoint, EndpointInv(e), Grounded(e), NEW code,
         e.attached => e.state \in EarlyState \cup {"End", "Error"}
  PROVE  LET d == SetFatalError(e, code)
         IN  /\ d \in Endpoint /\ Course(d, e) /\ Beside(d, e) /\ d.out = e.out
             /\ d.attached => d.state \in {"End", "Error"}
             /\ d.state \in OverState \/ (e.state = "Idle" /\ d.state = "Idle" /\ ~d.attached)
<1> DEFINE t == [e EXCEPT !.op = "Terminating"]
           d == Failure(t, code)
<1>1. t \in Endpoint /\ SameSession(t, e) /\ Apart(t, e) BY SetOpApart DEF OpState
<1> HIDE DEF t
<1>2. t.attached => t.state \in EarlyState \cup {"End", "Error"} BY <1>1 DEF SameSession
<1>3. Ended(d, t) /\ Apart(d, t) BY <1>1, <1>2, FailureEnded, FailureApart
<1> HIDE DEF d
<1>4. Ended(d, e) BY <1>1, <1>3, EndedSame
<1>5. /\ Course(d, e)
      /\ d.state \in OverState \/ (e.state = "Idle" /\ d.state = "Idle" /\ ~d.attached)
  BY <1>4, EndedCourse
<1>6. d \in Endpoint /\ (d.attached => d.state \in {"End", "Error"}) BY <1>4 DEF Ended
<1>7. Beside(d, e) /\ d.out = e.out BY <1>1, <1>3 DEF Apart, Beside, Kept
<1>8. SetFatalError(e, code) = d BY DEF SetFatalError, d, t
<1> QED BY <1>5, <1>6, <1>7, <1>8

\* MediaSessionPrivate::accepted() on the answer to the first offer: the call runs,
\* or is aborted with a BYE.
LEMMA FirstAccepted ==
  ASSUME NEW e \in Endpoint, e.attached, e.state \in {"OutgoingProgress", "OutgoingRinging"},
         e.op \in {"Early", "Active"}, e.dialog = "Confirmed", e.offer = "sendrecv",
         NEW compatible
  PROVE  LET d == Accepted(e, "sendrecv", compatible)
         IN  /\ d \in Endpoint /\ Course(d, e) /\ d.dialog = e.dialog
             /\ d.releaseLater = e.releaseLater
             /\ \/ d.state = "StreamsRunning" /\ d.bye = e.bye /\ d.out = e.out
                \/ /\ d.state = "Error" /\ d.bye = e.bye + 1
                   /\ d.out = Append(e.out, Request("BYE", "none"))
<1> DEFINE c == SetState(e, "Connected")
           r == [c EXCEPT !.result = "sendrecv"]
           s == SetState(r, "StreamsRunning")
           b == SendBye(c)
           t == [b EXCEPT !.op = "Terminating"]
           x == SetState(t, "Error")
<1>1. "Connected" \in CallState \ {"Released"} /\ ~BadTransition(e.state, "Connected")
      /\ "StreamsRunning" \in CallState \ {"Released"} /\ "Error" \in CallState \ {"Released"}
  BY DEF CallState, BadTransition
<1>2. /\ c \in Endpoint /\ Apart(c, e) /\ c.op = e.op /\ c.attached = e.attached
      /\ c.state = "Connected" /\ c.prevState = e.state
  BY <1>1, SetStateTo
<1> HIDE DEF c
<1>3. c.offer = "sendrecv" /\ c.dialog = "Confirmed" /\ c.incoming = e.incoming
  BY <1>2 DEF Apart, Beside, Kept
<1>4. /\ ComputeDirOutgoing(c.offer, "sendrecv") = "sendrecv"
      /\ AcceptedNextState(c, "sendrecv") = "StreamsRunning"
  BY <1>2, <1>3 DEF ComputeDirOutgoing, AcceptedNextState
<1>5. c.prevState \in EarlyState \ {"Idle"} BY <1>2 DEF EarlyState
<1>6. CASE compatible
  <2>1. r \in Endpoint BY <1>2, Zenon DEF Endpoint, Dir
  <2>2. Trimmed(r, c) BY <1>2, <2>1 DEF Trimmed, SameSession, Kept, Endpoint
  <2> HIDE DEF r
  <2>3. ~BadTransition(r.state, "StreamsRunning")
    BY <1>2, <2>2 DEF Trimmed, SameSession, BadTransition
  <2>4. s \in Endpoint /\ Apart(s, r) /\ s.state = "StreamsRunning" BY <1>1, <2>1, <2>3, SetStateTo
  <2> HIDE DEF s
  <2>5. /\ s.incoming = e.incoming /\ s.dialog = e.dialog /\ s.releaseLater = e.releaseLater
        /\ s.bye = e.bye /\ s.out = e.out
    BY <1>2, <2>2, <2>4 DEF Trimmed, Apart, Beside, Kept
  <2>6. Course(s, e)
    BY <2>4, <2>5 DEF Course, Onward, Grounded, EarlyState, OverState, EstablishedState
  <2>7. Accepted(e, "sendrecv", compatible) = s
    BY <1>4, <1>6 DEF Accepted, s, r, c
  <2> QED BY <2>4, <2>5, <2>6, <2>7
<1>7. CASE ~compatible
  <2>1. /\ b \in Endpoint /\ SameSession(b, c) /\ b.releaseLater = c.releaseLater
        /\ b.dialog = c.dialog /\ b.bye = c.bye + 1
        /\ b.out = Append(c.out, Request("BYE", "none"))
    BY <1>2, SendByeFacts
  <2>2. OpTerminate(c) = t BY <1>2, <1>3 DEF OpTerminate, t, b
  <2> HIDE DEF b
  <2>3. t \in Endpoint /\ SameSession(t, b) /\ Apart(t, b) BY <2>1, SetOpApart DEF OpState
  <2> HIDE DEF t
  <2>4. ~BadTransition(t.state, "Error")
    BY <1>2, <2>1, <2>3 DEF SameSession, BadTransition
  <2>5. x \in Endpoint /\ Apart(x, t) /\ x.state = "Error" BY <1>1, <2>3, <2>4, SetStateTo
  <2>6. Accepted(e, "sendrecv", compatible) = x
    BY <1>5, <1>7, <2>2 DEF Accepted, Abort, x, c
  <2> HIDE DEF x
  <2>7. /\ x.incoming = e.incoming /\ x.dialog = e.dialog /\ x.releaseLater = e.releaseLater
        /\ x.bye = e.bye + 1 /\ x.out = Append(e.out, Request("BYE", "none"))
    BY <1>2, <1>3, <2>1, <2>3, <2>5 DEF SameSession, Apart, Beside, Kept
  <2>8. Course(x, e)
    BY <2>5, <2>7 DEF Course, Onward, Grounded, EarlyState, OverState, EstablishedState
  <2> QED BY <2>5, <2>6, <2>7, <2>8
<1> QED BY <1>6, <1>7

\* SalCallOp::processResponseCb() in a dialog that is not established.
LEMMA EarlyResponseCourse ==
  ASSUME NEW e \in Endpoint, EndpointInv(e), Grounded(e), NEW m \in Msg,
         e.dialog \in {"None", "Null", "Early"},
         m.method = "INVITE" /\ e.op # "Terminating" /\ m.code = 180 =>
           e.attached /\ e.state \in {"OutgoingProgress", "OutgoingRinging"}
  PROVE  Course(EarlyResponse(e, m), e)
<1>1. Course(e, e) BY SameCourse
<1>2. e.attached => e.state \in EarlyState \cup {"End", "Error"} BY DEF EndpointInv, OverInv
<1>3. e.state \in EarlyState \cup OverState
  BY <1>2 DEF EndpointInv, SessionInv, EarlyState, OverState
<1>4. CASE m.method = "INVITE" /\ e.op = "Terminating"
  <2>1. e.attached => e.state \in {"End", "Error"} BY <1>4 DEF EndpointInv, OverInv
  <2>2. e.state \in OverState \/ (e.state = "Idle" /\ ~e.attached)
    BY <2>1 DEF EndpointInv, SessionInv, OverState
  <2> DEFINE d == SetOpReleased(e)
             c == CancelInvite(e)
  <2>3. /\ d.incoming = e.incoming
        /\ \/ d.state = e.state /\ d.attached = e.attached
              /\ d.prevState = e.prevState /\ d.lastStable = e.lastStable
           \/ e.state \in {"End", "Error"} /\ d.state = "Released"
    BY <2>1, SetOpReleasedFacts
  <2> HIDE DEF d
  <2>4. Course(d, e) BY <1>1, <1>3, <2>2, <2>3, ReleasedCourse
  <2>5. c \in Endpoint /\ SameSession(c, e) BY CancelInviteType, CancelInviteFacts
  <2> HIDE DEF c
  <2>6. SameSession([c EXCEPT !.op = "Terminating"], c) BY <2>5, SetOpApart DEF OpState
  <2>7. SameSession(CancellingInvite(e), e)
    BY <2>5, <2>6 DEF SameSession, CancellingInvite, c
  <2>8. Course(CancellingInvite(e), e) BY <2>7, SameCourse DEF SameSession
  <2> QED BY <1>1, <1>4, <2>4, <2>8 DEF EarlyResponse, d
<1>5. CASE m.method = "INVITE" /\ e.op # "Terminating" /\ m.code = 180
  <2> DEFINE d == SetState(e, "OutgoingRinging")
  <2>1. "OutgoingRinging" \in CallState \ {"Released"} /\ ~BadTransition(e.state, "OutgoingRinging")
    BY <1>5 DEF CallState, BadTransition
  <2>2. d \in Endpoint /\ d.state = "OutgoingRinging" /\ d.incoming = e.incoming
    BY <2>1, SetStateTo
  <2> HIDE DEF d
  <2>3. Course(d, e)
    BY <1>5, <2>2 DEF Course, Onward, Grounded, EarlyState, OverState, EstablishedState
  <2> QED BY <1>5, <2>3 DEF EarlyResponse, RemoteRinging, d
<1>6. CASE m.method = "INVITE" /\ e.op # "Terminating" /\ m.code # 180 /\ m.code >= 300
  <2> DEFINE f == SetFatalError(e, m.code)
             d == SetOpReleased(f)
  <2>1. /\ f \in Endpoint /\ Course(f, e)
        /\ f.attached => f.state \in {"End", "Error"}
        /\ f.state \in OverState \/ (e.state = "Idle" /\ f.state = "Idle" /\ ~f.attached)
    BY <1>2, SetFatalErrorFacts
  <2> HIDE DEF f
  <2>2. /\ d.incoming = f.incoming
        /\ \/ d.state = f.state /\ d.attached = f.attached
              /\ d.prevState = f.prevState /\ d.lastStable = f.lastStable
           \/ f.state \in {"End", "Error"} /\ d.state = "Released"
    BY <2>1, SetOpReleasedFacts
  <2> HIDE DEF d
  <2>3. Course(d, e) BY <1>3, <2>1, <2>2, ReleasedCourse
  <2> QED BY <1>6, <2>1, <2>3 DEF EarlyResponse, d, f
<1> QED BY <1>1, <1>4, <1>5, <1>6 DEF EarlyResponse

\* SalCallOp::processResponseCb() in an established dialog.
LEMMA ConfirmedResponseCourse ==
  ASSUME NEW e \in Endpoint, EndpointInv(e), Grounded(e), NEW m \in Msg, NEW compatible,
         e.dialog = "Confirmed",
         m.method = "INVITE" /\ e.op \notin {"Terminating", "Terminated"} =>
           /\ e.attached
           /\ e.state \in TransientState \cup {"OutgoingProgress", "OutgoingRinging"},
         m.method = "INVITE" /\ m.code = 200
           /\ e.state \in {"OutgoingProgress", "OutgoingRinging"} =>
             e.offer = "sendrecv" /\ m.dir = "sendrecv"
  PROVE  Course(ConfirmedResponse(e, m, compatible), e)
<1>1. Course(e, e) BY SameCourse
<1>2. CASE e.op = "Terminating"
  <2>1. SameSession(SendBye(e), e) BY SendByeFacts
  <2>2. Course(SendBye(e), e) BY <2>1, SameCourse DEF SameSession
  <2> QED BY <1>2, <2>2 DEF ConfirmedResponse
<1>3. CASE e.op \in {"Early", "Active"} /\ m.method = "INVITE" /\ m.code = 200
  <2> DEFINE a == Accepted(e, m.dir, compatible)
             d == [a EXCEPT !.op = "Active"]
  <2>1. a \in Endpoint /\ Course(a, e)
    <3>1. CASE e.state \in TransientState BY <3>1, AcceptedServed DEF Served
    <3>2. CASE e.state \in {"OutgoingProgress", "OutgoingRinging"}
      BY <1>3, <3>2, FirstAccepted
    <3> QED BY <1>3, <3>1, <3>2
  <2> HIDE DEF a
  <2>2. SameSession(d, a) BY <2>1, SetOpApart DEF OpState
  <2> HIDE DEF d
  <2>3. Course(d, e) BY <2>1, <2>2 DEF Course, SameSession, Grounded
  <2> QED BY <1>3, <2>3 DEF ConfirmedResponse, d, a
<1>4. CASE e.op \in {"Early", "Active"} /\ m.method = "INVITE" /\ m.code >= 300
  <2> DEFINE d == Failure(e, m.code)
  <2>1. CASE e.state \in TransientState /\ m.code # 481
    <3>1. Course(d, e) BY <2>1, FailureServed DEF Served
    <3>2. m.code # 200 BY <1>4
    <3> QED BY <1>4, <3>1, <3>2 DEF ConfirmedResponse
  <2>2. CASE ~(e.state \in TransientState /\ m.code # 481)
    <3>1. e.attached /\ e.state \notin OverState \cup {"Idle", "StreamsRunning"}
      BY <1>4 DEF TransientState, OverState
    <3>2. d = SetState(e, "End") \/ d = SetState(e, "Error")
      BY <1>4, <2>2, <3>1 DEF Failure, TransientState, OverState
    <3>3. /\ "End" \in CallState \ {"Released"} /\ "Error" \in CallState \ {"Released"}
          /\ ~BadTransition(e.state, "End") /\ ~BadTransition(e.state, "Error")
      BY <3>1 DEF CallState, BadTransition, OverState
    <3>4. d.state \in {"End", "Error"} /\ d.incoming = e.incoming BY <3>2, <3>3, SetStateTo
    <3> HIDE DEF d
    <3>5. Course(d, e) BY <3>1, <3>4, OverCourse DEF OverState
    <3>6. m.code # 200 BY <1>4
    <3> QED BY <1>4, <3>5, <3>6 DEF ConfirmedResponse, d
  <2> QED BY <2>1, <2>2
<1> QED BY <1>1, <1>2, <1>3, <1>4 DEF ConfirmedResponse

\* A response moves a session on.  The answer to the first offer has to be one to a
\* stream in both directions.
LEMMA ProcessResponseCourse ==
  ASSUME NEW e \in Endpoint, EndpointInv(e), Grounded(e), NEW m \in Msg, m.code # 0,
         NEW compatible,
         m.method = "INVITE" /\ m.code = 200 /\ Matched(e, m)
           /\ e.state \in {"OutgoingProgress", "OutgoingRinging"} =>
             e.offer = "sendrecv" /\ m.dir = "sendrecv"
  PROVE  Course(ProcessResponse(e, m, compatible), e)
<1> DEFINE x == StackResponse(e, m)
           d == Heard(e, m)
           f == ProcessResponse(e, m, compatible)
<1>1. CASE ~Matched(e, m)
  <2>1. f = e BY <1>1 DEF ProcessResponse
  <2> QED BY <2>1, SameCourse
<1>2. CASE Matched(e, m)
  <2>1. /\ d \in Endpoint /\ EndpointInv(d) /\ Trimmed(d, x) /\ Trimmed(x, d)
        /\ SameSession(d, e) /\ d.op = e.op /\ d.out = e.out
        /\ m.method = "INVITE" =>
             /\ e.state \in TransientState \cup {"OutgoingProgress", "OutgoingRinging"}
                            \cup OverState
             /\ e.op \notin {"Terminating", "Terminated"} =>
                  /\ e.attached
                  /\ e.state \in TransientState \cup {"OutgoingProgress", "OutgoingRinging"}
    BY <1>2, HeardFacts
  <2>2. x.offer = e.offer BY <1>2, StackFacts
  <2>3. d.dialog = x.dialog /\ d.op = x.op /\ d.dialog \in DialogState /\ d.offer = e.offer
    BY <2>1, <2>2, FieldTypes DEF Trimmed, Kept
  <2>4. /\ d.op = "Terminated" => f = x
        /\ d.op # "Terminated" /\ d.dialog \in {"None", "Null", "Early"} =>
             f = EarlyResponse(d, m)
        /\ d.op # "Terminated" /\ d.dialog = "Confirmed" =>
             f = ConfirmedResponse(d, m, compatible)
        /\ d.op # "Terminated" /\ d.dialog \in {"TermEarly", "TermConf", "Terminated"} =>
             f = IF m.code >= 300 /\ m.code # 491 /\ m.method \in {"INVITE", "BYE"}
                 THEN SetFatalError(d, m.code) ELSE d
    BY <1>2, <2>3, ResponseCases
  <2> SUFFICES Course(f, e) OBVIOUS
  <2> HIDE DEF x, d, f
  <2>5. Grounded(d) BY <2>1 DEF SameSession, Grounded
  <2>6. ASSUME Course(f, d) PROVE Course(f, e) BY <2>1, <2>6 DEF SameSession, Course
  <2>7. CASE d.op = "Terminated"
    <3>1. SameSession(x, e) BY <2>1 DEF Trimmed, SameSession
    <3> QED BY <2>4, <2>7, <3>1, SameCourse DEF SameSession
  <2>8. CASE d.op # "Terminated" /\ d.dialog \in {"None", "Null", "Early"}
    <3>1. ASSUME m.method = "INVITE", d.op # "Terminating", m.code = 180
          PROVE  d.attached /\ d.state \in {"OutgoingProgress", "OutgoingRinging"}
      <4>1. d.attached /\ d.state \in TransientState \cup {"OutgoingProgress", "OutgoingRinging"}
        BY <2>1, <2>8, <3>1 DEF SameSession
      <4>2. d.state \in EarlyState \cup {"End", "Error"}
        BY <2>1, <2>8, <4>1 DEF EndpointInv, OverInv
      <4> QED BY <4>1, <4>2 DEF TransientState, EarlyState
    <3>2. Course(f, d) BY <2>1, <2>4, <2>5, <2>8, <3>1, EarlyResponseCourse
    <3> QED BY <2>6, <3>2
  <2>9. CASE d.op # "Terminated" /\ d.dialog = "Confirmed"
    <3>1. Course(f, d)
      BY <1>2, <2>1, <2>3, <2>4, <2>5, <2>9, ConfirmedResponseCourse DEF SameSession
    <3> QED BY <2>6, <3>1
  <2>10. CASE d.op # "Terminated" /\ d.dialog \in {"TermEarly", "TermConf", "Terminated"}
    <3>1. d.attached => d.state \in EarlyState \cup {"End", "Error"}
      BY <2>1, <2>10 DEF EndpointInv, OverInv
    <3>2. Course(SetFatalError(d, m.code), d) BY <2>1, <2>5, <3>1, SetFatalErrorFacts
    <3>3. Course(d, d) BY <2>1, <2>5, SameCourse
    <3> QED BY <2>4, <2>6, <2>10, <3>2, <3>3
  <2> QED BY <2>3, <2>7, <2>8, <2>9, <2>10 DEF DialogState
<1> QED BY <1>1, <1>2

(***************************************************************************)
(* The end of the dialog and of the op.                                    *)
(***************************************************************************)

\* SalCallOp::processDialogTerminatedCb()
LEMMA DialogTerminatedFacts ==
  ASSUME NEW e \in Endpoint, EndpointInv(e), Grounded(e), e.dialog \in {"TermEarly", "TermConf"}
  PROVE  LET d == ProcessDialogTerminated(e)
         IN  /\ d \in Endpoint /\ Course(d, e) /\ d.dialog = "Terminated"
             /\ d.info = e.info /\ d.out = e.out
             /\ Lost(e) => Lost(d)
<1> DEFINE alive == e.op \notin {"Terminating", "Terminated"}
           told == IF ~alive THEN e
                   ELSE IF e.dialog = "TermEarly" THEN Failure(e, 0) ELSE Terminated(e)
           d == [told EXCEPT !.op = IF alive THEN "Terminating" ELSE @,
                             !.releaseLater = TRUE, !.dialog = "Terminated"]
<1>1. d \in Endpoint BY DialogTerminatedType DEF ProcessDialogTerminated
<1>2. /\ told \in Endpoint /\ Course(told, e) /\ Apart(told, e)
      /\ e.state \in OverState => told.state \in OverState
      /\ e.state = "Idle" => told.state = "Idle"
  <2>1. CASE ~alive
    <3>1. Course(e, e) BY SameCourse
    <3> QED BY <2>1, <3>1 DEF Apart, Beside, Kept
  <2>2. CASE alive /\ e.dialog = "TermEarly"
    <3> DEFINE x == Failure(e, 0)
    <3>1. e.attached => e.state \in EarlyState \cup {"End", "Error"}
      BY <2>2 DEF EndpointInv, OverInv
    <3>2. Ended(x, e) /\ Apart(x, e) BY <3>1, FailureEnded, FailureApart
    <3>3. told = x BY <2>2
    <3> HIDE DEF x, told
    <3>4. Course(x, e) BY <3>2, EndedCourse
    <3>5. e.state = "Idle" => x.state = "Idle" BY <3>2 DEF Ended, Grounded
    <3> QED BY <3>2, <3>3, <3>4, <3>5 DEF Ended, Course, Onward
  <2>3. CASE alive /\ e.dialog # "TermEarly"
    <3> DEFINE x == Terminated(e)
    <3>1. e.attached => e.state # "Released" BY DEF EndpointInv, SessionInv
    <3>2. Ended(x, e) /\ Apart(x, e) BY <3>1, TerminatedEnded, TerminatedApart
    <3>3. told = x BY <2>3
    <3> HIDE DEF x, told
    <3>4. Course(x, e) BY <3>2, EndedCourse
    <3>5. e.state = "Idle" => x.state = "Idle" BY <3>2 DEF Ended, Grounded
    <3> QED BY <3>2, <3>3, <3>4, <3>5 DEF Ended, Course, Onward
  <2> QED BY <2>1, <2>2, <2>3
<1> HIDE DEF told
<1>3. /\ d.incoming = told.incoming /\ d.state = told.state /\ d.prevState = told.prevState
      /\ d.lastStable = told.lastStable /\ d.attached = told.attached
      /\ d.info = told.info /\ d.out = told.out /\ d.dialog = "Terminated"
  BY <1>1, <1>2 DEF Endpoint
<1>4. ProcessDialogTerminated(e) = d BY DEF ProcessDialogTerminated, d, told
<1> HIDE DEF d
<1>5. Course(d, e) BY <1>2, <1>3 DEF Course, Grounded
<1>6. Lost(e) => Lost(d) BY <1>2, <1>3, <1>5 DEF Lost, Course, Grounded
<1>7. d.info = e.info /\ d.out = e.out BY <1>2, <1>3 DEF Apart, Beside, Kept
<1> QED BY <1>1, <1>3, <1>4, <1>5, <1>6, <1>7

\* SalCallOp::setCallAsReleased(), run by the main loop.
LEMMA SetCallAsReleasedFacts ==
  ASSUME NEW e \in Endpoint, EndpointInv(e), Grounded(e), e.releaseLater
  PROVE  LET d == SetCallAsReleased(e)
         IN  /\ d \in Endpoint /\ Course(d, e) /\ d.info = e.info /\ d.out = e.out
             /\ Lost(e) => Lost(d)
<1> DEFINE x == [e EXCEPT !.releaseLater = FALSE]
           d == SetOpReleased(x)
<1>1. x \in Endpoint BY Zenon DEF Endpoint
<1>2. SameSession(x, e) /\ x.info = e.info /\ x.out = e.out
  BY <1>1 DEF SameSession, Endpoint
<1> HIDE DEF x
<1>3. e.op \in {"Terminating", "Terminated"} BY DEF EndpointInv, OverInv
<1>4. e.attached => e.state \in {"End", "Error"} BY <1>3 DEF EndpointInv, OverInv
<1>5. e.state \in OverState \/ (e.state = "Idle" /\ ~e.attached)
  BY <1>4 DEF EndpointInv, SessionInv, OverState
<1>6. /\ d \in Endpoint /\ d.incoming = x.incoming /\ d.released
      /\ d.info = x.info /\ d.out = x.out
      /\ \/ d.state = x.state /\ d.attached = x.attached
            /\ d.prevState = x.prevState /\ d.lastStable = x.lastStable
         \/ x.state \in {"End", "Error"} /\ d.state = "Released"
  BY <1>1, <1>2, <1>4, SetOpReleasedFacts DEF SameSession
<1>7. SetCallAsReleased(e) = d BY DEF SetCallAsReleased, d, x
<1> HIDE DEF d
<1>8. Course(x, e) BY <1>2, SameCourse DEF SameSession
<1>9. /\ Course(d, e)
      /\ d.state \in OverState \/ (e.state = "Idle" /\ d.state = "Idle" /\ ~d.attached)
  BY <1>1, <1>2, <1>5, <1>6, <1>8, ReleasedCourse DEF SameSession, EarlyState
<1>10. Lost(e) => Lost(d) BY <1>2, <1>6, <1>9 DEF Lost, SameSession
<1> QED BY <1>2, <1>6, <1>7, <1>9, <1>10

\* SalCallOp::processTimeoutCb(): the op is released at once.
LEMMA ProcessTimeoutFacts ==
  ASSUME NEW e \in Endpoint, EndpointInv(e), Grounded(e), e.dialog = "None", e.out = <<>>,
         e.op # "Terminated", e.state # "Idle"
  PROVE  LET d == ProcessTimeout(e)
         IN  /\ d \in Endpoint /\ Course(d, e) /\ d.client = "none" /\ d.dialog = "None"
             /\ d.info = e.info /\ d.bye = e.bye /\ d.releaseLater = e.releaseLater
             /\ d.out = <<>> /\ d.state = "Released"
<1> DEFINE c == [e EXCEPT !.client = "none"]
           f == Failure(c, 408)
           t == [f EXCEPT !.op = "Terminating"]
           d == SetOpReleased(t)
<1>1. c \in Endpoint BY Zenon DEF Endpoint, ClientState
<1>2. /\ SameSession(c, e) /\ c.dialog = e.dialog /\ c.op = e.op /\ c.client = "none"
      /\ c.info = e.info /\ c.bye = e.bye /\ c.releaseLater = e.releaseLater /\ c.out = e.out
      /\ c.released = e.released
  BY <1>1 DEF SameSession, Endpoint
<1> HIDE DEF c
<1>3. e.attached => e.state \in EarlyState \cup {"End", "Error"} BY DEF EndpointInv, OverInv
<1>4. ~e.released BY DEF EndpointInv, OverInv
<1>5. Ended(f, c) /\ Apart(f, c) BY <1>1, <1>2, <1>3, FailureEnded, FailureApart DEF SameSession
<1> HIDE DEF f
<1>6. Ended(f, e) BY <1>2, <1>5, EndedSame
<1>7. Course(f, e) /\ f.state \in OverState /\ f \in Endpoint BY <1>6, EndedCourse DEF Ended
<1>8. t \in Endpoint /\ SameSession(t, f) /\ Apart(t, f) BY <1>7, SetOpApart DEF OpState
<1> HIDE DEF t
<1>9. t.attached => t.state \in {"End", "Error"}
  BY <1>6, <1>8 DEF Ended, SameSession
<1>10. t.state \in OverState /\ Course(t, e) /\ (~t.attached => t.state = "Released")
  BY <1>6, <1>7, <1>8 DEF SameSession, Course, Grounded, Ended, EndpointInv, SessionInv
<1>11. /\ d \in Endpoint /\ d.incoming = t.incoming
       /\ d.info = t.info /\ d.out = t.out /\ d.client = t.client
       /\ d.releaseLater = t.releaseLater /\ d.bye = t.bye
       /\ ~t.released => d.dialog = "None"
       /\ ~t.released /\ t.attached => d.state = "Released"
       /\ \/ d.state = t.state /\ d.attached = t.attached
             /\ d.prevState = t.prevState /\ d.lastStable = t.lastStable
          \/ t.state \in {"End", "Error"} /\ d.state = "Released"
  BY <1>8, <1>9, SetOpReleasedFacts
<1>13. /\ t.info = e.info /\ t.out = e.out /\ t.client = "none" /\ ~t.released
       /\ t.releaseLater = e.releaseLater /\ t.bye = e.bye
  BY <1>2, <1>4, <1>5, <1>8 DEF Apart, Beside, Kept
<1>14. e.state \in EarlyState \cup OverState
  BY <1>3 DEF EndpointInv, SessionInv, EarlyState, OverState
<1>15. ProcessTimeout(e) = d
  BY <1>2 DEF ProcessTimeout, HasDialog, d, t, f, c
<1> HIDE DEF d
<1>16. Course(d, e) BY <1>8, <1>10, <1>11, <1>14, ReleasedCourse
<1> QED BY <1>10, <1>11, <1>13, <1>15, <1>16

(***************************************************************************)
(* The steps of one endpoint.                                              *)
(***************************************************************************)

\* What the application, the main loop and the timers make of an endpoint.
Acts(d, e) ==
  \/ /\ e.state = "Idle" /\ ~e.incoming /\ ~e.attached
     /\ d \in {InitiateOutgoing(e), StartInvite(InitiateOutgoing(e))}
  \/ e.state = "OutgoingInit" /\ d = StartInvite(e)
  \/ e.state = "IncomingReceived" /\ d = StartAccept(e)
  \/ e.state \notin OverState \cup {"Idle"} /\ d = Terminate(e)
  \/ Renewed(d, e)
  \/ e.state = "UpdatedByRemote" /\ d = AcceptUpdateAsked(e)
  \/ CanSendDtmf(e) /\ d = SendDtmf(e)
  \/ e.info = "queued" /\ e.dialog = "Confirmed" /\ d = SendQueuedInfo(e)
  \/ e.dialog \in {"TermEarly", "TermConf"} /\ d = ProcessDialogTerminated(e)
  \/ e.releaseLater /\ d = SetCallAsReleased(e)

\* What the message m makes of it.
Reacts(d, e, m) ==
  \/ /\ m.method = "INVITE" /\ m.code = 0
     /\ \/ Unknown(e) /\ d \in {ReceiveCall(e, m), RefuseCall(e, 486)}
        \/ e.dialog = "Confirmed" /\ \E x, y \in BOOLEAN : d = ReceiveReinvite(e, m, x, y)
        \/ /\ ~Unknown(e) /\ e.dialog # "Confirmed"
           /\ d = Send(e, Response("INVITE", 481, "none"))
  \/ m.method = "CANCEL" /\ m.code = 0 /\ d = ReceiveCancel(e)
  \/ m.method = "BYE" /\ m.code = 0 /\ d = ReceiveBye(e)
  \/ m.method = "INFO" /\ m.code = 0 /\ d = ReceiveInfo(e)
  \/ m.code # 0 /\ \E x \in BOOLEAN : d = ProcessResponse(e, m, x)

\* An endpoint whose messages have left.
Rest(d) == [d EXCEPT !.out = <<>>]

\* Messages that leave take nothing else with them.
LEMMA RestFacts ==
  ASSUME NEW d \in Endpoint
  PROVE  /\ Rest(d) \in Endpoint /\ Rest(d).out = <<>> /\ SameSession(Rest(d), d)
         /\ Beside(Rest(d), d) /\ Rest(d).op = d.op
         /\ Rest(d).execLater = d.execLater
<1>1. <<>> \in Seq(Msg) OBVIOUS
<1>2. Rest(d) \in Endpoint BY <1>1, Zenon DEF Rest, Endpoint
<1> QED BY <1>2 DEF Rest, SameSession, Beside, Kept, Endpoint

\* A step of endpoint u that leaves it as d.
Turn(u, d) ==
  /\ d \in Endpoint /\ d.out \in Seq(Msg)
  /\ ua'[u] = Rest(d) /\ ua'[Peer(u)] = ua[Peer(u)]
  /\ net'[Peer(u)] = net[Peer(u)] \o d.out
  /\ \/ Acts(d, ua[u]) /\ net'[u] = net[u]
     \/ net[u] # <<>> /\ Reacts(d, ua[u], Head(net[u])) /\ net'[u] = Tail(net[u])

\* The two endpoints are each other's peers.
LEMMA Peers ==
  ASSUME NEW u \in UA
  PROVE  Peer(u) \in UA /\ Peer(u) # u /\ Peer(Peer(u)) = u /\ UA = {u, Peer(u)}
BY EndpointAssumption DEF UA, Peer

\* A handler that is run, or that handles a message, makes a turn.
LEMMA RunTurn ==
  ASSUME TypeOK, NEW u \in UA, NEW d \in Endpoint, Run(u, d), Acts(d, ua[u])
  PROVE  Turn(u, d)
<1>1. Peer(u) \in UA /\ Peer(u) # u BY Peers
<1>2. d.out \in Seq(Msg) BY DEF Endpoint
<1>3. ua'[u] = Rest(d) /\ ua'[Peer(u)] = ua[Peer(u)] BY <1>1 DEF Run, TypeOK, Rest
<1>4. net'[u] = net[u] /\ net'[Peer(u)] = net[Peer(u)] \o d.out BY <1>1 DEF Run, TypeOK
<1> QED BY <1>2, <1>3, <1>4 DEF Turn

\* See RunTurn.
LEMMA HandleTurn ==
  ASSUME TypeOK, NEW u \in UA, NEW d \in Endpoint, Handle(u, d), net[u] # <<>>,
         Reacts(d, ua[u], Head(net[u]))
  PROVE  Turn(u, d)
<1>1. Peer(u) \in UA /\ Peer(u) # u BY Peers
<1>2. d.out \in Seq(Msg) BY DEF Endpoint
<1>3. ua'[u] = Rest(d) /\ ua'[Peer(u)] = ua[Peer(u)] BY <1>1 DEF Handle, TypeOK, Rest
<1>4. net'[u] = Tail(net[u]) /\ net'[Peer(u)] = net[Peer(u)] \o d.out
  BY <1>1 DEF Handle, TypeOK
<1> QED BY <1>2, <1>3, <1>4 DEF Turn

\* Every step of the application, of the library and of the network, but for the
\* loss of the first INVITE, is a turn of one endpoint.
LEMMA StepTurn ==
  ASSUME TypeOK, Inv, NEW u \in UA, Grounded(ua[u]), ua[u].out = <<>>, User(u) \/ Internal(u)
  PROVE  \E d : Turn(u, d)
<1> DEFINE e == ua[u]
<1>1. e \in Endpoint /\ EndpointInv(e) /\ Grounded(e) /\ e.out = <<>> BY DEF TypeOK, Inv
<1>2. net[u] \in Seq(Msg) BY DEF TypeOK
<1>3. SUFFICES \/ \E d \in Endpoint : Acts(d, e) /\ Run(u, d)
               \/ \E d \in Endpoint : net[u] # <<>> /\ Reacts(d, e, Head(net[u])) /\ Handle(u, d)
  BY RunTurn, HandleTurn
<1> HIDE DEF e
<1>10. CASE Invite(u)
  <2>1. e.state = "Idle" /\ ~e.incoming /\ ~e.attached BY <1>10 DEF Invite, e
  <2> DEFINE d == InitiateOutgoing(e)
  <2>2. d \in Endpoint BY <1>1, StartType
  <2>3. StartInvite(d) \in Endpoint BY <2>2, StartType
  <2>4. Run(u, d) \/ Run(u, StartInvite(d)) BY <1>10 DEF Invite, e
  <2>5. Acts(d, e) /\ Acts(StartInvite(d), e) BY <2>1 DEF Acts
  <2> QED BY <2>2, <2>3, <2>4, <2>5
<1>11. CASE GatheringDone(u)
  <2>1. StartInvite(e) \in Endpoint BY <1>1, StartType
  <2>2. Acts(StartInvite(e), e) BY <1>11 DEF GatheringDone, Acts, e
  <2> QED BY <1>11, <2>1, <2>2 DEF GatheringDone, e
<1>12. CASE Accept(u)
  <2>1. StartAccept(e) \in Endpoint BY <1>1, StartType
  <2>2. Acts(StartAccept(e), e) BY <1>12 DEF Accept, Acts, e
  <2> QED BY <1>12, <2>1, <2>2 DEF Accept, e
<1>13. CASE TerminateCall(u) \/ IncomingTimeout(u)
  <2>1. e.state \notin OverState \cup {"Idle"}
    BY <1>13 DEF TerminateCall, IncomingTimeout, OverState, e
  <2>2. Terminate(e) \in Endpoint BY <1>1, TerminateType
  <2>3. Run(u, Terminate(e)) BY <1>13 DEF TerminateCall, IncomingTimeout, e
  <2> QED BY <2>1, <2>2, <2>3 DEF Acts
<1>14. CASE PauseCall(u)
  <2>1. Renewed(Pause(e), e) BY <1>1, <1>14, PauseRenewed DEF PauseCall, e
  <2> QED BY <1>14, <2>1 DEF PauseCall, Acts, Renewed, e
<1>15. CASE ResumeCall(u)
  <2>1. Renewed(Resume(e), e) BY <1>1, ResumeRenewed
  <2> QED BY <1>15, <2>1 DEF ResumeCall, Acts, Renewed, e
<1>16. CASE UpdateCall(u)
  <2>1. CanUpdate(e) BY <1>16 DEF UpdateCall, e
  <2>2. Renewed(Update(e), e) BY <1>1, <2>1, UpdateRenewed
  <2> QED BY <1>16, <2>2 DEF UpdateCall, Acts, Renewed, e
<1>17. CASE AcceptDeferredUpdate(u)
  <2>1. AcceptUpdateAsked(e) \in Endpoint BY <1>1, AcceptUpdateType
  <2> QED BY <1>17, <2>1 DEF AcceptDeferredUpdate, Acts, e
<1>18. CASE Dtmf(u) \/ InfoDequeued(u)
  <2>1. SendDtmf(e) \in Endpoint /\ SendQueuedInfo(e) \in Endpoint BY <1>1, InfoType
  <2>2. CASE Dtmf(u) BY <2>1, <2>2 DEF Dtmf, Acts, e
  <2>3. CASE InfoDequeued(u) BY <2>1, <2>3 DEF InfoDequeued, Acts, e
  <2> QED BY <1>18, <2>2, <2>3
<1>19. CASE ReceiveInvite(u)
  <2> DEFINE m == Head(net[u])
  <2>1. net[u] # <<>> /\ m.method = "INVITE" /\ m.code = 0
    BY <1>19 DEF ReceiveInvite, Arrives
  <2>2. m \in Msg BY <1>2, <2>1
  <2>3. m.dir \in Dir BY <2>1, <2>2 DEF Msg
  <2> HIDE DEF m
  <2>4. \/ Unknown(e) /\ (Handle(u, ReceiveCall(e, m)) \/ Handle(u, RefuseCall(e, 486)))
        \/ e.dialog = "Confirmed" /\ \E x, y \in BOOLEAN : Handle(u, ReceiveReinvite(e, m, x, y))
        \/ /\ ~Unknown(e) /\ e.dialog # "Confirmed"
           /\ Handle(u, Send(e, Response("INVITE", 481, "none")))
    BY <1>19, Zenon DEF ReceiveInvite, e, m
  <2>5. 486 \in Code \ {0} BY DEF Code
  <2>6. CASE Unknown(e) /\ (Handle(u, ReceiveCall(e, m)) \/ Handle(u, RefuseCall(e, 486)))
    <3>1. ReceiveCall(e, m) \in Endpoint /\ RefuseCall(e, 486) \in Endpoint
      BY <1>1, <2>2, <2>3, <2>5, ReceiveCallType, RefuseCallType
    <3>2. Reacts(ReceiveCall(e, m), e, m) /\ Reacts(RefuseCall(e, 486), e, m)
      BY <2>1, <2>6 DEF Reacts
    <3> QED BY <2>1, <2>6, <3>1, <3>2 DEF m
  <2>7. CASE e.dialog = "Confirmed" /\ \E x, y \in BOOLEAN : Handle(u, ReceiveReinvite(e, m, x, y))
    <3>1. PICK x \in BOOLEAN, y \in BOOLEAN : Handle(u, ReceiveReinvite(e, m, x, y)) BY <2>7
    <3>2. ReceiveReinvite(e, m, x, y) \in Endpoint
      BY <1>1, <2>2, <2>3, ReceiveReinviteType
    <3>3. Reacts(ReceiveReinvite(e, m, x, y), e, m) BY <2>1, <2>7, Zenon DEF Reacts
    <3> QED BY <2>1, <3>1, <3>2, <3>3 DEF m
  <2>8. CASE /\ ~Unknown(e) /\ e.dialog # "Confirmed"
             /\ Handle(u, Send(e, Response("INVITE", 481, "none")))
    <3>1. Send(e, Response("INVITE", 481, "none")) \in Endpoint
      BY <1>1, SendResponseType DEF Method, Code
    <3>2. Reacts(Send(e, Response("INVITE", 481, "none")), e, m) BY <2>1, <2>8 DEF Reacts
    <3> QED BY <2>1, <2>8, <3>1, <3>2 DEF m
  <2> QED BY <2>4, <2>6, <2>7, <2>8
<1>20. CASE ReceiveOther(u)
  <2> DEFINE m == Head(net[u])
  <2>1. /\ ReceiveCancel(e) \in Endpoint /\ ReceiveBye(e) \in Endpoint
        /\ ReceiveInfo(e) \in Endpoint
    BY <1>1, ReceiveCancelType, ReceiveByeType, ReceiveInfoType
  <2>2. /\ net[u] # <<>>
        /\ \/ m.method = "CANCEL" /\ m.code = 0 /\ Handle(u, ReceiveCancel(e))
           \/ m.method = "BYE" /\ m.code = 0 /\ Handle(u, ReceiveBye(e))
           \/ m.method = "INFO" /\ m.code = 0 /\ Handle(u, ReceiveInfo(e))
    BY <1>20 DEF ReceiveOther, Arrives, e
  <2> HIDE DEF m
  <2>3. \E d \in Endpoint : Reacts(d, e, m) /\ Handle(u, d) BY <2>1, <2>2 DEF Reacts
  <2> QED BY <2>2, <2>3 DEF m
<1>21. CASE ReceiveResponse(u)
  <2> DEFINE m == Head(net[u])
  <2>1. net[u] # <<>> /\ m.code # 0 BY <1>21 DEF ReceiveResponse
  <2>2. m \in Msg BY <1>2, <2>1
  <2> HIDE DEF m
  <2>3. PICK x \in BOOLEAN : Handle(u, ProcessResponse(e, m, x))
    BY <1>21, Zenon DEF ReceiveResponse, e, m
  <2>4. ProcessResponse(e, m, x) \in Endpoint BY <1>1, <2>2, ProcessResponseType
  <2>5. Reacts(ProcessResponse(e, m, x), e, m) BY <2>1 DEF Reacts
  <2> QED BY <2>1, <2>3, <2>4, <2>5 DEF m
<1>23. CASE DialogTerminated(u) \/ ReleaseLater(u)
  <2>1. ProcessDialogTerminated(e) \in Endpoint /\ SetCallAsReleased(e) \in Endpoint
    BY <1>1, DialogTerminatedType
  <2> QED BY <1>23, <2>1 DEF DialogTerminated, ReleaseLater, Acts, e
<1>25. CASE RetryTimer(u)
  <2>1. /\ e.timers > 0
        /\ e.retry = "none" \/ e.dialog # "Confirmed" \/ ~RequestPending(e)
    BY <1>25 DEF RetryTimer, e
  <2>2. Renewed(RunRetryFunc(e), e) BY <1>1, <2>1, RunRetryFuncRenewed
  <2> QED BY <1>25, <2>2 DEF RetryTimer, Acts, Renewed, e
<1>26. CASE ExecuteLater(u)
  <2>1. Renewed(ExecutePendingActions(e), e) BY <1>1, ExecutePendingActionsRenewed
  <2> QED BY <1>26, <2>1 DEF ExecuteLater, Acts, Renewed, e
<1> QED BY <1>10, <1>11, <1>12, <1>13, <1>14, <1>15, <1>16, <1>17, <1>18, <1>19,
           <1>20, <1>21, <1>23, <1>25, <1>26 DEF User, Internal

\* The callee rings: the INVITE that starts the call is answered provisionally.
LEMMA ReceiveCallFacts ==
  ASSUME NEW e \in Endpoint, EndpointInv(e), Unknown(e), e.out = <<>>, NEW m \in Msg, m.dir \in Dir
  PROVE  LET d == ReceiveCall(e, m)
         IN  /\ d \in Endpoint /\ Course(d, e) /\ d.state = "IncomingReceived"
             /\ d.remote = m.dir
             /\ d.out = Append(<<Response("INVITE", 100, "none")>>,
                               Response("INVITE", 180, "none"))
<1> DEFINE a == [e EXCEPT !.attached = TRUE, !.server = TRUE, !.remote = m.dir, !.dialog = "Early"]
           r == SetState(a, "IncomingReceived")
           p == Response("INVITE", 100, "none")
           q == Response("INVITE", 180, "none")
           s == Send(r, p)
           d == Send(s, q)
<1>1. a \in Endpoint BY Zenon DEF Endpoint, DialogState
<1>2. a.remote = m.dir /\ a.state = e.state /\ a.incoming = e.incoming /\ a.out = e.out
  BY <1>1 DEF Endpoint
<1>3. e.state = "Idle" /\ e.incoming BY DEF Unknown, EndpointInv, FreshInv
<1> HIDE DEF a
<1>4. "IncomingReceived" \in CallState \ {"Released"} /\ ~BadTransition(a.state, "IncomingReceived")
  BY <1>2, <1>3 DEF CallState, BadTransition
<1>5. /\ r \in Endpoint /\ Apart(r, a) /\ r.state = "IncomingReceived"
      /\ r.incoming = a.incoming
  BY <1>1, <1>4, SetStateTo
<1> HIDE DEF r
<1>6. p \in Msg /\ q \in Msg BY MsgType DEF Method, Code
<1> HIDE DEF p, q
<1>7. s \in Endpoint /\ Twin(s, r) /\ s.out = Append(r.out, p) BY <1>5, <1>6, SendTwin
<1> HIDE DEF s
<1>8. d \in Endpoint /\ Twin(d, s) /\ d.out = Append(s.out, q) BY <1>6, <1>7, SendTwin
<1> HIDE DEF d
<1>9. ReceiveCall(e, m) = d BY DEF ReceiveCall, d, s, p, q, r, a
<1>10. /\ d.state = "IncomingReceived" /\ d.remote = m.dir /\ d.incoming = e.incoming
  BY <1>2, <1>5, <1>7, <1>8 DEF Twin, Beside, Kept, SameSession, Apart
<1>11. d.out = Append(<<p>>, q)
  <2>1. r.out = <<>> BY <1>2, <1>5 DEF Apart
  <2>2. Append(<<>>, p) = <<p>> OBVIOUS
  <2> QED BY <1>7, <1>8, <2>1, <2>2
<1>12. Course(d, e)
  BY <1>3, <1>10 DEF Course, Grounded, Onward, EarlyState, OverState, EstablishedState
<1> QED BY <1>8, <1>9, <1>10, <1>11, <1>12 DEF p, q

\* The callee declines at once: there never was a session.
LEMMA RefuseCallFacts ==
  ASSUME NEW e \in Endpoint, EndpointInv(e), Grounded(e), Unknown(e), e.out = <<>>
  PROVE  LET d == RefuseCall(e, 486)
         IN  /\ d \in Endpoint /\ Course(d, e) /\ Lost(d)
             /\ d.out = <<Response("INVITE", 486, "none")>>
<1> DEFINE a == [e EXCEPT !.server = TRUE, !.dialog = "Null"]
           r == Reply(a, 486, "none")
           d == OpRelease(r)
           m == Response("INVITE", 486, "none")
<1>1. a \in Endpoint BY Zenon DEF Endpoint, DialogState
<1>2. SameSession(a, e) /\ a.server /\ a.dialog = "Null" /\ a.out = e.out
  BY <1>1 DEF SameSession, Endpoint
<1>3. e.state = "Idle" /\ e.incoming BY DEF Unknown, EndpointInv, FreshInv
<1> HIDE DEF a
<1>4. 486 \in Code \ {0} /\ 486 >= 300 BY DEF Code
<1>5. /\ r \in Endpoint /\ SameSession(r, a) /\ r.dialog = "TermEarly"
      /\ r.out = Append(a.out, m)
  BY <1>1, <1>2, <1>4, ReplyFacts
<1> HIDE DEF r, m
<1>6. d \in Endpoint BY <1>5, OpReleaseType
<1>7. /\ ~d.attached /\ d.state = r.state /\ d.incoming = r.incoming /\ d.dialog = r.dialog
      /\ d.prevState = r.prevState /\ d.lastStable = r.lastStable /\ d.out = r.out
  BY <1>5, <1>6 DEF OpRelease, Endpoint
<1>8. RefuseCall(e, 486) = d BY DEF RefuseCall, d, r, a
<1> HIDE DEF d
<1>9. Append(<<>>, m) = <<m>> OBVIOUS
<1>10. /\ ~d.attached /\ d.state = "Idle" /\ d.incoming = e.incoming /\ d.dialog = "TermEarly"
       /\ d.prevState = e.prevState /\ d.lastStable = e.lastStable /\ d.out = <<m>>
  BY <1>2, <1>3, <1>5, <1>7, <1>9 DEF SameSession
<1>11. Course(d, e) BY <1>3, <1>10, SameCourse
<1>12. Lost(d) BY <1>3, <1>10 DEF Lost
<1> QED BY <1>6, <1>8, <1>10, <1>11, <1>12 DEF m

\* Whatever an endpoint does of itself moves its session on.
LEMMA ActsCourse ==
  ASSUME NEW e \in Endpoint, EndpointInv(e), Grounded(e), e.out = <<>>, NEW d, Acts(d, e)
  PROVE  Course(d, e)
<1>1. CASE e.state = "Idle" /\ ~e.incoming /\ ~e.attached
           /\ d \in {InitiateOutgoing(e), StartInvite(InitiateOutgoing(e))}
  <2> DEFINE i == InitiateOutgoing(e)
  <2>1. Course(i, e) /\ i \in Endpoint /\ Apart(i, e) /\ i.state = "OutgoingInit"
    BY <1>1, InitiateOutgoingCourse
  <2> HIDE DEF i
  <2>2. ~i.incoming /\ i.out = <<>> BY <1>1, <2>1 DEF Apart, Beside, Kept
  <2>3. Course(StartInvite(i), i) /\ StartInvite(i).state = "OutgoingProgress"
    BY <2>1, <2>2, StartInviteCourse
  <2>4. Course(StartInvite(i), e)
    BY <1>1, <2>1, <2>3 DEF Course, Onward, EarlyState, OverState
  <2> QED BY <1>1, <2>1, <2>4 DEF i
<1>2. CASE e.state = "OutgoingInit" /\ d = StartInvite(e)
  <2>1. ~e.incoming BY <1>2 DEF Grounded
  <2> QED BY <1>2, <2>1, StartInviteCourse
<1>3. CASE e.state = "IncomingReceived" /\ d = StartAccept(e)
  <2>1. e.incoming BY <1>3, FieldTypes DEF Grounded
  <2> QED BY <1>3, <2>1, StartAcceptCourse
<1>4. CASE e.state \notin OverState \cup {"Idle"} /\ d = Terminate(e) BY <1>4, TerminateCourse
<1>5. CASE Renewed(d, e) BY <1>5 DEF Renewed
<1>6. CASE e.state = "UpdatedByRemote" /\ d = AcceptUpdateAsked(e)
  <2>1. e.dialog = "Confirmed" BY <1>6, EstablishedFacts DEF EstablishedState
  <2> QED BY <1>6, <2>1, AcceptUpdateAskedServed DEF Served
<1>7. CASE CanSendDtmf(e) /\ d = SendDtmf(e)
  BY <1>7, SendDtmfFacts, SameCourse DEF SameSession
<1>8. CASE e.info = "queued" /\ e.dialog = "Confirmed" /\ d = SendQueuedInfo(e)
  BY <1>8, SendQueuedInfoFacts, SameCourse DEF SameSession
<1>9. CASE e.dialog \in {"TermEarly", "TermConf"} /\ d = ProcessDialogTerminated(e)
  BY <1>9, DialogTerminatedFacts
<1>10. CASE e.releaseLater /\ d = SetCallAsReleased(e) BY <1>10, SetCallAsReleasedFacts
<1> QED BY <1>1, <1>2, <1>3, <1>4, <1>5, <1>6, <1>7, <1>8, <1>9, <1>10 DEF Acts

\* Whatever arrives moves it on; the first offer and its answer have to be ones of
\* a stream in both directions.
LEMMA ReactsCourse ==
  ASSUME NEW e \in Endpoint, EndpointInv(e), Grounded(e), e.out = <<>>, NEW m \in Msg, NEW d,
         Reacts(d, e, m),
         m.method = "INVITE" /\ m.code = 200
           /\ e.state \in {"OutgoingProgress", "OutgoingRinging"} =>
             e.offer = "sendrecv" /\ m.dir = "sendrecv"
  PROVE  Course(d, e)
<1>1. CASE m.method = "INVITE" /\ m.code = 0
  <2>1. m.dir \in Dir BY <1>1 DEF Msg
  <2>2. CASE Unknown(e) /\ d \in {ReceiveCall(e, m), RefuseCall(e, 486)}
    BY <2>1, <2>2, ReceiveCallFacts, RefuseCallFacts
  <2>3. CASE e.dialog = "Confirmed" /\ \E x, y \in BOOLEAN : d = ReceiveReinvite(e, m, x, y)
    BY <2>1, <2>3, ReinviteCourse
  <2>4. CASE d = Send(e, Response("INVITE", 481, "none"))
    <3>1. Response("INVITE", 481, "none") \in Msg BY MsgType DEF Method, Code
    <3> QED BY <2>4, <3>1, SendCourse
  <2> QED BY <1>1, <2>2, <2>3, <2>4 DEF Reacts
<1>2. CASE m.method = "CANCEL" /\ m.code = 0
  <2>1. d = ReceiveCancel(e) BY <1>2 DEF Reacts
  <2> QED BY <2>1, ReceiveCancelCourse
<1>3. CASE m.method = "BYE" /\ m.code = 0
  <2>1. d = ReceiveBye(e) BY <1>3 DEF Reacts
  <2>2. CASE e.dialog = "Confirmed" BY <2>1, <2>2, ReceiveByeOpen
  <2>3. CASE e.dialog # "Confirmed"
    <3>1. Response("BYE", 481, "none") \in Msg BY MsgType DEF Method, Code
    <3> QED BY <2>1, <2>3, <3>1, SendCourse DEF ReceiveBye
  <2> QED BY <2>2, <2>3
<1>4. CASE m.method = "INFO" /\ m.code = 0
  <2>1. d = ReceiveInfo(e) BY <1>4 DEF Reacts
  <2>2. \A code \in {491, 200, 501, 481} : Response("INFO", code, "none") \in Msg
    BY MsgType DEF Method, Code
  <2>3. \E code \in {491, 200, 501, 481} : d = Send(e, Response("INFO", code, "none"))
    BY <2>1 DEF ReceiveInfo
  <2> QED BY <2>2, <2>3, SendCourse
<1>5. CASE m.code # 0
  <2>1. PICK x \in BOOLEAN : d = ProcessResponse(e, m, x) BY <1>5 DEF Reacts
  <2> QED BY <1>5, <2>1, ProcessResponseCourse
<1> QED BY <1>1, <1>2, <1>3, <1>4, <1>5 DEF Reacts

(***************************************************************************)
(* An endpoint whose dialog is gone.                                       *)
(***************************************************************************)

\* What Lost says together with the invariant of the endpoint.
LEMMA LostFacts ==
  ASSUME NEW e \in Endpoint, EndpointInv(e), Lost(e)
  PROVE  /\ e.dialog \in {"None", "TermEarly", "TermConf", "Terminated"}
         /\ e.released => e.op = "Terminated" /\ e.dialog = "None"
         /\ ~e.released => e.dialog \in {"TermEarly", "TermConf", "Terminated"}
         /\ ~Unknown(e) /\ ~CanSendDtmf(e) /\ e.state \notin EstablishedState
         /\ e.attached => e.state \in {"End", "Error"}
         /\ e.state \in OverState \cup {"Idle"} /\ (e.state = "Idle" => e.incoming)
BY DEF Lost, EndpointInv, OverInv, SessionInv, Unknown, CanSendDtmf, OverState, EstablishedState

\* Its session stays over, it sends nothing of itself, and an INFO it had queued
\* stays where it is.
LEMMA LostActs ==
  ASSUME NEW e \in Endpoint, EndpointInv(e), Grounded(e), Lost(e), e.out = <<>>,
         NEW d, Acts(d, e)
  PROVE  Lost(d) /\ d.out = <<>> /\ (e.info = "queued" => d.info = "queued")
<1>1. /\ e.dialog # "Confirmed" /\ ~CanSendDtmf(e) /\ e.state \notin EstablishedState
      /\ e.state \in OverState \cup {"Idle"} /\ (e.state = "Idle" => e.incoming)
  BY LostFacts
<1>2. \/ Renewed(d, e)
      \/ e.dialog \in {"TermEarly", "TermConf"} /\ d = ProcessDialogTerminated(e)
      \/ e.releaseLater /\ d = SetCallAsReleased(e)
  BY <1>1 DEF Acts, OverState
<1>3. CASE Renewed(d, e)
  BY <1>1, <1>3 DEF Renewed, Kept, Lost
<1>4. CASE e.dialog \in {"TermEarly", "TermConf"} /\ d = ProcessDialogTerminated(e)
  BY <1>4, DialogTerminatedFacts
<1>5. CASE e.releaseLater /\ d = SetCallAsReleased(e)
  BY <1>5, SetCallAsReleasedFacts
<1> QED BY <1>2, <1>3, <1>4, <1>5

\* Sending leaves it as it is.
LEMMA LostSend ==
  ASSUME NEW e \in Endpoint, Lost(e), NEW m \in Msg
  PROVE  Lost(Send(e, m)) /\ Send(e, m).info = e.info
BY SendTwin DEF Twin, Beside, Kept, SameSession, Lost

\* A late response changes the transactions only.
LEMMA LostResponse ==
  ASSUME NEW e \in Endpoint, EndpointInv(e), Grounded(e), Lost(e), NEW m \in Msg, m.code # 0,
         NEW compatible
  PROVE  LET d == ProcessResponse(e, m, compatible)
         IN  Lost(d) /\ (e.info = "queued" => d.info = "queued")
<1> DEFINE x == StackResponse(e, m)
           h == Heard(e, m)
           d == ProcessResponse(e, m, compatible)
<1>1. CASE ~Matched(e, m) BY <1>1 DEF ProcessResponse
<1>2. CASE Matched(e, m)
  <2>1. /\ e.dialog \in {"None", "TermEarly", "TermConf", "Terminated"}
        /\ e.released => e.op = "Terminated" /\ e.dialog = "None"
        /\ ~e.released => e.dialog \in {"TermEarly", "TermConf", "Terminated"}
        /\ e.attached => e.state \in {"End", "Error"}
    BY LostFacts
  <2>2. /\ SameSession(x, e) /\ x.op = e.op /\ x.released = e.released
        /\ m.method # "INFO" => x.info = e.info
        /\ m.method \notin {"INVITE", "BYE"} => x.dialog = e.dialog
        /\ m.method = "BYE" =>
             x.dialog = IF e.dialog = "Confirmed" THEN "TermConf" ELSE e.dialog
        /\ m.method = "INVITE" =>
             (e.released \/ e.dialog \notin {"None", "Early"} => x.dialog = e.dialog)
    BY <1>2, StackFacts
  <2>3. x.dialog = e.dialog BY <2>1, <2>2
  <2>4. e.info = "queued" => x.info = "queued"
    BY <1>2, <2>2 DEF Matched
  <2>5. Lost(x) BY <2>2, <2>3 DEF Lost, SameSession
  <2>6. /\ h \in Endpoint /\ EndpointInv(h) /\ Trimmed(h, x) /\ SameSession(h, e) /\ h.op = e.op
    BY <1>2, HeardFacts
  <2> HIDE DEF h, x
  <2>7. Lost(h) /\ (e.info = "queued" => h.info = "queued")
        /\ h.dialog = e.dialog /\ h.released = e.released
    BY <2>2, <2>3, <2>4, <2>5, <2>6 DEF Trimmed, Kept, Lost, SameSession
  <2>8. h.dialog \in DialogState BY <2>6, FieldTypes
  <2>9. /\ h.op = "Terminated" => d = x
        /\ h.op # "Terminated" /\ h.dialog \in {"TermEarly", "TermConf", "Terminated"} =>
             d = IF m.code >= 300 /\ m.code # 491 /\ m.method \in {"INVITE", "BYE"}
                 THEN SetFatalError(h, m.code) ELSE h
    BY <1>2, <2>2, <2>3, <2>6, <2>7, <2>8, ResponseCases DEF h, x
  <2>10. CASE h.op = "Terminated" BY <2>4, <2>5, <2>9, <2>10
  <2>11. CASE h.op # "Terminated"
    <3>1. h.dialog \in {"TermEarly", "TermConf", "Terminated"} BY <2>1, <2>6, <2>7, <2>11
    <3> DEFINE f == SetFatalError(h, m.code)
    <3>2. h.attached => h.state \in EarlyState \cup {"End", "Error"}
      BY <2>1, <2>6 DEF SameSession
    <3>3. Grounded(h) BY <2>6 DEF Grounded, SameSession
    <3>4. /\ Beside(f, h)
          /\ f.state \in OverState \/ (h.state = "Idle" /\ f.state = "Idle" /\ ~f.attached)
      BY <2>6, <3>2, <3>3, SetFatalErrorFacts
    <3> HIDE DEF f
    <3>5. Lost(f) /\ (e.info = "queued" => f.info = "queued")
      BY <2>7, <3>1, <3>4 DEF Beside, Kept, Lost, OverState
    <3>6. d = f \/ d = h BY <2>9, <2>11, <3>1 DEF f
    <3> QED BY <2>7, <3>5, <3>6
  <2> QED BY <2>10, <2>11
<1> QED BY <1>1, <1>2

\* Its session stays over whatever arrives; a CANCEL is answered at most.
LEMMA LostReacts ==
  ASSUME NEW e \in Endpoint, EndpointInv(e), Grounded(e), Lost(e), e.out = <<>>,
         NEW m \in Msg, NEW d, Reacts(d, e, m)
  PROVE  /\ Lost(d) /\ (e.info = "queued" => d.info = "queued")
         /\ m \in Cancels => d.out \in Seq(CancelAnswer)
<1>1. e.dialog # "Confirmed" /\ ~Unknown(e) BY LostFacts
<1>2. CASE m.method = "INVITE" /\ m.code = 0
  <2>1. d = Send(e, Response("INVITE", 481, "none")) BY <1>1, <1>2 DEF Reacts
  <2>2. Response("INVITE", 481, "none") \in Msg BY MsgType DEF Method, Code
  <2> QED BY <1>2, <2>1, <2>2, LostSend DEF Cancels
<1>3. CASE m.method = "CANCEL" /\ m.code = 0
  <2>1. d = ReceiveCancel(e) BY <1>3 DEF Reacts
  <2> QED BY <2>1, ReceiveCancelLost
<1>4. CASE m.method = "BYE" /\ m.code = 0
  <2>1. d = Send(e, Response("BYE", 481, "none")) BY <1>1, <1>4 DEF Reacts, ReceiveBye
  <2>2. Response("BYE", 481, "none") \in Msg BY MsgType DEF Method, Code
  <2> QED BY <1>4, <2>1, <2>2, LostSend DEF Cancels
<1>5. CASE m.method = "INFO" /\ m.code = 0
  <2>1. d = ReceiveInfo(e) BY <1>5 DEF Reacts
  <2>2. \A code \in {491, 200, 501, 481} : Response("INFO", code, "none") \in Msg
    BY MsgType DEF Method, Code
  <2>3. \E code \in {491, 200, 501, 481} : d = Send(e, Response("INFO", code, "none"))
    BY <2>1 DEF ReceiveInfo
  <2> QED BY <1>5, <2>2, <2>3, LostSend DEF Cancels
<1>6. CASE m.code # 0
  <2>1. PICK x \in BOOLEAN : d = ProcessResponse(e, m, x) BY <1>6 DEF Reacts
  <2> QED BY <1>6, <2>1, LostResponse DEF Cancels
<1> QED BY <1>2, <1>3, <1>4, <1>5, <1>6 DEF Reacts

(***************************************************************************)
(* An endpoint with an open dialog.                                        *)
(***************************************************************************)

\* What Open says together with the invariant of the endpoint.
LEMMA OpenFacts ==
  ASSUME NEW e \in Endpoint, EndpointInv(e), Grounded(e), Open(e)
  PROVE  /\ e.state \in EstablishedState \/ (e.state \in OverState /\ e.bye > 0)
         /\ e.bye > 0 => e.state \in OverState
         /\ ~e.released /\ ~Unknown(e)
<1>1. e.state \in CallState /\ e.bye \in Nat /\ e.attached \in BOOLEAN BY FieldTypes
<1>2. e.state \in EstablishedState \/ e.state \in OverState
  BY <1>1 DEF Open, Grounded, CallState, EstablishedState, OverState, EarlyState
<1>3. e.bye > 0 => e.state \in OverState
  BY <1>1 DEF EndpointInv, OverInv, SessionInv, Open, EarlyState, OverState
<1> QED BY <1>2, <1>3 DEF Open, EndpointInv, OverInv, Unknown

\* Nothing it does of itself closes the dialog without a BYE.
LEMMA OpenActs ==
  ASSUME NEW e \in Endpoint, EndpointInv(e), Grounded(e), Open(e), e.out = <<>>,
         NEW d, Acts(d, e)
  PROVE  Lasting(d, e)
<1>1. e.state \in EstablishedState \/ e.state \in OverState BY OpenFacts
<1>2. /\ e.dialog = "Confirmed" /\ ~e.releaseLater
      /\ e.state \notin {"Idle", "OutgoingInit", "IncomingReceived"}
  BY DEF Open, EarlyState
<1>3. \/ e.state \notin OverState /\ d = Terminate(e)
      \/ Renewed(d, e)
      \/ e.state = "UpdatedByRemote" /\ d = AcceptUpdateAsked(e)
      \/ d = SendDtmf(e)
      \/ d = SendQueuedInfo(e)
  BY <1>2 DEF Acts
<1>4. CASE e.state \notin OverState /\ d = Terminate(e) BY <1>1, <1>4, TerminateOpen
<1>5. CASE Renewed(d, e) BY <1>5, RenewedOpen
<1>6. CASE e.state = "UpdatedByRemote" /\ d = AcceptUpdateAsked(e)
  BY <1>2, <1>6, AcceptUpdateAskedServed, ServedOpen
<1>7. CASE d = SendDtmf(e) \/ d = SendQueuedInfo(e) BY <1>7, InfoOpen
<1> QED BY <1>3, <1>4, <1>5, <1>6, <1>7

\* An answer that says nothing about the dialog of the peer leaves it open; one
\* that finds the session over is answered by a BYE.
LEMMA OpenResponse ==
  ASSUME NEW e \in Endpoint, EndpointInv(e), Grounded(e), Open(e), e.out = <<>>,
         NEW m \in Plain, m.code # 0, NEW compatible
  PROVE  Lasting(ProcessResponse(e, m, compatible), e)
<1> DEFINE x == StackResponse(e, m)
           h == Heard(e, m)
           d == ProcessResponse(e, m, compatible)
<1>0. m \in Msg /\ m.method # "BYE" /\ ~(m.method = "INVITE" /\ m.code = 481)
  BY DEF Plain, ByeAnswer
<1>00. <<>> \in Seq(Plain) /\ <<>> \in Seq(NoBye) OBVIOUS
<1>1. CASE ~Matched(e, m)
  <2>1. d = e BY <1>1 DEF ProcessResponse
  <2> HIDE DEF d
  <2>2. Lasting(e, e) BY <1>00 DEF Lasting
  <2> QED BY <2>1, <2>2 DEF d
<1>2. CASE Matched(e, m)
  <2>1. /\ SameSession(x, e) /\ x.op = e.op /\ x.releaseLater = e.releaseLater
        /\ x.bye = e.bye /\ x.dialog = e.dialog /\ x.out = e.out
    BY <1>0, <1>2, StackFacts DEF Open
  <2>2. /\ h \in Endpoint /\ EndpointInv(h) /\ Trimmed(h, x) /\ SameSession(h, e) /\ h.op = e.op
        /\ h.out = e.out
        /\ m.method = "INVITE" /\ e.op \notin {"Terminating", "Terminated"} =>
             e.attached /\ e.state \in TransientState \cup {"OutgoingProgress", "OutgoingRinging"}
    BY <1>0, <1>2, HeardFacts
  <2> HIDE DEF h, x
  <2>3. /\ h.dialog = "Confirmed" /\ h.releaseLater = e.releaseLater /\ h.bye = e.bye
        /\ h.dialog = e.dialog /\ h.dialog = x.dialog
    BY <2>1, <2>2 DEF Trimmed, Kept, Open
  <2>4. Lasting(x, e) /\ Lasting(h, e)
    BY <1>00, <2>1, <2>2, <2>3, SameOpen
  <2>5. Open(h) /\ Grounded(h) BY <2>2, <2>4 DEF Lasting, Grounded, SameSession
  <2>6. /\ h.op = "Terminated" => d = x
        /\ h.op # "Terminated" => d = ConfirmedResponse(h, m, compatible)
    <3>1. h.dialog \in DialogState BY <2>2, FieldTypes
    <3> QED BY <1>0, <1>2, <2>1, <2>2, <2>3, <3>1, ResponseCases DEF h, x
  <2>7. CASE h.op = "Terminated" BY <2>4, <2>6, <2>7
  <2>8. CASE h.op = "Terminating"
    <3> DEFINE b == SendBye(h)
               r == Request("BYE", "none")
    <3>1. /\ b \in Endpoint /\ SameSession(b, h) /\ b.op = h.op /\ b.releaseLater = h.releaseLater
          /\ b.dialog = h.dialog /\ b.bye = h.bye + 1 /\ b.out = Append(h.out, r)
      BY <2>2, SendByeFacts
    <3>2. d = b BY <2>6, <2>8 DEF ConfirmedResponse
    <3>3. r \in Plain BY Messages
    <3> HIDE DEF b, r
    <3>4. b.out \in Seq(Plain) BY <2>2, <3>1, <3>3, Short
    <3>5. b.bye > 0 BY <2>2, <3>1, FieldTypes
    <3>6. Lasting(b, e)
      BY <2>5, <3>1, <3>4, <3>5 DEF Lasting, Open, SameSession
    <3> QED BY <3>2, <3>6
  <2>9. CASE h.op \in {"Early", "Active"} /\ m.method = "INVITE" /\ m.code = 200
    <3>1. h.state \in TransientState
      BY <2>2, <2>5, <2>9 DEF Open, EarlyState, SameSession
    <3> DEFINE a == Accepted(h, m.dir, compatible)
    <3>2. Served(a, h) /\ a.out = h.out /\ a.server = h.server
      BY <2>2, <2>5, <3>1, AcceptedServed
    <3> HIDE DEF a
    <3>3. Lasting(a, h) /\ a \in Endpoint /\ a.state \in EstablishedState
      BY <2>2, <2>5, <3>1, <3>2, ServedOpen DEF Served, EstablishedState, TransientState
    <3> DEFINE f == [a EXCEPT !.op = "Active"]
    <3>4. SameSession(f, a) /\ Apart(f, a) BY <3>3, SetOpApart DEF OpState
    <3>5. d = f BY <2>6, <2>9 DEF ConfirmedResponse, f, a
    <3> HIDE DEF f
    <3>6. Lasting(f, e)
      BY <2>3, <3>3, <3>4 DEF Lasting, Open, SameSession, Apart, Beside, Kept, EstablishedState
    <3> QED BY <3>5, <3>6
  <2>10. CASE h.op \in {"Early", "Active"} /\ m.method = "INVITE" /\ m.code # 200 /\ m.code >= 300
    <3>1. h.state \in TransientState
      BY <2>2, <2>5, <2>10 DEF Open, EarlyState, SameSession
    <3> DEFINE f == Failure(h, m.code)
    <3>2. Served(f, h) BY <1>0, <2>2, <2>5, <2>10, <3>1, FailureServed
    <3>3. d = f BY <2>6, <2>10 DEF ConfirmedResponse
    <3> HIDE DEF f
    <3>4. Lasting(f, h) BY <2>2, <2>5, <3>2, ServedOpen
    <3> QED BY <2>3, <3>3, <3>4 DEF Lasting
  <2>11. CASE /\ h.op \in {"Early", "Active"}
              /\ ~(m.method = "INVITE" /\ (m.code = 200 \/ m.code >= 300))
    <3>1. d = h BY <2>6, <2>11 DEF ConfirmedResponse
    <3> QED BY <2>4, <3>1
  <2>12. h.op \in OpState BY <2>2, FieldTypes
  <2> QED BY <2>7, <2>8, <2>9, <2>10, <2>11, <2>12 DEF OpState
<1> QED BY <1>1, <1>2

\* The answer to its BYE ends the dialog of a session that is over.
LEMMA OpenByeAnswered ==
  ASSUME NEW e \in Endpoint, EndpointInv(e), Grounded(e), Open(e), e.bye > 0,
         NEW m \in ByeAnswer, NEW compatible
  PROVE  Lost(ProcessResponse(e, m, compatible))
<1> DEFINE x == StackResponse(e, m)
           h == Heard(e, m)
           d == ProcessResponse(e, m, compatible)
<1>1. m \in Msg /\ m.method = "BYE" /\ m.code # 0 BY DEF ByeAnswer
<1>2. Matched(e, m) BY <1>1 DEF Matched
<1>3. e.state \in OverState /\ e.dialog = "Confirmed" BY OpenFacts DEF Open
<1>4. SameSession(x, e) /\ x.op = e.op /\ x.dialog = "TermConf"
  BY <1>1, <1>2, <1>3, StackFacts
<1>5. /\ h \in Endpoint /\ EndpointInv(h) /\ Trimmed(h, x) /\ SameSession(h, e) /\ h.op = e.op
  BY <1>1, <1>2, HeardFacts
<1> HIDE DEF h, x
<1>6. h.dialog = "TermConf" /\ h.state \in OverState /\ x.state \in OverState
  BY <1>3, <1>4, <1>5 DEF Trimmed, Kept, SameSession
<1>7. Lost(h) /\ Lost(x) BY <1>4, <1>6 DEF Lost
<1>8. h.dialog \in DialogState BY <1>5, FieldTypes
<1>9. /\ h.op = "Terminated" => d = x
      /\ h.op # "Terminated" => d = h \/ d = SetFatalError(h, m.code)
  BY <1>1, <1>2, <1>4, <1>5, <1>6, <1>8, ResponseCases DEF h, x
<1>10. h.attached => h.state \in EarlyState \cup {"End", "Error"}
  BY <1>5, <1>6 DEF EndpointInv, SessionInv, OverState
<1>11. Grounded(h) BY <1>5 DEF Grounded, SameSession
<1> DEFINE f == SetFatalError(h, m.code)
<1>12. /\ Beside(f, h)
       /\ f.state \in OverState \/ (h.state = "Idle" /\ f.state = "Idle" /\ ~f.attached)
  BY <1>5, <1>10, <1>11, SetFatalErrorFacts
<1> HIDE DEF f
<1>13. Lost(f) BY <1>6, <1>12 DEF Beside, Kept, Lost, OverState
<1> QED BY <1>7, <1>9, <1>13 DEF f

\* What arrives in an open dialog: a BYE ends it and is answered, the answer to a
\* BYE of its own ends it, and nothing else does.
LEMMA OpenReacts ==
  ASSUME NEW e \in Endpoint, EndpointInv(e), Grounded(e), Open(e), e.out = <<>>,
         NEW m \in Msg, NEW d, Reacts(d, e, m)
  PROVE  /\ m \in Plain \cap NoBye => Lasting(d, e)
         /\ m \notin NoBye => Lost(d) /\ d.out = <<Response("BYE", 200, "none")>>
         /\ m \in ByeAnswer /\ e.bye > 0 => Lost(d)
<1>1. ~Unknown(e) /\ e.dialog = "Confirmed" /\ e.state # "Idle" BY OpenFacts DEF Open, EarlyState
<1>2. CASE m.method = "INVITE" /\ m.code = 0
  <2>1. m.dir \in Dir BY <1>2 DEF Msg
  <2>2. PICK x \in BOOLEAN, y \in BOOLEAN : d = ReceiveReinvite(e, m, x, y)
    BY <1>1, <1>2, Zenon DEF Reacts
  <2>3. Lasting(d, e) BY <2>1, <2>2, ReinviteOpen
  <2> QED BY <1>2, <2>3 DEF NoBye, ByeAnswer
<1>3. CASE m.method = "CANCEL" /\ m.code = 0
  <2>1. d = ReceiveCancel(e) BY <1>3 DEF Reacts
  <2>2. Lasting(d, e) BY <2>1, ReceiveCancelOpen
  <2> QED BY <1>3, <2>2 DEF NoBye, ByeAnswer
<1>4. CASE m.method = "INFO" /\ m.code = 0
  <2>1. d = ReceiveInfo(e) BY <1>4 DEF Reacts
  <2>2. Lasting(d, e) BY <2>1, InfoOpen
  <2> QED BY <1>4, <2>2 DEF NoBye, ByeAnswer
<1>5. CASE m.method = "BYE" /\ m.code = 0
  <2>1. d = ReceiveBye(e) BY <1>5 DEF Reacts
  <2>2. /\ d.dialog = "TermConf" /\ d.out = <<Response("BYE", 200, "none")>>
        /\ d.state \in OverState
    BY <1>1, <2>1, ReceiveByeOpen
  <2>3. Lost(d) BY <2>2 DEF Lost
  <2> QED BY <1>5, <2>2, <2>3 DEF NoBye, ByeAnswer
<1>6. CASE m.code # 0
  <2>1. PICK x \in BOOLEAN : d = ProcessResponse(e, m, x) BY <1>6 DEF Reacts
  <2>2. m \in Plain => Lasting(d, e) BY <1>6, <2>1, OpenResponse
  <2>3. m \in ByeAnswer /\ e.bye > 0 => Lost(d) BY <2>1, OpenByeAnswered
  <2> QED BY <1>6, <2>2, <2>3 DEF NoBye
<1> QED BY <1>2, <1>3, <1>4, <1>5, <1>6 DEF Reacts

(***************************************************************************)
(* The caller until its first INVITE is answered.                          *)
(***************************************************************************)

\* The answers to the first INVITE, that INVITE and its acceptance.
Provisional == {m \in Msg : m.method = "INVITE" /\ m.code \in {100, 180}}
Refusal == {m \in Msg : m.method = "INVITE" /\ m.code \in {486, 487, 603}}
Offered == Request("INVITE", "sendrecv")
Answered == Response("INVITE", 200, "sendrecv")

\* The caller waits for the final response.  Once it has given up its CANCEL is
\* sent, or waits for the first provisional response; an INFO that was queued in
\* the meantime took the place of the INVITE, and then no CANCEL can be built.
Pending(e) ==
  /\ e.dialog \in {"None", "Early"} /\ ~e.released /\ ~e.releaseLater
  /\ e.client # "none" /\ e.bye = 0 /\ e.info \in {"none", "queued"} /\ e.op # "Terminated"
  /\ e.state \in {"OutgoingProgress", "OutgoingRinging"} \cup OverState
  /\ e.state \in OverState => e.op = "Terminating"
  /\ e.state \notin OverState => e.offer = "sendrecv"
  /\ e.dialog = "Early" => e.client = "proceeding"
  /\ e.info = "none" =>
       /\ e.lastRequest \in {"INVITE", "CANCEL"}
       /\ e.op # "Terminating" => e.lastRequest = "INVITE"
       /\ e.op = "Terminating" /\ e.lastRequest = "INVITE" => e.client = "calling"

\* It still waits, and if it has cancelled its INVITE the CANCEL was sent.
Waiting(d, e) ==
  /\ Pending(d) /\ d.out \in Seq(Cancels)
  /\ d.info = "none" => e.info = "none"
  /\ d.info = "none" /\ d.lastRequest = "CANCEL" => e.lastRequest = "CANCEL" \/ d.out # <<>>

\* It has given up without a CANCEL.
Forsaken(d, e) == Lost(d) /\ d.info = "queued" /\ e.info = "queued"

\* SalCallOp::cancellingInvite() cancels an INVITE that got a provisional response,
\* and otherwise terminates the early dialog.
LEMMA CancellingFacts ==
  ASSUME NEW e \in Endpoint, e.dialog \in {"None", "Early"}, e.out = <<>>
  PROVE  LET d == CancellingInvite(e)
         IN  /\ d \in Endpoint /\ SameSession(d, e) /\ d.op = "Terminating"
             /\ d.released = e.released /\ d.releaseLater = e.releaseLater
             /\ d.bye = e.bye /\ d.info = e.info /\ d.client = e.client /\ d.offer = e.offer
             /\ \/ /\ e.lastRequest = "INVITE" /\ e.client = "proceeding"
                   /\ d.lastRequest = "CANCEL" /\ d.dialog = e.dialog
                   /\ d.out = <<Request("CANCEL", "none")>>
                \/ /\ ~(e.lastRequest = "INVITE" /\ e.client = "proceeding")
                   /\ d.lastRequest = e.lastRequest /\ d.out = <<>>
                   /\ d.dialog = IF e.dialog = "Early" THEN "TermEarly" ELSE "None"
<1> DEFINE c == CancelInvite(e)
           d == [c EXCEPT !.op = "Terminating"]
           m == Request("CANCEL", "none")
<1>1. /\ c \in Endpoint /\ SameSession(c, e)
      /\ c.released = e.released /\ c.releaseLater = e.releaseLater
      /\ c.bye = e.bye /\ c.client = e.client
  BY CancelInviteType, CancelInviteFacts DEF SameRequests
<1>2. /\ c.info = e.info /\ c.offer = e.offer
      /\ \/ /\ e.lastRequest = "INVITE" /\ e.client = "proceeding"
            /\ c.lastRequest = "CANCEL" /\ c.dialog = e.dialog /\ c.out = <<m>>
         \/ /\ ~(e.lastRequest = "INVITE" /\ e.client = "proceeding")
            /\ c.lastRequest = e.lastRequest /\ c.out = <<>>
            /\ c.dialog = IF e.dialog = "Early" THEN "TermEarly" ELSE "None"
  <2>1. CASE e.lastRequest = "INVITE" /\ e.client = "proceeding"
    <3> DEFINE a == [e EXCEPT !.lastRequest = "CANCEL"]
    <3>1. a \in Endpoint BY Zenon DEF Endpoint, Method
    <3>2. /\ a.info = e.info /\ a.offer = e.offer /\ a.lastRequest = "CANCEL"
          /\ a.dialog = e.dialog /\ a.out = e.out
      BY <3>1 DEF Endpoint
    <3> HIDE DEF a
    <3>3. m \in Msg BY DEF Msg, Request, Method, Code
    <3>4. Append(<<>>, m) = <<m>> OBVIOUS
    <3> HIDE DEF m
    <3>5. Twin(Send(a, m), a) /\ Send(a, m).out = Append(a.out, m) BY <3>1, <3>3, SendTwin
    <3>6. c = Send(a, m) BY <2>1 DEF CancelInvite, a, m
    <3> HIDE DEF c
    <3> QED BY <2>1, <3>2, <3>4, <3>5, <3>6 DEF Twin, Beside, Kept
  <2>2. CASE ~(e.lastRequest = "INVITE" /\ e.client = "proceeding") /\ e.dialog = "Early"
    <3>1. c = [e EXCEPT !.dialog = "TermEarly"] BY <2>2 DEF CancelInvite
    <3> QED BY <1>1, <2>2, <3>1 DEF Endpoint
  <2>3. CASE ~(e.lastRequest = "INVITE" /\ e.client = "proceeding") /\ e.dialog = "None"
    <3>1. c = e BY <2>3 DEF CancelInvite
    <3> QED BY <2>3, <3>1
  <2> QED BY <2>1, <2>2, <2>3
<1> HIDE DEF c, m
<1>3. d \in Endpoint /\ SameSession(d, c) /\ Apart(d, c) /\ d.op = "Terminating"
  BY <1>1, SetOpApart DEF OpState
<1>4. CancellingInvite(e) = d BY DEF CancellingInvite, d, c
<1> HIDE DEF d
<1> QED BY <1>1, <1>2, <1>3, <1>4 DEF SameSession, Apart, Beside, Kept, m

\* A caller that has given up is over, and one that has not is attached.
LEMMA PendingFacts ==
  ASSUME NEW e \in Endpoint, EndpointInv(e), Pending(e)
  PROVE  /\ e.op = "Terminating" => e.state \in OverState
         /\ e.op # "Terminating" =>
              /\ e.attached /\ e.state \in {"OutgoingProgress", "OutgoingRinging"}
              /\ e.op \in {"Early", "Active"} /\ e.offer = "sendrecv"
         /\ e.client \in {"calling", "proceeding"}
         /\ e.attached /\ e.op = "Terminating" => e.state \in {"End", "Error"}
<1>1. e.op \in OpState /\ e.client \in ClientState BY FieldTypes
<1>2. /\ e.state \in {"OutgoingProgress", "OutgoingRinging"} => e.attached
      /\ e.attached /\ e.op = "Terminating" => e.state \in {"End", "Error"}
  BY DEF EndpointInv, SessionInv, OverInv
<1> QED BY <1>1, <1>2 DEF Pending, OpState, ClientState, OverState

\* The op is told to terminate while it waits for the first answer.
LEMMA PendingOpTerminate ==
  ASSUME NEW e \in Endpoint, EndpointInv(e), Pending(e), ~e.incoming, e.out = <<>>,
         e.op # "Terminating"
  PROVE  LET d == OpTerminate(e)
         IN  /\ d \in Endpoint /\ SameSession(d, e) /\ d.op = "Terminating"
             /\ d.released = e.released /\ d.releaseLater = e.releaseLater
             /\ d.bye = e.bye /\ d.info = e.info /\ d.client = e.client /\ d.offer = e.offer
             /\ \/ /\ d.lastRequest = "CANCEL" /\ d.dialog = e.dialog
                   /\ d.out = <<Request("CANCEL", "none")>>
                   /\ e.client = "proceeding"
                \/ /\ d.lastRequest = e.lastRequest /\ d.out = <<>> /\ d.dialog = e.dialog
                   /\ e.dialog = "None" /\ (e.info = "none" => e.client = "calling")
                \/ d.dialog = "TermEarly" /\ e.info = "queued"
<1>1. /\ e.op \in {"Early", "Active"} /\ e.client \in {"calling", "proceeding"}
      /\ e.dialog \in {"None", "Early"} /\ e.info \in {"none", "queued"}
      /\ e.info = "none" => e.lastRequest = "INVITE"
      /\ e.dialog = "Early" => e.client = "proceeding"
  BY PendingFacts DEF Pending
<1> DEFINE c == CancellingInvite(e)
           t == [e EXCEPT !.op = "Terminating"]
<1>2. /\ c \in Endpoint /\ SameSession(c, e) /\ c.op = "Terminating"
      /\ c.released = e.released /\ c.releaseLater = e.releaseLater
      /\ c.bye = e.bye /\ c.info = e.info /\ c.client = e.client /\ c.offer = e.offer
      /\ \/ /\ e.lastRequest = "INVITE" /\ e.client = "proceeding"
            /\ c.lastRequest = "CANCEL" /\ c.dialog = e.dialog
            /\ c.out = <<Request("CANCEL", "none")>>
         \/ /\ ~(e.lastRequest = "INVITE" /\ e.client = "proceeding")
            /\ c.lastRequest = e.lastRequest /\ c.out = <<>>
            /\ c.dialog = IF e.dialog = "Early" THEN "TermEarly" ELSE "None"
  BY <1>1, CancellingFacts
<1>3. t \in Endpoint /\ SameSession(t, e) /\ Apart(t, e) /\ t.op = "Terminating"
  BY SetOpApart DEF OpState
<1>4. OpTerminate(e) = IF e.dialog = "Early" \/ e.client = "proceeding" THEN c ELSE t
  BY <1>1 DEF OpTerminate
<1> HIDE DEF c, t
<1>5. CASE e.dialog = "Early" \/ e.client = "proceeding"
  BY <1>1, <1>2, <1>4, <1>5
<1>6. CASE ~(e.dialog = "Early" \/ e.client = "proceeding")
  BY <1>1, <1>3, <1>4, <1>6 DEF Apart, Beside, Kept
<1> QED BY <1>5, <1>6

\* Giving up: the CANCEL is sent or has to wait, unless an INFO is in its way.
LEMMA PendingTerminate ==
  ASSUME NEW e \in Endpoint, EndpointInv(e), Pending(e), ~e.incoming, e.out = <<>>,
         e.state \notin OverState
  PROVE  LET d == Terminate(e)
         IN  /\ d.client = e.client
             /\ Waiting(d, e) \/ Forsaken(d, e)
             /\ e.dialog = "None" /\ e.client = "calling" /\ e.info = "none" =>
                  /\ Waiting(d, e) /\ d.dialog = "None" /\ d.info = "none" /\ d.out = <<>>
                  /\ d.lastRequest = e.lastRequest
<1> DEFINE t == OpTerminate(e)
           d == TerminateSession(t)
           m == Request("CANCEL", "none")
<1>1. /\ e.op # "Terminating" /\ e.attached
      /\ e.state \in {"OutgoingProgress", "OutgoingRinging"}
  BY PendingFacts
<1>2. /\ t \in Endpoint /\ SameSession(t, e) /\ t.op = "Terminating"
      /\ t.released = e.released /\ t.releaseLater = e.releaseLater
      /\ t.bye = e.bye /\ t.info = e.info /\ t.client = e.client /\ t.offer = e.offer
      /\ \/ /\ t.lastRequest = "CANCEL" /\ t.dialog = e.dialog /\ t.out = <<m>>
            /\ e.client = "proceeding"
         \/ /\ t.lastRequest = e.lastRequest /\ t.out = <<>> /\ t.dialog = e.dialog
            /\ e.dialog = "None" /\ (e.info = "none" => e.client = "calling")
         \/ t.dialog = "TermEarly" /\ e.info = "queued"
  BY <1>1, PendingOpTerminate
<1>3. Terminate(e) = d BY <1>1 DEF Terminate
<1> HIDE DEF t
<1>4. /\ d \in Endpoint /\ Apart(d, t) /\ d.state \in OverState /\ d.op = "Terminating"
  <2>1. t.state \notin OverState BY <1>2 DEF SameSession
  <2> QED BY <1>2, <2>1, TerminateSessionFacts DEF OverState
<1> HIDE DEF d
<1>5. /\ d.released = e.released /\ d.releaseLater = e.releaseLater /\ d.bye = e.bye
      /\ d.info = e.info /\ d.client = e.client /\ d.dialog = t.dialog
      /\ d.lastRequest = t.lastRequest /\ d.out = t.out
  BY <1>2, <1>4 DEF Apart, Beside, Kept
<1>6. m \in Cancels BY Messages
<1>7. <<>> \in Seq(Cancels) /\ <<m>> \in Seq(Cancels) /\ <<m>> # <<>> BY <1>6
<1> HIDE DEF m
<1>8. CASE t.lastRequest = "CANCEL" /\ t.dialog = e.dialog /\ t.out = <<m>> /\ e.client = "proceeding"
  <2>1. Pending(d) BY <1>4, <1>5, <1>8 DEF Pending
  <2> QED BY <1>3, <1>5, <1>7, <1>8, <2>1 DEF Waiting
<1>9. CASE /\ t.lastRequest = e.lastRequest /\ t.out = <<>> /\ t.dialog = e.dialog
           /\ e.dialog = "None" /\ (e.info = "none" => e.client = "calling")
  <2>1. Pending(d) BY <1>4, <1>5, <1>9 DEF Pending
  <2> QED BY <1>3, <1>5, <1>7, <1>9, <2>1 DEF Waiting
<1>10. CASE t.dialog = "TermEarly" /\ e.info = "queued"
  <2>1. Forsaken(d, e) BY <1>4, <1>5, <1>10 DEF Forsaken, Lost
  <2> QED BY <1>3, <1>5, <1>10, <2>1
<1> QED BY <1>2, <1>8, <1>9, <1>10

\* What the caller does of itself while it waits.
LEMMA PendingActs ==
  ASSUME NEW e \in Endpoint, EndpointInv(e), Grounded(e), Pending(e), ~e.incoming, e.out = <<>>,
         NEW d, Acts(d, e)
  PROVE  /\ d.client = e.client
         /\ Waiting(d, e) \/ Forsaken(d, e)
         /\ e.dialog = "None" /\ e.client = "calling" /\ e.info = "none" =>
              /\ Waiting(d, e) /\ d.dialog = "None" /\ d.info = "none" /\ d.out = <<>>
              /\ d.lastRequest = e.lastRequest
<1>1. /\ e.state \notin {"Idle", "OutgoingInit", "IncomingReceived", "UpdatedByRemote"}
      /\ e.dialog \in {"None", "Early"} /\ ~e.releaseLater /\ e.client # "none"
      /\ e.state \notin EstablishedState
  BY DEF Pending, OverState, EstablishedState
<1>2. \/ e.state \notin OverState /\ d = Terminate(e)
      \/ Renewed(d, e)
      \/ CanSendDtmf(e) /\ d = SendDtmf(e)
  BY <1>1 DEF Acts
<1>3. <<>> \in Seq(Cancels) OBVIOUS
<1>4. CASE e.state \notin OverState /\ d = Terminate(e) BY <1>4, PendingTerminate
<1>5. CASE Renewed(d, e)
  <2>1. /\ d.out = <<>> /\ d.client = e.client /\ d.lastRequest = e.lastRequest
        /\ d.offer = e.offer /\ d.op = e.op /\ d.state = e.state /\ Kept(d, e)
    BY <1>1, <1>5 DEF Renewed
  <2>2. Pending(d) BY <2>1 DEF Pending, Kept
  <2> QED BY <1>3, <2>1, <2>2 DEF Waiting, Kept
<1>6. CASE CanSendDtmf(e) /\ d = SendDtmf(e)
  <2>1. e.dialog = "Early" /\ e.info = "none" BY <1>1, <1>6 DEF CanSendDtmf
  <2>2. RequestPending(e) BY <1>1 DEF RequestPending
  <2>3. /\ SameSession(d, e) /\ d.op = e.op /\ d.dialog = e.dialog
        /\ d.released = e.released /\ d.releaseLater = e.releaseLater
        /\ d.bye = e.bye /\ d.client = e.client /\ d.offer = e.offer
        /\ d.info = "queued" /\ d.out = <<>>
    BY <1>6, <2>2, SendDtmfFacts
  <2>4. Pending(d) BY <2>3 DEF Pending, SameSession
  <2> QED BY <1>3, <2>1, <2>3, <2>4 DEF Waiting
<1> QED BY <1>2, <1>4, <1>5, <1>6

\* The caller as its op finds it on a response to the first INVITE or the CANCEL.
LEMMA PendingHeard ==
  ASSUME NEW e \in Endpoint, EndpointInv(e), Grounded(e), Pending(e), e.out = <<>>,
         NEW m \in Msg, m.code # 0, m.method \in {"INVITE", "CANCEL"}, NEW compatible
  PROVE  LET h == Heard(e, m)
             d == ProcessResponse(e, m, compatible)
         IN  /\ h \in Endpoint /\ EndpointInv(h) /\ Grounded(h) /\ SameSession(h, e)
             /\ h.op = e.op /\ h.out = <<>> /\ h.releaseLater = e.releaseLater
             /\ h.released = e.released /\ h.lastRequest = e.lastRequest /\ h.offer = e.offer
             /\ h.info = e.info /\ h.bye = e.bye
             /\ m.method = "CANCEL" => h.client = e.client /\ h.dialog = e.dialog
             /\ m.method = "INVITE" =>
                  /\ h.client = IF m.code >= 200 THEN "none" ELSE "proceeding"
                  /\ m.code = 200 => h.dialog = "Confirmed"
                  /\ m.code = 100 => h.dialog = e.dialog
                  /\ m.code = 180 => h.dialog = "Early"
                  /\ m.code >= 300 => h.dialog = IF e.dialog = "Early" THEN "TermEarly" ELSE "None"
             /\ h.dialog \in {"None", "Early"} => d = EarlyResponse(h, m)
             /\ h.dialog = "Confirmed" => d = ConfirmedResponse(h, m, compatible)
             /\ h.dialog = "TermEarly" =>
                  d = IF m.code >= 300 /\ m.code # 491 /\ m.method \in {"INVITE", "BYE"}
                      THEN SetFatalError(h, m.code) ELSE h
<1> DEFINE x == StackResponse(e, m)
           h == Heard(e, m)
           d == ProcessResponse(e, m, compatible)
<1>1. Matched(e, m) BY DEF Matched, Pending
<1>2. ~e.released /\ e.dialog \in {"None", "Early"} /\ e.op # "Terminated" BY DEF Pending
<1>3. /\ x.op = e.op /\ x.released = e.released /\ x.releaseLater = e.releaseLater
      /\ x.lastRequest = e.lastRequest /\ x.offer = e.offer
      /\ x.info = e.info /\ x.bye = e.bye
      /\ m.method = "CANCEL" => x.client = e.client /\ x.dialog = e.dialog
      /\ m.method = "INVITE" => x.client = IF m.code >= 200 THEN "none" ELSE "proceeding"
  BY <1>1, StackFacts
<1>4. m.method = "INVITE" =>
        /\ m.code = 200 => x.dialog = "Confirmed"
        /\ m.code = 100 => x.dialog = e.dialog
        /\ m.code = 180 => x.dialog = "Early"
        /\ m.code >= 300 => x.dialog = IF e.dialog = "Early" THEN "TermEarly" ELSE "None"
  <2> SUFFICES ASSUME m.method = "INVITE"
               PROVE  /\ m.code = 200 => x.dialog = "Confirmed"
                      /\ m.code = 100 => x.dialog = e.dialog
                      /\ m.code = 180 => x.dialog = "Early"
                      /\ m.code >= 300 => x.dialog = IF e.dialog = "Early" THEN "TermEarly" ELSE "None"
    OBVIOUS
  <2>1. /\ m.code = 200 => x.dialog = "Confirmed"
        /\ e.dialog = "None" /\ m.code = 180 => x.dialog = "Early"
        /\ e.dialog = "None" /\ m.code \notin {180, 200} => x.dialog = "None"
        /\ e.dialog = "Early" /\ m.code >= 300 => x.dialog = "TermEarly"
        /\ e.dialog = "Early" /\ m.code < 200 => x.dialog = "Early"
    BY <1>1, <1>2, StackFacts
  <2>2. /\ m.code = 100 => m.code < 200 /\ m.code \notin {180, 200}
        /\ m.code = 180 => m.code < 200
        /\ m.code >= 300 => m.code \notin {180, 200}
    BY DEF Msg, Code
  <2> QED BY <1>2, <2>1, <2>2
<1>5. /\ h \in Endpoint /\ EndpointInv(h) /\ Trimmed(h, x) /\ SameSession(h, e) /\ h.op = e.op
      /\ h.out = e.out
  BY <1>1, HeardFacts
<1> HIDE DEF x, h
<1>6. /\ h.dialog = x.dialog /\ h.client = x.client /\ h.op = x.op
      /\ h.released = e.released /\ h.releaseLater = e.releaseLater
      /\ h.lastRequest = e.lastRequest /\ h.offer = e.offer /\ h.info = e.info /\ h.bye = e.bye
  BY <1>3, <1>5 DEF Trimmed, Kept
<1>7. Grounded(h) BY <1>5 DEF Grounded, SameSession
<1>8. h.dialog \in DialogState BY <1>5, FieldTypes
<1>9. /\ h.dialog \in {"None", "Null", "Early"} => d = EarlyResponse(h, m)
      /\ h.dialog = "Confirmed" => d = ConfirmedResponse(h, m, compatible)
      /\ h.dialog \in {"TermEarly", "TermConf", "Terminated"} =>
           d = IF m.code >= 300 /\ m.code # 491 /\ m.method \in {"INVITE", "BYE"}
               THEN SetFatalError(h, m.code) ELSE h
  BY <1>1, <1>2, <1>5, <1>6, <1>8, ResponseCases DEF h, x
<1> HIDE DEF d
<1>10. m.method = "INVITE" =>
         /\ h.client = IF m.code >= 200 THEN "none" ELSE "proceeding"
         /\ m.code = 200 => h.dialog = "Confirmed"
         /\ m.code = 100 => h.dialog = e.dialog
         /\ m.code = 180 => h.dialog = "Early"
         /\ m.code >= 300 => h.dialog = IF e.dialog = "Early" THEN "TermEarly" ELSE "None"
  BY <1>3, <1>4, <1>6
<1> QED BY <1>3, <1>5, <1>6, <1>7, <1>9, <1>10 DEF h, d

\* The answer to its CANCEL is of no interest to the caller.
LEMMA PendingCancelAnswered ==
  ASSUME NEW e \in Endpoint, EndpointInv(e), Grounded(e), Pending(e), e.out = <<>>,
         NEW m \in CancelAnswer, NEW compatible
  PROVE  LET d == ProcessResponse(e, m, compatible) IN Pending(d) /\ d.out = <<>>
<1> DEFINE h == Heard(e, m)
           d == ProcessResponse(e, m, compatible)
<1>1. m \in Msg /\ m.method = "CANCEL" /\ m.code # 0 BY DEF CancelAnswer
<1>2. /\ SameSession(h, e) /\ h.op = e.op /\ h.out = <<>> /\ h.releaseLater = e.releaseLater
      /\ h.released = e.released /\ h.lastRequest = e.lastRequest /\ h.offer = e.offer
      /\ h.info = e.info /\ h.bye = e.bye /\ h.client = e.client /\ h.dialog = e.dialog
      /\ h.dialog \in {"None", "Early"} => d = EarlyResponse(h, m)
  BY <1>1, PendingHeard
<1> HIDE DEF h, d
<1>3. Pending(h) BY <1>2 DEF Pending, SameSession
<1>4. d = h BY <1>1, <1>2 DEF EarlyResponse, Pending
<1> QED BY <1>2, <1>3, <1>4 DEF d

\* A provisional response rings, or is what the CANCEL has waited for.
LEMMA PendingProvisional ==
  ASSUME NEW e \in Endpoint, EndpointInv(e), Grounded(e), Pending(e), ~e.incoming, e.out = <<>>,
         NEW m \in Provisional, NEW compatible
  PROVE  LET d == ProcessResponse(e, m, compatible)
         IN  (Waiting(d, e) /\ d.client = "proceeding") \/ Forsaken(d, e)
<1> DEFINE h == Heard(e, m)
           d == ProcessResponse(e, m, compatible)
<1>1. m \in Msg /\ m.method = "INVITE" /\ m.code \in {100, 180} /\ m.code # 0 BY DEF Provisional
<1>2. ~(m.code >= 200) /\ ~(m.code >= 300) BY <1>1
<1>3. /\ h \in Endpoint /\ EndpointInv(h) /\ SameSession(h, e)
      /\ h.op = e.op /\ h.out = <<>> /\ h.releaseLater = e.releaseLater
      /\ h.released = e.released /\ h.lastRequest = e.lastRequest /\ h.offer = e.offer
      /\ h.info = e.info /\ h.bye = e.bye
      /\ h.client = "proceeding" /\ h.dialog \in {"None", "Early"}
      /\ d = EarlyResponse(h, m)
  <2>1. e.dialog \in {"None", "Early"} BY DEF Pending
  <2> QED BY <1>1, <1>2, <2>1, PendingHeard
<1> HIDE DEF h, d
<1>4. <<>> \in Seq(Cancels) OBVIOUS
<1>5. CASE h.op = "Terminating" /\ h.lastRequest = "CANCEL"
  <2>1. d = h BY <1>1, <1>2, <1>3, <1>5 DEF EarlyResponse
  <2>2. Pending(h) BY <1>3, <1>5 DEF Pending, SameSession
  <2> QED BY <1>3, <1>4, <1>5, <2>1, <2>2 DEF Waiting, d
<1>6. CASE h.op = "Terminating" /\ h.lastRequest # "CANCEL"
  <2> DEFINE c == CancellingInvite(h)
             r == Request("CANCEL", "none")
  <2>1. d = c BY <1>1, <1>2, <1>3, <1>6 DEF EarlyResponse
  <2>2. /\ c \in Endpoint /\ SameSession(c, h) /\ c.op = "Terminating"
        /\ c.released = h.released /\ c.releaseLater = h.releaseLater
        /\ c.bye = h.bye /\ c.info = h.info /\ c.client = h.client /\ c.offer = h.offer
        /\ \/ /\ h.lastRequest = "INVITE"
              /\ c.lastRequest = "CANCEL" /\ c.dialog = h.dialog /\ c.out = <<r>>
           \/ /\ h.lastRequest # "INVITE"
              /\ c.lastRequest = h.lastRequest /\ c.out = <<>>
              /\ c.dialog = IF h.dialog = "Early" THEN "TermEarly" ELSE "None"
    BY <1>3, CancellingFacts
  <2>3. r \in Cancels BY Messages
  <2>4. <<r>> \in Seq(Cancels) /\ <<r>> # <<>> BY <2>3
  <2>5. c.state \in OverState /\ e.state \in OverState
    BY <1>3, <1>6, <2>2, PendingFacts DEF SameSession
  <2> HIDE DEF c, r
  <2>6. CASE h.lastRequest = "INVITE"
    <3>1. Pending(c) BY <1>3, <2>2, <2>5, <2>6 DEF Pending
    <3> QED BY <1>3, <2>1, <2>2, <2>4, <2>6, <3>1 DEF Waiting, d
  <2>7. CASE h.lastRequest # "INVITE"
    <3>1. e.info = "queued" /\ c.info = "queued" BY <1>3, <1>6, <2>2, <2>7 DEF Pending
    <3>2. CASE h.dialog = "Early"
      <4>1. Forsaken(c, e) BY <2>2, <2>5, <2>7, <3>1, <3>2 DEF Forsaken, Lost
      <4> QED BY <2>1, <4>1 DEF d
    <3>3. CASE h.dialog = "None"
      <4>1. Pending(c) BY <1>3, <2>2, <2>5, <2>7, <3>1, <3>3 DEF Pending
      <4> QED BY <1>3, <1>4, <2>1, <2>2, <2>7, <3>1, <4>1 DEF Waiting, d
    <3> QED BY <1>3, <3>2, <3>3
  <2> QED BY <2>6, <2>7
<1>7. CASE h.op # "Terminating"
  <2>1. /\ e.attached /\ e.state \in {"OutgoingProgress", "OutgoingRinging"}
        /\ e.offer = "sendrecv" /\ e.state \notin OverState
    BY <1>3, <1>7, PendingFacts DEF OverState
  <2>2. Pending(h) BY <1>3, <1>7, <2>1 DEF Pending, SameSession
  <2>3. CASE m.code = 180
    <3> DEFINE g == SetState(h, "OutgoingRinging")
    <3>1. d = g BY <1>1, <1>3, <1>7, <2>1, <2>3 DEF EarlyResponse, RemoteRinging, SameSession
    <3>2. "OutgoingRinging" \in CallState \ {"Released"} /\ ~BadTransition(h.state, "OutgoingRinging")
      BY <1>3, <2>1 DEF CallState, BadTransition, SameSession
    <3>3. g \in Endpoint /\ Apart(g, h) /\ g.op = h.op /\ g.state = "OutgoingRinging"
      BY <1>3, <3>2, SetStateTo
    <3> HIDE DEF g
    <3>4. /\ Pending(g) /\ g.out = <<>> /\ g.info = e.info /\ g.client = "proceeding"
          /\ g.lastRequest = e.lastRequest
      BY <1>3, <2>1, <2>2, <3>3 DEF Pending, Apart, Beside, Kept, OverState
    <3> QED BY <1>4, <3>1, <3>4 DEF Waiting, d
  <2>4. CASE m.code = 100
    <3>1. d = h BY <1>1, <1>3, <1>7, <2>4 DEF EarlyResponse
    <3> QED BY <1>3, <1>4, <2>2, <3>1 DEF Waiting, d
  <2> QED BY <1>1, <2>3, <2>4
<1> QED BY <1>5, <1>6, <1>7

\* The 200 opens the dialog.  When the caller has given up, or cannot use the
\* answer, the BYE that has to follow is sent.
LEMMA PendingAnswered ==
  ASSUME NEW e \in Endpoint, EndpointInv(e), Grounded(e), Pending(e), e.out = <<>>,
         NEW compatible
  PROVE  Lasting(ProcessResponse(e, Answered, compatible), e)
<1> DEFINE m == Answered
           h == Heard(e, m)
           d == ProcessResponse(e, m, compatible)
           r == Request("BYE", "none")
<1>1. /\ m \in Msg /\ m.method = "INVITE" /\ m.code = 200 /\ m.code # 0 /\ m.dir = "sendrecv"
  BY DEF Answered, Response, Msg, Method, Code, Dir
<1> HIDE DEF m
<1>2. /\ h \in Endpoint /\ EndpointInv(h) /\ SameSession(h, e)
      /\ h.op = e.op /\ h.out = <<>> /\ h.releaseLater = e.releaseLater
      /\ h.offer = e.offer /\ h.bye = e.bye /\ h.dialog = "Confirmed"
      /\ d = ConfirmedResponse(h, m, compatible)
  BY <1>1, PendingHeard
<1> HIDE DEF h, d
<1>3. r \in Plain BY Messages
<1> HIDE DEF r
<1>4. <<>> \in Seq(Plain) /\ <<>> \in Seq(NoBye) /\ Append(<<>>, r) \in Seq(Plain) BY <1>3, Short
<1>5. e.bye = 0 /\ ~e.releaseLater BY DEF Pending
<1>6. SUFFICES /\ Open(d) /\ d.out \in Seq(Plain)
               /\ (d.bye = 0 => d.out \in Seq(NoBye))
  BY <1>5 DEF Lasting, d, m
<1>7. CASE h.op = "Terminating"
  <2> DEFINE b == SendBye(h)
  <2>1. d = b BY <1>2, <1>7 DEF ConfirmedResponse
  <2>2. /\ SameSession(b, h) /\ b.op = h.op /\ b.releaseLater = h.releaseLater
        /\ b.dialog = h.dialog /\ b.bye = h.bye + 1 /\ b.out = Append(h.out, r)
    BY <1>2, SendByeFacts DEF r
  <2> HIDE DEF b
  <2>3. b.bye = 1 BY <1>2, <1>5, <2>2
  <2>4. b.state \in OverState BY <1>2, <1>7, <2>2, PendingFacts DEF SameSession
  <2>5. b.state \notin EarlyState /\ b.bye > 0 /\ b.bye # 0 BY <2>3, <2>4 DEF OverState, EarlyState
  <2>6. Open(b) BY <1>2, <1>5, <1>7, <2>2, <2>5 DEF Open
  <2> QED BY <1>2, <1>4, <2>1, <2>2, <2>5, <2>6
<1>8. CASE h.op # "Terminating"
  <2> DEFINE a == Accepted(h, "sendrecv", compatible)
             f == [a EXCEPT !.op = "Active"]
  <2>1. /\ h.attached /\ h.state \in {"OutgoingProgress", "OutgoingRinging"}
        /\ h.op \in {"Early", "Active"} /\ h.offer = "sendrecv"
    BY <1>2, <1>8, PendingFacts DEF SameSession
  <2>2. d = f BY <1>1, <1>2, <2>1 DEF ConfirmedResponse
  <2>3. /\ a \in Endpoint /\ a.dialog = h.dialog /\ a.releaseLater = h.releaseLater
        /\ \/ a.state = "StreamsRunning" /\ a.bye = h.bye /\ a.out = h.out
           \/ a.state = "Error" /\ a.bye = h.bye + 1 /\ a.out = Append(h.out, r)
    BY <1>2, <2>1, FirstAccepted DEF r
  <2> HIDE DEF a
  <2>4. SameSession(f, a) /\ Apart(f, a) BY <2>3, SetOpApart DEF OpState
  <2> HIDE DEF f
  <2>5. /\ f.dialog = "Confirmed" /\ ~f.releaseLater
        /\ \/ f.state = "StreamsRunning" /\ f.bye = 0 /\ f.out = <<>>
           \/ f.state = "Error" /\ f.bye = 1 /\ f.out = Append(<<>>, r)
    BY <1>2, <1>5, <2>3, <2>4 DEF SameSession, Apart, Beside, Kept
  <2>6. CASE f.state = "StreamsRunning" /\ f.bye = 0 /\ f.out = <<>>
    BY <1>4, <2>2, <2>5, <2>6 DEF Open, EarlyState, OverState
  <2>7. CASE f.state = "Error" /\ f.bye = 1 /\ f.out = Append(<<>>, r)
    BY <1>4, <2>2, <2>5, <2>7 DEF Open, EarlyState, OverState
  <2> QED BY <2>5, <2>6, <2>7
<1> QED BY <1>7, <1>8

\* A refusal ends the call of the caller as well.
LEMMA PendingRefused ==
  ASSUME NEW e \in Endpoint, EndpointInv(e), Grounded(e), Pending(e), e.out = <<>>,
         NEW m \in Refusal, NEW compatible
  PROVE  Lost(ProcessResponse(e, m, compatible))
<1> DEFINE h == Heard(e, m)
           d == ProcessResponse(e, m, compatible)
           f == SetFatalError(h, m.code)
<1>1. /\ m \in Msg /\ m.method = "INVITE" /\ m.code # 0
  BY DEF Refusal
<1>2. m.code >= 300 /\ m.code # 491 /\ m.code # 180
  <2>1. m.code \in {486, 487, 603} BY DEF Refusal
  <2> QED BY <2>1
<1>3. /\ h \in Endpoint /\ EndpointInv(h) /\ Grounded(h) /\ SameSession(h, e)
      /\ h.op = e.op /\ h.released = e.released
      /\ h.dialog = IF e.dialog = "Early" THEN "TermEarly" ELSE "None"
      /\ h.dialog \in {"None", "Early"} => d = EarlyResponse(h, m)
      /\ h.dialog = "TermEarly" => d = f
  BY <1>1, <1>2, PendingHeard
<1> HIDE DEF h, d
<1>4. /\ ~h.released
      /\ h.attached => h.state \in EarlyState \cup {"End", "Error"}
      /\ h.state # "Idle"
      /\ h.op = "Terminating" => h.state \in OverState
      /\ h.op = "Terminating" /\ h.attached => h.state \in {"End", "Error"}
  <2>1. /\ e.op = "Terminating" => e.state \in OverState
        /\ e.attached /\ e.op = "Terminating" => e.state \in {"End", "Error"}
    BY PendingFacts
  <2>2. ~e.released /\ e.state # "Idle" BY DEF Pending, OverState
  <2>3. h.attached => h.state \in EarlyState \cup {"End", "Error"}
    BY <1>3 DEF EndpointInv, OverInv
  <2> QED BY <1>3, <2>1, <2>2, <2>3 DEF SameSession
<1>5. /\ f \in Endpoint /\ Beside(f, h) /\ (f.attached => f.state \in {"End", "Error"})
      /\ f.state \in OverState
  BY <1>3, <1>4, SetFatalErrorFacts
<1> HIDE DEF f
<1>6. CASE h.dialog = "TermEarly"
  BY <1>3, <1>5, <1>6 DEF Lost, Beside, Kept, d
<1>7. CASE h.dialog = "None" /\ h.op = "Terminating"
  <2> DEFINE g == SetOpReleased(h)
  <2>1. d = g BY <1>1, <1>2, <1>3, <1>7 DEF EarlyResponse, HasDialog
  <2>2. /\ g.released
        /\ g.state = h.state \/ g.state = "Released"
    BY <1>3, <1>4, <1>7, SetOpReleasedFacts
  <2> HIDE DEF g
  <2> QED BY <1>4, <1>7, <2>1, <2>2 DEF Lost, OverState, d
<1>8. CASE h.dialog = "None" /\ h.op # "Terminating"
  <2> DEFINE g == SetOpReleased(f)
  <2>1. f.dialog = "None" BY <1>5, <1>8 DEF Beside, Kept
  <2>2. d = g BY <1>1, <1>2, <1>3, <1>8, <2>1 DEF EarlyResponse, HasDialog, f
  <2>3. /\ g.released
        /\ g.state = f.state \/ g.state = "Released"
    BY <1>5, SetOpReleasedFacts
  <2> HIDE DEF g
  <2> QED BY <1>5, <2>2, <2>3 DEF Lost, OverState, d
<1> QED BY <1>3, <1>6, <1>7, <1>8

\* What the caller makes of what can arrive before the dialog is established.
LEMMA PendingReacts ==
  ASSUME NEW e \in Endpoint, EndpointInv(e), Grounded(e), Pending(e), ~e.incoming, e.out = <<>>,
         NEW m, NEW d, Reacts(d, e, m)
  PROVE  /\ m \in CancelAnswer => Pending(d) /\ d.out = <<>>
         /\ m \in Provisional => (Waiting(d, e) /\ d.client = "proceeding") \/ Forsaken(d, e)
         /\ m = Answered => Lasting(d, e)
         /\ m \in Refusal => Lost(d)
<1>1. CASE m \in CancelAnswer
  <2>1. m.code # 0 /\ m.method = "CANCEL" BY <1>1 DEF CancelAnswer
  <2>2. PICK x \in BOOLEAN : d = ProcessResponse(e, m, x) BY <2>1 DEF Reacts
  <2> QED BY <1>1, <2>1, <2>2, PendingCancelAnswered DEF Provisional, Refusal, Answered, Response
<1>2. CASE m \in Provisional
  <2>1. m.method = "INVITE" /\ m.code \in {100, 180} /\ m.code # 0 BY <1>2 DEF Provisional
  <2>2. PICK x \in BOOLEAN : d = ProcessResponse(e, m, x) BY <2>1 DEF Reacts
  <2> QED BY <1>2, <2>1, <2>2, PendingProvisional DEF CancelAnswer, Refusal, Answered, Response
<1>3. CASE m = Answered
  <2>1. m.method = "INVITE" /\ m.code = 200 /\ m.code # 0 BY <1>3 DEF Answered, Response
  <2>2. PICK x \in BOOLEAN : d = ProcessResponse(e, m, x) BY <2>1 DEF Reacts
  <2>3. Lasting(d, e) BY <1>3, <2>2, PendingAnswered
  <2> QED BY <2>1, <2>3 DEF CancelAnswer, Refusal, Provisional
<1>4. CASE m \in Refusal
  <2>1. m.method = "INVITE" /\ m.code \in {486, 487, 603} /\ m.code # 0 BY <1>4 DEF Refusal
  <2>2. PICK x \in BOOLEAN : d = ProcessResponse(e, m, x) BY <2>1 DEF Reacts
  <2> QED BY <1>4, <2>1, <2>2, PendingRefused DEF CancelAnswer, Provisional, Answered, Response
<1> QED BY <1>1, <1>2, <1>3, <1>4

(***************************************************************************)
(* The callee until it answers, and the caller until it calls.             *)
(***************************************************************************)

\* A callee that rings keeps ringing, answers or declines.
LEMMA RingingActs ==
  ASSUME NEW e \in Endpoint, EndpointInv(e), Grounded(e), e.out = <<>>,
         e.state = "IncomingReceived", e.remote = "sendrecv", NEW d, Acts(d, e)
  PROVE  \/ d.state = "IncomingReceived" /\ d.remote = "sendrecv" /\ d.out = <<>>
         \/ Open(d) /\ d.out = <<Answered>>
         \/ Lost(d) /\ d.out = <<Response("INVITE", 603, "none")>>
<1>1. e.server /\ e.dialog = "Early" /\ e.attached /\ e.incoming /\ ~e.releaseLater
  <2>1. e.server /\ e.dialog = "Early" /\ e.attached BY DEF EndpointInv, FreshInv, SessionInv
  <2>2. ~e.releaseLater BY <2>1 DEF EndpointInv, OverInv
  <2>3. e.incoming BY FieldTypes DEF Grounded
  <2> QED BY <2>1, <2>2, <2>3
<1>2. \/ d = StartAccept(e)
      \/ d = Terminate(e)
      \/ Renewed(d, e)
      \/ d = SendDtmf(e)
  BY <1>1 DEF Acts
<1>3. CASE d = StartAccept(e)
  <2>1. /\ d.state = "StreamsRunning" /\ d.dialog = "Confirmed" /\ d.releaseLater = e.releaseLater
        /\ d.out = <<Response("INVITE", 200, "sendrecv")>>
    BY <1>1, <1>3, StartAcceptCourse
  <2> QED BY <1>1, <2>1 DEF Open, EarlyState, OverState, Answered
<1>4. CASE d = Terminate(e)
  <2> DEFINE r == Reply(e, 603, "none")
             m == Response("INVITE", 603, "none")
  <2>1. 603 \in Code \ {0} /\ 603 >= 300 BY DEF Code
  <2>2. /\ r \in Endpoint /\ SameSession(r, e) /\ r.dialog = "TermEarly"
        /\ r.out = Append(e.out, m)
    BY <1>1, <2>1, ReplyFacts
  <2>3. d = TerminateSession(r) BY <1>4 DEF Terminate
  <2> HIDE DEF r, m
  <2>4. r.state \notin OverState /\ r.attached BY <1>1, <2>2 DEF SameSession, OverState
  <2>5. Apart(d, r) /\ d.state = "End" BY <2>2, <2>3, <2>4, TerminateSessionFacts
  <2>6. Append(<<>>, m) = <<m>> OBVIOUS
  <2>7. d.dialog = "TermEarly" /\ d.out = <<m>> BY <2>2, <2>5, <2>6 DEF Apart, Beside, Kept
  <2> QED BY <2>5, <2>7 DEF Lost, OverState, m
<1>5. CASE Renewed(d, e)
  BY <1>1, <1>5 DEF Renewed, Kept, EstablishedState
<1>6. CASE d = SendDtmf(e)
  BY <1>1, <1>6, SendDtmfFacts DEF RequestPending, SameSession
<1> QED BY <1>2, <1>3, <1>4, <1>5, <1>6

\* A CANCEL ends the ringing.
LEMMA RingingCancelled ==
  ASSUME NEW e \in Endpoint, EndpointInv(e), Grounded(e), e.out = <<>>,
         e.state = "IncomingReceived", NEW m \in Cancels, NEW d, Reacts(d, e, m)
  PROVE  Lost(d) /\ d.out \in Seq(Refusal \cup CancelAnswer)
<1> DEFINE p == Response("CANCEL", 200, "none")
           q == Response("INVITE", 487, "none")
<1>1. e.server /\ e.dialog = "Early" BY DEF EndpointInv, FreshInv
<1>2. d = ReceiveCancel(e) BY DEF Cancels, Reacts
<1>3. d.state \in OverState /\ d.dialog = "TermEarly" /\ d.out = Append(<<p>>, q)
  BY <1>1, <1>2, ReceiveCancelRinging
<1>4. p \in Refusal \cup CancelAnswer BY Messages
<1>5. q \in Refusal \cup CancelAnswer
  BY MsgType DEF Response, Refusal, Method, Code
<1> HIDE DEF p, q
<1>6. d.out \in Seq(Refusal \cup CancelAnswer) BY <1>3, <1>4, <1>5, Short
<1> QED BY <1>3, <1>6 DEF Lost

\* An endpoint that nobody has called does nothing.
LEMMA UnknownActs ==
  ASSUME NEW e \in Endpoint, EndpointInv(e), Grounded(e), Unknown(e), e.out = <<>>,
         NEW d, Acts(d, e)
  PROVE  Unknown(d) /\ d.out = <<>>
<1>1. e.incoming /\ e.dialog = "None" /\ e.op = "Early" /\ e.state = "Idle" /\ ~e.releaseLater
  BY DEF Unknown, EndpointInv, FreshInv, OverInv
<1>2. Renewed(d, e) BY <1>1 DEF Acts, CanSendDtmf
<1> QED BY <1>1, <1>2 DEF Renewed, Kept, Unknown

\* The INVITE makes it ring, unless it declines.
LEMMA UnknownCalled ==
  ASSUME NEW e \in Endpoint, EndpointInv(e), Grounded(e), Unknown(e), e.out = <<>>,
         NEW d, Reacts(d, e, Offered)
  PROVE  \/ /\ d.state = "IncomingReceived" /\ d.remote = "sendrecv"
            /\ d.out \in Seq(Provisional) /\ d.out # <<>>
         \/ Lost(d) /\ d.out \in Seq(Refusal)
<1> DEFINE m == Offered
<1>1. m \in Msg /\ m.method = "INVITE" /\ m.code = 0 /\ m.dir = "sendrecv" /\ m.dir \in Dir
  BY DEF Offered, Request, Msg, Method, Code, Dir
<1>2. e.dialog # "Confirmed" BY DEF Unknown
<1>3. d = ReceiveCall(e, m) \/ d = RefuseCall(e, 486) BY <1>1, <1>2 DEF Reacts
<1> HIDE DEF m
<1>4. CASE d = ReceiveCall(e, m)
  <2> DEFINE p == Response("INVITE", 100, "none")
             q == Response("INVITE", 180, "none")
  <2>1. d.state = "IncomingReceived" /\ d.remote = "sendrecv" /\ d.out = Append(<<p>>, q)
    BY <1>1, <1>4, ReceiveCallFacts
  <2>2. p \in Provisional /\ q \in Provisional BY MsgType DEF Response, Provisional, Method, Code
  <2> HIDE DEF p, q
  <2>3. Append(<<p>>, q) \in Seq(Provisional) /\ Append(<<p>>, q) # <<>> BY <2>2, Short
  <2> QED BY <2>1, <2>3
<1>5. CASE d = RefuseCall(e, 486)
  <2> DEFINE p == Response("INVITE", 486, "none")
  <2>1. Lost(d) /\ d.out = <<p>> BY <1>5, RefuseCallFacts
  <2>2. p \in Refusal BY MsgType DEF Response, Refusal, Method, Code
  <2> HIDE DEF p
  <2>3. <<p>> \in Seq(Refusal) BY <2>2
  <2> QED BY <2>1, <2>3
<1> QED BY <1>3, <1>4, <1>5

\* A caller that has no INVITE under way: not yet, or not any more.
Starting(e) ==
  /\ e.state \in {"Idle", "OutgoingInit", "Released"}
  /\ e.client = "none" /\ e.dialog = "None" /\ e.bye = 0 /\ e.info = "none" /\ ~e.releaseLater

\* Its first INVITE is under way and nothing has come back.
Dialled(e) ==
  /\ Pending(e) /\ e.client = "calling" /\ e.dialog = "None" /\ e.info = "none"
  /\ e.lastRequest = "INVITE"

\* MediaSession::startInvite() sends that INVITE.
LEMMA StartInviteDialled ==
  ASSUME NEW e \in Endpoint, EndpointInv(e), Starting(e), ~e.incoming, e.out = <<>>,
         e.state = "OutgoingInit"
  PROVE  Dialled(StartInvite(e)) /\ StartInvite(e).out = <<Offered>>
<1> DEFINE d == StartInvite(e)
<1>1. /\ d.state = "OutgoingProgress" /\ d.op = e.op /\ d.dialog = e.dialog
      /\ d.client = "calling" /\ d.bye = e.bye /\ d.info = e.info
      /\ d.lastRequest = "INVITE" /\ d.offer = "sendrecv"
      /\ d.released = e.released /\ d.releaseLater = e.releaseLater
      /\ d.out = <<Offered>>
  BY StartInviteCourse DEF Offered
<1>2. ~e.released /\ e.op \notin {"Terminating", "Terminated"}
  BY DEF EndpointInv, SessionInv, OverInv
<1> HIDE DEF d
<1>3. Dialled(d) BY <1>1, <1>2 DEF Dialled, Pending, Starting, OverState
<1> QED BY <1>1, <1>3 DEF d

\* It stays so, calls or gives up.
LEMMA StartingActs ==
  ASSUME NEW e \in Endpoint, EndpointInv(e), Grounded(e), Starting(e), ~e.incoming, e.out = <<>>,
         NEW d, Acts(d, e)
  PROVE  \/ Starting(d) /\ d.out = <<>>
         \/ Dialled(d) /\ d.out = <<Offered>>
<1>1. \/ /\ e.state = "Idle" /\ ~e.attached
         /\ d \in {InitiateOutgoing(e), StartInvite(InitiateOutgoing(e))}
      \/ e.state = "OutgoingInit" /\ d = StartInvite(e)
      \/ e.state = "OutgoingInit" /\ d = Terminate(e)
      \/ Renewed(d, e)
  BY DEF Acts, Starting, OverState, CanSendDtmf
<1>2. CASE e.state = "Idle" /\ ~e.attached
           /\ d \in {InitiateOutgoing(e), StartInvite(InitiateOutgoing(e))}
  <2> DEFINE i == InitiateOutgoing(e)
  <2>1. i \in Endpoint /\ Apart(i, e) /\ i.op = e.op /\ i.state = "OutgoingInit"
    BY <1>2, InitiateOutgoingCourse
  <2>2. EndpointInv(i) BY <1>2, InitiateOutgoingInv
  <2> HIDE DEF i
  <2>3. Starting(i) /\ i.out = <<>> /\ ~i.incoming
    BY <2>1 DEF Starting, Apart, Beside, Kept
  <2>4. Dialled(StartInvite(i)) /\ StartInvite(i).out = <<Offered>>
    BY <2>1, <2>2, <2>3, StartInviteDialled
  <2> QED BY <1>2, <2>3, <2>4 DEF i
<1>3. CASE e.state = "OutgoingInit" /\ d = StartInvite(e) BY <1>3, StartInviteDialled
<1>4. CASE e.state = "OutgoingInit" /\ d = Terminate(e)
  <2> DEFINE r == OpRelease(e)
  <2>1. r \in Endpoint BY OpReleaseType
  <2>2. ~r.attached /\ r.state = e.state /\ Apart(r, e)
    BY <2>1 DEF OpRelease, Apart, Beside, Kept, Endpoint
  <2>3. d = TerminateSession(r) BY <1>4 DEF Terminate
  <2> HIDE DEF r
  <2>4. Apart(d, r) /\ d.state = "Released"
    BY <1>4, <2>1, <2>2, <2>3, TerminateSessionFacts DEF OverState
  <2> QED BY <2>2, <2>4 DEF Starting, Apart, Beside, Kept
<1>5. CASE Renewed(d, e)
  BY <1>5 DEF Renewed, Kept, Starting, EstablishedState
<1> QED BY <1>1, <1>2, <1>3, <1>4, <1>5

\* SalCallOp::processTimeoutCb() when the first INVITE is lost: a caller that was
\* still waiting is released, one that had given up only notes it.
LEMMA TimeoutFacts ==
  ASSUME NEW e \in Endpoint, EndpointInv(e), Grounded(e), e.client # "none", e.dialog = "None",
         e.out = <<>>
  PROVE  LET d == ProcessTimeout(e)
         IN  /\ d \in Endpoint /\ Course(d, e) /\ d.out = <<>>
             /\ Lost(e) => Lost(d) /\ d.info = e.info
             /\ Dialled(e) => Starting(d)
<1>1. CASE e.op = "Terminated"
  <2> DEFINE d == [e EXCEPT !.client = "none"]
  <2>1. d \in Endpoint BY Zenon DEF Endpoint, ClientState
  <2>2. /\ SameSession(d, e) /\ d.op = e.op /\ d.dialog = e.dialog /\ d.info = e.info
        /\ d.out = <<>> /\ d.released = e.released
    BY <2>1 DEF SameSession, Endpoint
  <2>3. ProcessTimeout(e) = d BY <1>1, <2>2 DEF ProcessTimeout
  <2> HIDE DEF d
  <2>4. Course(d, e) BY <2>2, SameCourse DEF SameSession
  <2>5. Lost(e) => Lost(d) BY <2>2 DEF Lost, SameSession
  <2>6. ~Dialled(e) BY <1>1 DEF Dialled, Pending
  <2> QED BY <2>1, <2>2, <2>3, <2>4, <2>5, <2>6
<1>2. CASE e.op # "Terminated"
  <2>1. ~Lost(e) BY <1>2, LostFacts
  <2>2. e.state # "Idle"
    BY DEF EndpointInv, RequestInv, TransientState, OverState
  <2> DEFINE d == ProcessTimeout(e)
  <2>3. /\ d \in Endpoint /\ Course(d, e) /\ d.client = "none" /\ d.dialog = "None"
        /\ d.info = e.info /\ d.bye = e.bye /\ d.releaseLater = e.releaseLater
        /\ d.out = <<>> /\ d.state = "Released"
    BY <1>2, <2>2, ProcessTimeoutFacts
  <2> HIDE DEF d
  <2>4. Dialled(e) => Starting(d) BY <2>3 DEF Dialled, Starting, Pending
  <2> QED BY <2>1, <2>3, <2>4 DEF d
<1> QED BY <1>1, <1>2

\* Nothing said about an endpoint depends on what it has just sent.
LEMMA RestSame ==
  ASSUME NEW d \in Endpoint
  PROVE  /\ Lost(Rest(d)) <=> Lost(d)
         /\ Open(Rest(d)) <=> Open(d)
         /\ Pending(Rest(d)) <=> Pending(d)
         /\ Starting(Rest(d)) <=> Starting(d)
         /\ Dialled(Rest(d)) <=> Dialled(d)
         /\ Unknown(Rest(d)) <=> Unknown(d)
         /\ Grounded(Rest(d)) <=> Grounded(d)
         /\ Rest(d).state = d.state /\ Rest(d).incoming = d.incoming /\ Rest(d).info = d.info
         /\ Rest(d).bye = d.bye /\ Rest(d).client = d.client /\ Rest(d).remote = d.remote
         /\ Rest(d).lastRequest = d.lastRequest /\ Rest(d).out = <<>>
<1> DEFINE r == Rest(d)
<1>1. /\ SameSession(r, d) /\ Beside(r, d) /\ r.op = d.op /\ r.out = <<>> BY RestFacts
<1> HIDE DEF r
<1>2. /\ r.state = d.state /\ r.incoming = d.incoming /\ r.attached = d.attached
      /\ r.prevState = d.prevState /\ r.lastStable = d.lastStable
      /\ r.released = d.released /\ r.releaseLater = d.releaseLater /\ r.dialog = d.dialog
      /\ r.client = d.client /\ r.bye = d.bye /\ r.info = d.info /\ r.offer = d.offer
      /\ r.remote = d.remote /\ r.lastRequest = d.lastRequest
  BY <1>1 DEF SameSession, Beside, Kept
<1>3. (Lost(r) <=> Lost(d)) /\ (Open(r) <=> Open(d)) BY <1>1, <1>2 DEF Lost, Open
<1>4. Pending(r) <=> Pending(d) BY <1>1, <1>2 DEF Pending
<1>5. Starting(r) <=> Starting(d) BY <1>2 DEF Starting
<1>6. Dialled(r) <=> Dialled(d) BY <1>2, <1>4 DEF Dialled
<1>7. Unknown(r) <=> Unknown(d) BY <1>1, <1>2 DEF Unknown
<1>8. Grounded(r) <=> Grounded(d) BY <1>2 DEF Grounded
<1> QED BY <1>1, <1>2, <1>3, <1>4, <1>5, <1>6, <1>7, <1>8 DEF r

(***************************************************************************)
(* What is on its way.                                                     *)
(***************************************************************************)

\* Messages of P, then one of B, then messages of Q.
Holds(s, P, B, Q) == \E p \in Seq(P), b \in B, q \in Seq(Q) : s = p \o (<<b>> \o q)

\* What is taken from the front of a sequence.
LEMMA TailOfConcat ==
  ASSUME NEW S, NEW p \in Seq(S), NEW t \in Seq(S), p # <<>>
  PROVE  Head(p \o t) = Head(p) /\ Tail(p \o t) = Tail(p) \o t
<1>1. p \o t # <<>> /\ Len(p) > 0 BY ConcatProperties, LenProperties, EmptySeq
<1>2. Head(p \o t) = Head(p) BY <1>1, ConcatProperties, HeadTailProperties
<1>3. Tail(p) \in Seq(S) /\ Tail(p \o t) \in Seq(S) /\ Tail(p) \o t \in Seq(S)
  BY <1>1, ConcatProperties
<1>4. Len(Tail(p \o t)) = Len(Tail(p) \o t)
  BY <1>1, <1>3, ConcatProperties, HeadTailProperties
<1>5. \A i \in 1..Len(Tail(p \o t)) : Tail(p \o t)[i] = (Tail(p) \o t)[i]
  BY <1>1, <1>3, <1>4, ConcatProperties, HeadTailProperties, LenProperties
<1> QED BY <1>2, <1>3, <1>4, <1>5, SeqEqual

\* The first message of such a sequence is one of P, or the one of B.
LEMMA HoldsTail ==
  ASSUME NEW M, NEW P \in SUBSET M, NEW B \in SUBSET M, NEW Q \in SUBSET M,
         NEW s, Holds(s, P, B, Q)
  PROVE  /\ s # <<>>
         /\ \/ Head(s) \in P /\ Holds(Tail(s), P, B, Q)
            \/ Head(s) \in B /\ Tail(s) \in Seq(Q)
<1>1. PICK p \in Seq(P), b \in B, q \in Seq(Q) : s = p \o (<<b>> \o q) BY DEF Holds
<1> DEFINE t == <<b>> \o q
<1>2. p \in Seq(M) /\ q \in Seq(M) /\ <<b>> \in Seq(M) BY SeqMonotonic
<1>3. t \in Seq(M) /\ Head(t) = b /\ Tail(t) = q /\ t # <<>> BY <1>2
<1> HIDE DEF t
<1>4. CASE p = <<>>
  <2>1. s = t BY <1>1, <1>3, <1>4, ConcatEmptySeq DEF t
  <2> QED BY <1>3, <2>1
<1>5. CASE p # <<>>
  <2>1. Head(s) = Head(p) /\ Tail(s) = Tail(p) \o t
    BY <1>1, <1>2, <1>3, <1>5, TailOfConcat DEF t
  <2>2. Head(p) \in P /\ Tail(p) \in Seq(P) BY <1>5
  <2>3. s # <<>> BY <1>1, <1>2, <1>3, ConcatEqualIffEmpty DEF t
  <2>4. Holds(Tail(s), P, B, Q) BY <2>1, <2>2 DEF Holds, t
  <2> QED BY <2>1, <2>2, <2>3, <2>4
<1> QED BY <1>4, <1>5

\* More messages of Q may follow.
LEMMA HoldsMore ==
  ASSUME NEW M, NEW P \in SUBSET M, NEW B \in SUBSET M, NEW Q \in SUBSET M,
         NEW s, Holds(s, P, B, Q), NEW r \in Seq(Q)
  PROVE  Holds(s \o r, P, B, Q)
<1>1. PICK p \in Seq(P), b \in B, q \in Seq(Q) : s = p \o (<<b>> \o q) BY DEF Holds
<1>2. p \in Seq(M) /\ q \in Seq(M) /\ <<b>> \in Seq(M) /\ r \in Seq(M) BY SeqMonotonic
<1> DEFINE t == <<b>> \o q
<1>3. t \in Seq(M) BY <1>2, ConcatProperties
<1>4. t \o r = <<b>> \o (q \o r) BY <1>2, ConcatAssociative
<1> HIDE DEF t
<1>5. s \o r = p \o (t \o r) BY <1>1, <1>2, <1>3, ConcatAssociative DEF t
<1>6. q \o r \in Seq(Q) BY ConcatProperties
<1> QED BY <1>4, <1>5, <1>6 DEF Holds

\* The message of B is appended.
LEMMA HoldsNew ==
  ASSUME NEW P, NEW B, NEW Q, NEW p \in Seq(P), NEW b \in B
  PROVE  Holds(p \o <<b>>, P, B, Q)
<1>1. <<b>> \o <<>> = <<b>> /\ <<>> \in Seq(Q) BY ConcatEmptySeq, EmptySeq
<1> QED BY <1>1 DEF Holds

\* A sequence over two sets is one over their intersection.
LEMMA SeqBoth ==
  ASSUME NEW S, NEW T, NEW s \in Seq(S), s \in Seq(T)
  PROVE  s \in Seq(S \cap T)
<1>1. \A i \in 1..Len(s) : s[i] \in S \cap T BY ElementOfSeq
<1> QED BY <1>1, SeqDef, LenProperties

(***************************************************************************)
(* The stages of a call.  c is the caller, k the callee, x what is on its  *)
(* way to the caller and y what is on its way to the callee.               *)
(***************************************************************************)

\* Nobody has been called.
FreshStage(c, k, x, y) == Starting(c) /\ Unknown(k) /\ x = <<>> /\ y = <<>>

\* The INVITE that starts the call is under way.
CallingStage(c, k, x, y) == Dialled(c) /\ Unknown(k) /\ x = <<>> /\ y = <<Offered>>

\* The callee rings.  A caller that has cancelled its INVITE has a CANCEL under
\* way, and one that has not heard of the callee will.
RingingStage(c, k, x, y) ==
  /\ Pending(c) /\ k.state = "IncomingReceived" /\ k.remote = "sendrecv"
  /\ x \in Seq(Provisional) /\ y \in Seq(Cancels)
  /\ c.info = "none" =>
       /\ c.lastRequest = "CANCEL" => y # <<>>
       /\ c.client = "calling" => x # <<>>

\* The callee has answered and the caller has not heard of it.
AnsweringStage(c, k, x, y) ==
  /\ Pending(c) /\ Open(k) /\ y \in Seq(Cancels)
  /\ Holds(x, Provisional, {Answered}, Plain)
  /\ k.bye = 0 => Holds(x, Provisional, {Answered}, Plain \cap NoBye)

\* The callee has declined, or was cancelled, and the caller has not heard of it.
DeclinedStage(c, k, x, y) ==
  /\ Pending(c) /\ Lost(k) /\ y \in Seq(Cancels)
  /\ x \in Seq(Provisional \cup Refusal \cup CancelAnswer)

\* The caller has given up without a CANCEL, behind an INFO that cannot be sent.
DeafStage(c) == Lost(c) /\ c.info = "queued"

\* The final response has arrived at the caller.  Of two sides e and p, with x on
\* its way to e and y to p: the side e is gone, or the peer has a dialog too, or
\* the answer of the peer to the BYE of e is on its way.
Side(e, p, x, y) ==
  \/ Lost(e)
  \/ /\ Open(e) /\ (e.bye = 0 => y \in Seq(NoBye))
     /\ \/ Open(p) /\ x \in Seq(Plain)
        \/ Lost(p) /\ e.bye > 0 /\ Holds(x, Plain, ByeAnswer, Msg)

\* It holds of both sides.
ConnectedStage(c, k, x, y) == Side(c, k, x, y) /\ Side(k, c, y, x)

\* A call is in one of these stages.
Stage(c, k, x, y) ==
  \/ FreshStage(c, k, x, y) \/ CallingStage(c, k, x, y) \/ RingingStage(c, k, x, y)
  \/ AnsweringStage(c, k, x, y) \/ DeclinedStage(c, k, x, y) \/ DeafStage(c)
  \/ ConnectedStage(c, k, x, y)

\* An endpoint between two of its handlers.
Settled(e) == e \in Endpoint /\ EndpointInv(e) /\ Grounded(e) /\ e.out = <<>>

\* A step of its own, or the first of the messages x on their way to it, makes d of
\* the endpoint e and leaves t on the way.
Goes(d, e, x, t) ==
  \/ Acts(d, e) /\ t = x
  \/ x # <<>> /\ Reacts(d, e, Head(x)) /\ t = Tail(x)

\* Every kind of message is a message, and what separates them.
LEMMA Kinds ==
  /\ Provisional \subseteq Msg /\ Refusal \subseteq Msg /\ Cancels \subseteq Msg
  /\ CancelAnswer \subseteq Msg /\ ByeAnswer \subseteq Msg /\ Plain \subseteq Msg
  /\ NoBye \subseteq Msg /\ Answered \in Plain \cap NoBye /\ Offered \in Msg
  /\ Cancels \subseteq Plain \cap NoBye
<1>1. /\ Provisional \subseteq Msg /\ Refusal \subseteq Msg /\ Cancels \subseteq Msg
      /\ CancelAnswer \subseteq Msg /\ ByeAnswer \subseteq Msg /\ Plain \subseteq Msg
      /\ NoBye \subseteq Msg
  BY DEF Provisional, Refusal, Cancels, CancelAnswer, ByeAnswer, Plain, NoBye
<1>2. Answered \in Msg /\ Answered.method = "INVITE" /\ Answered.code = 200
  BY DEF Answered, Response, Msg, Method, Code, Dir
<1>3. Answered \in Plain \cap NoBye BY <1>2 DEF Plain, NoBye, ByeAnswer
<1>4. Offered \in Msg BY DEF Offered, Request, Msg, Method, Code, Dir
<1>5. Cancels \subseteq Plain \cap NoBye BY DEF Cancels, Plain, NoBye, ByeAnswer
<1> QED BY <1>1, <1>3, <1>4, <1>5

\* What arrives until the answer does.
LEMMA BeforeAnswer ==
  ASSUME NEW x, Holds(x, Provisional, {Answered}, Plain)
  PROVE  Head(x) \in Provisional \/ Head(x) = Answered
<1>1. Provisional \subseteq Msg /\ {Answered} \subseteq Msg /\ Plain \subseteq Msg BY Kinds
<1>2. Head(x) \in Provisional \/ Head(x) \in {Answered} BY <1>1, HoldsTail
<1> QED BY <1>2

\* No dialog is both open and gone.
LEMMA OpenNotLost ==
  ASSUME NEW e \in Endpoint, EndpointInv(e), Open(e)
  PROVE  ~Lost(e)
BY DEF Open, Lost, EndpointInv, OverInv

\* Once the final response has arrived, a step of either side keeps the two
\* together.
LEMMA SidesStep ==
  ASSUME NEW e, NEW p, Settled(e), Settled(p), NEW x \in Seq(Msg), NEW y \in Seq(Msg),
         Side(e, p, x, y), Side(p, e, y, x),
         NEW d \in Endpoint, NEW t, Goes(d, e, x, t)
  PROVE  Side(d, p, t, y \o d.out) /\ Side(p, d, y \o d.out, t)
<1>1. /\ e \in Endpoint /\ EndpointInv(e) /\ Grounded(e) /\ e.out = <<>>
      /\ p \in Endpoint /\ EndpointInv(p)
  BY DEF Settled
<1>2. d.out \in Seq(Msg) BY DEF Endpoint
<1>4. CASE Lost(e)
  <2>1. Lost(d)
    <3>1. CASE Acts(d, e) BY <1>1, <1>4, <3>1, LostActs
    <3>2. CASE x # <<>> /\ Reacts(d, e, Head(x))
      <4>1. Head(x) \in Msg BY <3>2
      <4> QED BY <1>1, <1>4, <3>2, <4>1, LostReacts
    <3> QED BY <3>1, <3>2 DEF Goes
  <2>2. CASE Lost(p) BY <2>1, <2>2 DEF Side
  <2>3. CASE Open(p)
    <3>1. p.bye > 0 /\ Holds(y, Plain, ByeAnswer, Msg)
      BY <1>1, <1>4, <2>3, OpenNotLost DEF Side
    <3>2. Holds(y \o d.out, Plain, ByeAnswer, Msg) BY <1>2, <3>1, Kinds, HoldsMore
    <3>3. p.bye # 0 BY <3>1
    <3> QED BY <2>1, <2>3, <3>1, <3>2, <3>3 DEF Side
  <2> QED BY <2>2, <2>3 DEF Side
<1>5. CASE Open(e) /\ Open(p)
  <2>1. ~Lost(e) /\ ~Lost(p) BY <1>1, <1>5, OpenNotLost
  <2>2. /\ x \in Seq(Plain) /\ y \in Seq(Plain)
        /\ e.bye = 0 => y \in Seq(NoBye)
        /\ p.bye = 0 => x \in Seq(NoBye)
    BY <2>1 DEF Side
  <2>3. ASSUME Lasting(d, e), t \in Seq(Plain), p.bye = 0 => t \in Seq(NoBye)
        PROVE  Side(d, p, t, y \o d.out) /\ Side(p, d, y \o d.out, t)
    <3>1. y \o d.out \in Seq(Plain) BY <2>2, <2>3, ConcatProperties DEF Lasting
    <3>2. d.bye = 0 => y \o d.out \in Seq(NoBye)
      <4>1. d.bye = 0 => e.bye = 0 BY <1>1, <2>3, FieldTypes DEF Lasting
      <4> QED BY <2>2, <2>3, <4>1, ConcatProperties DEF Lasting
    <3> QED BY <1>5, <2>3, <3>1, <3>2 DEF Side, Lasting
  <2>4. CASE Acts(d, e) /\ t = x BY <1>1, <1>5, <2>2, <2>3, <2>4, OpenActs
  <2>5. CASE x # <<>> /\ Reacts(d, e, Head(x)) /\ t = Tail(x)
    <3>1. Head(x) \in Plain /\ Head(x) \in Msg /\ t \in Seq(Plain) BY <2>2, <2>5
    <3>2. CASE Head(x) \in NoBye
      <4>1. Lasting(d, e) BY <1>1, <1>5, <2>5, <3>1, <3>2, OpenReacts
      <4>2. p.bye = 0 => t \in Seq(NoBye) BY <2>2, <2>5
      <4> QED BY <2>3, <3>1, <4>1, <4>2
    <3>3. CASE Head(x) \notin NoBye
      <4>1. Lost(d) /\ d.out = <<Response("BYE", 200, "none")>>
        BY <1>1, <1>5, <2>5, <3>1, <3>3, OpenReacts
      <4>2. p.bye # 0 BY <2>2, <2>5, <3>3
      <4>3. p.bye > 0 BY <1>1, <4>2, FieldTypes
      <4>4. Holds(y \o d.out, Plain, ByeAnswer, Msg) BY <2>2, <4>1, Messages, HoldsNew
      <4> QED BY <1>5, <4>1, <4>2, <4>3, <4>4 DEF Side
    <3> QED BY <3>2, <3>3
  <2> QED BY <2>4, <2>5 DEF Goes
<1>6. CASE Open(e) /\ Lost(p)
  <2>1. /\ ~Lost(e) /\ ~Open(p) /\ e.bye > 0 /\ Holds(x, Plain, ByeAnswer, Msg)
    BY <1>1, <1>6, OpenNotLost DEF Side
  <2>2. Side(p, d, y \o d.out, t) BY <1>6 DEF Side
  <2>3. ASSUME Lasting(d, e), Holds(t, Plain, ByeAnswer, Msg)
        PROVE  Side(d, p, t, y \o d.out)
    <3>1. d.bye > 0 BY <2>1, <2>3 DEF Lasting
    <3>2. d.bye # 0 BY <3>1
    <3> QED BY <1>6, <2>3, <3>1, <3>2 DEF Side, Lasting
  <2>4. CASE Acts(d, e) /\ t = x BY <1>1, <1>6, <2>1, <2>2, <2>3, <2>4, OpenActs
  <2>5. CASE x # <<>> /\ Reacts(d, e, Head(x)) /\ t = Tail(x)
    <3>1. Head(x) \in Msg BY <2>5
    <3>2. \/ Head(x) \in Plain /\ Holds(t, Plain, ByeAnswer, Msg)
          \/ Head(x) \in ByeAnswer
      BY <2>1, <2>5, Kinds, HoldsTail
    <3>3. CASE Head(x) \in ByeAnswer \/ Head(x) \notin NoBye
      <4>1. Lost(d) BY <1>1, <1>6, <2>1, <2>5, <3>1, <3>3, OpenReacts
      <4> QED BY <2>2, <4>1 DEF Side
    <3>4. CASE Head(x) \in Plain \cap NoBye /\ Holds(t, Plain, ByeAnswer, Msg)
      <4>1. Lasting(d, e) BY <1>1, <1>6, <2>5, <3>1, <3>4, OpenReacts
      <4> QED BY <2>2, <2>3, <3>4, <4>1
    <3> QED BY <3>2, <3>3, <3>4
  <2> QED BY <2>4, <2>5 DEF Goes
<1> QED BY <1>4, <1>5, <1>6 DEF Side

\* Before the INVITE.
LEMMA FreshStep ==
  ASSUME NEW c, NEW k, NEW x, NEW y, Settled(c), Settled(k), ~c.incoming,
         FreshStage(c, k, x, y), NEW d, NEW t
  PROVE  /\ Goes(d, c, x, t) => Stage(d, k, t, y \o d.out)
         /\ Goes(d, k, y, t) => Stage(c, d, x \o d.out, t)
<1>1. ASSUME Goes(d, c, x, t) PROVE Stage(d, k, t, y \o d.out)
  <2>1. Acts(d, c) /\ t = <<>> BY <1>1 DEF Goes, FreshStage
  <2>2. \/ Starting(d) /\ d.out = <<>>
        \/ Dialled(d) /\ d.out = <<Offered>>
    BY <2>1, StartingActs DEF Settled, FreshStage
  <2>3. <<>> \o <<Offered>> = <<Offered>> /\ <<>> \o <<>> = <<>>
    BY Kinds, ConcatEmptySeq, EmptySeq
  <2> QED BY <2>1, <2>2, <2>3 DEF Stage, FreshStage, CallingStage
<1>2. ASSUME Goes(d, k, y, t) PROVE Stage(c, d, x \o d.out, t)
  <2>1. Acts(d, k) /\ t = <<>> BY <1>2 DEF Goes, FreshStage
  <2>2. Unknown(d) /\ d.out = <<>> BY <2>1, UnknownActs DEF Settled, FreshStage
  <2>3. <<>> \o <<>> = <<>> BY ConcatEmptySeq, EmptySeq
  <2> QED BY <2>1, <2>2, <2>3 DEF Stage, FreshStage
<1> QED BY <1>1, <1>2

\* The INVITE is under way.
LEMMA CallingStep ==
  ASSUME NEW c, NEW k, NEW x, NEW y, Settled(c), Settled(k), ~c.incoming,
         CallingStage(c, k, x, y), NEW d, NEW t
  PROVE  /\ Goes(d, c, x, t) => Stage(d, k, t, y \o d.out)
         /\ Goes(d, k, y, t) => Stage(c, d, x \o d.out, t)
<1>0. <<Offered>> \in Seq(Msg) BY Kinds
<1>1. ASSUME Goes(d, c, x, t) PROVE Stage(d, k, t, y \o d.out)
  <2>1. Acts(d, c) /\ t = <<>> BY <1>1 DEF Goes, CallingStage
  <2>2. Pending(c) /\ c.dialog = "None" /\ c.client = "calling" /\ c.info = "none"
        /\ c.lastRequest = "INVITE"
    BY DEF CallingStage, Dialled
  <2>3. /\ d.client = c.client /\ Waiting(d, c) /\ d.dialog = "None" /\ d.info = "none"
        /\ d.out = <<>> /\ d.lastRequest = c.lastRequest
    BY <2>1, <2>2, PendingActs DEF Settled
  <2>4. Dialled(d) BY <2>2, <2>3 DEF Dialled, Waiting
  <2>5. <<Offered>> \o <<>> = <<Offered>> BY <1>0, ConcatEmptySeq
  <2> QED BY <2>1, <2>3, <2>4, <2>5 DEF Stage, CallingStage
<1>2. ASSUME Goes(d, k, y, t) PROVE Stage(c, d, x \o d.out, t)
  <2>1. CASE Acts(d, k) /\ t = y
    <3>1. Unknown(d) /\ d.out = <<>> BY <2>1, UnknownActs DEF Settled, CallingStage
    <3>2. <<>> \o <<>> = <<>> BY ConcatEmptySeq, EmptySeq
    <3> QED BY <2>1, <3>1, <3>2 DEF Stage, CallingStage
  <2>2. CASE y # <<>> /\ Reacts(d, k, Head(y)) /\ t = Tail(y)
    <3>1. Head(y) = Offered /\ t = <<>> BY <2>2 DEF CallingStage
    <3>2. \/ /\ d.state = "IncomingReceived" /\ d.remote = "sendrecv"
             /\ d.out \in Seq(Provisional) /\ d.out # <<>>
          \/ Lost(d) /\ d.out \in Seq(Refusal)
      BY <2>2, <3>1, UnknownCalled DEF Settled, CallingStage
    <3>3. /\ d.out \in Seq(Provisional) => x \o d.out = d.out
          /\ d.out \in Seq(Refusal) => x \o d.out = d.out
      BY ConcatEmptySeq DEF CallingStage
    <3>4. d.out \in Seq(Refusal) => d.out \in Seq(Provisional \cup Refusal \cup CancelAnswer)
      BY SeqMonotonic
    <3>5. <<>> \in Seq(Cancels) OBVIOUS
    <3>6. Pending(c) /\ c.lastRequest = "INVITE" BY DEF CallingStage, Dialled
    <3> QED BY <3>1, <3>2, <3>3, <3>4, <3>5, <3>6 DEF Stage, RingingStage, DeclinedStage
  <2> QED BY <1>2, <2>1, <2>2 DEF Goes
<1> QED BY <1>1, <1>2

\* The callee rings.
LEMMA RingingStep ==
  ASSUME NEW c, NEW k, NEW x, NEW y, Settled(c), Settled(k), ~c.incoming,
         RingingStage(c, k, x, y), NEW d, NEW t
  PROVE  /\ Goes(d, c, x, t) => Stage(d, k, t, y \o d.out)
         /\ Goes(d, k, y, t) => Stage(c, d, x \o d.out, t)
<1>0. /\ Pending(c) /\ k.state = "IncomingReceived" /\ k.remote = "sendrecv"
      /\ x \in Seq(Provisional) /\ y \in Seq(Cancels)
      /\ c.info = "none" =>
           /\ c.lastRequest = "CANCEL" => y # <<>>
           /\ c.client = "calling" => x # <<>>
  BY DEF RingingStage
<1>1. ASSUME Goes(d, c, x, t) PROVE Stage(d, k, t, y \o d.out)
  <2>1. t \in Seq(Provisional) BY <1>0, <1>1 DEF Goes
  <2>2. ASSUME Waiting(d, c), d.client = "calling" /\ c.info = "none" => t # <<>>
        PROVE  RingingStage(d, k, t, y \o d.out)
    <3>1. y \o d.out \in Seq(Cancels) BY <1>0, <2>2, ConcatProperties DEF Waiting
    <3>2. d.info = "none" /\ d.lastRequest = "CANCEL" => y \o d.out # <<>>
      BY <1>0, <2>2, ConcatEqualIffEmpty DEF Waiting
    <3>3. d.info = "none" => c.info = "none" BY <2>2 DEF Waiting
    <3> QED BY <1>0, <2>1, <2>2, <3>1, <3>2, <3>3 DEF RingingStage, Waiting
  <2>3. CASE Acts(d, c) /\ t = x
    <3>1. d.client = c.client /\ (Waiting(d, c) \/ Forsaken(d, c))
      BY <1>0, <2>3, PendingActs DEF Settled
    <3> QED BY <1>0, <2>2, <2>3, <3>1 DEF Stage, DeafStage, Forsaken
  <2>4. CASE x # <<>> /\ Reacts(d, c, Head(x)) /\ t = Tail(x)
    <3>1. Head(x) \in Provisional BY <1>0, <2>4
    <3>2. (Waiting(d, c) /\ d.client = "proceeding") \/ Forsaken(d, c)
      BY <1>0, <2>4, <3>1, PendingReacts DEF Settled
    <3> QED BY <2>2, <3>2 DEF Stage, DeafStage, Forsaken
  <2> QED BY <1>1, <2>3, <2>4 DEF Goes
<1>2. ASSUME Goes(d, k, y, t) PROVE Stage(c, d, x \o d.out, t)
  <2> DEFINE R == Provisional \cup Refusal \cup CancelAnswer
  <2>1. x \in Seq(R) /\ t \in Seq(Cancels)
    <3>1. x \in Seq(R) BY <1>0, SeqMonotonic
    <3>2. t \in Seq(Cancels) BY <1>0, <1>2 DEF Goes
    <3> QED BY <3>1, <3>2
  <2>2. ASSUME Lost(d), d.out \in Seq(R) PROVE Stage(c, d, x \o d.out, t)
    <3>1. x \o d.out \in Seq(R) BY <2>1, <2>2, ConcatProperties
    <3> QED BY <1>0, <2>1, <2>2, <3>1 DEF Stage, DeclinedStage
  <2>3. CASE Acts(d, k) /\ t = y
    <3>1. \/ d.state = "IncomingReceived" /\ d.remote = "sendrecv" /\ d.out = <<>>
          \/ Open(d) /\ d.out = <<Answered>>
          \/ Lost(d) /\ d.out = <<Response("INVITE", 603, "none")>>
      BY <1>0, <2>3, RingingActs DEF Settled
    <3>2. CASE d.state = "IncomingReceived" /\ d.remote = "sendrecv" /\ d.out = <<>>
      <4>1. x \o d.out = x BY <1>0, <3>2, ConcatEmptySeq
      <4> QED BY <1>0, <2>3, <3>2, <4>1 DEF Stage, RingingStage
    <3>3. CASE Open(d) /\ d.out = <<Answered>>
      <4>1. /\ Holds(x \o d.out, Provisional, {Answered}, Plain)
            /\ Holds(x \o d.out, Provisional, {Answered}, Plain \cap NoBye)
        BY <1>0, <3>3, HoldsNew
      <4> QED BY <1>0, <2>1, <3>3, <4>1 DEF Stage, AnsweringStage
    <3>4. CASE Lost(d) /\ d.out = <<Response("INVITE", 603, "none")>>
      <4>1. Response("INVITE", 603, "none") \in R
        BY DEF Response, Refusal, Msg, Method, Code
      <4>2. d.out \in Seq(R) BY <3>4, <4>1, Short
      <4> QED BY <2>2, <3>4, <4>2
    <3> QED BY <3>1, <3>2, <3>3, <3>4
  <2>4. CASE y # <<>> /\ Reacts(d, k, Head(y)) /\ t = Tail(y)
    <3>1. Head(y) \in Cancels BY <1>0, <2>4
    <3>2. Lost(d) /\ d.out \in Seq(Refusal \cup CancelAnswer)
      BY <1>0, <2>4, <3>1, RingingCancelled DEF Settled
    <3>3. d.out \in Seq(R) BY <3>2, SeqMonotonic
    <3> QED BY <2>2, <3>2, <3>3
  <2> QED BY <1>2, <2>3, <2>4 DEF Goes
<1> QED BY <1>1, <1>2

\* The callee has answered: the caller hears of it, or gives up meanwhile and ends
\* with a BYE the dialog that the answer establishes.
LEMMA AnsweringStep ==
  ASSUME NEW c, NEW k, NEW x, NEW y, Settled(c), Settled(k), ~c.incoming,
         AnsweringStage(c, k, x, y), NEW d, NEW t
  PROVE  /\ Goes(d, c, x, t) => Stage(d, k, t, y \o d.out)
         /\ Goes(d, k, y, t) => Stage(c, d, x \o d.out, t)
<1> DEFINE A == {Answered}
           N == Plain \cap NoBye
<1>0. /\ Pending(c) /\ Open(k) /\ y \in Seq(Cancels)
      /\ Holds(x, Provisional, A, Plain)
      /\ k.bye = 0 => Holds(x, Provisional, A, N)
  BY DEF AnsweringStage
<1>k. /\ Provisional \subseteq Msg /\ A \subseteq Msg /\ Plain \subseteq Msg /\ N \subseteq Msg
  BY Kinds
<1>1. ASSUME Goes(d, c, x, t) PROVE Stage(d, k, t, y \o d.out)
  <2>1. ASSUME Waiting(d, c), Holds(t, Provisional, A, Plain),
               k.bye = 0 => Holds(t, Provisional, A, N)
        PROVE  Stage(d, k, t, y \o d.out)
    <3>1. y \o d.out \in Seq(Cancels) BY <1>0, <2>1, ConcatProperties DEF Waiting
    <3> QED BY <1>0, <2>1, <3>1 DEF Stage, AnsweringStage, Waiting
  <2>2. Forsaken(d, c) => Stage(d, k, t, y \o d.out) BY DEF Stage, DeafStage, Forsaken
  <2>3. CASE Acts(d, c) /\ t = x
    <3>1. Waiting(d, c) \/ Forsaken(d, c) BY <1>0, <2>3, PendingActs DEF Settled
    <3> QED BY <1>0, <2>1, <2>2, <2>3, <3>1
  <2>4. CASE x # <<>> /\ Reacts(d, c, Head(x)) /\ t = Tail(x)
    <3>1. \/ Head(x) \in Provisional /\ Holds(t, Provisional, A, Plain)
          \/ Head(x) \in A /\ t \in Seq(Plain)
      BY <1>0, <1>k, <2>4, HoldsTail
    <3>2. k.bye = 0 => \/ Head(x) \in Provisional /\ Holds(t, Provisional, A, N)
                       \/ Head(x) \in A /\ t \in Seq(N)
      BY <1>0, <1>k, <2>4, HoldsTail
    <3>3. Answered \notin Provisional BY DEF Answered, Response, Provisional
    <3>4. CASE Head(x) \in Provisional /\ Holds(t, Provisional, A, Plain)
      <4>1. Waiting(d, c) \/ Forsaken(d, c)
        BY <1>0, <2>4, <3>4, PendingReacts DEF Settled
      <4>2. k.bye = 0 => Holds(t, Provisional, A, N) BY <3>2, <3>3, <3>4
      <4> QED BY <2>1, <2>2, <3>4, <4>1, <4>2
    <3>5. CASE Head(x) = Answered /\ t \in Seq(Plain)
      <4>1. Lasting(d, c) BY <1>0, <2>4, <3>5, PendingReacts DEF Settled
      <4>2. k.bye = 0 => t \in Seq(NoBye) BY <3>2, <3>3, <3>5, SeqMonotonic
      <4>3. y \in Seq(Plain) /\ y \in Seq(NoBye) BY <1>0, Kinds, SeqMonotonic
      <4>4. y \o d.out \in Seq(Plain) BY <4>1, <4>3, ConcatProperties DEF Lasting
      <4>5. d.bye = 0 => y \o d.out \in Seq(NoBye)
        BY <4>1, <4>3, ConcatProperties DEF Lasting
      <4> QED BY <1>0, <3>5, <4>1, <4>2, <4>4, <4>5
              DEF Stage, ConnectedStage, Side, Lasting
    <3> QED BY <3>1, <3>4, <3>5
  <2> QED BY <1>1, <2>3, <2>4 DEF Goes
<1>2. ASSUME Goes(d, k, y, t) PROVE Stage(c, d, x \o d.out, t)
  <2>1. Lasting(d, k) /\ t \in Seq(Cancels)
    <3>1. CASE Acts(d, k) /\ t = y BY <1>0, <3>1, OpenActs DEF Settled
    <3>2. CASE y # <<>> /\ Reacts(d, k, Head(y)) /\ t = Tail(y)
      <4>1. Head(y) \in Cancels /\ t \in Seq(Cancels) BY <1>0, <3>2
      <4>2. Head(y) \in N /\ Head(y) \in Msg BY <4>1, Kinds
      <4> QED BY <1>0, <3>2, <4>1, <4>2, OpenReacts DEF Settled
    <3> QED BY <1>2, <3>1, <3>2 DEF Goes
  <2>2. Holds(x \o d.out, Provisional, A, Plain)
    BY <1>0, <1>k, <2>1, HoldsMore DEF Lasting
  <2>3. d.bye = 0 => Holds(x \o d.out, Provisional, A, N)
    <3>1. d.bye = 0 => d.out \in Seq(N) BY <2>1, SeqBoth DEF Lasting
    <3>2. d.bye = 0 => k.bye = 0 BY <2>1, FieldTypes DEF Lasting, Settled
    <3> QED BY <1>0, <1>k, <3>1, <3>2, HoldsMore
  <2> QED BY <1>0, <2>1, <2>2, <2>3 DEF Stage, AnsweringStage, Lasting
<1> QED BY <1>1, <1>2

\* The callee has declined: the caller hears of it.
LEMMA DeclinedStep ==
  ASSUME NEW c, NEW k, NEW x, NEW y, Settled(c), Settled(k), ~c.incoming,
         DeclinedStage(c, k, x, y), NEW d, NEW t
  PROVE  /\ Goes(d, c, x, t) => Stage(d, k, t, y \o d.out)
         /\ Goes(d, k, y, t) => Stage(c, d, x \o d.out, t)
<1> DEFINE R == Provisional \cup Refusal \cup CancelAnswer
<1>0. Pending(c) /\ Lost(k) /\ y \in Seq(Cancels) /\ x \in Seq(R) BY DEF DeclinedStage
<1>1. ASSUME Goes(d, c, x, t) PROVE Stage(d, k, t, y \o d.out)
  <2>1. t \in Seq(R) BY <1>0, <1>1 DEF Goes
  <2>2. ASSUME Pending(d), d.out \in Seq(Cancels) PROVE Stage(d, k, t, y \o d.out)
    <3>1. y \o d.out \in Seq(Cancels) BY <1>0, <2>2, ConcatProperties
    <3> QED BY <1>0, <2>1, <2>2, <3>1 DEF Stage, DeclinedStage
  <2>3. Waiting(d, c) \/ Forsaken(d, c) => Stage(d, k, t, y \o d.out)
    BY <2>2 DEF Stage, DeafStage, Forsaken, Waiting
  <2>4. CASE Acts(d, c)
    BY <1>0, <2>3, <2>4, PendingActs DEF Settled
  <2>5. CASE x # <<>> /\ Reacts(d, c, Head(x))
    <3>1. Head(x) \in R BY <1>0, <2>5
    <3>2. /\ Head(x) \in CancelAnswer => Pending(d) /\ d.out = <<>>
          /\ Head(x) \in Provisional => Waiting(d, c) \/ Forsaken(d, c)
          /\ Head(x) \in Refusal => Lost(d)
      BY <1>0, <2>5, PendingReacts DEF Settled
    <3>3. <<>> \in Seq(Cancels) OBVIOUS
    <3>4. Lost(d) => Stage(d, k, t, y \o d.out) BY <1>0 DEF Stage, ConnectedStage, Side
    <3> QED BY <2>2, <2>3, <3>1, <3>2, <3>3, <3>4
  <2> QED BY <1>1, <2>4, <2>5 DEF Goes
<1>2. ASSUME Goes(d, k, y, t) PROVE Stage(c, d, x \o d.out, t)
  <2>1. Lost(d) /\ d.out \in Seq(R) /\ t \in Seq(Cancels)
    <3>1. CASE Acts(d, k) /\ t = y
      <4>1. Lost(d) /\ d.out = <<>> BY <1>0, <3>1, LostActs DEF Settled
      <4>2. <<>> \in Seq(R) OBVIOUS
      <4> QED BY <1>0, <3>1, <4>1, <4>2
    <3>2. CASE y # <<>> /\ Reacts(d, k, Head(y)) /\ t = Tail(y)
      <4>1. Head(y) \in Cancels /\ t \in Seq(Cancels) BY <1>0, <3>2
      <4>2. Head(y) \in Msg BY <4>1, Kinds
      <4>3. Lost(d) /\ d.out \in Seq(CancelAnswer)
        BY <1>0, <3>2, <4>1, <4>2, LostReacts DEF Settled
      <4>4. d.out \in Seq(R) BY <4>3, SeqMonotonic
      <4> QED BY <4>1, <4>3, <4>4
    <3> QED BY <1>2, <3>1, <3>2 DEF Goes
  <2>2. x \o d.out \in Seq(R) BY <1>0, <2>1, ConcatProperties
  <2> QED BY <1>0, <2>1, <2>2 DEF Stage, DeclinedStage
<1> QED BY <1>1, <1>2

\* A step of either side takes the call from one stage to the same or to another.
LEMMA StageStep ==
  ASSUME NEW c, NEW k, NEW x \in Seq(Msg), NEW y \in Seq(Msg), Settled(c), Settled(k),
         ~c.incoming, Stage(c, k, x, y), NEW d \in Endpoint, NEW t
  PROVE  /\ Goes(d, c, x, t) => Stage(d, k, t, y \o d.out)
         /\ Goes(d, k, y, t) => Stage(c, d, x \o d.out, t)
<1>1. CASE DeafStage(c)
  <2>1. ASSUME Goes(d, c, x, t) PROVE DeafStage(d)
    <3>1. CASE Acts(d, c) BY <1>1, <3>1, LostActs DEF Settled, DeafStage
    <3>2. CASE x # <<>> /\ Reacts(d, c, Head(x))
      <4>1. Head(x) \in Msg BY <3>2
      <4> QED BY <1>1, <3>2, <4>1, LostReacts DEF Settled, DeafStage
    <3> QED BY <2>1, <3>1, <3>2 DEF Goes
  <2> QED BY <1>1, <2>1 DEF Stage
<1>2. CASE ConnectedStage(c, k, x, y)
  <2>1. Side(c, k, x, y) /\ Side(k, c, y, x) BY <1>2 DEF ConnectedStage
  <2>2. ASSUME Goes(d, c, x, t) PROVE ConnectedStage(d, k, t, y \o d.out)
    BY <2>1, <2>2, SidesStep DEF ConnectedStage
  <2>3. ASSUME Goes(d, k, y, t) PROVE ConnectedStage(c, d, x \o d.out, t)
    BY <2>1, <2>3, SidesStep DEF ConnectedStage
  <2> QED BY <2>2, <2>3 DEF Stage
<1> QED BY <1>1, <1>2, FreshStep, CallingStep, RingingStep, AnsweringStep, DeclinedStep DEF Stage

\* The loss of an INVITE ends the call of a caller that nobody has heard of; after
\* that it can only be one sent to an endpoint that is closing its dialog.
LEMMA StageTimeout ==
  ASSUME NEW c, NEW k, NEW x \in Seq(Msg), NEW y \in Seq(Msg), Settled(c), Settled(k),
         Stage(c, k, x, y)
  PROVE  /\ /\ c.client = "calling" /\ c.dialog = "None"
            /\ y # <<>> /\ Head(y).method = "INVITE" /\ Head(y).code = 0
            => Stage(ProcessTimeout(c), k, x, Tail(y))
         /\ /\ k.client = "calling" /\ k.dialog = "None"
            /\ x # <<>> /\ Head(x).method = "INVITE" /\ Head(x).code = 0
            => Stage(c, ProcessTimeout(k), Tail(x), y)
<1>0. \A m \in Provisional \cup Refusal \cup CancelAnswer \cup Cancels \cup {Answered} \cup ByeAnswer :
        ~(m.method = "INVITE" /\ m.code = 0)
  BY DEF Provisional, Refusal, CancelAnswer, Cancels, Answered, Response, ByeAnswer
<1>1. CASE FreshStage(c, k, x, y) BY <1>1 DEF FreshStage
<1>2. CASE CallingStage(c, k, x, y)
  <2>1. c.client = "calling" /\ c.dialog = "None" => Starting(ProcessTimeout(c))
    BY <1>2, TimeoutFacts DEF Settled, CallingStage
  <2>2. Tail(y) = <<>> BY <1>2 DEF CallingStage
  <2> QED BY <1>2, <2>1, <2>2 DEF CallingStage, FreshStage, Stage
<1>3. CASE RingingStage(c, k, x, y) \/ DeclinedStage(c, k, x, y)
  <2>1. y \in Seq(Cancels) BY <1>3 DEF RingingStage, DeclinedStage
  <2>2. x \in Seq(Provisional \cup Refusal \cup CancelAnswer)
    BY <1>3, SeqMonotonic DEF RingingStage, DeclinedStage
  <2>3. y # <<>> => Head(y) \in Cancels BY <2>1
  <2>4. x # <<>> => Head(x) \in Provisional \cup Refusal \cup CancelAnswer BY <2>2
  <2> QED BY <1>0, <2>3, <2>4
<1>4. CASE AnsweringStage(c, k, x, y)
  <2>1. y \in Seq(Cancels) BY <1>4 DEF AnsweringStage
  <2>2. y # <<>> => Head(y) \in Cancels BY <2>1
  <2>3. Holds(x, Provisional, {Answered}, Plain) BY <1>4 DEF AnsweringStage
  <2>4. Head(x) \in Provisional \/ Head(x) = Answered BY <2>3, BeforeAnswer
  <2> QED BY <1>0, <2>2, <2>4
<1>5. CASE DeafStage(c)
  <2>1. c.client = "calling" /\ c.dialog = "None" => DeafStage(ProcessTimeout(c))
    BY <1>5, TimeoutFacts DEF Settled, DeafStage
  <2> QED BY <1>5, <2>1 DEF Stage
<1>6. CASE ConnectedStage(c, k, x, y)
  <2>1. ASSUME NEW e, NEW p, NEW v, NEW w, Settled(e), Side(e, p, v, w), Side(p, e, w, v),
               e.client = "calling", e.dialog = "None",
               w # <<>>, Head(w).method = "INVITE", Head(w).code = 0
        PROVE  Side(ProcessTimeout(e), p, v, Tail(w)) /\ Side(p, ProcessTimeout(e), Tail(w), v)
    <3>1. ~Open(e) /\ Lost(e) BY <2>1 DEF Side, Open
    <3>2. Lost(ProcessTimeout(e)) BY <2>1, <3>1, TimeoutFacts DEF Settled
    <3>3. CASE Lost(p) BY <3>2, <3>3 DEF Side
    <3>4. CASE /\ Open(p) /\ (p.bye = 0 => v \in Seq(NoBye))
               /\ p.bye > 0 /\ Holds(w, Plain, ByeAnswer, Msg)
      <4>1. Holds(Tail(w), Plain, ByeAnswer, Msg) BY <1>0, <2>1, <3>4, Kinds, HoldsTail
      <4> QED BY <3>2, <3>4, <4>1 DEF Side
    <3> QED BY <2>1, <3>1, <3>3, <3>4 DEF Side
  <2> QED BY <1>6, <2>1 DEF ConnectedStage, Stage
<1> QED BY <1>1, <1>2, <1>3, <1>4, <1>5, <1>6 DEF Stage

\* Messages that have left are on their way: the stage is the same.
LEMMA StageRest ==
  ASSUME NEW c, NEW k, NEW x, NEW y, NEW d \in Endpoint
  PROVE  /\ Stage(d, k, x, y) => Stage(Rest(d), k, x, y)
         /\ Stage(c, d, x, y) => Stage(c, Rest(d), x, y)
<1> DEFINE r == Rest(d)
<1>1. /\ Lost(r) <=> Lost(d)
      /\ Open(r) <=> Open(d)
      /\ Pending(r) <=> Pending(d)
      /\ Starting(r) <=> Starting(d)
      /\ Dialled(r) <=> Dialled(d)
      /\ Unknown(r) <=> Unknown(d)
      /\ r.state = d.state /\ r.info = d.info
      /\ r.bye = d.bye /\ r.client = d.client /\ r.remote = d.remote
      /\ r.lastRequest = d.lastRequest
  BY RestSame
<1> HIDE DEF r
<1>2. Stage(d, k, x, y) => Stage(r, k, x, y)
  BY <1>1 DEF Stage, FreshStage, CallingStage, RingingStage, AnsweringStage, DeclinedStage,
              DeafStage, ConnectedStage, Side
<1>3. Stage(c, d, x, y) => Stage(c, r, x, y)
  BY <1>1 DEF Stage, FreshStage, CallingStage, RingingStage, AnsweringStage, DeclinedStage,
              DeafStage, ConnectedStage, Side
<1> QED BY <1>2, <1>3 DEF r

\* The answer that first reaches a caller in set-up answers its offer of a stream
\* in both directions with one.
LEMMA FirstAnswer ==
  ASSUME NEW c, NEW k, NEW x \in Seq(Msg), NEW y, Settled(c), ~c.incoming, Stage(c, k, x, y),
         x # <<>>, Head(x).method = "INVITE", Head(x).code = 200,
         c.state \in {"OutgoingProgress", "OutgoingRinging"}
  PROVE  c.offer = "sendrecv" /\ Head(x).dir = "sendrecv"
<1>1. c.state \notin OverState /\ c.state \in EarlyState BY DEF OverState, EarlyState
<1>2. ~Lost(c) /\ ~Open(c) /\ ~Starting(c)
  BY <1>1 DEF Lost, Open, Starting, OverState
<1>3. \A m \in Provisional \cup Refusal \cup CancelAnswer : ~(m.method = "INVITE" /\ m.code = 200)
  BY DEF Provisional, Refusal, CancelAnswer
<1>4. ~RingingStage(c, k, x, y) /\ ~DeclinedStage(c, k, x, y)
  <2>1. x \in Seq(Provisional) => Head(x) \in Provisional OBVIOUS
  <2>2. x \in Seq(Provisional \cup Refusal \cup CancelAnswer)
          => Head(x) \in Provisional \cup Refusal \cup CancelAnswer
    OBVIOUS
  <2> QED BY <1>3, <2>1, <2>2 DEF RingingStage, DeclinedStage
<1>5. AnsweringStage(c, k, x, y)
  BY <1>2, <1>4 DEF Stage, FreshStage, CallingStage, DeafStage, ConnectedStage, Side
<1>6. Holds(x, Provisional, {Answered}, Plain) /\ Pending(c) BY <1>5 DEF AnsweringStage
<1>7. Head(x) \in Provisional \/ Head(x) = Answered BY <1>6, BeforeAnswer, Zenon
<1>8. Head(x) \notin Provisional BY DEF Provisional
<1> QED BY <1>1, <1>6, <1>7, <1>8 DEF Pending, Answered, Response

(***************************************************************************)
(* The invariant of a call.                                                *)
(***************************************************************************)

\* Between two handlers each side is grounded in its own role.
Seated == \A u \in UA : Grounded(ua[u]) /\ ua[u].out = <<>> /\ ua[u].incoming = (u = Callee)

\* The call is in one of its stages.
Staged == Stage(ua[Caller], ua[Callee], net[Caller], net[Callee])

\* The inductive invariant of module Call.
CallInv == TypeOK /\ Inv /\ Seated /\ Staged

\* What the invariant says of either side.
LEMMA CallInvFacts ==
  ASSUME CallInv
  PROVE  /\ \A u \in UA : Settled(ua[u]) /\ net[u] \in Seq(Msg)
         /\ ~ua[Caller].incoming /\ ua[Callee].incoming
         /\ Caller \in UA /\ Callee \in UA /\ Peer(Caller) = Callee /\ Peer(Callee) = Caller
         /\ Stage(ua[Caller], ua[Callee], net[Caller], net[Callee])
<1>1. Caller \in UA /\ Callee \in UA /\ Peer(Caller) = Callee /\ Peer(Callee) = Caller
  BY EndpointAssumption DEF UA, Peer
<1>2. \A u \in UA : Settled(ua[u]) /\ net[u] \in Seq(Msg)
  BY DEF CallInv, TypeOK, Inv, Seated, Settled
<1>3. ~ua[Caller].incoming /\ ua[Callee].incoming
  BY <1>1, EndpointAssumption DEF CallInv, Seated
<1> QED BY <1>1, <1>2, <1>3 DEF CallInv, Staged

\* Every turn of an endpoint keeps the stages and moves its session on.
LEMMA TurnStage ==
  ASSUME CallInv, NEW u \in UA, NEW d, Turn(u, d)
  PROVE  Course(d, ua[u]) /\ Staged'
<1> DEFINE c == ua[Caller]
           k == ua[Callee]
           x == net[Caller]
           y == net[Callee]
           t == net'[u]
<1>1. /\ Settled(c) /\ Settled(k) /\ x \in Seq(Msg) /\ y \in Seq(Msg)
      /\ ~c.incoming /\ k.incoming /\ Stage(c, k, x, y)
      /\ Peer(Caller) = Callee /\ Peer(Callee) = Caller
  BY CallInvFacts
<1>2. /\ d \in Endpoint /\ ua'[u] = Rest(d) /\ ua'[Peer(u)] = ua[Peer(u)]
      /\ net'[Peer(u)] = net[Peer(u)] \o d.out
      /\ Goes(d, ua[u], net[u], t)
  BY DEF Turn, Goes
<1>3. Settled(ua[u]) /\ net[u] \in Seq(Msg) BY CallInvFacts
<1>4. CASE u = Caller
  <2> HIDE DEF c, k, x, y, t
  <2>1. Goes(d, c, x, t) BY <1>2, <1>4 DEF c, x
  <2>2. Stage(d, k, t, y \o d.out) BY <1>1, <1>2, <2>1, StageStep
  <2>3. Stage(Rest(d), k, t, y \o d.out) BY <1>2, <2>2, StageRest
  <2>4. Staged' BY <1>1, <1>2, <1>4, <2>3 DEF Staged, k, y, t
  <2>5. CASE Acts(d, c) BY <1>1, <1>4, <2>4, <2>5, ActsCourse DEF Settled, c
  <2>6. CASE x # <<>> /\ Reacts(d, c, Head(x))
    <3>1. Head(x) \in Msg BY <1>1, <2>6
    <3>2. Head(x).method = "INVITE" /\ Head(x).code = 200
            /\ c.state \in {"OutgoingProgress", "OutgoingRinging"} =>
              c.offer = "sendrecv" /\ Head(x).dir = "sendrecv"
      BY <1>1, <2>6, FirstAnswer
    <3>3. Course(d, c) BY <1>1, <2>6, <3>1, <3>2, ReactsCourse DEF Settled
    <3> QED BY <1>4, <2>4, <3>3 DEF c
  <2> QED BY <2>1, <2>5, <2>6 DEF Goes
<1>5. CASE u = Callee
  <2> HIDE DEF c, k, x, y, t
  <2>1. Goes(d, k, y, t) BY <1>2, <1>5 DEF k, y
  <2>2. Stage(c, d, x \o d.out, t) BY <1>1, <1>2, <2>1, StageStep
  <2>3. Stage(c, Rest(d), x \o d.out, t) BY <1>2, <2>2, StageRest
  <2>4. Staged' BY <1>1, <1>2, <1>5, <2>3 DEF Staged, c, x, t
  <2>5. CASE Acts(d, k) BY <1>1, <1>5, <2>4, <2>5, ActsCourse DEF Settled, k
  <2>6. CASE y # <<>> /\ Reacts(d, k, Head(y))
    <3>1. Head(y) \in Msg BY <1>1, <2>6
    <3>2. k.state \notin {"OutgoingProgress", "OutgoingRinging"}
      BY <1>1 DEF Settled, Grounded
    <3>3. Course(d, k) BY <1>1, <2>6, <3>1, <3>2, ReactsCourse DEF Settled
    <3> QED BY <1>5, <2>4, <3>3 DEF k
  <2> QED BY <2>1, <2>5, <2>6 DEF Goes
<1> QED BY <1>4, <1>5 DEF UA

\* A step is one of a single endpoint; it keeps the stages and moves that session
\* on.
LEMMA NextStage ==
  ASSUME CallInv, Next
  PROVE  \E u \in UA : /\ ua'[Peer(u)] = ua[Peer(u)] /\ Course(ua'[u], ua[u])
                       /\ ua'[u].out = <<>> /\ Staged'
<1>1. PICK u \in UA : User(u) \/ Internal(u) \/ InviteTimeout(u) BY DEF Next
<1>2. Settled(ua[u]) /\ TypeOK /\ Inv BY CallInvFacts DEF CallInv
<1>3. CASE User(u) \/ Internal(u)
  <2>1. PICK d : Turn(u, d) BY <1>2, <1>3, StepTurn DEF Settled
  <2>2. Course(d, ua[u]) /\ Staged' BY <2>1, TurnStage
  <2>3. d \in Endpoint /\ ua'[u] = Rest(d) /\ ua'[Peer(u)] = ua[Peer(u)] BY <2>1 DEF Turn
  <2>4. Course(Rest(d), ua[u]) /\ Rest(d).out = <<>> BY <2>2, <2>3, RestSame DEF Course
  <2> QED BY <2>2, <2>3, <2>4
<1>4. CASE InviteTimeout(u)
  <2> DEFINE e == ua[u]
             d == ProcessTimeout(e)
             c == ua[Caller]
             k == ua[Callee]
             x == net[Caller]
             y == net[Callee]
  <2>1. /\ e.client = "calling" /\ e.dialog = "None"
        /\ net[Peer(u)] # <<>> /\ Head(net[Peer(u)]).method = "INVITE"
        /\ Head(net[Peer(u)]).code = 0
    BY <1>4 DEF InviteTimeout, Arrives
  <2>2. Peer(u) \in UA /\ Peer(u) # u BY Peers
  <2>3. /\ ua'[u] = Rest(d) /\ ua'[Peer(u)] = ua[Peer(u)]
        /\ net'[u] = net[u] /\ net'[Peer(u)] = Tail(net[Peer(u)])
    BY <1>2, <1>4, <2>2 DEF InviteTimeout, TypeOK, Rest
  <2>4. d \in Endpoint /\ Course(d, e) BY <1>2, <2>1, TimeoutFacts DEF Settled
  <2>5. /\ Settled(c) /\ Settled(k) /\ x \in Seq(Msg) /\ y \in Seq(Msg)
        /\ Stage(c, k, x, y) /\ Peer(Caller) = Callee /\ Peer(Callee) = Caller
    BY CallInvFacts
  <2>6. Staged'
    <3>1. CASE u = Caller
      <4>1. Stage(d, k, x, Tail(y)) BY <2>1, <2>5, <3>1, StageTimeout
      <4>2. Stage(Rest(d), k, x, Tail(y)) BY <2>4, <4>1, StageRest
      <4> QED BY <2>3, <2>5, <3>1, <4>2 DEF Staged
    <3>2. CASE u = Callee
      <4>1. Stage(c, d, Tail(x), y) BY <2>1, <2>5, <3>2, StageTimeout
      <4>2. Stage(c, Rest(d), Tail(x), y) BY <2>4, <4>1, StageRest
      <4> QED BY <2>3, <2>5, <3>2, <4>2 DEF Staged
    <3> QED BY <3>1, <3>2 DEF UA
  <2>7. Course(Rest(d), e) /\ Rest(d).out = <<>> BY <2>4, RestSame DEF Course
  <2> QED BY <2>3, <2>6, <2>7
<1> QED BY <1>1, <1>3, <1>4

\* The invariant is inductive.
LEMMA NextCallInv == CallInv /\ [Next]_vars => CallInv'
<1>1. ASSUME CallInv, Next PROVE CallInv'
  <2>1. TypeOK' /\ Inv' BY <1>1, NextType, NextInv DEF CallInv
  <2>2. PICK u \in UA : /\ ua'[Peer(u)] = ua[Peer(u)] /\ Course(ua'[u], ua[u])
                        /\ ua'[u].out = <<>> /\ Staged'
    BY <1>1, NextStage
  <2>3. UA = {u, Peer(u)} BY Peers
  <2>4. Seated' BY <1>1, <2>2, <2>3 DEF CallInv, Seated, Course
  <2> QED BY <2>1, <2>2, <2>4 DEF CallInv
<1>2. ASSUME CallInv, UNCHANGED vars PROVE CallInv'
  <2>1. TypeOK' /\ Inv' BY <1>2, NextType, NextInv DEF CallInv
  <2>2. Seated' /\ Staged' BY <1>2 DEF CallInv, Seated, Staged, vars
  <2> QED BY <2>1, <2>2 DEF CallInv
<1> QED BY <1>1, <1>2

\* It holds of two endpoints that nothing has happened to.
LEMMA InitCallInv == Init => CallInv
<1> SUFFICES ASSUME Init PROVE CallInv OBVIOUS
<1>1. TypeOK /\ Inv BY InitType, InitInv
<1>2. \A u \in UA : ua[u] = InitEndpoint(u = Callee) /\ net[u] = <<>> BY DEF Init
<1>3. ASSUME NEW b
      PROVE  LET e == InitEndpoint(b)
             IN  /\ e.state = "Idle" /\ ~e.attached /\ e.out = <<>> /\ e.incoming = b
                 /\ e.client = "none" /\ e.dialog = "None" /\ e.bye = 0 /\ e.info = "none"
                 /\ ~e.releaseLater /\ e.op = "Early"
  BY DEF InitEndpoint
<1>4. Caller \in UA /\ Callee \in UA BY DEF UA
<1>5. Starting(ua[Caller]) /\ Unknown(ua[Callee])
  <2>1. ua[Caller] = InitEndpoint(Caller = Callee) /\ ua[Callee] = InitEndpoint(Callee = Callee)
    BY <1>2, <1>4
  <2>2. ua[Callee].incoming BY <1>3, <2>1, Zenon
  <2> QED BY <1>3, <2>1, <2>2 DEF Starting, Unknown
<1>7. Seated
  <2> SUFFICES ASSUME NEW u \in UA
               PROVE  Grounded(ua[u]) /\ ua[u].out = <<>> /\ ua[u].incoming = (u = Callee)
    BY DEF Seated
  <2> DEFINE b == u = Callee
  <2>1. ua[u] = InitEndpoint(b) BY <1>2
  <2> HIDE DEF b
  <2>2. /\ ua[u].state = "Idle" /\ ~ua[u].attached /\ ua[u].out = <<>>
        /\ ua[u].incoming = b
    BY <1>3, <2>1
  <2>3. Grounded(ua[u]) BY <2>2 DEF Grounded, EstablishedState
  <2>4. ua[u].incoming = (u = Callee) BY <2>2, Zenon DEF b
  <2> QED BY <2>2, <2>3, <2>4
<1>6. Staged BY <1>2, <1>4, <1>5 DEF Staged, Stage, FreshStage
<1> QED BY <1>1, <1>6, <1>7 DEF CallInv

\* Whatever crosses on the way, a call is in one of its stages: the messages under
\* way tell which part of the set-up, of the dialog or of its end the other side
\* has not heard of yet.
THEOREM CallIsStaged == Spec => []CallInv
BY InitCallInv, NextCallInv, PTL DEF Spec

\* No half-open call, for any number of requests of either application: once
\* everything has been delivered both sides have the call or none has.
THEOREM BothOrNone == Spec => []NoHalfOpenCall
<1>1. ASSUME CallInv PROVE NoHalfOpenCall
  <2> DEFINE c == ua[Caller]
             k == ua[Callee]
             x == net[Caller]
             y == net[Callee]
  <2>1. /\ Settled(c) /\ Settled(k) /\ Stage(c, k, x, y) /\ UA = {Caller, Callee}
        /\ Caller \in UA /\ Callee \in UA
    BY <1>1, CallInvFacts DEF UA
  <2>2. SUFFICES ASSUME Quiet PROVE (Up(c) /\ Up(k)) \/ (Down(c) /\ Down(k))
    BY <2>1 DEF NoHalfOpenCall
  <2>3. /\ x = <<>> /\ y = <<>> /\ c.info = "none" /\ ~RequestPending(c) /\ ~RequestPending(k)
    BY <2>1, <2>2, Zenon DEF Quiet
  <2>4. c.client = "none" /\ ~(c.bye > 0) /\ ~(k.bye > 0) BY <2>3 DEF RequestPending
  <2> HIDE DEF c, k, x, y
  <2>5. ASSUME NEW e, Settled(e), Lost(e) PROVE Down(e)
    BY <2>5, LostFacts DEF Settled, Down
  <2>6. ASSUME NEW e, Settled(e), Open(e), ~(e.bye > 0) PROVE Up(e)
    BY <2>6, OpenFacts DEF Settled, Up, Open
  <2>7. CASE FreshStage(c, k, x, y)
    <3>1. Down(c) BY <2>7 DEF FreshStage, Starting, Down, EstablishedState
    <3>2. Down(k)
      BY <2>1, <2>7 DEF FreshStage, Settled, Unknown, EndpointInv, FreshInv, Down, EstablishedState
    <3> QED BY <3>1, <3>2
  <2>8. ~CallingStage(c, k, x, y) BY <2>3 DEF CallingStage
  <2>9. ~Pending(c) BY <2>4 DEF Pending
  <2>10. ~DeafStage(c) BY <2>3 DEF DeafStage
  <2>11. CASE ConnectedStage(c, k, x, y)
    <3>1. (Lost(c) /\ Lost(k)) \/ (Open(c) /\ Open(k))
      BY <2>4, <2>11 DEF ConnectedStage, Side
    <3> QED BY <2>1, <2>4, <2>5, <2>6, <3>1
  <2> QED BY <2>1, <2>7, <2>8, <2>9, <2>10, <2>11
          DEF Stage, RingingStage, AnsweringStage, DeclinedStage
<1> QED BY <1>1, CallIsStaged, PTL

\* A caller that gave up leaves no callee ringing, unless an INFO it queued before
\* the call was established keeps it from building the CANCEL.
THEOREM NobodyRingsOn == Spec => [](ua[Caller].info = "none" => NoOrphanRinging)
<1>1. ASSUME CallInv PROVE ua[Caller].info = "none" => NoOrphanRinging
  <2> DEFINE c == ua[Caller]
             k == ua[Callee]
             x == net[Caller]
             y == net[Callee]
  <2>1. Settled(c) /\ Settled(k) /\ Stage(c, k, x, y) BY <1>1, CallInvFacts
  <2>2. SUFFICES ASSUME c.info = "none", c.state \in OverState, k.state = "IncomingReceived"
                 PROVE  \/ \E i \in DOMAIN y : y[i].method = "CANCEL"
                        \/ \E i \in DOMAIN x : x[i].code \in {100, 180}
    BY DEF NoOrphanRinging
  <2> HIDE DEF c, k, x, y
  <2>3. ~Unknown(k) BY <2>1, <2>2 DEF Settled, Unknown, EndpointInv, FreshInv
  <2>4. ~Lost(k) /\ ~Open(k) BY <2>2 DEF Lost, Open, OverState, EarlyState
  <2>5. RingingStage(c, k, x, y)
    BY <2>1, <2>2, <2>3, <2>4 DEF Stage, FreshStage, CallingStage, AnsweringStage, DeclinedStage,
                                  DeafStage, ConnectedStage, Side
  <2>6. /\ x \in Seq(Provisional) /\ y \in Seq(Cancels) /\ Pending(c)
        /\ c.lastRequest = "CANCEL" => y # <<>>
        /\ c.client = "calling" => x # <<>>
    BY <2>2, <2>5 DEF RingingStage
  <2>7. c.lastRequest = "CANCEL" \/ c.client = "calling" BY <2>2, <2>6 DEF Pending
  <2>8. CASE y # <<>>
    <3>1. 1 \in DOMAIN y /\ y[1] \in Cancels BY <2>6, <2>8
    <3> QED BY <3>1 DEF Cancels
  <2>9. CASE x # <<>>
    <3>1. 1 \in DOMAIN x /\ x[1] \in Provisional BY <2>6, <2>9
    <3> QED BY <3>1 DEF Provisional
  <2> QED BY <2>6, <2>7, <2>8, <2>9
<1> QED BY <1>1, CallIsStaged, PTL

(***************************************************************************)
(* The life of a call.                                                     *)
(***************************************************************************)

\* A session that moves on goes through the phases of a call in their order.
LEMMA PhasesInOrder ==
  ASSUME NEW s \in CallState, NEW t \in CallState, Onward(s, t), PhaseOf(t) # PhaseOf(s)
  PROVE  \/ PhaseOf(s) = "Idle" /\ PhaseOf(t) = "Setup"
         \/ PhaseOf(s) = "Setup" /\ PhaseOf(t) = "Established" /\ t \notin EarlyState \cup OverState
         \/ PhaseOf(s) \in {"Setup", "Established"} /\ PhaseOf(t) = "Over"
         \/ PhaseOf(s) \in {"Setup", "Over"} /\ PhaseOf(t) = "Released"
<1>1. /\ s = "Idle" => PhaseOf(s) = "Idle"
      /\ s \in EarlyState \ {"Idle"} => PhaseOf(s) = "Setup"
      /\ s \in {"End", "Error"} => PhaseOf(s) = "Over"
      /\ s = "Released" => PhaseOf(s) = "Released"
      /\ s \notin EarlyState \cup OverState => PhaseOf(s) = "Established"
  BY DEF PhaseOf, EarlyState, OverState
<1>2. /\ t = "Idle" => PhaseOf(t) = "Idle"
      /\ t \in EarlyState \ {"Idle"} => PhaseOf(t) = "Setup"
      /\ t \in {"End", "Error"} => PhaseOf(t) = "Over"
      /\ t = "Released" => PhaseOf(t) = "Released"
      /\ t \notin EarlyState \cup OverState => PhaseOf(t) = "Established"
  BY DEF PhaseOf, EarlyState, OverState
<1>3. OverState = {"End", "Error", "Released"} /\ "Idle" \in EarlyState
  BY DEF OverState, EarlyState
<1> HIDE DEF PhaseOf
<1> QED BY <1>1, <1>2, <1>3 DEF Onward

\* The phase of a state, read backwards.
LEMMA PhaseIdle ==
  ASSUME NEW s
  PROVE  /\ PhaseOf(s) = "Idle" <=> s = "Idle"
         /\ s \notin EarlyState => PhaseOf(s) \notin {"Idle", "Setup"}
BY DEF PhaseOf, EarlyState

\* While the caller has not started, nobody is called; once its call is established
\* the callee has answered.
LEMMA StagePhases ==
  ASSUME NEW c, NEW k, NEW x, NEW y, Settled(c), Settled(k), ~c.incoming, Stage(c, k, x, y)
  PROVE  /\ c.state = "Idle" => k.state = "Idle"
         /\ c.state \notin EarlyState \cup OverState => k.state \notin EarlyState
<1>1. Lost(c) => c.state \in OverState BY DEF Lost
<1>2. Unknown(k) => k.state = "Idle" BY DEF Settled, Unknown, EndpointInv, FreshInv
<1>3. Pending(c) => c.state \in EarlyState \cup OverState /\ c.state # "Idle"
  BY DEF Pending, EarlyState, OverState
<1>4. Starting(c) => c.state \in EarlyState \cup OverState BY DEF Starting, EarlyState, OverState
<1>5. Open(c) => c.state # "Idle" /\ (c.bye > 0 => c.state \in OverState)
  BY OpenFacts DEF Settled, Open, EarlyState
<1>6. Open(k) => k.state \notin EarlyState BY DEF Open
<1>7. "Idle" \notin OverState BY DEF OverState
<1> QED BY <1>1, <1>2, <1>3, <1>4, <1>5, <1>6, <1>7
        DEF Stage, FreshStage, CallingStage, Dialled, RingingStage, AnsweringStage, DeclinedStage,
            DeafStage, ConnectedStage, Side

\* A step of a call is a step of its life cycle, or none.
LEMMA StepInOrder ==
  ASSUME CallInv, CallInv', Next
  PROVE  [Lifecycle!Next]_([u \in UA |-> PhaseOf(ua[u].state)])
<1> DEFINE ph == [u \in UA |-> PhaseOf(ua[u].state)]
<1>1. PICK u \in UA : /\ ua'[Peer(u)] = ua[Peer(u)] /\ Course(ua'[u], ua[u])
                      /\ ua'[u].out = <<>> /\ Staged'
  BY NextStage
<1>2. UA = {u, Peer(u)} /\ Peer(u) # u BY Peers
<1> DEFINE s == ua[u].state
           t == ua'[u].state
<1>3. s \in CallState /\ t \in CallState /\ Onward(s, t)
  BY <1>1, FieldTypes DEF CallInv, TypeOK, Course
<1>4. ph' = [ph EXCEPT ![u] = PhaseOf(t)] /\ ph[u] = PhaseOf(s) BY <1>1, <1>2
<1>5. CASE PhaseOf(t) = PhaseOf(s)
  <2>1. ph' = ph BY <1>4, <1>5
  <2> QED BY <2>1
<1>6. CASE PhaseOf(t) # PhaseOf(s)
  <2>1. \/ PhaseOf(s) = "Idle" /\ PhaseOf(t) = "Setup"
        \/ PhaseOf(s) = "Setup" /\ PhaseOf(t) = "Established" /\ t \notin EarlyState \cup OverState
        \/ PhaseOf(s) \in {"Setup", "Established"} /\ PhaseOf(t) = "Over"
        \/ PhaseOf(s) \in {"Setup", "Over"} /\ PhaseOf(t) = "Released"
    BY <1>3, <1>6, PhasesInOrder
  <2>2. /\ Caller \in UA /\ Callee \in UA /\ Peer(Caller) = Callee /\ Peer(Callee) = Caller
        /\ ph[Caller] = PhaseOf(ua[Caller].state) /\ ph[Callee] = PhaseOf(ua[Callee].state)
    BY CallInvFacts
  <2>3. /\ ua'[Caller].state = "Idle" => ua'[Callee].state = "Idle"
        /\ ua'[Caller].state \notin EarlyState \cup OverState => ua'[Callee].state \notin EarlyState
    <3>1. /\ \A v \in UA : Settled(ua'[v])
          /\ ~ua'[Caller].incoming /\ Stage(ua'[Caller], ua'[Callee], net'[Caller], net'[Callee])
      <4>1. \A v \in UA : Settled(ua[v])' BY DEF CallInv, TypeOK, Inv, Seated, Settled
      <4>2. ~ua'[Caller].incoming BY <2>2, EndpointAssumption DEF CallInv, Seated
      <4> QED BY <1>1, <4>1, <4>2 DEF Settled, Staged
    <3> QED BY <2>2, <3>1, StagePhases
  <2> HIDE DEF ph, s, t
  <2>4. CASE PhaseOf(s) = "Idle" /\ PhaseOf(t) = "Setup"
    <3>1. u = Callee => ph[Caller] # "Idle"
      <4>1. SUFFICES ASSUME u = Callee, ph[Caller] = "Idle" PROVE FALSE OBVIOUS
      <4>2. ua[Caller].state = "Idle" /\ ua'[Caller] = ua[Caller] BY <1>1, <2>2, <4>1, PhaseIdle
      <4>3. t = "Idle" BY <2>3, <4>1, <4>2 DEF t
      <4> QED BY <2>4, <4>3, PhaseIdle
    <3> QED BY <1>4, <2>4, <3>1 DEF Lifecycle!Next, Lifecycle!Start, Lifecycle!Move, Lifecycle!UA, ph, UA
  <2>5. CASE PhaseOf(s) = "Setup" /\ PhaseOf(t) = "Established" /\ t \notin EarlyState \cup OverState
    <3>1. u = Caller => ph[Callee] \notin {"Idle", "Setup"}
      <4>1. SUFFICES ASSUME u = Caller PROVE ph[Callee] \notin {"Idle", "Setup"} OBVIOUS
      <4>2. ua'[Callee] = ua[Callee] /\ ua'[Callee].state \notin EarlyState
        BY <1>1, <2>2, <2>3, <2>5, <4>1 DEF t
      <4> QED BY <2>2, <4>2, PhaseIdle
    <3> QED BY <1>4, <2>5, <3>1 DEF Lifecycle!Next, Lifecycle!Connect, Lifecycle!Move, Lifecycle!UA, ph, UA
  <2>6. CASE PhaseOf(s) \in {"Setup", "Established"} /\ PhaseOf(t) = "Over"
    BY <1>4, <2>6 DEF Lifecycle!Next, Lifecycle!Finish, Lifecycle!Move, Lifecycle!UA, ph, UA
  <2>7. CASE PhaseOf(s) \in {"Setup", "Over"} /\ PhaseOf(t) = "Released"
    BY <1>4, <2>7 DEF Lifecycle!Next, Lifecycle!Release, Lifecycle!Move, Lifecycle!UA, ph, UA
  <2> QED BY <2>1, <2>4, <2>5, <2>6, <2>7
<1> QED BY <1>5, <1>6

\* The sessions of the two sides go through the phases of one call, for any number
\* of requests of either application: module Call implements the safety part of
\* CallLifecycle.
THEOREM CallFollowsLifecycle == Spec => StagesInOrder
<1>1. Init => Lifecycle!Init
  <2> SUFFICES ASSUME Init PROVE Lifecycle!Init OBVIOUS
  <2>1. \A u \in UA : PhaseOf(ua[u].state) = "Idle" BY DEF Init, InitEndpoint, PhaseOf
  <2> QED BY <2>1 DEF Lifecycle!Init, Lifecycle!UA, UA
<1>2. CallInv /\ CallInv' /\ [Next]_vars
        => [Lifecycle!Next]_([u \in UA |-> PhaseOf(ua[u].state)])
  <2>1. CASE Next BY <2>1, StepInOrder
  <2>2. CASE UNCHANGED vars BY <2>2 DEF vars
  <2> QED BY <2>1, <2>2
<1> QED BY <1>1, <1>2, CallIsStaged, PTL DEF Spec, StagesInOrder, Lifecycle!Safety
=============================================================================
