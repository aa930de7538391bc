--------------------------- MODULE CallInvProofs ---------------------------
(***************************************************************************)
(* The inductive invariant of module Call: every handler of CallSession    *)
(* keeps EndpointInv, whatever the peer sends.                             *)
(*                                                                         *)
(* A handler is a chain of helpers.  What a helper does to the fields that *)
(* EndpointInv reads is stated as a relation between the records before    *)
(* and after it; the handlers are then proved from these relations alone.  *)
(***************************************************************************)
EXTENDS CallProofs

\* The session part of the record is the same.
SameSession(d, e) ==
  /\ d \in Endpoint /\ d.incoming = e.incoming
  /\ d.state = e.state /\ d.prevState = e.prevState /\ d.lastStable = e.lastStable
  /\ d.fatal = e.fatal /\ d.attached = e.attached

\* The op part of the record is the same, but for requests and server.
SameOp(d, e) ==
  /\ d \in Endpoint /\ d.incoming = e.incoming
  /\ d.op = e.op /\ d.released = e.released /\ d.releaseLater = e.releaseLater
  /\ d.dialog = e.dialog /\ d.bye = e.bye

SameRequests(d, e) == d.client = e.client /\ d.retry = e.retry

\* What setState(s) writes when the transition is legal.
Moved(d, e, s) ==
  /\ SameOp(d, e) /\ SameRequests(d, e) /\ d.server = e.server
  /\ d.state = s
  /\ d.prevState = e.state \/ (e.state = s /\ d.prevState = e.prevState)
  /\ d.lastStable \in {e.lastStable, "StreamsRunning", "Paused"}
  /\ d.fatal = e.fatal /\ d.attached = e.attached

\* What asking for a re-INVITE writes.
Asked(d, e) == SameSession(d, e) /\ SameOp(d, e) /\ d.server = e.server

\* Nothing EndpointInv reads was written.
Neutral(d, e) ==
  SameSession(d, e) /\ SameOp(d, e) /\ SameRequests(d, e) /\ (e.server => d.server)

\* The types of the fields, for the provers.
LEMMA FieldTypes ==
  ASSUME NEW e \in Endpoint
  PROVE  /\ e.state \in CallState /\ e.prevState \in CallState /\ e.op \in OpState
         /\ e.dialog \in DialogState /\ e.client \in ClientState
         /\ e.retry \in RetryFunc /\ e.bye \in Nat
         /\ e.attached \in BOOLEAN /\ e.released \in BOOLEAN /\ e.releaseLater \in BOOLEAN
         /\ e.incoming \in BOOLEAN /\ e.server \in BOOLEAN /\ e.fatal \in BOOLEAN
BY DEF Endpoint

\* A handler that writes nothing EndpointInv reads keeps the endpoint consistent.
LEMMA NeutralInv ==
  ASSUME NEW e \in Endpoint, NEW d \in Endpoint, EndpointInv(e), Neutral(d, e)
  PROVE  EndpointInv(d)
BY DEF Neutral, SameSession, SameOp, SameRequests, EndpointInv, SessionInv, OverInv,
       RequestInv, FreshInv

\* CallSessionPrivate::setState() moves to s and notes where it came from, when its
\* sanity checks let it, and writes nothing of the op or of the dialog.
LEMMA SetStateMoved ==
  ASSUME NEW e \in Endpoint, NEW s \in CallState \ {"Released"}, ~BadTransition(e.state, s)
  PROVE  Moved(SetState(e, s), e, s)
<1>1. SetState(e, s) \in Endpoint BY SetStateType
<1>2. CASE e.state = s
  <2>1. SetState(e, s) = e BY <1>2 DEF SetState
  <2> QED BY <1>2, <2>1 DEF Moved, SameOp, SameRequests
<1>3. CASE e.state # s
  BY <1>1, <1>3 DEF SetState, Moved, SameOp, SameRequests, Endpoint
<1> QED BY <1>2, <1>3

\* SalCallOp::update() opens an INVITE client transaction at most: session, op and
\* dialog stay as they are.
LEMMA OpUpdateAsked ==
  ASSUME NEW e \in Endpoint
  PROVE  /\ Asked(OpUpdate(e), e)
         /\ OpUpdate(e).retry = e.retry
         /\ OpUpdate(e).client \in {e.client, "calling"}
<1>1. OpUpdate(e) \in Endpoint BY OpUpdateType
<1> QED BY <1>1 DEF OpUpdate, SendInvite, Send, Asked, SameSession, SameOp, Endpoint

\* SalOp::setRetryFunction() and resetRetryFunction() write the retry function only.
LEMMA SetRetryAsked ==
  ASSUME NEW e \in Endpoint, NEW r \in RetryFunc
  PROVE  LET d == [e EXCEPT !.retry = r]
         IN  Asked(d, e) /\ d.retry = r /\ d.client = e.client
<1>1. [e EXCEPT !.retry = r] \in Endpoint BY SetRetryType
<1> QED BY <1>1 DEF Asked, SameSession, SameOp, Endpoint

\* An established session that starts to renegotiate stays consistent, whichever
\* request and retry function it ends up with.
LEMMA TransientInv ==
  ASSUME NEW e \in Endpoint, EndpointInv(e), e.state \in EstablishedState \cup {"Connected"},
         NEW s \in TransientState, NEW d \in Endpoint, Moved(d, e, s),
         NEW r \in Endpoint, Asked(r, d)
  PROVE  EndpointInv(r)
<1> USE FieldTypes DEF EndpointInv, Moved, Asked, SameSession, SameOp, SameRequests
<1>1. e.attached /\ e.state \notin EarlyState \cup OverState /\ r.state \in TransientState
      BY DEF SessionInv, EstablishedState, OverState, EarlyState
<1>2. SessionInv(r)
      BY <1>1 DEF SessionInv, EstablishedState, EarlyState, OverState, TransientState
<1>3. e.dialog = "Confirmed" BY <1>1 DEF OverInv, EarlyState, OverState, DialogState
<1>4. OverInv(r) BY <1>1, <1>3 DEF OverInv, OverState, TransientState
<1>5. RequestInv(r) BY <1>1, <1>3 DEF RequestInv, OverState, TransientState
<1>6. FreshInv(r) BY <1>1, <1>3 DEF FreshInv, TransientState
<1> QED BY <1>2, <1>4, <1>5, <1>6

\* MediaSession::pause() keeps the endpoint consistent.
LEMMA PauseInv ==
  ASSUME NEW e \in Endpoint, EndpointInv(e), CanPause(e)
  PROVE  EndpointInv(Pause(e))
<1> DEFINE d == SetState(e, "Pausing")
           p == OpUpdate(d)
           r == [p EXCEPT !.retry = "pause"]
<1>1. ~BadTransition(e.state, "Pausing") BY DEF BadTransition, CanPause
<1>2. Moved(d, e, "Pausing") BY <1>1, SetStateMoved, NamedStates
<1> HIDE DEF d
<1>3. d \in Endpoint BY <1>2 DEF Moved, SameOp
<1>4. Asked(p, d) BY <1>3, OpUpdateAsked
<1> HIDE DEF p
<1>5. Asked(r, d) BY <1>4, SetRetryAsked, NamedRetries DEF Asked, SameSession, SameOp
<1> HIDE DEF r
<1>6. EndpointInv(r)
      BY <1>2, <1>3, <1>5, TransientInv
         DEF Asked, SameOp, CanPause, EstablishedState, TransientState
<1> QED BY <1>6 DEF Pause, p, d, r

\* MediaSession::update() keeps the endpoint consistent.
LEMMA UpdateInv ==
  ASSUME NEW e \in Endpoint, EndpointInv(e), CanUpdate(e)
  PROVE  EndpointInv(Update(e))
<1> DEFINE s == UpdateState[e.state]
           d == SetState(e, s)
           p == OpUpdate(d)
           r == [p EXCEPT !.retry = "update"]
<1>1. /\ s \in TransientState
      /\ e.state \in EstablishedState \cup {"Connected"}
      BY DEF CanUpdate, UpdateState, TransientState, EstablishedState
<1>2. s \in CallState \ {"Released"} BY <1>1 DEF TransientState, CallState
<1>3. ~BadTransition(e.state, s) BY <1>1 DEF BadTransition, EstablishedState, TransientState
<1> HIDE DEF s
<1>4. Moved(d, e, s) BY <1>2, <1>3, SetStateMoved
<1> HIDE DEF d
<1>5. d \in Endpoint BY <1>4 DEF Moved, SameOp
<1>6. Asked(p, d) BY <1>5, OpUpdateAsked
<1> HIDE DEF p
<1>7. Asked(r, d) BY <1>6, SetRetryAsked, NamedRetries DEF Asked, SameSession, SameOp
<1> HIDE DEF r
<1>8. EndpointInv(r) BY <1>1, <1>4, <1>5, <1>7, TransientInv DEF Asked, SameOp
<1> QED BY <1>8 DEF Update, p, d, r, s

\* The retryable part of MediaSession::resume() keeps the endpoint consistent, also
\* when it finds a request pending and goes back to where it was.
LEMMA RetryResumeInv ==
  ASSUME NEW e \in Endpoint, EndpointInv(e), e.state \in TransientState \cup {"Paused"}
  PROVE  EndpointInv(RetryResume(e))
<1> DEFINE d == SetState(e, "Resuming")
           p == OpUpdate(d)
           b == SetState(d, e.state)
<1>1. ~BadTransition(e.state, "Resuming") BY DEF BadTransition, TransientState
<1>2. Moved(d, e, "Resuming") BY <1>1, SetStateMoved, NamedStates
<1> HIDE DEF d
<1>3. d \in Endpoint BY <1>2 DEF Moved, SameOp
<1>4. Asked(p, d) BY <1>3, OpUpdateAsked
<1> HIDE DEF p
<1>5. EndpointInv(p)
      BY <1>2, <1>3, <1>4, TransientInv
         DEF Asked, SameOp, TransientState, EstablishedState
<1>6. ~BadTransition(d.state, e.state) BY <1>2 DEF Moved, BadTransition, TransientState
<1>7. e.state \in CallState \ {"Released"} BY FieldTypes DEF TransientState
<1>8. Moved(b, d, e.state) BY <1>3, <1>6, <1>7, SetStateMoved
<1> HIDE DEF b
<1>9. EndpointInv(b)
  <2> USE <1>2, <1>8, FieldTypes
      DEF EndpointInv, Moved, SameOp, SameRequests, TransientState
  <2>1. SessionInv(b) BY DEF SessionInv, EstablishedState, EarlyState, OverState
  <2>2. OverInv(b) BY DEF OverInv
  <2>3. RequestInv(b) BY DEF RequestInv
  <2>4. FreshInv(b) BY DEF FreshInv
  <2> QED BY <2>1, <2>2, <2>3, <2>4
<1> QED BY <1>5, <1>9 DEF RetryResume, d, p, b

\* MediaSession::resume() keeps the endpoint consistent.
LEMMA ResumeInv ==
  ASSUME NEW e \in Endpoint, EndpointInv(e)
  PROVE  EndpointInv(Resume(e))
<1>1. CASE e.state = "Pausing"
  <2> DEFINE d == [e EXCEPT !.pendingActions = @ + 1]
  <2>1. d \in Endpoint /\ Resume(e) = d BY <1>1, RenegotiateType DEF Resume
  <2>2. Neutral(d, e)
        BY <2>1 DEF Neutral, SameSession, SameOp, SameRequests, Endpoint
  <2> QED BY <2>1, <2>2, NeutralInv
<1>2. CASE e.state = "Paused"
  <2> DEFINE d == [e EXCEPT !.retry = "resume"]
  <2>1. Asked(d, e) /\ d.retry = "resume" /\ d.client = e.client
        BY SetRetryAsked, NamedRetries
  <2> HIDE DEF d
  <2>2. d \in Endpoint /\ d.state = "Paused" BY <1>2, <2>1 DEF Asked, SameOp, SameSession
  <2>3. EndpointInv(d)
    <3> USE <1>2, <2>1, FieldTypes DEF EndpointInv, Asked, SameSession, SameOp
    <3>1. SessionInv(d) BY DEF SessionInv
    <3>2. OverInv(d) BY DEF OverInv
    <3>3. e.dialog = "Confirmed" BY DEF OverInv, SessionInv, EarlyState, DialogState
    <3>4. RequestInv(d) BY <3>3 DEF RequestInv, OverState
    <3>5. FreshInv(d) BY DEF FreshInv
    <3> QED BY <3>1, <3>2, <3>4, <3>5
  <2>4. EndpointInv(RetryResume(d)) BY <2>2, <2>3, RetryResumeInv
  <2> QED BY <1>2, <2>4 DEF Resume, d
<1>3. CASE e.state \notin {"Pausing", "Paused"}
  BY <1>3 DEF Resume
<1> QED BY <1>1, <1>2, <1>3

\* CallSessionPrivate::executePendingActions() keeps the endpoint consistent.
LEMMA ExecutePendingActionsInv ==
  ASSUME NEW e0 \in Endpoint, EndpointInv(e0)
  PROVE  EndpointInv(ExecutePendingActions(e0))
<1> DEFINE e == [e0 EXCEPT !.execLater = FALSE]
           r == Resume(e)
<1>1. e \in Endpoint BY Zenon DEF Endpoint
<1>2. Neutral(e, e0) BY <1>1 DEF Neutral, SameSession, SameOp, SameRequests, Endpoint
<1> HIDE DEF e
<1>3. EndpointInv(e) BY <1>1, <1>2, NeutralInv
<1>4. r \in Endpoint /\ EndpointInv(r) BY <1>1, <1>3, RenegotiateType, ResumeInv
<1>5. ASSUME NEW x \in Endpoint, EndpointInv(x), NEW n,
             [x EXCEPT !.pendingActions = n] \in Endpoint
      PROVE  EndpointInv([x EXCEPT !.pendingActions = n])
  <2> DEFINE y == [x EXCEPT !.pendingActions = n]
  <2>1. Neutral(y, x) BY <1>5 DEF Neutral, SameSession, SameOp, SameRequests, Endpoint
  <2> QED BY <1>5, <2>1, NeutralInv
<1> HIDE DEF r
<1>6. ExecutePendingActions(e0) \in Endpoint BY ExecutePendingActionsType
<1>7. \/ ExecutePendingActions(e0) \in {e, r}
      \/ ExecutePendingActions(e0) = [e EXCEPT !.pendingActions = 2 * @]
      \/ ExecutePendingActions(e0) = [r EXCEPT !.pendingActions = @ - 1]
      BY DEF ExecutePendingActions, e, r
<1> QED BY <1>1, <1>3, <1>4, <1>5, <1>6, <1>7

\* Dropping the retry function keeps the invariant.
LEMMA DropRetryInv ==
  ASSUME NEW e \in Endpoint, EndpointInv(e)
  PROVE  EndpointInv([e EXCEPT !.retry = "none"])
<1> DEFINE d == [e EXCEPT !.retry = "none"]
<1>1. Asked(d, e) /\ d.retry = "none" /\ d.client = e.client
      BY SetRetryAsked, NamedRetries
<1> HIDE DEF d
<1>2. EndpointInv(d)
      BY <1>1 DEF EndpointInv, Asked, SameSession, SameOp, SessionInv, OverInv,
                  RequestInv, FreshInv
<1> QED BY <1>2 DEF d

\* SalOp::runRetryFunc() keeps the endpoint consistent: no session that is over is
\* brought back by a retry.
LEMMA RunRetryFuncInv ==
  ASSUME NEW e0 \in Endpoint, EndpointInv(e0), e0.timers > 0,
         e0.retry = "none" \/ e0.dialog # "Confirmed" \/ ~RequestPending(e0)
  PROVE  EndpointInv(RunRetryFunc(e0))
<1> DEFINE e == [e0 EXCEPT !.timers = @ - 1]
<1>1. e \in Endpoint
  <2>1. e0.timers - 1 \in Nat BY DEF Endpoint
  <2> QED BY <2>1, Zenon DEF Endpoint
<1>2. Neutral(e, e0) BY <1>1 DEF Neutral, SameSession, SameOp, SameRequests, Endpoint
<1>3. e.retry = e0.retry /\ e.dialog = e0.dialog /\ e.bye = e0.bye
      BY <1>2 DEF Neutral, SameOp, SameRequests
<1> HIDE DEF e
<1>4. EndpointInv(e) BY <1>1, <1>2, NeutralInv
<1>5. ASSUME NEW x \in Endpoint, EndpointInv(x) PROVE EndpointInv([x EXCEPT !.retry = "none"])
      BY <1>5, DropRetryInv
<1>6. CASE e.dialog \in {"None", "TermEarly", "TermConf", "Terminated"} \/ e.retry = "none"
  BY <1>1, <1>4, <1>5, <1>6 DEF RunRetryFunc, e
<1>7. CASE e.dialog \in {"Null", "Early", "Confirmed"} /\ e.retry # "none"
  <2>1. e.dialog = "Confirmed" BY <1>4, <1>7 DEF EndpointInv, RequestInv, OverInv
  <2>2. e.bye = 0 BY <1>1, <1>3, <1>7, <2>1, FieldTypes DEF RequestPending
  <2>3. /\ e.state \notin OverState
        /\ e.state \in TransientState \cup (IF e.retry = "resume" THEN {"Paused"} ELSE {})
        BY <1>4, <1>7, <2>1, <2>2 DEF EndpointInv, RequestInv
  <2>4. CASE e.retry = "resume"
    <3>1. RetryResume(e) \in Endpoint /\ EndpointInv(RetryResume(e))
          BY <1>1, <1>4, <2>3, <2>4, RetryResumeInv, RenegotiateType
    <3> QED BY <1>5, <1>7, <2>4, <3>1 DEF RunRetryFunc, e
  <2>5. CASE e.retry \in {"pause", "update"}
    <3>1. OpUpdate(e) \in Endpoint /\ Asked(OpUpdate(e), e) BY <1>1, OpUpdateType, OpUpdateAsked
    <3>2. Moved(e, e, e.state) BY <1>1 DEF Moved, SameOp, SameRequests
    <3>3. EndpointInv(OpUpdate(e))
          BY <1>1, <1>4, <2>3, <2>5, <3>1, <3>2, TransientInv
             DEF TransientState, EstablishedState
    <3> QED BY <1>5, <1>7, <2>5, <3>1, <3>3 DEF RunRetryFunc, e
  <2> QED BY <1>1, <1>7, <2>4, <2>5, FieldTypes DEF RetryFunc
<1> QED BY <1>1, <1>6, <1>7, FieldTypes DEF DialogState

(***************************************************************************)
(* Starting a call and answering requests.                                 *)
(***************************************************************************)

\* MediaSession::startInvite() keeps the endpoint consistent.
LEMMA StartInviteInv ==
  ASSUME NEW e \in Endpoint, EndpointInv(e), e.state = "OutgoingInit"
  PROVE  EndpointInv(StartInvite(e))
<1> DEFINE p == SendInvite(e, LocalDir(e))
           r == SetState(p, "OutgoingProgress")
<1>1. p \in Endpoint BY SendInviteType, DirType
<1>2. Asked(p, e) /\ p.retry = e.retry
      BY <1>1 DEF SendInvite, Send, Asked, SameSession, SameOp, Endpoint
<1> HIDE DEF p
<1>3. ~BadTransition(p.state, "OutgoingProgress")
      BY <1>2 DEF Asked, SameSession, BadTransition
<1>4. Moved(r, p, "OutgoingProgress") BY <1>1, <1>3, SetStateMoved, NamedStates
<1> HIDE DEF r
<1>5. EndpointInv(r)
  <2> USE <1>2, <1>4, FieldTypes
      DEF EndpointInv, Asked, Moved, SameSession, SameOp, SameRequests
  <2>1. SessionInv(r) BY DEF SessionInv, EstablishedState, OverState
  <2>2. OverInv(r) BY DEF OverInv, SessionInv, EarlyState
  <2>3. RequestInv(r) BY DEF RequestInv, FreshInv, OverState, TransientState
  <2>4. FreshInv(r) BY DEF FreshInv, OverInv
  <2> QED BY <2>1, <2>2, <2>3, <2>4
<1> QED BY <1>5 DEF StartInvite, p, r

\* MediaSession::initiateOutgoing() keeps the endpoint consistent.
LEMMA InitiateOutgoingInv ==
  ASSUME NEW e \in Endpoint, EndpointInv(e), e.state = "Idle", ~e.incoming, ~e.attached
  PROVE  EndpointInv(InitiateOutgoing(e)) /\ InitiateOutgoing(e).state = "OutgoingInit"
<1> DEFINE p == [e EXCEPT !.attached = TRUE]
           r == SetState(p, "OutgoingInit")
<1>1. p \in Endpoint BY Zenon DEF Endpoint
<1>2. /\ SameOp(p, e) /\ SameRequests(p, e) /\ p.server = e.server
      /\ p.state = e.state /\ p.prevState = e.prevState /\ p.lastStable = e.lastStable
      /\ p.fatal = e.fatal /\ p.attached
      BY <1>1 DEF SameOp, SameRequests, Endpoint
<1> HIDE DEF p
<1>3. ~BadTransition(p.state, "OutgoingInit") BY <1>2 DEF BadTransition
<1>4. Moved(r, p, "OutgoingInit") BY <1>1, <1>3, SetStateMoved, NamedStates
<1> HIDE DEF r
<1>5. EndpointInv(r)
  <2> USE <1>2, <1>4, FieldTypes DEF EndpointInv, Moved, SameOp, SameRequests
  <2>1. SessionInv(r) BY DEF SessionInv, EstablishedState, OverState
  <2>2. OverInv(r) BY DEF OverInv, FreshInv, EarlyState
  <2>3. RequestInv(r) BY DEF RequestInv, OverState, TransientState
  <2>4. FreshInv(r) BY DEF FreshInv
  <2> QED BY <2>1, <2>2, <2>3, <2>4
<1> QED BY <1>4, <1>5 DEF InitiateOutgoing, p, r, Moved

\* What a final response does.
Replied(d, e) ==
  /\ SameSession(d, e) /\ SameRequests(d, e)
  /\ d.op = e.op /\ d.released = e.released /\ d.releaseLater = e.releaseLater
  /\ d.bye = e.bye
  /\ d.dialog = e.dialog \/ (e.server /\ e.dialog \in {"Null", "Early"} /\ d.dialog = "TermEarly")

\* A final response writes the server transaction, and ends an early dialog at most.
LEMMA ReplyReplied ==
  ASSUME NEW e \in Endpoint, NEW code \in Code \ {0}, NEW dir \in Dir \cup {"none"}
  PROVE  Replied(Reply(e, code, dir), e)
<1>1. Reply(e, code, dir) \in Endpoint BY ReplyType
<1> QED BY <1>1 DEF Reply, Replied, Send, SameSession, SameRequests, Endpoint

\* SalCallOp::accept() in an established dialog writes the state of the op at most.
LEMMA OpAcceptEstablished ==
  ASSUME NEW e \in Endpoint, e.dialog = "Confirmed"
  PROVE  LET d == OpAccept(e)
         IN  /\ d \in Endpoint /\ SameSession(d, e) /\ SameRequests(d, e)
             /\ d.op = (IF e.server /\ e.op = "Early" THEN "Active" ELSE e.op)
             /\ d.released = e.released /\ d.releaseLater = e.releaseLater
             /\ d.bye = e.bye /\ d.dialog = e.dialog
<1>1. OpAccept(e) \in Endpoint BY OpAcceptType
<1>2. CASE ~e.server BY <1>2, <1>1 DEF OpAccept, SameSession, SameRequests
<1>3. CASE e.server
  <2> DEFINE a == ComputeDirIncoming(LocalDir(e), e.remote)
             r == Reply(e, 200, a)
  <2>1. a \in Dir BY DirType DEF Endpoint
  <2>2. r \in Endpoint BY <2>1, ReplyType DEF Code
  <2>3. /\ SameSession(r, e) /\ SameRequests(r, e)
        /\ r.op = e.op /\ r.released = e.released /\ r.releaseLater = e.releaseLater
        /\ r.bye = e.bye /\ r.dialog = e.dialog
        BY <2>2 DEF Reply, Send, SameSession, SameRequests, Endpoint
  <2> HIDE DEF r, a
  <2>4. OpAccept(e) = [r EXCEPT !.dialog = IF @ \in {"Null", "Early"} THEN "Confirmed" ELSE @,
                                !.op = IF @ = "Early" THEN "Active" ELSE @,
                                !.result = a]
        BY <1>3 DEF OpAccept, r, a
  <2> QED BY <1>1, <1>3, <2>2, <2>3, <2>4 DEF SameSession, SameRequests, Endpoint
<1> QED BY <1>2, <1>3, FieldTypes

\* Answering a re-INVITE and moving to another established state keeps the endpoint
\* consistent, unless a retry would be left behind in a stable state.
LEMMA AcceptUpdateInv ==
  ASSUME NEW e \in Endpoint, EndpointInv(e), e.client = "none", e.dialog = "Confirmed",
         e.state \in EstablishedState \cup {"Connected"},
         NEW s \in EstablishedState \cup {"Connected"},
         e.retry = "none" \/ s \in TransientState \/ (s = "Paused" /\ e.retry = "resume")
  PROVE  EndpointInv(AcceptUpdate(e, s))
<1> DEFINE p == OpAccept(e)
           r == SetState(p, s)
<1>1. /\ p \in Endpoint /\ SameSession(p, e) /\ SameRequests(p, e)
      /\ p.op = (IF e.server /\ e.op = "Early" THEN "Active" ELSE e.op)
      /\ p.released = e.released /\ p.releaseLater = e.releaseLater
      /\ p.bye = e.bye /\ p.dialog = e.dialog
      BY OpAcceptEstablished
<1> HIDE DEF p
<1>2. ~BadTransition(p.state, s)
      BY <1>1 DEF SameSession, BadTransition, EstablishedState
<1>3. s \in CallState \ {"Released"} BY DEF EstablishedState, CallState
<1>4. Moved(r, p, s) BY <1>1, <1>2, <1>3, SetStateMoved
<1> HIDE DEF r
<1>5. EndpointInv(r)
  <2> USE <1>1, <1>4, FieldTypes
      DEF EndpointInv, Moved, SameSession, SameOp, SameRequests, EstablishedState
  <2>1. SessionInv(r) BY DEF SessionInv, EarlyState, OverState
  <2>2. OverInv(r) BY DEF OverInv, SessionInv
  <2>3. RequestInv(r) BY DEF RequestInv, OverState, TransientState
  <2>4. FreshInv(r) BY DEF FreshInv, OverInv
  <2> QED BY <2>1, <2>2, <2>3, <2>4
<1> QED BY <1>5 DEF AcceptUpdate, p, r

\* An established session has its op and a confirmed dialog, came from an
\* established state, and has nothing to retry once it is stable.
LEMMA EstablishedFacts ==
  ASSUME NEW e \in Endpoint, EndpointInv(e), e.state \in EstablishedState
  PROVE  /\ e.prevState \in EstablishedState \cup {"Connected"}
         /\ e.dialog = "Confirmed" /\ e.attached
         /\ e.state \notin TransientState \cup {"Paused"} => e.client = "none" /\ e.retry = "none"
<1> USE FieldTypes DEF EndpointInv, EstablishedState
<1>1. e.attached /\ e.prevState \notin EarlyState \cup OverState
      BY DEF SessionInv, OverState
<1>2. e.prevState \in EstablishedState \cup {"Connected"}
      BY <1>1 DEF CallState, EarlyState, OverState
<1>3. e.dialog = "Confirmed" BY <1>1 DEF OverInv, DialogState, EarlyState
<1>4. e.state \notin TransientState \cup {"Paused"} => e.client = "none" /\ e.retry = "none"
      BY DEF RequestInv, OverState, TransientState
<1> QED BY <1>1, <1>2, <1>3, <1>4

\* linphone_call_accept_update() keeps the endpoint consistent.
LEMMA AcceptUpdateAskedInv ==
  ASSUME NEW e \in Endpoint, EndpointInv(e), e.state = "UpdatedByRemote"
  PROVE  EndpointInv(AcceptUpdateAsked(e))
<1>1. /\ e.state \in EstablishedState \cup {"Connected"}
      /\ e.prevState \in EstablishedState \cup {"Connected"}
      /\ e.dialog = "Confirmed" /\ e.client = "none" /\ e.retry = "none"
      BY EstablishedFacts DEF EstablishedState, TransientState
<1> QED BY <1>1, AcceptUpdateInv DEF AcceptUpdateAsked

\* MediaSessionPrivate::updated() keeps the endpoint consistent when none of our
\* requests is in progress.
LEMMA UpdatedInv ==
  ASSUME NEW e \in Endpoint, EndpointInv(e), e.client = "none", e.dialog = "Confirmed",
         NEW defer
  PROVE  EndpointInv(Updated(e, defer))
<1> USE DEF EstablishedState, TransientState
<1>1. e.state \in {"StreamsRunning", "Connected", "UpdatedByRemote", "PausedByRemote"}
        => e.retry = "none"
      BY FieldTypes DEF EndpointInv, RequestInv, OverState
<1>2. ASSUME e.state \in {"StreamsRunning", "Connected", "UpdatedByRemote", "PausedByRemote"},
             NEW s \in {"StreamsRunning", "PausedByRemote"}
      PROVE  EndpointInv(AcceptUpdate(e, s))
      BY <1>1, <1>2, AcceptUpdateInv
<1>3. ASSUME e.state \in {"StreamsRunning", "Connected", "UpdatedByRemote", "PausedByRemote"}
      PROVE  EndpointInv(UpdatedByRemote(e, defer))
  <2> DEFINE d == SetState(e, "UpdatedByRemote")
  <2>1. ~BadTransition(e.state, "UpdatedByRemote") BY <1>3 DEF BadTransition
  <2>2. Moved(d, e, "UpdatedByRemote") BY <2>1, SetStateMoved, NamedStates
  <2> HIDE DEF d
  <2>3. d \in Endpoint /\ d.state = "UpdatedByRemote" BY <2>2 DEF Moved, SameOp
  <2>4. EndpointInv(d)
    <3> USE <1>1, <1>3, <2>2, FieldTypes DEF EndpointInv, Moved, SameOp, SameRequests
    <3>1. SessionInv(d) BY DEF SessionInv, EarlyState, OverState
    <3>2. OverInv(d) BY DEF OverInv, SessionInv
    <3>3. RequestInv(d) BY DEF RequestInv
    <3>4. FreshInv(d) BY DEF FreshInv
    <3> QED BY <3>1, <3>2, <3>3, <3>4
  <2>5. EndpointInv(AcceptUpdateAsked(d)) BY <2>3, <2>4, AcceptUpdateAskedInv
  <2> QED BY <2>4, <2>5 DEF UpdatedByRemote, d
<1>4. ASSUME e.state \in {"Paused"} \cup TransientState
      PROVE  EndpointInv(AcceptUpdate(SetState(e, "UpdatedByRemote"), e.state))
  <2> DEFINE d == SetState(e, "UpdatedByRemote")
             p == OpAccept(d)
             r == SetState(p, e.state)
  <2>1. ~BadTransition(e.state, "UpdatedByRemote") BY <1>4 DEF BadTransition
  <2>2. Moved(d, e, "UpdatedByRemote") BY <2>1, SetStateMoved, NamedStates
  <2> HIDE DEF d
  <2>3. /\ p \in Endpoint /\ SameSession(p, d) /\ SameRequests(p, d)
        /\ p.op = (IF d.server /\ d.op = "Early" THEN "Active" ELSE d.op)
        /\ p.released = d.released /\ p.releaseLater = d.releaseLater
        /\ p.bye = d.bye /\ p.dialog = d.dialog
        BY <2>2, OpAcceptEstablished DEF Moved, SameOp
  <2> HIDE DEF p
  <2>4. ~BadTransition(p.state, e.state) /\ e.state \in CallState \ {"Released"}
        BY <1>4, <2>2, <2>3, FieldTypes DEF BadTransition, Moved, SameSession
  <2>5. Moved(r, p, e.state) BY <2>3, <2>4, SetStateMoved
  <2> HIDE DEF r
  <2>6. EndpointInv(r)
    <3> USE <1>4, <2>2, <2>3, <2>5, FieldTypes
        DEF EndpointInv, Moved, SameSession, SameOp, SameRequests
    <3>1. SessionInv(r) BY DEF SessionInv, EarlyState, OverState
    <3>2. OverInv(r) BY DEF OverInv, SessionInv
    <3>3. RequestInv(r) BY DEF RequestInv
    <3>4. FreshInv(r) BY DEF FreshInv
    <3> QED BY <3>1, <3>2, <3>3, <3>4
  <2> QED BY <2>6 DEF AcceptUpdate, r, p, d
<1> QED BY <1>2, <1>3, <1>4 DEF Updated

\* processRequestEventCb() keeps the endpoint consistent on a re-INVITE, also one
\* that crosses a request of ours or that follows our BYE.
LEMMA ReceiveReinviteInv ==
  ASSUME NEW e \in Endpoint, EndpointInv(e), e.dialog = "Confirmed",
         NEW m \in Msg, m.dir \in Dir, NEW compatible, NEW defer
  PROVE  EndpointInv(ReceiveReinvite(e, m, compatible, defer))
<1> DEFINE r == [e EXCEPT !.server = TRUE, !.remote = m.dir]
           t == [e EXCEPT !.server = TRUE]
           x == Send(e, Response("INVITE", 491, "none"))
<1>1. r \in Endpoint /\ t \in Endpoint BY Zenon DEF Endpoint
<1>2. x \in Endpoint BY SendResponseType DEF Method, Code
<1>3. Neutral(r, e) /\ Neutral(t, e) /\ Neutral(x, e)
      BY <1>1, <1>2 DEF Neutral, SameSession, SameOp, SameRequests, Send, Endpoint
<1>4. EndpointInv(r) /\ EndpointInv(t) /\ EndpointInv(x) BY <1>1, <1>2, <1>3, NeutralInv
<1> HIDE DEF r, t, x
<1>5. ASSUME ~Crossing(e) PROVE EndpointInv(Updating(r, compatible, defer))
  <2>1. r.client = "none" /\ r.dialog = "Confirmed"
        BY <1>3, <1>5 DEF Neutral, SameOp, SameRequests, Crossing
  <2>2. EndpointInv(Updated(r, defer)) BY <1>1, <1>4, <2>1, UpdatedInv
  <2>3. ASSUME NEW code \in {481, 488} PROVE EndpointInv(Reply(r, code, "none"))
    <3> DEFINE a == Reply(r, code, "none")
    <3>1. a \in Endpoint /\ Replied(a, r) BY <1>1, ReplyType, ReplyReplied DEF Code
    <3> HIDE DEF a
    <3>2. EndpointInv(a)
          BY <1>4, <2>1, <3>1
             DEF EndpointInv, Replied, SameSession, SameRequests, SessionInv, OverInv,
                 RequestInv, FreshInv
    <3> QED BY <3>2 DEF a
  <2> QED BY <1>4, <2>2, <2>3 DEF Updating
<1> QED BY <1>4, <1>5 DEF ReceiveReinvite, r, t, x

\* MediaSessionPrivate::startAccept() keeps the endpoint consistent.
LEMMA StartAcceptInv ==
  ASSUME NEW e \in Endpoint, EndpointInv(e), e.state = "IncomingReceived"
  PROVE  EndpointInv(StartAccept(e))
<1> DEFINE a == ComputeDirIncoming(LocalDir(e), e.remote)
           q == Reply(e, 200, a)
           p == OpAccept(e)
           c == SetState(p, "Connected")
           r == SetState(c, "StreamsRunning")
<1>1. p \in Endpoint BY OpAcceptType
<1>2. a \in Dir BY DirType DEF Endpoint
<1>3. q \in Endpoint BY <1>2, ReplyType DEF Code
<1>4. e.server /\ e.dialog = "Early" /\ e.op \in {"Early", "Active"}
      BY FieldTypes DEF EndpointInv, FreshInv, OverInv, SessionInv, OpState
<1>5. /\ SameSession(q, e) /\ SameRequests(q, e) /\ q.released = e.released
      /\ q.releaseLater = e.releaseLater /\ q.bye = e.bye
      /\ q.dialog = e.dialog /\ q.op = e.op
      BY <1>3, <1>4 DEF Reply, Send, SameSession, SameRequests, Endpoint
<1> HIDE DEF q, a
<1>6. p = [q EXCEPT !.dialog = IF @ \in {"Null", "Early"} THEN "Confirmed" ELSE @,
                    !.op = IF @ = "Early" THEN "Active" ELSE @, !.result = a]
      BY <1>4 DEF OpAccept, q, a
<1>7. /\ SameSession(p, e) /\ SameRequests(p, e) /\ p.released = e.released
      /\ p.releaseLater = e.releaseLater /\ p.bye = e.bye
      /\ p.dialog = "Confirmed" /\ p.op = "Active"
      BY <1>1, <1>3, <1>4, <1>5, <1>6 DEF SameSession, SameRequests, Endpoint
<1> HIDE DEF p
<1>8. ~BadTransition(p.state, "Connected") BY <1>7 DEF SameSession, BadTransition
<1>9. Moved(c, p, "Connected") BY <1>1, <1>8, SetStateMoved, NamedStates
<1> HIDE DEF c
<1>10. c \in Endpoint /\ ~BadTransition(c.state, "StreamsRunning")
       BY <1>9 DEF Moved, SameOp, BadTransition
<1>11. Moved(r, c, "StreamsRunning") BY <1>10, SetStateMoved, NamedStates
<1> HIDE DEF r
<1>12. EndpointInv(r)
  <2> USE <1>7, <1>9, <1>11, FieldTypes
      DEF EndpointInv, Moved, SameSession, SameOp, SameRequests
  <2>1. SessionInv(r) BY DEF SessionInv, EstablishedState, EarlyState, OverState
  <2>2. OverInv(r) BY DEF OverInv, SessionInv
  <2>3. RequestInv(r) BY DEF RequestInv, OverState, TransientState
  <2>4. FreshInv(r) BY DEF FreshInv
  <2> QED BY <2>1, <2>2, <2>3, <2>4
<1> QED BY <1>12 DEF StartAccept, p, c, r

(***************************************************************************)
(* The end of a call.                                                      *)
(***************************************************************************)

\* The session is over if it still has its op, and untouched otherwise.
Ended(d, e) ==
  /\ d \in Endpoint /\ d.incoming = e.incoming
  /\ d.attached = e.attached /\ d.fatal = e.fatal
  /\ d.lastStable \in {e.lastStable, "StreamsRunning", "Paused"}
  /\ IF e.attached THEN d.state \in {"End", "Error"} ELSE d.state = e.state
  /\ \/ d.state = e.state /\ d.prevState = e.prevState
     \/ d.prevState = e.state /\ e.state \notin OverState

\* A session that ended, with an op that is stopped as well, is consistent
\* whatever becomes of the dialog.
LEMMA EndedInv ==
  ASSUME NEW e \in Endpoint, EndpointInv(e), NEW d \in Endpoint, Ended(d, e),
         d.client = "none" \/ d.op \in {"Terminating", "Terminated"},
         e.attached \/ d.op \in {"Terminating", "Terminated"},
         d.client = "none" \/ e.client # "none",
         d.releaseLater => d.op \in {"Terminating", "Terminated"},
         d.released => d.op = "Terminated" /\ d.dialog = "None",
         d.op = "Early" => d.bye = 0 /\ d.dialog # "None",
         d.retry # "none" => d.released \/ d.dialog \in {"Confirmed", "TermConf", "Terminated"},
         d.retry # "none" => e.retry = d.retry,
         d.retry # "none" /\ d.dialog = "Confirmed" => d.bye > 0,
         ~(e.state = "Idle" /\ ~e.incoming /\ ~e.attached)
  PROVE  EndpointInv(d)
<1> USE FieldTypes DEF EndpointInv, Ended, OverState
<1>1. SessionInv(d) BY DEF SessionInv, EstablishedState
<1>2. OverInv(d) BY <1>1 DEF OverInv, SessionInv
<1>3. e.attached \/ e.state \in {"Idle", "Released"} BY DEF SessionInv
<1>4. RequestInv(d) BY <1>3 DEF RequestInv, TransientState
<1>5. FreshInv(d) BY <1>3 DEF FreshInv, OpState
<1> QED BY <1>1, <1>2, <1>4, <1>5

\* A session that has been released is consistent.
LEMMA ReleasedInv ==
  ASSUME NEW d \in Endpoint, d.state = "Released", ~d.attached, ~d.fatal,
         d.lastStable \in {"Idle", "StreamsRunning", "Paused"},
         d.op \in {"Terminating", "Terminated"},
         d.released => d.op = "Terminated" /\ d.dialog = "None",
         d.retry # "none" => d.released \/ d.dialog \in {"Confirmed", "TermConf", "Terminated"},
         d.retry # "none" /\ d.dialog = "Confirmed" => d.bye > 0
  PROVE  EndpointInv(d)
<1> USE FieldTypes DEF EndpointInv, OverState
<1>1. SessionInv(d) BY DEF SessionInv, EstablishedState
<1>2. OverInv(d) BY DEF OverInv
<1>3. RequestInv(d) BY DEF RequestInv
<1>4. FreshInv(d) BY DEF FreshInv
<1> QED BY <1>1, <1>2, <1>3, <1>4

\* What setState(Released) writes after End or Error.
LetGo(d, e) ==
  /\ d \in Endpoint /\ d.incoming = e.incoming
  /\ d.state = "Released" /\ ~d.attached /\ d.fatal = e.fatal
  /\ d.lastStable = e.lastStable
  /\ d.op = (IF ~e.attached \/ e.op = "Terminating" THEN e.op ELSE "Terminated")
  /\ d.released = e.released /\ d.dialog = e.dialog /\ d.bye = e.bye /\ d.retry = e.retry

\* CallSessionPrivate::setState(Released) detaches the op, and leaves it Terminating
\* when it still waits for a response.
LEMMA SetStateReleased ==
  ASSUME NEW e \in Endpoint, e.state \in {"End", "Error"}
  PROVE  LetGo(SetState(e, "Released"), e)
<1>1. SetState(e, "Released") \in Endpoint BY SetStateType, NamedStates DEF OverState
<1> DEFINE noted == [e EXCEPT !.prevState = e.state,
                              !.lastStable = IF e.state \in {"StreamsRunning", "Paused"}
                                             THEN e.state ELSE @]
           m == [noted EXCEPT !.state = "Released", !.execLater = TRUE]
<1>2. SetState(e, "Released") = SetSessionReleased(m) BY DEF SetState, BadTransition
<1>3. m \in Endpoint
  <2>1. noted \in Endpoint BY Zenon DEF Endpoint
  <2> HIDE DEF noted
  <2>2. "Released" \in CallState BY DEF CallState
  <2> QED BY <2>1, <2>2, Zenon DEF Endpoint
<1>4. /\ m.incoming = e.incoming /\ m.state = "Released" /\ m.attached = e.attached
      /\ m.fatal = e.fatal /\ m.lastStable = e.lastStable
      /\ m.op = e.op /\ m.released = e.released /\ m.dialog = e.dialog
      /\ m.bye = e.bye /\ m.retry = e.retry
      BY DEF Endpoint
<1> HIDE DEF m
<1>5. CASE m.attached
  <2> DEFINE o == OpRelease(m)
  <2>1. o \in Endpoint BY <1>3, OpReleaseType
  <2>2. /\ o.incoming = m.incoming /\ o.state = m.state /\ ~o.attached
        /\ o.fatal = m.fatal /\ o.lastStable = m.lastStable
        /\ o.op = (IF m.op = "Terminating" THEN m.op ELSE "Terminated")
        /\ o.released = m.released /\ o.dialog = m.dialog
        /\ o.bye = m.bye /\ o.retry = m.retry
        BY <1>3 DEF OpRelease, Endpoint
  <2> HIDE DEF o
  <2>3. SetSessionReleased(m) = [o EXCEPT !.pendingActions = 0]
        BY <1>5 DEF SetSessionReleased, o
  <2> QED BY <1>1, <1>2, <1>4, <1>5, <2>1, <2>2, <2>3 DEF LetGo, Endpoint
<1>6. CASE ~m.attached
  <2>1. SetSessionReleased(m) = [m EXCEPT !.pendingActions = 0]
        BY <1>6 DEF SetSessionReleased
  <2> QED BY <1>1, <1>2, <1>3, <1>4, <1>6, <2>1 DEF LetGo, Endpoint
<1> QED BY <1>5, <1>6

\* SalCallOp::setReleased() keeps the endpoint consistent if the session it still
\* has is over.
LEMMA SetOpReleasedInv ==
  ASSUME NEW e \in Endpoint, EndpointInv(e), e.attached => e.state \in {"End", "Error"},
         ~(e.state = "Idle" /\ ~e.incoming /\ ~e.attached)
  PROVE  EndpointInv(SetOpReleased(e))
<1> DEFINE dead == [e EXCEPT !.op = "Terminated", !.released = TRUE]
           s == SetState(dead, "Released")
<1>1. dead \in Endpoint BY Zenon DEF Endpoint, OpState
<1>2. /\ SameSession(dead, e) /\ SameRequests(dead, e)
      /\ dead.op = "Terminated" /\ dead.released /\ dead.releaseLater = e.releaseLater
      /\ dead.bye = e.bye /\ dead.server = e.server
      BY <1>1 DEF SameSession, SameRequests, Endpoint
<1> HIDE DEF dead
<1>3. CASE e.released BY <1>3 DEF SetOpReleased
<1>4. CASE ~e.released /\ e.attached
  <2> DEFINE r == [s EXCEPT !.dialog = "None"]
  <2>1. LetGo(s, dead) BY <1>1, <1>2, <1>4, SetStateReleased DEF SameSession
  <2> HIDE DEF s
  <2>2. s \in Endpoint BY <2>1 DEF LetGo
  <2>3. r \in Endpoint BY <2>2, Zenon DEF Endpoint, DialogState
  <2>4. /\ r.state = "Released" /\ ~r.attached /\ r.fatal = e.fatal
        /\ r.lastStable = e.lastStable /\ r.op = "Terminated" /\ r.released
        /\ r.dialog = "None"
        BY <1>2, <2>1, <2>2, <2>3 DEF LetGo, SameSession, Endpoint
  <2> HIDE DEF r
  <2>5. EndpointInv(r)
        BY <2>3, <2>4, ReleasedInv DEF EndpointInv, SessionInv
  <2> QED BY <1>4, <2>5 DEF SetOpReleased, s, dead, r
<1>5. CASE ~e.released /\ ~e.attached
  <2> DEFINE r == [dead EXCEPT !.dialog = "None"]
  <2>1. r \in Endpoint BY <1>1, Zenon DEF Endpoint, DialogState
  <2>2. /\ SameSession(r, e) /\ SameRequests(r, e) /\ r.op = "Terminated" /\ r.released
        /\ r.dialog = "None" /\ r.bye = e.bye /\ r.releaseLater = e.releaseLater
        BY <1>1, <1>2, <2>1 DEF SameSession, SameRequests, Endpoint
  <2> HIDE DEF r
  <2>3. EndpointInv(r)
    <3> USE <1>5, <2>1, <2>2, FieldTypes
        DEF EndpointInv, SameSession, SameRequests, OverState
    <3>1. SessionInv(r) BY DEF SessionInv
    <3>2. OverInv(r) BY DEF OverInv
    <3>3. RequestInv(r) BY DEF RequestInv
    <3>4. FreshInv(r) BY DEF FreshInv, SessionInv
    <3> QED BY <3>1, <3>2, <3>3, <3>4
  <2> QED BY <1>5, <2>3 DEF SetOpReleased, dead, r
<1> QED BY <1>3, <1>4, <1>5, FieldTypes

\* CallSessionPrivate::setState() accepts End and Error from every state of a
\* session that is not over.
LEMMA SetStateEnded ==
  ASSUME NEW e \in Endpoint, e.state \notin OverState, NEW s \in {"End", "Error"}
  PROVE  Moved(SetState(e, s), e, s)
<1>1. ~BadTransition(e.state, s) /\ s \in CallState \ {"Released"}
      BY DEF BadTransition, OverState, CallState
<1> QED BY <1>1, SetStateMoved

\* MediaSessionPrivate::failure() in a call that is not established:
\* the session ends, nothing else.
LEMMA FailureEnded ==
  ASSUME NEW e \in Endpoint, NEW code,
         e.attached => e.state \in EarlyState \cup {"End", "Error"}
  PROVE  LET d == Failure(e, code)
         IN  Ended(d, e) /\ SameOp(d, e) /\ SameRequests(d, e) /\ d.server = e.server
<1>1. CASE ~e.attached
  BY <1>1 DEF Failure, Ended, SameOp, SameRequests
<1>2. CASE e.attached /\ e.state \in {"End", "Error"}
  <2>1. Failure(e, code) = e BY <1>2 DEF Failure, TransientState
  <2> QED BY <1>2, <2>1 DEF Ended, SameOp, SameRequests
<1>3. CASE e.attached /\ e.state \in EarlyState
  <2>1. PICK s \in {"End", "Error"} : Failure(e, code) = SetState(e, s)
        BY <1>3 DEF Failure, TransientState, EarlyState
  <2>2. Moved(SetState(e, s), e, s) BY <1>3, SetStateEnded DEF EarlyState, OverState
  <2> QED BY <1>3, <2>1, <2>2 DEF Moved, Ended, SameOp, EarlyState, OverState
<1> QED BY <1>1, <1>2, <1>3

\* MediaSessionPrivate::terminated() ends the session in any state.
LEMMA TerminatedEnded ==
  ASSUME NEW e \in Endpoint, e.attached => e.state # "Released"
  PROVE  LET d == Terminated(e)
         IN  Ended(d, e) /\ SameOp(d, e) /\ SameRequests(d, e) /\ d.server = e.server
<1>1. CASE ~e.attached \/ e.state \in {"End", "Error"}
  BY <1>1 DEF Terminated, Ended, SameOp, SameRequests
<1>2. CASE e.attached /\ e.state \notin {"End", "Error"}
  <2>1. Terminated(e) = SetState(e, "End") BY <1>2 DEF Terminated
  <2>2. Moved(SetState(e, "End"), e, "End") BY <1>2, SetStateEnded DEF OverState
  <2> QED BY <1>2, <2>1, <2>2 DEF Moved, Ended, SameOp, OverState
<1> QED BY <1>1, <1>2

\* SalCallOp::setError() on a response that ends the call keeps the endpoint
\* consistent, and the session it still has is over.
LEMMA SetFatalErrorInv ==
  ASSUME NEW e \in Endpoint, EndpointInv(e), NEW code, e.op # "Terminated",
         e.attached => e.state \in EarlyState \cup {"End", "Error"},
         e.state # "Idle" \/ e.op # "Early"
  PROVE  LET d == SetFatalError(e, code)
         IN  /\ d \in Endpoint /\ EndpointInv(d)
             /\ d.attached => d.state \in {"End", "Error"}
             /\ d.state # "Idle" \/ e.state = "Idle"
<1> DEFINE t == [e EXCEPT !.op = "Terminating"]
           d == Failure(t, code)
<1>1. t \in Endpoint BY SetOpType DEF OpState
<1>2. /\ SameSession(t, e) /\ SameRequests(t, e) /\ t.released = e.released
      /\ t.releaseLater = e.releaseLater /\ t.dialog = e.dialog /\ t.bye = e.bye
      /\ t.op = "Terminating"
      BY <1>1 DEF SameSession, SameRequests, Endpoint
<1> HIDE DEF t
<1>3. Ended(d, t) /\ SameOp(d, t) /\ SameRequests(d, t)
      BY <1>1, <1>2, FailureEnded DEF SameSession
<1> HIDE DEF d
<1>4. Ended(d, e) BY <1>2, <1>3 DEF Ended, SameSession
<1>5. d \in Endpoint /\ SetFatalError(e, code) = d BY <1>4 DEF Ended, SetFatalError, d, t
<1>6. ~e.released BY DEF EndpointInv, OverInv
<1>7. ~(e.state = "Idle" /\ ~e.incoming /\ ~e.attached) BY DEF EndpointInv, FreshInv
<1>8. /\ d.op = "Terminating" /\ ~d.released /\ d.dialog = e.dialog /\ d.bye = e.bye
      /\ SameRequests(d, e)
      BY <1>2, <1>3, <1>6 DEF SameOp, SameRequests
<1>9. d.retry # "none" => d.dialog \in {"Confirmed", "TermConf", "Terminated"}
      BY <1>6, <1>8 DEF EndpointInv, RequestInv, SameRequests
<1>10. d.retry # "none" /\ d.dialog = "Confirmed" => d.bye > 0
  <2>1. SUFFICES ASSUME d.retry # "none", d.dialog = "Confirmed" PROVE e.state \in OverState
        BY <1>8 DEF EndpointInv, RequestInv, SameRequests
  <2>2. e.retry # "none" BY <1>8, <2>1 DEF SameRequests
  <2>3. e.state \notin EarlyState
        BY <2>2 DEF EndpointInv, RequestInv, OverState, TransientState, EarlyState
  <2> QED BY <2>3 DEF EndpointInv, SessionInv, OverState, EarlyState
<1>11. EndpointInv(d)
  BY <1>4, <1>5, <1>7, <1>8, <1>9, <1>10, EndedInv DEF SameRequests
<1> QED BY <1>4, <1>5, <1>11 DEF Ended, EarlyState

\* SalCallOp::callTerminated() on a BYE keeps the endpoint consistent.
LEMMA ReceiveByeInv ==
  ASSUME NEW e \in Endpoint, EndpointInv(e)
  PROVE  EndpointInv(ReceiveBye(e))
<1> DEFINE t == [e EXCEPT !.op = "Terminating", !.dialog = "TermConf"]
           q == Send(t, Response("BYE", 200, "none"))
           d == Terminated(q)
           x == Send(e, Response("BYE", 481, "none"))
<1>1. CASE e.dialog = "Confirmed"
  <2>1. t \in Endpoint BY Zenon DEF Endpoint, OpState, DialogState
  <2>2. q \in Endpoint BY <2>1, SendResponseType DEF Method, Code
  <2>3. /\ SameSession(q, e) /\ SameRequests(q, e) /\ q.released = e.released
        /\ q.bye = e.bye /\ q.op = "Terminating" /\ q.dialog = "TermConf"
        BY <2>2 DEF SameSession, SameRequests, Send, Endpoint
  <2> HIDE DEF q
  <2>4. Ended(d, q) /\ SameOp(d, q) /\ SameRequests(d, q)
        BY <2>2, <2>3, TerminatedEnded DEF EndpointInv, SessionInv, SameSession
  <2> HIDE DEF d
  <2>5. d \in Endpoint /\ Ended(d, e) BY <2>3, <2>4 DEF Ended, SameSession
  <2>6. ~e.released /\ ~(e.state = "Idle" /\ ~e.incoming /\ ~e.attached)
        BY <1>1 DEF EndpointInv, OverInv, FreshInv
  <2>7. EndpointInv(d) BY <2>3, <2>4, <2>5, <2>6, EndedInv DEF SameOp, SameRequests
  <2> QED BY <1>1, <2>7 DEF ReceiveBye, d, q
<1>2. CASE e.dialog # "Confirmed"
  <2>1. x \in Endpoint BY SendResponseType DEF Method, Code
  <2>2. Neutral(x, e) BY <2>1 DEF Neutral, SameSession, SameOp, SameRequests, Send, Endpoint
  <2> QED BY <1>2, <2>1, <2>2, NeutralInv DEF ReceiveBye
<1> QED BY <1>1, <1>2

\* SalCallOp::callTerminated() on a CANCEL keeps the endpoint consistent, also when
\* the call was answered meanwhile.
LEMMA ReceiveCancelInv ==
  ASSUME NEW e \in Endpoint, EndpointInv(e)
  PROVE  EndpointInv(ReceiveCancel(e))
<1> DEFINE ok == Send(e, Response("CANCEL", 200, "none"))
           t == [ok EXCEPT !.op = "Terminating"]
           q == Reply(t, 487, "none")
           d == Terminated(q)
           r == Reply(ok, 487, "none")
           x == Send(e, Response("CANCEL", 481, "none"))
<1>1. ok \in Endpoint /\ x \in Endpoint BY SendResponseType DEF Method, Code
<1>2. Neutral(ok, e) /\ Neutral(x, e) /\ ok.server = e.server
      BY <1>1 DEF Neutral, SameSession, SameOp, SameRequests, Send, Endpoint
<1> HIDE DEF ok, x
<1>3. EndpointInv(ok) /\ EndpointInv(x) BY <1>1, <1>2, NeutralInv
<1>4. CASE e.dialog \in {"Null", "Early"}
  <2>1. t \in Endpoint BY <1>1, SetOpType DEF OpState
  <2>2. /\ SameSession(t, e) /\ SameRequests(t, e) /\ t.released = e.released
        /\ t.bye = e.bye /\ t.op = "Terminating" /\ t.dialog = e.dialog
        BY <1>1, <1>2, <2>1 DEF Neutral, SameOp, SameSession, SameRequests, Endpoint
  <2> HIDE DEF t
  <2>3. q \in Endpoint /\ Replied(q, t) BY <2>1, ReplyType, ReplyReplied DEF Code
  <2> HIDE DEF q
  <2>4. SameSession(q, e) BY <2>2, <2>3 DEF Replied, SameSession
  <2>5. Ended(d, q) /\ SameOp(d, q) /\ SameRequests(d, q)
        BY <2>3, <2>4, TerminatedEnded DEF EndpointInv, SessionInv, SameSession
  <2> HIDE DEF d
  <2>6. d \in Endpoint /\ Ended(d, e) BY <2>4, <2>5 DEF Ended, SameSession
  <2>7. ~e.released /\ ~(e.state = "Idle" /\ ~e.incoming /\ ~e.attached) /\ e.retry = "none"
        BY <1>4 DEF EndpointInv, OverInv, FreshInv, RequestInv
  <2>8. /\ d.op = "Terminating" /\ ~d.released /\ SameRequests(d, e)
        BY <2>2, <2>3, <2>5, <2>7 DEF Replied, SameOp, SameRequests
  <2>9. EndpointInv(d) BY <2>6, <2>7, <2>8, EndedInv DEF SameRequests
  <2> QED BY <1>4, <2>9 DEF ReceiveCancel, d, q, t, ok
<1>5. CASE e.dialog = "Confirmed" /\ e.server
  <2>1. r \in Endpoint /\ Replied(r, ok) BY <1>1, ReplyType, ReplyReplied DEF Code
  <2> HIDE DEF r
  <2>2. ok.dialog = "Confirmed" BY <1>2, <1>5 DEF Neutral, SameOp
  <2>3. EndpointInv(r)
        BY <1>3, <2>1, <2>2
           DEF EndpointInv, Replied, SameSession, SameRequests, SessionInv, OverInv,
               RequestInv, FreshInv
  <2> QED BY <1>5, <2>3 DEF ReceiveCancel, r, ok
<1> QED BY <1>3, <1>4, <1>5 DEF ReceiveCancel, x

\* SalCallOp::processTimeoutCb() keeps the endpoint consistent.
LEMMA ProcessTimeoutInv ==
  ASSUME NEW e0 \in Endpoint, EndpointInv(e0), e0.client = "calling", e0.dialog = "None"
  PROVE  EndpointInv(ProcessTimeout(e0))
<1> DEFINE e == [e0 EXCEPT !.client = "none"]
           f == Failure(e, 408)
           d == [f EXCEPT !.op = "Terminating"]
<1>1. e \in Endpoint BY Zenon DEF Endpoint, ClientState
<1>2. /\ SameSession(e, e0) /\ SameOp(e, e0) /\ e.client = "none" /\ e.retry = e0.retry
      /\ e.server = e0.server
      BY <1>1 DEF SameSession, SameOp, Endpoint
<1> HIDE DEF e
<1>3. EndpointInv(e)
      BY <1>2 DEF EndpointInv, SameSession, SameOp, SessionInv, OverInv, RequestInv, FreshInv
<1>4. CASE e.op = "Terminated" BY <1>3, <1>4 DEF ProcessTimeout, e
<1>5. CASE e.op # "Terminated"
  <2>1. e0.state \in TransientState \cup {"OutgoingProgress", "OutgoingRinging"} \cup OverState
        BY DEF EndpointInv, RequestInv
  <2>2. e.dialog = "None" BY <1>2 DEF SameOp
  <2>3. e.state # "Idle" /\ (e.attached => e.state \in EarlyState \cup {"End", "Error"})
        BY <1>2, <1>3, <2>1, <2>2
           DEF EndpointInv, OverInv, SameSession, TransientState, OverState
  <2>4. Ended(f, e) /\ SameOp(f, e) /\ SameRequests(f, e) BY <1>1, <2>3, FailureEnded
  <2> HIDE DEF f
  <2>5. f \in Endpoint BY <2>4 DEF Ended
  <2>6. d \in Endpoint BY <2>5, SetOpType DEF OpState
  <2>7. /\ SameSession(d, f) /\ SameRequests(d, f) /\ d.released = f.released
        /\ d.dialog = f.dialog /\ d.op = "Terminating"
        BY <2>5, <2>6 DEF SameSession, SameRequests, Endpoint
  <2> HIDE DEF d
  <2>8. Ended(d, e) BY <2>4, <2>6, <2>7 DEF Ended, SameSession
  <2>9. ~e.released /\ e.retry = "none"
        BY <1>3, <1>5, <2>2 DEF EndpointInv, OverInv, RequestInv
  <2>10. EndpointInv(d)
        BY <1>1, <1>2, <1>3, <2>3, <2>4, <2>6, <2>7, <2>8, <2>9, EndedInv
           DEF SameOp, SameRequests
  <2>11. EndpointInv(SetOpReleased(d))
        BY <2>3, <2>6, <2>8, <2>10, SetOpReleasedInv DEF Ended
  <2> QED BY <1>5, <2>2, <2>11 DEF ProcessTimeout, HasDialog, d, f, e
<1> QED BY <1>4, <1>5

\* SalCallOp::processDialogTerminatedCb() keeps the endpoint consistent.
LEMMA ProcessDialogTerminatedInv ==
  ASSUME NEW e \in Endpoint, EndpointInv(e), e.dialog \in {"TermEarly", "TermConf"}
  PROVE  EndpointInv(ProcessDialogTerminated(e))
<1> DEFINE alive == e.op \notin {"Terminating", "Terminated"}
           told == IF ~alive THEN e
                   ELSE IF e.dialog = "TermEarly" THEN Failure(e, 0) ELSE Terminated(e)
           d == [told EXCEPT !.op = IF alive THEN "Terminating" ELSE @,
                             !.releaseLater = TRUE, !.dialog = "Terminated"]
<1>1. e.attached => e.state # "Released" BY DEF EndpointInv, SessionInv
<1>2. Ended(told, e) /\ SameOp(told, e) /\ SameRequests(told, e)
  <2>1. CASE ~alive
    <3>1. e.attached => e.state \in {"End", "Error"}
          BY <2>1 DEF EndpointInv, OverInv
    <3> QED BY <2>1, <3>1 DEF Ended, SameOp, SameRequests
  <2>2. CASE alive /\ e.dialog = "TermEarly"
    <3>1. e.attached => e.state \in EarlyState \cup {"End", "Error"}
          BY <2>2 DEF EndpointInv, OverInv
    <3> QED BY <2>2, <3>1, FailureEnded
  <2>3. CASE alive /\ e.dialog # "TermEarly" BY <1>1, <2>3, TerminatedEnded
  <2> QED BY <2>1, <2>2, <2>3
<1>3. told \in Endpoint BY <1>2 DEF Ended
<1>4. ProcessDialogTerminated(e) = d BY DEF ProcessDialogTerminated
<1>5. d \in Endpoint BY <1>4, DialogTerminatedType
<1> HIDE DEF told
<1>6. /\ SameSession(d, told) /\ SameRequests(d, told) /\ d.released = told.released
      /\ d.dialog = "Terminated" /\ d.op \in {"Terminating", "Terminated"}
      BY <1>2, <1>3, <1>5 DEF SameSession, SameRequests, SameOp, Endpoint
<1> HIDE DEF d
<1>7. Ended(d, e) BY <1>2, <1>5, <1>6 DEF Ended, SameSession
<1>8. ~e.released /\ ~(e.state = "Idle" /\ ~e.incoming /\ ~e.attached)
      BY DEF EndpointInv, OverInv, FreshInv
<1>9. EndpointInv(d)
      BY <1>2, <1>5, <1>6, <1>7, <1>8, EndedInv DEF SameOp, SameRequests
<1> QED BY <1>4, <1>9

\* SalCallOp::setCallAsReleased() keeps the endpoint consistent.
LEMMA SetCallAsReleasedInv ==
  ASSUME NEW e \in Endpoint, EndpointInv(e), e.releaseLater
  PROVE  EndpointInv(SetCallAsReleased(e))
<1> DEFINE d == [e EXCEPT !.releaseLater = FALSE]
<1>1. d \in Endpoint BY Zenon DEF Endpoint
<1>2. /\ SameSession(d, e) /\ SameRequests(d, e) /\ d.op = e.op /\ d.released = e.released
      /\ d.dialog = e.dialog /\ d.bye = e.bye /\ d.server = e.server /\ ~d.releaseLater
      BY <1>1 DEF SameSession, SameRequests, Endpoint
<1> HIDE DEF d
<1>3. EndpointInv(d)
      BY <1>2 DEF EndpointInv, SameSession, SameRequests, SessionInv, OverInv, RequestInv,
                  FreshInv
<1>4. d.op \in {"Terminating", "Terminated"} BY <1>2 DEF EndpointInv, OverInv
<1>5. EndpointInv(SetOpReleased(d))
      BY <1>1, <1>3, <1>4, SetOpReleasedInv DEF EndpointInv, OverInv, FreshInv
<1> QED BY <1>5 DEF SetCallAsReleased, d

\* Only the state of the op is written.
OpSet(d, e, s) ==
  /\ SameSession(d, e) /\ SameRequests(d, e) /\ d.server = e.server
  /\ d.released = e.released /\ d.releaseLater = e.releaseLater
  /\ d.dialog = e.dialog /\ d.bye = e.bye /\ d.op = s

\* Writing SalCallOp::mState touches nothing else.
LEMMA SetOpFacts ==
  ASSUME NEW e \in Endpoint, NEW s \in OpState
  PROVE  OpSet([e EXCEPT !.op = s], e, s)
<1>1. [e EXCEPT !.op = s] \in Endpoint BY SetOpType
<1> QED BY <1>1 DEF OpSet, SameSession, SameRequests, Endpoint

\* SalCallOp::cancelInvite() writes the dialog at most.
LEMMA CancelInviteFacts ==
  ASSUME NEW e \in Endpoint
  PROVE  LET c == CancelInvite(e)
         IN  /\ SameSession(c, e) /\ SameRequests(c, e) /\ c.released = e.released
             /\ c.releaseLater = e.releaseLater /\ c.bye = e.bye /\ c.server = e.server
             /\ c.dialog = e.dialog \/ (e.dialog \in {"Null", "Early"} /\ c.dialog = "TermEarly")
<1>1. CancelInvite(e) \in Endpoint BY CancelInviteType
<1>2. CASE CancelInvite(e) = e BY <1>2 DEF SameSession, SameRequests
<1>3. CASE /\ CancelInvite(e) = [e EXCEPT !.dialog = "TermEarly"]
           /\ e.dialog \in {"Null", "Early"}
  BY <1>1, <1>3 DEF SameSession, SameRequests, Endpoint
<1>4. CASE CancelInvite(e) = Send([e EXCEPT !.lastRequest = "CANCEL"], Request("CANCEL", "none"))
  BY <1>1, <1>4 DEF Send, SameSession, SameRequests, Endpoint
<1> QED BY <1>2, <1>3, <1>4 DEF CancelInvite

\* SalCallOp::terminate() stops the op of a session that is not over, with a BYE if
\* the dialog is confirmed; it leaves the op alone only if it has no INVITE open.
LEMMA OpTerminateStopped ==
  ASSUME NEW e \in Endpoint, EndpointInv(e), e.attached, e.state \notin OverState
  PROVE  LET d == OpTerminate(e)
         IN  /\ SameSession(d, e) /\ SameRequests(d, e)
             /\ d.released = e.released /\ d.releaseLater = e.releaseLater
             /\ d.dialog = e.dialog \/ (e.dialog \in {"Null", "Early"} /\ d.dialog = "TermEarly")
             /\ d.bye = e.bye \/ (d.bye = e.bye + 1 /\ d.op = "Terminating")
             /\ e.dialog = "Confirmed" => d.bye = e.bye + 1
             /\ \/ d.op \in {"Terminating", "Terminated"}
                \/ d.op = e.op /\ e.client = "none"
<1>1. OpTerminate(e) \in Endpoint BY OpTerminateType
<1>2. e.op \in {"Early", "Active"} /\ e.bye = 0 /\ e.dialog \notin {"TermConf", "Terminated"}
      BY FieldTypes DEF EndpointInv, OverInv, OverState, OpState
<1>3. CASE e.dialog = "Confirmed"
  <2> DEFINE b == SendBye(e)
  <2>1. b \in Endpoint BY SendByeType
  <2>2. /\ SameSession(b, e) /\ SameRequests(b, e) /\ b.released = e.released
        /\ b.releaseLater = e.releaseLater /\ b.dialog = e.dialog /\ b.bye = e.bye + 1
        BY <2>1 DEF SendBye, Send, SameSession, SameRequests, Endpoint
  <2> HIDE DEF b
  <2>3. OpTerminate(e) = [b EXCEPT !.op = "Terminating"] BY <1>2, <1>3 DEF OpTerminate, b
  <2>4. OpSet(OpTerminate(e), b, "Terminating") BY <2>1, <2>3, SetOpFacts DEF OpState
  <2> QED BY <1>1, <1>3, <2>2, <2>4 DEF OpSet, SameSession, SameRequests
<1>4. CASE e.dialog \in {"None", "Null", "Early"} /\ e.incoming
  <2> DEFINE q == Reply(e, 603, "none")
  <2>1. q \in Endpoint /\ Replied(q, e) BY ReplyType, ReplyReplied DEF Code
  <2> HIDE DEF q
  <2>2. OpTerminate(e) = [q EXCEPT !.op = "Terminated"] BY <1>2, <1>4 DEF OpTerminate, q
  <2>3. OpSet(OpTerminate(e), q, "Terminated") BY <2>1, <2>2, SetOpFacts DEF OpState
  <2> QED BY <1>1, <1>4, <2>1, <2>3 DEF OpSet, Replied, SameSession, SameRequests
<1>5. CASE e.dialog \in {"None", "Null", "Early"} /\ ~e.incoming
  <2> DEFINE c == CancelInvite(e)
  <2>1. c \in Endpoint BY CancelInviteType
  <2>2. /\ SameSession(c, e) /\ SameRequests(c, e) /\ c.released = e.released
        /\ c.releaseLater = e.releaseLater /\ c.bye = e.bye
        /\ c.dialog = e.dialog \/ (e.dialog \in {"Null", "Early"} /\ c.dialog = "TermEarly")
        BY CancelInviteFacts
  <2> HIDE DEF c
  <2>3. \/ OpTerminate(e) = [c EXCEPT !.op = "Terminating"]
        \/ OpTerminate(e) = [e EXCEPT !.op = "Terminating"]
        \/ OpTerminate(e) = e /\ e.client = "none"
        BY <1>2, <1>5, FieldTypes DEF OpTerminate, CancellingInvite, c, ClientState
  <2>4. CASE OpTerminate(e) = [c EXCEPT !.op = "Terminating"]
    <3>1. OpSet(OpTerminate(e), c, "Terminating") BY <2>1, <2>4, SetOpFacts DEF OpState
    <3> QED BY <1>1, <1>5, <2>2, <3>1 DEF OpSet, SameSession, SameRequests
  <2>5. CASE OpTerminate(e) = [e EXCEPT !.op = "Terminating"]
    <3>1. OpSet(OpTerminate(e), e, "Terminating") BY <2>5, SetOpFacts DEF OpState
    <3> QED BY <1>1, <1>5, <3>1 DEF OpSet, SameSession, SameRequests
  <2>6. CASE OpTerminate(e) = e /\ e.client = "none"
        BY <1>5, <2>6 DEF SameSession, SameRequests
  <2> QED BY <2>3, <2>4, <2>5, <2>6
<1>6. CASE e.dialog = "TermEarly"
  <2>1. OpTerminate(e) = e BY <1>2, <1>6 DEF OpTerminate
  <2>2. e.client = "none" BY <1>2, <1>6 DEF EndpointInv, RequestInv
  <2> QED BY <1>6, <2>1, <2>2 DEF SameSession, SameRequests
<1> QED BY <1>2, <1>3, <1>4, <1>5, <1>6, FieldTypes DEF DialogState

\* CallSessionPrivate::terminate() keeps the endpoint consistent once the op was told
\* to stop, with or without a dialog that will report its end.
LEMMA TerminateSessionInv ==
  ASSUME NEW e \in Endpoint, EndpointInv(e), e.attached, e.state \notin OverState \cup {"Idle"},
         NEW p \in Endpoint,
         p.incoming = e.incoming, p.state = e.state, p.prevState = e.prevState,
         p.lastStable = e.lastStable, p.fatal = e.fatal, SameRequests(p, e),
         p.released = e.released, p.releaseLater = e.releaseLater,
         p.attached \/ p.op = "Terminated",
         p.dialog = e.dialog \/ (e.dialog \in {"Null", "Early"} /\ p.dialog = "TermEarly"),
         p.op = "Early" => p.bye = 0,
         p.dialog = "Confirmed" => p.bye > 0,
         p.op \in {"Terminating", "Terminated"} \/ p.client = "none"
  PROVE  EndpointInv(TerminateSession(p))
<1> DEFINE n == SetState(p, "End")
           r == SetState(n, "Released")
<1>1. Moved(n, p, "End") BY SetStateEnded
<1> HIDE DEF n
<1>2. n \in Endpoint /\ n.state = "End" BY <1>1 DEF Moved, SameOp
<1>3. ~e.released /\ ~e.releaseLater BY DEF EndpointInv, OverInv, OverState
<1>4. p.retry # "none" => p.dialog \in {"Confirmed", "TermConf", "Terminated"}
      BY <1>3 DEF EndpointInv, RequestInv, SameRequests
<1>5. CASE n.attached /\ HasDialog(n)
  <2>1. n.dialog # "None" BY <1>5 DEF HasDialog
  <2>2. EndpointInv(n)
    <3> USE <1>1, <1>2, <1>3, <1>4, <1>5, <2>1
            DEF Moved, SameOp, SameRequests
    <3>1. Ended(n, e) BY DEF Ended
    <3> QED BY <3>1, EndedInv
  <2> QED BY <1>5, <2>2 DEF TerminateSession, n
<1>6. CASE ~(n.attached /\ HasDialog(n))
  <2>1. LetGo(r, n) BY <1>2, SetStateReleased
  <2> HIDE DEF r
  <2>2. r.op \in {"Terminating", "Terminated"}
        BY <1>1, <2>1 DEF LetGo, Moved, SameOp
  <2>3. r.lastStable \in {"Idle", "StreamsRunning", "Paused"}
        BY <1>1, <2>1 DEF LetGo, Moved, EndpointInv, SessionInv
  <2>4. EndpointInv(r)
        BY <1>1, <1>3, <1>4, <2>1, <2>2, <2>3, ReleasedInv
           DEF LetGo, Moved, SameOp, SameRequests, EndpointInv, SessionInv
  <2> QED BY <1>6, <2>4 DEF TerminateSession, r, n
<1> QED BY <1>5, <1>6

\* CallSession::terminate() and decline() keep the endpoint consistent in any state.
LEMMA TerminateInv ==
  ASSUME NEW e \in Endpoint, EndpointInv(e), e.state \notin OverState \cup {"Idle"}
  PROVE  EndpointInv(Terminate(e))
<1>1. e.attached BY DEF EndpointInv, SessionInv, OverState
<1>2. e.op \in {"Early", "Active"} /\ e.bye = 0
      BY <1>1, FieldTypes DEF EndpointInv, OverInv, OverState, OpState
<1>3. CASE e.state = "IncomingReceived"
  <2> DEFINE p == Reply(e, 603, "none")
  <2>1. p \in Endpoint /\ Replied(p, e) BY ReplyType, ReplyReplied DEF Code
  <2>2. e.dialog = "Early" /\ e.client = "none"
        BY <1>3 DEF EndpointInv, FreshInv, RequestInv, OverState, TransientState
  <2> HIDE DEF p
  <2>3. EndpointInv(TerminateSession(p))
        BY <1>1, <1>2, <2>1, <2>2, TerminateSessionInv
           DEF Replied, SameSession, SameRequests
  <2> QED BY <1>3, <2>3 DEF Terminate, p
<1>4. CASE e.state = "OutgoingInit"
  <2> DEFINE p == OpRelease(e)
  <2>1. p \in Endpoint BY OpReleaseType
  <2>2. e.dialog = "None" BY <1>4 DEF EndpointInv, FreshInv
  <2>3. /\ p.incoming = e.incoming /\ p.state = e.state /\ p.prevState = e.prevState
        /\ p.lastStable = e.lastStable /\ p.fatal = e.fatal /\ SameRequests(p, e)
        /\ p.released = e.released /\ p.releaseLater = e.releaseLater
        /\ p.op = "Terminated" /\ p.dialog = e.dialog
        BY <1>2 DEF OpRelease, SameRequests, Endpoint
  <2> HIDE DEF p
  <2>4. EndpointInv(TerminateSession(p))
        BY <1>1, <2>1, <2>2, <2>3, TerminateSessionInv
  <2> QED BY <1>4, <2>4 DEF Terminate, p
<1>5. CASE e.state \notin {"IncomingReceived", "OutgoingInit"}
  <2> DEFINE p == OpTerminate(e)
  <2>1. p \in Endpoint BY OpTerminateType
  <2>2. /\ SameSession(p, e) /\ SameRequests(p, e)
        /\ p.released = e.released /\ p.releaseLater = e.releaseLater
        /\ p.dialog = e.dialog \/ (e.dialog \in {"Null", "Early"} /\ p.dialog = "TermEarly")
        /\ p.bye = e.bye \/ (p.bye = e.bye + 1 /\ p.op = "Terminating")
        /\ e.dialog = "Confirmed" => p.bye = e.bye + 1
        /\ \/ p.op \in {"Terminating", "Terminated"}
           \/ p.op = e.op /\ e.client = "none"
        BY <1>1, OpTerminateStopped
  <2> HIDE DEF p
  <2>3. /\ p.incoming = e.incoming /\ p.state = e.state /\ p.prevState = e.prevState
        /\ p.lastStable = e.lastStable /\ p.fatal = e.fatal /\ p.attached
        /\ p.op = "Early" => p.bye = 0
        /\ p.dialog = "Confirmed" => p.bye > 0
        /\ p.op \in {"Terminating", "Terminated"} \/ p.client = "none"
        BY <1>1, <1>2, <2>2 DEF SameSession, SameRequests
  <2>4. EndpointInv(TerminateSession(p))
        BY <1>1, <2>1, <2>2, <2>3, TerminateSessionInv
  <2> QED BY <1>5, <2>4 DEF Terminate, p
<1> QED BY <1>3, <1>4, <1>5

(***************************************************************************)
(* A call that arrives, and messages that change no session.               *)
(***************************************************************************)

\* The INVITE of a new call keeps the endpoint consistent.
LEMMA ReceiveCallInv ==
  ASSUME NEW e \in Endpoint, EndpointInv(e), Unknown(e), NEW m \in Msg, m.dir \in Dir
  PROVE  EndpointInv(ReceiveCall(e, m))
<1> DEFINE d == [e EXCEPT !.attached = TRUE, !.server = TRUE,
                          !.remote = m.dir, !.dialog = "Early"]
           r == SetState(d, "IncomingReceived")
           x == Send(r, Response("INVITE", 100, "none"))
           y == Send(x, Response("INVITE", 180, "none"))
<1>1. d \in Endpoint BY Zenon DEF Endpoint, DialogState
<1>2. e.state = "Idle" /\ e.bye = 0 /\ e.client = "none" /\ e.retry = "none" /\ e.op = "Early"
      BY FieldTypes DEF Unknown, EndpointInv, FreshInv, OverInv, RequestInv, OverState,
                        TransientState
<1>3. /\ d.incoming = e.incoming /\ d.state = "Idle" /\ d.prevState = e.prevState
      /\ d.lastStable = e.lastStable /\ d.fatal = e.fatal /\ d.attached /\ d.server
      /\ d.op = "Early" /\ d.released = e.released /\ d.releaseLater = e.releaseLater
      /\ d.dialog = "Early" /\ d.bye = 0 /\ d.client = "none" /\ d.retry = "none"
      BY <1>1, <1>2 DEF Endpoint
<1> HIDE DEF d
<1>4. ~BadTransition(d.state, "IncomingReceived") BY <1>3 DEF BadTransition
<1>5. "IncomingReceived" \in CallState \ {"Released"} BY DEF CallState
<1>6. Moved(r, d, "IncomingReceived") BY <1>1, <1>4, <1>5, SetStateMoved
<1> HIDE DEF r
<1>7. r \in Endpoint BY <1>6 DEF Moved, SameOp
<1>8. EndpointInv(r)
  <2> USE <1>3, <1>6, FieldTypes DEF EndpointInv, Moved, SameOp, SameRequests
  <2>1. SessionInv(r) BY DEF SessionInv, EstablishedState, OverState
  <2>2. OverInv(r) BY <1>2 DEF OverInv, EarlyState
  <2>3. RequestInv(r) BY DEF RequestInv
  <2>4. FreshInv(r) BY DEF FreshInv
  <2> QED BY <2>1, <2>2, <2>3, <2>4
<1>9. x \in Endpoint BY <1>7, SendResponseType DEF Method, Code
<1>10. y \in Endpoint BY <1>9, SendResponseType DEF Method, Code
<1>11. Neutral(x, r) BY <1>7, <1>9 DEF Neutral, SameSession, SameOp, SameRequests, Send, Endpoint
<1>12. EndpointInv(x) BY <1>7, <1>8, <1>9, <1>11, NeutralInv
<1> HIDE DEF x
<1>13. Neutral(y, x)
       BY <1>9, <1>10 DEF Neutral, SameSession, SameOp, SameRequests, Send, Endpoint
<1>14. EndpointInv(y) BY <1>9, <1>10, <1>12, <1>13, NeutralInv
<1> QED BY <1>14 DEF ReceiveCall, y, x, r, d

\* An INVITE that call_received refuses keeps the endpoint consistent.
LEMMA RefuseCallInv ==
  ASSUME NEW e \in Endpoint, EndpointInv(e), Unknown(e), NEW code \in Code, code >= 300
  PROVE  EndpointInv(RefuseCall(e, code))
<1> DEFINE d == [e EXCEPT !.server = TRUE, !.dialog = "Null"]
           q == Reply(d, code, "none")
           r == OpRelease(q)
<1>1. d \in Endpoint BY Zenon DEF Endpoint, DialogState
<1>2. e.state = "Idle" /\ e.bye = 0 /\ e.client = "none" /\ e.retry = "none" /\ e.op = "Early"
      BY FieldTypes DEF Unknown, EndpointInv, FreshInv, OverInv, RequestInv, OverState,
                        TransientState
<1>3. /\ SameSession(d, e) /\ SameRequests(d, e) /\ d.server /\ d.dialog = "Null"
      /\ d.op = e.op /\ d.released = e.released /\ d.releaseLater = e.releaseLater /\ d.bye = e.bye
      BY <1>1 DEF SameSession, SameRequests, Endpoint
<1> HIDE DEF d
<1>4. q \in Endpoint /\ Replied(q, d) BY <1>1, ReplyType, ReplyReplied DEF Code
<1> HIDE DEF q
<1>5. r \in Endpoint BY <1>4, OpReleaseType
<1>6. /\ r.incoming = q.incoming /\ r.state = q.state /\ r.prevState = q.prevState
      /\ r.lastStable = q.lastStable /\ r.fatal = q.fatal /\ ~r.attached
      /\ SameRequests(r, q) /\ r.op \in {"Terminating", "Terminated"}
      /\ r.released = q.released /\ r.dialog = q.dialog
      BY <1>4, <1>5 DEF OpRelease, SameRequests, Endpoint
<1> HIDE DEF r
<1>7. EndpointInv(r)
  <2> USE <1>2, <1>3, <1>4, <1>6, FieldTypes
      DEF EndpointInv, Replied, SameSession, SameRequests, Unknown
  <2>1. SessionInv(r) BY DEF SessionInv, EstablishedState, OverState
  <2>2. OverInv(r) BY DEF OverInv
  <2>3. RequestInv(r) BY DEF RequestInv, OverState
  <2>4. FreshInv(r) BY DEF FreshInv
  <2> QED BY <2>1, <2>2, <2>3, <2>4
<1> QED BY <1>7 DEF RefuseCall, r, q, d

\* INFO requests, and requests outside of the dialog, keep the endpoint consistent.
LEMMA InfoInv ==
  ASSUME NEW e \in Endpoint, EndpointInv(e)
  PROVE  /\ EndpointInv(SendDtmf(e)) /\ EndpointInv(SendQueuedInfo(e))
         /\ EndpointInv(ReceiveInfo(e))
         /\ EndpointInv(Send(e, Response("INVITE", 481, "none")))
<1>1. SendDtmf(e) \in Endpoint /\ SendQueuedInfo(e) \in Endpoint /\ ReceiveInfo(e) \in Endpoint
      BY InfoType, ReceiveInfoType
<1>2. Send(e, Response("INVITE", 481, "none")) \in Endpoint
      BY SendResponseType DEF Method, Code
<1>3. Neutral(SendDtmf(e), e)
      BY <1>1 DEF SendDtmf, Neutral, SameSession, SameOp, SameRequests, Send, Endpoint
<1>4. Neutral(SendQueuedInfo(e), e)
      BY <1>1 DEF SendQueuedInfo, Neutral, SameSession, SameOp, SameRequests, Send, Endpoint
<1>5. Neutral(ReceiveInfo(e), e)
      BY <1>1 DEF ReceiveInfo, Neutral, SameSession, SameOp, SameRequests, Send, Endpoint
<1>6. Neutral(Send(e, Response("INVITE", 481, "none")), e)
      BY <1>2 DEF Neutral, SameSession, SameOp, SameRequests, Send, Endpoint
<1>7. ASSUME NEW d \in Endpoint, Neutral(d, e) PROVE EndpointInv(d)
      BY <1>7, NeutralInv
<1> QED BY <1>1, <1>2, <1>3, <1>4, <1>5, <1>6, <1>7, Zenon

(***************************************************************************)
(* Responses.                                                              *)
(***************************************************************************)

\* SalOp::handleRetry() keeps the endpoint consistent and writes no session state.
LEMMA HandleRetryInv ==
  ASSUME NEW e \in Endpoint, EndpointInv(e)
  PROVE  LET d == HandleRetry(e)
         IN  /\ EndpointInv(d) /\ Asked(d, e) /\ d.client = e.client
<1> DEFINE t == [e EXCEPT !.timers = @ + 1]
           n == [e EXCEPT !.retry = "none"]
<1>1. CASE HandleRetry(e) = e BY <1>1 DEF Asked, SameSession, SameOp
<1>2. CASE HandleRetry(e) = t
  <2>1. t \in Endpoint BY <1>2, HandleRetryType
  <2>2. Neutral(t, e) /\ t.server = e.server
        BY <2>1 DEF Neutral, SameSession, SameOp, SameRequests, Endpoint
  <2> HIDE DEF t
  <2>3. EndpointInv(t) BY <2>1, <2>2, NeutralInv
  <2> QED BY <1>2, <2>2, <2>3 DEF Neutral, Asked, SameRequests
<1>3. CASE HandleRetry(e) = n
  <2>1. Asked(n, e) /\ n.client = e.client BY SetRetryAsked, NamedRetries
  <2>2. EndpointInv(n) BY DropRetryInv
  <2> QED BY <1>3, <2>1, <2>2
<1> QED BY <1>1, <1>2, <1>3 DEF HandleRetry

\* A response to an INVITE of ours closes or moves its transaction, and changes a
\* dialog that is not established yet at most.
LEMMA StackInvite ==
  ASSUME NEW e \in Endpoint, NEW m \in Msg, m.method = "INVITE", Matched(e, m)
  PROVE  LET d == StackResponse(e, m)
         IN  /\ SameSession(d, e) /\ d.server = e.server /\ d.retry = e.retry
             /\ d.op = e.op /\ d.released = e.released
             /\ d.releaseLater = e.releaseLater /\ d.bye = e.bye
             /\ d.client = (IF m.code >= 200 THEN "none" ELSE "proceeding")
             /\ \/ d.dialog = e.dialog
                \/ ~e.released /\ e.dialog \in {"None", "Early"} /\ d.dialog = "Confirmed"
                \/ ~e.released /\ e.dialog = "None" /\ d.dialog = "Early"
                \/ ~e.released /\ e.dialog = "Early" /\ d.dialog = "TermEarly" /\ d.client = "none"
<1> DEFINE final == m.code >= 200
           ok == final /\ m.code < 300
           cl == IF final THEN "none" ELSE "proceeding"
           dl == CASE e.released -> e.dialog
                   [] ~e.released /\ e.dialog \in {"None", "Early"} /\ ok -> "Confirmed"
                   [] ~e.released /\ e.dialog = "None" /\ m.code = 180 -> "Early"
                   [] ~e.released /\ e.dialog = "Early" /\ final /\ ~ok -> "TermEarly"
                   [] OTHER -> e.dialog
           d == [e EXCEPT !.client = cl, !.dialog = dl]
<1>1. StackResponse(e, m) = d BY DEF StackResponse
<1>2. d \in Endpoint BY <1>1, StackResponseType
<1>3. \/ dl = e.dialog
      \/ ~e.released /\ e.dialog \in {"None", "Early"} /\ dl = "Confirmed"
      \/ ~e.released /\ e.dialog = "None" /\ dl = "Early"
      \/ ~e.released /\ e.dialog = "Early" /\ dl = "TermEarly" /\ cl = "none"
      OBVIOUS
<1> HIDE DEF cl, dl
<1>4. /\ SameSession(d, e) /\ d.server = e.server /\ d.retry = e.retry
      /\ d.op = e.op /\ d.released = e.released
      /\ d.releaseLater = e.releaseLater /\ d.bye = e.bye
      /\ d.client = cl /\ d.dialog = dl
      BY <1>2 DEF SameSession, Endpoint
<1> HIDE DEF d
<1> QED BY <1>1, <1>3, <1>4 DEF cl

\* A response to a BYE of ours ends a confirmed dialog.
LEMMA StackBye ==
  ASSUME NEW e \in Endpoint, NEW m \in Msg, m.method = "BYE", Matched(e, m)
  PROVE  LET d == StackResponse(e, m)
         IN  /\ SameSession(d, e) /\ d.server = e.server /\ SameRequests(d, e)
             /\ d.op = e.op /\ d.released = e.released
             /\ d.releaseLater = e.releaseLater
             /\ e.bye > 0
             /\ d.dialog = (IF e.dialog = "Confirmed" THEN "TermConf" ELSE e.dialog)
<1>1. StackResponse(e, m) \in Endpoint BY StackResponseType
<1>2. StackResponse(e, m) =
        [e EXCEPT !.bye = @ - 1, !.dialog = IF @ = "Confirmed" THEN "TermConf" ELSE @]
      BY DEF StackResponse
<1>3. e.bye > 0 BY DEF Matched
<1> QED BY <1>1, <1>2, <1>3 DEF SameSession, SameRequests, Endpoint

\* The stack keeps the invariant before the op hears of the response.
LEMMA StackResponseInv ==
  ASSUME NEW e \in Endpoint, EndpointInv(e), NEW m \in Msg, Matched(e, m)
  PROVE  EndpointInv(StackResponse(e, m))
<1> DEFINE d == StackResponse(e, m)
<1>1. d \in Endpoint BY StackResponseType
<1>2. CASE m.method = "INVITE"
  <2>1. e.client # "none" BY <1>2 DEF Matched
  <2>2. /\ SameSession(d, e) /\ d.server = e.server /\ d.retry = e.retry
        /\ d.op = e.op /\ d.released = e.released
        /\ d.releaseLater = e.releaseLater /\ d.bye = e.bye
        /\ \/ d.dialog = e.dialog
           \/ ~e.released /\ e.dialog \in {"None", "Early"} /\ d.dialog = "Confirmed"
           \/ ~e.released /\ e.dialog = "None" /\ d.dialog = "Early"
           \/ ~e.released /\ e.dialog = "Early" /\ d.dialog = "TermEarly" /\ d.client = "none"
        BY <1>2, StackInvite
  <2>3. e.state \in TransientState \cup {"OutgoingProgress", "OutgoingRinging"} \cup OverState
        BY <2>1 DEF EndpointInv, RequestInv
  <2> HIDE DEF d
  <2>4. EndpointInv(d)
    <3> USE <1>1, <2>1, <2>2, FieldTypes DEF EndpointInv, SameSession
    <3>1. SessionInv(d) BY DEF SessionInv
    <3>2. OverInv(d) BY DEF OverInv
    <3>3. RequestInv(d) BY DEF RequestInv
    <3>4. FreshInv(d) BY <2>3 DEF FreshInv, TransientState, OverState
    <3> QED BY <3>1, <3>2, <3>3, <3>4
  <2> QED BY <2>4 DEF d
<1>3. CASE m.method = "BYE"
  <2>1. /\ SameSession(d, e) /\ d.server = e.server /\ SameRequests(d, e)
        /\ d.op = e.op /\ d.released = e.released
        /\ d.releaseLater = e.releaseLater
        /\ e.bye > 0
        /\ d.dialog = (IF e.dialog = "Confirmed" THEN "TermConf" ELSE e.dialog)
        BY <1>3, StackBye
  <2> HIDE DEF d
  <2>2. EndpointInv(d)
    <3> USE <1>1, <2>1, FieldTypes DEF EndpointInv, SameSession, SameRequests
    <3>1. SessionInv(d) BY DEF SessionInv
    <3>2. OverInv(d) BY DEF OverInv
    <3>3. RequestInv(d) BY DEF RequestInv
    <3>4. FreshInv(d) BY DEF FreshInv, SessionInv, OverInv
    <3> QED BY <3>1, <3>2, <3>3, <3>4
  <2> QED BY <2>2 DEF d
<1>4. CASE m.method \notin {"INVITE", "BYE"}
  <2>1. d = e \/ d = [e EXCEPT !.info = "none"] BY <1>4 DEF StackResponse
  <2>2. Neutral(d, e) BY <1>1, <2>1 DEF Neutral, SameSession, SameOp, SameRequests, Endpoint
  <2> QED BY <1>1, <2>2, NeutralInv
<1> QED BY <1>2, <1>3, <1>4

\* A 2xx keeps the endpoint consistent, also one whose answer makes the session
\* abort the call while the op goes back to Active.
LEMMA AcceptedInv ==
  ASSUME NEW e \in Endpoint, EndpointInv(e), e.dialog = "Confirmed", e.attached,
         e.op \in {"Early", "Active"}, e.client = "none", e.retry = "none",
         e.state \in TransientState \cup {"OutgoingProgress", "OutgoingRinging"},
         NEW answered, NEW compatible
  PROVE  EndpointInv([Accepted(e, answered, compatible) EXCEPT !.op = "Active"])
<1> DEFINE c == IF e.state \in {"OutgoingProgress", "OutgoingRinging"}
                THEN SetState(e, "Connected") ELSE e
           md == ComputeDirOutgoing(c.offer, answered)
           next == AcceptedNextState(c, md)
           cr == [c EXCEPT !.result = md]
<1>0. e.bye = 0 /\ ~e.released /\ ~e.releaseLater
      BY FieldTypes DEF EndpointInv, OverInv, TransientState
<1>1. /\ c \in Endpoint /\ SameOp(c, e) /\ SameRequests(c, e) /\ c.attached /\ ~c.fatal
      /\ c.lastStable \in {"Idle", "StreamsRunning", "Paused"}
      /\ \/ c.state = "Connected" /\ c.prevState \in {"OutgoingProgress", "OutgoingRinging"}
         \/ c.state \in TransientState /\ c.prevState \in EstablishedState \cup {"Connected"}
  <2>1. CASE e.state \in {"OutgoingProgress", "OutgoingRinging"}
    <3>1. Moved(SetState(e, "Connected"), e, "Connected")
          BY <2>1, SetStateMoved, NamedStates DEF BadTransition
    <3> QED BY <2>1, <3>1 DEF Moved, SameOp, EndpointInv, SessionInv
  <2>2. CASE e.state \in TransientState
    <3>1. e.prevState \in EstablishedState \cup {"Connected"}
          BY <2>2, EstablishedFacts DEF TransientState, EstablishedState
    <3>2. c = e BY <2>2 DEF TransientState
    <3> QED BY <2>2, <3>1, <3>2 DEF EndpointInv, SessionInv, SameOp, SameRequests
  <2> QED BY <2>1, <2>2
<1> HIDE DEF c
<1>2. md \in Dir BY <1>1, DirType DEF Endpoint
<1> HIDE DEF md
<1>3. cr \in Endpoint BY <1>1, <1>2, Zenon DEF Endpoint
<1>4. /\ SameSession(cr, c) /\ SameOp(cr, c) /\ SameRequests(cr, c)
      BY <1>1, <1>3 DEF SameSession, SameOp, SameRequests, Endpoint
<1> HIDE DEF cr
<1>5. ASSUME NEW s \in EstablishedState \cup {"Connected"}
      PROVE  EndpointInv([SetState(cr, s) EXCEPT !.op = "Active"])
  <2> DEFINE d == SetState(cr, s)
             r == [d EXCEPT !.op = "Active"]
  <2>1. s \in CallState \ {"Released"} BY DEF EstablishedState, CallState
  <2>2. ~BadTransition(cr.state, s)
        BY <1>1, <1>4 DEF SameSession, BadTransition, TransientState, EstablishedState
  <2>3. Moved(d, cr, s) BY <1>3, <2>1, <2>2, SetStateMoved
  <2> HIDE DEF d
  <2>4. d \in Endpoint BY <2>3 DEF Moved, SameOp
  <2>5. OpSet(r, d, "Active") BY <2>4, SetOpFacts DEF OpState
  <2> HIDE DEF r
  <2>6. EndpointInv(r)
    <3> USE <1>0, <1>1, <1>4, <1>5, <2>3, <2>5, FieldTypes
        DEF EndpointInv, OpSet, Moved, SameSession, SameOp, SameRequests,
            EstablishedState, TransientState
    <3>1. SessionInv(r) BY DEF SessionInv, EarlyState, OverState
    <3>2. OverInv(r) BY DEF OverInv
    <3>3. RequestInv(r) BY DEF RequestInv
    <3>4. FreshInv(r) BY DEF FreshInv
    <3> QED BY <3>1, <3>2, <3>3, <3>4
  <2> QED BY <2>6 DEF r, d
<1>6. CASE compatible
  <2>1. next \in {"Paused", "PausedByRemote", "StreamsRunning"}
        BY <1>1 DEF AcceptedNextState, TransientState
  <2> HIDE DEF next
  <2>2. Accepted(e, answered, compatible) = SetState(cr, next)
        BY <1>6, <2>1 DEF Accepted, cr, next, md, c
  <2> QED BY <1>5, <2>1, <2>2 DEF EstablishedState
<1>7. CASE ~compatible /\ c.state = "Connected"
  <2> DEFINE b == SendBye(c)
             p == [b EXCEPT !.op = "Terminating"]
             d == SetState(p, "Error")
             r == [d EXCEPT !.op = "Active"]
  <2>1. b \in Endpoint BY <1>1, SendByeType
  <2>2. /\ SameSession(b, c) /\ SameRequests(b, c) /\ b.released = c.released
        /\ b.releaseLater = c.releaseLater /\ b.dialog = c.dialog /\ b.bye = c.bye + 1
        BY <1>1, <2>1 DEF SendBye, Send, SameSession, SameRequests, Endpoint
  <2> HIDE DEF b
  <2>3. p \in Endpoint /\ OpSet(p, b, "Terminating") BY <2>1, SetOpFacts, SetOpType DEF OpState
  <2> HIDE DEF p
  <2>4. p.state = "Connected" BY <1>7, <2>2, <2>3 DEF OpSet, SameSession
  <2>5. Moved(d, p, "Error") BY <2>3, <2>4, SetStateEnded DEF OverState
  <2> HIDE DEF d
  <2>6. d \in Endpoint BY <2>5 DEF Moved, SameOp
  <2>7. r \in Endpoint /\ OpSet(r, d, "Active") BY <2>6, SetOpFacts, SetOpType DEF OpState
  <2> HIDE DEF r
  <2>8. EndpointInv(r)
    <3> USE <1>0, <1>1, <1>7, <2>2, <2>3, <2>5, <2>7, FieldTypes
        DEF EndpointInv, OpSet, Moved, SameSession, SameOp, SameRequests
    <3>1. SessionInv(r) BY DEF SessionInv, EstablishedState, OverState
    <3>2. OverInv(r) BY DEF OverInv
    <3>3. RequestInv(r) BY DEF RequestInv
    <3>4. FreshInv(r) BY DEF FreshInv
    <3> QED BY <3>1, <3>2, <3>3, <3>4
  <2>9. OpTerminate(c) = p BY <1>1 DEF OpTerminate, p, b, SameOp
  <2>10. Accepted(e, answered, compatible) = Abort(c)
        BY <1>1, <1>7 DEF Accepted, c, EarlyState, TransientState
  <2>11. Accepted(e, answered, compatible) = d BY <2>9, <2>10 DEF Abort, d
  <2> QED BY <2>8, <2>11 DEF r
<1>8. CASE ~compatible /\ c.state \in TransientState
  <2>1. c.prevState \in EstablishedState \cup {"Connected"} BY <1>1, <1>8 DEF TransientState
  <2>2. Accepted(e, answered, compatible) = SetState(cr, c.prevState)
        BY <1>8, <2>1 DEF Accepted, cr, md, c, EstablishedState, EarlyState, TransientState
  <2> QED BY <1>5, <2>1, <2>2
<1> QED BY <1>1, <1>6, <1>7, <1>8

\* MediaSessionPrivate::failure() keeps the endpoint consistent on a failed
\* re-INVITE: retried, restored or ended.
LEMMA FailureInv ==
  ASSUME NEW e \in Endpoint, EndpointInv(e), e.dialog = "Confirmed", e.attached,
         e.op \in {"Early", "Active"}, e.client = "none", NEW code,
         code = 491 \/ e.retry = "none",
         e.state \in TransientState \cup {"OutgoingProgress", "OutgoingRinging"}
  PROVE  EndpointInv(Failure(e, code))
<1>1. ASSUME NEW s \in {"Idle", "Connected", "End", "Error"} \cup EstablishedState,
             e.retry = "none",
             s \in EstablishedState => e.state \in TransientState
      PROVE  EndpointInv(SetState(e, s))
  <2> DEFINE d == SetState(e, s)
  <2>1. s \in CallState \ {"Released"} BY DEF EstablishedState, CallState
  <2>2. ~BadTransition(e.state, s)
        BY DEF BadTransition, TransientState, EstablishedState
  <2>3. Moved(d, e, s) BY <2>1, <2>2, SetStateMoved
  <2> HIDE DEF d
  <2>4. EndpointInv(d)
    <3> USE <1>1, <2>3, FieldTypes
        DEF EndpointInv, Moved, SameOp, SameRequests, EstablishedState, TransientState
    <3>1. SessionInv(d) BY DEF SessionInv, EarlyState, OverState
    <3>2. OverInv(d) BY DEF OverInv, EarlyState
    <3>3. RequestInv(d) BY DEF RequestInv
    <3>4. FreshInv(d) BY DEF FreshInv
    <3> QED BY <3>1, <3>2, <3>3, <3>4
  <2> QED BY <2>4 DEF d
<1>2. CASE e.state \in TransientState
  <2>1. /\ e.prevState \in EstablishedState \cup {"Connected"}
        /\ e.lastStable \in {"Idle", "StreamsRunning", "Paused"}
        BY <1>2, EstablishedFacts DEF TransientState, EstablishedState, EndpointInv, SessionInv
  <2>2. \/ Failure(e, code) = e
        \/ e.retry = "none" /\ Failure(e, code) = SetState(e, e.lastStable)
        \/ e.retry = "none" /\ Failure(e, code) = SetState(e, e.prevState)
        \/ e.retry = "none" /\ Failure(e, code) = SetState(e, "End")
        BY <1>2 DEF Failure, TransientState, EarlyState
  <2> QED BY <1>1, <1>2, <2>1, <2>2 DEF EstablishedState
<1>3. CASE e.state \in {"OutgoingProgress", "OutgoingRinging"}
  <2>1. Failure(e, code) = SetState(e, "Error") \/ Failure(e, code) = SetState(e, "End")
        BY <1>3 DEF Failure, TransientState
  <2>2. e.retry = "none"
        BY <1>3 DEF EndpointInv, RequestInv, OverState, TransientState
  <2> QED BY <1>1, <2>1, <2>2 DEF EstablishedState
<1> QED BY <1>2, <1>3

\* SalCallOp::processResponseCb() keeps the endpoint consistent before the dialog is
\* established.
LEMMA EarlyResponseInv ==
  ASSUME NEW e \in Endpoint, EndpointInv(e), NEW m \in Msg, e.op # "Terminated",
         e.dialog \in {"None", "Null", "Early"},
         m.method = "INVITE" =>
           /\ e.state # "Idle"
           /\ e.op # "Terminating" => e.attached
           /\ e.op # "Terminating" /\ m.code = 180 =>
                e.state \in {"OutgoingProgress", "OutgoingRinging"}
  PROVE  EndpointInv(EarlyResponse(e, m))
<1>1. ~e.released /\ e.retry = "none" BY DEF EndpointInv, OverInv, RequestInv
<1>2. e.attached => e.state \in EarlyState \cup {"End", "Error"} BY DEF EndpointInv, OverInv
<1>3. CASE m.method = "INVITE" /\ e.op = "Terminating"
  <2>1. e.attached => e.state \in {"End", "Error"} BY <1>3 DEF EndpointInv, OverInv
  <2>2. EndpointInv(SetOpReleased(e)) BY <1>3, <2>1, SetOpReleasedInv
  <2>3. EndpointInv(CancellingInvite(e))
    <3> DEFINE c == CancelInvite(e)
               d == [c EXCEPT !.op = "Terminating"]
    <3>1. c \in Endpoint BY CancelInviteType
    <3>2. /\ SameSession(c, e) /\ SameRequests(c, e) /\ c.released = e.released
          /\ c.releaseLater = e.releaseLater /\ c.bye = e.bye /\ c.server = e.server
          /\ c.dialog = e.dialog \/ (e.dialog \in {"Null", "Early"} /\ c.dialog = "TermEarly")
          BY CancelInviteFacts
    <3> HIDE DEF c
    <3>3. OpSet(d, c, "Terminating") BY <3>1, SetOpFacts DEF OpState
    <3> HIDE DEF d
    <3>4. EndpointInv(d)
      <4> USE <1>1, <1>3, <2>1, <3>2, <3>3, FieldTypes
          DEF EndpointInv, OpSet, SameSession, SameRequests
      <4>1. SessionInv(d) BY DEF SessionInv
      <4>2. OverInv(d) BY DEF OverInv
      <4>3. RequestInv(d) BY DEF RequestInv
      <4>4. FreshInv(d) BY DEF FreshInv, SessionInv
      <4> QED BY <4>1, <4>2, <4>3, <4>4
    <3> QED BY <3>4 DEF CancellingInvite, d, c
  <2> QED BY <1>3, <2>2, <2>3 DEF EarlyResponse
<1>4. CASE m.method = "INVITE" /\ e.op # "Terminating" /\ m.code = 180
  <2> DEFINE d == SetState(e, "OutgoingRinging")
  <2>1. "OutgoingRinging" \in CallState \ {"Released"} BY DEF CallState
  <2>2. e.state \in {"OutgoingProgress", "OutgoingRinging"} /\ e.attached BY <1>4
  <2>3. Moved(d, e, "OutgoingRinging") BY <2>1, <2>2, SetStateMoved DEF BadTransition
  <2> HIDE DEF d
  <2>4. EndpointInv(d)
    <3> USE <1>1, <1>4, <2>2, <2>3, FieldTypes
        DEF EndpointInv, Moved, SameOp, SameRequests
    <3>1. SessionInv(d) BY DEF SessionInv, EstablishedState, OverState
    <3>2. OverInv(d) BY DEF OverInv, EarlyState
    <3>3. RequestInv(d) BY DEF RequestInv, OverState
    <3>4. FreshInv(d) BY DEF FreshInv
    <3> QED BY <3>1, <3>2, <3>3, <3>4
  <2> QED BY <1>4, <2>2, <2>4 DEF EarlyResponse, RemoteRinging, d
<1>5. CASE m.method = "INVITE" /\ e.op # "Terminating" /\ m.code # 180 /\ m.code >= 300
  <2> DEFINE f == SetFatalError(e, m.code)
  <2>1. /\ f \in Endpoint /\ EndpointInv(f)
        /\ f.attached => f.state \in {"End", "Error"}
        /\ f.state # "Idle" \/ e.state = "Idle"
        BY <1>2, <1>5, SetFatalErrorInv
  <2> HIDE DEF f
  <2>2. EndpointInv(SetOpReleased(f)) BY <1>5, <2>1, SetOpReleasedInv
  <2> QED BY <1>5, <2>1, <2>2 DEF EarlyResponse, f
<1> QED BY <1>3, <1>4, <1>5 DEF EarlyResponse

\* SalCallOp::processResponseCb() keeps the endpoint consistent in an established
\* dialog.
LEMMA ConfirmedResponseInv ==
  ASSUME NEW e \in Endpoint, EndpointInv(e), NEW m \in Msg, NEW compatible,
         e.op # "Terminated", e.dialog = "Confirmed",
         m.code = 491 \/ e.retry = "none",
         m.method = "INVITE" /\ e.op # "Terminating" =>
           /\ e.attached
           /\ e.state \in TransientState \cup {"OutgoingProgress", "OutgoingRinging"},
         m.method = "INVITE" /\ m.code >= 200 => e.client = "none"
  PROVE  EndpointInv(ConfirmedResponse(e, m, compatible))
<1>1. CASE e.op = "Terminating"
  <2> DEFINE b == SendBye(e)
  <2>1. b \in Endpoint BY SendByeType
  <2>2. /\ SameSession(b, e) /\ SameRequests(b, e) /\ b.released = e.released
        /\ b.releaseLater = e.releaseLater /\ b.dialog = e.dialog /\ b.bye = e.bye + 1
        /\ b.op = e.op /\ b.server = e.server
        BY <2>1 DEF SendBye, Send, SameSession, SameRequests, Endpoint
  <2> HIDE DEF b
  <2>3. EndpointInv(b)
    <3> USE <1>1, <2>1, <2>2, FieldTypes DEF EndpointInv, SameSession, SameRequests
    <3>1. SessionInv(b) BY DEF SessionInv
    <3>2. OverInv(b) BY DEF OverInv
    <3>3. RequestInv(b) BY DEF RequestInv
    <3>4. FreshInv(b) BY DEF FreshInv
    <3> QED BY <3>1, <3>2, <3>3, <3>4
  <2> QED BY <1>1, <2>3 DEF ConfirmedResponse, b
<1>2. CASE e.op \in {"Early", "Active"} /\ m.method = "INVITE" /\ m.code = 200
  <2>1. EndpointInv([Accepted(e, m.dir, compatible) EXCEPT !.op = "Active"])
        BY <1>2, AcceptedInv
  <2> QED BY <1>2, <2>1 DEF ConfirmedResponse
<1>3. CASE e.op \in {"Early", "Active"} /\ m.method = "INVITE" /\ m.code >= 300
  <2>1. m.code >= 200 BY <1>3 DEF Msg, Code
  <2>2. EndpointInv(Failure(e, m.code)) BY <1>3, <2>1, FailureInv
  <2>3. m.code # 200 BY <1>3
  <2> QED BY <1>3, <2>2, <2>3 DEF ConfirmedResponse
<1> QED BY <1>1, <1>2, <1>3 DEF ConfirmedResponse

\* Sal::processResponseEventCb() and SalCallOp::processResponseCb() keep the endpoint
\* consistent on every response its transactions can get.
LEMMA ProcessResponseInv ==
  ASSUME NEW e0 \in Endpoint, EndpointInv(e0), NEW m \in Msg, m.code # 0, NEW compatible
  PROVE  EndpointInv(ProcessResponse(e0, m, compatible))
<1> DEFINE e1 == StackResponse(e0, m)
           e == IF m.code = 491 THEN HandleRetry(e1) ELSE [e1 EXCEPT !.retry = "none"]
<1>1. CASE ~Matched(e0, m) BY <1>1 DEF ProcessResponse
<1>2. CASE Matched(e0, m)
  <2>1. e1 \in Endpoint /\ EndpointInv(e1) BY <1>2, StackResponseType, StackResponseInv
  <2>2. m.method = "INVITE" =>
          /\ SameSession(e1, e0) /\ e1.op = e0.op /\ e0.client # "none"
          /\ e1.client = (IF m.code >= 200 THEN "none" ELSE "proceeding")
        BY <1>2, StackInvite DEF Matched
  <2>3. m.method = "BYE" => e1.op = e0.op /\ e0.bye > 0 BY <1>2, StackBye
  <2> HIDE DEF e1
  <2>4. /\ e \in Endpoint /\ EndpointInv(e) /\ Asked(e, e1) /\ e.client = e1.client
        /\ m.code = 491 \/ e.retry = "none"
    <3>1. CASE m.code = 491
          BY <2>1, <3>1, HandleRetryInv, HandleRetryType
    <3>2. CASE m.code # 491
      <4>1. Asked([e1 EXCEPT !.retry = "none"], e1) /\ [e1 EXCEPT !.retry = "none"].retry = "none"
            /\ [e1 EXCEPT !.retry = "none"].client = e1.client
            BY <2>1, SetRetryAsked, NamedRetries
      <4>2. EndpointInv([e1 EXCEPT !.retry = "none"]) BY <2>1, DropRetryInv
      <4>3. [e1 EXCEPT !.retry = "none"] \in Endpoint BY <4>1 DEF Asked, SameOp
      <4> QED BY <3>2, <4>1, <4>2, <4>3
    <3> QED BY <3>1, <3>2
  <2> HIDE DEF e
  <2>5. e.op = e1.op /\ e.dialog = e1.dialog /\ e.state = e1.state /\ e.attached = e1.attached
        BY <2>4 DEF Asked, SameSession, SameOp
  <2>6. m.method = "INVITE" =>
          /\ e.state \in TransientState \cup {"OutgoingProgress", "OutgoingRinging"} \cup OverState
          /\ e.op \notin {"Terminating", "Terminated"} =>
               /\ e.attached
               /\ e.state \in TransientState \cup {"OutgoingProgress", "OutgoingRinging"}
    <3>1. SUFFICES ASSUME m.method = "INVITE"
          PROVE  /\ e.state \in TransientState \cup {"OutgoingProgress", "OutgoingRinging"} \cup OverState
                 /\ e.op \notin {"Terminating", "Terminated"} =>
                      /\ e.attached
                      /\ e.state \in TransientState \cup {"OutgoingProgress", "OutgoingRinging"}
          OBVIOUS
    <3>2. e.state = e0.state /\ e.op = e0.op /\ e.attached = e0.attached /\ e0.client # "none"
          BY <2>2, <2>5, <3>1 DEF SameSession
    <3>3. e0.state \in TransientState \cup {"OutgoingProgress", "OutgoingRinging"} \cup OverState
          BY <3>2 DEF EndpointInv, RequestInv
    <3>4. ASSUME e0.op \notin {"Terminating", "Terminated"}
          PROVE  e0.attached /\ e0.state \notin OverState
          BY <3>2, <3>3, <3>4
             DEF EndpointInv, RequestInv, OverInv, SessionInv, OverState, TransientState
    <3> QED BY <3>2, <3>3, <3>4
  <2>7. CASE e1.op = "Terminated"
    <3>1. ProcessResponse(e0, m, compatible) = e1 BY <1>2, <2>7 DEF ProcessResponse, e1
    <3> QED BY <2>1, <3>1
  <2>8. CASE e1.op # "Terminated" /\ e1.dialog \in {"None", "Null", "Early"}
    <3>1. ProcessResponse(e0, m, compatible) = EarlyResponse(e, m)
          BY <1>2, <2>8 DEF ProcessResponse, e, e1
    <3>2. ASSUME m.method = "INVITE", e.op # "Terminating", m.code = 180
          PROVE  e.state \in {"OutgoingProgress", "OutgoingRinging"}
      <4>1. e.attached /\ e.state \in TransientState \cup {"OutgoingProgress", "OutgoingRinging"}
            BY <2>5, <2>6, <2>8, <3>2
      <4>2. e.state \in EarlyState \cup {"End", "Error"}
            BY <2>4, <2>5, <2>8, <4>1 DEF EndpointInv, OverInv
      <4> QED BY <4>1, <4>2 DEF TransientState, EarlyState
    <3>3. m.method = "INVITE" => e.state # "Idle" BY <2>6 DEF TransientState, OverState
    <3>4. m.method = "INVITE" /\ e.op # "Terminating" => e.attached BY <2>5, <2>6, <2>8
    <3>5. EndpointInv(EarlyResponse(e, m))
          BY <2>4, <2>5, <2>8, <3>2, <3>3, <3>4, EarlyResponseInv
    <3> QED BY <3>1, <3>5
  <2>9. CASE e1.op # "Terminated" /\ e1.dialog = "Confirmed"
    <3>1. ProcessResponse(e0, m, compatible) = ConfirmedResponse(e, m, compatible)
          BY <1>2, <2>9 DEF ProcessResponse, e, e1
    <3>2. EndpointInv(ConfirmedResponse(e, m, compatible))
          BY <2>2, <2>4, <2>5, <2>6, <2>9, ConfirmedResponseInv
    <3> QED BY <3>1, <3>2
  <2>10. CASE e1.op # "Terminated" /\ e1.dialog \in {"TermEarly", "TermConf", "Terminated"}
    <3>1. \/ ProcessResponse(e0, m, compatible) = e
          \/ /\ ProcessResponse(e0, m, compatible) = SetFatalError(e, m.code)
             /\ m.method \in {"INVITE", "BYE"}
          BY <1>2, <2>10 DEF ProcessResponse, e, e1
    <3>2. ASSUME m.method \in {"INVITE", "BYE"} PROVE EndpointInv(SetFatalError(e, m.code))
      <4>1. e.attached => e.state \in EarlyState \cup {"End", "Error"}
            BY <2>4, <2>5, <2>10 DEF EndpointInv, OverInv
      <4>2. e.state # "Idle" \/ e.op # "Early"
        <5>1. CASE m.method = "INVITE" BY <2>6, <5>1 DEF TransientState, OverState
        <5>2. CASE m.method = "BYE"
          <6>1. e0.op # "Early" BY <2>3, <5>2, FieldTypes DEF EndpointInv, OverInv
          <6> QED BY <2>3, <2>5, <5>2, <6>1
        <5> QED BY <3>2, <5>1, <5>2
      <4> QED BY <2>4, <2>5, <2>10, <4>1, <4>2, SetFatalErrorInv
    <3> QED BY <2>4, <3>1, <3>2
  <2> QED BY <2>1, <2>7, <2>8, <2>9, <2>10, FieldTypes DEF DialogState
<1> QED BY <1>1, <1>2

(***************************************************************************)
(* The invariant of the call.                                              *)
(***************************************************************************)

\* Both endpoints start consistent.
LEMMA InitInv == ASSUME Init PROVE Inv
BY DEF Init, Inv, InitEndpoint, EndpointInv, SessionInv, OverInv, RequestInv, FreshInv,
       EstablishedState, EarlyState, OverState, TransientState

\* A handler that leaves its endpoint consistent leaves both so: the other
\* endpoint only gets messages.
LEMMA RunInv ==
  ASSUME TypeOK, Inv, NEW u \in UA, NEW d \in Endpoint, EndpointInv(d),
         ua' = [ua EXCEPT ![u] = [d EXCEPT !.out = <<>>]]
  PROVE  Inv'
<1> DEFINE x == [d EXCEPT !.out = <<>>]
<1>1. x \in Endpoint
  <2>1. <<>> \in Seq(Msg) OBVIOUS
  <2> QED BY <2>1, Zenon DEF Endpoint
<1>2. Neutral(x, d) BY <1>1 DEF Neutral, SameSession, SameOp, SameRequests, Endpoint
<1> HIDE DEF x
<1>3. EndpointInv(x) BY <1>1, <1>2, NeutralInv
<1>4. \A v \in UA : ua'[v] = IF v = u THEN x ELSE ua[v] BY DEF TypeOK, x
<1> QED BY <1>3, <1>4, Zenon DEF Inv

\* Every step keeps the invariant.
LEMMA NextInv == ASSUME TypeOK, Inv, [Next]_vars PROVE Inv'
<1>0. ua \in [UA -> Endpoint] /\ net \in [UA -> Seq(Msg)] BY DEF TypeOK
<1>1. SUFFICES ASSUME NEW u \in UA, User(u) \/ Internal(u) \/ InviteTimeout(u) PROVE Inv'
  <2>1. CASE UNCHANGED vars BY <2>1 DEF vars, Inv
  <2>2. CASE Next BY <2>2 DEF Next
  <2> QED BY <2>1, <2>2
<1> DEFINE e == ua[u]
<1>2. e \in Endpoint /\ EndpointInv(e) BY <1>0 DEF Inv
<1> HIDE DEF e
<1>3. ASSUME NEW d \in Endpoint, EndpointInv(d), Run(u, d) \/ Handle(u, d) PROVE Inv'
      BY <1>3, RunInv DEF Run, Handle
<1>10. CASE Invite(u)
  <2>1. e.state = "Idle" /\ ~e.incoming /\ ~e.attached BY <1>10 DEF Invite, e
  <2> DEFINE d == InitiateOutgoing(e)
  <2>2. d \in Endpoint /\ EndpointInv(d) /\ d.state = "OutgoingInit"
        BY <1>2, <2>1, StartType, InitiateOutgoingInv
  <2> HIDE DEF d
  <2>3. StartInvite(d) \in Endpoint /\ EndpointInv(StartInvite(d))
        BY <2>2, StartType, StartInviteInv
  <2>4. Run(u, d) \/ Run(u, StartInvite(d)) BY <1>10 DEF Invite, d, e
  <2> QED BY <1>3, <2>2, <2>3, <2>4
<1>11. CASE GatheringDone(u)
  <2>1. StartInvite(e) \in Endpoint /\ EndpointInv(StartInvite(e))
        BY <1>2, <1>11, StartType, StartInviteInv DEF GatheringDone, e
  <2> QED BY <1>3, <1>11, <2>1 DEF GatheringDone, e
<1>12. CASE Accept(u)
  <2>1. StartAccept(e) \in Endpoint /\ EndpointInv(StartAccept(e))
        BY <1>2, <1>12, StartType, StartAcceptInv DEF Accept, e
  <2> QED BY <1>3, <1>12, <2>1 DEF Accept, e
<1>13. CASE TerminateCall(u) \/ IncomingTimeout(u)
  <2>1. e.state \notin OverState \cup {"Idle"}
        BY <1>13 DEF TerminateCall, IncomingTimeout, OverState, e
  <2>2. Terminate(e) \in Endpoint /\ EndpointInv(Terminate(e))
        BY <1>2, <2>1, TerminateType, TerminateInv
  <2>3. Run(u, Terminate(e)) BY <1>13 DEF TerminateCall, IncomingTimeout, e
  <2> QED BY <1>3, <2>2, <2>3
<1>14. CASE PauseCall(u)
  <2>1. Pause(e) \in Endpoint /\ EndpointInv(Pause(e))
        BY <1>2, <1>14, RenegotiateType, PauseInv DEF PauseCall, e
  <2> QED BY <1>3, <1>14, <2>1 DEF PauseCall, e
<1>15. CASE ResumeCall(u)
  <2>1. Resume(e) \in Endpoint /\ EndpointInv(Resume(e))
        BY <1>2, RenegotiateType, ResumeInv
  <2> QED BY <1>3, <1>15, <2>1 DEF ResumeCall, e
<1>16. CASE UpdateCall(u)
  <2>1. CanUpdate(e) BY <1>16 DEF UpdateCall, e
  <2>2. Update(e) \in Endpoint /\ EndpointInv(Update(e))
        BY <1>2, <2>1, RenegotiateType, UpdateInv
  <2> QED BY <1>3, <1>16, <2>2 DEF UpdateCall, e
<1>17. CASE AcceptDeferredUpdate(u)
  <2>1. AcceptUpdateAsked(e) \in Endpoint /\ EndpointInv(AcceptUpdateAsked(e))
        BY <1>2, <1>17, AcceptUpdateType, AcceptUpdateAskedInv DEF AcceptDeferredUpdate, e
  <2> QED BY <1>3, <1>17, <2>1 DEF AcceptDeferredUpdate, e
<1>18. CASE Dtmf(u) \/ InfoDequeued(u)
  <2>1. /\ SendDtmf(e) \in Endpoint /\ SendQueuedInfo(e) \in Endpoint
        /\ EndpointInv(SendDtmf(e)) /\ EndpointInv(SendQueuedInfo(e))
        BY <1>2, InfoType, InfoInv
  <2>2. Run(u, SendDtmf(e)) \/ Run(u, SendQueuedInfo(e)) BY <1>18 DEF Dtmf, InfoDequeued, e
  <2> QED BY <1>3, <2>1, <2>2
<1>19. CASE ReceiveInvite(u)
  <2> DEFINE m == Head(net[u])
  <2>1. net[u] # <<>> /\ m.method = "INVITE" /\ m.code = 0
        BY <1>19 DEF ReceiveInvite, Arrives
  <2>2. m \in Msg BY <1>0, <2>1
  <2>3. m.dir \in Dir BY <2>1, <2>2 DEF Msg
  <2> HIDE DEF m
  <2>4. \/ Unknown(e) /\ (Handle(u, ReceiveCall(e, m)) \/ Handle(u, RefuseCall(e, 486)))
        \/ e.dialog = "Confirmed" /\ \E x, y \in BOOLEAN : Handle(u, ReceiveReinvite(e, m, x, y))
        \/ Handle(u, Send(e, Response("INVITE", 481, "none")))
        BY <1>19, Zenon DEF ReceiveInvite, e, m
  <2>5. CASE Unknown(e) /\ Handle(u, ReceiveCall(e, m))
    <3>1. ReceiveCall(e, m) \in Endpoint /\ EndpointInv(ReceiveCall(e, m))
          BY <1>2, <2>2, <2>3, <2>5, ReceiveCallType, ReceiveCallInv
    <3> QED BY <1>3, <2>5, <3>1
  <2>6. CASE Unknown(e) /\ Handle(u, RefuseCall(e, 486))
    <3>1. 486 \in Code /\ 486 >= 300 /\ 486 # 0 BY DEF Code
    <3>2. RefuseCall(e, 486) \in Endpoint /\ EndpointInv(RefuseCall(e, 486))
          BY <1>2, <2>6, <3>1, RefuseCallType, RefuseCallInv
    <3> QED BY <1>3, <2>6, <3>2
  <2>7. CASE e.dialog = "Confirmed" /\ \E x, y \in BOOLEAN : Handle(u, ReceiveReinvite(e, m, x, y))
    <3>1. PICK x \in BOOLEAN, y \in BOOLEAN : Handle(u, ReceiveReinvite(e, m, x, y)) BY <2>7
    <3>2. ReceiveReinvite(e, m, x, y) \in Endpoint /\ EndpointInv(ReceiveReinvite(e, m, x, y))
          BY <1>2, <2>2, <2>3, <2>7, ReceiveReinviteType, ReceiveReinviteInv
    <3> QED BY <1>3, <3>1, <3>2
  <2>8. CASE Handle(u, Send(e, Response("INVITE", 481, "none")))
    <3>1. /\ Send(e, Response("INVITE", 481, "none")) \in Endpoint
          /\ EndpointInv(Send(e, Response("INVITE", 481, "none")))
          BY <1>2, SendResponseType, InfoInv DEF Method, Code
    <3> QED BY <1>3, <2>8, <3>1
  <2> QED BY <2>4, <2>5, <2>6, <2>7, <2>8
<1>20. CASE ReceiveOther(u)
  <2>1. /\ ReceiveCancel(e) \in Endpoint /\ EndpointInv(ReceiveCancel(e))
        /\ ReceiveBye(e) \in Endpoint /\ EndpointInv(ReceiveBye(e))
        /\ ReceiveInfo(e) \in Endpoint /\ EndpointInv(ReceiveInfo(e))
        BY <1>2, ReceiveCancelType, ReceiveCancelInv, ReceiveByeType, ReceiveByeInv,
           ReceiveInfoType, InfoInv
  <2>2. \/ Handle(u, ReceiveCancel(e)) \/ Handle(u, ReceiveBye(e)) \/ Handle(u, ReceiveInfo(e))
        BY <1>20 DEF ReceiveOther, e
  <2> QED BY <1>3, <2>1, <2>2
<1>21. CASE ReceiveResponse(u)
  <2> DEFINE m == Head(net[u])
  <2>1. net[u] # <<>> /\ m.code # 0 BY <1>21 DEF ReceiveResponse
  <2>2. m \in Msg BY <1>0, <2>1
  <2> HIDE DEF m
  <2>3. PICK x \in BOOLEAN : Handle(u, ProcessResponse(e, m, x))
        BY <1>21, Zenon DEF ReceiveResponse, e, m
  <2>4. ProcessResponse(e, m, x) \in Endpoint /\ EndpointInv(ProcessResponse(e, m, x))
        BY <1>2, <2>1, <2>2, ProcessResponseType, ProcessResponseInv
  <2> QED BY <1>3, <2>3, <2>4
<1>22. CASE InviteTimeout(u)
  <2>1. ProcessTimeout(e) \in Endpoint /\ EndpointInv(ProcessTimeout(e))
        BY <1>2, <1>22, ProcessTimeoutType, ProcessTimeoutInv DEF InviteTimeout, e
  <2>2. ua' = [ua EXCEPT ![u] = [ProcessTimeout(e) EXCEPT !.out = <<>>]]
        BY <1>22 DEF InviteTimeout, e
  <2> QED BY <2>1, <2>2, RunInv
<1>23. CASE DialogTerminated(u)
  <2>1. /\ ProcessDialogTerminated(e) \in Endpoint
        /\ EndpointInv(ProcessDialogTerminated(e))
        BY <1>2, <1>23, DialogTerminatedType, ProcessDialogTerminatedInv
           DEF DialogTerminated, e
  <2> QED BY <1>3, <1>23, <2>1 DEF DialogTerminated, e
<1>24. CASE ReleaseLater(u)
  <2>1. SetCallAsReleased(e) \in Endpoint /\ EndpointInv(SetCallAsReleased(e))
        BY <1>2, <1>24, DialogTerminatedType, SetCallAsReleasedInv DEF ReleaseLater, e
  <2> QED BY <1>3, <1>24, <2>1 DEF ReleaseLater, e
<1>25. CASE RetryTimer(u)
  <2>1. /\ e.timers > 0
        /\ e.retry = "none" \/ e.dialog # "Confirmed" \/ ~RequestPending(e)
        BY <1>25 DEF RetryTimer, e
  <2>2. RunRetryFunc(e) \in Endpoint /\ EndpointInv(RunRetryFunc(e))
        BY <1>2, <2>1, RunRetryFuncType, RunRetryFuncInv
  <2> QED BY <1>3, <1>25, <2>2 DEF RetryTimer, e
<1>26. CASE ExecuteLater(u)
  <2>1. ExecutePendingActions(e) \in Endpoint /\ EndpointInv(ExecutePendingActions(e))
        BY <1>2, ExecutePendingActionsType, ExecutePendingActionsInv
  <2> QED BY <1>3, <1>26, <2>1 DEF ExecuteLater, e
<1> QED BY <1>1, <1>10, <1>11, <1>12, <1>13, <1>14, <1>15, <1>16, <1>17, <1>18, <1>19,
           <1>20, <1>21, <1>22, <1>23, <1>24, <1>25, <1>26 DEF User, Internal

\* Each endpoint stays consistent, whatever its application does, whatever the
\* peer sends and in whatever order: session, op, dialog and transactions of an
\* endpoint agree on whether the call is going on.
THEOREM EndpointConsistent == Spec => []Inv
<1>1. Init => TypeOK /\ Inv BY InitType, InitInv
<1>2. TypeOK /\ Inv /\ [Next]_vars => (TypeOK /\ Inv)' BY NextType, NextInv
<1> QED BY <1>1, <1>2, PTL DEF Spec

\* setState() never aborts the program: no handler, in any order of events,
\* takes a session out of End, Error or Released other than by releasing it.
THEOREM NoIllegalTransition == Spec => []LegalTransitions
<1>1. Inv => LegalTransitions BY DEF Inv, EndpointInv, SessionInv, LegalTransitions
<1> QED BY <1>1, EndpointConsistent, PTL

\* A retry timer that runs its function runs it on a session that is going on:
\* terminating a call in between leaves a BYE pending, which holds the timer back
\* until the dialog is gone.
THEOREM RetryIsSafe == Spec => []RetryTargetsLiveSession
<1>1. TypeOK /\ Inv => RetryTargetsLiveSession
  <2>1. SUFFICES ASSUME TypeOK, Inv, NEW u \in UA, ua[u].retry # "none",
                        ua[u].dialog = "Confirmed", ~RequestPending(ua[u])
                 PROVE  ua[u].attached /\ ua[u].state \notin OverState
        BY DEF RetryTargetsLiveSession
  <2> DEFINE e == ua[u]
  <2>2. e \in Endpoint /\ EndpointInv(e) BY <2>1 DEF TypeOK, Inv
  <2>3. e.bye = 0 BY <2>1, <2>2, FieldTypes DEF RequestPending
  <2>4. e.state \notin OverState BY <2>1, <2>2, <2>3 DEF EndpointInv, RequestInv
  <2>5. e.state # "Idle"
        BY <2>1, <2>2, <2>4 DEF EndpointInv, RequestInv, TransientState
  <2> QED BY <2>2, <2>4, <2>5 DEF EndpointInv, SessionInv, OverState
<1> QED BY <1>1, TypeCorrect, EndpointConsistent, PTL
=============================================================================
