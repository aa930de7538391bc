----------------------------- MODULE CallProofs -----------------------------
(***************************************************************************)
(* Proofs about module Call.                                               *)
(*                                                                         *)
(* First the handlers of CallSession: each one takes an endpoint record to *)
(* an endpoint record.  The lemmas follow the definitions, from the        *)
(* helpers up to the handlers the actions of Call run.                     *)
(***************************************************************************)
EXTENDS Call, TLAPS

(***************************************************************************)
(* Messages and the session's state.                                       *)
(***************************************************************************)

\* A response of the model is a message.
LEMMA MsgType ==
  ASSUME NEW me \in Method, NEW code \in Code \ {0}, NEW dir \in Dir \cup {"none"}
  PROVE  Response(me, code, dir) \in Msg
BY DEF Response, Msg

\* Sending keeps an endpoint an endpoint (SalOp::sendRequest).
LEMMA SendType ==
  ASSUME NEW e \in Endpoint, NEW m \in Msg
  PROVE  Send(e, m) \in Endpoint
<1>1. Append(e.out, m) \in Seq(Msg) BY DEF Endpoint
<1> QED BY <1>1, Zenon DEF Send, Endpoint

\* Answering a request keeps an endpoint an endpoint.
LEMMA SendResponseType ==
  ASSUME NEW e \in Endpoint, NEW me \in Method, NEW code \in Code \ {0}
  PROVE  Send(e, Response(me, code, "none")) \in Endpoint
BY SendType, MsgType

\* SalOp::release() keeps an endpoint an endpoint.
LEMMA OpReleaseType ==
  ASSUME NEW e \in Endpoint
  PROVE  OpRelease(e) \in Endpoint
BY Zenon DEF OpRelease, Endpoint, OpState

\* CallSessionPrivate::setReleased() keeps an endpoint an endpoint.
LEMMA SetSessionReleasedType ==
  ASSUME NEW e \in Endpoint
  PROVE  SetSessionReleased(e) \in Endpoint
<1> DEFINE d == IF e.attached THEN OpRelease(e) ELSE e
<1>1. d \in Endpoint BY OpReleaseType, Zenon
<1>2. 0 \in Nat OBVIOUS
<1> HIDE DEF d
<1>3. [d EXCEPT !.pendingActions = 0] \in Endpoint BY <1>1, <1>2, Zenon DEF Endpoint
<1> QED BY <1>3, Zenon DEF SetSessionReleased, d

\* CallSessionPrivate::setState() keeps an endpoint an endpoint.
LEMMA SetStateType ==
  ASSUME NEW e \in Endpoint, NEW s \in CallState
  PROVE  SetState(e, s) \in Endpoint
<1> DEFINE noted == [e EXCEPT !.prevState = e.state,
                              !.lastStable = IF e.state \in {"StreamsRunning", "Paused"}
                                             THEN e.state ELSE @]
           moved == [noted EXCEPT !.state = s, !.execLater = TRUE]
<1>1. noted \in Endpoint BY Zenon DEF Endpoint
<1> HIDE DEF noted
<1>2. moved \in Endpoint BY <1>1, Zenon DEF Endpoint
<1>3. [noted EXCEPT !.fatal = TRUE] \in Endpoint BY <1>1, Zenon DEF Endpoint
<1>4. SetSessionReleased(moved) \in Endpoint BY <1>2, SetSessionReleasedType, Zenon
<1> QED BY <1>1, <1>2, <1>3, <1>4, Zenon DEF SetState, noted

(***************************************************************************)
(* Media directions.                                                       *)
(***************************************************************************)

\* What an endpoint offers and answers is a direction.
LEMMA DirType ==
  /\ \A e : LocalDir(e) \in Dir
  /\ \A l \in Dir : \A a : ComputeDirOutgoing(l, a) \in Dir
  /\ \A l, a \in Dir : ComputeDirIncoming(l, a) \in Dir
BY DEF LocalDir, ComputeDirOutgoing, ComputeDirIncoming, Dir

(***************************************************************************)
(* Requests and responses of SalCallOp.                                    *)
(***************************************************************************)

\* A final response keeps an endpoint an endpoint.
LEMMA ReplyType ==
  ASSUME NEW e \in Endpoint, NEW code \in Code \ {0}, NEW dir \in Dir \cup {"none"}
  PROVE  Reply(e, code, dir) \in Endpoint
<1> DEFINE dlg == IF code >= 300 /\ e.dialog \in {"Null", "Early"}
                  THEN "TermEarly" ELSE e.dialog
           d == [e EXCEPT !.server = FALSE, !.dialog = dlg]
<1>1. dlg \in DialogState BY Zenon DEF Endpoint, DialogState
<1> HIDE DEF dlg
<1>2. d \in Endpoint BY <1>1, Zenon DEF Endpoint
<1>3. Response("INVITE", code, dir) \in Msg BY MsgType DEF Method
<1> HIDE DEF d
<1>4. Send(d, Response("INVITE", code, dir)) \in Endpoint BY <1>2, <1>3, SendType, Zenon
<1> QED BY <1>4, Zenon DEF Reply, d, dlg

\* An INVITE keeps an endpoint an endpoint.
LEMMA SendInviteType ==
  ASSUME NEW e \in Endpoint, NEW dir \in Dir
  PROVE  SendInvite(e, dir) \in Endpoint
<1> DEFINE d == [e EXCEPT !.client = "calling", !.lastRequest = "INVITE", !.offer = dir]
<1>1. d \in Endpoint BY Zenon DEF Endpoint, Method, ClientState
<1>2. Request("INVITE", dir) \in Msg BY DEF Request, Msg, Method, Code
<1> HIDE DEF d
<1>3. Send(d, Request("INVITE", dir)) \in Endpoint BY <1>1, <1>2, SendType, Zenon
<1> QED BY <1>3, Zenon DEF SendInvite, d

\* A BYE keeps an endpoint an endpoint.
LEMMA SendByeType ==
  ASSUME NEW e \in Endpoint
  PROVE  SendBye(e) \in Endpoint
<1> DEFINE d == [e EXCEPT !.bye = @ + 1, !.lastRequest = "BYE"]
<1>1. e.bye + 1 \in Nat BY DEF Endpoint
<1>2. d \in Endpoint BY <1>1, Zenon DEF Endpoint, Method
<1>3. Request("BYE", "none") \in Msg BY DEF Request, Msg, Method, Code
<1> HIDE DEF d
<1>4. Send(d, Request("BYE", "none")) \in Endpoint BY <1>2, <1>3, SendType, Zenon
<1> QED BY <1>4, Zenon DEF SendBye, d

\* SalCallOp::update() keeps an endpoint an endpoint.
LEMMA OpUpdateType ==
  ASSUME NEW e \in Endpoint
  PROVE  OpUpdate(e) \in Endpoint
BY SendInviteType, DirType, Zenon DEF OpUpdate

\* SalCallOp::accept() keeps an endpoint an endpoint.
LEMMA OpAcceptType ==
  ASSUME NEW e \in Endpoint
  PROVE  OpAccept(e) \in Endpoint
<1> DEFINE a == ComputeDirIncoming(LocalDir(e), e.remote)
           r == Reply(e, 200, a)
<1>1. e.remote \in Dir BY DEF Endpoint
<1>2. a \in Dir BY <1>1, DirType, Zenon
<1>3. r \in Endpoint BY <1>2, ReplyType DEF Code
<1> HIDE DEF a, r
<1> DEFINE dlg == IF r.dialog \in {"Null", "Early"} THEN "Confirmed" ELSE r.dialog
           o == IF r.op = "Early" THEN "Active" ELSE r.op
<1>4. dlg \in DialogState BY <1>3, Zenon DEF Endpoint, DialogState
<1>5. o \in OpState BY <1>3, Zenon DEF Endpoint, OpState
<1> HIDE DEF dlg, o
<1>6. [r EXCEPT !.dialog = dlg, !.op = o, !.result = a] \in Endpoint
      BY <1>2, <1>3, <1>4, <1>5, Zenon DEF Endpoint
<1> QED BY <1>6, Zenon DEF OpAccept, a, r, dlg, o

\* SalCallOp::cancelInvite() keeps an endpoint an endpoint.
LEMMA CancelInviteType ==
  ASSUME NEW e \in Endpoint
  PROVE  CancelInvite(e) \in Endpoint
<1> DEFINE d == [e EXCEPT !.lastRequest = "CANCEL"]
<1>1. d \in Endpoint BY Zenon DEF Endpoint, Method
<1>2. Request("CANCEL", "none") \in Msg BY DEF Request, Msg, Method, Code
<1>3. [e EXCEPT !.dialog = "TermEarly"] \in Endpoint BY Zenon DEF Endpoint, DialogState
<1> HIDE DEF d
<1>4. Send(d, Request("CANCEL", "none")) \in Endpoint BY <1>1, <1>2, SendType, Zenon
<1> QED BY <1>3, <1>4, Zenon DEF CancelInvite, d

\* Setting the state of the op keeps an endpoint an endpoint.
LEMMA SetOpType ==
  ASSUME NEW e \in Endpoint, NEW s \in OpState
  PROVE  [e EXCEPT !.op = s] \in Endpoint
BY Zenon DEF Endpoint

\* SalCallOp::cancellingInvite() keeps an endpoint an endpoint.
LEMMA CancellingInviteType ==
  ASSUME NEW e \in Endpoint
  PROVE  CancellingInvite(e) \in Endpoint
<1>1. "Terminating" \in OpState BY DEF OpState
<1> QED BY <1>1, CancelInviteType, SetOpType, Zenon DEF CancellingInvite

\* SalCallOp::terminate() keeps an endpoint an endpoint.
LEMMA OpTerminateType ==
  ASSUME NEW e \in Endpoint
  PROVE  OpTerminate(e) \in Endpoint
<1>1. "Terminating" \in OpState /\ "Terminated" \in OpState BY DEF OpState
<1>2. [SendBye(e) EXCEPT !.op = "Terminating"] \in Endpoint
      BY <1>1, SendByeType, SetOpType, Zenon
<1>3. Reply(e, 603, "none") \in Endpoint BY ReplyType DEF Code
<1>4. [Reply(e, 603, "none") EXCEPT !.op = "Terminated"] \in Endpoint
      BY <1>1, <1>3, SetOpType, Zenon
<1>5. CancellingInvite(e) \in Endpoint BY CancellingInviteType, Zenon
<1>6. [e EXCEPT !.op = "Terminating"] \in Endpoint BY <1>1, SetOpType, Zenon
<1> QED BY <1>2, <1>4, <1>5, <1>6 DEF OpTerminate

\* SalCallOp::setReleased() keeps an endpoint an endpoint.
LEMMA SetOpReleasedType ==
  ASSUME NEW e \in Endpoint
  PROVE  SetOpReleased(e) \in Endpoint
<1> DEFINE dead == [e EXCEPT !.op = "Terminated", !.released = TRUE]
           d == IF e.attached THEN SetState(dead, "Released") ELSE dead
<1>1. dead \in Endpoint BY Zenon DEF Endpoint, OpState
<1>2. "Released" \in CallState BY DEF CallState
<1> HIDE DEF dead
<1>3. d \in Endpoint BY <1>1, <1>2, SetStateType, Zenon
<1> HIDE DEF d
<1>4. [d EXCEPT !.dialog = "None"] \in Endpoint BY <1>3, Zenon DEF Endpoint, DialogState
<1> QED BY <1>4, Zenon DEF SetOpReleased, d, dead

(***************************************************************************)
(* Callbacks from the SAL.                                                 *)
(***************************************************************************)

\* The states the callbacks name are states.
LEMMA NamedStates ==
  /\ CallState \cap OverState = OverState
  /\ "Updating" \in CallState /\ "UpdatedByRemote" \in CallState
  /\ "StreamsRunning" \in CallState /\ "PausedByRemote" \in CallState
  /\ "Paused" \in CallState /\ "Connected" \in CallState /\ "Idle" \in CallState
  /\ "End" \in CallState /\ "Error" \in CallState /\ "Released" \in CallState
  /\ "Pausing" \in CallState /\ "Resuming" \in CallState
  /\ "OutgoingInit" \in CallState /\ "OutgoingProgress" \in CallState
  /\ "OutgoingRinging" \in CallState /\ "IncomingReceived" \in CallState
BY DEF CallState, OverState

\* The fields setState() restores from hold states.
LEMMA StateFields ==
  ASSUME NEW e \in Endpoint
  PROVE  e.state \in CallState /\ e.prevState \in CallState /\ e.lastStable \in CallState
BY DEF Endpoint

\* acceptUpdate() keeps an endpoint an endpoint.
LEMMA AcceptUpdateType ==
  ASSUME NEW e \in Endpoint
  PROVE  /\ \A s \in CallState : AcceptUpdate(e, s) \in Endpoint
         /\ AcceptUpdateAsked(e) \in Endpoint
<1>1. ASSUME NEW s \in CallState PROVE AcceptUpdate(e, s) \in Endpoint
      BY OpAcceptType, SetStateType, Zenon DEF AcceptUpdate
<1> QED BY <1>1, StateFields, Zenon DEF AcceptUpdateAsked

\* CallSessionPrivate::updatedByRemote() keeps an endpoint an endpoint.
LEMMA UpdatedByRemoteType ==
  ASSUME NEW e \in Endpoint, NEW defer
  PROVE  UpdatedByRemote(e, defer) \in Endpoint
BY SetStateType, AcceptUpdateType, NamedStates, Zenon DEF UpdatedByRemote

\* MediaSessionPrivate::updated() keeps an endpoint an endpoint.
LEMMA UpdatedType ==
  ASSUME NEW e \in Endpoint, NEW defer
  PROVE  Updated(e, defer) \in Endpoint
<1>1. AcceptUpdate(e, "StreamsRunning") \in Endpoint BY AcceptUpdateType, NamedStates, Zenon
<1>2. AcceptUpdate(e, "PausedByRemote") \in Endpoint BY AcceptUpdateType, NamedStates, Zenon
<1>3. UpdatedByRemote(e, defer) \in Endpoint BY UpdatedByRemoteType, Zenon
<1>4. SetState(e, "UpdatedByRemote") \in Endpoint BY SetStateType, NamedStates, Zenon
<1>5. AcceptUpdate(SetState(e, "UpdatedByRemote"), e.state) \in Endpoint
      BY <1>4, AcceptUpdateType, StateFields, Zenon
<1> QED BY <1>1, <1>2, <1>3, <1>5, SMT DEF Updated

\* MediaSessionPrivate::updating() keeps an endpoint an endpoint.
LEMMA UpdatingType ==
  ASSUME NEW e \in Endpoint, NEW compatible, NEW defer
  PROVE  Updating(e, compatible, defer) \in Endpoint
<1>1. Reply(e, 481, "none") \in Endpoint /\ Reply(e, 488, "none") \in Endpoint
      BY ReplyType DEF Code
<1> QED BY <1>1, UpdatedType, Zenon DEF Updating

\* MediaSessionPrivate::accepted() keeps an endpoint an endpoint.
LEMMA AcceptedType ==
  ASSUME NEW e \in Endpoint, NEW answered, NEW compatible
  PROVE  Accepted(e, answered, compatible) \in Endpoint
<1> DEFINE c == IF e.state \in {"OutgoingProgress", "OutgoingRinging"}
                THEN SetState(e, "Connected") ELSE e
<1>1. c \in Endpoint BY SetStateType, NamedStates, Zenon
<1> HIDE DEF c
<1> DEFINE md == ComputeDirOutgoing(c.offer, answered)
           next == AcceptedNextState(c, md)
<1>2. c.offer \in Dir BY <1>1 DEF Endpoint
<1>3. md \in Dir BY <1>2, DirType, Zenon
<1>4. next \in CallState BY NamedStates, Zenon DEF AcceptedNextState
<1> HIDE DEF md, next
<1>5. [c EXCEPT !.result = md] \in Endpoint BY <1>1, <1>3, Zenon DEF Endpoint
<1>6. SetState([c EXCEPT !.result = md], next) \in Endpoint
      BY <1>4, <1>5, SetStateType, Zenon
<1>7. SetState([c EXCEPT !.result = md], c.prevState) \in Endpoint
      BY <1>1, <1>5, StateFields, SetStateType, Zenon
<1>8. Abort(c) \in Endpoint
      BY <1>1, OpTerminateType, SetStateType, NamedStates, Zenon DEF Abort
<1> QED BY <1>1, <1>6, <1>7, <1>8, Zenon DEF Accepted, c, md, next

\* MediaSessionPrivate::failure() keeps an endpoint an endpoint.
LEMMA FailureType ==
  ASSUME NEW e \in Endpoint, NEW code
  PROVE  Failure(e, code) \in Endpoint
<1>1. /\ SetState(e, e.lastStable) \in Endpoint /\ SetState(e, e.prevState) \in Endpoint
      /\ SetState(e, "Error") \in Endpoint /\ SetState(e, "End") \in Endpoint
      BY SetStateType, StateFields, NamedStates, Zenon
<1> QED BY <1>1, SMT DEF Failure

\* remoteRinging() and terminated() keep an endpoint an endpoint.
LEMMA RingingTerminatedType ==
  ASSUME NEW e \in Endpoint
  PROVE  RemoteRinging(e) \in Endpoint /\ Terminated(e) \in Endpoint
BY SetStateType, NamedStates, Zenon DEF RemoteRinging, Terminated

(***************************************************************************)
(* Events from the stack.                                                  *)
(***************************************************************************)

\* Setting or dropping the retry function keeps an endpoint an endpoint.
LEMMA SetRetryType ==
  ASSUME NEW e \in Endpoint, NEW r \in RetryFunc
  PROVE  [e EXCEPT !.retry = r] \in Endpoint
BY Zenon DEF Endpoint

\* The retry functions of pause(), resume() and update() are retry functions.
LEMMA NamedRetries ==
  /\ "none" \in RetryFunc /\ "pause" \in RetryFunc
  /\ "resume" \in RetryFunc /\ "update" \in RetryFunc
BY DEF RetryFunc

\* SalOp::handleRetry() keeps an endpoint an endpoint.
LEMMA HandleRetryType ==
  ASSUME NEW e \in Endpoint
  PROVE  HandleRetry(e) \in Endpoint
<1>1. e.timers + 1 \in Nat BY DEF Endpoint
<1>2. [e EXCEPT !.timers = @ + 1] \in Endpoint BY <1>1, Zenon DEF Endpoint
<1>3. [e EXCEPT !.retry = "none"] \in Endpoint BY SetRetryType, NamedRetries, Zenon
<1> QED BY <1>2, <1>3, SMT DEF HandleRetry

\* What a response does to the stack keeps an endpoint an endpoint.
LEMMA StackResponseType ==
  ASSUME NEW e \in Endpoint, NEW m \in Msg, Matched(e, m)
  PROVE  StackResponse(e, m) \in Endpoint
<1> DEFINE ok == m.code >= 200 /\ m.code < 300
           cl == IF m.code >= 200 THEN "none" ELSE "proceeding"
           di == CASE e.released -> e.dialog
                   [] ~e.released /\ e.dialog \in {"None", "Early"} /\ ok -> "Confirmed"
                   [] ~e.released /\ e.dialog = "None" /\ m.code = 180 -> "Early"
                   [] ~e.released /\ e.dialog = "Early" /\ m.code >= 200 /\ ~ok -> "TermEarly"
                   [] OTHER -> e.dialog
           db == IF e.dialog = "Confirmed" THEN "TermConf" ELSE e.dialog
<1>1. e.dialog \in DialogState BY DEF Endpoint
<1>2. cl \in ClientState /\ di \in DialogState /\ db \in DialogState
      BY <1>1 DEF ClientState, DialogState
<1>3. CASE m.method = "INVITE"
  <2> HIDE DEF cl, di
  <2>1. [e EXCEPT !.client = cl, !.dialog = di] \in Endpoint BY <1>2, Zenon DEF Endpoint
  <2> QED BY <1>3, <2>1 DEF StackResponse, cl, di
<1>4. CASE m.method = "BYE"
  <2>1. e.bye \in Nat /\ e.bye > 0 BY <1>4 DEF Matched, Endpoint
  <2>2. e.bye - 1 \in Nat BY <2>1
  <2> HIDE DEF db
  <2>3. [e EXCEPT !.bye = @ - 1, !.dialog = db] \in Endpoint BY <1>2, <2>2, Zenon DEF Endpoint
  <2> QED BY <1>4, <2>3 DEF StackResponse, db
<1>5. CASE m.method = "INFO"
  <2>1. [e EXCEPT !.info = "none"] \in Endpoint BY Zenon DEF Endpoint, InfoState
  <2> QED BY <1>5, <2>1 DEF StackResponse
<1>6. CASE m.method \notin {"INVITE", "BYE", "INFO"}
  BY <1>6 DEF StackResponse
<1> QED BY <1>3, <1>4, <1>5, <1>6

\* A response that ends the call keeps an endpoint an endpoint.
LEMMA SetFatalErrorType ==
  ASSUME NEW e \in Endpoint, NEW code
  PROVE  SetFatalError(e, code) \in Endpoint
<1>1. "Terminating" \in OpState BY DEF OpState
<1> QED BY <1>1, SetOpType, FailureType, Zenon DEF SetFatalError

\* A response in an early dialog keeps an endpoint an endpoint.
LEMMA EarlyResponseType ==
  ASSUME NEW e \in Endpoint, NEW m \in Msg
  PROVE  EarlyResponse(e, m) \in Endpoint
<1>1. SetOpReleased(e) \in Endpoint BY SetOpReleasedType, Zenon
<1>2. CancellingInvite(e) \in Endpoint BY CancellingInviteType, Zenon
<1>3. RemoteRinging(e) \in Endpoint BY RingingTerminatedType, Zenon
<1>4. SetFatalError(e, m.code) \in Endpoint BY SetFatalErrorType, Zenon
<1>5. SetOpReleased(SetFatalError(e, m.code)) \in Endpoint BY <1>4, SetOpReleasedType, Zenon
<1> QED BY <1>1, <1>2, <1>3, <1>4, <1>5, SMT DEF EarlyResponse

\* A response in an established dialog keeps an endpoint an endpoint.
LEMMA ConfirmedResponseType ==
  ASSUME NEW e \in Endpoint, NEW m \in Msg, NEW compatible
  PROVE  ConfirmedResponse(e, m, compatible) \in Endpoint
<1>1. SendBye(e) \in Endpoint BY SendByeType, Zenon
<1>2. "Active" \in OpState BY DEF OpState
<1>3. [Accepted(e, m.dir, compatible) EXCEPT !.op = "Active"] \in Endpoint
      BY <1>2, AcceptedType, SetOpType, Zenon
<1>4. Failure(e, m.code) \in Endpoint BY FailureType, Zenon
<1> QED BY <1>1, <1>3, <1>4, SMT DEF ConfirmedResponse

\* SalCallOp::processResponseCb() keeps an endpoint an endpoint.
LEMMA ProcessResponseType ==
  ASSUME NEW e0 \in Endpoint, NEW m \in Msg, NEW compatible
  PROVE  ProcessResponse(e0, m, compatible) \in Endpoint
<1>1. CASE ~Matched(e0, m) BY <1>1, Zenon DEF ProcessResponse
<1>2. CASE Matched(e0, m)
  <2> DEFINE e1 == StackResponse(e0, m)
             e == IF m.code = 491 THEN HandleRetry(e1) ELSE [e1 EXCEPT !.retry = "none"]
  <2>1. e1 \in Endpoint BY <1>2, StackResponseType, Zenon
  <2> HIDE DEF e1
  <2>2. e \in Endpoint BY <2>1, HandleRetryType, SetRetryType, NamedRetries, Zenon
  <2> HIDE DEF e
  <2>3. EarlyResponse(e, m) \in Endpoint BY <2>2, EarlyResponseType, Zenon
  <2>4. ConfirmedResponse(e, m, compatible) \in Endpoint BY <2>2, ConfirmedResponseType, Zenon
  <2>5. SetFatalError(e, m.code) \in Endpoint BY <2>2, SetFatalErrorType, Zenon
  <2> QED BY <1>2, <2>1, <2>2, <2>3, <2>4, <2>5, SMT DEF ProcessResponse, e, e1
<1> QED BY <1>1, <1>2

\* The first INVITE keeps an endpoint an endpoint, taken or refused.
LEMMA ReceiveCallType ==
  ASSUME NEW e \in Endpoint, NEW m \in Msg, m.dir \in Dir
  PROVE  ReceiveCall(e, m) \in Endpoint
<1> DEFINE d == [e EXCEPT !.attached = TRUE, !.server = TRUE,
                          !.remote = m.dir, !.dialog = "Early"]
           r == SetState(d, "IncomingReceived")
<1>1. d \in Endpoint BY Zenon DEF Endpoint, DialogState
<1> HIDE DEF d
<1>2. r \in Endpoint BY <1>1, SetStateType, NamedStates, Zenon
<1> HIDE DEF r
<1>3. "INVITE" \in Method /\ 100 \in Code \ {0} /\ 180 \in Code \ {0} BY DEF Method, Code
<1>4. Send(r, Response("INVITE", 100, "none")) \in Endpoint
      BY <1>2, <1>3, SendResponseType, Zenon
<1> QED BY <1>3, <1>4, SendResponseType, Zenon DEF ReceiveCall, d, r

\* Refusing the first INVITE keeps an endpoint an endpoint.
LEMMA RefuseCallType ==
  ASSUME NEW e \in Endpoint, NEW code \in Code \ {0}
  PROVE  RefuseCall(e, code) \in Endpoint
<1> DEFINE d == [e EXCEPT !.server = TRUE, !.dialog = "Null"]
<1>1. d \in Endpoint BY Zenon DEF Endpoint, DialogState
<1> HIDE DEF d
<1>2. Reply(d, code, "none") \in Endpoint BY <1>1, ReplyType, Zenon
<1> QED BY <1>2, OpReleaseType, Zenon DEF RefuseCall, d

\* A re-INVITE keeps an endpoint an endpoint.
LEMMA ReceiveReinviteType ==
  ASSUME NEW e \in Endpoint, NEW m \in Msg, m.dir \in Dir, NEW compatible, NEW defer
  PROVE  ReceiveReinvite(e, m, compatible, defer) \in Endpoint
<1> DEFINE r == [e EXCEPT !.server = TRUE, !.remote = m.dir]
<1>1. r \in Endpoint BY Zenon DEF Endpoint
<1>2. [e EXCEPT !.server = TRUE] \in Endpoint BY Zenon DEF Endpoint
<1> HIDE DEF r
<1>3. Updating(r, compatible, defer) \in Endpoint BY <1>1, UpdatingType, Zenon
<1>4. Send(e, Response("INVITE", 491, "none")) \in Endpoint
      BY SendResponseType DEF Method, Code
<1> QED BY <1>2, <1>3, <1>4, Zenon DEF ReceiveReinvite, r

\* A CANCEL keeps an endpoint an endpoint.
LEMMA ReceiveCancelType ==
  ASSUME NEW e \in Endpoint
  PROVE  ReceiveCancel(e) \in Endpoint
<1> DEFINE ok == Send(e, Response("CANCEL", 200, "none"))
           d == [ok EXCEPT !.op = "Terminating"]
<1>1. ok \in Endpoint /\ Send(e, Response("CANCEL", 481, "none")) \in Endpoint
      BY SendResponseType DEF Method, Code
<1> HIDE DEF ok
<1>2. d \in Endpoint BY <1>1, SetOpType DEF OpState
<1> HIDE DEF d
<1>3. Reply(d, 487, "none") \in Endpoint /\ Reply(ok, 487, "none") \in Endpoint
      BY <1>1, <1>2, ReplyType DEF Code
<1>4. Terminated(Reply(d, 487, "none")) \in Endpoint BY <1>3, RingingTerminatedType, Zenon
<1> QED BY <1>1, <1>3, <1>4, SMT DEF ReceiveCancel, ok, d

\* A BYE keeps an endpoint an endpoint.
LEMMA ReceiveByeType ==
  ASSUME NEW e \in Endpoint
  PROVE  ReceiveBye(e) \in Endpoint
<1> DEFINE d == [e EXCEPT !.op = "Terminating", !.dialog = "TermConf"]
<1>1. d \in Endpoint BY Zenon DEF Endpoint, OpState, DialogState
<1> HIDE DEF d
<1>2. Send(d, Response("BYE", 200, "none")) \in Endpoint
      BY <1>1, SendResponseType DEF Method, Code
<1>3. Send(e, Response("BYE", 481, "none")) \in Endpoint
      BY SendResponseType DEF Method, Code
<1>4. Terminated(Send(d, Response("BYE", 200, "none"))) \in Endpoint
      BY <1>2, RingingTerminatedType, Zenon
<1> QED BY <1>3, <1>4, Zenon DEF ReceiveBye, d

\* An INFO keeps an endpoint an endpoint.
LEMMA ReceiveInfoType ==
  ASSUME NEW e \in Endpoint
  PROVE  ReceiveInfo(e) \in Endpoint
<1> DEFINE code == CASE e.dialog = "Confirmed" /\ Crossing(e) -> 491
                     [] e.dialog = "Confirmed" /\ ~Crossing(e) -> 200
                     [] e.dialog \in {"Null", "Early"} -> 501
                     [] OTHER -> 481
<1>1. code \in Code \ {0} BY DEF Code
<1> HIDE DEF code
<1>2. Send(e, Response("INFO", code, "none")) \in Endpoint
      BY <1>1, SendResponseType DEF Method
<1> QED BY <1>2, Zenon DEF ReceiveInfo, code

\* SalCallOp::processTimeoutCb() keeps an endpoint an endpoint.
LEMMA ProcessTimeoutType ==
  ASSUME NEW e0 \in Endpoint
  PROVE  ProcessTimeout(e0) \in Endpoint
<1> DEFINE e == [e0 EXCEPT !.client = "none"]
<1>1. e \in Endpoint BY Zenon DEF Endpoint, ClientState
<1> HIDE DEF e
<1>2. [Failure(e, 408) EXCEPT !.op = "Terminating"] \in Endpoint
      BY <1>1, FailureType, SetOpType DEF OpState
<1> QED BY <1>1, <1>2, SetOpReleasedType, Zenon DEF ProcessTimeout, e

\* SalCallOp::processDialogTerminatedCb() and setCallAsReleased() keep an
\* endpoint an endpoint.
LEMMA DialogTerminatedType ==
  ASSUME NEW e \in Endpoint
  PROVE  /\ ProcessDialogTerminated(e) \in Endpoint
         /\ SetCallAsReleased(e) \in Endpoint
<1> DEFINE alive == e.op \notin {"Terminating", "Terminated"}
           told == IF ~alive THEN e
                   ELSE IF e.dialog = "TermEarly" THEN Failure(e, 0) ELSE Terminated(e)
<1>1. told \in Endpoint BY FailureType, RingingTerminatedType, Zenon
<1> HIDE DEF told
<1> DEFINE o == IF alive THEN "Terminating" ELSE told.op
<1>2. o \in OpState BY <1>1, Zenon DEF Endpoint, OpState
<1> HIDE DEF o
<1>3. [told EXCEPT !.op = o, !.releaseLater = TRUE, !.dialog = "Terminated"] \in Endpoint
      BY <1>1, <1>2, Zenon DEF Endpoint, DialogState
<1>4. ProcessDialogTerminated(e) \in Endpoint
      BY <1>3, Zenon DEF ProcessDialogTerminated, o, told
<1>5. [e EXCEPT !.releaseLater = FALSE] \in Endpoint BY Zenon DEF Endpoint
<1> QED BY <1>4, <1>5, SetOpReleasedType, Zenon DEF SetCallAsReleased

(***************************************************************************)
(* Requests of the application and tasks of the main loop.                 *)
(***************************************************************************)

\* Starting a call keeps an endpoint an endpoint.
LEMMA StartType ==
  ASSUME NEW e \in Endpoint
  PROVE  /\ InitiateOutgoing(e) \in Endpoint
         /\ StartInvite(e) \in Endpoint
         /\ StartAccept(e) \in Endpoint
<1>1. [e EXCEPT !.attached = TRUE] \in Endpoint BY Zenon DEF Endpoint
<1>2. InitiateOutgoing(e) \in Endpoint
      BY <1>1, SetStateType, NamedStates, Zenon DEF InitiateOutgoing
<1>3. SendInvite(e, LocalDir(e)) \in Endpoint BY SendInviteType, DirType, Zenon
<1>4. StartInvite(e) \in Endpoint
      BY <1>3, SetStateType, NamedStates, Zenon DEF StartInvite
<1>5. SetState(OpAccept(e), "Connected") \in Endpoint
      BY OpAcceptType, SetStateType, NamedStates, Zenon
<1>6. StartAccept(e) \in Endpoint
      BY <1>5, SetStateType, NamedStates, Zenon DEF StartAccept
<1> QED BY <1>2, <1>4, <1>6

\* CallSession::terminate() keeps an endpoint an endpoint.
LEMMA TerminateType ==
  ASSUME NEW e \in Endpoint
  PROVE  Terminate(e) \in Endpoint
<1>1. ASSUME NEW d \in Endpoint PROVE TerminateSession(d) \in Endpoint
  <2>1. SetState(d, "End") \in Endpoint BY SetStateType, NamedStates, Zenon
  <2> QED BY <2>1, SetStateType, NamedStates, Zenon DEF TerminateSession
<1>2. Reply(e, 603, "none") \in Endpoint BY ReplyType DEF Code
<1>3. OpRelease(e) \in Endpoint /\ OpTerminate(e) \in Endpoint
      BY OpReleaseType, OpTerminateType, Zenon
<1>4. /\ TerminateSession(Reply(e, 603, "none")) \in Endpoint
      /\ TerminateSession(OpRelease(e)) \in Endpoint
      /\ TerminateSession(OpTerminate(e)) \in Endpoint
      BY <1>1, <1>2, <1>3, Zenon
<1> QED BY <1>4, SMT DEF Terminate

\* MediaSession::pause(), resume() and update() keep an endpoint an endpoint.
LEMMA RenegotiateType ==
  ASSUME NEW e \in Endpoint
  PROVE  /\ Pause(e) \in Endpoint
         /\ RetryResume(e) \in Endpoint
         /\ Resume(e) \in Endpoint
         /\ CanUpdate(e) => Update(e) \in Endpoint
<1>1. Pause(e) \in Endpoint
  <2>1. OpUpdate(SetState(e, "Pausing")) \in Endpoint
        BY SetStateType, OpUpdateType, NamedStates, Zenon
  <2> QED BY <2>1, SetRetryType, NamedRetries, Zenon DEF Pause
<1>2. ASSUME NEW d \in Endpoint PROVE RetryResume(d) \in Endpoint
  <2>1. SetState(d, "Resuming") \in Endpoint BY SetStateType, NamedStates, Zenon
  <2>2. SetState(SetState(d, "Resuming"), d.state) \in Endpoint
        BY <2>1, SetStateType, StateFields, Zenon
  <2> QED BY <2>1, <2>2, OpUpdateType, Zenon DEF RetryResume
<1>3. Resume(e) \in Endpoint
  <2>1. e.pendingActions + 1 \in Nat BY DEF Endpoint
  <2>2. [e EXCEPT !.pendingActions = @ + 1] \in Endpoint BY <2>1, Zenon DEF Endpoint
  <2>3. RetryResume([e EXCEPT !.retry = "resume"]) \in Endpoint
        BY <1>2, SetRetryType, NamedRetries, Zenon
  <2> QED BY <2>2, <2>3, SMT DEF Resume
<1>4. ASSUME CanUpdate(e) PROVE Update(e) \in Endpoint
  <2>1. UpdateState[e.state] \in CallState
        BY <1>4 DEF CanUpdate, UpdateState, CallState, TransientState
  <2>2. OpUpdate(SetState(e, UpdateState[e.state])) \in Endpoint
        BY <2>1, SetStateType, OpUpdateType, Zenon
  <2> QED BY <2>2, SetRetryType, NamedRetries, Zenon DEF Update
<1> QED BY <1>1, <1>2, <1>3, <1>4

\* SalCallOp::sendDtmf() keeps an endpoint an endpoint.
LEMMA InfoType ==
  ASSUME NEW e \in Endpoint
  PROVE  SendDtmf(e) \in Endpoint /\ SendQueuedInfo(e) \in Endpoint
<1>1. [e EXCEPT !.info = "queued", !.lastRequest = "INFO"] \in Endpoint
      BY Zenon DEF Endpoint, InfoState, Method
<1>2. [e EXCEPT !.info = "sent", !.lastRequest = "INFO"] \in Endpoint
      BY Zenon DEF Endpoint, InfoState, Method
<1>3. [e EXCEPT !.info = "sent"] \in Endpoint BY Zenon DEF Endpoint, InfoState
<1>4. Request("INFO", "none") \in Msg BY DEF Request, Msg, Method, Code
<1> QED BY <1>1, <1>2, <1>3, <1>4, SendType, Zenon DEF SendDtmf, SendQueuedInfo

\* executePendingActions() keeps an endpoint an endpoint.
LEMMA ExecutePendingActionsType ==
  ASSUME NEW e0 \in Endpoint
  PROVE  ExecutePendingActions(e0) \in Endpoint
<1> DEFINE e == [e0 EXCEPT !.execLater = FALSE]
           r == Resume(e)
<1>1. e \in Endpoint BY Zenon DEF Endpoint
<1> HIDE DEF e
<1>2. r \in Endpoint BY <1>1, RenegotiateType, Zenon
<1>3. 2 * e.pendingActions \in Nat BY <1>1 DEF Endpoint
<1>4. [e EXCEPT !.pendingActions = 2 * @] \in Endpoint BY <1>1, <1>3, Zenon DEF Endpoint
<1>5. ASSUME e.state = "Paused", e.pendingActions > 0
      PROVE  [r EXCEPT !.pendingActions = @ - 1] \in Endpoint
  <2> DEFINE q == [e EXCEPT !.retry = "resume"]
             p == SetState(q, "Resuming")
  <2>0. r = RetryResume(q) BY <1>5 DEF Resume
  <2>1. q \in Endpoint /\ p \in Endpoint
        BY <1>1, SetRetryType, NamedRetries, SetStateType, NamedStates, Zenon
  <2>2. q.pendingActions = e.pendingActions /\ q.state = e.state BY <1>1 DEF Endpoint
  <2> HIDE DEF q
  <2>3. p.pendingActions = q.pendingActions BY <2>1 DEF SetState, Endpoint
  <2> HIDE DEF p
  <2>4. OpUpdate(p).pendingActions = p.pendingActions
        BY <2>1 DEF OpUpdate, SendInvite, Send, Endpoint
  <2>5. SetState(p, q.state).pendingActions = p.pendingActions
        BY <1>5, <2>1, <2>2 DEF SetState, Endpoint
  <2>6. RetryResume(q).pendingActions = e.pendingActions
        BY <2>2, <2>3, <2>4, <2>5 DEF RetryResume, p
  <2>7. r.pendingActions - 1 \in Nat BY <1>1, <1>5, <2>0, <2>6 DEF Endpoint
  <2> HIDE DEF r
  <2> QED BY <1>2, <2>7, Zenon DEF Endpoint
<1> HIDE DEF r
<1> QED BY <1>1, <1>2, <1>4, <1>5, SMT DEF ExecutePendingActions, e, r

\* SalOp::runRetryFunc() keeps an endpoint an endpoint.
LEMMA RunRetryFuncType ==
  ASSUME NEW e0 \in Endpoint, e0.timers > 0
  PROVE  RunRetryFunc(e0) \in Endpoint
<1> DEFINE e == [e0 EXCEPT !.timers = @ - 1]
           retried == CASE e.retry = "resume" -> RetryResume(e)
                        [] e.retry \in {"pause", "update"} -> OpUpdate(e)
                        [] OTHER -> e
<1>1. e0.timers - 1 \in Nat BY DEF Endpoint
<1>2. e \in Endpoint BY <1>1, Zenon DEF Endpoint
<1> HIDE DEF e
<1>3. RetryResume(e) \in Endpoint /\ OpUpdate(e) \in Endpoint
      BY <1>2, RenegotiateType, OpUpdateType, Zenon
<1>4. retried \in Endpoint BY <1>2, <1>3, SMT
<1> HIDE DEF retried
<1> QED BY <1>2, <1>4, SetRetryType, NamedRetries, Zenon DEF RunRetryFunc, e, retried

(***************************************************************************)
(* Type correctness of the call.                                           *)
(***************************************************************************)

\* Running a handler that leaves u as an endpoint keeps the types: what it sent
\* is appended to the messages on their way to the peer.
LEMMA RunType ==
  ASSUME ua \in [UA -> Endpoint], net \in [UA -> Seq(Msg)],
         NEW u \in UA, NEW e \in Endpoint, Run(u, e)
  PROVE  ua' \in [UA -> Endpoint] /\ net' \in [UA -> Seq(Msg)]
<1>1. [e EXCEPT !.out = <<>>] \in Endpoint
  <2>1. <<>> \in Seq(Msg) OBVIOUS
  <2> QED BY <2>1, Zenon DEF Endpoint
<1>2. e.out \in Seq(Msg) BY DEF Endpoint
<1>3. Peer(u) \in UA BY DEF Peer, UA
<1> QED BY <1>1, <1>2, <1>3 DEF Run

\* The same for the handler of a message.
LEMMA HandleType ==
  ASSUME ua \in [UA -> Endpoint], net \in [UA -> Seq(Msg)],
         NEW u \in UA, net[u] # <<>>, NEW e \in Endpoint, Handle(u, e)
  PROVE  ua' \in [UA -> Endpoint] /\ net' \in [UA -> Seq(Msg)]
<1>1. [e EXCEPT !.out = <<>>] \in Endpoint
  <2>1. <<>> \in Seq(Msg) OBVIOUS
  <2> QED BY <2>1, Zenon DEF Endpoint
<1>2. e.out \in Seq(Msg) BY DEF Endpoint
<1>3. Peer(u) \in UA /\ Peer(u) # u BY EndpointAssumption DEF Peer, UA
<1>4. Tail(net[u]) \in Seq(Msg) OBVIOUS
<1>5. net' = [net EXCEPT ![u] = Tail(net[u]), ![Peer(u)] = net[Peer(u)] \o e.out]
      BY <1>3 DEF Handle
<1>6. net[Peer(u)] \o e.out \in Seq(Msg) BY <1>2, <1>3
<1>7. net' \in [UA -> Seq(Msg)] BY <1>3, <1>4, <1>5, <1>6, Zenon
<1>8. ua' \in [UA -> Endpoint] BY <1>1 DEF Handle
<1> QED BY <1>7, <1>8

\* A choice of the environment leaves a natural number of each choice.
LEMMA SpendType ==
  ASSUME budget \in [Choice -> Nat], NEW c \in Choice, Spend(c)
  PROVE  budget' \in [Choice -> Nat]
BY DEF Spend

\* The endpoints of a call start as endpoints.
LEMMA InitType == ASSUME Init PROVE TypeOK
<1>1. ASSUME NEW b \in BOOLEAN PROVE InitEndpoint(b) \in Endpoint
  BY DEF InitEndpoint, Endpoint, CallState, OpState, RetryFunc, Method, Dir,
         DialogState, ClientState, InfoState
<1>2. \A u \in UA : (u = Callee) \in BOOLEAN OBVIOUS
<1>3. \A u \in UA : InitEndpoint(u = Callee) \in Endpoint BY <1>1, <1>2, Zenon
<1>4. ua \in [UA -> Endpoint] BY <1>3, Zenon DEF Init
<1>5. net \in [UA -> Seq(Msg)] BY DEF Init
<1> QED BY <1>4, <1>5, BudgetAssumption DEF Init, TypeOK

\* Every step keeps the types.
LEMMA NextType == ASSUME TypeOK, [Next]_vars PROVE TypeOK'
<1>0. ua \in [UA -> Endpoint] /\ net \in [UA -> Seq(Msg)] /\ budget \in [Choice -> Nat]
      BY DEF TypeOK
<1>1. SUFFICES ASSUME NEW u \in UA, User(u) \/ Internal(u) \/ InviteTimeout(u) PROVE TypeOK'
  <2>1. CASE UNCHANGED vars BY <2>1 DEF vars, TypeOK
  <2>2. CASE Next BY <2>2 DEF Next
  <2> QED BY <2>1, <2>2
<1> DEFINE e == ua[u]
<1>2. e \in Endpoint BY <1>0
<1>3. \A c \in Choice : Spend(c) => budget' \in [Choice -> Nat] BY <1>0, SpendType
<1>4. ASSUME NEW d \in Endpoint, Run(u, d), budget' \in [Choice -> Nat] PROVE TypeOK'
      BY <1>0, <1>4, RunType DEF TypeOK
<1>5. ASSUME net[u] # <<>>, NEW d \in Endpoint, Handle(u, d), budget' \in [Choice -> Nat]
      PROVE  TypeOK'
      BY <1>0, <1>5, HandleType DEF TypeOK
<1>6. UNCHANGED budget => budget' \in [Choice -> Nat] BY <1>0
<1>7. \A c \in {"pause", "resume", "update", "dtmf", "terminate", "defer",
                "reject", "incompatible", "refuse", "loss"} : c \in Choice
      BY DEF Choice
<1>10. CASE Invite(u)
  <2>1. InitiateOutgoing(e) \in Endpoint BY <1>2, StartType, Zenon
  <2>2. StartInvite(InitiateOutgoing(e)) \in Endpoint BY <2>1, StartType, Zenon
  <2> QED BY <1>4, <1>6, <1>10, <2>1, <2>2, Zenon DEF Invite
<1>11. CASE GatheringDone(u)
  <2>1. StartInvite(e) \in Endpoint BY <1>2, StartType, Zenon
  <2> QED BY <1>4, <1>6, <1>11, <2>1, Zenon DEF GatheringDone
<1>12. CASE Accept(u)
  <2>1. StartAccept(e) \in Endpoint BY <1>2, StartType, Zenon
  <2> QED BY <1>4, <1>6, <1>12, <2>1, Zenon DEF Accept
<1>13. CASE TerminateCall(u) \/ IncomingTimeout(u)
  <2>1. Terminate(e) \in Endpoint BY <1>2, TerminateType, Zenon
  <2> QED BY <1>3, <1>4, <1>6, <1>7, <1>13, <2>1, Zenon DEF TerminateCall, IncomingTimeout
<1>14. CASE PauseCall(u) \/ ResumeCall(u) \/ UpdateCall(u)
  <2>1. Pause(e) \in Endpoint /\ Resume(e) \in Endpoint /\ (CanUpdate(e) => Update(e) \in Endpoint)
        BY <1>2, RenegotiateType, Zenon
  <2> QED BY <1>3, <1>4, <1>7, <1>14, <2>1, Zenon DEF PauseCall, ResumeCall, UpdateCall
<1>15. CASE AcceptDeferredUpdate(u)
  <2>1. AcceptUpdateAsked(e) \in Endpoint BY <1>2, AcceptUpdateType, Zenon
  <2> QED BY <1>4, <1>6, <1>15, <2>1, Zenon DEF AcceptDeferredUpdate
<1>16. CASE Dtmf(u) \/ InfoDequeued(u)
  <2>1. SendDtmf(e) \in Endpoint /\ SendQueuedInfo(e) \in Endpoint BY <1>2, InfoType, Zenon
  <2> QED BY <1>3, <1>4, <1>6, <1>7, <1>16, <2>1, Zenon DEF Dtmf, InfoDequeued
<1>17. CASE ReceiveInvite(u)
  <2> DEFINE m == Head(net[u])
  <2>1. net[u] # <<>> BY <1>17 DEF ReceiveInvite, Arrives
  <2>2. m \in Msg BY <1>0, <2>1
  <2>3. m.method = "INVITE" /\ m.code = 0 BY <1>17 DEF ReceiveInvite, Arrives
  <2>4. m.dir \in Dir BY <2>2, <2>3 DEF Msg
  <2>5. ReceiveCall(e, m) \in Endpoint BY <1>2, <2>2, <2>4, ReceiveCallType, Zenon
  <2>6. RefuseCall(e, 486) \in Endpoint BY <1>2, RefuseCallType DEF Code
  <2>7. \A x, y \in BOOLEAN : ReceiveReinvite(e, m, x, y) \in Endpoint
        BY <1>2, <2>2, <2>4, ReceiveReinviteType, Zenon
  <2>8. Send(e, Response("INVITE", 481, "none")) \in Endpoint
        BY <1>2, SendResponseType DEF Method, Code
  <2> QED BY <1>3, <1>5, <1>6, <1>7, <1>17, <2>1, <2>5, <2>6, <2>7, <2>8, Zenon
          DEF ReceiveInvite
<1>18. CASE ReceiveOther(u)
  <2>1. net[u] # <<>> BY <1>18 DEF ReceiveOther, Arrives
  <2>2. /\ ReceiveCancel(e) \in Endpoint /\ ReceiveBye(e) \in Endpoint
        /\ ReceiveInfo(e) \in Endpoint
        BY <1>2, ReceiveCancelType, ReceiveByeType, ReceiveInfoType, Zenon
  <2> QED BY <1>5, <1>6, <1>18, <2>1, <2>2, Zenon DEF ReceiveOther
<1>19. CASE ReceiveResponse(u)
  <2> DEFINE m == Head(net[u])
  <2>1. net[u] # <<>> BY <1>19 DEF ReceiveResponse
  <2>2. m \in Msg BY <1>0, <2>1
  <2>3. ProcessResponse(e, m, TRUE) \in Endpoint /\ ProcessResponse(e, m, FALSE) \in Endpoint
        BY <1>2, <2>2, ProcessResponseType, Zenon
  <2> QED BY <1>3, <1>5, <1>6, <1>7, <1>19, <2>1, <2>3, Zenon DEF ReceiveResponse
<1>20. CASE InviteTimeout(u)
  <2> DEFINE d == ProcessTimeout(e)
  <2>1. d \in Endpoint BY <1>2, ProcessTimeoutType, Zenon
  <2> HIDE DEF d
  <2>2. [d EXCEPT !.out = <<>>] \in Endpoint
    <3>1. <<>> \in Seq(Msg) OBVIOUS
    <3> QED BY <2>1, <3>1, Zenon DEF Endpoint
  <2>3. Peer(u) \in UA /\ net[Peer(u)] # <<>> BY <1>20 DEF Peer, UA, InviteTimeout, Arrives
  <2>4. Tail(net[Peer(u)]) \in Seq(Msg) BY <1>0, <2>3
  <2>5. ua' \in [UA -> Endpoint] BY <1>0, <1>20, <2>2 DEF InviteTimeout, d
  <2>6. net' \in [UA -> Seq(Msg)] BY <1>0, <1>20, <2>4, Zenon DEF InviteTimeout
  <2> QED BY <1>3, <1>7, <1>20, <2>5, <2>6, Zenon DEF InviteTimeout, TypeOK
<1>21. CASE DialogTerminated(u) \/ ReleaseLater(u)
  <2>1. ProcessDialogTerminated(e) \in Endpoint /\ SetCallAsReleased(e) \in Endpoint
        BY <1>2, DialogTerminatedType, Zenon
  <2> QED BY <1>4, <1>6, <1>21, <2>1, Zenon DEF DialogTerminated, ReleaseLater
<1>22. CASE RetryTimer(u)
  <2>1. RunRetryFunc(e) \in Endpoint BY <1>2, <1>22, RunRetryFuncType, Zenon DEF RetryTimer
  <2> QED BY <1>4, <1>6, <1>22, <2>1, Zenon DEF RetryTimer
<1>23. CASE ExecuteLater(u)
  <2>1. ExecutePendingActions(e) \in Endpoint BY <1>2, ExecutePendingActionsType, Zenon
  <2> QED BY <1>4, <1>6, <1>23, <2>1, Zenon DEF ExecuteLater
<1> QED BY <1>1, <1>10, <1>11, <1>12, <1>13, <1>14, <1>15, <1>16, <1>17, <1>18,
           <1>19, <1>20, <1>21, <1>22, <1>23 DEF User, Internal

\* The state of both endpoints, the messages on their way and the choices left
\* keep their types, for every budget of the environment.
THEOREM TypeCorrect == Spec => []TypeOK
<1>1. Init => TypeOK BY InitType
<1>2. TypeOK /\ [Next]_vars => TypeOK' BY NextType
<1> QED BY <1>1, <1>2, PTL DEF Spec
=============================================================================
