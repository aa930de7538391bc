----------------------------- MODULE CallSession -----------------------------
(***************************************************************************)
(* The state of one endpoint of a call and the handlers that change it:    *)
(* CallSession / MediaSession (src/src/conference/session) on top of       *)
(* SalCallOp (src/src/sal/call-op.cpp, op.cpp, sal.cpp) and the SAL        *)
(* callbacks that tie them together (src/coreapi/callbacks.c).             *)
(*                                                                         *)
(* Every handler is an operator from an endpoint record to the endpoint    *)
(* record it leaves behind; what it sends is appended to the field "out".  *)
(* Module Call turns the handlers into actions of two endpoints joined by  *)
(* a network.                                                              *)
(*                                                                         *)
(* The SIP stack (belle-sip) is not part of the repository.  Its share of  *)
(* the record is external and kept to what call-op.cpp observes of it:     *)
(*   dialog  - None (no mDialog), Null, Early, Confirmed; TermEarly and    *)
(*             TermConf while a terminated dialog (by the state it left)   *)
(*             has not been reported yet; Terminated once it has;          *)
(*   client  - the INVITE client transaction: none, calling, proceeding;   *)
(*   server  - an INVITE server transaction waits for its final response;  *)
(*   info    - the INFO client transaction: none, queued, sent;            *)
(*   bye     - the number of BYE client transactions without an answer.    *)
(***************************************************************************)
EXTENDS Naturals, Sequences

CallState == {"Idle", "OutgoingInit", "OutgoingProgress", "OutgoingRinging",
              "IncomingReceived", "Connected", "StreamsRunning", "Pausing",
              "Paused", "Resuming", "Updating", "UpdatedByRemote",
              "PausedByRemote", "End", "Error", "Released"}

\* CallSession::isEarlyState, restricted to the states of the model.
EarlyState == {"Idle", "OutgoingInit", "OutgoingProgress", "OutgoingRinging",
               "IncomingReceived"}

\* States in which the session waits for the answer to a re-INVITE it sent.
TransientState == {"Pausing", "Resuming", "Updating"}

OverState == {"End", "Error", "Released"}

Dir == {"sendrecv", "sendonly", "recvonly", "inactive"}
Method == {"INVITE", "CANCEL", "BYE", "INFO"}

\* External: the status codes of SIP that matter here; 0 marks a request.
Code == {0, 100, 180, 200, 481, 486, 487, 488, 491, 501, 603}

\* External: a SIP message.  dir is the direction of the audio stream in the SDP body, and "none" when
\* the message has no body.  An INVITE always carries an offer.
Msg ==
  {m \in [method : Method, code : Code, dir : Dir \cup {"none"}] :
     m.method = "INVITE" /\ m.code = 0 => m.dir \in Dir}

DialogState == {"None", "Null", "Early", "Confirmed",
                "TermEarly", "TermConf", "Terminated"}

OpState == {"Early", "Active", "Terminating", "Terminated"}
RetryFunc == {"none", "pause", "resume", "update"}
ClientState == {"none", "calling", "proceeding"}
InfoState == {"none", "queued", "sent"}

Endpoint ==
  [incoming       : BOOLEAN,             \* SalOp::mDir = Dir::Incoming
   state          : CallState,           \* CallSessionPrivate::state
   prevState      : CallState,           \* CallSessionPrivate::prevState
   lastStable     : CallState,           \* CallSessionPrivate::lastStableState
   fatal          : BOOLEAN,             \* a sanity check of setState() failed
   attached       : BOOLEAN,             \* the session has an op, and it has us
   pendingActions : Nat,                 \* resume() calls waiting in the queue
   execLater      : BOOLEAN,             \* executePendingActions() is scheduled
   op             : OpState,             \* SalCallOp::mState
   released       : BOOLEAN,             \* SalCallOp::mCallReleased
   releaseLater   : BOOLEAN,             \* setCallAsReleased() is scheduled
   retry          : RetryFunc,           \* SalOp::mRetryFunc
   timers         : Nat,                 \* timers of SalOp::handleRetry()
   lastRequest    : Method \cup {"none"},  \* method of mPendingClientTransaction
   offer          : Dir,                 \* direction last offered
   remote         : Dir,                 \* direction last offered by the peer
   result         : Dir,                 \* MediaSessionPrivate::resultDesc
   dialog         : DialogState,
   client         : ClientState,
   server         : BOOLEAN,
   info           : InfoState,
   bye            : Nat,
   out            : Seq(Msg)]

InitEndpoint(incoming) ==
  [incoming |-> incoming, state |-> "Idle", prevState |-> "Idle",
   lastStable |-> "Idle", fatal |-> FALSE, attached |-> FALSE,
   pendingActions |-> 0, execLater |-> FALSE, op |-> "Early",
   released |-> FALSE, releaseLater |-> FALSE, retry |-> "none", timers |-> 0,
   lastRequest |-> "none", offer |-> "sendrecv", remote |-> "sendrecv",
   result |-> "sendrecv", dialog |-> "None", client |-> "none",
   server |-> FALSE, info |-> "none", bye |-> 0, out |-> <<>>]

Request(method, dir) == [method |-> method, code |-> 0, dir |-> dir]
Response(method, code, dir) == [method |-> method, code |-> code, dir |-> dir]

Send(e, m) == [e EXCEPT !.out = Append(@, m)]

(***************************************************************************)
(* The session: changing state.                                            *)
(***************************************************************************)

\* SalOp::release(): an op that waits for a response stays Terminating.
OpRelease(e) ==
  [e EXCEPT !.op = IF @ = "Terminating" THEN @ ELSE "Terminated",
            !.attached = FALSE]

\* CallSessionPrivate::setReleased()
SetSessionReleased(e) ==
  [(IF e.attached THEN OpRelease(e) ELSE e) EXCEPT !.pendingActions = 0]

\* The sanity checks of CallSessionPrivate::setState().
BadTransition(from, to) ==
  \/ from \in {"End", "Error"} /\ to # "Released"
  \/ to = "Released" /\ from \notin {"End", "Error"}

\* CallSessionPrivate::setState().  prevState and lastStableState are written
\* before the sanity checks.  Listeners of the change schedule
\* executePendingActions() in the main loop.
SetState(e, s) ==
  LET noted == [e EXCEPT !.prevState = e.state,
                         !.lastStable = IF e.state \in {"StreamsRunning", "Paused"}
                                        THEN e.state ELSE @]
      moved == [noted EXCEPT !.state = s, !.execLater = TRUE]
  IN  IF e.state = s THEN e
      ELSE IF BadTransition(e.state, s) THEN [noted EXCEPT !.fatal = TRUE]
      ELSE IF s = "Released" THEN SetSessionReleased(moved)
      ELSE moved

(***************************************************************************)
(* Media directions (offeranswer.cpp and makeLocalMediaDescription).       *)
(***************************************************************************)

\* The direction the endpoint describes for itself: the call parameters ask
\* for sendrecv, forceStreamsDirAccordingToState() restricts it.
LocalDir(e) ==
  LET s == IF e.state = "UpdatedByRemote" THEN e.prevState ELSE e.state
  IN  IF s \in {"Pausing", "Paused"} THEN "sendonly" ELSE "sendrecv"

\* OfferAnswerEngine::computeDirOutgoing()
ComputeDirOutgoing(local, answered) ==
  CASE answered = "inactive" -> "inactive"
    [] local = "sendrecv" /\ answered = "recvonly" -> "sendonly"
    [] local = "sendrecv" /\ answered = "sendonly" -> "recvonly"
    [] OTHER -> local

\* OfferAnswerEngine::computeDirIncoming()
ComputeDirIncoming(local, offered) ==
  CASE local = "sendrecv" /\ offered = "sendonly" -> "recvonly"
    [] local = "sendrecv" /\ offered = "recvonly" -> "sendonly"
    [] local = "sendrecv" /\ offered \notin {"sendonly", "recvonly"} -> offered
    [] local = "sendonly" /\ offered \in {"recvonly", "sendrecv"} -> "sendonly"
    [] local = "recvonly" /\ offered \in {"sendonly", "sendrecv"} -> "recvonly"
    [] OTHER -> "inactive"

(***************************************************************************)
(* SalCallOp: requests and responses the session asks for.                 *)
(***************************************************************************)

\* External: belle_sip_dialog_request_pending().
RequestPending(e) == e.client # "none" \/ e.server \/ e.info = "sent" \/ e.bye > 0

\* External: the stack answers 491 to a request that crosses one of ours.
Crossing(e) == e.client # "none" \/ e.server \/ e.info = "sent"

\* SalOp::hasDialog()
HasDialog(e) == e.dialog # "None"

\* SalOp::sendRequestWithContact() for an INVITE.
SendInvite(e, dir) ==
  Send([e EXCEPT !.client = "calling", !.lastRequest = "INVITE", !.offer = dir],
       Request("INVITE", dir))

\* SalOp::sendRequest() for a BYE, which is never refused by the stack.
SendBye(e) ==
  Send([e EXCEPT !.bye = @ + 1, !.lastRequest = "BYE"], Request("BYE", "none"))

\* SalCallOp::canSendRequest(false, true)
CanSendRequest(e) == e.dialog = "Confirmed" /\ ~RequestPending(e)

\* SalCallOp::update(): no request is built while another one is pending, and
\* the caller is told so (-1) by nothing but the return value.
OpUpdate(e) == IF CanSendRequest(e) THEN SendInvite(e, LocalDir(e)) ELSE e

\* The final response to the INVITE server transaction, if there is one; a
\* failure response to an INVITE that has not been answered ends its dialog.
Reply(e, code, dir) ==
  IF ~e.server THEN e
  ELSE Send([e EXCEPT !.server = FALSE,
                      !.dialog = IF code >= 300 /\ @ \in {"Null", "Early"}
                                 THEN "TermEarly" ELSE @],
            Response("INVITE", code, dir))

\* Mutant of OpAccept: the negotiated description is not kept.
MutOpAccept(e) ==
  LET answer == ComputeDirIncoming(LocalDir(e), e.remote)
  IN  IF ~e.server THEN e
      ELSE [Reply(e, 200, answer) EXCEPT
              !.dialog = IF @ \in {"Null", "Early"} THEN "Confirmed" ELSE @,
              !.op = IF @ = "Early" THEN "Active" ELSE @]

\* SalCallOp::accept()
OpAccept(e) ==
  LET answer == ComputeDirIncoming(LocalDir(e), e.remote)
  IN  IF ~e.server THEN e
      ELSE [Reply(e, 200, answer) EXCEPT
              !.dialog = IF @ \in {"Null", "Early"} THEN "Confirmed" ELSE @,
              !.op = IF @ = "Early" THEN "Active" ELSE @,
              !.result = answer]

\* SalCallOp::cancelInvite(): a CANCEL is built from mPendingClientTransaction,
\* and only from an INVITE that got a provisional response.
CancelInvite(e) ==
  IF e.lastRequest = "INVITE" /\ e.client = "proceeding"
  THEN Send([e EXCEPT !.lastRequest = "CANCEL"], Request("CANCEL", "none"))
  ELSE IF e.dialog \in {"Null", "Early"} THEN [e EXCEPT !.dialog = "TermEarly"]
  ELSE e

\* SalCallOp::cancellingInvite()
CancellingInvite(e) == [CancelInvite(e) EXCEPT !.op = "Terminating"]

\* SalCallOp::terminate()
OpTerminate(e) ==
  CASE e.op \in {"Terminating", "Terminated"} -> e
    [] e.op \in {"Early", "Active"} /\ e.dialog = "Confirmed" ->
         [SendBye(e) EXCEPT !.op = "Terminating"]
    [] e.op \in {"Early", "Active"} /\ e.dialog \in {"None", "Null", "Early"} ->
         IF e.incoming THEN [Reply(e, 603, "none") EXCEPT !.op = "Terminated"]
         ELSE IF e.dialog = "Early" \/ e.client = "proceeding" THEN CancellingInvite(e)
         ELSE IF e.client = "calling" THEN [e EXCEPT !.op = "Terminating"]
         ELSE e
    [] OTHER -> e

\* SalCallOp::setReleased() and the call_released callback.
SetOpReleased(e) ==
  LET dead == [e EXCEPT !.op = "Terminated", !.released = TRUE]
  IN  IF e.released THEN e
      ELSE [(IF e.attached THEN SetState(dead, "Released") ELSE dead)
              EXCEPT !.dialog = "None"]

(***************************************************************************)
(* The session: callbacks from the SAL.                                    *)
(***************************************************************************)

\* Mutant of AcceptUpdate: the session stays where the update found it.
MutAcceptUpdate(e, next) == OpAccept(e)

\* MediaSessionPrivate::startAcceptUpdate(), reached from acceptUpdate().
AcceptUpdate(e, next) == SetState(OpAccept(e), next)

\* CallSession::acceptUpdate(), for the application or for updatedByRemote().
AcceptUpdateAsked(e) == AcceptUpdate(e, e.prevState)

\* CallSessionPrivate::updatedByRemote(); defer: the application (or the
\* configuration) asked to answer later.
UpdatedByRemote(e, defer) ==
  LET u == SetState(e, "UpdatedByRemote")
  IN  IF defer \/ u.state # "UpdatedByRemote" THEN u ELSE AcceptUpdateAsked(u)

\* MediaSessionPrivate::updated() over CallSessionPrivate::updated()
Updated(e, defer) ==
  CASE e.state = "PausedByRemote" /\ e.remote \in {"sendrecv", "recvonly"} ->
         AcceptUpdate(e, "StreamsRunning")
    [] e.state \in {"StreamsRunning", "Connected", "UpdatedByRemote"}
         /\ e.remote \in {"sendonly", "inactive"} ->
         AcceptUpdate(e, "PausedByRemote")
    [] e.state \in {"StreamsRunning", "Connected", "UpdatedByRemote"}
         /\ e.remote \in {"sendrecv", "recvonly"} ->
         UpdatedByRemote(e, defer)
    [] e.state = "PausedByRemote" /\ e.remote \in {"sendonly", "inactive"} ->
         UpdatedByRemote(e, defer)
    [] e.state \in {"Paused"} \cup TransientState ->
         AcceptUpdate(SetState(e, "UpdatedByRemote"), e.state)
    [] OTHER -> e

\* MediaSessionPrivate::updating(), under the call_updating callback.
Updating(e, compatible, defer) ==
  IF ~e.attached THEN e
  ELSE IF e.state \in {"End", "Released"} THEN Reply(e, 481, "none")
  ELSE IF ~compatible THEN Reply(e, 488, "none")
  ELSE Updated(e, defer)

\* MediaSessionPrivate::isPausedByRemoteAllowed() outside of conferences.
IsPausedByRemoteAllowed(e) ==
  ~(e.prevState # "PausedByRemote" /\ e.state = "Updating")

\* The state MediaSessionPrivate::accepted() goes to once the answer md is
\* known; "Idle" when it does not know what to do.
AcceptedNextState(e, md) ==
  LET held == /\ IsPausedByRemoteAllowed(e) /\ e.offer # "inactive"
              /\ md \in {"recvonly", "inactive"}
  IN  IF e.state = "Pausing" \/ (e.state = "Updating" /\ e.prevState = "Paused")
      THEN "Paused"
      ELSE IF e.state \in {"Resuming", "Connected", "Updating", "UpdatedByRemote"}
      THEN IF held THEN "PausedByRemote" ELSE "StreamsRunning"
      ELSE "Idle"

\* MediaSessionPrivate::abort()
Abort(e) == SetState(OpTerminate(e), "Error")

\* MediaSessionPrivate::accepted(), under the call_accepted callback.
Accepted(e, answered, compatible) ==
  LET c == IF e.state \in {"OutgoingProgress", "OutgoingRinging"}
           THEN SetState(e, "Connected") ELSE e
      md == ComputeDirOutgoing(c.offer, answered)
      next == AcceptedNextState(c, md)
  IN  IF ~e.attached THEN e
      ELSE IF compatible
      THEN IF next = "Idle" THEN c ELSE SetState([c EXCEPT !.result = md], next)
      ELSE IF c.prevState \in EarlyState \ {"Idle"} THEN Abort(c)
      ELSE IF c.state \in {"PausedByRemote", "Paused", "StreamsRunning"} THEN c
      ELSE SetState([c EXCEPT !.result = md], c.prevState)

\* Mutant of Failure: a 491 that will not be retried changes nothing.
MutFailure(e, code) ==
  IF ~e.attached THEN e
  ELSE IF e.state \in TransientState \cup {"StreamsRunning"} /\ code = 491 THEN e
  ELSE IF e.state \in TransientState \cup {"StreamsRunning"} /\ code # 481
  THEN SetState(e, e.prevState)
  ELSE IF e.state \in {"End", "Error"} THEN e
  ELSE IF code # 603 /\ e.state \in EarlyState THEN SetState(e, "Error")
  ELSE SetState(e, "End")

\* MediaSessionPrivate::failure() over CallSessionPrivate::failure(), under the
\* call_failure callback.
Failure(e, code) ==
  IF ~e.attached THEN e
  ELSE IF e.state \in TransientState \cup {"StreamsRunning"} /\ code = 491
  THEN IF e.retry # "none" THEN e ELSE SetState(e, e.lastStable)
  ELSE IF e.state \in TransientState \cup {"StreamsRunning"} /\ code # 481
  THEN SetState(e, e.prevState)
  ELSE IF e.state \in {"End", "Error"} THEN e
  ELSE IF code # 603 /\ e.state \in EarlyState THEN SetState(e, "Error")
  ELSE SetState(e, "End")

\* MediaSessionPrivate::remoteRinging(), under the call_ringing callback.
RemoteRinging(e) == IF e.attached THEN SetState(e, "OutgoingRinging") ELSE e

\* Mutant of Terminated: a call that ended in an error is ended again.
MutTerminated(e) == IF e.attached THEN SetState(e, "End") ELSE e

\* MediaSessionPrivate::terminated(), under the call_terminated callback.
Terminated(e) ==
  IF ~e.attached \/ e.state \in {"End", "Error"} THEN e ELSE SetState(e, "End")

(***************************************************************************)
(* SalCallOp: events from the stack.                                       *)
(***************************************************************************)

\* Mutant of HandleRetry: the timer is not armed.
MutHandleRetry(e) ==
  IF e.dialog = "Confirmed" THEN e ELSE [e EXCEPT !.retry = "none"]

\* SalOp::handleRetry(), called for every 491 whatever its request.
HandleRetry(e) ==
  CASE e.retry = "none" -> e
    [] e.retry # "none" /\ e.dialog = "Confirmed" -> [e EXCEPT !.timers = @ + 1]
    [] OTHER -> [e EXCEPT !.retry = "none"]

\* External: the stack hands over a response only to the client transaction it
\* belongs to.
Matched(e, m) ==
  CASE m.method = "INVITE" -> e.client # "none"
    [] m.method = "BYE" -> e.bye > 0
    [] m.method = "INFO" -> e.info = "sent"
    [] OTHER -> TRUE

\* External: what the response does to the transactions and to the dialog of
\* the stack before the op hears of it.  A re-INVITE that outlived its dialog
\* creates no other one.
StackResponse(e, m) ==
  LET final == m.code >= 200
      ok == final /\ m.code < 300
  IN  CASE m.method = "INVITE" ->
             [e EXCEPT
               !.client = IF final THEN "none" ELSE "proceeding",
               !.dialog = CASE e.released -> @
                            [] ~e.released /\ @ \in {"None", "Early"} /\ ok -> "Confirmed"
                            [] ~e.released /\ @ = "None" /\ m.code = 180 -> "Early"
                            [] ~e.released /\ @ = "Early" /\ final /\ ~ok -> "TermEarly"
                            [] OTHER -> @]
        [] m.method = "BYE" ->
             [e EXCEPT !.bye = @ - 1,
                       !.dialog = IF @ = "Confirmed" THEN "TermConf" ELSE @]
        [] m.method = "INFO" -> [e EXCEPT !.info = "none"]
        [] OTHER -> e

\* SalCallOp::setError() for a response that ends the call.
SetFatalError(e, code) == Failure([e EXCEPT !.op = "Terminating"], code)

\* Mutant of EarlyResponse: a provisional response does not trigger the CANCEL
\* that had to wait for it.
MutEarlyResponse(e, m) ==
  CASE m.method # "INVITE" -> e
    [] m.method = "INVITE" /\ e.op = "Terminating" ->
         IF m.code >= 300 /\ ~HasDialog(e) THEN SetOpReleased(e) ELSE e
    [] m.method = "INVITE" /\ e.op # "Terminating" /\ m.code = 180 -> RemoteRinging(e)
    [] m.method = "INVITE" /\ e.op # "Terminating" /\ m.code >= 300 ->
         LET f == SetFatalError(e, m.code)
         IN  IF HasDialog(f) THEN f ELSE SetOpReleased(f)
    [] OTHER -> e

\* SalCallOp::processResponseCb() in an INVITE dialog that is not established.
EarlyResponse(e, m) ==
  CASE m.method # "INVITE" -> e
    [] m.method = "INVITE" /\ e.op = "Terminating" ->
         IF m.code >= 300 THEN (IF HasDialog(e) THEN e ELSE SetOpReleased(e))
         ELSE IF e.lastRequest = "CANCEL" THEN e
         ELSE CancellingInvite(e)
    [] m.method = "INVITE" /\ e.op # "Terminating" /\ m.code = 180 -> RemoteRinging(e)
    [] m.method = "INVITE" /\ e.op # "Terminating" /\ m.code >= 300 ->
         LET f == SetFatalError(e, m.code)
         IN  IF HasDialog(f) THEN f ELSE SetOpReleased(f)
    [] OTHER -> e

\* Mutant of ConfirmedResponse: a 200 that crosses the CANCEL is ignored.
MutConfirmedResponse(e, m, compatible) ==
  CASE e.op \in {"Early", "Active"} /\ m.method = "INVITE" /\ m.code = 200 ->
         [Accepted(e, m.dir, compatible) EXCEPT !.op = "Active"]
    [] e.op \in {"Early", "Active"} /\ m.method = "INVITE" /\ m.code >= 300 ->
         Failure(e, m.code)
    [] OTHER -> e

\* SalCallOp::processResponseCb() in an established dialog.  The op is Active
\* again after any 2xx, even one whose SDP made the session abort the call.
ConfirmedResponse(e, m, compatible) ==
  CASE e.op = "Terminating" -> SendBye(e)
    [] e.op \in {"Early", "Active"} /\ m.method = "INVITE" /\ m.code = 200 ->
         [Accepted(e, m.dir, compatible) EXCEPT !.op = "Active"]
    [] e.op \in {"Early", "Active"} /\ m.method = "INVITE" /\ m.code >= 300 ->
         Failure(e, m.code)
    [] OTHER -> e

\* Mutant of ProcessResponse: the retry function survives the final answer.
MutProcessResponse(e0, m, compatible) ==
  LET e1 == StackResponse(e0, m)
      e == IF m.code = 491 THEN HandleRetry(e1) ELSE e1
  IN  IF ~Matched(e0, m) THEN e0
      ELSE IF e1.op = "Terminated" THEN e1
      ELSE CASE e1.dialog \in {"None", "Null", "Early"} -> EarlyResponse(e, m)
             [] e1.dialog = "Confirmed" -> ConfirmedResponse(e, m, compatible)
             [] OTHER ->
                  IF m.code >= 300 /\ m.code # 491 /\ m.method \in {"INVITE", "BYE"}
                  THEN SetFatalError(e, m.code) ELSE e

\* Sal::processResponseEventCb() and SalCallOp::processResponseCb()
ProcessResponse(e0, m, compatible) ==
  LET e1 == StackResponse(e0, m)
      e == IF m.code = 491 THEN HandleRetry(e1) ELSE [e1 EXCEPT !.retry = "none"]
  IN  IF ~Matched(e0, m) THEN e0
      ELSE IF e1.op = "Terminated" THEN e1
      ELSE CASE e1.dialog \in {"None", "Null", "Early"} -> EarlyResponse(e, m)
             [] e1.dialog = "Confirmed" -> ConfirmedResponse(e, m, compatible)
             [] OTHER ->
                  IF m.code >= 300 /\ m.code # 491 /\ m.method \in {"INVITE", "BYE"}
                  THEN SetFatalError(e, m.code) ELSE e

\* SalCallOp::processRequestEventCb() on the INVITE that creates the call, then
\* call_received and CallSession::startIncomingNotification().
ReceiveCall(e, m) ==
  LET ringing == SetState([e EXCEPT !.attached = TRUE, !.server = TRUE,
                                    !.remote = m.dir, !.dialog = "Early"],
                          "IncomingReceived")
  IN  Send(Send(ringing, Response("INVITE", 100, "none")),
           Response("INVITE", 180, "none"))

\* call_received on a busy core, or MediaSession::startIncomingNotification()
\* without a common media: the op is declined and dropped.
RefuseCall(e, code) ==
  OpRelease(Reply([e EXCEPT !.server = TRUE, !.dialog = "Null"], code, "none"))

\* processRequestEventCb() on a re-INVITE.  After a BYE of ours the 481 is
\* built and never sent.
ReceiveReinvite(e, m, compatible, defer) ==
  LET r == [e EXCEPT !.server = TRUE, !.remote = m.dir]
  IN  IF Crossing(e) THEN Send(e, Response("INVITE", 491, "none"))
      ELSE IF e.op \in {"Terminating", "Terminated"} THEN [e EXCEPT !.server = TRUE]
      ELSE Updating(r, compatible, defer)

\* SalCallOp::callTerminated() on a CANCEL.
ReceiveCancel(e) ==
  LET ok == Send(e, Response("CANCEL", 200, "none"))
  IN  CASE e.dialog \in {"Null", "Early"} ->
             Terminated(Reply([ok EXCEPT !.op = "Terminating"], 487, "none"))
        [] e.dialog = "Confirmed" /\ e.server -> Reply(ok, 487, "none")
        [] e.dialog \in {"TermEarly", "TermConf", "Terminated"} -> e
        [] OTHER -> Send(e, Response("CANCEL", 481, "none"))

\* SalCallOp::callTerminated() on a BYE.
ReceiveBye(e) ==
  IF e.dialog = "Confirmed"
  THEN Terminated(Send([e EXCEPT !.op = "Terminating", !.dialog = "TermConf"],
                       Response("BYE", 200, "none")))
  ELSE Send(e, Response("BYE", 481, "none"))

\* processRequestEventCb() on an INFO.
ReceiveInfo(e) ==
  Send(e, Response("INFO",
            CASE e.dialog = "Confirmed" /\ Crossing(e) -> 491
              [] e.dialog = "Confirmed" /\ ~Crossing(e) -> 200
              [] e.dialog \in {"Null", "Early"} -> 501
              [] OTHER -> 481, "none"))

\* SalCallOp::processTimeoutCb(): no answer to the INVITE that starts the call.
ProcessTimeout(e0) ==
  LET e == [e0 EXCEPT !.client = "none"]
  IN  IF e.op = "Terminated" \/ HasDialog(e) THEN e
      ELSE SetOpReleased([Failure(e, 408) EXCEPT !.op = "Terminating"])

\* Mutant of ProcessDialogTerminated: setCallAsReleased() is not scheduled.
MutProcessDialogTerminated(e) ==
  LET alive == e.op \notin {"Terminating", "Terminated"}
      told == IF ~alive THEN e
              ELSE IF e.dialog = "TermEarly" THEN Failure(e, 0) ELSE Terminated(e)
  IN  [told EXCEPT !.op = IF alive THEN "Terminating" ELSE @, !.dialog = "Terminated"]

\* SalCallOp::processDialogTerminatedCb()
ProcessDialogTerminated(e) ==
  LET alive == e.op \notin {"Terminating", "Terminated"}
      told == IF ~alive THEN e
              ELSE IF e.dialog = "TermEarly" THEN Failure(e, 0) ELSE Terminated(e)
  IN  [told EXCEPT !.op = IF alive THEN "Terminating" ELSE @,
                   !.releaseLater = TRUE, !.dialog = "Terminated"]

\* SalCallOp::setCallAsReleased(), run by the main loop.
SetCallAsReleased(e) == SetOpReleased([e EXCEPT !.releaseLater = FALSE])

(***************************************************************************)
(* The session: requests of the application.                               *)
(***************************************************************************)

\* MediaSession::initiateOutgoing(); a new op is created for the call.
InitiateOutgoing(e) == SetState([e EXCEPT !.attached = TRUE], "OutgoingInit")

\* MediaSession::startInvite() and SalCallOp::call()
StartInvite(e) == SetState(SendInvite(e, LocalDir(e)), "OutgoingProgress")

\* MediaSessionPrivate::startAccept()
StartAccept(e) == SetState(SetState(OpAccept(e), "Connected"), "StreamsRunning")

\* Mutant of TerminateSession: the session does not wait for its dialog.
MutTerminateSession(e) == SetState(SetState(e, "End"), "Released")

\* MediaSessionPrivate::terminate() over CallSessionPrivate::terminate()
TerminateSession(e) ==
  LET ended == SetState(e, "End")
  IN  IF ended.attached /\ HasDialog(ended) THEN ended
      ELSE SetState(ended, "Released")

\* Mutant of Terminate: the op is not told.
MutTerminate(e) ==
  CASE e.state = "IncomingReceived" -> TerminateSession(Reply(e, 603, "none"))
    [] e.state = "OutgoingInit" -> TerminateSession(OpRelease(e))
    [] OTHER -> TerminateSession(e)

\* CallSession::terminate(), which declines a call that is still incoming.
Terminate(e) ==
  CASE e.state = "IncomingReceived" -> TerminateSession(Reply(e, 603, "none"))
    [] e.state = "OutgoingInit" -> TerminateSession(OpRelease(e))
    [] OTHER -> TerminateSession(OpTerminate(e))

\* MediaSessionPrivate::pause(): the result of the update is not looked at.
Pause(e) ==
  [OpUpdate(SetState(e, "Pausing")) EXCEPT !.retry = "pause"]

CanPause(e) ==
  /\ e.state \in {"StreamsRunning", "PausedByRemote"}
  /\ \/ e.result \in {"sendrecv", "recvonly"}
     \/ e.result = "inactive" /\ e.state = "PausedByRemote"

\* The retryable part of MediaSession::resume().
RetryResume(e) ==
  LET r == SetState(e, "Resuming")
  IN  IF CanSendRequest(r) THEN OpUpdate(r) ELSE SetState(r, e.state)

\* MediaSession::resume(), called by the application or as a pending action.
Resume(e) ==
  CASE e.state = "Pausing" -> [e EXCEPT !.pendingActions = @ + 1]
    [] e.state = "Paused" -> RetryResume([e EXCEPT !.retry = "resume"])
    [] OTHER -> e

\* CallSessionPrivate::isUpdateAllowed() in an established call.
UpdateState ==
  [s \in {"Connected", "StreamsRunning", "PausedByRemote", "UpdatedByRemote",
          "Paused", "Pausing", "Resuming", "Updating"} |->
     CASE s \in TransientState -> s
       [] s = "Paused" -> "Pausing"
       [] OTHER -> "Updating"]

\* MediaSession::update() with new parameters.
Update(e) ==
  [OpUpdate(SetState(e, UpdateState[e.state])) EXCEPT !.retry = "update"]

CanUpdate(e) ==
  e.retry = "none" /\ e.state \in DOMAIN UpdateState /\ CanSendRequest(e)

\* SalCallOp::sendDtmf(): the INFO becomes mPendingClientTransaction at once,
\* and is queued by the dialog while another request is pending.
SendDtmf(e) ==
  IF RequestPending(e) THEN [e EXCEPT !.info = "queued", !.lastRequest = "INFO"]
  ELSE Send([e EXCEPT !.info = "sent", !.lastRequest = "INFO"], Request("INFO", "none"))

CanSendDtmf(e) ==
  e.state \notin OverState /\ e.dialog \in {"Early", "Confirmed"} /\ e.info = "none"

\* External: the dialog sends the INFO it had queued.
SendQueuedInfo(e) == Send([e EXCEPT !.info = "sent"], Request("INFO", "none"))

\* Mutant of ExecutePendingActions: the queue is not known to hold an action.
MutExecutePendingActions(e0) ==
  LET e == [e0 EXCEPT !.execLater = FALSE]
      r == Resume(e)
  IN  CASE e.state = "Pausing" -> [e EXCEPT !.pendingActions = 2 * @]
        [] e.state = "Paused" ->
             IF r.state = "Resuming" THEN [r EXCEPT !.pendingActions = @ - 1] ELSE r
        [] OTHER -> e

\* CallSessionPrivate::executePendingActions(): the actions that fail are put
\* back, and a resume() that finds the call Pausing has queued itself as well.
ExecutePendingActions(e0) ==
  LET e == [e0 EXCEPT !.execLater = FALSE]
      r == Resume(e)
  IN  CASE e.state = "Pausing" -> [e EXCEPT !.pendingActions = 2 * @]
        [] e.state = "Paused" /\ e.pendingActions > 0 ->
             IF r.state = "Resuming" THEN [r EXCEPT !.pendingActions = @ - 1] ELSE r
        [] OTHER -> e

\* SalOp::runRetryFunc() once the timer of handleRetry() has fired and no
\* request is pending.
RunRetryFunc(e0) ==
  LET e == [e0 EXCEPT !.timers = @ - 1]
      retried == CASE e.retry = "resume" -> RetryResume(e)
                   [] e.retry \in {"pause", "update"} -> OpUpdate(e)
                   [] OTHER -> e
  IN  IF e.dialog \in {"None", "TermEarly", "TermConf", "Terminated"}
      THEN [e EXCEPT !.retry = "none"]
      ELSE [retried EXCEPT !.retry = "none"]

=============================================================================
