-------------------------------- MODULE Call --------------------------------
(***************************************************************************)
(* A call between two liblinphone endpoints.  Each endpoint runs the       *)
(* handlers of module CallSession in one main loop, so a handler is one    *)
(* step; what interleaves is the application of either side, the messages  *)
(* in flight, the dialog and retry timers of the SIP stack and the tasks   *)
(* both sides post to their main loop.                                     *)
(*                                                                         *)
(* Messages of one direction are delivered in order (one TCP or TLS        *)
(* connection); the INVITE that starts the call may be lost for good.      *)
(***************************************************************************)
EXTENDS CallSession

CONSTANTS
  Caller, Callee,   \* the two endpoints
  Budget            \* how often each choice of the environment is available

Choice == {"pause", "resume", "update", "dtmf", "terminate", "defer",
           "reject", "incompatible", "refuse", "loss"}

ASSUME EndpointAssumption == Caller # Callee
ASSUME BudgetAssumption == Budget \in [Choice -> Nat]

VARIABLES
  ua,      \* the state of each endpoint
  net,     \* the messages on their way to each endpoint
  budget   \* what is left of Budget

vars == <<ua, net, budget>>

UA == {Caller, Callee}
Peer(u) == IF u = Caller THEN Callee ELSE Caller

TypeOK ==
  /\ ua \in [UA -> Endpoint]
  /\ net \in [UA -> Seq(Msg)]
  /\ budget \in [Choice -> Nat]

Init ==
  /\ ua = [u \in UA |-> InitEndpoint(u = Callee)]
  /\ net = [u \in UA |-> <<>>]
  /\ budget = Budget

\* The environment makes a choice whose number is bounded.
Spend(c) == budget[c] > 0 /\ budget' = [budget EXCEPT ![c] = @ - 1]

\* Endpoint u runs a handler that leaves it as e: what it sent is on its way.
Run(u, e) ==
  /\ ua' = [ua EXCEPT ![u] = [e EXCEPT !.out = <<>>]]
  /\ net' = [net EXCEPT ![Peer(u)] = @ \o e.out]

\* The same for the handler of the first message on its way to u.
Handle(u, e) ==
  /\ ua' = [ua EXCEPT ![u] = [e EXCEPT !.out = <<>>]]
  /\ net' = [net EXCEPT ![u] = Tail(@), ![Peer(u)] = @ \o e.out]

(***************************************************************************)
(* The application.                                                        *)
(***************************************************************************)

\* linphone_core_invite(): the INVITE leaves at once, or waits for the ICE
\* candidates.
Invite(u) ==
  /\ ~ua[u].incoming /\ ~ua[u].attached /\ ua[u].state = "Idle"
  /\ \/ Run(u, InitiateOutgoing(ua[u]))
     \/ Run(u, StartInvite(InitiateOutgoing(ua[u])))
  /\ UNCHANGED budget

\* The task of MediaSession::initiateOutgoing() once ICE gathering is over.
GatheringDone(u) ==
  /\ ua[u].state = "OutgoingInit"
  /\ Run(u, StartInvite(ua[u]))
  /\ UNCHANGED budget

Accept(u) ==
  /\ ua[u].state = "IncomingReceived"
  /\ Run(u, StartAccept(ua[u]))
  /\ UNCHANGED budget

TerminateCall(u) ==
  /\ ua[u].state \notin OverState \cup {"Idle"}
  /\ Spend("terminate")
  /\ Run(u, Terminate(ua[u]))

\* CallSession::iterate(): the ringing of an incoming call is bounded in time.
IncomingTimeout(u) ==
  /\ ua[u].state = "IncomingReceived"
  /\ Run(u, Terminate(ua[u]))
  /\ UNCHANGED budget

PauseCall(u) ==
  /\ CanPause(ua[u])
  /\ Spend("pause")
  /\ Run(u, Pause(ua[u]))

ResumeCall(u) ==
  /\ ua[u].state \in {"Pausing", "Paused"}
  /\ Spend("resume")
  /\ Run(u, Resume(ua[u]))

UpdateCall(u) ==
  /\ CanUpdate(ua[u])
  /\ Spend("update")
  /\ Run(u, Update(ua[u]))

\* linphone_call_accept_update(), after the application deferred the answer.
AcceptDeferredUpdate(u) ==
  /\ ua[u].state = "UpdatedByRemote"
  /\ Run(u, AcceptUpdateAsked(ua[u]))
  /\ UNCHANGED budget

Dtmf(u) ==
  /\ CanSendDtmf(ua[u])
  /\ Spend("dtmf")
  /\ Run(u, SendDtmf(ua[u]))

(***************************************************************************)
(* Messages.                                                               *)
(***************************************************************************)

Arrives(u, method) ==
  net[u] # <<>> /\ Head(net[u]).method = method /\ Head(net[u]).code = 0

\* The endpoint has not seen the INVITE of the call yet.
Unknown(e) == e.incoming /\ e.dialog = "None" /\ e.op = "Early"

ReceiveInvite(u) ==
  LET e == ua[u]
      m == Head(net[u])
  IN  /\ Arrives(u, "INVITE")
      /\ \/ Unknown(e) /\ Handle(u, ReceiveCall(e, m)) /\ UNCHANGED budget
         \/ Unknown(e) /\ Handle(u, RefuseCall(e, 486)) /\ Spend("refuse")
         \/ /\ e.dialog = "Confirmed"
            /\ \/ Handle(u, ReceiveReinvite(e, m, TRUE, FALSE)) /\ UNCHANGED budget
               \/ Handle(u, ReceiveReinvite(e, m, TRUE, TRUE)) /\ Spend("defer")
               \/ Handle(u, ReceiveReinvite(e, m, FALSE, FALSE)) /\ Spend("reject")
         \/ /\ ~Unknown(e) /\ e.dialog # "Confirmed"
            /\ Handle(u, Send(e, Response("INVITE", 481, "none")))
            /\ UNCHANGED budget

ReceiveOther(u) ==
  /\ \/ Arrives(u, "CANCEL") /\ Handle(u, ReceiveCancel(ua[u]))
     \/ Arrives(u, "BYE") /\ Handle(u, ReceiveBye(ua[u]))
     \/ Arrives(u, "INFO") /\ Handle(u, ReceiveInfo(ua[u]))
  /\ UNCHANGED budget

ReceiveResponse(u) ==
  /\ net[u] # <<>> /\ Head(net[u]).code # 0
  /\ \/ Handle(u, ProcessResponse(ua[u], Head(net[u]), TRUE)) /\ UNCHANGED budget
     \/ /\ Head(net[u]).method = "INVITE" /\ Head(net[u]).code = 200
        /\ Spend("incompatible")
        /\ Handle(u, ProcessResponse(ua[u], Head(net[u]), FALSE))

\* Every copy of the first INVITE is lost and its transaction times out.
InviteTimeout(u) ==
  /\ ua[u].client = "calling" /\ ua[u].dialog = "None"
  /\ Arrives(Peer(u), "INVITE")
  /\ Spend("loss")
  /\ ua' = [ua EXCEPT ![u] = [ProcessTimeout(@) EXCEPT !.out = <<>>]]
  /\ net' = [net EXCEPT ![Peer(u)] = Tail(@)]

(***************************************************************************)
(* The main loop.                                                          *)
(***************************************************************************)

DialogTerminated(u) ==
  /\ ua[u].dialog \in {"TermEarly", "TermConf"}
  /\ Run(u, ProcessDialogTerminated(ua[u]))
  /\ UNCHANGED budget

ReleaseLater(u) ==
  /\ ua[u].releaseLater
  /\ Run(u, SetCallAsReleased(ua[u]))
  /\ UNCHANGED budget

\* While a request is pending the timer only rearms itself.
RetryTimer(u) ==
  /\ ua[u].timers > 0
  /\ ua[u].retry = "none" \/ ua[u].dialog # "Confirmed" \/ ~RequestPending(ua[u])
  /\ Run(u, RunRetryFunc(ua[u]))
  /\ UNCHANGED budget

ExecuteLater(u) ==
  /\ ua[u].execLater
  /\ Run(u, ExecutePendingActions(ua[u]))
  /\ UNCHANGED budget

InfoDequeued(u) ==
  /\ ua[u].info = "queued" /\ ua[u].dialog = "Confirmed" /\ ~RequestPending(ua[u])
  /\ Run(u, SendQueuedInfo(ua[u]))
  /\ UNCHANGED budget

\* What the library and the network do by themselves.
Internal(u) ==
  \/ GatheringDone(u) \/ IncomingTimeout(u)
  \/ ReceiveInvite(u) \/ ReceiveOther(u) \/ ReceiveResponse(u)
  \/ DialogTerminated(u) \/ ReleaseLater(u) \/ RetryTimer(u)
  \/ ExecuteLater(u) \/ InfoDequeued(u)

\* What the application does.
User(u) ==
  \/ Invite(u) \/ Accept(u) \/ TerminateCall(u) \/ PauseCall(u)
  \/ ResumeCall(u) \/ UpdateCall(u) \/ AcceptDeferredUpdate(u) \/ Dtmf(u)

Next == \E u \in UA : User(u) \/ Internal(u) \/ InviteTimeout(u)

Spec == Init /\ [][Next]_vars

\* The main loop of either side runs, so each of its sources is served in the
\* end, and messages arrive.  An application that deferred an answer gives it;
\* nothing else is asked of the applications.
Fairness ==
  \A u \in UA :
    /\ WF_vars(GatheringDone(u)) /\ WF_vars(IncomingTimeout(u))
    /\ WF_vars(ReceiveInvite(u)) /\ WF_vars(ReceiveOther(u))
    /\ WF_vars(ReceiveResponse(u))
    /\ WF_vars(DialogTerminated(u)) /\ WF_vars(ReleaseLater(u))
    /\ WF_vars(RetryTimer(u)) /\ WF_vars(ExecuteLater(u))
    /\ WF_vars(InfoDequeued(u))
    /\ WF_vars(AcceptDeferredUpdate(u))

FairSpec == Spec /\ Fairness

(***************************************************************************)
(* Safety of one endpoint.                                                 *)
(***************************************************************************)

\* setState() never meets a transition its sanity checks abort the program for:
\* a session that is over is only released, and only then.
LegalTransitions == \A u \in UA : ~ua[u].fatal

\* A retry timer that can run its function finds a session that is still going:
\* the lambda captured the session, and would take an ended call out of End.
RetryTargetsLiveSession ==
  \A u \in UA :
    /\ ua[u].timers > 0 /\ ua[u].retry # "none"
    /\ ua[u].dialog = "Confirmed" /\ ~RequestPending(ua[u])
    => ua[u].attached /\ ua[u].state \notin OverState

EstablishedState == {"StreamsRunning", "Pausing", "Paused", "Resuming", "Updating",
                     "UpdatedByRemote", "PausedByRemote"}

\* The session and the states it remembers.
SessionInv(e) ==
  /\ ~e.fatal
  /\ e.state = "Released" => ~e.attached
  /\ e.state \notin {"Idle", "Released"} => e.attached
  /\ e.prevState \in OverState => e.state = "Released"
  /\ e.state \in EstablishedState => e.prevState \notin EarlyState
  /\ e.lastStable \in {"Idle", "StreamsRunning", "Paused"}

\* The session is over when its op or its dialog is, and before both are gone.
OverInv(e) ==
  /\ /\ e.attached
     /\ \/ e.op \in {"Terminating", "Terminated"} \/ e.bye > 0
        \/ e.dialog \in {"TermConf", "Terminated"}
     => e.state \in {"End", "Error"}
  /\ e.attached /\ e.dialog \in {"None", "Null", "Early", "TermEarly"} =>
       e.state \in EarlyState \cup {"End", "Error"}
  /\ e.releaseLater \/ e.state = "Released" => e.op \in {"Terminating", "Terminated"}
  /\ e.released => e.op = "Terminated" /\ e.dialog = "None"
  /\ e.op = "Early" => e.bye = 0

\* Who waits for an answer, and who may still send again.
RequestInv(e) ==
  /\ e.client # "none" /\ e.state \notin OverState =>
       e.state \in TransientState \cup {"OutgoingProgress", "OutgoingRinging"}
  /\ e.client # "none" /\ (e.state \in {"End", "Error"} \/ e.dialog = "TermEarly") =>
       e.op \in {"Terminating", "Terminated"}
  /\ e.retry # "none" /\ e.state \notin OverState =>
       e.state \in TransientState \cup (IF e.retry = "resume" THEN {"Paused"} ELSE {})
  /\ e.retry # "none" =>
       e.released \/ e.dialog \in {"Confirmed", "TermConf", "Terminated"}
  /\ e.retry # "none" /\ e.dialog = "Confirmed" /\ e.state \in OverState => e.bye > 0

\* An endpoint that nobody called yet, or that is being called.
FreshInv(e) ==
  /\ e.state = "IncomingReceived" => e.server /\ e.dialog = "Early"
  /\ e.state = "OutgoingInit" => e.dialog = "None"
  /\ e.state = "Idle" /\ ~e.incoming /\ ~e.attached => e.op = "Early" /\ e.dialog = "None"
  /\ e.incoming /\ e.op = "Early" /\ e.dialog = "None" => e.state = "Idle"

\* What every handler keeps true of its endpoint, whatever the peer sends: how
\* the state of the session depends on the op, on its dialog and on the
\* transactions.
EndpointInv(e) == SessionInv(e) /\ OverInv(e) /\ RequestInv(e) /\ FreshInv(e)

Inv == \A u \in UA : EndpointInv(ua[u])

(***************************************************************************)
(* The two endpoints together.                                             *)
(***************************************************************************)

\* Nothing is on its way, no task or timer is due and no request is open.
Quiet ==
  \A u \in UA :
    /\ net[u] = <<>>
    /\ ~ua[u].execLater /\ ~ua[u].releaseLater /\ ua[u].timers = 0
    /\ ~RequestPending(ua[u])
    /\ ua[u].info = "none"
    /\ ua[u].dialog \notin {"TermEarly", "TermConf"}

\* No half-open call: once everything has been delivered either both sides have
\* an established session and dialog or none has.  It takes a BYE for every 200
\* that crosses a CANCEL (SalCallOp::processResponseCb in op state Terminating).
Up(e) == e.state \in EstablishedState /\ e.dialog = "Confirmed"
Down(e) == e.state \notin EstablishedState /\ e.dialog # "Confirmed"

NoHalfOpenCall ==
  Quiet => (\A u \in UA : Up(ua[u])) \/ (\A u \in UA : Down(ua[u]))

\* A caller that gave up does not leave the callee ringing: a CANCEL is on its
\* way, or the provisional response that makes the op send one, or the callee
\* has not reacted to it yet.
NoOrphanRinging ==
  /\ ua[Caller].state \in OverState /\ ua[Callee].state = "IncomingReceived"
  => \/ \E i \in DOMAIN net[Callee] : net[Callee][i].method = "CANCEL"
     \/ \E i \in DOMAIN net[Caller] : net[Caller][i].code \in {100, 180}

\* Once everything has been delivered the two sides of an established call agree
\* on who sends: the directions they negotiated (resultDesc) mirror each other,
\* whatever re-INVITEs crossed.
Mirror ==
  [d \in Dir |-> CASE d = "sendonly" -> "recvonly" [] d = "recvonly" -> "sendonly"
                   [] OTHER -> d]

MirroredDirections ==
  /\ Quiet
  /\ \A u \in UA : ua[u].dialog = "Confirmed" /\ ua[u].state \notin OverState
  => ua[Caller].result = Mirror[ua[Callee].result]

\* Once everything has been delivered no session waits for an answer that will
\* never come: it is idle, established, held or released.
SettledAtRest ==
  Quiet => \A u \in UA : ua[u].state \in {"Idle", "OutgoingInit", "StreamsRunning",
                                          "Paused", "PausedByRemote", "Released"}

\* While the session waits for the answer to a re-INVITE, that request is in
\* progress or a retry of it is still set up: the retry function is not dropped
\* before it was "executed or not needed anymore" (call-op.cpp, code != 491).
WaitsForSomething ==
  \A u \in UA : ua[u].state \in TransientState =>
                  ua[u].client # "none" \/ ua[u].retry # "none"

(***************************************************************************)
(* Liveness, under FairSpec.                                               *)
(***************************************************************************)

\* A pause, resume or update is settled one way or the other, also when the
\* requests of both sides keep crossing.
RenegotiationSettles ==
  \A u \in UA : ua[u].state \in TransientState ~> ua[u].state \notin TransientState

(***************************************************************************)
(* The life of a call as the applications see it.                          *)
(***************************************************************************)

PhaseOf(s) ==
  CASE s = "Idle" -> "Idle"
    [] s \in EarlyState \ {"Idle"} -> "Setup"
    [] s \in {"End", "Error"} -> "Over"
    [] s = "Released" -> "Released"
    [] OTHER -> "Established"

Lifecycle == INSTANCE CallLifecycle WITH phase <- [u \in UA |-> PhaseOf(ua[u].state)]

\* The states the two sessions go through are those of one call, whatever the
\* applications ask and whatever crosses on the way: the callee's starts after the
\* caller's, each is established at most once and the caller's only after the callee
\* answered, each is over at most once and released only then.
StagesInOrder == Lifecycle!Safety

\* The same, and a call that is over is released in the end.
ImplementsLifecycle == Lifecycle!Spec

=============================================================================
