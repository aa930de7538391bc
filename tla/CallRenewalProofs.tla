------------------------- MODULE CallRenewalProofs -------------------------
(***************************************************************************)
(* Renegotiation in an established call: pause, resume and update of both  *)
(* sides, crossing, refused by a 491, retried and deferred, while either   *)
(* side may also give up.                                                  *)
(*                                                                         *)
(* CallSetupProofs follows the dialog; here the offers and answers are     *)
(* followed inside it.  The re-INVITE of a side is at most in one place:   *)
(* on its way, at the peer that deferred its answer, or refused or         *)
(* accepted by an answer on its way back.                                  *)
(***************************************************************************)
EXTENDS CallSetupProofs

(***************************************************************************)
(* What the helpers write of a negotiation.                                *)
(***************************************************************************)

\* setState(s) in an established session: where it came from is noted, and nothing
\* but the session is written.
Moves(d, e, s) ==
  /\ d \in Endpoint /\ Apart(d, e) /\ d.op = e.op /\ d.attached = e.attached
  /\ d.result = e.result /\ d.state = s
  /\ d.prevState = (IF e.state = s THEN e.prevState ELSE e.state)
  /\ d.lastStable = (IF e.state # s /\ e.state \in {"StreamsRunning", "Paused"}
                     THEN e.state ELSE e.lastStable)

\* CallSessionPrivate::setState() leaves the negotiated description alone.
LEMMA SetStateResult ==
  ASSUME NEW e \in Endpoint, NEW s \in CallState
  PROVE  SetState(e, s).result = e.result
<1>1. CASE e.state = s BY <1>1 DEF SetState
<1>2. CASE e.state # s
  BY <1>2 DEF SetState, SetSessionReleased, OpRelease, Endpoint
<1> QED BY <1>1, <1>2

\* Between established states setState() is never refused.
LEMMA SetStateMoves ==
  ASSUME NEW e \in Endpoint, e.state \in EstablishedState, NEW s \in EstablishedState
  PROVE  Moves(SetState(e, s), e, s)
<1>1. s \in CallState \ {"Released"} /\ ~BadTransition(e.state, s)
  BY DEF EstablishedState, CallState, BadTransition
<1>2. SetState(e, s).result = e.result BY <1>1, SetStateResult
<1> QED BY <1>1, <1>2, SetStateTo DEF Moves

\* A re-INVITE that leaves: the client transaction is open, and the offer is the
\* direction the session asks for.
Invites(d, e) ==
  /\ d \in Endpoint /\ SameSession(d, e) /\ Kept(d, e) /\ d.op = e.op
  /\ d.client = "calling" /\ d.offer = LocalDir(e) /\ d.result = e.result
  /\ d.retry = e.retry /\ d.timers = e.timers
  /\ d.out = <<Request("INVITE", d.offer)>>

\* SalCallOp::update() sends the re-INVITE if no request is pending in the dialog.
LEMMA OpUpdateInvites ==
  ASSUME NEW e \in Endpoint, e.out = <<>>, CanSendRequest(e)
  PROVE  Invites(OpUpdate(e), e)
<1> DEFINE l == LocalDir(e)
           d == SendInvite(e, l)
           a == [e EXCEPT !.client = "calling", !.lastRequest = "INVITE", !.offer = l]
<1>1. l \in Dir BY DirType
<1> HIDE DEF l
<1>2. /\ d \in Endpoint /\ SameSession(d, e) /\ Kept(d, e) /\ d.op = e.op
      /\ d.client = "calling" /\ d.offer = l /\ d.out = Append(<<>>, Request("INVITE", l))
  BY <1>1, SendInviteFacts
<1>3. a.result = e.result /\ a.retry = e.retry /\ a.timers = e.timers /\ a \in Endpoint
  BY <1>1 DEF Endpoint, ClientState, Method
<1>4. d = [a EXCEPT !.out = Append(@, Request("INVITE", l))] BY DEF SendInvite, Send
<1>5. d.result = e.result /\ d.retry = e.retry /\ d.timers = e.timers
  BY <1>3, <1>4 DEF Endpoint
<1>6. OpUpdate(e) = d BY DEF OpUpdate, l
<1> HIDE DEF d
<1>7. d.out = <<Request("INVITE", l)>> BY <1>2
<1> QED BY <1>2, <1>5, <1>6, <1>7 DEF Invites, l

\* Only the retry function, its timers and the queue of actions are written.
Sets(d, e) == Trimmed(d, e) /\ d.result = e.result

\* SalOp::setRetryFunction(), the timers of handleRetry() and the pending actions.
LEMMA SetsFacts ==
  ASSUME NEW e \in Endpoint
  PROVE  /\ \A r \in RetryFunc :
              LET d == [e EXCEPT !.retry = r]
              IN  Sets(d, e) /\ d.retry = r /\ d.timers = e.timers
         /\ \A n \in Nat :
              LET d == [e EXCEPT !.timers = n]
              IN  Sets(d, e) /\ d.retry = e.retry /\ d.timers = n
         /\ \A n \in Nat :
              LET d == [e EXCEPT !.pendingActions = n]
              IN  Sets(d, e) /\ d.retry = e.retry /\ d.timers = e.timers
         /\ LET d == [e EXCEPT !.execLater = FALSE]
            IN  Sets(d, e) /\ d.retry = e.retry /\ d.timers = e.timers
<1>1. ASSUME NEW r \in RetryFunc
      PROVE  LET d == [e EXCEPT !.retry = r]
             IN  Sets(d, e) /\ d.retry = r /\ d.timers = e.timers
  BY DEF Sets, Trimmed, SameSession, Kept, Endpoint
<1>2. ASSUME NEW n \in Nat
      PROVE  LET d == [e EXCEPT !.timers = n]
             IN  Sets(d, e) /\ d.retry = e.retry /\ d.timers = n
  BY DEF Sets, Trimmed, SameSession, Kept, Endpoint
<1>3. ASSUME NEW n \in Nat
      PROVE  LET d == [e EXCEPT !.pendingActions = n]
             IN  Sets(d, e) /\ d.retry = e.retry /\ d.timers = e.timers
  BY DEF Sets, Trimmed, SameSession, Kept, Endpoint
<1>4. LET d == [e EXCEPT !.execLater = FALSE]
      IN  Sets(d, e) /\ d.retry = e.retry /\ d.timers = e.timers
  BY DEF Sets, Trimmed, SameSession, Kept, Endpoint
<1> QED BY <1>1, <1>2, <1>3, <1>4

(***************************************************************************)
(* An established session renegotiates.                                    *)
(***************************************************************************)

\* No INFO is under way; a session that waits for an answer has its re-INVITE open
\* or a timer that will send it again; an update whose answer was deferred found the
\* call running or held by the peer, and nothing else is left unanswered.
Calm(e) ==
  /\ e.info = "none"
  /\ e.state \in TransientState =>
       e.client # "none" \/ (e.retry # "none" /\ e.timers > 0)
  /\ e.state = "UpdatedByRemote" => e.prevState \in {"StreamsRunning", "PausedByRemote"}
  /\ e.state \in EstablishedState /\ e.server => e.state = "UpdatedByRemote"

\* The part of the record the negotiation is about is the same.
Steady(d, e) ==
  /\ d.client = e.client /\ d.server = e.server
  /\ d.offer = e.offer /\ d.remote = e.remote /\ d.result = e.result

\* The session offers: one re-INVITE, when none is open in either direction.
Offers(d, e) ==
  /\ e.client = "none" /\ ~e.server /\ d.client # "none" /\ ~d.server
  /\ d.offer \in {"sendrecv", "sendonly"} /\ d.remote = e.remote /\ d.result = e.result
  /\ d.out = <<Request("INVITE", d.offer)>>

\* The session answers the direction o with the one it keeps.
Answers(d, e, o) ==
  /\ e.client = "none" /\ d.client = "none" /\ ~d.server
  /\ \E l \in {"sendrecv", "sendonly"} : d.result = ComputeDirIncoming(l, o)
  /\ d.out = <<Response("INVITE", 200, d.result)>>

\* An update stays unanswered only if it was so before.
Lingers(d, e) ==
  d.state = "UpdatedByRemote" /\ ~d.server => e.state = "UpdatedByRemote" /\ ~e.server

\* What an established session in good order is.
LEMMA CalmFacts ==
  ASSUME NEW e \in Endpoint, EndpointInv(e), Calm(e), e.state \in EstablishedState
  PROVE  /\ e.dialog = "Confirmed" /\ e.attached /\ e.bye = 0 /\ ~e.released
         /\ e.op \in {"Early", "Active"}
         /\ e.client # "none" => e.state \in TransientState /\ ~e.server
         /\ e.retry # "none" => e.state \in TransientState \cup {"Paused"}
         /\ RequestPending(e) <=> e.client # "none" \/ e.server
         /\ Crossing(e) <=> e.client # "none" \/ e.server
         /\ CanSendRequest(e) <=> e.client = "none" /\ ~e.server
<1>1. e.dialog = "Confirmed" /\ e.attached BY EstablishedFacts
<1>2. e.state \notin OverState /\ e.state \notin EarlyState
  BY DEF EstablishedState, OverState, EarlyState
<1>3. e.op \in OpState /\ e.bye \in Nat BY FieldTypes
<1>4. e.bye = 0 /\ e.op \in {"Early", "Active"} /\ ~e.released
  BY <1>1, <1>2, <1>3 DEF EndpointInv, OverInv, OverState, OpState
<1>5. e.client # "none" => e.state \in TransientState
  BY <1>2 DEF EndpointInv, RequestInv, EstablishedState
<1>6. e.retry # "none" => e.state \in TransientState \cup {"Paused"}
  BY <1>2 DEF EndpointInv, RequestInv
<1>7. e.client # "none" => ~e.server BY <1>5 DEF Calm, TransientState
<1>8. e.info = "none" BY DEF Calm
<1> QED BY <1>1, <1>4, <1>5, <1>6, <1>7, <1>8
     DEF RequestPending, Crossing, CanSendRequest

\* Whatever the session offers for itself is one of two directions.
LEMMA LocalDirs ==
  ASSUME NEW e
  PROVE  LocalDir(e) \in {"sendrecv", "sendonly"}
BY DEF LocalDir

\* What a step of the session itself comes to: nothing is sent and nothing agreed
\* upon changes, or a re-INVITE is sent.
Proceeds(d, e) ==
  /\ d.state \in EstablishedState /\ Calm(d) /\ Lingers(d, e)
  /\ (d.out = <<>> /\ Steady(d, e)) \/ Offers(d, e)

\* Timers, retry function and pending actions leave the negotiation alone.
LEMMA SetsProceeds ==
  ASSUME NEW e \in Endpoint, Calm(e), e.state \in EstablishedState, e.out = <<>>,
         NEW d, Sets(d, e),
         \/ d.retry = e.retry /\ d.timers = e.timers
         \/ e.client # "none" \/ e.state \notin TransientState
  PROVE  Proceeds(d, e)
<1>1. d.state = e.state /\ d.prevState = e.prevState /\ d.info = e.info /\ Steady(d, e)
      /\ d.out = <<>>
  BY DEF Sets, Trimmed, SameSession, Kept, Steady
<1>2. Calm(d) BY <1>1 DEF Calm, Steady
<1>3. Lingers(d, e) BY <1>1 DEF Lingers, Steady
<1> QED BY <1>1, <1>2, <1>3 DEF Proceeds

\* A re-INVITE that leaves once the session waits for its answer.
LEMMA InvitesProceeds ==
  ASSUME NEW e \in Endpoint, Calm(e), e.client = "none", ~e.server,
         NEW b \in Endpoint, Kept(b, e), b.result = e.result, b.state \in TransientState,
         NEW p, Invites(p, b), NEW d, Sets(d, p)
  PROVE  Proceeds(d, e)
<1>1. p.state = b.state /\ p.client = "calling" /\ p.server = b.server /\ p.remote = b.remote
      /\ p.result = b.result /\ p.info = b.info /\ p.offer = LocalDir(b)
      /\ p.out = <<Request("INVITE", p.offer)>>
  BY DEF Invites, SameSession, Kept
<1>2. d.state = p.state /\ d.client = p.client /\ d.server = p.server /\ d.remote = p.remote
      /\ d.result = p.result /\ d.info = p.info /\ d.offer = p.offer /\ d.out = p.out
  BY DEF Sets, Trimmed, SameSession, Kept
<1>3. b.server = e.server /\ b.remote = e.remote /\ b.info = e.info BY DEF Kept
<1>4. p.offer \in {"sendrecv", "sendonly"} BY <1>1, LocalDirs
<1>5. d.state \in TransientState /\ d.state # "UpdatedByRemote" /\ d.state \in EstablishedState
  BY <1>1, <1>2 DEF TransientState, EstablishedState
<1>6. Offers(d, e) BY <1>1, <1>2, <1>3, <1>4 DEF Offers
<1>7. Calm(d) BY <1>1, <1>2, <1>3, <1>5 DEF Calm
<1>8. Lingers(d, e) BY <1>5 DEF Lingers
<1> QED BY <1>5, <1>6, <1>7, <1>8 DEF Proceeds

\* The dialog and the transactions decide whether a request can be sent.
LEMMA CanSendSame ==
  ASSUME NEW e, NEW b, Kept(b, e), b.client = e.client
  PROVE  CanSendRequest(b) <=> CanSendRequest(e)
BY DEF CanSendRequest, RequestPending, Kept

\* MediaSession::pause() and update(): the session moves, then its op asks.
LEMMA AskProceeds ==
  ASSUME NEW e \in Endpoint, EndpointInv(e), Calm(e), e.state \in EstablishedState,
         e.out = <<>>, e.client = "none", ~e.server,
         NEW s \in TransientState, NEW r \in RetryFunc
  PROVE  Proceeds([OpUpdate(SetState(e, s)) EXCEPT !.retry = r], e)
<1> DEFINE b == SetState(e, s)
           p == OpUpdate(b)
<1>1. Moves(b, e, s) BY SetStateMoves DEF TransientState, EstablishedState
<1>2. /\ b \in Endpoint /\ Kept(b, e) /\ b.result = e.result /\ b.state = s
      /\ b.client = e.client /\ b.out = <<>>
  BY <1>1 DEF Moves, Apart, Beside
<1> HIDE DEF b
<1>3. CanSendRequest(b) BY <1>2, CanSendSame, CalmFacts
<1>4. Invites(p, b) BY <1>2, <1>3, OpUpdateInvites
<1>5. p \in Endpoint BY <1>4 DEF Invites
<1> HIDE DEF p
<1>6. Sets([p EXCEPT !.retry = r], p) BY <1>5, SetsFacts
<1>7. Proceeds([p EXCEPT !.retry = r], e) BY <1>2, <1>4, <1>6, InvitesProceeds
<1> QED BY <1>7 DEF p, b

\* MediaSession::pause(), asked for by the application.
LEMMA PauseProceeds ==
  ASSUME NEW e \in Endpoint, EndpointInv(e), Calm(e), e.out = <<>>, CanPause(e)
  PROVE  Proceeds(Pause(e), e)
<1>1. e.state \in {"StreamsRunning", "PausedByRemote"} BY DEF CanPause
<1>2. e.state \in EstablishedState /\ e.state # "UpdatedByRemote"
      /\ e.state \notin TransientState
  BY <1>1 DEF EstablishedState, TransientState
<1>3. e.client = "none" /\ ~e.server BY <1>2, CalmFacts DEF Calm
<1>4. "Pausing" \in TransientState BY DEF TransientState
<1>5. Proceeds([OpUpdate(SetState(e, "Pausing")) EXCEPT !.retry = "pause"], e)
  BY <1>2, <1>3, <1>4, AskProceeds, NamedRetries
<1> QED BY <1>5 DEF Pause

\* MediaSession::update(), which is refused while a request is pending.
LEMMA UpdateProceeds ==
  ASSUME NEW e \in Endpoint, EndpointInv(e), Calm(e), e.out = <<>>, CanUpdate(e),
         e.state \in EstablishedState
  PROVE  Proceeds(Update(e), e)
<1>1. e.client = "none" /\ ~e.server BY CalmFacts DEF CanUpdate
<1>2. UpdateState[e.state] \in TransientState
  BY DEF CanUpdate, UpdateState, TransientState
<1>3. Proceeds([OpUpdate(SetState(e, UpdateState[e.state])) EXCEPT !.retry = "update"], e)
  BY <1>1, <1>2, AskProceeds, NamedRetries
<1> QED BY <1>3 DEF Update

\* The retryable part of MediaSession::resume(), when no request is pending.
LEMMA RetryResumeInvites ==
  ASSUME NEW e \in Endpoint, e.state \in EstablishedState, e.out = <<>>, CanSendRequest(e)
  PROVE  \E b \in Endpoint : /\ Kept(b, e) /\ b.result = e.result /\ b.state = "Resuming"
                             /\ Invites(RetryResume(e), b)
<1> DEFINE b == SetState(e, "Resuming")
<1>1. Moves(b, e, "Resuming") BY SetStateMoves DEF EstablishedState
<1>2. /\ b \in Endpoint /\ Kept(b, e) /\ b.result = e.result /\ b.state = "Resuming"
      /\ b.client = e.client /\ b.out = <<>>
  BY <1>1 DEF Moves, Apart, Beside
<1>3. RetryResume(e) = IF CanSendRequest(b) THEN OpUpdate(b) ELSE SetState(b, e.state)
  BY DEF RetryResume
<1> HIDE DEF b
<1>4. CanSendRequest(b) BY <1>2, CanSendSame
<1>5. Invites(OpUpdate(b), b) BY <1>2, <1>4, OpUpdateInvites
<1> QED BY <1>2, <1>3, <1>4, <1>5

\* The writes before and after a request count for nothing.
LEMMA SetsKept ==
  ASSUME NEW e, NEW a, Sets(a, e)
  PROVE  /\ a \in Endpoint /\ Kept(a, e) /\ a.result = e.result /\ a.state = e.state
         /\ a.out = e.out /\ a.client = e.client
         /\ \A b : Kept(b, a) /\ b.result = a.result => Kept(b, e) /\ b.result = e.result
BY DEF Sets, Trimmed, SameSession, Kept

\* MediaSession::resume(), asked for by the application or run as a pending action:
\* queued, or sent, or of no use.
LEMMA ResumeProceeds ==
  ASSUME NEW e \in Endpoint, EndpointInv(e), Calm(e), e.state \in EstablishedState,
         e.out = <<>>, NEW a \in Endpoint, Sets(a, e), a.retry = e.retry, a.timers = e.timers
  PROVE  \/ Sets(Resume(a), e) /\ Resume(a).retry = e.retry /\ Resume(a).timers = e.timers
         \/ \E b \in Endpoint : /\ Kept(b, e) /\ b.result = e.result /\ b.state = "Resuming"
                                /\ Invites(Resume(a), b) /\ e.client = "none" /\ ~e.server
<1>1. /\ a.state = e.state /\ a.out = <<>> /\ Kept(a, e) /\ a.client = e.client
      /\ \A b : Kept(b, a) /\ b.result = a.result => Kept(b, e) /\ b.result = e.result
  BY SetsKept
<1>2. CASE a.state \notin {"Pausing", "Paused"}
  BY <1>2 DEF Resume
<1>3. CASE a.state = "Pausing"
  <2> DEFINE n == a.pendingActions + 1
             d == [a EXCEPT !.pendingActions = n]
  <2>1. n \in Nat BY DEF Endpoint
  <2> HIDE DEF n
  <2>2. Sets(d, a) /\ d.retry = a.retry /\ d.timers = a.timers BY <2>1, SetsFacts
  <2>3. Resume(a) = d BY <1>3 DEF Resume, n
  <2> HIDE DEF d
  <2>4. Sets(d, e) BY <2>2 DEF Sets, Trimmed, SameSession, Kept
  <2> QED BY <2>2, <2>3, <2>4
<1>4. CASE a.state = "Paused"
  <2> DEFINE r == [a EXCEPT !.retry = "resume"]
  <2>1. Sets(r, a) BY SetsFacts, NamedRetries
  <2>2. Resume(a) = RetryResume(r) BY <1>4 DEF Resume
  <2> HIDE DEF r
  <2>3. /\ r \in Endpoint /\ Kept(r, a) /\ r.result = a.result /\ r.state = a.state
        /\ r.out = a.out /\ r.client = a.client
        /\ \A b : Kept(b, r) /\ b.result = r.result => Kept(b, a) /\ b.result = a.result
    BY <2>1, SetsKept
  <2>4. e.client = "none" /\ ~e.server
    BY <1>1, <1>4, CalmFacts DEF Calm, TransientState
  <2>5. CanSendRequest(e) BY <2>4, CalmFacts
  <2>6. CanSendRequest(r) BY <1>1, <2>3, <2>5, CanSendSame
  <2>7. r.state \in EstablishedState /\ r.out = <<>> BY <1>1, <1>4, <2>3
  <2>8. PICK b \in Endpoint : /\ Kept(b, r) /\ b.result = r.result /\ b.state = "Resuming"
                              /\ Invites(RetryResume(r), b)
    BY <2>3, <2>6, <2>7, RetryResumeInvites
  <2> QED BY <1>1, <2>2, <2>3, <2>4, <2>8
<1> QED BY <1>2, <1>3, <1>4

\* Writing nothing counts as such a write.
LEMMA SelfSets ==
  ASSUME NEW e \in Endpoint
  PROVE  Sets(e, e)
BY SelfTrimmed DEF Sets

\* MediaSession::resume() of the application.
LEMMA ResumeAskedProceeds ==
  ASSUME NEW e \in Endpoint, EndpointInv(e), Calm(e), e.state \in EstablishedState, e.out = <<>>
  PROVE  Proceeds(Resume(e), e)
<1> DEFINE d == Resume(e)
<1>1. \/ Sets(d, e) /\ d.retry = e.retry /\ d.timers = e.timers
      \/ \E b \in Endpoint : /\ Kept(b, e) /\ b.result = e.result /\ b.state = "Resuming"
                             /\ Invites(d, b) /\ e.client = "none" /\ ~e.server
  BY SelfSets, ResumeProceeds
<1> HIDE DEF d
<1>2. CASE Sets(d, e) /\ d.retry = e.retry /\ d.timers = e.timers
  BY <1>2, SetsProceeds DEF d
<1>3. ASSUME NEW b \in Endpoint, Kept(b, e), b.result = e.result, b.state = "Resuming",
             Invites(d, b), e.client = "none", ~e.server
      PROVE  Proceeds(d, e)
  <2>1. d \in Endpoint BY <1>3 DEF Invites
  <2>2. Sets(d, d) BY <2>1, SelfSets
  <2> QED BY <1>3, <2>2, InvitesProceeds DEF TransientState
<1> QED BY <1>1, <1>2, <1>3 DEF d

\* CallSessionPrivate::executePendingActions()
LEMMA ExecutePendingActionsProceeds ==
  ASSUME NEW e \in Endpoint, EndpointInv(e), Calm(e), e.state \in EstablishedState, e.out = <<>>
  PROVE  Proceeds(ExecutePendingActions(e), e)
<1> DEFINE a == [e EXCEPT !.execLater = FALSE]
           r == Resume(a)
           x == ExecutePendingActions(e)
<1>1. Sets(a, e) /\ a.retry = e.retry /\ a.timers = e.timers BY SetsFacts
<1>2. a \in Endpoint BY <1>1, SetsKept
<1>3. x \in Endpoint BY ExecutePendingActionsType
<1>4. r \in Endpoint BY <1>2, RenegotiateType
<1>5. \/ x \in {a, r}
      \/ x = [a EXCEPT !.pendingActions = 2 * @]
      \/ x = [r EXCEPT !.pendingActions = @ - 1]
  BY DEF ExecutePendingActions
<1> HIDE DEF a
<1>6. \/ Sets(r, e) /\ r.retry = e.retry /\ r.timers = e.timers
      \/ \E b \in Endpoint : /\ Kept(b, e) /\ b.result = e.result /\ b.state = "Resuming"
                             /\ Invites(r, b) /\ e.client = "none" /\ ~e.server
  BY <1>1, <1>2, ResumeProceeds
<1>20. SUFFICES Proceeds(x, e) OBVIOUS
<1> HIDE DEF r, x
<1>7. ASSUME NEW y \in Endpoint, Sets(x, y), x.retry = y.retry, x.timers = y.timers,
             y = a \/ y = r
      PROVE  Proceeds(x, e)
  <2>1. CASE Sets(y, e) /\ y.retry = e.retry /\ y.timers = e.timers
    <3>1. Sets(x, e) BY <1>7, <2>1 DEF Sets, Trimmed, SameSession, Kept
    <3> QED BY <1>7, <2>1, <3>1, SetsProceeds
  <2>2. CASE \E b \in Endpoint : /\ Kept(b, e) /\ b.result = e.result /\ b.state = "Resuming"
                                 /\ Invites(y, b) /\ e.client = "none" /\ ~e.server
    BY <1>7, <2>2, InvitesProceeds DEF TransientState
  <2> QED BY <1>1, <1>6, <1>7, <2>1, <2>2
<1>8. CASE x \in {a, r} BY <1>2, <1>4, <1>7, <1>8, SelfSets
<1>9. CASE x = [a EXCEPT !.pendingActions = 2 * @]
  <2> DEFINE n == 2 * a.pendingActions
  <2>1. n \in Nat BY <1>2 DEF Endpoint
  <2>2. x = [a EXCEPT !.pendingActions = n] BY <1>9
  <2> HIDE DEF n
  <2>3. Sets(x, a) /\ x.retry = a.retry /\ x.timers = a.timers BY <1>2, <2>1, <2>2, SetsFacts
  <2> QED BY <1>2, <1>7, <2>3
<1>10. CASE x = [r EXCEPT !.pendingActions = @ - 1]
  <2> DEFINE n == x.pendingActions
  <2>1. n \in Nat /\ n = r.pendingActions - 1 BY <1>3, <1>4, <1>10 DEF Endpoint
  <2>2. x = [r EXCEPT !.pendingActions = n] BY <1>4, <1>10, <2>1
  <2> HIDE DEF n
  <2>3. Sets(x, r) /\ x.retry = r.retry /\ x.timers = r.timers BY <1>4, <2>1, <2>2, SetsFacts
  <2> QED BY <1>4, <1>7, <2>3
<1> QED BY <1>5, <1>8, <1>9, <1>10

\* SalOp::runRetryFunc(): the request is sent again, or the timer was not needed any
\* more.
LEMMA RunRetryFuncProceeds ==
  ASSUME NEW e \in Endpoint, EndpointInv(e), Calm(e), e.state \in EstablishedState, e.out = <<>>,
         e.timers > 0, e.retry = "none" \/ e.dialog # "Confirmed" \/ ~RequestPending(e)
  PROVE  Proceeds(RunRetryFunc(e), e)
<1> DEFINE n == e.timers - 1
           a == [e EXCEPT !.timers = n]
           x == RunRetryFunc(e)
<1>1. n \in Nat BY DEF Endpoint
<1>2. e.dialog = "Confirmed"
      /\ (e.retry # "none" => e.state \in TransientState \cup {"Paused"})
      /\ (RequestPending(e) <=> e.client # "none" \/ e.server)
      /\ (CanSendRequest(e) <=> e.client = "none" /\ ~e.server)
  BY CalmFacts
<1>3. Sets(a, e) /\ a.retry = e.retry BY <1>1, SetsFacts
<1>4. /\ a \in Endpoint /\ Kept(a, e) /\ a.result = e.result /\ a.state = e.state
      /\ a.out = e.out /\ a.client = e.client
      /\ \A b : Kept(b, a) /\ b.result = a.result => Kept(b, e) /\ b.result = e.result
  BY <1>3, SetsKept
<1>5. a.dialog = "Confirmed" BY <1>2, <1>4 DEF Kept
<1>6. /\ a.retry = "none" => x = [a EXCEPT !.retry = "none"]
      /\ a.retry = "resume" => x = [RetryResume(a) EXCEPT !.retry = "none"]
      /\ a.retry \in {"pause", "update"} => x = [OpUpdate(a) EXCEPT !.retry = "none"]
  BY <1>5 DEF RunRetryFunc
<1> HIDE DEF a, n, x
<1>7. CASE e.retry = "none"
  <2>1. x = [a EXCEPT !.retry = "none"] BY <1>3, <1>6, <1>7
  <2>2. Sets(x, a) BY <1>4, <2>1, SetsFacts, NamedRetries
  <2>3. Sets(x, e) BY <1>3, <2>2 DEF Sets, Trimmed, SameSession, Kept
  <2>4. e.client # "none" \/ e.state \notin TransientState BY <1>7 DEF Calm
  <2>5. Proceeds(x, e) BY <2>3, <2>4, SetsProceeds
  <2> QED BY <2>5 DEF x
<1>8. CASE e.retry # "none"
  <2>1. e.client = "none" /\ ~e.server /\ CanSendRequest(e) BY <1>2, <1>8
  <2>2. CanSendRequest(a) BY <1>4, <2>1, CanSendSame
  <2>3. ASSUME NEW b \in Endpoint, Kept(b, e), b.result = e.result, b.state \in TransientState,
               NEW p, Invites(p, b), x = [p EXCEPT !.retry = "none"]
        PROVE  Proceeds(x, e)
    <3>1. p \in Endpoint BY <2>3 DEF Invites
    <3>2. Sets(x, p) BY <2>3, <3>1, SetsFacts, NamedRetries
    <3> QED BY <2>1, <2>3, <3>2, InvitesProceeds
  <2>4. CASE e.retry = "resume"
    <3>1. PICK b \in Endpoint : /\ Kept(b, a) /\ b.result = a.result /\ b.state = "Resuming"
                                /\ Invites(RetryResume(a), b)
      BY <1>4, <2>2, RetryResumeInvites
    <3>2. x = [RetryResume(a) EXCEPT !.retry = "none"] BY <1>3, <1>6, <2>4
    <3>3. Proceeds(x, e) BY <1>4, <2>3, <3>1, <3>2 DEF TransientState
    <3> QED BY <3>3 DEF x
  <2>5. CASE e.retry \in {"pause", "update"}
    <3>1. e.state \in TransientState
      BY <1>2, <1>8, <2>5, CalmFacts DEF EndpointInv, RequestInv, EstablishedState, OverState
    <3>2. Invites(OpUpdate(a), a) BY <1>4, <2>2, OpUpdateInvites
    <3>3. x = [OpUpdate(a) EXCEPT !.retry = "none"] BY <1>3, <1>6, <2>5
    <3>4. Proceeds(x, e) BY <1>4, <2>3, <3>1, <3>2, <3>3
    <3> QED BY <3>4 DEF x
  <2> QED BY <1>8, <2>4, <2>5, FieldTypes DEF RetryFunc
<1> QED BY <1>7, <1>8

(***************************************************************************)
(* An established session answers.                                         *)
(***************************************************************************)

\* SalCallOp::accept() keeps what it answers, and leaves the retries of the session's
\* own requests alone.
LEMMA OpAcceptResult ==
  ASSUME NEW e \in Endpoint, e.server
  PROVE  LET d == OpAccept(e)
         IN  /\ d.result = ComputeDirIncoming(LocalDir(e), e.remote)
             /\ d.retry = e.retry /\ d.timers = e.timers
<1> DEFINE a == ComputeDirIncoming(LocalDir(e), e.remote)
           g == IF 200 >= 300 /\ e.dialog \in {"Null", "Early"} THEN "TermEarly" ELSE e.dialog
           r == [e EXCEPT !.server = FALSE, !.dialog = g]
           s == [r EXCEPT !.out = Append(@, Response("INVITE", 200, a))]
<1>1. a \in Dir BY DirType DEF Endpoint
<1>2. g \in DialogState BY FieldTypes DEF DialogState
<1> HIDE DEF a, g
<1>3. r \in Endpoint /\ r.retry = e.retry /\ r.timers = e.timers BY <1>2, ZenonT(40) DEF Endpoint
<1>4. Reply(e, 200, a) = s BY DEF Reply, Send, g
<1> HIDE DEF r
<1>5. s.retry = r.retry /\ s.timers = r.timers BY <1>3 DEF Endpoint
<1>6. s \in Endpoint
  <2>1. 200 \in Code \ {0} BY DEF Code
  <2>2. Reply(e, 200, a) \in Endpoint BY <1>1, <2>1, ReplyType
  <2> QED BY <1>4, <2>2
<1> DEFINE Concluded(x) == [x EXCEPT !.dialog = IF @ \in {"Null", "Early"} THEN "Confirmed" ELSE @,
                                      !.op = IF @ = "Early" THEN "Active" ELSE @, !.result = a]
<1>70. OpAccept(e) = Concluded(Reply(e, 200, a)) BY Zenon DEF OpAccept, a
<1> HIDE DEF s, Concluded
<1>71. OpAccept(e) = Concluded(s) BY <1>4, <1>70
<1>7. OpAccept(e) = [s EXCEPT !.dialog = IF @ \in {"Null", "Early"} THEN "Confirmed" ELSE @,
                              !.op = IF @ = "Early" THEN "Active" ELSE @, !.result = a]
  BY <1>71, Zenon DEF Concluded
<1>8. OpAccept(e).result = a /\ OpAccept(e).retry = s.retry /\ OpAccept(e).timers = s.timers
  BY <1>6, <1>7 DEF Endpoint
<1> QED BY <1>3, <1>5, <1>8 DEF a

\* MediaSessionPrivate::startAcceptUpdate(): the answer leaves and the session goes
\* where the update found it, or where it takes it.
LEMMA AcceptUpdateAnswers ==
  ASSUME NEW e \in Endpoint, e.state \in EstablishedState, e.server, e.client = "none",
         e.info = "none", e.out = <<>>,
         NEW s \in EstablishedState \ {"UpdatedByRemote"},
         s \in TransientState => e.retry # "none" /\ e.timers > 0
  PROVE  LET d == AcceptUpdate(e, s)
         IN  d.state = s /\ Calm(d) /\ Answers(d, e, e.remote)
<1> DEFINE a == OpAccept(e)
           d == SetState(a, s)
           i == ComputeDirIncoming(LocalDir(e), e.remote)
<1>1. /\ a \in Endpoint /\ SameSession(a, e) /\ ~a.server /\ a.info = e.info
      /\ a.client = e.client /\ a.out = Append(<<>>, Response("INVITE", 200, i))
  BY OpAcceptFacts
<1>2. a.result = i /\ a.retry = e.retry /\ a.timers = e.timers BY OpAcceptResult
<1>3. AcceptUpdate(e, s) = d BY DEF AcceptUpdate
<1> HIDE DEF a
<1>4. a.state \in EstablishedState BY <1>1 DEF SameSession
<1>5. Moves(d, a, s) BY <1>1, <1>4, SetStateMoves
<1>6. /\ d.state = s /\ ~d.server /\ d.info = "none" /\ d.client = "none" /\ d.result = i
      /\ d.retry = e.retry /\ d.timers = e.timers
      /\ d.out = Append(<<>>, Response("INVITE", 200, i))
  BY <1>1, <1>2, <1>5 DEF Moves, Apart, Beside, Kept
<1> HIDE DEF d, i
<1>7. d.out = <<Response("INVITE", 200, d.result)>> BY <1>6
<1>8. Calm(d) BY <1>6 DEF Calm
<1>9. Answers(d, e, e.remote) BY <1>6, <1>7, LocalDirs DEF Answers, i
<1> QED BY <1>3, <1>6, <1>8, <1>9

\* The answer waits for the application.
Defers(d, e, o) ==
  /\ e.client = "none" /\ d.client = "none" /\ d.server /\ d.remote = o
  /\ d.result = e.result /\ d.out = <<>>

\* What becomes of an offer o that finds no request open.
Serves(d, e, o) ==
  /\ d.state \in EstablishedState /\ Calm(d) /\ (d.state = "UpdatedByRemote" => d.server)
  /\ Answers(d, e, o) \/ Defers(d, e, o)

\* CallSession::acceptUpdate() for an update whose answer was deferred.
LEMMA AcceptDeferred ==
  ASSUME NEW e \in Endpoint, EndpointInv(e), Calm(e), e.state = "UpdatedByRemote", e.out = <<>>
  PROVE  LET d == AcceptUpdateAsked(e)
         IN  /\ d.state \in EstablishedState /\ Calm(d) /\ d.state # "UpdatedByRemote"
             /\ IF e.server THEN Answers(d, e, e.remote) ELSE d.out = <<>> /\ Steady(d, e)
<1> DEFINE s == e.prevState
           d == AcceptUpdate(e, s)
<1>1. s \in {"StreamsRunning", "PausedByRemote"} BY DEF Calm
<1>2. s \in EstablishedState \ {"UpdatedByRemote"} /\ s \notin TransientState
      /\ e.state \in EstablishedState /\ e.state \notin TransientState
  BY <1>1 DEF EstablishedState, TransientState
<1>3. e.client = "none" /\ e.info = "none" BY <1>2, CalmFacts DEF Calm
<1>4. AcceptUpdateAsked(e) = d BY DEF AcceptUpdateAsked
<1> HIDE DEF s
<1>5. CASE e.server BY <1>2, <1>3, <1>4, <1>5, AcceptUpdateAnswers
<1>6. CASE ~e.server
  <2>1. d = SetState(e, s) BY <1>6 DEF AcceptUpdate, OpAccept
  <2>2. Moves(d, e, s) BY <1>2, <2>1, SetStateMoves
  <2> HIDE DEF d
  <2>3. d.state = s /\ Steady(d, e) /\ d.out = <<>> /\ d.info = "none"
    BY <1>3, <2>2 DEF Moves, Apart, Beside, Kept, Steady
  <2>4. Calm(d) BY <1>2, <1>6, <2>3 DEF Calm, Steady
  <2> QED BY <1>2, <1>4, <1>6, <2>3, <2>4
<1> QED BY <1>5, <1>6

\* The offer is taken down before the session hears of it.
Receives(r, e, o) ==
  /\ r \in Endpoint /\ SameSession(r, e)
  /\ r.op = e.op /\ r.server /\ r.remote = o /\ r.out = <<>>
  /\ r.client = e.client /\ r.offer = e.offer /\ r.result = e.result
  /\ r.info = e.info /\ r.retry = e.retry /\ r.timers = e.timers

\* processRequestEventCb() on a re-INVITE opens its server transaction.
LEMMA ReinviteReceives ==
  ASSUME NEW e \in Endpoint, e.out = <<>>, NEW o \in Dir
  PROVE  Receives([e EXCEPT !.server = TRUE, !.remote = o], e, o)
<1> DEFINE r == [e EXCEPT !.server = TRUE, !.remote = o]
<1>1. r \in Endpoint BY ReinviteRecord
<1> QED BY <1>1 DEF Receives, SameSession, Endpoint

\* What setState() moves to UpdatedByRemote has still received the offer.
LEMMA ReceivesMoves ==
  ASSUME NEW e \in Endpoint, e.state \in EstablishedState, NEW o, NEW r, Receives(r, e, o)
  PROVE  LET u == SetState(r, "UpdatedByRemote")
         IN  /\ u \in Endpoint /\ u.state = "UpdatedByRemote"
             /\ u.prevState = (IF e.state = "UpdatedByRemote" THEN e.prevState ELSE e.state)
             /\ u.server /\ u.remote = o /\ u.out = <<>> /\ u.client = e.client
             /\ u.result = e.result /\ u.info = e.info
             /\ u.retry = e.retry /\ u.timers = e.timers
<1> DEFINE u == SetState(r, "UpdatedByRemote")
<1>1. r \in Endpoint /\ r.state = e.state /\ r.prevState = e.prevState
  BY DEF Receives, SameSession
<1>2. Moves(u, r, "UpdatedByRemote") BY <1>1, SetStateMoves DEF EstablishedState
<1> HIDE DEF u
<1>3. /\ u \in Endpoint /\ u.state = "UpdatedByRemote"
      /\ u.prevState = (IF e.state = "UpdatedByRemote" THEN e.prevState ELSE e.state)
      /\ u.server = r.server /\ u.remote = r.remote /\ u.out = r.out /\ u.client = r.client
      /\ u.result = r.result /\ u.info = r.info /\ u.retry = r.retry /\ u.timers = r.timers
  BY <1>1, <1>2 DEF Moves, Apart, Beside, Kept
<1> QED BY <1>3 DEF Receives, u

\* CallSessionPrivate::updatedByRemote(): an update that changes nobody's sending is
\* answered now or later.
LEMMA UpdatedByRemoteServes ==
  ASSUME NEW e \in Endpoint, Calm(e), e.client = "none",
         e.state \in {"StreamsRunning", "PausedByRemote", "UpdatedByRemote"},
         NEW o, NEW r, Receives(r, e, o), NEW defer \in BOOLEAN
  PROVE  Serves(UpdatedByRemote(r, defer), e, o)
<1> DEFINE u == SetState(r, "UpdatedByRemote")
<1>1. e.state \in EstablishedState BY DEF EstablishedState
<1>2. /\ u \in Endpoint /\ u.state = "UpdatedByRemote"
      /\ u.prevState = (IF e.state = "UpdatedByRemote" THEN e.prevState ELSE e.state)
      /\ u.server /\ u.remote = o /\ u.out = <<>> /\ u.client = e.client
      /\ u.result = e.result /\ u.info = e.info
  BY <1>1, ReceivesMoves
<1>3. UpdatedByRemote(r, defer) =
        IF defer \/ u.state # "UpdatedByRemote" THEN u ELSE AcceptUpdateAsked(u)
  BY DEF UpdatedByRemote
<1> HIDE DEF u
<1>4. u.prevState \in {"StreamsRunning", "PausedByRemote"} BY <1>2 DEF Calm
<1>5. u.state \in EstablishedState BY <1>2 DEF EstablishedState
<1>6. CASE defer
  <2>1. Calm(u) BY <1>2, <1>4 DEF Calm, TransientState
  <2> QED BY <1>2, <1>3, <1>5, <1>6, <2>1 DEF Serves, Defers
<1>7. CASE ~defer
  <2> DEFINE s == u.prevState
             d == AcceptUpdate(u, s)
  <2>1. s \in EstablishedState \ {"UpdatedByRemote"} /\ s \notin TransientState
    BY <1>4 DEF EstablishedState, TransientState
  <2>2. d.state = s /\ Calm(d) /\ Answers(d, u, u.remote)
    BY <1>2, <1>5, <2>1, AcceptUpdateAnswers DEF Calm
  <2>3. UpdatedByRemote(r, defer) = d BY <1>2, <1>3, <1>7 DEF AcceptUpdateAsked
  <2> HIDE DEF d, s
  <2>4. Answers(d, e, o) BY <1>2, <2>2 DEF Answers
  <2> QED BY <2>1, <2>2, <2>3, <2>4 DEF Serves
<1> QED BY <1>6, <1>7

\* MediaSessionPrivate::updated(): hold, resume and the other updates of the peer.
LEMMA UpdatedServes ==
  ASSUME NEW e \in Endpoint, Calm(e), e.client = "none", e.state \in EstablishedState,
         NEW o \in Dir, NEW r, Receives(r, e, o), NEW defer \in BOOLEAN
  PROVE  Serves(Updated(r, defer), e, o)
<1>1. /\ r \in Endpoint /\ r.state = e.state /\ r.server /\ r.remote = o /\ r.out = <<>>
      /\ r.client = "none" /\ r.info = "none"
  BY DEF Receives, SameSession, Calm
<1>2. CASE \/ e.state = "PausedByRemote" /\ o \in {"sendrecv", "recvonly"}
           \/ e.state \in {"StreamsRunning", "UpdatedByRemote"} /\ o \in {"sendonly", "inactive"}
  <2> DEFINE s == IF e.state = "PausedByRemote" THEN "StreamsRunning" ELSE "PausedByRemote"
             d == AcceptUpdate(r, s)
  <2>1. s \in EstablishedState \ {"UpdatedByRemote"} /\ s \notin TransientState
    BY DEF EstablishedState, TransientState
  <2>2. Updated(r, defer) = d BY <1>1, <1>2 DEF Updated, TransientState
  <2> HIDE DEF s
  <2>3. d.state = s /\ Calm(d) /\ Answers(d, r, r.remote)
    BY <1>1, <2>1, AcceptUpdateAnswers
  <2> HIDE DEF d
  <2>4. Answers(d, e, o) BY <1>1, <2>3 DEF Answers
  <2> QED BY <2>1, <2>2, <2>3, <2>4 DEF Serves
<1>3. CASE \/ e.state \in {"StreamsRunning", "UpdatedByRemote"} /\ o \in {"sendrecv", "recvonly"}
           \/ e.state = "PausedByRemote" /\ o \in {"sendonly", "inactive"}
  <2>1. Updated(r, defer) = UpdatedByRemote(r, defer)
    BY <1>1, <1>3 DEF Updated, TransientState
  <2> QED BY <1>3, <2>1, UpdatedByRemoteServes
<1>4. CASE e.state \in {"Paused"} \cup TransientState
  <2> DEFINE u == SetState(r, "UpdatedByRemote")
             d == AcceptUpdate(u, e.state)
  <2>1. /\ u \in Endpoint /\ u.state = "UpdatedByRemote" /\ u.server /\ u.remote = o
        /\ u.out = <<>> /\ u.client = "none" /\ u.info = "none"
        /\ u.retry = e.retry /\ u.timers = e.timers
    BY ReceivesMoves DEF Calm
  <2>2. Updated(r, defer) = d BY <1>1, <1>4 DEF Updated, TransientState
  <2> HIDE DEF u
  <2>3. e.state \in EstablishedState \ {"UpdatedByRemote"} /\ u.state \in EstablishedState
    BY <1>4, <2>1 DEF EstablishedState, TransientState
  <2>4. e.state \in TransientState => u.retry # "none" /\ u.timers > 0
    BY <2>1 DEF Calm
  <2>5. d.state = e.state /\ Calm(d) /\ Answers(d, u, u.remote)
    BY <2>1, <2>3, <2>4, AcceptUpdateAnswers
  <2> HIDE DEF d
  <2>6. Answers(d, e, o) BY <2>1, <2>5 DEF Answers
  <2> QED BY <2>2, <2>3, <2>5, <2>6 DEF Serves
<1> QED BY <1>2, <1>3, <1>4 DEF EstablishedState, TransientState, Dir

\* How an established call takes a re-INVITE that offers o: refused by a 491 if it crosses
\* a request of ours, and otherwise served.
Meets(d, e, o) ==
  \/ (e.client # "none" \/ e.server) /\ d = Send(e, Response("INVITE", 491, "none"))
  \/ e.client = "none" /\ ~e.server /\ Serves(d, e, o)

\* SalCallOp::processRequestEventCb() on a re-INVITE: see Meets.
LEMMA ReinviteServes ==
  ASSUME NEW e \in Endpoint, EndpointInv(e), Calm(e), e.state \in EstablishedState,
         e.out = <<>>, NEW m \in Msg, m.dir \in Dir, NEW defer \in BOOLEAN
  PROVE  Meets(ReceiveReinvite(e, m, TRUE, defer), e, m.dir)
<1>1. /\ Crossing(e) <=> e.client # "none" \/ e.server
      /\ e.op \in {"Early", "Active"} /\ e.attached
  BY CalmFacts
<1>2. CASE Crossing(e) BY <1>1, <1>2 DEF ReceiveReinvite, Meets
<1>3. CASE ~Crossing(e)
  <2> DEFINE r == [e EXCEPT !.server = TRUE, !.remote = m.dir]
  <2>1. Receives(r, e, m.dir) BY ReinviteReceives
  <2>2. ReceiveReinvite(e, m, TRUE, defer) = Updating(r, TRUE, defer)
    BY <1>1, <1>3 DEF ReceiveReinvite
  <2> HIDE DEF r
  <2>3. r.attached /\ r.state \notin {"End", "Released"}
    BY <1>1, <2>1 DEF Receives, SameSession, EstablishedState
  <2>4. Updating(r, TRUE, defer) = Updated(r, defer) BY <2>3 DEF Updating
  <2>5. Serves(Updated(r, defer), e, m.dir) BY <1>1, <1>3, <2>1, UpdatedServes
  <2> QED BY <1>1, <1>3, <2>2, <2>4, <2>5, ZenonT(40) DEF Meets
<1> QED BY <1>2, <1>3

(***************************************************************************)
(* An established session hears an answer.                                 *)
(***************************************************************************)

\* The offers inside a dialog, and the answers to them.
Reinvite == {m \in Msg : m.method = "INVITE" /\ m.code = 0}
InviteAnswer == {m \in Msg : m.method = "INVITE" /\ m.code # 0}
InviteOk == {m \in Msg : m.method = "INVITE" /\ m.code = 200}
InviteBusy == {m \in Msg : m.method = "INVITE" /\ m.code = 491}
Final == {m \in Msg : m.method = "INVITE" /\ m.code >= 200}

\* What an answer comes to: nothing is sent, and a final answer to an open request
\* closes it; a 200 settles the direction, anything else leaves it.
Notes(d, e, m) ==
  /\ d.out = <<>> /\ d.server = e.server /\ d.offer = e.offer /\ d.remote = e.remote
  /\ m \notin Final \/ e.client = "none" =>
       (d.client = "none" <=> e.client = "none") /\ d.result = e.result
  /\ m \in Final /\ e.client # "none" =>
       /\ d.client = "none"
       /\ d.result = IF m.code = 200 THEN ComputeDirOutgoing(e.offer, m.dir) ELSE e.result

\* The stack does not know of directions, nor of the timers of the op.
LEMMA StackSteady ==
  ASSUME NEW e \in Endpoint, NEW m \in Msg
  PROVE  LET d == StackResponse(e, m)
         IN  d.result = e.result /\ d.remote = e.remote /\ d.timers = e.timers
<1>1. CASE m.method = "INVITE" BY <1>1 DEF StackResponse, Endpoint
<1>2. CASE m.method = "BYE" BY <1>2 DEF StackResponse, Endpoint
<1>3. CASE m.method = "INFO" BY <1>3 DEF StackResponse, Endpoint
<1>4. CASE m.method \notin {"INVITE", "BYE", "INFO"} BY <1>4 DEF StackResponse
<1> QED BY <1>1, <1>2, <1>3, <1>4

\* The endpoint h as the op finds it when the re-INVITE of e is answered by m.
Informed(h, e, m) ==
  /\ h \in Endpoint /\ SameSession(h, e) /\ h.op = e.op
  /\ h.dialog = "Confirmed" /\ h.out = <<>> /\ h.server = e.server /\ h.info = e.info
  /\ h.offer = e.offer /\ h.remote = e.remote /\ h.result = e.result
  /\ m.code \in {200, 491} => h.client = "none"
  /\ m.code \in {100, 180} => h.client = "proceeding"
  /\ m.code = 491 => h.retry = e.retry /\ (e.retry # "none" => h.timers > 0)
  /\ m.code # 491 => h.retry = "none"

\* SalOp::handleRetry() arms a timer for what is to be sent again; any other answer
\* drops the retry function.
LEMMA HeardRetry ==
  ASSUME NEW e \in Endpoint, EndpointInv(e), NEW m \in InviteAnswer,
         e.client # "none", e.dialog = "Confirmed", e.out = <<>>
  PROVE  /\ Informed(Heard(e, m), e, m)
         /\ e.op # "Terminated" =>
              ProcessResponse(e, m, TRUE) = ConfirmedResponse(Heard(e, m), m, TRUE)
<1> DEFINE x == StackResponse(e, m)
           h == Heard(e, m)
<1>0. m \in Msg /\ m.method = "INVITE" /\ m.code # 0 BY DEF InviteAnswer
<1>1. Matched(e, m) BY <1>0 DEF Matched
<1>2. /\ x \in Endpoint /\ x.op = e.op /\ x.server = e.server /\ x.offer = e.offer
      /\ x.retry = e.retry /\ x.info = e.info /\ x.dialog = "Confirmed" /\ x.out = <<>>
      /\ x.client = IF m.code >= 200 THEN "none" ELSE "proceeding"
  BY <1>0, <1>1, StackFacts
<1>3. x.result = e.result /\ x.remote = e.remote /\ x.timers = e.timers BY <1>0, StackSteady
<1>4. /\ h \in Endpoint /\ EndpointInv(h) /\ Trimmed(h, x) /\ SameSession(h, e) /\ h.op = e.op
  BY <1>0, <1>1, HeardFacts
<1>5. h.dialog = x.dialog /\ h.op = x.op /\ h.dialog \in DialogState
  BY <1>2, <1>4, FieldTypes DEF Trimmed, Kept
<1>6. e.op # "Terminated" => ProcessResponse(e, m, TRUE) = ConfirmedResponse(h, m, TRUE)
  BY <1>0, <1>1, <1>2, <1>4, <1>5, ResponseCases
<1>7. Sets(h, x) /\ (m.code # 491 => h.retry = "none")
      /\ (m.code = 491 => h.retry = x.retry /\ (x.retry # "none" => h.timers > 0))
  <2> HIDE DEF x, h
  <2>1. CASE m.code # 491
    <3>1. h = [x EXCEPT !.retry = "none"] BY <2>1 DEF Heard, x, h
    <3>2. Sets(h, x) /\ h.retry = "none" BY <1>2, <3>1, SetsFacts, NamedRetries
    <3> QED BY <2>1, <3>2
  <2>2. CASE m.code = 491 /\ x.retry = "none"
    <3>1. h = x BY <2>2 DEF Heard, HandleRetry, x, h
    <3> QED BY <1>2, <2>2, <3>1, SelfSets
  <2>3. CASE m.code = 491 /\ x.retry # "none"
    <3> DEFINE n == x.timers + 1
    <3>1. n \in Nat /\ n > 0 BY <1>2 DEF Endpoint
    <3>2. h = [x EXCEPT !.timers = n] BY <1>2, <2>3 DEF Heard, HandleRetry, x, h
    <3> HIDE DEF n
    <3>3. Sets(h, x) /\ h.retry = x.retry /\ h.timers = n BY <1>2, <3>1, <3>2, SetsFacts
    <3> QED BY <2>3, <3>1, <3>3
  <2> QED BY <2>1, <2>2, <2>3
<1> HIDE DEF x, h
<1>8. /\ h.dialog = "Confirmed" /\ h.out = <<>> /\ h.server = e.server /\ h.info = e.info
      /\ h.offer = e.offer /\ h.remote = e.remote /\ h.result = e.result
      /\ h.client = x.client
  BY <1>2, <1>3, <1>7 DEF Sets, Trimmed, Kept
<1>9. /\ m.code \in {200, 491} => h.client = "none"
      /\ m.code \in {100, 180} => h.client = "proceeding"
      /\ m.code = 491 => h.retry = e.retry /\ (e.retry # "none" => h.timers > 0)
      /\ m.code # 491 => h.retry = "none"
  BY <1>2, <1>7, <1>8
<1>10. Informed(h, e, m) BY <1>4, <1>8, <1>9 DEF Informed
<1> QED BY <1>6, <1>10 DEF h

\* MediaSessionPrivate::accepted() on a 200: the session goes where its request takes
\* it, with the direction that follows from offer and answer.
LEMMA AcceptedNotes ==
  ASSUME NEW e \in Endpoint, EndpointInv(e), Calm(e), e.state \in EstablishedState,
         e.out = <<>>, e.client # "none",
         NEW m \in InviteOk
  PROVE  LET d == ProcessResponse(e, m, TRUE)
         IN  d.state \in EstablishedState /\ Calm(d) /\ Lingers(d, e) /\ Notes(d, e, m)
<1>m. m \in Msg /\ m.method = "INVITE" /\ m.code = 200 BY DEF InviteOk
<1>0. m \in InviteAnswer BY <1>m DEF InviteAnswer
<1> DEFINE h == Heard(e, m)
           md == ComputeDirOutgoing(h.offer, m.dir)
           r == [h EXCEPT !.result = md]
           next == AcceptedNextState(h, md)
           a == SetState(r, next)
           d == [a EXCEPT !.op = "Active"]
<1>1. e.state \in TransientState /\ ~e.server /\ e.dialog = "Confirmed" /\ e.attached
      /\ e.op \in {"Early", "Active"}
  BY CalmFacts
<1>a. Informed(h, e, m) /\ ProcessResponse(e, m, TRUE) = ConfirmedResponse(h, m, TRUE)
  BY <1>0, <1>1, HeardRetry
<1> HIDE DEF h
<1>2. /\ h \in Endpoint /\ SameSession(h, e) /\ h.op = e.op
      /\ h.out = <<>> /\ h.server = e.server /\ h.info = e.info
      /\ h.offer = e.offer /\ h.remote = e.remote
      /\ h.client = "none"
  BY <1>m, <1>a DEF Informed
<1>3. h.state = e.state /\ h.state \in TransientState /\ h.attached
      /\ h.state \notin {"OutgoingProgress", "OutgoingRinging"}
  BY <1>1, <1>2 DEF SameSession, TransientState
<1>4. next \in {"Paused", "PausedByRemote", "StreamsRunning"}
  BY <1>3 DEF AcceptedNextState, TransientState
<1>5. Accepted(h, m.dir, TRUE) = a BY <1>3, <1>4 DEF Accepted
<1>6. ProcessResponse(e, m, TRUE) = d
  <2>1. h.op \in {"Early", "Active"} BY <1>1, <1>2
  <2>2. ConfirmedResponse(h, m, TRUE) = [Accepted(h, m.dir, TRUE) EXCEPT !.op = "Active"]
    BY <1>m, <2>1 DEF ConfirmedResponse
  <2> QED BY <1>5, <1>a, <2>2
<1>7. md \in Dir BY <1>m, <1>2, DirType DEF Endpoint
<1>8. md = ComputeDirOutgoing(e.offer, m.dir) BY <1>2
<1> HIDE DEF md, next
<1>9. r \in Endpoint /\ Trimmed(r, h) /\ r.result = md
  BY <1>2, <1>7 DEF Trimmed, SameSession, Kept, Endpoint
<1> HIDE DEF r
<1>10. r.state \in EstablishedState /\ next \in EstablishedState
  BY <1>3, <1>4, <1>9 DEF Trimmed, SameSession, EstablishedState, TransientState
<1>11. Moves(a, r, next) BY <1>9, <1>10, SetStateMoves
<1>12. a \in Endpoint BY <1>11 DEF Moves
<1> HIDE DEF a
<1>13. Apart(d, a) /\ SameSession(d, a) /\ d.result = a.result
  <2>1. "Active" \in OpState BY DEF OpState
  <2>2. d.result = a.result BY <1>12 DEF Endpoint
  <2> QED BY <1>12, <2>1, <2>2, SetOpApart
<1> HIDE DEF d
<1>14. /\ d.state = next /\ d.client = "none" /\ d.server = e.server /\ d.info = e.info
       /\ d.out = <<>> /\ d.offer = e.offer /\ d.remote = e.remote /\ d.result = md
  BY <1>2, <1>9, <1>11, <1>13 DEF Moves, Apart, Beside, Kept, Trimmed, SameSession
<1>15. d.state \in EstablishedState /\ Calm(d)
  BY <1>1, <1>4, <1>14 DEF EstablishedState, TransientState, Calm
<1>16. Lingers(d, e) BY <1>4, <1>14 DEF Lingers
<1>17. m \in Final BY <1>m DEF Final
<1>18. Notes(d, e, m) BY <1>m, <1>8, <1>14, <1>17 DEF Notes
<1> QED BY <1>6, <1>15, <1>16, <1>18

\* MediaSessionPrivate::failure() on a 491: the retry is due, or the session goes back
\* to where it was stable.
LEMMA RefusedNotes ==
  ASSUME NEW e \in Endpoint, EndpointInv(e), Grounded(e), Calm(e), e.state \in EstablishedState,
         e.out = <<>>, e.client # "none",
         NEW m \in InviteBusy
  PROVE  LET d == ProcessResponse(e, m, TRUE)
         IN  d.state \in EstablishedState /\ Calm(d) /\ Lingers(d, e) /\ Notes(d, e, m)
<1>m. m \in Msg /\ m.method = "INVITE" /\ m.code = 491 BY DEF InviteBusy
<1>0. m \in InviteAnswer BY <1>m DEF InviteAnswer
<1> DEFINE h == Heard(e, m)
           d == ProcessResponse(e, m, TRUE)
<1>1. e.state \in TransientState /\ ~e.server /\ e.dialog = "Confirmed" /\ e.attached
      /\ e.op \in {"Early", "Active"} /\ e.info = "none"
  BY CalmFacts DEF Calm
<1>a. Informed(h, e, m) /\ d = ConfirmedResponse(h, m, TRUE)
  BY <1>0, <1>1, HeardRetry
<1>3. m \in Final BY <1>m DEF Final
<1> SUFFICES d.state \in EstablishedState /\ Calm(d) /\ Lingers(d, e) /\ Notes(d, e, m)
  OBVIOUS
<1> HIDE DEF h, d
<1>2. /\ h \in Endpoint /\ SameSession(h, e) /\ h.op = e.op
      /\ h.out = <<>> /\ h.server = e.server /\ h.info = e.info
      /\ h.offer = e.offer /\ h.remote = e.remote /\ h.result = e.result
      /\ h.client = "none" /\ h.retry = e.retry /\ (e.retry # "none" => h.timers > 0)
  BY <1>m, <1>a DEF Informed
<1>4. h.state = e.state /\ h.attached /\ h.lastStable = e.lastStable BY <1>1, <1>2 DEF SameSession
<1>5. d = Failure(h, 491) BY <1>m, <1>1, <1>2, <1>a DEF ConfirmedResponse
<1>6. CASE h.retry # "none"
  <2>1. d = h BY <1>1, <1>4, <1>5, <1>6 DEF Failure
  <2>2. Calm(d) BY <1>1, <1>2, <1>4, <1>6, <2>1 DEF Calm, TransientState
  <2>3. d.state \in EstablishedState /\ Lingers(d, e)
    BY <1>1, <1>4, <2>1 DEF Lingers, TransientState
  <2>4. Notes(d, e, m) BY <1>m, <1>2, <1>3, <2>1 DEF Notes
  <2> QED BY <2>2, <2>3, <2>4
<1>7. CASE h.retry = "none"
  <2> DEFINE s == e.lastStable
  <2>1. d = SetState(h, s) BY <1>1, <1>4, <1>5, <1>7 DEF Failure
  <2>2. s \in {"StreamsRunning", "Paused"}
    BY <1>1 DEF Grounded, EndpointInv, SessionInv, EstablishedState, TransientState
  <2> HIDE DEF s
  <2>3. s \in EstablishedState /\ h.state \in EstablishedState
    BY <1>4, <2>2 DEF EstablishedState
  <2>4. Moves(d, h, s) BY <1>2, <2>1, <2>3, SetStateMoves
  <2>5. /\ d.state = s /\ d.client = "none" /\ d.server = e.server /\ d.info = "none"
        /\ d.out = <<>> /\ d.offer = e.offer /\ d.remote = e.remote /\ d.result = e.result
    BY <1>1, <1>2, <2>4 DEF Moves, Apart, Beside, Kept
  <2>6. Calm(d) /\ Lingers(d, e) BY <1>1, <2>2, <2>5 DEF Calm, TransientState, Lingers
  <2>7. Notes(d, e, m) BY <1>m, <1>3, <2>5 DEF Notes
  <2> QED BY <2>3, <2>5, <2>6, <2>7
<1> QED BY <1>6, <1>7

\* The answers that arrive in a call that nobody cancels and whose dialogs are alive.
Expected ==
  {m \in Msg : m.code # 0 /\ m.method # "CANCEL"
                /\ (m.method = "INVITE" => m.code \in {100, 180, 200, 491})}

\* What an established session makes of such an answer.
LEMMA ResponseNotes ==
  ASSUME NEW e \in Endpoint, EndpointInv(e), Grounded(e), Calm(e), e.state \in EstablishedState,
         e.out = <<>>, NEW m \in Expected
  PROVE  LET d == ProcessResponse(e, m, TRUE)
         IN  d.state \in EstablishedState /\ Calm(d) /\ Lingers(d, e) /\ Notes(d, e, m)
<1> DEFINE d == ProcessResponse(e, m, TRUE)
<1> SUFFICES d.state \in EstablishedState /\ Calm(d) /\ Lingers(d, e) /\ Notes(d, e, m)
  OBVIOUS
<1>1. e.bye = 0 /\ e.info = "none" /\ e.dialog = "Confirmed" /\ e.op \in {"Early", "Active"}
      /\ (e.client # "none" => e.state \in TransientState /\ ~e.server)
  BY CalmFacts DEF Calm
<1>2. m \in Msg /\ m.method \in {"INVITE", "BYE", "INFO"} BY DEF Expected, Msg, Method
<1>a. m.method = "INVITE" => m.code \in {100, 180, 200, 491} BY DEF Expected
<1>3. CASE m.method # "INVITE" \/ e.client = "none"
  <2>1. ~Matched(e, m) BY <1>1, <1>2, <1>3 DEF Matched
  <2>2. d = e BY <2>1 DEF ProcessResponse
  <2> HIDE DEF d
  <2>3. Notes(d, e, m) BY <1>3, <2>2 DEF Notes, Final
  <2> QED BY <2>2, <2>3 DEF Lingers, d
<1>4. CASE m.method = "INVITE" /\ e.client # "none" /\ m.code \in {100, 180}
  <2> DEFINE h == Heard(e, m)
  <2>0. e.client # "none" /\ e.op # "Terminated" /\ e.dialog = "Confirmed" BY <1>1, <1>4
  <2>1. m \in InviteAnswer BY <1>2, <1>4 DEF InviteAnswer
  <2>a. Informed(h, e, m) /\ d = ConfirmedResponse(h, m, TRUE)
    BY <2>0, <2>1, HeardRetry
  <2> HIDE DEF h, d
  <2>2. /\ SameSession(h, e) /\ h.op = e.op
        /\ h.out = <<>> /\ h.server = e.server /\ h.info = e.info
        /\ h.offer = e.offer /\ h.remote = e.remote /\ h.result = e.result
        /\ h.client = "proceeding"
    BY <1>4, <2>a DEF Informed
  <2>3. d = h
    <3>1. h.op \in {"Early", "Active"} BY <1>1, <2>2
    <3>2. m.code # 200 /\ ~(m.code >= 300) BY <1>4
    <3>3. ConfirmedResponse(h, m, TRUE) = h BY <3>1, <3>2 DEF ConfirmedResponse
    <3> QED BY <2>a, <3>3
  <2>4. d.state = e.state BY <2>2, <2>3 DEF SameSession
  <2>5. Calm(d) /\ Lingers(d, e) BY <1>1, <1>4, <2>2, <2>3, <2>4 DEF Calm, Lingers, TransientState
  <2>6. m \notin Final BY <1>4 DEF Final
  <2>7. Notes(d, e, m) BY <1>4, <2>2, <2>3, <2>6 DEF Notes
  <2> QED BY <2>4, <2>5, <2>7 DEF d
<1>5. CASE m.method = "INVITE" /\ e.client # "none" /\ m.code = 200
  <2>1. m \in InviteOk BY <1>2, <1>5 DEF InviteOk
  <2>2. e.client # "none" BY <1>5
  <2> QED BY <2>1, <2>2, AcceptedNotes
<1>6. CASE m.method = "INVITE" /\ e.client # "none" /\ m.code = 491
  <2>1. m \in InviteBusy BY <1>2, <1>6 DEF InviteBusy
  <2>2. e.client # "none" BY <1>6
  <2> QED BY <2>1, <2>2, RefusedNotes
<1> QED BY <1>a, <1>3, <1>4, <1>5, <1>6, ZenonT(40)

(***************************************************************************)
(* A call in which no INFO is sent and every description is acceptable.    *)
(***************************************************************************)

\* The handlers that may ask for a re-INVITE.
Renews(d, e) ==
  \/ CanPause(e) /\ d = Pause(e)
  \/ e.state \in {"Pausing", "Paused"} /\ d = Resume(e)
  \/ CanUpdate(e) /\ d = Update(e)
  \/ /\ e.timers > 0 /\ (e.retry = "none" \/ e.dialog # "Confirmed" \/ ~RequestPending(e))
     /\ d = RunRetryFunc(e)
  \/ d = ExecutePendingActions(e)

\* What the application, the main loop and the timers make of an endpoint there.
Does(d, e) ==
  \/ /\ e.state = "Idle" /\ ~e.incoming /\ ~e.attached
     /\ d \in {InitiateOutgoing(e), StartInvite(InitiateOutgoing(e))}
  \/ e.state = "OutgoingInit" /\ d = StartInvite(e)
  \/ e.state = "IncomingReceived" /\ d = StartAccept(e)
  \/ e.state \notin OverState \cup {"Idle"} /\ d = Terminate(e)
  \/ Renews(d, e)
  \/ e.state = "UpdatedByRemote" /\ d = AcceptUpdateAsked(e)
  \/ e.dialog \in {"TermEarly", "TermConf"} /\ d = ProcessDialogTerminated(e)
  \/ e.releaseLater /\ d = SetCallAsReleased(e)

\* What the message m makes of it.
Hears(d, e, m) ==
  \/ /\ m.method = "INVITE" /\ m.code = 0
     /\ \/ Unknown(e) /\ d \in {ReceiveCall(e, m), RefuseCall(e, 486)}
        \/ e.dialog = "Confirmed" /\ \E y \in BOOLEAN : d = ReceiveReinvite(e, m, TRUE, y)
        \/ /\ ~Unknown(e) /\ e.dialog # "Confirmed"
           /\ d = Send(e, Response("INVITE", 481, "none"))
  \/ m.method = "CANCEL" /\ m.code = 0 /\ d = ReceiveCancel(e)
  \/ m.method = "BYE" /\ m.code = 0 /\ d = ReceiveBye(e)
  \/ m.method = "INFO" /\ m.code = 0 /\ d = ReceiveInfo(e)
  \/ m.code # 0 /\ d = ProcessResponse(e, m, TRUE)

\* Such handlers are among those CallSetupProofs speaks of.
LEMMA RenewsRenewed ==
  ASSUME NEW e, Settled(e), NEW d, Renews(d, e)
  PROVE  Renewed(d, e)
<1> USE DEF Settled
<1>1. CASE CanPause(e) /\ d = Pause(e) BY <1>1, PauseRenewed
<1>2. CASE d = Resume(e) BY <1>2, ResumeRenewed
<1>3. CASE CanUpdate(e) /\ d = Update(e) BY <1>3, UpdateRenewed
<1>4. CASE /\ e.timers > 0 /\ (e.retry = "none" \/ e.dialog # "Confirmed" \/ ~RequestPending(e))
           /\ d = RunRetryFunc(e)
  BY <1>4, RunRetryFuncRenewed
<1>5. CASE d = ExecutePendingActions(e) BY <1>5, ExecutePendingActionsRenewed
<1> QED BY <1>1, <1>2, <1>3, <1>4, <1>5 DEF Renews

\* See RenewsRenewed.
LEMMA DoesActs ==
  ASSUME NEW e, Settled(e), NEW d, Does(d, e)
  PROVE  Acts(d, e)
<1>1. Renews(d, e) => Renewed(d, e) BY RenewsRenewed
<1> QED BY <1>1, Zenon DEF Does, Acts

\* See RenewsRenewed.
LEMMA HearsReacts ==
  ASSUME NEW e, NEW m, NEW d, Hears(d, e, m)
  PROVE  Reacts(d, e, m)
<1>1. TRUE \in BOOLEAN OBVIOUS
<1> QED BY <1>1, Zenon DEF Hears, Reacts

\* A step of its own, or the first of the messages x on their way to it, makes d of
\* the endpoint e and leaves t on the way.
Steps(d, e, x, t) ==
  \/ Does(d, e) /\ t = x
  \/ x # <<>> /\ Hears(d, e, Head(x)) /\ t = Tail(x)

\* See RenewsRenewed.
LEMMA StepsGoes ==
  ASSUME NEW e, Settled(e), NEW d, NEW x, NEW t, Steps(d, e, x, t)
  PROVE  Goes(d, e, x, t)
BY DoesActs, HearsReacts DEF Steps, Goes

\* A step of endpoint u that leaves it as d.
GentleTurn(u, d) ==
  /\ d \in Endpoint /\ d.out \in Seq(Msg)
  /\ ua'[u] = Rest(d) /\ ua'[Peer(u)] = ua[Peer(u)]
  /\ net'[Peer(u)] = net[Peer(u)] \o d.out
  /\ Steps(d, ua[u], net[u], net'[u])

\* What leaves the choices of the environment out that are about INFO requests and
\* about descriptions that cannot be accepted.
Gentle == Budget["dtmf"] = 0 /\ Budget["reject"] = 0 /\ Budget["incompatible"] = 0

\* None of these choices is left.
Spared == budget["dtmf"] = 0 /\ budget["reject"] = 0 /\ budget["incompatible"] = 0

\* A step spends one choice at most, and none that is used up.
LEMMA NextSpared ==
  ASSUME TypeOK, Spared, Next
  PROVE  Spared'
<1>1. ASSUME NEW c \in Choice, Spend(c)
      PROVE  Spared'
  BY <1>1 DEF Spend, Spared, TypeOK, Choice
<1>2. ASSUME budget' = budget PROVE Spared' BY <1>2 DEF Spared
<1>3. PICK u \in UA : User(u) \/ Internal(u) \/ InviteTimeout(u) BY DEF Next
<1>4. User(u) => budget' = budget \/ \E c \in Choice : Spend(c)
  BY DEF User, Invite, Accept, TerminateCall, PauseCall, ResumeCall, UpdateCall,
         AcceptDeferredUpdate, Dtmf, Choice
<1>5. ReceiveInvite(u) \/ ReceiveOther(u) \/ ReceiveResponse(u) =>
        budget' = budget \/ \E c \in Choice : Spend(c)
  BY DEF ReceiveInvite, ReceiveOther, ReceiveResponse, Choice
<1>6. GatheringDone(u) \/ IncomingTimeout(u) \/ DialogTerminated(u) \/ ReleaseLater(u)
      \/ RetryTimer(u) \/ ExecuteLater(u) \/ InfoDequeued(u) => budget' = budget
  BY DEF GatheringDone, IncomingTimeout, DialogTerminated, ReleaseLater, RetryTimer,
         ExecuteLater, InfoDequeued
<1>7. InviteTimeout(u) => \E c \in Choice : Spend(c) BY DEF InviteTimeout, Choice
<1> QED BY <1>1, <1>2, <1>3, <1>4, <1>5, <1>6, <1>7 DEF Internal

\* A handler that is run, or that handles a message, makes such a turn.
LEMMA GentleRun ==
  ASSUME TypeOK, NEW u \in UA, NEW d \in Endpoint,
         \/ Run(u, d) /\ Does(d, ua[u])
         \/ Handle(u, d) /\ net[u] # <<>> /\ Hears(d, ua[u], Head(net[u]))
  PROVE  GentleTurn(u, d)
<1>1. Peer(u) \in UA /\ Peer(u) # u BY Peers
<1>2. d.out \in Seq(Msg) BY DEF Endpoint
<1>3. CASE Run(u, d) /\ Does(d, ua[u])
  <2>1. ua'[u] = Rest(d) /\ ua'[Peer(u)] = ua[Peer(u)] BY <1>1, <1>3 DEF Run, TypeOK, Rest
  <2>2. net'[u] = net[u] /\ net'[Peer(u)] = net[Peer(u)] \o d.out BY <1>1, <1>3 DEF Run, TypeOK
  <2> QED BY <1>2, <1>3, <2>1, <2>2 DEF GentleTurn, Steps
<1>4. CASE Handle(u, d) /\ net[u] # <<>> /\ Hears(d, ua[u], Head(net[u]))
  <2>1. ua'[u] = Rest(d) /\ ua'[Peer(u)] = ua[Peer(u)] BY <1>1, <1>4 DEF Handle, TypeOK, Rest
  <2>2. net'[u] = Tail(net[u]) /\ net'[Peer(u)] = net[Peer(u)] \o d.out
    BY <1>1, <1>4 DEF Handle, TypeOK
  <2> QED BY <1>2, <1>4, <2>1, <2>2 DEF GentleTurn, Steps
<1> QED BY <1>3, <1>4

\* Every step but the loss of the first INVITE is a turn of one endpoint.
LEMMA StepGentle ==
  ASSUME TypeOK, Inv, Spared, NEW u \in UA, Grounded(ua[u]), ua[u].out = <<>>,
         ua[u].info = "none", User(u) \/ Internal(u)
  PROVE  \E d : GentleTurn(u, d)
<1> DEFINE e == ua[u]
<1>1. e \in Endpoint /\ EndpointInv(e) /\ Grounded(e) /\ e.out = <<>> /\ e.info = "none"
  BY DEF TypeOK, Inv
<1>2. net[u] \in Seq(Msg) BY DEF TypeOK
<1>3. SUFFICES \/ \E d \in Endpoint : Does(d, e) /\ Run(u, d)
               \/ \E d \in Endpoint : net[u] # <<>> /\ Hears(d, e, Head(net[u])) /\ Handle(u, d)
  BY GentleRun
<1>4. Settled(e) BY <1>1 DEF Settled
<1>5. ASSUME NEW d, Renews(d, e), Run(u, d)
      PROVE  \E f \in Endpoint : Does(f, e) /\ Run(u, f)
  <2>1. Renewed(d, e) BY <1>4, <1>5, RenewsRenewed
  <2>2. d \in Endpoint BY <2>1 DEF Renewed
  <2> QED BY <1>5, <2>2 DEF Does
<1> HIDE DEF e
<1>10. CASE Invite(u)
  <2>1. e.state = "Idle" /\ ~e.incoming /\ ~e.attached BY <1>10 DEF Invite, e
  <2> DEFINE d == InitiateOutgoing(e)
  <2>2. d \in Endpoint BY <1>1, StartType
  <2>3. StartInvite(d) \in Endpoint BY <2>2, StartType
  <2>4. Run(u, d) \/ Run(u, StartInvite(d)) BY <1>10 DEF Invite, e
  <2>5. Does(d, e) /\ Does(StartInvite(d), e) BY <2>1 DEF Does
  <2> QED BY <2>2, <2>3, <2>4, <2>5
<1>11. CASE GatheringDone(u)
  <2>1. StartInvite(e) \in Endpoint BY <1>1, StartType
  <2>2. Does(StartInvite(e), e) BY <1>11 DEF GatheringDone, Does, e
  <2> QED BY <1>11, <2>1, <2>2 DEF GatheringDone, e
<1>12. CASE Accept(u)
  <2>1. StartAccept(e) \in Endpoint BY <1>1, StartType
  <2>2. Does(StartAccept(e), e) BY <1>12 DEF Accept, Does, e
  <2> QED BY <1>12, <2>1, <2>2 DEF Accept, e
<1>13. CASE TerminateCall(u) \/ IncomingTimeout(u)
  <2>1. e.state \notin OverState \cup {"Idle"}
    BY <1>13 DEF TerminateCall, IncomingTimeout, OverState, e
  <2>2. Terminate(e) \in Endpoint BY <1>1, TerminateType
  <2>3. Run(u, Terminate(e)) BY <1>13 DEF TerminateCall, IncomingTimeout, e
  <2> QED BY <2>1, <2>2, <2>3 DEF Does
<1>14. CASE PauseCall(u)
  <2>1. Run(u, Pause(e)) /\ CanPause(e) BY <1>14 DEF PauseCall, e
  <2>2. Renews(Pause(e), e) BY <2>1 DEF Renews
  <2> QED BY <1>5, <2>1, <2>2
<1>15. CASE ResumeCall(u)
  <2>1. Run(u, Resume(e)) /\ e.state \in {"Pausing", "Paused"} BY <1>15 DEF ResumeCall, e
  <2>2. Renews(Resume(e), e) BY <2>1 DEF Renews
  <2> QED BY <1>5, <2>1, <2>2
<1>16. CASE UpdateCall(u)
  <2>1. Run(u, Update(e)) /\ CanUpdate(e) BY <1>16 DEF UpdateCall, e
  <2>2. Renews(Update(e), e) BY <2>1 DEF Renews
  <2> QED BY <1>5, <2>1, <2>2
<1>17. CASE AcceptDeferredUpdate(u)
  <2>1. AcceptUpdateAsked(e) \in Endpoint BY <1>1, AcceptUpdateType
  <2> QED BY <1>17, <2>1 DEF AcceptDeferredUpdate, Does, e
<1>18. CASE Dtmf(u) \/ InfoDequeued(u)
  <2>1. ~Dtmf(u) BY DEF Dtmf, Spend, Spared
  <2>2. ~InfoDequeued(u) BY <1>1 DEF InfoDequeued, e
  <2> QED BY <1>18, <2>1, <2>2
<1>19. CASE ReceiveInvite(u)
  <2> DEFINE m == Head(net[u])
  <2>1. net[u] # <<>> /\ m.method = "INVITE" /\ m.code = 0
    BY <1>19 DEF ReceiveInvite, Arrives
  <2>2. m \in Msg BY <1>2, <2>1
  <2>3. m.dir \in Dir BY <2>1, <2>2 DEF Msg
  <2>9. ~Spend("reject") BY DEF Spend, Spared
  <2> HIDE DEF m
  <2>4. \/ Unknown(e) /\ (Handle(u, ReceiveCall(e, m)) \/ Handle(u, RefuseCall(e, 486)))
        \/ /\ e.dialog = "Confirmed"
           /\ \E y \in BOOLEAN : Handle(u, ReceiveReinvite(e, m, TRUE, y))
        \/ /\ ~Unknown(e) /\ e.dialog # "Confirmed"
           /\ Handle(u, Send(e, Response("INVITE", 481, "none")))
    BY <1>19, <2>9, ZenonT(40) DEF ReceiveInvite, e, m
  <2>5. 486 \in Code \ {0} BY DEF Code
  <2>6. CASE Unknown(e) /\ (Handle(u, ReceiveCall(e, m)) \/ Handle(u, RefuseCall(e, 486)))
    <3>1. ReceiveCall(e, m) \in Endpoint /\ RefuseCall(e, 486) \in Endpoint
      BY <1>1, <2>2, <2>3, <2>5, ReceiveCallType, RefuseCallType
    <3>2. Hears(ReceiveCall(e, m), e, m) /\ Hears(RefuseCall(e, 486), e, m)
      BY <2>1, <2>6 DEF Hears
    <3> QED BY <2>1, <2>6, <3>1, <3>2 DEF m
  <2>7. CASE /\ e.dialog = "Confirmed"
             /\ \E y \in BOOLEAN : Handle(u, ReceiveReinvite(e, m, TRUE, y))
    <3>1. PICK y \in BOOLEAN : Handle(u, ReceiveReinvite(e, m, TRUE, y)) BY <2>7
    <3>2. ReceiveReinvite(e, m, TRUE, y) \in Endpoint
      BY <1>1, <2>2, <2>3, ReceiveReinviteType
    <3>3. Hears(ReceiveReinvite(e, m, TRUE, y), e, m) BY <2>1, <2>7, Zenon DEF Hears
    <3> QED BY <2>1, <3>1, <3>2, <3>3 DEF m
  <2>8. CASE /\ ~Unknown(e) /\ e.dialog # "Confirmed"
             /\ Handle(u, Send(e, Response("INVITE", 481, "none")))
    <3>1. Send(e, Response("INVITE", 481, "none")) \in Endpoint
      BY <1>1, SendResponseType DEF Method, Code
    <3>2. Hears(Send(e, Response("INVITE", 481, "none")), e, m) BY <2>1, <2>8 DEF Hears
    <3> QED BY <2>1, <2>8, <3>1, <3>2 DEF m
  <2> QED BY <2>4, <2>6, <2>7, <2>8
<1>20. CASE ReceiveOther(u)
  <2> DEFINE m == Head(net[u])
  <2>1. /\ ReceiveCancel(e) \in Endpoint /\ ReceiveBye(e) \in Endpoint
        /\ ReceiveInfo(e) \in Endpoint
    BY <1>1, ReceiveCancelType, ReceiveByeType, ReceiveInfoType
  <2>2. /\ net[u] # <<>>
        /\ \/ m.method = "CANCEL" /\ m.code = 0 /\ Handle(u, ReceiveCancel(e))
           \/ m.method = "BYE" /\ m.code = 0 /\ Handle(u, ReceiveBye(e))
           \/ m.method = "INFO" /\ m.code = 0 /\ Handle(u, ReceiveInfo(e))
    BY <1>20 DEF ReceiveOther, Arrives, e
  <2> HIDE DEF m
  <2>3. \E d \in Endpoint : Hears(d, e, m) /\ Handle(u, d) BY <2>1, <2>2, ZenonT(40) DEF Hears
  <2> QED BY <2>2, <2>3 DEF m
<1>21. CASE ReceiveResponse(u)
  <2> DEFINE m == Head(net[u])
  <2>1. net[u] # <<>> /\ m.code # 0 BY <1>21 DEF ReceiveResponse
  <2>2. m \in Msg BY <1>2, <2>1
  <2>3. ~Spend("incompatible") BY DEF Spend, Spared
  <2> HIDE DEF m
  <2>4. Handle(u, ProcessResponse(e, m, TRUE))
    BY <1>21, <2>3, Zenon DEF ReceiveResponse, e, m
  <2>5. ProcessResponse(e, m, TRUE) \in Endpoint BY <1>1, <2>2, ProcessResponseType
  <2>6. Hears(ProcessResponse(e, m, TRUE), e, m) BY <2>1 DEF Hears
  <2> QED BY <2>1, <2>4, <2>5, <2>6 DEF m
<1>23. CASE DialogTerminated(u) \/ ReleaseLater(u)
  <2>1. ProcessDialogTerminated(e) \in Endpoint /\ SetCallAsReleased(e) \in Endpoint
    BY <1>1, DialogTerminatedType
  <2> QED BY <1>23, <2>1 DEF DialogTerminated, ReleaseLater, Does, e
<1>25. CASE RetryTimer(u)
  <2>1. /\ e.timers > 0
        /\ e.retry = "none" \/ e.dialog # "Confirmed" \/ ~RequestPending(e)
        /\ Run(u, RunRetryFunc(e))
    BY <1>25 DEF RetryTimer, e
  <2>2. Renews(RunRetryFunc(e), e) BY <2>1 DEF Renews
  <2> QED BY <1>5, <2>1, <2>2
<1>26. CASE ExecuteLater(u)
  <2>1. Run(u, ExecutePendingActions(e)) BY <1>26 DEF ExecuteLater, e
  <2>2. Renews(ExecutePendingActions(e), e) BY DEF Renews
  <2> QED BY <1>5, <2>1, <2>2
<1> QED BY <1>10, <1>11, <1>12, <1>13, <1>14, <1>15, <1>16, <1>17, <1>18, <1>19,
           <1>20, <1>21, <1>23, <1>25, <1>26 DEF User, Internal

(***************************************************************************)
(* Nothing is left behind by a session that ends.                          *)
(***************************************************************************)

\* A released op has dropped its session, and a session whose dialog has reported
\* its end will be released by the main loop.
Tidy(e) ==
  /\ e.released => ~e.attached
  /\ e.attached /\ e.dialog = "Terminated" => e.releaseLater

\* Only a session that is over and whose dialog is gone can be in disorder.
LEMMA TidySafe ==
  ASSUME NEW d \in Endpoint, EndpointInv(d),
         d.state \notin {"End", "Error"} \/ d.dialog \notin {"None", "Terminated"} \/ ~d.attached
  PROVE  Tidy(d)
BY DEF Tidy, EndpointInv, OverInv

\* What does not touch any of this keeps it.
LEMMA TidySame ==
  ASSUME NEW e, Tidy(e), NEW d, d.released = e.released, d.releaseLater = e.releaseLater,
         d.dialog = e.dialog, d.attached => e.attached
  PROVE  Tidy(d)
BY DEF Tidy

\* A final response does not touch an INFO.
LEMMA ReplyMute ==
  ASSUME NEW e \in Endpoint, NEW code \in Code \ {0}, NEW dir \in Dir \cup {"none"}
  PROVE  LET d == Reply(e, code, dir)
         IN  /\ d \in Endpoint /\ SameSession(d, e) /\ d.info = e.info
             /\ d.dialog \in {e.dialog, "TermEarly"}
<1>1. CASE e.server BY <1>1, ReplyFacts
<1>2. CASE ~e.server BY <1>2 DEF Reply, SameSession
<1> QED BY <1>1, <1>2

\* Nor does a CANCEL.
LEMMA CancelMute ==
  ASSUME NEW e \in Endpoint
  PROVE  CancelInvite(e).info = e.info /\ CancellingInvite(e).info = e.info
<1>1. CancelInvite(e) \in Endpoint BY CancelInviteType
<1>2. CancelInvite(e).info = e.info BY DEF CancelInvite, Send, Endpoint
<1> QED BY <1>1, <1>2 DEF CancellingInvite, Endpoint

\* SalCallOp::terminate() of a session that goes on.
LEMMA OpTerminateMute ==
  ASSUME NEW e \in Endpoint, EndpointInv(e), e.attached, e.state \notin OverState
  PROVE  LET d == OpTerminate(e)
         IN  /\ d \in Endpoint /\ SameSession(d, e) /\ d.info = e.info
             /\ d.dialog \in {e.dialog, "TermEarly"}
<1> DEFINE d == OpTerminate(e)
           b == SendBye(e)
           q == Reply(e, 603, "none")
<1>1. d \in Endpoint /\ SameSession(d, e) /\ d.dialog \in {e.dialog, "TermEarly"}
  BY OpTerminateStopped, OpTerminateType
<1>2. b \in Endpoint /\ b.info = e.info BY SendByeFacts
<1>3. q \in Endpoint /\ q.info = e.info BY ReplyMute DEF Code
<1>4. CancellingInvite(e).info = e.info BY CancelMute
<1>5. \/ d = e \/ d = CancellingInvite(e) \/ d = [e EXCEPT !.op = "Terminating"]
      \/ d = [b EXCEPT !.op = "Terminating"] \/ d = [q EXCEPT !.op = "Terminated"]
  BY DEF OpTerminate
<1> HIDE DEF d, b, q
<1>6. d.info = e.info BY <1>2, <1>3, <1>4, <1>5 DEF Endpoint
<1> QED BY <1>1, <1>6 DEF d

\* CallSession::terminate()
LEMMA TerminateTidy ==
  ASSUME NEW e, Settled(e), e.state \notin OverState \cup {"Idle"},
         NEW d \in Endpoint, EndpointInv(d), d = Terminate(e)
  PROVE  d.info = e.info /\ Tidy(d)
<1>1. e \in Endpoint /\ EndpointInv(e) BY DEF Settled
<1>2. e.attached BY <1>1 DEF EndpointInv, SessionInv, OverState
<1>3. e.dialog # "Terminated" BY <1>1, <1>2 DEF EndpointInv, OverInv, OverState
<1>4. PICK p \in Endpoint : /\ d = TerminateSession(p) /\ p.state = e.state /\ p.info = e.info
                            /\ p.dialog \in {e.dialog, "TermEarly"}
  <2>1. CASE e.state = "IncomingReceived"
    <3> DEFINE p == Reply(e, 603, "none")
    <3>1. /\ p \in Endpoint /\ SameSession(p, e) /\ p.info = e.info
          /\ p.dialog \in {e.dialog, "TermEarly"}
      BY <1>1, ReplyMute DEF Code
    <3>2. d = TerminateSession(p) BY <2>1 DEF Terminate
    <3> QED BY <3>1, <3>2 DEF SameSession
  <2>2. CASE e.state = "OutgoingInit"
    <3> DEFINE p == OpRelease(e)
    <3>1. p \in Endpoint BY <1>1, OpReleaseType
    <3>2. p.state = e.state /\ p.info = e.info /\ p.dialog = e.dialog
      BY <1>1, Zenon DEF OpRelease, Endpoint
    <3>3. d = TerminateSession(p) BY <2>2 DEF Terminate
    <3> QED BY <3>1, <3>2, <3>3
  <2>3. CASE e.state \notin {"IncomingReceived", "OutgoingInit"}
    <3> DEFINE p == OpTerminate(e)
    <3>1. /\ p \in Endpoint /\ SameSession(p, e) /\ p.info = e.info
          /\ p.dialog \in {e.dialog, "TermEarly"}
      BY <1>1, <1>2, OpTerminateMute
    <3>2. d = TerminateSession(p) BY <2>3 DEF Terminate
    <3> QED BY <3>1, <3>2 DEF SameSession
  <2> QED BY <2>1, <2>2, <2>3
<1>5. /\ Apart(d, p)
      /\ p.attached /\ p.dialog # "None" => d.state = "End" /\ d.op = p.op
      /\ ~(p.attached /\ p.dialog # "None") => d.state = "Released"
  BY <1>4, TerminateSessionFacts
<1>6. d.info = e.info /\ d.dialog = p.dialog BY <1>4, <1>5 DEF Apart, Beside, Kept
<1>7. Tidy(d) BY <1>3, <1>4, <1>5, <1>6, TidySafe
<1> QED BY <1>6, <1>7

\* SalCallOp::setReleased() once the session is over: it lets go of the session.
LEMMA SetOpReleasedTidy ==
  ASSUME NEW e \in Endpoint, Tidy(e), e.attached => e.state \in {"End", "Error"},
         NEW d \in Endpoint, EndpointInv(d), d = SetOpReleased(e)
  PROVE  d.info = e.info /\ Tidy(d)
<1>1. /\ d.info = e.info /\ (~e.released => d.dialog = "None")
      /\ ~e.released /\ e.attached => d.state = "Released"
      /\ \/ d.state = e.state /\ d.attached = e.attached
         \/ e.state \in {"End", "Error"} /\ d.state = "Released"
  BY SetOpReleasedFacts
<1>2. CASE e.released
  <2>1. d = e BY <1>2 DEF SetOpReleased
  <2> QED BY <2>1
<1>3. CASE ~e.released
  <2>1. ~d.attached BY <1>1, <1>3 DEF EndpointInv, SessionInv
  <2> QED BY <1>1, <2>1, TidySafe
<1> QED BY <1>2, <1>3

\* MediaSession::startAccept()
LEMMA StartAcceptTidy ==
  ASSUME NEW e, Settled(e), e.state = "IncomingReceived",
         NEW d \in Endpoint, EndpointInv(d), d = StartAccept(e)
  PROVE  d.info = e.info /\ Tidy(d)
<1> DEFINE a == OpAccept(e)
           b == SetState(a, "Connected")
<1>1. e \in Endpoint /\ e.server BY DEF Settled, EndpointInv, FreshInv
<1>2. a \in Endpoint /\ a.info = e.info BY <1>1, OpAcceptFacts
<1> HIDE DEF a
<1>3. b \in Endpoint /\ Apart(b, a) BY <1>2, SetStateType, SetStateApart DEF CallState
<1> HIDE DEF b
<1>4. d = SetState(b, "StreamsRunning") BY DEF StartAccept, b, a
<1>5. Apart(d, b) BY <1>3, <1>4, SetStateApart DEF CallState
<1>6. e.incoming BY DEF Settled, Grounded
<1>7. d.state = "StreamsRunning" BY <1>6, StartAcceptCourse DEF Settled
<1> QED BY <1>2, <1>3, <1>5, <1>7, TidySafe DEF Apart, Beside, Kept

\* Nothing an endpoint does of itself starts an INFO, or leaves disorder.
LEMMA DoesTidy ==
  ASSUME NEW e, Settled(e), Tidy(e), NEW d \in Endpoint, EndpointInv(d), Does(d, e)
  PROVE  d.info = e.info /\ Tidy(d)
<1>1. e \in Endpoint /\ EndpointInv(e) /\ Grounded(e) /\ e.out = <<>> BY DEF Settled
<1>2. CASE e.state = "Idle" /\ ~e.incoming /\ ~e.attached
           /\ d \in {InitiateOutgoing(e), StartInvite(InitiateOutgoing(e))}
  <2> DEFINE a == InitiateOutgoing(e)
  <2>1. a \in Endpoint /\ Apart(a, e) /\ a.state = "OutgoingInit"
    BY <1>1, <1>2, InitiateOutgoingCourse
  <2> HIDE DEF a
  <2>2. a.info = e.info /\ a.out = <<>> /\ ~a.incoming
    BY <1>1, <1>2, <2>1 DEF Apart, Beside, Kept
  <2>3. StartInvite(a).state = "OutgoingProgress" /\ StartInvite(a).info = a.info
    BY <2>1, <2>2, StartInviteCourse
  <2>4. d = a \/ d = StartInvite(a) BY <1>2 DEF a
  <2>5. d.state \notin {"End", "Error"} /\ d.info = e.info BY <2>1, <2>2, <2>3, <2>4
  <2> QED BY <2>5, TidySafe
<1>3. CASE e.state = "OutgoingInit" /\ d = StartInvite(e)
  <2>1. ~e.incoming BY <1>1, <1>3 DEF Grounded
  <2>2. d.state = "OutgoingProgress" /\ d.info = e.info BY <1>1, <1>3, <2>1, StartInviteCourse
  <2> QED BY <2>2, TidySafe
<1>4. CASE e.state = "IncomingReceived" /\ d = StartAccept(e) BY <1>4, StartAcceptTidy
<1>5. CASE e.state \notin OverState \cup {"Idle"} /\ d = Terminate(e) BY <1>5, TerminateTidy
<1>6. CASE Renews(d, e)
  <2>1. Renewed(d, e) BY <1>6, RenewsRenewed
  <2> QED BY <2>1, TidySame DEF Renewed, Kept
<1>7. CASE e.state = "UpdatedByRemote" /\ d = AcceptUpdateAsked(e)
  <2>1. e.dialog = "Confirmed" BY <1>1, <1>7, EstablishedFacts DEF EstablishedState
  <2>2. Served(d, e) BY <1>1, <1>7, <2>1, AcceptUpdateAskedServed
  <2>3. d.info = e.info /\ d.dialog = "Confirmed" BY <2>1, <2>2 DEF Served
  <2> QED BY <2>3, TidySafe
<1>8. CASE e.dialog \in {"TermEarly", "TermConf"} /\ d = ProcessDialogTerminated(e)
  <2> DEFINE t == IF e.op \in {"Terminating", "Terminated"} THEN e
                  ELSE IF e.dialog = "TermEarly" THEN Failure(e, 0) ELSE Terminated(e)
             o == IF e.op \notin {"Terminating", "Terminated"} THEN "Terminating" ELSE t.op
  <2>1. d.info = e.info /\ d.dialog = "Terminated" BY <1>1, <1>8, DialogTerminatedFacts
  <2>2. t \in Endpoint BY <1>1, FailureType, RingingTerminatedType
  <2>3. d = [t EXCEPT !.op = o, !.releaseLater = TRUE, !.dialog = "Terminated"]
    BY <1>8 DEF ProcessDialogTerminated
  <2> HIDE DEF t, o
  <2>4. d.releaseLater BY <2>2, <2>3 DEF Endpoint
  <2>5. ~d.released BY <2>1 DEF EndpointInv, OverInv
  <2> QED BY <2>1, <2>4, <2>5 DEF Tidy
<1>9. CASE e.releaseLater /\ d = SetCallAsReleased(e)
  <2> DEFINE x == [e EXCEPT !.releaseLater = FALSE]
  <2>1. e.attached => e.state \in {"End", "Error"} BY <1>1, <1>9 DEF EndpointInv, OverInv
  <2>2. CASE e.released
    <3>1. ~e.attached BY <2>2 DEF Tidy
    <3>2. d = x BY <1>1, <1>9, <2>2 DEF SetCallAsReleased, SetOpReleased, Endpoint
    <3>3. x.info = e.info /\ x.attached = e.attached BY <1>1 DEF Endpoint
    <3> QED BY <3>1, <3>2, <3>3, TidySafe
  <2>3. CASE ~e.released
    <3>1. x \in Endpoint /\ x.info = e.info /\ x.released = e.released
          /\ x.attached = e.attached /\ x.state = e.state
      BY <1>1 DEF Endpoint
    <3>2. d = SetOpReleased(x) BY <1>9 DEF SetCallAsReleased
    <3> HIDE DEF x
    <3>3. /\ d.info = x.info /\ (x.attached => d.state = "Released")
          /\ d.attached = x.attached \/ d.state = "Released"
      BY <2>1, <2>3, <3>1, <3>2, SetOpReleasedFacts
    <3>4. ~d.attached BY <3>1, <3>3 DEF EndpointInv, SessionInv
    <3> QED BY <3>1, <3>3, <3>4, TidySafe
  <2> QED BY <2>2, <2>3
<1> QED BY <1>2, <1>3, <1>4, <1>5, <1>6, <1>7, <1>8, <1>9 DEF Does


\* What does not write dialog and op but for the end of a session.
Softly(d, e) == Apart(d, e) /\ (d.attached => e.attached)

\* setState(), failure() and terminated() are such.
LEMMA SetStateSoftly ==
  ASSUME NEW e \in Endpoint, NEW s \in CallState
  PROVE  Softly(SetState(e, s), e)
<1>1. Apart(SetState(e, s), e) BY SetStateApart
<1>2. SetState(e, s).attached => e.attached
  BY DEF SetState, SetSessionReleased, OpRelease, Endpoint
<1> QED BY <1>1, <1>2 DEF Softly

\* See SetStateSoftly.
LEMMA FailureSoftly ==
  ASSUME NEW e \in Endpoint, NEW code
  PROVE  Softly(Failure(e, code), e) /\ Softly(Terminated(e), e)
<1>1. /\ e.lastStable \in CallState /\ e.prevState \in CallState
      /\ "Error" \in CallState /\ "End" \in CallState
  BY DEF Endpoint, CallState
<1>2. Softly(e, e) BY DEF Softly, Apart, Beside, Kept
<1>3. Failure(e, code) = e \/ \E s \in CallState : Failure(e, code) = SetState(e, s)
  BY <1>1 DEF Failure
<1>4. Terminated(e) = e \/ \E s \in CallState : Terminated(e) = SetState(e, s)
  BY <1>1 DEF Terminated
<1>5. \A s \in CallState : Softly(SetState(e, s), e) BY SetStateSoftly
<1> QED BY <1>2, <1>3, <1>4, <1>5

\* A soft handler leaves no disorder.
LEMMA SoftlyTidy ==
  ASSUME NEW e, Tidy(e), NEW d, Softly(d, e)
  PROVE  Tidy(d)
BY DEF Tidy, Softly, Apart, Beside, Kept

\* What a response comes to: no INFO is started, no server transaction is touched, and
\* a BYE is sent at most, or the CANCEL that had to wait for it.
Reports(d, e) ==
  /\ d.info = e.info /\ d.server = e.server
  /\ \/ d.out = <<>> \/ d.out = <<Request("BYE", "none")>>
     \/ /\ d.out = <<Request("CANCEL", "none")>>
        /\ e.op = "Terminating" /\ e.dialog \in {"None", "Null", "Early"}

\* A soft handler reports nothing.
LEMMA SoftlyReports ==
  ASSUME NEW e, e.out = <<>>, NEW d, Softly(d, e)
  PROVE  Reports(d, e)
BY DEF Reports, Softly, Apart, Beside, Kept

\* The stack and the retry function leave no disorder.
LEMMA HeardTidy ==
  ASSUME NEW e \in Endpoint, EndpointInv(e), Tidy(e), e.info = "none",
         NEW m \in Msg, m.code # 0, Matched(e, m)
  PROVE  LET h == Heard(e, m)
         IN  /\ Tidy(h) /\ h.info = "none" /\ h.server = e.server
             /\ h.dialog \in {"None", "Null", "Early"} => e.dialog \in {"None", "Null", "Early"}
             /\ Tidy(StackResponse(e, m)) /\ StackResponse(e, m).info = "none"
<1> DEFINE h == Heard(e, m)
           x == StackResponse(e, m)
<1>1. Trimmed(h, x) BY HeardFacts
<1>2. m.method # "INFO" BY DEF Matched
<1>3. /\ SameSession(x, e) /\ x.released = e.released /\ x.releaseLater = e.releaseLater
      /\ x.server = e.server /\ x.info = e.info
  BY <1>2, StackFacts
<1>4. /\ x.dialog = "Terminated" => e.dialog = "Terminated"
      /\ x.dialog \in {"None", "Null", "Early"} => e.dialog \in {"None", "Null", "Early"}
  BY DEF StackResponse, Endpoint
<1> HIDE DEF h, x
<1>5. Tidy(x) BY <1>3, <1>4 DEF Tidy, SameSession
<1>6. /\ h.released = x.released /\ h.releaseLater = x.releaseLater /\ h.dialog = x.dialog
      /\ h.attached = x.attached /\ h.info = x.info /\ h.server = x.server
  BY <1>1 DEF Trimmed, SameSession, Kept
<1>7. Tidy(h) BY <1>5, <1>6 DEF Tidy
<1> QED BY <1>3, <1>4, <1>5, <1>6, <1>7 DEF h, x

\* SalCallOp::processResponseCb() in an established dialog.
LEMMA ConfirmedResponseTidy ==
  ASSUME NEW e \in Endpoint, e.out = <<>>, e.dialog = "Confirmed",
         NEW m \in Msg, NEW d, d = ConfirmedResponse(e, m, TRUE), d \in Endpoint, EndpointInv(d)
  PROVE  Reports(d, e) /\ Tidy(d)
<1>1. CASE d = SendBye(e)
  <2> DEFINE b == SendBye(e)
  <2>1. b.info = e.info /\ b.server = e.server /\ b.dialog = e.dialog
        /\ b.out = Append(<<>>, Request("BYE", "none"))
    BY SendByeFacts
  <2> HIDE DEF b
  <2>2. b.out = <<Request("BYE", "none")>> BY <2>1
  <2> SUFFICES Reports(b, e) /\ Tidy(b) BY <1>1 DEF b
  <2>3. b \in Endpoint /\ EndpointInv(b) BY <1>1 DEF b
  <2>4. Tidy(b) BY <2>1, <2>3, TidySafe
  <2> QED BY <2>1, <2>2, <2>4 DEF Reports
<1>2. CASE Softly(d, e)
  <2>1. d.dialog = e.dialog BY <1>2 DEF Softly, Apart, Beside, Kept
  <2> QED BY <1>2, <2>1, TidySafe, SoftlyReports
<1>3. CASE d = [Accepted(e, m.dir, TRUE) EXCEPT !.op = "Active"]
  <2> DEFINE a == Accepted(e, m.dir, TRUE)
             c == IF e.state \in {"OutgoingProgress", "OutgoingRinging"}
                  THEN SetState(e, "Connected") ELSE e
             md == ComputeDirOutgoing(c.offer, m.dir)
             n == AcceptedNextState(c, md)
             r == [c EXCEPT !.result = md]
  <2>1. c \in Endpoint /\ Softly(c, e)
    <3>1. Softly(e, e) BY DEF Softly, Apart, Beside, Kept
    <3>2. "Connected" \in CallState BY DEF CallState
    <3> QED BY <3>1, <3>2, SetStateSoftly, SetStateType
  <2>2. c.offer \in Dir BY <2>1 DEF Endpoint
  <2>3. md \in Dir
    <3> HIDE DEF c
    <3> QED BY <2>2 DEF ComputeDirOutgoing, Dir
  <2>4. n \in CallState BY DEF AcceptedNextState, CallState
  <2>5. a = e \/ a = c \/ a = SetState(r, n) BY DEF Accepted
  <2> HIDE DEF c, md, n, a
  <2>6. r \in Endpoint /\ Softly(r, c)
    BY <2>1, <2>3 DEF Softly, Apart, Beside, Kept, Endpoint
  <2>7. SetState(r, n) \in Endpoint /\ Softly(SetState(r, n), r)
    BY <2>4, <2>6, SetStateSoftly, SetStateType
  <2>8. a \in Endpoint /\ a.info = e.info /\ a.server = e.server /\ a.out = e.out
        /\ a.dialog = e.dialog
    <3>1. CASE a = e BY <3>1
    <3>2. CASE a = c BY <3>2, <2>1 DEF Softly, Apart, Beside, Kept
    <3>3. CASE a = SetState(r, n) BY <3>3, <2>1, <2>6, <2>7 DEF Softly, Apart, Beside, Kept
    <3> QED BY <2>5, <3>1, <3>2, <3>3
  <2>9. d.info = e.info /\ d.server = e.server /\ d.out = <<>> /\ d.dialog = "Confirmed"
    BY <1>3, <2>8, ZenonT(40) DEF a, Endpoint
  <2> QED BY <2>9, TidySafe DEF Reports
<1>4. Softly(e, e) BY DEF Softly, Apart, Beside, Kept
<1>5. Softly(Failure(e, m.code), e) BY FailureSoftly
<1>6. \/ d = SendBye(e) \/ d = [Accepted(e, m.dir, TRUE) EXCEPT !.op = "Active"]
      \/ d = Failure(e, m.code) \/ d = e
  BY DEF ConfirmedResponse
<1> QED BY <1>1, <1>2, <1>3, <1>4, <1>5, <1>6

\* SalCallOp::setError() of a response that ends the call is one as well.
LEMMA SetFatalErrorSoftly ==
  ASSUME NEW e \in Endpoint, NEW code
  PROVE  Softly(SetFatalError(e, code), e)
<1> DEFINE b == [e EXCEPT !.op = "Terminating"]
<1>1. b \in Endpoint /\ Apart(b, e) /\ b.attached = e.attached
  BY DEF Endpoint, OpState, Apart, Beside, Kept
<1> HIDE DEF b
<1>2. Softly(Failure(b, code), b) BY <1>1, FailureSoftly
<1> QED BY <1>1, <1>2 DEF SetFatalError, Softly, Apart, Beside, Kept, b

\* SalCallOp::setReleased() does not touch the transactions.
LEMMA SetOpReleasedServer ==
  ASSUME NEW e \in Endpoint
  PROVE  SetOpReleased(e).server = e.server
<1> DEFINE b == [e EXCEPT !.op = "Terminated", !.released = TRUE]
<1>1. b \in Endpoint /\ b.server = e.server BY DEF Endpoint, OpState
<1> HIDE DEF b
<1>2. "Released" \in CallState BY DEF CallState
<1>3. SetState(b, "Released").server = b.server /\ SetState(b, "Released") \in Endpoint
  BY <1>1, <1>2, SetStateApart, SetStateType DEF Apart, Beside, Kept
<1>4. \A x \in Endpoint : [x EXCEPT !.dialog = "None"].server = x.server BY DEF Endpoint
<1>5. SetOpReleased(e) \in {e, [b EXCEPT !.dialog = "None"],
                            [SetState(b, "Released") EXCEPT !.dialog = "None"]}
  BY DEF SetOpReleased, b
<1> QED BY <1>1, <1>3, <1>4, <1>5

\* A response does not change who was called.
LEMMA HeardIncoming ==
  ASSUME NEW e \in Endpoint, EndpointInv(e), NEW m \in Msg, m.code # 0, Matched(e, m)
  PROVE  Heard(e, m).incoming = e.incoming
<1>1. StackResponse(e, m).incoming = e.incoming BY DEF StackResponse, Endpoint
<1>2. Heard(e, m).incoming = StackResponse(e, m).incoming BY HeardFacts DEF Trimmed, Kept
<1> QED BY <1>1, <1>2

\* SalCallOp::cancellingInvite() sends a CANCEL, or ends an early dialog.
LEMMA CancellingQuiet ==
  ASSUME NEW e \in Endpoint
  PROVE  LET b == CancellingInvite(e)
         IN  /\ SameSession(b, e) /\ b.released = e.released /\ b.releaseLater = e.releaseLater
             /\ b.info = e.info /\ b.server = e.server
             /\ b.dialog \in {e.dialog, "TermEarly"}
             /\ b.out \in {e.out, Append(e.out, Request("CANCEL", "none"))}
<1> DEFINE a == CancelInvite(e)
           Like(b) == /\ SameSession(b, e) /\ b.released = e.released
                      /\ b.releaseLater = e.releaseLater
                      /\ b.info = e.info /\ b.server = e.server
                      /\ b.dialog \in {e.dialog, "TermEarly"}
                      /\ b.out \in {e.out, Append(e.out, Request("CANCEL", "none"))}
<1>1. a \in Endpoint /\ Like(a)
  <2>1. CASE e.lastRequest = "INVITE" /\ e.client = "proceeding"
    <3> DEFINE l == [e EXCEPT !.lastRequest = "CANCEL"]
    <3>1. /\ l \in Endpoint /\ SameSession(l, e) /\ l.released = e.released
          /\ l.releaseLater = e.releaseLater /\ l.info = e.info /\ l.server = e.server
          /\ l.dialog = e.dialog /\ l.out = e.out
      BY DEF Endpoint, Method, SameSession
    <3>2. a = Send(l, Request("CANCEL", "none")) BY <2>1 DEF CancelInvite
    <3> HIDE DEF l, a
    <3>3. Request("CANCEL", "none") \in Msg BY Messages DEF Plain
    <3>4. a \in Endpoint /\ Twin(a, l) /\ a.out = Append(l.out, Request("CANCEL", "none"))
      BY <3>1, <3>2, <3>3, SendTwin
    <3> QED BY <3>1, <3>4 DEF Twin, Beside, Kept, SameSession
  <2>2. CASE a = [e EXCEPT !.dialog = "TermEarly"]
    BY <2>2 DEF Endpoint, DialogState, SameSession
  <2>3. CASE a = e BY <2>3 DEF SameSession
  <2> QED BY <2>1, <2>2, <2>3 DEF CancelInvite
<1>2. CancellingInvite(e) = [a EXCEPT !.op = "Terminating"] BY DEF CancellingInvite
<1> HIDE DEF a
<1> DEFINE b == [a EXCEPT !.op = "Terminating"]
<1>3. SameSession(b, a) /\ Apart(b, a) BY <1>1, SetOpApart DEF OpState
<1> HIDE DEF b
<1>4. Like(b) BY <1>1, <1>3 DEF SameSession, Apart, Beside, Kept
<1> QED BY <1>2, <1>4 DEF b

\* SalCallOp::processResponseCb() in a dialog that is not established.
LEMMA EarlyResponseTidy ==
  ASSUME NEW e \in Endpoint, EndpointInv(e), Grounded(e), Tidy(e), e.out = <<>>,
         e.dialog \in {"None", "Null", "Early"},
         NEW m \in Msg, NEW d, d = EarlyResponse(e, m), d \in Endpoint, EndpointInv(d)
  PROVE  Reports(d, e) /\ Tidy(d)
<1>1. CASE Softly(d, e) BY <1>1, SoftlyTidy, SoftlyReports
<1>2. CASE e.op = "Terminating" /\ d = SetOpReleased(e)
  <2>1. e.attached => e.state \in {"End", "Error"} BY <1>2 DEF EndpointInv, OverInv
  <2>2. d.info = e.info /\ Tidy(d) BY <1>2, <2>1, SetOpReleasedTidy
  <2>3. d.out = <<>> BY <1>2, <2>1, SetOpReleasedFacts
  <2>4. d.server = e.server BY <1>2, SetOpReleasedServer
  <2> QED BY <2>2, <2>3, <2>4 DEF Reports
<1>3. CASE e.op = "Terminating" /\ d = CancellingInvite(e)
  <2> DEFINE b == CancellingInvite(e)
  <2>1. /\ SameSession(b, e) /\ b.released = e.released /\ b.releaseLater = e.releaseLater
        /\ b.info = e.info /\ b.server = e.server
        /\ b.dialog \in {e.dialog, "TermEarly"}
        /\ b.out \in {e.out, Append(e.out, Request("CANCEL", "none"))}
    BY CancellingQuiet
  <2> HIDE DEF b
  <2> SUFFICES Reports(b, e) /\ Tidy(b) BY <1>3 DEF b
  <2>2. Append(<<>>, Request("CANCEL", "none")) = <<Request("CANCEL", "none")>> OBVIOUS
  <2>3. b.out \in {<<>>, <<Request("CANCEL", "none")>>} BY <2>1, <2>2
  <2>4. Tidy(b) BY <2>1 DEF Tidy, SameSession
  <2> QED BY <1>3, <2>1, <2>3, <2>4 DEF Reports
<1>4. CASE \E code : d = SetFatalError(e, code)
  <2>1. PICK code : d = SetFatalError(e, code) BY <1>4
  <2> QED BY <1>1, <2>1, SetFatalErrorSoftly
<1>5. CASE \E code : d = SetOpReleased(SetFatalError(e, code))
  <2>1. PICK code : d = SetOpReleased(SetFatalError(e, code)) BY <1>5
  <2> DEFINE f == SetFatalError(e, code)
  <2>2. e.attached => e.state \in EarlyState \cup {"End", "Error"} BY DEF EndpointInv, OverInv
  <2>3. f \in Endpoint /\ (f.attached => f.state \in {"End", "Error"})
    BY <2>2, SetFatalErrorFacts
  <2>4. Softly(f, e) BY SetFatalErrorSoftly
  <2> HIDE DEF f
  <2>5. Tidy(f) /\ f.info = e.info /\ f.server = e.server /\ f.out = <<>>
    BY <2>4, SoftlyTidy DEF Softly, Apart, Beside, Kept
  <2>6. d = SetOpReleased(f) BY <2>1 DEF f
  <2>7. d.info = f.info /\ Tidy(d) BY <2>3, <2>5, <2>6, SetOpReleasedTidy
  <2>8. d.out = f.out BY <2>3, <2>6, SetOpReleasedFacts
  <2>9. d.server = f.server BY <2>3, <2>6, SetOpReleasedServer
  <2> QED BY <2>5, <2>7, <2>8, <2>9 DEF Reports
<1>6. Softly(e, e) BY DEF Softly, Apart, Beside, Kept
<1>7. Softly(RemoteRinging(e), e)
  <2>1. "OutgoingRinging" \in CallState BY DEF CallState
  <2> QED BY <1>6, <2>1, SetStateSoftly DEF RemoteRinging
<1>8. \/ d = e \/ d = RemoteRinging(e)
      \/ e.op = "Terminating" /\ d = SetOpReleased(e)
      \/ e.op = "Terminating" /\ d = CancellingInvite(e)
      \/ \E code : d = SetFatalError(e, code)
      \/ \E code : d = SetOpReleased(SetFatalError(e, code))
  BY DEF EarlyResponse
<1> QED BY <1>1, <1>2, <1>3, <1>4, <1>5, <1>6, <1>7, <1>8

\* A response to whatever request leaves no disorder.
LEMMA ResponseTidy ==
  ASSUME NEW e, Settled(e), Tidy(e), e.info = "none", NEW m \in Msg, m.code # 0,
         NEW d \in Endpoint, EndpointInv(d), d = ProcessResponse(e, m, TRUE)
  PROVE  Reports(d, e) /\ Tidy(d)
<1> USE DEF Settled
<1>1. CASE ~Matched(e, m)
  <2>1. d = e BY <1>1 DEF ProcessResponse
  <2> QED BY <2>1 DEF Reports
<1>2. CASE Matched(e, m)
  <2> DEFINE h == Heard(e, m)
             x == StackResponse(e, m)
  <2>1. /\ h \in Endpoint /\ EndpointInv(h) /\ SameSession(h, e) /\ h.op = e.op /\ h.out = <<>>
        /\ h.dialog = x.dialog /\ h.op = x.op
    BY <1>2, HeardFacts DEF Trimmed, Kept
  <2>2. /\ Tidy(h) /\ h.info = "none" /\ h.server = e.server /\ Tidy(x) /\ x.info = "none"
        /\ h.dialog \in {"None", "Null", "Early"} => e.dialog \in {"None", "Null", "Early"}
    BY <1>2, HeardTidy
  <2>3. x.server = e.server /\ x.out = e.out BY <1>2, StackFacts
  <2>4. h.dialog \in DialogState BY <2>1, FieldTypes
  <2>5. /\ h.op = "Terminated" => d = x
        /\ h.op # "Terminated" /\ h.dialog \in {"None", "Null", "Early"} =>
             d = EarlyResponse(h, m)
        /\ h.op # "Terminated" /\ h.dialog = "Confirmed" => d = ConfirmedResponse(h, m, TRUE)
        /\ h.op # "Terminated" /\ h.dialog \in {"TermEarly", "TermConf", "Terminated"} =>
             d = SetFatalError(h, m.code) \/ d = h
    BY <1>2, <2>1, <2>4, ResponseCases, ZenonT(40)
  <2> HIDE DEF h, x
  <2>6. Grounded(h)
    <3>1. h.incoming = e.incoming BY <1>2, HeardIncoming DEF h
    <3> QED BY <2>1, <3>1 DEF Grounded, SameSession
  <2>7. Reports(d, h) => Reports(d, e) BY <2>1, <2>2 DEF Reports
  <2>8. CASE h.op = "Terminated" BY <2>2, <2>3, <2>5, <2>8 DEF Reports
  <2>9. CASE h.op # "Terminated" /\ h.dialog \in {"None", "Null", "Early"}
    BY <2>1, <2>2, <2>5, <2>6, <2>7, <2>9, EarlyResponseTidy
  <2>10. CASE h.op # "Terminated" /\ h.dialog = "Confirmed"
    BY <2>1, <2>5, <2>7, <2>10, ConfirmedResponseTidy
  <2>11. CASE h.op # "Terminated" /\ h.dialog \in {"TermEarly", "TermConf", "Terminated"}
    <3>1. Softly(h, h) BY DEF Softly, Apart, Beside, Kept
    <3>2. Softly(SetFatalError(h, m.code), h) BY <2>1, SetFatalErrorSoftly
    <3>3. Softly(d, h) BY <2>5, <2>11, <3>1, <3>2
    <3> QED BY <2>1, <2>2, <2>7, <3>3, SoftlyTidy, SoftlyReports
  <2> QED BY <2>4, <2>8, <2>9, <2>10, <2>11 DEF DialogState
<1> QED BY <1>1, <1>2

(***************************************************************************)
(* Which messages are sent.                                                *)
(***************************************************************************)

\* The messages of a call that nobody cancels or declines.
Tame ==
  {m \in Msg : /\ m.method # "CANCEL"
               /\ m.method = "INVITE" => m.code \in {0, 100, 180, 200, 481, 491}}

\* What is never a CANCEL.
NoCancel == Msg \ Cancels

\* The messages of a handler that are tame, and those that are no CANCEL.
LEMMA TameMessages ==
  /\ \A x \in Dir : Request("INVITE", x) \in Tame
  /\ Request("BYE", "none") \in Tame /\ Offered \in Tame /\ Answered \in Tame
  /\ \A code \in {100, 180, 200, 481, 491}, x \in Dir \cup {"none"} :
       Response("INVITE", code, x) \in Tame
  /\ \A code \in {200, 481} : Response("BYE", code, "none") \in Tame
  /\ \A code \in {200, 481, 491, 501} : Response("INFO", code, "none") \in Tame
  /\ \A code \in {200, 481} : Response("CANCEL", code, "none") \in NoCancel
  /\ \A code \in {486, 487, 603} : Response("INVITE", code, "none") \in NoCancel
  /\ Request("CANCEL", "none") \in Cancels
  /\ Tame \subseteq NoCancel /\ Provisional \subseteq Tame /\ NoCancel \subseteq Msg
<1> USE DEF Msg, Method, Code, Dir, Tame, NoCancel, Cancels, Request, Response
<1>1. \A x \in Dir : Request("INVITE", x) \in Tame OBVIOUS
<1>2. Request("BYE", "none") \in Tame OBVIOUS
<1>3. Offered \in Tame /\ Answered \in Tame BY DEF Offered, Answered
<1>4. \A code \in {100, 180, 200, 481, 491}, x \in Dir \cup {"none"} :
         Response("INVITE", code, x) \in Tame
  OBVIOUS
<1>5. \A code \in {200, 481} : Response("BYE", code, "none") \in Tame OBVIOUS
<1>6. \A code \in {200, 481, 491, 501} : Response("INFO", code, "none") \in Tame OBVIOUS
<1>7. \A code \in {200, 481} : Response("CANCEL", code, "none") \in NoCancel OBVIOUS
<1>8. \A code \in {486, 487, 603} : Response("INVITE", code, "none") \in NoCancel OBVIOUS
<1>9. Request("CANCEL", "none") \in Cancels OBVIOUS
<1>10. Tame \subseteq NoCancel /\ Provisional \subseteq Tame /\ NoCancel \subseteq Msg
  BY DEF Provisional
<1> QED BY <1>1, <1>2, <1>3, <1>4, <1>5, <1>6, <1>7, <1>8, <1>9, <1>10

\* What an endpoint does without starting an INFO, leaving disorder or opening a server
\* transaction.
Orderly(d, e) == d.info = e.info /\ Tidy(d) /\ (d.server => e.server)

\* Sending is orderly.
LEMMA SendOrderly ==
  ASSUME NEW e \in Endpoint, Tidy(e), e.out = <<>>, NEW m \in Msg
  PROVE  Orderly(Send(e, m), e) /\ Send(e, m).out = <<m>>
<1>1. Twin(Send(e, m), e) /\ Send(e, m).out = Append(e.out, m) BY SendTwin
<1>2. Append(<<>>, m) = <<m>> OBVIOUS
<1> QED BY <1>1, <1>2 DEF Orderly, Tidy, Twin, Beside, Kept, SameSession

\* SalCallOp::callTerminated() on a BYE.
LEMMA ReceiveByeOrderly ==
  ASSUME NEW e \in Endpoint, EndpointInv(e), Grounded(e), Tidy(e), e.out = <<>>,
         NEW d \in Endpoint, EndpointInv(d), d = ReceiveBye(e)
  PROVE  Orderly(d, e) /\ d.out \in Seq(Tame)
<1>1. CASE e.dialog # "Confirmed"
  <2>1. Response("BYE", 481, "none") \in Msg BY TameMessages DEF Tame
  <2>2. d = Send(e, Response("BYE", 481, "none")) BY <1>1 DEF ReceiveBye
  <2>3. Orderly(d, e) /\ d.out = <<Response("BYE", 481, "none")>> BY <2>1, <2>2, SendOrderly
  <2> QED BY <2>3, TameMessages
<1>2. CASE e.dialog = "Confirmed"
  <2>1. d.dialog = "TermConf" /\ d.out = <<Response("BYE", 200, "none")>>
    BY <1>2, ReceiveByeOpen
  <2> DEFINE a == [e EXCEPT !.op = "Terminating", !.dialog = "TermConf"]
             s == Send(a, Response("BYE", 200, "none"))
  <2>2. a \in Endpoint /\ a.info = e.info /\ a.server = e.server
    BY ZenonT(40) DEF Endpoint, OpState, DialogState
  <2> HIDE DEF a
  <2>3. s \in Endpoint /\ s.info = a.info /\ s.server = a.server
    BY <2>2, SendTwin, TameMessages DEF Tame, Twin, Beside, Kept
  <2>4. d = Terminated(s) BY <1>2 DEF ReceiveBye, a
  <2> HIDE DEF s
  <2>5. d.info = s.info /\ d.server = s.server
    BY <2>3, <2>4, FailureSoftly DEF Softly, Apart, Beside, Kept
  <2>6. Tidy(d) BY <2>1, TidySafe
  <2> QED BY <2>1, <2>2, <2>3, <2>5, <2>6, TameMessages DEF Orderly
<1> QED BY <1>1, <1>2

\* processRequestEventCb() on an INFO.
LEMMA ReceiveInfoOrderly ==
  ASSUME NEW e \in Endpoint, Tidy(e), e.out = <<>>
  PROVE  \E c \in {200, 481, 491, 501} :
            ReceiveInfo(e) = Send(e, Response("INFO", c, "none"))
BY DEF ReceiveInfo

\* SalCallOp::callTerminated() on a CANCEL.
LEMMA ReceiveCancelOrderly ==
  ASSUME NEW e \in Endpoint, EndpointInv(e), Tidy(e), e.out = <<>>,
         NEW d \in Endpoint, EndpointInv(d), d = ReceiveCancel(e)
  PROVE  Orderly(d, e) /\ d.out \in Seq(NoCancel)
<1> DEFINE c2 == Response("CANCEL", 200, "none")
           c4 == Response("CANCEL", 481, "none")
           i4 == Response("INVITE", 487, "none")
           ok == Send(e, c2)
           t == [ok EXCEPT !.op = "Terminating"]
<1>1. c2 \in NoCancel /\ c4 \in NoCancel /\ i4 \in NoCancel BY TameMessages
<1> HIDE DEF c2, c4, i4
<1>2. c2 \in Msg /\ c4 \in Msg BY <1>1 DEF NoCancel
<1>3. ok \in Endpoint /\ Twin(ok, e) /\ Orderly(ok, e) /\ ok.out = <<c2>>
  BY <1>2, SendTwin, SendOrderly
<1> HIDE DEF ok
<1>4. t \in Endpoint /\ SameSession(t, ok) /\ Apart(t, ok) BY <1>3, SetOpApart DEF OpState
<1> HIDE DEF t
<1>5. CASE e.dialog \in {"Null", "Early"}
  <2> DEFINE r == Reply(t, 487, "none")
  <2>1. d = Terminated(r) BY <1>5 DEF ReceiveCancel, ok, c2, t
  <2>2. /\ r \in Endpoint /\ r.info = t.info /\ (r.server => t.server)
        /\ r.dialog \in {t.dialog, "TermEarly"}
        /\ r.out = t.out \/ r.out = Append(t.out, i4)
    <3>1. CASE ~t.server
      <4>1. r = t BY <3>1 DEF Reply
      <4> QED BY <1>4, <4>1
    <3>2. CASE t.server
      BY <1>4, <3>2, ReplyFacts DEF Code, i4
    <3> QED BY <3>1, <3>2
  <2> HIDE DEF r
  <2>3. d.info = r.info /\ d.dialog = r.dialog /\ d.server = r.server /\ d.out = r.out
    BY <2>1, <2>2, FailureSoftly DEF Softly, Apart, Beside, Kept
  <2>4. d.dialog \in {"Null", "Early", "TermEarly"}
    BY <1>3, <1>4, <1>5, <2>2, <2>3 DEF Twin, Apart, Beside, Kept
  <2>5. Tidy(d) BY <2>4, TidySafe
  <2>6. t.info = e.info /\ t.server = e.server /\ t.out = <<c2>>
    BY <1>3, <1>4 DEF Twin, Apart, Beside, Kept
  <2>7. Append(<<c2>>, i4) \in Seq(NoCancel) /\ <<c2>> \in Seq(NoCancel) BY <1>1, Short
  <2> QED BY <2>2, <2>3, <2>5, <2>6, <2>7 DEF Orderly
<1>6. CASE e.dialog = "Confirmed" /\ e.server
  <2> DEFINE r == Reply(ok, 487, "none")
  <2>1. d = r BY <1>6 DEF ReceiveCancel, ok, c2
  <2>2. ok.server /\ ok.dialog = "Confirmed" /\ ok.info = e.info
    BY <1>3, <1>6 DEF Twin, Beside, Kept
  <2>3. /\ r.info = ok.info /\ ~r.server /\ r.out = Append(ok.out, i4)
        /\ r.dialog = IF 487 >= 300 /\ ok.dialog \in {"Null", "Early"} THEN "TermEarly"
                      ELSE ok.dialog
    <3>1. ok \in Endpoint /\ ok.server BY <1>3, <2>2
    <3>2. 487 \in Code \ {0} /\ "none" \in Dir \cup {"none"} BY DEF Code
    <3> QED BY <3>1, <3>2, ReplyFacts DEF i4
  <2> HIDE DEF r
  <2>4. Tidy(d) BY <2>1, <2>2, <2>3, TidySafe
  <2>5. Append(<<c2>>, i4) \in Seq(NoCancel) BY <1>1, Short
  <2> QED BY <1>3, <2>1, <2>2, <2>3, <2>4, <2>5 DEF Orderly
<1>7. CASE d = e
  <2>1. <<>> \in Seq(NoCancel) BY <1>1, Short
  <2> QED BY <1>7, <2>1 DEF Orderly
<1>8. CASE d = Send(e, c4)
  <2>1. <<c4>> \in Seq(NoCancel) BY <1>1, Short
  <2> QED BY <1>2, <1>8, <2>1, SendOrderly
<1>9. d = e \/ d = Send(e, c4) \/ e.dialog \in {"Null", "Early"}
      \/ (e.dialog = "Confirmed" /\ e.server)
  BY DEF ReceiveCancel, c4
<1> QED BY <1>5, <1>6, <1>7, <1>8, <1>9

\* A re-INVITE that finds the session over, with a BYE on its way to the peer.
LEMMA ReinviteOver ==
  ASSUME NEW e, Settled(e), Tidy(e), Open(e), e.state \in OverState, NEW m \in Reinvite,
         NEW defer \in BOOLEAN,
         NEW d \in Endpoint, EndpointInv(d), d = ReceiveReinvite(e, m, TRUE, defer)
  PROVE  d.info = e.info /\ Tidy(d) /\ d.out \in Seq(Tame)
<1> USE DEF Settled
<1> DEFINE n == Response("INVITE", 491, "none")
<1>1. n \in Tame BY TameMessages
<1> HIDE DEF n
<1>2. n \in Msg BY <1>1 DEF Tame
<1>3. CASE d = Send(e, n)
  <2>1. Orderly(d, e) /\ d.out = <<n>> BY <1>2, <1>3, SendOrderly
  <2>2. <<n>> \in Seq(Tame) BY <1>1, Short
  <2> QED BY <2>1, <2>2 DEF Orderly
<1>4. CASE d = [e EXCEPT !.server = TRUE]
  <2>1. d.info = e.info /\ d.out = <<>> /\ d.dialog = e.dialog BY <1>4 DEF Endpoint
  <2>2. Tidy(d) BY <2>1, TidySafe DEF Open
  <2>3. <<>> \in Seq(Tame) BY <1>1, Short
  <2> QED BY <2>1, <2>2, <2>3
<1>5. CASE e.op \notin {"Terminating", "Terminated"}
           /\ d = Updating([e EXCEPT !.server = TRUE, !.remote = m.dir], TRUE, defer)
  <2> DEFINE r == [e EXCEPT !.server = TRUE, !.remote = m.dir]
  <2>1. m.dir \in Dir BY DEF Reinvite, Msg
  <2>2. /\ r \in Endpoint /\ r.info = e.info /\ r.out = <<>> /\ r.dialog = e.dialog
        /\ r.state = e.state /\ r.attached = e.attached
    BY <2>1 DEF Endpoint
  <2> HIDE DEF r
  <2>3. e.state = "Error" BY <1>5 DEF Open, OverState
  <2>4. Updated(r, defer) = r BY <2>2, <2>3 DEF Updated, TransientState
  <2>5. d = r BY <1>5, <2>2, <2>3, <2>4 DEF Updating, r
  <2>6. Tidy(d) BY <2>2, <2>5, TidySafe DEF Open
  <2>7. <<>> \in Seq(Tame) BY <1>1, Short
  <2> QED BY <2>2, <2>5, <2>6, <2>7
<1> QED BY <1>3, <1>4, <1>5, ZenonT(40) DEF ReceiveReinvite, n

\* What becomes of an established session that takes a re-INVITE offering o.
TakesOffer(d, e, o) ==
  /\ d.state \in EstablishedState /\ Calm(d) /\ Lingers(d, e)
  /\ \/ /\ e.client # "none" \/ e.server
        /\ Steady(d, e) /\ d.out = <<Response("INVITE", 491, "none")>>
     \/ e.client = "none" /\ ~e.server /\ (Answers(d, e, o) \/ Defers(d, e, o))

\* A re-INVITE that finds the session established.
LEMMA ReinviteInCall ==
  ASSUME NEW e, Settled(e), Calm(e), e.state \in EstablishedState, NEW m \in Reinvite,
         NEW defer \in BOOLEAN,
         NEW d \in Endpoint, EndpointInv(d), d = ReceiveReinvite(e, m, TRUE, defer)
  PROVE  TakesOffer(d, e, m.dir)
<1>1. m \in Msg /\ m.dir \in Dir BY DEF Reinvite, Msg
<1>11. e \in Endpoint /\ EndpointInv(e) /\ e.out = <<>> BY DEF Settled
<1>12. Meets(d, e, m.dir) BY <1>1, <1>11, ReinviteServes
<1> DEFINE n == Response("INVITE", 491, "none")
<1>2. \/ (e.client # "none" \/ e.server) /\ d = Send(e, n)
      \/ e.client = "none" /\ ~e.server /\ Serves(d, e, m.dir)
  BY <1>12 DEF Meets
<1> USE DEF Settled
<1>21. n \in Msg BY TameMessages DEF Tame
<1> HIDE DEF n
<1>3. CASE (e.client # "none" \/ e.server) /\ d = Send(e, n)
  <2>2. Twin(d, e) /\ d.out = Append(e.out, n) BY <1>3, <1>21, SendTwin
  <2>1. Append(<<>>, n) = <<n>> BY <1>21, Short
  <2>3. d.out = <<n>> BY <2>1, <2>2
  <2>4. d.result = e.result BY <1>3 DEF Send, Endpoint
  <2>5. Steady(d, e) BY <2>2, <2>4 DEF Steady, Twin, Beside, Kept
  <2>6. d.state \in EstablishedState /\ Calm(d) /\ Lingers(d, e)
    BY <2>2 DEF Calm, Lingers, Twin, Beside, Kept, SameSession
  <2> QED BY <1>3, <2>3, <2>5, <2>6 DEF n, TakesOffer
<1>4. CASE e.client = "none" /\ ~e.server /\ Serves(d, e, m.dir)
  BY <1>4 DEF Serves, Lingers, TakesOffer
<1> QED BY <1>2, <1>3, <1>4

\* What is heard is taken in good order, but for a CANCEL and the INVITE that starts the
\* call.
HearsWell(d, e) ==
  /\ d.info = "none" /\ Tidy(d)
  /\ e.dialog # "Confirmed" /\ d.server => e.server
  /\ \/ d.out \in Seq(Tame)
     \/ /\ d.out = <<Request("CANCEL", "none")>>
        /\ e.op = "Terminating" /\ e.dialog \in {"None", "Null", "Early"}

\* See HearsWell.
LEMMA HearsOrderly ==
  ASSUME NEW e, Settled(e), Tidy(e), Calm(e), e.dialog = "Confirmed" => Open(e), ~Unknown(e),
         NEW m \in NoCancel, NEW d \in Endpoint, EndpointInv(d), Hears(d, e, m)
  PROVE  HearsWell(d, e)
<1> USE DEF Settled
<1>1. m \in Msg /\ ~(m.method = "CANCEL" /\ m.code = 0) BY DEF NoCancel, Cancels
<1>2. e.info = "none" BY DEF Calm
<1>3. ASSUME NEW n \in Tame, d = Send(e, n)
      PROVE  HearsWell(d, e)
  <2>1. n \in Msg BY DEF Tame
  <2>2. Orderly(d, e) /\ d.out = <<n>> BY <1>3, <2>1, SendOrderly
  <2>3. <<n>> \in Seq(Tame) BY Short
  <2> QED BY <1>2, <2>2, <2>3 DEF Orderly, HearsWell
<1>4. CASE e.dialog = "Confirmed" /\ m \in Reinvite
           /\ \E y \in BOOLEAN : d = ReceiveReinvite(e, m, TRUE, y)
  <2>1. PICK y \in BOOLEAN : d = ReceiveReinvite(e, m, TRUE, y) BY <1>4
  <2>2. e.state \in EstablishedState \/ e.state \in OverState BY <1>4, OpenFacts
  <2>3. CASE e.state \in OverState BY <1>2, <1>4, <2>1, <2>3, ReinviteOver DEF HearsWell
  <2>4. CASE e.state \in EstablishedState
    <3>0. TakesOffer(d, e, m.dir) BY <1>4, <2>1, <2>4, ReinviteInCall
    <3>1. /\ d.state \in EstablishedState /\ Calm(d)
          /\ \/ d.out = <<Response("INVITE", 491, "none")>>
             \/ Answers(d, e, m.dir) \/ Defers(d, e, m.dir)
      BY <3>0, Zenon DEF TakesOffer
    <3>2. Tidy(d) BY <3>1, TidySafe DEF EstablishedState
    <3>3. d.result \in Dir BY DEF Endpoint
    <3>4. /\ <<Response("INVITE", 491, "none")>> \in Seq(Tame) /\ <<>> \in Seq(Tame)
          /\ <<Response("INVITE", 200, d.result)>> \in Seq(Tame)
      BY <3>3, TameMessages, Short
    <3>5. d.out \in Seq(Tame) BY <3>1, <3>4, ZenonT(40) DEF Answers, Defers
    <3> QED BY <1>4, <3>1, <3>2, <3>5 DEF HearsWell, Calm
  <2> QED BY <2>2, <2>3, <2>4
<1>5. CASE d = Send(e, Response("INVITE", 481, "none")) BY <1>3, <1>5, TameMessages
<1>6. CASE d = ReceiveBye(e)
  BY <1>2, <1>6, ReceiveByeOrderly DEF Orderly, HearsWell
<1>7. CASE d = ReceiveInfo(e)
  BY <1>3, <1>7, ReceiveInfoOrderly, TameMessages
<1>8. CASE m.code # 0 /\ d = ProcessResponse(e, m, TRUE)
  <2>1. Reports(d, e) /\ Tidy(d) BY <1>1, <1>2, <1>8, ResponseTidy
  <2>2. <<>> \in Seq(Tame) /\ <<Request("BYE", "none")>> \in Seq(Tame) BY TameMessages, Short
  <2> QED BY <1>2, <2>1, <2>2 DEF Reports, HearsWell
<1>9. m.method = "INVITE" /\ m.code = 0 => m \in Reinvite BY <1>1 DEF Reinvite
<1> QED BY <1>1, <1>4, <1>5, <1>6, <1>7, <1>8, <1>9 DEF Hears

\* What an endpoint that does not ring sends of itself: tame messages, or the CANCEL of
\* a caller that gives up.
Utters(d, e) ==
  /\ d.server => e.server
  /\ \/ d.out \in Seq(Tame)
     \/ d.out = <<Request("CANCEL", "none")>> /\ d.state \in OverState /\ ~e.incoming

\* SalCallOp::terminate() of a session that does not ring.
LEMMA OpTerminateUtters ==
  ASSUME NEW e, Settled(e), e.state \notin OverState \cup {"Idle", "IncomingReceived"}
  PROVE  LET d == OpTerminate(e)
         IN  /\ d \in Endpoint /\ d.state = e.state /\ d.server = e.server
             /\ \/ d.out = <<>> \/ d.out = <<Request("BYE", "none")>>
                \/ d.out = <<Request("CANCEL", "none")>> /\ ~e.incoming
<1> USE DEF Settled
<1>1. e.attached BY DEF EndpointInv, SessionInv, OverState
<1>2. e.incoming => e.dialog \notin {"None", "Null", "Early"}
  BY <1>1 DEF EndpointInv, OverInv, Grounded, EarlyState, OverState
<1>3. CASE OpTerminate(e) = e BY <1>3
<1>4. CASE OpTerminate(e) = [SendBye(e) EXCEPT !.op = "Terminating"]
  <2> DEFINE b == SendBye(e)
             d == [b EXCEPT !.op = "Terminating"]
  <2>1. /\ b \in Endpoint /\ SameSession(b, e) /\ b.server = e.server
        /\ b.out = Append(e.out, Request("BYE", "none"))
    BY SendByeFacts
  <2> HIDE DEF b
  <2>2. d \in Endpoint /\ SameSession(d, b) /\ d.server = b.server /\ d.out = b.out
    BY <2>1, SetOpApart DEF Apart, Beside, Kept, OpState
  <2> HIDE DEF d
  <2>3. Append(<<>>, Request("BYE", "none")) = <<Request("BYE", "none")>> OBVIOUS
  <2>4. d.out = <<Request("BYE", "none")>> BY <2>1, <2>2, <2>3
  <2>5. d.state = e.state /\ d.server = e.server BY <2>1, <2>2 DEF SameSession
  <2> QED BY <1>4, <2>2, <2>4, <2>5 DEF d, b
<1>5. CASE OpTerminate(e) = CancellingInvite(e) /\ ~e.incoming
  <2> DEFINE b == CancellingInvite(e)
  <2>1. /\ SameSession(b, e) /\ b.server = e.server
        /\ b.out \in {e.out, Append(e.out, Request("CANCEL", "none"))}
    BY CancellingQuiet
  <2>2. OpTerminate(e) \in Endpoint BY OpTerminateType
  <2> HIDE DEF b
  <2>3. Append(<<>>, Request("CANCEL", "none")) = <<Request("CANCEL", "none")>> OBVIOUS
  <2>4. b.out = <<>> \/ b.out = <<Request("CANCEL", "none")>> BY <2>1, <2>3
  <2>5. b.state = e.state BY <2>1 DEF SameSession
  <2> QED BY <1>5, <2>1, <2>2, <2>4, <2>5 DEF b
<1>6. CASE OpTerminate(e) = [e EXCEPT !.op = "Terminating"]
  <2>1. /\ [e EXCEPT !.op = "Terminating"] \in Endpoint
        /\ SameSession([e EXCEPT !.op = "Terminating"], e)
        /\ Apart([e EXCEPT !.op = "Terminating"], e)
    BY SetOpApart DEF OpState
  <2> QED BY <1>6, <2>1 DEF SameSession, Apart, Beside, Kept
<1>7. \/ OpTerminate(e) = e
      \/ OpTerminate(e) = [SendBye(e) EXCEPT !.op = "Terminating"]
      \/ OpTerminate(e) = CancellingInvite(e) /\ ~e.incoming
      \/ OpTerminate(e) = [e EXCEPT !.op = "Terminating"]
  BY <1>2 DEF OpTerminate
<1> QED BY <1>3, <1>4, <1>5, <1>6, <1>7

\* CallSession::terminate() of such a session.
LEMMA TerminateUtters ==
  ASSUME NEW e, Settled(e), e.state \notin OverState \cup {"Idle", "IncomingReceived"},
         NEW d, d = Terminate(e)
  PROVE  Utters(d, e) /\ d.state \in OverState
<1> USE DEF Settled
<1>1. <<>> \in Seq(Tame) /\ <<Request("BYE", "none")>> \in Seq(Tame) BY TameMessages, Short
<1>2. \E p \in Endpoint :
         /\ d = TerminateSession(p) /\ p.state = e.state /\ p.server = e.server
         /\ \/ p.out = <<>> \/ p.out = <<Request("BYE", "none")>>
            \/ p.out = <<Request("CANCEL", "none")>> /\ ~e.incoming
  <2>1. CASE e.state = "OutgoingInit"
    <3>1. d = TerminateSession(OpRelease(e)) BY <2>1 DEF Terminate
    <3>2. /\ OpRelease(e) \in Endpoint /\ OpRelease(e).state = e.state
          /\ OpRelease(e).server = e.server /\ OpRelease(e).out = <<>>
      BY ZenonT(40) DEF OpRelease, Endpoint, OpState
    <3> QED BY <3>1, <3>2
  <2>2. CASE e.state # "OutgoingInit"
    <3>1. d = TerminateSession(OpTerminate(e)) BY <2>2 DEF Terminate
    <3> QED BY <3>1, OpTerminateUtters
  <2> QED BY <2>1, <2>2
<1>3. PICK p \in Endpoint :
         /\ d = TerminateSession(p) /\ p.state = e.state /\ p.server = e.server
         /\ \/ p.out = <<>> \/ p.out = <<Request("BYE", "none")>>
            \/ p.out = <<Request("CANCEL", "none")>> /\ ~e.incoming
  BY <1>2
<1>4. Apart(d, p) /\ d.state \in OverState BY <1>3, TerminateSessionFacts DEF OverState
<1>5. d.out = p.out /\ d.server = p.server BY <1>4 DEF Apart, Beside, Kept
<1> QED BY <1>1, <1>3, <1>4, <1>5 DEF Utters

\* See Utters.
LEMMA DoesUtters ==
  ASSUME NEW e, Settled(e), Calm(e), e.state # "IncomingReceived",
         NEW d \in Endpoint, Does(d, e)
  PROVE  Utters(d, e)
<1> USE DEF Settled
<1>1. <<>> \in Seq(Tame) /\ \A x \in Dir : <<Request("INVITE", x)>> \in Seq(Tame)
  BY TameMessages, Short DEF Dir
<1>2. CASE Apart(d, e) BY <1>1, <1>2 DEF Utters, Apart, Beside, Kept
<1>3. ASSUME NEW a \in Endpoint, ~a.incoming, a.state = "OutgoingInit", a.out = <<>>,
             a.server = e.server, d = StartInvite(a)
      PROVE  Utters(d, e)
  <2>1. d.out = <<Request("INVITE", "sendrecv")>> BY <1>3, StartInviteCourse
  <2>2. LocalDir(a) \in Dir /\ "OutgoingProgress" \in CallState BY DirType DEF CallState
  <2>3. SendInvite(a, LocalDir(a)) \in Endpoint /\ SendInvite(a, LocalDir(a)).server = a.server
    BY <2>2, SendInviteFacts DEF Kept
  <2>4. d.server = a.server
    BY <1>3, <2>2, <2>3, SetStateApart DEF StartInvite, Apart, Beside, Kept
  <2>5. "sendrecv" \in Dir BY DEF Dir
  <2> QED BY <1>1, <1>3, <2>1, <2>4, <2>5 DEF Utters
<1>4. CASE e.state = "Idle" /\ ~e.incoming /\ ~e.attached
           /\ d \in {InitiateOutgoing(e), StartInvite(InitiateOutgoing(e))}
  <2>1. /\ Course(InitiateOutgoing(e), e) /\ InitiateOutgoing(e) \in Endpoint
        /\ Apart(InitiateOutgoing(e), e) /\ InitiateOutgoing(e).state = "OutgoingInit"
    BY <1>4, InitiateOutgoingCourse
  <2>2. /\ ~InitiateOutgoing(e).incoming /\ InitiateOutgoing(e).out = <<>>
        /\ InitiateOutgoing(e).server = e.server
    BY <1>4, <2>1 DEF Course, Apart, Beside, Kept
  <2> QED BY <1>2, <1>3, <1>4, <2>1, <2>2
<1>5. CASE e.state = "OutgoingInit" /\ d = StartInvite(e)
  <2>1. ~e.incoming BY <1>5 DEF Grounded
  <2> QED BY <1>3, <1>5, <2>1
<1>6. CASE e.state \notin OverState \cup {"Idle"} /\ d = Terminate(e)
  BY <1>6, TerminateUtters
<1>7. CASE Renews(d, e)
  <2>1. Renewed(d, e) BY <1>7, RenewsRenewed
  <2>2. d.server = e.server /\ (d.out = <<>> \/ \E x \in Dir : d.out = <<Request("INVITE", x)>>)
    BY <2>1 DEF Renewed, Kept
  <2> QED BY <1>1, <2>2 DEF Utters
<1>8. CASE e.state = "UpdatedByRemote" /\ d = AcceptUpdateAsked(e)
  <2>1. Answers(d, e, e.remote) \/ (d.out = <<>> /\ Steady(d, e)) BY <1>8, AcceptDeferred
  <2>2. d.result \in Dir BY DEF Endpoint
  <2>3. <<Response("INVITE", 200, d.result)>> \in Seq(Tame) BY <2>2, TameMessages, Short
  <2> QED BY <1>1, <2>1, <2>3 DEF Answers, Steady, Utters
<1>9. CASE e.dialog \in {"TermEarly", "TermConf"} /\ d = ProcessDialogTerminated(e)
  <2>1. d.out = <<>> BY <1>9, DialogTerminatedFacts
  <2>2. \E t \in Endpoint : t.server = e.server /\ d.server = t.server
    <3> DEFINE F(t, o) == [t EXCEPT !.op = o, !.releaseLater = TRUE, !.dialog = "Terminated"]
    <3>1. \E t \in {e, Failure(e, 0), Terminated(e)} : \E o : d = F(t, o)
      BY <1>9 DEF ProcessDialogTerminated
    <3>2. PICK t \in {e, Failure(e, 0), Terminated(e)} : \E o : d = F(t, o) BY <3>1
    <3>3. t \in Endpoint BY <3>2, FailureType, RingingTerminatedType
    <3>4. t.server = e.server BY <3>2, FailureSoftly DEF Softly, Apart, Beside, Kept
    <3>5. d.server = t.server BY <3>2, <3>3 DEF Endpoint
    <3> QED BY <3>3, <3>4, <3>5
  <2> QED BY <1>1, <2>1, <2>2 DEF Utters
<1>10. CASE e.releaseLater /\ d = SetCallAsReleased(e)
  <2>1. d.out = <<>> BY <1>10, SetCallAsReleasedFacts
  <2> DEFINE r == [e EXCEPT !.releaseLater = FALSE]
  <2>2. r \in Endpoint /\ r.server = e.server BY DEF Endpoint
  <2>3. d = SetOpReleased(r) BY <1>10 DEF SetCallAsReleased
  <2> HIDE DEF r
  <2>4. d.server = e.server BY <2>2, <2>3, SetOpReleasedServer
  <2> QED BY <1>1, <2>1, <2>4 DEF Utters
<1> QED BY <1>4, <1>5, <1>6, <1>7, <1>8, <1>9, <1>10 DEF Does

(***************************************************************************)
(* The steps of an established session.                                    *)
(***************************************************************************)

\* The messages that are neither an offer in the dialog nor a final answer to one.
Other == Msg \ (Reinvite \cup Final)

\* The session stays established and in good order.
Abides(d, e) == d.state \in EstablishedState /\ Calm(d) /\ Lingers(d, e)

\* What it does of itself: end, ask or answer an update it had deferred.
Initiates(d, e) ==
  \/ d.state \in OverState
  \/ /\ Abides(d, e)
     /\ \/ d.out = <<>> /\ Steady(d, e)
        \/ Offers(d, e)
        \/ e.server /\ Answers(d, e, e.remote)

\* See Initiates.
LEMMA DoesInitiates ==
  ASSUME NEW e, Settled(e), Calm(e), e.state \in EstablishedState, NEW d, Does(d, e)
  PROVE  Initiates(d, e)
<1> USE DEF Settled
<1>1. e.state \notin OverState \cup EarlyState /\ e.state # "Idle"
  BY DEF EstablishedState, OverState, EarlyState
<1>2. e.dialog = "Confirmed" /\ ~e.releaseLater
  <2>1. e.dialog = "Confirmed" /\ e.op \in {"Early", "Active"} BY CalmFacts
  <2> QED BY <2>1 DEF EndpointInv, OverInv
<1>3. CASE d = Terminate(e)
  BY <1>1, <1>3, TerminateUtters DEF Initiates, EarlyState
<1>4. CASE Renews(d, e)
  <2>1. Proceeds(d, e)
    BY <1>4, PauseProceeds, UpdateProceeds, ResumeAskedProceeds,
       ExecutePendingActionsProceeds, RunRetryFuncProceeds DEF Renews
  <2> QED BY <2>1 DEF Proceeds, Initiates, Abides
<1>5. CASE e.state = "UpdatedByRemote" /\ d = AcceptUpdateAsked(e)
  <2>1. /\ d.state \in EstablishedState /\ Calm(d) /\ d.state # "UpdatedByRemote"
        /\ IF e.server THEN Answers(d, e, e.remote) ELSE d.out = <<>> /\ Steady(d, e)
    BY <1>5, AcceptDeferred
  <2> QED BY <2>1 DEF Initiates, Abides, Lingers
<1> QED BY <1>1, <1>2, <1>3, <1>4, <1>5 DEF Does, EarlyState

\* What it agreed upon is untouched, and a request of its own stays open.
Unmoved(d, e) ==
  /\ d.client = "none" <=> e.client = "none"
  /\ d.server = e.server /\ d.offer = e.offer /\ d.remote = e.remote /\ d.result = e.result

\* What it makes of a message: it ends; or refuses an offer, answers or defers it; or
\* takes down the answer to its own; or nothing changes.
Responds(d, e, m) ==
  \/ d.state \in OverState
  \/ /\ Abides(d, e)
     /\ \/ /\ m \in Reinvite /\ (e.client # "none" \/ e.server)
           /\ Steady(d, e) /\ d.out = <<Response("INVITE", 491, "none")>>
        \/ /\ m \in Reinvite /\ e.client = "none" /\ ~e.server
           /\ Answers(d, e, m.dir) \/ Defers(d, e, m.dir)
        \/ m \notin Reinvite /\ Notes(d, e, m)
        \/ m \in Other /\ Unmoved(d, e) /\ d.out \in Seq(Other)

\* The answer to an INFO is such another message.
LEMMA InfoOther ==
  ASSUME NEW c \in {200, 481, 491, 501}
  PROVE  Response("INFO", c, "none") \in Other
BY DEF Other, Msg, Method, Code, Reinvite, Final, Response

\* See Responds.
LEMMA HearsResponds ==
  ASSUME NEW e, Settled(e), Calm(e), e.state \in EstablishedState,
         NEW m \in Plain \cap Tame, NEW d \in Endpoint, EndpointInv(d), Hears(d, e, m)
  PROVE  Responds(d, e, m)
<1> USE DEF Settled
<1>1. e.dialog = "Confirmed" /\ ~Unknown(e) BY CalmFacts DEF Unknown
<1>2. m \in Msg /\ m.method # "CANCEL" BY DEF Tame
<1>3. CASE m.method = "INVITE" /\ m.code = 0
  <2>1. m \in Reinvite BY <1>2, <1>3 DEF Reinvite
  <2>2. \E y \in BOOLEAN : d = ReceiveReinvite(e, m, TRUE, y) BY <1>1, <1>3 DEF Hears
  <2>3. TakesOffer(d, e, m.dir) BY <2>1, <2>2, ReinviteInCall
  <2> QED BY <2>1, <2>3 DEF Responds, Abides, TakesOffer
<1>4. CASE m.method = "BYE" /\ m.code = 0
  <2>1. d = ReceiveBye(e) BY <1>4 DEF Hears
  <2>2. d.state \in OverState BY <1>1, <2>1, ReceiveByeOpen DEF EstablishedState
  <2> QED BY <2>2 DEF Responds
<1>5. CASE m.method = "INFO" /\ m.code = 0
  <2>1. d = ReceiveInfo(e) BY <1>5 DEF Hears
  <2>2. PICK c \in {200, 481, 491, 501} : d = Send(e, Response("INFO", c, "none"))
    BY <2>1 DEF ReceiveInfo
  <2> DEFINE n == Response("INFO", c, "none")
  <2>3. n \in Other BY InfoOther
  <2>4. d = Send(e, n) BY <2>2
  <2> HIDE DEF n
  <2>5. n \in Msg BY <2>3 DEF Other
  <2>6. Twin(d, e) /\ d.out = Append(e.out, n) BY <2>4, <2>5, SendTwin
  <2>7. Append(<<>>, n) = <<n>> BY <2>5, Short
  <2>8. d.out \in Seq(Other) BY <2>3, <2>6, <2>7, Short
  <2>9. d.result = e.result BY <2>4 DEF Send, Endpoint
  <2>10. Unmoved(d, e) BY <2>6, <2>9 DEF Unmoved, Twin, Beside, Kept
  <2>11. Abides(d, e) BY <2>6 DEF Abides, Calm, Lingers, Twin, Beside, Kept, SameSession
  <2>12. m \in Other BY <1>2, <1>5 DEF Other, Reinvite, Final
  <2> QED BY <2>8, <2>10, <2>11, <2>12 DEF Responds
<1>6. CASE m.code # 0
  <2>1. d = ProcessResponse(e, m, TRUE) BY <1>6 DEF Hears
  <2>2. m \in Expected
    <3>1. ~(m.method = "INVITE" /\ m.code = 481) BY DEF Plain
    <3>2. m.method = "INVITE" => m.code \in {100, 180, 200, 491} BY <1>6, <3>1 DEF Tame
    <3> QED BY <1>2, <1>6, <3>2 DEF Expected
  <2>3. m \notin Reinvite BY <1>6 DEF Reinvite
  <2>4. d.state \in EstablishedState /\ Calm(d) /\ Lingers(d, e) /\ Notes(d, e, m)
    BY <2>1, <2>2, ResponseNotes
  <2> QED BY <2>3, <2>4 DEF Responds, Abides
<1> QED BY <1>2, <1>3, <1>4, <1>5, <1>6 DEF Hears

\* A CANCEL that comes after the answer closes at most a server transaction.
LEMMA CancelInCall ==
  ASSUME NEW e, Settled(e), Calm(e), e.state \in EstablishedState, NEW m \in Cancels,
         NEW d \in Endpoint, Hears(d, e, m)
  PROVE  d.state = e.state /\ Calm(d)
<1> USE DEF Settled
<1>1. e.dialog = "Confirmed" BY CalmFacts
<1>2. d = ReceiveCancel(e) BY DEF Hears, Cancels
<1> DEFINE n == Response("CANCEL", 200, "none")
           l == Response("CANCEL", 481, "none")
           ok == Send(e, n)
<1>3. n \in Msg /\ l \in Msg BY TameMessages DEF NoCancel
<1>4. d = Reply(ok, 487, "none") \/ d = Send(e, l) BY <1>1, <1>2 DEF ReceiveCancel
<1> HIDE DEF n, l
<1>5. CASE d = Send(e, l)
  BY <1>3, <1>5, SendTwin DEF Calm, Twin, Beside, Kept, SameSession
<1>6. CASE d = Reply(ok, 487, "none")
  <2>1. ok \in Endpoint /\ Twin(ok, e) BY <1>3, SendTwin
  <2> HIDE DEF ok
  <2>2. ok.state = e.state /\ Calm(ok)
    BY <2>1 DEF Calm, Twin, Beside, Kept, SameSession
  <2>3. CASE ~ok.server BY <1>6, <2>2, <2>3 DEF Reply
  <2>4. CASE ok.server
    <3> DEFINE t == IF 487 >= 300 /\ ok.dialog \in {"Null", "Early"} THEN "TermEarly"
                    ELSE ok.dialog
               b == [ok EXCEPT !.server = FALSE, !.dialog = t]
    <3>0. t \in DialogState BY <2>1, FieldTypes DEF DialogState
    <3>1. d = Send(b, Response("INVITE", 487, "none")) BY <1>6, <2>4 DEF Reply
    <3>2. b \in Endpoint /\ SameSession(b, ok) /\ ~b.server /\ b.info = ok.info
          /\ b.client = ok.client /\ b.retry = ok.retry /\ b.timers = ok.timers
      <4> HIDE DEF t
      <4>1. b \in Endpoint BY <2>1, <3>0 DEF Endpoint
      <4>2. SameSession(b, ok) BY <2>1, <4>1 DEF Endpoint, SameSession
      <4>3. ~b.server /\ b.info = ok.info /\ b.client = ok.client /\ b.retry = ok.retry
            /\ b.timers = ok.timers
        BY <2>1 DEF Endpoint
      <4> QED BY <4>1, <4>2, <4>3
    <3> HIDE DEF b
    <3>3. Response("INVITE", 487, "none") \in Msg BY TameMessages DEF NoCancel
    <3>4. Twin(d, b) BY <3>1, <3>2, <3>3, SendTwin
    <3> QED BY <2>2, <3>2, <3>4 DEF Calm, Twin, Beside, Kept, SameSession
  <2> QED BY <2>3, <2>4
<1> QED BY <1>4, <1>5, <1>6

(***************************************************************************)
(* How a session gets established.                                         *)
(***************************************************************************)

\* A session that has just been established, both ways and with nothing open.
Begun(d) ==
  /\ d.state = "StreamsRunning" /\ d.client = "none" /\ ~d.server /\ d.result = "sendrecv"

\* Outside of an established call there is nothing to renegotiate.
LEMMA CalmOutside ==
  ASSUME NEW d, d.info = "none", d.state \notin EstablishedState \/ Begun(d)
  PROVE  Calm(d)
BY DEF Calm, Begun, TransientState, EstablishedState

\* The callee accepts.
LEMMA StartAcceptBegun ==
  ASSUME NEW e, Settled(e), e.state = "IncomingReceived", e.remote = "sendrecv",
         NEW d, d = StartAccept(e)
  PROVE  Begun(d)
<1> USE DEF Settled
<1>1. e.server /\ e.client = "none"
  BY DEF EndpointInv, FreshInv, RequestInv, OverState, TransientState
<1> DEFINE a == OpAccept(e)
           b == SetState(a, "Connected")
<1>2. a \in Endpoint /\ SameSession(a, e) /\ ~a.server /\ a.client = e.client
  BY <1>1, OpAcceptFacts
<1>3. a.result = ComputeDirIncoming(LocalDir(e), e.remote) BY <1>1, OpAcceptResult
<1>4. ComputeDirIncoming(LocalDir(e), e.remote) = "sendrecv"
  BY DEF LocalDir, ComputeDirIncoming
<1>5. d = SetState(b, "StreamsRunning") BY DEF StartAccept
<1> HIDE DEF a
<1>6. a.state = "IncomingReceived" BY <1>2 DEF SameSession
<1>7. /\ "Connected" \in CallState \ {"Released"} /\ "StreamsRunning" \in CallState \ {"Released"}
      /\ ~BadTransition(a.state, "Connected") /\ ~BadTransition("Connected", "StreamsRunning")
  BY <1>6 DEF CallState, BadTransition
<1>8. b \in Endpoint /\ Apart(b, a) /\ b.state = "Connected" /\ b.result = a.result
  BY <1>2, <1>7, SetStateTo, SetStateResult
<1> HIDE DEF b
<1>9. Apart(d, b) /\ d.state = "StreamsRunning" /\ d.result = b.result
  BY <1>5, <1>7, <1>8, SetStateTo, SetStateResult
<1> QED BY <1>1, <1>2, <1>3, <1>4, <1>8, <1>9 DEF Begun, Apart, Beside, Kept

\* The caller hears that it was accepted.
LEMMA AnsweredBegun ==
  ASSUME NEW e, Settled(e), Pending(e), e.state \notin OverState, ~e.server,
         NEW d, d = ProcessResponse(e, Answered, TRUE)
  PROVE  Begun(d) /\ d.out = <<>>
<1> USE DEF Settled
<1> DEFINE m == Answered
           h == Heard(e, m)
           c == SetState(h, "Connected")
           r == [c EXCEPT !.result = "sendrecv"]
           s == SetState(r, "StreamsRunning")
<1>1. /\ m \in Msg /\ m.method = "INVITE" /\ m.code = 200 /\ m.dir = "sendrecv"
      /\ m.code # 0 /\ m.code >= 200 /\ ~(m.code >= 300)
  BY DEF Answered, Response, Msg, Method, Code, Dir
<1>19. d = ProcessResponse(e, m, TRUE) OBVIOUS
<1> HIDE DEF m
<1>2. Matched(e, m) BY <1>1 DEF Matched, Pending
<1>21. /\ h \in Endpoint /\ SameSession(h, e) /\ h.op = e.op /\ h.out = <<>>
       /\ h.offer = e.offer /\ h.client = IF m.code >= 200 THEN "none" ELSE "proceeding"
       /\ h.dialog = "Confirmed"
  <2>1. /\ e \in Endpoint /\ EndpointInv(e) /\ Grounded(e) /\ e.out = <<>>
        /\ m.method \in {"INVITE", "CANCEL"}
    BY <1>1
  <2> HIDE DEF Settled, h
  <2>2. /\ h \in Endpoint /\ SameSession(h, e) /\ h.op = e.op /\ h.out = <<>>
        /\ h.offer = e.offer
        /\ m.method = "INVITE" =>
             /\ h.client = IF m.code >= 200 THEN "none" ELSE "proceeding"
             /\ m.code = 200 => h.dialog = "Confirmed"
    BY <1>1, <1>19, <2>1, PendingHeard, SMTT(40) DEF h
  <2> QED BY <1>1, <2>2
<1>22. h.server = e.server /\ ProcessResponse(e, m, TRUE) = ConfirmedResponse(h, m, TRUE)
  <2> DEFINE x == StackResponse(e, m)
  <2>1. Trimmed(h, x) BY <1>1, <1>2, HeardFacts
  <2>2. x.server = e.server BY <1>1, <1>2, StackFacts
  <2>3. h.dialog = x.dialog /\ h.op = x.op /\ h.server = x.server BY <2>1 DEF Trimmed, Kept
  <2>4. x.dialog = "Confirmed" /\ x.op # "Terminated" BY <1>21, <2>3 DEF Pending
  <2>5. ProcessResponse(e, m, TRUE) = ConfirmedResponse(h, m, TRUE)
    BY <1>2, <2>4 DEF ProcessResponse, Heard
  <2> QED BY <2>2, <2>3, <2>5
<1>4. /\ e.attached /\ e.state \in {"OutgoingProgress", "OutgoingRinging"}
      /\ e.op \in {"Early", "Active"} /\ e.offer = "sendrecv"
  BY PendingFacts
<1> HIDE DEF h
<1>5. /\ h.attached /\ h.state \in {"OutgoingProgress", "OutgoingRinging"}
      /\ h.op \in {"Early", "Active"} /\ h.offer = "sendrecv"
  BY <1>21, <1>4 DEF SameSession
<1>6. /\ "Connected" \in CallState \ {"Released"} /\ "StreamsRunning" \in CallState \ {"Released"}
      /\ ~BadTransition(h.state, "Connected") /\ ~BadTransition("Connected", "StreamsRunning")
  BY <1>5 DEF CallState, BadTransition
<1>7. c \in Endpoint /\ Apart(c, h) /\ c.state = "Connected" BY <1>21, <1>6, SetStateTo
<1>8. ComputeDirOutgoing(c.offer, m.dir) = "sendrecv"
  BY <1>1, <1>5, <1>7 DEF ComputeDirOutgoing, Apart, Beside
<1>9. AcceptedNextState(c, "sendrecv") = "StreamsRunning" BY <1>7 DEF AcceptedNextState
<1>10. Accepted(h, m.dir, TRUE) = s BY <1>5, <1>8, <1>9 DEF Accepted
<1>11. ConfirmedResponse(h, m, TRUE) = [Accepted(h, m.dir, TRUE) EXCEPT !.op = "Active"]
  <2>1. h.op # "Terminating" BY <1>5
  <2> QED BY <1>1, <1>5, <2>1 DEF ConfirmedResponse
<1> HIDE DEF c
<1>12. /\ r \in Endpoint /\ r.state = "Connected" /\ r.result = "sendrecv"
       /\ r.client = c.client /\ r.server = c.server /\ r.out = c.out
  BY <1>7 DEF Endpoint, Dir
<1> HIDE DEF r
<1>13. s \in Endpoint /\ Apart(s, r) /\ s.state = "StreamsRunning" /\ s.result = r.result
  BY <1>6, <1>12, SetStateTo, SetStateResult
<1> HIDE DEF s
<1> DEFINE f == [s EXCEPT !.op = "Active"]
<1>14. f.state = s.state /\ f.result = s.result /\ f.client = s.client /\ f.server = s.server
       /\ f.out = s.out
  BY <1>13 DEF Endpoint
<1>15. d = f BY <1>22, <1>10, <1>11 DEF m, s
<1> HIDE DEF f
<1>16. s.client = "none" /\ ~s.server /\ s.out = <<>>
  BY <1>1, <1>21, <1>22, <1>7, <1>12, <1>13 DEF Apart, Beside, Kept
<1> QED BY <1>12, <1>13, <1>14, <1>15, <1>16 DEF Begun

\* Where the caller may be, and what may arrive there.
CallerPlace(c, k, x) ==
  \/ Starting(c) /\ x = <<>>
  \/ /\ Pending(c)
     /\ x # <<>> => \/ Head(x) \in Provisional \cup Refusal \cup CancelAnswer
                    \/ Head(x) = Answered /\ Open(k)
  \/ Lost(c)
  \/ Open(c) /\ (c.bye = 0 => Open(k) /\ x \in Seq(Plain))

\* Where the callee may be, and what may arrive there.
CalleePlace(c, k, y) ==
  \/ Unknown(k) /\ (y = <<>> \/ y = <<Offered>>)
  \/ k.state = "IncomingReceived" /\ k.remote = "sendrecv" /\ Pending(c) /\ y \in Seq(Cancels)
  \/ Open(k) /\ (k.bye = 0 => y \in Seq(Plain) /\ (Pending(c) \/ Open(c)))
  \/ Lost(k)

\* They follow from the stage of the call.
LEMMA StagePlaces ==
  ASSUME NEW c, NEW k, NEW x \in Seq(Msg), NEW y \in Seq(Msg), c.info = "none",
         Stage(c, k, x, y)
  PROVE  CallerPlace(c, k, x) /\ CalleePlace(c, k, y)
<1>1. CASE FreshStage(c, k, x, y)
  BY <1>1 DEF FreshStage, CallerPlace, CalleePlace
<1>2. CASE CallingStage(c, k, x, y)
  BY <1>2 DEF CallingStage, Dialled, CallerPlace, CalleePlace
<1>3. CASE RingingStage(c, k, x, y)
  <2>1. x # <<>> => Head(x) \in Provisional BY <1>3, HeadTailProperties DEF RingingStage
  <2> QED BY <1>3, <2>1 DEF RingingStage, CallerPlace, CalleePlace
<1>4. CASE AnsweringStage(c, k, x, y)
  <2>1. Head(x) \in Provisional \/ Head(x) = Answered BY <1>4, BeforeAnswer DEF AnsweringStage
  <2>2. y \in Seq(Plain)
    <3>1. Cancels \subseteq Plain BY Kinds
    <3> QED BY <1>4, <3>1 DEF AnsweringStage
  <2> QED BY <1>4, <2>1, <2>2 DEF AnsweringStage, CallerPlace, CalleePlace
<1>5. CASE DeclinedStage(c, k, x, y)
  <2>1. x # <<>> => Head(x) \in Provisional \cup Refusal \cup CancelAnswer
    BY <1>5, HeadTailProperties DEF DeclinedStage
  <2> QED BY <1>5, <2>1 DEF DeclinedStage, CallerPlace, CalleePlace
<1>6. ~DeafStage(c) BY DEF DeafStage
<1>7. CASE ConnectedStage(c, k, x, y)
  BY <1>7 DEF ConnectedStage, Side, CallerPlace, CalleePlace
<1> QED BY <1>1, <1>2, <1>3, <1>4, <1>5, <1>6, <1>7 DEF Stage

(***************************************************************************)
(* Each side stays in good order.                                          *)
(***************************************************************************)

\* Nothing is left behind, a request that waits for an answer gets one, and a caller
\* has no server transaction before its call is established.
Fine(e) ==
  /\ Tidy(e) /\ Calm(e)
  /\ ~e.incoming /\ e.state \in EarlyState => ~e.server

\* A step of an established session.
Talks(d, e, x, t) ==
  \/ Initiates(d, e) /\ t = x
  \/ x # <<>> /\ Responds(d, e, Head(x)) /\ t = Tail(x)

\* An established session is where the dialog is open.
LEMMA EstablishedOpen ==
  ASSUME NEW e, Settled(e), e.state \in EstablishedState
  PROVE  ~Starting(e) /\ ~Pending(e) /\ ~Lost(e) /\ ~Unknown(e) /\ e.state # "IncomingReceived"
         /\ (Open(e) => e.bye = 0)
<1> USE DEF Settled
<1>1. ~Starting(e) /\ ~Pending(e) /\ e.state # "IncomingReceived" /\ e.state \notin OverState
  BY DEF Starting, Pending, EstablishedState, OverState
<1>2. ~Lost(e) BY LostFacts
<1>3. e.dialog = "Confirmed" BY EstablishedFacts
<1>4. e.bye \in Nat BY FieldTypes
<1>5. Open(e) => ~(e.bye > 0) BY <1>1, OpenFacts
<1> QED BY <1>1, <1>2, <1>3, <1>4, <1>5 DEF Unknown

\* What is said of a session that is not established.
LEMMA NotEstablished ==
  ASSUME NEW d \in Endpoint, EndpointInv(d),
         \/ Starting(d) \/ Pending(d) \/ Lost(d) \/ Unknown(d) \/ d.state = "IncomingReceived"
         \/ d.state \in OverState
  PROVE  d.state \notin EstablishedState
<1>1. CASE Lost(d) BY <1>1, LostFacts
<1>2. CASE Unknown(d) BY <1>2 DEF Unknown, EndpointInv, FreshInv, EstablishedState
<1>3. CASE Starting(d) \/ Pending(d) \/ d.state = "IncomingReceived" \/ d.state \in OverState
  BY <1>3 DEF Starting, Pending, OverState, EstablishedState
<1> QED BY <1>1, <1>2, <1>3

\* An established session whose messages are plain and tame.
LEMMA StepTalks ==
  ASSUME NEW e, Settled(e), Calm(e), e.state \in EstablishedState,
         NEW x \in Seq(Plain), x # <<>> => Head(x) \in Tame,
         NEW d \in Endpoint, EndpointInv(d), NEW t, Steps(d, e, x, t)
  PROVE  Talks(d, e, x, t)
<1>1. CASE Does(d, e) /\ t = x BY <1>1, DoesInitiates DEF Talks
<1>2. CASE x # <<>> /\ Hears(d, e, Head(x)) /\ t = Tail(x)
  <2>1. Head(x) \in Plain \cap Tame BY <1>2, HeadTailProperties
  <2> QED BY <1>2, <2>1, HearsResponds DEF Talks
<1> QED BY <1>1, <1>2 DEF Steps

\* Such a step keeps it calm.
LEMMA TalksCalm ==
  ASSUME NEW d, NEW e, NEW x, NEW t, Talks(d, e, x, t), d.state \in EstablishedState
  PROVE  Calm(d) /\ Lingers(d, e)
<1>1. d.state \notin OverState BY DEF EstablishedState, OverState
<1> QED BY <1>1 DEF Talks, Initiates, Responds, Abides

\* A dialog that is gone stays so.
LEMMA LostGoes ==
  ASSUME NEW e, Settled(e), Lost(e), NEW x \in Seq(Msg), NEW d, NEW t, Goes(d, e, x, t)
  PROVE  Lost(d)
<1> USE DEF Settled
<1>1. CASE Acts(d, e) BY <1>1, LostActs
<1>2. CASE x # <<>> /\ Reacts(d, e, Head(x))
  <2>1. Head(x) \in Msg BY <1>2, HeadTailProperties
  <2> QED BY <1>2, <2>1, LostReacts
<1> QED BY <1>1, <1>2 DEF Goes

\* The caller.
LEMMA CallerFine ==
  ASSUME NEW c, Settled(c), ~c.incoming, Fine(c), NEW k, NEW x \in Seq(NoCancel),
         CallerPlace(c, k, x), c.state \in EstablishedState => x \in Seq(Tame),
         NEW d \in Endpoint, EndpointInv(d), Course(d, c), NEW t, Steps(d, c, x, t)
  PROVE  /\ Fine(d)
         /\ c.state \in EstablishedState => Talks(d, c, x, t)
         /\ c.state \notin EstablishedState /\ d.state \in EstablishedState =>
              Begun(d) /\ d.out = <<>> /\ Open(k) /\ Pending(c) /\ x # <<>>
              /\ Head(x) = Answered /\ t = Tail(x)
<1> USE DEF Settled
<1>1. Tidy(c) /\ Calm(c) /\ c.info = "none" BY DEF Fine, Calm
<1>2. c.dialog = "Confirmed" => Open(c)
  BY LostFacts DEF CallerPlace, Starting, Pending
<1>3. ~Unknown(c) /\ c.state # "IncomingReceived" BY DEF Unknown, Grounded
<1>4. d.info = "none" /\ Tidy(d) /\ (c.dialog # "Confirmed" /\ d.server => c.server)
  <2>1. CASE Does(d, c) BY <1>1, <1>3, <2>1, DoesTidy, DoesUtters DEF Utters
  <2>2. CASE x # <<>> /\ Hears(d, c, Head(x))
    <3>1. Head(x) \in NoCancel BY <2>2, HeadTailProperties
    <3> QED BY <1>1, <1>2, <1>3, <2>2, <3>1, HearsOrderly DEF HearsWell
  <2> QED BY <2>1, <2>2 DEF Steps
<1>5. d.state \in EarlyState => ~d.server
  <2>1. SUFFICES ASSUME d.state \in EarlyState PROVE ~d.server OBVIOUS
  <2>2. c.state \in EarlyState BY <2>1 DEF Course, Onward
  <2>3. c.dialog # "Confirmed"
    BY <1>2, <2>2 DEF Open
  <2> QED BY <1>4, <2>2, <2>3 DEF Fine
<1>6. Goes(d, c, x, t) BY StepsGoes
<1>7. ASSUME c.state \notin EstablishedState, d.state \in EstablishedState
      PROVE  Begun(d) /\ d.out = <<>> /\ Open(k) /\ Pending(c) /\ x # <<>>
             /\ Head(x) = Answered /\ t = Tail(x)
  <2>1. c.state \notin OverState BY <1>7 DEF Course, Onward, OverState, EstablishedState
  <2>2. ~Starting(d) /\ ~Pending(d) /\ ~Lost(d) BY <1>7, NotEstablished
  <2>3. ~Open(c) BY <1>7, <2>1, OpenFacts
  <2>4. ~Starting(c)
    <3>1. SUFFICES ASSUME Starting(c) PROVE FALSE OBVIOUS
    <3>2. x = <<>>
      BY <3>1, <2>3, <2>1, LostFacts DEF CallerPlace, Starting, Pending
    <3>3. Acts(d, c) BY <1>6, <3>2 DEF Goes
    <3> QED BY <2>2, <3>1, <3>3, StartingActs DEF Dialled
  <2>5. ~Lost(c)
    <3>1. x \in Seq(Msg) BY TameMessages
    <3> QED BY <2>2, <1>6, <3>1, LostGoes
  <2>6. Pending(c) BY <2>3, <2>4, <2>5 DEF CallerPlace
  <2>7. ~Acts(d, c) BY <2>2, <2>6, PendingActs DEF Waiting, Forsaken
  <2>8. x # <<>> /\ Reacts(d, c, Head(x)) /\ t = Tail(x) BY <1>6, <2>7 DEF Goes
  <2>9. Head(x) \notin Provisional \cup Refusal \cup CancelAnswer
    BY <2>2, <2>6, <2>8, PendingReacts DEF Waiting, Forsaken
  <2>10. Head(x) = Answered /\ Open(k)
    BY <2>3, <2>4, <2>5, <2>8, <2>9 DEF CallerPlace
  <2>11. d = ProcessResponse(c, Answered, TRUE)
    <3>1. ~Does(d, c) BY <2>7, DoesActs
    <3>2. Hears(d, c, Answered) BY <2>10, <3>1 DEF Steps
    <3>3. Answered.code # 0 BY DEF Answered, Response
    <3> QED BY <3>2, <3>3 DEF Hears
  <2>12. ~c.server BY <2>1, <2>6 DEF Fine, Pending, EarlyState
  <2> QED BY <2>1, <2>6, <2>8, <2>10, <2>11, <2>12, AnsweredBegun
<1>8. ASSUME c.state \in EstablishedState
      PROVE  Talks(d, c, x, t)
  <2>1. Open(c) /\ c.bye = 0 BY <1>8, EstablishedOpen DEF CallerPlace
  <2>2. x \in Seq(Plain) BY <1>8, <2>1, EstablishedOpen DEF CallerPlace
  <2>3. x # <<>> => Head(x) \in Tame BY <1>8, HeadTailProperties
  <2> QED BY <1>1, <1>8, <2>2, <2>3, StepTalks
<1>9. Calm(d)
  <2>1. CASE d.state \notin EstablishedState BY <1>4, <2>1, CalmOutside
  <2>2. CASE d.state \in EstablishedState /\ c.state \notin EstablishedState
    BY <1>4, <1>7, <2>2, CalmOutside
  <2>3. CASE d.state \in EstablishedState /\ c.state \in EstablishedState
    BY <1>8, <2>3, TalksCalm
  <2> QED BY <2>1, <2>2, <2>3
<1> QED BY <1>4, <1>5, <1>7, <1>8, <1>9 DEF Fine

\* The INVITE that starts the call: the callee rings or declines.
LEMMA FirstTidy ==
  ASSUME NEW e, Settled(e), Unknown(e), NEW m \in Reinvite,
         NEW d \in Endpoint, EndpointInv(d), d \in {ReceiveCall(e, m), RefuseCall(e, 486)}
  PROVE  d.info = e.info /\ Tidy(d)
<1> USE DEF Settled
<1>1. m \in Msg /\ m.dir \in Dir BY DEF Reinvite, Msg
<1>2. CASE d = ReceiveCall(e, m)
  <2>1. d.state = "IncomingReceived" BY <1>1, <1>2, ReceiveCallFacts
  <2>2. Tidy(d) BY <2>1, TidySafe
  <2> DEFINE a == [e EXCEPT !.attached = TRUE, !.server = TRUE, !.remote = m.dir,
                            !.dialog = "Early"]
             r == SetState(a, "IncomingReceived")
             s == Send(r, Response("INVITE", 100, "none"))
  <2>3. a \in Endpoint /\ a.info = e.info BY <1>1, ZenonT(40) DEF Endpoint, DialogState
  <2> HIDE DEF a
  <2>4. "IncomingReceived" \in CallState BY DEF CallState
  <2>5. r \in Endpoint /\ r.info = a.info
    BY <2>3, <2>4, SetStateApart, SetStateType DEF Apart, Beside, Kept
  <2>6. /\ Response("INVITE", 100, "none") \in Msg /\ Response("INVITE", 180, "none") \in Msg
    BY TameMessages DEF Tame
  <2> HIDE DEF r
  <2>7. s \in Endpoint /\ s.info = r.info BY <2>5, <2>6, SendTwin DEF Twin, Beside, Kept
  <2>8. d = Send(s, Response("INVITE", 180, "none")) BY <1>2 DEF ReceiveCall, r, a
  <2> HIDE DEF s
  <2>9. d.info = s.info BY <2>6, <2>7, <2>8, SendTwin DEF Twin, Beside, Kept
  <2> QED BY <2>2, <2>3, <2>5, <2>7, <2>9
<1>3. CASE d = RefuseCall(e, 486)
  <2> DEFINE a == [e EXCEPT !.server = TRUE, !.dialog = "Null"]
             r == Reply(a, 486, "none")
  <2>1. a \in Endpoint /\ a.info = e.info BY DEF Endpoint, DialogState
  <2> HIDE DEF a
  <2>2. 486 \in Code \ {0} BY DEF Code
  <2>3. r \in Endpoint /\ r.info = a.info BY <2>1, <2>2, ReplyMute
  <2>4. d = OpRelease(r) BY <1>3 DEF RefuseCall, a
  <2> HIDE DEF r
  <2>5. d.info = r.info /\ ~d.attached BY <2>3, <2>4 DEF OpRelease, Endpoint
  <2>6. Tidy(d) BY <2>5, TidySafe
  <2> QED BY <2>1, <2>3, <2>5, <2>6
<1> QED BY <1>2, <1>3

\* A callee that rings becomes established only by accepting.
LEMMA RingingBegun ==
  ASSUME NEW e, Settled(e), e.state = "IncomingReceived", e.remote = "sendrecv",
         NEW d, Does(d, e), d.state \in EstablishedState
  PROVE  Begun(d)
<1> USE DEF Settled
<1>1. e.state \notin EstablishedState BY DEF EstablishedState
<1>2. ~Renews(d, e) BY <1>1, RenewsRenewed DEF Renewed
<1>3. e.attached /\ e.dialog = "Early" BY DEF EndpointInv, SessionInv, FreshInv
<1>4. ~e.releaseLater BY <1>3 DEF EndpointInv, OverInv
<1>5. d # Terminate(e)
  <2> DEFINE p == Reply(e, 603, "none")
  <2>1. 603 \in Code \ {0} BY DEF Code
  <2>2. p \in Endpoint /\ p.state = e.state BY <2>1, ReplyMute DEF SameSession
  <2>3. Terminate(e) = TerminateSession(p) BY DEF Terminate
  <2> HIDE DEF p
  <2>4. TerminateSession(p).state \in {"End", "Released"}
    BY <2>2, TerminateSessionFacts DEF OverState
  <2> QED BY <2>3, <2>4 DEF EstablishedState
<1>6. d = StartAccept(e) BY <1>2, <1>3, <1>4, <1>5 DEF Does
<1> QED BY <1>6, StartAcceptBegun

\* The callee.  A CANCEL that crosses its answer closes a server transaction at most.
LEMMA CalleeFine ==
  ASSUME NEW k, Settled(k), k.incoming, Fine(k), NEW c, NEW y \in Seq(Tame \cup Cancels),
         CalleePlace(c, k, y),
         NEW d \in Endpoint, EndpointInv(d), Course(d, k), NEW t, Steps(d, k, y, t)
  PROVE  /\ Fine(d)
         /\ k.state \in EstablishedState =>
              \/ Talks(d, k, y, t)
              \/ y # <<>> /\ Head(y) \in Cancels
         /\ k.state \notin EstablishedState /\ d.state \in EstablishedState =>
              Begun(d) /\ k.state = "IncomingReceived" /\ Does(d, k) /\ Pending(c) /\ t = y
<1> USE DEF Settled
<1>1. Tidy(k) /\ Calm(k) /\ k.info = "none" BY DEF Fine, Calm
<1>2. k.dialog = "Confirmed" => Open(k)
  BY LostFacts DEF CalleePlace, Unknown, EndpointInv, FreshInv
<1>3. y # <<>> => Head(y) \in Tame \cup Cancels BY HeadTailProperties
<1>4. d.incoming BY DEF Course
<1>5. d.info = "none" /\ Tidy(d)
  <2>1. CASE Does(d, k) BY <1>1, <2>1, DoesTidy
  <2>2. CASE y # <<>> /\ Hears(d, k, Head(y)) /\ Head(y) \in Cancels
    <3>1. d = ReceiveCancel(k) BY <2>2 DEF Hears, Cancels
    <3> QED BY <1>1, <3>1, ReceiveCancelOrderly DEF Orderly
  <2>3. CASE y # <<>> /\ Hears(d, k, Head(y)) /\ Head(y) \notin Cancels /\ ~Unknown(k)
    <3>1. Head(y) \in NoCancel BY <1>3, <2>3, TameMessages
    <3> QED BY <1>1, <1>2, <2>3, <3>1, HearsOrderly DEF HearsWell
  <2>4. CASE y # <<>> /\ Hears(d, k, Head(y)) /\ Head(y) \notin Cancels /\ Unknown(k)
    <3>1. y = <<Offered>>
      <4>1. ~Lost(k) BY <2>4, LostFacts
      <4>2. ~Open(k) /\ k.state # "IncomingReceived"
        BY <2>4 DEF Unknown, Open, EndpointInv, FreshInv
      <4> QED BY <2>4, <4>1, <4>2 DEF CalleePlace
    <3>2. Head(y) = Offered BY <3>1
    <3>3. Offered \in Reinvite /\ Offered.method = "INVITE" /\ Offered.code = 0
      BY DEF Offered, Reinvite, Request, Msg, Method, Code, Dir
    <3>4. d \in {ReceiveCall(k, Offered), RefuseCall(k, 486)}
      BY <2>4, <3>2, <3>3, ZenonT(40) DEF Hears, Unknown
    <3> QED BY <1>1, <2>4, <3>3, <3>4, FirstTidy
  <2> QED BY <2>1, <2>2, <2>3, <2>4 DEF Steps
<1>6. Goes(d, k, y, t) BY StepsGoes
<1>7. ASSUME k.state \notin EstablishedState, d.state \in EstablishedState
      PROVE  Begun(d) /\ k.state = "IncomingReceived" /\ Does(d, k) /\ Pending(c) /\ t = y
  <2>1. k.state \notin OverState BY <1>7 DEF Course, Onward, OverState, EstablishedState
  <2>2. ~Unknown(d) /\ ~Lost(d) /\ d.state # "IncomingReceived" BY <1>7, NotEstablished
  <2>3. ~Open(k) BY <1>7, <2>1, OpenFacts
  <2>4. ~Lost(k)
    <3>1. y \in Seq(Msg) BY TameMessages DEF Cancels, NoCancel
    <3> QED BY <2>2, <1>6, <3>1, LostGoes
  <2>5. ~(Unknown(k) /\ (y = <<>> \/ y = <<Offered>>))
    <3>1. SUFFICES ASSUME Unknown(k), y = <<>> \/ y = <<Offered>> PROVE FALSE OBVIOUS
    <3>2. ~Acts(d, k) BY <2>2, <3>1, UnknownActs
    <3>3. Reacts(d, k, Offered) BY <1>6, <3>1, <3>2 DEF Goes
    <3> QED BY <2>2, <3>1, <3>3, UnknownCalled
  <2>6. /\ k.state = "IncomingReceived" /\ k.remote = "sendrecv" /\ Pending(c)
        /\ y \in Seq(Cancels)
    BY <2>3, <2>4, <2>5 DEF CalleePlace
  <2>7. ~(y # <<>> /\ Reacts(d, k, Head(y)))
    <3>1. y # <<>> => Head(y) \in Cancels BY <2>6, HeadTailProperties
    <3> QED BY <2>2, <2>6, <3>1, RingingCancelled
  <2>8. Does(d, k) /\ t = y BY <2>7, HearsReacts DEF Steps
  <2> QED BY <1>7, <2>6, <2>8, RingingBegun
<1>8. ASSUME k.state \in EstablishedState, ~(y # <<>> /\ Head(y) \in Cancels)
      PROVE  Talks(d, k, y, t)
  <2>1. Open(k) /\ k.bye = 0 BY <1>8, EstablishedOpen DEF CalleePlace
  <2>2. y \in Seq(Plain) BY <1>8, <2>1, EstablishedOpen DEF CalleePlace
  <2>3. y # <<>> => Head(y) \in Tame BY <1>3, <1>8
  <2> QED BY <1>1, <1>8, <2>2, <2>3, StepTalks
<1>9. Calm(d)
  <2>1. CASE d.state \notin EstablishedState BY <1>5, <2>1, CalmOutside
  <2>2. CASE d.state \in EstablishedState /\ k.state \notin EstablishedState
    BY <1>5, <1>7, <2>2, CalmOutside
  <2>3. CASE d.state \in EstablishedState /\ k.state \in EstablishedState
             /\ ~(y # <<>> /\ Head(y) \in Cancels)
    BY <1>8, <2>3, TalksCalm
  <2>4. CASE k.state \in EstablishedState /\ y # <<>> /\ Head(y) \in Cancels
    <3>1. CASE Does(d, k) /\ d.state \in EstablishedState
      <4>1. Initiates(d, k) BY <1>1, <2>4, <3>1, DoesInitiates
      <4> QED BY <3>1, <4>1 DEF Initiates, Abides, EstablishedState, OverState
    <3>2. CASE Hears(d, k, Head(y)) BY <1>1, <2>4, <3>2, CancelInCall
    <3> QED BY <2>1, <3>1, <3>2 DEF Steps
  <2> QED BY <2>1, <2>2, <2>3, <2>4
<1> QED BY <1>4, <1>5, <1>7, <1>8, <1>9 DEF Fine

(***************************************************************************)
(* What is on its way.                                                     *)
(***************************************************************************)

\* Nobody cancels but a caller that has given up, and only to a caller that has given
\* up, or to one that is declined, anything but tame messages are sent.
Civil(c, k, x, y) ==
  /\ x \in Seq(NoCancel) /\ y \in Seq(Tame \cup Cancels)
  /\ c.state \notin OverState => y \in Seq(Tame)
  /\ c.state \notin OverState /\ (c.state \in EstablishedState \/ ~Lost(k)) => x \in Seq(Tame)

\* What is left of a sequence, and what it becomes.
LEMMA Queue ==
  ASSUME NEW S, NEW s \in Seq(S)
  PROVE  /\ s # <<>> => Head(s) \in S /\ Tail(s) \in Seq(S)
         /\ \A r \in Seq(S) : s \o r \in Seq(S)
BY HeadTailProperties, ConcatProperties

\* What is on its way after a step.
LEMMA StepsQueue ==
  ASSUME NEW S, NEW x \in Seq(S), NEW d, NEW e, NEW t, Steps(d, e, x, t)
  PROVE  t \in Seq(S)
BY Queue DEF Steps

\* An op that has not terminated while its dialog is not established belongs to a caller
\* that waits, or that has not called.
LEMMA EarlyOp ==
  ASSUME NEW e, Settled(e), e.op = "Terminating", e.dialog \in {"None", "Null", "Early"}
  PROVE  ~Lost(e) /\ ~Open(e) /\ ~Unknown(e) /\ e.state # "IncomingReceived"
<1> USE DEF Settled
<1>1. ~Lost(e) BY LostFacts
<1>2. ~Open(e) /\ ~Unknown(e) BY DEF Open, Unknown
<1>3. e.state # "IncomingReceived" BY DEF EndpointInv, SessionInv, OverInv
<1> QED BY <1>1, <1>2, <1>3

\* What the caller sends.
LEMMA CallerSends ==
  ASSUME NEW c, Settled(c), ~c.incoming, Fine(c), NEW k, NEW x \in Seq(NoCancel),
         CallerPlace(c, k, x),
         NEW d \in Endpoint, EndpointInv(d), Course(d, c), NEW t, Steps(d, c, x, t)
  PROVE  d.out \in Seq(Tame) \/ (d.out \in Seq(Cancels) /\ d.state \in OverState)
<1> USE DEF Settled
<1>1. Tidy(c) /\ Calm(c) BY DEF Fine
<1>2. c.dialog = "Confirmed" => Open(c)
  BY LostFacts DEF CallerPlace, Starting, Pending
<1>3. ~Unknown(c) /\ c.state # "IncomingReceived" BY DEF Unknown, Grounded
<1>4. <<Request("CANCEL", "none")>> \in Seq(Cancels) BY TameMessages, Short
<1>5. CASE Does(d, c) BY <1>1, <1>3, <1>4, <1>5, DoesUtters DEF Utters
<1>6. CASE x # <<>> /\ Hears(d, c, Head(x))
  <2>1. Head(x) \in NoCancel BY <1>6, Queue
  <2>2. HearsWell(d, c) BY <1>1, <1>2, <1>3, <1>6, <2>1, HearsOrderly
  <2>3. SUFFICES ASSUME c.op = "Terminating", c.dialog \in {"None", "Null", "Early"}
                 PROVE  d.state \in OverState
    BY <1>4, <2>2 DEF HearsWell
  <2>4. Pending(c) BY <1>6, <2>3, EarlyOp DEF CallerPlace
  <2>5. c.state \in OverState BY <2>3, <2>4, PendingFacts
  <2> QED BY <2>5 DEF Course, Onward
<1> QED BY <1>5, <1>6 DEF Steps

\* A step of the caller.
LEMMA CallerCivil ==
  ASSUME NEW c, NEW k, NEW x \in Seq(Msg), NEW y \in Seq(Msg), Settled(c), Settled(k),
         ~c.incoming, Stage(c, k, x, y), Fine(c), Civil(c, k, x, y),
         NEW d \in Endpoint, EndpointInv(d), Course(d, c), NEW t, Steps(d, c, x, t)
  PROVE  Civil(d, k, t, y \o d.out)
<1> USE DEF Settled
<1>1. CallerPlace(c, k, x) BY StagePlaces DEF Fine, Calm
<1>2. x \in Seq(NoCancel) /\ y \in Seq(Tame \cup Cancels) BY DEF Civil
<1>3. d.out \in Seq(Tame) \/ (d.out \in Seq(Cancels) /\ d.state \in OverState)
  BY <1>1, <1>2, CallerSends
<1>4. d.out \in Seq(Tame \cup Cancels) BY <1>3
<1>5. y \o d.out \in Seq(Tame \cup Cancels) BY <1>2, <1>4, Queue
<1>6. t \in Seq(NoCancel) BY <1>2, StepsQueue
<1>7. ASSUME d.state \notin OverState
      PROVE  c.state \notin OverState /\ y \o d.out \in Seq(Tame)
  <2>1. c.state \notin OverState BY <1>7 DEF Course, Onward
  <2>2. y \in Seq(Tame) BY <2>1 DEF Civil
  <2> QED BY <1>3, <1>7, <2>1, <2>2, Queue
<1>8. ASSUME d.state \notin OverState, d.state \in EstablishedState \/ ~Lost(k)
      PROVE  t \in Seq(Tame)
  <2>1. c.state \in EstablishedState \/ ~Lost(k)
    <3>1. SUFFICES ASSUME c.state \notin EstablishedState, d.state \in EstablishedState
                   PROVE  ~Lost(k)
      BY <1>8
    <3>2. Open(k) BY <1>1, <1>2, <3>1, CallerFine
    <3> QED BY <3>2, OpenNotLost
  <2>2. x \in Seq(Tame) BY <1>7, <1>8, <2>1 DEF Civil
  <2> QED BY <2>2, StepsQueue
<1> QED BY <1>5, <1>6, <1>7, <1>8 DEF Civil

\* What the callee sends.
LEMMA CalleeSends ==
  ASSUME NEW k, Settled(k), k.incoming, Fine(k), NEW c, NEW y \in Seq(Tame \cup Cancels),
         CalleePlace(c, k, y),
         NEW d \in Endpoint, EndpointInv(d), Course(d, k), NEW t, Steps(d, k, y, t)
  PROVE  /\ d.out \in Seq(NoCancel)
         /\ \/ d.out \in Seq(Tame)
            \/ y # <<>> /\ Head(y) \in Cancels
            \/ Lost(d) /\ k.state \in EarlyState
<1> USE DEF Settled
<1>1. Tidy(k) /\ Calm(k) BY DEF Fine
<1>2. k.dialog = "Confirmed" => Open(k)
  BY LostFacts DEF CalleePlace, Unknown, EndpointInv, FreshInv
<1>3. SUFFICES \/ d.out \in Seq(Tame)
               \/ d.out \in Seq(NoCancel) /\ y # <<>> /\ Head(y) \in Cancels
               \/ d.out \in Seq(NoCancel) /\ Lost(d) /\ k.state \in EarlyState
  BY TameMessages
<1>4. CASE Unknown(k) /\ (y = <<>> \/ y = <<Offered>>)
  <2>1. Goes(d, k, y, t) BY StepsGoes
  <2>2. CASE Acts(d, k)
    <3>1. d.out = <<>> BY <1>4, <2>2, UnknownActs
    <3> QED BY <3>1
  <2>3. CASE Reacts(d, k, Offered)
    <3>1. \/ d.out \in Seq(Provisional)
          \/ Lost(d) /\ d.out \in Seq(Refusal)
      BY <1>4, <2>3, UnknownCalled
    <3>2. Provisional \subseteq Tame /\ Refusal \subseteq NoCancel
      BY TameMessages DEF Refusal, NoCancel, Cancels
    <3>3. k.state \in EarlyState BY <1>4 DEF Unknown, EndpointInv, FreshInv, EarlyState
    <3> QED BY <3>1, <3>2, <3>3
  <2> QED BY <1>4, <2>1, <2>2, <2>3 DEF Goes
<1>5. CASE y # <<>> /\ Hears(d, k, Head(y)) /\ Head(y) \in Cancels
  <2>1. d = ReceiveCancel(k) BY <1>5 DEF Hears, Cancels
  <2> QED BY <1>1, <1>5, <2>1, ReceiveCancelOrderly
<1>6. CASE k.state = "IncomingReceived" /\ k.remote = "sendrecv" /\ Does(d, k)
  <2>1. Acts(d, k) BY <1>6, DoesActs
  <2>2. \/ d.out = <<>> \/ d.out = <<Answered>>
        \/ Lost(d) /\ d.out = <<Response("INVITE", 603, "none")>>
    BY <1>6, <2>1, RingingActs
  <2>3. /\ <<>> \in Seq(Tame) /\ <<Answered>> \in Seq(Tame)
        /\ <<Response("INVITE", 603, "none")>> \in Seq(NoCancel)
    BY TameMessages, Short
  <2>4. k.state \in EarlyState BY <1>6 DEF EarlyState
  <2>5. CASE d.out = <<>> BY <2>3, <2>5
  <2>6. CASE d.out = <<Answered>> BY <2>3, <2>6
  <2>7. CASE Lost(d) /\ d.out = <<Response("INVITE", 603, "none")>> BY <2>3, <2>4, <2>7
  <2> QED BY <2>2, <2>5, <2>6, <2>7
<1>7. CASE Does(d, k) /\ k.state # "IncomingReceived"
  BY <1>1, <1>7, DoesUtters DEF Utters
<1>8. CASE y # <<>> /\ Hears(d, k, Head(y)) /\ Head(y) \notin Cancels
           /\ (Open(k) \/ Lost(k))
  <2>1. Head(y) \in NoCancel BY <1>8, Queue, TameMessages
  <2>2. ~Unknown(k) BY <1>8, LostFacts DEF Unknown, Open
  <2>3. HearsWell(d, k) BY <1>1, <1>2, <1>8, <2>1, <2>2, HearsOrderly
  <2> QED BY <1>8, <2>3, EarlyOp DEF HearsWell
<1>9. CASE y # <<>> /\ y \in Seq(Cancels) /\ Head(y) \notin Cancels
  BY <1>9, Queue
<1>10. Does(d, k) \/ (y # <<>> /\ Hears(d, k, Head(y))) BY DEF Steps
<1>11. CASE k.state = "IncomingReceived" /\ k.remote = "sendrecv" /\ y \in Seq(Cancels)
  BY <1>5, <1>6, <1>9, <1>10, <1>11
<1>12. CASE Open(k) \/ Lost(k)
  <2>1. k.state # "IncomingReceived"
    <3>1. Open(k) => k.state # "IncomingReceived" BY DEF Open, EarlyState
    <3>2. Lost(k) => k.state # "IncomingReceived" BY DEF Lost, OverState
    <3> QED BY <1>12, <3>1, <3>2
  <2> QED BY <1>5, <1>7, <1>8, <1>10, <1>12, <2>1
<1> QED BY <1>4, <1>11, <1>12 DEF CalleePlace

\* A step of the callee.
LEMMA CalleeCivil ==
  ASSUME NEW c, NEW k, NEW x \in Seq(Msg), NEW y \in Seq(Msg), Settled(c), Settled(k),
         ~c.incoming, k.incoming, Stage(c, k, x, y), Fine(c), Fine(k), Civil(c, k, x, y),
         NEW d \in Endpoint, EndpointInv(d), Course(d, k), NEW t, Steps(d, k, y, t)
  PROVE  Civil(c, d, x \o d.out, t)
<1> USE DEF Settled
<1>1. CalleePlace(c, k, y) BY StagePlaces DEF Fine, Calm
<1>2. x \in Seq(NoCancel) /\ y \in Seq(Tame \cup Cancels) BY DEF Civil
<1>3. /\ d.out \in Seq(NoCancel)
      /\ \/ d.out \in Seq(Tame)
         \/ y # <<>> /\ Head(y) \in Cancels
         \/ Lost(d) /\ k.state \in EarlyState
  BY <1>1, <1>2, CalleeSends
<1>4. x \o d.out \in Seq(NoCancel) BY <1>2, <1>3, Queue
<1>5. t \in Seq(Tame \cup Cancels) BY <1>2, StepsQueue
<1>6. c.state \notin OverState => t \in Seq(Tame)
  <2>1. c.state \notin OverState => y \in Seq(Tame) BY DEF Civil
  <2> QED BY <2>1, StepsQueue
<1>7. ASSUME c.state \notin OverState, c.state \in EstablishedState \/ ~Lost(d)
      PROVE  x \o d.out \in Seq(Tame)
  <2>1. c.state \in EstablishedState \/ ~Lost(k)
    BY <1>7, StepsGoes, LostGoes
  <2>2. x \in Seq(Tame) BY <1>7, <2>1 DEF Civil
  <2>3. ~(y # <<>> /\ Head(y) \in Cancels)
    <3>1. y \in Seq(Tame) BY <1>7 DEF Civil
    <3>2. y # <<>> => Head(y) \in Tame BY <3>1, Queue
    <3> QED BY <3>2 DEF Tame, Cancels
  <2>4. ~(Lost(d) /\ k.state \in EarlyState)
    BY <1>7, StagePhases DEF EstablishedState, EarlyState, OverState
  <2> QED BY <1>3, <2>2, <2>3, <2>4, Queue
<1> QED BY <1>4, <1>5, <1>6, <1>7 DEF Civil

(***************************************************************************)
(* An update that was deferred.                                            *)
(***************************************************************************)

\* The application of e has an update to accept: its server transaction is open, or
\* the peer p has given up and closed it.
Deferring(e, p) == e.state = "UpdatedByRemote" /\ ~e.server => p.state \in OverState

\* A step of the peer.
LEMMA PeerDeferring ==
  ASSUME NEW e, NEW p, Deferring(e, p), NEW d, Course(d, p)
  PROVE  Deferring(e, d)
BY DEF Deferring, Course, Onward

\* A step of the caller.
LEMMA CallerDeferring ==
  ASSUME NEW c, Settled(c), ~c.incoming, Fine(c), NEW k, NEW x \in Seq(NoCancel),
         CallerPlace(c, k, x), c.state \in EstablishedState => x \in Seq(Tame),
         Deferring(c, k),
         NEW d \in Endpoint, EndpointInv(d), Course(d, c), NEW t, Steps(d, c, x, t)
  PROVE  Deferring(d, k)
<1> SUFFICES ASSUME d.state = "UpdatedByRemote", ~d.server PROVE k.state \in OverState
  BY DEF Deferring
<1>1. d.state \in EstablishedState /\ ~Begun(d) BY DEF EstablishedState, Begun
<1>2. c.state \in EstablishedState /\ Talks(d, c, x, t) BY <1>1, CallerFine
<1>3. Lingers(d, c) BY <1>1, <1>2, TalksCalm
<1> QED BY <1>3 DEF Lingers, Deferring

\* A step of the callee.  A CANCEL of the caller closes the transaction of a deferred
\* update, but then the caller has given up.
LEMMA CalleeDeferring ==
  ASSUME NEW k, Settled(k), k.incoming, Fine(k), NEW c, NEW y \in Seq(Tame \cup Cancels),
         CalleePlace(c, k, y), c.state \notin OverState => y \in Seq(Tame),
         Deferring(k, c),
         NEW d \in Endpoint, EndpointInv(d), Course(d, k), NEW t, Steps(d, k, y, t)
  PROVE  Deferring(d, c)
<1> SUFFICES ASSUME d.state = "UpdatedByRemote", ~d.server, c.state \notin OverState
             PROVE  FALSE
  BY DEF Deferring
<1>1. d.state \in EstablishedState /\ ~Begun(d) BY DEF EstablishedState, Begun
<1>2. y # <<>> => Head(y) \in Tame BY Queue
<1>3. ~(y # <<>> /\ Head(y) \in Cancels) BY <1>2 DEF Tame, Cancels
<1>4. k.state \in EstablishedState /\ Talks(d, k, y, t) BY <1>1, <1>3, CalleeFine
<1>5. Lingers(d, k) BY <1>1, <1>4, TalksCalm
<1> QED BY <1>5 DEF Lingers, Deferring

(***************************************************************************)
(* Offer and answer.  a offers and b answers; v is on its way to a and w   *)
(* on its way to b.                                                        *)
(***************************************************************************)

\* The messages that are no offer, and those that are no final answer to one.
NoOffer == Msg \ Reinvite
NoFinal == Msg \ Final

\* The directions a session offers.
Ways == {"sendrecv", "sendonly"}

\* Nothing is offered.
Unasked(a, b, v, w) ==
  a.client = "none" /\ ~b.server /\ v \in Seq(NoFinal) /\ w \in Seq(NoOffer)

\* The offer is on its way.
Asking(a, b, v, w) ==
  /\ a.client # "none" /\ ~b.server /\ a.offer \in Ways
  /\ v \in Seq(NoFinal) /\ Holds(w, NoOffer, {Request("INVITE", a.offer)}, NoOffer)

\* The offer has arrived and its answer was deferred.
Deferred(a, b, v, w) ==
  /\ a.client # "none" /\ b.server /\ a.offer \in Ways /\ b.remote = a.offer
  /\ v \in Seq(NoFinal) /\ w \in Seq(NoOffer)

\* The offer has crossed one of b and its refusal is on the way back.
Refusing(a, b, v, w) ==
  /\ a.client # "none" /\ ~b.server
  /\ Holds(v, NoFinal, InviteBusy, NoFinal) /\ w \in Seq(NoOffer)

\* In each of these cases neither side has a result the other one does not have.
Undecided(a, b, v, w) ==
  Unasked(a, b, v, w) \/ Asking(a, b, v, w) \/ Deferred(a, b, v, w) \/ Refusing(a, b, v, w)

\* b has accepted the offer, and its answer is on the way back, ahead of any offer of
\* b: it will lead a to the direction that mirrors the one of b.
Accepting(a, b, v, w) ==
  /\ a.client # "none" /\ ~b.server
  /\ Holds(v, Other, {Response("INVITE", 200, b.result)}, NoFinal) /\ w \in Seq(NoOffer)
  /\ ComputeDirOutgoing(a.offer, b.result) = Mirror[b.result]

\* The two sides mirror each other, or will once the answer under way has arrived;
\* never are both about to change.
Parley(a, b, v, w) ==
  \/ Accepting(a, b, v, w) /\ Undecided(b, a, w, v)
  \/ Undecided(a, b, v, w) /\ Accepting(b, a, w, v)
  \/ Undecided(a, b, v, w) /\ Undecided(b, a, w, v) /\ a.result = Mirror[b.result]

\* Mirroring twice is not mirroring.
LEMMA MirrorTwice ==
  ASSUME NEW r \in Dir, NEW s \in Dir, r = Mirror[s]
  PROVE  s = Mirror[r]
BY DEF Mirror, Dir

\* It does not matter who is asked first.
LEMMA ParleyBoth ==
  ASSUME NEW a \in Endpoint, NEW b \in Endpoint, NEW v, NEW w, Parley(a, b, v, w)
  PROVE  Parley(b, a, w, v)
<1>1. a.result \in Dir /\ b.result \in Dir BY DEF Endpoint
<1>2. a.result = Mirror[b.result] => b.result = Mirror[a.result] BY <1>1, MirrorTwice
<1> QED BY <1>2 DEF Parley

\* Whatever is answered to an offer, both ends arrive at directions that mirror each
\* other (OfferAnswerEngine::computeDirIncoming() and computeDirOutgoing()).
LEMMA AnswerMirrors ==
  ASSUME NEW l \in Ways, NEW o \in Ways
  PROVE  LET r == ComputeDirIncoming(l, o)
         IN  r \in Dir /\ ComputeDirOutgoing(o, r) = Mirror[r]
<1> DEFINE r == ComputeDirIncoming(l, o)
<1>1. r \in Dir BY DEF ComputeDirIncoming, Ways, Dir
<1>2. /\ l = "sendrecv" /\ o = "sendrecv" => r = "sendrecv"
      /\ l = "sendrecv" /\ o = "sendonly" => r = "recvonly"
      /\ l = "sendonly" /\ o = "sendrecv" => r = "sendonly"
      /\ l = "sendonly" /\ o = "sendonly" => r = "inactive"
  BY DEF ComputeDirIncoming, Ways
<1> HIDE DEF r
<1>3. /\ Mirror["sendrecv"] = "sendrecv" /\ Mirror["recvonly"] = "sendonly"
      /\ Mirror["sendonly"] = "recvonly" /\ Mirror["inactive"] = "inactive"
  BY DEF Mirror, Dir
<1>4. /\ ComputeDirOutgoing("sendrecv", "sendrecv") = "sendrecv"
      /\ ComputeDirOutgoing("sendonly", "recvonly") = "sendonly"
      /\ ComputeDirOutgoing("sendrecv", "sendonly") = "recvonly"
      /\ ComputeDirOutgoing("sendonly", "inactive") = "inactive"
  BY DEF ComputeDirOutgoing
<1>5. ComputeDirOutgoing(o, r) = Mirror[r] BY <1>2, <1>3, <1>4 DEF Ways
<1> QED BY <1>1, <1>5 DEF r

\* The kinds of messages of a negotiation.
LEMMA OfferKinds ==
  /\ NoOffer \subseteq Msg /\ NoFinal \subseteq Msg /\ Other \subseteq Msg
  /\ Other = NoOffer \cap NoFinal /\ InviteBusy \subseteq Final /\ InviteOk \subseteq Final
  /\ Reinvite \subseteq NoFinal /\ Final \subseteq NoOffer
  /\ \A o \in Ways : Request("INVITE", o) \in Reinvite
  /\ Response("INVITE", 491, "none") \in InviteBusy
  /\ \A r \in Dir : Response("INVITE", 200, r) \in InviteOk
<1>1. Reinvite \subseteq NoFinal /\ Final \subseteq NoOffer
  BY DEF NoOffer, NoFinal, Final, Reinvite
<1>2. InviteBusy \subseteq Final /\ InviteOk \subseteq Final BY DEF InviteBusy, InviteOk, Final
<1>3. \A o \in Ways : Request("INVITE", o) \in Reinvite
  BY DEF Ways, Request, Reinvite, Msg, Method, Code, Dir
<1>4. Response("INVITE", 491, "none") \in InviteBusy
  BY DEF Response, InviteBusy, Msg, Method, Code, Dir
<1>5. \A r \in Dir : Response("INVITE", 200, r) \in InviteOk
  BY DEF Response, InviteOk, Msg, Method, Code, Dir
<1>6. NoOffer \subseteq Msg /\ NoFinal \subseteq Msg /\ Other \subseteq Msg
      /\ Other = NoOffer \cap NoFinal
  BY DEF NoOffer, NoFinal, Other
<1> QED BY <1>1, <1>2, <1>3, <1>4, <1>5, <1>6

\* What is left of the messages on their way: all of them, or those after one of S.
Drops(x, t, S) == t = x \/ (x # <<>> /\ Head(x) \in S /\ t = Tail(x))

\* What holds of all of them still does.
LEMMA SeqDrops ==
  ASSUME NEW S, NEW x \in Seq(S), NEW t, NEW R, Drops(x, t, R)
  PROVE  t \in Seq(S)
BY Queue DEF Drops

\* The message that matters is still there if it was not the first.
LEMMA HoldsDrops ==
  ASSUME NEW P \in SUBSET Msg, NEW B \in SUBSET Msg, NEW Q \in SUBSET Msg,
         NEW x, Holds(x, P, B, Q), NEW t, NEW R, Drops(x, t, R), R \cap B = {}
  PROVE  Holds(t, P, B, Q)
<1>1. \/ Head(x) \in P /\ Holds(Tail(x), P, B, Q)
      \/ Head(x) \in B /\ Tail(x) \in Seq(Q)
  BY HoldsTail
<1> QED BY <1>1 DEF Drops

\* It was the first if the first is none of those ahead of it.
LEMMA HoldsFirst ==
  ASSUME NEW P \in SUBSET Msg, NEW B \in SUBSET Msg, NEW Q \in SUBSET Msg,
         NEW x, Holds(x, P, B, Q), Head(x) \notin P
  PROVE  Head(x) \in B /\ Tail(x) \in Seq(Q)
BY HoldsTail

\* The offers of a side whose own transaction and offer stay the same.
LEMMA OwnKept ==
  ASSUME NEW d, NEW e, NEW p, NEW x, NEW y, NEW t, NEW s \in Seq(NoOffer),
         d.client = "none" <=> e.client = "none", d.offer = e.offer
  PROVE  /\ Undecided(e, p, x, y) /\ Drops(x, t, NoFinal) => Undecided(d, p, t, y \o s)
         /\ Accepting(e, p, x, y) /\ Drops(x, t, Other) => Accepting(d, p, t, y \o s)
<1>1. y \in Seq(NoOffer) => y \o s \in Seq(NoOffer) BY Queue
<1>2. ASSUME Drops(x, t, NoFinal), Unasked(e, p, x, y) PROVE Unasked(d, p, t, y \o s)
  BY <1>1, <1>2, SeqDrops DEF Unasked
<1>3. ASSUME Drops(x, t, NoFinal), Asking(e, p, x, y) PROVE Asking(d, p, t, y \o s)
  <2>1. t \in Seq(NoFinal) BY <1>3, SeqDrops DEF Asking
  <2>2. Request("INVITE", e.offer) \in Msg BY <1>3, OfferKinds DEF Asking
  <2> DEFINE o == {Request("INVITE", e.offer)}
  <2>3. NoOffer \in SUBSET Msg /\ o \in SUBSET Msg BY <2>2, OfferKinds
  <2>4. Holds(y, NoOffer, o, NoOffer) BY <1>3 DEF Asking
  <2>5. Holds(y \o s, NoOffer, o, NoOffer)
    <3> HIDE DEF o
    <3> QED BY <2>3, <2>4, HoldsMore
  <2> QED BY <1>3, <2>1, <2>5 DEF Asking
<1>4. ASSUME Drops(x, t, NoFinal), Deferred(e, p, x, y) PROVE Deferred(d, p, t, y \o s)
  BY <1>1, <1>4, SeqDrops DEF Deferred
<1>5. ASSUME Drops(x, t, NoFinal), Refusing(e, p, x, y) PROVE Refusing(d, p, t, y \o s)
  <2>1. NoFinal \cap InviteBusy = {} /\ InviteBusy \subseteq Msg
    BY OfferKinds DEF NoFinal, InviteBusy
  <2>2. Holds(t, NoFinal, InviteBusy, NoFinal)
    BY <1>5, <2>1, OfferKinds, HoldsDrops DEF Refusing
  <2> QED BY <1>1, <1>5, <2>2 DEF Refusing
<1>6. ASSUME Drops(x, t, Other), Accepting(e, p, x, y) PROVE Accepting(d, p, t, y \o s)
  <2> DEFINE B == {Response("INVITE", 200, p.result)}
  <2>1. Holds(x, Other, B, NoFinal) BY <1>6 DEF Accepting
  <2>2. Other \cap B = {} BY DEF Other, Final, Response
  <2>3. Holds(t, Other, B, NoFinal)
    <3>1. CASE t = x BY <2>1, <3>1
    <3>2. CASE x # <<>> /\ Head(x) \in Other /\ t = Tail(x)
      <4> SUFFICES ASSUME NEW q \in Seq(Other), NEW b \in B, NEW r \in Seq(NoFinal),
                          x = q \o (<<b>> \o r)
                   PROVE  Holds(t, Other, B, NoFinal)
        BY <2>1, ZenonT(40) DEF Holds
      <4>1. q # <<>> BY <2>2, <3>2
      <4>2. Tail(x) = Tail(q) \o (<<b>> \o r) BY <4>1
      <4>3. Tail(q) \in Seq(Other) BY <4>1
      <4> QED BY <3>2, <4>2, <4>3, ZenonT(40) DEF Holds
    <3> QED BY <1>6, <3>1, <3>2 DEF Drops
  <2> QED BY <1>1, <1>6, <2>3 DEF Accepting
<1> QED BY <1>2, <1>3, <1>4, <1>5, <1>6 DEF Undecided

\* The offers of the peer p to a side that stays as ready to answer as it was.
LEMMA TheirsKept ==
  ASSUME NEW d, NEW e, NEW p, NEW x, NEW y, NEW t, NEW s \in Seq(NoFinal),
         d.server = e.server, e.server => d.remote = e.remote, Drops(x, t, NoOffer)
  PROVE  /\ Undecided(p, e, y, x) => Undecided(p, d, y \o s, t)
         /\ Accepting(p, e, y, x) /\ d.result = e.result /\ e.result \in Dir =>
              Accepting(p, d, y \o s, t)
<1>1. y \in Seq(NoFinal) => y \o s \in Seq(NoFinal) BY Queue
<1>2. x \in Seq(NoOffer) => t \in Seq(NoOffer) BY SeqDrops
<1>3. ASSUME Unasked(p, e, y, x) PROVE Unasked(p, d, y \o s, t)
  BY <1>1, <1>2, <1>3 DEF Unasked
<1>4. ASSUME Asking(p, e, y, x) PROVE Asking(p, d, y \o s, t)
  <2> DEFINE B == {Request("INVITE", p.offer)}
  <2>1. B \subseteq Msg /\ NoOffer \cap B = {} BY <1>4, OfferKinds DEF Asking, NoOffer
  <2>2. Holds(x, NoOffer, B, NoOffer) BY <1>4 DEF Asking
  <2> HIDE DEF B
  <2>3. Holds(t, NoOffer, B, NoOffer) BY <2>1, <2>2, OfferKinds, HoldsDrops
  <2> QED BY <1>1, <1>4, <2>3 DEF Asking, B
<1>5. ASSUME Deferred(p, e, y, x) PROVE Deferred(p, d, y \o s, t)
  BY <1>1, <1>2, <1>5 DEF Deferred
<1>6. ASSUME Refusing(p, e, y, x) PROVE Refusing(p, d, y \o s, t)
  <2>1. InviteBusy \subseteq Msg BY DEF InviteBusy
  <2>2. Holds(y \o s, NoFinal, InviteBusy, NoFinal)
    BY <1>6, <2>1, OfferKinds, HoldsMore DEF Refusing
  <2> QED BY <1>2, <1>6, <2>2 DEF Refusing
<1>7. ASSUME Accepting(p, e, y, x), d.result = e.result, e.result \in Dir
      PROVE  Accepting(p, d, y \o s, t)
  <2> DEFINE B == {Response("INVITE", 200, e.result)}
  <2>1. B \subseteq Msg BY <1>7, OfferKinds DEF InviteOk
  <2>2. Holds(y, Other, B, NoFinal) BY <1>7 DEF Accepting
  <2> HIDE DEF B
  <2>3. Holds(y \o s, Other, B, NoFinal) BY <2>1, <2>2, OfferKinds, HoldsMore
  <2> QED BY <1>2, <1>7, <2>3 DEF Accepting, B
<1> QED BY <1>3, <1>4, <1>5, <1>6, <1>7 DEF Undecided

\* A side that has no request of its own under way.
LEMMA OwnUnasked ==
  ASSUME NEW e, NEW p, NEW x, NEW y, Parley(e, p, x, y), e.client = "none"
  PROVE  /\ Unasked(e, p, x, y)
         /\ Accepting(p, e, y, x) \/ (Undecided(p, e, y, x) /\ e.result = Mirror[p.result])
BY DEF Parley, Undecided, Unasked, Asking, Deferred, Refusing, Accepting

\* The first message is an offer of the peer.
LEMMA TheirsAsking ==
  ASSUME NEW e, NEW p, NEW x, NEW y, Parley(e, p, x, y), x # <<>>, Head(x) \in Reinvite
  PROVE  /\ Asking(p, e, y, x) /\ Head(x) = Request("INVITE", p.offer)
         /\ Tail(x) \in Seq(NoOffer)
         /\ Undecided(e, p, x, y) /\ e.result = Mirror[p.result]
<1>1. x \notin Seq(NoOffer) BY Queue DEF NoOffer
<1>2. Asking(p, e, y, x)
  BY <1>1 DEF Parley, Undecided, Unasked, Deferred, Refusing, Accepting
<1> DEFINE B == {Request("INVITE", p.offer)}
<1>3. B \subseteq Msg /\ Holds(x, NoOffer, B, NoOffer) BY <1>2, OfferKinds DEF Asking
<1>4. Head(x) \in B /\ Tail(x) \in Seq(NoOffer)
  <2> HIDE DEF B
  <2>1. \/ Head(x) \in NoOffer
        \/ Head(x) \in B /\ Tail(x) \in Seq(NoOffer)
    BY <1>3, OfferKinds, HoldsTail
  <2> QED BY <2>1 DEF NoOffer
<1>5. ~Accepting(p, e, y, x) BY <1>1 DEF Accepting
<1>6. ~Accepting(e, p, x, y)
  <2> SUFFICES ASSUME Accepting(e, p, x, y) PROVE FALSE OBVIOUS
  <2> DEFINE C == {Response("INVITE", 200, p.result)}
  <2>1. Holds(x, Other, C, NoFinal) BY DEF Accepting
  <2>2. Reinvite \cap (Other \cup C) = {} BY DEF Other, Reinvite, Response
  <2> HIDE DEF C
  <2>3. PICK q \in Seq(Other), b \in C, r \in Seq(NoFinal) : x = q \o (<<b>> \o r)
    BY <2>1 DEF Holds
  <2>4. Head(x) \in Other \cup C
    <3>1. CASE q = <<>> BY <2>3, <3>1
    <3>2. CASE q # <<>> BY <2>3, <3>2
    <3> QED BY <3>1, <3>2
  <2> QED BY <2>2, <2>4
<1> QED BY <1>2, <1>4, <1>5, <1>6 DEF Parley

(***************************************************************************)
(* The steps of a negotiation.                                             *)
(***************************************************************************)

\* Nothing that was agreed upon changes.
LEMMA StillKept ==
  ASSUME NEW d, NEW e, NEW p, NEW x, NEW y, NEW t, e.result \in Dir,
         Unmoved(d, e), d.out \in Seq(Other), Drops(x, t, Other)
  PROVE  /\ Undecided(e, p, x, y) => Undecided(d, p, t, y \o d.out)
         /\ Accepting(e, p, x, y) => Accepting(d, p, t, y \o d.out)
         /\ Undecided(p, e, y, x) => Undecided(p, d, y \o d.out, t)
         /\ Accepting(p, e, y, x) => Accepting(p, d, y \o d.out, t)
<1>1. d.out \in Seq(NoOffer) /\ d.out \in Seq(NoFinal) BY OfferKinds, SeqMonotonic
<1>2. Drops(x, t, NoFinal) /\ Drops(x, t, NoOffer) BY OfferKinds DEF Drops
<1>3. /\ Undecided(e, p, x, y) => Undecided(d, p, t, y \o d.out)
      /\ Accepting(e, p, x, y) => Accepting(d, p, t, y \o d.out)
  BY <1>1, <1>2, OwnKept DEF Unmoved
<1>4. /\ Undecided(p, e, y, x) => Undecided(p, d, y \o d.out, t)
      /\ Accepting(p, e, y, x) => Accepting(p, d, y \o d.out, t)
  BY <1>1, <1>2, TheirsKept DEF Unmoved
<1> QED BY <1>3, <1>4

\* See StillKept.
LEMMA StillParley ==
  ASSUME NEW d, NEW e, NEW p, NEW x, NEW y, NEW t, Parley(e, p, x, y), e.result \in Dir,
         Unmoved(d, e), d.out \in Seq(Other), Drops(x, t, Other)
  PROVE  Parley(d, p, t, y \o d.out)
<1>1. d.result = e.result BY DEF Unmoved
<1> QED BY <1>1, StillKept DEF Parley

\* A re-INVITE is sent: it is asked for, and what the peer has asked for stays.
LEMMA OffersKept ==
  ASSUME NEW d \in Endpoint, NEW e \in Endpoint, NEW p, NEW x, NEW y, Offers(d, e),
         Unasked(e, p, x, y)
  PROVE  /\ Undecided(d, p, x, y \o d.out)
         /\ Undecided(p, e, y, x) => Undecided(p, d, y \o d.out, x)
         /\ Accepting(p, e, y, x) => Accepting(p, d, y \o d.out, x)
<1> DEFINE n == Request("INVITE", d.offer)
<1>1. d.offer \in Ways /\ d.out = <<n>> BY DEF Offers, Ways
<1>2. n \in NoFinal /\ n \in Msg BY <1>1, OfferKinds
<1> HIDE DEF n
<1>3. d.out \in Seq(NoFinal) BY <1>1, <1>2
<1>4. Holds(y \o <<n>>, NoOffer, {n}, NoOffer) BY HoldsNew DEF Unasked
<1>5. Asking(d, p, x, y \o d.out) BY <1>1, <1>4 DEF Asking, Unasked, Offers, n
<1>6. d.server = e.server /\ ~e.server /\ d.result = e.result
  <2>1. ~d.server /\ ~e.server BY DEF Offers
  <2>2. e.server \in BOOLEAN /\ d.server \in BOOLEAN BY DEF Endpoint
  <2> QED BY <2>1, <2>2 DEF Offers
<1>7. Drops(x, x, NoOffer) BY DEF Drops
<1>8. e.result \in Dir BY DEF Endpoint
<1>9. /\ Undecided(p, e, y, x) => Undecided(p, d, y \o d.out, x)
      /\ Accepting(p, e, y, x) => Accepting(p, d, y \o d.out, x)
  BY <1>3, <1>6, <1>7, <1>8, TheirsKept
<1> QED BY <1>5, <1>9 DEF Undecided

\* See OffersKept.
LEMMA OffersParley ==
  ASSUME NEW d \in Endpoint, NEW e \in Endpoint, NEW p, NEW x, NEW y, Parley(e, p, x, y),
         Offers(d, e)
  PROVE  Parley(d, p, x, y \o d.out)
<1>1. /\ Unasked(e, p, x, y)
      /\ Accepting(p, e, y, x) \/ (Undecided(p, e, y, x) /\ e.result = Mirror[p.result])
  BY OwnUnasked DEF Offers
<1>2. d.result = e.result BY DEF Offers
<1> QED BY <1>1, <1>2, OffersKept DEF Parley

\* An offer of the peer is accepted.
LEMMA AnswersParley ==
  ASSUME NEW d, NEW e, NEW p, NEW t \in Seq(NoOffer), NEW y \in Seq(NoFinal),
         t \in Seq(NoFinal), y \in Seq(NoOffer), ~p.server, p.client # "none",
         p.offer \in Ways, Answers(d, e, p.offer)
  PROVE  Parley(d, p, t, y \o d.out)
<1>1. PICK l \in Ways : d.result = ComputeDirIncoming(l, p.offer) BY DEF Answers, Ways
<1>2. d.result \in Dir /\ ComputeDirOutgoing(p.offer, d.result) = Mirror[d.result]
  BY <1>1, AnswerMirrors
<1> DEFINE n == Response("INVITE", 200, d.result)
<1>3. d.out = <<n>> /\ d.client = "none" /\ ~d.server BY DEF Answers
<1>4. n \in NoOffer BY <1>2, OfferKinds
<1>5. y \in Seq(Other) BY SeqBoth, OfferKinds
<1> HIDE DEF n
<1>6. Holds(y \o <<n>>, Other, {n}, NoFinal) BY <1>5, HoldsNew
<1>7. Accepting(p, d, y \o d.out, t) BY <1>2, <1>3, <1>6 DEF Accepting, n
<1>8. y \o d.out \in Seq(NoOffer) BY <1>3, <1>4, Queue
<1>9. Unasked(d, p, t, y \o d.out) BY <1>3, <1>8 DEF Unasked
<1> QED BY <1>7, <1>9 DEF Parley, Undecided

\* An answer that was deferred is given.
LEMMA DeferredParley ==
  ASSUME NEW d, NEW e, NEW p, NEW x, NEW y, Parley(e, p, x, y), e.server,
         Answers(d, e, e.remote)
  PROVE  Parley(d, p, x, y \o d.out)
<1>1. Unasked(e, p, x, y) BY OwnUnasked DEF Answers
<1>2. Deferred(p, e, y, x)
  BY DEF Parley, Undecided, Unasked, Asking, Refusing, Accepting
<1> QED BY <1>1, <1>2, AnswersParley DEF Unasked, Deferred

\* An offer that finds none open is accepted or waits for the application.
LEMMA ServesParley ==
  ASSUME NEW d, NEW e, NEW p, NEW x, NEW y, Parley(e, p, x, y),
         x # <<>>, Head(x) \in Reinvite, e.client = "none",
         Answers(d, e, Head(x).dir) \/ Defers(d, e, Head(x).dir)
  PROVE  Parley(d, p, Tail(x), y \o d.out)
<1>1. Unasked(e, p, x, y) BY OwnUnasked
<1>2. /\ Asking(p, e, y, x) /\ Head(x).dir = p.offer /\ Tail(x) \in Seq(NoOffer)
      /\ e.result = Mirror[p.result]
  BY TheirsAsking DEF Request
<1>3. Tail(x) \in Seq(NoFinal) BY <1>1, Queue DEF Unasked
<1>4. CASE Answers(d, e, Head(x).dir)
  BY <1>1, <1>2, <1>3, <1>4, AnswersParley DEF Unasked, Asking
<1>5. CASE Defers(d, e, Head(x).dir)
  <2>1. y \o d.out = y BY <1>1, <1>5 DEF Defers, Unasked
  <2>2. Unasked(d, p, Tail(x), y) BY <1>1, <1>3, <1>5 DEF Unasked, Defers
  <2>3. Deferred(p, d, y, Tail(x)) BY <1>2, <1>5 DEF Asking, Deferred, Defers
  <2> QED BY <1>2, <1>5, <2>1, <2>2, <2>3 DEF Parley, Undecided, Defers
<1> QED BY <1>4, <1>5

\* An offer that crosses one is refused.
LEMMA CrossesParley ==
  ASSUME NEW d, NEW e, NEW p, NEW x, NEW y, Parley(e, p, x, y), e.result \in Dir,
         x # <<>>, Head(x) \in Reinvite, Steady(d, e),
         d.out = <<Response("INVITE", 491, "none")>>
  PROVE  Parley(d, p, Tail(x), y \o d.out)
<1>1. /\ Asking(p, e, y, x) /\ Tail(x) \in Seq(NoOffer)
      /\ Undecided(e, p, x, y) /\ e.result = Mirror[p.result]
  BY TheirsAsking
<1> DEFINE n == Response("INVITE", 491, "none")
<1>2. n \in InviteBusy /\ n \in NoOffer BY OfferKinds
<1>3. d.out = <<n>> OBVIOUS
<1> HIDE DEF n
<1>4. d.out \in Seq(NoOffer) BY <1>2, <1>3
<1>5. Drops(x, Tail(x), NoFinal) BY OfferKinds DEF Drops
<1>6. Undecided(d, p, Tail(x), y \o d.out)
  <2>1. (d.client = "none" <=> e.client = "none") /\ d.offer = e.offer BY DEF Steady
  <2> DEFINE s == d.out
  <2>2. s \in Seq(NoOffer) BY <1>4
  <2> HIDE DEF s
  <2>3. Undecided(d, p, Tail(x), y \o s) BY <1>1, <1>5, <2>1, <2>2, OwnKept
  <2> QED BY <2>3 DEF s
<1>7. Holds(y \o <<n>>, NoFinal, InviteBusy, NoFinal) BY <1>1, <1>2, HoldsNew DEF Asking
<1>8. Refusing(p, d, y \o d.out, Tail(x)) BY <1>1, <1>3, <1>7 DEF Refusing, Asking, Steady
<1> QED BY <1>1, <1>6, <1>8 DEF Parley, Undecided, Steady

\* The answer m to an offer of one's own: the refusal leaves the direction as it was,
\* the acceptance takes it to where the peer already is.
Settles(d, e, m) ==
  /\ d.client = "none" /\ d.out = <<>>
  /\ d.server = e.server /\ (e.server => d.remote = e.remote)
  /\ d.result = IF m.code = 200 THEN ComputeDirOutgoing(e.offer, m.dir) ELSE e.result

\* See Settles.
LEMMA FinalParley ==
  ASSUME NEW d, NEW e, NEW p, NEW x, NEW y, Parley(e, p, x, y), e.result \in Dir,
         p.result \in Dir, x # <<>>, Head(x) \in Final, e.client # "none" => Settles(d, e, Head(x))
  PROVE  Parley(d, p, Tail(x), y \o d.out)
<1> DEFINE m == Head(x)
<1>1. m \in Final /\ m \notin NoFinal /\ m \notin Other BY DEF NoFinal, Other
<1>2. x \notin Seq(NoFinal) BY <1>1, Queue
<1>3. ~Unasked(e, p, x, y) /\ ~Asking(e, p, x, y) /\ ~Deferred(e, p, x, y)
  BY <1>2 DEF Unasked, Asking, Deferred
<1>4. Refusing(e, p, x, y) \/ Accepting(e, p, x, y) BY <1>3 DEF Parley, Undecided
<1>5. e.client # "none" /\ ~p.server /\ y \in Seq(NoOffer)
  BY <1>4 DEF Refusing, Accepting
<1>6. /\ d.client = "none" /\ d.out = <<>>
      /\ d.server = e.server /\ (e.server => d.remote = e.remote)
      /\ d.result = IF m.code = 200 THEN ComputeDirOutgoing(e.offer, m.dir) ELSE e.result
  BY <1>5 DEF Settles
<1>7. y \o d.out = y BY <1>5, <1>6
<1>8. Undecided(p, e, y, x) => Undecided(p, d, y, Tail(x))
  <2>1. Drops(x, Tail(x), NoOffer) BY <1>1, OfferKinds DEF Drops
  <2>2. <<>> \in Seq(NoFinal) OBVIOUS
  <2>3. Undecided(p, e, y, x) => Undecided(p, d, y \o <<>>, Tail(x))
    BY <1>6, <2>1, <2>2, TheirsKept, ZenonT(40)
  <2> QED BY <1>5, <2>3
<1>9. ASSUME Refusing(e, p, x, y) PROVE m \in InviteBusy /\ Tail(x) \in Seq(NoFinal)
  <2>1. InviteBusy \subseteq Msg /\ NoFinal \subseteq Msg BY DEF InviteBusy, NoFinal
  <2> QED BY <1>1, <1>9, <2>1, HoldsFirst DEF Refusing
<1>10. ASSUME Accepting(e, p, x, y)
       PROVE  m = Response("INVITE", 200, p.result) /\ Tail(x) \in Seq(NoFinal)
  <2> DEFINE B == {Response("INVITE", 200, p.result)}
  <2>1. B \subseteq Msg BY OfferKinds DEF InviteOk
  <2>2. Holds(x, Other, B, NoFinal) BY <1>10 DEF Accepting
  <2> HIDE DEF B
  <2>3. Other \subseteq Msg /\ NoFinal \subseteq Msg BY DEF Other, NoFinal
  <2>4. m \in B /\ Tail(x) \in Seq(NoFinal) BY <1>1, <2>1, <2>2, <2>3, HoldsFirst
  <2> QED BY <2>4 DEF B
<1> HIDE DEF m
<1>11. CASE Refusing(e, p, x, y) /\ ~Accepting(e, p, x, y)
  <2>1. d.result = e.result BY <1>6, <1>9, <1>11 DEF InviteBusy
  <2>2. Unasked(d, p, Tail(x), y) BY <1>5, <1>6, <1>9, <1>11 DEF Unasked
  <2>3. CASE Undecided(p, e, y, x) /\ e.result = Mirror[p.result]
    BY <1>7, <1>8, <2>1, <2>2, <2>3 DEF Parley, Undecided
  <2>4. CASE Accepting(p, e, y, x)
    <3>1. Drops(x, Tail(x), NoOffer) BY <1>1, OfferKinds DEF Drops, m
    <3>2. <<>> \in Seq(NoFinal) OBVIOUS
    <3>3. Accepting(p, d, y \o <<>>, Tail(x))
      BY <1>6, <2>1, <2>4, <3>1, <3>2, TheirsKept, ZenonT(40)
    <3>4. Accepting(p, d, y, Tail(x)) BY <1>5, <3>3
    <3> QED BY <1>7, <2>2, <3>4 DEF Parley, Undecided
  <2> QED BY <1>11, <2>3, <2>4 DEF Parley
<1>12. CASE Accepting(e, p, x, y)
  <2>1. m.code = 200 /\ m.dir = p.result BY <1>10, <1>12 DEF Response
  <2>2. d.result = Mirror[p.result] BY <1>6, <1>12, <2>1 DEF Accepting
  <2>3. Unasked(d, p, Tail(x), y) BY <1>5, <1>6, <1>10, <1>12 DEF Unasked
  <2>4. ~Refusing(e, p, x, y)
    <3>1. Response("INVITE", 200, p.result) \notin InviteBusy BY DEF InviteBusy, Response
    <3> QED BY <1>9, <1>10, <1>12, <3>1
  <2>5. Undecided(p, e, y, x) BY <1>3, <2>4 DEF Parley, Undecided
  <2> QED BY <1>7, <1>8, <2>2, <2>3, <2>5 DEF Parley, Undecided
<1> QED BY <1>4, <1>11, <1>12

\* A step of an established session that does not end it.
LEMMA TalksParley ==
  ASSUME NEW d \in Endpoint, NEW e \in Endpoint, NEW p \in Endpoint,
         NEW x \in Seq(Msg), NEW y, NEW t,
         Parley(e, p, x, y), Talks(d, e, x, t), d.state \notin OverState
  PROVE  Parley(d, p, t, y \o d.out)
<1>1. e.result \in Dir /\ p.result \in Dir BY DEF Endpoint
<1>2. CASE Initiates(d, e) /\ t = x
  <2>1. \/ d.out = <<>> /\ Steady(d, e)
        \/ Offers(d, e)
        \/ e.server /\ Answers(d, e, e.remote)
    BY <1>2 DEF Initiates
  <2>2. CASE d.out = <<>> /\ Steady(d, e)
    <3>1. Unmoved(d, e) BY <2>2 DEF Steady, Unmoved
    <3>2. d.out \in Seq(Other) /\ Drops(x, t, Other) BY <1>2, <2>2 DEF Drops
    <3> QED BY <1>1, <3>1, <3>2, StillParley
  <2>3. CASE Offers(d, e) BY <1>2, <2>3, OffersParley
  <2>4. CASE e.server /\ Answers(d, e, e.remote) BY <1>2, <2>4, DeferredParley
  <2> QED BY <2>1, <2>2, <2>3, <2>4
<1>3. CASE x # <<>> /\ Responds(d, e, Head(x)) /\ t = Tail(x)
  <2> DEFINE m == Head(x)
  <2>1. m \in Msg BY <1>3, Queue
  <2>2. \/ m \in Reinvite /\ Steady(d, e) /\ d.out = <<Response("INVITE", 491, "none")>>
        \/ /\ m \in Reinvite /\ e.client = "none"
           /\ Answers(d, e, m.dir) \/ Defers(d, e, m.dir)
        \/ m \notin Reinvite /\ Notes(d, e, m)
        \/ m \in Other /\ Unmoved(d, e) /\ d.out \in Seq(Other)
    BY <1>3 DEF Responds
  <2>3. CASE m \in Reinvite /\ Steady(d, e) /\ d.out = <<Response("INVITE", 491, "none")>>
    BY <1>1, <1>3, <2>3, CrossesParley
  <2>4. CASE m \in Reinvite /\ e.client = "none" /\ (Answers(d, e, m.dir) \/ Defers(d, e, m.dir))
    BY <1>3, <2>4, ServesParley
  <2>5. CASE m \in Final /\ Notes(d, e, m)
    <3>1. e.client # "none" => Settles(d, e, m) BY <2>5 DEF Notes, Settles
    <3> QED BY <1>1, <1>3, <2>5, <3>1, FinalParley
  <2>6. CASE m \in Other /\ Unmoved(d, e) /\ d.out \in Seq(Other)
    <3>1. Drops(x, t, Other) BY <1>3, <2>6 DEF Drops
    <3> QED BY <1>1, <2>6, <3>1, StillParley
  <2>7. CASE m \notin Reinvite /\ m \notin Final /\ Notes(d, e, m)
    <3>1. m \in Other BY <2>1, <2>7 DEF Other
    <3>2. d.out = <<>> /\ Unmoved(d, e) BY <2>7 DEF Notes, Unmoved
    <3>3. d.out \in Seq(Other) BY <3>2
    <3> QED BY <2>6, <3>1, <3>2, <3>3
  <2> QED BY <2>2, <2>3, <2>4, <2>5, <2>6, <2>7
<1> QED BY <1>2, <1>3 DEF Talks

(***************************************************************************)
(* The negotiation of a call.                                              *)
(***************************************************************************)

\* Once the callee has answered, and while the caller has not given up: the answer is
\* on its way, or both sides negotiate.
Negotiated(c, k, x, y) ==
  k.state \in EstablishedState /\ c.state \notin OverState =>
    IF c.state \in EstablishedState THEN Parley(c, k, x, y)
    ELSE Accepting(c, k, x, y) /\ Undecided(k, c, y, x)

\* Where a call is whose callee only is established.
LEMMA HalfEstablished ==
  ASSUME NEW c, NEW k, NEW x, NEW y, Settled(c), Settled(k), ~c.incoming, c.info = "none",
         Stage(c, k, x, y), k.state \in EstablishedState,
         c.state \notin OverState \cup EstablishedState
  PROVE  AnsweringStage(c, k, x, y)
<1> USE DEF Settled
<1>1. ~Unknown(k) /\ ~Lost(k) /\ k.state # "IncomingReceived" BY EstablishedOpen
<1>2. ~Lost(c) BY LostFacts
<1>3. ~Open(c) BY OpenFacts
<1>4. ~ConnectedStage(c, k, x, y) BY <1>2, <1>3 DEF ConnectedStage, Side
<1> QED BY <1>1, <1>2, <1>4 DEF Stage, FreshStage, CallingStage, RingingStage,
                                DeclinedStage, DeafStage

\* The messages of the set-up are no offers inside a dialog.
LEMMA SetupKinds ==
  /\ Provisional \subseteq Other /\ Cancels \subseteq Other
  /\ Answered \in Final /\ Tame \cap Cancels = {}
<1>1. Provisional \subseteq Other BY DEF Provisional, Other, Reinvite, Final
<1>2. Cancels \subseteq Other BY DEF Cancels, Other, Reinvite, Final
<1>3. Answered \in Final BY OfferKinds DEF Answered, Dir
<1>4. Tame \cap Cancels = {} BY DEF Tame, Cancels
<1> QED BY <1>1, <1>2, <1>3, <1>4

\* What the caller makes of its wait for the answer.
LEMMA CallerWaits ==
  ASSUME NEW c, NEW k, NEW x \in Seq(Msg), NEW y \in Seq(Msg), Settled(c), Settled(k),
         ~c.incoming, c.info = "none", AnsweringStage(c, k, x, y),
         NEW d \in Endpoint, EndpointInv(d), Course(d, c), NEW t, Steps(d, c, x, t),
         d.state \notin EstablishedState \cup OverState
  PROVE  Pending(d) /\ d.out \in Seq(Other) /\ Drops(x, t, Other)
<1> USE DEF Settled
<1>1. Pending(c) /\ Holds(x, Provisional, {Answered}, Plain) BY DEF AnsweringStage
<1>2. Goes(d, c, x, t) BY StepsGoes
<1>3. ~Forsaken(d, c) BY DEF Forsaken
<1>4. CASE Acts(d, c) /\ t = x
  <2>1. Waiting(d, c) BY <1>1, <1>3, <1>4, PendingActs
  <2> QED BY <1>4, <2>1, SetupKinds, SeqMonotonic DEF Waiting, Drops
<1>5. CASE x # <<>> /\ Reacts(d, c, Head(x)) /\ t = Tail(x)
  <2>1. Head(x) \in Provisional \/ Head(x) = Answered BY <1>1, BeforeAnswer
  <2>2. Head(x) # Answered
    <3> SUFFICES ASSUME Head(x) = Answered PROVE FALSE OBVIOUS
    <3>1. Lasting(d, c) BY <1>1, <1>5, PendingReacts
    <3>2. Open(d) /\ Grounded(d) BY <3>1 DEF Lasting, Course
    <3> QED BY <3>2, OpenFacts
  <2>3. Waiting(d, c) BY <1>1, <1>3, <1>5, <2>1, <2>2, PendingReacts
  <2> QED BY <1>5, <2>1, <2>2, <2>3, SetupKinds, SeqMonotonic DEF Waiting, Drops
<1> QED BY <1>2, <1>4, <1>5 DEF Goes

\* A step of the caller.
LEMMA CallerNegotiated ==
  ASSUME NEW c, NEW k, NEW x \in Seq(Msg), NEW y \in Seq(Msg), Settled(c), Settled(k),
         ~c.incoming, Stage(c, k, x, y), Fine(c), Civil(c, k, x, y), Negotiated(c, k, x, y),
         NEW d \in Endpoint, EndpointInv(d), Fine(d), Course(d, c), NEW t, Steps(d, c, x, t)
  PROVE  Negotiated(d, k, t, y \o d.out)
<1> USE DEF Settled
<1> SUFFICES ASSUME k.state \in EstablishedState, d.state \notin OverState
             PROVE  IF d.state \in EstablishedState THEN Parley(d, k, t, y \o d.out)
                    ELSE Accepting(d, k, t, y \o d.out) /\ Undecided(k, d, y \o d.out, t)
  BY DEF Negotiated
<1>1. c.state \notin OverState BY DEF Course, Onward
<1>2. c.info = "none" BY DEF Fine, Calm
<1>3. /\ x \in Seq(NoCancel) /\ CallerPlace(c, k, x)
      /\ c.state \in EstablishedState => x \in Seq(Tame)
  BY <1>1, <1>2, StagePlaces DEF Civil
<1>4. /\ c.state \in EstablishedState => Talks(d, c, x, t)
      /\ c.state \notin EstablishedState /\ d.state \in EstablishedState =>
           Begun(d) /\ d.out = <<>> /\ Pending(c) /\ x # <<>> /\ Head(x) = Answered
           /\ t = Tail(x)
  BY <1>3, CallerFine
<1>5. c.result \in Dir /\ k.result \in Dir BY DEF Endpoint
<1>6. CASE c.state \in EstablishedState
  <2>1. d.state \in EstablishedState
    BY <1>4, <1>6 DEF Talks, Initiates, Responds, Abides
  <2>2. Parley(c, k, x, y) BY <1>1, <1>6 DEF Negotiated
  <2> QED BY <1>4, <1>6, <2>1, <2>2, TalksParley
<1>7. CASE c.state \notin EstablishedState
  <2>1. Accepting(c, k, x, y) /\ Undecided(k, c, y, x) BY <1>1, <1>7 DEF Negotiated
  <2>2. AnsweringStage(c, k, x, y) BY <1>1, <1>2, <1>7, HalfEstablished
  <2>3. Pending(c) /\ c.client # "none" /\ c.offer = "sendrecv"
    BY <1>1, <2>2 DEF AnsweringStage, Pending
  <2>4. ~c.server BY <1>1, <2>3 DEF Fine, Pending, EarlyState
  <2>5. c.server \in BOOLEAN /\ d.server \in BOOLEAN BY DEF Endpoint
  <2>6. CASE d.state \in EstablishedState
    <3>1. /\ Begun(d) /\ d.out = <<>> /\ x # <<>> /\ Head(x) = Answered /\ t = Tail(x)
      BY <1>4, <1>7, <2>6
    <3>2. Answered.code = 200 /\ Answered.dir = "sendrecv" BY DEF Answered, Response
    <3>3. ComputeDirOutgoing("sendrecv", "sendrecv") = "sendrecv" BY DEF ComputeDirOutgoing
    <3>4. Settles(d, c, Head(x))
      BY <2>3, <2>4, <2>5, <3>1, <3>2, <3>3 DEF Settles, Begun
    <3>5. Parley(c, k, x, y) BY <2>1 DEF Parley
    <3> QED BY <1>5, <2>6, <3>1, <3>4, <3>5, SetupKinds, FinalParley
  <2>7. CASE d.state \notin EstablishedState
    <3>1. Pending(d) /\ d.out \in Seq(Other) /\ Drops(x, t, Other)
      BY <1>2, <2>2, <2>7, CallerWaits
    <3>2. d.client # "none" /\ d.offer = "sendrecv" BY <3>1 DEF Pending
    <3>3. ~d.incoming BY DEF Course
    <3>4. ~d.server BY <3>1, <3>3 DEF Fine, Pending, EarlyState
    <3>5. d.out \in Seq(NoOffer) /\ d.out \in Seq(NoFinal)
      BY <3>1, OfferKinds, SeqMonotonic
    <3>6. Drops(x, t, NoOffer) BY <3>1, OfferKinds DEF Drops
    <3>7. Accepting(d, k, t, y \o d.out) BY <2>1, <2>3, <3>1, <3>2, <3>5, OwnKept
    <3>8. Undecided(k, d, y \o d.out, t)
      BY <2>1, <2>4, <2>5, <3>4, <3>5, <3>6, TheirsKept
    <3> QED BY <2>7, <3>7, <3>8
  <2> QED BY <2>6, <2>7
<1> QED BY <1>6, <1>7

\* The callee accepts: its answer is on its way.
LEMMA AcceptNegotiated ==
  ASSUME NEW c, NEW k, NEW x \in Seq(Msg), NEW y \in Seq(Msg), Settled(c), Settled(k),
         ~c.incoming, k.incoming, Stage(c, k, x, y), Fine(c), c.state \notin OverState,
         Pending(c), k.state = "IncomingReceived",
         NEW d \in Endpoint, EndpointInv(d), Does(d, k), Begun(d)
  PROVE  Accepting(c, d, x \o d.out, y) /\ Undecided(d, c, y, x \o d.out)
<1> USE DEF Settled
<1>1. c.info = "none" BY DEF Fine, Calm
<1>2. ~Unknown(k) BY DEF Unknown, EndpointInv, FreshInv
<1>3. ~Open(k) /\ ~Lost(k) BY DEF Open, Lost, EarlyState, OverState
<1>4. RingingStage(c, k, x, y)
  BY <1>1, <1>2, <1>3 DEF Stage, FreshStage, CallingStage, AnsweringStage, DeclinedStage,
                          DeafStage, ConnectedStage, Side
<1>5. x \in Seq(Provisional) /\ y \in Seq(Cancels) /\ k.remote = "sendrecv"
  BY <1>4 DEF RingingStage
<1>6. d.out = <<Answered>>
  <2>1. Acts(d, k) BY DoesActs
  <2>2. d.state \in EstablishedState /\ d.state # "IncomingReceived"
    BY DEF Begun, EstablishedState
  <2>3. ~Lost(d) BY <2>2, NotEstablished
  <2> QED BY <1>5, <2>1, <2>2, <2>3, RingingActs
<1>7. x \in Seq(Other) /\ x \in Seq(NoOffer) /\ y \in Seq(NoOffer) /\ y \in Seq(NoFinal)
  <2>1. /\ Provisional \subseteq Other /\ Provisional \subseteq NoOffer
        /\ Cancels \subseteq NoOffer /\ Cancels \subseteq NoFinal
    BY SetupKinds, OfferKinds
  <2> QED BY <1>5, <2>1, SeqMonotonic
<1>8. c.client # "none" /\ c.offer = "sendrecv" BY DEF Pending
<1>9. ~c.server BY DEF Fine, Pending, EarlyState
<1>10. d.result = "sendrecv" /\ d.client = "none" /\ ~d.server BY DEF Begun
<1>11. Answered = Response("INVITE", 200, d.result) BY <1>10 DEF Answered
<1>12. Answered \in NoOffer BY SetupKinds, OfferKinds
<1>13. Holds(x \o <<Answered>>, Other, {Answered}, NoFinal) BY <1>7, HoldsNew
<1>14. x \o <<Answered>> \in Seq(NoOffer) BY <1>7, <1>12, Queue
<1>15. ComputeDirOutgoing("sendrecv", "sendrecv") = Mirror["sendrecv"]
  BY DEF ComputeDirOutgoing, Mirror, Dir
<1>16. Accepting(c, d, x \o d.out, y)
  BY <1>6, <1>7, <1>8, <1>10, <1>11, <1>13, <1>15 DEF Accepting
<1>17. Unasked(d, c, y, x \o d.out) BY <1>6, <1>7, <1>9, <1>10, <1>14 DEF Unasked
<1> QED BY <1>16, <1>17 DEF Undecided

\* A step of the callee.
LEMMA CalleeNegotiated ==
  ASSUME NEW c, NEW k, NEW x \in Seq(Msg), NEW y \in Seq(Msg), Settled(c), Settled(k),
         ~c.incoming, k.incoming, Stage(c, k, x, y), Fine(c), Fine(k), Civil(c, k, x, y),
         Negotiated(c, k, x, y),
         NEW d \in Endpoint, EndpointInv(d), Course(d, k), NEW t, Steps(d, k, y, t)
  PROVE  Negotiated(c, d, x \o d.out, t)
<1> USE DEF Settled
<1> SUFFICES ASSUME d.state \in EstablishedState, c.state \notin OverState
             PROVE  IF c.state \in EstablishedState THEN Parley(c, d, x \o d.out, t)
                    ELSE Accepting(c, d, x \o d.out, t) /\ Undecided(d, c, t, x \o d.out)
  BY DEF Negotiated
<1>1. c.info = "none" BY DEF Fine, Calm
<1>2. y \in Seq(Tame) BY DEF Civil
<1>3. y \in Seq(Tame \cup Cancels) /\ CalleePlace(c, k, y) BY <1>1, StagePlaces DEF Civil
<1>4. ~(y # <<>> /\ Head(y) \in Cancels) BY <1>2, Queue, SetupKinds
<1>5. /\ k.state \in EstablishedState => Talks(d, k, y, t)
      /\ k.state \notin EstablishedState =>
           Begun(d) /\ k.state = "IncomingReceived" /\ Does(d, k) /\ Pending(c) /\ t = y
  BY <1>3, <1>4, CalleeFine
<1>6. d.state \notin OverState BY DEF EstablishedState, OverState
<1>7. CASE k.state \in EstablishedState /\ c.state \in EstablishedState
  <2>1. Parley(k, c, y, x) BY <1>7, ParleyBoth DEF Negotiated
  <2>2. Parley(d, c, t, x \o d.out) BY <1>5, <1>6, <1>7, <2>1, TalksParley
  <2> QED BY <1>7, <2>2, ParleyBoth
<1>8. CASE k.state \in EstablishedState /\ c.state \notin EstablishedState
  <2>1. Accepting(c, k, x, y) /\ Undecided(k, c, y, x) BY <1>8 DEF Negotiated
  <2>2. AnsweringStage(c, k, x, y) BY <1>1, <1>8, HalfEstablished
  <2>3. y = <<>>
    <3>1. y \in Seq(Tame \cap Cancels) BY <1>2, <2>2, SeqBoth DEF AnsweringStage
    <3>2. y # <<>> => Head(y) \in Tame \cap Cancels BY <3>1, Queue
    <3> QED BY <3>2, SetupKinds
  <2>4. t = y /\ Initiates(d, k) BY <1>5, <1>8, <2>3 DEF Talks
  <2>5. ~k.server BY <2>1 DEF Accepting
  <2>6. (d.out = <<>> /\ Steady(d, k)) \/ Offers(d, k) BY <1>6, <2>4, <2>5 DEF Initiates
  <2>7. CASE d.out = <<>> /\ Steady(d, k)
    <3>1. Unmoved(d, k) BY <2>7 DEF Steady, Unmoved
    <3>2. d.out \in Seq(Other) /\ Drops(y, t, Other) BY <2>4, <2>7 DEF Drops
    <3>3. k.result \in Dir BY DEF Endpoint
    <3>4. Undecided(d, c, t, x \o d.out) /\ Accepting(c, d, x \o d.out, t)
      BY <2>1, <3>1, <3>2, <3>3, StillKept
    <3> QED BY <1>8, <3>4
  <2>8. CASE Offers(d, k)
    <3>1. k.client = "none" BY <2>8 DEF Offers
    <3>2. Unasked(k, c, y, x)
      BY <2>1, <3>1 DEF Undecided, Asking, Deferred, Refusing
    <3>3. Undecided(d, c, y, x \o d.out) /\ Accepting(c, d, x \o d.out, y)
      BY <2>1, <2>8, <3>2, OffersKept
    <3> QED BY <1>8, <2>4, <3>3
  <2> QED BY <2>6, <2>7, <2>8
<1>9. CASE k.state \notin EstablishedState
  <2>1. Accepting(c, d, x \o d.out, y) /\ Undecided(d, c, y, x \o d.out)
    BY <1>5, <1>9, AcceptNegotiated
  <2>2. c.state \notin EstablishedState BY <1>5, <1>9, EstablishedOpen
  <2> QED BY <1>5, <1>9, <2>1, <2>2
<1> QED BY <1>7, <1>8, <1>9

(***************************************************************************)
(* The loss of the first INVITE.                                           *)
(***************************************************************************)

\* SalCallOp::processTimeoutCb() leaves no disorder.
LEMMA TimeoutFine ==
  ASSUME NEW e, Settled(e), Fine(e), e.client # "none", e.dialog = "None",
         Lost(e) \/ Dialled(e),
         NEW d, d = ProcessTimeout(e), EndpointInv(d)
  PROVE  /\ Fine(d) /\ d.state \notin EstablishedState /\ Course(d, e) /\ d \in Endpoint
         /\ Lost(e) => Lost(d)
<1> USE DEF Settled
<1>1. /\ d \in Endpoint /\ Course(d, e)
      /\ Lost(e) => Lost(d) /\ d.info = e.info
      /\ Dialled(e) => Starting(d)
  BY TimeoutFacts
<1>2. e.info = "none" /\ Tidy(e) BY DEF Fine, Calm
<1>3. d.info = "none" BY <1>1, <1>2 DEF Starting
<1>4. d.state \notin EstablishedState BY <1>1, NotEstablished
<1>5. Calm(d) BY <1>3, <1>4, CalmOutside
<1>6. CASE e.op = "Terminated"
  <2> DEFINE r == [e EXCEPT !.client = "none"]
  <2>1. /\ r.released = e.released /\ r.releaseLater = e.releaseLater /\ r.dialog = e.dialog
        /\ r.attached = e.attached /\ r.incoming = e.incoming /\ r.state = e.state
        /\ r.server = e.server /\ r.op = e.op
    BY DEF Endpoint
  <2>2. d = r BY <1>6, <2>1 DEF ProcessTimeout
  <2> HIDE DEF r
  <2>3. Tidy(d) BY <1>2, <2>1, <2>2, TidySame
  <2> QED BY <1>1, <1>4, <1>5, <2>1, <2>2, <2>3 DEF Fine
<1>7. CASE e.op # "Terminated"
  <2>1. e.state # "Idle"
    BY DEF EndpointInv, RequestInv, TransientState, OverState
  <2>2. d.state = "Released" BY <1>7, <2>1, ProcessTimeoutFacts
  <2>3. Tidy(d) BY <1>1, <2>2, TidySafe
  <2> QED BY <1>1, <1>4, <1>5, <2>2, <2>3 DEF Fine, EarlyState
<1> QED BY <1>6, <1>7

\* It is the INVITE that starts the call, or one to an endpoint whose dialog is gone.
LEMMA TimeoutPlace ==
  ASSUME NEW c, NEW k, NEW x \in Seq(Msg), NEW y \in Seq(Msg), c.info = "none",
         Stage(c, k, x, y)
  PROVE  /\ /\ c.client = "calling" /\ c.dialog = "None"
            /\ y # <<>> /\ Head(y).method = "INVITE" /\ Head(y).code = 0
            => Lost(c) \/ Dialled(c)
         /\ /\ k.client = "calling" /\ k.dialog = "None"
            /\ x # <<>> /\ Head(x).method = "INVITE" /\ Head(x).code = 0
            => Lost(k)
<1>0. \A m \in Provisional \cup Refusal \cup CancelAnswer \cup Cancels \cup {Answered} :
        ~(m.method = "INVITE" /\ m.code = 0)
  BY DEF Provisional, Refusal, CancelAnswer, Cancels, Answered, Response
<1>1. CASE FreshStage(c, k, x, y) \/ CallingStage(c, k, x, y)
  BY <1>1 DEF FreshStage, CallingStage
<1>2. CASE RingingStage(c, k, x, y) \/ DeclinedStage(c, k, x, y)
  <2>1. y \in Seq(Cancels) BY <1>2 DEF RingingStage, DeclinedStage
  <2>2. x \in Seq(Provisional \cup Refusal \cup CancelAnswer)
    BY <1>2, SeqMonotonic DEF RingingStage, DeclinedStage
  <2>3. y # <<>> => Head(y) \in Cancels BY <2>1
  <2>4. x # <<>> => Head(x) \in Provisional \cup Refusal \cup CancelAnswer BY <2>2
  <2> QED BY <1>0, <2>3, <2>4
<1>3. CASE AnsweringStage(c, k, x, y)
  <2>1. y \in Seq(Cancels) BY <1>3 DEF AnsweringStage
  <2>2. y # <<>> => Head(y) \in Cancels BY <2>1
  <2>3. ~(k.dialog = "None") BY <1>3 DEF AnsweringStage, Open
  <2> QED BY <1>0, <2>2, <2>3
<1>4. CASE ConnectedStage(c, k, x, y)
  <2>1. Lost(c) \/ c.dialog = "Confirmed" BY <1>4 DEF ConnectedStage, Side, Open
  <2>2. Lost(k) \/ k.dialog = "Confirmed" BY <1>4 DEF ConnectedStage, Side, Open
  <2> QED BY <2>1, <2>2
<1> QED BY <1>1, <1>2, <1>3, <1>4 DEF Stage, DeafStage

(***************************************************************************)
(* The invariant of a call that is renegotiated.                           *)
(***************************************************************************)

\* Both sides are in good order, what an application deferred can still be answered
\* unless the peer has given up, and the two negotiate.
Pact(c, k, x, y) ==
  /\ Fine(c) /\ Fine(k) /\ Deferring(c, k) /\ Deferring(k, c)
  /\ Civil(c, k, x, y) /\ Negotiated(c, k, x, y)

\* A step of the caller.
LEMMA CallerPact ==
  ASSUME NEW c, NEW k, NEW x \in Seq(Msg), NEW y \in Seq(Msg), Settled(c), Settled(k),
         ~c.incoming, Stage(c, k, x, y), Pact(c, k, x, y),
         NEW d \in Endpoint, EndpointInv(d), Course(d, c), NEW t, Steps(d, c, x, t)
  PROVE  Pact(d, k, t, y \o d.out)
<1>1. /\ Fine(c) /\ Fine(k) /\ Deferring(c, k) /\ Deferring(k, c)
      /\ Civil(c, k, x, y) /\ Negotiated(c, k, x, y)
  BY DEF Pact
<1>2. CallerPlace(c, k, x) BY <1>1, StagePlaces DEF Fine, Calm
<1>3. c.state \in EstablishedState => c.state \notin OverState
  BY DEF EstablishedState, OverState
<1>4. x \in Seq(NoCancel) /\ (c.state \in EstablishedState => x \in Seq(Tame))
  BY <1>1, <1>3 DEF Civil
<1>5. Fine(d) BY <1>1, <1>2, <1>4, CallerFine
<1>6. Deferring(d, k) BY <1>1, <1>2, <1>4, CallerDeferring
<1>7. Deferring(k, d) BY <1>1, PeerDeferring
<1>8. Civil(d, k, t, y \o d.out) BY <1>1, CallerCivil
<1>9. Negotiated(d, k, t, y \o d.out) BY <1>1, <1>5, CallerNegotiated
<1> QED BY <1>1, <1>5, <1>6, <1>7, <1>8, <1>9 DEF Pact

\* A step of the callee.
LEMMA CalleePact ==
  ASSUME NEW c, NEW k, NEW x \in Seq(Msg), NEW y \in Seq(Msg), Settled(c), Settled(k),
         ~c.incoming, k.incoming, Stage(c, k, x, y), Pact(c, k, x, y),
         NEW d \in Endpoint, EndpointInv(d), Course(d, k), NEW t, Steps(d, k, y, t)
  PROVE  Pact(c, d, x \o d.out, t)
<1>1. /\ Fine(c) /\ Fine(k) /\ Deferring(c, k) /\ Deferring(k, c)
      /\ Civil(c, k, x, y) /\ Negotiated(c, k, x, y)
  BY DEF Pact
<1>2. CalleePlace(c, k, y) BY <1>1, StagePlaces DEF Fine, Calm
<1>3. y \in Seq(Tame \cup Cancels) /\ (c.state \notin OverState => y \in Seq(Tame))
  BY <1>1 DEF Civil
<1>4. Fine(d) BY <1>1, <1>2, <1>3, CalleeFine
<1>5. Deferring(d, c) BY <1>1, <1>2, <1>3, CalleeDeferring
<1>6. Deferring(c, d) BY <1>1, PeerDeferring
<1>7. Civil(c, d, x \o d.out, t) BY <1>1, CalleeCivil
<1>8. Negotiated(c, d, x \o d.out, t) BY <1>1, CalleeNegotiated
<1> QED BY <1>1, <1>4, <1>5, <1>6, <1>7, <1>8 DEF Pact

\* The loss of an INVITE.
LEMMA TimeoutPact ==
  ASSUME NEW c, NEW k, NEW x \in Seq(Msg), NEW y \in Seq(Msg), Settled(c), Settled(k),
         ~c.incoming, Stage(c, k, x, y), Pact(c, k, x, y)
  PROVE  /\ /\ c.client = "calling" /\ c.dialog = "None"
            /\ y # <<>> /\ Head(y).method = "INVITE" /\ Head(y).code = 0
            /\ EndpointInv(ProcessTimeout(c))
            => Pact(ProcessTimeout(c), k, x, Tail(y))
         /\ /\ k.client = "calling" /\ k.dialog = "None"
            /\ x # <<>> /\ Head(x).method = "INVITE" /\ Head(x).code = 0
            /\ EndpointInv(ProcessTimeout(k))
            => Pact(c, ProcessTimeout(k), Tail(x), y)
<1> USE DEF Settled
<1>1. /\ Fine(c) /\ Fine(k) /\ Deferring(c, k) /\ Deferring(k, c)
      /\ Civil(c, k, x, y) /\ Negotiated(c, k, x, y)
  BY DEF Pact
<1>2. c.info = "none" BY <1>1 DEF Fine, Calm
<1>3. ASSUME c.client = "calling", c.dialog = "None", y # <<>>,
             Head(y).method = "INVITE", Head(y).code = 0, NEW d, d = ProcessTimeout(c),
             EndpointInv(d)
      PROVE  Pact(d, k, x, Tail(y))
  <2>1. Lost(c) \/ Dialled(c) BY <1>2, <1>3, TimeoutPlace
  <2>2. /\ Fine(d) /\ d.state \notin EstablishedState /\ Course(d, c) /\ d \in Endpoint
        /\ Lost(c) => Lost(d)
    BY <1>1, <1>3, <2>1, TimeoutFine
  <2>3. Deferring(d, k) /\ Deferring(k, d)
    BY <1>1, <2>2, PeerDeferring DEF Deferring, EstablishedState
  <2>4. d.state \notin OverState => c.state \notin OverState BY <2>2 DEF Course, Onward
  <2>5. Tail(y) \in Seq(Tame \cup Cancels) BY <1>1, <1>3, Queue DEF Civil
  <2>6. d.state \notin OverState => Tail(y) \in Seq(Tame)
    BY <1>1, <1>3, <2>4, Queue DEF Civil
  <2>7. Civil(d, k, x, Tail(y)) BY <1>1, <2>2, <2>4, <2>5, <2>6 DEF Civil
  <2>8. k.state \in EstablishedState => d.state \in OverState
    <3>1. CASE Lost(c)
      <4>1. Lost(d) /\ ~d.incoming BY <2>2, <3>1 DEF Course
      <4> QED BY <4>1 DEF Lost
    <3>2. CASE Dialled(c)
      <4>1. c.client # "none" /\ c.dialog = "None" /\ Pending(c) BY <3>2 DEF Dialled, Pending
      <4>2. c.op # "Terminated" /\ c.state # "Idle" BY <4>1 DEF Pending, OverState
      <4>3. d.state = "Released" BY <1>3, <4>1, <4>2, ProcessTimeoutFacts
      <4> QED BY <4>3 DEF OverState
    <3> QED BY <2>1, <3>1, <3>2
  <2>9. Negotiated(d, k, x, Tail(y)) BY <2>8 DEF Negotiated
  <2> QED BY <1>1, <2>2, <2>3, <2>7, <2>9 DEF Pact
<1>4. ASSUME k.client = "calling", k.dialog = "None", x # <<>>,
             Head(x).method = "INVITE", Head(x).code = 0, NEW d, d = ProcessTimeout(k),
             EndpointInv(d)
      PROVE  Pact(c, d, Tail(x), y)
  <2>1. Lost(k) BY <1>2, <1>4, TimeoutPlace
  <2>2. /\ Fine(d) /\ d.state \notin EstablishedState /\ Course(d, k) /\ d \in Endpoint
        /\ Lost(k) => Lost(d)
    BY <1>1, <1>4, <2>1, TimeoutFine
  <2>3. Deferring(d, c) /\ Deferring(c, d)
    BY <1>1, <2>2, PeerDeferring DEF Deferring, EstablishedState
  <2>4. Tail(x) \in Seq(NoCancel) BY <1>1, <1>4, Queue DEF Civil
  <2>5. c.state \notin OverState /\ (c.state \in EstablishedState \/ ~Lost(d)) =>
          Tail(x) \in Seq(Tame)
    BY <1>1, <1>4, <2>1, <2>2, Queue DEF Civil
  <2>6. Civil(c, d, Tail(x), y) BY <1>1, <2>4, <2>5 DEF Civil
  <2>7. Negotiated(c, d, Tail(x), y) BY <2>2 DEF Negotiated
  <2> QED BY <1>1, <2>2, <2>3, <2>6, <2>7 DEF Pact
<1> QED BY <1>3, <1>4

\* Nothing of this depends on what an endpoint has just sent.
LEMMA PactRest ==
  ASSUME NEW c, NEW k, NEW x, NEW y, NEW d \in Endpoint
  PROVE  /\ Pact(d, k, x, y) => Pact(Rest(d), k, x, y)
         /\ Pact(c, d, x, y) => Pact(c, Rest(d), x, y)
         /\ EndpointInv(Rest(d)) => EndpointInv(d)
<1> DEFINE r == Rest(d)
<1>1. /\ r.incoming = d.incoming /\ r.attached = d.attached /\ r.state = d.state
      /\ r.prevState = d.prevState /\ r.lastStable = d.lastStable /\ r.fatal = d.fatal
      /\ r.released = d.released /\ r.releaseLater = d.releaseLater /\ r.op = d.op
      /\ r.dialog = d.dialog /\ r.client = d.client /\ r.server = d.server
      /\ r.offer = d.offer /\ r.remote = d.remote /\ r.result = d.result
      /\ r.info = d.info /\ r.bye = d.bye /\ r.retry = d.retry /\ r.timers = d.timers
  BY DEF Rest, Endpoint
<1> HIDE DEF r
<1>2. EndpointInv(r) => EndpointInv(d)
  BY <1>1 DEF EndpointInv, SessionInv, OverInv, RequestInv, FreshInv
<1>3. Fine(d) => Fine(r) BY <1>1 DEF Fine, Tidy, Calm
<1>4. Lost(r) <=> Lost(d) BY <1>1 DEF Lost
<1>5. /\ Deferring(d, k) => Deferring(r, k)
      /\ Deferring(k, d) => Deferring(k, r)
      /\ Deferring(d, c) => Deferring(r, c)
      /\ Deferring(c, d) => Deferring(c, r)
  BY <1>1 DEF Deferring
<1>6. Civil(d, k, x, y) => Civil(r, k, x, y) BY <1>1 DEF Civil
<1>7. Civil(c, d, x, y) => Civil(c, r, x, y) BY <1>1, <1>4 DEF Civil
<1>8. ASSUME NEW p, NEW v, NEW w
      PROVE  /\ Undecided(d, p, v, w) => Undecided(r, p, v, w)
             /\ Undecided(p, d, v, w) => Undecided(p, r, v, w)
             /\ Accepting(d, p, v, w) => Accepting(r, p, v, w)
             /\ Accepting(p, d, v, w) => Accepting(p, r, v, w)
  BY <1>1 DEF Undecided, Unasked, Asking, Deferred, Refusing, Accepting
<1>9. Negotiated(d, k, x, y) => Negotiated(r, k, x, y)
  BY <1>1, <1>8 DEF Negotiated, Parley
<1>10. Negotiated(c, d, x, y) => Negotiated(c, r, x, y)
  BY <1>1, <1>8 DEF Negotiated, Parley
<1>11. Pact(d, k, x, y) => Pact(r, k, x, y) BY <1>3, <1>5, <1>6, <1>9 DEF Pact
<1>12. Pact(c, d, x, y) => Pact(c, r, x, y) BY <1>3, <1>5, <1>7, <1>10 DEF Pact
<1> QED BY <1>2, <1>11, <1>12 DEF r

\* What the two sides of the call keep.
Paired == Pact(ua[Caller], ua[Callee], net[Caller], net[Callee])

\* The inductive invariant.
RenewalInv == CallInv /\ Spared /\ Paired

\* A turn of either side.
LEMMA TurnPaired ==
  ASSUME RenewalInv, CallInv', NEW u \in UA, NEW d, GentleTurn(u, d)
  PROVE  Paired'
<1> DEFINE c == ua[Caller]
           k == ua[Callee]
           x == net[Caller]
           y == net[Callee]
<1>1. /\ Settled(c) /\ Settled(k) /\ x \in Seq(Msg) /\ y \in Seq(Msg) /\ Stage(c, k, x, y)
      /\ ~c.incoming /\ k.incoming /\ Caller \in UA /\ Callee \in UA
      /\ Peer(Caller) = Callee /\ Peer(Callee) = Caller
  BY CallInvFacts DEF RenewalInv
<1>2. /\ d \in Endpoint /\ d.out \in Seq(Msg)
      /\ ua'[u] = Rest(d) /\ ua'[Peer(u)] = ua[Peer(u)]
      /\ net'[Peer(u)] = net[Peer(u)] \o d.out
      /\ Steps(d, ua[u], net[u], net'[u])
  BY DEF GentleTurn
<1>3. Pact(c, k, x, y) BY DEF RenewalInv, Paired
<1>4. EndpointInv(d)
  <2>1. EndpointInv(ua'[u]) BY DEF CallInv, Inv
  <2> QED BY <1>2, <2>1, PactRest
<1>5. Settled(ua[u]) BY <1>1 DEF UA
<1>6. Course(d, ua[u])
  <2>1. Goes(d, ua[u], net[u], net'[u]) BY <1>2, <1>5, StepsGoes
  <2>2. Turn(u, d) BY <1>2, <2>1 DEF Turn, Goes
  <2> QED BY <2>2, TurnStage DEF RenewalInv
<1>7. CASE u = Caller
  <2> DEFINE t == net'[Caller]
  <2>1. Steps(d, c, x, t) /\ Course(d, c) BY <1>2, <1>6, <1>7
  <2>2. /\ ua'[Caller] = Rest(d) /\ ua'[Callee] = k /\ net'[Callee] = y \o d.out
    BY <1>1, <1>2, <1>7
  <2> HIDE DEF c, k, x, y, t
  <2>3. Pact(d, k, t, y \o d.out) BY <1>1, <1>2, <1>3, <1>4, <2>1, CallerPact
  <2>4. Pact(Rest(d), k, t, y \o d.out) BY <1>2, <2>3, PactRest
  <2> QED BY <2>2, <2>4 DEF Paired, t
<1>8. CASE u = Callee
  <2> DEFINE t == net'[Callee]
  <2>1. Steps(d, k, y, t) /\ Course(d, k) BY <1>2, <1>6, <1>8
  <2>2. /\ ua'[Callee] = Rest(d) /\ ua'[Caller] = c /\ net'[Caller] = x \o d.out
    BY <1>1, <1>2, <1>8
  <2> HIDE DEF c, k, x, y, t
  <2>3. Pact(c, d, x \o d.out, t) BY <1>1, <1>2, <1>3, <1>4, <2>1, CalleePact
  <2>4. Pact(c, Rest(d), x \o d.out, t) BY <1>2, <2>3, PactRest
  <2> QED BY <2>2, <2>4 DEF Paired, t
<1> QED BY <1>7, <1>8 DEF UA

\* The loss of the first INVITE.
LEMMA LossPaired ==
  ASSUME RenewalInv, CallInv', NEW u \in UA, InviteTimeout(u)
  PROVE  Paired'
<1> DEFINE c == ua[Caller]
           k == ua[Callee]
           x == net[Caller]
           y == net[Callee]
           d == ProcessTimeout(ua[u])
<1>1. /\ Settled(c) /\ Settled(k) /\ x \in Seq(Msg) /\ y \in Seq(Msg) /\ Stage(c, k, x, y)
      /\ ~c.incoming /\ k.incoming /\ Caller \in UA /\ Callee \in UA
      /\ Peer(Caller) = Callee /\ Peer(Callee) = Caller
  BY CallInvFacts DEF RenewalInv
<1>2. /\ ua[u].client = "calling" /\ ua[u].dialog = "None"
      /\ net[Peer(u)] # <<>> /\ Head(net[Peer(u)]).method = "INVITE"
      /\ Head(net[Peer(u)]).code = 0
  BY DEF InviteTimeout, Arrives
<1>3. TypeOK /\ Peer(u) \in UA /\ Peer(u) # u BY Peers DEF RenewalInv, CallInv
<1>4. /\ ua'[u] = Rest(d) /\ ua'[Peer(u)] = ua[Peer(u)]
      /\ net'[u] = net[u] /\ net'[Peer(u)] = Tail(net[Peer(u)])
  BY <1>3 DEF InviteTimeout, TypeOK, Rest
<1>5. Settled(ua[u]) BY <1>1 DEF UA
<1>6. d \in Endpoint BY <1>2, <1>5, TimeoutFacts DEF Settled
<1>7. EndpointInv(d)
  <2>1. EndpointInv(ua'[u]) BY DEF CallInv, Inv
  <2> QED BY <1>4, <1>6, <2>1, PactRest
<1>8. Pact(c, k, x, y) BY DEF RenewalInv, Paired
<1>9. CASE u = Caller
  <2>1. Pact(d, k, x, Tail(y)) BY <1>1, <1>2, <1>7, <1>8, <1>9, TimeoutPact
  <2>2. Pact(Rest(d), k, x, Tail(y)) BY <1>6, <2>1, PactRest
  <2> QED BY <1>1, <1>4, <1>9, <2>2 DEF Paired
<1>10. CASE u = Callee
  <2>1. Pact(c, d, Tail(x), y) BY <1>1, <1>2, <1>7, <1>8, <1>10, TimeoutPact
  <2>2. Pact(c, Rest(d), Tail(x), y) BY <1>6, <2>1, PactRest
  <2> QED BY <1>1, <1>4, <1>10, <2>2 DEF Paired
<1> QED BY <1>9, <1>10 DEF UA

\* The invariant is inductive.
LEMMA NextRenewalInv == RenewalInv /\ [Next]_vars => RenewalInv'
<1>1. ASSUME RenewalInv, Next PROVE RenewalInv'
  <2>1. CallInv' BY <1>1, NextCallInv DEF RenewalInv
  <2>2. Spared' BY <1>1, NextSpared DEF RenewalInv, CallInv
  <2>3. PICK u \in UA : User(u) \/ Internal(u) \/ InviteTimeout(u) BY <1>1 DEF Next
  <2>4. CASE User(u) \/ Internal(u)
    <3>1. Settled(ua[u]) BY <1>1, CallInvFacts DEF RenewalInv
    <3>2. ua[u].info = "none" BY <1>1 DEF RenewalInv, Paired, Pact, Fine, Calm, UA
    <3>3. PICK d : GentleTurn(u, d)
      BY <1>1, <2>4, <3>1, <3>2, StepGentle DEF RenewalInv, CallInv, Settled
    <3> QED BY <1>1, <2>1, <2>2, <3>3, TurnPaired DEF RenewalInv
  <2>5. CASE InviteTimeout(u) BY <1>1, <2>1, <2>2, <2>5, LossPaired DEF RenewalInv
  <2> QED BY <2>3, <2>4, <2>5
<1>2. ASSUME RenewalInv, UNCHANGED vars PROVE RenewalInv'
  <2>1. CallInv' BY <1>2, NextCallInv DEF RenewalInv
  <2>2. ua' = ua /\ net' = net /\ budget' = budget BY <1>2 DEF vars
  <2>3. Spared' BY <1>2, <2>2 DEF RenewalInv, Spared
  <2>4. Paired' BY <1>2, <2>2 DEF RenewalInv, Paired
  <2> QED BY <2>1, <2>3, <2>4 DEF RenewalInv
<1> QED BY <1>1, <1>2

\* It holds of two endpoints that nothing has happened to.
LEMMA InitRenewalInv ==
  ASSUME Gentle, Init
  PROVE  RenewalInv
<1>1. CallInv BY InitCallInv
<1>2. Spared BY DEF Gentle, Init, Spared
<1>3. ASSUME NEW b
      PROVE  LET e == InitEndpoint(b)
             IN  /\ e.state = "Idle" /\ ~e.attached /\ ~e.released /\ ~e.server
                 /\ e.info = "none"
  BY DEF InitEndpoint
<1>4. \A u \in UA : ua[u] = InitEndpoint(u = Callee) /\ net[u] = <<>> BY DEF Init
<1>5. Caller \in UA /\ Callee \in UA BY DEF UA
<1> DEFINE c == ua[Caller]
           k == ua[Callee]
<1>6. /\ c.state = "Idle" /\ ~c.attached /\ ~c.released /\ ~c.server /\ c.info = "none"
      /\ k.state = "Idle" /\ ~k.attached /\ ~k.released /\ ~k.server /\ k.info = "none"
  BY <1>3, <1>4, <1>5
<1>7. net[Caller] = <<>> /\ net[Callee] = <<>> BY <1>4, <1>5
<1> HIDE DEF c, k
<1>8. c.state \notin EstablishedState /\ k.state \notin EstablishedState
  BY <1>6 DEF EstablishedState
<1>9. Calm(c) /\ Calm(k) BY <1>6, <1>8, CalmOutside
<1>10. Fine(c) /\ Fine(k) BY <1>6, <1>9 DEF Fine, Tidy
<1>11. Deferring(c, k) /\ Deferring(k, c) BY <1>6 DEF Deferring
<1>12. Civil(c, k, <<>>, <<>>)
  <2>1. \A S : <<>> \in Seq(S) OBVIOUS
  <2> QED BY <2>1 DEF Civil
<1>13. Negotiated(c, k, <<>>, <<>>) BY <1>8 DEF Negotiated
<1>14. Paired BY <1>7, <1>10, <1>11, <1>12, <1>13 DEF Paired, Pact, c, k
<1> QED BY <1>1, <1>2, <1>14 DEF RenewalInv

\* As long as no INFO is sent and every description is acceptable, a call keeps its
\* order whatever crosses: each offer is in one place, and its answer closes it.
THEOREM RenewalIsOrderly == Spec /\ Gentle => []RenewalInv
<1>1. Gentle /\ Init => RenewalInv BY InitRenewalInv
<1>2. RenewalInv /\ [Next]_vars => RenewalInv' BY NextRenewalInv
<1> QED BY <1>1, <1>2, PTL DEF Spec

(***************************************************************************)
(* What follows.                                                           *)
(***************************************************************************)

\* A session that waits for the answer to its re-INVITE has that request open, or will
\* send it again: whatever crosses it, is refused by a 491 or is deferred.
THEOREM NobodyWaitsInVain == Spec /\ Gentle => []WaitsForSomething
<1>1. ASSUME RenewalInv PROVE WaitsForSomething
  <2>1. Calm(ua[Caller]) /\ Calm(ua[Callee]) BY <1>1 DEF RenewalInv, Paired, Pact, Fine
  <2> QED BY <2>1 DEF Calm, WaitsForSomething, UA
<1> QED BY <1>1, RenewalIsOrderly, PTL

\* Nothing is on its way to or due at this endpoint.
AtRest(e) ==
  /\ e.client = "none" /\ ~e.server /\ ~(e.bye > 0) /\ ~(e.timers > 0) /\ ~e.releaseLater
  /\ e.info = "none" /\ e.dialog \notin {"TermEarly", "TermConf"}

\* Once everything has been delivered there is no call yet, or none any more, or both
\* sides have it.
LEMMA QuietCall ==
  ASSUME CallInv, Quiet
  PROVE  LET c == ua[Caller]
             k == ua[Callee]
         IN  /\ AtRest(c) /\ AtRest(k) /\ net[Caller] = <<>> /\ net[Callee] = <<>>
             /\ \/ Starting(c) /\ Unknown(k)
                \/ Lost(c) /\ Lost(k)
                \/ c.state \in EstablishedState /\ k.state \in EstablishedState
<1> DEFINE c == ua[Caller]
           k == ua[Callee]
           x == net[Caller]
           y == net[Callee]
<1>1. /\ Settled(c) /\ Settled(k) /\ Stage(c, k, x, y) /\ UA = {Caller, Callee}
      /\ Caller \in UA /\ Callee \in UA
  BY CallInvFacts DEF UA
<1>2. /\ x = <<>> /\ y = <<>>
      /\ \A u \in UA :
           /\ ~RequestPending(ua[u]) /\ ua[u].info = "none" /\ ~ua[u].releaseLater
           /\ ua[u].timers = 0 /\ ua[u].dialog \notin {"TermEarly", "TermConf"}
  BY <1>1, Zenon DEF Quiet
<1>3. \A u \in UA : AtRest(ua[u]) BY <1>2 DEF AtRest, RequestPending
<1>4. AtRest(c) /\ AtRest(k) BY <1>1, <1>3
<1> HIDE DEF c, k, x, y
<1>5. ~CallingStage(c, k, x, y) BY <1>2 DEF CallingStage
<1>6. ~Pending(c) BY <1>4 DEF Pending, AtRest
<1>7. ~DeafStage(c) BY <1>4 DEF DeafStage, AtRest
<1>8. ASSUME NEW e, Settled(e), Open(e), AtRest(e) PROVE e.state \in EstablishedState
  BY <1>8, OpenFacts DEF Settled, AtRest
<1>9. CASE ConnectedStage(c, k, x, y)
  <2>1. (Lost(c) /\ Lost(k)) \/ (Open(c) /\ Open(k))
    BY <1>4, <1>9 DEF ConnectedStage, Side, AtRest
  <2> QED BY <1>1, <1>2, <1>4, <1>8, <2>1 DEF c, k, x, y
<1>10. CASE FreshStage(c, k, x, y)
  BY <1>2, <1>4, <1>10 DEF FreshStage, c, k, x, y
<1> QED BY <1>1, <1>5, <1>6, <1>7, <1>9, <1>10
        DEF Stage, RingingStage, AnsweringStage, DeclinedStage

\* Once everything has been delivered no session is left in the middle of a set-up, of
\* a renegotiation or of its end.
THEOREM EverySessionSettles == Spec /\ Gentle => []SettledAtRest
<1>1. ASSUME RenewalInv PROVE SettledAtRest
  <2> SUFFICES ASSUME Quiet
               PROVE  \A u \in UA : ua[u].state \in {"Idle", "OutgoingInit", "StreamsRunning",
                                                     "Paused", "PausedByRemote", "Released"}
    BY DEF SettledAtRest
  <2> DEFINE c == ua[Caller]
             k == ua[Callee]
  <2>1. /\ AtRest(c) /\ AtRest(k)
        /\ \/ Starting(c) /\ Unknown(k)
           \/ Lost(c) /\ Lost(k)
           \/ c.state \in EstablishedState /\ k.state \in EstablishedState
    BY <1>1, QuietCall DEF RenewalInv
  <2>2. Settled(c) /\ Settled(k) BY <1>1, CallInvFacts DEF RenewalInv
  <2>3. Fine(c) /\ Fine(k) /\ Deferring(c, k) /\ Deferring(k, c)
    BY <1>1 DEF RenewalInv, Paired, Pact
  <2> HIDE DEF c, k
  <2>4. ASSUME NEW e, Settled(e), Fine(e), AtRest(e), Lost(e)
        PROVE  e.state \in {"Idle", "Released"}
    <3>1. e.released \/ e.dialog = "Terminated" BY <2>4 DEF Lost, AtRest
    <3>2. ~e.attached BY <2>4, <3>1 DEF Fine, Tidy, AtRest
    <3>3. e.state \notin {"Idle", "Released"} => e.attached
      BY <2>4 DEF Settled, EndpointInv, SessionInv
    <3> QED BY <3>2, <3>3
  <2>5. ASSUME NEW e, Fine(e), AtRest(e), e.state \in EstablishedState,
               NEW p, Deferring(e, p), p.state \in EstablishedState
        PROVE  e.state \in {"StreamsRunning", "Paused", "PausedByRemote"}
    <3>1. e.state \notin TransientState BY <2>5 DEF Fine, Calm, AtRest
    <3>2. e.state # "UpdatedByRemote"
      BY <2>5 DEF Deferring, AtRest, EstablishedState, OverState
    <3> QED BY <2>5, <3>1, <3>2 DEF EstablishedState, TransientState
  <2>6. /\ c.state \in {"Idle", "OutgoingInit", "StreamsRunning", "Paused",
                        "PausedByRemote", "Released"}
        /\ k.state \in {"Idle", "OutgoingInit", "StreamsRunning", "Paused",
                        "PausedByRemote", "Released"}
    <3>1. CASE Starting(c) /\ Unknown(k)
      BY <2>2, <3>1 DEF Starting, Unknown, Settled, EndpointInv, FreshInv
    <3>2. CASE Lost(c) /\ Lost(k)
      <4>1. c.state \in {"Idle", "Released"} BY <2>1, <2>2, <2>3, <2>4, <3>2
      <4>2. k.state \in {"Idle", "Released"} BY <2>1, <2>2, <2>3, <2>4, <3>2
      <4> QED BY <4>1, <4>2
    <3>3. CASE c.state \in EstablishedState /\ k.state \in EstablishedState
      <4>1. c.state \in {"StreamsRunning", "Paused", "PausedByRemote"}
        BY <2>1, <2>3, <2>5, <3>3
      <4>2. k.state \in {"StreamsRunning", "Paused", "PausedByRemote"}
        BY <2>1, <2>3, <2>5, <3>3
      <4> QED BY <4>1, <4>2
    <3> QED BY <2>1, <3>1, <3>2, <3>3
  <2> QED BY <2>6 DEF UA, c, k
<1> QED BY <1>1, RenewalIsOrderly, PTL

\* Once everything has been delivered the directions the two sides have negotiated
\* mirror each other, whatever re-INVITEs crossed.
THEOREM BothSidesAgree == Spec /\ Gentle => []MirroredDirections
<1>1. ASSUME RenewalInv PROVE MirroredDirections
  <2> DEFINE c == ua[Caller]
             k == ua[Callee]
  <2> SUFFICES ASSUME Quiet, c.dialog = "Confirmed", c.state \notin OverState
               PROVE  c.result = Mirror[k.result]
    BY DEF MirroredDirections, UA
  <2>1. /\ net[Caller] = <<>> /\ net[Callee] = <<>>
        /\ \/ Starting(c) /\ Unknown(k)
           \/ Lost(c) /\ Lost(k)
           \/ c.state \in EstablishedState /\ k.state \in EstablishedState
    BY <1>1, QuietCall DEF RenewalInv
  <2>2. Settled(c) BY <1>1, CallInvFacts DEF RenewalInv
  <2>3. Negotiated(c, k, net[Caller], net[Callee]) BY <1>1 DEF RenewalInv, Paired, Pact
  <2> HIDE DEF c, k
  <2>4. ~Starting(c) BY DEF Starting
  <2>5. ~Lost(c) BY <2>2, LostFacts DEF Settled
  <2>6. Parley(c, k, <<>>, <<>>) BY <2>1, <2>3, <2>4, <2>5 DEF Negotiated
  <2>7. ASSUME NEW a, NEW b PROVE ~Accepting(a, b, <<>>, <<>>)
    <3>1. ASSUME NEW P, NEW B, NEW Q PROVE ~Holds(<<>>, P, B, Q)
      <4> SUFFICES ASSUME NEW p \in Seq(P), NEW m \in B, NEW q \in Seq(Q),
                          <<>> = p \o (<<m>> \o q)
                   PROVE  FALSE
        BY DEF Holds
      <4>1. Len(p \o (<<m>> \o q)) = Len(p) + (1 + Len(q)) OBVIOUS
      <4>2. Len(p) \in Nat /\ Len(q) \in Nat /\ Len(<<>>) = 0 OBVIOUS
      <4> QED BY <4>1, <4>2
    <3> QED BY <3>1 DEF Accepting
  <2> QED BY <2>6, <2>7 DEF Parley
<1> QED BY <1>1, RenewalIsOrderly, PTL
=============================================================================
