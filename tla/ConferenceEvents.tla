-------------------------- MODULE ConferenceEvents --------------------------
(***************************************************************************)
(* The conference event package of a group chat room: the server notifies  *)
(* each change of the conference to the devices that subscribed, numbers   *)
(* the changes and stores them; a client that was away tells the last      *)
(* number it has seen and gets what it missed, or a full state.            *)
(*                                                                         *)
(* Server and clients run their handlers in one main loop each, so that a  *)
(* handler is one step.  Requests of one direction arrive in order, or are *)
(* lost with the connection of the client.                                 *)
(***************************************************************************)
EXTENDS ConferenceInfo, SequencesExt

CONSTANTS
  Client,             \* the devices whose event handler is modelled
  LegacyDevice,       \* the devices whose groupchat protocol is older than 1.2
  FullStateTrigger,   \* more missed changes than this are told as a full state
  InitialConf,        \* the conference when the clients enter it
  Budget              \* how often each choice of the environment is available

Choice == {"subject", "admin", "member", "device", "lifetime", "restart", "network",
           "background", "refresh", "release"}

ASSUME ClientAssumption == Client \subseteq Device /\ IsFiniteSet(Device)
ASSUME LegacyAssumption == LegacyDevice \subseteq Device
ASSUME TriggerAssumption == FullStateTrigger \in Nat
ASSUME ConfAssumption ==
  /\ InitialConf \in Conf
  /\ \A c \in Client : InitialConf.member[Owner[c]] /\ InitialConf.device[c] = "Joining"
ASSUME BudgetAssumption == Budget \in [Choice -> Nat]

VARIABLES
  server,     \* the conference, its event handler and its events in the database
  client,     \* the conference event handler of each client, with its view
  toServer,   \* the requests of each client on their way
  toClient,   \* what the server sent each client
  budget

vars == <<server, client, toServer, toClient, budget>>

Me(c) == Owner[c]
Guest == Participant \ {Owner[c] : c \in Client}
GuestDevice == {d \in Device : Owner[d] \in Guest}

(***************************************************************************)
(* Messages.  A subscription is known by the number of the client's event  *)
(* object.                                                                 *)
(***************************************************************************)
Request == [type : {"subscribe"}, sub : Nat, version : Nat] \cup [type : {"unsubscribe"}, sub : Nat]
Answer == [type : {"accepted", "declined", "terminated"}, sub : Nat]
            \cup [type : {"notify"}, sub : Nat, bodies : Seq(Body)]

Notify(s, bodies) == [type |-> "notify", sub |-> s, bodies |-> bodies]

TypeOK ==
  /\ server \in [conf : Conf, lastNotify : Nat, saved : Nat,
                 stored : Seq([id : Nat, event : Event]), sub : [Client -> Nat],
                 out : [Client -> Seq(Answer)]]
  /\ client \in [Client -> [ev : Nat, next : Nat, confirmed : BOOLEAN, wanted : BOOLEAN,
                            waiting : BOOLEAN, lastNotify : Nat, view : Conf, answered : Nat,
                            lingering : SUBSET Nat, link : {"down", "up", "registered"},
                            foreground : BOOLEAN, out : Seq(Request)]]
  /\ toServer \in [Client -> Seq(Request)]
  /\ toClient \in [Client -> Seq(Answer)]
  /\ budget \in [Choice -> Nat]

(***************************************************************************)
(* The server.                                                             *)
(***************************************************************************)

\* The changes of the ephemeral settings are not stored.
Stored(e) == e.type # "EphemeralLifetimeChanged"

Tell(srv, c, m) == [srv EXCEPT !.out[c] = Append(@, m)]

\* notifyParticipant() skips the devices that are leaving; a device that does
\* not subscribe is told nothing.
NotifyAll(srv) ==
  {c \in Client : /\ srv.sub[c] # 0 /\ srv.conf.member[Me(c)]
                  /\ srv.conf.device[c] \notin LeavingState \cup {Absent}}

\* notifyAllExceptDevice() does not look at the state of the device.
NotifyAllExceptDevice(srv, d) ==
  {c \in Client \ {d} : srv.sub[c] # 0 /\ srv.conf.member[Me(c)] /\ srv.conf.device[c] # Absent}

Recipients(srv, e) ==
  CASE e.type \in {"DeviceAdded", "DeviceRemoved"} -> NotifyAllExceptDevice(srv, e.dev)
    [] e.type \in {"ParticipantAdded", "ParticipantRemoved"} ->
         {c \in NotifyAll(srv) : Me(c) # e.who}
    [] OTHER -> NotifyAll(srv)

\* ServerConference::notify...(): the change gets the next number, is notified
\* and then stored.
Publish(srv, e) ==
  LET v == srv.lastNotify + 1
      m(c) == Notify(srv.sub[c], <<CreateNotify(srv.conf, v, e)>>)
      told == [srv EXCEPT !.lastNotify = v,
                          !.out = [c \in Client |-> IF c \in Recipients(srv, e)
                                                    THEN Append(@[c], m(c)) ELSE @[c]]]
  IN  IF Stored(e)
      THEN [told EXCEPT !.saved = v, !.stored = Append(@, [id |-> v, event |-> e])]
      ELSE told

SetUtf8Subject(srv, s) ==
  Publish([srv EXCEPT !.conf.subject = s], [type |-> "SubjectChanged", subject |-> s])

SetEphemeralLifetime(srv, l) ==
  Publish([srv EXCEPT !.conf.lifetime = l], [type |-> "EphemeralLifetimeChanged", lifetime |-> l])

SetParticipantAdminStatus(srv, p, isAdmin) ==
  IF srv.conf.admin[p] = isAdmin THEN srv
  ELSE Publish([srv EXCEPT !.conf.admin[p] = isAdmin],
               [type |-> IF isAdmin THEN "SetAdmin" ELSE "UnsetAdmin", who |-> p])

\* ParticipantDevice::setState(): from one leaving state to another nothing is told.
SetParticipantDeviceState(srv, d, s) ==
  LET old == srv.conf.device[d]
      moved == [srv EXCEPT !.conf.device[d] = s]
  IN  IF old = s \/ (old \in LeavingState /\ s \in LeavingState) THEN moved
      ELSE Publish(moved, [type |-> "DeviceStatusChanged", dev |-> d])

\* moveDeviceToPresent(): a device that is leaving, or that the server does not
\* know, does not come back.
MoveDeviceToPresent(srv, d) ==
  IF srv.conf.device[d] \in LeavingState \cup {Absent} THEN srv
  ELSE SetParticipantDeviceState(srv, d, "Present")

\* A device that does not speak groupchat/1.2 has joined when it answers the
\* NOTIFY of the full state, any other one when its session is established.
DispatchMessagesAfterFullState(d) == d \in LegacyDevice

\* A joining device has answered a NOTIFY.
OnFirstNotifyReceived(srv, d) ==
  IF DispatchMessagesAfterFullState(d) THEN MoveDeviceToPresent(srv, d) ELSE srv

InviteDevice(srv, d) == SetParticipantDeviceState(srv, d, "Joining")

\* A removed participant stays invited, with its devices, until the last one has
\* left: then it is forgotten (onParticipantDeviceLeft()).
Invited(conf, p) ==
  conf.member[p] \/ \E d \in DevicesOf(p) : conf.device[d] \notin {"Left", Absent}

ForgetIfLeft(srv, p) ==
  IF Invited(srv.conf, p) THEN srv
  ELSE [srv EXCEPT !.conf.device = [d \in Device |-> IF Owner[d] = p THEN Absent ELSE @[d]]]

SetDeviceLeft(srv, d) == ForgetIfLeft(SetParticipantDeviceState(srv, d, "Left"), Owner[d])

AddParticipantToList(srv, p) ==
  Publish([srv EXCEPT !.conf.member[p] = TRUE], [type |-> "ParticipantAdded", who |-> p])

\* The devices of a participant that is still leaving are invited again.
ResumeParticipant(srv, p) ==
  LET rejoin(d, s) == InviteDevice(SetParticipantDeviceState(s, d, "ScheduledForJoining"), d)
  IN  FoldSet(rejoin, AddParticipantToList(srv, p),
              {d \in DevicesOf(p) : srv.conf.device[d] \in LeavingState})

\* chooseAnotherAdminIfNoneInConference(), where heir is the first participant.
ChooseAnotherAdmin(srv, heir) ==
  IF \E p \in Participant : srv.conf.member[p] /\ srv.conf.admin[p] THEN srv
  ELSE SetParticipantAdminStatus(srv, heir, TRUE)

RemoveParticipant(srv, p, heir) ==
  LET leave(d, s) == SetParticipantDeviceState(
                       SetParticipantDeviceState(s, d, "ScheduledForLeaving"), d, "Leaving")
      demoted == SetParticipantAdminStatus(srv, p, FALSE)
      left == FoldSet(leave, demoted,
                      {d \in DevicesOf(p) : srv.conf.device[d] \notin {"Leaving", "Left", Absent}})
      removed == Publish([left EXCEPT !.conf.member[p] = FALSE],
                         [type |-> "ParticipantRemoved", who |-> p])
  IN  ChooseAnotherAdmin(removed, heir)

\* onBye(): a participant leaves by itself.
OnBye(srv, d, heir) ==
  SetDeviceLeft(
    RemoveParticipant(SetParticipantDeviceState(srv, d, "Leaving"), Owner[d], heir), d)

\* A new device is notified before it is scheduled for joining.
AddParticipantDevice(srv, d) ==
  SetParticipantDeviceState(
    Publish([srv EXCEPT !.conf.device[d] = "Joining"], [type |-> "DeviceAdded", dev |-> d]),
    d, "ScheduledForJoining")

\* The subscription of a device that is removed is terminated with it.
RemoveParticipantDevice(srv, d) ==
  LET told == Publish(srv, [type |-> "DeviceRemoved", dev |-> d])
      gone == ForgetIfLeft([told EXCEPT !.conf.device[d] = Absent], Owner[d])
  IN  IF d \in Client /\ srv.sub[d] # 0
      THEN [Tell(gone, d, [type |-> "terminated", sub |-> srv.sub[d]]) EXCEPT !.sub[d] = 0]
      ELSE gone

\* The devices of the participants that wait for it are invited.
UpdateParticipantsSessions(srv) ==
  FoldSet(LAMBDA d, x : InviteDevice(x, d), srv,
          {d \in Device : srv.conf.member[Owner[d]] /\ srv.conf.device[d] = "ScheduledForJoining"})

\* The registration of participant p names the devices ds: a participant that is
\* waited for enters with them, devices that are new are added unless p has been
\* removed, and the others go.
SetParticipantDevices(srv, p, ds) ==
  LET joined == IF Invited(srv.conf, p) THEN srv ELSE AddParticipantToList(srv, p)
      new == {d \in ds : joined.conf.member[p] /\ srv.conf.device[d] = Absent}
      old == {d \in DevicesOf(p) \ ds : srv.conf.device[d] # Absent}
      added == FoldSet(LAMBDA d, x : AddParticipantDevice(x, d), joined, new)
      removed == FoldSet(LAMBDA d, x : RemoveParticipantDevice(x, d), added, old)
  IN  UpdateParticipantsSessions(removed)

\* The stored changes numbered above seen, in the order they were stored.
Missed(srv, seen) ==
  FoldLeft(LAMBDA found, x : IF x.id > seen THEN Append(found, x) ELSE found, <<>>, srv.stored)

\* Mutant of NotifyMultipart: the counter is left at the number of the first missed change.
MutNotifyMultipart(srv, c, seen) ==
  LET missed == Missed(srv, seen)
      bodies == [i \in DOMAIN missed |-> CreateNotify(srv.conf, missed[i].id, missed[i].event)]
  IN  [Tell(srv, c, Notify(srv.sub[c], bodies)) EXCEPT
         !.lastNotify = IF missed = <<>> THEN @ ELSE Head(missed).id]

\* createNotifyMultipart(): the missed changes are numbered again by way of the
\* conference's own counter, which is left at the number of the last one.
NotifyMultipart(srv, c, seen) ==
  LET missed == Missed(srv, seen)
      bodies == [i \in DOMAIN missed |-> CreateNotify(srv.conf, missed[i].id, missed[i].event)]
  IN  [Tell(srv, c, Notify(srv.sub[c], bodies)) EXCEPT
         !.lastNotify = IF missed = <<>> THEN @ ELSE Last(missed).id]

NotifyFullState(srv, c) ==
  Tell(srv, c, Notify(srv.sub[c], <<CreateNotifyFullState(srv.conf, srv.lastNotify)>>))

\* Mutant of NotifyMissed: a single missed change is taken for none.
MutNotifyMissed(srv, c, seen) ==
  IF \/ seen = 0 \/ srv.conf.device[c] = "Joining"
     \/ seen > srv.lastNotify
     \/ srv.lastNotify - seen > FullStateTrigger
  THEN NotifyFullState(srv, c)
  ELSE IF seen + 1 < srv.lastNotify THEN NotifyMultipart(srv, c, seen)
  ELSE Tell(srv, c, Notify(srv.sub[c], <<>>))

\* Which of the three answers a subscriber gets that has seen version seen.
NotifyMissed(srv, c, seen) ==
  IF \/ seen = 0 \/ srv.conf.device[c] = "Joining"
     \/ seen > srv.lastNotify
     \/ srv.lastNotify - seen > FullStateTrigger
  THEN NotifyFullState(srv, c)
  ELSE IF seen < srv.lastNotify THEN NotifyMultipart(srv, c, seen)
  ELSE Tell(srv, c, Notify(srv.sub[c], <<>>))

\* Mutant of SubscriptionTerminated: the end of any subscription of the device counts.
MutSubscriptionTerminated(srv, c, s) == [srv EXCEPT !.sub[c] = 0]

\* Only the end of the device's own subscription counts.
SubscriptionTerminated(srv, c, s) ==
  IF srv.sub[c] = s THEN [srv EXCEPT !.sub[c] = 0] ELSE srv

\* The subscription the new one replaces is terminated once it is replaced.
AcceptSubscription(srv, c, m) ==
  LET old == srv.sub[c]
      accepted == [Tell(srv, c, [type |-> "accepted", sub |-> m.sub]) EXCEPT !.sub[c] = m.sub]
      replaced == IF old = 0 THEN accepted
                  ELSE SubscriptionTerminated(
                         Tell(accepted, c, [type |-> "terminated", sub |-> old]), c, old)
  IN  NotifyMissed(replaced, c, m.version)

\* ServerConference::subscribeReceived(): a device waiting to be invited is
\* invited first; the number of the last change is saved in any case.
SubscribeReceived(srv, c, m) ==
  LET invited == IF srv.conf.device[c] = "ScheduledForJoining" THEN InviteDevice(srv, c) ELSE srv
      served == IF srv.conf.device[c] \in LeavingState \cup {Absent}
                THEN Tell(srv, c, [type |-> "declined", sub |-> m.sub])
                ELSE AcceptSubscription(invited, c, m)
  IN  [served EXCEPT !.saved = served.lastNotify]

(***************************************************************************)
(* The client.                                                             *)
(***************************************************************************)

\* needToSubscribe() and the account's state
CanSubscribe(cl) == cl.ev = 0 /\ cl.wanted /\ cl.link = "registered"

Subscribe(cl) ==
  IF ~CanSubscribe(cl) THEN cl
  ELSE [cl EXCEPT !.ev = cl.next, !.confirmed = FALSE,
                  !.out = Append(@, [type |-> "subscribe", sub |-> cl.next,
                                     version |-> cl.lastNotify])]

\* subscribe(const ConferenceId &): a call that does not subscribe takes the
\* wish to be subscribed back, whatever the reason.
SubscribeAsked(cl) ==
  LET asked == [cl EXCEPT !.wanted = TRUE]
  IN  IF CanSubscribe(asked)
      THEN [Subscribe(asked) EXCEPT !.waiting = (cl.lastNotify = 0)]
      ELSE [cl EXCEPT !.wanted = FALSE]

\* unsubscribePrivate(): a subscription that was not accepted yet is given up
\* without a request, and its operation outlives its event.
UnsubscribePrivate(cl) ==
  IF cl.ev = 0 THEN cl
  ELSE [cl EXCEPT !.ev = 0, !.confirmed = FALSE, !.lingering = @ \cup {cl.ev},
                  !.out = IF cl.confirmed THEN Append(@, [type |-> "unsubscribe", sub |-> cl.ev]) ELSE @]

Unsubscribe(cl) == [UnsubscribePrivate(cl) EXCEPT !.wanted = FALSE]

RequestFullState(cl) == SubscribeAsked([Unsubscribe(cl) EXCEPT !.lastNotify = 0])

\* Mutant of ConferenceInfoNotifyReceived: a client goes on waiting after the
\* full state it waited for.
MutStillWaiting(cl, me, b) ==
  LET applied == [cl EXCEPT !.lastNotify = b.version, !.view = ApplyBody(cl.view, me, b)]
  IN  IF cl.waiting /\ ~b.full THEN cl
      ELSE IF ~b.full /\ cl.lastNotify >= b.version THEN RequestFullState(cl)
      ELSE IF Puzzling(cl.view, me, b) THEN RequestFullState(applied)
      ELSE applied

\* conferenceInfoNotifyReceived()
ConferenceInfoNotifyReceived(cl, me, b) ==
  LET awake == [cl EXCEPT !.waiting = FALSE]
      applied == [awake EXCEPT !.lastNotify = b.version, !.view = ApplyBody(cl.view, me, b)]
  IN  IF cl.waiting /\ ~b.full THEN cl
      ELSE IF ~b.full /\ cl.lastNotify >= b.version THEN RequestFullState(awake)
      ELSE IF Puzzling(cl.view, me, b) THEN RequestFullState(applied)
      ELSE applied

MultipartNotifyReceived(cl, me, bodies) ==
  FoldLeft(LAMBDA x, b : ConferenceInfoNotifyReceived(x, me, b), cl, bodies)

\* invalidateSubscription(), when the client's subscription ended or failed.
InvalidateSubscription(cl, s) ==
  IF cl.ev = s THEN [cl EXCEPT !.ev = 0, !.confirmed = FALSE] ELSE cl

\* A NOTIFY of an ended subscription is handled as long as its operation lasts.
NotifyReceived(cl, me, m) ==
  IF m.sub = cl.ev
  THEN MultipartNotifyReceived([cl EXCEPT !.answered = m.sub], me, m.bodies)
  ELSE IF m.sub \in cl.lingering THEN MultipartNotifyReceived(cl, me, m.bodies)
  ELSE cl

AnswerReceived(cl, me, m) ==
  CASE m.type = "accepted" -> IF m.sub = cl.ev THEN [cl EXCEPT !.confirmed = TRUE] ELSE cl
    [] m.type \in {"declined", "terminated"} -> InvalidateSubscription(cl, m.sub)
    [] m.type = "notify" -> NotifyReceived(cl, me, m)

(***************************************************************************)
(* Steps.                                                                  *)
(***************************************************************************)
NoOut == [c \in Client |-> <<>>]

Init ==
  /\ server = [conf |-> InitialConf, lastNotify |-> 1, saved |-> 1, stored |-> <<>>,
               sub |-> [c \in Client |-> 0], out |-> NoOut]
  /\ client = [c \in Client |->
       [ev |-> 1, next |-> 0, confirmed |-> FALSE, wanted |-> TRUE, waiting |-> TRUE,
        lastNotify |-> 0, view |-> ClearParticipants(InitialConf, Me(c)), answered |-> 0,
        lingering |-> {}, link |-> "registered", foreground |-> TRUE, out |-> <<>>]]
  /\ toServer = [c \in Client |-> <<[type |-> "subscribe", sub |-> 1, version |-> 0]>>]
  /\ toClient = NoOut
  /\ budget = Budget

Spend(k) == budget[k] > 0 /\ budget' = [budget EXCEPT ![k] = @ - 1]

\* The server runs a handler that leaves it as srv.  What it sends a client that
\* cannot be reached is lost.
Serve(srv) ==
  /\ server' = [srv EXCEPT !.out = NoOut]
  /\ toClient' = [c \in Client |-> IF client[c].link = "registered"
                                   THEN toClient[c] \o srv.out[c] ELSE toClient[c]]

\* The numbers of the subscriptions of c that something still refers to; an event
\* object may get the number of one that nothing refers to any more.
NumbersInUse(c) ==
  {0, client[c].ev, client[c].answered, server.sub[c]} \cup client[c].lingering
    \cup {m.sub : m \in ToSet(toServer[c])} \cup {m.sub : m \in ToSet(toClient[c])}

FreshNumber(c) == Min((0 .. Cardinality(NumbersInUse(c))) \ NumbersInUse(c))

\* The state in which a handler of client c starts.
Cl(c) == [client[c] EXCEPT !.next = FreshNumber(c)]

\* Client c runs a handler that leaves it as cl.
Run(c, cl) ==
  /\ client' = [client EXCEPT ![c] = [cl EXCEPT !.out = <<>>, !.next = 0]]
  /\ toServer' = [toServer EXCEPT ![c] = @ \o cl.out]

(***************************************************************************)
(* The conference changes.                                                 *)
(***************************************************************************)
ChangeSubject(s) ==
  /\ s # server.conf.subject
  /\ Spend("subject")
  /\ Serve(SetUtf8Subject(server, s))
  /\ UNCHANGED <<client, toServer>>

ChangeLifetime(l) ==
  /\ Spend("lifetime")
  /\ Serve(SetEphemeralLifetime(server, l))
  /\ UNCHANGED <<client, toServer>>

ChangeAdmin(p) ==
  /\ server.conf.member[p]
  /\ Spend("admin")
  /\ Serve(SetParticipantAdminStatus(server, p, ~server.conf.admin[p]))
  /\ UNCHANGED <<client, toServer>>

\* A guest that is unknown enters when its registration is known.
GuestAdded(p) ==
  /\ ~server.conf.member[p]
  /\ Spend("member")
  /\ IF Invited(server.conf, p) THEN Serve(ResumeParticipant(server, p))
     ELSE \E ds \in (SUBSET DevicesOf(p)) \ {{}} : Serve(SetParticipantDevices(server, p, ds))
  /\ UNCHANGED <<client, toServer>>

GuestRemoved(p) ==
  /\ server.conf.member[p]
  /\ Spend("member")
  /\ \E heir \in Participant \ {p} :
       server.conf.member[heir] /\ Serve(RemoveParticipant(server, p, heir))
  /\ UNCHANGED <<client, toServer>>

GuestLeaves(d) ==
  /\ server.conf.member[Owner[d]] /\ server.conf.device[d] = "Present"
  /\ Spend("member")
  /\ \E heir \in Participant \ {Owner[d]} :
       server.conf.member[heir] /\ Serve(OnBye(server, d, heir))
  /\ UNCHANGED <<client, toServer>>

\* The devices a participant is registered with change.
RegistrationChanged(p, ds) ==
  /\ Invited(server.conf, p)
  /\ ds # {d \in DevicesOf(p) : server.conf.device[d] # Absent}
  /\ Spend("device")
  /\ Serve(SetParticipantDevices(server, p, ds))
  /\ UNCHANGED <<client, toServer>>

\* The session of a device ends with an error: it will be invited again.
DeviceInterrupted(d) ==
  /\ server.conf.device[d] \in {"Joining", "Present"}
  /\ Spend("device")
  /\ Serve(SetParticipantDeviceState(server, d, "ScheduledForJoining"))
  /\ UNCHANGED <<client, toServer>>

\* A device that waits for it registers again.
DeviceInvited(d) ==
  /\ server.conf.device[d] = "ScheduledForJoining"
  /\ Serve(InviteDevice(server, d))
  /\ UNCHANGED <<client, toServer, budget>>

\* A device accepts the server's INVITE, or the server gets the ACK of a call the
\* device made by itself, which need not have been invited.  Its answer may have
\* left before the client lost the network.
SessionEstablished(d) ==
  /\ ~DispatchMessagesAfterFullState(d)
  /\ server.conf.device[d] \in {"ScheduledForJoining", "Joining"}
  /\ Serve(MoveDeviceToPresent(server, d))
  /\ UNCHANGED <<client, toServer, budget>>

\* A guest answers the NOTIFY of its own subscription, of which only this shows.
GuestNotifyAnswered(d) ==
  /\ server.conf.device[d] = "Joining"
  /\ Serve(OnFirstNotifyReceived(server, d))
  /\ UNCHANGED <<client, toServer, budget>>

\* A guest answers the BYE.
GuestLeft(d) ==
  /\ server.conf.device[d] = "Leaving"
  /\ Serve(SetDeviceLeft(server, d))
  /\ UNCHANGED <<client, toServer, budget>>

\* The server comes back with what its database holds, and no subscription.
ServerRestart ==
  /\ Spend("restart")
  /\ Serve([server EXCEPT !.lastNotify = server.saved, !.sub = [c \in Client |-> 0],
                          !.conf.lifetime = InitialConf.lifetime])
  /\ UNCHANGED <<client, toServer>>

(***************************************************************************)
(* Messages.                                                               *)
(***************************************************************************)
DeliverToServer(c) ==
  /\ toServer[c] # <<>>
  /\ LET m == Head(toServer[c])
     IN  Serve(IF m.type = "subscribe" THEN SubscribeReceived(server, c, m)
               ELSE SubscriptionTerminated(server, c, m.sub))
  /\ toServer' = [toServer EXCEPT ![c] = Tail(@)]
  /\ UNCHANGED <<client, budget>>

DeliverToClient(c) ==
  /\ toClient[c] # <<>>
  /\ Run(c, AnswerReceived(Cl(c), Me(c), Head(toClient[c])))
  /\ toClient' = [toClient EXCEPT ![c] = Tail(@)]
  /\ UNCHANGED <<server, budget>>

\* notifyResponseCb(): a device answers a NOTIFY while it is joining.
NotifyAnswered(c) ==
  /\ server.sub[c] # 0 /\ client[c].answered = server.sub[c]
  /\ server.conf.device[c] = "Joining"
  /\ Serve(OnFirstNotifyReceived(server, c))
  /\ UNCHANGED <<client, toServer, budget>>

(***************************************************************************)
(* The client's surroundings.                                              *)
(***************************************************************************)

\* What is on its way to the client is lost, what it sent may be too.
NetworkDown(c) ==
  /\ client[c].link # "down"
  /\ Spend("network")
  /\ \E n \in 0 .. Len(toServer[c]) : toServer' = [toServer EXCEPT ![c] = SubSeq(@, 1, n)]
  /\ client' = [client EXCEPT ![c] = [UnsubscribePrivate(@) EXCEPT
                  !.link = "down", !.out = <<>>, !.lingering = {}, !.answered = 0]]
  /\ toClient' = [toClient EXCEPT ![c] = <<>>]
  /\ UNCHANGED server

\* onNetworkReachable(): the account is not registered yet.
NetworkUp(c) ==
  /\ client[c].link = "down"
  /\ Run(c, SubscribeAsked([Cl(c) EXCEPT !.link = "up"]))
  /\ UNCHANGED <<server, toClient, budget>>

\* onAccountRegistrationStateChanged(), when the account gets registered or
\* while a client that is not subscribed refreshes its registration.
RegistrationOk(c) ==
  /\ client[c].link = "up" \/ (client[c].link = "registered" /\ client[c].ev = 0)
  /\ Run(c, SubscribeAsked([Cl(c) EXCEPT !.link = "registered"]))
  /\ UNCHANGED <<server, toClient, budget>>

\* The same while it is subscribed.
RegistrationRefreshed(c) ==
  /\ client[c].link = "registered" /\ client[c].ev # 0
  /\ Spend("refresh")
  /\ Run(c, SubscribeAsked(Cl(c)))
  /\ UNCHANGED <<server, toClient>>

EnteringBackground(c) ==
  /\ client[c].foreground
  /\ Spend("background")
  /\ Run(c, UnsubscribePrivate([client[c] EXCEPT !.foreground = FALSE]))
  /\ UNCHANGED <<server, toClient>>

EnteringForeground(c) ==
  /\ ~client[c].foreground
  /\ Run(c, Subscribe([Cl(c) EXCEPT !.foreground = TRUE]))
  /\ UNCHANGED <<server, toClient, budget>>

\* The refresh of a subscription the server does not know fails, and so does a
\* SUBSCRIBE that nothing answered.
SubscriptionError(c) ==
  /\ client[c].ev # 0 /\ server.sub[c] # client[c].ev
  /\ toServer[c] = <<>> /\ toClient[c] = <<>>
  /\ Run(c, InvalidateSubscription(client[c], client[c].ev))
  /\ UNCHANGED <<server, toClient, budget>>

\* The SIP stack lets go of the operation of an ended subscription.
OperationReleased(c) ==
  /\ client[c].lingering # {}
  /\ Spend("release")
  /\ Run(c, [client[c] EXCEPT !.lingering = {}])
  /\ UNCHANGED <<server, toClient>>

ConferenceStep ==
  \/ \E s \in Subject : ChangeSubject(s)
  \/ \E l \in Lifetime : ChangeLifetime(l)
  \/ \E p \in Participant : ChangeAdmin(p)
  \/ \E p \in Guest : GuestAdded(p) \/ GuestRemoved(p)
  \/ \E d \in GuestDevice : GuestLeaves(d) \/ GuestNotifyAnswered(d) \/ GuestLeft(d)
  \/ \E p \in Participant : \E ds \in SUBSET DevicesOf(p) : RegistrationChanged(p, ds)
  \/ \E d \in Device : DeviceInterrupted(d) \/ DeviceInvited(d) \/ SessionEstablished(d)
  \/ ServerRestart

MessageStep(c) == DeliverToServer(c) \/ DeliverToClient(c) \/ NotifyAnswered(c)

ClientStep(c) ==
  \/ NetworkDown(c) \/ NetworkUp(c)
  \/ RegistrationOk(c) \/ RegistrationRefreshed(c)
  \/ EnteringBackground(c) \/ EnteringForeground(c)
  \/ SubscriptionError(c) \/ OperationReleased(c)

Next == ConferenceStep \/ \E c \in Client : MessageStep(c) \/ ClientStep(c)

Spec == Init /\ [][Next]_vars

(***************************************************************************)
(* Messages that are not lost arrive; the network comes back and the       *)
(* account registers and refreshes its registration; a subscription that   *)
(* is not refreshed fails.                                                 *)
(***************************************************************************)
Fairness ==
  \A c \in Client :
    /\ WF_vars(MessageStep(c))
    /\ WF_vars(NetworkUp(c))
    /\ WF_vars(RegistrationOk(c))
    /\ WF_vars(SubscriptionError(c))

FairSpec == Spec /\ Fairness

(***************************************************************************)
(* Properties.                                                             *)
(***************************************************************************)
Quiet(c) == toServer[c] = <<>> /\ toClient[c] = <<>>
Subscribed(c) == client[c].ev # 0 /\ server.sub[c] = client[c].ev
SameConference(c) ==
  /\ client[c].lastNotify = server.lastNotify
  /\ Visible(client[c].view) = Visible(server.conf)

\* A client whose subscription the server holds, with nothing on its way, sees
\* the conference the server has: no interleaving of changes, outages, lost and
\* late NOTIFYs, deltas and full states leaves it with a stale view that the
\* next NOTIFY would not show (conferenceInfoNotifyReceived(), subscribeReceived()).
SyncedView == \A c \in Client : Subscribed(c) /\ Quiet(c) => SameConference(c)

\* A client whose SUBSCRIBE was accepted is not dropped: the end of a replaced
\* subscription, or a late request about it, never ends the current one
\* (subscriptionStateChanged(), unsubscribePrivate()).
AcceptedHeld ==
  \A c \in Client : client[c].confirmed /\ Quiet(c) => server.sub[c] = client[c].ev

\* The number of a stored change is never given to another one, although
\* createNotifyMultipart() and a restart of the server set the counter back.
StoredInOrder ==
  \A i, j \in DOMAIN server.stored : i < j => server.stored[i].id < server.stored[j].id

\* Once the changes and outages are over, each client whose device is in the
\* conference ends up subscribed and sees what the server has, for good.
CatchesUp ==
  \A c \in Client :
    <>[](server.conf.device[c] # Absent) => <>[](Subscribed(c) /\ Quiet(c) /\ SameConference(c))
=============================================================================
