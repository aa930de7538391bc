# A TLA+ verification of liblinphone's calls, conference events, messages and registration

liblinphone is a SIP user agent library, with the server side of its group chat
rooms. This directory holds TLA+ models of four parts of it: the call engine, the
conference event package, the outgoing chat messages with their receipts, and the
registration of accounts up to the stop of the core. With them come the TLC
configurations that check the models on small instances, and TLAPS proofs of the
central invariants of all four. Paths below are relative to the root of the
repository's source tree, `src/`. These abbreviations are used:

| | file | | file |
|---|---|---|---|
| CS | `src/conference/session/call-session.cpp` | SV | `src/conference/handlers/server-conference-event-handler.cpp` |
| MS | `src/conference/session/media-session.cpp` | CL | `src/conference/handlers/client-conference-event-handler.cpp` |
| CO | `src/sal/call-op.cpp` | SC | `src/conference/server-conference.cpp` |
| OP | `src/sal/op.cpp` | PD | `src/conference/participant-device.cpp` |
| SAL | `src/sal/sal.cpp` | CR | `src/chat/chat-room/server-chat-room.cpp` |
| CB | `coreapi/callbacks.c` | DB | `src/db/main-db.cpp` |
| OA | `src/sal/offeranswer.cpp` | CM | `src/chat/chat-message/chat-message.cpp` |
| AC | `src/account/account.cpp` | IM | `src/chat/notification/imdn.cpp` |
| RO | `src/sal/register-op.cpp` | RM | `src/chat/chat-room/chat-room.cpp` |
| CORE | `src/core/core.cpp` | CCR | `src/chat/chat-room/client-chat-room.cpp` |

Contents: 1 the system; 2 the modules; 3 abstractions and external behaviour;
4 runs; 5 bounds; 6 fairness; 7 proofs; 8 where the code departs from its
documentation or intent; 9 not modelled; 10 plan.

## 1. The system

### Inventory

| component | state it keeps | operations | hard behaviours | what makes it correct |
|---|---|---|---|---|
| call session (CS) | `state`, `prevState`, `lastStableState`, `pendingActions`, the op | invite, accept, decline, terminate, update; the SAL callbacks; repair of broken calls; transfer | callbacks in any order, restoring remembered states, queued actions | no illegal transition; every call that is over is released; no session waits for nothing |
| media session (MS) | local and result media descriptions, local/remote hold, streams | pause, resume, update, acceptUpdate, updated/updating/accepted, ICE deferral | crossing re-INVITEs, retries run seconds later | both sides agree on directions and on who holds |
| SIP call operation (CO, OP) | `mState`, `mDialog`, `mPendingClientTransaction`, `mPendingServerTransaction`, `mRetryFunc` and its timer, `mCallReleased` | call, accept, cancel, terminate, update, DTMF; response, request, timeout and dialog-terminated events | CANCEL crossing a 200, lost INVITE, 491, responses of other methods | no half-open call, no orphaned ringing |
| SAL dispatch (SAL, CB) | the op behind a dialog or transaction | routes stack events to ops and op events to sessions | the op may be released in a callback | an event reaches the op or session it is for |
| offer/answer engine (OA) | none (pure) | directions, codecs, encryption, potential configurations | asymmetric rules for offerer and answerer | both sides compute mirrored results |
| conference event package (SV, CL) | the server's change counter, the stored changes, each device's subscription; the client's version, view, subscription and its wish to have one | full and partial NOTIFY, deltas, SUBSCRIBE and its answers; reactions to network, registration and background changes | NOTIFYs lost in an outage or late after an unsubscription, replay of old changes in a new conference, a counter that goes back | a subscribed client with nothing on its way sees the server's conference; it gets there after every outage |
| server conference (SC, PD, CR) | participants, roles, devices and their states, subject, lifetime | add, resume, remove participants, admin succession, devices from the registration, one-to-one rooms | device states driven by sessions, subscriptions and registrations at once | no two changes share a number; a device that leaves is gone everywhere |
| client conference | same, mirrored | join, leave, subscribe | creation races | see conference event package |
| chat message (CM) | state, the database rows of its participants, the operation, the resend timer, the list of postponed messages of the room | send, resend, the answers of the server, receipts, load from the database | answers to older attempts, receipts in any order, resends from four sources at once, a crash while sending | the state shown and stored never claims more than what happened, and no failure is hidden |
| receipts, IMDN (IM) | lists of deliveries, displays and failures to notify, the aggregation timer, the notifications without an answer, the flag of each message in the database | notify delivery, display, failure; send; answers; shutdown, start | notifications lost, refused, forgotten by a registration refresh; restart | a receipt nobody got is still owed; no receipt says more than what happened |
| is-composing | refresh, idle and remote timers | start, stop, notification | timers racing with messages | indication ends |
| account registration (AC, RO, CB) | registration state, `mNeedToRegister`, `mIsUnregistering`, the posted update, the register operation and its refresher, the deletion timer | register, refresh, unregister, change of parameters, removal, network changes, credentials | a REGISTER overtaken by another one, answers lost after the registrar acted, removal during a REGISTER | the state tells what the registrar holds; an account that is to be registered gets registered |
| event subscribe/publish (`src/event`, `src/sal/event-op.cpp`) | subscription and publish states | subscribe, refresh, terminate | expiry racing a refresh | terminated exactly once |
| core life cycle (CORE), background tasks | global state, lists of accounts and of deleted accounts | start, stop, iterate | asynchronous stop that waits for answers | a stop ends |
| ICE service | check list, gathering state | gather, update from offer/answer | offers deferred until gathering ends | an offer is sent in the end |
| database, friends, CardDAV, encryption engine, tone manager, daemon, wrappers, testers | see `PROJECT.json` | | | |

### How the call components interact

The application calls `CallSession`/`MediaSession`; these change the session
state and call the op (`SalCallOp`), which builds SIP requests through the
belle-sip dialog and remembers the last one as `mPendingClientTransaction`.
Stack events come back through `Sal::process*EventCb` to `SalCallOp::process*Cb`,
which updates `mState` and calls the table of callbacks in CB
(`call_ringing`, `call_accepted`, `call_updating`, `call_failure`,
`call_terminated`, `call_released`), and those call the session again.
Three things happen outside of this call chain, later, in the main loop: the
retry timer armed after a 491 (OP `handleRetry`), the task that releases a call
after its dialog ended (CO `processDialogTerminatedCb`), and
`executePendingActions()` posted by every change of state.
All of this runs in one thread, so a handler is atomic; what is concurrent is
the other endpoint, the network, and the order in which the main loop serves
timers, tasks, messages and the application.

### How the conference components interact

The server conference (SC) changes its participants, devices, subject and
settings on behalf of users and sessions. Each `notify...()` of SC increments the
conference's `lastNotify`, hands the change to the event handler (SV), which
writes a conference-info document and sends it in a NOTIFY on the subscription of
every device that has one, and then stores the change in the database (DB). A
client's event handler (CL) subscribes with the last version it has applied; SV
answers with nothing, with the stored changes since (a multipart body), or with a
full state. A joining device becomes a present one, which is again a change: when its
session with the server is established, or, if it does not speak groupchat/1.2, when
it answers the NOTIFY of a full state. The client subscribes, unsubscribes and subscribes again when the
network, the registration of its account or the foreground state of the
application change, and when a document makes no sense to it. The server and each
client run in one thread each; they are concurrent with each other and with the
messages between them.

### How the chat components interact

`ChatMessage::send()` (CM) hands the message to its room; a client room whose
subscription is underway keeps it until the first NOTIFY (CCR), since the list of
participants is not known. Otherwise the message is stored, encrypted and sent by a
SIP operation whose answers come back through CB `message_delivery_update()`. A
state of the sender's own row drives the state of the message; the rows of the
other participants are driven by the receipts that come back as messages of their
own (IM), and the state of the message is computed again from all rows (CM
`setParticipantState`). A failed attempt may be repeated by the resend timer, by the
return of the network, by a registration, by the room and by the application. At
the recipient, RM tells IM of messages received, displayed or undecryptable; IM
collects them for a moment and sends one notification for all of them once the
account is registered; the answer of the server clears the flag in the database
(DB) from which a restart finds what it still owes.

### How the registration components interact

Everything that concerns the registration of an account (new parameters, the
network that comes back, its removal) sets `mNeedToRegister` and posts `update()`,
which the main loop runs; it registers when the network allows, releasing the
operation of the last registration. The operation (RO) is driven by a refresher of
belle-sip that also refreshes it by itself; its answers come back through CB
`register_success()` and `register_failure()` and end in `Account::setState()`,
which for a removed account goes on with its deletion: unregister, or forget it.
CORE keeps removed accounts until they are unregistered or a timer gives up, and
its asynchronous stop waits until no account is unregistering.

## 2. The modules

| module | content |
|---|---|
| `CallSession` | the record `Endpoint` of one side of a call and every handler as an operator from record to record |
| `Call` | two endpoints and the network between them: one action per application request, message, timer and main-loop task; the properties |
| `CallLifecycle` | the abstract specification: phases Idle, Setup, Established, Over, Released of both sides |
| `MCCall` | the budgets of the TLC runs |
| `CallProofs` | type correctness of every handler and of the specification |
| `CallInvProofs` | the inductive invariant of one endpoint and the theorems that follow from it |
| `CallSetupProofs` | the inductive invariant of both endpoints and the messages between them, and the theorems that follow from it, the refinement of `CallLifecycle` among them |
| `CallRenewalProofs` | the inductive invariant of a renegotiation, and what pause, resume and update leave behind |
| `ConferenceInfo` | the conference-info documents: what the server writes about a change, what a client makes of it |
| `ConferenceEvents` | one server, its clients and the messages between them: one action per change, message and event of a client's surroundings; the properties |
| `MCConference` | the rooms and the budgets of the TLC runs |
| `ConferenceProofs` | what the folds of the conference modules return, the invariants of `ConferenceEvents` and its theorems |
| `DeliveryReport` | abstract specification: what receipts promise about items that become delivered and displayed |
| `ChatMessage` | one message from its sending to the receipts of its recipients, at the sending device; the properties |
| `MCChatMessage` | the symmetry of the recipients |
| `ChatMessageProofs` | the inductive invariant of `ChatMessage`, its safety theorems and its refinement of `DeliveryReport` |
| `Imdn` | the receipts a receiving device owes and sends; the properties |
| `MCImdn` | the symmetry of the messages |
| `ImdnProofs` | the inductive invariant of `Imdn`, its safety theorems and its refinement of `DeliveryReport` |
| `Account` | one account, its operation, the registrar, the network and the stop of the core; the properties |
| `MCAccount` | the instance for TLC |
| `AccountProofs` | the inductive invariant of `Account` and its theorems |

The call modules come first, then those of conferences, of chat and of
registration.

### Calls: state

Each field of `Endpoint` names the member it stands for in a comment. The last
five (`dialog`, `client`, `server`, `info`, `bye`) are what CO observes of
belle-sip. `out` collects what a handler sends; the action moves it to the
network, so it is empty between steps. `attached` is TRUE as long as the session
has an op and the op has the session as user pointer.

### Calls: handlers and actions

| model | code |
|---|---|
| `SetState`, `BadTransition`, `SetSessionReleased` | CS `setState`, its sanity checks (`lFatal`), `setReleased` |
| `Updating`, `Updated`, `UpdatedByRemote`, `AcceptUpdate` | MS `updating`, `updated`, `startAcceptUpdate`; CS `updatedByRemote`, `acceptUpdate` |
| `Accepted`, `AcceptedNextState`, `Abort` | MS `accepted`, `abort` |
| `Failure`, `Terminated`, `RemoteRinging` | CS/MS `failure`, `terminated`, `remoteRinging` |
| `Pause`, `Resume`, `RetryResume`, `Update`, `ExecutePendingActions` | MS `pause`, `resume`, `update`; CS `executePendingActions` |
| `Terminate`, `TerminateSession`, `OpTerminate`, `CancelInvite` | CS/MS `terminate`, CO `terminate`, `cancelInvite` |
| `ProcessResponse`, `EarlyResponse`, `ConfirmedResponse` | CO `processResponseCb` by dialog state |
| `ReceiveCall`, `ReceiveReinvite`, `ReceiveCancel`, `ReceiveBye`, `ReceiveInfo` | CO `processRequestEventCb`, `callTerminated` |
| `ProcessTimeout`, `ProcessDialogTerminated`, `SetCallAsReleased` | CO callbacks of the same names |
| `HandleRetry`, `RunRetryFunc` | OP `handleRetry`, `runRetryFunc` |
| `ComputeDirOutgoing`, `ComputeDirIncoming`, `LocalDir` | OA; MS `forceStreamsDirAccordingToState` |

`PROJECT.json` gives the lines of each one. The actions of `Call` add the guard
(when the event can happen) and deliver what the handler sent. Where the code
has a synchronous chain (op, callback, session, op again) the model composes the
operators in the same order, so an action is the whole handler.

### Calls: the abstract specification

`CallLifecycle` is what the applications on both sides may rely on: a call is
set up once, established at most once, over at most once, then released; the
callee hears of it only after the caller started, and the caller is connected
only once the callee has answered; an ended call is released in the end.
`ImplementsLifecycle` instantiates it with the phase of `ua[u].state`; `StagesInOrder`
is its safety part.

### Conferences: state

`server` is the conference with its handler and its part of the database: `conf`
(subject, lifetime, who is a member and an administrator, the state of each
device), `lastNotify` (the counter in memory), `saved` (the counter in the
database), `stored` (the numbered events) and `sub` (the subscription of each
client's device, 0 for none). `client[c]` is CL: `ev` (the event object of the
subscription, 0 for none), `confirmed` (its SUBSCRIBE was answered by 200),
`wanted` (`subscriptionWanted`), `waiting` (`waitingFullState`),
`lastNotify`, `view`, `link` and `foreground`; `lingering` holds the ended
subscriptions whose operation still exists, and `answered` the subscription on
which the last NOTIFY was answered, which is what the server's
`notifyResponseCb()` sees.

### Conferences: handlers and actions

| model | code |
|---|---|
| `CreateNotify...`, `EndpointStatus`, `FullUser` | SV functions of the same names, `addEndpointSessionInfo` |
| `ApplyBody`, `Puzzling`, `ConferenceInfoNotifyReceived` | CL `conferenceInfoNotifyReceived`, `fillParticipantAttributes` |
| `Publish`, `Recipients`, `NotifyAll`, `NotifyAllExceptDevice` | SC `notify...()`, SV `notifyAll`, `notifyAllExceptDevice`, `notifyParticipant` |
| `SetParticipantDeviceState`, `SetDeviceLeft`, `ForgetIfLeft` | PD `setState`; SC `setParticipantDeviceState`, `onParticipantDeviceLeft` |
| `AddParticipantToList`, `ResumeParticipant`, `RemoveParticipant`, `ChooseAnotherAdmin`, `OnBye` | SC functions of the same names |
| `SetParticipantDevices`, `AddParticipantDevice`, `RemoveParticipantDevice`, `UpdateParticipantsSessions` | SC functions of the same names |
| `SubscribeReceived`, `AcceptSubscription`, `NotifyMissed`, `NotifyMultipart`, `NotifyFullState` | SC and SV `subscribeReceived`; SV `createNotifyMultipart`, `notifyFullState` |
| `SubscriptionTerminated` | SV `subscriptionStateChanged` |
| `Subscribe`, `SubscribeAsked`, `Unsubscribe`, `UnsubscribePrivate`, `RequestFullState`, `InvalidateSubscription` | CL `subscribe()` and `subscribe(const ConferenceId &)`, and functions of the same names |
| `NetworkDown`, `NetworkUp`, `RegistrationOk`, `RegistrationRefreshed`, `EnteringBackground`, `EnteringForeground` | CL `onNetworkReachable`, `onAccountRegistrationStateChanged`, `onEnteringBackground`, `onEnteringForeground` |
| `SessionEstablished`, `MoveDeviceToPresent`, `DispatchMessagesAfterFullState` | SC `onCallSessionStateChanged` (Connected), `onAckReceived`, `moveDeviceToPresent`; `ServerChatRoom::dispatchMessagesAfterFullState` |
| `NotifyAnswered`, `GuestNotifyAnswered`, `OnFirstNotifyReceived` | SV `notifyResponseCb`; SC `onFirstNotifyReceived` |
| `ServerRestart` | the conference as DB `getChatRooms` and SC's constructor restore it |

### Chat messages: state, handlers and actions

`msg` is the message on the sending device. In memory are `st` (`state`), `op`
(`salOp` set), `live` (the attempts whose answers still reach the message), `auto`
(`mAutomaticallyResent`), `timer`
(the resend timer), `listening` (registered as a listener of the core), `pending`
(in the room's list of postponed messages); in the database `stored`, `dbst`, the
sender's own row `me` and the rows `rcp`. `att` is what became of each attempt at
the server, `inbox`, `fact` and `imdn` are the recipients.

| model | code |
|---|---|
| `Transitions`, `IsValid`, `IsImdnControlledState` | CM `isValidStateTransition`, `isImdnControlledState` |
| `SetRow`, `UpdateInDb`, `Loaded` | DB `setChatMessageParticipantState`, `updateConferenceChatMessageEvent`, the loading of a message |
| `SetState`, `Aggregate`, `SetMyState`, `SetRecipientState` | CM `setState`, `setParticipantState` |
| `Sent`, `Unencryptable`, `PrivateSend`, `Send` | CM `ChatMessagePrivate::send`, `ChatMessage::send`; CCR and RM postponement |
| `HandleAutomaticResend`, `ResendTimerExpired`, `OnRegistered` | CM `handleAutomaticResend`, its timer, its listeners |
| `OnProvisional`, `OnAccepted`, `OnRefused`, `OnTimeout`, `OnIoError` | CB `message_delivery_update` with the mapping of `sal` states |
| `OnImdn` | IM `parse`, applied to the row of the recipient |
| `Crash` | a process that ends at any moment and reads the message back |

### Receipts: state, handlers and actions

| model | code |
|---|---|
| `NotifyDelivery`, `NotifyDeliveryError`, `NotifyDisplay` | IM functions of the same names with `startTimer` |
| `ImdnMessages`, `SendImdn`, `TimerExpired` | IM `send`, `timerExpired`, `stopTimer` |
| `OnRegistrationOk`, `OnImdnMessageDelivered`, `OnImdnMessageNotDelivered` | IM functions of the same names, the account listener |
| `Receive`, `ReceiveUndecryptable`, `NotifyAggregatedChatMessages`, `MarkAsRead` | CM `receive`, RM's aggregation, `sendDeliveryNotification`, `markAsRead` |
| `Shutdown`, `Off`, `Start` | the core's stop as IM hears of it, the loss of the process, the look-up of owed receipts at the start |

### Registration: state, handlers and actions

The fields of `acc` name the members of `Account` they stand for (`posted`, `op`,
`target`, `running`, `armed`, `auth` are the posted task, the operation and what its
refresher does). `Account` methods call each other, so that they are operators on
the record: `SetState` runs `HandleDeletion`, which may unregister, move on to
another state or remove the account.

| model | code |
|---|---|
| `Move`, `SetState`, `HandleDeletion`, `RemoveDeleted` | AC `setState`, `handleDeletion`; CORE `removeDeletedAccount` |
| `Unregister`, `RegisterAccount`, `Update`, `RefreshRegister` | AC `unregister`, `registerAccount`, `update`, `refreshRegister` |
| `Launch`, `Released` | RO `sendRegister`, `refreshRegister`, `unregister`; OP `release` |
| `Succeeded`, `Failed`, `ProcessAuthRequested`, `AddAuthInfo` | CB `register_success`, `register_failure`, the pending authentications |
| `SetAccountParams`, `RemoveAccount`, `DeletionTimeout` | AC `setAccountParams`; CORE `removeAccount`, the deletion timer |
| `NetworkDown`, `NetworkUp`, `Shutdown`, `IterateStop`, `StopTimeLimit` | `set_sip_network_reachable`, CORE `shutdown`, `isShutdownDone`, the end of the stop |

### Receipts: the abstract specification

`DeliveryReport` says what a receipt is worth to whoever reads it: each item goes
from unknown to delivered to displayed, what is reported never runs ahead of what
happened and is never taken back. Both ends implement it: `ChatMessage` with its
rows for the recipients of one message, `Imdn` with what the server was told about
the messages of one device.

## 3. Abstractions, and what is assumed of belle-sip

### Calls

belle-sip is not part of the repository. What the model takes for granted about
it is marked "External" in the modules and `external` in the map:

- messages of one direction arrive in order and once (a TCP or TLS connection);
  only the INVITE that starts a call can be lost for good (`InviteTimeout`);
- a dialog refuses every new request but BYE while a transaction is open, and
  answers 491 to an INVITE or INFO that crosses one of ours;
- the dialog changes before the callback runs; its termination is reported in a
  later iteration of the main loop;
- 100 is sent for the first INVITE only; a request that fits no dialog gets 481;
  a response reaches the op only through the transaction it belongs to; a
  re-INVITE that outlived its dialog creates no new one;
- a final response ends the server transaction at once, and ACK is implicit.

Data is reduced as follows. An SDP is the direction of its audio stream; the
call parameters always ask for sendrecv. An SDP that the offer/answer engine
cannot use is a choice of the environment: `reject` is a re-INVITE answered by
488, `incompatible` a 200 without a usable answer, `refuse` a busy callee. Status
codes are those CO tells apart. The retry delays are not timed: a timer may fire
at any moment, which includes the ranges of RFC 3261 used by the code (2.1-4 s
for the owner of the Call-ID, 0-2 s for the other side). Several copies of
`executePendingActions()` queued together run as one, since the second one finds
what the first one left. One DTMF INFO is in progress at a time. `IncomingTimeout`
is the ringing time-out of `CallSession::iterate()`.
`SalCallOp::processIoErrorCb()` (CO:258) and `processTransactionTerminatedCb()` (CO:691)
are left out. The first fails a call whose INVITE could not be sent at all, or an
established one whose request could not; the second one releases an op that is
Terminating and has no dialog, which in the model the time-out of the INVITE does
(`setReleased()` acts once), reports an I/O error for an INVITE that ends with no final
response, and drops the server transaction, which the model does with the final
response.
`OpTerminate` tests the client transaction being in state calling where the
code tests `mPendingClientTransaction` for NULL; on the reachable states with no
dialog both say the same.

### Conferences

- The room is a group chat room without media, with one subscription per room: the
  list subscription of several rooms (list handlers) is not modelled. Participants
  that own a modelled client stay members; guests come and go.
- A document is the record of what CL reads of it. Of the ephemeral settings only
  the lifetime is there; capabilities, streams and encryption keys are not.
- `LegacyDevice` are the devices whose groupchat protocol is older than 1.2. Any other
  device becomes Present through `SessionEstablished`: the 200 to the server's INVITE, or
  the ACK of a call it made by itself, for which it need not have been invited. The step
  may come at any moment while the device is waited for or joining, also while the client
  has no network (the 200 may have left before), and nothing makes it come. A device the
  server does not know does not call: `confirmJoining()` would add it. Of the
  subscription of a guest only the answer to its NOTIFY is there.
- Messages of one direction arrive in order: the 200 to a SUBSCRIBE before its
  NOTIFY. `NetworkDown` loses what is on its way to the client and any suffix of
  what it sent; what the server sends to a client that is not registered is lost.
  The server's own network does not fail.
- CB hands a NOTIFY to the event object the operation points to. That object is
  kept by an operation that is not released yet, so a NOTIFY of a subscription the
  client has ended is applied like any other, until the stack lets go of the
  operation (`OperationReleased`, `NetworkDown`).
- `unsubscribePrivate()` sends a SUBSCRIBE with Expires 0 only through the
  refresher of an accepted subscription (OP:922): before the 200 the server is not
  told anything.
- Subscriptions are numbered, and a number nothing refers to is used again, which
  keeps the state space finite and hides nothing.
- The clients start as invited devices (Joining) of a room whose counter is 1, with
  a first SUBSCRIBE of version 0 on its way and a view that holds only themselves.
- A participant that is added and the answer of the registration server that names
  its devices are one step. `heir` is any other member, where the code takes the
  first of its list.
- A handler of the server is one step, so `ServerRestart` happens between handlers:
  it restores the counter of the database, forgets the subscriptions, and sets the
  lifetime back, which is stored only when the room is created.
- `Visible` is what a client is expected to know: subject, lifetime, members,
  administrators and the devices that are not leaving, with their states.

### Chat messages and receipts

- One text message of a room of the Flexisip backend, in a room that exists. The
  server accepts or refuses an attempt; an accepted one reaches each recipient once,
  in any order. An attempt whose answer is lost may have been accepted: `OnTimeout`
  and `OnIoError` do not look at what the server did.
- Only the current operation of a message reports to it: `live` is emptied with the
  operation. Answers of older operations are lost.
- `OnProvisional` may come at any moment of a live attempt.
- The core is On: `OnIoError` stands for the mapping of CB:988 in that state; while
  the core stops an I/O error is what `OnTimeout` is.
- Recipients have one device. Its receipts are any of those an `Imdn` would send,
  and may be repeated after a restart; they arrive in any order, each at least once.
- `Imdn` models the room that sends one notification for all pending messages, with
  the delay of the aggregation untimed. Two notifications with the same content are
  one element of a set: nothing the handler does tells them apart.
- The server's answer reaches the handler through the message object of the
  notification; when a registration refresh drops these objects the answer reaches
  nobody (`Untracked`).
- `Off` is the end of a stop and a crash alike.
- A notification is a message of the room, so that it is postponed as well while the
  room's subscription is under way (CM:1293-1303). `Imdn` leaves this out: it adds a
  delay between `send()` and the wire, where any delay is possible, and a postponed
  notification that is lost with the process is one lost on the wire.

### Registration

- The refresher of belle-sip runs one transaction at a time. A REGISTER overtaken by
  another one either reached the registrar before or is lost; its answer is not
  reported.
- The refresher reports the error of a broken channel, and tries again by itself
  unless the registrar refused or challenged the request.
- `NetworkDown` covers the reset of the transports, which follows in the same step.
- Of what `isShutdownDone()` waits for only the accounts are there: calls, friend lists,
  rooms with messages or receipts on their way, and `stopAsyncEndEnabled`, which ends the
  wait for the rooms and the accounts alike (CORE:329), are not.
- The stop unregisters, as it does unless push notifications are in use.
- Several posted copies of `update()` collapse into one, since the second finds
  nothing to do.
- Credentials are a flag: a challenge is answered once `AddAuthInfo` gave them.

## 4. Runs

| run | instance | shows |
|---|---|---|
| `call_life` | 2 hang-ups, 1 busy, lost INVITE, pause, update and deferred answer | `NoOrphanRinging`: a caller that gave up leaves no callee ringing. `NoHalfOpenCall`: at rest both sides have the call or none. `ImplementsLifecycle`, with the release of every call that is over. `RenegotiationSettles` |
| `call_hold` | 2 pauses, 2 resumes, 2 updates, 1 deferred answer | `MirroredDirections`: at rest the negotiated directions mirror each other whatever crossed. `SettledAtRest`: at rest no session is in a transient state. `WaitsForSomething`: a session waiting for an answer has a request open or a retry set up |
| `call_mixed` | 1 pause, update, hang-up, DTMF, deferred answer, unusable answer, rejected re-INVITE, lost INVITE | `TypeOK`, `LegalTransitions`, `RetryTargetsLiveSession`, the inductive `Inv`, `NoHalfOpenCall` and `StagesInOrder` (the safety part of `CallLifecycle`), where every error path is taken |
| `conf_outage` | 1 client; 1 subject, 1 role, 2 outages, 1 stay in the background, 1 registration refresh, full state after more than 1 missed change | `SyncedView`: a subscribed client with nothing on its way sees the server's conference. `AcceptedHeld`: an accepted subscription is not dropped by the end of an older one. `TypeOK` |
| `conf_member` | 1 client older than groupchat/1.2 and the guest who created the room; 2 changes of membership, 1 of a device, 1 stay in the background, full state after more than 3 | `SyncedView` for members, administrators (the client inherits the role) and devices, through deltas and full states |
| `conf_recount` | 2 clients older than groupchat/1.2; 1 subject, 1 lifetime, 1 outage, 1 restart of the server | `StoredInOrder`: no stored change gets a number another one has |
| `conf_liveness` | 1 client; 1 change of its device, 1 outage, 1 restart, 1 stay in the background | `CatchesUp`: a client whose device is in the conference ends up subscribed and in sync for good |
| `chat_delivery` | 2 recipients, 2 attempts | `Honest`: the state shown and the one stored claim nothing that has not happened. `NoHiddenFailure`: a recipient's failure is not hidden. `ImplementsReports`: the rows of the recipients refine `DeliveryReport`. `TypeOK` |
| `chat_resend` | 1 recipient, 3 attempts | `NoResendLoop`: the timer resends once. `EventuallyReported`: a message is reported in the end, with the exceptions its definition names |
| `imdn_receipts` | 2 messages, 1 undecryptable copy | `ReceiptOwed`: the database owes what the server was not told. `OneStatusPerMessage`. `ImplementsReports`: what the server is told refines `DeliveryReport`. `TypeOK` |
| `imdn_live` | 1 message, 1 undecryptable copy | `ReceiptArrives`: the server hears of every stored message |
| `account_life` | 3 faults, 2 outages, 2 requests | `StateTellsBinding`: at rest Ok and Cleared agree with the registrar. `Reregisters`, `RemovedUnregisters`, `StopEnds`: the account gets registered, a removed one unregistered, and a stop ends, with the exceptions their definitions name. `TypeOK` |

"At rest" is `Quiet`: nothing in flight, for calls also no timer, task or
transaction open. `CHECK_DEADLOCK FALSE` everywhere: applications and users that
have nothing more to do leave a call, a room, a message or an account alone.

Run sizes (distinct states, two workers): `call_life` 110,000 (a minute),
`call_hold` 358,000, `call_mixed` 988,000 (a minute), `conf_outage` 1.4 million (a minute),
`conf_member` 914,000 (a minute), `conf_recount` 1.3 million (a minute), `conf_liveness` 148,000 (a minute), `chat_delivery` 384,000, `chat_resend` 406,000 (two minutes,
most of it for liveness), `imdn_receipts` 440,000, `imdn_live` 4,500, `account_life`
222,000.

## 5. Bounds

There is no bound on what the library does by itself: retries, timers, tasks,
responses. What is bounded is what the environment chooses, by the constant
`Budget`, a number for each of `pause`, `resume`, `update`, `dtmf`, `terminate`,
`defer`, `reject`, `incompatible`, `refuse`, `loss`, shared by the two sides.
Two renegotiations are needed for a crossing (one each); two pauses and two
resumes allow both sides to hold, and one side to hold while its peer gives up
its own hold; a second update after a retry is the shortest way to a second
491. `terminate` = 2 lets both sides hang up at once. The `defer`, `reject` and
`incompatible` paths each happen once because each ends a renegotiation, so a
second one starts from a settled state. The proofs of section 7 hold for every
budget, those about renegotiations for every budget without `dtmf`, `reject` and
`incompatible`.

The same in `ConferenceEvents`: `subject`, `admin`, `member`, `device` and
`lifetime` are changes of the conference, `restart` restarts of the server,
`network` outages, `background` stays in the background, `refresh` registration
refreshes of a subscribed client, `release` the end of lingering operations.
NOTIFYs, their answers, requests for full states, new subscriptions, invitations
and registrations of clients that are not subscribed are not bounded.
`FullStateTrigger` is
`full_state_trigger_due_to_missing_updates`, 10 by default; values from 1 to 3 make
all three answers to a SUBSCRIBE (nothing, delta, full state) happen with few
changes: a device that joins causes one change, a guest that joins up to four. Two
outages are needed for a SUBSCRIBE that is lost after one that was served; two
membership changes for a participant that comes and goes, or goes and comes back
before its device has left, within one absence.

The route by which a device becomes Present is a constant of the run, since it is one of
the device. The clients take the session route in `conf_outage` and `conf_liveness`, and
the NOTIFY route in `conf_member`, whose guest takes the session route, and in
`conf_recount`. As long as only safety is asked, a device of the session route may do all
that one of the NOTIFY route may: it may become Present at any moment of its joining.
The other assignments were checked apart from the runs and hold as well: every set of
`LegacyDevice` in `conf_outage` (there with two changes of the subject, up to 4.9 million
states), `conf_member` and `conf_liveness`, and one of two clients in `conf_recount`.

In `ChatMessage` what is bounded is the number of attempts. Two show a resend that
overtakes an older one, a late answer to it and copies at the recipients; two
recipients show receipts that disagree. The resend timer needs a third: the first
attempt, the resend of the timer, and the one that must not come. In `Imdn` the
messages are bounded, crashes, restarts, notifications, refusals and losses are not;
two messages show a notification that mixes a delivery and a display, and one
undecryptable copy the overwriting of section 8. In `Account` refreshes and retries
are not bounded; three faults are a challenge, a lost answer and a lost connection in
one history, two outages a network that goes away again before `update()` ran, two
requests a parameter change that is taken back.

The endpoints of a call are not symmetric (one calls), nor are the participants of a
room (one administers it). The recipients of a message are, and so are the messages
of a device: `chat_delivery` and `imdn_receipts` use that, and check no liveness.

## 6. Fairness

`FairSpec` asks for weak fairness of each main-loop source of each endpoint:
arriving messages, the dialog-terminated event, posted tasks, retry timers, the
queued INFO, ICE gathering and the ringing time-out. `linphone_core_iterate()`
serves all of them, and the transport is reliable. The one obligation on an
application is `AcceptDeferredUpdate`: after it deferred an answer
(`linphone_call_defer_update`) it has to give one. No application has to hang up,
answer, pause or resume. Termination of retries is not assumed: weak fairness of
`RetryTimer` says only that an armed timer fires once no request is pending.

The `FairSpec` of `ConferenceEvents` asks for weak fairness of `MessageStep`
(messages that are not lost arrive and NOTIFYs are answered), of `NetworkUp`, of
`RegistrationOk` (an account registers when it can, and refreshes its registration
for as long as it exists, which is what saves a client that wants no subscription
any more) and of `SubscriptionError` (the stack refreshes a subscription, and
reports a refresh the server does not know, or a SUBSCRIBE that is not answered).
Nobody has to change anything, to go to the background or to come back from it:
`CatchesUp` holds for a client that stays there because its account keeps
refreshing its registration.

The `Fairness` of `ChatMessage`: the resend timer fires, the server handles an
attempt that reaches it and its answer arrives while its operation is there (weak
fairness). Strong fairness is asked of two steps that the environment may disable
again and again: the account gets registered, and a subscription of the room gets
its NOTIFY, at moments when the message can be encrypted. Nobody has to send a
message again, and neither crashes nor broken connections have to stop.

The `Fairness` of `Imdn` describes an application that is used: it is started and
ends again and again, its account gets registered (strong fairness, since a crash
may come before), and the server does not refuse or lose for ever what it is told
about a message. Starts are needed: see section 8 for receipts only a start sends.

The `FairSpec` of `Account`: the main loop runs `update()`, delivers answers and ends
a stop that is done; the registrar answers a request that reaches it; a request fails
while the network is down; the refresher tries again after a failure that allows it.
Nothing is asked of the period of a refresh, of the deletion timer, of the time limit
of a synchronous stop, of the network or of the application.

## 7. Proofs

### Calls

The theorems about calls hold for every two different endpoints and every budget
(`EndpointAssumption`, `BudgetAssumption`, evaluated by TLC in every run); those of
`CallRenewalProofs` add a condition on the budget.

- `CallProofs!TypeCorrect`: `Spec => []TypeOK`. One lemma per handler; the
  substance is that the counters (pending actions, timers, open BYEs, budgets)
  stay natural numbers, that is, nothing is decremented that was not counted,
  and that every INVITE carries an offer.
- `CallInvProofs!EndpointConsistent`: `Spec => []Inv`.
- `CallInvProofs!NoIllegalTransition`: `Spec => []LegalTransitions`; no order of
  events makes `setState()` abort.
- `CallInvProofs!RetryIsSafe`: `Spec => []RetryTargetsLiveSession`; a retry
  lambda never runs on a session that is over.

Neither of the last two is inductive. `LegalTransitions` needs to know which
events can still reach a session that is over, and that depends on the op and
the dialog: for instance the 200 that follows an aborted call is harmless only
because the op that is set Active again (CO:622) has a BYE open and its session
is in Error. `RetryTargetsLiveSession` rests on a fact nobody wrote down: the
retry function is *not* cleared when a call ends, and the only thing that keeps
its timer from reviving the session is the BYE still open on the confirmed
dialog (the last conjunct of `RequestInv`). `Inv` puts the needed facts together
for one endpoint:

- `SessionInv`: what `state`, `prevState`, `lastStable` and `attached` say about
  each other;
- `OverInv`: the session is over when the op or the dialog is;
- `RequestInv`: in which states a request or a retry can be open;
- `FreshInv`: an endpoint nobody called yet, or that is ringing.

`Inv /\ TypeOK` is inductive endpoint by endpoint: it constrains nothing about
the network, so the theorems hold whatever the peer sends and in whatever order.
The proof of a handler goes through the relations at the head of the sections of
`CallInvProofs` (`SameSession`, `Moved`, `Asked`, `Replied`, `Ended`, `LetGo`),
which say what a group of handlers may change.

`CallSetupProofs` is about the two endpoints together:

- `CallSetupProofs!CallIsStaged`: `Spec => []CallInv`;
- `CallSetupProofs!BothOrNone`: `Spec => []NoHalfOpenCall`;
- `CallSetupProofs!NobodyRingsOn`:
  `Spec => [](ua[Caller].info = "none" => NoOrphanRinging)`. The condition is the
  exception of section 8, item 2: an INFO queued while the callee rings;
- `CallSetupProofs!CallFollowsLifecycle`: `Spec => StagesInOrder`, the refinement of
  `CallLifecycle` but for its fairness.

None of these is inductive: what one side may do depends on what is on its way to it,
and that on what the other side did. `CallInv` adds to `TypeOK` and `Inv` that each side
rests in a state its role allows (`Seated`) and that the call is in one of seven stages
(`Stage`), each a statement about both endpoints and both queues:

| stage | caller | callee | on the way |
|---|---|---|---|
| fresh | has no INVITE under way | not called | nothing |
| calling | waits | not called | the INVITE |
| ringing | waits | rings | provisional responses; CANCELs. A caller that cancelled has one under way, one that has heard nothing has a provisional response coming |
| answering | waits | has the dialog | the 200 behind provisional responses, then whatever the callee sends, and a BYE only if it has sent one; CANCELs |
| declined | waits | gone | the refusal; CANCELs and their answers |
| deaf | gone, behind an INFO that cannot be sent | any | anything |
| connected | has the dialog, or is gone | the same | a side with a dialog whose peer is gone has sent a BYE, and the answer to it is on its way |

A 200 that crosses the CANCEL takes "answering" to "connected" by a caller that is over
and sends its BYE (CO:655), which is what `NoHalfOpenCall` rests on. A lost INVITE
takes "calling" back to "fresh". The argument has two halves: first what a handler does
to its own endpoint and what it sends, for an endpoint with an open dialog (`Open`,
`Lasting`), without one (`Lost`), waiting for its first answer (`Pending`) and ringing;
then, from these, one lemma per stage (`FreshStep` to `DeclinedStep`, `SidesStep`) and
one for a lost INVITE (`StageTimeout`). That sessions only move on
(`Course`, `Onward`) and that the first 200 answers an offer in both directions is
proved along the way. TLC checked the stages on the instances of the three runs and on a
larger one before they were proved.

`CallRenewalProofs` is about what happens inside an established call, where both sides
may pause, resume and update at any time, their re-INVITEs cross, are refused by a 491,
repeated by a timer or answered later by the application, and either side may hang up:

- `CallRenewalProofs!RenewalIsOrderly`: `Spec /\ Gentle => []RenewalInv`;
- `CallRenewalProofs!NobodyWaitsInVain`: `Spec /\ Gentle => []WaitsForSomething`;
- `CallRenewalProofs!EverySessionSettles`: `Spec /\ Gentle => []SettledAtRest`;
- `CallRenewalProofs!BothSidesAgree`: `Spec /\ Gentle => []MirroredDirections`.

`Gentle` says that the budget has no `dtmf`, no `reject` and no `incompatible`; every
other choice is there any number of times: pauses, resumes, updates, deferred answers,
hang-ups, busy callees, lost INVITEs. `WaitsForSomething` and `SettledAtRest` need it:
with one DTMF, one rejected re-INVITE or one unusable answer TLC finds a session that is
left in a state it should pass through (section 8, item 1; section 9). `MirroredDirections` held in those instances as
well; it is proved under `Gentle` because its proof uses the rest of `RenewalInv`.

None of the three properties is inductive. What a session waits for is at its peer or on
the way, and a timer that repeats a re-INVITE helps only if the answer to the request it
repeats finds the retry function still set. `RenewalInv` is `CallInv`, the budget spent
so far (`Spared`) and a statement about both sides and both queues (`Pact`), in four
parts:

- `Fine`, of each side: no INFO is under way; a session in a transient state has its
  re-INVITE open, or a retry function *and* a timer that will run it; an open server
  transaction in an established session is a deferred update, which found the call running
  or held by the peer (`Calm`); a released op has dropped its session, and a session
  whose dialog is gone will be released by the main loop (`Tidy`), without which a
  session could stay in End for ever;
- `Deferring`: a session in UpdatedByRemote whose server transaction is gone has a peer
  that has given up. Without it, nothing says that the application's `acceptUpdate()`
  still answers anybody;
- `Civil`: which messages can be on their way to a side that has not given up: no CANCEL
  but that of the caller, no refusal but that of a callee that is gone. This is what keeps
  the responses an established session may hear to 100, 180, 200, 481 and 491;
- `Negotiated`: where the offer of each side is. It is in one place at most: nobody has
  made one (`Unasked`), it is on its way (`Asking`), at the peer that deferred its answer
  (`Deferred`), refused by a 491 on its way back (`Refusing`), or accepted by a 200 on its
  way back (`Accepting`). Then the two results mirror each other, or exactly one side
  has an answer under way that will make them do so (`Parley`). Both cannot be in
  `Accepting`: the SIP stack refuses an offer that finds a re-INVITE of the receiver open
  (`Crossing`, external), and the 200 travels ahead of any offer the answering side makes
  next. So the property rests on the order of the messages of one side.

The proof has the two halves of `CallSetupProofs`. First, for an endpoint in good order,
what each handler writes and sends: a request of the application makes an offer or keeps
it for later (`Initiates`), what arrives is answered, deferred, refused or noted
(`Responds`). Then what such a step makes of the place of either offer (`OwnKept`,
`TheirsKept` and the lemmas after them), of the stage the caller is in before the call
is established, and of `Pact` (`CallerPact`, `CalleePact`). TLC checked `Deferring` and
`Parley` with two pauses, a resume, an update, a deferred answer and a hang-up (922 683
states) before they were proved.

### Registration

For any number of faults, outages and requests (`BoundsAssumption`):

- `AccountProofs!AccountTypeCorrect`: `Spec => []TypeOK`. Its substance is that the
  operation, its refresher, the deletion timer and the list the account is in agree:
  nothing is refreshed or awaited for an account that is gone.
- `AccountProofs!RegistrationIsTruthful`: `Spec => []StateTellsBinding`.

`StateTellsBinding` alone is not inductive: it says nothing while a transaction runs,
and the step that ends one needs to know that an answer on its way tells what the
registrar did (`AnswerTellsBinding`). `RegInv` is the conjunction of the three. The
lemmas follow the calls: what `TriggerUpdate`, `Launch`, `Released`, `Move` do to the
record, then `HandleDeletion` and `SetState`, then each action.

### Chat messages

For any finite, non-empty set of recipients and any number of attempts
(`RecipientAssumption`, `MaxAttemptAssumption`):

- `ChatMessageProofs!ChatTypeCorrect`: `Spec => []TypeOK`, where a row holds a `RowState`:
  never InProgress or PendingDelivery, whatever state of the message is handed down;
- `ChatMessageProofs!ChatIsHonest`: `Spec => []Honest`;
- `ChatMessageProofs!FailuresAreShown`: `Spec => []NoHiddenFailure`;
- `ChatMessageProofs!ChatRefinesReports`: `Spec => ImplementsReports`;
- `ChatMessageProofs!ResendsEnd`: `Spec => []NoResendLoop`.

`Honest` and `NoHiddenFailure` are not inductive: the state of the message is computed
from the rows when one of them changes, so both need that every row is true
(`RowsTrue`), that the state shown and the state stored are each backed by the rows
(`Backed`), and that the two agree (`Synced`): a crash loads the stored one, and it
must claim no more than what was shown. Rows are true because the receipts on their way are
(`ImdnTrue`) and because nothing reaches a recipient that the server has not accepted
(`World`). `IInv` is the conjunction; TLC also checked it on the instance of
`chat_delivery`. `NoResendLoop` needs `TimerSpent`: the timer is armed in
PendingDelivery, which is entered from Idle only, and a message is Idle again only by
a resend, which sets `mAutomaticallyResent`.

### Receipts

For any finite set of messages and any number of undecryptable copies
(`MessageAssumption`, `MaxUndecryptableAssumption`):

- `ImdnProofs!ImdnTypeCorrect`: `Spec => []TypeOK`;
- `ImdnProofs!ReceiptsAreOwed`: `Spec => []ReceiptOwed`;
- `ImdnProofs!StatusIsUnique`: `Spec => []OneStatusPerMessage`;
- `ImdnProofs!ImdnRefinesReports`: `Spec => ImplementsReports`.

None is inductive. The flag in the database is cleared by an answer, so `ReceiptOwed`
needs that every answer on its way is about messages the server knows; the server's
knowledge is bounded by what notifications say, these by the lists, and the lists by
what happened to the messages (`Truthful`). That a delivery is not notified after the
display needs that a message in `required` has not been displayed. `IInv` puts these
together. `TypeOK` says among other things that an answer on its way belongs to a
notification that was sent, which two equal notifications of the same failure could
break; that a message is reported by one notification at a time (`OnceInv`) excludes it.

### Conferences

For any finite set of devices, any clients among them, of any protocol version, and any
budgets (`ClientAssumption`, `LegacyAssumption`, `BudgetAssumption`):

- `ConferenceProofs!ConferenceTypeCorrect`: `Spec => []TypeOK`;
- `ConferenceProofs!NumbersNotReused`: `Spec => []StoredInOrder`;
- `ConferenceProofs!AcceptedNotDropped`: `Spec => [](NoRestart => AcceptedHeld)`,
  where `NoRestart` says that the server has not been restarted yet.

The handlers fold over the devices of a participant and over the changes a subscriber
missed. What a fold over a set returns is proved once (`FoldExists`, `FoldType`), by
well-founded induction on strict inclusion with an explicit set in the place of the
property, and then one lemma per fold says what it keeps: a server stays well formed
and its numbers in order (`GoodServer`), it only counts up (`Counted`), it sends to the
subscribed only (`Reach`, `ReachBut`), it keeps the subscriptions it is not asked about
(`Kept`).

`StoredInOrder` is not inductive. `createNotifyMultipart()` and a restart set the
counter back, and the next number is new only because neither `lastNotify` nor `saved`
is ever below the number of the last stored change; this is part of `GoodServer`, which
is kept together with what a client believes of its own subscription (`Coherent`) in
`Steady`.

`AcceptedHeld` speaks of moments when nothing is on its way; `HeldInv` says what holds
before that: the last request of the client is the SUBSCRIBE of its current event, or
there is no request, and the server holds that event or has declined or terminated it in
an answer the client has yet to read. A request about a replaced event changes nothing
of this because a new event has a number that neither side uses (`FreshNumber`, a
pigeonhole argument). A restart of the server drops the subscriptions without telling
anyone, and the client believes in its own until its next NOTIFY or refresh fails:
hence `NoRestart`. That it gets over it is `CatchesUp`, which TLC checks.

### Only model-checked

Of calls, that an ended call is released and a renegotiation settled in the end, and what a
renegotiation leaves behind when a DTMF, a rejected re-INVITE or an unusable answer comes
in between: `MirroredDirections` was seen to hold there, the others do not. About conferences,
`SyncedView`: it depends on the budgets of its run (section 5), and the content of a view
after any number of partial documents is an induction over data. Liveness (`CatchesUp` and the other temporal
properties) is out of the prover's reach.

## 8. Where the code departs from its documentation or intent

Met while modelling. The models do what the code does, and the properties are stated
so that they hold of it; where one excludes such a case, its definition says so.

Calls:

1. CO:510, MS:3780. A pause asked for while a DTMF INFO is pending sends nothing,
   `pause()` reports success, and the 200 to the INFO drops the retry function the
   pause relied on ("has been either executed or not needed anymore"): the call stays
   in Pausing. `call_hold`, which checks `WaitsForSomething`, sends no DTMF.
2. OP:278. A DTMF sent while the callee rings replaces the INVITE as the transaction
   kept "for being able to cancel"; hanging up then sends no CANCEL and the callee
   rings on until its own time-out. `call_life`, which checks `NoOrphanRinging`, sends
   no DTMF.
3. MS:4777, CS:239-250. One `resume()` during Pausing is queued twice; the second copy
   undoes the next pause, although "the only way to resume a paused call is to call
   linphone_call_resume()" (`include/linphone/api/c-call.h:466`).

Conferences:

4. SC:1214, CR:483-497. A change of the ephemeral lifetime is numbered, "so that the
   delta can be calculated correctly", but not stored: a client that was away while
   the lifetime and then the subject changed gets a delta without the lifetime and a
   version that says nothing is missing.
5. CL:946-955. A registration refresh of a subscribed client takes back its wish to be
   subscribed; after a stay in the background it does not subscribe again until the
   next refresh.

Messages and receipts:

6. CB:988. An I/O error is mapped to PendingDelivery ("Retry delivery later on"), but a
   message that a provisional response has moved to InProgress may not go there: it
   stays InProgress, cannot be sent again and is repaired only by a restart. The first
   case of `Abandoned`.
7. IM:405-411. When deliveries or displays and failures are pending together, the
   notifications of the former are created, their lists are cleared, and the result is
   overwritten by the notifications of failures. Deliveries are owed until the next
   start; displays of messages whose delivery was acknowledged are never notified.
8. A message postponed for a subscription that then fails stays in the room's list:
   nobody sends it before the next NOTIFY, and by then the application may have sent
   it as well, so that it goes out twice. The last case of `Abandoned`.
9. A message in PendingDelivery is sent again when the network is back, but not after
   a restart, when nobody listens for it any more. The second case of `Abandoned`.
10. A late provisional response moves a message that is Displayed back to InProgress:
    the rows keep what they know (`ImplementsReports`), the state shown does not.

Registration:

11. AC:794-804. `unregister()` does nothing in Progress and Refreshing, and `update()`
    clears the flag that asked for it (AC:1300): an account disabled while its REGISTER
    is under way is registered when the 200 comes and is refreshed from then on.
12. CORE:342. The asynchronous stop waits for `mIsUnregistering`, which only a change of
    state clears. It does not end when the unREGISTER of a failed account is challenged
    and nobody has credentials, nor when the operation has no refresher, so that
    `unregister()` sends nothing. The exceptions of `StopEnds`.
13. CB:658. The comment says that a refresh moves through Refreshing "first"; the test is
    on the state before the current one, so that only every second one does.
14. CORE:2704. Removing an account others depend on sets `mNeedToRegister` of the removed
    account, where the log and the next line speak of the dependent one.
15. CB:686. A lost unREGISTER moves an account from Ok to Progress as if the request were
    repeated; nothing repeats it.
16. AC:1300. `mNeedToRegister` is cleared after `registerAccount()`: a request made from
    the callback of a state change inside it is lost.

## 9. Not modelled

In the call components: early media, reliable provisional responses, the UPDATE
method and session timers, transfer, redirection, push calls and forked INVITEs,
network loss with repair of broken calls, conferences, encryption and AVPF
restarts, deferral of re-INVITEs for ICE, the op's callbacks of I/O errors and of
terminated transactions (section 3). Building SDP and SIP messages,
authentication, sound resources and streams carry no call control.

Two properties of calls are not claimed because the code does not have them.
`SettledAtRest` fails when a rejected or unusable answer follows two updates that
crossed: `failure()` and `accepted()` restore `prevState`, which the peer's update
has set to UpdatedByRemote (CS:448-452); the budget of `call_hold` has no `reject`
or `incompatible` for that reason. And that a side whose peer is Paused is Paused
or PausedByRemote fails when its own pause crosses the peer's resume twice: only
StreamsRunning and Paused are remembered as stable (CS:89).

In the conference components: list subscriptions, the ephemeral mode, media
conferences, one-to-one rooms, creation and deletion of rooms, the client
conference's own session, a restart of the client, and a crash in the middle of a
handler of either side. `SyncedView` and `CatchesUp` are checked without changes of
the lifetime, for which they fail (section 8, item 4), and without restarts in
`SyncedView`.

In chat: file transfers and their states, basic chat rooms, the recovery of a room
after a 403, rooms that are being created or are terminated, rooms so large that
receipts go to each sender, the sender's other devices, reactions, replaced and
ephemeral messages, encryption beyond its success or failure. In the registration:
dependent accounts, a change of the server address (which unregisters from the old
one), the LIME user, publications, an account added again after its removal.

Other components: see the plan; those never to be modelled are the generated and
vendored code, the wrappers, the daemon and console, the testers, the SQL of the
database and the glue to lime, mediastreamer and belcard.

## 10. Plan

In order of importance:

1. **Call session** (done): `CallSession`, `Call`, `CallLifecycle` and their
   proofs.
2. **Conference event package** (done for single subscriptions):
   `ConferenceInfo`, `ConferenceEvents`. Next: list subscriptions, the ephemeral
   mode, a restart of the client with its database, crashes between notifying and
   storing; an abstract specification in which each client's view is a past state
   of the conference and becomes the current one.
3. **Chat message and IMDN** (done for text messages of group rooms):
   `ChatMessage`, `Imdn`, `DeliveryReport`, `ChatMessageProofs`, `ImdnProofs`. Next: file transfers, the
   composition of both modules over one server.
4. **Account registration** (done for one account): `Account`, `AccountProofs`. Next:
   dependent accounts, the change of the server. **Event subscribe/publish**:
   `Subscription`.
5. **Extensions of Call**: broken calls and repair, transfer, early media, the
   UPDATE method; `OfferAnswer` and the graph of potential configurations as pure
   operators against a reference definition.
6. Smaller machines: is-composing timers, background tasks, the LRU cache, the tone
   manager.

Theorems to come:

- `MirroredDirections` for every budget. It needs the place of each offer also when an
  answer is a 488 or a 200 nobody can use, without the rest of `Pact`.
