-------------------------------- MODULE Imdn --------------------------------
(***************************************************************************)
(* The delivery and display notifications (RFC 5438) a device sends about  *)
(* the messages it receives in one chat room: the handler Imdn of the      *)
(* room with its lists, its timer and the notifications it waits to be     *)
(* accepted, the flag in the database that survives a restart, and the     *)
(* application's read, stop and start.                                     *)
(*                                                                         *)
(* The room is small enough for notifications to go to the room itself:    *)
(* one SIP message carries all that is pending.                            *)
(***************************************************************************)
EXTENDS Naturals, FiniteSets

CONSTANTS
  Message,            \* the messages sent to this device
  MaxUndecryptable    \* how many copies of them it cannot decrypt at most

ASSUME MessageAssumption == IsFiniteSet(Message)
ASSUME MaxUndecryptableAssumption == MaxUndecryptable \in Nat

VARIABLES
  fact,         \* each message here: 0 unknown, 1 stored, 2 displayed
  required,     \* in memory: the messages whose delivery is to be notified
  dbRequired,   \* ... and in the database
  aggregated,   \* the messages the application has not been told of yet
  imdn,         \* the handler's lists and timer
  sent,         \* the notifications sent and not answered
  wire,         \* the notifications on their way to the server
  acked,        \* the server's answers on their way back
  told,         \* what the server has accepted about each message
  core,         \* "On", "Shutdown" or "Off"
  registered,   \* the account is registered and the network is there
  failures      \* how many copies could not be decrypted

disk == <<fact, dbRequired>>
net == <<wire, acked, told>>
vars == <<disk, required, aggregated, imdn, sent, net, core, registered, failures>>

Notification == [delivered : SUBSET Message, displayed : SUBSET Message, failed : SUBSET Message]

\* A notification that reports no failure.  Two reports of the same failures are
\* one element of the sets below, two receipts never are.
Receipt(i) == i.failed = {}

\* The types; an answer about a receipt finds the notification it belongs to still
\* in the list of those sent (onImdnMessageDelivered()).
TypeOK ==
  /\ fact \in [Message -> 0 .. 2]
  /\ required \subseteq Message /\ dbRequired \subseteq Message /\ aggregated \subseteq Message
  /\ imdn \in [delivered : SUBSET Message, displayed : SUBSET Message,
               failed : SUBSET Message, timer : BOOLEAN]
  /\ sent \subseteq Notification
  /\ wire \subseteq [content : Notification, tracked : BOOLEAN]
  /\ acked \subseteq Notification /\ \A i \in acked : Receipt(i) => i \in sent
  /\ told \in [Message -> 0 .. 2]
  /\ core \in {"On", "Shutdown", "Off"}
  /\ registered \in BOOLEAN
  /\ failures \in 0 .. MaxUndecryptable

NoImdn == [delivered |-> {}, displayed |-> {}, failed |-> {}, timer |-> FALSE]

Init ==
  /\ fact = [m \in Message |-> 0] /\ told = [m \in Message |-> 0]
  /\ required = {} /\ dbRequired = {} /\ aggregated = {}
  /\ imdn = NoImdn
  /\ sent = {} /\ wire = {} /\ acked = {}
  /\ core = "On" /\ registered = TRUE
  /\ failures = 0

(***************************************************************************)
(* The handler.                                                            *)
(***************************************************************************)
NotifyDelivery(h, ms) ==
  [h EXCEPT !.delivered = @ \cup ms, !.timer = @ \/ ms \ h.delivered # {}]

NotifyDeliveryError(h, ms) ==
  [h EXCEPT !.failed = @ \cup ms, !.timer = @ \/ ms \ h.failed # {}]

\* Mutant: a displayed message stays in the list of delivered ones.
MutNotifyDisplay(h, ms) ==
  [h EXCEPT !.displayed = @ \cup ms, !.timer = @ \/ ms \ h.displayed # {}]

NotifyDisplay(h, ms) ==
  [h EXCEPT !.delivered = @ \ ms, !.displayed = @ \cup ms, !.timer = @ \/ ms \ h.displayed # {}]

\* Mutant: the lists are passed in the wrong order.
MutImdnMessages(h) ==
  LET received == [delivered |-> h.displayed, displayed |-> h.delivered, failed |-> {}]
      failed == [delivered |-> {}, displayed |-> {}, failed |-> h.failed]
  IN CASE h.failed # {} -> {failed}
       [] h.delivered \cup h.displayed # {} /\ h.failed = {} -> {received}
       [] OTHER -> {}

\* send(): what the lists of h turn into.  The notifications of failures take the
\* place of the others, which are not sent.
ImdnMessages(h) ==
  LET received == [delivered |-> h.delivered, displayed |-> h.displayed, failed |-> {}]
      failed == [delivered |-> {}, displayed |-> {}, failed |-> h.failed]
  IN CASE h.failed # {} -> {failed}
       [] h.delivered \cup h.displayed # {} /\ h.failed = {} -> {received}
       [] OTHER -> {}

\* ... when the account is registered (reg); out are the notifications that were
\* waiting for an answer, transit those on their way.
SendImdn(h, reg, out, transit) ==
  IF reg
  THEN /\ imdn' = [NoImdn EXCEPT !.timer = h.timer]
       /\ sent' = out \cup ImdnMessages(h)
       /\ wire' = transit \cup {[content |-> i, tracked |-> TRUE] : i \in ImdnMessages(h)}
  ELSE /\ imdn' = h
       /\ sent' = out
       /\ wire' = transit

\* Notifications whose message object is gone: their answers reach nobody.
Untracked == {[w EXCEPT !.tracked = FALSE] : w \in wire}

TimerExpired ==
  /\ imdn.timer
  /\ SendImdn([imdn EXCEPT !.timer = FALSE], registered, sent, wire)
  /\ UNCHANGED <<disk, required, aggregated, acked, told, core, registered, failures>>

\* Mutant: the operations of the notifications that are given up keep reporting.
MutOnRegistrationOk ==
  /\ core = "On"
  /\ registered' = TRUE
  /\ SendImdn(imdn, TRUE, {}, Untracked)
  /\ UNCHANGED <<disk, required, aggregated, acked, told, core, failures>>

OnRegistrationOk ==
  /\ core = "On"
  /\ registered' = TRUE
  /\ acked' = {}
  /\ SendImdn(imdn, TRUE, {}, Untracked)
  /\ UNCHANGED <<disk, required, aggregated, told, core, failures>>

OnRegistrationLost ==
  /\ registered
  /\ registered' = FALSE
  /\ UNCHANGED <<disk, required, aggregated, imdn, sent, net, core, failures>>

\* The server's answer to a notification of ours.
OnImdnMessageDelivered(i) ==
  /\ i \in acked
  /\ acked' = acked \ {i}
  /\ sent' = sent \ {i}
  /\ dbRequired' = dbRequired \ (i.delivered \cup i.displayed)
  /\ imdn' = [imdn EXCEPT !.delivered = @ \ i.delivered, !.displayed = @ \ i.displayed,
                          !.failed = @ \ i.failed]
  /\ UNCHANGED <<fact, required, aggregated, wire, told, core, registered, failures>>

\* The answer is lost and the transaction times out.
OnImdnMessageNotDelivered(i) ==
  /\ i \in acked
  /\ acked' = acked \ {i}
  /\ sent' = sent \ {i}
  /\ UNCHANGED <<disk, required, aggregated, imdn, wire, told, core, registered, failures>>

(***************************************************************************)
(* The server.  A notification may be refused, or lost with the connection *)
(* it was sent on: only the former is an answer.                           *)
(***************************************************************************)
Reported(i, m) == CASE m \in i.displayed -> 2 [] m \in i.delivered -> 1 [] OTHER -> 0

ServerAccepts(w) ==
  /\ w \in wire
  /\ wire' = wire \ {w}
  /\ told' = [m \in Message |->
                IF Reported(w.content, m) > told[m] THEN Reported(w.content, m) ELSE told[m]]
  /\ acked' = IF w.tracked THEN acked \cup {w.content} ELSE acked
  /\ UNCHANGED <<disk, required, aggregated, imdn, sent, core, registered, failures>>

\* Mutant: the flag is cleared whatever became of the notification.
MutServerRefuses(w) ==
  /\ w \in wire
  /\ wire' = wire \ {w}
  /\ sent' = IF w.tracked THEN sent \ {w.content} ELSE sent
  /\ dbRequired' = dbRequired \ (w.content.delivered \cup w.content.displayed)
  /\ UNCHANGED <<fact, required, aggregated, imdn, acked, told, core, registered, failures>>

ServerRefuses(w) ==
  /\ w \in wire
  /\ wire' = wire \ {w}
  /\ sent' = IF w.tracked THEN sent \ {w.content} ELSE sent
  /\ UNCHANGED <<disk, required, aggregated, imdn, acked, told, core, registered, failures>>

IoError(w) ==
  /\ w \in wire
  /\ wire' = wire \ {w}
  /\ UNCHANGED <<disk, required, aggregated, imdn, sent, acked, told, core, registered, failures>>

(***************************************************************************)
(* Messages, and the application.                                          *)
(***************************************************************************)
\* receive(): the message is stored with its flag; the application is told of it
\* at once or, when messages are aggregated, a little later.
Receive(m) ==
  /\ core = "On"
  /\ fact[m] = 0
  /\ fact' = [fact EXCEPT ![m] = 1]
  /\ dbRequired' = dbRequired \cup {m}
  /\ \/ /\ aggregated' = aggregated \cup {m}
        /\ required' = required \cup {m}
        /\ UNCHANGED imdn
     \/ /\ imdn' = NotifyDelivery(imdn, {m})
        /\ UNCHANGED <<aggregated, required>>
  /\ UNCHANGED <<sent, net, core, registered, failures>>

ReceiveUndecryptable(m) ==
  /\ core = "On"
  /\ failures < MaxUndecryptable
  /\ failures' = failures + 1
  /\ imdn' = NotifyDeliveryError(imdn, {m})
  /\ UNCHANGED <<disk, required, aggregated, sent, net, core, registered>>

\* sendDeliveryNotification() of each of the messages.
DeliveriesNotified(ms) == NotifyDelivery(imdn, ms \cap required)

NotifyAggregatedChatMessages ==
  /\ core = "On"
  /\ aggregated # {}
  /\ aggregated' = {}
  /\ required' = required \ aggregated
  /\ imdn' = DeliveriesNotified(aggregated)
  /\ UNCHANGED <<disk, sent, net, core, registered, failures>>

\* The user opens the room.
MarkAsRead ==
  LET unread == {m \in Message : fact[m] = 1}
  IN /\ core = "On"
     /\ unread # {}
     /\ fact' = [m \in Message |-> IF m \in unread THEN 2 ELSE fact[m]]
     /\ required' = required \ unread
     /\ imdn' = NotifyDisplay(imdn, unread)
     /\ UNCHANGED <<dbRequired, aggregated, sent, net, core, registered, failures>>

\* The account may be unregistered before the handler hears of the shutdown.
Shutdown ==
  /\ core = "On"
  /\ core' = "Shutdown"
  /\ aggregated' = {}
  /\ required' = required \ aggregated
  /\ registered' \in {registered, FALSE}
  /\ SendImdn([DeliveriesNotified(aggregated) EXCEPT !.timer = FALSE], registered', sent, wire)
  /\ UNCHANGED <<disk, acked, told, failures>>

\* The stop is over, or its time is, or the program crashes: memory is gone.
Off ==
  /\ core # "Off"
  /\ core' = "Off"
  /\ required' = {} /\ aggregated' = {} /\ imdn' = NoImdn /\ sent' = {} /\ acked' = {}
  /\ wire' = Untracked
  /\ registered' = FALSE
  /\ UNCHANGED <<disk, told, failures>>

\* Mutant: what is still owed is not looked up.
MutStart ==
  /\ core = "Off"
  /\ core' = "On"
  /\ imdn' = NoImdn
  /\ UNCHANGED <<disk, required, aggregated, sent, net, registered, failures>>

\* The messages whose flag is still set in the database are notified again.
Start ==
  /\ core = "Off"
  /\ core' = "On"
  /\ imdn' = NotifyDelivery(NoImdn, dbRequired)
  /\ UNCHANGED <<disk, required, aggregated, sent, net, registered, failures>>

Next ==
  \/ TimerExpired \/ OnRegistrationOk \/ OnRegistrationLost
  \/ NotifyAggregatedChatMessages \/ MarkAsRead
  \/ Shutdown \/ Off \/ Start
  \/ \E m \in Message : Receive(m) \/ ReceiveUndecryptable(m)
  \/ \E i \in acked : OnImdnMessageDelivered(i) \/ OnImdnMessageNotDelivered(i)
  \/ \E w \in wire : ServerAccepts(w) \/ ServerRefuses(w) \/ IoError(w)

Spec == Init /\ [][Next]_vars

\* The application is stopped and started again and again, and registers; the
\* server does not refuse or lose what it is told about a message for ever.
ServerHears(m) ==
  \E w \in wire : m \in w.content.delivered \cup w.content.displayed /\ ServerAccepts(w)

Fairness ==
  /\ WF_vars(Start) /\ WF_vars(Off) /\ SF_vars(OnRegistrationOk)
  /\ \A m \in Message : SF_vars(ServerHears(m))

FairSpec == Spec /\ Fairness

(***************************************************************************)
(* Properties.                                                             *)
(***************************************************************************)
\* A stored message the server has not been told about is still marked in the
\* database: no crash, lost answer or refused notification makes the device
\* forget that it owes the sender a receipt.
ReceiptOwed == \A m \in Message : fact[m] > 0 /\ told[m] = 0 => m \in dbRequired

\* No notification says of the same message that it was delivered and that it was
\* displayed: the receiving side applies only the first entry about a message.
OneStatusPerMessage ==
  \A i \in sent \cup {w.content : w \in wire} : i.delivered \cap i.displayed = {}

\* What the server is told never runs ahead of the message and is not taken back.
Reports == INSTANCE DeliveryReport WITH Item <- Message
ImplementsReports == Reports!Spec

\* The server hears of every stored message in the end.
ReceiptArrives == \A m \in Message : fact[m] > 0 ~> told[m] > 0
=============================================================================
