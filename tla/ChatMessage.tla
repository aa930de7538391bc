----------------------------- MODULE ChatMessage -----------------------------
(***************************************************************************)
(* One outgoing message of a group chat room (Flexisip backend), from the  *)
(* application's send() to the display notifications of the recipients:    *)
(* its state, the rows of its participants in the database, the SIP        *)
(* transactions that carry it, the automatic resend and the notifications  *)
(* that come back in any order.                                            *)
(*                                                                         *)
(* msg is the message as the sending device keeps it: what is in memory    *)
(* (st, op, live, auto, timer, listening, pending) and what is in the      *)
(* database (stored, dbst, me, rcp).  A crash loses the former.  fired     *)
(* counts the resends of the timer since the last other one.               *)
(***************************************************************************)
EXTENDS Naturals, FiniteSets

CONSTANTS
  Recipient,     \* the other participants of the room
  MaxAttempt     \* how many times the message goes out at most

ASSUME RecipientAssumption == IsFiniteSet(Recipient) /\ Recipient # {}
ASSUME MaxAttemptAssumption == MaxAttempt \in Nat

VARIABLES
  msg,        \* the message on the sending device
  underway,   \* the room's subscription has been asked for and not answered
  att,        \* what became of each attempt at the server
  inbox,      \* the attempts on their way to each recipient
  fact,       \* the message at each recipient: 0, 1 delivered, 2 displayed
  imdn        \* the notifications on their way back from each recipient

vars == <<msg, underway, att, inbox, fact, imdn>>

Attempt == 1 .. MaxAttempt
State == {"Idle", "InProgress", "Delivered", "NotDelivered", "DeliveredToUser",
          "Displayed", "PendingDelivery"}
\* What is stored of a recipient; the other states are the message's own.
RowState == {"Idle", "Delivered", "NotDelivered", "DeliveredToUser", "Displayed"}
ImdnKind == {"failed", "delivered", "displayed"}

Msg ==
  [st : State, dbst : State, me : State, rcp : [Recipient -> RowState],
   op : BOOLEAN, live : SUBSET Attempt, auto : BOOLEAN, timer : BOOLEAN,
   listening : BOOLEAN, pending : BOOLEAN, stored : BOOLEAN, fired : Nat]

\* The types; the row of a recipient is never InProgress or PendingDelivery,
\* whatever state of the message is handed down to it (updateConferenceChatMessageEvent()).
TypeOK ==
  /\ msg \in Msg
  /\ underway \in BOOLEAN
  /\ att \in [Attempt -> {"unused", "wire", "accepted", "refused"}]
  /\ inbox \in [Recipient -> SUBSET Attempt]
  /\ fact \in [Recipient -> 0 .. 2]
  /\ imdn \in [Recipient -> SUBSET ImdnKind]

(***************************************************************************)
(* The state machine of messages and of participants, without the states   *)
(* of file transfers.                                                      *)
(***************************************************************************)
Transitions ==
  [Idle |-> {"PendingDelivery", "InProgress", "Delivered", "NotDelivered", "DeliveredToUser", "Displayed"},
   InProgress |-> {"Delivered", "NotDelivered", "DeliveredToUser", "Displayed"},
   Delivered |-> {"InProgress", "NotDelivered", "DeliveredToUser", "Displayed"},
   PendingDelivery |-> {"Idle", "InProgress", "Delivered", "DeliveredToUser", "Displayed"},
   NotDelivered |-> {"Idle", "InProgress", "Delivered", "DeliveredToUser", "Displayed"},
   DeliveredToUser |-> {"InProgress", "Displayed"},
   Displayed |-> {"InProgress"}]

IsValid(from, to) == to \in Transitions[from]

IsImdnControlledState(s) == s \in {"Displayed", "DeliveredToUser", "NotDelivered"}

\* The numbers of the states, by which the database compares them.
Number ==
  [Idle |-> 0, InProgress |-> 1, Delivered |-> 2, NotDelivered |-> 3,
   DeliveredToUser |-> 6, Displayed |-> 7, PendingDelivery |-> 9]

\* Mutant: the comparison with the old state is forgotten.
MutSetRow(old, new) == new

\* setChatMessageParticipantState(): the row of a participant after a write.
SetRow(old, new) ==
  IF Number[new] < Number[old] /\ old \in {"Displayed", "DeliveredToUser"} THEN old ELSE new

\* setParticipantState() where it goes no further than the row.
Row(old, new) == IF IsValid(old, new) THEN SetRow(old, new) ELSE old

\* Mutant: any state is handed down while the stored one is not a recipient's.
MutUpdateInDb(m) ==
  LET handedDown == \/ m.st = "NotDelivered" /\ m.me = "NotDelivered"
                    \/ ~IsImdnControlledState(m.dbst)
  IN [m EXCEPT !.dbst = IF m.st = "InProgress" THEN @ ELSE m.st,
               !.me = IF handedDown THEN SetRow(@, m.st) ELSE @,
               !.rcp = IF handedDown THEN [p \in Recipient |-> SetRow(@[p], m.st)] ELSE @]

\* updateInDb(): the state is stored, and handed down to the participants if
\* the failure is the sender's own or the server accepted the message.
UpdateInDb(m) ==
  LET handedDown == \/ m.st = "NotDelivered" /\ m.me = "NotDelivered"
                    \/ m.st = "Delivered" /\ ~IsImdnControlledState(m.dbst)
  IN [m EXCEPT !.dbst = IF m.st = "InProgress" THEN @ ELSE m.st,
               !.me = IF handedDown THEN SetRow(@, m.st) ELSE @,
               !.rcp = IF handedDown THEN [p \in Recipient |-> SetRow(@[p], m.st)] ELSE @]

\* Mutant: the timer is armed after an automatic resend too.
MutSetState(m, s) ==
  LET entered == [m EXCEPT
        !.st = s,
        !.auto = @ /\ s \notin {"PendingDelivery", "Delivered", "DeliveredToUser", "Displayed"},
        !.rcp = IF s = "Delivered" THEN [p \in Recipient |-> Row(@[p], s)] ELSE @]
      saved == IF s = "InProgress" THEN entered ELSE UpdateInDb(entered)
      dropped == s \in {"PendingDelivery", "NotDelivered"}
  IN IF ~IsValid(m.st, s) THEN m
     ELSE [saved EXCEPT
             !.op = @ /\ ~dropped,
             !.live = IF dropped THEN {} ELSE @,
             !.listening = @ \/ s = "PendingDelivery",
             !.timer = @ \/ (s = "PendingDelivery" /\ m.op)]

SetState(m, s) ==
  LET entered == [m EXCEPT
        !.st = s,
        !.auto = @ /\ s \notin {"PendingDelivery", "Delivered", "DeliveredToUser", "Displayed"},
        !.rcp = IF s = "Delivered" THEN [p \in Recipient |-> Row(@[p], s)] ELSE @]
      saved == IF s = "InProgress" THEN entered ELSE UpdateInDb(entered)
      dropped == s \in {"PendingDelivery", "NotDelivered"}
  IN IF ~IsValid(m.st, s) THEN m
     ELSE [saved EXCEPT
             !.op = @ /\ ~dropped,
             !.live = IF dropped THEN {} ELSE @,
             !.listening = @ \/ s = "PendingDelivery",
             !.timer = @ \/ (s = "PendingDelivery" /\ m.op /\ ~m.auto)]

\* Mutants: one display is enough; the failures of the others do not count.
MutAggregatedState(m) ==
  LET rows == {m.rcp[p] : p \in Recipient}
  IN IF m.me = "NotDelivered" \/ "NotDelivered" \in rows THEN "NotDelivered"
     ELSE IF "Displayed" \in rows THEN "Displayed"
     ELSE IF rows \subseteq {"DeliveredToUser"} THEN "DeliveredToUser"
     ELSE IF rows \subseteq {"DeliveredToUser", "Delivered"} THEN "Delivered"
     ELSE m.st

MutOwnFailureOnly(m) ==
  LET rows == {m.rcp[p] : p \in Recipient}
  IN IF m.me = "NotDelivered" THEN "NotDelivered"
     ELSE IF rows = {"Displayed"} THEN "Displayed"
     ELSE IF rows \subseteq {"Displayed", "DeliveredToUser"} THEN "DeliveredToUser"
     ELSE IF rows \subseteq {"Displayed", "DeliveredToUser", "Delivered"} THEN "Delivered"
     ELSE m.st

\* The state of the message that the rows add up to, if they do.
AggregatedState(m) ==
  LET rows == {m.rcp[p] : p \in Recipient}
  IN IF m.me = "NotDelivered" \/ "NotDelivered" \in rows THEN "NotDelivered"
     ELSE IF rows = {"Displayed"} THEN "Displayed"
     ELSE IF rows \subseteq {"Displayed", "DeliveredToUser"} THEN "DeliveredToUser"
     ELSE IF rows \subseteq {"Displayed", "DeliveredToUser", "Delivered"} THEN "Delivered"
     ELSE m.st

Aggregate(m) == SetState(m, AggregatedState(m))

\* setParticipantState() for the sender and for a recipient.
SetMyState(m, s) ==
  LET written == [m EXCEPT !.me = SetRow(@, s)]
  IN IF ~IsValid(m.me, s) THEN m
     ELSE IF IsImdnControlledState(s) THEN Aggregate(written)
     ELSE SetState(written, s)

SetRecipientState(m, p, s) ==
  LET written == [m EXCEPT !.rcp[p] = SetRow(@, s)]
  IN IF IsValid(m.rcp[p], s) THEN Aggregate(written) ELSE m

Init ==
  /\ msg = [st |-> "Idle", dbst |-> "Idle", me |-> "Idle",
            rcp |-> [p \in Recipient |-> "Idle"], op |-> FALSE, live |-> {}, auto |-> FALSE,
            timer |-> FALSE, listening |-> FALSE, pending |-> FALSE, stored |-> FALSE,
            fired |-> 0]
  /\ underway \in BOOLEAN
  /\ att = [a \in Attempt |-> "unused"]
  /\ inbox = [p \in Recipient |-> {}]
  /\ fact = [p \in Recipient |-> 0]
  /\ imdn = [p \in Recipient |-> {}]

(***************************************************************************)
(* Sending.                                                                *)
(***************************************************************************)
\* ChatMessagePrivate::send() of attempt a.  A resend first puts the rows that
\* may go back to Idle there, the sender's own taking the message with it.
Sent(m, a) ==
  LET started == [m EXCEPT !.stored = TRUE, !.op = TRUE, !.live = @ \cup {a}]
      reset == [started EXCEPT !.rcp = [p \in Recipient |-> Row(@[p], "Idle")]]
  IN UpdateInDb(IF m.st \in {"PendingDelivery", "NotDelivered"}
                THEN SetMyState(reset, "Idle") ELSE started)

\* ... when the engine cannot encrypt it.
Unencryptable(m) == SetMyState([m EXCEPT !.stored = TRUE, !.op = TRUE], "NotDelivered")

NextAttempt(a) == att[a] = "unused" /\ \A b \in 1 .. a - 1 : att[b] # "unused"

Dispatch(m) ==
  \/ \E a \in Attempt :
       /\ NextAttempt(a)
       /\ msg' = Sent(m, a)
       /\ att' = [att EXCEPT ![a] = "wire"]
  \/ /\ msg' = Unencryptable(m)
     /\ UNCHANGED att

\* While the subscription of the room is underway the list of participants is
\* not known, and the message waits in the room.
PrivateSend(m) ==
  \/ ~underway /\ Dispatch(m)
  \/ underway /\ msg' = [m EXCEPT !.pending = TRUE] /\ UNCHANGED att

\* Mutant: a message that waits for the network cannot be sent.
MutSendable(m) ==
  m.st \notin {"InProgress", "Delivered", "DeliveredToUser", "Displayed", "PendingDelivery"}

\* ChatMessage::send() refuses a message that is being sent or was delivered.
Sendable(m) == m.st \notin {"InProgress", "Delivered", "DeliveredToUser", "Displayed"}

\* The application sends the message, or sends it again.
Send ==
  /\ Sendable(msg)
  /\ PrivateSend([msg EXCEPT !.fired = 0])
  /\ UNCHANGED <<underway, inbox, fact, imdn>>

HandleAutomaticResend(m) ==
  LET again == [m EXCEPT !.auto = TRUE, !.timer = FALSE]
  IN /\ \/ Sendable(m) /\ PrivateSend(again)
        \/ ~Sendable(m) /\ msg' = again /\ UNCHANGED att
     /\ UNCHANGED <<underway, inbox, fact, imdn>>

ResendTimerExpired ==
  msg.timer /\ HandleAutomaticResend([msg EXCEPT !.fired = @ + 1])

\* The network or the registration of the account is back.
OnRegistered == msg.listening /\ msg.st = "PendingDelivery" /\ HandleAutomaticResend(msg)

\* The conference event handler subscribes; the first NOTIFY sends what waited,
\* an error does not.
Subscribe ==
  /\ ~underway
  /\ underway' = TRUE
  /\ UNCHANGED <<msg, att, inbox, fact, imdn>>

NotifyReceived ==
  /\ underway
  /\ underway' = FALSE
  /\ \/ msg.pending /\ Dispatch([msg EXCEPT !.pending = FALSE, !.fired = 0])
     \/ ~msg.pending /\ UNCHANGED <<msg, att>>
  /\ UNCHANGED <<inbox, fact, imdn>>

SubscribeError ==
  /\ underway
  /\ underway' = FALSE
  /\ UNCHANGED <<msg, att, inbox, fact, imdn>>

(***************************************************************************)
(* The server of the room, and the transactions of the sender with it.     *)
(***************************************************************************)
ServerAccepts(a) ==
  /\ att[a] = "wire"
  /\ att' = [att EXCEPT ![a] = "accepted"]
  /\ inbox' = [p \in Recipient |-> inbox[p] \cup {a}]
  /\ UNCHANGED <<msg, underway, fact, imdn>>

ServerRefuses(a) ==
  /\ att[a] = "wire"
  /\ att' = [att EXCEPT ![a] = "refused"]
  /\ UNCHANGED <<msg, underway, inbox, fact, imdn>>

\* message_delivery_update() with the state the status stands for.  Only the
\* current operation of the message reports to it.
Update(a, s, final) ==
  /\ a \in msg.live
  /\ msg' = SetMyState(IF final THEN [msg EXCEPT !.live = @ \ {a}] ELSE msg, s)
  /\ UNCHANGED <<underway, att, inbox, fact, imdn>>

OnProvisional(a) == Update(a, "InProgress", FALSE)
OnAccepted(a) == att[a] = "accepted" /\ Update(a, "Delivered", TRUE)
OnRefused(a) == att[a] = "refused" /\ Update(a, "NotDelivered", TRUE)
OnTimeout(a) == Update(a, "NotDelivered", TRUE)
OnIoError(a) == Update(a, "PendingDelivery", TRUE)

(***************************************************************************)
(* The recipients.  A copy of a message they have is ignored, unless they  *)
(* cannot decrypt it: that is noticed first.                               *)
(***************************************************************************)
Receives(p) ==
  /\ \E a \in inbox[p] : inbox' = [inbox EXCEPT ![p] = @ \ {a}]
  /\ fact' = [fact EXCEPT ![p] = IF @ = 0 THEN 1 ELSE @]
  /\ imdn' = [imdn EXCEPT ![p] = IF fact[p] = 0 THEN @ \cup {"delivered"} ELSE @]
  /\ UNCHANGED <<msg, underway, att>>

CannotDecrypt(p) ==
  /\ \E a \in inbox[p] : inbox' = [inbox EXCEPT ![p] = @ \ {a}]
  /\ imdn' = [imdn EXCEPT ![p] = @ \cup {"failed"}]
  /\ UNCHANGED <<msg, underway, att, fact>>

Displays(p) ==
  /\ fact[p] = 1
  /\ fact' = [fact EXCEPT ![p] = 2]
  /\ imdn' = [imdn EXCEPT ![p] = @ \cup {"displayed"}]
  /\ UNCHANGED <<msg, underway, att, inbox>>

\* A device that restarts repeats the delivery notifications it is not sure of.
NotifiesAgain(p) ==
  /\ fact[p] > 0
  /\ imdn' = [imdn EXCEPT ![p] = @ \cup {"delivered"}]
  /\ UNCHANGED <<msg, underway, att, inbox, fact>>

\* Imdn::parse() on the sending device.
StateOfKind == [failed |-> "NotDelivered", delivered |-> "DeliveredToUser", displayed |-> "Displayed"]

OnImdn(p, k) ==
  /\ k \in imdn[p]
  /\ imdn' = [imdn EXCEPT ![p] = @ \ {k}]
  /\ msg' = SetRecipientState(msg, p, StateOfKind[k])
  /\ UNCHANGED <<underway, att, inbox, fact>>

\* The sending device crashes and reads the message back from its database.
Loaded(m) ==
  [m EXCEPT !.st = IF m.dbst = "Idle" THEN "NotDelivered" ELSE m.dbst,
            !.op = FALSE, !.live = {}, !.auto = FALSE, !.timer = FALSE,
            !.listening = FALSE, !.pending = FALSE]

Crash ==
  /\ msg.stored
  /\ msg' = Loaded(msg)
  /\ underway' = FALSE
  /\ UNCHANGED <<att, inbox, fact, imdn>>

Next ==
  \/ Send \/ ResendTimerExpired \/ OnRegistered
  \/ Subscribe \/ NotifyReceived \/ SubscribeError \/ Crash
  \/ \E a \in Attempt :
       \/ ServerAccepts(a) \/ ServerRefuses(a)
       \/ OnProvisional(a) \/ OnAccepted(a) \/ OnRefused(a) \/ OnTimeout(a) \/ OnIoError(a)
  \/ \E p \in Recipient :
       \/ Receives(p) \/ CannotDecrypt(p) \/ Displays(p) \/ NotifiesAgain(p)
       \/ \E k \in ImdnKind : OnImdn(p, k)

Spec == Init /\ [][Next]_vars

\* The main loop runs, the server answers the requests it gets, the account gets
\* registered again and again, and encryption does not fail for ever.
Fairness ==
  /\ WF_vars(ResendTimerExpired)
  /\ SF_vars(OnRegistered /\ att' # att)
  /\ SF_vars(NotifyReceived /\ (msg.pending => att' # att))
  /\ \A a \in Attempt :
       /\ WF_vars(ServerAccepts(a))
       /\ WF_vars(OnAccepted(a)) /\ WF_vars(OnRefused(a))

FairSpec == Spec /\ Fairness

(***************************************************************************)
(* Properties.                                                             *)
(***************************************************************************)
\* What the message and the database claim has happened: Displayed means every
\* recipient displayed it, DeliveredToUser that every recipient has it, Delivered
\* that the server accepted some attempt, whatever was resent, duplicated, lost
\* in a crash or notified out of order.
ClaimHolds(s) ==
  /\ s = "Displayed" => \A p \in Recipient : fact[p] = 2
  /\ s = "DeliveredToUser" => \A p \in Recipient : fact[p] >= 1
  /\ s = "Delivered" => \E a \in Attempt : att[a] = "accepted"

Honest == ClaimHolds(msg.st) /\ ClaimHolds(msg.dbst)

\* A participant whose row says that it did not get the message is never hidden
\* behind a message that counts as delivered: the user can still resend it.
NoHiddenFailure ==
  (\E p \in Recipient : msg.rcp[p] = "NotDelivered")
    => msg.st \notin {"Delivered", "DeliveredToUser", "Displayed"}

\* The resend timer fires at most once until the application sends the message
\* again or the room sends one that waited: a message that keeps failing does not
\* resend itself every few seconds for ever, whatever resends of the network and
\* of the user come in between.
NoResendLoop == msg.fired <= 1

\* The rows of the recipients never say more than what happened and never go back.
Told(s) == CASE s = "Displayed" -> 2 [] s = "DeliveredToUser" -> 1 [] OTHER -> 0
Reports == INSTANCE DeliveryReport
             WITH Item <- Recipient, told <- [p \in Recipient |-> Told(msg.rcp[p])]
ImplementsReports == Reports!Spec

\* A message that was sent is reported delivered or not delivered in the end,
\* however often its transactions break or the device crashes.  Excused is the
\* message that was abandoned: by an I/O error after a provisional response
\* (README, section 8), by a crash while it waited for the network, or by a subscription
\* that failed while it waited for the list of participants.
Reported == msg.st \in {"Delivered", "DeliveredToUser", "Displayed", "NotDelivered"}
Abandoned ==
  \/ msg.st = "InProgress" /\ msg.live = {}
  \/ msg.st = "PendingDelivery" /\ ~msg.listening
  \/ msg.pending /\ ~underway
Exhausted == \A a \in Attempt : att[a] # "unused"

EventuallyReported == msg.stored ~> (Reported \/ Abandoned \/ Exhausted)
=============================================================================
