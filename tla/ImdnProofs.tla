----------------------------- MODULE ImdnProofs -----------------------------
(***************************************************************************)
(* Proofs about module Imdn, for any messages and any number of copies     *)
(* that cannot be decrypted: a receipt the server does not have is owed by *)
(* the database, no notification reports two things of one message, and    *)
(* what the server is told implements DeliveryReport.                      *)
(*                                                                         *)
(* Each of them rests on what the lists, the notifications and the answers *)
(* on their way say about the messages themselves: IInv.                   *)
(***************************************************************************)
EXTENDS Imdn, TLAPS

Level == 0 .. 2
Lists == [delivered : SUBSET Message, displayed : SUBSET Message,
          failed : SUBSET Message, timer : BOOLEAN]
Wire == [content : Notification, tracked : BOOLEAN]

Types ==
  /\ fact \in [Message -> Level] /\ told \in [Message -> Level]
  /\ required \subseteq Message /\ dbRequired \subseteq Message
  /\ imdn \in Lists
  /\ sent \subseteq Notification /\ wire \subseteq Wire /\ acked \subseteq Notification

(* The lists n say of the messages no more than f does, and one thing of each. *)
Truthful(n, f) ==
  /\ \A m \in n.delivered : f[m] >= 1
  /\ \A m \in n.displayed : f[m] = 2
  /\ n.delivered \cap n.displayed = {}

(* The messages an answer clears from the database are known to the server. *)
Known(i) == \A m \in i.delivered \cup i.displayed : told[m] > 0

(* The inductive invariant. *)
IInv ==
  /\ Types
  /\ \A m \in Message : told[m] <= fact[m]
  /\ \A m \in required : fact[m] = 1
  /\ \A m \in dbRequired : fact[m] >= 1
  /\ Truthful(imdn, fact)
  /\ \A i \in sent : Truthful(i, fact)
  /\ \A w \in wire : Truthful(w.content, fact)
  /\ \A i \in acked : Known(i)
  /\ ReceiptOwed

(* The messages of the lists n are in none of the receipts that were sent. *)
Disjoint(n, out) ==
  \A i \in out : Receipt(i) =>
    n.delivered \cap i.delivered = {} /\ n.displayed \cap i.displayed = {}

(* Each receipt is reported once: what is still to be notified is not in a receipt  *)
(* that was sent, a receipt on its way waits for its answer and has none yet.       *)
OnceInv ==
  /\ aggregated \subseteq Message /\ core \in {"On", "Shutdown", "Off"}
  /\ registered \in BOOLEAN /\ failures \in 0 .. MaxUndecryptable
  /\ Disjoint(imdn, sent)
  /\ required \cap imdn.delivered = {}
  /\ \A i \in sent : Receipt(i) => required \cap i.delivered = {}
  /\ \A w \in wire : w.tracked /\ Receipt(w.content) =>
       w.content \in sent /\ w.content \notin acked
  /\ \A i \in acked : Receipt(i) => i \in sent
  /\ core = "Off" => sent = {} /\ required = {} /\ ~imdn.timer
-----------------------------------------------------------------------------
(* The handler. *)

\* Delivered messages that were not displayed may be added to the lists
\* (notifyDelivery()).
LEMMA NotifyDeliveryFacts ==
  ASSUME NEW h \in Lists, NEW ms \in SUBSET Message, NEW f, Truthful(h, f),
         \A m \in ms : f[m] >= 1 /\ m \notin h.displayed
  PROVE  NotifyDelivery(h, ms) \in Lists /\ Truthful(NotifyDelivery(h, ms), f)
<1> DEFINE t == h.timer \/ ms \ h.delivered # {}
<1>1. t \in BOOLEAN BY DEF Lists
<1>2. NotifyDelivery(h, ms) = [h EXCEPT !.delivered = @ \cup ms, !.timer = t]
  BY DEF NotifyDelivery
<1> HIDE DEF t
<1>3. NotifyDelivery(h, ms) \in Lists BY <1>1, <1>2 DEF Lists
<1>4. /\ NotifyDelivery(h, ms).delivered = h.delivered \cup ms
      /\ NotifyDelivery(h, ms).displayed = h.displayed
  BY <1>2 DEF Lists
<1> QED BY <1>3, <1>4 DEF Truthful

\* A failure changes nothing of what is said about delivery and display
\* (notifyDeliveryError()).
LEMMA NotifyDeliveryErrorFacts ==
  ASSUME NEW h \in Lists, NEW ms \in SUBSET Message, NEW f, Truthful(h, f)
  PROVE  NotifyDeliveryError(h, ms) \in Lists /\ Truthful(NotifyDeliveryError(h, ms), f)
<1> DEFINE t == h.timer \/ ms \ h.failed # {}
<1>1. t \in BOOLEAN BY DEF Lists
<1>2. NotifyDeliveryError(h, ms) = [h EXCEPT !.failed = @ \cup ms, !.timer = t]
  BY DEF NotifyDeliveryError
<1> HIDE DEF t
<1>3. NotifyDeliveryError(h, ms) \in Lists BY <1>1, <1>2 DEF Lists
<1>4. /\ NotifyDeliveryError(h, ms).delivered = h.delivered
      /\ NotifyDeliveryError(h, ms).displayed = h.displayed
  BY <1>2 DEF Lists
<1> QED BY <1>3, <1>4 DEF Truthful

\* Displayed messages leave the list of delivered ones (notifyDisplay()).
LEMMA NotifyDisplayFacts ==
  ASSUME NEW h \in Lists, NEW ms \in SUBSET Message, NEW f, Truthful(h, f),
         \A m \in ms : f[m] = 2
  PROVE  NotifyDisplay(h, ms) \in Lists /\ Truthful(NotifyDisplay(h, ms), f)
<1> DEFINE t == h.timer \/ ms \ h.displayed # {}
<1>1. t \in BOOLEAN BY DEF Lists
<1>2. NotifyDisplay(h, ms) =
        [h EXCEPT !.delivered = @ \ ms, !.displayed = @ \cup ms, !.timer = t]
  BY DEF NotifyDisplay
<1> HIDE DEF t
<1>3. NotifyDisplay(h, ms) \in Lists BY <1>1, <1>2 DEF Lists
<1>4. /\ NotifyDisplay(h, ms).delivered = h.delivered \ ms
      /\ NotifyDisplay(h, ms).displayed = h.displayed \cup ms
  BY <1>2 DEF Lists
<1> QED BY <1>3, <1>4 DEF Truthful

\* Empty lists say nothing.
LEMMA NoImdnFacts ==
  ASSUME NEW f
  PROVE  NoImdn \in Lists /\ Truthful(NoImdn, f) /\ NoImdn.displayed = {}
BY DEF NoImdn, Lists, Truthful

\* The notifications made of truthful lists are truthful (send()).
LEMMA ImdnMessagesFacts ==
  ASSUME NEW h \in Lists, NEW f, Truthful(h, f)
  PROVE  /\ ImdnMessages(h) \subseteq Notification
         /\ \A i \in ImdnMessages(h) : Truthful(i, f)
<1> DEFINE r == [delivered |-> h.delivered, displayed |-> h.displayed, failed |-> {}]
           e == [delivered |-> {}, displayed |-> {}, failed |-> h.failed]
<1>1. r \in Notification /\ Truthful(r, f) BY DEF Lists, Notification, Truthful
<1>2. e \in Notification /\ Truthful(e, f) BY DEF Lists, Notification, Truthful
<1>3. ImdnMessages(h) = CASE h.failed # {} -> {e}
                          [] h.delivered \cup h.displayed # {} /\ h.failed = {} -> {r}
                          [] OTHER -> {}
  BY DEF ImdnMessages
<1> HIDE DEF r, e
<1> QED BY <1>1, <1>2, <1>3

\* Sending keeps the lists, the notifications that wait for an answer and those on
\* their way truthful.
LEMMA SendImdnFacts ==
  ASSUME NEW h \in Lists, Truthful(h, fact),
         NEW out \in SUBSET Notification, \A i \in out : Truthful(i, fact),
         NEW transit \in SUBSET Wire, \A w \in transit : Truthful(w.content, fact),
         NEW reg, SendImdn(h, reg, out, transit)
  PROVE  /\ imdn' \in Lists /\ Truthful(imdn', fact)
         /\ sent' \subseteq Notification /\ \A i \in sent' : Truthful(i, fact)
         /\ wire' \subseteq Wire /\ \A w \in wire' : Truthful(w.content, fact)
<1>1. CASE reg
  <2>1. /\ imdn' = [NoImdn EXCEPT !.timer = h.timer]
        /\ sent' = out \cup ImdnMessages(h)
        /\ wire' = transit \cup {[content |-> i, tracked |-> TRUE] : i \in ImdnMessages(h)}
    BY <1>1 DEF SendImdn
  <2>2. imdn' \in Lists /\ Truthful(imdn', fact)
    BY <2>1 DEF NoImdn, Lists, Truthful
  <2>3. /\ ImdnMessages(h) \subseteq Notification
        /\ \A i \in ImdnMessages(h) : Truthful(i, fact)
    BY ImdnMessagesFacts
  <2>4. \A i \in ImdnMessages(h) :
          /\ [content |-> i, tracked |-> TRUE] \in Wire
          /\ [content |-> i, tracked |-> TRUE].content = i
    BY <2>3 DEF Wire
  <2>5. sent' \subseteq Notification /\ \A i \in sent' : Truthful(i, fact)
    BY <2>1, <2>3
  <2>6. wire' \subseteq Wire /\ \A w \in wire' : Truthful(w.content, fact)
    <3> SUFFICES ASSUME NEW w \in wire' PROVE w \in Wire /\ Truthful(w.content, fact)
      OBVIOUS
    <3>1. CASE w \in transit BY <3>1
    <3>2. CASE w \in {[content |-> i, tracked |-> TRUE] : i \in ImdnMessages(h)}
      <4>1. PICK i \in ImdnMessages(h) : w = [content |-> i, tracked |-> TRUE] BY <3>2
      <4> QED BY <2>3, <2>4, <4>1
    <3> QED BY <2>1, <3>1, <3>2
  <2> QED BY <2>2, <2>5, <2>6
<1>2. CASE ~reg
  <2>1. imdn' = h /\ sent' = out /\ wire' = transit BY <1>2 DEF SendImdn
  <2> QED BY <2>1
<1> QED BY <1>1, <1>2

\* A notification that is no longer tracked has the same content.
LEMMA UntrackedFacts ==
  ASSUME IInv
  PROVE  Untracked \subseteq Wire /\ \A w \in Untracked : Truthful(w.content, fact)
<1> SUFFICES ASSUME NEW u \in Untracked PROVE u \in Wire /\ Truthful(u.content, fact)
  OBVIOUS
<1>1. PICK w \in wire : u = [w EXCEPT !.tracked = FALSE] BY DEF Untracked
<1>2. w \in Wire /\ Truthful(w.content, fact) BY DEF IInv, Types
<1>3. u \in Wire /\ u.content = w.content BY <1>1, <1>2 DEF Wire
<1> QED BY <1>2, <1>3
-----------------------------------------------------------------------------
(* The actions. *)

\* The initial state satisfies the invariant.
LEMMA InitIInv == Init => IInv
<1> SUFFICES ASSUME Init PROVE IInv OBVIOUS
<1>1. Types BY NoImdnFacts DEF Init, Types, Level
<1>2. Truthful(imdn, fact) BY NoImdnFacts DEF Init
<1>3. ReceiptOwed BY DEF Init, ReceiptOwed
<1>4. \A m \in Message : told[m] <= fact[m] BY DEF Init
<1> QED BY <1>1, <1>2, <1>3, <1>4 DEF Init, IInv

\* A step that changes only lists and notifications keeps the invariant if they
\* stay truthful.
LEMMA ListsStep ==
  ASSUME IInv, UNCHANGED <<disk, told>>, required' \subseteq required,
         acked' \subseteq acked,
         imdn' \in Lists, Truthful(imdn', fact),
         sent' \subseteq Notification, \A i \in sent' : Truthful(i, fact),
         wire' \subseteq Wire, \A w \in wire' : Truthful(w.content, fact)
  PROVE  IInv'
<1>1. fact' = fact /\ dbRequired' = dbRequired /\ told' = told BY DEF disk
<1>2. Types' BY <1>1 DEF IInv, Types
<1>3. /\ Truthful(imdn', fact') /\ \A i \in sent' : Truthful(i, fact')
      /\ \A w \in wire' : Truthful(w.content, fact')
  BY <1>1
<1>4. \A i \in acked' : Known(i)' BY <1>1 DEF IInv, Known
<1>5. ReceiptOwed' BY <1>1 DEF IInv, ReceiptOwed
<1>6. /\ \A m \in Message : told'[m] <= fact'[m]
      /\ \A m \in required' : fact'[m] = 1
      /\ \A m \in dbRequired' : fact'[m] >= 1
  BY <1>1 DEF IInv
<1> QED BY <1>2, <1>3, <1>4, <1>5, <1>6 DEF IInv

\* Removing the timer of the lists changes nothing of what they say.
LEMMA StopTimerFacts ==
  ASSUME NEW h \in Lists, NEW f, Truthful(h, f)
  PROVE  [h EXCEPT !.timer = FALSE] \in Lists /\ Truthful([h EXCEPT !.timer = FALSE], f)
<1>1. [h EXCEPT !.timer = FALSE] \in Lists BY DEF Lists
<1>2. /\ [h EXCEPT !.timer = FALSE].delivered = h.delivered
      /\ [h EXCEPT !.timer = FALSE].displayed = h.displayed
  BY DEF Lists
<1> QED BY <1>1, <1>2 DEF Truthful

\* The timer of the handler.
LEMMA TimerExpiredIInv == IInv /\ TimerExpired => IInv'
<1> SUFFICES ASSUME IInv, TimerExpired PROVE IInv' OBVIOUS
<1> DEFINE h == [imdn EXCEPT !.timer = FALSE]
<1>1. h \in Lists /\ Truthful(h, fact) BY StopTimerFacts DEF IInv, Types
<1>2. SendImdn(h, registered, sent, wire) BY DEF TimerExpired
<1> HIDE DEF h
<1>3. sent \in SUBSET Notification /\ wire \in SUBSET Wire
      /\ (\A i \in sent : Truthful(i, fact)) /\ \A w \in wire : Truthful(w.content, fact)
  BY DEF IInv, Types
<1>4. /\ imdn' \in Lists /\ Truthful(imdn', fact)
      /\ sent' \subseteq Notification /\ \A i \in sent' : Truthful(i, fact)
      /\ wire' \subseteq Wire /\ \A w \in wire' : Truthful(w.content, fact)
  BY <1>1, <1>2, <1>3, SendImdnFacts
<1>5. UNCHANGED <<disk, told>> /\ required' = required /\ acked' = acked
  BY DEF TimerExpired
<1> QED BY <1>4, <1>5, ListsStep

\* A registration sends what is pending and gives up what was sent.
LEMMA OnRegistrationOkIInv == IInv /\ OnRegistrationOk => IInv'
<1> SUFFICES ASSUME IInv, OnRegistrationOk PROVE IInv' OBVIOUS
<1>1. imdn \in Lists /\ Truthful(imdn, fact) BY DEF IInv, Types
<1>2. SendImdn(imdn, TRUE, {}, Untracked) BY DEF OnRegistrationOk
<1>3. Untracked \in SUBSET Wire /\ \A w \in Untracked : Truthful(w.content, fact)
  BY UntrackedFacts
<1>4. {} \in SUBSET Notification /\ \A i \in {} : Truthful(i, fact) OBVIOUS
<1>5. /\ imdn' \in Lists /\ Truthful(imdn', fact)
      /\ sent' \subseteq Notification /\ \A i \in sent' : Truthful(i, fact)
      /\ wire' \subseteq Wire /\ \A w \in wire' : Truthful(w.content, fact)
  BY <1>1, <1>2, <1>3, <1>4, SendImdnFacts
<1>6. UNCHANGED <<disk, told>> /\ required' = required /\ acked' = {}
  BY DEF OnRegistrationOk
<1> QED BY <1>5, <1>6, ListsStep

\* Nothing of the handler changes when the registration is lost, an answer is lost,
\* or the server refuses or never gets a notification.
LEMMA LossIInv ==
  ASSUME IInv,
         \/ OnRegistrationLost
         \/ \E i \in acked : OnImdnMessageNotDelivered(i)
         \/ \E w \in wire : ServerRefuses(w) \/ IoError(w)
         \/ UNCHANGED vars
  PROVE  IInv'
<1>1. /\ UNCHANGED <<disk, told>> /\ required' = required /\ imdn' = imdn
      /\ sent' \subseteq sent /\ wire' \subseteq wire /\ acked' \subseteq acked
  BY DEF OnRegistrationLost, OnImdnMessageNotDelivered, ServerRefuses, IoError, vars, net
<1>2. /\ imdn' \in Lists /\ Truthful(imdn', fact)
      /\ sent' \subseteq Notification /\ \A i \in sent' : Truthful(i, fact)
      /\ wire' \subseteq Wire /\ \A w \in wire' : Truthful(w.content, fact)
  BY <1>1 DEF IInv, Types
<1> QED BY <1>1, <1>2, ListsStep

\* The answer of the server clears the flags of messages it knows.
LEMMA OnImdnMessageDeliveredIInv ==
  ASSUME IInv, NEW i \in acked, OnImdnMessageDelivered(i)
  PROVE  IInv'
<1>1. /\ fact' = fact /\ told' = told /\ required' = required /\ wire' = wire
      /\ sent' \subseteq sent /\ acked' \subseteq acked
      /\ dbRequired' = dbRequired \ (i.delivered \cup i.displayed)
      /\ imdn' = [imdn EXCEPT !.delivered = @ \ i.delivered, !.displayed = @ \ i.displayed,
                              !.failed = @ \ i.failed]
  BY DEF OnImdnMessageDelivered
<1>2. Known(i) BY DEF IInv
<1>3. imdn' \in Lists BY <1>1 DEF IInv, Types, Lists
<1>4. /\ imdn'.delivered = imdn.delivered \ i.delivered
      /\ imdn'.displayed = imdn.displayed \ i.displayed
  BY <1>1 DEF IInv, Types, Lists
<1>5. Truthful(imdn', fact') BY <1>1, <1>4 DEF IInv, Truthful
<1>6. Types' BY <1>1, <1>3 DEF IInv, Types
<1>7. ReceiptOwed' BY <1>1, <1>2 DEF IInv, Types, ReceiptOwed, Known, Level
<1>8. \A j \in acked' : Known(j)' BY <1>1 DEF IInv, Known
<1>9. /\ \A j \in sent' : Truthful(j, fact') /\ \A w \in wire' : Truthful(w.content, fact')
  BY <1>1 DEF IInv
<1> QED BY <1>1, <1>5, <1>6, <1>7, <1>8, <1>9 DEF IInv

\* What the server records of a notification is between what it knew and the fact.
LEMMA ServerAcceptsFacts ==
  ASSUME IInv, NEW w \in wire, ServerAccepts(w)
  PROVE  /\ told' \in [Message -> Level]
         /\ \A m \in Message : told'[m] >= told[m] /\ told'[m] <= fact[m]
         /\ \A m \in w.content.delivered \cup w.content.displayed : told'[m] > 0
<1> DEFINE r(m) == Reported(w.content, m)
<1>1. w \in Wire /\ Truthful(w.content, fact) BY DEF IInv, Types
<1>2. told' = [m \in Message |-> IF r(m) > told[m] THEN r(m) ELSE told[m]]
  BY DEF ServerAccepts
<1>3. \A m \in Message : fact[m] \in Level /\ told[m] \in Level /\ told[m] <= fact[m]
  BY DEF IInv, Types
<1>4. \A m \in Message : r(m) \in Level /\ r(m) <= fact[m]
  BY <1>1, <1>3 DEF Truthful, Reported, Level
<1>5. \A m \in w.content.delivered \cup w.content.displayed : m \in Message /\ r(m) > 0
  BY <1>1 DEF Wire, Notification, Reported
<1> HIDE DEF r
<1>6. \A m \in Message : told'[m] = IF r(m) > told[m] THEN r(m) ELSE told[m] BY <1>2
<1>7. told' \in [Message -> Level] BY <1>2, <1>3, <1>4
<1> QED BY <1>3, <1>4, <1>5, <1>6, <1>7 DEF Level

\* The server accepts a notification.
LEMMA ServerAcceptsIInv ==
  ASSUME IInv, NEW w \in wire, ServerAccepts(w)
  PROVE  IInv'
<1>1. /\ told' \in [Message -> Level]
      /\ \A m \in Message : told'[m] >= told[m] /\ told'[m] <= fact[m]
      /\ \A m \in w.content.delivered \cup w.content.displayed : told'[m] > 0
  BY ServerAcceptsFacts
<1>2. /\ fact' = fact /\ dbRequired' = dbRequired /\ required' = required
      /\ imdn' = imdn /\ sent' = sent /\ wire' \subseteq wire
      /\ acked' \subseteq acked \cup {w.content}
  BY DEF ServerAccepts, disk
<1>3. w.content \in Notification BY DEF IInv, Types, Wire
<1>4. Types' BY <1>1, <1>2, <1>3 DEF IInv, Types
<1>5. \A i \in acked' : Known(i)'
  <2> SUFFICES ASSUME NEW i \in acked', NEW m \in i.delivered \cup i.displayed
               PROVE  told'[m] > 0
    BY DEF Known
  <2>1. CASE i = w.content BY <1>1, <2>1
  <2>2. CASE i \in acked
    <3>1. told[m] > 0 BY <2>2 DEF IInv, Known
    <3>2. m \in Message BY <2>2 DEF IInv, Types, Notification
    <3> QED BY <1>1, <3>1, <3>2 DEF IInv, Types, Level
  <2> QED BY <1>2, <2>1, <2>2
<1>6. ReceiptOwed' BY <1>1, <1>2 DEF IInv, Types, ReceiptOwed, Level
<1>7. /\ Truthful(imdn', fact') /\ \A i \in sent' : Truthful(i, fact')
      /\ \A v \in wire' : Truthful(v.content, fact')
  BY <1>2 DEF IInv
<1> QED BY <1>1, <1>2, <1>4, <1>5, <1>6, <1>7 DEF IInv

\* What is said of a message stays true when messages advance from unknown to
\* stored, or from stored to displayed.
LEMMA TruthfulLater ==
  ASSUME NEW n, NEW f \in [Message -> Level], NEW g \in [Message -> Level],
         n.delivered \subseteq Message, n.displayed \subseteq Message,
         \A m \in Message : g[m] >= f[m], Truthful(n, f)
  PROVE  Truthful(n, g)
BY DEF Truthful, Level

\* The lists and notifications stay truthful when messages advance.
LEMMA AllTruthfulLater ==
  ASSUME IInv, fact' \in [Message -> Level], \A m \in Message : fact'[m] >= fact[m]
  PROVE  /\ Truthful(imdn, fact') /\ \A i \in sent : Truthful(i, fact')
         /\ \A w \in wire : Truthful(w.content, fact')
<1>1. fact \in [Message -> Level] /\ imdn \in Lists /\ Truthful(imdn, fact)
  BY DEF IInv, Types
<1>2. Truthful(imdn, fact') BY <1>1, TruthfulLater DEF Lists
<1>3. ASSUME NEW i \in Notification, Truthful(i, fact) PROVE Truthful(i, fact')
  <2>1. i.delivered \subseteq Message /\ i.displayed \subseteq Message BY DEF Notification
  <2> QED BY <1>1, <1>3, <2>1, TruthfulLater
<1>4. \A i \in sent : i \in Notification /\ Truthful(i, fact) BY DEF IInv, Types
<1>5. \A w \in wire : w.content \in Notification /\ Truthful(w.content, fact)
  BY DEF IInv, Types, Wire
<1> QED BY <1>2, <1>3, <1>4, <1>5

\* A stored message is owed a receipt from the start.
LEMMA ReceiveIInv ==
  ASSUME IInv, NEW m \in Message, Receive(m)
  PROVE  IInv'
<1>1. /\ fact[m] = 0 /\ fact' = [fact EXCEPT ![m] = 1]
      /\ dbRequired' = dbRequired \cup {m}
      /\ required' \subseteq required \cup {m}
      /\ imdn' = imdn \/ imdn' = NotifyDelivery(imdn, {m})
      /\ sent' = sent /\ wire' = wire /\ acked' = acked /\ told' = told
  BY DEF Receive, net
<1>2. fact \in [Message -> Level] /\ told \in [Message -> Level] BY DEF IInv, Types
<1>3. /\ fact' \in [Message -> Level] /\ fact'[m] = 1
      /\ \A k \in Message : k # m => fact'[k] = fact[k]
  BY <1>1, <1>2 DEF Level
<1>4. \A k \in Message : fact'[k] >= fact[k] BY <1>1, <1>2, <1>3 DEF Level
<1>5. /\ Truthful(imdn, fact') /\ \A i \in sent : Truthful(i, fact')
      /\ \A w \in wire : Truthful(w.content, fact')
  BY <1>3, <1>4, AllTruthfulLater
<1>6. m \notin imdn.displayed BY <1>1 DEF IInv, Truthful
<1>7. imdn \in Lists BY DEF IInv, Types
<1>8. /\ NotifyDelivery(imdn, {m}) \in Lists /\ Truthful(NotifyDelivery(imdn, {m}), fact')
  BY <1>3, <1>5, <1>6, <1>7, NotifyDeliveryFacts
<1>9. imdn' \in Lists /\ Truthful(imdn', fact') BY <1>1, <1>5, <1>7, <1>8
<1>10. Types' BY <1>1, <1>3, <1>9 DEF IInv, Types
<1>11. \A k \in Message : told'[k] <= fact'[k]
  BY <1>1, <1>2, <1>3, <1>4 DEF IInv, Level
<1>12. \A k \in required' : fact'[k] = 1 BY <1>1, <1>3 DEF IInv, Types
<1>13. \A k \in dbRequired' : fact'[k] >= 1 BY <1>1, <1>3 DEF IInv, Types
<1>14. \A i \in acked' : Known(i)' BY <1>1 DEF IInv, Known
<1>15. ReceiptOwed' BY <1>1, <1>3 DEF IInv, ReceiptOwed
<1> QED
  BY <1>1, <1>5, <1>9, <1>10, <1>11, <1>12, <1>13, <1>14, <1>15 DEF IInv

\* A copy that cannot be decrypted adds to the failures only.
LEMMA ReceiveUndecryptableIInv ==
  ASSUME IInv, NEW m \in Message, ReceiveUndecryptable(m)
  PROVE  IInv'
<1>1. imdn' = NotifyDeliveryError(imdn, {m})
      /\ UNCHANGED <<disk, told, required, sent, wire, acked>>
  BY DEF ReceiveUndecryptable, net
<1>2. imdn \in Lists /\ Truthful(imdn, fact) BY DEF IInv, Types
<1>3. imdn' \in Lists /\ Truthful(imdn', fact)
  BY <1>1, <1>2, NotifyDeliveryErrorFacts
<1>4. /\ sent' \subseteq Notification /\ \A i \in sent' : Truthful(i, fact)
      /\ wire' \subseteq Wire /\ \A w \in wire' : Truthful(w.content, fact)
  BY <1>1 DEF IInv, Types
<1> QED BY <1>1, <1>3, <1>4, ListsStep

\* Deliveries that are still to be notified are of messages not displayed yet.
LEMMA DeliveriesNotifiedFacts ==
  ASSUME IInv, NEW ms
  PROVE  DeliveriesNotified(ms) \in Lists /\ Truthful(DeliveriesNotified(ms), fact)
<1>1. imdn \in Lists /\ Truthful(imdn, fact) BY DEF IInv, Types
<1>2. ms \cap required \in SUBSET Message BY DEF IInv, Types
<1>3. \A m \in ms \cap required : fact[m] >= 1 /\ m \notin imdn.displayed
  BY <1>1 DEF IInv, Truthful
<1> QED BY <1>1, <1>2, <1>3, NotifyDeliveryFacts DEF DeliveriesNotified

\* The application is told of the aggregated messages.
LEMMA NotifyAggregatedIInv == IInv /\ NotifyAggregatedChatMessages => IInv'
<1> SUFFICES ASSUME IInv, NotifyAggregatedChatMessages PROVE IInv' OBVIOUS
<1>1. imdn' = DeliveriesNotified(aggregated) /\ required' \subseteq required
      /\ UNCHANGED <<disk, told, sent, wire, acked>>
  BY DEF NotifyAggregatedChatMessages, net
<1>2. imdn' \in Lists /\ Truthful(imdn', fact) BY <1>1, DeliveriesNotifiedFacts
<1>3. /\ sent' \subseteq Notification /\ \A i \in sent' : Truthful(i, fact)
      /\ wire' \subseteq Wire /\ \A w \in wire' : Truthful(w.content, fact)
  BY <1>1 DEF IInv, Types
<1> QED BY <1>1, <1>2, <1>3, ListsStep

\* The user reads the room.
LEMMA MarkAsReadIInv == IInv /\ MarkAsRead => IInv'
<1> SUFFICES ASSUME IInv, MarkAsRead PROVE IInv' OBVIOUS
<1> DEFINE unread == {m \in Message : fact[m] = 1}
<1>1. /\ fact' = [m \in Message |-> IF m \in unread THEN 2 ELSE fact[m]]
      /\ required' = required \ unread /\ imdn' = NotifyDisplay(imdn, unread)
      /\ dbRequired' = dbRequired /\ sent' = sent /\ wire' = wire /\ acked' = acked
      /\ told' = told
  BY DEF MarkAsRead, net
<1>2. fact \in [Message -> Level] /\ told \in [Message -> Level] /\ imdn \in Lists
      /\ required \subseteq Message
  BY DEF IInv, Types
<1>3. /\ fact' \in [Message -> Level]
      /\ \A m \in Message : fact'[m] >= fact[m]
      /\ \A m \in unread : fact'[m] = 2
  BY <1>1, <1>2 DEF Level
<1>4. required' = {} BY <1>1, <1>2 DEF IInv
<1>5. /\ Truthful(imdn, fact') /\ \A i \in sent : Truthful(i, fact')
      /\ \A w \in wire : Truthful(w.content, fact')
  BY <1>3, AllTruthfulLater
<1>6. unread \in SUBSET Message OBVIOUS
<1>7. imdn' \in Lists /\ Truthful(imdn', fact')
  BY <1>1, <1>2, <1>3, <1>5, <1>6, NotifyDisplayFacts
<1>8. Types' BY <1>1, <1>3, <1>4, <1>7 DEF IInv, Types
<1>9. \A m \in Message : told'[m] <= fact'[m] BY <1>1, <1>2, <1>3 DEF IInv, Level
<1>10. \A m \in dbRequired' : fact'[m] >= 1
  BY <1>1, <1>2, <1>3 DEF IInv, Types, Level
<1>11. \A i \in acked' : Known(i)' BY <1>1 DEF IInv, Known
<1>12. \A m \in Message : fact'[m] > 0 => fact[m] > 0 BY <1>1, <1>2 DEF Level
<1>13. ReceiptOwed' BY <1>1, <1>12 DEF IInv, ReceiptOwed
<1> QED
  BY <1>1, <1>4, <1>5, <1>7, <1>8, <1>9, <1>10, <1>11, <1>13 DEF IInv

\* The stop of the core sends what is pending.
LEMMA ShutdownIInv == IInv /\ Shutdown => IInv'
<1> SUFFICES ASSUME IInv, Shutdown PROVE IInv' OBVIOUS
<1> DEFINE d == DeliveriesNotified(aggregated)
           h == [d EXCEPT !.timer = FALSE]
<1>1. d \in Lists /\ Truthful(d, fact) BY DeliveriesNotifiedFacts
<1>2. SendImdn(h, registered', sent, wire) BY DEF Shutdown
<1> HIDE DEF d
<1>3. h \in Lists /\ Truthful(h, fact) BY <1>1, StopTimerFacts
<1> HIDE DEF h
<1>4. sent \in SUBSET Notification /\ wire \in SUBSET Wire
      /\ (\A i \in sent : Truthful(i, fact)) /\ \A w \in wire : Truthful(w.content, fact)
  BY DEF IInv, Types
<1>5. /\ imdn' \in Lists /\ Truthful(imdn', fact)
      /\ sent' \subseteq Notification /\ \A i \in sent' : Truthful(i, fact)
      /\ wire' \subseteq Wire /\ \A w \in wire' : Truthful(w.content, fact)
  BY <1>2, <1>3, <1>4, SendImdnFacts
<1>6. UNCHANGED <<disk, told>> /\ required' \subseteq required /\ acked' = acked
  BY DEF Shutdown
<1> QED BY <1>5, <1>6, ListsStep

\* Memory is lost, the database is not.
LEMMA OffIInv == IInv /\ Off => IInv'
<1> SUFFICES ASSUME IInv, Off PROVE IInv' OBVIOUS
<1>1. /\ UNCHANGED <<disk, told>> /\ required' = {} /\ imdn' = NoImdn /\ sent' = {}
      /\ acked' = {} /\ wire' = Untracked
  BY DEF Off
<1>2. imdn' \in Lists /\ Truthful(imdn', fact) BY <1>1, NoImdnFacts
<1>3. wire' \subseteq Wire /\ \A w \in wire' : Truthful(w.content, fact)
  BY <1>1, UntrackedFacts
<1> QED BY <1>1, <1>2, <1>3, ListsStep

\* The start notifies again what is owed.
LEMMA StartIInv == IInv /\ Start => IInv'
<1> SUFFICES ASSUME IInv, Start PROVE IInv' OBVIOUS
<1>1. /\ UNCHANGED <<disk, told, required, sent, wire, acked>>
      /\ imdn' = NotifyDelivery(NoImdn, dbRequired)
  BY DEF Start, net
<1>2. NoImdn \in Lists /\ Truthful(NoImdn, fact) /\ NoImdn.displayed = {} BY NoImdnFacts
<1>3. dbRequired \in SUBSET Message /\ \A m \in dbRequired : fact[m] >= 1
  BY DEF IInv, Types
<1>4. imdn' \in Lists /\ Truthful(imdn', fact)
  BY <1>1, <1>2, <1>3, NotifyDeliveryFacts
<1>5. /\ sent' \subseteq Notification /\ \A i \in sent' : Truthful(i, fact)
      /\ wire' \subseteq Wire /\ \A w \in wire' : Truthful(w.content, fact)
  BY <1>1 DEF IInv, Types
<1> QED BY <1>1, <1>4, <1>5, ListsStep

\* Every step keeps the invariant.
LEMMA NextIInv == IInv /\ [Next]_vars => IInv'
<1> SUFFICES ASSUME IInv, [Next]_vars PROVE IInv' OBVIOUS
<1>1. CASE TimerExpired BY <1>1, TimerExpiredIInv
<1>2. CASE OnRegistrationOk BY <1>2, OnRegistrationOkIInv
<1>3. CASE NotifyAggregatedChatMessages BY <1>3, NotifyAggregatedIInv
<1>4. CASE MarkAsRead BY <1>4, MarkAsReadIInv
<1>5. CASE Shutdown BY <1>5, ShutdownIInv
<1>6. CASE Off BY <1>6, OffIInv
<1>7. CASE Start BY <1>7, StartIInv
<1>8. CASE \E m \in Message : Receive(m) BY <1>8, ReceiveIInv
<1>9. CASE \E m \in Message : ReceiveUndecryptable(m) BY <1>9, ReceiveUndecryptableIInv
<1>10. CASE \E i \in acked : OnImdnMessageDelivered(i) BY <1>10, OnImdnMessageDeliveredIInv
<1>11. CASE \E w \in wire : ServerAccepts(w) BY <1>11, ServerAcceptsIInv
<1>12. CASE \/ OnRegistrationLost
            \/ \E i \in acked : OnImdnMessageNotDelivered(i)
            \/ \E w \in wire : ServerRefuses(w) \/ IoError(w)
            \/ UNCHANGED vars
  BY <1>12, LossIInv
<1> QED
  BY <1>1, <1>2, <1>3, <1>4, <1>5, <1>6, <1>7, <1>8, <1>9, <1>10, <1>11, <1>12 DEF Next

\* The inductive invariant holds in every reachable state.
LEMMA IInvHolds == Spec => []IInv
BY InitIInv, NextIInv, PTL DEF Spec
-----------------------------------------------------------------------------
(* The theorems. *)

\* No crash, lost answer, refused notification or stop makes the device forget
\* that it owes a receipt: a stored message the server was not told about is
\* still marked in the database.
THEOREM ReceiptsAreOwed == Spec => []ReceiptOwed
<1>1. IInv => ReceiptOwed BY DEF IInv
<1> QED BY <1>1, IInvHolds, PTL

\* No notification reports a message both delivered and displayed.
THEOREM StatusIsUnique == Spec => []OneStatusPerMessage
<1>1. IInv => OneStatusPerMessage
  <2> SUFFICES ASSUME IInv, NEW i \in sent \cup {w.content : w \in wire}
               PROVE  i.delivered \cap i.displayed = {}
    BY DEF OneStatusPerMessage
  <2>1. Truthful(i, fact) BY DEF IInv
  <2> QED BY <2>1 DEF Truthful
<1> QED BY <1>1, IInvHolds, PTL

\* A step of the device is a step of the abstract report or changes nothing of it.
LEMMA StepRefines ==
  ASSUME IInv, [Next]_vars
  PROVE  [Reports!Next]_<<fact, told>>
<1>1. fact \in [Message -> Level] /\ told \in [Message -> Level]
      /\ \A m \in Message : told[m] <= fact[m]
  BY DEF IInv, Types
<1>2. CASE \E m \in Message : Receive(m)
  <2>1. PICK m \in Message : Receive(m) BY <1>2
  <2>2. fact[m] = 0 /\ fact' = [fact EXCEPT ![m] = 1] /\ told' = told
    BY <2>1 DEF Receive, net
  <2>3. fact' \in [Message -> 0 .. 2] /\ \A k \in Message : fact'[k] >= fact[k]
    BY <1>1, <2>2 DEF Level
  <2> QED BY <2>2, <2>3
      DEF Reports!Next, Reports!Happens, Reports!Level, Reports!Unknown, Reports!Displayed
<1>3. CASE MarkAsRead
  <2>1. /\ fact' = [m \in Message |-> IF m \in {k \in Message : fact[k] = 1} THEN 2
                                      ELSE fact[m]]
        /\ told' = told
    BY <1>3 DEF MarkAsRead, net
  <2>2. fact' \in [Message -> 0 .. 2] /\ \A k \in Message : fact'[k] >= fact[k]
    BY <1>1, <2>1 DEF Level
  <2> QED BY <2>1, <2>2
      DEF Reports!Next, Reports!Happens, Reports!Level, Reports!Unknown, Reports!Displayed
<1>4. CASE \E w \in wire : ServerAccepts(w)
  <2>1. PICK w \in wire : ServerAccepts(w) BY <1>4
  <2>2. /\ told' \in [Message -> Level]
        /\ \A m \in Message : told'[m] >= told[m] /\ told'[m] <= fact[m]
    BY <2>1, ServerAcceptsFacts
  <2>3. fact' = fact BY <2>1 DEF ServerAccepts, disk
  <2> QED BY <2>2, <2>3
      DEF Level, Reports!Next, Reports!Report, Reports!Level, Reports!Unknown, Reports!Displayed
<1>5. CASE ~(\E m \in Message : Receive(m)) /\ ~MarkAsRead
           /\ ~(\E w \in wire : ServerAccepts(w))
  <2>1. UNCHANGED <<fact, told>>
    BY <1>5 DEF Next, vars, disk, net, TimerExpired, OnRegistrationOk, OnRegistrationLost,
       NotifyAggregatedChatMessages, Shutdown, Off, Start, ReceiveUndecryptable,
       OnImdnMessageDelivered, OnImdnMessageNotDelivered, ServerRefuses, IoError
  <2> QED BY <2>1
<1> QED BY <1>2, <1>3, <1>4, <1>5

\* What the server is told about the messages implements DeliveryReport: it never
\* runs ahead of what happened and is never taken back.
THEOREM ImdnRefinesReports == Spec => ImplementsReports
<1>1. Init => Reports!Init BY DEF Init, Reports!Init, Reports!Unknown
<1>2. IInv /\ [Next]_vars => [Reports!Next]_<<fact, told>> BY StepRefines
<1> QED BY <1>1, <1>2, IInvHolds, PTL DEF Spec, ImplementsReports, Reports!Spec
-----------------------------------------------------------------------------
(* A receipt is reported once. *)

(* What OnceInv says of the lists n, the messages req still to be notified, the    *)
(* notifications out that were sent, transit on their way and the answers ack.     *)
Once(n, req, out, transit, ack) ==
  /\ Disjoint(n, out)
  /\ req \cap n.delivered = {}
  /\ \A i \in out : Receipt(i) => req \cap i.delivered = {}
  /\ \A w \in transit : w.tracked /\ Receipt(w.content) =>
       w.content \in out /\ w.content \notin ack
  /\ \A i \in ack : Receipt(i) => i \in out

\* The notifications made of the lists are new (send()).
LEMMA SendImdnOnce ==
  ASSUME NEW h \in Lists, NEW req, NEW reg, NEW ack,
         NEW out \in SUBSET Notification, NEW transit \in SUBSET Wire,
         Once(h, req, out, transit, ack), SendImdn(h, reg, out, transit)
  PROVE  Once(imdn', req, sent', wire', ack)
<1>1. CASE ~reg
  BY <1>1 DEF SendImdn
<1>2. CASE reg
  <2> DEFINE r == [delivered |-> h.delivered, displayed |-> h.displayed, failed |-> {}]
             e == [delivered |-> {}, displayed |-> {}, failed |-> h.failed]
  <2>1. /\ imdn'.delivered = {} /\ imdn'.displayed = {}
        /\ sent' = out \cup ImdnMessages(h)
        /\ wire' = transit \cup {[content |-> i, tracked |-> TRUE] : i \in ImdnMessages(h)}
    BY <1>2 DEF SendImdn, NoImdn
  <2>2. ImdnMessages(h) = CASE h.failed # {} -> {e}
                            [] h.delivered \cup h.displayed # {} /\ h.failed = {} -> {r}
                            [] OTHER -> {}
    BY DEF ImdnMessages
  <2>3. ASSUME NEW i \in ImdnMessages(h), Receipt(i)
        PROVE  i = r /\ h.delivered \cup h.displayed # {}
    <3>1. ~Receipt(e) \/ h.failed = {} BY DEF Receipt
    <3> HIDE DEF r, e
    <3> QED BY <2>2, <2>3, <3>1
  <2>4. r.delivered = h.delivered /\ r.displayed = h.displayed OBVIOUS
  <2> HIDE DEF r, e
  <2>5. ASSUME NEW i \in ImdnMessages(h), Receipt(i) PROVE i \notin out
    BY <2>3, <2>4, <2>5 DEF Once, Disjoint
  <2>6. \A i \in sent' : Receipt(i) => req \cap i.delivered = {}
    BY <2>1, <2>3, <2>4 DEF Once
  <2>7. ASSUME NEW w \in wire', w.tracked, Receipt(w.content)
        PROVE  w.content \in sent' /\ w.content \notin ack
    <3>1. CASE w \in transit BY <2>1, <2>7, <3>1 DEF Once
    <3>2. CASE w \in {[content |-> i, tracked |-> TRUE] : i \in ImdnMessages(h)}
      <4>1. PICK i \in ImdnMessages(h) : w = [content |-> i, tracked |-> TRUE] BY <3>2
      <4>2. w.content = i BY <4>1
      <4> QED BY <2>1, <2>5, <2>7, <4>2 DEF Once
    <3> QED BY <2>1, <3>1, <3>2
  <2>8. Disjoint(imdn', sent') BY <2>1 DEF Disjoint
  <2> QED BY <2>1, <2>6, <2>7, <2>8 DEF Once
<1> QED BY <1>1, <1>2

\* OnceInv in terms of Once.
LEMMA OnceForms ==
  OnceInv <=>
    /\ aggregated \subseteq Message /\ core \in {"On", "Shutdown", "Off"}
    /\ registered \in BOOLEAN /\ failures \in 0 .. MaxUndecryptable
    /\ Once(imdn, required, sent, wire, acked)
    /\ core = "Off" => sent = {} /\ required = {} /\ ~imdn.timer
BY DEF OnceInv, Once

\* Less to be notified, sent, on its way or answered.
LEMMA OnceLess ==
  ASSUME NEW n, NEW m, NEW req, NEW q, NEW out, NEW transit, NEW t, NEW ack, NEW a,
         Once(n, req, out, transit, ack),
         m.delivered \subseteq n.delivered, m.displayed \subseteq n.displayed,
         q \subseteq req, t \subseteq transit, a \subseteq ack
  PROVE  Once(m, q, out, t, a)
BY DEF Once, Disjoint

\* Notifications that are no longer tracked expect no answer.
LEMMA UntrackedOnce ==
  ASSUME IInv, NEW n, NEW req, req \cap n.delivered = {}
  PROVE  Once(n, req, {}, Untracked, {})
<1>1. ASSUME NEW w \in Untracked PROVE ~w.tracked
  <2>1. PICK v \in wire : w = [v EXCEPT !.tracked = FALSE] BY DEF Untracked
  <2>2. v \in Wire BY DEF IInv, Types
  <2> QED BY <2>1, <2>2 DEF Wire
<1> QED BY <1>1 DEF Once, Disjoint

\* Messages still to be notified move to the list of the delivered ones.
LEMMA DeliveriesNotifiedOnce ==
  ASSUME IInv, NEW ms, Once(imdn, required, sent, wire, acked)
  PROVE  Once(DeliveriesNotified(ms), required \ ms, sent, wire, acked)
<1>1. /\ DeliveriesNotified(ms).delivered = imdn.delivered \cup (ms \cap required)
      /\ DeliveriesNotified(ms).displayed = imdn.displayed
  BY DEF DeliveriesNotified, NotifyDelivery, IInv, Types, Lists
<1>2. Disjoint(DeliveriesNotified(ms), sent) BY <1>1 DEF Once, Disjoint
<1> QED BY <1>1, <1>2 DEF Once

\* The handler sends what is pending.
LEMMA SendOnce ==
  ASSUME IInv, OnceInv, TimerExpired \/ OnRegistrationOk \/ Shutdown
  PROVE  OnceInv'
<1>1. imdn \in Lists /\ sent \in SUBSET Notification /\ wire \in SUBSET Wire
  BY DEF IInv, Types
<1>2. Once(imdn, required, sent, wire, acked) BY OnceForms
<1>3. CASE TimerExpired
  <2> DEFINE h == [imdn EXCEPT !.timer = FALSE]
  <2>1. h \in Lists /\ h.delivered = imdn.delivered /\ h.displayed = imdn.displayed
    BY <1>1 DEF Lists
  <2>2. SendImdn(h, registered, sent, wire) /\ core # "Off"
        /\ UNCHANGED <<required, aggregated, acked, core, registered, failures>>
    BY <1>3 DEF TimerExpired, OnceInv
  <2> HIDE DEF h
  <2>3. Once(h, required, sent, wire, acked) BY <1>2, <2>1, OnceLess
  <2>4. Once(imdn', required, sent', wire', acked) BY <1>1, <2>1, <2>2, <2>3, SendImdnOnce
  <2> QED BY <2>2, <2>4 DEF OnceInv, Once
<1>4. CASE OnRegistrationOk
  <2>1. Untracked \in SUBSET Wire BY UntrackedFacts
  <2>2. Once(imdn, required, {}, Untracked, {}) BY <1>2, UntrackedOnce DEF Once
  <2>3. SendImdn(imdn, TRUE, {}, Untracked) /\ acked' = {} /\ core = "On" /\ registered' = TRUE
        /\ UNCHANGED <<required, aggregated, core, failures>>
    BY <1>4 DEF OnRegistrationOk
  <2>4. Once(imdn', required, sent', wire', {}) BY <1>1, <2>1, <2>2, <2>3, SendImdnOnce
  <2> QED BY <2>3, <2>4 DEF OnceInv, Once
<1>5. CASE Shutdown
  <2> DEFINE d == DeliveriesNotified(aggregated)
             h == [d EXCEPT !.timer = FALSE]
  <2>1. d \in Lists /\ Once(d, required \ aggregated, sent, wire, acked)
    BY <1>2, DeliveriesNotifiedFacts, DeliveriesNotifiedOnce
  <2>2. /\ SendImdn(h, registered', sent, wire) /\ core' = "Shutdown" /\ aggregated' = {}
        /\ required' = required \ aggregated /\ registered' \in {registered, FALSE}
        /\ acked' = acked /\ failures' = failures
    BY <1>5 DEF Shutdown
  <2> HIDE DEF d
  <2>3. h \in Lists /\ h.delivered = d.delivered /\ h.displayed = d.displayed
    BY <2>1 DEF Lists
  <2> HIDE DEF h
  <2>4. Once(h, required \ aggregated, sent, wire, acked) BY <2>1, <2>3, OnceLess
  <2>5. Once(imdn', required \ aggregated, sent', wire', acked)
    BY <1>1, <2>2, <2>3, <2>4, SendImdnOnce
  <2> QED BY <2>2, <2>5 DEF OnceInv, Once
<1> QED BY <1>3, <1>4, <1>5

\* A receipt is accepted, refused, lost or answered.
LEMMA NetworkOnce ==
  ASSUME IInv, OnceInv,
         \/ \E i \in acked : OnImdnMessageDelivered(i) \/ OnImdnMessageNotDelivered(i)
         \/ \E w \in wire : ServerAccepts(w) \/ ServerRefuses(w) \/ IoError(w)
  PROVE  OnceInv'
<1>1. ASSUME NEW i \in acked, OnImdnMessageDelivered(i) \/ OnImdnMessageNotDelivered(i)
      PROVE  OnceInv'
  <2>1. /\ acked' = acked \ {i} /\ sent' = sent \ {i} /\ wire' = wire
        /\ UNCHANGED <<required, aggregated, core, registered, failures>>
    BY <1>1 DEF OnImdnMessageDelivered, OnImdnMessageNotDelivered
  <2>2. /\ imdn'.delivered \subseteq imdn.delivered /\ imdn'.displayed \subseteq imdn.displayed
        /\ imdn'.timer = imdn.timer
    BY <1>1 DEF OnImdnMessageDelivered, OnImdnMessageNotDelivered, IInv, Types, Lists
  <2>3. Disjoint(imdn', sent') BY <2>1, <2>2 DEF OnceInv, Disjoint
  <2> QED BY <2>1, <2>2, <2>3 DEF OnceInv
<1>2. ASSUME NEW w \in wire, ServerAccepts(w) \/ ServerRefuses(w) \/ IoError(w)
      PROVE  OnceInv'
  <2>1. /\ wire' = wire \ {w}
        /\ UNCHANGED <<required, aggregated, imdn, core, registered, failures>>
        /\ \/ sent' = sent /\ acked' = acked
           \/ w.tracked /\ sent' = sent /\ acked' = acked \cup {w.content}
           \/ w.tracked /\ sent' = sent \ {w.content} /\ acked' = acked
    BY <1>2 DEF ServerAccepts, ServerRefuses, IoError
  <2>2. \A v \in wire' : v.tracked /\ w.tracked => v.content # w.content
    <3> SUFFICES ASSUME NEW v \in wire', v.tracked, w.tracked, v.content = w.content PROVE FALSE
      OBVIOUS
    <3>1. v \in Wire /\ w \in Wire /\ v # w BY <2>1 DEF IInv, Types
    <3>2. v.tracked = w.tracked BY <3>1 DEF Wire
    <3>3. v = [content |-> v.content, tracked |-> v.tracked]
          /\ w = [content |-> w.content, tracked |-> w.tracked]
      BY <3>1 DEF Wire
    <3> QED BY <3>1, <3>2, <3>3
  <2>3. Disjoint(imdn', sent') BY <2>1 DEF OnceInv, Disjoint
  <2>4. ASSUME NEW v \in wire', v.tracked, Receipt(v.content)
        PROVE  v.content \in sent' /\ v.content \notin acked'
    BY <2>1, <2>2, <2>4 DEF OnceInv
  <2>5. \A i \in acked' : Receipt(i) => i \in sent'
    BY <2>1 DEF OnceInv
  <2> QED BY <2>1, <2>3, <2>4, <2>5 DEF OnceInv
<1> QED BY <1>1, <1>2

\* Messages arrive and are read; the program starts, stops and crashes.
LEMMA DeviceOnce ==
  ASSUME IInv, OnceInv,
         \/ OnRegistrationLost \/ NotifyAggregatedChatMessages \/ MarkAsRead \/ Off \/ Start
         \/ \E m \in Message : Receive(m) \/ ReceiveUndecryptable(m)
         \/ UNCHANGED vars
  PROVE  OnceInv'
<1>1. Once(imdn, required, sent, wire, acked) /\ imdn \in Lists BY OnceForms DEF IInv, Types
<1>2. CASE OnRegistrationLost \/ UNCHANGED vars
  <2>1. /\ UNCHANGED <<required, aggregated, imdn, sent, wire, acked, core, failures>>
        /\ registered' \in {registered, FALSE}
    BY <1>2 DEF OnRegistrationLost, vars, net
  <2> QED BY <2>1 DEF OnceInv, Disjoint
<1>3. CASE NotifyAggregatedChatMessages
  <2>1. /\ core = "On" /\ aggregated' = {} /\ required' = required \ aggregated
        /\ imdn' = DeliveriesNotified(aggregated)
        /\ UNCHANGED <<sent, wire, acked, core, registered, failures>>
    BY <1>3 DEF NotifyAggregatedChatMessages, net
  <2>2. Once(imdn', required', sent', wire', acked') BY <1>1, <2>1, DeliveriesNotifiedOnce
  <2> QED BY <2>1, <2>2 DEF OnceInv, Once
<1>4. CASE MarkAsRead
  <2> DEFINE unread == {m \in Message : fact[m] = 1}
  <2>1. /\ core = "On" /\ required' = required \ unread /\ imdn' = NotifyDisplay(imdn, unread)
        /\ UNCHANGED <<aggregated, sent, wire, acked, core, registered, failures>>
    BY <1>4 DEF MarkAsRead, net
  <2>2. /\ imdn'.delivered \subseteq imdn.delivered
        /\ imdn'.displayed = imdn.displayed \cup unread
    BY <1>1, <2>1 DEF NotifyDisplay, Lists
  <2>3. \A i \in sent : unread \cap i.displayed = {} BY DEF IInv, Truthful
  <2> HIDE DEF unread
  <2>4. Disjoint(imdn', sent') BY <2>1, <2>2, <2>3 DEF OnceInv, Disjoint
  <2> QED BY <2>1, <2>2, <2>4 DEF OnceInv
<1>5. CASE Off
  <2>1. /\ required' = {} /\ aggregated' = {} /\ imdn' = NoImdn /\ sent' = {} /\ acked' = {}
        /\ wire' = Untracked /\ core' = "Off" /\ registered' = FALSE /\ failures' = failures
    BY <1>5 DEF Off
  <2>2. NoImdn.delivered = {} /\ NoImdn.timer = FALSE BY DEF NoImdn
  <2>3. Once(imdn', required', sent', wire', acked') BY <2>1, <2>2, UntrackedOnce
  <2> QED BY <2>1, <2>2, <2>3 DEF OnceInv, Once
<1>6. CASE Start
  <2>1. /\ core = "Off" /\ core' = "On"
        /\ UNCHANGED <<required, aggregated, sent, wire, acked, registered, failures>>
    BY <1>6 DEF Start, net
  <2>2. sent = {} /\ required = {} BY <2>1 DEF OnceInv
  <2> QED BY <2>1, <2>2 DEF OnceInv, Disjoint
<1>7. ASSUME NEW m \in Message, Receive(m) PROVE OnceInv'
  <2>1. /\ core = "On" /\ fact[m] = 0
        /\ \/ /\ aggregated' = aggregated \cup {m} /\ required' = required \cup {m}
              /\ imdn' = imdn
           \/ /\ imdn' = NotifyDelivery(imdn, {m}) /\ aggregated' = aggregated
              /\ required' = required
        /\ UNCHANGED <<sent, wire, acked, core, registered, failures>>
    BY <1>7 DEF Receive, net
  <2>2. /\ m \notin required /\ m \notin imdn.delivered
        /\ \A i \in sent : m \notin i.delivered
    BY <2>1 DEF IInv, Truthful
  <2>3. /\ NotifyDelivery(imdn, {m}).delivered = imdn.delivered \cup {m}
        /\ NotifyDelivery(imdn, {m}).displayed = imdn.displayed
    BY <1>1 DEF NotifyDelivery, Lists
  <2>4. Disjoint(imdn', sent') BY <2>1, <2>2, <2>3 DEF OnceInv, Disjoint
  <2> QED BY <2>1, <2>2, <2>3, <2>4 DEF OnceInv
<1>8. ASSUME NEW m \in Message, ReceiveUndecryptable(m) PROVE OnceInv'
  <2>1. /\ core = "On" /\ failures < MaxUndecryptable /\ failures' = failures + 1
        /\ imdn' = NotifyDeliveryError(imdn, {m})
        /\ UNCHANGED <<required, aggregated, sent, wire, acked, core, registered>>
    BY <1>8 DEF ReceiveUndecryptable, net
  <2>2. imdn'.delivered = imdn.delivered /\ imdn'.displayed = imdn.displayed
    BY <1>1, <2>1 DEF NotifyDeliveryError, Lists
  <2>3. Disjoint(imdn', sent') BY <2>1, <2>2 DEF OnceInv, Disjoint
  <2>4. failures' \in 0 .. MaxUndecryptable
    BY <2>1, MaxUndecryptableAssumption DEF OnceInv
  <2> QED BY <2>1, <2>2, <2>3, <2>4 DEF OnceInv
<1> QED BY <1>2, <1>3, <1>4, <1>5, <1>6, <1>7, <1>8

\* Each receipt is reported once, in every reachable state.
LEMMA OnceHolds == Spec => []OnceInv
<1>1. Init => OnceInv
  BY MaxUndecryptableAssumption DEF Init, NoImdn, OnceInv, Disjoint
<1>2. IInv /\ OnceInv /\ [Next]_vars => OnceInv'
  BY SendOnce, NetworkOnce, DeviceOnce DEF Next
<1> QED BY <1>1, <1>2, IInvHolds, PTL DEF Spec

\* The lists, notifications and answers keep their types, and an answer about a
\* receipt finds the notification it belongs to among those sent.
THEOREM ImdnTypeCorrect == Spec => []TypeOK
<1>1. IInv /\ OnceInv => TypeOK
  BY DEF IInv, Types, Level, Lists, Wire, OnceInv, TypeOK
<1> QED BY <1>1, IInvHolds, OnceHolds, PTL
=============================================================================
