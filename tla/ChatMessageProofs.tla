-------------------------- MODULE ChatMessageProofs --------------------------
(***************************************************************************)
(* Proofs about module ChatMessage, for any recipients and any number of   *)
(* attempts: its types, that the state shown and the state stored claim    *)
(* nothing that has not happened, that no failure of a recipient is        *)
(* hidden, and that the rows of the recipients implement DeliveryReport.   *)
(*                                                                         *)
(* They rest on one invariant of the message, Good: its rows are true, its *)
(* states are backed by the rows, and memory and database agree.           *)
(***************************************************************************)
EXTENDS ChatMessage, TLAPS

Accepted == \E a \in Attempt : att[a] = "accepted"

(* A row s says no more than the level f of its recipient, and ok, that the *)
(* server has accepted the message.                                         *)
RowHolds(s, f, ok) ==
  /\ s = "Displayed" => f = 2
  /\ s = "DeliveredToUser" => f >= 1
  /\ s = "Delivered" => ok

(* A state s of the message that the rows back. *)
Backed(s, rows) ==
  /\ s = "Displayed" => \A p \in Recipient : rows[p] = "Displayed"
  /\ s = "DeliveredToUser" => \A p \in Recipient : rows[p] \in {"Displayed", "DeliveredToUser"}
  /\ s = "Delivered" => \A p \in Recipient : rows[p] # "NotDelivered"

(* The database has the state of the message, unless it is InProgress, which *)
(* is not stored, or was loaded before anything was.                         *)
Synced(m) ==
  \/ m.st = m.dbst
  \/ m.st = "InProgress"
  \/ m.st = "NotDelivered" /\ m.dbst = "Idle"

(* The rows of m are true for the levels f of the recipients and ok. *)
RowsTrue(m, f, ok) == \A p \in Recipient : RowHolds(m.rcp[p], f[p], ok)

Good(m, f, ok) ==
  /\ m \in Msg
  /\ Synced(m)
  /\ RowsTrue(m, f, ok)
  /\ Backed(m.st, m.rcp) /\ Backed(m.dbst, m.rcp)
  /\ m.st = "Delivered" \/ m.dbst = "Delivered" => ok

(* The recipients: what they have was accepted by the server, and their      *)
(* receipts are true.                                                        *)
World(f, ok) ==
  /\ f \in [Recipient -> 0 .. 2]
  /\ \A p \in Recipient : f[p] > 0 => ok

ImdnTrue(p) ==
  /\ "delivered" \in imdn[p] => fact[p] >= 1
  /\ "displayed" \in imdn[p] => fact[p] = 2

(* The inductive invariant. *)
IInv ==
  /\ Good(msg, fact, Accepted)
  /\ World(fact, Accepted)
  /\ underway \in BOOLEAN
  /\ att \in [Attempt -> {"unused", "wire", "accepted", "refused"}]
  /\ inbox \in [Recipient -> SUBSET Attempt]
  /\ imdn \in [Recipient -> SUBSET ImdnKind]
  /\ \A p \in Recipient : \A a \in inbox[p] : att[a] = "accepted"
  /\ \A p \in Recipient : ImdnTrue(p)

(* No recipient is known to be less far in the rows q than in r. *)
Up(r, q) == \A p \in Recipient : Told(q[p]) >= Told(r[p])
-----------------------------------------------------------------------------
(* The rows. *)

\* What setChatMessageParticipantState() and setParticipantState() make of a row:
\* the old value or the new one, and never less than was known.
LEMMA RowFacts ==
  ASSUME NEW old \in RowState, NEW new \in RowState
  PROVE  /\ SetRow(old, new) \in {old, new} /\ Row(old, new) \in {old, new}
         /\ Told(SetRow(old, new)) >= Told(old) /\ Told(Row(old, new)) >= Told(old)
<1>1. SetRow(old, new) \in {old, new} /\ Row(old, new) \in {old, new}
  BY DEF SetRow, Row
<1>2. Told(SetRow(old, new)) >= Told(old)
  BY DEF SetRow, Told, RowState, Number
<1>3. Told(Row(old, new)) >= Told(old)
  BY <1>2 DEF Row, Told
<1> QED BY <1>1, <1>2, <1>3

\* The success of the server replaces a failure.
LEMMA DeliveredRow ==
  ASSUME NEW old \in RowState
  PROVE  SetRow(old, "Delivered") # "NotDelivered" /\ Row(old, "Delivered") # "NotDelivered"
BY DEF SetRow, Row, RowState, Number, IsValid, Transitions

\* A state is not handed over to itself.
LEMMA NoSelfTransition ==
  ASSUME NEW s \in State
  PROVE  ~IsValid(s, s)
BY DEF IsValid, Transitions, State
-----------------------------------------------------------------------------
(* The message. *)

\* updateInDb() leaves what is in memory alone, stores the state and hands it down to
\* the rows or not.
LEMMA UpdateInDbFields ==
  ASSUME NEW m \in Msg
  PROVE  /\ UpdateInDb(m) \in Msg
         /\ UpdateInDb(m).st = m.st
         /\ UpdateInDb(m).dbst = IF m.st = "InProgress" THEN m.dbst ELSE m.st
         /\ \/ UpdateInDb(m).rcp = m.rcp
            \/ /\ m.st \in {"Delivered", "NotDelivered"}
               /\ UpdateInDb(m).rcp = [p \in Recipient |-> SetRow(m.rcp[p], m.st)]
         /\ UpdateInDb(m).fired = m.fired /\ UpdateInDb(m).timer = m.timer
         /\ UpdateInDb(m).auto = m.auto
<1> DEFINE handedDown == \/ m.st = "NotDelivered" /\ m.me = "NotDelivered"
                         \/ m.st = "Delivered" /\ ~IsImdnControlledState(m.dbst)
           d == IF m.st = "InProgress" THEN m.dbst ELSE m.st
           e == IF handedDown THEN SetRow(m.me, m.st) ELSE m.me
           r == IF handedDown THEN [p \in Recipient |-> SetRow(m.rcp[p], m.st)] ELSE m.rcp
<1>1. UpdateInDb(m) = [m EXCEPT !.dbst = d, !.me = e, !.rcp = r] BY DEF UpdateInDb
<1>2. d \in State BY DEF Msg
<1>3. e \in State BY DEF Msg, SetRow
<1>4. handedDown => m.st \in {"Delivered", "NotDelivered"} OBVIOUS
<1>5. r \in [Recipient -> RowState]
  <2>1. m.rcp \in [Recipient -> RowState] BY DEF Msg
  <2>2. ASSUME handedDown, NEW p \in Recipient PROVE SetRow(m.rcp[p], m.st) \in RowState
    BY <1>4, <2>1, <2>2, RowFacts DEF RowState
  <2> QED BY <2>1, <2>2
<1>6. r = m.rcp \/ (m.st \in {"Delivered", "NotDelivered"}
                    /\ r = [p \in Recipient |-> SetRow(m.rcp[p], m.st)])
  BY <1>4
<1>7. d = IF m.st = "InProgress" THEN m.dbst ELSE m.st OBVIOUS
<1> HIDE DEF d, e, r
<1>8. UpdateInDb(m) \in Msg BY <1>1, <1>2, <1>3, <1>5 DEF Msg
<1>9. UpdateInDb(m).st = m.st /\ UpdateInDb(m).dbst = d /\ UpdateInDb(m).rcp = r
  BY <1>1 DEF Msg
<1>10. /\ UpdateInDb(m).fired = m.fired /\ UpdateInDb(m).timer = m.timer
       /\ UpdateInDb(m).auto = m.auto
  BY <1>1 DEF Msg
<1> QED BY <1>6, <1>7, <1>8, <1>9, <1>10

\* setState() with a state that does not follow the present one does nothing.
LEMMA SetStateRefused ==
  ASSUME NEW m, NEW s, ~IsValid(m.st, s)
  PROVE  SetState(m, s) = m
BY DEF SetState

\* ... and otherwise enters it, stores it unless it is InProgress, and changes the
\* rows only by a success or a failure of the sender.  The resend timer is armed only
\* for a message that waits for the network and was not resent automatically.
LEMMA SetStateFields ==
  ASSUME NEW m \in Msg, NEW s \in State, IsValid(m.st, s)
  PROVE  /\ SetState(m, s) \in Msg
         /\ SetState(m, s).st = s
         /\ SetState(m, s).dbst = IF s = "InProgress" THEN m.dbst ELSE s
         /\ s \notin {"Delivered", "NotDelivered"} => SetState(m, s).rcp = m.rcp
         /\ \A p \in Recipient :
              /\ SetState(m, s).rcp[p] \in {m.rcp[p], s}
              /\ s = "Delivered" => SetState(m, s).rcp[p] # "NotDelivered"
         /\ Up(m.rcp, SetState(m, s).rcp)
         /\ SetState(m, s).fired = m.fired
         /\ SetState(m, s).timer => m.timer \/ (s = "PendingDelivery" /\ ~m.auto)
         /\ s = "Idle" /\ m.auto => SetState(m, s).auto
<1> DEFINE
      u == m.auto /\ s \notin {"PendingDelivery", "Delivered", "DeliveredToUser", "Displayed"}
      r == IF s = "Delivered" THEN [p \in Recipient |-> Row(m.rcp[p], s)] ELSE m.rcp
      entered == [m EXCEPT !.st = s, !.auto = u, !.rcp = r]
      saved == IF s = "InProgress" THEN entered ELSE UpdateInDb(entered)
      dropped == s \in {"PendingDelivery", "NotDelivered"}
      o == saved.op /\ ~dropped
      l == IF dropped THEN {} ELSE saved.live
      g == saved.listening \/ s = "PendingDelivery"
      t == saved.timer \/ (s = "PendingDelivery" /\ m.op /\ ~m.auto)
<1>1. SetState(m, s) = [saved EXCEPT !.op = o, !.live = l, !.listening = g, !.timer = t]
  BY DEF SetState
<1>2. u \in BOOLEAN /\ dropped \in BOOLEAN /\ o \in BOOLEAN /\ g \in BOOLEAN /\ t \in BOOLEAN
  OBVIOUS
<1>3. m.rcp \in [Recipient -> RowState] /\ (s = "Idle" /\ m.auto => u) BY DEF Msg
<1>4. /\ r \in [Recipient -> RowState]
      /\ s # "Delivered" => r = m.rcp
      /\ \A p \in Recipient : /\ r[p] \in {m.rcp[p], s}
                              /\ s = "Delivered" => r[p] # "NotDelivered"
                              /\ Told(r[p]) >= Told(m.rcp[p])
  <2>1. CASE s = "Delivered"
    <3>1. s \in RowState BY <2>1 DEF RowState
    <3>2. \A p \in Recipient : /\ Row(m.rcp[p], s) \in {m.rcp[p], s}
                               /\ Row(m.rcp[p], s) # "NotDelivered"
                               /\ Told(Row(m.rcp[p], s)) >= Told(m.rcp[p])
      BY <1>3, <2>1, <3>1, RowFacts, DeliveredRow
    <3> QED BY <1>3, <2>1, <3>1, <3>2
  <2>2. CASE s # "Delivered"
    BY <1>3, <2>2 DEF Told
  <2> QED BY <2>1, <2>2
<1> HIDE DEF u, r
<1>5. entered \in Msg BY <1>2, <1>4 DEF Msg
<1>6. /\ entered.st = s /\ entered.rcp = r /\ entered.dbst = m.dbst
      /\ entered.fired = m.fired /\ entered.timer = m.timer /\ entered.auto = u
  BY DEF Msg
<1> HIDE DEF entered
<1>7. /\ saved \in Msg /\ saved.st = s
      /\ saved.dbst = IF s = "InProgress" THEN m.dbst ELSE s
      /\ \/ saved.rcp = r
         \/ /\ s \in {"Delivered", "NotDelivered"}
            /\ saved.rcp = [p \in Recipient |-> SetRow(r[p], s)]
      /\ saved.fired = m.fired /\ saved.timer = m.timer /\ saved.auto = u
  BY <1>5, <1>6, UpdateInDbFields
<1>8. /\ s \notin {"Delivered", "NotDelivered"} => saved.rcp = m.rcp
      /\ \A p \in Recipient :
           /\ saved.rcp[p] \in {m.rcp[p], s}
           /\ s = "Delivered" => saved.rcp[p] # "NotDelivered"
           /\ Told(saved.rcp[p]) >= Told(m.rcp[p])
  <2>1. CASE saved.rcp = r BY <1>4, <2>1
  <2>2. CASE /\ s \in {"Delivered", "NotDelivered"}
             /\ saved.rcp = [p \in Recipient |-> SetRow(r[p], s)]
    <3>1. s \in RowState BY <2>2 DEF RowState
    <3>2. \A p \in Recipient : /\ SetRow(r[p], s) \in {r[p], s}
                               /\ s = "Delivered" => SetRow(r[p], s) # "NotDelivered"
                               /\ Told(SetRow(r[p], s)) >= Told(r[p])
      BY <1>4, <3>1, RowFacts, DeliveredRow
    <3>3. ASSUME NEW p \in Recipient
          PROVE  /\ Told(r[p]) \in Nat /\ Told(m.rcp[p]) \in Nat
                 /\ Told(SetRow(r[p], s)) \in Nat
      BY DEF Told
    <3>4. \A p \in Recipient : Told(SetRow(r[p], s)) >= Told(m.rcp[p])
      BY <1>4, <3>2, <3>3
    <3> QED BY <1>4, <2>2, <3>2, <3>4
  <2> QED BY <1>7, <2>1, <2>2
<1>9. l \in SUBSET Attempt BY <1>7 DEF Msg
<1>10. t => m.timer \/ (s = "PendingDelivery" /\ ~m.auto) BY <1>7, Zenon
<1> HIDE DEF saved, dropped, o, l, g, t
<1>11. SetState(m, s) \in Msg BY <1>1, <1>2, <1>7, <1>9 DEF Msg
<1>12. /\ SetState(m, s).st = saved.st /\ SetState(m, s).dbst = saved.dbst
       /\ SetState(m, s).rcp = saved.rcp
  BY <1>1, <1>7 DEF Msg
<1>13. /\ SetState(m, s).fired = saved.fired /\ SetState(m, s).timer = t
       /\ SetState(m, s).auto = saved.auto
  BY <1>1, <1>7, Zenon DEF Msg
<1>14. /\ SetState(m, s).fired = m.fired
       /\ SetState(m, s).timer => m.timer \/ (s = "PendingDelivery" /\ ~m.auto)
       /\ s = "Idle" /\ m.auto => SetState(m, s).auto
  BY <1>3, <1>7, <1>10, <1>13, Zenon
<1> QED BY <1>7, <1>8, <1>11, <1>12, <1>14 DEF Up

\* Told() orders the rows: transitively,
LEMMA UpTransitive ==
  ASSUME NEW q, NEW r, NEW s, Up(q, r), Up(r, s)
  PROVE  Up(q, s)
<1>1. \A x : Told(x) \in Nat BY DEF Told
<1> QED BY <1>1 DEF Up

\* ... reflexively.
LEMMA UpReflexive ==
  ASSUME NEW r
  PROVE  Up(r, r)
<1>1. \A x : Told(x) \in Nat BY DEF Told
<1> QED BY <1>1 DEF Up

(* What has to be true for a message to enter the state s. *)
Enterable(m, s, ok) ==
  /\ s = "Delivered" => ok
  /\ s \in {"DeliveredToUser", "Displayed"} => Backed(s, m.rcp)

\* A state that may be entered leaves the message good: a success of the server
\* turns the rows that failed, a failure makes the message NotDelivered in memory
\* and in the database.  The rows may be ahead of the old states, as they are when
\* setParticipantState() has just written one.
LEMMA SetStateGood ==
  ASSUME NEW m \in Msg, NEW f, NEW ok, NEW s \in State, IsValid(m.st, s),
         RowsTrue(m, f, ok), Enterable(m, s, ok),
         s = "InProgress" => Good(m, f, ok)
  PROVE  Good(SetState(m, s), f, ok)
<1> DEFINE n == SetState(m, s)
<1>1. /\ n \in Msg /\ n.st = s /\ n.dbst = IF s = "InProgress" THEN m.dbst ELSE s
      /\ s \notin {"Delivered", "NotDelivered"} => n.rcp = m.rcp
      /\ \A p \in Recipient :
           /\ n.rcp[p] \in {m.rcp[p], s}
           /\ s = "Delivered" => n.rcp[p] # "NotDelivered"
  BY SetStateFields
<1> HIDE DEF n
<1>2. RowsTrue(n, f, ok)
  BY <1>1 DEF RowsTrue, RowHolds, Enterable
<1>3. CASE s = "InProgress"
  <2>1. Backed(m.dbst, m.rcp) /\ (m.dbst = "Delivered" => ok) BY <1>3 DEF Good
  <2> QED BY <1>1, <1>2, <1>3, <2>1 DEF Good, Synced, Backed, n
<1>4. CASE s # "InProgress"
  <2>1. n.st = s /\ n.dbst = s BY <1>1, <1>4
  <2>2. Backed(s, n.rcp) BY <1>1 DEF Backed, Enterable
  <2> QED BY <1>1, <1>2, <2>1, <2>2 DEF Good, Synced, Enterable, n
<1> QED BY <1>3, <1>4

\* The state the rows add up to may be entered.
LEMMA AggregatedEnterable ==
  ASSUME NEW m \in Msg, NEW f, NEW ok, World(f, ok), RowsTrue(m, f, ok)
  PROVE  \/ AggregatedState(m) = m.st
         \/ /\ AggregatedState(m) \in State \ {"InProgress"}
            /\ Enterable(m, AggregatedState(m), ok)
<1> DEFINE rows == {m.rcp[p] : p \in Recipient}
<1>1. m.rcp \in [Recipient -> RowState] /\ f \in [Recipient -> 0 .. 2] BY DEF Msg, World
<1>2. \A p \in Recipient : m.rcp[p] \in rows OBVIOUS
<1>3. CASE m.me = "NotDelivered" \/ "NotDelivered" \in rows
  <2>1. AggregatedState(m) = "NotDelivered" BY <1>3 DEF AggregatedState
  <2> QED BY <2>1 DEF State, Enterable
<1>4. CASE ~(m.me = "NotDelivered" \/ "NotDelivered" \in rows) /\ rows = {"Displayed"}
  <2>1. AggregatedState(m) = "Displayed" BY <1>4 DEF AggregatedState
  <2> QED BY <1>2, <1>4, <2>1 DEF State, Enterable, Backed
<1>5. CASE /\ ~(m.me = "NotDelivered" \/ "NotDelivered" \in rows) /\ rows # {"Displayed"}
           /\ rows \subseteq {"Displayed", "DeliveredToUser"}
  <2>1. AggregatedState(m) = "DeliveredToUser" BY <1>5 DEF AggregatedState
  <2> QED BY <1>2, <1>5, <2>1 DEF State, Enterable, Backed
<1>6. CASE /\ ~(m.me = "NotDelivered" \/ "NotDelivered" \in rows)
           /\ ~(rows \subseteq {"Displayed", "DeliveredToUser"})
           /\ rows \subseteq {"Displayed", "DeliveredToUser", "Delivered"}
  <2>1. AggregatedState(m) = "Delivered" BY <1>6 DEF AggregatedState
  <2>2. PICK p \in Recipient : TRUE BY RecipientAssumption
  <2>3. m.rcp[p] \in {"Displayed", "DeliveredToUser", "Delivered"} BY <1>2, <1>6
  <2>4. RowHolds(m.rcp[p], f[p], ok) BY DEF RowsTrue
  <2>5. ok BY <1>1, <2>3, <2>4 DEF World, RowHolds
  <2> QED BY <2>1, <2>5 DEF State, Enterable
<1>7. CASE /\ ~(m.me = "NotDelivered" \/ "NotDelivered" \in rows)
           /\ ~(rows \subseteq {"Displayed", "DeliveredToUser", "Delivered"})
  <2>1. AggregatedState(m) = m.st BY <1>7 DEF AggregatedState
  <2> QED BY <2>1
<1> QED BY <1>3, <1>4, <1>5, <1>6, <1>7

\* Aggregating the rows leaves a good message good.
LEMMA AggregateGood ==
  ASSUME NEW m, NEW f, NEW ok, World(f, ok), Good(m, f, ok)
  PROVE  Good(Aggregate(m), f, ok) /\ Up(m.rcp, Aggregate(m).rcp)
<1> DEFINE s == AggregatedState(m)
<1>1. m \in Msg /\ RowsTrue(m, f, ok) /\ m.st \in State BY DEF Good, Msg
<1>2. s = m.st \/ (s \in State \ {"InProgress"} /\ Enterable(m, s, ok))
  BY <1>1, AggregatedEnterable
<1>3. Aggregate(m) = SetState(m, s) BY DEF Aggregate
<1> HIDE DEF s
<1>4. CASE ~IsValid(m.st, s)
  BY <1>3, <1>4, SetStateRefused, UpReflexive
<1>5. CASE IsValid(m.st, s)
  <2>1. s \in State \ {"InProgress"} /\ Enterable(m, s, ok)
    BY <1>1, <1>2, <1>5, NoSelfTransition
  <2> QED BY <1>1, <1>3, <1>5, <2>1, SetStateGood, SetStateFields
<1> QED BY <1>4, <1>5

\* Entering a state or refusing to leaves a good message good.
LEMMA SetStateStep ==
  ASSUME NEW m, NEW f, NEW ok, NEW s \in State, Good(m, f, ok), Enterable(m, s, ok)
  PROVE  Good(SetState(m, s), f, ok) /\ Up(m.rcp, SetState(m, s).rcp)
<1>1. m \in Msg /\ RowsTrue(m, f, ok) BY DEF Good
<1>2. CASE ~IsValid(m.st, s) BY <1>2, SetStateRefused, UpReflexive
<1>3. CASE IsValid(m.st, s) BY <1>1, <1>3, SetStateGood, SetStateFields
<1> QED BY <1>2, <1>3

\* setParticipantState() of the sender's own row, by an answer of the server, an
\* error or a resend.
LEMMA SetMyStateGood ==
  ASSUME NEW m, NEW f, NEW ok, World(f, ok), Good(m, f, ok),
         NEW s \in {"Idle", "InProgress", "Delivered", "NotDelivered", "PendingDelivery"},
         s = "Delivered" => ok
  PROVE  Good(SetMyState(m, s), f, ok) /\ Up(m.rcp, SetMyState(m, s).rcp)
<1> DEFINE e == SetRow(m.me, s)
           written == [m EXCEPT !.me = e]
<1>1. m \in Msg /\ s \in State BY DEF Good, State
<1>2. e \in State BY <1>1 DEF Msg, SetRow
<1> HIDE DEF e
<1>3. /\ written \in Msg /\ written.st = m.st /\ written.dbst = m.dbst /\ written.rcp = m.rcp
  BY <1>1, <1>2 DEF Msg
<1>4. SetMyState(m, s) \in {m, Aggregate(written), SetState(written, s)}
  BY DEF SetMyState, e
<1> HIDE DEF written
<1>5. Good(written, f, ok) BY <1>3 DEF Good, Synced, RowsTrue
<1>6. Enterable(written, s, ok) BY DEF Enterable
<1>7. Good(Aggregate(written), f, ok) /\ Up(m.rcp, Aggregate(written).rcp)
  BY <1>3, <1>5, AggregateGood
<1>8. Good(SetState(written, s), f, ok) /\ Up(m.rcp, SetState(written, s).rcp)
  BY <1>1, <1>3, <1>5, <1>6, SetStateStep
<1> QED BY <1>4, <1>7, <1>8, UpReflexive

\* setParticipantState() of the row of a recipient, by a true receipt.  A failure
\* may be written while the message counts as delivered; the aggregation that
\* follows never leaves it there, because a message whose states the aggregation
\* cannot change has no row that may still fail.
LEMMA SetRecipientStateGood ==
  ASSUME NEW m, NEW f, NEW ok, World(f, ok), Good(m, f, ok), NEW p \in Recipient,
         NEW s \in {"NotDelivered", "DeliveredToUser", "Displayed"}, RowHolds(s, f[p], ok)
  PROVE  Good(SetRecipientState(m, p, s), f, ok) /\ Up(m.rcp, SetRecipientState(m, p, s).rcp)
<1> DEFINE x == SetRow(m.rcp[p], s)
           written == [m EXCEPT !.rcp[p] = x]
<1>1. m \in Msg /\ m.rcp \in [Recipient -> RowState] /\ m.st \in State /\ s \in RowState
  BY DEF Good, Msg, RowState
<1>2. x \in {m.rcp[p], s} /\ x \in RowState /\ Told(x) >= Told(m.rcp[p])
  <2>1. m.rcp[p] \in RowState BY <1>1
  <2>2. x \in {m.rcp[p], s} /\ Told(x) >= Told(m.rcp[p]) BY <1>1, <2>1, RowFacts
  <2> QED BY <1>1, <2>1, <2>2
<1>3. CASE ~IsValid(m.rcp[p], s)
  BY <1>3, UpReflexive DEF SetRecipientState
<1>4. CASE IsValid(m.rcp[p], s)
  <2>1. SetRecipientState(m, p, s) = Aggregate(written) BY <1>4 DEF SetRecipientState
  <2>2. x = s
    BY <1>1, <1>4 DEF SetRow, IsValid, Transitions, Number, RowState
  <2> HIDE DEF x
  <2>3. /\ written \in Msg /\ written.st = m.st /\ written.dbst = m.dbst
        /\ written.rcp = [m.rcp EXCEPT ![p] = x]
    BY <1>1, <1>2 DEF Msg
  <2> HIDE DEF written
  <2>4. RowsTrue(written, f, ok)
    BY <1>1, <2>2, <2>3 DEF RowsTrue, Good
  <2>5. Up(m.rcp, written.rcp)
    <3>1. \A y : Told(y) \in Nat BY DEF Told
    <3> QED BY <1>1, <1>2, <2>3, <3>1 DEF Up
  <2>6. CASE s = "NotDelivered"
    <3>1. written.rcp[p] = "NotDelivered" BY <1>1, <2>2, <2>3, <2>6
    <3>2. "NotDelivered" \in {written.rcp[q] : q \in Recipient} BY <3>1
    <3>3. AggregatedState(written) = "NotDelivered" BY <3>2, Zenon DEF AggregatedState
    <3>4. Aggregate(written) = SetState(written, "NotDelivered") BY <3>3 DEF Aggregate
    <3>5. CASE IsValid(written.st, "NotDelivered")
      <4>1. Good(SetState(written, "NotDelivered"), f, ok)
        BY <2>3, <2>4, <3>5, SetStateGood DEF Enterable, State
      <4>2. Up(written.rcp, SetState(written, "NotDelivered").rcp)
        BY <2>3, <3>5, SetStateFields DEF State
      <4> QED BY <2>1, <2>5, <3>4, <4>1, <4>2, UpTransitive
    <3>6. CASE ~IsValid(written.st, "NotDelivered")
      <4>1. Aggregate(written) = written BY <3>4, <3>6, SetStateRefused
      <4>2. m.st \in {"PendingDelivery", "NotDelivered", "DeliveredToUser", "Displayed"}
        BY <1>1, <2>3, <3>6 DEF IsValid, Transitions, State
      <4>3. m.rcp[p] \notin {"DeliveredToUser", "Displayed"}
        BY <1>4, <2>6 DEF IsValid, Transitions
      <4>4. m.st \notin {"DeliveredToUser", "Displayed"}
        BY <4>3 DEF Good, Backed
      <4>5. m.dbst \in {"PendingDelivery", "NotDelivered", "Idle"}
        BY <4>2, <4>4 DEF Good, Synced
      <4>6. Good(written, f, ok)
        BY <2>3, <2>4, <4>2, <4>4, <4>5 DEF Good, Synced, Backed
      <4> QED BY <2>1, <2>5, <4>1, <4>6
    <3> QED BY <3>5, <3>6
  <2>7. CASE s # "NotDelivered"
    <3>1. m.rcp[p] # "Displayed" BY <1>4, <2>7 DEF IsValid, Transitions
    <3>2. m.rcp[p] = "DeliveredToUser" => s = "Displayed"
      BY <1>4, <2>7 DEF IsValid, Transitions
    <3>3. ASSUME NEW t, Backed(t, m.rcp) PROVE Backed(t, written.rcp)
      BY <1>1, <2>2, <2>3, <2>7, <3>1, <3>2, <3>3 DEF Backed
    <3>4. Good(written, f, ok) BY <2>3, <2>4, <3>3 DEF Good, Synced
    <3>5. Good(Aggregate(written), f, ok) /\ Up(written.rcp, Aggregate(written).rcp)
      BY <3>4, AggregateGood
    <3> QED BY <2>1, <2>5, <3>5, UpTransitive
  <2> QED BY <2>6, <2>7
<1> QED BY <1>3, <1>4

\* A change of what is neither a state nor a row.
LEMMA SameStatesGood ==
  ASSUME NEW m, NEW f, NEW ok, Good(m, f, ok), NEW n \in Msg,
         n.st = m.st, n.dbst = m.dbst, n.rcp = m.rcp
  PROVE  Good(n, f, ok) /\ Up(m.rcp, n.rcp)
BY UpReflexive DEF Good, Synced, RowsTrue

\* What was true stays true when the recipients and the server go on.
LEMMA GoodLater ==
  ASSUME NEW m, NEW f, NEW ok, World(f, ok), Good(m, f, ok), NEW g, NEW now,
         g \in [Recipient -> 0 .. 2], \A p \in Recipient : g[p] >= f[p], ok => now
  PROVE  Good(m, g, now)
<1>1. f \in [Recipient -> 0 .. 2] BY DEF World
<1>2. ASSUME NEW p \in Recipient PROVE RowHolds(m.rcp[p], g[p], now)
  <2>1. RowHolds(m.rcp[p], f[p], ok) BY DEF Good, RowsTrue
  <2>2. f[p] \in 0 .. 2 /\ g[p] \in 0 .. 2 /\ g[p] >= f[p] BY <1>1
  <2> QED BY <2>1, <2>2 DEF RowHolds
<1> QED BY <1>2 DEF Good, RowsTrue

\* updateInDb() leaves a good message good.
LEMMA UpdateInDbGood ==
  ASSUME NEW m, NEW f, NEW ok, Good(m, f, ok)
  PROVE  Good(UpdateInDb(m), f, ok) /\ Up(m.rcp, UpdateInDb(m).rcp)
<1> DEFINE n == UpdateInDb(m)
<1>1. m \in Msg /\ m.rcp \in [Recipient -> RowState] BY DEF Good, Msg
<1>2. /\ n \in Msg /\ n.st = m.st
      /\ n.dbst = IF m.st = "InProgress" THEN m.dbst ELSE m.st
      /\ \/ n.rcp = m.rcp
         \/ /\ m.st \in {"Delivered", "NotDelivered"}
            /\ n.rcp = [p \in Recipient |-> SetRow(m.rcp[p], m.st)]
  BY <1>1, UpdateInDbFields
<1> HIDE DEF n
<1>3. CASE n.rcp = m.rcp
  <2>1. Good(n, f, ok) BY <1>2, <1>3 DEF Good, Synced, RowsTrue
  <2> QED BY <1>3, <2>1, UpReflexive DEF n
<1>4. CASE /\ m.st \in {"Delivered", "NotDelivered"}
           /\ n.rcp = [p \in Recipient |-> SetRow(m.rcp[p], m.st)]
  <2>1. m.st \in RowState BY <1>4 DEF RowState
  <2>2. \A p \in Recipient : /\ n.rcp[p] \in {m.rcp[p], m.st}
                             /\ m.st = "Delivered" => n.rcp[p] # "NotDelivered"
                             /\ Told(n.rcp[p]) >= Told(m.rcp[p])
    BY <1>1, <1>4, <2>1, RowFacts, DeliveredRow
  <2>3. RowsTrue(n, f, ok) BY <1>4, <2>2 DEF RowsTrue, RowHolds, Good
  <2>4. Backed(m.st, n.rcp) BY <1>4, <2>2 DEF Backed
  <2>5. n.dbst = m.st BY <1>2, <1>4
  <2>6. Good(n, f, ok) BY <1>2, <2>3, <2>4, <2>5 DEF Good, Synced
  <2> QED BY <2>2, <2>6 DEF Up, n
<1> QED BY <1>2, <1>3, <1>4

\* Sending attempt a, for the first time or again (ChatMessagePrivate::send()).
LEMMA SentGood ==
  ASSUME NEW m, NEW f, NEW ok, World(f, ok), Good(m, f, ok), NEW a \in Attempt
  PROVE  Good(Sent(m, a), f, ok) /\ Up(m.rcp, Sent(m, a).rcp)
<1> DEFINE
      started == [m EXCEPT !.stored = TRUE, !.op = TRUE, !.live = @ \cup {a}]
      r == [p \in Recipient |-> Row(m.rcp[p], "Idle")]
      reset == [started EXCEPT !.rcp = r]
      again == SetMyState(reset, "Idle")
<1>1. m \in Msg /\ m.rcp \in [Recipient -> RowState] BY DEF Good, Msg
<1>2. /\ started \in Msg /\ started.st = m.st /\ started.dbst = m.dbst
      /\ started.rcp = m.rcp
  BY <1>1 DEF Msg
<1>3. Sent(m, a) \in {UpdateInDb(again), UpdateInDb(started)}
  BY <1>2 DEF Sent
<1> HIDE DEF started
<1>4. Good(started, f, ok) BY <1>2, SameStatesGood
<1>5. ASSUME NEW p \in Recipient
      PROVE  /\ r[p] \in RowState /\ Told(r[p]) >= Told(m.rcp[p])
             /\ r[p] = m.rcp[p] \/ (m.rcp[p] = "NotDelivered" /\ r[p] = "Idle")
  <2>1. m.rcp[p] \in RowState /\ "Idle" \in RowState BY <1>1 DEF RowState
  <2>2. Row(m.rcp[p], "Idle") \in {m.rcp[p], "Idle"}
        /\ Told(Row(m.rcp[p], "Idle")) >= Told(m.rcp[p])
    BY <2>1, RowFacts
  <2>3. Row(m.rcp[p], "Idle") = m.rcp[p] \/ m.rcp[p] = "NotDelivered"
    BY <2>1 DEF Row, IsValid, Transitions, RowState
  <2> QED BY <2>1, <2>2, <2>3
<1>6. r \in [Recipient -> RowState] BY <1>5
<1>7. \A s : Backed(s, m.rcp) => Backed(s, r) BY <1>5 DEF Backed
<1>8. Up(m.rcp, r) BY <1>5 DEF Up
<1>9. \A p \in Recipient : RowHolds(m.rcp[p], f[p], ok) => RowHolds(r[p], f[p], ok)
  BY <1>5 DEF RowHolds
<1> HIDE DEF r
<1>10. reset \in Msg /\ reset.st = m.st /\ reset.dbst = m.dbst /\ reset.rcp = r
  BY <1>2, <1>6 DEF Msg
<1> HIDE DEF reset
<1>11. Good(reset, f, ok) BY <1>7, <1>9, <1>10 DEF Good, Synced, RowsTrue
<1>12. Good(again, f, ok) /\ Up(reset.rcp, again.rcp) BY <1>11, SetMyStateGood
<1> HIDE DEF again
<1>13. Up(m.rcp, again.rcp) BY <1>8, <1>10, <1>12, UpTransitive
<1>14. Good(UpdateInDb(again), f, ok) /\ Up(m.rcp, UpdateInDb(again).rcp)
  BY <1>12, <1>13, UpdateInDbGood, UpTransitive
<1>15. Good(UpdateInDb(started), f, ok) /\ Up(m.rcp, UpdateInDb(started).rcp)
  BY <1>2, <1>4, UpdateInDbGood
<1> QED BY <1>3, <1>14, <1>15

\* ... and when the message cannot be encrypted.
LEMMA UnencryptableGood ==
  ASSUME NEW m, NEW f, NEW ok, World(f, ok), Good(m, f, ok)
  PROVE  Good(Unencryptable(m), f, ok) /\ Up(m.rcp, Unencryptable(m).rcp)
<1> DEFINE n == [m EXCEPT !.stored = TRUE, !.op = TRUE]
<1>1. m \in Msg BY DEF Good
<1>2. n \in Msg /\ n.st = m.st /\ n.dbst = m.dbst /\ n.rcp = m.rcp BY <1>1 DEF Msg
<1>3. Unencryptable(m) = SetMyState(n, "NotDelivered") BY DEF Unencryptable
<1> HIDE DEF n
<1>4. Good(n, f, ok) BY <1>2, SameStatesGood
<1>5. Good(SetMyState(n, "NotDelivered"), f, ok)
      /\ Up(n.rcp, SetMyState(n, "NotDelivered").rcp)
  BY <1>4, SetMyStateGood
<1> QED BY <1>2, <1>3, <1>5

\* The message as it is read back from the database.
LEMMA LoadedGood ==
  ASSUME NEW m, NEW f, NEW ok, Good(m, f, ok)
  PROVE  Good(Loaded(m), f, ok) /\ Loaded(m).rcp = m.rcp
<1> DEFINE s == IF m.dbst = "Idle" THEN "NotDelivered" ELSE m.dbst
<1>1. m \in Msg BY DEF Good
<1>2. s \in State BY <1>1 DEF Msg, State
<1>3. s = m.dbst \/ (s = "NotDelivered" /\ m.dbst = "Idle") OBVIOUS
<1>4. Loaded(m) = [m EXCEPT !.st = s, !.op = FALSE, !.live = {}, !.auto = FALSE,
                            !.timer = FALSE, !.listening = FALSE, !.pending = FALSE]
  BY DEF Loaded
<1> HIDE DEF s
<1>5. /\ Loaded(m) \in Msg /\ Loaded(m).st = s /\ Loaded(m).dbst = m.dbst
      /\ Loaded(m).rcp = m.rcp
  BY <1>1, <1>2, <1>4 DEF Msg
<1> QED BY <1>3, <1>5 DEF Good, Synced, RowsTrue, Backed
-----------------------------------------------------------------------------
(* The actions. *)

(* What a step of the sending device does to the message and its attempts. *)
DeviceStep ==
  /\ Good(msg', fact, Accepted) /\ Up(msg.rcp, msg'.rcp)
  /\ att' \in [Attempt -> {"unused", "wire", "accepted", "refused"}]
  /\ \A a \in Attempt : att[a] = "accepted" => att'[a] = "accepted"

(* The recipients get further, or more is known of them. *)
Advances ==
  \/ UNCHANGED fact /\ Up(msg.rcp, msg'.rcp)
  \/ UNCHANGED msg /\ \A p \in Recipient : fact'[p] >= fact[p]

\* A step of the sending device preserves the invariant.
LEMMA DeviceStepIInv ==
  ASSUME IInv, DeviceStep, UNCHANGED <<inbox, fact>>, underway' \in BOOLEAN,
         imdn' \in [Recipient -> SUBSET ImdnKind],
         \A p \in Recipient : imdn'[p] \subseteq imdn[p]
  PROVE  IInv' /\ Advances
<1>1. World(fact, Accepted) /\ fact \in [Recipient -> 0 .. 2] BY DEF IInv, World
<1>2. Accepted => Accepted' BY DEF Accepted, DeviceStep
<1>3. Good(msg', fact, Accepted) BY DEF DeviceStep
<1>4. \A p \in Recipient : fact[p] >= fact[p] BY <1>1
<1>5. Good(msg', fact, Accepted') BY <1>1, <1>2, <1>3, <1>4, GoodLater
<1>6. World(fact, Accepted') BY <1>1, <1>2 DEF World
<1>7. inbox' \in [Recipient -> SUBSET Attempt]
      /\ \A p \in Recipient : \A a \in inbox'[p] : att'[a] = "accepted"
  BY DEF IInv, DeviceStep
<1>8. \A p \in Recipient : ImdnTrue(p)' BY DEF IInv, ImdnTrue
<1>9. att' \in [Attempt -> {"unused", "wire", "accepted", "refused"}] BY DEF DeviceStep
<1>10. Good(msg, fact, Accepted)' BY <1>5
<1>11. World(fact, Accepted)' BY <1>6
<1>12. Advances BY DEF DeviceStep, Advances
<1> QED BY <1>7, <1>8, <1>9, <1>10, <1>11, <1>12 DEF IInv

\* The message goes out, or turns out to be unencryptable.
LEMMA DispatchStep ==
  ASSUME IInv, NEW m, Good(m, fact, Accepted), m.rcp = msg.rcp, Dispatch(m)
  PROVE  DeviceStep
<1>1. World(fact, Accepted) /\ att \in [Attempt -> {"unused", "wire", "accepted", "refused"}]
  BY DEF IInv
<1>2. CASE msg' = Unencryptable(m) /\ UNCHANGED att
  <2>1. Good(Unencryptable(m), fact, Accepted) /\ Up(m.rcp, Unencryptable(m).rcp)
    BY <1>1, UnencryptableGood
  <2> QED BY <1>1, <1>2, <2>1 DEF DeviceStep
<1>3. CASE \E a \in Attempt : /\ NextAttempt(a)
                              /\ msg' = Sent(m, a)
                              /\ att' = [att EXCEPT ![a] = "wire"]
  <2>1. PICK a \in Attempt : /\ NextAttempt(a)
                             /\ msg' = Sent(m, a)
                             /\ att' = [att EXCEPT ![a] = "wire"]
    BY <1>3
  <2>2. Good(Sent(m, a), fact, Accepted) /\ Up(m.rcp, Sent(m, a).rcp)
    BY <1>1, SentGood
  <2>3. att[a] = "unused" BY <2>1 DEF NextAttempt
  <2> QED BY <1>1, <2>1, <2>2, <2>3 DEF DeviceStep
<1> QED BY <1>2, <1>3 DEF Dispatch

\* ... or waits in the room.
LEMMA PrivateSendStep ==
  ASSUME IInv, NEW m, Good(m, fact, Accepted), m.rcp = msg.rcp, PrivateSend(m)
  PROVE  DeviceStep
<1>1. CASE Dispatch(m) BY <1>1, DispatchStep
<1>2. CASE msg' = [m EXCEPT !.pending = TRUE] /\ UNCHANGED att
  <2> DEFINE n == [m EXCEPT !.pending = TRUE]
  <2>1. m \in Msg BY DEF Good
  <2>2. n \in Msg /\ n.st = m.st /\ n.dbst = m.dbst /\ n.rcp = m.rcp BY <2>1 DEF Msg
  <2> HIDE DEF n
  <2>3. Good(n, fact, Accepted) /\ Up(m.rcp, n.rcp) BY <2>2, SameStatesGood
  <2>4. msg' = n BY <1>2 DEF n
  <2> QED BY <1>2, <2>3, <2>4 DEF DeviceStep, IInv
<1> QED BY <1>1, <1>2 DEF PrivateSend

\* The application sends (send()).
LEMMA SendIInv == IInv /\ Send => IInv' /\ Advances
<1> SUFFICES ASSUME IInv, Send PROVE IInv' /\ Advances OBVIOUS
<1> DEFINE m == [msg EXCEPT !.fired = 0]
<1>1. Good(msg, fact, Accepted) /\ msg \in Msg BY DEF IInv, Good
<1>2. m \in Msg /\ m.st = msg.st /\ m.dbst = msg.dbst /\ m.rcp = msg.rcp BY <1>1 DEF Msg
<1>3. PrivateSend(m) /\ UNCHANGED <<underway, inbox, fact, imdn>> BY DEF Send
<1> HIDE DEF m
<1>4. Good(m, fact, Accepted) BY <1>1, <1>2, SameStatesGood
<1>5. DeviceStep BY <1>2, <1>3, <1>4, PrivateSendStep
<1> QED BY <1>3, <1>5, DeviceStepIInv DEF IInv

\* The resends nobody asked for (handleAutomaticResend()).
LEMMA HandleAutomaticResendIInv ==
  ASSUME IInv, NEW m \in Msg, m.st = msg.st, m.dbst = msg.dbst, m.rcp = msg.rcp,
         HandleAutomaticResend(m)
  PROVE  IInv' /\ Advances
<1> DEFINE n == [m EXCEPT !.auto = TRUE, !.timer = FALSE]
<1>1. Good(msg, fact, Accepted) BY DEF IInv
<1>2. n \in Msg /\ n.st = msg.st /\ n.dbst = msg.dbst /\ n.rcp = msg.rcp BY DEF Msg
<1>3. /\ PrivateSend(n) \/ (msg' = n /\ UNCHANGED att)
      /\ UNCHANGED <<underway, inbox, fact, imdn>>
  BY DEF HandleAutomaticResend
<1> HIDE DEF n
<1>4. Good(n, fact, Accepted) /\ Up(msg.rcp, n.rcp) BY <1>1, <1>2, SameStatesGood
<1>5. CASE PrivateSend(n)
  <2>1. DeviceStep BY <1>2, <1>4, <1>5, PrivateSendStep
  <2> QED BY <1>3, <2>1, DeviceStepIInv DEF IInv
<1>6. CASE msg' = n /\ UNCHANGED att
  <2>1. DeviceStep BY <1>4, <1>6 DEF DeviceStep, IInv
  <2> QED BY <1>3, <2>1, DeviceStepIInv DEF IInv
<1> QED BY <1>3, <1>5, <1>6

\* The timer expires, or the account is registered.
LEMMA ResendIInv == IInv /\ (ResendTimerExpired \/ OnRegistered) => IInv' /\ Advances
<1>1. ASSUME IInv PROVE msg \in Msg BY <1>1 DEF IInv, Good
<1>2. ASSUME IInv, OnRegistered PROVE IInv' /\ Advances
  BY <1>1, <1>2, HandleAutomaticResendIInv DEF OnRegistered
<1>3. ASSUME IInv, ResendTimerExpired PROVE IInv' /\ Advances
  <2> DEFINE m == [msg EXCEPT !.fired = @ + 1]
  <2>1. m \in Msg /\ m.st = msg.st /\ m.dbst = msg.dbst /\ m.rcp = msg.rcp
    BY <1>1, <1>3 DEF Msg
  <2>2. HandleAutomaticResend(m) BY <1>3 DEF ResendTimerExpired
  <2> HIDE DEF m
  <2> QED BY <1>3, <2>1, <2>2, HandleAutomaticResendIInv
<1> QED BY <1>2, <1>3

\* The subscription of the room is asked for, fails, or sends what waited for it.
LEMMA SubscriptionIInv == IInv /\ (Subscribe \/ NotifyReceived \/ SubscribeError) => IInv' /\ Advances
<1> SUFFICES ASSUME IInv, Subscribe \/ NotifyReceived \/ SubscribeError PROVE IInv' /\ Advances
  OBVIOUS
<1>1. Good(msg, fact, Accepted) /\ msg \in Msg BY DEF IInv, Good
<1>2. /\ UNCHANGED <<inbox, fact, imdn>> /\ underway' \in BOOLEAN
      /\ \/ UNCHANGED <<msg, att>>
         \/ Dispatch([msg EXCEPT !.pending = FALSE, !.fired = 0])
  BY DEF Subscribe, NotifyReceived, SubscribeError
<1>3. CASE UNCHANGED <<msg, att>>
  <2>1. DeviceStep BY <1>1, <1>3, UpReflexive DEF DeviceStep, IInv
  <2> QED BY <1>2, <2>1, DeviceStepIInv DEF IInv
<1>4. CASE Dispatch([msg EXCEPT !.pending = FALSE, !.fired = 0])
  <2> DEFINE m == [msg EXCEPT !.pending = FALSE, !.fired = 0]
  <2>1. m \in Msg /\ m.st = msg.st /\ m.dbst = msg.dbst /\ m.rcp = msg.rcp
    BY <1>1 DEF Msg
  <2>2. Dispatch(m) BY <1>4
  <2> HIDE DEF m
  <2>3. Good(m, fact, Accepted) BY <1>1, <2>1, SameStatesGood
  <2>4. DeviceStep BY <2>1, <2>2, <2>3, DispatchStep
  <2> QED BY <1>2, <2>4, DeviceStepIInv DEF IInv
<1> QED BY <1>2, <1>3, <1>4

\* The answers of the server, and the errors of the transaction
\* (message_delivery_update()).
LEMMA UpdateIInv ==
  ASSUME IInv, NEW a \in Attempt, NEW final \in BOOLEAN,
         NEW s \in {"InProgress", "Delivered", "NotDelivered", "PendingDelivery"},
         s = "Delivered" => att[a] = "accepted", Update(a, s, final)
  PROVE  IInv' /\ Advances
<1> DEFINE m == IF final THEN [msg EXCEPT !.live = @ \ {a}] ELSE msg
<1>1. Good(msg, fact, Accepted) /\ msg \in Msg /\ World(fact, Accepted) BY DEF IInv, Good
<1>2. m \in Msg /\ m.st = msg.st /\ m.dbst = msg.dbst /\ m.rcp = msg.rcp BY <1>1 DEF Msg
<1>3. msg' = SetMyState(m, s) /\ UNCHANGED <<underway, att, inbox, fact, imdn>>
  BY DEF Update
<1> HIDE DEF m
<1>4. Good(m, fact, Accepted) BY <1>1, <1>2, SameStatesGood
<1>5. s = "Delivered" => Accepted BY DEF Accepted
<1>6. Good(SetMyState(m, s), fact, Accepted) /\ Up(m.rcp, SetMyState(m, s).rcp)
  BY <1>1, <1>4, <1>5, SetMyStateGood
<1>7. DeviceStep BY <1>2, <1>3, <1>6 DEF DeviceStep, IInv
<1> QED BY <1>3, <1>7, DeviceStepIInv DEF IInv

\* Each of them.
LEMMA AnswerIInv ==
  ASSUME IInv, NEW a \in Attempt,
         \/ OnProvisional(a) \/ OnAccepted(a) \/ OnRefused(a) \/ OnTimeout(a) \/ OnIoError(a)
  PROVE  IInv' /\ Advances
<1>1. CASE OnProvisional(a) BY <1>1, UpdateIInv DEF OnProvisional
<1>2. CASE OnAccepted(a) BY <1>2, UpdateIInv DEF OnAccepted
<1>3. CASE OnRefused(a) \/ OnTimeout(a) BY <1>3, UpdateIInv DEF OnRefused, OnTimeout
<1>4. CASE OnIoError(a) BY <1>4, UpdateIInv DEF OnIoError
<1> QED BY <1>1, <1>2, <1>3, <1>4

\* A receipt comes back (Imdn::parse()).
LEMMA OnImdnIInv ==
  ASSUME IInv, NEW p \in Recipient, NEW k \in ImdnKind, OnImdn(p, k)
  PROVE  IInv' /\ Advances
<1> DEFINE s == StateOfKind[k]
<1>1. Good(msg, fact, Accepted) /\ World(fact, Accepted) /\ ImdnTrue(p) BY DEF IInv
<1>2. /\ k \in imdn[p] /\ imdn' = [imdn EXCEPT ![p] = @ \ {k}]
      /\ msg' = SetRecipientState(msg, p, s)
      /\ UNCHANGED <<underway, att, inbox, fact>>
  BY DEF OnImdn
<1>3. /\ s \in {"NotDelivered", "DeliveredToUser", "Displayed"}
      /\ RowHolds(s, fact[p], Accepted)
  BY <1>1, <1>2 DEF StateOfKind, ImdnKind, RowHolds, ImdnTrue
<1> HIDE DEF s
<1>4. /\ Good(SetRecipientState(msg, p, s), fact, Accepted)
      /\ Up(msg.rcp, SetRecipientState(msg, p, s).rcp)
  BY <1>1, <1>3, SetRecipientStateGood
<1>5. DeviceStep BY <1>2, <1>4 DEF DeviceStep, IInv
<1>6. /\ imdn' \in [Recipient -> SUBSET ImdnKind]
      /\ \A q \in Recipient : imdn'[q] \subseteq imdn[q]
  BY <1>2 DEF IInv
<1> QED BY <1>2, <1>5, <1>6, DeviceStepIInv DEF IInv

\* The device crashes and starts again.
LEMMA CrashIInv == IInv /\ Crash => IInv' /\ Advances
<1> SUFFICES ASSUME IInv, Crash PROVE IInv' /\ Advances OBVIOUS
<1>1. Good(Loaded(msg), fact, Accepted) /\ Up(msg.rcp, Loaded(msg).rcp)
  BY LoadedGood, UpReflexive DEF IInv
<1>2. msg' = Loaded(msg) /\ underway' = FALSE /\ UNCHANGED <<att, inbox, fact, imdn>>
  BY DEF Crash
<1>3. DeviceStep BY <1>1, <1>2 DEF DeviceStep, IInv
<1> QED BY <1>2, <1>3, DeviceStepIInv DEF IInv

\* The server and the recipients: what they have was accepted, and what they notify
\* is true.
LEMMA WorldStepIInv ==
  ASSUME IInv, UNCHANGED <<msg, underway>>,
         fact' \in [Recipient -> 0 .. 2], \A p \in Recipient : fact'[p] >= fact[p],
         \A p \in Recipient : fact'[p] > 0 => Accepted',
         att' \in [Attempt -> {"unused", "wire", "accepted", "refused"}],
         \A a \in Attempt : att[a] = "accepted" => att'[a] = "accepted",
         inbox' \in [Recipient -> SUBSET Attempt],
         \A p \in Recipient : \A a \in inbox'[p] : att'[a] = "accepted",
         imdn' \in [Recipient -> SUBSET ImdnKind],
         \A p \in Recipient : \A k \in imdn'[p] \ imdn[p] :
            /\ k = "delivered" => fact'[p] >= 1
            /\ k = "displayed" => fact'[p] = 2
  PROVE  IInv' /\ Advances
<1>1. Good(msg, fact, Accepted) /\ World(fact, Accepted) BY DEF IInv
<1>2. Accepted => Accepted' BY DEF Accepted
<1>3. Good(msg, fact', Accepted') BY <1>1, <1>2, GoodLater
<1>4. World(fact', Accepted') BY DEF World
<1>5. ASSUME NEW p \in Recipient PROVE ImdnTrue(p)'
  <2>1. ImdnTrue(p) /\ fact[p] \in 0 .. 2 /\ fact'[p] \in 0 .. 2 /\ fact'[p] >= fact[p]
    BY DEF IInv, World
  <2> QED BY <2>1 DEF ImdnTrue
<1>6. Good(msg, fact, Accepted)' BY <1>3
<1>7. World(fact, Accepted)' BY <1>4
<1>8. Advances BY DEF Advances
<1> QED BY <1>5, <1>6, <1>7, <1>8 DEF IInv

\* The server accepts or refuses an attempt.
LEMMA ServerIInv ==
  ASSUME IInv, NEW a \in Attempt, ServerAccepts(a) \/ ServerRefuses(a)
  PROVE  IInv' /\ Advances
<1>1. /\ fact \in [Recipient -> 0 .. 2] /\ inbox \in [Recipient -> SUBSET Attempt]
      /\ att \in [Attempt -> {"unused", "wire", "accepted", "refused"}]
      /\ imdn \in [Recipient -> SUBSET ImdnKind]
      /\ \A p \in Recipient : fact[p] > 0 => Accepted
      /\ \A p \in Recipient : \A b \in inbox[p] : att[b] = "accepted"
  BY DEF IInv, World
<1>2. att[a] = "wire" /\ UNCHANGED <<msg, underway, fact, imdn>>
  BY DEF ServerAccepts, ServerRefuses
<1>3. \A p \in Recipient : fact'[p] >= fact[p] BY <1>1, <1>2
<1>4. /\ att' \in [Attempt -> {"unused", "wire", "accepted", "refused"}]
      /\ \A b \in Attempt : att[b] = "accepted" => att'[b] = "accepted"
  BY <1>1, <1>2 DEF ServerAccepts, ServerRefuses
<1>5. \A p \in Recipient : fact'[p] > 0 => Accepted' BY <1>1, <1>2, <1>4 DEF Accepted
<1>6. /\ inbox' \in [Recipient -> SUBSET Attempt]
      /\ \A p \in Recipient : \A b \in inbox'[p] : att'[b] = "accepted"
  <2>1. CASE ServerAccepts(a)
    <3>1. inbox' = [p \in Recipient |-> inbox[p] \cup {a}] /\ att'[a] = "accepted"
      BY <1>1, <2>1 DEF ServerAccepts
    <3> QED BY <1>1, <1>4, <3>1
  <2>2. CASE ServerRefuses(a) BY <1>1, <1>4, <2>2 DEF ServerRefuses
  <2> QED BY <2>1, <2>2
<1> QED BY <1>1, <1>2, <1>3, <1>4, <1>5, <1>6, WorldStepIInv

\* A recipient gets a copy, cannot read it, displays the message or repeats a receipt.
LEMMA RecipientIInv ==
  ASSUME IInv, NEW p \in Recipient,
         Receives(p) \/ CannotDecrypt(p) \/ Displays(p) \/ NotifiesAgain(p)
  PROVE  IInv' /\ Advances
<1>1. /\ fact \in [Recipient -> 0 .. 2] /\ inbox \in [Recipient -> SUBSET Attempt]
      /\ att \in [Attempt -> {"unused", "wire", "accepted", "refused"}]
      /\ imdn \in [Recipient -> SUBSET ImdnKind]
      /\ \A q \in Recipient : fact[q] > 0 => Accepted
      /\ \A q \in Recipient : \A b \in inbox[q] : att[b] = "accepted"
  BY DEF IInv, World
<1>2. UNCHANGED <<msg, underway, att>>
  BY DEF Receives, CannotDecrypt, Displays, NotifiesAgain
<1>3. Accepted' = Accepted BY <1>2 DEF Accepted
<1>4. /\ inbox' \in [Recipient -> SUBSET Attempt]
      /\ \A q \in Recipient : inbox'[q] \subseteq inbox[q]
  BY <1>1 DEF Receives, CannotDecrypt, Displays, NotifiesAgain
<1>5. /\ fact' \in [Recipient -> 0 .. 2]
      /\ \A q \in Recipient : fact'[q] >= fact[q]
      /\ \A q \in Recipient : fact'[q] > 0 => Accepted
  <2>1. CASE Receives(p)
    <3>1. PICK a \in inbox[p] : TRUE BY <2>1 DEF Receives
    <3>2. Accepted BY <1>1, <3>1 DEF Accepted
    <3>3. fact' = [fact EXCEPT ![p] = IF @ = 0 THEN 1 ELSE @] BY <2>1 DEF Receives
    <3> QED BY <1>1, <3>2, <3>3
  <2>2. CASE Displays(p)
    <3>1. fact[p] = 1 /\ fact' = [fact EXCEPT ![p] = 2] BY <2>2 DEF Displays
    <3> QED BY <1>1, <3>1
  <2>3. CASE CannotDecrypt(p) \/ NotifiesAgain(p)
    <3>1. fact' = fact BY <2>3 DEF CannotDecrypt, NotifiesAgain
    <3> QED BY <1>1, <3>1
  <2> QED BY <2>1, <2>2, <2>3
<1>6. imdn' \in [Recipient -> SUBSET ImdnKind]
  BY <1>1 DEF Receives, CannotDecrypt, Displays, NotifiesAgain, ImdnKind
<1>7. ASSUME NEW q \in Recipient, NEW k \in imdn'[q] \ imdn[q]
      PROVE  /\ k = "delivered" => fact'[q] >= 1
             /\ k = "displayed" => fact'[q] = 2
  <2>1. CASE Receives(p) BY <1>1, <1>7, <2>1 DEF Receives
  <2>2. CASE CannotDecrypt(p) BY <1>1, <1>7, <2>2 DEF CannotDecrypt
  <2>3. CASE Displays(p) BY <1>1, <1>7, <2>3 DEF Displays
  <2>4. CASE NotifiesAgain(p) BY <1>1, <1>7, <2>4 DEF NotifiesAgain
  <2> QED BY <2>1, <2>2, <2>3, <2>4
<1>8. \A q \in Recipient : \A b \in inbox'[q] : att'[b] = "accepted"
  BY <1>1, <1>2, <1>4
<1>9. /\ att' \in [Attempt -> {"unused", "wire", "accepted", "refused"}]
      /\ \A b \in Attempt : att[b] = "accepted" => att'[b] = "accepted"
  BY <1>1, <1>2
<1>10. \A q \in Recipient : fact'[q] > 0 => Accepted' BY <1>3, <1>5
<1> QED BY <1>2, <1>4, <1>5, <1>6, <1>7, <1>8, <1>9, <1>10, WorldStepIInv

\* The invariant holds before anything was sent.
LEMMA InitIInv == Init => IInv
<1> SUFFICES ASSUME Init PROVE IInv OBVIOUS
<1>1. /\ msg \in Msg /\ msg.st = "Idle" /\ msg.dbst = "Idle"
      /\ \A p \in Recipient : msg.rcp[p] = "Idle"
  BY DEF Init, Msg, State, RowState
<1>2. Good(msg, fact, Accepted) BY <1>1 DEF Good, Synced, RowsTrue, RowHolds, Backed
<1>3. World(fact, Accepted) BY DEF Init, World
<1> QED BY <1>2, <1>3 DEF Init, IInv, ImdnTrue

\* Every step preserves the invariant, and goes forward.
LEMMA NextIInv == IInv /\ [Next]_vars => IInv' /\ Advances
<1> SUFFICES ASSUME IInv, [Next]_vars PROVE IInv' /\ Advances OBVIOUS
<1>1. CASE Send BY <1>1, SendIInv
<1>2. CASE ResendTimerExpired \/ OnRegistered BY <1>2, ResendIInv
<1>3. CASE Subscribe \/ NotifyReceived \/ SubscribeError BY <1>3, SubscriptionIInv
<1>4. CASE Crash BY <1>4, CrashIInv
<1>5. ASSUME NEW a \in Attempt, ServerAccepts(a) \/ ServerRefuses(a) PROVE IInv' /\ Advances
  BY <1>5, ServerIInv
<1>6. ASSUME NEW a \in Attempt,
             \/ OnProvisional(a) \/ OnAccepted(a) \/ OnRefused(a) \/ OnTimeout(a)
             \/ OnIoError(a)
      PROVE  IInv' /\ Advances
  BY <1>6, AnswerIInv
<1>7. ASSUME NEW p \in Recipient,
             Receives(p) \/ CannotDecrypt(p) \/ Displays(p) \/ NotifiesAgain(p)
      PROVE  IInv' /\ Advances
  BY <1>7, RecipientIInv
<1>8. ASSUME NEW p \in Recipient, NEW k \in ImdnKind, OnImdn(p, k) PROVE IInv' /\ Advances
  BY <1>8, OnImdnIInv
<1>9. CASE UNCHANGED vars
  <2>1. Accepted' = Accepted BY <1>9 DEF vars, Accepted
  <2>2. Good(msg, fact, Accepted)' BY <1>9, <2>1 DEF vars, IInv
  <2>3. World(fact, Accepted)' BY <1>9, <2>1 DEF vars, IInv
  <2>4. Advances BY <1>9, UpReflexive DEF vars, Advances
  <2> QED BY <1>9, <2>2, <2>3, <2>4 DEF vars, IInv, ImdnTrue
<1> QED BY <1>1, <1>2, <1>3, <1>4, <1>5, <1>6, <1>7, <1>8, <1>9 DEF Next

\* The inductive invariant holds in every reachable state.
LEMMA IInvHolds == Spec => []IInv
BY InitIInv, NextIInv, PTL DEF Spec
-----------------------------------------------------------------------------
(* The theorems. *)

\* The message, its rows, the attempts and the receipts keep their types; a row never
\* holds InProgress or PendingDelivery, the states of a message that is going out.
THEOREM ChatTypeCorrect == Spec => []TypeOK
<1>1. ASSUME IInv PROVE TypeOK BY <1>1 DEF IInv, Good, World, TypeOK
<1> QED BY <1>1, IInvHolds, PTL

\* The state of the message, shown or stored, claims nothing that has not happened,
\* whatever was resent, duplicated, lost in a crash or notified out of order.
THEOREM ChatIsHonest == Spec => []Honest
<1>1. ASSUME IInv, NEW s, Backed(s, msg.rcp), s = "Delivered" => Accepted
      PROVE  ClaimHolds(s)
  <2>1. \A p \in Recipient : RowHolds(msg.rcp[p], fact[p], Accepted) /\ fact[p] \in 0 .. 2
    BY <1>1 DEF IInv, Good, RowsTrue, World
  <2> QED BY <1>1, <2>1 DEF ClaimHolds, Backed, RowHolds, Accepted
<1>2. ASSUME IInv PROVE Honest
  BY <1>1, <1>2 DEF Honest, IInv, Good
<1> QED BY <1>2, IInvHolds, PTL

\* A recipient known not to have the message is not hidden behind a message that
\* counts as delivered.
THEOREM FailuresAreShown == Spec => []NoHiddenFailure
<1>1. IInv => NoHiddenFailure BY DEF IInv, Good, Backed, NoHiddenFailure
<1> QED BY <1>1, IInvHolds, PTL

\* A step of the message or of the recipients is a step of the abstract report or
\* changes nothing of it.
LEMMA StepRefines ==
  ASSUME IInv, IInv', Advances
  PROVE  [Reports!Next]_<<fact, [p \in Recipient |-> Told(msg.rcp[p])]>>
<1> DEFINE told == [p \in Recipient |-> Told(msg.rcp[p])]
<1>1. fact \in [Recipient -> 0 .. 2] /\ fact' \in [Recipient -> 0 .. 2]
  BY DEF IInv, World
<1>2. CASE UNCHANGED msg /\ \A p \in Recipient : fact'[p] >= fact[p]
  <2>1. told' = told BY <1>2
  <2> QED BY <1>1, <1>2, <2>1
      DEF Reports!Next, Reports!Happens, Reports!Level, Reports!Unknown, Reports!Displayed
<1>3. CASE UNCHANGED fact /\ Up(msg.rcp, msg'.rcp)
  <2>1. \A x : Told(x) \in 0 .. 2 BY DEF Told
  <2>2. told' \in [Recipient -> 0 .. 2] BY <2>1
  <2>3. ASSUME NEW p \in Recipient PROVE Told(msg'.rcp[p]) <= fact[p]
    <3>1. RowHolds(msg.rcp[p], fact[p], Accepted)' BY DEF IInv, Good, RowsTrue
    <3>2. RowHolds(msg'.rcp[p], fact[p], Accepted') BY <1>3, <3>1
    <3>3. CASE msg'.rcp[p] = "Displayed" BY <3>2, <3>3 DEF RowHolds, Told
    <3>4. CASE msg'.rcp[p] = "DeliveredToUser" BY <3>2, <3>4 DEF RowHolds, Told
    <3>5. CASE msg'.rcp[p] \notin {"Displayed", "DeliveredToUser"}
      <4>1. Told(msg'.rcp[p]) = 0 BY <3>5 DEF Told
      <4> QED BY <1>1, <4>1
    <3> QED BY <3>3, <3>4, <3>5
  <2>4. \A p \in Recipient : told'[p] >= told[p] /\ told'[p] <= fact[p]
    BY <1>3, <2>3 DEF Up
  <2> HIDE DEF told
  <2>5. Reports!Report
    BY <1>3, <2>2, <2>4
    DEF Reports!Report, Reports!Level, Reports!Unknown, Reports!Displayed, told
  <2> QED BY <2>5 DEF Reports!Next
<1> QED BY <1>2, <1>3 DEF Advances

\* The rows of the recipients implement DeliveryReport: they never say more than what
\* happened and never go back.
THEOREM ChatRefinesReports == Spec => ImplementsReports
<1>1. Init => Reports!Init
  <2> SUFFICES ASSUME Init PROVE Reports!Init OBVIOUS
  <2>1. \A p \in Recipient : Told(msg.rcp[p]) = 0 BY DEF Init, Told
  <2>2. fact = [p \in Recipient |-> 0] BY DEF Init
  <2>3. [p \in Recipient |-> Told(msg.rcp[p])] = fact BY <2>1, <2>2
  <2> QED BY <2>2, <2>3 DEF Reports!Init, Reports!Unknown
<1>2. IInv /\ IInv' /\ [Next]_vars
        => [Reports!Next]_<<fact, [p \in Recipient |-> Told(msg.rcp[p])]>>
  BY NextIInv, StepRefines
<1> QED BY <1>1, <1>2, IInvHolds, PTL DEF Spec, ImplementsReports, Reports!Spec
-----------------------------------------------------------------------------
(* The resend timer. *)

(* Once the timer has fired it is off, and a message that is being sent again is *)
(* marked as resent automatically, so that its next failure does not arm it.     *)
TimerSpent(m) ==
  \/ m.fired = 0
  \/ m.fired = 1 /\ ~m.timer /\ (m.st = "Idle" => m.auto)

\* A message enters PendingDelivery from Idle only; a state other than Idle, or Idle
\* by an automatic resend, keeps the timer spent.
LEMMA SetStateTimer ==
  ASSUME NEW m \in Msg, NEW s \in State, TimerSpent(m),
         s = "Idle" => m.fired = 0 \/ m.auto
  PROVE  SetState(m, s) \in Msg /\ TimerSpent(SetState(m, s))
<1>1. CASE ~IsValid(m.st, s) BY <1>1, SetStateRefused
<1>2. CASE IsValid(m.st, s)
  <2>1. s = "PendingDelivery" => m.st = "Idle"
    <3>1. m.st \in State BY DEF Msg
    <3> QED BY <1>2, <3>1 DEF IsValid, Transitions, State
  <2>2. /\ SetState(m, s).fired = m.fired /\ SetState(m, s).st = s
        /\ SetState(m, s).timer => m.timer \/ (s = "PendingDelivery" /\ ~m.auto)
        /\ s = "Idle" /\ m.auto => SetState(m, s).auto
    BY <1>2, SetStateFields
  <2>3. TimerSpent(SetState(m, s)) BY <2>1, <2>2, Zenon DEF TimerSpent
  <2> QED BY <1>2, <2>3, SetStateFields
<1> QED BY <1>1, <1>2

\* The state the rows add up to is never Idle again.
LEMMA AggregateTimer ==
  ASSUME NEW m \in Msg, TimerSpent(m)
  PROVE  Aggregate(m) \in Msg /\ TimerSpent(Aggregate(m))
<1> DEFINE s == AggregatedState(m)
<1>1. m.st \in State BY DEF Msg
<1>2. s \in {"NotDelivered", "Displayed", "DeliveredToUser", "Delivered", m.st}
  BY DEF AggregatedState
<1>3. Aggregate(m) = SetState(m, s) BY DEF Aggregate
<1> HIDE DEF s
<1>4. CASE s = m.st BY <1>1, <1>3, <1>4, NoSelfTransition, SetStateRefused
<1>5. CASE s # m.st BY <1>2, <1>3, <1>5, SetStateTimer DEF State
<1> QED BY <1>4, <1>5

\* setParticipantState() of the sender's own row keeps the timer spent.
LEMMA SetMyStateTimer ==
  ASSUME NEW m \in Msg, NEW s \in State, TimerSpent(m),
         s = "Idle" => m.fired = 0 \/ m.auto
  PROVE  SetMyState(m, s) \in Msg /\ TimerSpent(SetMyState(m, s))
<1> DEFINE e == SetRow(m.me, s)
           written == [m EXCEPT !.me = e]
<1>1. e \in State BY DEF Msg, SetRow
<1>2. SetMyState(m, s) \in {m, Aggregate(written), SetState(written, s)} BY DEF SetMyState
<1> HIDE DEF e
<1>3. /\ written \in Msg /\ written.st = m.st /\ written.fired = m.fired
      /\ written.timer = m.timer /\ written.auto = m.auto
  BY <1>1, Zenon DEF Msg
<1> HIDE DEF written
<1>4. TimerSpent(written) /\ (s = "Idle" => written.fired = 0 \/ written.auto)
  BY <1>3, Zenon DEF TimerSpent
<1>5. Aggregate(written) \in Msg /\ TimerSpent(Aggregate(written))
  BY <1>3, <1>4, AggregateTimer
<1>6. SetState(written, s) \in Msg /\ TimerSpent(SetState(written, s))
  BY <1>3, <1>4, SetStateTimer
<1> QED BY <1>2, <1>5, <1>6

\* ... and so does that of the row of a recipient.
LEMMA SetRecipientStateTimer ==
  ASSUME NEW m \in Msg, TimerSpent(m), NEW p \in Recipient,
         NEW s \in {"NotDelivered", "DeliveredToUser", "Displayed"}
  PROVE  TimerSpent(SetRecipientState(m, p, s))
<1> DEFINE x == SetRow(m.rcp[p], s)
           written == [m EXCEPT !.rcp[p] = x]
<1>1. x \in RowState
  <2>1. m.rcp[p] \in RowState /\ s \in RowState BY DEF Msg, RowState
  <2> QED BY <2>1, RowFacts
<1>2. SetRecipientState(m, p, s) \in {m, Aggregate(written)} BY DEF SetRecipientState
<1> HIDE DEF x
<1>3. written \in Msg BY <1>1 DEF Msg
<1>4. /\ written.st = m.st /\ written.fired = m.fired
      /\ written.timer = m.timer /\ written.auto = m.auto
  BY Zenon DEF Msg
<1> HIDE DEF written
<1>5. TimerSpent(written) BY <1>4, Zenon DEF TimerSpent
<1>6. TimerSpent(Aggregate(written)) BY <1>3, <1>5, AggregateTimer
<1> QED BY <1>2, <1>6

\* Sending again goes through Idle.
LEMMA SentTimer ==
  ASSUME NEW m \in Msg, TimerSpent(m), m.fired = 0 \/ m.auto, NEW a \in Attempt
  PROVE  TimerSpent(Sent(m, a))
<1> DEFINE
      started == [m EXCEPT !.stored = TRUE, !.op = TRUE, !.live = @ \cup {a}]
      r == [p \in Recipient |-> Row(m.rcp[p], "Idle")]
      reset == [started EXCEPT !.rcp = r]
      again == SetMyState(reset, "Idle")
<1>1. started \in Msg /\ started.rcp = m.rcp BY DEF Msg
<1>2. /\ started.st = m.st /\ started.fired = m.fired /\ started.timer = m.timer
      /\ started.auto = m.auto
  BY Zenon DEF Msg
<1>3. Sent(m, a) \in {UpdateInDb(again), UpdateInDb(started)} BY <1>1 DEF Sent
<1> HIDE DEF started
<1>4. r \in [Recipient -> RowState]
  <2>1. m.rcp \in [Recipient -> RowState] /\ "Idle" \in RowState BY DEF Msg, RowState
  <2> QED BY <2>1, RowFacts
<1> HIDE DEF r
<1>5. reset \in Msg BY <1>1, <1>4 DEF Msg
<1>6. /\ reset.st = m.st /\ reset.fired = m.fired /\ reset.timer = m.timer
      /\ reset.auto = m.auto
  BY <1>1, <1>2, Zenon DEF Msg
<1> HIDE DEF reset
<1>7. TimerSpent(started) /\ TimerSpent(reset) /\ (reset.fired = 0 \/ reset.auto)
  BY <1>2, <1>6, Zenon DEF TimerSpent
<1>8. again \in Msg /\ TimerSpent(again) BY <1>5, <1>7, SetMyStateTimer DEF State
<1> HIDE DEF again
<1>9. ASSUME NEW n \in Msg, TimerSpent(n) PROVE TimerSpent(UpdateInDb(n))
  BY <1>9, UpdateInDbFields, Zenon DEF TimerSpent
<1> QED BY <1>1, <1>3, <1>7, <1>8, <1>9

\* The message goes out by itself only with its flag set.
LEMMA DispatchTimer ==
  ASSUME NEW m \in Msg, TimerSpent(m), m.fired = 0 \/ m.auto, Dispatch(m)
  PROVE  TimerSpent(msg')
<1>1. ASSUME NEW a \in Attempt, msg' = Sent(m, a) PROVE TimerSpent(msg')
  BY <1>1, SentTimer
<1>2. CASE msg' = Unencryptable(m)
  <2> DEFINE n == [m EXCEPT !.stored = TRUE, !.op = TRUE]
  <2>1. n \in Msg BY DEF Msg
  <2>2. n.st = m.st /\ n.fired = m.fired /\ n.timer = m.timer /\ n.auto = m.auto
    BY Zenon DEF Msg
  <2>3. Unencryptable(m) = SetMyState(n, "NotDelivered") BY DEF Unencryptable
  <2> HIDE DEF n
  <2>4. TimerSpent(n) BY <2>2, Zenon DEF TimerSpent
  <2> QED BY <1>2, <2>1, <2>3, <2>4, SetMyStateTimer DEF State
<1> QED BY <1>1, <1>2 DEF Dispatch

\* ... or waits in the room.
LEMMA PrivateSendTimer ==
  ASSUME NEW m \in Msg, TimerSpent(m), m.fired = 0 \/ m.auto, PrivateSend(m)
  PROVE  TimerSpent(msg')
<1>1. CASE Dispatch(m) BY <1>1, DispatchTimer
<1>2. CASE msg' = [m EXCEPT !.pending = TRUE]
  <2>1. /\ msg'.st = m.st /\ msg'.fired = m.fired /\ msg'.timer = m.timer
        /\ msg'.auto = m.auto
    BY <1>2, Zenon DEF Msg
  <2> QED BY <2>1, Zenon DEF TimerSpent
<1> QED BY <1>1, <1>2 DEF PrivateSend

\* handleAutomaticResend() sets the flag and stops the timer.
LEMMA HandleAutomaticResendTimer ==
  ASSUME NEW m \in Msg, m.fired \in {0, 1}, HandleAutomaticResend(m)
  PROVE  TimerSpent(msg')
<1> DEFINE n == [m EXCEPT !.auto = TRUE, !.timer = FALSE]
<1>1. n \in Msg BY DEF Msg
<1>2. n.fired = m.fired /\ n.timer = FALSE /\ n.auto = TRUE BY Zenon DEF Msg
<1>3. PrivateSend(n) \/ msg' = n BY DEF HandleAutomaticResend
<1> HIDE DEF n
<1>4. TimerSpent(n) /\ n.auto BY <1>2, Zenon DEF TimerSpent
<1> QED BY <1>1, <1>3, <1>4, PrivateSendTimer

\* The timer has not fired in the beginning.
LEMMA TimerInit == Init => TimerSpent(msg)
BY DEF Init, TimerSpent

\* No step lets the timer fire a second time.
LEMMA TimerNext == IInv /\ TimerSpent(msg) /\ [Next]_vars => TimerSpent(msg')
<1> SUFFICES ASSUME IInv, TimerSpent(msg), [Next]_vars PROVE TimerSpent(msg') OBVIOUS
<1>1. msg \in Msg BY DEF IInv, Good
<1>2. CASE Send
  <2> DEFINE m == [msg EXCEPT !.fired = 0]
  <2>1. m \in Msg /\ m.fired = 0 BY <1>1 DEF Msg
  <2>2. PrivateSend(m) BY <1>2 DEF Send
  <2> HIDE DEF m
  <2> QED BY <2>1, <2>2, PrivateSendTimer DEF TimerSpent
<1>3. CASE ResendTimerExpired
  <2> DEFINE m == [msg EXCEPT !.fired = @ + 1]
  <2>1. msg.fired = 0 BY <1>3, Zenon DEF ResendTimerExpired, TimerSpent
  <2>2. m \in Msg /\ m.fired = 1 BY <1>1, <2>1 DEF Msg
  <2>3. HandleAutomaticResend(m) BY <1>3 DEF ResendTimerExpired
  <2> HIDE DEF m
  <2> QED BY <2>2, <2>3, HandleAutomaticResendTimer
<1>4. CASE OnRegistered
  <2>1. msg.fired \in {0, 1} BY Zenon DEF TimerSpent
  <2> QED BY <1>1, <1>4, <2>1, HandleAutomaticResendTimer DEF OnRegistered
<1>5. CASE NotifyReceived
  <2> DEFINE m == [msg EXCEPT !.pending = FALSE, !.fired = 0]
  <2>1. m \in Msg /\ m.fired = 0 BY <1>1 DEF Msg
  <2>2. Dispatch(m) \/ msg' = msg BY <1>5 DEF NotifyReceived
  <2> HIDE DEF m
  <2> QED BY <2>1, <2>2, DispatchTimer DEF TimerSpent
<1>6. CASE Crash
  <2> DEFINE s == IF msg.dbst = "Idle" THEN "NotDelivered" ELSE msg.dbst
  <2>1. s # "Idle" OBVIOUS
  <2>2. msg' = [msg EXCEPT !.st = s, !.op = FALSE, !.live = {}, !.auto = FALSE,
                           !.timer = FALSE, !.listening = FALSE, !.pending = FALSE]
    BY <1>6 DEF Crash, Loaded
  <2> HIDE DEF s
  <2>3. msg'.st = s /\ msg'.fired = msg.fired /\ msg'.timer = FALSE
    BY <1>1, <2>2, Zenon DEF Msg
  <2> QED BY <2>1, <2>3, Zenon DEF TimerSpent
<1>7. ASSUME NEW a \in Attempt, NEW final \in BOOLEAN,
             NEW s \in {"InProgress", "Delivered", "NotDelivered", "PendingDelivery"},
             Update(a, s, final)
      PROVE  TimerSpent(msg')
  <2> DEFINE m == IF final THEN [msg EXCEPT !.live = @ \ {a}] ELSE msg
  <2>1. m \in Msg BY <1>1 DEF Msg
  <2>2. m.st = msg.st /\ m.fired = msg.fired /\ m.timer = msg.timer /\ m.auto = msg.auto
    BY <1>1, Zenon DEF Msg
  <2>3. msg' = SetMyState(m, s) BY <1>7 DEF Update
  <2> HIDE DEF m
  <2>4. TimerSpent(m) BY <2>2, Zenon DEF TimerSpent
  <2> QED BY <2>1, <2>3, <2>4, SetMyStateTimer DEF State
<1>8. ASSUME NEW a \in Attempt,
             \/ OnProvisional(a) \/ OnAccepted(a) \/ OnRefused(a) \/ OnTimeout(a)
             \/ OnIoError(a)
      PROVE  TimerSpent(msg')
  BY <1>7, <1>8 DEF OnProvisional, OnAccepted, OnRefused, OnTimeout, OnIoError
<1>9. ASSUME NEW p \in Recipient, NEW k \in ImdnKind, OnImdn(p, k) PROVE TimerSpent(msg')
  <2>1. StateOfKind[k] \in {"NotDelivered", "DeliveredToUser", "Displayed"}
    BY DEF StateOfKind, ImdnKind
  <2>2. msg' = SetRecipientState(msg, p, StateOfKind[k]) BY <1>9 DEF OnImdn
  <2> QED BY <1>1, <2>1, <2>2, SetRecipientStateTimer
<1>10. ASSUME \/ Subscribe \/ SubscribeError \/ UNCHANGED vars
              \/ \E a \in Attempt : ServerAccepts(a) \/ ServerRefuses(a)
              \/ \E p \in Recipient :
                   Receives(p) \/ CannotDecrypt(p) \/ Displays(p) \/ NotifiesAgain(p)
       PROVE  TimerSpent(msg')
  <2>1. msg' = msg
    BY <1>10 DEF Subscribe, SubscribeError, vars, ServerAccepts, ServerRefuses, Receives,
       CannotDecrypt, Displays, NotifiesAgain
  <2> QED BY <2>1
<1> QED BY <1>2, <1>3, <1>4, <1>5, <1>6, <1>8, <1>9, <1>10 DEF Next

\* The resend timer fires at most once until the application sends the message again
\* or the room sends one that waited.
THEOREM ResendsEnd == Spec => []NoResendLoop
<1>1. TimerSpent(msg) => NoResendLoop
  <2>1. TimerSpent(msg) => msg.fired \in {0, 1} BY Zenon DEF TimerSpent
  <2> QED BY <2>1 DEF NoResendLoop
<1>2. IInv /\ TimerSpent(msg) /\ [Next]_vars => TimerSpent(msg)'
  BY TimerNext
<1> QED BY <1>1, <1>2, TimerInit, IInvHolds, PTL DEF Spec
=============================================================================
