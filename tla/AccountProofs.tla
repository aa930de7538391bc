---------------------------- MODULE AccountProofs ----------------------------
(***************************************************************************)
(* Proofs about module Account: its types, and that the registration state *)
(* tells what the registrar holds, for any number of faults, outages and   *)
(* requests.                                                               *)
(*                                                                         *)
(* First the methods, from the small ones up: what each one does to the    *)
(* record; then the invariant, action by action.                           *)
(***************************************************************************)
EXTENDS Account, TLAPS

(* What the state of the account says about the binding b once nothing is   *)
(* under way: the body of StateTellsBinding.                                *)
Tells(a, b) ==
    ~a.running /\ a.auth = "none" =>
       (a.state = "Ok" => b) /\ (a.state = "Cleared" => ~b)

(* c has the operation of a, and belongs to the same list. *)
SameOp(a, c) ==
    /\ c.op = a.op /\ c.target = a.target /\ c.running = a.running
    /\ c.armed = a.armed /\ c.auth = a.auth
    /\ c.enabled = a.enabled /\ c.timer = a.timer

(* An answer "ok" that has not arrived yet tells what the registrar did. *)
AnswerTellsBinding == answer = "ok" => bound = (acc.target = "reg")

(* The inductive invariant. *)
RegInv == TypeOK /\ AnswerTellsBinding /\ StateTellsBinding
-----------------------------------------------------------------------------
(* The methods. *)

\* Posting update() changes nothing else (triggerUpdate()).
LEMMA TriggerUpdateFacts ==
  ASSUME NEW a, WellFormed(a)
  PROVE  /\ WellFormed(TriggerUpdate(a)) /\ SameOp(a, TriggerUpdate(a))
         /\ TriggerUpdate(a).state = a.state
<1>1. TriggerUpdate(a) \in Account BY Zenon DEF TriggerUpdate, Account, WellFormed
<1>2. a \in Account BY DEF WellFormed
<1>3. /\ SameOp(a, TriggerUpdate(a)) /\ TriggerUpdate(a).state = a.state
  BY <1>2, Zenon DEF TriggerUpdate, Account, SameOp
<1> QED BY <1>1, <1>3, Zenon DEF WellFormed, SameOp

\* Asking for a registration changes only the flag and the posted task
\* (setNeedToRegister()).
LEMMA SetNeedFacts ==
  ASSUME NEW a, WellFormed(a)
  PROVE  /\ WellFormed(SetNeedToRegister(a)) /\ SameOp(a, SetNeedToRegister(a))
         /\ SetNeedToRegister(a).state = a.state
<1> DEFINE c == [a EXCEPT !.need = TRUE]
<1>1. a \in Account BY DEF WellFormed
<1>2. c \in Account BY <1>1, Zenon DEF Account
<1>3. SameOp(a, c) /\ c.state = a.state BY <1>1, Zenon DEF Account, SameOp
<1>4. WellFormed(c) BY <1>2, <1>3, Zenon DEF WellFormed, SameOp
<1> HIDE DEF c
<1>5. /\ WellFormed(TriggerUpdate(c)) /\ SameOp(c, TriggerUpdate(c))
      /\ TriggerUpdate(c).state = c.state
  BY <1>4, TriggerUpdateFacts
<1>6. SetNeedToRegister(a) = TriggerUpdate(c) BY DEF SetNeedToRegister, c
<1> QED BY <1>3, <1>5, <1>6, Zenon DEF SameOp

\* A released operation is gone with its transaction (SalOp::release()).
LEMMA ReleasedFacts ==
  ASSUME NEW a, WellFormed(a)
  PROVE  /\ WellFormed(Released(a)) /\ Released(a).state = a.state
         /\ ~Released(a).running /\ Released(a).op = "none"
         /\ Released(a).enabled = a.enabled /\ Released(a).timer = a.timer
         /\ Released(a).auth = "none" /\ ~Released(a).armed
<1>1. a \in Account BY DEF WellFormed
<1>2. Released(a) \in Account BY <1>1, Zenon DEF Released, Account
<1>3. /\ Released(a).state = a.state /\ ~Released(a).running
      /\ Released(a).op = "none" /\ Released(a).enabled = a.enabled
      /\ Released(a).timer = a.timer /\ Released(a).auth = "none"
      /\ ~Released(a).armed
  BY <1>1, Zenon DEF Released, Account
<1> QED BY <1>2, <1>3, Zenon DEF WellFormed

\* A request of the refresher (belle_sip_refresher_refresh()).
LEMMA LaunchFacts ==
  ASSUME NEW a, WellFormed(a), a.op = "live", NEW k \in Kinds
  PROVE  /\ WellFormed(Launch(a, k)) /\ Launch(a, k).running
         /\ Launch(a, k).state = a.state /\ Launch(a, k).op = "live"
         /\ Launch(a, k).enabled = a.enabled /\ Launch(a, k).timer = a.timer
<1>1. a \in Account BY DEF WellFormed
<1>2. (k = "reg") \in BOOLEAN OBVIOUS
<1>3. Launch(a, k) \in Account BY <1>1, <1>2, Zenon DEF Launch, Account
<1>4. /\ Launch(a, k).running /\ Launch(a, k).state = a.state
      /\ Launch(a, k).op = a.op /\ Launch(a, k).target = k
      /\ Launch(a, k).armed = (k = "reg")
      /\ Launch(a, k).enabled = a.enabled /\ Launch(a, k).timer = a.timer
  BY <1>1, Zenon DEF Launch, Account
<1> QED BY <1>3, <1>4, Zenon DEF WellFormed

\* Unregistering launches a transaction or leaves the operation alone
\* (unregister()).
LEMMA UnregisterFacts ==
  ASSUME NEW a, WellFormed(a)
  PROVE  /\ WellFormed(Unregister(a)) /\ Unregister(a).state = a.state
         /\ Unregister(a).enabled = a.enabled /\ Unregister(a).timer = a.timer
         /\ \/ Unregister(a).running
            \/ SameOp(a, Unregister(a))
<1> DEFINE l == IF a.op = "live" THEN Launch(a, "unreg") ELSE a
           c == [l EXCEPT !.unregistering = TRUE]
<1>1. WellFormed(l) /\ l.state = a.state /\ l.enabled = a.enabled /\ l.timer = a.timer
  BY LaunchFacts, Zenon DEF Kinds
<1>2. l.running \/ l = a BY LaunchFacts, Zenon DEF Kinds
<1> HIDE DEF l
<1>3. l \in Account BY <1>1 DEF WellFormed
<1>4. c \in Account BY <1>3, Zenon DEF Account
<1>5. SameOp(l, c) /\ c.state = l.state BY <1>3, Zenon DEF Account, SameOp
<1>6. WellFormed(c) BY <1>1, <1>4, <1>5, Zenon DEF WellFormed, SameOp
<1>7. c.running \/ SameOp(a, c) BY <1>2, <1>5, Zenon DEF SameOp
<1>8. Unregister(a) = IF a.op # "none" /\ a.state \in {"Ok", "Failed"} THEN c ELSE a
  BY DEF Unregister, c, l
<1>9. SameOp(a, a) BY DEF SameOp
<1> HIDE DEF c
<1> QED BY <1>1, <1>5, <1>6, <1>7, <1>8, <1>9, Zenon DEF SameOp

\* Without a session to end unregister() does nothing.
LEMMA UnregisterIdle ==
  ASSUME NEW a, a.state \notin {"Ok", "Failed"}
  PROVE  Unregister(a) = a
BY DEF Unregister

\* The assignments of setState().
LEMMA MoveFacts ==
  ASSUME NEW a, WellFormed(a), NEW s \in States
  PROVE  WellFormed(Move(a, s)) /\ SameOp(a, Move(a, s)) /\ Move(a, s).state = s
<1> DEFINE c == [a EXCEPT !.unregistering = FALSE, !.prev = a.state, !.state = s]
<1>1. a \in Account BY DEF WellFormed
<1>2. c \in Account BY <1>1, Zenon DEF Account
<1>3. SameOp(a, c) /\ c.state = s BY <1>1, Zenon DEF Account, SameOp
<1>4. WellFormed(c) BY <1>2, <1>3, Zenon DEF WellFormed, SameOp
<1> HIDE DEF c
<1>5. /\ WellFormed(TriggerUpdate(c)) /\ SameOp(c, TriggerUpdate(c))
      /\ TriggerUpdate(c).state = c.state
  BY <1>4, TriggerUpdateFacts
<1>6. Move(a, s) = TriggerUpdate(c) BY DEF Move, c
<1> QED BY <1>3, <1>5, <1>6, Zenon DEF SameOp

\* handleDeletion() keeps what is told about the binding, or removes the account.
LEMMA HandleDeletionFacts ==
  ASSUME NEW a, WellFormed(a), NEW b, Tells(a, b)
  PROVE  /\ WellFormed(HandleDeletion(a))
         /\ HandleDeletion(a).enabled = a.enabled
         /\ \/ /\ HandleDeletion(a).timer = a.timer
               /\ Tells(HandleDeletion(a), b)
            \/ /\ a.state = "Cleared" /\ HandleDeletion(a).timer = "off"
               /\ HandleDeletion(a).op = "none"
<1>1. CASE a.state = "Ok"
  <2>1. HandleDeletion(a) = Unregister(a) BY <1>1 DEF HandleDeletion
  <2>2. Tells(Unregister(a), b) BY UnregisterFacts, Zenon DEF Tells, SameOp
  <2> QED BY <2>1, <2>2, UnregisterFacts, Zenon
<1>2. CASE a.state = "Cleared"
  <2> DEFINE c == [a EXCEPT !.timer = "off"]
  <2>1. a \in Account BY DEF WellFormed
  <2>2. c \in Account BY <2>1, Zenon DEF Account
  <2>3. /\ c.op = a.op /\ c.target = a.target /\ c.running = a.running
        /\ c.armed = a.armed /\ c.auth = a.auth /\ c.enabled = a.enabled
        /\ c.timer = "off"
    BY <2>1, Zenon DEF Account
  <2>4. WellFormed(c) BY <2>2, <2>3, Zenon DEF WellFormed
  <2>5. HandleDeletion(a) = Released(c) BY <1>2 DEF HandleDeletion, RemoveDeleted
  <2> HIDE DEF c
  <2> QED BY <1>2, <2>3, <2>4, <2>5, ReleasedFacts, Zenon
<1>3. CASE a.state = "None"
  <2>1. HandleDeletion(a) = a BY <1>3 DEF HandleDeletion
  <2> QED BY <2>1, Zenon
<1>4. CASE a.state \notin {"Ok", "Cleared", "None"}
  <2>1. HandleDeletion(a) = Move(a, "None") BY <1>4 DEF HandleDeletion
  <2>2. WellFormed(Move(a, "None")) /\ SameOp(a, Move(a, "None"))
        /\ Move(a, "None").state = "None"
    BY MoveFacts DEF States
  <2>3. Tells(Move(a, "None"), b) BY <2>2 DEF Tells
  <2> QED BY <2>1, <2>2, <2>3, Zenon DEF SameOp
<1> QED BY <1>1, <1>2, <1>3, <1>4, Zenon

\* setState(): a new state that is true of the binding b is told, or the account
\* is removed.
LEMMA SetStateFacts ==
  ASSUME NEW a, WellFormed(a), NEW b, NEW s \in States,
         s = "Ok" => b, s = "Cleared" => ~b
  PROVE  /\ WellFormed(SetState(a, s))
         /\ SetState(a, s).enabled = a.enabled
         /\ \/ SetState(a, s).timer = a.timer /\ Tells(SetState(a, s), b)
            \/ /\ s = "Cleared" /\ SetState(a, s).timer = "off"
               /\ SetState(a, s).op = "none" /\ a.timer # "off"
<1>1. CASE a.state = s /\ s # "Ok"
  <2>1. SetState(a, s) = a BY <1>1 DEF SetState
  <2>2. Tells(a, b) BY <1>1, Zenon DEF Tells
  <2> QED BY <2>1, <2>2, Zenon
<1>2. CASE ~(a.state = s /\ s # "Ok")
  <2>1. WellFormed(Move(a, s)) /\ SameOp(a, Move(a, s)) /\ Move(a, s).state = s
    BY MoveFacts
  <2>2. Tells(Move(a, s), b) BY <2>1, Zenon DEF Tells
  <2>3. SetState(a, s) = IF DeletionPending(Move(a, s)) THEN HandleDeletion(Move(a, s))
                         ELSE Move(a, s)
    BY <1>2 DEF SetState
  <2>4. /\ WellFormed(HandleDeletion(Move(a, s)))
        /\ HandleDeletion(Move(a, s)).enabled = Move(a, s).enabled
        /\ \/ /\ HandleDeletion(Move(a, s)).timer = Move(a, s).timer
              /\ Tells(HandleDeletion(Move(a, s)), b)
           \/ /\ Move(a, s).state = "Cleared" /\ HandleDeletion(Move(a, s)).timer = "off"
              /\ HandleDeletion(Move(a, s)).op = "none"
    BY <2>1, <2>2, HandleDeletionFacts
  <2> QED BY <2>1, <2>2, <2>3, <2>4, Zenon DEF SameOp, DeletionPending
<1> QED BY <1>1, <1>2

\* While no deletion is pending setState() leaves the operation alone.
LEMMA SetStatePlain ==
  ASSUME NEW a, WellFormed(a), NEW s \in States, a.timer = "off"
  PROVE  SameOp(a, SetState(a, s))
<1>1. SameOp(a, a) BY DEF SameOp
<1>2. WellFormed(Move(a, s)) /\ SameOp(a, Move(a, s)) BY MoveFacts
<1>3. ~DeletionPending(Move(a, s)) BY <1>2 DEF SameOp, DeletionPending
<1> QED BY <1>1, <1>2, <1>3 DEF SetState

\* registerAccount() of an enabled account: a REGISTER is under way or the state
\* is Failed.
LEMMA RegisterFacts ==
  ASSUME NEW a, WellFormed(a), NEW b, Tells(a, b), NEW sent
  PROVE  /\ WellFormed(RegisterAccount(a, sent))
         /\ RegisterAccount(a, sent).enabled = a.enabled
         /\ RegisterAccount(a, sent).timer = a.timer
         /\ Tells(RegisterAccount(a, sent), b)
<1> DEFINE r == Released(a)
           live == [r EXCEPT !.op = "live"]
           bare == [r EXCEPT !.op = "bare"]
<1>1. WellFormed(r) /\ ~r.running /\ ~r.armed /\ r.auth = "none"
      /\ r.enabled = a.enabled /\ r.timer = a.timer
  BY ReleasedFacts, Zenon
<1> HIDE DEF r
<1>2. r \in Account BY <1>1 DEF WellFormed
<1>3. /\ live \in Account /\ live.op = "live" /\ live.enabled = a.enabled
      /\ live.timer = a.timer /\ ~live.armed
  BY <1>1, <1>2, Zenon DEF Account
<1>4. WellFormed(live) BY <1>3, Zenon DEF WellFormed
<1>5. /\ bare \in Account /\ bare.enabled = a.enabled /\ bare.timer = a.timer
      /\ ~bare.running /\ ~bare.armed /\ bare.auth = "none"
  BY <1>1, <1>2, Zenon DEF Account
<1>6. WellFormed(bare) BY <1>5, Zenon DEF WellFormed
<1> HIDE DEF live, bare
<1>7. CASE ~a.enabled
  <2>1. RegisterAccount(a, sent) = Unregister(a) BY <1>7 DEF RegisterAccount
  <2>2. Tells(Unregister(a), b) BY UnregisterFacts, Zenon DEF Tells, SameOp
  <2> QED BY <2>1, <2>2, UnregisterFacts, Zenon
<1>8. CASE a.enabled /\ sent
  <2> DEFINE l == Launch(live, "reg")
  <2>1. WellFormed(l) /\ l.enabled = a.enabled /\ l.timer = a.timer
    BY <1>3, <1>4, LaunchFacts, Zenon DEF Kinds
  <2>2. RegisterAccount(a, sent) = SetState(l, "Progress")
    BY <1>8 DEF RegisterAccount, live, r
  <2> HIDE DEF l
  <2>3. /\ WellFormed(SetState(l, "Progress"))
        /\ SetState(l, "Progress").enabled = l.enabled
        /\ \/ SetState(l, "Progress").timer = l.timer /\ Tells(SetState(l, "Progress"), b)
           \/ "Progress" = "Cleared" /\ SetState(l, "Progress").timer = "off"
    BY <2>1, SetStateFacts DEF States
  <2> QED BY <2>1, <2>2, <2>3
<1>9. CASE a.enabled /\ ~sent
  <2>1. RegisterAccount(a, sent) = SetState(bare, "Failed")
    BY <1>9 DEF RegisterAccount, bare, r
  <2>2. /\ WellFormed(SetState(bare, "Failed"))
        /\ SetState(bare, "Failed").enabled = bare.enabled
        /\ \/ SetState(bare, "Failed").timer = bare.timer /\ Tells(SetState(bare, "Failed"), b)
           \/ "Failed" = "Cleared" /\ SetState(bare, "Failed").timer = "off"
    BY <1>6, SetStateFacts DEF States
  <2> QED BY <1>5, <2>1, <2>2
<1> QED BY <1>7, <1>8, <1>9

\* register_success(): the state says what the registrar did, or the account is
\* removed.
LEMMA SucceededFacts ==
  ASSUME NEW a, WellFormed(a), NEW b, b = (a.target = "reg")
  PROVE  /\ WellFormed(Succeeded(a)) /\ Succeeded(a).enabled = a.enabled
         /\ \/ Succeeded(a).timer = a.timer /\ Tells(Succeeded(a), b)
            \/ Succeeded(a).timer = "off" /\ Succeeded(a).op = "none" /\ a.timer # "off"
<1> DEFINE d == [a EXCEPT !.running = FALSE, !.auth = "none"]
           f == IF d.prev = "Ok" THEN SetState(d, "Refreshing") ELSE d
<1>1. a \in Account BY DEF WellFormed
<1>2. /\ d \in Account /\ ~d.running /\ d.auth = "none" /\ d.op = a.op
      /\ d.armed = a.armed /\ d.target = a.target /\ d.enabled = a.enabled
      /\ d.timer = a.timer
  BY <1>1, Zenon DEF Account
<1>3. WellFormed(d) BY <1>2, Zenon DEF WellFormed
<1> HIDE DEF d
<1>4. /\ WellFormed(SetState(d, "Refreshing"))
      /\ SetState(d, "Refreshing").enabled = d.enabled
      /\ \/ /\ SetState(d, "Refreshing").timer = d.timer
            /\ Tells(SetState(d, "Refreshing"), b)
         \/ "Refreshing" = "Cleared" /\ SetState(d, "Refreshing").timer = "off"
  BY <1>3, SetStateFacts DEF States
<1>5. WellFormed(f) /\ f.enabled = a.enabled /\ f.timer = a.timer
  BY <1>2, <1>3, <1>4
<1>6. Succeeded(a) = IF a.target = "reg" THEN SetState(f, "Ok") ELSE SetState(d, "Cleared")
  BY DEF Succeeded, d
<1> HIDE DEF f
<1>7. CASE a.target = "reg"
  <2>1. /\ WellFormed(SetState(f, "Ok")) /\ SetState(f, "Ok").enabled = f.enabled
        /\ \/ SetState(f, "Ok").timer = f.timer /\ Tells(SetState(f, "Ok"), b)
           \/ "Ok" = "Cleared" /\ SetState(f, "Ok").timer = "off"
    BY <1>5, <1>7, SetStateFacts DEF States
  <2> QED BY <1>5, <1>6, <1>7, <2>1
<1>8. CASE a.target # "reg"
  <2>1. /\ WellFormed(SetState(d, "Cleared")) /\ SetState(d, "Cleared").enabled = d.enabled
        /\ \/ SetState(d, "Cleared").timer = d.timer /\ Tells(SetState(d, "Cleared"), b)
           \/ /\ "Cleared" = "Cleared" /\ SetState(d, "Cleared").timer = "off"
              /\ SetState(d, "Cleared").op = "none" /\ d.timer # "off"
    BY <1>3, <1>8, SetStateFacts DEF States
  <2> QED BY <1>2, <1>6, <1>8, <2>1
<1> QED BY <1>7, <1>8

\* register_failure(): the account does not claim to be registered or
\* unregistered, or it waits for credentials.
LEMMA FailedFacts ==
  ASSUME NEW a, WellFormed(a), NEW b, NEW e \in Errors,
         e = "challenged" => a.op = "live"
  PROVE  /\ WellFormed(Failed(a, e)) /\ Failed(a, e).enabled = a.enabled
         /\ Failed(a, e).timer = a.timer /\ Tells(Failed(a, e), b)
<1> DEFINE d == [a EXCEPT !.running = FALSE,
                          !.armed = @ /\ e \notin {"refused", "challenged"}]
           c == [d EXCEPT !.auth = "asked"]
           s == IF a.unregistering THEN "None" ELSE "Failed"
<1>1. a \in Account BY DEF WellFormed
<1>2. (a.armed /\ e \notin {"refused", "challenged"}) \in BOOLEAN OBVIOUS
<1>3. /\ d \in Account /\ ~d.running /\ d.auth = a.auth /\ d.op = a.op
      /\ d.armed = (a.armed /\ e \notin {"refused", "challenged"})
      /\ d.target = a.target /\ d.enabled = a.enabled /\ d.timer = a.timer
  BY <1>1, <1>2, Zenon DEF Account
<1>4. WellFormed(d) BY <1>3, Zenon DEF WellFormed
<1>5. Failed(a, e) = IF e \in {"ioerror", "unavailable"} /\ a.state = "Ok"
                     THEN SetState(d, "Progress")
                     ELSE IF e = "challenged" THEN c ELSE SetState(d, s)
  BY DEF Failed
<1> HIDE DEF d
<1>6. /\ c \in Account /\ ~c.running /\ c.auth = "asked" /\ c.op = a.op
      /\ c.armed = d.armed /\ c.target = a.target /\ c.enabled = a.enabled
      /\ c.timer = a.timer
  BY <1>3, Zenon DEF Account
<1>7. e = "challenged" => WellFormed(c) /\ Tells(c, b)
  BY <1>4, <1>3, <1>6, Zenon DEF WellFormed, Tells
<1>8. \A t \in {"Progress", "None", "Failed"} :
        /\ WellFormed(SetState(d, t)) /\ SetState(d, t).enabled = d.enabled
        /\ SetState(d, t).timer = d.timer /\ Tells(SetState(d, t), b)
  <2> TAKE t \in {"Progress", "None", "Failed"}
  <2>1. t \in States /\ t # "Ok" /\ t # "Cleared" BY DEF States
  <2>2. /\ WellFormed(SetState(d, t)) /\ SetState(d, t).enabled = d.enabled
        /\ \/ SetState(d, t).timer = d.timer /\ Tells(SetState(d, t), b)
           \/ t = "Cleared" /\ SetState(d, t).timer = "off"
    BY <1>4, <2>1, SetStateFacts
  <2> QED BY <2>1, <2>2
<1>9. s \in {"Progress", "None", "Failed"} OBVIOUS
<1> HIDE DEF c, s
<1> QED BY <1>3, <1>5, <1>6, <1>7, <1>8, <1>9
-----------------------------------------------------------------------------
(* The invariant. *)

Bounded ==
    /\ faults \in 0..MaxFaults /\ outages \in 0..MaxOutages
    /\ requests \in 0..MaxRequests

\* An event that leaves the account in the state a keeps the invariant if a is
\* well-formed, belongs to the same list (or leaves the deleted ones) and tells
\* the truth about the binding.
LEMMA BecomesInv ==
  ASSUME RegInv, NEW a, WellFormed(a), NEW k \in BOOLEAN, Becomes(a, k),
         a.timer = acc.timer \/ (where = "deleted" /\ a.timer # "armed"),
         a.enabled = acc.enabled \/ where = "in",
         k => a.running = acc.running /\ a.target = acc.target,
         bound' = bound, netUp' \in BOOLEAN, Bounded',
         core' \in {"On", "Shutdown"}, core \in {"On", "Shutdown"},
         where' = "gone" => a.op = "none", where' # "gone" => Tells(a, bound)
  PROVE  RegInv'
<1>1. TypeOK BY DEF RegInv
<1>2. acc' = a /\ WellFormed(acc') BY DEF Becomes
<1>3. where' \in {"in", "deleted", "gone"} BY <1>1 DEF TypeOK, Becomes
<1>4. answer' \in {"none", "ok"} \cup Errors BY <1>1 DEF TypeOK, Becomes
<1>5. answer' # "none" => acc'.running BY <1>1, <1>2, Zenon DEF TypeOK, Becomes
<1>6. where' = "in" => acc'.timer = "off"
  <2>1. where' = "in" => where = "in" BY DEF Becomes
  <2>2. where = "in" => acc.timer = "off" BY <1>1 DEF TypeOK
  <2> QED BY <1>2, <2>1, <2>2
<1>7. (acc'.timer = "armed") = (where' = "deleted" /\ core' # "Off")
  BY <1>1, <1>2 DEF TypeOK, Becomes
<1>8. where' # "in" => ~acc'.enabled BY <1>1, <1>2, Zenon DEF TypeOK, Becomes
<1>9. where' = "gone" \/ core' = "Off" => acc'.op = "none" BY <1>2
<1>10. TypeOK'
  BY <1>1, <1>2, <1>3, <1>4, <1>5, <1>6, <1>7, <1>8, <1>9 DEF TypeOK, Bounded
<1>11. AnswerTellsBinding'
  BY <1>2 DEF RegInv, AnswerTellsBinding, Becomes
<1>12. StateTellsBinding' BY <1>2, Zenon DEF StateTellsBinding, Tells
<1> QED BY <1>10, <1>11, <1>12 DEF RegInv

\* What the actions need of the invariant.
LEMMA RegInvFacts ==
  ASSUME RegInv
  PROVE  /\ WellFormed(acc) /\ Bounded /\ netUp \in BOOLEAN
         /\ core \in {"On", "Shutdown", "Off"} /\ where \in {"in", "deleted", "gone"}
         /\ where = "in" => acc.timer = "off"
         /\ core # "Off" => (acc.timer = "armed") = (where = "deleted")
         /\ where # "in" => ~acc.enabled
         /\ where = "gone" \/ core = "Off" => acc.op = "none" /\ ~acc.running
                                              /\ ~acc.armed /\ acc.auth = "none"
         /\ where # "gone" /\ core # "Off" => Tells(acc, bound)
<1>1. TypeOK BY DEF RegInv
<1>2. WellFormed(acc) BY <1>1 DEF TypeOK
<1>3. acc.op = "none" => ~acc.running /\ ~acc.armed /\ acc.auth = "none"
  BY <1>2, Zenon DEF WellFormed
<1>4. where # "gone" /\ core # "Off" => Tells(acc, bound)
  BY Zenon DEF RegInv, StateTellsBinding, Tells
<1> QED BY <1>1, <1>2, <1>3, <1>4 DEF TypeOK, Bounded

\* A posted update() keeps the invariant.
LEMMA UpdateInv == RegInv /\ Update => RegInv'
<1> SUFFICES ASSUME RegInv, Update PROVE RegInv' OBVIOUS
<1> DEFINE a == [acc EXCEPT !.posted = FALSE]
<1>1. WellFormed(acc) /\ core \in {"On", "Shutdown"} /\ netUp \in BOOLEAN /\ Bounded
  BY RegInvFacts DEF Update
<1>2. acc \in Account BY <1>1 DEF WellFormed
<1>3. a \in Account /\ SameOp(acc, a) /\ a.state = acc.state
  BY <1>2, Zenon DEF Account, SameOp
<1>4. WellFormed(a) BY <1>1, <1>3, Zenon DEF WellFormed, SameOp
<1>5. where # "gone" => Tells(a, bound)
  BY <1>1, <1>3, RegInvFacts, Zenon DEF Tells, SameOp
<1>6. where = "gone" => a.op = "none" /\ ~a.enabled BY <1>3, RegInvFacts DEF SameOp
<1>7. /\ bound' = bound /\ netUp' \in BOOLEAN /\ core' \in {"On", "Shutdown"}
      /\ Bounded'
  BY <1>1 DEF Update, Bounded
<1>8. where = "deleted" => a.timer = "armed" BY <1>1, <1>3, RegInvFacts DEF SameOp
<1> HIDE DEF a
<1>9. CASE core = "On" /\ a.need /\ CanRegister(a)
  <2>1. PICK sent \in BOOLEAN :
          Becomes([RegisterAccount(a, sent) EXCEPT !.need = FALSE],
                  ~a.enabled /\ a.state \notin {"Ok", "Failed"})
    BY <1>9 DEF Update, a
  <2> DEFINE r == RegisterAccount(a, sent)
             c == [r EXCEPT !.need = FALSE]
             k == ~a.enabled /\ a.state \notin {"Ok", "Failed"}
  <2>2. where = "gone" => r = a
    BY <1>6 DEF RegisterAccount, Unregister
  <2>3. k => r = a BY UnregisterIdle DEF RegisterAccount
  <2>4. /\ WellFormed(r) /\ r.enabled = a.enabled /\ r.timer = a.timer
        /\ where # "gone" => Tells(r, bound)
    <3>1. CASE where = "gone" BY <1>4, <2>2, <3>1
    <3>2. CASE where # "gone" BY <1>4, <1>5, <3>2, RegisterFacts
    <3> QED BY <3>1, <3>2
  <2> HIDE DEF r
  <2>5. r \in Account BY <2>4 DEF WellFormed
  <2>6. c \in Account /\ SameOp(r, c) /\ c.state = r.state
    BY <2>5, Zenon DEF Account, SameOp
  <2>7. WellFormed(c) BY <2>4, <2>6, Zenon DEF WellFormed, SameOp
  <2>8. where # "gone" => Tells(c, bound) BY <2>4, <2>6, Zenon DEF Tells, SameOp
  <2>9. Becomes(c, k) BY <2>1 DEF r
  <2>10. k \in BOOLEAN OBVIOUS
  <2>11. k => c.running = acc.running /\ c.target = acc.target
    BY <1>3, <2>3, <2>6 DEF SameOp
  <2>12. c.timer = acc.timer /\ c.enabled = acc.enabled BY <1>3, <2>4, <2>6 DEF SameOp
  <2> HIDE DEF c, k
  <2>13. where' = where BY <1>3, <1>8, <2>9, <2>12 DEF Becomes, SameOp
  <2>14. where' = "gone" => c.op = "none" BY <1>6, <2>2, <2>6, <2>13 DEF SameOp
  <2>15. where' # "gone" => Tells(c, bound) BY <2>8, <2>13
  <2> QED BY <1>1, <1>7, <2>7, <2>9, <2>10, <2>11, <2>12, <2>14, <2>15, BecomesInv
<1>10. CASE ~(core = "On" /\ a.need /\ CanRegister(a))
  <2>1. Becomes(a, TRUE) BY <1>10 DEF Update, a
  <2>2. where' = where BY <1>8, <2>1 DEF Becomes
  <2>3. a.timer = acc.timer /\ a.enabled = acc.enabled /\ a.running = acc.running
        /\ a.target = acc.target
    BY <1>3 DEF SameOp
  <2> QED BY <1>1, <1>4, <1>5, <1>6, <1>7, <2>1, <2>2, <2>3, BecomesInv
<1> QED BY <1>9, <1>10

\* A change of the parameters keeps the invariant.
LEMMA SetAccountParamsInv ==
  RegInv /\ (\E e \in BOOLEAN : SetAccountParams(e)) => RegInv'
<1> SUFFICES ASSUME RegInv, NEW e \in BOOLEAN, SetAccountParams(e) PROVE RegInv'
  OBVIOUS
<1> DEFINE c == [acc EXCEPT !.enabled = e]
           d == SetNeedToRegister(c)
<1>1. WellFormed(acc) /\ core = "On" /\ where = "in" /\ netUp \in BOOLEAN
      /\ Bounded /\ Tells(acc, bound)
  BY RegInvFacts DEF SetAccountParams
<1>2. acc \in Account BY <1>1 DEF WellFormed
<1>3. /\ c \in Account /\ c.op = acc.op /\ c.target = acc.target
      /\ c.running = acc.running /\ c.armed = acc.armed /\ c.auth = acc.auth
      /\ c.timer = acc.timer /\ c.state = acc.state
  BY <1>2, Zenon DEF Account
<1>4. WellFormed(c) BY <1>1, <1>3, Zenon DEF WellFormed
<1> HIDE DEF c
<1>5. WellFormed(d) /\ SameOp(c, d) /\ d.state = c.state BY <1>4, SetNeedFacts
<1>6. /\ d.timer = acc.timer /\ d.running = acc.running /\ d.target = acc.target
      /\ d.auth = acc.auth /\ d.state = acc.state
  BY <1>3, <1>5 DEF SameOp
<1>7. Tells(d, bound) BY <1>1, <1>6 DEF Tells
<1>8. Becomes(d, TRUE) BY DEF SetAccountParams, c
<1> HIDE DEF d
<1>9. where' = "in" BY <1>1, <1>8 DEF Becomes
<1>10. /\ bound' = bound /\ netUp' = netUp /\ core' = core /\ Bounded'
  BY <1>1, BoundsAssumption DEF SetAccountParams, Bounded
<1> QED BY <1>1, <1>5, <1>6, <1>7, <1>8, <1>9, <1>10, BecomesInv

\* A refresh keeps the invariant: its REGISTER is under way.
LEMMA RefreshRegisterInv == RegInv /\ RefreshRegister => RegInv'
<1> SUFFICES ASSUME RegInv, RefreshRegister PROVE RegInv' OBVIOUS
<1> DEFINE l == Launch(acc, "reg")
           d == SetState(l, "Refreshing")
<1>1. WellFormed(acc) /\ core = "On" /\ where = "in" /\ netUp \in BOOLEAN
      /\ Bounded /\ acc.op = "live"
  BY RegInvFacts DEF RefreshRegister
<1>2. WellFormed(l) /\ l.enabled = acc.enabled /\ l.timer = acc.timer
  BY <1>1, LaunchFacts, Zenon DEF Kinds
<1> HIDE DEF l
<1>3. /\ WellFormed(d) /\ d.enabled = l.enabled
      /\ \/ d.timer = l.timer /\ Tells(d, bound)
         \/ "Refreshing" = "Cleared" /\ d.timer = "off" /\ d.op = "none"
  BY <1>2, SetStateFacts DEF States
<1>4. d.enabled = acc.enabled /\ d.timer = acc.timer /\ Tells(d, bound)
  BY <1>2, <1>3
<1>5. Becomes(d, FALSE) BY DEF RefreshRegister, l
<1> HIDE DEF d
<1>6. where' = "in" BY <1>1, <1>5 DEF Becomes
<1>7. /\ bound' = bound /\ netUp' = netUp /\ core' = core /\ Bounded'
  BY <1>1, BoundsAssumption DEF RefreshRegister, Bounded
<1> QED BY <1>1, <1>3, <1>4, <1>5, <1>6, <1>7, BecomesInv

\* Removing the account keeps the invariant: it is disabled and the deletion
\* timer runs, or its operation is released.
LEMMA RemoveAccountInv == RegInv /\ RemoveAccount => RegInv'
<1> SUFFICES ASSUME RegInv, RemoveAccount PROVE RegInv' OBVIOUS
<1> DEFINE c == [acc EXCEPT !.timer = "armed", !.enabled = FALSE]
           kept == SetNeedToRegister(c)
           left == IF acc.enabled THEN kept ELSE Released(acc)
<1>1. WellFormed(acc) /\ core = "On" /\ where = "in" /\ Tells(acc, bound)
      /\ acc.timer = "off" /\ TypeOK
  BY RegInvFacts DEF RemoveAccount, RegInv
<1>2. acc \in Account BY <1>1 DEF WellFormed
<1>3. /\ c \in Account /\ c.op = acc.op /\ c.target = acc.target
      /\ c.running = acc.running /\ c.armed = acc.armed /\ c.auth = acc.auth
      /\ c.timer = "armed" /\ ~c.enabled /\ c.state = acc.state
  BY <1>2, Zenon DEF Account
<1>4. WellFormed(c) BY <1>1, <1>3, Zenon DEF WellFormed
<1>5. /\ acc' = IF acc.state \in {"Failed", "Cleared"} THEN SetState(left, "None")
                ELSE left
      /\ where' = IF acc.enabled THEN "deleted" ELSE "gone"
      /\ answer' = IF acc.enabled THEN answer ELSE "none"
      /\ UNCHANGED <<bound, netUp, core, faults, outages, requests>>
  BY DEF RemoveAccount
<1> HIDE DEF c
<1>6. WellFormed(kept) /\ SameOp(c, kept) /\ kept.state = c.state BY <1>4, SetNeedFacts
<1>7. CASE acc.enabled
  <2>1. left = kept /\ WellFormed(left) /\ left.timer = "armed" /\ ~left.enabled
        /\ left.state = acc.state /\ left.running = acc.running
        /\ left.target = acc.target /\ left.auth = acc.auth
    BY <1>3, <1>6, <1>7 DEF SameOp
  <2>2. Tells(left, bound) BY <1>1, <2>1 DEF Tells
  <2> HIDE DEF kept, left
  <2>3. /\ WellFormed(Move(left, "None")) /\ SameOp(left, Move(left, "None"))
        /\ Move(left, "None").state = "None"
    BY <2>1, MoveFacts DEF States
  <2>4. acc.state \in {"Failed", "Cleared"} => SetState(left, "None") = Move(left, "None")
    BY <2>1, <2>3 DEF SetState, DeletionPending, HandleDeletion, SameOp
  <2>5. Tells(Move(left, "None"), bound) BY <2>3 DEF Tells
  <2>6. /\ WellFormed(acc') /\ acc'.timer = "armed" /\ ~acc'.enabled
        /\ acc'.running = acc.running /\ acc'.target = acc.target
        /\ Tells(acc', bound)
    BY <1>5, <2>1, <2>2, <2>3, <2>4, <2>5 DEF SameOp
  <2>7. where' = "deleted" /\ answer' = answer BY <1>5, <1>7
  <2>8. TypeOK' BY <1>1, <1>5, <2>6, <2>7 DEF TypeOK
  <2>9. AnswerTellsBinding' BY <1>5, <2>6, <2>7 DEF RegInv, AnswerTellsBinding
  <2>10. StateTellsBinding' BY <1>5, <2>6 DEF StateTellsBinding, Tells
  <2> QED BY <2>8, <2>9, <2>10 DEF RegInv
<1>8. CASE ~acc.enabled
  <2>1. left = Released(acc) BY <1>8
  <2>2. /\ WellFormed(left) /\ left.timer = "off" /\ ~left.enabled
        /\ left.op = "none"
    BY <1>1, <1>8, <2>1, ReleasedFacts
  <2> HIDE DEF left
  <2>3. /\ WellFormed(SetState(left, "None")) /\ SameOp(left, SetState(left, "None"))
    BY <2>2, SetStatePlain, SetStateFacts DEF States
  <2>4. WellFormed(acc') /\ acc'.timer = "off" /\ ~acc'.enabled /\ acc'.op = "none"
    BY <1>5, <2>2, <2>3 DEF SameOp
  <2>5. where' = "gone" /\ answer' = "none" BY <1>5, <1>8
  <2>6. TypeOK' BY <1>1, <1>5, <2>4, <2>5 DEF TypeOK
  <2> QED BY <2>5, <2>6 DEF RegInv, AnswerTellsBinding, StateTellsBinding
<1> QED BY <1>7, <1>8

\* The deletion timer removes the account.
LEMMA DeletionTimeoutInv == RegInv /\ DeletionTimeout => RegInv'
<1> SUFFICES ASSUME RegInv, DeletionTimeout PROVE RegInv' OBVIOUS
<1> DEFINE c == [acc EXCEPT !.timer = "fired"]
           r == Released(c)
<1>1. WellFormed(acc) /\ core \in {"On", "Shutdown"} /\ where = "deleted"
      /\ netUp \in BOOLEAN /\ Bounded
  BY RegInvFacts DEF DeletionTimeout
<1>2. acc \in Account BY <1>1 DEF WellFormed
<1>3. /\ c \in Account /\ c.op = acc.op /\ c.target = acc.target
      /\ c.running = acc.running /\ c.armed = acc.armed /\ c.auth = acc.auth
      /\ c.timer = "fired" /\ c.enabled = acc.enabled
  BY <1>2, Zenon DEF Account
<1>4. WellFormed(c) BY <1>1, <1>3, Zenon DEF WellFormed
<1> HIDE DEF c
<1>5. WellFormed(r) /\ r.op = "none" /\ r.timer = "fired" /\ r.enabled = acc.enabled
  BY <1>3, <1>4, ReleasedFacts
<1>6. Becomes(r, FALSE) BY DEF DeletionTimeout, c
<1> HIDE DEF r
<1>7. where' = "gone" BY <1>1, <1>5, <1>6 DEF Becomes
<1>8. /\ bound' = bound /\ netUp' = netUp /\ core' = core /\ Bounded'
  BY <1>1 DEF DeletionTimeout, Bounded
<1> QED BY <1>1, <1>5, <1>6, <1>7, <1>8, BecomesInv

\* A repeated REGISTER is under way.
LEMMA RefresherFiresInv == RegInv /\ RefresherFires => RegInv'
<1> SUFFICES ASSUME RegInv, RefresherFires PROVE RegInv' OBVIOUS
<1> DEFINE l == Launch(acc, "reg")
<1>1. /\ WellFormed(acc) /\ core \in {"On", "Shutdown"} /\ where \in {"in", "deleted"}
      /\ netUp \in BOOLEAN /\ Bounded /\ acc.armed
      /\ where = "deleted" => acc.timer = "armed"
  BY RegInvFacts DEF RefresherFires
<1>2. acc.op = "live" BY <1>1 DEF WellFormed
<1>3. WellFormed(l) /\ l.running /\ l.enabled = acc.enabled /\ l.timer = acc.timer
  BY <1>1, <1>2, LaunchFacts, Zenon DEF Kinds
<1>4. Becomes(l, FALSE) BY DEF RefresherFires
<1> HIDE DEF l
<1>5. where' = where BY <1>1, <1>3, <1>4 DEF Becomes
<1>6. Tells(l, bound) BY <1>3 DEF Tells
<1>7. /\ bound' = bound /\ netUp' = netUp /\ core' = core /\ Bounded'
  BY <1>1 DEF RefresherFires, Bounded
<1> QED BY <1>1, <1>3, <1>4, <1>5, <1>6, <1>7, BecomesInv

\* The registrar answers, or the answer is lost: the account does not move, and
\* a request under way tells nothing yet.
LEMMA AnswerInv == RegInv /\ (RegistrarAnswers \/ AnswerLost) => RegInv'
<1> SUFFICES ASSUME RegInv, RegistrarAnswers \/ AnswerLost PROVE RegInv' OBVIOUS
<1>1. TypeOK BY DEF RegInv
<1>2. acc.running /\ UNCHANGED <<acc, where, netUp, core, outages, requests>>
  BY DEF RegistrarAnswers, AnswerLost
<1>3. faults' \in 0..MaxFaults
  BY <1>1, BoundsAssumption DEF RegistrarAnswers, AnswerLost, TypeOK
<1>4. answer' \in {"none", "ok"} \cup Errors
  BY DEF RegistrarAnswers, AnswerLost, Errors
<1>5. bound' \in BOOLEAN BY <1>1 DEF RegistrarAnswers, AnswerLost, TypeOK
<1>6. TypeOK' BY <1>1, <1>2, <1>3, <1>4, <1>5 DEF TypeOK
<1>7. AnswerTellsBinding'
  BY <1>2 DEF RegistrarAnswers, AnswerLost, AnswerTellsBinding
<1>8. StateTellsBinding' BY <1>2, Zenon DEF StateTellsBinding
<1> QED BY <1>6, <1>7, <1>8 DEF RegInv

\* A failure leaves an account that is not gone in its list and truthful.
LEMMA FailureInv ==
  ASSUME RegInv, NEW e \in Errors, Becomes(Failed(acc, e), FALSE),
         acc.op = "live", bound' = bound, netUp' \in BOOLEAN, Bounded', core' = core
  PROVE  RegInv'
<1> DEFINE f == Failed(acc, e)
<1>1. /\ WellFormed(acc) /\ core \in {"On", "Shutdown"} /\ where \in {"in", "deleted"}
      /\ where = "deleted" => acc.timer = "armed"
  BY RegInvFacts
<1>2. /\ WellFormed(f) /\ f.enabled = acc.enabled /\ f.timer = acc.timer
      /\ Tells(f, bound)
  BY <1>1, FailedFacts
<1> HIDE DEF f
<1>3. Becomes(f, FALSE) BY DEF f
<1>4. where' = where BY <1>1, <1>2, <1>3 DEF Becomes
<1> QED BY <1>1, <1>2, <1>3, <1>4, BecomesInv

\* A broken connection keeps the invariant.
LEMMA ConnectionLostInv == RegInv /\ ConnectionLost => RegInv'
<1> SUFFICES ASSUME RegInv, ConnectionLost PROVE RegInv' OBVIOUS
<1>1. WellFormed(acc) /\ acc.armed /\ netUp \in BOOLEAN /\ Bounded
  BY RegInvFacts DEF ConnectionLost
<1>2. acc.op = "live" BY <1>1 DEF WellFormed
<1>3. /\ bound' = bound /\ netUp' \in BOOLEAN /\ core' = core /\ Bounded'
  BY <1>1, BoundsAssumption DEF ConnectionLost, Bounded
<1>4. Becomes(Failed(acc, "ioerror"), FALSE) /\ "ioerror" \in Errors
  BY DEF ConnectionLost, Errors
<1> QED BY <1>2, <1>3, <1>4, FailureInv

\* The answer of the registrar keeps the invariant.
LEMMA AnswerArrivesInv == RegInv /\ AnswerArrives => RegInv'
<1> SUFFICES ASSUME RegInv, AnswerArrives PROVE RegInv' OBVIOUS
<1>1. /\ WellFormed(acc) /\ acc.running /\ netUp \in BOOLEAN /\ Bounded
      /\ core \in {"On", "Shutdown"} /\ where \in {"in", "deleted"}
      /\ where = "deleted" => acc.timer = "armed"
      /\ where = "in" => acc.timer = "off"
  BY RegInvFacts DEF AnswerArrives
<1>2. acc.op = "live" BY <1>1 DEF WellFormed
<1>3. /\ bound' = bound /\ netUp' \in BOOLEAN /\ core' = core /\ Bounded'
  BY <1>1 DEF AnswerArrives, Bounded
<1>4. CASE answer = "ok"
  <2> DEFINE c == Succeeded(acc)
  <2>1. bound = (acc.target = "reg") BY <1>4 DEF RegInv, AnswerTellsBinding
  <2>2. /\ WellFormed(c) /\ c.enabled = acc.enabled
        /\ \/ c.timer = acc.timer /\ Tells(c, bound)
           \/ c.timer = "off" /\ c.op = "none" /\ acc.timer # "off"
    BY <1>1, <2>1, SucceededFacts
  <2>3. Becomes(c, FALSE) BY <1>4 DEF AnswerArrives
  <2> HIDE DEF c
  <2>4. CASE c.timer = acc.timer /\ Tells(c, bound)
    <3>1. where' = where BY <1>1, <2>3, <2>4 DEF Becomes
    <3> QED BY <1>1, <1>3, <2>2, <2>3, <2>4, <3>1, BecomesInv
  <2>5. CASE c.timer = "off" /\ c.op = "none" /\ acc.timer # "off"
    <3>1. where = "deleted" BY <1>1, <2>5
    <3>2. where' = "gone" BY <2>3, <2>5, <3>1 DEF Becomes
    <3> QED BY <1>1, <1>3, <2>2, <2>3, <2>5, <3>1, <3>2, BecomesInv
  <2> QED BY <2>2, <2>4, <2>5
<1>5. CASE answer # "ok"
  <2>1. answer \in Errors BY <1>5 DEF AnswerArrives, RegInv, TypeOK
  <2>2. Becomes(Failed(acc, answer), FALSE) BY <1>5 DEF AnswerArrives
  <2> QED BY <1>2, <1>3, <2>1, <2>2, FailureInv
<1> QED BY <1>4, <1>5

\* A challenge that nobody answers keeps the invariant.
LEMMA ProcessAuthRequestedInv == RegInv /\ ProcessAuthRequested => RegInv'
<1> SUFFICES ASSUME RegInv, ProcessAuthRequested PROVE RegInv' OBVIOUS
<1> DEFINE a == [acc EXCEPT !.auth = "pending"]
           d == IF where = "in" THEN SetState(a, "Failed") ELSE a
<1>1. /\ WellFormed(acc) /\ acc.auth = "asked" /\ netUp \in BOOLEAN /\ Bounded
      /\ core \in {"On", "Shutdown"} /\ where \in {"in", "deleted"}
      /\ where = "deleted" => acc.timer = "armed"
      /\ where = "in" => acc.timer = "off"
  BY RegInvFacts DEF ProcessAuthRequested
<1>2. acc \in Account BY <1>1 DEF WellFormed
<1>3. /\ a \in Account /\ a.op = acc.op /\ a.target = acc.target
      /\ a.running = acc.running /\ a.armed = acc.armed /\ a.auth = "pending"
      /\ a.timer = acc.timer /\ a.enabled = acc.enabled
  BY <1>2, Zenon DEF Account
<1>4. WellFormed(a) BY <1>1, <1>3, Zenon DEF WellFormed
<1>5. Becomes(d, TRUE) BY DEF ProcessAuthRequested
<1> HIDE DEF a
<1>6. where = "in" => SameOp(a, SetState(a, "Failed")) /\ WellFormed(SetState(a, "Failed"))
  BY <1>1, <1>3, <1>4, SetStatePlain, SetStateFacts DEF States
<1>7. /\ WellFormed(d) /\ d.timer = acc.timer /\ d.enabled = acc.enabled
      /\ d.running = acc.running /\ d.target = acc.target /\ d.auth = "pending"
  BY <1>3, <1>4, <1>6 DEF SameOp
<1> HIDE DEF d
<1>8. where' = where BY <1>1, <1>5, <1>7 DEF Becomes
<1>9. Tells(d, bound) BY <1>7 DEF Tells
<1>10. /\ bound' = bound /\ netUp' = netUp /\ core' = core /\ Bounded'
  BY <1>1 DEF ProcessAuthRequested, Bounded
<1> QED BY <1>1, <1>5, <1>7, <1>8, <1>9, <1>10, BecomesInv

\* Credentials restart the request of the operation.
LEMMA AddAuthInfoInv == RegInv /\ AddAuthInfo => RegInv'
<1> SUFFICES ASSUME RegInv, AddAuthInfo PROVE RegInv' OBVIOUS
<1> DEFINE a == IF where = "in" THEN SetState(acc, "Progress") ELSE acc
           l == Launch(a, a.target)
           d == [l EXCEPT !.auth = "none"]
<1>1. /\ WellFormed(acc) /\ acc.auth # "none" /\ netUp \in BOOLEAN /\ Bounded
      /\ core \in {"On", "Shutdown"} /\ where \in {"in", "deleted"}
      /\ where = "deleted" => acc.timer = "armed"
      /\ where = "in" => acc.timer = "off"
  BY RegInvFacts DEF AddAuthInfo
<1>2. where = "in" => SameOp(acc, SetState(acc, "Progress"))
                      /\ WellFormed(SetState(acc, "Progress"))
  BY <1>1, SetStatePlain, SetStateFacts DEF States
<1>3. /\ WellFormed(a) /\ a.timer = acc.timer /\ a.enabled = acc.enabled
      /\ a.op = acc.op
  BY <1>1, <1>2 DEF SameOp
<1>4. Becomes(d, FALSE) BY DEF AddAuthInfo
<1> HIDE DEF a
<1>5. a.op = "live" BY <1>1, <1>3 DEF WellFormed
<1>6. a.target \in Kinds BY <1>3 DEF WellFormed, Account
<1>7. /\ WellFormed(l) /\ l.running /\ l.enabled = a.enabled /\ l.timer = a.timer
  BY <1>3, <1>5, <1>6, LaunchFacts
<1> HIDE DEF l
<1>8. l \in Account BY <1>7 DEF WellFormed
<1>9. /\ d \in Account /\ d.op = l.op /\ d.target = l.target
      /\ d.running = l.running /\ d.armed = l.armed /\ d.auth = "none"
      /\ d.timer = l.timer /\ d.enabled = l.enabled
  BY <1>8, Zenon DEF Account
<1>10. WellFormed(d) BY <1>7, <1>9, Zenon DEF WellFormed
<1> HIDE DEF d
<1>11. d.timer = acc.timer /\ d.enabled = acc.enabled /\ d.running
  BY <1>3, <1>7, <1>9
<1>12. where' = where BY <1>1, <1>4, <1>11 DEF Becomes
<1>13. Tells(d, bound) BY <1>11 DEF Tells
<1>14. /\ bound' = bound /\ netUp' = netUp /\ core' = core /\ Bounded'
  BY <1>1 DEF AddAuthInfo, Bounded
<1> QED BY <1>1, <1>4, <1>10, <1>11, <1>12, <1>13, <1>14, BecomesInv

\* The loss of the network keeps the invariant.
LEMMA NetworkDownInv == RegInv /\ NetworkDown => RegInv'
<1> SUFFICES ASSUME RegInv, NetworkDown PROVE RegInv' OBVIOUS
<1>1. /\ WellFormed(acc) /\ Bounded /\ core \in {"On", "Shutdown"}
      /\ where \in {"in", "deleted", "gone"}
      /\ where = "deleted" => acc.timer = "armed"
      /\ where = "in" => acc.timer = "off"
      /\ where = "gone" => acc.op = "none" /\ ~acc.running /\ ~acc.armed
      /\ where # "gone" => Tells(acc, bound)
  BY RegInvFacts DEF NetworkDown
<1>2. /\ bound' = bound /\ netUp' \in BOOLEAN /\ core' = core /\ Bounded'
  <2>1. netUp' \in BOOLEAN BY DEF NetworkDown
  <2>2. outages' \in 0..MaxOutages
    BY <1>1, BoundsAssumption DEF NetworkDown, Bounded
  <2> QED BY <1>1, <2>1, <2>2 DEF NetworkDown, Bounded
<1>3. CASE acc.enabled /\ where = "in"
  <2> DEFINE r == Released(acc)
             d == SetState(r, "None")
  <2>1. WellFormed(r) /\ r.timer = "off" /\ r.enabled = acc.enabled
    BY <1>1, <1>3, ReleasedFacts
  <2>2. Becomes(d, FALSE) BY <1>3 DEF NetworkDown
  <2> HIDE DEF r
  <2>3. WellFormed(d) /\ SameOp(r, d) /\ Tells(d, bound)
    BY <2>1, SetStateFacts, SetStatePlain DEF States
  <2> HIDE DEF d
  <2>4. d.timer = acc.timer /\ d.enabled = acc.enabled BY <1>1, <1>3, <2>1, <2>3 DEF SameOp
  <2>5. where' = "in" BY <1>3, <2>2 DEF Becomes
  <2> QED BY <1>1, <1>2, <2>2, <2>3, <2>4, <2>5, BecomesInv
<1>4. CASE ~(acc.enabled /\ where = "in") /\ (acc.running \/ acc.armed)
  <2>1. acc.op = "live" BY <1>1, <1>4, Zenon DEF WellFormed
  <2>2. Becomes(Failed(acc, "ioerror"), FALSE) /\ "ioerror" \in Errors
    BY <1>4 DEF NetworkDown, Errors
  <2> QED BY <1>2, <2>1, <2>2, FailureInv
<1>5. CASE ~(acc.enabled /\ where = "in") /\ ~(acc.running \/ acc.armed)
  <2>1. Becomes(acc, FALSE) BY <1>5 DEF NetworkDown
  <2>2. where' = where BY <1>1, <2>1 DEF Becomes
  <2> QED BY <1>1, <1>2, <2>1, <2>2, BecomesInv
<1> QED BY <1>3, <1>4, <1>5

\* The return of the network keeps the invariant.
LEMMA NetworkUpInv == RegInv /\ NetworkUp => RegInv'
<1> SUFFICES ASSUME RegInv, NetworkUp PROVE RegInv' OBVIOUS
<1> DEFINE n == SetNeedToRegister(acc)
           d == IF acc.enabled /\ where = "in" THEN n ELSE acc
<1>1. /\ WellFormed(acc) /\ Bounded /\ core \in {"On", "Shutdown"}
      /\ where = "deleted" => acc.timer = "armed"
      /\ where = "gone" => acc.op = "none"
      /\ where # "gone" => Tells(acc, bound)
  BY RegInvFacts DEF NetworkUp
<1>2. /\ bound' = bound /\ netUp' \in BOOLEAN /\ core' = core /\ Bounded'
  BY <1>1 DEF NetworkUp, Bounded
<1>3. WellFormed(n) /\ SameOp(acc, n) /\ n.state = acc.state BY <1>1, SetNeedFacts
<1>4. Becomes(d, TRUE) BY DEF NetworkUp
<1> HIDE DEF n
<1>5. /\ WellFormed(d) /\ d.timer = acc.timer /\ d.enabled = acc.enabled
      /\ d.running = acc.running /\ d.target = acc.target /\ d.auth = acc.auth
      /\ d.state = acc.state /\ d.op = acc.op
  BY <1>1, <1>3 DEF SameOp
<1> HIDE DEF d
<1>6. where' = where BY <1>1, <1>4, <1>5 DEF Becomes
<1>7. where # "gone" => Tells(d, bound) BY <1>1, <1>5 DEF Tells
<1> QED BY <1>1, <1>2, <1>4, <1>5, <1>6, <1>7, BecomesInv

\* The beginning of a stop keeps the invariant.
LEMMA ShutdownInv == RegInv /\ Shutdown => RegInv'
<1> SUFFICES ASSUME RegInv, Shutdown PROVE RegInv' OBVIOUS
<1> DEFINE u == Unregister(acc)
           k == acc.state \notin {"Ok", "Failed"}
<1>1. /\ WellFormed(acc) /\ Bounded /\ core = "On" /\ netUp \in BOOLEAN
      /\ where = "deleted" => acc.timer = "armed"
      /\ where = "gone" => acc.op = "none"
      /\ where # "gone" => Tells(acc, bound)
  BY RegInvFacts DEF Shutdown
<1>2. /\ bound' = bound /\ netUp' \in BOOLEAN /\ core' = "Shutdown" /\ Bounded'
  BY <1>1 DEF Shutdown, Bounded
<1>3. CASE netUp /\ where = "in"
  <2>1. Becomes(u, k) BY <1>3 DEF Shutdown
  <2>2. /\ WellFormed(u) /\ u.enabled = acc.enabled /\ u.timer = acc.timer
        /\ u.state = acc.state /\ (u.running \/ SameOp(acc, u))
    BY <1>1, UnregisterFacts
  <2>3. k => u = acc BY UnregisterIdle
  <2>4. k \in BOOLEAN OBVIOUS
  <2> HIDE DEF u, k
  <2>5. Tells(u, bound) BY <1>1, <1>3, <2>2 DEF Tells, SameOp
  <2>6. where' = "in" BY <1>3, <2>1 DEF Becomes
  <2> QED BY <1>1, <1>2, <2>1, <2>2, <2>3, <2>4, <2>5, <2>6, BecomesInv
<1>4. CASE ~(netUp /\ where = "in")
  <2>1. Becomes(acc, TRUE) BY <1>4 DEF Shutdown
  <2>2. where' = where BY <1>1, <2>1 DEF Becomes
  <2> QED BY <1>1, <1>2, <2>1, <2>2, BecomesInv
<1> QED BY <1>3, <1>4

\* The end of a stop releases the account.
LEMMA StopAsyncEndInv == RegInv /\ StopAsyncEnd => RegInv'
<1> SUFFICES ASSUME RegInv, StopAsyncEnd PROVE RegInv' OBVIOUS
<1> DEFINE r == Released(acc)
           t == IF where = "deleted" THEN "off" ELSE r.timer
<1>1. /\ TypeOK /\ WellFormed(acc) /\ core = "Shutdown"
      /\ where = "in" => acc.timer = "off"
      /\ (acc.timer = "armed") = (where = "deleted")
      /\ where # "in" => ~acc.enabled
  BY RegInvFacts DEF StopAsyncEnd, RegInv
<1>2. /\ WellFormed(r) /\ r.op = "none" /\ ~r.running /\ ~r.armed /\ r.auth = "none"
      /\ r.enabled = acc.enabled /\ r.timer = acc.timer
  BY <1>1, ReleasedFacts, Zenon
<1>3. acc' = [r EXCEPT !.timer = t] BY DEF StopAsyncEnd
<1> HIDE DEF r
<1>4. r \in Account BY <1>2 DEF WellFormed
<1>5. t \in {"off", "armed", "fired"} BY <1>4 DEF Account
<1> HIDE DEF t
<1>6. /\ acc' \in Account /\ acc'.op = "none" /\ ~acc'.running /\ ~acc'.armed
      /\ acc'.auth = "none" /\ acc'.enabled = acc.enabled /\ acc'.timer = t
  BY <1>2, <1>3, <1>4, <1>5, Zenon DEF Account
<1>7. WellFormed(acc') BY <1>6, Zenon DEF WellFormed
<1>8. t # "armed" /\ (where = "in" => t = "off")
  <2>1. CASE where = "deleted" BY <2>1 DEF t
  <2>2. CASE where # "deleted" BY <1>1, <1>2, <2>2 DEF t
  <2> QED BY <2>1, <2>2
<1>9. /\ where' = where /\ answer' = "none" /\ core' = "Off"
      /\ UNCHANGED <<bound, netUp, faults, outages, requests>>
  BY DEF StopAsyncEnd
<1>10. TypeOK'
  <2>1. (acc'.timer = "armed") = (where' = "deleted" /\ core' # "Off")
    BY <1>6, <1>8, <1>9
  <2>2. where' = "in" => acc'.timer = "off" BY <1>6, <1>8, <1>9
  <2>3. where' # "in" => ~acc'.enabled BY <1>1, <1>6, <1>9
  <2> QED BY <1>1, <1>6, <1>7, <1>9, <2>1, <2>2, <2>3 DEF TypeOK
<1> QED BY <1>9, <1>10 DEF RegInv, AnswerTellsBinding, StateTellsBinding

\* A new account satisfies the invariant.
LEMMA InitInv == Init => RegInv
<1> SUFFICES ASSUME Init PROVE RegInv OBVIOUS
<1>1. PICK e \in BOOLEAN :
        acc = [state |-> "None", prev |-> "None", enabled |-> e, need |-> TRUE,
               unregistering |-> FALSE, timer |-> "off", posted |-> TRUE,
               op |-> "none", target |-> "reg", running |-> FALSE,
               armed |-> FALSE, auth |-> "none"]
  BY DEF Init
<1>2. /\ acc.running = FALSE /\ acc.armed = FALSE /\ acc.auth = "none"
      /\ acc.timer = "off" /\ acc.state = "None" /\ acc.op = "none"
  BY <1>1, Zenon
<1>3. acc \in Account BY <1>1 DEF Account, States, Kinds
<1>4. WellFormed(acc) BY <1>2, <1>3 DEF WellFormed
<1>5. TypeOK
  <2>1. faults \in 0..MaxFaults /\ outages \in 0..MaxOutages /\ requests \in 0..MaxRequests
    BY BoundsAssumption DEF Init
  <2>2. bound \in BOOLEAN /\ netUp \in BOOLEAN BY DEF Init
  <2> QED BY <1>2, <1>4, <2>1, <2>2 DEF Init, TypeOK
<1> QED BY <1>2, <1>5 DEF Init, RegInv, AnswerTellsBinding, StateTellsBinding

\* Every step keeps the invariant.
LEMMA NextInv == RegInv /\ [Next]_vars => RegInv'
<1> SUFFICES ASSUME RegInv, [Next]_vars PROVE RegInv' OBVIOUS
<1>1. CASE Update BY <1>1, UpdateInv
<1>2. CASE \E e \in BOOLEAN : SetAccountParams(e) BY <1>2, SetAccountParamsInv
<1>3. CASE RefreshRegister BY <1>3, RefreshRegisterInv
<1>4. CASE RemoveAccount BY <1>4, RemoveAccountInv
<1>5. CASE DeletionTimeout BY <1>5, DeletionTimeoutInv
<1>6. CASE RefresherFires BY <1>6, RefresherFiresInv
<1>7. CASE RegistrarAnswers \/ AnswerLost BY <1>7, AnswerInv
<1>8. CASE ConnectionLost BY <1>8, ConnectionLostInv
<1>9. CASE AnswerArrives BY <1>9, AnswerArrivesInv
<1>10. CASE ProcessAuthRequested BY <1>10, ProcessAuthRequestedInv
<1>11. CASE AddAuthInfo BY <1>11, AddAuthInfoInv
<1>12. CASE NetworkDown BY <1>12, NetworkDownInv
<1>13. CASE NetworkUp BY <1>13, NetworkUpInv
<1>14. CASE Shutdown BY <1>14, ShutdownInv
<1>15. CASE IterateStop \/ StopTimeLimit
  BY <1>15, StopAsyncEndInv DEF IterateStop, StopTimeLimit
<1>16. CASE UNCHANGED vars
  BY <1>16 DEF vars, RegInv, TypeOK, AnswerTellsBinding, StateTellsBinding
<1> QED
  BY <1>1, <1>2, <1>3, <1>4, <1>5, <1>6, <1>7, <1>8, <1>9, <1>10, <1>11, <1>12,
     <1>13, <1>14, <1>15, <1>16 DEF Next
-----------------------------------------------------------------------------
(* The theorems. *)

\* The account keeps its types, and its operation, deletion timer and list agree,
\* for any number of faults, outages and requests.
THEOREM AccountTypeCorrect == Spec => []TypeOK
<1>1. RegInv => TypeOK BY DEF RegInv
<1> QED BY <1>1, InitInv, NextInv, PTL DEF Spec

\* Whatever is lost, replaced or answered late, an idle account that shows "Ok" is
\* bound at the registrar and one that shows "Cleared" is not.
THEOREM RegistrationIsTruthful == Spec => []StateTellsBinding
<1>1. RegInv => StateTellsBinding BY DEF RegInv
<1> QED BY <1>1, InitInv, NextInv, PTL DEF Spec
=============================================================================
