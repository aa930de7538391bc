-------------------------- MODULE ConferenceProofs --------------------------
(***************************************************************************)
(* Proofs about module ConferenceEvents, for any participants, devices and *)
(* budgets: its types, that the number of a stored change is never given   *)
(* to another one, and that a client whose SUBSCRIBE was accepted is not   *)
(* dropped as long as the server does not restart.                         *)
(***************************************************************************)
EXTENDS ConferenceEvents, FiniteSetTheorems, SequenceTheorems, TLAPS

-----------------------------------------------------------------------------
(* Folds over finite sets.  A fold is a function defined by recursion over  *)
(* the subsets of a set; that it exists, and what it keeps true, follows    *)
(* from the well-foundedness of set inclusion.                              *)

(* ch chooses an element of every non-empty subset of D. *)
Chooser(ch, D) == \A s \in (SUBSET D) \ {{}} : ch[s] \in s

(* T holds of the empty set, and of a set when it holds without its chosen element. *)
Grows(T, ch, D) == {} \in T /\ \A s \in (SUBSET D) \ {{}} : s \ {ch[s]} \in T => s \in T

(* f is the fold of F over D from b; g is one as far as it stays in X. *)
IsFold(f, F, b, ch, D) ==
  \A s \in SUBSET D : f[s] = IF s = {} THEN b ELSE F[ch[s]][f[s \ {ch[s]}]]
FoldsIn(X, g, F, b, ch, D) ==
  \A s \in SUBSET D :
    g[s] = b \/ (s # {} /\ (g[s \ {ch[s]}] \in X => g[s] = F[ch[s]][g[s \ {ch[s]}]]))

\* What holds of the empty set, and of a set when it holds without the element
\* chosen from it, holds of every subset of a finite set.
LEMMA SubsetInduction ==
  ASSUME NEW D, IsFiniteSet(D), NEW ch, Chooser(ch, D), NEW T, Grows(T, ch, D)
  PROVE  \A s \in SUBSET D : s \in T
<1> DEFINE bad == {s \in SUBSET D : s \notin T}
<1> SUFFICES ASSUME bad # {} PROVE FALSE OBVIOUS
<1>1. bad \subseteq FiniteSubsetsOf(D) BY FS_Subset DEF FiniteSubsetsOf
<1>2. IsWellFoundedOn(StrictSubsetOrdering(D), FiniteSubsetsOf(D))
  BY FS_StrictSubsetOrderingWellFounded
<1> HIDE DEF bad
<1>3. PICK s \in bad : \A y \in bad : ~(<<y, s>> \in StrictSubsetOrdering(D))
  BY <1>1, <1>2, WFMin, Zenon
<1>4. s \in (SUBSET D) \ {{}} /\ s \notin T /\ ch[s] \in s BY DEF bad, Chooser, Grows
<1>5. s \ {ch[s]} \in bad BY <1>4 DEF bad, Grows
<1>6. <<s \ {ch[s]}, s>> \in StrictSubsetOrdering(D) BY <1>4 DEF StrictSubsetOrdering
<1> QED BY <1>3, <1>5, <1>6

\* A fold is well defined: the recursion over the subsets of a finite set has a solution.
LEMMA FoldExists ==
  ASSUME NEW D, IsFiniteSet(D), NEW ch, Chooser(ch, D),
         NEW X, NEW b \in X, NEW F \in [D -> [X -> X]]
  PROVE  \E f \in [SUBSET D -> X] : IsFold(f, F, b, ch, D)
<1> DEFINE P == SUBSET D
           Closed(U) == /\ <<{}, b>> \in U
                        /\ \A s \in P \ {{}}, x \in X :
                             <<s \ {ch[s]}, x>> \in U => <<s, F[ch[s]][x]>> \in U
           G == {p \in P \X X : \A U \in SUBSET (P \X X) : Closed(U) => p \in U}
<1>1. \A s \in P \ {{}} : ch[s] \in s /\ ch[s] \in D /\ s \ {ch[s]} \in P
  BY DEF Chooser
<1>2. \A s \in P \ {{}}, x \in X : F[ch[s]][x] \in X BY <1>1
<1> HIDE DEF P
<1>3. Closed(G)
  <2>1. <<{}, b>> \in G BY DEF P
  <2>2. ASSUME NEW s \in P \ {{}}, NEW x \in X, <<s \ {ch[s]}, x>> \in G
        PROVE  <<s, F[ch[s]][x]>> \in G
    BY <1>2, <2>2
  <2> QED BY <2>1, <2>2
<1>4. \A U \in SUBSET (P \X X) : Closed(U) => G \subseteq U OBVIOUS
<1>5. G \in SUBSET (P \X X) OBVIOUS
<1> HIDE DEF G
<1>6. ASSUME NEW x \in X, <<{}, x>> \in G PROVE x = b
  <2> SUFFICES ASSUME x # b PROVE FALSE OBVIOUS
  <2> DEFINE U == G \ {<<{}, x>>}
  <2>1. Closed(U) BY <1>3
  <2>2. U \in SUBSET (P \X X) BY <1>5
  <2> QED BY <1>4, <1>6, <2>1, <2>2
<1>7. ASSUME NEW s \in P \ {{}}, NEW x \in X, NEW y \in X,
             <<s, y>> \in G, <<s \ {ch[s]}, x>> \in G,
             \A z \in X : <<s \ {ch[s]}, z>> \in G => z = x
      PROVE  y = F[ch[s]][x]
  <2> SUFFICES ASSUME y # F[ch[s]][x] PROVE FALSE OBVIOUS
  <2> DEFINE U == G \ {<<s, y>>}
  <2>1. Closed(U) BY <1>3, <1>7
  <2>2. U \in SUBSET (P \X X) BY <1>5
  <2> QED BY <1>4, <1>7, <2>1, <2>2
<1> DEFINE T == {s \in P : \E x \in X : <<s, x>> \in G /\ \A z \in X : <<s, z>> \in G => z = x}
<1>8. {} \in T BY <1>3, <1>6 DEF P
<1>9. ASSUME NEW s \in P \ {{}}, s \ {ch[s]} \in T PROVE s \in T
  <2>1. PICK x \in X : <<s \ {ch[s]}, x>> \in G
                       /\ \A z \in X : <<s \ {ch[s]}, z>> \in G => z = x
    BY <1>9
  <2>2. <<s, F[ch[s]][x]>> \in G BY <1>3, <2>1
  <2> QED BY <1>2, <1>7, <2>1, <2>2
<1> HIDE DEF T
<1>10. \A s \in P : s \in T
  <2>1. Grows(T, ch, D) BY <1>8, <1>9 DEF P, Grows
  <2> QED BY <2>1, SubsetInduction, Zenon DEF P
<1> DEFINE f == [s \in P |-> CHOOSE x \in X : <<s, x>> \in G]
<1>11. \A s \in P : f[s] \in X /\ <<s, f[s]>> \in G /\ \A z \in X : <<s, z>> \in G => z = f[s]
  BY <1>10 DEF T
<1>12. f \in [P -> X] BY <1>11
<1> HIDE DEF f
<1>13. ASSUME NEW s \in P PROVE f[s] = IF s = {} THEN b ELSE F[ch[s]][f[s \ {ch[s]}]]
  <2>1. CASE s = {} BY <1>6, <1>11, <2>1
  <2>2. CASE s # {}
    <3>1. s \ {ch[s]} \in P BY <1>1, <2>2
    <3> QED BY <1>7, <1>11, <2>2, <3>1
  <2> QED BY <2>1, <2>2
<1> QED BY <1>12, <1>13 DEF P, IsFold

\* What a fold computes stays in any set X that the operation does not leave.
LEMMA FoldType ==
  ASSUME NEW D, IsFiniteSet(D), NEW ch, Chooser(ch, D),
         NEW X, NEW b \in X, NEW F \in [D -> [X -> X]], NEW g, FoldsIn(X, g, F, b, ch, D)
  PROVE  g[D] \in X
<1> DEFINE T == {s \in SUBSET D : g[s] \in X}
<1>1. {} \in T BY DEF FoldsIn
<1>2. ASSUME NEW s \in (SUBSET D) \ {{}}, s \ {ch[s]} \in T PROVE s \in T
  <2>1. ch[s] \in D /\ g[s \ {ch[s]}] \in X BY <1>2 DEF Chooser
  <2>2. F[ch[s]][g[s \ {ch[s]}]] \in X BY <2>1
  <2> QED BY <2>1, <2>2 DEF FoldsIn
<1> HIDE DEF T
<1>3. Grows(T, ch, D) BY <1>1, <1>2 DEF Grows
<1>4. \A s \in SUBSET D : s \in T BY <1>3, SubsetInduction, Zenon
<1> QED BY <1>4 DEF T

\* Every non-empty set of natural numbers up to n has a maximum.
LEMMA MaxChooses ==
  ASSUME NEW n \in Nat
  PROVE  \A s \in (SUBSET (1 .. n)) \ {{}} : Max(s) \in s /\ \A y \in s : y <= Max(s)
<1> DEFINE D == 1 .. n
           ch == [s \in SUBSET D |-> CHOOSE x \in s : TRUE]
           T == {s \in SUBSET D : s = {} \/ \E m \in s : \A y \in s : m >= y}
<1>1. IsFiniteSet(D) BY FS_Interval
<1>2. Chooser(ch, D) BY DEF Chooser
<1>3. {} \in T OBVIOUS
<1>4. ASSUME NEW s \in (SUBSET D) \ {{}}, s \ {ch[s]} \in T PROVE s \in T
  <2>1. ch[s] \in s BY <1>2 DEF Chooser
  <2> HIDE DEF ch
  <2>2. s \subseteq Nat BY DEF D
  <2>3. s \ {ch[s]} = {} \/ \E m \in s \ {ch[s]} : \A y \in s \ {ch[s]} : m >= y BY <1>4
  <2>4. CASE s \ {ch[s]} = {}
    <3>1. ASSUME NEW y \in s PROVE ch[s] >= y BY <2>1, <2>2, <2>4
    <3> QED BY <2>1, <3>1
  <2>5. CASE s \ {ch[s]} # {}
    <3>1. PICK m \in s \ {ch[s]} : \A y \in s \ {ch[s]} : m >= y BY <2>3, <2>5
    <3>2. CASE m >= ch[s]
      <4>1. ASSUME NEW y \in s PROVE m >= y BY <3>1, <3>2
      <4> QED BY <4>1
    <3>3. CASE ~(m >= ch[s])
      <4>1. ASSUME NEW y \in s PROVE ch[s] >= y
        <5>1. y = ch[s] \/ m >= y BY <3>1
        <5>2. y \in Nat /\ m \in Nat /\ ch[s] \in Nat BY <2>1, <2>2
        <5> QED BY <3>3, <5>1, <5>2
      <4> QED BY <2>1, <4>1
    <3> QED BY <3>2, <3>3
  <2> QED BY <2>4, <2>5
<1> HIDE DEF ch, T, D
<1>5. \A s \in SUBSET D : s \in T
  <2>1. Grows(T, ch, D) BY <1>3, <1>4 DEF Grows
  <2> QED BY <1>1, <1>2, <2>1, SubsetInduction, Zenon
<1>6. ASSUME NEW s \in (SUBSET D) \ {{}} PROVE Max(s) \in s /\ \A y \in s : y <= Max(s)
  <2>1. \E m \in s : \A y \in s : m >= y BY <1>5, <1>6 DEF T
  <2>2. Max(s) \in s /\ \A y \in s : Max(s) >= y BY <2>1, Zenon DEF Max
  <2>3. s \subseteq Nat BY DEF D
  <2> DEFINE mx == Max(s)
  <2>4. mx \in Nat /\ mx \in s /\ \A y \in s : mx >= y BY <2>2, <2>3
  <2> HIDE DEF mx
  <2>5. \A y \in s : y <= mx BY <2>3, <2>4
  <2> QED BY <2>4, <2>5 DEF mx
<1> QED BY <1>6 DEF D

-----------------------------------------------------------------------------
(* Documents and views. *)

\* The status a document gives of a device.
LEMMA StatusType ==
  ASSUME NEW conf \in Conf, NEW d \in Device PROVE KnownStatus(conf, d) \in Status \cup {None}
<1>1. conf.device[d] \in DeviceState \cup {Absent} BY DEF Conf
<1>2. ASSUME NEW s \in DeviceState PROVE EndpointStatus(s) \in Status
  BY DEF DeviceState, LeavingState, EndpointStatus, Status
<1> QED BY <1>1, <1>2 DEF KnownStatus, KnownDevice

\* What a document says of a participant with all its devices.
LEMMA FullUserType ==
  ASSUME NEW conf \in Conf, NEW p \in Participant PROVE FullUser(conf, p) \in User
<1> DEFINE es == {[entity |-> d, state |-> "full", status |-> KnownStatus(conf, d)] :
                    d \in {x \in DevicesOf(p) : KnownDevice(conf, x)}}
<1>1. es \in SUBSET Endpoint
  <2> SUFFICES ASSUME NEW d \in DevicesOf(p)
               PROVE  [entity |-> d, state |-> "full", status |-> KnownStatus(conf, d)] \in Endpoint
    OBVIOUS
  <2>1. d \in Device BY DEF DevicesOf
  <2>2. KnownStatus(conf, d) \in Status \cup {None} BY <2>1, StatusType
  <2> HIDE DEF es
  <2> QED BY <2>1, <2>2 DEF Endpoint, Element
<1>2. RoleOf(conf, p) \in {"admin", "participant", None} BY DEF RoleOf
<1> HIDE DEF es
<1>3. [entity |-> p, state |-> "full", role |-> RoleOf(conf, p), endpoints |-> es] \in User
  BY <1>1, <1>2 DEF User, Element
<1> QED BY <1>3 DEF FullUser, es

\* A full state is a document.
LEMMA FullStateType ==
  ASSUME NEW conf \in Conf, NEW v \in Nat PROVE CreateNotifyFullState(conf, v) \in Body
<1> DEFINE us == {FullUser(conf, p) : p \in {x \in Participant : conf.member[x]}}
<1>1. us \in SUBSET User BY FullUserType
<1>2. conf.subject \in Subject /\ conf.lifetime \in Lifetime BY DEF Conf
<1> HIDE DEF us
<1>3. [full |-> TRUE, version |-> v, subject |-> conf.subject, lifetime |-> conf.lifetime,
       users |-> us] \in Body
  BY <1>1, <1>2 DEF Body
<1> QED BY <1>3 DEF CreateNotifyFullState, us

\* A document about some participants.
LEMMA UsersBodyType ==
  ASSUME NEW v \in Nat, NEW us \in SUBSET User PROVE [EmptyBody(v) EXCEPT !.users = us] \in Body
BY DEF EmptyBody, Body

\* A document about one device.
LEMMA DeviceBodyType ==
  ASSUME NEW v \in Nat, NEW d \in Device, NEW el \in Element, NEW st \in Status \cup {None}
  PROVE  DeviceBody(v, d, el, st) \in Body
<1> DEFINE e == [entity |-> d, state |-> el, status |-> st]
           u == [entity |-> Owner[d], state |-> "partial", role |-> None, endpoints |-> {e}]
<1>1. e \in Endpoint BY DEF Endpoint
<1>2. Owner[d] \in Participant BY OwnerAssumption
<1> HIDE DEF e
<1>3. u \in User BY <1>1, <1>2 DEF User, Element
<1> HIDE DEF u
<1>4. [EmptyBody(v) EXCEPT !.users = {u}] \in Body BY <1>3, UsersBodyType
<1> QED BY <1>4 DEF DeviceBody, u, e

\* Every event gets a document.
LEMMA DocumentType ==
  ASSUME NEW conf \in Conf, NEW v \in Nat, NEW e \in Event PROVE CreateNotify(conf, v, e) \in Body
<1>1. CASE e \in [type : {"ParticipantAdded", "ParticipantRemoved", "SetAdmin", "UnsetAdmin"},
                  who : Participant]
  <2>1. CreateNotifyParticipantAdded(conf, v, e.who) \in Body
    BY <1>1, FullUserType, UsersBodyType DEF CreateNotifyParticipantAdded
  <2>2. CreateNotifyParticipantRemoved(v, e.who) \in Body
    <3>1. [entity |-> e.who, state |-> "deleted", role |-> None, endpoints |-> {}] \in User
      BY <1>1 DEF User, Element
    <3> QED BY <3>1, UsersBodyType DEF CreateNotifyParticipantRemoved
  <2>3. ASSUME NEW a \in BOOLEAN
        PROVE  CreateNotifyParticipantAdminStatusChanged(v, e.who, a) \in Body
    <3>1. [entity |-> e.who, state |-> "partial", role |-> IF a THEN "admin" ELSE "participant",
           endpoints |-> {}] \in User
      BY <1>1 DEF User, Element
    <3> QED BY <3>1, UsersBodyType DEF CreateNotifyParticipantAdminStatusChanged
  <2> QED BY <1>1, <2>1, <2>2, <2>3 DEF CreateNotify
<1>2. CASE e \in [type : {"DeviceAdded", "DeviceRemoved", "DeviceStatusChanged"}, dev : Device]
  <2>1. KnownStatus(conf, e.dev) \in Status \cup {None} BY <1>2, StatusType
  <2>2. CreateNotifyParticipantDeviceAdded(conf, v, e.dev) \in Body
    BY <1>2, <2>1, DeviceBodyType DEF CreateNotifyParticipantDeviceAdded, Element
  <2>3. CreateNotifyParticipantDeviceRemoved(v, e.dev) \in Body
    BY <1>2, DeviceBodyType DEF CreateNotifyParticipantDeviceRemoved, Element
  <2>4. CreateNotifyParticipantDeviceDataChanged(conf, v, e.dev) \in Body
    BY <1>2, <2>1, DeviceBodyType DEF CreateNotifyParticipantDeviceDataChanged, Element
  <2> QED BY <1>2, <2>2, <2>3, <2>4 DEF CreateNotify
<1>3. CASE e \in [type : {"SubjectChanged"}, subject : Subject]
  <2>1. [EmptyBody(v) EXCEPT !.subject = e.subject] \in Body BY <1>3 DEF EmptyBody, Body
  <2> QED BY <1>3, <2>1 DEF CreateNotify, CreateNotifySubjectChanged
<1>4. CASE e \in [type : {"EphemeralLifetimeChanged"}, lifetime : Lifetime]
  <2>1. [EmptyBody(v) EXCEPT !.lifetime = e.lifetime] \in Body BY <1>4 DEF EmptyBody, Body
  <2> QED BY <1>4, <2>1 DEF CreateNotify, CreateNotifyEphemeralLifetime
<1> QED BY <1>1, <1>2, <1>3, <1>4 DEF Event

\* What a full state leaves of a view.
LEMMA ClearType ==
  ASSUME NEW view \in Conf, NEW me \in Participant PROVE ClearParticipants(view, me) \in Conf
BY DEF ClearParticipants, Conf

\* A client reads every status of a device as a state.
LEMMA EndpointStateType ==
  ASSUME NEW old \in DeviceState \cup {Absent}, NEW e \in Endpoint
  PROVE  EndpointState(old, e) \in DeviceState \cup {Absent}
<1>1. ASSUME NEW s \in Status PROVE StateOfStatus(s) \in DeviceState
  BY DEF Status, StateOfStatus, DeviceState, LeavingState
<1>2. e.status \in Status \cup {None} BY DEF Endpoint
<1>3. "Joining" \in DeviceState BY DEF DeviceState
<1> QED BY <1>1, <1>2, <1>3 DEF EndpointState

\* A view stays a conference, whatever document is applied.
LEMMA ViewType ==
  ASSUME NEW view \in Conf, NEW me \in Participant, NEW b \in Body
  PROVE  ApplyBody(view, me, b) \in Conf
<1> DEFINE base == Base(view, me, b)
<1>1. base \in Conf BY ClearType DEF Base
<1> HIDE DEF base
<1>2. ASSUME NEW p \in Participant PROVE MemberAfter(base, me, b, p) \in BOOLEAN
  BY DEF MemberAfter
<1>3. ASSUME NEW p \in Participant PROVE AdminAfter(base, me, b, p) \in BOOLEAN
  BY <1>1 DEF AdminAfter, Conf
<1>4. ASSUME NEW d \in Device PROVE DeviceAfter(base, me, b, d) \in DeviceState \cup {Absent}
  <2> DEFINE told == {e \in UNION {u.endpoints : u \in UpdatedUsers(base, me, b)} : e.entity = d}
  <2>1. told \subseteq Endpoint BY DEF UpdatedUsers, Body, User
  <2>2. base.device[d] \in DeviceState \cup {Absent} BY <1>1 DEF Conf
  <2> HIDE DEF told
  <2>3. told # {} => EndpointState(base.device[d], CHOOSE e \in told : TRUE)
                       \in DeviceState \cup {Absent}
    BY <2>1, <2>2, EndpointStateType
  <2> QED BY <2>2, <2>3 DEF DeviceAfter, told
<1>5. (IF b.subject # None THEN b.subject ELSE view.subject) \in Subject BY DEF Body, Conf
<1>6. (IF b.lifetime # None THEN b.lifetime ELSE view.lifetime) \in Lifetime BY DEF Body, Conf
<1> DEFINE m == [p \in Participant |-> MemberAfter(base, me, b, p)]
           a == [p \in Participant |-> AdminAfter(base, me, b, p)]
           d == [x \in Device |-> DeviceAfter(base, me, b, x)]
           s == IF b.subject # None THEN b.subject ELSE view.subject
           l == IF b.lifetime # None THEN b.lifetime ELSE view.lifetime
<1>7. m \in [Participant -> BOOLEAN] /\ a \in [Participant -> BOOLEAN]
      /\ d \in [Device -> DeviceState \cup {Absent}]
  BY <1>2, <1>3, <1>4
<1>8. s \in Subject /\ l \in Lifetime BY <1>5, <1>6
<1> HIDE DEF m, a, d, s, l
<1>9. [subject |-> s, lifetime |-> l, member |-> m, admin |-> a, device |-> d] \in Conf
  BY <1>7, <1>8 DEF Conf
<1> QED BY <1>9 DEF ApplyBody, base, m, a, d, s, l

-----------------------------------------------------------------------------
(* The server: what every operation on the conference keeps. *)

(* A subscription has a number other than 0. *)
Given == {m \in Answer : m.type = "accepted" => m.sub # 0}

Entry == [id : Nat, event : Event]
Server == [conf : Conf, lastNotify : Nat, saved : Nat, stored : Seq(Entry),
           sub : [Client -> Nat], out : [Client -> Seq(Given)]]

(* The stored numbers grow, and neither counter is below one of them. *)
Counted(srv) ==
  /\ \A i, j \in DOMAIN srv.stored : i < j => srv.stored[i].id < srv.stored[j].id
  /\ \A i \in DOMAIN srv.stored :
       srv.stored[i].id <= srv.lastNotify /\ srv.stored[i].id <= srv.saved

GoodServer == {srv \in Server : Counted(srv)}

Said(srv, c) == {srv.out[c][i] : i \in DOMAIN srv.out[c]}

Terminated(s) == [type |-> "terminated", sub |-> s]

(* A subscription the server drops between a and b is told to be terminated. *)
Kept(a, b) ==
  \A c \in Client :
    /\ Said(a, c) \subseteq Said(b, c)
    /\ b.sub[c] = a.sub[c] \/ Terminated(a.sub[c]) \in Said(b, c)

(* Where an operation may take the server from base. *)
Reach(base) == {srv \in GoodServer : Kept(base, srv)}

\* The server may stay as it is.
LEMMA ReachSelf == ASSUME NEW srv \in GoodServer PROVE srv \in Reach(srv)
BY DEF Reach, Kept

(* A change of the conference alone. *)
LEMMA WithConf ==
  ASSUME NEW base, NEW srv \in Reach(base), NEW conf \in Conf
  PROVE  [srv EXCEPT !.conf = conf] \in Reach(base)
<1> DEFINE n == [srv EXCEPT !.conf = conf]
<1>1. srv \in Server /\ Counted(srv) /\ Kept(base, srv) BY DEF Reach, GoodServer
<1>2. n \in Server BY <1>1 DEF Server
<1>3. n.stored = srv.stored /\ n.out = srv.out /\ n.sub = srv.sub
      /\ n.lastNotify = srv.lastNotify /\ n.saved = srv.saved
  BY <1>1 DEF Server
<1> HIDE DEF n
<1>4. Counted(n) BY <1>1, <1>3 DEF Counted
<1>5. Kept(base, n) BY <1>1, <1>3 DEF Kept, Said
<1>6. n \in Reach(base) BY <1>2, <1>4, <1>5 DEF Reach, GoodServer
<1> QED BY <1>6 DEF n

\* A message is added to those the server has sent.
LEMMA AppendSaid ==
  ASSUME NEW S, NEW q \in Seq(S), NEW m \in S
  PROVE  /\ Append(q, m) \in Seq(S)
         /\ {Append(q, m)[i] : i \in DOMAIN Append(q, m)} = {q[i] : i \in DOMAIN q} \cup {m}
<1>1. Append(q, m) \in Seq(S) OBVIOUS
<1>2. DOMAIN Append(q, m) = DOMAIN q \cup {Len(q) + 1} OBVIOUS
<1>3. \A i \in DOMAIN q : Append(q, m)[i] = q[i] OBVIOUS
<1>4. Append(q, m)[Len(q) + 1] = m OBVIOUS
<1> DEFINE a == Append(q, m)
           k == Len(q) + 1
<1> HIDE DEF a, k
<1>5. {a[i] : i \in DOMAIN a} = {q[i] : i \in DOMAIN q} \cup {m}
  BY <1>2, <1>3, <1>4 DEF a, k
<1> QED BY <1>1, <1>5 DEF a

(* What the server sends as well as before. *)
LEMMA WithOut ==
  ASSUME NEW base, NEW srv \in Reach(base), NEW out \in [Client -> Seq(Given)],
         \A c \in Client : Said(srv, c) \subseteq {out[c][i] : i \in DOMAIN out[c]}
  PROVE  [srv EXCEPT !.out = out] \in Reach(base)
<1> DEFINE n == [srv EXCEPT !.out = out]
<1>1. srv \in Server /\ Counted(srv) /\ Kept(base, srv) BY DEF Reach, GoodServer
<1>2. n \in Server BY <1>1 DEF Server
<1>3. n.stored = srv.stored /\ n.out = out /\ n.sub = srv.sub
      /\ n.lastNotify = srv.lastNotify /\ n.saved = srv.saved
  BY <1>1 DEF Server
<1> HIDE DEF n
<1>4. Counted(n) BY <1>1, <1>3 DEF Counted
<1>5. \A c \in Client : Said(srv, c) \subseteq Said(n, c) BY <1>3 DEF Said
<1>6. Kept(base, n) BY <1>1, <1>3, <1>5 DEF Kept
<1>7. n \in Reach(base) BY <1>2, <1>4, <1>6 DEF Reach, GoodServer
<1> QED BY <1>7 DEF n

\* The server sends one message more.
LEMMA TellReach ==
  ASSUME NEW base, NEW srv \in Reach(base), NEW c \in Client, NEW m \in Given
  PROVE  /\ Tell(srv, c, m) \in Reach(base)
         /\ m \in Said(Tell(srv, c, m), c)
<1> DEFINE out == [srv.out EXCEPT ![c] = Append(srv.out[c], m)]
<1>1. srv \in Server /\ srv.out \in [Client -> Seq(Given)] BY DEF Reach, GoodServer, Server
<1>2. out \in [Client -> Seq(Given)] BY <1>1, AppendSaid
<1>3. {out[c][i] : i \in DOMAIN out[c]} = Said(srv, c) \cup {m}
  <2>1. srv.out[c] \in Seq(Given) /\ out[c] = Append(srv.out[c], m) BY <1>1
  <2> HIDE DEF out
  <2> QED BY <2>1, AppendSaid DEF Said
<1>4. \A x \in Client : x # c => out[x] = srv.out[x] BY <1>1
<1> HIDE DEF out
<1>5. \A x \in Client : Said(srv, x) \subseteq {out[x][i] : i \in DOMAIN out[x]}
  BY <1>3, <1>4 DEF Said
<1>6. Tell(srv, c, m) = [srv EXCEPT !.out = out] BY DEF Tell, out
<1>7. Tell(srv, c, m).out = out BY <1>1, <1>6 DEF Server
<1>8. [srv EXCEPT !.out = out] \in Reach(base) BY <1>2, <1>5, WithOut
<1> QED BY <1>3, <1>6, <1>7, <1>8 DEF Said

\* A change is numbered, notified and stored.
LEMMA PublishReach ==
  ASSUME NEW base, NEW srv \in Reach(base), NEW e \in Event
  PROVE  Publish(srv, e) \in Reach(base)
<1> DEFINE v == srv.lastNotify + 1
           m(c) == Notify(srv.sub[c], <<CreateNotify(srv.conf, v, e)>>)
           out == [c \in Client |-> IF c \in Recipients(srv, e)
                                    THEN Append(srv.out[c], m(c)) ELSE srv.out[c]]
           told == [srv EXCEPT !.lastNotify = v, !.out = out]
           kept == [told EXCEPT !.saved = v, !.stored = Append(told.stored, [id |-> v, event |-> e])]
<1>1. srv \in Server /\ Counted(srv) BY DEF Reach, GoodServer
<1>2. srv.conf \in Conf /\ srv.lastNotify \in Nat /\ srv.saved \in Nat /\ v \in Nat
      /\ srv.sub \in [Client -> Nat]
      /\ srv.out \in [Client -> Seq(Given)] /\ srv.stored \in Seq(Entry)
  BY <1>1 DEF Server
<1>3. ASSUME NEW c \in Client PROVE m(c) \in Given
  <2>1. CreateNotify(srv.conf, v, e) \in Body BY <1>2, DocumentType
  <2>2. srv.sub[c] \in Nat BY <1>2
  <2> DEFINE b == CreateNotify(srv.conf, v, e)
             k == srv.sub[c]
  <2>3. <<b>> \in Seq(Body) BY <2>1
  <2> HIDE DEF b, k
  <2>4. Notify(k, <<b>>) \in Given BY <2>2, <2>3 DEF Notify, Given, Answer, k
  <2> QED BY <2>4 DEF b, k
<1> HIDE DEF m
<1>4. out \in [Client -> Seq(Given)] BY <1>2, <1>3
<1>5. ASSUME NEW c \in Client PROVE Said(srv, c) \subseteq {out[c][i] : i \in DOMAIN out[c]}
  <2>1. CASE c \in Recipients(srv, e)
    <3>1. srv.out[c] \in Seq(Given) /\ out[c] = Append(srv.out[c], m(c)) BY <1>2, <2>1
    <3> HIDE DEF out
    <3> QED BY <1>3, <3>1, AppendSaid DEF Said
  <2>2. CASE c \notin Recipients(srv, e)
    <3>1. out[c] = srv.out[c] BY <2>2
    <3> HIDE DEF out
    <3> QED BY <3>1 DEF Said
  <2> QED BY <2>1, <2>2
<1> HIDE DEF out
<1>6. [srv EXCEPT !.out = out] \in Reach(base) BY <1>4, <1>5, WithOut
<1> DEFINE n == [srv EXCEPT !.out = out]
<1>7. n \in Server /\ Counted(n) /\ Kept(base, n)
      /\ n.stored = srv.stored /\ n.lastNotify = srv.lastNotify /\ n.saved = srv.saved
  BY <1>1, <1>6 DEF Reach, GoodServer, Server
<1>8. told = [n EXCEPT !.lastNotify = v] BY <1>1 DEF Server
<1> HIDE DEF n, told
<1>9. told \in Server /\ told.stored = n.stored /\ told.out = n.out /\ told.sub = n.sub
      /\ told.lastNotify = v /\ told.saved = n.saved
  BY <1>2, <1>7, <1>8 DEF Server
<1>10. ASSUME NEW i \in DOMAIN srv.stored PROVE srv.stored[i].id \in Nat
  <2>1. srv.stored[i] \in Entry BY <1>2
  <2> QED BY <2>1 DEF Entry
<1>11. \A i \in DOMAIN srv.stored : srv.stored[i].id < v /\ srv.stored[i].id <= srv.saved
  BY <1>1, <1>2, <1>10 DEF Counted
<1>12. Kept(base, told) BY <1>7, <1>9 DEF Kept, Said
<1>13. Counted(told) BY <1>1, <1>2, <1>7, <1>9, <1>10, <1>11 DEF Counted
<1>14. told \in Reach(base) BY <1>9, <1>12, <1>13 DEF Reach, GoodServer
<1> DEFINE x == [id |-> v, event |-> e]
           st == Append(srv.stored, x)
<1>15. x \in Entry /\ x.id = v BY <1>2 DEF Entry
<1> HIDE DEF x, v
<1>16. st \in Seq(Entry) /\ DOMAIN st = DOMAIN srv.stored \cup {Len(srv.stored) + 1}
       /\ (\A i \in DOMAIN srv.stored : st[i] = srv.stored[i])
       /\ st[Len(srv.stored) + 1] = x
       /\ \A i \in DOMAIN srv.stored : i < Len(srv.stored) + 1
  BY <1>2, <1>15
<1> HIDE DEF st
<1>17. kept \in Server /\ kept.stored = st /\ kept.out = told.out /\ kept.sub = told.sub
       /\ kept.lastNotify = v /\ kept.saved = v
  BY <1>2, <1>7, <1>9, <1>16 DEF Server, st, x
<1> HIDE DEF kept
<1>18. Kept(base, kept) BY <1>12, <1>17 DEF Kept, Said
<1>19. Counted(kept)
  <2>1. ASSUME NEW i \in DOMAIN st PROVE st[i].id <= v
    BY <1>2, <1>10, <1>11, <1>15, <1>16
  <2>2. ASSUME NEW i \in DOMAIN st, NEW j \in DOMAIN st, i < j PROVE st[i].id < st[j].id
    <3>1. i \in DOMAIN srv.stored BY <1>2, <1>16, <2>2
    <3>2. CASE j \in DOMAIN srv.stored BY <1>1, <1>16, <2>2, <3>1, <3>2 DEF Counted
    <3>3. CASE j = Len(srv.stored) + 1 BY <1>11, <1>15, <1>16, <3>1, <3>3
    <3> QED BY <1>16, <3>2, <3>3
  <2> QED BY <1>17, <2>1, <2>2 DEF Counted
<1>20. kept \in Reach(base) BY <1>17, <1>18, <1>19 DEF Reach, GoodServer
<1>21. Publish(srv, e) = IF Stored(e) THEN kept ELSE told
  BY DEF Publish, kept, told, out, m, v
<1> QED BY <1>14, <1>20, <1>21

\* The server has a conference all along.
LEMMA ReachConf == ASSUME NEW base, NEW srv \in Reach(base) PROVE srv.conf \in Conf
BY DEF Reach, GoodServer, Server

\* A change of the subject.
LEMMA SubjectReach ==
  ASSUME NEW base, NEW srv \in Reach(base), NEW s \in Subject
  PROVE  SetUtf8Subject(srv, s) \in Reach(base)
<1>1. [srv.conf EXCEPT !.subject = s] \in Conf BY ReachConf DEF Conf
<1>2. [srv EXCEPT !.conf.subject = s] \in Reach(base) BY <1>1, WithConf
<1>3. [type |-> "SubjectChanged", subject |-> s] \in Event BY DEF Event
<1> QED BY <1>2, <1>3, PublishReach DEF SetUtf8Subject

\* A change of the lifetime of ephemeral messages.
LEMMA LifetimeReach ==
  ASSUME NEW base, NEW srv \in Reach(base), NEW l \in Lifetime
  PROVE  SetEphemeralLifetime(srv, l) \in Reach(base)
<1>1. [srv.conf EXCEPT !.lifetime = l] \in Conf BY ReachConf DEF Conf
<1>2. [srv EXCEPT !.conf.lifetime = l] \in Reach(base) BY <1>1, WithConf
<1>3. [type |-> "EphemeralLifetimeChanged", lifetime |-> l] \in Event BY DEF Event
<1> QED BY <1>2, <1>3, PublishReach DEF SetEphemeralLifetime

\* A change of a participant's role.
LEMMA AdminReach ==
  ASSUME NEW base, NEW srv \in Reach(base), NEW p \in Participant, NEW a \in BOOLEAN
  PROVE  SetParticipantAdminStatus(srv, p, a) \in Reach(base)
<1>1. [srv.conf EXCEPT !.admin[p] = a] \in Conf BY ReachConf DEF Conf
<1>2. [srv EXCEPT !.conf.admin[p] = a] \in Reach(base) BY <1>1, WithConf
<1>3. [type |-> IF a THEN "SetAdmin" ELSE "UnsetAdmin", who |-> p] \in Event BY DEF Event
<1> QED BY <1>2, <1>3, PublishReach DEF SetParticipantAdminStatus

\* A device changes its state, and nobody is told.
LEMMA WithDevice ==
  ASSUME NEW base, NEW srv \in Reach(base), NEW d \in Device, NEW s \in DeviceState \cup {Absent}
  PROVE  [srv EXCEPT !.conf.device[d] = s] \in Reach(base)
<1>1. [srv.conf EXCEPT !.device[d] = s] \in Conf BY ReachConf DEF Conf
<1> QED BY <1>1, WithConf

\* ParticipantDevice::setState().
LEMMA DeviceStateReach ==
  ASSUME NEW base, NEW srv \in Reach(base), NEW d \in Device, NEW s \in DeviceState
  PROVE  SetParticipantDeviceState(srv, d, s) \in Reach(base)
<1>1. [srv EXCEPT !.conf.device[d] = s] \in Reach(base) BY WithDevice
<1>2. [type |-> "DeviceStatusChanged", dev |-> d] \in Event BY DEF Event
<1> QED BY <1>1, <1>2, PublishReach DEF SetParticipantDeviceState

\* A device that is not leaving has joined.
LEMMA PresentReach ==
  ASSUME NEW base, NEW srv \in Reach(base), NEW d \in Device
  PROVE  MoveDeviceToPresent(srv, d) \in Reach(base)
<1>1. SetParticipantDeviceState(srv, d, "Present") \in Reach(base)
  BY DeviceStateReach DEF DeviceState
<1> QED BY <1>1 DEF MoveDeviceToPresent

\* A joining device has answered a NOTIFY.
LEMMA FirstNotifyReach ==
  ASSUME NEW base, NEW srv \in Reach(base), NEW d \in Device
  PROVE  OnFirstNotifyReceived(srv, d) \in Reach(base)
BY PresentReach DEF OnFirstNotifyReceived

\* A device is invited.
LEMMA InviteReach ==
  ASSUME NEW base, NEW srv \in Reach(base), NEW d \in Device PROVE InviteDevice(srv, d) \in Reach(base)
BY DeviceStateReach DEF InviteDevice, DeviceState

\* A participant whose devices have left is forgotten.
LEMMA ForgetReach ==
  ASSUME NEW base, NEW srv \in Reach(base), NEW p \in Participant
  PROVE  ForgetIfLeft(srv, p) \in Reach(base)
<1> DEFINE f == [d \in Device |-> IF Owner[d] = p THEN Absent ELSE srv.conf.device[d]]
<1>1. srv.conf.device \in [Device -> DeviceState \cup {Absent}] BY ReachConf DEF Conf
<1>2. f \in [Device -> DeviceState \cup {Absent}] BY <1>1
<1> HIDE DEF f
<1>3. [srv.conf EXCEPT !.device = f] \in Conf BY <1>2, ReachConf DEF Conf
<1>4. [srv EXCEPT !.conf.device = f] \in Reach(base) BY <1>3, WithConf
<1> QED BY <1>4 DEF ForgetIfLeft, f

\* A device has left.
LEMMA LeftReach ==
  ASSUME NEW base, NEW srv \in Reach(base), NEW d \in Device PROVE SetDeviceLeft(srv, d) \in Reach(base)
<1>1. SetParticipantDeviceState(srv, d, "Left") \in Reach(base)
  BY DeviceStateReach DEF DeviceState, LeavingState
<1> QED BY <1>1, ForgetReach, OwnerAssumption DEF SetDeviceLeft

\* A participant enters or leaves, and this is published.
LEMMA MemberReach ==
  ASSUME NEW base, NEW srv \in Reach(base), NEW p \in Participant, NEW m \in BOOLEAN, NEW e \in Event
  PROVE  Publish([srv EXCEPT !.conf.member[p] = m], e) \in Reach(base)
<1>1. [srv.conf EXCEPT !.member[p] = m] \in Conf BY ReachConf DEF Conf
<1>2. [srv EXCEPT !.conf.member[p] = m] \in Reach(base) BY <1>1, WithConf
<1> QED BY <1>2, PublishReach

\* A participant enters.
LEMMA AddToListReach ==
  ASSUME NEW base, NEW srv \in Reach(base), NEW p \in Participant
  PROVE  AddParticipantToList(srv, p) \in Reach(base)
<1>1. [type |-> "ParticipantAdded", who |-> p] \in Event BY DEF Event
<1> QED BY <1>1, MemberReach DEF AddParticipantToList

\* A device is added.
LEMMA AddDeviceReach ==
  ASSUME NEW base, NEW srv \in Reach(base), NEW d \in Device
  PROVE  AddParticipantDevice(srv, d) \in Reach(base)
<1>1. [srv EXCEPT !.conf.device[d] = "Joining"] \in Reach(base) BY WithDevice DEF DeviceState
<1>2. [type |-> "DeviceAdded", dev |-> d] \in Event BY DEF Event
<1>3. Publish([srv EXCEPT !.conf.device[d] = "Joining"], [type |-> "DeviceAdded", dev |-> d])
        \in Reach(base)
  BY <1>1, <1>2, PublishReach
<1> QED BY <1>3, DeviceStateReach DEF AddParticipantDevice, DeviceState

\* Somebody becomes administrator when nobody is.
LEMMA ChooseAdminReach ==
  ASSUME NEW base, NEW srv \in Reach(base), NEW p \in Participant
  PROVE  ChooseAnotherAdmin(srv, p) \in Reach(base)
BY AdminReach DEF ChooseAnotherAdmin

(* A subscription ends, and its device is told so. *)
LEMMA WithoutSub ==
  ASSUME NEW base, NEW srv \in Reach(base), NEW c \in Client,
         Terminated(srv.sub[c]) \in Said(srv, c),
         base.sub[c] = srv.sub[c] \/ Terminated(base.sub[c]) \in Said(srv, c),
         NEW s \in Nat
  PROVE  [srv EXCEPT !.sub[c] = s] \in Reach(base)
<1> DEFINE n == [srv EXCEPT !.sub[c] = s]
<1>1. srv \in Server /\ Counted(srv) /\ Kept(base, srv) BY DEF Reach, GoodServer
<1>2. n \in Server BY <1>1 DEF Server
<1>3. n.stored = srv.stored /\ n.out = srv.out /\ n.sub = [srv.sub EXCEPT ![c] = s]
      /\ n.lastNotify = srv.lastNotify /\ n.saved = srv.saved /\ srv.sub \in [Client -> Nat]
  BY <1>1 DEF Server
<1> HIDE DEF n
<1>4. Counted(n) BY <1>1, <1>3 DEF Counted
<1>5. \A x \in Client : Said(n, x) = Said(srv, x) BY <1>3 DEF Said
<1>6. Kept(base, n)
  <2> SUFFICES ASSUME NEW x \in Client
               PROVE  /\ Said(base, x) \subseteq Said(n, x)
                      /\ n.sub[x] = base.sub[x] \/ Terminated(base.sub[x]) \in Said(n, x)
    BY DEF Kept
  <2>1. CASE x = c BY <1>1, <1>5, <2>1 DEF Kept
  <2>2. CASE x # c BY <1>1, <1>3, <1>5, <2>2 DEF Kept
  <2> QED BY <2>1, <2>2
<1>7. n \in Reach(base) BY <1>2, <1>4, <1>6 DEF Reach, GoodServer
<1> QED BY <1>7 DEF n

\* A device is removed, and its subscription with it: it is told so.
LEMMA RemoveDeviceReach ==
  ASSUME NEW base, NEW srv \in Reach(base), NEW d \in Device
  PROVE  RemoveParticipantDevice(srv, d) \in Reach(base)
<1> DEFINE told == Publish(srv, [type |-> "DeviceRemoved", dev |-> d])
           gone == ForgetIfLeft([told EXCEPT !.conf.device[d] = Absent], Owner[d])
           t == Terminated(srv.sub[d])
           said == Tell(gone, d, t)
<1>1. [type |-> "DeviceRemoved", dev |-> d] \in Event /\ Owner[d] \in Participant
  BY OwnerAssumption DEF Event
<1>2. told \in Reach(base) BY <1>1, PublishReach
<1>3. told.sub = srv.sub
  BY DEF Publish, Reach, GoodServer, Server
<1> HIDE DEF told
<1>4. [told EXCEPT !.conf.device[d] = Absent] \in Reach(base) BY <1>2, WithDevice
<1>5. gone \in Reach(base) BY <1>1, <1>4, ForgetReach
<1>6. gone.sub = srv.sub
  <2>1. told \in Server BY <1>2 DEF Reach, GoodServer
  <2> QED BY <1>3, <2>1 DEF ForgetIfLeft, Server
<1> HIDE DEF gone
<1>7. ASSUME d \in Client, srv.sub[d] # 0
      PROVE  [said EXCEPT !.sub[d] = 0] \in Reach(base)
  <2>1. gone \in Server /\ srv.sub[d] \in Nat BY <1>5, <1>6, <1>7 DEF Reach, GoodServer, Server
  <2>2. t \in Given BY <2>1 DEF Given, Answer, Terminated
  <2>3. said.sub = srv.sub BY <1>6, <2>1 DEF Tell, Server
  <2> HIDE DEF t
  <2>4. said \in Reach(base) /\ t \in Said(said, d) BY <1>5, <1>7, <2>2, TellReach
  <2> HIDE DEF said
  <2>5. base.sub[d] = said.sub[d] \/ Terminated(base.sub[d]) \in Said(said, d)
    BY <1>7, <2>4 DEF Reach, Kept
  <2> QED BY <1>7, <2>3, <2>4, <2>5, WithoutSub DEF t
<1> QED BY <1>5, <1>7 DEF RemoveParticipantDevice, gone, told, said, t, Terminated

(* The devices the server invites, adds or removes one by one. *)

\* The devices of a set are invited.
LEMMA InviteFold ==
  ASSUME NEW D, IsFiniteSet(D), NEW X, NEW b \in X,
         \A d \in D, x \in X : InviteDevice(x, d) \in X
  PROVE  FoldSet(LAMBDA d, x : InviteDevice(x, d), b, D) \in X
<1> DEFINE op(d, x) == InviteDevice(x, d)
           ch == [s \in SUBSET D |-> CHOOSE x \in s : TRUE]
           F == [d \in D |-> [x \in X |-> op(d, x)]]
           Solves(f) == f = [s \in SUBSET D |->
             IF s = {} THEN b
             ELSE op(CHOOSE x \in s : TRUE, f[s \ {CHOOSE x \in s : TRUE}])]
           g == CHOOSE f : Solves(f)
<1> HIDE DEF op
<1>1. Chooser(ch, D) BY DEF Chooser
<1>2. F \in [D -> [X -> X]] BY DEF op
<1> HIDE DEF F, ch
<1>3. PICK f \in [SUBSET D -> X] : IsFold(f, F, b, ch, D)
  BY <1>1, <1>2, FoldExists, Zenon
<1>4. Solves(f)
  <2>1. ASSUME NEW s \in (SUBSET D) \ {{}}
        PROVE  f[s] = op(ch[s], f[s \ {ch[s]}])
    <3>1. ch[s] \in D /\ f[s \ {ch[s]}] \in X BY <1>1 DEF Chooser
    <3> QED BY <1>3, <3>1 DEF F, IsFold
  <2> QED BY <1>3, <2>1 DEF ch, IsFold
<1>5. Solves(g) BY <1>4, Zenon
<1> HIDE DEF g
<1>6. ASSUME NEW s \in (SUBSET D) \ {{}}, g[s \ {ch[s]}] \in X
      PROVE  g[s] = F[ch[s]][g[s \ {ch[s]}]]
  <2>1. ch[s] \in D BY <1>1 DEF Chooser
  <2>2. g[s] = op(ch[s], g[s \ {ch[s]}]) BY <1>5 DEF ch
  <2> QED BY <1>6, <2>1, <2>2 DEF F
<1>7. FoldsIn(X, g, F, b, ch, D) BY <1>5, <1>6 DEF FoldsIn
<1>8. g[D] \in X BY <1>1, <1>2, <1>7, FoldType, Zenon
<1> QED BY <1>8, Zenon DEF FoldSet, MapThenFoldSet, g, op

\* The devices of a set are scheduled for joining and invited.
LEMMA RejoinFold ==
  ASSUME NEW D, IsFiniteSet(D), NEW X, NEW b \in X,
         \A d \in D, x \in X : InviteDevice(SetParticipantDeviceState(x, d, "ScheduledForJoining"), d) \in X
  PROVE  FoldSet(LAMBDA d, x : InviteDevice(SetParticipantDeviceState(x, d, "ScheduledForJoining"), d), b, D) \in X
<1> DEFINE op(d, x) == InviteDevice(SetParticipantDeviceState(x, d, "ScheduledForJoining"), d)
           ch == [s \in SUBSET D |-> CHOOSE x \in s : TRUE]
           F == [d \in D |-> [x \in X |-> op(d, x)]]
           Solves(f) == f = [s \in SUBSET D |->
             IF s = {} THEN b
             ELSE op(CHOOSE x \in s : TRUE, f[s \ {CHOOSE x \in s : TRUE}])]
           g == CHOOSE f : Solves(f)
<1> HIDE DEF op
<1>1. Chooser(ch, D) BY DEF Chooser
<1>2. F \in [D -> [X -> X]] BY DEF op
<1> HIDE DEF F, ch
<1>3. PICK f \in [SUBSET D -> X] : IsFold(f, F, b, ch, D)
  BY <1>1, <1>2, FoldExists, Zenon
<1>4. Solves(f)
  <2>1. ASSUME NEW s \in (SUBSET D) \ {{}}
        PROVE  f[s] = op(ch[s], f[s \ {ch[s]}])
    <3>1. ch[s] \in D /\ f[s \ {ch[s]}] \in X BY <1>1 DEF Chooser
    <3> QED BY <1>3, <3>1 DEF F, IsFold
  <2> QED BY <1>3, <2>1 DEF ch, IsFold
<1>5. Solves(g) BY <1>4, Zenon
<1> HIDE DEF g
<1>6. ASSUME NEW s \in (SUBSET D) \ {{}}, g[s \ {ch[s]}] \in X
      PROVE  g[s] = F[ch[s]][g[s \ {ch[s]}]]
  <2>1. ch[s] \in D BY <1>1 DEF Chooser
  <2>2. g[s] = op(ch[s], g[s \ {ch[s]}]) BY <1>5 DEF ch
  <2> QED BY <1>6, <2>1, <2>2 DEF F
<1>7. FoldsIn(X, g, F, b, ch, D) BY <1>5, <1>6 DEF FoldsIn
<1>8. g[D] \in X BY <1>1, <1>2, <1>7, FoldType, Zenon
<1> QED BY <1>8, Zenon DEF FoldSet, MapThenFoldSet, g, op

\* The devices of a set leave.
LEMMA LeaveFold ==
  ASSUME NEW D, IsFiniteSet(D), NEW X, NEW b \in X,
         \A d \in D, x \in X : SetParticipantDeviceState(
           SetParticipantDeviceState(x, d, "ScheduledForLeaving"), d, "Leaving") \in X
  PROVE  FoldSet(LAMBDA d, x : SetParticipantDeviceState(
           SetParticipantDeviceState(x, d, "ScheduledForLeaving"), d, "Leaving"), b, D) \in X
<1> DEFINE op(d, x) == SetParticipantDeviceState(
           SetParticipantDeviceState(x, d, "ScheduledForLeaving"), d, "Leaving")
           ch == [s \in SUBSET D |-> CHOOSE x \in s : TRUE]
           F == [d \in D |-> [x \in X |-> op(d, x)]]
           Solves(f) == f = [s \in SUBSET D |->
             IF s = {} THEN b
             ELSE op(CHOOSE x \in s : TRUE, f[s \ {CHOOSE x \in s : TRUE}])]
           g == CHOOSE f : Solves(f)
<1> HIDE DEF op
<1>1. Chooser(ch, D) BY DEF Chooser
<1>2. F \in [D -> [X -> X]] BY DEF op
<1> HIDE DEF F, ch
<1>3. PICK f \in [SUBSET D -> X] : IsFold(f, F, b, ch, D)
  BY <1>1, <1>2, FoldExists, Zenon
<1>4. Solves(f)
  <2>1. ASSUME NEW s \in (SUBSET D) \ {{}}
        PROVE  f[s] = op(ch[s], f[s \ {ch[s]}])
    <3>1. ch[s] \in D /\ f[s \ {ch[s]}] \in X BY <1>1 DEF Chooser
    <3> QED BY <1>3, <3>1 DEF F, IsFold
  <2> QED BY <1>3, <2>1 DEF ch, IsFold
<1>5. Solves(g) BY <1>4, Zenon
<1> HIDE DEF g
<1>6. ASSUME NEW s \in (SUBSET D) \ {{}}, g[s \ {ch[s]}] \in X
      PROVE  g[s] = F[ch[s]][g[s \ {ch[s]}]]
  <2>1. ch[s] \in D BY <1>1 DEF Chooser
  <2>2. g[s] = op(ch[s], g[s \ {ch[s]}]) BY <1>5 DEF ch
  <2> QED BY <1>6, <2>1, <2>2 DEF F
<1>7. FoldsIn(X, g, F, b, ch, D) BY <1>5, <1>6 DEF FoldsIn
<1>8. g[D] \in X BY <1>1, <1>2, <1>7, FoldType, Zenon
<1> QED BY <1>8, Zenon DEF FoldSet, MapThenFoldSet, g, op

\* The devices of a set are added.
LEMMA AddFold ==
  ASSUME NEW D, IsFiniteSet(D), NEW X, NEW b \in X,
         \A d \in D, x \in X : AddParticipantDevice(x, d) \in X
  PROVE  FoldSet(LAMBDA d, x : AddParticipantDevice(x, d), b, D) \in X
<1> DEFINE op(d, x) == AddParticipantDevice(x, d)
           ch == [s \in SUBSET D |-> CHOOSE x \in s : TRUE]
           F == [d \in D |-> [x \in X |-> op(d, x)]]
           Solves(f) == f = [s \in SUBSET D |->
             IF s = {} THEN b
             ELSE op(CHOOSE x \in s : TRUE, f[s \ {CHOOSE x \in s : TRUE}])]
           g == CHOOSE f : Solves(f)
<1> HIDE DEF op
<1>1. Chooser(ch, D) BY DEF Chooser
<1>2. F \in [D -> [X -> X]] BY DEF op
<1> HIDE DEF F, ch
<1>3. PICK f \in [SUBSET D -> X] : IsFold(f, F, b, ch, D)
  BY <1>1, <1>2, FoldExists, Zenon
<1>4. Solves(f)
  <2>1. ASSUME NEW s \in (SUBSET D) \ {{}}
        PROVE  f[s] = op(ch[s], f[s \ {ch[s]}])
    <3>1. ch[s] \in D /\ f[s \ {ch[s]}] \in X BY <1>1 DEF Chooser
    <3> QED BY <1>3, <3>1 DEF F, IsFold
  <2> QED BY <1>3, <2>1 DEF ch, IsFold
<1>5. Solves(g) BY <1>4, Zenon
<1> HIDE DEF g
<1>6. ASSUME NEW s \in (SUBSET D) \ {{}}, g[s \ {ch[s]}] \in X
      PROVE  g[s] = F[ch[s]][g[s \ {ch[s]}]]
  <2>1. ch[s] \in D BY <1>1 DEF Chooser
  <2>2. g[s] = op(ch[s], g[s \ {ch[s]}]) BY <1>5 DEF ch
  <2> QED BY <1>6, <2>1, <2>2 DEF F
<1>7. FoldsIn(X, g, F, b, ch, D) BY <1>5, <1>6 DEF FoldsIn
<1>8. g[D] \in X BY <1>1, <1>2, <1>7, FoldType, Zenon
<1> QED BY <1>8, Zenon DEF FoldSet, MapThenFoldSet, g, op

\* The devices of a set are removed.
LEMMA RemoveFold ==
  ASSUME NEW D, IsFiniteSet(D), NEW X, NEW b \in X,
         \A d \in D, x \in X : RemoveParticipantDevice(x, d) \in X
  PROVE  FoldSet(LAMBDA d, x : RemoveParticipantDevice(x, d), b, D) \in X
<1> DEFINE op(d, x) == RemoveParticipantDevice(x, d)
           ch == [s \in SUBSET D |-> CHOOSE x \in s : TRUE]
           F == [d \in D |-> [x \in X |-> op(d, x)]]
           Solves(f) == f = [s \in SUBSET D |->
             IF s = {} THEN b
             ELSE op(CHOOSE x \in s : TRUE, f[s \ {CHOOSE x \in s : TRUE}])]
           g == CHOOSE f : Solves(f)
<1> HIDE DEF op
<1>1. Chooser(ch, D) BY DEF Chooser
<1>2. F \in [D -> [X -> X]] BY DEF op
<1> HIDE DEF F, ch
<1>3. PICK f \in [SUBSET D -> X] : IsFold(f, F, b, ch, D)
  BY <1>1, <1>2, FoldExists, Zenon
<1>4. Solves(f)
  <2>1. ASSUME NEW s \in (SUBSET D) \ {{}}
        PROVE  f[s] = op(ch[s], f[s \ {ch[s]}])
    <3>1. ch[s] \in D /\ f[s \ {ch[s]}] \in X BY <1>1 DEF Chooser
    <3> QED BY <1>3, <3>1 DEF F, IsFold
  <2> QED BY <1>3, <2>1 DEF ch, IsFold
<1>5. Solves(g) BY <1>4, Zenon
<1> HIDE DEF g
<1>6. ASSUME NEW s \in (SUBSET D) \ {{}}, g[s \ {ch[s]}] \in X
      PROVE  g[s] = F[ch[s]][g[s \ {ch[s]}]]
  <2>1. ch[s] \in D BY <1>1 DEF Chooser
  <2>2. g[s] = op(ch[s], g[s \ {ch[s]}]) BY <1>5 DEF ch
  <2> QED BY <1>6, <2>1, <2>2 DEF F
<1>7. FoldsIn(X, g, F, b, ch, D) BY <1>5, <1>6 DEF FoldsIn
<1>8. g[D] \in X BY <1>1, <1>2, <1>7, FoldType, Zenon
<1> QED BY <1>8, Zenon DEF FoldSet, MapThenFoldSet, g, op

\* The operations that go through a set of devices end.
LEMMA DeviceSetFinite == ASSUME NEW D \in SUBSET Device PROVE IsFiniteSet(D)
BY FS_Subset, ClientAssumption

\* The devices that wait are invited.
LEMMA SessionsReach ==
  ASSUME NEW base, NEW srv \in Reach(base)
  PROVE  UpdateParticipantsSessions(srv) \in Reach(base)
<1> DEFINE D == {d \in Device : srv.conf.member[Owner[d]]
                                /\ srv.conf.device[d] = "ScheduledForJoining"}
<1>1. IsFiniteSet(D) BY DeviceSetFinite
<1>2. \A d \in D, x \in Reach(base) : InviteDevice(x, d) \in Reach(base) BY InviteReach
<1> HIDE DEF D
<1>3. FoldSet(LAMBDA d, x : InviteDevice(x, d), srv, D) \in Reach(base)
  BY <1>1, <1>2, InviteFold, Zenon
<1> QED BY <1>3, Zenon DEF UpdateParticipantsSessions, D

\* A participant that is leaving is added again.
LEMMA ResumeReach ==
  ASSUME NEW base, NEW srv \in Reach(base), NEW p \in Participant
  PROVE  ResumeParticipant(srv, p) \in Reach(base)
<1> DEFINE D == {d \in DevicesOf(p) : srv.conf.device[d] \in LeavingState}
           first == AddParticipantToList(srv, p)
<1>1. D \in SUBSET Device BY DEF DevicesOf
<1>2. IsFiniteSet(D) BY <1>1, DeviceSetFinite
<1>3. ASSUME NEW d \in D, NEW x \in Reach(base)
      PROVE  InviteDevice(SetParticipantDeviceState(x, d, "ScheduledForJoining"), d) \in Reach(base)
  <2>1. SetParticipantDeviceState(x, d, "ScheduledForJoining") \in Reach(base)
    BY <1>1, DeviceStateReach DEF DeviceState
  <2> QED BY <1>1, <2>1, InviteReach
<1>4. first \in Reach(base) BY AddToListReach
<1> HIDE DEF D, first
<1>5. FoldSet(LAMBDA d, x : InviteDevice(SetParticipantDeviceState(x, d, "ScheduledForJoining"), d),
              first, D) \in Reach(base)
  BY <1>2, <1>3, <1>4, RejoinFold, Zenon
<1> QED BY <1>5, Zenon DEF ResumeParticipant, D, first

\* A participant is removed.
LEMMA RemoveReach ==
  ASSUME NEW base, NEW srv \in Reach(base), NEW p \in Participant, NEW heir \in Participant
  PROVE  RemoveParticipant(srv, p, heir) \in Reach(base)
<1> DEFINE D == {d \in DevicesOf(p) : srv.conf.device[d] \notin {"Leaving", "Left", Absent}}
           demoted == SetParticipantAdminStatus(srv, p, FALSE)
           left == FoldSet(LAMBDA d, x : SetParticipantDeviceState(
                     SetParticipantDeviceState(x, d, "ScheduledForLeaving"), d, "Leaving"),
                     demoted, D)
           removed == Publish([left EXCEPT !.conf.member[p] = FALSE],
                              [type |-> "ParticipantRemoved", who |-> p])
<1>1. D \in SUBSET Device BY DEF DevicesOf
<1>2. IsFiniteSet(D) BY <1>1, DeviceSetFinite
<1>3. ASSUME NEW d \in D, NEW x \in Reach(base)
      PROVE  SetParticipantDeviceState(
               SetParticipantDeviceState(x, d, "ScheduledForLeaving"), d, "Leaving") \in Reach(base)
  <2>1. SetParticipantDeviceState(x, d, "ScheduledForLeaving") \in Reach(base)
    BY <1>1, DeviceStateReach DEF DeviceState, LeavingState
  <2> QED BY <1>1, <2>1, DeviceStateReach DEF DeviceState, LeavingState
<1>4. demoted \in Reach(base) BY AdminReach
<1> HIDE DEF D, demoted
<1>5. left \in Reach(base) BY <1>2, <1>3, <1>4, LeaveFold, Zenon
<1>6. [type |-> "ParticipantRemoved", who |-> p] \in Event BY DEF Event
<1> HIDE DEF left
<1>7. removed \in Reach(base) BY <1>5, <1>6, MemberReach
<1> HIDE DEF removed
<1>8. ChooseAnotherAdmin(removed, heir) \in Reach(base) BY <1>7, ChooseAdminReach
<1> QED BY <1>8, Zenon DEF RemoveParticipant, D, demoted, left, removed

\* A participant leaves.
LEMMA ByeReach ==
  ASSUME NEW base, NEW srv \in Reach(base), NEW d \in Device, NEW heir \in Participant
  PROVE  OnBye(srv, d, heir) \in Reach(base)
<1>1. SetParticipantDeviceState(srv, d, "Leaving") \in Reach(base)
  BY DeviceStateReach DEF DeviceState, LeavingState
<1>2. RemoveParticipant(SetParticipantDeviceState(srv, d, "Leaving"), Owner[d], heir) \in Reach(base)
  BY <1>1, RemoveReach, OwnerAssumption
<1> QED BY <1>2, LeftReach DEF OnBye

\* The devices a participant is registered with change.
LEMMA DevicesReach ==
  ASSUME NEW base, NEW srv \in Reach(base), NEW p \in Participant, NEW ds \in SUBSET DevicesOf(p)
  PROVE  SetParticipantDevices(srv, p, ds) \in Reach(base)
<1> DEFINE joined == IF Invited(srv.conf, p) THEN srv ELSE AddParticipantToList(srv, p)
           new == {d \in ds : joined.conf.member[p] /\ srv.conf.device[d] = Absent}
           old == {d \in DevicesOf(p) \ ds : srv.conf.device[d] # Absent}
           added == FoldSet(LAMBDA d, x : AddParticipantDevice(x, d), joined, new)
           removed == FoldSet(LAMBDA d, x : RemoveParticipantDevice(x, d), added, old)
<1>1. new \in SUBSET Device /\ old \in SUBSET Device BY DEF DevicesOf
<1>2. IsFiniteSet(new) /\ IsFiniteSet(old) BY <1>1, DeviceSetFinite
<1>3. joined \in Reach(base) BY AddToListReach
<1>4. \A d \in new, x \in Reach(base) : AddParticipantDevice(x, d) \in Reach(base)
  BY <1>1, AddDeviceReach
<1>5. \A d \in old, x \in Reach(base) : RemoveParticipantDevice(x, d) \in Reach(base)
  BY <1>1, RemoveDeviceReach
<1> HIDE DEF joined, new, old
<1>6. added \in Reach(base) BY <1>2, <1>3, <1>4, AddFold, Zenon
<1> HIDE DEF added
<1>7. removed \in Reach(base) BY <1>2, <1>5, <1>6, RemoveFold, Zenon
<1> HIDE DEF removed
<1>8. UpdateParticipantsSessions(removed) \in Reach(base) BY <1>7, SessionsReach
<1> QED BY <1>8, Zenon DEF SetParticipantDevices, joined, new, old, added, removed

(* q holds only changes numbered above seen, and the last one is not below a *)
(* change of st numbered by s; without one, none of those is above seen.      *)
Covers(q, st, seen, s) ==
  /\ q \in Seq(Entry)
  /\ q = <<>> => \A i \in s : st[i].id <= seen
  /\ q # <<>> => Last(q).id > seen /\ \A i \in s : st[i].id <= Last(q).id

\* What createNotifyMultipart() finds in the database: its last change is the
\* last one that is stored.
LEMMA MissedLast ==
  ASSUME NEW srv \in GoodServer, NEW seen \in Nat
  PROVE  Covers(Missed(srv, seen), srv.stored, seen, DOMAIN srv.stored)
<1> DEFINE st == srv.stored
           D == DOMAIN st
           X == Seq(Entry)
           op(q, i) == IF st[i].id > seen THEN Append(q, st[i]) ELSE q
           ch == [s \in SUBSET D |-> Max(s)]
           F == [i \in D |-> [q \in X |-> op(q, i)]]
           Solves(f) == f = [s \in SUBSET D |->
             IF s = {} THEN <<>> ELSE op(f[s \ {Max(s)}], Max(s))]
           g == CHOOSE f : Solves(f)
<1>1. st \in Seq(Entry) /\ D = 1 .. Len(st) /\ Len(st) \in Nat /\ Counted(srv)
  BY DEF GoodServer, Server
<1>2. ASSUME NEW i \in D PROVE st[i] \in Entry /\ st[i].id \in Nat
  <2>1. st[i] \in Entry BY <1>1
  <2> QED BY <2>1 DEF Entry
<1>3. \A i, j \in D : i <= j => st[i].id <= st[j].id
  BY <1>1, <1>2 DEF Counted
<1> HIDE DEF st, D
<1>4. IsFiniteSet(D) BY <1>1, FS_Interval
<1>5. \A s \in (SUBSET D) \ {{}} : Max(s) \in s /\ \A y \in s : y <= Max(s)
  BY <1>1, MaxChooses
<1>6. Chooser(ch, D) BY <1>5 DEF Chooser
<1>7. \A i \in D, q \in X : op(q, i) \in X BY <1>2
<1>8. F \in [D -> [X -> X]] BY <1>7
<1>9. <<>> \in X OBVIOUS
<1> HIDE DEF F, ch, op, X
<1>10. PICK f \in [SUBSET D -> X] : IsFold(f, F, <<>>, ch, D)
  BY <1>4, <1>6, <1>8, <1>9, FoldExists, Zenon
<1>11. Solves(f)
  <2>1. ASSUME NEW s \in (SUBSET D) \ {{}}
        PROVE  f[s] = op(f[s \ {ch[s]}], ch[s])
    <3>1. ch[s] \in D /\ f[s \ {ch[s]}] \in X BY <1>6 DEF Chooser
    <3> QED BY <1>10, <3>1 DEF F, IsFold
  <2> QED BY <1>10, <2>1 DEF ch, IsFold
<1>12. Solves(g) BY <1>11, Zenon
<1> HIDE DEF g
<1> DEFINE T == {s \in SUBSET D : Covers(g[s], st, seen, s)}
<1>13. {} \in T
  <2>1. g[{}] = <<>> BY <1>12
  <2> QED BY <1>9, <2>1 DEF Covers, X
<1>14. ASSUME NEW s \in (SUBSET D) \ {{}}, s \ {ch[s]} \in T PROVE s \in T
  <2> DEFINE m == Max(s)
             r == s \ {m}
             q == g[r]
  <2>1. m \in s /\ m \in D /\ m = ch[s] /\ \A y \in s : y <= m BY <1>5 DEF ch
  <2>2. g[s] = op(q, m) BY <1>12
  <2>3. Covers(q, st, seen, r) BY <1>14, <2>1
  <2> HIDE DEF m, q
  <2>4. \A i \in s : st[i].id \in Nat /\ st[i].id <= st[m].id BY <1>2, <1>3, <2>1
  <2>5. CASE st[m].id > seen
    <3>1. g[s] = Append(q, st[m]) BY <2>2, <2>5 DEF op
    <3>2. Append(q, st[m]) \in Seq(Entry) /\ Append(q, st[m]) # <<>>
          /\ Last(Append(q, st[m])) = st[m]
      BY <1>2, <2>1, <2>3 DEF Covers, Last
    <3> QED BY <2>4, <2>5, <3>1, <3>2 DEF Covers
  <2>6. CASE ~(st[m].id > seen)
    <3>1. g[s] = q BY <2>2, <2>6 DEF op
    <3>2. \A i \in s : st[i].id <= seen BY <1>2, <2>1, <2>4, <2>6
    <3>3. q # <<>> => Last(q).id \in Nat
      <4>1. q # <<>> => Last(q) \in Entry BY <2>3 DEF Covers, Last
      <4> QED BY <4>1 DEF Entry
    <3>4. q # <<>> => Last(q).id > seen /\ \A i \in s : st[i].id <= Last(q).id
      BY <2>3, <2>4, <3>2, <3>3 DEF Covers
    <3> QED BY <2>3, <3>1, <3>2, <3>4 DEF Covers
  <2> QED BY <2>5, <2>6
<1> HIDE DEF T
<1>15. Grows(T, ch, D) BY <1>13, <1>14 DEF Grows
<1>16. D \in T BY <1>4, <1>6, <1>15, SubsetInduction
<1>17. Missed(srv, seen) = g[D]
  BY Zenon DEF Missed, FoldLeft, MapThenFoldSet, g, op, st, D
<1> QED BY <1>16, <1>17 DEF T, D, st

-----------------------------------------------------------------------------
(* Subscriptions: a SUBSCRIBE of client c leaves the other clients what they *)
(* have, and c is subscribed by it or told that it is not.                    *)

Declined(s) == [type |-> "declined", sub |-> s]

(* Subscription s of client c is held, or the server says that it is not. *)
Answered(srv, c, s) ==
  srv.sub[c] = s \/ Declined(s) \in Said(srv, c) \/ Terminated(s) \in Said(srv, c)

KeptExcept(a, b, c) ==
  \A x \in Client \ {c} :
    /\ Said(a, x) \subseteq Said(b, x)
    /\ b.sub[x] = a.sub[x] \/ Terminated(a.sub[x]) \in Said(b, x)

(* Where the server may get from base, whatever becomes of client c. *)
ReachBut(base, c) == {srv \in GoodServer : KeptExcept(base, srv, c)}

\* What the server does for all clients after what it did for c.
LEMMA ReachIsReachBut ==
  ASSUME NEW base, NEW c, NEW x \in ReachBut(base, c), NEW y \in Reach(x)
  PROVE  /\ y \in ReachBut(base, c)
         /\ \A s \in Nat : c \in Client /\ Answered(x, c, s) => Answered(y, c, s)
<1>1. y \in GoodServer /\ Kept(x, y) /\ KeptExcept(base, x, c) BY DEF Reach, ReachBut
<1>2. KeptExcept(base, y, c) BY <1>1 DEF Kept, KeptExcept
<1>3. \A s \in Nat : c \in Client /\ Answered(x, c, s) => Answered(y, c, s)
  BY <1>1 DEF Kept, Answered
<1> QED BY <1>1, <1>2, <1>3 DEF ReachBut

\* Whatever subscription of c the server holds then.
LEMMA WithSub ==
  ASSUME NEW base, NEW c \in Client, NEW srv \in ReachBut(base, c), NEW s \in Nat
  PROVE  /\ [srv EXCEPT !.sub[c] = s] \in ReachBut(base, c)
         /\ Said([srv EXCEPT !.sub[c] = s], c) = Said(srv, c)
         /\ [srv EXCEPT !.sub[c] = s].sub[c] = s
<1> DEFINE n == [srv EXCEPT !.sub[c] = s]
<1>1. srv \in Server /\ Counted(srv) /\ KeptExcept(base, srv, c) BY DEF ReachBut, GoodServer
<1>2. n \in Server BY <1>1 DEF Server
<1>3. n.stored = srv.stored /\ n.out = srv.out /\ n.sub = [srv.sub EXCEPT ![c] = s]
      /\ n.lastNotify = srv.lastNotify /\ n.saved = srv.saved /\ srv.sub \in [Client -> Nat]
  BY <1>1 DEF Server
<1> HIDE DEF n
<1>4. Counted(n) BY <1>1, <1>3 DEF Counted
<1>5. \A x \in Client : Said(n, x) = Said(srv, x) BY <1>3 DEF Said
<1>6. KeptExcept(base, n, c) BY <1>1, <1>3, <1>5 DEF KeptExcept
<1>7. n \in ReachBut(base, c) /\ Said(n, c) = Said(srv, c) /\ n.sub[c] = s
  BY <1>2, <1>3, <1>4, <1>5, <1>6 DEF ReachBut, GoodServer
<1> QED BY <1>7 DEF n

\* The end of subscription s leaves any other one.
LEMMA TerminatedReach ==
  ASSUME NEW base, NEW c \in Client, NEW srv \in ReachBut(base, c), NEW s \in Nat
  PROVE  /\ SubscriptionTerminated(srv, c, s) \in ReachBut(base, c)
         /\ \A t \in Nat : Answered(srv, c, t) /\ (t = s => Terminated(s) \in Said(srv, c))
              => Answered(SubscriptionTerminated(srv, c, s), c, t)
<1>1. CASE srv.sub[c] = s
  <2> DEFINE n == [srv EXCEPT !.sub[c] = 0]
  <2>1. n \in ReachBut(base, c) /\ Said(n, c) = Said(srv, c) BY WithSub
  <2> HIDE DEF n
  <2>2. \A t \in Nat : Answered(srv, c, t) /\ (t = s => Terminated(s) \in Said(srv, c))
          => Answered(n, c, t)
    BY <1>1, <2>1 DEF Answered
  <2> QED BY <1>1, <2>1, <2>2 DEF SubscriptionTerminated, n
<1>2. CASE srv.sub[c] # s BY <1>2 DEF SubscriptionTerminated
<1> QED BY <1>1, <1>2

\* A subscriber gets a full state.
LEMMA FullStateReach ==
  ASSUME NEW base, NEW srv \in Reach(base), NEW c \in Client
  PROVE  NotifyFullState(srv, c) \in Reach(base)
<1> DEFINE b == CreateNotifyFullState(srv.conf, srv.lastNotify)
           k == srv.sub[c]
<1>1. srv.conf \in Conf /\ srv.lastNotify \in Nat /\ k \in Nat
  BY DEF Reach, GoodServer, Server
<1>2. b \in Body BY <1>1, FullStateType
<1>3. <<b>> \in Seq(Body) BY <1>2
<1> HIDE DEF b, k
<1>4. Notify(k, <<b>>) \in Given BY <1>1, <1>3 DEF Notify, Given, Answer
<1> QED BY <1>4, TellReach DEF NotifyFullState, b, k

\* A subscriber gets what it missed: the counter is not set below a stored number.
LEMMA MultipartReach ==
  ASSUME NEW base, NEW srv \in Reach(base), NEW c \in Client, NEW seen \in Nat
  PROVE  NotifyMultipart(srv, c, seen) \in Reach(base)
<1> DEFINE missed == Missed(srv, seen)
           bodies == [i \in DOMAIN missed |-> CreateNotify(srv.conf, missed[i].id, missed[i].event)]
           k == srv.sub[c]
           v == IF missed = <<>> THEN srv.lastNotify ELSE Last(missed).id
           told == Tell(srv, c, Notify(k, bodies))
           n == [told EXCEPT !.lastNotify = v]
<1>1. srv \in GoodServer /\ srv \in Server BY DEF Reach, GoodServer
<1>2. Covers(missed, srv.stored, seen, DOMAIN srv.stored) BY <1>1, MissedLast
<1> HIDE DEF missed
<1>3. srv.conf \in Conf /\ k \in Nat /\ srv.lastNotify \in Nat BY <1>1 DEF Server
<1>4. bodies \in Seq(Body)
  <2>1. missed \in Seq(Entry) BY <1>2 DEF Covers
  <2>2. ASSUME NEW i \in DOMAIN missed
        PROVE  CreateNotify(srv.conf, missed[i].id, missed[i].event) \in Body
    <3>1. missed[i] \in Entry BY <2>1
    <3>2. missed[i].id \in Nat /\ missed[i].event \in Event BY <3>1 DEF Entry
    <3> QED BY <1>3, <3>2, DocumentType
  <2>3. DOMAIN missed = 1 .. Len(missed) /\ Len(missed) \in Nat BY <2>1
  <2>4. bodies \in [1 .. Len(missed) -> Body] BY <2>2, <2>3
  <2> HIDE DEF bodies
  <2> QED BY <2>3, <2>4
<1>5. v \in Nat /\ \A i \in DOMAIN srv.stored : srv.stored[i].id <= v
  <2>1. CASE missed = <<>> BY <1>1, <1>3, <2>1 DEF GoodServer, Counted
  <2>2. CASE missed # <<>>
    <3>1. Last(missed) \in Entry BY <1>2, <2>2 DEF Covers, Last
    <3> QED BY <1>2, <2>2, <3>1 DEF Covers, Entry
  <2> QED BY <2>1, <2>2
<1> HIDE DEF bodies, k, v
<1>6. Notify(k, bodies) \in Given BY <1>3, <1>4 DEF Notify, Given, Answer
<1>7. told \in Reach(base) BY <1>6, TellReach
<1>8. told.stored = srv.stored /\ told.saved = srv.saved BY <1>1 DEF Tell, Server
<1> HIDE DEF told
<1>9. told \in Server /\ Kept(base, told) /\ Counted(told) BY <1>7 DEF Reach, GoodServer
<1>10. n \in Server /\ n.stored = told.stored /\ n.out = told.out /\ n.sub = told.sub
       /\ n.lastNotify = v /\ n.saved = told.saved
  BY <1>5, <1>9 DEF Server
<1> HIDE DEF n
<1>11. Counted(n) BY <1>5, <1>8, <1>9, <1>10 DEF Counted
<1>12. Kept(base, n) BY <1>9, <1>10 DEF Kept, Said
<1>13. n \in Reach(base) BY <1>10, <1>11, <1>12 DEF Reach, GoodServer
<1>14. told.lastNotify = srv.lastNotify BY <1>1 DEF told, Tell, Server
<1>15. NotifyMultipart(srv, c, seen) = n
  BY <1>14, Zenon DEF NotifyMultipart, n, told, v, k, bodies, missed
<1> QED BY <1>13, <1>15

\* A subscriber gets one of the three answers.
LEMMA MissedReach ==
  ASSUME NEW base, NEW srv \in Reach(base), NEW c \in Client, NEW seen \in Nat
  PROVE  NotifyMissed(srv, c, seen) \in Reach(base)
<1>1. Notify(srv.sub[c], <<>>) \in Given
  <2>1. srv.sub[c] \in Nat BY DEF Reach, GoodServer, Server
  <2> QED BY <2>1 DEF Notify, Given, Answer
<1>2. Tell(srv, c, Notify(srv.sub[c], <<>>)) \in Reach(base) BY <1>1, TellReach
<1> QED BY <1>2, FullStateReach, MultipartReach DEF NotifyMissed

\* An accepted subscription is held, or its client is told that it is not.
LEMMA AcceptReach ==
  ASSUME NEW c \in Client, NEW base, NEW srv \in ReachBut(base, c), NEW s \in Nat \ {0}, NEW v \in Nat,
         NEW m, m.sub = s, m.version = v
  PROVE  /\ AcceptSubscription(srv, c, m) \in ReachBut(base, c)
         /\ Answered(AcceptSubscription(srv, c, m), c, s)
<1> DEFINE old == srv.sub[c]
           told == Tell(srv, c, [type |-> "accepted", sub |-> s])
           accepted == [told EXCEPT !.sub[c] = s]
           ending == Tell(accepted, c, Terminated(old))
           ended == SubscriptionTerminated(ending, c, old)
           replaced == IF old = 0 THEN accepted ELSE ended
<1>1. srv \in GoodServer /\ old \in Nat BY DEF ReachBut, GoodServer, Server
<1>2. told \in ReachBut(base, c)
  <2>1. [type |-> "accepted", sub |-> s] \in Given BY DEF Given, Answer
  <2>2. told \in Reach(srv) BY <1>1, <2>1, ReachSelf, TellReach
  <2> QED BY <2>2, ReachIsReachBut
<1> HIDE DEF told
<1>3. accepted \in ReachBut(base, c) /\ accepted.sub[c] = s BY <1>2, WithSub
<1> HIDE DEF accepted, old
<1>4. Answered(accepted, c, s) BY <1>3 DEF Answered
<1>5. ending \in ReachBut(base, c) /\ Answered(ending, c, s) /\ Terminated(old) \in Said(ending, c)
  <2>1. Terminated(old) \in Given BY <1>1 DEF Given, Answer, Terminated
  <2>2. accepted \in Reach(accepted) BY <1>3, ReachSelf DEF ReachBut
  <2>3. ending \in Reach(accepted) /\ Terminated(old) \in Said(ending, c) BY <2>1, <2>2, TellReach
  <2> HIDE DEF ending
  <2> QED BY <1>3, <1>4, <2>3, ReachIsReachBut
<1> HIDE DEF ending
<1>6. ended \in ReachBut(base, c) /\ Answered(ended, c, s) BY <1>1, <1>5, TerminatedReach
<1> HIDE DEF ended
<1>7. replaced \in ReachBut(base, c) /\ Answered(replaced, c, s) BY <1>3, <1>4, <1>6
<1> HIDE DEF replaced
<1>8. NotifyMissed(replaced, c, v) \in Reach(replaced)
  BY <1>7, ReachSelf, MissedReach DEF ReachBut
<1>9. NotifyMissed(replaced, c, v) \in ReachBut(base, c) /\ Answered(NotifyMissed(replaced, c, v), c, s)
  BY <1>7, <1>8, ReachIsReachBut
<1>10. AcceptSubscription(srv, c, m) = NotifyMissed(replaced, c, v)
  BY DEF AcceptSubscription, replaced, ended, ending, accepted, told, old, Terminated
<1> QED BY <1>9, <1>10

\* The number of the last change is saved when a SUBSCRIBE has been served.
LEMMA WithSaved ==
  ASSUME NEW base, NEW c \in Client, NEW srv \in ReachBut(base, c), NEW s \in Nat, Answered(srv, c, s)
  PROVE  /\ [srv EXCEPT !.saved = srv.lastNotify] \in ReachBut(base, c)
         /\ Answered([srv EXCEPT !.saved = srv.lastNotify], c, s)
<1> DEFINE n == [srv EXCEPT !.saved = srv.lastNotify]
<1>1. srv \in Server /\ Counted(srv) /\ KeptExcept(base, srv, c) BY DEF ReachBut, GoodServer
<1>2. n \in Server /\ n.stored = srv.stored /\ n.out = srv.out /\ n.sub = srv.sub
      /\ n.lastNotify = srv.lastNotify /\ n.saved = srv.lastNotify
  BY <1>1 DEF Server
<1> HIDE DEF n
<1>3. Counted(n) BY <1>1, <1>2 DEF Counted
<1>4. \A x : Said(n, x) = Said(srv, x) BY <1>2 DEF Said
<1>5. KeptExcept(base, n, c) BY <1>1, <1>2, <1>4 DEF KeptExcept
<1>6. n \in ReachBut(base, c) /\ Answered(n, c, s)
  BY <1>2, <1>3, <1>4, <1>5 DEF ReachBut, GoodServer, Answered
<1> QED BY <1>6 DEF n

\* The whole of subscribeReceived().
LEMMA SubscribeReach ==
  ASSUME NEW srv \in GoodServer, NEW c \in Client, NEW s \in Nat \ {0}, NEW v \in Nat,
         NEW m, m.sub = s, m.version = v
  PROVE  /\ SubscribeReceived(srv, c, m) \in ReachBut(srv, c)
         /\ Answered(SubscribeReceived(srv, c, m), c, s)
<1> DEFINE invited == IF srv.conf.device[c] = "ScheduledForJoining" THEN InviteDevice(srv, c) ELSE srv
           declined == Tell(srv, c, Declined(s))
           accepted == AcceptSubscription(invited, c, m)
           served == IF srv.conf.device[c] \in LeavingState \cup {Absent} THEN declined ELSE accepted
<1>1. srv \in Reach(srv) /\ srv \in ReachBut(srv, c) BY ReachSelf DEF ReachBut, KeptExcept
<1>2. invited \in ReachBut(srv, c)
  <2>1. c \in Device BY ClientAssumption
  <2>2. invited \in Reach(srv) BY <1>1, <2>1, InviteReach
  <2> QED BY <1>1, <2>2, ReachIsReachBut
<1> HIDE DEF invited
<1>3. accepted \in ReachBut(srv, c) /\ Answered(accepted, c, s) BY <1>2, AcceptReach
<1>4. declined \in ReachBut(srv, c) /\ Answered(declined, c, s)
  <2>1. Declined(s) \in Given BY DEF Given, Answer, Declined
  <2>2. declined \in Reach(srv) /\ Declined(s) \in Said(declined, c) BY <1>1, <2>1, TellReach
  <2> HIDE DEF declined
  <2> QED BY <1>1, <2>2, ReachIsReachBut DEF Answered
<1> HIDE DEF accepted, declined
<1>5. served \in ReachBut(srv, c) /\ Answered(served, c, s) BY <1>3, <1>4
<1> HIDE DEF served
<1>6. [served EXCEPT !.saved = served.lastNotify] \in ReachBut(srv, c)
      /\ Answered([served EXCEPT !.saved = served.lastNotify], c, s)
  BY <1>5, WithSaved
<1>7. SubscribeReceived(srv, c, m) = [served EXCEPT !.saved = served.lastNotify]
  BY DEF SubscribeReceived, served, accepted, declined, invited, Declined
<1> QED BY <1>6, <1>7

-----------------------------------------------------------------------------
(* The client. *)

(* A subscription has a number other than 0. *)
Sent == {m \in Request : m.sub # 0}

Handler == [ev : Nat, next : Nat, confirmed : BOOLEAN, wanted : BOOLEAN,
            waiting : BOOLEAN, lastNotify : Nat, view : Conf, answered : Nat,
            lingering : SUBSET Nat, link : {"down", "up", "registered"},
            foreground : BOOLEAN, out : Seq(Sent)]

(* The last request of q is the SUBSCRIBE of subscription s. *)
EndsWith(q, s) ==
  q # <<>> /\ q[Len(q)].type = "subscribe" /\ q[Len(q)].sub = s

(* A client has a subscription only while it is registered. *)
Coherent(cl) ==
  /\ IsFiniteSet(cl.lingering)
  /\ cl.confirmed => cl.ev # 0
  /\ cl.ev # 0 => cl.link = "registered"

(* Where a handler may take a client whose subscription was s; a new one is k. *)
Runs(s, k) ==
  {cl \in Handler : /\ Coherent(cl) /\ cl.next = k
                    /\ \/ cl.ev = 0
                       \/ cl.ev = s /\ cl.out = <<>>
                       \/ EndsWith(cl.out, cl.ev)}

\* A new subscription is the last thing the client asks for.
LEMMA SubscribeRuns ==
  ASSUME NEW s, NEW k \in Nat \ {0}, NEW cl \in Runs(s, k) PROVE Subscribe(cl) \in Runs(s, k)
<1> DEFINE r == [type |-> "subscribe", sub |-> cl.next, version |-> cl.lastNotify]
           o == Append(cl.out, r)
           n == [cl EXCEPT !.ev = cl.next, !.confirmed = FALSE, !.out = o]
<1>1. cl \in Handler /\ Coherent(cl) /\ cl.next = k BY DEF Runs
<1>2. cl.out \in Seq(Sent) /\ cl.next \in Nat /\ cl.lastNotify \in Nat BY <1>1 DEF Handler
<1>3. r \in Sent /\ r.type = "subscribe" /\ r.sub = cl.next BY <1>1, <1>2 DEF Request, Sent
<1> HIDE DEF r
<1>4. o \in Seq(Sent) /\ EndsWith(o, cl.next) BY <1>2, <1>3 DEF EndsWith
<1> HIDE DEF o
<1>5. n \in Handler /\ n.ev = cl.next /\ n.out = o /\ ~n.confirmed
      /\ n.lingering = cl.lingering /\ n.link = cl.link
      /\ n.next = cl.next
  BY <1>1, <1>2, <1>4 DEF Handler
<1> HIDE DEF n
<1>6. ASSUME CanSubscribe(cl) PROVE n \in Runs(s, k)
  BY <1>1, <1>4, <1>5, <1>6 DEF Runs, Coherent, CanSubscribe
<1> QED BY <1>6 DEF Subscribe, n, o, r

\* What the handlers of the client change besides its subscription.
LEMMA WithView ==
  ASSUME NEW s, NEW k \in Nat, NEW cl \in Runs(s, k), NEW wanted \in BOOLEAN, NEW waiting \in BOOLEAN,
         NEW lastNotify \in Nat, NEW view \in Conf, NEW answered \in Nat, NEW fg \in BOOLEAN
  PROVE  /\ [cl EXCEPT !.wanted = wanted] \in Runs(s, k)
         /\ [cl EXCEPT !.waiting = waiting] \in Runs(s, k)
         /\ [cl EXCEPT !.lastNotify = lastNotify] \in Runs(s, k)
         /\ [cl EXCEPT !.lastNotify = lastNotify, !.view = view] \in Runs(s, k)
         /\ [cl EXCEPT !.answered = answered] \in Runs(s, k)
         /\ [cl EXCEPT !.foreground = fg] \in Runs(s, k)
<1>1. cl \in Handler BY DEF Runs
<1>2. ASSUME NEW n \in Handler, n.ev = cl.ev, n.confirmed = cl.confirmed, n.out = cl.out,
             n.lingering = cl.lingering, n.link = cl.link, n.next = cl.next
      PROVE  n \in Runs(s, k)
  BY <1>2 DEF Runs, Coherent
<1>3. [cl EXCEPT !.wanted = wanted] \in Runs(s, k) BY <1>1, <1>2 DEF Handler
<1>4. [cl EXCEPT !.waiting = waiting] \in Runs(s, k) BY <1>1, <1>2 DEF Handler
<1>5. [cl EXCEPT !.lastNotify = lastNotify] \in Runs(s, k) BY <1>1, <1>2 DEF Handler
<1>6. [cl EXCEPT !.lastNotify = lastNotify, !.view = view] \in Runs(s, k) BY <1>1, <1>2 DEF Handler
<1>7. [cl EXCEPT !.answered = answered] \in Runs(s, k) BY <1>1, <1>2 DEF Handler
<1>8. [cl EXCEPT !.foreground = fg] \in Runs(s, k) BY <1>1, <1>2 DEF Handler
<1> QED BY <1>3, <1>4, <1>5, <1>6, <1>7, <1>8

\* subscribe(const ConferenceId &)
LEMMA AskedRuns ==
  ASSUME NEW s, NEW k \in Nat \ {0}, NEW cl \in Runs(s, k) PROVE SubscribeAsked(cl) \in Runs(s, k)
<1> DEFINE asked == [cl EXCEPT !.wanted = TRUE]
<1>1. cl \in Handler BY DEF Runs
<1>2. cl.lastNotify \in Nat /\ cl.view \in Conf /\ cl.answered \in Nat /\ cl.foreground \in BOOLEAN
  BY <1>1 DEF Handler
<1>3. asked \in Runs(s, k) /\ [cl EXCEPT !.wanted = FALSE] \in Runs(s, k) BY <1>2, WithView
<1> HIDE DEF asked
<1>4. Subscribe(asked) \in Runs(s, k) BY <1>3, SubscribeRuns
<1>5. [Subscribe(asked) EXCEPT !.waiting = (cl.lastNotify = 0)] \in Runs(s, k) BY <1>2, <1>4, WithView
<1> QED BY <1>3, <1>5 DEF SubscribeAsked, asked

\* unsubscribePrivate()
LEMMA UnsubscribePrivateRuns ==
  ASSUME NEW s, NEW k \in Nat, NEW cl \in Runs(s, k)
  PROVE  UnsubscribePrivate(cl) \in Runs(s, k) /\ UnsubscribePrivate(cl).ev = 0
<1> DEFINE o == IF cl.confirmed THEN Append(cl.out, [type |-> "unsubscribe", sub |-> cl.ev]) ELSE cl.out
           g == cl.lingering \cup {cl.ev}
           n == [cl EXCEPT !.ev = 0, !.confirmed = FALSE, !.lingering = g, !.out = o]
<1>1. cl \in Handler /\ Coherent(cl) BY DEF Runs
<1>2. cl.out \in Seq(Sent) /\ cl.ev \in Nat /\ cl.lingering \in SUBSET Nat BY <1>1 DEF Handler
<1>3. cl.ev # 0 => [type |-> "unsubscribe", sub |-> cl.ev] \in Sent BY <1>2 DEF Request, Sent
<1>4. o \in Seq(Sent) BY <1>1, <1>2, <1>3 DEF Coherent
<1>5. g \in SUBSET Nat /\ IsFiniteSet(g) BY <1>1, <1>2, FS_AddElement DEF Coherent
<1> HIDE DEF o, g
<1>6. n \in Handler /\ n.ev = 0 /\ ~n.confirmed /\ n.lingering = g /\ n.link = cl.link
      /\ n.next = cl.next
  BY <1>1, <1>2, <1>4, <1>5 DEF Handler
<1> HIDE DEF n
<1>7. n \in Runs(s, k) BY <1>5, <1>6 DEF Runs, Coherent
<1> QED BY <1>6, <1>7 DEF UnsubscribePrivate, n, o, g

\* A client that cannot follow starts again.
LEMMA FullStateRuns ==
  ASSUME NEW s, NEW k \in Nat \ {0}, NEW cl \in Runs(s, k) PROVE RequestFullState(cl) \in Runs(s, k)
<1> DEFINE u == UnsubscribePrivate(cl)
           w == [u EXCEPT !.wanted = FALSE]
<1>1. u \in Runs(s, k) BY UnsubscribePrivateRuns
<1> HIDE DEF u
<1>2. u \in Handler BY <1>1 DEF Runs
<1>3. u.view \in Conf /\ u.answered \in Nat /\ u.foreground \in BOOLEAN BY <1>2 DEF Handler
<1>4. w \in Runs(s, k) BY <1>1, <1>3, WithView
<1> HIDE DEF w
<1>5. [w EXCEPT !.lastNotify = 0] \in Runs(s, k) BY <1>3, <1>4, WithView
<1> QED BY <1>5, AskedRuns DEF RequestFullState, Unsubscribe, w, u

\* conferenceInfoNotifyReceived()
LEMMA DocumentRuns ==
  ASSUME NEW s, NEW k \in Nat \ {0}, NEW cl \in Runs(s, k), NEW me \in Participant, NEW b \in Body
  PROVE  ConferenceInfoNotifyReceived(cl, me, b) \in Runs(s, k)
<1> DEFINE awake == [cl EXCEPT !.waiting = FALSE]
           applied == [awake EXCEPT !.lastNotify = b.version, !.view = ApplyBody(cl.view, me, b)]
<1>1. cl \in Handler BY DEF Runs
<1>2. cl.lastNotify \in Nat /\ cl.view \in Conf /\ cl.answered \in Nat /\ cl.foreground \in BOOLEAN
  BY <1>1 DEF Handler
<1>3. awake \in Runs(s, k) BY <1>2, WithView
<1> HIDE DEF awake
<1>4. b.version \in Nat BY DEF Body
<1>5. ApplyBody(cl.view, me, b) \in Conf BY <1>2, ViewType
<1>6. applied \in Runs(s, k) BY <1>2, <1>3, <1>4, <1>5, WithView
<1> HIDE DEF applied
<1>7. RequestFullState(awake) \in Runs(s, k) /\ RequestFullState(applied) \in Runs(s, k)
  BY <1>3, <1>6, FullStateRuns
<1> QED BY <1>6, <1>7 DEF ConferenceInfoNotifyReceived, applied, awake

\* The documents of one NOTIFY, one after the other.
LEMMA MultipartRuns ==
  ASSUME NEW s, NEW k \in Nat \ {0}, NEW cl \in Runs(s, k), NEW me \in Participant, NEW bodies \in Seq(Body)
  PROVE  MultipartNotifyReceived(cl, me, bodies) \in Runs(s, k)
<1> DEFINE D == DOMAIN bodies
           X == Runs(s, k)
           op(x, i) == ConferenceInfoNotifyReceived(x, me, bodies[i])
           ch == [r \in SUBSET D |-> Max(r)]
           F == [i \in D |-> [x \in X |-> op(x, i)]]
           Solves(f) == f = [r \in SUBSET D |->
             IF r = {} THEN cl ELSE op(f[r \ {Max(r)}], Max(r))]
           g == CHOOSE f : Solves(f)
<1>1. D = 1 .. Len(bodies) /\ Len(bodies) \in Nat /\ \A i \in D : bodies[i] \in Body OBVIOUS
<1>2. IsFiniteSet(D) BY <1>1, FS_Interval
<1> HIDE DEF D
<1>3. Chooser(ch, D) BY <1>1, MaxChooses DEF Chooser
<1>4. \A i \in D, x \in X : op(x, i) \in X BY <1>1, DocumentRuns
<1>5. F \in [D -> [X -> X]] BY <1>4
<1> HIDE DEF F, ch, op, X
<1>6. cl \in X BY DEF X
<1>7. PICK f \in [SUBSET D -> X] : IsFold(f, F, cl, ch, D)
  BY <1>2, <1>3, <1>5, <1>6, FoldExists, Zenon
<1>8. Solves(f)
  <2>1. ASSUME NEW r \in (SUBSET D) \ {{}}
        PROVE  f[r] = op(f[r \ {ch[r]}], ch[r])
    <3>1. ch[r] \in D /\ f[r \ {ch[r]}] \in X BY <1>3 DEF Chooser
    <3> QED BY <1>7, <3>1 DEF F, IsFold
  <2> QED BY <1>7, <2>1 DEF ch, IsFold
<1>9. Solves(g) BY <1>8, Zenon
<1> HIDE DEF g
<1>10. ASSUME NEW r \in (SUBSET D) \ {{}}, g[r \ {ch[r]}] \in X
       PROVE  g[r] = F[ch[r]][g[r \ {ch[r]}]]
  <2>1. ch[r] \in D BY <1>3 DEF Chooser
  <2>2. g[r] = op(g[r \ {ch[r]}], ch[r]) BY <1>9 DEF ch
  <2> QED BY <1>10, <2>1, <2>2 DEF F
<1>11. FoldsIn(X, g, F, cl, ch, D) BY <1>9, <1>10 DEF FoldsIn
<1>12. g[D] \in X BY <1>2, <1>3, <1>5, <1>6, <1>11, FoldType, Zenon
<1>13. MultipartNotifyReceived(cl, me, bodies) = g[D]
  BY Zenon DEF MultipartNotifyReceived, FoldLeft, MapThenFoldSet, g, op, D
<1> QED BY <1>12, <1>13 DEF X

\* invalidateSubscription()
LEMMA InvalidateRuns ==
  ASSUME NEW s, NEW k \in Nat, NEW cl \in Runs(s, k), NEW t
  PROVE  /\ InvalidateSubscription(cl, t) \in Runs(s, k)
         /\ InvalidateSubscription(cl, t).ev \in {0, cl.ev} \ ({t} \ {0})
<1> DEFINE n == [cl EXCEPT !.ev = 0, !.confirmed = FALSE]
<1>1. cl \in Handler /\ Coherent(cl) BY DEF Runs
<1>2. n \in Handler /\ n.ev = 0 /\ ~n.confirmed /\ n.lingering = cl.lingering /\ n.link = cl.link
      /\ n.next = cl.next
  BY <1>1 DEF Handler
<1> HIDE DEF n
<1>3. n \in Runs(s, k) BY <1>1, <1>2 DEF Runs, Coherent
<1> QED BY <1>2, <1>3 DEF InvalidateSubscription, n

\* An answer that ends a subscription leaves the client without it.
LEMMA AnswerRuns ==
  ASSUME NEW s, NEW k \in Nat \ {0}, NEW cl \in Runs(s, k), NEW me \in Participant, NEW m \in Given
  PROVE  /\ AnswerReceived(cl, me, m) \in Runs(s, k)
         /\ m.type \in {"declined", "terminated"} /\ m.sub = cl.ev
              => AnswerReceived(cl, me, m).ev = 0
<1>1. cl \in Handler BY DEF Runs
<1>2. CASE m \in [type : {"accepted", "declined", "terminated"}, sub : Nat]
  <2>1. CASE m.type = "accepted"
    <3> DEFINE n == [cl EXCEPT !.confirmed = TRUE]
    <3>1. n \in Handler /\ n.ev = cl.ev /\ n.lingering = cl.lingering /\ n.link = cl.link
          /\ n.next = cl.next /\ n.out = cl.out
      BY <1>1 DEF Handler
    <3> HIDE DEF n
    <3>2. ASSUME cl.ev # 0 PROVE n \in Runs(s, k) BY <3>1, <3>2 DEF Runs, Coherent
    <3> QED BY <2>1, <3>2 DEF AnswerReceived, n, Given
  <2>2. CASE m.type \in {"declined", "terminated"}
    BY <2>2, InvalidateRuns DEF AnswerReceived
  <2> QED BY <1>2, <2>1, <2>2
<1>3. CASE m \in [type : {"notify"}, sub : Nat, bodies : Seq(Body)]
  <2>1. cl.view \in Conf /\ cl.foreground \in BOOLEAN /\ cl.lastNotify \in Nat BY <1>1 DEF Handler
  <2>2. [cl EXCEPT !.answered = m.sub] \in Runs(s, k) BY <1>3, <2>1, WithView
  <2>3. NotifyReceived(cl, me, m) \in Runs(s, k) BY <1>3, <2>2, MultipartRuns DEF NotifyReceived
  <2> QED BY <1>3, <2>3 DEF AnswerReceived
<1> QED BY <1>2, <1>3 DEF Given, Answer

-----------------------------------------------------------------------------
(* Numbers that nothing refers to. *)

\* Every non-empty set of natural numbers up to n has a minimum.
LEMMA MinChooses ==
  ASSUME NEW n \in Nat, NEW s0 \in (SUBSET (0 .. n)) \ {{}}
  PROVE  Min(s0) \in s0
<1> DEFINE D == 0 .. n
           ch == [s \in SUBSET D |-> CHOOSE x \in s : TRUE]
           T == {s \in SUBSET D : s = {} \/ \E m \in s : \A y \in s : m =< y}
<1>1. IsFiniteSet(D) BY FS_Interval
<1>2. Chooser(ch, D) BY DEF Chooser
<1>3. {} \in T OBVIOUS
<1>4. ASSUME NEW s \in (SUBSET D) \ {{}}, s \ {ch[s]} \in T PROVE s \in T
  <2>1. ch[s] \in s BY <1>2 DEF Chooser
  <2> HIDE DEF ch
  <2>2. s \subseteq Nat BY DEF D
  <2>3. s \ {ch[s]} = {} \/ \E m \in s \ {ch[s]} : \A y \in s \ {ch[s]} : m =< y BY <1>4
  <2>4. CASE s \ {ch[s]} = {}
    <3>1. ASSUME NEW y \in s PROVE ch[s] =< y BY <2>1, <2>2, <2>4
    <3> QED BY <2>1, <3>1
  <2>5. CASE s \ {ch[s]} # {}
    <3>1. PICK m \in s \ {ch[s]} : \A y \in s \ {ch[s]} : m =< y BY <2>3, <2>5
    <3>2. CASE m =< ch[s]
      <4>1. ASSUME NEW y \in s PROVE m =< y BY <3>1, <3>2
      <4> QED BY <4>1
    <3>3. CASE ~(m =< ch[s])
      <4>1. ASSUME NEW y \in s PROVE ch[s] =< y
        <5>1. y = ch[s] \/ m =< y BY <3>1
        <5>2. y \in Nat /\ m \in Nat /\ ch[s] \in Nat BY <2>1, <2>2
        <5> QED BY <3>3, <5>1, <5>2
      <4> QED BY <2>1, <4>1
    <3> QED BY <3>2, <3>3
  <2> QED BY <2>4, <2>5
<1> HIDE DEF ch, T, D
<1>5. s0 \in T
  <2>1. Grows(T, ch, D) BY <1>3, <1>4 DEF Grows
  <2>2. s0 \in SUBSET D BY DEF D
  <2> QED BY <1>1, <1>2, <2>1, <2>2, SubsetInduction, Zenon
<1>6. \E m \in s0 : \A y \in s0 : m =< y BY <1>5 DEF T
<1> QED BY <1>6, Zenon DEF Min

\* Among 0, 1, ..., |U| there is a number outside the finite set U.
LEMMA FreshOutside ==
  ASSUME NEW U, IsFiniteSet(U)
  PROVE  Min((0 .. Cardinality(U)) \ U) \in Nat \ U
<1> DEFINE k == Cardinality(U)
           I == 0 .. k
<1>1. k \in Nat BY FS_CardinalityType
<1>2. IsFiniteSet(I) /\ Cardinality(I) = k + 1 BY <1>1, FS_Interval
<1> HIDE DEF k
<1>3. I \ U # {}
  <2> SUFFICES ASSUME I \subseteq U PROVE FALSE OBVIOUS
  <2>1. Cardinality(I) <= k BY FS_Subset DEF k
  <2> QED BY <1>1, <1>2, <2>1
<1>4. Min(I \ U) \in I \ U BY <1>1, <1>3, MinChooses
<1> QED BY <1>1, <1>4 DEF k

\* The messages on their way refer to finitely many subscriptions.
LEMMA SubsFinite ==
  ASSUME NEW S, NEW q \in Seq(S) PROVE IsFiniteSet({m.sub : m \in ToSet(q)})
<1> DEFINE D == 1 .. Len(q)
<1>1. IsFiniteSet(D) /\ DOMAIN q = D BY FS_Interval
<1> DEFINE U == {m.sub : m \in ToSet(q)}
           f == [i \in D |-> q[i].sub]
<1>2. f \in Surjection(D, U) BY <1>1 DEF Surjection, ToSet
<1> HIDE DEF f, U, D
<1>3. IsFiniteSet(U) BY <1>1, <1>2, FS_Surjection
<1> QED BY <1>3 DEF U

-----------------------------------------------------------------------------
(* The inductive invariant. *)

Steady ==
  /\ server \in GoodServer /\ server.out = NoOut
  /\ client \in [Client -> Handler]
  /\ \A c \in Client : Coherent(client[c]) /\ client[c].out = <<>>
  /\ toServer \in [Client -> Seq(Sent)]
  /\ toClient \in [Client -> Seq(Given)]
  /\ budget \in [Choice -> Nat]

InFlight(c) == {toClient[c][i] : i \in DOMAIN toClient[c]}

(* The client's subscription is the last thing it asked for; or it asks for   *)
(* nothing, and the server holds it or has told it that it does not.          *)
Held(c) ==
  \/ EndsWith(toServer[c], client[c].ev)
  \/ /\ toServer[c] = <<>>
     /\ \/ server.sub[c] = client[c].ev
        \/ Declined(client[c].ev) \in InFlight(c)
        \/ Terminated(client[c].ev) \in InFlight(c)

HeldInv == \A c \in Client : client[c].ev # 0 => Held(c)

\* The invariant implies the types.
LEMMA SteadyTypes == Steady => TypeOK
<1> SUFFICES ASSUME Steady PROVE TypeOK OBVIOUS
<1>1. Given \subseteq Answer /\ Sent \subseteq Request BY DEF Given, Sent
<1>2. \A q : (q \in Seq(Given) => q \in Seq(Answer)) /\ (q \in Seq(Sent) => q \in Seq(Request))
  BY <1>1
<1>3. server \in [conf : Conf, lastNotify : Nat, saved : Nat,
                  stored : Seq([id : Nat, event : Event]), sub : [Client -> Nat],
                  out : [Client -> Seq(Answer)]]
  <2>1. server \in Server BY DEF Steady, GoodServer
  <2>2. server.out \in [Client -> Seq(Answer)] BY <1>2, <2>1 DEF Server
  <2> QED BY <2>1, <2>2 DEF Server, Entry
<1>4. client \in [Client -> [ev : Nat, next : Nat, confirmed : BOOLEAN, wanted : BOOLEAN,
                            waiting : BOOLEAN, lastNotify : Nat, view : Conf, answered : Nat,
                            lingering : SUBSET Nat, link : {"down", "up", "registered"},
                            foreground : BOOLEAN, out : Seq(Request)]]
  <2> SUFFICES ASSUME NEW c \in Client
               PROVE  client[c] \in
                        [ev : Nat, next : Nat, confirmed : BOOLEAN, wanted : BOOLEAN,
                         waiting : BOOLEAN, lastNotify : Nat, view : Conf, answered : Nat,
                         lingering : SUBSET Nat, link : {"down", "up", "registered"},
                         foreground : BOOLEAN, out : Seq(Request)]
    BY DEF Steady
  <2>1. client[c] \in Handler BY DEF Steady
  <2>2. client[c].out \in Seq(Request) BY <1>2, <2>1 DEF Handler
  <2> QED BY <2>1, <2>2 DEF Handler
<1>5. toServer \in [Client -> Seq(Request)] /\ toClient \in [Client -> Seq(Answer)]
      /\ budget \in [Choice -> Nat]
  BY <1>2 DEF Steady
<1> QED BY <1>3, <1>4, <1>5 DEF TypeOK

\* Every client is the device of a participant.
LEMMA OwnParticipant == ASSUME NEW c \in Client PROVE Me(c) \in Participant
BY ClientAssumption, OwnerAssumption DEF Me

\* It holds when the clients have just subscribed.
LEMMA ConfInit == Init => Steady /\ HeldInv
<1> SUFFICES ASSUME Init PROVE Steady /\ HeldInv OBVIOUS
<1>1. server \in GoodServer /\ server.out = NoOut
  <2>1. NoOut \in [Client -> Seq(Given)] BY DEF NoOut
  <2>2. [c \in Client |-> 0] \in [Client -> Nat] OBVIOUS
  <2>3. <<>> \in Seq(Entry) OBVIOUS
  <2>4. server \in Server /\ server.out = NoOut /\ server.stored = <<>>
    BY <2>1, <2>2, <2>3, ConfAssumption DEF Init, Server
  <2>5. Counted(server) BY <2>4 DEF Counted
  <2> QED BY <2>4, <2>5 DEF GoodServer
<1>2. ASSUME NEW c \in Client
      PROVE  /\ client[c] \in Handler /\ Coherent(client[c]) /\ client[c].out = <<>>
             /\ client[c].ev = 1
  <2>1. ClearParticipants(InitialConf, Me(c)) \in Conf BY OwnParticipant, ClearType, ConfAssumption
  <2> DEFINE w == ClearParticipants(InitialConf, Me(c))
  <2>2. client[c] = [ev |-> 1, next |-> 0, confirmed |-> FALSE, wanted |-> TRUE, waiting |-> TRUE,
                     lastNotify |-> 0, view |-> w, answered |-> 0, lingering |-> {},
                     link |-> "registered", foreground |-> TRUE, out |-> <<>>]
    BY DEF Init
  <2> HIDE DEF w
  <2>3. client[c] \in Handler BY <2>1, <2>2 DEF Handler, w
  <2>4. client[c].lingering = {} /\ ~client[c].confirmed /\ client[c].link = "registered"
        /\ client[c].ev = 1 /\ client[c].out = <<>>
    BY <2>2
  <2> QED BY <2>3, <2>4, FS_EmptySet DEF Coherent
<1>3. client \in [Client -> Handler] BY <1>2 DEF Init
<1> DEFINE r == [type |-> "subscribe", sub |-> 1, version |-> 0]
<1>4. r \in Sent /\ r.type = "subscribe" /\ r.sub = 1 BY DEF Sent, Request
<1>5. toServer = [c \in Client |-> <<r>>] BY DEF Init
<1> HIDE DEF r
<1>6. toServer \in [Client -> Seq(Sent)] BY <1>4, <1>5
<1>7. toClient \in [Client -> Seq(Given)] /\ budget \in [Choice -> Nat]
  BY BudgetAssumption DEF Init, NoOut
<1>8. Steady BY <1>1, <1>2, <1>3, <1>6, <1>7 DEF Steady
<1>9. HeldInv BY <1>2, <1>4, <1>5 DEF HeldInv, Held, EndsWith
<1> QED BY <1>8, <1>9

\* A choice of the environment is spent.
LEMMA SpendType == ASSUME Steady, NEW k, Spend(k) PROVE budget' \in [Choice -> Nat]
<1>1. budget \in [Choice -> Nat] BY DEF Steady
<1>2. CASE k \in Choice
  <2>1. budget[k] \in Nat /\ budget[k] > 0 BY <1>1, <1>2 DEF Spend
  <2>2. budget[k] - 1 \in Nat BY <2>1
  <2> QED BY <1>1, <2>2 DEF Spend
<1>3. CASE k \notin Choice BY <1>1, <1>3 DEF Spend
<1> QED BY <1>2, <1>3

\* The end of a handler of the server.
LEMMA ServeStep ==
  ASSUME Steady, NEW srv \in GoodServer, Serve(srv)
  PROVE  /\ server' \in GoodServer /\ server'.out = NoOut
         /\ toClient' \in [Client -> Seq(Given)]
         /\ server'.sub = srv.sub
         /\ \A c \in Client : client[c].link = "registered" =>
              InFlight(c)' = InFlight(c) \cup Said(srv, c)
<1>1. srv \in Server /\ Counted(srv) BY DEF GoodServer
<1>2. NoOut \in [Client -> Seq(Given)] BY DEF NoOut
<1>3. server' \in Server /\ server'.out = NoOut /\ server'.sub = srv.sub
      /\ server'.stored = srv.stored /\ server'.lastNotify = srv.lastNotify
      /\ server'.saved = srv.saved
  BY <1>1, <1>2 DEF Serve, Server
<1>4. Counted(server') BY <1>1, <1>3 DEF Counted
<1>5. ASSUME NEW c \in Client
      PROVE  /\ toClient[c] \o srv.out[c] \in Seq(Given)
             /\ LET q == toClient[c] \o srv.out[c]
                IN  {q[i] : i \in DOMAIN q} = InFlight(c) \cup Said(srv, c)
  <2> DEFINE p == toClient[c]
             o == srv.out[c]
             q == p \o o
  <2>1. p \in Seq(Given) /\ o \in Seq(Given) BY <1>1 DEF Steady, Server
  <2> HIDE DEF p, o
  <2>2. q \in Seq(Given) /\ DOMAIN q = 1 .. Len(p) + Len(o) /\ Len(p) \in Nat /\ Len(o) \in Nat
        /\ \A i \in 1 .. Len(p) + Len(o) : q[i] = IF i <= Len(p) THEN p[i] ELSE o[i - Len(p)]
    BY <2>1, ConcatProperties
  <2>3. DOMAIN p = 1 .. Len(p) /\ DOMAIN o = 1 .. Len(o) BY <2>1
  <2> HIDE DEF q
  <2>4. ASSUME NEW i \in DOMAIN q PROVE q[i] \in {p[j] : j \in DOMAIN p} \cup {o[j] : j \in DOMAIN o}
    <3>1. CASE i <= Len(p) BY <2>2, <2>3, <3>1
    <3>2. CASE ~(i <= Len(p))
      <4>1. i - Len(p) \in DOMAIN o BY <2>2, <2>3, <3>2
      <4> QED BY <2>2, <3>2, <4>1
    <3> QED BY <3>1, <3>2
  <2>5. ASSUME NEW j \in DOMAIN p PROVE p[j] \in {q[i] : i \in DOMAIN q}
    <3>1. j \in DOMAIN q /\ q[j] = p[j] BY <2>2, <2>3
    <3> QED BY <3>1
  <2>6. ASSUME NEW j \in DOMAIN o PROVE o[j] \in {q[i] : i \in DOMAIN q}
    <3>1. j + Len(p) \in 1 .. Len(p) + Len(o) /\ ~(j + Len(p) <= Len(p))
          /\ (j + Len(p)) - Len(p) = j
      BY <2>2, <2>3
    <3>2. j + Len(p) \in DOMAIN q /\ q[j + Len(p)] = o[j] BY <2>2, <3>1
    <3> QED BY <3>2
  <2>7. {q[i] : i \in DOMAIN q} = {p[j] : j \in DOMAIN p} \cup {o[j] : j \in DOMAIN o}
    BY <2>4, <2>5, <2>6
  <2> QED BY <2>2, <2>7 DEF InFlight, Said, p, o, q
<1>6. toClient' \in [Client -> Seq(Given)]
  BY <1>5 DEF Serve, Steady
<1>7. ASSUME NEW c \in Client, client[c].link = "registered"
      PROVE  InFlight(c)' = InFlight(c) \cup Said(srv, c)
  BY <1>5, <1>7 DEF Serve, InFlight
<1> QED BY <1>3, <1>4, <1>6, <1>7 DEF GoodServer

\* A handler of the server that keeps the subscriptions.
LEMMA ServeKeeps ==
  ASSUME Steady, NEW srv \in Reach(server), Serve(srv), UNCHANGED <<client, toServer>>,
         budget' \in [Choice -> Nat]
  PROVE  Steady' /\ (HeldInv => HeldInv')
<1>1. srv \in GoodServer /\ Kept(server, srv) BY DEF Reach
<1>2. /\ server' \in GoodServer /\ server'.out = NoOut
      /\ toClient' \in [Client -> Seq(Given)]
      /\ server'.sub = srv.sub
      /\ \A c \in Client : client[c].link = "registered" =>
           InFlight(c)' = InFlight(c) \cup Said(srv, c)
  BY <1>1, ServeStep
<1>3. Steady' BY <1>2 DEF Steady, NoOut
<1>4. ASSUME NEW c \in Client, client[c].ev # 0, Held(c) PROVE Held(c)'
  <2>1. client[c].link = "registered" BY <1>4 DEF Steady, Coherent
  <2>2. InFlight(c)' = InFlight(c) \cup Said(srv, c) BY <1>2, <2>1
  <2>3. server'.sub[c] = server.sub[c] \/ Terminated(server.sub[c]) \in InFlight(c)'
    BY <1>1, <1>2, <2>2 DEF Kept
  <2> HIDE DEF InFlight
  <2> QED BY <1>4, <2>2, <2>3 DEF Held
<1> QED BY <1>3, <1>4 DEF HeldInv

\* The number of a new subscription.
LEMMA FreshNumberType ==
  ASSUME Steady, NEW c \in Client PROVE FreshNumber(c) \in Nat \ {0}
<1> DEFINE A == {0, client[c].ev, client[c].answered, server.sub[c]}
           B == client[c].lingering
           S == {m.sub : m \in ToSet(toServer[c])}
           T == {m.sub : m \in ToSet(toClient[c])}
<1>1. IsFiniteSet(A)
  <2>1. \A x : IsFiniteSet({x}) BY FS_Singleton
  <2>2. A = (({0} \cup {client[c].ev}) \cup {client[c].answered}) \cup {server.sub[c]} OBVIOUS
  <2> HIDE DEF A
  <2> QED BY <2>1, <2>2, FS_Union
<1>2. IsFiniteSet(B) BY DEF Steady, Coherent
<1>3. IsFiniteSet(S) /\ IsFiniteSet(T) BY SubsFinite DEF Steady
<1>4. 0 \in A OBVIOUS
<1> HIDE DEF A, B, S, T
<1>5. IsFiniteSet(A \cup B \cup S \cup T) BY <1>1, <1>2, <1>3, FS_Union
<1>6. NumbersInUse(c) = A \cup B \cup S \cup T BY DEF NumbersInUse, A, B, S, T
<1>7. IsFiniteSet(NumbersInUse(c)) /\ 0 \in NumbersInUse(c) BY <1>4, <1>5, <1>6
<1> QED BY <1>7, FreshOutside DEF FreshNumber

\* A handler of client c starts in a state its subscription allows.
LEMMA HandlerStarts ==
  ASSUME Steady, NEW c \in Client
  PROVE  /\ client[c] \in Runs(client[c].ev, client[c].next)
         /\ client[c].next \in Nat
         /\ Cl(c) \in Runs(client[c].ev, FreshNumber(c))
         /\ Cl(c).ev = client[c].ev
<1>1. client[c] \in Handler /\ Coherent(client[c]) /\ client[c].out = <<>> BY DEF Steady
<1>2. FreshNumber(c) \in Nat BY FreshNumberType
<1> DEFINE n == Cl(c)
<1>3. n \in Handler /\ n.ev = client[c].ev /\ n.out = client[c].out /\ n.next = FreshNumber(c)
      /\ n.lingering = client[c].lingering /\ n.link = client[c].link
      /\ n.confirmed = client[c].confirmed
  BY <1>1, <1>2 DEF Cl, Handler
<1> HIDE DEF n
<1>4. n \in Runs(client[c].ev, FreshNumber(c)) BY <1>1, <1>3 DEF Runs, Coherent
<1>5. client[c] \in Runs(client[c].ev, client[c].next) /\ client[c].next \in Nat
  BY <1>1 DEF Runs, Handler
<1> QED BY <1>3, <1>4, <1>5 DEF n

\* The end of a handler of client c.
LEMMA RunStep ==
  ASSUME Steady, NEW c \in Client, NEW k, NEW cl \in Runs(client[c].ev, k), Run(c, cl)
  PROVE  /\ client' \in [Client -> Handler]
         /\ \A x \in Client : Coherent(client'[x]) /\ client'[x].out = <<>>
         /\ toServer' \in [Client -> Seq(Sent)]
         /\ \A x \in Client \ {c} : client'[x] = client[x] /\ toServer'[x] = toServer[x]
         /\ client'[c].ev = cl.ev
         /\ \/ cl.ev = 0
            \/ cl.ev = client[c].ev /\ toServer'[c] = toServer[c]
            \/ EndsWith(toServer'[c], cl.ev)
<1> DEFINE n == [cl EXCEPT !.out = <<>>, !.next = 0]
<1>1. cl \in Handler /\ Coherent(cl) BY DEF Runs
<1>2. n \in Handler /\ n.ev = cl.ev /\ n.out = <<>> /\ n.lingering = cl.lingering
      /\ n.link = cl.link /\ n.confirmed = cl.confirmed
  <2>1. <<>> \in Seq(Sent) /\ 0 \in Nat OBVIOUS
  <2> QED BY <1>1, <2>1 DEF Handler
<1>3. Coherent(n) BY <1>1, <1>2 DEF Coherent
<1>4. client' = [client EXCEPT ![c] = n] /\ client \in [Client -> Handler] BY DEF Run, Steady
<1> HIDE DEF n
<1>5. client' \in [Client -> Handler] /\ client'[c] = n
      /\ \A x \in Client \ {c} : client'[x] = client[x]
  BY <1>2, <1>4
<1>6. \A x \in Client : Coherent(client'[x]) /\ client'[x].out = <<>>
  <2>1. \A x \in Client : Coherent(client[x]) /\ client[x].out = <<>> BY DEF Steady
  <2> QED BY <1>2, <1>3, <1>5, <2>1
<1> DEFINE p == toServer[c]
           o == cl.out
           q == p \o o
<1>7. p \in Seq(Sent) /\ o \in Seq(Sent) /\ toServer \in [Client -> Seq(Sent)]
  BY <1>1 DEF Steady, Handler
<1>8. toServer' = [toServer EXCEPT ![c] = q] BY DEF Run
<1> HIDE DEF p, o
<1>9. q \in Seq(Sent) /\ Len(q) = Len(p) + Len(o) /\ Len(p) \in Nat /\ Len(o) \in Nat
      /\ \A i \in 1 .. Len(p) + Len(o) : q[i] = IF i <= Len(p) THEN p[i] ELSE o[i - Len(p)]
  BY <1>7, ConcatProperties
<1>10. o = <<>> => q = p BY <1>7
<1>11. ASSUME EndsWith(o, cl.ev) PROVE EndsWith(q, cl.ev)
  <2>1. Len(o) > 0 BY <1>7, <1>11 DEF EndsWith
  <2>2. Len(q) \in 1 .. Len(p) + Len(o) /\ ~(Len(q) <= Len(p)) /\ Len(q) - Len(p) = Len(o)
    BY <1>9, <2>1
  <2>3. q[Len(q)] = o[Len(o)] BY <1>9, <2>2
  <2>4. q # <<>> BY <1>9, <2>1
  <2> QED BY <1>11, <2>3, <2>4 DEF EndsWith
<1> HIDE DEF q
<1>12. toServer' \in [Client -> Seq(Sent)] /\ toServer'[c] = q
       /\ \A x \in Client \ {c} : toServer'[x] = toServer[x]
  BY <1>7, <1>8, <1>9
<1>13. \/ cl.ev = 0
       \/ cl.ev = client[c].ev /\ o = <<>>
       \/ EndsWith(o, cl.ev)
  BY DEF Runs, o
<1>14. \/ cl.ev = 0
       \/ cl.ev = client[c].ev /\ toServer'[c] = toServer[c]
       \/ EndsWith(toServer'[c], cl.ev)
  BY <1>10, <1>11, <1>12, <1>13 DEF p
<1> QED BY <1>2, <1>5, <1>6, <1>12, <1>14

\* A handler of client c that is not about a message.
LEMMA RunKeeps ==
  ASSUME Steady, NEW c \in Client, NEW k, NEW cl \in Runs(client[c].ev, k), Run(c, cl),
         UNCHANGED <<server, toClient>>, budget' \in [Choice -> Nat]
  PROVE  Steady' /\ (HeldInv => HeldInv')
<1>1. /\ client' \in [Client -> Handler]
      /\ \A x \in Client : Coherent(client'[x]) /\ client'[x].out = <<>>
      /\ toServer' \in [Client -> Seq(Sent)]
      /\ \A x \in Client \ {c} : client'[x] = client[x] /\ toServer'[x] = toServer[x]
      /\ client'[c].ev = cl.ev
      /\ \/ cl.ev = 0
         \/ cl.ev = client[c].ev /\ toServer'[c] = toServer[c]
         \/ EndsWith(toServer'[c], cl.ev)
  BY RunStep
<1>2. Steady' BY <1>1 DEF Steady, NoOut
<1>3. ASSUME HeldInv, NEW x \in Client, client'[x].ev # 0 PROVE Held(x)'
  <2>1. InFlight(x)' = InFlight(x) /\ server' = server BY DEF InFlight
  <2> HIDE DEF InFlight
  <2>2. CASE x # c
    <3>1. client'[x] = client[x] /\ toServer'[x] = toServer[x] BY <1>1, <2>2
    <3>2. Held(x) BY <1>3, <3>1 DEF HeldInv
    <3> QED BY <2>1, <3>1, <3>2 DEF Held
  <2>3. CASE x = c BY <1>1, <1>3, <2>1, <2>3 DEF HeldInv, Held
  <2> QED BY <2>2, <2>3
<1> QED BY <1>2, <1>3 DEF HeldInv

\* A handler may start with another connection as long as nothing is subscribed.
LEMMA WithLink ==
  ASSUME NEW s, NEW k, NEW cl \in Runs(s, k), NEW l \in {"down", "up", "registered"},
         cl.ev = 0 \/ l = "registered"
  PROVE  [cl EXCEPT !.link = l] \in Runs(s, k)
<1> DEFINE n == [cl EXCEPT !.link = l]
<1>1. cl \in Handler /\ Coherent(cl) BY DEF Runs
<1>2. n \in Handler /\ n.ev = cl.ev /\ n.out = cl.out /\ n.lingering = cl.lingering
      /\ n.link = l /\ n.confirmed = cl.confirmed /\ n.next = cl.next
  BY <1>1 DEF Handler
<1> HIDE DEF n
<1>3. n \in Runs(s, k) BY <1>1, <1>2 DEF Runs, Coherent
<1> QED BY <1>3 DEF n

\* Each change of the conference; only a restart drops subscriptions in silence.
LEMMA ConferenceStepKeeps ==
  ASSUME Steady, ConferenceStep
  PROVE  Steady' /\ (HeldInv /\ ~ServerRestart => HeldInv')
<1>1. server \in GoodServer /\ server \in Reach(server) BY ReachSelf DEF Steady
<1>2. budget \in [Choice -> Nat] BY DEF Steady
<1>3. \A d \in Device : Owner[d] \in Participant BY OwnerAssumption
<1>4. ASSUME NEW s \in Subject, ChangeSubject(s) PROVE Steady' /\ (HeldInv => HeldInv')
  BY <1>1, <1>4, SpendType, SubjectReach, ServeKeeps DEF ChangeSubject
<1>5. ASSUME NEW l \in Lifetime, ChangeLifetime(l) PROVE Steady' /\ (HeldInv => HeldInv')
  BY <1>1, <1>5, SpendType, LifetimeReach, ServeKeeps DEF ChangeLifetime
<1>6. ASSUME NEW p \in Participant, ChangeAdmin(p) PROVE Steady' /\ (HeldInv => HeldInv')
  BY <1>1, <1>6, SpendType, AdminReach, ServeKeeps DEF ChangeAdmin
<1>7. ASSUME NEW p \in Guest, GuestAdded(p) PROVE Steady' /\ (HeldInv => HeldInv')
  <2>1. p \in Participant BY DEF Guest
  <2>2. CASE Invited(server.conf, p)
    BY <1>1, <1>7, <2>1, <2>2, SpendType, ResumeReach, ServeKeeps DEF GuestAdded
  <2>3. CASE ~Invited(server.conf, p)
    <3>1. PICK ds \in SUBSET DevicesOf(p) : Serve(SetParticipantDevices(server, p, ds))
      BY <1>7, <2>3 DEF GuestAdded
    <3>2. SetParticipantDevices(server, p, ds) \in Reach(server) BY <1>1, <2>1, DevicesReach
    <3> QED BY <1>7, <3>1, <3>2, SpendType, ServeKeeps DEF GuestAdded
  <2> QED BY <2>2, <2>3
<1>8. ASSUME NEW p \in Guest, GuestRemoved(p) PROVE Steady' /\ (HeldInv => HeldInv')
  <2>1. p \in Participant BY DEF Guest
  <2>2. PICK heir \in Participant : Serve(RemoveParticipant(server, p, heir))
    BY <1>8 DEF GuestRemoved
  <2>3. RemoveParticipant(server, p, heir) \in Reach(server) BY <1>1, <2>1, RemoveReach
  <2> QED BY <1>8, <2>2, <2>3, SpendType, ServeKeeps DEF GuestRemoved
<1>9. ASSUME NEW d \in GuestDevice, GuestLeaves(d) PROVE Steady' /\ (HeldInv => HeldInv')
  <2>1. d \in Device BY DEF GuestDevice
  <2>2. PICK heir \in Participant : Serve(OnBye(server, d, heir)) BY <1>9 DEF GuestLeaves
  <2>3. OnBye(server, d, heir) \in Reach(server) BY <1>1, <2>1, ByeReach
  <2> QED BY <1>9, <2>2, <2>3, SpendType, ServeKeeps DEF GuestLeaves
<1>10. ASSUME NEW d \in GuestDevice, GuestNotifyAnswered(d) PROVE Steady' /\ (HeldInv => HeldInv')
  <2>1. d \in Device BY DEF GuestDevice
  <2>2. OnFirstNotifyReceived(server, d) \in Reach(server) BY <1>1, <2>1, FirstNotifyReach
  <2> QED BY <1>2, <1>10, <2>2, ServeKeeps DEF GuestNotifyAnswered
<1>11. ASSUME NEW d \in GuestDevice, GuestLeft(d) PROVE Steady' /\ (HeldInv => HeldInv')
  <2>1. d \in Device BY DEF GuestDevice
  <2>2. SetDeviceLeft(server, d) \in Reach(server) BY <1>1, <2>1, LeftReach
  <2> QED BY <1>2, <1>11, <2>2, ServeKeeps DEF GuestLeft
<1>12. ASSUME NEW p \in Participant, NEW ds \in SUBSET DevicesOf(p), RegistrationChanged(p, ds)
       PROVE  Steady' /\ (HeldInv => HeldInv')
  BY <1>1, <1>12, SpendType, DevicesReach, ServeKeeps DEF RegistrationChanged
<1>13. ASSUME NEW d \in Device, DeviceInterrupted(d) PROVE Steady' /\ (HeldInv => HeldInv')
  <2>1. SetParticipantDeviceState(server, d, "ScheduledForJoining") \in Reach(server)
    BY <1>1, DeviceStateReach DEF DeviceState
  <2> QED BY <1>13, <2>1, SpendType, ServeKeeps DEF DeviceInterrupted
<1>14. ASSUME NEW d \in Device, DeviceInvited(d) PROVE Steady' /\ (HeldInv => HeldInv')
  BY <1>1, <1>2, <1>14, InviteReach, ServeKeeps DEF DeviceInvited
<1>15. ASSUME NEW d \in Device, SessionEstablished(d) PROVE Steady' /\ (HeldInv => HeldInv')
  BY <1>1, <1>2, <1>15, PresentReach, ServeKeeps DEF SessionEstablished
<1>16. ASSUME ServerRestart PROVE Steady'
  <2> DEFINE n == [server EXCEPT !.lastNotify = server.saved, !.sub = [c \in Client |-> 0],
                                 !.conf.lifetime = InitialConf.lifetime]
  <2>1. server \in Server /\ Counted(server) /\ InitialConf.lifetime \in Lifetime
    BY <1>1, ConfAssumption DEF GoodServer, Conf
  <2>2. [server.conf EXCEPT !.lifetime = InitialConf.lifetime] \in Conf
        /\ [c \in Client |-> 0] \in [Client -> Nat]
    BY <2>1 DEF Server, Conf
  <2>3. n \in Server /\ n.stored = server.stored /\ n.lastNotify = server.saved
        /\ n.saved = server.saved
    BY <2>1, <2>2 DEF Server
  <2>4. Serve(n) /\ budget' \in [Choice -> Nat] /\ UNCHANGED <<client, toServer>>
    BY <1>16, SpendType DEF ServerRestart
  <2> HIDE DEF n
  <2>5. n \in GoodServer BY <2>1, <2>3 DEF GoodServer, Counted
  <2>6. server' \in GoodServer /\ server'.out = NoOut /\ toClient' \in [Client -> Seq(Given)]
    BY <2>4, <2>5, ServeStep
  <2> QED BY <2>4, <2>6 DEF Steady, NoOut
<1> QED BY <1>4, <1>5, <1>6, <1>7, <1>8, <1>9, <1>10, <1>11, <1>12, <1>13, <1>14, <1>15,
        <1>16 DEF ConferenceStep

\* A request of client c arrives: the subscriptions of the others stay.
LEMMA DeliverToServerKeeps ==
  ASSUME Steady, NEW c \in Client, DeliverToServer(c)
  PROVE  Steady' /\ (HeldInv => HeldInv')
<1> DEFINE q == toServer[c]
           m == Head(q)
           srv == IF m.type = "subscribe" THEN SubscribeReceived(server, c, m)
                  ELSE SubscriptionTerminated(server, c, m.sub)
<1>1. server \in GoodServer /\ server \in ReachBut(server, c)
  BY DEF Steady, ReachBut, KeptExcept
<1>2. q \in Seq(Sent) /\ q # <<>> /\ toServer \in [Client -> Seq(Sent)]
  BY DEF Steady, DeliverToServer
<1>3. m \in Sent /\ Tail(q) \in Seq(Sent) /\ Len(Tail(q)) = Len(q) - 1 /\ Len(q) \in Nat
      /\ \A i \in 1 .. Len(Tail(q)) : Tail(q)[i] = q[i + 1]
  BY <1>2, HeadTailProperties
<1>4. m = q[1] BY <1>2
<1>5. Serve(srv) /\ toServer' = [toServer EXCEPT ![c] = Tail(q)] /\ UNCHANGED <<client, budget>>
  BY DEF DeliverToServer
<1> HIDE DEF q, m
<1>6. m.sub \in Nat \ {0} BY <1>3 DEF Sent, Request
<1>7. srv \in ReachBut(server, c)
      /\ (m.type = "subscribe" => Answered(srv, c, m.sub))
  <2>1. CASE m.type = "subscribe"
    <3>1. m.version \in Nat BY <1>3, <2>1 DEF Sent, Request
    <3> QED BY <1>1, <1>6, <2>1, <3>1, SubscribeReach
  <2>2. CASE m.type # "subscribe" BY <1>1, <1>6, <2>2, TerminatedReach
  <2> QED BY <2>1, <2>2
<1> HIDE DEF srv
<1>8. srv \in GoodServer /\ KeptExcept(server, srv, c) BY <1>7 DEF ReachBut
<1>9. /\ server' \in GoodServer /\ server'.out = NoOut
      /\ toClient' \in [Client -> Seq(Given)]
      /\ server'.sub = srv.sub
      /\ \A x \in Client : client[x].link = "registered" =>
           InFlight(x)' = InFlight(x) \cup Said(srv, x)
  BY <1>5, <1>8, ServeStep
<1>10. toServer' \in [Client -> Seq(Sent)] /\ toServer'[c] = Tail(q)
       /\ \A x \in Client \ {c} : toServer'[x] = toServer[x]
  BY <1>2, <1>3, <1>5
<1>11. Steady' BY <1>5, <1>9, <1>10 DEF Steady, NoOut
<1>12. ASSUME NEW x \in Client, client[x].ev # 0, Held(x) PROVE Held(x)'
  <2>1. client[x].link = "registered" BY <1>12 DEF Steady, Coherent
  <2>2. InFlight(x)' = InFlight(x) \cup Said(srv, x) /\ client' = client BY <1>5, <1>9, <2>1
  <2> HIDE DEF InFlight
  <2>3. CASE x # c
    <3>1. server'.sub[x] = server.sub[x] \/ Terminated(server.sub[x]) \in InFlight(x)'
      BY <1>8, <1>9, <2>2, <2>3 DEF KeptExcept
    <3>2. toServer'[x] = toServer[x] BY <1>10, <2>3
    <3> QED BY <1>12, <2>2, <3>1, <3>2 DEF Held
  <2>4. CASE x = c
    <3>1. EndsWith(q, client[c].ev) BY <1>2, <1>12, <2>4 DEF Held, q
    <3>2. CASE Tail(q) = <<>>
      <4>1. Len(q) = 1 BY <1>3, <3>2
      <4>2. m.type = "subscribe" /\ m.sub = client[c].ev BY <1>4, <3>1, <4>1 DEF EndsWith
      <4>3. \/ server'.sub[c] = client[c].ev
            \/ Declined(client[c].ev) \in InFlight(c)'
            \/ Terminated(client[c].ev) \in InFlight(c)'
        BY <1>7, <1>9, <2>2, <2>4, <4>2 DEF Answered
      <4> QED BY <1>10, <2>2, <2>4, <3>2, <4>3 DEF Held
    <3>3. CASE Tail(q) # <<>>
      <4>1. Len(Tail(q)) > 0 BY <1>3, <3>3
      <4>2. Tail(q)[Len(Tail(q))] = q[Len(q)] BY <1>3, <4>1
      <4>3. EndsWith(Tail(q), client[c].ev) BY <3>1, <3>3, <4>2 DEF EndsWith
      <4> QED BY <1>10, <2>2, <2>4, <4>3 DEF Held
    <3> QED BY <3>2, <3>3
  <2> QED BY <2>3, <2>4
<1>13. HeldInv => HeldInv' BY <1>5, <1>12 DEF HeldInv
<1> QED BY <1>11, <1>13

\* A message reaches client c: one that ends its subscription leaves it without it.
LEMMA DeliverToClientKeeps ==
  ASSUME Steady, NEW c \in Client, DeliverToClient(c)
  PROVE  Steady' /\ (HeldInv => HeldInv')
<1> DEFINE q == toClient[c]
           m == Head(q)
           k == FreshNumber(c)
           cl == AnswerReceived(Cl(c), Me(c), m)
<1>1. q \in Seq(Given) /\ q # <<>> /\ toClient \in [Client -> Seq(Given)]
  BY DEF Steady, DeliverToClient
<1>2. m \in Given /\ Tail(q) \in Seq(Given) /\ Len(Tail(q)) = Len(q) - 1 /\ Len(q) \in Nat
      /\ \A i \in 1 .. Len(Tail(q)) : Tail(q)[i] = q[i + 1]
  BY <1>1, HeadTailProperties
<1>3. m = q[1] BY <1>1
<1>4. Run(c, cl) /\ toClient' = [toClient EXCEPT ![c] = Tail(q)] /\ UNCHANGED <<server, budget>>
  BY DEF DeliverToClient
<1>5. k \in Nat \ {0} /\ Cl(c) \in Runs(client[c].ev, k) /\ Cl(c).ev = client[c].ev
  BY FreshNumberType, HandlerStarts
<1>6. Me(c) \in Participant BY OwnParticipant
<1> HIDE DEF q, m, k
<1>7. cl \in Runs(client[c].ev, k)
      /\ (m.type \in {"declined", "terminated"} /\ m.sub = client[c].ev => cl.ev = 0)
  BY <1>2, <1>5, <1>6, AnswerRuns
<1> HIDE DEF cl
<1>8. /\ client' \in [Client -> Handler]
      /\ \A x \in Client : Coherent(client'[x]) /\ client'[x].out = <<>>
      /\ toServer' \in [Client -> Seq(Sent)]
      /\ \A x \in Client \ {c} : client'[x] = client[x] /\ toServer'[x] = toServer[x]
      /\ client'[c].ev = cl.ev
      /\ \/ cl.ev = 0
         \/ cl.ev = client[c].ev /\ toServer'[c] = toServer[c]
         \/ EndsWith(toServer'[c], cl.ev)
  BY <1>4, <1>7, RunStep
<1>9. toClient' \in [Client -> Seq(Given)] /\ toClient'[c] = Tail(q)
      /\ \A x \in Client \ {c} : toClient'[x] = toClient[x]
  BY <1>1, <1>2, <1>4
<1>10. Steady' BY <1>4, <1>8, <1>9 DEF Steady, NoOut
<1>11. ASSUME NEW x \in InFlight(c), x # m PROVE x \in InFlight(c)'
  <2>1. PICK i \in DOMAIN q : x = q[i] BY <1>11 DEF InFlight, q
  <2>2. i \in 1 .. Len(q) /\ i # 1 BY <1>1, <1>3, <1>11, <2>1
  <2>3. i - 1 \in 1 .. Len(Tail(q)) /\ Tail(q)[i - 1] = q[i] BY <1>2, <2>2
  <2>4. i - 1 \in DOMAIN Tail(q) BY <1>2, <2>3
  <2> QED BY <1>9, <2>1, <2>3, <2>4 DEF InFlight
<1>12. ASSUME HeldInv, NEW x \in Client, client'[x].ev # 0 PROVE Held(x)'
  <2>1. CASE x # c
    <3>1. client'[x] = client[x] /\ toServer'[x] = toServer[x] /\ InFlight(x)' = InFlight(x)
          /\ server' = server
      BY <1>4, <1>8, <1>9, <2>1 DEF InFlight
    <3> HIDE DEF InFlight
    <3>2. Held(x) BY <1>12, <3>1 DEF HeldInv
    <3> QED BY <3>1, <3>2 DEF Held
  <2>2. CASE x = c
    <3>1. CASE EndsWith(toServer'[c], cl.ev) BY <1>8, <2>2, <3>1 DEF Held
    <3>2. CASE cl.ev = client[c].ev /\ toServer'[c] = toServer[c]
      <4>1. Held(c) /\ cl.ev # 0 /\ client'[c].ev = client[c].ev BY <1>8, <1>12, <2>2, <3>2 DEF HeldInv
      <4>2. m # Declined(client[c].ev) /\ m # Terminated(client[c].ev)
        BY <1>7, <4>1 DEF Declined, Terminated
      <4>3. \A y \in {Declined(client[c].ev), Terminated(client[c].ev)} :
              y \in InFlight(c) => y \in InFlight(c)'
        BY <1>11, <4>2
      <4> HIDE DEF InFlight
      <4> QED BY <1>4, <2>2, <3>2, <4>1, <4>3 DEF Held
    <3> QED BY <1>8, <1>12, <2>2, <3>1, <3>2
  <2> QED BY <2>1, <2>2
<1>13. HeldInv => HeldInv' BY <1>12 DEF HeldInv
<1> QED BY <1>10, <1>13

\* Each message that arrives or is answered.
LEMMA MessageStepKeeps ==
  ASSUME Steady, NEW c \in Client, MessageStep(c)
  PROVE  Steady' /\ (HeldInv => HeldInv')
<1>1. ASSUME NotifyAnswered(c) PROVE Steady' /\ (HeldInv => HeldInv')
  <2>1. server \in Reach(server) /\ budget \in [Choice -> Nat] BY ReachSelf DEF Steady
  <2>2. c \in Device BY ClientAssumption
  <2>3. OnFirstNotifyReceived(server, c) \in Reach(server) BY <2>1, <2>2, FirstNotifyReach
  <2> QED BY <1>1, <2>1, <2>3, ServeKeeps DEF NotifyAnswered
<1> QED BY <1>1, DeliverToServerKeeps, DeliverToClientKeeps DEF MessageStep

\* The connection of client c is lost, with its subscription.
LEMMA NetworkDownKeeps ==
  ASSUME Steady, NEW c \in Client, NetworkDown(c)
  PROVE  Steady' /\ (HeldInv => HeldInv')
<1> DEFINE u == UnsubscribePrivate(client[c])
           n == [u EXCEPT !.link = "down", !.out = <<>>, !.lingering = {}, !.answered = 0]
<1>1. u \in Handler /\ Coherent(u) /\ u.ev = 0
  <2>1. u \in Runs(client[c].ev, client[c].next) /\ u.ev = 0
    BY HandlerStarts, UnsubscribePrivateRuns
  <2> QED BY <2>1 DEF Runs
<1> HIDE DEF u
<1>2. <<>> \in Seq(Sent) /\ {} \in SUBSET Nat /\ 0 \in Nat OBVIOUS
<1>3. n \in Handler /\ n.ev = 0 /\ n.out = <<>> /\ n.lingering = {} /\ n.confirmed = u.confirmed
  BY <1>1, <1>2 DEF Handler
<1>4. client' = [client EXCEPT ![c] = n] /\ client \in [Client -> Handler]
  BY DEF NetworkDown, u, Steady
<1> HIDE DEF n
<1>5. Coherent(n) BY <1>1, <1>3, FS_EmptySet DEF Coherent
<1>6. client' \in [Client -> Handler] /\ client'[c] = n
      /\ \A x \in Client \ {c} : client'[x] = client[x]
  BY <1>3, <1>4
<1>7. \A x \in Client : Coherent(client'[x]) /\ client'[x].out = <<>>
  <2>1. \A x \in Client : Coherent(client[x]) /\ client[x].out = <<>> BY DEF Steady
  <2> QED BY <1>3, <1>5, <1>6, <2>1
<1>8. toServer' \in [Client -> Seq(Sent)] /\ \A x \in Client \ {c} : toServer'[x] = toServer[x]
  <2>1. toServer[c] \in Seq(Sent) /\ toServer \in [Client -> Seq(Sent)] BY DEF Steady
  <2>2. PICK k \in 0 .. Len(toServer[c]) :
          toServer' = [toServer EXCEPT ![c] = SubSeq(toServer[c], 1, k)]
    BY DEF NetworkDown
  <2>3. SubSeq(toServer[c], 1, k) \in Seq(Sent) BY <2>1
  <2> QED BY <2>1, <2>2, <2>3
<1>9. toClient' \in [Client -> Seq(Given)] /\ \A x \in Client \ {c} : toClient'[x] = toClient[x]
  BY DEF NetworkDown, Steady
<1>10. budget' \in [Choice -> Nat] /\ server' = server BY SpendType DEF NetworkDown
<1>11. Steady' BY <1>6, <1>7, <1>8, <1>9, <1>10 DEF Steady, NoOut
<1>12. ASSUME HeldInv, NEW x \in Client, client'[x].ev # 0 PROVE Held(x)'
  <2>1. x # c BY <1>3, <1>6, <1>12
  <2>2. client'[x] = client[x] /\ toServer'[x] = toServer[x] /\ InFlight(x)' = InFlight(x)
        /\ server' = server
    BY <1>6, <1>8, <1>9, <1>10, <2>1 DEF InFlight
  <2> HIDE DEF InFlight
  <2>3. Held(x) BY <1>12, <2>2 DEF HeldInv
  <2> QED BY <2>2, <2>3 DEF Held
<1>13. HeldInv => HeldInv' BY <1>12 DEF HeldInv
<1> QED BY <1>11, <1>13

\* Each thing that happens to a client.
LEMMA ClientStepKeeps ==
  ASSUME Steady, NEW c \in Client, ClientStep(c)
  PROVE  Steady' /\ (HeldInv => HeldInv')
<1> DEFINE s == client[c].ev
           k == FreshNumber(c)
<1>1. k \in Nat \ {0} /\ Cl(c) \in Runs(s, k) /\ Cl(c).ev = s
      /\ client[c] \in Runs(s, client[c].next) /\ client[c].next \in Nat
  BY FreshNumberType, HandlerStarts
<1>2. budget \in [Choice -> Nat] /\ Coherent(client[c]) /\ client[c] \in Handler /\ Cl(c) \in Handler
  BY <1>1 DEF Steady, Runs
<1>3. client[c].view \in Conf /\ client[c].lastNotify \in Nat /\ client[c].answered \in Nat
      /\ Cl(c).view \in Conf /\ Cl(c).lastNotify \in Nat /\ Cl(c).answered \in Nat
  BY <1>2 DEF Handler
<1> HIDE DEF k
<1>4. CASE NetworkUp(c)
  <2>1. s = 0 BY <1>2, <1>4 DEF NetworkUp, Coherent
  <2>2. [Cl(c) EXCEPT !.link = "up"] \in Runs(s, k) BY <1>1, <2>1, WithLink
  <2>3. SubscribeAsked([Cl(c) EXCEPT !.link = "up"]) \in Runs(s, k) BY <1>1, <2>2, AskedRuns
  <2> QED BY <1>2, <1>4, <2>3, RunKeeps DEF NetworkUp
<1>5. CASE RegistrationOk(c)
  <2>1. [Cl(c) EXCEPT !.link = "registered"] \in Runs(s, k) BY <1>1, WithLink
  <2>2. SubscribeAsked([Cl(c) EXCEPT !.link = "registered"]) \in Runs(s, k)
    BY <1>1, <2>1, AskedRuns
  <2> QED BY <1>2, <1>5, <2>2, RunKeeps DEF RegistrationOk
<1>6. CASE RegistrationRefreshed(c)
  <2>1. SubscribeAsked(Cl(c)) \in Runs(s, k) BY <1>1, AskedRuns
  <2> QED BY <1>6, <2>1, SpendType, RunKeeps DEF RegistrationRefreshed
<1>7. CASE EnteringBackground(c)
  <2>1. [client[c] EXCEPT !.foreground = FALSE] \in Runs(s, client[c].next)
    BY <1>1, <1>3, WithView
  <2>2. UnsubscribePrivate([client[c] EXCEPT !.foreground = FALSE]) \in Runs(s, client[c].next)
    BY <1>1, <2>1, UnsubscribePrivateRuns
  <2> QED BY <1>7, <2>2, SpendType, RunKeeps DEF EnteringBackground
<1>8. CASE EnteringForeground(c)
  <2>1. [Cl(c) EXCEPT !.foreground = TRUE] \in Runs(s, k) BY <1>1, <1>3, WithView
  <2>2. Subscribe([Cl(c) EXCEPT !.foreground = TRUE]) \in Runs(s, k) BY <1>1, <2>1, SubscribeRuns
  <2> QED BY <1>2, <1>8, <2>2, RunKeeps DEF EnteringForeground
<1>9. CASE SubscriptionError(c)
  <2>1. InvalidateSubscription(client[c], s) \in Runs(s, client[c].next) BY <1>1, InvalidateRuns
  <2> QED BY <1>2, <1>9, <2>1, RunKeeps DEF SubscriptionError
<1>10. CASE OperationReleased(c)
  <2> DEFINE n == [client[c] EXCEPT !.lingering = {}]
  <2>1. n \in Handler /\ n.ev = s /\ n.out = client[c].out /\ n.lingering = {}
        /\ n.link = client[c].link /\ n.confirmed = client[c].confirmed /\ n.next = client[c].next
    BY <1>2 DEF Handler
  <2> HIDE DEF n
  <2>2. n \in Runs(s, client[c].next) BY <1>1, <2>1, FS_EmptySet DEF Runs, Coherent
  <2>3. Run(c, n) BY <1>10 DEF OperationReleased, n
  <2> QED BY <1>10, <2>2, <2>3, SpendType, RunKeeps DEF OperationReleased
<1> QED BY <1>4, <1>5, <1>6, <1>7, <1>8, <1>9, <1>10, NetworkDownKeeps DEF ClientStep

\* Every step keeps the invariant.
LEMMA ConfStep == Steady /\ [Next]_vars => Steady'
<1> SUFFICES ASSUME Steady, [Next]_vars PROVE Steady' OBVIOUS
<1>1. CASE Next BY <1>1, ConferenceStepKeeps, MessageStepKeeps, ClientStepKeeps DEF Next
<1>2. CASE UNCHANGED vars BY <1>2 DEF vars, Steady, NoOut
<1> QED BY <1>1, <1>2

\* The invariant holds in every behaviour.
LEMMA ConfSteady == Spec => []Steady
BY ConfInit, ConfStep, PTL DEF Spec

\* Whatever the participants, devices and budgets, server, clients and messages
\* have their types: each document is well formed and every view a client makes of
\* the documents it gets is a conference (createNotify...(), conferenceInfoNotifyReceived()).
THEOREM ConferenceTypeCorrect == Spec => []TypeOK
BY ConfSteady, SteadyTypes, PTL

\* The number of a stored change is never given to another one, although
\* createNotifyMultipart() sets the conference's counter to that of the last missed
\* change and a restart sets it to the number that was saved.
THEOREM NumbersNotReused == Spec => []StoredInOrder
<1>1. Steady => StoredInOrder BY DEF Steady, GoodServer, Counted, StoredInOrder
<1> QED BY <1>1, ConfSteady, PTL

(* The server has not restarted yet. *)
NoRestart == budget["restart"] = Budget["restart"]

\* What a choice of the environment costs.
LEMMA SpendLowers ==
  ASSUME Steady, NEW k \in Choice, Spend(k)
  PROVE  (\A x \in Choice : budget'[x] <= budget[x]) /\ budget'[k] < budget[k]
<1>1. budget \in [Choice -> Nat] /\ budget[k] \in Nat BY DEF Steady
<1>2. budget' = [budget EXCEPT ![k] = budget[k] - 1] BY DEF Spend
<1>3. ASSUME NEW x \in Choice PROVE budget'[x] <= budget[x]
  <2>1. budget[x] \in Nat BY <1>1
  <2> QED BY <1>1, <1>2, <2>1
<1> QED BY <1>1, <1>2, <1>3

\* Nothing gives back what the environment has spent.
LEMMA BudgetLowers ==
  ASSUME Steady, [Next]_vars
  PROVE  /\ \A x \in Choice : budget'[x] <= budget[x]
         /\ ServerRestart => budget'["restart"] < budget["restart"]
<1> DEFINE Lower == \A x \in Choice : budget'[x] <= budget[x]
<1>1. budget \in [Choice -> Nat] BY DEF Steady
<1>2. budget' = budget => Lower
  <2>1. \A x \in Choice : budget[x] \in Nat BY <1>1
  <2> QED BY <2>1
<1>3. ASSUME NEW k \in Choice, Spend(k) PROVE Lower BY <1>3, SpendLowers
<1>4. {"subject", "admin", "member", "device", "lifetime", "restart", "network",
       "background", "refresh", "release"} \subseteq Choice
  BY DEF Choice
<1> HIDE DEF Lower
<1>5. ASSUME ConferenceStep PROVE Lower
  BY <1>2, <1>3, <1>4, <1>5
     DEF ConferenceStep, ChangeSubject, ChangeLifetime, ChangeAdmin, GuestAdded, GuestRemoved,
         GuestLeaves, GuestNotifyAnswered, GuestLeft, RegistrationChanged,
         DeviceInterrupted, DeviceInvited, SessionEstablished, ServerRestart
<1>6. ASSUME NEW c \in Client, MessageStep(c) \/ ClientStep(c) PROVE Lower
  BY <1>2, <1>3, <1>4, <1>6
     DEF MessageStep, DeliverToServer, DeliverToClient, NotifyAnswered, ClientStep, NetworkDown,
         NetworkUp, RegistrationOk, RegistrationRefreshed, EnteringBackground,
         EnteringForeground, SubscriptionError, OperationReleased
<1>7. Lower BY <1>2, <1>5, <1>6 DEF Next, vars
<1>8. ServerRestart => budget'["restart"] < budget["restart"]
  BY <1>4, SpendLowers DEF ServerRestart
<1> QED BY <1>7, <1>8 DEF Lower

(* What the server holds of the clients, until it restarts. *)
HeldUntilRestart == budget["restart"] <= Budget["restart"] /\ (NoRestart => HeldInv)

\* Every step but a restart keeps what the server holds of the clients.
LEMMA HeldStep == Steady /\ HeldUntilRestart /\ [Next]_vars => HeldUntilRestart'
<1> SUFFICES ASSUME Steady, HeldUntilRestart, [Next]_vars PROVE HeldUntilRestart' OBVIOUS
<1>1. budget["restart"] \in Nat /\ budget'["restart"] \in Nat /\ Budget["restart"] \in Nat
  BY ConfStep, BudgetAssumption DEF Steady, Choice
<1>2. budget'["restart"] <= budget["restart"]
      /\ (ServerRestart => budget'["restart"] < budget["restart"])
  BY BudgetLowers DEF Choice
<1>3. budget["restart"] <= Budget["restart"] BY DEF HeldUntilRestart
<1>4. budget'["restart"] <= Budget["restart"] BY <1>1, <1>2, <1>3
<1>5. ASSUME NoRestart' PROVE HeldInv'
  <2>1. NoRestart /\ ~ServerRestart BY <1>1, <1>2, <1>3, <1>5 DEF NoRestart
  <2>2. HeldInv BY <2>1 DEF HeldUntilRestart
  <2>3. CASE Next
    BY <2>1, <2>2, <2>3, ConferenceStepKeeps, MessageStepKeeps, ClientStepKeeps DEF Next
  <2>4. CASE UNCHANGED vars BY <2>2, <2>4 DEF vars, HeldInv, Held, InFlight
  <2> QED BY <2>3, <2>4
<1> QED BY <1>4, <1>5 DEF HeldUntilRestart

\* As long as the server has not restarted, a client whose SUBSCRIBE was accepted
\* and that waits for nothing is subscribed on the server: no order of replaced
\* subscriptions, late requests, removed devices and lost connections ends the
\* current one in silence (subscriptionStateChanged(), unsubscribePrivate()).
THEOREM AcceptedNotDropped == Spec => [](NoRestart => AcceptedHeld)
<1>1. Init => HeldUntilRestart
  BY ConfInit, BudgetAssumption DEF Init, HeldUntilRestart, Choice
<1>2. Steady /\ HeldUntilRestart => (NoRestart => AcceptedHeld)
  <2> SUFFICES ASSUME Steady, HeldInv, NEW c \in Client, client[c].confirmed, Quiet(c)
               PROVE  server.sub[c] = client[c].ev
    BY DEF HeldUntilRestart, AcceptedHeld
  <2>1. client[c].ev # 0 BY DEF Steady, Coherent
  <2>2. Held(c) BY <2>1 DEF HeldInv
  <2>3. InFlight(c) = {} BY DEF Quiet, InFlight
  <2> QED BY <2>2, <2>3 DEF Held, Quiet, EndsWith
<1> QED BY <1>1, <1>2, ConfSteady, HeldStep, PTL DEF Spec
=============================================================================
