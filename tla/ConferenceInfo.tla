--------------------------- MODULE ConferenceInfo ---------------------------
(***************************************************************************)
(* The conference-info documents (RFC 4575) of a group chat room: what the *)
(* server writes about each change of the conference, and what a client    *)
(* makes of a document it receives.                                        *)
(*                                                                         *)
(* A conference, as the server holds it or as a client believes it to be,  *)
(* is a record of type Conf.  On the server a participant that is removed  *)
(* keeps its devices until they have left; a client forgets them.          *)
(***************************************************************************)
EXTENDS Naturals, Sequences

CONSTANTS
  Participant, Device,
  Owner,            \* the participant of each device
  Subject,          \* the subjects of the conference
  Lifetime          \* the lifetimes of ephemeral messages

ASSUME OwnerAssumption == Owner \in [Device -> Participant]

None == "none"
ASSUME NoneAssumption == None \notin Subject /\ None \notin Lifetime

Absent == "Absent"
LeavingState == {"ScheduledForLeaving", "Leaving", "Left"}
DeviceState == {"ScheduledForJoining", "Joining", "Present"} \cup LeavingState

Conf ==
  [subject : Subject, lifetime : Lifetime,
   member : [Participant -> BOOLEAN], admin : [Participant -> BOOLEAN],
   device : [Device -> DeviceState \cup {Absent}]]

(***************************************************************************)
(* Documents.  An element is "full", "partial" or "deleted".               *)
(***************************************************************************)
Status == {"pending", "dialing", "connected", "disconnecting", "disconnected"}
Element == {"full", "partial", "deleted"}
Endpoint == [entity : Device, state : Element, status : Status \cup {None}]
User == [entity : Participant, state : Element, role : {"admin", "participant", None},
         endpoints : SUBSET Endpoint]
Body == [full : BOOLEAN, version : Nat, subject : Subject \cup {None},
         lifetime : Lifetime \cup {None}, users : SUBSET User]

EmptyBody(v) == [full |-> FALSE, version |-> v, subject |-> None, lifetime |-> None, users |-> {}]

DevicesOf(p) == {d \in Device : Owner[d] = p}

\* addEndpointSessionInfo(): how a device's state is written.
EndpointStatus(s) ==
  CASE s = "ScheduledForJoining" -> "pending"
    [] s = "Joining" -> "dialing"
    [] s = "Present" -> "connected"
    [] s \in {"ScheduledForLeaving", "Leaving"} -> "disconnecting"
    [] s = "Left" -> "disconnected"

\* ... and how a client reads it back.
StateOfStatus(s) ==
  CASE s = "pending" -> "ScheduledForJoining"
    [] s = "dialing" -> "Joining"
    [] s = "connected" -> "Present"
    [] s = "disconnecting" -> "Leaving"
    [] s = "disconnected" -> "Left"

\* The server finds the devices of a participant through the conference: of a
\* participant that has been removed it finds none.
KnownDevice(conf, d) == conf.member[Owner[d]] /\ conf.device[d] # Absent
KnownStatus(conf, d) == IF KnownDevice(conf, d) THEN EndpointStatus(conf.device[d]) ELSE None

RoleOf(conf, p) == IF conf.member[p] /\ conf.admin[p] THEN "admin" ELSE "participant"

FullUser(conf, p) ==
  [entity |-> p, state |-> "full", role |-> RoleOf(conf, p),
   endpoints |-> {[entity |-> d, state |-> "full", status |-> KnownStatus(conf, d)] :
                    d \in {x \in DevicesOf(p) : KnownDevice(conf, x)}}]

CreateNotifyFullState(conf, v) ==
  [full |-> TRUE, version |-> v, subject |-> conf.subject, lifetime |-> conf.lifetime,
   users |-> {FullUser(conf, p) : p \in {x \in Participant : conf.member[x]}}]

CreateNotifyParticipantAdded(conf, v, p) ==
  [EmptyBody(v) EXCEPT !.users = {FullUser(conf, p)}]

CreateNotifyParticipantRemoved(v, p) ==
  [EmptyBody(v) EXCEPT !.users =
     {[entity |-> p, state |-> "deleted", role |-> None, endpoints |-> {}]}]

CreateNotifyParticipantAdminStatusChanged(v, p, isAdmin) ==
  [EmptyBody(v) EXCEPT !.users =
     {[entity |-> p, state |-> "partial", role |-> IF isAdmin THEN "admin" ELSE "participant",
       endpoints |-> {}]}]

\* The three documents about one device differ in its element.
DeviceBody(v, d, element, status) ==
  [EmptyBody(v) EXCEPT !.users =
     {[entity |-> Owner[d], state |-> "partial", role |-> None,
       endpoints |-> {[entity |-> d, state |-> element, status |-> status]}]}]

CreateNotifyParticipantDeviceAdded(conf, v, d) ==
  DeviceBody(v, d, "full", KnownStatus(conf, d))

CreateNotifyParticipantDeviceRemoved(v, d) ==
  DeviceBody(v, d, "deleted", None)

\* A device that has left is reported as deleted.
CreateNotifyParticipantDeviceDataChanged(conf, v, d) ==
  DeviceBody(v, d,
             IF KnownDevice(conf, d) /\ conf.device[d] = "Left" THEN "deleted" ELSE "partial",
             KnownStatus(conf, d))

CreateNotifySubjectChanged(v, s) == [EmptyBody(v) EXCEPT !.subject = s]

CreateNotifyEphemeralLifetime(v, l) == [EmptyBody(v) EXCEPT !.lifetime = l]

(***************************************************************************)
(* Events: what the server notifies, and stores to notify it again.        *)
(***************************************************************************)
Event ==
  [type : {"ParticipantAdded", "ParticipantRemoved", "SetAdmin", "UnsetAdmin"}, who : Participant]
    \cup [type : {"DeviceAdded", "DeviceRemoved", "DeviceStatusChanged"}, dev : Device]
    \cup [type : {"SubjectChanged"}, subject : Subject]
    \cup [type : {"EphemeralLifetimeChanged"}, lifetime : Lifetime]

\* The document about event e, numbered v.  It tells what conf is when the
\* document is written, which for a stored event is not what it was at the event.
CreateNotify(conf, v, e) ==
  CASE e.type = "ParticipantAdded" -> CreateNotifyParticipantAdded(conf, v, e.who)
    [] e.type = "ParticipantRemoved" -> CreateNotifyParticipantRemoved(v, e.who)
    [] e.type = "SetAdmin" -> CreateNotifyParticipantAdminStatusChanged(v, e.who, TRUE)
    [] e.type = "UnsetAdmin" -> CreateNotifyParticipantAdminStatusChanged(v, e.who, FALSE)
    [] e.type = "DeviceAdded" -> CreateNotifyParticipantDeviceAdded(conf, v, e.dev)
    [] e.type = "DeviceRemoved" -> CreateNotifyParticipantDeviceRemoved(v, e.dev)
    [] e.type = "DeviceStatusChanged" -> CreateNotifyParticipantDeviceDataChanged(conf, v, e.dev)
    [] e.type = "SubjectChanged" -> CreateNotifySubjectChanged(v, e.subject)
    [] e.type = "EphemeralLifetimeChanged" -> CreateNotifyEphemeralLifetime(v, e.lifetime)

(***************************************************************************)
(* A client, whose own participant is me, applies document b to its view.  *)
(* It never removes itself, and keeps itself when a full state clears the  *)
(* list of participants.                                                   *)
(***************************************************************************)
\* Mutant of ClearParticipants: the participants a full state does not name stay.
MutClearParticipants(view, me) == [view EXCEPT !.device = [d \in Device |-> Absent]]

ClearParticipants(view, me) ==
  [view EXCEPT !.member = [p \in Participant |-> p = me],
               !.admin = [p \in Participant |-> p = me /\ view.admin[p]],
               !.device = [d \in Device |-> Absent]]

Base(view, me, b) == IF b.full THEN ClearParticipants(view, me) ELSE view

\* The users that are removed, and those whose role and devices are updated.
RemovedUsers(view, me, b) ==
  {u.entity : u \in {x \in b.users : x.state = "deleted" /\ x.entity # me /\ view.member[x.entity]}}

UpdatedUsers(view, me, b) ==
  {u \in b.users : IF u.entity = me THEN u.state # "deleted"
                   ELSE u.state = "full" \/ (u.state = "partial" /\ view.member[u.entity])}

\* Mutant of EndpointState: the status is stored as it is written.
MutEndpointState(old, e) ==
  IF e.state = "deleted" \/ (e.state = "partial" /\ old = Absent) THEN Absent
  ELSE IF e.status # None THEN e.status
  ELSE IF old = Absent THEN "Joining" ELSE old

\* A device a client adds is joining until its status says otherwise.
EndpointState(old, e) ==
  IF e.state = "deleted" \/ (e.state = "partial" /\ old = Absent) THEN Absent
  ELSE IF e.status # None THEN StateOfStatus(e.status)
  ELSE IF old = Absent THEN "Joining" ELSE old

MemberAfter(view, me, b, p) ==
  /\ p \notin RemovedUsers(view, me, b)
  /\ view.member[p] \/ \E u \in UpdatedUsers(view, me, b) : u.entity = p

\* fillParticipantAttributes()
AdminAfter(view, me, b, p) ==
  LET told == {u \in UpdatedUsers(view, me, b) : u.entity = p /\ u.role # None}
  IN  IF p \in RemovedUsers(view, me, b) THEN FALSE
      ELSE IF told = {} THEN view.admin[p]
      ELSE \E u \in told : u.role = "admin"

DeviceAfter(view, me, b, d) ==
  LET told == {e \in UNION {u.endpoints : u \in UpdatedUsers(view, me, b)} : e.entity = d}
  IN  IF Owner[d] \in RemovedUsers(view, me, b) THEN Absent
      ELSE IF told = {} THEN view.device[d]
      ELSE EndpointState(view.device[d], CHOOSE e \in told : TRUE)

ApplyBody(view, me, b) ==
  LET base == Base(view, me, b)
  IN  [subject |-> IF b.subject # None THEN b.subject ELSE view.subject,
       lifetime |-> IF b.lifetime # None THEN b.lifetime ELSE view.lifetime,
       member |-> [p \in Participant |-> MemberAfter(base, me, b, p)],
       admin |-> [p \in Participant |-> AdminAfter(base, me, b, p)],
       device |-> [d \in Device |-> DeviceAfter(base, me, b, d)]]

\* The document updates a device the client does not know.
UnknownDevice(base, me, b) ==
  \E u \in UpdatedUsers(base, me, b) : \E e \in u.endpoints :
    e.state = "partial" /\ base.device[e.entity] = Absent

\* ... or is about a participant the client does not know.
Puzzling(view, me, b) ==
  LET base == Base(view, me, b)
  IN  \/ \E u \in b.users : u.entity # me /\ ~base.member[u.entity] /\ u.state # "full"
      \/ UnknownDevice(base, me, b)

(***************************************************************************)
(* What a client is expected to know of a conference: subject, lifetime,   *)
(* who is a member, who is an administrator and every device that is not   *)
(* leaving.  A leaving device is told once, and forgotten when it has left.*)
(***************************************************************************)
Visible(conf) ==
  [subject |-> conf.subject, lifetime |-> conf.lifetime,
   members |-> {p \in Participant : conf.member[p]},
   admins |-> {p \in Participant : conf.member[p] /\ conf.admin[p]},
   devices |-> {<<d, conf.device[d]>> :
                  d \in {x \in Device : conf.member[Owner[x]]
                                        /\ conf.device[x] \notin LeavingState \cup {Absent}}}]
=============================================================================
