---------------------------- MODULE CallLifecycle ----------------------------
(***************************************************************************)
(* What a call promises to the applications on either side, read off the   *)
(* states of CallSession::State: a call is set up once, established at     *)
(* most once, is over at most once and is then released; the called side   *)
(* hears of it only after the calling side started it, and the calling     *)
(* side is connected only once the called side has answered.               *)
(* Module Call is shown to implement this specification.                   *)
(***************************************************************************)
CONSTANTS Caller, Callee
VARIABLE phase

UA == {Caller, Callee}
Phase == {"Idle", "Setup", "Established", "Over", "Released"}

Init == phase = [u \in UA |-> "Idle"]

Move(u, from, to) == phase[u] \in from /\ phase' = [phase EXCEPT ![u] = to]

Start(u) ==
  /\ u = Callee => phase[Caller] # "Idle"
  /\ Move(u, {"Idle"}, "Setup")

Connect(u) ==
  /\ u = Caller => phase[Callee] \notin {"Idle", "Setup"}
  /\ Move(u, {"Setup"}, "Established")

Finish(u) == Move(u, {"Setup", "Established"}, "Over")

\* A call given up before any dialog exists is released at once.
Release(u) == Move(u, {"Setup", "Over"}, "Released")

Next == \E u \in UA : Start(u) \/ Connect(u) \/ Finish(u) \/ Release(u)

Safety == Init /\ [][Next]_phase

Spec == Safety /\ \A u \in UA : WF_phase(phase[u] = "Over" /\ Release(u))
=============================================================================
