---------------------------- MODULE MCConference ----------------------------
(***************************************************************************)
(* Module ConferenceEvents for TLC: alice, and bob in one run, enter a     *)
(* chat room with one device each, which a guest may have created.         *)
(***************************************************************************)
EXTENDS ConferenceEvents

CONSTANTS alice, bob, guest, aliceDev, bobDev, guestDev

MCOwner == [d \in Device |-> CASE d = aliceDev -> alice
                              [] d = bobDev -> bob
                              [] d = guestDev -> guest]

MCInitialConf ==
  [subject |-> "s0", lifetime |-> "l0",
   member |-> [p \in Participant |-> p # guest],
   admin |-> [p \in Participant |-> p = alice],
   device |-> [d \in Device |-> IF d = guestDev THEN Absent ELSE "Joining"]]

\* The guest, who is in the room already, created it and administers it.
MCGuestConf ==
  [MCInitialConf EXCEPT !.member = [p \in Participant |-> TRUE],
                        !.admin = [p \in Participant |-> p = guest],
                        !.device = [d \in Device |-> IF d = guestDev THEN "Present" ELSE "Joining"]]

LimitedTo(f) == [k \in Choice |-> IF k \in DOMAIN f THEN f[k] ELSE 0]

\* The subject and the client's role change, and its session is established,
\* while it loses the network, goes to the background and refreshes its registration.
OutageBudget == LimitedTo([subject |-> 1, admin |-> 1, network |-> 2, background |-> 1,
                           release |-> 1, refresh |-> 1])

\* The guest and its device come and go while the client is away once.
MemberBudget == LimitedTo([member |-> 2, device |-> 1, background |-> 1])

\* A change that is not stored and a restart set the server's counter back
\* while one of two clients is away.
RecountBudget == LimitedTo([lifetime |-> 1, subject |-> 1, network |-> 1, restart |-> 1])

\* Everything that may leave a client behind, once.
LiveBudget == LimitedTo([device |-> 1, network |-> 1, restart |-> 1, background |-> 1])
=============================================================================
