---------------------------- MODULE DeliveryReport ----------------------------
(***************************************************************************)
(* What message disposition notifications promise, whoever keeps them:     *)
(* each item (a recipient of one message, or one of the messages a device  *)
(* received) goes from unknown to delivered to displayed, and what has     *)
(* been reported about it never runs ahead of what happened and is never   *)
(* taken back.  The sender's side (ChatMessage) and the recipient's side   *)
(* (Imdn) both implement it.                                               *)
(***************************************************************************)
EXTENDS Naturals

CONSTANT Item

VARIABLES
  fact,     \* how far each item really is
  told      \* how far it has been reported to be

Unknown == 0
Delivered == 1
Displayed == 2
Level == Unknown .. Displayed

TypeOK == fact \in [Item -> Level] /\ told \in [Item -> Level]

Init == fact = [i \in Item |-> Unknown] /\ told = fact

\* An item may be displayed at once; several items may advance together, as a
\* user who opens a chat room reads all its messages.
Happens ==
  /\ fact' \in [Item -> Level]
  /\ \A i \in Item : fact'[i] >= fact[i]
  /\ UNCHANGED told

\* A report that skips a level, repeats one or comes out of order is no harm: it
\* only never exceeds the fact and never lowers what is known.
Report ==
  /\ told' \in [Item -> Level]
  /\ \A i \in Item : told'[i] >= told[i] /\ told'[i] <= fact[i]
  /\ UNCHANGED fact

Next == Happens \/ Report

Spec == Init /\ [][Next]_<<fact, told>>
=============================================================================
