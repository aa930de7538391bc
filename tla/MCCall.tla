------------------------------- MODULE MCCall -------------------------------
(***************************************************************************)
(* Module Call for TLC: how often the applications and the network make    *)
(* each of their choices in a run.  What a budget does not name does not   *)
(* happen; everything the library does by itself is unbounded.             *)
(***************************************************************************)
EXTENDS Call

LimitedTo(f) == [c \in Choice |-> IF c \in DOMAIN f THEN f[c] ELSE 0]

\* Both sides give up while the call is being set up, refused or lost, or while
\* it is renegotiated.
LifeBudget == LimitedTo([terminate |-> 2, refuse |-> 1, loss |-> 1, pause |-> 1,
                         update |-> 1, defer |-> 1])

\* Both sides pause, resume and update at the same time, and one answer is deferred.
HoldBudget == LimitedTo([pause |-> 2, resume |-> 2, update |-> 2, defer |-> 1])

\* One of everything that can get in the way of the others.
MixedBudget == LimitedTo([pause |-> 1, update |-> 1, terminate |-> 1, dtmf |-> 1,
                          defer |-> 1, incompatible |-> 1, reject |-> 1, loss |-> 1])
=============================================================================
