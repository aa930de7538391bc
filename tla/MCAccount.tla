----------------------------- MODULE MCAccount -----------------------------
(* The instance of Account that TLC checks. *)
EXTENDS Account
=============================================================================
