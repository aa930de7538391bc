--------------------------- MODULE MCChatMessage ---------------------------
(***************************************************************************)
(* Module ChatMessage for TLC.  Recipients only differ by their names, so  *)
(* they may be permuted.                                                   *)
(***************************************************************************)
EXTENDS ChatMessage, TLC

RecipientSymmetry == Permutations(Recipient)
=============================================================================
