------------------------ MODULE MCClientByteTotals -------------------------
(***************************************************************************)
(* Instances of ClientByteTotals for TLC; the bounds are in the .cfg files. *)
(***************************************************************************)
EXTENDS ClientByteTotals
=============================================================================
