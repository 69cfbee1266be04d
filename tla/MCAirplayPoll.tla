---------------------------- MODULE MCAirplayPoll ----------------------------
(***************************************************************************)
(* Instances of AirplayPoll for TLC; the bounds are in the .cfg files.     *)
(***************************************************************************)
EXTENDS AirplayPoll
=============================================================================
