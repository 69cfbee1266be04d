-------------------------- MODULE MCGatewaySession --------------------------
(***************************************************************************)
(* Instances of GatewaySession for TLC; the bounds are in the .cfg files.  *)
(***************************************************************************)
EXTENDS GatewaySession
=============================================================================
