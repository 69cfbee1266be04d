--------------------------- MODULE MCLanDiscovery ---------------------------
(***************************************************************************)
(* Instances of LanDiscovery for TLC; the bounds are in the .cfg files.    *)
(***************************************************************************)
EXTENDS LanDiscovery

CONSTANT h1
OneHost == [d \in {1} |-> h1]
=============================================================================
