------------------------- MODULE MCExporterProcess --------------------------
(***************************************************************************)
(* Instances of ExporterProcess for TLC; the bounds are in the .cfg files. *)
(***************************************************************************)
EXTENDS ExporterProcess
=============================================================================
