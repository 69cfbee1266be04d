--------------------------- MODULE MCOffsiteBackups ---------------------------
(***************************************************************************)
(* OffsiteBackups for TLC: time limits that are functions of the service.  *)
(***************************************************************************)
EXTENDS OffsiteBackups

CONSTANTS BackupLimit, OtherLimit

MCLimit == [s \in Services |-> IF s = "backup" THEN BackupLimit ELSE OtherLimit]
=============================================================================
