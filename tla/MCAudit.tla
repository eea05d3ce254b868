-------------------------------- MODULE MCAudit --------------------------------
(***************************************************************************)
(* The findings of the vault audit alone, for TLC: the run that shows where*)
(* its table and the check of the table part.                              *)
(***************************************************************************)
EXTENDS VaultAudit, TLC

KindOf == [f \in Findings |-> <<"entity", "log", "page", "pick">>[f]]
=============================================================================
