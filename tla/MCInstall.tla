------------------------------ MODULE MCInstall ------------------------------
(***************************************************************************)
(* Small instances of Install for TLC.                                     *)
(***************************************************************************)
EXTENDS Install, TLC

CONSTANTS google, microsoft
=============================================================================
