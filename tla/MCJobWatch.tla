------------------------------ MODULE MCJobWatch ------------------------------
(* Instances of JobWatch for TLC: the failures and their classes.           *)
EXTENDS JobWatch, TLC

CONSTANTS crash, limit, login, flap, old

Classes ==
  (crash :> "other") @@ (limit :> "quota") @@ (login :> "auth") @@ (flap :> "classifier")
  @@ (old :> "version")
=============================================================================
