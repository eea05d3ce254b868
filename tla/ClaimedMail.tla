------------------------------ MODULE ClaimedMail ------------------------------
(***************************************************************************)
(* What a sender that claims before it sends promises of each thing there  *)
(* is to tell, without the file that holds the claims and the processes    *)
(* that keep them: a mail goes only under a claim; the claim is given back *)
(* or spent; what was told is never told again.  A message that the server *)
(* took, though its reply was lost, leaves the sender in doubt: the claim  *)
(* may be given back, and then another copy goes.                          *)
(***************************************************************************)
EXTENDS Naturals

CONSTANT Things

VARIABLES
  phase,        \* thing -> open, held or told
  copies,       \* thing -> how many mails of it were taken
  doubts        \* messages taken of which the sender does not know, of any kind

mailVars == <<phase, copies, doubts>>

ClaimTypeOK ==
  /\ phase \in [Things -> {"open", "held", "told"}]
  /\ copies \in [Things -> Nat]
  /\ doubts \in Nat

ClaimInit ==
  /\ phase = [t \in Things |-> "open"]
  /\ copies = [t \in Things |-> 0]
  /\ doubts = 0

Turn(t, from, to) ==
  /\ phase[t] = from
  /\ phase' = [phase EXCEPT ![t] = to]

Goes(t) == copies' = [copies EXCEPT ![t] = @ + 1]

Hold(t) == Turn(t, "open", "held") /\ UNCHANGED <<copies, doubts>>
Tell(t) == Turn(t, "held", "told") /\ Goes(t) /\ UNCHANGED doubts
GiveBack(t) == Turn(t, "held", "open") /\ UNCHANGED <<copies, doubts>>

(* The claim stays behind, and nobody knows whether the mail went.          *)
Spend(t) == Turn(t, "held", "told") /\ UNCHANGED <<copies, doubts>>

Doubt(t) == Turn(t, "held", "held") /\ Goes(t) /\ doubts' = doubts + 1
DoubtElsewhere == doubts' = doubts + 1 /\ UNCHANGED <<phase, copies>>

ClaimNext ==
  \/ \E t \in Things : Hold(t) \/ Tell(t) \/ GiveBack(t) \/ Spend(t) \/ Doubt(t)
  \/ DoubtElsewhere

ClaimSpec == ClaimInit /\ [][ClaimNext]_mailVars

-----------------------------------------------------------------------------
(* One copy of a thing, and one more for each doubt.                        *)
ToldOnce == \A t \in Things : copies[t] <= 1 + doubts

(* Nothing more goes of what was told.                                      *)
ToldIsFinal ==
  [][\A t \in Things : phase[t] = "told" => phase'[t] = "told" /\ copies'[t] = copies[t]]_mailVars
================================================================================
