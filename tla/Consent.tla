------------------------------- MODULE Consent -------------------------------
(***************************************************************************)
(* What the Workbench and the advisor promise about a suggestion, without  *)
(* the processes that keep the promise: nothing is done before a yes, one  *)
(* yes has the work done at most once, by one process at a time, what was  *)
(* delivered was done and is never asked about again, and a no is final.   *)
(* Work that failed may have been done, whole or in part: another yes has  *)
(* it done again.                                                          *)
(***************************************************************************)
CONSTANT Suggestions

VARIABLES
  phase,       \* suggestion -> where the conversation about it is
  doing,       \* suggestions some process is carrying out
  carried      \* suggestions whose work was carried out and not put down as failed

cvars == <<phase, doing, carried>>

Phases == {"unasked", "asked", "approved", "working", "delivered", "failed", "declined"}

ConsentTypeOK ==
  /\ phase \in [Suggestions -> Phases]
  /\ doing \subseteq Suggestions
  /\ carried \subseteq Suggestions

ConsentInit ==
  /\ phase = [s \in Suggestions |-> "unasked"]
  /\ doing = {}
  /\ carried = {}

Turn(s, from, to) ==
  /\ phase[s] \in from
  /\ phase' = [phase EXCEPT ![s] = to]

(* Put to the user, the first time or again after the user commented on a   *)
(* failure.                                                                 *)
Ask(s) == Turn(s, {"unasked", "failed"}, "asked") /\ UNCHANGED <<doing, carried>>

Yes(s) == Turn(s, {"asked", "failed"}, "approved") /\ UNCHANGED <<doing, carried>>

No(s) == Turn(s, {"asked", "failed"}, "declined") /\ UNCHANGED <<doing, carried>>

Claim(s) ==
  /\ s \notin doing
  /\ Turn(s, {"approved"}, "working")
  /\ doing' = doing \cup {s}
  /\ carried' = carried

Carry(s) ==
  /\ s \in doing \ carried
  /\ carried' = carried \cup {s}
  /\ UNCHANGED <<phase, doing>>

Settle(s) ==
  /\ s \in doing
  /\ \/ s \in carried /\ Turn(s, {"working"}, "delivered") /\ carried' = carried
     \/ Turn(s, {"working"}, "failed") /\ carried' = carried \ {s}
  /\ doing' = doing \ {s}

(* A process dies with all it was doing; nobody takes that work up again.   *)
Abandon ==
  /\ doing' \in SUBSET doing
  /\ UNCHANGED <<phase, carried>>

ConsentNext ==
  \/ \E s \in Suggestions : Ask(s) \/ Yes(s) \/ No(s) \/ Claim(s) \/ Carry(s) \/ Settle(s)
  \/ Abandon

ConsentSpec == ConsentInit /\ [][ConsentNext]_cvars
=============================================================================
