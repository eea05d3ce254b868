--------------------------- MODULE MCAdvisorReplies ---------------------------
(***************************************************************************)
(* A small instance for TLC of the advisor's lists and of the drafts that  *)
(* are sent on a word of the user (Correspondence).                        *)
(***************************************************************************)
EXTENDS Correspondence, TLC

CONSTANTS c1, m1, m2, b1

OneList == {c1}
TwoMessages == {m1, m2}
TwoToOneList == [m \in {m1, m2} |-> c1]
OneBriefing == {b1}

TheReply == [t \in {"ticket"} |-> "to Ada"]
=============================================================================
