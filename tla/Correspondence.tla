---------------------------- MODULE Correspondence ----------------------------
(***************************************************************************)
(* What the advisor and the user write to each other, side by side: the    *)
(* numbered lists and their answers (AdvisorReplies), and the replies that *)
(* are drafted and sent on a word of the user (DraftSend).  They share no  *)
(* file; the initial state picks the one a behaviour is about, and the     *)
(* other stands still.                                                     *)
(***************************************************************************)
EXTENDS AdvisorReplies

VARIABLES
  part,                                                                  \* which of them
  drafts, ledger, writing, delivery, sending, copies, overlaps, faults   \* DraftSend

CONSTANTS Replies, Writers, Tickets, Presses, Answers, ReplyOf, MaxDrafts, MaxTrouble, None

S == INSTANCE DraftSend

ASSUME DraftsAssumption == S!DraftAssumption

mail == <<drafts, ledger, writing, delivery, sending, copies, overlaps, faults>>
all == <<part, vars, mail>>

(* Drafts come to rest when the bounds are reached; the lists never do.     *)
CorrInit == Init /\ S!Init /\ part \in {"lists", "drafts"}
CorrNext ==
  /\ UNCHANGED part
  /\ \/ part = "lists" /\ Next /\ UNCHANGED mail
     \/ part = "drafts" /\ (S!Next \/ UNCHANGED mail) /\ UNCHANGED vars
CorrSpec == CorrInit /\ [][CorrNext]_all

(* The scheduler runs the tick again and again (FairSpec).                  *)
RepliesSpec ==
  /\ CorrSpec
  /\ SF_vars(part = "lists" /\ TickStep)
  /\ \A b \in Briefings : WF_vars(part = "lists" /\ BriefingRegisters(b))
  /\ \A c \in Codes : SF_vars(part = "lists" /\ Fetch(c) /\ tick' = "read")

-----------------------------------------------------------------------------
(* A reply goes once, but for faults and overlaps (DraftSend).              *)
GoesOnce == S!GoesOnce
=============================================================================
