---------------------------- MODULE TicketLedger ----------------------------
(***************************************************************************)
(* The ticket ledger of the Workbench: tickets.json and the operations of  *)
(* src/app/workbench_store.py on it.  Every operator below that primes a   *)
(* variable is one function of that file, from its read to its atomic      *)
(* replace, which it runs under the ledger's lock: one step.  (What the    *)
(* lock itself guarantees is the business of module LockFile.)             *)
(*                                                                         *)
(* A ticket is abstracted to its lifecycle state, the plan staged on it,   *)
(* the plan it was delivered from and the marks the user left on it.       *)
(***************************************************************************)
EXTENDS FiniteSets

CONSTANTS
  Tickets,     \* ids a ticket can have
  Briefing,    \* ids that come from the attention items of a briefing
  Advisor,     \* ids of the advisor's suggestions
  Email,       \* ids whose type is "email": the types without a builder
  Plans,       \* what a planner can write on a ticket's `staged` field
  NoPlan       \* `staged` or `delivery` is None

ASSUME LedgerAssumption ==
  /\ Briefing \subseteq Email
  /\ Email \subseteq Tickets
  /\ Advisor \subseteq Tickets \ Email
  /\ NoPlan \notin Plans

VARIABLES
  st,          \* ticket -> lifecycle state, "absent" when it has no row
  staged,      \* ticket -> the plan waiting on, or given, the user's nod
  delivery,    \* ticket -> the plan the delivered work was made from
  marks        \* ticket -> what of the user's own the row carries

ledger == <<st, staged, delivery, marks>>

Manual == Tickets \ (Briefing \cup Advisor)

Decks == Tickets \ (Advisor \cup Email)

States == {"absent", "proposed", "staging", "staged", "approved", "running",
           "verifying", "delivered", "rated", "failed", "dismissed"}

Marks == {"comment", "dod", "pin", "rating"}

(* Deviation: a ticket can be dismissed while it is worked on.              *)
TransitionsLoose ==
  [s \in States |->
     CASE s = "proposed"  -> {"staging", "dismissed", "approved"}
       [] s = "staging"   -> {"staged", "failed", "dismissed"}
       [] s = "staged"    -> {"staging", "approved", "dismissed"}
       [] s = "approved"  -> {"running", "delivered", "failed", "staging"}
       [] s = "running"   -> {"verifying", "delivered", "failed", "dismissed"}
       [] s = "verifying" -> {"delivered", "running", "failed"}
       [] s = "delivered" -> {"rated"}
       [] s = "failed"    -> {"approved", "staging", "dismissed"}
       [] s = "dismissed" -> {"proposed"}
       [] OTHER           -> {}]

(* The lifecycle table.  A ticket without a row moves nowhere (KeyError).   *)
Transitions ==
  [s \in States |->
     CASE s = "proposed"  -> {"staging", "dismissed", "approved"}
       [] s = "staging"   -> {"staged", "failed", "dismissed"}
       [] s = "staged"    -> {"staging", "approved", "dismissed"}
       [] s = "approved"  -> {"running", "delivered", "failed", "staging"}
       [] s = "running"   -> {"verifying", "delivered", "failed"}
       [] s = "verifying" -> {"delivered", "running", "failed"}
       [] s = "delivered" -> {"rated"}
       [] s = "failed"    -> {"approved", "staging", "dismissed"}
       [] s = "dismissed" -> {"proposed"}
       [] OTHER           -> {}]

(* Deviation: a refresh takes dismissed rows for untouched ones.            *)
UserTouchedNarrow == {"staging", "staged", "approved", "running", "verifying",
                      "delivered", "rated", "failed"}

(* What a refresh may neither overwrite nor prune.                          *)
UserTouched == {"staging", "staged", "approved", "running", "verifying",
                "delivered", "rated", "dismissed", "failed"}

LedgerTypeOK ==
  /\ st \in [Tickets -> States]
  /\ staged \in [Tickets -> Plans \cup {NoPlan}]
  /\ delivery \in [Tickets -> Plans \cup {NoPlan}]
  /\ marks \in [Tickets -> SUBSET Marks]

LedgerInit ==
  /\ st = [t \in Tickets |-> "absent"]
  /\ staged = [t \in Tickets |-> NoPlan]
  /\ delivery = [t \in Tickets |-> NoPlan]
  /\ marks = [t \in Tickets |-> {}]

-----------------------------------------------------------------------------
(* Would `transition` accept the move?  It raises when this is false.       *)
Legal(t, to) == to \in Transitions[st[t]]

(* transition(t, to): the move alone, no field written.                     *)
Move(t, to) ==
  /\ Legal(t, to)
  /\ st' = [st EXCEPT ![t] = to]
  /\ UNCHANGED <<staged, delivery, marks>>

(* transition(t, "staged", staged=plan).                                    *)
FilePlan(t, p) ==
  /\ Legal(t, "staged")
  /\ st' = [st EXCEPT ![t] = "staged"]
  /\ staged' = [staged EXCEPT ![t] = p]
  /\ UNCHANGED <<delivery, marks>>

(* transition(t, "delivered", delivery=...).                                *)
Deliver(t, p) ==
  /\ Legal(t, "delivered")
  /\ st' = [st EXCEPT ![t] = "delivered"]
  /\ delivery' = [delivery EXCEPT ![t] = p]
  /\ UNCHANGED <<staged, marks>>

(* propose(items): merge the threads a briefing left open onto the ledger.  *)
(* New threads enter as proposed; what is still proposed and no longer in   *)
(* the briefing is pruned, with its row goes everything on it, its pin too. *)
Pruned(fresh) == {t \in Tickets \ (fresh \cup Manual) :
                     st[t] \notin UserTouched \cup {"absent"}}

Propose(fresh) ==
  /\ st' = [t \in Tickets |->
              IF t \in fresh /\ st[t] = "absent" THEN "proposed"
              ELSE IF t \in Pruned(fresh) THEN "absent" ELSE st[t]]
  /\ staged' = [t \in Tickets |-> IF t \in Pruned(fresh) THEN NoPlan ELSE staged[t]]
  /\ delivery' = [t \in Tickets |-> IF t \in Pruned(fresh) THEN NoPlan ELSE delivery[t]]
  /\ marks' = [t \in Tickets |-> IF t \in Pruned(fresh) THEN {} ELSE marks[t]]

(* Deviation: only a ticket still on the list refuses a suggestion.         *)
AddSuggestionAgain(t, p) ==
  /\ st[t] \in {"absent", "dismissed"}
  /\ st' = [st EXCEPT ![t] = "staged"]
  /\ staged' = [staged EXCEPT ![t] = p]
  /\ UNCHANGED <<delivery, marks>>

(* add_suggestion(ticket): refused when the id exists in any state.         *)
AddSuggestion(t, p) ==
  /\ st[t] = "absent"
  /\ st' = [st EXCEPT ![t] = "staged"]
  /\ staged' = [staged EXCEPT ![t] = p]
  /\ UNCHANGED <<delivery, marks>>

(* create(title, type): an existing title is the same ask, and is returned. *)
Create(t) ==
  /\ st' = [st EXCEPT ![t] = IF @ = "absent" THEN "proposed" ELSE @]
  /\ UNCHANGED <<staged, delivery, marks>>

(* Deviation: a comment moves the ticket to a state the table lacks.        *)
CommentOffTable(t) ==
  /\ st[t] # "absent"
  /\ marks' = [marks EXCEPT ![t] = @ \cup {"comment"}]
  /\ st' = [st EXCEPT ![t] = IF @ \in {"staged", "failed", "proposed"}
                             THEN "commented" ELSE @]
  /\ UNCHANGED <<staged, delivery>>

(* comment(t, text): whatever was staged is stale, so a waiting ticket      *)
(* drops to staging.                                                        *)
CommentOn(t) ==
  /\ st[t] # "absent"
  /\ marks' = [marks EXCEPT ![t] = @ \cup {"comment"}]
  /\ st' = [st EXCEPT ![t] = IF @ \in {"staged", "failed", "proposed"}
                             THEN "staging" ELSE @]
  /\ UNCHANGED <<staged, delivery>>

(* edit_dod(t, dod), and pin(t, position).                                  *)
EditDod(t) ==
  /\ st[t] # "absent"
  /\ marks' = [marks EXCEPT ![t] = @ \cup {"dod"}]
  /\ UNCHANGED <<st, staged, delivery>>

Pin(t, on) ==
  /\ st[t] # "absent"
  /\ marks' = [marks EXCEPT ![t] = IF on THEN @ \cup {"pin"} ELSE @ \ {"pin"}]
  /\ UNCHANGED <<st, staged, delivery>>

(* rate(t, stars): the rating is written whatever the state is.             *)
Rate(t) ==
  /\ st[t] # "absent"
  /\ marks' = [marks EXCEPT ![t] = @ \cup {"rating"}]
  /\ st' = [st EXCEPT ![t] = IF @ = "delivered" THEN "rated" ELSE @]
  /\ UNCHANGED <<staged, delivery>>
=============================================================================
