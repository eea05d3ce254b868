-------------------------------- MODULE DraftSend --------------------------------
(***************************************************************************)
(* Replies that are written as drafts and sent on a word of the user       *)
(* (draft_email.draft_once, advisor.send_draft, workbench_serve._send_     *)
(* draft).  A ledger remembers one draft for a reply; nobody locks it, and *)
(* a writer keeps its copy while the mail service makes the draft.  A      *)
(* draft is sent by its id: from the page, by an answer about a suggestion *)
(* that was carried out, or by the user, in the Drafts folder.             *)
(***************************************************************************)
EXTENDS Integers, Sequences, FiniteSets

CONSTANTS
  Replies,      \* draft_key: account, counterparty and subject
  Writers,      \* processes that draft for a briefing
  Tickets,      \* approved suggestions, each to draft a reply
  Presses,      \* presses on a page
  Answers,      \* answers, by mail or in a terminal, to send what a ticket drafted
  ReplyOf,      \* ticket -> the reply
  MaxDrafts, MaxTrouble, None   \* bounds: drafts; faults and overlaps together

(* What the proofs assume: "None" is no entry and no writer's record.       *)
DraftAssumption ==
  /\ IsFiniteSet(Writers \cup Tickets) /\ ReplyOf \in [Tickets -> Replies]
  /\ LET Known == [id : Nat, is : {"draft", "sent"}]
     IN None \notin Known \cup [reply : Replies, copy : [Replies -> Known \cup {None}], id : Nat]

VARIABLES
  drafts,       \* the mail service: id -> [reply, in]
  ledger,       \* draft_ledger.json: reply -> [id, is], or None
  writing,      \* writer or ticket -> [reply, copy, id], or None
  delivery,     \* ticket -> [id, is] once it was carried out, or None
  sending,      \* press or answer -> [reply, ticket, id, at], or None
  copies,       \* history: reply -> copies that went
  overlaps,     \* history: ledgers read while another writer kept its copy
  faults

vars == <<drafts, ledger, writing, delivery, sending, copies, overlaps, faults>>
-----------------------------------------------------------------------------
Fault == faults + overlaps < MaxTrouble /\ faults' = faults + 1
Reads ==
  IF \E v \in DOMAIN writing : writing[v] # None
  THEN faults + overlaps < MaxTrouble /\ overlaps' = overlaps + 1
  ELSE UNCHANGED overlaps
Empty == [r \in Replies |-> None]
Gone(id) == drafts' = [drafts EXCEPT ![id].in = "sent"] /\ copies' = [copies EXCEPT ![drafts[id].reply] = @ + 1]

Init ==
  /\ drafts = <<>> /\ ledger = Empty
  /\ writing = [w \in Writers \cup Tickets |-> None]
  /\ delivery = [t \in Tickets |-> None]
  /\ sending = [s \in Presses \cup Answers |-> None]
  /\ copies = [r \in Replies |-> 0] /\ overlaps = 0 /\ faults = 0

Delivers(w, id) ==
  delivery' = IF w \in Tickets THEN [delivery EXCEPT ![w] = [id |-> id, is |-> "draft"]] ELSE delivery
Wanted(w) == IF w \in Tickets THEN {ReplyOf[w]} ELSE Replies

(* A reply that the ledger holds is not drafted again; a ledger that cannot *)
(* be read is an empty one.                                                 *)
DraftsAlways(w) ==                                                               \* mutant
  /\ writing[w] = None /\ Len(drafts) < MaxDrafts
  /\ \E r \in Wanted(w) : writing' = [writing EXCEPT ![w] = [reply |-> r, copy |-> ledger, id |-> 0]]
  /\ Reads
  /\ UNCHANGED <<drafts, ledger, delivery, sending, copies, faults>>
draft_once(w) ==
  /\ writing[w] = None /\ (w \in Tickets => delivery[w] = None)
  /\ \E r \in Wanted(w), copy \in {ledger, Empty} :
       /\ IF copy = ledger THEN UNCHANGED faults ELSE Fault
       /\ IF copy[r] # None
          THEN Delivers(w, copy[r].id) /\ UNCHANGED <<writing, overlaps>>
          ELSE /\ Len(drafts) < MaxDrafts /\ Reads
               /\ writing' = [writing EXCEPT ![w] = [reply |-> r, copy |-> copy, id |-> 0]]
               /\ UNCHANGED delivery
  /\ UNCHANGED <<drafts, ledger, sending, copies>>

(* The service makes the draft, refuses, or makes it and is not heard.      *)
Made(w) ==
  /\ writing[w] # None /\ writing[w].id = 0
  /\ \/ /\ drafts' = Append(drafts, [reply |-> writing[w].reply, in |-> "drafts"])
        /\ \/ writing' = [writing EXCEPT ![w].id = Len(drafts')] /\ UNCHANGED faults
           \/ writing' = [writing EXCEPT ![w] = None] /\ Fault
     \/ writing' = [writing EXCEPT ![w] = None] /\ UNCHANGED <<drafts, faults>>
  /\ UNCHANGED <<ledger, delivery, sending, copies, overlaps>>

(* The whole copy is written, with the new entry; the ticket learns its id. *)
save_ledger(w) ==
  /\ writing[w] # None /\ writing[w].id # 0
  /\ LET mine == [writing[w].copy EXCEPT ![writing[w].reply] = [id |-> writing[w].id, is |-> "draft"]]
     IN \/ ledger' = mine /\ Delivers(w, writing[w].id) /\ UNCHANGED faults
        \/ UNCHANGED <<ledger, delivery>> /\ Fault
  /\ writing' = [writing EXCEPT ![w] = None]
  /\ UNCHANGED <<drafts, sending, copies, overlaps>>
-----------------------------------------------------------------------------
(* A press is about what the ledger holds, whether it is said to be sent or *)
(* not: the page may be an old one.                                         *)
Press(s) ==
  /\ s \in Presses /\ sending[s] = None
  /\ \E r \in Replies :
       /\ ledger[r] # None
       /\ sending' = [sending EXCEPT ![s] = [reply |-> r, ticket |-> None, id |-> ledger[r].id, at |-> "sends"]]
  /\ UNCHANGED <<drafts, ledger, writing, delivery, copies, overlaps, faults>>

(* An answer checks the ticket, and then stamps it, before it sends.        *)
Answer(s) ==
  /\ s \in Answers /\ sending[s] = None
  /\ \E t \in Tickets :
       /\ delivery[t] # None /\ delivery[t].is = "draft"
       /\ sending' = [sending EXCEPT ![s] = [reply |-> ReplyOf[t], ticket |-> t, id |-> delivery[t].id, at |-> "stamps"]]
  /\ UNCHANGED <<drafts, ledger, writing, delivery, copies, overlaps, faults>>
attach(s) ==
  /\ sending[s] # None /\ sending[s].at = "stamps"
  /\ delivery' = [delivery EXCEPT ![sending[s].ticket] = [id |-> sending[s].id, is |-> "sent"]]
  /\ sending' = [sending EXCEPT ![s].at = "sends"]
  /\ UNCHANGED <<drafts, ledger, writing, copies, overlaps, faults>>

(* What is no draft any more cannot be sent; nothing is tried again.        *)
send_draft(s) ==
  /\ sending[s] # None /\ sending[s].at = "sends"
  /\ \/ /\ drafts[sending[s].id].in = "drafts" /\ Gone(sending[s].id)
        /\ \/ sending' = [sending EXCEPT ![s].at = "said"] /\ UNCHANGED faults
           \/ sending' = [sending EXCEPT ![s] = None] /\ Fault
     \/ sending' = [sending EXCEPT ![s] = None] /\ UNCHANGED <<drafts, copies, faults>>
  /\ UNCHANGED <<ledger, writing, delivery, overlaps>>

(* The ledger's stamp is read and written at once, and may fail unheard.    *)
StampsLedger(s) ==
  /\ sending[s] # None /\ sending[s].at = "said"
  /\ \/ ledger' = IF ledger[sending[s].reply] = None THEN ledger ELSE [ledger EXCEPT ![sending[s].reply].is = "sent"]
     \/ UNCHANGED ledger
  /\ sending' = [sending EXCEPT ![s] = None]
  /\ UNCHANGED <<drafts, writing, delivery, copies, overlaps, faults>>

UserSends(id) ==
  /\ drafts[id].in = "drafts" /\ Gone(id)
  /\ UNCHANGED <<ledger, writing, delivery, sending, overlaps, faults>>
UserDeletes(id) ==
  /\ drafts[id].in = "drafts" /\ drafts' = [drafts EXCEPT ![id].in = "bin"]
  /\ UNCHANGED <<ledger, writing, delivery, sending, copies, overlaps, faults>>

Dies(w) ==
  /\ Fault
  /\ \/ w \in DOMAIN writing /\ writing[w] # None /\ writing' = [writing EXCEPT ![w] = None] /\ UNCHANGED sending
     \/ w \in DOMAIN sending /\ sending[w] # None /\ sending' = [sending EXCEPT ![w] = None] /\ UNCHANGED writing
  /\ UNCHANGED <<drafts, ledger, delivery, copies, overlaps>>

Next ==
  \/ \E w \in Writers \cup Tickets : draft_once(w) \/ Made(w) \/ save_ledger(w) \/ Dies(w)
  \/ \E s \in Presses \cup Answers : Press(s) \/ Answer(s) \/ attach(s) \/ send_draft(s) \/ StampsLedger(s) \/ Dies(s)
  \/ \E id \in DOMAIN drafts : UserSends(id) \/ UserDeletes(id)

Spec == Init /\ [][Next]_vars
-----------------------------------------------------------------------------
(* "A duplicate is worse than a line telling the reader to check Sent": a   *)
(* reply goes once, whoever drafts it, presses, answers or sends it by hand,*)
(* together and in any order.  A second copy takes a second draft, which a  *)
(* fault cost, or a writer that read the ledger while another kept its copy.*)
GoesOnce == \A r \in Replies : copies[r] <= 1 + overlaps + faults

(* "Was already sent" is so of a draft the ticket's stamp speaks of.  It    *)
(* fails: the stamp is made before the send and stays when it is refused.   *)
StampedWasSent ==
  \A t \in Tickets : delivery[t] # None /\ delivery[t].is = "sent" =>
    \/ drafts[delivery[t].id].in = "sent"
    \/ \E s \in Answers : sending[s] # None /\ sending[s].ticket = t

(* A carried-out draft "is in your Drafts folder" (_do_draft).  It fails:   *)
(* the ledger's draft may long be sent.                                     *)
DraftIsThere ==
  [][\A t \in Tickets : delivery[t] = None /\ delivery'[t] # None => drafts[delivery'[t].id].in = "drafts"]_vars
==================================================================================
