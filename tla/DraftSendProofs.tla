----------------------------- MODULE DraftSendProofs -----------------------------
(***************************************************************************)
(* Proof that a reply goes once, but for faults and overlaps (DraftSend),  *)
(* for any replies, writers, tickets, presses and answers.                 *)
(***************************************************************************)
EXTENDS DraftSend, FiniteSetTheorems, TLAPS

Wr == Writers \cup Tickets
Entry == [id : 1 .. Len(drafts), is : {"draft", "sent"}]
Ledgers == [Replies -> Entry \cup {None}]
Draft == [reply : Replies, in : {"drafts", "sent", "bin"}]

TypeOK ==
  /\ drafts \in Seq(Draft)
  /\ ledger \in Ledgers
  /\ writing \in [Wr -> [reply : Replies, copy : Ledgers, id : 0 .. Len(drafts)] \cup {None}]
  /\ delivery \in [Tickets -> Entry \cup {None}]
  /\ sending \in [Presses \cup Answers ->
       [reply : Replies, ticket : Tickets \cup {None}, id : 1 .. Len(drafts), at : {"stamps", "sends", "said"}]
       \cup {None}]
  /\ \A s \in Presses \cup Answers : sending[s] # None /\ sending[s].at = "stamps" => sending[s].ticket \in Tickets
  /\ copies \in [Replies -> Nat] /\ overlaps \in Nat /\ faults \in Nat

Of(r) == {id \in 1 .. Len(drafts) : drafts[id].reply = r}
SentOf(r) == {id \in Of(r) : drafts[id].in = "sent"}

(* Writers whose copy does not hold the reply: what they write drops it, or *)
(* adds a draft of it.  Those that have added theirs cost nothing more.     *)
Blind(r) == {w \in Wr : writing[w] # None /\ writing[w].copy[r] = None}
Costly(r) == {w \in Blind(r) : ~ (writing[w].reply = r /\ writing[w].id # 0)}
Room(r) == IF ledger[r] # None \/ Blind(r) # {} THEN 1 ELSE 0

(* The drafts of a reply, and the writers that may yet cost one, number at  *)
(* most the overlaps and faults, and one that the ledger or a writer knows. *)
Budget(r) == Cardinality(Of(r)) + Cardinality(Costly(r)) <= overlaps + faults + Room(r)
Counted(r) == copies[r] = Cardinality(SentOf(r))


(* A writer drafts what its copy does not hold.                             *)
Missed == \A w \in Wr : writing[w] # None => writing[w].copy[writing[w].reply] = None

IInv == TypeOK /\ Missed /\ \A r \in Replies : Budget(r) /\ Counted(r)
-----------------------------------------------------------------------------
LEMMA Finite ==
  ASSUME DraftAssumption, TypeOK, NEW r \in Replies
  PROVE  /\ IsFiniteSet(Of(r)) /\ IsFiniteSet(SentOf(r)) /\ IsFiniteSet(Blind(r)) /\ IsFiniteSet(Costly(r))
         /\ Cardinality(Of(r)) \in Nat /\ Cardinality(SentOf(r)) \in Nat /\ Cardinality(Costly(r)) \in Nat
         /\ Cardinality(SentOf(r)) <= Cardinality(Of(r))
<1>1. IsFiniteSet(1 .. Len(drafts))
  BY FS_Interval DEF TypeOK
<1>2. IsFiniteSet(Of(r)) /\ SentOf(r) \in SUBSET Of(r)
  BY <1>1, FS_Subset DEF Of, SentOf
<1>3. IsFiniteSet(Wr)
  BY DEF DraftAssumption, Wr
<1>4. IsFiniteSet(Blind(r)) /\ Costly(r) \in SUBSET Blind(r)
  BY <1>3, FS_Subset DEF Blind, Costly
<1>5. IsFiniteSet(SentOf(r)) /\ IsFiniteSet(Costly(r)) /\ Cardinality(SentOf(r)) <= Cardinality(Of(r))
  BY <1>2, <1>4, FS_Subset
<1> QED
  BY <1>2, <1>4, <1>5, FS_CardinalityType

LEMMA NotNone ==
  ASSUME DraftAssumption, TypeOK, NEW e
  PROVE  /\ e \in Entry => e # None
         /\ e \in [reply : Replies, copy : Ledgers, id : Nat] => e # None
<1> DEFINE Known == [id : Nat, is : {"draft", "sent"}]
<1>1. None \notin Known /\ None \notin [reply : Replies, copy : [Replies -> Known \cup {None}], id : Nat]
  BY DEF DraftAssumption
<1>2. Entry \subseteq Known
  BY DEF Entry
<1> HIDE DEF Known
<1>3. Ledgers \subseteq [Replies -> Known \cup {None}]
  BY <1>2 DEF Ledgers
<1> QED
  BY <1>1, <1>2, <1>3

LEMMA InitIInv == ASSUME DraftAssumption, Init PROVE IInv
<1>1. TypeOK
  BY DEF Init, TypeOK, Empty, Wr, Ledgers, Draft, Entry
<1>2. ASSUME NEW r \in Replies PROVE Budget(r) /\ Counted(r)
  <2>1. Of(r) = {} /\ SentOf(r) = {} /\ Costly(r) = {} /\ Room(r) \in {0, 1}
    BY DEF Init, Of, SentOf, Costly, Blind, Room, Wr
  <2>2. Cardinality({}) = 0
    BY FS_EmptySet
  <2> QED
    BY <2>1, <2>2 DEF Init, Budget, Counted
<1>3. Missed
  BY DEF Init, Missed, Wr
<1> QED
  BY <1>1, <1>2, <1>3 DEF IInv

(* Drafts are only added, and their ids stay known.                         *)
LEMMA Widens ==
  ASSUME TypeOK, DOMAIN drafts \subseteq DOMAIN drafts', drafts' \in Seq(Draft)
  PROVE  /\ Len(drafts) <= Len(drafts')
         /\ Entry \subseteq Entry' /\ Ledgers \subseteq Ledgers' /\ 0 .. Len(drafts) \subseteq 0 .. Len(drafts')
         /\ 1 .. Len(drafts) \subseteq 1 .. Len(drafts')
<1>1. DOMAIN drafts = 1 .. Len(drafts) /\ DOMAIN drafts' = 1 .. Len(drafts') /\ Len(drafts) \in Nat /\ Len(drafts') \in Nat
  BY DEF TypeOK
<1>2. Len(drafts) <= Len(drafts')
  BY <1>1
<1>3. 1 .. Len(drafts) \subseteq 1 .. Len(drafts') /\ 0 .. Len(drafts) \subseteq 0 .. Len(drafts')
  BY <1>1, <1>2
<1>4. Entry \subseteq Entry'
  BY <1>3 DEF Entry
<1>5. Ledgers \subseteq Ledgers'
  BY <1>4 DEF Ledgers
<1> QED
  BY <1>2, <1>3, <1>4, <1>5

(* A draft that is sent or deleted is the draft it was.                     *)
LEMMA Placed ==
  ASSUME TypeOK, NEW id \in 1 .. Len(drafts), NEW p \in {"sent", "bin"}, drafts' = [drafts EXCEPT ![id].in = p]
  PROVE  /\ drafts' \in Seq(Draft) /\ Len(drafts') = Len(drafts)
         /\ \A i \in 1 .. Len(drafts) : drafts'[i].reply = drafts[i].reply
         /\ \A i \in 1 .. Len(drafts) : drafts'[i].in = IF i = id THEN p ELSE drafts[i].in
<1>1. drafts[id] \in Draft
  BY DEF TypeOK
<1>2. [drafts[id] EXCEPT !.in = p] \in Draft
  BY <1>1 DEF Draft
<1>3. drafts' = [drafts EXCEPT ![id] = [drafts[id] EXCEPT !.in = p]]
  OBVIOUS
<1>4. drafts' \in Seq(Draft) /\ Len(drafts') = Len(drafts)
  BY <1>2, <1>3 DEF TypeOK
<1>5. ASSUME NEW i \in 1 .. Len(drafts) PROVE drafts[i] \in Draft
  BY DEF TypeOK
<1>6. \A i \in 1 .. Len(drafts) : drafts'[i] = IF i = id THEN [drafts[id] EXCEPT !.in = p] ELSE drafts[i]
  BY <1>3 DEF TypeOK
<1> QED
  BY <1>1, <1>4, <1>5, <1>6 DEF Draft

LEMMA DraftType ==
  ASSUME TypeOK, NEW id \in 1 .. Len(drafts)
  PROVE  drafts[id] \in Draft /\ drafts[id].reply \in Replies
<1>1. drafts[id] \in Draft
  BY DEF TypeOK
<1> QED
  BY <1>1 DEF Draft

LEMMA WritersTypes ==
  ASSUME DraftAssumption, TypeOK, NEW w \in Wr, draft_once(w) \/ Made(w) \/ save_ledger(w)
  PROVE  TypeOK'
<1>1. CASE draft_once(w)
  <2> USE <1>1
  <2>1. UNCHANGED <<drafts, ledger, sending, copies>>
    BY DEF draft_once
  <2>2. UNCHANGED <<Entry, Ledgers>>
    BY <2>1 DEF Entry, Ledgers
  <2>3. PICK r \in Wanted(w), copy \in {ledger, Empty} :
          /\ IF copy = ledger THEN UNCHANGED faults ELSE Fault
          /\ IF copy[r] # None
             THEN Delivers(w, copy[r].id) /\ UNCHANGED <<writing, overlaps>>
             ELSE /\ Len(drafts) < MaxDrafts /\ Reads
                  /\ writing' = [writing EXCEPT ![w] = [reply |-> r, copy |-> copy, id |-> 0]]
                  /\ UNCHANGED delivery
    BY DEF draft_once
  <2>4. r \in Replies /\ copy \in Ledgers
    <3>1. r \in Replies
      <4>1. ASSUME w \in Tickets PROVE ReplyOf[w] \in Replies
        BY <4>1 DEF DraftAssumption
      <4> QED
        BY <4>1 DEF Wanted
    <3>2. ledger \in Ledgers
      BY DEF TypeOK
    <3>3. Empty \in Ledgers
      BY DEF Empty, Ledgers
    <3> QED
      BY <3>1, <3>2, <3>3
  <2>5. faults' \in Nat
    <3>1. CASE copy = ledger
      BY <2>3, <3>1 DEF TypeOK
    <3>2. CASE copy # ledger
      <4>1. Fault
        BY <2>3, <3>2
      <4> QED
        BY <4>1 DEF Fault, TypeOK
    <3> QED
      BY <3>1, <3>2
  <2>6. CASE copy[r] # None
    <3>1. copy[r].id \in 1 .. Len(drafts)
      BY <2>4, <2>6 DEF Ledgers, Entry
    <3>2. delivery' \in [Tickets -> Entry \cup {None}]
      BY <2>3, <2>6, <3>1 DEF Delivers, Entry, TypeOK
    <3> QED
      BY <2>1, <2>2, <2>3, <2>5, <2>6, <3>2 DEF TypeOK
  <2>7. CASE copy[r] = None
    <3>1. overlaps' \in Nat
      BY <2>3, <2>7 DEF Reads, TypeOK
    <3>2. writing' \in [Wr -> [reply : Replies, copy : Ledgers, id : 0 .. Len(drafts)] \cup {None}]
      BY <2>3, <2>4, <2>7 DEF TypeOK
    <3>3. UNCHANGED delivery
      BY <2>3, <2>7
    <3> QED
      BY <2>1, <2>2, <2>5, <3>1, <3>2, <3>3 DEF TypeOK
  <2> QED
    BY <2>6, <2>7
<1>2. CASE Made(w)
  <2> USE <1>2
  <2>1. writing[w] \in [reply : Replies, copy : Ledgers, id : 0 .. Len(drafts)]
    BY DEF Made, TypeOK
  <2>2. drafts' \in Seq(Draft) /\ DOMAIN drafts \subseteq DOMAIN drafts'
    <3> DEFINE new == [reply |-> writing[w].reply, in |-> "drafts"]
    <3>1. new \in Draft /\ drafts \in Seq(Draft)
      BY <2>1 DEF Draft, TypeOK
    <3>2. drafts' = Append(drafts, new) \/ drafts' = drafts
      BY DEF Made
    <3> HIDE DEF new
    <3> QED
      BY <3>1, <3>2
  <2>3. /\ Entry \subseteq Entry' /\ Ledgers \subseteq Ledgers' /\ 0 .. Len(drafts) \subseteq 0 .. Len(drafts')
        /\ 1 .. Len(drafts) \subseteq 1 .. Len(drafts')
    BY <2>2, Widens
  <2>4. writing' \in [Wr -> [reply : Replies, copy : Ledgers', id : 0 .. Len(drafts')] \cup {None}]
    <3>1. writing \in [Wr -> [reply : Replies, copy : Ledgers', id : 0 .. Len(drafts')] \cup {None}]
      BY <2>3 DEF TypeOK
    <3>2. CASE writing' = [writing EXCEPT ![w] = None]
      BY <3>1, <3>2
    <3>3. CASE writing' = [writing EXCEPT ![w].id = Len(drafts')]
      <4>1. Len(drafts') \in 0 .. Len(drafts')
        BY <2>2
      <4>2. [writing[w] EXCEPT !.id = Len(drafts')] \in [reply : Replies, copy : Ledgers', id : 0 .. Len(drafts')]
        BY <2>1, <2>3, <4>1
      <4> QED
        BY <3>1, <3>3, <4>2
    <3> QED
      BY <3>2, <3>3 DEF Made
  <2>5. faults' \in Nat
    BY DEF Made, Fault, TypeOK
  <2>6. UNCHANGED <<ledger, delivery, sending, copies, overlaps>>
    BY DEF Made
  <2>7. /\ ledger \in Ledgers' /\ delivery \in [Tickets -> Entry' \cup {None}]
        /\ sending \in [Presses \cup Answers ->
             [reply : Replies, ticket : Tickets \cup {None}, id : 1 .. Len(drafts'), at : {"stamps", "sends", "said"}]
             \cup {None}]
    BY <2>3 DEF TypeOK
  <2> QED
    BY <2>2, <2>4, <2>5, <2>6, <2>7 DEF TypeOK
<1>3. CASE save_ledger(w)
  <2> USE <1>3
  <2>1. UNCHANGED <<drafts, sending, copies, overlaps>>
    BY DEF save_ledger
  <2>2. UNCHANGED <<Entry, Ledgers>>
    BY <2>1 DEF Entry, Ledgers
  <2>3. writing[w] \in [reply : Replies, copy : Ledgers, id : 0 .. Len(drafts)] /\ writing[w].id # 0
    BY DEF save_ledger, TypeOK
  <2>4. [id |-> writing[w].id, is |-> "draft"] \in Entry
    BY <2>3 DEF Entry
  <2>5. ledger' \in Ledgers
    BY <2>3, <2>4 DEF save_ledger, Ledgers, TypeOK
  <2>6. delivery' \in [Tickets -> Entry \cup {None}]
    BY <2>4 DEF save_ledger, Delivers, TypeOK
  <2>7. faults' \in Nat
    BY DEF save_ledger, Fault, TypeOK
  <2>8. writing' \in [Wr -> [reply : Replies, copy : Ledgers, id : 0 .. Len(drafts)] \cup {None}]
    BY DEF save_ledger, TypeOK
  <2> QED
    BY <2>1, <2>2, <2>5, <2>6, <2>7, <2>8 DEF TypeOK
<1> QED
  BY <1>1, <1>2, <1>3

LEMMA SendersTypes ==
  ASSUME DraftAssumption, TypeOK, NEW s \in Presses \cup Answers,
         Press(s) \/ Answer(s) \/ attach(s) \/ send_draft(s) \/ StampsLedger(s)
  PROVE  TypeOK'
<1> DEFINE Sending == [reply : Replies, ticket : Tickets \cup {None}, id : 1 .. Len(drafts), at : {"stamps", "sends", "said"}]
<1>1. CASE Press(s)
  <2> USE <1>1
  <2>1. PICK r \in Replies :
          /\ ledger[r] # None
          /\ sending' = [sending EXCEPT ![s] = [reply |-> r, ticket |-> None, id |-> ledger[r].id, at |-> "sends"]]
    BY DEF Press
  <2>2. ledger[r].id \in 1 .. Len(drafts)
    BY <2>1 DEF TypeOK, Ledgers, Entry
  <2>3. sending' \in [Presses \cup Answers -> Sending \cup {None}]
    BY <2>1, <2>2 DEF TypeOK
  <2>4. \A x \in Presses \cup Answers : sending'[x] # None /\ sending'[x].at = "stamps" => sending'[x].ticket \in Tickets
    BY <2>1 DEF TypeOK
  <2>5. UNCHANGED <<drafts, ledger, writing, delivery, copies, overlaps, faults>>
    BY DEF Press
  <2> QED
    BY <2>3, <2>4, <2>5 DEF TypeOK, Ledgers, Entry
<1>2. CASE Answer(s)
  <2> USE <1>2
  <2>1. PICK t \in Tickets :
          /\ delivery[t] # None /\ delivery[t].is = "draft"
          /\ sending' = [sending EXCEPT ![s] = [reply |-> ReplyOf[t], ticket |-> t, id |-> delivery[t].id, at |-> "stamps"]]
    BY DEF Answer
  <2>2. delivery[t].id \in 1 .. Len(drafts) /\ ReplyOf[t] \in Replies
    BY <2>1 DEF TypeOK, Entry, DraftAssumption
  <2>3. sending' \in [Presses \cup Answers -> Sending \cup {None}]
    BY <2>1, <2>2 DEF TypeOK
  <2>4. \A x \in Presses \cup Answers : sending'[x] # None /\ sending'[x].at = "stamps" => sending'[x].ticket \in Tickets
    BY <2>1 DEF TypeOK
  <2>5. UNCHANGED <<drafts, ledger, writing, delivery, copies, overlaps, faults>>
    BY DEF Answer
  <2> QED
    BY <2>3, <2>4, <2>5 DEF TypeOK, Ledgers, Entry
<1>3. CASE attach(s)
  <2> USE <1>3
  <2>1. sending[s] \in Sending /\ sending[s].ticket \in Tickets
    BY DEF attach, TypeOK
  <2>2. delivery' \in [Tickets -> Entry \cup {None}]
    BY <2>1 DEF attach, TypeOK, Entry
  <2>3. [sending[s] EXCEPT !.at = "sends"] \in Sending
    BY <2>1
  <2>4. sending' \in [Presses \cup Answers -> Sending \cup {None}]
    BY <2>3 DEF attach, TypeOK
  <2>5. \A x \in Presses \cup Answers : sending'[x] # None /\ sending'[x].at = "stamps" => sending'[x].ticket \in Tickets
    BY <2>1 DEF attach, TypeOK
  <2>6. UNCHANGED <<drafts, ledger, writing, copies, overlaps, faults>>
    BY DEF attach
  <2> QED
    BY <2>2, <2>4, <2>5, <2>6 DEF TypeOK, Ledgers, Entry
<1>4. CASE send_draft(s)
  <2> USE <1>4
  <2>1. sending[s] \in Sending
    BY DEF send_draft, TypeOK
  <2>2. [sending[s] EXCEPT !.at = "said"] \in Sending
    BY <2>1
  <2>3. sending' = [sending EXCEPT ![s] = [sending[s] EXCEPT !.at = "said"]] \/ sending' = [sending EXCEPT ![s] = None]
    BY DEF send_draft
  <2>4. /\ sending' \in [Presses \cup Answers -> Sending \cup {None}]
        /\ \A x \in Presses \cup Answers : sending'[x] # None /\ sending'[x].at = "stamps" => sending'[x].ticket \in Tickets
    BY <2>1, <2>2, <2>3 DEF TypeOK
  <2>5. UNCHANGED <<ledger, writing, delivery, overlaps>> /\ faults' \in Nat
    BY DEF send_draft, Fault, TypeOK
  <2>6. Gone(sending[s].id) \/ UNCHANGED <<drafts, copies>>
    BY DEF send_draft
  <2>7. drafts' \in Seq(Draft) /\ Len(drafts') = Len(drafts) /\ copies' \in [Replies -> Nat]
    <3>1. CASE Gone(sending[s].id)
      <4>1. drafts' \in Seq(Draft) /\ Len(drafts') = Len(drafts)
        BY <2>1, <3>1, Placed DEF Gone
      <4>2. copies \in [Replies -> Nat]
        BY DEF TypeOK
      <4>3. PICK r \in Replies : copies' = [copies EXCEPT ![r] = @ + 1]
        <5>1. drafts[sending[s].id].reply \in Replies
          BY <2>1, DraftType
        <5> QED
          BY <3>1, <5>1 DEF Gone
      <4>4. copies' \in [Replies -> Nat]
        BY <4>2, <4>3
      <4> QED
        BY <4>1, <4>4
    <3> QED
      BY <2>6, <3>1 DEF TypeOK
  <2>8. UNCHANGED <<Entry, Ledgers>>
    BY <2>7 DEF Entry, Ledgers
  <2> QED
    BY <2>4, <2>5, <2>7, <2>8 DEF TypeOK
<1>5. CASE StampsLedger(s)
  <2> USE <1>5
  <2>1. sending[s] \in Sending
    BY DEF StampsLedger, TypeOK
  <2>2. UNCHANGED <<drafts, writing, delivery, copies, overlaps, faults>>
    BY DEF StampsLedger
  <2>3. ledger' \in Ledgers
    <3>1. ledger \in Ledgers
      BY DEF TypeOK
    <3>2. CASE ledger[sending[s].reply] # None
      <4>1. [ledger[sending[s].reply] EXCEPT !.is = "sent"] \in Entry
        BY <2>1, <3>1, <3>2 DEF Ledgers, Entry
      <4>2. ledger' = ledger \/ ledger' = [ledger EXCEPT ![sending[s].reply] = [ledger[sending[s].reply] EXCEPT !.is = "sent"]]
        BY <3>2 DEF StampsLedger
      <4> QED
        BY <3>1, <4>1, <4>2 DEF Ledgers
    <3>3. CASE ledger[sending[s].reply] = None
      BY <3>1, <3>3 DEF StampsLedger
    <3> QED
      BY <3>2, <3>3
  <2>4. /\ sending' \in [Presses \cup Answers -> Sending \cup {None}]
        /\ \A x \in Presses \cup Answers : sending'[x] # None /\ sending'[x].at = "stamps" => sending'[x].ticket \in Tickets
    BY DEF StampsLedger, TypeOK
  <2>5. UNCHANGED <<Entry, Ledgers>>
    BY <2>2 DEF Entry, Ledgers
  <2> QED
    BY <2>2, <2>3, <2>4, <2>5 DEF TypeOK
<1> QED
  BY <1>1, <1>2, <1>3, <1>4, <1>5

LEMMA StepTypes == ASSUME DraftAssumption, TypeOK, [Next]_vars PROVE TypeOK'
<1>1. ASSUME NEW w \in Wr, draft_once(w) \/ Made(w) \/ save_ledger(w) PROVE TypeOK'
  BY <1>1, WritersTypes
<1>2. ASSUME NEW s \in Presses \cup Answers, Press(s) \/ Answer(s) \/ attach(s) \/ send_draft(s) \/ StampsLedger(s)
      PROVE  TypeOK'
  BY <1>2, SendersTypes
<1>3. ASSUME NEW x, Dies(x) PROVE TypeOK'
  <2>1. faults' \in Nat /\ UNCHANGED <<drafts, ledger, delivery, copies, overlaps>>
    BY <1>3 DEF Dies, Fault, TypeOK
  <2>2. UNCHANGED <<Entry, Ledgers>>
    BY <2>1 DEF Entry, Ledgers
  <2>3. writing' \in [Wr -> [reply : Replies, copy : Ledgers, id : 0 .. Len(drafts)] \cup {None}]
    BY <1>3 DEF Dies, TypeOK
  <2>4. /\ sending' \in [Presses \cup Answers ->
             [reply : Replies, ticket : Tickets \cup {None}, id : 1 .. Len(drafts), at : {"stamps", "sends", "said"}]
             \cup {None}]
        /\ \A s \in Presses \cup Answers : sending'[s] # None /\ sending'[s].at = "stamps" => sending'[s].ticket \in Tickets
    BY <1>3 DEF Dies, TypeOK
  <2> QED
    BY <2>1, <2>2, <2>3, <2>4 DEF TypeOK
<1>4. ASSUME NEW id \in 1 .. Len(drafts), UserSends(id) \/ UserDeletes(id) PROVE TypeOK'
  <2>1. drafts' = [drafts EXCEPT ![id].in = "sent"] \/ drafts' = [drafts EXCEPT ![id].in = "bin"]
    BY <1>4 DEF UserSends, UserDeletes, Gone
  <2>2. drafts' \in Seq(Draft) /\ Len(drafts') = Len(drafts)
    BY <2>1, Placed
  <2>3. UNCHANGED <<ledger, writing, delivery, sending, overlaps, faults>>
    BY <1>4 DEF UserSends, UserDeletes
  <2>4. copies' \in [Replies -> Nat]
    <3>1. copies \in [Replies -> Nat]
      BY DEF TypeOK
    <3>2. drafts[id].reply \in Replies
      BY DraftType
    <3>3. CASE UserSends(id)
      <4>1. copies' = [copies EXCEPT ![drafts[id].reply] = @ + 1]
        BY <3>3 DEF UserSends, Gone
      <4> QED
        BY <3>1, <3>2, <4>1
    <3>4. CASE UserDeletes(id)
      BY <3>1, <3>4 DEF UserDeletes
    <3> QED
      BY <1>4, <3>3, <3>4
  <2>5. UNCHANGED <<Entry, Ledgers>>
    BY <2>2 DEF Entry, Ledgers
  <2> QED
    BY <2>2, <2>3, <2>4, <2>5 DEF TypeOK
<1>5. CASE UNCHANGED vars
  BY <1>5 DEF vars, TypeOK, Ledgers, Entry
<1>6. DOMAIN drafts = 1 .. Len(drafts)
  BY DEF TypeOK
<1> QED
  BY <1>1, <1>2, <1>3, <1>4, <1>5, <1>6 DEF Next, Wr
-----------------------------------------------------------------------------
(* A writer that stops, or is done, is blind to nothing.                    *)
LEMMA Leaves ==
  ASSUME DraftAssumption, TypeOK, NEW w \in Wr, writing' = [writing EXCEPT ![w] = None], NEW r \in Replies
  PROVE  /\ Blind(r)' = Blind(r) \ {w}
         /\ Cardinality(Costly(r)') = IF w \in Costly(r) THEN Cardinality(Costly(r)) - 1 ELSE Cardinality(Costly(r))
<1>1. Blind(r)' = Blind(r) \ {w} /\ Costly(r)' = Costly(r) \ {w}
  BY DEF TypeOK, Blind, Costly
<1>2. IsFiniteSet(Costly(r))
  BY Finite
<1> QED
  BY <1>1, <1>2, FS_RemoveElement

LEMMA Joins ==
  ASSUME DraftAssumption, TypeOK, NEW w \in Wr, writing[w] = None, NEW e, NEW r \in Replies,
         e # None, e.id = 0, writing' = [writing EXCEPT ![w] = e]
  PROVE  IF e.copy[r] = None
         THEN Blind(r)' = Blind(r) \cup {w} /\ Cardinality(Costly(r)') = Cardinality(Costly(r)) + 1
         ELSE Blind(r)' = Blind(r) /\ Costly(r)' = Costly(r)
<1>1. CASE e.copy[r] = None
  <2>1. Blind(r)' = Blind(r) \cup {w} /\ Costly(r)' = Costly(r) \cup {w} /\ w \notin Costly(r)
    BY <1>1 DEF TypeOK, Blind, Costly
  <2>2. IsFiniteSet(Costly(r))
    BY Finite
  <2> QED
    BY <1>1, <2>1, <2>2, FS_AddElement
<1>2. CASE e.copy[r] # None
  <2>1. Blind(r)' = Blind(r)
    BY <1>2 DEF TypeOK, Blind
  <2>2. Costly(r)' = Costly(r)
    BY <1>2 DEF TypeOK, Blind, Costly
  <2> QED
    BY <1>2, <2>1, <2>2
<1> QED
  BY <1>1, <1>2

LEMMA Adds ==
  ASSUME DraftAssumption, TypeOK, NEW q \in Replies, NEW r \in Replies,
         drafts' = Append(drafts, [reply |-> q, in |-> "drafts"])
  PROVE  /\ Cardinality(Of(r)') = IF q = r THEN Cardinality(Of(r)) + 1 ELSE Cardinality(Of(r))
         /\ SentOf(r)' = SentOf(r)
<1> DEFINE new == [reply |-> q, in |-> "drafts"]
           n == Len(drafts)
<1>1. new.reply = q /\ new.in = "drafts" /\ drafts' = Append(drafts, new) /\ new \in Draft
  BY DEF Draft
<1> HIDE DEF new
<1>2. n \in Nat /\ Len(drafts') = n + 1 /\ drafts'[n + 1] = new /\ \A i \in 1 .. n : drafts'[i] = drafts[i]
  BY <1>1 DEF TypeOK
<1>3. 1 .. Len(drafts') = (1 .. n) \cup {n + 1} /\ n + 1 \notin 1 .. n
  BY <1>2
<1>4. Of(r)' = (IF q = r THEN Of(r) \cup {n + 1} ELSE Of(r)) /\ n + 1 \notin Of(r)
  BY <1>1, <1>2, <1>3 DEF Of
<1>5. SentOf(r)' = SentOf(r)
  BY <1>1, <1>2, <1>4 DEF SentOf, Of
<1>6. IsFiniteSet(Of(r))
  BY Finite
<1> QED
  BY <1>4, <1>5, <1>6, FS_AddElement

(* What is sent or deleted stays a draft of its reply.                      *)
LEMMA Moves ==
  ASSUME DraftAssumption, TypeOK, NEW id \in 1 .. Len(drafts), NEW p \in {"sent", "bin"}, NEW r \in Replies,
         drafts[id].in = "drafts", drafts' = [drafts EXCEPT ![id].in = p]
  PROVE  /\ Of(r)' = Of(r)
         /\ Cardinality(SentOf(r)') =
              IF p = "sent" /\ drafts[id].reply = r THEN Cardinality(SentOf(r)) + 1 ELSE Cardinality(SentOf(r))
<1>1. /\ Len(drafts') = Len(drafts)
      /\ \A i \in 1 .. Len(drafts) : drafts'[i].reply = drafts[i].reply
      /\ \A i \in 1 .. Len(drafts) : drafts'[i].in = IF i = id THEN p ELSE drafts[i].in
  BY Placed
<1>2. Of(r)' = Of(r)
  BY <1>1 DEF Of
<1>3. SentOf(r)' = (IF p = "sent" /\ drafts[id].reply = r THEN SentOf(r) \cup {id} ELSE SentOf(r)) /\ id \notin SentOf(r)
  <2>1. SentOf(r)' = {i \in Of(r) : (IF i = id THEN p ELSE drafts[i].in) = "sent"}
    BY <1>1, <1>2 DEF SentOf, Of
  <2> QED
    BY <2>1 DEF SentOf, Of
<1>4. IsFiniteSet(SentOf(r))
  BY Finite
<1> QED
  BY <1>2, <1>3, <1>4, FS_AddElement
-----------------------------------------------------------------------------
LEMMA Drafting ==
  ASSUME DraftAssumption, TypeOK, Missed, NEW w \in Wr, draft_once(w), NEW r \in Replies, Budget(r)
  PROVE  Budget(r)' /\ Missed'
<1>1. UNCHANGED <<drafts, ledger>> /\ Of(r)' = Of(r)
  BY DEF draft_once, Of
<1>2. PICK q \in Wanted(w), copy \in {ledger, Empty} :
        /\ IF copy = ledger THEN UNCHANGED faults ELSE Fault
        /\ IF copy[q] # None
           THEN Delivers(w, copy[q].id) /\ UNCHANGED <<writing, overlaps>>
           ELSE /\ Len(drafts) < MaxDrafts /\ Reads
                /\ writing' = [writing EXCEPT ![w] = [reply |-> q, copy |-> copy, id |-> 0]]
                /\ UNCHANGED delivery
  BY DEF draft_once
<1> DEFINE e == [reply |-> q, copy |-> copy, id |-> 0]
<1>3. /\ overlaps \in Nat /\ faults \in Nat /\ Cardinality(Of(r)) \in Nat /\ Cardinality(Costly(r)) \in Nat
      /\ Room(r) \in {0, 1} /\ Room(r)' \in {0, 1}
  BY Finite DEF TypeOK, Room
<1>4. faults' = faults \/ faults' = faults + 1
  BY <1>2 DEF Fault
<1>5. CASE UNCHANGED writing /\ (overlaps' = overlaps \/ overlaps' = overlaps + 1)
  <2>1. Costly(r)' = Costly(r) /\ Blind(r)' = Blind(r) /\ Missed'
    BY <1>5 DEF Costly, Blind, Missed
  <2>2. Room(r)' = Room(r)
    BY <1>1, <2>1 DEF Room
  <2> QED
    BY <1>1, <1>3, <1>4, <1>5, <2>1, <2>2 DEF Budget
<1>6. CASE copy[q] = None /\ e # None
  <2>1. /\ Reads /\ writing' = [writing EXCEPT ![w] = e] /\ writing[w] = None
        /\ e.reply = q /\ e.copy = copy /\ e.id = 0
    BY <1>2, <1>6 DEF draft_once
  <2> HIDE DEF e
  <2>2. Missed'
    BY <1>6, <2>1 DEF Missed, TypeOK
  <2>3. IF copy[r] = None
        THEN Blind(r)' = Blind(r) \cup {w} /\ Cardinality(Costly(r)') = Cardinality(Costly(r)) + 1
        ELSE Blind(r)' = Blind(r) /\ Costly(r)' = Costly(r)
    BY <1>6, <2>1, Joins
  <2>4. overlaps' = overlaps + 1 \/ (overlaps' = overlaps /\ Blind(r) = {})
    BY <2>1 DEF Reads, Blind, TypeOK
  <2>5. CASE copy[r] # None
    <3>1. Room(r)' = Room(r) /\ Costly(r)' = Costly(r)
      BY <1>1, <2>3, <2>5 DEF Room
    <3> QED
      BY <1>1, <1>3, <1>4, <2>2, <2>4, <3>1 DEF Budget
  <2>6. CASE copy[r] = None
    <3>1. Room(r)' = 1
      BY <2>3, <2>6 DEF Room
    <3>2. \/ faults' = faults + 1
          \/ overlaps' = overlaps + 1
          \/ Room(r) = 0
      BY <1>2, <2>4, <2>6 DEF Fault, Room
    <3> QED
      BY <1>1, <1>3, <1>4, <2>2, <2>3, <2>4, <2>6, <3>1, <3>2 DEF Budget
  <2> QED
    BY <2>5, <2>6
<1>7. copy[q] = None /\ e = None => UNCHANGED writing /\ (overlaps' = overlaps \/ overlaps' = overlaps + 1)
  <2>1. writing[w] = None /\ (copy[q] = None => writing' = [writing EXCEPT ![w] = e] /\ Reads)
    BY <1>2 DEF draft_once
  <2> HIDE DEF e
  <2> QED
    BY <2>1 DEF Reads, TypeOK
<1> QED
  BY <1>2, <1>5, <1>6, <1>7

LEMMA Making ==
  ASSUME DraftAssumption, TypeOK, Missed, NEW w \in Wr, Made(w), NEW r \in Replies, Budget(r)
  PROVE  Budget(r)' /\ Missed'
<1> DEFINE q == writing[w].reply
<1>1. q \in Replies /\ writing[w].copy[q] = None /\ writing[w].id = 0 /\ writing[w] # None
  BY DEF Made, TypeOK, Missed
<1>2. /\ overlaps \in Nat /\ faults \in Nat /\ Cardinality(Of(r)) \in Nat /\ Cardinality(Costly(r)) \in Nat
      /\ Room(r) \in {0, 1} /\ Room(r)' \in {0, 1} /\ UNCHANGED <<ledger, overlaps>>
  BY Finite DEF TypeOK, Room, Made
<1>3. w \in Costly(r) <=> writing[w].copy[r] = None
  BY <1>1 DEF Costly, Blind
<1>4. IsFiniteSet(Costly(r))
  BY Finite
<1>5. ASSUME drafts' = Append(drafts, [reply |-> q, in |-> "drafts"]) PROVE Len(drafts') \in Nat \ {0}
  BY <1>5 DEF TypeOK
<1>6. ASSUME drafts' = Append(drafts, [reply |-> q, in |-> "drafts"]) PROVE [writing[w] EXCEPT !.id = Len(drafts')] # None
  <2>1. writing[w] \in [reply : Replies, copy : Ledgers, id : 0 .. Len(drafts)]
    BY <1>1 DEF TypeOK
  <2>2. [writing[w] EXCEPT !.id = Len(drafts')] \in [reply : Replies, copy : Ledgers, id : Nat]
    BY <1>6, <1>5, <2>1
  <2> QED
    BY <2>2, NotNone
<1>7. CASE writing' = [writing EXCEPT ![w] = None]
  <2>1. /\ Blind(r)' = Blind(r) \ {w}
        /\ Cardinality(Costly(r)') = IF w \in Costly(r) THEN Cardinality(Costly(r)) - 1 ELSE Cardinality(Costly(r))
    BY <1>7, Leaves
  <2>2. w \notin Costly(r) => Room(r)' = Room(r)
    BY <1>2, <1>3, <2>1 DEF Room, Blind
  <2>3. Missed'
    BY <1>7 DEF Missed, TypeOK
  <2>4. CASE UNCHANGED <<drafts, faults>>
    <3>1. Of(r)' = Of(r)
      BY <2>4 DEF Of
    <3> QED
      BY <1>2, <2>1, <2>2, <2>3, <2>4, <3>1 DEF Budget
  <2>5. CASE drafts' = Append(drafts, [reply |-> q, in |-> "drafts"]) /\ faults' = faults + 1
    <3>1. Cardinality(Of(r)') = IF q = r THEN Cardinality(Of(r)) + 1 ELSE Cardinality(Of(r))
      BY <1>1, <2>5, Adds
    <3>2. q = r => w \in Costly(r)
      BY <1>1, <1>3
    <3> QED
      BY <1>2, <2>1, <2>2, <2>3, <2>5, <3>1, <3>2 DEF Budget
  <2>6. ASSUME drafts' = Append(drafts, [reply |-> q, in |-> "drafts"])
        PROVE  writing' # [writing EXCEPT ![w].id = Len(drafts')]
    BY <1>7, <1>6, <2>6 DEF TypeOK
  <2> QED
    BY <2>4, <2>5, <2>6 DEF Made, Fault
<1>8. CASE /\ drafts' = Append(drafts, [reply |-> q, in |-> "drafts"]) /\ UNCHANGED faults
           /\ writing' = [writing EXCEPT ![w].id = Len(drafts')]
  <2> DEFINE m == [writing[w] EXCEPT !.id = Len(drafts')]
  <2>1. m.copy = writing[w].copy /\ m.reply = q /\ m.id # 0 /\ m # None
    BY <1>8, <1>6, <1>5
  <2>2. writing' = [writing EXCEPT ![w] = m]
    BY <1>8
  <2> HIDE DEF m
  <2>3. Missed'
    BY <1>1, <2>1, <2>2 DEF Missed, TypeOK
  <2>4. Blind(r)' = Blind(r)
    BY <1>1, <2>1, <2>2 DEF Blind, TypeOK
  <2>5. Room(r)' = Room(r)
    BY <1>2, <2>4 DEF Room
  <2>6. Costly(r)' = IF q = r THEN Costly(r) \ {w} ELSE Costly(r)
    BY <1>1, <2>1, <2>2, <2>4 DEF Costly, Blind, TypeOK
  <2>7. Cardinality(Costly(r)') = IF q = r THEN Cardinality(Costly(r)) - 1 ELSE Cardinality(Costly(r))
    BY <1>1, <1>3, <1>4, <2>6, FS_RemoveElement
  <2>8. Cardinality(Of(r)') = IF q = r THEN Cardinality(Of(r)) + 1 ELSE Cardinality(Of(r))
    BY <1>1, <1>8, Adds
  <2> QED
    BY <1>2, <1>8, <2>3, <2>5, <2>7, <2>8 DEF Budget
<1> QED
  BY <1>7, <1>8 DEF Made

LEMMA Saving ==
  ASSUME DraftAssumption, TypeOK, Missed, NEW w \in Wr, save_ledger(w), NEW r \in Replies, Budget(r)
  PROVE  Budget(r)' /\ Missed'
<1> DEFINE q == writing[w].reply
           entry == [id |-> writing[w].id, is |-> "draft"]
<1>1. /\ q \in Replies /\ writing[w].copy \in Ledgers /\ writing[w].copy[q] = None /\ writing[w] # None
      /\ entry \in Entry /\ writing' = [writing EXCEPT ![w] = None]
  <2>1. writing[w] \in [reply : Replies, copy : Ledgers, id : 0 .. Len(drafts)] /\ writing[w].id # 0
    BY DEF save_ledger, TypeOK
  <2> QED
    BY <2>1 DEF save_ledger, Missed, Entry
<1>2. /\ overlaps \in Nat /\ faults \in Nat /\ Cardinality(Of(r)) \in Nat /\ Cardinality(Costly(r)) \in Nat
      /\ Room(r) \in {0, 1} /\ Room(r)' \in {0, 1} /\ UNCHANGED overlaps /\ Of(r)' = Of(r)
  BY Finite DEF TypeOK, Room, save_ledger, Of
<1>3. /\ Blind(r)' = Blind(r) \ {w}
      /\ Cardinality(Costly(r)') = IF w \in Costly(r) THEN Cardinality(Costly(r)) - 1 ELSE Cardinality(Costly(r))
  BY <1>1, Leaves
<1>4. Missed'
  BY <1>1 DEF Missed, TypeOK
<1>5. CASE faults' = faults + 1
  BY <1>2, <1>3, <1>4, <1>5 DEF Budget
<1>6. CASE ledger' = [writing[w].copy EXCEPT ![q] = entry] /\ UNCHANGED faults
  <2>1. entry # None
    BY <1>1, NotNone
  <2> HIDE DEF entry
  <2>2. ledger'[r] = IF r = q THEN entry ELSE writing[w].copy[r]
    BY <1>1, <1>6 DEF Ledgers
  <2>3. CASE ledger'[r] # None
    <3>1. Room(r)' = 1
      BY <2>3 DEF Room
    <3> QED
      BY <1>2, <1>3, <1>4, <1>6, <3>1 DEF Budget
  <2>4. CASE ledger'[r] = None
    <3>1. w \in Costly(r)
      BY <1>1, <2>1, <2>2, <2>4 DEF Costly, Blind
    <3> QED
      BY <1>2, <1>3, <1>4, <1>6, <3>1 DEF Budget
  <2> QED
    BY <2>3, <2>4
<1> QED
  BY <1>5, <1>6 DEF save_ledger, Fault

(* Nobody who sends, stamps or deletes draws on the budget.                 *)
LEMMA Sending ==
  ASSUME DraftAssumption, TypeOK, Missed, NEW r \in Replies, Budget(r),
         UNCHANGED <<writing, overlaps>>, faults' = faults \/ faults' = faults + 1,
         Of(r)' = Of(r), ledger'[r] = None <=> ledger[r] = None
  PROVE  Budget(r)' /\ Missed'
<1>1. /\ overlaps \in Nat /\ faults \in Nat /\ Cardinality(Of(r)) \in Nat /\ Cardinality(Costly(r)) \in Nat
      /\ Room(r) \in {0, 1}
  BY Finite DEF TypeOK, Room
<1>2. Missed' /\ Costly(r)' = Costly(r) /\ Blind(r)' = Blind(r)
  BY DEF Missed, Costly, Blind
<1>3. Room(r)' = Room(r)
  BY <1>2 DEF Room
<1> QED
  BY <1>1, <1>2, <1>3 DEF Budget

LEMMA Going ==
  ASSUME DraftAssumption, TypeOK, NEW id \in 1 .. Len(drafts), drafts[id].in = "drafts", Gone(id),
         NEW r \in Replies, Counted(r)
  PROVE  Of(r)' = Of(r) /\ Counted(r)'
<1>1. drafts' = [drafts EXCEPT ![id].in = "sent"] /\ copies' = [copies EXCEPT ![drafts[id].reply] = @ + 1]
  BY DEF Gone
<1>2. /\ Of(r)' = Of(r)
      /\ Cardinality(SentOf(r)') = IF drafts[id].reply = r THEN Cardinality(SentOf(r)) + 1 ELSE Cardinality(SentOf(r))
  BY <1>1, Moves
<1>3. copies'[r] = IF drafts[id].reply = r THEN copies[r] + 1 ELSE copies[r]
  BY <1>1 DEF TypeOK
<1> QED
  BY <1>2, <1>3 DEF Counted

LEMMA StepIInv == ASSUME DraftAssumption, IInv, [Next]_vars PROVE IInv'
<1> USE DEF IInv
<1>1. TypeOK'
  BY StepTypes
<1>2. ASSUME NEW r \in Replies PROVE Budget(r)' /\ Missed' /\ Counted(r)'
  <2>1. Budget(r) /\ Counted(r)
    OBVIOUS
  <2>2. ASSUME UNCHANGED <<drafts, copies>> PROVE Of(r)' = Of(r) /\ Counted(r)'
    BY <2>1, <2>2 DEF Of, SentOf, Counted
  <2>3. ASSUME NEW w \in Wr, draft_once(w) PROVE Budget(r)' /\ Missed' /\ Counted(r)'
    <3>1. UNCHANGED <<drafts, copies>>
      BY <2>3 DEF draft_once
    <3> QED
      BY <2>1, <2>2, <2>3, <3>1, Drafting
  <2>4. ASSUME NEW w \in Wr, Made(w) PROVE Budget(r)' /\ Missed' /\ Counted(r)'
    <3>1. UNCHANGED copies
      BY <2>4 DEF Made
    <3>2. writing[w].reply \in Replies
      BY <2>4 DEF Made, TypeOK
    <3>3. SentOf(r)' = SentOf(r)
      <4>1. CASE UNCHANGED drafts
        BY <4>1 DEF SentOf, Of
      <4>2. CASE drafts' = Append(drafts, [reply |-> writing[w].reply, in |-> "drafts"])
        BY <3>2, <4>2, Adds
      <4> QED
        BY <2>4, <4>1, <4>2 DEF Made
    <3>4. Counted(r)'
      BY <2>1, <3>1, <3>3 DEF Counted
    <3> QED
      BY <2>1, <2>4, <3>4, Making
  <2>5. ASSUME NEW w \in Wr, save_ledger(w) PROVE Budget(r)' /\ Missed' /\ Counted(r)'
    <3>1. UNCHANGED <<drafts, copies>>
      BY <2>5 DEF save_ledger
    <3> QED
      BY <2>1, <2>2, <2>5, <3>1, Saving
  <2>6. ASSUME NEW s \in Presses \cup Answers, Press(s) \/ Answer(s) \/ attach(s)
        PROVE  Budget(r)' /\ Missed' /\ Counted(r)'
    <3>1. UNCHANGED <<drafts, ledger, writing, copies, overlaps, faults>>
      BY <2>6 DEF Press, Answer, attach
    <3> QED
      BY <2>1, <2>2, <3>1, Sending
  <2>7. ASSUME NEW s \in Presses \cup Answers, send_draft(s) PROVE Budget(r)' /\ Missed' /\ Counted(r)'
    <3>1. UNCHANGED <<ledger, writing, overlaps>> /\ (faults' = faults \/ faults' = faults + 1)
      BY <2>7 DEF send_draft, Fault
    <3>2. sending[s].id \in 1 .. Len(drafts)
      BY <2>7 DEF send_draft, TypeOK
    <3>3. \/ UNCHANGED <<drafts, copies>>
          \/ drafts[sending[s].id].in = "drafts" /\ Gone(sending[s].id)
      BY <2>7 DEF send_draft
    <3>4. Of(r)' = Of(r) /\ Counted(r)'
      BY <2>1, <2>2, <3>2, <3>3, Going
    <3> QED
      BY <2>1, <3>1, <3>4, Sending
  <2>8. ASSUME NEW s \in Presses \cup Answers, StampsLedger(s) PROVE Budget(r)' /\ Missed' /\ Counted(r)'
    <3>1. UNCHANGED <<drafts, writing, copies, overlaps, faults>>
      BY <2>8 DEF StampsLedger
    <3>2. ledger'[r] = None <=> ledger[r] = None
      <4> DEFINE q == sending[s].reply
                 e == [ledger[q] EXCEPT !.is = "sent"]
      <4>1. ledger \in Ledgers /\ q \in Replies
        BY <2>8 DEF StampsLedger, TypeOK
      <4>2. CASE UNCHANGED ledger
        BY <4>2
      <4>3. CASE ledger[q] # None /\ ledger' = [ledger EXCEPT ![q] = e]
        <5>1. e \in Entry
          BY <4>1, <4>3 DEF Ledgers, Entry
        <5>2. e # None
          BY <5>1, NotNone
        <5> HIDE DEF e
        <5> QED
          BY <4>1, <4>3, <5>2 DEF Ledgers
      <4> QED
        BY <2>8, <4>2, <4>3 DEF StampsLedger
    <3> QED
      BY <2>1, <2>2, <3>1, <3>2, Sending
  <2>9. ASSUME NEW id \in 1 .. Len(drafts), UserSends(id) \/ UserDeletes(id)
        PROVE  Budget(r)' /\ Missed' /\ Counted(r)'
    <3>1. UNCHANGED <<ledger, writing, overlaps, faults>> /\ drafts[id].in = "drafts"
      BY <2>9 DEF UserSends, UserDeletes
    <3>2. Of(r)' = Of(r) /\ Counted(r)'
      <4>1. CASE UserSends(id)
        BY <2>1, <3>1, <4>1, Going DEF UserSends
      <4>2. CASE UserDeletes(id)
        <5>1. drafts' = [drafts EXCEPT ![id].in = "bin"] /\ UNCHANGED copies
          BY <4>2 DEF UserDeletes
        <5>2. Of(r)' = Of(r) /\ Cardinality(SentOf(r)') = Cardinality(SentOf(r))
          BY <3>1, <5>1, Moves
        <5> QED
          BY <2>1, <5>1, <5>2 DEF Counted
      <4> QED
        BY <2>9, <4>1, <4>2
    <3> QED
      BY <2>1, <3>1, <3>2, Sending
  <2>10. ASSUME NEW x, Dies(x) PROVE Budget(r)' /\ Missed' /\ Counted(r)'
    <3>1. UNCHANGED <<drafts, ledger, copies, overlaps>> /\ faults' = faults + 1
      BY <2>10 DEF Dies, Fault
    <3>2. Of(r)' = Of(r) /\ Counted(r)'
      BY <2>2, <3>1
    <3>3. CASE UNCHANGED writing
      BY <2>1, <3>1, <3>2, <3>3, Sending
    <3>4. CASE x \in DOMAIN writing /\ writing' = [writing EXCEPT ![x] = None]
      <4>1. x \in Wr
        BY <3>4 DEF TypeOK
      <4>2. Cardinality(Costly(r)') = IF x \in Costly(r) THEN Cardinality(Costly(r)) - 1 ELSE Cardinality(Costly(r))
        BY <3>4, <4>1, Leaves
      <4>3. /\ overlaps \in Nat /\ faults \in Nat /\ Cardinality(Of(r)) \in Nat /\ Cardinality(Costly(r)) \in Nat
            /\ Room(r) \in {0, 1} /\ Room(r)' \in {0, 1}
        BY Finite DEF TypeOK, Room
      <4>4. Missed'
        BY <3>4, <4>1 DEF Missed, TypeOK
      <4> QED
        BY <2>1, <3>1, <3>2, <4>2, <4>3, <4>4 DEF Budget
    <3> QED
      BY <2>10, <3>3, <3>4 DEF Dies
  <2>11. CASE UNCHANGED vars
    BY <2>1, <2>2, <2>11, Sending DEF vars
  <2>12. DOMAIN drafts = 1 .. Len(drafts)
    BY DEF TypeOK
  <2> QED
    BY <2>3, <2>4, <2>5, <2>6, <2>7, <2>8, <2>9, <2>10, <2>11, <2>12 DEF Next, Wr
<1>3. Missed'
  <2>1. CASE Replies = {}
    <3>1. \A w \in Wr : writing'[w] = None
      BY <1>1, <2>1 DEF TypeOK
    <3> QED
      BY <3>1 DEF Missed
  <2>2. CASE Replies # {}
    BY <1>2, <2>2
  <2> QED
    BY <2>1, <2>2
<1> QED
  BY <1>1, <1>2, <1>3

(* Whoever drafts, presses, answers or sends by hand, together and in any   *)
(* order, a reply goes once, and once more at most for each fault and for   *)
(* each writer that read the ledger while another kept its copy.            *)
THEOREM GoesOnceAlways == ASSUME DraftAssumption PROVE Spec => []GoesOnce
<1>1. Init => IInv
  BY InitIInv
<1>2. IInv /\ [Next]_vars => IInv'
  BY StepIInv
<1>3. IInv => GoesOnce
  <2> SUFFICES ASSUME IInv, NEW r \in Replies PROVE copies[r] <= 1 + overlaps + faults
    BY DEF GoesOnce
  <2>1. TypeOK /\ Budget(r) /\ Counted(r)
    BY DEF IInv
  <2>2. /\ overlaps \in Nat /\ faults \in Nat /\ Cardinality(Of(r)) \in Nat /\ Cardinality(Costly(r)) \in Nat
        /\ Cardinality(SentOf(r)) \in Nat /\ Cardinality(SentOf(r)) <= Cardinality(Of(r)) /\ Room(r) \in {0, 1}
    BY <2>1, Finite DEF TypeOK, Room
  <2> QED
    BY <2>1, <2>2 DEF Budget, Counted
<1> QED
  BY <1>1, <1>2, <1>3, PTL DEF Spec
=============================================================================
