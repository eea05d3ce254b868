------------------------------ MODULE VaultProofs ------------------------------
(***************************************************************************)
(* Proofs about what keeps the vault: the pool that reads and judges       *)
(* (Fanout), the plugin's notice (PluginUpdate), the audit's findings      *)
(* (VaultAudit) and score (AuditScore), travel notices (Travel), the       *)
(* check-off of to-dos (DoneJudge) and the filing of meetings              *)
(* (MeetingIngest).                                                        *)
(***************************************************************************)
EXTENDS Vault, Sequences, FiniteSetTheorems, SequenceTheorems, TLAPS

-----------------------------------------------------------------------------
(* The pool, for any number of items, threads and attempts: no outcome is   *)
(* written twice, none is called deferred for a cap that was not met, and   *)
(* the cap is told once.                                                    *)

(* What is given out is 1..cursor; each index of it has an outcome or one   *)
(* worker.                                                                  *)
GivenOut ==
  /\ \A w \in Workers : Holds(w) => item[w] \in 1..cursor
  /\ \A i \in Items : i > cursor => outcomes[i] = "none"
  /\ \A i \in Items : i <= cursor /\ outcomes[i] = "none" => \E w \in Workers : Holds(w) /\ item[w] = i

(* Who defers, or stops early, has seen the cap.                            *)
CapSeen ==
  /\ \A w \in Workers : at[w] \in {"telling", "deferring"} => cap = "set"
  /\ \A w \in Workers : at[w] = "stopped" => cap = "set" \/ cursor = N
  /\ \A i \in Items : outcomes[i] = "deferred" => cap = "set"

(* One worker was first.                                                    *)
First ==
  /\ cap = "clear" => told = 0
  /\ \A w \in Workers : at[w] = "telling" => told = 0
  /\ \A v, w \in Workers : at[v] = "telling" /\ at[w] = "telling" => v = w
  /\ told <= 1

IInv == TypeOK /\ OneOwner /\ GivenOut /\ CapSeen /\ First

LEMMA InitIInv == ASSUME FanoutAssumption PROVE Init => IInv
<1> SUFFICES ASSUME Init PROVE IInv
  OBVIOUS
<1> USE DEF FanoutAssumption, Init, Items
<1>0. cap \in {"clear", "set"} /\ told \in Nat /\ cursor \in 0..N
  OBVIOUS
<1>1. TypeOK
  BY <1>0 DEF TypeOK
<1>2. \A w \in Workers : ~Holds(w) /\ at[w] = "ready"
  BY DEF Holds, Calls
<1>3. OneOwner /\ GivenOut
  BY <1>2 DEF OneOwner, GivenOut
<1>4. CapSeen /\ First
  BY <1>2 DEF CapSeen, First
<1> QED
  BY <1>1, <1>3, <1>4 DEF IInv

\* Each step of a worker keeps the types.
LEMMA StepTypes == ASSUME FanoutAssumption, TypeOK, [Next]_vars PROVE TypeOK'
<1> USE DEF FanoutAssumption, TypeOK, Items
<1>1. ASSUME NEW w \in Workers, Take(w) \/ Stop(w) PROVE TypeOK'
  <2>1. CASE Take(w)
    <3>1. cursor' \in 0..N /\ UNCHANGED <<cap, told, outcomes>>
      BY <2>1 DEF Take
    <3>2. item' \in [Workers -> 0..N] /\ attempt' \in [Workers -> Nat]
      BY <2>1 DEF Take
    <3>3. at' \in [Workers -> {"ready", "calling", "telling", "deferring", "stopped"}]
      BY <2>1 DEF Take
    <3> QED
      BY <3>1, <3>2, <3>3
  <2>2. CASE Stop(w)
    BY <2>2 DEF Stop
  <2> QED
    BY <1>1, <2>1, <2>2
<1>2. ASSUME NEW w \in Workers, Files(w) \/ Fails(w) \/ Defers(w) PROVE TypeOK'
  <2>1. UNCHANGED <<cursor, cap, told, item, attempt>>
    BY <1>2 DEF Files, Fails, Defers, Outcome
  <2>2. outcomes' \in [Items -> {"none", "filed", "failed", "deferred"}]
    BY <1>2 DEF Files, Fails, Defers, Outcome
  <2>3. at' \in [Workers -> {"ready", "calling", "telling", "deferring", "stopped"}]
    BY <1>2 DEF Files, Fails, Defers, Outcome
  <2> QED
    BY <2>1, <2>2, <2>3
<1>3. ASSUME NEW w \in Workers, Retries(w) \/ MeetsCap(w) \/ Tells(w) PROVE TypeOK'
  <2>1. CASE Retries(w)
    BY <2>1 DEF Retries
  <2>2. CASE MeetsCap(w)
    BY <2>2 DEF MeetsCap
  <2>3. CASE Tells(w)
    BY <2>3 DEF Tells
  <2> QED
    BY <1>3, <2>1, <2>2, <2>3
<1>4. CASE UNCHANGED vars
  <2>1. UNCHANGED <<cursor, cap, told, outcomes, at, item, attempt>>
    BY <1>4 DEF vars
  <2> QED
    BY <2>1
<1> QED
  BY <1>1, <1>2, <1>3, <1>4 DEF Next, Works

\* Each step of a worker keeps the invariant.
LEMMA StepIInv == ASSUME FanoutAssumption, IInv, [Next]_vars PROVE IInv'
<1> USE DEF FanoutAssumption, Items
<1>0. TypeOK /\ TypeOK'
  BY StepTypes DEF IInv
<1>1. ASSUME NEW w \in Workers, Take(w) PROVE IInv'
  <2> USE <1>0, <1>1 DEF Take, TypeOK, Holds, Calls
  <2>1. \A v \in Workers : v # w /\ Holds(v)' => item'[v] \in 1..cursor /\ item'[v] = item[v]
    BY DEF IInv, GivenOut
  <2>2. item'[w] = cursor + 1 /\ cursor' = cursor + 1 /\ at'[w] = "calling" /\ cursor + 1 \in Items
    OBVIOUS
  <2>3. OneOwner'
    BY <2>1, <2>2 DEF IInv, OneOwner, GivenOut
  <2>4. GivenOut'
    <3>1. ASSUME NEW i \in Items, i <= cursor', outcomes'[i] = "none"
          PROVE \E v \in Workers : Holds(v)' /\ item'[v] = i
      <4>1. CASE i = cursor + 1
        BY <4>1, <2>2
      <4>2. CASE i <= cursor
        <5>1. PICK v \in Workers : Holds(v) /\ item[v] = i
          BY <4>2, <3>1 DEF IInv, GivenOut
        <5>2. v # w
          BY <5>1
        <5> QED
          BY <5>1, <5>2
      <4> QED
        BY <3>1, <4>1, <4>2
    <3>2. \A v \in Workers : Holds(v)' => item'[v] \in 1..cursor'
      BY <2>1, <2>2
    <3>3. \A i \in Items : i > cursor' => outcomes'[i] = "none"
      BY DEF IInv, GivenOut
    <3> QED
      BY <3>1, <3>2, <3>3 DEF GivenOut
  <2>5. CapSeen' /\ First'
    BY DEF IInv, CapSeen, First
  <2> QED
    BY <2>3, <2>4, <2>5 DEF IInv
<1>2. ASSUME NEW w \in Workers, Stop(w) \/ Retries(w) PROVE IInv'
  <2> USE <1>0, <1>2 DEF Stop, Retries, TypeOK, Holds, Calls
  <2>0. UNCHANGED <<cursor, cap, told, outcomes, item>>
    OBVIOUS
  <2>4. \A v \in Workers : at'[v] \in {"telling", "deferring"} => at'[v] = at[v]
    OBVIOUS
  <2>2. \A v \in Workers : Holds(v)' <=> Holds(v)
    OBVIOUS
  <2>5. OneOwner'
    BY <2>0, <2>2 DEF IInv, OneOwner
  <2>6. CapSeen'
    BY <2>0, <2>4 DEF IInv, CapSeen
  <2>7. First'
    BY <2>0, <2>4 DEF IInv, First
  <2>1. OneOwner' /\ CapSeen' /\ First'
    BY <2>5, <2>6, <2>7
  <2>3. GivenOut'
    BY <2>2 DEF IInv, GivenOut
  <2> QED
    BY <2>1, <2>3 DEF IInv
<1>3. ASSUME NEW w \in Workers, NEW kind \in {"filed", "failed", "deferred"}, Outcome(w, kind),
             Holds(w), kind = "deferred" => cap = "set"
      PROVE IInv'
  <2> USE <1>0, <1>3 DEF Outcome, TypeOK, Holds, Calls
  <2>1. item[w] \in Items /\ item[w] <= cursor
    BY DEF IInv, GivenOut
  <2>2. \A v \in Workers : Holds(v)' <=> v # w /\ Holds(v)
    OBVIOUS
  <2>3. OneOwner'
    BY <2>2 DEF IInv, OneOwner
  <2>4. GivenOut'
    <3>1. ASSUME NEW i \in Items, i <= cursor', outcomes'[i] = "none"
          PROVE \E v \in Workers : Holds(v)' /\ item'[v] = i
      <4>1. outcomes[i] = "none" /\ i # item[w]
        BY <3>1, <2>1
      <4>2. PICK v \in Workers : Holds(v) /\ item[v] = i
        BY <4>1, <3>1 DEF IInv, GivenOut
      <4> QED
        BY <4>1, <4>2, <2>2
    <3>2. \A v \in Workers : Holds(v)' => item'[v] \in 1..cursor'
      BY <2>2 DEF IInv, GivenOut
    <3>3. \A i \in Items : i > cursor' => outcomes'[i] = "none"
      BY <2>1 DEF IInv, GivenOut
    <3> QED
      BY <3>1, <3>2, <3>3 DEF GivenOut
  <2>5. CapSeen'
    BY <2>1 DEF IInv, CapSeen
  <2>6. First'
    BY DEF IInv, First
  <2> QED
    BY <2>3, <2>4, <2>5, <2>6 DEF IInv
<1>4. ASSUME NEW w \in Workers, MeetsCap(w) \/ Tells(w) PROVE IInv'
  <2> USE <1>0, <1>4 DEF MeetsCap, Tells, TypeOK, Holds, Calls
  <2>1. \A v \in Workers : Holds(v)' <=> Holds(v)
    OBVIOUS
  <2>2. OneOwner' /\ GivenOut'
    BY <2>1 DEF IInv, OneOwner, GivenOut
  <2>3. CapSeen'
    BY DEF IInv, CapSeen
  <2>4. First'
    <3>1. CASE MeetsCap(w)
      BY <3>1 DEF IInv, First, CapSeen
    <3>2. CASE Tells(w)
      <4>1. told = 0 /\ told' = 1 /\ cap = "set" /\ cap' = "set"
        BY <3>2 DEF IInv, First, CapSeen
      <4>2. \A v \in Workers : at'[v] # "telling"
        BY <3>2 DEF IInv, First
      <4> QED
        BY <4>1, <4>2 DEF First
    <3> QED
      BY <3>1, <3>2
  <2> QED
    BY <2>2, <2>3, <2>4 DEF IInv
<1>5. CASE UNCHANGED vars
  BY <1>5 DEF vars, IInv, TypeOK, OneOwner, GivenOut, CapSeen, First, Holds, Calls
<1>6. ASSUME NEW w \in Workers, Files(w) \/ Fails(w) \/ Defers(w) PROVE IInv'
  <2>1. CASE Files(w)
    BY <2>1, <1>3 DEF Files, Holds, Calls
  <2>2. CASE Fails(w)
    BY <2>2, <1>3 DEF Fails, Holds, Calls
  <2>3. CASE Defers(w)
    BY <2>3, <1>3 DEF Defers, Holds, Calls, IInv, CapSeen
  <2> QED
    BY <1>6, <2>1, <2>2, <2>3
<1> QED
  BY <1>1, <1>2, <1>4, <1>5, <1>6 DEF Next, Works

LEMMA IInvAlways == ASSUME FanoutAssumption PROVE Spec => []IInv
<1>1. Init => IInv
  BY InitIInv
<1>2. IInv /\ [Next]_vars => IInv'
  BY StepIInv
<1> QED
  BY <1>1, <1>2, PTL DEF Spec

\* fanout.run: no two workers hold one item, and the item a worker holds has
\* no outcome yet.
THEOREM OneOwnerAlways == ASSUME FanoutAssumption PROVE Spec => []OneOwner
<1>1. IInv => OneOwner
  BY DEF IInv
<1> QED
  BY <1>1, IInvAlways, PTL

\* fanout.run: the outcome of an item is written once.
THEOREM OneOutcomeAlways == ASSUME FanoutAssumption PROVE Spec => OneOutcome
<1>1. IInv /\ [Next]_vars => [\A i \in Items : outcomes[i] # "none" => outcomes'[i] = outcomes[i]]_vars
  <2> SUFFICES ASSUME IInv, Next, NEW i \in Items, outcomes[i] # "none"
               PROVE  outcomes'[i] = outcomes[i]
    OBVIOUS
  <2> PICK w \in Workers : Works(w)
    BY DEF Next
  <2>1. CASE Files(w) \/ Fails(w) \/ Defers(w)
    <3>1. Holds(w) /\ item[w] # i
      BY <2>1 DEF Files, Fails, Defers, Holds, Calls, IInv, OneOwner
    <3> QED
      BY <2>1, <3>1 DEF Files, Fails, Defers, Outcome, IInv, TypeOK
  <2>2. CASE ~(Files(w) \/ Fails(w) \/ Defers(w))
    BY <2>2 DEF Works, Take, Stop, Retries, MeetsCap, Tells
  <2> QED
    BY <2>1, <2>2
<1> QED
  BY <1>1, IInvAlways, PTL DEF Spec, OneOutcome

\* fanout.run: an item that ends in the deferred list is there for a cap.
THEOREM DeferredForCapAlways == ASSUME FanoutAssumption PROVE Spec => []DeferredForCap
<1>1. ASSUME IInv PROVE DeferredForCap
  <2> SUFFICES ASSUME Over, NEW i \in Items, outcomes[i] \in {"none", "deferred"} PROVE cap = "set"
    BY DEF DeferredForCap
  <2>1. CASE outcomes[i] = "deferred"
    BY <1>1, <2>1 DEF IInv, CapSeen
  <2>2. CASE outcomes[i] = "none"
    <3>1. PICK w \in Workers : at[w] = "stopped"
      BY <1>1 DEF FanoutAssumption, Over
    <3>2. cap = "set" \/ cursor = N
      BY <1>1, <3>1 DEF IInv, CapSeen
    <3>3. ~(i <= cursor)
      BY <1>1, <2>2 DEF IInv, GivenOut, Over, Holds, Calls
    <3> QED
      BY <1>1, <3>2, <3>3 DEF FanoutAssumption, Items, IInv, TypeOK
  <2> QED
    BY <2>1, <2>2
<1> QED
  BY <1>1, IInvAlways, PTL

\* fanout.run: on_cap is called by the first worker that meets the cap, once.
THEOREM ToldOfCapOnceAlways == ASSUME FanoutAssumption PROVE Spec => []ToldOfCapOnce
<1>1. IInv => ToldOfCapOnce
  BY DEF IInv, First, ToldOfCapOnce
<1> QED
  BY <1>1, IInvAlways, PTL

-----------------------------------------------------------------------------
(* The plugin's notice.                                                     *)
Stamps == [published : Nat, available : BOOLEAN, declined : Nat, applied : Nat]
Answers == {"declined", "applied"}
Doing == {"runs", "asks", "moved", "checks", "answers", "records", "briefs"}
Sessions == [root : Nat, doing : Doing, about : Nat, key : Answers \cup {None}, base : Stamps, rec : Stamps]

PluginTypes ==
  /\ published \in Nat /\ installed \in Nat /\ answered \in Nat
  /\ stamp \in Stamps
  /\ proc \in [U!Processes -> Sessions \cup {None}]

(* No answer is newer than what the stamp says of one of the two; and the   *)
(* stamp names a version that was published.                                *)
Stamped ==
  /\ answered <= stamp.declined \/ answered <= stamp.applied
  /\ stamp.published <= published

(* What a process has in hand, of the stamp as it read it: a record of a    *)
(* check has the answers, and offers a newer version that was offered; that *)
(* of an answer is the rest of the stamp, and the answer.                   *)
Offers(x) ==
  /\ x.rec.declined = x.base.declined /\ x.rec.applied = x.base.applied
  /\ x.base.available /\ installed < x.base.published =>
       x.rec.available /\ x.rec.published >= x.base.published
Hand(x) ==
  /\ x.root <= installed
  /\ x.doing = "checks" => Offers(x)
  /\ x.doing \in {"answers", "records"} => x.key \in Answers
  /\ x.doing = "records" => x.rec = [x.base EXCEPT ![x.key] = x.about]
  /\ x.doing \in {"checks", "records"} => x.rec.published <= published
InHand == \A p \in U!Processes : proc[p] # None => Hand(proc[p])

PluginInv == PluginTypes /\ Stamped /\ InHand /\ U!NoIsNo

LEMMA NewerOfTwo ==
  ASSUME NEW a \in Int, NEW b \in Int
  PROVE  U!NewOf({a, b}) = IF a >= b THEN a ELSE b
<1> DEFINE m == IF a >= b THEN a ELSE b
<1>1. m \in {a, b} /\ \A y \in {a, b} : m >= y OBVIOUS
<1>2. \A x \in {a, b} : (\A y \in {a, b} : x >= y) => x = m OBVIOUS
<1>3. U!NewOf({a, b}) = CHOOSE x \in {a, b} : \A y \in {a, b} : x >= y BY DEF U!NewOf, U!Max
<1> QED BY <1>1, <1>2, <1>3

LEMMA BlankIsStamp ==
  U!Blank \in Stamps /\ U!Blank.published = 0 /\ U!Blank.declined = 0 /\ U!Blank.applied = 0
BY DEF U!Blank, Stamps

LEMMA FreshProcess ==
  ASSUME NEW root \in Nat, root <= installed
  PROVE  U!Process(root) \in Sessions /\ Hand(U!Process(root)) /\ U!Process(root).doing = "runs"
BY BlankIsStamp DEF U!Process, Sessions, Doing, Hand

LEMMA PluginInit == U!Init => PluginInv
<1> SUFFICES ASSUME U!Init PROVE PluginInv OBVIOUS
<1>1. PluginTypes BY BlankIsStamp DEF U!Init, PluginTypes
<1>2. Stamped BY BlankIsStamp DEF U!Init, Stamped
<1>3. InHand BY DEF U!Init, InHand
<1>4. U!NoIsNo BY DEF U!Init, U!NoIsNo
<1> QED BY <1>1, <1>2, <1>3, <1>4 DEF PluginInv

(* What a check makes of what it read: the answers are as they were, and a  *)
(* newer version that was offered still is, or one that came after it.      *)
LEMMA CheckedKeeps ==
  ASSUME published \in Nat, installed \in Nat, NEW root \in Nat, root <= installed,
         NEW remote \in {0, published}, NEW s \in Stamps, s.published <= published
  PROVE  LET c == U!Checked(root, remote, s)
         IN /\ c \in Stamps /\ c.declined = s.declined /\ c.applied = s.applied /\ c.published <= published
            /\ s.available /\ installed < s.published => c.available /\ c.published >= s.published
<1> DEFINE kept == remote = 0 /\ s.available /\ s.published > root
           c == U!Checked(root, remote, s)
<1>1. c = [s EXCEPT !.published = IF kept THEN s.published ELSE remote, !.available = kept \/ remote > root]
  BY DEF U!Checked
<1> HIDE DEF c
<1>2. kept \in BOOLEAN /\ (kept \/ remote > root) \in BOOLEAN BY DEF Stamps
<1>a. (IF kept THEN s.published ELSE remote) \in Nat BY DEF Stamps
<1> HIDE DEF kept
<1>3. c \in Stamps BY <1>1, <1>2, <1>a DEF Stamps
<1> USE DEF kept
<1>4. c.declined = s.declined /\ c.applied = s.applied
      /\ c.published = (IF kept THEN s.published ELSE remote) /\ (c.available <=> kept \/ remote > root)
  BY <1>1, <1>2 DEF Stamps
<1>5. c.published <= published BY <1>4 DEF Stamps
<1>6. ASSUME s.available, installed < s.published
      PROVE  c.available /\ c.published >= s.published
  BY <1>4, <1>6 DEF Stamps
<1> QED BY <1>3, <1>4, <1>5, <1>6 DEF c

(* What a process has in hand stays sound while versions go up.             *)
LEMMA HandStays ==
  ASSUME PluginInv, NEW x, x \in Sessions, Hand(x),
         published' \in Nat, published' >= published, installed' \in Nat, installed' >= installed
  PROVE  Hand(x)'
BY DEF PluginInv, PluginTypes, Hand, Offers, Sessions, Stamps

(* A step that leaves the stamp alone, and after which the process that took*)
(* it has something sound in hand.                                          *)
LEMMA PluginKeeps ==
  ASSUME PluginInv, UNCHANGED <<published, stamp, again, answered>>,
         installed' \in Nat, installed' >= installed,
         NEW p \in U!Processes, NEW x, proc' = [proc EXCEPT ![p] = x],
         x # None => x \in Sessions /\ Hand(x)
  PROVE  PluginInv' /\ U!Owing
<1> USE DEF PluginInv
<1>1. ASSUME NEW q \in U!Processes, proc'[q] # None PROVE Hand(proc[q])'
  <2>1. CASE q # p
    <3>1. PICK y : y = proc[q] OBVIOUS
    <3>2. y \in Sessions /\ Hand(y) /\ proc'[q] = y BY <3>1, <2>1, <1>1 DEF InHand, PluginTypes
    <3>3. Hand(y)' BY <3>2, HandStays DEF PluginTypes
    <3> QED BY <3>2, <3>3 DEF Hand, Offers
  <2>2. CASE q = p
    <3>1. proc'[q] = x BY <2>2 DEF PluginTypes
    <3>2. Hand(x)' BY <3>1, <1>1, HandStays DEF PluginTypes
    <3> QED BY <3>1, <3>2 DEF Hand, Offers
  <2> QED BY <2>1, <2>2
<1>2. proc' \in [U!Processes -> Sessions \cup {None}] BY DEF PluginTypes
<1>3. PluginTypes' BY <1>2 DEF PluginTypes, U!Processes
<1>4. Stamped' BY DEF Stamped, PluginTypes, Stamps
<1>5. InHand' BY <1>1 DEF InHand, U!Processes
<1>6. U!NoIsNo' /\ U!Owing BY DEF U!NoIsNo, U!Owing, U!Pending
<1> QED BY <1>3, <1>4, <1>5, <1>6

(* The publisher, and a client that updates by itself.                      *)
LEMMA PluginWorld ==
  ASSUME PluginInv, U!Publish \/ U!AutoUpdate
  PROVE  PluginInv' /\ U!Owing
<1> USE DEF PluginInv
<1>1. UNCHANGED <<stamp, proc, again, answered>> BY DEF U!Publish, U!AutoUpdate, U!history
<1>2. /\ published' \in Nat /\ published' >= published
      /\ installed' \in Nat /\ installed' >= installed
  BY DEF U!Publish, U!AutoUpdate, PluginTypes
<1>3. ASSUME NEW q \in U!Processes, proc'[q] # None PROVE Hand(proc[q])'
  <2>1. PICK y : y = proc[q] OBVIOUS
  <2>2. y \in Sessions /\ Hand(y) /\ proc'[q] = y BY <2>1, <1>1, <1>3 DEF InHand, PluginTypes
  <2>3. Hand(y)' BY <2>2, <1>2, HandStays
  <2> QED BY <2>2, <2>3 DEF Hand, Offers
<1>4. PluginTypes' BY <1>1, <1>2 DEF PluginTypes, U!Processes
<1>5. Stamped' BY <1>1, <1>2 DEF Stamped, PluginTypes, Stamps
<1>6. InHand' BY <1>3 DEF InHand, U!Processes
<1>7. U!NoIsNo' /\ U!Owing BY <1>1 DEF U!NoIsNo, U!Owing, U!Pending
<1> QED BY <1>4, <1>5, <1>6, <1>7

(* What is read is a stamp, of a version that was published.                *)
LEMMA ReadIsStamp ==
  ASSUME PluginInv, NEW s \in {stamp, U!Blank}
  PROVE  s \in Stamps /\ s.published <= published /\ s.published \in Nat
BY BlankIsStamp DEF PluginInv, PluginTypes, Stamped, Stamps

(* A process starts, ends, asks, or briefs.                                 *)
LEMMA PluginQuiet ==
  ASSUME PluginInv, NEW p \in U!Processes,
         U!Start(p) \/ U!cached_notice(p) \/ U!whats_new(p) \/ U!mark_notes_shown(p) \/ U!Ends(p)
  PROVE  PluginInv' /\ U!Owing
<1>0. PluginTypes /\ Stamped /\ InHand BY DEF PluginInv
<1>1. /\ UNCHANGED <<published, installed, stamp, answered>>
      /\ published \in Nat /\ installed \in Nat /\ installed' \in Nat /\ installed' >= installed
  BY <1>0 DEF U!Start, U!cached_notice, U!whats_new, U!mark_notes_shown, U!Ends, U!history, PluginTypes
<1>2. UNCHANGED again
  <2>1. CASE U!cached_notice(p)
    <3>1. stamp.published > stamp.declined /\ stamp.published > stamp.applied
      BY <1>0, <2>1 DEF U!cached_notice, U!Pending, PluginTypes, Stamps
    <3>2. stamp.published > answered BY <1>0, <3>1 DEF Stamped, PluginTypes, Stamps
    <3>3. again' = again \cup ({stamp.published} \cap 1 .. answered) BY <2>1 DEF U!cached_notice
    <3>4. stamp.published \notin 1 .. answered BY <1>0, <3>2 DEF PluginTypes, Stamps
    <3> QED BY <3>3, <3>4
  <2> QED BY <2>1 DEF U!Start, U!whats_new, U!mark_notes_shown, U!Ends, U!history
<1>3. ASSUME NEW d \in {"runs", "asks", "briefs"}, proc[p] # None, U!Goes(p, d) PROVE PluginInv' /\ U!Owing
  <2>1. PICK x : x = [proc[p] EXCEPT !.doing = d] OBVIOUS
  <2>2. proc[p] \in Sessions /\ Hand(proc[p]) BY <1>0, <1>3 DEF PluginTypes, InHand
  <2>3. x \in Sessions /\ x.root = proc[p].root /\ x.doing = d BY <2>1, <2>2 DEF Sessions, Doing
  <2>4. Hand(x) BY <2>2, <2>3, <1>1 DEF Hand
  <2>5. proc' = [proc EXCEPT ![p] = x] BY <1>3, <2>1 DEF U!Goes
  <2> QED BY <2>3, <2>4, <2>5, <1>1, <1>2, PluginKeeps
<1>4. CASE U!Start(p)
  <2>1. PICK x : x = U!Process(installed) OBVIOUS
  <2>2. x \in Sessions /\ Hand(x) BY <2>1, <1>1, FreshProcess
  <2>4. proc' = [proc EXCEPT ![p] = x] BY <1>4, <2>1 DEF U!Start
  <2> QED BY <2>2, <2>4, <1>1, <1>2, PluginKeeps
<1>5. CASE U!cached_notice(p) BY <1>5, <1>3 DEF U!cached_notice, U!Running
<1>6. CASE U!whats_new(p)
  <2>1. U!Goes(p, "briefs") \/ UNCHANGED proc BY <1>6 DEF U!whats_new
  <2>2. CASE UNCHANGED proc
    <3>1. PICK x : x = proc[p] OBVIOUS
    <3>2. x # None => x \in Sessions /\ Hand(x) BY <1>0, <3>1 DEF PluginTypes, InHand
    <3>3. proc' = [proc EXCEPT ![p] = x] BY <1>0, <3>1, <2>2 DEF PluginTypes
    <3> QED BY <3>2, <3>3, <1>1, <1>2, PluginKeeps
  <2> QED BY <2>1, <2>2, <1>3, <1>6 DEF U!whats_new, U!Running
<1>7. CASE U!mark_notes_shown(p) BY <1>7, <1>3 DEF U!mark_notes_shown, U!Running
<1>8. CASE U!Ends(p)
  <2>1. proc' = [proc EXCEPT ![p] = None] BY <1>8 DEF U!Ends
  <2>2. PICK x : x = None OBVIOUS
  <2> QED BY <2>1, <2>2, <1>1, <1>2, PluginKeeps
<1> QED BY <1>4, <1>5, <1>6, <1>7, <1>8

(* A process reads the stamp, for a check, a no, or a record.               *)
LEMMA PluginReads ==
  ASSUME PluginInv, NEW p \in U!Processes, U!check(p) \/ U!decline(p) \/ U!_stamp_answer(p)
  PROVE  PluginInv' /\ U!Owing
<1>0. PluginTypes /\ Stamped /\ InHand BY DEF PluginInv
<1>1. /\ UNCHANGED <<published, installed, stamp, again, answered>>
      /\ published \in Nat /\ installed \in Nat /\ installed' \in Nat /\ installed' >= installed
  BY <1>0 DEF U!check, U!decline, U!_stamp_answer, U!history, PluginTypes
<1>2. proc[p] \in Sessions /\ Hand(proc[p]) /\ proc[p].root \in Nat /\ proc[p].root <= installed
  BY <1>0 DEF U!check, U!decline, U!_stamp_answer, U!Running, PluginTypes, InHand, Hand, Sessions
<1>3. CASE U!check(p)
  <2>1. PICK remote \in {0, published}, s \in {stamp, U!Blank} :
          proc' = [proc EXCEPT ![p] =
                     [proc[p] EXCEPT !.doing = "checks", !.base = s, !.rec = U!Checked(proc[p].root, remote, s)]]
    BY <1>0, <1>3 DEF U!check, PluginTypes
  <2>2. PICK c : c = U!Checked(proc[p].root, remote, s) OBVIOUS
  <2>3. s \in Stamps /\ s.published <= published BY ReadIsStamp
  <2>4. /\ c \in Stamps /\ c.declined = s.declined /\ c.applied = s.applied /\ c.published <= published
        /\ s.available /\ installed < s.published => c.available /\ c.published >= s.published
    BY <2>2, <2>3, <1>1, <1>2, CheckedKeeps
  <2>5. PICK x : x = [proc[p] EXCEPT !.doing = "checks", !.base = s, !.rec = c] OBVIOUS
  <2>6. x \in Sessions /\ x.root = proc[p].root /\ x.doing = "checks" /\ x.base = s /\ x.rec = c
    BY <2>3, <2>4, <2>5, <1>2 DEF Sessions, Doing
  <2>7. Hand(x) BY <2>4, <2>6, <1>1, <1>2 DEF Hand, Offers
  <2>8. proc' = [proc EXCEPT ![p] = x] BY <2>1, <2>2, <2>5
  <2> QED BY <2>6, <2>7, <2>8, <1>1, PluginKeeps
<1>4. CASE U!decline(p)
  <2>1. PICK s \in {stamp, U!Blank} :
          \/ U!Goes(p, "runs")
          \/ proc' = [proc EXCEPT ![p] =
                        [proc[p] EXCEPT !.doing = "answers", !.about = s.published, !.key = "declined"]]
    BY <1>0, <1>4 DEF U!decline, PluginTypes
  <2>2. s.published \in Nat BY ReadIsStamp
  <2>3. CASE U!Goes(p, "runs")
    <3>1. PICK x : x = [proc[p] EXCEPT !.doing = "runs"] OBVIOUS
    <3>2. x \in Sessions /\ x.root = proc[p].root /\ x.doing = "runs" BY <3>1, <1>2 DEF Sessions, Doing
    <3>3. Hand(x) BY <3>2, <1>1, <1>2 DEF Hand
    <3>4. proc' = [proc EXCEPT ![p] = x] BY <2>3, <3>1 DEF U!Goes
    <3> QED BY <3>2, <3>3, <3>4, <1>1, PluginKeeps
  <2>4. CASE ~ U!Goes(p, "runs")
    <3>1. PICK x : x = [proc[p] EXCEPT !.doing = "answers", !.about = s.published, !.key = "declined"] OBVIOUS
    <3>2. x \in Sessions /\ x.root = proc[p].root /\ x.doing = "answers" /\ x.key = "declined"
      BY <3>1, <2>2, <1>2 DEF Sessions, Doing, Answers
    <3>3. Hand(x) BY <3>2, <1>1, <1>2 DEF Hand, Answers
    <3>4. proc' = [proc EXCEPT ![p] = x] BY <2>1, <2>4, <3>1
    <3> QED BY <3>2, <3>3, <3>4, <1>1, PluginKeeps
  <2> QED BY <2>3, <2>4
<1>5. CASE U!_stamp_answer(p)
  <2>1. PICK s \in {stamp, U!Blank} :
          proc' = [proc EXCEPT ![p] =
                     [proc[p] EXCEPT !.doing = "records", !.base = s, !.rec = [s EXCEPT ![proc[p].key] = proc[p].about]]]
    BY <1>0, <1>5 DEF U!_stamp_answer, PluginTypes
  <2>2. PICK c : c = [s EXCEPT ![proc[p].key] = proc[p].about] OBVIOUS
  <2>3. s \in Stamps /\ s.published <= published BY ReadIsStamp
  <2>4. proc[p].key \in Answers /\ proc[p].about \in Nat BY <1>2, <1>5 DEF U!_stamp_answer, U!Running, Hand, Sessions
  <2>5. c \in Stamps /\ c.published = s.published BY <2>2, <2>3, <2>4 DEF Stamps, Answers
  <2>6. PICK x : x = [proc[p] EXCEPT !.doing = "records", !.base = s, !.rec = c] OBVIOUS
  <2>7. /\ x \in Sessions /\ x.root = proc[p].root /\ x.doing = "records" /\ x.base = s /\ x.rec = c
        /\ x.key = proc[p].key /\ x.about = proc[p].about
    BY <2>3, <2>5, <2>6, <1>2 DEF Sessions, Doing
  <2>8. Hand(x) BY <2>2, <2>3, <2>4, <2>5, <2>7, <1>1, <1>2 DEF Hand
  <2>9. proc' = [proc EXCEPT ![p] = x] BY <2>1, <2>2, <2>6
  <2> QED BY <2>7, <2>8, <2>9, <1>1, PluginKeeps
<1> QED BY <1>3, <1>4, <1>5

LEMMA PluginUpdates ==
  ASSUME PluginInv, NEW p \in U!Processes, U!apply_update(p)
  PROVE  PluginInv' /\ U!Owing
<1>0. PluginTypes /\ Stamped /\ InHand BY DEF PluginInv
<1>1. UNCHANGED <<published, stamp, again, answered>> /\ published \in Nat /\ installed \in Nat
  BY <1>0 DEF U!apply_update, U!history, PluginTypes
<1>2. installed' \in Nat /\ installed' >= installed BY <1>1 DEF U!apply_update
<1>3. proc[p] \in Sessions /\ Hand(proc[p]) BY <1>0 DEF U!apply_update, U!Running, PluginTypes, InHand
<1>4. PICK x : /\ proc' = [proc EXCEPT ![p] = x]
               /\ x \in {[proc[p] EXCEPT !.doing = "moved", !.about = published, !.key = "applied"],
                         [proc[p] EXCEPT !.doing = "moved"], [proc[p] EXCEPT !.doing = "runs"]}
  BY <1>0 DEF U!apply_update, U!Goes, PluginTypes
<1>5. x \in Sessions /\ x.root = proc[p].root /\ x.doing \in {"moved", "runs"}
  BY <1>1, <1>3, <1>4 DEF Sessions, Doing, Answers
<1>6. Hand(x) BY <1>1, <1>2, <1>3, <1>5 DEF Hand, Sessions
<1> QED BY <1>1, <1>2, <1>4, <1>5, <1>6, PluginKeeps

(* A record is written, or is not.                                          *)
LEMMA PluginWrites ==
  ASSUME PluginInv, faults \in Nat, NEW p \in U!Processes, U!_write_stamp(p)
  PROVE  PluginInv' /\ U!Owing
<1> USE DEF PluginInv
<1>1. /\ UNCHANGED <<published, installed, again>> /\ published \in Nat /\ installed \in Nat
      /\ stamp \in Stamps /\ answered \in Nat
  BY DEF U!_write_stamp, PluginTypes
<1>2. PICK o : o = proc[p] OBVIOUS
<1>3. o \in Sessions /\ Hand(o) /\ o # None /\ o.doing \in {"checks", "records"}
  BY <1>2 DEF U!_write_stamp, U!Running, PluginTypes, InHand
<1>4. PICK next : next = IF o.doing = "checks" /\ o.key # None THEN [o EXCEPT !.doing = "answers"]
                         ELSE U!Process(o.root)
  OBVIOUS
<1>5. next \in Sessions /\ Hand(next) /\ next.doing \in {"answers", "runs"}
  <2>1. CASE o.doing = "checks" /\ o.key # None
    BY <2>1, <1>3, <1>4 DEF Sessions, Doing, Hand
  <2>2. CASE ~ (o.doing = "checks" /\ o.key # None)
    <3>1. o.root \in Nat /\ o.root <= installed BY <1>3 DEF Sessions, Hand
    <3> QED BY <2>2, <3>1, <1>4, FreshProcess
  <2> QED BY <2>1, <2>2
<1>6. PICK x \in {next, None} : proc' = [proc EXCEPT ![p] = x]
  BY <1>2, <1>3, <1>4 DEF U!_write_stamp, U!Running
<1>8. x # o BY <1>3, <1>5
<1>9. proc'[p] = x BY <1>6 DEF PluginTypes
<1>10. \A q \in U!Processes : q # p => proc'[q] = proc[q] BY <1>6 DEF PluginTypes
<1>11. InHand'
  <2> SUFFICES ASSUME NEW q \in U!Processes, proc'[q] # None PROVE Hand(proc[q])' BY DEF InHand, U!Processes
  <2>1. CASE q = p BY <2>1, <1>1, <1>5, <1>6, <1>9 DEF Hand, Offers
  <2>2. CASE q # p
    <3>1. PICK y : y = proc[q] OBVIOUS
    <3>2. Hand(y) BY <3>1, <2>2, <1>10 DEF InHand
    <3>3. Hand(y)' BY <3>2, <1>1 DEF Hand, Offers
    <3> QED BY <3>1, <3>3, <2>2, <1>10 DEF Hand, Offers
  <2> QED BY <2>1, <2>2
<1>12. U!NoIsNo' BY <1>1 DEF U!NoIsNo
<1>13. proc' \in [U!Processes -> Sessions \cup {None}] BY <1>5, <1>6 DEF PluginTypes
<1>14. ASSUME stamp' \in {stamp, U!Blank}, U!Fault, answered' = IF stamp' = stamp THEN answered ELSE 0
       PROVE  PluginInv' /\ U!Owing
  <2>1. stamp' \in Stamps /\ stamp'.published <= published /\ answered' \in Nat
    BY <1>1, <1>14, ReadIsStamp
  <2>2. PluginTypes' BY <2>1, <1>1, <1>13 DEF PluginTypes, U!Processes
  <2>3. Stamped' BY <2>1, <1>1, <1>14 DEF Stamped, Stamps
  <2>4. U!Owing BY <1>14 DEF U!Owing, U!Excused, U!Fault
  <2> QED BY <2>2, <2>3, <2>4, <1>11, <1>12
<1>15. ASSUME stamp' = o.rec,
              answered' = U!NewOf({IF U!Over(p) THEN 0 ELSE answered, IF o.doing = "records" THEN o.about ELSE 0})
       PROVE  PluginInv' /\ U!Owing
  <2>1. o.rec \in Stamps /\ o.base \in Stamps /\ o.about \in Nat BY <1>3 DEF Sessions
  <2>2. answered' \in Nat /\ answered' \in {IF U!Over(p) THEN 0 ELSE answered, IF o.doing = "records" THEN o.about ELSE 0}
    BY <2>1, <1>1, <1>15, NewerOfTwo
  <2>3. PluginTypes' BY <2>1, <2>2, <1>1, <1>13, <1>15 DEF PluginTypes, U!Processes
  <2>4. o.rec.published <= published BY <1>3 DEF Hand
  <2>5. CASE o.doing = "checks"
    <3>1. Offers(o) BY <1>3, <2>5 DEF Hand
    <3>2. ~ U!Over(p) => o.base.declined = stamp.declined /\ o.base.applied = stamp.applied
      BY <1>2 DEF U!Over
    <3>3. Stamped' BY <3>1, <3>2, <2>1, <2>2, <2>4, <2>5, <1>1, <1>15 DEF Stamped, Offers, Stamps
    <3>4. U!Owing
      <4> SUFFICES ASSUME NEW r \in 1 .. Latest, U!Pending(r), ~ U!Pending(r)', installed < stamp.published, ~ U!Excused
                   PROVE  FALSE
        BY <1>1 DEF U!Owing, Stamps
      <4>1. o.base = stamp BY <1>2, <1>3, <1>8, <1>9, <2>5 DEF U!Excused, U!Running
      <4>2. /\ stamp'.available /\ stamp'.published >= stamp.published
            /\ stamp'.declined = stamp.declined /\ stamp'.applied = stamp.applied
        BY <4>1, <3>1, <1>15 DEF Offers, U!Pending
      <4> QED BY <4>2, <2>1, <1>1, <1>15 DEF U!Pending, Stamps
    <3> QED BY <2>3, <3>3, <3>4, <1>11, <1>12
  <2>6. CASE o.doing = "records"
    <3>1. o.rec = [o.base EXCEPT ![o.key] = o.about] /\ o.key \in Answers BY <1>3, <2>6 DEF Hand
    <3>2. ~ U!Over(p) => /\ o.base.declined = stamp.declined /\ o.base.applied = stamp.applied
                         /\ ~ (o.about < stamp[o.key])
      BY <1>2, <1>3, <2>6 DEF U!Over, U!Running
    <3>3. Stamped' 
      <4>1. CASE o.key = "declined"
        <5>1. stamp'.declined = o.about /\ stamp'.applied = o.base.applied BY <4>1, <3>1, <2>1, <1>15 DEF Stamps
        <5>2. ~ U!Over(p) => o.about >= stamp.declined /\ stamp'.applied = stamp.applied
          BY <5>1, <4>1, <3>2, <2>1, <1>1 DEF Stamps
        <5> QED BY <5>1, <5>2, <2>1, <2>2, <2>4, <2>6, <1>1, <1>15 DEF Stamped, Stamps
      <4>2. CASE o.key = "applied"
        <5>1. stamp'.applied = o.about /\ stamp'.declined = o.base.declined BY <4>2, <3>1, <2>1, <1>15 DEF Stamps
        <5>2. ~ U!Over(p) => o.about >= stamp.applied /\ stamp'.declined = stamp.declined
          BY <5>1, <4>2, <3>2, <2>1, <1>1 DEF Stamps
        <5> QED BY <5>1, <5>2, <2>1, <2>2, <2>4, <2>6, <1>1, <1>15 DEF Stamped, Stamps
      <4> QED BY <4>1, <4>2, <3>1 DEF Answers
    <3>4. U!Owing
      <4> SUFFICES ASSUME NEW r \in 1 .. Latest, U!Pending(r), ~ U!Pending(r)', ~ U!Excused
                   PROVE  stamp'.declined > stamp.declined \/ stamp'.applied > stamp.applied
        BY DEF U!Owing
      <4>1. o.base = stamp BY <1>2, <1>3, <1>8, <1>9, <2>6 DEF U!Excused, U!Running
      <4>2. stamp' = [stamp EXCEPT ![o.key] = o.about] BY <4>1, <3>1, <1>15
      <4>3. CASE o.key = "declined"
        <5>1. stamp'.declined = o.about /\ stamp'.applied = stamp.applied
              /\ stamp'.published = stamp.published /\ stamp'.available = stamp.available
          BY <4>2, <4>3, <1>1 DEF Stamps
        <5> QED BY <5>1, <2>1, <1>1 DEF U!Pending, Stamps
      <4>4. CASE o.key = "applied"
        <5>1. stamp'.applied = o.about /\ stamp'.declined = stamp.declined
              /\ stamp'.published = stamp.published /\ stamp'.available = stamp.available
          BY <4>2, <4>4, <1>1 DEF Stamps
        <5> QED BY <5>1, <2>1, <1>1 DEF U!Pending, Stamps
      <4> QED BY <4>3, <4>4, <3>1 DEF Answers
    <3> QED BY <2>3, <3>3, <3>4, <1>11, <1>12
  <2> QED BY <2>5, <2>6, <1>3
<1> QED BY <1>2, <1>3, <1>14, <1>15 DEF U!_write_stamp, U!Running

LEMMA PluginStep ==
  ASSUME PluginInv, job = "notice" => faults \in Nat, [VaultNext]_all
  PROVE  PluginInv' /\ U!Owing /\ (job = "notice" => faults \in Nat)'
<1>1. CASE UNCHANGED notice /\ (job' = job) /\ (job = "notice" => faults' = faults)
  BY <1>1 DEF notice, PluginInv, PluginTypes, Stamped, InHand, Hand, Offers, U!NoIsNo, U!Owing, U!Pending, U!Processes
<1>2. CASE job = "notice" /\ job' = job /\ U!Next
  <2>1. faults \in Nat BY <1>2
  <2>2. faults' \in Nat
    <3>1. U!Next => UNCHANGED faults \/ U!Fault
      <4> USE DEF U!_read_stamp
      <4>1. U!Publish \/ U!AutoUpdate => UNCHANGED faults BY DEF U!Publish, U!AutoUpdate
      <4>2. ASSUME NEW p \in U!Processes PROVE /\ U!Start(p) => UNCHANGED faults
                                               /\ U!check(p) => UNCHANGED faults \/ U!Fault
                                               /\ U!_write_stamp(p) => UNCHANGED faults \/ U!Fault
                                               /\ U!cached_notice(p) => UNCHANGED faults
                                               /\ U!decline(p) => UNCHANGED faults \/ U!Fault
        BY DEF U!Start, U!check, U!_write_stamp, U!cached_notice, U!decline
      <4>3. ASSUME NEW p \in U!Processes PROVE /\ U!apply_update(p) => UNCHANGED faults \/ U!Fault
                                               /\ U!_stamp_answer(p) => UNCHANGED faults \/ U!Fault
                                               /\ U!whats_new(p) => UNCHANGED faults
                                               /\ U!mark_notes_shown(p) => UNCHANGED faults
                                               /\ U!Ends(p) => UNCHANGED faults \/ U!Fault
        BY DEF U!apply_update, U!_stamp_answer, U!whats_new, U!mark_notes_shown, U!Ends
      <4> QED BY <4>1, <4>2, <4>3 DEF U!Next
    <3> QED BY <3>1, <1>2, <2>1 DEF U!Fault
  <2>3. CASE U!Publish \/ U!AutoUpdate BY <2>3, PluginWorld, <2>2
  <2>4. ASSUME NEW p \in U!Processes,
               \/ U!Start(p) \/ U!check(p) \/ U!_write_stamp(p) \/ U!cached_notice(p)
               \/ U!decline(p) \/ U!apply_update(p) \/ U!_stamp_answer(p)
               \/ U!whats_new(p) \/ U!mark_notes_shown(p) \/ U!Ends(p)
        PROVE  PluginInv' /\ U!Owing
    <3>1. CASE U!Start(p) \/ U!cached_notice(p) \/ U!whats_new(p) \/ U!mark_notes_shown(p) \/ U!Ends(p)
      BY <3>1, PluginQuiet
    <3>2. CASE U!check(p) \/ U!decline(p) \/ U!_stamp_answer(p) BY <3>2, PluginReads
    <3>3. CASE U!apply_update(p) BY <3>3, PluginUpdates
    <3>4. CASE U!_write_stamp(p) BY <3>4, <2>1, PluginWrites
    <3> QED BY <2>4, <3>1, <3>2, <3>3, <3>4
  <2> QED BY <1>2, <2>2, <2>3, <2>4 DEF U!Next
<1> QED BY <1>1, <1>2 DEF VaultNext, all

(* AnswersKept: for any processes and versions, whatever is read and written*)
(* between a read of the stamp and its write (plugin_update.check, decline, *)
(* apply_update, _stamp_answer), nobody is asked about a version no newer   *)
(* than the last answer that is not lost, and what a chat would be asked    *)
(* about stays until an answer is recorded or the installed plugin has      *)
(* caught up, but for a fault and a record written over a newer stamp.      *)
THEOREM AnswersKeptAlways == VaultSpec => AnswersKept
<1> DEFINE Side == PluginInv /\ (job = "notice" => faults \in Nat)
<1>1. VaultInit => Side BY PluginInit DEF VaultInit, U!Init
<1>2. Side /\ [VaultNext]_all => Side' BY PluginStep
<1>3. Side /\ [VaultNext]_all => [U!Owing]_U!vars BY PluginStep
<1>4. Side => U!NoIsNo BY DEF PluginInv
<1> QED BY <1>1, <1>2, <1>3, <1>4, PTL DEF VaultSpec, AnswersKept, U!AnswersKept, U!OwedStays

-----------------------------------------------------------------------------
(* The findings of the audit.                                               *)
Fixed == {"resolved", "archived"}
Rows == [status : Fixed \cup {"new", "open", "reopened", "not_rechecked", "no_longer_applicable"},
        streak : Int, first : Int]
Ledgers == [Findings -> Rows \cup {None}]

AuditTypes ==
  /\ day \in Int /\ found \in Ledgers /\ folders \subseteq V!Folders
  /\ gone \in [Findings -> BOOLEAN]

(* A pick is never on disk, and what a report picks is one; what else is not*)
(* there is known to have gone.                                             *)
Picks ==
  /\ \A f \in present : Kind[f] # "pick"
  /\ report # None => report.pick \in Findings /\ Kind[report.pick] = "pick"
Absent == \A f \in Findings \ present : Kind[f] # "pick" => gone[f]

AuditInv == AuditTypes /\ Picks /\ Absent /\ V!FixedWasGone

(* What a sweep calls fixed was not among what it found, and was looked for.*)
LEMMA FixedIsLooked ==
  ASSUME AuditTypes, NEW prev \in Ledgers, NEW current, NEW scans, NEW f \in Findings
  PROVE  LET row == V!advance(prev, current, scans)[f]
         IN /\ row \in Rows \cup {None}
            /\ row # None /\ row.status \in Fixed =>
                 f \notin current /\ Kind[f] \in scans /\ ~ (Kind[f] = "page" /\ f \notin configured)
<1> DEFINE row == V!advance(prev, current, scans)[f]
<1>1. prev[f] \in Rows \cup {None} BY DEF Ledgers
<1>2. CASE f \in current /\ prev[f] = None
  <2>1. row = [status |-> "new", streak |-> 0, first |-> day] BY <1>2 DEF V!advance
  <2> QED BY <2>1 DEF AuditTypes, Rows, Fixed
<1>3. CASE f \in current /\ prev[f] # None
  <2> DEFINE s == IF prev[f].status \in {"resolved", "archived"} THEN "reopened" ELSE "open"
  <2>1. row = [prev[f] EXCEPT !.status = s, !.streak = 0] BY <1>3 DEF V!advance
  <2>2. prev[f] \in Rows BY <1>1, <1>3
  <2>3. s \in {"reopened", "open"} OBVIOUS
  <2> HIDE DEF row, s
  <2>4. row.status = s /\ row.streak = 0 /\ row.first = prev[f].first BY <2>1, <2>2 DEF Rows
  <2>5. row = [status |-> row.status, streak |-> row.streak, first |-> row.first] BY <2>1, <2>2 DEF Rows
  <2>6. row \in Rows BY <2>2, <2>3, <2>4, <2>5 DEF Rows, Fixed
  <2> QED BY <2>3, <2>4, <2>6 DEF Fixed, row
<1>4. CASE f \notin current /\ prev[f] = None
  <2>1. row = None BY <1>4 DEF V!advance
  <2> QED BY <2>1
<1>5. CASE f \notin current /\ prev[f] # None
  <2>1. prev[f] \in Rows BY <1>1, <1>5
  <2>2. CASE Kind[f] = "page" /\ f \notin configured
    <3>1. row = [prev[f] EXCEPT !.status = "no_longer_applicable"] BY <1>5, <2>2 DEF V!advance
    <3>2. row \in Rows /\ row.status = "no_longer_applicable" BY <3>1, <2>1 DEF Rows
    <3> QED BY <3>2 DEF Fixed
  <2>3. CASE ~ (Kind[f] = "page" /\ f \notin configured) /\ Kind[f] \notin scans
    <3>1. row = [prev[f] EXCEPT !.status = "not_rechecked"] BY <1>5, <2>3 DEF V!advance
    <3>2. row \in Rows /\ row.status = "not_rechecked" BY <3>1, <2>1 DEF Rows
    <3> QED BY <3>2 DEF Fixed
  <2>4. CASE ~ (Kind[f] = "page" /\ f \notin configured) /\ Kind[f] \in scans
    <3> DEFINE k == IF prev[f].streak < ArchiveAfter THEN prev[f].streak + 1 ELSE prev[f].streak
               s == IF prev[f].streak + 1 >= ArchiveAfter THEN "archived" ELSE "resolved"
    <3>1. row = [prev[f] EXCEPT !.status = s, !.streak = k] BY <1>5, <2>4 DEF V!advance
    <3>2. s \in Fixed /\ k \in Int BY <2>1 DEF Fixed, Rows
    <3> HIDE DEF row, s, k
    <3>3. row \in Rows BY <3>1, <3>2, <2>1 DEF Rows
    <3> QED BY <3>3, <1>5, <2>4 DEF row
  <2> QED BY <2>2, <2>3, <2>4
<1> QED BY <1>2, <1>3, <1>4, <1>5

LEMMA AuditInit == V!Init => AuditInv
<1> SUFFICES ASSUME V!Init PROVE AuditInv OBVIOUS
<1>1. AuditTypes BY DEF V!Init, AuditTypes, Ledgers, V!NoLedger
<1>2. Picks /\ Absent BY DEF V!Init, Picks, Absent
<1>3. V!FixedWasGone BY DEF V!Init, V!FixedWasGone, V!NoLedger
<1> QED BY <1>1, <1>2, <1>3 DEF AuditInv

LEMMA AuditSweep == ASSUME AuditInv, V!run_sweep PROVE AuditInv'
<1>1. PICK prev \in {found, V!NoLedger}, missed \in SUBSET {f \in present : V!InFile(f)} :
        LET current == V!Found(missed) \cup V!previous_pick
        IN /\ found' = V!advance(prev, current, V!_scans_run)
           /\ gone' = [f \in Findings |-> gone[f] /\ f \notin current]
           /\ unread' = (unread \cup missed \cup V!Cut(missed)) \ current
  BY DEF V!run_sweep
<1>2. day' = day /\ present' = present /\ folders' = folders /\ configured' = configured BY DEF V!run_sweep, V!disk
<1> DEFINE current == V!Found(missed) \cup V!previous_pick
<1>3. AuditTypes BY DEF AuditInv
<1>4. prev \in Ledgers BY <1>3 DEF AuditTypes, Ledgers, V!NoLedger
<1>5. ASSUME NEW f \in Findings
      PROVE  /\ found'[f] \in Rows \cup {None}
             /\ found'[f] # None /\ found'[f].status \in Fixed =>
                  f \notin current /\ Kind[f] \in V!_scans_run /\ ~ (Kind[f] = "page" /\ f \notin configured)
  <2> HIDE DEF current
  <2>1. found' = V!advance(prev, current, V!_scans_run) BY <1>1 DEF current
  <2> QED BY <2>1, <1>3, <1>4, FixedIsLooked
<1>6. AuditTypes'
  <2>1. found' \in Ledgers
    <3>1. \E c, scans : found' = V!advance(prev, c, scans) BY <1>1
    <3>a. PICK c, scans : found' = V!advance(prev, c, scans) BY <3>1
    <3>2. found' = [f \in Findings |-> found'[f]] BY <3>a DEF V!advance
    <3> QED BY <3>2, <1>5 DEF Ledgers
  <2>2. gone' \in [Findings -> BOOLEAN] BY <1>1, <1>3 DEF AuditTypes
  <2> QED BY <2>1, <2>2, <1>2, <1>3 DEF AuditTypes
<1>7. report' = report BY DEF V!run_sweep
<1>8. Picks' BY <1>2, <1>7 DEF AuditInv, Picks
<1>9. ASSUME NEW f \in Findings, f \in current, f \notin present PROVE Kind[f] = "pick"
  BY <1>9 DEF V!Found, V!previous_pick, AuditInv, Picks
<1>10. Absent' BY <1>1, <1>2, <1>9 DEF AuditInv, Absent
<1>11. V!FixedWasGone'
  <2> SUFFICES ASSUME NEW f \in Findings, found'[f] # None, found'[f].status \in Fixed
               PROVE  gone'[f] \/ f \in unread'
    BY DEF V!FixedWasGone, Fixed
  <2>1. f \notin current /\ Kind[f] \in V!_scans_run /\ ~ (Kind[f] = "page" /\ f \notin configured)
    BY <1>5
  <2>2. CASE f \notin present
    <3>1. Kind[f] # "pick" BY <2>1, <1>3 DEF V!_scans_run, AuditTypes, V!Folders
    <3>2. gone[f] BY <3>1, <2>2 DEF AuditInv, Absent
    <3> QED BY <3>2, <2>1, <1>1
  <2>3. CASE f \in present
    <3>1. V!Readable(f) BY <2>1 DEF V!Readable, V!_scans_run, V!Folders
    <3>2. f \in missed \/ f \in V!Cut(missed) BY <3>1, <2>1, <2>3 DEF V!Found
    <3> QED BY <3>2, <2>1, <1>1
  <2> QED BY <2>2, <2>3
<1> QED BY <1>6, <1>8, <1>10, <1>11 DEF AuditInv

LEMMA AuditStep == ASSUME AuditInv, [V!Next]_V!vars PROVE AuditInv'
<1> USE DEF AuditInv, AuditTypes, Picks, Absent, V!FixedWasGone
<1>1. CASE V!run_sweep BY <1>1, AuditSweep
<1>2. CASE V!Writes BY <1>2 DEF V!Writes, V!disk
<1>3. CASE V!NextDay BY <1>3 DEF V!NextDay, V!disk, V!files
<1>4. ASSUME NEW f \in Findings, V!Changes(f) PROVE AuditInv'
  BY <1>4 DEF V!Changes, V!files
<1>5. ASSUME NEW f \in Findings, V!Configures(f) PROVE AuditInv' BY <1>5 DEF V!Configures, V!files
<1>6. ASSUME NEW k \in V!Folders, V!Moves(k) PROVE AuditInv' BY <1>6 DEF V!Moves, V!files
<1>7. CASE UNCHANGED V!vars BY <1>7 DEF V!vars, V!disk, V!files
<1> QED BY <1>1, <1>2, <1>3, <1>4, <1>5, <1>6, <1>7 DEF V!Next

(* FixedWasGone: for any findings, any number of audits, changes on disk,   *)
(* folders moved away, pages and logs that cannot be read, a ledger that is *)
(* lost and runs that die, the ledger (audit_ledger.advance) calls a finding*)
(* fixed only if there was no reason for it at some time since it was last  *)
(* found, or a sweep could not read the page, the log or the sidecar it is  *)
(* in, or cut its log line.                                                 *)
THEOREM FixedAlways == VaultSpec => []FixedWasGone
<1> DEFINE Side == V!FixedWasGone /\ (job = "findings" => AuditInv)
<1>1. VaultInit => Side BY AuditInit DEF VaultInit, AuditInv
<1>2. ASSUME Side, [VaultNext]_all PROVE Side'
  <2>1. job' = job BY <1>2 DEF VaultNext, all
  <2>2. CASE job = "findings"
    <3>1. V!Next \/ UNCHANGED <<audit, day, faults>> BY <1>2, <2>2 DEF VaultNext, all
    <3>2. [V!Next]_V!vars BY <3>1 DEF audit, V!vars, V!disk, V!files
    <3> QED BY <1>2, <2>1, <2>2, <3>2, AuditStep DEF AuditInv
  <2>3. CASE job # "findings"
    <3>1. UNCHANGED audit BY <1>2, <2>3 DEF VaultNext, all
    <3> QED BY <1>2, <2>1, <2>3, <3>1 DEF audit, V!FixedWasGone
  <2> QED BY <2>2, <2>3
<1>3. Side => FixedWasGone BY DEF FixedWasGone
<1> QED BY <1>1, <1>2, <1>3, PTL DEF VaultSpec

-----------------------------------------------------------------------------
(* The score of the audit.                                                  *)
LEMMA LessOfTwo ==
  ASSUME NEW a \in Int, NEW b \in Int
  PROVE  S!Min({a, b}) = IF a <= b THEN a ELSE b
<1> DEFINE m == IF a <= b THEN a ELSE b
<1>1. m \in {a, b} /\ \A y \in {a, b} : m <= y OBVIOUS
<1>2. \A x \in {a, b} : (\A y \in {a, b} : x <= y) => x = m OBVIOUS
<1>3. S!Min({a, b}) = CHOOSE x \in {a, b} : \A y \in {a, b} : x <= y BY DEF S!Min
<1> QED BY <1>1, <1>2, <1>3

LEMMA MoreOfTwo ==
  ASSUME NEW a \in Int, NEW b \in Int
  PROVE  S!Max({a, b}) = IF a >= b THEN a ELSE b
<1> DEFINE m == IF a >= b THEN a ELSE b
<1>1. m \in {a, b} /\ \A y \in {a, b} : m >= y OBVIOUS
<1>2. \A x \in {a, b} : (\A y \in {a, b} : x >= y) => x = m OBVIOUS
<1>3. S!Max({a, b}) = CHOOSE x \in {a, b} : \A y \in {a, b} : x >= y BY DEF S!Max
<1> QED BY <1>1, <1>2, <1>3

LEMMA RowsAreNumbers ==
  ASSUME NEW e, NEW p \in S!Parts
  PROVE  S!Codes(e)[p] \in Int
<1> DEFINE Points == {0, 1, 3, 5}
<1>1. \A n, i, j, k : S!Tier(n, i, j, k) \in Points BY DEF S!Tier
<1>2. \A g, t : S!Share(g, t) \in Points BY DEF S!Share
<1>3. S!Accounts(e) \in Points /\ S!Usage(e) \in Points /\ S!Installed(e) \in Points
  BY DEF S!Accounts, S!Usage, S!Installed
<1>4. S!Ran(e) \in Points /\ S!Alerted(e) \in Points /\ S!Audited(e) \in Points
  BY DEF S!Ran, S!Alerted, S!Audited
<1>5. \A x \in Points : x \in Int OBVIOUS
<1> HIDE DEF Points
<1>6. CASE p = "Context"
  <2>1. S!Codes(e)[p] = S!Tier(S!Found(e), 5, 3, 1) + S!Share(e.fresh, 4) + S!Share(e.finished, 2)
    BY <1>6 DEF S!Codes
  <2> QED BY <2>1, <1>1, <1>2, <1>5
<1>7. CASE p = "Connections"
  <2>1. S!Codes(e)[p] = S!Accounts(e) + S!Tier(e.paths, 3, 2, 1) BY <1>7 DEF S!Codes
  <2> QED BY <2>1, <1>1, <1>3, <1>5
<1>8. CASE p = "Capabilities"
  <2>1. S!Codes(e)[p] = S!Tier(e.pages, 3, 2, 1) + S!Usage(e) BY <1>8 DEF S!Codes
  <2> QED BY <2>1, <1>1, <1>3, <1>5
<1>9. CASE p = "Cadence"
  <2> DEFINE last == IF e.report THEN S!Audited(e) ELSE 0
  <2>1. S!Codes(e)[p] = S!Installed(e) + S!Ran(e) + S!Alerted(e) + last BY <1>9 DEF S!Codes
  <2>2. last \in Int BY <1>4, <1>5
  <2> HIDE DEF last
  <2> QED BY <2>1, <2>2, <1>3, <1>4, <1>5
<1> QED BY <1>6, <1>7, <1>8, <1>9 DEF S!Parts

LEMMA JudgedIs ==
  /\ S!Judged["Context"] = 2 /\ S!Judged["Connections"] = 3
  /\ S!Judged["Capabilities"] = 3 /\ S!Judged["Cadence"] = 1
BY DEF S!Judged, S!Parts

LEMMA Bracket ==
  ASSUME NEW e, NEW f \in S!Fillable
  PROVE  LET s == S!apply_caps(e) IN S!Expected(s.caps, S!Filled(e, f)) \in s.min .. s.max
<1> DEFINE L == S!Limited(e)
           codes == S!Codes(e)
           sub == [p \in S!Parts |-> IF p \in L THEN S!Min({codes[p], 10}) ELSE codes[p]]
           open == [p \in S!Parts |->
                     IF p \in L THEN S!Min({5 * S!Judged[p], S!Max({0, 10 - sub[p]})}) ELSE 5 * S!Judged[p]]
           least == S!Min({sub[p] + open[p] : p \in S!Parts})
           total == IF least < 10 THEN 49 ELSE IF least < 15 \/ e.okdays < 2 THEN 69
                    ELSE IF least < 20 THEN 84 ELSE 100
           top == S!Sum(sub) + S!Sum(open)
           caps == {<<p, 10>> : p \in {q \in L : codes[q] + 5 * S!Judged[q] >= 10}}
                   \cup (IF top > total THEN {<<"Total", total>>} ELSE {})
           s == S!apply_caps(e)
           parts == [p \in S!Parts |-> S!OverRoom(caps, S!Filled(e, f), p)]
           whole == S!Sum(parts)
<1>1. s.caps = caps /\ s.min = S!Min({S!Sum(sub), total}) /\ s.max = S!Min({top, total})
  BY DEF S!apply_caps
<1>2. total \in Int OBVIOUS
<1>3. ASSUME NEW p \in S!Parts
      PROVE  /\ sub[p] \in Int /\ open[p] \in Int /\ parts[p] \in Int
             /\ sub[p] <= parts[p] /\ parts[p] <= sub[p] + open[p]
  <2>1. codes[p] \in Int BY RowsAreNumbers
  <2>2. f[p] \in 0 .. 5 * S!Judged[p] /\ 5 * S!Judged[p] \in Nat
    BY JudgedIs DEF S!Fillable, S!Parts
  <2>3. <<p, 10>> \in caps <=> p \in L /\ codes[p] + 5 * S!Judged[p] >= 10
    <3>1. p # "Total" BY DEF S!Parts
    <3> HIDE DEF total, top, codes, L
    <3> QED BY <3>1
  <2>4. S!Filled(e, f)[p] = codes[p] + f[p] BY DEF S!Filled
  <2>5. parts[p] = IF p \in L /\ codes[p] + 5 * S!Judged[p] >= 10 THEN S!Min({codes[p] + f[p], 10})
                   ELSE codes[p] + f[p]
    <3> HIDE DEF caps, codes, L
    <3> QED BY <2>3, <2>4 DEF S!OverRoom
  <2>6. sub[p] = IF p \in L THEN S!Min({codes[p], 10}) ELSE codes[p] OBVIOUS
  <2>7. open[p] = IF p \in L THEN S!Min({5 * S!Judged[p], S!Max({0, 10 - sub[p]})}) ELSE 5 * S!Judged[p] OBVIOUS
  <2> DEFINE c == codes[p]
             room == 5 * S!Judged[p]
             points == f[p]
             low == sub[p]
             rest == open[p]
             taken == parts[p]
  <2>8. c \in Int /\ room \in Nat /\ points \in 0 .. room BY <2>1, <2>2
  <2>9. CASE p \in L
    <3>1. low = S!Min({c, 10}) /\ rest = S!Min({room, S!Max({0, 10 - low})})
          /\ taken = IF c + room >= 10 THEN S!Min({c + points, 10}) ELSE c + points
      BY <2>5, <2>6, <2>7, <2>9
    <3> HIDE DEF c, room, points, low, rest, taken
    <3>2. low = (IF c <= 10 THEN c ELSE 10) /\ low \in Int BY <2>8, <3>1, LessOfTwo
    <3>3. c + points \in Int /\ S!Min({c + points, 10}) = (IF c + points <= 10 THEN c + points ELSE 10)
      BY <2>8, LessOfTwo
    <3> DEFINE over == 10 - low
               left == IF 0 >= over THEN 0 ELSE over
    <3>4. S!Max({0, over}) = left /\ left \in Int
      <4>1. over \in Int BY <3>2
      <4> HIDE DEF over
      <4> QED BY <4>1, MoreOfTwo
    <3>5. rest = IF room <= left THEN room ELSE left
      <4>1. rest = S!Min({room, left}) BY <3>1, <3>4
      <4> HIDE DEF left
      <4> QED BY <4>1, <2>8, <3>4, LessOfTwo
    <3>6. low \in Int /\ rest \in Int /\ taken \in Int /\ low <= taken /\ taken <= low + rest
      BY <2>8, <3>1, <3>2, <3>3, <3>5
    <3> QED BY <3>6 DEF low, rest, taken
  <2>10. CASE p \notin L
    <3>1. sub[p] = codes[p] /\ open[p] = 5 * S!Judged[p] /\ parts[p] = codes[p] + f[p] BY <2>5, <2>6, <2>7, <2>10
    <3> HIDE DEF sub, open, parts, codes
    <3> QED BY <3>1, <2>1, <2>2
  <2> QED BY <2>9, <2>10
<1>4. S!Expected(caps, S!Filled(e, f)) = IF top > total THEN S!Min({whole, total}) ELSE S!Min({whole})
  <2> DEFINE ends == {c[2] : c \in {d \in caps : d[1] = "Total"}}
  <2>1. \A p \in L : p # "Total" BY DEF S!Limited
  <2>2. {d \in caps : d[1] = "Total"} = IF top > total THEN {<<"Total", total>>} ELSE {}
    <3> HIDE DEF total, top, codes, L
    <3> QED BY <2>1
  <2>3. ends = IF top > total THEN {total} ELSE {}
    <3> HIDE DEF caps, total, top
    <3>1. CASE top > total
      <4> DEFINE X == {d \in caps : d[1] = "Total"}
      <4>1. X = {<<"Total", total>>} BY <3>1, <2>2
      <4>2. ends = {c[2] : c \in X} OBVIOUS
      <4> HIDE DEF X, ends
      <4> QED BY <4>1, <4>2, <3>1
    <3>2. CASE ~ (top > total)
      <4>1. {d \in caps : d[1] = "Total"} = {} BY <3>2, <2>2
      <4> QED BY <4>1, <3>2
    <3> QED BY <3>1, <3>2
  <2>4. S!Expected(caps, S!Filled(e, f)) = S!Min({whole} \cup ends) BY DEF S!Expected
  <2> HIDE DEF ends, whole, total, top, caps
  <2> QED BY <2>3, <2>4
<1>5. /\ S!Sum(sub) \in Int /\ S!Sum(open) \in Int /\ whole \in Int /\ top \in Int
      /\ S!Sum(sub) <= whole /\ whole <= top
  <2> HIDE DEF sub, open, parts
  <2> QED BY <1>3 DEF S!Sum, S!Parts
<1>6. S!Min({whole}) = whole
  <2>1. S!Min({whole, whole}) = whole
    <3> HIDE DEF whole
    <3> QED BY <1>5, LessOfTwo
  <2> QED BY <2>1
<1> HIDE DEF sub, open, parts, caps, total, top, whole, s
<1>7. /\ S!Min({S!Sum(sub), total}) = IF S!Sum(sub) <= total THEN S!Sum(sub) ELSE total
      /\ S!Min({top, total}) = IF top <= total THEN top ELSE total
      /\ S!Min({whole, total}) = IF whole <= total THEN whole ELSE total
  BY <1>2, <1>5, LessOfTwo
<1>8. S!Expected(s.caps, S!Filled(e, f)) \in s.min .. s.max
  BY <1>1, <1>2, <1>4, <1>5, <1>6, <1>7
<1> QED BY <1>8 DEF s

(* ScoreBracket: for every vault and every way to fill the rows left to the *)
(* model, the total that audit_ledger.validate_report expects lies in the   *)
(* range that audit_evidence.apply_caps printed before.                     *)
THEOREM ScoreBracketAlways == VaultSpec => []ScoreBracket
<1> DEFINE Side == fill \in S!Fillable
<1>1. VaultInit => Side
  BY JudgedIs DEF VaultInit, S!Init, S!Nothing, S!Fillable, S!Parts
<1>2. ASSUME Side, [VaultNext]_all PROVE Side'
  BY <1>2, FillAssumption DEF VaultNext, all, score, S!Next, S!Fill
<1>3. Side => ScoreBracket BY Bracket DEF ScoreBracket, S!ScoreBracket
<1> QED BY <1>1, <1>2, <1>3, PTL DEF VaultSpec

-----------------------------------------------------------------------------
(* Travel notices.                                                          *)
(* No run is None.                                                          *)
RunFields == {"notices", "owes", "asks", "printed", "ledger"}
NoneIsNoRun == DOMAIN None # RunFields

Times(key) == IF key \in DOMAIN given THEN given[key] ELSE 0

(* What is behind every view of its kind of briefing, and what a ledger     *)
(* holds back.                                                              *)
Past(key) == \A v \in View[key[1]] : key[4] - day < v
Kept(l, key) == T!already_shown(l, key) \/ Past(key)

TravelTypes ==
  /\ day \in Int /\ faults \in Nat
  /\ cal \in [Flights \cup Away -> Int \cup {None}]
  /\ given \in [DOMAIN given -> Nat]
  /\ \A key \in DOMAIN given : key[4] \in Int /\ View[key[1]] \subseteq Int
  /\ DOMAIN briefing = Briefings

(* The rows of a ledger: of events then in view.                            *)
InView(l) ==
  \A x \in l.shown : /\ x.key[1] \in Briefings /\ x.key[4] \in Int /\ x.date \in Int
                     /\ x.key[4] - x.date \in View[x.key[1]]

(* What one ledger still allows: a notice it does not hold back was given   *)
(* at most as often as there were faults.                                   *)
Allows(l) == \A key \in DOMAIN given : Kept(l, key) \/ given[key] <= faults
AtMost == \A key \in DOMAIN given : given[key] <= 1 + faults

Alone == \A b, c \in Briefings : briefing[b] # None /\ briefing[c] # None => b = c

Said == \A x \in ledger.shown : x.key \in DOMAIN given

InRun(r) ==
  /\ DOMAIN r = RunFields
  /\ InView(r.ledger) /\ Allows(r.ledger)
  /\ r.printed \in BOOLEAN
  /\ \A key \in r.notices : /\ key[4] \in Int /\ View[key[1]] \subseteq Int
                            /\ T!already_shown(r.ledger, key)
                            /\ r.printed \/ Times(key) <= faults
  /\ \A x \in r.ledger.shown : x.key \in DOMAIN given \cup r.notices
  /\ r.owes \subseteq DOMAIN given \cup r.notices
  /\ r.printed => r.notices \subseteq DOMAIN given

(* Between the printing and the write the file is behind.                   *)
Behind == \E b \in Briefings : briefing[b] # None /\ briefing[b].printed /\ briefing[b].notices # {}

TravelInv ==
  /\ TravelTypes /\ InView(ledger) /\ AtMost /\ Alone /\ Said
  /\ Behind \/ Allows(ledger)
  /\ owed \subseteq DOMAIN given
  /\ \A b \in Briefings : briefing[b] # None => InRun(briefing[b])

LEMMA TravelInit == ASSUME Retained PROVE T!Init => TravelInv
<1> SUFFICES ASSUME T!Init PROVE TravelInv OBVIOUS
<1>1. given = [key \in {} |-> 0] /\ DOMAIN given = {} BY DEF T!Init
<1>2. ledger.shown = {} BY DEF T!Init, T!Empty
<1>3. TravelTypes
  <2>1. given \in [DOMAIN given -> Nat] BY <1>1
  <2> QED BY <2>1, <1>1 DEF T!Init, TravelTypes, Retained
<1>4. InView(ledger) /\ Said BY <1>2 DEF InView, Said
<1>5. Allows(ledger) BY <1>1 DEF Allows
<1>6. AtMost /\ owed \subseteq DOMAIN given BY <1>1 DEF AtMost, T!Init
<1>7. \A b \in Briefings : briefing[b] = None BY DEF T!Init
<1> QED BY <1>3, <1>4, <1>5, <1>6, <1>7 DEF TravelInv, Alone

(* Notices are of events in view.                                           *)
LEMMA NoticesInView ==
  ASSUME TravelTypes, NEW b \in Briefings, NEW mail, NEW skies, NEW key \in T!Notices(b, mail, skies)
  PROVE  key[1] = b /\ key[4] \in Int /\ key[4] - day \in View[b]
<1>1. ASSUME NEW kind, NEW e \in T!Sees(b), key = T!notice_key(b, kind, e)
      PROVE  key[1] = b /\ key[4] \in Int /\ key[4] - day \in View[b]
  <2>1. cal[e] \in Int /\ cal[e] - day \in View[b] BY DEF T!Sees, T!Ahead, TravelTypes
  <2> QED BY <2>1, <1>1 DEF T!notice_key
<1>2. CASE key \in {T!notice_key(b, "departure", f) : f \in T!Departing(b)}
  BY <1>1, <1>2 DEF T!Departing, T!detect_trips
<1>3. CASE key \in {T!notice_key(b, "weather", f) : f \in T!Forecast(b, mail) \cap skies}
  BY <1>1, <1>3 DEF T!Forecast, T!detect_trips
<1>4. CASE key \in {T!notice_key(b, "flights", f) : f \in T!Unbooked(b, mail)}
  BY <1>1, <1>4 DEF T!Unbooked, T!detect_trips
<1>5. CASE key \in {T!notice_key(b, T!Stage(a), a) : a \in {x \in T!detect_away(b, mail) : T!Ahead(x) >= Lead[b].flights}}
  <2>1. PICK a \in T!detect_away(b, mail) : key = T!notice_key(b, T!Stage(a), a) BY <1>5
  <2> QED BY <2>1, <1>1 DEF T!detect_away
<1> QED BY <1>2, <1>3, <1>4, <1>5 DEF T!Notices

(* A row is pruned only once nobody can see its event any more.             *)
LEMMA PrunedIsPast ==
  ASSUME Retained, day \in Int, NEW l, InView(l)
  PROVE  /\ \A key : Kept(l, key) => Kept(T!prune_ledger(l), key)
         /\ T!prune_ledger(l).shown \subseteq l.shown
<1>1. T!prune_ledger(l).shown = {x \in l.shown : x.date >= day - TravelKept} BY DEF T!prune_ledger
<1>2. ASSUME NEW x \in l.shown, NEW key, x.key = key, ~ (x.date >= day - TravelKept) PROVE Past(key)
  <2>1. x.key[1] \in Briefings /\ x.key[4] \in Int /\ x.date \in Int /\ x.key[4] - x.date \in View[x.key[1]]
    BY DEF InView
  <2> SUFFICES ASSUME NEW v \in View[key[1]] PROVE key[4] - day < v BY DEF Past
  <2>2. v \in Int /\ (key[4] - x.date) - v <= TravelKept BY <2>1, <1>2 DEF Retained
  <2> QED BY <2>1, <2>2, <1>2 DEF Retained
<1>3. \A key : Kept(l, key) => Kept(T!prune_ledger(l), key) BY <1>1, <1>2 DEF Kept, T!already_shown
<1> QED BY <1>1, <1>3

(* A larger ledger holds back more.                                         *)
LEMMA LargerLedger ==
  ASSUME NEW l, NEW m, l.shown \subseteq m.shown
  PROVE  (\A key : Kept(l, key) => Kept(m, key)) /\ (Allows(l) => Allows(m))
BY DEF Kept, T!already_shown, Allows

(* A run that met an error has nothing in hand but the ledger it read.      *)
LEMMA CollectNothing ==
  ASSUME Retained, TravelInv, NEW b \in Briefings, NEW l \in {ledger, T!Empty}, T!Fault,
         \A c \in Briefings : briefing[c] = None, briefing' = [briefing EXCEPT ![b] = T!Nothing(l)],
         UNCHANGED <<day, cal, ledger, given, owed>>
  PROVE  TravelInv'
<1> USE DEF TravelInv
<1>1. faults' = faults + 1 /\ faults \in Nat BY DEF T!Fault, TravelTypes
<1>2. \A key \in DOMAIN given : given[key] <= faults' BY <1>1 DEF AtMost
<1>3. InView(l) /\ \A x \in l.shown : x.key \in DOMAIN given
  BY DEF InView, Said, T!Empty
<1>4. PICK r : r = T!Nothing(l) OBVIOUS
<1>5. /\ r.notices = {} /\ r.owes = {} /\ r.printed = FALSE /\ r.ledger = l /\ DOMAIN r = RunFields
  BY <1>4 DEF T!Nothing, RunFields
<1>6. \A k : Allows(k)' BY <1>2 DEF Allows
<1>7. InRun(r)'
  <2>1. InView(r.ledger)' BY <1>3, <1>5 DEF InView
  <2> QED BY <2>1, <1>3, <1>5, <1>6 DEF InRun, T!already_shown, Times, InView, Allows, Kept, Past
<1>8. briefing' = [briefing EXCEPT ![b] = r] /\ DOMAIN briefing = Briefings BY <1>4 DEF TravelTypes
<1>9. \A c \in Briefings : briefing'[c] # None => c = b /\ briefing'[c] = r BY <1>8
<1>10. \A c \in Briefings : (briefing[c] # None => InRun(briefing[c]))'
  <2> SUFFICES ASSUME NEW c \in Briefings, (briefing[c] # None)' PROVE InRun(briefing[c])' OBVIOUS
  <2>1. briefing'[c] = r BY <1>9
  <2> QED BY <2>1, <1>7 DEF InRun, InView, Allows, Kept, Past, Times, T!already_shown
<1>11. Allows(ledger)' BY <1>2 DEF Allows
<1>12. TravelTypes' BY <1>1, <1>8 DEF TravelTypes
<1>13. InView(ledger)' /\ AtMost' /\ Said' BY <1>1 DEF InView, AtMost, Said, TravelTypes
<1>14. Alone' BY <1>9 DEF Alone
<1> QED BY <1>10, <1>11, <1>12, <1>13, <1>14

LEMMA CollectKeeps ==
  ASSUME Retained, ~ Overlap, TravelInv, NEW b \in Briefings, T!collect(b)
  PROVE  TravelInv'
<1> USE DEF TravelInv
<1>0. \A c \in Briefings : briefing[c] = None BY DEF T!collect
<1>c. PICK l \in {ledger, T!Empty} : \E mail, skies :
        \/ /\ IF l = ledger THEN UNCHANGED faults ELSE T!Fault
           /\ briefing' = [briefing EXCEPT ![b] = T!build_notices(b, T!prune_ledger(l), mail, skies)]
        \/ T!Fault /\ briefing' = [briefing EXCEPT ![b] = T!Nothing(l)]
  BY DEF T!collect
<1>e. CASE T!Fault /\ briefing' = [briefing EXCEPT ![b] = T!Nothing(l)]
  BY <1>0, <1>e, CollectNothing DEF T!collect
<1> SUFFICES ASSUME \E mail, skies :
        /\ IF l = ledger THEN UNCHANGED faults ELSE T!Fault
        /\ briefing' = [briefing EXCEPT ![b] = T!build_notices(b, T!prune_ledger(l), mail, skies)]
             PROVE  TravelInv'
  BY <1>c, <1>e
<1>1. PICK mail, skies :
        /\ IF l = ledger THEN UNCHANGED faults ELSE T!Fault
        /\ briefing' = [briefing EXCEPT ![b] = T!build_notices(b, T!prune_ledger(l), mail, skies)]
  OBVIOUS
<1>2. UNCHANGED <<day, cal, ledger, given, owed>> BY DEF T!collect
<1>a. PICK p : p = T!prune_ledger(l) OBVIOUS
<1>b. PICK new : new = {key \in T!Notices(b, mail, skies) : ~ T!already_shown(p, key)} OBVIOUS
<1> DEFINE rows == {[key |-> key, date |-> day] : key \in new}
<1>d. PICK r : r = T!build_notices(b, p, mail, skies) OBVIOUS
<1>3. /\ r.notices = new /\ r.printed = FALSE /\ r.ledger.shown = p.shown \cup rows
      /\ r.owes = {T!notice_key(b, "departure", f) : f \in T!Departing(b)}
      /\ DOMAIN r = RunFields
  BY <1>b, <1>d DEF T!build_notices, RunFields
<1> HIDE DEF rows
<1>4. r.owes \subseteq T!Notices(b, mail, skies) BY <1>3 DEF T!Notices
<1>5. InView(l) /\ Allows(l)' /\ \A x \in l.shown : x.key \in DOMAIN given
  <2>1. CASE l = ledger
    <3>1. Allows(ledger) BY <1>0 DEF Behind
    <3>2. faults' = faults /\ given' = given /\ day' = day BY <2>1, <1>1, <1>2
    <3> QED BY <2>1, <3>1, <3>2 DEF Said, Allows, Kept, Past, T!already_shown
  <2>2. CASE l # ledger
    <3>1. l.shown = {} BY <2>2 DEF T!Empty
    <3>2. faults' = faults + 1 BY <2>2, <1>1 DEF T!Fault
    <3>3. \A key \in DOMAIN given : given[key] <= faults' BY <3>2 DEF AtMost, TravelTypes
    <3> QED BY <3>1, <3>3, <1>2 DEF InView, Allows
  <2> QED BY <2>1, <2>2
<1>6. faults' \in Nat /\ faults' >= faults BY <1>1 DEF TravelTypes, T!Fault
<1>7. /\ \A key : Kept(l, key) => Kept(p, key)
      /\ p.shown \subseteq l.shown
  <2>1. day \in Int BY DEF TravelTypes
  <2> QED BY <2>1, <1>5, <1>a, PrunedIsPast
<1>8. Allows(p)' BY <1>5, <1>7, <1>2 DEF Allows, Kept, Past, T!already_shown
<1>9. \A key \in T!Notices(b, mail, skies) : key[1] = b /\ key[4] \in Int /\ key[4] - day \in View[b]
  BY NoticesInView
<1>10. View[b] \subseteq Int /\ day \in Int BY DEF Retained, TravelTypes
<1>11. InView(r.ledger)
  <2>1. \A x \in rows : x.key \in new /\ x.date = day BY DEF rows
  <2>2. new \subseteq T!Notices(b, mail, skies) BY <1>b
  <2> QED BY <1>3, <1>5, <1>7, <1>9, <1>10, <2>1, <2>2 DEF InView
<1>12. Allows(r.ledger)' 
  <2>1. \A key : T!already_shown(p, key) => T!already_shown(r.ledger, key) BY <1>3 DEF T!already_shown
  <2> QED BY <2>1, <1>8, <1>2 DEF Allows, Kept, Past, T!already_shown
<1>13. \A key \in new : T!already_shown(r.ledger, key)
  <2> SUFFICES ASSUME NEW key \in new PROVE T!already_shown(r.ledger, key) OBVIOUS
  <2>1. [key |-> key, date |-> day] \in r.ledger.shown BY <1>3 DEF rows
  <2> QED BY <2>1 DEF T!already_shown
<1>14. \A key \in new : Times(key)' <= faults'
  <2> SUFFICES ASSUME NEW key \in new PROVE Times(key)' <= faults' OBVIOUS
  <2>1. key \in T!Notices(b, mail, skies) /\ ~ T!already_shown(p, key) BY <1>b
  <2>a. key[1] = b /\ key[4] - day \in View[b] /\ key[4] - day \in Int BY <2>1, <1>9, <1>10
  <2>2. ~ Past(key) BY <2>a DEF Past
  <2>3. ~ Kept(p, key)' BY <2>1, <2>2, <1>2 DEF Kept, Past, T!already_shown
  <2> QED BY <2>3, <1>8, <1>6, <1>2 DEF Allows, Times
<1>15. \A x \in r.ledger.shown : x.key \in DOMAIN given \cup new
  <2>1. \A x \in rows : x.key \in new BY DEF rows
  <2> QED BY <1>3, <1>5, <1>7, <2>1
<1>16. r.owes \subseteq DOMAIN given \cup new
  <2> SUFFICES ASSUME NEW key \in r.owes, key \notin new PROVE key \in DOMAIN given OBVIOUS
  <2>1. T!already_shown(p, key) BY <1>4, <1>b
  <2> QED BY <2>1, <1>5, <1>7 DEF T!already_shown
<1>17. \A key \in new : key[4] \in Int /\ View[key[1]] \subseteq Int BY <1>9, <1>10, <1>b
<1>18. InRun(r)'
  <2>1. InView(r.ledger)' BY <1>11, <1>2 DEF InView
  <2> QED BY <2>1, <1>12, <1>3, <1>13, <1>14, <1>15, <1>16, <1>17, <1>2 DEF InRun, T!already_shown, Allows, Kept, Past, Times, InView
<1>19. briefing' = [briefing EXCEPT ![b] = r] BY <1>1, <1>a, <1>d
<1>20. DOMAIN briefing = Briefings BY DEF TravelTypes
<1>21. \A c \in Briefings : briefing'[c] # None => c = b /\ briefing'[c] = r BY <1>0, <1>19, <1>20
<1>22. \A c \in Briefings : (briefing[c] # None => InRun(briefing[c]))'
  <2> SUFFICES ASSUME NEW c \in Briefings, (briefing[c] # None)' PROVE InRun(briefing[c])' OBVIOUS
  <2>1. briefing'[c] = r BY <1>21
  <2> QED BY <2>1, <1>18, <1>2 DEF InRun, InView, Allows, Kept, Past, Times, T!already_shown
<1>23. Allows(ledger)'
  <2>1. Allows(ledger) BY <1>0 DEF Behind
  <2> QED BY <2>1, <1>6, <1>2 DEF Allows, Kept, Past, T!already_shown, TravelTypes
<1>24. TravelTypes' BY <1>2, <1>6, <1>19 DEF TravelTypes
<1>25. InView(ledger)' /\ AtMost' /\ Said' BY <1>2, <1>6 DEF InView, AtMost, Said, TravelTypes
<1>26. Alone' BY <1>21 DEF Alone
<1> QED BY <1>22, <1>23, <1>24, <1>25, <1>26, <1>2

LEMMA DayKeeps == ASSUME TravelInv, T!NextDay PROVE TravelInv'
<1> USE DEF TravelInv
<1>1. day' = day + 1 /\ day \in Int BY DEF T!NextDay, TravelTypes
<1>2. UNCHANGED <<cal, ledger, briefing, given, owed, faults>> BY DEF T!NextDay
<1>3. ASSUME NEW l, Allows(l) PROVE Allows(l)'
  <2> SUFFICES ASSUME NEW key \in DOMAIN given, Past(key) PROVE Past(key)'
    BY <1>2, <1>3 DEF Allows, Kept, T!already_shown
  <2>1. key[4] \in Int /\ View[key[1]] \subseteq Int BY DEF TravelTypes
  <2> QED BY <2>1, <1>1 DEF Past
<1>4. ASSUME NEW b \in Briefings, briefing[b] # None PROVE InRun(briefing[b])'
  <2>1. PICK r : r = briefing[b] OBVIOUS
  <2>2. InRun(r) BY <1>4, <2>1
  <2>3. Allows(r.ledger)' BY <1>3, <2>2 DEF InRun
  <2>4. InRun(r)' BY <2>2, <2>3, <1>2 DEF InRun, InView, Times, T!already_shown
  <2> QED BY <2>1, <2>4, <1>2 DEF InRun, InView, Allows, Kept, Past, Times, T!already_shown
<1>5. (Behind \/ Allows(ledger))'
  <2>1. PICK l : l = ledger OBVIOUS
  <2>2. Behind \/ Allows(l)' BY <2>1, <1>3
  <2> QED BY <2>1, <2>2, <1>2 DEF Behind, Allows, Kept, Past, T!already_shown
<1>6. TravelTypes' BY <1>1, <1>2 DEF TravelTypes
<1>7. InView(ledger)' /\ AtMost' /\ Said' /\ Alone' BY <1>2 DEF InView, AtMost, Said, Alone
<1> QED BY <1>2, <1>4, <1>5, <1>6, <1>7

LEMMA MoveKeeps == ASSUME TravelInv, T!Moves PROVE TravelInv'
<1> USE DEF TravelInv
<1>1. UNCHANGED <<day, ledger, briefing, given, owed, faults>> BY DEF T!Moves
<1>2. PICK e \in DOMAIN cal : cal[e] # None /\ (cal' = [cal EXCEPT ![e] = @ + 1] \/ cal' = [cal EXCEPT ![e] = None])
  BY DEF T!Moves
<1>3. TravelTypes' 
  <2>1. cal \in [Flights \cup Away -> Int \cup {None}] /\ cal[e] \in Int BY <1>2 DEF TravelTypes
  <2>2. cal' \in [Flights \cup Away -> Int \cup {None}] BY <2>1, <1>2
  <2> QED BY <2>2, <1>1 DEF TravelTypes
<1>4. ASSUME NEW b \in Briefings, briefing[b] # None PROVE InRun(briefing[b])'
  BY <1>1, <1>4 DEF InRun, InView, Allows, Kept, Past, Times, T!already_shown
<1>5. (Behind \/ Allows(ledger))' BY <1>1 DEF Behind, Allows, Kept, Past, T!already_shown
<1>7. InView(ledger)' /\ AtMost' /\ Said' /\ Alone' BY <1>1 DEF InView, AtMost, Said, Alone
<1> QED BY <1>1, <1>3, <1>4, <1>5, <1>7

LEMMA PrintKeeps == ASSUME NoneIsNoRun, TravelInv, NEW b \in Briefings, T!Prints(b) PROVE TravelInv'
<1> USE DEF TravelInv
<1>1. PICK r : r = briefing[b] OBVIOUS
<1>2. r # None /\ ~ r.printed /\ InRun(r) BY <1>1 DEF T!Prints
<1>3. UNCHANGED <<day, cal, ledger, faults>> /\ owed' = owed \cup r.owes BY <1>1 DEF T!Prints
<1>4. given' = [key \in DOMAIN given \cup r.notices |-> Times(key) + (IF key \in r.notices THEN 1 ELSE 0)]
  BY <1>1 DEF T!Prints, Times
<1>5. PICK q : q = [r EXCEPT !.printed = TRUE] OBVIOUS
<1>6. briefing' = [briefing EXCEPT ![b] = q] /\ DOMAIN briefing = Briefings
  BY <1>1, <1>5 DEF T!Prints, TravelTypes
<1>7. q.notices = r.notices /\ q.owes = r.owes /\ q.ledger = r.ledger /\ DOMAIN q = RunFields
  BY <1>2, <1>5 DEF InRun
<1>8. q.printed = TRUE BY <1>2, <1>5 DEF InRun, RunFields
<1>9. \A key : Times(key) \in Nat BY DEF Times, TravelTypes
<1>10. DOMAIN given' = DOMAIN given \cup r.notices BY <1>4
<1>11. \A key \in DOMAIN given' : given'[key] \in Nat /\ given'[key] <= 1 + faults
                                  /\ (key \notin r.notices => key \in DOMAIN given /\ given'[key] = given[key])
  <2> SUFFICES ASSUME NEW key \in DOMAIN given'
               PROVE /\ given'[key] \in Nat /\ given'[key] <= 1 + faults
                     /\ (key \notin r.notices => key \in DOMAIN given /\ given'[key] = given[key])
    OBVIOUS
  <2>1. CASE key \in r.notices
    <3>1. Times(key) <= faults BY <2>1, <1>2 DEF InRun
    <3>2. given'[key] = Times(key) + 1 BY <2>1, <1>4
    <3> QED BY <2>1, <3>1, <3>2, <1>9 DEF TravelTypes
  <2>2. CASE key \notin r.notices
    <3>1. key \in DOMAIN given BY <2>2, <1>10
    <3>2. given'[key] = Times(key) + 0 BY <2>2, <1>4, <1>10
    <3>3. Times(key) = given[key] BY <3>1 DEF Times
    <3> QED BY <2>2, <3>1, <3>2, <3>3, <1>9 DEF AtMost
  <2> QED BY <2>1, <2>2
<1>12. \A key \in DOMAIN given' : key[4] \in Int /\ View[key[1]] \subseteq Int
  BY <1>2, <1>10 DEF TravelTypes, InRun
<1>13. TravelTypes'
  <2>1. given' \in [DOMAIN given' -> Nat] BY <1>4, <1>10, <1>11
  <2>2. DOMAIN briefing' = Briefings BY <1>6
  <2> QED BY <2>1, <2>2, <1>3, <1>12 DEF TravelTypes
<1>14. \A l : Allows(l) /\ (\A key \in r.notices : T!already_shown(l, key)) => Allows(l)'
  BY <1>3, <1>11 DEF Allows, Kept, Past, T!already_shown
<1>15. InRun(q)'
  <2>1. Allows(r.ledger)' BY <1>2, <1>14 DEF InRun
  <2> QED BY <2>1, <1>2, <1>3, <1>7, <1>8, <1>10, <1>12 DEF InRun, InView, T!already_shown, Allows, Kept, Past
<1>16. \A c \in Briefings : (briefing[c] # None => InRun(briefing[c]))'
  <2> SUFFICES ASSUME NEW c \in Briefings, (briefing[c] # None)' PROVE InRun(briefing[c])' OBVIOUS
  <2>1. c = b BY <1>1, <1>2, <1>6 DEF Alone
  <2>2. briefing'[c] = q BY <2>1, <1>6
  <2> QED BY <2>2, <1>15 DEF InRun, InView, Allows, Kept, Past, Times, T!already_shown
<1>17. (Behind \/ Allows(ledger))'
  <2>1. CASE r.notices = {}
    <3>1. ~ Behind BY <2>1, <1>1, <1>2 DEF Behind, Alone
    <3>2. PICK l : l = ledger OBVIOUS
    <3>3. Allows(l)' BY <2>1, <3>1, <3>2, <1>14
    <3> QED BY <3>2, <3>3, <1>3 DEF Allows, Kept, Past, T!already_shown
  <2>2. CASE r.notices # {}
    <3>1. briefing'[b] = q BY <1>6
    <3>2. q # None BY <1>7 DEF NoneIsNoRun
    <3> QED BY <2>2, <3>1, <3>2, <1>7, <1>8 DEF Behind
  <2> QED BY <2>1, <2>2
<1>18. AtMost' BY <1>3, <1>11 DEF AtMost
<1>19. Alone' BY <1>1, <1>2, <1>6 DEF Alone
<1>20. InView(ledger)' /\ Said' BY <1>3, <1>10 DEF InView, Said
<1>21. (owed \subseteq DOMAIN given)' BY <1>2, <1>3, <1>10 DEF InRun
<1> QED BY <1>13, <1>16, <1>17, <1>18, <1>19, <1>20, <1>21

(* A run ends: nothing is left to print, and the file it leaves is either   *)
(* allowed, or its loss was a fault.                                        *)
LEMMA EndKeeps ==
  ASSUME TravelInv, NEW b \in Briefings, briefing[b] # None, DOMAIN briefing = Briefings,
         briefing' = [briefing EXCEPT ![b] = None], UNCHANGED <<day, cal, given, owed>>,
         faults' \in Nat, faults' >= faults,
         InView(ledger)', Said', Allows(ledger)'
  PROVE  TravelInv'
<1> USE DEF TravelInv
<1>1. \A c \in Briefings : briefing'[c] = None BY DEF Alone
<1>2. TravelTypes' BY DEF TravelTypes
<1>3. AtMost' BY DEF AtMost, TravelTypes
<1>4. Alone' BY <1>1 DEF Alone
<1> QED BY <1>1, <1>2, <1>3, <1>4

LEMMA FaultAllows ==
  ASSUME TravelInv, T!Fault, UNCHANGED <<day, given>>, NEW l
  PROVE  Allows(l)' /\ faults' \in Nat /\ faults' >= faults
<1>1. faults' = faults + 1 /\ faults \in Nat BY DEF T!Fault, TravelInv, TravelTypes
<1>2. \A key \in DOMAIN given : given[key] <= faults' BY <1>1 DEF TravelInv, AtMost
<1> QED BY <1>1, <1>2 DEF Allows

LEMMA SaveKeeps == ASSUME TravelInv, NEW b \in Briefings, T!save_ledger(b) PROVE TravelInv'
<1> USE DEF TravelInv
<1>1. PICK r : r = briefing[b] OBVIOUS
<1>2. r # None /\ r.printed /\ InRun(r) BY <1>1 DEF T!save_ledger
<1>3. UNCHANGED <<day, cal, given, owed>> /\ briefing' = [briefing EXCEPT ![b] = None] /\ DOMAIN briefing = Briefings
  BY DEF T!save_ledger, TravelTypes
<1>4. CASE ledger' = ledger /\ faults' = faults /\ r.notices = {}
  <2>1. ~ Behind BY <1>4, <1>1, <1>2 DEF Behind, Alone
  <2>2. Allows(ledger)' BY <2>1, <1>3, <1>4 DEF Allows, Kept, Past, T!already_shown
  <2>3. InView(ledger)' /\ Said' BY <1>3, <1>4 DEF InView, Said
  <2>4. faults' \in Nat /\ faults' >= faults BY <1>4 DEF TravelTypes
  <2> QED BY <2>2, <2>3, <2>4, <1>1, <1>2, <1>3, EndKeeps
<1>5. CASE ledger' = r.ledger /\ faults' = faults
  <2>1. PICK l : l = r.ledger OBVIOUS
  <2>2. Allows(l) /\ InView(l) /\ \A x \in l.shown : x.key \in DOMAIN given BY <2>1, <1>2 DEF InRun
  <2>3. Allows(ledger)' BY <2>1, <2>2, <1>3, <1>5 DEF Allows, Kept, Past, T!already_shown
  <2>4. InView(ledger)' /\ Said' BY <2>1, <2>2, <1>3, <1>5 DEF InView, Said
  <2>5. faults' \in Nat /\ faults' >= faults BY <1>5 DEF TravelTypes
  <2> QED BY <2>3, <2>4, <2>5, <1>1, <1>2, <1>3, EndKeeps
<1>6. CASE ledger' = ledger /\ T!Fault
  <2>1. PICK l : l = ledger OBVIOUS
  <2>2. Allows(l)' /\ faults' \in Nat /\ faults' >= faults BY <1>3, <1>6, FaultAllows
  <2>3. Allows(ledger)' BY <2>1, <2>2, <1>6, <1>3 DEF Allows, Kept, Past, T!already_shown
  <2>4. InView(ledger)' /\ Said' BY <1>3, <1>6 DEF InView, Said
  <2> QED BY <2>2, <2>3, <2>4, <1>1, <1>2, <1>3, EndKeeps
<1> QED BY <1>4, <1>5, <1>6, <1>1 DEF T!save_ledger

LEMMA DeathKeeps == ASSUME TravelInv, NEW b \in Briefings, T!Dies(b) PROVE TravelInv'
<1> USE DEF TravelInv
<1>1. UNCHANGED <<day, cal, given, owed>> /\ briefing' = [briefing EXCEPT ![b] = None] /\ DOMAIN briefing = Briefings
      /\ briefing[b] # None /\ T!Fault
  BY DEF T!Dies, TravelTypes
<1>2. PICK l : l = ledger' OBVIOUS
<1>3. Allows(l)' /\ faults' \in Nat /\ faults' >= faults BY <1>1, FaultAllows
<1>4. Allows(ledger)' BY <1>2, <1>3, <1>1 DEF Allows, Kept, Past, T!already_shown
<1>5. CASE ledger' = ledger
  <2>1. InView(ledger)' /\ Said' BY <1>1, <1>5 DEF InView, Said
  <2> QED BY <2>1, <1>1, <1>3, <1>4, EndKeeps
<1>6. CASE ledger' = T!Empty
  <2>1. ledger'.shown = {} BY <1>6 DEF T!Empty
  <2>2. InView(ledger)' /\ Said' BY <2>1 DEF InView, Said
  <2> QED BY <2>2, <1>1, <1>3, <1>4, EndKeeps
<1> QED BY <1>5, <1>6 DEF T!Dies

LEMMA TravelStep ==
  ASSUME Retained, NoneIsNoRun, ~ Overlap, TravelInv, T!Next PROVE TravelInv'
BY CollectKeeps, DayKeeps, MoveKeeps, PrintKeeps, SaveKeeps, DeathKeeps DEF T!Next

(* The notices of a behaviour about something else are none.                *)
TravelOrQuiet ==
  /\ job = "travel" => TravelInv
  /\ job # "travel" => DOMAIN given = {} /\ owed = {}

(* Told: for any flights, stays, leads and views of the briefings, while    *)
(* rows are kept at least as long as an event stays in a view and briefings *)
(* run one after another, each notice is printed at most once and once more *)
(* per failed read, failed write or death, and what a briefing owes of      *)
(* departures was printed (travel.collect, save_ledger).                    *)
THEOREM ToldAlways == ASSUME NoneIsNoRun, ~ Overlap PROVE VaultSpec => []Told
<1>1. VaultInit => TravelOrQuiet
  <2> SUFFICES ASSUME VaultInit PROVE TravelOrQuiet OBVIOUS
  <2>1. T!Init /\ given = [key \in {} |-> 0] /\ owed = {} BY DEF VaultInit, T!Init
  <2> QED BY <2>1, TravelInit, TravelAssumption DEF TravelOrQuiet
<1>2. TravelOrQuiet /\ [VaultNext]_all => TravelOrQuiet'
  <2> SUFFICES ASSUME TravelOrQuiet, [VaultNext]_all PROVE TravelOrQuiet' OBVIOUS
  <2>1. CASE job = "travel" /\ T!Next /\ UNCHANGED job
    BY <2>1, TravelStep, TravelAssumption DEF TravelOrQuiet
  <2>2. CASE job # "travel" /\ UNCHANGED job /\ UNCHANGED travel
    BY <2>2 DEF TravelOrQuiet, travel
  <2>3. CASE UNCHANGED all
    <3>1. UNCHANGED <<job, day, faults, cal, ledger, briefing, given, owed>> BY <2>3 DEF all, travel
    <3>2. TravelInv => TravelInv'
      BY <3>1 DEF TravelInv, TravelTypes, InView, AtMost, Alone, Said, Behind, Allows, Kept, Past, T!already_shown, InRun, Times
    <3> QED BY <3>1, <3>2 DEF TravelOrQuiet
  <2> QED BY <2>1, <2>2, <2>3 DEF VaultNext, all
<1>3. TravelOrQuiet => Told BY DEF TravelOrQuiet, TravelInv, AtMost, Told, T!Told
<1> QED BY <1>1, <1>2, <1>3, PTL DEF VaultSpec
-----------------------------------------------------------------------------
(* The check-off, for any to-dos, twins, evidence and days: what the user   *)
(* put back a run holds pinned, does not choose and does not tick.          *)
Surface == {"hot", "page", "week"}
Safe == back \ raced

Records(s) ==
  /\ s = [i \in Todos |-> s[i]]
  /\ \A i \in Todos : s[i] = [judged |-> s[i].judged, hash |-> s[i].hash, pinned_open |-> s[i].pinned_open]
Pinned(s) == \A i \in Safe : s[i].pinned_open = TRUE

Underway(r) ==
  /\ r = [at |-> r.at, today |-> r.today, state |-> r.state, items |-> r.items, seen |-> r.seen,
          degraded |-> r.degraded, queue |-> r.queue, judged |-> r.judged, closes |-> r.closes, todo |-> r.todo,
          guard |-> r.guard, marked |-> r.marked, shots |-> r.shots]
  /\ r.items \subseteq Todos /\ r.queue \subseteq Todos
  /\ r.at # "latest" => Records(r.state) /\ Pinned(r.state)
  /\ r.closes \cap Safe = {}
  /\ r.at = "marking" => r.todo \in Seq(r.closes \X Surface)

DoneInv ==
  /\ hand = [i \in Todos |-> hand[i]] /\ back \subseteq Todos
  /\ Records(state) /\ Pinned(state)
  /\ checkOff # None => Underway(checkOff)
  /\ PutBackStays

LEMMA DoneInit == ASSUME D!Init PROVE DoneInv
<1>1. /\ state = [i \in Todos |-> [judged |-> None, hash |-> {}, pinned_open |-> FALSE]]
      /\ hand = [i \in Todos |-> "nobody"] /\ back = {} /\ checkOff = None
  BY DEF D!Init
<1>2. Records(state)
  BY <1>1 DEF Records
<1>3. Pinned(state) /\ PutBackStays /\ back \subseteq Todos
  BY <1>1 DEF Pinned, Safe, PutBackStays, D!PutBackStays
<1> QED
  BY <1>1, <1>2, <1>3 DEF DoneInv

(* The order in which a run writes what it chose.                           *)
LEMMA InOrder ==
  ASSUME NEW C, IsFiniteSet(C) PROVE D!Writes(D!SetToSeq(C)) \in Seq(C \X Surface)
<1>1. Cardinality(C) \in Nat /\ ExistsBijection(1 .. Cardinality(C), C)
  BY FS_CardinalityType
<1>2. \E g \in [1 .. Cardinality(C) -> C] : D!IsInjective(g)
  BY <1>1 DEF ExistsBijection, Bijection, Injection, IsInjective, D!IsInjective
<1>3. D!Cardinality(C) = Cardinality(C)
  BY DEF D!Cardinality, Cardinality, D!IsFiniteSet, IsFiniteSet
<1>4. D!SetToSeq(C) \in [1 .. Cardinality(C) -> C]
  BY <1>2, <1>3 DEF D!SetToSeq
<1>5. PICK order : order = D!SetToSeq(C)
  OBVIOUS
<1>6. order \in Seq(C) /\ Len(order) \in Nat
  BY <1>1, <1>4, <1>5
<1>7. D!Surfaces = <<"hot", "page", "week">>
  BY DEF D!Surfaces
<1>8. ASSUME NEW k \in 1 .. 3 * Len(order)
      PROVE  <<order[((k - 1) \div 3) + 1], D!Surfaces[((k - 1) % 3) + 1]>> \in C \X Surface
  <2>1. ((k - 1) \div 3) + 1 \in 1 .. Len(order) /\ ((k - 1) % 3) + 1 \in 1 .. 3
    BY <1>6
  <2>2. order[((k - 1) \div 3) + 1] \in C
    BY <1>6, <2>1
  <2>3. D!Surfaces[((k - 1) % 3) + 1] \in Surface
    BY <1>7, <2>1 DEF Surface
  <2> QED
    BY <2>2, <2>3
<1>9. CASE order = << >>
  BY <1>5, <1>9 DEF D!Writes
<1>10. CASE order # << >>
  <2>1. D!Writes(order) = [k \in 1 .. 3 * Len(order) |-> <<order[((k - 1) \div 3) + 1], D!Surfaces[((k - 1) % 3) + 1]>>]
    BY <1>10 DEF D!Writes
  <2>2. 3 * Len(order) \in Nat
    BY <1>6
  <2> QED
    BY <1>5, <1>8, <2>1, <2>2
<1> QED
  BY <1>9, <1>10

(* What is chosen was not pinned when the run began.                        *)
LEMMA DoneJudges ==
  ASSUME IsFiniteSet(Todos), DoneInv, D!judge_batch PROVE DoneInv'
<1> USE DEF DoneInv
<1>0. PICK reached \in SUBSET checkOff.queue :
        \E proven \in SUBSET D!Closable(checkOff, reached), whole \in SUBSET D!expire_candidates(checkOff) :
            LET closes == proven \cup whole
            IN checkOff' = [checkOff EXCEPT !.judged = @ \cup reached, !.closes = closes, !.queue = {},
                                  !.todo = D!Writes(D!SetToSeq(closes)),
                                  !.shots = {shot \in closes \X {"hot", "page", "week"} :
                                               shot[2] \in D!On(shot[1]) /\ shot[1] \notin box[shot[2]]},
                                  !.at = IF closes = {} THEN "state" ELSE "marking"]
  BY Zenon DEF D!judge_batch
<1>1. PICK proven \in SUBSET D!Closable(checkOff, reached), whole \in SUBSET D!expire_candidates(checkOff) :
            checkOff' = [checkOff EXCEPT !.judged = @ \cup reached, !.closes = proven \cup whole, !.queue = {},
                                  !.todo = D!Writes(D!SetToSeq(proven \cup whole)),
                                  !.shots = {shot \in (proven \cup whole) \X {"hot", "page", "week"} :
                                               shot[2] \in D!On(shot[1]) /\ shot[1] \notin box[shot[2]]},
                                  !.at = IF proven \cup whole = {} THEN "state" ELSE "marking"]
  BY <1>0, Zenon
<1>2. PICK closes : closes = proven \cup whole
  OBVIOUS
<1>3. checkOff # None /\ checkOff.at = "judging" /\ Underway(checkOff)
      /\ UNCHANGED <<state, hand, back, raced>>
  BY DEF D!judge_batch, D!files, D!history
<1>4. closes \subseteq Todos /\ closes \cap Safe = {}
  BY <1>1, <1>2, <1>3 DEF D!Closable, D!validate, D!expire_candidates, Underway, Pinned
<1>5. D!Writes(D!SetToSeq(closes)) \in Seq(closes \X Surface)
  BY <1>4, FS_Subset, InOrder
<1>6. /\ checkOff'.at \in {"state", "marking"} /\ checkOff'.closes = closes /\ checkOff'.queue = {}
      /\ checkOff'.items = checkOff.items /\ checkOff'.state = checkOff.state
      /\ checkOff'.todo = D!Writes(D!SetToSeq(closes))
      /\ checkOff' = [at |-> checkOff'.at, today |-> checkOff'.today, state |-> checkOff'.state,
                      items |-> checkOff'.items, seen |-> checkOff'.seen, degraded |-> checkOff'.degraded,
                      queue |-> checkOff'.queue, judged |-> checkOff'.judged, closes |-> checkOff'.closes,
                      todo |-> checkOff'.todo, guard |-> checkOff'.guard, marked |-> checkOff'.marked,
                      shots |-> checkOff'.shots]
  BY <1>1, <1>2, <1>3 DEF Underway
<1>7. PICK r : r = checkOff'
  OBVIOUS
<1>8. Underway(r)'
  BY <1>3, <1>4, <1>5, <1>6, <1>7 DEF Underway, Records, Pinned, Safe
<1> QED
  BY <1>3, <1>7, <1>8 DEF Underway, Records, Pinned, Safe, PutBackStays, D!PutBackStays

LEMMA DoneMarks == ASSUME DoneInv, D!_mark_by_id PROVE DoneInv'
<1> USE DEF DoneInv
<1>1. /\ checkOff # None /\ checkOff.at = "marking" /\ checkOff.todo # << >> /\ Underway(checkOff)
      /\ UNCHANGED <<state, back, raced>>
  BY DEF D!_mark_by_id, D!files
<1>2. PICK r : r = checkOff
  OBVIOUS
<1>3. r.todo \in Seq(r.closes \X Surface) /\ Len(r.todo) \in Nat /\ Len(r.todo) > 0
  BY <1>1, <1>2 DEF Underway
<1>4. PICK i : i = r.todo[1][1]
  OBVIOUS
<1>5. i \in r.closes /\ i \notin Safe
  BY <1>1, <1>2, <1>3, <1>4 DEF Underway
<1>6. hand' = [hand EXCEPT ![i] = "judge"] \/ hand' = hand
  BY <1>2, <1>4 DEF D!_mark_by_id
<1>7. PutBackStays' /\ hand' = [j \in Todos |-> hand'[j]]
  BY <1>1, <1>5, <1>6 DEF PutBackStays, D!PutBackStays, Safe
<1>8. Tail(r.todo) \in Seq(r.closes \X Surface) /\ SubSeq(r.todo, 4, Len(r.todo)) \in Seq(r.closes \X Surface)
  BY <1>3
<1>9. PICK todo, marked2, shots :
        /\ checkOff' = [r EXCEPT !.todo = todo, !.marked = marked2, !.shots = shots]
        /\ todo \in Seq(r.closes \X Surface)
  BY <1>2, <1>4, <1>8 DEF D!_mark_by_id
<1>10. PICK q : q = checkOff'
  OBVIOUS
<1>11. Underway(q)'
  BY <1>1, <1>2, <1>9, <1>10 DEF Underway, Records, Pinned, Safe
<1> QED
  BY <1>1, <1>7, <1>10, <1>11 DEF Records, Pinned, Safe

(* Every other step of a run leaves what it chose and what it read.         *)
LEMMA DoneGoesOn ==
  ASSUME DoneInv, checkOff # None, NEW s, NEW m, NEW g, NEW h, NEW e,
         s # "marking" \/ checkOff.at = "marking",
         s = "latest" \/ checkOff.at # "latest",
         checkOff' = [checkOff EXCEPT !.at = s, !.marked = m, !.guard = g, !.shots = h, !.seen = e],
         UNCHANGED <<back, raced>>
  PROVE  checkOff' # None => Underway(checkOff)'
<1>1. PICK r, q : r = checkOff /\ q = checkOff'
  OBVIOUS
<1>2. Underway(r)
  BY <1>1 DEF DoneInv
<1>3. Underway(q)'
  BY <1>1, <1>2 DEF Underway, Records, Pinned, Safe
<1> QED
  BY <1>1, <1>3 DEF Underway, Records, Pinned, Safe

LEMMA DoneWritesState == ASSUME DoneInv, D!write_state PROVE DoneInv'
<1> USE DEF DoneInv
<1>1. /\ checkOff # None /\ checkOff.at = "state" /\ Underway(checkOff) /\ UNCHANGED <<hand, back, raced>>
      /\ checkOff' = [checkOff EXCEPT !.at = "latest", !.seen = << >>, !.state = None]
      /\ state' = [i \in Todos |->
           IF i \in checkOff.judged
           THEN [checkOff.state[i] EXCEPT !.judged = checkOff.today, !.hash = checkOff.seen[i]]
           ELSE checkOff.state[i]]
  BY DEF D!write_state, D!history
<1>2. PICK s : s = checkOff.state
  OBVIOUS
<1>3. Records(s) /\ Pinned(s)
  BY <1>1, <1>2 DEF Underway
<1>4. ASSUME NEW i \in Todos
      PROVE  /\ state'[i] = [judged |-> state'[i].judged, hash |-> state'[i].hash, pinned_open |-> state'[i].pinned_open]
             /\ state'[i].pinned_open = s[i].pinned_open
  <2>1. s[i] = [judged |-> s[i].judged, hash |-> s[i].hash, pinned_open |-> s[i].pinned_open]
    BY <1>3 DEF Records
  <2>2. state'[i] = [s[i] EXCEPT !.judged = checkOff.today, !.hash = checkOff.seen[i]] \/ state'[i] = s[i]
    BY <1>1, <1>2
  <2> QED
    BY <2>1, <2>2
<1>5. Records(state)'
  BY <1>1, <1>4 DEF Records
<1>55. Pinned(state)'
  BY <1>1, <1>3, <1>4 DEF Pinned, Safe
<1>6. PICK r, q : r = checkOff /\ q = checkOff'
  OBVIOUS
<1>7. Underway(q)'
  BY <1>1, <1>6 DEF Underway, Safe
<1> QED
  BY <1>1, <1>5, <1>55, <1>6, <1>7 DEF Underway, Safe, Records, Pinned, PutBackStays, D!PutBackStays

(* Put back: pinned, where no run is on.                                    *)
LEMMA DoneUndoes == ASSUME DoneInv, NEW i \in Todos, D!undo(i) PROVE DoneInv'
<1> USE DEF DoneInv
<1>1. /\ state' = [state EXCEPT ![i].pinned_open = TRUE] /\ hand' = [hand EXCEPT ![i] = "nobody"]
      /\ back' = back \cup {i} /\ raced' = IF checkOff = None THEN raced ELSE raced \cup {i}
      /\ UNCHANGED checkOff
  BY DEF D!undo
<1>2. state[i] = [judged |-> state[i].judged, hash |-> state[i].hash, pinned_open |-> state[i].pinned_open]
  BY DEF Records
<1>3. state'[i] = [judged |-> state[i].judged, hash |-> state[i].hash, pinned_open |-> TRUE]
      /\ \A j \in Todos \ {i} : state'[j] = state[j]
  BY <1>1, <1>2 DEF Records
<1>4. Records(state)' /\ Pinned(state)'
  BY <1>1, <1>3 DEF Records, Pinned, Safe
<1>5. checkOff # None => Safe' \subseteq Safe
  BY <1>1 DEF Safe
<1>6. PICK r : r = checkOff
  OBVIOUS
<1>7. checkOff # None => Underway(r)'
  BY <1>1, <1>5, <1>6 DEF Underway, Records, Pinned
<1>8. PutBackStays'
  BY <1>1 DEF PutBackStays, D!PutBackStays
<1> QED
  BY <1>1, <1>4, <1>6, <1>7, <1>8 DEF Underway, Records, Pinned, Safe

LEMMA DoneStep == ASSUME IsFiniteSet(Todos), DoneInv, [D!Next]_(D!vars) PROVE DoneInv'
<1> USE DEF DoneInv
<1>1. ASSUME UNCHANGED <<state, checkOff, back, raced>>, hand' = [i \in Todos |-> hand'[i]],
             \A i \in Todos : hand'[i] = hand[i] \/ hand'[i] # "judge"
      PROVE  DoneInv'
  BY <1>1 DEF Underway, Records, Pinned, Safe, PutBackStays, D!PutBackStays
<1>2. CASE D!Midnight \/ (\E i \in Todos, c \in Classes : D!Evidence(i, c)) \/ UNCHANGED D!vars
  BY <1>1, <1>2 DEF D!Midnight, D!Evidence, D!vars, D!files, D!history
<1>3. ASSUME NEW i \in Todos, NEW s \in {"hot", "week"}, D!UserMarks(i, s) PROVE DoneInv'
  BY <1>1, <1>3 DEF D!UserMarks, D!files
<1>4. CASE D!Briefing
  BY <1>1, <1>4 DEF D!Briefing, D!files
<1>5. CASE D!Start
  <2>1. PICK items, seen, degraded, left, judged, today :
          /\ checkOff' = [at |-> "judging", today |-> today, state |-> state, items |-> items, seen |-> seen,
                          degraded |-> degraded, queue |-> left, judged |-> judged, closes |-> {}, todo |-> << >>,
                          guard |-> {}, marked |-> {}, shots |-> {}]
          /\ items \subseteq Todos /\ left \subseteq Todos
          /\ UNCHANGED <<state, hand, back, raced>>
    <3>1. PICK read \in BOOLEAN :
            LET items == Todos \ box.hot
                seen == [i \in items |-> IF read THEN evidence[i] ELSE evidence[i] \ D!MAIL_CLASSES]
            IN checkOff' = [at |-> "judging", today |-> day, state |-> state, items |-> items, seen |-> seen,
                     degraded |-> ~ read,
                     queue |-> {i \in items : seen[i] # {} /\ D!needs_judging(i, seen)},
                     judged |-> {i \in items : seen[i] = {}},
                     closes |-> {}, todo |-> << >>, guard |-> {}, marked |-> {}, shots |-> {}]
      BY <1>5, Zenon DEF D!Start
    <3>2. UNCHANGED <<state, hand, back, raced>>
      BY <1>5 DEF D!Start, D!files, D!history
    <3> DEFINE items == Todos \ box.hot
               seen == [i \in items |-> IF read THEN evidence[i] ELSE evidence[i] \ D!MAIL_CLASSES]
    <3>3. items \subseteq Todos /\ {i \in items : seen[i] # {} /\ D!needs_judging(i, seen)} \subseteq Todos
      OBVIOUS
    <3> QED
      BY <3>1, <3>2, <3>3, Zenon
  <2>2. PICK r : r = checkOff'
    OBVIOUS
  <2>3. Underway(r)'
    BY <2>1, <2>2 DEF Underway, Records, Pinned, Safe
  <2> QED
    BY <2>1, <2>2, <2>3 DEF Underway, Records, Pinned, Safe, PutBackStays, D!PutBackStays
<1>6. CASE D!judge_batch
  BY <1>6, DoneJudges
<1>7. CASE D!Unavailable \/ D!write_latest \/ D!Die
  <2>1. checkOff' = None /\ UNCHANGED <<state, hand, back>> /\ raced \subseteq raced'
    BY <1>7 DEF D!Unavailable, D!write_latest, D!Die, D!files, D!history
  <2> QED
    BY <2>1 DEF Records, Pinned, Safe, PutBackStays, D!PutBackStays
<1>8. CASE D!_mark_by_id
  BY <1>8, DoneMarks
<1>9. ASSUME checkOff # None, NEW s, NEW m, NEW g, NEW h, NEW e,
             s # "marking", s # "latest", checkOff.at # "latest",
             checkOff' = [checkOff EXCEPT !.at = s, !.marked = m, !.guard = g, !.shots = h, !.seen = e],
             UNCHANGED <<state, back, raced>>, hand' = [i \in Todos |-> hand'[i]],
             \A i \in Todos : hand'[i] = hand[i] \/ hand'[i] # "judge"
      PROVE  DoneInv'
  <2>1. checkOff' # None => Underway(checkOff)'
    BY <1>9, DoneGoesOn
  <2> QED
    BY <1>9, <2>1 DEF Records, Pinned, Safe, PutBackStays, D!PutBackStays
<1>10. checkOff # None => checkOff = [at |-> checkOff.at, today |-> checkOff.today, state |-> checkOff.state,
          items |-> checkOff.items, seen |-> checkOff.seen,
          degraded |-> checkOff.degraded, queue |-> checkOff.queue, judged |-> checkOff.judged, closes |-> checkOff.closes,
          todo |-> checkOff.todo, guard |-> checkOff.guard, marked |-> checkOff.marked, shots |-> checkOff.shots]
  BY DEF Underway
<1>11. CASE D!SyncHere
  <2>1. checkOff' = [checkOff EXCEPT !.at = "restoring", !.marked = checkOff.marked, !.guard = box.hot,
                                     !.shots = checkOff.shots, !.seen = checkOff.seen]
    BY <1>10, <1>11 DEF D!SyncHere
  <2>2. /\ checkOff # None /\ checkOff.at # "latest" /\ UNCHANGED <<state, back, raced>>
        /\ hand' = [i \in Todos |-> hand'[i]] /\ \A i \in Todos : hand'[i] = hand[i] \/ hand'[i] # "judge"
    BY <1>11 DEF D!SyncHere, D!files
  <2> QED
    BY <1>9, <2>1, <2>2
<1>12. CASE D!_restore_strays
  <2>1. \E s \in {"state", "booking"} :
         checkOff' = [checkOff EXCEPT !.at = s, !.marked = checkOff.marked, !.guard = {},
                                     !.shots = checkOff.shots, !.seen = checkOff.seen]
    BY <1>10, <1>12 DEF D!_restore_strays
  <2>2. PICK s \in {"state", "booking"} :
         checkOff' = [checkOff EXCEPT !.at = s, !.marked = checkOff.marked, !.guard = {},
                                     !.shots = checkOff.shots, !.seen = checkOff.seen]
    BY <2>1
  <2>3. /\ checkOff # None /\ checkOff.at # "latest" /\ UNCHANGED <<state, back, raced>>
        /\ hand' = [i \in Todos |-> hand'[i]] /\ \A i \in Todos : hand'[i] = hand[i] \/ hand'[i] # "judge"
    BY <1>12 DEF D!_restore_strays, D!files
  <2> QED
    BY <1>9, <2>2, <2>3
<1>13. CASE D!write_undo
  <2>1. checkOff' = [checkOff EXCEPT !.at = "state", !.marked = checkOff.marked, !.guard = checkOff.guard,
                                     !.shots = {}, !.seen = checkOff.seen]
    BY <1>10, <1>13 DEF D!write_undo
  <2>2. /\ checkOff # None /\ checkOff.at # "latest" /\ UNCHANGED <<state, back, raced, hand>>
    BY <1>13 DEF D!write_undo
  <2>3. hand' = [i \in Todos |-> hand'[i]] /\ \A i \in Todos : hand'[i] = hand[i] \/ hand'[i] # "judge"
    BY <2>2
  <2> QED
    BY <1>9, <2>1, <2>2, <2>3
<1>14. CASE D!write_state
  BY <1>14, DoneWritesState
<1>15. ASSUME NEW i \in Todos, D!undo(i) PROVE DoneInv'
  BY <1>15, DoneUndoes
<1> QED
  BY <1>2, <1>3, <1>4, <1>5, <1>6, <1>7, <1>8, <1>11, <1>12, <1>13, <1>14, <1>15 DEF D!Next

(* PutBackStays: for any finite set of to-dos and any evidence, deaths and  *)
(* edits, what the user put back while no run was on is never ticked by a   *)
(* run again (done_judge.undo, validate, expire_candidates).                *)
THEOREM PutBackStaysAlways == ASSUME IsFiniteSet(Todos) PROVE VaultSpec => []PutBackStays
<1>1. VaultInit => DoneInv
  BY DoneInit DEF VaultInit
<1>2. DoneInv /\ [VaultNext]_all => DoneInv'
  <2> SUFFICES ASSUME DoneInv, [VaultNext]_all PROVE DoneInv'
    OBVIOUS
  <2>1. [D!Next]_(D!vars) \/ UNCHANGED done
    BY DEF VaultNext, all, done, D!vars, D!files, D!history
  <2>2. UNCHANGED done => DoneInv'
    BY DEF done, DoneInv, Underway, Records, Pinned, Safe, PutBackStays, D!PutBackStays
  <2> QED
    BY <2>1, <2>2, DoneStep
<1>3. DoneInv => PutBackStays
  BY DEF DoneInv
<1> QED
  BY <1>1, <1>2, <1>3, PTL DEF VaultSpec
-----------------------------------------------------------------------------
(* The filing, for any sequence of meetings: a meeting filed from its       *)
(* summary for want of time has a page and a row in the queue, or a process *)
(* that is about to give it one; while the queue is read, its row is still  *)
(* to come or kept.                                                         *)
Shaped(row) == row = [id |-> row.id, attempts |-> row.attempts, wrote |-> row.wrote]
RowsOf(s) == \E R : s \in Seq(R) /\ \A row \in R : Shaped(row)
Waits(s, m) == \E i \in 1 .. Len(s) : s[i].id = m
Writing == {"promote", "mark", "catalog", "after"}
Draining(r) == r.at = "drain" \/ r.rows # << >>

(* What the proof asks of None: it is no page, no filing and no process.    *)
NoneIsNoFiling ==
  DOMAIN None \notin {{"id", "from"}, {"id", "name", "from", "deep", "skip", "undo"},
                      {"kind", "at", "rows", "kept", "tried", "capped", "todo", "filing", "filed", "failed", "gone"}}

DeepTypes == pages = [n \in M!Names |-> pages[n]] /\ RowsOf(queue)

AtWork(r) ==
  /\ r = [kind |-> r.kind, at |-> r.at, rows |-> r.rows, kept |-> r.kept, tried |-> r.tried, capped |-> r.capped,
          todo |-> r.todo, filing |-> r.filing, filed |-> r.filed, failed |-> r.failed, gone |-> r.gone]
  /\ r.at \in {"drain", "list", "next", "page"} \cup Writing
  /\ RowsOf(r.rows) /\ RowsOf(r.kept)
  /\ r.at \in {"list", "next"} => r.rows = << >>

(* What is being filed has a name that is free or its own; where a row is   *)
(* at its turn it is that row's meeting, read.                              *)
OfFiling(r) == r.at \in {"page"} \cup Writing =>
  /\ r.filing = [id |-> r.filing.id, name |-> r.filing.name, from |-> r.filing.from, deep |-> r.filing.deep,
                 skip |-> r.filing.skip, undo |-> r.filing.undo]
  /\ r.filing.name \in M!Names /\ r.filing.deep \in BOOLEAN
  /\ r.at = "page" => pages[r.filing.name] = None \/ pages[r.filing.name].id = r.filing.id
  /\ r.rows # << >> => /\ r.filing.from = "transcript" /\ r.filing.deep = FALSE /\ r.filing.id = Head(r.rows).id
                       /\ r.at \in Writing => r.filing.id \notin short
InProgress(r, m) == r.at \in Writing /\ r.filing.deep /\ r.filing.id = m

StillOwed == short \ (letGo \cup torn)
HasPage(m) == \E n \in M!Names : pages[n] # None /\ pages[n].id = m
Remembered(r) ==
  /\ \A m \in StillOwed : Waits(queue, m) \/ InProgress(r, m)
  /\ Draining(r) => \A m \in StillOwed : Waits(r.rows, m) \/ Waits(r.kept, m)

DeepInv ==
  /\ DeepTypes
  /\ \A m \in StillOwed : HasPage(m)
  /\ run = None => \A m \in StillOwed : Waits(queue, m)
  /\ run # None => AtWork(run) /\ OfFiling(run) /\ Remembered(run)

LEMMA RowAppended ==
  ASSUME NEW s, NEW row, RowsOf(s), Shaped(row)
  PROVE  RowsOf(Append(s, row)) /\ \A m : Waits(Append(s, row), m) <=> Waits(s, m) \/ row.id = m
<1>1. PICK R : s \in Seq(R) /\ \A x \in R : Shaped(x)
  BY DEF RowsOf
<1>2. s \in Seq(R \cup {row}) /\ row \in R \cup {row}
  BY <1>1, SeqMonotonic
<1>3. /\ Append(s, row) \in Seq(R \cup {row}) /\ Len(Append(s, row)) = Len(s) + 1 /\ Len(s) \in Nat
      /\ Append(s, row)[Len(s) + 1] = row /\ \A i \in 1 .. Len(s) : Append(s, row)[i] = s[i]
  BY <1>2, AppendProperties, LenProperties
<1>4. RowsOf(Append(s, row))
  BY <1>1, <1>3 DEF RowsOf
<1>5. ASSUME NEW m PROVE Waits(Append(s, row), m) <=> Waits(s, m) \/ row.id = m
  BY <1>3 DEF Waits
<1> QED
  BY <1>4, <1>5

LEMMA RowTaken ==
  ASSUME NEW s, RowsOf(s), s # << >>
  PROVE  /\ RowsOf(Tail(s)) /\ Shaped(Head(s)) /\ Head(s) = s[1]
         /\ \A m : Waits(s, m) <=> Waits(Tail(s), m) \/ Head(s).id = m
<1>1. PICK R : s \in Seq(R) /\ \A x \in R : Shaped(x)
  BY DEF RowsOf
<1>2. /\ Head(s) \in R /\ Tail(s) \in Seq(R) /\ Len(Tail(s)) = Len(s) - 1 /\ Head(s) = s[1] /\ Len(s) \in Nat
      /\ Len(s) > 0 /\ \A i \in 1 .. Len(Tail(s)) : Tail(s)[i] = s[i + 1]
  BY <1>1, HeadTailProperties, LenProperties, EmptySeq
<1>3. ASSUME NEW m, Waits(s, m) PROVE Waits(Tail(s), m) \/ Head(s).id = m
  <2>1. PICK i \in 1 .. Len(s) : s[i].id = m
    BY <1>3 DEF Waits
  <2>2. CASE i = 1
    BY <1>2, <2>1, <2>2
  <2>3. CASE i # 1
    <3>1. i - 1 \in 1 .. Len(Tail(s)) /\ Tail(s)[i - 1] = s[i]
      BY <1>2, <2>1, <2>3
    <3> QED
      BY <2>1, <3>1 DEF Waits
  <2> QED
    BY <2>2, <2>3
<1>4. ASSUME NEW m, Waits(Tail(s), m) \/ Head(s).id = m PROVE Waits(s, m)
  <2>1. CASE Head(s).id = m
    BY <1>2, <2>1 DEF Waits
  <2>2. ASSUME NEW i \in 1 .. Len(Tail(s)), Tail(s)[i].id = m PROVE Waits(s, m)
    <3>1. i + 1 \in 1 .. Len(s) /\ s[i + 1].id = m
      BY <1>2, <2>2
    <3> QED
      BY <3>1 DEF Waits
  <2> QED
    BY <1>4, <2>1, <2>2 DEF Waits
<1> QED
  BY <1>1, <1>2, <1>3, <1>4 DEF RowsOf

LEMMA NoRows == RowsOf(<< >>) /\ \A m : ~ Waits(<< >>, m)
<1>1. << >> \in Seq({}) /\ Len(<< >>) = 0
  BY EmptySeq
<1>2. RowsOf(<< >>)
  <2>1. \A row \in {} : Shaped(row)
    OBVIOUS
  <2>2. PICK R : R = {}
    OBVIOUS
  <2>3. << >> \in Seq(R) /\ \A row \in R : Shaped(row)
    BY <1>1, <2>1, <2>2
  <2> QED
    BY <2>3, Zenon DEF RowsOf
<1>3. 1 .. Len(<< >>) = {}
  BY <1>1
<1>4. \A m : ~ Waits(<< >>, m)
  BY <1>3 DEF Waits
<1> QED
  BY <1>2, <1>4

(* A row passed over is kept; one that is dropped is owed no more.          *)
AtTurn(r) == r.at = "drain" \/ r.at = "page" \/ (r.at = "after" /\ ~ r.filing.deep)
Turned(r, left, t, k, c, w, g) ==
  [r EXCEPT !.at = "drain", !.rows = left, !.tried = t, !.kept = k, !.capped = c, !.filing = w, !.gone = g]
Settled(r, k, x) == k = Append(r.kept, x) \/ (k = r.kept /\ x.id \notin short \ (letGo' \cup torn))
Still == letGo \subseteq letGo' /\ UNCHANGED <<pages, queue, short, torn>>

LEMMA DrainsOn ==
  ASSUME NoneIsNoFiling, DeepInv, NEW r, r = run, r # None, r.rows # << >>,
         NEW left, left = Tail(r.rows), NEW t, NEW k, NEW c, NEW w, NEW g,
         NEW row, Shaped(row), row.id = Head(r.rows).id,
         run' = Turned(r, left, t, k, c, w, g), Settled(r, k, row), Still, AtTurn(r)
  PROVE  DeepInv'
<1>0. /\ run' = [r EXCEPT !.at = "drain", !.rows = Tail(r.rows), !.tried = t, !.kept = k, !.capped = c,
                          !.filing = w, !.gone = g]
      /\ k = Append(r.kept, row) \/ (k = r.kept /\ row.id \notin short \ (letGo' \cup torn))
      /\ letGo \subseteq letGo' /\ UNCHANGED <<pages, queue, short, torn>>
      /\ r.at = "drain" \/ r.at = "page" \/ (r.at = "after" /\ ~ r.filing.deep)
  BY DEF Turned, Settled, Still, AtTurn
<1>1. AtWork(r) /\ OfFiling(r) /\ Remembered(r) /\ DeepTypes
  BY DEF DeepInv
<1>2. RowsOf(Tail(r.rows)) /\ \A m : Waits(r.rows, m) <=> Waits(Tail(r.rows), m) \/ row.id = m
  BY <1>1, RowTaken DEF AtWork
<1>3. RowsOf(Append(r.kept, row)) /\ \A m : Waits(Append(r.kept, row), m) <=> Waits(r.kept, m) \/ row.id = m
  BY <1>1, RowAppended DEF AtWork
<1>4. PICK q : q = run'
  OBVIOUS
<1>5. AtWork(q) /\ q.at = "drain" /\ q.rows = Tail(r.rows) /\ q.kept = k
  <2>1. RowsOf(k) /\ RowsOf(r.kept)
    BY <1>0, <1>1, <1>3 DEF AtWork
  <2>2. PICK rows : rows = Tail(r.rows)
    OBVIOUS
  <2>3. q = [kind |-> r.kind, at |-> "drain", rows |-> rows, kept |-> k, tried |-> t, capped |-> c,
             todo |-> r.todo, filing |-> w, filed |-> r.filed, failed |-> r.failed, gone |-> g]
    BY <1>0, <1>1, <1>4, <2>2 DEF AtWork
  <2> QED
    BY <1>1, <1>2, <2>1, <2>2, <2>3 DEF AtWork
<1>6. \A m \in StillOwed' : m \in StillOwed /\ (Waits(q.rows, m) \/ Waits(q.kept, m)) /\ Waits(queue, m)
  BY <1>0, <1>1, <1>2, <1>3, <1>5 DEF StillOwed, Remembered, Draining, InProgress, Writing
<1>7. OfFiling(q)' /\ Remembered(q)'
  BY <1>0, <1>5, <1>6 DEF OfFiling, Remembered, Draining, InProgress, Writing
<1>8. DeepTypes'
  BY <1>0, <1>1 DEF DeepTypes, RowsOf
<1>9. (\A m \in StillOwed : HasPage(m))'
  BY <1>0, <1>6 DEF DeepInv, HasPage, M!Names
<1>10. (run = None => \A m \in StillOwed : Waits(queue, m))'
  BY <1>0, <1>6
<1>11. AtWork(run)' /\ OfFiling(run)' /\ Remembered(run)'
  BY <1>4, <1>5, <1>7 DEF AtWork, OfFiling, Remembered, Draining, InProgress
<1> QED
  BY <1>8, <1>9, <1>10, <1>11 DEF DeepInv

(* One of the drain's steps that end with a row, in full.                   *)
LEMMA DrainSteps ==
  ASSUME NoneIsNoFiling, DeepInv,
         \/ M!DrainKeeps \/ M!DrainMissesPage \/ M!DrainCapped \/ M!DrainFails \/ M!DrainRefused
         \/ M!After /\ run.rows # << >>
  PROVE  DeepInv'
<1>1. run # None /\ AtWork(run) /\ OfFiling(run) /\ DeepTypes /\ run.rows # << >>
  BY DEF DeepInv, M!DrainKeeps, M!DrainMissesPage, M!DrainCapped, M!DrainFails, M!DrainRefused, M!After, M!Reading,
         M!ThisRun
<1>2. PICK r : r = run
  OBVIOUS
<1>3. PICK row : row = Head(r.rows)
  OBVIOUS
<1>4. /\ r = [kind |-> r.kind, at |-> r.at, rows |-> r.rows, kept |-> r.kept, tried |-> r.tried, capped |-> r.capped,
               todo |-> r.todo, filing |-> r.filing, filed |-> r.filed, failed |-> r.failed, gone |-> r.gone]
      /\ Shaped(row)
  BY <1>1, <1>2, <1>3, RowTaken DEF AtWork
<1>6. PICK more : more = [row EXCEPT !.attempts = row.attempts + 1]
  OBVIOUS
<1>7. Shaped(more) /\ more.id = row.id
  BY <1>4, <1>6 DEF Shaped
<1>0. PICK left : left = Tail(r.rows)
  OBVIOUS
<1>5. ASSUME NEW t, NEW k, NEW c, NEW w, NEW g, NEW x, Shaped(x), x.id = row.id,
             run' = Turned(r, left, t, k, c, w, g), Settled(r, k, x), Still, AtTurn(r)
      PROVE  DeepInv'
  <2>1. r = run /\ r # None /\ r.rows # << >> /\ x.id = Head(r.rows).id
    BY <1>1, <1>2, <1>3, <1>5
  <2> QED
    BY <1>0, <1>5, <2>1, DrainsOn, Zenon
<1>9. CASE M!DrainKeeps
  <2>1. PICK k : k = Append(r.kept, row)
    OBVIOUS
  <2>2. /\ run' = [r EXCEPT !.rows = left, !.tried = r.tried + 1, !.kept = k] /\ r.at = "drain"
        /\ UNCHANGED <<pages, queue, short, torn, letGo>>
    BY <1>2, <1>3, <1>0, <1>9, <2>1 DEF M!DrainKeeps, M!Passed, M!Row, M!Reading, M!vault, M!stage, M!past
  <2>3. run' = Turned(r, left, r.tried + 1, k, r.capped, r.filing, r.gone)
    BY <1>4, <2>2 DEF Turned
  <2>4. Settled(r, k, row) /\ Still /\ AtTurn(r)
    BY <2>1, <2>2 DEF Settled, Still, AtTurn
  <2> QED
    BY <1>4, <1>5, <2>3, <2>4, Zenon
<1>10. CASE M!DrainMissesPage
  <2>1. /\ run' = [r EXCEPT !.rows = left, !.tried = r.tried + 1] /\ r.at = "drain"
        /\ UNCHANGED <<pages, queue, short, torn, letGo>>
        /\ M!PageOf(row.id) = {}
    BY <1>2, <1>3, <1>0, <1>10 DEF M!DrainMissesPage, M!Dropped, M!Row, M!Reading, M!vault, M!stage, M!past
  <2>2. run' = Turned(r, left, r.tried + 1, r.kept, r.capped, r.filing, r.gone)
    BY <1>4, <2>1 DEF Turned
  <2>3. row.id \notin StillOwed
    BY <2>1 DEF M!PageOf, HasPage, DeepInv
  <2>4. Settled(r, r.kept, row) /\ Still /\ AtTurn(r)
    BY <2>1, <2>3 DEF StillOwed, Settled, Still, AtTurn
  <2> QED
    BY <1>4, <1>5, <2>2, <2>4, Zenon
<1>11. CASE M!DrainCapped
  <2>1. PICK k : k = Append(r.kept, row)
    OBVIOUS
  <2>2. /\ run' = [[r EXCEPT !.rows = left, !.tried = r.tried + 1, !.kept = k] EXCEPT !.capped = TRUE] /\ r.at = "drain"
        /\ UNCHANGED <<pages, queue, short, torn, letGo>>
    BY <1>2, <1>3, <1>0, <1>11, <2>1
       DEF M!DrainCapped, M!Passed, M!Row, M!ThisRun, M!Reading, M!vault, M!stage, M!past
  <2>3. run' = Turned(r, left, r.tried + 1, k, TRUE, r.filing, r.gone)
    BY <1>4, <2>2 DEF Turned
  <2>4. Settled(r, k, row) /\ Still /\ AtTurn(r)
    BY <2>1, <2>2 DEF Settled, Still, AtTurn
  <2> QED
    BY <1>4, <1>5, <2>3, <2>4, Zenon
<1>12. ASSUME M!DrainFails \/ M!DrainRefused PROVE DeepInv'
  <2>1. PICK k : k = Append(r.kept, more)
    OBVIOUS
  <2>2. PICK q : q = M!Spent(row)
    OBVIOUS
  <2>3. /\ \/ q = [r EXCEPT !.rows = left, !.tried = r.tried + 1] /\ letGo' = letGo \cup {row.id}
           \/ q = [r EXCEPT !.rows = left, !.tried = r.tried + 1, !.kept = k] /\ letGo' = letGo
        /\ \/ run' = q /\ r.at = "drain"
           \/ run' = [q EXCEPT !.at = "drain", !.filing = None] /\ r.at = "page"
        /\ UNCHANGED <<pages, queue, short, torn>>
    <3>1. /\ \/ q = [r EXCEPT !.rows = left, !.tried = r.tried + 1]
             \/ q = [r EXCEPT !.rows = left, !.tried = r.tried + 1, !.kept = k]
          /\ row.attempts + 1 >= ReadAttempts => q = [r EXCEPT !.rows = left, !.tried = r.tried + 1]
          /\ ~ (row.attempts + 1 >= ReadAttempts) => q = [r EXCEPT !.rows = left, !.tried = r.tried + 1, !.kept = k]
      BY <1>2, <1>6, <1>0, <2>1, <2>2, Zenon DEF M!Spent, M!Dropped, M!Passed
    <3>2. M!LetGo(row) /\ M!Row = row
      BY <1>2, <1>3, <1>12, Zenon DEF M!DrainFails, M!DrainRefused, M!Row
    <3>3. /\ row.attempts + 1 >= ReadAttempts => letGo' = letGo \cup {row.id}
          /\ ~ (row.attempts + 1 >= ReadAttempts) => letGo' = letGo
      BY <3>2, Zenon DEF M!LetGo
    <3>4. /\ \/ run' = q /\ r.at = "drain"
             \/ run' = [q EXCEPT !.at = "drain", !.filing = None] /\ r.at = "page"
          /\ UNCHANGED <<pages, queue, short, torn>>
      BY <1>2, <1>12, <2>2, <3>2, Zenon DEF M!DrainFails, M!DrainRefused, M!ThisRun, M!Reading, M!vault, M!stage
    <3> QED
      BY <3>1, <3>3, <3>4
  <2>4. PICK h \in {r.filing, None}, j \in {r.kept, k} :
          /\ run' = Turned(r, left, r.tried + 1, j, r.capped, h, r.gone)
          /\ j = k \/ (j = r.kept /\ letGo' = letGo \cup {row.id})
    <3>1. CASE q = [r EXCEPT !.rows = left, !.tried = r.tried + 1] /\ letGo' = letGo \cup {row.id}
      <4>1. /\ [r EXCEPT !.rows = left, !.tried = r.tried + 1] = Turned(r, left, r.tried + 1, r.kept, r.capped, r.filing, r.gone)
              \/ r.at # "drain"
            /\ [[r EXCEPT !.rows = left, !.tried = r.tried + 1] EXCEPT !.at = "drain", !.filing = None]
              = Turned(r, left, r.tried + 1, r.kept, r.capped, None, r.gone)
        BY <1>4 DEF Turned
      <4>2. \/ run' = Turned(r, left, r.tried + 1, r.kept, r.capped, r.filing, r.gone)
            \/ run' = Turned(r, left, r.tried + 1, r.kept, r.capped, None, r.gone)
        BY <2>3, <3>1, <4>1
      <4> QED
        BY <3>1, <4>2
    <3>2. CASE q = [r EXCEPT !.rows = left, !.tried = r.tried + 1, !.kept = k] /\ letGo' = letGo
      <4>1. /\ [r EXCEPT !.rows = left, !.tried = r.tried + 1, !.kept = k] = Turned(r, left, r.tried + 1, k, r.capped, r.filing, r.gone)
              \/ r.at # "drain"
            /\ [[r EXCEPT !.rows = left, !.tried = r.tried + 1, !.kept = k] EXCEPT !.at = "drain", !.filing = None]
              = Turned(r, left, r.tried + 1, k, r.capped, None, r.gone)
        BY <1>4 DEF Turned
      <4>2. \/ run' = Turned(r, left, r.tried + 1, k, r.capped, r.filing, r.gone)
            \/ run' = Turned(r, left, r.tried + 1, k, r.capped, None, r.gone)
        BY <2>3, <3>2, <4>1
      <4> QED
        BY <3>2, <4>2
    <3> QED
      BY <2>3, <3>1, <3>2
  <2>5. Settled(r, j, more) /\ Still /\ AtTurn(r)
    BY <1>7, <2>1, <2>3, <2>4 DEF Settled, Still, AtTurn
  <2> QED
    BY <1>5, <1>7, <2>4, <2>5, Zenon
<1>13. CASE M!After /\ run.rows # << >>
  <2>1. /\ run' = [[r EXCEPT !.rows = left, !.tried = r.tried + 1]
                     EXCEPT !.at = "drain", !.filing = None, !.gone = r.gone \cup {r.filing.name}]
        /\ r.at = "after" /\ ~ r.filing.deep /\ r.filing.id = row.id /\ r.filing.id \notin short
        /\ UNCHANGED <<pages, queue, short, torn, letGo>>
    BY <1>1, <1>2, <1>3, <1>0, <1>13 DEF M!After, M!Dropped, M!f, M!vault, M!stage, M!past, OfFiling, Writing
  <2>2. run' = Turned(r, left, r.tried + 1, r.kept, r.capped, None, r.gone \cup {r.filing.name})
    BY <1>4, <2>1 DEF Turned
  <2>3. Settled(r, r.kept, row) /\ Still /\ AtTurn(r)
    BY <2>1 DEF Settled, Still, AtTurn
  <2> QED
    BY <1>4, <1>5, <2>2, <2>3, Zenon
<1> QED
  BY <1>9, <1>10, <1>11, <1>12, <1>13

(* A step within a run that leaves its rows, the queue and the pages alone. *)
Filled(q) ==
  q = [kind |-> q.kind, at |-> q.at, rows |-> q.rows, kept |-> q.kept, tried |-> q.tried, capped |-> q.capped,
       todo |-> q.todo, filing |-> q.filing, filed |-> q.filed, failed |-> q.failed, gone |-> q.gone]

LEMMA MovesOn ==
  ASSUME NoneIsNoFiling, DeepInv, NEW r, r = run, r # None, NEW q, q = run', Filled(q),
         q.at \in {"drain", "list", "next", "page"} \cup Writing, q.rows = r.rows, q.kept = r.kept,
         q.at \in {"list", "next"} => q.rows = << >>,
         OfFiling(q), Draining(q) => Draining(r), \A m : InProgress(r, m) => InProgress(q, m),
         UNCHANGED <<pages, queue, short, letGo, torn>>
  PROVE  DeepInv'
<1>1. AtWork(r) /\ Remembered(r) /\ DeepTypes /\ \A m \in StillOwed : HasPage(m)
  BY DEF DeepInv
<1>2. AtWork(q)
  BY <1>1 DEF AtWork, Filled
<1>3. q # None
  BY DEF Filled, NoneIsNoFiling
<1>4. Remembered(q)
  BY <1>1 DEF Remembered
<1>5. PICK ow : ow = StillOwed
  OBVIOUS
<1>6. StillOwed' = ow
  BY <1>5 DEF StillOwed
<1>7. DeepTypes' /\ (\A m \in StillOwed : HasPage(m))'
  BY <1>1, <1>5, <1>6 DEF DeepTypes, HasPage, RowsOf
<1>8. AtWork(run)' /\ OfFiling(run)' /\ Remembered(run)'
  <2>1. AtWork(run)'
    BY <1>2 DEF AtWork
  <2>2. OfFiling(run)'
    BY DEF OfFiling
  <2>3. Remembered(run)'
    BY <1>4, <1>5, <1>6 DEF Remembered, Draining, InProgress
  <2> QED
    BY <2>1, <2>2, <2>3
<1> QED
  BY <1>3, <1>7, <1>8 DEF DeepInv

LEMMA FilingSteps ==
  ASSUME NoneIsNoFiling, DeepInv,
         \/ M!DrainReads \/ M!List \/ M!Promote \/ M!Mark \/ M!update_index
         \/ \E m \in M!All : M!Refused(m) \/ M!Begin(m)
  PROVE  DeepInv'
<1>1. run # None /\ AtWork(run) /\ OfFiling(run) /\ DeepTypes
  BY DEF DeepInv, M!DrainReads, M!List, M!Promote, M!Mark, M!update_index, M!Refused, M!Begin, M!Next1, M!ThisRun, M!Reading
<1>2. PICK r : r = run
  OBVIOUS
<1>3. Filled(r) /\ r # None /\ AtWork(r) /\ OfFiling(r)
  BY <1>1, <1>2 DEF Filled, AtWork
<1>4. PICK q : q = run'
  OBVIOUS
<1>5. ASSUME Filled(q), q.at \in {"drain", "list", "next", "page"} \cup Writing, q.rows = r.rows, q.kept = r.kept,
             q.at \in {"list", "next"} => q.rows = << >>,
             OfFiling(q), Draining(q) => Draining(r), \A m : InProgress(r, m) => InProgress(q, m),
             UNCHANGED <<pages, queue, short, letGo, torn>>
      PROVE  DeepInv'
  BY <1>2, <1>3, <1>4, <1>5, MovesOn, Zenon
<1>6. CASE M!DrainReads
  <2>1. PICK n : /\ n \in M!PageOf(Head(r.rows).id)
                 /\ q = [r EXCEPT !.at = "page",
                          !.filing = [id |-> Head(r.rows).id, name |-> n, from |-> "transcript", deep |-> FALSE,
                                      skip |-> M!Kept(Head(r.rows)), undo |-> M!Retired(Head(r.rows))]]
    BY <1>2, <1>4, <1>6, Zenon DEF M!DrainReads, M!Row
  <2>2. r.at = "drain" /\ UNCHANGED <<pages, queue, short, letGo, torn>> /\ r.rows # << >>
    BY <1>2, <1>6 DEF M!DrainReads, M!ThisRun, M!Reading, M!stage
  <2>3. n \in M!Names /\ pages[n].id = Head(r.rows).id
    BY <2>1 DEF M!PageOf
  <2>4. PICK keeps, takes : keeps = M!Kept(Head(r.rows)) /\ takes = M!Retired(Head(r.rows))
    OBVIOUS
  <2>5. /\ Filled(q) /\ q.at = "page" /\ q.rows = r.rows /\ q.kept = r.kept
        /\ q.filing = [id |-> Head(r.rows).id, name |-> n, from |-> "transcript", deep |-> FALSE,
                       skip |-> keeps, undo |-> takes]
    BY <1>3, <2>1, <2>4 DEF Filled
  <2>6. OfFiling(q)
    BY <2>3, <2>5 DEF OfFiling, Writing
  <2>7. (Draining(q) => Draining(r)) /\ \A m : InProgress(r, m) => InProgress(q, m)
    BY <2>2 DEF Draining, InProgress, Writing
  <2> QED
    BY <1>5, <2>2, <2>5, <2>6, <2>7
<1>7. CASE M!List
  <2>1. PICK new : new = M!fetch_uningested_stubs(Recent)
    OBVIOUS
  <2>2. q = [r EXCEPT !.at = "next", !.todo = new] /\ r.at = "list" /\ UNCHANGED <<pages, queue, short, letGo, torn>>
    BY <1>2, <1>4, <1>7, <2>1 DEF M!List, M!vault, M!past
  <2>3. Filled(q) /\ q.at = "next" /\ q.rows = r.rows /\ q.kept = r.kept /\ q.rows = << >>
    BY <1>3, <2>2 DEF Filled, AtWork
  <2>4. OfFiling(q) /\ (Draining(q) => Draining(r)) /\ \A m : InProgress(r, m) => InProgress(q, m)
    BY <2>2, <2>3 DEF OfFiling, Draining, InProgress, Writing
  <2> QED
    BY <1>5, <2>2, <2>3, <2>4
<1>8. ASSUME NEW m \in M!All, M!Refused(m) PROVE DeepInv'
  <2>1. /\ q = [r EXCEPT !.todo = r.todo \ {m}, !.failed = r.failed \cup {m}] /\ r.at = "next"
        /\ UNCHANGED <<pages, queue, short, letGo, torn>>
    BY <1>2, <1>4, <1>8 DEF M!Refused, M!Next1, M!vault, M!past
  <2>2. Filled(q) /\ q.at = "next" /\ q.rows = r.rows /\ q.kept = r.kept /\ q.rows = << >>
    BY <1>3, <2>1 DEF Filled, AtWork
  <2>3. OfFiling(q) /\ (Draining(q) => Draining(r)) /\ \A k : InProgress(r, k) => InProgress(q, k)
    BY <2>1, <2>2 DEF OfFiling, Draining, InProgress, Writing
  <2> QED
    BY <1>5, <2>1, <2>2, <2>3
<1>9. ASSUME NEW m \in M!All, M!Begin(m) PROVE DeepInv'
  <2>1. PICK from : run' = [run EXCEPT !.at = "page", !.todo = @ \ {m},
                     !.filing = [id |-> m, name |-> M!NameFor(m), deep |-> from = "over_budget",
                                 from |-> IF from = "transcript" THEN from ELSE "summary",
                                 skip |-> {}, undo |-> {}]]
    BY <1>9, Zenon DEF M!Begin
  <2>2. PICK name, src : name = M!NameFor(m) /\ src = IF from = "transcript" THEN from ELSE "summary"
    OBVIOUS
  <2>3. q = [r EXCEPT !.at = "page", !.todo = r.todo \ {m},
                     !.filing = [id |-> m, name |-> name, deep |-> from = "over_budget",
                                 from |-> src, skip |-> {}, undo |-> {}]]
    BY <1>2, <1>4, <2>1, <2>2
  <2>4. r.at = "next" /\ pages[name] = None /\ UNCHANGED <<pages, queue, short, letGo, torn>>
    BY <1>2, <1>9, <2>2 DEF M!Begin, M!Next1, M!vault, M!stage
  <2>5. name \in M!Names
    BY <2>2 DEF M!NameFor, M!Names
  <2>6. /\ Filled(q) /\ q.at = "page" /\ q.rows = r.rows /\ q.kept = r.kept /\ q.rows = << >>
        /\ q.filing = [id |-> m, name |-> name, deep |-> from = "over_budget", from |-> src, skip |-> {}, undo |-> {}]
    BY <1>3, <2>3, <2>4 DEF Filled, AtWork
  <2>7. OfFiling(q)
    BY <2>4, <2>5, <2>6 DEF OfFiling, Writing
  <2>8. (Draining(q) => Draining(r)) /\ \A k : InProgress(r, k) => InProgress(q, k)
    BY <2>4, <2>6 DEF Draining, InProgress, Writing
  <2> QED
    BY <1>5, <2>4, <2>6, <2>7, <2>8
<1>10. CASE M!Promote \/ M!Mark \/ M!update_index
  <2>1. PICK to \in {"mark", "catalog", "after"} :
          q = [r EXCEPT !.at = to] /\ r.at \in Writing /\ UNCHANGED <<pages, queue, short, letGo, torn>>
    BY <1>2, <1>4, <1>10 DEF M!Promote, M!Mark, M!update_index, M!stage, M!past, Writing
  <2>2. Filled(q) /\ q.at = to /\ q.rows = r.rows /\ q.kept = r.kept /\ q.filing = r.filing
    BY <1>3, <2>1 DEF Filled
  <2>3. OfFiling(q)
    BY <1>3, <2>1, <2>2 DEF OfFiling, Writing
  <2>4. (Draining(q) => Draining(r)) /\ \A k : InProgress(r, k) => InProgress(q, k)
    BY <2>1, <2>2 DEF Draining, InProgress, Writing
  <2>5. q.at \in {"drain", "list", "next", "page"} \cup Writing /\ ~ q.at \in {"list", "next"}
    BY <2>2 DEF Writing
  <2> QED
    BY <1>5, <2>1, <2>2, <2>3, <2>4, <2>5
<1> QED
  BY <1>6, <1>7, <1>8, <1>9, <1>10

LEMMA PageWritten == ASSUME NoneIsNoFiling, DeepInv, M!WritePage PROVE DeepInv'
<1>1. run # None /\ AtWork(run) /\ OfFiling(run) /\ Remembered(run) /\ DeepTypes /\ run.at = "page"
  BY DEF DeepInv, M!WritePage
<1>2. PICK r : r = run
  OBVIOUS
<1>3. PICK q : q = run'
  OBVIOUS
<1>4. PICK fil : fil = r.filing
  OBVIOUS
<1>5. /\ Filled(r) /\ AtWork(r) /\ Remembered(r) /\ r.at = "page"
      /\ fil = [id |-> fil.id, name |-> fil.name, from |-> fil.from, deep |-> fil.deep,
                 skip |-> fil.skip, undo |-> fil.undo]
      /\ fil.name \in M!Names /\ fil.deep \in BOOLEAN
      /\ pages[fil.name] = None \/ pages[fil.name].id = fil.id
      /\ r.rows # << >> => fil.from = "transcript" /\ fil.deep = FALSE /\ fil.id = Head(r.rows).id
  BY <1>1, <1>2, <1>4 DEF Filled, AtWork, OfFiling
<1>6. /\ pages' = [pages EXCEPT ![fil.name] = [id |-> fil.id, from |-> fil.from]]
      /\ short' = IF fil.deep THEN short \cup {fil.id}
                  ELSE IF fil.from = "transcript" THEN short \ {fil.id} ELSE short
      /\ q = [r EXCEPT !.at = "promote"]
      /\ UNCHANGED <<queue, letGo, torn>>
  BY <1>2, <1>3, <1>4 DEF M!WritePage, M!f, M!stage
<1>7. Filled(q) /\ q.at = "promote" /\ q.rows = r.rows /\ q.kept = r.kept /\ q.filing = fil /\ q # None
  BY <1>4, <1>5, <1>6 DEF Filled, NoneIsNoFiling
<1>8. AtWork(q)
  BY <1>5, <1>7 DEF AtWork, Filled, Writing
<1>9. OfFiling(q)'
  <2>1. r.rows # << >> => fil.id \notin short'
    BY <1>5, <1>6
  <2> QED
    BY <1>5, <1>7, <2>1 DEF OfFiling, M!Names
<1>10. \A m \in StillOwed' : m \in StillOwed \/ (m = fil.id /\ fil.deep = TRUE)
  BY <1>5, <1>6 DEF StillOwed
<1>11. Remembered(q)'
  <2>1. ASSUME NEW m \in StillOwed' PROVE Waits(queue, m) \/ InProgress(q, m)
    <3>1. CASE m = fil.id /\ fil.deep = TRUE
      BY <1>7, <3>1 DEF InProgress, Writing
    <3>2. CASE m \in StillOwed
      BY <1>5, <3>2 DEF Remembered, InProgress, Writing
    <3> QED
      BY <1>10, <2>1, <3>1, <3>2
  <2>2. ASSUME Draining(q), NEW m \in StillOwed' PROVE Waits(q.rows, m) \/ Waits(q.kept, m)
    <3>1. r.rows # << >>
      BY <1>7, <2>2 DEF Draining
    <3>2. m \in StillOwed /\ Draining(r)
      BY <1>5, <1>10, <2>2, <3>1 DEF Draining
    <3> QED
      BY <1>5, <1>7, <3>2 DEF Remembered
  <2>3. queue' = queue
    BY <1>6
  <2>4. PICK ow : ow = StillOwed'
    OBVIOUS
  <2> QED
    BY <2>1, <2>2, <2>3 DEF Remembered, InProgress, Draining
<1>12. ASSUME NEW m \in StillOwed' PROVE HasPage(m)'
  <2>1. CASE m = fil.id
    BY <1>1, <1>5, <1>6, <2>1 DEF DeepTypes, HasPage, NoneIsNoFiling, M!Names
  <2>2. CASE m # fil.id
    <3>1. PICK n \in M!Names : pages[n] # None /\ pages[n].id = m
      BY <1>10, <1>12, <2>2 DEF DeepInv, HasPage
    <3>2. n # fil.name
      BY <1>5, <2>2, <3>1
    <3>3. pages'[n] # None /\ pages'[n].id = m
      BY <1>1, <1>6, <3>1, <3>2 DEF DeepTypes
    <3> QED
      BY <3>1, <3>3 DEF HasPage, M!Names
  <2> QED
    BY <2>1, <2>2
<1>13. DeepTypes'
  <2>1. pages' = [n \in M!Names |-> pages'[n]]
    BY <1>1, <1>6 DEF DeepTypes
  <2>2. RowsOf(queue')
    BY <1>1, <1>6 DEF DeepTypes
  <2> QED
    BY <2>1, <2>2 DEF DeepTypes, RowsOf, M!Names
<1>14. AtWork(run)' /\ OfFiling(run)' /\ Remembered(run)'
  <2>1. AtWork(run)'
    BY <1>3, <1>8 DEF AtWork
  <2>2. OfFiling(run)'
    BY <1>3, <1>9 DEF OfFiling
  <2>3. Remembered(run)'
    BY <1>3, <1>11 DEF Remembered, Draining, InProgress
  <2> QED
    BY <2>1, <2>2, <2>3
<1> QED
  BY <1>3, <1>7, <1>12, <1>13, <1>14 DEF DeepInv

(* A run that ends leaves in the queue what is owed.                        *)
LEMMA RunsOut ==
  ASSUME NoneIsNoFiling, DeepInv, M!Ends \/ M!Dies
  PROVE  DeepInv'
<1>1. run # None /\ AtWork(run) /\ OfFiling(run) /\ Remembered(run) /\ DeepTypes
  BY DEF DeepInv, M!Ends, M!Dies
<1>2. UNCHANGED <<pages, queue, short, letGo>> /\ run' = None
  BY DEF M!Ends, M!Dies, M!vault, M!past
<1>3. \A m \in StillOwed' : m \in StillOwed /\ ~ InProgress(run, m)
  <2>1. CASE M!Ends
    <3>1. torn' = torn /\ run.at = "next"
      BY <2>1 DEF M!Ends, M!past
    <3> QED
      BY <1>2, <3>1 DEF StillOwed, InProgress, Writing
  <2>2. CASE M!Dies
    <3>1. torn' = torn \cup run.gone \cup IF run.filing = None THEN {} ELSE {run.filing.name, run.filing.id}
      BY <2>2 DEF M!Dies, M!f
    <3>2. run.at \in Writing => run.filing # None
      BY <1>1 DEF OfFiling, NoneIsNoFiling
    <3> QED
      BY <1>2, <3>1, <3>2 DEF StillOwed, InProgress
  <2> QED
    BY <2>1, <2>2
<1>4. \A m \in StillOwed' : Waits(queue, m) /\ HasPage(m)
  BY <1>1, <1>3 DEF Remembered, DeepInv
<1>5. PICK ow : ow = StillOwed'
  OBVIOUS
<1>6. (\A m \in StillOwed : HasPage(m))' /\ (\A m \in StillOwed : Waits(queue, m))'
  BY <1>2, <1>4 DEF HasPage, M!Names
<1>7. DeepTypes'
  BY <1>1, <1>2 DEF DeepTypes, RowsOf, M!Names
<1> QED
  BY <1>2, <1>6, <1>7 DEF DeepInv

(* A run that begins takes the queue with it, or leaves it alone.           *)
LEMMA RunsStart ==
  ASSUME NoneIsNoFiling, DeepInv, M!Staged \/ M!Hour
  PROVE  DeepInv'
<1>1. run = None /\ DeepTypes /\ \A m \in StillOwed : HasPage(m) /\ Waits(queue, m)
  BY DEF DeepInv, M!Staged, M!Hour
<1>2. PICK q : q = run'
  OBVIOUS
<1>3. UNCHANGED <<pages, queue, short, letGo, torn>>
  BY DEF M!Staged, M!Hour, M!vault, M!past
<1>5. /\ Filled(q) /\ q.kept = << >>
      /\ \/ q.rows = << >> /\ q.at \in {"next", "list"}
         \/ q.rows = queue /\ q.at = "drain"
  <2>1. CASE M!Staged
    <3>1. PICK new : new = manifest \ M!Filed
      OBVIOUS
    <3>2. q = [M!Idle EXCEPT !.kind = "staged", !.todo = new]
      BY <1>2, <2>1, <3>1 DEF M!Staged
    <3> QED
      BY <3>2 DEF M!Idle, Filled
  <2>2. CASE M!Hour
    <3>1. PICK new : new = M!Newest(M!read_history, PerRun)
      OBVIOUS
    <3>2. \/ q = [M!Idle EXCEPT !.rows = queue, !.at = IF queue = << >> THEN "list" ELSE "drain"]
          \/ q = [M!Idle EXCEPT !.kind = "history", !.todo = new]
      BY <1>2, <2>2, <3>1, Zenon DEF M!Hour
    <3> QED
      BY <3>2 DEF M!Idle, Filled
  <2> QED
    BY <2>1, <2>2
<1>6. AtWork(q) /\ OfFiling(q) /\ q # None
  <2>1. RowsOf(<< >>) /\ RowsOf(queue)
    BY <1>1, NoRows DEF DeepTypes
  <2> QED
    BY <1>5, <2>1 DEF AtWork, OfFiling, Filled, Writing, NoneIsNoFiling
<1>7. \A m \in StillOwed : Waits(queue, m) /\ (Draining(q) => Waits(q.rows, m))
  BY <1>1, <1>5 DEF Draining
<1>8. PICK ow : ow = StillOwed
  OBVIOUS
<1>9. StillOwed' = ow
  BY <1>3, <1>8 DEF StillOwed
<1>10. DeepTypes' /\ (\A m \in StillOwed : HasPage(m))'
  BY <1>1, <1>3, <1>8, <1>9 DEF DeepTypes, HasPage, RowsOf
<1>11. AtWork(run)' /\ OfFiling(run)' /\ Remembered(run)'
  <2>1. AtWork(run)'
    BY <1>2, <1>6 DEF AtWork
  <2>2. OfFiling(run)'
    BY <1>2, <1>3, <1>6 DEF OfFiling
  <2>3. Remembered(run)'
    BY <1>2, <1>3, <1>7, <1>8, <1>9 DEF Remembered, Draining, InProgress
  <2> QED
    BY <2>1, <2>2, <2>3
<1> QED
  BY <1>2, <1>6, <1>10, <1>11 DEF DeepInv

LEMMA QueueWritten ==
  ASSUME NoneIsNoFiling, DeepInv, M!DrainEnds \/ (M!After /\ run.rows = << >>)
  PROVE  DeepInv'
<1>1. run # None /\ AtWork(run) /\ OfFiling(run) /\ Remembered(run) /\ DeepTypes
  BY DEF DeepInv, M!DrainEnds, M!After
<1>2. PICK r : r = run
  OBVIOUS
<1>3. PICK q : q = run'
  OBVIOUS
<1>4. Filled(r) /\ AtWork(r) /\ Remembered(r) /\ r.rows = << >> /\ UNCHANGED <<pages, short, letGo, torn>>
  BY <1>1, <1>2 DEF Filled, AtWork, M!DrainEnds, M!After, M!vault, M!past
<1>5. /\ Filled(q) /\ q.rows = << >> /\ q.kept = r.kept /\ q.at \in {"list", "next"}
      /\ RowsOf(queue') /\ \A m \in StillOwed : Waits(queue', m)
  <2>1. CASE M!DrainEnds
    <3>1. q = [r EXCEPT !.at = "list"] /\ queue' = r.kept /\ r.at = "drain"
      BY <1>2, <1>3, <2>1 DEF M!DrainEnds
    <3>2. \A m \in StillOwed : Waits(r.kept, m)
      BY <1>4, <3>1, NoRows DEF Remembered, Draining
    <3> QED
      BY <1>4, <3>1, <3>2 DEF Filled, AtWork
  <2>2. CASE M!After /\ run.rows = << >>
    <3>1. q = [r EXCEPT !.at = "next", !.filing = None, !.filed = r.filed \cup {r.filing.id}]
      BY <1>2, <1>3, <2>2 DEF M!After, M!f
    <3>2. r.at = "after" /\ queue' = IF r.filing.deep THEN M!queue_deep_read(r.filing.id, r.filing.name) ELSE queue
      BY <1>2, <2>2 DEF M!After, M!f
    <3>3. \A m \in StillOwed : Waits(queue, m) \/ (r.filing.deep /\ r.filing.id = m)
      BY <1>4 DEF Remembered, InProgress
    <3>4. PICK id, wrote, new : id = r.filing.id /\ wrote = M!_first_filing_record(r.filing.name)
                                /\ new = [id |-> id, attempts |-> 0, wrote |-> wrote]
      OBVIOUS
    <3>5. Shaped(new) /\ new.id = id
      BY <3>4 DEF Shaped
    <3>6. RowsOf(Append(queue, new)) /\ \A m : Waits(Append(queue, new), m) <=> Waits(queue, m) \/ id = m
      BY <1>1, <3>5, RowAppended DEF DeepTypes
    <3>7. \/ queue' = queue /\ (r.filing.deep => Waits(queue, id))
          \/ queue' = Append(queue, new)
      <4>1. CASE ~ r.filing.deep
        BY <3>2, <4>1
      <4>2. CASE r.filing.deep /\ Waits(queue, id)
        <5>1. \E i \in DOMAIN queue : queue[i].id = id
          BY <1>1, <4>2 DEF Waits, DeepTypes, RowsOf
        <5>2. queue' = queue
          BY <3>2, <3>4, <4>2, <5>1, Zenon DEF M!queue_deep_read
        <5> QED
          BY <4>2, <5>2
      <4>3. CASE r.filing.deep /\ ~ Waits(queue, id)
        <5>1. ~ \E i \in DOMAIN queue : queue[i].id = id
          BY <1>1, <4>3 DEF Waits, DeepTypes, RowsOf
        <5>2. queue' = Append(queue, new)
          BY <3>2, <3>4, <4>3, <5>1, Zenon DEF M!queue_deep_read
        <5> QED
          BY <5>2
      <4> QED
        BY <4>1, <4>2, <4>3
    <3>8. RowsOf(queue') /\ \A m \in StillOwed : Waits(queue', m)
      BY <1>1, <3>3, <3>4, <3>6, <3>7 DEF DeepTypes
    <3> QED
      BY <1>4, <3>1, <3>8 DEF Filled
  <2> QED
    BY <2>1, <2>2
<1>6. AtWork(q) /\ q # None
  BY <1>4, <1>5 DEF AtWork, Filled, NoneIsNoFiling
<1>7. PICK ow : ow = StillOwed
  OBVIOUS
<1>8. StillOwed' = ow
  BY <1>4, <1>7 DEF StillOwed
<1>9. DeepTypes' /\ (\A m \in StillOwed : HasPage(m))'
  <2>1. \A m \in StillOwed : HasPage(m)
    BY DEF DeepInv
  <2>2. (\A m \in StillOwed : HasPage(m))'
    BY <1>4, <1>7, <1>8, <2>1 DEF HasPage, M!Names
  <2> QED
    BY <1>1, <1>4, <1>5, <2>2 DEF DeepTypes, RowsOf, M!Names
<1>10. AtWork(run)' /\ OfFiling(run)' /\ Remembered(run)'
  <2>1. AtWork(run)'
    BY <1>3, <1>6 DEF AtWork
  <2>2. OfFiling(run)'
    BY <1>3, <1>5 DEF OfFiling, Writing
  <2>3. (\A m \in StillOwed : Waits(queue, m))'
    BY <1>5, <1>7, <1>8 DEF Waits
  <2>4. ~ Draining(run)'
    BY <1>3, <1>5 DEF Draining
  <2> QED
    BY <2>1, <2>2, <2>3, <2>4 DEF Remembered
<1> QED
  BY <1>3, <1>6, <1>9, <1>10 DEF DeepInv

(* Between two runs: the notetaker, setup's reading and the user.           *)
LEMMA NoRunSteps ==
  ASSUME NoneIsNoFiling, DeepInv,
         M!Held \/ M!Prefetch \/ (\E l \in lines : M!Touch(l)) \/ UNCHANGED <<pages, queue, run, short, letGo, torn>>
  PROVE  DeepInv'
<1>1. UNCHANGED <<pages, queue, run, short, letGo, torn>>
  BY DEF M!Held, M!Prefetch, M!Touch, M!vault, M!past
<1> QED
  BY <1>1 DEF DeepInv, DeepTypes, AtWork, OfFiling, Remembered, StillOwed, HasPage, InProgress, Draining, M!Names

LEMMA PageDiscarded == ASSUME NoneIsNoFiling, DeepInv, NEW n \in M!Names, M!Discard(n) PROVE DeepInv'
<1>1. /\ run = None /\ pages[n] # None /\ pages' = [pages EXCEPT ![n] = None]
      /\ torn' = torn \cup {n, pages[n].id} /\ short' = short \ {pages[n].id} /\ UNCHANGED <<run, queue, letGo>>
  BY DEF M!Discard
<1>2. DeepTypes /\ \A m \in StillOwed : HasPage(m) /\ Waits(queue, m)
  BY <1>1 DEF DeepInv
<1>3. \A m \in StillOwed' : m \in StillOwed /\ m # pages[n].id
  BY <1>1 DEF StillOwed
<1>4. ASSUME NEW m \in StillOwed' PROVE HasPage(m)' /\ Waits(queue, m)
  <2>1. PICK k \in M!Names : pages[k] # None /\ pages[k].id = m
    BY <1>2, <1>3 DEF HasPage
  <2>2. pages'[k] # None /\ pages'[k].id = m
    BY <1>1, <1>2, <1>3, <2>1 DEF DeepTypes
  <2> QED
    BY <1>2, <1>3, <2>1, <2>2 DEF HasPage, M!Names
<1>5. DeepTypes'
  <2>1. pages' = [k \in M!Names |-> pages'[k]]
    BY <1>1, <1>2 DEF DeepTypes
  <2> QED
    BY <1>1, <1>2, <2>1 DEF DeepTypes, RowsOf, M!Names
<1>6. (\A m \in StillOwed : Waits(queue, m))'
  <2>1. PICK ow : ow = StillOwed'
    OBVIOUS
  <2> QED
    BY <1>1, <1>4 DEF Waits
<1> QED
  BY <1>1, <1>4, <1>5, <1>6 DEF DeepInv

LEMMA FilingInit == ASSUME M!Init PROVE DeepInv
<1>1. pages = [n \in M!Names |-> None] /\ queue = << >> /\ run = None /\ short = {}
  BY DEF M!Init
<1>2. RowsOf(queue)
  BY <1>1, NoRows
<1>3. pages = [n \in M!Names |-> pages[n]]
  BY <1>1
<1> QED
  BY <1>1, <1>2, <1>3 DEF DeepInv, DeepTypes, StillOwed

LEMMA FilingNext == ASSUME NoneIsNoFiling, DeepInv, [M!Next]_(M!vars) PROVE DeepInv'
<1>1. CASE M!DrainKeeps \/ M!DrainMissesPage \/ M!DrainCapped \/ M!DrainFails \/ M!DrainRefused
  BY <1>1, DrainSteps
<1>2. CASE M!DrainReads \/ M!List \/ M!Promote \/ M!Mark \/ M!update_index \/ \E m \in M!All : M!Refused(m) \/ M!Begin(m)
  BY <1>2, FilingSteps
<1>3. CASE M!WritePage
  BY <1>3, PageWritten
<1>4. CASE M!After
  BY <1>4, DrainSteps, QueueWritten
<1>5. CASE M!DrainEnds
  BY <1>5, QueueWritten
<1>6. CASE M!Ends \/ M!Dies
  BY <1>6, RunsOut
<1>7. CASE M!Staged \/ M!Hour
  BY <1>7, RunsStart
<1>8. CASE M!Held \/ M!Prefetch \/ \E l \in lines : M!Touch(l)
  BY <1>8, NoRunSteps
<1>9. CASE \E n \in M!Names : M!Discard(n)
  BY <1>9, PageDiscarded
<1>10. CASE UNCHANGED M!vars
  <2>1. UNCHANGED <<pages, queue, run, short, letGo, torn>>
    BY <1>10 DEF M!vars, M!vault, M!past
  <2> QED
    BY <2>1, NoRunSteps
<1> QED
  BY <1>1, <1>2, <1>3, <1>4, <1>5, <1>6, <1>7, <1>8, <1>9, <1>10 DEF M!Next, M!Moves

(* DeepReadKept: for any meetings, titles, action items, calls that cannot  *)
(* be read and limits, and any number of deaths, faults and touches by the  *)
(* user: between two runs, a meeting filed from its summary for want of     *)
(* time is in the queue, or was tried as often as the limit says, or a      *)
(* death or the user came between its page and its row (run_staged,         *)
(* queue_deep_read, drain_deep_reads).                                      *)
THEOREM DeepReadKeptAlways == ASSUME NoneIsNoFiling PROVE VaultSpec => []DeepReadKept
<1>1. VaultInit => DeepInv
  BY FilingInit DEF VaultInit
<1>2. DeepInv /\ [VaultNext]_all => DeepInv'
  <2> SUFFICES ASSUME DeepInv, [VaultNext]_all PROVE DeepInv'
    OBVIOUS
  <2>1. M!Next \/ UNCHANGED filing
    BY DEF VaultNext, all
  <2>2. UNCHANGED filing => DeepInv'
    BY NoRunSteps DEF filing
  <2> QED
    BY <2>1, <2>2, FilingNext
<1>3. DeepInv => DeepReadKept
  <2> SUFFICES ASSUME DeepInv, run = None, NEW m \in short, m \notin letGo \cup torn
      PROVE \E i \in DOMAIN queue : queue[i].id = m
    BY DEF DeepReadKept, M!DeepReadKept
  <2>1. Waits(queue, m) /\ RowsOf(queue)
    BY DEF DeepInv, StillOwed, DeepTypes
  <2> QED
    BY <2>1 DEF Waits, RowsOf
<1> QED
  BY <1>1, <1>2, <1>3, PTL DEF VaultSpec
-----------------------------------------------------------------------------
(* One set of lines a page, for any meetings.  The inductive invariant says *)
(* whose each page is, what the rows of the queue know of the lines on it,  *)
(* and, while a process is at work, which rows and names are still free of  *)
(* what it has written.                                                     *)
(* The rows of a queue as a set; a queue has one row a meeting.             *)
In(s) == {s[i] : i \in 1 .. Len(s)}
Distinct(s) == \A i, j \in 1 .. Len(s) : s[i].id = s[j].id => i = j

(* What a filing took over, and what it is writing at a row's turn.         *)
Replaced(r) == IF r = None THEN {} ELSE r.gone
Busy(r) == IF r # None /\ r.at \in Writing /\ r.rows # << >> THEN {r.filing.name} ELSE {}
Untouched(l) == [l EXCEPT !.touched = FALSE]
ALine(l) ==
  /\ l = [place |-> l.place, name |-> l.name, item |-> l.item, words |-> l.words, touched |-> l.touched]
  /\ l.place \in M!Places /\ l.name \in M!Names /\ l.touched \in BOOLEAN

(* Pages are held by one meeting each, under its title or, when the title   *)
(* is another's, under a name of its own; lines are on pages that are there.*)
PageHeld(n, m) == pages[n] # None /\ pages[n].id = m
Taken(m) == Titled[m] \in torn \/ (pages[Titled[m]] # None /\ pages[Titled[m]].id # m)
PagesHeld ==
  /\ \A n \in M!Names : pages[n] # None => pages[n].id \in M!All /\ n \in {pages[n].id, Titled[pages[n].id]}
  /\ \A m \in M!All : pages[m] # None \/ m \in torn => Taken(m)
  /\ \A n, k \in M!Names : pages[n] # None /\ pages[k] # None /\ pages[n].id = pages[k].id => n = k
  /\ \A l \in lines : ALine(l) /\ (l.name \in torn \/ pages[l.name] # None)

(* A row of the queue knows the lines that the first filing wrote: what is  *)
(* on the page now is one of them, or one of them that was touched.         *)
Homed(row) == \A p \in M!Places : \A l \in row.wrote[p] :
  /\ ALine(l) /\ l.place = p /\ ~ l.touched /\ (l.name \in torn \/ PageHeld(l.name, row.id))
  /\ \A k \in row.wrote[p] : k.name = l.name /\ l.name \notin torn => k.words = l.words
Known(row, l, p) == IF l.touched THEN Untouched(l) \in row.wrote[p] \ lines ELSE l \in row.wrote[p]
Whole(row, r) == M!PageOf(row.id) \ (torn \cup Replaced(r) \cup Busy(r))
Recorded(row, r) == \A n \in Whole(row, r) : \A p \in M!Places : \A l \in M!At(p, n) : Known(row, l, p)
OfRow(row) == Homed(row) /\ (row.id \in torn \/ HasPage(row.id))
Queued(r) == Distinct(queue) /\ \A row \in In(queue) : OfRow(row) /\ Recorded(row, r)

(* The rows that the drain has still to do, and those it keeps.             *)
Due(row, r) ==
  /\ \E old \in In(queue) : old.id = row.id /\ old.wrote = row.wrote
  /\ M!PageOf(row.id) \cap r.gone = {}
ToDrain(r) ==
  /\ Distinct(r.rows) /\ Distinct(r.kept)
  /\ \A row \in In(r.rows) : Due(row, r) /\ \A k \in In(r.kept) : k.id # row.id
  /\ \A k \in In(r.kept) : Due(k, r)
Drained(r) == IF Draining(r) THEN ToDrain(r) ELSE \A row \in In(queue) : M!PageOf(row.id) \cap r.gone = {}

(* A first filing finds its page free, a deep one its own with no line left *)
(* that it is to write again.                                               *)
FirstTime(f, r) ==
  /\ f.skip = {} /\ f.name \notin r.gone /\ f.id \notin r.todo
  /\ r.at = "page" => pages[f.name] = None /\ ~ HasPage(f.id)
  /\ f.name \in torn \/ ((\A row \in In(queue) : row.id # f.id) /\ \A l \in lines : l.name = f.name => ~ l.touched)
Again(f, r) ==
  /\ PageHeld(f.name, f.id)
  /\ r.at = "page" => f.undo = UNION {Head(r.rows).wrote[p] : p \in M!Places \ f.skip}
Fresh(f, r) == \A p \in M!Places \ f.skip : \A l \in M!At(p, f.name) : l.words = M!Reads(f.id, f.from) /\ r.at # "page"
AtFiling(f, r) ==
  /\ f.id \in M!All /\ f.name \in {f.id, Titled[f.id]} /\ (f.name = f.id => Taken(f.id))
  /\ r.at \in Writing => PageHeld(f.name, f.id)
  /\ f.name \in torn \/ Fresh(f, r)
  /\ IF r.rows = << >> THEN FirstTime(f, r) ELSE Again(f, r)
Filing(r) == IF r.at \in {"page"} \cup Writing THEN AtFiling(r.filing, r) ELSE r.filing = None
Underhand(r) ==
  /\ Drained(r) /\ Filing(r)
  /\ \A n \in r.gone : n \in M!Names /\ pages[n] # None
  /\ \A m \in r.todo : ~ HasPage(m)

SetInv == PagesHeld /\ Queued(run) /\ OneSet /\ (run # None => Underhand(run))

LEMMA InNone == In(<< >>) = {} /\ Distinct(<< >>)
<1>1. 1 .. Len(<< >>) = {}
  BY EmptySeq
<1> QED
  BY <1>1 DEF In, Distinct

LEMMA InAppended ==
  ASSUME NEW s, NEW row, RowsOf(s)
  PROVE  /\ In(Append(s, row)) = In(s) \cup {row}
         /\ Distinct(s) /\ (\A x \in In(s) : x.id # row.id) => Distinct(Append(s, row))
<1>1. PICK R : s \in Seq(R)
  BY DEF RowsOf
<1>2. s \in Seq(R \cup {row}) /\ row \in R \cup {row}
  BY <1>1, SeqMonotonic
<1>3. /\ Len(Append(s, row)) = Len(s) + 1 /\ Len(s) \in Nat
      /\ Append(s, row)[Len(s) + 1] = row /\ \A i \in 1 .. Len(s) : Append(s, row)[i] = s[i]
  BY <1>2, AppendProperties, LenProperties
<1>4. PICK t, k : t = Append(s, row) /\ k = Len(s)
  OBVIOUS
<1>5. k \in Nat /\ Len(t) = k + 1 /\ t[k + 1] = row /\ \A i \in 1 .. k : t[i] = s[i]
  BY <1>3, <1>4
<1>6. In(t) = In(s) \cup {row}
  <2>1. ASSUME NEW x \in In(t) PROVE x \in In(s) \cup {row}
    <3>1. PICK i \in 1 .. k + 1 : x = t[i]
      BY <1>5, <2>1 DEF In
    <3>2. CASE i \in 1 .. k
      BY <1>4, <1>5, <3>1, <3>2 DEF In
    <3>3. CASE i = k + 1
      BY <1>5, <3>1, <3>3
    <3> QED
      BY <1>5, <3>1, <3>2, <3>3
  <2>2. ASSUME NEW x \in In(s) PROVE x \in In(t)
    <3>1. PICK i \in 1 .. k : x = s[i]
      BY <1>4, <2>2 DEF In
    <3>2. i \in 1 .. Len(t) /\ x = t[i]
      BY <1>5, <3>1
    <3> QED
      BY <3>2 DEF In
  <2>3. row \in In(t)
    <3>1. k + 1 \in 1 .. Len(t)
      BY <1>5
    <3> QED
      BY <1>5, <3>1 DEF In
  <2> QED
    BY <2>1, <2>2, <2>3
<1>7. ASSUME Distinct(s), \A x \in In(s) : x.id # row.id PROVE Distinct(t)
  <2>1. \A i \in 1 .. k : s[i].id # row.id
    BY <1>4, <1>7 DEF In
  <2>2. \A i, j \in 1 .. k : s[i].id = s[j].id => i = j
    BY <1>4, <1>7 DEF Distinct
  <2>3. ASSUME NEW i \in 1 .. k + 1, NEW j \in 1 .. k + 1, t[i].id = t[j].id PROVE i = j
    <3>1. i \in 1 .. k \/ i = k + 1
      BY <1>5
    <3>2. j \in 1 .. k \/ j = k + 1
      BY <1>5
    <3> QED
      BY <1>5, <2>1, <2>2, <2>3, <3>1, <3>2
  <2> QED
    BY <1>5, <2>3 DEF Distinct
<1> QED
  BY <1>4, <1>6, <1>7

LEMMA InTaken ==
  ASSUME NEW s, RowsOf(s), s # << >>
  PROVE  /\ Head(s) \in In(s) /\ In(Tail(s)) \subseteq In(s)
         /\ Distinct(s) => Distinct(Tail(s)) /\ \A x \in In(Tail(s)) : x.id # Head(s).id
<1>1. PICK R : s \in Seq(R)
  BY DEF RowsOf
<1>2. PICK t, h, k : t = Tail(s) /\ h = Head(s) /\ k = Len(s)
  OBVIOUS
<1>3. k \in Nat /\ k > 0 /\ Len(t) = k - 1 /\ h = s[1] /\ \A i \in 1 .. k - 1 : t[i] = s[i + 1]
  BY <1>1, <1>2, HeadTailProperties, LenProperties, EmptySeq
<1>4. h \in In(s)
  <2>1. 1 \in 1 .. Len(s)
    BY <1>2, <1>3
  <2> QED
    BY <1>3, <2>1 DEF In
<1>5. ASSUME NEW x \in In(t) PROVE \E i \in 2 .. k : x = s[i]
  <2>1. PICK i \in 1 .. k - 1 : x = t[i]
    BY <1>3, <1>5 DEF In
  <2>2. i + 1 \in 2 .. k /\ x = s[i + 1]
    BY <1>3, <2>1
  <2> QED
    BY <2>2
<1>6. In(t) \subseteq In(s)
  <2>1. \A i \in 2 .. k : i \in 1 .. Len(s)
    BY <1>2, <1>3
  <2> QED
    BY <1>5, <2>1 DEF In
<1>7. ASSUME Distinct(s) PROVE Distinct(t) /\ \A x \in In(t) : x.id # h.id
  <2>1. \A i, j \in 1 .. k : s[i].id = s[j].id => i = j
    BY <1>2, <1>7 DEF Distinct
  <2>2. ASSUME NEW x \in In(t) PROVE x.id # h.id
    <3>1. PICK i \in 2 .. k : x = s[i]
      BY <1>5, <2>2
    <3>2. i \in 1 .. k /\ 1 \in 1 .. k /\ i # 1
      BY <1>3, <3>1
    <3> QED
      BY <1>3, <2>1, <3>1, <3>2
  <2>3. ASSUME NEW i \in 1 .. k - 1, NEW j \in 1 .. k - 1, t[i].id = t[j].id PROVE i = j
    <3>1. i + 1 \in 1 .. k /\ j + 1 \in 1 .. k /\ s[i + 1].id = s[j + 1].id
      BY <1>3, <2>3
    <3>2. i + 1 = j + 1
      BY <2>1, <3>1
    <3> QED
      BY <3>2
  <2> QED
    BY <1>3, <2>2, <2>3 DEF Distinct
<1> QED
  BY <1>2, <1>4, <1>6, <1>7

LEMMA OneRow == ASSUME NEW s, Distinct(s), NEW x \in In(s), NEW y \in In(s), x.id = y.id PROVE x = y
  BY DEF In, Distinct

(* No step takes a page from a meeting, or a tear from a name, unless it    *)
(* tears the page.                                                          *)
Steady ==
  /\ torn \subseteq torn'
  /\ \A n \in M!Names : \A m : PageHeld(n, m) => n \in torn' \/ PageHeld(n, m)'
  /\ \A m : HasPage(m) => m \in torn' \/ HasPage(m)'

LEMMA RowStays == ASSUME NEW row, OfRow(row), Steady PROVE OfRow(row)'
<1>1. Homed(row)'
  BY DEF OfRow, Homed, Steady, ALine, M!Names, M!Places
<1>2. (row.id \in torn \/ HasPage(row.id))'
  BY DEF OfRow, Steady
<1> QED
  BY <1>1, <1>2 DEF OfRow

(* A step that leaves the lines and the queue alone, and the pages but for  *)
(* what it tears.                                                           *)
LEMMA QueueStays ==
  ASSUME SetInv, NEW q, UNCHANGED <<lines, queue>>, Steady,
         \A row \in In(queue) : Whole(row, q)' \subseteq Whole(row, run)
  PROVE  Queued(q)'
<1>1. PICK Q : Q = In(queue)
  OBVIOUS
<1>2. In(queue') = Q /\ Distinct(queue')
  BY <1>1 DEF SetInv, Queued
<1>3. ASSUME NEW row \in Q PROVE OfRow(row)' /\ Recorded(row, q)'
  <2>1. OfRow(row) /\ Recorded(row, run)
    BY <1>1, <1>3 DEF SetInv, Queued
  <2>2. Whole(row, q)' \subseteq Whole(row, run)
    BY <1>1, <1>3
  <2>3. Recorded(row, q)'
    <3> SUFFICES ASSUME NEW n \in Whole(row, q)', NEW p \in M!Places, NEW l \in M!At(p, n)' PROVE Known(row, l, p)'
      BY DEF Recorded, M!Places
    <3>1. n \in Whole(row, run) /\ l \in M!At(p, n)
      BY <2>2 DEF M!At
    <3>2. Known(row, l, p)
      BY <2>1, <3>1 DEF Recorded
    <3> QED
      BY <3>2 DEF Known
  <2> QED
    BY <2>1, <2>3, RowStays
<1> QED
  BY <1>2, <1>3 DEF Queued

(* A step of the run by itself: pages, lines, queue and tears are the same. *)
LEMMA RunOnly ==
  ASSUME SetInv, NEW q, q = run', UNCHANGED <<pages, lines, queue, torn>>,
         q # None => Underhand(q) /\ (q.at \in Writing => readings' = readings),
         \A row \in In(queue) : Whole(row, q) \subseteq Whole(row, run)
  PROVE  SetInv'
<1>1. PagesHeld' /\ OneSet'
  BY DEF SetInv, PagesHeld, OneSet, M!OneSet, Taken, M!Names, M!All, ALine, M!Places
<1>2. Steady
  BY DEF Steady, PageHeld, HasPage, M!Names
<1>3. \A row \in In(queue) : Whole(row, q)' = Whole(row, q)
  BY DEF Whole, M!PageOf, M!Names, Replaced, Busy
<1>4. Queued(q)'
  BY <1>2, <1>3, QueueStays
<1>5. ASSUME q # None PROVE Underhand(q)'
  <2>1. Underhand(q) /\ (q.at \in Writing => readings' = readings)
    BY <1>5
  <2>2. Drained(q)'
    BY <2>1 DEF Underhand, Drained, ToDrain, Due, Draining, M!PageOf, M!Names
  <2>3. Filing(q)'
    <3>1. CASE q.at \notin {"page"} \cup Writing
      BY <2>1, <3>1 DEF Underhand, Filing, Writing
    <3>2. CASE q.at \in {"page"} \cup Writing
      <4>1. PICK f : f = q.filing
        OBVIOUS
      <4>2. AtFiling(f, q)
        BY <2>1, <3>2, <4>1 DEF Underhand, Filing
      <4>3. (f.name \in torn \/ Fresh(f, q))'
        <5>1. CASE f.name \in torn
          BY <5>1
        <5>2. CASE Fresh(f, q) /\ q.at = "page"
          BY <5>2 DEF Fresh, M!At, M!Places
        <5>3. CASE Fresh(f, q) /\ q.at # "page"
          <6>1. readings' = readings
            BY <2>1, <3>2, <5>3
          <6> QED
            BY <5>3, <6>1 DEF Fresh, M!At, M!Reads, M!Words, M!Places
        <5> QED
          BY <4>2, <5>1, <5>2, <5>3 DEF AtFiling
      <4>4. (IF q.rows = << >> THEN FirstTime(f, q) ELSE Again(f, q))'
        BY <4>2 DEF AtFiling, FirstTime, Again, PageHeld, HasPage, M!Names, M!Places
      <4>5. AtFiling(f, q)'
        BY <4>2, <4>3, <4>4 DEF AtFiling, PageHeld, Taken, M!All, Writing
      <4> QED
        BY <3>2, <4>1, <4>5 DEF Filing, Writing
    <3> QED
      BY <3>1, <3>2
  <2>4. (\A n \in q.gone : n \in M!Names /\ pages[n] # None)' /\ (\A m \in q.todo : ~ HasPage(m))'
    BY <2>1 DEF Underhand, HasPage, M!Names
  <2> QED
    BY <2>2, <2>3, <2>4 DEF Underhand
<1>6. Queued(run)' /\ (run # None => Underhand(run))'
  <2>1. Queued(run)'
    BY <1>4 DEF Queued, Recorded, Whole, Replaced, Busy
  <2>2. q # None => Underhand(run)'
    BY <1>5 DEF Underhand, Drained, ToDrain, Due, Filing, AtFiling, FirstTime, Again, Fresh
  <2> QED
    BY <2>1, <2>2
<1> QED
  BY <1>1, <1>6 DEF SetInv

(* What a row's turn leaves of the run.                                     *)
LeftOf(r, q) ==
  /\ q # None /\ q.at = "drain" /\ q.rows = Tail(r.rows) /\ q.todo = r.todo
  /\ q.filing = None \/ (r.at = "drain" /\ q.filing = r.filing)
KeptOf(r, q, row) == q.kept = r.kept \/ \E x : q.kept = Append(r.kept, x) /\ Shaped(x) /\ x.id = row.id /\ x.wrote = row.wrote

Moved(r, q) == r = run /\ q = run'
LEMMA TurnTaken ==
  ASSUME NoneIsNoFiling, NEW r, NEW q, Moved(r, q), Filled(r), NEW row, row = Head(r.rows), Shaped(row),
         \/ M!DrainKeeps \/ M!DrainMissesPage \/ M!DrainCapped \/ M!DrainFails \/ M!DrainRefused
         \/ M!After /\ r.rows # << >>
  PROVE  /\ LeftOf(r, q) /\ KeptOf(r, q, row)
         /\ M!After \/ q.gone = r.gone
         /\ M!After => q.gone = r.gone \cup {r.filing.name} /\ q.kept = r.kept
<1>0. r = [kind |-> r.kind, at |-> r.at, rows |-> r.rows, kept |-> r.kept, tried |-> r.tried, capped |-> r.capped,
           todo |-> r.todo, filing |-> r.filing, filed |-> r.filed, failed |-> r.failed, gone |-> r.gone]
  BY DEF Filled
<1>1. PICK left, more, tries : left = Tail(r.rows) /\ more = [row EXCEPT !.attempts = row.attempts + 1] /\ tries = r.tried + 1
  OBVIOUS
<1>2. Shaped(more) /\ more.id = row.id /\ more.wrote = row.wrote
  BY <1>1 DEF Shaped
<1>3. PICK keep, keepMore : keep = Append(r.kept, row) /\ keepMore = Append(r.kept, more)
  OBVIOUS
<1>4. ASSUME NEW t, NEW k, NEW c, NEW w, NEW g, q = Turned(r, left, t, k, c, w, g), k \in {r.kept, keep, keepMore},
             w = None \/ (r.at = "drain" /\ w = r.filing)
      PROVE  LeftOf(r, q) /\ KeptOf(r, q, row) /\ q.gone = g /\ q.kept = k
  <2>1. q = [kind |-> r.kind, at |-> "drain", rows |-> left, kept |-> k, tried |-> t, capped |-> c,
             todo |-> r.todo, filing |-> w, filed |-> r.filed, failed |-> r.failed, gone |-> g]
    BY <1>0, <1>4 DEF Turned
  <2>4. /\ q # None /\ q.at = "drain" /\ q.rows = left /\ q.kept = k /\ q.gone = g /\ q.todo = r.todo
        /\ q.filing = w
    BY <2>1 DEF NoneIsNoFiling
  <2>2. LeftOf(r, q) /\ q.gone = g /\ q.kept = k
    BY <1>1, <1>4, <2>4 DEF LeftOf
  <2>3. KeptOf(r, q, row)
    BY <1>2, <1>3, <1>4, <2>2 DEF KeptOf
  <2> QED
    BY <2>2, <2>3
<1>5. CASE M!DrainKeeps \/ M!DrainCapped
  <2>1. /\ r.at = "drain" /\ ~ M!After
        /\ \/ q = [r EXCEPT !.rows = left, !.tried = tries, !.kept = keep]
           \/ q = [[r EXCEPT !.rows = left, !.tried = tries, !.kept = keep] EXCEPT !.capped = TRUE]
    BY <1>1, <1>3, <1>5 DEF M!DrainKeeps, M!DrainCapped, M!Passed, M!Row, M!ThisRun, M!Reading, M!After, Moved
  <2>2. \/ q = Turned(r, left, tries, keep, r.capped, r.filing, r.gone)
        \/ q = Turned(r, left, tries, keep, TRUE, r.filing, r.gone)
    BY <2>1 DEF Turned, Filled
  <2>3. ASSUME NEW c, q = Turned(r, left, tries, keep, c, r.filing, r.gone)
        PROVE  LeftOf(r, q) /\ KeptOf(r, q, row) /\ q.gone = r.gone
    BY <1>4, <2>1, <2>3
  <2> QED
    BY <2>1, <2>2, <2>3, Zenon
<1>6. CASE M!DrainMissesPage
  <2>1. r.at = "drain" /\ ~ M!After /\ q = [r EXCEPT !.rows = left, !.tried = tries]
    BY <1>1, <1>6 DEF M!DrainMissesPage, M!Dropped, M!Row, M!Reading, M!After, Moved
  <2>2. q = Turned(r, left, tries, r.kept, r.capped, r.filing, r.gone)
    BY <2>1 DEF Turned, Filled
  <2> QED
    BY <1>4, <2>1, <2>2
<1>7. CASE M!DrainFails \/ M!DrainRefused
  <2>1. PICK s : s = M!Spent(row)
    OBVIOUS
  <2>2. \/ s = [r EXCEPT !.rows = left, !.tried = tries]
        \/ s = [r EXCEPT !.rows = left, !.tried = tries, !.kept = keepMore]
    BY <1>1, <1>3, <2>1, Zenon DEF M!Spent, M!Dropped, M!Passed, Moved
  <2>3. /\ ~ M!After
        /\ \/ q = s /\ r.at = "drain"
           \/ q = [s EXCEPT !.at = "drain", !.filing = None] /\ r.at = "page"
    BY <1>7, <2>1 DEF M!DrainFails, M!DrainRefused, M!ThisRun, M!Reading, M!Row, M!After, Moved
  <2>4. PICK k \in {r.kept, keepMore} : s = [r EXCEPT !.rows = left, !.tried = tries, !.kept = k]
    <3>1. s = [r EXCEPT !.rows = left, !.tried = tries] => s = [r EXCEPT !.rows = left, !.tried = tries, !.kept = r.kept]
      BY DEF Filled
    <3> QED
      BY <2>2, <3>1
  <2>5. CASE q = s /\ r.at = "drain"
    <3>1. q = Turned(r, left, tries, k, r.capped, r.filing, r.gone)
      BY <2>4, <2>5 DEF Turned, Filled
    <3> QED
      BY <1>4, <2>3, <2>4, <2>5, <3>1
  <2>6. CASE q = [s EXCEPT !.at = "drain", !.filing = None]
    <3>1. q = Turned(r, left, tries, k, r.capped, None, r.gone)
      BY <2>4, <2>6 DEF Turned, Filled
    <3> QED
      BY <1>4, <2>3, <2>4, <3>1
  <2> QED
    BY <2>3, <2>5, <2>6
<1>8. CASE M!After /\ r.rows # << >>
  <2>1. q = [[r EXCEPT !.rows = left, !.tried = tries]
               EXCEPT !.at = "drain", !.filing = None, !.gone = r.gone \cup {r.filing.name}]
    BY <1>1, <1>8 DEF M!After, M!Dropped, M!f, Moved
  <2>2. PICK g : g = r.gone \cup {r.filing.name}
    OBVIOUS
  <2>3. q = Turned(r, left, tries, r.kept, r.capped, None, g)
    BY <2>1, <2>2 DEF Turned, Filled
  <2> QED
    BY <1>4, <1>8, <2>2, <2>3
<1> QED
  BY <1>5, <1>6, <1>7, <1>8

(* The rows that are left are due, and those kept, after a row's turn.      *)
LEMMA LeftIsDue ==
  ASSUME SetInv, NEW r, r = run, r # None, NEW q, NEW row, row = Head(r.rows), r.rows # << >>,
         RowsOf(r.rows), RowsOf(r.kept), q.rows = Tail(r.rows), q.at = "drain", KeptOf(r, q, row),
         q.gone = r.gone \/ (q.kept = r.kept /\ \E n : PageHeld(n, row.id) /\ n \in M!Names /\ q.gone = r.gone \cup {n})
  PROVE  ToDrain(q)
<1>1. ToDrain(r) /\ PagesHeld
  BY DEF SetInv, Underhand, Drained, Draining
<1>2. row \in In(r.rows) /\ In(q.rows) \subseteq In(r.rows) /\ Distinct(q.rows) /\ \A x \in In(q.rows) : x.id # row.id
  BY <1>1, InTaken DEF ToDrain
<1>3. \A x \in In(r.kept) : x.id # row.id
  BY <1>1, <1>2 DEF ToDrain
<1>4. PICK x : /\ q.kept = r.kept \/ (q.kept = Append(r.kept, x) /\ q.gone = r.gone)
               /\ x.id = row.id /\ x.wrote = row.wrote
  BY DEF KeptOf
<1>5. In(q.kept) \subseteq In(r.kept) \cup {x} /\ Distinct(q.kept) /\ (q.gone = r.gone \/ In(q.kept) = In(r.kept))
  <2>1. CASE q.kept = r.kept
    BY <1>1, <2>1 DEF ToDrain
  <2>2. CASE q.kept = Append(r.kept, x) /\ q.gone = r.gone
    <3>1. In(q.kept) = In(r.kept) \cup {x} /\ Distinct(q.kept)
      BY <1>1, <1>3, <1>4, <2>2, InAppended DEF ToDrain
    <3> QED
      BY <2>2, <3>1
  <2> QED
    BY <1>4, <2>1, <2>2
<1>6. Due(x, r)
  BY <1>1, <1>2, <1>4 DEF ToDrain, Due
<1>7. ASSUME NEW y, Due(y, r), y.id # row.id \/ q.gone = r.gone PROVE Due(y, q)
  <2>1. CASE q.gone = r.gone
    BY <1>7, <2>1 DEF Due
  <2>2. CASE y.id # row.id /\ q.gone # r.gone
    <3>1. PICK n : PageHeld(n, row.id) /\ n \in M!Names /\ q.gone = r.gone \cup {n}
      BY <2>2
    <3>2. n \notin M!PageOf(y.id)
      BY <2>2, <3>1 DEF M!PageOf, PageHeld
    <3> QED
      BY <1>7, <3>1, <3>2 DEF Due
  <2> QED
    BY <1>7, <2>1, <2>2
<1>8. ASSUME NEW y \in In(q.rows) PROVE Due(y, q) /\ \A k \in In(q.kept) : k.id # y.id
  <2>1. y \in In(r.rows) /\ y.id # row.id /\ Due(y, r) /\ \A k \in In(r.kept) : k.id # y.id
    BY <1>1, <1>2, <1>8 DEF ToDrain
  <2> QED
    BY <1>4, <1>5, <1>7, <2>1
<1>9. ASSUME NEW k \in In(q.kept) PROVE Due(k, q)
  <2>1. CASE k \in In(r.kept)
    BY <1>1, <1>3, <1>7, <2>1 DEF ToDrain
  <2>2. CASE k \notin In(r.kept)
    BY <1>5, <1>6, <1>7, <1>9, <2>2
  <2> QED
    BY <2>1, <2>2
<1> QED
  BY <1>2, <1>5, <1>8, <1>9 DEF ToDrain

LEMMA RowsTurn ==
  ASSUME NoneIsNoFiling, DeepInv, SetInv,
         \/ M!DrainKeeps \/ M!DrainMissesPage \/ M!DrainCapped \/ M!DrainFails
         \/ M!After /\ run.rows # << >>
  PROVE  SetInv'
<1>1. PICK r, q, row : r = run /\ q = run' /\ row = Head(r.rows)
  OBVIOUS
<1>2. /\ run # None /\ AtWork(run) /\ OfFiling(run) /\ Underhand(run) /\ run.rows # << >>
      /\ run.at = "drain" \/ (M!After /\ run.at = "after")
  BY DEF DeepInv, SetInv, M!DrainKeeps, M!DrainMissesPage, M!DrainCapped, M!DrainFails, M!After, M!Reading, M!ThisRun
<1>3. /\ Moved(r, q) /\ Filled(r) /\ r # None /\ RowsOf(r.rows) /\ RowsOf(r.kept) /\ r.rows # << >> /\ Shaped(row)
      /\ r.at = "drain" \/ (M!After /\ r.at = "after")
  <2>1. Moved(r, q) /\ r # None /\ AtWork(r) /\ r.rows # << >>
    BY <1>1, <1>2 DEF Moved
  <2>2. Filled(r) /\ RowsOf(r.rows) /\ RowsOf(r.kept)
    BY <2>1 DEF AtWork, Filled
  <2>3. Shaped(row)
    BY <1>1, <2>1, <2>2, RowTaken
  <2> QED
    BY <1>1, <1>2, <2>1, <2>2, <2>3
<1>4. /\ LeftOf(r, q) /\ KeptOf(r, q, row)
      /\ M!After \/ q.gone = r.gone
      /\ M!After => q.gone = r.gone \cup {r.filing.name} /\ q.kept = r.kept
  BY <1>1, <1>3, TurnTaken
<1>5. M!After => r.at = "after" /\ PageHeld(r.filing.name, row.id) /\ r.filing.name \in M!Names /\ r.filing.deep = FALSE
  <2>1. ASSUME M!After PROVE r.at = "after" /\ AtFiling(r.filing, r) /\ OfFiling(r)
    BY <1>1, <1>2, <2>1 DEF M!After, Underhand, Filing, Writing
  <2> QED
    BY <1>1, <1>3, <2>1 DEF AtFiling, OfFiling, Writing
<1>6. UNCHANGED <<pages, lines, queue, torn>>
  <2>1. CASE M!After
    BY <1>1, <1>5, <2>1 DEF M!After, M!vault, M!past, M!f
  <2>2. CASE ~ M!After
    BY <2>2 DEF M!DrainKeeps, M!DrainMissesPage, M!DrainCapped, M!DrainFails, M!vault, M!past, M!stage
  <2> QED
    BY <2>1, <2>2
<1>7. ToDrain(q)
  <2>1. q.gone = r.gone \/ (q.kept = r.kept /\ \E n : PageHeld(n, row.id) /\ n \in M!Names /\ q.gone = r.gone \cup {n})
    BY <1>4, <1>5
  <2> QED
    BY <1>1, <1>3, <1>4, <2>1, LeftIsDue DEF LeftOf
<1>8. Underhand(q)
  <2>1. Underhand(r)
    BY <1>1, <1>2
  <2>2. Drained(q)
    BY <1>4, <1>7 DEF Drained, Draining, LeftOf
  <2>3. Filing(q)
    BY <1>4, <2>1 DEF Filing, LeftOf, Writing, Underhand
  <2>4. \A n \in q.gone : n \in M!Names /\ pages[n] # None
    BY <1>4, <1>5, <2>1 DEF Underhand, PageHeld
  <2>5. \A m \in q.todo : ~ HasPage(m)
    BY <1>4, <2>1 DEF LeftOf, Underhand
  <2> QED
    BY <2>2, <2>3, <2>4, <2>5 DEF Underhand
<1>9. Replaced(r) \cup Busy(r) \subseteq Replaced(q)
  BY <1>3, <1>4, <1>5 DEF Replaced, Busy, LeftOf, Writing
<1>10. \A x \in In(queue) : Whole(x, q) \subseteq Whole(x, run)
  BY <1>1, <1>9 DEF Whole
<1>11. q.at \in Writing => readings' = readings
  BY <1>4 DEF LeftOf, Writing
<1> QED
  BY <1>1, <1>6, <1>8, <1>10, <1>11, RunOnly

(* A run that begins, goes through what is new, or ends.                    *)
LEMMA RunGoesOn ==
  ASSUME NoneIsNoFiling, DeepInv, SetInv,
         M!List \/ M!Mark \/ M!Ends \/ \E m \in M!All : M!Refused(m)
  PROVE  SetInv'
<1>1. PICK r, q : r = run /\ q = run'
  OBVIOUS
<1>2. /\ run # None /\ AtWork(run) /\ Underhand(run)
      /\ UNCHANGED <<pages, lines, queue, torn, readings>>
  BY DEF DeepInv, SetInv, M!List, M!Mark, M!Ends, M!Refused, M!Next1, M!vault, M!past, M!stage
<1>3. r # None /\ Filled(r) /\ AtWork(r) /\ Underhand(r)
  BY <1>1, <1>2 DEF AtWork, Filled
<1>4. ASSUME NEW to, NEW new, NEW bad, q = [r EXCEPT !.at = to, !.todo = new, !.failed = bad],
             \/ to \in Writing /\ r.at \in Writing /\ new = r.todo
             \/ to \in {"list", "next"} /\ r.at \in {"list", "next"},
             \A m \in new : ~ HasPage(m)
      PROVE  SetInv'
  <2>1. /\ Filled(q) /\ q.at = to /\ q.todo = new /\ q.rows = r.rows /\ q.kept = r.kept /\ q.gone = r.gone
        /\ q.filing = r.filing
    BY <1>3, <1>4 DEF Filled
  <2>2. q # None
    BY <2>1 DEF Filled, NoneIsNoFiling
  <2>3. Draining(q) <=> Draining(r)
    BY <1>4, <2>1 DEF Draining, Writing
  <2>4. Drained(q)
    BY <1>3, <2>1, <2>3 DEF Drained, ToDrain, Due, Underhand
  <2>5. Filing(q)
    <3>1. CASE to \in Writing
      <4>1. PICK f : f = r.filing
        OBVIOUS
      <4>2. AtFiling(f, r) /\ r.at \in Writing /\ q.todo = r.todo
        BY <1>3, <1>4, <2>1, <3>1, <4>1 DEF Underhand, Filing, Writing
      <4>3. AtFiling(f, q)
        BY <2>1, <3>1, <4>2 DEF AtFiling, FirstTime, Again, Fresh, Writing
      <4> QED
        BY <2>1, <3>1, <4>1, <4>3 DEF Filing
    <3>2. CASE to \notin Writing
      BY <1>3, <1>4, <2>1, <3>2 DEF Filing, Underhand, Writing
    <3> QED
      BY <3>1, <3>2
  <2>6. Underhand(q)
    BY <1>3, <1>4, <2>1, <2>4, <2>5 DEF Underhand
  <2>7. \A x \in In(queue) : Whole(x, q) \subseteq Whole(x, run)
    BY <1>1, <1>3, <1>4, <2>1, <2>2 DEF Whole, Replaced, Busy, Writing
  <2> QED
    BY <1>1, <1>2, <2>6, <2>7, RunOnly
<1>5. CASE M!List
  <2>1. PICK new : new = M!fetch_uningested_stubs(Recent)
    OBVIOUS
  <2>2. q = [r EXCEPT !.at = "next", !.todo = new] /\ r.at = "list"
    BY <1>1, <1>5, <2>1 DEF M!List
  <2>3. q = [r EXCEPT !.at = "next", !.todo = new, !.failed = r.failed]
    BY <1>3, <2>2 DEF Filled
  <2>4. \A m \in new : ~ HasPage(m)
    BY <2>1 DEF M!fetch_uningested_stubs, M!Filed, HasPage
  <2> QED
    BY <1>4, <2>2, <2>3, <2>4
<1>6. CASE M!Mark
  <2>1. q = [r EXCEPT !.at = "catalog"] /\ r.at = "mark"
    BY <1>1, <1>6 DEF M!Mark
  <2>2. q = [r EXCEPT !.at = "catalog", !.todo = r.todo, !.failed = r.failed]
    BY <1>3, <2>1 DEF Filled
  <2> QED
    BY <1>3, <1>4, <2>1, <2>2 DEF Underhand, Writing
<1>7. ASSUME NEW m \in M!All, M!Refused(m) PROVE SetInv'
  <2>1. q = [r EXCEPT !.todo = r.todo \ {m}, !.failed = r.failed \cup {m}] /\ r.at = "next"
    BY <1>1, <1>7 DEF M!Refused, M!Next1
  <2>2. PICK new, bad : new = r.todo \ {m} /\ bad = r.failed \cup {m}
    OBVIOUS
  <2>3. q = [r EXCEPT !.at = "next", !.todo = new, !.failed = bad]
    BY <1>3, <2>1, <2>2 DEF Filled
  <2>4. \A k \in new : ~ HasPage(k)
    BY <1>3, <2>2 DEF Underhand
  <2> QED
    BY <1>4, <2>1, <2>3, <2>4
<1>8. CASE M!Ends
  <2>1. q = None /\ r.at = "next" /\ r.rows = << >>
    BY <1>1, <1>3, <1>8 DEF M!Ends, AtWork
  <2>2. \A x \in In(queue) : M!PageOf(x.id) \cap r.gone = {}
    BY <1>3, <2>1 DEF Underhand, Drained, Draining
  <2>3. \A x \in In(queue) : Whole(x, q) \subseteq Whole(x, run)
    BY <1>1, <1>3, <2>1, <2>2 DEF Whole, Replaced, Busy, Writing
  <2> QED
    BY <1>1, <1>2, <2>1, <2>3, RunOnly
<1> QED
  BY <1>5, <1>6, <1>7, <1>8

(* Between two runs, and before the first.                                  *)
LEMMA SetInit == ASSUME M!Init PROVE SetInv
<1>1. pages = [n \in M!Names |-> None] /\ queue = << >> /\ run = None /\ lines = {} /\ torn = {}
  BY DEF M!Init
<1>2. PagesHeld
  BY <1>1 DEF PagesHeld, M!Names
<1>3. Queued(run)
  BY <1>1, InNone DEF Queued
<1> QED
  BY <1>1, <1>2, <1>3 DEF SetInv, OneSet, M!OneSet

LEMMA SetQuiet ==
  ASSUME SetInv, M!Held \/ M!Prefetch \/ UNCHANGED <<pages, lines, queue, run, readings, torn>>
  PROVE  SetInv'
<1>1. PICK q : q = run'
  OBVIOUS
<1>2. q = run /\ UNCHANGED <<pages, lines, queue, torn>> /\ (run # None => readings' = readings)
  BY <1>1 DEF M!Held, M!Prefetch, M!vault, M!past
<1>3. q # None => Underhand(q) /\ (q.at \in Writing => readings' = readings)
  BY <1>2 DEF SetInv
<1>4. \A row \in In(queue) : Whole(row, q) \subseteq Whole(row, run)
  BY <1>2
<1> QED
  BY <1>1, <1>2, <1>3, <1>4, RunOnly

(* A run begins with the whole queue before it, or with none of it.         *)
LEMMA SetStarts == ASSUME NoneIsNoFiling, DeepInv, SetInv, M!Staged \/ M!Hour PROVE SetInv'
<1>1. PICK q : q = run'
  OBVIOUS
<1>2. run = None /\ UNCHANGED <<pages, lines, queue, torn, readings>> /\ Distinct(queue)
  BY DEF M!Staged, M!Hour, M!vault, M!past, SetInv, Queued
<1>3. /\ Filled(q) /\ q.kept = << >> /\ q.gone = {} /\ q.filing = None /\ \A m \in q.todo : ~ HasPage(m)
      /\ \/ q.rows = << >> /\ q.at \in {"next", "list"}
         \/ q.rows = queue /\ q.at = "drain"
  <2>1. CASE M!Staged
    <3>1. PICK new : new = manifest \ M!Filed
      OBVIOUS
    <3>2. q = [M!Idle EXCEPT !.kind = "staged", !.todo = new]
      BY <1>1, <2>1, <3>1 DEF M!Staged
    <3>3. \A m \in new : ~ HasPage(m)
      BY <3>1 DEF M!Filed, HasPage
    <3> QED
      BY <3>2, <3>3 DEF M!Idle, Filled
  <2>2. CASE M!Hour
    <3>1. PICK new : new = M!Newest(M!read_history, PerRun)
      OBVIOUS
    <3>2. \/ q = [M!Idle EXCEPT !.rows = queue, !.at = IF queue = << >> THEN "list" ELSE "drain"]
          \/ q = [M!Idle EXCEPT !.kind = "history", !.todo = new]
      BY <1>1, <2>2, <3>1, Zenon DEF M!Hour
    <3>3. \A m \in new : ~ HasPage(m)
      BY <3>1 DEF M!Newest, M!read_history, M!fetch_uningested_stubs, M!Filed, HasPage
    <3>4. q.todo = {} \/ q.todo = new
      BY <3>2 DEF M!Idle
    <3> QED
      BY <3>2, <3>3, <3>4 DEF M!Idle, Filled
  <2> QED
    BY <2>1, <2>2
<1>4. Drained(q)
  <2>1. CASE q.rows = << >> /\ q.at \in {"next", "list"}
    BY <1>3, <2>1 DEF Drained, Draining
  <2>2. CASE q.rows = queue /\ q.at = "drain"
    BY <1>2, <1>3, <2>2, InNone DEF Drained, Draining, ToDrain, Due
  <2> QED
    BY <1>3, <2>1, <2>2
<1>5. Filing(q)
  BY <1>3 DEF Filing, Writing
<1>6. Underhand(q)
  BY <1>3, <1>4, <1>5 DEF Underhand
<1>7. \A row \in In(queue) : Whole(row, q) \subseteq Whole(row, run)
  BY <1>2 DEF Whole, Replaced, Busy
<1> QED
  BY <1>1, <1>2, <1>6, <1>7, RunOnly

(* The user: a line that was touched is not on the page as it was written.  *)
LEMMA SetTouched == ASSUME SetInv, NEW l \in lines, M!Touch(l) PROVE SetInv'
<1>1. /\ run = None /\ ~ l.touched /\ UNCHANGED <<pages, queue, run, torn>>
      /\ PagesHeld /\ OneSet /\ Queued(None) /\ ALine(l)
  BY DEF M!Touch, SetInv, PagesHeld, M!stage, M!past
<1>2. PICK t : t = [l EXCEPT !.touched = TRUE]
  OBVIOUS
<1>3. /\ ALine(t) /\ Untouched(t) = l /\ t.touched = TRUE
      /\ t.place = l.place /\ t.name = l.name /\ t.words = l.words
  BY <1>1, <1>2 DEF ALine, Untouched
<1>4. PICK L : L = lines'
  OBVIOUS
<1>5. L \subseteq (lines \ {l}) \cup {t}
  BY <1>2, <1>4 DEF M!Touch
<1>6. PagesHeld'
  <2>1. \A x \in L : ALine(x) /\ (x.name \in torn \/ pages[x.name] # None)
    BY <1>1, <1>3, <1>5 DEF PagesHeld
  <2> QED
    BY <1>1, <1>4, <2>1 DEF PagesHeld, Taken, ALine, M!Names, M!All, M!Places
<1>7. OneSet'
  BY <1>1, <1>3, <1>4, <1>5 DEF OneSet, M!OneSet
<1>8. Queued(run)'
  <2>1. PICK Q : Q = In(queue)
    OBVIOUS
  <2>2. ASSUME NEW row \in Q PROVE OfRow(row)' /\ Recorded(row, None)'
    <3>1. OfRow(row) /\ Recorded(row, None)
      BY <1>1, <2>1, <2>2 DEF Queued
    <3>2. Steady
      BY <1>1 DEF Steady, PageHeld, HasPage, M!Names
    <3>3. Whole(row, None)' = Whole(row, None)
      BY <1>1 DEF Whole, M!PageOf, M!Names, Replaced, Busy
    <3>4. ASSUME NEW n \in Whole(row, None), NEW p \in M!Places, NEW x \in L, x.place = p, x.name = n
          PROVE Known(row, x, p)'
      <4>1. CASE x = t
        <5>1. l \in M!At(p, n)
          BY <1>3, <3>4, <4>1 DEF M!At
        <5>2. l \in row.wrote[p]
          BY <1>1, <3>1, <3>4, <5>1 DEF Recorded, Known
        <5>3. l \notin L
          BY <1>1, <1>3, <1>5
        <5> QED
          BY <1>3, <1>4, <4>1, <5>2, <5>3 DEF Known, Untouched
      <4>2. CASE x \in lines
        <5>1. Known(row, x, p) /\ ALine(x)
          BY <1>1, <3>1, <3>4, <4>2 DEF Recorded, M!At, PagesHeld
        <5>2. Untouched(x) # t
          BY <1>3, <5>1 DEF ALine, Untouched
        <5> QED
          BY <1>4, <1>5, <5>1, <5>2 DEF Known, Untouched
      <4> QED
        BY <1>5, <3>4, <4>1, <4>2
    <3>5. Recorded(row, None)'
      BY <1>4, <3>3, <3>4 DEF Recorded, M!At, M!Places
    <3> QED
      BY <3>1, <3>2, <3>5, RowStays
  <2>3. Queued(None)'
    BY <1>1, <2>1, <2>2 DEF Queued, In, Distinct
  <2> QED
    BY <1>1, <2>3 DEF Queued, Recorded, Whole, Replaced, Busy
<1> QED
  BY <1>1, <1>6, <1>7, <1>8 DEF SetInv

LEMMA SetDiscarded == ASSUME DeepInv, SetInv, NEW n \in M!Names, M!Discard(n) PROVE SetInv'
<1>1. PICK m : m = pages[n].id
  OBVIOUS
<1>2. /\ run = None /\ pages[n] # None /\ pages' = [pages EXCEPT ![n] = None]
      /\ torn' = torn \cup {n, m} /\ UNCHANGED <<lines, queue, run>>
      /\ PagesHeld /\ OneSet /\ Queued(None) /\ DeepTypes
  BY <1>1 DEF M!Discard, DeepInv, SetInv
<1>3. /\ m \in M!All /\ n \in {m, Titled[m]} /\ pages'[n] = None
      /\ \A k \in M!Names : k # n => pages'[k] = pages[k]
  BY <1>1, <1>2 DEF PagesHeld, DeepTypes
<1>4. Steady
  <2>1. ASSUME NEW k \in M!Names, NEW x, PageHeld(k, x) PROVE k \in torn' \/ PageHeld(k, x)'
    BY <1>2, <1>3, <2>1 DEF PageHeld
  <2>2. ASSUME NEW x, HasPage(x) PROVE x \in torn' \/ HasPage(x)'
    <3>1. PICK k \in M!Names : pages[k] # None /\ pages[k].id = x
      BY <2>2 DEF HasPage
    <3>2. CASE k = n
      BY <1>1, <1>2, <3>1, <3>2
    <3>3. CASE k # n
      <4>1. pages'[k] # None /\ pages'[k].id = x
        BY <1>3, <3>1, <3>3
      <4> QED
        BY <3>1, <4>1 DEF HasPage, M!Names
    <3> QED
      BY <3>2, <3>3
  <2> QED
    BY <1>2, <2>1, <2>2 DEF Steady
<1>5. PagesHeld'
  <2>1. ASSUME NEW x \in M!All, Taken(x) \/ x = m PROVE Taken(x)'
    <3>1. Titled[x] \in M!Names
      BY DEF M!Names
    <3>2. CASE Titled[x] \in torn'
      BY <3>2 DEF Taken
    <3>3. CASE Titled[x] \notin torn' /\ Taken(x)
      BY <1>2, <1>3, <3>1, <3>3 DEF Taken
    <3>4. CASE Titled[x] \notin torn' /\ x = m
      <4>1. n = m /\ Taken(m)
        BY <1>2, <1>3, <3>4 DEF PagesHeld
      <4> QED
        BY <3>3, <3>4, <4>1
    <3> QED
      BY <2>1, <3>2, <3>3, <3>4
  <2>2. ASSUME NEW x \in M!All, pages'[x] # None \/ x \in torn' PROVE Taken(x)'
    <3>1. x \in M!Names
      BY DEF M!Names
    <3>2. pages[x] # None \/ x \in torn \/ x = m
      BY <1>2, <1>3, <2>2, <3>1
    <3> QED
      BY <1>2, <2>1, <3>2 DEF PagesHeld
  <2>3. \A k \in M!Names : pages'[k] # None => pages'[k].id \in M!All /\ k \in {pages'[k].id, Titled[pages'[k].id]}
    BY <1>2, <1>3 DEF PagesHeld
  <2>4. \A k, j \in M!Names : pages'[k] # None /\ pages'[j] # None /\ pages'[k].id = pages'[j].id => k = j
    BY <1>2, <1>3 DEF PagesHeld
  <2>5. \A l \in lines : ALine(l) /\ (l.name \in torn' \/ pages'[l.name] # None)
    BY <1>2, <1>3 DEF PagesHeld, ALine
  <2>6. lines' = lines
    BY <1>2
  <2> QED
    BY <2>2, <2>3, <2>4, <2>5, <2>6 DEF PagesHeld, M!Names, M!All, ALine, M!Places
<1>6. OneSet'
  BY <1>2 DEF OneSet, M!OneSet
<1>7. \A row \in In(queue) : Whole(row, None)' \subseteq Whole(row, run)
  BY <1>2, <1>3 DEF Whole, M!PageOf, M!Names, Replaced, Busy
<1>8. Queued(None)'
  BY <1>2, <1>4, <1>7, QueueStays
<1>9. Queued(run)'
  BY <1>2, <1>8 DEF Queued, Recorded, Whole, Replaced, Busy
<1> QED
  BY <1>2, <1>5, <1>6, <1>9 DEF SetInv

(* A filing of a new meeting begins under a name that is free.              *)
LEMMA SetBegins == ASSUME OwnNames, NoneIsNoFiling, DeepInv, SetInv, NEW m \in M!All, M!Begin(m) PROVE SetInv'
<1>1. PICK r, q, name : r = run /\ q = run' /\ name = M!NameFor(m)
  OBVIOUS
<1>2. /\ r # None /\ AtWork(r) /\ Underhand(r) /\ r.at = "next" /\ m \in r.todo /\ pages[name] = None
      /\ UNCHANGED <<pages, lines, queue, torn>> /\ PagesHeld /\ Queued(r)
  BY <1>1 DEF DeepInv, SetInv, M!Begin, M!Next1, M!Newest, M!vault, M!stage
<1>3. PICK from : run' = [run EXCEPT !.at = "page", !.todo = @ \ {m},
                     !.filing = [id |-> m, name |-> M!NameFor(m), deep |-> from = "over_budget",
                                 from |-> IF from = "transcript" THEN from ELSE "summary",
                                 skip |-> {}, undo |-> {}]]
  BY Zenon DEF M!Begin
<1>4. PICK new, src, deep, fil :
        /\ new = r.todo \ {m} /\ src = (IF from = "transcript" THEN from ELSE "summary") /\ deep = (from = "over_budget")
        /\ fil = [id |-> m, name |-> name, deep |-> deep, from |-> src, skip |-> {}, undo |-> {}]
  OBVIOUS
<1>5. q = [r EXCEPT !.at = "page", !.todo = new, !.filing = fil]
  BY <1>1, <1>3, <1>4
<1>6. Filled(r) /\ r.rows = << >>
  BY <1>2 DEF AtWork, Filled
<1>7. /\ q.at = "page" /\ q.todo = new /\ q.filing = fil /\ q.rows = << >> /\ q.gone = r.gone /\ q # None
      /\ fil.id = m /\ fil.name = name /\ fil.skip = {}
  BY <1>4, <1>5, <1>6 DEF Filled, NoneIsNoFiling
<1>8. ~ HasPage(m) /\ \A n \in r.gone : n \in M!Names /\ pages[n] # None
  BY <1>2 DEF Underhand
<1>9. name \in {m, Titled[m]} /\ (name = m => Taken(m)) /\ Titled[m] # m /\ name \in M!Names
  BY <1>1 DEF M!NameFor, Taken, OwnNames, M!Names
<1>10. \A l \in lines : l.name = name => name \in torn
  BY <1>2 DEF PagesHeld
<1>11. ASSUME NEW row \in In(queue), row.id = m PROVE name \in torn
  <2>1. m \in torn
    BY <1>2, <1>8, <1>11 DEF Queued, OfRow
  <2>2. Taken(m)
    BY <1>2, <2>1 DEF PagesHeld
  <2>3. CASE name = m
    BY <2>1, <2>3
  <2>4. CASE name # m
    BY <1>1, <1>9, <2>2, <2>4 DEF M!NameFor, Taken
  <2> QED
    BY <2>3, <2>4
<1>12. Drained(q)
  BY <1>2, <1>6, <1>7 DEF Drained, Draining, Underhand
<1>13. AtFiling(fil, q)
  <2>1. FirstTime(fil, q)
    BY <1>2, <1>4, <1>7, <1>8, <1>10, <1>11 DEF FirstTime
  <2>2. fil.name \in torn \/ Fresh(fil, q)
    BY <1>7, <1>10 DEF Fresh, M!At
  <2> QED
    BY <1>7, <1>9, <2>1, <2>2 DEF AtFiling, Writing
<1>14. Underhand(q)
  <2>1. Filing(q)
    BY <1>7, <1>13 DEF Filing
  <2> QED
    BY <1>2, <1>4, <1>7, <1>12, <2>1 DEF Underhand
<1>15. \A row \in In(queue) : Whole(row, q) \subseteq Whole(row, run)
  BY <1>1, <1>2, <1>7 DEF Whole, Replaced, Busy, Writing
<1> QED
  BY <1>1, <1>2, <1>7, <1>14, <1>15, RunOnly DEF Writing

(* The page takes a name that is free, or is written over by its own.       *)
LEMMA SetPageWritten == ASSUME OwnNames, NoneIsNoFiling, DeepInv, SetInv, M!WritePage PROVE SetInv'
<1>1. PICK r, q, fil, name, id : r = run /\ q = run' /\ fil = r.filing /\ name = fil.name /\ id = fil.id
  OBVIOUS
<1>2. PICK page : page = [id |-> id, from |-> fil.from]
  OBVIOUS
<1>3. /\ r # None /\ Filled(r) /\ OfFiling(r) /\ Underhand(r) /\ r.at = "page"
      /\ pages' = [pages EXCEPT ![name] = page] /\ q = [r EXCEPT !.at = "promote"]
      /\ UNCHANGED <<lines, queue, torn, readings>> /\ PagesHeld /\ OneSet /\ Queued(r) /\ DeepTypes
  BY <1>1, <1>2 DEF DeepInv, SetInv, M!WritePage, M!f, M!stage, AtWork, Filled
<1>4. /\ q.at = "promote" /\ q.todo = r.todo /\ q.filing = fil /\ q.rows = r.rows /\ q.kept = r.kept
      /\ q.gone = r.gone /\ q # None
  BY <1>1, <1>3 DEF Filled, NoneIsNoFiling
<1>5. /\ AtFiling(fil, r) /\ name \in M!Names /\ id \in M!All /\ name \in {id, Titled[id]} /\ (name = id => Taken(id))
      /\ page # None /\ page.id = id
  BY <1>1, <1>2, <1>3 DEF Underhand, Filing, AtFiling, OfFiling, NoneIsNoFiling
<1>6. pages'[name] = page /\ \A k \in M!Names : k # name => pages'[k] = pages[k]
  BY <1>3, <1>5 DEF DeepTypes
<1>7. \/ r.rows = << >> /\ FirstTime(fil, r) /\ pages[name] = None /\ ~ HasPage(id)
      \/ r.rows # << >> /\ Again(fil, r) /\ PageHeld(name, id)
  BY <1>1, <1>3, <1>5 DEF AtFiling, FirstTime, Again
<1>8. /\ \A k \in M!Names : \A x : PageHeld(k, x) => pages'[k] # None /\ pages'[k].id = x
      /\ \A x : HasPage(x) => HasPage(x)'
  <2>1. ASSUME NEW k \in M!Names, NEW x, PageHeld(k, x) PROVE pages'[k] # None /\ pages'[k].id = x
    BY <1>5, <1>6, <1>7, <2>1 DEF PageHeld
  <2>2. ASSUME NEW x, HasPage(x) PROVE HasPage(x)'
    <3>1. PICK k \in M!Names : PageHeld(k, x)
      BY <2>2 DEF HasPage, PageHeld
    <3> QED
      BY <2>1, <3>1 DEF HasPage, M!Names
  <2> QED
    BY <2>1, <2>2
<1>9. Steady
  <2>1. \A k \in M!Names : \A x : PageHeld(k, x) => PageHeld(k, x)'
    BY <1>8 DEF PageHeld
  <2> QED
    BY <1>3, <1>8, <2>1 DEF Steady
<1>10. \A k \in M!Names : \A x : pages'[k] # None /\ pages'[k].id = x => PageHeld(k, x) \/ (k = name /\ x = id)
  BY <1>5, <1>6 DEF PageHeld
<1>11. PagesHeld'
  <2>1. ASSUME NEW x \in M!All, Taken(x) PROVE Taken(x)'
    <3>1. Titled[x] \in M!Names
      BY DEF M!Names
    <3> QED
      BY <1>3, <1>8, <2>1, <3>1 DEF Taken, PageHeld
  <2>2. ASSUME NEW x \in M!All, pages'[x] # None \/ x \in torn PROVE Taken(x)'
    <3>1. x \in M!Names
      BY DEF M!Names
    <3>2. CASE pages[x] # None \/ x \in torn
      BY <1>3, <2>1, <3>2 DEF PagesHeld
    <3>3. CASE x = name
      BY <1>5, <2>1, <3>3 DEF OwnNames
    <3> QED
      BY <1>6, <2>2, <3>1, <3>2, <3>3
  <2>3. \A k \in M!Names : pages'[k] # None => pages'[k].id \in M!All /\ k \in {pages'[k].id, Titled[pages'[k].id]}
    BY <1>3, <1>5, <1>6 DEF PagesHeld
  <2>4. ASSUME NEW k \in M!Names, NEW j \in M!Names, pages'[k] # None, pages'[j] # None, pages'[k].id = pages'[j].id
        PROVE  k = j
    <3>1. PICK x : x = pages'[k].id
      OBVIOUS
    <3>2. (PageHeld(k, x) \/ (k = name /\ x = id)) /\ (PageHeld(j, x) \/ (j = name /\ x = id))
      BY <1>10, <2>4, <3>1
    <3>3. PageHeld(k, x) /\ PageHeld(j, x) => k = j
      BY <1>3 DEF PagesHeld, PageHeld
    <3>4. \A i \in M!Names : PageHeld(i, id) => i = name
      BY <1>3, <1>5, <1>7 DEF PagesHeld, PageHeld, HasPage
    <3> QED
      BY <3>2, <3>3, <3>4
  <2>5. \A l \in lines : ALine(l) /\ (l.name \in torn \/ pages'[l.name] # None)
    BY <1>3, <1>5, <1>6 DEF PagesHeld, ALine
  <2> QED
    BY <1>3, <2>2, <2>3, <2>4, <2>5 DEF PagesHeld, M!Names, M!All, ALine, M!Places
<1>12. OneSet'
  BY <1>3 DEF OneSet, M!OneSet
<1>13. \A row \in In(queue) : Whole(row, q)' \subseteq Whole(row, run)
  <2> SUFFICES ASSUME NEW row \in In(queue), NEW n \in Whole(row, q)' PROVE n \in Whole(row, run)
    OBVIOUS
  <2>1. /\ n \in M!Names /\ pages'[n] # None /\ pages'[n].id = row.id /\ n \notin torn /\ n \notin r.gone
        /\ r.rows # << >> => n # name
    BY <1>1, <1>3, <1>4 DEF Whole, M!PageOf, M!Names, Replaced, Busy, Writing
  <2>2. PageHeld(n, row.id)
    BY <1>1, <1>7, <1>10, <2>1 DEF FirstTime
  <2> QED
    BY <1>1, <1>3, <2>1, <2>2 DEF Whole, M!PageOf, PageHeld, Replaced, Busy, Writing
<1>14. Queued(q)'
  BY <1>3, <1>9, <1>13, QueueStays DEF SetInv
<1>15. Drained(q)'
  <2>1. CASE r.rows = << >>
    <3>1. \A row \in In(queue) : M!PageOf(row.id) \cap r.gone = {}
      BY <1>3, <2>1 DEF Underhand, Drained, Draining
    <3>2. name \notin r.gone
      BY <1>1, <1>7, <2>1 DEF FirstTime
    <3>3. \A row \in In(queue) : M!PageOf(row.id)' \cap r.gone = {}
      BY <3>1, <3>2, <1>6 DEF M!PageOf, M!Names
    <3> QED
      BY <1>3, <1>4, <2>1, <3>3 DEF Drained, Draining
  <2>2. CASE r.rows # << >>
    <3>1. ToDrain(r)
      BY <1>3, <2>2 DEF Underhand, Drained, Draining
    <3>2. \A x : M!PageOf(x)' = M!PageOf(x)
      BY <1>5, <1>6, <1>7, <2>2 DEF M!PageOf, M!Names, PageHeld
    <3>3. \A row : Due(row, r) => Due(row, q)'
      BY <1>3, <1>4, <3>2 DEF Due
    <3>4. ToDrain(q)'
      BY <1>4, <3>1, <3>3 DEF ToDrain
    <3> QED
      BY <1>4, <2>2, <3>4 DEF Drained, Draining
  <2> QED
    BY <2>1, <2>2
<1>16. AtFiling(fil, q)'
  <2>1. PageHeld(name, id)'
    BY <1>5, <1>6 DEF PageHeld
  <2>2. (name = id => Taken(id))'
    <3>1. Titled[id] \in M!Names
      BY <1>5 DEF M!Names
    <3> QED
      BY <1>3, <1>5, <1>8, <3>1 DEF Taken, PageHeld
  <2>3. (fil.name \in torn \/ Fresh(fil, q))'
    <3>1. CASE name \in torn
      BY <1>1, <1>3, <3>1
    <3>2. CASE name \notin torn
      <4>1. \A p \in M!Places \ fil.skip : M!At(p, name) = {}
        BY <1>1, <1>3, <1>5, <3>2 DEF AtFiling, Fresh
      <4> QED
        BY <1>1, <1>3, <4>1 DEF Fresh, M!At, M!Places
    <3> QED
      BY <3>1, <3>2
  <2>4. (IF q.rows = << >> THEN FirstTime(fil, q) ELSE Again(fil, q))'
    BY <1>1, <1>3, <1>4, <1>7, <2>1 DEF FirstTime, Again
  <2> QED
    BY <1>1, <1>5, <2>1, <2>2, <2>3, <2>4 DEF AtFiling, M!All
<1>17. Underhand(q)'
  <2>1. Filing(q)'
    BY <1>1, <1>4, <1>16 DEF Filing, Writing
  <2>2. (\A n \in q.gone : n \in M!Names /\ pages[n] # None)'
    BY <1>3, <1>4, <1>5, <1>6 DEF Underhand, M!Names
  <2>3. (\A m \in q.todo : ~ HasPage(m))'
    <3>1. \A m \in r.todo : ~ HasPage(m) /\ m # id
      BY <1>1, <1>3, <1>5, <1>7 DEF Underhand, FirstTime, HasPage, PageHeld
    <3> QED
      BY <1>4, <1>10, <3>1 DEF HasPage, PageHeld, M!Names
  <2> QED
    BY <1>15, <2>1, <2>2, <2>3 DEF Underhand
<1>18. Queued(run)' /\ Underhand(run)'
  <2>1. Queued(run)'
    BY <1>1, <1>14 DEF Queued, Recorded, Whole, Replaced, Busy
  <2>2. Underhand(run)'
    BY <1>1, <1>17 DEF Underhand, Drained, ToDrain, Due, Filing, AtFiling, FirstTime, Again, Fresh
  <2> QED
    BY <2>1, <2>2
<1> QED
  BY <1>11, <1>12, <1>18 DEF SetInv

(* The lines of a filing are written where there are none that differ.      *)
LEMMA SetLinesWritten == ASSUME NoneIsNoFiling, DeepInv, SetInv, M!Promote \/ M!update_index PROVE SetInv'
<1>1. PICK r, q, fil, name, id, words :
        r = run /\ q = run' /\ fil = r.filing /\ name = fil.name /\ id = fil.id /\ words = M!Reads(id, fil.from)
  OBVIOUS
<1>2. /\ r # None /\ Filled(r) /\ OfFiling(r) /\ Underhand(r) /\ r.at \in Writing
      /\ UNCHANGED <<pages, queue, torn, readings>> /\ PagesHeld /\ OneSet /\ Queued(r)
  BY <1>1 DEF DeepInv, SetInv, M!Promote, M!update_index, M!stage, M!past, AtWork, Filled, Writing
<1>3. PICK to \in Writing : q = [r EXCEPT !.at = to]
  BY <1>1 DEF M!Promote, M!update_index, Writing
<1>4. /\ q.at = to /\ q.todo = r.todo /\ q.filing = fil /\ q.rows = r.rows /\ q.kept = r.kept
      /\ q.gone = r.gone /\ q # None
  BY <1>1, <1>2, <1>3 DEF Filled, NoneIsNoFiling
<1>5. /\ AtFiling(fil, r) /\ name \in M!Names /\ id \in M!All /\ PageHeld(name, id)
      /\ name \in torn \/ Fresh(fil, r)
      /\ r.rows = << >> => FirstTime(fil, r)
      /\ r.rows # << >> => Again(fil, r)
  BY <1>1, <1>2 DEF Underhand, Filing, AtFiling, OfFiling, Writing
<1>6. PICK L : L = lines'
  OBVIOUS
<1>7. PICK pl, New :
        /\ pl \in M!Places
        /\ L = lines \/ (pl \notin fil.skip /\ L = lines \cup New)
        /\ \A x \in New : \E i : x = M!Line(pl, name, i, words)
  <2>1. CASE M!Promote
    <3>1. PICK New : New = M!Promoted
      OBVIOUS
    <3>2. L = IF "todo" \in fil.skip THEN lines ELSE lines \cup New
      BY <1>1, <1>6, <2>1, <3>1 DEF M!Promote, M!f
    <3>3. \A x \in New : \E i : x = M!Line("todo", name, i, words)
      BY <1>1, <3>1 DEF M!Promoted, M!f
    <3> QED
      BY <3>2, <3>3 DEF M!Places
  <2>2. CASE M!update_index
    <3>1. PICK New : New = {M!Line("catalog", name, 0, words)}
      OBVIOUS
    <3>2. L = IF "catalog" \in fil.skip THEN lines ELSE lines \cup New
      BY <1>1, <1>6, <2>2, <3>1 DEF M!update_index, M!f
    <3>3. \A x \in New : \E i : x = M!Line("catalog", name, i, words)
      BY <3>1
    <3> QED
      BY <3>2, <3>3 DEF M!Places
  <2> QED
    BY <2>1, <2>2
<1>8. /\ \A x \in L : x \in lines \/ /\ pl \notin fil.skip /\ ALine(x) /\ x.place = pl
                                     /\ x.name = name /\ x.words = words /\ ~ x.touched
      /\ lines \subseteq L
  <2>1. ASSUME NEW x \in New PROVE ALine(x) /\ x.place = pl /\ x.name = name /\ x.words = words /\ ~ x.touched
    <3>1. PICK i : x = M!Line(pl, name, i, words)
      BY <1>7, <2>1
    <3> QED
      BY <1>5, <1>7, <3>1 DEF ALine, M!Line
  <2> QED
    BY <1>7, <2>1
<1>9. PagesHeld'
  <2>1. \A l \in L : ALine(l) /\ (l.name \in torn \/ pages[l.name] # None)
    BY <1>2, <1>5, <1>8 DEF PagesHeld, PageHeld
  <2> QED
    BY <1>2, <1>6, <2>1 DEF PagesHeld, Taken, M!Names, M!All, ALine, M!Places
<1>10. ASSUME NEW l \in lines, l.name = name, l.name \notin torn, l.place = pl, pl \notin fil.skip PROVE l.words = words
  BY <1>1, <1>5, <1>7, <1>10 DEF Fresh, M!At
<1>11. OneSet'
  <2>1. ASSUME NEW k \in L, NEW l \in L, k.place = l.place, k.name = l.name, k.name \notin torn PROVE k.words = l.words
    <3>1. CASE k \in lines /\ l \in lines
      BY <1>2, <2>1, <3>1 DEF OneSet, M!OneSet
    <3>2. CASE k \notin lines /\ l \in lines
      BY <1>8, <1>10, <2>1, <3>2
    <3>3. CASE k \in lines /\ l \notin lines
      BY <1>8, <1>10, <2>1, <3>3
    <3>4. CASE k \notin lines /\ l \notin lines
      BY <1>8, <2>1, <3>4
    <3> QED
      BY <3>1, <3>2, <3>3, <3>4
  <2> QED
    BY <1>2, <1>6, <2>1 DEF OneSet, M!OneSet
<1>12. Queued(q)'
  <2>1. PICK Q : Q = In(queue)
    OBVIOUS
  <2>2. Steady
    BY <1>2 DEF Steady, PageHeld, HasPage, M!Names
  <2>3. ASSUME NEW row \in Q PROVE OfRow(row)' /\ Recorded(row, q)'
    <3>1. OfRow(row) /\ Recorded(row, r)
      BY <1>2, <2>1, <2>3 DEF Queued
    <3>2. Whole(row, q)' \subseteq Whole(row, r)
      BY <1>2, <1>3, <1>4, <1>1 DEF Whole, M!PageOf, M!Names, Replaced, Busy
    <3>3. ASSUME NEW n \in Whole(row, r) PROVE n # name
      <4>1. n \in M!Names /\ pages[n] # None /\ pages[n].id = row.id /\ n \notin torn /\ (r.rows # << >> => n # name)
        BY <1>1, <1>2, <3>3 DEF Whole, M!PageOf, Busy
      <4>2. ASSUME n = name PROVE FALSE
        BY <1>1, <1>5, <2>1, <2>3, <4>1, <4>2 DEF PageHeld, FirstTime
      <4> QED
        BY <4>2
    <3>4. ASSUME NEW n \in Whole(row, r), NEW p \in M!Places, NEW x \in L, x.place = p, x.name = n
          PROVE Known(row, x, p)'
      <4>1. n # name /\ x \in lines
        BY <1>8, <3>3, <3>4
      <4>2. Known(row, x, p) /\ ALine(x)
        BY <1>2, <3>1, <3>4, <4>1 DEF Recorded, M!At, PagesHeld
      <4>3. Untouched(x).name = n
        BY <3>4, <4>2 DEF ALine, Untouched
      <4> QED
        BY <1>6, <1>8, <4>1, <4>2, <4>3 DEF Known, Untouched
    <3>5. Recorded(row, q)'
      BY <1>6, <3>2, <3>4 DEF Recorded, M!At, M!Places
    <3> QED
      BY <2>2, <3>1, <3>5, RowStays
  <2> QED
    BY <1>2, <2>1, <2>3 DEF Queued, In, Distinct
<1>13. Drained(q)'
  BY <1>1, <1>2, <1>3, <1>4 DEF Underhand, Drained, Draining, ToDrain, Due, M!PageOf, M!Names, Writing
<1>14. AtFiling(fil, q)'
  <2>1. (fil.name \in torn \/ Fresh(fil, q))'
    <3>1. CASE name \in torn
      BY <1>1, <1>2, <3>1
    <3>2. CASE name \notin torn
      <4>1. \A p \in M!Places \ fil.skip : \A l \in L : l.place = p /\ l.name = name => l.words = words
        BY <1>1, <1>5, <1>8, <3>2 DEF Fresh, M!At
      <4>2. M!Reads(id, fil.from)' = words
        BY <1>1, <1>2 DEF M!Reads, M!Words
      <4>3. q.at # "page"
        BY <1>3, <1>4 DEF Writing
      <4> QED
        BY <1>1, <1>6, <4>1, <4>2, <4>3 DEF Fresh, M!At, M!Places
    <3> QED
      BY <3>1, <3>2
  <2>2. q.at # "page" /\ q.at \in Writing
    BY <1>3, <1>4 DEF Writing
  <2>3. ASSUME r.rows = << >> PROVE FirstTime(fil, q)'
    <3>1. FirstTime(fil, r)
      BY <1>5, <2>3
    <3>2. name \in torn \/ \A l \in L : l.name = name => ~ l.touched
      BY <1>1, <1>8, <3>1 DEF FirstTime
    <3> QED
      BY <1>1, <1>2, <1>4, <1>6, <2>2, <3>1, <3>2 DEF FirstTime
  <2>4. ASSUME r.rows # << >> PROVE Again(fil, q)'
    BY <1>2, <1>5, <2>2, <2>4 DEF Again, PageHeld
  <2> QED
    BY <1>1, <1>2, <1>4, <1>5, <2>1, <2>2, <2>3, <2>4 DEF AtFiling, PageHeld, Taken, M!All
<1>15. Underhand(q)'
  <2>1. Filing(q)'
    BY <1>1, <1>3, <1>4, <1>14 DEF Filing, Writing
  <2>2. (\A n \in q.gone : n \in M!Names /\ pages[n] # None)'
    BY <1>2, <1>4 DEF Underhand, M!Names
  <2>3. (\A m \in q.todo : ~ HasPage(m))'
    BY <1>2, <1>4 DEF Underhand, HasPage, M!Names
  <2> QED
    BY <1>13, <2>1, <2>2, <2>3 DEF Underhand
<1>16. Queued(run)' /\ Underhand(run)'
  <2>1. Queued(run)'
    BY <1>1, <1>12 DEF Queued, Recorded, Whole, Replaced, Busy
  <2>2. Underhand(run)'
    BY <1>1, <1>15 DEF Underhand, Drained, ToDrain, Due, Filing, AtFiling, FirstTime, Again, Fresh
  <2> QED
    BY <2>1, <2>2
<1> QED
  BY <1>9, <1>11, <1>16 DEF SetInv

(* The queue is written: with what the drain has kept, or with a row for    *)
(* the filing that is over.                                                 *)
LEMMA SetDrained == ASSUME NoneIsNoFiling, DeepInv, SetInv, M!DrainEnds PROVE SetInv'
<1>1. PICK r, q : r = run /\ q = run'
  OBVIOUS
<1>2. /\ r # None /\ Filled(r) /\ Underhand(r) /\ r.at = "drain" /\ r.rows = << >> /\ q = [r EXCEPT !.at = "list"]
      /\ UNCHANGED <<pages, lines, torn>> /\ queue' = r.kept /\ PagesHeld /\ OneSet /\ Queued(r)
  BY <1>1 DEF DeepInv, SetInv, M!DrainEnds, M!vault, M!past, AtWork, Filled
<1>3. /\ q.at = "list" /\ q.todo = r.todo /\ q.filing = r.filing /\ q.rows = << >> /\ q.gone = r.gone /\ q # None
  BY <1>2 DEF Filled, NoneIsNoFiling
<1>4. PICK K : K = In(r.kept)
  OBVIOUS
<1>5. Distinct(r.kept) /\ \A k \in K : Due(k, r)
  BY <1>2, <1>4 DEF Underhand, Drained, Draining, ToDrain
<1>6. PagesHeld' /\ OneSet' /\ Steady
  BY <1>2 DEF PagesHeld, OneSet, M!OneSet, Taken, M!Names, M!All, ALine, M!Places, Steady, PageHeld, HasPage
<1>7. ASSUME NEW k \in K PROVE OfRow(k)' /\ Recorded(k, q)'
  <2>1. PICK old \in In(queue) : old.id = k.id /\ old.wrote = k.wrote
    BY <1>5 DEF Due
  <2>2. OfRow(old) /\ Recorded(old, r)
    BY <1>2, <2>1 DEF Queued
  <2>3. OfRow(k)
    BY <2>1, <2>2 DEF OfRow, Homed
  <2>4. Recorded(k, r)
    BY <2>1, <2>2 DEF Recorded, Whole, Known
  <2>5. Whole(k, q)' = Whole(k, r)
    BY <1>2, <1>3 DEF Whole, M!PageOf, M!Names, Replaced, Busy, Writing
  <2>6. Recorded(k, q)'
    BY <1>2, <2>4, <2>5 DEF Recorded, Known, M!At, M!Places
  <2> QED
    BY <1>6, <2>3, <2>6, RowStays
<1>8. In(queue') = K /\ Distinct(queue')
  BY <1>2, <1>4, <1>5
<1>9. Queued(q)'
  BY <1>7, <1>8 DEF Queued
<1>10. Underhand(q)'
  <2>1. Drained(q)'
    <3>1. \A k \in K : M!PageOf(k.id)' \cap r.gone = {}
      BY <1>2, <1>5 DEF Due, M!PageOf, M!Names
    <3> QED
      BY <1>3, <1>8, <3>1 DEF Drained, Draining
  <2>2. Filing(q)'
    BY <1>2, <1>3 DEF Underhand, Filing, Writing
  <2>3. (\A n \in q.gone : n \in M!Names /\ pages[n] # None)'
    BY <1>2, <1>3 DEF Underhand, M!Names
  <2>4. (\A m \in q.todo : ~ HasPage(m))'
    BY <1>2, <1>3 DEF Underhand, HasPage, M!Names
  <2> QED
    BY <2>1, <2>2, <2>3, <2>4 DEF Underhand
<1>11. Queued(run)' /\ Underhand(run)'
  <2>1. Queued(run)'
    BY <1>1, <1>9 DEF Queued, Recorded, Whole, Replaced, Busy
  <2>2. Underhand(run)'
    BY <1>1, <1>10 DEF Underhand, Drained, ToDrain, Due, Filing, AtFiling, FirstTime, Again, Fresh
  <2> QED
    BY <2>1, <2>2
<1> QED
  BY <1>6, <1>11 DEF SetInv

LEMMA SetFiled == ASSUME NoneIsNoFiling, DeepInv, SetInv, M!After, run.rows = << >> PROVE SetInv'
<1>1. PICK r, q, fil, name, id : r = run /\ q = run' /\ fil = r.filing /\ name = fil.name /\ id = fil.id
  OBVIOUS
<1>2. /\ r # None /\ Filled(r) /\ OfFiling(r) /\ Underhand(r) /\ r.at = "after" /\ r.rows = << >>
      /\ UNCHANGED <<pages, lines, torn, readings>> /\ PagesHeld /\ OneSet /\ Queued(r) /\ DeepTypes
  BY <1>1 DEF DeepInv, SetInv, M!After, M!vault, M!past, AtWork, Filled
<1>3. q = [r EXCEPT !.at = "next", !.filing = None, !.filed = r.filed \cup {id}]
  BY <1>1, <1>2 DEF M!After, M!f
<1>4. /\ q.at = "next" /\ q.todo = r.todo /\ q.filing = None /\ q.rows = << >> /\ q.gone = r.gone /\ q # None
  BY <1>2, <1>3 DEF Filled, NoneIsNoFiling
<1>5. name \in M!Names /\ PageHeld(name, id) /\ FirstTime(fil, r)
  BY <1>1, <1>2 DEF Underhand, Filing, AtFiling, OfFiling, Writing
<1>6. PICK wrote, new :
        wrote = M!_first_filing_record(name) /\ new = [id |-> id, attempts |-> 0, wrote |-> wrote]
  OBVIOUS
<1>7. \/ queue' = queue
      \/ queue' = Append(queue, new) /\ \A i \in DOMAIN queue : queue[i].id # id
  <2>1. queue' = IF fil.deep THEN M!queue_deep_read(id, name) ELSE queue
    BY <1>1 DEF M!After, M!f
  <2> QED
    BY <1>6, <2>1, Zenon DEF M!queue_deep_read
<1>8. \A row : Whole(row, q) = Whole(row, r)
  BY <1>2, <1>4 DEF Whole, Replaced, Busy
<1>9. Filing(q) /\ (\A n \in q.gone : n \in M!Names /\ pages[n] # None) /\ \A m \in q.todo : ~ HasPage(m)
  BY <1>2, <1>4 DEF Underhand, Filing, Writing
<1>10. \A row \in In(queue) : M!PageOf(row.id) \cap r.gone = {}
  BY <1>2 DEF Underhand, Drained, Draining
<1>11. CASE queue' = queue
  <2>1. Drained(q)
    BY <1>4, <1>10 DEF Drained, Draining
  <2>2. Underhand(q)
    BY <1>9, <2>1 DEF Underhand
  <2>3. \A row \in In(queue) : Whole(row, q) \subseteq Whole(row, run)
    BY <1>1, <1>8
  <2> QED
    BY <1>1, <1>2, <1>4, <1>11, <2>2, <2>3, RunOnly
<1>12. CASE queue' = Append(queue, new) /\ \A i \in DOMAIN queue : queue[i].id # id
  <2>1. PICK Q : Q = In(queue)
    OBVIOUS
  <2>2. \A x \in Q : x.id # id
    BY <1>2, <1>12, <2>1 DEF In, DeepTypes, RowsOf
  <2>3. In(queue') = Q \cup {new} /\ Distinct(queue')
    BY <1>2, <1>6, <1>12, <2>1, <2>2, InAppended DEF DeepTypes, Queued
  <2>4. PagesHeld' /\ OneSet' /\ Steady
    BY <1>2 DEF PagesHeld, OneSet, M!OneSet, Taken, M!Names, M!All, ALine, M!Places, Steady, PageHeld, HasPage
  <2>5. M!PageOf(id) = {name}
    BY <1>2, <1>5 DEF M!PageOf, PageHeld, PagesHeld
  <2>6. ASSUME NEW p \in M!Places PROVE wrote[p] = {l \in M!At(p, name) : ~ l.touched}
    BY <1>6 DEF M!_first_filing_record
  <2>7. OfRow(new)
    <3>1. Homed(new)
      <4> SUFFICES ASSUME NEW p \in M!Places, NEW l \in wrote[p]
          PROVE  /\ ALine(l) /\ l.place = p /\ ~ l.touched /\ (l.name \in torn \/ PageHeld(l.name, id))
                 /\ \A k \in wrote[p] : k.name = l.name /\ l.name \notin torn => k.words = l.words
        BY <1>6 DEF Homed
      <4>1. l \in lines /\ l.place = p /\ l.name = name /\ ~ l.touched
        BY <2>6 DEF M!At
      <4>2. \A k \in wrote[p] : k \in lines /\ k.place = p
        BY <2>6 DEF M!At
      <4> QED
        BY <1>2, <1>5, <4>1, <4>2 DEF PagesHeld, OneSet, M!OneSet
    <3>2. HasPage(id)
      BY <1>5 DEF HasPage, PageHeld
    <3> QED
      BY <1>6, <3>1, <3>2 DEF OfRow
  <2>8. Recorded(new, r)
    <3> SUFFICES ASSUME NEW n \in Whole(new, r), NEW p \in M!Places, NEW l \in M!At(p, n) PROVE Known(new, l, p)
      BY DEF Recorded
    <3>1. n = name /\ name \notin torn
      BY <1>6, <2>5 DEF Whole
    <3>2. ~ l.touched
      BY <1>1, <1>5, <3>1 DEF FirstTime, M!At
    <3> QED
      BY <1>6, <2>6, <3>1, <3>2 DEF Known
  <2>9. ASSUME NEW row \in Q \cup {new} PROVE OfRow(row)' /\ Recorded(row, q)'
    <3>1. OfRow(row) /\ Recorded(row, r)
      BY <1>2, <2>1, <2>7, <2>8 DEF Queued
    <3>2. Whole(row, q)' = Whole(row, r)
      BY <1>2, <1>4 DEF Whole, M!PageOf, M!Names, Replaced, Busy
    <3>3. Recorded(row, q)'
      BY <1>2, <3>1, <3>2 DEF Recorded, Known, M!At, M!Places
    <3> QED
      BY <2>4, <3>1, <3>3, RowStays
  <2>10. Queued(q)'
    BY <2>3, <2>9 DEF Queued
  <2>11. Underhand(q)'
    <3>1. Drained(q)'
      <4>1. M!PageOf(new.id) \cap r.gone = {}
        BY <1>1, <1>5, <1>6, <2>5 DEF FirstTime
      <4>2. \A row \in Q \cup {new} : M!PageOf(row.id) \cap r.gone = {}
        BY <1>10, <2>1, <4>1
      <4>3. \A row \in Q \cup {new} : M!PageOf(row.id)' \cap r.gone = {}
        BY <1>2, <4>2 DEF M!PageOf, M!Names
      <4> QED
        BY <1>4, <2>3, <4>3 DEF Drained, Draining
    <3>2. Filing(q)'
      BY <1>4 DEF Filing, Writing
    <3>3. (\A n \in q.gone : n \in M!Names /\ pages[n] # None)'
      BY <1>2, <1>9 DEF M!Names
    <3>4. (\A m \in q.todo : ~ HasPage(m))'
      BY <1>2, <1>9 DEF HasPage, M!Names
    <3> QED
      BY <3>1, <3>2, <3>3, <3>4 DEF Underhand
  <2>12. Queued(run)' /\ Underhand(run)'
    <3>1. Queued(run)'
      BY <1>1, <2>10 DEF Queued, Recorded, Whole, Replaced, Busy
    <3>2. Underhand(run)'
      BY <1>1, <2>11 DEF Underhand, Drained, ToDrain, Due, Filing, AtFiling, FirstTime, Again, Fresh
    <3> QED
      BY <3>1, <3>2
  <2> QED
    BY <2>4, <2>12 DEF SetInv
<1> QED
  BY <1>7, <1>11, <1>12

(* The transcript is read: what the first filing wrote, and nobody touched, *)
(* is taken out, so that nothing is left where the new lines will go.       *)
LEMMA SetRead == ASSUME NoneIsNoFiling, DeepInv, SetInv, M!DrainReads PROVE SetInv'
<1>1. PICK r, q, row, id : r = run /\ q = run' /\ row = Head(r.rows) /\ id = row.id
  OBVIOUS
<1>2. /\ r # None /\ Filled(r) /\ RowsOf(r.rows) /\ Underhand(r) /\ r.at = "drain" /\ r.rows # << >>
      /\ UNCHANGED <<pages, queue, torn>> /\ PagesHeld /\ OneSet /\ Queued(r)
  BY <1>1 DEF DeepInv, SetInv, M!DrainReads, M!ThisRun, M!Reading, M!stage, AtWork, Filled
<1>3. PICK out, kept : out = M!Retired(row) /\ kept = M!Kept(row)
  OBVIOUS
<1>4. PICK n : /\ n \in M!PageOf(id)
               /\ q = [r EXCEPT !.at = "page",
                        !.filing = [id |-> id, name |-> n, from |-> "transcript", deep |-> FALSE,
                                    skip |-> kept, undo |-> out]]
  BY <1>1, <1>3, Zenon DEF M!DrainReads, M!Row
<1>5. PICK fil : fil = [id |-> id, name |-> n, from |-> "transcript", deep |-> FALSE, skip |-> kept, undo |-> out]
  OBVIOUS
<1>6. /\ q.at = "page" /\ q.todo = r.todo /\ q.filing = fil /\ q.rows = r.rows /\ q.kept = r.kept
      /\ q.gone = r.gone /\ q # None
      /\ fil.id = id /\ fil.name = n /\ fil.skip = kept /\ fil.undo = out
  BY <1>2, <1>4, <1>5 DEF Filled, NoneIsNoFiling
<1>7. lines' = lines \ out
  BY <1>1, <1>3 DEF M!DrainReads, M!Row
<1>8. n \in M!Names /\ PageHeld(n, id) /\ id \in M!All /\ n \in {id, Titled[id]} /\ (n = id => Taken(id))
  BY <1>2, <1>4 DEF M!PageOf, PageHeld, PagesHeld
<1>9. ToDrain(r) /\ row \in In(r.rows)
  BY <1>1, <1>2, InTaken DEF Underhand, Drained, Draining
<1>10. PICK old \in In(queue) : old.id = id /\ old.wrote = row.wrote
  BY <1>1, <1>9 DEF ToDrain, Due
<1>11. n \notin r.gone /\ Recorded(old, r)
  BY <1>1, <1>2, <1>4, <1>9, <1>10 DEF ToDrain, Due, Queued
<1>12. \A p \in M!Places \ kept : row.wrote[p] \subseteq lines /\ row.wrote[p] \subseteq out
  BY <1>3 DEF M!Kept, M!Retired
<1>13. ASSUME n \notin torn, NEW p \in M!Places \ kept, NEW l \in M!At(p, n) PROVE l \in out
  <2>1. n \in Whole(old, r)
    BY <1>2, <1>4, <1>10, <1>11, <1>13 DEF Whole, Replaced, Busy, Writing
  <2>2. Known(old, l, p)
    BY <1>11, <1>13, <2>1 DEF Recorded
  <2> QED
    BY <1>10, <1>12, <2>2 DEF Known
<1>14. PagesHeld' /\ OneSet' /\ Steady
  <2>1. PagesHeld'
    BY <1>2, <1>7 DEF PagesHeld, Taken, M!Names, M!All, ALine, M!Places
  <2>2. OneSet'
    BY <1>2, <1>7 DEF OneSet, M!OneSet
  <2>3. Steady
    BY <1>2 DEF Steady, PageHeld, HasPage, M!Names
  <2> QED
    BY <2>1, <2>2, <2>3
<1>15. Queued(q)'
  <2>1. PICK Q : Q = In(queue)
    OBVIOUS
  <2>2. ASSUME NEW x \in Q PROVE OfRow(x)' /\ Recorded(x, q)'
    <3>1. OfRow(x) /\ Recorded(x, r)
      BY <1>2, <2>1, <2>2 DEF Queued
    <3>2. Whole(x, q)' = Whole(x, r)
      BY <1>2, <1>6 DEF Whole, M!PageOf, M!Names, Replaced, Busy, Writing
    <3>3. ASSUME NEW k \in Whole(x, r), NEW p \in M!Places, NEW l \in M!At(p, k) PROVE Known(x, l, p)'
      BY <1>7, <3>1, <3>3 DEF Recorded, Known, Untouched
    <3>4. Recorded(x, q)'
      BY <1>7, <3>2, <3>3 DEF Recorded, M!At, M!Places
    <3> QED
      BY <1>14, <3>1, <3>4, RowStays
  <2> QED
    BY <1>2, <2>1, <2>2 DEF Queued, In, Distinct
<1>16. AtFiling(fil, q)'
  <2>1. (fil.name \in torn \/ Fresh(fil, q))'
    <3>1. CASE n \in torn
      BY <1>2, <1>6, <3>1
    <3>2. CASE n \notin torn
      <4>1. \A p \in M!Places \ kept : \A l \in lines \ out : ~ (l.place = p /\ l.name = n)
        BY <1>13, <3>2 DEF M!At
      <4> QED
        BY <1>6, <1>7, <4>1 DEF Fresh, M!At, M!Places
    <3> QED
      BY <3>1, <3>2
  <2>2. Again(fil, q)'
    <3>1. out = UNION {row.wrote[p] : p \in M!Places \ kept}
      BY <1>3 DEF M!Retired, M!Kept
    <3> QED
      BY <1>1, <1>2, <1>6, <1>8, <3>1 DEF Again, PageHeld, M!Places
  <2> QED
    BY <1>2, <1>6, <1>8, <2>1, <2>2 DEF AtFiling, Writing, M!All, Taken
<1>17. Underhand(q)'
  <2>1. Drained(q)'
    BY <1>2, <1>6, <1>9 DEF Drained, Draining, ToDrain, Due, M!PageOf, M!Names
  <2>2. Filing(q)'
    BY <1>6, <1>16 DEF Filing
  <2>3. (\A k \in q.gone : k \in M!Names /\ pages[k] # None)'
    BY <1>2, <1>6 DEF Underhand, M!Names
  <2>4. (\A m \in q.todo : ~ HasPage(m))'
    BY <1>2, <1>6 DEF Underhand, HasPage, M!Names
  <2> QED
    BY <2>1, <2>2, <2>3, <2>4 DEF Underhand
<1>18. Queued(run)' /\ Underhand(run)'
  <2>1. Queued(run)'
    BY <1>1, <1>15 DEF Queued, Recorded, Whole, Replaced, Busy
  <2>2. Underhand(run)'
    BY <1>1, <1>17 DEF Underhand, Drained, ToDrain, Due, Filing, AtFiling, FirstTime, Again, Fresh
  <2> QED
    BY <2>1, <2>2
<1> QED
  BY <1>14, <1>18 DEF SetInv

(* The filing is refused: what was taken out is put back where nothing was  *)
(* written meanwhile.                                                       *)
LEMMA SetRefused == ASSUME NoneIsNoFiling, DeepInv, SetInv, M!DrainRefused PROVE SetInv'
<1>1. PICK r, q, row, id, fil, out :
        r = run /\ q = run' /\ row = Head(r.rows) /\ id = row.id /\ fil = r.filing /\ out = fil.undo
  OBVIOUS
<1>2. /\ r # None /\ Filled(r) /\ OfFiling(r) /\ RowsOf(r.rows) /\ RowsOf(r.kept) /\ Underhand(r)
      /\ r.at = "page" /\ r.rows # << >> /\ lines' = lines \cup out
      /\ UNCHANGED <<pages, queue, torn>> /\ PagesHeld /\ OneSet /\ Queued(r)
  BY <1>1 DEF DeepInv, SetInv, M!DrainRefused, M!stage, AtWork, Filled
<1>3. LeftOf(r, q) /\ KeptOf(r, q, row) /\ q.gone = r.gone
  <2>1. Shaped(row)
    BY <1>1, <1>2, RowTaken
  <2>2. Moved(r, q) /\ ~ M!After
    BY <1>1, <1>2 DEF Moved, M!After
  <2> QED
    BY <1>1, <1>2, <2>1, <2>2, TurnTaken
<1>4. q.at = "drain" /\ q.rows = Tail(r.rows) /\ q.todo = r.todo /\ q.filing = None /\ q # None
  BY <1>2, <1>3 DEF LeftOf
<1>5. /\ AtFiling(fil, r) /\ Again(fil, r) /\ fil.id = id /\ fil.name \in M!Names /\ PageHeld(fil.name, id)
      /\ out = UNION {row.wrote[p] : p \in M!Places \ fil.skip}
  BY <1>1, <1>2 DEF Underhand, Filing, AtFiling, OfFiling, Again
<1>6. ToDrain(r) /\ row \in In(r.rows)
  BY <1>1, <1>2, InTaken DEF Underhand, Drained, Draining
<1>7. PICK old \in In(queue) : old.id = id /\ old.wrote = row.wrote
  BY <1>1, <1>6 DEF ToDrain, Due
<1>8. OfRow(old) /\ Distinct(queue)
  BY <1>2, <1>7 DEF Queued
<1>9. ASSUME NEW l \in out
      PROVE  /\ l.place \in M!Places \ fil.skip /\ l \in old.wrote[l.place]
             /\ ALine(l) /\ ~ l.touched /\ (l.name \in torn \/ l.name = fil.name)
  <2>1. PICK p \in M!Places \ fil.skip : l \in old.wrote[p]
    BY <1>5, <1>7, <1>9
  <2>2. ALine(l) /\ l.place = p /\ ~ l.touched /\ (l.name \in torn \/ PageHeld(l.name, id))
    BY <1>7, <1>8, <2>1 DEF OfRow, Homed
  <2>3. PageHeld(l.name, id) => l.name = fil.name
    BY <1>2, <1>5, <2>2 DEF PageHeld, PagesHeld, ALine
  <2> QED
    BY <2>1, <2>2, <2>3
<1>10. ASSUME NEW k \in lines, k.name = fil.name, k.place \in M!Places \ fil.skip PROVE k.name \in torn
  BY <1>2, <1>5, <1>10 DEF AtFiling, Fresh, M!At
<1>11. PagesHeld'
  <2>1. \A l \in lines \cup out : ALine(l) /\ (l.name \in torn \/ pages[l.name] # None)
    BY <1>2, <1>5, <1>9 DEF PagesHeld, PageHeld
  <2> QED
    BY <1>2, <2>1 DEF PagesHeld, Taken, M!Names, M!All, ALine, M!Places
<1>12. OneSet'
  <2>1. ASSUME NEW k \in lines \cup out, NEW l \in lines \cup out, k.place = l.place, k.name = l.name, k.name \notin torn
        PROVE  k.words = l.words
    <3>1. CASE k \in lines /\ l \in lines
      BY <1>2, <2>1, <3>1 DEF OneSet, M!OneSet
    <3>2. CASE k \in out /\ l \in out
      <4>1. k \in old.wrote[l.place] /\ l \in old.wrote[l.place] /\ l.place \in M!Places
        BY <1>9, <2>1, <3>2
      <4> QED
        BY <1>8, <2>1, <4>1 DEF OfRow, Homed
    <3>3. CASE k \in out /\ l \in lines
      BY <1>9, <1>10, <2>1, <3>3
    <3>4. CASE k \in lines /\ l \in out
      BY <1>9, <1>10, <2>1, <3>4
    <3> QED
      BY <2>1, <3>1, <3>2, <3>3, <3>4
  <2> QED
    BY <1>2, <2>1 DEF OneSet, M!OneSet
<1>13. Steady
  BY <1>2 DEF Steady, PageHeld, HasPage, M!Names
<1>14. Queued(q)'
  <2>1. PICK Q : Q = In(queue)
    OBVIOUS
  <2>2. ASSUME NEW x \in Q PROVE OfRow(x)' /\ Recorded(x, q)'
    <3>1. OfRow(x) /\ Recorded(x, r) /\ x \in In(queue)
      BY <1>2, <2>1, <2>2 DEF Queued
    <3>2. Whole(x, q)' = Whole(x, r)
      BY <1>2, <1>3, <1>4 DEF Whole, M!PageOf, M!Names, Replaced, Busy, Writing
    <3>3. ASSUME NEW n \in Whole(x, r), NEW p \in M!Places, NEW l \in lines \cup out, l.place = p, l.name = n
          PROVE  Known(x, l, p)'
      <4>1. PageHeld(n, x.id) /\ n \notin torn /\ n \in M!Names
        BY <3>3 DEF Whole, M!PageOf, PageHeld
      <4>2. CASE l \in lines
        <5>1. Known(x, l, p) /\ ALine(l)
          BY <1>2, <3>1, <3>3, <4>2 DEF Recorded, M!At, PagesHeld
        <5>2. CASE ~ l.touched
          BY <5>1, <5>2 DEF Known
        <5>3. CASE l.touched
          <6>1. Untouched(l).name = n /\ Untouched(l).place = p
            BY <3>3, <5>1 DEF ALine, Untouched
          <6>2. Untouched(l) \notin out
            BY <1>9, <1>10, <3>3, <4>1, <4>2, <6>1
          <6> QED
            BY <1>2, <5>1, <5>3, <6>2 DEF Known, Untouched
        <5> QED
          BY <5>2, <5>3
      <4>3. CASE l \in out
        <5>1. n = fil.name /\ l \in old.wrote[p] /\ ~ l.touched
          BY <1>9, <3>3, <4>1, <4>3
        <5>2. x.id = id
          BY <1>5, <4>1, <5>1 DEF PageHeld
        <5>3. x = old
          BY <1>7, <1>8, <3>1, <5>2, OneRow
        <5> QED
          BY <5>1, <5>3 DEF Known
      <4> QED
        BY <3>3, <4>2, <4>3
    <3>4. Recorded(x, q)'
      BY <1>2, <3>2, <3>3 DEF Recorded, M!At, M!Places
    <3> QED
      BY <1>13, <3>1, <3>4, RowStays
  <2> QED
    BY <1>2, <2>1, <2>2 DEF Queued, In, Distinct
<1>15. Underhand(q)'
  <2>1. ToDrain(q)
    BY <1>1, <1>2, <1>3, <1>4, LeftIsDue
  <2>2. Drained(q)'
    BY <1>2, <1>4, <2>1 DEF Drained, Draining, ToDrain, Due, M!PageOf, M!Names
  <2>3. Filing(q)'
    BY <1>4 DEF Filing, Writing
  <2>4. (\A k \in q.gone : k \in M!Names /\ pages[k] # None)'
    BY <1>2, <1>3 DEF Underhand, M!Names
  <2>5. (\A m \in q.todo : ~ HasPage(m))'
    BY <1>2, <1>4 DEF Underhand, HasPage, M!Names
  <2> QED
    BY <2>2, <2>3, <2>4, <2>5 DEF Underhand
<1>16. Queued(run)' /\ Underhand(run)'
  <2>1. Queued(run)'
    BY <1>1, <1>14 DEF Queued, Recorded, Whole, Replaced, Busy
  <2>2. Underhand(run)'
    BY <1>1, <1>15 DEF Underhand, Drained, ToDrain, Due, Filing, AtFiling, FirstTime, Again, Fresh
  <2> QED
    BY <2>1, <2>2
<1> QED
  BY <1>11, <1>12, <1>16 DEF SetInv

(* A death tears every page that was being replaced.                        *)
LEMMA SetKilled == ASSUME OwnNames, NoneIsNoFiling, DeepInv, SetInv, M!Dies PROVE SetInv'
<1>1. PICK r, fil, name, id, tears : r = run /\ fil = r.filing /\ name = fil.name /\ id = fil.id /\ tears = torn'
  OBVIOUS
<1>2. /\ r # None /\ OfFiling(r) /\ Underhand(r) /\ run' = None
      /\ tears = torn \cup r.gone \cup IF fil = None THEN {} ELSE {name, id}
      /\ UNCHANGED <<pages, lines, queue>> /\ PagesHeld /\ OneSet
  BY <1>1 DEF DeepInv, SetInv, M!Dies, M!f, M!vault
<1>3. r.at \in {"page"} \cup Writing <=> fil # None
  BY <1>1, <1>2 DEF OfFiling, Underhand, Filing, NoneIsNoFiling
<1>4. fil # None => /\ id \in M!All /\ name \in {id, Titled[id]} /\ (name = id => Taken(id))
                    /\ PageHeld(name, id) \/ r.at = "page"
  BY <1>1, <1>2, <1>3 DEF Underhand, Filing, AtFiling
<1>5. PagesHeld'
  <2>1. ASSUME NEW m \in M!All, Taken(m) \/ Titled[m] \in tears PROVE Taken(m)'
    BY <1>1, <1>2, <2>1 DEF Taken
  <2>2. ASSUME NEW m \in M!All, pages[m] # None \/ m \in tears PROVE Taken(m)'
    <3>1. CASE pages[m] # None \/ m \in torn \/ m \in r.gone
      BY <1>2, <2>1, <3>1 DEF PagesHeld, Underhand
    <3>2. CASE fil # None /\ m = name
      BY <1>4, <2>1, <3>2 DEF OwnNames
    <3>3. CASE fil # None /\ m = id
      BY <1>2, <1>4, <2>1, <3>3
    <3> QED
      BY <1>2, <2>2, <3>1, <3>2, <3>3
  <2> QED
    BY <1>1, <1>2, <2>2 DEF PagesHeld, M!Names, M!All, ALine, M!Places
<1>6. OneSet' /\ Steady
  BY <1>1, <1>2 DEF OneSet, M!OneSet, Steady, PageHeld, HasPage, M!Names
<1>7. \A row \in In(queue) : Whole(row, None)' \subseteq Whole(row, run)
  BY <1>1, <1>2, <1>3 DEF Whole, M!PageOf, M!Names, Replaced, Busy, Writing
<1>8. Queued(None)'
  BY <1>2, <1>6, <1>7, QueueStays DEF SetInv
<1>9. Queued(run)'
  BY <1>2, <1>8 DEF Queued, Recorded, Whole, Replaced, Busy
<1> QED
  BY <1>2, <1>5, <1>6, <1>9 DEF SetInv

LEMMA SetNext == ASSUME OwnNames, NoneIsNoFiling, DeepInv, SetInv, [M!Next]_(M!vars) PROVE SetInv'
<1>1. CASE M!Held \/ M!Prefetch \/ UNCHANGED M!vars
  <2>1. M!Held \/ M!Prefetch \/ UNCHANGED <<pages, lines, queue, run, readings, torn>>
    BY <1>1 DEF M!vars, M!vault, M!past
  <2> QED
    BY <2>1, SetQuiet
<1>2. CASE M!Staged \/ M!Hour
  BY <1>2, SetStarts
<1>3. CASE M!DrainKeeps \/ M!DrainMissesPage \/ M!DrainCapped \/ M!DrainFails
  BY <1>3, RowsTurn
<1>4. CASE M!After
  BY <1>4, RowsTurn, SetFiled
<1>5. CASE M!DrainReads
  BY <1>5, SetRead
<1>6. CASE M!DrainRefused
  BY <1>6, SetRefused
<1>7. CASE M!DrainEnds
  BY <1>7, SetDrained
<1>8. CASE M!List \/ M!Mark \/ M!Ends \/ \E m \in M!All : M!Refused(m)
  BY <1>8, RunGoesOn
<1>9. CASE \E m \in M!All : M!Begin(m)
  BY <1>9, SetBegins
<1>10. CASE M!WritePage
  BY <1>10, SetPageWritten
<1>11. CASE M!Promote \/ M!update_index
  BY <1>11, SetLinesWritten
<1>12. CASE M!Dies
  BY <1>12, SetKilled
<1>13. CASE \E l \in lines : M!Touch(l)
  BY <1>13, SetTouched
<1>14. CASE \E n \in M!Names : M!Discard(n)
  BY <1>14, SetDiscarded
<1> QED
  BY <1>1, <1>2, <1>3, <1>4, <1>5, <1>6, <1>7, <1>8, <1>9, <1>10, <1>11, <1>12, <1>13, <1>14 DEF M!Next, M!Moves

(* OneSet: for any meetings, titles, action items, calls that cannot be     *)
(* read and limits, and any number of deaths, faults and touches by the     *)
(* user, as long as a page's own name is no title: of the lines of a place  *)
(* that name a page, all are of one reading, except on a page that a death  *)
(* or the user caught between two writes.  A later reading takes out what   *)
(* the first wrote and nobody touched, and writes nothing beside what       *)
(* somebody did (_retire_first_filing, run_ingest).                         *)
THEOREM OneSetAlways == ASSUME NoneIsNoFiling PROVE VaultSpec => []OneSet
<1>1. VaultInit => DeepInv /\ SetInv
  BY FilingInit, SetInit DEF VaultInit
<1>2. DeepInv /\ SetInv /\ [VaultNext]_all => DeepInv' /\ SetInv'
  <2> SUFFICES ASSUME DeepInv, SetInv, [VaultNext]_all PROVE DeepInv' /\ SetInv'
    OBVIOUS
  <2>1. M!Next \/ UNCHANGED filing
    BY DEF VaultNext, all
  <2>2. UNCHANGED filing => DeepInv' /\ SetInv'
    BY NoRunSteps, SetQuiet DEF filing
  <2> QED
    BY <2>1, <2>2, FilingNext, SetNext, FilingAssumption
<1>3. SetInv => OneSet
  BY DEF SetInv
<1> QED
  BY <1>1, <1>2, <1>3, PTL DEF VaultSpec
==============================================================================
