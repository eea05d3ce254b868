---------------------------- MODULE JobWatchProofs ----------------------------
(***************************************************************************)
(* Proofs about JobWatch, for any jobs, failures and bounds: restarts and  *)
(* looks of the mechanic stay within their budgets whenever ticks die, and *)
(* a working run is spared when nothing is started by hand.                *)
(***************************************************************************)
EXTENDS JobWatch, FiniteSetTheorems, TLAPS

USE DEF ledger, work, disk, tickvars, faults, history

LEMMA InitTypes == Init => TypeOK
  BY WatchAssumption DEF Init, TypeOK, Slot, Untouched, NoSlots, Moments, Signatures, Silence, NoRows,
     Reasons, Grades

LEMMA JobTypes ==
  ASSUME TypeOK, NEW j \in Jobs, NEW w \in Ways, JobStep(j, w) \/ RunDies(j, w)
  PROVE  TypeOK'
<1> USE WatchAssumption DEF TypeOK
<1>1. <<j, w>> \in Runs /\ w \in {"scheduled", "hand"}
  BY DEF Runs, Ways
<1>2. CASE Begin(j, w)
  BY <1>1, <1>2 DEF Begin
<1>3. CASE Write(j, w)
  BY <1>1, <1>3 DEF Write
<1>4. CASE Record(j, w)
  BY <1>1, <1>4 DEF Record
<1>5. CASE Clear(j, w)
  BY <1>1, <1>5 DEF Clear
<1>6. CASE RunDies(j, w)
  BY <1>1, <1>6 DEF RunDies
<1> QED
  BY <1>2, <1>3, <1>4, <1>5, <1>6 DEF JobStep

LEMMA StartTypes ==
  ASSUME TypeOK, NEW j \in Jobs, Fire(j) \/ StartByHand(j)
  PROVE  TypeOK'
<1> USE WatchAssumption DEF TypeOK
<1>1. <<j, "scheduled">> \in Runs /\ <<j, "hand">> \in Runs
  BY DEF Runs
<1>2. CASE Fire(j)
  BY <1>1, <1>2 DEF Fire
<1>3. CASE StartByHand(j)
  BY <1>1, <1>3 DEF StartByHand
<1> QED
  BY <1>2, <1>3

(* A step of the hold policy changes mem at the job it decides, to a slot.  *)
LEMMA DecideTypes ==
  ASSUME TypeOK, NEW j \in Jobs,
         \/ LeaveAlone(j) \/ GiveUp(j) \/ HoldForLimit(j) \/ HoldForUser(j)
         \/ Defer(j) \/ Kick(j) \/ KickRefused(j)
  PROVE  TypeOK'
<1> USE WatchAssumption DEF TypeOK, Decided
<1>1. CASE LeaveAlone(j)
  BY <1>1 DEF LeaveAlone
<1>2. CASE GiveUp(j)
  BY <1>2 DEF GiveUp, Say, Reasons
<1>3. CASE HoldForUser(j)
  BY <1>3 DEF HoldForUser, Say, Reasons
<1>4. mem[j] \in Slot /\ slots[j] \in Slot
  OBVIOUS
<1>5. CASE HoldForLimit(j)
  <2>1. \A t \in (now + 1)..(now + 2) : t \in Moments
    BY DEF Moments
  <2>2. mem' \in [Jobs -> Slot]
    <3>1. CASE mem' = mem
      BY <3>1
    <3>2. ASSUME NEW t \in Moments, mem' = [mem EXCEPT ![j].quota_until = t]
          PROVE  mem' \in [Jobs -> Slot]
      BY <1>4, <3>2 DEF Slot
    <3> QED
      BY <1>5, <2>1, <3>1, <3>2 DEF HoldForLimit
  <2> QED
    BY <1>5, <2>2 DEF HoldForLimit, Say, Reasons
<1>6. CASE Defer(j)
  <2>1. mem' \in [Jobs -> Slot]
    BY <1>4, <1>6 DEF Defer, Slot
  <2> QED
    BY <1>6, <2>1 DEF Defer, Say, Reasons
<1>7. PastLimit(j) \in Moments
  BY <1>4 DEF PastLimit, Moments, Slot
<1>8. CASE Kick(j)
  <2>1. Signature(j) \in Signatures
    BY <1>8 DEF Kick, Signature, Signatures, MayRestart, Actionable
  <2>2. mem[j].kicks + 1 \in 0..KickCap
    BY <1>4, <1>8 DEF Kick, MayRestart, WithinCap, Slot
  <2>3. mem' \in [Jobs -> Slot]
    BY <1>4, <1>7, <1>8, <2>1, <2>2 DEF Kick, Slot
  <2> QED
    BY <1>8, <2>3 DEF Kick, Runs
<1>9. CASE KickRefused(j)
  <2>1. mem' \in [Jobs -> Slot]
    BY <1>4, <1>7, <1>9 DEF KickRefused, Slot
  <2> QED
    BY <1>9, <2>1 DEF KickRefused
<1> QED
  BY <1>1, <1>2, <1>3, <1>5, <1>6, <1>8, <1>9

LEMMA LookCounts ==
  ASSUME looks \in [Jobs -> Nat], Look
  PROVE  looks' \in [Jobs -> Nat]
<1>1. looks' = [looks EXCEPT ![cur] = looks[cur] + 1]
  BY DEF Look
<1>2. \A j \in Jobs : looks'[j] \in Nat
  <2> TAKE j \in Jobs
  <2>1. CASE j = cur
    BY <1>1, <2>1
  <2>2. CASE j # cur
    BY <1>1, <2>2
  <2> QED
    BY <2>1, <2>2
<1> QED
  BY <1>1, <1>2

LEMMA TickTypes ==
  ASSUME TypeOK, TickStep \/ Die
  PROVE  TypeOK'
<1> USE WatchAssumption DEF TypeOK
<1>0. /\ NoSlots \in [Jobs -> Slot]
      /\ Lose \/ Wipe \/ Miss => lost' \in Nat /\ wiped' \in Nat /\ missed' \in Nat
  BY DEF NoSlots, Untouched, Slot, Moments, Signatures, Lose, Wipe, Miss
<1>1. CASE TickReads
  BY <1>0, <1>1 DEF TickReads
<1>2. CASE Evaluate
  BY <1>2 DEF Evaluate, GradeOf, Grades
<1>3. ASSUME NEW j \in Jobs, Refuse(j) \/ Stamp(j) PROVE TypeOK'
  BY <1>0, <1>3 DEF Refuse, Stamp
<1>4. CASE AllDecided
  BY <1>4 DEF AllDecided
<1>5. CASE Look
  <2>1. looks' \in [Jobs -> Nat]
    BY <1>5, LookCounts
  <2> QED
    BY <1>5, <2>1 DEF Look
<1>6. CASE AllLooked
  BY <1>6 DEF AllLooked
<1>7. CASE Save
  BY <1>0, <1>7 DEF Save, WriteState
<1>8. CASE RecordTick
  BY <1>8 DEF RecordTick
<1>9. Rest => /\ at' = "off" /\ mem' \in [Jobs -> Slot] /\ cur' = None /\ atWork' \subseteq Jobs
              /\ runs' \in [good : SUBSET Jobs, bad : [Jobs -> Failures \cup {None}]]
              /\ grade' \in [Jobs -> Grades] /\ why' \in [Jobs -> Reasons \cup {None}]
              /\ kicked' \subseteq Jobs /\ todo' \subseteq Jobs
  BY <1>0 DEF Rest, NoRows, Silence, Grades
<1>10. CASE AlertOnStuck
  <2>1. slots' \in [Jobs -> Slot] /\ lost' \in Nat /\ wiped' \in Nat /\ missed' \in Nat
    BY <1>0, <1>10 DEF AlertOnStuck, NeedsYouToLook, WriteState
  <2> QED
    BY <1>9, <1>10, <2>1 DEF AlertOnStuck
<1>11. CASE Die
  BY <1>0, <1>9, <1>11 DEF Die
<1> QED
  BY <1>1, <1>2, <1>3, <1>4, <1>5, <1>6, <1>7, <1>8, <1>10, <1>11, DecideTypes DEF TickStep

LEMMA TimeTypes ==
  ASSUME TypeOK, Pass \/ NextSlot
  PROVE  TypeOK'
<1> USE WatchAssumption DEF TypeOK
<1>1. CASE Pass
  BY <1>1 DEF Pass
<1>2. CASE NextSlot
  BY <1>2 DEF NextSlot, NoSlots, Slot, Untouched, Moments, Signatures, Silence
<1> QED
  BY <1>1, <1>2

LEMMA TypesKept == TypeOK /\ [Next]_vars => TypeOK'
<1> SUFFICES ASSUME TypeOK, [Next]_vars PROVE TypeOK'
  OBVIOUS
<1>1. CASE UNCHANGED vars
  BY <1>1 DEF vars, TypeOK
<1> QED
  BY <1>1, JobTypes, StartTypes, TickTypes, TimeTypes DEF Next

(* Every reachable state of the watcher is well typed.                      *)
THEOREM WatchTypes == Spec => []TypeOK
  BY InitTypes, TypesKept, PTL DEF Spec

-----------------------------------------------------------------------------
(* Restarts are within what the state file and the tick's copy say, but for *)
(* the one of a tick that has not saved and what was lost before: one for a *)
(* tick that was not written, a budget for a file that was wiped.           *)
Debt == KickCap * wiped + lost

Counted ==
  /\ at = "off" \/ at = "grade" => kicked = {}
  /\ at = "decide" => todo \cap kicked = {}
  /\ at # "off" => \A j \in Jobs : restarts[j] <= mem[j].kicks + Debt
  /\ \A j \in Jobs : /\ j \in kicked => restarts[j] <= slots[j].kicks + Debt + 1
                     /\ j \notin kicked => restarts[j] <= slots[j].kicks + Debt

Kicks(f) == \A j \in Jobs : f[j].kicks \in Nat /\ f[j].kicks <= KickCap

LEMMA TypesOfCounts ==
  ASSUME TypeOK
  PROVE  /\ Kicks(mem) /\ Kicks(slots) /\ Debt \in Nat /\ KickCap \in Nat
         /\ \A j \in Jobs : restarts[j] \in Nat
         /\ restarts \in [Jobs -> Nat]
<1>1. KickCap \in Nat /\ wiped \in Nat /\ lost \in Nat
  BY WatchAssumption DEF TypeOK
<1>2. KickCap * wiped \in Nat
  BY <1>1
<1>3. Debt \in Nat
  BY <1>1, <1>2 DEF Debt
<1>4. Kicks(mem) /\ Kicks(slots)
  BY <1>1 DEF TypeOK, Slot, Kicks
<1> QED
  BY <1>1, <1>3, <1>4 DEF TypeOK

(* What a fault adds to it.                                                 *)
LEMMA Debts ==
  ASSUME TypeOK
  PROVE  /\ UNCHANGED <<lost, wiped>> => Debt' = Debt
         /\ Lose => Debt' = Debt + 1
         /\ Wipe => Debt' = Debt + KickCap
         /\ Miss => Debt' = Debt
<1>1. KickCap \in Nat /\ wiped \in Nat /\ lost \in Nat
  BY WatchAssumption DEF TypeOK
<1>2. KickCap * wiped \in Nat /\ KickCap * (wiped + 1) = KickCap * wiped + KickCap
  BY <1>1
<1> QED
  BY <1>1, <1>2 DEF Debt, Lose, Wipe, Miss

(* Everything that leaves the counts alone.                                 *)
LEMMA CountedIdle ==
  ASSUME Counted, UNCHANGED <<at, kicked, mem, slots, restarts, lost, wiped>>, todo' \subseteq todo
  PROVE  Counted'
  BY DEF Counted, Debt

LEMMA CountedDecide ==
  ASSUME TypeOK, Counted, NEW j \in Jobs,
         \/ LeaveAlone(j) \/ GiveUp(j) \/ HoldForLimit(j) \/ HoldForUser(j)
         \/ Defer(j) \/ KickRefused(j)
  PROVE  Counted'
<1>1. /\ UNCHANGED <<at, kicked, slots, restarts, lost, wiped>>
      /\ todo' \subseteq todo
  BY DEF LeaveAlone, GiveUp, HoldForLimit, HoldForUser, Defer, KickRefused, Decided
<1>2. \A x \in Jobs : mem'[x].kicks = mem[x].kicks
  <2>1. mem \in [Jobs -> Slot]
    BY DEF TypeOK
  <2>2. CASE mem' = mem
    BY <2>2
  <2>3. ASSUME NEW t, mem' = [mem EXCEPT ![j].quota_until = t]
        PROVE  \A x \in Jobs : mem'[x].kicks = mem[x].kicks
    BY <2>1, <2>3 DEF Slot
  <2>4. ASSUME mem' = [mem EXCEPT ![j].deferred_at = TRUE]
        PROVE  \A x \in Jobs : mem'[x].kicks = mem[x].kicks
    BY <2>1, <2>4 DEF Slot
  <2> QED
    BY <2>2, <2>3, <2>4 DEF LeaveAlone, GiveUp, HoldForLimit, HoldForUser, Defer, KickRefused
<1> QED
  BY <1>1, <1>2 DEF Counted, Debt

LEMMA CountedKick ==
  ASSUME TypeOK, Counted, NEW j \in Jobs, Kick(j)
  PROVE  Counted'
<1>1. /\ at = "decide" /\ at' = at /\ j \in todo
      /\ kicked' = kicked \cup {j} /\ todo' = todo \ {j}
      /\ UNCHANGED slots /\ Debt' = Debt
  BY DEF Kick, Decided, Deciding, Debt
<1>2. mem' \in [Jobs -> Slot]
  BY DecideTypes DEF TypeOK
<1>3. /\ mem'[j].kicks = mem[j].kicks + 1
      /\ \A x \in Jobs : x # j => mem'[x] = mem[x]
  BY DEF Kick, TypeOK, Slot
<1>4. /\ restarts'[j] = restarts[j] + 1
      /\ \A x \in Jobs : x # j => restarts'[x] = restarts[x]
  BY DEF Kick, TypeOK
<1>5. j \notin kicked
  BY <1>1 DEF Counted
<1>6. \A x \in Jobs : restarts'[x] <= mem'[x].kicks + Debt
  BY <1>1, <1>3, <1>4, TypesOfCounts DEF Counted, Kicks
<1>7. \A x \in Jobs : /\ x \in kicked' => restarts'[x] <= slots[x].kicks + Debt + 1
                      /\ x \notin kicked' => restarts'[x] <= slots[x].kicks + Debt
  BY <1>1, <1>4, <1>5, TypesOfCounts DEF Counted, Kicks
<1> QED
  BY <1>1, <1>6, <1>7 DEF Counted

LEMMA CountedTick ==
  ASSUME TypeOK, Counted, TickStep \/ Die
  PROVE  Counted'
<1>0. Kicks(mem) /\ Kicks(slots) /\ Debt \in Nat /\ KickCap \in Nat /\ (\A j \in Jobs : restarts[j] \in Nat)
  BY TypesOfCounts
<1>1. CASE TickReads
  <2>1. /\ at = "off" /\ at' = "grade" /\ UNCHANGED <<kicked, slots, restarts>>
        /\ \/ mem' = slots /\ Debt' = Debt
           \/ (\A j \in Jobs : mem'[j].kicks = 0) /\ Debt' = Debt + KickCap
    BY <1>1, Debts DEF TickReads, NoSlots, Untouched
  <2> QED
    BY <1>0, <2>1 DEF Counted, Kicks
<1>2. CASE Evaluate
  <2>1. Debt' = Debt
    BY <1>2, Debts DEF Evaluate
  <2> QED
    BY <1>2, <2>1 DEF Evaluate, Counted
<1>3. ASSUME NEW j \in Jobs, Refuse(j) \/ Stamp(j) PROVE Counted'
  <2>1. Debt' = Debt
    BY <1>3, Debts DEF Refuse, Stamp
  <2> QED
    BY <1>3, <2>1 DEF Refuse, Stamp, Counted
<1>4. CASE AllDecided \/ Look \/ AllLooked \/ RecordTick
  <2>1. Debt' = Debt
    BY <1>4, Debts DEF AllDecided, Look, AllLooked, RecordTick
  <2> QED
    BY <1>4, <2>1 DEF AllDecided, Look, AllLooked, RecordTick, Counted
<1>5. ASSUME at # "off", UNCHANGED restarts,
             \/ \A j \in Jobs : slots'[j].kicks = mem[j].kicks /\ Debt' = Debt
             \/ slots' = slots /\ Debt' = Debt + 1
             \/ (\A j \in Jobs : slots'[j].kicks = 0) /\ Debt' = Debt + KickCap
      PROVE  \A j \in Jobs : restarts'[j] <= slots'[j].kicks + Debt'
  BY <1>0, <1>5 DEF Counted, Kicks
<1>6. ASSUME NEW state, WriteState(state), \A j \in Jobs : state[j].kicks = mem[j].kicks
      PROVE  \/ (\A j \in Jobs : slots'[j].kicks = mem[j].kicks) /\ Debt' = Debt
             \/ slots' = slots /\ Debt' = Debt + 1
             \/ (\A j \in Jobs : slots'[j].kicks = 0) /\ Debt' = Debt + KickCap
  BY <1>6, Debts DEF WriteState, NoSlots, Untouched
<1>7. CASE Save
  <2>1. at = "save" /\ at' = "record" /\ UNCHANGED <<kicked, mem, restarts>>
    BY <1>7 DEF Save
  <2>2. \A j \in Jobs : restarts'[j] <= slots'[j].kicks + Debt'
    BY <1>5, <1>6, <1>7, <2>1 DEF Save
  <2>3. Debt' >= Debt /\ Debt' \in Nat
    BY <1>0, <1>6, <1>7 DEF Save
  <2>4. \A j \in Jobs : slots'[j].kicks \in Nat
    BY <1>7, TickTypes DEF TypeOK, Slot, TickStep
  <2>5. \A j \in Jobs : restarts'[j] <= mem'[j].kicks + Debt'
    BY <1>0, <2>1, <2>3 DEF Counted, Kicks
  <2> QED
    BY <1>0, <2>1, <2>2, <2>3, <2>4, <2>5 DEF Counted
<1>8. CASE AlertOnStuck
  <2>1. \A j \in Jobs : restarts'[j] <= slots'[j].kicks + Debt'
    BY <1>5, <1>6, <1>8 DEF AlertOnStuck, NeedsYouToLook
  <2>2. at' = "off" /\ kicked' = {}
    BY <1>8 DEF AlertOnStuck, Rest
  <2> QED
    BY <2>1, <2>2 DEF Counted
<1>9. CASE Die
  <2>1. \/ slots' = slots /\ Debt' = Debt + 1
        \/ (\A j \in Jobs : slots'[j].kicks = 0) /\ Debt' = Debt + KickCap
    BY <1>9, Debts DEF Die, NoSlots, Untouched
  <2>2. \A j \in Jobs : restarts'[j] <= slots'[j].kicks + Debt'
    BY <1>5, <1>9, <2>1 DEF Die
  <2>3. at' = "off" /\ kicked' = {}
    BY <1>9 DEF Die, Rest
  <2> QED
    BY <2>2, <2>3 DEF Counted
<1> QED
  BY <1>1, <1>2, <1>3, <1>4, <1>7, <1>8, <1>9, CountedDecide, CountedKick DEF TickStep

LEMMA CountedKept == TypeOK /\ Counted /\ [Next]_vars => Counted'
<1> SUFFICES ASSUME TypeOK, Counted, [Next]_vars PROVE Counted'
  OBVIOUS
<1>1. ASSUME NEW j \in Jobs, Fire(j) \/ StartByHand(j) PROVE Counted'
  BY <1>1, CountedIdle DEF Fire, StartByHand
<1>2. ASSUME NEW j \in Jobs, NEW w \in Ways, JobStep(j, w) \/ RunDies(j, w) PROVE Counted'
  BY <1>2, CountedIdle DEF JobStep, Begin, Write, Record, Clear, RunDies
<1>3. CASE Pass
  BY <1>3, CountedIdle DEF Pass
<1>4. CASE NextSlot
  <2>1. Debt' = Debt /\ \A j \in Jobs : slots'[j].kicks = 0 /\ restarts'[j] = 0
    BY <1>4, Debts DEF NextSlot, NoSlots, Untouched
  <2> QED
    BY <1>4, <2>1, TypesOfCounts DEF NextSlot, Counted
<1>5. CASE UNCHANGED vars
  BY <1>5, CountedIdle DEF vars
<1> QED
  BY <1>1, <1>2, <1>3, <1>4, <1>5, CountedTick DEF Next

(* However ticks die and whatever they fail to write, a job is restarted at *)
(* most KickCap times a slot, once more for every tick that was lost, and   *)
(* KickCap times more for every time the state was wiped.                   *)
THEOREM BudgetAlways == Spec => []BudgetHolds
<1>1. Init => Counted
  <2>1. ASSUME Init PROVE Debt = 0
    <3>1. KickCap * 0 = 0
      BY WatchAssumption
    <3> QED
      BY <2>1, <3>1 DEF Init, Debt
  <2> QED
    BY <2>1, WatchAssumption DEF Init, Counted, NoSlots, Untouched
<1>2. TypeOK /\ Counted => BudgetHolds
  <2> SUFFICES ASSUME TypeOK, Counted, NEW j \in Jobs PROVE restarts[j] <= KickCap + Debt
    <3>1. TypeOK => KickCap \in Nat /\ lost \in Nat /\ wiped \in Nat /\ KickCap * wiped \in Nat
      BY WatchAssumption DEF TypeOK
    <3> QED
      BY <3>1 DEF BudgetHolds, Debt
  <2>1. CASE at = "off"
    BY <2>1, TypesOfCounts DEF Counted, Kicks
  <2>2. CASE at # "off"
    BY <2>2, TypesOfCounts DEF Counted, Kicks
  <2> QED
    BY <2>1, <2>2
<1> QED
  BY <1>1, <1>2, CountedKept, WatchTypes, PTL DEF Spec

-----------------------------------------------------------------------------
(* A look was stamped, but for the stamps that were missed; stamps are      *)
(* within the day's budget, and so are the jobs looked at but for a budget  *)
(* for each stamp missed.                                                   *)
Looking(j) == at = "looking" /\ cur = j
Seen == {j \in Jobs : looks[j] > 0 \/ Looking(j)} \cup looked
Stamped ==
  /\ \A j \in Jobs : looks[j] + (IF Looking(j) THEN 1 ELSE 0) <= missed + (IF j \in looked THEN 1 ELSE 0)
  /\ Cardinality(looked) <= MaxPerDay
  /\ Cardinality(Seen) <= Cardinality(looked) + MaxPerDay * missed

\* The sets counted are finite, and the bound a number.
LEMMA SeenCounts ==
  ASSUME TypeOK
  PROVE  /\ IsFiniteSet(Seen) /\ IsFiniteSet(looked) /\ Seen \subseteq Jobs
         /\ Cardinality(Seen) \in Nat /\ Cardinality(looked) \in Nat
         /\ missed \in Nat /\ MaxPerDay \in Nat \ {0} /\ MaxPerDay * missed \in Nat
<1>1. Seen \subseteq Jobs /\ looked \subseteq Jobs
  BY DEF Seen, TypeOK
<1>2. IsFiniteSet(Seen) /\ IsFiniteSet(looked)
  BY <1>1, WatchAssumption, FS_Subset
<1>3. missed \in Nat /\ MaxPerDay \in Nat \ {0}
  BY WatchAssumption DEF TypeOK
<1>4. MaxPerDay * missed \in Nat
  BY <1>3
<1> QED
  BY <1>1, <1>2, <1>3, <1>4, FS_CardinalityType

LEMMA StampedIdle ==
  ASSUME TypeOK, Stamped, UNCHANGED <<looks, looked, missed>>,
         at' # "looking" \/ UNCHANGED <<at, cur>>
  PROVE  Stamped'
<1>1. \A j \in Jobs : Looking(j)' => Looking(j)
  BY DEF Looking
<1>2. Seen' \subseteq Seen
  BY <1>1 DEF Seen
<1>3. Cardinality(Seen') <= Cardinality(Seen) /\ Cardinality(Seen') \in Nat
  BY <1>2, SeenCounts, FS_Subset, FS_CardinalityType
<1>4. Cardinality(Seen') <= Cardinality(looked) + MaxPerDay * missed
  BY <1>3, SeenCounts DEF Stamped
<1>5. \A j \in Jobs : looks[j] \in Nat /\ missed \in Nat
  BY DEF TypeOK
<1> QED
  BY <1>1, <1>4, <1>5 DEF Stamped

LEMMA StampedStamp ==
  ASSUME TypeOK, Stamped, NEW j \in Jobs, Stamp(j)
  PROVE  Stamped'
<1>1. /\ at = "escalate" /\ at' = "looking" /\ cur' = j /\ UNCHANGED looks
      /\ \/ ~ AlreadyToday(j) /\ looked' = looked \cup {j} /\ missed' = missed
         \/ ~ AlreadyToday(j) /\ looked' \in {looked, {}} /\ missed' = missed + 1
         \/ looked' = {j} /\ missed' = missed + 1
  BY DEF Stamp, Miss
<1>2. /\ \A i \in Jobs : looks[i] \in Nat /\ missed \in Nat
      /\ \A i \in Jobs : ~ Looking(i) /\ (Looking(i)' <=> i = j)
  BY <1>1 DEF TypeOK, Looking
<1>3. \A i \in Jobs : looks'[i] + (IF Looking(i)' THEN 1 ELSE 0) <= missed' + (IF i \in looked' THEN 1 ELSE 0)
  <2> SUFFICES ASSUME NEW i \in Jobs
               PROVE  looks'[i] + (IF Looking(i)' THEN 1 ELSE 0) <= missed' + (IF i \in looked' THEN 1 ELSE 0)
    OBVIOUS
  <2>1. looks[i] <= missed + (IF i \in looked THEN 1 ELSE 0)
    BY <1>2 DEF Stamped
  <2>2. CASE missed' = missed + 1 /\ (looked' = {} \/ looked' = {j})
    <3>1. looks[i] <= missed + 1
      BY <1>2, <2>1
    <3>2. CASE i # j
      BY <1>1, <1>2, <2>2, <3>1, <3>2
    <3>3. CASE i = j /\ looked' = {j}
      BY <1>1, <1>2, <2>2, <3>1, <3>3
    <3>4. CASE i = j /\ looked' = {} /\ ~ AlreadyToday(j)
      <4>1. looks[i] <= missed
        BY <1>2, <2>1, <3>4 DEF AlreadyToday
      <4> QED
        BY <1>1, <1>2, <2>2, <3>4, <4>1
    <3> QED
      BY <1>1, <2>2, <3>2, <3>3, <3>4
  <2>3. CASE ~ AlreadyToday(j) /\ ((looked' = looked \cup {j} /\ missed' = missed) \/ (looked' = looked /\ missed' = missed + 1))
    <3>1. j \notin looked
      BY <2>3 DEF AlreadyToday
    <3>2. CASE i = j
      BY <1>1, <1>2, <2>1, <2>3, <3>1, <3>2
    <3>3. CASE i # j
      BY <1>1, <1>2, <2>1, <2>3, <3>3
    <3> QED
      BY <3>2, <3>3
  <2> QED
    BY <1>1, <2>2, <2>3
<1>4. Seen' \subseteq Seen \cup {j}
  BY <1>1, <1>2 DEF Seen
<1>5. Cardinality(Seen') <= Cardinality(Seen) + 1 /\ Cardinality(Seen') \in Nat
  <2>1. /\ IsFiniteSet(Seen \cup {j}) /\ Cardinality(Seen) \in Nat
        /\ Cardinality(Seen \cup {j}) = Cardinality(Seen) \/ Cardinality(Seen \cup {j}) = Cardinality(Seen) + 1
    BY SeenCounts, FS_AddElement
  <2>2. Cardinality(Seen') <= Cardinality(Seen \cup {j}) /\ IsFiniteSet(Seen')
    BY <1>4, <2>1, FS_Subset
  <2> QED
    BY <2>1, <2>2, FS_CardinalityType
<1>6. MaxPerDay * (missed + 1) = MaxPerDay * missed + MaxPerDay
  BY SeenCounts
<1>7. PICK c, s, t, m : c = Cardinality(looked) /\ s = Cardinality(Seen) /\ t = Cardinality(Seen') /\ m = MaxPerDay * missed
  OBVIOUS
<1>8. /\ c \in Nat /\ s \in Nat /\ t \in Nat /\ m \in Nat /\ MaxPerDay \in Nat \ {0}
      /\ c <= MaxPerDay /\ s <= c + m /\ t <= s + 1
  BY <1>5, <1>7, SeenCounts DEF Stamped
<1>9. Cardinality(looked') <= MaxPerDay /\ t <= Cardinality(looked') + MaxPerDay * missed'
  <2>1. CASE ~ AlreadyToday(j) /\ looked' = looked \cup {j} /\ missed' = missed
    <3>1. j \notin looked /\ ~ (c >= MaxPerDay)
      BY <1>7, <2>1 DEF AlreadyToday
    <3>2. Cardinality(looked') = c + 1
      BY <1>7, <2>1, <3>1, SeenCounts, FS_AddElement
    <3>3. MaxPerDay * missed' = m
      BY <1>7, <2>1
    <3> QED
      BY <1>8, <3>1, <3>2, <3>3
  <2>2. MaxPerDay * (missed + 1) = m + MaxPerDay
    BY <1>6, <1>7
  <2>3. CASE ~ AlreadyToday(j) /\ looked' = looked /\ missed' = missed + 1
    BY <1>7, <1>8, <2>2, <2>3
  <2>4. CASE ~ AlreadyToday(j) /\ looked' = {} /\ missed' = missed + 1
    <3>1. ~ (c >= MaxPerDay)
      BY <1>7, <2>4 DEF AlreadyToday
    <3>2. Cardinality(looked') = 0
      BY <2>4, FS_EmptySet
    <3> QED
      BY <1>8, <2>2, <2>4, <3>1, <3>2
  <2>5. CASE looked' = {j} /\ missed' = missed + 1
    <3>1. Cardinality(looked') = 1
      BY <2>5, FS_Singleton
    <3> QED
      BY <1>8, <2>2, <2>5, <3>1
  <2> QED
    BY <1>1, <2>1, <2>3, <2>4, <2>5
<1> QED
  BY <1>3, <1>7, <1>9 DEF Stamped

LEMMA StampedLook == ASSUME TypeOK, Stamped, Look PROVE Stamped'
<1>1. /\ at = "looking" /\ at' = "escalate" /\ cur \in Jobs \cup {None} /\ UNCHANGED <<looked, missed>>
      /\ looks' = [looks EXCEPT ![cur] = looks[cur] + 1] /\ looks \in [Jobs -> Nat] /\ missed \in Nat
  BY DEF Look, TypeOK
<1>2. \A j \in Jobs : looks'[j] = looks[j] + (IF Looking(j) THEN 1 ELSE 0) /\ ~ Looking(j)'
  BY <1>1 DEF Looking
<1>3. Seen' = Seen
  BY <1>1, <1>2 DEF Seen
<1> QED
  BY <1>1, <1>2, <1>3 DEF Stamped

LEMMA StampedKept == TypeOK /\ Stamped /\ [Next]_vars => Stamped'
<1> SUFFICES ASSUME TypeOK, Stamped, [Next]_vars PROVE Stamped'
  OBVIOUS
<1>1. ASSUME NEW j \in Jobs, Fire(j) \/ StartByHand(j) PROVE Stamped'
  BY <1>1, StampedIdle DEF Fire, StartByHand
<1>2. ASSUME NEW j \in Jobs, NEW w \in Ways, JobStep(j, w) \/ RunDies(j, w) PROVE Stamped'
  BY <1>2, StampedIdle DEF JobStep, Begin, Write, Record, Clear, RunDies
<1>3. ASSUME NEW j \in Jobs,
             \/ LeaveAlone(j) \/ GiveUp(j) \/ HoldForLimit(j) \/ HoldForUser(j)
             \/ Defer(j) \/ Kick(j) \/ KickRefused(j)
      PROVE  Stamped'
  BY <1>3, StampedIdle DEF LeaveAlone, GiveUp, HoldForLimit, HoldForUser, Defer, Kick,
     KickRefused, Decided
<1>4. CASE TickReads \/ Evaluate \/ AllDecided \/ AllLooked \/ Save \/ RecordTick
  BY <1>4, StampedIdle DEF TickReads, Evaluate, AllDecided, AllLooked, Save, WriteState, Lose, Wipe, RecordTick
<1>5. CASE AlertOnStuck \/ Die
  BY <1>5, StampedIdle DEF AlertOnStuck, WriteState, Lose, Wipe, Die, Rest
<1>6. ASSUME NEW j \in Jobs, Refuse(j) PROVE Stamped'
  BY <1>6, StampedIdle DEF Refuse
<1>7. ASSUME NEW j \in Jobs, Stamp(j) PROVE Stamped'
  BY <1>7, StampedStamp
<1>8. CASE Look
  BY <1>8, StampedLook
<1>9. CASE Pass
  BY <1>9, StampedIdle DEF Pass
<1>10. CASE NextSlot
  <2>1. at' # "looking" /\ looked' = {} /\ missed' = missed /\ looks' = [j \in Jobs |-> 0]
    BY <1>10 DEF NextSlot
  <2>2. Seen' = {}
    BY <2>1 DEF Seen, Looking
  <2>3. Cardinality({}) = 0
    BY FS_EmptySet
  <2> QED
    BY <2>1, <2>2, <2>3, SeenCounts DEF Stamped, Looking
<1>11. CASE UNCHANGED vars
  BY <1>11, StampedIdle DEF vars
<1> QED
  BY <1>1, <1>2, <1>3, <1>4, <1>5, <1>6, <1>7, <1>8, <1>9, <1>10, <1>11 DEF Next, TickStep

(* Whenever ticks die, the mechanic looks at a job once a day and at        *)
(* MaxPerDay jobs in all; a stamp that was not written or was wiped costs   *)
(* one look more at a job, and at most a day's jobs more.                   *)
THEOREM LooksAlways == Spec => []LooksBounded
<1>1. Init => Stamped
  <2> SUFFICES ASSUME Init PROVE Stamped
    OBVIOUS
  <2>1. Seen = {} /\ looked = {} /\ missed = 0 /\ \A j \in Jobs : looks[j] = 0 /\ ~ Looking(j)
    BY DEF Init, Seen, Looking
  <2>2. Cardinality({}) = 0 /\ MaxPerDay \in Nat /\ MaxPerDay * 0 = 0
    BY FS_EmptySet, WatchAssumption
  <2> QED
    BY <2>1, <2>2 DEF Stamped
<1>2. TypeOK /\ Stamped => LooksBounded
  <2> SUFFICES ASSUME TypeOK, Stamped PROVE LooksBounded
    OBVIOUS
  <2>1. \A j \in Jobs : looks[j] <= 1 + missed
    BY DEF Stamped, TypeOK
  <2> DEFINE seen == {j \in Jobs : looks[j] > 0}
  <2>2. Cardinality(seen) <= Cardinality(Seen) /\ IsFiniteSet(seen)
    <3>1. seen \subseteq Seen
      BY DEF Seen
    <3> QED
      BY <3>1, SeenCounts, FS_Subset
  <2>3. Cardinality(seen) \in Nat
    BY <2>2, FS_CardinalityType
  <2> HIDE DEF seen
  <2>4. Cardinality(seen) <= MaxPerDay + MaxPerDay * missed
    BY <2>2, <2>3, SeenCounts DEF Stamped
  <2> QED
    BY <2>1, <2>4 DEF LooksBounded, seen
<1> QED
  BY <1>1, <1>2, StampedKept, WatchTypes, PTL DEF Spec

-----------------------------------------------------------------------------
(* When nothing is started by hand, a job at work is marked as such, so the *)
(* tick grades it as running, or as done.                                   *)
AtWork(j) == run[<<j, "scheduled">>] \in {"working", "written"}

Marked ==
  /\ \A j \in Jobs : AtWork(j) => marker[j] = "scheduled"
  /\ at \in {"off", "grade"} => atWork = {}
  /\ at = "decide" => \A j \in atWork : grade[j] \in {"ok", "running"}

LEMMA MarkedIdle ==
  ASSUME Marked, UNCHANGED <<run, marker>>,
         \/ UNCHANGED <<at, atWork, grade>>
         \/ at' \notin {"off", "grade", "decide"}
         \/ atWork' = {}
  PROVE  Marked'
  BY DEF Marked, AtWork

LEMMA MarkedKept == ByHand = FALSE /\ TypeOK /\ Marked /\ [Next]_vars => Marked'
<1> SUFFICES ASSUME ByHand = FALSE, TypeOK, Marked, [Next]_vars PROVE Marked'
  OBVIOUS
<1>0. Ways = {"scheduled"} /\ None # "scheduled"
  BY WatchAssumption DEF Ways
<1>1. ASSUME NEW j \in Jobs, Fire(j) \/ StartByHand(j) PROVE Marked'
  <2>1. UNCHANGED <<marker, at, atWork, grade>>
    BY <1>1 DEF Fire, StartByHand
  <2>2. run' = run \/ run' = [run EXCEPT ![<<j, "scheduled">>] = "starting"]
    BY <1>1 DEF Fire, StartByHand
  <2>3. \A x \in Jobs : AtWork(x)' => AtWork(x)
    BY <2>2 DEF AtWork, TypeOK, Runs
  <2> QED
    BY <2>1, <2>3 DEF Marked
<1>2. ASSUME NEW j \in Jobs, NEW w \in Ways, JobStep(j, w) \/ RunDies(j, w) PROVE Marked'
  <2>1. w = "scheduled" /\ UNCHANGED <<at, atWork, grade>>
    BY <1>0, <1>2 DEF JobStep, Begin, Write, Record, Clear, RunDies
  <2>2. run \in [Runs -> {"off", "starting", "working", "written", "recorded"}]
        /\ marker \in [Jobs -> {None, "scheduled", "hand"}]
        /\ \A x \in Jobs : <<x, "scheduled">> \in Runs
    BY DEF TypeOK, Runs
  <2>3. \A x \in Jobs : AtWork(x)' => marker'[x] = "scheduled"
    <3>1. CASE Begin(j, w)
      BY <2>1, <2>2, <3>1 DEF Begin, AtWork, Marked
    <3>2. CASE Write(j, w)
      BY <2>1, <2>2, <3>2 DEF Write, AtWork, Marked
    <3>3. CASE Record(j, w) \/ RunDies(j, w)
      BY <2>1, <2>2, <3>3 DEF Record, RunDies, AtWork, Marked
    <3>4. CASE Clear(j, w)
      BY <2>1, <2>2, <3>4 DEF Clear, AtWork, Marked
    <3> QED
      BY <1>2, <3>1, <3>2, <3>3, <3>4 DEF JobStep
  <2> QED
    BY <2>1, <2>3 DEF Marked
<1>3. ASSUME NEW j \in Jobs,
             \/ LeaveAlone(j) \/ GiveUp(j) \/ HoldForLimit(j) \/ HoldForUser(j)
             \/ Defer(j) \/ KickRefused(j) \/ Refuse(j) \/ Stamp(j)
      PROVE  Marked'
  BY <1>3, MarkedIdle DEF LeaveAlone, GiveUp, HoldForLimit, HoldForUser, Defer,
     KickRefused, Refuse, Stamp, Decided
<1>4. ASSUME NEW j \in Jobs, Kick(j) PROVE Marked'
  <2>1. /\ UNCHANGED <<marker, at, atWork, grade>>
        /\ run' = [run EXCEPT ![<<j, "scheduled">>] = "starting"]
    BY <1>4 DEF Kick, Decided
  <2>2. \A x \in Jobs : AtWork(x)' => AtWork(x)
    BY <2>1 DEF AtWork, TypeOK, Runs
  <2> QED
    BY <2>1, <2>2 DEF Marked
<1>5. CASE TickReads
  BY <1>5, MarkedIdle DEF TickReads, Marked
<1>6. CASE Evaluate
  <2>1. /\ UNCHANGED <<run, marker>> /\ at' = "decide"
        /\ grade' = [j \in Jobs |-> GradeOf(j)]
        /\ atWork' = {j \in Jobs : AtWork(j)}
    BY <1>6 DEF Evaluate, AtWork
  <2>2. ASSUME NEW j \in Jobs, AtWork(j) PROVE GradeOf(j) \in {"ok", "running"}
    <3>1. InFlight(j)
      BY <1>0, <2>2 DEF InFlight, Working, AtWork, Marked
    <3> QED
      BY <3>1 DEF GradeOf
  <2> QED
    BY <2>1, <2>2 DEF Marked, AtWork
<1>7. CASE AllDecided \/ Look \/ AllLooked \/ Save \/ RecordTick
  BY <1>7, MarkedIdle DEF AllDecided, Look, AllLooked, Save, RecordTick
<1>8. CASE AlertOnStuck \/ Die
  BY <1>8, MarkedIdle DEF AlertOnStuck, Die, Rest
<1>9. CASE Pass
  BY <1>9, MarkedIdle DEF Pass
<1>10. CASE NextSlot
  BY <1>10, MarkedIdle DEF NextSlot
<1>11. CASE UNCHANGED vars
  BY <1>11, MarkedIdle DEF vars
<1> QED
  BY <1>1, <1>2, <1>3, <1>4, <1>5, <1>6, <1>7, <1>8, <1>9, <1>10, <1>11 DEF Next, TickStep

LEMMA SparedStep ==
  ASSUME ByHand = FALSE, TypeOK, Marked, [Next]_vars
  PROVE  \A j \in atWork : restarts'[j] = restarts[j]
<1>1. CASE restarts' = restarts
  BY <1>1
<1>2. ASSUME NEW k \in Jobs, Kick(k)
      PROVE  \A j \in atWork : restarts'[j] = restarts[j]
  <2>1. k \notin atWork
    BY <1>2 DEF Kick, Deciding, MayRestart, Actionable, Marked
  <2> QED
    BY <1>2, <2>1 DEF Kick, TypeOK
<1>3. CASE NextSlot
  BY <1>3 DEF NextSlot, Marked
<1>4. ASSUME [Next]_vars, restarts' # restarts
      PROVE  NextSlot \/ \E k \in Jobs : Kick(k)
  BY <1>4 DEF Next, vars, Fire, StartByHand, JobStep, Begin, Write, Record, Clear, RunDies,
     TickStep, TickReads, Evaluate, LeaveAlone, GiveUp, HoldForLimit, HoldForUser, Defer,
     KickRefused, Refuse, Stamp, AllDecided, Look, AllLooked, Save, RecordTick, AlertOnStuck,
     Die, Pass
<1> QED
  BY <1>1, <1>2, <1>3, <1>4

(* A restart never ends a run that was at work when it was graded, as long  *)
(* as nobody starts jobs by hand.                                           *)
THEOREM SparedAlways ==
  ASSUME ByHand = FALSE
  PROVE  Spec => WorkingSpared
<1>1. Init => Marked
  BY DEF Init, Marked, AtWork, Runs
<1>2. ByHand = FALSE
  OBVIOUS
<1>3. TypeOK /\ Marked /\ [Next]_vars => Marked'
  BY <1>2, MarkedKept
<1>4. TypeOK /\ Marked /\ [Next]_vars
        => [\A j \in atWork : restarts'[j] = restarts[j]]_<<restarts, atWork>>
  BY <1>2, SparedStep
<1> QED
  BY <1>1, <1>3, <1>4, WatchTypes, PTL DEF Spec, WorkingSpared
=============================================================================
