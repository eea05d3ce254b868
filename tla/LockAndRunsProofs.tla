--------------------------- MODULE LockAndRunsProofs ---------------------------
(***************************************************************************)
(* What the lock file guarantees until a process dies while no holder      *)
(* outlives the age at which a file counts as left behind, for any number  *)
(* of processes and any such bounds; and how often the briefings that take *)
(* it are mailed (DigestRun), for any runs, restarts and faults.           *)
(***************************************************************************)
EXTENDS LockAndRuns, Sequences, FiniteSetTheorems, TLAPS

\* Every variable of the lock keeps its type, whoever dies.
THEOREM LockTypes == Spec => []TypeOK
<1> USE LockAssumption DEF TypeOK, AgeCap, States, Goto
<1>1. Init => TypeOK
  BY DEF Init
<1>2. TypeOK /\ [Next]_vars => TypeOK'
  <2> SUFFICES ASSUME TypeOK, [Next]_vars PROVE TypeOK'
    OBVIOUS
  <2>1. ASSUME NEW p \in Procs, Ask(p) \/ Create(p) \/ Exists(p) PROVE TypeOK'
    BY <2>1 DEF Ask, Create, Exists
  <2>2. ASSUME NEW p \in Procs, Gone(p) \/ SeenOld(p) \/ LookAgain(p) PROVE TypeOK'
    BY <2>2 DEF Gone, SeenOld, LookAgain
  <2>3. ASSUME NEW p \in Procs, Deadline(p) PROVE TypeOK'
    BY <2>3 DEF Deadline
  <2>4. ASSUME NEW p \in Procs, Break(p) \/ Leave(p) \/ LeaveBare(p) PROVE TypeOK'
    BY <2>4 DEF Break, Leave, LeaveBare, Unlink
  <2>5. ASSUME NEW p \in Procs, Die(p) PROVE TypeOK'
    BY <2>5 DEF Die
  <2>6. CASE Tick
    <3>1. /\ age' \in 0..AgeCap
          /\ UNCHANGED <<file, pc, gaveUp, deaths>>
      BY <2>6 DEF Tick, Upto
    <3>2. waited' \in [Procs -> 0..(Wait + 1)]
      BY <2>6 DEF Tick, Upto
    <3>3. kept' \in [Procs -> 0..MaxHold]
      BY <2>6 DEF Tick
    <3> QED
      BY <3>1, <3>2, <3>3
  <2>7. CASE UNCHANGED vars
    BY <2>7 DEF vars
  <2> QED
    BY <2>1, <2>2, <2>3, <2>4, <2>5, <2>6, <2>7 DEF Next, Step
<1> QED
  BY <1>1, <1>2, PTL DEF Spec

(* Before the first death, the file is there exactly while its maker is     *)
(* inside, and is as old as its maker has been inside: it never looks left  *)
(* behind.                                                                  *)
Held ==
  /\ \A p \in Procs : pc[p] = "in" <=> file = p
  /\ \A p \in Procs : pc[p] = "in" => age = kept[p]
  /\ \A p \in Procs : pc[p] \notin {"in", "ahead"} => kept[p] = 0
  /\ \A p \in Procs : pc[p] # "break"

HeldAlive == deaths = 0 => Held

\* A process that does not die leaves the number of deaths as it is.
LEMMA OthersLive ==
  ASSUME TypeOK, [Next]_vars
  PROVE  /\ deaths' = 0 => deaths = 0
         /\ (\E p \in Procs : Die(p)) => deaths' # 0
<1> USE DEF TypeOK
<1>1. ASSUME NEW p \in Procs, Die(p) PROVE deaths' \in Nat /\ deaths' # 0
  BY <1>1, LockAssumption DEF Die
<1>2. ASSUME NEW p \in Procs, Ask(p) \/ Step(p) PROVE deaths' = deaths
  BY <1>2 DEF Ask, Step, Create, Exists, Gone, SeenOld, LookAgain, Deadline, Break,
              Leave, LeaveBare
<1>3. CASE Tick \/ UNCHANGED vars
  BY <1>1, <1>3 DEF Tick, vars
<1> QED
  BY <1>1, <1>2, <1>3 DEF Next

LEMMA HeldStep ==
  ASSUME TypeOK, HeldAlive, Removable, MaxHold <= Stale, [Next]_vars
  PROVE  HeldAlive'
<1> SUFFICES ASSUME deaths' = 0 PROVE Held'
  BY DEF HeldAlive
<1>0. Held /\ ~ \E p \in Procs : Die(p)
  BY OthersLive DEF HeldAlive
<1> USE <1>0, LockAssumption DEF TypeOK, Held, AgeCap, States, Goto
<1>1. ASSUME NEW p \in Procs, Ask(p) \/ Create(p) \/ Exists(p) PROVE Held'
  BY <1>1 DEF Ask, Create, Exists
<1>2. ASSUME NEW p \in Procs, Gone(p) \/ LookAgain(p) PROVE Held'
  BY <1>2 DEF Gone, LookAgain
<1>3. ASSUME NEW p \in Procs, SeenOld(p) PROVE Held'
  <2>1. file \in Procs /\ age = kept[file] /\ age > Stale
    BY <1>3 DEF SeenOld, TooOld
  <2> QED
    BY <2>1
<1>4. ASSUME NEW p \in Procs, Deadline(p) PROVE Held'
  BY <1>4 DEF Deadline
<1>5. ASSUME NEW p \in Procs, Break(p) PROVE Held'
  BY <1>5 DEF Break
<1>6. ASSUME NEW p \in Procs, Leave(p) \/ LeaveBare(p) PROVE Held'
  BY <1>6 DEF Leave, LeaveBare, Unlink
<1>7. CASE Tick
  <2>1. \A p \in Procs : pc[p] = "in" => age' = age + 1 /\ kept'[p] = kept[p] + 1
    BY <1>7 DEF Tick, Inside, Upto
  <2>2. \A p \in Procs : pc[p] \notin {"in", "ahead"} => kept'[p] = kept[p]
    BY <1>7 DEF Tick, Inside
  <2> QED
    BY <1>7, <2>1, <2>2 DEF Tick
<1>8. CASE UNCHANGED vars
  BY <1>8 DEF vars
<1> QED
  BY <1>1, <1>2, <1>3, <1>4, <1>5, <1>6, <1>7, <1>8 DEF Next, Step

LEMMA HeldAlways ==
  ASSUME Removable, MaxHold <= Stale
  PROVE  Spec => [](TypeOK /\ HeldAlive)
<1>1. Init => HeldAlive
  BY LockAssumption DEF Init, Held, HeldAlive
<1>2. TypeOK /\ HeldAlive /\ [Next]_vars => HeldAlive'
  BY HeldStep
<1> QED
  BY <1>1, <1>2, LockTypes, PTL DEF Spec

\* While no holder outlives the stale age, two processes never hold the lock
\* together before the first of them has died.
THEOREM ExclusiveAlways ==
  ASSUME Removable, MaxHold <= Stale
  PROVE  Spec => []Exclusive
<1>1. HeldAlive => Exclusive
  BY DEF Held, HeldAlive, Exclusive, OneWriter
<1> QED
  BY <1>1, HeldAlways, PTL

\* And nobody takes a holder's file away.
THEOREM UndisturbedAlways ==
  ASSUME Removable, MaxHold <= Stale
  PROVE  Spec => Undisturbed
<1>1. ASSUME TypeOK, HeldAlive, HeldAlive', [Next]_vars
      PROVE  \A p \in Procs :
               deaths = 0 /\ file = p /\ pc[p] = "in" /\ pc'[p] = "in" => file' = p
  <2> SUFFICES ASSUME NEW p \in Procs, deaths = 0, file = p, pc[p] = "in", pc'[p] = "in"
               PROVE  file' = p
    OBVIOUS
  <2>1. ASSUME NEW q \in Procs, Die(q) PROVE file' = p
    BY <2>1 DEF Die
  <2>2. CASE ~ \E q \in Procs : Die(q)
    <3>1. deaths' = deaths
      BY <1>1, <2>2
      DEF Next, Ask, Step, Create, Exists, Gone, SeenOld, LookAgain, Deadline, Break,
          Leave, LeaveBare, Tick, vars
    <3> QED
      BY <1>1, <3>1 DEF HeldAlive, Held
  <2> QED
    BY <2>1, <2>2
<1>2. [](TypeOK /\ HeldAlive) /\ [][Next]_vars => Undisturbed
  BY <1>1, PTL DEF Undisturbed
<1> QED
  BY <1>2, HeldAlways, PTL DEF Spec
-----------------------------------------------------------------------------
(* What a trim drops at the old end is from before the day.                 *)
Roomy == \A p \in D!Runs : D!At(p, "trims") =>
           \A i \in 1 .. Len(proc[p].seen) - RUNS_CAP_ROWS : proc[p].seen[i] = D!Old

Row == [job : D!Jobs \cup {None}, on : Nat, rc : {0, 1}]
Where == {"off", "fired", "gate", "turn", "renders", "mails", "ends", "trims"}
Process == [at : Where, on : Nat, fresh : BOOLEAN, left : Int, render : BOOLEAN, rc : {0, 1}, seen : Seq(Row)]
DigestTypeOK ==
  /\ day \in Nat /\ rows \in Seq(Row) /\ Len(rows) >= RUNS_CAP_ROWS
  /\ marker \in [D!Jobs -> D!Runs \cup {None}] /\ written \in [D!Jobs -> Nat \cup {None}]
  /\ proc \in [D!Runs -> Process]
  /\ \A p \in D!Runs : proc[p].at = "trims" => Len(proc[p].seen) > RUNS_CAP_ROWS
  /\ \A p \in Feeds : proc[p].at \in {"off", "fired", "ends", "trims"}
  /\ mails \in [D!Jobs -> Nat] /\ forced \in Nat /\ lost \in Nat /\ faults \in Nat

Ok(s, j) == \E i \in DOMAIN s : s[i].job = j /\ s[i].rc = 0
(* A run that mailed could be restarted: unmarked, and no row says it went. *)
Exposed(j) == IF marker[j] = None /\ ~ Ok(rows, j) THEN 1 ELSE 0
AtWork == {"gate", "turn", "renders", "mails"}

(* The copies that the scheduler's run of a briefing may still cost.        *)
DueOf(c) ==
  IF proc[c].at = "fired" THEN 1
  ELSE IF proc[c].at \in AtWork THEN 1 + Exposed(JobOf[c])
  ELSE IF proc[c].at = "ends"
       THEN IF proc[c].rc = 0 /\ mails[JobOf[c]] > 0 THEN Exposed(JobOf[c]) ELSE 1
  ELSE IF JobOf[c] \in fired /\ mails[JobOf[c]] > 0 /\ Ok(rows, JobOf[c]) THEN 0 ELSE 1
OfSlot(j) == {c \in Scheduled : JobOf[c] = j}
Due(j) == IF OfSlot(j) = {} THEN 0 ELSE DueOf(CHOOSE c \in OfSlot(j) : TRUE)

(* A run by hand may cost one until it has mailed, or failed and let go of  *)
(* the marker.                                                              *)
Owes(p) == \/ proc[p].at \in {"fired"} \cup AtWork
           \/ proc[p].at = "ends" /\ proc[p].rc = 1
           \/ proc[p].at = "trims" /\ ~ Ok(proc[p].seen, JobOf[p])
Owing(j) == {p \in ByHand : JobOf[p] = j /\ Owes(p)}

Sum(j) == mails[j] + Due(j) + Cardinality(Owing(j))
Causes == forced + lost + faults

(* A run of the scheduler is about once its slot has come; what was mailed  *)
(* was written.                                                             *)
Started == \A c \in Scheduled : proc[c].at # "off" => JobOf[c] \in fired
Wrote == \A j \in D!Jobs : mails[j] > 0 => written[j] # None

(* The copies that went, and those that may still go without a further      *)
(* cause, number at most the causes and the one of the slot.                *)
DigestInv == DigestTypeOK /\ Started /\ Wrote /\ \A j \in D!Jobs : Sum(j) <= 1 + Causes
-----------------------------------------------------------------------------
(* What the invariant reads of a run is as it was.                          *)
Still(q) == proc'[q].at = proc[q].at /\ proc'[q].rc = proc[q].rc /\ proc'[q].seen = proc[q].seen

\* Sets are counted in DigestRun as they are here.
LEMMA SameCount == ASSUME NEW S PROVE D!Cardinality(S) = Cardinality(S)
<1>1. \A T : D!IsFiniteSet(T) <=> IsFiniteSet(T)
  BY DEF D!IsFiniteSet, IsFiniteSet
<1> QED
  BY <1>1 DEF D!Cardinality, Cardinality

\* A sequence of rows appended to, or cut at its old end.
LEMMA Appended ==
  ASSUME NEW s \in Seq(Row), NEW r \in Row
  PROVE  /\ Append(s, r) \in Seq(Row) /\ Len(Append(s, r)) = Len(s) + 1
         /\ \A j : Ok(s, j) => Ok(Append(s, r), j)
         /\ r.rc = 0 => Ok(Append(s, r), r.job)
<1>1. /\ Append(s, r) \in Seq(Row) /\ Len(Append(s, r)) = Len(s) + 1 /\ Len(s) \in Nat
      /\ DOMAIN s = 1 .. Len(s) /\ DOMAIN Append(s, r) = 1 .. (Len(s) + 1)
      /\ \A i \in 1 .. Len(s) : Append(s, r)[i] = s[i]
      /\ Append(s, r)[Len(s) + 1] = r
  OBVIOUS
<1>2. ASSUME NEW j, Ok(s, j) PROVE Ok(Append(s, r), j)
  BY <1>1, <1>2 DEF Ok
<1>3. ASSUME r.rc = 0 PROVE Ok(Append(s, r), r.job)
  <2>1. Len(s) + 1 \in DOMAIN Append(s, r)
    BY <1>1
  <2> QED
    BY <1>1, <1>3, <2>1 DEF Ok
<1> QED
  BY <1>1, <1>2, <1>3

LEMMA Cut ==
  ASSUME DigestAssumption, NEW s \in Seq(Row), Len(s) > RUNS_CAP_ROWS
  PROVE  /\ D!Newest(s) \in Seq(Row) /\ Len(D!Newest(s)) = RUNS_CAP_ROWS
         /\ \A j \in D!Jobs : Ok(s, j) /\ (\A i \in 1 .. Len(s) - RUNS_CAP_ROWS : s[i] = D!Old) => Ok(D!Newest(s), j)
<1> DEFINE k == Len(s) - RUNS_CAP_ROWS
           t == D!Newest(s)
<1>1. RUNS_CAP_ROWS \in Nat /\ Len(s) \in Nat /\ k \in Nat /\ DOMAIN s = 1 .. Len(s)
  BY DEF DigestAssumption
<1>2. t = SubSeq(s, k + 1, Len(s))
  BY DEF D!Newest
<1>3. t \in Seq(Row) /\ Len(t) = RUNS_CAP_ROWS /\ DOMAIN t = 1 .. RUNS_CAP_ROWS
  BY <1>1, <1>2
<1>4. \A i \in 1 .. RUNS_CAP_ROWS : t[i] = s[k + i]
  BY <1>1, <1>2
<1>5. ASSUME NEW j \in D!Jobs, Ok(s, j), \A i \in 1 .. k : s[i] = D!Old PROVE Ok(t, j)
  <2>1. PICK i \in DOMAIN s : s[i].job = j /\ s[i].rc = 0
    BY <1>5 DEF Ok
  <2>2. j # None
    BY DEF DigestAssumption, NoneIsNone
  <2>3. i \notin 1 .. k
    BY <1>5, <2>1, <2>2 DEF D!Old
  <2>4. i - k \in 1 .. RUNS_CAP_ROWS /\ k + (i - k) = i
    BY <1>1, <2>1, <2>3
  <2> QED
    BY <1>3, <1>4, <2>1, <2>4 DEF Ok
<1> QED
  BY <1>3, <1>5

\* The rows that a trim writes over are counted, and one that went is there
\* after it unless it was written over.
LEMMA TrimCounts ==
  ASSUME DigestAssumption, DigestTypeOK, Roomy, NEW p \in D!Runs, D!_trim(p)
  PROVE  /\ rows' \in Seq(Row) /\ Len(rows') >= RUNS_CAP_ROWS /\ lost' \in Nat /\ lost' >= lost
         /\ \A j \in D!Jobs : Ok(proc[p].seen, j) => Ok(rows', j)
         /\ \A j \in D!Jobs : Ok(rows, j) /\ ~ Ok(proc[p].seen, j) => lost' >= lost + 1
<1> DEFINE s == proc[p].seen
           gone == {r \in D!ToSet(rows) : r \notin D!ToSet(s)}
<1>1. s \in Seq(Row) /\ Len(s) > RUNS_CAP_ROWS /\ RUNS_CAP_ROWS \in Nat /\ Len(s) \in Nat
  BY DEF DigestTypeOK, Process, D!_trim, D!At, DigestAssumption
<1>2. rows' = D!Newest(s) /\ lost' = lost + Cardinality(gone)
  <2>1. D!Cardinality(gone) = Cardinality(gone)
    BY SameCount
  <2>2. ~ (Len(s) <= RUNS_CAP_ROWS)
    BY <1>1
  <2> QED
    BY <2>1, <2>2 DEF D!_trim
<1>3. IsFiniteSet(gone)
  <2>1. D!ToSet(rows) = {rows[i] : i \in 1 .. Len(rows)} /\ Len(rows) \in Nat
    BY DEF D!ToSet, DigestTypeOK
  <2>2. IsFiniteSet(1 .. Len(rows))
    BY <2>1, FS_Interval
  <2>3. IsFiniteSet(D!ToSet(rows))
    <3>1. rows \in Surjection(1 .. Len(rows), D!ToSet(rows))
      BY <2>1 DEF Surjection, DigestTypeOK
    <3> QED
      BY <2>2, <3>1, FS_Surjection
  <2> QED
    BY <2>3, FS_Subset
<1>4. Cardinality(gone) \in Nat
  BY <1>3, FS_CardinalityType
<1>5. ASSUME NEW j \in D!Jobs, Ok(rows, j), ~ Ok(s, j) PROVE Cardinality(gone) # 0
  <2>1. PICK i \in DOMAIN rows : rows[i].job = j /\ rows[i].rc = 0
    BY <1>5 DEF Ok
  <2>2. rows[i] \in D!ToSet(rows)
    BY <2>1 DEF D!ToSet
  <2>3. rows[i] \notin D!ToSet(s)
    BY <1>5, <2>1 DEF D!ToSet, Ok
  <2> QED
    BY <1>3, <2>2, <2>3, FS_EmptySet
<1>6. \A j \in D!Jobs : Ok(s, j) => Ok(rows', j)
  BY <1>1, <1>2, Cut DEF Roomy, D!_trim
<1>7. rows' \in Seq(Row) /\ Len(rows') >= RUNS_CAP_ROWS
  BY <1>1, <1>2, Cut
<1>8. lost \in Nat
  BY DEF DigestTypeOK
<1>9. lost' \in Nat /\ lost' >= lost /\ (Cardinality(gone) # 0 => lost' >= lost + 1)
  BY <1>2, <1>4, <1>8
<1> QED
  BY <1>5, <1>6, <1>7, <1>9
-----------------------------------------------------------------------------
LEMMA Records ==
  ASSUME DigestAssumption, DigestTypeOK
  PROVE  /\ \A p \in D!Runs : JobOf[p] \in D!Jobs /\ proc[p] \in Process
         /\ D!Idle \in Process /\ D!Idle.at = "off"
         /\ \A r \in BOOLEAN : D!Fired(r) \in Process /\ D!Fired(r).at = "fired"
         /\ \A p \in D!Runs, rc \in {0, 1} : D!Ended(p, rc) \in Process /\ D!Ended(p, rc).at = "ends" /\ D!Ended(p, rc).rc = rc
         /\ \A p \in D!Runs, w \in Where : /\ [proc[p] EXCEPT !.at = w] \in Process
                                             /\ [proc[p] EXCEPT !.at = w].at = w
<1>1. \A p \in D!Runs : JobOf[p] \in D!Jobs /\ proc[p] \in Process
  BY DEF DigestTypeOK, D!Jobs
<1>2. D!Idle \in Process /\ D!Idle.at = "off"
  BY DEF D!Idle, Process, Where
<1>3. ASSUME NEW r \in BOOLEAN PROVE D!Fired(r) \in Process /\ D!Fired(r).at = "fired"
  <2>1. PICK i \in Process : i = D!Idle
    BY <1>2
  <2>2. PICK e : e = [i EXCEPT !.at = "fired", !.on = day, !.render = r]
    OBVIOUS
  <2>3. e \in Process /\ e.at = "fired"
    BY <2>2 DEF Process, Where, DigestTypeOK
  <2> QED
    BY <2>1, <2>2, <2>3 DEF D!Fired
<1>4. ASSUME NEW p \in D!Runs, NEW rc \in {0, 1} 
      PROVE  D!Ended(p, rc) \in Process /\ D!Ended(p, rc).at = "ends" /\ D!Ended(p, rc).rc = rc
  <2>1. PICK i \in Process : i = D!Idle
    BY <1>2
  <2>2. PICK e : e = [i EXCEPT !.at = "ends", !.on = proc[p].on, !.rc = rc]
    OBVIOUS
  <2>3. proc[p].on \in Nat
    BY <1>1 DEF Process
  <2>4. e \in Process /\ e.at = "ends" /\ e.rc = rc
    BY <2>2, <2>3 DEF Process, Where
  <2> QED
    BY <2>1, <2>2, <2>4 DEF D!Ended
<1>5. ASSUME NEW p \in D!Runs, NEW w \in Where PROVE [proc[p] EXCEPT !.at = w] \in Process /\ [proc[p] EXCEPT !.at = w].at = w
  BY <1>1 DEF Process
<1> QED
  BY <1>1, <1>2, <1>3, <1>4, <1>5

\* A run of the table is one of the three kinds, and only one.
LEMMA Kinds ==
  ASSUME DigestAssumption, NEW p \in D!Runs
  PROVE  /\ p \in Feeds \/ p \in Scheduled \/ p \in ByHand
         /\ p \in Feeds => p \notin Scheduled /\ p \notin ByHand
         /\ p \in Scheduled => p \notin ByHand
         /\ p \in D!Digests <=> p \notin Feeds
  BY DEF DigestAssumption, Apart, D!Runs, D!Digests

\* What one run does to its own entry of the table is well typed.
LEMMA EntryTypes ==
  ASSUME DigestAssumption, DigestTypeOK, NEW p \in D!Runs, NEW e \in Process, proc' = [proc EXCEPT ![p] = e],
         e.at = "trims" => Len(e.seen) > RUNS_CAP_ROWS,
         p \in Feeds => e.at \in {"off", "fired", "ends", "trims"}
  PROVE  /\ proc' \in [D!Runs -> Process]
         /\ \A q \in D!Runs : proc'[q].at = "trims" => Len(proc'[q].seen) > RUNS_CAP_ROWS
         /\ \A q \in Feeds : proc'[q].at \in {"off", "fired", "ends", "trims"}
         /\ proc'[p] = e /\ \A q \in D!Runs : q # p => Still(q)
<1>1. proc' \in [D!Runs -> Process] /\ proc'[p] = e /\ \A q \in D!Runs : q # p => proc'[q] = proc[q]
  BY DEF DigestTypeOK
<1>2. Feeds \subseteq D!Runs
  BY DEF D!Runs
<1> QED
  BY <1>1, <1>2 DEF DigestTypeOK, Still
-----------------------------------------------------------------------------
Others(p) == \A q \in D!Runs : q # p => Still(q)
\* The variables of the types that are not the table of runs.
Around == /\ day' \in Nat /\ rows' \in Seq(Row) /\ Len(rows') >= RUNS_CAP_ROWS
          /\ marker' \in [D!Jobs -> D!Runs \cup {None}] /\ written' \in [D!Jobs -> Nat \cup {None}]
          /\ mails' \in [D!Jobs -> Nat] /\ forced' \in Nat /\ lost' \in Nat /\ faults' \in Nat

\* A run that becomes `e` while the rest keeps its types.
LEMMA Becomes ==
  ASSUME DigestAssumption, DigestTypeOK, Around, NEW p \in D!Runs, NEW e \in Process, proc' = [proc EXCEPT ![p] = e],
         e.at = "trims" => Len(e.seen) > RUNS_CAP_ROWS,
         p \in Feeds => e.at \in {"off", "fired", "ends", "trims"}
  PROVE  DigestTypeOK' /\ Others(p) /\ proc'[p] = e
BY EntryTypes DEF DigestTypeOK, Others, Around

\* A run that is started, ends or goes on, in its own entry.
LEMMA Moves ==
  ASSUME DigestAssumption, DigestTypeOK, Around, NEW p \in D!Runs, NEW e, proc' = [proc EXCEPT ![p] = e],
         \/ e = D!Idle
         \/ \E r \in BOOLEAN : e = D!Fired(r)
         \/ \E rc \in {0, 1} : e = D!Ended(p, rc)
         \/ p \notin Feeds /\ \E w \in AtWork : e = [proc[p] EXCEPT !.at = w]
  PROVE  DigestTypeOK' /\ Others(p) /\ proc'[p] = e
<1>1. e \in Process /\ e.at # "trims" /\ (p \in Feeds => e.at \in {"off", "fired", "ends", "trims"})
  <2>1. CASE e = D!Idle
    BY <2>1, Records
  <2>2. ASSUME NEW r \in BOOLEAN, e = D!Fired(r) PROVE e \in Process /\ e.at = "fired"
    BY <2>2, Records
  <2>3. ASSUME NEW rc \in {0, 1}, e = D!Ended(p, rc) PROVE e \in Process /\ e.at = "ends"
    BY <2>3, Records
  <2>4. ASSUME NEW w \in AtWork, e = [proc[p] EXCEPT !.at = w] PROVE e \in Process /\ e.at \in AtWork
    <3>1. w \in Where
      BY DEF AtWork, Where
    <3> QED
      BY <2>4, <3>1, Records
  <2> QED
    BY <2>1, <2>2, <2>3, <2>4 DEF AtWork
<1> QED
  BY <1>1, Becomes

LEMMA FireMoves ==
  ASSUME DigestAssumption, DigestTypeOK, NEW p \in D!Runs, D!Fire(p)
  PROVE  /\ DigestTypeOK' /\ Others(p) /\ p \notin ByHand /\ JobOf[p] \notin fired /\ fired' = fired \cup {JobOf[p]}
         /\ proc'[p].at = "fired" \/ Still(p)
<1>1. Around /\ p \notin ByHand /\ JobOf[p] \notin fired /\ fired' = fired \cup {JobOf[p]}
  BY DEF D!Fire, Around, DigestTypeOK
<1>2. CASE UNCHANGED proc
  <2>1. Others(p) /\ Still(p)
    BY <1>2 DEF Others, Still
  <2>2. DigestTypeOK'
    BY <1>1, <1>2 DEF DigestTypeOK, Around
  <2> QED
    BY <1>1, <2>1, <2>2
<1>3. CASE proc' = [proc EXCEPT ![p] = D!Fired(TRUE)]
  BY <1>1, <1>3, Moves, Records
<1> QED
  BY <1>1, <1>2, <1>3 DEF D!Fire

LEMMA HandMoves ==
  ASSUME DigestAssumption, DigestTypeOK, NEW p \in D!Runs, D!StartByHand(p)
  PROVE  DigestTypeOK' /\ Others(p) /\ p \in ByHand /\ forced' = forced + 1
<1>1. Around /\ p \in ByHand /\ forced' = forced + 1
  BY DEF D!StartByHand, Around, DigestTypeOK
<1>2. PICK r \in BOOLEAN : proc' = [proc EXCEPT ![p] = D!Fired(r)]
  BY DEF D!StartByHand
<1> QED
  BY <1>1, <1>2, Moves

LEMMA FeedMoves ==
  ASSUME DigestAssumption, DigestTypeOK, NEW p \in D!Runs, D!FeedWorks(p)
  PROVE  DigestTypeOK' /\ Others(p) /\ p \in Feeds
<1>1. Around /\ p \in Feeds
  BY DEF D!FeedWorks, Around, DigestTypeOK
<1>2. PICK rc \in {0, 1} : proc' = [proc EXCEPT ![p] = D!Ended(p, rc)]
  BY DEF D!FeedWorks, D!Ends
<1> QED
  BY <1>1, <1>2, Moves

LEMMA StartMoves ==
  ASSUME DigestAssumption, DigestTypeOK, NEW p \in D!Runs, D!Start(p)
  PROVE  /\ DigestTypeOK' /\ Others(p) /\ p \notin Feeds /\ proc[p].at = "fired"
         /\ \/ proc'[p].at = "ends" /\ proc'[p].rc = 0 /\ UNCHANGED marker
            \/ proc'[p].at \in AtWork /\ marker' = [marker EXCEPT ![JobOf[p]] = p]
<1>1. JobOf[p] \in D!Jobs /\ p \notin Feeds /\ proc[p].at = "fired"
  BY Records, Kinds DEF D!Start, D!At
<1>2. CASE proc[p].render /\ day \notin BriefDays
  <2>1. Around /\ UNCHANGED marker /\ proc' = [proc EXCEPT ![p] = D!Ended(p, 0)]
    BY <1>2 DEF D!Start, D!Ends, Around, DigestTypeOK
  <2> QED
    BY <1>1, <2>1, Moves, Records
<1>3. CASE ~ (proc[p].render /\ day \notin BriefDays)
  <2>1. PICK w \in AtWork : w = IF p \in Scheduled THEN "gate" ELSE "turn"
    BY DEF AtWork
  <2>0. PICK e : e = [proc[p] EXCEPT !.at = w] /\ proc' = [proc EXCEPT ![p] = e]
    BY <1>3, <2>1 DEF D!Start
  <2>2. marker' = [marker EXCEPT ![JobOf[p]] = p] /\ UNCHANGED <<day, rows, lock, written, fired, kicks, mails, forced, lost, faults>>
    BY <1>3 DEF D!Start
  <2>3. Around
    BY <1>1, <2>2 DEF Around, DigestTypeOK
  <2>4. w \in Where
    BY DEF Where, AtWork
  <2>5. e.at = w
    BY <2>0, <2>4, Records
  <2>6. DigestTypeOK' /\ Others(p) /\ proc'[p] = e
    BY <1>1, <2>0, <2>3, Moves
  <2> QED
    BY <1>1, <2>2, <2>5, <2>6
<1> QED
  BY <1>2, <1>3
\* What a run may do between its gate and its mail, if it does not mail.
Kept == UNCHANGED <<rows, marker, fired, mails, forced, lost, faults>>
LEMMA TurnMoves ==
  ASSUME DigestAssumption, DigestTypeOK, NEW p \in D!Runs, D!Ready(p) \/ D!TimesOut(p) \/ D!TakesLock(p) \/ D!GivesUp(p)
  PROVE  /\ DigestTypeOK' /\ Others(p) /\ p \notin Feeds /\ Kept /\ UNCHANGED written /\ proc[p].at \in AtWork
         /\ proc'[p].at \in AtWork \/ (proc'[p].at = "ends" /\ proc'[p].rc = 1)
<1>1. Around /\ Kept /\ UNCHANGED written /\ proc[p].at \in AtWork
  BY DEF D!Ready, D!TimesOut, D!TakesLock, D!GivesUp, D!At, Around, Kept, DigestTypeOK, AtWork
<1>2. p \notin Feeds
  BY <1>1 DEF DigestTypeOK, AtWork
<1>3. CASE D!Ready(p) \/ D!TimesOut(p)
  <2>1. PICK e : e = [proc[p] EXCEPT !.at = "turn"] /\ proc' = [proc EXCEPT ![p] = e]
    BY <1>3 DEF D!Ready, D!TimesOut, D!Goes
  <2>2. "turn" \in AtWork /\ "turn" \in Where
    BY DEF AtWork, Where
  <2>3. DigestTypeOK' /\ Others(p) /\ proc'[p] = e
    BY <1>1, <1>2, <2>1, <2>2, Moves
  <2>4. e.at = "turn"
    BY <2>1, <2>2, Records
  <2> QED
    BY <1>1, <1>2, <2>2, <2>3, <2>4
<1>4. CASE D!TakesLock(p)
  <2>1. PICK w \in {"renders", "mails"}, n \in Int :
          proc' = [proc EXCEPT ![p].at = w, ![p].left = n]
    <3>1. PICK w, n : /\ w = IF proc[p].render THEN "renders" ELSE "mails"
                      /\ n = IF proc[p].render THEN RENDER_ATTEMPTS ELSE 0
      OBVIOUS
    <3>2. w \in {"renders", "mails"} /\ n \in Int
      BY <3>1 DEF DigestAssumption
    <3> QED
      BY <1>4, <3>1, <3>2 DEF D!TakesLock
  <2>2. PICK f, e : f = [proc[p] EXCEPT !.at = w] /\ e = [f EXCEPT !.left = n]
    OBVIOUS
  <2>3. e \in Process /\ e.at = w
    <3>0. w \in Where
      BY DEF Where
    <3>1. f \in Process /\ f.at = w
      BY <2>2, <3>0, Records
    <3> QED
      BY <2>2, <3>1 DEF Process
  <2>4. proc' = [proc EXCEPT ![p] = e]
    BY <2>1, <2>2
  <2>5. DigestTypeOK' /\ Others(p) /\ proc'[p] = e
    BY <1>1, <1>2, <2>3, <2>4, Becomes
  <2> QED
    BY <1>1, <1>2, <2>3, <2>5 DEF AtWork
<1>5. CASE D!GivesUp(p)
  <2>1. proc' = [proc EXCEPT ![p] = D!Ended(p, 1)]
    BY <1>5 DEF D!GivesUp, D!Ends
  <2>2. DigestTypeOK' /\ Others(p) /\ proc'[p] = D!Ended(p, 1)
    BY <1>1, <2>1, Moves
  <2> QED
    BY <1>1, <1>2, <2>2, Records
<1> QED
  BY <1>3, <1>4, <1>5

LEMMA RenderMoves ==
  ASSUME DigestAssumption, DigestTypeOK, NEW p \in D!Runs, D!Renders(p)
  PROVE  /\ DigestTypeOK' /\ Others(p) /\ p \notin Feeds /\ Kept /\ proc[p].at \in AtWork
         /\ \A j \in D!Jobs : written[j] # None => written'[j] # None
         /\ proc'[p].at \in AtWork \/ (proc'[p].at = "ends" /\ proc'[p].rc = 1)
<1>1. Kept /\ UNCHANGED day /\ proc[p].at = "renders" /\ JobOf[p] \in D!Jobs /\ proc[p] \in Process
  BY Records DEF D!Renders, D!At, Kept
<1>2. p \notin Feeds
  BY <1>1 DEF DigestTypeOK
<1>3. PICK wrote \in BOOLEAN, done \in BOOLEAN, again \in BOOLEAN :
        LET next == IF wrote THEN [q \in D!Runs |-> D!Writes(p, q)] ELSE proc
        IN /\ written' = IF wrote THEN [written EXCEPT ![JobOf[p]] = day] ELSE written
           /\ \/ done /\ proc' = [next EXCEPT ![p].at = "mails", ![p].left = 0]
              \/ ~ done /\ again /\ proc[p].left > 1 /\ proc' = [next EXCEPT ![p].left = @ - 1]
              \/ ~ done /\ proc' = [next EXCEPT ![p] = D!Ended(p, 1)]
  BY DEF D!Renders
<1>4. PICK next : next = IF wrote THEN [q \in D!Runs |-> D!Writes(p, q)] ELSE proc
  OBVIOUS
<1>5. /\ next \in [D!Runs -> Process]
      /\ \A q \in D!Runs : next[q].at = proc[q].at /\ next[q].rc = proc[q].rc /\ next[q].seen = proc[q].seen
  <2>1. ASSUME NEW q \in D!Runs
        PROVE  /\ D!Writes(p, q) \in Process /\ D!Writes(p, q).at = proc[q].at
               /\ D!Writes(p, q).rc = proc[q].rc /\ D!Writes(p, q).seen = proc[q].seen
    <3>1. proc[q] \in Process
      BY Records
    <3>2. PICK e : e = [proc[q] EXCEPT !.fresh = TRUE]
      OBVIOUS
    <3>3. e \in Process /\ e.at = proc[q].at /\ e.rc = proc[q].rc /\ e.seen = proc[q].seen
      BY <3>1, <3>2 DEF Process
    <3>4. D!Writes(p, q) = e \/ D!Writes(p, q) = proc[q]
      BY <3>2 DEF D!Writes
    <3> QED
      BY <3>1, <3>3, <3>4
  <2>2. CASE wrote
    BY <1>4, <2>1, <2>2
  <2>3. CASE ~ wrote
    BY <1>4, <2>3 DEF DigestTypeOK
  <2> QED
    BY <2>2, <2>3
<1>6. written' = IF wrote THEN [written EXCEPT ![JobOf[p]] = day] ELSE written
  BY <1>3
<1>7. Around /\ \A j \in D!Jobs : written[j] # None => written'[j] # None
  <2>1. day \in Nat /\ day # None
    BY DEF DigestTypeOK, DigestAssumption, NoneIsNone
  <2> QED
    BY <1>1, <1>6, <2>1 DEF Around, DigestTypeOK, Kept
<1>8. PICK e \in Process : /\ proc' = [next EXCEPT ![p] = e]
                           /\ e.at \in AtWork \/ (e.at = "ends" /\ e.rc = 1)
  <2>0. next[p] \in Process /\ next[p].at = "renders"
    BY <1>1, <1>5
  <2>1. CASE proc' = [next EXCEPT ![p].at = "mails", ![p].left = 0]
    <3>1. PICK f, e : f = [next[p] EXCEPT !.at = "mails"] /\ e = [f EXCEPT !.left = 0]
      OBVIOUS
    <3>2. e \in Process /\ e.at \in AtWork
      <4>1. f \in Process /\ f.at = "mails"
        <5>1. PICK n \in Process : n = next[p]
          BY <2>0
        <5>2. "mails" \in Where
          BY DEF Where
        <5> QED
          BY <3>1, <5>1, <5>2 DEF Process
      <4>2. PICK n \in Int : n = 0
        OBVIOUS
      <4>3. e \in Process /\ e.at = "mails"
        BY <3>1, <4>1, <4>2 DEF Process
      <4> QED
        BY <4>3 DEF AtWork
    <3>3. proc' = [next EXCEPT ![p] = e]
      BY <2>1, <3>1
    <3> QED
      BY <3>2, <3>3
  <2>2. CASE proc' = [next EXCEPT ![p].left = @ - 1]
    <3>1. PICK e : e = [next[p] EXCEPT !.left = @ - 1]
      OBVIOUS
    <3>2. e \in Process /\ e.at \in AtWork
      BY <2>0, <3>1 DEF Process, AtWork
    <3>3. proc' = [next EXCEPT ![p] = e]
      BY <2>2, <3>1
    <3> QED
      BY <3>2, <3>3
  <2>3. CASE proc' = [next EXCEPT ![p] = D!Ended(p, 1)]
    BY <2>3, Records
  <2> QED
    BY <1>3, <1>4, <2>1, <2>2, <2>3
<1>9. /\ proc' \in [D!Runs -> Process] /\ proc'[p] = e
      /\ \A q \in D!Runs : q # p => proc'[q] = next[q]
  BY <1>5, <1>8
<1>10. Others(p)
  BY <1>5, <1>9 DEF Others, Still
<1>11. e.at # "trims"
  BY <1>8 DEF AtWork
<1>12. \A q \in D!Runs : proc'[q].at = "trims" => Len(proc'[q].seen) > RUNS_CAP_ROWS
  BY <1>9, <1>10, <1>11 DEF Others, Still, DigestTypeOK
<1>13. \A q \in Feeds : q \in D!Runs /\ proc'[q].at \in {"off", "fired", "ends", "trims"}
  BY <1>2, <1>10 DEF Others, Still, DigestTypeOK, D!Runs
<1>14. DigestTypeOK'
  BY <1>7, <1>9, <1>12, <1>13 DEF DigestTypeOK, Around
<1> QED
  BY <1>1, <1>2, <1>7, <1>8, <1>9, <1>10, <1>14 DEF AtWork
LEMMA MailMoves ==
  ASSUME DigestAssumption, DigestTypeOK, NEW p \in D!Runs, D!Mails(p)
  PROVE  /\ DigestTypeOK' /\ Others(p) /\ p \notin Feeds /\ UNCHANGED <<rows, marker, written, fired, forced, lost>>
         /\ proc[p].at = "mails" /\ proc'[p].at = "ends"
         /\ \/ proc'[p].rc = 1 /\ UNCHANGED <<mails, faults>>
            \/ /\ written[JobOf[p]] # None /\ mails' = [mails EXCEPT ![JobOf[p]] = @ + 1]
               /\ \/ proc'[p].rc = 0 /\ UNCHANGED faults
                  \/ proc'[p].rc = 1 /\ faults' = faults + 1
<1>1. proc[p].at = "mails" /\ UNCHANGED <<day, rows, marker, written, fired, forced, lost>> /\ JobOf[p] \in D!Jobs
  BY Records DEF D!Mails, D!At
<1>2. p \notin Feeds
  BY <1>1 DEF DigestTypeOK
<1>3. PICK rc \in {0, 1} :
        /\ proc' = [proc EXCEPT ![p] = D!Ended(p, rc)]
        /\ \/ rc = 1 /\ UNCHANGED <<mails, faults>>
           \/ /\ written[JobOf[p]] # None /\ mails' = [mails EXCEPT ![JobOf[p]] = @ + 1]
              /\ \/ rc = 0 /\ UNCHANGED faults
                 \/ rc = 1 /\ faults' = faults + 1
  BY DEF D!Mails, D!Ends, D!Current, D!Fault
<1>4. Around
  BY <1>1, <1>3 DEF Around, DigestTypeOK
<1>5. DigestTypeOK' /\ Others(p) /\ proc'[p] = D!Ended(p, rc)
  BY <1>3, <1>4, Moves
<1>6. proc'[p].at = "ends" /\ proc'[p].rc = rc
  BY <1>5, Records
<1> QED
  BY <1>1, <1>2, <1>3, <1>5, <1>6

LEMMA RecordMoves ==
  ASSUME DigestAssumption, DigestTypeOK, NEW p \in D!Runs, D!record_run(p)
  PROVE  /\ DigestTypeOK' /\ Others(p) /\ UNCHANGED <<marker, written, fired, mails, forced, lost, faults>>
         /\ proc[p].at = "ends" /\ proc'[p].at = "trims" /\ \A j : Ok(rows, j) => Ok(rows', j)
         /\ proc[p].rc = 0 => Ok(rows', JobOf[p]) /\ Ok(proc'[p].seen, JobOf[p])
<1>1. /\ proc[p].at = "ends" /\ UNCHANGED <<day, marker, written, fired, mails, forced, lost, faults>>
      /\ JobOf[p] \in D!Jobs /\ proc[p] \in Process /\ proc[p].on \in Nat /\ proc[p].rc \in {0, 1}
  BY Records DEF D!record_run, D!At, Process
<1>2. PICK r : r = [job |-> JobOf[p], on |-> proc[p].on, rc |-> proc[p].rc]
  OBVIOUS
<1>3. r \in Row /\ r.job = JobOf[p] /\ r.rc = proc[p].rc
  BY <1>1, <1>2 DEF Row
<1>4. rows' = Append(rows, r) /\ rows \in Seq(Row) /\ Len(rows) >= RUNS_CAP_ROWS /\ RUNS_CAP_ROWS \in Nat /\ Len(rows) \in Nat
  BY <1>2 DEF D!record_run, DigestTypeOK, DigestAssumption
<1>5. rows' \in Seq(Row) /\ Len(rows') = Len(rows) + 1 /\ (\A j : Ok(rows, j) => Ok(rows', j))
      /\ (r.rc = 0 => Ok(rows', r.job))
  BY <1>3, <1>4, Appended
<1>6. PICK s \in Seq(Row) : s = rows'
  BY <1>5
<1>7. PICK i \in Process : i = D!Idle
  BY Records
<1>8. PICK e : e = [i EXCEPT !.at = "trims", !.seen = s]
  OBVIOUS
<1>9. e \in Process /\ e.at = "trims" /\ e.seen = s
  BY <1>7, <1>8 DEF Process, Where
<1>10. proc' = [proc EXCEPT ![p] = e]
  BY <1>6, <1>7, <1>8 DEF D!record_run
<1>11. Around
  BY <1>1, <1>4, <1>5 DEF Around, DigestTypeOK
<1>12. DigestTypeOK' /\ Others(p) /\ proc'[p] = e
  <2>1. Len(s) > RUNS_CAP_ROWS
    BY <1>4, <1>5, <1>6
  <2>2. Len(e.seen) > RUNS_CAP_ROWS /\ e.at \in {"off", "fired", "ends", "trims"}
    BY <1>9, <2>1
  <2> QED
    BY <1>9, <1>10, <1>11, <2>2, Becomes
<1> QED
  BY <1>1, <1>3, <1>5, <1>6, <1>9, <1>12

LEMMA TrimMoves ==
  ASSUME DigestAssumption, DigestTypeOK, Roomy, NEW p \in D!Runs, D!_trim(p)
  PROVE  /\ DigestTypeOK' /\ Others(p) /\ UNCHANGED <<written, fired, mails, forced, faults>>
         /\ proc[p].at = "trims" /\ proc'[p].at = "off" /\ marker' = [marker EXCEPT ![JobOf[p]] = None]
<1>1. /\ proc[p].at = "trims" /\ UNCHANGED <<day, written, fired, mails, forced, faults>> /\ JobOf[p] \in D!Jobs
      /\ marker' = [marker EXCEPT ![JobOf[p]] = None] /\ proc' = [proc EXCEPT ![p] = D!Idle]
  BY Records DEF D!_trim, D!At
<1>2. rows' \in Seq(Row) /\ Len(rows') >= RUNS_CAP_ROWS /\ lost' \in Nat
  BY TrimCounts
<1>3. Around
  BY <1>1, <1>2 DEF Around, DigestTypeOK
<1> QED
  BY <1>1, <1>3, Moves, Records

LEMMA DieMoves ==
  ASSUME DigestAssumption, DigestTypeOK, NEW p \in D!Runs, D!Dies(p)
  PROVE  /\ DigestTypeOK' /\ Others(p) /\ UNCHANGED <<rows, written, fired, mails, forced, lost>>
         /\ proc'[p].at = "off" /\ faults' = faults + 1 /\ \A j \in D!Jobs : j # JobOf[p] => marker'[j] = marker[j]
<1>1. /\ UNCHANGED <<day, rows, written, fired, mails, forced, lost>> /\ faults' = faults + 1 /\ JobOf[p] \in D!Jobs
      /\ proc' = [proc EXCEPT ![p] = D!Idle]
      /\ marker' = [marker EXCEPT ![JobOf[p]] = IF @ = p THEN None ELSE @]
  BY Records DEF D!Dies, D!Left, D!Fault
<1>2. Around /\ \A j \in D!Jobs : j # JobOf[p] => marker'[j] = marker[j]
  BY <1>1 DEF Around, DigestTypeOK
<1> QED
  BY <1>1, <1>2, Moves, Records

LEMMA RowFailMoves ==
  ASSUME DigestAssumption, DigestTypeOK, NEW p \in D!Runs, D!RowFails(p)
  PROVE  /\ DigestTypeOK' /\ Others(p) /\ UNCHANGED <<rows, written, fired, mails, forced, lost>>
         /\ proc'[p].at = "off" /\ faults' = faults + 1 /\ \A j \in D!Jobs : j # JobOf[p] => marker'[j] = marker[j]
<1>1. /\ UNCHANGED <<day, rows, written, fired, mails, forced, lost>> /\ faults' = faults + 1 /\ JobOf[p] \in D!Jobs
      /\ proc' = [proc EXCEPT ![p] = D!Idle]
      /\ marker' = [marker EXCEPT ![JobOf[p]] = None]
  BY Records DEF D!RowFails, D!Fault
<1>2. Around /\ \A j \in D!Jobs : j # JobOf[p] => marker'[j] = marker[j]
  BY <1>1 DEF Around, DigestTypeOK
<1> QED
  BY <1>1, <1>2, Moves, Records

LEMMA KickMoves ==
  ASSUME DigestAssumption, DigestTypeOK, NEW p \in D!Runs, D!Kick(p)
  PROVE  /\ DigestTypeOK' /\ Others(p) /\ UNCHANGED <<rows, marker, written, fired, mails, forced, lost, faults>>
         /\ proc'[p].at = "fired" /\ p \in Scheduled /\ JobOf[p] \in fired /\ D!Restarts(JobOf[p])
<1>1. /\ UNCHANGED <<day, rows, written, fired, mails, forced, lost, faults>> /\ JobOf[p] \in D!Jobs
      /\ p \in Scheduled /\ JobOf[p] \in fired /\ D!Restarts(JobOf[p]) /\ proc' = [proc EXCEPT ![p] = D!Fired(TRUE)]
      /\ marker' = [marker EXCEPT ![JobOf[p]] = IF @ = p THEN None ELSE @]
  BY Records DEF D!Kick, D!Left
<1>2. marker' = marker
  BY <1>1 DEF D!Restarts, D!InFlight, DigestTypeOK
<1>3. Around
  BY <1>1, <1>2 DEF Around, DigestTypeOK
<1> QED
  BY <1>1, <1>2, <1>3, Moves, Records

LEMMA DayMoves ==
  ASSUME DigestAssumption, DigestTypeOK, D!Midnight \/ UNCHANGED D!vars
  PROVE  DigestTypeOK' /\ UNCHANGED <<rows, marker, written, proc, fired, mails, forced, lost, faults>>
<1>1. UNCHANGED <<rows, marker, written, proc, fired, mails, forced, lost, faults>> /\ day' \in Nat
  BY DEF D!Midnight, D!vars, DigestTypeOK
<1> QED
  BY <1>1 DEF DigestTypeOK
-----------------------------------------------------------------------------
\* The runs by hand that may cost a copy, when one run moves.
LEMMA OwingMoves ==
  ASSUME DigestAssumption, NEW j, NEW p \in D!Runs, Others(p)
  PROVE  /\ Cardinality(Owing(j)) \in Nat /\ Cardinality(Owing(j))' \in Nat
         /\ Cardinality(Owing(j))' <= Cardinality(Owing(j)) + 1
         /\ (p \in ByHand /\ JobOf[p] = j /\ Owes(p)' => Owes(p)) => Cardinality(Owing(j))' <= Cardinality(Owing(j))
         /\ p \in ByHand /\ JobOf[p] = j /\ Owes(p) /\ ~ Owes(p)' => Cardinality(Owing(j))' + 1 <= Cardinality(Owing(j))
<1> DEFINE A == Owing(j)
           B == Owing(j)'
<1>1. A \subseteq ByHand /\ B \subseteq ByHand /\ IsFiniteSet(ByHand)
  BY DEF Owing, DigestAssumption
<1>2. IsFiniteSet(A) /\ IsFiniteSet(B) /\ IsFiniteSet(A \cup {p}) /\ IsFiniteSet(A \ {p})
  BY <1>1, FS_Subset, FS_AddElement, FS_RemoveElement
<1>3. Cardinality(A) \in Nat /\ Cardinality(B) \in Nat
  BY <1>2, FS_CardinalityType
<1>4. \A q \in ByHand : q # p => (q \in A <=> q \in B)
  <2> SUFFICES ASSUME NEW q \in ByHand, q # p PROVE q \in A <=> q \in B
    OBVIOUS
  <2>1. q \in D!Runs
    BY DEF D!Runs, D!Digests
  <2>2. Still(q)
    BY <2>1 DEF Others
  <2>3. Owes(q)' <=> Owes(q)
    BY <2>2 DEF Still, Owes
  <2> QED
    BY <2>3 DEF Owing
<1>5. p \in A <=> p \in ByHand /\ JobOf[p] = j /\ Owes(p)
  BY DEF Owing
<1>6. p \in B <=> p \in ByHand /\ JobOf[p] = j /\ Owes(p)'
  BY DEF Owing
<1>7. Cardinality(B) <= Cardinality(A) + 1
  <2>1. B \subseteq A \cup {p}
    BY <1>1, <1>4
  <2>2. Cardinality(B) <= Cardinality(A \cup {p})
    BY <1>2, <2>1, FS_Subset
  <2>3. Cardinality(A \cup {p}) = Cardinality(A) \/ Cardinality(A \cup {p}) = Cardinality(A) + 1
    BY <1>2, FS_AddElement
  <2> QED
    BY <1>3, <2>2, <2>3
<1>8. ASSUME p \in ByHand /\ JobOf[p] = j /\ Owes(p)' => Owes(p) PROVE Cardinality(B) <= Cardinality(A)
  <2>1. B \subseteq A
    BY <1>1, <1>4, <1>5, <1>6, <1>8
  <2> QED
    BY <1>2, <2>1, FS_Subset
<1>9. ASSUME p \in ByHand /\ JobOf[p] = j /\ Owes(p) /\ ~ Owes(p)' PROVE Cardinality(B) + 1 <= Cardinality(A)
  <2>1. p \in A /\ B \subseteq A \ {p}
    BY <1>1, <1>4, <1>5, <1>6, <1>9
  <2>2. Cardinality(A \ {p}) = Cardinality(A) - 1
    BY <1>2, <2>1, FS_RemoveElement
  <2>3. Cardinality(B) <= Cardinality(A \ {p})
    BY <1>2, <2>1, FS_Subset
  <2> QED
    BY <1>3, <2>2, <2>3
<1> QED
  BY <1>3, <1>7, <1>8, <1>9, Zenon
-----------------------------------------------------------------------------
LEMMA OneRun ==
  ASSUME DigestAssumption, NEW c \in Scheduled
  PROVE  OfSlot(JobOf[c]) = {c} /\ Due(JobOf[c]) = DueOf(c) /\ Due(JobOf[c])' = DueOf(c)'
<1>1. OfSlot(JobOf[c]) = {c}
  BY DEF DigestAssumption, OneEach, OfSlot
<1>2. OfSlot(JobOf[c]) # {} /\ (CHOOSE d \in OfSlot(JobOf[c]) : TRUE) = c
  BY <1>1
<1> QED
  BY <1>1, <1>2 DEF Due

LEMMA DueBounds ==
  ASSUME DigestAssumption, NEW j
  PROVE  Due(j) \in 0 .. 2 /\ Due(j)' \in 0 .. 2
<1>1. \A c : DueOf(c) \in 0 .. 2 /\ DueOf(c)' \in 0 .. 2
  BY DEF DueOf, Exposed
<1> QED
  BY <1>1 DEF Due

\* What the scheduler's run may cost moves with the rows, the marker and the
\* mails, when it does not itself move.
LEMMA DueMoves ==
  ASSUME DigestAssumption, DigestTypeOK, DigestTypeOK', NEW j \in D!Jobs, NEW p \in D!Runs, Others(p), p \notin OfSlot(j)
  PROVE  /\ Due(j)' <= Due(j) + 1
         /\ /\ mails[j] > 0 => mails'[j] > 0
            /\ j \in fired => j \in fired'
            /\ Ok(rows, j) => Ok(rows', j)
            /\ marker'[j] = None => marker[j] = None \/ Ok(rows', j)
            => Due(j)' <= Due(j)
<1>1. CASE OfSlot(j) = {}
  BY <1>1 DEF Due
<1>2. CASE OfSlot(j) # {}
  <2>1. PICK c \in Scheduled : JobOf[c] = j
    BY <1>2 DEF OfSlot
  <2>2. c \in D!Runs /\ c # p /\ Due(j) = DueOf(c) /\ Due(j)' = DueOf(c)'
    BY <2>1, OneRun DEF OfSlot, D!Runs, D!Digests
  <2>3. proc'[c].at = proc[c].at /\ proc'[c].rc = proc[c].rc
    BY <2>2 DEF Others, Still
  <2>4. Exposed(j) \in {0, 1} /\ Exposed(j)' \in {0, 1}
    BY DEF Exposed
  <2>5. DueOf(c)' <= DueOf(c) + 1
    BY <2>1, <2>3, <2>4 DEF DueOf
  <2>6. ASSUME mails[j] > 0 => mails'[j] > 0, j \in fired => j \in fired', Ok(rows, j) => Ok(rows', j),
               marker'[j] = None => marker[j] = None \/ Ok(rows', j)
        PROVE  DueOf(c)' <= DueOf(c)
    <3>1. Exposed(j)' <= Exposed(j)
      BY <2>6 DEF Exposed
    <3> QED
      BY <2>1, <2>3, <2>4, <2>6, <3>1 DEF DueOf
  <2> QED
    BY <2>2, <2>5, <2>6
<1> QED
  BY <1>1, <1>2

(* The copies of a job, sent and due, rise by no more than their causes.    *)
Pays(j) == Sum(j)' + Causes <= Sum(j) + Causes'

LEMMA Numbers ==
  ASSUME DigestTypeOK, DigestTypeOK', NEW j \in D!Jobs
  PROVE  mails[j] \in Nat /\ mails'[j] \in Nat /\ Causes \in Nat /\ Causes' \in Nat
<1>1. mails[j] \in Nat /\ mails'[j] \in Nat
  BY DEF DigestTypeOK
<1>2. forced \in Nat /\ lost \in Nat /\ faults \in Nat /\ forced' \in Nat /\ lost' \in Nat /\ faults' \in Nat
  BY DEF DigestTypeOK
<1>3. Causes \in Nat
  BY <1>2 DEF Causes
<1>4. Causes' \in Nat
  <2>1. PICK a \in Nat, b \in Nat, c \in Nat : a = forced' /\ b = lost' /\ c = faults'
    BY <1>2
  <2>2. Causes' = a + b + c
    BY <2>1 DEF Causes
  <2> QED
    BY <2>2
<1> QED
  BY <1>1, <1>3, <1>4

LEMMA Aside ==
  ASSUME DigestAssumption, DigestTypeOK, DigestTypeOK', NEW j \in D!Jobs, NEW p \in D!Runs, Others(p), p \notin OfSlot(j),
         mails'[j] = mails[j], p \in ByHand /\ JobOf[p] = j /\ Owes(p)' => Owes(p),
         \/ Causes' >= Causes + 1
         \/ /\ Causes' >= Causes /\ (j \in fired => j \in fired') /\ (Ok(rows, j) => Ok(rows', j))
            /\ marker'[j] = None => marker[j] = None \/ Ok(rows', j)
  PROVE  Pays(j)
<1>1. PICK d, e, k, l : d = Due(j) /\ e = Due(j)' /\ k = Cardinality(Owing(j)) /\ l = Cardinality(Owing(j))'
  OBVIOUS
<1>2. d \in Nat /\ e \in Nat /\ e <= d + 1 /\ (Causes' >= Causes + 1 \/ e <= d)
  BY <1>1, DueBounds, DueMoves
<1>3. k \in Nat /\ l \in Nat /\ l <= k
  BY <1>1, OwingMoves
<1>4. mails[j] + e + l + Causes <= mails[j] + d + k + Causes'
  BY <1>2, <1>3, Numbers
<1> QED
  BY <1>1, <1>4 DEF Pays, Sum

LEMMA Mine ==
  ASSUME DigestAssumption, DigestTypeOK, DigestTypeOK', NEW p \in D!Runs, Others(p), p \in Scheduled,
         mails'[JobOf[p]] + DueOf(p)' + Causes <= mails[JobOf[p]] + DueOf(p) + Causes'
  PROVE  Pays(JobOf[p])
<1>0. PICK j \in D!Jobs : j = JobOf[p]
  BY Records
<1>1. PICK d, e, k, l : d = DueOf(p) /\ e = DueOf(p)' /\ k = Cardinality(Owing(j)) /\ l = Cardinality(Owing(j))'
  OBVIOUS
<1>2. d = Due(j) /\ e = Due(j)' /\ d \in Nat /\ e \in Nat
  BY <1>0, <1>1, OneRun, DueBounds
<1>3. k \in Nat /\ l \in Nat /\ l <= k
  <2>1. p \notin ByHand
    BY Kinds
  <2> QED
    BY <1>0, <1>1, <2>1, OwingMoves
<1>4. mails'[j] + e + l + Causes <= mails[j] + d + k + Causes'
  BY <1>0, <1>1, <1>2, <1>3, Numbers
<1> QED
  BY <1>0, <1>1, <1>2, <1>4 DEF Pays, Sum
-----------------------------------------------------------------------------
\* The watcher starts nothing again that was mailed and has a row that says so.
LEMMA RestartsFailed ==
  ASSUME DigestAssumption, DigestTypeOK, Wrote, NEW j \in D!Jobs, D!Restarts(j), mails[j] > 0
  PROVE  marker[j] = None /\ ~ Ok(rows, j)
<1>1. written[j] \in Nat /\ day \in Nat
  BY DEF DigestTypeOK, Wrote
<1>2. D!Slot(day) = 0
  <2>1. BriefDays \subseteq Int /\ BriefDays \cap Nat = {0}
    BY DEF DigestAssumption, OneSlot
  <2>2. 0 \in BriefDays /\ 0 <= day /\ \A t \in BriefDays : t <= day => t <= 0
    BY <1>1, <2>1
  <2>3. \A s \in BriefDays : s <= day /\ (\A t \in BriefDays : t <= day => t <= s) => s = 0
    BY <2>1, <2>2
  <2> QED
    BY <2>2, <2>3 DEF D!Slot
<1>3. D!Delivered(j)
  BY <1>1, <1>2 DEF D!Delivered, NoneIsNone, DigestAssumption
<1>4. ~ D!Succeeded(j)
  BY <1>3 DEF D!Restarts, D!FoundOk
<1>5. ASSUME Ok(rows, j) PROVE FALSE
  <2>1. PICK i \in DOMAIN rows : rows[i].job = j /\ rows[i].rc = 0
    BY <1>5 DEF Ok
  <2>2. rows[i] \in Row
    BY <2>1 DEF DigestTypeOK
  <2>3. rows[i].on >= 0
    BY <2>2 DEF Row
  <2> QED
    BY <1>2, <1>4, <2>1, <2>3 DEF D!Succeeded, D!RowsOf
<1> QED
  BY <1>5 DEF D!Restarts, D!InFlight
LEMMA Caused ==
  ASSUME DigestTypeOK, DigestTypeOK'
  PROVE  /\ UNCHANGED <<forced, lost, faults>> => Causes' = Causes
         /\ UNCHANGED <<lost, faults>> /\ forced' = forced + 1 => Causes' = Causes + 1
         /\ UNCHANGED <<forced, lost>> /\ faults' = faults + 1 => Causes' = Causes + 1
         /\ UNCHANGED <<forced, faults>> /\ lost' >= lost => Causes' >= Causes
         /\ UNCHANGED <<forced, faults>> /\ lost' >= lost + 1 => Causes' >= Causes + 1
<1>1. PICK a \in Nat, b \in Nat, c \in Nat, d \in Nat, e \in Nat, f \in Nat :
        a = forced /\ b = lost /\ c = faults /\ d = forced' /\ e = lost' /\ f = faults'
  BY DEF DigestTypeOK
<1>2. Causes = a + b + c /\ Causes' = d + e + f
  BY <1>1 DEF Causes
<1>3. /\ d = a /\ e = b /\ f = c => Causes' = Causes
      /\ e = b /\ f = c /\ d = a + 1 => Causes' = Causes + 1
      /\ d = a /\ e = b /\ f = c + 1 => Causes' = Causes + 1
      /\ d = a /\ f = c /\ e >= b => Causes' >= Causes
      /\ d = a /\ f = c /\ e >= b + 1 => Causes' >= Causes + 1
  BY <1>2
<1> QED
  BY <1>1, <1>3

LEMMA FirePays == ASSUME DigestAssumption, DigestTypeOK, Started, NEW p \in D!Runs, D!Fire(p), NEW j \in D!Jobs PROVE Pays(j)
<1>1. /\ DigestTypeOK' /\ Others(p) /\ p \notin ByHand /\ JobOf[p] \notin fired /\ fired' = fired \cup {JobOf[p]}
      /\ proc'[p].at = "fired" \/ Still(p)
      /\ UNCHANGED <<rows, marker, mails, forced, lost, faults>> /\ Causes' = Causes
  BY FireMoves, Caused DEF D!Fire
<1>2. Causes \in Nat
  BY <1>1, Numbers
<1>3. CASE p \notin OfSlot(j)
  BY <1>1, <1>2, <1>3, Aside
<1>4. CASE p \in Scheduled /\ JobOf[p] = j
  <2>1. proc[p].at = "off"
    BY <1>1, <1>4 DEF Started
  <2>2. DueOf(p) = 1 /\ DueOf(p)' \in {0, 1}
    BY <1>1, <2>1 DEF DueOf, AtWork, Still
  <2>3. mails'[j] + DueOf(p)' + Causes <= mails[j] + DueOf(p) + Causes'
    BY <1>1, <1>2, <2>2, Numbers
  <2> QED
    BY <1>1, <1>4, <2>3, Mine
<1> QED
  BY <1>3, <1>4 DEF OfSlot

LEMMA StartPays == ASSUME DigestAssumption, DigestTypeOK, NEW p \in D!Runs, D!Start(p), NEW j \in D!Jobs PROVE Pays(j)
<1>1. /\ DigestTypeOK' /\ Others(p) /\ proc[p].at = "fired" /\ p # None
      /\ \/ proc'[p].at = "ends" /\ proc'[p].rc = 0 /\ UNCHANGED marker
         \/ proc'[p].at \in AtWork /\ marker' = [marker EXCEPT ![JobOf[p]] = p]
      /\ UNCHANGED <<rows, fired, mails, forced, lost, faults>> /\ Causes' = Causes
  BY StartMoves, Caused DEF D!Start, DigestAssumption, NoneIsNone
<1>2. Causes \in Nat
  BY <1>1, Numbers
<1>3. Owes(p) /\ (marker'[j] = None => marker[j] = None)
  BY <1>1 DEF Owes, DigestTypeOK
<1>4. CASE p \notin OfSlot(j)
  BY <1>1, <1>2, <1>3, <1>4, Aside
<1>5. CASE p \in Scheduled /\ JobOf[p] = j
  <2>1. DueOf(p) = 1
    BY <1>1 DEF DueOf
  <2>4. DueOf(p)' \in {0, 1}
    <3>1. CASE proc'[p].at = "ends"
      BY <3>1 DEF DueOf, AtWork, Exposed
    <3>2. CASE proc'[p].at \in AtWork /\ marker' = [marker EXCEPT ![JobOf[p]] = p]
      <4>1. marker'[j] # None
        BY <1>1, <1>5, <3>2 DEF DigestTypeOK
      <4>2. Exposed(j)' = 0
        BY <4>1 DEF Exposed
      <4> QED
        BY <1>5, <3>2, <4>2 DEF DueOf, AtWork
    <3> QED
      BY <1>1, <3>1, <3>2
  <2>5. mails'[j] + DueOf(p)' + Causes <= mails[j] + DueOf(p) + Causes'
    BY <1>1, <1>2, <2>1, <2>4, Numbers
  <2> QED
    BY <1>1, <1>5, <2>5, Mine
<1> QED
  BY <1>4, <1>5 DEF OfSlot

\* Between its gate and its mail a run costs what it did; if it fails, no more.
LEMMA TurnPays ==
  ASSUME DigestAssumption, DigestTypeOK, DigestTypeOK', NEW p \in D!Runs, Others(p), Kept, proc[p].at \in AtWork,
         proc'[p].at \in AtWork \/ (proc'[p].at = "ends" /\ proc'[p].rc = 1), NEW j \in D!Jobs
  PROVE  Pays(j)
<1>1. Causes' = Causes /\ Causes \in Nat /\ UNCHANGED <<rows, marker, fired, mails>>
  BY Caused, Numbers DEF Kept
<1>2. Owes(p)
  BY DEF Owes
<1>3. CASE p \notin OfSlot(j)
  BY <1>1, <1>2, <1>3, Aside
<1>4. CASE p \in Scheduled /\ JobOf[p] = j
  <2>1. Exposed(j)' = Exposed(j) /\ Exposed(j) \in {0, 1}
    BY <1>1 DEF Exposed
  <2>2. DueOf(p) = 1 + Exposed(j)
    BY <1>4 DEF DueOf, AtWork
  <2>3. DueOf(p)' = 1 + Exposed(j) \/ DueOf(p)' = 1
    BY <1>4, <2>1 DEF DueOf, AtWork
  <2>4. mails'[j] + DueOf(p)' + Causes <= mails[j] + DueOf(p) + Causes'
    BY <1>1, <2>1, <2>2, <2>3, Numbers
  <2> QED
    BY <1>4, <2>4, Mine
<1> QED
  BY <1>3, <1>4 DEF OfSlot

LEMMA MailPays == ASSUME DigestAssumption, DigestTypeOK, NEW p \in D!Runs, D!Mails(p), NEW j \in D!Jobs PROVE Pays(j)
<1>1. /\ DigestTypeOK' /\ Others(p) /\ p \notin Feeds /\ UNCHANGED <<rows, marker, written, fired, forced, lost>>
      /\ proc[p].at = "mails" /\ proc'[p].at = "ends" /\ proc[p].at \in AtWork
      /\ \/ proc'[p].rc = 1 /\ UNCHANGED <<mails, faults>>
         \/ /\ mails' = [mails EXCEPT ![JobOf[p]] = @ + 1]
            /\ \/ proc'[p].rc = 0 /\ UNCHANGED faults
               \/ proc'[p].rc = 1 /\ faults' = faults + 1
  BY MailMoves DEF AtWork
<1>2. Causes \in Nat /\ Causes' \in Nat /\ mails[j] \in Nat /\ JobOf[p] \in D!Jobs /\ Owes(p)
  BY <1>1, Numbers, Records DEF Owes
<1>3. CASE proc'[p].rc = 1 /\ UNCHANGED <<mails, faults>>
  BY <1>1, <1>3, TurnPays DEF Kept
<1>4. CASE mails' = [mails EXCEPT ![JobOf[p]] = @ + 1]
  <2>1. \/ proc'[p].rc = 0 /\ Causes' = Causes
        \/ proc'[p].rc = 1 /\ Causes' = Causes + 1
    <3>1. CASE UNCHANGED mails
      BY <1>2, <1>4, <3>1 DEF DigestTypeOK
    <3>2. CASE proc'[p].rc = 0 /\ UNCHANGED faults
      BY <1>1, <3>2, Caused
    <3>3. CASE proc'[p].rc = 1 /\ faults' = faults + 1
      BY <1>1, <3>3, Caused
    <3> QED
      BY <1>1, <3>1, <3>2, <3>3
  <2>2. CASE j # JobOf[p]
    <3>1. mails'[j] = mails[j] /\ p \notin OfSlot(j) /\ Causes' >= Causes
      BY <1>2, <1>4, <2>1, <2>2 DEF DigestTypeOK, OfSlot
    <3> QED
      BY <1>1, <1>2, <3>1, Aside
  <2>3. CASE j = JobOf[p] /\ p \in Scheduled
    <3>1. mails'[j] = mails[j] + 1 /\ Exposed(j)' = Exposed(j) /\ Exposed(j) \in {0, 1}
      BY <1>1, <1>2, <1>4, <2>3 DEF DigestTypeOK, Exposed
    <3>2. DueOf(p) = 1 + Exposed(j)
      BY <1>1, <2>3 DEF DueOf, AtWork
    <3>3. DueOf(p)' = IF proc'[p].rc = 0 THEN Exposed(j) ELSE 1
      BY <1>1, <1>2, <2>3, <3>1 DEF DueOf, AtWork
    <3>4. mails'[j] + DueOf(p)' + Causes <= mails[j] + DueOf(p) + Causes'
      BY <1>2, <2>1, <3>1, <3>2, <3>3
    <3> QED
      BY <1>1, <2>3, <3>4, Mine
  <2>4. CASE j = JobOf[p] /\ p \notin Scheduled
    <3>1. mails'[j] = mails[j] + 1 /\ p \in ByHand /\ p \notin OfSlot(j)
      BY <1>1, <1>2, <1>4, <2>4, Kinds DEF DigestTypeOK, OfSlot
    <3>2. PICK d, e, k, l : d = Due(j) /\ e = Due(j)' /\ k = Cardinality(Owing(j)) /\ l = Cardinality(Owing(j))'
      OBVIOUS
    <3>3. d \in Nat /\ e \in Nat /\ e <= d
      <4>1. /\ mails[j] > 0 => mails'[j] > 0
            /\ j \in fired => j \in fired'
            /\ Ok(rows, j) => Ok(rows', j)
            /\ marker'[j] = None => marker[j] = None \/ Ok(rows', j)
        BY <1>1, <1>2, <3>1
      <4> QED
        BY <1>1, <3>1, <3>2, <4>1, DueBounds, DueMoves
    <3>4. k \in Nat /\ l \in Nat /\ l <= k /\ (proc'[p].rc = 0 => l + 1 <= k)
      <4>1. proc'[p].rc = 0 => ~ Owes(p)'
        BY <1>1 DEF Owes, AtWork
      <4> QED
        BY <1>1, <1>2, <2>4, <3>1, <3>2, <4>1, OwingMoves
    <3>5. mails'[j] + e + l + Causes <= mails[j] + d + k + Causes'
      BY <1>2, <2>1, <3>1, <3>3, <3>4
    <3> QED
      BY <3>2, <3>5 DEF Pays, Sum
  <2> QED
    BY <2>2, <2>3, <2>4
<1> QED
  BY <1>1, <1>3, <1>4

LEMMA HandPays == ASSUME DigestAssumption, DigestTypeOK, NEW p \in D!Runs, D!StartByHand(p), NEW j \in D!Jobs PROVE Pays(j)
<1>1. DigestTypeOK' /\ Others(p) /\ p \in ByHand /\ UNCHANGED <<rows, marker, fired, mails, lost, faults>> /\ Causes' = Causes + 1
  BY HandMoves, Caused DEF D!StartByHand
<1>2. Causes \in Nat /\ mails[j] \in Nat /\ p \notin OfSlot(j)
  BY <1>1, Numbers, Kinds DEF OfSlot
<1>3. PICK d, e, k, l : d = Due(j) /\ e = Due(j)' /\ k = Cardinality(Owing(j)) /\ l = Cardinality(Owing(j))'
  OBVIOUS
<1>4. d \in Nat /\ e \in Nat /\ e <= d /\ k \in Nat /\ l \in Nat /\ l <= k + 1
  BY <1>1, <1>2, <1>3, DueBounds, DueMoves, OwingMoves
<1>5. mails'[j] + e + l + Causes <= mails[j] + d + k + Causes'
  BY <1>1, <1>2, <1>4
<1> QED
  BY <1>3, <1>5 DEF Pays, Sum

LEMMA FeedPays == ASSUME DigestAssumption, DigestTypeOK, NEW p \in D!Runs, D!FeedWorks(p), NEW j \in D!Jobs PROVE Pays(j)
<1>1. /\ DigestTypeOK' /\ Others(p) /\ p \in Feeds /\ Causes' = Causes
      /\ UNCHANGED <<rows, marker, fired, mails, forced, lost, faults>>
  BY FeedMoves, Caused DEF D!FeedWorks
<1>2. Causes \in Nat /\ p \notin OfSlot(j) /\ p \notin ByHand
  BY <1>1, Numbers, Kinds DEF OfSlot
<1> QED
  BY <1>1, <1>2, Aside

LEMMA RecordPays ==
  ASSUME DigestAssumption, DigestTypeOK, Started, NEW p \in D!Runs, D!record_run(p), NEW j \in D!Jobs
  PROVE  Pays(j)
<1>1. /\ DigestTypeOK' /\ Others(p) /\ UNCHANGED <<marker, fired, mails, forced, lost, faults>> /\ Causes' = Causes
      /\ proc[p].at = "ends" /\ proc'[p].at = "trims" /\ (\A i : Ok(rows, i) => Ok(rows', i))
      /\ proc[p].rc = 0 => Ok(rows', JobOf[p]) /\ Ok(proc'[p].seen, JobOf[p])
  BY RecordMoves, Caused
<1>2. Causes \in Nat /\ mails[j] \in Nat /\ proc[p].rc \in {0, 1}
  BY <1>1, Numbers, Records DEF Process
<1>3. Owes(p)' => Owes(p)
  BY <1>1, <1>2 DEF Owes, AtWork
<1>4. CASE p \notin OfSlot(j)
  BY <1>1, <1>2, <1>3, <1>4, Aside
<1>5. CASE p \in Scheduled /\ JobOf[p] = j
  <2>1. j \in fired
    BY <1>1, <1>5 DEF Started
  <2>2. DueOf(p)' = IF mails[j] > 0 /\ Ok(rows', j) THEN 0 ELSE 1
    BY <1>1, <1>5, <2>1 DEF DueOf, AtWork
  <2>3. DueOf(p) = IF proc[p].rc = 0 /\ mails[j] > 0 THEN Exposed(j) ELSE 1
    BY <1>1, <1>5 DEF DueOf, AtWork
  <2>4. DueOf(p)' <= DueOf(p) /\ DueOf(p) \in Nat /\ DueOf(p)' \in Nat
    BY <1>1, <1>2, <1>5, <2>2, <2>3 DEF Exposed
  <2>5. mails'[j] + DueOf(p)' + Causes <= mails[j] + DueOf(p) + Causes'
    BY <1>1, <1>2, <2>4
  <2> QED
    BY <1>1, <1>5, <2>5, Mine
<1> QED
  BY <1>4, <1>5 DEF OfSlot

LEMMA TrimPays ==
  ASSUME DigestAssumption, DigestTypeOK, Roomy, NEW p \in D!Runs, D!_trim(p), NEW j \in D!Jobs
  PROVE  Pays(j)
<1>1. /\ DigestTypeOK' /\ Others(p) /\ UNCHANGED <<fired, mails, forced, faults>>
      /\ proc[p].at = "trims" /\ proc'[p].at = "off" /\ marker' = [marker EXCEPT ![JobOf[p]] = None]
  BY TrimMoves
<1>2. /\ lost' >= lost /\ (Ok(proc[p].seen, j) => Ok(rows', j))
      /\ Ok(rows, j) /\ ~ Ok(proc[p].seen, j) => lost' >= lost + 1
  BY TrimCounts
<1>3. /\ Causes' >= Causes /\ Causes \in Nat /\ Causes' \in Nat /\ mails[j] \in Nat
      /\ Ok(rows, j) /\ ~ Ok(rows', j) => Causes' >= Causes + 1
  <2>1. Causes \in Nat /\ Causes' \in Nat /\ mails[j] \in Nat
    BY <1>1, Numbers
  <2>2. Causes' >= Causes /\ (lost' >= lost + 1 => Causes' >= Causes + 1)
    BY <1>1, <1>2, Caused
  <2> QED
    BY <1>2, <2>1, <2>2
<1>4. ~ Owes(p)' /\ (JobOf[p] # j => marker'[j] = marker[j])
  BY <1>1 DEF Owes, AtWork, DigestTypeOK
<1>5. CASE p \in Scheduled /\ JobOf[p] = j
  <2>1. DueOf(p) = IF j \in fired /\ mails[j] > 0 /\ Ok(rows, j) THEN 0 ELSE 1
    BY <1>1, <1>5 DEF DueOf, AtWork
  <2>2. DueOf(p)' = IF j \in fired /\ mails[j] > 0 /\ Ok(rows', j) THEN 0 ELSE 1
    BY <1>1, <1>5 DEF DueOf, AtWork
  <2>3. mails'[j] + DueOf(p)' + Causes <= mails[j] + DueOf(p) + Causes'
    BY <1>1, <1>3, <2>1, <2>2
  <2> QED
    BY <1>1, <1>5, <2>3, Mine
<1>6. CASE p \notin OfSlot(j) /\ ((Ok(rows, j) /\ ~ Ok(rows', j)) \/ JobOf[p] # j \/ Ok(proc[p].seen, j))
  BY <1>1, <1>2, <1>3, <1>4, <1>6, Aside
<1>7. CASE p \notin OfSlot(j) /\ (Ok(rows, j) => Ok(rows', j)) /\ JobOf[p] = j /\ ~ Ok(proc[p].seen, j)
  <2>1. PICK d, e, k, l : d = Due(j) /\ e = Due(j)' /\ k = Cardinality(Owing(j)) /\ l = Cardinality(Owing(j))'
    OBVIOUS
  <2>2. d \in Nat /\ e \in Nat /\ e <= d + 1 /\ k \in Nat /\ l \in Nat
    BY <1>1, <1>7, <2>1, DueBounds, DueMoves, OwingMoves
  <2>3. CASE p \in ByHand
    <3>1. Owes(p)
      BY <1>1, <1>7 DEF Owes
    <3>2. l + 1 <= k
      BY <1>1, <1>4, <1>7, <2>1, <2>3, <3>1, OwingMoves
    <3> QED
      BY <1>1, <1>3, <2>1, <2>2, <3>2 DEF Pays, Sum
  <2>4. CASE p \in Feeds
    <3>1. OfSlot(j) = {} /\ p \notin ByHand
      BY <1>7, <2>4, Kinds DEF OfSlot, DigestAssumption, OneEach
    <3>2. d = 0 /\ e = 0 /\ l <= k
      BY <1>1, <2>1, <3>1, OwingMoves DEF Due
    <3> QED
      BY <1>1, <1>3, <2>1, <2>2, <3>2 DEF Pays, Sum
  <2> QED
    BY <1>7, <2>3, <2>4, Kinds DEF OfSlot
<1> QED
  BY <1>5, <1>6, <1>7 DEF OfSlot

LEMMA DiePays == ASSUME DigestAssumption, DigestTypeOK, NEW p \in D!Runs, D!Dies(p) \/ D!RowFails(p), NEW j \in D!Jobs PROVE Pays(j)
<1>1. /\ DigestTypeOK' /\ Others(p) /\ UNCHANGED <<rows, fired, mails, forced, lost>> /\ proc'[p].at = "off"
      /\ Causes' = Causes + 1
  BY DieMoves, RowFailMoves, Caused
<1>2. Causes \in Nat /\ mails[j] \in Nat /\ ~ Owes(p)'
  BY <1>1, Numbers DEF Owes, AtWork
<1>3. CASE p \notin OfSlot(j)
  BY <1>1, <1>2, <1>3, Aside
<1>4. CASE p \in Scheduled /\ JobOf[p] = j
  <2>1. DueOf(p) \in 0 .. 2 /\ DueOf(p)' \in {0, 1}
    BY <1>1 DEF DueOf, AtWork, Exposed
  <2>2. mails'[j] + DueOf(p)' + Causes <= mails[j] + DueOf(p) + Causes'
    BY <1>1, <1>2, <2>1
  <2> QED
    BY <1>1, <1>4, <2>2, Mine
<1> QED
  BY <1>3, <1>4 DEF OfSlot

LEMMA KickPays ==
  ASSUME DigestAssumption, DigestTypeOK, Wrote, NEW p \in D!Runs, D!Kick(p), NEW j \in D!Jobs
  PROVE  Pays(j)
<1>1. /\ DigestTypeOK' /\ Others(p) /\ UNCHANGED <<rows, marker, fired, mails, forced, lost, faults>> /\ Causes' = Causes
      /\ proc'[p].at = "fired" /\ p \in Scheduled /\ p \notin ByHand /\ D!Restarts(JobOf[p])
  BY KickMoves, Caused, Kinds
<1>2. Causes \in Nat /\ mails[j] \in Nat
  BY <1>1, Numbers
<1>3. CASE p \notin OfSlot(j)
  BY <1>1, <1>2, <1>3, Aside
<1>4. CASE JobOf[p] = j
  <2>1. mails[j] > 0 => marker[j] = None /\ ~ Ok(rows, j)
    BY <1>1, <1>4, RestartsFailed
  <2>2. DueOf(p) >= 1 /\ DueOf(p) \in Nat
    BY <1>4, <2>1 DEF DueOf, Exposed
  <2>3. DueOf(p)' = 1
    BY <1>1 DEF DueOf
  <2>4. mails'[j] + DueOf(p)' + Causes <= mails[j] + DueOf(p) + Causes'
    BY <1>1, <1>2, <2>2, <2>3
  <2> QED
    BY <1>1, <1>4, <2>4, Mine
<1> QED
  BY <1>1, <1>3, <1>4 DEF OfSlot

LEMMA DayPays ==
  ASSUME DigestAssumption, DigestTypeOK, D!Midnight \/ UNCHANGED D!vars, NEW j \in D!Jobs
  PROVE  Pays(j)
<1>1. UNCHANGED <<rows, marker, written, proc, fired, mails, forced, lost, faults>> /\ DigestTypeOK' /\ Causes' = Causes
  BY DayMoves, Caused
<1>2. Due(j)' = Due(j) /\ Owing(j)' = Owing(j)
  BY <1>1 DEF Due, DueOf, Exposed, Owing, Owes
<1>3. Sum(j)' = Sum(j)
  BY <1>1, <1>2 DEF Sum
<1>4. Sum(j) \in Int /\ Causes \in Nat
  <2>1. IsFiniteSet(Owing(j))
    BY FS_Subset DEF Owing, DigestAssumption
  <2>2. Cardinality(Owing(j)) \in Nat /\ Due(j) \in Nat /\ mails[j] \in Nat /\ Causes \in Nat
    BY <1>1, <2>1, FS_CardinalityType, DueBounds, Numbers
  <2> QED
    BY <2>2 DEF Sum
<1> QED
  BY <1>1, <1>3, <1>4 DEF Pays
-----------------------------------------------------------------------------
LEMMA StartedKept ==
  ASSUME Started, NEW p \in D!Runs, Others(p), fired \subseteq fired',
         p \in Scheduled => proc[p].at # "off" \/ JobOf[p] \in fired' \/ proc'[p].at = "off"
  PROVE  Started'
<1> SUFFICES ASSUME NEW c \in Scheduled, proc'[c].at # "off" PROVE JobOf[c] \in fired'
  BY DEF Started
<1>1. CASE c = p
  BY <1>1 DEF Started
<1>2. CASE c # p
  <2>1. c \in D!Runs
    BY DEF D!Runs, D!Digests
  <2>2. proc[c].at # "off"
    BY <1>2, <2>1 DEF Others, Still
  <2> QED
    BY <2>2 DEF Started
<1> QED
  BY <1>1, <1>2

(* A step that keeps the invariants, and whose copies have their causes.    *)
Onward == DigestTypeOK' /\ Started' /\ Wrote' /\ \A j \in D!Jobs : Pays(j)

LEMMA OutsideSteps ==
  ASSUME DigestAssumption, DigestTypeOK, Started, Wrote, NEW p \in D!Runs,
         D!Fire(p) \/ D!StartByHand(p) \/ D!FeedWorks(p) \/ D!RowFails(p) \/ D!Dies(p) \/ D!Kick(p)
  PROVE  Onward
<1>1. \A j \in D!Jobs : Pays(j)
  BY FirePays, HandPays, FeedPays, DiePays, KickPays
<1>2. DigestTypeOK' /\ Others(p)
  BY FireMoves, HandMoves, FeedMoves, RowFailMoves, DieMoves, KickMoves
<1>3. UNCHANGED <<mails, written>> /\ fired \subseteq fired'
  BY DEF D!Fire, D!StartByHand, D!FeedWorks, D!RowFails, D!Dies, D!Kick
<1>4. p \in Scheduled => JobOf[p] \in fired' \/ proc'[p].at = "off"
  BY FireMoves, HandMoves, FeedMoves, RowFailMoves, DieMoves, KickMoves, Kinds
<1>5. Started'
  BY <1>2, <1>3, <1>4, StartedKept
<1> QED
  BY <1>1, <1>2, <1>3, <1>5 DEF Onward, Wrote

LEMMA WorkSteps ==
  ASSUME DigestAssumption, DigestTypeOK, Started, Wrote, Roomy, NEW p \in D!Runs, D!Works(p)
  PROVE  Onward
<1>1. ASSUME DigestTypeOK', Others(p), proc[p].at # "off", UNCHANGED fired, \A j \in D!Jobs : Pays(j),
             \A j \in D!Jobs : written[j] # None => written'[j] # None,
             \A j \in D!Jobs : mails'[j] = mails[j] \/ written[j] # None
      PROVE  Onward
  <2>1. Started'
    BY <1>1, StartedKept
  <2>2. Wrote'
    BY <1>1 DEF Wrote
  <2> QED
    BY <1>1, <2>1, <2>2 DEF Onward
<1>2. CASE D!Start(p)
  <2>1. UNCHANGED <<fired, mails, written>>
    BY <1>2 DEF D!Start
  <2> QED
    BY <1>1, <1>2, <2>1, StartMoves, StartPays
<1>3. CASE D!Ready(p) \/ D!TimesOut(p) \/ D!TakesLock(p) \/ D!GivesUp(p)
  <2>1. /\ DigestTypeOK' /\ Others(p) /\ Kept /\ UNCHANGED written /\ proc[p].at \in AtWork
        /\ proc'[p].at \in AtWork \/ (proc'[p].at = "ends" /\ proc'[p].rc = 1)
    BY <1>3, TurnMoves
  <2>2. \A j \in D!Jobs : Pays(j)
    BY <2>1, TurnPays
  <2> QED
    BY <1>1, <2>1, <2>2 DEF Kept, AtWork
<1>4. CASE D!Renders(p)
  <2>1. /\ DigestTypeOK' /\ Others(p) /\ Kept /\ proc[p].at \in AtWork
        /\ \A j \in D!Jobs : written[j] # None => written'[j] # None
        /\ proc'[p].at \in AtWork \/ (proc'[p].at = "ends" /\ proc'[p].rc = 1)
    BY <1>4, RenderMoves
  <2>2. \A j \in D!Jobs : Pays(j)
    BY <2>1, TurnPays
  <2> QED
    BY <1>1, <2>1, <2>2 DEF Kept, AtWork
<1>5. CASE D!Mails(p)
  <2>1. /\ DigestTypeOK' /\ Others(p) /\ UNCHANGED <<written, fired>> /\ proc[p].at = "mails"
        /\ \/ UNCHANGED mails
           \/ written[JobOf[p]] # None /\ mails' = [mails EXCEPT ![JobOf[p]] = @ + 1]
    BY <1>5, MailMoves
  <2>2. \A j \in D!Jobs : mails'[j] = mails[j] \/ written[j] # None
    BY <2>1 DEF DigestTypeOK
  <2> QED
    BY <1>1, <1>5, <2>1, <2>2, MailPays
<1>6. CASE D!record_run(p)
  BY <1>1, <1>6, RecordMoves, RecordPays
<1>7. CASE D!_trim(p)
  BY <1>1, <1>7, TrimMoves, TrimPays
<1> QED
  BY <1>2, <1>3, <1>4, <1>5, <1>6, <1>7 DEF D!Works

LEMMA DigestStep ==
  ASSUME DigestAssumption, DigestInv, Roomy, [D!Next]_D!vars
  PROVE  DigestInv'
<1>1. Onward
  <2>1. CASE D!Midnight \/ UNCHANGED D!vars
    <3>1. DigestTypeOK' /\ UNCHANGED <<written, proc, fired, mails>>
      BY <2>1, DayMoves DEF DigestInv
    <3>2. \A j \in D!Jobs : Pays(j)
      BY <2>1, DayPays DEF DigestInv
    <3> QED
      BY <3>1, <3>2 DEF DigestInv, Onward, Started, Wrote
  <2>2. ASSUME NEW p \in D!Runs,
               D!Fire(p) \/ D!StartByHand(p) \/ D!FeedWorks(p) \/ D!Works(p) \/ D!RowFails(p) \/ D!Dies(p) \/ D!Kick(p)
        PROVE  Onward
    BY <2>2, OutsideSteps, WorkSteps DEF DigestInv
  <2> QED
    BY <2>1, <2>2 DEF D!Next
<1>2. ASSUME NEW j \in D!Jobs PROVE Sum(j)' <= 1 + Causes'
  <2>1. IsFiniteSet(Owing(j)) /\ IsFiniteSet(Owing(j)')
    BY FS_Subset DEF Owing, DigestAssumption
  <2>2. Cardinality(Owing(j)) \in Nat /\ Cardinality(Owing(j)') \in Nat
    BY <2>1, FS_CardinalityType
  <2>3. mails[j] \in Nat /\ mails'[j] \in Nat /\ Causes \in Nat /\ Causes' \in Nat /\ Due(j) \in Nat /\ Due(j)' \in Nat
    BY <1>1, Numbers, DueBounds DEF DigestInv, Onward
  <2>4. PICK a, b : a = Sum(j) /\ b = Sum(j)'
    OBVIOUS
  <2>5. a \in Nat /\ b \in Nat
    BY <2>2, <2>3, <2>4 DEF Sum
  <2>6. b + Causes <= a + Causes' /\ a <= 1 + Causes
    BY <1>1, <2>4 DEF DigestInv, Onward, Pays
  <2> QED
    BY <2>3, <2>4, <2>5, <2>6
<1> QED
  BY <1>1, <1>2 DEF DigestInv, Onward

LEMMA DigestStarts == ASSUME DigestAssumption, D!Init PROVE DigestInv
<1>1. DigestTypeOK
  <2>1. PICK old : old = D!Old
    OBVIOUS
  <2>2. old \in Row
    BY <2>1 DEF D!Old, Row
  <2>3. rows = [i \in 1 .. RUNS_CAP_ROWS |-> old] /\ RUNS_CAP_ROWS \in Nat
    BY <2>1 DEF D!Init, DigestAssumption
  <2>4. rows \in Seq(Row) /\ Len(rows) = RUNS_CAP_ROWS
    BY <2>2, <2>3
  <2>5. PICK i : i = D!Idle
    OBVIOUS
  <2>6. i \in Process /\ i.at = "off"
    BY <2>5 DEF D!Idle, Process, Where
  <2>7. proc = [p \in D!Runs |-> i] /\ Feeds \subseteq D!Runs
    BY <2>5 DEF D!Init, D!Runs
  <2>8. /\ day = 0 /\ marker = [j \in D!Jobs |-> None] /\ written = [j \in D!Jobs |-> None]
        /\ mails = [j \in D!Jobs |-> 0] /\ forced = 0 /\ lost = 0 /\ faults = 0
    BY DEF D!Init
  <2> QED
    BY <2>3, <2>4, <2>6, <2>7, <2>8 DEF DigestTypeOK
<1>2. \A p \in D!Runs : proc[p].at = "off"
  BY DEF D!Init, D!Idle
<1>3. Started
  BY <1>2 DEF Started, D!Runs, D!Digests
<1>4. \A j \in D!Jobs : mails[j] = 0
  BY DEF D!Init
<1>5. ASSUME NEW j \in D!Jobs PROVE Sum(j) <= 1 + Causes
  <2>1. Owing(j) = {}
    <3>1. \A p \in ByHand : proc[p].at = "off"
      BY <1>2 DEF D!Runs, D!Digests
    <3> QED
      BY <3>1 DEF Owing, Owes, AtWork
  <2>2. Due(j) \in {0, 1}
    <3>1. CASE OfSlot(j) = {}
      BY <3>1 DEF Due
    <3>2. CASE OfSlot(j) # {}
      <4>1. PICK c \in Scheduled : JobOf[c] = j
        BY <3>2 DEF OfSlot
      <4>2. proc[c].at = "off"
        BY <1>2 DEF D!Runs, D!Digests
      <4>3. DueOf(c) \in {0, 1}
        BY <4>2 DEF DueOf, AtWork
      <4> QED
        BY <4>1, <4>3, OneRun
    <3> QED
      BY <3>1, <3>2
  <2>3. Cardinality(Owing(j)) = 0 /\ Causes = 0
    BY <2>1, FS_EmptySet DEF D!Init, Causes
  <2> QED
    BY <1>4, <2>2, <2>3 DEF Sum
<1> QED
  BY <1>1, <1>3, <1>4, <1>5 DEF DigestInv, Wrote

\* The budget bounds the copies.
LEMMA DigestBound == ASSUME DigestAssumption, DigestInv PROVE MailedForCause
<1> SUFFICES ASSUME NEW j \in D!Jobs PROVE mails[j] <= 1 + forced + lost + faults
  BY DEF MailedForCause, D!MailedForCause
<1>1. IsFiniteSet(Owing(j))
  BY FS_Subset DEF Owing, DigestAssumption
<1>2. Cardinality(Owing(j)) \in Nat /\ Due(j) \in Nat /\ mails[j] \in Nat
  BY <1>1, FS_CardinalityType, DueBounds DEF DigestInv, DigestTypeOK
<1>3. mails[j] + Due(j) + Cardinality(Owing(j)) <= 1 + (forced + lost + faults)
  BY DEF DigestInv, Sum, Causes
<1>4. forced \in Nat /\ lost \in Nat /\ faults \in Nat
  BY DEF DigestInv, DigestTypeOK
<1> QED
  BY <1>2, <1>3, <1>4

(* MailedForCause: while the log keeps the rows of the day, a briefing is   *)
(* mailed once, and once more at most for each run by hand, each death or   *)
(* lost reply, and each row that a trim wrote over; for any briefings and   *)
(* jobs they wait for, restarts and moments (digest_send._run_digest,       *)
(* run_ledger._trim, job_watch.evaluate).                                   *)
THEOREM MailedWhileRoomy == D!Spec /\ []Roomy => []MailedForCause
<1>1. D!Init => DigestInv
  BY DigestStarts, DigestConstants
<1>2. DigestInv /\ Roomy /\ [D!Next]_D!vars => DigestInv'
  BY DigestStep, DigestConstants
<1>3. DigestInv => MailedForCause
  BY DigestBound, DigestConstants
<1> QED
  BY <1>1, <1>2, <1>3, PTL DEF D!Spec
-----------------------------------------------------------------------------
(* The log has room for the day: for a row of each slot that comes, of each *)
(* restart the watcher may make and of each run by hand.                    *)
Ample ==
  /\ IsFiniteSet(D!Runs) /\ KickCap \in Nat /\ MaxTrouble \in Nat
  /\ RUNS_CAP_ROWS >= Cardinality(D!Jobs) * (KickCap + 1) + MaxTrouble

(* The runs begun, and those of them whose row is still to come.            *)
Kicked == {k \in D!Jobs \X (1 .. KickCap) : k[2] <= kicks[k[1]]}
Begun == Cardinality(fired) + Cardinality(Kicked) + forced
ToRecord(q) == proc[q].at \notin {"off", "trims"}
Pending == {q \in D!Runs : ToRecord(q)}

(* All but the newest n rows are from before the day, in the file and in    *)
(* every copy that is about to replace it.                                  *)
Aged(s, n) == \A i \in 1 .. Len(s) - n : s[i] = D!Old
Recent(n) == Aged(rows, n) /\ \A q \in D!Runs : proc[q].at = "trims" => Aged(proc[q].seen, n)

LogTypes ==
  /\ fired \subseteq D!Jobs /\ kicks \in [D!Jobs -> 0 .. KickCap]
  /\ day + forced + faults <= MaxTrouble
LogInv == LogTypes /\ \E n \in Nat : n + Cardinality(Pending) <= Begun /\ Recent(n)

LEMMA FiniteJobs == ASSUME IsFiniteSet(D!Runs) PROVE IsFiniteSet(D!Jobs)
<1> DEFINE f == [p \in D!Runs |-> JobOf[p]]
<1>1. f \in Surjection(D!Runs, D!Jobs)
  BY DEF Surjection, D!Jobs
<1> QED
  BY <1>1, FS_Surjection

\* How many runs may begin.
LEMMA BegunBounds ==
  ASSUME Ample, DigestTypeOK, LogTypes
  PROVE  /\ IsFiniteSet(fired) /\ IsFiniteSet(Kicked) /\ IsFiniteSet(Pending)
         /\ Cardinality(fired) \in Nat /\ Cardinality(Kicked) \in Nat /\ Cardinality(Pending) \in Nat
         /\ Begun \in Nat /\ RUNS_CAP_ROWS >= Begun
<1>1. IsFiniteSet(D!Jobs) /\ Cardinality(D!Jobs) \in Nat
  BY FiniteJobs, FS_CardinalityType DEF Ample
<1>2. IsFiniteSet(1 .. KickCap) /\ Cardinality(1 .. KickCap) = KickCap /\ KickCap \in Nat
  BY FS_Interval DEF Ample
<1>3. IsFiniteSet(fired) /\ Cardinality(fired) <= Cardinality(D!Jobs)
  BY <1>1, FS_Subset DEF LogTypes
<1>4. IsFiniteSet(Kicked) /\ Cardinality(Kicked) <= Cardinality(D!Jobs) * KickCap
  <2>1. /\ IsFiniteSet(D!Jobs \X (1 .. KickCap))
        /\ Cardinality(D!Jobs \X (1 .. KickCap)) = Cardinality(D!Jobs) * Cardinality(1 .. KickCap)
    BY <1>1, <1>2, FS_Product
  <2>2. Kicked \in SUBSET (D!Jobs \X (1 .. KickCap))
    BY DEF Kicked
  <2> QED
    BY <1>2, <2>1, <2>2, FS_Subset
<1>5. IsFiniteSet(Pending)
  BY FS_Subset DEF Pending, Ample
<1>6. Cardinality(fired) \in Nat /\ Cardinality(Kicked) \in Nat /\ Cardinality(Pending) \in Nat
  BY <1>3, <1>4, <1>5, FS_CardinalityType
<1>7. forced \in Nat /\ forced <= MaxTrouble /\ MaxTrouble \in Nat
  BY DEF LogTypes, DigestTypeOK, Ample
<1>8. \A a, b \in Nat : a * (b + 1) = a * b + a
  OBVIOUS
<1>9. RUNS_CAP_ROWS >= Cardinality(D!Jobs) * KickCap + Cardinality(D!Jobs) + MaxTrouble
  BY <1>1, <1>2, <1>8 DEF Ample
<1>10. PICK m \in Nat : m = Cardinality(D!Jobs) * KickCap
  BY <1>1, <1>2
<1>11. Begun \in Nat /\ Begun <= m + Cardinality(D!Jobs) + MaxTrouble
  BY <1>1, <1>3, <1>4, <1>6, <1>7, <1>10 DEF Begun
<1>12. RUNS_CAP_ROWS >= Begun
  BY <1>1, <1>7, <1>9, <1>10, <1>11, DigestConstants DEF DigestAssumption
<1> QED
  BY <1>3, <1>4, <1>5, <1>6, <1>11, <1>12

LEMMA LogIsRoomy == ASSUME Ample, DigestTypeOK, LogInv PROVE Roomy
<1>1. PICK n \in Nat : n + Cardinality(Pending) <= Begun /\ Recent(n)
  BY DEF LogInv
<1>2. n <= RUNS_CAP_ROWS /\ RUNS_CAP_ROWS \in Nat
  BY <1>1, BegunBounds, DigestConstants DEF LogInv, DigestAssumption
<1>3. ASSUME NEW p \in D!Runs, proc[p].at = "trims", NEW i \in 1 .. Len(proc[p].seen) - RUNS_CAP_ROWS
      PROVE  proc[p].seen[i] = D!Old
  <2>1. proc[p].seen \in Seq(Row)
    BY DEF DigestTypeOK, Process
  <2>2. Len(proc[p].seen) \in Nat
    BY <2>1
  <2>3. i \in 1 .. Len(proc[p].seen) - n
    BY <1>2, <1>3, <2>2
  <2> QED
    BY <1>1, <1>3, <2>3 DEF Recent, Aged
<1> QED
  BY <1>3 DEF Roomy, D!At

\* Two sets that differ in one element at most.
LEMMA OneApart ==
  ASSUME NEW A, NEW B, NEW p, IsFiniteSet(A), IsFiniteSet(B), \A q : q # p => (q \in A <=> q \in B)
  PROVE  /\ Cardinality(A) \in Nat /\ Cardinality(B) \in Nat
         /\ Cardinality(B) <= Cardinality(A) + 1
         /\ (p \in B => p \in A) => Cardinality(B) <= Cardinality(A)
         /\ p \in A /\ p \notin B => Cardinality(B) + 1 = Cardinality(A)
<1>1. Cardinality(A) \in Nat /\ Cardinality(B) \in Nat
  BY FS_CardinalityType
<1>2. B \in SUBSET (A \cup {p}) /\ ((p \in B => p \in A) => B \in SUBSET A)
  OBVIOUS
<1>3. IsFiniteSet(A \cup {p}) /\ Cardinality(A \cup {p}) <= Cardinality(A) + 1
  BY <1>1, FS_AddElement
<1>4. Cardinality(B) <= Cardinality(A) + 1
  <2>1. Cardinality(B) <= Cardinality(A \cup {p})
    BY <1>2, <1>3, FS_Subset
  <2>2. Cardinality(A \cup {p}) \in Nat
    BY <1>3, FS_CardinalityType
  <2> QED
    BY <1>1, <1>3, <2>1, <2>2
<1>5. ASSUME p \in B => p \in A PROVE Cardinality(B) <= Cardinality(A)
  BY <1>2, <1>5, FS_Subset
<1>6. ASSUME p \in A, p \notin B PROVE Cardinality(B) + 1 = Cardinality(A)
  <2>1. A \ {p} = B
    BY <1>6
  <2> QED
    BY <1>1, <1>6, <2>1, FS_RemoveElement
<1> QED
  BY <1>1, <1>4, <1>5, <1>6

LEMMA PendingMoves ==
  ASSUME Ample, NEW p \in D!Runs, Others(p)
  PROVE  /\ Cardinality(Pending) \in Nat /\ Cardinality(Pending)' \in Nat
         /\ Cardinality(Pending)' <= Cardinality(Pending) + 1
         /\ (ToRecord(p)' => ToRecord(p)) => Cardinality(Pending)' <= Cardinality(Pending)
         /\ ToRecord(p) /\ ~ ToRecord(p)' => Cardinality(Pending)' + 1 = Cardinality(Pending)
<1> DEFINE A == Pending
           B == Pending'
<1>1. IsFiniteSet(A) /\ IsFiniteSet(B)
  BY FS_Subset DEF Pending, Ample
<1>2. \A q : q # p => (q \in A <=> q \in B)
  BY DEF Pending, ToRecord, Others, Still
<1>3. (p \in A <=> ToRecord(p)) /\ (p \in B <=> ToRecord(p)')
  BY DEF Pending
<1> QED
  BY <1>1, <1>2, <1>3, OneApart

\* A step that writes no row, nor takes one out.
LEMMA LogCarried ==
  ASSUME Ample, DigestTypeOK, DigestTypeOK', LogInv, LogTypes', UNCHANGED rows, NEW p \in D!Runs, Others(p),
         proc'[p].at = "trims" => Still(p),
         Begun' \in Nat, Cardinality(Pending)' + Begun <= Cardinality(Pending) + Begun'
  PROVE  LogInv'
<1>1. PICK n \in Nat : n + Cardinality(Pending) <= Begun /\ Recent(n)
  BY DEF LogInv
<1>2. Cardinality(Pending) \in Nat /\ Cardinality(Pending)' \in Nat
  BY PendingMoves
<1>3. Begun \in Nat
  BY BegunBounds DEF LogInv
<1>4. n + Cardinality(Pending)' <= Begun'
  BY <1>1, <1>2, <1>3
<1>5. ASSUME NEW q \in D!Runs, proc'[q].at = "trims" PROVE Aged(proc'[q].seen, n)
  BY <1>1, <1>5 DEF Recent, Others, Still
<1>6. Recent(n)'
  BY <1>1, <1>5 DEF Recent, Aged
<1> QED
  BY <1>4, <1>6 DEF LogInv

\* A run that begins is counted.
LEMMA FireBegins ==
  ASSUME Ample, DigestTypeOK, LogTypes, NEW p \in D!Runs, D!Fire(p)
  PROVE  LogTypes' /\ Begun' = Begun + 1
<1>1. /\ JobOf[p] \in D!Jobs /\ JobOf[p] \notin fired /\ fired' = fired \cup {JobOf[p]}
      /\ UNCHANGED <<day, kicks, forced, faults>>
  BY DEF D!Fire, D!Jobs
<1>2. IsFiniteSet(fired)
  BY BegunBounds
<1>3. Cardinality(fired') = Cardinality(fired) + 1
  BY <1>1, <1>2, FS_AddElement
<1>4. Kicked' = Kicked
  BY <1>1 DEF Kicked, D!Jobs, D!Runs, D!Digests
<1>5. Cardinality(fired) \in Nat /\ Cardinality(Kicked) \in Nat /\ forced \in Nat
  BY BegunBounds DEF DigestTypeOK
<1>6. Begun' = Begun + 1
  BY <1>1, <1>3, <1>4, <1>5 DEF Begun
<1> QED
  BY <1>1, <1>6 DEF LogTypes

LEMMA HandBegins ==
  ASSUME Ample, DigestTypeOK, LogTypes, NEW p \in D!Runs, D!StartByHand(p)
  PROVE  LogTypes' /\ Begun' = Begun + 1
<1>1. /\ forced' = forced + 1 /\ UNCHANGED <<day, fired, kicks, faults>>
      /\ day + forced + faults < MaxTrouble
  BY DEF D!StartByHand, D!Room
<1>2. Kicked' = Kicked
  BY <1>1 DEF Kicked
<1>3. Cardinality(fired) \in Nat /\ Cardinality(Kicked) \in Nat /\ forced \in Nat /\ day \in Nat /\ faults \in Nat
  BY BegunBounds DEF DigestTypeOK
<1>4. Begun' = Begun + 1
  BY <1>1, <1>2, <1>3 DEF Begun
<1>5. day' + forced' + faults' <= MaxTrouble
  BY <1>1, <1>3 DEF Ample, DigestTypeOK
<1> QED
  BY <1>1, <1>4, <1>5 DEF LogTypes

LEMMA KickBegins ==
  ASSUME Ample, DigestTypeOK, LogTypes, NEW p \in D!Runs, D!Kick(p)
  PROVE  LogTypes' /\ Begun' = Begun + 1
<1> DEFINE j == JobOf[p]
           k == <<j, kicks[j] + 1>>
<1>1. /\ j \in D!Jobs /\ kicks[j] < KickCap /\ kicks' = [kicks EXCEPT ![j] = @ + 1]
      /\ UNCHANGED <<day, fired, forced, faults>>
  BY DEF D!Kick, D!Jobs
<1>2. kicks[j] \in 0 .. KickCap /\ kicks[j] + 1 \in 1 .. KickCap /\ kicks' \in [D!Jobs -> 0 .. KickCap]
  BY <1>1 DEF LogTypes, Ample
<1>3. k \notin Kicked
  BY <1>2 DEF Kicked
<1>4. Kicked' = Kicked \cup {k}
  <2>1. \A i \in D!Jobs, n \in 1 .. KickCap :
          n <= kicks'[i] <=> n <= kicks[i] \/ (i = j /\ n = kicks[j] + 1)
    <3> SUFFICES ASSUME NEW i \in D!Jobs, NEW n \in 1 .. KickCap
                 PROVE  n <= kicks'[i] <=> n <= kicks[i] \/ (i = j /\ n = kicks[j] + 1)
      OBVIOUS
    <3>1. kicks[i] \in 0 .. KickCap /\ kicks'[i] = IF i = j THEN kicks[j] + 1 ELSE kicks[i]
      BY <1>1 DEF LogTypes
    <3> QED
      BY <1>2, <3>1
  <2>2. Kicked' = {i \in D!Jobs \X (1 .. KickCap) : i[2] <= kicks'[i[1]]}
    BY DEF Kicked, D!Jobs, D!Runs, D!Digests
  <2>3. k \in D!Jobs \X (1 .. KickCap) /\ k[1] = j /\ k[2] = kicks[j] + 1
    BY <1>1, <1>2
  <2>4. \A i \in D!Jobs \X (1 .. KickCap) : i[1] = j /\ i[2] = kicks[j] + 1 <=> i = k
    OBVIOUS
  <2>5. \A i \in D!Jobs \X (1 .. KickCap) : i[2] <= kicks'[i[1]] <=> i[2] <= kicks[i[1]] \/ i = k
    BY <2>1, <2>4
  <2> QED
    BY <2>2, <2>3, <2>5 DEF Kicked
<1>5. IsFiniteSet(Kicked)
  BY BegunBounds
<1>6. Cardinality(Kicked') = Cardinality(Kicked) + 1
  BY <1>3, <1>4, <1>5, FS_AddElement
<1>7. Cardinality(fired) \in Nat /\ Cardinality(Kicked) \in Nat /\ forced \in Nat
  BY BegunBounds DEF DigestTypeOK
<1>8. Begun' = Begun + 1
  BY <1>1, <1>6, <1>7 DEF Begun
<1> QED
  BY <1>1, <1>2, <1>8 DEF LogTypes

\* Whatever a run that has begun does, none begins.
LEMMA NoneBegins ==
  ASSUME Ample, DigestTypeOK, LogTypes, UNCHANGED <<fired, kicks, forced>>, day' + faults' + forced <= MaxTrouble,
         day' \in Nat, faults' \in Nat
  PROVE  LogTypes' /\ Begun' = Begun
<1>1. Kicked' = Kicked
  BY DEF Kicked
<1>2. forced \in Nat
  BY DEF DigestTypeOK
<1> QED
  BY <1>1, <1>2 DEF Begun, LogTypes

LEMMA LogWorks ==
  ASSUME Ample, DigestTypeOK, LogInv, NEW p \in D!Runs, D!FeedWorks(p) \/ D!Works(p) \/ D!RowFails(p) \/ D!Dies(p)
  PROVE  LogTypes' /\ Begun' = Begun /\ Begun \in Nat
<1>1. UNCHANGED <<day, fired, kicks, forced>>
  BY DEF D!FeedWorks, D!Works, D!RowFails, D!Dies, D!Start, D!Ready, D!TimesOut, D!TakesLock, D!GivesUp, D!Renders, D!Mails,
         D!record_run, D!_trim
<1>2. UNCHANGED faults \/ D!Fault
  BY DEF D!FeedWorks, D!Works, D!RowFails, D!Dies, D!Start, D!Ready, D!TimesOut, D!TakesLock, D!GivesUp, D!Renders, D!Mails,
         D!record_run, D!_trim
<1>3. day \in Nat /\ forced \in Nat /\ faults \in Nat /\ MaxTrouble \in Nat /\ day + forced + faults <= MaxTrouble
  BY DEF DigestTypeOK, Ample, LogInv, LogTypes
<1>4. day' \in Nat /\ faults' \in Nat /\ day' + faults' + forced <= MaxTrouble
  BY <1>1, <1>2, <1>3 DEF D!Fault, D!Room
<1> QED
  BY <1>1, <1>4, NoneBegins, BegunBounds DEF LogInv

\* Rows that are recent enough for n are for more.
LEMMA AgedMore == ASSUME NEW s \in Seq(Row), NEW n \in Nat, Aged(s, n) PROVE Aged(s, n + 1)
<1>1. Len(s) \in Nat
  OBVIOUS
<1>2. ASSUME NEW i \in 1 .. Len(s) - (n + 1) PROVE i \in 1 .. Len(s) - n
  BY <1>1
<1> QED
  BY <1>2 DEF Aged

LEMMA LogRecords ==
  ASSUME Ample, DigestTypeOK, LogInv, NEW p \in D!Runs, D!record_run(p)
  PROVE  LogInv'
<1>1. PICK n \in Nat : n + Cardinality(Pending) <= Begun /\ Recent(n)
  BY DEF LogInv
<1>2. LogTypes' /\ Begun' = Begun /\ Begun \in Nat
  BY LogWorks DEF D!Works
<1>3. Others(p) /\ proc[p].at = "ends" /\ proc'[p].at = "trims" /\ DigestTypeOK'
  BY RecordMoves, DigestConstants
<1>4. Cardinality(Pending)' + 1 = Cardinality(Pending) /\ Cardinality(Pending) \in Nat /\ Cardinality(Pending)' \in Nat
  BY <1>3, PendingMoves DEF ToRecord
<1>5. PICK r : rows' = Append(rows, r)
  BY DEF D!record_run
<1>6. proc'[p].seen = rows'
  BY DEF D!record_run, D!Idle, DigestTypeOK
<1>7. Aged(rows', n + 1)
  <2>1. rows \in Seq(Row) /\ rows' \in Seq(Row)
    BY <1>3 DEF DigestTypeOK
  <2>2. Len(rows) \in Nat /\ DOMAIN rows = 1 .. Len(rows)
    BY <2>1
  <2>3. Len(rows') = Len(rows) + 1 /\ \A i \in 1 .. Len(rows) : rows'[i] = rows[i]
    BY <1>5, <2>1
  <2>4. ASSUME NEW i \in 1 .. Len(rows') - (n + 1) PROVE i \in 1 .. Len(rows) - n /\ i \in 1 .. Len(rows)
    BY <2>2, <2>3
  <2> QED
    BY <1>1, <2>3, <2>4 DEF Recent, Aged
<1>8. ASSUME NEW q \in D!Runs, proc'[q].at = "trims" PROVE Aged(proc'[q].seen, n + 1)
  <2>1. CASE q = p
    BY <1>6, <1>7, <2>1
  <2>2. CASE q # p
    <3>1. proc[q].at = "trims" /\ proc'[q].seen = proc[q].seen
      BY <1>3, <1>8, <2>2 DEF Others, Still
    <3>2. proc[q].seen \in Seq(Row)
      BY DEF DigestTypeOK, Process
    <3> QED
      BY <1>1, <3>1, <3>2, AgedMore DEF Recent
  <2> QED
    BY <2>1, <2>2
<1>9. Recent(n + 1)'
  BY <1>7, <1>8 DEF Recent, Aged
<1>10. n + 1 \in Nat /\ (n + 1) + Cardinality(Pending)' <= Begun'
  BY <1>1, <1>2, <1>4
<1> QED
  BY <1>2, <1>9, <1>10 DEF LogInv

LEMMA LogTrims ==
  ASSUME Ample, DigestTypeOK, LogInv, NEW p \in D!Runs, D!_trim(p)
  PROVE  LogInv'
<1> DEFINE s == proc[p].seen
<1>1. PICK n \in Nat : n + Cardinality(Pending) <= Begun /\ Recent(n)
  BY DEF LogInv
<1>2. LogTypes' /\ Begun' = Begun /\ Begun \in Nat
  BY LogWorks DEF D!Works
<1>3. Others(p) /\ proc[p].at = "trims" /\ proc'[p].at = "off"
  BY LogIsRoomy, TrimMoves, DigestConstants
<1>4. Cardinality(Pending)' <= Cardinality(Pending) /\ Cardinality(Pending) \in Nat /\ Cardinality(Pending)' \in Nat
  BY <1>3, PendingMoves DEF ToRecord
<1>5. Aged(rows', n)
  <2>1. s \in Seq(Row) /\ Len(s) > RUNS_CAP_ROWS /\ RUNS_CAP_ROWS \in Nat
    BY <1>3, DigestConstants DEF DigestTypeOK, Process, DigestAssumption
  <2>2. Len(s) \in Nat /\ ~ (Len(s) <= RUNS_CAP_ROWS)
    BY <2>1
  <2>3. rows' = D!Newest(s)
    BY <2>2 DEF D!_trim
  <2>4. rows' = SubSeq(s, (Len(s) - RUNS_CAP_ROWS) + 1, Len(s))
    BY <2>3 DEF D!Newest
  <2>5. Len(rows') = RUNS_CAP_ROWS
    BY <2>1, <2>3, Cut, DigestConstants
  <2>6. \A i \in 1 .. RUNS_CAP_ROWS : rows'[i] = s[(Len(s) - RUNS_CAP_ROWS) + i]
    <3>1. PICK k : k = Len(s) - RUNS_CAP_ROWS
      OBVIOUS
    <3>2. k \in Nat /\ Len(s) = k + RUNS_CAP_ROWS
      BY <2>1, <2>2, <3>1
    <3>3. rows' = SubSeq(s, k + 1, Len(s))
      BY <2>4, <3>1
    <3>4. \A i \in 1 .. RUNS_CAP_ROWS : rows'[i] = s[k + i]
      BY <2>1, <2>2, <3>2, <3>3
    <3> QED
      BY <3>1, <3>4
  <2>7. ASSUME NEW i \in 1 .. Len(rows') - n PROVE rows'[i] = D!Old
    <3>1. i \in 1 .. RUNS_CAP_ROWS /\ (Len(s) - RUNS_CAP_ROWS) + i \in 1 .. Len(s) - n
      BY <2>1, <2>2, <2>5, <2>7
    <3>2. Aged(s, n)
      BY <1>1, <1>3 DEF Recent
    <3> QED
      BY <2>6, <3>1, <3>2 DEF Aged
  <2> QED
    BY <2>7 DEF Aged
<1>6. ASSUME NEW q \in D!Runs, proc'[q].at = "trims" PROVE Aged(proc'[q].seen, n)
  BY <1>1, <1>3, <1>6 DEF Recent, Others, Still
<1>7. Recent(n)'
  BY <1>5, <1>6 DEF Recent, Aged
<1>8. n + Cardinality(Pending)' <= Begun'
  BY <1>1, <1>2, <1>4
<1> QED
  BY <1>2, <1>7, <1>8 DEF LogInv

LEMMA LogStep ==
  ASSUME Ample, DigestTypeOK, DigestTypeOK', LogInv, [D!Next]_D!vars
  PROVE  LogInv'
<1>0. LogTypes /\ Begun \in Nat
  BY BegunBounds DEF LogInv
<1>1. CASE D!Midnight \/ UNCHANGED D!vars
  <2>1. /\ UNCHANGED <<rows, proc, fired, kicks, forced, faults>>
        /\ day' = day \/ (day' = day + 1 /\ day + forced + faults < MaxTrouble)
    <3>1. CASE D!Midnight
      BY <3>1 DEF D!Midnight, D!Room
    <3>2. CASE UNCHANGED D!vars
      BY <3>2 DEF D!vars
    <3> QED
      BY <1>1, <3>1, <3>2
  <2>2. day' \in Nat /\ faults' \in Nat /\ day' + faults' + forced <= MaxTrouble
    <3>1. day \in Nat /\ forced \in Nat /\ faults \in Nat /\ MaxTrouble \in Nat /\ day + forced + faults <= MaxTrouble
      BY <1>0 DEF DigestTypeOK, LogTypes, Ample
    <3>2. forced' = forced /\ faults' = faults
      BY <2>1
    <3> QED
      BY <2>1, <3>1, <3>2
  <2>3. LogTypes' /\ Begun' = Begun
    BY <1>0, <2>1, <2>2, NoneBegins
  <2>4. Cardinality(Pending)' = Cardinality(Pending)
    BY <2>1 DEF Pending, ToRecord, D!Runs, D!Digests
  <2>5. \A n : Recent(n)' <=> Recent(n)
    BY <2>1 DEF Recent, Aged, D!Old
  <2> QED
    BY <2>3, <2>4, <2>5 DEF LogInv
<1>2. ASSUME NEW p \in D!Runs, D!Fire(p) \/ D!StartByHand(p) \/ D!Kick(p) PROVE LogInv'
  <2>1. LogTypes' /\ Begun' = Begun + 1
    BY <1>0, <1>2, FireBegins, HandBegins, KickBegins
  <2>2. UNCHANGED rows /\ Others(p)
    BY <1>2, FireMoves, HandMoves, KickMoves, DigestConstants DEF D!Fire, D!StartByHand, D!Kick
  <2>3. proc'[p].at = "fired" \/ Still(p)
    <3>1. CASE D!StartByHand(p)
      <4>1. PICK r \in BOOLEAN : proc' = [proc EXCEPT ![p] = D!Fired(r)]
        BY <3>1 DEF D!StartByHand
      <4>2. D!Fired(r).at = "fired"
        BY Records, DigestConstants
      <4> QED
        BY <4>1, <4>2 DEF DigestTypeOK
    <3> QED
      BY <1>2, <3>1, FireMoves, KickMoves, DigestConstants
  <2>4. Cardinality(Pending)' <= Cardinality(Pending) + 1 /\ Cardinality(Pending) \in Nat /\ Cardinality(Pending)' \in Nat
    BY <2>2, PendingMoves
  <2>5. Begun' \in Nat /\ Cardinality(Pending)' + Begun <= Cardinality(Pending) + Begun'
    BY <1>0, <2>1, <2>4
  <2> QED
    BY <2>1, <2>2, <2>3, <2>5, LogCarried
<1>3. ASSUME NEW p \in D!Runs, D!FeedWorks(p) \/ D!Works(p) \/ D!RowFails(p) \/ D!Dies(p) PROVE LogInv'
  <2>1. CASE D!record_run(p)
    BY <2>1, LogRecords
  <2>2. CASE D!_trim(p)
    BY <2>2, LogTrims
  <2>3. CASE ~ (D!record_run(p) \/ D!_trim(p))
    <3>1. LogTypes' /\ Begun' = Begun /\ Begun \in Nat
      BY <1>3, LogWorks
    <3>2. UNCHANGED rows
      BY <1>3, <2>3 DEF D!FeedWorks, D!Works, D!RowFails, D!Dies, D!Start, D!Ready, D!TimesOut, D!TakesLock, D!GivesUp, D!Renders, D!Mails
    <3>3. Others(p) /\ proc'[p].at # "trims" /\ (ToRecord(p)' => ToRecord(p))
      <4>1. CASE D!FeedWorks(p)
        <5>1. PICK rc \in {0, 1} : proc' = [proc EXCEPT ![p] = D!Ended(p, rc)]
          BY <4>1 DEF D!FeedWorks, D!Ends
        <5>2. D!Ended(p, rc).at = "ends"
          BY Records, DigestConstants
        <5>3. proc'[p].at = "ends" /\ proc[p].at = "fired"
          BY <4>1, <5>1, <5>2 DEF DigestTypeOK, D!FeedWorks, D!At
        <5> QED
          BY <4>1, <5>3, FeedMoves, DigestConstants DEF ToRecord
      <4>2. CASE D!RowFails(p) \/ D!Dies(p)
        BY <4>2, RowFailMoves, DieMoves, DigestConstants DEF ToRecord
      <4>3. CASE D!Start(p)
        <5>1. Others(p) /\ proc[p].at = "fired" /\ proc'[p].at \in {"ends"} \cup AtWork
          BY <4>3, StartMoves, DigestConstants DEF AtWork
        <5> QED
          BY <5>1 DEF ToRecord, AtWork
      <4>4. CASE D!Ready(p) \/ D!TimesOut(p) \/ D!TakesLock(p) \/ D!GivesUp(p)
        BY <4>4, TurnMoves, DigestConstants DEF ToRecord, AtWork
      <4>5. CASE D!Renders(p)
        BY <4>5, RenderMoves, DigestConstants DEF ToRecord, AtWork
      <4>6. CASE D!Mails(p)
        BY <4>6, MailMoves, DigestConstants DEF ToRecord
      <4> QED
        BY <1>3, <2>3, <4>1, <4>2, <4>3, <4>4, <4>5, <4>6 DEF D!Works
    <3>4. Cardinality(Pending)' <= Cardinality(Pending) /\ Cardinality(Pending) \in Nat /\ Cardinality(Pending)' \in Nat
      BY <3>3, PendingMoves
    <3>5. Begun' \in Nat /\ Cardinality(Pending)' + Begun <= Cardinality(Pending) + Begun'
      BY <3>1, <3>4
    <3> QED
      BY <3>1, <3>2, <3>3, <3>5, LogCarried
  <2> QED
    BY <2>1, <2>2, <2>3
<1> QED
  BY <1>1, <1>2, <1>3 DEF D!Next

LEMMA LogStarts == ASSUME Ample, D!Init PROVE LogInv
<1>1. /\ day = 0 /\ forced = 0 /\ faults = 0 /\ fired = {} /\ kicks = [j \in D!Jobs |-> 0] /\ MaxTrouble \in Nat
      /\ KickCap \in Nat /\ \A q \in D!Runs : proc[q].at = "off"
  BY DEF D!Init, D!Idle, Ample
<1>2. LogTypes
  BY <1>1 DEF LogTypes
<1>3. Kicked = {}
  BY <1>1 DEF Kicked
<1>4. Pending = {}
  BY <1>1 DEF Pending, ToRecord
<1>5. Begun = 0 /\ Cardinality(Pending) = 0
  BY <1>1, <1>3, <1>4, FS_EmptySet DEF Begun
<1>6. Recent(0)
  <2>1. rows = [i \in 1 .. RUNS_CAP_ROWS |-> D!Old] /\ RUNS_CAP_ROWS \in Nat
    BY DigestConstants DEF D!Init, DigestAssumption
  <2>2. Len(rows) = RUNS_CAP_ROWS
    BY <2>1
  <2> QED
    BY <1>1, <2>1, <2>2 DEF Recent, Aged
<1> QED
  BY <1>2, <1>5, <1>6 DEF LogInv

(* MailedForCause, where the log has room for the day: a briefing is mailed *)
(* once, and once more at most for each run by hand, each death, lost reply *)
(* or row not appended, and each row that a trim wrote over.  The code keeps 3000 rows    *)
(* (run_ledger.RUNS_CAP_ROWS) of some ten jobs, each restarted a few times. *)
THEOREM MailedForCauseAlways ==
  ASSUME Ample
  PROVE  D!Spec => []MailedForCause
<1>1. D!Init => DigestInv /\ LogInv
  BY DigestStarts, LogStarts, DigestConstants
<1>2. DigestInv /\ LogInv /\ [D!Next]_D!vars => (DigestInv /\ LogInv)'
  BY DigestStep, LogStep, LogIsRoomy, DigestConstants DEF DigestInv
<1>3. DigestInv => MailedForCause
  BY DigestBound, DigestConstants
<1> QED
  BY <1>1, <1>2, <1>3, PTL DEF D!Spec
=============================================================================
