------------------------------- MODULE JobWatch -------------------------------
(***************************************************************************)
(* The watcher (src/app/job_watch.py), with the run ledger it grades from  *)
(* (src/app/run_ledger.py) and the mechanic it calls (src/app/repair.py).  *)
(* Once every half hour a tick reads what the day's jobs left behind,      *)
(* grades each, restarts what is missing or failed through the OS          *)
(* scheduler, has the mechanic look at what restarts did not cure, and     *)
(* writes its state file.                                                  *)
(*                                                                         *)
(* One job owes one run a day, its slot.  A job runs as the scheduler's    *)
(* copy, which a restart kills first, or as a copy somebody started by     *)
(* hand.  Jobs that poll are not modelled; nor is the weekday arithmetic.  *)
(***************************************************************************)
EXTENDS Naturals, FiniteSets, Functions

CONSTANTS
  Jobs,         \* the jobs in the roster
  Failures,     \* what a failed run may leave as its detail
  ClassOf,      \* detail -> the class failure_class gives it
  Blank,        \* the empty detail
  Filers,       \* jobs graded by a file they write
  None,         \* no failure recorded, nothing said, no marker
  KickCap,      \* kick_cap()
  MaxPerDay,    \* the mechanic's MAX_PER_DAY
  ByHand,       \* whether jobs are also started by hand
  SlotTicks,    \* bound: half hours in a day
  LastTick,     \* bound: half hours in all
  MaxLost       \* bound: ticks that die, and writes and reads of state that fail

Ways == IF ByHand THEN {"scheduled", "hand"} ELSE {"scheduled"}
Runs == Jobs \X {"scheduled", "hand"}
Grades == {"ok", "running", "no_deliverable", "failed", "pending", "missing"}
Reasons == {"gave up", "usage limit", "sign in", "reconnect", "updating", "deferred"}

ASSUME WatchAssumption ==
  /\ \A f \in Failures : ClassOf[f] \in {"quota", "auth", "connector", "version",
                                         "classifier", "other"}
  /\ IsFiniteSet(Jobs)
  /\ None \notin Failures \cup Jobs \cup {"scheduled", "hand"}
  /\ Filers \subseteq Jobs
  /\ KickCap \in Nat \ {0}
  /\ MaxPerDay \in Nat \ {0}
  /\ ByHand \in BOOLEAN
  /\ SlotTicks \in Nat \ {0}
  /\ LastTick \in Nat
  /\ MaxLost \in Nat

VARIABLES
  now,          \* half hours since the first slot
  run,          \* process of a job -> how far it is
  today,        \* processes that started since the slot
  owed,         \* jobs the scheduler has still to fire for this slot
  good,         \* jobs with a row of rc 0 in the ledger for this slot
  bad,          \* job -> detail of its last failed row for this slot
  fresh,        \* jobs whose deliverable was written since the slot
  marker,       \* job -> the process its in-flight marker names
  slots,        \* the watcher's state file: job -> record of this slot
  looked,       \* the mechanic's state file: jobs looked at today
  log,          \* the watcher's log for today: restarted, and last said of each
  at,           \* where the tick is
  mem,          \* the tick's copy of the state
  runs,         \* the rows the tick has read
  cur,          \* the job the mechanic looks at
  grade,        \* job -> the tick's grade
  why,          \* job -> why the tick does not restart it
  kicked,       \* jobs this tick restarted
  todo,         \* jobs the tick has still to deal with
  restarts,     \* history: job -> restarts in this slot
  looks,        \* history: job -> looks of the mechanic today
  atWork,       \* history: jobs whose scheduled copy worked when it was graded
  lost,         \* history: ticks whose state was not written
  wiped,        \* history: times the watcher's file was left torn or found unreadable
  missed        \* history: the same of the mechanic's, and stamps it could not write

ledger == <<good, bad>>
work == <<run, today, owed, fresh, marker>>
disk == <<slots, looked, log>>
tickvars == <<at, mem, runs, grade, why, kicked, todo, cur>>
faults == <<lost, wiped, missed>>
history == <<restarts, looks, faults, atWork>>
vars == <<now, work, ledger, disk, tickvars, history>>

Moments == 0..(LastTick + 3)     \* 0: not set
Signatures == Failures \cup {None, "missing", "no_deliverable"}
Slot == [kicks : 0..KickCap, last_signature : Signatures,
         quota_until : Moments, deferred_at : BOOLEAN, alerted : BOOLEAN]
Untouched == [kicks |-> 0, last_signature |-> None, quota_until |-> 0,
              deferred_at |-> FALSE, alerted |-> FALSE]

TypeOK ==
  /\ now \in 0..LastTick
  /\ run \in [Runs -> {"off", "starting", "working", "written", "recorded"}]
  /\ today \subseteq Runs
  /\ owed \subseteq Jobs
  /\ good \subseteq Jobs
  /\ bad \in [Jobs -> Failures \cup {None}]
  /\ fresh \subseteq Jobs
  /\ marker \in [Jobs -> {None, "scheduled", "hand"}]
  /\ slots \in [Jobs -> Slot]
  /\ looked \subseteq Jobs
  /\ log \in [kicked : SUBSET Jobs, held : [Jobs -> Reasons \cup {None}]]
  /\ at \in {"off", "grade", "decide", "escalate", "looking", "save", "record", "alert"}
  /\ cur \in Jobs \cup {None}
  /\ mem \in [Jobs -> Slot]
  /\ runs \in [good : SUBSET Jobs, bad : [Jobs -> Failures \cup {None}]]
  /\ grade \in [Jobs -> Grades]
  /\ why \in [Jobs -> Reasons \cup {None}]
  /\ kicked \subseteq Jobs
  /\ todo \subseteq Jobs
  /\ atWork \subseteq Jobs
  /\ restarts \in [Jobs -> Nat]
  /\ looks \in [Jobs -> Nat]
  /\ lost \in Nat /\ wiped \in Nat /\ missed \in Nat

NoSlots == [j \in Jobs |-> Untouched]
NoRows == [good |-> {}, bad |-> [j \in Jobs |-> None]]
Silence == [j \in Jobs |-> None]

Init ==
  /\ now = 0
  /\ run = [p \in Runs |-> "off"]
  /\ today = {}
  /\ owed = Jobs
  /\ good = {}
  /\ bad = [j \in Jobs |-> None]
  /\ fresh = {}
  /\ marker = Silence
  /\ slots = NoSlots
  /\ looked = {}
  /\ log = [kicked |-> {}, held |-> Silence]
  /\ at = "off"
  /\ mem = NoSlots
  /\ runs = NoRows
  /\ grade = [j \in Jobs |-> "ok"]
  /\ why = Silence
  /\ kicked = {}
  /\ todo = {}
  /\ restarts = [j \in Jobs |-> 0]
  /\ looks = [j \in Jobs |-> 0]
  /\ lost = 0 /\ wiped = 0 /\ missed = 0
  /\ cur = None
  /\ atWork = {}

-----------------------------------------------------------------------------
(* The jobs.                                                                *)

Alive(p) == run[p] # "off"
Working(p) == run[p] \in {"working", "written", "recorded"}

(* The scheduler fires each job once a slot: late, beside the others, on a  *)
(* machine that slept; not at all when it is switched off.                  *)
Fire(j) ==
  /\ j \in owed
  /\ owed' = owed \ {j}
  /\ IF Alive(<<j, "scheduled">>)
       THEN UNCHANGED <<run, today>>
       ELSE /\ run' = [run EXCEPT ![<<j, "scheduled">>] = "starting"]
            /\ today' = today \cup {<<j, "scheduled">>}
  /\ UNCHANGED <<now, fresh, marker, ledger, disk, tickvars, history>>

StartByHand(j) ==
  /\ ByHand
  /\ ~ Alive(<<j, "hand">>)
  /\ run' = [run EXCEPT ![<<j, "hand">>] = "starting"]
  /\ today' = today \cup {<<j, "hand">>}
  /\ UNCHANGED <<now, owed, fresh, marker, ledger, disk, tickvars, history>>

Begin(j, w) ==
  /\ run[<<j, w>>] = "starting"
  /\ run' = [run EXCEPT ![<<j, w>>] = "working"]
  /\ marker' = [marker EXCEPT ![j] = w]
  /\ UNCHANGED <<now, today, owed, fresh, ledger, disk, tickvars, history>>

Write(j, w) ==
  /\ run[<<j, w>>] = "working"
  /\ j \in Filers
  /\ run' = [run EXCEPT ![<<j, w>>] = "written"]
  /\ fresh' = fresh \cup {j}
  /\ UNCHANGED <<now, today, owed, marker, ledger, disk, tickvars, history>>

(* record_run appends the row; a row counts for the slot the run began in.  *)
(* A run that decides early not to run leaves a row too.                    *)
Record(j, w) ==
  /\ run[<<j, w>>] \in {"starting", "working", "written"}
  /\ run' = [run EXCEPT ![<<j, w>>] = "recorded"]
  /\ IF <<j, w>> \in today
       THEN \/ good' = good \cup {j} /\ bad' = bad
            \/ \E f \in Failures : bad' = [bad EXCEPT ![j] = f] /\ good' = good
       ELSE UNCHANGED ledger
  /\ UNCHANGED <<now, today, owed, fresh, marker, disk, tickvars, history>>

(* Then it removes the marker of the job, whoever wrote it.                 *)
Clear(j, w) ==
  /\ run[<<j, w>>] = "recorded"
  /\ run' = [run EXCEPT ![<<j, w>>] = "off"]
  /\ marker' = [marker EXCEPT ![j] = None]
  /\ UNCHANGED <<now, today, owed, fresh, ledger, disk, tickvars, history>>

RunDies(j, w) ==
  /\ Alive(<<j, w>>)
  /\ run' = [run EXCEPT ![<<j, w>>] = "off"]
  /\ UNCHANGED <<now, today, owed, fresh, marker, ledger, disk, tickvars, history>>

-----------------------------------------------------------------------------
(* The tick reads its state, then the ledger, then markers and files.       *)

Room == lost + wiped + missed < MaxLost
Lose == Room /\ lost' = lost + 1 /\ UNCHANGED <<wiped, missed>>
Wipe == Room /\ wiped' = wiped + 1 /\ UNCHANGED <<lost, missed>>
Miss == Room /\ missed' = missed + 1 /\ UNCHANGED <<lost, wiped>>

(* A state file that cannot be read or parsed is read as an empty one.      *)
TickReads ==
  /\ at = "off"
  /\ at' = "grade"
  /\ \/ mem' = slots /\ UNCHANGED faults
     \/ mem' = NoSlots /\ Wipe
  /\ runs' = [good |-> good, bad |-> bad]
  /\ UNCHANGED <<now, work, ledger, disk, grade, why, kicked, todo, cur, restarts, looks, atWork>>

(* Deviation: a marker is believed without asking for its process.          *)
InFlightByMarker(j) == marker[j] # None

InFlight(j) == marker[j] # None /\ Working(<<j, marker[j]>>)

Stale(j) == j \in Filers /\ j \notin fresh
Pending == now % SlotTicks = 0

(* Deviation: a job at work is graded by its last failure.                  *)
GradeFailedFirst(j) ==
  IF j \in runs.good /\ ~ Stale(j) THEN "ok"
  ELSE IF runs.bad[j] # None THEN "failed"
  ELSE IF InFlight(j) THEN "running"
  ELSE IF j \in runs.good THEN "no_deliverable"
  ELSE IF Pending THEN "pending"
  ELSE "missing"

(* The order of evaluate.                                                   *)
GradeOf(j) ==
  IF j \in runs.good /\ ~ Stale(j) THEN "ok"
  ELSE IF InFlight(j) THEN "running"
  ELSE IF j \in runs.good THEN "no_deliverable"
  ELSE IF j \in fresh /\ runs.bad[j] = None THEN "ok"
  ELSE IF runs.bad[j] # None THEN "failed"
  ELSE IF Pending THEN "pending"
  ELSE "missing"

Evaluate ==
  /\ at = "grade"
  /\ at' = "decide"
  /\ grade' = [j \in Jobs |-> GradeOf(j)]
  /\ todo' = Jobs
  /\ atWork' = {j \in Jobs : run[<<j, "scheduled">>] \in {"working", "written"}}
  /\ UNCHANGED <<now, work, ledger, disk, mem, runs, why, kicked, cur, restarts, looks, faults>>

-----------------------------------------------------------------------------
(* The hold policy, one job at a time (decide, actionable).                 *)

Actionable(j) == grade[j] \in {"missing", "failed", "no_deliverable"}
Class(j) == IF grade[j] = "failed" THEN ClassOf[runs.bad[j]] ELSE "other"
Signature(j) == IF grade[j] = "failed" THEN runs.bad[j] ELSE grade[j]

(* Deviation: the cap counts one restart too many.                          *)
WithinCapLoose(j) == mem[j].kicks <= KickCap

WithinCap(j) == mem[j].kicks < KickCap

LimitOver(j) == mem[j].quota_until # 0 /\ mem[j].quota_until <= now

Deferred(j) == mem[j].deferred_at

(* The failure classes that let a job through; whether the user has signed  *)
(* in again, and which version is installed, is for the world to say.       *)
LetThrough(j) ==
  CASE Class(j) = "quota" -> LimitOver(j)
    [] Class(j) = "connector" -> FALSE
    [] Class(j) = "classifier" -> Deferred(j)
    [] OTHER -> TRUE

FailedTwice(j) ==
  /\ Signature(j) # Blank
  /\ mem[j].last_signature = Signature(j)
  /\ mem[j].kicks >= 2

Deciding(j) == at = "decide" /\ j \in todo
Decided(j) ==
  /\ todo' = todo \ {j}
  /\ UNCHANGED <<now, ledger, disk, at, runs, grade, cur, looks, faults, atWork>>

Say(j, reason) == why' = [why EXCEPT ![j] = reason]

LeaveAlone(j) ==
  /\ Deciding(j)
  /\ ~ Actionable(j)
  /\ Decided(j)
  /\ UNCHANGED <<work, mem, why, kicked, restarts>>

GiveUp(j) ==
  /\ Deciding(j)
  /\ Actionable(j)
  /\ \/ ~ WithinCap(j)
     \/ LetThrough(j) /\ FailedTwice(j)
  /\ Say(j, "gave up")
  /\ Decided(j)
  /\ UNCHANGED <<work, mem, kicked, restarts>>

(* A usage limit is waited out: its reset is in the error, or an hour is    *)
(* taken.                                                                   *)
HoldForLimit(j) ==
  /\ Deciding(j)
  /\ Actionable(j) /\ WithinCap(j) /\ Class(j) = "quota"
  /\ \/ /\ mem[j].quota_until = 0
        /\ \E t \in (now + 1)..(now + 2) : mem' = [mem EXCEPT ![j].quota_until = t]
     \/ now < mem[j].quota_until /\ mem' = mem
  /\ Say(j, "usage limit")
  /\ Decided(j)
  /\ UNCHANGED <<work, kicked, restarts>>

HoldForUser(j) ==
  /\ Deciding(j)
  /\ Actionable(j) /\ WithinCap(j)
  /\ \/ Class(j) = "auth" /\ Say(j, "sign in")
     \/ Class(j) = "connector" /\ Say(j, "reconnect")
     \/ Class(j) = "version" /\ Say(j, "updating")
  /\ Decided(j)
  /\ UNCHANGED <<work, mem, kicked, restarts>>

(* Deviation: every tick defers.                                            *)
DeferAlways(j) ==
  /\ Deciding(j)
  /\ Actionable(j) /\ WithinCap(j) /\ Class(j) = "classifier"
  /\ Say(j, "deferred")
  /\ Decided(j)
  /\ UNCHANGED <<work, mem, kicked, restarts>>

Defer(j) ==
  /\ Deciding(j)
  /\ Actionable(j) /\ WithinCap(j) /\ Class(j) = "classifier" /\ ~ Deferred(j)
  /\ mem' = [mem EXCEPT ![j].deferred_at = TRUE]
  /\ Say(j, "deferred")
  /\ Decided(j)
  /\ UNCHANGED <<work, kicked, restarts>>

MayRestart(j) ==
  /\ Actionable(j) /\ WithinCap(j)
  /\ LetThrough(j) /\ ~ FailedTwice(j)

PastLimit(j) == IF Class(j) = "quota" THEN 0 ELSE mem[j].quota_until

(* The scheduler kills its copy of the job, if one runs, and starts it.     *)
Kick(j) ==
  /\ Deciding(j)
  /\ MayRestart(j)
  /\ run' = [run EXCEPT ![<<j, "scheduled">>] = "starting"]
  /\ today' = today \cup {<<j, "scheduled">>}
  /\ mem' = [mem EXCEPT ![j].kicks = @ + 1,
                        ![j].last_signature = Signature(j),
                        ![j].quota_until = PastLimit(j)]
  /\ kicked' = kicked \cup {j}
  /\ restarts' = [restarts EXCEPT ![j] = @ + 1]
  /\ Decided(j)
  /\ UNCHANGED <<owed, fresh, marker, why>>

KickRefused(j) ==
  /\ Deciding(j)
  /\ MayRestart(j)
  /\ mem' = [mem EXCEPT ![j].quota_until = PastLimit(j)]
  /\ Decided(j)
  /\ UNCHANGED <<work, why, kicked, restarts>>

-----------------------------------------------------------------------------
(* What restarts did not cure goes to the mechanic, a few looks a day.      *)

Stuck(j) ==
  /\ why[j] = "gave up"
  /\ Class(j) \notin {"auth", "quota", "version", "connector"}

AllDecided ==
  /\ at = "decide"
  /\ todo = {}
  /\ at' = "escalate"
  /\ todo' = {j \in Jobs : Stuck(j)}
  /\ UNCHANGED <<now, work, ledger, disk, mem, runs, grade, why, kicked, cur, history>>

AlreadyToday(j) == j \in looked \/ Cardinality(looked) >= MaxPerDay

Refuse(j) ==
  /\ at = "escalate"
  /\ j \in todo
  /\ AlreadyToday(j)
  /\ todo' = todo \ {j}
  /\ UNCHANGED <<now, work, ledger, disk, at, mem, runs, grade, why, kicked, cur, history>>

(* Deviation: the look is stamped when it is over.                          *)
StampLater(j) ==
  /\ at = "escalate"
  /\ j \in todo
  /\ ~ AlreadyToday(j)
  /\ at' = "looking"
  /\ cur' = j
  /\ todo' = todo \ {j}
  /\ UNCHANGED <<now, work, ledger, disk, mem, runs, grade, why, kicked, history>>

(* The look is stamped before the session is started; a stamp that cannot   *)
(* be written, or is torn, is looked at all the same, and a file that cannot*)
(* be read counts as empty.                                                 *)
Stamp(j) ==
  /\ at = "escalate"
  /\ j \in todo
  /\ \/ ~ AlreadyToday(j) /\ looked' = looked \cup {j} /\ UNCHANGED faults
     \/ ~ AlreadyToday(j) /\ looked' \in {looked, {}} /\ Miss
     \/ looked' = {j} /\ Miss
  /\ at' = "looking"
  /\ cur' = j
  /\ todo' = todo \ {j}
  /\ UNCHANGED <<now, work, ledger, slots, log, mem, runs, grade, why, kicked, restarts, looks, atWork>>

Look ==
  /\ at = "looking"
  /\ at' = "escalate"
  /\ looks' = [looks EXCEPT ![cur] = @ + 1]
  /\ cur' = None
  /\ UNCHANGED <<now, work, ledger, disk, mem, runs, grade, why, kicked, todo, restarts,
                 faults, atWork>>

AllLooked ==
  /\ at = "escalate"
  /\ todo = {}
  /\ at' = "save"
  /\ UNCHANGED <<now, work, ledger, disk, mem, runs, grade, why, kicked, todo, cur, history>>

-----------------------------------------------------------------------------
(* The state is written, the tick is logged, the alert is considered.       *)

(* The file is written in place: a write that fails leaves the old one or,  *)
(* once it has begun, one that nobody can read.  Neither is reported.       *)
WriteState(state) ==
  \/ slots' = state /\ UNCHANGED faults
  \/ slots' = slots /\ Lose
  \/ slots' = NoSlots /\ Wipe

Save ==
  /\ at = "save"
  /\ at' = "record"
  /\ WriteState(mem)
  /\ UNCHANGED <<now, work, ledger, looked, log, mem, runs, grade, why, kicked, todo, cur,
                 restarts, looks, atWork>>

RecordTick ==
  /\ at = "record"
  /\ at' = "alert"
  /\ log' = [kicked |-> log.kicked \cup kicked,
             held   |-> [j \in Jobs |-> IF why[j] # None THEN why[j] ELSE log.held[j]]]
  /\ UNCHANGED <<now, work, ledger, slots, looked, mem, runs, grade, why, kicked, todo, cur,
                 history>>

(* The reasons whose sentence has "needs you to look" in it: none.          *)
NeedsYouToLook == {}

Rest ==
  /\ at' = "off"
  /\ mem' = NoSlots
  /\ runs' = NoRows
  /\ grade' = [j \in Jobs |-> "ok"]
  /\ why' = Silence
  /\ kicked' = {}
  /\ todo' = {}
  /\ cur' = None
  /\ atWork' = {}

(* Deviation: only the slots of stuck jobs are written.                     *)
AlertWritesStuck ==
  /\ at = "alert"
  /\ slots' = [j \in Jobs |-> IF why[j] = "gave up" THEN mem[j] ELSE Untouched]
  /\ Rest
  /\ UNCHANGED <<now, work, ledger, looked, log, restarts, looks, faults>>

AlertOnStuck ==
  /\ at = "alert"
  /\ WriteState([j \in Jobs |-> IF why[j] \in NeedsYouToLook
                               THEN [mem[j] EXCEPT !.alerted = TRUE] ELSE mem[j]])
  /\ Rest
  /\ UNCHANGED <<now, work, ledger, looked, log, restarts, looks>>

Die ==
  /\ at # "off"
  /\ \/ slots' = slots /\ Lose
     \/ at \in {"save", "alert"} /\ slots' = NoSlots /\ Wipe
  /\ Rest
  /\ UNCHANGED <<now, work, ledger, looked, log, restarts, looks>>

-----------------------------------------------------------------------------
(* Time.  Half hours pass between ticks and while the mechanic looks; the   *)
(* day changes between ticks.                                               *)

NewSlot == (now + 1) % SlotTicks = 0

Pass ==
  /\ at \in {"off", "looking"}
  /\ now < LastTick
  /\ ~ NewSlot
  /\ now' = now + 1
  /\ UNCHANGED <<work, ledger, disk, tickvars, history>>

(* Rows, files, holds, counts and looks are asked for by date.              *)
NextSlot ==
  /\ at = "off"
  /\ now < LastTick
  /\ NewSlot
  /\ now' = now + 1
  /\ today' = {}
  /\ owed' = Jobs
  /\ good' = {}
  /\ bad' = [j \in Jobs |-> None]
  /\ fresh' = {}
  /\ slots' = NoSlots
  /\ looked' = {}
  /\ log' = [kicked |-> {}, held |-> Silence]
  /\ restarts' = [j \in Jobs |-> 0]
  /\ looks' = [j \in Jobs |-> 0]
  /\ UNCHANGED <<run, marker, tickvars, faults, atWork>>

-----------------------------------------------------------------------------
JobStep(j, w) == Begin(j, w) \/ Write(j, w) \/ Record(j, w) \/ Clear(j, w)

TickStep ==
  \/ TickReads
  \/ Evaluate
  \/ \E j \in Jobs :
       \/ LeaveAlone(j) \/ GiveUp(j)
       \/ HoldForLimit(j) \/ HoldForUser(j) \/ Defer(j)
       \/ Kick(j) \/ KickRefused(j)
       \/ Refuse(j) \/ Stamp(j)
  \/ AllDecided
  \/ Look
  \/ AllLooked
  \/ Save
  \/ RecordTick
  \/ AlertOnStuck

Next ==
  \/ \E j \in Jobs : Fire(j) \/ StartByHand(j)
  \/ \E j \in Jobs, w \in Ways : JobStep(j, w) \/ RunDies(j, w)
  \/ TickStep
  \/ Die
  \/ Pass
  \/ NextSlot

Spec == Init /\ [][Next]_vars

(* The scheduler ticks every half hour, time passes, every step inside a    *)
(* job has a timeout, and the scheduler does not refuse a restart for ever. *)
FairSpec ==
  /\ Spec
  /\ WF_vars(TickStep)
  /\ SF_vars(Pass)
  /\ \A j \in Jobs, w \in Ways : WF_vars(JobStep(j, w))
  /\ \A j \in Jobs : SF_vars(Kick(j))

-----------------------------------------------------------------------------
(* Properties.                                                              *)

(* A job is restarted at most kick_cap() times a slot; a tick that dies     *)
(* before it has saved, or cannot save, costs at most one more              *)
(* (_write_state: "state we cannot save costs a repeated kick"), and a file *)
(* torn in the writing, or unreadable when a tick asks, one budget more.    *)
BudgetHolds == \A j \in Jobs : restarts[j] <= KickCap + KickCap * wiped + lost

(* A restart never ends the scheduler's own run of a job that was at work   *)
(* when the tick graded it (comment in evaluate).                           *)
WorkingSpared ==
  [][\A j \in atWork : restarts'[j] = restarts[j]]_<<restarts, atWork>>

(* The mechanic looks at a job once a day, and at MaxPerDay jobs, whenever  *)
(* ticks die (comment in _stamp); a stamp that could not be written, or a   *)
(* file of stamps that could not be read, costs one look more at a job, and *)
(* at most one day's jobs more.                                             *)
LooksBounded ==
  /\ \A j \in Jobs : looks[j] <= 1 + missed
  /\ Cardinality({j \in Jobs : looks[j] > 0}) <= MaxPerDay + MaxPerDay * missed

(* What the footer calls nothing for the reader to do does end: a job held  *)
(* for a usage limit or put off once is restarted, or something else is     *)
(* said of it, or it delivers after all.                                    *)
HoldsEnd ==
  \A j \in Jobs :
    log.held[j] \in {"usage limit", "deferred"} /\ j \notin log.kicked
      ~> \/ log.held[j] \notin {"usage limit", "deferred"}
         \/ j \in log.kicked
         \/ j \in good \cup fresh
         \/ slots[j].quota_until > LastTick

(* A job that is due, left nothing behind and is not at work is restarted,  *)
(* given up on, or the day ends.                                            *)
DeadNoticed ==
  \A j \in Jobs :
    (j \notin good \cup fresh /\ bad[j] = None /\ ~ Pending)
      ~> \/ j \in good \cup fresh \/ bad[j] # None
         \/ \E w \in Ways : Working(<<j, w>>)
         \/ restarts[j] > 0
         \/ Pending

-----------------------------------------------------------------------------
(* What the footer says (summary).                                          *)

Recovered == log.kicked
Waiting(j) == j \notin Recovered /\ log.held[j] # None

(* Every job that was given up on and is still not done is named as one     *)
(* that needs the reader (comment at _NEEDS_YOU).                           *)
GiveUpIsTold ==
  \A j \in Jobs :
    at = "alert" /\ why[j] = "gave up" => Waiting(j) /\ log.held[j] = "gave up"

(* A job the footer says was restarted and has now finished has finished,   *)
(* at least once nothing of it runs any more.                               *)
FinishedIsSo ==
  \A j \in Recovered :
    (\A w \in Ways : run[<<j, w>>] = "off") => j \in good \cup fresh

(* A job that gives up is mailed about once (docstring of _alert_on_stuck). *)
GiveUpIsMailed ==
  [][\A j \in Jobs : at = "alert" /\ why[j] = "gave up" /\ at' = "off" /\ UNCHANGED faults
       => slots'[j].alerted]_vars
=============================================================================
