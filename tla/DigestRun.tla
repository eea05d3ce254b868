-------------------------------- MODULE DigestRun --------------------------------
(***************************************************************************)
(* The runs of a briefing that is mailed (digest_send.py) on a catch-up    *)
(* morning: the scheduler fires the briefings and the jobs they read from  *)
(* together, a run waits for the rows of those jobs, takes its turn on the *)
(* lock, renders, mails and leaves one row; the watcher restarts what it   *)
(* grades as failed or missing; a person may start one too.  Rows are cut  *)
(* to the newest by a read and a rewrite (run_ledger.py).  The lock is     *)
(* FileLock's, with its ages abstracted; the watcher is JobWatch's, as far *)
(* as it sees rows, markers and files.                                     *)
(***************************************************************************)
EXTENDS Integers, Sequences, FiniteSets, SequencesExt

CONSTANTS
  Feeds,        \* runs of jobs that briefings read from
  Scheduled,    \* runs of briefings that the scheduler starts
  ByHand,       \* runs of briefings that a person starts
  JobOf,        \* run -> its job
  Needs,        \* run of a briefing -> the jobs whose rows it waits for
  BriefDays,    \* the days of the cadence
  RUNS_CAP_ROWS, RENDER_ATTEMPTS, KickCap,
  MaxTrouble, None   \* bound: midnights, runs by hand and faults together

VARIABLES
  day,
  rows,         \* runs.jsonl: rows [job, on, rc], oldest first
  marker,       \* job -> the live run its marker names, or None
  lock,         \* the run that made digest.lock, "orphan" once it died, or None
  written,      \* job -> the day its briefing was last written, or None
  proc,         \* run -> [at, on, fresh, left, render, rc, seen]
  fired, kicks, \* jobs whose slot has come; job -> restarts
  mails, forced, lost, faults   \* histories: copies, runs by hand, rows overwritten, faults

vars == <<day, rows, marker, lock, written, proc, fired, kicks, mails, forced, lost, faults>>
-----------------------------------------------------------------------------
Digests == Scheduled \cup ByHand
Runs == Feeds \cup Digests
Jobs == {JobOf[p] : p \in Runs}
Room == day + forced + faults < MaxTrouble
Fault == Room /\ faults' = faults + 1

Idle == [at |-> "off", on |-> 0, fresh |-> FALSE, left |-> 0, render |-> TRUE, rc |-> 0, seen |-> <<>>]
Fired(render) == [Idle EXCEPT !.at = "fired", !.on = day, !.render = render]
At(p, where) == proc[p].at = where
Goes(p, where) == proc' = [proc EXCEPT ![p].at = where]
Ended(p, rc) == [Idle EXCEPT !.at = "ends", !.on = proc[p].on, !.rc = rc]
Ends(p, rc) == proc' = [proc EXCEPT ![p] = Ended(p, rc)]
Old == [job |-> None, on |-> 0, rc |-> 0]
-----------------------------------------------------------------------------
Init ==
  /\ day = 0 /\ rows = [i \in 1 .. RUNS_CAP_ROWS |-> Old]
  /\ marker = [j \in Jobs |-> None] /\ lock = None
  /\ written = [j \in Jobs |-> None]
  /\ proc = [p \in Runs |-> Idle]
  /\ fired = {} /\ kicks = [j \in Jobs |-> 0] /\ mails = [j \in Jobs |-> 0]
  /\ forced = 0 /\ lost = 0 /\ faults = 0

Midnight ==
  /\ Room /\ day' = day + 1
  /\ UNCHANGED <<rows, marker, lock, written, proc, fired, kicks, mails, forced, lost, faults>>

(* A slot that comes while the machine sleeps is fired later, once, or not. *)
Fire(p) ==
  /\ p \notin ByHand /\ JobOf[p] \notin fired /\ fired' = fired \cup {JobOf[p]}
  /\ \/ proc' = [proc EXCEPT ![p] = Fired(TRUE)]
     \/ UNCHANGED proc
  /\ UNCHANGED <<day, rows, marker, lock, written, kicks, mails, forced, lost, faults>>

StartByHand(p) ==
  /\ p \in ByHand /\ Room /\ At(p, "off") /\ forced' = forced + 1
  /\ \E render \in BOOLEAN : proc' = [proc EXCEPT ![p] = Fired(render)]
  /\ UNCHANGED <<day, rows, marker, lock, written, fired, kicks, mails, lost, faults>>

(* A feed that is at work may fail, or never end.                           *)
FeedWorks(p) ==
  /\ p \in Feeds /\ At(p, "fired")
  /\ \E rc \in {0, 1} : Ends(p, rc)
  /\ UNCHANGED <<day, rows, marker, lock, written, fired, kicks, mails, forced, lost, faults>>

(* On another day than its own a run decides not to run.                    *)
Start(p) ==
  /\ p \in Digests /\ At(p, "fired")
  /\ IF proc[p].render /\ day \notin BriefDays
     THEN Ends(p, 0) /\ UNCHANGED marker
     ELSE /\ marker' = [marker EXCEPT ![JobOf[p]] = p]
          /\ proc' = [proc EXCEPT ![p].at = IF p \in Scheduled THEN "gate" ELSE "turn"]
  /\ UNCHANGED <<day, rows, lock, written, fired, kicks, mails, forced, lost, faults>>

succeeded_today(j, today) == \E i \in DOMAIN rows : rows[i].job = j /\ rows[i].rc = 0 /\ rows[i].on = today

Ready(p) ==
  /\ At(p, "gate") /\ \A j \in Needs[p] : succeeded_today(j, proc[p].on)
  /\ Goes(p, "turn")
  /\ UNCHANGED <<day, rows, marker, lock, written, fired, kicks, mails, forced, lost, faults>>

NeverTimesOut(p) == FALSE /\ UNCHANGED vars                                      \* mutant
TimesOut(p) ==
  /\ At(p, "gate") /\ ~ (\A j \in Needs[p] : succeeded_today(j, proc[p].on))
  /\ Goes(p, "turn")
  /\ UNCHANGED <<day, rows, marker, lock, written, fired, kicks, mails, forced, lost, faults>>

TakesLock(p) ==
  /\ At(p, "turn") /\ lock \in {None, "orphan"} /\ lock' = p
  /\ proc' = [proc EXCEPT ![p].at = IF proc[p].render THEN "renders" ELSE "mails", ![p].left = IF proc[p].render THEN RENDER_ATTEMPTS ELSE 0]
  /\ UNCHANGED <<day, rows, marker, written, fired, kicks, mails, forced, lost, faults>>

GivesUp(p) ==
  /\ At(p, "turn") /\ lock # None /\ Ends(p, 1)
  /\ UNCHANGED <<day, rows, marker, lock, written, fired, kicks, mails, forced, lost, faults>>

(* A render may fail after it wrote, and end well without having written.   *)
Writes(p, q) == IF JobOf[q] = JobOf[p] /\ proc[q].at \in {"turn", "renders", "mails"} THEN [proc[q] EXCEPT !.fresh = TRUE] ELSE proc[q]
Renders(p) ==
  /\ At(p, "renders")
  /\ \E wrote, done, again \in BOOLEAN :
       LET next == IF wrote THEN [q \in Runs |-> Writes(p, q)] ELSE proc
       IN /\ written' = IF wrote THEN [written EXCEPT ![JobOf[p]] = day] ELSE written
          /\ \/ done /\ proc' = [next EXCEPT ![p].at = "mails", ![p].left = 0] /\ UNCHANGED lock
             \/ /\ ~ done /\ again /\ proc[p].left > 1
                /\ proc' = [next EXCEPT ![p].left = @ - 1] /\ UNCHANGED lock
             \/ /\ ~ done /\ (~ again \/ proc[p].left = 1)
                /\ proc' = [next EXCEPT ![p] = Ended(p, 1)] /\ lock' = None
  /\ UNCHANGED <<day, rows, marker, fired, kicks, mails, forced, lost, faults>>

Current(p) ==
  /\ written[JobOf[p]] # None
  /\ proc[p].render => proc[p].fresh \/ written[JobOf[p]] = day

(* One send, never tried again: refused, accepted, or accepted and the reply*)
(* lost, which is a failure to the sender.                                  *)
Mails(p) ==
  /\ At(p, "mails") /\ lock' = None
  /\ \/ ~ Current(p) /\ Ends(p, 1) /\ UNCHANGED <<mails, faults>>
     \/ Current(p) /\ Ends(p, 0) /\ mails' = [mails EXCEPT ![JobOf[p]] = @ + 1] /\ UNCHANGED faults
     \/ Current(p) /\ Ends(p, 1) /\ UNCHANGED <<mails, faults>>
     \/ Current(p) /\ Ends(p, 1) /\ mails' = [mails EXCEPT ![JobOf[p]] = @ + 1] /\ Fault
  /\ UNCHANGED <<day, rows, marker, written, fired, kicks, forced, lost>>

(* The row is appended and the file read back...                            *)
record_run(p) ==
  /\ At(p, "ends")
  /\ rows' = Append(rows, [job |-> JobOf[p], on |-> proc[p].on, rc |-> proc[p].rc])
  /\ proc' = [proc EXCEPT ![p] = [Idle EXCEPT !.at = "trims", !.seen = rows']]
  /\ UNCHANGED <<day, marker, lock, written, fired, kicks, mails, forced, lost, faults>>

(* A row that cannot be appended is swallowed; the marker goes all the same.*)
RowFails(p) ==
  /\ At(p, "ends") /\ Fault
  /\ proc' = [proc EXCEPT ![p] = Idle]
  /\ marker' = [marker EXCEPT ![JobOf[p]] = None]
  /\ UNCHANGED <<day, rows, lock, written, fired, kicks, mails, forced, lost>>

(* ...and what was read is written, cut to the newest, and the job's marker *)
(* goes, whosever it is.                                                    *)
Newest(s) == SubSeq(s, Len(s) - RUNS_CAP_ROWS + 1, Len(s))
_trim(p) ==
  /\ At(p, "trims")
  /\ IF Len(proc[p].seen) <= RUNS_CAP_ROWS THEN UNCHANGED <<rows, lost>>
     ELSE /\ rows' = Newest(proc[p].seen)
          /\ lost' = lost + Cardinality({r \in ToSet(rows) : r \notin ToSet(proc[p].seen)})
  /\ proc' = [proc EXCEPT ![p] = Idle]
  /\ marker' = [marker EXCEPT ![JobOf[p]] = None]
  /\ UNCHANGED <<day, lock, written, fired, kicks, mails, forced, faults>>
-----------------------------------------------------------------------------
(* A marker of a dead run is as none; a lock is found orphaned by its age.  *)
Left(p) ==
  /\ marker' = [marker EXCEPT ![JobOf[p]] = IF @ = p THEN None ELSE @]
  /\ lock' = IF lock = p THEN "orphan" ELSE lock

Dies(p) ==
  /\ ~ At(p, "off") /\ Fault
  /\ proc' = [proc EXCEPT ![p] = Idle] /\ Left(p)
  /\ UNCHANGED <<day, rows, written, fired, kicks, mails, forced, lost>>

Slot(d) == CHOOSE s \in BriefDays : s <= d /\ \A t \in BriefDays : t <= d => t <= s
RowsOf(j) == {i \in DOMAIN rows : rows[i].job = j /\ rows[i].on >= Slot(day)}
Succeeded(j) == \E i \in RowsOf(j) : rows[i].rc = 0
Delivered(j) == written[j] # None /\ written[j] >= Slot(day)

Unmarked(j) == FALSE                                                             \* mutant
InFlight(j) == marker[j] # None
FoundOk(j) == Delivered(j) /\ (Succeeded(j) \/ RowsOf(j) = {})
Restarts(j) == ~ InFlight(j) /\ ~ FoundOk(j)

(* A restart goes through the scheduler and kills what it started before.   *)
Kick(p) ==
  /\ p \in Scheduled /\ JobOf[p] \in fired /\ Restarts(JobOf[p]) /\ kicks[JobOf[p]] < KickCap
  /\ kicks' = [kicks EXCEPT ![JobOf[p]] = @ + 1]
  /\ proc' = [proc EXCEPT ![p] = Fired(TRUE)] /\ Left(p)
  /\ UNCHANGED <<day, rows, written, fired, mails, forced, lost, faults>>

Works(p) ==
  \/ Start(p) \/ Ready(p) \/ TimesOut(p) \/ TakesLock(p) \/ GivesUp(p)
  \/ Renders(p) \/ Mails(p) \/ record_run(p) \/ _trim(p)

Next ==
  \/ Midnight
  \/ \E p \in Runs : Fire(p) \/ StartByHand(p) \/ FeedWorks(p) \/ Works(p) \/ RowFails(p) \/ Dies(p) \/ Kick(p)

Spec == Init /\ [][Next]_vars /\ \A p \in Digests : WF_vars(Works(p))
-----------------------------------------------------------------------------
(* A slot is mailed once.  What costs another copy is a run by hand, a death*)
(* or a reply lost between the mail and its row, a row that could not be    *)
(* appended, or one that another run's trim wrote over: the send itself is  *)
(* never tried again, and the watcher restarts no run that still works and  *)
(* none that delivered and left its row.                                    *)
MailedForCause == \A j \in Jobs : mails[j] <= 1 + forced + lost + faults

(* "This always ends in a run": whatever the jobs it waits for do, whoever  *)
(* holds the lock, however renders end, a run comes to its row or dies.     *)
RunEnds == \A p \in Digests : ~ At(p, "off") ~> At(p, "off")

(* "A briefing nobody received is a failure": what the watcher finds in     *)
(* order was mailed.  It fails: a run that dies between the render and the  *)
(* mail leaves a file of the day and no row, and "the file is current".     *)
OkIsMailed ==
  \A j \in {JobOf[p] : p \in Scheduled} :
    FoundOk(j) /\ (\A p \in Runs : At(p, "off")) /\ day \in BriefDays => mails[j] > 0
==================================================================================
