------------------------------ MODULE FinanceSend ------------------------------
(***************************************************************************)
(* The weekly finance brief (src/app/finance_send.py): read the books over *)
(* a connector, claim the week, mail the brief, stamp the week, save the   *)
(* pages.  A connection that needs renewing is answered by a note, at most *)
(* one per cooldown.                                                       *)
(*                                                                         *)
(* The send ledger is one JSON file that each of claim, release,           *)
(* stamp_sent and stamp_reminder reads, changes and replaces, with no lock.*)
(* Runs are the scheduler's and those started by hand, with --force or     *)
(* without.  What the brief says, turning it off, the preview and the      *)
(* pre-fetched input are not modelled.                                     *)
(***************************************************************************)
EXTENDS Integers, FiniteSets

CONSTANTS
  Runs,         \* processes that may run finance_send
  Forced,       \* those started with --force
  Nothing,      \* no copy of the ledger in memory
  WeekDays,     \* days in a week
  DayTicks,     \* moments in a day
  CooldownDays, \* REMINDER_COOLDOWN_DAYS
  LastWeek,     \* bound: weeks after the first
  Overlap,      \* whether a run may start beside another
  MaxLost,      \* bound: sends that raise though the server took the message
  MaxFaults     \* bound: deaths and ledger writes that fail

ASSUME FinanceAssumption ==
  /\ Forced \subseteq Runs
  /\ WeekDays \in Nat \ {0}
  /\ DayTicks \in Nat \ {0}
  /\ CooldownDays \in Nat \ {0}
  /\ LastWeek \in Nat
  /\ Overlap \in BOOLEAN
  /\ MaxLost \in Nat
  /\ MaxFaults \in Nat

Weeks == 0..LastWeek
WeekTicks == WeekDays * DayTicks
Moments == 0..((LastWeek + 1) * WeekTicks - 1)

VARIABLES
  now,          \* the clock
  weeks,        \* the send ledger: week -> free, claimed or sent
  reminded,     \* the send ledger: when the last note was stamped, -1 for never
  pc,           \* run -> how far it is
  began,        \* run -> its `now`
  held,         \* run -> the copy of the ledger it has read and will write back
  end,          \* run -> what became of it
  row,          \* last row of the run ledger for finance.email
  latest,       \* the week of latest.html, -1 when there is none
  mails,        \* history: week -> briefs the server accepted
  notes,        \* history: moment -> notes the server accepted
  burned,       \* history: weeks in which a claim was orphaned by a fault
  quiet,        \* history: weeks in which a run swallowed a note as not due
  unstamped,    \* history: moments of notes that went out and were not stamped
  lost,         \* sends that raised though the server took the message
  faults        \* deaths and failed ledger writes

sent == <<mails, notes, lost>>
blame == <<burned, quiet, unstamped, faults>>
book == <<weeks, reminded>>
proc == <<pc, began, held, end>>
vars == <<now, book, proc, row, latest, sent, blame>>

Ledgers == [weeks : [Weeks -> {"free", "claimed", "sent"}], reminded : Moments \cup {-1}]
Ends == {"skipped", "sent", "failed", "unread"}

TypeOK ==
  /\ now \in Moments
  /\ weeks \in [Weeks -> {"free", "claimed", "sent"}]
  /\ reminded \in Moments \cup {-1}
  /\ pc \in [Runs -> {"idle", "look", "fetch", "build", "claim", "deliver", "release",
                      "stamp", "save", "remind", "noted", "record"}]
  /\ began \in [Runs -> Moments]
  /\ held \in [Runs -> Ledgers \cup {Nothing}]
  /\ end \in [Runs -> Ends]
  /\ row \in [rc : {0, 1}, end : Ends]
  /\ latest \in Weeks \cup {-1}
  /\ mails \in [Weeks -> Nat]
  /\ notes \in [Moments -> Nat]
  /\ burned \subseteq Weeks
  /\ quiet \subseteq Weeks
  /\ unstamped \subseteq Moments
  /\ lost \in 0..MaxLost
  /\ faults \in 0..MaxFaults

week_id(t) == t \div WeekTicks
BriefDay(t) == (t \div DayTicks) % WeekDays = 0

Init ==
  /\ now = 0
  /\ weeks = [w \in Weeks |-> "free"]
  /\ reminded = -1
  /\ pc = [r \in Runs |-> "idle"]
  /\ began = [r \in Runs |-> 0]
  /\ held = [r \in Runs |-> Nothing]
  /\ end = [r \in Runs |-> "skipped"]
  /\ row = [rc |-> 0, end |-> "skipped"]
  /\ latest = -1
  /\ mails = [w \in Weeks |-> 0]
  /\ notes = [t \in Moments |-> 0]
  /\ burned = {}
  /\ quiet = {}
  /\ unstamped = {}
  /\ lost = 0
  /\ faults = 0

\* A run is short beside a moment: the clock moves between runs.
Pass ==
  /\ \A r \in Runs : pc[r] = "idle"
  /\ now + 1 \in Moments
  /\ now' = now + 1
  /\ UNCHANGED <<book, proc, row, latest, sent, blame>>

----------------------------------------------------------------------------
(* A run up to the claim. *)

Goto(r, to) == pc' = [pc EXCEPT ![r] = to]
Finish(r, how) == /\ Goto(r, "record")
                  /\ end' = [end EXCEPT ![r] = how]

Start(r) ==
  /\ pc[r] = "idle"
  /\ Overlap \/ \A s \in Runs : pc[s] = "idle"
  /\ Goto(r, "look")
  /\ began' = [began EXCEPT ![r] = now]
  /\ UNCHANGED <<now, book, held, end, row, latest, sent, blame>>

\* Deviation: the week is handled only once it is stamped.
HandledOnlyIfSent(t) == weeks[week_id(t)] = "sent"

\* Deviation: only a send that is under way holds the week.
HandledIfPending(t) == weeks[week_id(t)] = "claimed"

\* A claim without its stamp may be a brief that went out: not tried again.
already_handled(t) == weeks[week_id(t)] # "free"

Due(r) == r \in Forced \/ BriefDay(began[r])

Skip(r) ==
  /\ pc[r] = "look"
  /\ ~Due(r) \/ already_handled(began[r])
  /\ Finish(r, "skipped")
  /\ UNCHANGED <<now, book, began, held, row, latest, sent, blame>>

Proceed(r) ==
  /\ pc[r] = "look"
  /\ Due(r) /\ ~already_handled(began[r])
  /\ Goto(r, "fetch")
  /\ UNCHANGED <<now, book, began, held, end, row, latest, sent, blame>>

Fetched(r) ==
  /\ pc[r] = "fetch"
  /\ Goto(r, "build")
  /\ UNCHANGED <<now, book, began, held, end, row, latest, sent, blame>>

\* The connector answers with nothing usable.
FetchFails(r) ==
  /\ pc[r] = "fetch"
  /\ Finish(r, "unread")
  /\ UNCHANGED <<now, book, began, held, row, latest, sent, blame>>

\* Nothing measured, figures too old, no recipient, no sender; or the fetch or
\* the build raised.
Unfit(r) ==
  /\ pc[r] \in {"fetch", "build"}
  /\ Finish(r, "failed")
  /\ UNCHANGED <<now, book, began, held, row, latest, sent, blame>>

Fit(r) ==
  /\ pc[r] = "build"
  /\ Goto(r, "claim")
  /\ UNCHANGED <<now, book, began, held, end, row, latest, sent, blame>>

----------------------------------------------------------------------------
(* The ledger: a read, then the whole file written back. *)

Writing == {"claim", "release", "stamp", "noted"}

_read_ledger(r) ==
  /\ pc[r] \in Writing
  /\ held[r] = Nothing
  /\ held' = [held EXCEPT ![r] = [weeks |-> weeks, reminded |-> reminded]]
  /\ UNCHANGED <<now, book, pc, began, end, row, latest, sent, blame>>

_write_ledger(r, copy) ==
  /\ weeks' = copy.weeks
  /\ reminded' = copy.reminded
  /\ held' = [held EXCEPT ![r] = Nothing]

Week(r) == week_id(began[r])

claim(r) ==
  /\ pc[r] = "claim" /\ held[r] # Nothing
  /\ _write_ledger(r, [held[r] EXCEPT !.weeks[Week(r)] = "claimed"])
  /\ Goto(r, "deliver")
  /\ UNCHANGED <<now, began, end, row, latest, sent, blame>>

\* Deviation: the week is kept after a send that did not happen.
NotReleased(r) == held[r]

\* Deviation: the row stays and says that it was released.
MarkedReleased(r) == [held[r] EXCEPT !.weeks[Week(r)] = "released"]

Released(r) ==
  IF held[r].weeks[Week(r)] = "sent" THEN held[r]
                                     ELSE [held[r] EXCEPT !.weeks[Week(r)] = "free"]

release(r) ==
  /\ pc[r] = "release" /\ held[r] # Nothing
  /\ _write_ledger(r, Released(r))
  /\ Finish(r, "failed")
  /\ UNCHANGED <<now, began, row, latest, sent, blame>>

\* A week with no claim left is not stamped.
Stamped(r) ==
  IF held[r].weeks[Week(r)] = "free" THEN held[r]
                                     ELSE [held[r] EXCEPT !.weeks[Week(r)] = "sent"]

stamp_sent(r) ==
  /\ pc[r] = "stamp" /\ held[r] # Nothing
  /\ _write_ledger(r, Stamped(r))
  /\ Goto(r, "save")
  /\ UNCHANGED <<now, began, end, row, latest, sent, blame>>

stamp_reminder(r) ==
  /\ pc[r] = "noted" /\ held[r] # Nothing
  /\ _write_ledger(r, [held[r] EXCEPT !.reminded = began[r]])
  /\ Finish(r, "unread")
  /\ UNCHANGED <<now, began, row, latest, sent, blame>>

\* What a fault costs: the week it was to give back, the note it was to stamp.
Blame(r) ==
  /\ burned' = IF pc[r] \in {"deliver", "release"} THEN burned \cup {Week(r)} ELSE burned
  /\ unstamped' = IF pc[r] = "noted" THEN unstamped \cup {began[r]} ELSE unstamped

\* A full disk, or the temporary file taken by another run.  Only claim lets
\* the error out; the others swallow it, and the send is over either way.
WriteFails(r) ==
  /\ pc[r] \in Writing /\ held[r] # Nothing
  /\ faults < MaxFaults
  /\ faults' = faults + 1
  /\ held' = [held EXCEPT ![r] = Nothing]
  /\ \/ pc[r] \in {"claim", "release"} /\ Finish(r, "failed")
     \/ pc[r] = "stamp" /\ Goto(r, "save") /\ UNCHANGED end
     \/ pc[r] = "noted" /\ Finish(r, "unread")
  /\ Blame(r)
  /\ UNCHANGED <<now, book, began, row, latest, sent, quiet>>

----------------------------------------------------------------------------
(* The send. *)

_deliver(r) ==
  /\ pc[r] = "deliver"
  /\ mails' = [mails EXCEPT ![Week(r)] = @ + 1]
  /\ Goto(r, "stamp")
  /\ UNCHANGED <<now, book, began, held, end, row, latest, notes, lost, blame>>

\* The transport refuses before it accepts anything.
Refused(r) ==
  /\ pc[r] = "deliver"
  /\ Goto(r, "release")
  /\ UNCHANGED <<now, book, began, held, end, row, latest, sent, blame>>

\* The server takes the message and the reply is lost: send_email raises.
ReplyLost(r) ==
  /\ pc[r] = "deliver"
  /\ lost < MaxLost
  /\ lost' = lost + 1
  /\ mails' = [mails EXCEPT ![Week(r)] = @ + 1]
  /\ Goto(r, "release")
  /\ UNCHANGED <<now, book, began, held, end, row, latest, notes, blame>>

\* Deviation: the page is saved before the mail is attempted.
Early(r) ==
  /\ pc[r] \in {"deliver", "save"}
  /\ latest' = Week(r)
  /\ IF pc[r] = "save" THEN Finish(r, "sent") ELSE UNCHANGED <<pc, end>>
  /\ UNCHANGED <<now, book, began, held, row, sent, blame>>

_write_artifacts(r) ==
  /\ pc[r] = "save"
  /\ latest' = Week(r)
  /\ Finish(r, "sent")
  /\ UNCHANGED <<now, book, began, held, row, sent, blame>>

\* Saving raises; main's own except clause calls the run failed.
SaveFails(r) ==
  /\ pc[r] = "save"
  /\ Finish(r, "failed")
  /\ UNCHANGED <<now, book, began, held, row, latest, sent, blame>>

----------------------------------------------------------------------------
(* The note that the connection needs renewing. *)

\* Deviation: no cooldown.
AlwaysDue(t) == t \in Moments

\* Whole days, as timedelta.days counts them.
reminder_due(t) == reminded = -1 \/ (t - reminded) \div DayTicks >= CooldownDays

NeedsAuth(r) ==
  /\ pc[r] = "fetch"
  /\ reminder_due(began[r])
  /\ Goto(r, "remind")
  /\ UNCHANGED <<now, book, began, held, end, row, latest, sent, blame>>

NotDue(r) ==
  /\ pc[r] = "fetch"
  /\ ~reminder_due(began[r])
  /\ quiet' = quiet \cup {Week(r)}
  /\ Finish(r, "unread")
  /\ UNCHANGED <<now, book, began, held, row, latest, sent, burned, unstamped, faults>>

send_reminder(r) ==
  /\ pc[r] = "remind"
  /\ notes' = [notes EXCEPT ![began[r]] = @ + 1]
  /\ Goto(r, "noted")
  /\ UNCHANGED <<now, book, began, held, end, row, latest, mails, lost, blame>>

ReminderReplyLost(r) ==
  /\ pc[r] = "remind"
  /\ lost < MaxLost
  /\ lost' = lost + 1
  /\ notes' = [notes EXCEPT ![began[r]] = @ + 1]
  /\ unstamped' = unstamped \cup {began[r]}
  /\ Finish(r, "unread")
  /\ UNCHANGED <<now, book, began, held, row, latest, mails, burned, quiet, faults>>

\* No account, no recipient, or the transport refuses; nothing is stamped.
ReminderFails(r) ==
  /\ pc[r] = "remind"
  /\ Finish(r, "unread")
  /\ UNCHANGED <<now, book, began, held, row, latest, sent, blame>>

----------------------------------------------------------------------------

\* Only a fetch that failed sets rc; the other failures return 1 and leave it.
rc(r) == IF end[r] = "unread" THEN 1 ELSE 0

Leave(r) ==
  /\ Goto(r, "idle")
  /\ began' = [began EXCEPT ![r] = 0]
  /\ held' = [held EXCEPT ![r] = Nothing]
  /\ end' = [end EXCEPT ![r] = "skipped"]

Record(r) ==
  /\ pc[r] = "record"
  /\ row' = [rc |-> rc(r), end |-> end[r]]
  /\ Leave(r)
  /\ UNCHANGED <<now, book, latest, sent, blame>>

\* The machine sleeps, reboots, or the watcher restarts the job.
Die(r) ==
  /\ pc[r] # "idle"
  /\ faults < MaxFaults
  /\ faults' = faults + 1
  /\ Leave(r)
  /\ Blame(r)
  /\ UNCHANGED <<now, book, row, latest, sent, quiet>>

Send(r) == \/ claim(r) \/ release(r) \/ stamp_sent(r) \/ stamp_reminder(r)
           \/ _deliver(r) \/ Refused(r) \/ ReplyLost(r)
           \/ _write_artifacts(r) \/ SaveFails(r)
Look(r) == Skip(r) \/ Proceed(r) \/ Fetched(r) \/ FetchFails(r) \/ Unfit(r) \/ Fit(r)
Remind(r) == \/ NeedsAuth(r) \/ NotDue(r) \/ send_reminder(r)
             \/ ReminderReplyLost(r) \/ ReminderFails(r)

Next ==
  \/ Pass
  \/ \E r \in Runs : \/ Start(r) \/ Look(r) \/ _read_ledger(r) \/ Send(r) \/ Remind(r)
                     \/ WriteFails(r) \/ Record(r) \/ Die(r)

Spec == Init /\ [][Next]_vars

----------------------------------------------------------------------------
(* Properties. *)

\* A week's brief reaches the reader at most once, whatever dies and restarts
\* ("A duplicate is the expensive failure"), and only a message that a server
\* took without its reply coming back can cost one more.
OneCopy == \A w \in Weeks : mails[w] <= 1 + lost

\* A week is spent only on a brief that went out, or by a fault between the
\* claim and the send or in giving the week back: a failure that certainly came
\* before delivery costs nothing.
Holds(r, w) == Week(r) = w /\ pc[r] \in {"deliver", "release"}
SpentForCause ==
  \A w \in Weeks : weeks[w] # "free" =>
    mails[w] > 0 \/ w \in burned \/ \E r \in Runs : Holds(r, w)

\* The page the watcher grades the job by proves that its week's brief was
\* mailed, with any number of runs side by side.
PageIsProof == latest # -1 => mails[latest] > 0

\* A week whose brief went out is never given back for another attempt.
SentStays == [][\A w \in Weeks : weeks[w] = "sent" => weeks'[w] = "sent"]_vars

\* Two notes lie at least the cooldown apart, unless the earlier one went out
\* and a death, a failed write or a lost reply kept it from being stamped.
Apart(t, u) == (u - t) \div DayTicks >= CooldownDays
NotesApart ==
  \A t \in Moments \ unstamped : notes[t] > 0 =>
    notes[t] = 1 /\ \A u \in Moments : t < u /\ notes[u] > 0 => Apart(t, u)

\* What a row of the run ledger says is so: rc 0 stands for a brief that was
\* sent or that was not owed.
RowIsSo == row.rc = 0 => row.end \in {"sent", "skipped"}

\* A run that finds the connection expired leaves the reader told in that week.
ToldThatWeek == \A w \in quiet : \E t \in Moments : week_id(t) = w /\ notes[t] > 0

----------------------------------------------------------------------------
(* A week is open, held by the run that is about to send or to give it back,*)
(* or told.                                                                 *)
Phase ==
  [w \in Weeks |-> IF weeks[w] = "free" THEN "open"
                   ELSE IF \E r \in Runs : Holds(r, w) THEN "held" ELSE "told"]

M == INSTANCE ClaimedMail WITH Things <- Weeks, phase <- Phase, copies <- mails, doubts <- lost

(* The finance brief is a claimed mail: it goes only while its run holds    *)
(* the week, and a week that was stamped, or whose run died in the send, is *)
(* not mailed again (claim, release, stamp_sent).                           *)
KeepsClaims == M!ClaimSpec
=============================================================================
