# Verification of Project Van Gogh

TLA+ models of the parts of Van Gogh where several processes meet on shared
files, the TLC runs that check them on small instances, and proofs, checked by
TLAPS, that the most important properties hold for every instance.

- `PROJECT.json` maps every definition to the lines it models and lists runs,
  hazards, findings and theorems.
- `tlc -config WatchLive.cfg MCJobWatch.tla` repeats a run (PROJECT.json names
  the module of each cfg), `tlapm JobWatchProofs.tla` checks proofs. Modules
  `MC...` hold the instances for TLC, modules `...Proofs` the proofs.
- Components that share no file are checked in one TLC run where that saves one:
  the `MC` module has a variable `part` (or `job`) that the initial state picks
  and no step changes, and every other component stands still.

## 1. The system

Van Gogh is a set of Python programs around a vault of markdown files. No
database and no long-lived coordinator exist: a scheduler (launchd, Task
Scheduler) starts short processes, a local web server (the Workbench) runs
while the user has it open, and everything they share is a JSON file that one of
them reads, changes and replaces. What can go wrong is therefore mostly of four
kinds: two processes in the same read-modify-write, state that was read before a
model call of minutes and used after it, a death between doing something in the
world (a mail, a build) and writing down that it was done, and a retry of what
was done already.

| component | state it keeps | operations | what makes it correct |
|---|---|---|---|
| ticket ledger (`workbench_store`) | `tickets.json`, `ratings.jsonl`, a lock file | propose, add_suggestion, create, transition, comment, edit_dod, pin, rate, attach | moves follow the table; a refresh never loses what the user left; one writer at a time |
| Workbench server (`workbench_serve`) | jobs in memory, threads | routes of `_ticket_action`, chat, stage, build, advisor and refresh workers | claimed work ends in an outcome; what is built is what was approved |
| advisor, consent (`advisor`) | tickets whose source is the advisor | daily look, yes, no, restage, execute | asked before done, done once, a no is final, a yes is taken up |
| advisor, replies (`advisor`) | `advisor.json`: day, batches, seen messages | register_batch, collect_answers, propose, send_draft | a numbered list that was mailed is listened for; an answer is acted on once |
| watcher (`job_watch`) | `job_watch.json`: kicks, holds, fingerprints per slot | evaluate, actionable, kick, tick, alert | a dead job is restarted, at most a capped number of times; the reader is told |
| run ledger (`run_ledger`) | `runs.jsonl`, in-flight markers | record_run, trim, mark_started, wait_for_dependencies | a run leaves a row; a working job is not restarted; a wait ends |
| mechanic (`repair`) | `repair.json`: looks per day | run | two looks a day, one per job, across deaths |
| digest sender (`digest_send`) | `digest.lock`, rendered files | wait, render, retry, send, record | one render at a time; a briefing is mailed once; a run ends |
| drafts (`draft_email`, `send_email`) | `draft_ledger.json`, the Drafts folder | draft_once, send_draft | a reply goes out once |
| Notes (`note_watch`, `note_send`) | calendar snapshot, sent ledger | tick | no reply is lost, none is told twice |
| preps (`prep_email`, `prep_send`) | sent ledger | tick | one mail per meeting, before it |
| finance brief and scorecard (`finance_send`, `kpi_report`) | claims per week | claim, deliver, release, stamp | never mailed twice in a week; a failed send is given back |
| install (`setup_flow`, `setup_state`, `warm_start`, ...) | checklist, answers, stamp | next, skip, nudge, finish, adopt | an interrupted install resumes and ends; the stamp tells the truth |
| to-do completion (`done_judge`, `completion_scan`, ...) | state per item, undo book, list of the day | judge, close, expire, undo, sync | an item the user reopened is not closed again |
| vault audit (`vault_gardener`, `audit_ledger`, `audit_evidence`) | `audit_ledger.json`, the last report | sweep, score, check of the report | what is called fixed was gone; the score lies where it was said to |
| memory mirror (`memory_sync`) | a copy of the memory folder | copy | one way, can be repeated |
| meetings (`meeting_ingest`) | pages, to-do lines, deep-read queue, history | filing at setup, hourly, in quiet hours | one set of to-dos a meeting; owed transcripts are read; the backlog ends |
| pool (`fanout`) | outcomes of one call, in memory | run | no item is lost or done twice; deferred means capped |
| scan and page (`week_review`) | saved scan, done log, `intake_avoided.json` | scan, classify, gate, reuse, carry forward, front page | no waiting thread vanishes; the page holds the best of it |
| travel (`travel`) | ledger of notices and of route calls | collect, print, commit | a notice is given once, and was given if the ledger says so |
| plugin update (`plugin_update`) | stamps of what is published, answered, shown | check, ask, decline, apply, what's new | asked once per version, never forgotten |
| connectors, contacts, voice, Vincent, quotes | caches and reports | fetch, format | data shaping; few states |
| scheduler, client (`scheduler_setup`, `host`, ...) | OS schedules | sync, spawn | the table and the OS agree |

How they meet: the Workbench server, the advisor's command line and the
advisor's tick (run by the watcher) all write `tickets.json`; briefings write
it (propose) and `advisor.json` (register_batch), which the tick also writes;
every job writes `runs.jsonl`, which the watcher and waiting jobs read; the
watcher starts jobs through the OS scheduler and the mechanic as a child. The
check-off, the filing of meetings and the user all edit the two vault files that
hold to-dos; briefings read them. Briefings, suggestions and the Workbench page
meet on the draft ledger and in the mail provider's Drafts folder.

`PROJECT.json` lists all components, including those that are not modelled and
why, and the hazards, each at its line.

## 2. What is modelled

### TicketLedger

The ledger, one operator per function of `workbench_store.py`. The lifecycle
table `TRANSITIONS` is the function `Transitions`; `Legal(t, to)` is the test
that makes `transition` raise. Variables: `st` (lifecycle state, `"absent"` when
there is no row), `staged` and `delivery` (the plan waiting for a nod, the plan
the delivery was made from), `marks` (comment, dod, pin, rating: what of the
user's own the row carries). Each function runs under the ledger's lock from its
read to its atomic replace and is one step. `Tickets` are split by how a row can
come to exist: `Briefing` ids come from `propose`, `Advisor` ids from
`add_suggestion`, the rest from `create`; `Email` are the types no builder
handles. The queue's order, titles, texts and time stamps are left out.

### Workbench

Who calls the ledger, and when. `Threads` are request handlers and workers of the
server, `Terminal` is `advisor.py --approve/--dismiss`, `Watcher` the advisor's
tick. A worker is a program counter (`pc`), its ticket (`tk`) and the plan it
holds in memory (`hand`); each step ends where the code next calls the ledger, a
model, a builder or a mail service.

| code | definitions |
|---|---|
| `_ticket_action`, `/api/tickets`, `/api/propose` | `PageComment`, `PageMark`, `PageDismiss`, `PageRestore`, `PageStage`, `PageApprove`, `PageCreate`, `Refresh` |
| second half of a comment on a suggestion | `CommentNoted` |
| `_stage_from_chat` | `PageChat`, `ChatMove` |
| `_stage_worker` | `Planned`, `Failing` |
| `_build_worker` | `BuildRead`, `BuildClaim`, `Built`, `Checked`, `Failing` |
| `advisor.execute` (from `_advisor_worker`, the terminal, the tick) | `ExecuteClaim`, `ExecuteDo`, `ExecuteDeliver`, `Failing` |
| `advisor.apply_answer` | `Hear`, `AnswerYes`, `AnswerNo` |
| `advisor.tick`: `_restage`, `collect_answers`, `run_approved`, `propose` | `TickStart`, `Restage`, `RestageEnd`, `TickAnswer`, `AnswersEnd`, `TickExecute`, `WorkEnd`, `Suggest`, `TickEnd` |
| death of the server, the terminal, the watcher | `ServerDies`, `TerminalDies`, `WatcherDies` |

A model call that fails, a plan that does not parse and a build that raises are
the `Raise` alternatives, a move that the table lacks or whose write fails
(`faults`, at most `MaxFaults`) is `Refused`; what follows is the code's own
`except` clause, `Failing`, whose own write may fail too. The work of a suggestion
can raise with nothing done, or late: the file is built and does not verify, one
page is written and the next is not, the draft is made and its record is not
(third alternative of `ExecuteDo`), or the delivery cannot be written
(`ExecuteDeliver`). The ticket is put down as failed all the same, and one more
yes has the work done once more. `nod`, `finished` and `lapsed` are history
variables: the plan each yes was given to, how often the work of a ticket was
carried out, whole or in part, and how often that was put down as failed.

`Routes` says which of the server's routes clients call. The server offers more
than its pages do: `workbench_static/app.js` calls comment, dismiss and approve,
the briefing page the chat; `dod`, `pin`, `rate`, `restore` and `stage` exist in
`_ticket_action` and no shipped page reaches them. Runs and theorems say which
routes they assume.

### Consent

What the above promises about one suggestion, without the processes: unasked,
asked, approved, working, delivered, failed, declined; nothing is carried out
before a yes, one yes has the work done at most once, by one process at a time,
what is delivered was done and is never asked about again, a no is final. Work
that failed may have been done: it takes another yes to do it again. A process may
die (`Abandon`) and its work stays where it is: the code has no recovery for a
ticket left `running`, and the abstract specification says so rather than hide
it. `Workbench` is shown to implement it with
`C == INSTANCE Consent WITH phase <- Phase, doing <- Doing, carried <- CarriedOut`.

### AdvisorReplies

How the advisor listens. A numbered list is registered in `advisor.json` under a
reference (`Codes`) and mailed; messages that answer it (`Messages`, `About`)
are claimed in the batch's `seen`, written, and acted on. `file` is the state
file, `mem` the tick's copy, `bmem` a briefing's copy: nobody locks it, and
whoever writes writes a whole copy back, over what another wrote meanwhile
(`fresh`: since whose reading nobody did). `Reads` is `_read_state`, which takes a
torn or unreadable file for an empty one; `Writes` is `_write_state`, in place,
its failure swallowed: the copy, the old file or nothing is there after it.
`losses` counts the readings and writings that lose something, `wounded` are the
lists not registered again since. `TickRead`, `Forget`, `Fetch`, `Claim`,
`Apply`, `FetchEnd`, `CollectEnd` are `collect_answers`; `Look`, `Stamp`, `LookEnd`, `Mail` are `propose` and `_send_batch`; `BriefingReads`, `BriefingRegisters`,
`BriefingMailed` a briefing that prints the waiting suggestions. What an answer
does to a ticket is in Workbench (`TickAnswer`, `AnswerYes`, ...): here it is
acted on, or not; the SEND of a draft is in DraftSend.

### JobWatch

The watcher, the run ledger and the mechanic, with the jobs they watch. A job is
a process that starts (`Begin`: `mark_started`), writes its file (`Write`),
leaves its row (`Record`), clears its marker (`Clear`), or dies; `Fire` is the
scheduler, `StartByHand` a person. A tick reads its state and the rows
(`TickReads`), grades every job (`Evaluate`, `GradeOf`), decides (`Decided`:
`GiveUp`, `HoldForLimit`, `HoldForUser`, `Defer`, `Kick`, ...), calls the mechanic
(`Stuck`, `Stamp`, `Look`, `Refuse`), writes its state (`Save`), the log
(`RecordTick`) and the alert (`AlertOnStuck`). Both state files are written in place
by functions that swallow every error, and read as empty when they cannot be read or
parsed (`WriteState`, `TickReads`, `Stamp`, `Die`): `lost`, `wiped` and `missed` count
what that cost. `Recovered` and `Waiting` are the two
halves of the footer. `ClassOf` gives a failure detail the class that
`failure_class` gives it. One slot a day is modelled; days change between ticks.
Pollers, the twelve hours after which a marker is not believed, the trimming of
`runs.jsonl` (DigestRun has it) are left out.

### FinanceSend

`finance_send.main` and the functions it calls, one action per step that another
run could come between. Each ledger write is `_read_ledger` and then a write of
the changed copy. `Runs` are processes, `Forced` those with `--force`; `Overlap`
says whether one may run beside another (the scheduler starts one at a time, a
person may start another). `ReplyLost` is a send that raises although the server
took the message. `mails`, `notes`, `burned`, `unstamped` and `quiet` are
history: what the reader got, what faults cost, when a note was suppressed.

`ClaimedMail` is what the send promises without the ledger and the runs: a thing to
tell is open, held or told; a mail goes only while it is held; the claim is given
back or spent; what was told is never told again. A message taken without a reply
leaves a doubt, and each doubt may cost a copy. The mapping is `Phase`: a week that
is not free is held while a run is in the send or gives it back, told otherwise.

### FileLock

The lock file of `workbench_store._locked` and of `digest_send.digest_lock`, which
are one protocol with two endings: at its deadline the store goes ahead without
the lock (`GoesAhead`), the digest raises. Looking at a file, finding it old and
removing it are separate steps (`Exists`, `SeenOld`, `Break`), and whoever
removes removes what is there. Time is the age of the file and of each wait.
TicketLedger's operations are single steps of Workbench because of this lock;
`Exclusive` is that assumption, and the section on proofs says when it holds.

### DigestRun

One slot of the mailed briefings on a catch-up morning: `Feeds` are the jobs they
read from, `Scheduled` the scheduler's run of each, `ByHand` a person's. A run goes
`Start` (marker), `Ready` or `TimesOut` (the wait for the dependencies' rows),
`Current` (a file of the day is reused), `TakesLock` or `GivesUp`, `Renders` with
its attempts, `Mails`, `record_run` and, in a step of its own, `_trim`: rows are
read and rewritten, and one appended between is lost. An append that fails is
swallowed and the marker goes all the same (`RowFails`). `Restarts` is the watcher,
reduced to what it grades by (rows of the slot, the marker, the file); JobWatch
has the rest. `mails`, `forced`, `lost`, `faults` are history.

### DraftSend

The draft ledger and everyone who drafts or sends by it. `draft_once` reads,
`Made` is the provider (which may make the draft and not be heard), `save_ledger`
writes the whole copy back: nobody locks it. A ticket that drafts keeps the id
(`Delivers`). `Press` is the page's send, `Answer` and `attach` those of the
advisor (checked and stamped before the send), `send_draft` the provider's, which
refuses what is no draft any more; `UserSends` and `UserDeletes` are the user in
the Drafts folder. `overlaps` counts ledgers read while another writer held its
copy.

### WeekReview, FrontPage

WeekReview follows a mail thread from the account it is read from to the section
of a briefing it ends in: `fetch_deals`, `fetch_inbox`, the filters, the judge
(`finalized`), the done log and last week's file (`Returning`, `Carried`), the
saved scan that a briefing reuses (`window_sections`), the lures that are shown
once. Accounts, lookups, the judge and the sidecar may each fail, and a listing that
ends after its one page or a thread whose own read fails leaves a thread out without a
word (`unread`). FrontPage is
the pure algorithm that ranks what is open and folds the rest: businesses and
functions by word, ranks as tuples, the cap, the one quiet item, counts and
slices. Texts are sets of words.

### Install

The checklist of nine boxes: `run_next` runs the phases in order until one asks,
waits, fails or finishes (`step_...` operators), re-checking each box on disk
(`verify`, `check`). Beside it the background jobs (`Started`, `JobsEnd`), the two
briefing agents, the reminder of 9:00 (`NudgeLoads`, `finish_machine_boxes`: it
loads the list, works for minutes, writes it back), `skip_box`, `finish`, `adopt`
of an installation older than the checklist, a session that dies, and things on
disk that vanish.

### NoteTick, PrepTick, DoneJudge

NoteTick is the Note of every fifteen minutes: a look-back (`Since`) into a
mailbox that lists late, the calendar against its snapshot, the ledger and its
pruning, the daily cap, folding, holding during a meeting, failed sends, deaths,
listings that leave a message out, both files written in place and read as empty
when torn or unreadable (`Takes`, `Saves`, `Done`).
PrepTick is the prep mail in both modes; the session that writes a prep finds
its meeting again by title. DoneJudge is the check-off: a run holds the state it
read while it judges batch by batch, then writes the files in the code's order
(`_mark_by_id`, `SyncHere`, `_restore_strays`, `write_undo`, `write_state`,
`write_latest`); the user edits, undoes and reads briefings meanwhile.

### MeetingIngest, Fanout

MeetingIngest files a meeting as page, lines and marks, at setup (with the
deep-read queue for what time did not allow), every hour (the queue is drained,
first filings retired) and in quiet hours (the history). Every write is whole;
a death can fall between any two. Fanout is the pool `fanout.run`: threads that
take items from a cursor, retry, meet the usage cap, and the lists made at the end.

### Travel, PluginUpdate

Travel is what two kinds of briefing say of flights and meetings in other
cities, on the ledger they share: each reads it, asks for routes, prints, and
writes its copy back; an error while it collects leaves it without notices
(`Nothing`). PluginUpdate is the stamp that chats and jobs of different versions
write: published, declined, applied; and the stamp of the release notes. The
stamp has no lock: a check and an answer each read it (`check`, `_stamp_answer`)
and write the whole of it a step later (`_write_stamp`), in place, over whatever
is there by then. A stamp that cannot be read, or is torn, is an empty one
(`_read_stamp`); a failed write is not heard of. `answered` follows the newest
recorded answer that is not lost, `again` what was asked after it was answered.

### VaultAudit, AuditScore

VaultAudit is what the audit says of a finding from one sweep to the next: the
scans that ran (`_scans_run`), what they found (`Found`), the ledger moved on
(`advance`: new, open, reopened, resolved, archived, not rechecked, no longer
applicable), the table cut at its cap (`shown_ids`, `ledger_md`), the report a
model pastes it into (`Writes`), and the user who changes pages, folders and the
configuration between sweeps; pages, logs and sidecars that cannot be read, a
ledger that is lost and a sweep that dies before it prints are faults. A scan
whose folder is there counts as run, whatever in it could not be read: such a
finding is called fixed, and `unread` says which. AuditScore is the arithmetic:
eleven rows decided by code (`Codes`), the limits set before a model fills the
other nine (`apply_caps`), and the total that the check of the filled report
expects (`Expected`).

### MailOut, Vault, Correspondence, LockAndRuns

The compositions, one for the mails that go out, one for what keeps the vault
and is told about it, one for what the advisor and the user write to each other,
one for the lock file beside the runs that take it.
Each takes in components that share no file: a variable (`part`, `job`) names the
component a behaviour is about, no step changes it, and the others stand still.
They give every component its own names for constants and variables, state what
the runs check, and are what the theorems of section 4 are about. The
assumptions on the constants of several components stand here by name
(`PrepAssumption`, `NoteAssumption`, `Retained`, `OwnNames`, `DraftsAssumption`,
`DigestConstants`).

Operators commented "mutant" or "Deviation" are altered versions of the definition
that follows them. No specification uses them: substituted for the original they
break the property they were written for, which shows that the property can
fail.

## 3. What the runs check

| run | instance | question |
|---|---|---|
| WorkbenchSuggestions | 2 suggestions, 1 thread, terminal, tick with one reply, 1 death, 1 failed write, 1 late raise each | one hand; done once, and once more at most for work put down as failed; the refinement of Consent, a no to a suggestion is final |
| WorkbenchLiveness | 1 suggestion, the pages' routes and those that mark or restore, the same faults, fair | a yes is taken up, a commented suggestion comes back |
| WorkbenchPage | a briefing thread and a deck, 2 threads, the pages' routes and `stage`, 1 death, 1 failed write, fair | a refresh keeps what the user marked; what was dismissed stays so, whichever planner comes back; claimed work ends with an outcome |
| StalePlanBuilt | 1 deck, 2 plans, the pages' routes | violated: see below |
| Replies: lists | a list, 2 messages, 3 days, a briefing beside the tick, 1 death, 1 loss (a torn, unreadable or unwritten file, a stale copy written over it, a list that expired printed again), fair | a mailed list is listened for unless something was lost since; a message is acted on, once, and once more at most for a loss |
| Replies: drafts | 2 replies, a briefing and a suggestion that draft, a press and an answer that send, the user, 3 drafts, 1 fault or overlap | a reply goes once, but for a fault or an overlap |
| WatchByHand | 1 job also started by hand, 2 days, 1 fault (a death, a write that fails or tears, an unreadable file) | the restart budget and the mechanic's, across faults |
| WatchLive | 1 job, limits and flapping failures, fair | a run at work is spared; holds end; a job that left nothing is noticed |
| Mails: brief | a scheduled and a forced run, one at a time, 2 weeks, 1 lost reply, 2 faults | one copy a week but for lost replies; a week is spent for a cause; the page proves a mail |
| Mails: scan | 17 kinds of thread, 2 at a time, last week's file, 5 modes, 2 runs, 1 fault (a thread left out among them) | every waiting thread that was read from its inbox is accounted for |
| Mails: page | 12 kinds of item, 4 or 5 open, a cap of 3 | the best comes first, late items are never cut |
| Mails: Note | 2 mails, a daily meeting and another, 5 moments, 1 fault (also a file torn, unwritten or unreadable, a message left out) | no reply is lost but for a listing, a lost state or its own note; none told twice but for a fault |
| Mails: preps | 3 meetings, two at once, each or daily, 1 move, 1 fault | none is mailed twice |
| Lock: lock | 3 processes, 1 death, holds up to the stale age, fair | until a death the lock excludes; every wait ends |
| Lock: digest | one feed, Morning Coffee by schedule and by hand, rows cut at 2, 1 trouble, fair | a slot is mailed once but for named causes; every run comes to its row |
| Install | 1 account, new or older than the list, 1 fault, 1 reminder, fair | no stamp lies when written; the install ends but for three named dead ends |
| Vault: filing | 3 meetings, two of one title and day, one unreadable, 1 touch, 1 fault, fair | one set of to-dos; owed transcripts stay queued; the history ends |
| Vault: pool | 3 items, 3 threads, 2 attempts | deferred means capped |
| Vault: check-off | 2 to-dos in the same words, 2 days, 1 edit, 1 fault | what was put back stays |
| Vault: findings | 2 lines of one log (the second is cut), a project page and a pick, all there or none at first, 3 days, 2 changes, 1 fault | what is called fixed was gone |
| Vault: score | 144 states of a vault, 54 ways to fill the judged rows | the total the check accepts is in the range that was printed |
| Vault: notice | a chat and a job, 2 versions, 1 fault | a no is a no, and a question owed stays, but for what a lost stamp or an unlocked write costs |
| Vault: travel | 2 briefings, 3 days, 2 flights and a town, 1 move | a notice is given once, and what is held back was said |
| AuditTable | the findings alone, a table of 2 rows | violated: see below |

Bounds. `Replies` (answers a tick finds), `MaxCrashes`, `MaxFaults` and `MaxLapses`
(times the work of one ticket raises late) bound what would
otherwise repeat for ever; the two suggestions of WorkbenchSuggestions are
interchangeable and declared so (`SYMMETRY`, the run has no liveness). One death is enough for each property, since a second
death can only strike a state the first left idle or running. Two suggestions
are needed for the walk over `todo` and `PerTick`; a deck and a briefing thread
are the two kinds of row that `propose`, planners and builders treat
differently; two threads are the least for a race within the server. One plan is
enough except where a property tells an old plan from a new one.

In the other modules: `LastDay`, `LastTick`, `LastWeek`, `NoteEnd`, `PrepEnd` end
time, chosen so that a list expires, a second day begins, a cooldown or a
retention runs out; `MaxCrashes`, `MaxLost`, `MaxFaults`, `MaxTrouble` bound
deaths, lost writes and failures. A week of FinanceSend has two days and a
cooldown of two: their equality is what matters, and the rounding of parts of a
day is left to the proof, which is for any length of day. WatchByHand has one
job, so that the mechanic's bound over several jobs rests on the proof as well.
The ages of FileLock are small with the same order as the code's: `Wait` below
`Stale` for the store, equal for the digest. The scan has one subject at a time
among done items and last week's file. Travel is checked without overlapping briefings
(`Overlap`); with them the property fails, see below. PluginUpdate's two versions
are enough for a question, its answer and a check between the two; that a third
version is asked about anew rests on the proof. Rows in DigestRun are
cut at two, so that one run's trim can drop another's row; the wait and the lock
may time out at any moment. DraftSend has one press, one answer and three drafts:
a second draft of one reply and a draft of another.

Fairness. `WF` on each worker's step: a started thread runs on, and its calls
have timeouts. `WF` on each step of the tick: the scheduler starts the watcher
every half hour and the watcher runs the advisor's tick at its end. Nothing is
assumed of the user, of the mail (`TickAnswer`) or of the daily look
(`Suggest`): they may never come.

AdvisorReplies: `SF` on the tick's steps, because a briefing that is registering
keeps a tick from starting and briefings are rare beside ticks; `WF` on the
registration itself; `SF` on a look into the Sent folder that succeeds: it may
fail many times, not for ever. JobWatch: `WF` on the tick's and the jobs' steps;
`SF` on the passing of time, which is enabled between ticks and while the
mechanic looks, and on a restart that the scheduler accepts. FileLock: `WF` on
steps and on time; `SF` on reaching the deadline, because a look that finds the
file gone skips the deadline test, and without it other processes could take
turns at exactly those moments for ever; `Ask` is fair in the run, so that
processes do ask again. DigestRun: `WF` on a run's own steps, each of which has a
timeout in the code; none on the feeds, which may hang. Install: `WF` on the
client who calls again, answers, and on jobs that end; skips, reminders and
deaths owe nothing. MeetingIngest: `WF` on the prefetch, on the hour and on a
started run. The other modules claim no liveness. Where several components share
a run, each conjunct of fairness carries the `part` it belongs to.

Replies has one list, so that the tick and the briefing can be interleaved in
full; two lists (22 million states, the safety properties alone) and two losses were gone
through once, with the same result. `AnswerHeard` speaks of runs in
which no tick died and nothing was lost.

`CHECK_DEADLOCK FALSE` is set where the system comes to rest: after the last
tick, day or week, when the install is over, when the slot's runs have ended.

Also stated, and found to hold by TLC on the same instances, without being part
of a run: `ReuseIsFresh` (a reused scan lists what a fresh one would), `DoneStays`
and `ToldOnce` of WeekReview, `Reopens` of DoneJudge (an undo opens every box the
close ticked), `NoneMissed` of PrepTick (one failed prep costs no other),
`WorkSettles` of a suggestion (in WorkbenchLiveness),
`WorkIsReported`, `SentStays`, `NotesApart`, `Undisturbed`, `OneOutcome` and
`ToldOfCapOnce`; the last six are proved.

### Where code and documents disagree

**StalePlanBuilt** is a run that TLC finds violated. `_build_worker` reads the
plan before it claims the ticket. A build that starts late can claim on a second
nod and build the plan that was commented on.

**AuditTable** is a second one. The table of findings takes in one row of every
status its cap would hide and drives the last row out for each; `validate_report`
asks the report for the first rows of the uncut list ("Only the rows the
renderer actually emitted are required", audit_ledger.py:536). A report that
pastes the table as it was told to is refused with `ledger_row_missing`.

The modules state further promises of comments and docstrings that the code does
not keep. No run of the project repeats them; each is found again by checking the
property named here with the constants given, everything else as in the run.

| property | with | what TLC shows |
|---|---|---|
| `IntentKept` | WorkbenchPage, `Routes <- AllRoutes` | `propose` protects only rows whose state is in `USER_TOUCHED`: one still `proposed` is pruned though it was pinned, rated, edited, or dismissed and restored |
| `StagingIsPlanned` | WorkbenchPage | a comment drops a staged deck to `staging`, said to mean "being planned again"; nothing plans it |
| `WorkingSpared` | WatchLive, `ByHand = TRUE` | `record_run` clears the in-flight marker whoever wrote it, so a hand run that ends beside the scheduled one exposes that one to a restart |
| `GiveUpIsTold`, `FinishedIsSo`, `GiveUpIsMailed` | WatchLive | the footer drops the give-up of a job restarted today and reports every restarted job as finished; the alert waits for a sentence no code writes |
| `OneCopy` | Mails, `Overlap = TRUE` | a forced run beside the scheduled one mails a second copy |
| `RowIsSo` | Mails | all failures after the fetch leave a row with rc 0 |
| `ToldThatWeek` | Mails, `DayTicks = 2` | the cooldown of seven whole days is missed by part of a day when a run starts earlier in the day than the week before |
| `OneWriter` | Lock | a waiter that saw a dead run's lock removes the lock another waiter has just made |
| `GaveUpIsSo` | Lock, `GoesAhead = FALSE`, `Wait = 2`, `MaxDeaths = 0` | a digest that gives up says a run held the lock too long; it was several in turn |
| `WaitEnds` | Lock, `Removable = FALSE` | a left-behind lock that cannot be removed is waited for without the deadline |
| `OkIsMailed` | Lock | a run that dies between render and mail leaves the file of the day and no row; the watcher reads "the work is done either way" (job_watch.py:509) and nobody is mailed |
| `StampedWasSent` | Replies | the ticket is stamped before the send; after a refused send every later SEND is answered "was already sent" |
| `DraftIsThere` | Replies | a suggestion says its draft "was already in your Drafts folder" for one that was sent or deleted long ago |
| `NoneHoldsBack` | Vault | "so one unreadable call never holds the rest back": while such a call is among the newest, no hour is quiet and the history stands still |
| `ClosedByItsId` | Vault | "A line with an id is only ever closed by its id" (completion_scan.py:549); the sync of a briefing closes a twin by its words |
| `MoveIsReal` | Mails | a note that a meeting moved when only another of that title left the window (note_watch.py:295) |
| `AboutIt` | Mails | the prep mailed under one title may be about another meeting whose title contains it |
| `BeforeTheCall` | Mails | a session of minutes lets a prep arrive after its meeting began |
| `NumbersAgree` | Mails | the opening sentence counts items the page has folded |
| `PartnerStaysRed` | Mails | the gate demotes an allowlisted partner's cold thread that the judge called no priority |
| `SkipCompletes` | Install | a skip that closes the last box leaves the list when an older note of a usage limit is on it (setup_flow.py:2827) |
| `Told` | Vault, `Overlap = TRUE` | two briefings at once lose each other's notices: one is given again |
| `NotesReach` | Vault | a second update before a chat loses the notes of the first ("keeps returning until a briefing actually renders it") |
| `BackIsReopened` | AuditTable | "one that comes back is reopened": a fixed finding whose scan did not run in between comes back as open |
| `EachStatusShown` | AuditTable | "every status the summary line mentions gets at least one visible row": of two that the cut hides, the second drives out the first |
| `LopsidedIsHeld` | Vault | the limits "stop a lopsided system scoring well": they are set by what a part may still reach, and a part the model then leaves low is not held |
| `ShownWasShown` | Vault | the version marked as shown is the one on the stamp minutes later |

That a lost reply costs a second copy of the finance brief is part of `OneCopy`
itself (`1 + lost`): `main` gives the week back after every exception of the
send, also after one the server had taken. `MailedForCause` counts causes the
same way: a digest whose reply was lost is "deliberately not retried", but its
failed row makes the watcher restart the job; a row that could not be appended, or
that another run's trim dropped, does too. `GoesOnce` counts overlaps of the draft ledger: two writers
lose each other's entries, and the page offers a sent draft again (the provider
refuses it).

Seen while modelling, and kept in the models rather than stated as properties:

- *Notes.* A tick that could not mail "tries again", but its last_tick moves on
  unless everything was held; a fetch that failed returns nothing and moves it
  too, and so does one that lists a page of 50 and leaves the rest, or skips a
  message it could not read: `Noticed` excepts those (`missed`). A state file that
  was torn is read as no last tick, and what came before the look-back of twenty
  minutes is passed over. A ledger that is lost makes every reply in reach untold,
  and the day's folded lines leave the page at its next patch. A mail that the
  server took and that raised leaves no row. A failed read of the calendar
  announces every meeting ahead as off.
- *Preps.* The daily mode marks the day done when the calendar could not be
  read; a run that crosses midnight marks the next day.
- *Check-off.* An undo that lands during a run loses its pin when the run writes
  (PutBackStays excepts it, `raced`); a close that failed is not tried again until its evidence
  changes or a week has passed; a death between the ticks and the undo book
  leaves closes without an undo; past the batches kept there is none.
- *Filing.* A death between page and promotion loses the to-dos for good; one in
  the drain between taking lines out and promoting leaves none; by hand, a
  forced filing under the same title and date overwrites another's page.
- *Install.* A dead scan is never started again; a token that expires during the
  install ends in a question that is not asked again (`Stuck` names these); the
  reminder saves the list it read minutes before.
- *Scan.* The pending inbox returns nothing on failure without an error line,
  while the opening sentence promises that "the run would have said so above";
  a thread beyond the page that is listed (50 and 100 threads, 100 and 999 messages),
  or whose own read fails, is left out the same way, of an account that counts as read.
- *Travel.* The retention of thirty days is not tied to the configurable
  lookahead: an event further off is announced again. An unreadable ledger is
  taken for an empty one.
- *Plugin.* A check that read the stamp before an answer and writes after it loses the
  answer, and so do a torn stamp and one that could not be read; the person is asked
  again about the version (`answered` then is what is left). A no is recorded of the
  version the stamp names when it is given, not of the one asked about.
- *Vault audit.* A log, a page of an entity or the sidecar of the accounts that cannot
  be read is skipped without a trace while its scan counts as run: its findings are
  called resolved (FixedWasGone excepts them, `unread`).
- *Advisor's lists.* The tick writes the copy of `advisor.json` it read before it
  fetched mail: a list that a briefing registered in between is forgotten, and the
  answers to it are never read. The file is written in place: torn, it reads as
  empty, and the next write makes that last. A list printed again after it expired
  starts with nothing seen: the answers of the first time, still in the Sent folder
  under the same reference, are acted on again. Each of these is a loss in
  AdvisorReplies, and ListenedFor and ActedOnce say what is left. One page of 20
  messages is read for a reference; the model reads them all.
- *Watcher and Workbench.* Work that was done is put down as failed when it raises
  late or its delivery cannot be written, with the reason and not with what was
  done; a yes to that suggestion does it again (a second page edit is refused, a
  draft is found in its ledger unless that is what failed). A ticket whose failure
  cannot be written either stays running. A ledger that cannot be read is an empty
  one, and the next refresh, suggestion or hand-made ticket writes it back so: the
  model's ledger can always be read. A stage request on a suggestion (a route no page
  calls) puts a deck planner on it; a server killed while it builds leaves the
  ticket running; a writer of the ticket ledger that has waited ten seconds
  writes without the lock; a yes
  read while a suggestion is in staging is spent.

## 4. What is proved

`WorkbenchProofs.tla`, for every set of tickets, threads, plans and any number of
replies, deaths, failed writes and late raises:

| theorem | assumption on the routes | property |
|---|---|---|
| TypeCorrect | none | TypeOK |
| OneHandAlways, DoneOnceAlways, WorkIsReportedAlways | no client calls `stage` | OneHand, DoneOnce, WorkIsReported |
| NoIsFinalAlways | no client calls `restore` | NoIsFinal |
| IntentKeptAlways | none of `dod`, `pin`, `rate`, `restore` | IntentKept |
| KeepsConsentAlways | neither `stage` nor `restore` | the refinement of Consent |

The argument. `WorkInv` adds to the type invariant that a busy worker works on a
ticket. `SuggestionInv` is the strengthening the three invariants need, since
none of them is inductive: a worker's program counter tells whether its ticket
is a suggestion (`Tasks`); whoever owns the work of a suggestion, being at it or
in its `except` clause, finds it `running`, with the work counted when it is past
it and not before (`Owned`); there is one owner (`OneOwner`); work that was counted, and
not yet put down as failed, is on a ticket that is running, delivered or rated, and
there is one such piece at most (`Carried`). Its heart is the
lifecycle table (`TableFacts`): a running ticket can only move to verifying,
delivered or failed, none of which another process's answer, comment or refresh
can do. That is also where the assumption on `stage` comes from: a suggestion
with a deck planner on it could be failed, and approved again, under the hands
of its executor. `Unmarked` (a row a refresh may prune carries no mark) is the
strengthening for IntentKept, and `NoneProposed` (a suggestion is never proposed
or verifying) the one for the refinement, which is proved action by action:
`SimPage`, `SimDeck`, `SimAnswer`, `SimWork`, `SimTick`, `SimCrash`.

Other modules, again for every value of the constants:

| theorem | assumption | property |
|---|---|---|
| RepliesProofs: ActedOnceAlways, ListenedForAlways | the specification of the run, `RepliesSpec`; any lists, messages, briefings, deaths and losses | ActedOnce, ListenedFor |
| RepliesProofs: RepliesGoOnce (by DraftSendProofs: GoesOnceAlways) | finitely many writers | GoesOnce |
| JobWatchProofs: WatchTypes, BudgetAlways, LooksAlways | none (the roster is finite) | TypeOK, BudgetHolds, LooksBounded |
| JobWatchProofs: SparedAlways | nothing is started by hand | WorkingSpared |
| MailOutProofs: FinanceTypes, PageIsProofAlways | none | TypeOK, PageIsProof |
| MailOutProofs: OneCopyAlways, SpentForCauseAlways, SentStaysAlways, NotesApartAlways | one run at a time | OneCopy, SpentForCause, SentStays, NotesApart |
| MailOutProofs: KeepsClaimsAlways, ToldIsFinalAlways (by ClaimedIsToldOnce) | one run at a time | the refinement of ClaimedMail; a told week is never mailed again |
| MailOutProofs: AccountedAlways | none | Accounted |
| MailOutProofs: BestFirstAlways | finitely many items, each once in a list, with whole-numbered ages and dates (`PageAssumption`) | BestFirst |
| MailOutProofs: PrepOnceAlways | a prep is kept in the ledger for longer than it is ahead of its meeting, and for a day (`PrepAssumption`) | PrepOnce |
| MailOutProofs: NoticedAlways | the overlap of the fetches covers the lag of listing (`NoteAssumption`) | Noticed |
| MailOutProofs: OnceNotedAlways | the look-back of a first tick is no longer than rows are kept (`NoteAssumption`), and `Awake`: the ledger remembers a message for as long as a tick may look back | OnceNoted |
| VaultProofs: OneOwnerAlways, OneOutcomeAlways, DeferredForCapAlways, ToldOfCapOnceAlways | positive numbers of items and attempts | OneOwner, OneOutcome, DeferredForCap, ToldOfCapOnce |
| VaultProofs: DeepReadKeptAlways | none | DeepReadKept |
| VaultProofs: OneSetAlways | the name a page gets when its title is another's is no title (`OwnNames`) | OneSet |
| VaultProofs: PutBackStaysAlways | finitely many to-dos | PutBackStays |
| VaultProofs: FixedAlways | none | FixedWasGone |
| VaultProofs: ScoreBracketAlways | none | ScoreBracket |
| VaultProofs: AnswersKeptAlways | none | AnswersKept |
| VaultProofs: ToldAlways | one briefing at a time (`~Overlap`), rows kept longer than a view is wide (`Retained`) | Told |
| InstallProofs: StampIsTrueAlways | `None` is not FALSE (a check's "no opinion" is no "fails") | StampIsTrue |
| LockAndRunsProofs: LockTypes | none | TypeOK |
| LockAndRunsProofs: ExclusiveAlways, UndisturbedAlways | the file can be removed, no hold exceeds the stale age | Exclusive, Undisturbed (both: until the first death) |
| LockAndRunsProofs: MailedForCauseAlways | one slot (`OneSlot`), one scheduled run a briefing, which is no job that briefings wait for (`OneEach`, `Apart`), finitely many runs; and `Ample`: the log has room for a row of each slot, each restart and each run by hand | MailedForCause |
| LockAndRunsProofs: MailedWhileRoomy | as before, but instead of `Ample`, in the behaviour, `Roomy`: what a trim drops at the old end is from before the day | MailedForCause |

Each assumption that narrows the code's behaviour is needed: the table above shows
what happens without it. `NoneIsNoRun`, `NoneIsNoTick`, `NoneIsNoNote` and
`NoneIsNoFiling`, like `NoneIsNone`, say no more than that the constant `None`, which stands for
Python's `None`, is no record of a run, a tick, a note or a filing; TLA+ itself
leaves open what a constant is.

- *Replies.* `RepliesInv`. `Told`: a message that was acted on as often as the losses
  allow is claimed in the file, in the tick's copy, and in that of every briefing
  since whose reading nobody wrote (`Held`), so that whichever is written next keeps the
  claim; any other write is a loss, and raises what is allowed. The claim at hand counts
  as acted on (`Due`). `InStep`: such copies list what the file lists, but for what
  was lost before or has expired; `Kept`: every list that was mailed, or is about to
  be, is in the file under its day or later, or expired, or was lost since.
- *Watcher.* `Counted` relates the restarts made to the number in the state file,
  up to the ticks lost and a budget for each wipe (`Debt`); `Stamped` the looks, and the
  jobs looked at, to the mechanic's stamps, up to the stamps missed; `Marked`
  says a run at work has its marker, which the grade looks at first.
- *Finance.* `Solo`: one run, whose copy of the ledger is the ledger, so writing it
  back is a change of one entry (`WriteIsChange`). `Stage`: where the run is says
  what the ledger has of its week. `Once`: a free week, and the week of a run about
  to send, have been mailed only by sends whose reply was lost. `Noted`: the stamp is at or after every
  stamped note; `DueIsApart` carries the rounding of days.
- *Pool.* No index is taken twice because the cursor only grows under the lock
  (`GivenOut`); a thread stops without a further index only at the end of the items or
  once the cap is set, and the cap is never unset (`CapSeen`).
- *Drafts.* `Counted`: the copies of a reply that went are its drafts that are sent,
  so it is enough to bound its drafts. `Budget` does: a writer whose copy lacks the
  reply (`Blind`) may add a draft of it, or drop its entry by writing the copy back,
  and then the next writer finds none. So the drafts that exist and the writers that
  may still cost one (`Costly`) are counted together, against the overlaps and the
  faults and one more (`Room`) where the ledger or such a writer knows the reply.
  A first writer takes the room, a second one an overlap; a ledger that cannot be
  read, an answer that is not heard, a write that fails and a death are each a fault.
- *Scan.* `ScanInv` says where a thread that waits and was read from its inbox is after every
  step of a scan: in the inbox's section, held as a lure, filtered, or finalized into a
  section; what the read left out is in `unread`. The lemma `FinalizedKeeps` says that the judge puts what it is
  given somewhere, whatever it answers or fails to.
- *Preps.* A mail about a meeting leaves a row under its title and start, and the row lives
  until the meeting is past (`Spent`, `Held`, `Past`); a tick's copy of the ledger is the
  ledger (`InTick`), and in daily mode the day marked is behind the clock (`Behind`).
- *Note.* `NoteInv` for Noticed: what a tick will read next time reaches back to every
  message that is unread, in a fold or listed late (`RowsSeen`, `Going`), and what it was due
  and does not take is missed (`Due`, `Finds`). `OnceInv` for
  OnceNoted: what was told is in the ledger, or so far back that no look-back reaches it, or
  was told less often than faults allow (`ReadPast`, `Untold`, `NoteSpent`, `LedgerSpent`): a
  fault that loses rows allows each reply one more (`FaultUntold`). `Awake` is what the pruning of the
  ledger needs: a machine that slept for longer than rows are kept may tell twice.
- *Filing.* `DeepInv`: an owed transcript whose meeting has a page waits in the queue, in
  the rows the drain has still to do or has kept, or in a filing that will queue it; the
  rows are well shaped and a page is held under its meeting's id (`AtWork`, `OfFiling`,
  `Remembered`). For OneSet, `SetInv` on top of it. `PagesHeld`: a page is one meeting's, and
  a meeting has one, under its title unless that is taken, which is where `OwnNames` comes in.
  `Recorded`: a line on a page whose meeting has a row in the queue is one that the row
  remembers, or one of those touched by the user; so, when all that a place got is still there
  and is taken out, nothing is left (`Fresh`), and where something is missing the place is
  passed over. What the invariant must follow is how long that stays true: not on a page the
  run has replaced but whose row is still in the file (`Replaced`, `Busy`), nor where a death
  or the user came between (`torn`). `ToDrain` says that the rows still to come, and those
  kept, are rows of the file for pages the run has not replaced, so the queue it writes at the
  end may forget the others; `Homed`, that lines put back after a refusal land among no others.
- *Check-off.* A box that the user put back is open until someone else closes it by hand:
  the state file has its pin or a run holds the copy that has it (`Records`, `Pinned`),
  except while an undo lands during a run, and then `raced` says so (`Underway`).
- *Vault audit.* That a finding the ledger calls fixed was gone at some time since it was
  last found, or could not be seen, is not inductive alone: the invariant adds that what is on disk is never a
  report's pick and what a report picks is one (`Picks`), and that what is not on disk and is no pick is known to
  have gone (`Absent`). The lemma `FixedIsLooked` says of `advance` that what it calls fixed was not among what
  the sweep found, and that its scan ran. The score needs no invariant: `ScoreBracketAlways` is the arithmetic
  of `apply_caps`, that a total of parts under their limits is under the limit of the total.
- *Notices.* The newest answer that is not lost is on the stamp (`Stamped`): a process about
  to write has the stamp it read with the answers as they were, or with its own (`Hand`,
  `Offers`), so a write over an unchanged stamp keeps them, and one over a changed stamp
  counts as a loss (`Over`); a notice of travel
  that was given is in the ledger or is about an event no view reaches any more (`Kept`,
  `Allows`, `Behind`). That is where `Retained` comes in: rows are kept for 30 days and the
  default view is 28 days wide.
- *Install.* What a session, the reminder and the file hold of the list has its boxes
  (`Lists`), so a re-check decides for each box what the stamp says of it (`VerifyIsTrue`);
  that every writer of a stamp re-checks the list it was given, whoever wrote it last, is the
  rest: `finish`, a skip of the last box, an adoption.
- *Lock.* `HeldAlive`: before the first death the file exists exactly while its maker is inside and is as old
  as the maker's stay, so it never looks left behind.
- *A claimed mail.* The refinement needs what the invariants say of a run alone: who is in the
  send holds its week and nobody else is anywhere (`HolderIsOne`), and writing a copy of the
  ledger back changes it at one week (`WriteIsChange`). Then `claim` is Hold, `_deliver` Tell, a
  lost reply Doubt, `release` GiveBack, a death in the send or a `release` that cannot write Spend;
  all else leaves `Phase` alone (`PhaseStands`). This refinement is proved and is in no run. `SentStays` says less: of a week whose run died in
  the send, only the refinement says that it is never mailed.
- *The front page.* That the page is in rank order is no induction over its length: `InOrder`
  puts an item after as many items as rank before it, and those counts are all different
  (`CountsGrow`), hence exactly 1 to the number of items (`CountsPlace`, `SortedOnce`). It needs
  ranks to be a strict order that decides between any two items: `Before` is one
  (`BeforeBack`, `BeforeOn`, `BeforeEither`, by the least index at which two ranks differ), and
  ranks of one tier are equally long and end in the item's place (`RankShape`, `RanksDiffer`).
  `PlaceHolds` then says what each place of the page holds, and the six parts of BestFirst follow.
- *Briefings.* `DigestInv`, a budget: the copies sent, those that the scheduler's run may still
  send (`Due`) and the runs by hand that may still cost one (`Owing`) number at most the causes
  and the one of the slot. A run by hand costs one until it has mailed, or has failed and let go of
  the marker; then its failure may make the watcher restart a run that mailed but has no row yet
  (`Exposed`). An ok row settles it for as long as the file has it, and only a trim takes it
  away: one that had not read it, which `lost` counts. `Roomy` is needed: with a log of one row
  TLC finds two runs by hand that cost three copies. The code keeps 3000 rows (`RUNS_CAP_ROWS`), and
  `LogInv` shows that a log with room for the runs of the day (`Ample`) is roomy: every run that began
  has a row at most (`Begun`, `Pending`), and what lies further back than these, in the file or in
  any copy that a trim will write, is from before the day (`Recent`).

What TLC alone checks, and why:

- the liveness properties (YesIsTakenUp, CommentReturns, WorkSettles, AnswerHeard,
  HoldsEnd, DeadNoticed, WaitEnds, RunEnds, InstallEnds, HistoryEnds): fairness and
  ENABLED are outside what the prover handles. Every safety property of a passing run
  has a theorem.

## 5. Plan

Done: the modules of section 2 with their runs, and the proofs of section 4. To
come, in this order:

1. PrepTick and NoteTick mail first and record then: an abstract specification of that order,
   one more copy for each fault in between, beside ClaimedMail.
2. Pollers in JobWatch; a composition of JobWatch with FinanceSend (a restart never mails twice).
3. Decision procedures against reference definitions over bounded inputs: slots
   and cadences (`schedule_plan`), failure classes, measures of the scorecard.

## 6. Not modelled

Texts, prompts, HTML, scores and arithmetic over logs; the OS scheduler's own
file formats; remote services, which appear as success or failure; tokens and
sessions of the local server. `tests/` and the documents were read as evidence of
intent and are quoted where the code disagrees with them. By module:

- Install: the research job, the bell, keep-awake, timing, reminder mails, reset.
- DoneJudge: the stamping of ids, runs side by side, dry runs, the self-test, edits by
  hand during the second in which a run writes.
- MeetingIngest: runs by hand and their flags, `--backfill`, deal lines of the
  week file, the date of last contact, words.
- Travel: the wording, drive times and when to leave, matching of airports and
  cities, routine destinations, more than one event a city.
- PluginUpdate: the log of updates, parsing of the changelog, the throttle (a
  check that is skipped is no step), what setup adopts after an update.
- DigestRun: disabled digests, the local page, the client's own update before a
  render, other channels than mail, ages of the lock (FileLock has them).
- VaultAudit: the deletion of stub pages, the rules for the wording of a report, what
  makes a page an orphan or a log line a failure.
- DraftSend: closed deals, missing tokens, the switches that forbid sending,
  threading and bodies. The stamp of the draft ledger is read and written in one
  step.
