-------------------------------- MODULE MailOut --------------------------------
(***************************************************************************)
(* What is mailed, side by side: the Saturday finance brief (FinanceSend); *)
(* the two halves of the daily briefings, the scan of the mailboxes        *)
(* (WeekReview) and the page built from what is open (FrontPage); the Note *)
(* (NoteTick) and the meeting preps (PrepTick).  They share no file; the   *)
(* initial state picks the one a behaviour is about, and the others stand  *)
(* still.                                                                  *)
(***************************************************************************)
EXTENDS FinanceSend, Sequences

VARIABLES
  part,                                               \* which of them
  open, page, rows, counts, slice,                    \* FrontPage
  threads, done, prior, mode, at, sec, errors, unread, snap, shown, marked,
  sidecar, scan, told, informed, runs, scanFaults,    \* WeekReview
  clock, tick, moves, troubles,                       \* NoteTick and PrepTick
  mail, cal, ledger, state, posted, folded, missed, changed,   \* NoteTick
  prepMode, start, prepRows, prepped, owed, failed             \* PrepTick

CONSTANTS
  Parts, Pool, MinOpen, MaxOpen, Businesses, Functions, FunctionWords, WordLength, Cap,
  StaleDays, Unassigned, Kinds, Count, Lines, Modes, Window, ScanWindow, InboxWindow,
  MaxRuns, MaxScanFaults,
  None, MaxMoves, MaxTroubles, Mails, Passes, Slack, Lookback, Lag, NoteCap, NoteDay, NoteZone, NoteKept, NoteEnd,
  NotePlanned, Meetings, title, Within, Planned, Outside,
  Lead, RenderTime, DailyAt, PrepModes, PrepDay, PrepKept, PrepEnd

P == INSTANCE FrontPage
W == INSTANCE WeekReview WITH pc <- at, faults <- scanFaults, MaxFaults <- MaxScanFaults
N == INSTANCE NoteTick WITH now <- clock, mailed <- posted, faults <- troubles, MaxFaults <- MaxTroubles,
       Planned <- NotePlanned, Cap <- NoteCap, Day <- NoteDay, Zone <- NoteZone, Kept <- NoteKept, LastMoment <- NoteEnd
R == INSTANCE PrepTick WITH now <- clock, mode <- prepMode, rows <- prepRows, mailed <- prepped, faults <- troubles,
       MaxFaults <- MaxTroubles, Modes <- PrepModes, Day <- PrepDay, Kept <- PrepKept, LastMoment <- PrepEnd

(* What the clocks and the calendar are made of, and how long the ledger of *)
(* preps remembers: longer than a prep is ahead of its meeting, and than a  *)
(* day (LEDGER_RETENTION_DAYS, prep_lead_minutes).                          *)
ASSUME PrepAssumption ==
  /\ Planned \in [Meetings -> Int] /\ PrepDay \in Nat \ {0} /\ Lead \in Int /\ PrepKept \in Int
  /\ Lead <= PrepKept /\ PrepDay <= PrepKept

(* The Note reads back at least as far as a message may be listed late, and *)
(* with no tick on record less far than its ledger remembers.               *)
ASSUME NoteAssumption ==
  /\ Slack \in Int /\ Lag \in Nat /\ Lag <= Slack
  /\ NoteKept \in Int /\ Lookback \in Int /\ Lookback <= NoteKept

(* A list has one open item of a thread (dedup_cross_account; rows without  *)
(* subject and counterparty are left out); ages, due dates and days late    *)
(* are whole numbers, days late not negative.                               *)
ASSUME PageAssumption ==
  /\ IsFiniteSet(Pool) /\ Cap \in Int
  /\ Businesses \in Seq(P!Range(Businesses))
  /\ \A e \in Pool : /\ e.key \in Int /\ e.age \in Int /\ e.due \in Int /\ e.late \in Nat
                      /\ \E i \in DOMAIN P!Sections : P!Sections[i] = e.section
  /\ \A d, e \in Pool : d.key = e.key /\ d.section = e.section => d = e

front == <<open, page, rows, counts, slice>>
week == <<threads, done, prior, mode, at, sec, errors, unread, snap, shown, marked,
          sidecar, scan, told, informed, runs, scanFaults>>
note == <<mail, cal, ledger, state, posted, folded, missed, changed>>
prep == <<prepMode, start, prepRows, prepped, owed, failed>>
ticks == <<clock, tick, moves, troubles>>
all == <<part, vars, front, week, note, prep, ticks>>

PageStill == open = {} /\ P!Unbuilt
ScanStill == threads = {} /\ done = {} /\ prior = {} /\ W!Idle

MailsInit ==
  /\ part \in Parts /\ Init /\ N!Init /\ R!Init
  /\ IF part = "page" THEN P!Init ELSE PageStill
  /\ IF part = "scan" THEN W!Init ELSE ScanStill
MailsNext ==
  /\ UNCHANGED part
  /\ \/ part = "finance" /\ Next /\ UNCHANGED <<front, week, note, prep, ticks>>
     \/ part = "page" /\ P!Next /\ UNCHANGED <<vars, week, note, prep, ticks>>
     \/ part = "scan" /\ W!Next /\ UNCHANGED <<vars, front, note, prep, ticks>>
     \/ part = "note" /\ N!Next /\ UNCHANGED <<vars, front, week, prep>>
     \/ part = "prep" /\ R!Next /\ UNCHANGED <<vars, front, week, note>>
MailsSpec == MailsInit /\ [][MailsNext]_all

-----------------------------------------------------------------------------
(* What each of the components promises; the statements are theirs.         *)
BestFirst == P!BestFirst
Accounted == W!Accounted
Noticed == N!Noticed
OnceNoted == N!OnceNoted
PrepOnce == R!PrepOnce
=============================================================================
