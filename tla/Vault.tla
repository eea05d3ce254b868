--------------------------------- MODULE Vault ---------------------------------
(***************************************************************************)
(* What keeps the vault and what it is told, side by side: the pool that   *)
(* reads meetings and deals (Fanout), the filing of what it read           *)
(* (MeetingIngest), the check-off of to-dos (DoneJudge), the audit with    *)
(* its findings (VaultAudit) and its score (AuditScore), and two notices   *)
(* that briefings carry: the plugin's update (PluginUpdate) and travel     *)
(* (Travel).  They share no file here; the initial state picks the one a   *)
(* behaviour is about; the fairness is the filing's.                       *)
(***************************************************************************)
EXTENDS Fanout

VARIABLES
  job,                                            \* which of them
  held, pages, lines, marked, staged, manifest, queue, history, run,
  readings, short, letGo, torn, touches, faults,  \* MeetingIngest
  published, installed, stamp, notes, proc, again, answered, rendered,  \* PluginUpdate
  day, cal, ledger, briefing, given, owed, calls, moves,               \* Travel
  box, evidence, state, book, latest, checkOff, hand, shut, back, raced, edits,   \* DoneJudge
  present, folders, configured, found, printed, report, gone, unread, turns,      \* VaultAudit
  facts, fill                                                                     \* AuditScore

CONSTANTS
  MaxFaults, None,
  Meetings, Titled, Mine, ActionItems, Broken, Recent, PerRun, ReadAttempts, MaxTouches,   \* MeetingIngest
  Chats, Unattended, Latest,                                                     \* PluginUpdate
  Flights, Away, Planned, Full, Booked, Confirmed, Serves, Briefings, View, Lead,
  Soon, Window, TravelKept, Cap, Overlap, LastDay, MaxMoves,                               \* Travel
  Todos, Twins, Owed, Paged, Dated, Classes, ExpireDays, RejudgeDays, BatchSize,
  UndoBatches, Briefs, DoneEnd, MaxEdits,                                                  \* DoneJudge
  Findings, Kind, LogLines, ArchiveAfter, TableCap, MaxTurns,                              \* VaultAudit
  Gathered, Fills                                                                          \* AuditScore

M == INSTANCE MeetingIngest WITH Items <- ActionItems, Attempts <- ReadAttempts
U == INSTANCE PluginUpdate
T == INSTANCE Travel WITH Kept <- TravelKept, run <- briefing, asked <- calls, told <- given
D == INSTANCE DoneJudge WITH Items <- Todos, run <- checkOff, LastDay <- DoneEnd
V == INSTANCE VaultAudit WITH Cap <- TableCap, ledger <- found
S == INSTANCE AuditScore WITH evidence <- facts

ASSUME FillAssumption == Fills \subseteq S!Fillable

(* Rows of travel notices are kept longer than any view is wide, so who is  *)
(* shown an event for the last time still finds the row of the first: 30    *)
(* days against the 28 that the configuration gives; a wider view would be  *)
(* told twice.                                                              *)
Retained ==
  /\ Planned \in [Flights \cup Away -> Int] /\ TravelKept \in Int
  /\ \A b \in Briefings : View[b] \subseteq Int /\ \A x, y \in View[b] : x - y <= TravelKept
ASSUME TravelAssumption == Retained

(* The name that a page gets when its title is another's ends in a part of  *)
(* the meeting's id; a title ends in the date: neither is the other.        *)
OwnNames == \A m, k \in M!All : Titled[m] # k
ASSUME FilingAssumption == OwnNames

filing == <<held, pages, lines, marked, staged, manifest, queue, history, run,
            readings, short, letGo, torn, touches>>
notice == <<published, installed, stamp, notes, proc, again, answered, rendered>>
travel == <<cal, ledger, briefing, given, owed, calls, moves>>
done == <<box, evidence, state, book, latest, checkOff, hand, shut, back, raced, edits>>
audit == <<present, folders, configured, found, printed, report, gone, unread, turns>>
score == <<facts, fill>>
all == <<job, vars, filing, notice, travel, done, audit, score, day, faults>>

VaultInit ==
  /\ M!Init /\ Init /\ U!Init /\ T!Init /\ D!Init /\ V!Init /\ S!Init
  /\ job \in {"filing", "pool", "notice", "travel", "done", "findings", "score"}
VaultNext ==
  /\ UNCHANGED job
  /\ \/ job = "filing" /\ M!Next /\ UNCHANGED <<vars, notice, travel, done, audit, score, day>>
     \/ job = "pool" /\ Next /\ UNCHANGED <<filing, notice, travel, done, audit, score, day, faults>>
     \/ job = "notice" /\ U!Next /\ UNCHANGED <<vars, filing, travel, done, audit, score, day>>
     \/ job = "travel" /\ T!Next /\ UNCHANGED <<vars, filing, notice, done, audit, score>>
     \/ job = "done" /\ D!Next /\ UNCHANGED <<vars, filing, notice, travel, audit, score>>
     \/ job = "findings" /\ V!Next /\ UNCHANGED <<vars, filing, notice, travel, done, score>>
     \/ job = "score" /\ S!Next /\ UNCHANGED <<vars, filing, notice, travel, done, audit, day, faults>>
Progress ==
  /\ WF_<<filing, faults>>(job = "filing" /\ M!Prefetch)
  /\ WF_<<filing, faults>>(job = "filing" /\ M!Hour)
  /\ WF_<<filing, faults>>(job = "filing" /\ M!Moves)
VaultSpec == VaultInit /\ [][VaultNext]_all
-----------------------------------------------------------------------------
(* What each of the components promises; the statements are theirs.         *)
OneSet == M!OneSet
DeepReadKept == M!DeepReadKept
AnswersKept == U!AnswersKept
Told == T!Told
PutBackStays == D!PutBackStays
FixedWasGone == V!FixedWasGone
ScoreBracket == S!ScoreBracket
HistoryEnds == job = "filing" => M!HistoryEnds
==============================================================================
