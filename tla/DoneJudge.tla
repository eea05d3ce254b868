------------------------------- MODULE DoneJudge -------------------------------
(***************************************************************************)
(* The check-off (app/done_judge.py, and the one writer of ticks,          *)
(* app/completion_scan.py).  Once a day a run reads the open to-dos of the *)
(* hotcache, gathers what mail, transcripts and decisions say of each,     *)
(* asks a model, believes it as far as code can check, and ticks what is   *)
(* done or expired on every file that shows it.  An undo book and a list   *)
(* of the day's closes let the user object; what is put back is pinned.    *)
(*                                                                         *)
(* A run takes up to an hour and holds the state file it read at its       *)
(* start; the user edits, undoes and reads briefings while it asks.  What  *)
(* it writes it writes within a second: a death can fall in there, a hand  *)
(* cannot.  A dry run writes nothing here.                                 *)
(***************************************************************************)
EXTENDS Integers, SequencesExt

CONSTANTS
  Items,        \* to-dos that carry an id
  Twins,        \* pairs <<i, j>> of items in the same words
  Paged,        \* items that also stand on a meeting's page
  Owed,         \* item -> "by_me", "to_me" or "third_party"
  Dated,        \* items with a due date or a deal
  Classes,      \* bound: the classes of evidence that come
  ExpireDays,   \* auto_close_expire_days
  RejudgeDays,  \* REJUDGE_DAYS
  BatchSize,    \* BATCH_SIZE
  UndoBatches,  \* UNDO_BATCHES
  Briefs,       \* whether a briefing syncs the hotcache from the week file
  LastDay,      \* bound: days
  MaxEdits,     \* bound: ticks by hand, and pieces of evidence
  MaxFaults,    \* bound: deaths, models that do not answer, mail not read
  None

VARIABLES
  day,
  box,          \* the lines ticked: in the hotcache, on the pages, in the week file
  evidence,     \* item -> the classes of evidence there are about it
  state,        \* the state file: item -> what is recorded of it
  book,         \* the undo book: batches, oldest first
  latest,       \* latest.json: a day and what was closed on it
  run,          \* the run under way, or None
  hand,         \* history: item -> who ticked it in the hotcache
  shut,         \* history: item -> its last close by a run: the day, how many batches were
                \*          booked since (0: not booked), and where it was ticked
  back,         \* history: items put back
  raced,        \* history: items put back, or closed by a run that died, between
                \*          a run's reads and its writes
  edits, faults

files == <<state, book, latest>>
history == <<hand, shut, back, raced>>
vars == <<day, box, evidence, files, run, history, edits, faults>>
-----------------------------------------------------------------------------
Surfaces == <<"hot", "page", "week">>
On(i) == {"hot", "week"} \cup IF i \in Paged THEN {"page"} ELSE {}
MAIL_CLASSES == {"sent_mail", "inbound_mail"}
STRONG_CLASSES == {"sent_mail", "decision"}

Calm == run # None => run.at = "judging"
Fault == faults < MaxFaults /\ faults' = faults + 1
Edit == Calm /\ edits < MaxEdits /\ edits' = edits + 1

Init ==
  /\ day = 0
  /\ box = [hot |-> {}, page |-> {}, week |-> {}]
  /\ evidence = [i \in Items |-> {}]
  /\ state = [i \in Items |-> [judged |-> None, hash |-> {}, pinned_open |-> FALSE]]
  /\ book = << >> /\ latest = [date |-> None, closed |-> {}]
  /\ run = None
  /\ hand = [i \in Items |-> "nobody"] /\ shut = [i \in Items |-> None]
  /\ back = {} /\ raced = {} /\ edits = 0 /\ faults = 0

Midnight == /\ Calm /\ day < LastDay /\ day' = day + 1
            /\ UNCHANGED <<box, evidence, files, run, history, edits, faults>>

Evidence(i, c) == /\ Edit /\ c \notin evidence[i]
                  /\ evidence' = [evidence EXCEPT ![i] = @ \cup {c}]
                  /\ UNCHANGED <<day, box, files, run, history, faults>>

UserMarks(i, s) ==
  /\ Edit /\ s \in {"hot", "week"}
  /\ box' = [box EXCEPT ![s] = IF i \in @ THEN @ \ {i} ELSE @ \cup {i}]
  /\ hand' = IF s = "hot" THEN [hand EXCEPT ![i] = "user"] ELSE hand
  /\ UNCHANGED <<day, evidence, files, run, shut, back, raced, faults>>
-----------------------------------------------------------------------------
(* The words of a ticked week line find the open hotcache line that reads   *)
(* most like them: its own, or where that is ticked its twin.               *)
sync_hotcache_from_week ==
  box.hot \cup box.week \cup {p[2] : p \in {q \in Twins : q[1] \in box.week \cap box.hot}}

(* Every morning's briefing syncs before it reads the week.                 *)
Briefing ==
  LET now == sync_hotcache_from_week
  IN /\ Calm /\ Briefs /\ now # box.hot
     /\ box' = [box EXCEPT !.hot = now]
     /\ hand' = [i \in Items |-> IF i \in now \ (box.hot \cup box.week) THEN "sync" ELSE hand[i]]
     /\ UNCHANGED <<day, evidence, files, run, shut, back, raced, edits, faults>>
-----------------------------------------------------------------------------
(* What a run makes of an item.                                             *)
needs_judging(i, seen) ==
  \/ state[i].judged = None \/ state[i].hash # seen[i]
  \/ day - state[i].judged >= RejudgeDays

(* The kinds of evidence that close an item, by who owes it.  Words of      *)
(* others close at a higher confidence: the answer is sure or it is not.    *)
class_policy(i, c, sure) ==
  \/ Owed[i] = "by_me" /\ (c \in STRONG_CLASSES \/ (c = "inbound_mail" /\ sure))
  \/ Owed[i] = "to_me" /\ c \in {"inbound_mail", "transcript_other"} /\ sure

(* The answers that survive: quoted from a section that is there, of a kind *)
(* that closes, for an item not pinned.                                     *)
validate(r, i, row) ==
  /\ row.verdict \in {"done", "moot"} /\ row.cites \in r.seen[i]
  /\ IF row.verdict = "moot" THEN row.cites = "decision" ELSE class_policy(i, row.cites, row.sure)
  /\ ~ r.state[i].pinned_open

Rows == [verdict : {"done", "moot"}, cites : Classes, sure : BOOLEAN]
Closable(r, judged) == {i \in judged : \E row \in Rows : validate(r, i, row)}

(* Found by nobody in a full search; an item read with evidence, or not     *)
(* judged again, has no result that lets it expire.                         *)
Unpinned(r) == {i \in r.items : r.seen[i] = {} /\ i \notin Dated /\ day >= ExpireDays}   \* mutant
expire_candidates(r) ==
  IF r.degraded THEN {}
  ELSE {i \in r.items : /\ r.seen[i] = {} /\ i \notin Dated
                        /\ ~ r.state[i].pinned_open /\ day >= ExpireDays}

Start ==
  /\ run = None
  /\ \E read \in BOOLEAN :
       LET items == Items \ box.hot
           seen == [i \in items |-> IF read THEN evidence[i] ELSE evidence[i] \ MAIL_CLASSES]
       IN /\ IF read THEN UNCHANGED faults ELSE Fault
          /\ run' = [at |-> "judging", today |-> day, state |-> state, items |-> items, seen |-> seen,
                     degraded |-> ~ read,
                     queue |-> {i \in items : seen[i] # {} /\ needs_judging(i, seen)},
                     judged |-> {i \in items : seen[i] = {}},
                     closes |-> {}, todo |-> << >>, guard |-> {}, marked |-> {}, shots |-> {}]
  /\ UNCHANGED <<day, box, evidence, files, history, edits>>

Writes(order) == IF order = << >> THEN << >>
                 ELSE [k \in 1 .. 3 * Len(order) |-> <<order[((k - 1) \div 3) + 1], Surfaces[((k - 1) % 3) + 1]>>]

(* Every batch is judged before anything is applied.  After the first call  *)
(* the hour may be up: what is left of the queue has no result.             *)
judge_batch ==
  /\ run # None /\ run.at = "judging"
  /\ \E reached \in SUBSET run.queue :
       /\ reached = run.queue \/ (reached # {} /\ Cardinality(reached) % BatchSize = 0)
       /\ \E proven \in SUBSET Closable(run, reached), whole \in SUBSET expire_candidates(run) :
            LET closes == proven \cup whole
            IN run' = [run EXCEPT !.judged = @ \cup reached, !.closes = closes, !.queue = {},
                                  !.todo = Writes(SetToSeq(closes)),
                                  !.shots = {shot \in closes \X {"hot", "page", "week"} :
                                               shot[2] \in On(shot[1]) /\ shot[1] \notin box[shot[2]]},
                                  !.at = IF closes = {} THEN "state" ELSE "marking"]
  /\ UNCHANGED <<day, box, evidence, files, history, edits, faults>>

(* JudgeUnavailable: the answers of earlier batches go too.                 *)
Unavailable == /\ run # None /\ run.at = "judging" /\ run.queue # {} /\ Fault /\ run' = None
               /\ UNCHANGED <<day, box, evidence, files, history, edits>>
-----------------------------------------------------------------------------
(* The writer: an id not on an open hotcache line is closed nowhere.        *)
_mark_by_id ==
  /\ run # None /\ run.at = "marking" /\ run.todo # << >>
  /\ LET i == run.todo[1][1]
         s == run.todo[1][2]
         fails == s = "hot" /\ i \in box.hot
     IN /\ run' = [run EXCEPT !.todo = IF fails THEN SubSeq(@, 4, Len(@)) ELSE Tail(@),
                              !.marked = IF fails THEN @ ELSE @ \cup {i},
                              !.shots = IF fails THEN {t \in @ : t[1] # i} ELSE @]
        /\ box' = IF fails \/ s \notin On(i) THEN box ELSE [box EXCEPT ![s] = @ \cup {i}]
        /\ hand' = IF s = "hot" /\ ~ fails THEN [hand EXCEPT ![i] = "judge"] ELSE hand
        /\ shut' = IF s = "hot" /\ ~ fails THEN [shut EXCEPT ![i] = [day |-> run.today, batch |-> 0, on |-> {"hot"}]]
                   ELSE IF s \in On(i) \ {"hot"} /\ i \notin box[s] /\ shut[i] # None THEN [shut EXCEPT ![i].on = @ \cup {s}]
                   ELSE shut
  /\ UNCHANGED <<day, evidence, files, back, raced, edits, faults>>

SyncHere ==
  /\ run # None /\ run.at = "marking" /\ run.todo = << >>
  /\ run' = [run EXCEPT !.guard = box.hot, !.at = "restoring"]
  /\ box' = [box EXCEPT !.hot = sync_hotcache_from_week]
  /\ hand' = [i \in Items |-> IF i \in sync_hotcache_from_week \ (box.hot \cup box.week) THEN "sync" ELSE hand[i]]
  /\ UNCHANGED <<day, evidence, files, shut, back, raced, edits, faults>>

_restore_strays ==
  /\ run # None /\ run.at = "restoring"
  /\ LET strays == box.hot \ (run.guard \cup run.closes \cup box.week)
     IN /\ box' = [box EXCEPT !.hot = @ \ strays]
        /\ hand' = [i \in Items |-> IF i \in strays THEN "nobody" ELSE hand[i]]
  /\ run' = [run EXCEPT !.guard = {}, !.at = IF run.marked = {} THEN "state" ELSE "booking"]
  /\ UNCHANGED <<day, evidence, files, shut, back, raced, edits, faults>>
-----------------------------------------------------------------------------
(* What an undo needs: the lines as they were, of the last batches.         *)
Entries == [k \in run.marked |-> [undone |-> FALSE, opened |-> {t[2] : t \in {u \in run.shots : u[1] = k}}]]
Newest(s, n) == IF Len(s) > n THEN SubSeq(s, Len(s) - n + 1, Len(s)) ELSE s
Trimmed(b) == Newest(b, UndoBatches)

write_undo ==
  /\ run # None /\ run.at = "booking"
  /\ book' = Trimmed(Append(book, Entries))
  /\ shut' = [i \in Items |-> IF i \in run.marked /\ shut[i] # None THEN [shut[i] EXCEPT !.batch = 1]
                              ELSE IF shut[i] # None /\ shut[i].batch # 0 THEN [shut[i] EXCEPT !.batch = IF @ > UndoBatches THEN @ ELSE @ + 1]
                              ELSE shut[i]]
  /\ run' = [run EXCEPT !.at = "state", !.shots = {}]
  /\ UNCHANGED <<day, box, evidence, state, latest, hand, back, raced, edits, faults>>

(* The state as the run read it, with what it found of each item it judged. *)
write_state ==
  /\ run # None /\ run.at = "state"
  /\ state' = [i \in Items |->
       IF i \in run.judged THEN [run.state[i] EXCEPT !.judged = run.today, !.hash = run.seen[i]] ELSE run.state[i]]
  /\ run' = [run EXCEPT !.at = "latest", !.seen = << >>, !.state = None]
  /\ UNCHANGED <<day, box, evidence, book, latest, history, edits, faults>>

(* A second run of the day adds to the day's record.                        *)
Earlier == IF latest.date = run.today THEN latest.closed ELSE {}
write_latest ==
  /\ run # None /\ run.at = "latest"
  /\ latest' = [date |-> run.today, closed |-> Earlier \cup run.marked]
  /\ run' = None
  /\ UNCHANGED <<day, box, evidence, state, book, history, edits, faults>>

Die ==
  /\ run # None /\ run.at # "judging" /\ Fault
  /\ run' = None /\ raced' = raced \cup run.marked
  /\ UNCHANGED <<day, box, evidence, files, hand, shut, back, edits>>
-----------------------------------------------------------------------------
(* The newest close of the item that was not undone: its lines as they were *)
(* where nobody edited them since, and the box cleared where somebody did.  *)
Entry(i) == {k \in 1 .. Len(book) : i \in DOMAIN book[k] /\ ~ book[k][i].undone}
Unticked(i) ==
  IF Entry(i) = {} THEN {"hot", "week"}
  ELSE book[CHOOSE k \in Entry(i) : \A l \in Entry(i) : l <= k][i].opened

undo(i) ==
  /\ Calm /\ i \notin back
  /\ box' = [s \in DOMAIN box |-> IF s \in Unticked(i) THEN box[s] \ {i} ELSE box[s]]
  /\ book' = [k \in 1 .. Len(book) |->
       IF Entry(i) # {} /\ k = (CHOOSE j \in Entry(i) : \A l \in Entry(i) : l <= j)
       THEN [book[k] EXCEPT ![i].undone = TRUE] ELSE book[k]]
  /\ state' = [state EXCEPT ![i].pinned_open = TRUE]
  /\ latest' = [latest EXCEPT !.closed = @ \ {i}]
  /\ hand' = [hand EXCEPT ![i] = "nobody"]
  /\ shut' = [shut EXCEPT ![i] = None]
  /\ back' = back \cup {i} /\ raced' = IF run = None THEN raced ELSE raced \cup {i}
  /\ UNCHANGED <<day, evidence, run, edits, faults>>

Next ==
  \/ Midnight \/ Briefing \/ Start \/ judge_batch \/ Unavailable \/ _mark_by_id \/ SyncHere
  \/ _restore_strays \/ write_undo \/ write_state \/ write_latest \/ Die
  \/ \E i \in Items : \/ undo(i)
                      \/ \E c \in Classes : Evidence(i, c)
                      \/ \E s \in {"hot", "week"} : UserMarks(i, s)

Spec == Init /\ [][Next]_vars
-----------------------------------------------------------------------------
(* "Reopens and stays open for good": what the user put back is not closed  *)
(* by a later run, on evidence or by age, unless it was put back while a    *)
(* run was on (done_judge.undo, validate, expire_candidates).               *)
PutBackStays == \A i \in back \ raced : hand[i] # "judge"

(* An undo clears every box the last close ticked, whatever the user did to *)
(* the lines since, while the close is among the batches kept.              *)
Reopens ==
  [][\A i \in (back' \ back) \ raced :
       shut[i] # None /\ shut[i].batch \in 1 .. UndoBatches => \A s \in shut[i].on : i \notin box'[s]]_vars

(* "A line with an id is only ever closed by its id."                       *)
ClosedByItsId == run = None => \A i \in box.hot : hand[i] # "sync"
=============================================================================
