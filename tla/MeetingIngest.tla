----------------------------- MODULE MeetingIngest -----------------------------
(***************************************************************************)
(* The filing of meetings (app/meeting_ingest.py, started by               *)
(* app/skill_run.py and by the install).  Setup reads as many meetings as  *)
(* its time allows and files the rest from the notetaker's summary, with a *)
(* place in the deep-read queue.  Every hour a run takes the queue and     *)
(* what is new; in a quiet hour a run files older meetings.  A filing is a *)
(* page, then lines and marks on other files; a page with the meeting's id *)
(* is what makes it filed.  Every file is written whole and at once; a     *)
(* process can die between any two of the writes.                          *)
(*                                                                         *)
(* One process at a time.  Not modelled: filing by hand with --force or    *)
(* --business, --backfill, deal lines of the week file (a second mark is   *)
(* never set), words: an entity, a stage or a tag that is found in them.   *)
(***************************************************************************)
EXTENDS Integers, SequencesExt

CONSTANTS
  Meetings,     \* sequence of meetings, oldest first
  Titled,       \* meeting -> its title and date
  Mine,         \* meeting -> the action items of its summary that are the user's
  Items,        \* action items a transcript has
  Broken,       \* meetings the notetaker cannot deliver
  Recent,       \* --limit, and the listing of _meeting_work
  PerRun,       \* DEEP_READ_PER_RUN, HISTORY_PER_RUN
  Attempts,     \* DEEP_READ_MAX_ATTEMPTS, HISTORY_MAX_ATTEMPTS
  MaxTouches,   \* bound: edits by the user
  MaxFaults,    \* bound: reads that fail, caps, refused filings, deaths
  None

VARIABLES
  held,      \* how many of the meetings have taken place
  pages,     \* page name -> the meeting and the reading it was written from, or None
  lines,     \* to-dos of the hotcache and catalog lines that name a page
  marked,    \* pages noted on their entities and in the log
  staged,    \* the staging folder: meeting -> what was read of it, or None
  manifest,  \* what it names; None before the prefetch
  queue,     \* deep-read.json
  history,   \* meeting-history.json
  run,       \* the process under way, or None
  readings,  \* history: how often a meeting's transcript was read
  short,     \* history: meetings filed from the summary for want of time
  letGo,     \* history: meetings whose deep read was given up
  torn,      \* history: pages that a death or the user caught half-way
  touches, faults

vault == <<pages, lines, marked>>
stage == <<staged, manifest>>
past == <<readings, short, letGo, torn>>
vars == <<held, vault, stage, queue, history, run, past, touches, faults>>
-----------------------------------------------------------------------------
All == ToSet(Meetings)
Names == All \cup {Titled[m] : m \in All}
Places == {"todo", "catalog"}

Line(place, name, item, words) ==
  [place |-> place, name |-> name, item |-> item, words |-> words, touched |-> FALSE]
At(place, name) == {l \in lines : l.place = place /\ l.name = name}
Words(m) == <<m, 0>>                 \* the summary's; <<m, n>> are those of its n-th reading

Filed == {pages[n].id : n \in {n \in Names : pages[n] # None}}
PageOf(m) == {n \in Names : pages[n] # None /\ pages[n].id = m}

(* The newest k meetings the notetaker lists, not filed yet; they are taken *)
(* newest first.                                                            *)
Listed == {Meetings[i] : i \in 1 .. held}
Newer(n, m) == \E i, j \in DOMAIN Meetings : i > j /\ Meetings[i] = n /\ Meetings[j] = m
Newest(S, k) == {m \in S : Cardinality({n \in S : Newer(n, m)}) < k}
fetch_uningested_stubs(k) == Newest(Listed, k) \ Filed

Fault == faults < MaxFaults /\ faults' = faults + 1

Init ==
  /\ held \in 1..Len(Meetings)
  /\ pages = [n \in Names |-> None] /\ lines = {} /\ marked = {}
  /\ staged = [m \in All |-> None] /\ manifest = None
  /\ queue = << >>
  /\ history = [attempts |-> [m \in All |-> 0], done |-> FALSE]
  /\ run = None
  /\ readings = [m \in All |-> 0] /\ short = {} /\ letGo = {} /\ torn = {}
  /\ touches = 0 /\ faults = 0

Held == /\ held < Len(Meetings) /\ held' = held + 1
        /\ UNCHANGED <<vault, stage, queue, history, run, past, touches, faults>>

(* The user ticks, edits or removes a line, or throws a page away.          *)
Touch(l) ==
  /\ run = None /\ touches < MaxTouches /\ touches' = touches + 1
  /\ ~l.touched
  /\ \/ lines' = (lines \ {l}) \cup {[l EXCEPT !.touched = TRUE]}
     \/ lines' = lines \ {l}
  /\ UNCHANGED <<held, pages, marked, stage, queue, history, run, past, faults>>
Discard(n) ==
  /\ run = None /\ touches < MaxTouches /\ touches' = touches + 1
  /\ pages[n] # None /\ pages' = [pages EXCEPT ![n] = None]
  /\ torn' = torn \cup {n, pages[n].id} /\ short' = short \ {pages[n].id}
  /\ UNCHANGED <<held, lines, marked, stage, queue, history, run, readings, letGo, faults>>
-----------------------------------------------------------------------------
(* run_prefetch: a file per meeting, then the manifest.  A meeting whose    *)
(* read found no time is staged with its summary and marked for a deep one; *)
(* one whose fetch fails, or that a usage cap puts off, is not named.       *)
Prefetch ==
  /\ run = None /\ manifest = None
  /\ \E got \in [All -> {"transcript", "summary", "over_budget", "failed"}] :
       LET stubs == fetch_uningested_stubs(Recent)
       IN /\ \A m \in All : m \notin stubs \ Broken => got[m] = "failed"
          /\ manifest' = {m \in All : got[m] # "failed"}
          /\ staged' = [m \in All |-> IF got[m] # "failed" THEN got[m] ELSE staged[m]]
          /\ readings' = [m \in All |-> readings[m] + IF got[m] = "transcript" THEN 1 ELSE 0]
  /\ UNCHANGED <<held, vault, queue, history, run, short, letGo, torn, touches, faults>>

(* One process: what it has left to do, and the filing it is at.            *)
Idle == [kind |-> "batch", at |-> "next", rows |-> << >>, kept |-> << >>, tried |-> 0,
         capped |-> FALSE, todo |-> {}, filing |-> None, filed |-> {}, failed |-> {},
         gone |-> {}]

(* run_staged: meetings that are on disk by now are passed over.  The       *)
(* install starts it again until it has ended once.                         *)
Staged ==
  /\ run = None /\ manifest \notin {None, {}}
  /\ run' = [Idle EXCEPT !.kind = "staged", !.todo = manifest \ Filed]
  /\ UNCHANGED <<held, vault, stage, queue, history, past, touches, faults>>

(* The hourly job, once setup is over: _meeting_work starts a run for the   *)
(* queue or for what is new, a quiet hour goes to the older meetings.       *)
Work == queue # << >> \/ fetch_uningested_stubs(Recent) # {}
read_history == {m \in fetch_uningested_stubs(held) : history.attempts[m] < Attempts}
Hour ==
  /\ run = None /\ manifest # None
  /\ \/ /\ Work
        /\ run' = [Idle EXCEPT !.rows = queue, !.at = IF queue = << >> THEN "list" ELSE "drain"]
     \/ /\ ~Work /\ ~history.done
        /\ run' = [Idle EXCEPT !.kind = "history", !.todo = Newest(read_history, PerRun)]
  /\ UNCHANGED <<held, vault, stage, queue, history, past, touches, faults>>
-----------------------------------------------------------------------------
(* drain_deep_reads, one row at a time.                                     *)
Row == Head(run.rows)
PassedOver(row) == [run EXCEPT !.rows = Tail(@), !.tried = @ + 1]    \* mutant
Passed(row) == [run EXCEPT !.rows = Tail(@), !.tried = @ + 1, !.kept = Append(@, row)]
Dropped == [run EXCEPT !.rows = Tail(@), !.tried = @ + 1]

Reading == run # None /\ run.at = "drain" /\ run.rows # << >>
ThisRun == Reading /\ ~run.capped /\ run.tried < PerRun /\ PageOf(Row.id) # {}

DrainKeeps ==
  /\ Reading /\ (run.capped \/ run.tried >= PerRun)
  /\ run' = Passed(Row)
  /\ UNCHANGED <<held, vault, stage, queue, history, past, touches, faults>>
DrainMissesPage ==
  /\ Reading /\ ~run.capped /\ run.tried < PerRun /\ PageOf(Row.id) = {}
  /\ run' = Dropped
  /\ UNCHANGED <<held, vault, stage, queue, history, past, touches, faults>>
DrainCapped ==
  /\ ThisRun /\ Fault
  /\ run' = [Passed(Row) EXCEPT !.capped = TRUE]
  /\ UNCHANGED <<held, vault, stage, queue, history, past, touches>>

(* A read or a filing that fails spends an attempt; the third is the last.  *)
Spent(row) == IF row.attempts + 1 >= Attempts THEN Dropped
              ELSE Passed([row EXCEPT !.attempts = @ + 1])
LetGo(row) == letGo' = IF row.attempts + 1 >= Attempts THEN letGo \cup {row.id} ELSE letGo
DrainFails ==
  /\ ThisRun
  /\ (Row.id \in Broken /\ UNCHANGED faults) \/ Fault
  /\ run' = Spent(Row) /\ LetGo(Row)
  /\ UNCHANGED <<held, vault, stage, queue, history, readings, short, torn, touches>>

(* _retire_first_filing: lines the first filing wrote are taken out when    *)
(* none of them was touched, and are kept, with nothing beside them, when   *)
(* one was.                                                                 *)
Retired(row) == UNION {row.wrote[p] : p \in {p \in Places : row.wrote[p] \subseteq lines}}
KeptNone(row) == {}                                               \* mutant
Kept(row) == {p \in Places : ~(row.wrote[p] \subseteq lines)}

DrainReads ==
  /\ ThisRun /\ Row.id \notin Broken
  /\ readings' = [readings EXCEPT ![Row.id] = @ + 1]
  /\ lines' = lines \ Retired(Row)
  /\ \E n \in PageOf(Row.id) :
       run' = [run EXCEPT !.at = "page",
                          !.filing = [id |-> Row.id, name |-> n, from |-> "transcript", deep |-> FALSE,
                                      skip |-> Kept(Row), undo |-> Retired(Row)]]
  /\ UNCHANGED <<held, pages, marked, stage, queue, history, short, letGo, torn, touches, faults>>

(* run_ingest refuses before it writes: what was retired is put back.       *)
DrainRefused ==
  /\ run # None /\ run.at = "page" /\ run.rows # << >> /\ Fault
  /\ lines' = lines \cup run.filing.undo
  /\ run' = [Spent(Row) EXCEPT !.at = "drain", !.filing = None] /\ LetGo(Row)
  /\ UNCHANGED <<held, pages, marked, stage, queue, history, readings, short, torn, touches>>

(* write_deep_read_queue, and then what is new, of the newest.              *)
DrainEnds ==
  /\ run # None /\ run.at = "drain" /\ run.rows = << >>
  /\ queue' = run.kept
  /\ run' = [run EXCEPT !.at = "list"]
  /\ UNCHANGED <<held, vault, stage, history, past, touches, faults>>
List ==
  /\ run # None /\ run.at = "list"
  /\ run' = [run EXCEPT !.at = "next", !.todo = fetch_uningested_stubs(Recent)]
  /\ UNCHANGED <<held, vault, stage, queue, history, past, touches, faults>>
-----------------------------------------------------------------------------
(* run_ingest of the next meeting.  A page that has the title and another   *)
(* meeting's id leaves a page of the meeting's own; a name that is taken is *)
(* "already exists".                                                        *)
NameFor(m) == IF pages[Titled[m]] # None /\ pages[Titled[m]].id # m THEN m ELSE Titled[m]
Next1(m) == run # None /\ run.at = "next" /\ m \in Newest(run.todo, 1)

Refused(m) ==
  /\ Next1(m)
  /\ \/ pages[NameFor(m)] # None /\ UNCHANGED faults
     \/ run.kind # "staged" /\ m \in Broken /\ UNCHANGED faults
     \/ Fault
  /\ run' = [run EXCEPT !.todo = @ \ {m}, !.failed = @ \cup {m}]
  /\ UNCHANGED <<held, vault, stage, queue, history, past, touches>>
Begin(m) ==
  /\ Next1(m) /\ pages[NameFor(m)] = None
  /\ run.kind # "staged" => m \notin Broken
  /\ \E from \in IF run.kind = "staged" THEN {staged[m]} ELSE {"transcript", "summary"} :
       /\ run' = [run EXCEPT !.at = "page", !.todo = @ \ {m},
                     !.filing = [id |-> m, name |-> NameFor(m), deep |-> from = "over_budget",
                                 from |-> IF from = "transcript" THEN from ELSE "summary",
                                 skip |-> {}, undo |-> {}]]
       /\ readings' = IF run.kind # "staged" /\ from = "transcript"
                      THEN [readings EXCEPT ![m] = @ + 1] ELSE readings
  /\ UNCHANGED <<held, vault, stage, queue, history, short, letGo, torn, touches, faults>>

f == run.filing
Reads(id, from) == IF from = "transcript" THEN <<id, readings[id]>> ELSE Words(id)
WritePage ==
  /\ run # None /\ run.at = "page"
  /\ pages' = [pages EXCEPT ![f.name] = [id |-> f.id, from |-> f.from]]
  /\ short' = IF f.deep THEN short \cup {f.id}
              ELSE IF f.from = "transcript" THEN short \ {f.id} ELSE short
  /\ run' = [run EXCEPT !.at = "promote"]
  /\ UNCHANGED <<held, lines, marked, stage, queue, history, readings, letGo, torn, touches, faults>>

(* promote_user_action_items: every item of a transcript, of a summary      *)
(* those that are the user's.                                               *)
Promoted == {Line("todo", f.name, i, Reads(f.id, f.from)) :
               i \in IF f.from = "transcript" THEN Items ELSE Mine[f.id]}
Promote ==
  /\ run # None /\ run.at = "promote"
  /\ lines' = IF "todo" \in f.skip THEN lines ELSE lines \cup Promoted
  /\ run' = [run EXCEPT !.at = "mark"]
  /\ UNCHANGED <<held, pages, marked, stage, queue, history, past, touches, faults>>

(* Entities, stubs and the log name a page once.                            *)
Mark ==
  /\ run # None /\ run.at = "mark"
  /\ marked' = marked \cup {f.name}
  /\ run' = [run EXCEPT !.at = "catalog"]
  /\ UNCHANGED <<held, pages, lines, stage, queue, history, past, touches, faults>>
update_index ==
  /\ run # None /\ run.at = "catalog"
  /\ lines' = IF "catalog" \in f.skip THEN lines
              ELSE lines \cup {Line("catalog", f.name, 0, Reads(f.id, f.from))}
  /\ run' = [run EXCEPT !.at = "after"]
  /\ UNCHANGED <<held, pages, marked, stage, queue, history, past, touches, faults>>

(* After a filing: the drain goes on; a staged meeting that was not read    *)
(* gets its place in the queue, with what its filing wrote.                 *)
_first_filing_record(name) == [p \in Places |-> {l \in At(p, name) : ~l.touched}]
queue_deep_read(id, name) ==
  IF \E i \in DOMAIN queue : queue[i].id = id THEN queue
  ELSE Append(queue, [id |-> id, attempts |-> 0, wrote |-> _first_filing_record(name)])
After ==
  /\ run # None /\ run.at = "after"
  /\ queue' = IF f.deep THEN queue_deep_read(f.id, f.name) ELSE queue
  /\ run' = IF run.rows # << >> THEN [Dropped EXCEPT !.at = "drain", !.filing = None,
                                                     !.gone = @ \cup {f.name}]
            ELSE [run EXCEPT !.at = "next", !.filing = None, !.filed = @ \cup {f.id}]
  /\ UNCHANGED <<held, vault, stage, history, past, touches, faults>>

(* The end of a run; run_history keeps its tries and what is left.          *)
TriesForgotten == history.attempts                                       \* mutant
Tries == [m \in All |-> history.attempts[m] + IF m \in run.failed THEN 1 ELSE 0]
Ends ==
  /\ run # None /\ run.at = "next" /\ run.todo = {}
  /\ history' =
       IF run.kind # "history" THEN history
       ELSE LET waiting == read_history \ run.filed
            IN [attempts |-> Tries, done |-> \A m \in waiting : Tries[m] >= Attempts]
  /\ manifest' = IF run.kind = "staged" THEN {} ELSE manifest
  /\ run' = None
  /\ UNCHANGED <<held, vault, staged, queue, past, touches, faults>>

(* Killed, or an error that no handler takes: the queue stays as it was.    *)
Dies ==
  /\ run # None /\ Fault
  /\ torn' = torn \cup run.gone \cup IF f = None THEN {} ELSE {f.name, f.id}
  /\ run' = None
  /\ UNCHANGED <<held, vault, stage, queue, history, readings, short, letGo, touches>>
-----------------------------------------------------------------------------
Moves == \/ DrainKeeps \/ DrainMissesPage \/ DrainFails \/ DrainReads
         \/ DrainEnds \/ List \/ (\E m \in All : Refused(m) \/ Begin(m)) \/ WritePage \/ Promote
         \/ Mark \/ update_index \/ After \/ Ends
Next == \/ Held \/ Prefetch \/ Staged \/ Hour \/ Moves \/ DrainCapped \/ DrainRefused \/ Dies
        \/ \E l \in lines : Touch(l)
        \/ \E n \in Names : Discard(n)
Spec == Init /\ [][Next]_vars
FairSpec == Spec /\ WF_vars(Prefetch) /\ WF_vars(Hour) /\ WF_vars(Moves)
-----------------------------------------------------------------------------
(* A meeting has one set of to-dos and one catalog line: what a later       *)
(* reading writes replaces what nobody touched and is not written beside    *)
(* what somebody did.  Except on a page that a death or the user caught     *)
(* between two writes.  (_retire_first_filing, run_ingest.)                 *)
OneSet ==
  \A k, l \in lines : k.place = l.place /\ k.name = l.name /\ k.name \notin torn => k.words = l.words

(* A meeting that was filed from its summary for want of time is waiting    *)
(* for its transcript to be read, or was tried three times, or a death fell *)
(* between its page and the queue.  (run_staged, drain_deep_reads.)         *)
DeepReadKept ==
  run = None => \A m \in short :
    m \in letGo \cup torn \/ \E i \in DOMAIN queue : queue[i].id = m

(* The older meetings are all filed or let go in the end, once none of the  *)
(* newest is one the notetaker cannot deliver.  (run_history, skill_run's   *)
(* main: a quiet hour goes to the older meetings.)                          *)
Deliverable == Newest(Listed, Recent) \cap Broken = {}
HistoryEnds == <>[]Deliverable => <>history.done

(* Fails.  "so one unreadable call never holds the rest back": every hour   *)
(* finds work in the unreadable call, as long as it is among the newest,    *)
(* and no hour is quiet.                                                    *)
NoneHoldsBack == <>history.done
=============================================================================
