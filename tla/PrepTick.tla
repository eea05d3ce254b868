-------------------------------- MODULE PrepTick --------------------------------
(***************************************************************************)
(* Meeting preps by mail (app/prep_send.py, app/prep_email.py): every      *)
(* fifteen minutes a tick asks whether a meeting starts within the lead    *)
(* time, has its brief written by a headless session, mails it and writes  *)
(* the meeting into a ledger; or, in daily mode, one mail a day for all of *)
(* them.  A session takes minutes, and the day and the calendar go on.     *)
(* The session finds its meeting again, by title (app/meeting_prep.py).    *)
(***************************************************************************)
EXTENDS Integers, FiniteSets

CONSTANTS
  Meetings,
  title,       \* meeting -> title
  Within,      \* pairs of titles, the first found in the second
  Planned,     \* meeting -> its start at first
  Outside,     \* meetings with somebody from outside
  Lead,        \* prep_lead_minutes
  RenderTime,  \* the moments a session may take, retries included
  Kept,        \* LEDGER_RETENTION_DAYS, in moments
  Day,         \* moments in a day
  DailyAt,     \* prep_daily_time
  Modes,       \* prep_mode: "each", "daily" or both in turn
  LastMoment,  \* bound
  MaxMoves,    \* bound: changes of the calendar
  MaxFaults,   \* bound: sessions, reads, writes that fail, and deaths
  None

VARIABLES
  now, mode,
  start,       \* the calendar: meeting -> its start, or None when cancelled
  rows,        \* prep-sent.json: [key, at]
  tick,        \* the tick under way, or None
  mailed,      \* history: [key, about, tick, at]
  owed,        \* history: keys a completed tick was to see to
  failed,      \* history: keys a session failed on
  moves, faults

history == <<mailed, owed, failed>>
vars == <<now, mode, start, rows, tick, history, moves, faults>>
-----------------------------------------------------------------------------
Fault == faults < MaxFaults /\ faults' = faults + 1
day(t) == t \div Day

event_key(m) == <<title[m], start[m]>>
Daily == <<"daily", day(now)>>

Upcoming == {m \in Meetings \cap Outside : start[m] # None /\ start[m] > now}
InWindow == {m \in Upcoming : start[m] <= now + Lead}

Forgotten(r) == {x \in r : x.at > now}                           \* mutant
prune(r) == {x \in r : x.at >= now - Kept}
already_sent(r, key) == \E x \in r : x.key = key

(* Each: the meetings in the window that the ledger lacks.  One that comes  *)
(* from two accounts is one.                                                *)
due(r) == {key \in {event_key(m) : m \in InWindow} : ~ already_sent(r, key)}
daily_due(r) == now % Day >= DailyAt /\ ~ already_sent(r, Daily)
todays_events == {m \in Upcoming : day(start[m]) = day(now)}

(* The first meeting still ahead whose title holds the one asked for.       *)
find_target_event(t) ==
  {m \in Meetings : /\ start[m] # None /\ start[m] > now /\ <<t, title[m]>> \in Within
                    /\ \A n \in Meetings : start[n] # None /\ start[n] > now /\ <<t, title[n]>> \in Within
                                           => start[m] <= start[n]}
-----------------------------------------------------------------------------
Init ==
  /\ now = 0 /\ mode \in Modes /\ start = Planned
  /\ rows = {} /\ tick = None
  /\ mailed = {} /\ owed = {} /\ failed = {} /\ moves = 0 /\ faults = 0

(* A session that has had its time is ended.                                *)
Pass ==
  /\ now < LastMoment /\ (tick # None => now - tick.since < RenderTime)
  /\ now' = now + 1
  /\ UNCHANGED <<mode, start, rows, tick, history, moves, faults>>

Replans ==
  /\ moves < MaxMoves /\ moves' = moves + 1
  /\ \E m \in Upcoming : \/ start' = [start EXCEPT ![m] = @ + 1]
                         \/ start' = [start EXCEPT ![m] = None]
  /\ UNCHANGED <<now, mode, rows, tick, history, faults>>

Tick(r, jobs, sees) ==
  tick' = [rows |-> r, due |-> jobs, since |-> now, at |-> now, sees |-> sees, key |-> None, asked |-> {},
           sent |-> FALSE]

(* The calendar is read once, or not: a failed read is an empty day.        *)
run_each ==
  /\ tick = None /\ mode = "each"
  /\ \E read \in BOOLEAN :
       /\ IF read THEN UNCHANGED faults ELSE Fault
       /\ LET r == prune(rows)
          IN IF read THEN Tick(r, due(r), {event_key(m) : m \in InWindow}) ELSE Tick(r, {}, {})
  /\ UNCHANGED <<now, mode, start, rows, history, moves>>

run_daily ==
  /\ tick = None /\ mode = "daily"
  /\ LET r == prune(rows)
     IN /\ daily_due(r)
        /\ \/ /\ todays_events # {} /\ Tick(r, {Daily}, {Daily}) /\ UNCHANGED <<rows, faults>>
           \/ /\ IF todays_events = {} THEN UNCHANGED faults ELSE Fault
              /\ rows' = r \cup {[key |-> Daily, at |-> now]} /\ UNCHANGED tick
  /\ UNCHANGED <<now, mode, start, history, moves>>
-----------------------------------------------------------------------------
(* A session begins with the earliest meeting: it looks it up, then writes  *)
(* for a while.                                                             *)
Rendering == tick # None /\ ~ tick.sent

render_prep ==
  /\ Rendering /\ tick.asked = {}
  /\ \E key \in tick.due :
       /\ \A k \in tick.due : key[2] <= k[2]
       /\ LET found == IF mode = "daily" THEN {Daily} ELSE {event_key(m) : m \in find_target_event(key[1])}
          IN tick' = [tick EXCEPT !.since = now, !.key = key, !.asked = IF found = {} THEN {None} ELSE found]
  /\ UNCHANGED <<now, mode, start, rows, history, moves, faults>>

mail ==
  /\ Rendering /\ tick.asked # {}
  /\ tick' = [tick EXCEPT !.sent = TRUE]
  /\ \E x \in tick.asked :
       mailed' = mailed \cup {[key |-> tick.key, about |-> x, tick |-> tick.at, at |-> now]}
  /\ UNCHANGED <<now, mode, start, rows, owed, failed, moves, faults>>

(* One prep failing costs that prep: not the ledger, not the next meeting.  *)
Skipped(jobs) == jobs \ {tick.key}
PrepFails ==
  /\ Rendering /\ tick.asked # {} /\ Fault
  /\ tick' = [tick EXCEPT !.due = Skipped(@), !.key = None, !.asked = {}, !.since = now]
  /\ failed' = failed \cup {tick.key}
  /\ UNCHANGED <<now, mode, start, rows, mailed, owed, moves>>

(* The day marked is the one on which the digest was done.                  *)
mark_sent(key) == [key |-> IF mode = "daily" THEN Daily ELSE key, at |-> IF mode = "daily" THEN now ELSE tick.at]
Recorded ==
  /\ tick # None /\ tick.sent
  /\ LET r == tick.rows \cup {mark_sent(tick.key)}
     IN /\ \/ rows' = r /\ UNCHANGED faults
           \/ UNCHANGED rows /\ Fault
        /\ tick' = [tick EXCEPT !.rows = r, !.due = Skipped(@), !.key = None, !.asked = {}, !.sent = FALSE,
                                !.since = now]
  /\ UNCHANGED <<now, mode, start, history, moves>>

Done ==
  /\ tick # None /\ tick.due = {}
  /\ tick' = None /\ owed' = owed \cup tick.sees
  /\ UNCHANGED <<now, mode, start, rows, mailed, failed, moves, faults>>

Die ==
  /\ tick # None /\ Fault /\ tick' = None
  /\ UNCHANGED <<now, mode, start, rows, history, moves>>

Next == Pass \/ Replans \/ run_each \/ run_daily \/ render_prep \/ mail \/ PrepFails \/ Recorded \/ Done \/ Die

Spec == Init /\ [][Next]_vars
-----------------------------------------------------------------------------
(* "Sent once, ever": a prep of one meeting at one time, or of one day,     *)
(* goes out once; only a death between mail and ledger or a ledger not      *)
(* written can cost a copy, and a prep mailed is never mailed again by a    *)
(* later tick that pruned its row.                                          *)
PrepOnce == \A x \in mailed : Cardinality({y \in mailed : y.key = x.key}) <= 1 + faults

(* A tick that saw a meeting in its window and ran to its end leaves it     *)
(* mailed, by that tick or an earlier one, whatever failed beside it.       *)
NoneMissed == \A key \in owed \ failed : \E x \in mailed : x.key = key

(* "One email per meeting": the brief mailed is about the meeting named.    *)
AboutIt == moves = 0 => \A x \in mailed : x.about = x.key

(* "A call already underway is never prepped."                              *)
BeforeTheCall == mode = "each" => \A x \in mailed : x.at < x.key[2]
=============================================================================
