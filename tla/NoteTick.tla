------------------------------- MODULE NoteTick -------------------------------
(***************************************************************************)
(* The Note (app/note_send.py, app/note_watch.py): every fifteen minutes a *)
(* tick reads the mail that came since the last one and the calendar,      *)
(* compares them with the page of the briefing and with its own snapshot,  *)
(* mails the first few events of the day one by one and folds the rest     *)
(* into the next briefing.  It holds everything while a meeting runs.      *)
(*                                                                         *)
(* One tick runs at a time, for minutes; the clock and the mailbox go on.  *)
(* Every mail here is on a watched thread.  The rendering of a Note is one *)
(* step that works or fails.  Both files are written in place, a write that*)
(* fails is passed over, and a file that cannot be read, or that was cut   *)
(* short, is read as empty.                                                *)
(***************************************************************************)
EXTENDS Integers, FiniteSets

CONSTANTS
  Mails,      \* messages of counterparties on watched threads
  Passes,     \* those that also read like a pass on a deal
  Planned,    \* the calendar at first: a set of [title, start]
  Day,        \* moments in a day
  Zone,       \* how far ahead of local time UTC is
  Slack,      \* FETCH_SLACK_MIN
  Lookback,   \* FIRST_TICK_LOOKBACK_MIN
  Lag,        \* how long after its received stamp a message can be listed
  Cap,        \* notes_daily_cap
  Kept,       \* LEDGER_RETENTION_DAYS, in moments
  LastMoment, \* bound: when a behaviour ends
  MaxMoves,   \* bound: changes of the calendar
  MaxFaults,  \* bound: failures, deaths and listings that leave mail out
  None

VARIABLES
  now,
  mail,       \* message -> None or when it was received and when it could be listed
  cal,        \* the calendar
  ledger,     \* notes-sent.json: rows of events told
  state,      \* notes-state.json: the day, the last tick, the snapshot; torn:
              \* it was cut short since, and says nothing
  tick,       \* the tick under way, or None
  mailed,     \* history: the notes mailed, with the tick that mailed them
  folded,     \* history: the events folded
  missed,     \* history: events that a listing left out, a lost state passed over
              \* or a failed note gave up
  changed,    \* history: occurrences moved or cancelled
  moves, faults

told == <<mailed, folded, missed>>
world == <<mail, cal, changed, moves>>
vars == <<now, world, ledger, state, tick, told, faults>>
-----------------------------------------------------------------------------
day(t) == t \div Day
utc_day(t) == (t + Zone) \div Day

Fault == faults < MaxFaults /\ faults' = faults + 1

Init ==
  /\ now = 0
  /\ mail = [m \in Mails |-> None]
  /\ cal = Planned
  /\ ledger = {}
  /\ state = [day |-> 0, last |-> 0, snapshot |-> {}, torn |-> FALSE]
  /\ tick = None
  /\ mailed = {} /\ folded = {} /\ missed = {}
  /\ changed = {} /\ moves = 0 /\ faults = 0

Pass ==
  /\ now < LastMoment /\ now' = now + 1
  /\ UNCHANGED <<world, ledger, state, tick, told, faults>>

Arrives(m) ==
  /\ mail[m] = None
  /\ \E late \in 0 .. Lag : now >= late /\ mail' = [mail EXCEPT ![m] = [received |-> now - late, listed |-> now]]
  /\ UNCHANGED <<now, cal, changed, moves, ledger, state, tick, told, faults>>

Replans ==
  /\ moves < MaxMoves /\ moves' = moves + 1
  /\ \E e \in cal : /\ e.start > now
                    /\ \/ cal' = cal \ {e}
                       \/ cal' = (cal \ {e}) \cup {[e EXCEPT !.start = @ + 1]}
                    /\ changed' = changed \cup {e}
  /\ UNCHANGED <<now, mail, ledger, state, tick, told, faults>>
-----------------------------------------------------------------------------
(* What a tick sees.                                                        *)

(* Every meeting of today and tomorrow, in UTC, that has not ended.         *)
fetch_all_events == {e \in cal : e.start >= now /\ utc_day(e.start) <= utc_day(now) + 1}

(* Keyed on the title: of two meetings of one title the later stays.        *)
calendar_snapshot(events) == {e \in events : \A f \in events : f.title = e.title => f.start <= e.start}

calendar_events(previous, current) ==
  LET Gone == {p \in previous : p.start > now /\ \A c \in current : c.title # p.title}
      Moved == {pc \in previous \X current : pc[1].title = pc[2].title /\ pc[1].start # pc[2].start}
  IN {[id |-> <<"gone", p.title, p.start>>, at |-> p.start] : p \in Gone}
     \cup {[id |-> <<"moved", pc[1].title, pc[1].start, pc[2].start>>, at |-> pc[1].start] : pc \in Moved}

in_meeting(events) == \E e \in events : e.start = now

(* From the last tick, as far as it is known.                               *)
NoSlack(known) == IF known THEN state.last ELSE now - Lookback   \* mutant
Since(known) == IF known THEN state.last - Slack ELSE now - Lookback

(* What there is to list since then; a call that fails lists nothing, one   *)
(* message that cannot be read is passed over, and what lies beyond the one *)
(* page of 50, which all mail fills, is not asked for: Look takes a part.   *)
fetch_inbound(since) == {m \in Mails : mail[m] # None /\ mail[m].received >= since}

Ids(m) == {<<"reply", m>>} \cup (IF m \in Passes THEN {<<"deal", m>>} ELSE {})
mail_events(inbound) == UNION {{[id |-> i, at |-> mail[m].received] : i \in Ids(m)} : m \in inbound}

Forgotten(rows) == {r \in rows : r.at >= now}                    \* mutant
prune(rows) == {r \in rows : r.at >= now - Kept}
Rows(kept) == IF kept THEN prune(ledger) ELSE {}
sent_today(rows) == Cardinality({r \in rows : r.status = "sent" /\ r.day = day(now)})
Room(rows) == IF sent_today(rows) < Cap THEN Cap - sent_today(rows) ELSE 0

(* The events not in the ledger: the earliest are mailed while there is     *)
(* room, the rest folded, all of them held while a meeting runs.            *)
select(fresh, room) ==
  {fire \in SUBSET fresh : /\ Cardinality(fire) = IF Cardinality(fresh) < room THEN Cardinality(fresh) ELSE room
                           /\ \A e \in fire, f \in fresh \ fire : e.at <= f.at}

(* With the calendar or without; with the rows and the last tick as they are*)
(* on file, or as if there were none; with this part of the mail.           *)
Takes(plan, kept, known, inbound) ==
  LET calendar == IF plan THEN fetch_all_events ELSE {}
      rows == Rows(kept)
      current == calendar_snapshot(calendar)
      previous == IF known /\ state.day = day(now) THEN state.snapshot ELSE {}
      events == mail_events(inbound) \cup calendar_events(previous, current)
      fresh == {e \in events : \A r \in rows : r.id # e.id}
      due == fetch_inbound(IF known THEN Since(known) ELSE state.last - Slack)
  IN /\ IF plan /\ kept /\ known = ~ state.torn /\ inbound = fetch_inbound(Since(known))
        THEN UNCHANGED faults ELSE Fault
     /\ fresh = {} \/ ~ in_meeting(calendar)
     /\ \E fire \in select(fresh, Room(rows)) :
          tick' = [at |-> now, snapshot |-> current, rows |-> rows, fire |-> fire, fold |-> fresh \ fire, sent |-> None]
     /\ missed' = missed \cup UNION {Ids(m) : m \in due \ inbound}

Look ==
  /\ tick = None /\ now > state.last
  /\ \E plan, kept \in BOOLEAN, known \in {~ state.torn, FALSE} :
       \E inbound \in SUBSET fetch_inbound(Since(known)) : Takes(plan, kept, known, inbound)
  /\ UNCHANGED <<now, world, ledger, state, mailed, folded>>
-----------------------------------------------------------------------------
(* The notes, one by one, each mailed and then recorded.  A mail that the   *)
(* server took and that fails all the same leaves no row.  The tick goes on *)
(* with the rows it holds, whatever became of the file.                     *)
Row(e, status) == [id |-> e.id, status |-> status, day |-> day(tick.at), at |-> tick.at]
record(e, status) == tick.rows \cup {Row(e, status)}
Busy == tick # None /\ tick.sent = None
Saves(rows) == \/ ledger' = rows /\ UNCHANGED faults
               \/ Fault /\ ledger' \in {ledger, {}}
Torn == [state EXCEPT !.torn = TRUE]
Ended == [day |-> day(tick.at), last |-> tick.at, snapshot |-> tick.snapshot, torn |-> FALSE]

Note ==
  /\ Busy /\ \E e \in tick.fire :
       /\ \A f \in tick.fire : e.at <= f.at
       /\ \/ /\ tick' = [tick EXCEPT !.sent = e]
             /\ mailed' = mailed \cup {[id |-> e.id, tick |-> tick.at]}
             /\ UNCHANGED <<missed, faults>>
          \/ /\ Fault /\ tick' = [tick EXCEPT !.fire = @ \ {e}]
             /\ \/ missed' = missed \cup {e.id} /\ UNCHANGED mailed
                \/ mailed' = mailed \cup {[id |-> e.id, tick |-> tick.at]} /\ UNCHANGED missed
  /\ UNCHANGED <<now, world, ledger, state, folded>>

Recorded ==
  /\ tick # None /\ tick.sent # None
  /\ LET rows == record(tick.sent, "sent") IN
       /\ Saves(rows) /\ tick' = [tick EXCEPT !.rows = rows, !.fire = @ \ {tick.sent}, !.sent = None]
  /\ UNCHANGED <<now, world, state, told>>

Fold ==
  /\ Busy /\ tick.fire = {}
  /\ \E e \in tick.fold : LET rows == record(e, "folded") IN
       /\ Saves(rows) /\ tick' = [tick EXCEPT !.rows = rows, !.fold = @ \ {e}]
       /\ folded' = folded \cup {e.id}
  /\ UNCHANGED <<now, world, state, mailed, missed>>

Done ==
  /\ Busy /\ tick.fire = {} /\ tick.fold = {}
  /\ \/ state' = Ended /\ UNCHANGED faults
     \/ Fault /\ state' \in {state, Torn}
  /\ tick' = None
  /\ UNCHANGED <<now, world, ledger, told>>

(* Also in the middle of a write.                                           *)
Die ==
  /\ tick # None /\ Fault /\ tick' = None
  /\ \/ UNCHANGED <<ledger, state>>
     \/ (tick.sent # None \/ (tick.fire = {} /\ tick.fold # {})) /\ ledger' = {} /\ UNCHANGED state
     \/ tick.fire \cup tick.fold = {} /\ state' = Torn /\ UNCHANGED ledger
  /\ UNCHANGED <<now, world, told>>

Next == Pass \/ Replans \/ Look \/ Note \/ Recorded \/ Fold \/ Done \/ Die \/ \E m \in Mails : Arrives(m)

Spec == Init /\ [][Next]_vars
-----------------------------------------------------------------------------
(* No reply is lost in silence of the tick: what could be listed before the *)
(* last tick on record began has been mailed or folded, however late the    *)
(* provider listed it and however many ticks held, died or could not write, *)
(* unless a listing left that very message out (a failed call or read, a    *)
(* full page), the state that would have reached back to it was lost, or its*)
(* own note failed.                                                         *)
Noticed ==
  \A m \in Mails : mail[m] # None /\ mail[m].listed < state.last =>
    \A i \in Ids(m) : i \in folded \cup missed \/ \E n \in mailed : n.id = i

(* A reply is mailed once, and not after it was folded; each fault can cost *)
(* one more of it: a death between the mail and its row, a mail that raised *)
(* though it was taken, a ledger not written, cut short or not readable.    *)
(* (Within the ledger's retention.)                                         *)
Copies(i) == Cardinality({n \in mailed : n.id = i})
OnceNoted ==
  \A m \in Mails : \A i \in Ids(m) : Copies(i) <= 1 + faults /\ (i \in folded /\ faults = 0 => Copies(i) = 0)

(* "What changed on today's calendar since the last tick": a note that a    *)
(* meeting moved is about a meeting that was changed (note_watch).          *)
MoveIsReal ==
  faults = 0 => \A n \in mailed : n.id[1] \in {"gone", "moved"} =>
    \E e \in changed : e.title = n.id[2] /\ e.start = n.id[3]
=============================================================================
