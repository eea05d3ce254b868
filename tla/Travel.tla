--------------------------------- MODULE Travel ---------------------------------
(***************************************************************************)
(* Travel notices (app/travel.py) as the briefings give them: a briefing   *)
(* reads the ledger of what was said, finds the flights and the meetings in*)
(* other cities that its calendar shows, says what is due about them once, *)
(* and writes the ledger after it has printed.  Nobody locks the ledger,   *)
(* and whoever writes it writes the whole copy it read.                    *)
(***************************************************************************)
EXTENDS Integers, FiniteSets

CONSTANTS
  Flights, Away,   \* events: flights, and meetings in a city that is not home
  Planned,         \* event -> the day it is on at first
  Full,            \* flights whose location names where to, and the terminal
  Booked,          \* flights whose words say they are booked
  Confirmed,       \* flights an airline has confirmed by mail
  Serves,          \* pairs of a flight and an Away it would bring one to
  Briefings,
  View,            \* briefing -> how many days ahead its calendar shows
  Lead,            \* briefing -> [departure, weather, flights], in days ahead
  Soon, Window,    \* AWAY_SOON_DAYS, AWAY_FLIGHT_WINDOW_DAYS
  Kept,            \* LEDGER_RETENTION_DAYS
  Cap,             \* ROUTES_DAILY_CAP
  Overlap,         \* may one briefing run while another does?
  LastDay, MaxMoves, MaxFaults, None   \* bounds

VARIABLES
  day,
  cal,             \* event -> its day, or None once cancelled
  ledger,          \* travel_notices.json: [shown, calls]
  run,             \* briefing -> its run, or None
  told,            \* history: notice -> how often it was printed
  owed,            \* history: departures in the view of a briefing that printed its notices
  asked,           \* history: day -> drive times asked for
  moves, faults

vars == <<day, cal, ledger, run, told, owed, asked, moves, faults>>
-----------------------------------------------------------------------------
Fault == faults < MaxFaults /\ faults' = faults + 1

Days == 0 .. LastDay
Empty == [shown |-> {}, calls |-> [d \in Days |-> 0]]
Forgetful(l) == [l EXCEPT !.shown = {x \in @ : x.date >= day}]                   \* mutant
prune_ledger(l) == [shown |-> {x \in l.shown : x.date >= day - Kept},
                    calls |-> [d \in Days |-> IF d >= day - Kept THEN l.calls[d] ELSE 0]]
already_shown(l, key) == \E x \in l.shown : x.key = key

(* An event that moved is another event: its day is part of the key.        *)
notice_key(b, kind, e) == <<b, kind, e, cal[e]>>

Ahead(e) == cal[e] - day
Sees(b) == {e \in Flights \cup Away : cal[e] # None /\ Ahead(e) \in View[b]}
detect_trips(b) == Flights \cap Sees(b)

(* What the mailbox adds.  Confirmations are asked for when something is    *)
(* missing, a read that fails gives none, and one is about the day it names.*)
fetch_confirmations(b) ==
  IF detect_trips(b) \subseteq Full /\ Away \cap Sees(b) = {} THEN {{}} ELSE {{}, Confirmed}
enrich_trip(b, mail) ==
  IF detect_trips(b) \subseteq Full THEN {} ELSE {f \in detect_trips(b) \cap mail : cal[f] = Planned[f]}
Destined(b, mail) == Full \cup enrich_trip(b, mail)

_flight_covers(b, mail, a) ==
  \/ \E f \in detect_trips(b) : cal[a] - cal[f] \in 0 .. Window /\ (f \in Destined(b, mail) => <<f, a>> \in Serves)
  \/ \E f \in mail : cal[a] - Planned[f] \in 0 .. Window /\ <<f, a>> \in Serves
detect_away(b, mail) == {a \in Away \cap Sees(b) : ~ _flight_covers(b, mail, a)}
-----------------------------------------------------------------------------
Departing(b) == {f \in detect_trips(b) : Ahead(f) <= Lead[b].departure}
Forecast(b, mail) == {f \in (detect_trips(b) \ Departing(b)) \cap Destined(b, mail) : Ahead(f) = Lead[b].weather}
Unbooked(b, mail) ==
  {f \in detect_trips(b) \ (Departing(b) \cup Forecast(b, mail) \cup Booked \cup enrich_trip(b, mail)) :
     f \in Destined(b, mail) /\ Ahead(f) >= Lead[b].flights}
Stage(a) == IF Ahead(a) <= Soon THEN "soon" ELSE "early"

(* The notices due, whether said before or not; a forecast may not be had.  *)
Notices(b, mail, skies) ==
  {notice_key(b, "departure", f) : f \in Departing(b)}
  \cup {notice_key(b, "weather", f) : f \in Forecast(b, mail) \cap skies}
  \cup {notice_key(b, "flights", f) : f \in Unbooked(b, mail)}
  \cup {notice_key(b, Stage(a), a) : a \in {x \in detect_away(b, mail) : Ahead(x) >= Lead[b].flights}}

(* A departure asks for a drive time while the day's budget lasts.          *)
Asks(l, new) ==
  LET departures == Cardinality({key \in new : key[2] = "departure"})
      left == Cap - l.calls[day]
  IN IF departures <= left THEN departures ELSE left

build_notices(b, l, mail, skies) ==
  LET new == {key \in Notices(b, mail, skies) : ~ already_shown(l, key)}
      n == Asks(l, new)
  IN [notices |-> new, owes |-> {notice_key(b, "departure", f) : f \in Departing(b)}, asks |-> n, printed |-> FALSE,
      ledger |-> [shown |-> l.shown \cup {[key |-> key, date |-> day] : key \in new},
                  calls |-> [l.calls EXCEPT ![day] = @ + n]]]
-----------------------------------------------------------------------------
Init ==
  /\ day = 0 /\ cal = Planned /\ ledger = Empty
  /\ run = [b \in Briefings |-> None]
  /\ told = [key \in {} |-> 0] /\ owed = {} /\ asked = [d \in Days |-> 0]
  /\ moves = 0 /\ faults = 0

NextDay ==
  /\ day < LastDay /\ day' = day + 1
  /\ UNCHANGED <<cal, ledger, run, told, owed, asked, moves, faults>>

Moves ==
  /\ moves < MaxMoves /\ moves' = moves + 1
  /\ \E e \in DOMAIN cal : /\ cal[e] # None /\ cal[e] >= day
                           /\ \/ cal' = [cal EXCEPT ![e] = @ + 1]
                              \/ cal' = [cal EXCEPT ![e] = None]
  /\ UNCHANGED <<day, ledger, run, told, owed, asked, faults>>

(* A ledger that cannot be read is taken for an empty one.  Any error, also *)
(* after drive times were asked for, leaves the briefing without notices.   *)
Nothing(l) == [notices |-> {}, owes |-> {}, asks |-> 0, printed |-> FALSE, ledger |-> l]
collect(b) ==
  /\ run[b] = None /\ (Overlap \/ \A c \in Briefings : run[c] = None)
  /\ \E l \in {ledger, Empty}, mail \in fetch_confirmations(b), skies \in {{}, Flights} :
       LET r == build_notices(b, prune_ledger(l), mail, skies)
       IN \/ /\ run' = [run EXCEPT ![b] = r]
             /\ asked' = [asked EXCEPT ![day] = @ + r.asks]
             /\ IF l = ledger THEN UNCHANGED faults ELSE Fault
          \/ /\ run' = [run EXCEPT ![b] = Nothing(l)]
             /\ \E n \in 0 .. r.asks : asked' = [asked EXCEPT ![day] = @ + n]
             /\ Fault
  /\ UNCHANGED <<day, cal, ledger, told, owed, moves>>

(* The briefing's document is printed with the notices in it.               *)
Prints(b) ==
  /\ run[b] # None /\ ~ run[b].printed
  /\ LET new == run[b].notices
     IN told' = [key \in DOMAIN told \cup new |->
                   (IF key \in DOMAIN told THEN told[key] ELSE 0) + (IF key \in new THEN 1 ELSE 0)]
  /\ owed' = owed \cup run[b].owes
  /\ run' = [run EXCEPT ![b].printed = TRUE]
  /\ UNCHANGED <<day, cal, ledger, asked, moves, faults>>

(* Nothing new, nothing to write.  A write that fails is not heard of.      *)
save_ledger(b) ==
  /\ run[b] # None /\ run[b].printed
  /\ IF run[b].notices = {} THEN UNCHANGED <<ledger, faults>>
     ELSE \/ ledger' = run[b].ledger /\ UNCHANGED faults
          \/ UNCHANGED ledger /\ Fault
  /\ run' = [run EXCEPT ![b] = None]
  /\ UNCHANGED <<day, cal, told, owed, asked, moves>>

(* A death in the write leaves a torn file, which is read as an empty one.  *)
Dies(b) ==
  /\ run[b] # None /\ Fault
  /\ run' = [run EXCEPT ![b] = None]
  /\ \/ UNCHANGED ledger
     \/ run[b].printed /\ run[b].notices # {} /\ ledger' = Empty
  /\ UNCHANGED <<day, cal, told, owed, asked, moves>>

Next ==
  \/ NextDay \/ Moves
  \/ \E b \in Briefings : collect(b) \/ Prints(b) \/ save_ledger(b) \/ Dies(b)

Spec == Init /\ [][Next]_vars
-----------------------------------------------------------------------------
(* A notice is given once, however often a briefing runs and however long   *)
(* the event stays in view; only a ledger that was lost, not written or not *)
(* read costs a repetition, and then one.  And what the ledger holds back   *)
(* was said: a flight in the last days of a briefing that printed its       *)
(* notices was announced by that kind of briefing.                          *)
Told == owed \subseteq DOMAIN told /\ \A key \in DOMAIN told : told[key] <= 1 + faults

(* No more drive times are asked for in a day than the cap, but for those of*)
(* briefings whose count was lost.                                          *)
CallsCapped == \A d \in Days : asked[d] <= Cap * (1 + faults)
=============================================================================
