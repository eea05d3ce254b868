------------------------------ MODULE Workbench ------------------------------
(***************************************************************************)
(* Who works on the tickets, and when.  Three kinds of process share the   *)
(* ledger of TicketLedger:                                                 *)
(*                                                                         *)
(*   Threads   request handlers and background workers of the Workbench    *)
(*             server (src/app/workbench_serve.py): a stage worker, a      *)
(*             build worker, the advisor worker, a chat turn that plans a  *)
(*             deck, the second half of a comment on a suggestion;         *)
(*   Terminal  `advisor.py --approve / --dismiss`;                         *)
(*   Watcher   the advisor's tick inside the half-hourly watcher           *)
(*             (src/app/advisor.py, tick).                                 *)
(*                                                                         *)
(* A worker is a program counter, the ticket it works on and the plan it   *)
(* holds in its own memory.  Each of its steps ends where it next calls    *)
(* the ledger, a model or a file writer: that is where others get in.      *)
(***************************************************************************)
EXTENDS TicketLedger, Naturals

CONSTANTS
  Threads,     \* threads the server may have at work at once
  Terminal,    \* a terminal running the advisor's command line
  Watcher,     \* the watcher's process
  NoTicket,    \* an idle worker's ticket
  Routes,      \* routes of _ticket_action, and "chat", that clients call
  PerTick,     \* MAX_EXECUTE_PER_TICK
  Replies,     \* bound: answers one tick finds in the mail
  MaxCrashes,  \* bound: processes that die
  MaxFaults,   \* bound: writes of the ledger that fail
  MaxLapses    \* bound: times the work of one ticket raises after it had begun

Workers == Threads \cup {Terminal, Watcher}

AllRoutes == {"comment", "dod", "dismiss", "restore", "rate", "pin", "stage",
              "approve", "chat"}

ASSUME WorkbenchAssumption ==
  /\ Terminal # Watcher
  /\ Terminal \notin Threads
  /\ Watcher \notin Threads
  /\ NoTicket \notin Tickets
  /\ Routes \subseteq AllRoutes
  /\ PerTick \in Nat \ {0}
  /\ Replies \in Nat
  /\ MaxCrashes \in Nat
  /\ MaxFaults \in Nat
  /\ MaxLapses \in Nat

VARIABLES
  pc,          \* worker -> where it is
  tk,          \* worker -> the ticket it works on
  hand,        \* worker -> the plan it read when, or before, it claimed its ticket
  tick,        \* where the advisor's tick is
  todo,        \* the list the tick is walking
  left,        \* answers the tick may still find
  crashes,     \* processes that have died
  faults,      \* writes of the ledger that have failed
  nod,         \* history: ticket -> the plan the last yes was given to
  finished,    \* history: ticket -> times its work was carried out, whole or in part
  lapsed       \* history: ticket -> times that work was put down as failed all the same

work == <<pc, tk, hand>>
round == <<tick, todo, left, crashes>>
schedule == <<tick, todo, left, crashes, faults>>
history == <<nod, finished, lapsed>>
vars == <<st, staged, delivery, marks, pc, tk, hand, tick, todo, left, crashes,
          faults, nod, finished, lapsed>>

DeckPCs == {"chatMove", "plan", "read", "claim", "build", "check"}
SuggestionPCs == {"noted", "yes", "no", "start", "doing", "done"}
PCs == {"idle", "failing"} \cup DeckPCs \cup SuggestionPCs

TypeOK ==
  /\ LedgerTypeOK
  /\ pc \in [Workers -> PCs]
  /\ tk \in [Workers -> Tickets \cup {NoTicket}]
  /\ hand \in [Workers -> Plans \cup {NoPlan}]
  /\ tick \in {"off", "restage", "answers", "work", "look"}
  /\ todo \in SUBSET Advisor
  /\ left \in 0..Replies
  /\ crashes \in 0..MaxCrashes
  /\ faults \in 0..MaxFaults
  /\ nod \in [Tickets -> Plans \cup {NoPlan}]
  /\ finished \in [Tickets -> Nat]
  /\ lapsed \in [Tickets -> Nat]

Init ==
  /\ LedgerInit
  /\ pc = [w \in Workers |-> "idle"]
  /\ tk = [w \in Workers |-> NoTicket]
  /\ hand = [w \in Workers |-> NoPlan]
  /\ tick = "off"
  /\ todo = {}
  /\ left = 0
  /\ crashes = 0
  /\ faults = 0
  /\ nod = [t \in Tickets |-> NoPlan]
  /\ finished = [t \in Tickets |-> 0]
  /\ lapsed = [t \in Tickets |-> 0]

-----------------------------------------------------------------------------
(* Control of a worker.                                                     *)

Begin(w, p, t) ==
  /\ pc[w] = "idle"
  /\ pc' = [pc EXCEPT ![w] = p]
  /\ tk' = [tk EXCEPT ![w] = t]
  /\ hand' = hand

Go(w, p) ==
  /\ pc' = [pc EXCEPT ![w] = p]
  /\ UNCHANGED <<tk, hand>>

End(w) ==
  /\ pc' = [pc EXCEPT ![w] = "idle"]
  /\ tk' = [tk EXCEPT ![w] = NoTicket]
  /\ hand' = [hand EXCEPT ![w] = NoPlan]

(* A worker's own try/except: the exception sends it to its except clause.  *)
Raise(w) == Go(w, "failing") /\ UNCHANGED ledger

(* A worker's call of `transition`: it moves the ticket, or it raises and   *)
(* the ledger stays: the table has no such move, or the file cannot be      *)
(* written.  (A request whose write fails answers an error and changes      *)
(* nothing: a stutter.)                                                     *)
Moves(t, to) == Move(t, to) /\ faults' = faults

Refused(t, to) ==
  /\ UNCHANGED ledger
  /\ \/ ~ Legal(t, to) /\ faults' = faults
     \/ Legal(t, to) /\ faults < MaxFaults /\ faults' = faults + 1

-----------------------------------------------------------------------------
(* Requests of the page (_ticket_action and its neighbours).                *)

(* comment: the ledger's half.  A suggestion that is in staging afterwards  *)
(* is put back by the same request, in a second call on the ledger.         *)
PageComment(w, t) ==
  /\ "comment" \in Routes
  /\ CommentOn(t)
  /\ IF t \in Advisor /\ st'[t] = "staging"
     THEN Begin(w, "noted", t)
     ELSE pc[w] = "idle" /\ UNCHANGED work
  /\ UNCHANGED <<schedule, history>>

CommentNoted(w) ==
  /\ pc[w] = "noted"
  /\ Moves(tk[w], "staged") \/ Refused(tk[w], "staged")
  /\ End(w)
  /\ UNCHANGED <<round, history>>

PageMark(t) ==
  /\ \/ "dod" \in Routes /\ EditDod(t)
     \/ "pin" \in Routes /\ \E on \in BOOLEAN : Pin(t, on)
     \/ "rate" \in Routes /\ Rate(t)
  /\ UNCHANGED <<work, schedule, history>>

PageDismiss(t) ==
  /\ "dismiss" \in Routes
  /\ Move(t, "dismissed")
  /\ UNCHANGED <<work, schedule, history>>

PageRestore(t) ==
  /\ "restore" \in Routes
  /\ Move(t, "proposed")
  /\ UNCHANGED <<work, schedule, history>>

(* stage: every type but email has a planner started for it.                *)
PageStage(w, t) ==
  /\ "stage" \in Routes
  /\ t \notin Email
  /\ Move(t, "staging")
  /\ Begin(w, "plan", t)
  /\ UNCHANGED <<schedule, history>>

(* approve: the nod, and the worker it starts.                              *)
PageApprove(w, t) ==
  /\ "approve" \in Routes
  /\ pc[w] = "idle"
  /\ Move(t, "approved")
  /\ IF t \in Advisor THEN Begin(w, "start", t)
     ELSE IF t \notin Email /\ staged[t] # NoPlan THEN Begin(w, "read", t)
     ELSE UNCHANGED work
  /\ nod' = [nod EXCEPT ![t] = staged[t]]
  /\ UNCHANGED <<finished, lapsed, schedule>>

(* The chat asked for a deck (_stage_from_chat): the ticket is created, or  *)
(* found when a deck of that title exists already, then moved and planned.  *)
PageChat(w, t) ==
  /\ "chat" \in Routes
  /\ t \in Decks
  /\ Create(t)
  /\ Begin(w, "chatMove", t)
  /\ UNCHANGED <<schedule, history>>

ChatMove(w) ==
  /\ pc[w] = "chatMove"
  /\ \/ Moves(tk[w], "staging") /\ Go(w, "plan")
     \/ Refused(tk[w], "staging") /\ Go(w, "failing")
  /\ UNCHANGED <<round, history>>

(* create by hand: the API takes a title and a type.                        *)
PageCreate(t) ==
  /\ t \in Manual
  /\ Create(t)
  /\ UNCHANGED <<work, schedule, history>>

(* A refresh of a briefing, POST /api/propose and the server's own start.   *)
Refresh ==
  /\ \E fresh \in SUBSET Briefing : Propose(fresh)
  /\ UNCHANGED <<work, schedule, history>>

-----------------------------------------------------------------------------
(* The workers.                                                             *)

(* Deviation: the worker writes `staged` without asking the table.          *)
PlannedBlindly(w) ==
  /\ pc[w] = "plan"
  /\ st' = [st EXCEPT ![tk[w]] = "staged"]
  /\ \E p \in Plans : staged' = [staged EXCEPT ![tk[w]] = p]
  /\ UNCHANGED <<delivery, marks, schedule, history>>
  /\ End(w)

(* _stage_worker and the chat: the plan comes back, or does not.            *)
Planned(w) ==
  /\ pc[w] = "plan"
  /\ \/ \E p \in Plans : FilePlan(tk[w], p) /\ End(w)
     \/ Raise(w)                       \* PlanInvalid, or the move refused
  /\ UNCHANGED <<schedule, history>>

(* _build_worker reads the ticket, claims it, builds, reopens the file.     *)
BuildRead(w) ==
  /\ pc[w] = "read"
  /\ UNCHANGED ledger
  /\ IF staged[tk[w]] = NoPlan
     THEN Go(w, "failing")
     ELSE /\ hand' = [hand EXCEPT ![w] = staged[tk[w]]]
          /\ pc' = [pc EXCEPT ![w] = "claim"]
          /\ tk' = tk
  /\ UNCHANGED <<schedule, history>>

BuildClaim(w) ==
  /\ pc[w] = "claim"
  /\ \/ Moves(tk[w], "running") /\ Go(w, "build")
     \/ Refused(tk[w], "running") /\ Go(w, "failing")
  /\ UNCHANGED <<round, history>>

Built(w) ==
  /\ pc[w] = "build"
  /\ \/ Move(tk[w], "verifying") /\ Go(w, "check")
     \/ Raise(w)                       \* the builder failed, or the move refused
  /\ UNCHANGED <<schedule, history>>

Checked(w) ==
  /\ pc[w] = "check"
  /\ \/ Deliver(tk[w], hand[w]) /\ End(w)
     \/ Raise(w)                       \* the file is not the plan, or refused
  /\ UNCHANGED <<schedule, history>>

(* Deviation: the except clause swallows the exception and nothing else.    *)
FailingSilently(w) ==
  /\ pc[w] = "failing"
  /\ End(w)
  /\ UNCHANGED <<ledger, schedule, history>>

(* The except clause every worker ends in: mark the ticket failed, and say  *)
(* nothing when the ledger refuses that too.  Work that was carried out, or *)
(* begun, before the exception is put down as failed with the rest.         *)
Failing(w) ==
  /\ pc[w] = "failing"
  /\ \/ /\ Moves(tk[w], "failed")
        /\ lapsed' = [lapsed EXCEPT ![tk[w]] = IF @ < finished[tk[w]] THEN @ + 1 ELSE @]
     \/ Refused(tk[w], "failed") /\ lapsed' = lapsed
  /\ End(w)
  /\ UNCHANGED <<round, nod, finished>>

(* Deviation: the work starts whatever the ledger said to the claim.        *)
ExecuteUnclaimed(w) ==
  /\ pc[w] = "start"
  /\ Moves(tk[w], "running") \/ Refused(tk[w], "running")
  /\ Go(w, "doing")
  /\ UNCHANGED <<round, history>>

(* advisor.execute: the move to running is the claim.                       *)
ExecuteClaim(w) ==
  /\ pc[w] = "start"
  /\ \/ /\ Moves(tk[w], "running")
        /\ pc' = [pc EXCEPT ![w] = "doing"]
        /\ hand' = [hand EXCEPT ![w] = staged[tk[w]]]
        /\ tk' = tk
     \/ Refused(tk[w], "running") /\ End(w)
  /\ UNCHANGED <<round, history>>

CarriesOut(t) == finished' = [finished EXCEPT ![t] = @ + 1]

(* Deviation: work that raised after it had begun is tried again at once.   *)
ExecuteRetried(w) ==
  /\ pc[w] = "doing"
  /\ UNCHANGED ledger
  /\ \/ Go(w, "done") /\ CarriesOut(tk[w])
     \/ Go(w, "failing") /\ finished' = finished
     \/ /\ finished[tk[w]] < 1 + MaxLapses
        /\ UNCHANGED work
        /\ CarriesOut(tk[w])
  /\ UNCHANGED <<schedule, nod, lapsed>>

(* The work is done; or it raises with nothing done; or it raises late:     *)
(* the file is built and does not verify, one page is written and the next  *)
(* is not, the draft is made and its record is not.                         *)
ExecuteDo(w) ==
  /\ pc[w] = "doing"
  /\ UNCHANGED ledger
  /\ \/ Go(w, "done") /\ CarriesOut(tk[w])
     \/ Go(w, "failing") /\ finished' = finished
     \/ lapsed[tk[w]] < MaxLapses /\ Go(w, "failing") /\ CarriesOut(tk[w])
  /\ UNCHANGED <<schedule, nod, lapsed>>

(* The work is done and its delivery is written, or that write raises.      *)
ExecuteDeliver(w) ==
  /\ pc[w] = "done"
  /\ \/ Deliver(tk[w], hand[w]) /\ End(w) /\ faults' = faults
     \/ Refused(tk[w], "delivered") /\ Go(w, "failing")
  /\ UNCHANGED <<round, history>>

-----------------------------------------------------------------------------
(* An answer about a suggestion (apply_answer): the state is read first,    *)
(* the ledger is asked after.                                               *)

Hear(w, t) ==
  \/ st[t] = "staged" /\ Begin(w, "yes", t)
  \/ st[t] \in {"staged", "failed"} /\ Begin(w, "no", t)

(* Deviation: the answer trusts the state it read before.                   *)
AnswerYesBlindly(w) ==
  /\ pc[w] = "yes"
  /\ st' = [st EXCEPT ![tk[w]] = "approved"]
  /\ nod' = [nod EXCEPT ![tk[w]] = staged[tk[w]]]
  /\ IF w = Terminal THEN Go(w, "start") ELSE End(w)
  /\ UNCHANGED <<staged, delivery, marks, schedule, finished, lapsed>>

AnswerYes(w) ==
  /\ pc[w] = "yes"
  /\ \/ /\ Moves(tk[w], "approved")
        /\ nod' = [nod EXCEPT ![tk[w]] = staged[tk[w]]]
        /\ IF w = Terminal THEN Go(w, "start") ELSE End(w)
     \/ Refused(tk[w], "approved") /\ nod' = nod /\ End(w)
  /\ UNCHANGED <<round, finished, lapsed>>

AnswerNo(w) ==
  /\ pc[w] = "no"
  /\ Moves(tk[w], "dismissed") \/ Refused(tk[w], "dismissed")
  /\ End(w)
  /\ UNCHANGED <<round, history>>

TerminalAnswers(t) ==
  /\ t \in Advisor
  /\ Hear(Terminal, t)
  /\ UNCHANGED <<ledger, schedule, history>>

-----------------------------------------------------------------------------
(* The advisor's tick: put back commented suggestions, read the answers,    *)
(* do up to PerTick approved ones, then the day's look.                     *)

(* Deviation: a tick that puts back nothing.                                *)
TickStartOnly ==
  /\ tick = "off"
  /\ tick' = "restage"
  /\ todo' = {}
  /\ UNCHANGED <<ledger, work, left, crashes, faults, history>>

TickStart ==
  /\ tick = "off"
  /\ tick' = "restage"
  /\ todo' = {t \in Advisor : st[t] = "staging"}
  /\ UNCHANGED <<ledger, work, left, crashes, faults, history>>

(* One refused move ends the walk: the try is around the whole loop.        *)
Restage ==
  /\ tick = "restage"
  /\ \E t \in todo :
       \/ Moves(t, "staged") /\ todo' = todo \ {t}
       \/ Refused(t, "staged") /\ todo' = {}
  /\ UNCHANGED <<work, tick, left, crashes, history>>

RestageEnd ==
  /\ tick = "restage"
  /\ todo = {}
  /\ tick' = "answers"
  /\ left' = Replies
  /\ UNCHANGED <<ledger, work, todo, crashes, faults, history>>

(* An answer about a ticket that is not waiting "was already answered".     *)
TickAnswer ==
  /\ tick = "answers"
  /\ left > 0
  /\ left' = left - 1
  /\ \E t \in Advisor : Hear(Watcher, t)
  /\ UNCHANGED <<ledger, tick, todo, crashes, faults, history>>

(* Deviation: the tick does only what the terminal approved.                *)
ApprovedNow == {t \in Advisor : st[t] = "approved" /\ pc[Terminal] = "start"}

Approved == {t \in Advisor : st[t] = "approved"}

AnswersEnd ==
  /\ tick = "answers"
  /\ pc[Watcher] = "idle"
  /\ tick' = "work"
  /\ \E waiting \in SUBSET Approved :
       /\ Cardinality(waiting) <= PerTick
       /\ Cardinality(waiting) < PerTick => waiting = Approved
       /\ todo' = waiting
  /\ left' = 0
  /\ UNCHANGED <<ledger, work, crashes, faults, history>>

TickExecute ==
  /\ tick = "work"
  /\ \E t \in todo : Begin(Watcher, "start", t) /\ todo' = todo \ {t}
  /\ UNCHANGED <<ledger, tick, left, crashes, faults, history>>

WorkEnd ==
  /\ tick = "work"
  /\ todo = {}
  /\ pc[Watcher] = "idle"
  /\ tick' = "look"
  /\ UNCHANGED <<ledger, work, todo, left, crashes, faults, history>>

Suggest ==
  /\ tick = "look"
  /\ \E t \in Advisor, p \in Plans : AddSuggestion(t, p)
  /\ UNCHANGED <<work, schedule, history>>

TickEnd ==
  /\ tick = "look"
  /\ tick' = "off"
  /\ UNCHANGED <<ledger, work, todo, left, crashes, faults, history>>

-----------------------------------------------------------------------------
(* A process dies.  The ledger's file survives, the worker's memory does    *)
(* not, and nothing resumes it: a restarted server starts no worker.        *)

Dies(dead) ==
  /\ crashes < MaxCrashes
  /\ crashes' = crashes + 1
  /\ pc' = [w \in Workers |-> IF w \in dead THEN "idle" ELSE pc[w]]
  /\ tk' = [w \in Workers |-> IF w \in dead THEN NoTicket ELSE tk[w]]
  /\ hand' = [w \in Workers |-> IF w \in dead THEN NoPlan ELSE hand[w]]
  /\ UNCHANGED <<ledger, faults, history>>

ServerDies ==
  /\ \E w \in Threads : pc[w] # "idle"
  /\ Dies(Threads)
  /\ UNCHANGED <<tick, todo, left>>

TerminalDies ==
  /\ pc[Terminal] # "idle"
  /\ Dies({Terminal})
  /\ UNCHANGED <<tick, todo, left>>

WatcherDies ==
  /\ tick # "off"
  /\ Dies({Watcher})
  /\ tick' = "off"
  /\ todo' = {}
  /\ left' = 0

-----------------------------------------------------------------------------
PageStep ==
  \/ \E t \in Tickets :
       \/ PageMark(t)
       \/ PageDismiss(t)
       \/ PageRestore(t)
       \/ PageCreate(t)
  \/ \E w \in Threads, t \in Tickets :
       \/ PageComment(w, t)
       \/ PageStage(w, t)
       \/ PageApprove(w, t)
       \/ PageChat(w, t)
  \/ Refresh

WorkerStep(w) ==
  \/ CommentNoted(w)
  \/ ChatMove(w)
  \/ Planned(w)
  \/ BuildRead(w)
  \/ BuildClaim(w)
  \/ Built(w)
  \/ Checked(w)
  \/ Failing(w)
  \/ ExecuteClaim(w)
  \/ ExecuteDo(w)
  \/ ExecuteDeliver(w)
  \/ AnswerYes(w)
  \/ AnswerNo(w)

TickStep ==
  \/ TickStart
  \/ Restage
  \/ RestageEnd
  \/ TickAnswer
  \/ AnswersEnd
  \/ TickExecute
  \/ WorkEnd
  \/ Suggest
  \/ TickEnd

Crash ==
  \/ ServerDies
  \/ TerminalDies
  \/ WatcherDies

Next ==
  \/ PageStep
  \/ \E w \in Workers : WorkerStep(w)
  \/ \E t \in Tickets : TerminalAnswers(t)
  \/ TickStep
  \/ Crash

Spec == Init /\ [][Next]_vars

(* A started thread runs on, and the scheduler starts the watcher again and *)
(* again; nothing obliges a user, or a model's look, to do anything.        *)
Fairness ==
  /\ \A w \in Workers : WF_vars(WorkerStep(w))
  /\ WF_vars(TickStart)
  /\ WF_vars(Restage)
  /\ WF_vars(RestageEnd)
  /\ WF_vars(AnswersEnd)
  /\ WF_vars(TickExecute)
  /\ WF_vars(WorkEnd)
  /\ WF_vars(TickEnd)

FairSpec == Spec /\ Fairness

-----------------------------------------------------------------------------
(* Properties.                                                              *)

(* Who is carrying out the work of a ticket right now.                      *)
Hands(t) == {w \in Workers : tk[w] = t /\ pc[w] \in {"doing", "done"}}

(* A suggestion is worked on by one process at a time: a Workbench press, a *)
(* terminal and a watcher tick that reach it together do not both do it     *)
(* (the docstring of advisor.execute).                                      *)
OneHand == \A t \in Advisor : \A v, w \in Hands(t) : v = w

(* The work of a suggestion is carried out at most once, over races of its  *)
(* executors, second yeses, failed writes and deaths of processes, but for  *)
(* work that raised after it had begun, or whose delivery could not be      *)
(* written: `execute` puts that down as failed, and one more yes has it     *)
(* done one more time.                                                      *)
DoneOnce == \A t \in Advisor : finished[t] <= 1 + lapsed[t]

(* Work that was carried out can be reported as delivered: when its         *)
(* executor comes back to the ledger, nobody has moved the ticket.          *)
WorkIsReported ==
  \A w \in Workers : pc[w] = "done" => Legal(tk[w], "delivered")

(* A refresh may never destroy user intent (module docstring of             *)
(* workbench_store.py): a row that goes carried nothing of the user's.      *)
IntentKept ==
  [][\A t \in Tickets :
       st[t] # "absent" /\ st'[t] = "absent" => marks[t] = {}]_vars

(* A no is an answer: a dismissed ticket is not asked about, planned or     *)
(* worked on again, whichever worker or answer was still under way.         *)
NoIsFinal ==
  [][\A t \in Tickets : st[t] = "dismissed" => st'[t] = "dismissed"]_vars

(* A yes to a suggestion is acted on even when the process that was to do   *)
(* the work died before claiming it: the watcher's tick finds it approved.  *)
YesIsTakenUp == \A t \in Advisor : st[t] = "approved" ~> st[t] # "approved"

(* A commented suggestion does not stay in staging, where nobody plans it:  *)
(* the request puts it back, or the watcher's _restage does.                *)
CommentReturns == \A t \in Advisor : st[t] = "staging" ~> st[t] # "staging"

(* Work that was claimed comes to an end, with an outcome, unless a process *)
(* dies or the ledger cannot be written: every path out of a worker is      *)
(* delivered or failed.                                                     *)
InWork(t) == st[t] \in {"running", "verifying"}
WorkSettles ==
  \A t \in Tickets : InWork(t) ~> ~ InWork(t) \/ crashes > 0 \/ faults > 0

(* A commented deck "is being planned again" (advisor.py, _restage): some   *)
(* worker is planning every deck that is in staging.                        *)
StagingIsPlanned ==
  \A t \in Decks :
    st[t] = "staging" => \E w \in Workers : tk[w] = t /\ pc[w] = "plan"

(* The deck that is built is the deck that was approved.                    *)
BuildsTheApproved ==
  \A w \in Workers : pc[w] = "build" => hand[w] = nod[tk[w]]

(* The Workbench keeps the promises of module Consent for every suggestion. *)
PhaseOf ==
  [s \in States |->
     CASE s = "absent"                -> "unasked"
       [] s \in {"staging", "staged"} -> "asked"
       [] s = "approved"              -> "approved"
       [] s \in {"running", "verifying"} -> "working"
       [] s \in {"delivered", "rated"} -> "delivered"
       [] s = "failed"                -> "failed"
       [] s \in {"dismissed", "proposed"} -> "declined"]

Owner(w, t) == tk[w] = t /\ pc[w] \in {"doing", "done", "failing"}

Phase == [t \in Advisor |-> PhaseOf[st[t]]]
Doing == {t \in Advisor : \E w \in Workers : Owner(w, t)}
CarriedOut == {t \in Advisor : finished[t] > lapsed[t]}

C == INSTANCE Consent WITH
       Suggestions <- Advisor, phase <- Phase, doing <- Doing, carried <- CarriedOut

KeepsConsent == C!ConsentSpec
=============================================================================
