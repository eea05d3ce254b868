--------------------------- MODULE WorkbenchProofs ---------------------------
(***************************************************************************)
(* Proofs about the Workbench, for any set of tickets and threads.         *)
(***************************************************************************)
EXTENDS Workbench, TLAPS

(* What the assumptions on the constants say of the workers.                *)
LEMMA WorkersFacts == Terminal \in Workers /\ Watcher \in Workers /\ Threads \subseteq Workers
  BY DEF Workers

(* A worker that is not idle works on a ticket.                             *)
AtWork == \A w \in Workers : pc[w] # "idle" => tk[w] \in Tickets

WorkInv == TypeOK /\ AtWork

LEMMA WorkInit == Init => WorkInv
  BY LedgerAssumption, WorkbenchAssumption
  DEF Init, WorkInv, AtWork, TypeOK, LedgerInit, LedgerTypeOK, PCs, States, Marks

LEMMA WorkPage == WorkInv /\ PageStep => WorkInv'
<1> SUFFICES ASSUME WorkInv, PageStep PROVE WorkInv'
  OBVIOUS
<1> USE LedgerAssumption, WorkbenchAssumption, WorkersFacts
        DEF WorkInv, AtWork, TypeOK, LedgerTypeOK, ledger, work, schedule, round, history
<1>1. ASSUME NEW t \in Tickets, PageMark(t) PROVE WorkInv'
  BY <1>1 DEF PageMark, EditDod, Pin, Rate, Marks, States
<1>2. ASSUME NEW t \in Tickets, PageDismiss(t) PROVE WorkInv'
  BY <1>2 DEF PageDismiss, Move, Moves, Refused, States
<1>3. ASSUME NEW t \in Tickets, PageRestore(t) PROVE WorkInv'
  BY <1>3 DEF PageRestore, Move, Moves, Refused, States
<1>4. ASSUME NEW t \in Tickets, PageCreate(t) PROVE WorkInv'
  BY <1>4 DEF PageCreate, Create, States
<1>5. ASSUME NEW w \in Threads, NEW t \in Tickets, PageComment(w, t) PROVE WorkInv'
  BY <1>5 DEF PageComment, CommentOn, Begin, Marks, States, PCs, SuggestionPCs
<1>6. ASSUME NEW w \in Threads, NEW t \in Tickets, PageStage(w, t) PROVE WorkInv'
  BY <1>6 DEF PageStage, Move, Moves, Refused, Begin, States, PCs, DeckPCs
<1>7. ASSUME NEW w \in Threads, NEW t \in Tickets, PageApprove(w, t) PROVE WorkInv'
  BY <1>7 DEF PageApprove, Move, Moves, Refused, Begin, States, PCs, DeckPCs, SuggestionPCs
<1>8. ASSUME NEW w \in Threads, NEW t \in Tickets, PageChat(w, t) PROVE WorkInv'
  BY <1>8 DEF PageChat, Create, Begin, States, PCs, DeckPCs
<1>9. CASE Refresh
  BY <1>9 DEF Refresh, Propose, States
<1> QED
  BY <1>1, <1>2, <1>3, <1>4, <1>5, <1>6, <1>7, <1>8, <1>9 DEF PageStep

LEMMA WorkWorker == ASSUME WorkInv, NEW w \in Workers, WorkerStep(w)
                    PROVE  WorkInv'
<1> USE LedgerAssumption, WorkbenchAssumption
        DEF WorkInv, AtWork, TypeOK, LedgerTypeOK, ledger, work, schedule, round, history,
            PCs, States, Go, End
<1>1. CASE CommentNoted(w)
  BY <1>1 DEF CommentNoted, Move, Moves, Refused
<1>2. CASE ChatMove(w)
  BY <1>2 DEF ChatMove, Move, Moves, Refused, Raise, DeckPCs
<1>3. CASE Planned(w)
  BY <1>3 DEF Planned, FilePlan, Raise
<1>4. CASE BuildRead(w)
  BY <1>4 DEF BuildRead, DeckPCs
<1>5. CASE BuildClaim(w)
  BY <1>5 DEF BuildClaim, Move, Moves, Refused, Raise, DeckPCs
<1>6. CASE Built(w)
  BY <1>6 DEF Built, Move, Moves, Refused, Raise, DeckPCs
<1>7. CASE Checked(w)
  BY <1>7 DEF Checked, Deliver, Raise
<1>8. CASE Failing(w)
  BY <1>8 DEF Failing, Move, Moves, Refused
<1>9. CASE ExecuteClaim(w)
  BY <1>9 DEF ExecuteClaim, Move, Moves, Refused, SuggestionPCs
<1>10. CASE ExecuteDo(w)
  BY <1>10 DEF ExecuteDo, CarriesOut, SuggestionPCs
<1>11. CASE ExecuteDeliver(w)
  BY <1>11 DEF ExecuteDeliver, Deliver, Refused
<1>12. CASE AnswerYes(w)
  BY <1>12 DEF AnswerYes, Move, Moves, Refused, SuggestionPCs
<1>13. CASE AnswerNo(w)
  BY <1>13 DEF AnswerNo, Move, Moves, Refused
<1> QED
  BY <1>1, <1>2, <1>3, <1>4, <1>5, <1>6, <1>7, <1>8, <1>9, <1>10, <1>11, <1>12, <1>13
  DEF WorkerStep

LEMMA WorkTerminal == ASSUME WorkInv, NEW t \in Tickets, TerminalAnswers(t)
                      PROVE  WorkInv'
  BY LedgerAssumption, WorkersFacts
  DEF WorkInv, AtWork, TypeOK, LedgerTypeOK, ledger, schedule, round, history,
      TerminalAnswers, Hear, Begin, PCs, SuggestionPCs

LEMMA WorkTick == WorkInv /\ TickStep => WorkInv'
<1> SUFFICES ASSUME WorkInv, TickStep PROVE WorkInv'
  OBVIOUS
<1> USE LedgerAssumption, WorkbenchAssumption, WorkersFacts
        DEF WorkInv, AtWork, TypeOK, LedgerTypeOK, ledger, work, schedule, round, history
<1>1. CASE TickStart
  BY <1>1 DEF TickStart
<1>2. CASE Restage
  BY <1>2 DEF Restage, Move, Moves, Refused, States
<1>3. CASE RestageEnd
  BY <1>3 DEF RestageEnd
<1>4. CASE TickAnswer
  BY <1>4 DEF TickAnswer, Hear, Begin, PCs, SuggestionPCs
<1>5. CASE AnswersEnd
  BY <1>5 DEF AnswersEnd, Approved
<1>6. CASE TickExecute
  BY <1>6 DEF TickExecute, Begin, PCs, SuggestionPCs
<1>7. CASE WorkEnd
  BY <1>7 DEF WorkEnd
<1>8. CASE Suggest
  BY <1>8 DEF Suggest, AddSuggestion, States
<1>9. CASE TickEnd
  BY <1>9 DEF TickEnd
<1> QED
  BY <1>1, <1>2, <1>3, <1>4, <1>5, <1>6, <1>7, <1>8, <1>9 DEF TickStep

LEMMA WorkCrash == WorkInv /\ Crash => WorkInv'
<1> SUFFICES ASSUME WorkInv, Crash PROVE WorkInv'
  OBVIOUS
<1> USE LedgerAssumption, WorkbenchAssumption
        DEF WorkInv, AtWork, TypeOK, LedgerTypeOK, ledger, history, Dies, PCs
<1>1. CASE ServerDies
  BY <1>1 DEF ServerDies
<1>2. CASE TerminalDies
  BY <1>2 DEF TerminalDies
<1>3. CASE WatcherDies
  BY <1>3 DEF WatcherDies
<1> QED
  BY <1>1, <1>2, <1>3 DEF Crash

LEMMA WorkStep == WorkInv /\ [Next]_vars => WorkInv'
<1> SUFFICES ASSUME WorkInv, [Next]_vars PROVE WorkInv'
  OBVIOUS
<1>1. CASE UNCHANGED vars
  BY <1>1 DEF vars, WorkInv, AtWork, TypeOK, LedgerTypeOK
<1>2. CASE Next
  BY <1>2, WorkPage, WorkWorker, WorkTerminal, WorkTick, WorkCrash DEF Next
<1> QED
  BY <1>1, <1>2

(* Every variable keeps its type, for any tickets, threads and routes.      *)
THEOREM TypeCorrect == Spec => []TypeOK
<1>1. Init => WorkInv
  BY WorkInit
<1>2. WorkInv /\ [Next]_vars => WorkInv'
  BY WorkStep
<1>3. WorkInv => TypeOK
  BY DEF WorkInv
<1> QED
  BY <1>1, <1>2, <1>3, PTL DEF Spec

-----------------------------------------------------------------------------
(* One yes, one piece of work.  The invariant says who owns a suggestion:   *)
(* a worker between its claim and its outcome.  Owning implies the ticket   *)
(* is running, so no second claim is legal and no other move of the ticket  *)
(* is; a piece of work that was carried out leaves the ticket in a state    *)
(* from which `approved` cannot be reached again until it is put down as    *)
(* failed, and that is counted.                                             *)

Tasks ==
  \A w \in Workers :
    /\ pc[w] \in DeckPCs => tk[w] \notin Advisor
    /\ pc[w] \in SuggestionPCs => tk[w] \in Advisor

Owned ==
  \A w \in Workers, t \in Advisor :
    Owner(w, t) => /\ st[t] = "running"
                   /\ pc[w] = "doing" => finished[t] = lapsed[t]
                   /\ pc[w] = "done" => finished[t] = lapsed[t] + 1

OneOwner ==
  \A t \in Advisor, v, w \in Workers : Owner(v, t) /\ Owner(w, t) => v = w

Carried ==
  \A t \in Advisor :
    \/ finished[t] = lapsed[t]
    \/ finished[t] = lapsed[t] + 1 /\ st[t] \in {"running", "delivered", "rated"}

SuggestionInv == Tasks /\ Owned /\ OneOwner /\ Carried

(* What the lifecycle table allows of the states that matter here.          *)
LEMMA TableFacts ==
  ASSUME TypeOK, NEW t \in Tickets, NEW to, Legal(t, to)
  PROVE  /\ st[t] = "running" => to \in {"verifying", "delivered", "failed"}
         /\ st[t] = "delivered" => to = "rated"
         /\ st[t] # "rated"
         /\ st[t] # "absent"
         /\ to = "running" => st[t] \in {"approved", "verifying"}
         /\ to = "dismissed" => st[t] \in {"proposed", "staging", "staged", "failed"}
         /\ to = "proposed" => st[t] = "dismissed"
         /\ st[t] = "dismissed" => to = "proposed"
         /\ to = "staged" => st[t] = "staging"
         /\ to = "approved" => st[t] \in {"proposed", "staged", "failed"}
  BY LedgerAssumption DEF Legal, Transitions, TypeOK, LedgerTypeOK, States

LEMMA RunningMoves ==
  ASSUME TypeOK, NEW t \in Tickets, st[t] = "running"
  PROVE  Legal(t, "delivered") /\ Legal(t, "failed")
  BY DEF Legal, Transitions, States

LEMMA SuggestionInit == Init => SuggestionInv
  BY LedgerAssumption
  DEF Init, LedgerInit, SuggestionInv, Tasks, Owned, OneOwner, Carried, Owner,
      DeckPCs, SuggestionPCs

LEMMA SuggestionPage ==
  ASSUME "stage" \notin Routes, WorkInv, SuggestionInv, PageStep
  PROVE  SuggestionInv'
<1> USE LedgerAssumption, WorkbenchAssumption, WorkersFacts
        DEF WorkInv, AtWork, TypeOK, LedgerTypeOK, work, schedule, round, history,
            SuggestionInv, Tasks, Owned, OneOwner, Carried, Owner, DeckPCs, SuggestionPCs
<1>1. ASSUME NEW t \in Tickets, PageMark(t) PROVE SuggestionInv'
  BY <1>1 DEF PageMark, EditDod, Pin, Rate
<1>2. ASSUME NEW t \in Tickets, PageDismiss(t) PROVE SuggestionInv'
  BY <1>2, TableFacts DEF PageDismiss, Move, Moves, Refused
<1>3. ASSUME NEW t \in Tickets, PageRestore(t) PROVE SuggestionInv'
  BY <1>3, TableFacts DEF PageRestore, Move, Moves, Refused
<1>4. ASSUME NEW t \in Tickets, PageCreate(t) PROVE SuggestionInv'
  BY <1>4 DEF PageCreate, Create, Manual
<1>5. ASSUME NEW w \in Threads, NEW t \in Tickets, PageComment(w, t) PROVE SuggestionInv'
  BY <1>5 DEF PageComment, CommentOn, Begin
<1>6. ASSUME NEW w \in Threads, NEW t \in Tickets, PageStage(w, t) PROVE SuggestionInv'
  BY <1>6 DEF PageStage
<1>7. ASSUME NEW w \in Threads, NEW t \in Tickets, PageApprove(w, t) PROVE SuggestionInv'
  BY <1>7, TableFacts DEF PageApprove, Move, Moves, Refused, Begin
<1>8. ASSUME NEW w \in Threads, NEW t \in Tickets, PageChat(w, t) PROVE SuggestionInv'
  BY <1>8 DEF PageChat, Create, Begin, Decks
<1>9. CASE Refresh
  BY <1>9 DEF Refresh, Propose, Pruned, UserTouched
<1> QED
  BY <1>1, <1>2, <1>3, <1>4, <1>5, <1>6, <1>7, <1>8, <1>9 DEF PageStep

LEMMA SuggestionWorker ==
  ASSUME WorkInv, SuggestionInv, NEW w \in Workers, WorkerStep(w)
  PROVE  SuggestionInv'
<1> USE LedgerAssumption, WorkbenchAssumption
        DEF WorkInv, AtWork, TypeOK, LedgerTypeOK, ledger, work, schedule, round, history,
            SuggestionInv, Tasks, Owned, OneOwner, Carried, Owner, DeckPCs, SuggestionPCs,
            Go, End
<1>1. CASE CommentNoted(w)
  BY <1>1, TableFacts DEF CommentNoted, Move, Moves, Refused
<1>2. CASE ChatMove(w)
  BY <1>2, TableFacts DEF ChatMove, Move, Moves, Refused, Raise
<1>3. CASE Planned(w)
  BY <1>3, TableFacts DEF Planned, FilePlan, Raise
<1>4. CASE BuildRead(w)
  BY <1>4 DEF BuildRead
<1>5. CASE BuildClaim(w)
  BY <1>5 DEF BuildClaim, Move, Moves, Refused, Raise
<1>6. CASE Built(w)
  BY <1>6 DEF Built, Move, Moves, Refused, Raise
<1>7. CASE Checked(w)
  BY <1>7 DEF Checked, Deliver, Raise
<1>8. CASE Failing(w)
  BY <1>8 DEF Failing, Move, Moves, Refused
<1>9. CASE ExecuteClaim(w)
  BY <1>9, TableFacts DEF ExecuteClaim, Move, Moves, Refused
<1>10. CASE ExecuteDo(w)
  BY <1>10 DEF ExecuteDo, CarriesOut
<1>11. CASE ExecuteDeliver(w)
  BY <1>11, RunningMoves DEF ExecuteDeliver, Deliver, Refused
<1>12. CASE AnswerYes(w)
  BY <1>12, TableFacts DEF AnswerYes, Move, Moves, Refused
<1>13. CASE AnswerNo(w)
  BY <1>13, TableFacts DEF AnswerNo, Move, Moves, Refused
<1> QED
  BY <1>1, <1>2, <1>3, <1>4, <1>5, <1>6, <1>7, <1>8, <1>9, <1>10, <1>11, <1>12, <1>13
  DEF WorkerStep

LEMMA SuggestionTerminal ==
  ASSUME WorkInv, SuggestionInv, NEW t \in Tickets, TerminalAnswers(t)
  PROVE  SuggestionInv'
  BY LedgerAssumption, WorkersFacts
  DEF WorkInv, AtWork, TypeOK, LedgerTypeOK, ledger, schedule, round, history,
      SuggestionInv, Tasks, Owned, OneOwner, Carried, Owner, DeckPCs, SuggestionPCs,
      TerminalAnswers, Hear, Begin

LEMMA SuggestionTick ==
  ASSUME WorkInv, SuggestionInv, TickStep
  PROVE  SuggestionInv'
<1> USE LedgerAssumption, WorkbenchAssumption, WorkersFacts
        DEF WorkInv, AtWork, TypeOK, LedgerTypeOK, ledger, work, schedule, round, history,
            SuggestionInv, Tasks, Owned, OneOwner, Carried, Owner, DeckPCs, SuggestionPCs
<1>1. CASE TickStart
  BY <1>1 DEF TickStart
<1>2. CASE Restage
  BY <1>2, TableFacts DEF Restage, Move, Moves, Refused
<1>3. CASE RestageEnd
  BY <1>3 DEF RestageEnd
<1>4. CASE TickAnswer
  BY <1>4 DEF TickAnswer, Hear, Begin
<1>5. CASE AnswersEnd
  BY <1>5 DEF AnswersEnd
<1>6. CASE TickExecute
  BY <1>6 DEF TickExecute, Begin
<1>7. CASE WorkEnd
  BY <1>7 DEF WorkEnd
<1>8. CASE Suggest
  BY <1>8 DEF Suggest, AddSuggestion
<1>9. CASE TickEnd
  BY <1>9 DEF TickEnd
<1> QED
  BY <1>1, <1>2, <1>3, <1>4, <1>5, <1>6, <1>7, <1>8, <1>9 DEF TickStep

LEMMA SuggestionCrash == ASSUME WorkInv, SuggestionInv, Crash PROVE SuggestionInv'
<1> USE LedgerAssumption, WorkbenchAssumption
        DEF WorkInv, AtWork, TypeOK, LedgerTypeOK, ledger, history, Dies,
            SuggestionInv, Tasks, Owned, OneOwner, Carried, Owner, DeckPCs, SuggestionPCs
<1>1. CASE ServerDies
  BY <1>1 DEF ServerDies
<1>2. CASE TerminalDies
  BY <1>2 DEF TerminalDies
<1>3. CASE WatcherDies
  BY <1>3 DEF WatcherDies
<1> QED
  BY <1>1, <1>2, <1>3 DEF Crash

LEMMA SuggestionStep ==
  ASSUME "stage" \notin Routes, WorkInv, SuggestionInv, [Next]_vars
  PROVE  SuggestionInv'
<1>1. CASE UNCHANGED vars
  BY <1>1 DEF vars, SuggestionInv, Tasks, Owned, OneOwner, Carried, Owner
<1>2. CASE Next
  BY <1>2, SuggestionPage, SuggestionWorker, SuggestionTerminal, SuggestionTick,
     SuggestionCrash DEF Next
<1> QED
  BY <1>1, <1>2

LEMMA SuggestionInvHolds ==
  ASSUME "stage" \notin Routes
  PROVE  Spec => [](WorkInv /\ SuggestionInv)
<1>1. Init => WorkInv /\ SuggestionInv
  BY WorkInit, SuggestionInit
<1>2. WorkInv /\ SuggestionInv /\ [Next]_vars => (WorkInv /\ SuggestionInv)'
  BY WorkStep, SuggestionStep
<1> QED
  BY <1>1, <1>2, PTL DEF Spec

(* A suggestion is worked on by at most one process at a time, whoever dies *)
(* and whenever, as long as no client calls the stage route on it.          *)
THEOREM OneHandAlways ==
  ASSUME "stage" \notin Routes
  PROVE  Spec => []OneHand
<1>1. WorkInv /\ SuggestionInv => OneHand
  BY DEF SuggestionInv, OneOwner, Owner, OneHand, Hands
<1> QED
  BY <1>1, SuggestionInvHolds, PTL

(* The work of a suggestion is carried out at most once, but for what was   *)
(* done, whole or in part, and put down as failed all the same.             *)
THEOREM DoneOnceAlways ==
  ASSUME "stage" \notin Routes
  PROVE  Spec => []DoneOnce
<1>1. WorkInv /\ SuggestionInv => DoneOnce
  BY LedgerAssumption DEF WorkInv, TypeOK, SuggestionInv, Carried, DoneOnce
<1> QED
  BY <1>1, SuggestionInvHolds, PTL

(* Work that was carried out finds a ledger that accepts its delivery.      *)
THEOREM WorkIsReportedAlways ==
  ASSUME "stage" \notin Routes
  PROVE  Spec => []WorkIsReported
<1>1. WorkInv /\ SuggestionInv => WorkIsReported
  BY LedgerAssumption, RunningMoves
  DEF WorkInv, AtWork, SuggestionInv, Tasks, Owned, Owner, SuggestionPCs, WorkIsReported
<1> QED
  BY <1>1, SuggestionInvHolds, PTL

-----------------------------------------------------------------------------
(* A no is final: without the restore route, no step of anyone moves a      *)
(* dismissed ticket.                                                        *)
THEOREM NoIsFinalAlways ==
  ASSUME "restore" \notin Routes
  PROVE  Spec => NoIsFinal
<1> DEFINE Final == \A t \in Tickets : st[t] = "dismissed" => st'[t] = "dismissed"
<1>1. ASSUME WorkInv, [Next]_vars PROVE Final
  <2> SUFFICES ASSUME NEW d \in Tickets, st[d] = "dismissed" PROVE st'[d] = "dismissed"
    OBVIOUS
  <2> USE LedgerAssumption, WorkbenchAssumption, WorkersFacts, <1>1, TableFacts
          DEF WorkInv, AtWork, TypeOK, LedgerTypeOK, ledger, work, schedule, round, history
  <2>1. CASE PageStep
    BY <2>1
    DEF PageStep, PageMark, PageDismiss, PageRestore, PageCreate, PageComment, PageStage,
        PageApprove, PageChat, Refresh, EditDod, Pin, Rate, Move, Moves, Refused, Create, CommentOn,
        Propose, Pruned, UserTouched
  <2>2. ASSUME NEW w \in Workers, WorkerStep(w) PROVE st'[d] = "dismissed"
    BY <2>2
    DEF WorkerStep, CommentNoted, ChatMove, Planned, BuildRead, BuildClaim, Built, Checked,
        Failing, ExecuteClaim, ExecuteDo, ExecuteDeliver, AnswerYes, AnswerNo, Move, Moves, Refused,
        FilePlan, Deliver, Raise
  <2>3. CASE \E t \in Tickets : TerminalAnswers(t)
    BY <2>3 DEF TerminalAnswers
  <2>4. CASE TickStep
    BY <2>4
    DEF TickStep, TickStart, Restage, RestageEnd, TickAnswer, AnswersEnd, TickExecute,
        WorkEnd, Suggest, TickEnd, Move, Moves, Refused, AddSuggestion
  <2>5. CASE Crash
    BY <2>5 DEF Crash, ServerDies, TerminalDies, WatcherDies, Dies
  <2>6. CASE UNCHANGED vars
    BY <2>6 DEF vars
  <2> QED
    BY <2>1, <2>2, <2>3, <2>4, <2>5, <2>6 DEF Next
<1>2. WorkInv /\ [Next]_vars => [Final]_vars
  BY <1>1
<1> QED
  BY <1>2, WorkInit, WorkStep, PTL DEF Spec, NoIsFinal

-----------------------------------------------------------------------------
(* What a refresh can remove carries nothing of the user's: with the routes *)
(* the shipped pages call, only a comment marks a ticket, and a commented   *)
(* ticket is never proposed again.                                          *)

PageOnly == Routes \cap {"dod", "pin", "rate", "restore"} = {}

Unmarked == \A t \in Tickets : st[t] \in {"absent", "proposed"} => marks[t] = {}

LEMMA UnmarkedStep ==
  ASSUME PageOnly, WorkInv, Unmarked, [Next]_vars
  PROVE  Unmarked'
<1> USE LedgerAssumption, WorkbenchAssumption, WorkersFacts, TableFacts
        DEF WorkInv, AtWork, TypeOK, LedgerTypeOK, ledger, work, schedule, round, history, Unmarked
<1>1. CASE PageStep
  BY <1>1
  DEF PageOnly, PageStep, PageMark, PageDismiss, PageRestore, PageCreate, PageComment,
      PageStage, PageApprove, PageChat, Refresh, Move, Moves, Refused, Create, CommentOn, Propose, Pruned
<1>2. ASSUME NEW w \in Workers, WorkerStep(w) PROVE Unmarked'
  BY <1>2
  DEF WorkerStep, CommentNoted, ChatMove, Planned, BuildRead, BuildClaim, Built, Checked,
      Failing, ExecuteClaim, ExecuteDo, ExecuteDeliver, AnswerYes, AnswerNo, Move, Moves, Refused,
      FilePlan, Deliver, Raise
<1>3. CASE \E t \in Tickets : TerminalAnswers(t)
  BY <1>3 DEF TerminalAnswers
<1>4. CASE TickStep
  BY <1>4
  DEF TickStep, TickStart, Restage, RestageEnd, TickAnswer, AnswersEnd, TickExecute,
      WorkEnd, Suggest, TickEnd, Move, Moves, Refused, AddSuggestion
<1>5. CASE Crash
  BY <1>5 DEF Crash, ServerDies, TerminalDies, WatcherDies, Dies
<1>6. CASE UNCHANGED vars
  BY <1>6 DEF vars
<1> QED
  BY <1>1, <1>2, <1>3, <1>4, <1>5, <1>6 DEF Next

LEMMA RemovedIsUnmarked ==
  ASSUME WorkInv, Unmarked, [Next]_vars, NEW t \in Tickets,
         st[t] # "absent", st'[t] = "absent"
  PROVE  marks[t] = {}
<1> USE LedgerAssumption, WorkbenchAssumption, WorkersFacts, TableFacts
        DEF WorkInv, AtWork, TypeOK, LedgerTypeOK, ledger, work, schedule, round, history
<1>1. CASE PageStep
  BY <1>1
  DEF PageStep, PageMark, PageDismiss, PageRestore, PageCreate, PageComment, PageStage,
      PageApprove, PageChat, Refresh, EditDod, Pin, Rate, Move, Moves, Refused, Create, CommentOn, Propose,
      Pruned, UserTouched, States, Unmarked
<1>2. ASSUME NEW w \in Workers, WorkerStep(w) PROVE marks[t] = {}
  BY <1>2
  DEF WorkerStep, CommentNoted, ChatMove, Planned, BuildRead, BuildClaim, Built, Checked,
      Failing, ExecuteClaim, ExecuteDo, ExecuteDeliver, AnswerYes, AnswerNo, Move, Moves, Refused,
      FilePlan, Deliver, Raise
<1>3. CASE \E u \in Tickets : TerminalAnswers(u)
  BY <1>3 DEF TerminalAnswers
<1>4. CASE TickStep
  BY <1>4
  DEF TickStep, TickStart, Restage, RestageEnd, TickAnswer, AnswersEnd, TickExecute,
      WorkEnd, Suggest, TickEnd, Move, Moves, Refused, AddSuggestion
<1>5. CASE Crash
  BY <1>5 DEF Crash, ServerDies, TerminalDies, WatcherDies, Dies
<1>6. CASE UNCHANGED vars
  BY <1>6 DEF vars
<1> QED
  BY <1>1, <1>2, <1>3, <1>4, <1>5, <1>6 DEF Next

(* A refresh never destroys user intent, under those routes.                *)
THEOREM IntentKeptAlways ==
  ASSUME PageOnly
  PROVE  Spec => IntentKept
<1> DEFINE Kept == \A t \in Tickets :
                     st[t] # "absent" /\ st'[t] = "absent" => marks[t] = {}
<1>1. Init => WorkInv /\ Unmarked
  BY WorkInit, LedgerAssumption DEF Init, LedgerInit, Unmarked
<1>2. WorkInv /\ Unmarked /\ [Next]_vars => (WorkInv /\ Unmarked)'
  BY WorkStep, UnmarkedStep
<1>3. WorkInv /\ Unmarked /\ [Next]_vars => [Kept]_vars
  BY RemovedIsUnmarked
<1> QED
  BY <1>1, <1>2, <1>3, PTL DEF Spec, IntentKept

-----------------------------------------------------------------------------
(* The Workbench implements Consent: every step of a process is a step of   *)
(* the conversation about one suggestion, an abandonment, or none.          *)

NoneProposed == \A t \in Advisor : st[t] \notin {"proposed", "verifying"}

LEMMA PhaseFacts ==
  /\ PhaseOf["absent"] = "unasked"
  /\ PhaseOf["staging"] = "asked"
  /\ PhaseOf["staged"] = "asked"
  /\ PhaseOf["approved"] = "approved"
  /\ PhaseOf["running"] = "working"
  /\ PhaseOf["delivered"] = "delivered"
  /\ PhaseOf["rated"] = "delivered"
  /\ PhaseOf["failed"] = "failed"
  /\ PhaseOf["dismissed"] = "declined"
  BY DEF PhaseOf, States

LEMMA NoneProposedStep ==
  ASSUME "restore" \notin Routes, WorkInv, SuggestionInv, NoneProposed, [Next]_vars
  PROVE  NoneProposed'
<1> USE LedgerAssumption, WorkbenchAssumption, WorkersFacts, TableFacts
        DEF WorkInv, AtWork, TypeOK, LedgerTypeOK, ledger, work, schedule, round, history, NoneProposed
<1>1. CASE PageStep
  BY <1>1
  DEF PageStep, PageMark, PageDismiss, PageRestore, PageCreate, PageComment, PageStage,
      PageApprove, PageChat, Refresh, EditDod, Pin, Rate, Move, Moves, Refused, Create, CommentOn, Propose,
      Pruned, UserTouched, Manual, Decks
<1>2. ASSUME NEW w \in Workers, WorkerStep(w) PROVE NoneProposed'
  BY <1>2
  DEF WorkerStep, CommentNoted, ChatMove, Planned, BuildRead, BuildClaim, Built, Checked,
      Failing, ExecuteClaim, ExecuteDo, ExecuteDeliver, AnswerYes, AnswerNo, Move, Moves, Refused,
      FilePlan, Deliver, Raise, SuggestionInv, Tasks, DeckPCs
<1>3. CASE \E t \in Tickets : TerminalAnswers(t)
  BY <1>3 DEF TerminalAnswers
<1>4. CASE TickStep
  BY <1>4
  DEF TickStep, TickStart, Restage, RestageEnd, TickAnswer, AnswersEnd, TickExecute,
      WorkEnd, Suggest, TickEnd, Move, Moves, Refused, AddSuggestion
<1>5. CASE Crash
  BY <1>5 DEF Crash, ServerDies, TerminalDies, WatcherDies, Dies
<1>6. CASE UNCHANGED vars
  BY <1>6 DEF vars
<1> QED
  BY <1>1, <1>2, <1>3, <1>4, <1>5, <1>6 DEF Next

(* The three parts of the mapping, each moved by what moves its variables.  *)
LEMMA PhaseOfMove ==
  ASSUME TypeOK, NEW t \in Tickets, NEW to \in States, st' = [st EXCEPT ![t] = to]
  PROVE  /\ t \in Advisor => Phase' = [Phase EXCEPT ![t] = PhaseOf[to]]
         /\ t \notin Advisor => Phase' = Phase
  BY LedgerAssumption DEF TypeOK, LedgerTypeOK, Phase

LEMMA PhaseKept ==
  ASSUME \A t \in Advisor : PhaseOf[st'[t]] = PhaseOf[st[t]]
  PROVE  Phase' = Phase
  BY DEF Phase

LEMMA DoingKept ==
  ASSUME \A w \in Workers, t \in Advisor : Owner(w, t)' <=> Owner(w, t)
  PROVE  Doing' = Doing
  BY DEF Doing

LEMMA CarriedKept ==
  finished' = finished /\ lapsed' = lapsed => CarriedOut' = CarriedOut
  BY DEF CarriedOut

Simulated == C!ConsentNext \/ UNCHANGED C!cvars

LEMMA SimPage ==
  ASSUME "stage" \notin Routes, "restore" \notin Routes,
         WorkInv, SuggestionInv, NoneProposed, PageStep
  PROVE  Simulated
<1> USE LedgerAssumption, WorkbenchAssumption, WorkersFacts
        DEF WorkInv, AtWork, TypeOK, LedgerTypeOK, work, schedule, round, history
<1>1. CarriedOut' = CarriedOut
  BY CarriedKept
  DEF PageStep, PageMark, PageDismiss, PageRestore, PageCreate, PageComment, PageStage,
      PageApprove, PageChat, Refresh
<1>2. Doing' = Doing
  <2>1. ASSUME NEW w \in Workers, NEW t \in Advisor PROVE Owner(w, t)' <=> Owner(w, t)
    BY DEF PageStep, PageMark, PageDismiss, PageRestore, PageCreate, PageComment, PageStage,
           PageApprove, PageChat, Refresh, Begin, Owner
  <2> QED
    BY <2>1, DoingKept
<1> USE <1>1, <1>2 DEF Simulated, C!ConsentNext, C!cvars, C!Ask, C!Yes, C!No, C!Turn
<1>3. ASSUME NEW t \in Tickets, PageMark(t) PROVE Simulated
  <2>1. Phase' = Phase
    BY <1>3, PhaseKept, PhaseFacts DEF PageMark, EditDod, Pin, Rate
  <2> QED
    BY <2>1
<1>4. ASSUME NEW t \in Tickets, PageDismiss(t) PROVE Simulated
  <2>1. st' = [st EXCEPT ![t] = "dismissed"] /\ Legal(t, "dismissed")
    BY <1>4 DEF PageDismiss, Move, Moves, Refused
  <2>2. CASE t \in Advisor
    <3>1. Phase[t] \in {"asked", "failed"}
      BY <2>1, <2>2, TableFacts, PhaseFacts DEF Phase, NoneProposed
    <3>2. Phase' = [Phase EXCEPT ![t] = PhaseOf["dismissed"]]
      BY <2>1, <2>2, PhaseOfMove DEF States
    <3>3. Phase' = [Phase EXCEPT ![t] = "declined"]
      BY <3>2, PhaseFacts
    <3> QED
      BY <2>2, <3>1, <3>3
  <2>3. CASE t \notin Advisor
    BY <2>1, <2>3, PhaseOfMove DEF States
  <2> QED
    BY <2>2, <2>3
<1>5. ASSUME NEW t \in Tickets, PageCreate(t) PROVE Simulated
  <2>1. Phase' = Phase
    BY <1>5, PhaseKept DEF PageCreate, Create, Manual
  <2> QED
    BY <2>1
<1>6. ASSUME NEW w \in Threads, NEW t \in Tickets, PageComment(w, t) PROVE Simulated
  <2>1. CASE t \in Advisor /\ st[t] = "failed"
    <3>1. st' = [st EXCEPT ![t] = "staging"]
      BY <1>6, <2>1 DEF PageComment, CommentOn
    <3>2. Phase' = [Phase EXCEPT ![t] = "asked"]
      BY <2>1, <3>1, PhaseFacts DEF Phase
    <3>3. Phase[t] = "failed"
      BY <2>1, PhaseFacts DEF Phase
    <3> QED
      BY <2>1, <3>2, <3>3
  <2>2. CASE ~ (t \in Advisor /\ st[t] = "failed")
    <3>1. Phase' = Phase
      BY <1>6, <2>2, PhaseKept, PhaseFacts DEF PageComment, CommentOn, NoneProposed
    <3> QED
      BY <3>1
  <2> QED
    BY <2>1, <2>2
<1>7. ASSUME NEW w \in Threads, NEW t \in Tickets, PageApprove(w, t) PROVE Simulated
  <2>1. st' = [st EXCEPT ![t] = "approved"] /\ Legal(t, "approved")
    BY <1>7 DEF PageApprove, Move, Moves, Refused
  <2>2. CASE t \in Advisor
    <3>1. Phase[t] \in {"asked", "failed"}
      BY <2>1, <2>2, TableFacts, PhaseFacts DEF Phase, NoneProposed
    <3>2. Phase' = [Phase EXCEPT ![t] = "approved"]
      BY <2>1, <2>2, PhaseOfMove, PhaseFacts DEF States
    <3> QED
      BY <2>2, <3>1, <3>2
  <2>3. CASE t \notin Advisor
    BY <2>1, <2>3, PhaseOfMove DEF States
  <2> QED
    BY <2>2, <2>3
<1>8. ASSUME NEW w \in Threads, NEW t \in Tickets, PageChat(w, t) PROVE Simulated
  <2>1. Phase' = Phase
    BY <1>8, PhaseKept DEF PageChat, Create, Decks
  <2> QED
    BY <2>1
<1>9. CASE Refresh
  <2>1. Phase' = Phase
    BY <1>9, PhaseKept DEF Refresh, Propose, Pruned, UserTouched, States, NoneProposed
  <2> QED
    BY <2>1
<1> QED
  BY <1>3, <1>4, <1>5, <1>6, <1>7, <1>8, <1>9 DEF PageStep, PageStage, PageRestore

(* What a worker takes up or lays down, it alone does.                      *)
LEMMA DoingTaken ==
  ASSUME NEW w \in Workers, NEW t \in Advisor, Owner(w, t)',
         \A v \in Workers, s \in Advisor : v # w => (Owner(v, s)' <=> Owner(v, s)),
         \A s \in Advisor : ~ Owner(w, s)
  PROVE  Doing' = Doing \cup {t}
<1>1. \A s \in Advisor : Owner(w, s)' => s = t
  BY DEF Owner
<1> QED
  BY <1>1 DEF Doing

LEMMA DoingLaidDown ==
  ASSUME OneOwner, NEW w \in Workers, NEW t \in Advisor, Owner(w, t),
         \A v \in Workers, s \in Advisor : v # w => (Owner(v, s)' <=> Owner(v, s)),
         \A s \in Advisor : ~ Owner(w, s)'
  PROVE  Doing' = Doing \ {t} /\ t \in Doing
<1>1. \A s \in Advisor : Owner(w, s) => s = t
  BY DEF Owner
<1>2. \A v \in Workers : Owner(v, t) => v = w
  BY DEF OneOwner
<1> QED
  BY <1>1, <1>2 DEF Doing

(* A step of a worker on a deck is none of a suggestion's business.         *)
LEMMA SimDeckStep ==
  ASSUME NEW w \in Workers, WorkInv, tk[w] \notin Advisor, CarriedOut' = CarriedOut,
         tk'[w] \in {tk[w], NoTicket},
         \A v \in Workers : v # w => pc'[v] = pc[v] /\ tk'[v] = tk[v],
         \A t \in Advisor : st'[t] = st[t]
  PROVE  Simulated
<1>1. NoTicket \notin Advisor
  BY LedgerAssumption, WorkbenchAssumption
<1>2. \A v \in Workers, t \in Advisor : Owner(v, t)' <=> Owner(v, t)
  BY <1>1 DEF Owner
<1> QED
  BY <1>2, DoingKept, PhaseKept DEF Simulated, C!cvars

LEMMA SimDeck ==
  ASSUME WorkInv, SuggestionInv, NEW w \in Workers,
         \/ ChatMove(w)
         \/ Planned(w)
         \/ BuildRead(w)
         \/ BuildClaim(w)
         \/ Built(w)
         \/ Checked(w)
         \/ Failing(w) /\ tk[w] \notin Advisor
  PROVE  Simulated
<1> USE LedgerAssumption, WorkbenchAssumption
        DEF WorkInv, AtWork, TypeOK, LedgerTypeOK, ledger, work, schedule, round, history, Go, End
<1>1. tk[w] \notin Advisor
  BY DEF ChatMove, Planned, BuildRead, BuildClaim, Built, Checked, SuggestionInv, Tasks, DeckPCs
<1>2. CarriedOut' = CarriedOut
  <2>1. finished' = finished /\ \A t \in Advisor : lapsed'[t] = lapsed[t]
    BY <1>1 DEF ChatMove, Planned, BuildRead, BuildClaim, Built, Checked, Failing
  <2> QED
    BY <2>1 DEF CarriedOut
<1>3. /\ tk'[w] \in {tk[w], NoTicket}
      /\ \A v \in Workers : v # w => pc'[v] = pc[v] /\ tk'[v] = tk[v]
  BY DEF ChatMove, Planned, BuildRead, BuildClaim, Built, Checked, Failing, Raise
<1>4. \A t \in Advisor : st'[t] = st[t]
  BY <1>1 DEF ChatMove, Planned, BuildRead, BuildClaim, Built, Checked, Failing, Raise,
              Move, Moves, Refused, FilePlan, Deliver
<1> QED
  BY <1>1, <1>2, <1>3, <1>4, SimDeckStep DEF WorkInv

(* An answer, and the second half of a comment, by a worker that carries    *)
(* out nothing before or after.                                             *)
LEMMA SimAnswer ==
  ASSUME WorkInv, SuggestionInv, NoneProposed, NEW w \in Workers,
         CommentNoted(w) \/ AnswerYes(w) \/ AnswerNo(w)
  PROVE  Simulated
<1> USE LedgerAssumption, WorkbenchAssumption, WorkersFacts
        DEF WorkInv, AtWork, TypeOK, LedgerTypeOK, ledger, work, schedule, round, history, Go, End
<1> DEFINE t == tk[w]
<1>1. t \in Advisor
  BY DEF CommentNoted, AnswerYes, AnswerNo, SuggestionInv, Tasks, SuggestionPCs
<1>2. CarriedOut' = CarriedOut
  BY CarriedKept DEF CommentNoted, AnswerYes, AnswerNo
<1>3. Doing' = Doing
  <2>1. ASSUME NEW v \in Workers, NEW s \in Advisor PROVE Owner(v, s)' <=> Owner(v, s)
    BY DEF CommentNoted, AnswerYes, AnswerNo, Owner
  <2> QED
    BY <2>1, DoingKept
<1>4. CASE CommentNoted(w)
  <2>1. CASE Moves(t, "staged")
    <3>1. st' = [st EXCEPT ![t] = "staged"] /\ st[t] = "staging"
      BY <1>1, <2>1 DEF Move, Moves, Legal, Transitions, States, NoneProposed
    <3>2. Phase' = Phase
      BY <1>1, <3>1, PhaseKept, PhaseFacts
    <3> QED
      BY <1>2, <1>3, <3>2 DEF Simulated, C!cvars
  <2>2. CASE Refused(t, "staged")
    <3>1. Phase' = Phase
      BY <2>2, PhaseKept DEF Refused
    <3> QED
      BY <1>2, <1>3, <3>1 DEF Simulated, C!cvars
  <2> QED
    BY <1>4, <2>1, <2>2 DEF CommentNoted
<1>5. CASE AnswerYes(w)
  <2>1. CASE Moves(t, "approved")
    <3>1. st' = [st EXCEPT ![t] = "approved"]
      BY <2>1 DEF Move, Moves
    <3>2. Phase' = [Phase EXCEPT ![t] = "approved"]
      BY <1>1, <3>1, PhaseFacts DEF Phase
    <3>3. Phase[t] \in {"asked", "failed"}
      BY <1>1, <2>1, TableFacts, PhaseFacts DEF Moves, Move, Phase, NoneProposed
    <3> QED
      BY <1>1, <1>2, <1>3, <3>2, <3>3 DEF Simulated, C!ConsentNext, C!Yes, C!Turn
  <2>2. CASE Refused(t, "approved")
    <3>1. Phase' = Phase
      BY <2>2, PhaseKept DEF Refused
    <3> QED
      BY <1>2, <1>3, <3>1 DEF Simulated, C!cvars
  <2> QED
    BY <1>5, <2>1, <2>2 DEF AnswerYes
<1>6. CASE AnswerNo(w)
  <2>1. CASE Moves(t, "dismissed")
    <3>1. st' = [st EXCEPT ![t] = "dismissed"]
      BY <2>1 DEF Move, Moves
    <3>2. Phase' = [Phase EXCEPT ![t] = "declined"]
      BY <1>1, <3>1, PhaseFacts DEF Phase
    <3>3. Phase[t] \in {"asked", "failed"}
      BY <1>1, <2>1, TableFacts, PhaseFacts DEF Moves, Move, Phase, NoneProposed
    <3> QED
      BY <1>1, <1>2, <1>3, <3>2, <3>3 DEF Simulated, C!ConsentNext, C!No, C!Turn
  <2>2. CASE Refused(t, "dismissed")
    <3>1. Phase' = Phase
      BY <2>2, PhaseKept DEF Refused
    <3> QED
      BY <1>2, <1>3, <3>1 DEF Simulated, C!cvars
  <2> QED
    BY <1>6, <2>1, <2>2 DEF AnswerNo
<1> QED
  BY <1>4, <1>5, <1>6

(* The work itself: claimed, carried out or not, settled.                   *)
LEMMA SimWork ==
  ASSUME WorkInv, SuggestionInv, NoneProposed, NEW w \in Workers, tk[w] \in Advisor,
         \/ ExecuteClaim(w)
         \/ ExecuteDo(w)
         \/ ExecuteDeliver(w)
         \/ Failing(w)
  PROVE  Simulated
<1> USE LedgerAssumption, WorkbenchAssumption
        DEF WorkInv, AtWork, TypeOK, LedgerTypeOK, ledger, work, schedule, round, history, Go, End
<1> SUFFICES ASSUME NEW t \in Advisor, t = tk[w] PROVE Simulated
  OBVIOUS
<1>1. \A v \in Workers, s \in Advisor : v # w => (Owner(v, s)' <=> Owner(v, s))
  BY DEF ExecuteClaim, ExecuteDo, ExecuteDeliver, Failing, Raise, Owner
<1>2. NoTicket \notin Advisor
  OBVIOUS
<1>3. CASE ExecuteClaim(w)
  <2>1. CarriedOut' = CarriedOut
    BY <1>3, CarriedKept DEF ExecuteClaim
  <2>2. \A s \in Advisor : ~ Owner(w, s)
    BY <1>3 DEF ExecuteClaim, Owner
  <2>3. CASE Moves(t, "running") /\ pc' = [pc EXCEPT ![w] = "doing"] /\ tk' = tk
    <3>1. st' = [st EXCEPT ![t] = "running"] /\ pc'[w] = "doing" /\ Legal(t, "running")
      BY <2>3 DEF Move, Moves
    <3>2. st[t] = "approved"
      BY <3>1, TableFacts DEF NoneProposed
    <3>3. Phase[t] = "approved" /\ Phase' = [Phase EXCEPT ![t] = "working"]
      BY <3>1, <3>2, PhaseFacts DEF Phase
    <3>4. t \notin Doing
      BY <3>2 DEF Doing, SuggestionInv, Owned
    <3>5. Owner(w, t)'
      BY <2>3, <3>1 DEF Owner
    <3>6. Doing' = Doing \cup {t}
      BY <1>1, <2>2, <3>5, DoingTaken
    <3> QED
      BY <2>1, <3>3, <3>4, <3>6 DEF Simulated, C!ConsentNext, C!Claim, C!Turn
  <2>4. CASE Refused(t, "running") /\ End(w)
    <3>1. Phase' = Phase
      BY <2>4, PhaseKept DEF Refused
    <3>2. \A s \in Advisor : ~ Owner(w, s)'
      BY <1>2, <2>4 DEF Owner
    <3>3. Doing' = Doing
      BY <1>1, <2>2, <3>2, DoingKept
    <3> QED
      BY <2>1, <3>1, <3>3 DEF Simulated, C!cvars
  <2> QED
    BY <1>3, <2>3, <2>4 DEF ExecuteClaim
<1>4. CASE ExecuteDo(w)
  <2>1. Owner(w, t) /\ finished[t] = lapsed[t]
    BY <1>4 DEF ExecuteDo, Owner, SuggestionInv, Owned
  <2>2. Owner(w, t)' /\ tk' = tk
    BY <1>4 DEF ExecuteDo, Owner
  <2>3. \A s \in Advisor : Owner(w, s)' <=> Owner(w, s)
    BY <2>1, <2>2 DEF Owner
  <2>4. Doing' = Doing
    BY <1>1, <2>3, DoingKept
  <2>5. Phase' = Phase
    BY <1>4, PhaseKept DEF ExecuteDo
  <2>6. CASE finished' = finished
    <3>1. CarriedOut' = CarriedOut
      BY <1>4, <2>6, CarriedKept DEF ExecuteDo
    <3> QED
      BY <2>4, <2>5, <3>1 DEF Simulated, C!cvars
  <2>7. CASE finished' # finished
    <3>1. finished' = [finished EXCEPT ![t] = @ + 1] /\ lapsed' = lapsed
      BY <1>4, <2>7 DEF ExecuteDo, CarriesOut
    <3>2. CarriedOut' = CarriedOut \cup {t} /\ t \notin CarriedOut
      BY <2>1, <3>1 DEF CarriedOut
    <3>3. t \in Doing
      BY <2>1 DEF Doing
    <3> QED
      BY <2>4, <2>5, <3>2, <3>3 DEF Simulated, C!ConsentNext, C!Carry
  <2> QED
    BY <2>6, <2>7
<1>5. CASE ExecuteDeliver(w)
  <2>1. Owner(w, t) /\ st[t] = "running" /\ finished[t] = lapsed[t] + 1
    BY <1>5 DEF ExecuteDeliver, Owner, SuggestionInv, Owned
  <2>2. CarriedOut' = CarriedOut
    BY <1>5, CarriedKept DEF ExecuteDeliver
  <2>3. CASE Deliver(t, hand[w]) /\ End(w)
    <3>1. \A s \in Advisor : ~ Owner(w, s)'
      BY <1>2, <2>3 DEF Owner
    <3>2. Doing' = Doing \ {t} /\ t \in Doing
      BY <1>1, <2>1, <3>1, DoingLaidDown DEF SuggestionInv
    <3>3. Phase[t] = "working" /\ Phase' = [Phase EXCEPT ![t] = "delivered"]
      BY <2>1, <2>3, PhaseFacts DEF Deliver, Phase
    <3>4. t \in CarriedOut
      BY <2>1 DEF CarriedOut
    <3> QED
      BY <2>2, <3>2, <3>3, <3>4 DEF Simulated, C!ConsentNext, C!Settle, C!Turn
  <2>4. CASE Refused(t, "delivered") /\ Go(w, "failing")
    <3>1. \A s \in Advisor : Owner(w, s)' <=> Owner(w, s)
      BY <2>1, <2>4 DEF Owner
    <3>2. Doing' = Doing
      BY <1>1, <3>1, DoingKept
    <3>3. Phase' = Phase
      BY <2>4, PhaseKept DEF Refused
    <3> QED
      BY <2>2, <3>2, <3>3 DEF Simulated, C!cvars
  <2> QED
    BY <1>5, <2>3, <2>4 DEF ExecuteDeliver
<1>6. CASE Failing(w)
  <2>1. Owner(w, t) /\ st[t] = "running"
    BY <1>6 DEF Failing, Owner, SuggestionInv, Owned
  <2>2. \A s \in Advisor : ~ Owner(w, s)'
    BY <1>2, <1>6 DEF Failing, Owner
  <2>3. Doing' = Doing \ {t} /\ t \in Doing
    BY <1>1, <2>1, <2>2, DoingLaidDown DEF SuggestionInv
  <2>4. CASE Moves(t, "failed")
    <3>1. Phase[t] = "working" /\ Phase' = [Phase EXCEPT ![t] = "failed"]
      BY <2>1, <2>4, PhaseFacts DEF Moves, Move, Phase
    <3>2. /\ finished' = finished
          /\ lapsed' = [lapsed EXCEPT ![t] = IF @ < finished[t] THEN @ + 1 ELSE @]
      BY <1>6, <2>1, <2>4, RunningMoves DEF Failing, Moves, Move, Refused
    <3>3. CarriedOut' = CarriedOut \ {t}
      BY <3>2 DEF CarriedOut, SuggestionInv, Carried
    <3> QED
      BY <2>3, <3>1, <3>3 DEF Simulated, C!ConsentNext, C!Settle, C!Turn
  <2>5. CASE Refused(t, "failed") /\ lapsed' = lapsed
    <3>1. CarriedOut' = CarriedOut
      BY <1>6, <2>5, CarriedKept DEF Failing
    <3>2. Phase' = Phase
      BY <2>5, PhaseKept DEF Refused
    <3> QED
      BY <2>3, <3>1, <3>2 DEF Simulated, C!ConsentNext, C!Abandon
  <2> QED
    BY <1>6, <2>4, <2>5 DEF Failing
<1> QED
  BY <1>3, <1>4, <1>5, <1>6

LEMMA SimWorker ==
  ASSUME WorkInv, SuggestionInv, NoneProposed, NEW w \in Workers, WorkerStep(w)
  PROVE  Simulated
<1>1. ExecuteClaim(w) \/ ExecuteDo(w) \/ ExecuteDeliver(w) => tk[w] \in Advisor
  BY DEF ExecuteClaim, ExecuteDo, ExecuteDeliver, SuggestionInv, Tasks, SuggestionPCs
<1> QED
  BY <1>1, SimDeck, SimAnswer, SimWork DEF WorkerStep

LEMMA SimTerminal ==
  ASSUME WorkInv, SuggestionInv, NEW t \in Tickets, TerminalAnswers(t)
  PROVE  Simulated
<1> USE WorkersFacts DEF WorkInv, TypeOK, ledger, schedule, round, history
<1>1. st' = st /\ finished' = finished /\ lapsed' = lapsed
  BY DEF TerminalAnswers
<1>2. \A v \in Workers, s \in Advisor : Owner(v, s)' <=> Owner(v, s)
  BY DEF TerminalAnswers, Hear, Begin, Owner
<1> QED
  BY <1>1, <1>2, PhaseKept, DoingKept, CarriedKept DEF Simulated, C!cvars

LEMMA SimTick ==
  ASSUME WorkInv, SuggestionInv, NoneProposed, TickStep
  PROVE  Simulated
<1> USE LedgerAssumption, WorkbenchAssumption, WorkersFacts
        DEF WorkInv, AtWork, TypeOK, LedgerTypeOK, ledger, work, schedule, round, history
<1>1. CarriedOut' = CarriedOut
  BY CarriedKept DEF TickStep, TickStart, Restage, RestageEnd, TickAnswer, AnswersEnd,
                     TickExecute, WorkEnd, Suggest, TickEnd
<1>2. Doing' = Doing
  <2>1. ASSUME NEW v \in Workers, NEW s \in Advisor PROVE Owner(v, s)' <=> Owner(v, s)
    BY DEF TickStep, TickStart, Restage, RestageEnd, TickAnswer, AnswersEnd, TickExecute,
           WorkEnd, Suggest, TickEnd, Hear, Begin, Owner
  <2> QED
    BY <2>1, DoingKept
<1>3. CASE Suggest
  <2>1. PICK t \in Advisor : st[t] = "absent" /\ st' = [st EXCEPT ![t] = "staged"]
    BY <1>3 DEF Suggest, AddSuggestion
  <2>2. Phase[t] = "unasked" /\ Phase' = [Phase EXCEPT ![t] = "asked"]
    BY <2>1, PhaseFacts DEF Phase
  <2> QED
    BY <1>1, <1>2, <2>2 DEF Simulated, C!ConsentNext, C!Ask, C!Turn
<1>4. CASE ~ Suggest
  <2>1. Phase' = Phase
    <3>1. CASE Restage
      <4>1. st' = st \/ \E t \in Advisor : /\ st' = [st EXCEPT ![t] = "staged"]
                                           /\ Legal(t, "staged")
        BY <3>1 DEF Restage, Move, Moves, Refused
      <4>2. ASSUME NEW t \in Advisor, Legal(t, "staged") PROVE st[t] = "staging"
        BY <4>2 DEF Legal, Transitions, States, NoneProposed
      <4> QED
        BY <4>1, <4>2, PhaseKept, PhaseFacts
    <3>2. CASE st' = st
      BY <3>2, PhaseKept
    <3> QED
      BY <1>4, <3>1, <3>2 DEF TickStep, TickStart, RestageEnd, TickAnswer, AnswersEnd,
                              TickExecute, WorkEnd, TickEnd
  <2> QED
    BY <1>1, <1>2, <2>1 DEF Simulated, C!cvars
<1> QED
  BY <1>3, <1>4

LEMMA SimCrash ==
  ASSUME WorkInv, Crash
  PROVE  Simulated
<1> USE LedgerAssumption, WorkbenchAssumption DEF WorkInv, TypeOK, ledger, history
<1>1. st' = st /\ finished' = finished /\ lapsed' = lapsed
  BY DEF Crash, ServerDies, TerminalDies, WatcherDies, Dies
<1>2. ASSUME NEW v \in Workers, NEW s \in Advisor, Owner(v, s)' PROVE Owner(v, s)
  BY <1>2 DEF Crash, ServerDies, TerminalDies, WatcherDies, Dies, Owner
<1>3. Doing' \subseteq Doing
  BY <1>2 DEF Doing
<1> QED
  BY <1>1, <1>3, PhaseKept, CarriedKept DEF Simulated, C!ConsentNext, C!Abandon

(* The Workbench, its workers, the terminal and the watcher together keep   *)
(* the promises of module Consent for every suggestion: asked before done,  *)
(* one yes has it done once, by one process, and a no is final.             *)
THEOREM KeepsConsentAlways ==
  ASSUME "stage" \notin Routes, "restore" \notin Routes
  PROVE  Spec => KeepsConsent
<1> DEFINE Inv == WorkInv /\ SuggestionInv /\ NoneProposed
<1>1. Init => Inv /\ C!ConsentInit
  <2> SUFFICES ASSUME Init PROVE Inv /\ C!ConsentInit
    OBVIOUS
  <2>1. WorkInv /\ SuggestionInv
    BY WorkInit, SuggestionInit
  <2>2. NoneProposed
    BY LedgerAssumption DEF Init, LedgerInit, NoneProposed
  <2>3. C!ConsentInit
    BY PhaseFacts, LedgerAssumption
    DEF Init, LedgerInit, C!ConsentInit, Phase, Doing, CarriedOut, Owner
  <2> QED
    BY <2>1, <2>2, <2>3
<1>2. Inv /\ [Next]_vars => Inv'
  BY WorkStep, SuggestionStep, NoneProposedStep
<1>3. Inv /\ [Next]_vars => [C!ConsentNext]_(C!cvars)
  <2>1. ASSUME Inv, UNCHANGED vars PROVE UNCHANGED C!cvars
    BY <2>1 DEF vars, C!cvars, Phase, Doing, CarriedOut, Owner
  <2>2. ASSUME Inv, Next PROVE Simulated
    BY <2>2, SimPage, SimWorker, SimTerminal, SimTick, SimCrash DEF Next
  <2> QED
    BY <2>1, <2>2 DEF Simulated
<1> QED
  BY <1>1, <1>2, <1>3, PTL DEF Spec, KeepsConsent, C!ConsentSpec
=============================================================================
