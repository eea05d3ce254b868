----------------------------- MODULE MailOutProofs -----------------------------
(***************************************************************************)
(* Proofs about what is mailed (MailOut): the finance brief (FinanceSend), *)
(* for any number of runs, weeks and faults and any length of the week and *)
(* of the cooldown; the meeting preps (PrepTick) and the Note (NoteTick),  *)
(* for any meetings, mails, moments and faults; the scan behind the        *)
(* briefings (WeekReview), for any threads and runs; and the page they     *)
(* open on (FrontPage), for any items, businesses and cap.                 *)
(***************************************************************************)
EXTENDS MailOut, FiniteSetTheorems, SequenceTheorems, WellFoundedInduction, TLAPS

-----------------------------------------------------------------------------
(* The finance brief.                                                       *)
LEMMA DivBound ==
  ASSUME NEW n \in Nat \ {0}, NEW k \in Nat, NEW t \in 0..((k + 1) * n - 1)
  PROVE  t \div n \in 0..k
<1> DEFINE q == t \div n
<1>1. q \in Int /\ t = n * q + (t % n) /\ t % n \in 0..(n - 1)
  OBVIOUS
<1>2. q >= 0
  OBVIOUS
<1>3. n * q < (k + 1) * n
  BY <1>1
<1>4. ~ (q >= k + 1)
  <2> SUFFICES ASSUME q >= k + 1 PROVE FALSE
    OBVIOUS
  <2>1. n * q >= n * (k + 1)
    BY <1>1
  <2> QED
    BY <1>1, <1>3, <2>1
<1> QED
  BY <1>1, <1>2, <1>4

LEMMA DivOrder ==
  ASSUME NEW n \in Nat \ {0}, NEW a \in Int, NEW b \in Int, a <= b
  PROVE  a \div n <= b \div n
<1> DEFINE p == a \div n
           q == b \div n
<1>1. /\ p \in Int /\ a = n * p + (a % n) /\ a % n \in 0..(n - 1)
      /\ q \in Int /\ b = n * q + (b % n) /\ b % n \in 0..(n - 1)
  OBVIOUS
<1>2. ~ (p >= q + 1)
  <2> SUFFICES ASSUME p >= q + 1 PROVE FALSE
    OBVIOUS
  <2>1. n * p >= n * (q + 1)
    BY <1>1
  <2> QED
    BY <1>1, <2>1
<1> QED
  BY <1>1, <1>2

LEMMA MomentFacts ==
  /\ WeekTicks \in Nat \ {0}
  /\ \A t \in Moments : t \in Nat /\ week_id(t) \in Weeks
  /\ 0 \in Moments
<1>1. WeekTicks \in Nat \ {0}
  BY FinanceAssumption DEF WeekTicks
<1>2. \A t \in Moments : t \in Nat /\ week_id(t) \in Weeks
  BY <1>1, DivBound, FinanceAssumption DEF Moments, Weeks, week_id
<1>3. (LastWeek + 1) * WeekTicks >= 1
  BY <1>1, FinanceAssumption
<1> QED
  BY <1>1, <1>2, <1>3, FinanceAssumption DEF Moments

----------------------------------------------------------------------------
(* Types.                                                                   *)

Steps(r) == \/ Start(r) \/ Look(r) \/ _read_ledger(r) \/ Send(r) \/ Remind(r)
            \/ WriteFails(r) \/ Record(r) \/ Die(r)

LEMMA CopyIsLedger ==
  ASSUME TypeOK, NEW r \in Runs, held[r] # Nothing
  PROVE  /\ held[r] \in Ledgers
         /\ \A x \in {"claimed", "free", "sent"} :
              [held[r] EXCEPT !.weeks[Week(r)] = x] \in Ledgers
         /\ \A t \in Moments : [held[r] EXCEPT !.reminded = t] \in Ledgers
  BY DEF TypeOK, Ledgers

LEMMA TypeStep ==
  ASSUME TypeOK, NEW r \in Runs, Steps(r)
  PROVE  TypeOK'
<1> USE FinanceAssumption, MomentFacts
      DEF TypeOK, Goto, Finish, book, proc, sent, blame, Week, Ends
<1>1. CASE Start(r) \/ Look(r)
  BY <1>1 DEF Start, Look, Skip, Proceed, Fetched, FetchFails, Unfit, Fit
<1>2. CASE _read_ledger(r)
  BY <1>2 DEF _read_ledger, Ledgers
<1>3. ASSUME NEW copy \in Ledgers, _write_ledger(r, copy)
      PROVE  /\ weeks' \in [Weeks -> {"free", "claimed", "sent"}]
             /\ reminded' \in Moments \cup {-1}
             /\ held' \in [Runs -> Ledgers \cup {Nothing}]
  BY <1>3 DEF _write_ledger, Ledgers
<1>4. CASE claim(r)
  BY <1>4, <1>3, CopyIsLedger DEF claim
<1>5. CASE release(r)
  BY <1>5, <1>3, CopyIsLedger DEF release, Released
<1>6. CASE stamp_sent(r)
  BY <1>6, <1>3, CopyIsLedger DEF stamp_sent, Stamped
<1>7. CASE stamp_reminder(r)
  BY <1>7, <1>3, CopyIsLedger DEF stamp_reminder
<1>8. CASE _deliver(r) \/ Refused(r) \/ ReplyLost(r)
  BY <1>8 DEF _deliver, Refused, ReplyLost
<1>9. CASE _write_artifacts(r) \/ SaveFails(r)
  BY <1>9 DEF _write_artifacts, SaveFails
<1>10. CASE NeedsAuth(r) \/ NotDue(r) \/ ReminderFails(r)
  BY <1>10 DEF NeedsAuth, NotDue, ReminderFails
<1>11. CASE send_reminder(r) \/ ReminderReplyLost(r)
  BY <1>11 DEF send_reminder, ReminderReplyLost
<1>12. CASE WriteFails(r)
  BY <1>12 DEF WriteFails, Blame
<1>13. CASE Record(r)
  BY <1>13 DEF Record, Leave, rc
<1>14. CASE Die(r)
  BY <1>14 DEF Die, Leave, Blame
<1> QED
  BY <1>1, <1>2, <1>4, <1>5, <1>6, <1>7, <1>8, <1>9, <1>10, <1>11, <1>12, <1>13, <1>14
  DEF Steps, Send, Remind

\* Every variable of a finance send keeps its type, whatever runs beside what.
THEOREM FinanceTypes == Spec => []TypeOK
<1>1. Init => TypeOK
  BY FinanceAssumption, MomentFacts DEF Init, TypeOK, Ends
<1>2. TypeOK /\ [Next]_vars => TypeOK'
  <2> SUFFICES ASSUME TypeOK, [Next]_vars PROVE TypeOK'
    OBVIOUS
  <2>1. CASE Pass
    BY <2>1 DEF Pass, TypeOK, book, proc, sent, blame
  <2>2. ASSUME NEW r \in Runs, Steps(r) PROVE TypeOK'
    BY <2>2, TypeStep
  <2>3. CASE UNCHANGED vars
    BY <2>3 DEF vars, TypeOK, book, proc, sent, blame
  <2> QED
    BY <2>1, <2>2, <2>3 DEF Next, Steps
<1> QED
  BY <1>1, <1>2, PTL DEF Spec

----------------------------------------------------------------------------
(* The page, with any number of runs at once.                               *)

Mailed ==
  /\ \A r \in Runs : pc[r] \in {"stamp", "save"} => mails[Week(r)] > 0
  /\ PageIsProof

LEMMA MailedStep ==
  ASSUME TypeOK, Mailed, [Next]_vars
  PROVE  Mailed'
<1> USE MomentFacts DEF TypeOK, Mailed, PageIsProof, Goto, Finish, Week, book, proc, sent, blame
<1>1. ASSUME NEW r \in Runs, Start(r) \/ Look(r) \/ Remind(r) PROVE Mailed'
  BY <1>1 DEF Start, Look, Skip, Proceed, Fetched, FetchFails, Unfit, Fit,
              Remind, NeedsAuth, NotDue, send_reminder, ReminderReplyLost, ReminderFails
<1>2. ASSUME NEW r \in Runs, _read_ledger(r) PROVE Mailed'
  BY <1>2 DEF _read_ledger
<1>3. ASSUME NEW r \in Runs, claim(r) \/ release(r) \/ stamp_sent(r) \/ stamp_reminder(r)
      PROVE  Mailed'
  BY <1>3 DEF claim, release, stamp_sent, stamp_reminder
<1>4. ASSUME NEW r \in Runs, _deliver(r) \/ Refused(r) \/ ReplyLost(r)
      PROVE  Mailed'
  BY <1>4 DEF _deliver, Refused, ReplyLost
<1>5. ASSUME NEW r \in Runs, _write_artifacts(r) \/ SaveFails(r) PROVE Mailed'
  BY <1>5 DEF _write_artifacts, SaveFails
<1>6. ASSUME NEW r \in Runs, WriteFails(r) PROVE Mailed'
  BY <1>6 DEF WriteFails, Writing
<1>7. ASSUME NEW r \in Runs, Record(r) \/ Die(r) PROVE Mailed'
  BY <1>7 DEF Record, Die, Leave
<1>8. CASE Pass
  BY <1>8 DEF Pass
<1>9. CASE UNCHANGED vars
  BY <1>9 DEF vars
<1> QED
  BY <1>1, <1>2, <1>3, <1>4, <1>5, <1>6, <1>7, <1>8, <1>9 DEF Next, Send

\* The page that the watcher grades by stands for a brief that was mailed, even
\* when runs overlap, replies are lost and runs die.
THEOREM PageIsProofAlways == Spec => []PageIsProof
<1>1. Init => Mailed
  BY DEF Init, Mailed, PageIsProof
<1>2. TypeOK /\ Mailed /\ [Next]_vars => Mailed'
  BY MailedStep
<1>3. Mailed => PageIsProof
  BY DEF Mailed
<1> QED
  BY <1>1, <1>2, <1>3, FinanceTypes, PTL DEF Spec

----------------------------------------------------------------------------
(* One run at a time.                                                       *)

Ledger == [weeks |-> weeks, reminded |-> reminded]

Solo ==
  /\ \A r, s \in Runs : pc[r] # "idle" /\ pc[s] # "idle" => r = s
  /\ \A r \in Runs : held[r] # Nothing => held[r] = Ledger /\ pc[r] \in Writing

(* Where a run is says what the ledger has of its week; a week is spent     *)
(* for a cause.                                                             *)
Stage ==
  \A r \in Runs :
    /\ pc[r] \in {"fetch", "build", "claim"} => weeks[Week(r)] = "free"
    /\ pc[r] \in {"deliver", "release", "stamp"} => weeks[Week(r)] = "claimed"

AloneInv == Solo /\ Stage /\ Mailed /\ SpentForCause

(* A brief that went out left a claim or lost its reply, and nobody is about *)
(* to send another one for nothing.                                          *)
Once ==
  /\ OneCopy
  /\ \A w \in Weeks : weeks[w] = "free" => mails[w] <= lost
  /\ \A r \in Runs : pc[r] \in {"deliver", "release"} => mails[Week(r)] <= lost

LEMMA SoloStep ==
  ASSUME TypeOK, Solo, ~Overlap, [Next]_vars
  PROVE  Solo'
<1> USE DEF TypeOK, Solo, Ledger, Goto, Finish, Writing, book, proc, sent, blame
<1>1. ASSUME NEW r \in Runs, Start(r) PROVE Solo'
  BY <1>1 DEF Start
<1>2. ASSUME NEW r \in Runs, Look(r) PROVE Solo'
  BY <1>2 DEF Look, Skip, Proceed, Fetched, FetchFails, Unfit, Fit
<1>3. ASSUME NEW r \in Runs, Remind(r) PROVE Solo'
  BY <1>3 DEF Remind, NeedsAuth, NotDue, send_reminder, ReminderReplyLost, ReminderFails
<1>4. ASSUME NEW r \in Runs, _read_ledger(r) PROVE Solo'
  BY <1>4 DEF _read_ledger
<1>5. ASSUME NEW r \in Runs, claim(r) \/ release(r) \/ stamp_sent(r) \/ stamp_reminder(r)
      PROVE  Solo'
  <2>1. /\ pc[r] # "idle" /\ pc'[r] # "idle"
        /\ held' = [held EXCEPT ![r] = Nothing]
        /\ \A s \in Runs \ {r} : pc'[s] = pc[s]
    BY <1>5 DEF claim, release, stamp_sent, stamp_reminder, _write_ledger
  <2>2. \A s \in Runs \ {r} : pc[s] = "idle" /\ held[s] = Nothing
    BY <2>1
  <2> QED
    BY <2>1, <2>2
<1>6. ASSUME NEW r \in Runs, _deliver(r) \/ Refused(r) \/ ReplyLost(r) PROVE Solo'
  BY <1>6 DEF _deliver, Refused, ReplyLost
<1>7. ASSUME NEW r \in Runs, _write_artifacts(r) \/ SaveFails(r) PROVE Solo'
  BY <1>7 DEF _write_artifacts, SaveFails
<1>8. ASSUME NEW r \in Runs, WriteFails(r) PROVE Solo'
  BY <1>8 DEF WriteFails
<1>9. ASSUME NEW r \in Runs, Record(r) \/ Die(r) PROVE Solo'
  BY <1>9 DEF Record, Die, Leave
<1>10. CASE Pass
  BY <1>10 DEF Pass
<1>11. CASE UNCHANGED vars
  BY <1>11 DEF vars
<1> QED
  BY <1>1, <1>2, <1>3, <1>4, <1>5, <1>6, <1>7, <1>8, <1>9, <1>10, <1>11 DEF Next, Send

(* Alone, writing a copy back is changing the ledger.                       *)
Changes(r) ==
  /\ claim(r) => weeks' = [weeks EXCEPT ![Week(r)] = "claimed"] /\ reminded' = reminded
  /\ release(r) => weeks' = [weeks EXCEPT ![Week(r)] = "free"] /\ reminded' = reminded
  /\ stamp_sent(r) => weeks' = [weeks EXCEPT ![Week(r)] = "sent"] /\ reminded' = reminded
  /\ stamp_reminder(r) => weeks' = weeks /\ reminded' = began[r]

LEMMA WriteIsChange ==
  ASSUME TypeOK, Solo, Stage
  PROVE  \A r \in Runs : Changes(r)
<1> SUFFICES ASSUME NEW r \in Runs PROVE Changes(r)
  OBVIOUS
<1> USE DEF Solo, Ledger, _write_ledger
<1>1. held[r] # Nothing =>
        /\ held[r].weeks = weeks
        /\ \A x : [held[r] EXCEPT !.weeks[Week(r)] = x] =
                    [weeks |-> [weeks EXCEPT ![Week(r)] = x], reminded |-> reminded]
        /\ \A t : [held[r] EXCEPT !.reminded = t] = [weeks |-> weeks, reminded |-> t]
  OBVIOUS
<1>2. claim(r) => weeks' = [weeks EXCEPT ![Week(r)] = "claimed"] /\ reminded' = reminded
  BY <1>1 DEF claim
<1>3. release(r) => weeks' = [weeks EXCEPT ![Week(r)] = "free"] /\ reminded' = reminded
  BY <1>1 DEF release, Released, Stage
<1>4. stamp_sent(r) => weeks' = [weeks EXCEPT ![Week(r)] = "sent"] /\ reminded' = reminded
  BY <1>1 DEF stamp_sent, Stamped, Stage
<1>5. stamp_reminder(r) => weeks' = weeks /\ reminded' = began[r]
  BY <1>1 DEF stamp_reminder
<1> QED
  BY <1>2, <1>3, <1>4, <1>5 DEF Changes

LEMMA StageStep ==
  ASSUME TypeOK, AloneInv, ~Overlap, [Next]_vars
  PROVE  Stage' /\ SpentForCause'
<1>0. \A r \in Runs : Changes(r)
  BY WriteIsChange DEF AloneInv
<1> USE MomentFacts
    DEF TypeOK, AloneInv, Solo, Stage, Mailed, SpentForCause, Holds, Goto, Finish, Week,
        book, proc, sent, blame
<1> DEFINE Goal == Stage' /\ SpentForCause'
<1>1. ASSUME NEW r \in Runs, Start(r) PROVE Goal
  BY <1>1 DEF Start
<1>2. ASSUME NEW r \in Runs, Look(r) PROVE Goal
  BY <1>2 DEF Look, Skip, Proceed, Fetched, FetchFails, Unfit, Fit, already_handled
<1>3. ASSUME NEW r \in Runs, Remind(r) PROVE Goal
  BY <1>3 DEF Remind, NeedsAuth, NotDue, send_reminder, ReminderReplyLost, ReminderFails
<1>4. ASSUME NEW r \in Runs, _read_ledger(r) PROVE Goal
  BY <1>4 DEF _read_ledger
<1>5. ASSUME NEW r \in Runs, claim(r) PROVE Goal
  <2>1. /\ weeks' = [weeks EXCEPT ![Week(r)] = "claimed"]
        /\ pc[r] = "claim" /\ pc' = [pc EXCEPT ![r] = "deliver"]
        /\ UNCHANGED <<began, latest, mails, burned>>
    BY <1>5, <1>0 DEF claim, Changes
  <2> QED
    BY <2>1
<1>6. ASSUME NEW r \in Runs, release(r) PROVE Goal
  <2>1. /\ weeks' = [weeks EXCEPT ![Week(r)] = "free"]
        /\ pc[r] = "release" /\ pc' = [pc EXCEPT ![r] = "record"]
        /\ UNCHANGED <<began, latest, mails, burned>>
    BY <1>6, <1>0 DEF release, Changes
  <2> QED
    BY <2>1
<1>7. ASSUME NEW r \in Runs, stamp_sent(r) PROVE Goal
  <2>1. /\ weeks' = [weeks EXCEPT ![Week(r)] = "sent"]
        /\ pc[r] = "stamp" /\ pc' = [pc EXCEPT ![r] = "save"]
        /\ UNCHANGED <<began, latest, mails, burned>>
    BY <1>7, <1>0 DEF stamp_sent, Changes
  <2> QED
    BY <2>1
<1>8. ASSUME NEW r \in Runs, stamp_reminder(r) PROVE Goal
  <2>1. /\ weeks' = weeks
        /\ pc[r] = "noted" /\ pc' = [pc EXCEPT ![r] = "record"]
        /\ UNCHANGED <<began, latest, mails, burned>>
    BY <1>8, <1>0 DEF stamp_reminder, Changes
  <2> QED
    BY <2>1
<1>9. ASSUME NEW r \in Runs, _deliver(r) \/ Refused(r) \/ ReplyLost(r) PROVE Goal
  BY <1>9 DEF _deliver, Refused, ReplyLost
<1>10. ASSUME NEW r \in Runs, _write_artifacts(r) \/ SaveFails(r) PROVE Goal
  BY <1>10 DEF _write_artifacts, SaveFails
<1>11. ASSUME NEW r \in Runs, WriteFails(r) PROVE Goal
  BY <1>11 DEF WriteFails, Blame
<1>12. ASSUME NEW r \in Runs, Record(r) PROVE Goal
  BY <1>12 DEF Record, Leave
<1>13. ASSUME NEW r \in Runs, Die(r) PROVE Goal
  BY <1>13 DEF Die, Leave, Blame
<1>14. CASE Pass
  BY <1>14 DEF Pass
<1>15. CASE UNCHANGED vars
  BY <1>15 DEF vars
<1> QED
  BY <1>1, <1>2, <1>3, <1>4, <1>5, <1>6, <1>7, <1>8, <1>9, <1>10, <1>11, <1>12, <1>13,
     <1>14, <1>15 DEF Next, Send

LEMMA AloneAlways == ASSUME ~Overlap PROVE Spec => [](TypeOK /\ AloneInv)
<1>1. Init => AloneInv
  BY MomentFacts
  DEF Init, AloneInv, Solo, Stage, Mailed, PageIsProof, SpentForCause
<1>2. TypeOK /\ AloneInv /\ [Next]_vars => AloneInv'
  BY SoloStep, StageStep, MailedStep DEF AloneInv
<1> QED
  BY <1>1, <1>2, FinanceTypes, PTL DEF Spec

\* With one run at a time, a week is claimed only by a brief that was mailed,
\* by a run that is at it, or by a fault that struck between claim and send.
THEOREM SpentForCauseAlways == ASSUME ~Overlap PROVE Spec => []SpentForCause
<1>1. AloneInv => SpentForCause
  BY DEF AloneInv
<1> QED
  BY <1>1, AloneAlways, PTL

LEMMA MailedOnceStep ==
  ASSUME TypeOK, AloneInv, Once, ~Overlap, [Next]_vars
  PROVE  Once'
<1>0. \A r \in Runs : Changes(r)
  BY WriteIsChange DEF AloneInv
<1> USE MomentFacts
    DEF TypeOK, AloneInv, Solo, Stage, Once, OneCopy, Goto, Finish, Week,
        book, proc, sent, blame
<1>1. ASSUME NEW r \in Runs, Start(r) PROVE Once'
  BY <1>1 DEF Start
<1>2. ASSUME NEW r \in Runs, Look(r) PROVE Once'
  BY <1>2 DEF Look, Skip, Proceed, Fetched, FetchFails, Unfit, Fit
<1>3. ASSUME NEW r \in Runs, Remind(r) PROVE Once'
  BY <1>3 DEF Remind, NeedsAuth, NotDue, send_reminder, ReminderReplyLost, ReminderFails
<1>4. ASSUME NEW r \in Runs, _read_ledger(r) PROVE Once'
  BY <1>4 DEF _read_ledger
<1>5. ASSUME NEW r \in Runs, claim(r) PROVE Once'
  <2>1. /\ weeks' = [weeks EXCEPT ![Week(r)] = "claimed"]
        /\ pc[r] = "claim" /\ pc' = [pc EXCEPT ![r] = "deliver"]
        /\ UNCHANGED <<began, latest, mails, burned, lost>>
    BY <1>5, <1>0 DEF claim, Changes
  <2> QED
    BY <2>1
<1>6. ASSUME NEW r \in Runs, release(r) PROVE Once'
  <2>1. /\ weeks' = [weeks EXCEPT ![Week(r)] = "free"]
        /\ pc[r] = "release" /\ pc' = [pc EXCEPT ![r] = "record"]
        /\ UNCHANGED <<began, latest, mails, burned, lost>>
    BY <1>6, <1>0 DEF release, Changes
  <2> QED
    BY <2>1
<1>7. ASSUME NEW r \in Runs, stamp_sent(r) PROVE Once'
  <2>1. /\ weeks' = [weeks EXCEPT ![Week(r)] = "sent"]
        /\ pc[r] = "stamp" /\ pc' = [pc EXCEPT ![r] = "save"]
        /\ UNCHANGED <<began, latest, mails, burned, lost>>
    BY <1>7, <1>0 DEF stamp_sent, Changes
  <2> QED
    BY <2>1
<1>8. ASSUME NEW r \in Runs, stamp_reminder(r) PROVE Once'
  <2>1. /\ weeks' = weeks
        /\ pc[r] = "noted" /\ pc' = [pc EXCEPT ![r] = "record"]
        /\ UNCHANGED <<began, latest, mails, burned, lost>>
    BY <1>8, <1>0 DEF stamp_reminder, Changes
  <2> QED
    BY <2>1
<1>9. ASSUME NEW r \in Runs, _deliver(r) \/ Refused(r) \/ ReplyLost(r) PROVE Once'
  BY <1>9 DEF _deliver, Refused, ReplyLost
<1>10. ASSUME NEW r \in Runs, _write_artifacts(r) \/ SaveFails(r) PROVE Once'
  BY <1>10 DEF _write_artifacts, SaveFails
<1>11. ASSUME NEW r \in Runs, WriteFails(r) PROVE Once'
  BY <1>11 DEF WriteFails
<1>12. ASSUME NEW r \in Runs, Record(r) \/ Die(r) PROVE Once'
  BY <1>12 DEF Record, Die, Leave
<1>13. CASE Pass
  BY <1>13 DEF Pass
<1>14. CASE UNCHANGED vars
  BY <1>14 DEF vars
<1> QED
  BY <1>1, <1>2, <1>3, <1>4, <1>5, <1>6, <1>7, <1>8, <1>9, <1>10, <1>11, <1>12, <1>13,
     <1>14 DEF Next, Send

\* With one run at a time, a week's brief is mailed at most once, and once more
\* for each reply of a server that was lost, through any number of deaths,
\* failed writes, refused sends and restarts.
THEOREM OneCopyAlways == ASSUME ~Overlap PROVE Spec => []OneCopy
<1>1. Init => Once
  BY DEF Init, Once, OneCopy
<1>2. TypeOK /\ AloneInv /\ Once /\ [Next]_vars => Once'
  BY MailedOnceStep
<1>3. Once => OneCopy
  BY DEF Once
<1> QED
  BY <1>1, <1>2, <1>3, AloneAlways, PTL DEF Spec

\* With one run at a time, a stamped week stays stamped: nothing gives it back.
THEOREM SentStaysAlways == ASSUME ~Overlap PROVE Spec => SentStays
<1>1. ASSUME TypeOK, AloneInv, [Next]_vars
      PROVE  \A w \in Weeks : weeks[w] = "sent" => weeks'[w] = "sent"
  <2>0. \A r \in Runs : Changes(r)
    BY <1>1, WriteIsChange DEF AloneInv
  <2> USE <1>1 DEF TypeOK, AloneInv, Stage, book, blame, sent, proc
  <2>1. ASSUME NEW r \in Runs, claim(r) \/ release(r) \/ stamp_sent(r) \/ stamp_reminder(r)
        PROVE  \A w \in Weeks : weeks[w] = "sent" => weeks'[w] = "sent"
    BY <2>1, <2>0, MomentFacts DEF claim, release, stamp_sent, stamp_reminder, Week, Changes
  <2>2. ASSUME NEW r \in Runs, Start(r) \/ Look(r) \/ Remind(r) \/ _read_ledger(r)
        PROVE  weeks' = weeks
    BY <2>2 DEF Start, Look, Skip, Proceed, Fetched, FetchFails, Unfit, Fit, _read_ledger,
                Remind, NeedsAuth, NotDue, send_reminder, ReminderReplyLost, ReminderFails
  <2>3. ASSUME NEW r \in Runs, \/ _deliver(r) \/ Refused(r) \/ ReplyLost(r)
                               \/ _write_artifacts(r) \/ SaveFails(r)
                               \/ WriteFails(r) \/ Record(r) \/ Die(r)
        PROVE  weeks' = weeks
    BY <2>3 DEF _deliver, Refused, ReplyLost, _write_artifacts, SaveFails, WriteFails,
                Record, Die
  <2>4. CASE Pass \/ UNCHANGED vars
    BY <2>4 DEF Pass, vars
  <2> QED
    BY <2>1, <2>2, <2>3, <2>4 DEF Next, Send
<1>2. [](TypeOK /\ AloneInv) /\ [][Next]_vars => SentStays
  BY <1>1, PTL DEF SentStays
<1> QED
  BY <1>2, AloneAlways, PTL DEF Spec

-----------------------------------------------------------------------------
(* The finance brief is a claimed mail: every step of a run is a step of    *)
(* ClaimedMail or none.                                                     *)
Abstracted == M!ClaimNext \/ UNCHANGED M!mailVars

(* A step that frees no week, claims none and moves no holder.              *)
LEMMA PhaseStands ==
  ASSUME \A w \in Weeks : (weeks'[w] = "free" <=> weeks[w] = "free"),
         \A r \in Runs, w \in Weeks : Holds(r, w)' <=> Holds(r, w)
  PROVE  Phase' = Phase
BY DEF Phase

(* A step of one run that leaves the other weeks alone.                     *)
LEMMA PhaseTurns ==
  ASSUME NEW v \in Weeks, NEW to, Phase'[v] = to,
         \A w \in Weeks \ {v} : (weeks'[w] = "free" <=> weeks[w] = "free"),
         \A r \in Runs, w \in Weeks \ {v} : Holds(r, w)' <=> Holds(r, w)
  PROVE  Phase' = [Phase EXCEPT ![v] = to]
<1>1. \A w \in Weeks \ {v} : Phase'[w] = Phase[w]
  BY DEF Phase
<1>2. Phase = [w \in Weeks |-> Phase[w]] /\ Phase' = [w \in Weeks |-> Phase'[w]]
  BY DEF Phase
<1> QED
  BY <1>1, <1>2

(* What the ledger and the run in it make of its week.                      *)
LEMMA PhaseOf ==
  ASSUME NEW w \in Weeks
  PROVE  /\ weeks[w] = "free" => Phase[w] = "open"
         /\ weeks[w] # "free" /\ (\E r \in Runs : Holds(r, w)) => Phase[w] = "held"
         /\ weeks[w] # "free" /\ ~(\E r \in Runs : Holds(r, w)) => Phase[w] = "told"
BY DEF Phase
LEMMA PhaseOfNext ==
  ASSUME NEW w \in Weeks
  PROVE  /\ weeks'[w] = "free" => Phase'[w] = "open"
         /\ weeks'[w] # "free" /\ (\E r \in Runs : Holds(r, w)') => Phase'[w] = "held"
         /\ weeks'[w] # "free" /\ ~(\E r \in Runs : Holds(r, w)') => Phase'[w] = "told"
BY DEF Phase

LEMMA QuietIsNone ==
  ASSUME UNCHANGED <<weeks, mails, lost>>, \A r \in Runs, w \in Weeks : Holds(r, w)' <=> Holds(r, w)
  PROVE  Abstracted
<1>1. Phase' = Phase
  BY PhaseStands
<1> QED
  BY <1>1 DEF Abstracted, M!mailVars

LEMMA AbstractLook ==
  ASSUME TypeOK, AloneInv, NEW r \in Runs, Start(r) \/ Look(r) \/ _read_ledger(r)
  PROVE  Abstracted
<1>1. UNCHANGED <<weeks, mails, lost>>
  BY DEF Start, Look, Skip, Proceed, Fetched, FetchFails, Unfit, Fit, _read_ledger, book, sent
<1>2. \A s \in Runs, w \in Weeks : Holds(s, w)' <=> Holds(s, w)
  BY DEF Start, Look, Skip, Proceed, Fetched, FetchFails, Unfit, Fit, _read_ledger, Holds, Week,
         Goto, Finish, TypeOK
<1> QED
  BY <1>1, <1>2, QuietIsNone

LEMMA AbstractRemind ==
  ASSUME TypeOK, AloneInv, NEW r \in Runs, Remind(r)
  PROVE  Abstracted
<1>1. UNCHANGED <<weeks, mails>>
  BY DEF Remind, NeedsAuth, NotDue, send_reminder, ReminderReplyLost, ReminderFails, book, sent
<1>2. \A s \in Runs, w \in Weeks : Holds(s, w)' <=> Holds(s, w)
  BY DEF Remind, NeedsAuth, NotDue, send_reminder, ReminderReplyLost, ReminderFails, Holds, Week,
         Goto, Finish, TypeOK
<1>3. lost' = lost \/ lost' = lost + 1
  BY DEF Remind, NeedsAuth, NotDue, send_reminder, ReminderReplyLost, ReminderFails, sent
<1>4. Phase' = Phase
  BY <1>1, <1>2, PhaseStands
<1> QED
  BY <1>1, <1>3, <1>4 DEF Abstracted, M!mailVars, M!ClaimNext, M!DoubtElsewhere

LEMMA AbstractClaim ==
  ASSUME TypeOK, AloneInv, NEW r \in Runs, claim(r)
  PROVE  Abstracted
<1>1. /\ pc[r] = "claim" /\ weeks' = [weeks EXCEPT ![Week(r)] = "claimed"]
      /\ pc' = [pc EXCEPT ![r] = "deliver"] /\ UNCHANGED <<began, mails, lost>>
  BY WriteIsChange DEF AloneInv, Changes, claim, Goto, sent
<1>2. Week(r) \in Weeks /\ weeks[Week(r)] = "free"
  BY <1>1, MomentFacts DEF AloneInv, Stage, TypeOK, Week
<1>3. Phase[Week(r)] = "open"
  BY <1>2, PhaseOf
<1>4. Phase'[Week(r)] = "held"
  <2>1. PICK v \in Weeks : v = Week(r)
    BY <1>2
  <2>2. weeks'[v] # "free" /\ Holds(r, v)'
    BY <1>1, <1>2, <2>1 DEF TypeOK, Holds, Week
  <2>3. Phase'[v] = "held"
    BY <2>2, PhaseOfNext
  <2> QED
    BY <2>1, <2>3
<1>5. Phase' = [Phase EXCEPT ![Week(r)] = "held"]
  <2>1. \A w \in Weeks \ {Week(r)} : weeks'[w] = weeks[w]
    BY <1>1 DEF TypeOK
  <2>2. \A s \in Runs, w \in Weeks \ {Week(r)} : Holds(s, w)' <=> Holds(s, w)
    BY <1>1 DEF TypeOK, Holds, Week
  <2> QED
    BY <1>2, <1>4, <2>1, <2>2, PhaseTurns
<1>6. M!Hold(Week(r))
  BY <1>1, <1>3, <1>5 DEF M!Hold, M!Turn
<1> QED
  BY <1>2, <1>6 DEF Abstracted, M!ClaimNext

(* A run in the send holds its week, and no other run does.                 *)
LEMMA HolderIsOne ==
  ASSUME TypeOK, AloneInv, NEW r \in Runs, pc[r] \in {"deliver", "release"}
  PROVE  /\ Week(r) \in Weeks /\ weeks[Week(r)] = "claimed" /\ Phase[Week(r)] = "held"
         /\ \A s \in Runs \ {r} : pc[s] = "idle"
<1>1. Week(r) \in Weeks /\ weeks[Week(r)] = "claimed"
  BY MomentFacts DEF AloneInv, Stage, TypeOK, Week
<1>2. Holds(r, Week(r))
  BY DEF Holds
<1>3. \A s \in Runs \ {r} : pc[s] = "idle"
  BY DEF AloneInv, Solo
<1> QED
  BY <1>1, <1>2, <1>3, PhaseOf

(* A run that leaves the send tells its week or spends it.                  *)
LEMMA LeavesSend ==
  ASSUME TypeOK, AloneInv, NEW r \in Runs, pc[r] \in {"deliver", "release"}, weeks' = weeks,
         pc'[r] \notin {"deliver", "release"}, \A s \in Runs \ {r} : pc'[s] = pc[s] /\ began'[s] = began[s]
  PROVE  Phase' = [Phase EXCEPT ![Week(r)] = "told"]
<1>1. /\ Week(r) \in Weeks /\ weeks[Week(r)] = "claimed"
      /\ \A s \in Runs \ {r} : pc[s] = "idle"
  BY HolderIsOne
<1>2. \A s \in Runs, w \in Weeks : ~ Holds(s, w)'
  BY <1>1 DEF Holds
<1>3. \A s \in Runs, w \in Weeks \ {Week(r)} : ~ Holds(s, w)
  BY <1>1 DEF Holds
<1>4. Phase'[Week(r)] = "told"
  BY <1>1, <1>2, PhaseOfNext
<1> QED
  BY <1>1, <1>2, <1>3, <1>4, PhaseTurns

LEMMA AbstractDeliver ==
  ASSUME TypeOK, AloneInv, NEW r \in Runs, _deliver(r) \/ Refused(r) \/ ReplyLost(r)
  PROVE  Abstracted
<1>1. pc[r] = "deliver" /\ weeks' = weeks /\ began' = began /\ Week(r) = Week(r)
  BY DEF _deliver, Refused, ReplyLost, book
<1>2. Week(r) \in Weeks /\ Phase[Week(r)] = "held"
  BY <1>1, HolderIsOne
<1>3. CASE _deliver(r)
  <2>1. /\ pc' = [pc EXCEPT ![r] = "stamp"] /\ mails' = [mails EXCEPT ![Week(r)] = @ + 1]
        /\ lost' = lost
    BY <1>3 DEF _deliver, Goto
  <2>2. Phase' = [Phase EXCEPT ![Week(r)] = "told"]
    BY <1>1, <2>1, LeavesSend DEF TypeOK
  <2>3. M!Tell(Week(r))
    BY <1>2, <2>1, <2>2 DEF M!Tell, M!Turn, M!Goes
  <2> QED
    BY <1>2, <2>3 DEF Abstracted, M!ClaimNext
<1>4. CASE Refused(r)
  <2>1. pc' = [pc EXCEPT ![r] = "release"] /\ UNCHANGED <<mails, lost>>
    BY <1>4 DEF Refused, Goto, sent
  <2>2. \A s \in Runs, w \in Weeks : Holds(s, w)' <=> Holds(s, w)
    BY <1>1, <2>1 DEF Holds, Week, TypeOK
  <2> QED
    BY <1>1, <2>1, <2>2, QuietIsNone
<1>5. CASE ReplyLost(r)
  <2>1. /\ pc' = [pc EXCEPT ![r] = "release"] /\ mails' = [mails EXCEPT ![Week(r)] = @ + 1]
        /\ lost' = lost + 1
    BY <1>5 DEF ReplyLost, Goto
  <2>2. \A s \in Runs, w \in Weeks : Holds(s, w)' <=> Holds(s, w)
    BY <1>1, <2>1 DEF Holds, Week, TypeOK
  <2>3. Phase' = Phase
    BY <1>1, <2>2, PhaseStands
  <2>4. Phase' = [Phase EXCEPT ![Week(r)] = "held"]
    <3>1. Phase = [w \in Weeks |-> Phase[w]]
      BY DEF Phase
    <3> QED
      BY <1>2, <2>3, <3>1
  <2>5. M!Doubt(Week(r))
    BY <1>2, <2>1, <2>4 DEF M!Doubt, M!Turn, M!Goes
  <2> QED
    BY <1>2, <2>5 DEF Abstracted, M!ClaimNext
<1> QED
  BY <1>3, <1>4, <1>5

LEMMA AbstractRelease ==
  ASSUME TypeOK, AloneInv, NEW r \in Runs, release(r)
  PROVE  Abstracted
<1>1. /\ pc[r] = "release" /\ weeks' = [weeks EXCEPT ![Week(r)] = "free"]
      /\ pc' = [pc EXCEPT ![r] = "record"] /\ UNCHANGED <<began, mails, lost>>
  BY WriteIsChange DEF AloneInv, Changes, release, Finish, Goto, sent
<1>2. Week(r) \in Weeks /\ Phase[Week(r)] = "held" /\ \A s \in Runs \ {r} : pc[s] = "idle"
  BY <1>1, HolderIsOne
<1>3. Phase'[Week(r)] = "open"
  BY <1>1, <1>2, PhaseOfNext DEF TypeOK
<1>4. Phase' = [Phase EXCEPT ![Week(r)] = "open"]
  <2>1. \A w \in Weeks \ {Week(r)} : weeks'[w] = weeks[w]
    BY <1>1 DEF TypeOK
  <2>2. \A s \in Runs, w \in Weeks \ {Week(r)} : Holds(s, w)' <=> Holds(s, w)
    BY <1>1 DEF TypeOK, Holds, Week
  <2> QED
    BY <1>2, <1>3, <2>1, <2>2, PhaseTurns
<1>5. M!GiveBack(Week(r))
  BY <1>1, <1>2, <1>4 DEF M!GiveBack, M!Turn
<1> QED
  BY <1>2, <1>5 DEF Abstracted, M!ClaimNext

LEMMA AbstractStamps ==
  ASSUME TypeOK, AloneInv, NEW r \in Runs, stamp_sent(r) \/ stamp_reminder(r)
  PROVE  Abstracted
<1>1. /\ pc[r] \in {"stamp", "noted"} /\ UNCHANGED <<began, mails, lost>>
      /\ \E to \in {"save", "record"} : pc' = [pc EXCEPT ![r] = to]
  BY DEF stamp_sent, stamp_reminder, Finish, Goto, sent
<1>2. \A w \in Weeks : (weeks'[w] = "free" <=> weeks[w] = "free")
  <2>1. CASE stamp_sent(r)
    <3>1. weeks' = [weeks EXCEPT ![Week(r)] = "sent"] /\ weeks[Week(r)] = "claimed"
      BY <2>1, WriteIsChange DEF AloneInv, Changes, Stage, stamp_sent
    <3> QED
      BY <3>1 DEF TypeOK
  <2>2. CASE stamp_reminder(r)
    BY <2>2, WriteIsChange DEF AloneInv, Changes
  <2> QED
    BY <2>1, <2>2
<1>3. \A s \in Runs, w \in Weeks : Holds(s, w)' <=> Holds(s, w)
  BY <1>1 DEF Holds, Week, TypeOK
<1>4. Phase' = Phase
  BY <1>2, <1>3, PhaseStands
<1> QED
  BY <1>1, <1>4 DEF Abstracted, M!mailVars

LEMMA AbstractEnds ==
  ASSUME TypeOK, AloneInv, NEW r \in Runs,
         _write_artifacts(r) \/ SaveFails(r) \/ WriteFails(r) \/ Record(r) \/ Die(r)
  PROVE  Abstracted
<1>1. /\ UNCHANGED <<weeks, mails, lost>> /\ pc'[r] \notin {"deliver", "release"}
      /\ \A s \in Runs \ {r} : pc'[s] = pc[s] /\ began'[s] = began[s]
  BY DEF _write_artifacts, SaveFails, WriteFails, Record, Die, Leave, Finish, Goto, book, sent, TypeOK, Writing
<1>2. CASE pc[r] \in {"deliver", "release"}
  <2>1. Week(r) \in Weeks /\ Phase[Week(r)] = "held"
    BY <1>2, HolderIsOne
  <2>2. Phase' = [Phase EXCEPT ![Week(r)] = "told"]
    BY <1>1, <1>2, LeavesSend
  <2>3. M!Spend(Week(r))
    BY <1>1, <2>1, <2>2 DEF M!Spend, M!Turn
  <2> QED
    BY <2>1, <2>3 DEF Abstracted, M!ClaimNext
<1>3. CASE pc[r] \notin {"deliver", "release"}
  <2>1. \A s \in Runs, w \in Weeks : Holds(s, w)' <=> Holds(s, w)
    BY <1>1, <1>3 DEF Holds, Week
  <2> QED
    BY <1>1, <2>1, QuietIsNone
<1> QED
  BY <1>2, <1>3

LEMMA AbstractStep ==
  ASSUME TypeOK, AloneInv, [Next]_vars
  PROVE  Abstracted
<1>1. CASE Pass \/ UNCHANGED vars
  <2>1. UNCHANGED <<weeks, mails, lost, pc, began>>
    BY <1>1 DEF Pass, vars, book, proc, sent
  <2>2. \A r \in Runs, w \in Weeks : Holds(r, w)' <=> Holds(r, w)
    BY <2>1 DEF Holds, Week
  <2> QED
    BY <2>1, <2>2, QuietIsNone
<1> QED
  BY <1>1, AbstractLook, AbstractRemind, AbstractClaim, AbstractDeliver, AbstractRelease, AbstractStamps,
     AbstractEnds DEF Next, Send

(* With one run at a time the finance brief implements ClaimedMail: a brief *)
(* goes only while its run holds the week, and a week that is stamped, or   *)
(* whose run died in the send, is told and never mailed again (claim,       *)
(* release, stamp_sent).                                                    *)
THEOREM KeepsClaimsAlways == ASSUME ~Overlap PROVE Spec => KeepsClaims
<1>1. Init => M!ClaimInit
  BY DEF Init, M!ClaimInit, Phase
<1>2. TypeOK /\ AloneInv /\ [Next]_vars => [M!ClaimNext]_(M!mailVars)
  BY AbstractStep DEF Abstracted
<1> QED
  BY <1>1, <1>2, AloneAlways, PTL DEF Spec, KeepsClaims, M!ClaimSpec

(* What ClaimedMail promises of the things told under a claim: one copy, and*)
(* one more for each message whose reply was lost; what was told is told    *)
(* for good.                                                                *)
THEOREM ClaimedIsToldOnce == M!ClaimSpec => []M!ToldOnce /\ M!ToldIsFinal
<1> DEFINE ClaimInv == /\ M!ClaimTypeOK /\ M!ToldOnce
                       /\ \A t \in Weeks : Phase[t] # "told" => mails[t] <= lost
<1>1. M!ClaimInit => ClaimInv
  BY DEF M!ClaimInit, M!ClaimTypeOK, M!ToldOnce
<1>2. ClaimInv /\ [M!ClaimNext]_(M!mailVars) => ClaimInv'
  <2> SUFFICES ASSUME ClaimInv, [M!ClaimNext]_(M!mailVars) PROVE ClaimInv'
    OBVIOUS
  <2> USE DEF M!ClaimTypeOK, M!ToldOnce, M!Turn, M!Goes
  <2>1. ASSUME NEW t \in Weeks, M!Hold(t) \/ M!GiveBack(t) \/ M!Spend(t) PROVE ClaimInv'
    BY <2>1 DEF M!Hold, M!GiveBack, M!Spend
  <2>2. ASSUME NEW t \in Weeks, M!Tell(t) PROVE ClaimInv'
    BY <2>2 DEF M!Tell
  <2>3. ASSUME NEW t \in Weeks, M!Doubt(t) PROVE ClaimInv'
    BY <2>3 DEF M!Doubt
  <2>4. CASE M!DoubtElsewhere
    BY <2>4 DEF M!DoubtElsewhere
  <2>5. CASE UNCHANGED M!mailVars
    BY <2>5 DEF M!mailVars
  <2> QED
    BY <2>1, <2>2, <2>3, <2>4, <2>5 DEF M!ClaimNext
<1>3. ClaimInv /\ [M!ClaimNext]_(M!mailVars)
      => \A t \in Weeks : Phase[t] = "told" => Phase'[t] = "told" /\ mails'[t] = mails[t]
  BY DEF M!ClaimTypeOK, M!ClaimNext, M!Hold, M!Tell, M!GiveBack, M!Spend, M!Doubt, M!DoubtElsewhere,
         M!Turn, M!Goes, M!mailVars
<1>4. ClaimInv => M!ToldOnce
  OBVIOUS
<1> QED
  BY <1>1, <1>2, <1>3, <1>4, PTL DEF M!ClaimSpec, M!ToldIsFinal

(* With one run at a time, no brief goes of a week that was stamped, or     *)
(* whose claim a dead run or a failed write left behind.                    *)
THEOREM ToldIsFinalAlways == ASSUME ~Overlap PROVE Spec => M!ToldIsFinal
BY KeepsClaimsAlways, ClaimedIsToldOnce, PTL DEF KeepsClaims

----------------------------------------------------------------------------
(* The notes.                                                               *)

(* The ledger's stamp is at or after every note that was stamped; a note    *)
(* about to be sent is due; a note not stamped yet is of this moment.       *)
Noted ==
  /\ reminded <= now
  /\ \A t \in Moments : notes[t] > 0 => t <= now
  /\ \A r \in Runs : pc[r] # "idle" => began[r] = now
  /\ \A r \in Runs : pc[r] = "remind" => reminder_due(now)
  /\ \A t \in Moments \ unstamped : notes[t] > 0 =>
       t <= reminded \/ \E r \in Runs : pc[r] = "noted" /\ t = now
  /\ NotesApart

(* A due note is late enough after every note that was stamped.             *)
LEMMA DueIsApart ==
  ASSUME TypeOK, reminder_due(now), NEW t \in Moments, t <= reminded
  PROVE  Apart(t, now) /\ t < now
<1>1. /\ t \in Nat /\ reminded \in Nat /\ now \in Nat
      /\ (now - reminded) \div DayTicks >= CooldownDays
  BY MomentFacts DEF TypeOK, reminder_due
<1>2. (now - t) \div DayTicks >= (now - reminded) \div DayTicks
  BY <1>1, DivOrder, FinanceAssumption
<1>3. /\ (now - t) \div DayTicks \in Int
      /\ (now - reminded) \div DayTicks \in Int
  BY <1>1, FinanceAssumption
<1>4. Apart(t, now)
  BY <1>1, <1>2, <1>3, FinanceAssumption DEF Apart
<1>5. ~ (t >= now)
  <2> SUFFICES ASSUME t >= now PROVE FALSE
    OBVIOUS
  <2>1. now - t <= 0
    BY <1>1
  <2>2. (now - t) \div DayTicks <= 0 \div DayTicks
    BY <1>1, <2>1, DivOrder, FinanceAssumption
  <2>3. 0 \div DayTicks = 0
    BY FinanceAssumption
  <2> QED
    BY <1>3, <1>4, <2>2, <2>3, FinanceAssumption DEF Apart
<1> QED
  BY <1>1, <1>4, <1>5

LEMMA NoteGoesOut ==
  ASSUME TypeOK, Solo, Noted, NEW r \in Runs, pc[r] = "remind",
         notes' = [notes EXCEPT ![began[r]] = @ + 1],
         unstamped \subseteq unstamped'
  PROVE  /\ NotesApart'
         /\ \A t \in Moments : notes'[t] > 0 => t <= now
         /\ \A t \in Moments \ unstamped' : notes'[t] > 0 => t <= reminded \/ t = now
<1>1. began[r] = now /\ now \in Moments /\ reminder_due(now)
  BY DEF Noted, TypeOK
<1>2. \A t \in Moments \ unstamped : notes[t] > 0 => t <= reminded
  BY DEF Noted, Solo
<1>3. \A t \in Moments \ unstamped : notes[t] > 0 => Apart(t, now) /\ t < now
  BY <1>1, <1>2, DueIsApart
<1>4. \A t \in Moments : notes'[t] = IF t = now THEN notes[t] + 1 ELSE notes[t]
  BY <1>1 DEF TypeOK
<1>5. now \notin unstamped => notes[now] = 0
  BY <1>1, <1>3, MomentFacts DEF TypeOK
<1>6. NotesApart'
  <2> SUFFICES ASSUME NEW t \in Moments \ unstamped', notes'[t] > 0
               PROVE  /\ notes'[t] = 1
                      /\ \A u \in Moments : t < u /\ notes'[u] > 0 => Apart(t, u)
    BY DEF NotesApart, Apart
  <2>1. CASE t = now
    <3>1. notes'[t] = 1
      BY <1>4, <1>5, <2>1
    <3>2. \A u \in Moments : t < u => notes'[u] = 0
      BY <1>4, <2>1, MomentFacts DEF Noted, TypeOK
    <3> QED
      BY <3>1, <3>2
  <2>2. CASE t # now
    <3>1. notes[t] > 0
      BY <1>4, <2>2
    <3> QED
      BY <1>3, <1>4, <2>2, <3>1 DEF Noted, NotesApart
  <2> QED
    BY <2>1, <2>2
<1>7. \A t \in Moments : notes'[t] > 0 => t <= now
  BY <1>1, <1>4, MomentFacts DEF Noted, TypeOK
<1> QED
  BY <1>2, <1>4, <1>6, <1>7

LEMMA NotedStep ==
  ASSUME TypeOK, AloneInv, Noted, ~Overlap, [Next]_vars
  PROVE  Noted'
<1>0. (\A r \in Runs : Changes(r)) /\ Solo
  BY WriteIsChange DEF AloneInv
<1> USE MomentFacts
    DEF TypeOK, Solo, Noted, Goto, Finish, book, proc, sent, blame, reminder_due,
        NotesApart, Apart
<1>1. ASSUME NEW r \in Runs, Start(r) PROVE Noted'
  BY <1>0, <1>1 DEF Start
<1>2. ASSUME NEW r \in Runs, Look(r) PROVE Noted'
  BY <1>0, <1>2 DEF Look, Skip, Proceed, Fetched, FetchFails, Unfit, Fit
<1>3. ASSUME NEW r \in Runs, NeedsAuth(r) \/ NotDue(r) \/ ReminderFails(r) PROVE Noted'
  BY <1>0, <1>3 DEF NeedsAuth, NotDue, ReminderFails
<1>4. ASSUME NEW r \in Runs, send_reminder(r) \/ ReminderReplyLost(r) PROVE Noted'
  <2>1. /\ NotesApart'
        /\ \A t \in Moments : notes'[t] > 0 => t <= now
        /\ \A t \in Moments \ unstamped' : notes'[t] > 0 => t <= reminded \/ t = now
    BY <1>0, <1>4, NoteGoesOut DEF send_reminder, ReminderReplyLost
  <2>2. CASE send_reminder(r)
    BY <1>0, <2>1, <2>2 DEF send_reminder
  <2>3. CASE ReminderReplyLost(r)
    <3>1. \A t \in Moments \ unstamped' : notes'[t] > 0 => t <= reminded
      BY <1>0, <2>1, <2>3 DEF ReminderReplyLost
    <3> QED
      BY <1>0, <2>1, <2>3, <3>1 DEF ReminderReplyLost
  <2> QED
    BY <1>4, <2>2, <2>3
<1>5. ASSUME NEW r \in Runs, _read_ledger(r) PROVE Noted'
  BY <1>0, <1>5 DEF _read_ledger
<1>6. ASSUME NEW r \in Runs, claim(r) \/ release(r) \/ stamp_sent(r) PROVE Noted'
  <2>1. /\ pc[r] \in {"claim", "release", "stamp"}
        /\ \E to \in {"deliver", "record", "save"} : pc' = [pc EXCEPT ![r] = to]
        /\ UNCHANGED <<now, reminded, began, notes, unstamped>>
    BY <1>6, <1>0 DEF claim, release, stamp_sent, Changes
  <2> QED
    BY <1>0, <2>1
<1>7. ASSUME NEW r \in Runs, stamp_reminder(r) PROVE Noted'
  <2>1. /\ pc[r] = "noted" /\ pc' = [pc EXCEPT ![r] = "record"]
        /\ reminded' = now
        /\ UNCHANGED <<now, began, notes, unstamped>>
    BY <1>7, <1>0 DEF stamp_reminder, Changes
  <2> QED
    BY <1>0, <2>1
<1>8. ASSUME NEW r \in Runs, \/ _deliver(r) \/ Refused(r) \/ ReplyLost(r)
                             \/ _write_artifacts(r) \/ SaveFails(r)
      PROVE  Noted'
  BY <1>0, <1>8 DEF _deliver, Refused, ReplyLost, _write_artifacts, SaveFails
<1>9. ASSUME NEW r \in Runs, WriteFails(r) PROVE Noted'
  BY <1>0, <1>9 DEF WriteFails, Blame
<1>10. ASSUME NEW r \in Runs, Record(r) PROVE Noted'
  BY <1>0, <1>10 DEF Record, Leave
<1>11. ASSUME NEW r \in Runs, Die(r) PROVE Noted'
  BY <1>0, <1>11 DEF Die, Leave, Blame
<1>12. CASE Pass
  BY <1>12 DEF Pass
<1>13. CASE UNCHANGED vars
  BY <1>13 DEF vars
<1> QED
  BY <1>1, <1>2, <1>3, <1>4, <1>5, <1>6, <1>7, <1>8, <1>9, <1>10, <1>11, <1>12, <1>13
  DEF Next, Send, Remind

\* With one run at a time, notes lie the cooldown apart, but for a note that
\* went out and could not be stamped.
THEOREM NotesApartAlways == ASSUME ~Overlap PROVE Spec => []NotesApart
<1>1. Init => Noted
  BY MomentFacts DEF Init, Noted, NotesApart
<1>2. TypeOK /\ AloneInv /\ Noted /\ [Next]_vars => Noted'
  BY NotedStep
<1>3. Noted => NotesApart
  BY DEF Noted
<1> QED
  BY <1>1, <1>2, <1>3, AloneAlways, PTL DEF Spec

-----------------------------------------------------------------------------
(* The preps.                                                               *)
Copies(key) == Cardinality({y \in prepped : y.key = key})

(* A key that no tick asks about any more, and what a ledger holds back.    *)
Past(key) == IF prepMode = "daily" THEN key[2] < R!day(clock) ELSE key[2] <= clock
Held(l, key) == R!already_sent(l, key) \/ Past(key)
Spent(l, key) == Held(l, key) \/ Copies(key) <= troubles

PrepTypes ==
  /\ clock \in Nat /\ troubles \in Nat /\ IsFiniteSet(prepped)
  /\ start \in [Meetings -> Int \cup {None}]
  /\ \A x \in prepped : x.key[2] \in Int

RowsOk(l) ==
  \A x \in l : /\ x.at \in Nat /\ x.key[2] \in Int
               /\ IF prepMode = "daily" THEN x.key[2] = R!day(x.at) ELSE x.key[2] <= x.at + Lead

OnTime(t, key) ==
  key[2] \in Int /\ IF prepMode = "daily" THEN key = <<"daily", R!day(t)>> ELSE key[2] <= t + Lead

TickFields == {"rows", "due", "since", "at", "sees", "key", "asked", "sent"}
NoneIsNoTick == DOMAIN None # TickFields

InHand(t, key) == t.sent /\ key = t.key
InTick(t) ==
  /\ DOMAIN t = TickFields
  /\ t.sent \in BOOLEAN /\ t.at \in Nat /\ t.at <= clock
  /\ RowsOk(t.rows)
  /\ t.sent \/ t.asked # {} => t.key \in t.due
  /\ \A key \in t.due : OnTime(t.at, key) /\ (InHand(t, key) \/ Copies(key) <= troubles)
  /\ \A x \in prepped : InHand(t, x.key) \/ Spent(t.rows, x.key)

PrepAtMost == \A x \in prepped : Copies(x.key) <= 1 + troubles
PrepBehind == tick # None /\ tick.sent
PrepInv ==
  /\ PrepTypes /\ RowsOk(prepRows) /\ PrepAtMost
  /\ PrepBehind \/ \A x \in prepped : Spent(prepRows, x.key)
  /\ tick # None => InTick(tick)

LEMMA LaterDay ==
  ASSUME NEW a \in Nat, NEW b \in Nat, a <= b
  PROVE  R!day(a) <= R!day(b) /\ R!day(a) \in Int
<1> DEFINE D == PrepDay
<1>1. D \in Nat \ {0} BY PrepAssumption
<1> HIDE DEF D
<1>2. a \div D <= b \div D /\ a \div D \in Int BY <1>1, SMTT(30)
<1> QED BY <1>2 DEF D, R!day

LEMMA DayAfter ==
  ASSUME NEW a \in Nat, NEW b \in Nat, a + PrepDay <= b
  PROVE  R!day(a) < R!day(b)
<1> DEFINE D == PrepDay
<1>1. D \in Nat \ {0} BY PrepAssumption
<1>0. a + D <= b OBVIOUS
<1> HIDE DEF D
<1>2. a \div D < b \div D BY <1>0, <1>1, SMTT(30)
<1> QED BY <1>2 DEF D, R!day

LEMMA NoCopies ==
  ASSUME NEW key, \A x \in prepped : x.key # key
  PROVE  Copies(key) = 0
<1>1. {y \in prepped : y.key = key} = {} OBVIOUS
<1> QED BY <1>1, FS_EmptySet DEF Copies

LEMMA CopiesNat == ASSUME PrepTypes, NEW key PROVE Copies(key) \in Nat
<1>1. {y \in prepped : y.key = key} \subseteq prepped OBVIOUS
<1>2. IsFiniteSet({y \in prepped : y.key = key}) BY <1>1, FS_Subset DEF PrepTypes
<1> QED BY <1>2, FS_CardinalityType DEF Copies

(* A row is pruned only once its meeting has begun, or its day is over.     *)
LEMMA PrunedPreps ==
  ASSUME clock \in Nat, RowsOk(prepRows)
  PROVE  /\ \A key : Held(prepRows, key) => Held(R!prune(prepRows), key)
         /\ RowsOk(R!prune(prepRows))
<1>1. R!prune(prepRows) = {x \in prepRows : x.at >= clock - PrepKept} BY DEF R!prune
<1>2. ASSUME NEW x \in prepRows, ~ (x.at >= clock - PrepKept) PROVE Past(x.key)
  <2>1. x.at \in Nat /\ x.key[2] \in Int BY DEF RowsOk
  <2>2. CASE prepMode = "daily"
    <3>1. x.key[2] = R!day(x.at) BY <2>2 DEF RowsOk
    <3>2. x.at + PrepDay <= clock BY <1>2, <2>1, PrepAssumption
    <3> QED BY <2>1, <2>2, <3>1, <3>2, DayAfter DEF Past
  <2>3. CASE prepMode # "daily"
    <3>1. x.key[2] <= x.at + Lead BY <2>3 DEF RowsOk
    <3> QED BY <1>2, <2>1, <2>3, <3>1, PrepAssumption DEF Past
  <2> QED BY <2>2, <2>3
<1>3. \A key : Held(prepRows, key) => Held(R!prune(prepRows), key) BY <1>1, <1>2 DEF Held, R!already_sent
<1> QED BY <1>1, <1>3 DEF RowsOk

LEMMA PrepInit == R!Init => PrepInv
<1> SUFFICES ASSUME R!Init PROVE PrepInv OBVIOUS
<1>1. prepped = {} /\ prepRows = {} /\ tick = None /\ clock = 0 /\ troubles = 0 /\ start = Planned BY DEF R!Init
<1>2. PrepTypes BY <1>1, FS_EmptySet, PrepAssumption DEF PrepTypes
<1> QED BY <1>1, <1>2 DEF PrepInv, RowsOk, PrepAtMost

LEMMA PrepFault ==
  ASSUME PrepInv, R!Fault, UNCHANGED prepped
  PROVE  /\ \A x \in prepped : Copies(x.key)' <= troubles'
         /\ troubles' \in Nat /\ troubles' >= troubles
<1>1. troubles' = troubles + 1 /\ troubles \in Nat BY DEF R!Fault, PrepInv, PrepTypes
<1> QED BY <1>1 DEF PrepInv, PrepAtMost, Copies

(* What stays when neither the clock nor what was mailed changes.           *)
LEMMA SameMode ==
  ASSUME UNCHANGED prepMode
  PROVE  /\ \A l : RowsOk(l)' = RowsOk(l)
         /\ \A t, key : OnTime(t, key)' = OnTime(t, key)
<1>1. \A l : RowsOk(l)' = RowsOk(l) BY DEF RowsOk, R!day
<1>2. \A t, key : OnTime(t, key)' = OnTime(t, key) BY DEF OnTime, R!day
<1> QED BY <1>1, <1>2

LEMMA StillPrepped ==
  ASSUME UNCHANGED <<clock, prepMode, prepped>>
  PROVE  /\ \A key : Copies(key)' = Copies(key) /\ Past(key)' = Past(key)
         /\ \A l, key : Held(l, key)' = Held(l, key)
<1>1. \A key : Copies(key)' = Copies(key) BY DEF Copies
<1>2. R!day(clock)' = R!day(clock) BY DEF R!day
<1>3. \A key : Past(key)' = Past(key) BY <1>2 DEF Past
<1>4. \A l, key : Held(l, key)' = Held(l, key) BY <1>3 DEF Held, R!already_sent
<1> QED BY <1>1, <1>3, <1>4

LEMMA PassKeeps == ASSUME PrepInv, R!Pass PROVE PrepInv'
<1> USE DEF PrepInv
<1>1. clock' = clock + 1 /\ clock \in Nat /\ clock' \in Nat BY DEF R!Pass, PrepTypes
<1>2. UNCHANGED <<prepMode, start, prepRows, tick, prepped, troubles>> BY DEF R!Pass, R!history
<1>3. PrepTypes' BY <1>1, <1>2 DEF PrepTypes
<1>4. \A key : key[2] \in Int /\ Past(key) => Past(key)'
  <2>1. R!day(clock) <= R!day(clock)' /\ R!day(clock) \in Int /\ R!day(clock)' \in Int
    <3>1. R!day(clock') = R!day(clock)' BY DEF R!day
    <3>2. clock <= clock' BY <1>1
    <3>3. R!day(clock) <= R!day(clock') /\ R!day(clock) \in Int BY <1>1, <3>2, LaterDay
    <3>4. R!day(clock') \in Int BY <1>1, LaterDay
    <3> QED BY <3>1, <3>3, <3>4
  <2> QED BY <2>1, <1>1, <1>2 DEF Past
<1>5. \A l : \A x \in prepped : Spent(l, x.key) => Spent(l, x.key)'
  BY <1>2, <1>4 DEF Spent, Held, R!already_sent, Copies, PrepTypes
<1>6. ASSUME NEW t, t = tick, t # None PROVE InTick(t)'
  <2>1. InTick(t) BY <1>6
  <2>2. \A x \in prepped : InHand(t, x.key) \/ Spent(t.rows, x.key)' BY <2>1, <1>5 DEF InTick
  <2>3. RowsOk(t.rows)' /\ \A key \in t.due : OnTime(t.at, key)' BY <2>1, <1>2, SameMode DEF InTick
  <2>4. \A key : Copies(key)' = Copies(key) BY <1>2 DEF Copies
  <2>5. t.at <= clock' BY <2>1, <1>1 DEF InTick
  <2> QED BY <2>1, <2>2, <2>3, <2>4, <2>5, <1>2 DEF InTick, InHand
<1>7. (tick # None => InTick(tick))'
  <2>1. PICK t : t = tick OBVIOUS
  <2>2. t # None => InTick(t)' BY <2>1, <1>6
  <2> QED BY <2>1, <2>2, <1>2 DEF InTick, RowsOk, OnTime, InHand, Copies, R!day, Spent, Held, Past, R!already_sent
<1>8. (PrepBehind \/ \A x \in prepped : Spent(prepRows, x.key))'
  <2>1. PICK l : l = prepRows OBVIOUS
  <2>2. PrepBehind \/ \A x \in prepped : Spent(l, x.key)' BY <2>1, <1>5
  <2> QED BY <2>1, <2>2, <1>2 DEF PrepBehind, Spent, Held, Past, Copies, R!already_sent, R!day
<1> QED BY <1>2, <1>3, <1>7, <1>8 DEF RowsOk, PrepAtMost, Copies, R!day

LEMMA ReplanKeeps == ASSUME PrepInv, R!Replans PROVE PrepInv'
<1> USE DEF PrepInv
<1>1. UNCHANGED <<clock, prepMode, prepRows, tick, prepped, troubles>> BY DEF R!Replans, R!history
<1>2. start' \in [Meetings -> Int \cup {None}]
  <2>1. PICK m \in R!Upcoming : \/ start' = [start EXCEPT ![m] = @ + 1]
                                \/ start' = [start EXCEPT ![m] = None] BY DEF R!Replans
  <2>2. start[m] \in Int /\ m \in Meetings BY DEF R!Upcoming, PrepTypes
  <2> QED BY <2>1, <2>2 DEF PrepTypes
<1>3. PrepTypes' BY <1>1, <1>2 DEF PrepTypes
<1> QED BY <1>1, <1>3, StillPrepped DEF RowsOk, PrepAtMost, Copies, PrepBehind, Spent, Held, Past, R!already_sent, R!day, InTick, InHand, OnTime

LEMMA RunEachKeeps == ASSUME PrepInv, R!run_each PROVE PrepInv'
<1> USE DEF PrepInv
<1>1. UNCHANGED <<clock, prepMode, start, prepRows, prepped>> /\ tick = None /\ prepMode # "daily"
  BY DEF R!run_each, R!history
<1>2. PICK p : p = R!prune(prepRows) OBVIOUS
<1>3. PICK due : due = R!due(p) OBVIOUS
<1>4. PICK jobs, sees, t :
        /\ \/ jobs = due /\ UNCHANGED troubles
           \/ jobs = {} /\ R!Fault
        /\ tick' = t
        /\ t = [rows |-> p, due |-> jobs, since |-> clock, at |-> clock, sees |-> sees, key |-> None, asked |-> {}, sent |-> FALSE]
  BY <1>2, <1>3 DEF R!run_each, R!Tick
<1>5. \A x \in prepped : Spent(prepRows, x.key) BY <1>1 DEF PrepBehind
<1>6. (\A key : Held(prepRows, key) => Held(p, key)) /\ RowsOk(p) BY <1>2, PrunedPreps DEF PrepTypes
<1>7. troubles' \in Nat /\ troubles' >= troubles BY <1>4 DEF PrepTypes, R!Fault
<1>8. \A key : Copies(key) \in Nat BY CopiesNat
<1>9. \A key \in due : key[2] \in Int /\ key[2] <= clock + Lead /\ clock < key[2] /\ ~ R!already_sent(p, key)
  <2> SUFFICES ASSUME NEW key \in due
               PROVE key[2] \in Int /\ key[2] <= clock + Lead /\ clock < key[2] /\ ~ R!already_sent(p, key)
    OBVIOUS
  <2>1. ~ R!already_sent(p, key) /\ \E m \in R!InWindow : key = R!event_key(m) BY <1>3 DEF R!due
  <2>2. PICK m \in R!InWindow : key = R!event_key(m) BY <2>1
  <2>3. start[m] \in Int BY DEF R!InWindow, R!Upcoming, PrepTypes
  <2>4. key[2] = start[m] BY <2>2 DEF R!event_key
  <2> QED BY <2>1, <2>2, <2>3, <2>4 DEF R!InWindow, R!Upcoming, PrepTypes
<1>10. \A key \in due : Copies(key) <= troubles
  <2> SUFFICES ASSUME NEW key \in due PROVE Copies(key) <= troubles OBVIOUS
  <2>1. ~ Past(key) BY <1>1, <1>9 DEF Past, PrepTypes
  <2>2. ~ Held(prepRows, key) BY <2>1, <1>6, <1>9 DEF Held
  <2>3. CASE \E x \in prepped : x.key = key BY <2>2, <2>3, <1>5 DEF Spent
  <2>4. CASE \A x \in prepped : x.key # key BY <2>4, NoCopies DEF PrepTypes
  <2> QED BY <2>3, <2>4
<1>11. \A key \in jobs : OnTime(clock, key) /\ Copies(key) <= troubles BY <1>1, <1>4, <1>9, <1>10 DEF OnTime
<1>12. \A l, key : Spent(l, key) => Spent(l, key)'
  BY <1>1, <1>7, <1>8, StillPrepped DEF Spent, PrepTypes
<1>13. InTick(t)'
  <2>1. RowsOk(t.rows)' BY <1>1, <1>4, <1>6, SameMode
  <2>2. \A key \in t.due : OnTime(t.at, key)' /\ Copies(key)' <= troubles'
    BY <1>1, <1>4, <1>7, <1>8, <1>11, SameMode, StillPrepped DEF PrepTypes
  <2>3. \A x \in prepped : Spent(t.rows, x.key)' BY <1>4, <1>5, <1>6, <1>12 DEF Spent
  <2>4. DOMAIN t = TickFields /\ t.sent = FALSE /\ t.at = clock /\ t.asked = {} BY <1>4 DEF TickFields
  <2>5. t.at \in Nat /\ t.at <= clock' BY <2>4, <1>1 DEF PrepTypes
  <2>6. \A x \in prepped' : Spent(t.rows, x.key)' BY <2>3, <1>1
  <2> QED BY <2>1, <2>2, <2>4, <2>5, <2>6 DEF InTick
<1>14. (\A x \in prepped : Spent(prepRows, x.key))'
  <2>1. PICK l : l = prepRows OBVIOUS
  <2>2. \A x \in prepped : Spent(l, x.key)' BY <2>1, <1>5, <1>12
  <2> QED BY <2>1, <2>2, <1>1 DEF Spent, Held, Past, Copies, R!already_sent, R!day
<1>15. PrepTypes' BY <1>1, <1>7 DEF PrepTypes
<1>16. PrepAtMost' BY <1>1, <1>7, <1>8, StillPrepped DEF PrepAtMost, PrepTypes
<1>17. RowsOk(prepRows)' BY <1>1, SameMode DEF RowsOk, R!day
<1>18. InTick(tick)' BY <1>4, <1>13 DEF InTick, RowsOk, OnTime, InHand, Copies, R!day, Spent, Held, Past, R!already_sent
<1> QED BY <1>14, <1>15, <1>16, <1>17, <1>18

(* A step that leaves what was mailed and the ledger, or replaces it by one *)
(* that holds back as much.                                                 *)
LEMMA PrepRest ==
  ASSUME PrepInv, UNCHANGED <<clock, prepMode, start, prepped>>, troubles' \in Nat, troubles' >= troubles
  PROVE  PrepTypes' /\ PrepAtMost' /\ \A l, key : Spent(l, key) => Spent(l, key)'
<1> USE DEF PrepInv
<1>1. \A key : Copies(key) \in Nat BY CopiesNat
<1>2. PrepTypes' BY DEF PrepTypes
<1>3. PrepAtMost' BY <1>1, StillPrepped DEF PrepAtMost, PrepTypes
<1> QED BY <1>1, <1>2, <1>3, StillPrepped DEF Spent, PrepTypes

LEMMA RowsPrimed ==
  ASSUME NEW l, prepRows' = l, RowsOk(l)', \A x \in prepped' : Spent(l, x.key)'
  PROVE  RowsOk(prepRows)' /\ (\A x \in prepped : Spent(prepRows, x.key))'
BY DEF RowsOk, R!day, Spent, Held, Past, Copies, R!already_sent

LEMMA TickPrimed ==
  ASSUME NEW t, tick' = t, InTick(t)' PROVE InTick(tick)'
BY DEF InTick, RowsOk, OnTime, InHand, Copies, R!day, Spent, Held, Past, R!already_sent

LEMMA RunDailyKeeps == ASSUME PrepInv, R!run_daily PROVE PrepInv'
<1> USE DEF PrepInv
<1>1. UNCHANGED <<clock, prepMode, start, prepped>> /\ tick = None /\ prepMode = "daily"
  BY DEF R!run_daily, R!history
<1>2. PICK p : p = R!prune(prepRows) OBVIOUS
<1>3. PICK today : today = R!Daily OBVIOUS
<1>4. ~ R!already_sent(p, today) BY <1>2, <1>3 DEF R!run_daily, R!daily_due
<1>5. \A x \in prepped : Spent(prepRows, x.key) BY <1>1 DEF PrepBehind
<1>6. (\A key : Held(prepRows, key) => Held(p, key)) /\ RowsOk(p) BY <1>2, PrunedPreps DEF PrepTypes
<1>7. today = <<"daily", R!day(clock)>> /\ today[2] = R!day(clock) /\ today[2] \in Int
  <2>1. R!day(clock) \in Int BY LaterDay DEF PrepTypes
  <2> QED BY <2>1, <1>3 DEF R!Daily
<1>8. Copies(today) <= troubles
  <2>1. ~ Past(today) BY <1>1, <1>7 DEF Past
  <2>2. ~ Held(prepRows, today) BY <2>1, <1>4, <1>6 DEF Held
  <2>3. CASE \E x \in prepped : x.key = today BY <2>2, <2>3, <1>5 DEF Spent
  <2>4. CASE \A x \in prepped : x.key # today BY <2>4, NoCopies DEF PrepTypes
  <2> QED BY <2>3, <2>4
<1>9. troubles' \in Nat /\ troubles' >= troubles BY DEF R!run_daily, PrepTypes, R!Fault
<1>10. PrepTypes' /\ PrepAtMost' /\ \A l, key : Spent(l, key) => Spent(l, key)' BY <1>1, <1>9, PrepRest
<1>11. CASE /\ prepRows' = prepRows
            /\ tick' = [rows |-> p, due |-> {today}, since |-> clock, at |-> clock, sees |-> {today}, key |-> None,
                        asked |-> {}, sent |-> FALSE]
  <2>1. PICK t : t = tick' OBVIOUS
  <2>2. DOMAIN t = TickFields /\ t.sent = FALSE /\ t.at = clock /\ t.asked = {} /\ t.due = {today} /\ t.rows = p
    BY <2>1, <1>11 DEF TickFields
  <2>3. RowsOk(t.rows)' BY <2>2, <1>1, <1>6, SameMode
  <2>4. OnTime(t.at, today)' 
    <3>1. OnTime(clock, today) BY <1>1, <1>7 DEF OnTime
    <3> QED BY <3>1, <2>2, <1>1, SameMode
  <2>5. Copies(today)' <= troubles'
    <3>1. Copies(today) \in Nat BY CopiesNat
    <3> QED BY <3>1, <1>1, <1>8, <1>9, StillPrepped DEF PrepTypes
  <2>6. \A x \in prepped' : Spent(t.rows, x.key)' BY <2>2, <1>1, <1>5, <1>6, <1>10 DEF Spent
  <2>7. t.at \in Nat /\ t.at <= clock' BY <2>2, <1>1 DEF PrepTypes
  <2>8. InTick(t)' BY <2>2, <2>3, <2>4, <2>5, <2>6, <2>7 DEF InTick
  <2>9. RowsOk(prepRows)' /\ (\A x \in prepped : Spent(prepRows, x.key))'
    <3>1. PICK l : l = prepRows OBVIOUS
    <3>2. RowsOk(l)' BY <3>1, <1>1, SameMode
    <3>3. \A x \in prepped' : Spent(l, x.key)' BY <3>1, <1>1, <1>5, <1>10
    <3> QED BY <3>1, <3>2, <3>3, <1>11, RowsPrimed
  <2> QED BY <2>1, <2>8, <2>9, <1>10, TickPrimed
<1>12. CASE prepRows' = p \cup {[key |-> today, at |-> clock]} /\ tick' = tick
  <2>1. PICK l : l = prepRows' OBVIOUS
  <2>2. RowsOk(l)
    <3>1. RowsOk({[key |-> today, at |-> clock]}) BY <1>1, <1>7 DEF RowsOk, PrepTypes
    <3> QED BY <3>1, <2>1, <1>6, <1>12 DEF RowsOk
  <2>3. RowsOk(l)' BY <2>2, <1>1, SameMode
  <2>4. \A key : Held(p, key) => Held(l, key) BY <2>1, <1>12 DEF Held, R!already_sent
  <2>5. \A x \in prepped' : Spent(l, x.key)' BY <2>4, <1>1, <1>5, <1>6, <1>10 DEF Spent
  <2>6. RowsOk(prepRows)' /\ (\A x \in prepped : Spent(prepRows, x.key))' BY <2>1, <2>3, <2>5, RowsPrimed
  <2> QED BY <2>6, <1>1, <1>10, <1>12
<1> QED BY <1>11, <1>12, <1>2, <1>3 DEF R!run_daily, R!Tick

LEMMA RenderKeeps == ASSUME PrepInv, R!render_prep PROVE PrepInv'
<1> USE DEF PrepInv
<1>1. UNCHANGED <<clock, prepMode, start, prepped, prepRows, troubles>> BY DEF R!render_prep, R!history
<1>2. PICK t : t = tick OBVIOUS
<1>3. InTick(t) /\ t.sent = FALSE BY <1>2 DEF R!render_prep, R!Rendering, InTick
<1>4. PICK key, asked : key \in t.due /\ tick' = [t EXCEPT !.since = clock, !.key = key, !.asked = asked]
  BY <1>2 DEF R!render_prep
<1>5. PICK u : u = tick' OBVIOUS
<1>6. u.rows = t.rows /\ u.due = t.due /\ u.at = t.at /\ u.key = key /\ u.sent = FALSE /\ DOMAIN u = TickFields
  BY <1>3, <1>4, <1>5 DEF InTick, TickFields
<1>7. PrepTypes' /\ PrepAtMost' /\ \A l, k : Spent(l, k) => Spent(l, k)' BY <1>1, PrepRest DEF PrepTypes
<1>8. InTick(u)'
  <2>1. RowsOk(u.rows)' BY <1>1, <1>3, <1>6, SameMode DEF InTick
  <2>2. \A k \in u.due : OnTime(u.at, k)' /\ Copies(k)' <= troubles'
    BY <1>1, <1>3, <1>6, SameMode, StillPrepped DEF InTick, InHand
  <2>3. \A x \in prepped' : Spent(u.rows, x.key)' BY <1>1, <1>3, <1>6, <1>7 DEF InTick, InHand
  <2>4. u.at \in Nat /\ u.at <= clock' BY <1>1, <1>3, <1>6 DEF InTick
  <2> QED BY <1>4, <1>6, <2>1, <2>2, <2>3, <2>4 DEF InTick
<1>9. ~ PrepBehind BY <1>2, <1>3 DEF PrepBehind
<1>10. RowsOk(prepRows)' /\ (\A x \in prepped : Spent(prepRows, x.key))'
  <2>1. PICK l : l = prepRows OBVIOUS
  <2>2. RowsOk(l)' BY <2>1, <1>1, SameMode
  <2>3. \A x \in prepped' : Spent(l, x.key)' BY <2>1, <1>1, <1>7, <1>9
  <2> QED BY <2>1, <2>2, <2>3, <1>1, RowsPrimed
<1> QED BY <1>5, <1>7, <1>8, <1>10, TickPrimed

(* A tick ends, and no ledger is behind.                                    *)
LEMMA TickEnds ==
  ASSUME PrepInv, tick' = None, UNCHANGED <<clock, prepMode, start, prepped, prepRows>>,
         troubles' \in Nat, troubles' >= troubles,
         (~ PrepBehind) \/ \A x \in prepped : Copies(x.key)' <= troubles'
  PROVE  PrepInv'
<1> USE DEF PrepInv
<1>1. PrepTypes' /\ PrepAtMost' /\ \A l, k : Spent(l, k) => Spent(l, k)' BY PrepRest
<1>2. PICK l : l = prepRows OBVIOUS
<1>3. RowsOk(l)' BY <1>2, SameMode
<1>4. \A x \in prepped' : Spent(l, x.key)' BY <1>1, <1>2 DEF Spent
<1>5. RowsOk(prepRows)' /\ (\A x \in prepped : Spent(prepRows, x.key))' BY <1>2, <1>3, <1>4, RowsPrimed
<1> QED BY <1>1, <1>5

LEMMA DoneKeeps == ASSUME PrepInv, R!Done PROVE PrepInv'
<1>1. tick' = None /\ UNCHANGED <<clock, prepMode, start, prepped, prepRows, troubles>> BY DEF R!Done
<1>2. ~ PrepBehind BY DEF R!Done, PrepBehind, PrepInv, InTick
<1> QED BY <1>1, <1>2, TickEnds DEF PrepInv, PrepTypes

LEMMA DieKeeps == ASSUME PrepInv, R!Die PROVE PrepInv'
<1>1. tick' = None /\ UNCHANGED <<clock, prepMode, start, prepped, prepRows>> /\ R!Fault
  BY DEF R!Die, R!history
<1> QED BY <1>1, PrepFault, TickEnds

LEMMA FailKeeps == ASSUME PrepInv, R!PrepFails PROVE PrepInv'
<1> USE DEF PrepInv
<1>1. UNCHANGED <<clock, prepMode, start, prepped, prepRows>> /\ R!Fault BY DEF R!PrepFails
<1>2. PICK t : t = tick OBVIOUS
<1>3. InTick(t) /\ t.sent = FALSE BY <1>2 DEF R!PrepFails, R!Rendering, InTick
<1>4. tick' = [t EXCEPT !.due = t.due \ {t.key}, !.key = None, !.asked = {}, !.since = clock]
  BY <1>2 DEF R!PrepFails, R!Skipped
<1>5. PICK u : u = tick' OBVIOUS
<1>6. /\ u.rows = t.rows /\ u.due \subseteq t.due /\ u.at = t.at /\ u.asked = {} /\ u.sent = FALSE
      /\ DOMAIN u = TickFields
  BY <1>3, <1>4, <1>5 DEF InTick, TickFields
<1>7. (\A x \in prepped : Copies(x.key)' <= troubles') /\ troubles' \in Nat /\ troubles' >= troubles
  BY <1>1, PrepFault
<1>8. PrepTypes' /\ PrepAtMost' /\ \A l, k : Spent(l, k) => Spent(l, k)' BY <1>1, <1>7, PrepRest
<1>9. InTick(u)'
  <2>1. RowsOk(u.rows)' BY <1>1, <1>3, <1>6, SameMode DEF InTick
  <2>2. \A k \in u.due : OnTime(u.at, k)' BY <1>1, <1>3, <1>6, SameMode DEF InTick
  <2>3. \A k \in u.due : Copies(k)' <= troubles'
    <3> SUFFICES ASSUME NEW k \in u.due PROVE Copies(k)' <= troubles' OBVIOUS
    <3>1. Copies(k) <= troubles BY <1>3, <1>6 DEF InTick, InHand
    <3>2. Copies(k)' = Copies(k) /\ Copies(k) \in Nat BY <1>1, StillPrepped, CopiesNat
    <3> QED BY <3>1, <3>2, <1>7 DEF PrepTypes
  <2>4. \A x \in prepped' : Spent(u.rows, x.key)' BY <1>1, <1>7 DEF Spent
  <2>5. u.at \in Nat /\ u.at <= clock' BY <1>1, <1>3, <1>6 DEF InTick
  <2> QED BY <1>6, <2>1, <2>2, <2>3, <2>4, <2>5 DEF InTick
<1>10. RowsOk(prepRows)' /\ (\A x \in prepped : Spent(prepRows, x.key))'
  <2>1. PICK l : l = prepRows OBVIOUS
  <2>2. RowsOk(l)' BY <2>1, <1>1, SameMode
  <2>3. \A x \in prepped' : Spent(l, x.key)' BY <1>1, <1>7 DEF Spent
  <2> QED BY <2>1, <2>2, <2>3, <1>1, RowsPrimed
<1> QED BY <1>5, <1>8, <1>9, <1>10, TickPrimed

(* One copy more of the prep in hand, and of no other.                      *)
LEMMA OneMoreCopy ==
  ASSUME PrepTypes, NEW e, prepped' = prepped \cup {e}
  PROVE  /\ IsFiniteSet(prepped')
         /\ \A key : key # e.key => Copies(key)' = Copies(key)
         /\ Copies(e.key)' <= Copies(e.key) + 1
<1>1. IsFiniteSet(prepped') BY FS_AddElement DEF PrepTypes
<1>2. ASSUME NEW key, key # e.key PROVE Copies(key)' = Copies(key)
  <2>1. {y \in prepped' : y.key = key} = {y \in prepped : y.key = key} BY <1>2
  <2> QED BY <2>1 DEF Copies
<1>3. Copies(e.key)' <= Copies(e.key) + 1
  <2> DEFINE C == {y \in prepped : y.key = e.key}
  <2>1. {y \in prepped' : y.key = e.key} = C \cup {e} OBVIOUS
  <2>2. IsFiniteSet(C) BY FS_Subset DEF PrepTypes
  <2>3. Cardinality(C) \in Nat BY <2>2, FS_CardinalityType
  <2>4. Cardinality(C \cup {e}) = Cardinality(C) \/ Cardinality(C \cup {e}) = Cardinality(C) + 1
    BY <2>2, FS_AddElement
  <2>5. Copies(e.key)' = Cardinality(C \cup {e}) BY <2>1 DEF Copies
  <2>6. Copies(e.key) = Cardinality(C) BY DEF Copies
  <2> HIDE DEF C
  <2> QED BY <2>3, <2>4, <2>5, <2>6
<1> QED BY <1>1, <1>2, <1>3

LEMMA MailKeeps == ASSUME NoneIsNoTick, PrepInv, R!mail PROVE PrepInv'
<1> USE DEF PrepInv
<1>1. UNCHANGED <<clock, prepMode, start, prepRows, troubles>> BY DEF R!mail
<1>2. PICK t : t = tick OBVIOUS
<1>3. InTick(t) /\ t.sent = FALSE /\ t.key \in t.due BY <1>2 DEF R!mail, R!Rendering, InTick
<1>4. PICK e : e.key = t.key /\ prepped' = prepped \cup {e} BY <1>2 DEF R!mail
<1>5. PICK u : u = tick' OBVIOUS
<1>6. /\ u.rows = t.rows /\ u.due = t.due /\ u.at = t.at /\ u.key = t.key /\ u.sent = TRUE
      /\ DOMAIN u = TickFields
  BY <1>2, <1>3, <1>5 DEF InTick, TickFields, R!mail
<1>7. /\ IsFiniteSet(prepped') /\ \A key : key # t.key => Copies(key)' = Copies(key)
      /\ Copies(t.key)' <= Copies(t.key) + 1
  BY <1>4, OneMoreCopy DEF PrepTypes
<1>8. OnTime(t.at, t.key) /\ Copies(t.key) <= troubles BY <1>3 DEF InTick, InHand
<1>9. PrepTypes'
  <2>1. e.key[2] \in Int BY <1>4, <1>8 DEF OnTime
  <2> QED BY <2>1, <1>1, <1>4, <1>7 DEF PrepTypes
<1>10. \A key : Copies(key) \in Nat /\ Copies(key)' \in Nat
  <2>1. \A key : Copies(key) \in Nat BY CopiesNat
  <2>2. ASSUME NEW key PROVE Copies(key)' \in Nat
    <3>1. {y \in prepped' : y.key = key} \subseteq prepped' OBVIOUS
    <3>2. IsFiniteSet({y \in prepped' : y.key = key}) BY <3>1, <1>7, FS_Subset
    <3> QED BY <3>2, FS_CardinalityType DEF Copies
  <2> QED BY <2>1, <2>2
<1>11. \A key : Past(key)' = Past(key) BY <1>1 DEF Past, R!day
<1>12. \A l, key : key # t.key /\ Spent(l, key) => Spent(l, key)'
  BY <1>1, <1>7, <1>11 DEF Spent, Held, R!already_sent
<1>13. \A x \in prepped' : x.key = t.key \/ \E y \in prepped : y = x BY <1>4
<1>14. PrepAtMost'
  <2>1. \A x \in prepped' : Copies(x.key)' <= 1 + troubles'
    <3> SUFFICES ASSUME NEW x \in prepped' PROVE Copies(x.key)' <= 1 + troubles' OBVIOUS
    <3>1. CASE x.key = t.key BY <3>1, <1>1, <1>7, <1>8, <1>10 DEF PrepTypes
    <3>2. CASE x.key # t.key BY <3>2, <1>1, <1>7, <1>13 DEF PrepAtMost
    <3> QED BY <3>1, <3>2
  <2> QED BY <2>1 DEF PrepAtMost
<1>15. InTick(u)'
  <2>1. RowsOk(u.rows)' BY <1>1, <1>3, <1>6, SameMode DEF InTick
  <2>2. \A k \in u.due : OnTime(u.at, k)' BY <1>1, <1>3, <1>6, SameMode DEF InTick
  <2>3. \A k \in u.due : k = t.key \/ Copies(k)' <= troubles' BY <1>1, <1>3, <1>6, <1>7 DEF InTick, InHand
  <2>4. \A x \in prepped' : x.key = t.key \/ Spent(u.rows, x.key)'
    BY <1>3, <1>6, <1>12, <1>13 DEF InTick, InHand
  <2>5. u.at \in Nat /\ u.at <= clock' BY <1>1, <1>3, <1>6 DEF InTick
  <2>6. \A k : k = t.key => InHand(u, k) BY <1>6 DEF InHand
  <2> QED BY <1>3, <1>6, <2>1, <2>2, <2>3, <2>4, <2>5, <2>6 DEF InTick, InHand
<1>16. PrepBehind' BY <1>5, <1>6 DEF PrepBehind, NoneIsNoTick
<1>17. RowsOk(prepRows)' BY <1>1 DEF RowsOk, R!day
<1> QED BY <1>5, <1>9, <1>14, <1>15, <1>16, <1>17, TickPrimed

LEMMA RecordKeeps == ASSUME PrepInv, R!Recorded PROVE PrepInv'
<1> USE DEF PrepInv
<1>1. UNCHANGED <<clock, prepMode, start, prepped>> BY DEF R!Recorded, R!history
<1>2. PICK t : t = tick OBVIOUS
<1>3. InTick(t) /\ t.sent = TRUE /\ t.key \in t.due BY <1>2 DEF R!Recorded, InTick
<1>4. PICK mark : mark = R!mark_sent(t.key) OBVIOUS
<1>5. PICK r : r = t.rows \cup {mark} OBVIOUS
<1>6. PICK u : u = tick' OBVIOUS
<1>7. /\ \/ prepRows' = r /\ UNCHANGED troubles
         \/ UNCHANGED prepRows /\ R!Fault
      /\ u = [t EXCEPT !.rows = r, !.due = t.due \ {t.key}, !.key = None, !.asked = {}, !.sent = FALSE, !.since = clock]
  BY <1>2, <1>4, <1>5, <1>6 DEF R!Recorded, R!Skipped
<1>8. /\ u.rows = r /\ u.due = t.due \ {t.key} /\ u.at = t.at /\ u.asked = {} /\ u.sent = FALSE
      /\ DOMAIN u = TickFields
  BY <1>3, <1>7 DEF InTick, TickFields
<1>9. troubles' \in Nat /\ troubles' >= troubles BY <1>7 DEF PrepTypes, R!Fault
<1>10. PrepTypes' /\ PrepAtMost' /\ \A l, k : Spent(l, k) => Spent(l, k)' BY <1>1, <1>9, PrepRest
<1>11. mark.at \in Nat /\ OnTime(mark.at, mark.key)
  <2>1. OnTime(t.at, t.key) /\ t.at \in Nat /\ clock \in Nat BY <1>3 DEF InTick, PrepTypes
  <2>2. CASE prepMode = "daily"
    <3>1. mark.at = clock /\ mark.key = <<"daily", R!day(clock)>> BY <2>2, <1>2, <1>4 DEF R!mark_sent, R!Daily
    <3>2. R!day(clock) \in Int BY <2>1, LaterDay
    <3> QED BY <2>1, <2>2, <3>1, <3>2 DEF OnTime
  <2>3. CASE prepMode # "daily"
    <3>1. mark.at = t.at /\ mark.key = t.key BY <2>3, <1>2, <1>4 DEF R!mark_sent
    <3> QED BY <2>1, <3>1
  <2> QED BY <2>2, <2>3
<1>12. RowsOk(r) BY <1>3, <1>5, <1>11 DEF InTick, RowsOk, OnTime
<1>13. \A x \in prepped : x.key = t.key => Held(r, x.key)
  <2> SUFFICES ASSUME NEW x \in prepped, x.key = t.key PROVE Held(r, x.key) OBVIOUS
  <2>1. mark \in r BY <1>5
  <2>2. CASE prepMode = "daily"
    <3>1. t.key[2] = R!day(t.at) BY <2>2, <1>3 DEF InTick, OnTime
    <3>2. R!day(t.at) <= R!day(clock) /\ R!day(t.at) \in Int BY <1>3, LaterDay DEF InTick, PrepTypes
    <3>3. R!day(clock) \in Int BY LaterDay DEF PrepTypes
    <3>4. CASE R!day(t.at) < R!day(clock) BY <2>2, <3>1, <3>4 DEF Held, Past
    <3>5. CASE R!day(t.at) = R!day(clock)
      <4>1. mark.key = <<"daily", R!day(clock)>> BY <2>2, <1>2, <1>4 DEF R!mark_sent, R!Daily
      <4>2. t.key = <<"daily", R!day(t.at)>> BY <2>2, <1>3 DEF InTick, OnTime
      <4>3. mark.key = t.key BY <4>1, <4>2, <3>5
      <4> QED BY <2>1, <4>3 DEF Held, R!already_sent
    <3> QED BY <3>2, <3>3, <3>4, <3>5
  <2>3. CASE prepMode # "daily"
    <3>1. mark.key = t.key BY <2>3, <1>4 DEF R!mark_sent
    <3> QED BY <2>1, <3>1 DEF Held, R!already_sent
  <2> QED BY <2>2, <2>3
<1>14. \A key : Held(t.rows, key) => Held(r, key) BY <1>5 DEF Held, R!already_sent
<1>15. \A x \in prepped : Spent(r, x.key) BY <1>3, <1>13, <1>14 DEF InTick, InHand, Spent
<1>16. InTick(u)'
  <2>1. RowsOk(u.rows)' BY <1>1, <1>8, <1>12, SameMode
  <2>2. \A k \in u.due : OnTime(u.at, k)' BY <1>1, <1>3, <1>8, SameMode DEF InTick
  <2>3. \A k \in u.due : Copies(k)' <= troubles'
    <3> SUFFICES ASSUME NEW k \in u.due PROVE Copies(k)' <= troubles' OBVIOUS
    <3>1. Copies(k) <= troubles BY <1>3, <1>8 DEF InTick, InHand
    <3>2. Copies(k)' = Copies(k) /\ Copies(k) \in Nat BY <1>1, StillPrepped, CopiesNat
    <3> QED BY <3>1, <3>2, <1>9 DEF PrepTypes
  <2>4. \A x \in prepped' : Spent(u.rows, x.key)' BY <1>1, <1>8, <1>10, <1>15
  <2>5. u.at \in Nat /\ u.at <= clock' BY <1>1, <1>3, <1>8 DEF InTick
  <2> QED BY <1>8, <2>1, <2>2, <2>3, <2>4, <2>5 DEF InTick
<1>17. RowsOk(prepRows)' /\ (\A x \in prepped : Spent(prepRows, x.key))'
  <2>1. CASE prepRows' = r
    <3>1. RowsOk(r)' BY <1>1, <1>12, SameMode
    <3>2. \A x \in prepped' : Spent(r, x.key)' BY <1>1, <1>10, <1>15
    <3> QED BY <2>1, <3>1, <3>2, RowsPrimed
  <2>2. CASE UNCHANGED prepRows /\ R!Fault
    <3>1. PICK l : l = prepRows OBVIOUS
    <3>2. RowsOk(l)' BY <3>1, <1>1, SameMode
    <3>3. \A x \in prepped' : Spent(l, x.key)' BY <2>2, <1>1, PrepFault DEF Spent
    <3> QED BY <3>1, <3>2, <3>3, <2>2, RowsPrimed
  <2> QED BY <1>7, <2>1, <2>2
<1> QED BY <1>6, <1>10, <1>16, <1>17, TickPrimed

LEMMA PrepStep == ASSUME NoneIsNoTick, PrepInv, R!Next PROVE PrepInv'
BY PassKeeps, ReplanKeeps, RunEachKeeps, RunDailyKeeps, RenderKeeps, MailKeeps, FailKeeps, RecordKeeps, DoneKeeps, DieKeeps
   DEF R!Next

(* The preps of a behaviour about something else are none.                  *)
PrepOrQuiet == (part = "prep" => PrepInv) /\ (part # "prep" => prepped = {})

(* PrepOnce: for any meetings, changes of the calendar, sessions and moments*)
(* they take, in both modes: a meeting, or a day, is mailed at most once and*)
(* once more per death, failed write or failed read of the calendar         *)
(* (prep_send.run_each, run_daily; prep_email.prune, mark_sent).            *)
THEOREM PrepOnceAlways == ASSUME NoneIsNoTick PROVE MailsSpec => []PrepOnce
<1>1. MailsInit => PrepOrQuiet BY PrepInit DEF MailsInit, PrepOrQuiet, R!Init
<1>2. PrepOrQuiet /\ [MailsNext]_all => PrepOrQuiet'
  <2> SUFFICES ASSUME PrepOrQuiet, [MailsNext]_all PROVE PrepOrQuiet' OBVIOUS
  <2>1. CASE part = "prep" /\ R!Next /\ UNCHANGED part BY <2>1, PrepStep DEF PrepOrQuiet
  <2>2. CASE part # "prep" /\ UNCHANGED part /\ UNCHANGED prep BY <2>2 DEF PrepOrQuiet, prep
  <2>3. CASE UNCHANGED all
    <3>1. UNCHANGED <<part, clock, tick, troubles, prepMode, start, prepRows, prepped>>
      BY <2>3 DEF all, prep, ticks
    <3>2. PrepInv => PrepInv'
      BY <3>1 DEF PrepInv, PrepTypes, PrepAtMost, PrepBehind, InTick, RowsOk, OnTime, InHand, Copies, R!day, Spent,
                  Held, Past, R!already_sent
    <3> QED BY <3>1, <3>2 DEF PrepOrQuiet
  <2> QED BY <2>1, <2>2, <2>3 DEF MailsNext, all
<1>3. PrepOrQuiet => PrepOnce
  <2>1. PrepAtMost => PrepOnce BY DEF PrepAtMost, Copies, PrepOnce, R!PrepOnce, R!Cardinality, Cardinality
  <2>2. prepped = {} => PrepOnce BY DEF PrepOnce, R!PrepOnce
  <2> QED BY <2>1, <2>2 DEF PrepOrQuiet, PrepInv
<1> QED BY <1>1, <1>2, <1>3, PTL DEF MailsSpec

-----------------------------------------------------------------------------
(* The Note.                                                                *)
Posted(i) == \E n \in posted : n.id = i
Seen(i) == i \in folded \cup missed \/ Posted(i)

NoteTypes ==
  /\ clock \in Nat /\ troubles \in Nat
  /\ state.last \in Int /\ state.last <= clock /\ DOMAIN state = {"day", "last", "snapshot", "torn"}
  /\ \A m \in Mails : mail[m] # None =>
       /\ mail[m].received \in Int /\ mail[m].listed \in Int
       /\ mail[m].received <= mail[m].listed /\ mail[m].listed <= clock
       /\ mail[m].listed - Lag <= mail[m].received
  /\ DOMAIN mail = Mails

NoteFields == {"at", "snapshot", "rows", "fire", "fold", "sent"}
EventFields == {"id", "at"}
NoneIsNoNote == DOMAIN None # NoteFields /\ DOMAIN None # EventFields

OfMail(i) == \E m \in Mails : i \in N!Ids(m)
RowsSeen(l) == \A r \in l : OfMail(r.id) => Seen(r.id)

(* A tick under way: what could be listed before it began is seen, or is in *)
(* its hands.                                                               *)
Going(t) ==
  /\ DOMAIN t = NoteFields
  /\ t.at \in Int /\ t.at <= clock /\ state.last < t.at
  /\ RowsSeen(t.rows)
  /\ \A e \in t.fire \cup t.fold : DOMAIN e = EventFields
  /\ t.sent # None => t.sent \in t.fire /\ Seen(t.sent.id)
  /\ \A m \in Mails : mail[m] # None /\ mail[m].listed < t.at =>
       \A i \in N!Ids(m) : Seen(i) \/ \E e \in t.fire \cup t.fold : e.id = i

NoteInv ==
  /\ NoteTypes /\ RowsSeen(ledger) /\ N!Noticed
  /\ tick # None => Going(tick)

LEMMA IdsOf ==
  ASSUME NEW m, NEW i \in N!Ids(m)
  PROVE  i \in {<<"reply", m>>, <<"deal", m>>} /\ i[1] \in {"reply", "deal"} /\ i[2] = m
<1>1. i \in {<<"reply", m>>, <<"deal", m>>} BY DEF N!Ids
<1> QED BY <1>1

LEMMA NoteInit == N!Init => NoteInv
<1> SUFFICES ASSUME N!Init PROVE NoteInv OBVIOUS
<1>1. NoteTypes BY DEF N!Init, NoteTypes
<1>2. RowsSeen(ledger) BY DEF N!Init, RowsSeen
<1>3. N!Noticed BY DEF N!Init, N!Noticed
<1> QED BY <1>1, <1>2, <1>3 DEF N!Init, NoteInv

(* Nothing that was seen is unseen.                                         *)
LEMMA SeenStays ==
  ASSUME folded \subseteq folded', missed \subseteq missed', posted \subseteq posted'
  PROVE  /\ \A i : Seen(i) => Seen(i)'
         /\ \A l : RowsSeen(l) => RowsSeen(l)'
<1>1. \A i : Seen(i) => Seen(i)' BY DEF Seen, Posted
<1> QED BY <1>1 DEF RowsSeen, OfMail, N!Ids

LEMMA NoticedPrimed ==
  ASSUME NoteInv, UNCHANGED <<mail, state>>, folded \subseteq folded', missed \subseteq missed', posted \subseteq posted'
  PROVE  N!Noticed'
BY DEF NoteInv, N!Noticed, N!Ids

LEMMA GoingPrimed ==
  ASSUME NEW t, tick' = t, Going(t)' PROVE Going(tick)'
BY DEF Going, RowsSeen, OfMail, Seen, Posted, N!Ids

(* The clock and the mailbox.                                               *)
LEMMA NotePass == ASSUME NoteInv, N!Pass PROVE NoteInv'
<1> USE DEF NoteInv
<1>1. clock' = clock + 1 /\ UNCHANGED <<mail, state, tick, ledger, posted, folded, missed, troubles>>
  BY DEF N!Pass, N!world, N!told
<1>2. NoteTypes' BY <1>1 DEF NoteTypes
<1>3. (tick # None => Going(tick))'
  BY <1>1 DEF Going, RowsSeen, OfMail, Seen, Posted, N!Ids, NoteTypes
<1> QED BY <1>1, <1>2, <1>3, NoticedPrimed DEF RowsSeen, OfMail, Seen, Posted, N!Ids

LEMMA NoteArrives == ASSUME NoteInv, NEW m \in Mails, N!Arrives(m) PROVE NoteInv'
<1> USE DEF NoteInv
<1>1. UNCHANGED <<clock, state, tick, ledger, posted, folded, missed, troubles>> BY DEF N!Arrives, N!told
<1>2. PICK late \in 0 .. Lag : /\ mail[m] = None
                               /\ mail' = [mail EXCEPT ![m] = [received |-> clock - late, listed |-> clock]]
  BY DEF N!Arrives
<1>3. \A k \in Mails : k # m => mail'[k] = mail[k] BY <1>2 DEF NoteTypes
<1>4. mail'[m] = [received |-> clock - late, listed |-> clock] BY <1>2 DEF NoteTypes
<1>5. clock \in Nat /\ late \in Nat /\ late <= Lag BY <1>2, NoteAssumption DEF NoteTypes
<1>6. /\ mail'[m].received = clock - late /\ mail'[m].listed = clock BY <1>4
<1>7. NoteTypes'
  <2>1. \A k \in Mails : mail'[k] # None =>
       /\ mail'[k].received \in Int /\ mail'[k].listed \in Int
       /\ mail'[k].received <= mail'[k].listed /\ mail'[k].listed <= clock
       /\ mail'[k].listed - Lag <= mail'[k].received
    BY <1>3, <1>5, <1>6, NoteAssumption DEF NoteTypes
  <2>2. DOMAIN mail' = Mails BY <1>2 DEF NoteTypes
  <2> QED BY <2>1, <2>2, <1>1 DEF NoteTypes
<1>8. N!Noticed'
  <2> SUFFICES ASSUME NEW k \in Mails, mail'[k] # None, mail'[k].listed < state'.last, NEW i \in N!Ids(k)
               PROVE  Seen(i)'
    BY DEF N!Noticed, Seen, Posted, N!Ids
  <2>1. k # m BY <1>1, <1>5, <1>6 DEF NoteTypes
  <2>2. Seen(i) BY <2>1, <1>1, <1>3 DEF N!Noticed, Seen, Posted
  <2> QED BY <2>2, <1>1, SeenStays
<1>9. ASSUME NEW t, t = tick, t # None PROVE Going(t)'
  <2>1. Going(t) BY <1>9
  <2>2. RowsSeen(t.rows)' /\ \A i : Seen(i) => Seen(i)' BY <2>1, <1>1, SeenStays DEF Going
  <2>3. \A k \in Mails : mail'[k] # None /\ mail'[k].listed < t.at =>
          \A i \in N!Ids(k) : Seen(i)' \/ \E e \in t.fire \cup t.fold : e.id = i
    <3> SUFFICES ASSUME NEW k \in Mails, mail'[k] # None, mail'[k].listed < t.at, NEW i \in N!Ids(k)
                 PROVE  Seen(i)' \/ \E e \in t.fire \cup t.fold : e.id = i
      OBVIOUS
    <3>1. k # m BY <2>1, <1>5, <1>6 DEF Going
    <3> QED BY <3>1, <2>1, <2>2, <1>3 DEF Going
  <2> QED BY <2>1, <2>2, <2>3, <1>1 DEF Going, N!Ids
<1>10. (tick # None => Going(tick))'
  <2>1. PICK t : t = tick OBVIOUS
  <2> QED BY <2>1, <1>1, <1>9, GoingPrimed
<1>11. RowsSeen(ledger)' BY <1>1 DEF RowsSeen, OfMail, Seen, Posted, N!Ids
<1> QED BY <1>7, <1>8, <1>10, <1>11

LEMMA NoteReplans == ASSUME NoteInv, N!Replans PROVE NoteInv'
<1> USE DEF NoteInv
<1>1. UNCHANGED <<clock, mail, state, tick, ledger, posted, folded, missed, troubles>> BY DEF N!Replans, N!told
<1> QED BY <1>1, NoticedPrimed DEF NoteTypes, RowsSeen, OfMail, Seen, Posted, N!Ids, Going

(* What a tick finds: every event that the rows lack is fired or folded; the*)
(* events of mails are those of the inbound.  What was due and is not in the*)
(* inbound is missed.                                                       *)
Listable(known) == N!fetch_inbound(IF known THEN N!Since(known) ELSE state.last - Slack)
Finds(known, kept, inbound, events, t) ==
  /\ DOMAIN t = NoteFields /\ t.at = clock /\ t.rows = N!Rows(kept) /\ t.sent = None
  /\ t.fire \cup t.fold = {e \in events : \A r \in N!Rows(kept) : r.id # e.id} /\ t.fire \cap t.fold = {}
  /\ \A e \in events : DOMAIN e = EventFields /\ (OfMail(e.id) => e \in N!mail_events(inbound))
  /\ inbound \subseteq N!fetch_inbound(N!Since(known)) /\ N!mail_events(inbound) \subseteq events
  /\ N!Fault \/ (kept /\ UNCHANGED troubles)
  /\ missed' = missed \cup UNION {N!Ids(m) : m \in Listable(known) \ inbound}

LEMMA CalendarIds ==
  ASSUME NEW previous, NEW current, NEW e \in N!calendar_events(previous, current)
  PROVE  DOMAIN e = EventFields /\ ~ OfMail(e.id)
<1>1. DOMAIN e = EventFields /\ e.id[1] \in {"gone", "moved"} BY DEF N!calendar_events, EventFields
<1>2. ASSUME NEW m \in Mails, e.id \in N!Ids(m) PROVE FALSE BY <1>1, <1>2, IdsOf
<1> QED BY <1>1, <1>2 DEF OfMail

LEMMA LookFinds ==
  ASSUME N!Look
  PROVE  \E known, kept, inbound, events, t : Finds(known, kept, inbound, events, t) /\ tick' = t
<1>1. PICK plan, kept, known : \E inbound \in SUBSET N!fetch_inbound(N!Since(known)) : N!Takes(plan, kept, known, inbound)
  BY DEF N!Look
<1>2. PICK inbound \in SUBSET N!fetch_inbound(N!Since(known)) : N!Takes(plan, kept, known, inbound) BY <1>1
<1> DEFINE calendar == IF plan THEN N!fetch_all_events ELSE {}
           onFile == N!Rows(kept)
           current == N!calendar_snapshot(calendar)
           previous == IF known /\ state.day = N!day(clock) THEN state.snapshot ELSE {}
           planned == N!calendar_events(previous, current)
<1> DEFINE events == N!mail_events(inbound) \cup planned
           fresh == {e \in events : \A r \in onFile : r.id # e.id}
<1>3. PICK fire \in N!select(fresh, N!Room(onFile)) :
        tick' = [at |-> clock, snapshot |-> current, rows |-> onFile, fire |-> fire, fold |-> fresh \ fire, sent |-> None]
  BY <1>2 DEF N!Takes
<1>4. fire \subseteq fresh BY <1>3 DEF N!select
<1>5. PICK t : t = tick' OBVIOUS
<1>6. \A e \in planned : DOMAIN e = EventFields /\ ~ OfMail(e.id) BY CalendarIds
<1> HIDE DEF planned, current
<1>7. \A e \in N!mail_events(inbound) : DOMAIN e = EventFields BY DEF N!mail_events, EventFields
<1>8. \A e \in events : DOMAIN e = EventFields /\ (OfMail(e.id) => e \in N!mail_events(inbound)) BY <1>6, <1>7
<1>9. N!mail_events(inbound) \subseteq events OBVIOUS
<1>10. t.fire = fire /\ t.fold = fresh \ fire /\ t.at = clock /\ t.rows = onFile /\ t.sent = None /\ DOMAIN t = NoteFields
  BY <1>3, <1>5 DEF NoteFields
<1>11. t.fire \cup t.fold = fresh /\ t.fire \cap t.fold = {} BY <1>4, <1>10
<1>12. N!Fault \/ (kept /\ UNCHANGED troubles) BY <1>2 DEF N!Takes
<1>13. missed' = missed \cup UNION {N!Ids(m) : m \in Listable(known) \ inbound} BY <1>2 DEF N!Takes, Listable
<1> HIDE DEF events
<1>14. Finds(known, kept, inbound, events, t) BY <1>2, <1>8, <1>9, <1>10, <1>11, <1>12, <1>13 DEF Finds
<1> QED BY <1>5, <1>14

LEMMA NoteLook == ASSUME NoteInv, N!Look PROVE NoteInv'
<1> USE DEF NoteInv
<1>1. UNCHANGED <<clock, mail, state, ledger, posted, folded>> /\ state.last < clock BY DEF N!Look, N!world, NoteTypes
<1>2. PICK known, kept, inbound, events, t : Finds(known, kept, inbound, events, t) /\ tick' = t BY LookFinds
<1>3. missed \subseteq missed' BY <1>2 DEF Finds
<1>4. \A i : Seen(i) => Seen(i)' BY <1>1, <1>3, SeenStays
<1>5. troubles' \in Nat BY <1>2 DEF Finds, N!Fault, NoteTypes
<1>6. NoteTypes' BY <1>1, <1>5 DEF NoteTypes
<1>7. PICK l, p : l = ledger /\ p = N!Rows(kept) OBVIOUS
<1>8. RowsSeen(t.rows)' /\ RowsSeen(ledger)'
  <2>1. p \subseteq l BY <1>7 DEF N!Rows, N!prune
  <2>2. RowsSeen(l) /\ RowsSeen(p) BY <1>7, <2>1 DEF RowsSeen
  <2>3. RowsSeen(l)' /\ RowsSeen(p)' BY <2>2, <1>1, <1>3, SeenStays
  <2>4. RowsSeen(ledger)' BY <1>7, <2>3, <1>1 DEF RowsSeen, OfMail, Seen, Posted, N!Ids
  <2>5. t.rows = p BY <1>2, <1>7 DEF Finds
  <2> QED BY <2>3, <2>4, <2>5
<1>9. ASSUME NEW m \in Mails, mail[m] # None, mail[m].listed < t.at, NEW i \in N!Ids(m)
      PROVE  Seen(i)' \/ \E e \in t.fire \cup t.fold : e.id = i
  <2>1. CASE mail[m].listed < state.last BY <2>1, <1>4, <1>9 DEF N!Noticed, Seen, Posted
  <2>2. CASE ~ (mail[m].listed < state.last)
    <3>1. mail[m].received >= state.last - Slack BY <2>2, <1>9, NoteAssumption DEF NoteTypes
    <3>2. m \in Listable(known) BY <3>1, <1>9 DEF N!fetch_inbound, Listable, N!Since
    <3>3. CASE m \notin inbound
      <4>1. i \in missed' BY <3>2, <3>3, <1>2, <1>9 DEF Finds
      <4> QED BY <4>1 DEF Seen
    <3>4. CASE m \in inbound
      <4>1. PICK e : e = [id |-> i, at |-> mail[m].received] OBVIOUS
      <4>2. e \in events /\ e.id = i BY <4>1, <3>4, <1>2, <1>9 DEF Finds, N!mail_events
      <4>3. CASE \A r \in N!Rows(kept) : r.id # i BY <4>2, <4>3, <1>2 DEF Finds
      <4>4. CASE \E r \in N!Rows(kept) : r.id = i
        <5>1. PICK r \in ledger : r.id = i BY <4>4 DEF N!Rows, N!prune
        <5>2. OfMail(i) BY <1>9 DEF OfMail
        <5> QED BY <5>1, <5>2, <1>4 DEF RowsSeen
      <4> QED BY <4>3, <4>4
    <3> QED BY <3>3, <3>4
  <2> QED BY <2>1, <2>2
<1>10. Going(t)'
  <2>1. DOMAIN t = NoteFields /\ t.at = clock /\ t.sent = None
        /\ \A e \in t.fire \cup t.fold : DOMAIN e = EventFields
    BY <1>2 DEF Finds
  <2> QED BY <2>1, <1>1, <1>8, <1>9 DEF Going, NoteTypes, N!Ids
<1>11. N!Noticed' BY <1>1, <1>3, NoticedPrimed
<1> QED BY <1>2, <1>6, <1>8, <1>10, <1>11, GoingPrimed

(* One note: it is mailed, or given up with its event, or both; a tick's    *)
(* hands only lose what is seen.                                            *)
LEMMA NoteMails == ASSUME NoneIsNoNote, NoteInv, N!Note PROVE NoteInv'
<1> USE DEF NoteInv
<1>1. /\ UNCHANGED <<clock, mail, state, ledger, folded>> /\ tick # None /\ tick.sent = None
      /\ \E e \in tick.fire :
           \/ /\ tick' = [tick EXCEPT !.sent = e]
              /\ posted' = posted \cup {[id |-> e.id, tick |-> tick.at]}
              /\ UNCHANGED <<missed, troubles>>
           \/ /\ N!Fault /\ tick' = [tick EXCEPT !.fire = @ \ {e}]
              /\ \/ missed' = missed \cup {e.id} /\ UNCHANGED posted
                 \/ posted' = posted \cup {[id |-> e.id, tick |-> tick.at]} /\ UNCHANGED missed
  BY DEF N!Note, N!Busy, N!world
<1>2. missed \subseteq missed' /\ posted \subseteq posted' BY <1>1
<1>3. \A i : Seen(i) => Seen(i)' BY <1>1, <1>2, SeenStays
<1>4. troubles' \in Nat BY <1>1 DEF N!Fault, NoteTypes
<1>5. NoteTypes' BY <1>1, <1>4 DEF NoteTypes
<1>6. N!Noticed' BY <1>1, <1>2, NoticedPrimed
<1>7. PICK t, u : t = tick /\ u = tick' OBVIOUS
<1>8. Going(t) /\ t.sent = None BY <1>1, <1>7
<1>9. RowsSeen(t.rows)' /\ RowsSeen(ledger)'
  <2>1. PICK l : l = ledger OBVIOUS
  <2>2. RowsSeen(l)' BY <2>1, <1>1, <1>2, SeenStays
  <2>3. RowsSeen(t.rows)' BY <1>1, <1>2, <1>8, SeenStays DEF Going
  <2> QED BY <2>1, <2>2, <2>3, <1>1 DEF RowsSeen, OfMail, Seen, Posted, N!Ids
<1>10. Going(u)'
  <2>1. PICK e \in t.fire :
           \/ /\ u = [t EXCEPT !.sent = e]
              /\ posted' = posted \cup {[id |-> e.id, tick |-> t.at]}
           \/ /\ u = [t EXCEPT !.fire = @ \ {e}]
              /\ missed' = missed \cup {e.id} \/ posted' = posted \cup {[id |-> e.id, tick |-> t.at]}
    BY <1>1, <1>7
  <2>2. Seen(e.id)'
    <3>1. CASE posted' = posted \cup {[id |-> e.id, tick |-> t.at]}
      <4>1. PICK n : n = [id |-> e.id, tick |-> t.at] OBVIOUS
      <4>2. n \in posted' /\ n.id = e.id BY <3>1, <4>1
      <4> QED BY <4>2 DEF Seen, Posted
    <3>2. CASE missed' = missed \cup {e.id} BY <3>2 DEF Seen
    <3> QED BY <2>1, <3>1, <3>2
  <2>3. DOMAIN u = NoteFields /\ u.at = t.at /\ u.rows = t.rows /\ u.fold = t.fold
    BY <2>1, <1>8 DEF Going, NoteFields
  <2>4. (u.fire = t.fire /\ u.sent = e) \/ (u.fire = t.fire \ {e} /\ u.sent = None)
    BY <2>1, <1>8 DEF Going, NoteFields
  <2>5. u.fire \subseteq t.fire BY <2>4
  <2>6. u.sent # None => u.sent \in u.fire /\ Seen(u.sent.id)' BY <2>2, <2>4
  <2>7. \A m \in Mails : mail[m] # None /\ mail[m].listed < t.at =>
          \A i \in N!Ids(m) : Seen(i)' \/ \E f \in u.fire \cup u.fold : f.id = i
    <3> SUFFICES ASSUME NEW m \in Mails, mail[m] # None, mail[m].listed < t.at, NEW i \in N!Ids(m), ~ Seen(i)'
                 PROVE  \E f \in u.fire \cup u.fold : f.id = i
      OBVIOUS
    <3>1. ~ Seen(i) BY <1>3
    <3>2. PICK f \in t.fire \cup t.fold : f.id = i BY <3>1, <1>8 DEF Going
    <3>3. f # e BY <2>2, <3>2
    <3> QED BY <3>2, <3>3, <2>3, <2>4
  <2>8. t.at \in Int /\ t.at <= clock /\ state.last < t.at /\ \A f \in u.fire \cup u.fold : DOMAIN f = EventFields
    BY <1>8, <2>3, <2>5 DEF Going
  <2> QED BY <2>3, <2>6, <2>7, <2>8, <1>1, <1>9 DEF Going, N!Ids
<1> QED BY <1>5, <1>6, <1>7, <1>9, <1>10, GoingPrimed

(* What a write leaves in the ledger.                                       *)
LEMMA SavesLeaves ==
  ASSUME NEW l, N!Saves(l)
  PROVE  (ledger' = l /\ UNCHANGED troubles) \/ (ledger' \in {ledger, {}} /\ troubles' = troubles + 1)
BY DEF N!Saves, N!Fault

LEMMA SavesSeen ==
  ASSUME NEW l, ledger' \in {l, ledger, {}}, RowsSeen(l)', RowsSeen(ledger),
         folded \subseteq folded', missed \subseteq missed', posted \subseteq posted'
  PROVE  RowsSeen(ledger)'
<1>1. PICK k, w : k = ledger /\ w = ledger' OBVIOUS
<1>2. RowsSeen(k)' BY <1>1, SeenStays
<1>3. RowsSeen({})' BY DEF RowsSeen
<1>4. RowsSeen(w)' BY <1>1, <1>2, <1>3
<1> QED BY <1>1, <1>4 DEF RowsSeen, OfMail, Seen, Posted, N!Ids

LEMMA NoteRecorded == ASSUME NoneIsNoNote, NoteInv, N!Recorded PROVE NoteInv'
<1> USE DEF NoteInv
<1>1. /\ UNCHANGED <<clock, mail, state, folded, missed, posted>> /\ tick # None /\ tick.sent # None
      /\ N!Saves(tick.rows \cup {N!Row(tick.sent, "sent")})
      /\ tick' = [tick EXCEPT !.rows = tick.rows \cup {N!Row(tick.sent, "sent")}, !.fire = @ \ {tick.sent}, !.sent = None]
  BY DEF N!Recorded, N!world, N!told, N!record
<1>2. \A i : Seen(i) => Seen(i)' BY <1>1, SeenStays
<1>3. PICK t, u, l : t = tick /\ u = tick' /\ l = tick.rows \cup {N!Row(tick.sent, "sent")} OBVIOUS
<1>4. Going(t) /\ t.sent # None BY <1>1, <1>3
<1>5. PICK r : r = N!Row(t.sent, "sent") OBVIOUS
<1>6. r.id = t.sent.id /\ l = t.rows \cup {r} BY <1>1, <1>3, <1>5 DEF N!Row
<1>7. RowsSeen(l) BY <1>4, <1>6 DEF Going, RowsSeen
<1>8. RowsSeen(l)' /\ RowsSeen(ledger)' /\ troubles' \in Nat
  <2>1. RowsSeen(l)' BY <1>1, <1>7, SeenStays
  <2>2. N!Saves(l) BY <1>1, <1>3
  <2>3. ledger' \in {l, ledger, {}} /\ troubles' \in Nat BY <2>2, SavesLeaves DEF NoteTypes
  <2> QED BY <2>1, <2>3, <1>1, SavesSeen
<1>9. DOMAIN u = NoteFields /\ u.at = t.at /\ u.rows = l /\ u.fold = t.fold /\ u.fire = t.fire \ {t.sent} /\ u.sent = None
  BY <1>1, <1>3, <1>4 DEF Going, NoteFields
<1>10. \A m \in Mails : mail[m] # None /\ mail[m].listed < t.at =>
          \A i \in N!Ids(m) : Seen(i)' \/ \E f \in u.fire \cup u.fold : f.id = i
  BY <1>2, <1>4, <1>9 DEF Going
<1>11. t.at \in Int /\ t.at <= clock /\ state.last < t.at /\ \A f \in u.fire \cup u.fold : DOMAIN f = EventFields
  BY <1>4, <1>9 DEF Going
<1>12. Going(u)' BY <1>1, <1>8, <1>9, <1>10, <1>11 DEF Going, N!Ids
<1>13. NoteTypes' BY <1>1, <1>8 DEF NoteTypes
<1>14. N!Noticed' BY <1>1, NoticedPrimed
<1> QED BY <1>3, <1>8, <1>12, <1>13, <1>14, GoingPrimed

LEMMA NoteFolds == ASSUME NoneIsNoNote, NoteInv, N!Fold PROVE NoteInv'
<1> USE DEF NoteInv
<1>1. /\ UNCHANGED <<clock, mail, state, missed, posted>> /\ tick # None /\ tick.sent = None
      /\ \E e \in tick.fold : \E l :
           /\ l = tick.rows \cup {N!Row(e, "folded")} /\ N!Saves(l)
           /\ tick' = [tick EXCEPT !.rows = l, !.fold = @ \ {e}]
           /\ folded' = folded \cup {e.id}
  BY DEF N!Fold, N!world, N!Busy, N!record
<1>2. folded \subseteq folded' BY <1>1
<1>3. \A i : Seen(i) => Seen(i)' BY <1>1, <1>2, SeenStays
<1>4. PICK t, u : t = tick /\ u = tick' OBVIOUS
<1>5. Going(t) /\ t.sent = None BY <1>1, <1>4
<1>6. PICK e, l : /\ e \in t.fold /\ l = t.rows \cup {N!Row(e, "folded")} /\ N!Saves(l)
                  /\ u = [t EXCEPT !.rows = l, !.fold = @ \ {e}]
                  /\ folded' = folded \cup {e.id}
  BY <1>1, <1>4
<1>7. PICK r : r = N!Row(e, "folded") OBVIOUS
<1>8. r.id = e.id /\ l = t.rows \cup {r} BY <1>6, <1>7 DEF N!Row
<1>9. Seen(e.id)' BY <1>6 DEF Seen
<1>10. RowsSeen(l)' /\ RowsSeen(ledger)' /\ troubles' \in Nat
  <2>1. RowsSeen(t.rows)' BY <1>1, <1>2, <1>5, SeenStays DEF Going
  <2>2. RowsSeen(l)' BY <2>1, <1>8, <1>9 DEF RowsSeen
  <2>3. ledger' \in {l, ledger, {}} /\ troubles' \in Nat BY <1>6, SavesLeaves DEF NoteTypes
  <2> QED BY <2>2, <2>3, <1>1, <1>2, SavesSeen
<1>11. DOMAIN u = NoteFields /\ u.at = t.at /\ u.rows = l /\ u.fold = t.fold \ {e} /\ u.fire = t.fire /\ u.sent = None
  BY <1>5, <1>6 DEF Going, NoteFields
<1>12. \A m \in Mails : mail[m] # None /\ mail[m].listed < t.at =>
          \A i \in N!Ids(m) : Seen(i)' \/ \E f \in u.fire \cup u.fold : f.id = i
  BY <1>3, <1>5, <1>9, <1>11 DEF Going
<1>13. t.at \in Int /\ t.at <= clock /\ state.last < t.at /\ \A f \in u.fire \cup u.fold : DOMAIN f = EventFields
  BY <1>5, <1>11 DEF Going
<1>14. Going(u)' BY <1>1, <1>10, <1>11, <1>12, <1>13 DEF Going, N!Ids
<1>15. NoteTypes' BY <1>1, <1>10 DEF NoteTypes
<1>16. N!Noticed' BY <1>1, <1>2, NoticedPrimed
<1> QED BY <1>4, <1>10, <1>14, <1>15, <1>16, GoingPrimed

(* A state that is torn, or not written, says what it said of the last tick.*)
LEMMA TornState == ASSUME NoteTypes PROVE DOMAIN N!Torn = DOMAIN state /\ N!Torn.last = state.last
BY DEF N!Torn, NoteTypes

LEMMA NoticedStays ==
  ASSUME NoteInv, UNCHANGED mail, state'.last = state.last,
         folded \subseteq folded', missed \subseteq missed', posted \subseteq posted'
  PROVE  N!Noticed'
BY DEF NoteInv, N!Noticed, N!Ids

LEMMA NoteDone == ASSUME NoteInv, N!Done PROVE NoteInv'
<1> USE DEF NoteInv
<1>1. /\ UNCHANGED <<clock, mail, ledger, folded, missed, posted>> /\ tick # None
      /\ tick.fire = {} /\ tick.fold = {} /\ tick' = None
      /\ \/ state' = N!Ended /\ UNCHANGED troubles
         \/ N!Fault /\ state' \in {state, N!Torn}
  BY DEF N!Done, N!world, N!told, N!Busy
<1>2. PICK t : t = tick OBVIOUS
<1>3. Going(t) /\ t.fire = {} /\ t.fold = {} BY <1>1, <1>2
<1>4. (state'.last = t.at \/ state'.last = state.last) /\ DOMAIN state' = DOMAIN state /\ troubles' \in Nat
  BY <1>1, <1>2, TornState DEF N!Ended, N!Fault, NoteTypes
<1>5. NoteTypes' BY <1>1, <1>3, <1>4 DEF NoteTypes, Going
<1>6. \A m \in Mails : mail[m] # None /\ mail[m].listed < t.at => \A i \in N!Ids(m) : Seen(i)
  BY <1>3 DEF Going
<1>7. N!Noticed'
  <2>1. CASE state'.last = t.at BY <2>1, <1>1, <1>6 DEF N!Noticed, Seen, Posted, N!Ids
  <2>2. CASE state'.last = state.last BY <2>2, <1>1, NoticedStays
  <2> QED BY <2>1, <2>2, <1>4
<1> QED BY <1>1, <1>5, <1>7 DEF RowsSeen, OfMail, Seen, Posted, N!Ids

LEMMA NoteDies == ASSUME NoteInv, N!Die PROVE NoteInv'
<1> USE DEF NoteInv
<1>1. /\ UNCHANGED <<clock, mail, folded, missed, posted>> /\ tick' = None /\ troubles' = troubles + 1
      /\ ledger' \in {ledger, {}} /\ state' \in {state, N!Torn}
  BY DEF N!Die, N!world, N!told, N!Fault
<1>2. state'.last = state.last /\ DOMAIN state' = DOMAIN state BY <1>1, TornState
<1>3. NoteTypes' BY <1>1, <1>2 DEF NoteTypes
<1>4. N!Noticed' BY <1>1, <1>2, NoticedStays
<1>5. RowsSeen({})' BY DEF RowsSeen
<1>6. RowsSeen(ledger)' BY <1>1, <1>5, SavesSeen
<1> QED BY <1>1, <1>3, <1>4, <1>6

LEMMA NoteStep == ASSUME NoneIsNoNote, NoteInv, N!Next PROVE NoteInv'
BY NotePass, NoteReplans, NoteLook, NoteMails, NoteRecorded, NoteFolds, NoteDone, NoteDies, NoteArrives DEF N!Next

(* The others leave the Note's files alone.                                 *)
NoteOrQuiet == (part = "note" => NoteInv) /\ (part # "note" => \A m \in Mails : mail[m] = None)

LEMMA NoteOrQuietStays == ASSUME NoneIsNoNote, NoteOrQuiet, [MailsNext]_all PROVE NoteOrQuiet'
<1>1. CASE part = "note" /\ N!Next /\ UNCHANGED part BY <1>1, NoteStep DEF NoteOrQuiet
<1>2. CASE part # "note" /\ UNCHANGED part /\ UNCHANGED note BY <1>2 DEF NoteOrQuiet, note
<1>3. CASE UNCHANGED all
  <2>1. UNCHANGED <<part, clock, tick, troubles, note>> BY <1>3 DEF all, ticks
  <2>2. NoteInv => NoteInv'
    BY <2>1 DEF note, NoteInv, NoteTypes, RowsSeen, OfMail, Seen, Posted, Going, N!Noticed, N!Ids
  <2> QED BY <2>1, <2>2 DEF NoteOrQuiet, note
<1> QED BY <1>1, <1>2, <1>3 DEF MailsNext, all

(* Noticed: for any mails, passes, delays up to the slack, meetings, caps   *)
(* and faults: what could be listed before the last tick on record began is *)
(* mailed or folded, unless a listing left it out, a lost state passed over *)
(* it or its note failed (note_send.fetch_inbound, tick, _write_json).      *)
THEOREM NoticedAlways == ASSUME NoneIsNoNote PROVE MailsSpec => []Noticed
<1>1. MailsInit => NoteOrQuiet
  <2> SUFFICES ASSUME N!Init PROVE NoteOrQuiet BY DEF MailsInit
  <2>1. NoteInv BY NoteInit
  <2>2. \A m \in Mails : mail[m] = None BY DEF N!Init
  <2> QED BY <2>1, <2>2 DEF NoteOrQuiet
<1>2. NoteOrQuiet /\ [MailsNext]_all => NoteOrQuiet' BY NoteOrQuietStays
<1>3. NoteOrQuiet => Noticed BY DEF NoteOrQuiet, NoteInv, Noticed, N!Noticed
<1> QED BY <1>1, <1>2, <1>3, PTL DEF MailsSpec

-----------------------------------------------------------------------------
(* The Note, once.                                                          *)

(* A reply that the Note would not mail again: in the ledger, of a mail     *)
(* older than it reads back, or told less often than faults allow.          *)
NoteCopies(i) == Cardinality({n \in posted : n.id = i})
Untold(i) == NoteCopies(i) <= troubles /\ (troubles = 0 => i \notin folded)
ReadPast(m) == mail[m] # None /\ mail[m].received < state.last - Slack /\ mail[m].received < clock - Lookback
NoteSpent(l, m, i) == (\E r \in l : r.id = i) \/ ReadPast(m) \/ Untold(i)

AfterMail(l) ==
  \A r \in l : r.at \in Int /\ \A m \in Mails : r.id \in N!Ids(m) => mail[m] # None /\ mail[m].received <= r.at
Mailing(t, i) == t.sent # None /\ t.sent.id = i

OnceGoing(t) ==
  /\ AfterMail(t.rows) /\ t.fire \cap t.fold = {}
  /\ \A e \in t.fire \cup t.fold : \A m \in Mails : e.id \in N!Ids(m) =>
       /\ mail[m] # None /\ mail[m].received <= t.at /\ e = [id |-> e.id, at |-> mail[m].received]
       /\ Mailing(t, e.id) \/ Untold(e.id)
  /\ \A m \in Mails : \A i \in N!Ids(m) : Mailing(t, i) \/ NoteSpent(t.rows, m, i)

NoteAtMost ==
  \A m \in Mails : \A i \in N!Ids(m) :
    NoteCopies(i) <= 1 + troubles /\ (i \in folded /\ troubles = 0 => NoteCopies(i) = 0)
LedgerSpent == \A m \in Mails : \A i \in N!Ids(m) : (tick # None /\ Mailing(tick, i)) \/ NoteSpent(ledger, m, i)
OnceInv ==
  /\ IsFiniteSet(posted) /\ AfterMail(ledger) /\ NoteAtMost /\ LedgerSpent
  /\ tick # None => OnceGoing(tick)

(* The ledger of notes remembers longer than the Note was ever away.        *)
Awake == clock - NoteKept <= state.last - Slack

LEMMA NoteCopiesNat == ASSUME IsFiniteSet(posted), NEW i PROVE NoteCopies(i) \in Nat
<1>1. {n \in posted : n.id = i} \subseteq posted OBVIOUS
<1>2. IsFiniteSet({n \in posted : n.id = i}) BY <1>1, FS_Subset
<1> QED BY <1>2, FS_CardinalityType DEF NoteCopies

LEMMA OnceInit == N!Init => OnceInv
<1> SUFFICES ASSUME N!Init PROVE OnceInv OBVIOUS
<1>1. posted = {} /\ folded = {} /\ ledger = {} /\ tick = None /\ troubles = 0 BY DEF N!Init
<1>2. IsFiniteSet(posted) BY <1>1, FS_EmptySet
<1>3. \A i : NoteCopies(i) = 0
  <2> SUFFICES ASSUME NEW i PROVE NoteCopies(i) = 0 OBVIOUS
  <2>1. {n \in posted : n.id = i} = {} BY <1>1
  <2> QED BY <2>1, FS_EmptySet DEF NoteCopies
<1> QED BY <1>1, <1>2, <1>3 DEF OnceInv, AfterMail, NoteAtMost, LedgerSpent, NoteSpent, Untold

(* What stays when nothing is told.                                         *)
Quiet ==
  /\ \A k \in Mails : mail[k] # None => mail'[k] = mail[k]
  /\ UNCHANGED <<posted, folded>>
  /\ clock \in Int /\ clock' \in Int /\ clock <= clock'
  /\ state.last \in Int /\ state'.last \in Int /\ state.last <= state'.last
  /\ troubles \in Nat /\ troubles' \in Nat /\ troubles <= troubles'

LEMMA AfterMailStays ==
  ASSUME \A k \in Mails : mail[k] # None => mail'[k] = mail[k]
  PROVE  \A l : AfterMail(l) => AfterMail(l)'
BY DEF AfterMail, N!Ids

LEMMA QuietStays ==
  ASSUME NoteInv, OnceInv, Quiet
  PROVE  /\ \A i : Untold(i) => Untold(i)'
         /\ \A l, i : \A m \in Mails : NoteSpent(l, m, i) => NoteSpent(l, m, i)'
         /\ NoteAtMost' /\ IsFiniteSet(posted)'
<1>1. \A i : NoteCopies(i)' = NoteCopies(i) /\ NoteCopies(i) \in Nat BY NoteCopiesNat DEF Quiet, OnceInv, NoteCopies
<1>2. \A i : Untold(i) => Untold(i)' BY <1>1 DEF Quiet, Untold
<1>3. \A m \in Mails : ReadPast(m) => ReadPast(m)'
  BY NoteAssumption DEF Quiet, ReadPast, NoteInv, NoteTypes
<1>4. \A l, i : \A m \in Mails : NoteSpent(l, m, i) => NoteSpent(l, m, i)' BY <1>2, <1>3 DEF NoteSpent
<1>5. NoteAtMost' BY <1>1 DEF Quiet, OnceInv, NoteAtMost, N!Ids
<1>6. IsFiniteSet(posted)' BY DEF Quiet, OnceInv
<1> QED BY <1>2, <1>4, <1>5, <1>6

LEMMA QuietGoing ==
  ASSUME NoteInv, OnceInv, Quiet, NEW t, OnceGoing(t)
  PROVE  OnceGoing(t)'
<1>1. AfterMail(t.rows)' BY AfterMailStays DEF Quiet, OnceGoing
<1>2. \A i : Untold(i) => Untold(i)' BY QuietStays
<1>3. \A m \in Mails : \A i \in N!Ids(m) : Mailing(t, i) \/ NoteSpent(t.rows, m, i)' BY QuietStays DEF OnceGoing
<1> QED BY <1>1, <1>2, <1>3 DEF OnceGoing, Mailing, Quiet, N!Ids

LEMMA OncePrimed == ASSUME NEW t, tick' = t, OnceGoing(t)' PROVE OnceGoing(tick)'
BY DEF OnceGoing, AfterMail, Mailing, NoteSpent, ReadPast, Untold, NoteCopies, N!Ids

(* A step that leaves the ledger and the tick alone.                        *)
LEMMA QuietOnce == ASSUME NoteInv, OnceInv, Quiet, UNCHANGED <<ledger, tick>> PROVE OnceInv'
<1>1. PICK l, t : l = ledger /\ t = tick OBVIOUS
<1>2. AfterMail(l)' /\ (t # None => OnceGoing(t)') BY <1>1, AfterMailStays, QuietGoing DEF Quiet, OnceInv
<1>3. AfterMail(ledger)' BY <1>1, <1>2 DEF AfterMail, N!Ids
<1>4. \A m \in Mails : \A i \in N!Ids(m) : (t # None /\ Mailing(t, i)) \/ NoteSpent(l, m, i)'
  BY <1>1, QuietStays DEF OnceInv, LedgerSpent
<1>5. LedgerSpent' BY <1>1, <1>4 DEF LedgerSpent, Mailing, NoteSpent, ReadPast, Untold, NoteCopies, N!Ids
<1>6. (tick # None => OnceGoing(tick))' BY <1>1, <1>2, OncePrimed
<1> QED BY <1>3, <1>5, <1>6, QuietStays DEF OnceInv

LEMMA OncePass == ASSUME NoteInv, OnceInv, N!Pass PROVE OnceInv'
<1>1. clock' = clock + 1 /\ UNCHANGED <<mail, state, posted, folded, troubles, ledger, tick>> BY DEF N!Pass, N!world, N!told
<1> QED BY <1>1, QuietOnce DEF Quiet, NoteInv, NoteTypes

LEMMA OnceReplans == ASSUME NoteInv, OnceInv, N!Replans PROVE OnceInv'
<1>1. UNCHANGED <<clock, mail, state, posted, folded, troubles, ledger, tick>> BY DEF N!Replans, N!told
<1> QED BY <1>1, QuietOnce DEF Quiet, NoteInv, NoteTypes

LEMMA OnceArrives == ASSUME NoteInv, OnceInv, NEW m \in Mails, N!Arrives(m) PROVE OnceInv'
<1>1. UNCHANGED <<clock, state, posted, folded, troubles, ledger, tick>> BY DEF N!Arrives, N!told
<1>2. \A k \in Mails : mail[k] # None => mail'[k] = mail[k] BY DEF N!Arrives, NoteInv, NoteTypes
<1> QED BY <1>1, <1>2, QuietOnce DEF Quiet, NoteInv, NoteTypes

(* A fault that mails nothing may let anything be told once more.           *)
AllUntold == \A m \in Mails : \A i \in N!Ids(m) : Untold(i)

LEMMA FaultUntold ==
  ASSUME NoteInv, OnceInv, UNCHANGED posted, troubles' = troubles + 1
  PROVE  AllUntold'
<1> SUFFICES ASSUME NEW m \in Mails, NEW i \in N!Ids(m) PROVE Untold(i)' BY DEF AllUntold, N!Ids
<1>1. NoteCopies(i)' = NoteCopies(i) BY DEF NoteCopies
<1>2. NoteCopies(i) <= 1 + troubles BY DEF OnceInv, NoteAtMost
<1> QED BY <1>1, <1>2 DEF Untold, NoteInv, NoteTypes

LEMMA AllUntoldSpent == ASSUME AllUntold' PROVE LedgerSpent'
BY DEF AllUntold, LedgerSpent, NoteSpent, Untold, NoteCopies, N!Ids

(* Whatever a write leaves of the rows.                                     *)
LEMMA LeftAfterMail ==
  ASSUME NEW l, ledger' \in {l, ledger, {}}, AfterMail(l)', AfterMail(ledger),
         \A k \in Mails : mail[k] # None => mail'[k] = mail[k]
  PROVE  AfterMail(ledger)'
<1>1. PICK k, w : k = ledger /\ w = ledger' OBVIOUS
<1>2. AfterMail(k)' BY <1>1, AfterMailStays
<1>3. AfterMail({})' BY DEF AfterMail
<1>4. AfterMail(w)' BY <1>1, <1>2, <1>3
<1> QED BY <1>1, <1>4 DEF AfterMail, N!Ids

LEMMA SavesSpent ==
  ASSUME NoteInv, OnceInv, UNCHANGED posted, NEW l, N!Saves(l),
         \A m \in Mails : \A i \in N!Ids(m) : NoteSpent(l, m, i)'
  PROVE  LedgerSpent'
<1>1. CASE ledger' = l
  BY <1>1 DEF LedgerSpent, NoteSpent, ReadPast, Untold, NoteCopies, N!Ids
<1>2. CASE troubles' = troubles + 1 BY <1>2, FaultUntold, AllUntoldSpent
<1> QED BY <1>1, <1>2, SavesLeaves

LEMMA OnceDies == ASSUME NoteInv, OnceInv, N!Die PROVE OnceInv'
<1>1. /\ UNCHANGED <<clock, mail, folded, posted>> /\ tick' = None /\ troubles' = troubles + 1
      /\ ledger' \in {ledger, {}} /\ state' \in {state, N!Torn}
  BY DEF N!Die, N!world, N!told, N!Fault
<1>2. Quiet BY <1>1, TornState DEF Quiet, NoteInv, NoteTypes
<1>3. LedgerSpent' BY <1>1, FaultUntold, AllUntoldSpent
<1>4. AfterMail({})' BY DEF AfterMail
<1>5. AfterMail(ledger)' BY <1>1, <1>4, LeftAfterMail DEF OnceInv
<1> QED BY <1>1, <1>2, <1>3, <1>5, QuietStays DEF OnceInv

LEMMA OnceDone == ASSUME NoteInv, OnceInv, N!Done PROVE OnceInv'
<1>1. /\ UNCHANGED <<clock, mail, ledger, folded, posted>> /\ tick' = None /\ tick # None /\ tick.sent = None
      /\ \/ state' = N!Ended /\ UNCHANGED troubles
         \/ N!Fault /\ state' \in {state, N!Torn}
  BY DEF N!Done, N!world, N!told, N!Busy
<1>2. Quiet
  <2>1. tick.at \in Int /\ state.last < tick.at BY <1>1 DEF NoteInv, Going
  <2>2. state'.last = tick.at \/ state'.last = state.last BY <1>1, TornState DEF N!Ended, NoteInv
  <2>3. troubles' \in Nat /\ troubles <= troubles' BY <1>1 DEF N!Fault, NoteInv, NoteTypes
  <2> QED BY <2>1, <2>2, <2>3, <1>1 DEF Quiet, NoteInv, NoteTypes
<1>3. PICK l : l = ledger OBVIOUS
<1>4. AfterMail(l)' BY <1>2, <1>3, AfterMailStays DEF Quiet, OnceInv
<1>5. \A m \in Mails : \A i \in N!Ids(m) : NoteSpent(l, m, i)'
  BY <1>1, <1>2, <1>3, QuietStays DEF OnceInv, LedgerSpent, Mailing
<1>6. LedgerSpent' BY <1>1, <1>3, <1>5 DEF LedgerSpent, NoteSpent, ReadPast, Untold, NoteCopies, N!Ids
<1>7. AfterMail(ledger)' BY <1>1, <1>3, <1>4 DEF AfterMail, N!Ids
<1> QED BY <1>1, <1>2, <1>6, <1>7, QuietStays DEF OnceInv

(* A row that would let a mail be read again is not pruned: while the Note  *)
(* is awake, it forgets only rows of mails it reads back no more.           *)
LEMMA PrunedNotes ==
  ASSUME NoteInv, OnceInv, Awake, NEW r \in ledger, r \notin N!Rows(TRUE), NEW m \in Mails, r.id \in N!Ids(m)
  PROVE  ReadPast(m)
<1>1. r.at \in Int /\ mail[m] # None /\ mail[m].received <= r.at BY DEF OnceInv, AfterMail
<1>2. ~ (r.at >= clock - NoteKept) BY DEF N!Rows, N!prune
<1> QED BY <1>1, <1>2, NoteAssumption DEF Awake, ReadPast, NoteInv, NoteTypes

LEMMA OnceLook == ASSUME NoteInv, OnceInv, Awake, N!Look PROVE OnceInv'
<1>1. UNCHANGED <<clock, mail, state, ledger, posted, folded>> /\ tick = None BY DEF N!Look, N!world
<1>2. PICK known, kept, inbound, events, t : Finds(known, kept, inbound, events, t) /\ tick' = t BY LookFinds
<1>3. /\ troubles' \in Nat /\ troubles <= troubles'
      /\ kept = TRUE \/ troubles' = troubles + 1
  BY <1>2 DEF Finds, N!Fault, NoteInv, NoteTypes
<1>4. Quiet BY <1>1, <1>3 DEF Quiet, NoteInv, NoteTypes
<1>5. PICK l, p : l = ledger /\ p = N!Rows(kept) OBVIOUS
<1>6. p \subseteq l /\ (kept = TRUE => \A r \in l : r \notin p => \A m \in Mails : r.id \in N!Ids(m) => ReadPast(m))
  BY <1>5, PrunedNotes DEF N!Rows, N!prune
<1>7. AfterMail(l)' /\ AfterMail(p)'
  <2>1. AfterMail(l) /\ AfterMail(p) BY <1>5, <1>6 DEF OnceInv, AfterMail
  <2> QED BY <2>1, <1>4, AfterMailStays DEF Quiet
<1>8. \A m \in Mails : \A i \in N!Ids(m) : NoteSpent(l, m, i)' /\ NoteSpent(p, m, i)'
  <2>1. CASE kept = TRUE
    <3>1. \A m \in Mails : \A i \in N!Ids(m) : NoteSpent(l, m, i) /\ NoteSpent(p, m, i)
      BY <2>1, <1>1, <1>5, <1>6 DEF OnceInv, LedgerSpent, NoteSpent
    <3> QED BY <3>1, <1>4, QuietStays
  <2>2. CASE troubles' = troubles + 1
    <3>1. AllUntold' BY <2>2, <1>1, FaultUntold
    <3> QED BY <3>1 DEF AllUntold, NoteSpent, N!Ids
  <2> QED BY <2>1, <2>2, <1>3
<1>9. t.rows = p /\ t.at = clock /\ t.sent = None /\ t.fire \cap t.fold = {} BY <1>2, <1>5 DEF Finds
<1>10. ASSUME NEW e \in t.fire \cup t.fold, NEW m \in Mails, e.id \in N!Ids(m)
       PROVE  /\ mail[m] # None /\ mail[m].received <= t.at /\ e = [id |-> e.id, at |-> mail[m].received]
              /\ Untold(e.id)'
  <2>1. e \in N!mail_events(inbound) /\ \A r \in p : r.id # e.id BY <1>2, <1>5, <1>10 DEF Finds, OfMail
  <2>2. PICK k \in inbound : e \in {[id |-> i, at |-> mail[k].received] : i \in N!Ids(k)}
    BY <2>1 DEF N!mail_events
  <2>3. PICK i \in N!Ids(k) : e = [id |-> i, at |-> mail[k].received] BY <2>2
  <2>4. e.id = i /\ k \in Mails BY <2>2, <2>3, <1>2 DEF Finds, N!fetch_inbound
  <2>5. k = m BY <2>4, <1>10, IdsOf
  <2>6. mail[m] # None /\ mail[m].received >= N!Since(known) BY <2>2, <2>5, <1>2 DEF Finds, N!fetch_inbound
  <2>7. mail[m].received \in Int /\ mail[m].received <= clock BY <2>6 DEF NoteInv, NoteTypes
  <2>8. ~ ReadPast(m)' BY <2>6, <2>7, <1>1, NoteAssumption DEF ReadPast, N!Since, NoteInv, NoteTypes
  <2>9. Untold(e.id)' BY <2>1, <2>8, <1>8, <1>10 DEF NoteSpent
  <2> QED BY <2>3, <2>4, <2>5, <2>6, <2>7, <2>9, <1>9
<1>11. OnceGoing(t)' BY <1>1, <1>7, <1>8, <1>9, <1>10 DEF OnceGoing, N!Ids
<1>12. AfterMail(ledger)' BY <1>1, <1>5, <1>7 DEF AfterMail, N!Ids
<1>13. LedgerSpent' BY <1>1, <1>5, <1>8 DEF LedgerSpent, NoteSpent, ReadPast, Untold, NoteCopies, N!Ids
<1> QED BY <1>2, <1>4, <1>11, <1>12, <1>13, OncePrimed, QuietStays DEF OnceInv

(* A note that is mailed adds one copy of its own event.                    *)
LEMMA OneMore ==
  ASSUME IsFiniteSet(posted), NEW n, posted' = posted \cup {n}
  PROVE  /\ IsFiniteSet(posted') /\ NoteCopies(n.id)' <= NoteCopies(n.id) + 1
         /\ \A i : i # n.id => NoteCopies(i)' = NoteCopies(i)
<1>1. IsFiniteSet(posted') BY FS_AddElement
<1>2. ASSUME NEW i, i # n.id PROVE NoteCopies(i)' = NoteCopies(i)
  <2>1. {x \in posted' : x.id = i} = {x \in posted : x.id = i} BY <1>2
  <2> QED BY <2>1 DEF NoteCopies
<1>3. NoteCopies(n.id)' <= NoteCopies(n.id) + 1
  <2> DEFINE S == {x \in posted : x.id = n.id}
  <2>1. {x \in posted' : x.id = n.id} = S \cup {n} OBVIOUS
  <2>2. IsFiniteSet(S) BY FS_Subset
  <2>3. Cardinality(S) \in Nat BY <2>2, FS_CardinalityType
  <2> HIDE DEF S
  <2>4. Cardinality(S \cup {n}) = IF n \in S THEN Cardinality(S) ELSE Cardinality(S) + 1 BY <2>2, FS_AddElement
  <2>5. Cardinality(S \cup {n}) <= Cardinality(S) + 1 BY <2>3, <2>4
  <2>6. NoteCopies(n.id) = Cardinality(S) BY DEF NoteCopies, S
  <2>7. NoteCopies(n.id)' = Cardinality(S \cup {n}) BY <2>1 DEF NoteCopies
  <2> QED BY <2>5, <2>6, <2>7
<1> QED BY <1>1, <1>2, <1>3

(* Of the events of mails that a tick holds, no two have one identifier.    *)
LEMMA OneEvent ==
  ASSUME NEW t, OnceGoing(t), NEW e \in t.fire \cup t.fold, NEW f \in t.fire \cup t.fold,
         NEW m \in Mails, e.id \in N!Ids(m), f.id = e.id
  PROVE  e = f
BY DEF OnceGoing

LEMMA OnceMails == ASSUME NoneIsNoNote, NoteInv, OnceInv, N!Note PROVE OnceInv'
<1>1. /\ UNCHANGED <<clock, mail, state, ledger, folded>> /\ tick # None /\ tick.sent = None
      /\ \E e \in tick.fire :
           \/ /\ tick' = [tick EXCEPT !.sent = e]
              /\ posted' = posted \cup {[id |-> e.id, tick |-> tick.at]}
              /\ UNCHANGED troubles
           \/ /\ N!Fault /\ tick' = [tick EXCEPT !.fire = @ \ {e}]
              /\ UNCHANGED posted \/ posted' = posted \cup {[id |-> e.id, tick |-> tick.at]}
  BY DEF N!Note, N!Busy, N!world
<1>2. PICK t, u, l : t = tick /\ u = tick' /\ l = ledger OBVIOUS
<1>3. Going(t) /\ OnceGoing(t) /\ t.sent = None BY <1>1, <1>2 DEF NoteInv, OnceInv
<1>4. PICK e \in t.fire :
           \/ /\ u = [t EXCEPT !.sent = e]
              /\ posted' = posted \cup {[id |-> e.id, tick |-> t.at]}
              /\ UNCHANGED troubles
           \/ /\ N!Fault /\ u = [t EXCEPT !.fire = @ \ {e}]
              /\ UNCHANGED posted \/ posted' = posted \cup {[id |-> e.id, tick |-> t.at]}
  BY <1>1, <1>2
<1>5. e # None BY <1>3, <1>4 DEF Going, NoneIsNoNote
<1>6. AfterMail(l)' /\ AfterMail(t.rows)' BY <1>1, <1>2, <1>3, AfterMailStays DEF OnceInv, OnceGoing
<1>7. AfterMail(ledger)' BY <1>1, <1>2, <1>6 DEF AfterMail, N!Ids
<1>8. \A m \in Mails : \A i \in N!Ids(m) : NoteSpent(l, m, i) /\ NoteSpent(t.rows, m, i)
  BY <1>1, <1>2, <1>3 DEF OnceInv, LedgerSpent, OnceGoing, Mailing
<1>9. CASE N!Fault /\ u = [t EXCEPT !.fire = @ \ {e}] /\ UNCHANGED posted
  <2>1. Quiet BY <1>1, <1>9 DEF Quiet, N!Fault, NoteInv, NoteTypes
  <2>2. u.rows = t.rows /\ u.fold = t.fold /\ u.fire = t.fire \ {e} /\ u.sent = None /\ u.at = t.at
    BY <1>3, <1>9 DEF Going, NoteFields
  <2>3. OnceGoing(u) BY <1>3, <2>2 DEF OnceGoing, Mailing
  <2>4. OnceGoing(u)' BY <2>1, <2>3, QuietGoing
  <2>5. \A m \in Mails : \A i \in N!Ids(m) : NoteSpent(l, m, i)' BY <1>8, <2>1, QuietStays
  <2>6. LedgerSpent' BY <1>1, <1>2, <2>5 DEF LedgerSpent, NoteSpent, ReadPast, Untold, NoteCopies, N!Ids
  <2> QED BY <1>2, <1>7, <2>1, <2>4, <2>6, OncePrimed, QuietStays DEF OnceInv
<1>10. CASE /\ u = [t EXCEPT !.sent = e]
            /\ posted' = posted \cup {[id |-> e.id, tick |-> t.at]} /\ UNCHANGED troubles
  <2>1. PICK n : n = [id |-> e.id, tick |-> t.at] OBVIOUS
  <2>2. posted' = posted \cup {n} /\ n.id = e.id BY <1>10, <2>1
  <2>3. /\ IsFiniteSet(posted') /\ NoteCopies(e.id)' <= NoteCopies(e.id) + 1
        /\ \A i : i # e.id => NoteCopies(i)' = NoteCopies(i)
    BY <2>2, OneMore DEF OnceInv
  <2>4. u.rows = t.rows /\ u.fold = t.fold /\ u.fire = t.fire /\ u.sent = e /\ u.at = t.at
    BY <1>3, <1>10 DEF Going, NoteFields
  <2>5. \A i : i # e.id /\ Untold(i) => Untold(i)' BY <1>1, <1>10, <2>3 DEF Untold
  <2>6. \A k, i : \A m \in Mails : i # e.id /\ NoteSpent(k, m, i) => NoteSpent(k, m, i)'
    BY <1>1, <2>5 DEF NoteSpent, ReadPast
  <2>7. \A i : Mailing(u, i) <=> i = e.id BY <1>5, <2>4 DEF Mailing
  <2>8. OnceGoing(u)' BY <1>1, <1>3, <1>6, <1>8, <2>4, <2>5, <2>6, <2>7 DEF OnceGoing, Mailing, N!Ids
  <2>9. LedgerSpent'
    <3>1. \A m \in Mails : \A i \in N!Ids(m) : Mailing(u, i) \/ NoteSpent(l, m, i)' BY <1>8, <2>6, <2>7
    <3>2. u # None BY <1>3, <1>10 DEF Going, NoneIsNoNote
    <3> QED BY <1>1, <1>2, <3>1, <3>2 DEF LedgerSpent, Mailing, NoteSpent, ReadPast, Untold, NoteCopies, N!Ids
  <2>10. NoteAtMost'
    <3> SUFFICES ASSUME NEW m \in Mails, NEW i \in N!Ids(m)
                 PROVE  NoteCopies(i)' <= 1 + troubles /\ (i \in folded /\ troubles = 0 => NoteCopies(i)' = 0)
      BY <1>1, <1>10 DEF NoteAtMost, N!Ids
    <3>1. CASE i # e.id BY <2>3, <3>1 DEF OnceInv, NoteAtMost
    <3>2. CASE i = e.id
      <4>1. Untold(i) BY <1>3, <3>2 DEF OnceGoing, Mailing
      <4>2. NoteCopies(i) \in Nat BY NoteCopiesNat DEF OnceInv
      <4>3. NoteCopies(i)' \in Nat
        <5>1. {x \in posted' : x.id = i} \subseteq posted' OBVIOUS
        <5> QED BY <2>3, <5>1, FS_Subset, FS_CardinalityType DEF NoteCopies
      <4> QED BY <2>3, <3>2, <4>1, <4>2, <4>3 DEF Untold, NoteInv, NoteTypes
    <3> QED BY <3>1, <3>2
  <2> QED BY <1>2, <1>7, <2>3, <2>8, <2>9, <2>10, OncePrimed DEF OnceInv
<1>11. CASE /\ N!Fault /\ u = [t EXCEPT !.fire = @ \ {e}]
            /\ posted' = posted \cup {[id |-> e.id, tick |-> t.at]}
  <2>1. PICK n : n = [id |-> e.id, tick |-> t.at] OBVIOUS
  <2>2. posted' = posted \cup {n} /\ n.id = e.id BY <1>11, <2>1
  <2>3. /\ IsFiniteSet(posted') /\ NoteCopies(e.id)' <= NoteCopies(e.id) + 1
        /\ \A i : i # e.id => NoteCopies(i)' = NoteCopies(i)
    BY <2>2, OneMore DEF OnceInv
  <2>4. u.rows = t.rows /\ u.fold = t.fold /\ u.fire = t.fire \ {e} /\ u.sent = None /\ u.at = t.at
    BY <1>3, <1>11 DEF Going, NoteFields
  <2>5. troubles' = troubles + 1 /\ troubles \in Nat BY <1>11 DEF N!Fault, NoteInv, NoteTypes
  <2>6. \A i : NoteCopies(i) \in Nat /\ NoteCopies(i)' \in Nat
    <3>1. \A i : {x \in posted' : x.id = i} \subseteq posted' OBVIOUS
    <3>2. \A i : NoteCopies(i)' \in Nat BY <2>3, <3>1, FS_Subset, FS_CardinalityType DEF NoteCopies
    <3> QED BY <3>2, NoteCopiesNat DEF OnceInv
  <2>7. \A m \in Mails : \A i \in N!Ids(m) : NoteCopies(i)' <= troubles'
    <3> SUFFICES ASSUME NEW m \in Mails, NEW i \in N!Ids(m) PROVE NoteCopies(i)' <= troubles' OBVIOUS
    <3>1. NoteCopies(i) <= 1 + troubles BY DEF OnceInv, NoteAtMost
    <3>2. CASE i = e.id
      <4>1. Untold(i) BY <1>3, <3>2 DEF OnceGoing, Mailing
      <4> QED BY <4>1, <2>3, <2>5, <2>6, <3>2 DEF Untold
    <3>3. CASE i # e.id BY <3>1, <3>3, <2>3, <2>5, <2>6
    <3> QED BY <3>2, <3>3
  <2>8. AllUntold' BY <2>5, <2>7 DEF AllUntold, Untold, N!Ids
  <2>9. NoteAtMost' BY <2>5, <2>6, <2>7 DEF NoteAtMost, N!Ids
  <2>10. OnceGoing(u)'
    <3>1. \A m \in Mails : \A i \in N!Ids(m) : Untold(i)' BY <2>8 DEF AllUntold, N!Ids
    <3> QED BY <3>1, <1>1, <1>3, <1>6, <2>4 DEF OnceGoing, NoteSpent, N!Ids
  <2>11. LedgerSpent' BY <2>8, AllUntoldSpent
  <2> QED BY <1>2, <1>7, <2>3, <2>9, <2>10, <2>11, OncePrimed DEF OnceInv
<1> QED BY <1>4, <1>9, <1>10, <1>11


LEMMA OnceRecorded == ASSUME NoneIsNoNote, NoteInv, OnceInv, N!Recorded PROVE OnceInv'
<1>1. /\ UNCHANGED <<clock, mail, state, folded, missed, posted>> /\ tick # None /\ tick.sent # None
      /\ N!Saves(tick.rows \cup {N!Row(tick.sent, "sent")})
      /\ tick' = [tick EXCEPT !.rows = tick.rows \cup {N!Row(tick.sent, "sent")}, !.fire = @ \ {tick.sent}, !.sent = None]
  BY DEF N!Recorded, N!world, N!told, N!record
<1>3. PICK t, u, l, r : t = tick /\ u = tick' /\ l = tick.rows \cup {r} /\ r = N!Row(tick.sent, "sent") OBVIOUS
<1>saves. N!Saves(l) BY <1>1, <1>3
<1>left. ledger' \in {l, ledger, {}} /\ troubles' \in Nat /\ troubles <= troubles'
  BY <1>saves, SavesLeaves DEF NoteInv, NoteTypes
<1>2. Quiet BY <1>1, <1>left DEF Quiet, NoteInv, NoteTypes
<1>4. Going(t) /\ OnceGoing(t) /\ t.sent # None /\ t.sent \in t.fire BY <1>1, <1>3 DEF NoteInv, OnceInv, Going
<1>5. r.id = t.sent.id /\ r.at = t.at /\ l = t.rows \cup {r} BY <1>1, <1>3 DEF N!Row
<1>6. DOMAIN u = NoteFields /\ u.at = t.at /\ u.rows = l /\ u.fold = t.fold /\ u.fire = t.fire \ {t.sent} /\ u.sent = None
  BY <1>1, <1>3, <1>4 DEF Going, NoteFields
<1>7. AfterMail(l) BY <1>4, <1>5 DEF AfterMail, OnceGoing, Going
<1>8. \A m \in Mails : \A i \in N!Ids(m) : NoteSpent(l, m, i) BY <1>4, <1>5 DEF OnceGoing, Mailing, NoteSpent
<1>9. OnceGoing(u)
  <2>1. ASSUME NEW e \in u.fire \cup u.fold, NEW m \in Mails, e.id \in N!Ids(m) PROVE e.id # t.sent.id
    <3>1. e \in t.fire \cup t.fold /\ e # t.sent BY <1>4, <1>6 DEF OnceGoing
    <3> QED BY <3>1, <2>1, <1>4, OneEvent
  <2>2. \A e \in u.fire \cup u.fold : \A m \in Mails : e.id \in N!Ids(m) => Untold(e.id)
    BY <2>1, <1>4, <1>6 DEF OnceGoing, Mailing
  <2> QED BY <2>2, <1>4, <1>6, <1>7, <1>8 DEF OnceGoing
<1>10. OnceGoing(u)' /\ AfterMail(l)' BY <1>2, <1>7, <1>9, QuietGoing, AfterMailStays DEF Quiet
<1>11. \A m \in Mails : \A i \in N!Ids(m) : NoteSpent(l, m, i)' BY <1>2, <1>8, QuietStays
<1>12. AfterMail(ledger)' BY <1>2, <1>10, <1>left, LeftAfterMail DEF OnceInv, Quiet
<1>13. LedgerSpent' BY <1>1, <1>11, <1>saves, SavesSpent
<1> QED BY <1>2, <1>3, <1>10, <1>12, <1>13, OncePrimed, QuietStays DEF OnceInv

LEMMA OnceFolds == ASSUME NoteInv, OnceInv, N!Fold PROVE OnceInv'
<1>1. /\ UNCHANGED <<clock, mail, state, missed, posted>> /\ tick # None /\ tick.sent = None
      /\ \E e \in tick.fold : \E l :
           /\ l = tick.rows \cup {N!Row(e, "folded")} /\ N!Saves(l)
           /\ tick' = [tick EXCEPT !.rows = l, !.fold = @ \ {e}]
           /\ folded' = folded \cup {e.id}
  BY DEF N!Fold, N!world, N!Busy, N!record
<1>2. PICK t, u : t = tick /\ u = tick' OBVIOUS
<1>3. Going(t) /\ OnceGoing(t) /\ t.sent = None BY <1>1, <1>2 DEF NoteInv, OnceInv
<1>4. PICK e, l : /\ e \in t.fold /\ l = t.rows \cup {N!Row(e, "folded")} /\ N!Saves(l)
                  /\ u = [t EXCEPT !.rows = l, !.fold = @ \ {e}]
                  /\ folded' = folded \cup {e.id}
  BY <1>1, <1>2
<1>5. PICK r : r = N!Row(e, "folded") OBVIOUS
<1>6. r.id = e.id /\ r.at = t.at /\ l = t.rows \cup {r} BY <1>2, <1>4, <1>5 DEF N!Row
<1>left. ledger' \in {l, ledger, {}} /\ troubles' \in Nat /\ troubles \in Nat /\ troubles <= troubles'
  BY <1>4, SavesLeaves DEF NoteInv, NoteTypes
<1>7. DOMAIN u = NoteFields /\ u.at = t.at /\ u.rows = l /\ u.fold = t.fold \ {e} /\ u.fire = t.fire /\ u.sent = None
  BY <1>3, <1>4 DEF Going, NoteFields
<1>8. \A i : NoteCopies(i)' = NoteCopies(i) /\ NoteCopies(i) \in Nat BY <1>1, NoteCopiesNat DEF NoteCopies, OnceInv
<1>9. \A i : i # e.id /\ Untold(i) => Untold(i)' BY <1>1, <1>4, <1>8, <1>left DEF Untold
<1>10. AfterMail(l) BY <1>3, <1>4, <1>6 DEF AfterMail, OnceGoing, Going
<1>11. AfterMail(l)' BY <1>1, <1>10, AfterMailStays
<1>12. \A m \in Mails : \A i \in N!Ids(m) : NoteSpent(l, m, i)'
  BY <1>1, <1>3, <1>6, <1>9 DEF OnceGoing, Mailing, NoteSpent, ReadPast
<1>13. OnceGoing(u)'
  <2>1. ASSUME NEW f \in u.fire \cup u.fold, NEW m \in Mails, f.id \in N!Ids(m) PROVE Untold(f.id)'
    <3>1. f \in t.fire \cup t.fold /\ f # e BY <1>3, <1>4, <1>7 DEF OnceGoing
    <3>2. f.id # e.id BY <3>1, <2>1, <1>3, <1>4, OneEvent
    <3>3. Untold(f.id) BY <3>1, <2>1, <1>3 DEF OnceGoing, Mailing
    <3> QED BY <3>2, <3>3, <1>9
  <2>2. \A f \in u.fire \cup u.fold : \A m \in Mails : f.id \in N!Ids(m) =>
          mail[m] # None /\ mail[m].received <= u.at /\ f = [id |-> f.id, at |-> mail[m].received]
    BY <1>3, <1>7 DEF OnceGoing
  <2>3. u.fire \cap u.fold = {} BY <1>3, <1>7 DEF OnceGoing
  <2> QED BY <2>1, <2>2, <2>3, <1>1, <1>7, <1>11, <1>12 DEF OnceGoing, N!Ids
<1>14. NoteAtMost'
  <2> SUFFICES ASSUME NEW m \in Mails, NEW i \in N!Ids(m)
               PROVE  NoteCopies(i) <= 1 + troubles /\ (i \in folded' /\ troubles = 0 => NoteCopies(i) = 0)
    BY <1>1, <1>8, <1>left DEF NoteAtMost, N!Ids
  <2>1. CASE i # e.id BY <2>1, <1>4 DEF OnceInv, NoteAtMost
  <2>2. CASE i = e.id
    <3>1. Untold(i) BY <2>2, <1>3, <1>4 DEF OnceGoing, Mailing
    <3> QED BY <3>1, <1>8 DEF Untold, OnceInv, NoteAtMost
  <2> QED BY <2>1, <2>2
<1>15. AfterMail(ledger)' BY <1>1, <1>11, <1>left, LeftAfterMail DEF OnceInv
<1>16. LedgerSpent' BY <1>1, <1>4, <1>12, SavesSpent
<1>17. IsFiniteSet(posted') BY <1>1 DEF OnceInv
<1> QED BY <1>2, <1>13, <1>14, <1>15, <1>16, <1>17, OncePrimed DEF OnceInv

LEMMA OnceStep == ASSUME NoneIsNoNote, NoteInv, OnceInv, Awake, N!Next PROVE OnceInv'
BY OncePass, OnceReplans, OnceLook, OnceMails, OnceRecorded, OnceFolds, OnceDone, OnceDies, OnceArrives DEF N!Next

LEMMA PrepTroubles == R!Next => UNCHANGED troubles \/ troubles' = troubles + 1
BY DEF R!Next, R!Pass, R!Replans, R!run_each, R!run_daily, R!render_prep, R!mail, R!PrepFails, R!Recorded, R!Done, R!Die,
       R!Fault

OnceOrQuiet == (part = "note" => OnceInv) /\ (part # "note" => posted = {} /\ troubles \in Nat)

(* OnceNoted: for any mails, passes, meetings, caps and faults: as long as  *)
(* the Note is not away longer than its ledger remembers, a reply is mailed *)
(* at most once and once more per fault, and not after it was folded        *)
(* (note_email.prune, record; note_send.run).                               *)
THEOREM OnceNotedAlways == ASSUME NoneIsNoNote PROVE MailsSpec /\ []Awake => []OnceNoted
<1>1. MailsInit => NoteOrQuiet /\ OnceOrQuiet
  <2> SUFFICES ASSUME N!Init PROVE NoteOrQuiet /\ OnceOrQuiet BY DEF MailsInit
  <2>1. posted = {} /\ troubles = 0 /\ \A m \in Mails : mail[m] = None BY DEF N!Init
  <2> QED BY <2>1, NoteInit, OnceInit DEF NoteOrQuiet, OnceOrQuiet
<1>2. NoteOrQuiet /\ [MailsNext]_all => NoteOrQuiet' BY NoteOrQuietStays
<1>3. NoteOrQuiet /\ OnceOrQuiet /\ Awake /\ [MailsNext]_all => OnceOrQuiet'
  <2> SUFFICES ASSUME NoteOrQuiet, OnceOrQuiet, Awake, [MailsNext]_all PROVE OnceOrQuiet' OBVIOUS
  <2>1. CASE part = "note" /\ N!Next /\ UNCHANGED part BY <2>1, OnceStep DEF NoteOrQuiet, OnceOrQuiet
  <2>2. CASE part # "note" /\ UNCHANGED part /\ UNCHANGED note /\ (UNCHANGED troubles \/ troubles' = troubles + 1)
    BY <2>2 DEF OnceOrQuiet, note
  <2>3. CASE UNCHANGED all
    <3>1. UNCHANGED <<part, clock, tick, troubles, note>> BY <2>3 DEF all, ticks
    <3>2. NoteInv /\ OnceInv => OnceInv'
      <4> SUFFICES ASSUME NoteInv, OnceInv PROVE OnceInv' OBVIOUS
      <4>1. Quiet BY <3>1 DEF Quiet, note, NoteInv, NoteTypes
      <4> QED BY <3>1, <4>1, QuietOnce DEF note
    <3> QED BY <3>1, <3>2 DEF NoteOrQuiet, OnceOrQuiet, note
  <2> QED BY <2>1, <2>2, <2>3, PrepTroubles DEF MailsNext, all, ticks
<1>4. OnceOrQuiet => OnceNoted
  <2>1. OnceInv => OnceNoted BY DEF OnceInv, NoteAtMost, NoteCopies, OnceNoted, N!OnceNoted, N!Copies, N!Cardinality, Cardinality
  <2>2. ASSUME posted = {}, troubles \in Nat PROVE OnceNoted
    <3>1. \A i : N!Copies(i) = 0
      <4> SUFFICES ASSUME NEW i PROVE N!Copies(i) = 0 OBVIOUS
      <4>1. {n \in posted : n.id = i} = {} BY <2>2
      <4>2. NoteCopies(i) = 0 BY <4>1, FS_EmptySet DEF NoteCopies
      <4> QED BY <4>2 DEF NoteCopies, N!Copies, N!Cardinality, Cardinality
    <3> QED BY <3>1, <2>2 DEF OnceNoted, N!OnceNoted
  <2> QED BY <2>1, <2>2 DEF OnceOrQuiet
<1> QED BY <1>1, <1>2, <1>3, <1>4, PTL DEF MailsSpec
-----------------------------------------------------------------------------
(* The scan: where a pending thread that an inbox's fetch read is, after    *)
(* each of the steps that may take it out of the inbox's section.           *)
Scanning == mode \in {"full", "save", "feed"}
Waiting(t) == <<"inbox", t>> \notin unread /\ W!Pending(t, TRUE)
In(S, t) == \E s \in S : W!Entry(t) \in sec[s]

Followed(t) ==
  /\ at = "intake" => In({"inbox_pending"}, t)
  /\ at = "classify" => In({"inbox_pending", "avoided"}, t)
  /\ at = "finalize" => In({"inbox_pending", "avoided", "filtered_pending"}, t)
  /\ at \in {"classify", "finalize"} /\ t.who = "critical" => In({"inbox_pending"}, t)

ScanInv ==
  /\ sec = [s \in W!Sections |-> sec[s]]
  /\ at \in {"reuse", "tier2"} => mode = at
  /\ Scanning => \A t \in threads : Waiting(t) => Followed(t)
  /\ Accounted

(* What the last pass over the sections keeps: a row of the inbox goes on   *)
(* or was marked done; a lure held back and a row filtered out stay.        *)
LEMMA FinalizedKeeps ==
  ASSUME sec = [s \in W!Sections |-> sec[s]], NEW degraded, NEW e, NEW F, F = W!finalized(sec, degraded)
  PROVE  /\ F = [s \in W!Sections |-> F[s]]
         /\ e \in sec["inbox_pending"] => \/ e.key \in W!Keys(F["inbox_pending"])
                                          \/ e.key \in done /\ e \in F["suppressed"]
         /\ e \in sec["avoided"] => e \in F["avoided"]
         /\ e \in sec["filtered_pending"] => e \in F["filtered_pending"]
<1>1. PICK s1 : s1 = W!Suppressing(sec)
  OBVIOUS
<1>2. PICK s2 : s2 = W!gate_cold_promotion(s1, degraded)
  OBVIOUS
<1>3. PICK s3 : s3 = W!carry(s2)
  OBVIOUS
<1>4. F = [x \in W!Sections |-> IF x \in W!Surfaced THEN W!dedup_cross_account(s3[x]) ELSE s3[x]]
  BY <1>1, <1>2, <1>3 DEF W!finalized
<1>5. /\ s1 = [x \in W!Sections |-> s1[x]]
      /\ e \in sec["inbox_pending"] => e \in s1["inbox_pending"] \/ (e.key \in done /\ e \in s1["suppressed"])
      /\ s1["avoided"] = sec["avoided"] /\ s1["filtered_pending"] = sec["filtered_pending"]
  BY <1>1 DEF W!Suppressing, W!is_suppressed, W!Sections, W!SentSections, W!Surfaced
<1>6. /\ s2 = [x \in W!Sections |-> s2[x]] /\ s2["inbox_pending"] = s1["inbox_pending"]
      /\ s2["suppressed"] = s1["suppressed"] /\ s2["avoided"] = s1["avoided"]
      /\ s1["filtered_pending"] \subseteq s2["filtered_pending"]
  BY <1>2, <1>5 DEF W!gate_cold_promotion, W!Sections, W!SentSections
<1>7. \A x \in W!Sections : s2[x] \subseteq s3[x]
  BY <1>3 DEF W!carry
<1>8. W!Keys(W!dedup_cross_account(s3["inbox_pending"])) = W!Keys(s3["inbox_pending"])
  BY DEF W!Keys, W!dedup_cross_account
<1>9. e \in s3["inbox_pending"] => e.key \in W!Keys(F["inbox_pending"])
  BY <1>4, <1>8 DEF W!Keys, W!Sections, W!SentSections, W!Surfaced
<1>10. /\ F["suppressed"] = s3["suppressed"] /\ F["avoided"] = s3["avoided"]
       /\ F["filtered_pending"] = s3["filtered_pending"]
  BY <1>4 DEF W!Sections, W!SentSections, W!Surfaced
<1>11. {"inbox_pending", "suppressed", "avoided", "filtered_pending"} \subseteq W!Sections
  BY DEF W!Sections
<1> QED
  BY <1>4, <1>5, <1>6, <1>7, <1>9, <1>10, <1>11

LEMMA ScanFinal == ASSUME ScanInv, NEW degraded, W!_finalize(degraded) PROVE ScanInv'
<1>1. PICK F : F = W!finalized(sec, degraded)
  OBVIOUS
<1>2. sec' = F /\ at = "finalize" /\ at' = "attach" /\ UNCHANGED <<threads, done, mode, unread>>
  BY <1>1 DEF W!_finalize, W!mail
<1>3. F = [s \in W!Sections |-> F[s]]
  BY <1>1, FinalizedKeeps DEF ScanInv
<1>4. ASSUME Scanning, NEW t \in threads, Waiting(t)
      PROVE  /\ \E s \in W!Sections : t.key \in W!Keys(F[s])
             /\ t.who = "critical" /\ t.key \notin done => t.key \in W!Keys(F["inbox_pending"])
  <2>1. PICK e : e = W!Entry(t)
    OBVIOUS
  <2>2. e.key = t.key
    BY <2>1 DEF W!Entry
  <2>3. /\ e \in sec["inbox_pending"] \/ e \in sec["avoided"] \/ e \in sec["filtered_pending"]
        /\ t.who = "critical" => e \in sec["inbox_pending"]
    BY <1>2, <1>4, <2>1 DEF ScanInv, Followed, In
  <2>4. /\ e \in sec["inbox_pending"] => \/ e.key \in W!Keys(F["inbox_pending"])
                                         \/ e.key \in done /\ e \in F["suppressed"]
        /\ e \in sec["avoided"] => e \in F["avoided"]
        /\ e \in sec["filtered_pending"] => e \in F["filtered_pending"]
    BY <1>1, FinalizedKeeps DEF ScanInv
  <2> QED
    BY <2>2, <2>3, <2>4 DEF W!Keys, W!Sections
<1>5. Accounted'
  <2> SUFFICES ASSUME Scanning, NEW t \in threads, Waiting(t)
      PROVE  /\ t.key \in UNION {W!Keys(F[s]) : s \in W!Sections}
             /\ t.who = "critical" /\ t.key \notin done => t.key \in UNION {W!Keys(F[s]) : s \in {"waiting_on_user", "inbox_pending"}}
    BY <1>2 DEF Accounted, W!Accounted, W!Fresh, W!ReadWell, Scanning, Waiting, W!Where, W!Keys, W!Sections, W!Pending,
                W!OutlookPending, W!GmailPending, W!Noise, W!SentSections
  <2> QED
    BY <1>4
<1>6. (Scanning => \A t \in threads : Waiting(t) => Followed(t))'
  BY <1>2 DEF Followed
<1> QED
  BY <1>2, <1>3, <1>5, <1>6 DEF ScanInv, W!Sections, W!SentSections

LEMMA ScanInbox == ASSUME ScanInv, NEW away, NEW passed, W!Inbox(away, passed) PROVE ScanInv'
<1>1. PICK left, found : /\ left = {t \in threads : t.acct \in away} \cup passed
                         /\ found = {e \in W!fetch_inbox(W!SentKnown) : e.t \notin left}
  OBVIOUS
<1>2. /\ at = "inbox" /\ at' = "intake" /\ UNCHANGED <<threads, done, mode>>
      /\ unread' = unread \cup {<<"inbox", t>> : t \in left}
      /\ sec' = [sec EXCEPT !["inbox_pending"] = found]
  BY <1>1 DEF W!Inbox, W!mail
<1>3. ASSUME NEW t \in threads, <<"inbox", t>> \notin unread', W!Pending(t, TRUE) PROVE W!Entry(t) \in found
  <2>1. W!Pending(t, t \in W!SentKnown)
    BY <1>3 DEF W!Pending, W!OutlookPending
  <2>2. t \notin left
    BY <1>2, <1>3
  <2> QED
    BY <1>1, <1>3, <2>1, <2>2 DEF W!fetch_inbox, W!Entry
<1>4. sec'["inbox_pending"] = found /\ sec' = [s \in W!Sections |-> sec'[s]]
  BY <1>2 DEF ScanInv, W!Sections
<1>5. (\A t \in threads : Waiting(t) => Followed(t))'
  BY <1>2, <1>3, <1>4 DEF Waiting, Followed, In, W!Entry, W!Pending, W!OutlookPending, W!GmailPending, W!Noise
<1>6. Accounted'
  BY <1>2 DEF Accounted, W!Accounted
<1> QED
  BY <1>2, <1>4, <1>5, <1>6 DEF ScanInv, W!Sections, W!SentSections

(* A partner is no stranger: the gate holds none of theirs back.            *)
LEMMA ScanIntake == ASSUME ScanInv, NEW answers \in BOOLEAN, W!_run_intake_gate(answers) PROVE ScanInv'
<1>1. PICK lures : lures = IF answers THEN {e \in sec["inbox_pending"] : W!Held(e)} ELSE {}
  OBVIOUS
<1>2. /\ at = "intake" /\ at' = "classify" /\ UNCHANGED <<threads, done, mode, unread>>
      /\ sec' = [sec EXCEPT !["inbox_pending"] = sec["inbox_pending"] \ lures, !["avoided"] = lures]
  BY <1>1 DEF W!_run_intake_gate, W!mail
<1>3. /\ sec'["inbox_pending"] = sec["inbox_pending"] \ lures /\ sec'["avoided"] = lures
      /\ sec' = [s \in W!Sections |-> sec'[s]]
  BY <1>2 DEF ScanInv, W!Sections, W!SentSections
<1>4. ASSUME NEW t, t.who = "critical" PROVE W!Entry(t) \notin lures
  BY <1>1, <1>4 DEF W!Held, W!is_known, W!Entry
<1>5. ASSUME Scanning, NEW t \in threads, Waiting(t)
      PROVE  W!Entry(t) \in sec'["inbox_pending"] \/ (t.who # "critical" /\ W!Entry(t) \in sec'["avoided"])
  <2>1. W!Entry(t) \in sec["inbox_pending"]
    BY <1>2, <1>5 DEF ScanInv, Followed, In
  <2> QED
    BY <1>3, <1>4, <2>1
<1>6. (Scanning => \A t \in threads : Waiting(t) => Followed(t))'
  BY <1>2, <1>5 DEF Scanning, Waiting, Followed, In, W!Entry, W!Pending, W!OutlookPending, W!GmailPending, W!Noise
<1>7. Accounted'
  BY <1>2 DEF Accounted, W!Accounted
<1> QED
  BY <1>2, <1>3, <1>6, <1>7 DEF ScanInv, W!Sections, W!SentSections

LEMMA ScanClassify == ASSUME ScanInv, NEW answers \in BOOLEAN, W!classify_threads(answers) PROVE ScanInv'
<1>1. PICK waits, out : /\ waits = IF answers THEN {e \in sec["waiting_on_user"] : W!Suppressible(e)} ELSE {}
                        /\ out = IF answers THEN {e \in sec["inbox_pending"] : W!Suppressible(e)} ELSE {}
  OBVIOUS
<1>2. /\ at = "classify" /\ at' = "finalize" /\ UNCHANGED <<threads, done, mode, unread>>
      /\ sec' = [sec EXCEPT !["waiting_on_user"] = sec["waiting_on_user"] \ waits,
                            !["inbox_pending"] = sec["inbox_pending"] \ out, !["filtered_pending"] = out]
  BY <1>1 DEF W!classify_threads, W!mail
<1>3. /\ sec'["inbox_pending"] = sec["inbox_pending"] \ out /\ sec'["filtered_pending"] = out
      /\ sec'["avoided"] = sec["avoided"] /\ sec' = [s \in W!Sections |-> sec'[s]]
  BY <1>2 DEF ScanInv, W!Sections, W!SentSections
<1>4. ASSUME NEW t, t.who = "critical" PROVE W!Entry(t) \notin out
  BY <1>1, <1>4 DEF W!Suppressible, W!Entry
<1>5. ASSUME Scanning, NEW t \in threads, Waiting(t)
      PROVE  /\ \/ W!Entry(t) \in sec'["inbox_pending"] \/ W!Entry(t) \in sec'["avoided"]
                \/ W!Entry(t) \in sec'["filtered_pending"]
             /\ t.who = "critical" => W!Entry(t) \in sec'["inbox_pending"]
  <2>1. /\ W!Entry(t) \in sec["inbox_pending"] \/ W!Entry(t) \in sec["avoided"]
        /\ t.who = "critical" => W!Entry(t) \in sec["inbox_pending"]
    BY <1>2, <1>5 DEF ScanInv, Followed, In
  <2> QED
    BY <1>3, <1>4, <2>1
<1>6. (Scanning => \A t \in threads : Waiting(t) => Followed(t))'
  BY <1>2, <1>5 DEF Scanning, Waiting, Followed, In, W!Entry, W!Pending, W!OutlookPending, W!GmailPending, W!Noise
<1>7. Accounted'
  BY <1>2 DEF Accounted, W!Accounted
<1> QED
  BY <1>2, <1>3, <1>6, <1>7 DEF ScanInv, W!Sections, W!SentSections

(* The steps that begin or end a run, or write what it found.               *)
Resting == {"idle", "deals", "inbox", "reuse", "tier2", "sidecar", "snapshot", "print", "commit"}
LEMMA ScanRests ==
  ASSUME ScanInv, sec' = [s \in W!Sections |-> sec'[s]], at' \in Resting, at' \in {"reuse", "tier2"} => mode' = at'
  PROVE  ScanInv'
<1>1. Accounted'
  BY DEF Accounted, W!Accounted, Resting
<1>2. (\A t \in threads : Waiting(t) => Followed(t))'
  BY DEF Followed, Resting
<1> QED
  BY <1>1, <1>2 DEF ScanInv, W!Sections, W!SentSections

LEMMA ScanOthers ==
  ASSUME ScanInv,
         \/ \E m \in Modes : W!Start(m)
         \/ \E away, unseen, passed : W!Deals(away, unseen, passed)
         \/ W!_attach_intake_and_closed \/ (\E fails : W!Sidecar(fails))
         \/ W!_write_saved_scan \/ W!Prints \/ W!Commit \/ W!Die
  PROVE  ScanInv'
<1>1. CASE \E m \in Modes : W!Start(m)
  <2>1. sec' = sec /\ at' \in Resting /\ (at' \in {"reuse", "tier2"} => mode' = at')
    BY <1>1 DEF W!Start, Resting
  <2> QED
    BY <2>1, ScanRests DEF ScanInv
<1>2. CASE \E away, unseen, passed : W!Deals(away, unseen, passed)
  <2>1. PICK away, unseen, passed : W!Deals(away, unseen, passed)
    BY <1>2
  <2>2. at' = "inbox" /\ sec' = [s \in W!Sections |-> sec'[s]]
    BY <2>1 DEF W!Deals
  <2> QED
    BY <2>2, ScanRests DEF Resting
<1>3. CASE W!_attach_intake_and_closed
  <2>1. at' = "sidecar" /\ sec' = [s \in W!Sections |-> sec'[s]]
    BY <1>3 DEF W!_attach_intake_and_closed, ScanInv
  <2> QED
    BY <2>1, ScanRests DEF Resting
<1>4. CASE (\E fails : W!Sidecar(fails)) \/ W!_write_saved_scan \/ W!Prints
  <2>1. sec' = sec /\ at' \in Resting \ {"reuse", "tier2"}
    BY <1>4 DEF W!Sidecar, W!_write_saved_scan, W!Prints, Resting
  <2> QED
    BY <2>1, ScanRests DEF ScanInv
<1>5. CASE W!Commit \/ W!Die
  <2>1. sec' = W!Empty /\ at' \in Resting \ {"reuse", "tier2"}
    BY <1>5 DEF W!Commit, W!Die, W!Ends, Resting
  <2>2. sec' = [s \in W!Sections |-> sec'[s]]
    BY <2>1 DEF W!Empty
  <2> QED
    BY <2>1, <2>2, ScanRests
<1> QED
  BY <1>1, <1>2, <1>3, <1>4, <1>5

(* A briefing from the saved scan, or from the connectors, is another mode. *)
LEMMA ScanElsewhere == ASSUME ScanInv, W!_run_reuse_scan \/ W!_run_tier2 PROVE ScanInv'
<1>1. mode \in {"reuse", "tier2"} /\ UNCHANGED mode /\ at' = "finalize"
  BY DEF ScanInv, W!_run_reuse_scan, W!_run_tier2
<1>2. sec' = [s \in W!Sections |-> sec'[s]]
  BY DEF W!_run_reuse_scan, W!window_sections, W!_run_tier2
<1>3. Accounted' /\ ~ Scanning'
  BY <1>1 DEF Accounted, W!Accounted, Scanning
<1> QED
  BY <1>1, <1>2, <1>3 DEF ScanInv, W!Sections, W!SentSections

LEMMA ScanStep == ASSUME ScanInv, W!Next PROVE ScanInv'
BY ScanInbox, ScanIntake, ScanClassify, ScanFinal, ScanOthers, ScanElsewhere DEF W!Next

LEMMA ScanUntouched == ASSUME ScanInv, UNCHANGED week PROVE ScanInv'
BY DEF week, ScanInv, Accounted, W!Accounted, W!Fresh, W!Out, W!ReadWell, W!Where, W!Keys, W!Sections, W!SentSections,
       W!Pending, W!OutlookPending, W!GmailPending, W!Noise, Scanning, Waiting, Followed, In, W!Entry

(* Accounted: for any threads, done log, lines of last week, windows, modes *)
(* and faults, limits of listings and threads passed over among them: where *)
(* a scan hands over its sections, each thread that waits for the user and  *)
(* was read from an inbox is in one of them or was marked done, and a       *)
(* partner's is surfaced (classify_threads, _run_intake_gate, _finalize).   *)
THEOREM AccountedAlways == MailsSpec => []Accounted
<1>1. MailsInit => ScanInv
  <2> SUFFICES ASSUME MailsInit PROVE ScanInv
    OBVIOUS
  <2>1. at = "idle" /\ sec = W!Empty
    BY DEF MailsInit, ScanStill, W!Init, W!Idle
  <2> QED
    BY <2>1 DEF ScanInv, W!Empty, Followed, Accounted, W!Accounted
<1>2. ScanInv /\ [MailsNext]_all => ScanInv'
  <2> SUFFICES ASSUME ScanInv, [MailsNext]_all PROVE ScanInv'
    OBVIOUS
  <2>1. W!Next \/ UNCHANGED week
    BY DEF MailsNext, all
  <2> QED
    BY <2>1, ScanStep, ScanUntouched
<1>3. ScanInv => Accounted
  BY DEF ScanInv
<1> QED
  BY <1>1, <1>2, <1>3, PTL DEF MailsSpec

-----------------------------------------------------------------------------
(* The page a briefing opens on.                                            *)
(*                                                                           *)
(* A set of whole numbers that is not empty has a least member.             *)
Below == {ss \in Nat \X Nat : ss[1] < ss[2]}
LEMMA BelowWF == IsWellFoundedOn(Below, Nat)
  BY NatLessThanWellFounded DEF OpToRel, Below
LEMMA LeastNat ==
  ASSUME NEW T, T \subseteq Nat, T # {}
  PROVE  \E x \in T : \A y \in T : x <= y
<1>2. \E x \in T : \A y \in T : ~ (<<y, x>> \in Below)
  BY BelowWF, WFMin
<1>3. PICK x \in T : \A y \in T : ~ (<<y, x>> \in Below)
  BY <1>2
<1>4. ASSUME NEW y \in T PROVE x <= y
  <2>1. x \in Nat /\ y \in Nat
    OBVIOUS
  <2>2. ~ (y < x)
    BY <1>3, <2>1 DEF Below
  <2> QED
    BY <2>1, <2>2
<1> QED
  BY <1>4

(* Before compares two ranks at their first difference: a strict order, and *)
(* one that decides between any two that differ where both have a place.    *)
LEMMA BeforeBack ==
  ASSUME NEW a \in Seq(Int), NEW b \in Seq(Int), P!Before(a, b)
  PROVE  ~ P!Before(b, a)
<1>1. PICK i \in DOMAIN a \cap DOMAIN b : a[i] < b[i] /\ \A j \in 1 .. (i - 1) : a[j] = b[j]
  BY DEF P!Before
<1>2. SUFFICES ASSUME P!Before(b, a) PROVE FALSE
  OBVIOUS
<1>3. PICK k \in DOMAIN a \cap DOMAIN b : b[k] < a[k] /\ \A j \in 1 .. (k - 1) : b[j] = a[j]
  BY <1>2 DEF P!Before
<1>4. i \in Int /\ k \in Int /\ i >= 1 /\ k >= 1 /\ a[i] \in Int /\ b[i] \in Int /\ a[k] \in Int /\ b[k] \in Int
  OBVIOUS
<1>5. i < k \/ i = k \/ k < i
  BY <1>4
<1> QED
  BY <1>1, <1>3, <1>4, <1>5

LEMMA BeforeOn ==
  ASSUME NEW a \in Seq(Int), NEW b \in Seq(Int), NEW c \in Seq(Int), P!Before(a, b), P!Before(b, c)
  PROVE  P!Before(a, c)
<1>1. PICK i \in DOMAIN a \cap DOMAIN b : a[i] < b[i] /\ \A j \in 1 .. (i - 1) : a[j] = b[j]
  BY DEF P!Before
<1>2. PICK k \in DOMAIN b \cap DOMAIN c : b[k] < c[k] /\ \A j \in 1 .. (k - 1) : b[j] = c[j]
  BY DEF P!Before
<1>3. /\ i \in Int /\ k \in Int /\ i >= 1 /\ k >= 1
      /\ DOMAIN a = 1 .. Len(a) /\ DOMAIN b = 1 .. Len(b) /\ DOMAIN c = 1 .. Len(c)
      /\ Len(a) \in Nat /\ Len(b) \in Nat /\ Len(c) \in Nat
  OBVIOUS
<1>4. CASE i < k
  <2>1. i \in DOMAIN c /\ i \in 1 .. (k - 1) /\ \A j \in 1 .. (i - 1) : j \in 1 .. (k - 1)
    BY <1>3, <1>4
  <2>2. a[i] < c[i] /\ \A j \in 1 .. (i - 1) : a[j] = c[j]
    BY <1>1, <1>2, <2>1
  <2> QED
    BY <2>1, <2>2 DEF P!Before
<1>5. CASE k < i
  <2>1. k \in DOMAIN a /\ k \in 1 .. (i - 1) /\ \A j \in 1 .. (k - 1) : j \in 1 .. (i - 1)
    BY <1>3, <1>5
  <2>2. a[k] < c[k] /\ \A j \in 1 .. (k - 1) : a[j] = c[j]
    BY <1>1, <1>2, <2>1
  <2> QED
    BY <2>1, <2>2 DEF P!Before
<1>6. CASE i = k
  <2>1. a[i] < c[i] /\ \A j \in 1 .. (i - 1) : a[j] = c[j]
    <3>1. a[i] \in Int /\ b[i] \in Int /\ c[i] \in Int
      BY <1>6
    <3> QED
      BY <1>1, <1>2, <1>6, <3>1
  <2> QED
    BY <1>6, <2>1 DEF P!Before
<1> QED
  BY <1>3, <1>4, <1>5, <1>6

LEMMA BeforeEither ==
  ASSUME NEW a \in Seq(Int), NEW b \in Seq(Int), NEW i \in DOMAIN a \cap DOMAIN b, a[i] # b[i]
  PROVE  P!Before(a, b) \/ P!Before(b, a)
<1> DEFINE T == {j \in DOMAIN a \cap DOMAIN b : a[j] # b[j]}
<1>1. T \subseteq Nat /\ T # {}
  OBVIOUS
<1>2. PICK k \in T : \A j \in T : k <= j
  BY <1>1, LeastNat
<1>3. a[k] \in Int /\ b[k] \in Int /\ k \in Nat
  OBVIOUS
<1>4. ASSUME NEW j \in 1 .. (k - 1) PROVE a[j] = b[j]
  <2>1. j \in DOMAIN a \cap DOMAIN b /\ ~ (k <= j)
    BY <1>3
  <2> QED
    BY <1>2, <2>1
<1>5. a[k] < b[k] \/ b[k] < a[k]
  BY <1>2, <1>3
<1> QED
  BY <1>2, <1>4, <1>5 DEF P!Before

(* What InOrder returns: an item is put after as many items as rank before  *)
(* it.  Those counts are all different, so they are 1 to the size of the    *)
(* set, and the list has each item once, in rank order.                     *)
Ordered(S, r) ==
  /\ IsFiniteSet(S)
  /\ \A e \in S : r[e] \in Seq(Int)
  /\ \A d, e \in S : d # e => \E i \in DOMAIN r[d] \cap DOMAIN r[e] : r[d][i] # r[e][i]
Lower(S, r, e) == {x \in S : P!Before(r[x], r[e])}

LEMMA CountsGrow ==
  ASSUME NEW S, NEW r, Ordered(S, r), NEW d \in S, NEW e \in S, P!Before(r[d], r[e])
  PROVE  Cardinality(Lower(S, r, d)) < Cardinality(Lower(S, r, e))
<1> DEFINE D == Lower(S, r, d)
           F == Lower(S, r, e)
<1>1. IsFiniteSet(S) /\ \A x \in S : r[x] \in Seq(Int)
  BY DEF Ordered
<1>2. D \subseteq F
  <2> SUFFICES ASSUME NEW x \in S, P!Before(r[x], r[d]) PROVE P!Before(r[x], r[e])
    BY DEF Lower
  <2> QED
    BY <1>1, BeforeOn
<1>3. d \in F
  BY DEF Lower
<1>4. d \notin D
  BY <1>1, BeforeBack DEF Lower
<1>5. IsFiniteSet(F) /\ F \subseteq S
  <2>1. F \subseteq S
    BY DEF Lower
  <2> QED
    BY <1>1, <2>1, FS_Subset
<1>6. Cardinality(D) <= Cardinality(F) /\ Cardinality(D) # Cardinality(F) /\ IsFiniteSet(D)
  BY <1>2, <1>3, <1>4, <1>5, FS_Subset
<1>7. Cardinality(D) \in Nat /\ Cardinality(F) \in Nat
  BY <1>5, <1>6, FS_CardinalityType
<1> HIDE DEF D, F
<1>8. Cardinality(D) < Cardinality(F)
  BY <1>6, <1>7
<1> QED
  BY <1>8 DEF D, F

LEMMA EitherFirst ==
  ASSUME NEW S, NEW r, Ordered(S, r), NEW d \in S, NEW e \in S, d # e
  PROVE  P!Before(r[d], r[e]) \/ P!Before(r[e], r[d])
BY BeforeEither DEF Ordered

LEMMA CountsPlace ==
  ASSUME NEW S, NEW r, Ordered(S, r)
  PROVE  /\ \A e \in S : Cardinality(Lower(S, r, e)) + 1 \in 1 .. Cardinality(S)
         /\ \A i \in 1 .. Cardinality(S) : \E e \in S : Cardinality(Lower(S, r, e)) = i - 1
         /\ Cardinality(S) \in Nat
<1> DEFINE n == Cardinality(S)
           f == [e \in S |-> Cardinality(Lower(S, r, e)) + 1]
<1>1. IsFiniteSet(S) /\ n \in Nat /\ \A x \in S : r[x] \in Seq(Int)
  BY FS_CardinalityType DEF Ordered
<1>2. ASSUME NEW e \in S
      PROVE  Cardinality(Lower(S, r, e)) \in Nat /\ Cardinality(Lower(S, r, e)) < n
  <2> DEFINE F == Lower(S, r, e)
  <2>1. F \subseteq S /\ e \notin F
    BY <1>1, BeforeBack DEF Lower
  <2>2. IsFiniteSet(F) /\ Cardinality(F) <= n /\ Cardinality(F) # n
    BY <1>1, <2>1, FS_Subset
  <2>3. Cardinality(F) \in Nat
    BY <2>2, FS_CardinalityType
  <2> HIDE DEF F
  <2>4. Cardinality(F) \in Nat /\ Cardinality(F) < n
    BY <1>1, <2>2, <2>3
  <2> QED
    BY <2>4 DEF F
<1>3. f \in [S -> 1 .. n]
  BY <1>1, <1>2
<1>4. ASSUME NEW d \in S, NEW e \in S, d # e PROVE f[d] # f[e]
  <2>1. Cardinality(Lower(S, r, d)) < Cardinality(Lower(S, r, e)) \/
        Cardinality(Lower(S, r, e)) < Cardinality(Lower(S, r, d))
    BY <1>4, EitherFirst, CountsGrow
  <2> QED
    BY <1>2, <2>1
<1>5. f \in Injection(S, 1 .. n)
  BY <1>3, <1>4 DEF Injection, IsInjective
<1>6. IsFiniteSet(1 .. n) /\ Cardinality(1 .. n) = n
  <2>1. 1 \in Int /\ n \in Int
    BY <1>1
  <2>2. IsFiniteSet(1 .. n) /\ Cardinality(1 .. n) = IF 1 > n THEN 0 ELSE n - 1 + 1
    BY <2>1, FS_Interval
  <2> QED
    BY <1>1, <2>2
<1>7. f \in Surjection(S, 1 .. n)
  BY <1>5, <1>6, FS_Injection
<1>8. ASSUME NEW i \in 1 .. n PROVE \E e \in S : Cardinality(Lower(S, r, e)) = i - 1
  <2>1. PICK e \in S : f[e] = i
    BY <1>7 DEF Surjection
  <2> QED
    BY <1>2, <2>1
<1> QED
  BY <1>1, <1>2, <1>8

LEMMA SortedOnce ==
  ASSUME NEW S, NEW r, Ordered(S, r)
  PROVE  LET s == P!InOrder(S, r)
         IN  /\ Cardinality(S) \in Nat
             /\ s \in [1 .. Cardinality(S) -> S]
             /\ \A e \in S : \E i \in 1 .. Cardinality(S) : s[i] = e
             /\ \A i, j \in 1 .. Cardinality(S) : i < j => P!Before(r[s[i]], r[s[j]])
<1> DEFINE s == P!InOrder(S, r)
           n == Cardinality(S)
<1>1. n \in Nat
  BY CountsPlace
<1>2. P!Cardinality(S) = n /\ \A e \in S : P!Cardinality({x \in S : P!Before(r[x], r[e])}) = Cardinality(Lower(S, r, e))
  BY DEF P!Cardinality, Cardinality, Lower
<1>3. s = [i \in 1 .. n |-> CHOOSE e \in S : P!Cardinality({x \in S : P!Before(r[x], r[e])}) = i - 1]
  BY <1>2 DEF P!InOrder
<1>4. ASSUME NEW i \in 1 .. n PROVE s[i] \in S /\ Cardinality(Lower(S, r, s[i])) = i - 1
  <2>1. \E e \in S : P!Cardinality({x \in S : P!Before(r[x], r[e])}) = i - 1
    BY <1>2, CountsPlace
  <2>2. s[i] \in S /\ P!Cardinality({x \in S : P!Before(r[x], r[s[i]])}) = i - 1
    BY <1>3, <2>1
  <2> QED
    BY <1>2, <2>2
<1>5. s \in [1 .. n -> S]
  BY <1>3, <1>4
<1>6. ASSUME NEW e \in S PROVE \E i \in 1 .. n : s[i] = e
  <2> DEFINE k == Cardinality(Lower(S, r, e)) + 1
  <2>1. k \in 1 .. n
    BY CountsPlace
  <2>2. Cardinality(Lower(S, r, s[k])) = Cardinality(Lower(S, r, e)) /\ s[k] \in S
    <3>1. Cardinality(Lower(S, r, e)) \in Int
      BY CountsPlace, FS_Subset, FS_CardinalityType DEF Ordered, Lower
    <3> QED
      BY <1>4, <2>1, <3>1
  <2>3. s[k] = e
    <3> SUFFICES ASSUME s[k] # e PROVE FALSE
      OBVIOUS
    <3>1. Cardinality(Lower(S, r, s[k])) < Cardinality(Lower(S, r, e)) \/
          Cardinality(Lower(S, r, e)) < Cardinality(Lower(S, r, s[k]))
      BY <2>2, EitherFirst, CountsGrow
    <3>2. Cardinality(Lower(S, r, e)) \in Int
      BY CountsPlace, FS_Subset, FS_CardinalityType DEF Ordered, Lower
    <3> QED
      BY <2>2, <3>1, <3>2
  <2> QED
    BY <2>1, <2>3
<1>7. ASSUME NEW i \in 1 .. n, NEW j \in 1 .. n, i < j PROVE P!Before(r[s[i]], r[s[j]])
  <2>1. s[i] # s[j]
    BY <1>4, <1>7
  <2>2. ~ P!Before(r[s[j]], r[s[i]])
    <3>1. ~ (j - 1 < i - 1)
      BY <1>7
    <3> QED
      BY <1>4, <3>1, CountsGrow
  <2> QED
    BY <1>4, <2>1, <2>2, EitherFirst
<1> QED
  BY <1>1, <1>5, <1>6, <1>7

LEMMA FirstIsNumber ==
  ASSUME NEW T, T \subseteq Nat
  PROVE  P!FirstOf(T) \in Nat
<1>1. CASE T = {}
  BY <1>1 DEF P!FirstOf
<1>2. CASE T # {}
  <2>1. \E x \in T : \A y \in T : x <= y
    BY <1>2, LeastNat
  <2>2. P!FirstOf(T) = CHOOSE x \in T : \A y \in T : x <= y
    BY <1>2 DEF P!FirstOf
  <2>3. P!FirstOf(T) \in T
    BY <2>1, <2>2
  <2> QED
    BY <2>3
<1> QED
  BY <1>1, <1>2

LEMMA BucketIsNumber ==
  ASSUME NEW e
  PROVE  P!assign_bucket(e) \in Int
<1> DEFINE keyed == P!FirstOf({i \in DOMAIN Businesses : Businesses[i].keywords \cap e.words # {}})
           cared == P!FirstOf({i \in DOMAIN Businesses : P!match_priority(e, Businesses[i].prios) # 0})
<1>1. Businesses \in Seq(P!Range(Businesses))
  BY PageAssumption
<1>2. DOMAIN Businesses = 1 .. Len(Businesses) /\ Len(Businesses) \in Nat
  BY <1>1
<1>3. keyed \in Nat /\ cared \in Nat
  BY <1>2, FirstIsNumber
<1>4. Len(P!Tags) \in Nat
  <2> DEFINE ts == [i \in DOMAIN Businesses |-> Businesses[i].tag]
  <2>1. ts \in Seq({Businesses[i].tag : i \in DOMAIN Businesses} \cup {Unassigned})
    BY <1>2
  <2>2. Append(ts, Unassigned) \in Seq({Businesses[i].tag : i \in DOMAIN Businesses} \cup {Unassigned})
    BY <2>1, AppendProperties
  <2>3. P!Tags = Append(ts, Unassigned)
    BY DEF P!Tags
  <2> QED
    BY <2>2, <2>3, LenProperties
<1> HIDE DEF keyed, cared
<1>5. P!assign_bucket(e) = IF keyed # 0 THEN keyed ELSE IF cared # 0 THEN cared ELSE Len(P!Tags)
  BY DEF P!assign_bucket, keyed, cared
<1> QED
  BY <1>3, <1>4, <1>5

LEMMA SectionIsPlace ==
  ASSUME NEW e \in Pool
  PROVE  P!SectionAt(e) \in 1 .. 4 /\ P!Sections[P!SectionAt(e)] = e.section
<1>1. \E i \in DOMAIN P!Sections : P!Sections[i] = e.section
  BY PageAssumption
<1>2. DOMAIN P!Sections = 1 .. 4
  BY DEF P!Sections
<1> QED
  BY <1>1, <1>2 DEF P!SectionAt

LEMMA TierIsNumber ==
  ASSUME NEW e \in Pool
  PROVE  P!Tier(e) \in 0 .. 4 /\ (P!Tier(e) = 0 <=> e.late > 0)
<1>1. e.late \in Nat /\ e.due \in Int
  BY PageAssumption
<1>2. CASE e.late > 0
  BY <1>1, <1>2 DEF P!Tier
<1>3. CASE e.late = 0
  BY <1>1, <1>3 DEF P!Tier, P!DueSoon
<1> QED
  BY <1>1, <1>2, <1>3

(* A rank ends with the place an item comes in, after as many numbers as its*)
(* tier compares: two open items differ in tier, or their ranks are equally *)
(* long and differ in the place.                                            *)
LEMMA AddPlace ==
  ASSUME NEW s \in Seq(Int), NEW u \in Int, NEW v \in Int, NEW w \in Int
  PROVE  LET z == s \o <<u, v, w>>
         IN  /\ z \in Seq(Int) /\ Len(z) = Len(s) + 3
             /\ \A i \in 1 .. Len(s) : z[i] = s[i]
             /\ z[Len(s) + 1] = u /\ z[Len(s) + 2] = v /\ z[Len(s) + 3] = w
<1> DEFINE t == <<u, v, w>>
<1>1. t \in Seq(Int) /\ Len(t) = 3 /\ t[1] = u /\ t[2] = v /\ t[3] = w
  OBVIOUS
<1> HIDE DEF t
<1>2. /\ s \o t \in Seq(Int) /\ Len(s \o t) = Len(s) + Len(t)
      /\ \A i \in 1 .. Len(s) + Len(t) : (s \o t)[i] = IF i <= Len(s) THEN s[i] ELSE t[i - Len(s)]
  BY <1>1, ConcatProperties
<1>3. Len(s) \in Nat
  BY LenProperties
<1>4. (s \o t)[Len(s) + 1] = u /\ (s \o t)[Len(s) + 2] = v /\ (s \o t)[Len(s) + 3] = w
  BY <1>1, <1>2, <1>3
<1>5. \A i \in 1 .. Len(s) : (s \o t)[i] = s[i]
  BY <1>1, <1>2, <1>3
<1> QED
  BY <1>1, <1>2, <1>4, <1>5 DEF t

LEMMA TwoAnd ==
  ASSUME NEW a \in Int, NEW b \in Int, NEW s \in Seq(Int)
  PROVE  LET z == <<a, b>> \o s IN z \in Seq(Int) /\ Len(z) = Len(s) + 2 /\ z[1] = a
<1> DEFINE t == <<a, b>>
<1>1. t \in Seq(Int) /\ Len(t) = 2 /\ t[1] = a
  OBVIOUS
<1> HIDE DEF t
<1>2. /\ t \o s \in Seq(Int) /\ Len(t \o s) = Len(t) + Len(s)
      /\ \A i \in 1 .. Len(t) + Len(s) : (t \o s)[i] = IF i <= Len(t) THEN t[i] ELSE s[i - Len(t)]
  BY <1>1, ConcatProperties
<1>3. Len(s) \in Nat
  BY LenProperties
<1>4. Len(t \o s) = Len(s) + 2 /\ (t \o s)[1] = a
  BY <1>1, <1>2, <1>3
<1> QED
  BY <1>2, <1>4 DEF t

RankLen(e) == IF P!Tier(e) = 0 \/ P!Tier(e) = 1 THEN 3 ELSE 4

LEMMA PlaceOf ==
  ASSUME NEW e \in Pool
  PROVE  /\ P!Place(e) = <<e.key, P!assign_bucket(e), P!SectionAt(e)>>
         /\ e.key \in Int /\ P!assign_bucket(e) \in Int /\ P!SectionAt(e) \in Int
BY PageAssumption, BucketIsNumber, SectionIsPlace DEF P!Place

LEMMA RankShape ==
  ASSUME NEW e \in Pool
  PROVE  /\ P!Rank(e) \in Seq(Int) /\ Len(P!Rank(e)) = RankLen(e) + 3
         /\ P!Rank(e)[1] = P!Tier(e)
         /\ P!Rank(e)[RankLen(e) + 1] = e.key /\ P!Rank(e)[RankLen(e) + 3] = P!SectionAt(e)
<1> DEFINE mid == CASE P!Tier(e) = 0 -> <<-e.late>>
                    [] P!Tier(e) = 1 -> <<e.due>>
                    [] OTHER -> <<P!_cost_rank(e), -e.age>>
           s == <<P!Tier(e), P!Dead(e)>> \o mid
<1>1. e.late \in Int /\ e.due \in Int /\ e.age \in Int /\ -e.late \in Int /\ -e.age \in Int
  BY PageAssumption
<1>2. P!_cost_rank(e) \in Int /\ P!Dead(e) \in Int /\ P!Tier(e) \in Int
  BY TierIsNumber DEF P!_cost_rank, P!Dead
<1>3. mid \in Seq(Int) /\ Len(mid) = RankLen(e) - 2
  <2>1. CASE P!Tier(e) = 0
    BY <2>1, <1>1 DEF RankLen
  <2>2. CASE P!Tier(e) = 1
    BY <2>2, <1>1 DEF RankLen
  <2>3. CASE ~ (P!Tier(e) = 0 \/ P!Tier(e) = 1)
    <3>1. mid = <<P!_cost_rank(e), -e.age>>
      BY <2>3
    <3> QED
      BY <2>3, <1>1, <1>2, <3>1 DEF RankLen
  <2> QED
    BY <2>1, <2>2, <2>3
<1>4. P!Rank(e) = s \o P!Place(e)
  BY DEF P!Rank
<1> HIDE DEF mid
<1>5. s \in Seq(Int) /\ Len(s) = RankLen(e) /\ s[1] = P!Tier(e)
  <2>1. s \in Seq(Int) /\ Len(s) = Len(mid) + 2 /\ s[1] = P!Tier(e)
    BY <1>2, <1>3, TwoAnd
  <2> QED
    BY <1>3, <2>1 DEF RankLen
<1> HIDE DEF s
<1>6. /\ s \o P!Place(e) \in Seq(Int) /\ Len(s \o P!Place(e)) = Len(s) + 3
      /\ \A i \in 1 .. Len(s) : (s \o P!Place(e))[i] = s[i]
      /\ (s \o P!Place(e))[Len(s) + 1] = e.key /\ (s \o P!Place(e))[Len(s) + 3] = P!SectionAt(e)
  <2> DEFINE t == <<e.key, P!assign_bucket(e), P!SectionAt(e)>>
  <2>1. e.key \in Int /\ P!assign_bucket(e) \in Int /\ P!SectionAt(e) \in Int /\ P!Place(e) = t
    BY PlaceOf
  <2>2. /\ s \o t \in Seq(Int) /\ Len(s \o t) = Len(s) + 3
        /\ \A i \in 1 .. Len(s) : (s \o t)[i] = s[i]
        /\ (s \o t)[Len(s) + 1] = e.key /\ (s \o t)[Len(s) + 3] = P!SectionAt(e)
    BY <1>5, <2>1, AddPlace
  <2> HIDE DEF t
  <2> QED
    BY <2>1, <2>2
<1>7. 1 \in 1 .. Len(s)
  BY <1>5 DEF RankLen
<1> QED
  BY <1>4, <1>5, <1>6, <1>7

LEMMA QuietShape ==
  ASSUME NEW e \in Pool
  PROVE  /\ P!QuietRank(e) \in Seq(Int) /\ Len(P!QuietRank(e)) = 5
         /\ P!QuietRank(e)[3] = e.key /\ P!QuietRank(e)[5] = P!SectionAt(e)
<1> DEFINE s == <<P!_cost_rank(e), -e.age>>
<1>1. P!_cost_rank(e) \in Int /\ -e.age \in Int
  BY PageAssumption DEF P!_cost_rank
<1>2. s \in Seq(Int) /\ Len(s) = 2
  BY <1>1
<1>3. P!QuietRank(e) = s \o P!Place(e)
  BY DEF P!QuietRank
<1> HIDE DEF s
<1>4. /\ s \o P!Place(e) \in Seq(Int) /\ Len(s \o P!Place(e)) = Len(s) + 3
      /\ (s \o P!Place(e))[Len(s) + 1] = e.key /\ (s \o P!Place(e))[Len(s) + 3] = P!SectionAt(e)
  <2> DEFINE t == <<e.key, P!assign_bucket(e), P!SectionAt(e)>>
  <2>0. s \in Seq(Int)
    BY <1>2
  <2>1. e.key \in Int /\ P!assign_bucket(e) \in Int /\ P!SectionAt(e) \in Int /\ P!Place(e) = t
    BY PlaceOf
  <2>2. /\ s \o t \in Seq(Int) /\ Len(s \o t) = Len(s) + 3
        /\ \A i \in 1 .. Len(s) : (s \o t)[i] = s[i]
        /\ (s \o t)[Len(s) + 1] = e.key /\ (s \o t)[Len(s) + 3] = P!SectionAt(e)
    BY <2>0, <2>1, AddPlace
  <2> HIDE DEF t
  <2> QED
    BY <2>1, <2>2
<1> QED
  BY <1>2, <1>3, <1>4

LEMMA PlacesDiffer ==
  ASSUME NEW d \in Pool, NEW e \in Pool, d # e
  PROVE  d.key # e.key \/ P!SectionAt(d) # P!SectionAt(e)
<1>1. P!SectionAt(d) = P!SectionAt(e) => d.section = e.section
  BY SectionIsPlace
<1> QED
  BY <1>1, PageAssumption

LEMMA InDomain ==
  ASSUME NEW s \in Seq(Int), NEW i \in Int, i >= 1, i <= Len(s)
  PROVE  i \in DOMAIN s
OBVIOUS

LEMMA RanksDiffer ==
  ASSUME NEW d \in Pool, NEW e \in Pool, d # e
  PROVE  \E i \in DOMAIN P!Rank(d) \cap DOMAIN P!Rank(e) : P!Rank(d)[i] # P!Rank(e)[i]
<1>1. CASE P!Tier(d) # P!Tier(e)
  <2>1. 1 \in DOMAIN P!Rank(d) /\ 1 \in DOMAIN P!Rank(e)
    BY RankShape, InDomain DEF RankLen
  <2> QED
    BY <1>1, <2>1, RankShape
<1>2. CASE P!Tier(d) = P!Tier(e)
  <2> DEFINE m == RankLen(d)
  <2>1. RankLen(e) = m /\ m \in 3 .. 4
    BY <1>2 DEF RankLen
  <2>2. /\ m + 1 \in DOMAIN P!Rank(d) /\ m + 1 \in DOMAIN P!Rank(e)
        /\ m + 3 \in DOMAIN P!Rank(d) /\ m + 3 \in DOMAIN P!Rank(e)
    <3>1. m + 1 \in Int /\ m + 3 \in Int /\ m + 1 >= 1 /\ m + 3 >= 1 /\ m + 1 <= m + 3 /\ m + 3 <= m + 3
      BY <2>1
    <3> QED
      BY <2>1, <3>1, RankShape, InDomain
  <2>3. /\ P!Rank(d)[m + 1] = d.key /\ P!Rank(d)[m + 3] = P!SectionAt(d)
        /\ P!Rank(e)[m + 1] = e.key /\ P!Rank(e)[m + 3] = P!SectionAt(e)
    BY <2>1, RankShape
  <2>4. d.key # e.key \/ P!SectionAt(d) # P!SectionAt(e)
    BY PlacesDiffer
  <2> HIDE DEF m
  <2> QED
    BY <2>2, <2>3, <2>4
<1> QED
  BY <1>1, <1>2

LEMMA RanksOrder ==
  ASSUME NEW S, S \subseteq open, open \subseteq Pool
  PROVE  Ordered(S, P!Ranks)
<1>1. IsFiniteSet(S)
  BY PageAssumption, FS_Subset
<1>2. \A e \in S : P!Ranks[e] = P!Rank(e) /\ e \in Pool
  BY DEF P!Ranks
<1>3. \A e \in S : P!Ranks[e] \in Seq(Int)
  BY <1>2, RankShape
<1>4. \A d, e \in S : d # e => \E i \in DOMAIN P!Ranks[d] \cap DOMAIN P!Ranks[e] : P!Ranks[d][i] # P!Ranks[e][i]
  BY <1>2, RanksDiffer
<1> QED
  BY <1>1, <1>3, <1>4 DEF Ordered

LEMMA QuietOrder ==
  ASSUME NEW S, S \subseteq open, open \subseteq Pool
  PROVE  Ordered(S, P!QuietRanks)
<1>1. IsFiniteSet(S)
  BY PageAssumption, FS_Subset
<1>2. \A e \in S : P!QuietRanks[e] = P!QuietRank(e) /\ e \in Pool
  BY DEF P!QuietRanks
<1>3. \A e \in S : P!QuietRanks[e] \in Seq(Int)
  BY <1>2, QuietShape
<1>4. \A d, e \in S : d # e => \E i \in DOMAIN P!QuietRanks[d] \cap DOMAIN P!QuietRanks[e] :
                                   P!QuietRanks[d][i] # P!QuietRanks[e][i]
  <2> SUFFICES ASSUME NEW d \in S, NEW e \in S, d # e
               PROVE  \E i \in DOMAIN P!QuietRank(d) \cap DOMAIN P!QuietRank(e) : P!QuietRank(d)[i] # P!QuietRank(e)[i]
    BY <1>2
  <2>1. /\ 3 \in DOMAIN P!QuietRank(d) /\ 3 \in DOMAIN P!QuietRank(e)
        /\ 5 \in DOMAIN P!QuietRank(d) /\ 5 \in DOMAIN P!QuietRank(e)
    BY <1>2, QuietShape, InDomain
  <2>2. d.key # e.key \/ P!SectionAt(d) # P!SectionAt(e)
    BY <1>2, PlacesDiffer
  <2> QED
    BY <1>2, <2>1, <2>2, QuietShape
<1> QED
  BY <1>1, <1>3, <1>4 DEF Ordered

(* The parts of the page: what is late, what else is not stale, what goes   *)
(* quiet, and how many of the others there is room for.                     *)
Shown == {e \in open : ~P!is_stale_item(e)}
Tardy == {e \in Shown : P!Tier(e) = 0}
Others == Shown \ Tardy
Hushed == {e \in open \ Shown : e.decaying /\ ~e.dead}
Room == IF Cardinality(Tardy) < P!cap THEN P!cap - Cardinality(Tardy) ELSE 0
Wanted == Hushed # {} /\ Room > 0
Places == IF Wanted THEN Room - 1 ELSE Room
Taken == IF Places < Cardinality(Others) THEN Places ELSE Cardinality(Others)
Firsts == P!InOrder(Tardy, P!Ranks)
Nexts == P!InOrder(Others, P!Ranks)
Hush == P!InOrder(Hushed, P!QuietRanks)

LEMMA CapRange == P!cap \in 3 .. 9
BY PageAssumption DEF P!cap

LEMMA IsSequence ==
  ASSUME NEW T, NEW n \in Nat, NEW s \in [1 .. n -> T]
  PROVE  s \in Seq(T) /\ Len(s) = n
OBVIOUS

LEMMA FirstOnes ==
  ASSUME NEW T, NEW b \in Seq(T), NEW m \in 0 .. Len(b)
  PROVE  /\ SubSeq(b, 1, m) \in Seq(T) /\ Len(SubSeq(b, 1, m)) = m
         /\ \A i \in 1 .. m : SubSeq(b, 1, m)[i] = b[i]
<1>1. Len(b) \in Nat /\ m \in Nat
  BY LenProperties
<1> QED
  BY <1>1

LEMMA OneMoreAtEnd ==
  ASSUME NEW T, NEW s \in Seq(T), NEW q \in T
  PROVE  LET z == s \o <<q>>
         IN  /\ z \in Seq(T) /\ Len(z) = Len(s) + 1 /\ z[Len(s) + 1] = q
             /\ \A i \in 1 .. Len(s) : z[i] = s[i]
<1> DEFINE t == <<q>>
<1>1. t \in Seq(T) /\ Len(t) = 1 /\ t[1] = q
  OBVIOUS
<1> HIDE DEF t
<1>2. /\ s \o t \in Seq(T) /\ Len(s \o t) = Len(s) + Len(t)
      /\ \A i \in 1 .. Len(s) + Len(t) : (s \o t)[i] = IF i <= Len(s) THEN s[i] ELSE t[i - Len(s)]
  BY <1>1, ConcatProperties
<1>3. Len(s) \in Nat
  BY LenProperties
<1>4. Len(s \o t) = Len(s) + 1 /\ (s \o t)[Len(s) + 1] = q /\ \A i \in 1 .. Len(s) : (s \o t)[i] = s[i]
  BY <1>1, <1>2, <1>3
<1> QED
  BY <1>2, <1>4 DEF t

LEMMA TakenRange ==
  ASSUME open \subseteq Pool
  PROVE  /\ Cardinality(Tardy) \in Nat /\ Cardinality(Others) \in Nat /\ Room \in Nat /\ Places \in Nat
         /\ Taken \in 0 .. Cardinality(Others) /\ IsFiniteSet(open)
         /\ P!Cardinality(Tardy) = Cardinality(Tardy)
         /\ Tardy \subseteq open /\ Others \subseteq open /\ Hushed \subseteq open
<1>1. Tardy \subseteq open /\ Others \subseteq open /\ Hushed \subseteq open
  BY DEF Tardy, Others, Shown, Hushed
<1>2. IsFiniteSet(open)
  BY PageAssumption, FS_Subset
<1>3. Cardinality(Tardy) \in Nat /\ Cardinality(Others) \in Nat
  BY <1>1, <1>2, FS_Subset, FS_CardinalityType
<1>4. Room \in Nat
  BY <1>3, CapRange DEF Room
<1>5. Places \in Nat
  BY <1>4 DEF Places, Wanted
<1>6. Taken \in 0 .. Cardinality(Others)
  BY <1>3, <1>5 DEF Taken
<1>7. P!Cardinality(Tardy) = Cardinality(Tardy)
  BY DEF P!Cardinality, Cardinality
<1> QED
  BY <1>1, <1>2, <1>3, <1>4, <1>5, <1>6, <1>7

LEMMA TardyInOrder ==
  ASSUME open \subseteq Pool
  PROVE  /\ Firsts \in Seq(Tardy) /\ Len(Firsts) = Cardinality(Tardy)
         /\ \A e \in Tardy : \E i \in 1 .. Cardinality(Tardy) : Firsts[i] = e
         /\ \A i, j \in 1 .. Cardinality(Tardy) : i < j => P!Before(P!Rank(Firsts[i]), P!Rank(Firsts[j]))
<1>1. Ordered(Tardy, P!Ranks) /\ Tardy \subseteq open
  BY TakenRange, RanksOrder
<1>2. /\ Cardinality(Tardy) \in Nat /\ Firsts \in [1 .. Cardinality(Tardy) -> Tardy]
      /\ \A e \in Tardy : \E i \in 1 .. Cardinality(Tardy) : Firsts[i] = e
      /\ \A i, j \in 1 .. Cardinality(Tardy) : i < j => P!Before(P!Ranks[Firsts[i]], P!Ranks[Firsts[j]])
  BY <1>1, SortedOnce DEF Firsts
<1>3. Firsts \in Seq(Tardy) /\ Len(Firsts) = Cardinality(Tardy)
  BY <1>2, IsSequence
<1>4. \A i \in 1 .. Cardinality(Tardy) : Firsts[i] \in open /\ P!Ranks[Firsts[i]] = P!Rank(Firsts[i])
  BY <1>1, <1>2 DEF P!Ranks
<1> QED
  BY <1>2, <1>3, <1>4

LEMMA OthersInOrder ==
  ASSUME open \subseteq Pool
  PROVE  /\ Nexts \in Seq(Others) /\ Len(Nexts) = Cardinality(Others)
         /\ \A e \in Others : \E i \in 1 .. Cardinality(Others) : Nexts[i] = e
         /\ \A i, j \in 1 .. Cardinality(Others) : i < j => P!Before(P!Rank(Nexts[i]), P!Rank(Nexts[j]))
<1>1. Ordered(Others, P!Ranks) /\ Others \subseteq open
  BY TakenRange, RanksOrder
<1>2. /\ Cardinality(Others) \in Nat /\ Nexts \in [1 .. Cardinality(Others) -> Others]
      /\ \A e \in Others : \E i \in 1 .. Cardinality(Others) : Nexts[i] = e
      /\ \A i, j \in 1 .. Cardinality(Others) : i < j => P!Before(P!Ranks[Nexts[i]], P!Ranks[Nexts[j]])
  BY <1>1, SortedOnce DEF Nexts
<1>3. Nexts \in Seq(Others) /\ Len(Nexts) = Cardinality(Others)
  BY <1>2, IsSequence
<1>4. \A i \in 1 .. Cardinality(Others) : Nexts[i] \in open /\ P!Ranks[Nexts[i]] = P!Rank(Nexts[i])
  BY <1>1, <1>2 DEF P!Ranks
<1> QED
  BY <1>2, <1>3, <1>4

LEMMA HushIsOne ==
  ASSUME open \subseteq Pool, Hushed # {}
  PROVE  Hush[1] \in Hushed
<1>1. Ordered(Hushed, P!QuietRanks) /\ Hushed \subseteq open
  BY TakenRange, QuietOrder
<1>2. /\ Cardinality(Hushed) \in Nat /\ Hush \in [1 .. Cardinality(Hushed) -> Hushed]
      /\ \A e \in Hushed : \E i \in 1 .. Cardinality(Hushed) : Hush[i] = e
  BY <1>1, SortedOnce DEF Hush
<1>3. 1 \in 1 .. Cardinality(Hushed)
  BY <1>2
<1> QED
  BY <1>2, <1>3

LEMMA PageIsFilled ==
  P!front_page = Firsts \o P!Filled(Nexts, Hushed, Room)
<1>1. P!Cardinality(Tardy) = Cardinality(Tardy)
  BY DEF P!Cardinality, Cardinality
<1> QED
  BY <1>1 DEF P!front_page, Firsts, Nexts, Tardy, Others, Shown, Hushed, Room

LEMMA FilledShape ==
  ASSUME open \subseteq Pool
  PROVE  LET z == P!Filled(Nexts, Hushed, Room)
         IN  /\ z \in Seq(open) /\ Len(z) = Taken + (IF Wanted THEN 1 ELSE 0)
             /\ \A i \in 1 .. Taken : z[i] = Nexts[i]
             /\ Wanted => z[Taken + 1] \in Hushed
<1> DEFINE z == P!Filled(Nexts, Hushed, Room)
           s == SubSeq(Nexts, 1, Taken)
<1>1. Nexts \in Seq(open) /\ Len(Nexts) = Cardinality(Others)
  <2>1. Nexts \in Seq(Others) /\ Len(Nexts) = Cardinality(Others) /\ Others \subseteq open
    BY TakenRange, OthersInOrder
  <2> QED
    BY <2>1
<1>2. Taken \in 0 .. Len(Nexts) /\ Taken \in Nat
  BY <1>1, TakenRange
<1>3. s \in Seq(open) /\ Len(s) = Taken /\ \A i \in 1 .. Taken : s[i] = Nexts[i]
  BY <1>1, <1>2, FirstOnes
<1>4. z = IF Wanted THEN s \o <<Hush[1]>> ELSE s
  BY <1>1 DEF P!Filled, P!Upto, Wanted, Taken, Places, Hush
<1> HIDE DEF z, s
<1>5. CASE Wanted
  <2>1. Hush[1] \in Hushed /\ Hush[1] \in open
    BY <1>5, HushIsOne, TakenRange DEF Wanted
  <2>2. /\ s \o <<Hush[1]>> \in Seq(open) /\ Len(s \o <<Hush[1]>>) = Len(s) + 1
        /\ (s \o <<Hush[1]>>)[Len(s) + 1] = Hush[1]
        /\ \A i \in 1 .. Len(s) : (s \o <<Hush[1]>>)[i] = s[i]
    BY <1>3, <2>1, OneMoreAtEnd
  <2> QED
    BY <1>3, <1>4, <1>5, <2>1, <2>2 DEF z
<1>6. CASE ~ Wanted
  BY <1>2, <1>3, <1>4, <1>6 DEF z
<1> QED
  BY <1>5, <1>6

LEMMA PageShape ==
  ASSUME open \subseteq Pool
  PROVE  LET p == P!front_page
             n == Cardinality(Tardy)
         IN  /\ p \in Seq(open) /\ Len(p) = n + Taken + (IF Wanted THEN 1 ELSE 0)
             /\ \A i \in 1 .. n : p[i] = Firsts[i]
             /\ \A i \in 1 .. Taken : p[n + i] = Nexts[i]
             /\ Wanted => p[n + Taken + 1] \in Hushed
<1> DEFINE p == P!front_page
           n == Cardinality(Tardy)
           z == P!Filled(Nexts, Hushed, Room)
<1>1. Firsts \in Seq(open) /\ Len(Firsts) = n /\ n \in Nat /\ Taken \in Nat
  <2>1. Firsts \in Seq(Tardy) /\ Len(Firsts) = n /\ Tardy \subseteq open /\ n \in Nat /\ Taken \in Nat
    BY TakenRange, TardyInOrder
  <2> QED
    BY <2>1
<1>2. /\ z \in Seq(open) /\ Len(z) = Taken + (IF Wanted THEN 1 ELSE 0)
      /\ \A i \in 1 .. Taken : z[i] = Nexts[i]
      /\ Wanted => z[Taken + 1] \in Hushed
  BY FilledShape
<1>3. p = Firsts \o z
  BY PageIsFilled
<1> HIDE DEF p, z, n
<1>4. /\ Firsts \o z \in Seq(open) /\ Len(Firsts \o z) = Len(Firsts) + Len(z)
      /\ \A i \in 1 .. Len(Firsts) + Len(z) :
           (Firsts \o z)[i] = IF i <= Len(Firsts) THEN Firsts[i] ELSE z[i - Len(Firsts)]
  BY <1>1, <1>2, ConcatProperties
<1>5. Len(z) \in Nat /\ Taken <= Len(z) /\ (Wanted => Taken + 1 <= Len(z))
  BY <1>1, <1>2
<1>6. \A i \in 1 .. n : p[i] = Firsts[i]
  BY <1>1, <1>3, <1>4, <1>5
<1>7. ASSUME NEW i \in 1 .. Len(z) PROVE p[n + i] = z[i]
  <2>1. n + i \in 1 .. n + Len(z) /\ ~ (n + i <= n) /\ n + i - n = i
    BY <1>1, <1>5
  <2> QED
    BY <1>1, <1>3, <1>4, <2>1
<1>8. \A i \in 1 .. Taken : p[n + i] = Nexts[i]
  BY <1>1, <1>2, <1>5, <1>7
<1>9. Wanted => p[n + Taken + 1] \in Hushed
  <2> SUFFICES ASSUME Wanted PROVE p[n + Taken + 1] \in Hushed
    OBVIOUS
  <2>1. Taken + 1 \in 1 .. Len(z) /\ n + (Taken + 1) = n + Taken + 1
    BY <1>1, <1>5
  <2>2. p[n + (Taken + 1)] = z[Taken + 1]
    BY <1>7, <2>1
  <2> QED
    BY <1>2, <2>1, <2>2
<1>10. p \in Seq(open) /\ Len(p) = n + Taken + (IF Wanted THEN 1 ELSE 0)
  BY <1>1, <1>2, <1>3, <1>4
<1> QED
  BY <1>6, <1>8, <1>9, <1>10 DEF p, n

LEMMA WhatIsLate ==
  ASSUME open \subseteq Pool
  PROVE  /\ {e \in open : e.late > 0} = Tardy
         /\ \A e \in open : ~P!is_stale_item(e) <=> e \in Tardy \/ e \in Others
         /\ \A e \in Tardy : P!Tier(e) = 0
         /\ \A e \in Others : P!Tier(e) \in 1 .. 4
         /\ \A e \in Hushed : P!is_stale_item(e) /\ e.decaying /\ ~e.dead
<1>1. \A e \in open : P!Tier(e) \in 0 .. 4 /\ (P!Tier(e) = 0 <=> e.late > 0)
  BY TierIsNumber
<1>2. \A e \in open : e.late > 0 => ~P!is_stale_item(e)
  BY PageAssumption DEF P!is_stale_item
<1>3. {e \in open : e.late > 0} = Tardy
  BY <1>1, <1>2 DEF Tardy, Shown
<1>4. \A e \in Others : P!Tier(e) \in 1 .. 4
  BY <1>1 DEF Others, Tardy, Shown
<1> QED
  BY <1>3, <1>4 DEF Others, Tardy, Shown, Hushed

LEMMA TierFirst ==
  ASSUME NEW d \in Pool, NEW e \in Pool, P!Tier(d) = 0, P!Tier(e) \in 1 .. 4
  PROVE  P!Before(P!Rank(d), P!Rank(e))
<1>1. 1 \in DOMAIN P!Rank(d) /\ 1 \in DOMAIN P!Rank(e)
  BY RankShape, InDomain DEF RankLen
<1>2. P!Rank(d)[1] < P!Rank(e)[1]
  BY RankShape
<1>3. \A j \in 1 .. (1 - 1) : P!Rank(d)[j] = P!Rank(e)[j]
  OBVIOUS
<1> QED
  BY <1>1, <1>2, <1>3 DEF P!Before

(* What is at a place of the page: a late item, another that is not stale,  *)
(* or the one that goes quiet, in the last place.                           *)
LEMMA PlaceHolds ==
  ASSUME open \subseteq Pool, NEW i \in DOMAIN P!front_page
  PROVE  LET p == P!front_page
             n == Cardinality(Tardy)
         IN  \/ i \in 1 .. n /\ p[i] = Firsts[i] /\ p[i] \in Tardy
             \/ i - n \in 1 .. Taken /\ p[i] = Nexts[i - n] /\ p[i] \in Others
             \/ Wanted /\ i = Len(p) /\ p[i] \in Hushed
<1> DEFINE p == P!front_page
           n == Cardinality(Tardy)
<1>1. /\ p \in Seq(open) /\ Len(p) = n + Taken + (IF Wanted THEN 1 ELSE 0)
      /\ \A k \in 1 .. n : p[k] = Firsts[k]
      /\ \A k \in 1 .. Taken : p[n + k] = Nexts[k]
      /\ Wanted => p[n + Taken + 1] \in Hushed
  BY PageShape
<1>2. /\ n \in Nat /\ Taken \in Nat /\ Taken <= Cardinality(Others) /\ Cardinality(Others) \in Nat
      /\ Firsts \in Seq(Tardy) /\ Len(Firsts) = n
      /\ Nexts \in Seq(Others) /\ Len(Nexts) = Cardinality(Others)
  BY TakenRange, TardyInOrder, OthersInOrder
<1>3. i \in 1 .. Len(p) /\ i \in Int
  <2>1. i \in DOMAIN p
    OBVIOUS
  <2> HIDE DEF p
  <2> QED
    BY <1>1, <2>1
<1> HIDE DEF p, n
<1>4. CASE i <= n
  <2>1. i \in 1 .. n /\ Firsts[i] \in Tardy
    BY <1>2, <1>3, <1>4
  <2> QED
    BY <1>1, <2>1 DEF p, n
<1>5. CASE ~ (i <= n) /\ i <= n + Taken
  <2>1. i - n \in 1 .. Taken /\ n + (i - n) = i /\ i - n \in 1 .. Len(Nexts)
    BY <1>2, <1>3, <1>5
  <2>2. Nexts[i - n] \in Others
    BY <1>2, <2>1
  <2>3. p[n + (i - n)] = Nexts[i - n]
    BY <1>1, <2>1
  <2>4. p[i] = Nexts[i - n]
    BY <2>1, <2>3
  <2> QED
    BY <2>1, <2>2, <2>4 DEF p, n
<1>6. CASE ~ (i <= n + Taken)
  <2>1. Wanted /\ i = n + Taken + 1 /\ i = Len(p)
    BY <1>1, <1>2, <1>3, <1>6
  <2> QED
    BY <1>1, <2>1 DEF p, n
<1> QED
  BY <1>2, <1>3, <1>4, <1>5, <1>6

(* Each late item is on the page; what is left off and not stale comes after*)
(* all that is taken.                                                       *)
LEMMA LateOn ==
  ASSUME open \subseteq Pool, NEW e \in Tardy
  PROVE  \E i \in DOMAIN P!front_page : P!front_page[i] = e
<1>1. PICK i \in 1 .. Cardinality(Tardy) : Firsts[i] = e
  BY TardyInOrder
<1>2. i \in DOMAIN P!front_page /\ P!front_page[i] = Firsts[i]
  <2> DEFINE p == P!front_page
  <2>1. p \in Seq(open) /\ Len(p) = Cardinality(Tardy) + Taken + (IF Wanted THEN 1 ELSE 0) /\ p[i] = Firsts[i]
    BY PageShape
  <2>2. Cardinality(Tardy) \in Nat /\ Taken \in Nat
    BY TakenRange
  <2> HIDE DEF p
  <2>3. i \in DOMAIN p /\ p[i] = Firsts[i]
    BY <2>1, <2>2
  <2> QED
    BY <2>3 DEF p
<1> QED
  BY <1>1, <1>2

LEMMA LeftOff ==
  ASSUME open \subseteq Pool, NEW e \in open, ~P!is_stale_item(e),
         \A i \in DOMAIN P!front_page : P!front_page[i] # e
  PROVE  e \in Others /\ \E k \in 1 .. Cardinality(Others) : k > Taken /\ Nexts[k] = e
<1> DEFINE n == Cardinality(Tardy)
           p == P!front_page
<1>1. e \in Others
  BY WhatIsLate, LateOn
<1>2. PICK k \in 1 .. Cardinality(Others) : Nexts[k] = e
  BY <1>1, OthersInOrder
<1>3. /\ p \in Seq(open) /\ Len(p) = n + Taken + (IF Wanted THEN 1 ELSE 0)
      /\ \A i \in 1 .. Taken : p[n + i] = Nexts[i]
  BY PageShape
<1>4. n \in Nat /\ Taken \in Nat /\ Cardinality(Others) \in Nat
  BY TakenRange
<1>5. \A i \in DOMAIN p : p[i] # e
  OBVIOUS
<1> HIDE DEF n, p
<1>6. ~ (k <= Taken)
  <2> SUFFICES ASSUME k <= Taken PROVE FALSE
    OBVIOUS
  <2>1. k \in 1 .. Taken /\ n + k \in DOMAIN p
    BY <1>3, <1>4
  <2> QED
    BY <1>2, <1>3, <1>5, <2>1
<1> QED
  BY <1>1, <1>2, <1>4, <1>6

LEMMA NoneOutranks ==
  ASSUME open \subseteq Pool, NEW i \in DOMAIN P!front_page, NEW e \in open,
         ~P!is_stale_item(P!front_page[i]), ~P!is_stale_item(e),
         \A j \in DOMAIN P!front_page : P!front_page[j] # e
  PROVE  ~P!Before(P!Rank(e), P!Rank(P!front_page[i]))
<1> DEFINE x == P!front_page[i]
<1>1. PICK k \in 1 .. Cardinality(Others) : k > Taken /\ Nexts[k] = e
  BY LeftOff
<1>2. e \in Others /\ e \in Pool
  BY LeftOff
<1>3. \/ x \in Tardy
      \/ i - Cardinality(Tardy) \in 1 .. Taken /\ x = Nexts[i - Cardinality(Tardy)] /\ x \in Others
  BY PlaceHolds, WhatIsLate
<1>4. x \in Pool
  BY <1>3, TakenRange
<1>5. P!Rank(e) \in Seq(Int) /\ P!Rank(x) \in Seq(Int)
  BY <1>2, <1>4, RankShape
<1> HIDE DEF x
<1>6. P!Before(P!Rank(x), P!Rank(e))
  <2>1. CASE x \in Tardy
    BY <1>2, <1>4, <2>1, WhatIsLate, TierFirst
  <2>2. CASE i - Cardinality(Tardy) \in 1 .. Taken /\ x = Nexts[i - Cardinality(Tardy)]
    <3> DEFINE m == i - Cardinality(Tardy)
    <3>1. m \in 1 .. Cardinality(Others) /\ m < k
      BY <1>1, <2>2, TakenRange
    <3>2. P!Before(P!Rank(Nexts[m]), P!Rank(Nexts[k]))
      BY <3>1, OthersInOrder
    <3> QED
      BY <1>1, <2>2, <3>2
  <2> QED
    BY <1>3, <2>1, <2>2
<1>7. ~P!Before(P!Rank(e), P!Rank(x))
  BY <1>5, <1>6, BeforeBack
<1> QED
  BY <1>7 DEF x

LEMMA InRankOrder ==
  ASSUME open \subseteq Pool, NEW i \in DOMAIN P!front_page, NEW j \in DOMAIN P!front_page, i < j,
         ~P!is_stale_item(P!front_page[j])
  PROVE  ~P!Before(P!Rank(P!front_page[j]), P!Rank(P!front_page[i]))
<1> DEFINE p == P!front_page
           n == Cardinality(Tardy)
<1>1. n \in Nat /\ Taken \in Nat /\ Taken <= Cardinality(Others) /\ Cardinality(Others) \in Nat
      /\ Tardy \subseteq Pool /\ Others \subseteq Pool
  BY TakenRange
<1>2. p \in Seq(open)
  BY PageShape
<1>3. i \in 1 .. Len(p) /\ j \in 1 .. Len(p) /\ i \in Int /\ j \in Int /\ Len(p) \in Nat
  <2>1. i \in DOMAIN p /\ j \in DOMAIN p
    OBVIOUS
  <2> HIDE DEF p
  <2> QED
    BY <1>2, <2>1
<1>4. \/ j \in 1 .. n /\ p[j] = Firsts[j] /\ p[j] \in Tardy
      \/ j - n \in 1 .. Taken /\ p[j] = Nexts[j - n] /\ p[j] \in Others
  BY PlaceHolds, WhatIsLate
<1>5. \/ i \in 1 .. n /\ p[i] = Firsts[i] /\ p[i] \in Tardy
      \/ i - n \in 1 .. Taken /\ p[i] = Nexts[i - n] /\ p[i] \in Others
      \/ i = Len(p)
  BY PlaceHolds
<1> HIDE DEF p, n
<1>6. P!Before(P!Rank(p[i]), P!Rank(p[j])) /\ p[i] \in Pool /\ p[j] \in Pool
  <2>1. CASE j \in 1 .. n /\ p[j] = Firsts[j] /\ p[j] \in Tardy
    <3>1. i \in 1 .. n /\ ~ (i - n \in 1 .. Taken) /\ i # Len(p)
      BY <1>1, <1>3, <2>1
    <3>2. P!Before(P!Rank(Firsts[i]), P!Rank(Firsts[j]))
      BY <2>1, <3>1, TardyInOrder DEF n
    <3> QED
      BY <1>1, <1>5, <2>1, <3>1, <3>2
  <2>2. CASE j - n \in 1 .. Taken /\ p[j] = Nexts[j - n] /\ p[j] \in Others
    <3>1. i # Len(p)
      BY <1>3
    <3>2. CASE i \in 1 .. n /\ p[i] = Firsts[i] /\ p[i] \in Tardy
      BY <1>1, <2>2, <3>2, WhatIsLate, TierFirst
    <3>3. CASE i - n \in 1 .. Taken /\ p[i] = Nexts[i - n] /\ p[i] \in Others
      <4>1. i - n \in 1 .. Cardinality(Others) /\ j - n \in 1 .. Cardinality(Others) /\ i - n < j - n
        BY <1>1, <1>3, <2>2, <3>3
      <4>2. P!Before(P!Rank(Nexts[i - n]), P!Rank(Nexts[j - n]))
        BY <4>1, OthersInOrder
      <4> QED
        BY <1>1, <2>2, <3>3, <4>2
    <3> QED
      BY <1>5, <3>1, <3>2, <3>3
  <2> QED
    BY <1>4, <2>1, <2>2
<1>7. P!Rank(p[i]) \in Seq(Int) /\ P!Rank(p[j]) \in Seq(Int)
  BY <1>6, RankShape
<1>8. ~P!Before(P!Rank(p[j]), P!Rank(p[i]))
  BY <1>6, <1>7, BeforeBack
<1> QED
  BY <1>8 DEF p

(* The cap holds unless the late ones alone are more, and a page below it   *)
(* has taken all there is.                                                  *)
LEMMA CapHolds ==
  ASSUME open \subseteq Pool
  PROVE  LET n == Cardinality(Tardy)
             p == P!front_page
         IN  /\ Len(p) <= IF n > P!cap THEN n ELSE P!cap
             /\ Len(p) < P!cap => Taken = Cardinality(Others)
<1>1. Len(P!front_page) = Cardinality(Tardy) + Taken + (IF Wanted THEN 1 ELSE 0)
  BY PageShape
<1>2. Cardinality(Tardy) \in Nat /\ Cardinality(Others) \in Nat /\ Taken \in Nat
  BY TakenRange
<1> QED
  BY <1>1, <1>2, CapRange DEF Taken, Places, Wanted, Room

(* The page that is built is the best of what is open.                      *)
LEMMA PageIsBest ==
  ASSUME open \subseteq Pool, page = P!front_page, counts = P!opening_counts(page)
  PROVE  BestFirst
<1> USE DEF P!OnPage, P!Range
<1>1. {e \in open : e.late > 0} \subseteq P!OnPage
  BY WhatIsLate, LateOn
<1>2. \A i \in DOMAIN page : P!Quietly(page[i]) => i = Len(page) /\ page[i].decaying /\ ~page[i].dead
  BY PlaceHolds, WhatIsLate, TakenRange DEF P!Quietly
<1>3. \A i, j \in DOMAIN page : (i < j /\ ~P!Quietly(page[j])) => ~P!Before(P!Rank(page[j]), P!Rank(page[i]))
  BY InRankOrder DEF P!Quietly
<1>4. \A p \in P!OnPage, e \in open \ P!OnPage :
        (~P!Quietly(p) /\ ~P!is_stale_item(e)) => ~P!Before(P!Rank(e), P!Rank(p))
  BY NoneOutranks DEF P!Quietly
<1>5. counts.late = Cardinality(Tardy)
  BY WhatIsLate, TakenRange DEF P!opening_counts
<1>6. Len(page) <= IF counts.late > P!cap THEN counts.late ELSE P!cap
  BY <1>5, CapHolds
<1>7. Len(page) < P!cap => \A e \in open \ P!OnPage : P!is_stale_item(e)
  <2> SUFFICES ASSUME Len(page) < P!cap, NEW e \in open \ P!OnPage, ~P!is_stale_item(e) PROVE FALSE
    OBVIOUS
  <2>1. PICK k \in 1 .. Cardinality(Others) : k > Taken
    BY LeftOff
  <2>2. Taken = Cardinality(Others) /\ Cardinality(Others) \in Nat
    BY CapHolds, TakenRange
  <2> QED
    BY <2>1, <2>2
<1> QED
  BY <1>1, <1>2, <1>3, <1>4, <1>6, <1>7 DEF BestFirst, P!BestFirst

LEMMA FilledPrimed ==
  (P!front_page = Firsts \o P!Filled(Nexts, Hushed, Room))'
BY PageIsFilled, PTL

(* The page is a matter of what is open.                                    *)
LEMMA PageStands ==
  ASSUME UNCHANGED open
  PROVE  P!front_page' = P!front_page
<1>1. P!Ranks' = P!Ranks
  BY DEF P!Ranks
<1>2. P!QuietRanks' = P!QuietRanks
  BY DEF P!QuietRanks
<1>3. Tardy' = Tardy /\ Others' = Others /\ Hushed' = Hushed
  BY DEF Tardy, Others, Hushed, Shown
<1>4. Firsts' = Firsts /\ Nexts' = Nexts /\ Room' = Room
  BY <1>1, <1>3 DEF Firsts, Nexts, Room
<1>5. P!Filled(Nexts, Hushed, Room)' = P!Filled(Nexts, Hushed, Room)
  BY <1>2, <1>3, <1>4 DEF P!Filled
<1>6. (Firsts \o P!Filled(Nexts, Hushed, Room))' = Firsts \o P!Filled(Nexts, Hushed, Room)
  BY <1>4, <1>5
<1> QED
  BY <1>6, PageIsFilled, FilledPrimed

PageInv == open \subseteq Pool /\ (P!Built => page = P!front_page /\ counts = P!opening_counts(page))

(* BestFirst: for any pool of items, any businesses, priorities, functions  *)
(* and cap, the page has every late item, nothing stale but one live item   *)
(* that goes quiet, in the last place, and no item left off outranks one    *)
(* that is on; it is in rank order, and as long as the cap allows           *)
(* (front_page).                                                            *)
THEOREM BestFirstAlways == MailsSpec => []BestFirst
<1>1. MailsInit => PageInv
  BY DEF MailsInit, PageStill, P!Init, P!Unbuilt, P!Built, PageInv
<1>2. PageInv /\ [MailsNext]_all => PageInv'
  <2> SUFFICES ASSUME PageInv, [MailsNext]_all PROVE PageInv'
    OBVIOUS
  <2>1. P!Next \/ UNCHANGED front
    BY DEF MailsNext, all
  <2>2. UNCHANGED open
    BY <2>1 DEF P!Next, P!build_front_page, P!OpenRow, front
  <2>3. P!front_page' = P!front_page
    BY <2>2, PageStands
  <2>4. CASE P!build_front_page
    <3>1. P!opening_counts(page)' = P!opening_counts(page')
      BY <2>2 DEF P!opening_counts
    <3> QED
      BY <2>2, <2>3, <2>4, <3>1 DEF P!build_front_page, PageInv
  <2>5. CASE UNCHANGED <<open, page, counts>>
    <3>1. P!opening_counts(page)' = P!opening_counts(page)
      BY <2>5 DEF P!opening_counts
    <3> QED
      BY <2>3, <2>5, <3>1 DEF PageInv, P!Built
  <2> QED
    BY <2>1, <2>4, <2>5 DEF P!Next, P!OpenRow, front
<1>3. PageInv => BestFirst
  BY PageIsBest DEF PageInv, BestFirst, P!BestFirst
<1> QED
  BY <1>1, <1>2, <1>3, PTL DEF MailsSpec
================================================================================
