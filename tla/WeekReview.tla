------------------------------ MODULE WeekReview ------------------------------
(***************************************************************************)
(* The scan behind the briefings (src/app/week_review.py, intake_gate.py,  *)
(* priority_judge.py): what becomes of a mail thread between the accounts  *)
(* it is read from and the sections of the briefing, and what a run writes *)
(* down about what it has shown.                                           *)
(*                                                                         *)
(* A thread is a record of what the code can tell about it.  `sent` and    *)
(* `recv` are the days since the user and since the other side last wrote; *)
(* what the models would say of it (fyi, lure, judged) is part of the      *)
(* record, whether they can be reached is chosen in each run.              *)
(***************************************************************************)
EXTENDS Naturals, FiniteSets

CONSTANTS
  Kinds,        \* threads there may be
  Count,        \* how many of them exist
  Lines,        \* unchecked lines last week's file may hold: [key, from, subj, who]
  Modes,        \* how a run may be started
  Window,       \* days of sent mail a briefing reads (resolve_since)
  ScanWindow,   \* days the install's scan reads (--since 60)
  InboxWindow,  \* days of inbox (_inbox_since_days)
  StaleDays,    \* STALE_COUNTERPARTY_DAYS
  MaxRuns,      \* bound: runs
  MaxFaults     \* bound: things that fail, a run that dies among them

VARIABLES
  threads,      \* the threads of the mailboxes
  done,         \* keys in the done log
  prior,        \* unchecked lines of last week's file
  mode, pc,     \* the run: how it was started, where it is
  sec,          \* its sections: name -> entries
  errors,       \* what it will say went wrong
  unread,       \* history: what it passed over in silence, <<"sent" or "inbox", thread>>
  snap,         \* sections captured for the saved scan
  shown,        \* intake_avoided.json: lures marked as shown
  marked,       \* the travel ledger says this week's notices were shown
  sidecar, scan,\* files on disk: the full sidecar, the saved scan
  told,         \* history: lure -> times a reader was shown it
  informed,     \* history: a reader was shown the travel notices
  runs, faults

mail == <<threads, done, prior>>
disk == <<shown, marked, sidecar, scan>>
reader == <<told, informed>>
vars == <<threads, done, prior, mode, pc, sec, errors, unread, snap, shown, marked,
          sidecar, scan, told, informed, runs, faults>>

Never == 99
Accounts == {"outlook", "gmail"}
SentSections == {"waiting_on_user", "cold_urgent", "cold_monitor"}
Sections == SentSections \cup {"inbox_pending", "filtered_pending", "avoided", "suppressed"}
Surfaced == SentSections \cup {"inbox_pending"}
Empty == [s \in Sections |-> {}]
NoScan == [saved |-> FALSE, sections |-> Empty, errors |-> {}, unread |-> {}]

Entry(t) == [key |-> t.key, t |-> t]
Keys(S) == {e.key : e \in S}
Feeding == mode \in {"feed", "save"}     \* --no-extensions: data for another briefing

(***************************************************************************)
(* The fetchers.  A thread is replied to when the other side wrote last.   *)
(***************************************************************************)
Replied(t) == t.recv < t.sent
Noise(t) == t.who = "noise" \/ t.subj \in {"noisy", "warmup"}

Cold(t) == IF t.sent > 14 THEN "cold_urgent" ELSE IF t.sent > 7 THEN "cold_monitor" ELSE "none"

\* The counterparty is the first recipient who is not noise.
OutlookDeal(t, since) ==
  IF t.sent > since \/ Noise(t) THEN "none"
  ELSE IF Replied(t) THEN "waiting_on_user" ELSE Cold(t)

\* The counterparty is the first who wrote: a thread nobody answered has none.
GmailDeal(t, since) ==
  IF t.sent > since \/ Noise(t) \/ t.recv = Never THEN "none"
  ELSE IF Replied(t) THEN "waiting_on_user" ELSE Cold(t)

\* sentKnown: the sent folder was read; an unknown reply does not answer.
OutlookPending(t, sentKnown) ==
  /\ t.recv <= InboxWindow
  /\ t.who # "internal" /\ ~Noise(t)
  /\ t.sent < t.recv => t.ack \/ ~sentKnown

\* A marketing subject is no bar here.
GmailPending(t) ==
  /\ t.recv <= InboxWindow
  /\ t.who \notin {"noise", "internal"} /\ t.subj # "warmup"
  /\ t.sent < t.recv => t.ack

DealSection(t, since) ==
  IF t.acct = "outlook" THEN OutlookDeal(t, since) ELSE GmailDeal(t, since)
Pending(t, sentKnown) ==
  IF t.acct = "outlook" THEN OutlookPending(t, sentKnown) ELSE GmailPending(t)

fetch_deals(s, since) == {Entry(t) : t \in {u \in threads : DealSection(u, since) = s}}
fetch_inbox(known) == {Entry(t) : t \in {u \in threads : Pending(u, u \in known)}}

(***************************************************************************)
(* The intake gate and the classifier.                                     *)
(***************************************************************************)
\* Someone the user has written to is no stranger.
is_known(e) ==
  \/ e.t.who = "critical"
  \/ \E u \in threads : u.key = e.key /\ u.sent <= 60
  \/ \E s \in SentSections : e.key \in Keys(sec[s])
Held(e) == e.t.lure /\ ~is_known(e)

\* A known partner is never dropped on the model's word.
FyiAlone(e) == e.t.fyi                 \* a mutant: no allowlist
Suppressible(e) == e.t.fyi /\ e.t.who # "critical"

(***************************************************************************)
(* _finalize.                                                              *)
(***************************************************************************)
is_suppressed(e, honorReplyAge) ==
  e.key \in done /\ ~(honorReplyAge /\ e.t.recv <= 1)

Live == {t.key : t \in {u \in threads : u.live}}
\* A judgment that was not given, or not on this item, leaves the keywords.
Judged(e, degraded) == IF degraded THEN "" ELSE e.t.judged
Relevant(e, degraded) ==
  IF Judged(e, degraded) = "" THEN e.t.fits ELSE Judged(e, degraded) = "yes"

\* Nothing relevant among a business's red items: its priorities cannot be read.
blind(red, degraded) == ~\E e \in red : e.t.tag # "unassigned" /\ Relevant(e, degraded)

\* A partner's mark is the classifier's, and red items never pass it; rows
\* that come from the connectors may carry it.
allowlisted(e) == mode = "tier2" /\ e.t.who = "critical"

Demoted(e, red, degraded) ==
  \/ e.t.subj = "feedback"
  \/ Live # {} /\ e.key \notin Live /\ e.t.sent >= StaleDays
  \/ /\ ~allowlisted(e) /\ e.key \notin Live
     /\ ~degraded /\ ~e.t.deadline
     /\ e.t.tag # "unassigned"
     /\ ~blind(red, degraded) /\ ~Relevant(e, degraded)

gate_cold_promotion(s, degraded) ==
  LET red == s["cold_urgent"]
      noise == {e \in red \cup s["cold_monitor"] : Noise(e.t)}
      down == {e \in red \ noise : Demoted(e, red, degraded)}
  IN [s EXCEPT !["cold_urgent"] = (red \ noise) \ down,
               !["cold_monitor"] = (@ \ noise) \cup down,
               !["filtered_pending"] = @ \cup noise]

Carried(l) == [key |-> l.key, t |-> l]
Returning(l, seen) == l.key \notin seen \cup done
\* Lines of last week nobody checked come back, to red unless they waited.
carry(s) ==
  LET seen == UNION {Keys(s[x]) : x \in Surfaced}
      back == {l \in prior : Returning(l, seen)}
      In(section) == {Carried(l) : l \in {x \in back :
        section = IF x.from = "waiting" THEN "waiting_on_user"
                  ELSE IF x.who = "noise" THEN "filtered_pending"
                  ELSE IF x.subj = "feedback" THEN "cold_monitor" ELSE "cold_urgent"}}
  IN [x \in Sections |-> s[x] \cup In(x)]

\* One row for a thread that surfaced on two accounts.
dedup_cross_account(S) == {CHOOSE e \in S : e.key = k : k \in Keys(S)}

Suppressing(s) ==
  LET Gone(x) == {e \in s[x] : is_suppressed(e, x \in {"waiting_on_user", "inbox_pending"})}
  IN [x \in Sections |->
        IF x = "suppressed" THEN UNION {Gone(y) : y \in Surfaced}
        ELSE IF x \in Surfaced THEN s[x] \ Gone(x) ELSE s[x]]

finalized(s, degraded) ==
  LET c == carry(gate_cold_promotion(Suppressing(s), degraded))
  IN [x \in Sections |-> IF x \in Surfaced THEN dedup_cross_account(c[x]) ELSE c[x]]

(***************************************************************************)
(* A run.                                                                  *)
(***************************************************************************)
Mailbox ==
  /\ threads \in {S \in SUBSET Kinds : Cardinality(S) = Count}
  /\ done \in {{}} \cup {{t.key} : t \in threads}
  /\ prior \in {{}} \cup {{l} : l \in Lines}

Idle ==
  /\ mode = "none" /\ pc = "idle" /\ sec = Empty /\ errors = {} /\ unread = {}
  /\ snap = NoScan /\ shown = {} /\ marked = FALSE /\ sidecar = FALSE /\ scan = NoScan
  /\ told = [k \in Keys({Entry(t) : t \in threads}) |-> 0] /\ informed = FALSE
  /\ runs = 0 /\ faults = 0

Init == Mailbox /\ Idle

Since == IF mode = "save" THEN ScanWindow ELSE Window

Fails(n) == faults + n <= MaxFaults /\ faults' = faults + n
FailsIf(b) == Fails(IF b THEN 1 ELSE 0)
Ends == mode' = "none" /\ pc' = "idle" /\ sec' = Empty /\ errors' = {} /\ unread' = {} /\ snap' = NoScan

Start(m) ==
  /\ pc = "idle" /\ runs < MaxRuns
  /\ m = "reuse" => scan.saved
  /\ mode' = m /\ runs' = runs + 1
  /\ pc' = CASE m = "reuse" -> "reuse" [] m = "tier2" -> "tier2" [] OTHER -> "deals"
  /\ UNCHANGED <<mail, sec, errors, unread, snap, disk, reader, faults>>

\* An account that cannot be read, or a reply that cannot be looked up, is
\* said.  A thread beyond the one page that is listed, or whose own read
\* fails, is passed over.
Deals(lost, missed, passed) ==
  /\ pc = "deals" /\ Fails(Cardinality(lost) + Cardinality(missed) + Cardinality(passed))
  /\ sec' = [s \in Sections |->
       IF s \notin SentSections THEN {}
       ELSE {e \in fetch_deals(s, Since) : e.t.acct \notin lost /\ e.t \notin missed \cup passed}]
  /\ errors' = {<<"deals", a>> : a \in lost} \cup {<<"lookup", t.key>> : t \in missed}
  /\ unread' = {<<"sent", t>> : t \in passed}
  /\ pc' = "inbox"
  /\ UNCHANGED <<mail, mode, snap, disk, reader, runs>>

\* Threads of which the sent folder was read, as far as the inbox can tell.
SentKnown == {t \in threads : <<"deals", "outlook">> \notin errors /\ <<"sent", t>> \notin unread}

\* An inbox that cannot be read is an empty inbox: nothing is said, nor of a
\* thread beyond the page, of one whose own read fails, or of one whose short
\* reply could not be read and so counts as an answer.
Inbox(lost, passed) ==
  /\ pc = "inbox" /\ Fails(Cardinality(lost) + Cardinality(passed))
  /\ LET left == {t \in threads : t.acct \in lost} \cup passed IN
       /\ sec' = [sec EXCEPT !["inbox_pending"] = {e \in fetch_inbox(SentKnown) : e.t \notin left}]
       /\ unread' = unread \cup {<<"inbox", t>> : t \in left}
  /\ pc' = "intake"
  /\ UNCHANGED <<mail, mode, errors, snap, disk, reader, runs>>

_run_intake_gate(answers) ==
  /\ pc = "intake" /\ FailsIf(~answers)
  /\ LET held == IF answers THEN {e \in sec["inbox_pending"] : Held(e)} ELSE {}
     IN sec' = [sec EXCEPT !["inbox_pending"] = @ \ held, !["avoided"] = held]
  /\ pc' = "classify"
  /\ UNCHANGED <<mail, mode, errors, unread, snap, disk, reader, runs>>

\* What is captured for the saved scan is what has been read and classified.
classify_threads(answers) ==
  /\ pc = "classify" /\ FailsIf(~answers)
  /\ LET out(s) == IF answers THEN {e \in sec[s] : Suppressible(e)} ELSE {}
     IN sec' = [sec EXCEPT !["waiting_on_user"] = @ \ out("waiting_on_user"),
                           !["inbox_pending"] = @ \ out("inbox_pending"),
                           !["filtered_pending"] = out("inbox_pending")]
  /\ snap' = IF mode = "save"
             THEN [saved |-> TRUE, sections |-> sec', errors |-> errors, unread |-> unread]
             ELSE snap
  /\ pc' = "finalize"
  /\ UNCHANGED <<mail, mode, errors, unread, disk, reader, runs>>

\* A scan of sixty days cut to a briefing's own windows.
window_sections(s) ==
  [x \in Sections |->
     {e \in s[x] : /\ x \in SentSections => e.t.sent <= Window
                   /\ x \in {"inbox_pending", "filtered_pending"} => e.t.recv <= InboxWindow}]

_run_reuse_scan ==
  /\ pc = "reuse"
  /\ sec' = window_sections(scan.sections)
  /\ errors' = scan.errors
  /\ pc' = "finalize"
  /\ UNCHANGED <<mail, mode, unread, snap, disk, reader, runs, faults>>

\* The connectors read the accounts: nothing is screened or classified here.
_run_tier2 ==
  /\ pc = "tier2"
  /\ sec' = [s \in Sections |->
       CASE s \in SentSections -> fetch_deals(s, Window)
         [] s = "inbox_pending" -> fetch_inbox(threads)
         [] OTHER -> {}]
  /\ pc' = "finalize"
  /\ UNCHANGED <<mail, mode, errors, unread, snap, disk, reader, runs, faults>>

_finalize(degraded) ==
  /\ pc = "finalize" /\ FailsIf(degraded)
  /\ sec' = finalized(sec, degraded)
  /\ errors' = IF degraded THEN errors \cup {<<"judge", "degraded">>} ELSE errors
  /\ pc' = "attach"
  /\ UNCHANGED <<mail, mode, unread, snap, disk, reader, runs>>

MarkShown == IF Feeding THEN shown ELSE shown \cup Keys(sec["avoided"])

\* A lure is shown once; a run that feeds another briefing leaves it for that one.
_attach_intake_and_closed ==
  /\ pc = "attach"
  /\ sec' = [sec EXCEPT !["avoided"] = {e \in @ : e.key \notin shown}]
  /\ shown' = MarkShown
  /\ pc' = "sidecar"
  /\ UNCHANGED <<mail, mode, errors, unread, snap, marked, sidecar, scan, reader, runs, faults>>

Sidecar(fails) ==
  /\ pc = "sidecar" /\ FailsIf(fails)
  /\ sidecar' = (sidecar \/ ~fails)
  /\ errors' = IF fails THEN errors \cup {<<"sidecar", "write">>} ELSE errors
  /\ pc' = "snapshot"
  /\ UNCHANGED <<mail, mode, sec, unread, snap, shown, marked, scan, reader, runs>>

ScanWhen == pc = "snapshot"
_write_saved_scan ==
  /\ ScanWhen
  /\ scan' = IF snap.saved THEN snap ELSE scan
  /\ pc' = "print"
  /\ UNCHANGED <<mail, mode, sec, errors, unread, snap, shown, marked, sidecar, reader, runs, faults>>

\* The run's answer is printed; someone reads it unless it feeds another.
Prints ==
  /\ pc = "print"
  /\ told' = IF Feeding THEN told
             ELSE [k \in DOMAIN told |-> IF k \in Keys(sec["avoided"]) THEN told[k] + 1 ELSE told[k]]
  /\ informed' = (informed \/ ~Feeding)
  /\ pc' = "commit"
  /\ UNCHANGED <<mail, mode, sec, errors, unread, snap, disk, runs, faults>>

Committing == pc = "commit"
Commit ==
  /\ Committing
  /\ marked' = (marked \/ ~Feeding)
  /\ Ends
  /\ UNCHANGED <<mail, shown, sidecar, scan, reader, runs, faults>>

Die ==
  /\ pc # "idle" /\ Fails(1)
  /\ Ends
  /\ UNCHANGED <<mail, disk, reader, runs>>

Next ==
  \/ \E m \in Modes : Start(m)
  \/ \E lost \in SUBSET Accounts, missed \in SUBSET {t \in threads : t.acct = "outlook" /\ DealSection(t, Since) # "none"},
        passed \in SUBSET threads : Deals(lost, missed, passed)
  \/ \E lost \in SUBSET Accounts, passed \in SUBSET threads : Inbox(lost, passed)
  \/ \E answers \in BOOLEAN : _run_intake_gate(answers) \/ classify_threads(answers)
  \/ _run_reuse_scan \/ _run_tier2
  \/ \E degraded \in BOOLEAN : _finalize(degraded)
  \/ _attach_intake_and_closed
  \/ \E fails \in BOOLEAN : Sidecar(fails)
  \/ _write_saved_scan \/ Prints \/ Commit \/ Die

Spec == Init /\ [][Next]_vars

-----------------------------------------------------------------------------
Out == pc \in {"attach", "sidecar", "snapshot", "print", "commit"}
Fresh == Out /\ mode \in {"full", "save", "feed"}
ReadWell(t) == <<"inbox", t>> \notin unread
Where(S) == UNION {Keys(sec[s]) : s \in S}

(* No thread that waits for the user vanishes between what a run read of    *)
(* the inboxes and the briefing, whatever else failed, the reading of the   *)
(* sent mail among it: it is surfaced, or filtered, or held as a lure, or   *)
(* was marked done; and a partner's is never filtered or held               *)
(* (classify_threads: "a misclassification must never silently drop a known *)
(* partner thread").  What the inbox fetchers pass over is in no list, and  *)
(* nothing in the briefing says so.                                         *)
Accounted == (Fresh /\ pc = "attach") => \A t \in threads :
  (ReadWell(t) /\ Pending(t, TRUE)) =>
    /\ t.key \in Where(Sections)
    /\ (t.who = "critical" /\ t.key \notin done) => t.key \in Where({"waiting_on_user", "inbox_pending"})

(* A scan of sixty days cut to the briefing's window lists what a fresh     *)
(* scan of that window would (window_sections), thread for thread, when     *)
(* every account answered; what the model files away it files away in both, *)
(* unless it could not be asked.                                            *)
ReuseIsFresh ==
  (mode = "reuse" /\ pc = "finalize" /\ scan.errors = {} /\ scan.unread = {}) =>
    /\ \A s \in {"cold_urgent", "cold_monitor"} : sec[s] = fetch_deals(s, Window)
    /\ LET waiting == fetch_deals("waiting_on_user", Window)
       IN /\ sec["waiting_on_user"] \subseteq waiting
          /\ \A e \in waiting \ sec["waiting_on_user"] : Suppressible(e)
         /\ sec["inbox_pending"] \cup sec["filtered_pending"] \cup sec["avoided"] = fetch_inbox(threads)

(* What the user marked done stays away: it comes back only when the other  *)
(* side has written since yesterday, never as a cold thread and never from  *)
(* last week's file.                                                        *)
DoneStays == Out => \A s \in Surfaced : \A e \in sec[s] :
  e.key \in done =>
    s \in {"waiting_on_user", "inbox_pending"} /\ e.t \in threads /\ e.t.recv <= 1

(* A lure is shown to a reader at most once, however many runs feed other   *)
(* briefings in between or die (avoided_once).                              *)
ToldOnce == \A k \in DOMAIN told : told[k] <= 1

(* The travel ledger never says "shown" before someone was shown: the mark  *)
(* follows the print, whatever dies between them (_finalize).               *)
MarkedAfterTold == marked => informed

(* The saved scan is on disk only if the sidecar is, or the run said it     *)
(* could not write the sidecar (_maybe_save_scan: "the snapshot's existence *)
(* imply the sidecar's").                                                   *)
ScanHasSidecar == [][(scan' # scan /\ ~sidecar) => <<"sidecar", "write">> \in errors]_vars

(* "an allowlisted deal-critical sender" is exempt from the demotion for    *)
(* not being a stated priority (gate_cold_promotion).                       *)
PartnerStaysRed == [][\A e \in sec["cold_urgent"] :
  (/\ pc = "finalize" /\ pc' = "attach"
   /\ e.t.who = "critical" /\ e.t.subj = "plain" /\ e.t.sent < StaleDays
   /\ e.key \notin done)
  => e.key \in Keys(sec'["cold_urgent"])]_vars
=============================================================================
