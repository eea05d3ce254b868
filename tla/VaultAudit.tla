-------------------------------- MODULE VaultAudit --------------------------------
(***************************************************************************)
(* The vault audit: a sweep looks for findings, carries those of the last  *)
(* audits forward in a ledger, and writes what a report is checked against *)
(* (vault_gardener.run_sweep, audit_ledger).  A model writes the report.   *)
(***************************************************************************)
EXTENDS Integers, Sequences, FiniteSets, SequencesExt, FiniteSetsExt

CONSTANTS
  Findings,     \* 1 .. n, in the order of their ids
  Kind,         \* finding -> "source" (stub_source), "entity" (stub or orphan), "page" (stale_project),
                \*   "log" (log_failure), "job", "account", "probe" or "pick"
  LogLines,     \* MAX_LOG_LINES
  ArchiveAfter, Cap,            \* ARCHIVE_AFTER; LEDGER_MD_CAP
  LastDay, MaxTurns, MaxFaults, None   \* bounds: days; changes on disk; faults

VARIABLES
  day,
  present,      \* the findings there is a reason for, on disk; a line of a log as long as its
                \*   tail holds it and the log is recent
  folders,      \* the folders that can be read, and the scheduler ("job") if it can be asked
  configured,   \* the project pages of the configuration
  ledger,       \* vault_audit_ledger.json: finding -> [status, streak, first], or None
  printed,      \* the day of the last sweep that printed its table, or None
  report,       \* vault-audit.md: [day, pick], or None
  gone,         \* history: finding -> there was no reason for it since it was last found
  unread,       \* history: findings a sweep may have missed: a file unread, a line cut
  turns, faults

disk == <<present, folders, configured>>
files == <<ledger, printed, report>>
vars == <<day, disk, files, gone, unread, turns, faults>>
Folders == {k \in {"source", "entity", "log", "job"} : \E f \in Findings : Kind[f] = k}
Statuses == <<"reopened", "new", "open", "not_rechecked", "resolved">>           \* _SHOWN, in _ORDER
Fault == faults < MaxFaults /\ faults' = faults + 1
NoLedger == [f \in Findings |-> None]
-----------------------------------------------------------------------------
(* What a sweep finds: nothing in a folder that cannot be read, nothing in a*)
(* page, a log or an account's sidecar that cannot be read (or is too old), *)
(* and of the failures in the logs the first ones.  A project page that     *)
(* cannot be read is a finding.                                             *)
InFile(f) == Kind[f] \in {"source", "entity", "log", "account"}
Readable(f) == Kind[f] \in Folders => Kind[f] \in folders
Logged(missed) == {f \in present \ missed : Kind[f] = "log" /\ Readable(f)}
Cut(missed) == {f \in Logged(missed) : Cardinality({g \in Logged(missed) : g < f}) >= LogLines}
Found(missed) ==
  {f \in present \ (missed \cup Cut(missed)) : Readable(f) /\ (Kind[f] = "page" => f \in configured)}
(* The last report's pick is a finding, unless it was made today.           *)
previous_pick == IF report # None /\ report.day # day THEN {report.pick} ELSE {}
EveryScan == Folders \cup {"page", "probe", "account"}                            \* mutant
(* A scan counts as run if its folder is there: an unread file in it, and   *)
(* the sidecar all accounts are read from, are not asked about.             *)
_scans_run == folders \cup {"probe", "account"} \cup (IF configured # {} THEN {"page"} ELSE {})

(* A finding whose scan did not run is not called fixed.  A streak only has *)
(* to be told from ArchiveAfter, and is counted no further.                 *)
advance(prev, current, scans) ==
  [f \in Findings |->
    IF f \in current
    THEN IF prev[f] = None THEN [status |-> "new", streak |-> 0, first |-> day]
         ELSE [prev[f] EXCEPT !.status = IF @ \in {"resolved", "archived"} THEN "reopened" ELSE "open", !.streak = 0]
    ELSE IF prev[f] = None THEN None
    ELSE IF Kind[f] = "page" /\ f \notin configured THEN [prev[f] EXCEPT !.status = "no_longer_applicable"]
    ELSE IF Kind[f] \notin scans THEN [prev[f] EXCEPT !.status = "not_rechecked"]
    ELSE [prev[f] EXCEPT !.status = IF prev[f].streak + 1 >= ArchiveAfter THEN "archived" ELSE "resolved",
                         !.streak = IF @ < ArchiveAfter THEN @ + 1 ELSE @]]

shown_ids(l) ==
  LET shown == {f \in Findings : l[f] # None /\ l[f].status \in Range(Statuses)}
      Place(f) == CHOOSE i \in DOMAIN Statuses : Statuses[i] = l[f].status
  IN SetToSortSeq(shown, LAMBDA f, g :
       \/ Place(f) < Place(g)
       \/ Place(f) = Place(g) /\ (l[f].first < l[g].first \/ (l[f].first = l[g].first /\ f < g)))

(* The table keeps the first rows, and takes in one row of every status that*)
(* the summary counts and the cut would hide: each drives out the last row. *)
ledger_md(l) ==
  LET ids == shown_ids(l)
      Promote(t, s) ==
        LET of == {i \in DOMAIN t.tail : l[t.tail[i]].status = s}
        IN IF s \in t.seen \/ of = {} THEN t
           ELSE [head |-> Append(Front(t.head), t.tail[Min(of)]),
                 tail |-> <<Last(t.head)>> \o RemoveAt(t.tail, Min(of)),
                 seen |-> t.seen \cup {s}]
      head == SubSeq(ids, 1, Min({Cap, Len(ids)}))
  IN Range(FoldLeft(Promote, [head |-> head, tail |-> SubSeq(ids, Cap + 1, Len(ids)),
                              seen |-> {l[head[i]].status : i \in DOMAIN head}], Statuses).head)
-----------------------------------------------------------------------------
Init ==
  /\ day = 0 /\ present \in SUBSET {f \in Findings : Kind[f] # "pick"}
  /\ folders = Folders /\ configured = {f \in Findings : Kind[f] = "page"}
  /\ ledger = NoLedger /\ printed = None /\ report = None
  /\ gone = [f \in Findings |-> f \notin present] /\ unread = {} /\ turns = 0 /\ faults = 0

(* The sweep reads the ledger (one that cannot be read is an empty one) and *)
(* writes it, and then prints; it may die between the two.                  *)
run_sweep ==
  /\ \E prev \in {ledger, NoLedger}, missed \in SUBSET {f \in present : InFile(f)}, whole \in BOOLEAN :
       LET current == Found(missed) \cup previous_pick
           next == advance(prev, current, _scans_run)
       IN /\ IF prev = ledger /\ missed = {} /\ whole THEN UNCHANGED faults ELSE Fault
          /\ ledger' = next
          /\ printed' = IF whole THEN day ELSE printed
          /\ gone' = [f \in Findings |-> gone[f] /\ f \notin current]
          /\ unread' = (unread \cup missed \cup Cut(missed)) \ current
  /\ UNCHANGED <<day, disk, report, turns>>

(* The model pastes the table, and picks one thing to do.                   *)
Writes ==
  /\ printed # None
  /\ \E f \in Findings : Kind[f] = "pick" /\ report' = [day |-> printed, pick |-> f]
  /\ UNCHANGED <<day, disk, ledger, printed, gone, unread, turns, faults>>

(* The user: writes and deletes pages, moves folders, edits the             *)
(* configuration.                                                           *)
Turn == turns < MaxTurns /\ turns' = turns + 1
Changes(f) ==
  /\ Turn /\ Kind[f] # "pick"
  /\ present' = IF f \in present THEN present \ {f} ELSE present \cup {f}
  /\ gone' = [gone EXCEPT ![f] = @ \/ f \in present]
  /\ UNCHANGED <<day, folders, configured, files, unread, faults>>
Moves(k) ==
  /\ Turn /\ folders' = IF k \in folders THEN folders \ {k} ELSE folders \cup {k}
  /\ UNCHANGED <<day, present, configured, files, gone, unread, faults>>
Configures(f) ==
  /\ Turn /\ Kind[f] = "page"
  /\ configured' = IF f \in configured THEN configured \ {f} ELSE configured \cup {f}
  /\ UNCHANGED <<day, present, folders, files, gone, unread, faults>>
NextDay ==
  /\ day < LastDay /\ day' = day + 1
  /\ UNCHANGED <<disk, files, gone, unread, turns, faults>>

Next ==
  \/ run_sweep \/ Writes \/ NextDay
  \/ \E f \in Findings : Changes(f) \/ Configures(f)
  \/ \E k \in Folders : Moves(k)
Spec == Init /\ [][Next]_vars
-----------------------------------------------------------------------------
(* "Calling it fixed because we did not look" is the mistake the ledger is  *)
(* against: what it says is fixed was gone at some time since it was last   *)
(* found, or the page, the log or the account's record it stood in could    *)
(* not be read by a sweep that called its scan run, or its line was cut.    *)
FixedWasGone ==
  \A f \in Findings : ledger[f] # None /\ ledger[f].status \in {"resolved", "archived"} => gone[f] \/ f \in unread

(* "One that comes back is reopened."  It fails: a fixed finding whose scan *)
(* did not run is not checked, and when it comes back it was open all along.*)
BackIsReopened ==
  [][\A f \in Findings : ledger[f] # None /\ ledger[f].streak > 0 /\ ledger'[f] # None /\ ledger'[f].streak = 0
       => ledger'[f].status = "reopened"]_vars

(* "Every status the summary line mentions gets at least one visible row."  *)
(* It fails with two that are hidden: the second drives out the first.      *)
EachStatusShown ==
  \A f \in Range(shown_ids(ledger)) : \E g \in ledger_md(ledger) : ledger[g].status = ledger[f].status

(* The check asks for "only the rows the renderer actually emitted".  It    *)
(* fails: the rows that were driven out are asked for.                      *)
TableAccepted ==
  LET ids == shown_ids(ledger) IN Range(SubSeq(ids, 1, Min({Cap, Len(ids)}))) \subseteq ledger_md(ledger)
================================================================================
