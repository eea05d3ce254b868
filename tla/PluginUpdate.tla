------------------------------ MODULE PluginUpdate ------------------------------
(***************************************************************************)
(* The plugin's update notice (app/plugin_update.py).  Chats and scheduled *)
(* jobs, each of the version it was started from, look up what is published*)
(* and write it into one stamp; a chat asks about a newer version; a yes   *)
(* runs the client's own updater, a no is written into the stamp.  Nobody  *)
(* locks the stamp: it is read, and written whole, in place, a step later; *)
(* one that cannot be read is an empty one, and a write that fails is not  *)
(* heard of.  The release notes of the version a process runs have a stamp *)
(* of their own, whose read and write are one step here.                   *)
(***************************************************************************)
EXTENDS Integers, FiniteSetsExt

CONSTANTS
  Chats, Unattended,   \* sessions of the user, and jobs of the scheduler
  Latest,              \* bound: versions are 1 .. Latest
  MaxFaults, None

VARIABLES
  published, installed,
  stamp,       \* plugin-update.json: [published, available, declined, applied]; 0 is no version
  notes,       \* whats-new.json: [version, previous, shown], or None
  proc,        \* process -> [root, doing, about, key, base, rec], or None
  again,       \* history: versions somebody was asked about after they were answered
  answered,    \* history: the newest version of a recorded yes or no that is not lost
  rendered,    \* history: versions whose notes a chat has shown
  faults

history == <<again, answered, rendered>>
vars == <<published, installed, stamp, notes, proc, history, faults>>
-----------------------------------------------------------------------------
Fault == faults < MaxFaults /\ faults' = faults + 1
Processes == Chats \cup Unattended
Running(p, what) == proc[p] # None /\ proc[p].doing = what
Goes(p, what) == proc' = [proc EXCEPT ![p] = [@ EXCEPT !.doing = what]]
NewOf(S) == Max(S)

Blank == [published |-> 0, available |-> FALSE, declined |-> 0, applied |-> 0]
Process(root) ==
  [root |-> root, doing |-> "runs", about |-> 0, key |-> None, base |-> Blank, rec |-> Blank]
_read_stamp(s) == IF s = stamp THEN UNCHANGED faults ELSE s = Blank /\ Fault

(* What a check makes of the stamp it read: the answers are carried over,   *)
(* and a lookup that failed (0) keeps a newer version that an earlier one   *)
(* found.                                                                   *)
Uncarried(root, remote, s) ==                                                    \* mutant
  [published |-> remote, available |-> remote > root, declined |-> 0, applied |-> 0]
Checked(root, remote, s) ==
  LET kept == remote = 0 /\ s.available /\ s.published > root
  IN [s EXCEPT !.published = IF kept THEN @ ELSE remote, !.available = kept \/ remote > root]

Pending(root) ==
  /\ stamp.available
  /\ \A v \in {root, stamp.declined, stamp.applied} : v < stamp.published
-----------------------------------------------------------------------------
Init ==
  /\ published = 1 /\ installed = 1 /\ stamp = Blank
  /\ notes = None /\ proc = [p \in Processes |-> None]
  /\ again = {} /\ answered = 0 /\ rendered = {} /\ faults = 0

Publish ==
  /\ published < Latest /\ published' = published + 1
  /\ UNCHANGED <<installed, stamp, notes, proc, history, faults>>

(* A marketplace that updates by itself.                                    *)
AutoUpdate ==
  /\ installed < published /\ installed' = published
  /\ UNCHANGED <<published, stamp, notes, proc, history, faults>>

Start(p) ==
  /\ proc[p] = None
  /\ proc' = [proc EXCEPT ![p] = Process(installed)]
  /\ UNCHANGED <<published, installed, stamp, notes, history, faults>>

(* At most one lookup in a while, and one after every update: a stamp may be*)
(* taken as it is, which is no step.  A lookup may fail.                    *)
check(p) ==
  /\ Running(p, "runs") \/ Running(p, "moved")
  /\ \E remote \in {0, published}, s \in {stamp, Blank} :
       /\ _read_stamp(s)
       /\ proc' = [proc EXCEPT ![p] =
                     [@ EXCEPT !.doing = "checks", !.base = s, !.rec = Checked(proc[p].root, remote, s)]]
  /\ UNCHANGED <<published, installed, stamp, notes, history>>

(* The record goes over whatever is there by then.  If another answer was   *)
(* recorded since the read, or this one is older than the one it replaces,  *)
(* answers are lost; a write that fails leaves the old stamp or none, and so*)
(* does a death in it.                                                      *)
Over(p) ==
  \/ proc[p].base.declined # stamp.declined \/ proc[p].base.applied # stamp.applied
  \/ Running(p, "records") /\ proc[p].about < stamp[proc[p].key]
_write_stamp(p) ==
  LET next == IF Running(p, "checks") /\ proc[p].key # None THEN [proc[p] EXCEPT !.doing = "answers"]
              ELSE Process(proc[p].root)
  IN /\ Running(p, "checks") \/ Running(p, "records")
     /\ \/ /\ stamp' = proc[p].rec /\ proc' = [proc EXCEPT ![p] = next] /\ UNCHANGED faults
           /\ answered' = NewOf({IF Over(p) THEN 0 ELSE answered, IF Running(p, "records") THEN proc[p].about ELSE 0})
        \/ /\ stamp' \in {stamp, Blank} /\ Fault
           /\ \E x \in {next, None} : proc' = [proc EXCEPT ![p] = x]
           /\ answered' = IF stamp' = stamp THEN answered ELSE 0
  /\ UNCHANGED <<published, installed, notes, again, rendered>>

(* The question goes to a person: never from a job.                         *)
cached_notice(p) ==
  /\ p \in Chats /\ Running(p, "runs") /\ Pending(proc[p].root)
  /\ again' = again \cup ({stamp.published} \cap 1 .. answered)
  /\ Goes(p, "asks")
  /\ UNCHANGED <<published, installed, stamp, notes, answered, rendered, faults>>

(* "Not now" is recorded of the version the stamp names by then, if any: a  *)
(* lookup that failed in the newer plugin leaves none.                      *)
decline(p) ==
  /\ Running(p, "asks")
  /\ \E s \in {stamp, Blank} :
       /\ _read_stamp(s)
       /\ IF s.published = 0 THEN Goes(p, "runs")
          ELSE proc' = [proc EXCEPT ![p] = [@ EXCEPT !.doing = "answers", !.about = s.published, !.key = "declined"]]
  /\ UNCHANGED <<published, installed, stamp, notes, history>>

(* "Update now" runs the client: it moves the installed version, finds it   *)
(* has nothing to do, or fails; a client that cannot be run at all is not   *)
(* followed by a check.                                                     *)
apply_update(p) ==
  /\ Running(p, "asks")
  /\ \/ /\ installed < published /\ installed' = published /\ UNCHANGED faults
        /\ proc' = [proc EXCEPT ![p] = [@ EXCEPT !.doing = "moved", !.about = published, !.key = "applied"]]
     \/ installed = published /\ Goes(p, "moved") /\ UNCHANGED <<installed, faults>>
     \/ Fault /\ (Goes(p, "moved") \/ Goes(p, "runs")) /\ UNCHANGED installed
  /\ UNCHANGED <<published, stamp, notes, history>>

_stamp_answer(p) ==
  /\ Running(p, "answers")
  /\ \E s \in {stamp, Blank} :
       /\ _read_stamp(s)
       /\ proc' = [proc EXCEPT ![p] =
                     [@ EXCEPT !.doing = "records", !.base = s, !.rec = [s EXCEPT ![proc[p].key] = proc[p].about]]]
  /\ UNCHANGED <<published, installed, stamp, notes, history>>

(* The first run of another version than the stamp's records the change;    *)
(* the notes go into a briefing in a chat until they were shown.            *)
Recorded(root) ==
  IF notes = None THEN [version |-> root, previous |-> 0, shown |-> FALSE]
  ELSE IF notes.version # root THEN [version |-> root, previous |-> notes.version, shown |-> FALSE]
  ELSE notes
entries_between(since, until) == (since + 1) .. until

whats_new(p) ==
  /\ Running(p, "runs")
  /\ notes' = Recorded(proc[p].root)
  /\ IF p \in Chats /\ notes'.previous # 0 /\ ~ notes'.shown /\ entries_between(notes'.previous, notes'.version) # {}
     THEN Goes(p, "briefs") /\ rendered' = rendered \cup entries_between(notes'.previous, notes'.version)
     ELSE UNCHANGED <<proc, rendered>>
  /\ UNCHANGED <<published, installed, stamp, again, answered, faults>>

mark_notes_shown(p) ==
  /\ Running(p, "briefs") /\ Goes(p, "runs")
  /\ notes' = [notes EXCEPT !.shown = TRUE]
  /\ UNCHANGED <<published, installed, stamp, history, faults>>

Ends(p) ==
  /\ proc[p] # None /\ IF Running(p, "runs") THEN UNCHANGED faults ELSE Fault
  /\ proc' = [proc EXCEPT ![p] = None]
  /\ UNCHANGED <<published, installed, stamp, notes, history>>

Next ==
  \/ Publish \/ AutoUpdate
  \/ \E p \in Processes :
       \/ Start(p) \/ check(p) \/ _write_stamp(p) \/ cached_notice(p)
       \/ decline(p) \/ apply_update(p) \/ _stamp_answer(p)
       \/ whats_new(p) \/ mark_notes_shown(p) \/ Ends(p)

Spec == Init /\ [][Next]_vars
-----------------------------------------------------------------------------
(* "One no is one no", and so is a yes: once the answer is recorded nobody  *)
(* is asked about that version again, by any chat, old or new, whatever     *)
(* checks came between; only a stamp that was torn or not read, a record    *)
(* made before the answer and written after it, and an older answer written *)
(* over a newer one cost a question.                                        *)
NoIsNo == again = {}

(* "Being offline for a moment must not erase a question still owed": what  *)
(* a chat of root r would be asked about stays until an answer is recorded  *)
(* or the installed plugin has caught up; but for a fault, and a record     *)
(* written over what came since its read.                                   *)
Excused ==
  \/ faults' # faults
  \/ \E p \in Processes :
       (Running(p, "checks") \/ Running(p, "records")) /\ proc[p].base # stamp /\ proc'[p] # proc[p]
Owing ==
  \A r \in 1 .. Latest :
    Pending(r) /\ ~ Pending(r)' => \/ installed >= stamp.published
                                  \/ stamp'.declined > stamp.declined
                                  \/ stamp'.applied > stamp.applied
                                  \/ Excused
OwedStays == [][Owing]_vars

(* An answer is kept, and so is a question: the two together.               *)
AnswersKept == []NoIsNo /\ OwedStays

(* "Goes quiet for good": fails once chats of two versions take turns.      *)
(* Notes marked shown were shown: fails when the version changes while a    *)
(* briefing runs.                                                           *)
ShownWasShown == notes # None /\ notes.shown => notes.version \in rendered

(* "Keeps returning until a briefing renders it": fails when a second       *)
(* update comes before a chat.                                              *)
NotesReach == notes # None /\ notes.shown => \A v \in 2 .. notes.version : v \in rendered
=============================================================================
