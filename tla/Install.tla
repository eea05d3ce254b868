------------------------------- MODULE Install -------------------------------
(***************************************************************************)
(* The install (app/setup_flow.py, app/setup_state.py and the machine half *)
(* of app/setup_nudge.py).  A checklist of nine boxes is the only state.   *)
(* The install skill calls `next` in a loop: one call loads the list,      *)
(* takes the answer to the question it asked last, re-checks the boxes     *)
(* from disk, and runs the phases in order until one asks, waits, starts   *)
(* the two briefings or fails.  The reminder of 9:00 loads the same list,  *)
(* works on it for minutes and writes it back.                             *)
(*                                                                         *)
(* Bad outcomes (a script that fails, a client who corrects an answer, a   *)
(* killed session, an artifact that vanishes) are counted in `faults`.     *)
(***************************************************************************)
EXTENDS Naturals, FiniteSets

CONSTANTS
  Slots,          \* the accounts to sign in: the key file's, or one per provider
  Hinted,         \* the key file names them
  Losable,        \* the boxes whose artifact may vanish during a behaviour
  Legacy,         \* behaviours may start from an older install with no checklist
  MaxFaults,      \* how many bad outcomes a behaviour has
  MaxNudges,      \* how many times the reminder fires
  None

VARIABLES
  list,           \* checklist.json, or None
  stamp,          \* complete.json: the status of every box, or None
  disk,           \* what the checkers look at
  scan, ingest,   \* the detached jobs: the mail scan; the meeting summaries and the list they left
  mem, held, pc,  \* a running `next`: its copy of the list, the answer, the phase
  screen, reply,  \* what the session shows; the answer file
  nudge, nudges,  \* the reminder's copy of the list; how often it fired
  faults

vars == <<list, stamp, disk, scan, ingest, mem, held, pc, screen, reply, nudge, nudges, faults>>
session == <<mem, held, pc, screen, reply>>
-----------------------------------------------------------------------------
(* The checklist.                                                           *)
Boxes == {"plugin", "python", "credentials", "accounts", "vault", "jobs", "deals", "meetings", "briefings"}
RESOLVED == {"done", "skipped", "na"}
NEVER_SKIPPED == {"accounts", "vault"}
Asked == {"signin_link", "account_mismatch", "notetaker", "confirm", "schedule", "priorities", "deals"}

NoAnswers ==
  [accounts |-> {}, done |-> {}, redo |-> FALSE, link |-> None, notetaker |-> "", confirmed |-> FALSE,
   schedule |-> "", priorities |-> FALSE, scanned |-> FALSE, picked |-> "", started |-> {},
   dispatches |-> 0, open |-> FALSE]

new == [box |-> [b \in Boxes |-> "open"], pend |-> [b \in Boxes |-> None], degraded |-> None, ans |-> NoAnswers]

set_status(m, b, s) == [m EXCEPT !.box[b] = s, !.pend[b] = None]
Resolved(m, b) == m.box[b] \in RESOLVED
resolved(m) == \A b \in Boxes : Resolved(m, b)

(* What a checker says of a box: TRUE, FALSE, or None for no opinion.       *)
check(b, d) ==
  CASE b \in {"plugin", "python", "credentials"} -> b \in d.have
    [] b = "accounts" -> /\ \E s \in Slots : d.token[s] = "good"
                         /\ \A s \in Slots : d.token[s] # "expired"
    [] b = "vault" -> "vault" \in d.have
    [] b = "jobs" -> IF d.enabled THEN "jobs" \in d.have ELSE None
    [] b = "briefings" -> IF d.pages = "none" THEN None ELSE TRUE
    [] OTHER -> None

verify(m, d) ==
  LET Ticks(b) == check(b, d) = TRUE /\ m.box[b] \in {"open", "pending"}
      Opens(b) == check(b, d) = FALSE /\ m.box[b] = "done"
      Changes(b) == Ticks(b) \/ Opens(b)
  IN [m EXCEPT !.box = [b \in Boxes |-> IF Ticks(b) THEN "done" ELSE IF Opens(b) THEN "open" ELSE m.box[b]],
               !.pend = [b \in Boxes |-> IF Changes(b) THEN None ELSE m.pend[b]]]

_keyed == "key" \in disk.have
-----------------------------------------------------------------------------
(* The phases of a turn, in order; a resolved box is passed over unless the *)
(* answer is for it, two briefings are out, or an account is signed in      *)
(* again.                                                                   *)
Phases == <<"plugin", "python", "credentials", "accounts", "notetaker", "vault", "jobs", "deals",
            "join", "briefings", "finish">>
BoxOf(i) == IF Phases[i] \in {"notetaker", "join"} THEN "meetings" ELSE Phases[i]
Last == 11

Passed(m, a, i) ==
  /\ Resolved(m, BoxOf(i))
  /\ a = None \/ a.box # BoxOf(i)
  /\ ~ (Phases[i] = "briefings" /\ m.ans.open)
  /\ ~ (Phases[i] = "accounts" /\ m.ans.redo)

reach(m, a, i) == CHOOSE j \in i .. Last : /\ j = Last \/ ~ Passed(m, a, j)
                                           /\ \A k \in i .. j - 1 : Passed(m, a, k)

At(p) == pc # 0 /\ Phases[pc] = p
Mine == IF held # None /\ held.box = BoxOf(pc) THEN held ELSE None
Left == IF Mine = None THEN held ELSE None

(* A phase that is through: what it saved, on to the next one due.          *)
Through(m) ==
  LET c == IF m.degraded = BoxOf(pc) /\ Resolved(m, BoxOf(pc)) THEN [m EXCEPT !.degraded = None] ELSE m
  IN /\ mem' = c /\ list' = mem' /\ held' = Left
     /\ pc' = reach(mem', Left, pc + 1)
     /\ UNCHANGED <<screen, reply>>
(* A phase that ends the turn.                                              *)
Ends(m, shows) == /\ list' = m /\ mem' = None /\ held' = None /\ pc' = 0
                  /\ screen' = shows /\ UNCHANGED reply
_prompt(m, b, q) == Ends([m EXCEPT !.pend[b] = q], q)
StepError(m) == Ends(m, "error")
_degrade(m, b) == [set_status(m, b, "pending") EXCEPT !.degraded = b]

Fault == faults < MaxFaults /\ faults' = faults + 1
NoFault == UNCHANGED faults
Detached == UNCHANGED <<scan, ingest>>
Quiet == UNCHANGED <<stamp, nudge, nudges>>

(* The background jobs, each started once and none before there is a vault. *)
Started(m, d) ==
  IF "vault" \notin d.have THEN {}
  ELSE ({"scan"} \cup (IF m.ans.notetaker \in {"", "none"} THEN {} ELSE {"summaries"})) \ m.ans.started
_start_background(m, d) ==
  LET s == Started(m, d)
      n == [m EXCEPT !.ans.started = @ \cup s]
  IN IF "summaries" \in s THEN set_status(n, "meetings", "pending") ELSE n
start_ingest == [ingest EXCEPT !.job = "running"]      \* an older list stays until the new one is written
Starts(m, d) == /\ scan' = IF "scan" \in Started(m, d) THEN "running" ELSE scan
                /\ ingest' = IF "summaries" \in Started(m, d) THEN start_ingest ELSE ingest
-----------------------------------------------------------------------------
(* What `finish` and the re-checks make of the list and the stamp.          *)
Trusted(m) == m                                                 \* mutant
Rechecked(m) == verify(m, disk)

Finished(m) == [box |-> m.box, notetaker |-> m.ans.notetaker, schedule |-> m.ans.schedule]
FromStamp(checked) ==
  LET was == [new EXCEPT !.box = [b \in Boxes |-> IF stamp.box[b] = "open" THEN "done" ELSE stamp.box[b]],
                         !.ans.notetaker = stamp.notetaker, !.ans.schedule = stamp.schedule]
      now == verify(was, disk)
  IN [was EXCEPT !.box = [b \in Boxes |-> IF b \in checked THEN now.box[b] ELSE was.box[b]]]

finish ==
  /\ At("finish") /\ NoFault /\ Detached /\ UNCHANGED <<disk, nudge, nudges>>
  /\ mem' = None /\ held' = None /\ pc' = 0 /\ UNCHANGED reply
  /\ LET m == Rechecked(mem)
     IN IF m.degraded # None \/ ~ resolved(m)
        THEN list' = m /\ screen' = "incomplete" /\ UNCHANGED stamp
        ELSE list' = None /\ screen' = "complete" /\ stamp' = Finished(m)
-----------------------------------------------------------------------------
Init ==
  /\ list = None /\ stamp = None /\ scan = "none" /\ ingest = [job |-> "none", left |-> "none"]
  /\ mem = None /\ held = None /\ pc = 0 /\ screen = "" /\ reply = None
  /\ nudge = None /\ faults = 0
  /\ \/ /\ nudges = 0
        /\ disk = [have |-> {"plugin", "python"}, token |-> [s \in Slots |-> "none"], enabled |-> FALSE, pages |-> "none"]
     \/ /\ Legacy /\ nudges = MaxNudges                 \* bound: the reminder is studied on new installs
        /\ \E extra \in SUBSET {"jobs", "filed", "deals", "key"} :
             disk = [have |-> {"plugin", "python", "credentials", "vault"} \cup extra, enabled |-> "jobs" \in extra,
                     token |-> [s \in Slots |-> "good"], pages |-> "none"]

(* The setup script: the plugin and its Python are there, the key file is   *)
(* installed.                                                               *)
cmd_prepare ==
  /\ pc = 0 /\ "vault" \notin disk.have
  /\ (list = None /\ stamp = None) \/ ~ {"plugin", "python"} \subseteq disk.have
  /\ \E key \in BOOLEAN :
       /\ IF key THEN NoFault ELSE Fault
       /\ disk' = [disk EXCEPT !.have = @ \cup {"plugin", "python"} \cup (IF key THEN {"credentials"} ELSE {})]
  /\ list' = verify(IF list = None THEN new ELSE list, disk')
  /\ Detached /\ Quiet /\ UNCHANGED session

(* A call of `next`.  The answer is matched to its question before the      *)
(* boxes are re-checked.                                                    *)
_take_answer(m) ==
  IF reply = None THEN None
  ELSE LET b == {x \in Boxes : m.pend[x] = reply.q}
       IN IF b = {} THEN None ELSE [box |-> CHOOSE x \in b : TRUE, q |-> reply.q, v |-> reply.v]

run_next ==
  /\ pc = 0 /\ screen \notin Asked \cup {"dispatch"}
  /\ screen = "complete" => list # None
  /\ NoFault /\ Detached /\ Quiet /\ UNCHANGED disk /\ reply' = None
  /\ LET was == IF list # None THEN list
                ELSE IF stamp # None THEN FromStamp(Boxes \ {"briefings"}) ELSE new
         a == _take_answer(was)
         m == verify(IF a = None THEN was ELSE [was EXCEPT !.pend[a.box] = None], disk)
     IN IF list = None /\ stamp # None /\ resolved(was)
        THEN screen' = "complete" /\ UNCHANGED <<list, mem, held, pc>>
        ELSE /\ mem' = m /\ list' = mem' /\ held' = a /\ pc' = reach(mem', a, 1) /\ screen' = ""

Stay(m, left) == mem' = m /\ list' = m /\ held' = left /\ UNCHANGED <<pc, screen, reply>>

step_machine_box ==
  /\ pc \in 1 .. 3 /\ Detached /\ Quiet
  /\ \/ BoxOf(pc) \in disk.have /\ NoFault /\ UNCHANGED disk /\ Through(verify(mem, disk))
     \/ /\ BoxOf(pc) \notin disk.have
        /\ \/ /\ Phases[pc] = "credentials" /\ NoFault
              /\ disk' = [disk EXCEPT !.have = @ \cup {"credentials"}]
              /\ Through(verify(mem, disk'))
           \/ /\ IF Phases[pc] = "credentials" THEN Fault ELSE NoFault
              /\ UNCHANGED disk /\ StepError(verify(mem, disk))

(* One call of auth_bootstrap and what is made of its reply: an account, a  *)
(* link to sign in by, another address than the key file's, or a failure,   *)
(* which skips a provider nobody named once one account is there.           *)
_put_account(m, s) == [m EXCEPT !.ans.accounts = @ \cup {s}, !.ans.done = @ \cup {s}, !.ans.link = None]
Token(s) == disk' = [disk EXCEPT !.token[s] = "good"]
_take_signin(m, s) ==
  \/ NoFault /\ Token(s) /\ Stay(_put_account(m, s), Left)
  \/ Fault /\ UNCHANGED disk /\ _prompt([m EXCEPT !.ans.link = s], "accounts", "signin_link")
  \/ Fault /\ Hinted /\ Token(s) /\ _prompt([m EXCEPT !.ans.link = s], "accounts", "account_mismatch")
  \/ /\ Fault /\ UNCHANGED disk
     /\ IF ~ Hinted /\ m.ans.accounts # {} THEN Stay([m EXCEPT !.ans.done = @ \cup {s}], Left) ELSE StepError(m)

step_accounts ==
  /\ At("accounts") /\ Quiet
  /\ LET a == Mine
         s == mem.ans.link
         m == [mem EXCEPT !.ans.link = None]
         due == Slots \ mem.ans.done
     IN \/ a # None /\ s # None /\ a.q = "account_mismatch" /\ NoFault /\ Detached /\ UNCHANGED disk
           /\ Stay(IF a.v = "use" THEN _put_account(m, s) ELSE m, Left)
        \/ a # None /\ s # None /\ a.q = "signin_link" /\ Detached
           /\ IF a.v = "later" THEN NoFault /\ UNCHANGED disk /\ StepError(m) ELSE _take_signin(m, s)
        \/ (a = None \/ s = None) /\ due # {} /\ Detached /\ \E t \in due : _take_signin(mem, t)
        \/ /\ (a = None \/ s = None) /\ due = {} /\ NoFault /\ UNCHANGED disk
           /\ LET v == verify([m EXCEPT !.ans.redo = FALSE], disk)
              IN IF v.box["accounts"] # "done" THEN StepError(v) /\ Detached
                 ELSE Through(_start_background(v, disk)) /\ Starts(v, disk)

step_notetaker ==
  /\ At("notetaker") /\ Quiet
  /\ \/ mem.ans.notetaker # "" /\ NoFault /\ Through(mem) /\ Detached /\ UNCHANGED disk
     \/ /\ mem.ans.notetaker = ""
        /\ \/ Mine = None /\ NoFault /\ _prompt(mem, "meetings", "notetaker") /\ Detached /\ UNCHANGED disk
           \/ /\ Mine # None /\ Mine.v = "none" /\ NoFault /\ Detached /\ UNCHANGED disk
              /\ Through(set_status([mem EXCEPT !.ans.notetaker = "none"], "meetings", "na"))
           \/ Mine # None /\ Mine.v = "key" /\ Fault /\ _prompt(mem, "meetings", "notetaker") /\ Detached /\ UNCHANGED disk
           \/ /\ Mine # None /\ Mine.v = "key" /\ NoFault
              /\ disk' = [disk EXCEPT !.have = @ \cup {"key"}]
              /\ LET m == set_status([mem EXCEPT !.ans.notetaker = "granola"], "meetings", "pending")
                 IN Through(_start_background(m, disk)) /\ Starts(m, disk)

(* The details, then the folder, the settings and one test call per         *)
(* account; an account that fails it is signed in again on resume.          *)
step_vault ==
  /\ At("vault") /\ Quiet
  /\ LET accounts == IF mem.ans.accounts # {} THEN mem.ans.accounts ELSE {s \in Slots : disk.token[s] # "none"}
         m == [mem EXCEPT !.ans.accounts = accounts, !.ans.confirmed = TRUE]
         Bad == {s \in accounts : disk.token[s] = "expired"}
         Redo(s) == [m EXCEPT !.ans.done = @ \ {s}, !.ans.redo = TRUE]
         Written == disk' = [disk EXCEPT !.have = @ \cup {"vault"}]
     IN \/ mem.box["vault"] = "done" /\ NoFault /\ Detached /\ UNCHANGED disk /\ Through(mem)
        \/ /\ mem.box["vault"] # "done" /\ ~ mem.ans.confirmed /\ Detached /\ UNCHANGED disk
           /\ \/ Mine = None /\ NoFault /\ _prompt(mem, "vault", "confirm")
              \/ Mine # None /\ Mine.v = "change" /\ NoFault /\ _prompt(mem, "vault", "confirm")
              \/ Mine # None /\ Mine.v = "yes" /\ NoFault /\ Stay([mem EXCEPT !.ans.confirmed = TRUE], Left)
        \/ /\ mem.box["vault"] # "done" /\ mem.ans.confirmed
           /\ \/ Fault /\ Detached /\ UNCHANGED disk /\ _prompt([mem EXCEPT !.ans.confirmed = FALSE], "vault", "confirm")
              \/ /\ accounts = {} \/ \E s \in accounts : disk.token[s] = "none"
                 /\ NoFault /\ Detached /\ UNCHANGED disk /\ StepError(m)
              \/ /\ accounts # {} /\ \A s \in accounts : disk.token[s] # "none"
                 /\ Written
                 /\ \/ \E s \in Bad : NoFault /\ Detached /\ StepError(Redo(s))
                    \/ \E s \in accounts \ Bad : Fault /\ Detached /\ StepError(Redo(s))
                    \/ Bad = {} /\ NoFault /\ Through(_start_background(verify(m, disk'), disk')) /\ Starts(m, disk')

step_jobs ==
  /\ At("jobs") /\ Detached /\ Quiet
  /\ \/ Resolved(mem, "jobs") /\ NoFault /\ UNCHANGED disk /\ Through(mem)
     \/ /\ ~ Resolved(mem, "jobs") /\ mem.ans.schedule = "" /\ UNCHANGED disk
        /\ \/ Mine = None /\ NoFault /\ _prompt(mem, "jobs", "schedule")
           \/ Mine # None /\ Mine.v = "change" /\ NoFault /\ _prompt(mem, "jobs", "schedule")
           \/ Mine # None /\ Mine.v \in {"all", "none"} /\ NoFault /\ Stay([mem EXCEPT !.ans.schedule = Mine.v], Left)
     \/ /\ ~ Resolved(mem, "jobs") /\ mem.ans.schedule = "none" /\ NoFault
        /\ disk' = [disk EXCEPT !.enabled = FALSE]
        /\ Through(set_status(mem, "jobs", "skipped"))
     \/ /\ ~ Resolved(mem, "jobs") /\ mem.ans.schedule = "all"
        /\ \/ /\ NoFault /\ disk' = [disk EXCEPT !.enabled = TRUE, !.have = @ \cup {"jobs"}]
              /\ Through(verify(mem, disk'))
           \/ /\ Fault /\ disk' = [disk EXCEPT !.enabled = TRUE]
              /\ LET m == verify(mem, disk') IN IF m.box["jobs"] = "done" THEN Through(m) ELSE StepError(m)

_wait(m) == Ends(m, "wait")

(* Priorities, then the scan, then the deals it proposes, then the ticked   *)
(* ones filed.                                                              *)
step_deals ==
  /\ At("deals") /\ Quiet
  /\ IF Resolved(mem, "deals") THEN NoFault /\ Detached /\ UNCHANGED disk /\ Through(mem)
     ELSE
     LET m == _start_background(mem, disk)
         Answered(q) == Mine # None /\ Mine.q = q
     IN /\ Starts(mem, disk)
        /\ \/ /\ ~ m.ans.priorities /\ UNCHANGED disk /\ NoFault
              /\ IF Answered("priorities") THEN Stay([m EXCEPT !.ans.priorities = TRUE], Left)
                 ELSE _prompt(m, "deals", "priorities")
           \/ /\ m.ans.priorities /\ ~ m.ans.scanned /\ UNCHANGED disk
              /\ \/ scan \in {"none", "running"} /\ NoFault /\ _wait(m)
                 \/ scan = "done" /\ NoFault /\ Stay([m EXCEPT !.ans.scanned = TRUE], held)
                 \/ scan = "dead" /\ NoFault /\ StepError(m)
                 \/ scan # "dead" /\ Fault /\ Through(_degrade(m, "deals"))
           \/ /\ m.ans.priorities /\ m.ans.scanned /\ m.ans.picked = "" /\ UNCHANGED disk
              /\ \/ Answered("deals") /\ NoFault /\ Stay([m EXCEPT !.ans.picked = Mine.v], Left)
                 \/ ~ Answered("deals") /\ NoFault /\ _prompt(m, "deals", "deals")
                 \/ ~ Answered("deals") /\ NoFault /\ Stay([m EXCEPT !.ans.picked = "nothing"], Left)
                 \/ ~ Answered("deals") /\ Fault /\ (StepError(m) \/ Through(_degrade(m, "deals")))
           \/ /\ m.ans.priorities /\ m.ans.scanned /\ m.ans.picked # ""
              /\ \/ /\ m.ans.picked = "some" /\ NoFault
                    /\ disk' = [disk EXCEPT !.have = @ \cup {"deals"}]
                    /\ Through(set_status(m, "deals", "done"))
                 \/ /\ m.ans.picked = "some" /\ Fault /\ UNCHANGED disk
                    /\ StepError(m) \/ _prompt([m EXCEPT !.ans.picked = ""], "deals", "deals")
                 \/ /\ m.ans.picked \in {"none", "nothing"} /\ NoFault /\ UNCHANGED disk
                    /\ Through(set_status(m, "deals", IF m.ans.picked = "none" /\ "deals" \notin disk.have
                                                      THEN "skipped" ELSE "done"))

StaysStarted(m) == m                                            \* mutant
Unstarted(m) == [m EXCEPT !.ans.started = @ \ {"summaries"}]

(* The meetings filed once their summaries are written; when there are none *)
(* to file, the summaries are started again.                                *)
step_meetings_join ==
  /\ At("join") /\ Quiet /\ scan' = scan
  /\ IF Resolved(mem, "meetings") \/ mem.ans.notetaker \in {"", "none"}
     THEN /\ NoFault /\ UNCHANGED <<disk, ingest>>
          /\ Through(IF Resolved(mem, "meetings") THEN mem ELSE set_status(mem, "meetings", "na"))
     ELSE
     LET again == IF mem.degraded = "meetings" THEN Unstarted(mem) ELSE mem
         starts == "summaries" \in Started(again, disk)
         m == IF starts THEN set_status([again EXCEPT !.ans.started = @ \cup {"summaries"}], "meetings", "pending")
              ELSE again
         now == IF starts THEN start_ingest ELSE ingest
     IN \/ now.left = "none" /\ now.job = "running" /\ ingest' = now /\ NoFault /\ UNCHANGED disk /\ _wait(m)
        \/ /\ now.left = "none" /\ now.job = "none" /\ NoFault /\ UNCHANGED disk
           /\ LET n == Unstarted(m)
              IN /\ ingest' = IF "summaries" \in Started(n, disk) THEN start_ingest ELSE now
                 /\ _wait(_start_background(n, disk))
        \/ /\ now.left = "all" /\ NoFault /\ ingest' = now
           /\ disk' = [disk EXCEPT !.have = @ \cup {"filed"}]
           /\ Through(set_status(m, "meetings", "done"))
        \/ now.left = "some" /\ NoFault /\ ingest' = now /\ UNCHANGED disk /\ Through(_degrade(m, "meetings"))
        \/ Fault /\ ingest' = now /\ UNCHANGED disk /\ StepError(m)

(* The two briefings: started, then looked for on disk, started once more   *)
(* when a page is missing or old.                                           *)
step_briefings ==
  /\ At("briefings") /\ Detached /\ Quiet
  /\ LET looked == [mem EXCEPT !.ans.open = FALSE]
     IN \/ /\ ~ mem.ans.open /\ mem.box["briefings"] = "done" /\ NoFault /\ UNCHANGED disk /\ Through(mem)
        \/ /\ mem.ans.open /\ disk.pages = "fresh" /\ NoFault /\ UNCHANGED disk
           /\ Through(set_status(looked, "briefings", "done"))
        \/ /\ mem.ans.open /\ disk.pages # "fresh" /\ mem.ans.dispatches >= 2
           /\ NoFault /\ UNCHANGED disk /\ StepError(looked)
        \/ ~ mem.ans.open /\ mem.box["briefings"] # "done" /\ Fault /\ UNCHANGED disk /\ Through(_degrade(mem, "briefings"))
        \/ /\ IF mem.ans.open THEN disk.pages # "fresh" /\ mem.ans.dispatches < 2 ELSE mem.box["briefings"] # "done"
           /\ NoFault
           /\ disk' = [disk EXCEPT !.pages = IF @ = "fresh" THEN "old" ELSE @]
           /\ Ends(set_status([mem EXCEPT !.ans.open = TRUE, !.ans.dispatches = IF @ < 2 THEN @ + 1 ELSE @],
                              "briefings", "pending"), "dispatch")
-----------------------------------------------------------------------------
(* Around the turns: the client answers or closes the window, the agents    *)
(* write the briefings, the jobs end, artifacts vanish.                     *)
Choices(q) ==
  CASE q = "signin_link" -> {"signed", "later"} [] q = "account_mismatch" -> {"use", "again"}
    [] q = "notetaker" -> {"key", "none"} [] q = "confirm" -> {"yes", "change"}
    [] q = "schedule" -> {"all", "none", "change"} [] q = "priorities" -> {"some"} [] OTHER -> {"some", "none"}

Answers ==
  /\ screen \in Asked
  /\ \E v \in Choices(screen) :
       /\ IF v \in {"later", "again", "change"} THEN Fault ELSE NoFault
       /\ reply' = [q |-> screen, v |-> v]
  /\ screen' = "" /\ Detached /\ Quiet /\ UNCHANGED <<list, disk, mem, held, pc>>

AgentsWrite ==
  /\ screen = "dispatch" /\ screen' = ""
  /\ \/ NoFault /\ disk' = [disk EXCEPT !.pages = "fresh"]
     \/ Fault /\ UNCHANGED disk
  /\ Detached /\ Quiet /\ UNCHANGED <<list, mem, held, pc, reply>>

SessionDies ==
  /\ pc # 0 \/ screen \in Asked \cup {"dispatch"} \/ reply # None
  /\ Fault /\ mem' = None /\ held' = None /\ pc' = 0 /\ screen' = "" /\ reply' = None
  /\ \/ UNCHANGED disk
     \/ At("accounts") /\ \E s \in Slots : Token(s)          \* signed in, not yet saved
  /\ Detached /\ Quiet /\ UNCHANGED list

JobsEnd ==
  /\ \/ scan = "running" /\ scan' = "done" /\ UNCHANGED ingest /\ NoFault
     \/ scan = "running" /\ scan' = "dead" /\ UNCHANGED ingest /\ Fault
     \/ ingest.job = "running" /\ ingest' = [job |-> "none", left |-> "all"] /\ UNCHANGED scan /\ NoFault
     \/ ingest.job = "running" /\ ingest' = [job |-> "none", left |-> "some"] /\ UNCHANGED scan /\ Fault
     \/ ingest.job = "running" /\ ingest' = [ingest EXCEPT !.job = "none"] /\ UNCHANGED scan /\ Fault
  /\ Quiet /\ UNCHANGED <<list, disk, session>>

Vanishes ==
  /\ Fault /\ Detached /\ Quiet /\ UNCHANGED <<list, session>>
  /\ \/ \E b \in Losable \cap disk.have : disk' = [disk EXCEPT !.have = @ \ {b}]
     \/ "accounts" \in Losable /\ \E s \in Slots : disk.token[s] = "good" /\ disk' = [disk EXCEPT !.token[s] = "expired"]

(* "Skip this step": any box but the two that can never be skipped.         *)
skip_box ==
  /\ pc = 0 /\ list # None /\ Fault
  /\ \E b \in Boxes \ NEVER_SKIPPED :
       /\ ~ Resolved(list, b)
       /\ LET m == set_status(list, b, "skipped")
              v == Rechecked(m)
          IN IF resolved(m) /\ m.degraded = None /\ resolved(v)
             THEN list' = None /\ stamp' = Finished(v) /\ screen' = "complete"
             ELSE list' = m /\ UNCHANGED <<stamp, screen>>
  /\ Detached /\ UNCHANGED <<disk, mem, held, pc, reply, nudge, nudges>>

(* The reminder finishes the boxes that need no human, on the copy of the   *)
(* list it loaded, and writes that copy back.                               *)
NudgeLoads ==
  /\ nudges < MaxNudges /\ nudge = None /\ list # None
  /\ nudge' = list /\ nudges' = nudges + 1
  /\ Detached /\ UNCHANGED <<list, stamp, disk, session, faults>>

finish_machine_boxes ==
  /\ nudge # None /\ nudge' = None /\ scan' = scan /\ UNCHANGED <<stamp, disk, session, nudges>>
  /\ LET m == verify(nudge, disk)
     IN \/ Resolved(m, "meetings") /\ list' = m /\ UNCHANGED <<ingest, faults>>
        \/ ~ Resolved(m, "meetings") /\ ~ _keyed /\ list' = set_status(m, "meetings", "na") /\ UNCHANGED <<ingest, faults>>
        \/ /\ ~ Resolved(m, "meetings") /\ _keyed
           /\ \/ /\ ingest.left = "none" /\ NoFault /\ ingest' = start_ingest
                 /\ list' = set_status(m, "meetings", "pending")
              \/ ingest.left = "all" /\ NoFault /\ UNCHANGED ingest /\ list' = set_status(m, "meetings", "done")
              \/ ingest.left = "some" /\ NoFault /\ UNCHANGED ingest /\ list' = _degrade(m, "meetings")
              \/ Fault /\ UNCHANGED ingest /\ list' = set_status(m, "meetings", "open")

(* Every command re-checks a stamped install; a broken box reopens the list. *)
stamp_check_quietly ==
  /\ stamp # None /\ list = None
  /\ LET m == FromStamp({"credentials", "accounts", "vault", "jobs"}) IN ~ resolved(m) /\ list' = m
  /\ Detached /\ NoFault /\ Quiet /\ UNCHANGED <<disk, session>>

(* An install older than the checklist is adopted from disk.                *)
adopt ==
  /\ list = None /\ stamp = None /\ "vault" \in disk.have
  /\ LET v == verify(new, disk)
         Filed == IF "filed" \in disk.have THEN "done" ELSE IF _keyed THEN "pending" ELSE "na"
         m == [v EXCEPT !.box["meetings"] = Filed,
                        !.box["deals"] = IF "deals" \in disk.have THEN "done" ELSE "open",
                        !.box["jobs"] = IF @ = "open" /\ ~ disk.enabled THEN "skipped" ELSE @,
                        !.box["briefings"] = IF @ = "open" THEN "na" ELSE @]
     IN /\ ingest' = IF Filed = "pending" THEN start_ingest ELSE ingest
        /\ IF resolved(m) THEN stamp' = Finished(m) /\ screen' = "complete" /\ UNCHANGED list
           ELSE list' = m /\ UNCHANGED <<stamp, screen>>
  /\ pc = 0 /\ scan' = scan /\ NoFault /\ UNCHANGED <<disk, mem, held, pc, reply, nudge, nudges>>
-----------------------------------------------------------------------------
Goes ==
  \/ run_next \/ step_machine_box \/ step_accounts \/ step_notetaker \/ step_vault \/ step_jobs \/ step_deals
  \/ step_meetings_join \/ step_briefings \/ finish
Next ==
  \/ Goes \/ cmd_prepare \/ Answers \/ AgentsWrite \/ SessionDies \/ JobsEnd \/ Vanishes \/ skip_box
  \/ NudgeLoads \/ finish_machine_boxes \/ stamp_check_quietly \/ adopt

Spec == Init /\ [][Next]_vars
(* The client keeps coming back, the detached jobs and the reminder end.    *)
FairSpec == Spec /\ WF_vars(Goes) /\ WF_vars(Answers) /\ WF_vars(AgentsWrite) /\ WF_vars(JobsEnd)
                 /\ WF_vars(cmd_prepare) /\ WF_vars(finish_machine_boxes) /\ WF_vars(adopt)
-----------------------------------------------------------------------------
(* A stamp is true when it is written: no box it calls done fails its check *)
(* on disk at that moment, whatever vanished since the box was ticked       *)
(* (setup_flow.finish, adopt).                                              *)
StampIsTrue ==
  [][stamp' # stamp => \A b \in Boxes : stamp'.box[b] = "done" => check(b, disk') # FALSE]_vars

(* The install ends: whatever fails, dies or vanishes a bounded number of   *)
(* times, a client who keeps coming back gets to a stamp with no list left  *)
(* (setup_flow.py: "a crash, a closed laptop or a new session resumes"),    *)
(* unless it is stuck in one of three ways the code has no step out of.     *)
Stuck ==
  \/ list # None /\ list.degraded # None /\ Resolved(list, list.degraded)      \* a usage limit's note outlives its box
  \/ scan = "dead"                                                              \* nothing starts the scan again
  \/ list # None /\ list.ans.done = Slots /\ \A s \in Slots : disk.token[s] # "good"   \* nor signs in again
InstallEnds == []<>((stamp # None /\ list = None) \/ Stuck)

(* "The install completes when that was the last open one": a skip that     *)
(* leaves no box open removes the list (setup_flow.skip_box).               *)
SkipCompletes == [][skip_box /\ list' # None => ~ resolved(list')]_vars
=============================================================================
