----------------------------- MODULE InstallProofs -----------------------------
(***************************************************************************)
(* Proofs about the install (Install), for any accounts, artifacts that    *)
(* may vanish, faults and reminders.                                       *)
(***************************************************************************)
EXTENDS Install, TLAPS

(* What a session, the reminder and the file have of the list has its boxes. *)
Boxed(m) == "box" \in DOMAIN m
Lists ==
  /\ list # None => Boxed(list)
  /\ pc # 0 => Boxed(mem)
  /\ nudge # None => Boxed(nudge)

LEMMA StillBoxed ==
  ASSUME NEW m, Boxed(m)
  PROVE  /\ \A b, s : Boxed(set_status(m, b, s)) /\ Boxed(_degrade(m, b))
         /\ \A d : Boxed(verify(m, d)) /\ Boxed(_start_background(m, d))
         /\ \A s : Boxed(_put_account(m, s)) /\ Boxed(Unstarted(m))
<1>1. \A b, s : Boxed(set_status(m, b, s))
  BY DEF Boxed, set_status
<1>2. ASSUME NEW b PROVE Boxed(_degrade(m, b))
  <2>1. PICK n : n = set_status(m, b, "pending")
    OBVIOUS
  <2>2. Boxed(n)
    BY <1>1, <2>1
  <2> QED
    BY <2>1, <2>2 DEF Boxed, _degrade
<1>3. ASSUME NEW d PROVE Boxed(verify(m, d))
  BY DEF Boxed, verify
<1>4. ASSUME NEW d PROVE Boxed(_start_background(m, d))
  <2>1. PICK n : n = [m EXCEPT !.ans.started = @ \cup Started(m, d)]
    OBVIOUS
  <2>2. Boxed(n)
    BY <2>1 DEF Boxed
  <2>3. Boxed(set_status(n, "meetings", "pending"))
    BY <2>2 DEF Boxed, set_status
  <2> QED
    BY <2>1, <2>2, <2>3 DEF _start_background
<1>5. \A s : Boxed(_put_account(m, s)) /\ Boxed(Unstarted(m))
  BY DEF Boxed, _put_account, Unstarted
<1> QED
  BY <1>1, <1>2, <1>3, <1>4, <1>5

(* A turn that stays in its phase, is through with it, or ends.             *)
Turns(m) == Boxed(m) /\ (Through(m) \/ (\E x : Stay(m, x)) \/ \E x : Ends(m, x))

LEMMA TurnKeeps == ASSUME Lists, NEW m, Turns(m), UNCHANGED nudge PROVE Lists'
<1>1. CASE Through(m)
  <2>1. Boxed(mem') /\ list' = mem'
    BY <1>1 DEF Turns, Through, Boxed
  <2> QED
    BY <2>1 DEF Lists, Boxed
<1>2. ASSUME NEW x, Stay(m, x) PROVE Lists'
  BY <1>2 DEF Turns, Stay, Lists, Boxed
<1>3. ASSUME NEW x, Ends(m, x) PROVE Lists'
  BY <1>3 DEF Turns, Ends, Lists, Boxed
<1> QED
  BY <1>1, <1>2, <1>3 DEF Turns

Turned == \E n : Turns(n)
LEMMA TurnedBy ==
  /\ \A m : Boxed(m) /\ Through(m) => Turned
  /\ \A m, x : Boxed(m) /\ Stay(m, x) => Turned
  /\ \A m, b, q : Boxed(m) /\ _prompt(m, b, q) => Turned
  /\ \A m : Boxed(m) /\ (StepError(m) \/ _wait(m)) => Turned
<1>1. ASSUME NEW m, NEW b, NEW q, Boxed(m), _prompt(m, b, q) PROVE Turned
  <2>1. PICK n : n = [m EXCEPT !.pend[b] = q]
    OBVIOUS
  <2>2. Boxed(n)
    BY <1>1, <2>1 DEF Boxed
  <2> QED
    BY <1>1, <2>1, <2>2 DEF Turned, Turns, _prompt
<1> QED
  BY <1>1 DEF Turned, Turns, StepError, _wait

LEMMA MachineTurns == ASSUME Boxed(mem), step_machine_box PROVE Turned
  BY TurnedBy, StillBoxed DEF step_machine_box

LEMMA SigninTurns == ASSUME NEW m, Boxed(m), NEW s, _take_signin(m, s) PROVE Turned
<1>1. Boxed([m EXCEPT !.ans.link = s]) /\ Boxed([m EXCEPT !.ans.done = @ \cup {s}]) /\ Boxed(_put_account(m, s))
  BY StillBoxed DEF Boxed
<1> QED
  BY <1>1, TurnedBy, Zenon DEF _take_signin

LEMMA AccountsTurn == ASSUME Boxed(mem), step_accounts PROVE Turned
<1>1. PICK a, s, m, v, due : /\ a = Mine /\ s = mem.ans.link /\ m = [mem EXCEPT !.ans.link = None]
                           /\ v = verify([m EXCEPT !.ans.redo = FALSE], disk) /\ due = Slots \ mem.ans.done
  OBVIOUS
<1>2. Boxed(m) /\ Boxed(_put_account(m, s))
  BY <1>1, StillBoxed DEF Boxed
<1>3. Boxed([m EXCEPT !.ans.redo = FALSE])
  BY <1>2 DEF Boxed
<1>4. Boxed(v) /\ Boxed(_start_background(v, disk))
  BY <1>1, <1>3, StillBoxed
<1>5. \/ Stay(IF a.v = "use" THEN _put_account(m, s) ELSE m, Left)
      \/ StepError(m) \/ _take_signin(m, s)
      \/ \E t \in due : _take_signin(mem, t)
      \/ StepError(v) \/ Through(_start_background(v, disk))
  BY <1>1, Zenon DEF step_accounts
<1> QED
  BY <1>2, <1>4, <1>5, TurnedBy, SigninTurns

LEMMA NotetakerTurns == ASSUME Boxed(mem), step_notetaker PROVE Turned
<1>1. PICK none, keyed : none = [mem EXCEPT !.ans.notetaker = "none"] /\ keyed = [mem EXCEPT !.ans.notetaker = "granola"]
  OBVIOUS
<1>2. Boxed(none) /\ Boxed(keyed)
  BY <1>1 DEF Boxed
<1>3. Boxed(set_status(none, "meetings", "na")) /\ Boxed(set_status(keyed, "meetings", "pending"))
  BY <1>2, StillBoxed
<1>4. Boxed(_start_background(set_status(keyed, "meetings", "pending"), disk))
  BY <1>3, StillBoxed
<1>5. \/ Through(mem) \/ _prompt(mem, "meetings", "notetaker") \/ Through(set_status(none, "meetings", "na"))
      \/ Through(_start_background(set_status(keyed, "meetings", "pending"), disk))
  BY <1>1, Zenon DEF step_notetaker
<1> QED
  BY <1>3, <1>4, <1>5, TurnedBy

LEMMA VaultTurns == ASSUME Boxed(mem), step_vault PROVE Turned
<1>1. PICK accounts : accounts = IF mem.ans.accounts # {} THEN mem.ans.accounts ELSE {s \in Slots : disk.token[s] # "none"}
  OBVIOUS
<1>2. PICK m, yes, no : /\ m = [mem EXCEPT !.ans.accounts = accounts, !.ans.confirmed = TRUE]
                        /\ yes = [mem EXCEPT !.ans.confirmed = TRUE] /\ no = [mem EXCEPT !.ans.confirmed = FALSE]
  OBVIOUS
<1>3. Boxed(m) /\ Boxed(yes) /\ Boxed(no)
  BY <1>2 DEF Boxed
<1>4. \A s : Boxed([m EXCEPT !.ans.done = @ \ {s}, !.ans.redo = TRUE])
  BY <1>3 DEF Boxed
<1>5. Boxed(_start_background(verify(m, disk'), disk'))
  BY <1>3, StillBoxed
<1>6. \/ Through(mem) \/ _prompt(mem, "vault", "confirm") \/ Stay(yes, Left) \/ _prompt(no, "vault", "confirm")
      \/ StepError(m) \/ (\E s \in accounts : StepError([m EXCEPT !.ans.done = @ \ {s}, !.ans.redo = TRUE]))
      \/ Through(_start_background(verify(m, disk'), disk'))
  BY <1>1, <1>2, Zenon DEF step_vault
<1> QED
  BY <1>3, <1>4, <1>5, <1>6, TurnedBy

LEMMA JobsTurn == ASSUME Boxed(mem), step_jobs PROVE Turned
<1>1. PICK v, m, no : v = Mine.v /\ m = [mem EXCEPT !.ans.schedule = v] /\ no = set_status(mem, "jobs", "skipped")
  OBVIOUS
<1>2. Boxed(m) /\ Boxed(no) /\ Boxed(verify(mem, disk'))
  BY <1>1, StillBoxed DEF Boxed
<1>3. \/ Through(mem) \/ _prompt(mem, "jobs", "schedule") \/ Stay(m, Left) \/ Through(no)
      \/ Through(verify(mem, disk')) \/ StepError(verify(mem, disk'))
  BY <1>1, Zenon DEF step_jobs
<1> QED
  BY <1>2, <1>3, TurnedBy

LEMMA DealsTurn == ASSUME Boxed(mem), step_deals PROVE Turned
<1>1. PICK m : m = _start_background(mem, disk)
  OBVIOUS
<1>2. Boxed(m)
  BY <1>1, StillBoxed
<1>3. \A x : Boxed([m EXCEPT !.ans.priorities = x]) /\ Boxed([m EXCEPT !.ans.scanned = x]) /\ Boxed([m EXCEPT !.ans.picked = x])
  BY <1>2 DEF Boxed
<1>4. \/ Through(mem) \/ _wait(m) \/ StepError(m) \/ (\E q : _prompt(m, "deals", q)) \/ Through(_degrade(m, "deals"))
      \/ Stay([m EXCEPT !.ans.priorities = TRUE], Left) \/ Stay([m EXCEPT !.ans.scanned = TRUE], held)
      \/ (\E x : Stay([m EXCEPT !.ans.picked = x], Left)) \/ _prompt([m EXCEPT !.ans.picked = ""], "deals", "deals")
      \/ \E s : Through(set_status(m, "deals", s))
  BY <1>1, Zenon DEF step_deals
<1> QED
  BY <1>2, <1>3, <1>4, StillBoxed, TurnedBy

LEMMA JoinTurns == ASSUME Boxed(mem), step_meetings_join PROVE Turned
<1>1. PICK again, m :
        /\ again = IF mem.degraded = "meetings" THEN Unstarted(mem) ELSE mem
        /\ m = IF "summaries" \in Started(again, disk)
               THEN set_status([again EXCEPT !.ans.started = @ \cup {"summaries"}], "meetings", "pending") ELSE again
  OBVIOUS
<1>2. Boxed(again)
  BY <1>1, StillBoxed
<1>3. Boxed([again EXCEPT !.ans.started = @ \cup {"summaries"}])
  BY <1>2 DEF Boxed
<1>4. Boxed(m) /\ Boxed(Unstarted(m)) /\ Boxed(set_status(mem, "meetings", "na"))
  BY <1>1, <1>2, <1>3, StillBoxed
<1>5. \/ Through(IF Resolved(mem, "meetings") THEN mem ELSE set_status(mem, "meetings", "na"))
      \/ _wait(m) \/ _wait(_start_background(Unstarted(m), disk))
      \/ Through(set_status(m, "meetings", "done")) \/ Through(_degrade(m, "meetings")) \/ StepError(m)
  BY <1>1, Zenon DEF step_meetings_join
<1>6. CASE Through(IF Resolved(mem, "meetings") THEN mem ELSE set_status(mem, "meetings", "na"))
  BY <1>4, <1>6, TurnedBy
<1> QED
  BY <1>4, <1>5, <1>6, StillBoxed, TurnedBy

LEMMA BriefingsTurn == ASSUME Boxed(mem), step_briefings PROVE Turned
<1>1. PICK looked, m, out :
        /\ looked = [mem EXCEPT !.ans.open = FALSE]
        /\ m = [mem EXCEPT !.ans.open = TRUE, !.ans.dispatches = IF @ < 2 THEN @ + 1 ELSE @]
        /\ out = set_status(m, "briefings", "pending")
  OBVIOUS
<1>2. Boxed(looked) /\ Boxed(m)
  BY <1>1 DEF Boxed
<1>3. Boxed(out) /\ Boxed(set_status(looked, "briefings", "done")) /\ Boxed(_degrade(mem, "briefings"))
  BY <1>1, <1>2, StillBoxed
<1>4. \/ Through(mem) \/ Through(set_status(looked, "briefings", "done")) \/ StepError(looked)
      \/ Through(_degrade(mem, "briefings")) \/ Ends(out, "dispatch")
  BY <1>1, Zenon DEF step_briefings
<1> QED
  BY <1>2, <1>3, <1>4, TurnedBy DEF Turned, Turns

LEMMA NewBoxed == Boxed(new)
  BY DEF Boxed, new

LEMMA FromStampBoxed == \A checked : Boxed(FromStamp(checked))
<1> SUFFICES ASSUME NEW checked PROVE Boxed(FromStamp(checked))
  OBVIOUS
<1>1. PICK was : was = [new EXCEPT !.box = [b \in Boxes |-> IF stamp.box[b] = "open" THEN "done" ELSE stamp.box[b]],
                                   !.ans.notetaker = stamp.notetaker, !.ans.schedule = stamp.schedule]
  OBVIOUS
<1>2. Boxed(was)
  BY <1>1, NewBoxed DEF Boxed
<1>3. PICK now : now = verify(was, disk)
  OBVIOUS
<1>4. FromStamp(checked) = [was EXCEPT !.box = [b \in Boxes |-> IF b \in checked THEN now.box[b] ELSE was.box[b]]]
  BY <1>1, <1>3 DEF FromStamp
<1> QED
  BY <1>2, <1>4 DEF Boxed

(* A box that a re-check leaves done has no check that fails.               *)
TrueOn(m, d) == \A b \in Boxes : m.box[b] = "done" => check(b, d) # FALSE
LEMMA VerifyIsTrue == ASSUME NEW m, Boxed(m), NEW d PROVE TrueOn(verify(m, d), d)
<1>1. PICK v : v = verify(m, d)
  OBVIOUS
<1>2. ASSUME NEW b \in Boxes
      PROVE  v.box[b] = IF check(b, d) = TRUE /\ m.box[b] \in {"open", "pending"} THEN "done"
                        ELSE IF check(b, d) = FALSE /\ m.box[b] = "done" THEN "open" ELSE m.box[b]
  BY <1>1 DEF verify, Boxed
<1>3. ASSUME NEW b \in Boxes, v.box[b] = "done" PROVE check(b, d) # FALSE
  BY <1>2, <1>3
<1> QED
  BY <1>1, <1>3 DEF TrueOn

Stamping == stamp' # stamp => \A b \in Boxes : stamp'.box[b] = "done" => check(b, disk') # FALSE
LEMMA StampsTrue == ASSUME NEW m, TrueOn(m, disk'), stamp' = Finished(m) PROVE Stamping
  BY DEF Stamping, TrueOn, Finished

LEMMA GoesKeeps == ASSUME Lists, Goes PROVE Lists' /\ Stamping
<1>1. CASE finish
  <2>1. PICK m : m = verify(mem, disk)
    OBVIOUS
  <2>2. Boxed(mem) /\ pc' = 0 /\ UNCHANGED <<disk, nudge>>
    BY <1>1 DEF finish, Lists, At
  <2>3. Boxed(m) /\ TrueOn(m, disk')
    BY <2>1, <2>2, StillBoxed, VerifyIsTrue
  <2>4. (list' = m /\ UNCHANGED stamp) \/ (list' = None /\ stamp' = Finished(m))
    BY <1>1, <2>1, Zenon DEF finish, Rechecked
  <2>5. Lists'
    BY <2>2, <2>3, <2>4 DEF Lists, Boxed
  <2> QED
    BY <2>3, <2>4, <2>5, StampsTrue DEF Stamping
<1>2. CASE run_next
  <2>1. PICK was : was = IF list # None THEN list
                         ELSE IF stamp # None THEN FromStamp(Boxes \ {"briefings"}) ELSE new
    OBVIOUS
  <2>2. PICK a : a = _take_answer(was)
    OBVIOUS
  <2>3. PICK got : got = IF a = None THEN was ELSE [was EXCEPT !.pend[a.box] = None]
    OBVIOUS
  <2>4. Boxed(was)
    BY <2>1, NewBoxed, FromStampBoxed DEF Lists
  <2>5. Boxed(got)
    BY <2>3, <2>4 DEF Boxed
  <2>6. Boxed(verify(got, disk))
    BY <2>5, StillBoxed
  <2>7. UNCHANGED <<stamp, nudge>>
    BY <1>2 DEF run_next, Quiet
  <2>8. UNCHANGED <<list, mem, pc>> \/ (mem' = verify(got, disk) /\ list' = mem')
    BY <1>2, <2>1, <2>2, <2>3, Zenon DEF run_next
  <2> QED
    BY <2>6, <2>7, <2>8 DEF Lists, Boxed, Stamping
<1>3. ASSUME step_machine_box \/ step_accounts \/ step_notetaker \/ step_vault \/ step_jobs \/ step_deals
             \/ step_meetings_join \/ step_briefings
      PROVE  Lists' /\ Stamping
  <2>1. pc # 0 /\ UNCHANGED <<stamp, nudge>>
    <3>1. CASE step_machine_box
      BY <3>1 DEF step_machine_box, Quiet
    <3>2. CASE step_accounts \/ step_notetaker \/ step_vault
      BY <3>2, Zenon DEF step_accounts, step_notetaker, step_vault, At, Quiet
    <3>3. CASE step_jobs \/ step_deals
      BY <3>3, Zenon DEF step_jobs, step_deals, At, Quiet
    <3>4. CASE step_meetings_join \/ step_briefings
      BY <3>4, Zenon DEF step_meetings_join, step_briefings, At, Quiet
    <3> QED
      BY <1>3, <3>1, <3>2, <3>3, <3>4
  <2>2. Turned
    BY <1>3, <2>1, MachineTurns, AccountsTurn, NotetakerTurns, VaultTurns, JobsTurn, DealsTurn, JoinTurns, BriefingsTurn
       DEF Lists
  <2> QED
    BY <2>1, <2>2, TurnKeeps DEF Turned, Stamping
<1> QED
  BY <1>1, <1>2, <1>3 DEF Goes

LEMMA SkipKeeps == ASSUME Lists, skip_box PROVE Lists' /\ Stamping
<1>1. PICK b : b \in Boxes \ NEVER_SKIPPED /\
                 LET m == set_status(list, b, "skipped")
                     v == Rechecked(m)
                 IN IF resolved(m) /\ m.degraded = None /\ resolved(v)
                    THEN list' = None /\ stamp' = Finished(v) /\ screen' = "complete"
                    ELSE list' = m /\ UNCHANGED <<stamp, screen>>
  BY Zenon DEF skip_box
<1>2. PICK m : m = set_status(list, b, "skipped")
  OBVIOUS
<1>3. PICK v : v = verify(m, disk)
  OBVIOUS
<1>4. Boxed(list) /\ UNCHANGED <<disk, mem, pc, nudge>>
  BY DEF skip_box, Lists
<1>5. Boxed(m) /\ TrueOn(v, disk')
  BY <1>2, <1>3, <1>4, StillBoxed, VerifyIsTrue
<1>6. (list' = None /\ stamp' = Finished(v)) \/ (list' = m /\ UNCHANGED stamp)
  BY <1>1, <1>2, <1>3, Zenon DEF Rechecked
<1>7. Lists'
  BY <1>4, <1>5, <1>6 DEF Lists, Boxed
<1> QED
  BY <1>5, <1>6, <1>7, StampsTrue DEF Stamping

LEMMA AdoptKeeps == ASSUME None # FALSE, Lists, adopt PROVE Lists' /\ Stamping
<1>1. PICK v : v = verify(new, disk)
  OBVIOUS
<1>2. PICK left : left = IF "filed" \in disk.have THEN "done" ELSE IF _keyed THEN "pending" ELSE "na"
  OBVIOUS
<1>3. PICK m : m = [v EXCEPT !.box["meetings"] = left,
                             !.box["deals"] = IF "deals" \in disk.have THEN "done" ELSE "open",
                             !.box["jobs"] = IF @ = "open" /\ ~ disk.enabled THEN "skipped" ELSE @,
                             !.box["briefings"] = IF @ = "open" THEN "na" ELSE @]
  OBVIOUS
<1>4. Boxed(v) /\ TrueOn(v, disk) /\ v.box = [b \in Boxes |-> v.box[b]]
  <2>1. v.box = [b \in Boxes |-> v.box[b]]
    BY <1>1, NewBoxed DEF verify, Boxed
  <2> QED
    BY <1>1, <2>1, NewBoxed, StillBoxed, VerifyIsTrue
<1>5. UNCHANGED <<disk, mem, pc, nudge>>
  BY DEF adopt
<1>6. /\ Boxed(m)
      /\ \A b \in Boxes : b \notin {"meetings", "deals"} /\ m.box[b] = "done" => v.box[b] = "done"
  BY <1>3, <1>4 DEF Boxed, Boxes
<1>7. TrueOn(m, disk')
  <2> SUFFICES ASSUME NEW b \in Boxes, m.box[b] = "done" PROVE check(b, disk) # FALSE
    BY <1>5 DEF TrueOn
  <2>1. CASE b \in {"meetings", "deals"}
    BY <2>1 DEF check
  <2>2. CASE b \notin {"meetings", "deals"}
    BY <1>4, <1>6, <2>2 DEF TrueOn
  <2> QED
    BY <2>1, <2>2
<1>8. (stamp' = Finished(m) /\ UNCHANGED list) \/ (list' = m /\ UNCHANGED stamp)
  BY <1>1, <1>2, <1>3, Zenon DEF adopt
<1>9. Lists'
  BY <1>5, <1>6, <1>8 DEF Lists, Boxed
<1> QED
  BY <1>7, <1>8, <1>9, StampsTrue DEF Stamping

LEMMA AroundKeeps ==
  ASSUME Lists, cmd_prepare \/ Answers \/ AgentsWrite \/ SessionDies \/ JobsEnd \/ Vanishes
                \/ NudgeLoads \/ finish_machine_boxes \/ stamp_check_quietly
  PROVE  Lists' /\ Stamping
<1>1. UNCHANGED stamp
  BY DEF cmd_prepare, Answers, AgentsWrite, SessionDies, JobsEnd, Vanishes, NudgeLoads, finish_machine_boxes,
         stamp_check_quietly, Quiet
<1>2. CASE cmd_prepare
  <2>1. PICK was : was = IF list = None THEN new ELSE list
    OBVIOUS
  <2>2. Boxed(verify(was, disk'))
    BY <2>1, NewBoxed, StillBoxed DEF Lists
  <2>3. list' = verify(was, disk') /\ UNCHANGED <<mem, pc, nudge>>
    BY <1>2, <2>1 DEF cmd_prepare, Quiet, session
  <2> QED
    BY <1>1, <2>2, <2>3 DEF Lists, Boxed, Stamping
<1>3. CASE finish_machine_boxes
  <2>1. PICK m : m = verify(nudge, disk)
    OBVIOUS
  <2>2. Boxed(m)
    BY <1>3, <2>1, StillBoxed DEF finish_machine_boxes, Lists
  <2>3. list' = m \/ (\E s : list' = set_status(m, "meetings", s)) \/ list' = _degrade(m, "meetings")
    BY <1>3, <2>1, Zenon DEF finish_machine_boxes
  <2>4. Boxed(list')
    BY <2>2, <2>3, StillBoxed
  <2>5. UNCHANGED <<mem, pc>> /\ nudge' = None
    BY <1>3 DEF finish_machine_boxes, session
  <2> QED
    BY <1>1, <2>4, <2>5 DEF Lists, Boxed, Stamping
<1>4. CASE stamp_check_quietly
  <2>1. list' = FromStamp({"credentials", "accounts", "vault", "jobs"}) /\ UNCHANGED <<mem, pc, nudge>>
    BY <1>4, Zenon DEF stamp_check_quietly, Quiet, session
  <2>2. Boxed(list')
    BY <2>1, FromStampBoxed
  <2> QED
    BY <1>1, <2>1, <2>2 DEF Lists, Boxed, Stamping
<1>5. CASE NudgeLoads
  BY <1>1, <1>5 DEF NudgeLoads, Lists, Boxed, Stamping, session
<1>6. CASE Answers \/ AgentsWrite \/ SessionDies \/ JobsEnd \/ Vanishes
  <2>1. UNCHANGED <<list, nudge>> /\ (pc' = 0 \/ UNCHANGED <<mem, pc>>)
    BY <1>6 DEF Answers, AgentsWrite, SessionDies, JobsEnd, Vanishes, Quiet, session
  <2> QED
    BY <1>1, <2>1 DEF Lists, Boxed, Stamping
<1> QED
  BY <1>2, <1>3, <1>4, <1>5, <1>6

(* StampIsTrue: for any accounts, artifacts that may vanish, faults and     *)
(* reminders, and an older install or a new one: a stamp that is written    *)
(* calls no box done whose check fails on disk at that moment; `finish`,    *)
(* a skip and an adoption all re-check the list they were given, whatever   *)
(* the reminder wrote over it (setup_flow.finish, skip_box, adopt).         *)
THEOREM StampIsTrueAlways == ASSUME None # FALSE PROVE Spec => StampIsTrue
<1>1. Init => Lists
  BY DEF Init, Lists
<1>2. Lists /\ [Next]_vars => Lists' /\ Stamping
  <2> SUFFICES ASSUME Lists, [Next]_vars PROVE Lists' /\ Stamping
    OBVIOUS
  <2>1. CASE Next
    BY <2>1, GoesKeeps, SkipKeeps, AdoptKeeps, AroundKeeps DEF Next
  <2>2. CASE UNCHANGED vars
    BY <2>2 DEF vars, session, Lists, Boxed, Stamping
  <2> QED
    BY <2>1, <2>2
<1>3. Spec => []Lists /\ [][Stamping]_vars
  BY <1>1, <1>2, PTL DEF Spec
<1>4. Stamping => (stamp' # stamp => \A b \in Boxes : stamp'.box[b] = "done" => check(b, disk') # FALSE)
  BY DEF Stamping
<1> QED
  BY <1>3, <1>4, PTL DEF StampIsTrue
=============================================================================
