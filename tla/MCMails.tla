-------------------------------- MODULE MCMails --------------------------------
(***************************************************************************)
(* Small instances for TLC of MailOut; a week of the finance brief has two *)
(* days of one moment.                                                     *)
(***************************************************************************)
EXTENDS MailOut, TLC

(* A daily meeting, and one of its own; then three meetings, of which two   *)
(* start together and one title is found in another.                        *)
Daily == {[title |-> "standup", start |-> t] : t \in {2, NoteDay + 2}}
         \cup {[title |-> "review", start |-> NoteDay - 1]}
Titles == ("m1" :> "sync") @@ ("m2" :> "acme sync") @@ ("m3" :> "review")
Holding == {<<t, t>> : t \in {"sync", "acme sync", "review"}} \cup {<<"sync", "acme sync">>}
Starts == ("m1" :> 3) @@ ("m2" :> 3) @@ ("m3" :> 5)

Item(key, section, words, age) ==
  [key |-> key, section |-> section, words |-> words, age |-> age, judged |-> "", prio |-> 0,
   cost |-> "", late |-> 0, due |-> 99, dead |-> FALSE, decaying |-> FALSE, live |-> FALSE]

ItemPool ==
  { [Item(1, "waiting_on_user", {"cedar", "lease"}, 5) EXCEPT !.live = TRUE],
    [Item(1, "inbox_pending", {"cedar", "lease"}, 5) EXCEPT !.live = TRUE],
    [Item(2, "cold_urgent", {"harbor", "loan"}, 20) EXCEPT !.late = 4],
    [Item(3, "waiting_on_user", {"pipeline"}, 3) EXCEPT !.late = 9, !.dead = TRUE],
    [Item(4, "inbox_pending", {"harbor"}, 2) EXCEPT !.due = 2],
    [Item(5, "cold_monitor", {"cedar"}, 9) EXCEPT !.due = 20],
    [Item(6, "cold_urgent", {"harbor", "loan"}, 40) EXCEPT !.decaying = TRUE],
    [Item(7, "waiting_on_user", {"cedar"}, 45) EXCEPT !.decaying = TRUE, !.dead = TRUE],
    [Item(8, "waiting_on_user", {"harbor"}, 12) EXCEPT !.judged = "yes", !.cost = "low"],
    [Item(9, "inbox_pending", {"pipeline", "loan"}, 3) EXCEPT !.judged = "no", !.cost = "high"],
    Item(10, "cold_urgent", {"pipeline", "lease"}, 20),
    Item(11, "inbox_pending", {}, 1) }

TwoBusinesses ==
  << [tag |-> "cedar", keywords |-> {"cedar"}, prios |-> <<{"lease", "deal"}, {"pipeline", "deal"}>>],
     [tag |-> "harbor", keywords |-> {"harbor"}, prios |-> <<{"loan"}>>] >>
ThreeFunctions == <<"Legal", "Finance", "Other">>
TwoFunctionWords == << <<"Legal", {"lease"}>>, <<"Finance", {"loan", "pipeline"}>> >>
Lengths == [w \in {"cedar", "harbor", "lease", "loan", "pipeline", "deal"} |->
              CASE w = "pipeline" -> 8 [] w = "harbor" -> 6 [] w \in {"cedar", "lease"} -> 5 [] OTHER -> 4]

Thread(key, acct, ours, theirs) ==
  [key |-> key, acct |-> acct, sent |-> ours, recv |-> theirs, ack |-> FALSE, who |-> "person",
   subj |-> "plain", tag |-> "cedar", fits |-> FALSE, judged |-> "", deadline |-> FALSE,
   live |-> FALSE, fyi |-> FALSE, lure |-> FALSE]

ThreadKinds ==
  { Thread(1, "outlook", 10, 3), Thread(1, "gmail", 10, 3),
    [Thread(2, "outlook", 12, 1) EXCEPT !.fyi = TRUE],
    [Thread(3, "outlook", 12, 4) EXCEPT !.fyi = TRUE, !.who = "critical"],
    Thread(4, "gmail", 2, 5), [Thread(5, "outlook", 2, 5) EXCEPT !.ack = TRUE],
    [Thread(6, "outlook", 18, 99) EXCEPT !.fits = TRUE, !.live = TRUE],
    [Thread(7, "outlook", 18, 99) EXCEPT !.who = "critical", !.judged = "no"],
    Thread(8, "outlook", 40, 50), [Thread(9, "gmail", 18, 30) EXCEPT !.subj = "feedback"],
    [Thread(10, "gmail", 9, 99) EXCEPT !.deadline = TRUE],
    [Thread(11, "gmail", 99, 2) EXCEPT !.lure = TRUE],
    [Thread(12, "outlook", 99, 2) EXCEPT !.lure = TRUE, !.who = "critical"],
    [Thread(13, "outlook", 5, 2) EXCEPT !.subj = "noisy"], [Thread(14, "gmail", 99, 1) EXCEPT !.subj = "noisy"] }

FileLines ==
  { [key |-> 4, from |-> "waiting", subj |-> "plain", who |-> "person"],
    [key |-> 8, from |-> "cold", subj |-> "feedback", who |-> "person"],
    [key |-> 9, from |-> "cold", subj |-> "plain", who |-> "noise"] }

(* Bounds: one mode of prep beside the others, one subject at a time.       *)
MCInit ==
  /\ MailsInit /\ (part # "prep" => prepMode = "each")
  /\ done # {} /\ prior # {} => done = {l.key : l \in prior}
MCSpec == MCInit /\ [][MailsNext]_all
==============================================================================
