-------------------------------- MODULE MCVault --------------------------------
(***************************************************************************)
(* Small instances for TLC of Vault.                                       *)
(***************************************************************************)
EXTENDS Vault, TLC

CONSTANTS m1, m2, m3, a, b

(* Three meetings, two of one title.                                        *)
Three == <<m1, m2, m3>>
TitlesOf == (m1 :> "sync") @@ (m2 :> "review") @@ (m3 :> "sync")
MineOf == (m1 :> {}) @@ (m2 :> {1}) @@ (m3 :> {1, 2})

(* Two flights tomorrow, one of them to the town of the day after; the      *)
(* morning sees two days, the afternoon the next.                           *)
Trips == ("f1" :> 1) @@ ("f2" :> 1) @@ ("town" :> 2)
Views == ("morning" :> 0 .. 1) @@ ("tea" :> {1})
Leads == ("morning" :> [departure |-> 0, weather |-> 1, flights |-> 0])
         @@ ("tea" :> [departure |-> 1, weather |-> 2, flights |-> 3])
Brings == {<<"f1", "town">>}

(* Two to-dos in the same words, one owed by the user, one owed to them.    *)
Alike == {<<a, b>>, <<b, a>>}
ByWhom == (a :> "by_me") @@ (b :> "to_me")

(* Two lines of the logs, one more than the table of failures takes, a      *)
(* project page, and the pick of the last report.                           *)
KindOf == [f \in Findings |-> <<"log", "log", "page", "pick">>[f]]

(* What the score is made of: each kind of row at its best, in the middle   *)
(* and at nothing; and what the model gives a part.                         *)
Best == [found |-> {"purpose", "priority", "project", "entity", "source"}, fresh |-> 4, finished |-> 2,
         accounts |-> 2, returned |-> 2, broken |-> 0, tea |-> TRUE, paths |-> 3, pages |-> 3,
         days |-> 9, span |-> 9, ran |-> TRUE, jobs |-> 2, loaded |-> 2, ondisk |-> 0,
         okdays |-> 2, everyran |-> TRUE, broke |-> FALSE, detail |-> TRUE, noticed |-> TRUE, watching |-> TRUE,
         logged |-> TRUE, audits |-> 2, followed |-> TRUE, report |-> TRUE]
Samples ==
  {[Best EXCEPT !.found = c[1], !.fresh = c[2], !.returned = n[1], !.broken = n[2], !.paths = n[3],
                !.pages = p[1], !.days = p[2], !.loaded = d[1], !.ondisk = d[2], !.okdays = d[3], !.broke = d[4],
                !.detail = d[5], !.report = d[5]] :
     c \in {Best.found, {"source"}, {"purpose", "priority", "source"}} \X {0, 2, 4},
     n \in {<<2, 0, 3>>, <<1, 0, 2>>, <<1, 1, 1>>, <<0, 2, 0>>},
     p \in {<<3, 9>>, <<2, 2>>, <<0, 0>>},
     d \in {<<2, 0, 2, FALSE, TRUE>>, <<1, 1, 1, FALSE, TRUE>>, <<0, 2, 1, TRUE, FALSE>>, <<0, 0, 0, TRUE, FALSE>>}}
Given == [Context : {0, 5, 10}, Connections : {0, 5, 15}, Capabilities : {0, 5, 15}, Cadence : {0, 5}]

(* Bounds: each component starts from its own cases, the others from one.   *)
MCInit ==
  /\ VaultInit
  /\ (job # "filing" => held = 1) /\ (job # "score" => facts = Best)
  /\ present = {} \/ (job = "findings" /\ present = {f \in Findings : Kind[f] # "pick"})
MCSpec == MCInit /\ [][VaultNext]_all /\ Progress
==============================================================================
