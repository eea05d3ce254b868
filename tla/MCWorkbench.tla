----------------------------- MODULE MCWorkbench -----------------------------
(***************************************************************************)
(* Small instances of the Workbench for TLC.                               *)
(***************************************************************************)
EXTENDS Workbench, TLC

CONSTANTS a1, a2, b1, d1, w1, w2, p1, p2

(* What the shipped pages call: workbench_static/app.js offers comment,     *)
(* dismiss and approve, the briefing page the chat and its Build button.    *)
PageRoutes == {"comment", "dismiss", "approve", "chat"}

(* With the routes the server also has: one that leaves no mark on it,  *)
(* and those that do or that bring one back.                                *)
DeckRoutes == PageRoutes \cup {"stage"}
MarkRoutes == PageRoutes \cup {"dod", "pin", "rate", "restore"}

OneTicket == {a1}
TwoSuggestions == {a1, a2}
ThreadAndDeck == {b1, d1}
OneDeck == {d1}
OneThread == {b1}
NoTickets == {}
OnePlan == {p1}
TwoPlans == {p1, p2}
Interchangeable == Permutations(TwoSuggestions)
OneThreadOfTheServer == {w1}
TwoThreadsOfTheServer == {w1, w2}
=============================================================================
