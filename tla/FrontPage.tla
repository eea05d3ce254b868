------------------------------ MODULE FrontPage ------------------------------
(***************************************************************************)
(* The short page a briefing opens on (src/app/week_review.py): which open *)
(* items come first, what is folded behind one row per business, and the   *)
(* numbers the opening sentence says.  An item is filed under a business   *)
(* and a function by the words it contains, ranked, and either put on the  *)
(* page or counted in the row of its business; the reader may then open a  *)
(* row, or one function of it.                                             *)
(*                                                                         *)
(* Texts are sets of words; a priority is the set of its distinctive words.*)
(* The open items are already scanned, judged and gated: that is module    *)
(* WeekReview.                                                             *)
(***************************************************************************)
EXTENDS Naturals, Integers, Sequences, FiniteSets, SequencesExt

CONSTANTS
  Pool,         \* items that may be open
  MinOpen,      \* bound: how many are open at least,
  MaxOpen,      \* and at most
  Businesses,   \* the configured businesses in order: [tag, keywords, prios]
  Functions,    \* briefing_functions(): names in order, the last is Other
  FunctionWords,\* _FUNCTION_KEYWORDS: in order, <<name, words>>
  WordLength,   \* word -> how long it is
  Cap,          \* front_page_cap as configured
  StaleDays,    \* STALE_COUNTERPARTY_DAYS
  Unassigned    \* the tag of what no business claims

VARIABLES
  open,         \* the open items
  page,         \* the front page, in order; empty before it is built
  rows,         \* fold rows: business -> function -> how many
  counts,       \* the numbers of the opening sentence
  slice         \* what the reader opened: <<tag, function, items>>, or none

vars == <<open, page, rows, counts, slice>>

Sections == <<"waiting_on_user", "inbox_pending", "cold_urgent", "cold_monitor">>
NoDate == 99          \* no date on the item
DueSoon == 7          \* DUE_SOON_DAYS

Tags == Append([i \in DOMAIN Businesses |-> Businesses[i].tag], Unassigned)
Other == Last(Functions)
FirstOf(is) == IF is = {} THEN 0 ELSE CHOOSE i \in is : \A j \in is : i <= j

(***************************************************************************)
(* Filing: the priority, business and function of an item.                 *)
(***************************************************************************)
Fits(p, e) ==
  /\ p # {}
  /\ \/ p \subseteq e.words
     \/ \E w \in p \cap e.words : WordLength[w] >= 6

\* The first priority the item is about, 0 when none.
match_priority(e, prios) == FirstOf({i \in DOMAIN prios : Fits(prios[i], e)})

assign_bucket(e) ==
  LET keyed == FirstOf({i \in DOMAIN Businesses : Businesses[i].keywords \cap e.words # {}})
      cared == FirstOf({i \in DOMAIN Businesses : match_priority(e, Businesses[i].prios) # 0})
  IN IF keyed # 0 THEN keyed ELSE IF cared # 0 THEN cared ELSE Len(Tags)

Hit(ws, e) == {WordLength[w] : w \in ws \cap e.words}

\* The longest keyword wins; the table's order breaks a tie.
assign_function(e) ==
  LET known == {i \in DOMAIN FunctionWords : \E n \in Range(Functions) : n = FunctionWords[i][1]}
      Best(i) == \A j \in known : \A m \in Hit(FunctionWords[j][2], e) :
                   \E k \in Hit(FunctionWords[i][2], e) : k >= m
      won == FirstOf({i \in known : Hit(FunctionWords[i][2], e) # {} /\ Best(i)})
  IN IF won = 0 THEN Other ELSE FunctionWords[won][1]

group_by_bucket(b) == {e \in open : assign_bucket(e) = b}
SectionAt(e) == CHOOSE i \in DOMAIN Sections : Sections[i] = e.section
_is_waiting(e) == SectionAt(e) <= 2

\* A priority claims an item once: the one the judge named, or the first it fits.
Claimed(e) ==
  IF e.prio # 0 THEN e.prio
  ELSE IF assign_bucket(e) > Len(Businesses) THEN 0
  ELSE match_priority(e, Businesses[assign_bucket(e)].prios)

(***************************************************************************)
(* Ranking.                                                                *)
(***************************************************************************)
is_stale_item(e) ==
  /\ e.late = 0 /\ e.due = NoDate
  /\ ~e.live /\ \E x \in Pool : x.live       \* an empty hotcache is no evidence
  /\ e.age >= StaleDays

_cost_rank(e) == CASE e.cost = "high" -> 0 [] e.cost = "low" -> 2 [] OTHER -> 1
Dead(e) == IF e.dead THEN 1 ELSE 0
Relevant(e) == IF e.judged = "" THEN Claimed(e) # 0 ELSE e.judged = "yes"

Tier(e) ==
  CASE e.late > 0 -> 0
    [] e.late = 0 /\ e.due <= DueSoon -> 1
    [] e.late = 0 /\ e.due > DueSoon /\ _is_waiting(e) -> IF Relevant(e) THEN 2 ELSE 3
    [] OTHER -> 4

\* What the code's sort compares, then the order the items come in.
Place(e) == <<e.key, assign_bucket(e), SectionAt(e)>>
Rank(e) ==
  <<Tier(e), Dead(e)>>
    \o (CASE Tier(e) = 0 -> <<-e.late>>
          [] Tier(e) = 1 -> <<e.due>>
          [] OTHER -> <<_cost_rank(e), -e.age>>)
    \o Place(e)
QuietRank(e) == <<_cost_rank(e), -e.age>> \o Place(e)

Before(a, b) == \E i \in DOMAIN a \cap DOMAIN b :
                  a[i] < b[i] /\ \A j \in 1..(i - 1) : a[j] = b[j]

\* The items of S, each after those that rank before it; r is their ranks.
InOrder(S, r) ==
  [i \in 1 .. Cardinality(S) |->
     CHOOSE e \in S : Cardinality({x \in S : Before(r[x], r[e])}) = i - 1]
Ranks == [e \in open |-> Rank(e)]
QuietRanks == [e \in open |-> QuietRank(e)]
Upto(s, n) == SubSeq(s, 1, IF n < Len(s) THEN n ELSE Len(s))

cap == IF Cap < 3 THEN 3 ELSE IF Cap > 9 THEN 9 ELSE Cap

\* One stale item may take the last place of the room the late ones leave.
Crowded(fill, quiet, room) ==                     \* a mutant: one place too many
  IF quiet # {} /\ room > 0
  THEN Upto(fill, room) \o <<InOrder(quiet, QuietRanks)[1]>>
  ELSE Upto(fill, room)
Filled(fill, quiet, room) ==
  IF quiet # {} /\ room > 0
  THEN Upto(fill, room - 1) \o <<InOrder(quiet, QuietRanks)[1]>>
  ELSE Upto(fill, room)

front_page ==
  LET fresh == {e \in open : ~is_stale_item(e)}
      quiet == {e \in open \ fresh : e.decaying /\ ~e.dead}
      late == {e \in fresh : Tier(e) = 0}
      fill == InOrder(fresh \ late, Ranks)
      room == IF Cardinality(late) < cap THEN cap - Cardinality(late) ELSE 0
  IN InOrder(late, Ranks) \o Filled(fill, quiet, room)

(***************************************************************************)
(* The rows and the numbers.                                               *)
(***************************************************************************)
front_keys(p) == {p[i].key : i \in DOMAIN p}
Folded(b, p) == {e \in group_by_bucket(b) : e.key \notin front_keys(p)}

bucket_summaries(p) ==
  [b \in DOMAIN Tags |-> [f \in Range(Functions) |->
     Cardinality({e \in Folded(b, p) : assign_function(e) = f})]]

opening_counts(p) ==
  [open   |-> Cardinality(open),
   late   |-> Cardinality({e \in open : e.late > 0}),
   front  |-> Len(p),
   folded |-> Cardinality(open) - Len(p),
   stale  |-> Cardinality({e \in open : is_stale_item(e)})]

\* "open Cedar", "open Cedar sales": the items behind a row, or part of it.
fold_slice(b, f) == {e \in Folded(b, page) : f = "" \/ assign_function(e) = f}

NoRows == [b \in DOMAIN Tags |-> [f \in Range(Functions) |-> 0]]
NoCounts == [open |-> 0, late |-> 0, front |-> 0, folded |-> 0, stale |-> 0]
NoSlice == [tag |-> 0, fn |-> "", items |-> {}]
Unbuilt == page = <<>> /\ rows = NoRows /\ counts = NoCounts /\ slice = NoSlice

Init ==
  /\ open \in {S \in SUBSET Pool : Cardinality(S) \in MinOpen..MaxOpen}
  /\ Unbuilt

build_front_page ==
  /\ counts = NoCounts
  /\ page' = front_page
  /\ rows' = bucket_summaries(page')
  /\ counts' = opening_counts(page')
  /\ UNCHANGED <<open, slice>>

OpenRow(b, f) ==
  /\ counts # NoCounts
  /\ slice' = [tag |-> b, fn |-> f, items |-> fold_slice(b, f)]
  /\ UNCHANGED <<open, page, rows, counts>>

Next ==
  \/ build_front_page
  \/ \E b \in DOMAIN Tags, f \in Range(Functions) \cup {""} : OpenRow(b, f)

Spec == Init /\ [][Next]_vars

-----------------------------------------------------------------------------
Built == counts # NoCounts
OnPage == Range(page)
Quietly(e) == is_stale_item(e)
RowOf(b) == FoldSet(LAMBDA f, n : n + rows[b][f], 0, Range(Functions))
AllRows == FoldSet(LAMBDA b, n : n + RowOf(b), 0, DOMAIN Tags)

(* The page is the best of what is open: late items are never cut, nothing  *)
(* stale is promoted but one live item that goes quiet, in the last place,  *)
(* no item left off outranks one that is on, and the cap holds whatever the *)
(* number of late items (front_page).                                       *)
BestFirst == Built =>
  /\ {e \in open : e.late > 0} \subseteq OnPage
  /\ \A i \in DOMAIN page : Quietly(page[i]) =>
        i = Len(page) /\ page[i].decaying /\ ~page[i].dead
  /\ \A i, j \in DOMAIN page : (i < j /\ ~Quietly(page[j])) => ~Before(Rank(page[j]), Rank(page[i]))
  /\ \A p \in OnPage, e \in open \ OnPage :
        (~Quietly(p) /\ ~is_stale_item(e)) => ~Before(Rank(e), Rank(p))
  /\ Len(page) <= IF counts.late > cap THEN counts.late ELSE cap
  /\ Len(page) < cap => \A e \in open \ OnPage : is_stale_item(e)

(* What the reader opens is what its row counted, function by function: the *)
(* rows, the ledger behind them and the slice of it are one partition       *)
(* (bucket_summaries, fold_slice; "a row said Sales 12 and the slice behind *)
(* it pasted 5").                                                           *)
SliceIsRow == slice.tag # 0 =>
  Cardinality(slice.items) =
    IF slice.fn = "" THEN RowOf(slice.tag) ELSE rows[slice.tag][slice.fn]

(* No item is lost between the page and the rows: whatever is open is on    *)
(* the page, under the key of a thread that is, or counted in a row.        *)
Conserved == Built =>
  Cardinality({e \in open : e.key \notin front_keys(page)}) = AllRows

(* "Front count plus every row's count equals open items" (test_front_page, *)
(* test_conservation), "The numbers the opening sentence is allowed to say. *)
(* All of them real" (opening_counts).                                      *)
NumbersAgree == Built => counts.folded = AllRows
=============================================================================
