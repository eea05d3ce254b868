---------------------------- MODULE AdvisorReplies ----------------------------
(***************************************************************************)
(* How the advisor listens for answers (src/app/advisor.py).  A numbered   *)
(* list of suggestions is registered under a reference, a batch, in the    *)
(* advisor's state file, then mailed; the user replies; the watcher's tick *)
(* looks for messages with that reference in the Sent folder and acts on   *)
(* each once.  The file has no lock: whoever changes it reads it whole,    *)
(* changes its own copy and writes that copy whole, over whatever is there *)
(* by then.  A file that cannot be read is taken for an empty one; a write *)
(* that fails is not noticed, and may leave the file torn.                 *)
(*                                                                         *)
(* What an answer does to a ticket is module Workbench's; here an answer   *)
(* is acted on, or not.                                                    *)
(***************************************************************************)
EXTENDS Naturals, FiniteSets, Functions

CONSTANTS
  Codes,        \* references: each stands for one numbered list (batch_code)
  Messages,     \* replies the user may send
  About,        \* message -> the reference it carries
  Briefings,    \* processes that prepare a briefing
  NoCode,       \* no list at hand
  BatchDays,    \* BATCH_DAYS: how long a list is listened for
  LastDay,      \* bound: days that pass
  MaxCrashes,   \* bound: ticks that die
  MaxLosses     \* bound: reads and writes that lose what the file holds

ASSUME RepliesAssumption ==
  /\ About \in [Messages -> Codes]
  /\ NoCode \notin Codes
  /\ "tick" \notin Briefings
  /\ BatchDays \in Nat
  /\ LastDay \in Nat
  /\ MaxCrashes \in Nat
  /\ MaxLosses \in Nat

VARIABLES
  file,         \* the batches in the state file: reference -> batch
  tick,         \* where the watcher's tick is
  mem,          \* the batches in the tick's memory
  todo,         \* references the tick has still to look for
  cur,          \* the list at hand: looked for, or about to be mailed
  got,          \* messages the Sent folder returned for it, not yet looked at
  brief,        \* briefing -> where it is
  bmem,         \* briefing -> the batches in its memory
  bcur,         \* briefing -> the list it prints
  day,          \* the date
  crashes,      \* ticks that died
  mailed,       \* history: reference -> last day its mailed list was registered
  sent,         \* messages in the Sent folder
  acted,        \* history: message -> times it was acted on
  fresh,        \* history: since whose reading nobody else wrote: the tick, a briefing
  losses,       \* history: reads and writes that lose what the file holds, or may
  wounded,      \* history: lists not registered again since the last of those
  forgotten     \* history: lists dropped for their age and not registered since

reader == <<mem, todo, cur, got>>
printer == <<brief, bmem, bcur>>
world == <<day, crashes>>
post == <<mailed, sent, acted>>
lost == <<losses, wounded, forgotten>>
harm == <<fresh, lost>>
vars == <<file, tick, mem, todo, cur, got, brief, bmem, bcur, day, crashes, mailed,
          sent, acted, fresh, losses, wounded, forgotten>>

Days == 0..LastDay
Batch == [at : Days, seen : SUBSET Messages]
Batches == UNION {[known -> Batch] : known \in SUBSET Codes}

Empty == [c \in {} |-> c]

TypeOK ==
  /\ file \in Batches
  /\ tick \in {"off", "collect", "read", "apply", "look", "stamp", "looking", "mail"}
  /\ mem \in Batches
  /\ todo \subseteq Codes
  /\ cur \in Codes \cup {NoCode}
  /\ got \subseteq Messages
  /\ brief \in [Briefings -> {"off", "register", "mail"}]
  /\ bmem \in [Briefings -> Batches]
  /\ bcur \in [Briefings -> Codes \cup {NoCode}]
  /\ day \in Days
  /\ crashes \in 0..MaxCrashes
  /\ DOMAIN mailed \subseteq Codes /\ \A c \in DOMAIN mailed : mailed[c] \in Days
  /\ sent \subseteq Messages
  /\ acted \in [Messages -> Nat]
  /\ fresh \subseteq Briefings \cup {"tick"}
  /\ losses \in 0..MaxLosses
  /\ wounded \subseteq Codes /\ forgotten \subseteq Codes

Init ==
  /\ file = Empty
  /\ tick = "off"
  /\ mem = Empty
  /\ todo = {}
  /\ cur = NoCode
  /\ got = {}
  /\ brief = [b \in Briefings |-> "off"]
  /\ bmem = [b \in Briefings |-> Empty]
  /\ bcur = [b \in Briefings |-> NoCode]
  /\ day = 0
  /\ crashes = 0
  /\ mailed = Empty
  /\ sent = {}
  /\ acted = [m \in Messages |-> 0]
  /\ fresh = {}
  /\ losses = 0
  /\ wounded = {}
  /\ forgotten = {}

-----------------------------------------------------------------------------
Expired(batch) == day - batch.at > BatchDays

With(f, c, v) == [x \in DOMAIN f \cup {c} |-> IF x = c THEN v ELSE f[x]]

(* Deviation: a list that is registered again starts afresh.                *)
RegisteredAfresh(batches, c) == With(batches, c, [at |-> day, seen |-> {}])

(* register_batch on a copy of the state: setdefault, then the date.        *)
Registered(batches, c) ==
  With(batches, c, [at   |-> day,
                    seen |-> IF c \in DOMAIN batches THEN batches[c].seen ELSE {}])

(* What the file holds is lost, or will be by the next write.               *)
Loss ==
  /\ losses < MaxLosses
  /\ losses' = losses + 1
  /\ wounded' = Codes

(* _read_state by p: the file as it is; or nothing, where it cannot be read *)
(* or is read while it is being written.  What is torn is Empty in file.    *)
Reads(p, copy) ==
  /\ fresh' = fresh \cup {p}
  /\ \/ copy = file /\ UNCHANGED <<losses, wounded>>
     \/ copy = Empty /\ Loss
  /\ UNCHANGED forgotten

(* _write_state by p of its copy, in which it has registered some lists.    *)
(* Nothing more is lost when nobody has written since p read, and the lists *)
(* it registers were not forgotten: registered again, those start with      *)
(* nothing seen.  Otherwise something may be, as it is when the write fails *)
(* before the file is opened, or half-way.                                  *)
Writes(p, copy, registered) ==
  /\ fresh' = {p}
  /\ forgotten' = forgotten \ registered
  /\ \/ /\ p \in fresh /\ registered \cap forgotten = {}
        /\ file' = copy
        /\ losses' = losses
        /\ wounded' = wounded \ registered
     \/ Loss /\ file' \in {copy, file, Empty}

-----------------------------------------------------------------------------
(* collect_answers, the first half of the tick.                             *)

TickRead ==
  /\ tick = "off"
  /\ tick' = "collect"
  /\ \E copy \in {file, Empty} : Reads("tick", copy) /\ mem' = copy /\ todo' = DOMAIN copy
  /\ UNCHANGED <<file, cur, got, printer, world, post>>

Forget(c) ==
  /\ tick = "collect"
  /\ c \in todo
  /\ Expired(mem[c])
  /\ mem' = Restrict(mem, DOMAIN mem \ {c})
  /\ todo' = todo \ {c}
  /\ forgotten' = forgotten \cup {c}
  /\ UNCHANGED <<file, tick, cur, got, printer, world, post, fresh, losses, wounded>>

(* The Sent folder answers, or cannot be read and the batch stays open.     *)
(* Messages seen before are passed over.                                    *)
Fetch(c) ==
  /\ tick = "collect"
  /\ c \in todo
  /\ ~ Expired(mem[c])
  /\ todo' = todo \ {c}
  /\ \/ /\ tick' = "read"
        /\ cur' = c
        /\ got' = {m \in sent : About[m] = c} \ mem[c].seen
     \/ UNCHANGED <<tick, cur, got>>
  /\ UNCHANGED <<file, mem, printer, world, post, harm>>

(* Deviation: the first message claims all that came with it.               *)
ClaimAll(m) ==
  /\ tick = "read"
  /\ m \in got
  /\ mem' = [mem EXCEPT ![cur].seen = @ \cup got]
  /\ Writes("tick", mem', {})
  /\ tick' = "apply"
  /\ got' = {m}
  /\ UNCHANGED <<todo, cur, printer, world, post>>

(* A message is claimed, and that written, before it is acted on; it is     *)
(* acted on whatever became of the write.                                   *)
Claim(m) ==
  /\ tick = "read"
  /\ m \in got
  /\ mem' = [mem EXCEPT ![cur].seen = @ \cup {m}]
  /\ Writes("tick", mem', {})
  /\ tick' = "apply"
  /\ UNCHANGED <<todo, cur, got, printer, world, post>>

Apply(m) ==
  /\ tick = "apply"
  /\ m \in got \cap mem[cur].seen
  /\ acted' = [acted EXCEPT ![m] = @ + 1]
  /\ got' = got \ {m}
  /\ tick' = "read"
  /\ UNCHANGED <<file, mem, todo, cur, printer, world, mailed, sent, harm>>

FetchEnd ==
  /\ tick = "read"
  /\ got = {}
  /\ tick' = "collect"
  /\ cur' = NoCode
  /\ UNCHANGED <<file, mem, todo, got, printer, world, post, harm>>

CollectEnd ==
  /\ tick = "collect"
  /\ todo = {}
  /\ Writes("tick", mem, {})
  /\ tick' = "look"
  /\ mem' = Empty
  /\ UNCHANGED <<todo, cur, got, printer, world, post>>

-----------------------------------------------------------------------------
(* propose: the day's look.  It stamps the day in its copy and writes that, *)
(* asks a model for minutes, then registers what came of it and mails it.   *)

Rest ==
  /\ tick' = "off"
  /\ fresh' = fresh \ {"tick"}
  /\ mem' = Empty
  /\ todo' = {}
  /\ cur' = NoCode
  /\ got' = {}

Look ==
  /\ tick = "look"
  /\ \/ /\ \E copy \in {file, Empty} : Reads("tick", copy) /\ mem' = copy
        /\ tick' = "stamp"
        /\ UNCHANGED <<todo, cur, got>>
     \/ Rest /\ UNCHANGED lost                   \* not due
  /\ UNCHANGED <<file, printer, world, post>>

Stamp ==
  /\ tick = "stamp"
  /\ Writes("tick", mem, {})
  /\ tick' = "looking"
  /\ UNCHANGED <<reader, printer, world, post>>

(* Deviation: the list is registered in the copy, and that is not written.  *)
LookEndUnwritten ==
  /\ tick = "looking"
  /\ \/ \E c \in Codes \ DOMAIN mailed :
          /\ mem' = Registered(mem, c)
          /\ cur' = c
          /\ tick' = "mail"
          /\ UNCHANGED <<file, todo, got, harm>>
     \/ Rest /\ UNCHANGED <<file, lost>>
  /\ UNCHANGED <<printer, world, post>>

(* New suggestions make a list nobody was mailed before.                    *)
LookEnd ==
  /\ tick = "looking"
  /\ \/ \E c \in Codes \ DOMAIN mailed :
          /\ mem' = Registered(mem, c)
          /\ Writes("tick", mem', {c})
          /\ cur' = c
          /\ tick' = "mail"
          /\ UNCHANGED <<todo, got>>
     \/ Rest /\ UNCHANGED <<file, lost>>         \* nothing was worth suggesting
  /\ UNCHANGED <<printer, world, post>>

Mail ==
  /\ tick = "mail"
  /\ \/ mailed' = With(mailed, cur, mem[cur].at)
     \/ mailed' = mailed                        \* it could not be sent
  /\ Rest
  /\ UNCHANGED <<file, printer, world, sent, acted, lost>>

(* A tick that dies while it writes is one whose write was torn, and that   *)
(* dies next.                                                               *)
Die ==
  /\ tick # "off"
  /\ crashes < MaxCrashes
  /\ crashes' = crashes + 1
  /\ Rest
  /\ UNCHANGED <<file, printer, day, post, lost>>

-----------------------------------------------------------------------------
(* A briefing prints the suggestions still waiting under their reference,   *)
(* registers that, and is mailed.                                           *)

BriefingReads(b, c) ==
  /\ brief[b] = "off"
  /\ brief' = [brief EXCEPT ![b] = "register"]
  /\ \E copy \in {file, Empty} : Reads(b, copy) /\ bmem' = [bmem EXCEPT ![b] = copy]
  /\ bcur' = [bcur EXCEPT ![b] = c]
  /\ UNCHANGED <<file, tick, reader, world, post>>

BriefingRegisters(b) ==
  /\ brief[b] = "register"
  /\ brief' = [brief EXCEPT ![b] = "mail"]
  /\ bmem' = [bmem EXCEPT ![b] = Registered(@, bcur[b])]
  /\ Writes(b, Registered(bmem[b], bcur[b]), {bcur[b]})
  /\ UNCHANGED <<tick, reader, bcur, world, post>>

BriefingRests(b) ==
  /\ brief' = [brief EXCEPT ![b] = "off"]
  /\ bmem' = [bmem EXCEPT ![b] = Empty]
  /\ bcur' = [bcur EXCEPT ![b] = NoCode]
  /\ fresh' = fresh \ {b}

BriefingMailed(b) ==
  /\ brief[b] = "mail"
  /\ \/ mailed' = With(mailed, bcur[b], bmem[b][bcur[b]].at)
     \/ mailed' = mailed                        \* shown on the page only
  /\ BriefingRests(b)
  /\ UNCHANGED <<file, tick, reader, world, sent, acted, lost>>

BriefingDies(b) ==
  /\ brief[b] # "off"
  /\ BriefingRests(b)
  /\ UNCHANGED <<file, tick, reader, world, post, lost>>

-----------------------------------------------------------------------------
(* The user replies when they like, and days pass.                          *)

Reply(m) ==
  /\ About[m] \in DOMAIN mailed
  /\ m \notin sent
  /\ sent' = sent \cup {m}
  /\ UNCHANGED <<file, tick, reader, printer, world, mailed, acted, harm>>

NextDay ==
  /\ day < LastDay
  /\ day' = day + 1
  /\ UNCHANGED <<file, tick, reader, printer, crashes, post, harm>>

-----------------------------------------------------------------------------
TickStep ==
  \/ TickRead
  \/ \E c \in Codes : Forget(c) \/ Fetch(c)
  \/ \E m \in Messages : Claim(m) \/ Apply(m)
  \/ FetchEnd
  \/ CollectEnd
  \/ Look
  \/ Stamp
  \/ LookEnd
  \/ Mail

BriefingStep(b) ==
  \/ \E c \in Codes : BriefingReads(b, c)
  \/ BriefingRegisters(b)
  \/ BriefingMailed(b)
  \/ BriefingDies(b)

Next ==
  \/ TickStep
  \/ Die
  \/ \E b \in Briefings : BriefingStep(b)
  \/ \E m \in Messages : Reply(m)
  \/ NextDay

Spec == Init /\ [][Next]_vars

(* The scheduler runs the tick again and again, a briefing that has read    *)
(* the file goes on, and the Sent folder that cannot be read now can be     *)
(* read at some later tick.                                                 *)
FairSpec ==
  /\ Spec
  /\ SF_vars(TickStep)
  /\ \A b \in Briefings : WF_vars(BriefingRegisters(b))
  /\ \A c \in Codes : SF_vars(Fetch(c) /\ tick' = "read")

-----------------------------------------------------------------------------
(* Properties.                                                              *)

(* No email is out with a reference nothing is listening for, until its     *)
(* BATCH_DAYS are over (comment in _send_batch): where no write since the   *)
(* list was registered was lost, torn, or made from a copy that was not the *)
(* file any more.                                                           *)
ListenedFor ==
  \A c \in DOMAIN mailed \ wounded : day - mailed[c] <= BatchDays => c \in DOMAIN file

(* A message is acted on once, over deaths of the tick between claiming and *)
(* acting: for SEND a second time is a second email (comment in             *)
(* collect_answers).  And once more at most for each loss: a file that      *)
(* cannot be read, a write that fails or tears it, one of a copy over what  *)
(* was written since, one that lists again what had expired.                *)
ActedOnce == \A m \in Messages : acted[m] <= 1 + losses

(* What the user answered is acted on, unless the list expired, the tick    *)
(* died on it, or the file lost something.                                  *)
AnswerHeard ==
  \A m \in Messages :
    m \in sent ~> acted[m] > 0 \/ crashes > 0 \/ losses > 0 \/ About[m] \notin DOMAIN file
=============================================================================
