----------------------------- MODULE RepliesProofs -----------------------------
(***************************************************************************)
(* Proofs about the advisor's lists (AdvisorReplies), for any lists,       *)
(* messages, briefings, days, deaths of the tick, and losses of what the   *)
(* state file holds; and about lists and drafts side by side.              *)
(***************************************************************************)
EXTENDS Correspondence, TLAPS

(* A copy of the state file is a function from references to batches.       *)
WellFormed(f) ==
  /\ f = [c \in DOMAIN f |-> f[c]]
  /\ DOMAIN f \subseteq Codes
  /\ \A c \in DOMAIN f : f[c] \in [at : Nat, seen : SUBSET Messages]

TickHolds == tick \in {"collect", "read", "apply", "stamp", "looking"}

Shape ==
  /\ WellFormed(file)
  /\ WellFormed(mem)
  /\ day \in Nat /\ losses \in Nat
  /\ sent \subseteq Messages
  /\ acted \in [Messages -> Nat]
  /\ wounded \subseteq Codes
  /\ DOMAIN mailed \subseteq Codes
  /\ TickHolds \/ tick \in {"off", "look", "mail"}
  /\ brief \in [Briefings -> {"off", "register", "mail"}]
  /\ bmem = [b \in Briefings |-> bmem[b]] /\ bcur = [b \in Briefings |-> bcur[b]]
  /\ \A b \in Briefings : brief[b] # "off" =>
       /\ WellFormed(bmem[b]) /\ bcur[b] \in Codes
       /\ brief[b] = "mail" => bcur[b] \in DOMAIN bmem[b]

(* What the tick has at hand: messages not seen, and at "apply" the one it  *)
(* has just claimed.                                                        *)
AtHand ==
  /\ tick \in {"collect", "read", "apply"} => todo \subseteq DOMAIN mem
  /\ tick \in {"read", "apply"} =>
       /\ cur \in DOMAIN mem
       /\ got \subseteq {m \in sent : About[m] = cur}
  /\ tick = "read" => got \cap mem[cur].seen = {}
  /\ tick = "apply" => \E m \in got : got \cap mem[cur].seen = {m}
  /\ tick = "mail" => cur \in DOMAIN mem
  /\ \A m \in sent : About[m] \in DOMAIN mailed

(* A message is claimed in a copy for as long as its list stands there.     *)
Safe(f, m) == IF About[m] \in DOMAIN f THEN m \in f[About[m]].seen ELSE About[m] \in forgotten

(* A message that is claimed counts as acted on.                            *)
Due(m) == acted[m] + (IF tick = "apply" /\ m \in got /\ m \in mem[cur].seen THEN 1 ELSE 0)

(* One that was acted on as often as losses allow is claimed in the file,   *)
(* in the tick's copy, and in the copy of a briefing since whose reading    *)
(* nobody else wrote.                                                       *)
Held(m) ==
  /\ m \in sent
  /\ Safe(file, m)
  /\ TickHolds => Safe(mem, m)
  /\ \A b \in fresh \cap Briefings : brief[b] = "register" => Safe(bmem[b], m)
Told(m) == Due(m) <= losses \/ (Due(m) = losses + 1 /\ Held(m))
Claimed == \A m \in Messages : Told(m)

(* A copy since whose reading nobody else wrote lists what the file lists,  *)
(* but for what was lost before or has expired.                             *)
Follows(f) ==
  \A c \in DOMAIN file \ wounded :
    (c \in DOMAIN f /\ f[c].at = file[c].at) \/ Expired(file[c])
InStep ==
  /\ "tick" \in fresh /\ TickHolds => Follows(mem)
  /\ \A b \in fresh \cap Briefings : brief[b] = "register" => Follows(bmem[b])

(* A list is in the file under a day or later, or that day is long past,    *)
(* or it was lost since.                                                    *)
Listed(c, d) == (c \in DOMAIN file /\ file[c].at >= d) \/ day - d > BatchDays
Promised(c, d) == d \in Nat /\ d <= day /\ (c \notin wounded => Listed(c, d))

(* So is every list that was mailed, or is about to be.                     *)
Kept ==
  /\ \A c \in DOMAIN mailed : Promised(c, mailed[c])
  /\ tick = "mail" => Promised(cur, mem[cur].at)
  /\ \A b \in Briefings : brief[b] = "mail" => Promised(bcur[b], bmem[b][bcur[b]].at)

RepliesInv == Shape /\ AtHand /\ Claimed /\ InStep /\ Kept

-----------------------------------------------------------------------------
(* Copies.                                                                  *)

LEMMA EmptyIs == WellFormed(Empty) /\ DOMAIN Empty = {}
  BY DEF WellFormed, Empty

LEMMA RegisteredIs ==
  ASSUME NEW f, WellFormed(f), NEW c \in Codes, day \in Nat
  PROVE  /\ WellFormed(Registered(f, c))
         /\ DOMAIN Registered(f, c) = DOMAIN f \cup {c}
         /\ \A x \in DOMAIN f : x # c => Registered(f, c)[x] = f[x]
         /\ Registered(f, c)[c].at = day
         /\ c \in DOMAIN f => Registered(f, c)[c].seen = f[c].seen
  BY DEF Registered, With, WellFormed

LEMMA ClaimedIs ==
  ASSUME NEW f, WellFormed(f), NEW c \in DOMAIN f, NEW m \in Messages, NEW g,
         g = [f EXCEPT ![c].seen = @ \cup {m}]
  PROVE  /\ WellFormed(g) /\ DOMAIN g = DOMAIN f
         /\ \A x \in DOMAIN f : g[x].at = f[x].at
         /\ \A x \in DOMAIN f : x # c => g[x] = f[x]
         /\ g[c].seen = f[c].seen \cup {m}
<1>1. f[c] \in [at : Nat, seen : SUBSET Messages]
  BY DEF WellFormed
<1>2. g = [x \in DOMAIN f |-> IF x = c THEN [f[c] EXCEPT !.seen = f[c].seen \cup {m}] ELSE f[x]]
  BY <1>1 DEF WellFormed
<1>3. /\ g[c] = [f[c] EXCEPT !.seen = f[c].seen \cup {m}] /\ DOMAIN g = DOMAIN f
      /\ \A x \in DOMAIN f : x # c => g[x] = f[x]
  BY <1>2
<1>4. g[c] \in [at : Nat, seen : SUBSET Messages] /\ g[c].at = f[c].at /\ g[c].seen = f[c].seen \cup {m}
  BY <1>1, <1>3
<1>5. WellFormed(g)
  BY <1>2, <1>3, <1>4 DEF WellFormed
<1> QED
  BY <1>3, <1>4, <1>5

LEMMA WritesIs ==
  ASSUME Shape, NEW p, NEW copy, WellFormed(copy), NEW listed, listed \subseteq Codes, Writes(p, copy, listed)
  PROVE  /\ WellFormed(file') /\ losses' \in Nat /\ wounded' \subseteq Codes
         /\ fresh' = {p} /\ forgotten' = forgotten \ listed
         /\ \/ /\ p \in fresh /\ listed \cap forgotten = {}
               /\ file' = copy /\ losses' = losses /\ wounded' = wounded \ listed
            \/ losses' = losses + 1 /\ wounded' = Codes
  BY EmptyIs, RepliesAssumption DEF Writes, Loss, Shape

LEMMA WritesNoneIs ==
  ASSUME Shape, NEW p, NEW copy, WellFormed(copy), Writes(p, copy, {})
  PROVE  /\ WellFormed(file') /\ losses' \in Nat /\ wounded' \subseteq Codes
         /\ fresh' = {p} /\ forgotten' = forgotten
         /\ \/ p \in fresh /\ file' = copy /\ losses' = losses /\ wounded' = wounded
            \/ losses' = losses + 1 /\ wounded' = Codes
  BY EmptyIs, RepliesAssumption DEF Writes, Loss, Shape

LEMMA ReadsIs ==
  ASSUME Shape, NEW p, NEW copy \in {file, Empty}, Reads(p, copy)
  PROVE  /\ WellFormed(copy) /\ losses' \in Nat /\ wounded' \subseteq Codes
         /\ fresh' = fresh \cup {p} /\ forgotten' = forgotten
         /\ \/ copy = file /\ losses' = losses /\ wounded' = wounded
            \/ losses' = losses + 1 /\ wounded' = Codes
  BY EmptyIs, RepliesAssumption DEF Reads, Loss, Shape


-----------------------------------------------------------------------------
(* Shape and what is at hand.                                               *)

LEMMA ShapeKeeps ==
  ASSUME RepliesInv, [Next]_vars
  PROVE  Shape' /\ AtHand'
<1> USE RepliesAssumption DEF reader, printer, world, post, harm, lost
<1>0. Shape /\ AtHand
  BY DEF RepliesInv
<1>a. WellFormed(file) /\ WellFormed(mem) /\ day \in Nat
  BY <1>0 DEF Shape
<1>1. CASE TickRead
  <2>1. PICK copy \in {file, Empty} : Reads("tick", copy) /\ mem' = copy /\ todo' = DOMAIN copy
    BY <1>1 DEF TickRead
  <2>2. WellFormed(mem') /\ losses' \in Nat /\ wounded' \subseteq Codes
    BY <1>0, <2>1, ReadsIs
  <2> QED
    BY <1>0, <1>1, <2>2 DEF TickRead, Shape, AtHand, TickHolds, WellFormed
<1>2. ASSUME NEW c \in Codes, Forget(c) PROVE Shape' /\ AtHand'
  <2>1. WellFormed(mem')
    <3>1. mem' = [x \in DOMAIN mem \ {c} |-> mem[x]]
      BY <1>2 DEF Forget, Restrict
    <3> QED
      BY <1>a, <3>1 DEF WellFormed
  <2>2. DOMAIN mem' = DOMAIN mem \ {c} /\ todo' = todo \ {c} /\ tick = "collect"
        /\ UNCHANGED <<file, tick, cur, got, printer, world, post, losses, wounded>>
    BY <1>2 DEF Forget, Restrict
  <2>3. Shape'
    BY <1>0, <2>1, <2>2 DEF Shape, TickHolds
  <2>4. AtHand'
    BY <1>0, <2>2 DEF AtHand
  <2> QED
    BY <2>3, <2>4
<1>3. ASSUME NEW c \in Codes, Fetch(c) PROVE Shape' /\ AtHand'
  <2>1. tick' = "read" => c \in DOMAIN mem /\ cur' = c
    BY <1>0, <1>3 DEF Fetch, AtHand
  <2> QED
    BY <1>0, <1>3, <2>1 DEF Fetch, Shape, AtHand, TickHolds
<1>4. ASSUME NEW m \in Messages, Claim(m) PROVE Shape' /\ AtHand'
  <2>1. cur \in DOMAIN mem /\ mem' = [mem EXCEPT ![cur].seen = @ \cup {m}] /\ Writes("tick", mem', {})
    BY <1>0, <1>4 DEF Claim, AtHand
  <2>2. /\ WellFormed(mem') /\ DOMAIN mem' = DOMAIN mem
        /\ mem'[cur].seen = mem[cur].seen \cup {m}
    <3>1. PICK f, x, g : f = mem /\ x = cur /\ g = mem'
      OBVIOUS
    <3>2. WellFormed(f) /\ x \in DOMAIN f /\ g = [f EXCEPT ![x].seen = @ \cup {m}]
      BY <1>a, <2>1, <3>1
    <3>3. WellFormed(g) /\ DOMAIN g = DOMAIN f
      BY <3>2, ClaimedIs
    <3>4. g[x].seen = f[x].seen \cup {m}
      BY <3>2, ClaimedIs
    <3> QED
      BY <3>1, <3>3, <3>4
  <2>3. WellFormed(file') /\ losses' \in Nat /\ wounded' \subseteq Codes
    BY <1>0, <2>1, <2>2, WritesNoneIs
  <2> QED
    BY <1>0, <1>4, <2>1, <2>2, <2>3 DEF Claim, Shape, AtHand, TickHolds
<1>5. ASSUME NEW m \in Messages, Apply(m) PROVE Shape' /\ AtHand'
  BY <1>0, <1>5 DEF Apply, Shape, AtHand, TickHolds
<1>6. CASE FetchEnd
  BY <1>0, <1>6 DEF FetchEnd, Shape, AtHand, TickHolds
<1>7. CASE CollectEnd
  <2>1. WellFormed(file') /\ losses' \in Nat /\ wounded' \subseteq Codes
    <3>1. Writes("tick", mem, {})
      BY <1>7 DEF CollectEnd
    <3> QED
      BY <1>0, <1>a, <3>1, WritesNoneIs
  <2> QED
    BY <1>0, <1>7, <2>1, EmptyIs DEF CollectEnd, Shape, AtHand, TickHolds
<1>r. ASSUME Rest, losses' = losses, wounded' = wounded, UNCHANGED <<file, day, sent, acted, printer>>,
             DOMAIN mailed \subseteq DOMAIN mailed', DOMAIN mailed' \subseteq Codes
      PROVE  Shape' /\ AtHand'
  BY <1>0, <1>r, EmptyIs DEF Rest, Shape, AtHand, TickHolds
<1>8. CASE Look
  <2>1. CASE Rest /\ UNCHANGED lost
    BY <1>0, <1>8, <2>1, <1>r DEF Look, Shape
  <2>2. ASSUME NEW copy \in {file, Empty}, Reads("tick", copy), mem' = copy, tick' = "stamp"
        PROVE  Shape' /\ AtHand'
    <3>1. WellFormed(mem') /\ losses' \in Nat /\ wounded' \subseteq Codes
      BY <1>0, <2>2, ReadsIs
    <3> QED
      BY <1>0, <1>8, <2>2, <3>1 DEF Look, Rest, Shape, AtHand, TickHolds
  <2> QED
    BY <1>8, <2>1, <2>2 DEF Look
<1>9. CASE Stamp
  <2>1. WellFormed(file') /\ losses' \in Nat /\ wounded' \subseteq Codes
    <3>1. Writes("tick", mem, {})
      BY <1>9 DEF Stamp
    <3> QED
      BY <1>0, <1>a, <3>1, WritesNoneIs
  <2> QED
    BY <1>0, <1>9, <2>1 DEF Stamp, Shape, AtHand, TickHolds
<1>10. CASE LookEnd
  <2>1. CASE Rest /\ UNCHANGED <<file, lost>>
    BY <1>0, <1>10, <2>1, <1>r DEF LookEnd, Shape
  <2>2. ASSUME NEW c \in Codes, mem' = Registered(mem, c), Writes("tick", mem', {c}), cur' = c, tick' = "mail"
        PROVE  Shape' /\ AtHand'
    <3>1. WellFormed(mem') /\ c \in DOMAIN mem'
      <4>1. WellFormed(Registered(mem, c)) /\ DOMAIN Registered(mem, c) = DOMAIN mem \cup {c}
        BY <1>a, RegisteredIs
      <4> QED
        BY <2>2, <4>1
    <3>2. WellFormed(file') /\ losses' \in Nat /\ wounded' \subseteq Codes
      BY <1>0, <2>2, <3>1, WritesIs
    <3> QED
      BY <1>0, <1>10, <2>2, <3>1, <3>2 DEF LookEnd, Shape, AtHand, TickHolds
  <2> QED
    BY <1>10, <2>1, <2>2 DEF LookEnd
<1>11. CASE Mail
  <2>1. DOMAIN mailed \subseteq DOMAIN mailed' /\ DOMAIN mailed' \subseteq Codes
    BY <1>0, <1>11 DEF Mail, With, AtHand, Shape, WellFormed
  <2> QED
    BY <1>11, <2>1, <1>r DEF Mail
<1>12. CASE Die
  BY <1>0, <1>12, <1>r DEF Die, Shape
<1>13. ASSUME NEW b \in Briefings, BriefingStep(b) PROVE Shape' /\ AtHand'
  <2>1. ASSUME NEW c \in Codes, BriefingReads(b, c) PROVE Shape' /\ AtHand'
    <3>1. PICK copy \in {file, Empty} : Reads(b, copy) /\ bmem' = [bmem EXCEPT ![b] = copy]
      BY <2>1 DEF BriefingReads
    <3>2. WellFormed(copy) /\ losses' \in Nat /\ wounded' \subseteq Codes
      BY <1>0, <3>1, ReadsIs
    <3> QED
      BY <1>0, <2>1, <3>1, <3>2 DEF BriefingReads, Shape, AtHand, TickHolds
  <2>2. CASE BriefingRegisters(b)
    <3>1. WellFormed(bmem[b]) /\ bcur[b] \in Codes
      BY <1>0, <2>2 DEF BriefingRegisters, Shape
    <3>2. PICK copy : copy = Registered(bmem[b], bcur[b])
      OBVIOUS
    <3>3. WellFormed(copy) /\ bcur[b] \in DOMAIN copy
      <4>1. WellFormed(Registered(bmem[b], bcur[b])) /\ DOMAIN Registered(bmem[b], bcur[b]) = DOMAIN bmem[b] \cup {bcur[b]}
        BY <1>a, <3>1, RegisteredIs
      <4> QED
        BY <3>2, <4>1
    <3>4. WellFormed(file') /\ losses' \in Nat /\ wounded' \subseteq Codes
      BY <1>0, <2>2, <3>1, <3>2, <3>3, WritesIs DEF BriefingRegisters
    <3>5. bmem' = [bmem EXCEPT ![b] = copy]
      BY <2>2, <3>2 DEF BriefingRegisters
    <3> QED
      BY <1>0, <2>2, <3>1, <3>3, <3>4, <3>5 DEF BriefingRegisters, Shape, AtHand, TickHolds
  <2>3. CASE BriefingMailed(b)
    <3>1. DOMAIN mailed \subseteq DOMAIN mailed' /\ DOMAIN mailed' \subseteq Codes
      BY <1>0, <2>3 DEF BriefingMailed, With, Shape
    <3> QED
      BY <1>0, <2>3, <3>1 DEF BriefingMailed, BriefingRests, Shape, AtHand, TickHolds
  <2>4. CASE BriefingDies(b)
    BY <1>0, <2>4 DEF BriefingDies, BriefingRests, Shape, AtHand, TickHolds
  <2> QED
    BY <1>13, <2>1, <2>2, <2>3, <2>4 DEF BriefingStep
<1>14. ASSUME NEW m \in Messages, Reply(m) PROVE Shape' /\ AtHand'
  BY <1>0, <1>14 DEF Reply, Shape, AtHand, TickHolds
<1>15. CASE NextDay
  BY <1>0, <1>15 DEF NextDay, Shape, AtHand, TickHolds
<1>16. CASE UNCHANGED vars
  BY <1>0, <1>16 DEF vars, Shape, AtHand, TickHolds
<1> QED
  BY <1>1, <1>2, <1>3, <1>4, <1>5, <1>6, <1>7, <1>8, <1>9, <1>10, <1>11, <1>12, <1>13, <1>14, <1>15, <1>16
  DEF Next, TickStep

-----------------------------------------------------------------------------
(* What is promised.                                                        *)

(* A write keeps the promise, if the copy lists what the file does.         *)
LEMMA WritePromise ==
  ASSUME Shape, NEW listed, wounded' = wounded \ listed, day' = day,
         NEW c, NEW d, Promised(c, d), WellFormed(file'),
         c \in listed => c \in DOMAIN file' /\ file'[c].at = day,
         c \notin listed /\ c \in DOMAIN file \ wounded =>
           (c \in DOMAIN file' /\ file'[c].at = file[c].at) \/ Expired(file[c])
  PROVE  Promised(c, d)'
<1> USE RepliesAssumption
<1>1. /\ day \in Nat /\ d \in Nat /\ d <= day /\ (c \notin wounded => Listed(c, d))
      /\ \A x \in DOMAIN file : file[x].at \in Nat
  BY DEF Shape, Promised, WellFormed
<1>2. CASE c \in listed
  BY <1>1, <1>2 DEF Promised, Listed
<1>3. CASE c \notin listed /\ c \notin wounded
  <2>1. CASE c \in DOMAIN file /\ file[c].at >= d
    <3>1. (c \in DOMAIN file' /\ file'[c].at = file[c].at) \/ Expired(file[c])
      BY <1>3, <2>1
    <3>2. CASE Expired(file[c])
      BY <1>1, <2>1, <3>2 DEF Promised, Listed, Expired
    <3>3. CASE c \in DOMAIN file' /\ file'[c].at = file[c].at
      BY <1>1, <2>1, <3>3 DEF Promised, Listed
    <3> QED
      BY <3>1, <3>2, <3>3
  <2>2. CASE day - d > BatchDays
    BY <1>1, <2>2 DEF Promised, Listed
  <2> QED
    BY <1>1, <1>3, <2>1, <2>2 DEF Listed
<1>4. CASE c \notin listed /\ c \in wounded
  BY <1>1, <1>4 DEF Promised
<1> QED
  BY <1>2, <1>3, <1>4

LEMMA SamePromise ==
  ASSUME Shape, NEW c \in Codes, NEW d, Promised(c, d), day' = day \/ day' = day + 1,
         (UNCHANGED file /\ wounded \subseteq wounded') \/ wounded' = Codes
  PROVE  Promised(c, d)'
<1>1. day \in Nat /\ d \in Nat /\ d <= day /\ (c \notin wounded => Listed(c, d)) /\ BatchDays \in Nat
  BY RepliesAssumption DEF Shape, Promised
<1>2. CASE wounded' = Codes
  BY <1>1, <1>2 DEF Promised
<1>3. CASE UNCHANGED file /\ wounded \subseteq wounded'
  BY <1>1, <1>3 DEF Promised, Listed
<1> QED
  BY <1>2, <1>3

LEMMA PromisedKeeps ==
  ASSUME RepliesInv, [Next]_vars, NEW c \in Codes, NEW d, Promised(c, d)
  PROVE  Promised(c, d)'
<1> USE DEF reader, printer, world, post, harm, lost
<1>0. Shape /\ AtHand /\ InStep
  BY DEF RepliesInv
<1>a. WellFormed(file) /\ WellFormed(mem) /\ day \in Nat /\ WellFormed(file')
  BY <1>0, ShapeKeeps DEF Shape
<1>1. CASE wounded' = Codes /\ day' = day
  BY <1>0, <1>1, SamePromise
<1>2. CASE UNCHANGED <<file, wounded>> /\ (day' = day \/ day' = day + 1)
  BY <1>0, <1>2, SamePromise
<1>3. ASSUME "tick" \in fresh, TickHolds, wounded' = wounded, day' = day,
             DOMAIN file' = DOMAIN mem, \A x \in DOMAIN mem : file'[x].at = mem[x].at
      PROVE  Promised(c, d)'
  <2>1. Follows(mem)
    BY <1>0, <1>3 DEF InStep
  <2>2. c \in DOMAIN file \ wounded => (c \in DOMAIN file' /\ file'[c].at = file[c].at) \/ Expired(file[c])
    BY <1>3, <2>1 DEF Follows
  <2>3. wounded' = wounded \ {} /\ c \notin {}
    BY <1>3
  <2> QED
    BY <1>0, <1>3, <1>a, <2>2, <2>3, WritePromise
<1>4. ASSUME NEW f, Follows(f), WellFormed(f), NEW x \in Codes, file' = Registered(f, x),
             wounded' = wounded \ {x}, day' = day
      PROVE  Promised(c, d)'
  <2>1. /\ DOMAIN Registered(f, x) = DOMAIN f \cup {x} /\ Registered(f, x)[x].at = day
        /\ \A y \in DOMAIN f : y # x => Registered(f, x)[y] = f[y]
    BY <1>4, <1>a, RegisteredIs
  <2>2. /\ DOMAIN file' = DOMAIN f \cup {x} /\ file'[x].at = day
        /\ \A y \in DOMAIN f : y # x => file'[y] = f[y]
    BY <1>4, <2>1
  <2>3. c \in {x} => c \in DOMAIN file' /\ file'[c].at = day
    BY <2>2
  <2>4. c \notin {x} /\ c \in DOMAIN file \ wounded =>
          (c \in DOMAIN file' /\ file'[c].at = file[c].at) \/ Expired(file[c])
    BY <1>4, <2>2 DEF Follows
  <2> QED
    BY <1>0, <1>4, <1>a, <2>3, <2>4, WritePromise
<1>5. CASE TickStep
  <2>1. ASSUME NEW m \in Messages, Claim(m) PROVE Promised(c, d)'
    <3>1. /\ Writes("tick", mem', {}) /\ cur \in DOMAIN mem /\ TickHolds /\ day' = day
          /\ mem' = [mem EXCEPT ![cur].seen = @ \cup {m}]
      BY <1>0, <2>1 DEF Claim, AtHand, TickHolds
    <3>2. PICK f, x, g : f = mem /\ x = cur /\ g = mem'
      OBVIOUS
    <3>3. WellFormed(f) /\ x \in DOMAIN f /\ g = [f EXCEPT ![x].seen = @ \cup {m}]
      BY <1>a, <3>1, <3>2
    <3>4. WellFormed(g) /\ DOMAIN g = DOMAIN f
      BY <3>3, ClaimedIs
    <3>a. \A y \in DOMAIN f : g[y].at = f[y].at
      BY <3>3, ClaimedIs
    <3>5. \/ "tick" \in fresh /\ file' = g /\ losses' = losses /\ wounded' = wounded
          \/ losses' = losses + 1 /\ wounded' = Codes
      <4>1. Writes("tick", g, {})
        BY <3>1, <3>2
      <4> QED
        BY <1>0, <3>4, <4>1, WritesNoneIs
    <3>6. CASE "tick" \in fresh /\ file' = g /\ losses' = losses /\ wounded' = wounded
      <4>1. DOMAIN file' = DOMAIN mem /\ \A y \in DOMAIN mem : file'[y].at = mem[y].at
        BY <3>2, <3>4, <3>a, <3>6
      <4> QED
        BY <1>3, <3>1, <3>6, <4>1
    <3> QED
      BY <1>1, <3>1, <3>5, <3>6
  <2>2. CASE CollectEnd \/ Stamp
    <3>1. Writes("tick", mem, {}) /\ TickHolds /\ day' = day
      BY <2>2 DEF CollectEnd, Stamp, TickHolds
    <3>2. \/ "tick" \in fresh /\ file' = mem /\ losses' = losses /\ wounded' = wounded
          \/ losses' = losses + 1 /\ wounded' = Codes
      BY <1>0, <1>a, <3>1, WritesNoneIs
    <3>3. CASE "tick" \in fresh /\ file' = mem /\ losses' = losses /\ wounded' = wounded
      <4>1. DOMAIN file' = DOMAIN mem /\ \A y \in DOMAIN mem : file'[y].at = mem[y].at
        BY <3>3
      <4> QED
        BY <1>3, <3>1, <3>3, <4>1
    <3> QED
      BY <1>1, <3>1, <3>2, <3>3
  <2>3. CASE LookEnd
    <3>1. ASSUME NEW x \in Codes, Writes("tick", Registered(mem, x), {x}) PROVE Promised(c, d)'
      <4>1. PICK copy, l : copy = Registered(mem, x) /\ l = {x}
        OBVIOUS
      <4>2. WellFormed(copy) /\ l \subseteq Codes
        BY <1>a, <4>1, RegisteredIs
      <4>3. \/ /\ "tick" \in fresh /\ l \cap forgotten = {}
               /\ file' = copy /\ losses' = losses /\ wounded' = wounded \ l
            \/ losses' = losses + 1 /\ wounded' = Codes
        BY <1>0, <3>1, <4>1, <4>2, WritesIs
      <4>4. day' = day /\ ("tick" \in fresh => Follows(mem))
        BY <1>0, <2>3 DEF LookEnd, InStep, TickHolds
      <4> QED
        BY <1>1, <1>4, <1>a, <4>1, <4>3, <4>4
    <3> QED
      BY <1>2, <2>3, <3>1 DEF LookEnd
  <2>4. CASE TickRead \/ Look
    <3>1. ASSUME NEW copy \in {file, Empty}, Reads("tick", copy) PROVE wounded' = wounded \/ wounded' = Codes
      BY <1>0, <3>1, ReadsIs
    <3>2. UNCHANGED <<file, day>> /\ (wounded' = wounded \/ wounded' = Codes)
      BY <2>4, <3>1 DEF TickRead, Look
    <3> QED
      BY <1>1, <1>2, <3>2
  <2>5. CASE (\E x \in Codes : Forget(x) \/ Fetch(x)) \/ (\E m \in Messages : Apply(m)) \/ FetchEnd \/ Mail
    BY <1>2, <2>5 DEF Forget, Fetch, Apply, FetchEnd, Mail
  <2> QED
    BY <1>5, <2>1, <2>2, <2>3, <2>4, <2>5 DEF TickStep
<1>6. ASSUME NEW b \in Briefings, BriefingStep(b) PROVE Promised(c, d)'
  <2>1. CASE BriefingRegisters(b)
    <3>1. PICK f, x, copy, l : f = bmem[b] /\ x = bcur[b] /\ copy = Registered(f, x) /\ l = {x}
      OBVIOUS
    <3>2. WellFormed(f) /\ x \in Codes /\ l \subseteq Codes /\ Writes(b, copy, l) /\ day' = day
      BY <1>0, <2>1, <3>1 DEF BriefingRegisters, Shape
    <3>3. WellFormed(copy)
      BY <1>a, <3>1, <3>2, RegisteredIs
    <3>4. \/ /\ b \in fresh /\ l \cap forgotten = {}
             /\ file' = copy /\ losses' = losses /\ wounded' = wounded \ l
          \/ losses' = losses + 1 /\ wounded' = Codes
      BY <1>0, <3>2, <3>3, WritesIs
    <3>5. b \in fresh => Follows(f)
      BY <1>0, <2>1, <3>1 DEF BriefingRegisters, InStep
    <3> QED
      BY <1>1, <1>4, <3>1, <3>2, <3>4, <3>5
  <2>2. ASSUME NEW x \in Codes, BriefingReads(b, x) PROVE Promised(c, d)'
    <3>1. ASSUME NEW copy \in {file, Empty}, Reads(b, copy) PROVE wounded' = wounded \/ wounded' = Codes
      BY <1>0, <3>1, ReadsIs
    <3>2. UNCHANGED <<file, day>> /\ (wounded' = wounded \/ wounded' = Codes)
      BY <2>2, <3>1 DEF BriefingReads
    <3> QED
      BY <1>1, <1>2, <3>2
  <2>3. CASE BriefingMailed(b) \/ BriefingDies(b)
    BY <1>2, <2>3 DEF BriefingMailed, BriefingDies
  <2> QED
    BY <1>6, <2>1, <2>2, <2>3 DEF BriefingStep
<1>7. CASE Die \/ (\E m \in Messages : Reply(m)) \/ NextDay \/ UNCHANGED vars
  BY <1>2, <1>7 DEF Die, Reply, NextDay, vars
<1> QED
  BY <1>5, <1>6, <1>7 DEF Next

LEMMA KeptKeeps ==
  ASSUME RepliesInv, [Next]_vars
  PROVE  Kept'
<1> USE DEF reader, printer, world, post, harm, lost
<1>0. Shape /\ AtHand /\ Kept
  BY DEF RepliesInv
<1>a. WellFormed(file) /\ WellFormed(mem) /\ day \in Nat
  BY <1>0 DEF Shape
<1>1. ASSUME NEW c \in DOMAIN mailed, UNCHANGED mailed PROVE Promised(c, mailed[c])'
  <2>1. PICK d : d = mailed[c]
    OBVIOUS
  <2>2. c \in Codes /\ Promised(c, d)
    BY <1>0, <2>1 DEF Kept, Shape
  <2>3. Promised(c, d)'
    BY <2>2, PromisedKeeps
  <2>4. d = mailed'[c]
    BY <1>1, <2>1
  <2> QED
    BY <2>3, <2>4 DEF Promised, Listed
<1>2. ASSUME NEW x, NEW dx, x \in Codes, Promised(x, dx), mailed' = With(mailed, x, dx)
      PROVE  \A c \in DOMAIN mailed' : Promised(c, mailed[c])'
  <2>1. DOMAIN mailed' = DOMAIN mailed \cup {x} /\ \A c \in DOMAIN mailed' : mailed'[c] = IF c = x THEN dx ELSE mailed[c]
    BY <1>2 DEF With
  <2> SUFFICES ASSUME NEW c \in DOMAIN mailed' PROVE Promised(c, mailed[c])'
    OBVIOUS
  <2>2. PICK d : d = mailed'[c]
    OBVIOUS
  <2>3. c \in Codes /\ Promised(c, d)
    <3>1. CASE c = x
      BY <1>2, <2>1, <2>2, <3>1
    <3>2. CASE c # x
      BY <1>0, <2>1, <2>2, <3>2 DEF Kept, Shape
    <3> QED
      BY <3>1, <3>2
  <2>4. Promised(c, d)'
    BY <2>3, PromisedKeeps
  <2> QED
    BY <2>2, <2>4 DEF Promised, Listed
<1>3. \A c \in DOMAIN mailed' : Promised(c, mailed[c])'
  <2>1. CASE UNCHANGED mailed
    BY <1>1, <2>1
  <2>2. CASE Mail
    <3>1. PICK x, dx : x = cur /\ dx = mem[cur].at
      OBVIOUS
    <3>2. x \in Codes /\ Promised(x, dx) /\ (mailed' = With(mailed, x, dx) \/ mailed' = mailed)
      BY <1>0, <2>2, <3>1 DEF Mail, Kept, AtHand, Shape, WellFormed
    <3> QED
      BY <1>1, <1>2, <3>2
  <2>3. ASSUME NEW b \in Briefings, BriefingMailed(b) PROVE \A c \in DOMAIN mailed' : Promised(c, mailed[c])'
    <3>1. PICK x, dx : x = bcur[b] /\ dx = bmem[b][bcur[b]].at
      OBVIOUS
    <3>2. x \in Codes /\ Promised(x, dx) /\ (mailed' = With(mailed, x, dx) \/ mailed' = mailed)
      BY <1>0, <2>3, <3>1 DEF BriefingMailed, Kept, Shape
    <3> QED
      BY <1>1, <1>2, <3>2
  <2>4. \/ UNCHANGED mailed \/ Mail \/ \E b \in Briefings : BriefingMailed(b)
    <3>1. CASE TickStep
      BY <3>1 DEF TickStep, TickRead, Forget, Fetch, Claim, Apply, FetchEnd, CollectEnd, Look, Stamp, LookEnd
    <3>2. ASSUME NEW b \in Briefings, BriefingStep(b) PROVE UNCHANGED mailed \/ BriefingMailed(b)
      BY <3>2 DEF BriefingStep, BriefingReads, BriefingRegisters, BriefingDies
    <3>3. CASE Die \/ (\E m \in Messages : Reply(m)) \/ NextDay \/ UNCHANGED vars
      BY <3>3 DEF Die, Reply, NextDay, vars
    <3> QED
      BY <3>1, <3>2, <3>3 DEF Next
  <2> QED
    BY <2>1, <2>2, <2>3, <2>4
(* A list that is registered is promised from the day of it.                *)
<1>4. ASSUME NEW p, NEW f, NEW x \in Codes, WellFormed(f), Writes(p, Registered(f, x), {x}), day' = day
      PROVE  Promised(x, day)'
  <2>1. PICK copy, l : copy = Registered(f, x) /\ l = {x}
    OBVIOUS
  <2>2. WellFormed(Registered(f, x)) /\ DOMAIN Registered(f, x) = DOMAIN f \cup {x} /\ Registered(f, x)[x].at = day
    BY <1>4, <1>a, RegisteredIs
  <2>3. WellFormed(copy) /\ l \subseteq Codes /\ Writes(p, copy, l)
    BY <1>4, <2>1, <2>2
  <2>4. \/ file' = copy
        \/ losses' = losses + 1 /\ wounded' = Codes
    BY <1>0, <2>3, WritesIs
  <2>5. x \in DOMAIN copy /\ copy[x].at = day
    BY <2>1, <2>2
  <2> QED
    BY <1>4, <1>a, <2>4, <2>5 DEF Promised, Listed
<1>5. tick' = "mail" => Promised(cur, mem[cur].at)'
  <2>1. CASE tick = "mail" /\ UNCHANGED <<cur, mem>>
    <3>1. PICK x, dx : x = cur /\ dx = mem[cur].at
      OBVIOUS
    <3>2. x \in Codes /\ Promised(x, dx)
      BY <1>0, <2>1, <3>1 DEF Kept, AtHand, Shape, WellFormed
    <3>3. Promised(x, dx)'
      BY <3>2, PromisedKeeps
    <3> QED
      BY <2>1, <3>1, <3>3 DEF Promised, Listed
  <2>2. CASE LookEnd
    <3>1. ASSUME NEW x \in Codes, mem' = Registered(mem, x), Writes("tick", mem', {x}), cur' = x
          PROVE  Promised(cur, mem[cur].at)'
      <4>1. Writes("tick", Registered(mem, x), {x}) /\ day' = day
        BY <2>2, <3>1 DEF LookEnd
      <4>2. Promised(x, day)'
        BY <1>4, <1>a, <4>1
      <4>3. Registered(mem, x)[x].at = day
        BY <1>a, RegisteredIs
      <4>4. mem'[cur'].at = day' /\ cur' = x
        BY <3>1, <4>1, <4>3
      <4> QED
        BY <4>2, <4>4 DEF Promised, Listed
    <3> QED
      BY <2>2, <3>1 DEF LookEnd, Rest
  <2>3. \/ tick' # "mail" \/ (tick = "mail" /\ UNCHANGED <<cur, mem>>) \/ LookEnd
    <3>1. CASE TickStep
      BY <3>1 DEF TickStep, TickRead, Forget, Fetch, Claim, Apply, FetchEnd, CollectEnd, Look, Stamp, Mail, Rest
    <3>2. ASSUME NEW b \in Briefings, BriefingStep(b) PROVE UNCHANGED <<tick, cur, mem>>
      BY <3>2 DEF BriefingStep, BriefingReads, BriefingRegisters, BriefingMailed, BriefingDies
    <3>3. CASE Die \/ (\E m \in Messages : Reply(m)) \/ NextDay \/ UNCHANGED vars
      BY <3>3 DEF Die, Rest, Reply, NextDay, vars
    <3> QED
      BY <3>1, <3>2, <3>3 DEF Next
  <2> QED
    BY <2>1, <2>2, <2>3
<1>6. ASSUME NEW b \in Briefings, brief'[b] = "mail" PROVE Promised(bcur[b], bmem[b][bcur[b]].at)'
  <2>1. CASE brief[b] = "mail" /\ UNCHANGED <<bcur[b], bmem[b]>>
    <3>1. PICK x, dx : x = bcur[b] /\ dx = bmem[b][bcur[b]].at
      OBVIOUS
    <3>2. x \in Codes /\ Promised(x, dx)
      BY <1>0, <2>1, <3>1 DEF Kept, Shape
    <3>3. Promised(x, dx)'
      BY <3>2, PromisedKeeps
    <3>4. x = bcur'[b] /\ dx = bmem'[b][bcur'[b]].at
      BY <2>1, <3>1
    <3> QED
      BY <3>3, <3>4 DEF Promised, Listed
  <2>2. CASE BriefingRegisters(b)
    <3>1. PICK f, x : f = bmem[b] /\ x = bcur[b]
      OBVIOUS
    <3>2. WellFormed(f) /\ x \in Codes /\ Writes(b, Registered(f, x), {x}) /\ day' = day
      BY <1>0, <2>2, <3>1 DEF BriefingRegisters, Shape
    <3>3. Promised(x, day)'
      BY <1>4, <3>2
    <3>4. Registered(f, x)[x].at = day
      BY <1>a, <3>2, RegisteredIs
    <3>5. bmem'[b] = Registered(f, x) /\ bcur'[b] = x
      BY <1>0, <2>2, <3>1 DEF BriefingRegisters, Shape
    <3>6. bmem'[b][bcur'[b]].at = day'
      BY <3>2, <3>4, <3>5
    <3> QED
      BY <3>3, <3>5, <3>6 DEF Promised, Listed
  <2>3. (brief[b] = "mail" /\ UNCHANGED <<bcur[b], bmem[b]>>) \/ BriefingRegisters(b)
    <3>1. CASE UNCHANGED printer
      BY <1>6, <3>1
    <3>2. ASSUME NEW x \in Briefings, BriefingStep(x) PROVE (brief[b] = "mail" /\ UNCHANGED <<bcur[b], bmem[b]>>) \/ BriefingRegisters(b)
      <4>1. CASE x = b
        BY <1>0, <1>6, <3>2, <4>1 DEF BriefingStep, BriefingReads, BriefingMailed, BriefingDies, BriefingRests, Shape
      <4>2. CASE x # b
        BY <1>0, <1>6, <3>2, <4>2 DEF BriefingStep, BriefingReads, BriefingRegisters, BriefingMailed, BriefingDies, BriefingRests, Shape
      <4> QED
        BY <4>1, <4>2
    <3>3. CASE TickStep \/ Die \/ (\E m \in Messages : Reply(m)) \/ NextDay \/ UNCHANGED vars
      <4>1. UNCHANGED printer
        BY <3>3 DEF TickStep, TickRead, Forget, Fetch, Claim, Apply, FetchEnd, CollectEnd, Look, Stamp, LookEnd, Mail,
                    Die, Reply, NextDay, vars
      <4> QED
        BY <3>1, <4>1
    <3> QED
      BY <3>2, <3>3 DEF Next
  <2> QED
    BY <2>1, <2>2, <2>3
<1> QED
  BY <1>3, <1>5, <1>6 DEF Kept

-----------------------------------------------------------------------------
(* Copies that follow the file.                                             *)

LEMMA SameFollows ==
  ASSUME Shape, NEW f, Follows(f), day' = day \/ day' = day + 1,
         (UNCHANGED file /\ wounded' = wounded) \/ wounded' = Codes, WellFormed(file')
  PROVE  Follows(f)'
<1>1. day \in Nat /\ BatchDays \in Nat /\ \A c \in DOMAIN file : file[c].at \in Nat
  BY RepliesAssumption DEF Shape, WellFormed
<1>2. CASE UNCHANGED file /\ wounded' = wounded
  BY <1>1, <1>2 DEF Follows, Expired
<1>3. CASE wounded' = Codes
  BY <1>3 DEF Follows, WellFormed
<1> QED
  BY <1>2, <1>3

LEMMA FileFollows ==
  ASSUME NEW f, file' = f \/ wounded' = Codes, WellFormed(file')
  PROVE  Follows(f)'
  BY DEF Follows, WellFormed

LEMMA InStepKeeps ==
  ASSUME RepliesInv, [Next]_vars
  PROVE  InStep'
<1> USE DEF reader, printer, world, post, harm, lost
<1>0. Shape /\ AtHand /\ InStep /\ "tick" \notin Briefings
  BY RepliesAssumption DEF RepliesInv
<1>a. WellFormed(file) /\ WellFormed(mem) /\ day \in Nat /\ WellFormed(file')
  BY <1>0, ShapeKeeps DEF Shape
(* The tick's copy, and a briefing's, when they and the file stay.          *)
<1>1. ASSUME TickHolds, "tick" \in fresh, UNCHANGED mem, day' = day \/ day' = day + 1,
             (UNCHANGED file /\ wounded' = wounded) \/ wounded' = Codes
      PROVE  Follows(mem)'
  <2>1. PICK f : f = mem
    OBVIOUS
  <2>2. Follows(f)
    BY <1>0, <1>1, <2>1 DEF InStep
  <2>3. Follows(f)'
    BY <1>0, <1>1, <1>a, <2>2, SameFollows
  <2> QED
    BY <1>1, <2>1, <2>3 DEF Follows
<1>2. ASSUME NEW b \in fresh \cap Briefings, brief[b] = "register", UNCHANGED bmem[b],
             day' = day \/ day' = day + 1, (UNCHANGED file /\ wounded' = wounded) \/ wounded' = Codes
      PROVE  Follows(bmem[b])'
  <2>1. PICK f : f = bmem[b]
    OBVIOUS
  <2>2. Follows(f)
    BY <1>0, <1>2, <2>1 DEF InStep
  <2>3. Follows(f)'
    BY <1>0, <1>2, <1>a, <2>2, SameFollows
  <2> QED
    BY <1>2, <2>1, <2>3 DEF Follows
<1>3. ASSUME fresh' \subseteq fresh, UNCHANGED printer, TickHolds' => TickHolds /\ UNCHANGED mem,
             day' = day \/ day' = day + 1, UNCHANGED file /\ wounded' = wounded
      PROVE  InStep'
  BY <1>1, <1>2, <1>3 DEF InStep
(* The tick reads.                                                          *)
<1>4. ASSUME NEW copy \in {file, Empty}, Reads("tick", copy), mem' = copy, UNCHANGED <<file, day, printer>>
      PROVE  InStep'
  <2>1. /\ fresh' = fresh \cup {"tick"}
        /\ \/ copy = file /\ losses' = losses /\ wounded' = wounded
           \/ losses' = losses + 1 /\ wounded' = Codes
    BY <1>0, <1>4, ReadsIs
  <2>2. Follows(mem)'
    BY <1>4, <1>a, <2>1 DEF Follows, WellFormed
  <2>3. ASSUME NEW b \in fresh' \cap Briefings, brief'[b] = "register" PROVE Follows(bmem[b])'
    <3>1. b \in fresh \cap Briefings /\ brief[b] = "register"
      BY <1>0, <1>4, <2>1, <2>3
    <3> QED
      BY <1>2, <1>4, <2>1, <3>1
  <2> QED
    BY <2>2, <2>3 DEF InStep
(* The tick writes.                                                         *)
<1>5. ASSUME fresh' = {"tick"}, file' = mem' \/ wounded' = Codes
      PROVE  InStep'
  <2>1. Follows(mem)'
    BY <1>5, <1>a DEF Follows, WellFormed
  <2> QED
    BY <1>0, <1>5, <2>1 DEF InStep
<1>6. CASE TickStep
  <2>1. CASE TickRead
    BY <1>4, <2>1 DEF TickRead
  <2>2. ASSUME NEW c \in Codes, Forget(c) PROVE InStep'
    <3>1. /\ UNCHANGED <<file, tick, day, printer, fresh, wounded>> /\ TickHolds /\ c \in DOMAIN mem
          /\ Expired(mem[c]) /\ mem' = [x \in DOMAIN mem \ {c} |-> mem[x]]
      BY <1>0, <2>2 DEF Forget, Restrict, TickHolds, AtHand
    <3>2. "tick" \in fresh => Follows(mem)'
      <4> SUFFICES ASSUME "tick" \in fresh PROVE Follows(mem)'
        OBVIOUS
      <4>1. Follows(mem)
        BY <1>0, <3>1 DEF InStep
      <4> QED
        BY <3>1, <4>1 DEF Follows, Expired
    <3>3. ASSUME NEW b \in fresh' \cap Briefings, brief'[b] = "register" PROVE Follows(bmem[b])'
      BY <1>2, <3>1, <3>3
    <3> QED
      BY <3>1, <3>2, <3>3 DEF InStep
  <2>3. ASSUME NEW m \in Messages, Claim(m) PROVE InStep'
    <3>1. Writes("tick", mem', {}) /\ cur \in DOMAIN mem
          /\ mem' = [mem EXCEPT ![cur].seen = @ \cup {m}]
      BY <1>0, <2>3 DEF Claim, AtHand
    <3>2. PICK f, x, g : f = mem /\ x = cur /\ g = mem'
      OBVIOUS
    <3>3. WellFormed(f) /\ x \in DOMAIN f /\ g = [f EXCEPT ![x].seen = @ \cup {m}]
      BY <1>a, <3>1, <3>2
    <3>4. WellFormed(g)
      BY <3>3, ClaimedIs
    <3>5. Writes("tick", g, {})
      BY <3>1, <3>2
    <3>6. /\ fresh' = {"tick"}
          /\ \/ "tick" \in fresh /\ file' = g /\ losses' = losses /\ wounded' = wounded
             \/ losses' = losses + 1 /\ wounded' = Codes
      BY <1>0, <3>4, <3>5, WritesNoneIs
    <3> QED
      BY <1>5, <3>2, <3>6
  <2>4. CASE Stamp
    <3>1. Writes("tick", mem, {}) /\ mem' = mem
      BY <2>4 DEF Stamp
    <3>2. /\ fresh' = {"tick"}
          /\ \/ "tick" \in fresh /\ file' = mem /\ losses' = losses /\ wounded' = wounded
             \/ losses' = losses + 1 /\ wounded' = Codes
      BY <1>0, <1>a, <3>1, WritesNoneIs
    <3> QED
      BY <1>5, <3>1, <3>2
  <2>5. CASE CollectEnd
    <3>1. Writes("tick", mem, {}) /\ tick' = "look"
      BY <2>5 DEF CollectEnd
    <3>2. fresh' = {"tick"}
      BY <3>1 DEF Writes
    <3> QED
      BY <1>0, <3>1, <3>2 DEF InStep, TickHolds
  <2>6. CASE LookEnd
    <3>1. CASE Rest /\ UNCHANGED <<file, lost>>
      BY <1>3, <2>6, <3>1 DEF LookEnd, Rest, TickHolds
    <3>2. ASSUME NEW c, Writes("tick", mem', {c}), tick' = "mail" PROVE InStep'
      <4>1. fresh' = {"tick"}
        BY <3>2 DEF Writes
      <4> QED
        BY <1>0, <3>2, <4>1 DEF InStep, TickHolds
    <3> QED
      BY <2>6, <3>1, <3>2 DEF LookEnd
  <2>7. CASE Look
    <3>1. CASE Rest /\ UNCHANGED lost
      BY <1>3, <2>7, <3>1 DEF Look, Rest, TickHolds
    <3>2. CASE \E copy \in {file, Empty} : Reads("tick", copy) /\ mem' = copy
      BY <1>4, <2>7, <3>2 DEF Look
    <3> QED
      BY <2>7, <3>1, <3>2 DEF Look
  <2>8. CASE (\E c \in Codes : Fetch(c)) \/ (\E m \in Messages : Apply(m)) \/ FetchEnd \/ Mail
    BY <1>3, <2>8 DEF Fetch, Apply, FetchEnd, Mail, Rest, TickHolds
  <2> QED
    BY <1>6, <2>1, <2>2, <2>3, <2>4, <2>5, <2>6, <2>7, <2>8 DEF TickStep
<1>7. ASSUME NEW b \in Briefings, BriefingStep(b) PROVE InStep'
  <2>1. ASSUME NEW c \in Codes, BriefingReads(b, c) PROVE InStep'
    <3>1. PICK copy \in {file, Empty} : Reads(b, copy) /\ bmem' = [bmem EXCEPT ![b] = copy]
      BY <2>1 DEF BriefingReads
    <3>2. /\ fresh' = fresh \cup {b}
          /\ \/ copy = file /\ losses' = losses /\ wounded' = wounded
             \/ losses' = losses + 1 /\ wounded' = Codes
      BY <1>0, <3>1, ReadsIs
    <3>3. /\ UNCHANGED <<file, tick, mem, day>> /\ brief' = [brief EXCEPT ![b] = "register"]
          /\ bmem'[b] = copy /\ \A x \in Briefings : x # b => brief'[x] = brief[x] /\ bmem'[x] = bmem[x]
      BY <1>0, <2>1, <3>1 DEF BriefingReads, Shape
    <3>4. "tick" \in fresh' /\ TickHolds' => Follows(mem)'
      BY <1>0, <1>1, <3>2, <3>3 DEF TickHolds
    <3>5. Follows(bmem[b])'
      BY <1>a, <3>2, <3>3 DEF Follows, WellFormed
    <3>6. ASSUME NEW x \in fresh' \cap Briefings, x # b, brief'[x] = "register" PROVE Follows(bmem[x])'
      BY <1>2, <3>2, <3>3, <3>6
    <3> QED
      BY <3>4, <3>5, <3>6 DEF InStep
  <2>2. CASE BriefingRegisters(b)
    <3>1. fresh' = {b} /\ brief'[b] = "mail"
      BY <1>0, <2>2 DEF BriefingRegisters, Writes, Shape
    <3> QED
      BY <1>0, <3>1 DEF InStep
  <2>3. CASE BriefingMailed(b) \/ BriefingDies(b)
    <3>1. /\ UNCHANGED <<file, tick, mem, day, wounded>> /\ fresh' = fresh \ {b}
          /\ \A x \in Briefings : x # b => brief'[x] = brief[x] /\ bmem'[x] = bmem[x]
      BY <1>0, <2>3 DEF BriefingMailed, BriefingDies, BriefingRests, Shape
    <3>2. "tick" \in fresh' /\ TickHolds' => Follows(mem)'
      BY <1>1, <3>1 DEF TickHolds
    <3>3. ASSUME NEW x \in fresh' \cap Briefings, brief'[x] = "register" PROVE Follows(bmem[x])'
      BY <1>2, <3>1, <3>3
    <3> QED
      BY <3>2, <3>3 DEF InStep
  <2> QED
    BY <1>7, <2>1, <2>2, <2>3 DEF BriefingStep
<1>8. CASE Die \/ (\E m \in Messages : Reply(m)) \/ NextDay \/ UNCHANGED vars
  BY <1>3, <1>8 DEF Die, Rest, Reply, NextDay, vars, TickHolds
<1> QED
  BY <1>6, <1>7, <1>8 DEF Next

-----------------------------------------------------------------------------
(* What was acted on stays claimed.                                         *)

LEMMA DueIs ==
  ASSUME Shape, NEW m \in Messages
  PROVE  Due(m) \in Nat /\ acted[m] \in Nat /\ losses \in Nat /\ acted[m] <= Due(m)
  BY DEF Shape, Due

LEMMA RegisteredSafe ==
  ASSUME NEW f, WellFormed(f), NEW c \in Codes, day \in Nat, NEW m \in Messages, Safe(f, m),
         c \notin forgotten \/ About[m] # c, NEW g, g = Registered(f, c), forgotten' = forgotten \ {c}
  PROVE  IF About[m] \in DOMAIN g THEN m \in g[About[m]].seen ELSE About[m] \in forgotten'
<1>1. DOMAIN Registered(f, c) = DOMAIN f \cup {c}
  BY RegisteredIs
<1>2. \A x \in DOMAIN f : x # c => Registered(f, c)[x] = f[x]
  BY RegisteredIs
<1>3. c \in DOMAIN f => Registered(f, c)[c].seen = f[c].seen
  BY RegisteredIs
<1>4. DOMAIN g = DOMAIN f \cup {c} /\ \A x \in DOMAIN f : g[x].seen = f[x].seen
  BY <1>1, <1>2, <1>3
<1> QED
  BY <1>4 DEF Safe

LEMMA ClaimedKeeps ==
  ASSUME RepliesInv, [Next]_vars
  PROVE  Claimed'
<1> USE DEF reader, printer, world, post, harm, lost
<1> SUFFICES ASSUME NEW m \in Messages PROVE Told(m)'
  BY DEF Claimed
<1>0. Shape /\ AtHand /\ Told(m) /\ "tick" \notin Briefings
  BY RepliesAssumption DEF RepliesInv, Claimed
<1>a. WellFormed(file) /\ WellFormed(mem) /\ day \in Nat /\ WellFormed(file')
  BY <1>0, ShapeKeeps DEF Shape
<1>b. Due(m) \in Nat /\ acted[m] \in Nat /\ losses \in Nat /\ acted[m] <= Due(m)
  BY <1>0, DueIs
<1>c. Due(m)' \in Nat
  <2>1. Shape'
    BY ShapeKeeps
  <2> QED
    BY <2>1 DEF Shape, Due
<1>1. ASSUME Due(m)' <= Due(m), losses' = losses, Held(m) => Held(m)' PROVE Told(m)'
  BY <1>0, <1>1, <1>b, <1>c DEF Told
<1>2. ASSUME Due(m)' <= Due(m), losses' = losses + 1 PROVE Told(m)'
  BY <1>0, <1>2, <1>b, <1>c DEF Told
<1>3. ASSUME tick' # "apply", acted' = acted PROVE Due(m)' <= Due(m)
  BY <1>3, <1>b DEF Due
<1>4. ASSUME UNCHANGED <<tick, mem, got, cur, acted>> PROVE Due(m)' <= Due(m)
  <2>1. Due(m)' = Due(m)
    BY <1>4 DEF Due
  <2> QED
    BY <1>b, <2>1
(* Nothing is written, and no copy taken that was not held.                 *)
<1>5. ASSUME Held(m), UNCHANGED <<file, brief, bmem, forgotten>>, sent \subseteq sent', fresh' \subseteq fresh \cup {"tick"},
             TickHolds' => (TickHolds /\ mem' = mem) \/ mem' = file
      PROVE  Held(m)'
  <2>1. m \in sent' /\ Safe(file, m)'
    BY <1>5 DEF Held, Safe
  <2>2. TickHolds' => Safe(mem, m)'
    BY <1>5 DEF Held, Safe
  <2>3. ASSUME NEW b \in fresh' \cap Briefings, brief'[b] = "register" PROVE Safe(bmem[b], m)'
    <3>1. Safe(bmem[b], m)
      BY <1>0, <1>5, <2>3 DEF Held
    <3> QED
      BY <1>5, <3>1 DEF Safe
  <2> QED
    BY <2>1, <2>2, <2>3 DEF Held
<1>6. ASSUME NEW copy \in {file, Empty}, Reads("tick", copy), mem' = copy, tick' # "apply", UNCHANGED <<file, acted, sent, brief, bmem>>
      PROVE  Told(m)'
  <2>1. /\ fresh' = fresh \cup {"tick"} /\ forgotten' = forgotten
        /\ \/ copy = file /\ losses' = losses /\ wounded' = wounded
           \/ losses' = losses + 1 /\ wounded' = Codes
    BY <1>0, <1>6, ReadsIs
  <2> QED
    BY <1>1, <1>2, <1>3, <1>5, <1>6, <2>1
(* The tick writes its copy.                                                *)
<1>7. ASSUME Writes("tick", mem, {}), TickHolds, tick' # "apply", UNCHANGED <<acted, sent>>, TickHolds' => mem' = mem
      PROVE  Told(m)'
  <2>1. /\ fresh' = {"tick"} /\ forgotten' = forgotten
        /\ \/ "tick" \in fresh /\ file' = mem /\ losses' = losses /\ wounded' = wounded
           \/ losses' = losses + 1 /\ wounded' = Codes
    BY <1>0, <1>a, <1>7, WritesNoneIs
  <2>2. ASSUME Held(m), file' = mem PROVE Held(m)'
    <3>1. m \in sent' /\ Safe(mem, m)
      BY <1>7, <2>2 DEF Held
    <3>2. Safe(file, m)' /\ (TickHolds' => Safe(mem, m)')
      BY <1>7, <2>1, <2>2, <3>1 DEF Safe
    <3> QED
      BY <1>0, <2>1, <3>1, <3>2 DEF Held
  <2> QED
    BY <1>1, <1>2, <1>3, <1>7, <2>1, <2>2
<1>8. ASSUME Rest, UNCHANGED <<file, lost, acted, sent, brief, bmem>> PROVE Told(m)'
  <2>1. ~ TickHolds' /\ tick' # "apply" /\ fresh' \subseteq fresh
    BY <1>8 DEF Rest, TickHolds
  <2> QED
    BY <1>1, <1>3, <1>5, <1>8, <2>1
<1>9. CASE TickStep
  <2>1. CASE TickRead
    BY <1>6, <2>1 DEF TickRead
  <2>2. ASSUME NEW c \in Codes, Forget(c) PROVE Told(m)'
    <3>1. /\ UNCHANGED <<file, tick, printer, sent, acted, fresh, losses>> /\ TickHolds /\ tick = "collect"
          /\ forgotten' = forgotten \cup {c} /\ mem' = [x \in DOMAIN mem \ {c} |-> mem[x]]
      BY <2>2 DEF Forget, Restrict, TickHolds
    <3>2. Held(m) => Held(m)'
      BY <3>1 DEF Held, Safe
    <3> QED
      BY <1>1, <1>3, <3>1, <3>2
  <2>3. ASSUME NEW c \in Codes, Fetch(c) PROVE Told(m)'
    <3>1. UNCHANGED <<file, mem, printer, sent, acted, harm>> /\ TickHolds /\ tick' # "apply"
      BY <2>3 DEF Fetch, TickHolds
    <3> QED
      BY <1>1, <1>3, <1>5, <3>1
  <2>4. ASSUME NEW n \in Messages, Claim(n) PROVE Told(m)'
    <3>1. /\ Writes("tick", mem', {}) /\ cur \in DOMAIN mem /\ TickHolds /\ tick = "read" /\ tick' = "apply"
          /\ mem' = [mem EXCEPT ![cur].seen = @ \cup {n}] /\ n \in got
          /\ UNCHANGED <<cur, got, acted, sent>>
          /\ got \cap mem[cur].seen = {} /\ \A k \in got : k \in sent /\ About[k] = cur
      BY <1>0, <2>4 DEF Claim, AtHand, TickHolds
    <3>2. PICK f, x, g : f = mem /\ x = cur /\ g = mem'
      OBVIOUS
    <3>3. WellFormed(f) /\ x \in DOMAIN f /\ g = [f EXCEPT ![x].seen = @ \cup {n}]
      BY <1>a, <3>1, <3>2
    <3>4. WellFormed(g) /\ DOMAIN g = DOMAIN f
      BY <3>3, ClaimedIs
    <3>5. g[x].seen = f[x].seen \cup {n}
      BY <3>3, ClaimedIs
    <3>6. \A y \in DOMAIN f : y # x => g[y] = f[y]
      BY <3>3, ClaimedIs
    <3>7. Writes("tick", g, {})
      BY <3>1, <3>2
    <3>8. /\ fresh' = {"tick"} /\ forgotten' = forgotten
          /\ \/ "tick" \in fresh /\ file' = g /\ losses' = losses /\ wounded' = wounded
             \/ losses' = losses + 1 /\ wounded' = Codes
      BY <1>0, <3>4, <3>7, WritesNoneIs
    <3>9. CASE m = n
      <4>1. ~ Held(m) /\ Due(m) = acted[m]
        <5>1. About[m] = cur /\ m \notin mem[cur].seen
          BY <3>1, <3>9
        <5>2. ~ Safe(mem, m)
          BY <3>1, <5>1 DEF Safe
        <5>3. Due(m) = acted[m]
          BY <1>b, <3>1 DEF Due
        <5> QED
          BY <3>1, <5>2, <5>3 DEF Held
      <4>2. acted[m] <= losses
        BY <1>0, <1>b, <4>1 DEF Told
      <4>3. Due(m)' = acted[m] + 1
        BY <3>1, <3>2, <3>5, <3>9 DEF Due
      <4>4. CASE losses' = losses + 1
        BY <1>b, <4>2, <4>3, <4>4 DEF Told
      <4>5. CASE file' = g /\ losses' = losses
        <5>1. About[m] = x /\ x \in DOMAIN g /\ m \in g[x].seen /\ m \in sent'
          BY <3>1, <3>2, <3>3, <3>4, <3>5, <3>9
        <5>2. Held(m)'
          BY <1>0, <3>2, <3>8, <4>5, <5>1 DEF Held, Safe
        <5> QED
          BY <1>b, <4>2, <4>3, <4>5, <5>2 DEF Told
      <4> QED
        BY <3>8, <4>4, <4>5
    <3>10. CASE m # n
      <4>1. Due(m)' = acted[m] /\ Due(m) = acted[m]
        <5>1. m \notin got \/ m \notin mem'[cur].seen
          BY <3>1, <3>2, <3>5, <3>10
        <5> QED
          BY <3>1, <5>1, <1>b DEF Due
      <4>2. ASSUME Held(m), file' = g PROVE Held(m)'
        <5>1. Safe(mem, m) /\ m \in sent'
          BY <3>1, <4>2 DEF Held
        <5>2. IF About[m] \in DOMAIN g THEN m \in g[About[m]].seen ELSE About[m] \in forgotten
          <6>1. CASE About[m] = x
            BY <3>2, <3>3, <3>4, <3>5, <5>1, <6>1 DEF Safe
          <6>2. CASE About[m] # x
            BY <3>2, <3>4, <3>6, <5>1, <6>2 DEF Safe
          <6> QED
            BY <6>1, <6>2
        <5> QED
          BY <1>0, <3>2, <3>8, <4>2, <5>1, <5>2 DEF Held, Safe
      <4> QED
        BY <1>1, <1>2, <1>b, <3>8, <4>1, <4>2
    <3> QED
      BY <3>9, <3>10
  <2>5. ASSUME NEW n \in Messages, Apply(n) PROVE Told(m)'
    <3>1. /\ UNCHANGED <<file, mem, cur, printer, sent, harm>> /\ TickHolds
          /\ tick = "apply" /\ tick' = "read" /\ got \cap mem[cur].seen = {n}
          /\ acted' = [acted EXCEPT ![n] = @ + 1]
      BY <1>0, <2>5 DEF Apply, AtHand, TickHolds
    <3>2. Due(m)' <= Due(m)
      <4>1. CASE m = n
        BY <1>0, <1>b, <3>1, <4>1 DEF Due, Shape
      <4>2. CASE m # n
        BY <1>0, <1>b, <3>1, <4>2 DEF Due, Shape
      <4> QED
        BY <4>1, <4>2
    <3> QED
      BY <1>1, <1>5, <3>1, <3>2
  <2>6. CASE CollectEnd \/ Stamp
    BY <1>7, <2>6 DEF CollectEnd, Stamp, TickHolds
  <2>7. CASE FetchEnd
    <3>1. UNCHANGED <<file, mem, printer, sent, acted, harm>> /\ TickHolds /\ tick' # "apply"
      BY <2>7 DEF FetchEnd, TickHolds
    <3> QED
      BY <1>1, <1>3, <1>5, <3>1
  <2>8. CASE Look
    <3>1. CASE Rest /\ UNCHANGED lost
      BY <1>8, <2>8, <3>1 DEF Look
    <3>2. ASSUME NEW copy \in {file, Empty}, Reads("tick", copy), mem' = copy, tick' = "stamp" PROVE Told(m)'
      BY <1>6, <2>8, <3>2 DEF Look
    <3> QED
      BY <2>8, <3>1, <3>2 DEF Look
  <2>9. CASE LookEnd
    <3>1. CASE Rest /\ UNCHANGED <<file, lost>>
      BY <1>8, <2>9, <3>1 DEF LookEnd
    <3>2. ASSUME NEW c \in Codes \ DOMAIN mailed, Writes("tick", Registered(mem, c), {c}), tick' = "mail" PROVE Told(m)'
      <4>1. PICK g, l : g = Registered(mem, c) /\ l = {c}
        OBVIOUS
      <4>2. WellFormed(g) /\ l \subseteq Codes
        BY <1>a, <4>1, RegisteredIs
      <4>3. Writes("tick", g, l)
        BY <3>2, <4>1
      <4>4. \/ /\ "tick" \in fresh /\ l \cap forgotten = {}
               /\ file' = g /\ losses' = losses /\ wounded' = wounded \ l
            \/ losses' = losses + 1 /\ wounded' = Codes
        BY <1>0, <4>2, <4>3, WritesIs
      <4>a. fresh' = {"tick"} /\ forgotten' = forgotten \ l
        BY <4>3 DEF Writes
      <4>5. UNCHANGED <<acted, sent, mailed>> /\ TickHolds /\ ~ TickHolds'
        BY <2>9, <3>2 DEF LookEnd, TickHolds
      <4>6. ASSUME Held(m), file' = g PROVE Held(m)'
        <5>1. Safe(mem, m) /\ m \in sent /\ About[m] # c
          BY <1>0, <3>2, <4>5, <4>6 DEF Held, AtHand
        <5>2. forgotten' = forgotten \ {c}
          BY <4>1, <4>a
        <5>3. IF About[m] \in DOMAIN g THEN m \in g[About[m]].seen ELSE About[m] \in forgotten'
          BY <1>a, <4>1, <5>1, <5>2, RegisteredSafe
        <5> QED
          BY <1>0, <4>a, <4>5, <4>6, <5>1, <5>3 DEF Held, Safe
      <4> QED
        BY <1>1, <1>2, <1>3, <3>2, <4>4, <4>5, <4>6
    <3> QED
      BY <2>9, <3>1, <3>2 DEF LookEnd
  <2>10. CASE Mail
    BY <1>8, <2>10 DEF Mail
  <2> QED
    BY <1>9, <2>1, <2>2, <2>3, <2>4, <2>5, <2>6, <2>7, <2>8, <2>9, <2>10 DEF TickStep
<1>10. ASSUME NEW b \in Briefings, BriefingStep(b) PROVE Told(m)'
  <2>0. UNCHANGED <<tick, mem, got, cur, acted, sent>> /\ Due(m)' <= Due(m)
    BY <1>4, <1>10 DEF BriefingStep, BriefingReads, BriefingRegisters, BriefingMailed, BriefingDies
  <2>1. ASSUME NEW c \in Codes, BriefingReads(b, c) PROVE Told(m)'
    <3>1. PICK copy \in {file, Empty} : Reads(b, copy) /\ bmem' = [bmem EXCEPT ![b] = copy]
      BY <2>1 DEF BriefingReads
    <3>2. /\ fresh' = fresh \cup {b} /\ forgotten' = forgotten
          /\ \/ copy = file /\ losses' = losses /\ wounded' = wounded
             \/ losses' = losses + 1 /\ wounded' = Codes
      BY <1>0, <3>1, ReadsIs
    <3>3. /\ UNCHANGED file /\ bmem'[b] = copy
          /\ \A x \in Briefings : x # b => brief'[x] = brief[x] /\ bmem'[x] = bmem[x]
      BY <1>0, <2>1, <3>1 DEF BriefingReads, Shape
    <3>4. ASSUME Held(m), copy = file PROVE Held(m)'
      <4>1. ASSUME NEW x \in fresh' \cap Briefings, brief'[x] = "register" PROVE Safe(bmem[x], m)'
        <5>1. CASE x = b
          BY <3>2, <3>3, <3>4, <5>1 DEF Held, Safe
        <5>2. CASE x # b
          BY <3>2, <3>3, <3>4, <4>1, <5>2 DEF Held, Safe
        <5> QED
          BY <5>1, <5>2
      <4> QED
        BY <2>0, <3>2, <3>3, <3>4, <4>1 DEF Held, Safe, TickHolds
    <3> QED
      BY <1>1, <1>2, <2>0, <3>2, <3>4
  <2>2. CASE BriefingRegisters(b)
    <3>1. PICK f, x, g, l : f = bmem[b] /\ x = bcur[b] /\ g = Registered(f, x) /\ l = {x}
      OBVIOUS
    <3>2. WellFormed(f) /\ x \in Codes /\ l \subseteq Codes /\ Writes(b, g, l) /\ brief[b] = "register" /\ brief'[b] = "mail"
      BY <1>0, <2>2, <3>1 DEF BriefingRegisters, Shape
    <3>3. WellFormed(g)
      BY <1>a, <3>1, <3>2, RegisteredIs
    <3>4. /\ fresh' = {b} /\ forgotten' = forgotten \ l
          /\ \/ /\ b \in fresh /\ l \cap forgotten = {}
                /\ file' = g /\ losses' = losses /\ wounded' = wounded \ l
             \/ losses' = losses + 1 /\ wounded' = Codes
      <4>1. Shape /\ l \subseteq Codes /\ Writes(b, g, l)
        BY <1>0, <3>2
      <4>2. fresh' = {b} /\ forgotten' = forgotten \ l
        BY <4>1, <3>3, WritesIs
      <4>3. \/ /\ b \in fresh /\ l \cap forgotten = {}
               /\ file' = g /\ losses' = losses /\ wounded' = wounded \ l
            \/ losses' = losses + 1 /\ wounded' = Codes
        BY <4>1, <3>3, WritesIs
      <4> QED
        BY <4>2, <4>3
    <3>5. ASSUME Held(m), b \in fresh, l \cap forgotten = {}, file' = g PROVE Held(m)'
      <4>1. Safe(f, m) /\ m \in sent' /\ (TickHolds => Safe(mem, m)) /\ x \notin forgotten
        BY <2>0, <3>1, <3>2, <3>5 DEF Held
      <4>2. forgotten' = forgotten \ {x}
        BY <3>1, <3>4
      <4>3. IF About[m] \in DOMAIN g THEN m \in g[About[m]].seen ELSE About[m] \in forgotten'
        BY <1>a, <3>1, <3>2, <4>1, <4>2, RegisteredSafe
      <4>4. TickHolds' => Safe(mem, m)'
        BY <2>0, <4>1, <4>2 DEF Safe, TickHolds
      <4> QED
        BY <3>2, <3>4, <3>5, <4>1, <4>3, <4>4 DEF Held, Safe
    <3> QED
      BY <1>1, <1>2, <2>0, <3>4, <3>5
  <2>3. CASE BriefingMailed(b) \/ BriefingDies(b)
    <3>1. /\ UNCHANGED <<file, lost>> /\ fresh' = fresh \ {b}
          /\ \A x \in Briefings : x # b => brief'[x] = brief[x] /\ bmem'[x] = bmem[x]
      BY <1>0, <2>3 DEF BriefingMailed, BriefingDies, BriefingRests, Shape
    <3>2. ASSUME Held(m) PROVE Held(m)'
      <4>1. ASSUME NEW x \in fresh' \cap Briefings, brief'[x] = "register" PROVE Safe(bmem[x], m)'
        BY <3>1, <3>2, <4>1 DEF Held, Safe
      <4> QED
        BY <2>0, <3>1, <3>2, <4>1 DEF Held, Safe, TickHolds
    <3> QED
      BY <1>1, <2>0, <3>1, <3>2
  <2> QED
    BY <1>10, <2>1, <2>2, <2>3 DEF BriefingStep
<1>11. CASE Die
  BY <1>8, <1>11 DEF Die
<1>12. CASE (\E n \in Messages : Reply(n)) \/ NextDay \/ UNCHANGED vars
  <2>1. UNCHANGED <<file, tick, mem, got, cur, printer, acted, harm>> /\ sent \subseteq sent'
    BY <1>12 DEF Reply, NextDay, vars
  <2>2. TickHolds' = TickHolds
    BY <2>1 DEF TickHolds
  <2> QED
    BY <1>1, <1>4, <1>5, <2>1, <2>2
<1> QED
  BY <1>9, <1>10, <1>11, <1>12 DEF Next

LEMMA RepliesInvHolds == Spec => []RepliesInv
<1>1. Init => RepliesInv
  <2> SUFFICES ASSUME Init PROVE RepliesInv
    OBVIOUS
  <2>1. Shape
    BY EmptyIs DEF Init, Shape, TickHolds
  <2>2. AtHand /\ InStep /\ Kept
    BY DEF Init, AtHand, InStep, Kept, TickHolds, Empty
  <2>3. Claimed
    BY DEF Init, Claimed, Told, Due
  <2> QED
    BY <2>1, <2>2, <2>3 DEF RepliesInv
<1>2. RepliesInv /\ [Next]_vars => RepliesInv'
  BY ShapeKeeps, KeptKeeps, InStepKeeps, ClaimedKeeps DEF RepliesInv
<1> QED
  BY <1>1, <1>2, PTL DEF Spec

(* Lists and drafts side by side: each goes its own way.                    *)
LEMMA EachItsOwn == RepliesSpec => Spec /\ S!Spec
<1>1. CorrInit => Init /\ S!Init
  BY DEF CorrInit
<1>2. [CorrNext]_all => [Next]_vars /\ [S!Next]_(S!vars)
  BY DEF CorrNext, all, mail, S!vars
<1>3. CorrSpec => Spec /\ S!Spec
  BY <1>1, <1>2, PTL DEF CorrSpec, Spec, S!Spec
<1> QED
  BY <1>3, PTL DEF RepliesSpec

(* A message is acted on once, and once more at most for each loss, whatever*)
(* briefings prepare and write over, and whenever ticks die.                *)
THEOREM ActedOnceAlways == RepliesSpec => []ActedOnce
<1>1. RepliesInv => ActedOnce
  <2> SUFFICES ASSUME RepliesInv, NEW m \in Messages PROVE acted[m] <= 1 + losses
    BY DEF ActedOnce
  <2>1. Told(m) /\ acted[m] \in Nat /\ losses \in Nat
    BY DEF RepliesInv, Claimed, Shape
  <2> QED
    BY <2>1 DEF Told, Due
<1> QED
  BY <1>1, RepliesInvHolds, EachItsOwn, PTL

(* A list that was mailed, by the tick or in a briefing, is listened for    *)
(* until it expires, where nothing was lost since it was registered.        *)
THEOREM ListenedForAlways == RepliesSpec => []ListenedFor
<1>1. RepliesInv => ListenedFor
  BY RepliesAssumption DEF RepliesInv, Shape, Kept, Promised, Listed, ListenedFor
<1> QED
  BY <1>1, RepliesInvHolds, EachItsOwn, PTL

D == INSTANCE DraftSendProofs

(* Whoever drafts, presses, answers or sends by hand, together and in any   *)
(* order, a reply goes once, and once more at most for each fault and for   *)
(* each writer that read the ledger while another kept its copy.            *)
THEOREM RepliesGoOnce == RepliesSpec => []GoesOnce
<1>1. D!DraftAssumption
  BY DraftsAssumption DEF S!DraftAssumption, D!DraftAssumption, S!IsFiniteSet, D!IsFiniteSet
<1>2. D!Spec => []D!GoesOnce
  BY <1>1, D!GoesOnceAlways
<1>3. S!Init => D!Init
  BY DEF S!Init, D!Init, S!Empty, D!Empty
<1>4. [S!Next]_(S!vars) => [D!Next]_(D!vars)
  BY DEF S!Next, D!Next, S!vars, D!vars, S!draft_once, D!draft_once, S!Made, D!Made, S!save_ledger, D!save_ledger,
         S!Dies, D!Dies, S!Press, D!Press, S!Answer, D!Answer, S!attach, D!attach, S!send_draft, D!send_draft,
         S!StampsLedger, D!StampsLedger, S!UserSends, D!UserSends, S!UserDeletes, D!UserDeletes, S!Gone, D!Gone,
         S!Fault, D!Fault, S!Reads, D!Reads, S!Delivers, D!Delivers, S!Wanted, D!Wanted, S!Empty, D!Empty
<1>5. D!GoesOnce => S!GoesOnce
  BY DEF D!GoesOnce, S!GoesOnce
<1> QED
  BY <1>2, <1>3, <1>4, <1>5, EachItsOwn, PTL DEF GoesOnce, S!Spec, D!Spec
=============================================================================
