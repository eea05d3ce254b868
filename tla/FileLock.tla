------------------------------- MODULE FileLock -------------------------------
(***************************************************************************)
(* The lock file, as workbench_store._locked and digest_send.digest_lock   *)
(* take it: create it exclusively; when it exists, break it if it is old,  *)
(* give up waiting at a deadline, otherwise look again; remove it at the   *)
(* end, whoever made it.  The store goes ahead without the lock at its     *)
(* deadline, the digest sender raises.                                     *)
(*                                                                         *)
(* A contender is a process: the threads of one process take turns by an   *)
(* RLock and nested uses count as one.  Time is counted in ages, each up   *)
(* to just past the bound it is compared with.                             *)
(***************************************************************************)
EXTENDS Naturals, FiniteSets

CONSTANTS
  Procs,        \* processes that want the lock
  NoFile,       \* the lock file does not exist
  Stale,        \* LOCK_STALE_S, LOCK_TIMEOUT_S: older than this is left behind
  Wait,         \* LOCK_WAIT_S, LOCK_TIMEOUT_S: how long to wait
  GoesAhead,    \* whether the write goes ahead at the deadline (the store's)
  MaxHold,      \* the longest a live holder keeps the lock
  Removable,    \* whether the directory lets the file be removed
  MaxDeaths     \* bound: processes that die

ASSUME LockAssumption ==
  /\ NoFile \notin Procs
  /\ Stale \in Nat /\ Wait \in Nat /\ MaxHold \in Nat
  /\ GoesAhead \in BOOLEAN
  /\ Removable \in BOOLEAN
  /\ MaxDeaths \in Nat

VARIABLES
  file,         \* who made the lock file, or NoFile
  age,          \* how old it is
  pc,           \* process -> how far it is
  waited,       \* process -> how long it has waited
  kept,         \* process -> how long it has been inside
  gaveUp,       \* history: the age of the file when a process last gave up
  deaths        \* processes that died

vars == <<file, age, pc, waited, kept, gaveUp, deaths>>

AgeCap == Stale + MaxHold + 1
States == {"out", "try", "look", "break", "in", "ahead"}

TypeOK ==
  /\ file \in Procs \cup {NoFile}
  /\ age \in 0..AgeCap
  /\ pc \in [Procs -> States]
  /\ waited \in [Procs -> 0..(Wait + 1)]
  /\ kept \in [Procs -> 0..MaxHold]
  /\ gaveUp \in 0..AgeCap
  /\ deaths \in 0..MaxDeaths

Init ==
  /\ file = NoFile
  /\ age = 0
  /\ pc = [p \in Procs |-> "out"]
  /\ waited = [p \in Procs |-> 0]
  /\ kept = [p \in Procs |-> 0]
  /\ gaveUp = AgeCap
  /\ deaths = 0

Goto(p, to) == pc' = [pc EXCEPT ![p] = to]

Ask(p) ==
  /\ pc[p] = "out"
  /\ Goto(p, "try")
  /\ UNCHANGED <<file, age, waited, kept, gaveUp, deaths>>

\* Deviation: the file is opened without O_EXCL.
CreateShared(p) ==
  /\ pc[p] = "try"
  /\ file' = p
  /\ age' = 0
  /\ waited' = [waited EXCEPT ![p] = 0]
  /\ Goto(p, "in")
  /\ UNCHANGED <<kept, gaveUp, deaths>>

\* os.open with O_CREAT | O_EXCL.
Create(p) ==
  /\ pc[p] = "try"
  /\ file = NoFile
  /\ file' = p
  /\ age' = 0
  /\ waited' = [waited EXCEPT ![p] = 0]
  /\ Goto(p, "in")
  /\ UNCHANGED <<kept, gaveUp, deaths>>

Exists(p) ==
  /\ pc[p] = "try"
  /\ file # NoFile
  /\ Goto(p, "look")
  /\ UNCHANGED <<file, age, waited, kept, gaveUp, deaths>>

\* The holder removed the file before it could be looked at.
Gone(p) ==
  /\ pc[p] = "look"
  /\ file = NoFile
  /\ Goto(p, "try")
  /\ UNCHANGED <<file, age, waited, kept, gaveUp, deaths>>

\* Deviation: off by one, a file that has reached the age is broken.
AtAge == age >= Stale

\* Deviation: no lock is ever broken.
NeverOld == age > AgeCap

TooOld == age > Stale

SeenOld(p) ==
  /\ pc[p] = "look"
  /\ file # NoFile /\ TooOld
  /\ Goto(p, "break")
  /\ UNCHANGED <<file, age, waited, kept, gaveUp, deaths>>

LookAgain(p) ==
  /\ pc[p] = "look"
  /\ file # NoFile /\ ~TooOld
  /\ waited[p] <= Wait
  /\ Goto(p, "try")
  /\ UNCHANGED <<file, age, waited, kept, gaveUp, deaths>>

\* Deviation: the deadline does not end the loop.
DeadlineMissed(p) ==
  /\ pc[p] = "look"
  /\ file # NoFile /\ ~TooOld
  /\ waited[p] > Wait
  /\ Goto(p, "try")
  /\ UNCHANGED <<file, age, waited, kept, gaveUp, deaths>>

Deadline(p) ==
  /\ pc[p] = "look"
  /\ file # NoFile /\ ~TooOld
  /\ waited[p] > Wait
  /\ waited' = [waited EXCEPT ![p] = 0]
  /\ IF GoesAhead THEN Goto(p, "ahead") /\ UNCHANGED gaveUp
                  ELSE Goto(p, "out") /\ gaveUp' = age
  /\ UNCHANGED <<file, age, kept, deaths>>

\* unlink removes whatever file is there now.
Unlink == file' = IF Removable THEN NoFile ELSE file

Break(p) ==
  /\ pc[p] = "break"
  /\ Unlink
  /\ Goto(p, "try")
  /\ UNCHANGED <<age, waited, kept, gaveUp, deaths>>

Leave(p) ==
  /\ pc[p] = "in"
  /\ Unlink
  /\ kept' = [kept EXCEPT ![p] = 0]
  /\ Goto(p, "out")
  /\ UNCHANGED <<age, waited, gaveUp, deaths>>

LeaveBare(p) ==
  /\ pc[p] = "ahead"
  /\ kept' = [kept EXCEPT ![p] = 0]
  /\ Goto(p, "out")
  /\ UNCHANGED <<file, age, waited, gaveUp, deaths>>

Die(p) ==
  /\ pc[p] # "out"
  /\ deaths < MaxDeaths
  /\ deaths' = deaths + 1
  /\ Goto(p, "out")
  /\ waited' = [waited EXCEPT ![p] = 0]
  /\ kept' = [kept EXCEPT ![p] = 0]
  /\ UNCHANGED <<file, age, gaveUp>>

Inside(p) == pc[p] \in {"in", "ahead"}
Waiting(p) == pc[p] \in {"try", "look", "break"}

Upto(n, cap) == IF n < cap THEN n + 1 ELSE cap

\* Deviation: what is done under the lock has no time limit.
Overstay ==
  /\ age' = IF file = NoFile THEN age ELSE Upto(age, AgeCap)
  /\ waited' = [p \in Procs |-> IF Waiting(p) THEN Upto(waited[p], Wait + 1) ELSE waited[p]]
  /\ kept' = [p \in Procs |-> IF Inside(p) THEN kept[p] + 1 ELSE kept[p]]
  /\ UNCHANGED <<file, pc, gaveUp, deaths>>

\* Time passes, for everyone; nobody stays inside longer than MaxHold.
Tick ==
  /\ \A p \in Procs : Inside(p) => kept[p] < MaxHold
  /\ age' = IF file = NoFile THEN age ELSE Upto(age, AgeCap)
  /\ waited' = [p \in Procs |-> IF Waiting(p) THEN Upto(waited[p], Wait + 1) ELSE waited[p]]
  /\ kept' = [p \in Procs |-> IF Inside(p) THEN kept[p] + 1 ELSE kept[p]]
  /\ UNCHANGED <<file, pc, gaveUp, deaths>>

Step(p) ==
  \/ Create(p) \/ Exists(p)
  \/ Gone(p) \/ SeenOld(p) \/ LookAgain(p) \/ Deadline(p)
  \/ Break(p) \/ Leave(p) \/ LeaveBare(p)

Next ==
  \/ \E p \in Procs : Ask(p) \/ Step(p) \/ Die(p)
  \/ Tick

Spec == Init /\ [][Next]_vars

\* A process that is running goes on, and time goes on.  A look that comes
\* back with no file skips the deadline; it is assumed that the other processes
\* do not hit that moment every time.
FairSpec ==
  /\ Spec
  /\ WF_vars(Tick)
  /\ \A p \in Procs : WF_vars(Step(p)) /\ SF_vars(Deadline(p))

\* And the scheduled jobs come back for the lock day after day.
EagerSpec == FairSpec /\ \A p \in Procs : WF_vars(Ask(p))

----------------------------------------------------------------------------
(* Properties. *)

\* "One writer at a time": two processes never hold the lock together ...
OneWriter == \A p, q \in Procs : pc[p] = "in" /\ pc[q] = "in" => p = q

\* ... as long as no holder has died and left its file to be broken.
Exclusive == deaths = 0 => OneWriter

\* Nor is a holder's file taken from under it before the first death.
Undisturbed ==
  [][\A p \in Procs :
       deaths = 0 /\ file = p /\ pc[p] = "in" /\ pc'[p] = "in" => file' = p]_vars

\* Whoever asks for the lock gets it, goes ahead or gives up: nobody waits for
\* ever, also after a crash.
WaitEnds == \A p \in Procs : pc[p] = "try" ~> ~Waiting(p)

\* A file that a dead process left is broken in the end.
Orphan == file # NoFile /\ pc[file] # "in"
OrphanGoes == Orphan ~> ~Orphan

\* A process gives up only after the same run has held the lock longer than the
\* limit ("another digest run has held ... for over ... minutes").
GaveUpIsSo == gaveUp > Stale
=============================================================================
