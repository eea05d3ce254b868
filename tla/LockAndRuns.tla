------------------------------ MODULE LockAndRuns ------------------------------
(***************************************************************************)
(* The lock file (FileLock) and the runs of the mailed briefings that take *)
(* it (DigestRun).  A behaviour is about one of them, which the initial    *)
(* state picks and no step changes; the other stands still.                *)
(***************************************************************************)
EXTENDS FileLock, Integers

CONSTANTS
  Feeds, Scheduled, ByHand, JobOf, Needs, BriefDays, RUNS_CAP_ROWS, RENDER_ATTEMPTS, KickCap, MaxTrouble, None

VARIABLES
  part,                                            \* which of them
  day, rows, marker, lock, written, proc, fired, kicks, mails, forced, lost, faults   \* DigestRun

D == INSTANCE DigestRun

(* One slot: no other day of the cadence is still to come.  A briefing has  *)
(* one run by the scheduler, and nothing that it waits for is a briefing.   *)
OneSlot == BriefDays \subseteq Int /\ BriefDays \cap Nat = {0}
OneEach == \A c \in Scheduled, q \in Feeds \cup Scheduled : JobOf[q] = JobOf[c] => q = c
Apart == Scheduled \cap ByHand = {} /\ Feeds \cap D!Digests = {}
NoneIsNone == None \notin D!Runs \cup D!Jobs \cup Nat
DigestAssumption ==
  /\ OneSlot /\ OneEach /\ Apart /\ NoneIsNone
  /\ IsFiniteSet(ByHand) /\ RUNS_CAP_ROWS \in Nat /\ RENDER_ATTEMPTS \in Nat
ASSUME DigestConstants == DigestAssumption

digest == <<day, rows, marker, lock, written, proc, fired, kicks, mails, forced, lost, faults>>

LockInit == Init /\ D!Init /\ part \in {"lock", "digest"}
LockNext ==
  /\ UNCHANGED part
  /\ \/ part = "lock" /\ Next /\ UNCHANGED digest
     \/ part = "digest" /\ D!Next /\ UNCHANGED vars
LockSpec ==
  /\ LockInit /\ [][LockNext]_<<part, vars, digest>>
  /\ WF_vars(part = "lock" /\ Tick)
  /\ \A p \in Procs :
       /\ WF_vars(part = "lock" /\ Step(p)) /\ SF_vars(part = "lock" /\ Deadline(p))
       /\ WF_vars(part = "lock" /\ Ask(p))
  /\ \A p \in D!Digests : WF_digest(part = "digest" /\ D!Works(p))
-----------------------------------------------------------------------------
(* What the runs promise; the statements are DigestRun's.                   *)
MailedForCause == D!MailedForCause
RunEnds == D!RunEnds
=============================================================================
