----------------------------- MODULE MCLockAndRuns -----------------------------
(***************************************************************************)
(* Small instances for TLC of LockAndRuns.                                 *)
(***************************************************************************)
EXTENDS LockAndRuns, TLC

CONSTANTS p1, p2, p3

(* The filing of meetings, Morning Coffee by the scheduler and by hand.     *)
JobOfRun == ("feed" :> "ingest") @@ ("coffee" :> "morning") @@ ("terminal" :> "morning")
Dependencies == [p \in {"coffee", "terminal"} |-> {"ingest"}]
=============================================================================
