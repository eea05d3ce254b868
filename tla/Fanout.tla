-------------------------------- MODULE Fanout --------------------------------
(***************************************************************************)
(* run of app/fanout.py: one function over many items, a few threads at a  *)
(* time, losing none.  A thread takes the next index under the lock, calls *)
(* the function, tries a throttled call again, and writes the outcome of   *)
(* its index; the first to meet the usage cap says so, and no index is     *)
(* given out any more.  When every thread has stopped, the caller reads    *)
(* the outcomes into three lists; an index without one is deferred.        *)
(***************************************************************************)
EXTENDS Integers

CONSTANTS
  N,         \* how many items
  Workers,   \* the threads: min(width, N) of them
  Attempts   \* attempts per item, 1 in the control arm

VARIABLES
  cursor,    \* items given out: 1..cursor
  cap,       \* the event
  told,      \* how often on_cap was called
  outcomes,  \* item -> "none", "filed", "failed" or "deferred"
  at,        \* worker -> where it is in _worker and _one
  item,      \* worker -> the index it holds
  attempt    \* worker -> its attempt

vars == <<cursor, cap, told, outcomes, at, item, attempt>>
-----------------------------------------------------------------------------
FanoutAssumption == N \in Nat /\ Attempts \in Nat \ {0} /\ Workers # {}

Calls == {"calling", "telling", "deferring"}
Holds(w) == at[w] \in Calls
Items == 1..N

TypeOK ==
  /\ cursor \in 0..N /\ cap \in {"clear", "set"} /\ told \in Nat
  /\ outcomes \in [Items -> {"none", "filed", "failed", "deferred"}]
  /\ at \in [Workers -> {"ready", "calling", "telling", "deferring", "stopped"}]
  /\ item \in [Workers -> 0..N] /\ attempt \in [Workers -> Nat]

Init ==
  /\ cursor = 0 /\ cap = "clear" /\ told = 0
  /\ outcomes = [i \in Items |-> "none"]
  /\ at = [w \in Workers |-> "ready"]
  /\ item = [w \in Workers |-> 0] /\ attempt = [w \in Workers |-> 0]

(* _next_index, under the lock.                                             *)
Take(w) ==
  /\ at[w] = "ready" /\ cap = "clear" /\ cursor < N
  /\ cursor' = cursor + 1
  /\ item' = [item EXCEPT ![w] = cursor + 1]
  /\ attempt' = [attempt EXCEPT ![w] = 1]
  /\ at' = [at EXCEPT ![w] = "calling"]
  /\ UNCHANGED <<cap, told, outcomes>>
Stop(w) ==
  /\ at[w] = "ready" /\ (cap = "set" \/ cursor = N)
  /\ at' = [at EXCEPT ![w] = "stopped"]
  /\ UNCHANGED <<cursor, cap, told, outcomes, item, attempt>>

Outcome(w, kind) ==
  /\ outcomes' = [outcomes EXCEPT ![item[w]] = kind]
  /\ at' = [at EXCEPT ![w] = "ready"]
  /\ UNCHANGED <<cursor, cap, told, item, attempt>>
FailsAway(w) ==                                                        \* mutant
  /\ at[w] = "calling"
  /\ at' = [at EXCEPT ![w] = "stopped"]
  /\ UNCHANGED <<cursor, cap, told, outcomes, item, attempt>>
Files(w) == at[w] = "calling" /\ Outcome(w, "filed")
Fails(w) == at[w] = "calling" /\ Outcome(w, "failed")
Retries(w) ==
  /\ at[w] = "calling" /\ attempt[w] < Attempts
  /\ attempt' = [attempt EXCEPT ![w] = @ + 1]
  /\ UNCHANGED <<cursor, cap, told, outcomes, at, item>>

(* The cap: whether it is the first, and the event, in one hold of the lock.*)
MeetsCap(w) ==
  /\ at[w] = "calling"
  /\ cap' = "set"
  /\ at' = [at EXCEPT ![w] = IF cap = "set" THEN "deferring" ELSE "telling"]
  /\ UNCHANGED <<cursor, told, outcomes, item, attempt>>
Tells(w) ==
  /\ at[w] = "telling"
  /\ told' = told + 1
  /\ at' = [at EXCEPT ![w] = "deferring"]
  /\ UNCHANGED <<cursor, cap, outcomes, item, attempt>>
Defers(w) == at[w] = "deferring" /\ Outcome(w, "deferred")

Works(w) == \/ Take(w) \/ Stop(w) \/ Files(w) \/ Fails(w) \/ Retries(w)
            \/ MeetsCap(w) \/ Tells(w) \/ Defers(w)
Next == \E w \in Workers : Works(w)
Spec == Init /\ [][Next]_vars

Over == \A w \in Workers : at[w] = "stopped"
-----------------------------------------------------------------------------
(* An item is with one worker at most, and an outcome is written once: what *)
(* makes "exactly one of filed, failed or deferred" so.                     *)
OneOwner ==
  \A v, w \in Workers : /\ v # w /\ Holds(v) /\ Holds(w) => item[v] # item[w]
                        /\ Holds(w) => outcomes[item[w]] = "none"
OneOutcome == [][\A i \in Items : outcomes[i] # "none" => outcomes'[i] = outcomes[i]]_vars

(* When every worker has stopped, an item without an outcome was never      *)
(* given out, and that only happens after a cap: the lists that call it     *)
(* deferred for the usage cap are right.                                    *)
DeferredForCap ==
  Over => \A i \in Items : outcomes[i] \in {"none", "deferred"} => cap = "set"

(* on_cap is called once.                                                   *)
ToldOfCapOnce == told <= 1
=============================================================================
