---------------------------- MODULE JobLifecycle ----------------------------
(***************************************************************************)
(* What the job queue promises, without clocks, workers or statements: a   *)
(* job is sent, leased, and either given back, finished or buried; only a  *)
(* leased job has an outcome, one lease yields at most one, and a job is   *)
(* buried exactly when its failures reach MaxFailures.                     *)
(*                                                                         *)
(* A lease that is never answered may be taken over, which costs the job   *)
(* nothing: attempts that end in a crash are not failures.                 *)
(***************************************************************************)
EXTENDS Integers

CONSTANTS Jobs, MaxFailures

VARIABLES
  state,    \* where each job stands
  failures  \* failures reported of each job

jobVars == <<state, failures>>

States == {"unsent", "waiting", "leased", "completed", "cancelled", "buried", "deleted"}

Move(j, from, to) == state[j] \in from /\ state' = [state EXCEPT ![j] = to]

Enqueue(j) == Move(j, {"unsent"}, "waiting") /\ UNCHANGED failures

(* Several jobs may be leased at once, also ones whose lease has run out. *)
Lease(S) ==
  /\ \A j \in S : state[j] \in {"waiting", "leased"}
  /\ state' = [j \in Jobs |-> IF j \in S THEN "leased" ELSE state[j]]
  /\ UNCHANGED failures

Finish(j) == Move(j, {"leased"}, "completed") /\ UNCHANGED failures

Retry(j) ==
  /\ Move(j, {"leased"}, "waiting")
  /\ failures[j] + 1 < MaxFailures
  /\ failures' = [failures EXCEPT ![j] = @ + 1]

Bury(j) ==
  /\ Move(j, {"leased"}, "buried")
  /\ failures[j] + 1 >= MaxFailures
  /\ UNCHANGED failures

Postpone(j) == Move(j, {"leased"}, "waiting") /\ UNCHANGED failures

(* Also a buried job may be cancelled. *)
Withdraw(j) == Move(j, {"waiting", "buried"}, "cancelled") /\ UNCHANGED failures

Expire(j) == Move(j, {"completed", "cancelled", "buried"}, "deleted") /\ UNCHANGED failures

LifecycleInit ==
  /\ state = [j \in Jobs |-> "unsent"]
  /\ failures = [j \in Jobs |-> 0]

LifecycleNext ==
  \/ \E j \in Jobs : \/ Enqueue(j) \/ Finish(j) \/ Retry(j) \/ Bury(j)
                     \/ Postpone(j) \/ Withdraw(j) \/ Expire(j)
  \/ \E S \in SUBSET Jobs : Lease(S)

Lifecycle == LifecycleInit /\ [][LifecycleNext]_jobVars
=============================================================================
