---------------------------- MODULE QueueTokens -----------------------------
(***************************************************************************)
(* Work distribution: the polling half of QueueManager and                 *)
(* TokenPoolRepository (apps/backend/src/lib/queue), for one tier.         *)
(*                                                                         *)
(* A token is permission to work on one (queue, workspace) pair.  Each     *)
(* manager leases tokens for pairs that have claimable messages, up to its *)
(* budget, from two places: a polling cycle and a debounced refill after a *)
(* token is released.  What happens under a token is JobQueue; here it is  *)
(* a claim that takes some of the pair's messages, and handlers that may   *)
(* hang for ever.                                                          *)
(*                                                                         *)
(* The lease is one INSERT ... SELECT: it decides on the snapshot it       *)
(* starts with, and its rows appear when it ends, so two managers can      *)
(* decide on the same snapshot.                                            *)
(***************************************************************************)
EXTENDS Integers, FiniteSets

CONSTANTS
  Managers,     \* queue managers, one per server process
  Pairs,        \* (queue, workspace) pairs of the tier
  Tokens,       \* bound: ids for queue_tokens rows
  None,         \* SQL NULL
  Fair,         \* fairness mode "workspace" (else "none")
  Budget,       \* the tier's budget
  LockDuration, \* lockDurationMs
  ClaimBatch,   \* claimBatchSize
  Skew,         \* how far a process clock may be from the model's clock
  MaxPending,   \* bound: claimable messages per pair
  MaxClock      \* bound: the last instant of the clock

ASSUME TokensAssumption ==
  /\ IsFiniteSet(Tokens) /\ Tokens \subseteq Nat
  /\ None \notin Pairs /\ None \notin Int
ASSUME BudgetAssumption ==
  Budget \in Nat /\ ClaimBatch \in Nat \ {0} /\ MaxPending \in Nat /\ Fair \in BOOLEAN
ASSUME TimesAssumption == LockDuration \in Nat /\ Skew \in Nat /\ MaxClock \in Nat

VARIABLES
  clock,
  pending,   \* claimable messages of each pair
  pair,      \* queue_tokens: the pair of each token
  until,     \* queue_tokens: leased_until; None where there is no row
  grant,     \* tokens that a manager's lease statement in flight inserts
  fill,      \* fillInProgress
  active,    \* activeTokens
  work,      \* where processToken stands with each active token
  exhausted, \* cycleExhausted
  timer,     \* the refill timer is set
  cycle,     \* where runCycle stands
  stop,      \* where stop() stands
  awaited,   \* the tokens stop() waits for
  lapsed,    \* history: a lease statement has met an expired lease of an active token
  raced      \* history: lease statements of two managers were in flight at a time

leaseVars == <<pair, until, grant>>
cycleVars == <<fill, exhausted, timer, cycle>>
stopVars == <<stop, awaited>>
historyVars == <<lapsed, raced>>
vars == <<clock, pending, leaseVars, cycleVars, stopVars, active, work, historyVars>>

(* What a process clock may show at this instant. *)
AppClock == (clock - Skew)..(clock + Skew)

InFlight == UNION {grant[m] : m \in Managers}
InUse == UNION {active[m] : m \in Managers}

(* Ids for new rows.  A row whose lease is over and whose manager is gone  *)
(* matters to no statement, so its id serves again.                        *)
FreeTokens ==
  {t \in Tokens \ (InFlight \cup InUse) : until[t] # None => until[t] <= clock - Skew}

(* The rows a statement sees that have leased_until > time. *)
Leased(p, time) ==
  \E t \in Tokens \ InFlight : until[t] # None /\ pair[t] = p /\ until[t] > time

(***************************************************************************)
(* batchLeaseTokens                                                        *)
(***************************************************************************)

(* Mutant: pairs that have a token are not excluded. *)
SlotsOfAny(p, time) ==
  IF Fair THEN (IF pending[p] > 0 THEN 1 ELSE 0) ELSE pending[p]

(* How many tokens a pair may get: one if it has none ("workspace"), or    *)
(* one per claimable message ("none").                                     *)
Slots(p, time) ==
  IF Fair THEN (IF pending[p] > 0 /\ ~Leased(p, time) THEN 1 ELSE 0) ELSE pending[p]

Count(f, p) == Cardinality({t \in DOMAIN f : f[t] = p})

(* The rows the statement selects: as many as the limit allows, slot by    *)
(* slot across the pairs.  The order of pairs within a slot is by age.     *)
(* The new rows get the smallest free ids; no statement depends on them.   *)
Selected(f, time, limit) ==
  /\ Cardinality(DOMAIN f) <= limit
  /\ \A t \in DOMAIN f, u \in FreeTokens \ DOMAIN f : t < u
  /\ \A p \in Pairs : Count(f, p) <= Slots(p, time)
  /\ \A p, q \in Pairs : Count(f, q) < Slots(q, time) => Count(f, p) <= Count(f, q) + 1
  /\ (\E p \in Pairs : Count(f, p) < Slots(p, time)) =>
       Cardinality(DOMAIN f) = limit \/ DOMAIN f = FreeTokens

(* The early returns of fillSlots, but for cycleExhausted. *)
HasRoom(m) == stop[m] = "no" /\ ~fill[m] /\ Cardinality(active[m]) < Budget

(* Mutant: the statement may lease the whole budget, active tokens or not. *)
FillSlotsOfAll(m) ==
  /\ \E T \in SUBSET FreeTokens : \E f \in [T -> Pairs], time \in AppClock :
       /\ Selected(f, time, Budget)
       /\ grant' = [grant EXCEPT ![m] = @ \cup T]
       /\ pair' = [t \in Tokens |-> IF t \in T THEN f[t] ELSE pair[t]]
       /\ until' = [t \in Tokens |-> IF t \in T THEN time + LockDuration ELSE until[t]]
       /\ lapsed' = (lapsed \/ \E t \in InUse : until[t] # None /\ until[t] <= time)
  /\ raced' = (raced \/ \E n \in Managers \ {m} : fill[n])
  /\ fill' = [fill EXCEPT ![m] = TRUE]

(* fillSlots up to its await: slots are counted, the statement runs. *)
FillSlots(m) ==
  /\ \E T \in SUBSET FreeTokens : \E f \in [T -> Pairs], time \in AppClock :
       /\ Selected(f, time, Budget - Cardinality(active[m]))
       /\ grant' = [grant EXCEPT ![m] = @ \cup T]
       /\ pair' = [t \in Tokens |-> IF t \in T THEN f[t] ELSE pair[t]]
       /\ until' = [t \in Tokens |-> IF t \in T THEN time + LockDuration ELSE until[t]]
       /\ lapsed' = (lapsed \/ \E t \in InUse : until[t] # None /\ until[t] <= time)
  /\ raced' = (raced \/ \E n \in Managers \ {m} : fill[n])
  /\ fill' = [fill EXCEPT ![m] = TRUE]

(* fillSlots goes on with the answer; the cycle that called it goes on too.*)
Answered(m) ==
  /\ fill[m]
  /\ fill' = [fill EXCEPT ![m] = FALSE]
  /\ grant' = [grant EXCEPT ![m] = {}]
  /\ cycle' = [cycle EXCEPT ![m] = IF @ = "filling" THEN "cron" ELSE @]

TokensLeased(m) ==
  /\ Answered(m)
  /\ active' = [active EXCEPT ![m] = @ \cup grant[m]]
  /\ work' = [t \in Tokens |-> IF t \in grant[m] THEN "claim" ELSE work[t]]
  /\ exhausted' = [exhausted EXCEPT ![m] = @ \/ grant[m] = {}]
  /\ UNCHANGED <<clock, pending, pair, until, timer, stopVars, historyVars>>

(* The statement fails, or succeeds and its answer is lost.  In a refill   *)
(* that ends the cycle's leasing.                                          *)
LeaseFailed(m) ==
  /\ Answered(m)
  /\ \/ UNCHANGED until
     \/ until' = [t \in Tokens |-> IF t \in grant[m] THEN None ELSE until[t]]
  /\ exhausted' = [exhausted EXCEPT ![m] = @ \/ cycle[m] # "filling"]
  /\ UNCHANGED <<clock, pending, pair, timer, stopVars, active, work, historyVars>>

(***************************************************************************)
(* The polling cycle and the refill timer                                  *)
(***************************************************************************)

(* runCycle *)
Poll(m) ==
  /\ cycle[m] = "sleep" /\ stop[m] = "no"
  /\ exhausted' = [exhausted EXCEPT ![m] = FALSE]
  /\ \/ /\ HasRoom(m)
        /\ FillSlots(m)
        /\ cycle' = [cycle EXCEPT ![m] = "filling"]
     \/ /\ ~HasRoom(m)
        /\ cycle' = [cycle EXCEPT ![m] = "cron"]
        /\ UNCHANGED <<leaseVars, fill, historyVars>>
  /\ UNCHANGED <<clock, pending, timer, stopVars, active, work>>

(* Mutant: runCycle waits for the active tokens before it ends. *)
EndCycleDrained(m) ==
  /\ cycle[m] = "cron"
  /\ active[m] = {}
  /\ cycle' = [cycle EXCEPT ![m] = IF stop[m] = "no" THEN "sleep" ELSE "off"]
  /\ UNCHANGED <<clock, pending, leaseVars, fill, exhausted, timer, stopVars, active, work,
                 historyVars>>

(* processCronTicks, which may fail, and scheduleNextCycle. *)
EndCycle(m) ==
  /\ cycle[m] = "cron"
  /\ cycle' = [cycle EXCEPT ![m] = IF stop[m] = "no" THEN "sleep" ELSE "off"]
  /\ UNCHANGED <<clock, pending, leaseVars, fill, exhausted, timer, stopVars, active, work,
                 historyVars>>

(* The refill timer fires. *)
Refill(m) ==
  /\ timer[m]
  /\ timer' = [timer EXCEPT ![m] = FALSE]
  /\ \/ HasRoom(m) /\ ~exhausted[m] /\ FillSlots(m)
     \/ ~(HasRoom(m) /\ ~exhausted[m]) /\ UNCHANGED <<leaseVars, fill, historyVars>>
  /\ UNCHANGED <<clock, pending, exhausted, cycle, stopVars, active, work>>

(***************************************************************************)
(* processToken                                                            *)
(***************************************************************************)

SetWork(t, w) == work' = [work EXCEPT ![t] = w]

(* batchClaimMessages; with nothing left to claim the token is released. *)
ClaimMessages(m, t) ==
  /\ t \in active[m] /\ work[t] = "claim"
  /\ \/ /\ pending[pair[t]] = 0
        /\ SetWork(t, "release")
        /\ UNCHANGED pending
     \/ \E n \in 1..ClaimBatch :
          /\ n <= pending[pair[t]]
          /\ pending' = [pending EXCEPT ![pair[t]] = @ - n]
          /\ SetWork(t, "handle")
  /\ UNCHANGED <<clock, leaseVars, cycleVars, stopVars, active, historyVars>>

HandlersReturn(m, t) ==
  /\ t \in active[m] /\ work[t] = "handle"
  /\ SetWork(t, "release")
  /\ UNCHANGED <<clock, pending, leaseVars, cycleVars, stopVars, active, historyVars>>

(* renewLease, from a timer; an expired lease is renewed like any other. *)
RenewLease(m, t) ==
  /\ t \in active[m] /\ work[t] # "release"
  /\ until[t] # None
  /\ \E time \in AppClock : until' = [until EXCEPT ![t] = time + LockDuration]
  /\ UNCHANGED <<clock, pending, pair, grant, cycleVars, stopVars, active, work, historyVars>>

(* releaseToken and debouncedFillSlots.  A failure here is an unhandled    *)
(* rejection, which ends the process: Crash.                               *)
ReleaseToken(m, t) ==
  /\ t \in active[m] /\ work[t] = "release"
  /\ until' = [until EXCEPT ![t] = None]
  /\ pair' = [pair EXCEPT ![t] = None]
  /\ active' = [active EXCEPT ![m] = @ \ {t}]
  /\ SetWork(t, "none")
  /\ timer' = [timer EXCEPT ![m] = @ \/ (stop[m] = "no" /\ ~exhausted[m])]
  /\ UNCHANGED <<clock, pending, grant, fill, exhausted, cycle, stopVars, historyVars>>

(***************************************************************************)
(* stop(), crashes, the environment                                        *)
(***************************************************************************)

Stop(m) ==
  /\ stop[m] = "no"
  /\ stop' = [stop EXCEPT ![m] = "waiting"]
  /\ awaited' = [awaited EXCEPT ![m] = active[m]]
  /\ timer' = [timer EXCEPT ![m] = FALSE]
  /\ cycle' = [cycle EXCEPT ![m] = IF @ = "sleep" THEN "off" ELSE @]
  /\ UNCHANGED <<clock, pending, leaseVars, fill, exhausted, active, work, historyVars>>

StopReturns(m) ==
  /\ stop[m] = "waiting"
  /\ awaited[m] \cap active[m] = {}
  /\ stop' = [stop EXCEPT ![m] = "returned"]
  /\ awaited' = [awaited EXCEPT ![m] = {}]
  /\ UNCHANGED <<clock, pending, leaseVars, cycleVars, active, work, historyVars>>

StopTimesOut(m) ==
  /\ stop[m] = "waiting"
  /\ stop' = [stop EXCEPT ![m] = "returned"]
  /\ UNCHANGED <<clock, pending, leaseVars, cycleVars, awaited, active, work, historyVars>>

(* The process ends, at any point, and another takes its place.  Nobody    *)
(* deletes its rows; a statement in flight may still take effect.          *)
Crash(m) ==
  /\ \/ UNCHANGED until
     \/ /\ grant[m] # {}
        /\ until' = [t \in Tokens |-> IF t \in grant[m] THEN None ELSE until[t]]
  /\ grant' = [grant EXCEPT ![m] = {}]
  /\ fill' = [fill EXCEPT ![m] = FALSE]
  /\ work' = [t \in Tokens |-> IF t \in active[m] THEN "none" ELSE work[t]]
  /\ active' = [active EXCEPT ![m] = {}]
  /\ exhausted' = [exhausted EXCEPT ![m] = FALSE]
  /\ timer' = [timer EXCEPT ![m] = FALSE]
  /\ cycle' = [cycle EXCEPT ![m] = "sleep"]
  /\ stop' = [stop EXCEPT ![m] = "no"]
  /\ awaited' = [awaited EXCEPT ![m] = {}]
  /\ UNCHANGED <<clock, pending, pair, historyVars>>

(* A message is sent, becomes due, or is given back. *)
Arrive(p) ==
  /\ pending[p] < MaxPending
  /\ pending' = [pending EXCEPT ![p] = @ + 1]
  /\ UNCHANGED <<clock, leaseVars, cycleVars, stopVars, active, work, historyVars>>

Tick ==
  /\ clock < MaxClock
  /\ clock' = clock + 1
  /\ UNCHANGED <<pending, leaseVars, cycleVars, stopVars, active, work, historyVars>>

Init ==
  /\ clock = 0
  /\ pending = [p \in Pairs |-> 0]
  /\ pair = [t \in Tokens |-> None]
  /\ until = [t \in Tokens |-> None]
  /\ grant = [m \in Managers |-> {}]
  /\ fill = [m \in Managers |-> FALSE]
  /\ active = [m \in Managers |-> {}]
  /\ work = [t \in Tokens |-> "none"]
  /\ exhausted = [m \in Managers |-> FALSE]
  /\ timer = [m \in Managers |-> FALSE]
  /\ cycle = [m \in Managers |-> "sleep"]
  /\ stop = [m \in Managers |-> "no"]
  /\ awaited = [m \in Managers |-> {}]
  /\ lapsed = FALSE /\ raced = FALSE

Next ==
  \/ \E m \in Managers :
       \/ Poll(m) \/ Refill(m) \/ TokensLeased(m) \/ LeaseFailed(m) \/ EndCycle(m)
       \/ Stop(m) \/ StopReturns(m) \/ StopTimesOut(m) \/ Crash(m)
  \/ \E m \in Managers, t \in Tokens :
       \/ ClaimMessages(m, t) \/ HandlersReturn(m, t) \/ RenewLease(m, t)
       \/ ReleaseToken(m, t)
  \/ \E p \in Pairs : Arrive(p)
  \/ Tick

Spec == Init /\ [][Next]_vars

(* Timers fire, statements are answered and time passes; handlers need not *)
(* ever return.  Crashes and stops end at some point.                      *)
FairSpec ==
  /\ Spec
  /\ \A m \in Managers :
       /\ WF_vars(Poll(m)) /\ WF_vars(Refill(m)) /\ WF_vars(EndCycle(m))
       /\ WF_vars(TokensLeased(m) \/ LeaseFailed(m))
       /\ \A t \in Tokens : WF_vars(ClaimMessages(m, t)) /\ WF_vars(ReleaseToken(m, t))
  /\ WF_vars(Tick)
  /\ <>[][\A m \in Managers : ~Crash(m) /\ ~Stop(m) /\ ~LeaseFailed(m)]_vars

(***************************************************************************)
(* What the token pool promises                                            *)
(***************************************************************************)

(* Type correctness. *)
TypeOK ==
  /\ clock \in 0..MaxClock
  /\ pending \in [Pairs -> 0..MaxPending]
  /\ pair \in [Tokens -> Pairs \cup {None}]
  /\ until \in [Tokens -> Int \cup {None}]
  /\ grant \in [Managers -> SUBSET Tokens]
  /\ fill \in [Managers -> BOOLEAN]
  /\ active \in [Managers -> SUBSET Tokens]
  /\ work \in [Tokens -> {"none", "claim", "handle", "release"}]
  /\ exhausted \in [Managers -> BOOLEAN]
  /\ timer \in [Managers -> BOOLEAN]
  /\ cycle \in [Managers -> {"sleep", "filling", "cron", "off"}]
  /\ stop \in [Managers -> {"no", "waiting", "returned"}]
  /\ awaited \in [Managers -> SUBSET Tokens]
  /\ lapsed \in BOOLEAN /\ raced \in BOOLEAN

(* A tier never works on more tokens than its budget, although the polling *)
(* cycle and the refill timer both lease, and count the free slots before  *)
(* an await that other tokens are released and leased during.              *)
BudgetRespected == \A m \in Managers : Cardinality(active[m]) <= Budget

(* In fairness mode "workspace" a manager works on a pair under one token  *)
(* at a time, as long as the leases of active tokens are renewed in time.  *)
PairTakenOnce ==
  Fair /\ ~lapsed =>
    \A m \in Managers : \A t, u \in active[m] : pair[t] = pair[u] => t = u

(* Across managers too a pair is worked on under one token at a time,      *)
(* through crashes that leave rows behind, lost answers, renewals and      *)
(* releases, unless two lease statements overlapped: each decides on a     *)
(* snapshot, and no index keeps the second from granting the pair again.   *)
PairTakenApart ==
  Fair /\ ~lapsed /\ ~raced =>
    \A t, u \in InUse : pair[t] = pair[u] => t = u

(* What the comment in batchLeaseTokens says of mode "workspace": "at most *)
(* one active token per (queue_name, workspace_id) pair".                  *)
OneTokenPerPair ==
  Fair => \A t, u \in Tokens \ InFlight :
            /\ until[t] # None /\ until[t] > clock
            /\ until[u] # None /\ until[u] > clock
            /\ pair[t] = pair[u]
            => t = u

(* A lease that no manager works under lasts to the end of the bounded     *)
(* clock.                                                                  *)
OutOfTime ==
  \E t \in Tokens \ (InFlight \cup InUse) : until[t] # None /\ until[t] > MaxClock - Skew

(* A pair with claimable messages is eventually worked on while some       *)
(* manager has budget to spare, also when every handler of another pair    *)
(* hangs: runCycle "must not wait for active tokens to drain".             *)
EventuallyWorkedOn ==
  \A p \in Pairs :
    [](pending[p] > 0 => <>(\/ pending[p] = 0
                            \/ \E t \in InUse : pair[t] = p
                            \/ \A m \in Managers : stop[m] # "no" \/ Cardinality(active[m]) = Budget
                            \/ []OutOfTime))
=============================================================================
