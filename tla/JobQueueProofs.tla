--------------------------- MODULE JobQueueProofs ---------------------------
(***************************************************************************)
(* Theorems about JobQueue for any set of messages and workers and every   *)
(* value of the tunables.                                                  *)
(***************************************************************************)
EXTENDS JobQueue, TLAPS

(***************************************************************************)
(* The inductive invariant.  RunnerOwnsClaim speaks of workers that were   *)
(* not displaced; to show that outcomes keep it one has to know of the     *)
(* other workers that they do not own the row they report on.              *)
(***************************************************************************)

(* The row of a worker's own claim is alive and as the claim found it. *)
OwnerIsCurrent ==
  \A w \in Workers, m \in Messages :
    Active(w, m) /\ claimedBy[m] = w =>
      m \notin stolen[w] /\ attempt[w][m] = failedCount[m]

(* A worker that does not own the row it works on was displaced, or has    *)
(* completed the message without learning of it.                           *)
OthersAreDisplaced ==
  \A w \in Workers, m \in Messages :
    Active(w, m) /\ claimedBy[m] # w =>
      m \in stolen[w] \/ (step[w][m] = "threw" /\ m \in completed)

(* Only live rows are claimed. *)
ClaimedIsLive ==
  \A m \in Messages : claimedBy[m] # None => m \in rows \ Terminal

(* Being displaced is about a message in hand. *)
StolenIsInHand ==
  \A w \in Workers, m \in Messages : step[w][m] = "none" => m \notin stolen[w]

ClaimInv ==
  TypeOK /\ OwnerIsCurrent /\ OthersAreDisplaced /\ ClaimedIsLive /\ StolenIsInHand

LEMMA ClaimInvInit == Init => ClaimInv
<1> SUFFICES ASSUME Init PROVE ClaimInv
  OBVIOUS
<1>1. TypeOK
  <2>1. 0 \in 0..MaxClock /\ 0 \in 0..(MaxRetries - 1) /\ 0 \in 0..(MaxRetries + 1)
    BY TimesAssumption, CountsAssumption
  <2>2. disturbed \in BOOLEAN
    BY DEF Init
  <2> QED BY <2>1, <2>2 DEF Init, TypeOK, Steps
<1> QED BY <1>1 DEF Init, ClaimInv, OwnerIsCurrent, OthersAreDisplaced, ClaimedIsLive,
               StolenIsInHand, Active, InHand

(* What the four parts say, for the conjuncts an action leaves alone. *)
LEMMA ClaimInvNext == ClaimInv /\ [Next]_vars => ClaimInv'
<1> SUFFICES ASSUME ClaimInv, [Next]_vars PROVE ClaimInv'
  OBVIOUS
<1> USE DEF rowVars, workVars, logVars
<1> USE DEF ClaimInv, OwnerIsCurrent, OthersAreDisplaced, ClaimedIsLive, StolenIsInHand
<1>1. ASSUME NEW m \in Messages, Send(m) PROVE ClaimInv'
  <2>1. TypeOK'
    BY <1>1, TimesAssumption DEF Send, TypeOK
  <2> QED BY <1>1, <2>1 DEF Send, Active, Terminal, TypeOK
<1>2. ASSUME NEW m \in Messages, Cancel(m) PROVE ClaimInv'
  <2>1. TypeOK'
    BY <1>2 DEF Cancel, TypeOK
  <2> QED BY <1>2, <2>1 DEF Cancel, Active, Terminal, TypeOK
<1>3. ASSUME NEW m \in Messages, Delete(m) PROVE ClaimInv'
  <2>1. TypeOK'
    BY <1>3 DEF Delete, TypeOK
  <2> QED BY <1>3, <2>1 DEF Delete, Active, Terminal, TypeOK
<1>4. CASE Tick
  <2>1. TypeOK'
    BY <1>4, TimesAssumption DEF Tick, TypeOK
  <2> QED BY <1>4, <2>1 DEF Tick, Active, Terminal
<1>5. CASE UNCHANGED vars
  <2>1. TypeOK'
    BY <1>5 DEF vars, TypeOK
  <2> QED BY <1>5, <2>1 DEF vars, Active, Terminal
<1>0. AppClock \subseteq Int
  BY TimesAssumption DEF AppClock, TypeOK
<1>6. ASSUME NEW w \in Workers, Claim(w) PROVE ClaimInv'
  <2>1. PICK time \in AppClock, batch \in SUBSET Messages :
          /\ \A m \in batch : Claimable(m, time)
          /\ claimedBy' = [m \in Messages |-> IF m \in batch THEN w ELSE claimedBy[m]]
          /\ claimedUntil' = [m \in Messages |-> IF m \in batch THEN time + LockDuration
                                                                ELSE claimedUntil[m]]
          /\ step' = [step EXCEPT ![w] = [m \in Messages |-> IF m \in batch THEN "claimed"
                                                                          ELSE "none"]]
          /\ attempt' = [attempt EXCEPT ![w] = [m \in Messages |->
                           IF m \in batch THEN failedCount[m] ELSE 0]]
          /\ stolen' = [v \in Workers |-> stolen[v] \cup
                          {m \in batch : v # w /\ claimedBy[m] = v /\ Active(v, m)}]
          /\ disturbed' = (disturbed \/ \E m \in batch : claimedBy[m] # None)
    BY <1>6 DEF Claim
  <2>2. time + LockDuration \in Int /\ 0 \in 0..(MaxRetries - 1)
    BY <1>0, TimesAssumption, CountsAssumption
  <2>3. disturbed' \in BOOLEAN
    BY <2>1
  <2>4. TypeOK'
    BY <1>6, <2>1, <2>2, <2>3 DEF Claim, TypeOK, Steps, InHand
  <2>5. OwnerIsCurrent'
    BY <1>6, <2>1, NullAssumption DEF Claim, TypeOK, Active, InHand, Idle
  <2>6. OthersAreDisplaced'
    BY <1>6, <2>1, NullAssumption DEF Claim, TypeOK, Active, InHand, Idle
  <2>7. ClaimedIsLive'
    BY <1>6, <2>1 DEF Claim, TypeOK, Claimable, Terminal
  <2>8. StolenIsInHand'
    BY <1>6, <2>1 DEF Claim, TypeOK, Active, InHand, Idle
  <2> QED BY <2>4, <2>5, <2>6, <2>7, <2>8
<1>7. ASSUME NEW w \in Workers, Renew(w) PROVE ClaimInv'
  <2>1. claimedUntil' \in [Messages -> Int \cup {None}]
    BY <1>7, <1>0, TimesAssumption DEF Renew, TypeOK, Later
  <2>2. TypeOK'
    BY <1>7, <2>1 DEF Renew, TypeOK
  <2> QED BY <1>7, <2>2 DEF Renew, Active, Terminal
<1>8. ASSUME NEW w \in Workers, FinishBatch(w) PROVE ClaimInv'
  <2>1. TypeOK'
    BY <1>8 DEF FinishBatch, TypeOK, Steps
  <2> QED BY <1>8, <2>1 DEF FinishBatch, Active, Terminal, TypeOK, InHand
<1>9. ASSUME NEW w \in Workers, Crash(w) PROVE ClaimInv'
  <2>1. TypeOK'
    BY <1>9 DEF Crash, TypeOK, Steps
  <2> QED BY <1>9, <2>1 DEF Crash, Active, Terminal, TypeOK, InHand
<1>10. ASSUME NEW w \in Workers, NEW m \in Messages, Start(w, m) PROVE ClaimInv'
  <2>1. TypeOK'
    BY <1>10 DEF Start, To, TypeOK, Steps, InHand
  <2> QED BY <1>10, <2>1 DEF Start, To, TypeOK, Active, Terminal, InHand
<1>11. ASSUME NEW w \in Workers, NEW m \in Messages, Succeed(w, m) PROVE ClaimInv'
  <2>1. TypeOK'
    BY <1>11 DEF Succeed, To, TypeOK, Steps, InHand
  <2> QED BY <1>11, <2>1 DEF Succeed, To, TypeOK, Active, Terminal, InHand
<1>12. ASSUME NEW w \in Workers, NEW m \in Messages, Deny(w, m) PROVE ClaimInv'
  <2>1. TypeOK'
    BY <1>12 DEF Deny, To, TypeOK, Steps, InHand
  <2> QED BY <1>12, <2>1 DEF Deny, To, TypeOK, Active, Terminal, InHand
<1>13. ASSUME NEW w \in Workers, NEW m \in Messages, Throw(w, m) PROVE ClaimInv'
  <2>1. throws' \in [Messages -> 0..(MaxRetries + 1)]
    BY <1>13, CountsAssumption DEF Throw, CountThrow, TypeOK
  <2>2. TypeOK'
    BY <1>13, <2>1 DEF Throw, To, TypeOK, Steps, InHand
  <2> QED BY <1>13, <2>2 DEF Throw, To, TypeOK, Active, Terminal, InHand
<1>14. ASSUME NEW w \in Workers, NEW m \in Messages, CompleteRefused(w, m) PROVE ClaimInv'
  <2>1. throws' \in [Messages -> 0..(MaxRetries + 1)]
    BY <1>14, CountsAssumption DEF CompleteRefused, CountThrow, TypeOK
  <2>2. TypeOK'
    BY <1>14, <2>1 DEF CompleteRefused, To, TypeOK, Steps, InHand
  <2> QED BY <1>14, <2>2 DEF CompleteRefused, Owns, To, TypeOK, Active, Terminal, InHand
<1>15. ASSUME NEW w \in Workers, NEW m \in Messages, Reject(w, m) PROVE ClaimInv'
  <2>1. CASE step[w][m] = "ran" /\ To(w, m, "threw") /\ CountThrow(m)
    <3>1. throws' \in [Messages -> 0..(MaxRetries + 1)]
      BY <2>1, CountsAssumption DEF CountThrow, TypeOK
    <3>2. TypeOK'
      BY <1>15, <2>1, <3>1 DEF Reject, To, TypeOK, Steps, InHand
    <3> QED BY <1>15, <2>1, <3>2 DEF Reject, To, TypeOK, Active, Terminal, InHand
  <2>2. CASE step[w][m] \in {"threw", "denied"} /\ To(w, m, "left") /\ UNCHANGED throws
    <3>1. TypeOK'
      BY <1>15, <2>2 DEF Reject, To, TypeOK, Steps, InHand
    <3> QED BY <1>15, <2>2, <3>1 DEF Reject, To, TypeOK, Active, Terminal, InHand
  <2> QED BY <1>15, <2>1, <2>2 DEF Reject
<1>16. ASSUME NEW w \in Workers, NEW m \in Messages, ReportRefused(w, m) PROVE ClaimInv'
  <2>1. TypeOK'
    BY <1>16 DEF ReportRefused, To, TypeOK, Steps
  <2> QED BY <1>16, <2>1 DEF ReportRefused, To, TypeOK, Active, Terminal, InHand
<1>17. ASSUME NEW w \in Workers, NEW m \in Messages, ExtendClaim(w, m) PROVE ClaimInv'
  <2>1. claimedUntil' \in [Messages -> Int \cup {None}]
    BY <1>17, <1>0, TimesAssumption DEF ExtendClaim, TypeOK, Later
  <2>2. TypeOK'
    BY <1>17, <2>1 DEF ExtendClaim, TypeOK
  <2> QED BY <1>17, <2>2 DEF ExtendClaim, Active, Terminal
<1>18. ASSUME NEW w \in Workers, NEW m \in Messages, Complete(w, m) PROVE ClaimInv'
  <2>1. TypeOK'
    BY <1>18 DEF Complete, Owns, Release, To, TypeOK, Steps
  <2> QED BY <1>18, <2>1, NullAssumption
          DEF Complete, Release, Owns, To, TypeOK, Active, Terminal, InHand
<1>19. ASSUME NEW w \in Workers, NEW m \in Messages, LoseAnswer(w, m) PROVE ClaimInv'
  <2>1. throws' \in [Messages -> 0..(MaxRetries + 1)]
    BY <1>19, CountsAssumption DEF LoseAnswer, CountThrow, TypeOK
  <2>2. TypeOK'
    BY <1>19, <2>1 DEF LoseAnswer, Owns, Release, To, TypeOK, Steps, InHand
  <2> QED BY <1>19, <2>2, NullAssumption
          DEF LoseAnswer, Release, Owns, To, TypeOK, Active, Terminal, InHand
<1>20. ASSUME NEW w \in Workers, NEW m \in Messages, Fail(w, m) PROVE ClaimInv'
  <2>1. attempt[w][m] = failedCount[m]
    BY <1>20 DEF Fail, Owns, Active, InHand
  <2>2. failedCount' \in [Messages -> 0..(MaxRetries - 1)]
    BY <1>20, <2>1, CountsAssumption DEF Fail, Exhausted, TypeOK
  <2>3. PICK time \in AppClock, delay \in Backoffs(attempt[w][m] + 1) : Release(m, time + delay)
    BY <1>20 DEF Fail
  <2>4. time + delay \in Int
    BY <2>3, <1>0 DEF Backoffs
  <2>5. TypeOK'
    BY <1>20, <2>2, <2>3, <2>4 DEF Fail, Release, To, TypeOK, Steps
  <2> QED BY <1>20, <2>3, <2>5, NullAssumption
          DEF Fail, Release, Owns, To, TypeOK, Active, Terminal, InHand
<1>21. ASSUME NEW w \in Workers, NEW m \in Messages, FailDlq(w, m) PROVE ClaimInv'
  <2>1. TypeOK'
    BY <1>21 DEF FailDlq, Owns, Release, To, TypeOK, Steps
  <2> QED BY <1>21, <2>1, NullAssumption
          DEF FailDlq, Release, Owns, To, TypeOK, Active, Terminal, InHand
<1>22. ASSUME NEW w \in Workers, NEW m \in Messages, Defer(w, m) PROVE ClaimInv'
  <2>1. PICK time \in AppClock : Release(m, time + DeferDelay)
    BY <1>22 DEF Defer
  <2>2. time + DeferDelay \in Int
    BY <1>0, TimesAssumption
  <2>3. TypeOK'
    BY <1>22, <2>1, <2>2 DEF Defer, Release, To, TypeOK, Steps
  <2> QED BY <1>22, <2>1, <2>3, NullAssumption
          DEF Defer, Release, Owns, To, TypeOK, Active, Terminal, InHand
<1> QED BY <1>1, <1>2, <1>3, <1>4, <1>5, <1>6, <1>7, <1>8, <1>9, <1>10, <1>11,
           <1>12, <1>13, <1>14, <1>15, <1>16, <1>17, <1>18, <1>19, <1>20, <1>21, <1>22 DEF Next, Process

LEMMA ClaimInvHolds == Spec => []ClaimInv
BY ClaimInvInit, ClaimInvNext, PTL DEF Spec

(* Every variable keeps its type, and failed_count stays below maxRetries, *)
(* whatever workers run, crash and overtake each other.                    *)
THEOREM QueueTypeCorrect == Spec => []TypeOK
<1>1. ClaimInv => TypeOK
  BY DEF ClaimInv
<1> QED BY <1>1, ClaimInvHolds, PTL

(* The claimed_by fences suffice: no displaced worker, cancellation or     *)
(* retention sweep touches a row under the worker that holds its claim.    *)
THEOREM RunnersOwnTheirClaims == Spec => []RunnerOwnsClaim
<1>1. ClaimInv => RunnerOwnsClaim
  <2> SUFFICES ASSUME ClaimInv, NEW w \in Workers, NEW m \in Messages, Active(w, m),
                      m \notin stolen[w]
               PROVE  \/ Owns(w, m) /\ m \notin Terminal /\ attempt[w][m] = failedCount[m]
                      \/ step[w][m] = "threw" /\ m \in completed
    BY DEF RunnerOwnsClaim
  <2>1. CASE claimedBy[m] = w
    BY <2>1, NullAssumption DEF ClaimInv, OwnerIsCurrent, ClaimedIsLive, Owns
  <2>2. CASE claimedBy[m] # w
    BY <2>2 DEF ClaimInv, OthersAreDisplaced
  <2> QED BY <2>1, <2>2
<1> QED BY <1>1, ClaimInvHolds, PTL

(***************************************************************************)
(* JobQueue implements JobLifecycle                                        *)
(***************************************************************************)

(* A statement that changes one row changes the state of one message. *)
LEMMA OneMoves ==
  ASSUME NEW m \in Messages,
         \A n \in Messages \ {m} : StateOf(n)' = StateOf(n)
  PROVE  [n \in Messages |-> StateOf(n)]' =
           [[n \in Messages |-> StateOf(n)] EXCEPT ![m] = StateOf(m)']
OBVIOUS

LEMMA LiveState ==
  ASSUME NEW m \in Messages, m \in rows \ Terminal, rows \subseteq sent
  PROVE  StateOf(m) = IF claimedBy[m] = None THEN "waiting" ELSE "leased"
BY DEF StateOf, Terminal

LEMMA LifecycleStep == ClaimInv /\ [Next]_vars => [L!LifecycleNext]_(L!jobVars)
<1> SUFFICES ASSUME ClaimInv, [Next]_vars PROVE L!LifecycleNext \/ UNCHANGED L!jobVars
  OBVIOUS
<1> USE DEF rowVars, workVars, logVars
<1>0. TypeOK /\ rows \subseteq sent /\ OwnerIsCurrent /\ ClaimedIsLive
  BY DEF ClaimInv, TypeOK
<1> USE <1>0
<1> USE DEF OwnerIsCurrent, ClaimedIsLive
<1>1. ASSUME NEW m \in Messages, Send(m) PROVE L!LifecycleNext
  <2>1. \A n \in Messages \ {m} : StateOf(n)' = StateOf(n)
    BY <1>1 DEF Send, StateOf, Terminal, TypeOK
  <2>2. StateOf(m) = "unsent" /\ m \notin Terminal /\ claimedBy[m] = None
    BY <1>1, NullAssumption DEF Send, StateOf, Terminal, TypeOK
  <2>3. StateOf(m)' = "waiting"
    BY <1>1, <2>2 DEF Send, StateOf, Terminal, TypeOK
  <2>4. [n \in Messages |-> StateOf(n)]' = [[n \in Messages |-> StateOf(n)] EXCEPT ![m] = "waiting"]
    BY <2>1, <2>3, OneMoves
  <2>5. L!Enqueue(m)
    BY <1>1, <2>2, <2>4 DEF Send, L!Enqueue, L!Move
  <2> QED BY <2>5 DEF L!LifecycleNext
<1>2. ASSUME NEW m \in Messages, Cancel(m) PROVE L!LifecycleNext
  <2>1. \A n \in Messages \ {m} : StateOf(n)' = StateOf(n)
    BY <1>2 DEF Cancel, StateOf, Terminal, TypeOK
  <2>2. StateOf(m) \in {"waiting", "buried"}
    BY <1>2 DEF Cancel, StateOf, Terminal, TypeOK
  <2>3. StateOf(m)' = "cancelled"
    BY <1>2, <2>2 DEF Cancel, StateOf, Terminal, TypeOK
  <2>4. [n \in Messages |-> StateOf(n)]' = [[n \in Messages |-> StateOf(n)] EXCEPT ![m] = "cancelled"]
    BY <2>1, <2>3, OneMoves
  <2>5. L!Withdraw(m)
    BY <1>2, <2>2, <2>4 DEF Cancel, L!Withdraw, L!Move
  <2> QED BY <2>5 DEF L!LifecycleNext
<1>3. ASSUME NEW m \in Messages, Delete(m) PROVE L!LifecycleNext
  <2>1. \A n \in Messages \ {m} : StateOf(n)' = StateOf(n)
    BY <1>3 DEF Delete, StateOf, Terminal, TypeOK
  <2>2. StateOf(m) \in {"completed", "cancelled", "buried"}
    BY <1>3 DEF Delete, StateOf, Terminal, TypeOK
  <2>3. StateOf(m)' = "deleted"
    BY <1>3, <2>2 DEF Delete, StateOf, Terminal, TypeOK
  <2>4. [n \in Messages |-> StateOf(n)]' = [[n \in Messages |-> StateOf(n)] EXCEPT ![m] = "deleted"]
    BY <2>1, <2>3, OneMoves
  <2>5. L!Expire(m)
    BY <1>3, <2>2, <2>4 DEF Delete, L!Expire, L!Move
  <2> QED BY <2>5 DEF L!LifecycleNext
<1>4. ASSUME NEW w \in Workers, Claim(w) PROVE L!LifecycleNext
  <2>1. PICK batch \in SUBSET Messages :
          /\ \E time \in AppClock : \A m \in batch : Claimable(m, time)
          /\ claimedBy' = [m \in Messages |-> IF m \in batch THEN w ELSE claimedBy[m]]
    BY <1>4 DEF Claim
  <2>2. batch \subseteq rows \ Terminal
    BY <2>1 DEF Claimable
  <2>3. \A m \in batch : StateOf(m) \in {"waiting", "leased"}
    BY <2>2, LiveState
  <2>4. \A m \in batch : StateOf(m)' = "leased"
    BY <1>4, <2>1, <2>2, NullAssumption DEF Claim, StateOf, Terminal, TypeOK
  <2>5. \A m \in Messages \ batch : StateOf(m)' = StateOf(m)
    BY <1>4, <2>1 DEF Claim, StateOf, Terminal, TypeOK
  <2>6. L!Lease(batch)
    BY <1>4, <2>3, <2>4, <2>5 DEF Claim, L!Lease
  <2> QED BY <2>6 DEF L!LifecycleNext
<1>5. ASSUME NEW w \in Workers, NEW m \in Messages, Complete(w, m) PROVE L!LifecycleNext
  <2>1. \A n \in Messages \ {m} : StateOf(n)' = StateOf(n)
    BY <1>5 DEF Complete, Release, StateOf, Terminal, TypeOK
  <2>2. StateOf(m) = "leased" /\ m \in rows \ Terminal
    BY <1>5, LiveState, NullAssumption DEF Complete, Owns, TypeOK
  <2>3. StateOf(m)' = "completed"
    BY <1>5, <2>2 DEF Complete, Release, StateOf, Terminal, TypeOK
  <2>4. [n \in Messages |-> StateOf(n)]' = [[n \in Messages |-> StateOf(n)] EXCEPT ![m] = "completed"]
    BY <2>1, <2>3, OneMoves
  <2>5. L!Finish(m)
    BY <1>5, <2>2, <2>4 DEF Complete, L!Finish, L!Move
  <2> QED BY <2>5 DEF L!LifecycleNext
<1>6. ASSUME NEW w \in Workers, NEW m \in Messages, LoseAnswer(w, m) PROVE L!LifecycleNext
  <2>1. \A n \in Messages \ {m} : StateOf(n)' = StateOf(n)
    BY <1>6 DEF LoseAnswer, Release, StateOf, Terminal, TypeOK
  <2>2. StateOf(m) = "leased" /\ m \in rows \ Terminal
    BY <1>6, LiveState, NullAssumption DEF LoseAnswer, Owns, TypeOK
  <2>3. StateOf(m)' = "completed"
    BY <1>6, <2>2 DEF LoseAnswer, Release, StateOf, Terminal, TypeOK
  <2>4. [n \in Messages |-> StateOf(n)]' = [[n \in Messages |-> StateOf(n)] EXCEPT ![m] = "completed"]
    BY <2>1, <2>3, OneMoves
  <2>5. L!Finish(m)
    BY <1>6, <2>2, <2>4 DEF LoseAnswer, L!Finish, L!Move
  <2> QED BY <2>5 DEF L!LifecycleNext
<1>7. ASSUME NEW w \in Workers, NEW m \in Messages, Fail(w, m) PROVE L!LifecycleNext
  <2>1. \A n \in Messages \ {m} : StateOf(n)' = StateOf(n)
    BY <1>7 DEF Fail, Release, StateOf, Terminal, TypeOK
  <2>2. /\ StateOf(m) = "leased" /\ m \in rows \ Terminal
        /\ failedCount[m] + 1 < MaxRetries
    <3>1. StateOf(m) = "leased" /\ m \in rows \ Terminal
      BY <1>7, LiveState, NullAssumption DEF Fail, Owns, TypeOK
    <3>2. attempt[w][m] = failedCount[m]
      BY <1>7 DEF Fail, Owns, Active, InHand
    <3> QED BY <1>7, <3>1, <3>2, CountsAssumption DEF Fail, Exhausted, TypeOK
  <2>3. StateOf(m)' = "waiting"
    BY <1>7, <2>2 DEF Fail, Release, StateOf, Terminal, TypeOK
  <2>4. [n \in Messages |-> StateOf(n)]' = [[n \in Messages |-> StateOf(n)] EXCEPT ![m] = "waiting"]
    BY <2>1, <2>3, OneMoves
  <2>5. L!Retry(m)
    BY <1>7, <2>2, <2>4 DEF Fail, L!Retry, L!Move
  <2> QED BY <2>5 DEF L!LifecycleNext
<1>8. ASSUME NEW w \in Workers, NEW m \in Messages, FailDlq(w, m) PROVE L!LifecycleNext
  <2>1. \A n \in Messages \ {m} : StateOf(n)' = StateOf(n)
    BY <1>8 DEF FailDlq, Release, StateOf, Terminal, TypeOK
  <2>2. /\ StateOf(m) = "leased" /\ m \in rows \ Terminal
        /\ failedCount[m] + 1 >= MaxRetries
    <3>1. StateOf(m) = "leased" /\ m \in rows \ Terminal
      BY <1>8, LiveState, NullAssumption DEF FailDlq, Owns, TypeOK
    <3>2. attempt[w][m] = failedCount[m]
      BY <1>8 DEF FailDlq, Owns, Active, InHand
    <3> QED BY <1>8, <3>1, <3>2, CountsAssumption DEF FailDlq, Exhausted, TypeOK
  <2>3. StateOf(m)' = "buried"
    BY <1>8, <2>2 DEF FailDlq, Release, StateOf, Terminal, TypeOK
  <2>4. [n \in Messages |-> StateOf(n)]' = [[n \in Messages |-> StateOf(n)] EXCEPT ![m] = "buried"]
    BY <2>1, <2>3, OneMoves
  <2>5. L!Bury(m)
    BY <1>8, <2>2, <2>4 DEF FailDlq, L!Bury, L!Move
  <2> QED BY <2>5 DEF L!LifecycleNext
<1>9. ASSUME NEW w \in Workers, NEW m \in Messages, Defer(w, m) PROVE L!LifecycleNext
  <2>1. \A n \in Messages \ {m} : StateOf(n)' = StateOf(n)
    BY <1>9 DEF Defer, Release, StateOf, Terminal, TypeOK
  <2>2. StateOf(m) = "leased" /\ m \in rows \ Terminal
    BY <1>9, LiveState, NullAssumption DEF Defer, Owns, TypeOK
  <2>3. StateOf(m)' = "waiting"
    BY <1>9, <2>2 DEF Defer, Release, StateOf, Terminal, TypeOK
  <2>4. [n \in Messages |-> StateOf(n)]' = [[n \in Messages |-> StateOf(n)] EXCEPT ![m] = "waiting"]
    BY <2>1, <2>3, OneMoves
  <2>5. L!Postpone(m)
    BY <1>9, <2>2, <2>4 DEF Defer, L!Postpone, L!Move
  <2> QED BY <2>5 DEF L!LifecycleNext
<1>10. ASSUME UNCHANGED <<rows, completed, cancelled, dlq, claimedBy, failedCount, sent>>
       PROVE  UNCHANGED L!jobVars
  BY <1>10 DEF L!jobVars, StateOf, Terminal
<1>11. ASSUME NEW w \in Workers, Renew(w) \/ FinishBatch(w) \/ Crash(w)
       PROVE  UNCHANGED L!jobVars
  BY <1>10, <1>11 DEF Renew, FinishBatch, Crash
<1>12. ASSUME NEW w \in Workers, NEW m \in Messages,
              \/ Start(w, m) \/ Succeed(w, m) \/ Throw(w, m) \/ Deny(w, m)
              \/ CompleteRefused(w, m) \/ ReportRefused(w, m)
              \/ ExtendClaim(w, m) \/ Reject(w, m)
       PROVE  UNCHANGED L!jobVars
  BY <1>10, <1>12 DEF Start, Succeed, Throw, Deny, CompleteRefused, ReportRefused,
                      ExtendClaim, Reject
<1>13. CASE Tick \/ UNCHANGED vars
  BY <1>10, <1>13 DEF Tick, vars
<1> QED BY <1>1, <1>2, <1>3, <1>4, <1>5, <1>6, <1>7, <1>8, <1>9, <1>11, <1>12, <1>13
        DEF Next, Process

(* The queue implements the lifecycle, for any number of workers: each     *)
(* lease of a message yields at most one outcome, and its last failure is  *)
(* the one that dead-letters it.                                           *)
THEOREM QueueImplementsLifecycle == Spec => ImplementsLifecycle
<1>1. Init => L!LifecycleInit
  BY DEF Init, L!LifecycleInit, StateOf
<1> QED BY <1>1, LifecycleStep, ClaimInvHolds, PTL
        DEF Spec, ImplementsLifecycle, L!Lifecycle
(***************************************************************************)
(* Retries and outcomes.  The second invariant counts attempts; its parts  *)
(* about undisturbed runs rest on the fact that there every message in     *)
(* hand is in the hands of the worker that owns it.                        *)
(***************************************************************************)

(* A failure is counted before it is reported. *)
FailuresWereThrown ==
  \A m \in Messages :
    /\ failedCount[m] <= throws[m]
    /\ m \in dlq => throws[m] >= MaxRetries
    /\ \A w \in Workers : claimedBy[m] = w /\ step[w][m] = "threw" =>
                            failedCount[m] + 1 <= throws[m]

CalmOwners ==
  ~disturbed => \A w \in Workers, m \in Messages : Active(w, m) => claimedBy[m] = w

(* Without disturbance failed_count lags by the failure not yet reported. *)
CalmThrows ==
  ~disturbed =>
    \A m \in Messages :
      /\ throws[m] <= MaxRetries
      /\ m \notin dlq /\ (\A w \in Workers : step[w][m] # "threw") =>
           throws[m] = failedCount[m]
      /\ \A w \in Workers : step[w][m] = "threw" => throws[m] = failedCount[m] + 1

(* Without disturbance what was done is recorded, or about to be. *)
CalmOutcomes ==
  ~disturbed =>
    /\ redone = {}
    /\ \A m \in done : m \notin dlq /\ (m \in completed \/ \E w \in Workers : step[w][m] = "ran")

RetryInv == FailuresWereThrown /\ CalmOwners /\ CalmThrows /\ CalmOutcomes

LEMMA RetryInvInit == Init => RetryInv
BY CountsAssumption
DEF Init, RetryInv, FailuresWereThrown, CalmOwners, CalmThrows, CalmOutcomes, Active, InHand

(* A message in hand, undisturbed: it is owned, live, and nobody else's. *)
LEMMA CalmInHand ==
  ASSUME ClaimInv, RetryInv, ~disturbed, NEW w \in Workers, NEW m \in Messages, Active(w, m)
  PROVE  /\ Owns(w, m) /\ m \notin Terminal /\ attempt[w][m] = failedCount[m]
         /\ \A v \in Workers \ {w} : ~Active(v, m)
<1>1. claimedBy[m] = w /\ \A v \in Workers \ {w} : ~Active(v, m)
  BY DEF RetryInv, CalmOwners
<1> QED BY <1>1, NullAssumption DEF ClaimInv, OwnerIsCurrent, ClaimedIsLive, Owns

(* CountThrow, in numbers. *)
LEMMA CountThrowCounts ==
  ASSUME TypeOK, NEW m \in Messages, CountThrow(m)
  PROVE  /\ throws' \in [Messages -> 0..(MaxRetries + 1)]
         /\ \A n \in Messages \ {m} : throws'[n] = throws[n]
         /\ throws'[m] >= throws[m]
         /\ throws[m] < MaxRetries => throws'[m] = throws[m] + 1
         /\ throws[m] >= failedCount[m] => throws'[m] >= failedCount[m] + 1
BY CountsAssumption DEF CountThrow, TypeOK

LEMMA RetryInvNext == ClaimInv /\ RetryInv /\ [Next]_vars => RetryInv'
<1> SUFFICES ASSUME ClaimInv, RetryInv, [Next]_vars PROVE RetryInv'
  OBVIOUS
<1> USE DEF rowVars, workVars, logVars
<1>0. TypeOK
  BY DEF ClaimInv
<1>1. ASSUME UNCHANGED <<claimedBy, failedCount, completed, dlq, step, throws, done, redone,
                         disturbed>>
      PROVE  RetryInv'
  BY <1>1 DEF RetryInv, FailuresWereThrown, CalmOwners, CalmThrows, CalmOutcomes, Active
<1>2. ASSUME NEW m \in Messages, Send(m) \/ Cancel(m) \/ Delete(m) PROVE RetryInv'
  BY <1>1, <1>2 DEF Send, Cancel, Delete
<1>3. CASE Tick \/ UNCHANGED vars
  BY <1>1, <1>3 DEF Tick, vars
<1>4. ASSUME NEW w \in Workers, Renew(w) PROVE RetryInv'
  BY <1>1, <1>4 DEF Renew
<1>5. ASSUME NEW w \in Workers, NEW m \in Messages, ExtendClaim(w, m) PROVE RetryInv'
  BY <1>1, <1>5 DEF ExtendClaim
<1>6. ASSUME NEW w \in Workers, Claim(w) PROVE RetryInv'
  <2>1. PICK batch \in SUBSET Messages :
          /\ claimedBy' = [m \in Messages |-> IF m \in batch THEN w ELSE claimedBy[m]]
          /\ step' = [step EXCEPT ![w] = [m \in Messages |-> IF m \in batch THEN "claimed"
                                                                          ELSE "none"]]
          /\ disturbed' = (disturbed \/ \E m \in batch : claimedBy[m] # None)
    BY <1>6 DEF Claim
  <2>2. FailuresWereThrown'
    BY <1>0, <1>6, <2>1 DEF Claim, RetryInv, FailuresWereThrown, TypeOK
  <2>3. CalmOwners'
    <3> SUFFICES ASSUME ~disturbed', NEW v \in Workers, NEW m \in Messages, Active(v, m)'
                 PROVE  claimedBy'[m] = v
      BY DEF CalmOwners
    <3>1. CASE v = w
      BY <1>0, <2>1, <3>1 DEF TypeOK, Active, InHand
    <3>2. CASE v # w
      <4>1. Active(v, m) /\ ~disturbed
        BY <1>0, <2>1, <3>2 DEF TypeOK, Active
      <4>2. claimedBy[m] = v
        BY <4>1 DEF RetryInv, CalmOwners
      <4> QED BY <2>1, <4>2, NullAssumption
    <3> QED BY <3>1, <3>2
  <2>4. CalmThrows'
    BY <1>0, <1>6, <2>1 DEF Claim, Idle, RetryInv, CalmThrows, TypeOK
  <2>5. CalmOutcomes'
    BY <1>0, <1>6, <2>1 DEF Claim, Idle, RetryInv, CalmOutcomes, TypeOK
  <2> QED BY <2>2, <2>3, <2>4, <2>5 DEF RetryInv
<1>7. ASSUME NEW w \in Workers, FinishBatch(w) PROVE RetryInv'
  BY <1>0, <1>7 DEF FinishBatch, RetryInv, FailuresWereThrown, CalmOwners, CalmThrows,
                   CalmOutcomes, Active, InHand, TypeOK
<1>8. ASSUME NEW w \in Workers, Crash(w) PROVE RetryInv'
  BY <1>0, <1>8 DEF Crash, RetryInv, FailuresWereThrown, CalmOwners, CalmThrows,
                   CalmOutcomes, TypeOK
<1>9. ASSUME NEW w \in Workers, NEW m \in Messages, Start(w, m) PROVE RetryInv'
  BY <1>0, <1>9 DEF Start, To, RetryInv, FailuresWereThrown, CalmOwners, CalmThrows,
                   CalmOutcomes, Active, InHand, TypeOK
<1>10. ASSUME NEW w \in Workers, NEW m \in Messages, Deny(w, m) PROVE RetryInv'
  BY <1>0, <1>10 DEF Deny, To, RetryInv, FailuresWereThrown, CalmOwners, CalmThrows,
                   CalmOutcomes, Active, InHand, TypeOK
<1>11. ASSUME NEW w \in Workers, NEW m \in Messages, Succeed(w, m) PROVE RetryInv'
  <2>1. ASSUME ~disturbed PROVE m \notin done /\ m \notin dlq
    BY <1>11, <2>1, CalmInHand DEF Succeed, Active, InHand, Terminal, RetryInv, CalmOutcomes
  <2> QED BY <1>0, <1>11, <2>1
          DEF Succeed, To, RetryInv, FailuresWereThrown, CalmOwners, CalmThrows,
              CalmOutcomes, Active, InHand, TypeOK
<1>12. ASSUME NEW w \in Workers, NEW m \in Messages, Throw(w, m) PROVE RetryInv'
  <2>1. /\ throws' \in [Messages -> 0..(MaxRetries + 1)]
        /\ \A n \in Messages \ {m} : throws'[n] = throws[n]
        /\ throws'[m] >= throws[m]
        /\ throws[m] < MaxRetries => throws'[m] = throws[m] + 1
        /\ throws[m] >= failedCount[m] => throws'[m] >= failedCount[m] + 1
    BY <1>0, <1>12, CountThrowCounts DEF Throw
  <2>2. ASSUME ~disturbed
        PROVE  throws[m] = failedCount[m] /\ \A v \in Workers : step[v][m] # "threw"
    <3>1. m \notin dlq /\ \A v \in Workers \ {w} : ~Active(v, m)
      BY <1>12, <2>2, CalmInHand DEF Throw, Active, InHand, Terminal
    <3>2. \A v \in Workers : step[v][m] # "threw"
      BY <1>12, <3>1 DEF Throw, Active, InHand
    <3> QED BY <2>2, <3>1, <3>2 DEF RetryInv, CalmThrows
  <2>3. FailuresWereThrown'
    BY <1>0, <1>12, <2>1, CountsAssumption
    DEF Throw, To, RetryInv, FailuresWereThrown, TypeOK
  <2>4. CalmOwners' /\ CalmOutcomes'
    BY <1>0, <1>12 DEF Throw, To, RetryInv, CalmOwners, CalmOutcomes, Active, InHand, TypeOK
  <2>5. CalmThrows'
    BY <1>0, <1>12, <2>1, <2>2, CountsAssumption DEF Throw, To, RetryInv, CalmThrows, TypeOK
  <2> QED BY <2>3, <2>4, <2>5 DEF RetryInv
<1>13. ASSUME NEW w \in Workers, NEW m \in Messages, CompleteRefused(w, m) PROVE RetryInv'
  <2>1. disturbed
    BY <1>13, CalmInHand DEF CompleteRefused, Active, InHand, Terminal
  <2>2. /\ throws' \in [Messages -> 0..(MaxRetries + 1)]
        /\ \A n \in Messages \ {m} : throws'[n] = throws[n]
        /\ throws'[m] >= throws[m]
        /\ throws[m] >= failedCount[m] => throws'[m] >= failedCount[m] + 1
    BY <1>0, <1>13, CountThrowCounts DEF CompleteRefused
  <2>3. FailuresWereThrown'
    BY <1>0, <1>13, <2>2, CountsAssumption
    DEF CompleteRefused, To, RetryInv, FailuresWereThrown, TypeOK
  <2> QED BY <1>13, <2>1, <2>3
          DEF CompleteRefused, RetryInv, CalmOwners, CalmThrows, CalmOutcomes
<1>14. ASSUME NEW w \in Workers, NEW m \in Messages, Reject(w, m) PROVE RetryInv'
  <2>1. CASE step[w][m] = "ran" /\ To(w, m, "threw") /\ CountThrow(m)
    <3>1. /\ throws' \in [Messages -> 0..(MaxRetries + 1)]
          /\ \A n \in Messages \ {m} : throws'[n] = throws[n]
          /\ throws'[m] >= throws[m]
          /\ throws[m] >= failedCount[m] => throws'[m] >= failedCount[m] + 1
      BY <1>0, <2>1, CountThrowCounts
    <3>2. FailuresWereThrown'
      BY <1>0, <1>14, <2>1, <3>1, CountsAssumption
      DEF Reject, To, RetryInv, FailuresWereThrown, TypeOK
    <3> QED BY <1>14, <3>2 DEF Reject, RetryInv, CalmOwners, CalmThrows, CalmOutcomes
  <2>2. CASE step[w][m] \in {"threw", "denied"} /\ To(w, m, "left") /\ UNCHANGED throws
    BY <1>0, <1>14, <2>2 DEF Reject, To, RetryInv, FailuresWereThrown, CalmOwners, CalmThrows,
                            CalmOutcomes, TypeOK
  <2> QED BY <1>14, <2>1, <2>2 DEF Reject
<1>15. ASSUME NEW w \in Workers, NEW m \in Messages, LoseAnswer(w, m) PROVE RetryInv'
  <2>1. /\ throws' \in [Messages -> 0..(MaxRetries + 1)]
        /\ \A n \in Messages \ {m} : throws'[n] = throws[n]
        /\ throws'[m] >= throws[m]
        /\ throws[m] >= failedCount[m] => throws'[m] >= failedCount[m] + 1
    BY <1>0, <1>15, CountThrowCounts DEF LoseAnswer
  <2>2. /\ claimedBy' = [claimedBy EXCEPT ![m] = None]
        /\ step' = [step EXCEPT ![w][m] = "threw"]
        /\ UNCHANGED <<failedCount, dlq>>
    BY <1>15 DEF LoseAnswer, Release, To
  <2>3. FailuresWereThrown'
    <3> SUFFICES ASSUME NEW n \in Messages
                 PROVE  /\ failedCount[n] <= throws'[n]
                        /\ n \in dlq => throws'[n] >= MaxRetries
                        /\ \A v \in Workers : claimedBy'[n] = v /\ step'[v][n] = "threw" =>
                                               failedCount[n] + 1 <= throws'[n]
      BY <2>2 DEF FailuresWereThrown
    <3>1. /\ failedCount[n] \in Int /\ throws[n] \in Int /\ throws'[n] \in Int
          /\ throws'[n] >= throws[n]
      BY <1>0, <2>1, CountsAssumption DEF TypeOK
    <3>2. failedCount[n] <= throws'[n] /\ (n \in dlq => throws'[n] >= MaxRetries)
      BY <3>1, CountsAssumption DEF RetryInv, FailuresWereThrown
    <3>3. CASE n = m
      <4>1. \A v \in Workers : claimedBy'[n] # v
        BY <1>0, <2>2, <3>3, NullAssumption DEF TypeOK
      <4> QED BY <3>2, <4>1
    <3>4. CASE n # m
      <4>1. claimedBy'[n] = claimedBy[n] /\ throws'[n] = throws[n]
        BY <1>0, <2>1, <2>2, <3>4 DEF TypeOK
      <4>2. \A v \in Workers : step'[v][n] = step[v][n]
        BY <1>0, <2>2, <3>4 DEF TypeOK
      <4> QED BY <3>2, <4>1, <4>2 DEF RetryInv, FailuresWereThrown
    <3> QED BY <3>3, <3>4
  <2> QED BY <1>15, <2>3 DEF LoseAnswer, RetryInv, CalmOwners, CalmThrows, CalmOutcomes
<1>16. ASSUME NEW w \in Workers, NEW m \in Messages, Complete(w, m) PROVE RetryInv'
  <2>1. ASSUME ~disturbed PROVE \A v \in Workers \ {w} : ~Active(v, m)
    BY <1>16, <2>1, CalmInHand DEF Complete, Active, InHand
  <2>2. FailuresWereThrown'
    BY <1>0, <1>16, NullAssumption DEF Complete, Release, To, RetryInv, FailuresWereThrown, TypeOK
  <2>3. CalmOwners'
    BY <1>0, <1>16, <2>1 DEF Complete, Release, To, RetryInv, CalmOwners, Active, InHand, TypeOK
  <2>4. CalmThrows'
    BY <1>0, <1>16 DEF Complete, To, RetryInv, CalmThrows, TypeOK
  <2>5. CalmOutcomes'
    BY <1>0, <1>16 DEF Complete, To, RetryInv, CalmOutcomes, TypeOK
  <2> QED BY <2>2, <2>3, <2>4, <2>5 DEF RetryInv
<1>17. ASSUME NEW w \in Workers, NEW m \in Messages, Fail(w, m) PROVE RetryInv'
  <2>0. /\ claimedBy' = [claimedBy EXCEPT ![m] = None]
        /\ failedCount' = [failedCount EXCEPT ![m] = failedCount[m] + 1]
        /\ step' = [step EXCEPT ![w][m] = "left"]
        /\ UNCHANGED <<completed, dlq, throws, done, redone, disturbed>>
        /\ step[w][m] = "threw" /\ claimedBy[m] = w /\ m \notin dlq
    BY <1>0, <1>17 DEF Fail, Release, Owns, To, TypeOK
  <2>1. ASSUME ~disturbed PROVE \A v \in Workers \ {w} : ~Active(v, m)
    BY <2>0, <2>1, CalmInHand DEF Active, InHand
  <2>2. FailuresWereThrown'
    BY <1>0, <2>0, NullAssumption DEF RetryInv, FailuresWereThrown, TypeOK
  <2>3. CalmOwners'
    BY <1>0, <2>0, <2>1 DEF RetryInv, CalmOwners, Active, InHand, TypeOK
  <2>4. CalmThrows'
    <3>1. ASSUME ~disturbed
          PROVE  \A v \in Workers : step'[v][m] # "threw"
      BY <1>0, <2>0, <2>1, <3>1 DEF Active, InHand, TypeOK
    <3>2. ASSUME ~disturbed PROVE throws[m] = failedCount'[m]
      BY <1>0, <2>0, <3>2 DEF RetryInv, CalmThrows, TypeOK
    <3> QED BY <1>0, <2>0, <3>1, <3>2 DEF RetryInv, CalmThrows, TypeOK
  <2>5. CalmOutcomes'
    BY <1>0, <2>0 DEF RetryInv, CalmOutcomes, TypeOK
  <2> QED BY <2>2, <2>3, <2>4, <2>5 DEF RetryInv
<1>18. ASSUME NEW w \in Workers, NEW m \in Messages, FailDlq(w, m) PROVE RetryInv'
  <2>0. /\ claimedBy' = [claimedBy EXCEPT ![m] = None]
        /\ dlq' = dlq \cup {m}
        /\ step' = [step EXCEPT ![w][m] = "gone"]
        /\ UNCHANGED <<failedCount, completed, throws, done, redone, disturbed>>
        /\ step[w][m] = "threw" /\ claimedBy[m] = w /\ m \notin completed
        /\ failedCount[m] + 1 >= MaxRetries
    BY <1>0, <1>18 DEF FailDlq, Exhausted, Release, Owns, To, TypeOK, ClaimInv, OwnerIsCurrent,
                      Active, InHand
  <2>1. ASSUME ~disturbed PROVE \A v \in Workers \ {w} : ~Active(v, m)
    BY <2>0, <2>1, CalmInHand DEF Active, InHand
  <2>2. FailuresWereThrown'
    <3>1. throws[m] \in Int /\ failedCount[m] \in Int /\ failedCount[m] + 1 <= throws[m]
      BY <1>0, <2>0, CountsAssumption DEF RetryInv, FailuresWereThrown, TypeOK
    <3>2. throws[m] >= MaxRetries
      BY <2>0, <3>1, CountsAssumption
    <3> SUFFICES ASSUME NEW n \in Messages
                 PROVE  /\ failedCount[n] <= throws[n]
                        /\ n \in dlq' => throws[n] >= MaxRetries
                        /\ \A v \in Workers : claimedBy'[n] = v /\ step'[v][n] = "threw" =>
                                               failedCount[n] + 1 <= throws[n]
      BY <2>0 DEF FailuresWereThrown
    <3>3. CASE n = m
      <4>1. claimedBy'[n] = None
        BY <1>0, <2>0, <3>3 DEF TypeOK
      <4>2. \A v \in Workers : claimedBy'[n] # v
        BY <4>1, NullAssumption
      <4>3. failedCount[n] <= throws[n]
        BY DEF RetryInv, FailuresWereThrown
      <4> QED BY <3>2, <3>3, <4>2, <4>3
    <3>4. CASE n # m
      <4>1. claimedBy'[n] = claimedBy[n] /\ (n \in dlq' => n \in dlq)
        BY <1>0, <2>0, <3>4 DEF TypeOK
      <4>2. \A v \in Workers : step'[v][n] = step[v][n]
        BY <1>0, <2>0, <3>4 DEF TypeOK
      <4> QED BY <4>1, <4>2 DEF RetryInv, FailuresWereThrown
    <3> QED BY <3>3, <3>4
  <2>3. CalmOwners'
    BY <1>0, <2>0, <2>1 DEF RetryInv, CalmOwners, Active, InHand, TypeOK
  <2>4. CalmThrows'
    BY <1>0, <2>0, <2>1 DEF RetryInv, CalmThrows, Active, InHand, TypeOK
  <2>5. CalmOutcomes'
    <3>1. ASSUME ~disturbed PROVE m \notin done
      BY <2>0, <2>1, <3>1 DEF RetryInv, CalmOutcomes, Active, InHand
    <3> QED BY <1>0, <2>0, <3>1 DEF RetryInv, CalmOutcomes, TypeOK
  <2> QED BY <2>2, <2>3, <2>4, <2>5 DEF RetryInv
<1>19. ASSUME NEW w \in Workers, NEW m \in Messages, Defer(w, m) PROVE RetryInv'
  <2>0. /\ claimedBy' = [claimedBy EXCEPT ![m] = None]
        /\ step' = [step EXCEPT ![w][m] = "left"]
        /\ UNCHANGED <<failedCount, completed, dlq, throws, done, redone, disturbed>>
        /\ step[w][m] = "denied"
    BY <1>0, <1>19 DEF Defer, Release, To, TypeOK
  <2>1. ASSUME ~disturbed PROVE \A v \in Workers \ {w} : ~Active(v, m)
    BY <2>0, <2>1, CalmInHand DEF Active, InHand
  <2>2. FailuresWereThrown'
    BY <1>0, <2>0, NullAssumption DEF RetryInv, FailuresWereThrown, TypeOK
  <2>3. CalmOwners'
    BY <1>0, <2>0, <2>1 DEF RetryInv, CalmOwners, Active, InHand, TypeOK
  <2>4. CalmThrows' /\ CalmOutcomes'
    BY <1>0, <2>0 DEF RetryInv, CalmThrows, CalmOutcomes, TypeOK
  <2> QED BY <2>2, <2>3, <2>4 DEF RetryInv
<1>20. ASSUME NEW w \in Workers, NEW m \in Messages, ReportRefused(w, m) PROVE RetryInv'
  <2>1. disturbed
    BY <1>20, CalmInHand DEF ReportRefused, Active, InHand, Terminal
  <2> QED BY <1>0, <1>20, <2>1 DEF ReportRefused, To, RetryInv, FailuresWereThrown, CalmOwners,
                                  CalmThrows, CalmOutcomes, TypeOK
<1> QED BY <1>2, <1>3, <1>4, <1>5, <1>6, <1>7, <1>8, <1>9, <1>10, <1>11,
           <1>12, <1>13, <1>14, <1>15, <1>16, <1>17, <1>18, <1>19, <1>20 DEF Next, Process

LEMMA RetryInvHolds == Spec => []RetryInv
BY RetryInvInit, RetryInvNext, ClaimInvHolds, PTL DEF Spec

(* A message is dead-lettered only after maxRetries failed attempts, and   *)
(* undisturbed it never gets more.                                         *)
THEOREM RetriesAreCounted == Spec => []RetryBudget
<1>1. RetryInv => RetryBudget
  BY DEF RetryInv, FailuresWereThrown, CalmThrows, RetryBudget
<1> QED BY <1>1, RetryInvHolds, PTL

(* Undisturbed, a message is handled once and never dead-lettered after a  *)
(* success.                                                                *)
THEOREM OutcomesAreKept == Spec => []OutcomeKept
<1>1. RetryInv => OutcomeKept
  BY DEF RetryInv, CalmOutcomes, OutcomeKept
<1> QED BY <1>1, RetryInvHolds, PTL
=============================================================================
