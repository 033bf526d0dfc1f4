------------------------------ MODULE JobQueue ------------------------------
(***************************************************************************)
(* The job queue: QueueRepository and the message half of QueueManager     *)
(* (apps/backend/src/lib/queue), for one (queue, workspace) pair.          *)
(*                                                                         *)
(* A worker is one call of processMessagesForToken, with a worker id of    *)
(* its own.  It claims a batch of messages for a limited time, keeps the   *)
(* claims alive from a timer, runs the handler on a few of them at a time  *)
(* and reports each outcome with an UPDATE that is fenced by claimed_by.   *)
(* Nothing stops a worker whose claim has expired: it goes on running the  *)
(* handler beside the worker that took the message over.                   *)
(*                                                                         *)
(* Every SQL statement is one action.  A worker may crash between any two  *)
(* of them, and any of them may be rejected.                               *)
(***************************************************************************)
EXTENDS Integers, FiniteSets

CONSTANTS
  Messages,      \* ids of queue messages
  Workers,       \* worker slots; a slot is a new worker each time it claims
  None,          \* SQL NULL
  Failing,       \* messages whose handler may throw
  Denied,        \* messages whose handler may be denied AI spend
  ClaimBatch,    \* claimBatchSize
  Concurrency,   \* processingConcurrency
  LockDuration,  \* lockDurationMs
  SendClaim,     \* PUSH_SEND_CLAIM_MS
  MaxRetries,    \* maxRetries
  BaseBackoff,   \* baseBackoffMs
  DeferDelay,    \* SPEND_DENIAL_DEFER_MS
  Delays,        \* how far in the future a message may be scheduled
  Skew,          \* how far a process clock may be from the model's clock
  MaxClock       \* bound: the last instant of the clock

ASSUME NullAssumption == None \notin Workers /\ None \notin Int
ASSUME CountsAssumption ==
  /\ ClaimBatch \in Nat \ {0} /\ Concurrency \in Nat \ {0} /\ MaxRetries \in Nat \ {0}
ASSUME TimesAssumption ==
  /\ LockDuration \in Nat /\ SendClaim \in Nat /\ BaseBackoff \in Nat
  /\ DeferDelay \in Nat /\ Delays \subseteq Nat /\ Skew \in Nat /\ MaxClock \in Nat

VARIABLES
  clock,        \* the time
  rows,         \* messages that have a row in queue_messages
  processAfter, claimedBy, claimedUntil, failedCount, \* columns of the rows
  completed, cancelled, dlq, \* messages with completed_at, cancelled_at, dlq_at
  step,         \* how far each worker is with each message it claimed
  attempt,      \* failed_count as the claim returned it to the worker
  sent,         \* ids that have been sent
  stolen,       \* messages a worker lost to a claim made after its own expired
  throws,       \* failed attempts at each message
  done, redone, \* messages the handler has completed, and completed again
  disturbed     \* a crash, a rejected statement or a stolen claim has happened

rowVars == <<rows, processAfter, claimedBy, claimedUntil, failedCount,
             completed, cancelled, dlq>>
workVars == <<step, attempt>>
logVars == <<sent, stolen, throws, done, redone, disturbed>>
vars == <<clock, rowVars, workVars, logVars>>

(* What a process clock may show at this instant. *)
AppClock == (clock - Skew)..(clock + Skew)

Terminal == completed \cup cancelled \cup dlq

(* Where processMessage stands with a message.  "left" is a message whose  *)
(* processing ended without the id entering completedMessageIds, so that   *)
(* the timer still lists it; "gone" is one that entered it.                *)
InHand == {"claimed", "running", "ran", "threw", "denied"}
Steps == {"none", "left", "gone"} \cup InHand

Active(w, m) == step[w][m] \in InHand
Idle(w) == \A m \in Messages : step[w][m] = "none"
To(w, m, s) == step' = [step EXCEPT ![w][m] = s]

(* What the WHERE of an outcome's UPDATE asks: still claimed by w. *)
Owns(w, m) == m \in rows /\ claimedBy[m] = w

Later(a, b) == IF a = None \/ a < b THEN b ELSE a

(***************************************************************************)
(* Producers and maintenance                                               *)
(***************************************************************************)

(* QueueRepository.insert.  Sending an id that has a row changes nothing.  *)
Send(m) ==
  /\ m \notin sent
  /\ rows' = rows \cup {m}
  /\ sent' = sent \cup {m}
  /\ \E delay \in Delays : processAfter' = [processAfter EXCEPT ![m] = clock + delay]
  /\ UNCHANGED <<clock, claimedBy, claimedUntil, failedCount, completed, cancelled, dlq,
                 workVars, stolen, throws, done, redone, disturbed>>

(* Mutant: cancelById without AND claimed_by IS NULL. *)
CancelInFlight(m) ==
  /\ m \in rows
  /\ m \notin completed \cup cancelled
  /\ cancelled' = cancelled \cup {m}
  /\ processAfter' = [processAfter EXCEPT ![m] = None]
  /\ UNCHANGED <<clock, rows, claimedBy, claimedUntil, failedCount, completed, dlq,
                 workVars, logVars>>

(* cancelById *)
Cancel(m) ==
  /\ m \in rows
  /\ m \notin completed \cup cancelled
  /\ claimedBy[m] = None
  /\ cancelled' = cancelled \cup {m}
  /\ processAfter' = [processAfter EXCEPT ![m] = None]
  /\ UNCHANGED <<clock, rows, claimedBy, claimedUntil, failedCount, completed, dlq,
                 workVars, logVars>>

(* Mutant: a message that waits for its retry counts as a dead letter. *)
DeleteFailed(m) ==
  /\ m \in rows
  /\ m \in Terminal \/ (failedCount[m] > 0 /\ claimedBy[m] = None)
  /\ rows' = rows \ {m}
  /\ UNCHANGED <<clock, processAfter, claimedBy, claimedUntil, failedCount, completed,
                 cancelled, dlq, workVars, logVars>>

(* deleteExpiredMessagesBatch; age decides when. *)
Delete(m) ==
  /\ m \in rows \cap Terminal
  /\ rows' = rows \ {m}
  /\ UNCHANGED <<clock, processAfter, claimedBy, claimedUntil, failedCount, completed,
                 cancelled, dlq, workVars, logVars>>

Tick ==
  /\ clock < MaxClock
  /\ clock' = clock + 1
  /\ UNCHANGED <<rowVars, workVars, logVars>>

(***************************************************************************)
(* Workers                                                                 *)
(***************************************************************************)

(* Mutant: only messages that were never claimed, or were released. *)
ClaimableUnclaimed(m, time) ==
  /\ m \in rows \ Terminal
  /\ processAfter[m] # None /\ processAfter[m] <= time
  /\ claimedUntil[m] = None

(* The WHERE of batchClaimMessages. *)
Claimable(m, time) ==
  /\ m \in rows \ Terminal
  /\ processAfter[m] # None /\ processAfter[m] <= time
  /\ claimedUntil[m] # None => claimedUntil[m] < time

(* batchClaimMessages.  SKIP LOCKED passes over rows that another          *)
(* statement has locked, so any of the claimable rows may be missing.      *)
Claim(w) ==
  /\ Idle(w)
  /\ \E time \in AppClock, batch \in SUBSET Messages :
       /\ batch # {} /\ Cardinality(batch) <= ClaimBatch
       /\ \A m \in batch : Claimable(m, time)
       /\ claimedBy' = [m \in Messages |-> IF m \in batch THEN w ELSE claimedBy[m]]
       /\ claimedUntil' = [m \in Messages |-> IF m \in batch THEN time + LockDuration
                                                             ELSE claimedUntil[m]]
       /\ step' = [step EXCEPT ![w] = [m \in Messages |-> IF m \in batch THEN "claimed"
                                                                       ELSE "none"]]
       /\ attempt' = [attempt EXCEPT ![w] = [m \in Messages |->
                        IF m \in batch THEN failedCount[m] ELSE 0]]
       /\ stolen' = [v \in Workers |-> stolen[v] \cup
                       {m \in batch : v # w /\ claimedBy[m] = v /\ Active(v, m)}]
       /\ disturbed' = (disturbed \/ \E m \in batch : claimedBy[m] # None)
  /\ UNCHANGED <<clock, rows, processAfter, failedCount, completed, cancelled, dlq,
                 sent, throws, done, redone>>

(* The claims the timer renews: all it has not ticked off as completed. *)
Renewable(w) == {m \in rows \ Terminal : step[w][m] \notin {"none", "gone"} /\ Owns(w, m)}

(* batchRenewClaims, from the timer; GREATEST keeps an extended claim. *)
Renew(w) ==
  /\ Renewable(w) # {}
  /\ \E time \in AppClock :
       claimedUntil' = [m \in Messages |->
         IF m \in Renewable(w) THEN Later(claimedUntil[m], time + LockDuration)
                               ELSE claimedUntil[m]]
  /\ UNCHANGED <<clock, rows, processAfter, claimedBy, failedCount, completed, cancelled,
                 dlq, workVars, logVars>>

(* processMessage, at most Concurrency at a time: nothing checks that the  *)
(* claim is still held when a waiting message gets its turn.               *)
Start(w, m) ==
  /\ step[w][m] = "claimed"
  /\ Cardinality({n \in Messages : step[w][n] \in InHand \ {"claimed"}}) < Concurrency
  /\ To(w, m, "running")
  /\ UNCHANGED <<clock, rowVars, attempt, logVars>>

(* A handler covers an external call by extending its claim: lockClaim,    *)
(* then batchRenewClaims, in one transaction.                              *)
ExtendClaim(w, m) ==
  /\ step[w][m] = "running"
  /\ Owns(w, m) /\ m \notin Terminal
  /\ \E time \in AppClock :
       /\ claimedUntil[m] > time
       /\ claimedUntil' = [claimedUntil EXCEPT ![m] = Later(@, time + SendClaim)]
  /\ UNCHANGED <<clock, rows, processAfter, claimedBy, failedCount, completed, cancelled,
                 dlq, workVars, logVars>>

(* The handler returns, throws, or is denied AI spend. *)
Succeed(w, m) ==
  /\ step[w][m] = "running"
  /\ To(w, m, "ran")
  /\ done' = done \cup {m}
  /\ redone' = IF m \in done THEN redone \cup {m} ELSE redone
  /\ UNCHANGED <<clock, rowVars, attempt, sent, stolen, throws, disturbed>>

(* The ghost count of failed attempts stops just above maxRetries. *)
CountThrow(m) ==
  throws' = [throws EXCEPT ![m] = IF @ <= MaxRetries THEN @ + 1 ELSE @]

Throw(w, m) ==
  /\ step[w][m] = "running"
  /\ m \in Failing
  /\ To(w, m, "threw")
  /\ CountThrow(m)
  /\ UNCHANGED <<clock, rowVars, attempt, sent, stolen, done, redone, disturbed>>

Deny(w, m) ==
  /\ step[w][m] = "running"
  /\ m \in Denied
  /\ To(w, m, "denied")
  /\ UNCHANGED <<clock, rowVars, attempt, logVars>>

(* What every outcome writes besides its own columns. *)
Release(m, time) ==
  /\ claimedBy' = [claimedBy EXCEPT ![m] = None]
  /\ claimedUntil' = [claimedUntil EXCEPT ![m] = None]
  /\ processAfter' = [processAfter EXCEPT ![m] = time]

(* Mutant: complete() releases the claim and forgets completed_at. *)
CompleteUnmarked(w, m) ==
  /\ step[w][m] = "ran"
  /\ Owns(w, m) /\ m \notin completed
  /\ Release(m, clock)
  /\ To(w, m, "gone")
  /\ UNCHANGED <<clock, rows, failedCount, completed, cancelled, dlq, attempt, logVars>>

(* complete() *)
Complete(w, m) ==
  /\ step[w][m] = "ran"
  /\ Owns(w, m) /\ m \notin completed
  /\ completed' = completed \cup {m}
  /\ Release(m, None)
  /\ To(w, m, "gone")
  /\ UNCHANGED <<clock, rows, failedCount, cancelled, dlq, attempt, logVars>>

(* complete() matched no row: it throws into the catch block, which treats *)
(* it like a failure of the handler.                                       *)
CompleteRefused(w, m) ==
  /\ step[w][m] = "ran"
  /\ ~(Owns(w, m) /\ m \notin completed)
  /\ To(w, m, "threw")
  /\ CountThrow(m)
  /\ UNCHANGED <<clock, rowVars, attempt, sent, stolen, done, redone, disturbed>>

(* Mutant: the attempt that has just failed is not counted. *)
ExhaustedLate(w, m) == attempt[w][m] >= MaxRetries

(* processMessage: newFailedCount >= maxRetries. *)
Exhausted(w, m) == attempt[w][m] + 1 >= MaxRetries

(* calculateBackoffMs *)
Backoffs(n) == (BaseBackoff * 2^(n - 1))..(BaseBackoff * 2^(n - 1) + BaseBackoff)

(* Mutant: fail() without failed_count + 1. *)
FailUncounted(w, m) ==
  /\ step[w][m] = "threw"
  /\ ~Exhausted(w, m)
  /\ Owns(w, m) /\ m \notin completed \cup dlq
  /\ \E time \in AppClock, delay \in Backoffs(attempt[w][m] + 1) : Release(m, time + delay)
  /\ To(w, m, "left")
  /\ UNCHANGED <<clock, rows, failedCount, completed, cancelled, dlq, attempt, logVars>>

(* retryMessage and fail() *)
Fail(w, m) ==
  /\ step[w][m] = "threw"
  /\ ~Exhausted(w, m)
  /\ Owns(w, m) /\ m \notin completed \cup dlq
  /\ failedCount' = [failedCount EXCEPT ![m] = @ + 1]
  /\ \E time \in AppClock, delay \in Backoffs(attempt[w][m] + 1) : Release(m, time + delay)
  /\ To(w, m, "left")
  /\ UNCHANGED <<clock, rows, completed, cancelled, dlq, attempt, logVars>>

(* moveMessageToDlq and failDlq(); a hook runs in the same transaction. *)
FailDlq(w, m) ==
  /\ step[w][m] = "threw"
  /\ Exhausted(w, m)
  /\ Owns(w, m) /\ m \notin completed \cup dlq
  /\ dlq' = dlq \cup {m}
  /\ Release(m, None)
  /\ To(w, m, "gone")
  /\ UNCHANGED <<clock, rows, failedCount, completed, cancelled, attempt, logVars>>

(* defer() *)
Defer(w, m) ==
  /\ step[w][m] = "denied"
  /\ Owns(w, m) /\ m \notin completed \cup dlq
  /\ \E time \in AppClock : Release(m, time + DeferDelay)
  /\ To(w, m, "left")
  /\ UNCHANGED <<clock, rows, failedCount, completed, cancelled, dlq, attempt, logVars>>

(* fail(), failDlq() or defer() matched no row: the error is swallowed. *)
ReportRefused(w, m) ==
  /\ step[w][m] \in {"threw", "denied"}
  /\ ~(Owns(w, m) /\ m \notin completed \cup dlq)
  /\ To(w, m, "left")
  /\ UNCHANGED <<clock, rowVars, attempt, logVars>>

(* The whole batch has been dealt with and the timer is stopped. *)
FinishBatch(w) ==
  /\ ~Idle(w)
  /\ \A m \in Messages : ~Active(w, m)
  /\ step' = [step EXCEPT ![w] = [m \in Messages |-> "none"]]
  /\ stolen' = [stolen EXCEPT ![w] = {}]
  /\ UNCHANGED <<clock, rowVars, attempt, sent, throws, done, redone, disturbed>>

(* The statement that reports an outcome is rejected: a failed complete()  *)
(* enters the catch block, a failure in the catch block is swallowed.      *)
Reject(w, m) ==
  /\ \/ step[w][m] = "ran" /\ To(w, m, "threw") /\ CountThrow(m)
     \/ step[w][m] \in {"threw", "denied"} /\ To(w, m, "left") /\ UNCHANGED throws
  /\ disturbed' = TRUE
  /\ UNCHANGED <<clock, rowVars, attempt, sent, stolen, done, redone>>

(* complete() took effect, but its answer was lost. *)
LoseAnswer(w, m) ==
  /\ step[w][m] = "ran"
  /\ Owns(w, m) /\ m \notin completed
  /\ completed' = completed \cup {m}
  /\ Release(m, None)
  /\ To(w, m, "threw")
  /\ CountThrow(m)
  /\ disturbed' = TRUE
  /\ UNCHANGED <<clock, rows, failedCount, cancelled, dlq, attempt, sent, stolen, done, redone>>

(* The process dies; a crash is counted nowhere. *)
Crash(w) ==
  /\ ~Idle(w)
  /\ step' = [step EXCEPT ![w] = [m \in Messages |-> "none"]]
  /\ stolen' = [stolen EXCEPT ![w] = {}]
  /\ disturbed' = TRUE
  /\ UNCHANGED <<clock, rowVars, attempt, sent, throws, done, redone>>

Init ==
  /\ clock = 0
  /\ rows = {}
  /\ processAfter = [m \in Messages |-> None]
  /\ claimedBy = [m \in Messages |-> None]
  /\ claimedUntil = [m \in Messages |-> None]
  /\ failedCount = [m \in Messages |-> 0]
  /\ completed = {} /\ cancelled = {} /\ dlq = {}
  /\ step = [w \in Workers |-> [m \in Messages |-> "none"]]
  /\ attempt = [w \in Workers |-> [m \in Messages |-> 0]]
  /\ sent = {}
  /\ stolen = [w \in Workers |-> {}]
  /\ throws = [m \in Messages |-> 0]
  /\ done = {} /\ redone = {}
  /\ disturbed = FALSE

(* One step of processMessage. *)
Process(w, m) ==
  \/ Start(w, m) \/ Succeed(w, m) \/ Throw(w, m) \/ Deny(w, m)
  \/ Complete(w, m) \/ CompleteRefused(w, m)
  \/ Fail(w, m) \/ FailDlq(w, m) \/ Defer(w, m) \/ ReportRefused(w, m)

Next ==
  \/ \E m \in Messages : Send(m) \/ Cancel(m) \/ Delete(m)
  \/ \E w \in Workers : Claim(w) \/ Renew(w) \/ FinishBatch(w) \/ Crash(w)
  \/ \E w \in Workers, m \in Messages :
       Process(w, m) \/ ExtendClaim(w, m) \/ Reject(w, m) \/ LoseAnswer(w, m)
  \/ Tick

Spec == Init /\ [][Next]_vars

(* A worker carries on with every message it has claimed, handlers return  *)
(* and throw in the end, the polling cycle claims for ever, time passes.   *)
(* Crashes and failing statements stop at some point.                      *)
FairSpec ==
  /\ Spec
  /\ \A w \in Workers : WF_vars(Claim(w)) /\ WF_vars(FinishBatch(w))
  /\ \A w \in Workers, m \in Messages : WF_vars(Process(w, m))
  /\ WF_vars(Tick)
  /\ <>[][\A w \in Workers : /\ ~Crash(w)
                            /\ \A m \in Messages : ~Reject(w, m) /\ ~LoseAnswer(w, m)]_vars

(***************************************************************************)
(* What the queue promises                                                 *)
(***************************************************************************)

(* Type correctness; failed_count never reaches maxRetries. *)
TypeOK ==
  /\ clock \in 0..MaxClock
  /\ rows \subseteq sent /\ sent \subseteq Messages
  /\ processAfter \in [Messages -> Int \cup {None}]
  /\ claimedBy \in [Messages -> Workers \cup {None}]
  /\ claimedUntil \in [Messages -> Int \cup {None}]
  /\ failedCount \in [Messages -> 0..(MaxRetries - 1)]
  /\ completed \subseteq sent /\ cancelled \subseteq sent /\ dlq \subseteq sent
  /\ step \in [Workers -> [Messages -> Steps]]
  /\ attempt \in [Workers -> [Messages -> 0..(MaxRetries - 1)]]
  /\ stolen \in [Workers -> SUBSET Messages]
  /\ throws \in [Messages -> 0..(MaxRetries + 1)]
  /\ done \subseteq Messages /\ redone \subseteq Messages
  /\ disturbed \in BOOLEAN

(* A worker that no later claim has displaced still holds the claim of     *)
(* every message it has in hand, on a row that is neither finished nor     *)
(* gone and whose failed_count is the one it was told: displaced workers,  *)
(* cancellations and retention never touch a row under its worker.  (Only  *)
(* a worker whose complete() took effect unnoticed goes on without one.)   *)
RunnerOwnsClaim ==
  \A w \in Workers, m \in Messages :
    Active(w, m) /\ m \notin stolen[w] =>
      \/ Owns(w, m) /\ m \notin Terminal /\ attempt[w][m] = failedCount[m]
      \/ step[w][m] = "threw" /\ m \in completed

(* As long as no claim has expired under its worker and no statement has   *)
(* failed, a message is handled once and ends up where its handler's       *)
(* outcome says: never in the dead letter queue after a success.           *)
OutcomeKept == ~disturbed => redone = {} /\ done \cap dlq = {}

(* A message is dead-lettered only after maxRetries attempts have failed,  *)
(* and gets no more attempts than that unless claims expired or statements *)
(* failed.                                                                 *)
RetryBudget ==
  \A m \in Messages :
    /\ m \in dlq => throws[m] >= MaxRetries
    /\ ~disturbed => throws[m] <= MaxRetries

(* Where a message stands, by the columns of its row. *)
StateOf(m) ==
  CASE m \notin sent    -> "unsent"
    [] m \in sent \ rows -> "deleted"
    [] m \in rows \cap completed -> "completed"
    [] m \in (rows \cap cancelled) \ completed -> "cancelled"
    [] m \in (rows \cap dlq) \ (completed \cup cancelled) -> "buried"
    [] m \in rows \ Terminal /\ claimedBy[m] # None -> "leased"
    [] m \in rows \ Terminal /\ claimedBy[m] = None -> "waiting"

L == INSTANCE JobLifecycle WITH Jobs <- Messages, MaxFailures <- MaxRetries,
       state <- [m \in Messages |-> StateOf(m)], failures <- failedCount

(* The queue implements the lifecycle: whatever workers overtake each      *)
(* other, die or lose answers, every lease of a message yields at most one *)
(* outcome, and the decision between retry and dead letter, taken from the *)
(* count the claim returned, is the one the row's own count calls for.     *)
ImplementsLifecycle == L!Lifecycle

(* What cancelById's comment says: it cancels "a pending queue message"    *)
(* and returns false for one that has been finished with; a dead letter    *)
(* stays a dead letter.                                                    *)
CancelledWasPending == cancelled \cap dlq = {}

(* The next attempt at a message, or the end of an abandoned claim, lies   *)
(* beyond the last instant of the bounded clock.                           *)
OutOfTime(m) ==
  \/ processAfter[m] # None /\ processAfter[m] > MaxClock + Skew
  \/ claimedUntil[m] # None /\ claimedUntil[m] >= MaxClock + Skew

(* Every message that is sent is eventually completed, cancelled or        *)
(* dead-lettered, whichever workers died holding it.                       *)
EventuallySettled ==
  \A m \in Messages : [](m \in rows => <>(m \in Terminal \/ []OutOfTime(m)))
=============================================================================
