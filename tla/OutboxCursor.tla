---------------------------- MODULE OutboxCursor ----------------------------
(***************************************************************************)
(* One outbox listener: CursorLock.run() of                                *)
(* packages/backend-common/src/outbox/cursor-lock.ts with the processor    *)
(* that DebouncedOutboxHandler (apps/backend/src/lib/outbox) hands to it.  *)
(*                                                                         *)
(* Producers are database transactions.  An INSERT takes the next id from  *)
(* a sequence at once, but the row is visible only from COMMIT on, so ids  *)
(* become visible out of order and a rollback leaves a hole for ever.      *)
(* Several server processes compete for the listener row through a lock    *)
(* that expires; the holder fetches batches of rows above its cursor,      *)
(* hands each to the handler and persists cursor and window.               *)
(*                                                                         *)
(* Every SQL statement is one action.  A process may crash between any two *)
(* of them, and any of them may be rejected.                               *)
(***************************************************************************)
EXTENDS CursorCompaction

CONSTANTS
  Procs,        \* server processes that run this listener's handler
  Txns,         \* database sessions that write outbox rows
  Poison,       \* ids whose handler may throw
  BatchSize,    \* batchSize
  GapWindow,    \* gapWindowMs
  GapCeiling,   \* gapCeilingMs
  SkewPad,      \* CLOCK_SKEW_PAD_MS
  Skew,         \* how far a process clock may be from the database clock
  LockDuration, \* lockDurationMs
  DriftPad,     \* clockDriftPadMs
  MaxRetries,   \* maxRetries
  BaseBackoff,  \* baseBackoffMs
  MaxClock      \* bound: the last instant of the database clock

ASSUME ProcsAssumption == None \notin Procs
ASSUME BoundsAssumption == MaxClock \in Nat
ASSUME TimesAssumption ==
  /\ GapWindow \in Nat /\ GapCeiling \in Nat /\ SkewPad \in Nat
  /\ LockDuration \in Nat /\ DriftPad \in Nat /\ BaseBackoff \in Nat
ASSUME CountsAssumption == BatchSize \in Nat \ {0} /\ MaxRetries \in Nat
(* The pad the code allows for covers the skew there really is. *)
ASSUME SkewAssumption == Skew \in Nat /\ Skew <= SkewPad

VARIABLES
  clock,   \* the database clock
  nextId,  \* the next value of the outbox id sequence
  txn,     \* the writing sessions
  outbox,  \* ids of the visible outbox rows
  purged,  \* ids of the rows that retention has deleted
  stored,  \* outbox_listeners: last_processed_id and processed_ids
  retry,   \* outbox_listeners: retry_count and retry_after
  lock,    \* outbox_listeners: locked_until and lock_run_id
  pc,      \* the step of run() that each process is about to take
  now,     \* the time it read last
  local,   \* its local variables cursor and processedIdsMap
  batch,   \* fetched events it has not yet handled
  seen,    \* events of the batch it has handled
  tries,   \* the retry count it is about to write
  delivered, redelivered, \* ids the handler has completed, and completed again
  threw,   \* ids the handler has thrown on
  dead,    \* ids in outbox_dead_letters
  alarmed, \* ids the log names as skipped by the gap ceiling
  dlqSkip, \* ids the cursor moved over while dead-lettering
  overtaken, \* ids that became visible after a higher id had been fetched
  disturbed  \* a crash, a rejected statement or a lock theft has happened

dbVars == <<clock, nextId, txn, outbox, purged>>
rowVars == <<stored, retry, lock>>
procVars == <<pc, now, local, batch, seen, tries>>
logVars == <<delivered, redelivered, threw, dead, alarmed, dlqSkip, overtaken>>
vars == <<dbVars, rowVars, procVars, logVars, disturbed>>

(* What a process clock may show at this instant. *)
AppClock == (clock - Skew)..(clock + Skew)

(***************************************************************************)
(* Writers                                                                 *)
(***************************************************************************)

IdleTxn == [state |-> "idle", start |-> 0, ids |-> {}]
RunningTxns == {t \in Txns : txn[t].state = "running"}
Committed == outbox \cup purged
InHand == UNION {batch[p] : p \in Procs}

Begin(t) ==
  /\ t \notin RunningTxns
  /\ txn' = [txn EXCEPT ![t] = [state |-> "running", start |-> clock, ids |-> {}]]
  /\ UNCHANGED <<clock, nextId, outbox, purged, rowVars, procVars, logVars, disturbed>>

(* OutboxRepository.insert: the id is taken now, the row stays invisible. *)
Insert(t) ==
  /\ t \in RunningTxns
  /\ nextId <= MaxId
  /\ txn' = [txn EXCEPT ![t] = [state |-> "running", start |-> txn[t].start,
                                ids |-> txn[t].ids \cup {nextId}]]
  /\ nextId' = nextId + 1
  /\ UNCHANGED <<clock, outbox, purged, rowVars, procVars, logVars, disturbed>>

Commit(t) ==
  /\ t \in RunningTxns
  /\ outbox' = outbox \cup txn[t].ids
  /\ txn' = [txn EXCEPT ![t] = IdleTxn]
  /\ overtaken' = overtaken \cup
       {i \in txn[t].ids : \E j \in delivered \cup dead \cup InHand : j > i}
  /\ UNCHANGED <<clock, nextId, purged, rowVars, procVars, delivered, redelivered,
                 threw, dead, alarmed, dlqSkip, disturbed>>

Rollback(t) ==
  /\ t \in RunningTxns
  /\ txn' = [txn EXCEPT ![t] = IdleTxn]
  /\ UNCHANGED <<clock, nextId, outbox, purged, rowVars, procVars, logVars, disturbed>>

(* OutboxRetentionWorker: deletes old rows at or below the lowest cursor.  *)
(* Age, and the cursors of other listeners, decide which of them.          *)
Purge(i) ==
  /\ i \in outbox
  /\ i <= stored.cursor
  /\ outbox' = outbox \ {i}
  /\ purged' = purged \cup {i}
  /\ UNCHANGED <<clock, nextId, txn, rowVars, procVars, logVars, disturbed>>

Tick ==
  /\ clock < MaxClock
  /\ clock' = clock + 1
  /\ UNCHANGED <<nextId, txn, outbox, purged, rowVars, procVars, logVars, disturbed>>

(***************************************************************************)
(* CursorLock.run                                                          *)
(***************************************************************************)

AtStart == [cursor |-> 0, window |-> NoEntries]
NoRetry == [count |-> 0, after |-> None]
Unlocked == [until |-> None, holder |-> None]

(* A process between a successful claim and the end of releaseLock. *)
Working(p) == pc[p] \notin {"idle", "claim"}

Goto(p, step) == pc' = [pc EXCEPT ![p] = step]

(* Leaving run(), or a part of it, drops the local variables. *)
Forget(p) ==
  /\ local' = [local EXCEPT ![p] = AtStart]
  /\ batch' = [batch EXCEPT ![p] = {}]
  /\ seen' = [seen EXCEPT ![p] = {}]
  /\ now' = [now EXCEPT ![p] = 0]
  /\ tries' = [tries EXCEPT ![p] = 0]

(* isReadyToProcess, on the time run() read first. *)
Start(p) ==
  /\ pc[p] = "idle"
  /\ \E time \in AppClock :
       /\ retry.after # None => time >= retry.after
       /\ now' = [now EXCEPT ![p] = time]
  /\ Goto(p, "claim")
  /\ UNCHANGED <<dbVars, rowVars, local, batch, seen, tries, logVars, disturbed>>

(* tryClaimLock: free, expired, or within DriftPad of expiring. *)
Claim(p) ==
  /\ pc[p] = "claim"
  /\ lock.until # None => lock.until < now[p] + DriftPad
  /\ lock' = [until |-> now[p] + LockDuration, holder |-> p]
  /\ Goto(p, "fetch")
  /\ local' = [local EXCEPT ![p] = stored]
  /\ now' = [now EXCEPT ![p] = 0]
  /\ disturbed' = (disturbed \/ \E q \in Procs \ {p} : Working(q))
  /\ UNCHANGED <<dbVars, stored, retry, batch, seen, tries, logVars>>

ClaimRefused(p) ==
  /\ pc[p] = "claim"
  /\ lock.until # None /\ lock.until >= now[p] + DriftPad
  /\ Goto(p, "idle")
  /\ Forget(p)
  /\ UNCHANGED <<dbVars, rowVars, logVars, disturbed>>

(* refreshLock, from a timer, at any time while the run lasts. *)
Refresh(p) ==
  /\ Working(p)
  /\ lock.holder = p
  /\ \E time \in AppClock : lock' = [until |-> time + LockDuration, holder |-> p]
  /\ UNCHANGED <<dbVars, stored, retry, procVars, logVars, disturbed>>

(* Mutant: the excludeIds condition is forgotten. *)
FetchableWithWindow(p) == {i \in outbox : i > local[p].cursor}

(* fetchAfterId: visible rows above the cursor and outside the window. *)
Fetchable(p) == {i \in outbox : i > local[p].cursor /\ i \notin Tracked(local[p].window)}

(* ORDER BY id LIMIT n *)
FirstOf(S, n) == {i \in S : Cardinality({j \in S : j < i}) < n}

Fetch(p) ==
  /\ pc[p] = "fetch"
  /\ Fetchable(p) # {}
  /\ Goto(p, "process")
  /\ batch' = [batch EXCEPT ![p] = FirstOf(Fetchable(p), BatchSize)]
  /\ UNCHANGED <<dbVars, rowVars, now, local, seen, tries, logVars, disturbed>>

NoEvents(p) ==
  /\ pc[p] = "fetch"
  /\ Fetchable(p) = {}
  /\ Goto(p, "reset")
  /\ UNCHANGED <<dbVars, rowVars, now, local, batch, seen, tries, logVars, disturbed>>

ResetRetryState(p) ==
  /\ pc[p] = "reset"
  /\ retry' = NoRetry
  /\ Goto(p, "release")
  /\ UNCHANGED <<dbVars, stored, lock, now, local, batch, seen, tries, logVars, disturbed>>

IsNext(p, i) == i \in batch[p] /\ \A j \in batch[p] : i <= j

(* processBatch: the handler completes the next event of the batch. *)
Handle(p, i) ==
  /\ pc[p] = "process"
  /\ IsNext(p, i)
  /\ delivered' = delivered \cup {i}
  /\ redelivered' = IF i \in delivered THEN redelivered \cup {i} ELSE redelivered
  /\ batch' = [batch EXCEPT ![p] = @ \ {i}]
  /\ seen' = [seen EXCEPT ![p] = @ \cup {i}]
  /\ Goto(p, IF batch[p] = {i} THEN "compact" ELSE "process")
  /\ UNCHANGED <<dbVars, rowVars, now, local, tries, threw, dead, alarmed, dlqSkip,
                 overtaken, disturbed>>

(* Mutant: the event that threw is counted as processed. *)
ThrowCounted(p, i) ==
  /\ pc[p] = "process"
  /\ IsNext(p, i)
  /\ i \in Poison
  /\ threw' = threw \cup {i}
  /\ batch' = [batch EXCEPT ![p] = @ \ {i}]
  /\ seen' = [seen EXCEPT ![p] = @ \cup {i}]
  /\ Goto(p, "compact")
  /\ UNCHANGED <<dbVars, rowVars, now, local, tries, delivered, redelivered,
                 dead, alarmed, dlqSkip, overtaken, disturbed>>

(* processBatch: the handler throws, which ends the batch; the event and   *)
(* those after it stay in the batch, which marks the result as an error.   *)
Throw(p, i) ==
  /\ pc[p] = "process"
  /\ IsNext(p, i)
  /\ i \in Poison
  /\ threw' = threw \cup {i}
  /\ Goto(p, IF seen[p] = {} THEN "recordError" ELSE "compact")
  /\ UNCHANGED <<dbVars, rowVars, now, local, batch, seen, tries, delivered, redelivered,
                 dead, alarmed, dlqSkip, overtaken, disturbed>>

(* The batch is folded into cursor and window, which are persisted next. *)
Compacted(p, c) ==
  /\ Goto(p, "persist")
  /\ local' = [local EXCEPT ![p] = c]
  /\ seen' = [seen EXCEPT ![p] = {}]
  /\ now' = [now EXCEPT ![p] = 0]

HasGap(p) == HasUnfilledGaps(local[p].cursor, Tracked(local[p].window) \cup seen[p])

(* compactWithGapGuard: no gap, so age alone decides. *)
Compact(p) ==
  /\ pc[p] = "compact"
  /\ ~HasGap(p)
  /\ \E time \in AppClock :
       Compacted(p, CompactByAge(local[p].cursor, Merge(local[p].window, seen[p], time),
                                 time, GapWindow))
  /\ UNCHANGED <<dbVars, rowVars, batch, tries, logVars, disturbed>>

(* compactWithGapGuard: a gap, so the oldest transaction must be looked up;*)
(* the time was read before that query.                                    *)
GapFound(p) ==
  /\ pc[p] = "compact"
  /\ HasGap(p)
  /\ \E time \in AppClock : now' = [now EXCEPT ![p] = time]
  /\ Goto(p, "liveness")
  /\ UNCHANGED <<dbVars, rowVars, local, batch, seen, tries, logVars, disturbed>>

(* Mutant: sessions that are idle in their transaction are not counted. *)
OldestStatementStart == clock

(* fetchOldestRunningTxnStart: MIN(xact_start); the transaction of this    *)
(* query is itself listed, so there is always one.                         *)
OldestRunningTxnStart == Min({clock} \cup {txn[t].start : t \in RunningTxns})

(* compactWithGapGuard, after the query.  What only the ceiling allowed is *)
(* logged as an error.                                                     *)
CompactWithGapGuard(p) ==
  LET merged  == Merge(local[p].window, seen[p], now[p])
      guarded == CompactGuarded(local[p].cursor, merged, now[p], GapWindow,
                                OldestRunningTxnStart, SkewPad, GapCeiling)
      held    == CompactProven(local[p].cursor, merged, now[p], GapWindow,
                               OldestRunningTxnStart, SkewPad)
  IN  /\ pc[p] = "liveness"
      /\ Compacted(p, guarded)
      /\ alarmed' = alarmed \cup ((held.cursor + 1)..guarded.cursor)
      /\ UNCHANGED <<dbVars, rowVars, batch, tries, delivered, redelivered, threw, dead,
                     dlqSkip, overtaken, disturbed>>

(* What is written to the row is not fenced by the lock: GREATEST keeps    *)
(* the cursor from moving back, the window is overwritten.                 *)
Store(c) == stored' = [cursor |-> Max({stored.cursor, c.cursor}), window |-> c.window]

PersistProcessedState(p) ==
  /\ pc[p] = "persist"
  /\ Store(local[p])
  /\ retry' = NoRetry
  /\ Goto(p, IF batch[p] # {} THEN "recordError" ELSE "fetch")
  /\ UNCHANGED <<dbVars, lock, now, local, batch, seen, tries, logVars, disturbed>>

(* Mutant: the number of retries is not checked. *)
ReadRetryCountUnbounded(p) ==
  /\ pc[p] = "recordError"
  /\ Goto(p, "backoff")
  /\ \E time \in AppClock : now' = [now EXCEPT ![p] = time]
  /\ tries' = [tries EXCEPT ![p] = retry.count + 1]
  /\ UNCHANGED <<dbVars, rowVars, local, batch, seen, logVars, disturbed>>

(* recordError, the SELECT: one more failure than the row knows of. *)
ReadRetryCount(p) ==
  /\ pc[p] = "recordError"
  /\ retry.count + 1 <= MaxRetries
  /\ Goto(p, "backoff")
  /\ \E time \in AppClock : now' = [now EXCEPT ![p] = time]
  /\ tries' = [tries EXCEPT ![p] = retry.count + 1]
  /\ UNCHANGED <<dbVars, rowVars, local, batch, seen, logVars, disturbed>>

RetriesExhausted(p) ==
  /\ pc[p] = "recordError"
  /\ retry.count + 1 > MaxRetries
  /\ Goto(p, "dlqFetch")
  /\ UNCHANGED <<dbVars, rowVars, now, local, batch, seen, tries, logVars, disturbed>>

(* calculateBackoffMs: exponential with a jitter of up to one base; its    *)
(* cap of five minutes is out of reach of any maxRetries in use.           *)
Backoffs(n) == (BaseBackoff * 2^(n - 1))..(BaseBackoff * 2^(n - 1) + BaseBackoff)

(* recordError, the UPDATE. *)
RecordError(p) ==
  /\ pc[p] = "backoff"
  /\ \E delay \in Backoffs(tries[p]) :
       retry' = [count |-> tries[p], after |-> now[p] + delay]
  /\ Goto(p, "release")
  /\ UNCHANGED <<dbVars, stored, lock, now, local, batch, seen, tries, logVars, disturbed>>

(* Mutant: a whole batch is fetched for the dead letter table. *)
FetchVictims(p) ==
  /\ pc[p] = "dlqFetch"
  /\ Goto(p, IF Fetchable(p) = {} THEN "release" ELSE "dlqInsert")
  /\ batch' = [batch EXCEPT ![p] = FirstOf(Fetchable(p), BatchSize)]
  /\ UNCHANGED <<dbVars, rowVars, now, local, seen, tries, logVars, disturbed>>

(* moveFirstEventToDLQ: fetch, INSERT, UPDATE. *)
FetchVictim(p) ==
  /\ pc[p] = "dlqFetch"
  /\ Goto(p, IF Fetchable(p) = {} THEN "release" ELSE "dlqInsert")
  /\ batch' = [batch EXCEPT ![p] = FirstOf(Fetchable(p), 1)]
  /\ UNCHANGED <<dbVars, rowVars, now, local, seen, tries, logVars, disturbed>>

InsertDeadLetter(p) ==
  /\ pc[p] = "dlqInsert"
  /\ dead' = dead \cup batch[p]
  /\ Goto(p, "dlqAdvance")
  /\ UNCHANGED <<dbVars, rowVars, now, local, batch, seen, tries, delivered, redelivered,
                 threw, alarmed, dlqSkip, overtaken, disturbed>>

(* Mutant: the cursor stays in front of the dead letter. *)
StayAtDeadLetter(p) ==
  /\ pc[p] = "dlqAdvance"
  /\ retry' = NoRetry
  /\ Goto(p, "release")
  /\ UNCHANGED <<dbVars, stored, lock, now, local, batch, seen, tries, logVars, disturbed>>

(* Mutant: the UPDATE counts on from the row, where another holder may have *)
(* dead-lettered the same event meanwhile.                                  *)
AdvanceByOne(p) ==
  /\ pc[p] = "dlqAdvance"
  /\ Store([cursor |-> Min({stored.cursor + 1, MaxId}), window |-> local[p].window])
  /\ retry' = NoRetry
  /\ Goto(p, "release")
  /\ UNCHANGED <<dbVars, lock, now, local, batch, seen, tries, logVars, disturbed>>

(* Every entry is stamped afresh and a window of 0 expires all of them. *)
AdvancePastDeadLetter(p) ==
  LET stamped == Merge(NoEntries, Tracked(local[p].window) \cup batch[p], 0)
      c == CompactByAge(local[p].cursor, stamped, 0, 0)
  IN  /\ pc[p] = "dlqAdvance"
      /\ Store(c)
      /\ retry' = NoRetry
      /\ dlqSkip' = dlqSkip \cup ((local[p].cursor + 1)..c.cursor)
      /\ Goto(p, "release")
      /\ UNCHANGED <<dbVars, lock, now, local, batch, seen, tries, delivered, redelivered,
                     threw, dead, alarmed, overtaken, disturbed>>

(* releaseLock, fenced by lock_run_id. *)
ReleaseLock(p) ==
  /\ pc[p] = "release"
  /\ lock' = IF lock.holder = p THEN Unlocked ELSE lock
  /\ Goto(p, "idle")
  /\ Forget(p)
  /\ UNCHANGED <<dbVars, stored, retry, logVars, disturbed>>

(* A statement is rejected: run() throws, its finally block still releases *)
(* the lock.  A statement that took effect but whose answer was lost is    *)
(* the same as its action followed by this one.                            *)
Reject(p) ==
  /\ Working(p)
  /\ pc[p] # "process"
  /\ Goto(p, IF pc[p] = "release" THEN "idle" ELSE "release")
  /\ Forget(p)
  /\ disturbed' = TRUE
  /\ UNCHANGED <<dbVars, rowVars, logVars>>

Crash(p) ==
  /\ pc[p] # "idle"
  /\ Goto(p, "idle")
  /\ Forget(p)
  /\ disturbed' = TRUE
  /\ UNCHANGED <<dbVars, rowVars, logVars>>

Init ==
  /\ clock = 0
  /\ nextId = 1
  /\ txn = [t \in Txns |-> IdleTxn]
  /\ outbox = {} /\ purged = {}
  /\ stored = AtStart /\ retry = NoRetry /\ lock = Unlocked
  /\ pc = [p \in Procs |-> "idle"]
  /\ now = [p \in Procs |-> 0]
  /\ local = [p \in Procs |-> AtStart]
  /\ batch = [p \in Procs |-> {}]
  /\ seen = [p \in Procs |-> {}]
  /\ tries = [p \in Procs |-> 0]
  /\ delivered = {} /\ redelivered = {} /\ threw = {} /\ dead = {}
  /\ alarmed = {} /\ dlqSkip = {} /\ overtaken = {}
  /\ disturbed = FALSE

(* One statement of run(), or the handler, in process p. *)
Work(p) ==
  \/ Claim(p) \/ ClaimRefused(p)
  \/ Fetch(p) \/ NoEvents(p) \/ ResetRetryState(p)
  \/ \E i \in Ids : Handle(p, i) \/ Throw(p, i)
  \/ Compact(p) \/ GapFound(p) \/ CompactWithGapGuard(p) \/ PersistProcessedState(p)
  \/ ReadRetryCount(p) \/ RetriesExhausted(p) \/ RecordError(p)
  \/ FetchVictim(p) \/ InsertDeadLetter(p) \/ AdvancePastDeadLetter(p)
  \/ ReleaseLock(p)

Write(t) == Begin(t) \/ Insert(t) \/ Commit(t) \/ Rollback(t)

Next ==
  \/ \E t \in Txns : Write(t)
  \/ \E i \in Ids : Purge(i)
  \/ \E p \in Procs : Start(p) \/ Work(p) \/ Refresh(p) \/ Reject(p) \/ Crash(p)
  \/ Tick

Spec == Init /\ [][Next]_vars

(* A process keeps executing the statements of a run it has begun; the     *)
(* dispatcher's fallback poll starts runs for ever; time passes.  Crashes  *)
(* and rejected statements stop at some point.                             *)
FairSpec ==
  /\ Spec
  /\ \A p \in Procs : WF_vars(Start(p)) /\ WF_vars(Work(p))
  /\ WF_vars(Tick)
  /\ <>[][\A p \in Procs : ~Reject(p) /\ ~Crash(p)]_vars

(***************************************************************************)
(* What the listener promises                                              *)
(***************************************************************************)

(* The steps of run(). *)
Steps == {"idle", "claim", "fetch", "reset", "process", "compact", "liveness", "persist",
          "recordError", "backoff", "dlqFetch", "dlqInsert", "dlqAdvance", "release"}

TxnType == [state : {"idle", "running"}, start : Nat, ids : SUBSET Ids]

(* Type correctness; no process ever writes a retry_count above maxRetries. *)
TypeOK ==
  /\ clock \in 0..MaxClock
  /\ nextId \in 1..(MaxId + 1)
  /\ txn \in [Txns -> TxnType]
  /\ outbox \subseteq Ids /\ purged \subseteq Ids
  /\ stored \in CompactState
  /\ retry \in [count : 0..MaxRetries, after : Int \cup {None}]
  /\ lock \in [until : Int \cup {None}, holder : Procs \cup {None}]
  /\ pc \in [Procs -> Steps]
  /\ now \in [Procs -> Int]
  /\ local \in [Procs -> CompactState]
  /\ batch \in [Procs -> SUBSET Ids]
  /\ seen \in [Procs -> SUBSET Ids]
  /\ tries \in [Procs -> 0..MaxRetries]
  /\ delivered \subseteq Ids /\ redelivered \subseteq Ids /\ threw \subseteq Ids
  /\ dead \subseteq Ids /\ alarmed \subseteq Ids /\ dlqSkip \subseteq Ids
  /\ overtaken \subseteq Ids
  /\ disturbed \in BOOLEAN

(* The liveness proof of compactWithGapGuard is sound: the persisted       *)
(* cursor never stands above the id of a transaction that is still running *)
(* and may yet commit a row there, except where the gap ceiling forced it  *)
(* (logged as an error) or a dead letter moved it.                         *)
GapGuardSound ==
  \A t \in RunningTxns : \A i \in txn[t].ids :
    i <= stored.cursor => i \in alarmed \cup dlqSkip

(* No event that became visible in id order is lost, whatever crashes,     *)
(* lock thefts, rejected statements and dead letters happen: a committed   *)
(* event that the cursor has passed was handled or dead-lettered, unless   *)
(* it became visible only after a higher id had already been fetched.      *)
InOrderNeverLost ==
  \A i \in Committed :
    i <= stored.cursor => i \in delivered \cup dead \cup overtaken

(* What the comment on compactWithGapGuard claims: the ceiling, which is   *)
(* logged, "is the one path that can still lose an event": whatever else   *)
(* the cursor has passed was handled or dead-lettered.                     *)
OnlyCeilingLoses ==
  \A i \in Committed :
    i <= stored.cursor => i \in delivered \cup dead \cup alarmed

(* What the comment on processEvent claims: when an event throws, "the     *)
(* events already processed are persisted, this one and the rest are       *)
(* retried": the cursor never passes an event that threw unless a later    *)
(* attempt handled it or it was dead-lettered.                             *)
ThrownIsRetried ==
  \A i \in threw : i <= stored.cursor => i \in delivered \cup dead

(* run() hands an event to the handler again only after a crash, a         *)
(* rejected statement or an expired lock: window, cursor and fetch agree.  *)
OncePerEventUndisturbed == redelivered # {} => disturbed

(* Without such a disturbance moveFirstEventToDLQ, which fetches anew      *)
(* rather than being told which event failed, dead-letters one that threw  *)
(* or one that slipped in below it meanwhile.  That takes at least one     *)
(* retry: a batch that got something done resets the count, so the batch   *)
(* that exhausts it threw on its first event.                              *)
DeadLetterThrew == ~disturbed => dead \subseteq threw \cup overtaken

(* The retry time or an abandoned lock lies beyond the last instant of the *)
(* bounded clock.                                                          *)
OutOfTime ==
  \/ retry.after # None /\ retry.after > MaxClock + Skew
  \/ lock.until # None /\ lock.until >= MaxClock + Skew + DriftPad

(* Every visible event is eventually accounted for in the listener row, by *)
(* the cursor or in the window, whatever poison is in front of it and      *)
(* whoever held the lock before: no livelock of retries, no listener that  *)
(* stays locked.  Only the end of the bounded clock excuses it.            *)
EventuallyAccounted ==
  \A i \in Ids :
    [](i \in outbox => <>(\/ i <= stored.cursor \/ i \in Tracked(stored.window)
                         \/ []OutOfTime))
=============================================================================
