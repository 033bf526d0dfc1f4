------------------------- MODULE OutboxCursorProofs -------------------------
(***************************************************************************)
(* Theorems about OutboxCursor for any number of processes and writers and *)
(* for every value of the tunables.                                        *)
(***************************************************************************)
EXTENDS OutboxCursor, FiniteSetTheorems, WellFoundedInduction, TLAPS

-----------------------------------------------------------------------------
(* What compact() guarantees about the cursor it returns, for every window   *)
(* and every choice of expired entries.                                      *)

(* A non-empty set of naturals has a least element, and Min is it. *)
LEMMA MinNat ==
  ASSUME NEW S \in SUBSET Nat, S # {}
  PROVE  Min(S) \in S /\ \A y \in S : Min(S) <= y
<1>1. PICK x \in S : \A y \in S : <<y, x>> \notin OpToRel(<, Nat)
  BY NatLessThanWellFounded, WFMin
<1>2. \A y \in S : x <= y
  <2> SUFFICES ASSUME NEW y \in S PROVE ~(y < x)
    OBVIOUS
  <2> QED BY <1>1 DEF OpToRel
<1> QED BY <1>2 DEF Min

(* A non-empty set of numbers up to a bound has a largest one, and Max is it. *)
LEMMA MaxBounded ==
  ASSUME NEW B \in Nat, NEW S \in SUBSET (0..B), S # {}
  PROVE  Max(S) \in S /\ \A y \in S : Max(S) >= y
<1> DEFINE T == {B - x : x \in S}
<1>1. T \in SUBSET Nat /\ T # {}
  <2>1. \A x \in S : B - x \in Nat
    OBVIOUS
  <2>2. T \in SUBSET Nat
    BY <2>1
  <2>3. PICK x \in S : TRUE
    OBVIOUS
  <2>4. B - x \in T
    BY <2>3
  <2> QED BY <2>2, <2>4
<1>2. PICK x \in S : Min(T) = B - x
  BY <1>1, MinNat
<1>3. \A y \in S : x >= y
  <2> SUFFICES ASSUME NEW y \in S PROVE x >= y
    OBVIOUS
  <2>1. B - y \in T
    OBVIOUS
  <2>2. Min(T) <= B - y
    BY <2>1, <1>1, MinNat
  <2> QED BY <2>2, <1>2
<1> QED BY <1>3 DEF Max

(* Where the walk of step 5 ends: at or above its base, with every id on   *)
(* the way among the ids it walks through.                                 *)
LEMMA ContiguousEndIsReached ==
  ASSUME NEW base \in 0..MaxId, NEW S \in SUBSET Ids
  PROVE  LET end == ContiguousEnd(base, S)
         IN  /\ end \in 0..MaxId /\ end >= base
             /\ end \in S \cup {base}
             /\ (base + 1)..end \subseteq S
<1> DEFINE C == {n \in S \cup {base} : n >= base /\ (base + 1)..n \subseteq S}
<1>1. base \in C
  BY MaxIdAssumption
<1>2. C \in SUBSET (0..MaxId)
  <2>1. C \subseteq S \cup {base}
    OBVIOUS
  <2> HIDE DEF C
  <2> QED BY <2>1, MaxIdAssumption DEF Ids
<1>3. Max(C) \in C
  <2> HIDE DEF C
  <2> QED BY <1>1, <1>2, MaxBounded, MaxIdAssumption
<1> QED BY <1>2, <1>3 DEF ContiguousEnd

(* compact() in one statement: the cursor never moves back; it ends at     *)
(* itself or at a tracked id; every id it passes is tracked or lies below  *)
(* an expired entry; and no entry appears or changes its time.             *)
LEMMA AdvanceIsJustified ==
  ASSUME NEW cursor \in 0..MaxId,
         NEW window \in Windows,
         NEW expired \in SUBSET Tracked(window)
  PROVE  LET c == Advance(cursor, window, expired)
         IN  /\ c.cursor \in 0..MaxId /\ c.cursor >= cursor
             /\ c.cursor \in Tracked(window) \cup {cursor}
             /\ c.window \in Windows
             /\ \A i \in Ids : c.window[i] = IF i > c.cursor THEN window[i] ELSE None
             /\ \A i \in Ids : cursor < i /\ i <= c.cursor =>
                   i \in Tracked(window) \/ \E j \in expired : i < j
             /\ \A j \in expired : c.cursor >= j
<1> DEFINE newBase == Max({cursor} \cup expired)
           above == {i \in Tracked(window) : i > newBase}
           end == ContiguousEnd(newBase, above)
<1>1. Tracked(window) \subseteq Ids
  BY DEF Tracked
<1>2. newBase \in {cursor} \cup expired /\ \A y \in {cursor} \cup expired : newBase >= y
  <2>1. {cursor} \cup expired \in SUBSET (0..MaxId)
    BY <1>1, MaxIdAssumption DEF Ids
  <2> QED BY <2>1, MaxBounded, MaxIdAssumption
<1>3. newBase \in 0..MaxId /\ newBase >= cursor
  <2> HIDE DEF newBase
  <2>1. \A y \in {cursor} \cup expired : y \in 0..MaxId
    BY <1>1, MaxIdAssumption DEF Ids
  <2> QED BY <1>2, <2>1
<1>4. above \in SUBSET Ids
  BY <1>1
<1> HIDE DEF newBase
<1>5. /\ end \in 0..MaxId /\ end >= newBase
      /\ end \in above \cup {newBase}
      /\ (newBase + 1)..end \subseteq above
  BY <1>3, <1>4, ContiguousEndIsReached
<1>6. Advance(cursor, window, expired) =
        [cursor |-> end, window |-> [i \in Ids |-> IF i > end THEN window[i] ELSE None]]
  BY DEF Advance, newBase
<1> HIDE DEF end
<1>7. \A i \in Ids : cursor < i /\ i <= end =>
        i \in Tracked(window) \/ \E j \in expired : i < j
  <2> SUFFICES ASSUME NEW i \in Ids, cursor < i, i <= end
               PROVE  i \in Tracked(window) \/ \E j \in expired : i < j
    OBVIOUS
  <2>1. CASE i > newBase
    <3>1. i \in (newBase + 1)..end
      BY <2>1, <1>3, <1>5, MaxIdAssumption DEF Ids
    <3> QED BY <3>1, <1>5
  <2>2. CASE i = newBase
    BY <2>2, <1>2, <1>3, MaxIdAssumption DEF Ids
  <2>3. CASE i < newBase
    BY <2>3, <1>2, <1>3, MaxIdAssumption DEF Ids
  <2> QED BY <2>1, <2>2, <2>3, <1>3, MaxIdAssumption DEF Ids
<1>8. end \in Tracked(window) \cup {cursor}
  BY <1>2, <1>5
<1>9. end >= cursor
  BY <1>3, <1>5
<1>10. [i \in Ids |-> IF i > end THEN window[i] ELSE None] \in Windows
  BY DEF Windows
<1>11. \A j \in expired : end >= j
  BY <1>1, <1>2, <1>3, <1>5 DEF Ids
<1> QED BY <1>5, <1>6, <1>7, <1>8, <1>9, <1>10, <1>11

(* What compact() returns is again a cursor and a window. *)
LEMMA AdvanceType ==
  ASSUME NEW cursor \in 0..MaxId,
         NEW window \in Windows,
         NEW expired \in SUBSET Tracked(window)
  PROVE  Advance(cursor, window, expired) \in CompactState
<1> DEFINE c == Advance(cursor, window, expired)
<1>1. c.cursor \in 0..MaxId /\ c.window \in Windows
  BY AdvanceIsJustified
<1>2. c = [cursor |-> c.cursor, window |-> c.window]
  BY DEF Advance
<1> HIDE DEF c
<1>3. c \in CompactState
  BY <1>1, <1>2 DEF CompactState
<1> QED BY <1>3 DEF c

(* Merging stamps exactly the new ids and tracks them beside the old ones. *)
LEMMA MergeTracks ==
  ASSUME NEW window \in Windows, NEW S \in SUBSET Ids, NEW time \in Int
  PROVE  /\ Merge(window, S, time) \in Windows
         /\ Tracked(Merge(window, S, time)) = Tracked(window) \cup S
         /\ \A i \in Ids : Merge(window, S, time)[i] = IF i \in S THEN time ELSE window[i]
<1>1. Merge(window, S, time) \in Windows
  BY DEF Merge, Windows
<1>2. \A i \in Ids : Merge(window, S, time)[i] = IF i \in S THEN time ELSE window[i]
  BY DEF Merge
<1>3. time # None
  BY NoneAssumption
<1> QED BY <1>1, <1>2, <1>3 DEF Tracked

(* The entries a caller lets expire are entries. *)
LEMMA ExpiredAreTracked ==
  ASSUME NEW window, NEW time, NEW gapWindow, NEW oldest, NEW pad
  PROVE  /\ Aged(window, time, gapWindow) \subseteq Tracked(window)
         /\ Proven(window, oldest, pad) \subseteq Tracked(window)
BY DEF Aged, Proven

(* The cursor is written with GREATEST. *)
LEMMA GreatestOfTwo ==
  ASSUME NEW a \in 0..MaxId, NEW b \in 0..MaxId
  PROVE  Max({a, b}) \in 0..MaxId /\ Max({a, b}) \in {a, b} /\ Max({a, b}) >= a
BY MaxBounded, MaxIdAssumption

-----------------------------------------------------------------------------
(* Types.                                                                    *)

(* What the callers of compact() store is a cursor and a window. *)
LEMMA CompactByAgeType ==
  ASSUME NEW c \in 0..MaxId, NEW w \in Windows, NEW time, NEW g
  PROVE  CompactByAge(c, w, time, g) \in CompactState
<1> DEFINE E == Aged(w, time, g)
<1>1. E \in SUBSET Tracked(w)
  BY ExpiredAreTracked
<1> HIDE DEF E
<1>2. Advance(c, w, E) \in CompactState
  BY <1>1, AdvanceType
<1> QED BY <1>2 DEF CompactByAge, E

LEMMA CompactGuardedType ==
  ASSUME NEW c \in 0..MaxId, NEW w \in Windows, NEW time, NEW g, NEW oldest, NEW pad,
         NEW ceiling
  PROVE  /\ CompactGuarded(c, w, time, g, oldest, pad, ceiling) \in CompactState
         /\ CompactProven(c, w, time, g, oldest, pad) \in CompactState
<1> DEFINE E == Aged(w, time, g) \cap (Proven(w, oldest, pad) \cup Aged(w, time, ceiling))
           F == Aged(w, time, g) \cap Proven(w, oldest, pad)
<1>1. E \in SUBSET Tracked(w) /\ F \in SUBSET Tracked(w)
  BY ExpiredAreTracked
<1> HIDE DEF E, F
<1>2. Advance(c, w, E) \in CompactState /\ Advance(c, w, F) \in CompactState
  BY <1>1, AdvanceType
<1> QED BY <1>2 DEF CompactGuarded, CompactProven, E, F

LEMMA StartType == AtStart \in CompactState
BY MaxIdAssumption DEF AtStart, CompactState, NoEntries, Windows

(* GREATEST keeps the stored cursor in range and never lowers it. *)
LEMMA StoreType ==
  ASSUME stored \in CompactState, NEW c \in CompactState, Store(c)
  PROVE  /\ stored' \in CompactState
         /\ stored'.cursor \in {stored.cursor, c.cursor}
         /\ stored'.cursor >= stored.cursor
         /\ stored'.window = c.window
BY GreatestOfTwo DEF Store, CompactState

LEMMA TypeInit == Init => TypeOK
<1> SUFFICES ASSUME Init PROVE TypeOK
  OBVIOUS
<1>1. /\ retry \in [count : 0..MaxRetries, after : Int \cup {None}]
      /\ lock \in [until : Int \cup {None}, holder : Procs \cup {None}]
      /\ txn \in [Txns -> TxnType]
  BY CountsAssumption DEF Init, NoRetry, Unlocked, IdleTxn, TxnType
<1>2. /\ pc \in [Procs -> Steps] /\ now \in [Procs -> Int]
      /\ local \in [Procs -> CompactState] /\ stored \in CompactState
      /\ batch \in [Procs -> SUBSET Ids] /\ seen \in [Procs -> SUBSET Ids]
      /\ tries \in [Procs -> 0..MaxRetries]
  BY StartType, CountsAssumption DEF Init, Steps
<1>3. clock \in 0..MaxClock /\ nextId \in 1..(MaxId + 1)
  BY MaxIdAssumption, BoundsAssumption DEF Init
<1>5. disturbed \in BOOLEAN
  BY DEF Init
<1>4. /\ outbox = {} /\ purged = {} /\ delivered = {} /\ redelivered = {} /\ threw = {}
      /\ dead = {} /\ alarmed = {} /\ dlqSkip = {} /\ overtaken = {}
  BY DEF Init
<1> QED BY <1>1, <1>2, <1>3, <1>4, <1>5 DEF TypeOK

LEMMA TypeNext == TypeOK /\ [Next]_vars => TypeOK'
<1> SUFFICES ASSUME TypeOK, [Next]_vars PROVE TypeOK'
  OBVIOUS
<1> USE DEF dbVars, rowVars, procVars, logVars
<1>1. ASSUME NEW t \in Txns, Write(t) PROVE TypeOK'
  <2>1. CASE Begin(t)
    BY <2>1 DEF TypeOK, Begin, TxnType
  <2>2. CASE Insert(t)
    <3>1. nextId \in Ids /\ nextId' \in 1..(MaxId + 1)
      BY <2>2, MaxIdAssumption DEF TypeOK, Insert, Ids
    <3>2. txn' \in [Txns -> TxnType]
      BY <2>2, <3>1 DEF TypeOK, Insert, TxnType
    <3> QED BY <2>2, <3>1, <3>2 DEF TypeOK, Insert
  <2>3. CASE Commit(t)
    <3>1. txn' \in [Txns -> TxnType] /\ txn[t].ids \subseteq Ids
      BY <2>3 DEF TypeOK, Commit, TxnType, IdleTxn
    <3> QED BY <2>3, <3>1 DEF TypeOK, Commit
  <2>4. CASE Rollback(t)
    BY <2>4 DEF TypeOK, Rollback, TxnType, IdleTxn
  <2> QED BY <1>1, <2>1, <2>2, <2>3, <2>4 DEF Write
<1>2. ASSUME NEW i \in Ids, Purge(i) PROVE TypeOK'
  BY <1>2 DEF TypeOK, Purge
<1>3. CASE Tick
  BY <1>3, BoundsAssumption DEF TypeOK, Tick
<1>4. CASE UNCHANGED vars
  BY <1>4 DEF TypeOK, vars
<1>5. ASSUME NEW p \in Procs,
             Start(p) \/ Work(p) \/ Refresh(p) \/ Reject(p) \/ Crash(p)
      PROVE  TypeOK'
  <2>0. /\ AppClock \subseteq Int
        /\ local[p] \in CompactState
        /\ local[p].cursor \in 0..MaxId /\ local[p].window \in Windows
        /\ Fetchable(p) \subseteq Ids
        /\ Tracked(local[p].window) \subseteq Ids
        /\ seen[p] \in SUBSET Ids /\ batch[p] \in SUBSET Ids /\ now[p] \in Int
    BY BoundsAssumption DEF TypeOK, AppClock, Fetchable, Tracked, CompactState
  <2>1. CASE Start(p)
    BY <2>1, <2>0 DEF TypeOK, Start, Goto, Steps
  <2>2. CASE Claim(p)
    BY <2>2, <2>0, TimesAssumption DEF TypeOK, Claim, Goto, Steps
  <2>3. CASE ClaimRefused(p)
    BY <2>3, StartType, CountsAssumption DEF TypeOK, ClaimRefused, Goto, Forget, Steps
  <2>4. CASE Refresh(p)
    BY <2>4, <2>0, TimesAssumption DEF TypeOK, Refresh
  <2>5. CASE Fetch(p)
    <3>1. FirstOf(Fetchable(p), BatchSize) \in SUBSET Ids
      BY <2>0 DEF FirstOf
    <3> QED BY <2>5, <3>1 DEF TypeOK, Fetch, Goto, Steps
  <2>6. CASE NoEvents(p)
    BY <2>6 DEF TypeOK, NoEvents, Goto, Steps
  <2>7. CASE ResetRetryState(p)
    BY <2>7, CountsAssumption DEF TypeOK, ResetRetryState, NoRetry, Goto, Steps
  <2>8. ASSUME NEW i \in Ids, Handle(p, i) PROVE TypeOK'
    BY <2>8 DEF TypeOK, Handle, Goto, Steps
  <2>9. ASSUME NEW i \in Ids, Throw(p, i) PROVE TypeOK'
    BY <2>9 DEF TypeOK, Throw, Goto, Steps
  <2>10. CASE Compact(p)
    <3>1. PICK time \in AppClock :
            Compacted(p, CompactByAge(local[p].cursor,
                           Merge(local[p].window, seen[p], time), time, GapWindow))
      BY <2>10 DEF Compact
    <3>2. Merge(local[p].window, seen[p], time) \in Windows
      BY <2>0, MergeTracks
    <3>3. CompactByAge(local[p].cursor, Merge(local[p].window, seen[p], time),
                       time, GapWindow) \in CompactState
      BY <3>2, <2>0, CompactByAgeType
    <3> QED BY <2>10, <3>1, <3>3 DEF TypeOK, Compact, Compacted, Goto, Steps
  <2>11. CASE GapFound(p)
    BY <2>11, <2>0 DEF TypeOK, GapFound, Goto, Steps
  <2>12. CASE CompactWithGapGuard(p)
    <3> DEFINE w == Merge(local[p].window, seen[p], now[p])
               guarded == CompactGuarded(local[p].cursor, w, now[p], GapWindow,
                                         OldestRunningTxnStart, SkewPad, GapCeiling)
               held == CompactProven(local[p].cursor, w, now[p], GapWindow,
                                     OldestRunningTxnStart, SkewPad)
    <3>1. w \in Windows
      BY <2>0, MergeTracks
    <3>2. guarded \in CompactState /\ held \in CompactState
      BY <3>1, <2>0, CompactGuardedType
    <3>3. Compacted(p, guarded) /\ alarmed' = alarmed \cup ((held.cursor + 1)..guarded.cursor)
      BY <2>12 DEF CompactWithGapGuard
    <3> HIDE DEF guarded, held
    <3>4. (held.cursor + 1)..guarded.cursor \subseteq Ids
      BY <3>2, MaxIdAssumption DEF CompactState, Ids
    <3> QED BY <2>12, <3>2, <3>3, <3>4
            DEF TypeOK, CompactWithGapGuard, Compacted, Goto, Steps
  <2>13. CASE PersistProcessedState(p)
    BY <2>13, <2>0, StoreType, CountsAssumption
       DEF TypeOK, PersistProcessedState, NoRetry, Goto, Steps
  <2>14. CASE ReadRetryCount(p)
    BY <2>14, <2>0, CountsAssumption DEF TypeOK, ReadRetryCount, Goto, Steps
  <2>15. CASE RetriesExhausted(p)
    BY <2>15 DEF TypeOK, RetriesExhausted, Goto, Steps
  <2>16. CASE RecordError(p)
    BY <2>16 DEF TypeOK, RecordError, Backoffs, Goto, Steps
  <2>17. CASE FetchVictim(p)
    <3>1. FirstOf(Fetchable(p), 1) \in SUBSET Ids
      BY <2>0 DEF FirstOf
    <3> QED BY <2>17, <3>1 DEF TypeOK, FetchVictim, Goto, Steps
  <2>18. CASE InsertDeadLetter(p)
    BY <2>18 DEF TypeOK, InsertDeadLetter, Goto, Steps
  <2>19. CASE AdvancePastDeadLetter(p)
    <3> DEFINE w == Merge(NoEntries, Tracked(local[p].window) \cup batch[p], 0)
               c == CompactByAge(local[p].cursor, w, 0, 0)
    <3>1. NoEntries \in Windows /\ Tracked(local[p].window) \cup batch[p] \in SUBSET Ids
      BY <2>0 DEF TypeOK, NoEntries, Windows
    <3>2. w \in Windows
      BY <3>1, MergeTracks
    <3>3. c \in CompactState
      BY <3>2, <2>0, CompactByAgeType
    <3>4. /\ Store(c)
          /\ dlqSkip' = dlqSkip \cup ((local[p].cursor + 1)..c.cursor)
          /\ retry' = NoRetry /\ Goto(p, "release")
          /\ UNCHANGED <<dbVars, lock, now, local, batch, seen, tries, delivered,
                         redelivered, threw, dead, alarmed, overtaken, disturbed>>
      BY <2>19 DEF AdvancePastDeadLetter
    <3> HIDE DEF c
    <3>5. stored' \in CompactState
      BY <3>3, <3>4, StoreType DEF TypeOK
    <3>6. (local[p].cursor + 1)..c.cursor \subseteq Ids
      BY <3>3, <2>0, MaxIdAssumption DEF CompactState, Ids
    <3> QED BY <3>4, <3>5, <3>6, CountsAssumption DEF TypeOK, NoRetry, Goto, Steps
  <2>20. CASE ReleaseLock(p)
    BY <2>20, StartType, CountsAssumption
       DEF TypeOK, ReleaseLock, Unlocked, Goto, Forget, Steps
  <2>21. CASE Reject(p)
    BY <2>21, StartType, CountsAssumption DEF TypeOK, Reject, Goto, Forget, Steps
  <2>22. CASE Crash(p)
    BY <2>22, StartType, CountsAssumption DEF TypeOK, Crash, Goto, Forget, Steps
  <2> QED BY <1>5, <2>1, <2>2, <2>3, <2>4, <2>5, <2>6, <2>7, <2>8, <2>9, <2>10, <2>11,
             <2>12, <2>13, <2>14, <2>15, <2>16, <2>17, <2>18, <2>19, <2>20, <2>21, <2>22
         DEF Work
<1> QED BY <1>1, <1>2, <1>3, <1>4, <1>5 DEF Next

(* TypeOK for every instance: the state run() and the writers share keeps  *)
(* its shape, and retry_count never exceeds maxRetries.                    *)
THEOREM TypeCorrect == Spec => []TypeOK
<1> QED BY TypeInit, TypeNext, PTL DEF Spec

(***************************************************************************)
(* The inductive invariant                                                 *)
(***************************************************************************)

Done == delivered \cup dead
Excused == alarmed \cup dlqSkip

(* Ids come from a sequence: those of running transactions are below the   *)
(* next one, not yet visible, and each belongs to one transaction.         *)
SequenceInv ==
  /\ \A t \in RunningTxns :
       /\ txn[t].start <= clock
       /\ \A i \in txn[t].ids : i < nextId /\ i \notin Committed
  /\ \A t, u \in RunningTxns : t # u => \A i \in txn[t].ids : i \notin txn[u].ids
  /\ \A i \in Committed : i < nextId

(* Every visible id below a member of S is in R. *)
Below(S, R) == \A j \in S : \A i \in Committed : i < j => i \in R

(* A transaction that may still fill a gap below j had begun by the time r. *)
BegunBy(j, r) ==
  \A t \in RunningTxns : \A i \in txn[t].ids : i < j => txn[t].start <= r + Skew

(* A cursor and a window, stored or local: the cursor stands at a finished *)
(* event, it has passed no live id that is not excused, and the time of    *)
(* every entry bounds the start of the transactions that can fill a gap    *)
(* below it, which is what the liveness proof of a gap rests on.           *)
Sound(c, done, excused) ==
  /\ c.cursor \in {0} \cup done
  /\ Tracked(c.window) \subseteq done
  /\ \A t \in RunningTxns : \A i \in txn[t].ids : i <= c.cursor => i \in excused
  /\ \A j \in Tracked(c.window) : BegunBy(j, c.window[j])

(* The events a process has in hand: everything visible below them is      *)
(* finished, overtaken or in hand too.                                     *)
Holding(step, time, events, handled, deliv, buried, over) ==
  /\ events \subseteq Committed
  /\ handled \subseteq deliv
  /\ Below(events, deliv \cup buried \cup over \cup events)
  /\ step = "liveness" => \A j \in handled : BegunBy(j, time)
  /\ step = "dlqAdvance" => events \subseteq buried

IndInv ==
  /\ TypeOK
  /\ SequenceInv
  /\ Done \subseteq Committed
  /\ Below(Done, Done \cup overtaken)
  /\ \A i \in purged : i <= stored.cursor
  /\ Sound(stored, Done, Excused)
  /\ \A p \in Procs :
       /\ Sound(local[p], Done, Excused)
       /\ Holding(pc[p], now[p], batch[p], seen[p], delivered, dead, overtaken)

(* Lemmas on the parts of the invariant *)

LEMMA FirstOfIsLowest ==
  ASSUME NEW S \in SUBSET Ids, NEW n \in Nat, NEW j \in FirstOf(S, n), NEW i \in S, i < j
  PROVE  i \in FirstOf(S, n)
<1> DEFINE A == {k \in S : k < i}
           B == {k \in S : k < j}
<1>0. \A k \in S : k \in Int
  BY DEF Ids
<1>1. A \in SUBSET B
  <2>1. j \in S
    BY DEF FirstOf
  <2>2. \A k \in S : k < i => k < j
    BY <1>0, <2>1
  <2> QED BY <2>2
<1>2. IsFiniteSet(B)
  <2>1. IsFiniteSet(Ids)
    BY FS_Interval, MaxIdAssumption DEF Ids
  <2>2. B \in SUBSET Ids
    OBVIOUS
  <2> QED BY <2>1, <2>2, FS_Subset
<1>3. Cardinality(A) <= Cardinality(B)
  BY <1>1, <1>2, FS_Subset
<1>4. Cardinality(B) < n
  BY DEF FirstOf
<1>5. Cardinality(A) \in Nat /\ Cardinality(B) \in Nat
  <2>1. IsFiniteSet(A)
    BY <1>1, <1>2, FS_Subset
  <2> QED BY <2>1, <1>2, FS_CardinalityType
<1>6. Cardinality(A) < n
  BY <1>3, <1>4, <1>5
<1> QED BY <1>6 DEF FirstOf

LEMMA SoundGrows ==
  ASSUME NEW c, NEW d, NEW e, NEW d2, NEW e2,
         Sound(c, d, e), d \subseteq d2, e \subseteq e2
  PROVE  Sound(c, d2, e2)
BY DEF Sound

LEMMA SoundAtStart ==
  ASSUME TypeOK, NEW d, NEW e
  PROVE  Sound(AtStart, d, e)
<1>1. Tracked(NoEntries) = {}
  BY DEF Tracked, NoEntries
<1>2. \A t \in RunningTxns : \A i \in txn[t].ids : ~(i <= 0)
  BY DEF TypeOK, TxnType, RunningTxns, Ids
<1> QED BY <1>1, <1>2 DEF Sound, AtStart

LEMMA HoldingNothing ==
  ASSUME NEW step, NEW time, NEW d, NEW b, NEW o
  PROVE  Holding(step, time, {}, {}, d, b, o)
BY DEF Holding, Below

(* Ids of running transactions are not among the finished events. *)
LEMMA RunningNotDone ==
  ASSUME IndInv, NEW t \in RunningTxns, NEW i \in txn[t].ids
  PROVE  i \notin Done /\ i \in Ids
BY DEF IndInv, SequenceInv, TypeOK, TxnType, RunningTxns

(* A window merged at this instant: a transaction that runs now began      *)
(* before now, so the new entries bound it as well.                        *)
LEMMA MergeSound ==
  ASSUME IndInv, NEW p \in Procs, NEW time \in Int,
         \A j \in seen[p] : BegunBy(j, time)
  PROVE  LET w == Merge(local[p].window, seen[p], time)
         IN  /\ w \in Windows
             /\ Tracked(w) = Tracked(local[p].window) \cup seen[p]
             /\ Tracked(w) \subseteq Done
             /\ \A j \in Tracked(w) : BegunBy(j, w[j])
<1> DEFINE w == Merge(local[p].window, seen[p], time)
<1>1. local[p].window \in Windows /\ seen[p] \in SUBSET Ids
  BY DEF IndInv, TypeOK, CompactState
<1>2. /\ w \in Windows
      /\ Tracked(w) = Tracked(local[p].window) \cup seen[p]
      /\ \A i \in Ids : w[i] = IF i \in seen[p] THEN time ELSE local[p].window[i]
  <2> HIDE DEF w
  <2>1. Merge(local[p].window, seen[p], time) \in Windows
    BY <1>1, MergeTracks
  <2>3. \A i \in Ids : Merge(local[p].window, seen[p], time)[i]
                        = IF i \in seen[p] THEN time ELSE local[p].window[i]
    BY DEF Merge
  <2>4. Tracked(Merge(local[p].window, seen[p], time)) = Tracked(local[p].window) \cup seen[p]
    BY <1>1, <2>3, NoneAssumption DEF Tracked
  <2> QED BY <2>1, <2>3, <2>4 DEF w
<1>3. /\ Tracked(local[p].window) \subseteq Done
      /\ seen[p] \subseteq Done
      /\ \A j \in Tracked(local[p].window) : BegunBy(j, local[p].window[j])
  BY DEF IndInv, Sound, Holding, Done
<1>4. Tracked(w) \subseteq Ids
  BY DEF Tracked
<1> HIDE DEF w
<1>5. \A j \in Tracked(w) : BegunBy(j, w[j])
  BY <1>2, <1>3, <1>4
<1> QED BY <1>2, <1>3, <1>5 DEF w

(* A transaction that is running has begun by any time read now. *)
LEMMA BegunByNow ==
  ASSUME IndInv, NEW time \in AppClock, NEW j
  PROVE  BegunBy(j, time)
<1>1. clock \in Int /\ time \in Int /\ clock <= time + Skew
  BY BoundsAssumption, SkewAssumption DEF IndInv, TypeOK, AppClock
<1>2. \A t \in RunningTxns : txn[t].start \in Nat /\ txn[t].start <= clock
  BY DEF IndInv, SequenceInv, TypeOK, TxnType, RunningTxns
<1> QED BY <1>1, <1>2, SkewAssumption DEF BegunBy

(* compact() keeps a cursor and a window sound when every live id that     *)
(* lies below an expired entry is excused.                                 *)
LEMMA AdvanceSound ==
  ASSUME IndInv, NEW cursor \in 0..MaxId, NEW w \in Windows, NEW E \in SUBSET Tracked(w),
         NEW excused,
         cursor \in {0} \cup Done,
         Tracked(w) \subseteq Done,
         \A j \in Tracked(w) : BegunBy(j, w[j]),
         \A t \in RunningTxns : \A i \in txn[t].ids :
           i <= cursor \/ (\E j \in E : i < j) => i \in excused
  PROVE  Sound(Advance(cursor, w, E), Done, excused)
<1> DEFINE c == Advance(cursor, w, E)
<1>1. /\ c.cursor \in 0..MaxId /\ c.cursor >= cursor
      /\ c.cursor \in Tracked(w) \cup {cursor}
      /\ \A i \in Ids : c.window[i] = IF i > c.cursor THEN w[i] ELSE None
      /\ \A i \in Ids : cursor < i /\ i <= c.cursor =>
           i \in Tracked(w) \/ \E j \in E : i < j
  BY AdvanceIsJustified
<1> HIDE DEF c
<1>2. /\ Tracked(c.window) \subseteq Tracked(w)
      /\ \A j \in Tracked(c.window) : c.window[j] = w[j]
  BY <1>1 DEF Tracked
<1>3. ASSUME NEW t \in RunningTxns, NEW i \in txn[t].ids, i <= c.cursor
      PROVE  i \in excused
  <2>1. i \notin Tracked(w) /\ i \in Ids
    BY RunningNotDone
  <2>2. i <= cursor \/ \E j \in E : i < j
    BY <2>1, <1>1, <1>3 DEF Ids
  <2> QED BY <2>2
<1>4. \A j \in Tracked(c.window) : BegunBy(j, c.window[j])
  BY <1>2
<1> QED BY <1>1, <1>2, <1>3, <1>4 DEF Sound, c

(* The liveness proof: no transaction that runs now can fill a gap below   *)
(* an entry recorded before the oldest of them began.                      *)
LEMMA ProvenGapsAreDead ==
  ASSUME IndInv, NEW w \in Windows, NEW j \in Proven(w, OldestRunningTxnStart, SkewPad),
         BegunBy(j, w[j]), NEW t \in RunningTxns, NEW i \in txn[t].ids
  PROVE  ~(i < j)
<1> DEFINE starts == {clock} \cup {txn[u].start : u \in RunningTxns}
<1>1. starts \in SUBSET Nat /\ txn[t].start \in starts
  BY BoundsAssumption DEF IndInv, TypeOK, TxnType, RunningTxns
<1>2. OldestRunningTxnStart \in Nat /\ OldestRunningTxnStart <= txn[t].start
  <2> HIDE DEF starts
  <2>1. Min(starts) \in starts /\ \A y \in starts : Min(starts) <= y
    BY <1>1, MinNat
  <2> QED BY <1>1, <2>1 DEF starts, OldestRunningTxnStart
<1>3. w[j] \in Int /\ w[j] < OldestRunningTxnStart - SkewPad
  BY NoneAssumption DEF Proven, Tracked, Windows
<1>4. txn[t].start \in Nat
  BY <1>1
<1> QED BY <1>2, <1>3, <1>4, SkewAssumption, TimesAssumption DEF BegunBy

(* A step of process p that leaves the database alone preserves the        *)
(* invariant once it does so for p, the stored row and the finished events.*)
LEMMA ProcStep ==
  ASSUME IndInv, TypeOK', NEW p \in Procs,
         UNCHANGED dbVars, overtaken' = overtaken,
         delivered \subseteq delivered', dead \subseteq dead',
         alarmed \subseteq alarmed', dlqSkip \subseteq dlqSkip',
         \A q \in Procs \ {p} :
           /\ local'[q] = local[q] /\ batch'[q] = batch[q] /\ seen'[q] = seen[q]
           /\ now'[q] = now[q] /\ pc'[q] = pc[q],
         Done' \subseteq Committed,
         Below(Done', Done' \cup overtaken),
         stored'.cursor >= stored.cursor,
         Sound(stored', Done', Excused'),
         Sound(local'[p], Done', Excused'),
         Holding(pc'[p], now'[p], batch'[p], seen'[p], delivered', dead', overtaken)
  PROVE  IndInv'
<1>1. /\ Committed' = Committed /\ RunningTxns' = RunningTxns /\ txn' = txn
      /\ nextId' = nextId /\ clock' = clock /\ purged' = purged
  BY DEF dbVars, Committed, RunningTxns
<1>2. SequenceInv'
  BY <1>1 DEF IndInv, SequenceInv
<1>3. \A i \in purged' : i <= stored'.cursor
  <2>1. stored.cursor \in Int /\ stored'.cursor \in Int /\ purged \subseteq Ids
    BY DEF IndInv, TypeOK, CompactState
  <2> QED BY <1>1, <2>1 DEF IndInv, Ids
<1>4. Done \subseteq Done' /\ Excused \subseteq Excused'
  BY DEF Done, Excused
<1>5. ASSUME NEW q \in Procs
      PROVE  /\ Sound(local'[q], Done', Excused')
             /\ Holding(pc'[q], now'[q], batch'[q], seen'[q], delivered', dead', overtaken)
  <2>1. CASE q = p
    BY <2>1
  <2>2. CASE q # p
    <3>1. Sound(local[q], Done', Excused')
      BY <1>4, SoundGrows DEF IndInv
    <3>2. Holding(pc[q], now[q], batch[q], seen[q], delivered', dead', overtaken)
      BY DEF IndInv, Holding, Below
    <3> QED BY <2>2, <3>1, <3>2
  <2> QED BY <2>1, <2>2
<1> QED BY <1>1, <1>2, <1>3, <1>5 DEF IndInv, Sound, Holding, Below, BegunBy, Done

LEMMA IndInit == Init => IndInv
<1> SUFFICES ASSUME Init PROVE IndInv
  OBVIOUS
<1>1. TypeOK
  BY TypeInit
<1>2. RunningTxns = {} /\ Committed = {} /\ Done = {}
  BY DEF Init, RunningTxns, IdleTxn, Committed, Done
<1>3. SequenceInv /\ Below(Done, Done \cup overtaken) /\ Done \subseteq Committed
  BY <1>2 DEF SequenceInv, Below
<1>4. Sound(AtStart, Done, Excused)
  BY <1>1, SoundAtStart
<1>5. ASSUME NEW p \in Procs
      PROVE  /\ Sound(local[p], Done, Excused)
             /\ Holding(pc[p], now[p], batch[p], seen[p], delivered, dead, overtaken)
  BY <1>4, HoldingNothing DEF Init
<1>6. stored = AtStart /\ purged = {}
  BY DEF Init
<1> QED BY <1>1, <1>3, <1>4, <1>5, <1>6 DEF IndInv

(* Writers: an INSERT takes an id above every entry, and a COMMIT into a   *)
(* gap is recorded as overtaken.                                           *)
LEMMA IndWrite ==
  ASSUME IndInv, TypeOK', NEW t \in Txns, Write(t)
  PROVE  IndInv'
<1> USE DEF dbVars, rowVars, procVars, logVars
<1>0. /\ txn \in [Txns -> TxnType] /\ clock \in Nat /\ nextId \in Nat
      /\ \A u \in Txns : txn[u].start \in Nat /\ txn[u].ids \subseteq Ids
      /\ RunningTxns \subseteq Txns
      /\ Committed \subseteq Ids /\ Done \subseteq Committed
      /\ stored.cursor \in Int /\ \A p \in Procs : local[p].cursor \in Int
  BY BoundsAssumption, MaxIdAssumption
     DEF IndInv, TypeOK, TxnType, RunningTxns, Committed, CompactState
<1>1. CASE Begin(t)
  <2>1. /\ RunningTxns' = RunningTxns \cup {t}
        /\ txn'[t].ids = {} /\ txn'[t].start = clock
        /\ \A u \in RunningTxns : txn'[u] = txn[u] /\ u # t
        /\ Committed' = Committed
    BY <1>1, <1>0 DEF Begin, RunningTxns, Committed
  <2>2. SequenceInv'
    BY <2>1, <1>1, <1>0 DEF IndInv, SequenceInv, Begin
  <2>3. ASSUME NEW c, NEW d, NEW e, Sound(c, d, e) PROVE
          /\ \A u \in RunningTxns' : \A i \in txn'[u].ids : i <= c.cursor => i \in e
          /\ \A j \in Tracked(c.window) : \A u \in RunningTxns' : \A i \in txn'[u].ids :
               i < j => txn'[u].start <= c.window[j] + Skew
    BY <2>1, <2>3 DEF Sound, BegunBy
  <2>4. ASSUME NEW j, NEW r, BegunBy(j, r) PROVE
          \A u \in RunningTxns' : \A i \in txn'[u].ids : i < j => txn'[u].start <= r + Skew
    BY <2>1, <2>4 DEF BegunBy
  <2>5. \A p \in Procs :
          Holding(pc[p], now[p], batch[p], seen[p], delivered, dead, overtaken)'
    BY <2>1, <2>4, <1>1 DEF IndInv, Holding, Below, BegunBy, Begin
  <2>6. Sound(stored, Done, Excused)' /\ \A p \in Procs : Sound(local[p], Done, Excused)'
    BY <2>1, <2>3, <1>1 DEF IndInv, Sound, BegunBy, Begin, Done, Excused
  <2> QED BY <2>1, <2>2, <2>5, <2>6, <1>1 DEF IndInv, Begin, Done, Below
<1>2. CASE Insert(t)
  <2>1. /\ RunningTxns' = RunningTxns
        /\ txn'[t].ids = txn[t].ids \cup {nextId} /\ txn'[t].start = txn[t].start
        /\ \A u \in RunningTxns : u # t => txn'[u] = txn[u]
        /\ Committed' = Committed /\ nextId' = nextId + 1 /\ t \in RunningTxns
    BY <1>2, <1>0 DEF Insert, RunningTxns, Committed
  <2>2. \A i \in Committed : i < nextId
    BY DEF IndInv, SequenceInv
  <2>3. SequenceInv'
    BY <2>1, <1>2, <1>0 DEF IndInv, SequenceInv, Insert, Ids
  <2>4. ASSUME NEW c, NEW d, NEW e, Sound(c, d, e), d \subseteq Committed, c.cursor \in Int PROVE
          /\ \A u \in RunningTxns' : \A i \in txn'[u].ids : i <= c.cursor => i \in e
          /\ \A j \in Tracked(c.window) : \A u \in RunningTxns' : \A i \in txn'[u].ids :
               i < j => txn'[u].start <= c.window[j] + Skew
    <3>1. \A j \in d : j < nextId /\ j \in Int
      BY <2>2, <2>4, <1>0 DEF Ids
    <3>2. ~(nextId <= c.cursor) /\ \A j \in Tracked(c.window) : ~(nextId < j)
      BY <3>1, <2>4, <1>0, <2>2 DEF Sound, IndInv, TypeOK
    <3> QED BY <2>1, <2>4, <3>2 DEF Sound, BegunBy
  <2>5. ASSUME NEW j \in Committed, NEW r, BegunBy(j, r) PROVE
          \A u \in RunningTxns' : \A i \in txn'[u].ids : i < j => txn'[u].start <= r + Skew
    <3>1. ~(nextId < j)
      BY <2>2, <1>0 DEF Ids
    <3> QED BY <2>1, <2>5, <3>1 DEF BegunBy
  <2>6. \A p \in Procs :
          Holding(pc[p], now[p], batch[p], seen[p], delivered, dead, overtaken)'
    <3> SUFFICES ASSUME NEW p \in Procs
                 PROVE  Holding(pc[p], now[p], batch[p], seen[p], delivered, dead, overtaken)'
      OBVIOUS
    <3>1. seen[p] \subseteq Committed
      BY <1>0 DEF IndInv, Holding, Done
    <3>2. Holding(pc[p], now[p], batch[p], seen[p], delivered, dead, overtaken)
      BY DEF IndInv
    <3>3. \A j \in seen[p] : pc[p] = "liveness" => BegunBy(j, now[p])'
      BY <2>1, <2>5, <3>1, <3>2, <1>2 DEF Holding, BegunBy, Insert
    <3> QED BY <2>1, <3>2, <3>3, <1>2 DEF Holding, Below, Insert
  <2>7. Sound(stored, Done, Excused)' /\ \A p \in Procs : Sound(local[p], Done, Excused)'
    <3>1. stored' = stored /\ local' = local /\ Done' = Done /\ Excused' = Excused
      BY <1>2 DEF Insert, Done, Excused
    <3>2. Sound(stored, Done, Excused) /\ \A p \in Procs : Sound(local[p], Done, Excused)
      BY DEF IndInv
    <3>3. Sound(stored, Done, Excused)'
      BY <3>1, <3>2, <2>4, <1>0 DEF Sound, BegunBy
    <3>4. ASSUME NEW p \in Procs PROVE Sound(local[p], Done, Excused)'
      BY <3>1, <3>2, <2>4, <1>0 DEF Sound, BegunBy
    <3> QED BY <3>3, <3>4
  <2> QED BY <2>1, <2>3, <2>6, <2>7, <1>2 DEF IndInv, Insert, Done, Below
<1>3. CASE Commit(t)
  <2>1. /\ RunningTxns' = RunningTxns \ {t} /\ t \in RunningTxns
        /\ \A u \in RunningTxns' : txn'[u] = txn[u]
        /\ Committed' = Committed \cup txn[t].ids
        /\ \A i \in txn[t].ids : \A j \in Done \cup InHand : j > i => i \in overtaken'
        /\ overtaken \subseteq overtaken'
    BY <1>3, <1>0 DEF Commit, RunningTxns, Committed, IdleTxn, Done
  <2>2. SequenceInv'
    BY <2>1, <1>3 DEF IndInv, SequenceInv, Commit
  <2>3. Below(Done, Done \cup overtaken)'
    BY <2>1, <1>0, <1>3 DEF IndInv, Below, Done, Commit, Ids
  <2>4. \A p \in Procs :
          Holding(pc[p], now[p], batch[p], seen[p], delivered, dead, overtaken)'
    <3> SUFFICES ASSUME NEW p \in Procs
                 PROVE  Holding(pc[p], now[p], batch[p], seen[p], delivered, dead, overtaken)'
      OBVIOUS
    <3>1. Holding(pc[p], now[p], batch[p], seen[p], delivered, dead, overtaken)
      BY DEF IndInv
    <3>2. batch[p] \subseteq InHand /\ batch[p] \subseteq Ids
      BY DEF InHand, IndInv, TypeOK
    <3>3. Below(batch[p], delivered \cup dead \cup overtaken \cup batch[p])'
      BY <2>1, <3>1, <3>2, <1>0, <1>3 DEF Holding, Below, Commit, Ids
    <3> QED BY <2>1, <3>1, <3>3, <1>3 DEF Holding, BegunBy, Commit
  <2>5. Sound(stored, Done, Excused)' /\ \A p \in Procs : Sound(local[p], Done, Excused)'
    BY <2>1, <1>3 DEF IndInv, Sound, BegunBy, Commit, Done, Excused
  <2> QED BY <2>1, <2>2, <2>3, <2>4, <2>5, <1>3 DEF IndInv, Commit, Done
<1>4. CASE Rollback(t)
  <2>1. /\ RunningTxns' = RunningTxns \ {t}
        /\ \A u \in RunningTxns' : txn'[u] = txn[u]
        /\ Committed' = Committed
    BY <1>4, <1>0 DEF Rollback, RunningTxns, Committed, IdleTxn
  <2>2. SequenceInv'
    BY <2>1, <1>4 DEF IndInv, SequenceInv, Rollback
  <2>3. \A p \in Procs :
          Holding(pc[p], now[p], batch[p], seen[p], delivered, dead, overtaken)'
    BY <2>1, <1>4 DEF IndInv, Holding, Below, BegunBy, Rollback
  <2>4. Sound(stored, Done, Excused)' /\ \A p \in Procs : Sound(local[p], Done, Excused)'
    BY <2>1, <1>4 DEF IndInv, Sound, BegunBy, Rollback, Done, Excused
  <2> QED BY <2>1, <2>2, <2>3, <2>4, <1>4 DEF IndInv, Rollback, Done, Below
<1> QED BY <1>1, <1>2, <1>3, <1>4 DEF Write

(* The clock, retention and stuttering. *)
LEMMA IndEnvironment ==
  ASSUME IndInv, TypeOK', (\E i \in Ids : Purge(i)) \/ Tick \/ UNCHANGED vars
  PROVE  IndInv'
<1> USE DEF rowVars, procVars, logVars
<1> DEFINE Same == /\ RunningTxns' = RunningTxns /\ txn' = txn
                   /\ nextId' = nextId /\ Done' = Done /\ Excused' = Excused
                   /\ UNCHANGED <<rowVars, procVars, logVars>>
<1>1. ASSUME NEW i \in Ids, Purge(i)
      PROVE  /\ Same /\ Committed' = Committed /\ clock' = clock
             /\ purged' = purged \cup {i} /\ i <= stored.cursor
  BY <1>1 DEF Purge, Committed, RunningTxns, Done, Excused
<1>2. ASSUME Tick
      PROVE  Same /\ Committed' = Committed /\ clock' = clock + 1 /\ purged' = purged
  BY <1>2 DEF Tick, Committed, RunningTxns, Done, Excused
<1>3. ASSUME UNCHANGED vars
      PROVE  Same /\ Committed' = Committed /\ clock' = clock /\ purged' = purged
  BY <1>3 DEF vars, dbVars, Committed, RunningTxns, Done, Excused
<1>4. Same /\ Committed' = Committed
  BY <1>1, <1>2, <1>3
<1>5. clock \in Nat /\ \A t \in RunningTxns : txn[t].start \in Nat
  BY BoundsAssumption DEF IndInv, TypeOK, TxnType, RunningTxns
<1>6. SequenceInv'
  <2>1. \A t \in RunningTxns : txn[t].start <= clock'
    BY <1>1, <1>2, <1>3, <1>5 DEF IndInv, SequenceInv
  <2> QED BY <1>4, <2>1 DEF IndInv, SequenceInv
<1>7. \A i \in purged' : i <= stored'.cursor
  BY <1>1, <1>2, <1>3 DEF IndInv
<1>8. \A p \in Procs :
        /\ Sound(local[p], Done, Excused)'
        /\ Holding(pc[p], now[p], batch[p], seen[p], delivered, dead, overtaken)'
  BY <1>4 DEF IndInv, Sound, Holding, Below, BegunBy
<1>9. Sound(stored, Done, Excused)'
  BY <1>4 DEF IndInv, Sound, BegunBy
<1> QED BY <1>4, <1>6, <1>7, <1>8, <1>9 DEF IndInv, Below

(* A step of process p that changes neither the finished events nor the    *)
(* stored cursor and window.                                               *)
LEMMA QuietStep ==
  ASSUME IndInv, TypeOK', NEW p \in Procs,
         UNCHANGED <<dbVars, stored, logVars>>,
         \A q \in Procs \ {p} :
           /\ local'[q] = local[q] /\ batch'[q] = batch[q] /\ seen'[q] = seen[q]
           /\ now'[q] = now[q] /\ pc'[q] = pc[q],
         Sound(local'[p], Done, Excused),
         Holding(pc'[p], now'[p], batch'[p], seen'[p], delivered, dead, overtaken)
  PROVE  IndInv'
<1>1. Done' = Done /\ Excused' = Excused
  BY DEF logVars, Done, Excused
<1>2. stored'.cursor >= stored.cursor
  BY DEF IndInv, TypeOK, CompactState
<1>3. /\ Done \subseteq Committed /\ Below(Done, Done \cup overtaken)
      /\ Sound(stored, Done, Excused)
  BY DEF IndInv
<1> QED BY <1>1, <1>2, <1>3, ProcStep DEF logVars

(* The batch a fetch returns can be held: every visible id below it is     *)
(* finished or was overtaken, or is in the batch.                          *)
LEMMA FetchedCanBeHeld ==
  ASSUME IndInv, NEW p \in Procs, NEW n \in Nat
  PROVE  LET b == FirstOf(Fetchable(p), n)
         IN  b \subseteq Committed /\ Below(b, delivered \cup dead \cup overtaken \cup b)
<1> DEFINE b == FirstOf(Fetchable(p), n)
<1>0. /\ Fetchable(p) \in SUBSET Ids /\ Fetchable(p) \subseteq outbox
      /\ b \subseteq Fetchable(p)
      /\ Committed \subseteq Ids
      /\ stored.cursor \in Int /\ local[p].cursor \in Int
  BY DEF IndInv, TypeOK, Fetchable, FirstOf, Committed, CompactState
<1>1. ASSUME NEW j \in b, NEW i \in Committed, i < j
      PROVE  i \in delivered \cup dead \cup overtaken \cup b
  <2>1. CASE i \in Fetchable(p)
    BY <2>1, <1>0, <1>1, FirstOfIsLowest
  <2>2. CASE i \in Tracked(local[p].window)
    BY <2>2 DEF IndInv, Sound, Done
  <2>3. ASSUME NEW c \in CompactState, Sound(c, Done, Excused), i <= c.cursor
        PROVE  i \in delivered \cup dead \cup overtaken
    <3>1. c.cursor \in {0} \cup Done /\ i \in Nat \ {0} /\ c.cursor \in Int
      BY <2>3, <1>0 DEF Sound, Ids, CompactState
    <3>2. c.cursor \in Done
      BY <3>1, <2>3
    <3>3. CASE i = c.cursor
      BY <3>2, <3>3 DEF Done
    <3>4. CASE i < c.cursor
      BY <3>2, <3>4 DEF IndInv, Below, Done
    <3> QED BY <3>1, <3>3, <3>4, <2>3
  <2>4. CASE i <= local[p].cursor
    BY <2>3, <2>4 DEF IndInv, TypeOK
  <2>5. CASE i \in purged
    BY <2>3, <2>5 DEF IndInv, TypeOK
  <2> QED BY <2>1, <2>2, <2>4, <2>5, <1>0 DEF Fetchable, Committed, Ids
<1>2. b \subseteq Committed
  BY <1>0 DEF Committed
<1> HIDE DEF b
<1>3. Below(b, delivered \cup dead \cup overtaken \cup b)
  BY <1>1 DEF Below
<1> QED BY <1>2, <1>3 DEF b

(* The actions that only move a process along or drop its variables. *)
LEMMA IndControl ==
  ASSUME IndInv, TypeOK', NEW p \in Procs,
         \/ Start(p) \/ Claim(p) \/ ClaimRefused(p) \/ Refresh(p) \/ NoEvents(p)
         \/ ResetRetryState(p) \/ ReadRetryCount(p) \/ RetriesExhausted(p) \/ RecordError(p)
         \/ ReleaseLock(p) \/ Reject(p) \/ Crash(p)
  PROVE  IndInv'
<1> USE DEF dbVars, rowVars, procVars, logVars
<1>0. /\ pc \in [Procs -> Steps] /\ now \in [Procs -> Int]
      /\ local \in [Procs -> CompactState]
      /\ batch \in [Procs -> SUBSET Ids] /\ seen \in [Procs -> SUBSET Ids]
  BY DEF IndInv, TypeOK
<1>1. /\ Sound(local[p], Done, Excused) /\ Sound(stored, Done, Excused)
      /\ Sound(AtStart, Done, Excused)
      /\ Holding(pc[p], now[p], batch[p], seen[p], delivered, dead, overtaken)
  BY SoundAtStart DEF IndInv
<1>2. ASSUME NEW step \in Steps \ {"liveness", "dlqAdvance"}, NEW time
      PROVE  Holding(step, time, batch[p], seen[p], delivered, dead, overtaken)
  BY <1>1 DEF Holding
<1>3. CASE Forget(p) /\ UNCHANGED <<dbVars, stored, logVars>> /\ \E step : Goto(p, step)
  <2>1. /\ local'[p] = AtStart /\ batch'[p] = {} /\ seen'[p] = {}
        /\ \A q \in Procs \ {p} :
             /\ local'[q] = local[q] /\ batch'[q] = batch[q] /\ seen'[q] = seen[q]
             /\ now'[q] = now[q] /\ pc'[q] = pc[q]
    BY <1>3, <1>0 DEF Forget, Goto
  <2>2. Holding(pc'[p], now'[p], {}, {}, delivered, dead, overtaken)
    BY HoldingNothing
  <2> QED BY <1>3, <2>1, <2>2, <1>1, QuietStep
<1>4. CASE /\ UNCHANGED <<dbVars, stored, logVars, batch, seen>>
           /\ \E step \in Steps \ {"liveness", "dlqAdvance"} : Goto(p, step)
           /\ local' = local \/ local' = [local EXCEPT ![p] = stored]
           /\ now' = now \/ \E time : now' = [now EXCEPT ![p] = time]
  <2>1. PICK step \in Steps \ {"liveness", "dlqAdvance"} : Goto(p, step)
    BY <1>4
  <2>2. /\ pc'[p] = step /\ batch'[p] = batch[p] /\ seen'[p] = seen[p]
        /\ local'[p] \in {local[p], stored}
        /\ \A q \in Procs \ {p} :
             /\ local'[q] = local[q] /\ batch'[q] = batch[q] /\ seen'[q] = seen[q]
             /\ now'[q] = now[q] /\ pc'[q] = pc[q]
    BY <1>4, <2>1, <1>0 DEF Goto
  <2>3. Holding(pc'[p], now'[p], batch'[p], seen'[p], delivered, dead, overtaken)
    BY <1>2, <2>2
  <2>4. Sound(local'[p], Done, Excused)
    BY <1>1, <2>2
  <2> QED BY <1>4, <2>2, <2>3, <2>4, QuietStep
<1>5. CASE Refresh(p)
  BY <1>5, <1>1, QuietStep DEF Refresh
<1> QED
  BY <1>3, <1>4, <1>5
     DEF Start, Claim, ClaimRefused, NoEvents, ResetRetryState, ReadRetryCount,
         RetriesExhausted, RecordError, ReleaseLock, Reject, Crash, Goto, Steps

(* fetchAfterId, in the loop and in moveFirstEventToDLQ. *)
LEMMA IndFetch ==
  ASSUME IndInv, TypeOK', NEW p \in Procs, Fetch(p) \/ FetchVictim(p)
  PROVE  IndInv'
<1> USE DEF rowVars
<1>0. /\ pc \in [Procs -> Steps] /\ batch \in [Procs -> SUBSET Ids]
      /\ Sound(local[p], Done, Excused) /\ seen[p] \subseteq delivered
  BY DEF IndInv, TypeOK, Holding
<1>1. PICK n \in Nat, step \in {"process", "release", "dlqInsert"} :
        /\ UNCHANGED <<dbVars, stored, logVars, local, seen, now>>
        /\ pc' = [pc EXCEPT ![p] = step]
        /\ batch' = [batch EXCEPT ![p] = FirstOf(Fetchable(p), n)]
  BY CountsAssumption DEF Fetch, FetchVictim, Goto
<1>2. /\ pc'[p] = step /\ batch'[p] = FirstOf(Fetchable(p), n)
      /\ local'[p] = local[p] /\ seen'[p] = seen[p]
      /\ \A q \in Procs \ {p} :
           /\ local'[q] = local[q] /\ batch'[q] = batch[q] /\ seen'[q] = seen[q]
           /\ now'[q] = now[q] /\ pc'[q] = pc[q]
  BY <1>0, <1>1
<1>3. /\ batch'[p] \subseteq Committed
      /\ Below(batch'[p], delivered \cup dead \cup overtaken \cup batch'[p])
  BY <1>2, FetchedCanBeHeld
<1>4. Holding(pc'[p], now'[p], batch'[p], seen'[p], delivered, dead, overtaken)
  BY <1>0, <1>2, <1>3 DEF Holding
<1> QED BY <1>0, <1>1, <1>2, <1>4, QuietStep

(* The handler takes the lowest event in hand, so what is finished stays   *)
(* closed downwards.                                                       *)
LEMMA IndHandle ==
  ASSUME IndInv, TypeOK', NEW p \in Procs, NEW i \in Ids, Handle(p, i)
  PROVE  IndInv'
<1>0. /\ pc \in [Procs -> Steps] /\ batch \in [Procs -> SUBSET Ids]
      /\ seen \in [Procs -> SUBSET Ids] /\ local[p] \in CompactState
      /\ Sound(local[p], Done, Excused) /\ Sound(stored, Done, Excused)
      /\ stored.cursor \in Int
      /\ Holding(pc[p], now[p], batch[p], seen[p], delivered, dead, overtaken)
      /\ Done \subseteq Committed /\ Below(Done, Done \cup overtaken)
  BY DEF IndInv, TypeOK, CompactState
<1>1. /\ UNCHANGED <<dbVars, stored, local, now, dead, alarmed, dlqSkip, overtaken>>
      /\ delivered' = delivered \cup {i}
      /\ batch' = [batch EXCEPT ![p] = @ \ {i}]
      /\ seen' = [seen EXCEPT ![p] = @ \cup {i}]
      /\ i \in batch[p] /\ \A j \in batch[p] : i <= j
  BY DEF Handle, IsNext, rowVars
<1>2. PICK step \in {"process", "compact"} : pc' = [pc EXCEPT ![p] = step]
  BY DEF Handle, Goto
<1>3. /\ pc'[p] = step /\ batch'[p] = batch[p] \ {i} /\ seen'[p] = seen[p] \cup {i}
      /\ local'[p] = local[p] /\ now'[p] = now[p]
      /\ \A q \in Procs \ {p} :
           /\ local'[q] = local[q] /\ batch'[q] = batch[q] /\ seen'[q] = seen[q]
           /\ now'[q] = now[q] /\ pc'[q] = pc[q]
  BY <1>0, <1>1, <1>2
<1>4. Done' = Done \cup {i} /\ Excused' = Excused
  BY <1>1 DEF Done, Excused
<1>5. Done' \subseteq Committed
  BY <1>0, <1>1, <1>4 DEF Holding
<1>6. \A k \in Committed : k < i => k \in Done \cup overtaken
  <2>1. \A k \in Ids : k < i => ~(i <= k)
    BY DEF Ids
  <2>2. Committed \subseteq Ids
    BY DEF IndInv, TypeOK, Committed
  <2> QED BY <2>1, <2>2, <1>0, <1>1 DEF Holding, Below, Done
<1>7. Below(Done', Done' \cup overtaken)
  BY <1>0, <1>4, <1>6 DEF Below
<1>8. Sound(stored', Done', Excused') /\ Sound(local'[p], Done', Excused')
  BY <1>0, <1>1, <1>3, <1>4, SoundGrows
<1>9. Holding(pc'[p], now'[p], batch'[p], seen'[p], delivered', dead', overtaken)
  <2>1. Below(batch'[p], delivered' \cup dead' \cup overtaken \cup batch'[p])
    BY <1>0, <1>1, <1>3 DEF Holding, Below
  <2> QED BY <1>0, <1>1, <1>2, <1>3, <2>1 DEF Holding
<1>10. stored'.cursor >= stored.cursor
  BY <1>0, <1>1
<1> QED BY <1>1, <1>3, <1>5, <1>7, <1>8, <1>9, <1>10, ProcStep

LEMMA IndThrow ==
  ASSUME IndInv, TypeOK', NEW p \in Procs, NEW i \in Ids, Throw(p, i)
  PROVE  IndInv'
<1>0. /\ pc \in [Procs -> Steps] /\ stored.cursor \in Int
      /\ Sound(local[p], Done, Excused) /\ Sound(stored, Done, Excused)
      /\ Holding(pc[p], now[p], batch[p], seen[p], delivered, dead, overtaken)
      /\ Done \subseteq Committed /\ Below(Done, Done \cup overtaken)
  BY DEF IndInv, TypeOK, CompactState
<1>1. UNCHANGED <<dbVars, stored, local, now, batch, seen, delivered, dead, alarmed,
                  dlqSkip, overtaken>>
  BY DEF Throw, rowVars
<1>2. PICK step \in {"recordError", "compact"} : pc' = [pc EXCEPT ![p] = step]
  BY DEF Throw, Goto
<1>3. /\ pc'[p] = step /\ batch'[p] = batch[p] /\ seen'[p] = seen[p]
      /\ local'[p] = local[p] /\ now'[p] = now[p]
      /\ \A q \in Procs \ {p} :
           /\ local'[q] = local[q] /\ batch'[q] = batch[q] /\ seen'[q] = seen[q]
           /\ now'[q] = now[q] /\ pc'[q] = pc[q]
  BY <1>0, <1>1, <1>2
<1>4. Done' = Done /\ Excused' = Excused
  BY <1>1 DEF Done, Excused
<1>5. Holding(pc'[p], now'[p], batch'[p], seen'[p], delivered', dead', overtaken)
  BY <1>0, <1>1, <1>2, <1>3 DEF Holding
<1>6. stored'.cursor >= stored.cursor
  BY <1>0, <1>1
<1>7. Sound(stored', Done', Excused') /\ Sound(local'[p], Done', Excused')
  BY <1>0, <1>1, <1>3, <1>4
<1> QED BY <1>0, <1>1, <1>3, <1>4, <1>5, <1>6, <1>7, ProcStep

(* The query for the oldest transaction comes after the clock was read:    *)
(* what may fill a gap below the batch has begun by then.                  *)
LEMMA IndGapFound ==
  ASSUME IndInv, TypeOK', NEW p \in Procs, GapFound(p)
  PROVE  IndInv'
<1> USE DEF rowVars
<1>0. /\ pc \in [Procs -> Steps] /\ now \in [Procs -> Int]
      /\ Sound(local[p], Done, Excused)
      /\ Holding(pc[p], now[p], batch[p], seen[p], delivered, dead, overtaken)
  BY DEF IndInv, TypeOK
<1>1. PICK time \in AppClock :
        /\ now' = [now EXCEPT ![p] = time] /\ pc' = [pc EXCEPT ![p] = "liveness"]
        /\ UNCHANGED <<dbVars, stored, logVars, local, batch, seen>>
  BY DEF GapFound, Goto
<1>2. /\ pc'[p] = "liveness" /\ now'[p] = time
      /\ batch'[p] = batch[p] /\ seen'[p] = seen[p] /\ local'[p] = local[p]
      /\ \A q \in Procs \ {p} :
           /\ local'[q] = local[q] /\ batch'[q] = batch[q] /\ seen'[q] = seen[q]
           /\ now'[q] = now[q] /\ pc'[q] = pc[q]
  BY <1>0, <1>1
<1>3. \A j \in seen[p] : BegunBy(j, time)
  BY BegunByNow
<1>4. Holding(pc'[p], now'[p], batch'[p], seen'[p], delivered, dead, overtaken)
  BY <1>0, <1>2, <1>3 DEF Holding
<1> QED BY <1>0, <1>1, <1>2, <1>4, QuietStep

(* A compaction whose result is sound, for Compact and CompactWithGapGuard. *)
LEMMA IndCompacted ==
  ASSUME IndInv, TypeOK', NEW p \in Procs, NEW c, Compacted(p, c),
         UNCHANGED <<dbVars, stored, batch, delivered, dead, dlqSkip, overtaken>>,
         alarmed \subseteq alarmed', Sound(c, Done, Excused')
  PROVE  IndInv'
<1>0. /\ pc \in [Procs -> Steps] /\ stored.cursor \in Int
      /\ local \in [Procs -> CompactState] /\ seen \in [Procs -> SUBSET Ids]
      /\ now \in [Procs -> Int]
      /\ Sound(stored, Done, Excused)
      /\ Holding(pc[p], now[p], batch[p], seen[p], delivered, dead, overtaken)
      /\ Done \subseteq Committed /\ Below(Done, Done \cup overtaken)
  BY DEF IndInv, TypeOK, CompactState
<1>1. /\ pc' = [pc EXCEPT ![p] = "persist"] /\ local' = [local EXCEPT ![p] = c]
      /\ seen' = [seen EXCEPT ![p] = {}] /\ now' = [now EXCEPT ![p] = 0]
  BY DEF Compacted, Goto
<1>2. /\ pc'[p] = "persist" /\ local'[p] = c /\ seen'[p] = {} /\ batch'[p] = batch[p]
      /\ \A q \in Procs \ {p} :
           /\ local'[q] = local[q] /\ batch'[q] = batch[q] /\ seen'[q] = seen[q]
           /\ now'[q] = now[q] /\ pc'[q] = pc[q]
  BY <1>0, <1>1
<1>3. Done' = Done /\ Excused \subseteq Excused'
  BY DEF Done, Excused
<1>4. Holding(pc'[p], now'[p], batch'[p], seen'[p], delivered', dead', overtaken)
  BY <1>0, <1>2 DEF Holding
<1>5. Sound(stored', Done', Excused') /\ Sound(local'[p], Done', Excused')
  BY <1>0, <1>2, <1>3, SoundGrows
<1>6. stored'.cursor >= stored.cursor
  BY <1>0
<1> QED BY <1>0, <1>2, <1>3, <1>4, <1>5, <1>6, ProcStep

(* Without a gap every id between the cursor and a tracked id is tracked,  *)
(* so no live id is passed.                                                *)
LEMMA IndCompact ==
  ASSUME IndInv, TypeOK', NEW p \in Procs, Compact(p)
  PROVE  IndInv'
<1>1. PICK time \in AppClock :
        Compacted(p, CompactByAge(local[p].cursor, Merge(local[p].window, seen[p], time),
                                  time, GapWindow))
  BY DEF Compact
<1> DEFINE w == Merge(local[p].window, seen[p], time)
           E == Aged(w, time, GapWindow)
<1>2. ~HasGap(p) /\ UNCHANGED <<dbVars, stored, batch, delivered, dead, dlqSkip, overtaken>>
      /\ alarmed' = alarmed
  BY DEF Compact, rowVars, logVars
<1>3. time \in Int
  BY BoundsAssumption, SkewAssumption DEF AppClock, IndInv, TypeOK
<1>4. /\ w \in Windows
      /\ Tracked(w) = Tracked(local[p].window) \cup seen[p]
      /\ Tracked(w) \subseteq Done
      /\ \A j \in Tracked(w) : BegunBy(j, w[j])
  BY <1>3, BegunByNow, MergeSound
<1>5. E \in SUBSET Tracked(w)
  BY ExpiredAreTracked
<1>6. /\ local[p].cursor \in 0..MaxId /\ local[p].cursor \in {0} \cup Done
      /\ \A t \in RunningTxns : \A i \in txn[t].ids : i <= local[p].cursor => i \in Excused
  BY DEF IndInv, TypeOK, CompactState, Sound
<1> HIDE DEF w, E
<1>7. ASSUME NEW t \in RunningTxns, NEW i \in txn[t].ids,
             i <= local[p].cursor \/ \E j \in E : i < j
      PROVE  i \in Excused
  <2>1. i \notin Tracked(w) /\ i \in Ids
    BY <1>4, RunningNotDone
  <2>2. CASE i <= local[p].cursor
    BY <1>6, <2>2
  <2>3. ASSUME NEW j \in E, i < j, ~(i <= local[p].cursor) PROVE FALSE
    <3>1. j \in Tracked(w) /\ j \in Ids
      BY <1>5 DEF Tracked
    <3>2. j > local[p].cursor /\ i \in (local[p].cursor + 1)..j
      BY <2>1, <2>3, <3>1, <1>6 DEF Ids
    <3>3. (local[p].cursor + 1)..j \subseteq Tracked(w)
      BY <1>2, <1>4, <3>1, <3>2 DEF HasGap, HasUnfilledGaps
    <3> QED BY <2>1, <3>2, <3>3
  <2> QED BY <1>7, <2>2, <2>3
<1>8. Sound(Advance(local[p].cursor, w, E), Done, Excused)
  BY <1>4, <1>5, <1>6, <1>7, AdvanceSound
<1>9. Excused' = Excused
  BY <1>2 DEF Excused
<1>10. Compacted(p, Advance(local[p].cursor, w, E))
  BY <1>1 DEF CompactByAge, w, E
<1> QED BY <1>2, <1>8, <1>9, <1>10, IndCompacted

(* With a gap: what the liveness proof lets pass is dead, and what only    *)
(* the ceiling lets pass is alarmed.                                       *)
LEMMA IndCompactWithGapGuard ==
  ASSUME IndInv, TypeOK', NEW p \in Procs, CompactWithGapGuard(p)
  PROVE  IndInv'
<1> DEFINE w == Merge(local[p].window, seen[p], now[p])
           P == Aged(w, now[p], GapWindow) \cap Proven(w, OldestRunningTxnStart, SkewPad)
           E == Aged(w, now[p], GapWindow)
                  \cap (Proven(w, OldestRunningTxnStart, SkewPad)
                          \cup Aged(w, now[p], GapCeiling))
           held == Advance(local[p].cursor, w, P)
           guarded == Advance(local[p].cursor, w, E)
<1>1. /\ Compacted(p, guarded) /\ pc[p] = "liveness"
      /\ alarmed' = alarmed \cup ((held.cursor + 1)..guarded.cursor)
      /\ UNCHANGED <<dbVars, stored, batch, delivered, dead, dlqSkip, overtaken>>
  BY DEF CompactWithGapGuard, CompactGuarded, CompactProven, rowVars
<1>2. now[p] \in Int /\ \A j \in seen[p] : BegunBy(j, now[p])
  BY <1>1 DEF IndInv, TypeOK, Holding
<1>3. /\ w \in Windows
      /\ Tracked(w) \subseteq Done
      /\ \A j \in Tracked(w) : BegunBy(j, w[j])
  BY <1>2, MergeSound
<1>4. P \in SUBSET Tracked(w) /\ E \in SUBSET Tracked(w)
  BY ExpiredAreTracked
<1>5. /\ local[p].cursor \in 0..MaxId /\ local[p].cursor \in {0} \cup Done
      /\ \A t \in RunningTxns : \A i \in txn[t].ids : i <= local[p].cursor => i \in Excused
  BY DEF IndInv, TypeOK, CompactState, Sound
<1>6. P \subseteq Proven(w, OldestRunningTxnStart, SkewPad)
  OBVIOUS
<1> HIDE DEF w, P, E
<1>7. ASSUME NEW t \in RunningTxns, NEW i \in txn[t].ids,
             i <= local[p].cursor \/ \E j \in P : i < j
      PROVE  i \in Excused
  <2>1. ASSUME NEW j \in P, i < j PROVE FALSE
    BY <2>1, <1>3, <1>4, <1>6, ProvenGapsAreDead
  <2> QED BY <1>5, <1>7, <2>1
<1>8. Sound(held, Done, Excused)
  BY <1>3, <1>4, <1>5, <1>7, AdvanceSound
<1>9. Sound(guarded, Done, Ids)
  BY <1>3, <1>4, <1>5, RunningNotDone, AdvanceSound
<1>10. held.cursor \in 0..MaxId /\ guarded.cursor \in 0..MaxId
  BY <1>3, <1>4, <1>5, AdvanceIsJustified
<1> HIDE DEF held, guarded
<1>11. ASSUME NEW t \in RunningTxns, NEW i \in txn[t].ids, i <= guarded.cursor
       PROVE  i \in Excused'
  <2>1. i \in Ids
    BY RunningNotDone
  <2>2. CASE i <= held.cursor
    BY <1>1, <1>8, <2>2 DEF Sound, Excused
  <2>3. CASE ~(i <= held.cursor)
    BY <1>1, <1>10, <1>11, <2>1, <2>3 DEF Excused, Ids
  <2> QED BY <2>2, <2>3
<1>12. Sound(guarded, Done, Excused')
  BY <1>9, <1>11 DEF Sound
<1> QED BY <1>1, <1>12, IndCompacted

(* A stale holder may write as well: GREATEST and the soundness of what it *)
(* holds are enough.                                                       *)
LEMMA StoreSound ==
  ASSUME stored \in CompactState, NEW c \in CompactState, Store(c), NEW d, NEW e,
         Sound(stored, d, e), Sound(c, d, e)
  PROVE  Sound(stored', d, e)
<1>1. stored'.cursor \in {stored.cursor, c.cursor} /\ stored'.window = c.window
  BY StoreType DEF Store
<1> QED BY <1>1 DEF Sound

LEMMA IndPersist ==
  ASSUME IndInv, TypeOK', NEW p \in Procs, PersistProcessedState(p)
  PROVE  IndInv'
<1>0. /\ pc \in [Procs -> Steps]
      /\ stored \in CompactState /\ local[p] \in CompactState
      /\ Sound(stored, Done, Excused) /\ Sound(local[p], Done, Excused)
      /\ Holding(pc[p], now[p], batch[p], seen[p], delivered, dead, overtaken)
      /\ Done \subseteq Committed /\ Below(Done, Done \cup overtaken)
  BY DEF IndInv, TypeOK
<1>1. /\ Store(local[p])
      /\ UNCHANGED <<dbVars, local, now, batch, seen, delivered, dead, alarmed,
                     dlqSkip, overtaken>>
  BY DEF PersistProcessedState, logVars
<1>2. PICK step \in {"recordError", "fetch"} : pc' = [pc EXCEPT ![p] = step]
  BY DEF PersistProcessedState, Goto
<1>3. /\ pc'[p] = step /\ batch'[p] = batch[p] /\ seen'[p] = seen[p]
      /\ local'[p] = local[p] /\ now'[p] = now[p]
      /\ \A q \in Procs \ {p} :
           /\ local'[q] = local[q] /\ batch'[q] = batch[q] /\ seen'[q] = seen[q]
           /\ now'[q] = now[q] /\ pc'[q] = pc[q]
  BY <1>0, <1>1, <1>2
<1>4. Done' = Done /\ Excused' = Excused
  BY <1>1 DEF Done, Excused
<1>5. Holding(pc'[p], now'[p], batch'[p], seen'[p], delivered', dead', overtaken)
  BY <1>0, <1>1, <1>2, <1>3 DEF Holding
<1>6. stored'.cursor >= stored.cursor
  BY <1>0, <1>1, StoreType
<1>7. Sound(stored', Done, Excused)
  BY <1>0, <1>1, StoreSound
<1>8. Sound(stored', Done', Excused') /\ Sound(local'[p], Done', Excused')
  BY <1>0, <1>3, <1>4, <1>7
<1> QED BY <1>0, <1>1, <1>3, <1>4, <1>5, <1>6, <1>8, ProcStep

LEMMA IndInsertDeadLetter ==
  ASSUME IndInv, TypeOK', NEW p \in Procs, InsertDeadLetter(p)
  PROVE  IndInv'
<1>0. /\ pc \in [Procs -> Steps] /\ stored.cursor \in Int
      /\ Sound(stored, Done, Excused) /\ Sound(local[p], Done, Excused)
      /\ Holding(pc[p], now[p], batch[p], seen[p], delivered, dead, overtaken)
      /\ Done \subseteq Committed /\ Below(Done, Done \cup overtaken)
  BY DEF IndInv, TypeOK, CompactState
<1>1. /\ pc' = [pc EXCEPT ![p] = "dlqAdvance"] /\ dead' = dead \cup batch[p]
      /\ UNCHANGED <<dbVars, stored, local, now, batch, seen, delivered, alarmed,
                     dlqSkip, overtaken>>
  BY DEF InsertDeadLetter, Goto, rowVars
<1>2. /\ pc'[p] = "dlqAdvance" /\ batch'[p] = batch[p] /\ seen'[p] = seen[p]
      /\ local'[p] = local[p] /\ now'[p] = now[p]
      /\ \A q \in Procs \ {p} :
           /\ local'[q] = local[q] /\ batch'[q] = batch[q] /\ seen'[q] = seen[q]
           /\ now'[q] = now[q] /\ pc'[q] = pc[q]
  BY <1>0, <1>1
<1>3. Done' = Done \cup batch[p] /\ Excused' = Excused
  BY <1>1 DEF Done, Excused
<1>4. Done' \subseteq Committed
  BY <1>0, <1>3 DEF Holding
<1>5. Below(Done', Done' \cup overtaken)
  BY <1>0, <1>3 DEF Holding, Below, Done
<1>6. Sound(stored', Done', Excused') /\ Sound(local'[p], Done', Excused')
  BY <1>0, <1>1, <1>2, <1>3, SoundGrows
<1>7. Holding(pc'[p], now'[p], batch'[p], seen'[p], delivered', dead', overtaken)
  BY <1>0, <1>1, <1>2 DEF Holding, Below
<1>8. stored'.cursor >= stored.cursor
  BY <1>0, <1>1
<1> QED BY <1>1, <1>2, <1>4, <1>5, <1>6, <1>7, <1>8, ProcStep

(* Every entry has expired, so the window that is stored is empty, and     *)
(* what the cursor moved over is recorded.                                 *)
LEMMA IndAdvancePastDeadLetter ==
  ASSUME IndInv, TypeOK', NEW p \in Procs, AdvancePastDeadLetter(p)
  PROVE  IndInv'
<1> DEFINE S == Tracked(local[p].window) \cup batch[p]
           w == Merge(NoEntries, S, 0)
           E == Aged(w, 0, 0)
           c == Advance(local[p].cursor, w, E)
<1>0. /\ pc \in [Procs -> Steps]
      /\ stored \in CompactState /\ local[p] \in CompactState
      /\ batch[p] \in SUBSET Ids
      /\ Sound(stored, Done, Excused) /\ Sound(local[p], Done, Excused)
      /\ Holding(pc[p], now[p], batch[p], seen[p], delivered, dead, overtaken)
      /\ Done \subseteq Committed /\ Below(Done, Done \cup overtaken)
  BY DEF IndInv, TypeOK
<1>1. /\ pc[p] = "dlqAdvance" /\ pc' = [pc EXCEPT ![p] = "release"] /\ Store(c)
      /\ dlqSkip' = dlqSkip \cup ((local[p].cursor + 1)..c.cursor)
      /\ UNCHANGED <<dbVars, local, now, batch, seen, delivered, dead, alarmed, overtaken>>
  BY DEF AdvancePastDeadLetter, CompactByAge, Goto
<1>2. /\ pc'[p] = "release" /\ batch'[p] = batch[p] /\ seen'[p] = seen[p]
      /\ local'[p] = local[p] /\ now'[p] = now[p]
      /\ \A q \in Procs \ {p} :
           /\ local'[q] = local[q] /\ batch'[q] = batch[q] /\ seen'[q] = seen[q]
           /\ now'[q] = now[q] /\ pc'[q] = pc[q]
  BY <1>0, <1>1
<1>3. Done' = Done /\ Excused' = Excused \cup dlqSkip'
  BY <1>1 DEF Done, Excused
<1>4. S \subseteq Done /\ S \in SUBSET Ids
  BY <1>0, <1>1 DEF Sound, Holding, Done, Tracked
<1>5. w \in Windows /\ Tracked(w) \subseteq S /\ \A i \in S : w[i] = 0
  <2> HIDE DEF S
  <2>2. \A i \in Ids : w[i] = IF i \in S THEN 0 ELSE None
    BY DEF Merge, NoEntries
  <2>3. w \in Windows
    BY DEF Merge, NoEntries, Windows
  <2> HIDE DEF w
  <2> QED BY <2>2, <2>3, <1>4 DEF Tracked
<1>6. E \in SUBSET Tracked(w) /\ Tracked(w) \subseteq E /\ Tracked(w) \subseteq Ids
  <2> HIDE DEF w, S
  <2>1. \A i \in Tracked(w) : w[i] <= 0 - 0
    BY <1>5
  <2> QED BY <2>1 DEF Aged, Tracked
<1>7. local[p].cursor \in 0..MaxId
  BY <1>0 DEF CompactState
<1> HIDE DEF w, E, S
<1>8. /\ c.cursor \in 0..MaxId
      /\ c.cursor \in Tracked(w) \cup {local[p].cursor}
      /\ \A i \in Ids : c.window[i] = IF i > c.cursor THEN w[i] ELSE None
      /\ \A j \in E : c.cursor >= j
  BY <1>5, <1>6, <1>7, AdvanceIsJustified
<1>9. c \in CompactState
  BY <1>5, <1>6, <1>7, AdvanceType
<1> HIDE DEF c
<1>10. Tracked(c.window) = {}
  <2> SUFFICES ASSUME NEW i \in Ids, c.window[i] # None PROVE FALSE
    BY DEF Tracked
  <2>1. i > c.cursor /\ w[i] # None
    BY <1>8
  <2>2. i \in E
    BY <2>1, <1>6 DEF Tracked
  <2> QED BY <2>1, <2>2, <1>8 DEF Ids
<1>11. ASSUME NEW t \in RunningTxns, NEW i \in txn[t].ids, i <= c.cursor
       PROVE  i \in Excused'
  <2>1. i \in Ids
    BY RunningNotDone
  <2>2. CASE i <= local[p].cursor
    BY <1>0, <1>3, <2>2 DEF Sound
  <2>3. CASE ~(i <= local[p].cursor)
    BY <1>1, <1>3, <1>7, <1>8, <1>11, <2>1, <2>3 DEF Ids
  <2> QED BY <2>2, <2>3
<1>12. c.cursor \in {0} \cup Done
  BY <1>0, <1>4, <1>5, <1>8 DEF Sound
<1>13. Sound(c, Done', Excused')
  BY <1>3, <1>10, <1>11, <1>12 DEF Sound
<1>14. Sound(stored, Done', Excused') /\ Sound(local'[p], Done', Excused')
  BY <1>0, <1>2, <1>3, SoundGrows
<1>15. Sound(stored', Done', Excused')
  BY <1>0, <1>1, <1>9, <1>13, <1>14, StoreSound
<1>16. Holding(pc'[p], now'[p], batch'[p], seen'[p], delivered', dead', overtaken)
  BY <1>0, <1>1, <1>2 DEF Holding
<1>17. stored'.cursor >= stored.cursor
  BY <1>0, <1>1, <1>9, StoreType
<1> QED BY <1>0, <1>1, <1>2, <1>3, <1>14, <1>15, <1>16, <1>17, ProcStep

LEMMA IndNext == IndInv /\ [Next]_vars => IndInv'
<1> SUFFICES ASSUME IndInv, [Next]_vars PROVE IndInv'
  OBVIOUS
<1>0. TypeOK'
  BY TypeNext DEF IndInv
<1>1. ASSUME NEW t \in Txns, Write(t) PROVE IndInv'
  BY <1>0, <1>1, IndWrite
<1>2. ASSUME (\E i \in Ids : Purge(i)) \/ Tick \/ UNCHANGED vars PROVE IndInv'
  BY <1>0, <1>2, IndEnvironment
<1>3. ASSUME NEW p \in Procs, Start(p) \/ Work(p) \/ Refresh(p) \/ Reject(p) \/ Crash(p)
      PROVE  IndInv'
  <2>1. ASSUME NEW i \in Ids, Handle(p, i) \/ Throw(p, i) PROVE IndInv'
    BY <1>0, <2>1, IndHandle, IndThrow
  <2>2. ASSUME \/ Fetch(p) \/ FetchVictim(p) \/ GapFound(p) \/ Compact(p)
               \/ CompactWithGapGuard(p)
        PROVE  IndInv'
    BY <1>0, <2>2, IndFetch, IndGapFound, IndCompact, IndCompactWithGapGuard
  <2>3. ASSUME PersistProcessedState(p) \/ InsertDeadLetter(p) \/ AdvancePastDeadLetter(p)
        PROVE  IndInv'
    BY <1>0, <2>3, IndPersist, IndInsertDeadLetter, IndAdvancePastDeadLetter
  <2>4. ASSUME \/ Start(p) \/ Claim(p) \/ ClaimRefused(p) \/ Refresh(p) \/ NoEvents(p)
               \/ ResetRetryState(p) \/ ReadRetryCount(p) \/ RetriesExhausted(p)
               \/ RecordError(p) \/ ReleaseLock(p) \/ Reject(p) \/ Crash(p)
        PROVE  IndInv'
    BY <1>0, <2>4, IndControl
  <2> QED BY <1>3, <2>1, <2>2, <2>3, <2>4 DEF Work
<1> QED BY <1>1, <1>2, <1>3 DEF Next

(* The inductive invariant holds in every reachable state. *)
THEOREM Inductive == Spec => []IndInv
<1> QED BY IndInit, IndNext, PTL DEF Spec

(* GapGuardSound for every number of processes, transactions and ids and   *)
(* every setting of the windows: compactWithGapGuard never lets the stored *)
(* cursor pass the id of a running transaction without an alarm.           *)
THEOREM GapGuardIsSound == Spec => []GapGuardSound
<1>1. IndInv => GapGuardSound
  BY DEF IndInv, Sound, Excused, GapGuardSound
<1> QED BY <1>1, Inductive, PTL

(* InOrderNeverLost: what the stored cursor has passed was handled or      *)
(* dead-lettered, or became visible only after a higher id was fetched.    *)
THEOREM NothingInOrderIsLost == Spec => []InOrderNeverLost
<1>1. IndInv => InOrderNeverLost
  <2> SUFFICES ASSUME IndInv, NEW i \in Committed, i <= stored.cursor
               PROVE  i \in Done \cup overtaken
    BY DEF InOrderNeverLost, Done
  <2>1. i \in Nat \ {0} /\ stored.cursor \in Int
    BY DEF IndInv, TypeOK, Committed, Ids, CompactState
  <2>2. stored.cursor \in Done
    BY <2>1 DEF IndInv, Sound
  <2>3. CASE i < stored.cursor
    BY <2>2, <2>3 DEF IndInv, Below
  <2>4. CASE i = stored.cursor
    BY <2>2, <2>4
  <2> QED BY <2>1, <2>3, <2>4
<1> QED BY <1>1, Inductive, PTL

(***************************************************************************)
(* Without a crash, a rejected statement or a lock theft                   *)
(***************************************************************************)

(* The cursor or the window stands for an event. *)
Accounts(c, i) == i <= c.cursor \/ i \in Tracked(c.window)

InRun(p) == pc[p] \notin {"idle", "claim", "release"}
OneWorker == \A p, q \in Procs : Working(p) /\ Working(q) => p = q

(* The batch is the front of what can be fetched, but for what slipped in. *)
AtFront(p) ==
  /\ batch[p] # {} /\ batch[p] \subseteq Fetchable(p)
  /\ \A v \in Fetchable(p) : (\A i \in batch[p] : v < i) => v \in overtaken

(* The first event of the batch threw, and none was handled before it. *)
Blamed(p) == AtFront(p) /\ \A i \in Ids : IsNext(p, i) => i \in threw

(* What leads moveFirstEventToDLQ to its victim.  A batch that got         *)
(* anything done has reset the retries, so it does not exhaust them.       *)
Victim(p) ==
  /\ pc[p] = "process" /\ seen[p] = {} => AtFront(p)
  /\ pc[p] = "recordError" /\ retry.count + 1 > MaxRetries => Blamed(p)
  /\ pc[p] = "dlqFetch" => Blamed(p)
  /\ pc[p] = "dlqInsert" => batch[p] \subseteq threw \cup overtaken

(* The one process in run() works on what the row says, and what was ever  *)
(* delivered is in its cursor, in its window or in the batch at hand.      *)
InStep(p) ==
  /\ InRun(p) => IF pc[p] = "persist" THEN stored.cursor <= local[p].cursor
                                      ELSE local[p] = stored
  /\ pc[p] \notin {"process", "compact", "liveness"} => seen[p] = {}
  /\ InRun(p) => \A i \in delivered : Accounts(local[p], i) \/ i \in seen[p]
  /\ pc[p] = "process" => batch[p] \cap delivered = {}
  /\ MaxRetries > 0 => Victim(p)

Calm ==
  /\ OneWorker
  /\ \A p \in Procs : InStep(p)
  /\ (\A p \in Procs : ~InRun(p)) => \A i \in delivered : Accounts(stored, i)
  /\ redelivered = {}
  /\ MaxRetries > 0 => dead \subseteq threw \cup overtaken

CalmInv == TypeOK /\ (~disturbed => Calm)

(* compact() forgets no event. *)
LEMMA AdvanceAccounts ==
  ASSUME NEW cursor \in 0..MaxId, NEW w \in Windows, NEW E \in SUBSET Tracked(w), NEW i \in Ids,
         i <= cursor \/ i \in Tracked(w)
  PROVE  Accounts(Advance(cursor, w, E), i) /\ Advance(cursor, w, E).cursor >= cursor
<1> DEFINE c == Advance(cursor, w, E)
<1>1. /\ c.cursor \in 0..MaxId /\ c.cursor >= cursor
      /\ \A j \in Ids : c.window[j] = IF j > c.cursor THEN w[j] ELSE None
  BY AdvanceIsJustified
<1> HIDE DEF c
<1>2. i \in Int /\ cursor \in Int /\ c.cursor \in Int BY <1>1 DEF Ids
<1>3. CASE i <= c.cursor BY <1>1, <1>3 DEF Accounts, c
<1>4. CASE i > c.cursor
  <2>1. i \in Tracked(w) BY <1>1, <1>2, <1>4
  <2>2. i \in Tracked(c.window) BY <1>1, <1>4, <2>1 DEF Tracked
  <2> QED BY <1>1, <2>2 DEF Accounts, c
<1> QED BY <1>2, <1>3, <1>4

(* A process whose step leaves it out of run(). *)
LEMMA OutOfRun ==
  ASSUME NEW p \in Procs, pc[p] \in {"idle", "claim"}, seen[p] = {}
  PROVE  InStep(p) /\ ~Working(p) /\ ~InRun(p)
BY DEF InStep, InRun, Victim, Working

(* While one process works, only its step counts. *)
LEMMA LoneStep ==
  ASSUME CalmInv, Calm, NEW p \in Procs, TypeOK',
         \A q \in Procs \ {p} : ~Working(q) /\ pc'[q] = pc[q] /\ seen'[q] = seen[q],
         InStep(p)',
         ~InRun(p)' => \A i \in delivered' : Accounts(stored', i),
         redelivered' = {},
         MaxRetries > 0 => dead' \subseteq threw' \cup overtaken'
  PROVE  CalmInv'
<1>1. ASSUME NEW q \in Procs \ {p} PROVE InStep(q)' /\ ~Working(q)' /\ ~InRun(q)'
  <2>1. pc[q] \in {"idle", "claim"} BY DEF Working
  <2>2. seen[q] = {} BY <2>1 DEF Calm, InStep
  <2>3. pc'[q] \in {"idle", "claim"} /\ seen'[q] = {} BY <2>1, <2>2
  <2> QED BY <2>3 DEF InStep, InRun, Victim, Working
<1>2. OneWorker' BY <1>1 DEF OneWorker
<1>3. \A q \in Procs : InStep(q)' BY <1>1
<1> QED BY <1>2, <1>3 DEF Calm, CalmInv

LEMMA CalmInit == Init => CalmInv
<1> SUFFICES ASSUME Init PROVE CalmInv
  OBVIOUS
<1>1. \A p \in Procs : pc[p] = "idle" /\ seen[p] = {} BY DEF Init
<1>2. \A p \in Procs : InStep(p) /\ ~Working(p) /\ ~InRun(p) BY <1>1, OutOfRun
<1>3. delivered = {} /\ redelivered = {} /\ dead = {} BY DEF Init
<1>4. Calm BY <1>2, <1>3 DEF Calm, OneWorker
<1> QED BY <1>4, TypeInit DEF CalmInv

(* The least of a set of events. *)
LEMMA LeastEvent ==
  ASSUME NEW S \in SUBSET Ids, S # {}
  PROVE  \E i \in S : \A j \in S : i <= j
<1>1. S \in SUBSET Nat BY DEF Ids
<1> QED BY <1>1, MinNat

(* A fetch returns the least event that can be fetched. *)
LEMMA FirstOfNotEmpty ==
  ASSUME NEW S \in SUBSET Ids, S # {}, NEW n \in Nat \ {0}
  PROVE  FirstOf(S, n) # {}
<1>1. PICK i \in S : \A j \in S : i <= j BY LeastEvent
<1>2. \A j \in S : j \in Int BY DEF Ids
<1>3. {j \in S : j < i} = {} BY <1>1, <1>2
<1>4. i \in FirstOf(S, n) BY <1>3, FS_EmptySet DEF FirstOf
<1> QED BY <1>4

LEMMA FirstOfOneIsLeast ==
  ASSUME NEW S \in SUBSET Ids, NEW v \in FirstOf(S, 1)
  PROVE  \A j \in S : ~(j < v)
<1> SUFFICES ASSUME NEW j \in S, j < v PROVE FALSE
  OBVIOUS
<1> DEFINE B == {k \in S : k < v}
<1>1. IsFiniteSet(B)
  <2>1. IsFiniteSet(Ids) BY FS_Interval, MaxIdAssumption DEF Ids
  <2>2. B \in SUBSET Ids OBVIOUS
  <2> QED BY <2>1, <2>2, FS_Subset
<1>2. Cardinality(B) < 1 BY DEF FirstOf
<1>3. Cardinality(B) \in Nat BY <1>1, FS_CardinalityType
<1>4. Cardinality(B) = 0 BY <1>2, <1>3
<1>5. B = {} BY <1>1, <1>4, FS_EmptySet
<1> QED BY <1>5

(* The steps in which the worker of a calm listener changes only where it  *)
(* stands, or the retry state.                                             *)
LEMMA CalmControl ==
  ASSUME CalmInv, Calm, TypeOK', NEW p \in Procs,
         \/ NoEvents(p) \/ ResetRetryState(p) \/ ReadRetryCount(p) \/ RetriesExhausted(p)
         \/ RecordError(p) \/ ReleaseLock(p) \/ GapFound(p)
  PROVE  CalmInv'
<1> USE DEF dbVars, rowVars, procVars, logVars
<1>0. /\ pc \in [Procs -> Steps] /\ seen \in [Procs -> SUBSET Ids] /\ InStep(p)
      /\ local \in [Procs -> CompactState] /\ batch \in [Procs -> SUBSET Ids]
  BY DEF CalmInv, TypeOK, Calm
<1>1. Working(p)
  BY DEF NoEvents, ResetRetryState, ReadRetryCount, RetriesExhausted, RecordError, ReleaseLock,
         GapFound, Working
<1>2. /\ UNCHANGED <<outbox, stored, delivered, redelivered, threw, dead, overtaken>>
      /\ \A q \in Procs \ {p} : ~Working(q) /\ pc'[q] = pc[q] /\ seen'[q] = seen[q]
  <2>1. \A q \in Procs \ {p} : ~Working(q) BY <1>1 DEF Calm, OneWorker
  <2>2. UNCHANGED <<outbox, stored, delivered, redelivered, threw, dead, overtaken>>
    BY DEF NoEvents, ResetRetryState, ReadRetryCount, RetriesExhausted, RecordError, ReleaseLock,
           GapFound
  <2>3. \A q \in Procs \ {p} : pc'[q] = pc[q] /\ seen'[q] = seen[q]
    BY <1>0
    DEF NoEvents, ResetRetryState, ReadRetryCount, RetriesExhausted, RecordError, ReleaseLock,
        GapFound, Goto, Forget
  <2> QED BY <2>1, <2>2, <2>3
<1>3. redelivered' = {} /\ (MaxRetries > 0 => dead' \subseteq threw' \cup overtaken')
  BY <1>2 DEF Calm
<1>4. CASE ReleaseLock(p)
  <2>1. pc'[p] = "idle" /\ seen'[p] = {} /\ pc[p] = "release"
    BY <1>0, <1>4 DEF ReleaseLock, Goto, Forget
  <2>2. \A q \in Procs : ~InRun(q) BY <1>2, <2>1 DEF InRun, Working
  <2>3. \A i \in delivered' : Accounts(stored', i) BY <1>2, <2>2 DEF Calm
  <2>4. InStep(p)' BY <2>1 DEF InStep, InRun, Victim
  <2> QED BY <1>2, <1>3, <2>3, <2>4, LoneStep
<1>5. CASE ResetRetryState(p) \/ RecordError(p)
  <2>1. pc'[p] = "release" /\ seen'[p] = seen[p] /\ pc[p] \in {"reset", "backoff"}
    BY <1>0, <1>5 DEF ResetRetryState, RecordError, Goto
  <2>2. seen[p] = {} /\ local[p] = stored /\ \A i \in delivered : Accounts(local[p], i)
    BY <1>0, <2>1 DEF InStep, InRun
  <2>3. \A i \in delivered' : Accounts(stored', i) BY <1>2, <2>2
  <2>4. InStep(p)' BY <2>1, <2>2 DEF InStep, InRun, Victim
  <2> QED BY <1>2, <1>3, <2>3, <2>4, LoneStep
<1>6. CASE NoEvents(p) \/ ReadRetryCount(p) \/ RetriesExhausted(p) \/ GapFound(p)
  <2>1. /\ UNCHANGED <<local, batch, seen, retry>> /\ InRun(p) /\ pc[p] # "persist"
        /\ \/ pc[p] = "fetch" /\ pc'[p] = "reset"
           \/ pc[p] = "compact" /\ pc'[p] = "liveness"
           \/ pc[p] = "recordError" /\ pc'[p] = "backoff"
           \/ pc[p] = "recordError" /\ pc'[p] = "dlqFetch" /\ retry.count + 1 > MaxRetries
    BY <1>0, <1>6 DEF NoEvents, ReadRetryCount, RetriesExhausted, GapFound, Goto, InRun
  <2>2. /\ local[p] = stored /\ \A i \in delivered : Accounts(local[p], i) \/ i \in seen[p]
        /\ pc[p] # "compact" => seen[p] = {}
    BY <1>0, <2>1 DEF InStep
  <2>3. MaxRetries > 0 => Victim(p)'
    <3> SUFFICES ASSUME MaxRetries > 0, pc'[p] = "dlqFetch" PROVE Blamed(p)'
      BY <2>1 DEF Victim
    <3>1. Blamed(p) BY <1>0, <2>1 DEF InStep, Victim
    <3> QED BY <1>2, <2>1, <3>1 DEF Blamed, AtFront, Fetchable, IsNext
  <2>4. InStep(p)' BY <1>2, <2>1, <2>2, <2>3 DEF InStep, InRun
  <2>5. InRun(p)' BY <2>1 DEF InRun
  <2> QED BY <1>2, <1>3, <2>4, <2>5, LoneStep
<1> QED BY <1>4, <1>5, <1>6

(* The worker fetches, and what it fetched was never delivered. *)
LEMMA CalmFetch ==
  ASSUME CalmInv, Calm, TypeOK', NEW p \in Procs, Fetch(p)
  PROVE  CalmInv'
<1> USE DEF dbVars, rowVars, logVars
<1>0. /\ pc \in [Procs -> Steps] /\ batch \in [Procs -> SUBSET Ids] /\ InStep(p)
      /\ outbox \subseteq Ids
  BY DEF CalmInv, TypeOK, Calm
<1>1. /\ pc[p] = "fetch" /\ pc'[p] = "process" /\ Fetchable(p) # {}
      /\ batch'[p] = FirstOf(Fetchable(p), BatchSize)
      /\ UNCHANGED <<outbox, stored, retry, local, seen, delivered, redelivered, threw, dead, overtaken>>
      /\ \A q \in Procs \ {p} : pc'[q] = pc[q]
  BY <1>0 DEF Fetch, Goto
<1>2. \A q \in Procs \ {p} : ~Working(q) /\ pc'[q] = pc[q] /\ seen'[q] = seen[q]
  BY <1>1 DEF Calm, OneWorker, Working
<1>3. /\ local[p] = stored /\ seen[p] = {}
      /\ \A i \in delivered : Accounts(local[p], i)
  BY <1>0, <1>1 DEF InStep, InRun
<1>4. Fetchable(p) \in SUBSET Ids /\ Fetchable(p)' = Fetchable(p) BY <1>0, <1>1 DEF Fetchable
<1>5. batch'[p] \subseteq Fetchable(p) BY <1>1 DEF FirstOf
<1>6. batch'[p] # {} BY <1>1, <1>4, FirstOfNotEmpty, CountsAssumption
<1>7. batch'[p] \cap delivered = {}
  <2> SUFFICES ASSUME NEW i \in Fetchable(p), i \in delivered PROVE FALSE
    BY <1>5
  <2>1. Accounts(local[p], i) BY <1>3
  <2>2. i > local[p].cursor /\ i \notin Tracked(local[p].window) BY DEF Fetchable
  <2>3. i \in Int /\ local[p].cursor \in Int
    BY <1>4, <1>3 DEF Ids, CalmInv, TypeOK, CompactState
  <2> QED BY <2>1, <2>2, <2>3 DEF Accounts
<1>8. ASSUME NEW v \in Fetchable(p), \A i \in batch'[p] : v < i PROVE FALSE
  <2>1. PICK j \in batch'[p] : TRUE BY <1>6
  <2>2. v \in batch'[p] BY <1>1, <1>4, <1>8, <2>1, FirstOfIsLowest, CountsAssumption
  <2>3. v \in Int BY <1>4 DEF Ids
  <2> QED BY <1>8, <2>2, <2>3
<1>9. AtFront(p)'
  <2>1. \A v \in Fetchable(p)' : (\A i \in batch'[p] : v < i) => v \in overtaken'
    BY <1>4, <1>8
  <2> QED BY <1>4, <1>5, <1>6, <2>1 DEF AtFront
<1>10. Victim(p)' BY <1>1, <1>9 DEF Victim
<1>11. InStep(p)' BY <1>1, <1>3, <1>7, <1>10 DEF InStep, InRun
<1>12. InRun(p)' BY <1>1 DEF InRun
<1>13. redelivered' = {} /\ (MaxRetries > 0 => dead' \subseteq threw' \cup overtaken')
  BY <1>1 DEF Calm
<1> QED BY <1>2, <1>11, <1>12, <1>13, LoneStep

LEMMA CalmHandle ==
  ASSUME CalmInv, Calm, TypeOK', NEW p \in Procs, NEW i \in Ids, Handle(p, i)
  PROVE  CalmInv'
<1> USE DEF dbVars, rowVars, logVars
<1>0. /\ pc \in [Procs -> Steps] /\ batch \in [Procs -> SUBSET Ids] /\ InStep(p)
      /\ seen \in [Procs -> SUBSET Ids]
  BY DEF CalmInv, TypeOK, Calm
<1>1. /\ pc[p] = "process" /\ pc'[p] \in {"compact", "process"} /\ i \in batch[p]
      /\ batch'[p] = batch[p] \ {i} /\ seen'[p] = seen[p] \cup {i}
      /\ delivered' = delivered \cup {i}
      /\ redelivered' = IF i \in delivered THEN redelivered \cup {i} ELSE redelivered
      /\ UNCHANGED <<stored, local, threw, dead, overtaken>>
      /\ \A q \in Procs \ {p} : pc'[q] = pc[q] /\ seen'[q] = seen[q]
  BY <1>0 DEF Handle, Goto, IsNext
<1>2. \A q \in Procs \ {p} : ~Working(q) /\ pc'[q] = pc[q] /\ seen'[q] = seen[q]
  BY <1>1 DEF Calm, OneWorker, Working
<1>3. /\ local[p] = stored /\ batch[p] \cap delivered = {}
      /\ \A j \in delivered : Accounts(local[p], j) \/ j \in seen[p]
  BY <1>0, <1>1 DEF InStep, InRun
<1>4. redelivered' = {} /\ (MaxRetries > 0 => dead' \subseteq threw' \cup overtaken')
  BY <1>1, <1>3 DEF Calm
<1>5. Victim(p)' BY <1>1 DEF Victim
<1>6. \A j \in delivered' : Accounts(local'[p], j) \/ j \in seen'[p] BY <1>1, <1>3
<1>7. batch'[p] \cap delivered' = {} BY <1>1, <1>3
<1>8. InStep(p)' BY <1>1, <1>3, <1>5, <1>6, <1>7 DEF InStep, InRun
<1>9. InRun(p)' BY <1>1 DEF InRun
<1> QED BY <1>2, <1>4, <1>8, <1>9, LoneStep

LEMMA CalmThrow ==
  ASSUME CalmInv, Calm, TypeOK', NEW p \in Procs, NEW i \in Ids, Throw(p, i)
  PROVE  CalmInv'
<1> USE DEF dbVars, rowVars, logVars
<1>0. pc \in [Procs -> Steps] /\ batch \in [Procs -> SUBSET Ids] /\ InStep(p)
  BY DEF CalmInv, TypeOK, Calm
<1>1. /\ pc[p] = "process" /\ pc'[p] = (IF seen[p] = {} THEN "recordError" ELSE "compact")
      /\ IsNext(p, i) /\ threw' = threw \cup {i}
      /\ UNCHANGED <<outbox, stored, local, batch, seen, delivered, redelivered, dead, overtaken>>
      /\ \A q \in Procs \ {p} : pc'[q] = pc[q]
  BY <1>0 DEF Throw, Goto
<1>2. \A q \in Procs \ {p} : ~Working(q) /\ pc'[q] = pc[q] /\ seen'[q] = seen[q]
  BY <1>1 DEF Calm, OneWorker, Working
<1>3. /\ local[p] = stored
      /\ \A j \in delivered : Accounts(local[p], j) \/ j \in seen[p]
  BY <1>0, <1>1 DEF InStep, InRun
<1>4. redelivered' = {} /\ (MaxRetries > 0 => dead' \subseteq threw' \cup overtaken')
  BY <1>1 DEF Calm
<1>5. ASSUME MaxRetries > 0, pc'[p] = "recordError" PROVE Blamed(p)'
  <2>1. seen[p] = {} BY <1>1, <1>5
  <2>2. AtFront(p) BY <1>0, <1>1, <1>5, <2>1 DEF InStep, Victim
  <2>3. AtFront(p)' BY <1>1, <2>2 DEF AtFront, Fetchable
  <2>4. ASSUME NEW j \in Ids, IsNext(p, j)' PROVE j = i
    <3>1. j \in batch[p] /\ i \in batch[p] /\ i <= j /\ j <= i /\ i \in Int /\ j \in Int
      BY <1>1, <2>4 DEF IsNext, Ids
    <3> QED BY <3>1
  <2> QED BY <1>1, <2>3, <2>4 DEF Blamed
<1>6. MaxRetries > 0 => Victim(p)' BY <1>1, <1>5 DEF Victim
<1>7. InStep(p)' BY <1>1, <1>3, <1>6 DEF InStep, InRun
<1>8. InRun(p)' BY <1>1 DEF InRun
<1> QED BY <1>2, <1>4, <1>7, <1>8, LoneStep

(* Both ways to fold a batch into cursor and window. *)
LEMMA CalmCompacted ==
  ASSUME CalmInv, Calm, TypeOK', NEW p \in Procs, pc[p] \in {"compact", "liveness"},
         NEW c, Compacted(p, c), local[p].cursor <= c.cursor,
         \A i \in Ids : Accounts(local[p], i) \/ i \in seen[p] => Accounts(c, i),
         UNCHANGED <<stored, delivered, redelivered, threw, dead, overtaken>>
  PROVE  CalmInv'
<1>0. /\ pc \in [Procs -> Steps] /\ local \in [Procs -> CompactState] /\ InStep(p)
      /\ seen \in [Procs -> SUBSET Ids] /\ delivered \subseteq Ids
  BY DEF CalmInv, TypeOK, Calm
<1>1. /\ pc'[p] = "persist" /\ local'[p] = c /\ seen'[p] = {}
      /\ \A q \in Procs \ {p} : pc'[q] = pc[q] /\ seen'[q] = seen[q]
  BY <1>0 DEF Compacted, Goto
<1>2. \A q \in Procs \ {p} : ~Working(q) /\ pc'[q] = pc[q] /\ seen'[q] = seen[q]
  BY <1>1 DEF Calm, OneWorker, Working
<1>3. local[p] = stored /\ \A i \in delivered : Accounts(local[p], i) \/ i \in seen[p]
  BY <1>0 DEF InStep, InRun
<1>4. stored'.cursor <= local'[p].cursor /\ \A i \in delivered' : Accounts(local'[p], i)
  BY <1>0, <1>1, <1>3
<1>5. InStep(p)' BY <1>1, <1>4 DEF InStep, InRun, Victim
<1>6. InRun(p)' BY <1>1 DEF InRun
<1>7. redelivered' = {} /\ (MaxRetries > 0 => dead' \subseteq threw' \cup overtaken')
  BY DEF Calm
<1> QED BY <1>2, <1>5, <1>6, <1>7, LoneStep

(* A merge adds to the window. *)
LEMMA MergeAdds ==
  ASSUME NEW u \in Windows, NEW S \in SUBSET Ids, NEW time \in Int, NEW w, w = Merge(u, S, time)
  PROVE  w \in Windows /\ Tracked(w) = Tracked(u) \cup S
<1>1. w \in Windows BY MergeTracks
<1>2. \A i \in Ids : w[i] = IF i \in S THEN time ELSE u[i] BY DEF Merge
<1>3. Tracked(w) = Tracked(u) \cup S BY <1>2, NoneAssumption DEF Tracked
<1> QED BY <1>1, <1>3

LEMMA CalmCompact ==
  ASSUME CalmInv, Calm, TypeOK', NEW p \in Procs, Compact(p) \/ CompactWithGapGuard(p)
  PROVE  CalmInv'
<1> USE DEF rowVars, logVars
<1>0. /\ local[p] \in CompactState /\ seen[p] \in SUBSET Ids /\ now[p] \in Int
      /\ local[p].cursor \in 0..MaxId /\ local[p].window \in Windows /\ AppClock \subseteq Int
  BY BoundsAssumption DEF CalmInv, TypeOK, CompactState, AppClock
<1>1. /\ pc[p] \in {"compact", "liveness"}
      /\ UNCHANGED <<stored, delivered, redelivered, threw, dead, overtaken>>
  BY DEF Compact, CompactWithGapGuard
<1>2. \E time \in Int : \E E \in SUBSET Tracked(Merge(local[p].window, seen[p], time)) :
        Compacted(p, Advance(local[p].cursor, Merge(local[p].window, seen[p], time), E))
  <2>1. CASE Compact(p)
    <3>1. PICK time \in AppClock :
            Compacted(p, CompactByAge(local[p].cursor,
                           Merge(local[p].window, seen[p], time), time, GapWindow))
      BY <2>1 DEF Compact
    <3> DEFINE w == Merge(local[p].window, seen[p], time)
               E == Aged(w, time, GapWindow)
    <3>2. E \in SUBSET Tracked(w) BY ExpiredAreTracked
    <3>3. Compacted(p, Advance(local[p].cursor, w, E)) BY <3>1 DEF CompactByAge
    <3> HIDE DEF E
    <3> QED BY <1>0, <3>2, <3>3
  <2>2. CASE CompactWithGapGuard(p)
    <3> DEFINE w == Merge(local[p].window, seen[p], now[p])
               E == Aged(w, now[p], GapWindow)
                      \cap (Proven(w, OldestRunningTxnStart, SkewPad) \cup Aged(w, now[p], GapCeiling))
    <3>1. E \in SUBSET Tracked(w) BY ExpiredAreTracked
    <3>2. Compacted(p, Advance(local[p].cursor, w, E)) BY <2>2 DEF CompactWithGapGuard, CompactGuarded
    <3> HIDE DEF E
    <3> QED BY <1>0, <3>1, <3>2
  <2> QED BY <2>1, <2>2
<1>3. PICK time \in Int : \E E \in SUBSET Tracked(Merge(local[p].window, seen[p], time)) :
        Compacted(p, Advance(local[p].cursor, Merge(local[p].window, seen[p], time), E))
  BY <1>2
<1>4. PICK w : w = Merge(local[p].window, seen[p], time) OBVIOUS
<1>5. w \in Windows /\ Tracked(w) = Tracked(local[p].window) \cup seen[p] BY <1>0, <1>4, MergeAdds
<1>6. PICK E \in SUBSET Tracked(w) : Compacted(p, Advance(local[p].cursor, w, E)) BY <1>3, <1>4
<1>7. PICK c : c = Advance(local[p].cursor, w, E) OBVIOUS
<1>8. ASSUME NEW i \in Ids, Accounts(local[p], i) \/ i \in seen[p] PROVE Accounts(c, i)
  BY <1>0, <1>5, <1>7, <1>8, AdvanceAccounts DEF Accounts
<1>9. local[p].cursor <= c.cursor
  <2>1. c.cursor >= local[p].cursor /\ c.cursor \in 0..MaxId BY <1>0, <1>5, <1>7, AdvanceIsJustified
  <2> QED BY <1>0, <2>1
<1> QED BY <1>1, <1>6, <1>7, <1>8, <1>9, CalmCompacted

LEMMA CalmPersist ==
  ASSUME CalmInv, Calm, TypeOK', NEW p \in Procs, PersistProcessedState(p)
  PROVE  CalmInv'
<1> USE DEF dbVars, logVars
<1>0. /\ pc \in [Procs -> Steps] /\ local[p] \in CompactState /\ stored \in CompactState /\ InStep(p)
      /\ local[p].cursor \in 0..MaxId /\ stored.cursor \in 0..MaxId
  BY DEF CalmInv, TypeOK, Calm, CompactState
<1>1. /\ pc[p] = "persist" /\ pc'[p] \in {"recordError", "fetch"} /\ retry' = NoRetry
      /\ Store(local[p])
      /\ UNCHANGED <<local, seen, delivered, redelivered, threw, dead, overtaken>>
      /\ \A q \in Procs \ {p} : pc'[q] = pc[q]
  BY <1>0 DEF PersistProcessedState, Goto
<1>2. \A q \in Procs \ {p} : ~Working(q) /\ pc'[q] = pc[q] /\ seen'[q] = seen[q]
  BY <1>1 DEF Calm, OneWorker, Working
<1>3. /\ stored.cursor <= local[p].cursor /\ seen[p] = {}
      /\ \A i \in delivered : Accounts(local[p], i)
  BY <1>0, <1>1 DEF InStep, InRun
<1>4. local'[p] = stored'
  <2>1. /\ stored'.cursor \in {stored.cursor, local[p].cursor} /\ stored'.window = local[p].window
        /\ Max({stored.cursor, local[p].cursor}) \in 0..MaxId
        /\ \A y \in {stored.cursor, local[p].cursor} : Max({stored.cursor, local[p].cursor}) >= y
    BY <1>0, <1>1, StoreType, MaxBounded, MaxIdAssumption
  <2>2. stored' = [cursor |-> Max({stored.cursor, local[p].cursor}), window |-> local[p].window]
    BY <1>1 DEF Store
  <2>3. stored'.cursor = Max({stored.cursor, local[p].cursor}) BY <2>2
  <2>4. stored'.cursor = local[p].cursor BY <1>0, <1>3, <2>1, <2>3
  <2>5. local[p] = [cursor |-> local[p].cursor, window |-> local[p].window] BY <1>0 DEF CompactState
  <2> QED BY <1>1, <2>2, <2>3, <2>4, <2>5
<1>5. MaxRetries > 0 => Victim(p)'
  <2>1. retry'.count = 0 BY <1>1 DEF NoRetry
  <2> QED BY <1>1, <2>1, CountsAssumption DEF Victim
<1>6. InStep(p)' BY <1>1, <1>3, <1>4, <1>5 DEF InStep, InRun
<1>7. InRun(p)' BY <1>1 DEF InRun
<1>8. redelivered' = {} /\ (MaxRetries > 0 => dead' \subseteq threw' \cup overtaken')
  BY <1>1 DEF Calm
<1> QED BY <1>2, <1>6, <1>7, <1>8, LoneStep

(* moveFirstEventToDLQ fetches the event that threw, or one that became    *)
(* visible below it since.                                                 *)
LEMMA CalmVictim ==
  ASSUME CalmInv, Calm, TypeOK', NEW p \in Procs, FetchVictim(p)
  PROVE  CalmInv'
<1> USE DEF dbVars, rowVars, logVars
<1>0. /\ pc \in [Procs -> Steps] /\ batch \in [Procs -> SUBSET Ids] /\ InStep(p)
      /\ outbox \subseteq Ids
  BY DEF CalmInv, TypeOK, Calm
<1>1. /\ pc[p] = "dlqFetch" /\ pc'[p] \in {"release", "dlqInsert"}
      /\ batch'[p] = FirstOf(Fetchable(p), 1)
      /\ UNCHANGED <<stored, local, seen, delivered, redelivered, threw, dead, overtaken>>
      /\ \A q \in Procs \ {p} : pc'[q] = pc[q]
  BY <1>0 DEF FetchVictim, Goto
<1>2. \A q \in Procs \ {p} : ~Working(q) /\ pc'[q] = pc[q] /\ seen'[q] = seen[q]
  BY <1>1 DEF Calm, OneWorker, Working
<1>3. /\ local[p] = stored /\ seen[p] = {}
      /\ \A i \in delivered : Accounts(local[p], i)
  BY <1>0, <1>1 DEF InStep, InRun
<1>4. redelivered' = {} /\ (MaxRetries > 0 => dead' \subseteq threw' \cup overtaken')
  BY <1>1 DEF Calm
<1>5. ASSUME MaxRetries > 0, NEW v \in batch'[p] PROVE v \in threw \cup overtaken
  <2>1. Blamed(p) BY <1>0, <1>1, <1>5 DEF InStep, Victim
  <2>2. Fetchable(p) \in SUBSET Ids /\ batch[p] \in SUBSET Ids BY <1>0 DEF Fetchable
  <2>3. v \in Fetchable(p) /\ \A j \in Fetchable(p) : ~(j < v)
    <3>1. v \in FirstOf(Fetchable(p), 1) BY <1>1
    <3>2. v \in Fetchable(p) BY <3>1 DEF FirstOf
    <3> QED BY <2>2, <3>1, <3>2, FirstOfOneIsLeast
  <2>4. PICK i \in batch[p] : \A j \in batch[p] : i <= j
    BY <2>1, <2>2, LeastEvent DEF Blamed, AtFront
  <2>5. i \in threw /\ i \in Fetchable(p) BY <2>1, <2>2, <2>4 DEF Blamed, AtFront, IsNext
  <2>6. /\ \A j \in batch[p] : j \in Int
        /\ v \in Int /\ i \in Int
    BY <2>2, <2>3 DEF Ids
  <2>7. CASE v = i BY <2>5, <2>7
  <2>8. CASE v # i
    <3>1. \A j \in batch[p] : v < j BY <2>3, <2>4, <2>5, <2>6, <2>8
    <3> QED BY <2>1, <2>3, <3>1 DEF Blamed, AtFront
  <2> QED BY <2>7, <2>8
<1>6. MaxRetries > 0 => Victim(p)' BY <1>1, <1>5 DEF Victim
<1>7. InStep(p)' BY <1>1, <1>3, <1>6 DEF InStep, InRun
<1>8. \A i \in delivered' : Accounts(stored', i) BY <1>1, <1>3
<1> QED BY <1>2, <1>4, <1>7, <1>8, LoneStep

LEMMA CalmDeadLetter ==
  ASSUME CalmInv, Calm, TypeOK', NEW p \in Procs, InsertDeadLetter(p) \/ AdvancePastDeadLetter(p)
  PROVE  CalmInv'
<1> USE DEF dbVars, rowVars, logVars
<1>0. /\ pc \in [Procs -> Steps] /\ local[p] \in CompactState /\ stored \in CompactState /\ InStep(p)
      /\ local[p].cursor \in 0..MaxId /\ local[p].window \in Windows /\ batch[p] \in SUBSET Ids
      /\ delivered \subseteq Ids
  BY DEF CalmInv, TypeOK, Calm, CompactState
<1>1. CASE InsertDeadLetter(p)
  <2>1. /\ pc[p] = "dlqInsert" /\ pc'[p] = "dlqAdvance" /\ dead' = dead \cup batch[p]
        /\ UNCHANGED <<stored, local, seen, delivered, redelivered, threw, overtaken>>
        /\ \A q \in Procs \ {p} : pc'[q] = pc[q]
    BY <1>0, <1>1 DEF InsertDeadLetter, Goto
  <2>2. \A q \in Procs \ {p} : ~Working(q) /\ pc'[q] = pc[q] /\ seen'[q] = seen[q]
    BY <2>1 DEF Calm, OneWorker, Working
  <2>3. /\ local[p] = stored /\ seen[p] = {}
        /\ \A i \in delivered : Accounts(local[p], i)
        /\ MaxRetries > 0 => batch[p] \subseteq threw \cup overtaken
    BY <1>0, <2>1 DEF InStep, InRun, Victim
  <2>4. redelivered' = {} /\ (MaxRetries > 0 => dead' \subseteq threw' \cup overtaken')
    BY <2>1, <2>3 DEF Calm
  <2>5. InStep(p)' BY <2>1, <2>3 DEF InStep, InRun, Victim
  <2>6. InRun(p)' BY <2>1 DEF InRun
  <2> QED BY <2>2, <2>4, <2>5, <2>6, LoneStep
<1>2. CASE AdvancePastDeadLetter(p)
  <2> DEFINE w == Merge(NoEntries, Tracked(local[p].window) \cup batch[p], 0)
             E == Aged(w, 0, 0)
             c == Advance(local[p].cursor, w, E)
  <2>1. /\ pc[p] = "dlqAdvance" /\ pc'[p] = "release" /\ Store(c)
        /\ UNCHANGED <<local, seen, delivered, redelivered, threw, dead, overtaken>>
        /\ \A q \in Procs \ {p} : pc'[q] = pc[q]
    BY <1>0, <1>2 DEF AdvancePastDeadLetter, CompactByAge, Goto
  <2>2. \A q \in Procs \ {p} : ~Working(q) /\ pc'[q] = pc[q] /\ seen'[q] = seen[q]
    BY <2>1 DEF Calm, OneWorker, Working
  <2>3. seen[p] = {} /\ \A i \in delivered : Accounts(local[p], i)
    BY <1>0, <2>1 DEF InStep, InRun
  <2>4. w \in Windows /\ Tracked(local[p].window) \subseteq Tracked(w)
    <3>1. NoEntries \in Windows /\ Tracked(local[p].window) \cup batch[p] \in SUBSET Ids
      BY <1>0 DEF NoEntries, Windows, Tracked
    <3>2. Tracked(local[p].window) \cup batch[p] \subseteq Tracked(w) /\ w \in Windows
      BY <3>1, MergeAdds
    <3> QED BY <3>2
  <2>5. E \in SUBSET Tracked(w) BY ExpiredAreTracked
  <2> HIDE DEF w, E
  <2>6. c \in CompactState BY <1>0, <2>4, <2>5, AdvanceType
  <2>7. ASSUME NEW i \in delivered PROVE Accounts(c, i)
    <3>1. i \in Ids /\ (i <= local[p].cursor \/ i \in Tracked(w))
      BY <1>0, <2>3, <2>4 DEF Accounts
    <3> QED BY <1>0, <2>4, <2>5, <3>1, AdvanceAccounts
  <2> HIDE DEF c
  <2>8. stored'.cursor >= c.cursor /\ stored'.cursor \in Int /\ c.cursor \in Int
        /\ stored'.window = c.window
    <3>1. stored' = [cursor |-> Max({stored.cursor, c.cursor}), window |-> c.window]
      BY <2>1 DEF Store
    <3>2. stored.cursor \in 0..MaxId /\ c.cursor \in 0..MaxId BY <1>0, <2>6 DEF CompactState
    <3>3. /\ Max({stored.cursor, c.cursor}) \in {stored.cursor, c.cursor}
          /\ Max({stored.cursor, c.cursor}) >= c.cursor
      BY <3>2, MaxBounded, MaxIdAssumption
    <3> QED BY <3>1, <3>2, <3>3
  <2>9. \A i \in delivered' : Accounts(stored', i)
    <3>1. \A i \in delivered : i \in Int BY <1>0 DEF Ids
    <3> QED BY <2>1, <2>7, <2>8, <3>1 DEF Accounts
  <2>10. InStep(p)' BY <2>1, <2>3 DEF InStep, InRun, Victim
  <2>11. redelivered' = {} /\ (MaxRetries > 0 => dead' \subseteq threw' \cup overtaken')
    BY <2>1 DEF Calm
  <2> QED BY <2>2, <2>9, <2>10, <2>11, LoneStep
<1> QED BY <1>1, <1>2

(* Writers, retention and time: what becomes visible below a batch in hand *)
(* is overtaken, and what is purged could no longer be fetched.            *)
LEMMA CalmEnvironment ==
  ASSUME CalmInv, Calm, TypeOK',
         UNCHANGED <<stored, retry, pc, local, batch, seen, delivered, redelivered, threw, dead>>,
         overtaken \subseteq overtaken',
         \A p \in Procs : InRun(p) /\ local[p] = stored =>
           /\ Fetchable(p) \subseteq Fetchable(p)'
           /\ \A v \in Fetchable(p)' : v \in Fetchable(p) \/ v \in overtaken'
                                         \/ \A i \in batch[p] : ~(v < i)
  PROVE  CalmInv'
<1>1. ASSUME NEW p \in Procs, AtFront(p), InRun(p), local[p] = stored PROVE AtFront(p)'
  <2>1. batch'[p] # {} /\ batch'[p] \subseteq Fetchable(p)' BY <1>1 DEF AtFront
  <2>2. ASSUME NEW v \in Fetchable(p)', \A i \in batch[p] : v < i PROVE v \in overtaken'
    <3>1. PICK i \in batch[p] : TRUE BY <1>1 DEF AtFront
    <3>2. v \in Fetchable(p) \/ v \in overtaken' BY <1>1, <2>2, <3>1
    <3> QED BY <1>1, <2>2, <3>2 DEF AtFront
  <2> QED BY <2>1, <2>2 DEF AtFront
<1>2. ASSUME NEW p \in Procs PROVE InStep(p)'
  <2>1. InStep(p) BY DEF Calm
  <2>2. ASSUME MaxRetries > 0 PROVE Victim(p)'
    <3>1. Victim(p) BY <2>1, <2>2 DEF InStep
    <3>2. pc[p] \in {"process", "recordError", "dlqFetch"} => InRun(p) /\ local[p] = stored
      BY <2>1 DEF InStep, InRun
    <3>3. Blamed(p) /\ pc[p] \in {"recordError", "dlqFetch"} => Blamed(p)'
      BY <1>1, <3>2 DEF Blamed, IsNext
    <3>4. AtFront(p) /\ pc[p] = "process" => AtFront(p)' BY <1>1, <3>2
    <3> QED BY <3>1, <3>3, <3>4 DEF Victim
  <2> QED BY <2>1, <2>2 DEF InStep, InRun
<1>3. OneWorker' BY DEF Calm, OneWorker, Working
<1>4. /\ (\A p \in Procs : ~InRun(p)') => \A i \in delivered' : Accounts(stored', i)
      /\ redelivered' = {}
      /\ MaxRetries > 0 => dead' \subseteq threw' \cup overtaken'
  BY DEF Calm, InRun
<1> QED BY <1>2, <1>3, <1>4 DEF Calm, CalmInv

LEMMA CalmWorld ==
  ASSUME CalmInv, Calm, TypeOK',
         (\E t \in Txns : Write(t)) \/ (\E i \in Ids : Purge(i)) \/ Tick \/ UNCHANGED vars
  PROVE  CalmInv'
<1> USE DEF dbVars, rowVars, procVars, logVars
<1>0. UNCHANGED <<stored, retry, pc, local, batch, seen, delivered, redelivered, threw, dead>>
  BY DEF Write, Begin, Insert, Commit, Rollback, Purge, Tick, vars
<1>1. ASSUME UNCHANGED <<outbox, overtaken>> PROVE CalmInv'
  <2>1. \A p \in Procs : Fetchable(p)' = Fetchable(p) BY <1>0, <1>1 DEF Fetchable
  <2> QED BY <1>0, <1>1, <2>1, CalmEnvironment
<1>2. ASSUME NEW t \in Txns, Commit(t) PROVE CalmInv'
  <2>1. /\ outbox' = outbox \cup txn[t].ids
        /\ overtaken' = overtaken \cup
             {i \in txn[t].ids : \E j \in delivered \cup dead \cup InHand : j > i}
    BY <1>2 DEF Commit
  <2>2. ASSUME NEW p \in Procs, NEW v \in Fetchable(p)'
        PROVE  v \in Fetchable(p) \/ v \in overtaken' \/ \A i \in batch[p] : ~(v < i)
    <3>1. CASE v \in outbox BY <1>0, <2>2, <3>1 DEF Fetchable
    <3>2. CASE v \in txn[t].ids
      <4>1. ASSUME NEW i \in batch[p], v < i PROVE v \in overtaken'
        <5>1. i \in InHand /\ i \in Int /\ v \in Int
          BY <2>2 DEF InHand, CalmInv, TypeOK, Ids, Fetchable
        <5>2. i > v BY <4>1, <5>1
        <5> QED BY <2>1, <3>2, <5>1, <5>2
      <4> QED BY <4>1
    <3> QED BY <2>1, <2>2, <3>1, <3>2 DEF Fetchable
  <2>3. \A p \in Procs : Fetchable(p) \subseteq Fetchable(p)' BY <1>0, <2>1 DEF Fetchable
  <2> QED BY <1>0, <2>1, <2>2, <2>3, CalmEnvironment
<1>3. ASSUME NEW i \in Ids, Purge(i) PROVE CalmInv'
  <2>1. i <= stored.cursor /\ outbox' = outbox \ {i} /\ overtaken' = overtaken
    BY <1>3 DEF Purge
  <2>2. ASSUME NEW p \in Procs, local[p] = stored PROVE Fetchable(p)' = Fetchable(p)
    <3>1. i \in Int /\ stored.cursor \in Int BY DEF CalmInv, TypeOK, CompactState, Ids
    <3>2. ~(i > local[p].cursor) BY <2>1, <2>2, <3>1
    <3> QED BY <1>0, <2>1, <3>2 DEF Fetchable
  <2> QED BY <1>0, <2>1, <2>2, CalmEnvironment
<1>4. ASSUME NEW t \in Txns, Begin(t) \/ Insert(t) \/ Rollback(t) PROVE CalmInv'
  BY <1>1, <1>4 DEF Begin, Insert, Rollback
<1>5. CASE Tick \/ UNCHANGED vars BY <1>1, <1>5 DEF Tick, vars
<1> QED BY <1>2, <1>3, <1>4, <1>5 DEF Write

(* Whoever does not work may come and go; who claims while another works   *)
(* has stolen the lock.                                                    *)
LEMMA CalmOutside ==
  ASSUME CalmInv, Calm, TypeOK', NEW p \in Procs, Start(p) \/ ClaimRefused(p)
  PROVE  CalmInv'
<1> USE DEF dbVars, rowVars, logVars
<1>0. /\ pc \in [Procs -> Steps] /\ seen \in [Procs -> SUBSET Ids]
      /\ local \in [Procs -> CompactState] /\ batch \in [Procs -> SUBSET Ids]
  BY DEF CalmInv, TypeOK
<1>1. /\ pc[p] \in {"idle", "claim"} /\ pc'[p] \in {"idle", "claim"}
      /\ UNCHANGED <<outbox, stored, retry, delivered, redelivered, threw, dead, overtaken>>
      /\ \A q \in Procs \ {p} : /\ pc'[q] = pc[q] /\ seen'[q] = seen[q]
                                /\ local'[q] = local[q] /\ batch'[q] = batch[q]
  BY <1>0 DEF Start, ClaimRefused, Goto, Forget
<1>2. seen'[p] = {}
  <2>1. seen[p] = {} BY <1>1 DEF Calm, InStep
  <2> QED BY <1>0, <2>1 DEF Start, ClaimRefused, Forget
<1>3. InStep(p)' BY <1>1, <1>2 DEF InStep, InRun, Victim
<1>4. ASSUME NEW q \in Procs \ {p} PROVE InStep(q)'
  <2>1. InStep(q) BY DEF Calm
  <2>2. Fetchable(q)' = Fetchable(q) BY <1>1 DEF Fetchable
  <2>3. MaxRetries > 0 => Victim(q)'
    BY <1>1, <2>1, <2>2 DEF InStep, Victim, Blamed, AtFront, IsNext
  <2> QED BY <1>1, <2>1, <2>3 DEF InStep, InRun
<1>5. OneWorker' BY <1>1 DEF Calm, OneWorker, Working
<1>6. \A q \in Procs : InRun(q)' <=> InRun(q) BY <1>1 DEF InRun
<1> QED BY <1>1, <1>3, <1>4, <1>5, <1>6 DEF Calm, CalmInv

LEMMA CalmClaim ==
  ASSUME CalmInv, Calm, TypeOK', NEW p \in Procs, Claim(p), ~disturbed'
  PROVE  CalmInv'
<1> USE DEF dbVars, logVars
<1>0. pc \in [Procs -> Steps] /\ local \in [Procs -> CompactState]
  BY DEF CalmInv, TypeOK
<1>1. /\ pc[p] = "claim" /\ pc'[p] = "fetch" /\ local'[p] = stored
      /\ UNCHANGED <<stored, seen, delivered, redelivered, threw, dead, overtaken>>
      /\ \A q \in Procs \ {p} : pc'[q] = pc[q]
  BY <1>0 DEF Claim, Goto
<1>2. \A q \in Procs \ {p} : ~Working(q) BY Zenon DEF Claim
<1>3. \A q \in Procs : ~InRun(q) BY <1>1, <1>2 DEF InRun, Working
<1>4. seen[p] = {} /\ \A i \in delivered : Accounts(stored, i)
  BY <1>1, <1>3 DEF Calm, InStep
<1>5. InStep(p)' /\ InRun(p)' BY <1>1, <1>4 DEF InStep, InRun, Victim
<1>6. redelivered' = {} /\ (MaxRetries > 0 => dead' \subseteq threw' \cup overtaken')
  BY <1>1 DEF Calm
<1> QED BY <1>1, <1>2, <1>5, <1>6, LoneStep

LEMMA CalmNext == CalmInv /\ [Next]_vars => CalmInv'
<1> SUFFICES ASSUME CalmInv, [Next]_vars PROVE CalmInv'
  OBVIOUS
<1>1. TypeOK' BY TypeNext DEF CalmInv
<1>2. CASE disturbed'
  BY <1>1, <1>2 DEF CalmInv
<1>3. CASE ~disturbed'
  <2>1. disturbed \in BOOLEAN /\ disturbed' \in BOOLEAN BY <1>1 DEF CalmInv, TypeOK
  <2>2. ~disturbed
    <3> SUFFICES ASSUME disturbed PROVE disturbed'
      BY <1>3
    <3>1. CASE UNCHANGED disturbed BY <3>1
    <3>2. ASSUME NEW p \in Procs, Claim(p) PROVE disturbed' BY <3>2, Zenon DEF Claim
    <3>3. ASSUME NEW p \in Procs, Reject(p) \/ Crash(p) PROVE disturbed' BY <3>3 DEF Reject, Crash
    <3> QED
      BY <3>1, <3>2, <3>3
         DEF Next, Write, Begin, Insert, Commit, Rollback, Purge, Tick, Start, Work, Refresh,
             ClaimRefused, Fetch, NoEvents, ResetRetryState, Handle, Throw, Compact, GapFound,
             CompactWithGapGuard, PersistProcessedState, ReadRetryCount, RetriesExhausted,
             RecordError, FetchVictim, InsertDeadLetter, AdvancePastDeadLetter, ReleaseLock, vars
  <2>3. Calm BY <2>2 DEF CalmInv
  <2>4. ASSUME NEW p \in Procs, Start(p) \/ Work(p) PROVE CalmInv'
    BY <1>1, <1>3, <2>3, <2>4, CalmOutside, CalmClaim, CalmControl, CalmFetch, CalmHandle, CalmThrow,
       CalmCompact, CalmPersist, CalmVictim, CalmDeadLetter
       DEF Work
  <2>5. ASSUME NEW p \in Procs, Refresh(p) PROVE CalmInv'
    <3>1. UNCHANGED <<outbox, stored, retry, pc, local, batch, seen, delivered, redelivered, threw,
                      dead, overtaken>>
      BY <2>5 DEF Refresh, dbVars, procVars, logVars
    <3>2. \A q \in Procs : Fetchable(q)' = Fetchable(q) BY <3>1 DEF Fetchable
    <3> QED BY <1>1, <2>3, <3>1, <3>2, CalmEnvironment
  <2>6. ASSUME NEW p \in Procs, Reject(p) \/ Crash(p) PROVE FALSE
    BY <1>3, <2>6 DEF Reject, Crash
  <2> QED BY <1>1, <2>3, <2>4, <2>5, <2>6, CalmWorld DEF Next
<1> QED BY <1>2, <1>3

(* The invariant of an undisturbed listener: one worker, whose cursor and  *)
(* window are the row's.                                                   *)
THEOREM CalmHolds == Spec => []CalmInv
<1> QED BY CalmInit, CalmNext, PTL DEF Spec

(* No event is handed to the handler twice unless a process crashed, a     *)
(* statement was rejected or a lock expired under its holder.              *)
THEOREM EventsAreHandledOnce == Spec => []OncePerEventUndisturbed
<1>1. CalmInv => OncePerEventUndisturbed BY DEF CalmInv, Calm, OncePerEventUndisturbed
<1> QED BY <1>1, CalmHolds, PTL

(* With at least one retry, undisturbed, what is dead-lettered threw, or   *)
(* became visible below an event that threw.  Without retries it is false: *)
(* a batch that got something done may then go to moveFirstEventToDLQ at   *)
(* once, with a cursor that has passed the event that threw.               *)
THEOREM DeadLettersThrew == ASSUME MaxRetries > 0 PROVE Spec => []DeadLetterThrew
<1>1. CalmInv => DeadLetterThrew BY DEF CalmInv, Calm, DeadLetterThrew
<1> QED BY <1>1, CalmHolds, PTL
=============================================================================
