---------------------------- MODULE SyncLogProofs ----------------------------
(* Proofs about SyncLog, for any number of writers, readers and outbox rows. *)
EXTENDS SyncLog, FiniteSetTheorems, WellFoundedInduction, TLAPS

-----------------------------------------------------------------------------
(* Sets of ids, and the first n of them.                                     *)

(* A non-empty set of naturals has a least element. *)
LEMMA LeastNatural ==
  ASSUME NEW S \in SUBSET Nat, S # {}
  PROVE  \E x \in S : \A y \in S : x <= y
<1>1. PICK x \in S : \A y \in S : <<y, x>> \notin OpToRel(<, Nat)
  BY NatLessThanWellFounded, WFMin
<1>2. ASSUME NEW y \in S PROVE ~(y < x)
  BY <1>1 DEF OpToRel
<1> QED BY <1>2

(* The ids of S below s. *)
Below(S, s) == {t \in S : t < s}

LEMMA BelowIsFinite ==
  ASSUME NEW S, IsFiniteSet(S), NEW s
  PROVE  IsFiniteSet(Below(S, s)) /\ Cardinality(Below(S, s)) \in Nat
BY FS_Subset, FS_CardinalityType DEF Below

(* A non-empty finite set of naturals has a greatest element: the one with   *)
(* the fewest elements above it.                                             *)
LEMMA GreatestNatural ==
  ASSUME NEW S \in SUBSET Nat, IsFiniteSet(S), S # {}
  PROVE  \E x \in S : \A y \in S : y <= x
<1> DEFINE Above(s) == {t \in S : t > s}
           Counts == {Cardinality(Above(s)) : s \in S}
<1>1. ASSUME NEW s \in S PROVE IsFiniteSet(Above(s)) /\ Cardinality(Above(s)) \in Nat
  BY FS_Subset, FS_CardinalityType
<1>2. Counts \in SUBSET Nat /\ Counts # {}
  <2>1. Counts \subseteq Nat BY <1>1
  <2>2. PICK s \in S : TRUE OBVIOUS
  <2>3. Cardinality(Above(s)) \in Counts OBVIOUS
  <2> QED BY <2>1, <2>3
<1>3. PICK c \in Counts : \A d \in Counts : c <= d
  <2> HIDE DEF Counts
  <2> QED BY <1>2, LeastNatural
<1>4. PICK x \in S : c = Cardinality(Above(x))
  OBVIOUS
<1>5. ASSUME NEW y \in S, y > x PROVE FALSE
  <2>1. Above(y) \in SUBSET Above(x)
    <3>1. ASSUME NEW t \in S, t > y PROVE t > x BY <1>5, <3>1
    <3> QED BY <3>1
  <2>2. y \in Above(x) /\ y \notin Above(y) BY <1>5
  <2>3. Cardinality(Above(y)) # Cardinality(Above(x))
    <3> HIDE DEF Above
    <3> QED BY <1>1, <2>1, <2>2, FS_Subset
  <2>4. Cardinality(Above(y)) <= Cardinality(Above(x))
    <3> HIDE DEF Above
    <3> QED BY <1>1, <2>1, FS_Subset
  <2>5. Cardinality(Above(x)) <= Cardinality(Above(y))
    <3>1. Cardinality(Above(y)) \in Counts OBVIOUS
    <3> HIDE DEF Above, Counts
    <3> QED BY <1>3, <1>4, <3>1
  <2>6. Cardinality(Above(x)) \in Nat /\ Cardinality(Above(y)) \in Nat BY <1>1
  <2> HIDE DEF Above, Counts
  <2> QED BY <2>3, <2>4, <2>5, <2>6
<1> QED BY <1>5

(* ORDER BY id LIMIT n returns at most n ids. *)
LEMMA FirstOfIsBounded ==
  ASSUME NEW S \in SUBSET Nat, IsFiniteSet(S), NEW n \in Nat
  PROVE  /\ FirstOf(S, n) \in SUBSET S
         /\ IsFiniteSet(FirstOf(S, n))
         /\ Cardinality(FirstOf(S, n)) \in 0..n
<1> DEFINE F == FirstOf(S, n)
<1>1. F \in SUBSET S BY DEF FirstOf
<1>2. IsFiniteSet(F) BY <1>1, FS_Subset
<1>3. Cardinality(F) \in Nat BY <1>2, FS_CardinalityType
<1>4. CASE F = {} BY <1>1, <1>2, <1>4, FS_EmptySet
<1>5. CASE F # {}
  <2>1. PICK m \in F : \A y \in F : y <= m
    <3>1. F \in SUBSET Nat BY <1>1
    <3> HIDE DEF F
    <3> QED BY <1>2, <1>5, <3>1, GreatestNatural
  <2>2. Cardinality(Below(S, m)) < n BY <2>1 DEF FirstOf, Below
  <2>3. F \ {m} \in SUBSET Below(S, m)
    <3>1. \A y \in F : y \in Nat BY <1>1
    <3> HIDE DEF F
    <3> QED BY <1>1, <2>1, <3>1 DEF Below
  <2>4. Cardinality(F \ {m}) <= Cardinality(Below(S, m))
    BY <2>3, BelowIsFinite, FS_Subset
  <2>5. Cardinality(F \ {m}) = Cardinality(F) - 1
    BY <1>2, <2>1, FS_RemoveElement
  <2>6. Cardinality(Below(S, m)) \in Nat BY BelowIsFinite
  <2> HIDE DEF F
  <2>7. Cardinality(F) \in 0..n BY <1>3, <2>2, <2>4, <2>5, <2>6
  <2> QED BY <1>1, <1>2, <2>7 DEF F
<1> QED BY <1>4, <1>5

(* Fewer than n are all there are. *)
LEMMA ShortIsComplete ==
  ASSUME NEW S \in SUBSET Nat, IsFiniteSet(S), NEW n \in Nat,
         Cardinality(FirstOf(S, n)) < n
  PROVE  FirstOf(S, n) = S
<1> DEFINE F == FirstOf(S, n)
<1>1. F \in SUBSET S BY DEF FirstOf
<1>2. IsFiniteSet(F) /\ Cardinality(F) \in Nat BY <1>1, FS_Subset, FS_CardinalityType
<1>3. ASSUME S \ F # {} PROVE FALSE
  <2>1. PICK s \in S \ F : \A t \in S \ F : s <= t
    <3>1. S \ F \in SUBSET Nat OBVIOUS
    <3> HIDE DEF F
    <3> QED BY <1>3, <3>1, LeastNatural
  <2>2. ~(Cardinality(Below(S, s)) < n) BY <2>1 DEF FirstOf, Below
  <2>3. Below(S, s) \in SUBSET F
    <3> HIDE DEF F
    <3> SUFFICES ASSUME NEW t \in S, t < s, t \notin F PROVE FALSE
      BY DEF Below
    <3>1. s <= t BY <2>1
    <3>2. s \in Nat /\ t \in Nat BY <2>1
    <3> QED BY <3>1, <3>2
  <2>4. Cardinality(Below(S, s)) <= Cardinality(F)
    <3> HIDE DEF F
    <3> QED BY <1>2, <2>3, FS_Subset
  <2>5. Cardinality(Below(S, s)) \in Nat BY BelowIsFinite
  <2> QED BY <1>2, <2>2, <2>4, <2>5
<1> QED BY <1>1, <1>3

(* The first n ids leave out none below one of theirs. *)
LEMMA FirstOfIsInitial ==
  ASSUME NEW S \in SUBSET Nat, IsFiniteSet(S), NEW n \in Nat,
         NEW last \in FirstOf(S, n), NEW s \in S, s <= last
  PROVE  s \in FirstOf(S, n)
<1>1. Cardinality(Below(S, last)) < n /\ last \in Nat BY DEF FirstOf, Below
<1>2. Below(S, s) \in SUBSET Below(S, last)
  <2>1. ASSUME NEW t \in S, t < s PROVE t < last BY <1>1, <2>1
  <2> QED BY <2>1 DEF Below
<1>3. Cardinality(Below(S, s)) <= Cardinality(Below(S, last))
  BY <1>2, BelowIsFinite, FS_Subset
<1>4. Cardinality(Below(S, s)) \in Nat /\ Cardinality(Below(S, last)) \in Nat
  BY BelowIsFinite
<1> QED BY <1>1, <1>3, <1>4 DEF FirstOf, Below
-----------------------------------------------------------------------------
(* The inductive invariant.                                                  *)

(* A writer that holds the allocator row has read the next id, and has seen  *)
(* every entry of its batch; what it saw was an entry at some time.          *)
HolderIsCurrent ==
  \A p \in Procs :
    /\ proc[p].pc \in {"locked", "checked"} => proc[p].start = nextSeq
    /\ proc[p].pc = "checked" =>
         /\ proc[p].batch \cap EventsOf(log) \subseteq proc[p].existing
         /\ proc[p].existing \subseteq EventsOf(issued)

(* An append is never longer than a batch. *)
BatchesBounded == \A p \in Procs : Cardinality(proc[p].batch) <= BatchSize

(* The unique index on outbox_event_id. *)
OneEntryEach == \A r, s \in log : r.event = s.event => r = s

(* The floor is at or above every entry that is gone. *)
FloorAbovePruned == \A r \in issued : r \in log \/ r.sync <= retainedFrom

LogInv == HolderIsCurrent /\ BatchesBounded /\ OneEntryEach /\ FloorAbovePruned /\ IdsDense

(* The mark and every cutoff are in the past, also of the transactions that  *)
(* still run: a row that has yet to appear is not behind them.               *)
CutoffsFrozen ==
  /\ sweptUntil <= clock
  /\ \A p \in Procs : proc[p].since <= sweptUntil /\ proc[p].cutoff <= clock
  /\ \A e \in Events : row[e] = "open" =>
       /\ sweptUntil <= bornAt[e]
       /\ \A p \in Procs : proc[p].cutoff <= bornAt[e]

(* The rows of a sweep's window that the log is for. *)
InWindow(p) ==
  {e \in Routed : row[e] = "visible" /\ proc[p].since <= bornAt[e] /\ bornAt[e] < proc[p].cutoff}

(* A sweep that listed a short batch has listed all that was missing. *)
ShortBatchesComplete ==
  \A p \in Sweepers :
    /\ proc[p].pc = "next" => proc[p].batch = {}
    /\ proc[p].pc \in {"batch", "begun", "locked", "checked", "next"} /\ Exhausted(p)
         => InWindow(p) \subseteq EventsOf(issued) \cup proc[p].batch

SweepInv == CutoffsFrozen /\ ShortBatchesComplete /\ SweptRowsLogged

(* A page lacks only what was below the floor when it was read. *)
PagesCover ==
  \A r \in Readers : request[r].pc = "page" =>
    /\ request[r].seen <= Head
    /\ \A s \in VisibleIds(issued) :
         (/\ s > request[r].after /\ s <= request[r].seen /\ s > retainedFrom
          /\ \/ Cardinality(request[r].page) < PageLimit
             \/ \E last \in request[r].page : s <= last)
         => s \in request[r].page

-----------------------------------------------------------------------------
(* Types.                                                                    *)

ProcRecords ==
  [pc : {"idle", "window", "list", "batch", "begun", "locked", "checked", "next"},
   since : Nat, cutoff : Int, stragglers : SUBSET Events, batches : Nat,
   batch : SUBSET Routed, at : Nat, start : Nat, existing : SUBSET Events]
RequestRecords ==
  [pc : {"idle", "page", "bootstrap"}, after : Nat, page : SUBSET Nat, seen : Nat]

(* The lock belongs to the transaction between its lock and its commit. *)
LockHeld == \A p \in Procs : proc[p].pc \in {"locked", "checked"} <=> lock = p

LEMMA IdleTypes == Idle \in ProcRecords /\ NoRequest \in RequestRecords
BY DEF Idle, NoRequest, ProcRecords, RequestRecords

LEMMA FiniteRows ==
  ASSUME NEW S \in SUBSET Events
  PROVE  IsFiniteSet(S) /\ Cardinality(S) \in Nat
BY EventsAssumption, FS_Subset, FS_CardinalityType

(* findFrozenCutoff: not past the clock, nor past the start of a transaction *)
(* that still runs.                                                          *)
LEMMA CutoffIsLeast ==
  ASSUME TypeOK
  PROVE  /\ FrozenCutoff \in Int /\ FrozenCutoff <= clock
         /\ \A t \in RunningSince : FrozenCutoff <= t
<1> DEFINE bounds == RunningSince \cup {clock - Delay}
           shifted == {t + Delay : t \in bounds}
<1>1. RunningSince \subseteq Nat
  <2>1. \A e \in Events : bornAt[e] \in Nat BY DEF TypeOK
  <2>2. \A p \in Procs : proc[p].at \in Nat BY DEF TypeOK
  <2> QED BY <2>1, <2>2 DEF RunningSince
<1>2. clock \in Nat /\ Delay \in Nat BY TimesAssumption DEF TypeOK
<1>3. \A t \in bounds : t \in Int /\ t + Delay \in Nat BY <1>1, <1>2
<1>4. shifted \in SUBSET Nat /\ shifted # {}
  <2>1. shifted \subseteq Nat BY <1>3
  <2>2. (clock - Delay) + Delay \in shifted OBVIOUS
  <2> QED BY <2>1, <2>2
<1>5. PICK x \in shifted : \A y \in shifted : x <= y
  <2> HIDE DEF shifted
  <2> QED BY <1>4, LeastNatural
<1>6. PICK t \in bounds : x = t + Delay OBVIOUS
<1>7. ASSUME NEW u \in bounds PROVE t <= u
  <2>1. u + Delay \in shifted OBVIOUS
  <2>2. t + Delay <= u + Delay BY <1>5, <1>6, <2>1
  <2> HIDE DEF bounds
  <2> QED BY <1>2, <1>3, <1>6, <2>2
<1>8. FrozenCutoff \in bounds /\ \A u \in bounds : FrozenCutoff <= u
  <2>1. FrozenCutoff = CHOOSE v \in bounds : \A u \in bounds : v <= u BY DEF FrozenCutoff
  <2> HIDE DEF bounds
  <2> QED BY <1>6, <1>7, <2>1
<1>9. FrozenCutoff <= clock - Delay BY <1>8
<1>10. FrozenCutoff \in Int BY <1>3, <1>8
<1> QED BY <1>2, <1>8, <1>9, <1>10

(* The entries an append inserts. *)
NewRows(S, ids, at) == {[sync |-> ids[e], event |-> e, at |-> at] : e \in S}

(* They have consecutive ids from start, each event and each id once.        *)
LEMMA AppendedRows ==
  ASSUME NEW S \in SUBSET Events, NEW start \in Nat, NEW at \in Nat,
         NEW ids \in DenseIds(S, start)
  PROVE  /\ NewRows(S, ids, at) \subseteq Entries
         /\ EventsOf(NewRows(S, ids, at)) = S
         /\ SyncIds(NewRows(S, ids, at)) = start..(start + Cardinality(S) - 1)
         /\ \A r, s \in NewRows(S, ids, at) : r.sync = s.sync \/ r.event = s.event => r = s
<1> DEFINE rows == {[sync |-> ids[e], event |-> e, at |-> at] : e \in S}
           end == start + Cardinality(S) - 1
<1>1. Cardinality(S) \in Nat BY FiniteRows
<1>2. /\ ids \in [S -> start..end]
      /\ \A d, e \in S : d < e => ids[d] < ids[e]
      /\ \A i \in start..end : \E e \in S : ids[e] = i
  BY DEF DenseIds
<1>3. \A e \in S : ids[e] \in Nat /\ ids[e] \in start..end BY <1>1, <1>2
<1>4. \A e \in S : e \in Events /\ e \in Nat BY EventsAssumption
<1>5. rows \subseteq Entries BY <1>3, <1>4 DEF Entries
<1>6. ASSUME NEW r \in rows PROVE r.event \in S /\ r.sync \in start..end
  <2>1. PICK e \in S : r = [sync |-> ids[e], event |-> e, at |-> at] OBVIOUS
  <2> QED BY <1>3, <2>1
<1>7. ASSUME NEW e \in S PROVE \E r \in rows : r.event = e /\ r.sync = ids[e]
  <2>1. [sync |-> ids[e], event |-> e, at |-> at] \in rows OBVIOUS
  <2> QED BY <2>1
<1>8. EventsOf(rows) = S
  <2> HIDE DEF rows
  <2> QED BY <1>6, <1>7 DEF EventsOf
<1>9. SyncIds(rows) = start..end
  <2>1. SyncIds(rows) \subseteq start..end BY <1>6 DEF SyncIds
  <2>2. ASSUME NEW i \in start..end PROVE i \in SyncIds(rows)
    <3>1. PICK e \in S : ids[e] = i BY <1>2
    <3> HIDE DEF rows
    <3> QED BY <1>7, <3>1 DEF SyncIds
  <2> QED BY <2>1, <2>2
<1>10. ASSUME NEW d \in S, NEW e \in S, ids[d] = ids[e] PROVE d = e
  <2>1. CASE d < e BY <1>2, <1>3, <1>10, <2>1
  <2>2. CASE e < d BY <1>2, <1>3, <1>10, <2>2
  <2>3. d < e \/ e < d \/ d = e BY <1>4
  <2> QED BY <2>1, <2>2, <2>3
<1>11. ASSUME NEW r \in rows, NEW s \in rows, r.sync = s.sync \/ r.event = s.event PROVE r = s
  <2>1. PICK d \in S : r = [sync |-> ids[d], event |-> d, at |-> at] OBVIOUS
  <2>2. PICK e \in S : s = [sync |-> ids[e], event |-> e, at |-> at] OBVIOUS
  <2> QED BY <1>10, <1>11, <2>1, <2>2
<1>12. rows = NewRows(S, ids, at) BY DEF NewRows
<1> HIDE DEF rows
<1> QED BY <1>5, <1>11, <1>8, <1>9, <1>12

LEMMA InitSyncTypes == ASSUME Init PROVE TypeOK
<1>1. proc \in [Procs -> ProcRecords] /\ request \in [Readers -> RequestRecords]
  BY IdleTypes DEF Init
<1>2. LockHeld BY ProcsAssumption DEF Init, LockHeld, Idle, Procs
<1> QED BY <1>1, <1>2 DEF Init, TypeOK, ProcRecords, RequestRecords, LockHeld

(* A process changes its own record, and at most takes or gives back the     *)
(* lock with it.                                                             *)
LEMMA ProcStepTypes ==
  ASSUME TypeOK, NEW p \in Procs, NEW new \in ProcRecords, proc' = [proc EXCEPT ![p] = new],
         \/ lock' = lock /\ (new.pc \in {"locked", "checked"} <=> lock = p)
         \/ lock = NoProc /\ lock' = p /\ new.pc \in {"locked", "checked"}
         \/ lock = p /\ lock' = NoProc /\ new.pc \notin {"locked", "checked"},
         UNCHANGED <<clock, row, bornAt, log, issued, nextSeq, retainedFrom, request>>,
         sweptUntil' \in Nat, fails' \in Nat
  PROVE  TypeOK'
<1>0. NoProc \notin Procs BY ProcsAssumption DEF Procs
<1>1. proc' \in [Procs -> ProcRecords] BY DEF TypeOK, ProcRecords
<1>2. lock' \in Procs \cup {NoProc} BY DEF TypeOK
<1>3. LockHeld'
  <2> SUFFICES ASSUME NEW q \in Procs
               PROVE  proc'[q].pc \in {"locked", "checked"} <=> lock' = q
    BY DEF LockHeld
  <2>1. proc[q].pc \in {"locked", "checked"} <=> lock = q BY DEF TypeOK
  <2>2. proc \in [Procs -> ProcRecords] BY DEF TypeOK, ProcRecords
  <2>3. CASE q = p BY <1>0, <2>2, <2>3
  <2>4. CASE q # p BY <1>0, <2>1, <2>2, <2>4
  <2> QED BY <2>3, <2>4
<1> QED BY <1>1, <1>2, <1>3 DEF TypeOK, ProcRecords, LockHeld

(* What a prune removes: old entries, none of the newest MinKeep, and the    *)
(* floor rises to the highest of them.                                       *)
LEMMA PruneVictims ==
  ASSUME Prune
  PROVE  \E victims \in SUBSET log :
           /\ victims # {}
           /\ \A r \in victims : r.sync <= Head - MinKeep
           /\ log' = log \ victims
           /\ \E top \in SyncIds(victims) :
                /\ \A s \in SyncIds(victims) : s <= top
                /\ retainedFrom' = Larger(retainedFrom, top)
<1>1. PICK cutoff \in 0..(clock - Retention) : \E victims \in PruneBatches(cutoff) :
        /\ victims # {}
        /\ log' = log \ victims
        /\ \E top \in SyncIds(victims) :
             /\ \A s \in SyncIds(victims) : s <= top
             /\ retainedFrom' = Larger(retainedFrom, top)
  BY DEF Prune
<1>2. \A victims \in PruneBatches(cutoff) :
        victims \in SUBSET log /\ \A r \in victims : r.sync <= Head - MinKeep
  BY DEF PruneBatches, Expired
<1> QED BY <1>1, <1>2

(* Every step keeps the types. *)
LEMMA StepSyncTypes == ASSUME TypeOK, [Next]_vars PROVE TypeOK'
<1> USE EventsAssumption, ProcsAssumption, LimitsAssumption, TimesAssumption
<1>0. /\ proc \in [Procs -> ProcRecords] /\ request \in [Readers -> RequestRecords]
      /\ LockHeld /\ clock \in Nat /\ fails \in Nat /\ sweptUntil \in Nat
      /\ nextSeq \in Nat \ {0}
  BY DEF TypeOK, ProcRecords, RequestRecords, LockHeld
<1>1. CASE Tick BY <1>1 DEF TypeOK, Tick, outboxVars, tableVars
<1>2. CASE Prune
  <2>1. PICK victims \in SUBSET log :
          /\ log' = log \ victims
          /\ \E top \in SyncIds(victims) : retainedFrom' = Larger(retainedFrom, top)
    BY <1>2, PruneVictims
  <2>2. victims \subseteq log OBVIOUS
  <2>3. SyncIds(victims) \subseteq Nat BY <2>2 DEF SyncIds, TypeOK, Entries
  <2>4. retainedFrom' \in Nat BY <2>1, <2>3 DEF Larger, TypeOK
  <2> QED BY <1>2, <2>1, <2>4 DEF TypeOK, Prune, outboxVars
<1>3. ASSUME NEW e \in Events, BeginWrite(e) \/ EndWrite(e) PROVE TypeOK'
  BY <1>3 DEF TypeOK, BeginWrite, EndWrite, tableVars
<1>4. ASSUME NEW p \in Procs, AppendBegin(p) PROVE TypeOK'
  <2> DEFINE new == [proc[p] EXCEPT !.pc = "begun", !.at = clock]
  <2>1. new \in ProcRecords /\ new.pc = "begun" BY <1>0 DEF ProcRecords
  <2>2. lock # p BY <1>0, <1>4 DEF AppendBegin, LockHeld
  <2>3. proc' = [proc EXCEPT ![p] = new] BY <1>4 DEF AppendBegin, Go
  <2> HIDE DEF new
  <2> QED BY <1>0, <1>4, <2>1, <2>2, <2>3, ProcStepTypes DEF AppendBegin, outboxVars, tableVars
<1>5. ASSUME NEW p \in Procs, AppendLock(p) PROVE TypeOK'
  <2> DEFINE new == [proc[p] EXCEPT !.pc = "locked", !.start = nextSeq]
  <2>1. new \in ProcRecords /\ new.pc = "locked" BY <1>0 DEF ProcRecords
  <2>2. /\ proc' = [proc EXCEPT ![p] = new] /\ lock = NoProc /\ lock' = p
        /\ UNCHANGED <<clock, row, bornAt, log, issued, nextSeq, retainedFrom, request, sweptUntil,
                       fails>>
    BY <1>5 DEF AppendLock, Go, outboxVars, tableVars
  <2> HIDE DEF new
  <2>3. new.pc \in {"locked", "checked"} BY <2>1
  <2> QED BY <1>0, <2>1, <2>2, <2>3, ProcStepTypes
<1>6. ASSUME NEW p \in Procs, AppendCheck(p) PROVE TypeOK'
  <2> DEFINE new == [proc[p] EXCEPT !.pc = "checked", !.existing = proc[p].batch \cap EventsOf(log)]
  <2>1. proc[p].batch \cap EventsOf(log) \in SUBSET Events BY <1>0 DEF ProcRecords
  <2>2. new \in ProcRecords /\ new.pc = "checked" BY <1>0, <2>1 DEF ProcRecords
  <2>3. lock = p BY <1>0, <1>6 DEF AppendCheck, LockHeld
  <2>4. /\ proc' = [proc EXCEPT ![p] = new]
        /\ UNCHANGED <<clock, row, bornAt, log, issued, nextSeq, retainedFrom, request, sweptUntil,
                       fails, lock>>
    BY <1>6 DEF AppendCheck, Go, outboxVars, tableVars
  <2> HIDE DEF new
  <2> QED BY <1>0, <2>2, <2>3, <2>4, ProcStepTypes
<1>7. ASSUME NEW p \in Procs, AppendCommit(p) PROVE TypeOK'
  <2>1. Missing(p) \in SUBSET Events /\ proc[p].start \in Nat /\ proc[p].at \in Nat
    BY <1>0 DEF Missing, ProcRecords
  <2>2. PICK ids \in DenseIds(Missing(p), proc[p].start) :
          /\ log' = log \cup NewRows(Missing(p), ids, proc[p].at)
          /\ issued' = issued \cup NewRows(Missing(p), ids, proc[p].at)
    BY <1>7 DEF AppendCommit, NewRows
  <2>3. NewRows(Missing(p), ids, proc[p].at) \subseteq Entries BY <2>1, AppendedRows
  <2>5. issued' \subseteq Entries /\ log' \subseteq issued' BY <2>2, <2>3 DEF TypeOK
  <2>6. nextSeq' \in Nat \ {0}
    <3>1. Cardinality(Missing(p)) \in Nat /\ IsFiniteSet(Missing(p)) BY <2>1, FiniteRows
    <3>2. Missing(p) # {} => Cardinality(Missing(p)) # 0 BY <3>1, FS_EmptySet
    <3>3. nextSeq' = IF Missing(p) = {} THEN nextSeq
                     ELSE proc[p].start + Cardinality(Missing(p))
      BY <1>7 DEF AppendCommit
    <3> QED BY <1>0, <2>1, <3>1, <3>2, <3>3
  <2>7. AfterAppend(p) \in ProcRecords /\ AfterAppend(p).pc \in {"idle", "next"}
    <3>1. /\ proc[p].since \in Nat /\ proc[p].cutoff \in Int /\ proc[p].batches \in Nat
          /\ proc[p].stragglers \in SUBSET Events
      BY <1>0 DEF ProcRecords
    <3>2. CASE p \in Sweepers
      <4>1. AfterAppend(p) =
              [pc |-> "next", since |-> proc[p].since, cutoff |-> proc[p].cutoff,
               stragglers |-> proc[p].stragglers, batches |-> proc[p].batches,
               batch |-> {}, at |-> 0, start |-> 0, existing |-> {}]
        BY <3>2 DEF AfterAppend, Idle
      <4> QED BY <3>1, <4>1 DEF ProcRecords
    <3>3. CASE p \notin Sweepers BY <3>3, IdleTypes DEF AfterAppend, Idle
    <3> QED BY <3>2, <3>3
  <2>8. /\ proc' = [proc EXCEPT ![p] = AfterAppend(p)] /\ lock' = NoProc
        /\ UNCHANGED <<clock, row, bornAt, retainedFrom, sweptUntil, request, fails>>
    BY <1>7 DEF AppendCommit, Go, outboxVars
  <2>9. lock = p BY <1>0, <1>7 DEF AppendCommit, LockHeld
  <2>10. LockHeld'
    BY <1>0, <2>7, <2>8, <2>9 DEF LockHeld, Procs
  <2>11. proc' \in [Procs -> ProcRecords] BY <1>0, <2>7, <2>8
  <2> QED BY <2>5, <2>6, <2>8, <2>10, <2>11 DEF TypeOK, ProcRecords, LockHeld
<1>8. ASSUME NEW p \in Procs, Fail(p) PROVE TypeOK'
  <2>1. Idle.pc = "idle" BY DEF Idle
  <2>2. lock # p => lock' = lock BY <1>8 DEF Fail
  <2>3. lock = p => lock' = NoProc BY <1>8 DEF Fail
  <2>4. fails' \in Nat BY <1>0, <1>8 DEF Fail
  <2>5. /\ proc' = [proc EXCEPT ![p] = Idle]
        /\ UNCHANGED <<clock, row, bornAt, log, issued, nextSeq, retainedFrom, request, sweptUntil>>
    BY <1>8 DEF Fail, Go, outboxVars, tableVars
  <2> QED BY <1>0, <2>1, <2>2, <2>3, <2>4, <2>5, IdleTypes, ProcStepTypes
<1>9. ASSUME NEW p \in Procs, SequenceEvents(p) PROVE TypeOK'
  <2>1. PICK events \in SUBSET VisibleRows :
          Go(p, [Idle EXCEPT !.pc = "batch", !.batch = events \cap Routed])
    BY <1>9 DEF SequenceEvents
  <2> DEFINE new == [Idle EXCEPT !.pc = "batch", !.batch = events \cap Routed]
  <2>2. new \in ProcRecords /\ new.pc = "batch" BY IdleTypes DEF ProcRecords
  <2>3. lock # p BY <1>0, <1>9 DEF SequenceEvents, LockHeld
  <2>4. proc' = [proc EXCEPT ![p] = new] BY <2>1 DEF Go
  <2> HIDE DEF new
  <2> QED BY <1>0, <1>9, <2>2, <2>3, <2>4, ProcStepTypes
          DEF SequenceEvents, outboxVars, tableVars
<1>10. ASSUME NEW p \in Procs, SweepStart(p) PROVE TypeOK'
  <2> DEFINE new == [Idle EXCEPT !.pc = "window", !.since = sweptUntil]
  <2>1. new \in ProcRecords /\ new.pc = "window" BY <1>0, IdleTypes DEF ProcRecords
  <2>2. lock # p BY <1>0, <1>10 DEF SweepStart, LockHeld
  <2>3. proc' = [proc EXCEPT ![p] = new] BY <1>10 DEF SweepStart, Go
  <2> HIDE DEF new
  <2> QED BY <1>0, <1>10, <2>1, <2>2, <2>3, ProcStepTypes
          DEF SweepStart, outboxVars, tableVars
<1>11. ASSUME NEW p \in Procs, SweepWindow(p) PROVE TypeOK'
  <2> DEFINE new == IF FrozenCutoff <= proc[p].since THEN Idle
                    ELSE [proc[p] EXCEPT !.pc = "list", !.cutoff = FrozenCutoff]
  <2>1. FrozenCutoff \in Int BY CutoffIsLeast
  <2>2. new \in ProcRecords /\ new.pc \in {"idle", "list"}
    BY <1>0, <2>1, IdleTypes DEF ProcRecords, Idle
  <2>3. lock # p BY <1>0, <1>11 DEF SweepWindow, LockHeld
  <2>4. proc' = [proc EXCEPT ![p] = new] BY <1>11 DEF SweepWindow, Go
  <2> HIDE DEF new
  <2> QED BY <1>0, <1>11, <2>2, <2>3, <2>4, ProcStepTypes
          DEF SweepWindow, outboxVars, tableVars
<1>12. ASSUME NEW p \in Procs, SweepList(p) PROVE TypeOK'
  <2> DEFINE found == FirstOf(UnsequencedOutboxEvents(proc[p].since, proc[p].cutoff), BatchSize)
             new == [proc[p] EXCEPT !.pc = IF found \cap Routed = {} THEN "next" ELSE "batch",
                                    !.stragglers = found, !.batch = found \cap Routed]
  <2>1. found \in SUBSET Events BY DEF FirstOf, UnsequencedOutboxEvents, VisibleRows
  <2>2. proc' = [proc EXCEPT ![p] = new] BY <1>12 DEF SweepList, Go
  <2>3. new \in ProcRecords /\ new.pc \in {"next", "batch"}
    <3> HIDE DEF found
    <3> QED BY <1>0, <2>1 DEF ProcRecords
  <2>4. lock # p BY <1>0, <1>12 DEF SweepList, LockHeld
  <2> HIDE DEF new
  <2> QED BY <1>0, <1>12, <2>2, <2>3, <2>4, ProcStepTypes
          DEF SweepList, outboxVars, tableVars
<1>13. ASSUME NEW p \in Procs, SweepNext(p) PROVE TypeOK'
  <2> DEFINE more == [proc[p] EXCEPT !.pc = "list", !.batches = @ + 1, !.stragglers = {}]
  <2>1. more \in ProcRecords /\ more.pc = "list"
    <3>1. proc[p] \in ProcRecords /\ proc[p].batches + 1 \in Nat BY <1>0 DEF ProcRecords
    <3> QED BY <3>1 DEF ProcRecords
  <2>2. lock # p BY <1>0, <1>13 DEF SweepNext, LockHeld
  <2>3. PICK new \in {Idle, more} : proc' = [proc EXCEPT ![p] = new]
    BY <1>13 DEF SweepNext, Go
  <2>4. sweptUntil' \in Nat
    <3>1. sweptUntil' = sweptUntil \/ sweptUntil' = Larger(sweptUntil, proc[p].cutoff)
      BY <1>13 DEF SweepNext
    <3>2. proc[p].cutoff \in Int BY <1>0 DEF ProcRecords
    <3> QED BY <1>0, <3>1, <3>2 DEF Larger
  <2> HIDE DEF more
  <2>5. new \in ProcRecords /\ new.pc \in {"idle", "list"}
    <3>1. CASE new = Idle BY <3>1, IdleTypes DEF Idle
    <3>2. CASE new = more BY <2>1, <3>2
    <3> QED BY <2>3, <3>1, <3>2
  <2> QED BY <1>0, <1>13, <2>2, <2>3, <2>4, <2>5, ProcStepTypes
          DEF SweepNext, outboxVars, tableVars
<1>14. ASSUME NEW r \in Readers, ReadEntries(r) PROVE TypeOK'
  <2>1. PICK after \in 0..Head :
          request' = [request EXCEPT ![r] =
            [pc |-> "page", after |-> after, seen |-> Head,
             page |-> FirstOf({s \in VisibleIds(log) : s > after}, PageLimit)]]
    BY <1>14 DEF ReadEntries
  <2>2. VisibleIds(log) \subseteq Nat BY DEF VisibleIds, SyncIds, TypeOK, Entries
  <2>3. FirstOf({s \in VisibleIds(log) : s > after}, PageLimit) \in SUBSET Nat
    BY <2>2 DEF FirstOf
  <2>4. Head \in Nat /\ after \in Nat BY <1>0 DEF Head
  <2>5. request' \in [Readers -> RequestRecords] BY <1>0, <2>1, <2>3, <2>4 DEF RequestRecords
  <2> QED BY <1>14, <2>5 DEF TypeOK, RequestRecords, ReadEntries, outboxVars, tableVars
<1>15. ASSUME NEW r \in Readers, Respond(r) \/ Bootstrapped(r) PROVE TypeOK'
  <2>1. [NoRequest EXCEPT !.pc = "bootstrap"] \in RequestRecords
    BY IdleTypes DEF RequestRecords
  <2>2. request' \in [Readers -> RequestRecords]
    BY <1>0, <1>15, <2>1, IdleTypes DEF Respond, Bootstrapped
  <2> QED BY <1>15, <2>2 DEF TypeOK, RequestRecords, Respond, Bootstrapped, outboxVars, tableVars
<1>16. CASE UNCHANGED vars BY <1>16 DEF vars, TypeOK
<1> QED
  BY <1>1, <1>2, <1>3, <1>4, <1>5, <1>6, <1>7, <1>8, <1>9, <1>10, <1>11, <1>12, <1>13,
     <1>14, <1>15, <1>16
     DEF Next, AppendNext, SweepStep, Procs

-----------------------------------------------------------------------------
(* The log and its allocator.                                                *)

LEMMA InitLog == ASSUME Init PROVE LogInv
<1>1. HolderIsCurrent /\ OneEntryEach /\ FloorAbovePruned
  BY DEF Init, HolderIsCurrent, OneEntryEach, FloorAbovePruned, Idle, Procs
<1>2. BatchesBounded
  BY FS_EmptySet, LimitsAssumption DEF Init, BatchesBounded, Idle
<1>3. IdsDense
  BY LimitsAssumption DEF Init, IdsDense, SyncIds, Head, Larger
<1> QED BY <1>1, <1>2, <1>3 DEF LogInv

(* A writer moves on without touching the tables. *)
LEMMA QuietStep ==
  ASSUME TypeOK, LogInv, UNCHANGED <<log, issued, nextSeq, retainedFrom>>,
         NEW p \in Procs, NEW new \in ProcRecords, proc' = [proc EXCEPT ![p] = new],
         new.pc \in {"locked", "checked"} => new.start = nextSeq,
         new.pc = "checked" => /\ new.batch \cap EventsOf(log) \subseteq new.existing
                               /\ new.existing \subseteq EventsOf(issued),
         Cardinality(new.batch) <= BatchSize
  PROVE  LogInv'
<1>1. proc \in [Procs -> ProcRecords] BY DEF TypeOK, ProcRecords
<1>2. HolderIsCurrent'
  <2> SUFFICES ASSUME NEW q \in Procs
               PROVE  /\ proc'[q].pc \in {"locked", "checked"} => proc'[q].start = nextSeq
                      /\ proc'[q].pc = "checked" =>
                           /\ proc'[q].batch \cap EventsOf(log) \subseteq proc'[q].existing
                           /\ proc'[q].existing \subseteq EventsOf(issued)
    BY DEF HolderIsCurrent, EventsOf
  <2>1. CASE q = p BY <1>1, <2>1
  <2>2. CASE q # p BY <1>1, <2>2 DEF LogInv, HolderIsCurrent
  <2> QED BY <2>1, <2>2
<1>3. BatchesBounded' BY <1>1 DEF LogInv, BatchesBounded
<1>4. (OneEntryEach /\ FloorAbovePruned /\ IdsDense)'
  BY DEF LogInv, OneEntryEach, FloorAbovePruned, IdsDense, SyncIds, Head
<1> QED BY <1>2, <1>3, <1>4 DEF LogInv

(* What an append commits: entries for exactly what was missing, with the    *)
(* next ids.                                                                 *)
LEMMA AppendEffect ==
  ASSUME TypeOK, LogInv, NEW p \in Procs, AppendCommit(p)
  PROVE  /\ Cardinality(Missing(p)) \in 0..BatchSize
         /\ nextSeq' = nextSeq + Cardinality(Missing(p))
         /\ Missing(p) \cap EventsOf(log) = {}
         /\ Missing(p) = {} => log' = log /\ issued' = issued
         /\ \E rows \in SUBSET Entries :
              /\ log' = log \cup rows /\ issued' = issued \cup rows
              /\ EventsOf(rows) = Missing(p)
              /\ SyncIds(rows) = nextSeq..(nextSeq' - 1)
              /\ \A r, s \in rows : r.sync = s.sync \/ r.event = s.event => r = s
<1>1. proc[p] \in ProcRecords /\ nextSeq \in Nat BY DEF TypeOK, ProcRecords
<1>2. /\ Missing(p) \in SUBSET Events /\ proc[p].batch \in SUBSET Events
      /\ Missing(p) \in SUBSET proc[p].batch /\ proc[p].at \in Nat
  BY <1>1, EventsAssumption DEF Missing, ProcRecords
<1>3. /\ proc[p].start = nextSeq /\ proc[p].batch \cap EventsOf(log) \subseteq proc[p].existing
  BY DEF AppendCommit, LogInv, HolderIsCurrent
<1>4. PICK ids \in DenseIds(Missing(p), nextSeq) :
        /\ log' = log \cup NewRows(Missing(p), ids, proc[p].at)
        /\ issued' = issued \cup NewRows(Missing(p), ids, proc[p].at)
  BY <1>3 DEF AppendCommit, NewRows
<1>5. Cardinality(Missing(p)) \in 0..BatchSize
  <2>1. Cardinality(proc[p].batch) <= BatchSize BY DEF LogInv, BatchesBounded
  <2>2. IsFiniteSet(proc[p].batch) /\ Cardinality(proc[p].batch) \in Nat BY <1>2, FiniteRows
  <2>3. Cardinality(Missing(p)) <= Cardinality(proc[p].batch) BY <1>2, <2>2, FS_Subset
  <2>4. Cardinality(Missing(p)) \in Nat BY <1>2, FiniteRows
  <2> QED BY <2>1, <2>2, <2>3, <2>4, LimitsAssumption
<1>6. nextSeq' = nextSeq + Cardinality(Missing(p))
  <2>1. Missing(p) = {} => Cardinality(Missing(p)) = 0 BY FS_EmptySet
  <2>2. nextSeq' = IF Missing(p) = {} THEN nextSeq ELSE nextSeq + Cardinality(Missing(p))
    BY <1>3 DEF AppendCommit
  <2> QED BY <1>1, <2>1, <2>2
<1>7. Missing(p) \cap EventsOf(log) = {} BY <1>3 DEF Missing
<1>8. Missing(p) = {} => log' = log /\ issued' = issued
  <2>1. Missing(p) = {} => NewRows(Missing(p), ids, proc[p].at) = {} BY DEF NewRows
  <2> QED BY <1>4, <2>1
<1> DEFINE rows == NewRows(Missing(p), ids, proc[p].at)
<1>9. /\ rows \in SUBSET Entries
      /\ EventsOf(rows) = Missing(p)
      /\ SyncIds(rows) = nextSeq..(nextSeq + Cardinality(Missing(p)) - 1)
      /\ \A r, s \in rows : r.sync = s.sync \/ r.event = s.event => r = s
  BY <1>1, <1>2, AppendedRows
<1>10. log' = log \cup rows /\ issued' = issued \cup rows BY <1>4
<1> HIDE DEF rows
<1>11. \E x \in SUBSET Entries :
         /\ log' = log \cup x /\ issued' = issued \cup x
         /\ EventsOf(x) = Missing(p)
         /\ SyncIds(x) = nextSeq..(nextSeq' - 1)
         /\ \A r, s \in x : r.sync = s.sync \/ r.event = s.event => r = s
  <2>1. nextSeq + Cardinality(Missing(p)) - 1 = nextSeq' - 1 BY <1>1, <1>5, <1>6
  <2>2. SyncIds(rows) = nextSeq..(nextSeq' - 1) BY <1>9, <2>1, Zenon
  <2> USE <1>9
  <2> WITNESS rows \in SUBSET Entries
  <2> QED BY <1>10, <2>2
<1> QED BY <1>5, <1>6, <1>7, <1>8, <1>11

(* An append keeps the ids dense and the events unique. *)
LEMMA AppendKeepsLog ==
  ASSUME TypeOK, LogInv, NEW p \in Procs, AppendCommit(p)
  PROVE  LogInv'
<1>1. PICK rows \in SUBSET Entries :
        /\ log' = log \cup rows /\ issued' = issued \cup rows
        /\ EventsOf(rows) = Missing(p)
        /\ SyncIds(rows) = nextSeq..(nextSeq' - 1)
        /\ \A r, s \in rows : r.sync = s.sync \/ r.event = s.event => r = s
  BY AppendEffect
<1>2. /\ Cardinality(Missing(p)) \in Nat /\ nextSeq' = nextSeq + Cardinality(Missing(p))
      /\ Missing(p) \cap EventsOf(log) = {}
  BY AppendEffect
<1>3. nextSeq \in Nat \ {0} /\ nextSeq' \in Nat BY <1>2 DEF TypeOK
<1>4. /\ proc \in [Procs -> ProcRecords] /\ lock = p
      /\ \A q \in Procs \ {p} : proc[q].pc \notin {"locked", "checked"}
  BY DEF TypeOK, ProcRecords, AppendCommit
<1>5. /\ proc' = [proc EXCEPT ![p] = AfterAppend(p)] /\ retainedFrom' = retainedFrom
  BY DEF AppendCommit, Go
<1>6. AfterAppend(p).pc \in {"idle", "next"} /\ AfterAppend(p).batch = {}
  BY DEF AfterAppend, Idle
<1>7. HolderIsCurrent' BY <1>4, <1>5, <1>6 DEF HolderIsCurrent
<1>8. BatchesBounded'
  <2> SUFFICES ASSUME NEW q \in Procs PROVE Cardinality(proc'[q].batch) <= BatchSize
    BY DEF BatchesBounded
  <2>1. CASE q = p
    <3>1. proc'[q].batch = {} BY <1>4, <1>5, <1>6, <2>1
    <3> QED BY <3>1, FS_EmptySet, LimitsAssumption
  <2>2. CASE q # p BY <1>4, <1>5, <2>2 DEF LogInv, BatchesBounded
  <2> QED BY <2>1, <2>2
<1>9. OneEntryEach'
  <2> SUFFICES ASSUME NEW r \in log \cup rows, NEW s \in log \cup rows, r.event = s.event
               PROVE  r = s
    BY <1>1 DEF OneEntryEach
  <2>1. \A x \in rows, y \in log : x.event # y.event
    BY <1>1, <1>2 DEF EventsOf
  <2>2. CASE r \in log /\ s \in log BY <2>2 DEF LogInv, OneEntryEach
  <2>3. CASE r \in rows /\ s \in rows BY <1>1, <2>3
  <2> QED BY <2>1, <2>2, <2>3
<1>10. FloorAbovePruned' BY <1>1, <1>5 DEF LogInv, FloorAbovePruned
<1>11. IdsDense'
  <2>1. /\ SyncIds(issued) = 1..(nextSeq - 1)
        /\ \A r, s \in issued : r.sync = s.sync => r = s
        /\ (Larger(nextSeq - 1 - MinKeep, 0) + 1)..(nextSeq - 1) \subseteq SyncIds(log)
    BY DEF LogInv, IdsDense, Head
  <2>2. SyncIds(issued \cup rows) = 1..(nextSeq' - 1)
    <3>1. SyncIds(issued \cup rows) = SyncIds(issued) \cup SyncIds(rows) BY DEF SyncIds
    <3>2. (1..(nextSeq - 1)) \cup (nextSeq..(nextSeq' - 1)) = 1..(nextSeq' - 1)
      BY <1>2, <1>3
    <3> QED BY <1>1, <2>1, <3>1, <3>2
  <2>3. ASSUME NEW r \in issued \cup rows, NEW s \in issued \cup rows, r.sync = s.sync
        PROVE  r = s
    <3>1. \A x \in issued : x.sync \in 1..(nextSeq - 1) BY <2>1 DEF SyncIds
    <3>2. \A x \in rows : x.sync \in nextSeq..(nextSeq' - 1) BY <1>1 DEF SyncIds
    <3>3. ASSUME NEW x \in issued, NEW y \in rows PROVE x.sync # y.sync
      BY <1>3, <3>1, <3>2
    <3>4. CASE r \in issued /\ s \in issued BY <2>1, <2>3, <3>4
    <3>5. CASE r \in rows /\ s \in rows BY <1>1, <2>3, <3>5
    <3> QED BY <2>3, <3>3, <3>4, <3>5
  <2>4. (Larger(nextSeq' - 1 - MinKeep, 0) + 1)..(nextSeq' - 1) \subseteq SyncIds(log \cup rows)
    <3> DEFINE next == nextSeq'
    <3>0. next \in Nat /\ MinKeep \in Nat BY <1>3, LimitsAssumption
    <3>00. Larger(next - 1 - MinKeep, 0) \in Int
      <4> HIDE DEF next
      <4> QED BY <3>0 DEF Larger
    <3> SUFFICES ASSUME NEW i \in (Larger(next - 1 - MinKeep, 0) + 1)..(next - 1)
                 PROVE  i \in SyncIds(log \cup rows)
      OBVIOUS
    <3>1. SyncIds(log \cup rows) = SyncIds(log) \cup SyncIds(rows) BY DEF SyncIds
    <3>2. CASE i < nextSeq
      <4>1. i \in (Larger(nextSeq - 1 - MinKeep, 0) + 1)..(nextSeq - 1)
        BY <1>2, <1>3, <3>2, LimitsAssumption DEF Larger
      <4> QED BY <2>1, <3>1, <4>1
    <3>3. CASE ~(i < nextSeq)
      <4>1. i \in Int /\ i <= next - 1
        <5> HIDE DEF next
        <5> QED BY <3>0, <3>00
      <4>2. i \in nextSeq..(next - 1)
        <5> HIDE DEF next
        <5> QED BY <1>3, <3>0, <3>3, <4>1
      <4> QED BY <1>1, <3>1, <4>2
    <3> QED BY <3>2, <3>3
  <2> QED BY <1>1, <2>2, <2>3, <2>4 DEF IdsDense, Head
<1> QED BY <1>7, <1>8, <1>9, <1>10, <1>11 DEF LogInv

(* A prune takes no id of the newest MinKeep, and takes the floor along. *)
LEMMA PruneKeepsLog == ASSUME TypeOK, LogInv, Prune PROVE LogInv'
<1>1. PICK victims \in SUBSET log :
        /\ \A r \in victims : r.sync <= Head - MinKeep
        /\ log' = log \ victims
        /\ \E top \in SyncIds(victims) :
             /\ \A s \in SyncIds(victims) : s <= top
             /\ retainedFrom' = Larger(retainedFrom, top)
  BY PruneVictims
<1>2. UNCHANGED <<proc, issued, nextSeq>> BY DEF Prune
<1>3. HolderIsCurrent' /\ BatchesBounded' /\ OneEntryEach'
  <2>1. EventsOf(log') \subseteq EventsOf(log) BY <1>1 DEF EventsOf
  <2>2. HolderIsCurrent'
    <3> SUFFICES ASSUME NEW q \in Procs
                 PROVE  /\ proc[q].pc \in {"locked", "checked"} => proc[q].start = nextSeq
                        /\ proc[q].pc = "checked" =>
                             /\ proc[q].batch \cap EventsOf(log') \subseteq proc[q].existing
                             /\ proc[q].existing \subseteq EventsOf(issued)
      BY <1>2 DEF HolderIsCurrent, EventsOf
    <3> QED BY <2>1 DEF LogInv, HolderIsCurrent
  <2> QED BY <1>1, <1>2, <2>2 DEF LogInv, BatchesBounded, OneEntryEach
<1>4. FloorAbovePruned'
  <2>1. PICK top \in SyncIds(victims) :
          /\ \A s \in SyncIds(victims) : s <= top
          /\ retainedFrom' = Larger(retainedFrom, top)
    BY <1>1
  <2>2. /\ retainedFrom \in Nat /\ \A r \in issued : r.sync \in Nat
    BY DEF TypeOK, Entries
  <2>3. top \in Nat BY <2>2 DEF SyncIds, TypeOK
  <2> SUFFICES ASSUME NEW r \in issued, r \notin log' PROVE r.sync <= retainedFrom'
    BY <1>2 DEF FloorAbovePruned
  <2>4. CASE r \in victims
    <3>1. r.sync <= top BY <2>1, <2>4 DEF SyncIds
    <3> QED BY <2>1, <2>2, <2>3, <3>1 DEF Larger
  <2>5. CASE r \notin victims
    <3>1. r.sync <= retainedFrom BY <1>1, <2>5 DEF LogInv, FloorAbovePruned
    <3> QED BY <2>1, <2>2, <2>3, <3>1 DEF Larger
  <2> QED BY <2>4, <2>5
<1>5. IdsDense'
  <2>1. Head \in Int /\ MinKeep \in Nat BY LimitsAssumption DEF Head, TypeOK
  <2>2. ASSUME NEW i \in (Larger(Head - MinKeep, 0) + 1)..Head PROVE i \in SyncIds(log')
    <3>1. i \in SyncIds(log) BY DEF LogInv, IdsDense
    <3>2. PICK r \in log : r.sync = i BY <3>1 DEF SyncIds
    <3>3. ~(i <= Head - MinKeep) BY <2>1 DEF Larger
    <3>4. r \notin victims BY <1>1, <3>2, <3>3
    <3> QED BY <1>1, <3>2, <3>4 DEF SyncIds
  <2>3. Head' = Head /\ SyncIds(issued)' = SyncIds(issued) BY <1>2 DEF Head, SyncIds
  <2>4. SyncIds(log)' = SyncIds(log') BY DEF SyncIds
  <2>5. Larger(Head - MinKeep, 0)' = Larger(Head - MinKeep, 0) BY <2>3 DEF Larger
  <2>6. (Larger(Head - MinKeep, 0)' + 1)..Head' \subseteq SyncIds(log)'
    BY <2>2, <2>3, <2>4, <2>5
  <2> QED BY <1>2, <2>3, <2>6 DEF LogInv, IdsDense
<1> QED BY <1>3, <1>4, <1>5 DEF LogInv

(* What idle processes have. *)
LEMMA IdleFields ==
  /\ Idle.pc = "idle" /\ Idle.since = 0 /\ Idle.cutoff = 0 /\ Idle.batch = {}
  /\ Idle.stragglers = {} /\ Cardinality(Idle.batch) <= BatchSize
<1>1. Idle.batch = {} BY DEF Idle
<1>2. Cardinality(Idle.batch) = 0 BY <1>1, FS_EmptySet
<1> QED BY <1>2, LimitsAssumption DEF Idle

(* Every step keeps the log and its allocator in order. *)
LEMMA StepLog == ASSUME TypeOK, LogInv, [Next]_vars PROVE LogInv'
<1>0. /\ proc \in [Procs -> ProcRecords]
      /\ \A p \in Procs : Cardinality(proc[p].batch) <= BatchSize
  BY DEF TypeOK, ProcRecords, LogInv, BatchesBounded
<1>1. ASSUME UNCHANGED <<log, issued, nextSeq, retainedFrom, proc>> PROVE LogInv'
  BY <1>1 DEF LogInv, HolderIsCurrent, BatchesBounded, OneEntryEach, FloorAbovePruned, IdsDense,
              SyncIds, EventsOf, Head
<1>2. CASE Prune BY <1>2, PruneKeepsLog
<1>3. ASSUME NEW e \in Events, BeginWrite(e) \/ EndWrite(e) PROVE LogInv'
  BY <1>1, <1>3 DEF BeginWrite, EndWrite, tableVars
<1>4. ASSUME NEW p \in Procs, AppendBegin(p) PROVE LogInv'
  <2> DEFINE new == [proc[p] EXCEPT !.pc = "begun", !.at = clock]
  <2>1. new \in ProcRecords /\ new.pc = "begun" /\ new.batch = proc[p].batch
    BY <1>0 DEF ProcRecords, TypeOK
  <2>2. proc' = [proc EXCEPT ![p] = new] /\ UNCHANGED <<log, issued, nextSeq, retainedFrom>>
    BY <1>4 DEF AppendBegin, Go, tableVars
  <2> HIDE DEF new
  <2> QED BY <1>0, <2>1, <2>2, QuietStep
<1>5. ASSUME NEW p \in Procs, AppendLock(p) PROVE LogInv'
  <2> DEFINE new == [proc[p] EXCEPT !.pc = "locked", !.start = nextSeq]
  <2>1. /\ new \in ProcRecords /\ new.pc = "locked" /\ new.batch = proc[p].batch
        /\ new.start = nextSeq
    BY <1>0 DEF ProcRecords, TypeOK
  <2>2. proc' = [proc EXCEPT ![p] = new] /\ UNCHANGED <<log, issued, nextSeq, retainedFrom>>
    BY <1>5 DEF AppendLock, Go, tableVars
  <2> HIDE DEF new
  <2> QED BY <1>0, <2>1, <2>2, QuietStep
<1>6. ASSUME NEW p \in Procs, AppendCheck(p) PROVE LogInv'
  <2> DEFINE new == [proc[p] EXCEPT !.pc = "checked", !.existing = proc[p].batch \cap EventsOf(log)]
  <2>1. proc[p].batch \cap EventsOf(log) \in SUBSET Events
    BY <1>0, EventsAssumption DEF ProcRecords
  <2>2. /\ new \in ProcRecords /\ new.pc = "checked" /\ new.batch = proc[p].batch
        /\ new.start = proc[p].start /\ new.existing = proc[p].batch \cap EventsOf(log)
    BY <1>0, <2>1 DEF ProcRecords
  <2>3. proc' = [proc EXCEPT ![p] = new] /\ UNCHANGED <<log, issued, nextSeq, retainedFrom>>
    BY <1>6 DEF AppendCheck, Go, tableVars
  <2>4. proc[p].start = nextSeq BY <1>6 DEF AppendCheck, LogInv, HolderIsCurrent
  <2>5. EventsOf(log) \subseteq EventsOf(issued) BY DEF EventsOf, TypeOK
  <2>6. /\ new.batch \cap EventsOf(log) \subseteq new.existing
        /\ new.existing \subseteq EventsOf(issued)
    BY <2>2, <2>5
  <2> HIDE DEF new
  <2> QED BY <1>0, <2>2, <2>3, <2>4, <2>6, QuietStep
<1>7. ASSUME NEW p \in Procs, AppendCommit(p) PROVE LogInv' BY <1>7, AppendKeepsLog
<1>8. ASSUME NEW p \in Procs, Fail(p) PROVE LogInv'
  <2>1. proc' = [proc EXCEPT ![p] = Idle] /\ UNCHANGED <<log, issued, nextSeq, retainedFrom>>
    BY <1>8 DEF Fail, Go, tableVars
  <2> QED BY <2>1, IdleTypes, IdleFields, QuietStep
<1>9. ASSUME NEW p \in Procs, SequenceEvents(p) PROVE LogInv'
  <2>1. PICK events \in SUBSET VisibleRows :
          /\ Cardinality(events) <= BatchSize
          /\ Go(p, [Idle EXCEPT !.pc = "batch", !.batch = events \cap Routed])
    BY <1>9 DEF SequenceEvents
  <2> DEFINE new == [Idle EXCEPT !.pc = "batch", !.batch = events \cap Routed]
  <2>2. new \in ProcRecords /\ new.pc = "batch" /\ new.batch = events \cap Routed
    BY IdleTypes DEF ProcRecords, Idle
  <2>3. proc' = [proc EXCEPT ![p] = new] /\ UNCHANGED <<log, issued, nextSeq, retainedFrom>>
    BY <1>9, <2>1 DEF SequenceEvents, Go, tableVars
  <2>4. Cardinality(events \cap Routed) <= BatchSize
    <3>1. events \in SUBSET Events BY DEF VisibleRows
    <3>2. IsFiniteSet(events) /\ Cardinality(events) \in Nat BY <3>1, FiniteRows
    <3>3. Cardinality(events \cap Routed) <= Cardinality(events)
      <4>1. events \cap Routed \in SUBSET events OBVIOUS
      <4> QED BY <3>2, <4>1, FS_Subset
    <3>4. Cardinality(events \cap Routed) \in Nat
      <4>1. events \cap Routed \in SUBSET Events BY <3>1
      <4> QED BY <4>1, FiniteRows
    <3> QED BY <2>1, <3>2, <3>3, <3>4, LimitsAssumption
  <2> HIDE DEF new
  <2> QED BY <2>2, <2>3, <2>4, QuietStep
<1>10. ASSUME NEW p \in Procs, SweepStart(p) PROVE LogInv'
  <2> DEFINE new == [Idle EXCEPT !.pc = "window", !.since = sweptUntil]
  <2>1. new \in ProcRecords /\ new.pc = "window" /\ new.batch = Idle.batch
    BY IdleTypes DEF ProcRecords, TypeOK
  <2>2. proc' = [proc EXCEPT ![p] = new] /\ UNCHANGED <<log, issued, nextSeq, retainedFrom>>
    BY <1>10 DEF SweepStart, Go, tableVars
  <2> HIDE DEF new
  <2> QED BY <2>1, <2>2, IdleFields, QuietStep
<1>11. ASSUME NEW p \in Procs, SweepWindow(p) PROVE LogInv'
  <2> DEFINE new == IF FrozenCutoff <= proc[p].since THEN Idle
                    ELSE [proc[p] EXCEPT !.pc = "list", !.cutoff = FrozenCutoff]
  <2>1. FrozenCutoff \in Int BY CutoffIsLeast
  <2>2. /\ new \in ProcRecords /\ new.pc \in {"idle", "list"}
        /\ new.batch = Idle.batch \/ new.batch = proc[p].batch
    BY <1>0, <2>1, IdleTypes DEF ProcRecords, Idle
  <2>3. proc' = [proc EXCEPT ![p] = new] /\ UNCHANGED <<log, issued, nextSeq, retainedFrom>>
    BY <1>11 DEF SweepWindow, Go, tableVars
  <2> HIDE DEF new
  <2>4. Cardinality(new.batch) <= BatchSize BY <1>0, <2>2, IdleFields
  <2> QED BY <2>2, <2>3, <2>4, QuietStep
<1>12. ASSUME NEW p \in Procs, SweepList(p) PROVE LogInv'
  <2> DEFINE all == UnsequencedOutboxEvents(proc[p].since, proc[p].cutoff)
             found == FirstOf(all, BatchSize)
             new == [proc[p] EXCEPT !.pc = IF found \cap Routed = {} THEN "next" ELSE "batch",
                                    !.stragglers = found, !.batch = found \cap Routed]
  <2>1. all \in SUBSET Events BY DEF UnsequencedOutboxEvents, VisibleRows
  <2>2. /\ found \in SUBSET all /\ IsFiniteSet(found) /\ Cardinality(found) \in 0..BatchSize
    <3> HIDE DEF all
    <3> QED BY <2>1, FiniteRows, EventsAssumption, LimitsAssumption, FirstOfIsBounded
  <2>3. Cardinality(found \cap Routed) <= BatchSize
    <3> HIDE DEF found
    <3>1. found \cap Routed \in SUBSET found OBVIOUS
    <3>2. Cardinality(found \cap Routed) <= Cardinality(found) BY <2>2, <3>1, FS_Subset
    <3>3. Cardinality(found \cap Routed) \in Nat BY <2>2, <3>1, FS_Subset, FS_CardinalityType
    <3> QED BY <2>2, <3>2, <3>3, LimitsAssumption
  <2>4. proc' = [proc EXCEPT ![p] = new] /\ UNCHANGED <<log, issued, nextSeq, retainedFrom>>
    BY <1>12 DEF SweepList, Go, tableVars
  <2>5. new \in ProcRecords /\ new.pc \in {"next", "batch"} /\ new.batch = found \cap Routed
    <3> HIDE DEF all, found
    <3> QED BY <1>0, <2>1, <2>2 DEF ProcRecords
  <2> HIDE DEF new, found, all
  <2> QED BY <2>3, <2>4, <2>5, QuietStep
<1>13. ASSUME NEW p \in Procs, SweepNext(p) PROVE LogInv'
  <2> DEFINE more == [proc[p] EXCEPT !.pc = "list", !.batches = @ + 1, !.stragglers = {}]
  <2>1. more \in ProcRecords /\ more.pc = "list" /\ more.batch = proc[p].batch
    <3>1. proc[p] \in ProcRecords /\ proc[p].batches + 1 \in Nat BY <1>0 DEF ProcRecords
    <3> QED BY <3>1 DEF ProcRecords
  <2>2. PICK new \in {Idle, more} : proc' = [proc EXCEPT ![p] = new]
    BY <1>13 DEF SweepNext, Go
  <2>3. UNCHANGED <<log, issued, nextSeq, retainedFrom>> BY <1>13 DEF SweepNext, tableVars
  <2> HIDE DEF more
  <2>4. /\ new \in ProcRecords /\ new.pc \in {"idle", "list"}
        /\ Cardinality(new.batch) <= BatchSize
    <3>1. CASE new = Idle BY <3>1, IdleTypes, IdleFields
    <3>2. CASE new = more BY <1>0, <2>1, <3>2
    <3> QED BY <3>1, <3>2
  <2> QED BY <2>2, <2>3, <2>4, QuietStep
<1>14. ASSUME NEW r \in Readers, ReadEntries(r) \/ Respond(r) \/ Bootstrapped(r) PROVE LogInv'
  BY <1>1, <1>14 DEF ReadEntries, Respond, Bootstrapped, tableVars
<1>15. CASE Tick BY <1>1, <1>15 DEF Tick, tableVars
<1>16. CASE UNCHANGED vars BY <1>1, <1>16 DEF vars
<1> QED
  BY <1>2, <1>3, <1>4, <1>5, <1>6, <1>7, <1>8, <1>9, <1>10, <1>11, <1>12, <1>13,
     <1>14, <1>15, <1>16
     DEF Next, AppendNext, SweepStep, Procs
-----------------------------------------------------------------------------
(* The sweep.                                                                *)

LEMMA InitSweep == ASSUME Init PROVE SweepInv
<1>1. \A p \in Procs : proc[p] = Idle BY DEF Init
<1>2. \A p \in Sweepers : p \in Procs BY DEF Procs
<1>3. CutoffsFrozen BY <1>1, IdleFields DEF Init, CutoffsFrozen
<1>4. ShortBatchesComplete BY <1>1, <1>2, IdleFields DEF ShortBatchesComplete
<1>5. SweptRowsLogged BY EventsAssumption DEF Init, SweptRowsLogged
<1> QED BY <1>3, <1>4, <1>5 DEF SweepInv

(* InWindow and ShortBatchesComplete, of one process's record. *)
WindowOf(w) ==
  {e \in Routed : row[e] = "visible" /\ w.since <= bornAt[e] /\ bornAt[e] < w.cutoff}
ListedAll(w, entries) ==
  /\ w.pc = "next" => w.batch = {}
  /\ w.pc \in {"batch", "begun", "locked", "checked", "next"} /\ Cardinality(w.stragglers) < BatchSize
       => WindowOf(w) \subseteq EventsOf(entries) \cup w.batch
CutoffFrozen(w) ==
  w.cutoff <= clock /\ \A e \in Events : row[e] = "open" => w.cutoff <= bornAt[e]

LEMMA ListedByAll ==
  ASSUME TypeOK, SweepInv, NEW p \in Procs
  PROVE  /\ CutoffFrozen(proc[p]) /\ proc[p].since <= sweptUntil
         /\ p \in Sweepers => ListedAll(proc[p], issued)
<1>1. CutoffFrozen(proc[p]) /\ proc[p].since <= sweptUntil
  BY DEF SweepInv, CutoffsFrozen, CutoffFrozen
<1>2. ASSUME p \in Sweepers PROVE ListedAll(proc[p], issued)
  BY <1>2 DEF SweepInv, ShortBatchesComplete, ListedAll, InWindow, WindowOf, Exhausted
<1> QED BY <1>1, <1>2

(* A process moves on; the mark does not. *)
LEMMA SweepQuiet ==
  ASSUME TypeOK, SweepInv, UNCHANGED <<clock, row, bornAt, sweptUntil>>, issued \subseteq issued',
         NEW p \in Procs, NEW new \in ProcRecords, proc' = [proc EXCEPT ![p] = new],
         CutoffFrozen(new), new.since <= sweptUntil,
         p \in Sweepers => ListedAll(new, issued')
  PROVE  SweepInv'
<1>1. proc \in [Procs -> ProcRecords] BY DEF TypeOK, ProcRecords
<1>2. /\ proc'[p] = new /\ \A q \in Procs \ {p} : proc'[q] = proc[q] BY <1>1
<1>3. EventsOf(issued) \subseteq EventsOf(issued') BY DEF EventsOf
<1>4. CutoffsFrozen' BY <1>2 DEF SweepInv, CutoffsFrozen, CutoffFrozen
<1>5. ASSUME NEW q \in Sweepers PROVE ListedAll(proc'[q], issued')
  <2>1. q \in Procs BY DEF Procs
  <2>2. CASE q = p BY <1>2, <2>2
  <2>3. CASE q # p
    <3>1. proc'[q] = proc[q] BY <1>2, <2>1, <2>3
    <3>2. ListedAll(proc[q], issued) BY <2>1, ListedByAll
    <3>3. ListedAll(proc[q], issued') BY <1>3, <3>2 DEF ListedAll
    <3> QED BY <3>1, <3>3
  <2> QED BY <2>2, <2>3
<1>6. ShortBatchesComplete'
  BY <1>5 DEF ShortBatchesComplete, ListedAll, InWindow, WindowOf, Exhausted, EventsOf
<1>7. SweptRowsLogged'
  <2>1. EventsOf(issued)' = EventsOf(issued') BY DEF EventsOf
  <2> QED BY <1>3, <2>1 DEF SweepInv, SweptRowsLogged
<1> QED BY <1>4, <1>6, <1>7 DEF SweepInv

(* A row appears in front of every cutoff: its date is the clock's, and it   *)
(* stays until its transaction has ended.                                    *)
LEMMA WriteKeepsSweep ==
  ASSUME TypeOK, SweepInv, NEW e \in Events, BeginWrite(e) \/ EndWrite(e)
  PROVE  SweepInv'
<1>1. /\ UNCHANGED <<clock, issued, sweptUntil, proc>>
      /\ \A d \in Events \ {e} : row'[d] = row[d] /\ bornAt'[d] = bornAt[d]
  BY DEF BeginWrite, EndWrite, TypeOK, tableVars
<1>2. \/ row[e] = "none" /\ row'[e] = "open" /\ bornAt'[e] = clock
      \/ row[e] = "open" /\ row'[e] # "open" /\ bornAt'[e] = bornAt[e]
  BY DEF BeginWrite, EndWrite, TypeOK
<1>3. CutoffsFrozen'
  <2>1. sweptUntil <= clock /\ \A p \in Procs : proc[p].since <= sweptUntil /\ proc[p].cutoff <= clock
    BY DEF SweepInv, CutoffsFrozen
  <2>2. ASSUME NEW d \in Events, row'[d] = "open"
        PROVE  sweptUntil <= bornAt'[d] /\ \A p \in Procs : proc[p].cutoff <= bornAt'[d]
    BY <1>1, <1>2, <2>1, <2>2 DEF SweepInv, CutoffsFrozen
  <2> QED BY <1>1, <2>1, <2>2 DEF CutoffsFrozen
<1>4. row'[e] = "visible" =>
        ~(bornAt'[e] < sweptUntil) /\ \A p \in Procs : ~(bornAt'[e] < proc[p].cutoff)
  <2> SUFFICES ASSUME row'[e] = "visible"
               PROVE  ~(bornAt'[e] < sweptUntil) /\ \A p \in Procs : ~(bornAt'[e] < proc[p].cutoff)
    OBVIOUS
  <2>1. row[e] = "open" /\ bornAt'[e] = bornAt[e] BY <1>2
  <2>2. /\ bornAt[e] \in Nat /\ sweptUntil \in Nat /\ \A p \in Procs : proc[p].cutoff \in Int
    BY DEF TypeOK
  <2>3. sweptUntil <= bornAt[e] /\ \A p \in Procs : proc[p].cutoff <= bornAt[e]
    BY <2>1 DEF SweepInv, CutoffsFrozen
  <2> QED BY <2>1, <2>2, <2>3
<1>5. EventsOf(issued)' = EventsOf(issued) BY <1>1 DEF EventsOf
<1>6. SweptRowsLogged'
  <2> SUFFICES ASSUME NEW d \in Routed, row'[d] = "visible", bornAt'[d] < sweptUntil
               PROVE  d \in EventsOf(issued)
    BY <1>1, <1>5 DEF SweptRowsLogged
  <2>1. d # e BY <1>4
  <2>2. row[d] = "visible" /\ bornAt[d] < sweptUntil BY <1>1, <2>1, EventsAssumption
  <2> QED BY <2>2 DEF SweepInv, SweptRowsLogged
<1>7. ShortBatchesComplete'
  <2>1. ASSUME NEW p \in Sweepers PROVE InWindow(p)' \subseteq InWindow(p)
    <3> SUFFICES ASSUME NEW d \in Routed, row'[d] = "visible", proc[p].since <= bornAt'[d],
                        bornAt'[d] < proc[p].cutoff
                 PROVE  d \in InWindow(p)
      BY <1>1 DEF InWindow
    <3>1. d # e BY <1>4 DEF Procs
    <3>2. row[d] = "visible" /\ bornAt'[d] = bornAt[d] BY <1>1, <3>1, EventsAssumption
    <3> QED BY <3>2 DEF InWindow
  <2> QED BY <1>1, <1>5, <2>1 DEF SweepInv, ShortBatchesComplete, Exhausted
<1> QED BY <1>3, <1>6, <1>7 DEF SweepInv

(* The mark moves to the cutoff of a window whose rows are all logged. *)
LEMMA MarkKeepsSweep ==
  ASSUME TypeOK, SweepInv, NEW p \in Sweepers, SweepNext(p), Exhausted(p)
  PROVE  SweepInv'
<1>1. /\ UNCHANGED <<clock, row, bornAt, issued>> /\ proc' = [proc EXCEPT ![p] = Idle]
      /\ sweptUntil' = Larger(sweptUntil, proc[p].cutoff)
  BY DEF SweepNext, Go, outboxVars, tableVars
<1>2. p \in Procs /\ proc \in [Procs -> ProcRecords] BY DEF Procs, TypeOK, ProcRecords
<1>3. /\ sweptUntil \in Nat /\ clock \in Nat /\ bornAt \in [Events -> Nat]
      /\ \A q \in Procs : proc[q].cutoff \in Int /\ proc[q].since \in Nat
  BY DEF TypeOK
<1>4. /\ sweptUntil <= sweptUntil' /\ sweptUntil' \in Nat
      /\ sweptUntil' = sweptUntil \/ sweptUntil' = proc[p].cutoff
  BY <1>1, <1>2, <1>3 DEF Larger
<1>5. /\ proc'[p] = Idle /\ \A q \in Procs \ {p} : proc'[q] = proc[q] BY <1>1, <1>2
<1>6. CutoffsFrozen'
  <2>1. sweptUntil' <= clock BY <1>2, <1>4 DEF SweepInv, CutoffsFrozen
  <2>2. ASSUME NEW q \in Procs PROVE proc'[q].since <= sweptUntil' /\ proc'[q].cutoff <= clock
    <3>1. CASE q = p BY <1>3, <1>4, <1>5, <3>1, IdleFields
    <3>2. CASE q # p
      <4>1. proc'[q] = proc[q] BY <1>5, <3>2
      <4>2. proc[q].since <= sweptUntil /\ proc[q].cutoff <= clock
        BY DEF SweepInv, CutoffsFrozen
      <4>3. proc[q].since <= sweptUntil' BY <1>3, <1>4, <4>2
      <4> QED BY <4>1, <4>2, <4>3
    <3> QED BY <3>1, <3>2
  <2>3. ASSUME NEW e \in Events, row[e] = "open"
        PROVE  sweptUntil' <= bornAt[e] /\ \A q \in Procs : proc'[q].cutoff <= bornAt[e]
    <3>1. sweptUntil <= bornAt[e] /\ \A q \in Procs : proc[q].cutoff <= bornAt[e]
      BY <2>3 DEF SweepInv, CutoffsFrozen
    <3>2. sweptUntil' <= bornAt[e] BY <1>2, <1>4, <3>1
    <3>3. Idle.cutoff <= bornAt[e] BY <1>3, IdleFields
    <3> QED BY <1>5, <3>1, <3>2, <3>3
  <2> QED BY <1>1, <2>1, <2>2, <2>3 DEF CutoffsFrozen
<1>7. ShortBatchesComplete'
  <2> SUFFICES ASSUME NEW q \in Sweepers PROVE ListedAll(proc'[q], issued)
    BY <1>1 DEF ShortBatchesComplete, ListedAll, InWindow, WindowOf, Exhausted, EventsOf
  <2>1. CASE q = p BY <1>5, <2>1, IdleFields DEF ListedAll
  <2>2. CASE q # p
    <3>1. proc'[q] = proc[q] /\ q \in Procs BY <1>5, <2>2 DEF Procs
    <3> QED BY <3>1, ListedByAll
  <2> QED BY <2>1, <2>2
<1>8. SweptRowsLogged'
  <2> SUFFICES ASSUME NEW e \in Routed, row[e] = "visible", bornAt[e] < sweptUntil'
               PROVE  e \in EventsOf(issued)
    BY <1>1 DEF SweptRowsLogged, EventsOf
  <2>1. CASE bornAt[e] < sweptUntil BY <2>1 DEF SweepInv, SweptRowsLogged
  <2>2. CASE ~(bornAt[e] < sweptUntil)
    <3>1. bornAt[e] \in Nat BY <1>3, EventsAssumption
    <3>2. bornAt[e] < proc[p].cutoff BY <1>3, <1>4, <2>2
    <3>3. proc[p].since <= sweptUntil BY <1>2 DEF SweepInv, CutoffsFrozen
    <3>4. proc[p].since <= bornAt[e] BY <1>2, <1>3, <2>2, <3>1, <3>3
    <3>5. e \in InWindow(p) BY <3>2, <3>4 DEF InWindow
    <3>6. proc[p].pc = "next" BY DEF SweepNext
    <3>7. proc[p].batch = {} /\ InWindow(p) \subseteq EventsOf(issued) \cup proc[p].batch
      BY <3>6 DEF SweepInv, ShortBatchesComplete
    <3> QED BY <3>5, <3>7
  <2> QED BY <2>1, <2>2
<1> QED BY <1>6, <1>7, <1>8 DEF SweepInv

(* A batch shorter than its limit is all that the window lacks. *)
LEMMA ListKeepsSweep ==
  ASSUME TypeOK, SweepInv, NEW p \in Sweepers, SweepList(p)
  PROVE  SweepInv'
<1> DEFINE all == UnsequencedOutboxEvents(proc[p].since, proc[p].cutoff)
           found == FirstOf(all, BatchSize)
           new == [proc[p] EXCEPT !.pc = IF found \cap Routed = {} THEN "next" ELSE "batch",
                                  !.stragglers = found, !.batch = found \cap Routed]
<1>1. p \in Procs /\ proc[p] \in ProcRecords BY DEF Procs, TypeOK, ProcRecords
<1>2. all \in SUBSET Events /\ found \in SUBSET Events
  BY DEF UnsequencedOutboxEvents, VisibleRows, FirstOf
<1>3. /\ new \in ProcRecords /\ new.since = proc[p].since /\ new.cutoff = proc[p].cutoff
      /\ new.stragglers = found /\ new.batch = found \cap Routed
      /\ new.pc = "next" => new.batch = {}
  <2> HIDE DEF found
  <2> QED BY <1>1, <1>2 DEF ProcRecords
<1>4. /\ proc' = [proc EXCEPT ![p] = new]
      /\ UNCHANGED <<clock, row, bornAt, sweptUntil, issued>>
  BY DEF SweepList, Go, outboxVars, tableVars
<1>5. CutoffFrozen(proc[p]) /\ proc[p].since <= sweptUntil BY <1>1, ListedByAll
<1>6. CutoffFrozen(new) /\ new.since <= sweptUntil
  <2> HIDE DEF new
  <2> QED BY <1>3, <1>5 DEF CutoffFrozen
<1>7. ASSUME Cardinality(found) < BatchSize
      PROVE  WindowOf(proc[p]) \subseteq EventsOf(issued) \cup (found \cap Routed)
  <2>1. found = all
    <3> HIDE DEF all
    <3>1. all \in SUBSET Nat /\ IsFiniteSet(all) /\ BatchSize \in Nat
      BY <1>2, FiniteRows, EventsAssumption, LimitsAssumption
    <3> QED BY <1>7, <3>1, ShortIsComplete
  <2> SUFFICES ASSUME NEW e \in WindowOf(proc[p]), e \notin EventsOf(issued)
               PROVE  e \in found \cap Routed
    OBVIOUS
  <2>2. /\ e \in Routed /\ e \in Events /\ row[e] = "visible"
        /\ proc[p].since <= bornAt[e] /\ bornAt[e] < proc[p].cutoff
    BY EventsAssumption DEF WindowOf
  <2>3. e \notin EventsOf(log) BY DEF EventsOf, TypeOK
  <2>4. e \in all BY <2>2, <2>3 DEF UnsequencedOutboxEvents, VisibleRows
  <2> QED BY <2>1, <2>2, <2>4
<1>8. ListedAll(new, issued')
  <2> HIDE DEF new, found
  <2>1. WindowOf(new) = WindowOf(proc[p]) BY <1>3 DEF WindowOf
  <2>2. issued' = issued BY <1>4
  <2> QED BY <1>3, <1>7, <2>1, <2>2 DEF ListedAll
<1>9. issued \subseteq issued' BY <1>4
<1> HIDE DEF new, found, all
<1> QED BY <1>1, <1>3, <1>4, <1>6, <1>8, <1>9, SweepQuiet

(* Every step keeps the sweep's promise. *)
LEMMA StepSweep == ASSUME TypeOK, LogInv, SweepInv, [Next]_vars PROVE SweepInv'
<1>0. proc \in [Procs -> ProcRecords] BY DEF TypeOK, ProcRecords
<1>00. CutoffFrozen(Idle) /\ Idle.since <= sweptUntil /\ ListedAll(Idle, issued)
  BY IdleFields DEF CutoffFrozen, ListedAll, TypeOK
<1>1. ASSUME UNCHANGED <<clock, row, bornAt, issued, sweptUntil, proc>> PROVE SweepInv'
  BY <1>1 DEF SweepInv, CutoffsFrozen, ShortBatchesComplete, SweptRowsLogged, InWindow, Exhausted,
              EventsOf
<1>2. CASE Prune BY <1>1, <1>2 DEF Prune, outboxVars
<1>3. ASSUME NEW e \in Events, BeginWrite(e) \/ EndWrite(e) PROVE SweepInv'
  BY <1>3, WriteKeepsSweep
<1>4. ASSUME NEW p \in Procs, AppendBegin(p) \/ AppendLock(p) \/ AppendCheck(p) PROVE SweepInv'
  <2>1. PICK new \in {[proc[p] EXCEPT !.pc = "begun", !.at = clock],
                      [proc[p] EXCEPT !.pc = "locked", !.start = nextSeq],
                      [proc[p] EXCEPT !.pc = "checked",
                                      !.existing = proc[p].batch \cap EventsOf(log)]} :
          proc' = [proc EXCEPT ![p] = new]
    BY <1>4 DEF AppendBegin, AppendLock, AppendCheck, Go
  <2>2. UNCHANGED <<clock, row, bornAt, sweptUntil, issued>>
    BY <1>4 DEF AppendBegin, AppendLock, AppendCheck, outboxVars, tableVars
  <2>3. proc[p].batch \cap EventsOf(log) \in SUBSET Events
    BY <1>0, EventsAssumption DEF ProcRecords
  <2>4. /\ new \in ProcRecords /\ new.since = proc[p].since /\ new.cutoff = proc[p].cutoff
        /\ new.stragglers = proc[p].stragglers /\ new.batch = proc[p].batch
        /\ new.pc # "next"
    <3>0. proc[p] \in ProcRecords /\ clock \in Nat /\ nextSeq \in Nat BY <1>0 DEF TypeOK
    <3>1. CASE new = [proc[p] EXCEPT !.pc = "begun", !.at = clock]
      BY <3>0, <3>1 DEF ProcRecords
    <3>2. CASE new = [proc[p] EXCEPT !.pc = "locked", !.start = nextSeq]
      BY <3>0, <3>2 DEF ProcRecords
    <3>3. CASE new = [proc[p] EXCEPT !.pc = "checked",
                                     !.existing = proc[p].batch \cap EventsOf(log)]
      BY <2>3, <3>0, <3>3 DEF ProcRecords
    <3> QED BY <2>1, <3>1, <3>2, <3>3
  <2>5. proc[p].pc \in {"batch", "begun", "locked"}
    BY <1>4 DEF AppendBegin, AppendLock, AppendCheck
  <2>6. /\ CutoffFrozen(proc[p]) /\ proc[p].since <= sweptUntil
        /\ p \in Sweepers => ListedAll(proc[p], issued)
    BY ListedByAll
  <2>7. CutoffFrozen(new) /\ new.since <= sweptUntil BY <2>4, <2>6 DEF CutoffFrozen
  <2>8. p \in Sweepers => ListedAll(new, issued')
    <3>1. WindowOf(new) = WindowOf(proc[p]) /\ issued' = issued BY <2>2, <2>4 DEF WindowOf
    <3> QED BY <2>4, <2>5, <2>6, <3>1 DEF ListedAll
  <2>9. issued \subseteq issued' BY <2>2
  <2> QED BY <2>1, <2>2, <2>4, <2>7, <2>8, <2>9, SweepQuiet
<1>5. ASSUME NEW p \in Procs, AppendCommit(p) PROVE SweepInv'
  <2>1. /\ proc' = [proc EXCEPT ![p] = AfterAppend(p)]
        /\ UNCHANGED <<clock, row, bornAt, sweptUntil>> /\ proc[p].pc = "checked"
    BY <1>5 DEF AppendCommit, Go, outboxVars
  <2>2. PICK rows \in SUBSET Entries : issued' = issued \cup rows /\ EventsOf(rows) = Missing(p)
    BY <1>5, AppendEffect
  <2>3. EventsOf(issued') = EventsOf(issued) \cup Missing(p) /\ issued \subseteq issued'
    BY <2>2 DEF EventsOf
  <2>4. proc[p].batch \subseteq EventsOf(issued')
    <3>1. proc[p].existing \subseteq EventsOf(issued) BY <2>1 DEF LogInv, HolderIsCurrent
    <3> QED BY <2>3, <3>1 DEF Missing
  <2>5. /\ CutoffFrozen(proc[p]) /\ proc[p].since <= sweptUntil
        /\ p \in Sweepers => ListedAll(proc[p], issued)
    BY ListedByAll
  <2>6. CASE p \in Sweepers
    <3> DEFINE new == [pc |-> "next", since |-> proc[p].since, cutoff |-> proc[p].cutoff,
                       stragglers |-> proc[p].stragglers, batches |-> proc[p].batches,
                       batch |-> {}, at |-> 0, start |-> 0, existing |-> {}]
    <3>1. AfterAppend(p) = new BY <2>6 DEF AfterAppend, Idle
    <3>2. new \in ProcRecords
      <4>1. /\ proc[p].since \in Nat /\ proc[p].cutoff \in Int /\ proc[p].batches \in Nat
            /\ proc[p].stragglers \in SUBSET Events
        BY <1>0 DEF ProcRecords
      <4> QED BY <4>1 DEF ProcRecords
    <3>3. /\ new.since = proc[p].since /\ new.cutoff = proc[p].cutoff /\ new.batch = {}
          /\ new.stragglers = proc[p].stragglers
      OBVIOUS
    <3> HIDE DEF new
    <3>4. CutoffFrozen(new) /\ new.since <= sweptUntil BY <2>5, <3>3 DEF CutoffFrozen
    <3>5. ListedAll(new, issued')
      <4>1. WindowOf(new) = WindowOf(proc[p]) BY <3>3 DEF WindowOf
      <4> QED BY <2>1, <2>3, <2>4, <2>5, <2>6, <3>3, <4>1 DEF ListedAll
    <3> QED BY <2>1, <2>3, <3>1, <3>2, <3>4, <3>5, SweepQuiet
  <2>7. CASE p \notin Sweepers
    <3>1. AfterAppend(p) = Idle BY <2>7 DEF AfterAppend
    <3> QED BY <1>00, <2>1, <2>3, <2>7, <3>1, IdleTypes, SweepQuiet
  <2> QED BY <2>6, <2>7
<1>6. ASSUME NEW p \in Procs, UNCHANGED <<clock, row, bornAt, sweptUntil, issued>>,
             proc' = [proc EXCEPT ![p] = Idle]
      PROVE  SweepInv'
  <2>1. issued \subseteq issued' /\ ListedAll(Idle, issued') BY <1>00, <1>6
  <2> QED BY <1>00, <1>6, <2>1, IdleTypes, SweepQuiet
<1>7. ASSUME NEW p \in Procs, Fail(p) PROVE SweepInv'
  BY <1>6, <1>7 DEF Fail, Go, outboxVars, tableVars
<1>8. ASSUME NEW p \in Sequencers, SequenceEvents(p) PROVE SweepInv'
  <2>1. PICK events \in SUBSET VisibleRows :
          Go(p, [Idle EXCEPT !.pc = "batch", !.batch = events \cap Routed])
    BY <1>8 DEF SequenceEvents
  <2> DEFINE new == [Idle EXCEPT !.pc = "batch", !.batch = events \cap Routed]
  <2>2. new \in ProcRecords /\ new.since = Idle.since /\ new.cutoff = Idle.cutoff
    BY IdleTypes DEF ProcRecords, Idle
  <2>3. proc' = [proc EXCEPT ![p] = new] /\ UNCHANGED <<clock, row, bornAt, sweptUntil, issued>>
    BY <1>8, <2>1 DEF SequenceEvents, Go, outboxVars, tableVars
  <2>4. p \in Procs /\ p \notin Sweepers BY ProcsAssumption DEF Procs
  <2> HIDE DEF new
  <2>5. CutoffFrozen(new) /\ new.since <= sweptUntil BY <1>00, <2>2 DEF CutoffFrozen
  <2>6. issued \subseteq issued' BY <2>3
  <2> QED BY <2>2, <2>3, <2>4, <2>5, <2>6, SweepQuiet
<1>9. ASSUME NEW p \in Sweepers, SweepStart(p) PROVE SweepInv'
  <2> DEFINE new == [Idle EXCEPT !.pc = "window", !.since = sweptUntil]
  <2>1. /\ new \in ProcRecords /\ new.since = sweptUntil /\ new.cutoff = Idle.cutoff
        /\ new.pc = "window"
    BY IdleTypes DEF ProcRecords, Idle, TypeOK
  <2>2. /\ proc' = [proc EXCEPT ![p] = new] /\ UNCHANGED <<clock, row, bornAt, sweptUntil, issued>>
        /\ p \in Procs
    BY <1>9 DEF SweepStart, Go, outboxVars, tableVars, Procs
  <2> HIDE DEF new
  <2>3. CutoffFrozen(new) /\ new.since <= sweptUntil /\ ListedAll(new, issued')
    BY <1>00, <2>1 DEF CutoffFrozen, ListedAll, TypeOK
  <2>4. issued \subseteq issued' BY <2>2
  <2> QED BY <2>1, <2>2, <2>3, <2>4, SweepQuiet
<1>10. ASSUME NEW p \in Sweepers, SweepWindow(p) PROVE SweepInv'
  <2>0. /\ p \in Procs /\ proc[p] \in ProcRecords
        /\ UNCHANGED <<clock, row, bornAt, sweptUntil, issued>>
    BY <1>0, <1>10 DEF Procs, SweepWindow, outboxVars, tableVars
  <2> DEFINE new == [proc[p] EXCEPT !.pc = "list", !.cutoff = FrozenCutoff]
  <2>1. proc' = [proc EXCEPT ![p] = Idle] \/ proc' = [proc EXCEPT ![p] = new]
    BY <1>10 DEF SweepWindow, Go
  <2>2. /\ FrozenCutoff \in Int /\ FrozenCutoff <= clock
        /\ \A t \in RunningSince : FrozenCutoff <= t
    BY CutoffIsLeast
  <2>3. /\ new \in ProcRecords /\ new.since = proc[p].since /\ new.cutoff = FrozenCutoff
        /\ new.pc = "list"
    BY <2>0, <2>2 DEF ProcRecords
  <2> HIDE DEF new
  <2>4. CutoffFrozen(new)
    <3>1. \A e \in Events : row[e] = "open" => bornAt[e] \in RunningSince BY DEF RunningSince
    <3> QED BY <2>2, <2>3, <3>1 DEF CutoffFrozen
  <2>5. new.since <= sweptUntil BY <2>0, <2>3, ListedByAll
  <2>6. ListedAll(new, issued') BY <2>3 DEF ListedAll
  <2>7. issued \subseteq issued' BY <2>0
  <2>8. CASE proc' = [proc EXCEPT ![p] = Idle] BY <1>6, <2>0, <2>8
  <2>9. CASE proc' = [proc EXCEPT ![p] = new]
    BY <2>0, <2>3, <2>4, <2>5, <2>6, <2>7, <2>9, SweepQuiet
  <2> QED BY <2>1, <2>8, <2>9
<1>11. ASSUME NEW p \in Sweepers, SweepList(p) PROVE SweepInv' BY <1>11, ListKeepsSweep
<1>12. ASSUME NEW p \in Sweepers, SweepNext(p) PROVE SweepInv'
  <2>1. CASE Exhausted(p) BY <1>12, <2>1, MarkKeepsSweep
  <2>2. CASE ~Exhausted(p)
    <3> DEFINE more == [proc[p] EXCEPT !.pc = "list", !.batches = @ + 1, !.stragglers = {}]
    <3>0. /\ p \in Procs /\ proc[p] \in ProcRecords
          /\ UNCHANGED <<clock, row, bornAt, sweptUntil, issued>>
      BY <1>0, <1>12, <2>2 DEF Procs, SweepNext, outboxVars, tableVars
    <3>1. proc' = [proc EXCEPT ![p] = Idle] \/ proc' = [proc EXCEPT ![p] = more]
      BY <1>12, <2>2 DEF SweepNext, Go
    <3>2. /\ more \in ProcRecords /\ more.since = proc[p].since /\ more.cutoff = proc[p].cutoff
          /\ more.pc = "list"
      <4>1. proc[p].batches + 1 \in Nat BY <3>0 DEF ProcRecords
      <4> QED BY <3>0, <4>1 DEF ProcRecords
    <3> HIDE DEF more
    <3>3. CutoffFrozen(proc[p]) /\ proc[p].since <= sweptUntil BY <3>0, ListedByAll
    <3>4. CutoffFrozen(more) /\ more.since <= sweptUntil /\ ListedAll(more, issued')
      BY <3>2, <3>3 DEF CutoffFrozen, ListedAll
    <3>5. issued \subseteq issued' BY <3>0
    <3>6. CASE proc' = [proc EXCEPT ![p] = Idle] BY <1>6, <3>0, <3>6
    <3>7. CASE proc' = [proc EXCEPT ![p] = more]
      BY <3>0, <3>2, <3>4, <3>5, <3>7, SweepQuiet
    <3> QED BY <3>1, <3>6, <3>7
  <2> QED BY <2>1, <2>2
<1>13. ASSUME NEW r \in Readers, ReadEntries(r) \/ Respond(r) \/ Bootstrapped(r) PROVE SweepInv'
  BY <1>1, <1>13 DEF ReadEntries, Respond, Bootstrapped, outboxVars, tableVars
<1>14. CASE Tick
  <2>1. clock' = clock + 1 /\ UNCHANGED <<row, bornAt, issued, sweptUntil, proc>>
    BY <1>14 DEF Tick, outboxVars, tableVars
  <2>2. /\ sweptUntil <= clock' /\ \A p \in Procs : proc[p].cutoff <= clock'
    <3>1. /\ clock \in Nat /\ sweptUntil \in Nat /\ \A p \in Procs : proc[p].cutoff \in Int
      BY DEF TypeOK
    <3> QED BY <2>1, <3>1 DEF SweepInv, CutoffsFrozen
  <2>3. CutoffsFrozen' BY <2>1, <2>2 DEF SweepInv, CutoffsFrozen
  <2> QED BY <2>1, <2>3 DEF SweepInv, ShortBatchesComplete, SweptRowsLogged, InWindow, Exhausted,
                            EventsOf
<1>15. CASE UNCHANGED vars BY <1>1, <1>15 DEF vars
<1> QED
  BY <1>2, <1>3, <1>4, <1>5, <1>7, <1>8, <1>9, <1>10, <1>11, <1>12, <1>13, <1>14, <1>15
     DEF Next, AppendNext, SweepStep
-----------------------------------------------------------------------------
(* Catch-up.                                                                 *)

(* What PagesCover says of one page. *)
PageCovers(q) ==
  /\ q.seen <= Head
  /\ \A s \in VisibleIds(issued) :
       (/\ s > q.after /\ s <= q.seen /\ s > retainedFrom
        /\ \/ Cardinality(q.page) < PageLimit
           \/ \E last \in q.page : s <= last)
       => s \in q.page

(* The floor and the head only rise, and new ids are above the head. *)
LEMMA TablesMove ==
  ASSUME TypeOK, LogInv, [Next]_vars
  PROVE  /\ Head \in Nat /\ Head' \in Nat /\ Head <= Head'
         /\ retainedFrom \in Nat /\ retainedFrom' \in Nat /\ retainedFrom <= retainedFrom'
         /\ \A s \in VisibleIds(issued)' : s \in Nat /\ (s \in VisibleIds(issued) \/ s > Head)
<1>1. TypeOK' BY StepSyncTypes
<1>2. /\ Head \in Nat /\ Head' \in Nat /\ retainedFrom \in Nat /\ retainedFrom' \in Nat
      /\ \A s \in VisibleIds(issued)' : s \in Nat
  <2>1. /\ nextSeq \in Nat \ {0} /\ nextSeq' \in Nat \ {0} BY <1>1 DEF TypeOK
  <2>2. retainedFrom \in Nat /\ retainedFrom' \in Nat BY <1>1 DEF TypeOK
  <2>3. \A r \in issued' : r.sync \in Nat BY <1>1 DEF TypeOK, Entries
  <2>4. \A s \in VisibleIds(issued)' : s \in Nat BY <2>3 DEF VisibleIds, SyncIds
  <2>5. nextSeq - 1 \in Nat /\ \A n \in Nat \ {0} : n - 1 \in Nat BY <2>1
  <2>6. nextSeq' - 1 \in Nat BY <2>1, <2>5, Zenon
  <2>7. Head \in Nat /\ Head' \in Nat BY <2>5, <2>6, Zenon DEF Head
  <2> QED BY <2>2, <2>4, <2>7
<1>3. ASSUME UNCHANGED <<issued, nextSeq, retainedFrom>>
      PROVE  /\ Head <= Head' /\ retainedFrom <= retainedFrom'
             /\ \A s \in VisibleIds(issued)' : s \in VisibleIds(issued)
  BY <1>2, <1>3 DEF Head, VisibleIds, SyncIds
<1>4. CASE Prune
  <2>1. UNCHANGED <<issued, nextSeq>> BY <1>4 DEF Prune
  <2>2. PICK victims \in SUBSET log : \E top \in SyncIds(victims) :
          retainedFrom' = Larger(retainedFrom, top)
    BY <1>4, PruneVictims
  <2>3. SyncIds(victims) \subseteq Nat BY DEF SyncIds, TypeOK, Entries
  <2>4. retainedFrom <= retainedFrom' BY <1>2, <2>2, <2>3 DEF Larger
  <2> QED BY <1>2, <2>1, <2>4 DEF Head, VisibleIds, SyncIds
<1>5. ASSUME NEW p \in Procs, AppendCommit(p)
      PROVE  /\ Head <= Head' /\ retainedFrom <= retainedFrom'
             /\ \A s \in VisibleIds(issued)' : s \in VisibleIds(issued) \/ s > Head
  <2>1. retainedFrom' = retainedFrom BY <1>5 DEF AppendCommit
  <2>2. PICK rows \in SUBSET Entries :
          issued' = issued \cup rows /\ SyncIds(rows) = nextSeq..(nextSeq' - 1)
    BY <1>5, AppendEffect
  <2>3. Cardinality(Missing(p)) \in Nat /\ nextSeq' = nextSeq + Cardinality(Missing(p))
    BY <1>5, AppendEffect
  <2>4. nextSeq \in Nat BY DEF TypeOK
  <2>5. \A r \in rows : r.sync > Head
    <3>1. \A r \in rows : r.sync \in nextSeq..(nextSeq' - 1) BY <2>2 DEF SyncIds
    <3> QED BY <2>3, <2>4, <3>1 DEF Head
  <2>6. \A s \in VisibleIds(issued)' : s \in VisibleIds(issued) \/ s > Head
    BY <2>2, <2>5 DEF VisibleIds, SyncIds
  <2> QED BY <1>2, <2>1, <2>3, <2>4, <2>6 DEF Head
<1>6. CASE UNCHANGED vars BY <1>2, <1>3, <1>6 DEF vars
<1> QED
  <2> USE <1>2, <1>3
  <2>1. CASE Tick BY <2>1 DEF Tick, tableVars
  <2>2. ASSUME NEW e \in Events, BeginWrite(e) \/ EndWrite(e)
        PROVE  UNCHANGED <<issued, nextSeq, retainedFrom>>
    BY <2>2 DEF BeginWrite, EndWrite, tableVars
  <2>3. ASSUME NEW p \in Procs, AppendBegin(p) \/ AppendLock(p) \/ AppendCheck(p) \/ Fail(p)
        PROVE  UNCHANGED <<issued, nextSeq, retainedFrom>>
    BY <2>3 DEF AppendBegin, AppendLock, AppendCheck, Fail, tableVars
  <2>4. ASSUME NEW p \in Procs, SequenceEvents(p) \/ SweepStep(p)
        PROVE  UNCHANGED <<issued, nextSeq, retainedFrom>>
    BY <2>4 DEF SequenceEvents, SweepStep, SweepStart, SweepWindow, SweepList, SweepNext, tableVars
  <2>5. ASSUME NEW r \in Readers, ReadEntries(r) \/ Respond(r) \/ Bootstrapped(r)
        PROVE  UNCHANGED <<issued, nextSeq, retainedFrom>>
    BY <2>5 DEF ReadEntries, Respond, Bootstrapped, tableVars
  <2> QED BY <1>4, <1>5, <1>6, <2>1, <2>2, <2>3, <2>4, <2>5 DEF Next, AppendNext, Procs

(* The page is read in one statement: what it lacks is below the floor. *)
LEMMA ReadCovers ==
  ASSUME TypeOK, LogInv, NEW r \in Readers, ReadEntries(r)
  PROVE  PageCovers(request'[r])
<1>1. PICK after \in 0..Head :
        request' = [request EXCEPT ![r] =
          [pc |-> "page", after |-> after, seen |-> Head,
           page |-> FirstOf({s \in VisibleIds(log) : s > after}, PageLimit)]]
  BY DEF ReadEntries
<1> DEFINE S == {s \in VisibleIds(log) : s > after}
           page == FirstOf(S, PageLimit)
<1>2. Head \in Nat BY DEF Head, TypeOK
<1>3. /\ request'[r].after = after /\ request'[r].seen = Head /\ request'[r].page = page
  BY <1>1 DEF TypeOK
<1>4. S \in SUBSET (1..Head)
  <2>1. SyncIds(log) \subseteq SyncIds(issued) BY DEF SyncIds, TypeOK
  <2>2. VisibleIds(log) \subseteq SyncIds(log) BY DEF VisibleIds, SyncIds
  <2>3. SyncIds(issued) = 1..Head BY DEF LogInv, IdsDense
  <2> QED BY <2>1, <2>2, <2>3
<1>5. S \in SUBSET Nat /\ IsFiniteSet(S) /\ PageLimit \in Nat
  <2>1. IsFiniteSet(1..Head) BY <1>2, FS_Interval
  <2>2. IsFiniteSet(S) BY <1>4, <2>1, FS_Subset
  <2> QED BY <1>2, <1>4, <2>2, LimitsAssumption
<1>6. ASSUME NEW s \in VisibleIds(issued), s > after, s > retainedFrom,
             Cardinality(page) < PageLimit \/ \E last \in page : s <= last
      PROVE  s \in page
  <2>1. PICK x \in issued : x.event \in Visible /\ x.sync = s BY DEF VisibleIds, SyncIds
  <2>2. x \in log
    <3>1. x.sync \in Nat /\ retainedFrom \in Nat BY DEF TypeOK, Entries
    <3> QED BY <1>6, <2>1, <3>1 DEF LogInv, FloorAbovePruned
  <2>3. s \in S BY <1>6, <2>1, <2>2 DEF VisibleIds, SyncIds
  <2> HIDE DEF S
  <2>4. CASE Cardinality(page) < PageLimit BY <1>5, <2>3, <2>4, ShortIsComplete
  <2>5. CASE \E last \in page : s <= last BY <1>5, <2>3, <2>5, FirstOfIsInitial
  <2> QED BY <1>6, <2>4, <2>5
<1> HIDE DEF page, S
<1>7. request'[r].seen <= Head BY <1>2, <1>3
<1> QED BY <1>3, <1>6, <1>7 DEF PageCovers

(* Every step keeps what pages cover: a prune moves the floor with what it   *)
(* takes, an append only adds ids above what the page saw.                   *)
LEMMA StepPages == ASSUME TypeOK, LogInv, PagesCover, [Next]_vars PROVE PagesCover'
<1>0. request \in [Readers -> RequestRecords] BY DEF TypeOK, RequestRecords
<1>1. ASSUME NEW q \in RequestRecords, PageCovers(q) PROVE PageCovers(q)'
  <2>1. q.seen \in Nat /\ q.seen <= Head BY <1>1 DEF RequestRecords, PageCovers
  <2>2. q.seen <= Head' BY <2>1, TablesMove
  <2>3. ASSUME NEW s \in VisibleIds(issued)', s > q.after, s <= q.seen, s > retainedFrom',
               Cardinality(q.page) < PageLimit \/ \E last \in q.page : s <= last
        PROVE  s \in q.page
    <3>1. s \in Nat /\ (s \in VisibleIds(issued) \/ s > Head) BY TablesMove
    <3>2. s \in VisibleIds(issued) BY <2>1, <2>3, <3>1, TablesMove
    <3>3. s > retainedFrom BY <2>3, <3>1, TablesMove
    <3> QED BY <1>1, <2>3, <3>2, <3>3 DEF PageCovers
  <2> QED BY <2>2, <2>3 DEF PageCovers
<1>2. ASSUME NEW r \in Readers, NEW q, q = request'[r], q.pc = "page"
      PROVE  PageCovers(q)'
  <2>1. CASE request'[r] = request[r]
    <3>1. q = request[r] /\ q \in RequestRecords BY <1>0, <1>2, <2>1
    <3>2. PageCovers(q) BY <1>2, <3>1 DEF PagesCover, PageCovers
    <3> QED BY <1>1, <3>1, <3>2
  <2>2. CASE request'[r] # request[r]
    <3>1. ReadEntries(r) \/ Respond(r) \/ Bootstrapped(r)
      <4>1. ~UNCHANGED request BY <2>2
      <4>2. \E x \in Readers : ReadEntries(x) \/ Respond(x) \/ Bootstrapped(x)
        BY <4>1 DEF Next, vars, Tick, Prune, BeginWrite, EndWrite, AppendNext, AppendBegin,
           AppendLock, AppendCheck, AppendCommit, Fail, SequenceEvents, SweepStep, SweepStart,
           SweepWindow, SweepList, SweepNext
      <4>3. PICK x \in Readers : ReadEntries(x) \/ Respond(x) \/ Bootstrapped(x) BY <4>2
      <4>4. x = r BY <1>0, <2>2, <4>3 DEF ReadEntries, Respond, Bootstrapped
      <4> QED BY <4>3, <4>4
    <3>2. ReadEntries(r)
      BY <1>0, <1>2, <3>1 DEF Respond, Bootstrapped, NoRequest
    <3>3. PageCovers(request'[r]) BY <3>2, ReadCovers
    <3>4. UNCHANGED <<issued, nextSeq, retainedFrom>> BY <3>2 DEF ReadEntries, tableVars
    <3> QED BY <1>2, <3>3, <3>4 DEF PageCovers, Head, VisibleIds, SyncIds
  <2> QED BY <2>1, <2>2
<1> QED BY <1>2 DEF PagesCover, PageCovers

-----------------------------------------------------------------------------
(* Theorems.                                                                 *)

SyncInv == TypeOK /\ LogInv /\ SweepInv /\ PagesCover

(* The invariant of the log, the sweep and the pages holds in every state. *)
THEOREM SyncInvHolds == Spec => []SyncInv
<1>1. ASSUME Init PROVE SyncInv
  <2>1. PagesCover BY <1>1 DEF Init, PagesCover, NoRequest
  <2> QED BY <1>1, <2>1, InitSyncTypes, InitLog, InitSweep DEF SyncInv
<1>2. ASSUME SyncInv, [Next]_vars PROVE SyncInv'
  BY <1>2, StepSyncTypes, StepLog, StepSweep, StepPages DEF SyncInv
<1> QED BY <1>1, <1>2, PTL DEF Spec

(* The tables are well-formed, and the allocator row belongs to exactly the  *)
(* appendForWorkspace transaction between its lock and its commit.           *)
THEOREM SyncTypes == Spec => []TypeOK
<1>1. SyncInv => TypeOK BY DEF SyncInv
<1> QED BY <1>1, SyncInvHolds, PTL

(* appendForWorkspace never meets a unique-index violation, however many     *)
(* sequencers and sweepers write.                                            *)
THEOREM AppendsAreSafe == Spec => []AppendsNeverCollide
<1>1. ASSUME SyncInv PROVE AppendsNeverCollide
  <2>1. ASSUME NEW p \in Procs, proc[p].pc = "checked"
        PROVE  proc[p].start = nextSeq /\ Missing(p) \cap EventsOf(log) = {}
    BY <1>1, <2>1 DEF SyncInv, LogInv, HolderIsCurrent, Missing
  <2> QED BY <1>1, <2>1 DEF AppendsNeverCollide, SyncInv, LogInv, OneEntryEach
<1> QED BY <1>1, SyncInvHolds, PTL

(* Sync ids are dense, and the newest MinKeep entries are in the table. *)
THEOREM IdsStayDense == Spec => []IdsDense
<1>1. SyncInv => IdsDense BY DEF SyncInv, LogInv
<1> QED BY <1>1, SyncInvHolds, PTL

(* The sweep never passes by a client-routed row that has no entry, also not *)
(* one whose transaction ends long after it started.                         *)
THEOREM SweepMissesNothing == Spec => []SweptRowsLogged
<1>1. SyncInv => SweptRowsLogged BY DEF SyncInv, SweepInv
<1> QED BY <1>1, SyncInvHolds, PTL

(* A page that SyncService.catchUp serves hides no entry from its reader. *)
THEOREM CatchUpIsComplete == Spec => CatchUpHidesNothing
<1>1. ASSUME SyncInv, [Next]_vars, NEW r \in Readers, Served(r) PROVE Covers(request[r])
  <2>0. /\ request \in [Readers -> RequestRecords] /\ retainedFrom \in Nat
        /\ request[r].pc = "page" /\ request'[r] = NoRequest
    BY <1>1 DEF SyncInv, TypeOK, RequestRecords, Served
  <2>1. request'[r] # request[r] BY <2>0 DEF NoRequest
  <2>2. \E x \in Readers : ReadEntries(x) \/ Respond(x) \/ Bootstrapped(x)
    <3>1. ~UNCHANGED request BY <2>1
    <3> QED BY <1>1, <3>1 DEF Next, vars, Tick, Prune, BeginWrite, EndWrite, AppendNext,
            AppendBegin, AppendLock, AppendCheck, AppendCommit, Fail, SequenceEvents, SweepStep,
            SweepStart, SweepWindow, SweepList, SweepNext
  <2>3. PICK x \in Readers : ReadEntries(x) \/ Respond(x) \/ Bootstrapped(x) BY <2>2
  <2>4. x = r BY <2>0, <2>1, <2>3 DEF ReadEntries, Respond, Bootstrapped
  <2>5. Respond(r) BY <2>0, <2>3, <2>4 DEF ReadEntries, Bootstrapped
  <2>6. ~RequiresBootstrap(request[r].after)
    <3>1. [NoRequest EXCEPT !.pc = "bootstrap"] # NoRequest BY DEF NoRequest
    <3> QED BY <2>0, <2>5, <3>1 DEF Respond
  <2>7. ASSUME NEW s \in VisibleIds(issued), s > request[r].after PROVE s > retainedFrom
    <3>1. request[r].after \in Nat BY <2>0 DEF RequestRecords
    <3>2. s \in Nat BY <1>1 DEF SyncInv, TypeOK, Entries, VisibleIds, SyncIds
    <3> QED BY <2>0, <2>6, <2>7, <3>1, <3>2 DEF RequiresBootstrap
  <2> QED BY <1>1, <2>0, <2>7 DEF SyncInv, PagesCover, Covers
<1>2. ASSUME SyncInv, [Next]_vars
      PROVE  [\A r \in Readers : Served(r) => Covers(request[r])]_vars
  BY <1>1, <1>2
<1> QED BY <1>2, SyncInvHolds, PTL DEF Spec, CatchUpHidesNothing

(* A step of the tables, as clients see it. *)
LEMMA ReplayStep ==
  ASSUME TypeOK, LogInv, [Next]_vars
  PROVE  [Replay!LogNext]_<<Head, retainedFrom, SyncIds(log)>>
<1>1. ASSUME UNCHANGED <<log, nextSeq, retainedFrom>>
      PROVE  UNCHANGED <<Head, retainedFrom, SyncIds(log)>>
  BY <1>1 DEF Head, SyncIds
<1>2. ASSUME NEW p \in Procs, AppendCommit(p)
      PROVE  [Replay!LogNext]_<<Head, retainedFrom, SyncIds(log)>>
  <2> DEFINE n == Cardinality(Missing(p))
  <2>1. n \in 0..BatchSize /\ nextSeq' = nextSeq + n /\ nextSeq \in Nat
    BY <1>2, AppendEffect DEF TypeOK
  <2>2. PICK rows \in SUBSET Entries :
          log' = log \cup rows /\ SyncIds(rows) = nextSeq..(nextSeq' - 1)
    BY <1>2, AppendEffect
  <2>3. retainedFrom' = retainedFrom BY <1>2 DEF AppendCommit
  <2>4. Missing(p) = {} => log' = log BY <1>2, AppendEffect
  <2>5. n = 0 => Missing(p) = {}
    <3>1. Missing(p) \in SUBSET Events
      BY EventsAssumption DEF Missing, TypeOK
    <3> QED BY <3>1, FiniteRows, FS_EmptySet
  <2> HIDE DEF n
  <2>6. CASE n = 0
    <3>1. nextSeq' = nextSeq BY <2>1, <2>6
    <3> QED BY <1>1, <2>3, <2>4, <2>5, <2>6, <3>1
  <2>7. CASE n # 0
    <3>1. n \in 1..BatchSize /\ n \in Int BY <2>1, <2>7, LimitsAssumption
    <3>2. Head' = Head + n /\ nextSeq = Head + 1 /\ nextSeq' - 1 = Head + n
      <4>1. /\ (nextSeq + n) - 1 = (nextSeq - 1) + n /\ nextSeq = (nextSeq - 1) + 1
        BY <2>1, <3>1
      <4> QED BY <2>1, <4>1 DEF Head
    <3>3. SyncIds(log)' = SyncIds(log) \cup ((Head + 1)..(Head + n))
      <4>1. SyncIds(log)' = SyncIds(log) \cup SyncIds(rows) BY <2>2 DEF SyncIds
      <4>2. SyncIds(rows) = (Head + 1)..(Head + n) BY <2>2, <3>2
      <4> QED BY <4>1, <4>2
    <3>4. Replay!AppendEntries(n) BY <2>3, <3>2, <3>3 DEF Replay!AppendEntries
    <3> QED BY <3>1, <3>4 DEF Replay!LogNext
  <2> QED BY <2>6, <2>7
<1>3. CASE Prune
  <2>1. PICK victims \in SUBSET log :
          /\ victims # {}
          /\ \A r \in victims : r.sync <= Head - MinKeep
          /\ log' = log \ victims
          /\ \E top \in SyncIds(victims) :
               /\ \A s \in SyncIds(victims) : s <= top
               /\ retainedFrom' = Larger(retainedFrom, top)
    BY <1>3, PruneVictims
  <2> DEFINE gone == SyncIds(victims)
  <2>2. gone # {} /\ gone \in SUBSET {s \in SyncIds(log) : s <= Head - MinKeep}
    BY <2>1 DEF SyncIds
  <2>3. SyncIds(log)' = SyncIds(log) \ gone
    <3>1. \A r, s \in log : r.sync = s.sync => r = s BY DEF TypeOK, LogInv, IdsDense
    <3>2. SyncIds(log)' = SyncIds(log \ victims) BY <2>1 DEF SyncIds
    <3>3. ASSUME NEW i \in SyncIds(log \ victims) PROVE i \in SyncIds(log) \ gone
      <4>1. PICK r \in log \ victims : r.sync = i BY DEF SyncIds
      <4>2. i \in SyncIds(log) BY <4>1 DEF SyncIds
      <4>3. \A v \in victims : v.sync # i BY <3>1, <4>1
      <4>4. i \notin gone BY <4>3 DEF SyncIds
      <4> QED BY <4>2, <4>4
    <3>4. ASSUME NEW i \in SyncIds(log) \ gone PROVE i \in SyncIds(log \ victims)
      <4>1. PICK r \in log : r.sync = i BY DEF SyncIds
      <4>2. r \notin victims BY <4>1 DEF SyncIds
      <4> QED BY <4>1, <4>2 DEF SyncIds
    <3> HIDE DEF gone
    <3> QED BY <3>2, <3>3, <3>4
  <2>4. Head' = Head BY <1>3 DEF Prune, Head
  <2>5. PICK top \in gone :
          (\A s \in gone : s <= top) /\ retainedFrom' = IF top > retainedFrom THEN top ELSE retainedFrom
    <3>1. PICK top \in SyncIds(victims) :
            /\ \A s \in SyncIds(victims) : s <= top
            /\ retainedFrom' = Larger(retainedFrom, top)
      BY <2>1
    <3>2. top \in Nat /\ retainedFrom \in Nat BY DEF SyncIds, TypeOK, Entries
    <3>3. Larger(retainedFrom, top) = IF top > retainedFrom THEN top ELSE retainedFrom
      BY <3>2 DEF Larger
    <3> QED BY <3>1, <3>3
  <2> HIDE DEF gone
  <2>6. Replay!PruneEntries(gone) BY <2>2, <2>3, <2>4, <2>5 DEF Replay!PruneEntries
  <2>7. gone \in SUBSET SyncIds(log) BY <2>2
  <2> QED BY <2>6, <2>7 DEF Replay!LogNext
<1> QED
  <2>1. ASSUME NEW p \in Procs, AppendBegin(p) \/ AppendLock(p) \/ AppendCheck(p) \/ Fail(p)
        PROVE  UNCHANGED <<log, nextSeq, retainedFrom>>
    BY <2>1 DEF AppendBegin, AppendLock, AppendCheck, Fail, tableVars
  <2>2. ASSUME NEW p \in Procs, SequenceEvents(p) \/ SweepStep(p)
        PROVE  UNCHANGED <<log, nextSeq, retainedFrom>>
    BY <2>2 DEF SequenceEvents, SweepStep, SweepStart, SweepWindow, SweepList, SweepNext, tableVars
  <2>3. ASSUME NEW r \in Readers, ReadEntries(r) \/ Respond(r) \/ Bootstrapped(r)
        PROVE  UNCHANGED <<log, nextSeq, retainedFrom>>
    BY <2>3 DEF ReadEntries, Respond, Bootstrapped, tableVars
  <2>4. ASSUME NEW e \in Events, BeginWrite(e) \/ EndWrite(e)
        PROVE  UNCHANGED <<log, nextSeq, retainedFrom>>
    BY <2>4 DEF BeginWrite, EndWrite, tableVars
  <2>5. Tick \/ UNCHANGED vars => UNCHANGED <<log, nextSeq, retainedFrom>>
    BY DEF Tick, tableVars, vars
  <2> QED BY <1>1, <1>2, <1>3, <2>1, <2>2, <2>3, <2>4, <2>5 DEF Next, AppendNext, Procs

(* The log, with all its writers and its pruner, is the log that clients     *)
(* replay: every step appends consecutive ids, or prunes and moves the floor *)
(* along, or changes nothing that clients see.                               *)
THEOREM LogImplementsReplay == Spec => ImplementsReplayLog
<1>1. Init => Replay!LogInit BY DEF Init, Replay!LogInit, Head, SyncIds
<1>2. SyncInv => TypeOK /\ LogInv BY DEF SyncInv
<1>3. ASSUME TypeOK, LogInv, [Next]_vars PROVE [Replay!LogNext]_Replay!logVars
  BY <1>3, ReplayStep DEF Replay!logVars
<1> QED BY <1>1, <1>2, <1>3, SyncInvHolds, PTL DEF Spec, ImplementsReplayLog, Replay!LogSpec
=============================================================================
