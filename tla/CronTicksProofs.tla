-------------------------- MODULE CronTicksProofs ---------------------------
(* Proofs about CronTicks, for any number of nodes and any bounds. *)
EXTENDS CronTicks, FiniteSetTheorems, TLAPS

(* A row, and a node between the two statements of createTicks, stand for  *)
(* a tick that was created.                                                *)
TicksWereCreated ==
  /\ \A x \in rows : created[x] > 0
  /\ \A n \in Nodes : gen[n].step = "update" => created[gen[n].at] > 0

(* executeTick holds the id of a row that was created, not a later one.    *)
IdsAreOld == \A k \in Tasks : task[k].step # "none" => task[k].id <= created[task[k].at]

(* A call about to delete the present row has enqueued its job.            *)
ServedBeforeDelete ==
  \A k \in Tasks :
    LET t == task[k] IN
    (t.step = "delete" /\ t.at \in rows /\ t.id = created[t.at] /\ t.at \notin dropped)
      => jobs[t.at] >= created[t.at]

(* The inductive invariant behind NoTickLost.                              *)
TickInv ==
  /\ TypeOK
  /\ TicksWereCreated
  /\ IdsAreOld
  /\ ServedBeforeDelete
  /\ NoTickLost

(* The types of what a node's generateTicks and a call of executeTick hold. *)
GenRecords == [step : {"idle", "insert", "update"}, at : Instants, interval : Intervals \cup {0}]
TaskRecords == [step : {"none", "enqueue", "delete"}, node : Nodes \cup {None}, at : Instants,
                id : 0..MaxRows]

LEMMA IdleRecords == NotGenerating \in GenRecords /\ NoTask \in TaskRecords
BY TimesAssumption DEF NotGenerating, NoTask, GenRecords, TaskRecords, Instants

LEMMA InitTypes == ASSUME Init PROVE TypeOK
<1>1. /\ gen \in [Nodes -> GenRecords] /\ task \in [Tasks -> TaskRecords]
  BY IdleRecords DEF Init
<1>2. /\ clock \in 0..MaxClock /\ interval \in Intervals /\ next \in Nat
      /\ rows \subseteq Instants /\ passed \subseteq Instants /\ dropped \subseteq Instants
  BY TimesAssumption DEF Init
<1>3. again \in [Instants -> 0..(MaxRows + 1)] BY TimesAssumption DEF Init
<1>4. /\ leasedBy \in [Instants -> Nodes \cup {None}]
      /\ leasedUntil \in [Instants -> Int \cup {None}]
  BY DEF Init
<1>5. created \in [Instants -> 0..MaxRows] /\ jobs \in [Instants -> 0..(MaxRows + 1)]
  BY TimesAssumption DEF Init
<1> QED BY <1>1, <1>2, <1>3, <1>4, <1>5 DEF TypeOK, GenRecords, TaskRecords

LEMMA InitTicks == ASSUME Init PROVE TickInv
<1>1. TypeOK BY InitTypes
<1>2. TicksWereCreated /\ IdsAreOld /\ ServedBeforeDelete /\ NoTickLost
  BY TimesAssumption
     DEF Init, TicksWereCreated, IdsAreOld, ServedBeforeDelete, NoTickLost, NotGenerating,
         NoTask, Instants
<1> QED BY <1>1, <1>2 DEF TickInv

(* Every step keeps the types. *)
LEMMA StepTypes == ASSUME TypeOK, [Next]_vars PROVE TypeOK'
<1> USE IntervalsAssumption, TimesAssumption, NullAssumption
<1>0. /\ gen \in [Nodes -> GenRecords] /\ task \in [Tasks -> TaskRecords]
      /\ next \in Nat /\ clock \in 0..MaxClock /\ interval \in Intervals
  BY DEF TypeOK, GenRecords, TaskRecords
<1>1. ASSUME NEW i \in Intervals, ChangeInterval(i) PROVE TypeOK'
  BY <1>1 DEF TypeOK, ChangeInterval, tickVars, logVars
<1>2. ASSUME NEW n \in Nodes, FindDue(n) PROVE TypeOK'
  <2>1. next \in Instants BY <1>0, <1>2 DEF FindDue, Instants
  <2>2. [step |-> "insert", at |-> next, interval |-> interval] \in GenRecords
    BY <1>0, <2>1 DEF GenRecords
  <2>3. gen' \in [Nodes -> GenRecords] BY <1>0, <1>2, <2>2 DEF FindDue
  <2> QED BY <1>2, <2>3 DEF TypeOK, GenRecords, FindDue, schedVars, tickVars, logVars
<1>3. ASSUME NEW n \in Nodes, InsertTick(n) PROVE TypeOK'
  <2>1. gen[n].at \in Instants BY <1>0 DEF GenRecords
  <2>2. gen' \in [Nodes -> GenRecords] BY <1>0, <1>3 DEF InsertTick, GenRecords
  <2>3. /\ rows' \subseteq Instants
        /\ leasedBy' \in [Instants -> Nodes \cup {None}]
        /\ leasedUntil' \in [Instants -> Int \cup {None}]
        /\ created' \in [Instants -> 0..MaxRows]
    <3>1. CASE gen[n].at \in rows BY <1>3, <3>1 DEF InsertTick, tickVars, TypeOK
    <3>2. CASE gen[n].at \notin rows
      <4>1. /\ created[gen[n].at] < MaxRows
            /\ rows' = rows \cup {gen[n].at}
            /\ leasedBy' = [leasedBy EXCEPT ![gen[n].at] = None]
            /\ leasedUntil' = [leasedUntil EXCEPT ![gen[n].at] = None]
            /\ created' = [created EXCEPT ![gen[n].at] = @ + 1]
        BY <1>3, <3>2 DEF InsertTick
      <4> QED BY <2>1, <4>1 DEF TypeOK
    <3> QED BY <3>1, <3>2
  <2> QED BY <1>3, <2>2, <2>3 DEF TypeOK, GenRecords, InsertTick, schedVars, logVars
<1>4. ASSUME NEW n \in Nodes, MoveSchedule(n) PROVE TypeOK'
  <2>1. gen[n].at \in Instants /\ gen[n].interval \in Intervals \cup {0}
    BY <1>0 DEF GenRecords
  <2>2. gen[n].at + gen[n].interval \in Nat
    <3>1. gen[n].at \in Nat BY <2>1 DEF Instants
    <3>2. Intervals \cup {0} \subseteq Nat BY Zenon, IntervalsAssumption, 0 \in Nat
    <3>3. gen[n].interval \in Nat BY <2>1, <3>2
    <3> QED BY <3>1, <3>3
  <2>3. gen' \in [Nodes -> GenRecords] BY <1>0, <1>4, IdleRecords DEF MoveSchedule
  <2> QED BY <1>4, <2>1, <2>2, <2>3 DEF TypeOK, GenRecords, MoveSchedule, tickVars
<1>5. ASSUME NEW n \in Nodes, GenerateFails(n) PROVE TypeOK'
  <2>1. gen' \in [Nodes -> GenRecords] BY <1>0, <1>5, IdleRecords DEF GenerateFails
  <2> QED BY <1>5, <2>1 DEF TypeOK, GenRecords, GenerateFails, schedVars, tickVars, logVars
<1>6. ASSUME NEW n \in Nodes, Crash(n) PROVE TypeOK'
  <2>1. gen' \in [Nodes -> GenRecords] BY <1>0, <1>6, IdleRecords DEF Crash
  <2>2. task' \in [Tasks -> TaskRecords] BY <1>0, <1>6, IdleRecords DEF Crash
  <2> QED
    BY <1>6, <2>1, <2>2 DEF TypeOK, GenRecords, TaskRecords, Crash, schedVars, tickVars, logVars
<1>7. ASSUME NEW n \in Nodes, NEW k \in Tasks, NEW x \in Instants, LeaseTick(n, k, x)
      PROVE TypeOK'
  <2>1. PICK time \in AppClock :
          /\ leasedUntil' = [leasedUntil EXCEPT ![x] = time + LockDuration]
          /\ again' = [again EXCEPT ![x] = IF Lapsed(x, time) /\ @ <= MaxRows THEN @ + 1 ELSE @]
    BY <1>7 DEF LeaseTick
  <2>2. time \in Int BY <1>0 DEF AppClock
  <2>3. leasedUntil' \in [Instants -> Int \cup {None}] BY <2>1, <2>2 DEF TypeOK
  <2>4. again' \in [Instants -> 0..(MaxRows + 1)] BY <2>1 DEF TypeOK
  <2>5. task' \in [Tasks -> TaskRecords] BY <1>0, <1>7 DEF LeaseTick, TaskRecords, TypeOK
  <2>6. leasedBy' \in [Instants -> Nodes \cup {None}] BY <1>7 DEF LeaseTick, TypeOK
  <2> QED
    BY <1>7, <2>3, <2>4, <2>5, <2>6 DEF TypeOK, TaskRecords, LeaseTick, schedVars
<1>8. ASSUME NEW k \in Tasks, Enqueue(k) PROVE TypeOK'
  <2>1. jobs' \in [Instants -> 0..(MaxRows + 1)] BY <1>8 DEF Enqueue, TypeOK
  <2>2. task' \in [Tasks -> TaskRecords] BY <1>0, <1>8 DEF Enqueue, TaskRecords
  <2> QED BY <1>8, <2>1, <2>2 DEF TypeOK, TaskRecords, Enqueue, schedVars, tickVars
<1>9. ASSUME NEW k \in Tasks, DeleteTick(k) PROVE TypeOK'
  <2>1. task' \in [Tasks -> TaskRecords] BY <1>0, <1>9, IdleRecords DEF DeleteTick
  <2>2. /\ rows' \subseteq Instants
        /\ leasedBy' \in [Instants -> Nodes \cup {None}]
        /\ leasedUntil' \in [Instants -> Int \cup {None}]
    BY <1>9 DEF DeleteTick, RowGoes, TypeOK
  <2> QED BY <1>9, <2>1, <2>2 DEF TypeOK, TaskRecords, DeleteTick, schedVars, logVars
<1>10. ASSUME NEW k \in Tasks, EnqueueFails(k) PROVE TypeOK'
  <2>1. task' \in [Tasks -> TaskRecords] BY <1>0, <1>10 DEF EnqueueFails, TaskRecords
  <2>2. dropped' \subseteq Instants BY <1>0, <1>10 DEF EnqueueFails, TaskRecords, TypeOK
  <2> QED BY <1>10, <2>1, <2>2 DEF TypeOK, TaskRecords, EnqueueFails, schedVars, tickVars
<1>11. ASSUME NEW k \in Tasks, DeleteFails(k) PROVE TypeOK'
  <2>1. task' \in [Tasks -> TaskRecords] BY <1>0, <1>11, IdleRecords DEF DeleteFails
  <2> QED BY <1>11, <2>1 DEF TypeOK, TaskRecords, DeleteFails, schedVars, tickVars, logVars
<1>12. ASSUME NEW x \in Instants, Cleanup(x) PROVE TypeOK'
  BY <1>12 DEF TypeOK, Cleanup, RowGoes, schedVars
<1>13. CASE Tick
  BY <1>13 DEF TypeOK, Tick, schedVars, tickVars, logVars
<1>14. CASE UNCHANGED vars
  BY <1>14 DEF TypeOK, vars, schedVars, tickVars, logVars
<1> QED
  BY <1>1, <1>2, <1>3, <1>4, <1>5, <1>6, <1>7, <1>8, <1>9, <1>10, <1>11, <1>12, <1>13, <1>14
     DEF Next, Generate, Execute

(* Every step keeps the invariant. *)
LEMMA StepTicks == ASSUME TickInv, [Next]_vars PROVE TickInv'
<1> TypeOK' BY StepTypes DEF TickInv
<1> SUFFICES (TicksWereCreated /\ IdsAreOld /\ ServedBeforeDelete /\ NoTickLost)'
  BY DEF TickInv
<1> USE TimesAssumption
    DEF TickInv, TypeOK, TicksWereCreated, IdsAreOld, ServedBeforeDelete, NoTickLost
<1>1. ASSUME NEW i \in Intervals, ChangeInterval(i)
      PROVE (TicksWereCreated /\ IdsAreOld /\ ServedBeforeDelete /\ NoTickLost)'
  BY <1>1 DEF ChangeInterval, tickVars, logVars
<1>2. ASSUME NEW n \in Nodes, FindDue(n)
      PROVE (TicksWereCreated /\ IdsAreOld /\ ServedBeforeDelete /\ NoTickLost)'
  BY <1>2 DEF FindDue, schedVars, tickVars, logVars
<1>3. ASSUME NEW n \in Nodes, InsertTick(n)
      PROVE (TicksWereCreated /\ IdsAreOld /\ ServedBeforeDelete /\ NoTickLost)'
  <2> DEFINE x == gen[n].at
  <2>1. x \in Instants OBVIOUS
  <2>2. CASE x \in rows
    BY <1>3, <2>1, <2>2 DEF InsertTick, tickVars, logVars
  <2>3. CASE x \notin rows
    <3>1. /\ rows' = rows \cup {x}
          /\ created' = [created EXCEPT ![x] = @ + 1]
          /\ UNCHANGED <<task, passed, jobs, dropped>>
          /\ gen' = [gen EXCEPT ![n].step = "update"]
      BY <1>3, <2>3 DEF InsertTick, logVars
    <3>2. TicksWereCreated' BY <2>1, <3>1
    <3>3. IdsAreOld' BY <2>1, <3>1
    <3>4. ServedBeforeDelete'
      <4> SUFFICES ASSUME NEW k \in Tasks, task[k].step = "delete", task[k].at \in rows',
                          task[k].id = created'[task[k].at], task[k].at \notin dropped
                   PROVE jobs[task[k].at] >= created'[task[k].at]
        BY <3>1
      <4>1. task[k].at # x BY <2>1, <3>1
      <4> QED BY <2>1, <3>1, <4>1
    <3>5. NoTickLost' BY <2>1, <2>3, <3>1
    <3> QED BY <3>2, <3>3, <3>4, <3>5
  <2> QED BY <2>2, <2>3
<1>4. ASSUME NEW n \in Nodes, MoveSchedule(n)
      PROVE (TicksWereCreated /\ IdsAreOld /\ ServedBeforeDelete /\ NoTickLost)'
  BY <1>4 DEF MoveSchedule, tickVars, NotGenerating
<1>5. ASSUME NEW n \in Nodes, GenerateFails(n)
      PROVE (TicksWereCreated /\ IdsAreOld /\ ServedBeforeDelete /\ NoTickLost)'
  BY <1>5 DEF GenerateFails, schedVars, tickVars, logVars, NotGenerating
<1>6. ASSUME NEW n \in Nodes, Crash(n)
      PROVE (TicksWereCreated /\ IdsAreOld /\ ServedBeforeDelete /\ NoTickLost)'
  BY <1>6 DEF Crash, schedVars, tickVars, logVars, NotGenerating, NoTask
<1>7. ASSUME NEW n \in Nodes, NEW k \in Tasks, NEW x \in Instants, LeaseTick(n, k, x)
      PROVE (TicksWereCreated /\ IdsAreOld /\ ServedBeforeDelete /\ NoTickLost)'
  BY <1>7 DEF LeaseTick, schedVars
<1>8. ASSUME NEW k \in Tasks, Enqueue(k)
      PROVE (TicksWereCreated /\ IdsAreOld /\ ServedBeforeDelete /\ NoTickLost)'
  <2> DEFINE x == task[k].at
  <2>1. x \in Instants /\ jobs[x] \in Nat /\ created[x] \in 0..MaxRows OBVIOUS
  <2>2. /\ jobs' = [jobs EXCEPT ![x] = IF @ <= MaxRows THEN @ + 1 ELSE @]
        /\ task' = [task EXCEPT ![k].step = "delete"]
        /\ UNCHANGED <<rows, created, gen, passed, dropped>>
    BY <1>8 DEF Enqueue, tickVars
  <2>3. \A y \in Instants : jobs'[y] >= jobs[y] BY <2>1, <2>2
  <2>4. (x \in rows /\ x \notin dropped) => jobs'[x] >= created[x] BY <2>1, <2>2
  <2>5. TicksWereCreated' /\ NoTickLost' BY <2>1, <2>2, <2>3
  <2>6. IdsAreOld' BY <1>8, <2>2 DEF Enqueue
  <2>7. ServedBeforeDelete'
    <3> SUFFICES ASSUME NEW j \in Tasks, task'[j].step = "delete", task[j].at \in rows,
                        task[j].id = created[task[j].at], task[j].at \notin dropped
                 PROVE jobs'[task[j].at] >= created[task[j].at]
      BY <2>2
    <3>1. CASE task[j].at = x BY <2>4, <3>1
    <3>2. CASE task[j].at # x
      <4>1. task[j].step = "delete" BY <2>2, <3>2
      <4>2. jobs[task[j].at] >= created[task[j].at] BY <4>1
      <4> QED BY <2>2, <3>2, <4>2
    <3> QED BY <3>1, <3>2
  <2> QED BY <2>5, <2>6, <2>7
<1>9. ASSUME NEW k \in Tasks, DeleteTick(k)
      PROVE (TicksWereCreated /\ IdsAreOld /\ ServedBeforeDelete /\ NoTickLost)'
  <2>1. Holds(k) /\ task[k].at \notin dropped => jobs[task[k].at] >= created[task[k].at]
    BY <1>9 DEF DeleteTick, Holds
  <2>2. /\ rows' = IF Holds(k) THEN rows \ {task[k].at} ELSE rows
        /\ task' = [task EXCEPT ![k] = NoTask]
        /\ UNCHANGED <<created, gen, passed, jobs, dropped>>
    BY <1>9 DEF DeleteTick, RowGoes, logVars
  <2>3. TicksWereCreated' /\ IdsAreOld' /\ ServedBeforeDelete' BY <2>2 DEF NoTask
  <2>4. NoTickLost' BY <2>1, <2>2
  <2> QED BY <2>3, <2>4
<1>10. ASSUME NEW k \in Tasks, EnqueueFails(k)
      PROVE (TicksWereCreated /\ IdsAreOld /\ ServedBeforeDelete /\ NoTickLost)'
  BY <1>10 DEF EnqueueFails, schedVars, tickVars
<1>11. ASSUME NEW k \in Tasks, DeleteFails(k)
      PROVE (TicksWereCreated /\ IdsAreOld /\ ServedBeforeDelete /\ NoTickLost)'
  BY <1>11 DEF DeleteFails, schedVars, tickVars, logVars, NoTask
<1>12. ASSUME NEW x \in Instants, Cleanup(x)
      PROVE (TicksWereCreated /\ IdsAreOld /\ ServedBeforeDelete /\ NoTickLost)'
  BY <1>12 DEF Cleanup, RowGoes, schedVars
<1>13. CASE Tick
  BY <1>13 DEF Tick, schedVars, tickVars, logVars
<1>14. CASE UNCHANGED vars
  BY <1>14 DEF vars, schedVars, tickVars, logVars
<1> QED
  BY <1>1, <1>2, <1>3, <1>4, <1>5, <1>6, <1>7, <1>8, <1>9, <1>10, <1>11, <1>12, <1>13, <1>14
     DEF Next, Generate, Execute

(* Every state of CronTicks has the types of TypeOK: in particular no node *)
(* creates a tick for an instant further ahead than the lookahead.         *)
THEOREM TicksTypeCorrect == Spec => []TypeOK
<1>1. Init => TypeOK BY InitTypes
<1>2. TypeOK /\ [Next]_vars => TypeOK' BY StepTypes
<1> QED BY <1>1, <1>2, PTL DEF Spec

(* createTicks and executeTick lose no tick, for any number of nodes, any  *)
(* leases and any clock skew.                                              *)
THEOREM NoTickIsLost == Spec => []NoTickLost
<1>1. Init => TickInv BY InitTicks
<1>2. TickInv /\ [Next]_vars => TickInv' BY StepTicks
<1>3. TickInv => NoTickLost BY DEF TickInv
<1> QED BY <1>1, <1>2, <1>3, PTL DEF Spec

(* Calls about to enqueue a job for a tick at x, and a row nobody has leased. *)
Claims(x) == {k \in Tasks : task[k].step = "enqueue" /\ task[k].at = x}
Unleased(x) == IF x \in rows /\ leasedUntil[x] = None THEN 1 ELSE 0

(* The inductive invariant behind OneJobPerTick: every row, and every time *)
(* it is leased again, pays for one job, for one call that is about to     *)
(* enqueue it, or for being free for a lease.  The counter stops at        *)
(* MaxRows + 1, which is as far as the one of the jobs goes.               *)
PaidFor(x) ==
  again[x] <= MaxRows => jobs[x] + Cardinality(Claims(x)) + Unleased(x) <= created[x] + again[x]

JobsPaidFor == \A x \in Instants : PaidFor(x)

LEMMA ClaimsAreFinite ==
  \A x : IsFiniteSet(Claims(x)) /\ Cardinality(Claims(x)) \in Nat
BY TasksAssumption, FS_Subset, FS_CardinalityType DEF Claims

LEMMA InitJobs == ASSUME Init PROVE JobsPaidFor
<1> SUFFICES ASSUME NEW x \in Instants
             PROVE jobs[x] + Cardinality(Claims(x)) + Unleased(x) <= created[x] + again[x]
  BY DEF JobsPaidFor, PaidFor
<1>1. Claims(x) = {} BY DEF Init, Claims, NoTask
<1>2. Cardinality(Claims(x)) = 0 BY <1>1, FS_EmptySet
<1> QED BY <1>2 DEF Init, Unleased

(* A step that starts no call for x, enqueues nothing for it and frees no  *)
(* row of it.                                                              *)
LEMMA NothingClaimed ==
  ASSUME TypeOK, NEW x \in Instants, PaidFor(x), Claims(x)' \subseteq Claims(x),
         Unleased(x)' <= Unleased(x),
         jobs'[x] = jobs[x], created'[x] = created[x], again'[x] = again[x]
  PROVE PaidFor(x)'
<1>1. /\ Cardinality(Claims(x)) \in Nat /\ Cardinality(Claims(x)') \in Nat
      /\ Cardinality(Claims(x)') <= Cardinality(Claims(x))
  BY ClaimsAreFinite, FS_Subset, FS_CardinalityType
<1>2. Unleased(x) \in Nat /\ Unleased(x)' \in Nat BY DEF Unleased
<1>3. jobs[x] \in Nat /\ created[x] \in Nat /\ again[x] \in Nat BY TimesAssumption DEF TypeOK
<1> QED BY <1>1, <1>2, <1>3, TimesAssumption DEF PaidFor

(* Every step keeps the invariant. *)
LEMMA StepJobs == ASSUME TypeOK, JobsPaidFor, [Next]_vars PROVE JobsPaidFor'
<1> USE TimesAssumption
<1> SUFFICES ASSUME NEW x \in Instants PROVE PaidFor(x)' BY DEF JobsPaidFor
<1> PaidFor(x) BY DEF JobsPaidFor
<1> Cardinality(Claims(x)) \in Nat BY ClaimsAreFinite
<1> /\ jobs[x] \in Nat /\ created[x] \in Nat /\ again[x] \in Nat
    /\ Unleased(x) \in Nat /\ Unleased(x)' \in Nat
  BY DEF TypeOK, Unleased
<1>0. ASSUME UNCHANGED <<rows, leasedUntil, created, jobs, again>>, Claims(x)' \subseteq Claims(x)
      PROVE PaidFor(x)'
  <2>1. Unleased(x)' = Unleased(x) BY <1>0 DEF Unleased
  <2> QED BY <1>0, <2>1, NothingClaimed
<1>1. ASSUME NEW i \in Intervals, ChangeInterval(i) PROVE PaidFor(x)'
  <2>1. Claims(x)' = Claims(x) BY <1>1 DEF ChangeInterval, Claims
  <2> QED BY <1>0, <1>1, <2>1 DEF ChangeInterval, tickVars, logVars
<1>2. ASSUME NEW n \in Nodes, FindDue(n) PROVE PaidFor(x)'
  <2>1. Claims(x)' = Claims(x) BY <1>2 DEF FindDue, Claims
  <2> QED BY <1>0, <1>2, <2>1 DEF FindDue, tickVars, logVars
<1>3. ASSUME NEW n \in Nodes, InsertTick(n) PROVE PaidFor(x)'
  <2>1. Claims(x)' = Claims(x) BY <1>3 DEF InsertTick, Claims
  <2>2. CASE gen[n].at \in rows BY <1>0, <1>3, <2>1, <2>2 DEF InsertTick, tickVars, logVars
  <2>3. CASE gen[n].at \notin rows
    <3> DEFINE y == gen[n].at
    <3>1. /\ rows' = rows \cup {y}
          /\ leasedUntil' = [leasedUntil EXCEPT ![y] = None]
          /\ created' = [created EXCEPT ![y] = @ + 1]
          /\ UNCHANGED <<task, jobs, again>>
      BY <1>3, <2>3 DEF InsertTick, logVars
    <3>2. CASE x = y
      <4>1. Unleased(x) = 0 /\ Unleased(x)' \in 0..1 BY <2>3, <3>2 DEF Unleased
      <4>2. created'[x] = created[x] + 1 BY <3>1, <3>2 DEF TypeOK
      <4>3. jobs'[x] = jobs[x] /\ again'[x] = again[x] BY <3>1
      <4> QED BY <2>1, <4>1, <4>2, <4>3 DEF PaidFor
    <3>3. CASE x # y
      <4>1. Unleased(x)' = Unleased(x) BY <3>1, <3>3 DEF Unleased, TypeOK
      <4>2. created'[x] = created[x] BY <3>1, <3>3 DEF TypeOK
      <4> QED BY <2>1, <3>1, <4>1, <4>2, NothingClaimed
    <3> QED BY <3>2, <3>3
  <2> QED BY <2>2, <2>3
<1>4. ASSUME NEW n \in Nodes, MoveSchedule(n) PROVE PaidFor(x)'
  <2>1. Claims(x)' = Claims(x) BY <1>4 DEF MoveSchedule, Claims
  <2> QED BY <1>0, <1>4, <2>1 DEF MoveSchedule, tickVars
<1>5. ASSUME NEW n \in Nodes, GenerateFails(n) \/ Crash(n) PROVE PaidFor(x)'
  <2>1. Claims(x)' \subseteq Claims(x)
    BY <1>5 DEF GenerateFails, Crash, Claims, NoTask, TypeOK
  <2> QED BY <1>0, <1>5, <2>1 DEF GenerateFails, Crash, tickVars, logVars
<1>6. ASSUME NEW k \in Tasks, EnqueueFails(k) \/ DeleteFails(k) PROVE PaidFor(x)'
  <2>1. Claims(x)' \subseteq Claims(x)
    BY <1>6 DEF EnqueueFails, DeleteFails, Claims, NoTask, TypeOK
  <2> QED BY <1>0, <1>6, <2>1 DEF EnqueueFails, DeleteFails, tickVars, logVars
<1>7. ASSUME NEW n \in Nodes, NEW k \in Tasks, NEW y \in Instants, LeaseTick(n, k, y)
      PROVE PaidFor(x)'
  <2>1. PICK time \in AppClock :
          /\ Due(y, time)
          /\ leasedUntil' = [leasedUntil EXCEPT ![y] = time + LockDuration]
          /\ again' = [again EXCEPT ![y] = IF Lapsed(y, time) /\ @ <= MaxRows THEN @ + 1 ELSE @]
    BY <1>7 DEF LeaseTick
  <2>2. /\ task[k] = NoTask
        /\ task' = [task EXCEPT ![k] = [step |-> "enqueue", node |-> n, at |-> y, id |-> created[y]]]
        /\ UNCHANGED <<rows, created, jobs>>
    BY <1>7 DEF LeaseTick
  <2>3. CASE x = y
    <3>1. k \notin Claims(x) BY <2>2 DEF Claims, NoTask
    <3>2. Claims(x)' = Claims(x) \cup {k} BY <2>2, <2>3 DEF Claims, TypeOK
    <3>3. Cardinality(Claims(x)') = Cardinality(Claims(x)) + 1
      BY <3>1, <3>2, ClaimsAreFinite, FS_AddElement
    <3>4. time + LockDuration \in Int BY DEF AppClock, TypeOK
    <3>5. leasedUntil'[x] # None BY <2>1, <2>3, <3>4, NullAssumption DEF TypeOK
    <3>6. Unleased(x)' = 0 BY <3>5 DEF Unleased
    <3>7. CASE Lapsed(y, time)
      <4>1. again'[x] = IF again[x] <= MaxRows THEN again[x] + 1 ELSE again[x]
        BY <2>1, <2>3, <3>7 DEF TypeOK
      <4> QED BY <2>2, <3>3, <3>6, <4>1 DEF PaidFor
    <3>8. CASE ~Lapsed(y, time)
      <4>1. Unleased(x) = 1 BY <2>1, <2>3, <3>8 DEF Due, Unleased
      <4>2. again'[x] = again[x] BY <2>1, <2>3, <3>8 DEF TypeOK
      <4> QED BY <2>2, <3>3, <3>6, <4>1, <4>2 DEF PaidFor
    <3> QED BY <3>7, <3>8
  <2>4. CASE x # y
    <3>1. Claims(x)' = Claims(x) BY <2>2, <2>4 DEF Claims, TypeOK, NoTask
    <3>2. Unleased(x)' = Unleased(x) BY <2>1, <2>2, <2>4 DEF Unleased, TypeOK
    <3>3. again'[x] = again[x] BY <2>1, <2>4 DEF TypeOK
    <3> QED BY <2>2, <3>1, <3>2, <3>3, NothingClaimed
  <2> QED BY <2>3, <2>4
<1>8. ASSUME NEW k \in Tasks, Enqueue(k) PROVE PaidFor(x)'
  <2> DEFINE y == task[k].at
  <2>1. /\ task[k].step = "enqueue"
        /\ jobs' = [jobs EXCEPT ![y] = IF @ <= MaxRows THEN @ + 1 ELSE @]
        /\ task' = [task EXCEPT ![k].step = "delete"]
        /\ UNCHANGED <<rows, leasedUntil, created, again>>
    BY <1>8 DEF Enqueue, tickVars
  <2>2. Unleased(x)' = Unleased(x) BY <2>1 DEF Unleased
  <2>3. CASE x = y
    <3>1. k \in Claims(x) BY <2>1, <2>3 DEF Claims
    <3>2. Claims(x)' = Claims(x) \ {k} BY <2>1, <2>3 DEF Claims, TypeOK
    <3>3. Cardinality(Claims(x)') = Cardinality(Claims(x)) - 1
      BY <3>1, <3>2, ClaimsAreFinite, FS_RemoveElement
    <3>4. jobs'[x] \in Nat /\ jobs'[x] <= jobs[x] + 1 BY <2>1, <2>3 DEF TypeOK
    <3> QED BY <2>1, <2>2, <3>3, <3>4 DEF PaidFor
  <2>4. CASE x # y
    <3>1. Claims(x)' = Claims(x) BY <2>1, <2>4 DEF Claims, TypeOK
    <3>2. jobs'[x] = jobs[x] BY <2>1, <2>4 DEF TypeOK
    <3> QED BY <2>1, <2>2, <3>1, <3>2, NothingClaimed
  <2> QED BY <2>3, <2>4
<1>9. ASSUME NEW k \in Tasks, DeleteTick(k) PROVE PaidFor(x)'
  <2>1. /\ task[k].step = "delete" /\ task' = [task EXCEPT ![k] = NoTask]
        /\ \/ RowGoes(task[k].at)
           \/ UNCHANGED <<rows, leasedUntil>>
        /\ UNCHANGED <<created, jobs, again>>
    BY <1>9 DEF DeleteTick, logVars
  <2>2. Claims(x)' = Claims(x) BY <2>1 DEF Claims, TypeOK, NoTask
  <2>3. Unleased(x)' <= Unleased(x) BY <2>1 DEF Unleased, RowGoes, TypeOK
  <2> QED BY <2>1, <2>2, <2>3, NothingClaimed
<1>10. ASSUME NEW y \in Instants, Cleanup(y) PROVE PaidFor(x)'
  <2>1. RowGoes(y) /\ UNCHANGED <<task, created, jobs, again>> BY <1>10 DEF Cleanup
  <2>2. Claims(x)' = Claims(x) BY <2>1 DEF Claims
  <2>3. Unleased(x)' <= Unleased(x) BY <2>1 DEF Unleased, RowGoes, TypeOK
  <2> QED BY <2>1, <2>2, <2>3, NothingClaimed
<1>11. CASE Tick
  <2>1. Claims(x)' = Claims(x) BY <1>11 DEF Tick, Claims
  <2> QED BY <1>0, <1>11, <2>1 DEF Tick, tickVars, logVars
<1>12. CASE UNCHANGED vars
  <2>1. Claims(x)' = Claims(x) BY <1>12 DEF vars, Claims
  <2> QED BY <1>0, <1>12, <2>1 DEF vars, tickVars, logVars
<1> QED
  BY <1>1, <1>2, <1>3, <1>4, <1>5, <1>6, <1>7, <1>8, <1>9, <1>10, <1>11, <1>12
     DEF Next, Generate, Execute

(* A tick row yields one job, and at most one more for each time it is     *)
(* leased again when a lease on it has lapsed, for any number of nodes and *)
(* executions, whoever dies and whatever statement fails.                  *)
THEOREM TicksYieldOneJobEach == Spec => []OneJobPerTick
<1>1. Init => TypeOK /\ JobsPaidFor BY InitTypes, InitJobs
<1>2. TypeOK /\ JobsPaidFor /\ [Next]_vars => (TypeOK /\ JobsPaidFor)' BY StepTypes, StepJobs
<1>3. TypeOK /\ JobsPaidFor => OneJobPerTick
  <2> SUFFICES ASSUME TypeOK, NEW x \in Instants, PaidFor(x)
               PROVE jobs[x] <= created[x] + again[x]
    BY DEF OneJobPerTick, JobsPaidFor
  <2>1. Cardinality(Claims(x)) \in Nat /\ Unleased(x) \in Nat BY ClaimsAreFinite DEF Unleased
  <2>2. jobs[x] \in 0..(MaxRows + 1) /\ created[x] \in Nat /\ again[x] \in Nat
    BY TimesAssumption DEF TypeOK
  <2> QED BY <2>1, <2>2, TimesAssumption DEF PaidFor
<1> QED BY <1>1, <1>2, <1>3, PTL DEF Spec
=============================================================================
