----------------------------- MODULE CronTicks ------------------------------
(***************************************************************************)
(* Recurring jobs: CronRepository, ScheduleManager, CleanupWorker and      *)
(* QueueManager.executeTick (apps/backend/src/lib/queue), for one          *)
(* schedule.                                                               *)
(*                                                                         *)
(* Every node runs the same loop: find the schedule due, create a tick for *)
(* the instant it read, then move the schedule on; three statements that   *)
(* share no transaction.  Every node also leases due ticks, enqueues a job *)
(* for each and deletes it.  A unique index allows one tick row per        *)
(* instant, as long as the row is there.                                   *)
(***************************************************************************)
EXTENDS Integers, FiniteSets

CONSTANTS
  Nodes,        \* server processes
  Tasks,        \* bound: calls of executeTick under way
  None,         \* SQL NULL
  Intervals,    \* interval_seconds, as deployments set it
  Changes,      \* bound: pairs of the interval before and after a deployment
  Lookahead,    \* lookaheadSeconds
  LockDuration, \* lockDurationMs
  ExpiredAge,   \* expiredThresholdMs
  Skew,         \* how far a process clock may be from the database clock
  MaxClock,     \* bound: the last instant of the database clock
  MaxRows       \* bound: how often a tick for one instant is created

ASSUME NullAssumption == None \notin Nodes /\ None \notin Int
ASSUME TasksAssumption == IsFiniteSet(Tasks)
ASSUME IntervalsAssumption == Intervals # {} /\ Intervals \subseteq Nat \ {0}
ASSUME ChangesAssumption == Changes \subseteq Intervals \X Intervals
ASSUME TimesAssumption ==
  /\ Lookahead \in Nat /\ LockDuration \in Nat /\ ExpiredAge \in Nat
  /\ Skew \in Nat /\ MaxClock \in Nat /\ MaxRows \in Nat

VARIABLES
  clock,     \* the database clock
  interval,  \* cron_schedules: interval_seconds
  next,      \* cron_schedules: next_tick_needed_at
  rows,      \* instants that have a row in cron_ticks
  leasedBy, leasedUntil, \* columns of the rows
  created,   \* how many rows were created for each instant; the last is rows' id
  gen,       \* each node's generateTicks: its step, and what it read
  task,      \* the calls of executeTick
  passed,    \* instants the schedule was moved on from
  jobs,      \* how many jobs were enqueued for each instant
  dropped,   \* instants whose enqueue failed or whose tick was cleaned up
  again      \* how often a row of each instant was leased after a lease on it lapsed

schedVars == <<interval, next>>
tickVars == <<rows, leasedBy, leasedUntil, created>>
logVars == <<passed, jobs, dropped, again>>
vars == <<clock, schedVars, tickVars, gen, task, logVars>>

Instants == 0..(MaxClock + Lookahead)

(* What a process clock may show at this instant. *)
AppClock == (clock - Skew)..(clock + Skew)

NotGenerating == [step |-> "idle", at |-> 0, interval |-> 0]
NoTask == [step |-> "none", node |-> None, at |-> 0, id |-> 0]

(***************************************************************************)
(* Schedules                                                               *)
(***************************************************************************)

(* ensureSchedule: a node starts with another interval than the row has. *)
ChangeInterval(i) ==
  /\ i # interval /\ <<interval, i>> \in Changes
  /\ interval' = i
  /\ next' = clock
  /\ UNCHANGED <<clock, tickVars, gen, task, logVars>>

(* Mutant: a schedule that is due now is left for later. *)
FindOverdue(n) ==
  /\ gen[n].step = "idle"
  /\ next < clock + Lookahead
  /\ gen' = [gen EXCEPT ![n] = [step |-> "insert", at |-> next, interval |-> interval]]
  /\ UNCHANGED <<clock, schedVars, tickVars, task, logVars>>

(* findSchedulesNeedingTicks *)
FindDue(n) ==
  /\ gen[n].step = "idle"
  /\ next <= clock + Lookahead
  /\ gen' = [gen EXCEPT ![n] = [step |-> "insert", at |-> next, interval |-> interval]]
  /\ UNCHANGED <<clock, schedVars, tickVars, task, logVars>>

(* createTicks, the INSERT: ON CONFLICT DO NOTHING. *)
InsertTick(n) ==
  LET x == gen[n].at IN
  /\ gen[n].step = "insert"
  /\ gen' = [gen EXCEPT ![n].step = "update"]
  /\ IF x \in rows
     THEN UNCHANGED tickVars
     ELSE /\ created[x] < MaxRows
          /\ rows' = rows \cup {x}
          /\ leasedBy' = [leasedBy EXCEPT ![x] = None]
          /\ leasedUntil' = [leasedUntil EXCEPT ![x] = None]
          /\ created' = [created EXCEPT ![x] = @ + 1]
  /\ UNCHANGED <<clock, schedVars, task, logVars>>

(* createTicks, the UPDATE, whatever the schedule says by now. *)
MoveSchedule(n) ==
  /\ gen[n].step = "update"
  /\ next' = gen[n].at + gen[n].interval
  /\ passed' = passed \cup {gen[n].at}
  /\ gen' = [gen EXCEPT ![n] = NotGenerating]
  /\ UNCHANGED <<clock, interval, tickVars, task, jobs, dropped, again>>

(* Mutant: the error is caught around the INSERT alone, the UPDATE follows. *)
GenerateFailsAndMoves(n) ==
  /\ gen[n].step # "idle"
  /\ gen' = [gen EXCEPT ![n].step = "update"]
  /\ UNCHANGED <<clock, schedVars, tickVars, task, logVars>>

(* A statement of createTicks fails; generateTicks logs it. *)
GenerateFails(n) ==
  /\ gen[n].step # "idle"
  /\ gen' = [gen EXCEPT ![n] = NotGenerating]
  /\ UNCHANGED <<clock, schedVars, tickVars, task, logVars>>

(***************************************************************************)
(* Ticks                                                                   *)
(***************************************************************************)

Lapsed(x, time) == leasedUntil[x] # None /\ leasedUntil[x] < time

(* Mutant: batchLeaseTicks does not look at the leases. *)
DueThoughLeased(x, time) == x \in rows /\ x <= time

(* The WHERE of batchLeaseTicks. *)
Due(x, time) ==
  /\ x \in rows /\ x <= time
  /\ leasedUntil[x] = None \/ Lapsed(x, time)

(* batchLeaseTicks, one row at a time; executeTick runs in the background, *)
(* so a node may have several calls for one tick.                          *)
LeaseTick(n, k, x) ==
  /\ task[k] = NoTask
  /\ \E time \in AppClock :
       /\ Due(x, time)
       /\ leasedUntil' = [leasedUntil EXCEPT ![x] = time + LockDuration]
       /\ again' = [again EXCEPT ![x] = IF Lapsed(x, time) /\ @ <= MaxRows THEN @ + 1 ELSE @]
  /\ leasedBy' = [leasedBy EXCEPT ![x] = n]
  /\ task' = [task EXCEPT ![k] = [step |-> "enqueue", node |-> n, at |-> x, id |-> created[x]]]
  /\ UNCHANGED <<clock, schedVars, rows, created, gen, passed, jobs, dropped>>

(* executeTick: the job is inserted under a fresh id. *)
Enqueue(k) ==
  /\ task[k].step = "enqueue"
  /\ jobs' = [jobs EXCEPT ![task[k].at] = IF @ <= MaxRows THEN @ + 1 ELSE @]
  /\ task' = [task EXCEPT ![k].step = "delete"]
  /\ UNCHANGED <<clock, schedVars, tickVars, gen, passed, dropped, again>>

(* The insert fails: logged, and the tick is deleted all the same. *)
EnqueueFails(k) ==
  /\ task[k].step = "enqueue"
  /\ dropped' = dropped \cup {task[k].at}
  /\ task' = [task EXCEPT ![k].step = "delete"]
  /\ UNCHANGED <<clock, schedVars, tickVars, gen, passed, jobs, again>>

Holds(k) ==
  LET t == task[k] IN t.at \in rows /\ t.id = created[t.at] /\ leasedBy[t.at] = t.node

(* DELETE of a row; its columns go with it. *)
RowGoes(x) ==
  /\ rows' = rows \ {x}
  /\ leasedBy' = [leasedBy EXCEPT ![x] = None]
  /\ leasedUntil' = [leasedUntil EXCEPT ![x] = None]

(* deleteTick, fenced by id and leased_by; finding no row is only logged. *)
DeleteTick(k) ==
  /\ task[k].step = "delete"
  /\ IF Holds(k) THEN RowGoes(task[k].at) ELSE UNCHANGED <<rows, leasedBy, leasedUntil>>
  /\ task' = [task EXCEPT ![k] = NoTask]
  /\ UNCHANGED <<clock, schedVars, created, gen, logVars>>

DeleteFails(k) ==
  /\ task[k].step = "delete"
  /\ task' = [task EXCEPT ![k] = NoTask]
  /\ UNCHANGED <<clock, schedVars, tickVars, gen, logVars>>

(* deleteExpiredTicks: ticks nobody has leased again after a failure. *)
Cleanup(x) ==
  /\ x \in rows
  /\ leasedUntil[x] # None
  /\ \E time \in AppClock : leasedUntil[x] < time - ExpiredAge
  /\ RowGoes(x)
  /\ dropped' = dropped \cup {x}
  /\ UNCHANGED <<clock, schedVars, created, gen, task, passed, jobs, again>>

Crash(n) ==
  /\ gen[n].step # "idle" \/ \E k \in Tasks : task[k].node = n
  /\ gen' = [gen EXCEPT ![n] = NotGenerating]
  /\ task' = [k \in Tasks |-> IF task[k].node = n THEN NoTask ELSE task[k]]
  /\ UNCHANGED <<clock, schedVars, tickVars, logVars>>

Tick ==
  /\ clock < MaxClock
  /\ clock' = clock + 1
  /\ UNCHANGED <<schedVars, tickVars, gen, task, logVars>>

Init ==
  /\ clock = 0
  /\ interval \in Intervals
  /\ next = 0
  /\ rows = {}
  /\ leasedBy = [x \in Instants |-> None]
  /\ leasedUntil = [x \in Instants |-> None]
  /\ created = [x \in Instants |-> 0]
  /\ gen = [n \in Nodes |-> NotGenerating]
  /\ task = [k \in Tasks |-> NoTask]
  /\ passed = {} /\ dropped = {}
  /\ jobs = [x \in Instants |-> 0]
  /\ again = [x \in Instants |-> 0]

Generate(n) == InsertTick(n) \/ MoveSchedule(n)
Execute(k) == Enqueue(k) \/ DeleteTick(k)

Next ==
  \/ \E i \in Intervals : ChangeInterval(i)
  \/ \E n \in Nodes : FindDue(n) \/ Generate(n) \/ GenerateFails(n) \/ Crash(n)
  \/ \E n \in Nodes, k \in Tasks, x \in Instants : LeaseTick(n, k, x)
  \/ \E k \in Tasks : Execute(k) \/ EnqueueFails(k) \/ DeleteFails(k)
  \/ \E x \in Instants : Cleanup(x)
  \/ Tick

Spec == Init /\ [][Next]_vars

(* The ticker runs generateTicks for ever, the polling cycle leases ticks  *)
(* for ever, statements are answered, time passes.  Deployments, crashes   *)
(* and failures end at some point.                                         *)
FairSpec ==
  /\ Spec
  /\ \A n \in Nodes : WF_vars(FindDue(n)) /\ WF_vars(Generate(n))
  /\ \A k \in Tasks : WF_vars(Execute(k))
  /\ \A x \in Instants : WF_vars(\E n \in Nodes, k \in Tasks : LeaseTick(n, k, x))
  /\ WF_vars(Tick)
  /\ <>[][/\ \A i \in Intervals : ~ChangeInterval(i)
          /\ \A n \in Nodes : ~GenerateFails(n) /\ ~Crash(n)
          /\ \A k \in Tasks : ~EnqueueFails(k) /\ ~DeleteFails(k)]_vars

(***************************************************************************)
(* What the scheduler promises                                             *)
(***************************************************************************)

(* Type correctness. *)
TypeOK ==
  /\ clock \in 0..MaxClock
  /\ interval \in Intervals /\ next \in Nat
  /\ rows \subseteq Instants
  /\ leasedBy \in [Instants -> Nodes \cup {None}]
  /\ leasedUntil \in [Instants -> Int \cup {None}]
  /\ created \in [Instants -> 0..MaxRows]
  /\ gen \in [Nodes -> [step : {"idle", "insert", "update"}, at : Instants,
                        interval : Intervals \cup {0}]]
  /\ task \in [Tasks -> [step : {"none", "enqueue", "delete"}, node : Nodes \cup {None},
                         at : Instants, id : 0..MaxRows]]
  /\ passed \subseteq Instants /\ dropped \subseteq Instants
  /\ jobs \in [Instants -> 0..(MaxRows + 1)]
  /\ again \in [Instants -> 0..(MaxRows + 1)]

(* The schedule moves past no instant without a tick, and no tick is lost: *)
(* every row that is gone left a job behind, or the log says why not       *)
(* (executeTick failed to enqueue, or CleanupWorker removed a tick whose   *)
(* node had died), however the nodes interleave and their leases lapse.    *)
NoTickLost ==
  \A x \in Instants :
    /\ x \in passed => created[x] > 0
    /\ x \notin dropped => jobs[x] >= (IF x \in rows THEN created[x] - 1 ELSE created[x])

(* A tick row yields one job, and one more at most for each time it is     *)
(* leased again when a lease on it has lapsed: however many executions are *)
(* under way, whatever node dies between enqueueing the job and deleting   *)
(* the tick, whatever statement fails.                                     *)
OneJobPerTick == \A x \in Instants : jobs[x] <= created[x] + again[x]

(* What generateTicks says of the instants it reads: they preserve "one    *)
(* canonical tick per schedule interval across all nodes".                 *)
OneTickPerInstant == \A x \in Instants : created[x] <= 1

(* However the nodes' unordered updates push next_tick_needed_at back and  *)
(* forth, the schedule catches up with the clock in the end (unless every  *)
(* node is held up by MaxRows).                                            *)
ScheduleCatchesUp ==
  <>[](\/ next > clock + Lookahead
       \/ \A n \in Nodes : /\ gen[n].step = "insert"
                          /\ gen[n].at \notin rows
                          /\ created[gen[n].at] = MaxRows)
=============================================================================
