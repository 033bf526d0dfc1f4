------------------------- MODULE AgentSessionsProofs -------------------------
(* Proofs about AgentSessions, for any number of workers, messages, attempts *)
(* and troubles.                                                             *)
EXTENDS AgentSessions, SequenceTheorems, FiniteSetTheorems, WellFoundedInduction, TLAPS

-----------------------------------------------------------------------------
(* The inductive invariant. First the types, and what a worker's record has  *)
(* to do with the tables at each of its steps.                               *)

JobRecords ==
  [trigger : Int, state : {"waiting", "claimed", "done", "dead"}, fails : 0..MaxAttempts,
   holder : Workers \cup {None}]

SessionRecords(last) ==
  [trigger : Int, status : {"running", "completed", "failed", "deleted"}, lastSeen : 0..last,
   replied : BOOLEAN, event : {"started", "interrupted", "completed", "failed", "deleted"}]

InTurn == {"hydrate", "compose", "send", "commit", "complete", "unseen", "threw", "fail"}

WorkRecords ==
  [pc : {"idle", "setup", "start", "report"} \cup InTurn, job : Nat, session : Nat,
   attempt : Nat, last : Nat, draft : Nat, retryable : BOOLEAN, throws : BOOLEAN]

StreamTypes ==
  /\ posted \in 0..MaxMessages /\ heard \in 0..posted /\ dispatching \in BOOLEAN
  /\ dispatching => heard < posted
  /\ deletion \in [Messages -> {"no", "asked", "listed", "done"}]
  /\ answered \in 0..posted /\ excused \in 0..posted
  /\ holes \subseteq {"unstarted", "displaced", "repeated", "overtaken", "revived", "kept"}
  /\ troubles \in 0..MaxTroubles

(* An open job has an attempt left. *)
JobTypes ==
  /\ jobs \in Seq(JobRecords)
  /\ \A j \in 1..Len(jobs) : jobs[j].trigger <= heard
  /\ \A j \in 1..Len(jobs) :
       jobs[j].state \in {"waiting", "claimed"} => jobs[j].fails < MaxAttempts

SessionTypes ==
  /\ sessions \in Seq(SessionRecords(posted))
  /\ \A s, t \in SessionIds :
       sessions[s].status = "running" /\ sessions[t].status = "running" => s = t
  /\ orphans \subseteq SessionIds /\ purge \subseteq SessionIds
  /\ doomed \subseteq SessionIds /\ gone \subseteq doomed /\ marked \subseteq SessionIds

(* A turn is about a session of its job's trigger. *)
RecordShape(r) ==
  /\ r.job <= Len(jobs) /\ r.session <= Len(sessions)
  /\ r.last <= posted /\ r.draft <= posted
  /\ r.attempt < MaxAttempts
  /\ r.pc # "idle" => r.job # 0
  /\ r.pc \in InTurn => r.session # 0
  /\ r.pc \in {"idle", "setup", "report"} => r.session = 0
  /\ r.session # 0 => sessions[r.session].trigger = jobs[r.job].trigger

WorkTypes ==
  /\ work \in [Workers -> WorkRecords]
  /\ \A w \in Workers : RecordShape(work[w])

AgentTypes == StreamTypes /\ JobTypes /\ SessionTypes /\ WorkTypes

-----------------------------------------------------------------------------
(* What the operations do to the tables.                                     *)

(* Of the sessions, at most s changes, which keeps its trigger. *)
OnlySession(s) ==
  /\ Len(sessions') = Len(sessions)
  /\ sessions'[s].trigger = sessions[s].trigger
  /\ \A t \in SessionIds : t # s => sessions'[t] = sessions[t]

(* Of the jobs, at most j changes, which keeps its trigger. *)
OnlyJob(j) ==
  /\ Len(jobs') = Len(jobs)
  /\ jobs'[j].trigger = jobs[j].trigger
  /\ \A i \in 1..Len(jobs) : i # j => jobs'[i] = jobs[i]

LEMMA OneReplaced ==
  ASSUME NEW S, NEW q \in Seq(S), NEW i \in 1..Len(q), NEW r \in S, NEW p,
         p = [q EXCEPT ![i] = r]
  PROVE  /\ p \in Seq(S) /\ Len(p) = Len(q) /\ p[i] = r
         /\ \A k \in 1..Len(q) : k # i => p[k] = q[k]
BY ExceptSeq

(* updateStatus. *)
LEMMA StatusSet ==
  ASSUME NEW n, sessions \in Seq(SessionRecords(n)), NEW s \in SessionIds,
         NEW st \in {"running", "completed", "failed", "deleted"},
         NEW ev \in {"started", "interrupted", "completed", "failed", "deleted"},
         SetStatus(s, st, ev)
  PROVE  /\ sessions' \in Seq(SessionRecords(n))
         /\ OnlySession(s)
         /\ sessions'[s].status = st /\ sessions'[s].event = ev
         /\ sessions'[s].replied = sessions[s].replied
<1> DEFINE r == [sessions[s] EXCEPT !.status = st, !.event = ev]
<1>1. sessions[s] \in SessionRecords(n)
  BY ElementOfSeq DEF SessionIds
<1>2. r \in SessionRecords(n)
  BY <1>1 DEF SessionRecords
<1>3. /\ r.trigger = sessions[s].trigger /\ r.status = st /\ r.event = ev
      /\ r.replied = sessions[s].replied
  BY <1>1 DEF SessionRecords
<1>4. sessions' = [sessions EXCEPT ![s] = r]
  BY LenProperties DEF SetStatus, SessionIds
<1> HIDE DEF r
<1> QED
  BY <1>2, <1>3, <1>4, OneReplaced DEF OnlySession, SessionIds

(* updateLastSeenSequence. *)
LEMMA SeenSet ==
  ASSUME NEW n \in Nat, sessions \in Seq(SessionRecords(n)), NEW s \in SessionIds,
         NEW m \in 0..n, sessions' = [sessions EXCEPT ![s].lastSeen = m]
  PROVE  /\ sessions' \in Seq(SessionRecords(n))
         /\ OnlySession(s)
         /\ sessions'[s].status = sessions[s].status /\ sessions'[s].event = sessions[s].event
         /\ sessions'[s].replied = sessions[s].replied
<1> DEFINE r == [sessions[s] EXCEPT !.lastSeen = m]
<1>1. sessions[s] \in SessionRecords(n)
  BY ElementOfSeq DEF SessionIds
<1>2. r \in SessionRecords(n)
  BY <1>1 DEF SessionRecords
<1>3. /\ r.trigger = sessions[s].trigger /\ r.status = sessions[s].status
      /\ r.event = sessions[s].event /\ r.replied = sessions[s].replied
  BY <1>1 DEF SessionRecords
<1>4. sessions' = [sessions EXCEPT ![s] = r]
  BY LenProperties DEF SessionIds
<1> HIDE DEF r
<1> QED
  BY <1>2, <1>3, <1>4, OneReplaced DEF OnlySession, SessionIds

(* The messages of a session are created or deleted. *)
LEMMA RepliedSet ==
  ASSUME NEW n, sessions \in Seq(SessionRecords(n)), NEW s \in SessionIds,
         NEW b \in BOOLEAN, sessions' = [sessions EXCEPT ![s].replied = b]
  PROVE  /\ sessions' \in Seq(SessionRecords(n))
         /\ OnlySession(s)
         /\ sessions'[s].status = sessions[s].status /\ sessions'[s].event = sessions[s].event
         /\ sessions'[s].replied = b
<1> DEFINE r == [sessions[s] EXCEPT !.replied = b]
<1>1. sessions[s] \in SessionRecords(n)
  BY ElementOfSeq DEF SessionIds
<1>2. r \in SessionRecords(n)
  BY <1>1 DEF SessionRecords
<1>3. /\ r.trigger = sessions[s].trigger /\ r.status = sessions[s].status
      /\ r.event = sessions[s].event /\ r.replied = b
  BY <1>1 DEF SessionRecords
<1>4. sessions' = [sessions EXCEPT ![s] = r]
  BY LenProperties DEF SessionIds
<1> HIDE DEF r
<1> QED
  BY <1>2, <1>3, <1>4, OneReplaced DEF OnlySession, SessionIds

(* completeSession. *)
LEMMA CompletedSet ==
  ASSUME NEW n \in Nat, sessions \in Seq(SessionRecords(n)), NEW w,
         work[w].session \in SessionIds, work[w].last \in 0..n, sessions' = Completed(w)
  PROVE  LET s == work[w].session
         IN  /\ sessions' \in Seq(SessionRecords(n))
             /\ OnlySession(s)
             /\ sessions'[s].status = "completed" /\ sessions'[s].event = "completed"
             /\ sessions'[s].replied = sessions[s].replied
<1> DEFINE s == work[w].session
           r == [sessions[s] EXCEPT !.status = "completed", !.event = "completed",
                                    !.lastSeen = work[w].last]
<1>1. sessions[s] \in SessionRecords(n)
  BY ElementOfSeq DEF SessionIds
<1>2. r \in SessionRecords(n)
  BY <1>1 DEF SessionRecords
<1>3. /\ r.trigger = sessions[s].trigger /\ r.status = "completed"
      /\ r.event = "completed" /\ r.replied = sessions[s].replied
  BY <1>1 DEF SessionRecords
<1>4. sessions' = [sessions EXCEPT ![s] = r]
  BY LenProperties DEF SessionIds, Completed
<1> HIDE DEF r, s
<1>5. s \in SessionIds
  BY DEF s
<1>6. /\ sessions' \in Seq(SessionRecords(n)) /\ OnlySession(s)
      /\ sessions'[s].status = "completed" /\ sessions'[s].event = "completed"
      /\ sessions'[s].replied = sessions[s].replied
  BY <1>2, <1>3, <1>4, <1>5, OneReplaced DEF OnlySession, SessionIds
<1> QED
  BY <1>6 DEF s

(* insertRunningOrSkip, when it inserts. *)
LEMMA SessionInserted ==
  ASSUME NEW n \in Nat, sessions \in Seq(SessionRecords(n)), NEW trigger \in Int,
         NEW m \in 0..n, sessions' = Append(sessions, NewSession(trigger, m))
  PROVE  /\ sessions' \in Seq(SessionRecords(n))
         /\ Len(sessions') = Len(sessions) + 1
         /\ \A t \in SessionIds : sessions'[t] = sessions[t]
         /\ sessions'[Len(sessions) + 1] = NewSession(trigger, m)
<1>1. NewSession(trigger, m) \in SessionRecords(n)
  BY DEF NewSession, SessionRecords
<1> QED
  BY <1>1, AppendProperties DEF SessionIds

(* QueueManager.send. *)
LEMMA JobSent ==
  ASSUME jobs \in Seq(JobRecords), NEW trigger \in Int, jobs' = Enqueued(trigger)
  PROVE  LET r == [trigger |-> trigger, state |-> "waiting", fails |-> 0, holder |-> None]
         IN  /\ jobs' \in Seq(JobRecords)
             /\ Len(jobs') = Len(jobs) + 1
             /\ \A j \in 1..Len(jobs) : jobs'[j] = jobs[j]
             /\ jobs'[Len(jobs) + 1] = r
<1> DEFINE r == [trigger |-> trigger, state |-> "waiting", fails |-> 0, holder |-> None]
<1>1. r \in JobRecords
  BY AttemptsAssumption DEF JobRecords
<1>2. jobs' = Append(jobs, r)
  BY DEF Enqueued
<1> HIDE DEF r
<1>3. /\ jobs' \in Seq(JobRecords) /\ Len(jobs') = Len(jobs) + 1
      /\ \A j \in 1..Len(jobs) : jobs'[j] = jobs[j]
      /\ jobs'[Len(jobs) + 1] = r
  BY <1>1, <1>2, AppendProperties
<1> QED
  BY <1>3 DEF r

(* The queue hands a job over, or takes it back. *)
Held(j, st, h) == [jobs EXCEPT ![j].state = st, ![j].holder = h]

LEMMA JobHeld ==
  ASSUME jobs \in Seq(JobRecords), NEW j \in 1..Len(jobs),
         NEW st \in {"waiting", "claimed"}, NEW h \in Workers \cup {None},
         jobs' = Held(j, st, h)
  PROVE  /\ jobs' \in Seq(JobRecords)
         /\ OnlyJob(j)
         /\ jobs'[j].state = st /\ jobs'[j].holder = h /\ jobs'[j].fails = jobs[j].fails
<1> DEFINE r == [jobs[j] EXCEPT !.state = st, !.holder = h]
<1>1. jobs[j] \in JobRecords
  BY ElementOfSeq
<1>2. r \in JobRecords
  BY <1>1 DEF JobRecords
<1>3. /\ r.trigger = jobs[j].trigger /\ r.state = st /\ r.holder = h
      /\ r.fails = jobs[j].fails
  BY <1>1 DEF JobRecords
<1>4. jobs' = [jobs EXCEPT ![j] = r]
  BY LenProperties DEF Held
<1> HIDE DEF r
<1>5. /\ jobs' \in Seq(JobRecords) /\ Len(jobs') = Len(jobs) /\ jobs'[j] = r
      /\ \A k \in 1..Len(jobs) : k # j => jobs'[k] = jobs[k]
  BY <1>2, <1>4, OneReplaced
<1> QED
  BY <1>3, <1>5 DEF OnlyJob

(* The queue takes a report. *)
LEMMA JobReported ==
  ASSUME jobs \in Seq(JobRecords), NEW j \in 1..Len(jobs),
         NEW st \in {"waiting", "done", "dead"}, NEW f \in 0..MaxAttempts,
         jobs' = [jobs EXCEPT ![j] = [@ EXCEPT !.state = st, !.holder = None, !.fails = f]]
  PROVE  /\ jobs' \in Seq(JobRecords)
         /\ OnlyJob(j)
         /\ jobs'[j].state = st /\ jobs'[j].fails = f
<1> DEFINE r == [jobs[j] EXCEPT !.state = st, !.holder = None, !.fails = f]
<1>1. jobs[j] \in JobRecords
  BY ElementOfSeq
<1>2. r \in JobRecords
  BY <1>1 DEF JobRecords
<1>3. r.trigger = jobs[j].trigger /\ r.state = st /\ r.fails = f
  BY <1>1 DEF JobRecords
<1>4. jobs' = [jobs EXCEPT ![j] = r]
  OBVIOUS
<1> HIDE DEF r
<1> QED
  BY <1>2, <1>3, <1>4, OneReplaced DEF OnlyJob

(* A non-empty set of naturals has a least element. *)
LEMMA LeastNatural ==
  ASSUME NEW S \in SUBSET Nat, S # {}
  PROVE  \E x \in S : \A y \in S : x <= y
<1>1. PICK x \in S : \A y \in S : <<y, x>> \notin OpToRel(<, Nat)
  BY NatLessThanWellFounded, WFMin
<1>2. ASSUME NEW y \in S PROVE ~(y < x)
  BY <1>1 DEF OpToRel
<1> QED BY <1>2

(* A non-empty set of positions has a last one. *)
LEMMA LastPosition ==
  ASSUME NEW n \in Nat, NEW S, S \subseteq 1..n, S # {}
  PROVE  \E s \in S : \A t \in S : t <= s
<1> DEFINE D == {d \in Nat : \E s \in S : d = n - s}
<1>1. \A s \in S : s \in Nat /\ n - s \in Nat
  OBVIOUS
<1>2. D \in SUBSET Nat /\ D # {}
  BY <1>1
<1>3. PICK d \in D : \A e \in D : d <= e
  BY <1>2, LeastNatural
<1>4. PICK s \in S : d = n - s
  BY <1>3
<1>5. ASSUME NEW t \in S PROVE t <= s
  <2>1. n - t \in D
    BY <1>1
  <2>2. n - s <= n - t
    BY <2>1, <1>3, <1>4
  <2> QED
    BY <2>2, <1>1
<1> QED
  BY <1>5

(* findByTriggerMessage returns the trigger's latest session. *)
LEMMA LatestFound ==
  ASSUME Len(sessions) \in Nat, NEW trigger
  PROVE  LET s == FindByTrigger(trigger)
         IN  /\ s \in 0..Len(sessions)
             /\ s = 0 => \A t \in SessionIds : sessions[t].trigger # trigger
             /\ s # 0 => /\ sessions[s].trigger = trigger
                         /\ \A t \in SessionIds : sessions[t].trigger = trigger => t <= s
<1> DEFINE S == {s \in SessionIds : sessions[s].trigger = trigger}
<1>1. CASE S = {}
  <2>1. FindByTrigger(trigger) = 0
    BY <1>1 DEF FindByTrigger
  <2> QED
    BY <2>1, <1>1 DEF SessionIds
<1>2. CASE S # {}
  <2>1. \E s \in S : \A t \in S : t <= s
    BY <1>2, LastPosition DEF SessionIds
  <2>2. FindByTrigger(trigger) = CHOOSE s \in S : \A t \in S : t <= s
    BY <1>2 DEF FindByTrigger
  <2> HIDE DEF S
  <2>3. FindByTrigger(trigger) \in S /\ \A t \in S : t <= FindByTrigger(trigger)
    BY <2>1, <2>2
  <2> QED
    BY <2>3 DEF S, SessionIds
<1> QED
  BY <1>1, <1>2

-----------------------------------------------------------------------------
(* What a step of a worker does to its own record.                           *)

(* Worker w goes on with its job at pc, with the given session, last message *)
(* processed and draft; the other workers stay where they are.               *)
Turned(w, pc, s, last, draft) ==
  /\ work' \in [Workers -> WorkRecords]
  /\ \A v \in Workers : v # w => work'[v] = work[v]
  /\ work'[w].pc = pc /\ work'[w].session = s
  /\ work'[w].last = last /\ work'[w].draft = draft
  /\ work'[w].job = work[w].job /\ work'[w].attempt = work[w].attempt

LEMMA GotoTurns ==
  ASSUME work \in [Workers -> WorkRecords], NEW w \in Workers,
         NEW pc \in {"idle", "setup", "start", "report"} \cup InTurn, Goto(w, pc)
  PROVE  Turned(w, pc, work[w].session, work[w].last, work[w].draft)
BY DEF Goto, Turned, WorkRecords

LEMMA ThrowsTurns ==
  ASSUME work \in [Workers -> WorkRecords], NEW w \in Workers, NEW b \in BOOLEAN, Throws(w, b)
  PROVE  Turned(w, "threw", work[w].session, 0, 0)
<1> DEFINE r == [work[w] EXCEPT !.pc = "threw", !.last = 0, !.draft = 0, !.retryable = b]
<1>1. work' = [work EXCEPT ![w] = r]
  BY DEF Throws
<1>2. /\ r \in WorkRecords /\ r.pc = "threw" /\ r.session = work[w].session
      /\ r.last = 0 /\ r.draft = 0 /\ r.job = work[w].job /\ r.attempt = work[w].attempt
  BY DEF WorkRecords, InTurn
<1> HIDE DEF r
<1> QED
  BY <1>1, <1>2 DEF Turned

LEMMA EndsTurns ==
  ASSUME work \in [Workers -> WorkRecords], NEW w \in Workers, NEW b \in BOOLEAN, Ends(w, b)
  PROVE  Turned(w, "report", 0, 0, 0) /\ work'[w].throws = b
<1> DEFINE r == [Idle EXCEPT !.pc = "report", !.throws = b, !.job = work[w].job,
                             !.attempt = work[w].attempt]
<1>1. work' = [work EXCEPT ![w] = r]
  BY DEF Ends
<1>2. /\ r \in WorkRecords /\ r.pc = "report" /\ r.session = 0 /\ r.throws = b
      /\ r.last = 0 /\ r.draft = 0 /\ r.job = work[w].job /\ r.attempt = work[w].attempt
  BY DEF WorkRecords, Idle
<1> HIDE DEF r
<1> QED
  BY <1>1, <1>2 DEF Turned

(* The worker is idle, once its job is reported or the process has died. *)
LEMMA IdleAgain ==
  ASSUME work \in [Workers -> WorkRecords], NEW w \in Workers,
         work' = [work EXCEPT ![w] = Idle]
  PROVE  /\ work' \in [Workers -> WorkRecords]
         /\ \A v \in Workers : v # w => work'[v] = work[v]
         /\ work'[w] = Idle
<1>1. Idle \in WorkRecords
  BY DEF Idle, WorkRecords
<1> QED
  BY <1>1

-----------------------------------------------------------------------------
(* The types.                                                                *)

(* Rows are added to the tables, and none loses its trigger. *)
TablesGrow ==
  /\ Len(jobs) <= Len(jobs') /\ Len(sessions) <= Len(sessions') /\ posted <= posted'
  /\ \A j \in 1..Len(jobs) : jobs'[j].trigger = jobs[j].trigger
  /\ \A s \in SessionIds : sessions'[s].trigger = sessions[s].trigger

LEMMA ShapeFrame ==
  ASSUME AgentTypes, Len(jobs') \in Nat, Len(sessions') \in Nat, posted' \in Nat, TablesGrow,
         NEW r \in WorkRecords, RecordShape(r)
  PROVE  /\ r.job <= Len(jobs') /\ r.session <= Len(sessions')
         /\ r.last <= posted' /\ r.draft <= posted'
         /\ r.attempt < MaxAttempts
         /\ r.pc # "idle" => r.job # 0
         /\ r.pc \in InTurn => r.session # 0
         /\ r.pc \in {"idle", "setup", "report"} => r.session = 0
         /\ r.session # 0 => sessions'[r.session].trigger = jobs'[r.job].trigger
<1>0. Len(jobs) \in Nat /\ Len(sessions) \in Nat /\ posted \in Nat
  BY LenProperties DEF AgentTypes, JobTypes, SessionTypes, StreamTypes
<1>1. r.job \in Nat /\ r.session \in Nat /\ r.last \in Nat /\ r.draft \in Nat
  BY DEF WorkRecords
<1>2. /\ r.job <= Len(jobs') /\ r.session <= Len(sessions')
      /\ r.last <= posted' /\ r.draft <= posted'
  BY <1>0, <1>1 DEF RecordShape, TablesGrow
<1>3. ASSUME r.session # 0
      PROVE  sessions'[r.session].trigger = jobs'[r.job].trigger
  <2>1. r.job # 0
    BY <1>3 DEF RecordShape
  <2>2. r.job \in 1..Len(jobs) /\ r.session \in SessionIds
    BY <1>0, <1>1, <1>3, <2>1 DEF RecordShape, SessionIds
  <2> QED
    BY <1>3, <2>2 DEF RecordShape, TablesGrow
<1> QED
  BY <1>2, <1>3 DEF RecordShape

LEMMA LengthsAreNatural ==
  ASSUME AgentTypes
  PROVE  Len(jobs) \in Nat /\ Len(sessions) \in Nat /\ posted \in Nat /\ heard \in Nat
BY LenProperties DEF AgentTypes, JobTypes, SessionTypes, StreamTypes

(* Nobody works. *)
LEMMA WorkStays ==
  ASSUME AgentTypes, Len(jobs') \in Nat, Len(sessions') \in Nat, posted' \in Nat, TablesGrow,
         UNCHANGED work
  PROVE  WorkTypes'
<1>1. ASSUME NEW v \in Workers PROVE RecordShape(work[v])'
  <2>1. work[v] \in WorkRecords /\ RecordShape(work[v])
    BY DEF AgentTypes, WorkTypes
  <2> QED
    BY <2>1, ShapeFrame DEF RecordShape
<1> QED
  BY <1>1 DEF WorkTypes, AgentTypes

(* A worker goes on. *)
LEMMA WorkTurned ==
  ASSUME AgentTypes, Len(jobs') \in Nat, Len(sessions') \in Nat, posted' \in Nat, TablesGrow,
         NEW w \in Workers, Busy(w), NEW pc, NEW s \in Nat, NEW l \in Nat, NEW d \in Nat,
         pc # "idle", pc \in InTurn => s # 0, pc \in {"setup", "report"} => s = 0,
         s <= Len(sessions'), l <= posted', d <= posted',
         s # 0 => sessions'[s].trigger = jobs'[work[w].job].trigger,
         Turned(w, pc, s, l, d)
  PROVE  WorkTypes'
<1>1. ASSUME NEW v \in Workers, v # w PROVE RecordShape(work[v])'
  <2>1. work[v] \in WorkRecords /\ RecordShape(work[v]) /\ work'[v] = work[v]
    BY <1>1 DEF AgentTypes, WorkTypes, Turned
  <2> QED
    BY <2>1, ShapeFrame DEF RecordShape
<1>2. RecordShape(work[w])'
  <2>1. work[w] \in WorkRecords /\ RecordShape(work[w])
    BY DEF AgentTypes, WorkTypes
  <2>2. work[w].job <= Len(jobs') /\ work[w].job # 0 /\ work[w].attempt < MaxAttempts
    BY <2>1, ShapeFrame DEF RecordShape, Busy, At
  <2> QED
    BY <2>2 DEF RecordShape, Turned
<1> QED
  BY <1>1, <1>2 DEF WorkTypes, Turned

(* A worker is idle again. *)
LEMMA WorkEnds ==
  ASSUME AgentTypes, Len(jobs') \in Nat, Len(sessions') \in Nat, posted' \in Nat, TablesGrow,
         NEW w \in Workers, work' = [work EXCEPT ![w] = Idle]
  PROVE  WorkTypes'
<1>1. /\ work' \in [Workers -> WorkRecords] /\ work'[w] = Idle
      /\ \A v \in Workers : v # w => work'[v] = work[v]
  BY IdleAgain DEF AgentTypes, WorkTypes
<1>2. ASSUME NEW v \in Workers, v # w PROVE RecordShape(work[v])'
  <2>1. work[v] \in WorkRecords /\ RecordShape(work[v]) /\ work'[v] = work[v]
    BY <1>1, <1>2 DEF AgentTypes, WorkTypes
  <2> QED
    BY <2>1, ShapeFrame DEF RecordShape
<1>3. RecordShape(work[w])'
  BY <1>1, AttemptsAssumption DEF RecordShape, Idle, InTurn
<1> QED
  BY <1>1, <1>2, <1>3 DEF WorkTypes

(* One session changes, and runs only if no other one does. *)
LEMMA SessionsTouched ==
  ASSUME AgentTypes, NEW s \in SessionIds, sessions' \in Seq(SessionRecords(posted)),
         OnlySession(s), posted' = posted,
         sessions'[s].status = "running" => sessions[s].status = "running" \/ Running \subseteq {s},
         orphans' \subseteq SessionIds, purge' \subseteq SessionIds,
         doomed' \subseteq SessionIds, gone' \subseteq doomed', marked' \subseteq SessionIds
  PROVE  SessionTypes'
<1>1. Len(sessions') = Len(sessions) /\ SessionIds' = SessionIds
  BY DEF OnlySession, SessionIds
<1>2. ASSUME NEW t \in SessionIds, sessions'[t].status = "running",
             sessions'[s].status = "running"
      PROVE  t = s
  <2>1. SUFFICES ASSUME t # s PROVE FALSE
    OBVIOUS
  <2>2. sessions[t].status = "running"
    BY <1>2, <2>1 DEF OnlySession
  <2> QED
    BY <1>2, <2>1, <2>2 DEF AgentTypes, SessionTypes, Running
<1>3. ASSUME NEW t \in SessionIds, NEW u \in SessionIds, t # s, u # s,
             sessions'[t].status = "running", sessions'[u].status = "running"
      PROVE  t = u
  BY <1>3 DEF AgentTypes, SessionTypes, OnlySession
<1>4. (\A t, u \in SessionIds :
         sessions[t].status = "running" /\ sessions[u].status = "running" => t = u)'
  BY <1>1, <1>2, <1>3
<1>5. sessions' \in Seq(SessionRecords(posted'))
  OBVIOUS
<1> QED
  BY <1>1, <1>4, <1>5 DEF SessionTypes

LEMMA TouchGrows ==
  ASSUME AgentTypes, NEW s \in SessionIds, OnlySession(s), UNCHANGED <<jobs, posted>>
  PROVE  TablesGrow /\ Len(jobs') \in Nat /\ Len(sessions') \in Nat /\ posted' \in Nat
BY LengthsAreNatural DEF TablesGrow, OnlySession, SessionIds

LEMMA SameTables ==
  ASSUME AgentTypes, UNCHANGED <<jobs, posted, sessions>>
  PROVE  TablesGrow /\ Len(jobs') \in Nat /\ Len(sessions') \in Nat /\ posted' \in Nat
BY LengthsAreNatural DEF TablesGrow, SessionIds

Holes == {"unstarted", "displaced", "repeated", "overtaken", "revived", "kept"}

LEMMA FaultCounted ==
  ASSUME StreamTypes, NEW kind \in FaultKinds, Fault(kind)
  PROVE  troubles' \in 0..MaxTroubles
BY TroublesAssumption DEF Fault, StreamTypes

LEMMA StillTyped ==
  ASSUME AgentTypes, UNCHANGED <<streamVars, jobs, sessions, orphans, deletionVars, answered>>,
         excused' \in 0..posted, holes' \subseteq Holes, troubles' \in 0..MaxTroubles
  PROVE  StreamTypes' /\ JobTypes' /\ SessionTypes'
<1>1. StreamTypes'
  BY DEF AgentTypes, StreamTypes, streamVars, deletionVars, Holes
<1>2. JobTypes'
  BY DEF AgentTypes, JobTypes, streamVars
<1>3. SessionTypes'
  BY DEF AgentTypes, SessionTypes, streamVars, deletionVars, SessionIds
<1> QED
  BY <1>1, <1>2, <1>3

LEMMA TouchTyped ==
  ASSUME AgentTypes, NEW s \in SessionIds, sessions' \in Seq(SessionRecords(posted)),
         OnlySession(s), UNCHANGED <<streamVars, jobs>>,
         sessions'[s].status = "running" => sessions[s].status = "running" \/ Running \subseteq {s},
         orphans' \subseteq SessionIds, purge' \subseteq SessionIds,
         doomed' \subseteq SessionIds, gone' \subseteq doomed', marked' \subseteq SessionIds,
         deletion' \in [Messages -> {"no", "asked", "listed", "done"}],
         answered' \in 0..posted, excused' \in 0..posted, holes' \subseteq Holes,
         troubles' \in 0..MaxTroubles
  PROVE  StreamTypes' /\ JobTypes' /\ SessionTypes'
<1>1. StreamTypes'
  BY DEF AgentTypes, StreamTypes, streamVars, Holes
<1>2. JobTypes'
  BY DEF AgentTypes, JobTypes, streamVars
<1>3. SessionTypes'
  BY SessionsTouched DEF streamVars
<1> QED
  BY <1>1, <1>2, <1>3

(* What a worker's record says, once it is known to be busy. *)
LEMMA RecordFacts ==
  ASSUME AgentTypes, NEW w \in Workers
  PROVE  /\ work[w] \in WorkRecords
         /\ work[w].session \in Nat /\ work[w].last \in 0..posted /\ work[w].draft \in 0..posted
         /\ work[w].attempt \in Nat /\ work[w].attempt < MaxAttempts
         /\ work[w].session <= Len(sessions)
         /\ work[w].session # 0 =>
              /\ work[w].session \in SessionIds
              /\ Session(w).trigger = jobs[work[w].job].trigger
         /\ Busy(w) => work[w].job \in 1..Len(jobs)
         /\ work[w].pc \in InTurn => work[w].session # 0 /\ Busy(w)
         /\ work[w].pc \in {"idle", "setup", "report"} => work[w].session = 0
         /\ work[w].throws \in BOOLEAN /\ work[w].retryable \in BOOLEAN
<1>1. work[w] \in WorkRecords /\ RecordShape(work[w])
  BY DEF AgentTypes, WorkTypes
<1>2. Len(jobs) \in Nat /\ Len(sessions) \in Nat /\ posted \in Nat
  BY LengthsAreNatural
<1>3. /\ work[w].job \in Nat /\ work[w].session \in Nat /\ work[w].last \in Nat
      /\ work[w].draft \in Nat /\ work[w].attempt \in Nat
      /\ work[w].throws \in BOOLEAN /\ work[w].retryable \in BOOLEAN
  BY <1>1 DEF WorkRecords
<1>4. /\ work[w].session # 0 =>
           /\ work[w].session \in SessionIds
           /\ Session(w).trigger = jobs[work[w].job].trigger
      /\ work[w].pc # "idle" => work[w].job \in 1..Len(jobs)
  BY <1>1, <1>2, <1>3 DEF RecordShape, SessionIds, Session
<1>5. work[w].last \in 0..posted /\ work[w].draft \in 0..posted
  BY <1>1, <1>2, <1>3 DEF RecordShape
<1>6. work[w].pc \in InTurn => work[w].session # 0 /\ work[w].pc # "idle"
  BY <1>1 DEF RecordShape, InTurn
<1> QED
  BY <1>1, <1>3, <1>4, <1>5, <1>6 DEF RecordShape, Busy, At

(* The handler ends: it returns, or throws to the queue. *)
LEMMA EndsTyped ==
  ASSUME AgentTypes, NEW w \in Workers, Busy(w), NEW b \in BOOLEAN, Ends(w, b),
         Len(jobs') \in Nat, Len(sessions') \in Nat, posted' \in Nat, TablesGrow
  PROVE  WorkTypes'
<1>1. Turned(w, "report", 0, 0, 0)
  BY EndsTurns DEF AgentTypes, WorkTypes
<1>2. 0 <= Len(sessions') /\ 0 <= posted'
  OBVIOUS
<1> QED
  BY <1>1, <1>2, WorkTurned DEF InTurn

(* The turn throws. *)
LEMMA ThrowsTyped ==
  ASSUME AgentTypes, NEW w \in Workers, work[w].pc \in InTurn, NEW b \in BOOLEAN, Throws(w, b),
         Len(jobs') \in Nat, Len(sessions') \in Nat, posted' \in Nat, TablesGrow
  PROVE  WorkTypes'
<1> DEFINE s == work[w].session
<1>1. Turned(w, "threw", s, 0, 0)
  BY ThrowsTurns DEF AgentTypes, WorkTypes
<1>2. s \in Nat /\ s # 0 /\ s \in SessionIds /\ Busy(w) /\ work[w].job \in 1..Len(jobs)
      /\ Session(w).trigger = jobs[work[w].job].trigger
  BY RecordFacts
<1>3. sessions'[s].trigger = jobs'[work[w].job].trigger
  BY <1>2 DEF TablesGrow, Session
<1>4. s <= Len(sessions') /\ 0 <= posted'
  BY <1>2, LengthsAreNatural DEF TablesGrow, SessionIds
<1> QED
  BY <1>1, <1>2, <1>3, <1>4, WorkTurned

(* The turn goes on, with the same session. *)
LEMMA TurnTyped ==
  ASSUME AgentTypes, NEW w \in Workers, work[w].pc \in InTurn, NEW pc \in InTurn,
         NEW l \in 0..posted, NEW d \in 0..posted, Turned(w, pc, work[w].session, l, d),
         Len(jobs') \in Nat, Len(sessions') \in Nat, posted' \in Nat, TablesGrow
  PROVE  WorkTypes'
<1> DEFINE s == work[w].session
<1>2. s \in Nat /\ s # 0 /\ s \in SessionIds /\ Busy(w) /\ work[w].job \in 1..Len(jobs)
      /\ Session(w).trigger = jobs[work[w].job].trigger
  BY RecordFacts
<1>3. sessions'[s].trigger = jobs'[work[w].job].trigger
  BY <1>2 DEF TablesGrow, Session
<1>4. s <= Len(sessions') /\ l <= posted' /\ d <= posted' /\ l \in Nat /\ d \in Nat
  BY <1>2, LengthsAreNatural DEF TablesGrow, SessionIds
<1>5. pc # "idle" /\ pc \notin {"setup", "report"}
  BY DEF InTurn
<1> QED
  BY <1>2, <1>3, <1>4, <1>5, WorkTurned

(* The next call of the model, or the abort of a deleted session's turn. *)
LEMMA NextCallTurns ==
  ASSUME AgentTypes, NEW w \in Workers, NEW last \in 0..posted, NextCall(w, last)
  PROVE  \/ Session(w).status = "deleted" /\ Turned(w, "threw", work[w].session, 0, 0)
         \/ Session(w).status # "deleted" /\ Turned(w, "compose", work[w].session, last, posted)
<1>0. work \in [Workers -> WorkRecords] /\ posted \in Nat /\ last \in Nat
  BY LengthsAreNatural DEF AgentTypes, WorkTypes
<1>1. CASE Session(w).status = "deleted"
  <2>1. Throws(w, TRUE)
    BY <1>1 DEF NextCall
  <2> QED
    BY <1>0, <1>1, <2>1, ThrowsTurns
<1>2. CASE Session(w).status # "deleted"
  <2>1. work' = [work EXCEPT ![w].pc = "compose", ![w].last = last, ![w].draft = posted]
    BY <1>2 DEF NextCall
  <2> DEFINE r == [work[w] EXCEPT !.pc = "compose", !.last = last, !.draft = posted]
  <2>2. work' = [work EXCEPT ![w] = r]
    BY <1>0, <2>1
  <2>3. /\ r \in WorkRecords /\ r.pc = "compose" /\ r.session = work[w].session
        /\ r.last = last /\ r.draft = posted /\ r.job = work[w].job
        /\ r.attempt = work[w].attempt
    BY <1>0 DEF WorkRecords, InTurn
  <2> HIDE DEF r
  <2>4. Turned(w, "compose", work[w].session, last, posted)
    BY <1>0, <2>2, <2>3 DEF Turned
  <2> QED
    BY <1>2, <2>4
<1> QED
  BY <1>1, <1>2

LEMMA NextCallTyped ==
  ASSUME AgentTypes, NEW w \in Workers, work[w].pc \in InTurn, NEW last \in 0..posted,
         NextCall(w, last),
         Len(jobs') \in Nat, Len(sessions') \in Nat, posted' \in Nat, TablesGrow
  PROVE  WorkTypes'
<1>1. posted \in 0..posted /\ 0 \in 0..posted
  BY LengthsAreNatural
<1>2. "threw" \in InTurn /\ "compose" \in InTurn
  BY DEF InTurn
<1> QED
  BY <1>1, <1>2, NextCallTurns, TurnTyped

LEMMA JobFacts ==
  ASSUME AgentTypes, NEW j \in 1..Len(jobs)
  PROVE  /\ jobs[j] \in JobRecords /\ jobs[j].trigger \in Int
         /\ jobs[j].fails \in 0..MaxAttempts
<1>1. jobs[j] \in JobRecords
  BY ElementOfSeq DEF AgentTypes, JobTypes
<1> QED
  BY <1>1 DEF JobRecords

LEMMA ListenerTypes ==
  ASSUME AgentTypes, Post \/ ListenerDecides \/ ListenerSends
  PROVE  AgentTypes'
<1>0. /\ Len(jobs) \in Nat /\ Len(sessions) \in Nat /\ posted \in Nat /\ heard \in Nat
      /\ jobs \in Seq(JobRecords) /\ sessions \in Seq(SessionRecords(posted))
  BY LengthsAreNatural DEF AgentTypes, JobTypes, SessionTypes
<1>1. CASE Post
  <2>1. StreamTypes'
    BY <1>1, <1>0, TroublesAssumption
    DEF Post, AgentTypes, StreamTypes, deletionVars, historyVars
  <2>2. JobTypes'
    BY <1>1 DEF Post, AgentTypes, JobTypes
  <2>3. SessionTypes'
    <3>1. posted' = posted + 1 /\ UNCHANGED <<sessions, orphans, deletionVars>>
      BY <1>1 DEF Post
    <3>2. SessionRecords(posted) \subseteq SessionRecords(posted + 1)
      BY <1>0 DEF SessionRecords
    <3>3. sessions \in Seq(SessionRecords(posted + 1))
      BY <1>0, <3>2, SeqMonotonic
    <3> QED
      BY <3>1, <3>3 DEF AgentTypes, SessionTypes, SessionIds, deletionVars
  <2>4. WorkTypes'
    <3>1. TablesGrow /\ UNCHANGED <<work, jobs, sessions>> /\ posted' \in Nat
      BY <1>1, <1>0 DEF Post, TablesGrow
    <3> QED
      BY <1>0, <3>1, WorkStays
  <2> QED
    BY <2>1, <2>2, <2>3, <2>4 DEF AgentTypes
<1>2. CASE ListenerDecides
  <2>0. UNCHANGED <<posted, jobs, sessions, work, orphans, deletion, doomed, gone, purge,
                    marked, answered, excused,
                    holes, troubles>>
    BY <1>2 DEF ListenerDecides, deletionVars, historyVars
  <2>1. StreamTypes'
    <3>1. heard' \in 0..posted /\ (heard' = heard \/ dispatching' = dispatching)
      BY <1>2, <1>0 DEF ListenerDecides, AgentTypes, StreamTypes
    <3>2. dispatching \in BOOLEAN /\ dispatching' \in BOOLEAN
      BY <1>2, Zenon DEF ListenerDecides, AgentTypes, StreamTypes
    <3>3. dispatching' => heard' < posted
      <4>1. ~dispatching /\ heard < posted /\ (dispatching' = dispatching \/ heard' = heard)
        BY <1>2, Zenon DEF ListenerDecides
      <4> QED
        BY <4>1
    <3> QED
      BY <2>0, <3>1, <3>2, <3>3 DEF AgentTypes, StreamTypes
  <2>2. JobTypes'
    <3>1. heard <= heard' /\ heard' \in Nat
      BY <1>2, <1>0 DEF ListenerDecides
    <3>2. \A j \in 1..Len(jobs) : jobs[j].trigger \in Int
      BY JobFacts
    <3> QED
      BY <1>0, <2>0, <3>1, <3>2 DEF AgentTypes, JobTypes
  <2>3. SessionTypes'
    BY <2>0 DEF AgentTypes, SessionTypes, SessionIds
  <2>4. WorkTypes'
    BY <2>0, SameTables, WorkStays
  <2> QED
    BY <2>1, <2>2, <2>3, <2>4 DEF AgentTypes
<1>3. CASE ListenerSends
  <2>0. /\ UNCHANGED <<posted, sessions, work, orphans, deletion, doomed, gone, purge,
                    marked, answered, excused,
                       holes, troubles>>
        /\ dispatching /\ jobs' = Enqueued(heard + 1) /\ heard' = heard + 1 /\ ~dispatching'
    BY <1>3 DEF ListenerSends, deletionVars, historyVars
  <2>a. heard + 1 \in Int
    BY <1>0
  <2>b. /\ jobs' \in Seq(JobRecords) /\ Len(jobs') = Len(jobs) + 1
        /\ \A j \in 1..Len(jobs) : jobs'[j] = jobs[j]
        /\ jobs'[Len(jobs) + 1] =
             [trigger |-> heard + 1, state |-> "waiting", fails |-> 0, holder |-> None]
    BY <1>0, <2>0, <2>a, JobSent
  <2>1. StreamTypes'
    <3>1. dispatching' = FALSE
      BY <1>3 DEF ListenerSends
    <3>2. dispatching' \in BOOLEAN /\ ~dispatching'
      BY <3>1
    <3>3. heard < posted /\ heard' \in 0..posted
      BY <1>0, <2>0 DEF AgentTypes, StreamTypes
    <3> QED
      BY <2>0, <3>2, <3>3 DEF AgentTypes, StreamTypes
  <2>2. JobTypes'
    <3>1. ASSUME NEW j \in 1..Len(jobs')
          PROVE  /\ jobs'[j].trigger <= heard'
                 /\ jobs'[j].state \in {"waiting", "claimed"} => jobs'[j].fails < MaxAttempts
      <4>1. CASE j = Len(jobs) + 1
        BY <1>0, <2>0, <2>b, <4>1, AttemptsAssumption
      <4>2. CASE j # Len(jobs) + 1
        <5>1. j \in 1..Len(jobs) /\ jobs'[j] = jobs[j]
          BY <1>0, <2>b, <4>2
        <5>2. jobs[j].trigger \in Int
          BY <5>1, JobFacts
        <5> QED
          BY <1>0, <2>0, <5>1, <5>2 DEF AgentTypes, JobTypes
      <4> QED
        BY <4>1, <4>2
    <3> QED
      BY <2>b, <3>1 DEF JobTypes
  <2>3. SessionTypes'
    BY <2>0 DEF AgentTypes, SessionTypes, SessionIds
  <2>4. WorkTypes'
    <3>1. TablesGrow /\ Len(jobs') \in Nat
      BY <1>0, <2>0, <2>b DEF TablesGrow
    <3> QED
      BY <1>0, <2>0, <3>1, WorkStays
  <2> QED
    BY <2>1, <2>2, <2>3, <2>4 DEF AgentTypes
<1> QED
  BY <1>1, <1>2, <1>3

(* Steps that leave the tables alone. *)
LEMMA QuietTypes ==
  ASSUME AgentTypes, NEW w \in Workers,
         \/ Hydrate(w) \/ Stop(w) \/ SendMessage(w) \/ TurnThrows(w) \/ Catch(w)
         \/ HandlerThrows(w) \/ MarkFailedFails(w) \/ Crash(w) \/ SetupReads(w)
  PROVE  AgentTypes'
<1>0. /\ work \in [Workers -> WorkRecords] /\ posted \in Nat
      /\ posted \in 0..posted /\ 0 \in 0..posted
      /\ excused \in 0..posted /\ holes \subseteq Holes /\ troubles \in 0..MaxTroubles
      /\ work[w].session \in Nat /\ work[w].last \in 0..posted /\ work[w].draft \in 0..posted
  BY LengthsAreNatural, RecordFacts DEF AgentTypes, WorkTypes, StreamTypes, Holes
<1> DEFINE Quiet == /\ UNCHANGED <<streamVars, jobs, sessions, orphans, deletionVars, answered>>
                    /\ excused' \in 0..posted /\ holes' \subseteq Holes
                    /\ troubles' \in 0..MaxTroubles
<1>1. ASSUME Quiet, TablesGrow /\ Len(jobs') \in Nat /\ Len(sessions') \in Nat /\ posted' \in Nat
             => WorkTypes'
      PROVE  AgentTypes'
  <2>1. StreamTypes' /\ JobTypes' /\ SessionTypes'
    BY <1>1, StillTyped
  <2>2. WorkTypes'
    BY <1>1, SameTables DEF streamVars
  <2> QED
    BY <2>1, <2>2 DEF AgentTypes
<1>2. CASE Hydrate(w)
  <2>1. work[w].pc \in InTurn /\ NextCall(w, work[w].last)
    BY <1>2 DEF Hydrate, At, InTurn
  <2>2. Quiet
    BY <1>0, <1>2 DEF Hydrate, historyVars
  <2> QED
    BY <1>0, <1>1, <2>1, <2>2, NextCallTyped
<1>3. CASE Stop(w)
  <2>1. work[w].pc \in InTurn /\ "complete" \in InTurn /\ Goto(w, "complete")
    BY <1>3 DEF Stop, At, InTurn
  <2>2. Quiet
    <3>1. troubles' \in 0..MaxTroubles
      BY <1>3, FaultCounted DEF Stop, AgentTypes, FaultKinds
    <3> QED
      BY <1>0, <1>3, <3>1 DEF Stop, Excuse
  <2>3. Turned(w, "complete", work[w].session, work[w].last, work[w].draft)
    BY <1>0, <2>1, GotoTurns
  <2> QED
    BY <1>0, <1>1, <2>1, <2>2, <2>3, TurnTyped
<1>4. CASE SendMessage(w)
  <2>1. work[w].pc \in InTurn /\ "commit" \in InTurn
    BY <1>4 DEF SendMessage, At, InTurn
  <2>2. Quiet
    BY <1>0, <1>4 DEF SendMessage, historyVars
  <2>3. CASE Goto(w, "commit")
    <3>1. Turned(w, "commit", work[w].session, work[w].last, work[w].draft)
      BY <1>0, <2>1, <2>3, GotoTurns
    <3> QED
      BY <1>0, <1>1, <2>1, <2>2, <3>1, TurnTyped
  <2>4. CASE Throws(w, TRUE)
    BY <1>1, <2>1, <2>2, <2>4, ThrowsTyped
  <2> QED
    BY <1>4, <2>3, <2>4 DEF SendMessage
<1>5. CASE TurnThrows(w)
  <2>1. work[w].pc \in InTurn
    BY <1>5 DEF TurnThrows, InTurn
  <2>2. Quiet
    <3>1. troubles' \in 0..MaxTroubles
      BY <1>5, FaultCounted DEF TurnThrows, AgentTypes, FaultKinds
    <3> QED
      BY <1>0, <1>5, <3>1 DEF TurnThrows, historyVars
  <2>3. PICK b \in BOOLEAN : Throws(w, b)
    BY <1>5 DEF TurnThrows
  <2> QED
    BY <1>1, <2>1, <2>2, <2>3, ThrowsTyped
<1>6. CASE Catch(w)
  <2>1. work[w].pc \in InTurn /\ "fail" \in InTurn /\ Busy(w)
    BY <1>6 DEF Catch, At, InTurn, Busy
  <2>2. Quiet
    BY <1>0, <1>6 DEF Catch, historyVars
  <2>3. CASE Goto(w, "fail")
    <3>1. Turned(w, "fail", work[w].session, work[w].last, work[w].draft)
      BY <1>0, <2>1, <2>3, GotoTurns
    <3> QED
      BY <1>0, <1>1, <2>1, <2>2, <3>1, TurnTyped
  <2>4. CASE Ends(w, FALSE)
    BY <1>1, <2>1, <2>2, <2>4, EndsTyped
  <2> QED
    BY <1>6, <2>3, <2>4 DEF Catch
<1>7. CASE HandlerThrows(w)
  <2>1. Busy(w) /\ Ends(w, TRUE)
    BY <1>7 DEF HandlerThrows, Busy, At
  <2>2. Quiet
    <3>1. troubles' \in 0..MaxTroubles
      BY <1>7, FaultCounted DEF HandlerThrows, AgentTypes, FaultKinds
    <3>2. holes' \subseteq Holes
      BY <1>0, <1>7 DEF HandlerThrows, Holes
    <3> QED
      BY <1>0, <1>7, <3>1, <3>2 DEF HandlerThrows
  <2> QED
    BY <1>1, <2>1, <2>2, EndsTyped
<1>8. CASE MarkFailedFails(w)
  <2>1. Busy(w) /\ Ends(w, work[w].retryable)
    BY <1>8 DEF MarkFailedFails, Busy, At
  <2>2. Quiet
    <3>1. troubles' \in 0..MaxTroubles
      BY <1>8, FaultCounted DEF MarkFailedFails, AgentTypes, FaultKinds
    <3> QED
      BY <1>0, <1>8, <3>1 DEF MarkFailedFails, historyVars
  <2>3. PICK b \in BOOLEAN : Ends(w, b)
    BY <2>1, RecordFacts
  <2> QED
    BY <1>1, <2>1, <2>2, <2>3, EndsTyped
<1>9. CASE Crash(w)
  <2>1. work' = [work EXCEPT ![w] = Idle]
    BY <1>9 DEF Crash
  <2>2. Quiet
    <3>1. troubles' \in 0..MaxTroubles
      BY <1>9, FaultCounted DEF Crash, AgentTypes, FaultKinds
    <3> QED
      BY <1>0, <1>9, <3>1 DEF Crash, historyVars
  <2> QED
    BY <1>1, <2>1, <2>2, WorkEnds
<1>10. CASE SetupReads(w)
  <2> DEFINE s == FindByTrigger(jobs[work[w].job].trigger)
  <2>1. Busy(w)
    BY <1>10 DEF SetupReads, Busy, At
  <2>2. Quiet
    BY <1>0, <1>10 DEF SetupReads, Excuse
  <2>3. CASE Ends(w, FALSE)
    BY <1>1, <2>1, <2>2, <2>3, EndsTyped
  <2>4. CASE work' = [work EXCEPT ![w].pc = "start",
                                  ![w].session = IF Resumable(s) THEN s ELSE 0]
    <3> DEFINE x == IF Resumable(s) THEN s ELSE 0
    <3>1. /\ x \in 0..Len(sessions)
          /\ x # 0 => sessions[x].trigger = jobs[work[w].job].trigger
      BY LatestFound, LengthsAreNatural
    <3>2. x \in Nat /\ x <= Len(sessions)
      BY <3>1, LengthsAreNatural
    <3>3. work' = [work EXCEPT ![w].pc = "start", ![w].session = x]
      BY <2>4
    <3> HIDE DEF x, s
    <3>4. Turned(w, "start", x, work[w].last, work[w].draft)
      BY <1>0, <3>2, <3>3 DEF Turned, WorkRecords
    <3>5. UNCHANGED <<sessions, jobs, posted>>
      BY <2>2 DEF streamVars
    <3>6. "start" \notin InTurn
      BY DEF InTurn
    <3> QED
      BY <1>0, <1>1, <2>1, <2>2, <3>1, <3>2, <3>4, <3>5, <3>6, WorkTurned
  <2> QED
    BY <1>10, <2>3, <2>4 DEF SetupReads
<1> QED
  BY <1>2, <1>3, <1>4, <1>5, <1>6, <1>7, <1>8, <1>9, <1>10

(* Steps of a turn that write to its session. *)
LEMMA TurnTypes ==
  ASSUME AgentTypes, NEW w \in Workers,
         \/ Resume(w) \/ CheckNewMessages(w) \/ CreateMessage(w) \/ CompleteSession(w)
         \/ CompletionFails(w) \/ MarkFailed(w)
  PROVE  AgentTypes'
<1> DEFINE s == work[w].session
<1>0. /\ work \in [Workers -> WorkRecords] /\ posted \in Nat /\ Len(sessions) \in Nat
      /\ posted \in 0..posted /\ 0 \in 0..posted
      /\ deletion \in [Messages -> {"no", "asked", "listed", "done"}]
      /\ answered \in 0..posted /\ excused \in 0..posted
      /\ holes \subseteq Holes /\ troubles \in 0..MaxTroubles
      /\ sessions \in Seq(SessionRecords(posted))
      /\ orphans \subseteq SessionIds /\ purge \subseteq SessionIds
      /\ doomed \subseteq SessionIds /\ gone \subseteq doomed /\ marked \subseteq SessionIds
  BY LengthsAreNatural DEF AgentTypes, WorkTypes, StreamTypes, SessionTypes, Holes
<1>r. /\ s \in Nat /\ work[w].last \in 0..posted /\ work[w].draft \in 0..posted
      /\ s # 0 => s \in SessionIds
      /\ work[w].pc \in InTurn => s # 0 /\ Busy(w)
  BY RecordFacts
<1> DEFINE Rest == /\ UNCHANGED <<streamVars, jobs, orphans, deletionVars>>
                   /\ answered' \in 0..posted /\ excused' \in 0..posted
                   /\ holes' \subseteq Holes /\ troubles' \in 0..MaxTroubles
           Grown == TablesGrow /\ Len(jobs') \in Nat /\ Len(sessions') \in Nat /\ posted' \in Nat
<1>1. ASSUME Rest, s \in SessionIds, sessions' \in Seq(SessionRecords(posted)), OnlySession(s),
             sessions'[s].status = "running" =>
               sessions[s].status = "running" \/ Running \subseteq {s},
             Grown => WorkTypes'
      PROVE  AgentTypes'
  <2>1. StreamTypes' /\ JobTypes' /\ SessionTypes'
    BY <1>0, <1>1, TouchTyped DEF deletionVars
  <2>2. WorkTypes'
    BY <1>1, TouchGrows DEF streamVars
  <2> QED
    BY <2>1, <2>2 DEF AgentTypes
<1>2. ASSUME Rest, UNCHANGED <<sessions, answered>>, Grown => WorkTypes'
      PROVE  AgentTypes'
  <2>1. StreamTypes' /\ JobTypes' /\ SessionTypes'
    BY <1>0, <1>2, StillTyped
  <2>2. WorkTypes'
    BY <1>2, SameTables DEF streamVars
  <2> QED
    BY <2>1, <2>2 DEF AgentTypes
<1>3. CASE Resume(w)
  <2>1. s # 0 /\ Busy(w) /\ s \in SessionIds /\ work[w].job \in 1..Len(jobs)
        /\ sessions[s].trigger = jobs[work[w].job].trigger /\ s <= Len(sessions)
    BY <1>3, <1>r, RecordFacts DEF Resume, Busy, At, Session
  <2>2. Rest /\ UNCHANGED answered
    BY <1>0, <1>3 DEF Resume, Excuse, Holes
  <2>3. CASE Ends(w, TRUE) /\ UNCHANGED sessions
    BY <1>2, <2>1, <2>2, <2>3, EndsTyped
  <2>4. CASE Ends(w, FALSE) /\ UNCHANGED sessions
    BY <1>2, <2>1, <2>2, <2>4, EndsTyped
  <2>5. CASE /\ Running \subseteq {s} /\ SetStatus(s, "running", sessions[s].event)
             /\ work' = [work EXCEPT ![w].pc = "hydrate", ![w].last = sessions[s].lastSeen]
    <3>1. sessions[s] \in SessionRecords(posted)
      BY <1>0, <2>1, ElementOfSeq DEF SessionIds
    <3>2. /\ sessions[s].event \in {"started", "interrupted", "completed", "failed", "deleted"}
          /\ sessions[s].lastSeen \in 0..posted
      BY <3>1 DEF SessionRecords
    <3>3. sessions' \in Seq(SessionRecords(posted)) /\ OnlySession(s)
      BY <1>0, <2>1, <2>5, <3>2, StatusSet
    <3>l. PICK l \in 0..posted : l = sessions[s].lastSeen
      BY <3>2
    <3>m. work' = [work EXCEPT ![w].pc = "hydrate", ![w].last = l] /\ l \in Nat
      BY <1>0, <2>5, <3>l
    <3>4. Turned(w, "hydrate", s, l, work[w].draft)
      BY <1>0, <3>m DEF Turned, WorkRecords, InTurn
    <3>5. sessions'[s].trigger = jobs'[work[w].job].trigger /\ Len(sessions') = Len(sessions)
      BY <2>1, <2>2, <3>3 DEF OnlySession
    <3>6. "hydrate" \in InTurn /\ UNCHANGED posted
      BY <2>2 DEF InTurn, streamVars
    <3>7. Grown => WorkTypes'
      <4> SUFFICES ASSUME Grown PROVE WorkTypes'
        OBVIOUS
      <4>1. /\ s \in Nat /\ l \in Nat /\ work[w].draft \in Nat
            /\ s <= Len(sessions') /\ l <= posted' /\ work[w].draft <= posted'
        BY <1>0, <1>r, <2>1, <3>l, <3>5, <3>6
      <4> QED
        BY <2>1, <3>4, <3>5, <3>6, <4>1, WorkTurned DEF InTurn
    <3> QED
      BY <1>1, <2>1, <2>2, <2>5, <3>3, <3>7
  <2> QED
    BY <1>3, <2>3, <2>4, <2>5 DEF Resume
<1>4. CASE CheckNewMessages(w)
  <2>1. work[w].pc \in InTurn /\ s # 0 /\ s \in SessionIds /\ "send" \in InTurn
    BY <1>4, <1>r DEF CheckNewMessages, At, InTurn
  <2>2. Rest
    BY <1>0, <1>4 DEF CheckNewMessages, Excuse
  <2>3. CASE Goto(w, "send") /\ UNCHANGED sessions
    <3>1. Turned(w, "send", s, work[w].last, work[w].draft)
      BY <1>0, <2>1, <2>3, GotoTurns
    <3>2. Grown => WorkTypes'
      BY <1>r, <2>1, <3>1, TurnTyped
    <3>3. UNCHANGED answered
      BY <1>4 DEF CheckNewMessages
    <3> QED
      BY <1>2, <2>2, <2>3, <3>2, <3>3
  <2>4. CASE sessions' = [sessions EXCEPT ![s].lastSeen = posted]
             /\ (NextCall(w, posted)
                 \/ work' = [work EXCEPT ![w].pc = "send", ![w].last = posted])
    <3>1. /\ sessions' \in Seq(SessionRecords(posted)) /\ OnlySession(s)
          /\ sessions'[s].status = sessions[s].status
      BY <1>0, <2>1, <2>4, SeenSet
    <3>2. CASE NextCall(w, posted)
      <4>1. Grown => WorkTypes'
        BY <1>0, <2>1, <3>2, NextCallTyped
      <4> QED
        BY <1>1, <2>1, <2>2, <3>1, <4>1
    <3>3. CASE work' = [work EXCEPT ![w].pc = "send", ![w].last = posted]
      <4>1. Turned(w, "send", s, posted, work[w].draft)
        BY <1>0, <3>3 DEF Turned, WorkRecords, InTurn
      <4>2. Grown => WorkTypes'
        BY <1>0, <1>r, <2>1, <4>1, TurnTyped
      <4> QED
        BY <1>1, <2>1, <2>2, <3>1, <4>2
    <3> QED
      BY <2>4, <3>2, <3>3
  <2> QED
    BY <1>4, <2>3, <2>4 DEF CheckNewMessages
<1>5. CASE CreateMessage(w)
  <2>1. work[w].pc \in InTurn /\ s # 0 /\ s \in SessionIds /\ "complete" \in InTurn
    BY <1>5, <1>r DEF CreateMessage, At, InTurn
  <2>2. Rest
    <3>1. answered' \in 0..posted
      BY <1>0, <1>r, <1>5 DEF CreateMessage, Larger
    <3> QED
      BY <1>0, <1>5, <3>1 DEF CreateMessage
  <2>3. sessions' = [sessions EXCEPT ![s].replied = TRUE]
    BY <1>5 DEF CreateMessage
  <2>4. /\ sessions' \in Seq(SessionRecords(posted)) /\ OnlySession(s)
        /\ sessions'[s].status = sessions[s].status
    BY <1>0, <2>1, <2>3, RepliedSet
  <2>5. work' = [work EXCEPT ![w].pc = "complete", ![w].draft = 0]
    BY <1>5 DEF CreateMessage
  <2>6. Turned(w, "complete", s, work[w].last, 0)
    BY <1>0, <2>5 DEF Turned, WorkRecords, InTurn
  <2>7. Grown => WorkTypes'
    BY <1>0, <1>r, <2>1, <2>6, TurnTyped
  <2> QED
    BY <1>1, <2>1, <2>2, <2>4, <2>7
<1>6. CASE CompleteSession(w)
  <2>1. work[w].pc \in InTurn /\ s # 0 /\ s \in SessionIds /\ "unseen" \in InTurn /\ Busy(w)
    BY <1>6, <1>r DEF CompleteSession, At, InTurn
  <2>2. Rest /\ UNCHANGED answered
    BY <1>0, <1>6 DEF CompleteSession, historyVars
  <2>3. CASE Ends(w, FALSE) /\ UNCHANGED sessions
    BY <1>2, <2>1, <2>2, <2>3, EndsTyped
  <2>4. CASE sessions' = Completed(w) /\ Goto(w, "unseen")
    <3>1. /\ sessions' \in Seq(SessionRecords(posted)) /\ OnlySession(s)
          /\ sessions'[s].status = "completed"
      BY <1>0, <1>r, <2>1, <2>4, CompletedSet
    <3>2. Turned(w, "unseen", s, work[w].last, work[w].draft)
      BY <1>0, <2>1, <2>4, GotoTurns
    <3>3. Grown => WorkTypes'
      BY <1>r, <2>1, <3>2, TurnTyped
    <3> QED
      BY <1>1, <2>1, <2>2, <3>1, <3>3
  <2> QED
    BY <1>6, <2>3, <2>4 DEF CompleteSession
<1>7. CASE CompletionFails(w)
  <2>1. work[w].pc \in InTurn /\ s # 0 /\ s \in SessionIds /\ Throws(w, TRUE)
    BY <1>7, <1>r DEF CompletionFails, At, InTurn
  <2>2. Rest /\ UNCHANGED answered
    <3>1. troubles' \in 0..MaxTroubles
      BY <1>7, FaultCounted DEF CompletionFails, AgentTypes, FaultKinds
    <3> QED
      BY <1>0, <1>7, <3>1 DEF CompletionFails, historyVars
  <2>3. Grown => WorkTypes'
    BY <2>1, ThrowsTyped
  <2>4. CASE UNCHANGED sessions
    BY <1>2, <2>2, <2>3, <2>4
  <2>5. CASE sessions' = Completed(w)
    <3>1. /\ sessions' \in Seq(SessionRecords(posted)) /\ OnlySession(s)
          /\ sessions'[s].status = "completed"
      BY <1>0, <1>r, <2>1, <2>5, CompletedSet
    <3> QED
      BY <1>1, <2>1, <2>2, <2>3, <3>1
  <2> QED
    BY <1>7, <2>4, <2>5 DEF CompletionFails
<1>8. CASE MarkFailed(w)
  <2>1. work[w].pc \in InTurn /\ s # 0 /\ s \in SessionIds /\ Busy(w)
    BY <1>8, <1>r DEF MarkFailed, At, InTurn
  <2>2. Rest
    BY <1>0, <1>8 DEF MarkFailed, Holes
  <2>3. PICK ev \in {"interrupted", "failed"} : SetStatus(s, "failed", ev)
    BY <1>8 DEF MarkFailed
  <2>4. /\ sessions' \in Seq(SessionRecords(posted)) /\ OnlySession(s)
        /\ sessions'[s].status = "failed"
    BY <1>0, <2>1, <2>3, StatusSet
  <2>5. PICK b \in BOOLEAN : Ends(w, b)
    BY <1>8, RecordFacts DEF MarkFailed
  <2>6. Grown => WorkTypes'
    BY <2>1, <2>5, EndsTyped
  <2> QED
    BY <1>1, <2>1, <2>2, <2>4, <2>6
<1> QED
  BY <1>3, <1>4, <1>5, <1>6, <1>7, <1>8

LEMMA InsertTypes ==
  ASSUME AgentTypes, NEW w \in Workers, InsertRunningOrSkip(w)
  PROVE  AgentTypes'
<1> DEFINE trigger == jobs[work[w].job].trigger
           s == Len(sessions) + 1
<1>0. /\ work \in [Workers -> WorkRecords] /\ posted \in Nat
      /\ Len(sessions) \in Nat /\ Len(jobs) \in Nat
      /\ sessions \in Seq(SessionRecords(posted))
      /\ orphans \subseteq SessionIds /\ purge \subseteq SessionIds
      /\ doomed \subseteq SessionIds /\ gone \subseteq doomed /\ marked \subseteq SessionIds
  BY LengthsAreNatural DEF AgentTypes, WorkTypes, SessionTypes
<1>1. Busy(w) /\ work[w].job \in 1..Len(jobs) /\ trigger \in Int
  BY <1>0, RecordFacts, JobFacts DEF InsertRunningOrSkip, Busy, At
<1>2. work[w].last \in 0..posted /\ work[w].draft \in 0..posted
  BY RecordFacts
<1>3. /\ UNCHANGED <<streamVars, jobs, orphans, deletionVars, historyVars, troubles>>
  BY DEF InsertRunningOrSkip
<1>4. CASE Ends(w, FALSE) /\ UNCHANGED sessions
  <2>1. StreamTypes' /\ JobTypes' /\ SessionTypes'
    <3>1. excused' \in 0..posted /\ holes' \subseteq Holes /\ troubles' \in 0..MaxTroubles
      BY <1>3 DEF AgentTypes, StreamTypes, historyVars, Holes
    <3> QED
      BY <1>3, <1>4, <3>1, StillTyped DEF historyVars
  <2>2. WorkTypes'
    BY <1>1, <1>3, <1>4, SameTables, EndsTyped DEF streamVars
  <2> QED
    BY <2>1, <2>2 DEF AgentTypes
<1>5. CASE /\ Running = {}
           /\ sessions' = Append(sessions, NewSession(trigger, work[w].last))
           /\ work' = [work EXCEPT ![w].pc = "hydrate", ![w].session = s]
  <2>1. /\ sessions' \in Seq(SessionRecords(posted)) /\ Len(sessions') = s
        /\ \A t \in SessionIds : sessions'[t] = sessions[t]
        /\ sessions'[s] = NewSession(trigger, work[w].last)
    BY <1>0, <1>1, <1>2, <1>5, SessionInserted
  <2>2. StreamTypes' /\ JobTypes'
    BY <1>3 DEF AgentTypes, StreamTypes, JobTypes, streamVars, deletionVars, historyVars
  <2>3. SessionTypes'
    <3>1. ASSUME NEW t \in 1..s, sessions'[t].status = "running" PROVE t = s
      <4>1. SUFFICES ASSUME t # s PROVE FALSE
        OBVIOUS
      <4>2. t \in SessionIds
        BY <1>0, <4>1 DEF SessionIds
      <4> QED
        BY <1>5, <2>1, <3>1, <4>2 DEF Running
    <3>2. SessionIds' = 1..s /\ SessionIds \subseteq 1..s
      BY <1>0, <2>1 DEF SessionIds
    <3>3. sessions' \in Seq(SessionRecords(posted'))
      BY <1>3, <2>1 DEF streamVars
    <3>4. /\ orphans' \subseteq SessionIds' /\ purge' \subseteq SessionIds'
          /\ doomed' \subseteq SessionIds' /\ gone' \subseteq doomed'
          /\ marked' \subseteq SessionIds'
      BY <1>0, <1>3, <3>2 DEF deletionVars
    <3> QED
      BY <3>1, <3>2, <3>3, <3>4 DEF SessionTypes
  <2>4. WorkTypes'
    <3>1. TablesGrow /\ Len(jobs') \in Nat /\ Len(sessions') \in Nat /\ posted' \in Nat
      BY <1>0, <1>3, <2>1 DEF TablesGrow, streamVars, SessionIds
    <3>2. s \in Nat
      BY <1>0
    <3>3. sessions'[s].trigger = jobs'[work[w].job].trigger
      BY <1>3, <2>1 DEF NewSession
    <3>4. work' = [work EXCEPT ![w].pc = "hydrate", ![w].session = s]
      BY <1>5
    <3>5. s # 0 /\ s <= Len(sessions')
      BY <1>0, <2>1
    <3> HIDE DEF s
    <3>6. Turned(w, "hydrate", s, work[w].last, work[w].draft)
      BY <1>0, <3>2, <3>4 DEF Turned, WorkRecords, InTurn
    <3>7. work[w].last \in Nat /\ work[w].draft \in Nat /\ work[w].last <= posted'
          /\ work[w].draft <= posted'
      BY <1>0, <1>2, <1>3 DEF streamVars
    <3> QED
      BY <1>1, <3>1, <3>2, <3>3, <3>5, <3>6, <3>7, WorkTurned DEF InTurn
  <2> QED
    BY <2>2, <2>3, <2>4 DEF AgentTypes
<1> QED
  BY <1>4, <1>5 DEF InsertRunningOrSkip

(* One job changes; an open one has an attempt left. *)
LEMMA OneJobTyped ==
  ASSUME AgentTypes, NEW j \in 1..Len(jobs), jobs' \in Seq(JobRecords), OnlyJob(j),
         jobs'[j].state \in {"waiting", "claimed"} => jobs'[j].fails < MaxAttempts,
         UNCHANGED <<streamVars, sessions, orphans, deletionVars, answered>>,
         excused' \in 0..posted, holes' \subseteq Holes, troubles' \in 0..MaxTroubles
  PROVE  /\ StreamTypes' /\ JobTypes' /\ SessionTypes'
         /\ TablesGrow /\ Len(jobs') \in Nat /\ Len(sessions') \in Nat /\ posted' \in Nat
<1>1. StreamTypes'
  BY DEF AgentTypes, StreamTypes, streamVars, deletionVars, Holes
<1>2. JobTypes'
  <2>1. \A i \in 1..Len(jobs) : jobs'[i].trigger = jobs[i].trigger
    BY DEF OnlyJob
  <2>2. \A i \in 1..Len(jobs) : jobs'[i].trigger <= heard'
    BY <2>1 DEF AgentTypes, JobTypes, streamVars
  <2>3. \A i \in 1..Len(jobs) :
          jobs'[i].state \in {"waiting", "claimed"} => jobs'[i].fails < MaxAttempts
    BY DEF AgentTypes, JobTypes, OnlyJob
  <2> QED
    BY <2>2, <2>3 DEF JobTypes, OnlyJob
<1>3. SessionTypes'
  BY DEF AgentTypes, SessionTypes, streamVars, deletionVars, SessionIds
<1>4. TablesGrow /\ Len(jobs') \in Nat /\ Len(sessions') \in Nat /\ posted' \in Nat
  BY LengthsAreNatural DEF TablesGrow, OnlyJob, streamVars
<1> QED
  BY <1>1, <1>2, <1>3, <1>4

LEMMA ClaimTypes ==
  ASSUME AgentTypes, NEW w \in Workers, NEW j \in DOMAIN jobs, Claim(w, j)
  PROVE  AgentTypes'
<1>0. /\ work \in [Workers -> WorkRecords] /\ posted \in Nat /\ jobs \in Seq(JobRecords)
      /\ excused \in 0..posted /\ holes \subseteq Holes /\ troubles \in 0..MaxTroubles
      /\ Len(jobs) \in Nat
  BY LengthsAreNatural DEF AgentTypes, WorkTypes, JobTypes, StreamTypes, Holes
<1>1. j \in 1..Len(jobs) /\ jobs[j].state = "waiting"
  BY <1>0, LenProperties DEF Claim
<1>2. jobs[j].fails \in 0..MaxAttempts /\ jobs[j].fails < MaxAttempts
  BY <1>1, JobFacts DEF AgentTypes, JobTypes
<1>3. jobs' = Held(j, "claimed", w)
  BY DEF Claim, Held
<1>4. /\ jobs' \in Seq(JobRecords) /\ OnlyJob(j) /\ jobs'[j].state = "claimed"
      /\ jobs'[j].fails = jobs[j].fails
  BY <1>0, <1>1, <1>3, JobHeld
<1>5. /\ StreamTypes' /\ JobTypes' /\ SessionTypes'
      /\ TablesGrow /\ Len(jobs') \in Nat /\ Len(sessions') \in Nat /\ posted' \in Nat
  BY <1>0, <1>1, <1>2, <1>4, OneJobTyped DEF Claim, historyVars
<1>6. WorkTypes'
  <2>1. PICK a \in Nat : a = jobs[j].fails /\ a < MaxAttempts
    BY <1>2, AttemptsAssumption
  <2> DEFINE r == [Idle EXCEPT !.pc = "setup", !.job = j, !.last = posted, !.attempt = a]
  <2>2. work' = [work EXCEPT ![w] = r]
    BY <2>1 DEF Claim
  <2>3. /\ r \in WorkRecords /\ r.pc = "setup" /\ r.job = j /\ r.session = 0
        /\ r.attempt = a /\ r.last = posted /\ r.draft = 0
    <3>1. j \in Nat
      BY <1>0, <1>1
    <3> QED
      BY <1>0, <2>1, <3>1, Zenon DEF WorkRecords, Idle
  <2> HIDE DEF r
  <2>4. /\ work' \in [Workers -> WorkRecords] /\ work'[w] = r
        /\ \A v \in Workers : v # w => work'[v] = work[v]
    BY <1>0, <2>2, <2>3
  <2>5. ASSUME NEW v \in Workers, v # w PROVE RecordShape(work[v])'
    <3>1. work[v] \in WorkRecords /\ RecordShape(work[v]) /\ work'[v] = work[v]
      BY <2>4, <2>5 DEF AgentTypes, WorkTypes
    <3> QED
      BY <1>5, <3>1, ShapeFrame DEF RecordShape
  <2>6. RecordShape(work[w])'
    <3>1. j # 0 /\ j <= Len(jobs') /\ 0 <= Len(sessions') /\ posted <= posted' /\ 0 <= posted'
      BY <1>0, <1>1, <1>4, <1>5 DEF OnlyJob, TablesGrow
    <3> QED
      BY <2>1, <2>3, <2>4, <3>1 DEF RecordShape, InTurn
  <2> QED
    BY <2>4, <2>5, <2>6 DEF WorkTypes
<1> QED
  BY <1>5, <1>6 DEF AgentTypes

LEMMA ClaimLapsesTypes ==
  ASSUME AgentTypes, NEW j \in DOMAIN jobs, ClaimLapses(j)
  PROVE  AgentTypes'
<1>0. /\ posted \in Nat /\ jobs \in Seq(JobRecords)
      /\ excused \in 0..posted /\ holes \subseteq Holes /\ troubles \in 0..MaxTroubles
  BY LengthsAreNatural DEF AgentTypes, JobTypes, StreamTypes, Holes
<1>1. j \in 1..Len(jobs) /\ jobs[j].state = "claimed"
  BY <1>0, LenProperties DEF ClaimLapses
<1>2. jobs[j].fails < MaxAttempts
  BY <1>1 DEF AgentTypes, JobTypes
<1>3. jobs' = Held(j, "waiting", None)
  BY DEF ClaimLapses, Held
<1>4. /\ jobs' \in Seq(JobRecords) /\ OnlyJob(j) /\ jobs'[j].state = "waiting"
      /\ jobs'[j].fails = jobs[j].fails
  BY <1>0, <1>1, <1>3, JobHeld
<1>5. holes' \subseteq Holes /\ troubles' \in 0..MaxTroubles
  BY <1>0, FaultCounted DEF ClaimLapses, AgentTypes, FaultKinds, Holes
<1>6. /\ StreamTypes' /\ JobTypes' /\ SessionTypes'
      /\ TablesGrow /\ Len(jobs') \in Nat /\ Len(sessions') \in Nat /\ posted' \in Nat
  BY <1>0, <1>1, <1>2, <1>4, <1>5, OneJobTyped DEF ClaimLapses
<1>7. WorkTypes'
  BY <1>6, WorkStays DEF ClaimLapses
<1> QED
  BY <1>6, <1>7 DEF AgentTypes

(* The queue takes a report only while the worker holds the claim. *)
LEMMA ReportEffect ==
  ASSUME AgentTypes, NEW w \in Workers, Report(w)
  PROVE  LET j == work[w].job
         IN  /\ j \in 1..Len(jobs)
             /\ \/ ~Holds(w) /\ UNCHANGED <<jobs, excused>>
                \/ /\ Holds(w) /\ jobs' \in Seq(JobRecords) /\ OnlyJob(j)
                   /\ jobs'[j].state = Outcome(w)
                   /\ Outcome(w) = "waiting" => jobs'[j].fails < MaxAttempts
<1> DEFINE j == work[w].job
           f == IF work[w].throws THEN work[w].attempt + 1 ELSE jobs[j].fails
<1>1. j \in 1..Len(jobs) /\ work[w].attempt \in Nat /\ work[w].attempt < MaxAttempts
  BY RecordFacts DEF Report, Busy, At
<1>2. f \in 0..MaxAttempts
  <2>1. jobs[j].fails \in 0..MaxAttempts
    BY <1>1, JobFacts
  <2>2. work[w].attempt + 1 \in 0..MaxAttempts
    BY <1>1, AttemptsAssumption
  <2> QED
    BY <2>1, <2>2
<1>3. /\ Outcome(w) \in {"waiting", "done", "dead"}
      /\ Outcome(w) = "waiting" => f < MaxAttempts
  BY <1>1, AttemptsAssumption DEF Outcome
<1>4. CASE ~Holds(w)
  BY <1>1, <1>4 DEF Report
<1>5. CASE Holds(w)
  <2>1. jobs' = [jobs EXCEPT ![j] =
                   [@ EXCEPT !.state = Outcome(w), !.holder = None, !.fails = f]]
    BY <1>5 DEF Report
  <2>2. jobs \in Seq(JobRecords)
    BY DEF AgentTypes, JobTypes
  <2> HIDE DEF f, j
  <2>3. /\ jobs' \in Seq(JobRecords) /\ OnlyJob(j)
        /\ jobs'[j].state = Outcome(w) /\ jobs'[j].fails = f
    BY <1>1, <1>2, <1>3, <2>1, <2>2, JobReported
  <2> QED
    BY <1>1, <1>3, <1>5, <2>3 DEF j
<1> QED
  BY <1>4, <1>5

LEMMA ReportTypes ==
  ASSUME AgentTypes, NEW w \in Workers, Report(w)
  PROVE  AgentTypes'
<1> DEFINE j == work[w].job
<1>0. /\ posted \in Nat /\ posted \in 0..posted
      /\ excused \in 0..posted /\ holes \subseteq Holes /\ troubles \in 0..MaxTroubles
  BY LengthsAreNatural DEF AgentTypes, StreamTypes, Holes
<1>1. /\ UNCHANGED <<streamVars, sessions, orphans, deletionVars, answered, holes, troubles>>
      /\ work' = [work EXCEPT ![w] = Idle]
      /\ excused' \in 0..posted
  BY <1>0 DEF Report
<1>2. /\ StreamTypes' /\ JobTypes' /\ SessionTypes'
      /\ TablesGrow /\ Len(jobs') \in Nat /\ Len(sessions') \in Nat /\ posted' \in Nat
  <2>1. CASE UNCHANGED jobs
    BY <1>0, <1>1, <2>1, StillTyped, SameTables DEF streamVars
  <2>2. CASE /\ jobs' \in Seq(JobRecords) /\ OnlyJob(j)
             /\ jobs'[j].state = Outcome(w)
             /\ Outcome(w) = "waiting" => jobs'[j].fails < MaxAttempts
    <3>1. jobs'[j].state \in {"waiting", "claimed"} => jobs'[j].fails < MaxAttempts
      BY <2>2 DEF Outcome
    <3>2. j \in 1..Len(jobs)
      BY ReportEffect
    <3> QED
      BY <1>0, <1>1, <2>2, <3>1, <3>2, OneJobTyped
  <2> QED
    BY <2>1, <2>2, ReportEffect
<1>3. WorkTypes'
  BY <1>1, <1>2, WorkEnds
<1> QED
  BY <1>2, <1>3 DEF AgentTypes

LEMMA UnseenTypes ==
  ASSUME AgentTypes, NEW w \in Workers, CheckForUnseen(w)
  PROVE  AgentTypes'
<1> DEFINE j == work[w].job
<1>0. /\ posted \in Nat /\ heard \in Nat /\ Len(jobs) \in Nat /\ Len(sessions) \in Nat
      /\ jobs \in Seq(JobRecords)
      /\ excused \in 0..posted /\ holes \subseteq Holes /\ troubles \in 0..MaxTroubles
  BY LengthsAreNatural DEF AgentTypes, JobTypes, StreamTypes, Holes
<1>1. Busy(w) /\ j \in 1..Len(jobs) /\ Ends(w, FALSE)
  BY RecordFacts DEF CheckForUnseen, Busy, At
<1>2. /\ UNCHANGED <<streamVars, sessions, orphans, deletionVars, answered, excused, troubles>>
      /\ holes' \subseteq Holes
  BY <1>0 DEF CheckForUnseen, Holes
<1>3. CASE UNCHANGED jobs
  <2>1. StreamTypes' /\ JobTypes' /\ SessionTypes'
    BY <1>0, <1>2, <1>3, StillTyped
  <2>2. WorkTypes'
    BY <1>1, <1>2, <1>3, SameTables, EndsTyped DEF streamVars
  <2> QED
    BY <2>1, <2>2 DEF AgentTypes
<1>4. CASE jobs' = Enqueued(-j)
  <2>0. -j \in Int /\ -j <= heard
    BY <1>0, <1>1
  <2>1. /\ jobs' \in Seq(JobRecords) /\ Len(jobs') = Len(jobs) + 1
        /\ \A i \in 1..Len(jobs) : jobs'[i] = jobs[i]
        /\ jobs'[Len(jobs) + 1] =
             [trigger |-> -j, state |-> "waiting", fails |-> 0, holder |-> None]
    BY <1>0, <1>4, <2>0, JobSent
  <2>2. StreamTypes'
    BY <1>2 DEF AgentTypes, StreamTypes, streamVars, deletionVars, Holes
  <2>3. SessionTypes'
    BY <1>2 DEF AgentTypes, SessionTypes, streamVars, deletionVars, SessionIds
  <2>4. JobTypes'
    <3>1. ASSUME NEW i \in 1..Len(jobs')
          PROVE  /\ jobs'[i].trigger <= heard
                 /\ jobs'[i].state \in {"waiting", "claimed"} => jobs'[i].fails < MaxAttempts
      <4>1. CASE i = Len(jobs) + 1
        BY <2>0, <2>1, <4>1, AttemptsAssumption
      <4>2. CASE i # Len(jobs) + 1
        <5>1. i \in 1..Len(jobs) /\ jobs'[i] = jobs[i]
          BY <1>0, <2>1, <4>2
        <5> QED
          BY <5>1 DEF AgentTypes, JobTypes
      <4> QED
        BY <4>1, <4>2
    <3> QED
      BY <1>2, <2>1, <3>1 DEF JobTypes, streamVars
  <2>5. WorkTypes'
    <3>1. TablesGrow /\ Len(jobs') \in Nat /\ Len(sessions') \in Nat /\ posted' \in Nat
      BY <1>0, <1>2, <2>1 DEF TablesGrow, streamVars
    <3> QED
      BY <1>1, <3>1, EndsTyped
  <2> QED
    BY <2>2, <2>3, <2>4, <2>5 DEF AgentTypes
<1> QED
  BY <1>3, <1>4 DEF CheckForUnseen

(* Orphaned sessions and deleted messages. *)
LEMMA SweepTypes ==
  ASSUME AgentTypes,
         \/ FindOrphaned
         \/ \E s \in orphans : FailOrphan(s)
         \/ \E m \in Messages : DeleteMessage(m) \/ ListSessions(m) \/ DeletionThrows(m)
         \/ \E s \in doomed : MarkDeleted(s)
         \/ \E s \in purge : PurgeReplies(s) \/ PurgeFails(s)
  PROVE  AgentTypes'
<1>0. /\ posted \in Nat /\ posted \in 0..posted /\ Len(sessions) \in Nat
      /\ deletion \in [Messages -> {"no", "asked", "listed", "done"}]
      /\ answered \in 0..posted /\ excused \in 0..posted
      /\ holes \subseteq Holes /\ troubles \in 0..MaxTroubles
      /\ sessions \in Seq(SessionRecords(posted))
      /\ orphans \subseteq SessionIds /\ purge \subseteq SessionIds
      /\ doomed \subseteq SessionIds /\ gone \subseteq doomed /\ marked \subseteq SessionIds
  BY LengthsAreNatural DEF AgentTypes, StreamTypes, SessionTypes, Holes
<1> DEFINE Rest == /\ UNCHANGED <<streamVars, jobs, work>>
                   /\ deletion' \in [Messages -> {"no", "asked", "listed", "done"}]
                   /\ orphans' \subseteq SessionIds /\ purge' \subseteq SessionIds
                   /\ doomed' \subseteq SessionIds /\ gone' \subseteq doomed'
                   /\ marked' \subseteq SessionIds
                   /\ answered' \in 0..posted /\ excused' \in 0..posted
                   /\ holes' \subseteq Holes /\ troubles' \in 0..MaxTroubles
<1>1. ASSUME Rest, NEW s \in SessionIds, sessions' \in Seq(SessionRecords(posted)),
             OnlySession(s), sessions'[s].status = "running" => sessions[s].status = "running"
      PROVE  AgentTypes'
  <2>1. StreamTypes' /\ JobTypes' /\ SessionTypes'
    BY <1>1, TouchTyped
  <2>2. WorkTypes'
    BY <1>1, TouchGrows, WorkStays DEF streamVars
  <2> QED
    BY <2>1, <2>2 DEF AgentTypes
<1>2. ASSUME Rest, UNCHANGED sessions
      PROVE  AgentTypes'
  <2>1. StreamTypes' /\ JobTypes'
    BY <1>2 DEF AgentTypes, StreamTypes, JobTypes, streamVars, Holes
  <2>2. SessionTypes'
    BY <1>2 DEF AgentTypes, SessionTypes, streamVars, SessionIds
  <2>3. WorkTypes'
    BY <1>2, SameTables, WorkStays DEF streamVars
  <2> QED
    BY <2>1, <2>2, <2>3 DEF AgentTypes
<1>3. CASE FindOrphaned
  <2>1. troubles' \in 0..MaxTroubles
    BY <1>0, <1>3, FaultCounted DEF FindOrphaned, AgentTypes, FaultKinds
  <2>2. orphans' \subseteq SessionIds
    BY <1>3 DEF FindOrphaned, Running
  <2> QED
    BY <1>0, <1>2, <1>3, <2>1, <2>2 DEF FindOrphaned, deletionVars, historyVars
<1>4. ASSUME NEW s \in orphans, FailOrphan(s) PROVE AgentTypes'
  <2>1. Rest
    BY <1>0, <1>4 DEF FailOrphan, deletionVars
  <2>2. CASE UNCHANGED sessions
    BY <1>2, <2>1, <2>2
  <2>3. CASE SetStatus(s, "failed", "failed")
    <3>1. s \in SessionIds
      BY <1>0
    <3>2. /\ sessions' \in Seq(SessionRecords(posted)) /\ OnlySession(s)
          /\ sessions'[s].status = "failed"
      BY <1>0, <2>3, <3>1, StatusSet
    <3> QED
      BY <1>1, <2>1, <3>1, <3>2
  <2> QED
    BY <1>4, <2>2, <2>3 DEF FailOrphan
<1>5. ASSUME NEW m \in Messages, DeleteMessage(m) PROVE AgentTypes'
  <2>1. troubles' \in 0..MaxTroubles
    BY <1>5, FaultCounted DEF DeleteMessage, AgentTypes, FaultKinds
  <2>2. deletion' \in [Messages -> {"no", "asked", "listed", "done"}]
    BY <1>0, <1>5 DEF DeleteMessage
  <2> QED
    BY <1>0, <1>2, <1>5, <2>1, <2>2 DEF DeleteMessage, historyVars
<1>6. ASSUME NEW m \in Messages, ListSessions(m) PROVE AgentTypes'
  <2>1. deletion' \in [Messages -> {"no", "asked", "listed", "done"}]
    BY <1>0, <1>6 DEF ListSessions
  <2>2. doomed' \subseteq SessionIds /\ gone' \subseteq doomed'
    BY <1>6 DEF ListSessions
  <2> QED
    BY <1>0, <1>2, <1>6, <2>1, <2>2 DEF ListSessions, historyVars
<1>7. ASSUME NEW m \in Messages, DeletionThrows(m) PROVE AgentTypes'
  <2>1. troubles' \in 0..MaxTroubles
    BY <1>7, FaultCounted DEF DeletionThrows, AgentTypes, FaultKinds
  <2>2. deletion' \in [Messages -> {"no", "asked", "listed", "done"}]
    BY <1>0, <1>7 DEF DeletionThrows
  <2> QED
    BY <1>0, <1>2, <1>7, <2>1, <2>2 DEF DeletionThrows, historyVars
<1>8. ASSUME NEW s \in doomed, MarkDeleted(s) PROVE AgentTypes'
  <2>1. s \in SessionIds
    BY <1>0
  <2>2. /\ UNCHANGED <<streamVars, jobs, work, orphans, deletion, answered, excused, troubles>>
        /\ doomed' = doomed \ {s} /\ gone' = gone \ {s} /\ purge' = {s}
    BY <1>8 DEF MarkDeleted
  <2>3. CASE UNCHANGED <<sessions, marked, holes>>
    BY <1>0, <1>2, <2>1, <2>2, <2>3
  <2>4. CASE /\ SetStatus(s, "deleted", "deleted") /\ marked' = marked \cup {s}
             /\ holes' \subseteq Holes
    <3>1. /\ sessions' \in Seq(SessionRecords(posted)) /\ OnlySession(s)
          /\ sessions'[s].status = "deleted"
      BY <1>0, <2>1, <2>4, StatusSet
    <3>2. Rest
      BY <1>0, <2>1, <2>2, <2>4
    <3> QED
      BY <1>1, <2>1, <3>1, <3>2
  <2>5. \/ UNCHANGED <<sessions, marked, holes>>
        \/ /\ SetStatus(s, "deleted", "deleted") /\ marked' = marked \cup {s}
           /\ holes' \subseteq Holes
    BY <1>0, <1>8 DEF MarkDeleted, Holes
  <2> QED
    BY <2>3, <2>4, <2>5
<1>9. ASSUME NEW s \in purge, NextDoomed(s)
      PROVE  deletion' \in [Messages -> {"no", "asked", "listed", "done"}] /\ purge' = {}
  BY <1>0, <1>9 DEF NextDoomed
<1>10. ASSUME NEW s \in purge, PurgeReplies(s) PROVE AgentTypes'
  <2>1. s \in SessionIds
    BY <1>0
  <2>2. sessions' = [sessions EXCEPT ![s].replied = FALSE]
    BY <1>10 DEF PurgeReplies
  <2>3. /\ sessions' \in Seq(SessionRecords(posted)) /\ OnlySession(s)
        /\ sessions'[s].status = sessions[s].status
    BY <1>0, <2>1, <2>2, RepliedSet
  <2>4. Rest
    BY <1>0, <1>9, <1>10 DEF PurgeReplies, historyVars
  <2> QED
    BY <1>1, <2>1, <2>3, <2>4
<1>11. ASSUME NEW s \in purge, PurgeFails(s) PROVE AgentTypes'
  <2>1. troubles' \in 0..MaxTroubles
    BY <1>11, FaultCounted DEF PurgeFails, AgentTypes, FaultKinds
  <2>2. holes' \subseteq Holes
    BY <1>0, <1>11 DEF PurgeFails, Holes
  <2>3. Rest
    BY <1>0, <1>9, <1>11, <2>1, <2>2 DEF PurgeFails
  <2> QED
    BY <1>2, <1>11, <2>3 DEF PurgeFails
<1> QED
  BY <1>3, <1>4, <1>5, <1>6, <1>7, <1>8, <1>10, <1>11

LEMMA InitTypes == Init => AgentTypes
<1> SUFFICES ASSUME Init PROVE AgentTypes
  OBVIOUS
<1>1. StreamTypes
  <2>1. dispatching \in BOOLEAN /\ ~dispatching
    BY DEF Init
  <2>2. deletion \in [Messages -> {"no", "asked", "listed", "done"}]
    BY DEF Init
  <2>3. posted \in 0..MaxMessages /\ troubles \in 0..MaxTroubles
    BY TroublesAssumption DEF Init
  <2>4. heard \in 0..posted /\ answered \in 0..posted /\ excused \in 0..posted
    BY DEF Init
  <2> QED
    BY <2>1, <2>2, <2>3, <2>4 DEF Init, StreamTypes
<1>2. JobTypes
  BY DEF Init, JobTypes
<1>3. SessionTypes
  BY DEF Init, SessionTypes, SessionIds
<1>4. WorkTypes
  <2>1. Idle \in WorkRecords
    BY DEF Idle, WorkRecords
  <2>2. RecordShape(Idle)
    BY AttemptsAssumption DEF RecordShape, Idle, Init, InTurn
  <2> QED
    BY <2>1, <2>2 DEF Init, WorkTypes
<1> QED
  BY <1>1, <1>2, <1>3, <1>4 DEF AgentTypes

LEMMA TypesStep == AgentTypes /\ [Next]_vars => AgentTypes'
<1> SUFFICES ASSUME AgentTypes, [Next]_vars PROVE AgentTypes'
  OBVIOUS
<1>1. CASE UNCHANGED vars
  <2>1. UNCHANGED <<streamVars, jobs, sessions, work, orphans, deletionVars, historyVars, troubles>>
    BY <1>1 DEF vars
  <2>2. StreamTypes' /\ JobTypes'
    BY <2>1 DEF AgentTypes, StreamTypes, JobTypes, streamVars, deletionVars, historyVars
  <2>3. SessionTypes'
    BY <2>1 DEF AgentTypes, SessionTypes, streamVars, deletionVars, SessionIds
  <2>4. WorkTypes'
    BY <2>1, SameTables, WorkStays DEF streamVars
  <2> QED
    BY <2>2, <2>3, <2>4 DEF AgentTypes
<1>2. CASE Post \/ ListenerDecides \/ ListenerSends
  BY <1>2, ListenerTypes
<1>3. ASSUME NEW w \in Workers, WorkerStep(w) PROVE AgentTypes'
  BY <1>3, QuietTypes, TurnTypes, InsertTypes, UnseenTypes, ReportTypes DEF WorkerStep
<1>4. ASSUME NEW w \in Workers, WorkerFails(w) PROVE AgentTypes'
  BY <1>4, QuietTypes, TurnTypes DEF WorkerFails
<1>5. ASSUME NEW w \in Workers, NEW j \in DOMAIN jobs, Claim(w, j) PROVE AgentTypes'
  BY <1>5, ClaimTypes
<1>6. ASSUME NEW j \in DOMAIN jobs, ClaimLapses(j) PROVE AgentTypes'
  BY <1>6, ClaimLapsesTypes
<1>7. CASE \/ FindOrphaned
           \/ \E s \in orphans : FailOrphan(s)
           \/ \E m \in Messages : DeleteMessage(m) \/ ListSessions(m) \/ DeletionThrows(m)
           \/ \E s \in doomed : MarkDeleted(s)
           \/ \E s \in purge : PurgeReplies(s) \/ PurgeFails(s)
  BY <1>7, SweepTypes
<1> QED
  BY <1>1, <1>2, <1>3, <1>4, <1>5, <1>6, <1>7 DEF Next

LEMMA AgentTypesHold == Spec => []AgentTypes
BY InitTypes, TypesStep, PTL DEF Spec

(* The partial unique index keeps one running session. *)
LEMMA AtMostOneRuns == AgentTypes => Cardinality(Running) <= 1
<1> SUFFICES ASSUME AgentTypes PROVE Cardinality(Running) <= 1
  OBVIOUS
<1>1. CASE Running = {}
  BY <1>1, FS_EmptySet
<1>2. CASE Running # {}
  <2>1. PICK s : s \in Running
    BY <1>2
  <2>2. Running = {s}
    BY <2>1 DEF Running, AgentTypes, SessionTypes
  <2> QED
    BY <2>2, FS_Singleton
<1> QED
  BY <1>1, <1>2

(***************************************************************************)
(* The variables keep their types, and never do two sessions of the        *)
(* persona run in the stream: Resume and InsertRunningOrSkip, the only     *)
(* writers of "running", are held back by the partial unique index.        *)
(***************************************************************************)
THEOREM SessionsTyped == Spec => []TypeOK
<1>1. AgentTypes => TypeOK
  <2> SUFFICES ASSUME AgentTypes PROVE TypeOK
    OBVIOUS
  <2>1. \A w \in Workers :
          /\ work[w].job \in 0..Len(jobs) /\ work[w].session \in 0..Len(sessions)
          /\ work[w].last \in 0..posted /\ work[w].draft \in 0..posted
          /\ work[w].attempt \in 0..MaxAttempts
    <3> SUFFICES ASSUME NEW w \in Workers
                 PROVE  /\ work[w].job \in 0..Len(jobs) /\ work[w].session \in 0..Len(sessions)
                        /\ work[w].last \in 0..posted /\ work[w].draft \in 0..posted
                        /\ work[w].attempt \in 0..MaxAttempts
      OBVIOUS
    <3>1. work[w] \in WorkRecords /\ RecordShape(work[w])
      BY DEF AgentTypes, WorkTypes
    <3>2. /\ work[w].job \in Nat /\ work[w].session \in Nat /\ work[w].last \in Nat
          /\ work[w].draft \in Nat /\ work[w].attempt \in Nat
      BY <3>1 DEF WorkRecords
    <3> QED
      BY <3>1, <3>2, LengthsAreNatural, AttemptsAssumption DEF RecordShape
  <2>2. jobs \in Seq([trigger : Int, state : {"waiting", "claimed", "done", "dead"},
                      fails : 0..MaxAttempts, holder : Workers \cup {None}])
    BY DEF AgentTypes, JobTypes, JobRecords
  <2>3. sessions \in Seq([trigger : Int, status : {"running", "completed", "failed", "deleted"},
                          lastSeen : 0..posted, replied : BOOLEAN,
                          event : {"started", "interrupted", "completed", "failed", "deleted"}])
    BY DEF AgentTypes, SessionTypes, SessionRecords
  <2>4. /\ orphans \subseteq SessionIds /\ purge \subseteq SessionIds
        /\ doomed \subseteq SessionIds /\ gone \subseteq doomed /\ marked \subseteq SessionIds
    BY DEF AgentTypes, SessionTypes
  <2> QED
    BY <2>1, <2>2, <2>3, <2>4, AtMostOneRuns DEF TypeOK, AgentTypes, StreamTypes
<1> QED
  BY <1>1, AgentTypesHold, PTL

-----------------------------------------------------------------------------
(* What each step of a worker does, as far as sessions and claims go.        *)

(* Worker w goes on at pc with session s, and the other workers stay. *)
Moved(w, pc, s) ==
  /\ \A v \in Workers : v # w => work'[v] = work[v]
  /\ work'[w].pc = pc /\ work'[w].session = s
  /\ work'[w].job = work[w].job /\ work'[w].attempt = work[w].attempt

LEMMA GotoMoves ==
  ASSUME AgentTypes, NEW w \in Workers, NEW pc \in InTurn, Goto(w, pc)
  PROVE  Moved(w, pc, work[w].session)
BY GotoTurns DEF Turned, Moved, AgentTypes, WorkTypes

LEMMA ThrowsMoves ==
  ASSUME AgentTypes, NEW w \in Workers, NEW b \in BOOLEAN, Throws(w, b)
  PROVE  Moved(w, "threw", work[w].session)
BY ThrowsTurns DEF Turned, Moved, AgentTypes, WorkTypes

LEMMA EndsMoves ==
  ASSUME AgentTypes, NEW w \in Workers, NEW b \in BOOLEAN, Ends(w, b)
  PROVE  Moved(w, "report", 0) /\ work'[w].throws = b
BY EndsTurns DEF Turned, Moved, AgentTypes, WorkTypes

LEMMA NextCallMoves ==
  ASSUME AgentTypes, NEW w \in Workers, NEW last \in 0..posted, NextCall(w, last)
  PROVE  Moved(w, "threw", work[w].session) \/ Moved(w, "compose", work[w].session)
BY NextCallTurns DEF Turned, Moved

(* The turn goes on, and has not come to the insert of its reply. *)
GoesOn(w) == \E pc \in InTurn \ {"commit"} : Moved(w, pc, work[w].session)

(* A turn goes on without a change of its session's status. *)
LEMMA TurnGoesOn ==
  ASSUME AgentTypes, NEW w \in Workers,
         \/ Hydrate(w) \/ Stop(w) \/ TurnThrows(w) \/ CheckNewMessages(w) \/ CreateMessage(w)
  PROVE  /\ work[w].pc \in InTurn /\ GoesOn(w)
         /\ UNCHANGED <<jobs, deletionVars, holes>>
         /\ \/ UNCHANGED sessions
            \/ /\ OnlySession(work[w].session)
               /\ sessions'[work[w].session].status = sessions[work[w].session].status
               /\ sessions'[work[w].session].event = sessions[work[w].session].event
               /\ \/ sessions'[work[w].session].replied = sessions[work[w].session].replied
                  \/ At(w, "commit")
<1> DEFINE s == work[w].session
<1>0. /\ work \in [Workers -> WorkRecords] /\ posted \in Nat /\ posted \in 0..posted
      /\ sessions \in Seq(SessionRecords(posted))
  BY LengthsAreNatural DEF AgentTypes, WorkTypes, SessionTypes
<1>r. work[w].pc \in InTurn => s \in SessionIds
  BY RecordFacts
<1>p. {"threw", "compose", "complete", "send"} \subseteq InTurn \ {"commit"}
  BY DEF InTurn
<1>1. CASE Hydrate(w)
  <2>1. NextCall(w, work[w].last) /\ work[w].last \in 0..posted
    BY <1>1, RecordFacts DEF Hydrate
  <2>2. GoesOn(w)
    BY <1>p, <2>1, NextCallMoves DEF GoesOn
  <2> QED
    BY <1>1, <2>2 DEF Hydrate, At, InTurn, historyVars
<1>2. CASE Stop(w)
  <2>1. GoesOn(w)
    BY <1>2, <1>p, GotoMoves DEF GoesOn, Stop
  <2> QED
    BY <1>2, <2>1 DEF Stop, At, InTurn
<1>3. CASE TurnThrows(w)
  <2>1. GoesOn(w)
    BY <1>3, <1>p, ThrowsMoves DEF GoesOn, TurnThrows
  <2> QED
    BY <1>3, <2>1 DEF TurnThrows, InTurn, historyVars
<1>4. CASE CheckNewMessages(w)
  <2>1. work[w].pc \in InTurn /\ s \in SessionIds /\ UNCHANGED <<jobs, deletionVars, holes>>
    BY <1>4, <1>r DEF CheckNewMessages, At, InTurn
  <2>2. CASE Goto(w, "send") /\ UNCHANGED sessions
    <3>1. GoesOn(w)
      BY <1>p, <2>2, GotoMoves DEF GoesOn
    <3> QED
      BY <2>1, <2>2, <3>1
  <2>3. CASE sessions' = [sessions EXCEPT ![s].lastSeen = posted]
             /\ (NextCall(w, posted)
                 \/ work' = [work EXCEPT ![w].pc = "send", ![w].last = posted])
    <3>1. /\ OnlySession(s) /\ sessions'[s].status = sessions[s].status
          /\ sessions'[s].event = sessions[s].event
          /\ sessions'[s].replied = sessions[s].replied
      BY <1>0, <2>1, <2>3, SeenSet
    <3>2. CASE NextCall(w, posted)
      <4>1. GoesOn(w)
        BY <1>0, <1>p, <3>2, NextCallMoves DEF GoesOn
      <4> QED
        BY <2>1, <3>1, <4>1
    <3>3. CASE work' = [work EXCEPT ![w].pc = "send", ![w].last = posted]
      <4>1. Moved(w, "send", s)
        BY <1>0, <3>3 DEF Moved, WorkRecords
      <4>2. GoesOn(w)
        BY <1>p, <4>1 DEF GoesOn
      <4> QED
        BY <2>1, <3>1, <4>2
    <3> QED
      BY <2>3, <3>2, <3>3
  <2> QED
    BY <1>4, <2>2, <2>3 DEF CheckNewMessages
<1>5. CASE CreateMessage(w)
  <2>1. /\ work[w].pc \in InTurn /\ s \in SessionIds /\ UNCHANGED <<jobs, deletionVars, holes>>
        /\ sessions' = [sessions EXCEPT ![s].replied = TRUE] /\ At(w, "commit")
        /\ work' = [work EXCEPT ![w].pc = "complete", ![w].draft = 0]
    BY <1>5, <1>r DEF CreateMessage, At, InTurn
  <2>2. /\ OnlySession(s) /\ sessions'[s].status = sessions[s].status
        /\ sessions'[s].event = sessions[s].event
    BY <1>0, <2>1, RepliedSet
  <2>3. Moved(w, "complete", s)
    BY <1>0, <2>1 DEF Moved, WorkRecords
  <2>4. GoesOn(w)
    BY <1>p, <2>3 DEF GoesOn
  <2> QED
    BY <2>1, <2>2, <2>4
<1> QED
  BY <1>1, <1>2, <1>3, <1>4, <1>5

(* doSendMessage goes on to the insert only with a running session. *)
LEMMA SendMoves ==
  ASSUME AgentTypes, NEW w \in Workers, SendMessage(w)
  PROVE  /\ work[w].pc \in InTurn /\ UNCHANGED <<jobs, sessions, deletionVars, holes>>
         /\ \/ Session(w).status = "running" /\ Moved(w, "commit", work[w].session)
            \/ Moved(w, "threw", work[w].session)
<1>1. "commit" \in InTurn
  BY DEF InTurn
<1>2. \/ Session(w).status = "running" /\ Moved(w, "commit", work[w].session)
      \/ Moved(w, "threw", work[w].session)
  BY <1>1, GotoMoves, ThrowsMoves DEF SendMessage
<1> QED
  BY <1>2 DEF SendMessage, At, InTurn, historyVars

(* The turn completes its session. *)
LEMMA CompletionMoves ==
  ASSUME AgentTypes, NEW w \in Workers, CompleteSession(w) \/ CompletionFails(w)
  PROVE  /\ work[w].pc \in InTurn /\ UNCHANGED <<jobs, deletionVars, holes>>
         /\ \/ /\ UNCHANGED sessions /\ Moved(w, "report", 0)
            \/ /\ UNCHANGED sessions /\ GoesOn(w)
            \/ /\ OnlySession(work[w].session) /\ GoesOn(w)
               /\ sessions[work[w].session].status = "running"
               /\ sessions'[work[w].session].status = "completed"
<1> DEFINE s == work[w].session
<1>0. /\ work \in [Workers -> WorkRecords] /\ posted \in Nat
      /\ sessions \in Seq(SessionRecords(posted))
      /\ work[w].last \in 0..posted
  BY LengthsAreNatural, RecordFacts DEF AgentTypes, WorkTypes, SessionTypes
<1>1. work[w].pc \in InTurn /\ UNCHANGED <<jobs, deletionVars, holes>>
  BY DEF CompleteSession, CompletionFails, At, InTurn, historyVars
<1>2. s \in SessionIds
  BY <1>1, RecordFacts
<1>3. sessions' = Completed(w) => OnlySession(s) /\ sessions'[s].status = "completed"
  BY <1>0, <1>2, CompletedSet
<1>4. {"unseen", "threw"} \subseteq InTurn \ {"commit"}
  BY DEF InTurn
<1>5. CASE CompleteSession(w)
  <2>1. CASE Ends(w, FALSE) /\ UNCHANGED sessions
    BY <1>1, <2>1, EndsMoves
  <2>2. CASE /\ Session(w).status = "running" /\ sessions' = Completed(w)
             /\ Goto(w, "unseen")
    <3>1. GoesOn(w)
      BY <1>4, <2>2, GotoMoves DEF GoesOn
    <3> QED
      BY <1>1, <1>3, <2>2, <3>1 DEF Session
  <2> QED
    BY <1>5, <2>1, <2>2 DEF CompleteSession
<1>6. CASE CompletionFails(w)
  <2>1. GoesOn(w)
    BY <1>4, <1>6, ThrowsMoves DEF GoesOn, CompletionFails
  <2> QED
    BY <1>1, <1>3, <1>6, <2>1 DEF CompletionFails, Session
<1> QED
  BY <1>5, <1>6

(* The catch block ends the handler, or goes on to mark the session. *)
LEMMA CatchMoves ==
  ASSUME AgentTypes, NEW w \in Workers, Catch(w) \/ MarkFailedFails(w)
  PROVE  /\ work[w].pc \in InTurn /\ UNCHANGED <<jobs, sessions, deletionVars, holes>>
         /\ Moved(w, "report", 0) \/ GoesOn(w)
<1>1. "fail" \in InTurn \ {"commit"}
  BY DEF InTurn
<1>2. CASE Catch(w)
  <2>1. Moved(w, "report", 0) \/ GoesOn(w)
    BY <1>1, <1>2, EndsMoves, GotoMoves DEF Catch, GoesOn
  <2> QED
    BY <1>2, <2>1 DEF Catch, At, InTurn, historyVars
<1>3. CASE MarkFailedFails(w)
  <2>1. Moved(w, "report", 0)
    BY <1>3, RecordFacts, EndsMoves DEF MarkFailedFails
  <2> QED
    BY <1>3, <2>1 DEF MarkFailedFails, At, InTurn, historyVars
<1> QED
  BY <1>2, <1>3

(* A statement fails that nobody catches. *)
LEMMA HandlerThrowsMoves ==
  ASSUME AgentTypes, NEW w \in Workers, HandlerThrows(w)
  PROVE  /\ Busy(w) /\ UNCHANGED <<jobs, sessions, deletionVars>>
         /\ Moved(w, "report", 0)
         /\ \/ work[w].pc \in InTurn /\ holes' = holes
            \/ holes' = holes \cup {"unstarted"}
<1>1. Moved(w, "report", 0)
  BY EndsMoves DEF HandlerThrows
<1>2. work[w].pc \in {"setup", "start"} \/ work[w].pc \in InTurn
  BY DEF HandlerThrows, InTurn
<1>3. \/ work[w].pc \in InTurn /\ holes' = holes
      \/ holes' = holes \cup {"unstarted"}
  BY <1>2 DEF HandlerThrows, At
<1>4. Busy(w) /\ UNCHANGED <<jobs, sessions, deletionVars>>
  BY DEF HandlerThrows, Busy, At
<1> QED
  BY <1>1, <1>3, <1>4

(* The card says that the turn is retried only if the queue will do so. *)
LEMMA MarkFailedMoves ==
  ASSUME AgentTypes, NEW w \in Workers, MarkFailed(w)
  PROVE  LET s == work[w].session
         IN  /\ work[w].pc \in InTurn /\ UNCHANGED <<jobs, deletionVars>>
             /\ Moved(w, "report", 0)
             /\ "revived" \in holes' \/ sessions[s].status # "deleted"
             /\ OnlySession(s) /\ sessions'[s].status = "failed"
             /\ sessions'[s].event = "interrupted" =>
                  work'[w].throws /\ work[w].attempt + 1 < MaxAttempts
<1> DEFINE s == work[w].session
<1>1. work[w].pc \in InTurn /\ UNCHANGED <<jobs, deletionVars>>
  BY DEF MarkFailed, At, InTurn
<1>2. s \in SessionIds /\ sessions \in Seq(SessionRecords(posted))
  BY <1>1, RecordFacts DEF AgentTypes, SessionTypes
<1>3. Moved(w, "report", 0) /\ work'[w].throws = work[w].retryable
  BY RecordFacts, EndsMoves DEF MarkFailed
<1>4. PICK ev \in {"interrupted", "failed"} :
        /\ SetStatus(s, "failed", ev)
        /\ ev = "interrupted" => WillRetry(w)
  BY DEF MarkFailed
<1>5. OnlySession(s) /\ sessions'[s].status = "failed" /\ sessions'[s].event = ev
  BY <1>2, <1>4, StatusSet
<1>6. "revived" \in holes' \/ sessions[s].status # "deleted"
  BY DEF MarkFailed, Session
<1> QED
  BY <1>1, <1>3, <1>4, <1>5, <1>6 DEF WillRetry

(* A follow-up is sent to a trigger that has no job, or "repeated". *)
LEMMA UnseenMoves ==
  ASSUME AgentTypes, NEW w \in Workers, CheckForUnseen(w)
  PROVE  /\ work[w].pc \in InTurn /\ UNCHANGED <<sessions, deletionVars, heard>>
         /\ Moved(w, "report", 0)
         /\ \/ UNCHANGED <<jobs, holes>>
            \/ jobs' = Enqueued(-work[w].job) /\ holes' = holes \cup {"repeated"}
            \/ /\ jobs' = Enqueued(-work[w].job) /\ holes' = holes
               /\ \A j \in DOMAIN jobs : jobs[j].trigger # -work[w].job
<1>1. Moved(w, "report", 0)
  BY EndsMoves DEF CheckForUnseen
<1>2. work[w].pc \in InTurn /\ UNCHANGED <<sessions, deletionVars, heard>>
  BY DEF CheckForUnseen, At, InTurn, streamVars
<1>3. \/ UNCHANGED <<jobs, holes>>
      \/ jobs' = Enqueued(-work[w].job) /\ holes' = holes \cup {"repeated"}
      \/ /\ jobs' = Enqueued(-work[w].job) /\ holes' = holes
         /\ \A j \in DOMAIN jobs : jobs[j].trigger # -work[w].job
  BY Zenon DEF CheckForUnseen
<1> QED
  BY <1>1, <1>2, <1>3

LEMMA ResumeMoves ==
  ASSUME AgentTypes, NEW w \in Workers, Resume(w)
  PROVE  LET s == work[w].session
         IN  /\ At(w, "start") /\ Busy(w) /\ s \in SessionIds /\ UNCHANGED <<jobs, deletionVars>>
             /\ \/ /\ holes' = holes /\ Moved(w, "hydrate", s)
                   /\ sessions[s].status # "deleted"
                   /\ OnlySession(s) /\ sessions'[s].status = "running"
                \/ /\ holes' = holes \cup {"unstarted"}
                   /\ Moved(w, "report", 0) /\ UNCHANGED sessions
                \/ /\ holes' = holes /\ Moved(w, "report", 0) /\ UNCHANGED sessions
                   /\ sessions[s].status \in {"completed", "deleted"}
<1> DEFINE s == work[w].session
<1>0. /\ work \in [Workers -> WorkRecords] /\ posted \in Nat
      /\ sessions \in Seq(SessionRecords(posted))
  BY LengthsAreNatural DEF AgentTypes, WorkTypes, SessionTypes
<1>1. At(w, "start") /\ Busy(w) /\ s # 0 /\ s \in SessionIds /\ UNCHANGED <<jobs, deletionVars>>
  BY RecordFacts DEF Resume, At, Busy
<1>2. sessions[s] \in SessionRecords(posted)
  BY <1>0, <1>1, ElementOfSeq DEF SessionIds
<1>3. /\ sessions[s].status \in {"running", "completed", "failed", "deleted"}
      /\ sessions[s].event \in {"started", "interrupted", "completed", "failed", "deleted"}
      /\ sessions[s].lastSeen \in 0..posted
  BY <1>2 DEF SessionRecords
<1>4. CASE /\ SetStatus(s, "running", sessions[s].event) /\ holes' = holes /\ Resumable(s)
           /\ work' = [work EXCEPT ![w].pc = "hydrate", ![w].last = sessions[s].lastSeen]
  <2>1. OnlySession(s) /\ sessions'[s].status = "running"
    BY <1>0, <1>1, <1>3, <1>4, StatusSet
  <2>2. PICK l \in 0..posted : l = sessions[s].lastSeen
    BY <1>3
  <2>3. work' = [work EXCEPT ![w].pc = "hydrate", ![w].last = l]
    BY <1>4, <2>2
  <2>4. Moved(w, "hydrate", s)
    BY <1>0, <2>3 DEF Moved, WorkRecords
  <2> QED
    BY <1>1, <1>4, <2>1, <2>4 DEF Resumable, Status
<1>5. CASE Ends(w, TRUE) /\ holes' = holes \cup {"unstarted"} /\ UNCHANGED sessions
  BY <1>1, <1>5, EndsMoves
<1>6. CASE ~Resumable(s) /\ Ends(w, FALSE) /\ holes' = holes /\ UNCHANGED sessions
  <2>1. sessions[s].status \in {"completed", "deleted"}
    BY <1>1, <1>3, <1>6 DEF Resumable, Status
  <2> QED
    BY <1>1, <1>6, <2>1, EndsMoves
<1> QED
  BY <1>4, <1>5, <1>6 DEF Resume

LEMMA InsertMoves ==
  ASSUME AgentTypes, NEW w \in Workers, InsertRunningOrSkip(w)
  PROVE  LET s == Len(sessions) + 1
             trigger == jobs[work[w].job].trigger
         IN  /\ At(w, "start") /\ Busy(w) /\ work[w].session = 0 /\ trigger \in Int
             /\ UNCHANGED <<jobs, deletionVars, holes>>
             /\ \/ UNCHANGED sessions /\ Moved(w, "report", 0)
                \/ /\ Moved(w, "hydrate", s)
                   /\ Len(sessions') = s
                   /\ \A t \in SessionIds : sessions'[t] = sessions[t]
                   /\ sessions'[s].trigger = trigger /\ sessions'[s].status = "running"
<1> DEFINE s == Len(sessions) + 1
           trigger == jobs[work[w].job].trigger
<1>0. /\ work \in [Workers -> WorkRecords] /\ posted \in Nat /\ Len(sessions) \in Nat
      /\ sessions \in Seq(SessionRecords(posted)) /\ work[w].last \in 0..posted
  BY LengthsAreNatural, RecordFacts DEF AgentTypes, WorkTypes, SessionTypes
<1>1. /\ At(w, "start") /\ Busy(w) /\ work[w].session = 0 /\ UNCHANGED <<jobs, deletionVars, holes>>
  BY DEF InsertRunningOrSkip, At, Busy, historyVars
<1>2. trigger \in Int
  BY <1>1, RecordFacts, JobFacts
<1>3. CASE Ends(w, FALSE) /\ UNCHANGED sessions
  BY <1>1, <1>2, <1>3, EndsMoves
<1>4. CASE /\ sessions' = Append(sessions, NewSession(trigger, work[w].last))
           /\ work' = [work EXCEPT ![w].pc = "hydrate", ![w].session = s]
  <2>1. /\ Len(sessions') = s /\ \A t \in SessionIds : sessions'[t] = sessions[t]
        /\ sessions'[s] = NewSession(trigger, work[w].last)
    BY <1>0, <1>2, <1>4, SessionInserted
  <2>2. sessions'[s].trigger = trigger /\ sessions'[s].status = "running"
    BY <2>1 DEF NewSession
  <2>3. Moved(w, "hydrate", s)
    BY <1>0, <1>4 DEF Moved, WorkRecords
  <2> QED
    BY <1>1, <1>2, <2>1, <2>2, <2>3
<1> QED
  BY <1>3, <1>4 DEF InsertRunningOrSkip

LEMMA SetupMoves ==
  ASSUME AgentTypes, NEW w \in Workers, SetupReads(w)
  PROVE  LET s == FindByTrigger(jobs[work[w].job].trigger)
         IN  /\ Busy(w) /\ UNCHANGED <<jobs, sessions, deletionVars, holes>>
             /\ \/ Status(s) = "completed" /\ Moved(w, "report", 0)
                \/ Resumable(s) /\ Moved(w, "start", s)
                \/ Status(s) # "completed" /\ ~Resumable(s) /\ Moved(w, "start", 0)
<1> DEFINE s == FindByTrigger(jobs[work[w].job].trigger)
<1>1. Busy(w) /\ UNCHANGED <<jobs, sessions, deletionVars, holes>>
  BY DEF SetupReads, Busy, At
<1>2. CASE Status(s) = "completed" /\ Ends(w, FALSE)
  BY <1>1, <1>2, EndsMoves
<1>3. CASE /\ Status(s) # "completed"
           /\ work' = [work EXCEPT ![w].pc = "start", ![w].session = IF Resumable(s) THEN s ELSE 0]
  <2> DEFINE x == IF Resumable(s) THEN s ELSE 0
  <2>1. work' = [work EXCEPT ![w].pc = "start", ![w].session = x]
    BY <1>3
  <2>2. work \in [Workers -> WorkRecords]
    BY DEF AgentTypes, WorkTypes
  <2> HIDE DEF x, s
  <2>3. Moved(w, "start", x)
    BY <2>1, <2>2 DEF Moved, WorkRecords
  <2>4. (Resumable(s) /\ Moved(w, "start", s)) \/ (~Resumable(s) /\ Moved(w, "start", 0))
    BY <2>3 DEF x
  <2> QED
    BY <1>1, <1>3, <2>4 DEF s
<1> QED
  BY <1>2, <1>3 DEF SetupReads

(* The sweep fails running sessions only, and deletions keep the rest. *)
LEMMA SweepMoves ==
  ASSUME AgentTypes, NEW s \in orphans, FailOrphan(s)
  PROVE  /\ s \in SessionIds /\ UNCHANGED <<jobs, work, deletionVars, holes, heard>>
         /\ \/ UNCHANGED sessions
            \/ /\ OnlySession(s) /\ sessions[s].status = "running"
               /\ sessions'[s].status = "failed" /\ sessions'[s].event = "failed"
<1>1. /\ s \in SessionIds /\ sessions \in Seq(SessionRecords(posted))
      /\ UNCHANGED <<jobs, work, deletionVars, holes, heard>>
  BY DEF FailOrphan, AgentTypes, SessionTypes, streamVars
<1>2. CASE sessions[s].status = "running" /\ SetStatus(s, "failed", "failed")
  BY <1>1, <1>2, StatusSet
<1> QED
  BY <1>1, <1>2 DEF FailOrphan

LEMMA DeletionMoves ==
  ASSUME AgentTypes, NEW s \in doomed, MarkDeleted(s)
  PROVE  /\ s \in SessionIds /\ UNCHANGED <<jobs, work, deletion, heard>>
         /\ purge = {} /\ purge' = {s} /\ doomed' = doomed \ {s}
         /\ \/ UNCHANGED <<sessions, marked>>
            \/ /\ OnlySession(s) /\ sessions'[s].status = "deleted"
               /\ marked' = marked \cup {s}
               /\ \/ "overtaken" \in holes'
                  \/ \A w \in Workers : ~(At(w, "commit") /\ work[w].session = s)
<1>1. /\ s \in SessionIds /\ sessions \in Seq(SessionRecords(posted))
      /\ UNCHANGED <<jobs, work, deletion, heard>>
      /\ purge = {} /\ purge' = {s} /\ doomed' = doomed \ {s}
  BY DEF MarkDeleted, AgentTypes, SessionTypes, streamVars
<1>2. CASE UNCHANGED <<sessions, marked>>
  BY <1>1, <1>2
<1>3. CASE /\ SetStatus(s, "deleted", "deleted") /\ marked' = marked \cup {s}
           /\ holes' = IF \E w \in Workers : At(w, "commit") /\ work[w].session = s
                       THEN holes \cup {"overtaken"} ELSE holes
  <2>1. OnlySession(s) /\ sessions'[s].status = "deleted"
    BY <1>1, <1>3, StatusSet
  <2>2. \/ "overtaken" \in holes'
        \/ \A w \in Workers : ~(At(w, "commit") /\ work[w].session = s)
    BY <1>3
  <2> QED
    BY <1>1, <1>3, <2>1, <2>2
<1>4. \/ UNCHANGED <<sessions, marked>>
      \/ /\ SetStatus(s, "deleted", "deleted") /\ marked' = marked \cup {s}
         /\ holes' = IF \E w \in Workers : At(w, "commit") /\ work[w].session = s
                     THEN holes \cup {"overtaken"} ELSE holes
  BY Zenon DEF MarkDeleted
<1> QED
  BY <1>2, <1>3, <1>4

LEMMA PurgeMoves ==
  ASSUME AgentTypes, NEW s \in purge, PurgeReplies(s)
  PROVE  /\ s \in SessionIds /\ UNCHANGED <<jobs, work, doomed, marked, heard>>
         /\ NextDoomed(s) /\ OnlySession(s) /\ sessions'[s].replied = FALSE
         /\ sessions'[s].status = sessions[s].status /\ sessions'[s].event = sessions[s].event
<1>1. /\ s \in SessionIds /\ sessions \in Seq(SessionRecords(posted))
      /\ UNCHANGED <<jobs, work, doomed, marked, heard>>
      /\ NextDoomed(s) /\ sessions' = [sessions EXCEPT ![s].replied = FALSE]
  BY DEF PurgeReplies, AgentTypes, SessionTypes, streamVars
<1> QED
  BY <1>1, RepliedSet

(* No hole is ever forgotten. *)
LEMMA HolesStay == [Next]_vars => holes \subseteq holes'
<1> SUFFICES ASSUME [Next]_vars PROVE holes \subseteq holes'
  OBVIOUS
<1>1. ASSUME NEW w \in Workers, WorkerStep(w) PROVE holes \subseteq holes'
  <2>1. CASE SetupReads(w) \/ Resume(w) \/ InsertRunningOrSkip(w)
    BY <2>1 DEF SetupReads, Resume, InsertRunningOrSkip, historyVars
  <2>2. CASE Hydrate(w) \/ CheckNewMessages(w) \/ SendMessage(w) \/ CreateMessage(w)
    BY <2>2 DEF Hydrate, CheckNewMessages, SendMessage, CreateMessage, historyVars
  <2>3. CASE CompleteSession(w) \/ CheckForUnseen(w)
    BY <2>3 DEF CompleteSession, CheckForUnseen, historyVars
  <2>4. CASE Catch(w) \/ MarkFailed(w) \/ Report(w)
    BY <2>4 DEF Catch, MarkFailed, Report, historyVars
  <2> QED
    BY <1>1, <2>1, <2>2, <2>3, <2>4 DEF WorkerStep
<1>2. ASSUME NEW w \in Workers, WorkerFails(w) PROVE holes \subseteq holes'
  <2>1. CASE Stop(w) \/ TurnThrows(w) \/ HandlerThrows(w)
    BY <2>1 DEF Stop, TurnThrows, HandlerThrows, historyVars
  <2>2. CASE CompletionFails(w) \/ MarkFailedFails(w) \/ Crash(w)
    BY <2>2 DEF CompletionFails, MarkFailedFails, Crash, historyVars
  <2> QED
    BY <1>2, <2>1, <2>2 DEF WorkerFails
<1>3. ASSUME NEW w \in Workers, NEW j \in DOMAIN jobs, Claim(w, j) PROVE holes \subseteq holes'
  BY <1>3 DEF Claim, historyVars
<1>4. ASSUME NEW j \in DOMAIN jobs, ClaimLapses(j) PROVE holes \subseteq holes'
  BY <1>4 DEF ClaimLapses
<1>5. CASE Post \/ ListenerDecides \/ ListenerSends \/ FindOrphaned
  BY <1>5 DEF Post, ListenerDecides, ListenerSends, FindOrphaned, historyVars
<1>6. ASSUME NEW s \in orphans, FailOrphan(s) PROVE holes \subseteq holes'
  BY <1>6 DEF FailOrphan
<1>7. ASSUME NEW m \in Messages, DeleteMessage(m) \/ ListSessions(m) \/ DeletionThrows(m)
      PROVE  holes \subseteq holes'
  BY <1>7 DEF DeleteMessage, ListSessions, DeletionThrows, historyVars
<1>8. ASSUME NEW s \in doomed, MarkDeleted(s) PROVE holes \subseteq holes'
  BY <1>8 DEF MarkDeleted
<1>9. ASSUME NEW s \in purge, PurgeReplies(s) \/ PurgeFails(s) PROVE holes \subseteq holes'
  BY <1>9 DEF PurgeReplies, PurgeFails, historyVars
<1>10. CASE UNCHANGED vars
  BY <1>10 DEF vars, historyVars
<1> QED
  BY <1>1, <1>2, <1>3, <1>4, <1>5, <1>6, <1>7, <1>8, <1>9, <1>10 DEF Next

-----------------------------------------------------------------------------
(* RepliesPurged. A marked session stays deleted, and no worker is about to  *)
(* insert a reply of it. A session that was marked for the message at hand   *)
(* is still to be dealt with, or has no reply left; the handler's list is of *)
(* that message alone, so that nothing is listed once it is done.            *)

Unexcused == holes \cap {"overtaken", "revived", "kept"} = {}

Trig(s) == sessions[s].trigger

OneListed ==
  \A m, n \in Messages : deletion[m] = "listed" /\ deletion[n] = "listed" => m = n

ListedFor ==
  \A s \in doomed \cup purge : Trig(s) \in Messages /\ deletion[Trig(s)] = "listed"

SinglePurge == \A s, t \in purge : s = t

MarkedFor == \A s \in marked : Trig(s) \in Messages

StatusStands == \A s \in marked : sessions[s].status = "deleted"

CommitsStand == \A w \in Workers : At(w, "commit") => work[w].session \notin marked

Dealt ==
  \A s \in marked :
    deletion[Trig(s)] \in {"listed", "done"} => s \in doomed \cup purge \/ ~sessions[s].replied

Handled ==
  /\ OneListed /\ ListedFor /\ SinglePurge /\ MarkedFor
  /\ StatusStands /\ CommitsStand /\ Dealt

PurgeInv == Unexcused => Handled

(* A step of somebody else leaves the marked sessions alone. *)
Elsewhere ==
  /\ UNCHANGED deletionVars
  /\ \A s \in SessionIds : sessions'[s].trigger = sessions[s].trigger
  /\ \A s \in marked :
       sessions'[s].status = "deleted" /\ sessions'[s].replied = sessions[s].replied
  /\ \A v \in Workers : work'[v].pc = "commit" => work'[v].session \notin marked

LEMMA ElsewhereKeeps ==
  ASSUME AgentTypes, Handled, Elsewhere
  PROVE  Handled'
<1>1. /\ doomed \subseteq SessionIds /\ purge \subseteq SessionIds /\ marked \subseteq SessionIds
      /\ UNCHANGED <<deletion, doomed, purge, marked>>
  BY DEF AgentTypes, SessionTypes, Elsewhere, deletionVars
<1>2. \A s \in SessionIds : Trig(s)' = Trig(s)
  BY DEF Elsewhere, Trig
<1>3. OneListed' /\ SinglePurge'
  BY <1>1 DEF Handled, OneListed, SinglePurge
<1>4. ListedFor' /\ MarkedFor'
  BY <1>1, <1>2 DEF Handled, ListedFor, MarkedFor
<1>5. StatusStands'
  BY <1>1 DEF Elsewhere, StatusStands
<1>6. CommitsStand'
  BY <1>1 DEF Elsewhere, CommitsStand, At
<1>7. Dealt'
  BY <1>1, <1>2 DEF Handled, Elsewhere, Dealt
<1> QED
  BY <1>3, <1>4, <1>5, <1>6, <1>7 DEF Handled

(* The steps of the user, the listener, the queue, the workers, the sweep. *)
NotOfHandler ==
  \/ Post \/ ListenerDecides \/ ListenerSends
  \/ \E w \in Workers : WorkerStep(w) \/ WorkerFails(w) \/ \E j \in DOMAIN jobs : Claim(w, j)
  \/ \E j \in DOMAIN jobs : ClaimLapses(j)
  \/ FindOrphaned \/ \E s \in orphans : FailOrphan(s)
  \/ UNCHANGED vars

LEMMA ElsewhereStep ==
  ASSUME AgentTypes, Handled, NotOfHandler, Unexcused'
  PROVE  Elsewhere
<1> DEFINE Away == \A v \in Workers : work'[v].pc = "commit" => work'[v] = work[v]
<1>0. StatusStands /\ CommitsStand /\ marked \subseteq SessionIds
  BY DEF Handled, AgentTypes, SessionTypes
<1>1. ASSUME Away, UNCHANGED <<sessions, deletionVars>> PROVE Elsewhere
  BY <1>0, <1>1 DEF Elsewhere, StatusStands, CommitsStand, At
<1>2. ASSUME Away, UNCHANGED deletionVars, NEW s \in SessionIds, OnlySession(s),
             \/ sessions[s].status # "deleted" \/ s \notin marked
             \/ /\ sessions'[s].status = sessions[s].status
                /\ sessions'[s].replied = sessions[s].replied
      PROVE  Elsewhere
  <2>1. \A t \in SessionIds : sessions'[t].trigger = sessions[t].trigger
    BY <1>2 DEF OnlySession
  <2>2. \A t \in marked :
          sessions'[t].status = "deleted" /\ sessions'[t].replied = sessions[t].replied
    BY <1>0, <1>2 DEF OnlySession, StatusStands
  <2>3. \A v \in Workers : work'[v].pc = "commit" => work'[v].session \notin marked
    BY <1>0, <1>2 DEF CommitsStand, At
  <2> QED
    BY <1>2, <2>1, <2>2, <2>3 DEF Elsewhere
<1>3. ASSUME NEW w \in Workers, NEW pc, NEW s, Moved(w, pc, s), pc # "commit" PROVE Away
  BY <1>3 DEF Moved
<1>4. ASSUME NEW w \in Workers, work' = [work EXCEPT ![w] = Idle] PROVE Away
  BY <1>4, IdleAgain DEF AgentTypes, WorkTypes, Idle
<1>5. ASSUME NEW w \in Workers, GoesOn(w) PROVE Away
  BY <1>3, <1>5 DEF GoesOn
<1>6. ASSUME NEW w \in Workers, work[w].pc \in InTurn PROVE work[w].session \in SessionIds
  BY <1>6, RecordFacts
<1>10. ASSUME NEW w \in Workers,
              \/ Hydrate(w) \/ Stop(w) \/ TurnThrows(w) \/ CheckNewMessages(w)
              \/ CreateMessage(w)
       PROVE  Elsewhere
  <2> DEFINE s == work[w].session
  <2>1. Away /\ UNCHANGED deletionVars /\ s \in SessionIds
    BY <1>5, <1>6, <1>10, TurnGoesOn
  <2>2. At(w, "commit") => s \notin marked
    BY <1>0 DEF CommitsStand
  <2>3. \/ UNCHANGED sessions
        \/ /\ OnlySession(s)
           /\ \/ s \notin marked
              \/ /\ sessions'[s].status = sessions[s].status
                 /\ sessions'[s].replied = sessions[s].replied
    BY <1>10, <2>2, TurnGoesOn
  <2> QED
    BY <1>1, <1>2, <2>1, <2>3
<1>11. ASSUME NEW w \in Workers, SendMessage(w) PROVE Elsewhere
  <2> DEFINE s == work[w].session
  <2>1. UNCHANGED <<sessions, deletionVars>>
    BY <1>11, SendMoves
  <2>2. CASE Moved(w, "threw", s)
    BY <1>1, <1>3, <2>1, <2>2
  <2>3. CASE Session(w).status = "running" /\ Moved(w, "commit", s)
    <3>1. s \notin marked
      BY <1>0, <2>3 DEF StatusStands, Session
    <3>2. ASSUME NEW v \in Workers, work'[v].pc = "commit"
          PROVE  work'[v].session \notin marked
      <4>1. CASE v = w
        BY <2>3, <3>1, <4>1 DEF Moved
      <4>2. CASE v # w
        BY <1>0, <2>3, <3>2, <4>2 DEF Moved, CommitsStand, At
      <4> QED
        BY <4>1, <4>2
    <3> QED
      BY <1>0, <2>1, <3>2 DEF Elsewhere, StatusStands
  <2> QED
    BY <1>11, <2>2, <2>3, SendMoves
<1>12. ASSUME NEW w \in Workers, CompleteSession(w) \/ CompletionFails(w) PROVE Elsewhere
  <2> DEFINE s == work[w].session
  <2>1. Away /\ UNCHANGED deletionVars /\ s \in SessionIds
    BY <1>3, <1>5, <1>6, <1>12, CompletionMoves
  <2>2. UNCHANGED sessions \/ (OnlySession(s) /\ sessions[s].status # "deleted")
    BY <1>12, CompletionMoves
  <2> QED
    BY <1>1, <1>2, <2>1, <2>2
<1>13. ASSUME NEW w \in Workers, Catch(w) \/ MarkFailedFails(w) PROVE Elsewhere
  BY <1>1, <1>3, <1>5, <1>13, CatchMoves
<1>14. ASSUME NEW w \in Workers, HandlerThrows(w) PROVE Elsewhere
  BY <1>1, <1>3, <1>14, HandlerThrowsMoves
<1>15. ASSUME NEW w \in Workers, MarkFailed(w) PROVE Elsewhere
  <2> DEFINE s == work[w].session
  <2>1. /\ Away /\ UNCHANGED deletionVars /\ s \in SessionIds /\ OnlySession(s)
        /\ "revived" \in holes' \/ sessions[s].status # "deleted"
    BY <1>3, <1>6, <1>15, MarkFailedMoves
  <2>2. "revived" \notin holes'
    BY DEF Unexcused
  <2> QED
    BY <1>2, <2>1, <2>2
<1>16. ASSUME NEW w \in Workers, CheckForUnseen(w) PROVE Elsewhere
  BY <1>1, <1>3, <1>16, UnseenMoves
<1>17. ASSUME NEW w \in Workers, Resume(w) PROVE Elsewhere
  <2> DEFINE s == work[w].session
  <2>1. Away /\ UNCHANGED deletionVars /\ s \in SessionIds
    BY <1>3, <1>17, ResumeMoves
  <2>2. UNCHANGED sessions \/ (OnlySession(s) /\ sessions[s].status # "deleted")
    BY <1>17, ResumeMoves
  <2> QED
    BY <1>1, <1>2, <2>1, <2>2
<1>18. ASSUME NEW w \in Workers, InsertRunningOrSkip(w) PROVE Elsewhere
  <2>1. Away /\ UNCHANGED deletionVars
    BY <1>3, <1>18, InsertMoves
  <2>2. CASE UNCHANGED sessions
    BY <1>1, <2>1, <2>2
  <2>3. CASE \A t \in SessionIds : sessions'[t] = sessions[t]
    BY <1>0, <2>1, <2>3 DEF Elsewhere, StatusStands, CommitsStand, At
  <2> QED
    BY <1>18, <2>2, <2>3, InsertMoves
<1>19. ASSUME NEW w \in Workers, SetupReads(w) PROVE Elsewhere
  BY <1>1, <1>3, <1>19, SetupMoves
<1>20. ASSUME NEW w \in Workers, Report(w) \/ Crash(w) PROVE Elsewhere
  <2>1. work' = [work EXCEPT ![w] = Idle] /\ UNCHANGED <<sessions, deletionVars>>
    BY <1>20 DEF Report, Crash
  <2> QED
    BY <1>1, <1>4, <2>1
<1>21. ASSUME NEW w \in Workers, NEW j \in DOMAIN jobs, Claim(w, j) PROVE Elsewhere
  <2>1. UNCHANGED <<sessions, deletionVars>>
    BY <1>21 DEF Claim
  <2>2. work \in [Workers -> WorkRecords]
    BY DEF AgentTypes, WorkTypes
  <2>3. Away
    BY <1>21, <2>2 DEF Claim, Idle
  <2> QED
    BY <1>1, <2>1, <2>3
<1>22. ASSUME UNCHANGED <<work, sessions, deletionVars>> PROVE Elsewhere
  BY <1>1, <1>22
<1>23. ASSUME NEW s \in orphans, FailOrphan(s) PROVE Elsewhere
  <2>1. Away /\ UNCHANGED deletionVars /\ s \in SessionIds
    BY <1>23, SweepMoves
  <2>2. UNCHANGED sessions \/ (OnlySession(s) /\ sessions[s].status # "deleted")
    BY <1>23, SweepMoves
  <2> QED
    BY <1>1, <1>2, <2>1, <2>2
<1>24. ASSUME NEW w \in Workers, WorkerStep(w) PROVE Elsewhere
  BY <1>24, <1>10, <1>11, <1>12, <1>13, <1>15, <1>16, <1>17, <1>18, <1>19, <1>20
  DEF WorkerStep
<1>25. ASSUME NEW w \in Workers, WorkerFails(w) PROVE Elsewhere
  BY <1>25, <1>10, <1>12, <1>13, <1>14, <1>20 DEF WorkerFails
<1>26. CASE Post \/ ListenerDecides \/ ListenerSends \/ FindOrphaned
  BY <1>22, <1>26 DEF Post, ListenerDecides, ListenerSends, FindOrphaned
<1>27. ASSUME NEW j \in DOMAIN jobs, ClaimLapses(j) PROVE Elsewhere
  BY <1>22, <1>27 DEF ClaimLapses
<1>28. CASE UNCHANGED vars
  BY <1>22, <1>28 DEF vars
<1> QED
  BY <1>21, <1>23, <1>24, <1>25, <1>26, <1>27, <1>28 DEF NotOfHandler

(* The user asks for a deletion, or the handler begins or is cut off. *)
LEMMA ListStep ==
  ASSUME AgentTypes, Handled, NEW m \in Messages,
         DeleteMessage(m) \/ ListSessions(m) \/ DeletionThrows(m)
  PROVE  Handled'
<1>0. /\ UNCHANGED <<sessions, work, marked>>
      /\ deletion \in [Messages -> {"no", "asked", "listed", "done"}]
      /\ doomed \subseteq SessionIds /\ purge \subseteq SessionIds /\ marked \subseteq SessionIds
      /\ SessionIds' = SessionIds
  BY DEF AgentTypes, StreamTypes, SessionTypes, DeleteMessage, ListSessions, DeletionThrows,
         SessionIds
<1>1. MarkedFor' /\ StatusStands' /\ CommitsStand' /\ \A s : Trig(s)' = Trig(s)
  BY <1>0 DEF Handled, MarkedFor, StatusStands, CommitsStand, Trig, At
<1>2. CASE DeleteMessage(m)
  <2>1. /\ deletion[m] = "no" /\ deletion' = [deletion EXCEPT ![m] = "asked"]
        /\ UNCHANGED <<doomed, purge>>
    BY <1>2 DEF DeleteMessage
  <2>2. OneListed' /\ SinglePurge'
    BY <1>0, <2>1 DEF Handled, OneListed, SinglePurge
  <2>3. ListedFor'
    BY <1>0, <1>1, <2>1 DEF Handled, ListedFor
  <2>4. Dealt'
    BY <1>0, <1>1, <2>1 DEF Handled, Dealt, MarkedFor
  <2> QED
    BY <1>1, <2>2, <2>3, <2>4 DEF Handled
<1>3. CASE ListSessions(m)
  <2> DEFINE found == {s \in SessionIds : sessions[s].trigger = m}
  <2>1. /\ \A n \in Messages : deletion[n] # "listed"
        /\ doomed' = found /\ purge' = purge
        /\ deletion' = [deletion EXCEPT ![m] = IF found = {} THEN "done" ELSE "listed"]
    BY <1>3 DEF ListSessions
  <2>2. doomed = {} /\ purge = {}
    BY <2>1 DEF Handled, ListedFor
  <2>3. OneListed' /\ SinglePurge'
    BY <1>0, <2>1, <2>2 DEF OneListed, SinglePurge
  <2>4. ListedFor'
    BY <1>0, <1>1, <2>1, <2>2 DEF ListedFor, Trig
  <2>5. Dealt'
    <3> SUFFICES ASSUME NEW s \in marked, deletion'[Trig(s)] \in {"listed", "done"}
                 PROVE  s \in doomed' \cup purge' \/ ~sessions[s].replied
      BY <1>0, <1>1 DEF Dealt
    <3>1. CASE Trig(s) = m
      BY <1>0, <2>1, <3>1 DEF Trig
    <3>2. CASE Trig(s) # m
      BY <1>0, <2>1, <2>2, <3>2 DEF Handled, Dealt, MarkedFor
    <3> QED
      BY <3>1, <3>2
  <2> QED
    BY <1>1, <2>3, <2>4, <2>5 DEF Handled
<1>4. CASE DeletionThrows(m)
  <2>1. /\ deletion[m] = "listed" /\ deletion' = [deletion EXCEPT ![m] = "asked"]
        /\ doomed' = {} /\ purge' = {}
    BY <1>4 DEF DeletionThrows
  <2>2. OneListed' /\ SinglePurge' /\ ListedFor'
    BY <1>0, <2>1 DEF Handled, OneListed, SinglePurge, ListedFor
  <2>3. Dealt'
    <3> SUFFICES ASSUME NEW s \in marked, deletion'[Trig(s)] \in {"listed", "done"}
                 PROVE  ~sessions[s].replied
      BY <1>0, <1>1 DEF Dealt
    <3>1. Trig(s) \in Messages /\ Trig(s) # m /\ deletion[Trig(s)] \in {"listed", "done"}
      BY <1>0, <2>1 DEF Handled, MarkedFor
    <3>2. deletion[Trig(s)] # "listed"
      BY <2>1, <3>1 DEF Handled, OneListed
    <3>3. s \notin doomed \cup purge
      BY <3>2 DEF Handled, ListedFor
    <3> QED
      BY <3>1, <3>3 DEF Handled, Dealt
  <2> QED
    BY <1>1, <2>2, <2>3 DEF Handled
<1> QED
  BY <1>2, <1>3, <1>4

LEMMA MarkStep ==
  ASSUME AgentTypes, Handled, NEW s \in doomed, MarkDeleted(s), Unexcused'
  PROVE  Handled'
<1>0. /\ s \in SessionIds /\ UNCHANGED <<work, deletion>>
      /\ purge = {} /\ purge' = {s} /\ doomed' = doomed \ {s}
      /\ doomed \subseteq SessionIds /\ marked \subseteq SessionIds
      /\ Trig(s) \in Messages /\ deletion[Trig(s)] = "listed"
  BY DeletionMoves DEF Handled, ListedFor, AgentTypes, SessionTypes
<1>1. OneListed' /\ SinglePurge'
  BY <1>0 DEF Handled, OneListed, SinglePurge
<1>2. CASE UNCHANGED <<sessions, marked>>
  <2>1. \A t : Trig(t)' = Trig(t)
    BY <1>2 DEF Trig
  <2>2. ListedFor' /\ MarkedFor' /\ StatusStands' /\ CommitsStand'
    BY <1>0, <1>2, <2>1 DEF Handled, ListedFor, MarkedFor, StatusStands, CommitsStand, At
  <2>3. Dealt'
    BY <1>0, <1>2, <2>1 DEF Handled, Dealt
  <2> QED
    BY <1>1, <2>2, <2>3 DEF Handled
<1>3. CASE /\ OnlySession(s) /\ sessions'[s].status = "deleted"
           /\ marked' = marked \cup {s}
           /\ \A w \in Workers : ~(At(w, "commit") /\ work[w].session = s)
  <2>1. \A t \in SessionIds :
          Trig(t)' = Trig(t) /\ (t # s => sessions'[t] = sessions[t])
    BY <1>3 DEF OnlySession, Trig
  <2>2. ListedFor' /\ MarkedFor'
    BY <1>0, <1>3, <2>1 DEF Handled, ListedFor, MarkedFor
  <2>3. StatusStands'
    BY <1>0, <1>3, <2>1 DEF Handled, StatusStands
  <2>4. CommitsStand'
    BY <1>0, <1>3 DEF Handled, CommitsStand, At
  <2>5. Dealt'
    BY <1>0, <1>3, <2>1 DEF Handled, Dealt
  <2> QED
    BY <1>1, <2>2, <2>3, <2>4, <2>5 DEF Handled
<1>4. "overtaken" \notin holes'
  BY DEF Unexcused
<1> QED
  BY <1>2, <1>3, <1>4, DeletionMoves

(* The replies of the session at hand are gone, or one was "kept". *)
LEMMA NextDoomedStep ==
  ASSUME AgentTypes, Handled, NEW s \in purge, NextDoomed(s),
         UNCHANGED <<work, doomed, marked>>,
         \A t \in SessionIds :
           /\ sessions'[t].trigger = sessions[t].trigger
           /\ sessions'[t].status = sessions[t].status
           /\ t # s => sessions'[t].replied = sessions[t].replied,
         ~sessions'[s].replied
  PROVE  Handled'
<1>0. /\ s \in SessionIds /\ doomed \subseteq SessionIds /\ marked \subseteq SessionIds
      /\ purge = {s} /\ purge' = {}
      /\ deletion \in [Messages -> {"no", "asked", "listed", "done"}]
      /\ Trig(s) \in Messages /\ deletion[Trig(s)] = "listed"
  BY DEF AgentTypes, StreamTypes, SessionTypes, Handled, ListedFor, SinglePurge, NextDoomed
<1>1. \A t \in SessionIds : Trig(t)' = Trig(t)
  BY DEF Trig
<1>2. CASE doomed # {} /\ deletion' = deletion
  <2>1. OneListed' /\ SinglePurge' /\ ListedFor'
    BY <1>0, <1>1, <1>2 DEF Handled, OneListed, SinglePurge, ListedFor
  <2>2. MarkedFor' /\ StatusStands' /\ CommitsStand'
    BY <1>0, <1>1 DEF Handled, MarkedFor, StatusStands, CommitsStand, At
  <2>3. Dealt'
    BY <1>0, <1>1, <1>2 DEF Handled, Dealt
  <2> QED
    BY <2>1, <2>2, <2>3 DEF Handled
<1>3. CASE doomed = {} /\ deletion' = [deletion EXCEPT ![Trig(s)] = "done"]
  <2>1. OneListed' /\ SinglePurge' /\ ListedFor'
    BY <1>0, <1>3 DEF Handled, OneListed, SinglePurge, ListedFor
  <2>2. MarkedFor' /\ StatusStands' /\ CommitsStand'
    BY <1>0, <1>1 DEF Handled, MarkedFor, StatusStands, CommitsStand, At
  <2>3. Dealt'
    <3> SUFFICES ASSUME NEW t \in marked, t # s, deletion'[Trig(t)] \in {"listed", "done"}
                 PROVE  ~sessions[t].replied
      BY <1>0, <1>1 DEF Dealt
    <3>1. Trig(t) \in Messages /\ deletion[Trig(t)] \in {"listed", "done"}
      BY <1>0, <1>3 DEF Handled, MarkedFor
    <3> QED
      BY <1>0, <1>3, <3>1 DEF Handled, Dealt
  <2> QED
    BY <2>1, <2>2, <2>3 DEF Handled
<1> QED
  BY <1>2, <1>3 DEF NextDoomed, Trig

LEMMA PurgeStep ==
  ASSUME AgentTypes, Handled, NEW s \in purge, PurgeReplies(s) \/ PurgeFails(s), Unexcused'
  PROVE  Handled'
<1>1. CASE PurgeReplies(s)
  <2>1. \A t \in SessionIds :
          /\ sessions'[t].trigger = sessions[t].trigger
          /\ sessions'[t].status = sessions[t].status
          /\ t # s => sessions'[t].replied = sessions[t].replied
    BY <1>1, PurgeMoves DEF OnlySession
  <2> QED
    BY <1>1, <2>1, PurgeMoves, NextDoomedStep
<1>2. CASE PurgeFails(s)
  <2>1. "kept" \notin holes'
    BY DEF Unexcused
  <2>2. /\ NextDoomed(s) /\ UNCHANGED <<work, doomed, marked, sessions>>
        /\ ~sessions'[s].replied
    BY <1>2, <2>1 DEF PurgeFails
  <2> QED
    BY <2>2, NextDoomedStep
<1> QED
  BY <1>1, <1>2

(***************************************************************************)
(* Once the handler of a deleted message is done, no session it ever       *)
(* marked has a reply in the stream or gets one again, however turns, the  *)
(* sweep, retries of the job and reruns of the handler interleave, unless  *)
(* the mark came between the look of doSendMessage and the insert, a catch *)
(* block overwrote it, or the deletion of a reply failed.                  *)
(***************************************************************************)
THEOREM DeletedRepliesStayAway == Spec => []RepliesPurged
<1>1. Init => PurgeInv
  BY DEF Init, PurgeInv, Handled, OneListed, ListedFor, SinglePurge, MarkedFor, StatusStands,
         CommitsStand, Dealt
<1>2. AgentTypes /\ PurgeInv /\ [Next]_vars => PurgeInv'
  <2> SUFFICES ASSUME AgentTypes, PurgeInv, [Next]_vars, Unexcused' PROVE Handled'
    BY DEF PurgeInv
  <2>1. Handled
    BY HolesStay DEF PurgeInv, Unexcused
  <2>2. CASE NotOfHandler
    BY <2>1, <2>2, ElsewhereStep, ElsewhereKeeps
  <2> QED
    BY <2>1, <2>2, ListStep, MarkStep, PurgeStep DEF Next, NotOfHandler
<1>3. PurgeInv => RepliesPurged
  <2> SUFFICES ASSUME Handled, NEW s \in marked, deletion[sessions[s].trigger] = "done"
               PROVE  ~sessions[s].replied
    BY DEF PurgeInv, RepliesPurged, Unexcused
  <2>1. s \notin doomed \cup purge
    BY DEF Handled, ListedFor, Trig
  <2> QED
    BY <2>1 DEF Handled, Dealt, Trig
<1> QED
  BY <1>1, <1>2, <1>3, AgentTypesHold, PTL DEF Spec

-----------------------------------------------------------------------------
(* CardHonest. A card can break its promise only when the job of its trigger *)
(* is closed, so the invariant says what a worker knows of the sessions of   *)
(* its trigger when it comes to report: the worker holds the claim, no other *)
(* job has the trigger, and all sessions of the trigger but the latest, the  *)
(* worker's own, are deleted.                                                *)

Calm == holes \cap {"unstarted", "displaced", "repeated"} = {}

Interrupted(s) == sessions[s].status = "failed" /\ sessions[s].event = "interrupted"

(* The same after the step, of a session that is named before it. *)
InterruptedNow(s) == sessions'[s].status = "failed" /\ sessions'[s].event = "interrupted"

OneJobEach ==
  \A i, j \in 1..Len(jobs) : jobs[i].trigger = jobs[j].trigger => i = j

EarlierDeleted ==
  \A s, t \in SessionIds :
    s < t /\ sessions[s].trigger = sessions[t].trigger => sessions[s].status = "deleted"

Promised ==
  \A s \in SessionIds : Interrupted(s) => Retrying(sessions[s].trigger)

(* The queue will be told that the job is to be retried. *)
WillWait(r) == r.throws /\ r.attempt + 1 < MaxAttempts

RecordCalm(r, w) ==
  /\ r.pc # "idle" => jobs[r.job].state = "claimed" /\ jobs[r.job].holder = w
  /\ r.session # 0 =>
       \A t \in SessionIds :
         t > r.session => sessions[t].trigger # sessions[r.session].trigger
  /\ r.pc = "start" /\ r.session = 0 =>
       \A s \in SessionIds :
         sessions[s].trigger = jobs[r.job].trigger => sessions[s].status = "deleted"
  /\ r.pc \in InTurn => ~Interrupted(r.session)
  /\ r.pc = "report" /\ ~WillWait(r) =>
       \A s \in SessionIds : sessions[s].trigger = jobs[r.job].trigger => ~Interrupted(s)

Settled ==
  /\ OneJobEach /\ EarlierDeleted /\ Promised
  /\ \A w \in Workers : RecordCalm(work[w], w)

CardInv == Calm => Settled

Trigger(w) == jobs[work[w].job].trigger

LEMMA BusyHolds ==
  ASSUME AgentTypes, Settled, NEW w \in Workers, Busy(w)
  PROVE  /\ work[w].job \in 1..Len(jobs)
         /\ jobs[work[w].job].state = "claimed" /\ jobs[work[w].job].holder = w
         /\ Retrying(Trigger(w))
<1>1. work[w].job \in 1..Len(jobs)
  BY RecordFacts
<1>2. jobs[work[w].job].state = "claimed" /\ jobs[work[w].job].holder = w
  BY DEF Settled, RecordCalm, Busy, At
<1>3. work[w].job \in DOMAIN jobs
  BY <1>1, LenProperties DEF AgentTypes, JobTypes
<1> QED
  BY <1>1, <1>2, <1>3 DEF Retrying, Trigger

(* No two workers have jobs of the same trigger. *)
LEMMA OneWorkerEach ==
  ASSUME AgentTypes, Settled, NEW v \in Workers, NEW w \in Workers, Busy(v), Busy(w), v # w
  PROVE  work[v].job # work[w].job /\ Trigger(v) # Trigger(w)
<1>1. work[v].job # work[w].job
  BY BusyHolds
<1> QED
  BY <1>1, BusyHolds DEF Settled, OneJobEach, Trigger

(* What a worker does to the tables is about its own job and trigger. *)
OwnJobOnly(w) ==
  /\ Len(jobs) <= Len(jobs')
  /\ \A j \in 1..Len(jobs) : j # work[w].job => jobs'[j] = jobs[j]

OwnTriggerOnly(w) ==
  /\ Len(sessions) <= Len(sessions')
  /\ \A s \in SessionIds :
       /\ sessions'[s].trigger = sessions[s].trigger
       /\ sessions[s].trigger # Trigger(w) => sessions'[s] = sessions[s]
  /\ \A s \in SessionIds' : s \notin SessionIds => sessions'[s].trigger = Trigger(w)

(* The other workers are not disturbed by it. *)
LEMMA OthersCalm ==
  ASSUME AgentTypes, Settled, NEW w \in Workers, Busy(w), OwnJobOnly(w), OwnTriggerOnly(w),
         NEW v \in Workers, v # w, work'[v] = work[v]
  PROVE  RecordCalm(work[v], v)'
<1>0. work[v] \in WorkRecords /\ RecordCalm(work[v], v)
  BY DEF AgentTypes, WorkTypes, Settled
<1>1. CASE At(v, "idle")
  <2>1. work[v].pc = "idle" /\ work[v].session = 0
    BY <1>1, RecordFacts DEF At
  <2> QED
    BY <2>1 DEF RecordCalm, InTurn
<1>2. CASE Busy(v)
  <2>1. work[v].job \in 1..Len(jobs) /\ work[v].job # work[w].job /\ Trigger(v) # Trigger(w)
    BY <1>2, OneWorkerEach, BusyHolds
  <2>2. jobs'[work[v].job] = jobs[work[v].job]
    BY <2>1 DEF OwnJobOnly
  <2>3. \A s \in SessionIds' :
          sessions'[s].trigger = Trigger(v) => s \in SessionIds /\ sessions'[s] = sessions[s]
    BY <2>1 DEF OwnTriggerOnly
  <2>4. work[v].session # 0 =>
          /\ work[v].session \in SessionIds /\ sessions[work[v].session].trigger = Trigger(v)
          /\ sessions'[work[v].session] = sessions[work[v].session]
    <3>1. work[v].session # 0 =>
            work[v].session \in SessionIds /\ sessions[work[v].session].trigger = Trigger(v)
      BY RecordFacts DEF Session, Trigger
    <3> QED
      BY <3>1, <2>1 DEF OwnTriggerOnly
  <2>5. (work[v].pc # "idle" =>
           jobs[work[v].job].state = "claimed" /\ jobs[work[v].job].holder = v)'
    BY <1>0, <2>2 DEF RecordCalm
  <2>6. (work[v].session # 0 =>
           \A t \in SessionIds :
             t > work[v].session => sessions[t].trigger # sessions[work[v].session].trigger)'
    BY <1>0, <2>3, <2>4 DEF RecordCalm
  <2>7. (work[v].pc = "start" /\ work[v].session = 0 =>
           \A s \in SessionIds :
             sessions[s].trigger = jobs[work[v].job].trigger => sessions[s].status = "deleted")'
    BY <1>0, <2>2, <2>3 DEF RecordCalm, Trigger
  <2>8. (work[v].pc \in InTurn => ~Interrupted(work[v].session))'
    <3>1. work[v].pc \in InTurn => work[v].session # 0
      BY RecordFacts
    <3> QED
      BY <1>0, <2>4, <3>1 DEF RecordCalm, Interrupted
  <2>9. (work[v].pc = "report" /\ ~WillWait(work[v]) =>
           \A s \in SessionIds :
             sessions[s].trigger = jobs[work[v].job].trigger => ~Interrupted(s))'
    BY <1>0, <2>2, <2>3 DEF RecordCalm, Trigger, Interrupted, WillWait
  <2> QED
    BY <2>5, <2>6, <2>7, <2>8, <2>9 DEF RecordCalm
<1> QED
  BY <1>1, <1>2 DEF Busy

(* A worker's step that leaves the jobs alone: what it has to see to is its  *)
(* own record, and the earlier sessions of its trigger.                      *)
LEMMA CalmStep ==
  ASSUME AgentTypes, Settled, NEW w \in Workers, Busy(w), UNCHANGED jobs, OwnTriggerOnly(w),
         \A v \in Workers : v # w => work'[v] = work[v],
         EarlierDeleted', RecordCalm(work[w], w)'
  PROVE  Settled'
<1>1. OwnJobOnly(w)
  BY LengthsAreNatural DEF OwnJobOnly
<1>2. \A v \in Workers : RecordCalm(work[v], v)'
  BY <1>1, OthersCalm
<1>3. OneJobEach'
  BY DEF Settled, OneJobEach
<1>4. Promised'
  <2> SUFFICES ASSUME NEW s \in SessionIds', Interrupted(s)'
               PROVE  Retrying(sessions[s].trigger)'
    BY DEF Promised
  <2>1. CASE sessions'[s].trigger = Trigger(w)
    <3>1. Retrying(Trigger(w))
      BY BusyHolds
    <3> QED
      BY <2>1, <3>1 DEF Retrying
  <2>2. CASE sessions'[s].trigger # Trigger(w)
    <3>1. s \in SessionIds /\ sessions'[s] = sessions[s]
      BY <2>2 DEF OwnTriggerOnly
    <3>2. Retrying(sessions[s].trigger)
      BY <3>1 DEF Settled, Promised, Interrupted
    <3> QED
      BY <3>1, <3>2 DEF Retrying
  <2> QED
    BY <2>1, <2>2
<1> QED
  BY <1>2, <1>3, <1>4 DEF Settled

(* A worker's session is the latest of its trigger, so that a change of it   *)
(* leaves the earlier ones deleted.                                          *)
LEMMA OwnSessionTouched ==
  ASSUME AgentTypes, Settled, NEW w \in Workers, Busy(w), work[w].session # 0,
         OnlySession(work[w].session)
  PROVE  OwnTriggerOnly(w) /\ EarlierDeleted'
<1> DEFINE s == work[w].session
<1>1. s \in SessionIds /\ sessions[s].trigger = Trigger(w) /\ s \in Nat
  BY RecordFacts DEF Session, Trigger
<1>2. \A t \in SessionIds : t > s => sessions[t].trigger # sessions[s].trigger
  BY DEF Settled, RecordCalm
<1>3. SessionIds' = SessionIds /\ \A t \in SessionIds : sessions'[t].trigger = sessions[t].trigger
  BY DEF OnlySession, SessionIds
<1>4. OwnTriggerOnly(w)
  BY <1>1, <1>3, LengthsAreNatural DEF OwnTriggerOnly, OnlySession
<1>5. EarlierDeleted'
  <2> SUFFICES ASSUME NEW t \in SessionIds, NEW u \in SessionIds, t < u,
                      sessions[t].trigger = sessions[u].trigger
               PROVE  sessions'[t].status = "deleted"
    BY <1>3 DEF EarlierDeleted
  <2>1. t # s
    BY <1>2
  <2> QED
    BY <2>1 DEF Settled, EarlierDeleted, OnlySession
<1> QED
  BY <1>4, <1>5

(* The turn goes on. *)
LEMMA GoesOnCalm ==
  ASSUME AgentTypes, Settled, NEW w \in Workers, Busy(w), work[w].session # 0,
         NEW pc \in InTurn, Moved(w, pc, work[w].session), UNCHANGED jobs,
         OnlySession(work[w].session), ~InterruptedNow(work[w].session)
  PROVE  Settled'
<1> DEFINE s == work[w].session
<1>1. OwnTriggerOnly(w) /\ EarlierDeleted'
  BY OwnSessionTouched
<1>2. s \in SessionIds
  BY RecordFacts
<1>3. SessionIds' = SessionIds /\ \A t \in SessionIds : sessions'[t].trigger = sessions[t].trigger
  BY DEF OnlySession, SessionIds
<1>4. /\ work'[w].pc = pc /\ work'[w].session = s /\ work'[w].job = work[w].job
      /\ \A v \in Workers : v # w => work'[v] = work[v]
  BY DEF Moved
<1>5. RecordCalm(work[w], w)'
  <2>1. (jobs[work[w].job].state = "claimed" /\ jobs[work[w].job].holder = w)'
    BY <1>4, BusyHolds
  <2>2. (\A t \in SessionIds :
           t > work[w].session => sessions[t].trigger # sessions[work[w].session].trigger)'
    BY <1>2, <1>3, <1>4 DEF Settled, RecordCalm
  <2>3. ~Interrupted(work[w].session)'
    BY <1>4 DEF Interrupted, InterruptedNow
  <2>4. work'[w].pc # "start" /\ work'[w].pc # "report"
    BY <1>4 DEF InTurn
  <2> QED
    BY <2>1, <2>2, <2>3, <2>4 DEF RecordCalm
<1> QED
  BY <1>1, <1>4, <1>5, CalmStep

(* If the worker's session is not interrupted, none of the trigger is. *)
LEMMA OwnCardClean ==
  ASSUME AgentTypes, Settled, NEW w \in Workers, work[w].session # 0,
         ~Interrupted(work[w].session)
  PROVE  \A s \in SessionIds : sessions[s].trigger = Trigger(w) => ~Interrupted(s)
<1>1. /\ work[w].session \in SessionIds /\ sessions[work[w].session].trigger = Trigger(w)
      /\ work[w].session \in Nat
  BY RecordFacts DEF Session, Trigger
<1>2. \A t \in SessionIds :
        t > work[w].session => sessions[t].trigger # sessions[work[w].session].trigger
  BY DEF Settled, RecordCalm
<1>3. ASSUME NEW s \in SessionIds, sessions[s].trigger = Trigger(w), Interrupted(s) PROVE FALSE
  <2>1. s # work[w].session /\ ~(s > work[w].session)
    BY <1>1, <1>2, <1>3
  <2>2. s < work[w].session
    BY <1>1, <2>1 DEF SessionIds
  <2>3. sessions[s].status = "deleted"
    BY <1>1, <1>3, <2>2 DEF Settled, EarlierDeleted
  <2> QED
    BY <1>3, <2>3 DEF Interrupted
<1> QED
  BY <1>3

LEMMA SameSessions ==
  ASSUME AgentTypes, Settled, UNCHANGED sessions
  PROVE  EarlierDeleted' /\ \A w \in Workers : OwnTriggerOnly(w)
<1>1. SessionIds' = SessionIds
  BY DEF SessionIds
<1> QED
  BY <1>1, LengthsAreNatural DEF Settled, EarlierDeleted, OwnTriggerOnly

(* The handler ends and leaves the tables alone. *)
LEMMA EndsCalm ==
  ASSUME AgentTypes, Settled, NEW w \in Workers, Busy(w), Moved(w, "report", 0),
         UNCHANGED <<jobs, sessions>>,
         \A s \in SessionIds : sessions[s].trigger = Trigger(w) => ~Interrupted(s)
  PROVE  Settled'
<1>1. /\ work'[w].pc = "report" /\ work'[w].session = 0 /\ work'[w].job = work[w].job
      /\ \A v \in Workers : v # w => work'[v] = work[v]
  BY DEF Moved
<1>2. RecordCalm(work[w], w)'
  <2>1. (jobs[work[w].job].state = "claimed" /\ jobs[work[w].job].holder = w)'
    BY <1>1, BusyHolds
  <2>2. (\A s \in SessionIds : sessions[s].trigger = jobs[work[w].job].trigger => ~Interrupted(s))'
    BY <1>1 DEF SessionIds, Interrupted, Trigger
  <2> QED
    BY <1>1, <2>1, <2>2 DEF RecordCalm, InTurn
<1> QED
  BY <1>1, <1>2, SameSessions, CalmStep

(* The process dies. *)
LEMMA CrashCalm ==
  ASSUME AgentTypes, Settled, NEW w \in Workers, Crash(w)
  PROVE  Settled'
<1>1. Busy(w) /\ work' = [work EXCEPT ![w] = Idle] /\ UNCHANGED <<jobs, sessions>>
  BY DEF Crash
<1>2. work'[w] = Idle /\ \A v \in Workers : v # w => work'[v] = work[v]
  BY <1>1, IdleAgain DEF AgentTypes, WorkTypes
<1>3. RecordCalm(work[w], w)'
  BY <1>2 DEF RecordCalm, Idle, InTurn
<1> QED
  BY <1>1, <1>2, <1>3, SameSessions, CalmStep

(* The turn, its retry of a session and its end. *)
LEMMA TurnCalm ==
  ASSUME AgentTypes, Settled, Calm', NEW w \in Workers,
         \/ Hydrate(w) \/ Stop(w) \/ TurnThrows(w) \/ CheckNewMessages(w) \/ CreateMessage(w)
         \/ SendMessage(w) \/ CompleteSession(w) \/ CompletionFails(w)
         \/ Catch(w) \/ MarkFailedFails(w) \/ HandlerThrows(w) \/ Resume(w)
  PROVE  Settled'
<1> DEFINE s == work[w].session
<1>1. ASSUME work[w].pc \in InTurn PROVE s \in SessionIds /\ s # 0 /\ Busy(w) /\ ~Interrupted(s)
  BY <1>1, RecordFacts DEF Settled, RecordCalm
<1>2. ASSUME UNCHANGED sessions, s \in SessionIds, ~Interrupted(s)
      PROVE  OnlySession(s) /\ ~InterruptedNow(s)
  BY <1>2 DEF OnlySession, Interrupted, InterruptedNow
<1>3. ASSUME GoesOn(w), work[w].pc \in InTurn, UNCHANGED jobs, OnlySession(s), ~InterruptedNow(s)
      PROVE  Settled'
  <2>1. PICK pc \in InTurn : Moved(w, pc, s)
    BY <1>3 DEF GoesOn
  <2> QED
    BY <1>1, <1>3, <2>1, GoesOnCalm
<1>4. ASSUME work[w].pc \in InTurn, Moved(w, "report", 0), UNCHANGED <<jobs, sessions>>
      PROVE  Settled'
  BY <1>1, <1>4, OwnCardClean, EndsCalm
<1>5. CASE \/ Hydrate(w) \/ Stop(w) \/ TurnThrows(w) \/ CheckNewMessages(w) \/ CreateMessage(w)
  <2>1. work[w].pc \in InTurn /\ GoesOn(w) /\ UNCHANGED jobs
    BY <1>5, TurnGoesOn
  <2>2. \/ UNCHANGED sessions
        \/ /\ OnlySession(s) /\ sessions'[s].status = sessions[s].status
           /\ sessions'[s].event = sessions[s].event
    BY <1>5, TurnGoesOn
  <2>3. OnlySession(s) /\ ~InterruptedNow(s)
    BY <1>1, <1>2, <2>1, <2>2 DEF Interrupted, InterruptedNow
  <2> QED
    BY <1>3, <2>1, <2>3
<1>6. CASE SendMessage(w)
  <2>1. work[w].pc \in InTurn /\ UNCHANGED <<jobs, sessions>>
    BY <1>6, SendMoves
  <2>2. PICK pc \in InTurn : Moved(w, pc, s)
    BY <1>6, SendMoves DEF InTurn
  <2> QED
    BY <1>1, <1>2, <2>1, <2>2, GoesOnCalm
<1>7. CASE CompleteSession(w) \/ CompletionFails(w)
  <2>1. work[w].pc \in InTurn /\ UNCHANGED jobs
    BY <1>7, CompletionMoves
  <2>2. CASE UNCHANGED sessions /\ Moved(w, "report", 0)
    BY <1>4, <2>1, <2>2
  <2>3. CASE UNCHANGED sessions /\ GoesOn(w)
    BY <1>1, <1>2, <1>3, <2>1, <2>3
  <2>4. CASE OnlySession(s) /\ GoesOn(w) /\ sessions'[s].status = "completed"
    <3>1. ~InterruptedNow(s)
      BY <2>4 DEF InterruptedNow
    <3> QED
      BY <1>3, <2>1, <2>4, <3>1
  <2> QED
    BY <1>7, <2>2, <2>3, <2>4, CompletionMoves
<1>8. CASE Catch(w) \/ MarkFailedFails(w)
  BY <1>1, <1>2, <1>3, <1>4, <1>8, CatchMoves
<1>9. CASE HandlerThrows(w)
  <2>1. work[w].pc \in InTurn
    BY <1>9, HandlerThrowsMoves DEF Calm
  <2> QED
    BY <1>4, <1>9, <2>1, HandlerThrowsMoves
<1>10. CASE Resume(w)
  <2>1. Busy(w) /\ s \in SessionIds /\ s # 0 /\ UNCHANGED jobs
    BY <1>10, ResumeMoves, LengthsAreNatural DEF SessionIds
  <2>2. CASE Moved(w, "hydrate", s) /\ OnlySession(s) /\ sessions'[s].status = "running"
    <3>1. ~InterruptedNow(s) /\ "hydrate" \in InTurn
      BY <2>2 DEF InterruptedNow, InTurn
    <3> QED
      BY <2>1, <2>2, <3>1, GoesOnCalm
  <2>3. CASE /\ Moved(w, "report", 0) /\ UNCHANGED sessions
             /\ sessions[s].status \in {"completed", "deleted"}
    <3>1. ~Interrupted(s)
      BY <2>3 DEF Interrupted
    <3> QED
      BY <2>1, <2>3, <3>1, OwnCardClean, EndsCalm
  <2>4. "unstarted" \notin holes'
    BY DEF Calm
  <2> QED
    BY <1>10, <2>2, <2>3, <2>4, ResumeMoves
<1> QED
  BY <1>5, <1>6, <1>7, <1>8, <1>9, <1>10

(* A card that promises a retry is followed by a report that asks for one. *)
LEMMA MarkFailedCalm ==
  ASSUME AgentTypes, Settled, NEW w \in Workers, MarkFailed(w)
  PROVE  Settled'
<1> DEFINE s == work[w].session
<1>1. /\ work[w].pc \in InTurn /\ UNCHANGED jobs /\ Moved(w, "report", 0)
      /\ OnlySession(s)
      /\ sessions'[s].event = "interrupted" =>
           work'[w].throws /\ work[w].attempt + 1 < MaxAttempts
  BY MarkFailedMoves
<1>2. s \in SessionIds /\ s # 0 /\ s \in Nat /\ Busy(w) /\ sessions[s].trigger = Trigger(w)
  BY <1>1, RecordFacts DEF Session, Trigger
<1>3. OwnTriggerOnly(w) /\ EarlierDeleted'
  BY <1>1, <1>2, OwnSessionTouched
<1>4. /\ work'[w].pc = "report" /\ work'[w].session = 0 /\ work'[w].job = work[w].job
      /\ work'[w].attempt = work[w].attempt
      /\ \A v \in Workers : v # w => work'[v] = work[v]
  BY <1>1 DEF Moved
<1>5. RecordCalm(work[w], w)'
  <2>1. (jobs[work[w].job].state = "claimed" /\ jobs[work[w].job].holder = w)'
    BY <1>1, <1>2, <1>4, BusyHolds
  <2>2. ASSUME ~WillWait(work[w])', NEW t \in SessionIds', sessions'[t].trigger = Trigger(w),
               InterruptedNow(t)
        PROVE  FALSE
    <3>1. t \in SessionIds /\ sessions[t].trigger = Trigger(w)
      BY <1>1, <2>2 DEF OnlySession, SessionIds
    <3>2. t # s
      BY <1>1, <1>4, <2>2 DEF WillWait, InterruptedNow
    <3>3. ~(t > s)
      BY <1>2, <3>1 DEF Settled, RecordCalm
    <3>4. t < s
      BY <1>2, <3>1, <3>2, <3>3 DEF SessionIds
    <3>5. sessions[t].status = "deleted"
      BY <1>2, <3>1, <3>4 DEF Settled, EarlierDeleted
    <3> QED
      BY <1>1, <2>2, <3>1, <3>2, <3>5 DEF OnlySession, InterruptedNow
  <2>3. (~WillWait(work[w]) =>
           \A t \in SessionIds :
             sessions[t].trigger = jobs[work[w].job].trigger => ~Interrupted(t))'
    BY <1>1, <1>4, <2>2 DEF Interrupted, InterruptedNow, Trigger
  <2> QED
    BY <1>4, <2>1, <2>3 DEF RecordCalm, InTurn
<1> QED
  BY <1>1, <1>2, <1>3, <1>4, <1>5, CalmStep

(* The latest session of the trigger decides how the setup goes on. *)
LEMMA SetupCalm ==
  ASSUME AgentTypes, Settled, NEW w \in Workers, SetupReads(w)
  PROVE  Settled'
<1> DEFINE s == FindByTrigger(Trigger(w))
<1>1. Busy(w) /\ UNCHANGED <<jobs, sessions>>
  BY SetupMoves
<1>2. /\ s \in 0..Len(sessions)
      /\ s = 0 => \A t \in SessionIds : sessions[t].trigger # Trigger(w)
      /\ s # 0 => /\ sessions[s].trigger = Trigger(w)
                  /\ \A t \in SessionIds : sessions[t].trigger = Trigger(w) => t <= s
  BY LatestFound, LengthsAreNatural
<1>3. s # 0 => s \in SessionIds
  BY <1>2, LengthsAreNatural DEF SessionIds
<1>4. ASSUME NEW t \in SessionIds, sessions[t].trigger = Trigger(w), t # s
      PROVE  sessions[t].status = "deleted"
  <2>1. s # 0 /\ t < s
    BY <1>2, <1>4, LengthsAreNatural DEF SessionIds
  <2> QED
    BY <1>2, <1>3, <1>4, <2>1 DEF Settled, EarlierDeleted
<1>5. CASE Status(s) = "completed" /\ Moved(w, "report", 0)
  <2>1. s # 0 /\ sessions[s].status = "completed"
    BY <1>5 DEF Status
  <2>2. \A t \in SessionIds : sessions[t].trigger = Trigger(w) => ~Interrupted(t)
    BY <1>4, <2>1 DEF Interrupted
  <2> QED
    BY <1>1, <1>5, <2>2, EndsCalm
<1>6. CASE Resumable(s) /\ Moved(w, "start", s)
  <2>1. s # 0
    BY <1>6 DEF Resumable, Status
  <2> HIDE DEF s
  <2>2. /\ work'[w].pc = "start" /\ work'[w].session = s /\ work'[w].job = work[w].job
        /\ \A v \in Workers : v # w => work'[v] = work[v]
    BY <1>6 DEF Moved
  <2>3. RecordCalm(work[w], w)'
    <3>1. (jobs[work[w].job].state = "claimed" /\ jobs[work[w].job].holder = w)'
      BY <1>1, <2>2, BusyHolds
    <3>2. \A t \in SessionIds : t > s => sessions[t].trigger # Trigger(w)
      BY <1>2, <2>1, LengthsAreNatural DEF SessionIds
    <3>3. (\A t \in SessionIds :
             t > work[w].session => sessions[t].trigger # sessions[work[w].session].trigger)'
      BY <1>1, <1>2, <2>1, <2>2, <3>2 DEF SessionIds
    <3> QED
      BY <2>1, <2>2, <3>1, <3>3 DEF RecordCalm, InTurn
  <2> QED
    BY <1>1, <2>2, <2>3, SameSessions, CalmStep
<1>7. CASE Status(s) # "completed" /\ ~Resumable(s) /\ Moved(w, "start", 0)
  <2>1. s # 0 => sessions[s].status = "deleted"
    <3>1. s # 0 => sessions[s] \in SessionRecords(posted)
      BY <1>3, ElementOfSeq DEF AgentTypes, SessionTypes, SessionIds
    <3>2. s # 0 => sessions[s].status \in {"running", "completed", "failed", "deleted"}
      BY <3>1 DEF SessionRecords
    <3> QED
      BY <1>7, <3>2 DEF Status, Resumable
  <2>2. \A t \in SessionIds : sessions[t].trigger = Trigger(w) => sessions[t].status = "deleted"
    BY <1>2, <1>4, <2>1
  <2>3. /\ work'[w].pc = "start" /\ work'[w].session = 0 /\ work'[w].job = work[w].job
        /\ \A v \in Workers : v # w => work'[v] = work[v]
    BY <1>7 DEF Moved
  <2>4. RecordCalm(work[w], w)'
    <3>1. (jobs[work[w].job].state = "claimed" /\ jobs[work[w].job].holder = w)'
      BY <1>1, <2>3, BusyHolds
    <3>2. (\A t \in SessionIds :
             sessions[t].trigger = jobs[work[w].job].trigger => sessions[t].status = "deleted")'
      BY <1>1, <2>2, <2>3 DEF SessionIds, Trigger
    <3> QED
      BY <2>3, <3>1, <3>2 DEF RecordCalm, InTurn
  <2> QED
    BY <1>1, <2>3, <2>4, SameSessions, CalmStep
<1> QED
  BY <1>5, <1>6, <1>7, SetupMoves DEF Trigger

(* A session is inserted only if all earlier ones of its trigger are deleted. *)
LEMMA InsertCalm ==
  ASSUME AgentTypes, Settled, NEW w \in Workers, InsertRunningOrSkip(w)
  PROVE  Settled'
<1> DEFINE n == Len(sessions) + 1
<1>1. At(w, "start") /\ Busy(w) /\ work[w].session = 0 /\ UNCHANGED jobs
  BY InsertMoves
<1>2. \A s \in SessionIds : sessions[s].trigger = Trigger(w) => sessions[s].status = "deleted"
  BY <1>1 DEF Settled, RecordCalm, At, Trigger
<1>3. CASE UNCHANGED sessions /\ Moved(w, "report", 0)
  <2>1. \A s \in SessionIds : sessions[s].trigger = Trigger(w) => ~Interrupted(s)
    BY <1>2 DEF Interrupted
  <2> QED
    BY <1>1, <1>3, <2>1, EndsCalm
<1>4. CASE /\ Moved(w, "hydrate", n) /\ Len(sessions') = n
           /\ \A t \in SessionIds : sessions'[t] = sessions[t]
           /\ sessions'[n].trigger = Trigger(w) /\ sessions'[n].status = "running"
  <2>0. Len(sessions) \in Nat
    BY LengthsAreNatural
  <2>1. /\ SessionIds' = SessionIds \cup {n} /\ n \notin SessionIds
        /\ \A t \in SessionIds : t < n
    BY <1>4, <2>0 DEF SessionIds
  <2>2. OwnTriggerOnly(w)
    BY <1>4, <2>0, <2>1 DEF OwnTriggerOnly
  <2>3. EarlierDeleted'
    <3>1. ASSUME NEW s \in SessionIds', NEW t \in SessionIds', s < t,
                 sessions'[s].trigger = sessions'[t].trigger
          PROVE  sessions'[s].status = "deleted"
      <4>1. s \in SessionIds
        <5>1. CASE s = n
          BY <2>0, <2>1, <3>1, <5>1 DEF SessionIds
        <5> QED
          BY <2>1, <5>1
      <4>2. CASE t = n
        BY <1>2, <1>4, <3>1, <4>1, <4>2
      <4>3. CASE t # n
        BY <1>4, <2>1, <3>1, <4>1, <4>3 DEF Settled, EarlierDeleted
      <4> QED
        BY <4>2, <4>3
    <3> QED
      BY <3>1 DEF EarlierDeleted
  <2>4. /\ work'[w].pc = "hydrate" /\ work'[w].session = n /\ work'[w].job = work[w].job
        /\ \A v \in Workers : v # w => work'[v] = work[v]
    BY <1>4 DEF Moved
  <2>5. RecordCalm(work[w], w)'
    <3>1. (jobs[work[w].job].state = "claimed" /\ jobs[work[w].job].holder = w)'
      BY <1>1, <2>4, BusyHolds
    <3>2. \A t \in SessionIds' : ~(t > n)
      BY <1>4, <2>0 DEF SessionIds
    <3>3. ~Interrupted(work[w].session)'
      BY <1>4, <2>4 DEF Interrupted
    <3> QED
      BY <2>4, <3>1, <3>2, <3>3 DEF RecordCalm
  <2> QED
    BY <1>1, <2>2, <2>3, <2>4, <2>5, CalmStep
<1> QED
  BY <1>3, <1>4, InsertMoves DEF Trigger

(* A job is closed only once no card promises its retry. *)
LEMMA ReportCalm ==
  ASSUME AgentTypes, Settled, NEW w \in Workers, Report(w)
  PROVE  Settled'
<1> DEFINE j == work[w].job
<1>1. /\ At(w, "report") /\ Busy(w) /\ UNCHANGED sessions /\ work' = [work EXCEPT ![w] = Idle]
  BY DEF Report, At, Busy
<1>2. j \in 1..Len(jobs) /\ Holds(w)
  BY <1>1, BusyHolds DEF Holds
<1>3. jobs' \in Seq(JobRecords) /\ OnlyJob(j) /\ jobs'[j].state = Outcome(w)
  BY <1>2, ReportEffect
<1>4. work'[w] = Idle /\ \A v \in Workers : v # w => work'[v] = work[v]
  BY <1>1, IdleAgain DEF AgentTypes, WorkTypes
<1>5. EarlierDeleted' /\ OwnTriggerOnly(w)
  BY <1>1, SameSessions
<1>6. OwnJobOnly(w)
  BY <1>3, LengthsAreNatural DEF OnlyJob, OwnJobOnly
<1>7. \A v \in Workers : RecordCalm(work[v], v)'
  <2>1. RecordCalm(work[w], w)'
    BY <1>4 DEF RecordCalm, Idle, InTurn
  <2> QED
    BY <1>1, <1>4, <1>5, <1>6, <2>1, OthersCalm
<1>8. OneJobEach'
  <2>1. \A i \in 1..Len(jobs) : jobs'[i].trigger = jobs[i].trigger
    BY <1>3 DEF OnlyJob
  <2> QED
    BY <1>3, <2>1 DEF Settled, OneJobEach, OnlyJob
<1>9. Promised'
  <2> SUFFICES ASSUME NEW s \in SessionIds, Interrupted(s)
               PROVE  Retrying(sessions[s].trigger)'
    BY <1>1 DEF Promised, Interrupted, SessionIds
  <2>1. PICK i \in DOMAIN jobs :
          jobs[i].trigger = sessions[s].trigger /\ jobs[i].state \in {"waiting", "claimed"}
    BY DEF Settled, Promised, Retrying
  <2>2. i \in 1..Len(jobs) /\ i \in DOMAIN jobs'
    BY <1>3, <2>1, LenProperties DEF AgentTypes, JobTypes, OnlyJob
  <2>3. CASE i # j
    BY <1>1, <1>3, <2>1, <2>2, <2>3 DEF OnlyJob, Retrying
  <2>4. CASE i = j
    <3>1. WillWait(work[w])
      BY <1>1, <2>1, <2>4 DEF Settled, RecordCalm, At
    <3>2. Outcome(w) = "waiting"
      BY <3>1, RecordFacts, AttemptsAssumption DEF Outcome, WillWait
    <3> QED
      BY <1>1, <1>3, <2>1, <2>2, <2>4, <3>2 DEF OnlyJob, Retrying
  <2> QED
    BY <2>3, <2>4
<1> QED
  BY <1>5, <1>7, <1>8, <1>9 DEF Settled

(* A new job of a trigger that has none leaves the promises alone. *)
LEMMA JobAppended ==
  ASSUME AgentTypes, Settled, NEW trigger \in Int, jobs' = Enqueued(trigger), UNCHANGED sessions,
         \A j \in 1..Len(jobs) : jobs[j].trigger # trigger
  PROVE  /\ OneJobEach' /\ Promised' /\ Len(jobs) <= Len(jobs')
         /\ \A j \in 1..Len(jobs) : jobs'[j] = jobs[j]
<1>0. jobs \in Seq(JobRecords) /\ Len(jobs) \in Nat
  BY LengthsAreNatural DEF AgentTypes, JobTypes
<1>1. /\ jobs' \in Seq(JobRecords) /\ Len(jobs') = Len(jobs) + 1
      /\ \A j \in 1..Len(jobs) : jobs'[j] = jobs[j]
      /\ jobs'[Len(jobs) + 1].trigger = trigger
  <2>1. /\ jobs' \in Seq(JobRecords) /\ Len(jobs') = Len(jobs) + 1
        /\ \A j \in 1..Len(jobs) : jobs'[j] = jobs[j]
        /\ jobs'[Len(jobs) + 1] =
             [trigger |-> trigger, state |-> "waiting", fails |-> 0, holder |-> None]
    BY <1>0, JobSent
  <2> QED
    BY <2>1
<1>2. \A j \in 1..Len(jobs') : j = Len(jobs) + 1 \/ j \in 1..Len(jobs)
  BY <1>0, <1>1
<1>3. OneJobEach'
  BY <1>1, <1>2 DEF Settled, OneJobEach
<1>4. Promised'
  <2>1. ASSUME NEW s \in SessionIds, Interrupted(s) PROVE Retrying(sessions[s].trigger)'
    <3>1. PICK j \in DOMAIN jobs :
            jobs[j].trigger = sessions[s].trigger /\ jobs[j].state \in {"waiting", "claimed"}
      BY <2>1 DEF Settled, Promised, Retrying
    <3>2. j \in 1..Len(jobs)
      BY <1>0, <3>1, LenProperties
    <3>3. j \in DOMAIN jobs' /\ jobs'[j] = jobs[j]
      BY <1>0, <1>1, <3>2, LenProperties
    <3> QED
      BY <3>1, <3>3 DEF Retrying
  <2> QED
    BY <2>1 DEF Promised, Interrupted, SessionIds
<1> QED
  BY <1>0, <1>1, <1>3, <1>4

(* A worker whose job stays as it is. *)
LEMMA JobKeptCalm ==
  ASSUME AgentTypes, Settled, UNCHANGED sessions, NEW v \in Workers, work'[v] = work[v],
         Busy(v) => jobs'[work[v].job] = jobs[work[v].job]
  PROVE  RecordCalm(work[v], v)'
<1>0. RecordCalm(work[v], v)
  BY DEF Settled
<1>1. CASE At(v, "idle")
  <2>1. work[v].pc = "idle" /\ work[v].session = 0
    BY <1>1, RecordFacts DEF At
  <2> QED
    BY <2>1 DEF RecordCalm, InTurn
<1>2. CASE Busy(v)
  <2>1. jobs'[work[v].job] = jobs[work[v].job] /\ SessionIds' = SessionIds
    BY <1>2 DEF SessionIds
  <2> QED
    BY <1>0, <2>1 DEF RecordCalm, Interrupted, WillWait
<1> QED
  BY <1>1, <1>2 DEF Busy

LEMMA UnseenCalm ==
  ASSUME AgentTypes, Settled, Calm', NEW w \in Workers, CheckForUnseen(w)
  PROVE  Settled'
<1>1. work[w].pc \in InTurn /\ UNCHANGED sessions /\ Moved(w, "report", 0)
  BY UnseenMoves
<1>2. Busy(w) /\ work[w].session # 0 /\ ~Interrupted(work[w].session)
  BY <1>1, RecordFacts DEF Settled, RecordCalm
<1>3. \A s \in SessionIds : sessions[s].trigger = Trigger(w) => ~Interrupted(s)
  BY <1>2, OwnCardClean
<1>4. CASE UNCHANGED jobs
  BY <1>1, <1>2, <1>3, <1>4, EndsCalm
<1>5. CASE /\ jobs' = Enqueued(-work[w].job)
           /\ \A j \in DOMAIN jobs : jobs[j].trigger # -work[w].job
  <2>0. work[w].job \in 1..Len(jobs) /\ -work[w].job \in Int
    BY <1>2, BusyHolds, LengthsAreNatural
  <2>a. \A j \in 1..Len(jobs) : jobs[j].trigger # -work[w].job
    BY <1>5, LenProperties DEF AgentTypes, JobTypes
  <2>1. /\ OneJobEach' /\ Promised' /\ Len(jobs) <= Len(jobs')
        /\ \A j \in 1..Len(jobs) : jobs'[j] = jobs[j]
    BY <1>1, <1>5, <2>0, <2>a, JobAppended
  <2>2. EarlierDeleted'
    BY <1>1, SameSessions
  <2>3. /\ work'[w].pc = "report" /\ work'[w].session = 0 /\ work'[w].job = work[w].job
        /\ \A v \in Workers : v # w => work'[v] = work[v]
    BY <1>1 DEF Moved
  <2>4. ASSUME NEW v \in Workers, v # w PROVE RecordCalm(work[v], v)'
    BY <1>1, <2>1, <2>3, <2>4, BusyHolds, JobKeptCalm
  <2>5. RecordCalm(work[w], w)'
    <3>1. (jobs[work[w].job].state = "claimed" /\ jobs[work[w].job].holder = w)'
      BY <1>2, <2>0, <2>1, <2>3, BusyHolds
    <3>2. (\A s \in SessionIds :
             sessions[s].trigger = jobs[work[w].job].trigger => ~Interrupted(s))'
      BY <1>1, <1>3, <2>0, <2>1, <2>3 DEF SessionIds, Interrupted, Trigger
    <3> QED
      BY <2>3, <3>1, <3>2 DEF RecordCalm, InTurn
  <2> QED
    BY <2>1, <2>2, <2>4, <2>5 DEF Settled
<1>6. "repeated" \notin holes'
  BY DEF Calm
<1> QED
  BY <1>4, <1>5, <1>6, UnseenMoves

LEMMA ListenerSendsCalm ==
  ASSUME AgentTypes, Settled, ListenerSends
  PROVE  Settled'
<1>1. jobs' = Enqueued(heard + 1) /\ UNCHANGED <<sessions, work>>
  BY DEF ListenerSends
<1>2. heard + 1 \in Int /\ \A j \in 1..Len(jobs) : jobs[j].trigger # heard + 1
  <2>1. heard \in Nat
    BY LengthsAreNatural
  <2>2. \A j \in 1..Len(jobs) : jobs[j].trigger <= heard /\ jobs[j].trigger \in Int
    BY JobFacts DEF AgentTypes, JobTypes
  <2> QED
    BY <2>1, <2>2
<1>3. /\ OneJobEach' /\ Promised' /\ \A j \in 1..Len(jobs) : jobs'[j] = jobs[j]
  BY <1>1, <1>2, JobAppended
<1>4. EarlierDeleted'
  BY <1>1, SameSessions
<1>5. ASSUME NEW v \in Workers PROVE RecordCalm(work[v], v)'
  BY <1>1, <1>3, BusyHolds, JobKeptCalm
<1> QED
  BY <1>3, <1>4, <1>5 DEF Settled

(* The queue hands a job over or takes it back: it stays open. *)
LEMMA OpenStaysOpen ==
  ASSUME AgentTypes, Settled, NEW j \in 1..Len(jobs), jobs' \in Seq(JobRecords), OnlyJob(j),
         jobs'[j].state \in {"waiting", "claimed"}, UNCHANGED sessions
  PROVE  OneJobEach' /\ Promised' /\ EarlierDeleted'
<1>1. OneJobEach'
  <2>1. \A i \in 1..Len(jobs) : jobs'[i].trigger = jobs[i].trigger
    BY DEF OnlyJob
  <2> QED
    BY <2>1 DEF Settled, OneJobEach, OnlyJob
<1>2. Promised'
  <2>1. ASSUME NEW s \in SessionIds, Interrupted(s) PROVE Retrying(sessions[s].trigger)'
    <3>1. PICK i \in DOMAIN jobs :
            jobs[i].trigger = sessions[s].trigger /\ jobs[i].state \in {"waiting", "claimed"}
      BY <2>1 DEF Settled, Promised, Retrying
    <3>2. i \in 1..Len(jobs) /\ i \in DOMAIN jobs'
      BY <3>1, LenProperties DEF AgentTypes, JobTypes, OnlyJob
    <3>3. jobs'[i].trigger = jobs[i].trigger /\ jobs'[i].state \in {"waiting", "claimed"}
      BY <3>1, <3>2 DEF OnlyJob
    <3> QED
      BY <3>1, <3>2, <3>3 DEF Retrying
  <2> QED
    BY <2>1 DEF Promised, Interrupted, SessionIds
<1> QED
  BY <1>1, <1>2, SameSessions

LEMMA ClaimCalm ==
  ASSUME AgentTypes, Settled, NEW w \in Workers, NEW j \in DOMAIN jobs, Claim(w, j)
  PROVE  Settled'
<1>0. jobs \in Seq(JobRecords) /\ work \in [Workers -> WorkRecords]
  BY DEF AgentTypes, JobTypes, WorkTypes
<1>1. /\ j \in 1..Len(jobs) /\ jobs[j].state = "waiting" /\ UNCHANGED sessions
      /\ jobs' = Held(j, "claimed", w)
  BY <1>0, LenProperties DEF Claim, Held
<1>2. /\ jobs' \in Seq(JobRecords) /\ OnlyJob(j)
      /\ jobs'[j].state = "claimed" /\ jobs'[j].holder = w
  BY <1>0, <1>1, JobHeld
<1>3. OneJobEach' /\ Promised' /\ EarlierDeleted'
  BY <1>1, <1>2, OpenStaysOpen
<1>4. \A v \in Workers : v # w => work'[v] = work[v]
  BY <1>0 DEF Claim
<1>5. work'[w].pc = "setup" /\ work'[w].job = j /\ work'[w].session = 0
  BY <1>0 DEF Claim, Idle
<1>6. ASSUME NEW v \in Workers, v # w PROVE RecordCalm(work[v], v)'
  <2>1. Busy(v) => jobs'[work[v].job] = jobs[work[v].job]
    BY <1>1, <1>2, BusyHolds DEF OnlyJob
  <2> QED
    BY <1>1, <1>4, <1>6, <2>1, JobKeptCalm
<1>7. RecordCalm(work[w], w)'
  BY <1>2, <1>5 DEF RecordCalm, InTurn
<1> QED
  BY <1>3, <1>6, <1>7 DEF Settled

LEMMA ClaimLapsesCalm ==
  ASSUME AgentTypes, Settled, Calm', NEW j \in DOMAIN jobs, ClaimLapses(j)
  PROVE  Settled'
<1>0. jobs \in Seq(JobRecords)
  BY DEF AgentTypes, JobTypes
<1>1. /\ j \in 1..Len(jobs) /\ UNCHANGED <<sessions, work>>
      /\ jobs' = Held(j, "waiting", None)
  BY <1>0, LenProperties DEF ClaimLapses, Held
<1>2. jobs' \in Seq(JobRecords) /\ OnlyJob(j) /\ jobs'[j].state = "waiting"
  BY <1>0, <1>1, JobHeld
<1>3. OneJobEach' /\ Promised' /\ EarlierDeleted'
  BY <1>1, <1>2, OpenStaysOpen
<1>4. Deserted(j)
  BY DEF ClaimLapses, Calm
<1>5. ASSUME NEW v \in Workers PROVE RecordCalm(work[v], v)'
  <2>1. Busy(v) => jobs'[work[v].job] = jobs[work[v].job]
    BY <1>2, <1>4, BusyHolds DEF Deserted, OnlyJob
  <2> QED
    BY <1>1, <2>1, JobKeptCalm
<1> QED
  BY <1>3, <1>5 DEF Settled

(* Outside of the turns no session is interrupted, and deleted ones stay so. *)
LEMMA OutsideCalm ==
  ASSUME AgentTypes, Settled, UNCHANGED <<jobs, work>>, NEW s \in SessionIds, OnlySession(s),
         InterruptedNow(s) => Interrupted(s),
         sessions[s].status = "deleted" => sessions'[s].status = "deleted"
  PROVE  Settled'
<1>1. SessionIds' = SessionIds
  BY DEF OnlySession, SessionIds
<1>2. \A t \in SessionIds :
        /\ sessions'[t].trigger = sessions[t].trigger
        /\ InterruptedNow(t) => Interrupted(t)
        /\ sessions[t].status = "deleted" => sessions'[t].status = "deleted"
  BY DEF OnlySession, Interrupted, InterruptedNow
<1>3. OneJobEach'
  BY DEF Settled, OneJobEach
<1>4. EarlierDeleted'
  BY <1>1, <1>2 DEF Settled, EarlierDeleted
<1>5. Promised'
  <2>1. ASSUME NEW t \in SessionIds, InterruptedNow(t) PROVE Retrying(sessions[t].trigger)'
    <3>1. Retrying(sessions[t].trigger)
      BY <1>2, <2>1 DEF Settled, Promised
    <3> QED
      BY <1>2, <3>1 DEF Retrying
  <2> QED
    BY <1>1, <2>1 DEF Promised, Interrupted, InterruptedNow
<1>6. ASSUME NEW v \in Workers PROVE RecordCalm(work[v], v)'
  <2>0. RecordCalm(work[v], v)
    BY DEF Settled
  <2>1. work[v].session # 0 => work[v].session \in SessionIds
    BY RecordFacts
  <2>2. (work[v].session # 0 =>
           \A t \in SessionIds :
             t > work[v].session => sessions[t].trigger # sessions[work[v].session].trigger)'
    BY <1>1, <1>2, <2>0, <2>1 DEF RecordCalm
  <2>3. (work[v].pc = "start" /\ work[v].session = 0 =>
           \A t \in SessionIds :
             sessions[t].trigger = jobs[work[v].job].trigger => sessions[t].status = "deleted")'
    BY <1>1, <1>2, <2>0 DEF RecordCalm
  <2>4. (work[v].pc \in InTurn => ~Interrupted(work[v].session))'
    <3>1. work[v].pc \in InTurn => work[v].session \in SessionIds
      BY <2>1, RecordFacts
    <3> QED
      BY <1>2, <2>0, <3>1 DEF RecordCalm, Interrupted, InterruptedNow
  <2>5. (work[v].pc = "report" /\ ~WillWait(work[v]) =>
           \A t \in SessionIds :
             sessions[t].trigger = jobs[work[v].job].trigger => ~Interrupted(t))'
    BY <1>1, <1>2, <2>0 DEF RecordCalm, Interrupted, InterruptedNow, WillWait
  <2> QED
    BY <2>0, <2>2, <2>3, <2>4, <2>5 DEF RecordCalm
<1> QED
  BY <1>3, <1>4, <1>5, <1>6 DEF Settled

LEMMA SettledStep ==
  ASSUME AgentTypes, [Next]_vars, Settled, Calm'
  PROVE  Settled'
<1>1. ASSUME UNCHANGED <<jobs, sessions, work>> PROVE Settled'
  <2>1. OneJobEach' /\ EarlierDeleted' /\ Promised'
    BY <1>1
    DEF Settled, OneJobEach, EarlierDeleted, Promised, SessionIds, Interrupted, Retrying
  <2>2. \A v \in Workers : RecordCalm(work[v], v)'
    BY <1>1, JobKeptCalm
  <2> QED
    BY <2>1, <2>2 DEF Settled
<1>2. ASSUME NEW w \in Workers, WorkerStep(w) PROVE Settled'
  BY <1>2, TurnCalm, MarkFailedCalm, SetupCalm, InsertCalm, ReportCalm, UnseenCalm
  DEF WorkerStep
<1>3. ASSUME NEW w \in Workers, WorkerFails(w) PROVE Settled'
  BY <1>3, TurnCalm, CrashCalm DEF WorkerFails
<1>4. ASSUME NEW w \in Workers, NEW j \in DOMAIN jobs, Claim(w, j) PROVE Settled'
  BY <1>4, ClaimCalm
<1>5. ASSUME NEW j \in DOMAIN jobs, ClaimLapses(j) PROVE Settled'
  BY <1>5, ClaimLapsesCalm
<1>6. CASE Post \/ ListenerDecides \/ FindOrphaned
  BY <1>1, <1>6 DEF Post, ListenerDecides, FindOrphaned
<1>7. CASE ListenerSends
  BY <1>7, ListenerSendsCalm
<1>8. ASSUME NEW s \in orphans, FailOrphan(s) PROVE Settled'
  <2>1. s \in SessionIds /\ UNCHANGED <<jobs, work>>
    BY <1>8, SweepMoves
  <2>2. CASE UNCHANGED sessions
    BY <1>1, <2>1, <2>2
  <2>3. CASE /\ OnlySession(s) /\ sessions[s].status = "running"
             /\ sessions'[s].status = "failed" /\ sessions'[s].event = "failed"
    BY <2>1, <2>3, OutsideCalm DEF InterruptedNow
  <2> QED
    BY <1>8, <2>2, <2>3, SweepMoves
<1>9. ASSUME NEW s \in doomed, MarkDeleted(s) PROVE Settled'
  <2>1. s \in SessionIds /\ UNCHANGED <<jobs, work>>
    BY <1>9, DeletionMoves
  <2>2. CASE UNCHANGED sessions
    BY <1>1, <2>1, <2>2
  <2>3. CASE OnlySession(s) /\ sessions'[s].status = "deleted"
    BY <2>1, <2>3, OutsideCalm DEF InterruptedNow
  <2> QED
    BY <1>9, <2>2, <2>3, DeletionMoves
<1>10. ASSUME NEW s \in purge, PurgeReplies(s) PROVE Settled'
  BY <1>10, PurgeMoves, OutsideCalm DEF InterruptedNow, Interrupted
<1>11. ASSUME NEW s \in purge, PurgeFails(s) PROVE Settled'
  BY <1>1, <1>11 DEF PurgeFails
<1>12. ASSUME NEW m \in Messages, DeleteMessage(m) \/ ListSessions(m) \/ DeletionThrows(m)
       PROVE  Settled'
  BY <1>1, <1>12 DEF DeleteMessage, ListSessions, DeletionThrows
<1>13. CASE UNCHANGED vars
  BY <1>1, <1>13 DEF vars
<1> QED
  BY <1>2, <1>3, <1>4, <1>5, <1>6, <1>7, <1>8, <1>9, <1>10, <1>11, <1>12, <1>13 DEF Next

(***************************************************************************)
(* A card that says "Interrupted, retrying" tells the truth: a job of its  *)
(* trigger is open, unless an attempt failed before it had a session, a    *)
(* claim lapsed under its worker, or a follow-up was sent twice. willRetry *)
(* of the session and the count of the queue agree for any MaxAttempts.    *)
(***************************************************************************)
THEOREM CardsKeepTheirWord == Spec => []CardHonest
<1>1. Init => CardInv
  BY DEF Init, CardInv, Settled, OneJobEach, EarlierDeleted, Promised, SessionIds, RecordCalm,
         Idle, InTurn
<1>2. AgentTypes /\ CardInv /\ [Next]_vars => CardInv'
  <2> SUFFICES ASSUME AgentTypes, CardInv, [Next]_vars, Calm' PROVE Settled'
    BY DEF CardInv
  <2>1. Calm
    BY HolesStay DEF Calm
  <2> QED
    BY <2>1, SettledStep DEF CardInv
<1>3. CardInv => CardHonest
  BY DEF CardInv, Calm, Settled, Promised, Interrupted, CardHonest
<1> QED
  BY <1>1, <1>2, <1>3, AgentTypesHold, PTL DEF Spec
=============================================================================
