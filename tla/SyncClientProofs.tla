--------------------------- MODULE SyncClientProofs ---------------------------
(* Proofs about SyncClient, for any set of visible entries, any limits of    *)
(* pages and buffer, and any number of appends and failures.                 *)
EXTENDS SyncClient, FiniteSetTheorems, WellFoundedInduction, TLAPS

-----------------------------------------------------------------------------
(* Sets of ids, their least element and the first n of them.                 *)

(* A non-empty set of naturals has a least element. *)
LEMMA LeastNatural ==
  ASSUME NEW S \in SUBSET Nat, S # {}
  PROVE  \E x \in S : \A y \in S : x <= y
<1>1. PICK x \in S : \A y \in S : <<y, x>> \notin OpToRel(<, Nat)
  BY NatLessThanWellFounded, WFMin
<1>2. ASSUME NEW y \in S PROVE ~(y < x)
  BY <1>1 DEF OpToRel
<1> QED BY <1>2

(* The ids of S below s. *)
Below(S, s) == {t \in S : t < s}

LEMMA BelowIsFinite ==
  ASSUME NEW S, IsFiniteSet(S), NEW s
  PROVE  IsFiniteSet(Below(S, s)) /\ Cardinality(Below(S, s)) \in Nat
BY FS_Subset, FS_CardinalityType DEF Below

LEMMA SmallestIsLeast ==
  ASSUME NEW S \in SUBSET Nat, S # {}
  PROVE  Smallest(S) \in S /\ \A t \in S : Smallest(S) <= t
BY LeastNatural DEF Smallest

(* Fewer than n are all there are. *)
LEMMA ShortIsComplete ==
  ASSUME NEW S \in SUBSET Nat, IsFiniteSet(S), NEW n \in Nat,
         Cardinality(FirstOf(S, n)) < n
  PROVE  FirstOf(S, n) = S
<1> DEFINE F == FirstOf(S, n)
<1>1. F \in SUBSET S BY DEF FirstOf
<1>2. IsFiniteSet(F) /\ Cardinality(F) \in Nat BY <1>1, FS_Subset, FS_CardinalityType
<1>3. ASSUME S \ F # {} PROVE FALSE
  <2>1. PICK s \in S \ F : \A t \in S \ F : s <= t
    <3>1. S \ F \in SUBSET Nat OBVIOUS
    <3> HIDE DEF F
    <3> QED BY <1>3, <3>1, LeastNatural
  <2>2. ~(Cardinality(Below(S, s)) < n) BY <2>1 DEF FirstOf, Below
  <2>3. Below(S, s) \in SUBSET F
    <3> HIDE DEF F
    <3> SUFFICES ASSUME NEW t \in S, t < s, t \notin F PROVE FALSE
      BY DEF Below
    <3>1. s <= t BY <2>1
    <3>2. s \in Nat /\ t \in Nat BY <2>1
    <3> QED BY <3>1, <3>2
  <2>4. Cardinality(Below(S, s)) <= Cardinality(F)
    <3> HIDE DEF F
    <3> QED BY <1>2, <2>3, FS_Subset
  <2>5. Cardinality(Below(S, s)) \in Nat BY BelowIsFinite
  <2> QED BY <1>2, <2>2, <2>4, <2>5
<1> QED BY <1>1, <1>3

(* The first n ids leave out none below one of theirs. *)
LEMMA FirstOfIsInitial ==
  ASSUME NEW S \in SUBSET Nat, IsFiniteSet(S), NEW n \in Nat,
         NEW last \in FirstOf(S, n), NEW s \in S, s <= last
  PROVE  s \in FirstOf(S, n)
<1>1. Cardinality(Below(S, last)) < n /\ last \in Nat BY DEF FirstOf, Below
<1>2. Below(S, s) \in SUBSET Below(S, last)
  <2>1. ASSUME NEW t \in S, t < s PROVE t < last BY <1>1, <2>1
  <2> QED BY <2>1 DEF Below
<1>3. Cardinality(Below(S, s)) <= Cardinality(Below(S, last))
  BY <1>2, BelowIsFinite, FS_Subset
<1>4. Cardinality(Below(S, s)) \in Nat /\ Cardinality(Below(S, last)) \in Nat
  BY BelowIsFinite
<1> QED BY <1>1, <1>3, <1>4 DEF FirstOf, Below
LEMMA FirstOfIsSubset ==
  ASSUME NEW S, NEW n PROVE FirstOf(S, n) \subseteq S
BY DEF FirstOf

(* The log is finite. *)
LEMMA PendingIsFinite ==
  ASSUME TypeOK, NEW after
  PROVE  Pending(after) \in SUBSET Nat /\ IsFiniteSet(Pending(after))
<1>1. Pending(after) \subseteq 1..head BY DEF TypeOK, LogTypeOK, Pending
<1>2. head \in Nat BY DEF TypeOK, LogTypeOK
<1>3. IsFiniteSet(1..head) BY <1>2, FS_Interval
<1> QED BY <1>1, <1>2, <1>3, FS_Subset

-----------------------------------------------------------------------------
(* Types.                                                                    *)

RunRecords ==
  [pc : {"none", "load", "fetch", "reply", "apply", "heal", "land", "finish"},
   stale : BOOLEAN, through : Nat \cup {NoPosition}, page : SUBSET Visible,
   short : BOOLEAN, pages : Nat, head : Nat, snapshot : Nat]

(* The tab never holds more than finitely many entries. *)
FinitelyMany == IsFiniteSet(run.page) /\ IsFiniteSet(buffer)

LEMMA RunTypes ==
  ASSUME run \in RunRecords
  PROVE  IdleRun \in RunRecords /\ NewRun \in RunRecords /\ Retired \in RunRecords
BY DEF IdleRun, NewRun, Retired, RunRecords, NoPosition, Running

LEMMA LargerType ==
  ASSUME NEW a \in Nat, NEW b \in Nat
  PROVE  /\ Larger(a, b) \in Nat
         /\ Larger(a, b) = a \/ Larger(a, b) = b
BY DEF Larger

LEMMA RunCatchUpType ==
  ASSUME NEW r \in RunRecords, run \in RunRecords, queued \in BOOLEAN, RunCatchUp(r)
  PROVE  run' \in RunRecords /\ queued' \in BOOLEAN
<1>1. run' \in RunRecords BY RunTypes DEF RunCatchUp
<1>2. queued' \in BOOLEAN BY Zenon DEF RunCatchUp
<1> QED BY <1>1, <1>2

-----------------------------------------------------------------------------
(* A step keeps the types: the server and the link. *)
LEMMA ServerKeepsTypes ==
  ASSUME TypeOK, Append \/ Prune \/ EmitLost
  PROVE  TypeOK'
<1> USE DEF TypeOK, LogTypeOK, serverVars, logVars, linkVars, gateVars, engineVars, landedVars,
            historyVars
<1>1. CASE Append
  <2>1. head' \in Nat /\ floor' \in Nat BY <1>1 DEF Append, AppendEntries
  <2>2. retained' \in SUBSET (1..head')
    <3>1. head' = head + 1 /\ retained' = retained \cup ((head + 1)..(head + 1))
      BY <1>1 DEF Append, AppendEntries
    <3> QED BY <3>1
  <2>3. unsent' \subseteq Visible BY <1>1 DEF Append
  <2> QED BY <1>1, <2>1, <2>2, <2>3 DEF Append
<1>2. CASE Prune
  <2>1. PICK victims \in SUBSET retained : PruneEntries(victims) BY <1>2 DEF Prune
  <2>2. head' = head /\ retained' \subseteq retained BY <2>1 DEF PruneEntries
  <2>3. floor' \in Nat BY <2>1 DEF PruneEntries
  <2> QED BY <1>2, <2>2, <2>3 DEF Prune
<1>3. CASE EmitLost
  BY <1>3 DEF EmitLost, Fault, Trouble
<1> QED BY <1>1, <1>2, <1>3

LEMMA DeliveryKeepsTypes ==
  ASSUME TypeOK, NEW i \in unsent, Deliver(i), troubles' \in Nat,
         holes' \subseteq {"fetch", "entry", "live", "lost", "order", "early", "blind"}
  PROVE  TypeOK'
<1>1. run' \in RunRecords
  BY RunTypes DEF TypeOK, Deliver, HandleIncoming, gateVars, RunRecords
<1>2. /\ unsent' \subseteq Visible /\ buffer' \subseteq Visible /\ inflight' \subseteq Visible
  BY DEF TypeOK, Deliver, HandleIncoming, gateVars
<1>3. paused' \in BOOLEAN /\ recovery' \in BOOLEAN /\ timer' \in BOOLEAN
  BY DEF TypeOK, Deliver, HandleIncoming, gateVars, OnRecoveryRequired
<1> QED BY <1>1, <1>2, <1>3
        DEF TypeOK, Deliver, LogTypeOK, logVars, linkVars, RunRecords

LEMMA LinkKeepsTypes ==
  ASSUME TypeOK,
         Disconnect \/ Connect \/ ConnectivityResume \/ JoinRooms \/ WindowCloses
  PROVE  TypeOK'
<1> USE DEF TypeOK, LogTypeOK, serverVars, logVars, linkVars, gateVars, engineVars, landedVars,
            historyVars
<1>0. run \in RunRecords /\ Retired \in RunRecords BY RunTypes DEF RunRecords
<1>1. CASE Disconnect
  <2>1. troubles' \in Nat BY <1>1 DEF Disconnect, Trouble
  <2>2. window' \in {"none", "connect", "resume"} BY <1>1 DEF Disconnect
  <2> QED BY <1>1, <2>1, <2>2 DEF Disconnect
<1>2. CASE Connect BY <1>0, <1>2 DEF Connect, BeginCatchUpCycle, RunRecords
<1>3. CASE ConnectivityResume
  <2>1. troubles' \in Nat BY <1>3 DEF ConnectivityResume, Trouble
  <2> QED BY <1>0, <1>3, <2>1 DEF ConnectivityResume, BeginCatchUpCycle, RunRecords
<1>4. CASE JoinRooms BY <1>4 DEF JoinRooms
<1>5. CASE WindowCloses
  <2>1. run' \in RunRecords /\ queued' \in BOOLEAN BY <1>0, <1>5, RunCatchUpType DEF WindowCloses
  <2> QED BY <1>5, <2>1 DEF WindowCloses, RunRecords
<1> QED BY <1>1, <1>2, <1>3, <1>4, <1>5
-----------------------------------------------------------------------------
(* The steps of a run. *)
LEMMA ReadsKeepTypes ==
  ASSUME TypeOK, FinitelyMany, LoadCursor \/ FetchEntries \/ Reply \/ SnapshotRead
  PROVE  TypeOK'
<1> USE DEF TypeOK, LogTypeOK, serverVars, logVars, linkVars, gateVars, engineVars, landedVars,
            historyVars
<1>0. run \in RunRecords BY DEF RunRecords
<1>1. CASE LoadCursor
  <2>1. run' \in RunRecords BY <1>0, <1>1 DEF LoadCursor, RunRecords
  <2> QED BY <1>1, <2>1 DEF LoadCursor, RunRecords
<1>2. CASE FetchEntries
  <2>1. FirstOf(Pending(run.through), PageLimit) \in SUBSET Visible
    BY FirstOfIsSubset DEF Pending
  <2>2. run' \in RunRecords
    <3>1. PICK S \in SUBSET Visible : run' = [run EXCEPT !.pc = "reply", !.page = S]
      BY <1>2, <2>1 DEF FetchEntries
    <3> QED BY <1>0, <3>1 DEF RunRecords
  <2> QED BY <1>2, <2>2 DEF FetchEntries, RunRecords
<1>3. CASE Reply
  <2>1. seenHead' \in Nat
    <3>1. Larger(seenHead, head) \in Nat BY LargerType
    <3> QED BY <1>3, <3>1 DEF Reply, NoteSeenHead
  <2>2. recovery' \in BOOLEAN BY <1>3, Zenon DEF Reply, BeginHeal
  <2>3. holes' \subseteq {"fetch", "entry", "live", "lost", "order", "early", "blind"}
    BY <1>3 DEF Reply
  <2>4. run' \in RunRecords
    <3>1. PICK n \in Nat : n = run.pages + 1 BY <1>0 DEF RunRecords
    <3>2. Cardinality(run.page) \in Nat BY FS_CardinalityType DEF FinitelyMany
    <3>3. (Cardinality(run.page) < PageLimit) \in BOOLEAN BY <3>2, ClientLimitsAssumption
    <3>4. PICK b \in BOOLEAN : b = (Cardinality(run.page) < PageLimit) BY <3>3, Zenon
    <3>5. \/ run' = [run EXCEPT !.pc = "heal", !.head = head, !.page = {}]
          \/ run' = [run EXCEPT !.pc = "finish"]
          \/ run' = [run EXCEPT !.pc = "apply", !.head = head, !.pages = n, !.short = b]
      BY <1>3, <3>1, <3>4, Zenon DEF Reply, BeginHeal
    <3>6. CASE run' = [run EXCEPT !.pc = "heal", !.head = head, !.page = {}]
      BY <1>0, <3>6 DEF RunRecords
    <3>7. CASE run' = [run EXCEPT !.pc = "finish"]
      BY <1>0, <3>7 DEF RunRecords
    <3>8. CASE run' = [run EXCEPT !.pc = "apply", !.head = head, !.pages = n, !.short = b]
      <4> HIDE DEF TypeOK
      <4>1. head \in Nat BY DEF TypeOK, LogTypeOK
      <4> QED BY <1>0, <3>8, <4>1, ZenonT(30) DEF RunRecords
    <3> QED BY <3>5, <3>6, <3>7, <3>8
  <2> QED BY <1>3, <2>1, <2>2, <2>3, <2>4 DEF Reply, RunRecords
<1>4. CASE SnapshotRead
  <2>1. run' \in RunRecords BY <1>0, <1>4 DEF SnapshotRead, RunRecords
  <2> QED BY <1>4, <2>1 DEF SnapshotRead, RunRecords
<1> QED BY <1>1, <1>2, <1>3, <1>4

LEMMA LandingsKeepTypes ==
  ASSUME TypeOK, ApplyEntry \/ SnapshotLands \/ SpliceNext,
         run.page # {} \/ SnapshotLands
  PROVE  TypeOK'
<1> USE DEF TypeOK, LogTypeOK, serverVars, logVars, linkVars, gateVars, engineVars, landedVars,
            historyVars
<1>0. run \in RunRecords /\ run.page \in SUBSET Nat BY VisibleAssumption DEF RunRecords
<1>1. CASE ApplyEntry
  <2>1. Smallest(run.page) \in Visible /\ Smallest(run.page) \in Nat
    <3>1. run.page # {} BY <1>1 DEF ApplyEntry, SnapshotLands
    <3> QED BY <1>0, <3>1, SmallestIsLeast
  <2>2. PICK i \in Visible :
          /\ i \in Nat /\ Land(i)
          /\ run' = AfterPage([run EXCEPT !.page = @ \ {i}, !.through = i])
    BY <1>1, <2>1 DEF ApplyEntry
  <2>3. applied' \subseteq Visible /\ cursor' \in Nat /\ inflight' = inflight
    BY <2>2, LargerType DEF Land
  <2>4. run' \in RunRecords
    <3>1. PICK r : r = [run EXCEPT !.page = @ \ {i}, !.through = i] OBVIOUS
    <3>2. r \in RunRecords BY <1>0, <2>2, <3>1 DEF RunRecords
    <3>3. run' = AfterPage(r) BY <2>2, <3>1
    <3> QED BY <3>2, <3>3 DEF AfterPage, RunRecords
  <2>5. failedEntry' \in Nat BY <1>1 DEF ApplyEntry
  <2> QED BY <1>1, <2>3, <2>4, <2>5 DEF ApplyEntry, RunRecords
<1>2. CASE SnapshotLands
  <2>1. /\ run.head \in Nat /\ Larger(cursor, run.head) \in Nat
        /\ Larger(seenHead, run.head) \in Nat
    BY <1>0, LargerType DEF RunRecords
  <2>2. cursor' \in Nat /\ seenHead' \in Nat BY <1>2, <2>1 DEF SnapshotLands
  <2>3. recovery' \in BOOLEAN BY <1>2 DEF SnapshotLands
  <2>4. run' \in RunRecords BY <1>0, <1>2, <2>1 DEF SnapshotLands, RunRecords
  <2>5. applied' \subseteq Visible BY <1>2 DEF SnapshotLands
  <2> QED BY <1>2, <2>2, <2>3, <2>4, <2>5 DEF SnapshotLands, RunRecords
<1>3. CASE SpliceNext
  <2>1. Smallest(run.page) \in Visible /\ Smallest(run.page) \in Nat
    BY <1>0, <1>3, SmallestIsLeast DEF SpliceNext
  <2>2. PICK i \in Visible :
          /\ i \in Nat
          /\ Land(i) \/ UNCHANGED landedVars
          /\ run' = [run EXCEPT !.page = @ \ {i}]
    BY <1>3, <2>1, Zenon DEF SpliceNext
  <2>3. applied' \subseteq Visible /\ cursor' \in Nat /\ inflight' = inflight
    BY <2>2, LargerType DEF Land
  <2>4. run' \in RunRecords BY <1>0, <2>2 DEF RunRecords
  <2> QED BY <1>3, <2>3, <2>4 DEF SpliceNext, RunRecords
<1> QED BY <1>1, <1>2, <1>3
-----------------------------------------------------------------------------
LEMMA EndsKeepTypes ==
  ASSUME TypeOK, LeavePaused \/ TakeBuffer \/ Reopen \/ RecoveryTimer
  PROVE  TypeOK'
<1> USE DEF TypeOK, LogTypeOK, serverVars, logVars, linkVars, gateVars, engineVars, landedVars,
            historyVars
<1>0. run \in RunRecords /\ IdleRun \in RunRecords /\ NewRun \in RunRecords
  BY RunTypes DEF RunRecords
<1>1. CASE LeavePaused
  <2>1. run' \in RunRecords BY <1>0, <1>1 DEF LeavePaused
  <2>2. timer' \in BOOLEAN BY <1>1, Zenon DEF LeavePaused
  <2>3. buffer' \subseteq Visible BY <1>1 DEF LeavePaused
  <2>4. holes' \subseteq {"fetch", "entry", "live", "lost", "order", "early", "blind"}
    BY <1>1 DEF LeavePaused
  <2> QED BY <1>1, <2>1, <2>2, <2>3, <2>4 DEF LeavePaused, RunRecords
<1>2. CASE TakeBuffer
  <2>1. run' \in RunRecords BY <1>0, <1>2 DEF TakeBuffer, RunRecords
  <2> QED BY <1>2, <2>1 DEF TakeBuffer, RunRecords
<1>3. CASE Reopen
  <2>1. run' \in RunRecords BY <1>0, <1>3 DEF Reopen
  <2> QED BY <1>3, <2>1 DEF Reopen, RunRecords
<1>4. CASE RecoveryTimer
  <2>1. run' \in RunRecords /\ queued' \in BOOLEAN
    BY <1>0, <1>4, RunCatchUpType DEF RecoveryTimer
  <2> QED BY <1>4, <2>1 DEF RecoveryTimer, RunRecords
<1> QED BY <1>1, <1>2, <1>3, <1>4

(* The failures of a run, live events and the heartbeat. *)
LEMMA FailuresKeepTypes ==
  ASSUME TypeOK, RunFails \/ (\E i \in inflight : LiveFails(i)),
         EntryFails => run.page # {}
  PROVE  TypeOK'
<1> USE DEF TypeOK, LogTypeOK, serverVars, logVars, linkVars, gateVars, engineVars, landedVars,
            historyVars
<1>0. run \in RunRecords /\ IdleRun \in RunRecords
  BY RunTypes DEF RunRecords
<1>1. CASE FetchFails
  <2>1. run' \in RunRecords BY <1>0, <1>1 DEF FetchFails, RunRecords
  <2>2. troubles' \in Nat BY <1>1 DEF FetchFails, Fault, Trouble
  <2> QED BY <1>1, <2>1, <2>2 DEF FetchFails, RunRecords
<1>2. CASE EntryFails
  <2>1. Smallest(run.page) \in Nat
    <3>1. run.page \in SUBSET Nat /\ run.page # {} BY <1>0, <1>2, VisibleAssumption DEF RunRecords
    <3> QED BY <3>1, SmallestIsLeast
  <2>2. run' \in RunRecords BY <1>0, <1>2 DEF EntryFails, BeginHeal, RunRecords
  <2>3. troubles' \in Nat BY <1>2 DEF EntryFails, Fault, Trouble
  <2>4. failedEntry' \in Nat BY <1>2, <2>1 DEF EntryFails
  <2>5. recovery' \in BOOLEAN BY <1>2, Zenon DEF EntryFails, BeginHeal
  <2>6. holes' \subseteq {"fetch", "entry", "live", "lost", "order", "early", "blind"}
    BY <1>2 DEF EntryFails
  <2> QED BY <1>2, <2>2, <2>3, <2>4, <2>5, <2>6 DEF EntryFails, RunRecords
<1>3. CASE SnapshotFails
  <2>1. run' \in RunRecords BY <1>0, <1>3 DEF SnapshotFails, RunRecords
  <2>2. troubles' \in Nat BY <1>3 DEF SnapshotFails, Fault, Trouble
  <2> QED BY <1>3, <2>1, <2>2 DEF SnapshotFails, RunRecords
<1>4. CASE SpliceFails
  <2>1. run' \in RunRecords BY <1>0, <1>4 DEF SpliceFails
  <2>2. troubles' \in Nat BY <1>4 DEF SpliceFails, Fault, Trouble
  <2>3. buffer' \subseteq Visible BY <1>4, FirstOfIsSubset DEF SpliceFails
  <2> QED BY <1>4, <2>1, <2>2, <2>3 DEF SpliceFails, OnRecoveryRequired, RunRecords
<1>5. CASE \E i \in inflight : LiveFails(i)
  <2>1. PICK i \in inflight : LiveFails(i) BY <1>5
  <2>2. troubles' \in Nat BY <2>1 DEF LiveFails, Fault, Trouble
  <2> QED BY <2>1, <2>2 DEF LiveFails
<1> QED BY <1>1, <1>2, <1>3, <1>4, <1>5 DEF RunFails

LEMMA HeartbeatKeepsTypes ==
  ASSUME TypeOK, Heartbeat \/ HeartbeatGrace \/ (\E i \in inflight : LiveLands(i))
  PROVE  TypeOK'
<1> USE DEF TypeOK, LogTypeOK, serverVars, logVars, linkVars, gateVars, engineVars, landedVars,
            historyVars
<1>0. run \in RunRecords /\ Retired \in RunRecords
  BY RunTypes DEF RunRecords
<1>1. CASE Heartbeat BY <1>1 DEF Heartbeat
<1>2. CASE HeartbeatGrace
  <2>1. run' \in RunRecords /\ queued' \in BOOLEAN
    BY <1>0, <1>2, RunCatchUpType DEF HeartbeatGrace
  <2>2. troubles' \in Nat BY <1>2 DEF HeartbeatGrace, Trouble
  <2>3. paused' \in BOOLEAN /\ timer' \in BOOLEAN
    BY <1>2 DEF HeartbeatGrace, BeginCatchUpCycle
  <2>4. pendingHead' = 0 BY <1>2 DEF HeartbeatGrace
  <2> QED BY <1>2, <2>1, <2>2, <2>3, <2>4 DEF HeartbeatGrace, RunRecords
<1>3. CASE \E i \in inflight : LiveLands(i)
  <2>1. PICK i \in inflight : LiveLands(i) BY <1>3
  <2>2. i \in Visible /\ i \in Nat BY VisibleAssumption
  <2>3. cursor' \in Nat BY <2>1, <2>2, LargerType DEF LiveLands
  <2> QED BY <2>1, <2>2, <2>3 DEF LiveLands
<1> QED BY <1>1, <1>2, <1>3
-----------------------------------------------------------------------------
(* What a run carries from one step to the next: a page to apply is never    *)
(* empty, a run that heals has asked for recovery and covers no id that was  *)
(* not handed out, and only a run is ever stale.                             *)
RunShape ==
  /\ run.pc = "apply" => run.page # {}
  /\ run.pc \in {"none", "heal", "land"} => run.page = {}
  /\ run.pc \in {"heal", "land"} => recovery
  /\ run.pc = "none" => ~run.stale
  /\ run.head <= head /\ run.snapshot <= head
  /\ run.pc = "land" => run.head <= run.snapshot

LEMMA FreshRuns ==
  /\ IdleRun.pc = "none" /\ NewRun.pc = "load"
  /\ ~IdleRun.stale /\ ~NewRun.stale
  /\ IdleRun.page = {} /\ NewRun.page = {}
  /\ IdleRun.head = 0 /\ NewRun.head = 0 /\ IdleRun.snapshot = 0 /\ NewRun.snapshot = 0
  /\ IdleRun.through = NoPosition /\ NewRun.through = NoPosition
  /\ IdleRun.pages = 0 /\ NewRun.pages = 0
BY DEF IdleRun, NewRun

(* Retiring a run changes nothing else of it. *)
LEMMA RetiredRun ==
  ASSUME run \in RunRecords
  PROVE  /\ Retired.pc = run.pc /\ Retired.page = run.page /\ Retired.head = run.head
         /\ Retired.snapshot = run.snapshot /\ Retired.through = run.through
         /\ Retired.pages = run.pages /\ Retired.short = run.short
         /\ Running => Retired.stale
         /\ ~Running => Retired = run
BY DEF Retired, RunRecords, Running

(* runCatchUp starts a run or leaves the one there is. *)
LEMMA CatchUpRuns ==
  ASSUME NEW r, RunCatchUp(r), r.pc = run.pc
  PROVE  /\ run' = IF Running THEN r ELSE NewRun
         /\ run'.pc # "none"
         /\ run'.stale => queued'
         /\ queued => queued'
<1>1. run' = IF Running THEN r ELSE NewRun
  BY DEF RunCatchUp, Running
<1>2. run'.pc # "none" BY <1>1, FreshRuns DEF Running
<1>3. run'.stale => queued' BY <1>1, FreshRuns, Zenon DEF RunCatchUp, Running
<1>4. queued => queued' BY Zenon DEF RunCatchUp
<1> QED BY <1>1, <1>2, <1>3, <1>4
-----------------------------------------------------------------------------
LEMMA ServerKeepsShape ==
  ASSUME TypeOK, FinitelyMany, RunShape,
         Append \/ Prune \/ EmitLost \/ Disconnect \/ JoinRooms \/ Heartbeat
           \/ (\E i \in inflight : LiveLands(i) \/ LiveFails(i))
  PROVE  FinitelyMany' /\ RunShape'
<1>1. run' = run /\ buffer' = buffer /\ recovery' = recovery
  BY Zenon DEF Append, Prune, EmitLost, Disconnect, JoinRooms, Heartbeat, LiveLands, LiveFails,
         gateVars, engineVars, landedVars
<1>2. head' \in Nat /\ head' >= head
  <2>1. CASE Append
    BY <2>1 DEF Append, AppendEntries, TypeOK, LogTypeOK
  <2>2. CASE ~Append
    <3>1. head' = head
      BY <2>2, Zenon DEF Prune, PruneEntries, EmitLost, Disconnect, JoinRooms, Heartbeat, LiveLands,
             LiveFails, serverVars, logVars
    <3> QED BY <3>1 DEF TypeOK, LogTypeOK
  <2> QED BY <2>1, <2>2
<1>3. FinitelyMany' BY <1>1 DEF FinitelyMany
<1>4. run.head \in Nat /\ run.snapshot \in Nat /\ head \in Nat BY DEF TypeOK, LogTypeOK
<1>5. run.head <= head' /\ run.snapshot <= head' BY <1>2, <1>4 DEF RunShape
<1>6. RunShape' BY <1>1, <1>5 DEF RunShape
<1> QED BY <1>3, <1>6

(* A delivery may retire the run, and adds one event to the buffer. *)
LEMMA DeliveryKeepsShape ==
  ASSUME TypeOK, FinitelyMany, RunShape, NEW i \in unsent, Deliver(i)
  PROVE  FinitelyMany' /\ RunShape'
<1>0. run \in RunRecords BY DEF TypeOK, RunRecords
<1>1. \/ buffer' = buffer \cup {i} /\ run' = run /\ recovery' = recovery
      \/ buffer' = {} /\ run' = Retired /\ recovery'
      \/ buffer' = buffer /\ run' = run /\ recovery' = recovery
  BY DEF Deliver, HandleIncoming, OnRecoveryRequired, gateVars
<1>2. head' = head BY DEF Deliver, logVars
<1>3. \/ run' = run /\ recovery' = recovery
      \/ run' = Retired /\ recovery'
  BY <1>1
<1>4. FinitelyMany'
  <2>1. IsFiniteSet(buffer')
    <3>1. IsFiniteSet(buffer) BY DEF FinitelyMany
    <3>2. IsFiniteSet(buffer \cup {i}) BY <3>1, FS_AddElement
    <3>3. buffer' = buffer \cup {i} \/ buffer' = {} \/ buffer' = buffer BY <1>1
    <3> QED BY <3>1, <3>2, <3>3, FS_EmptySet
  <2>2. run'.page = run.page BY <1>0, <1>3, RetiredRun
  <2> QED BY <2>1, <2>2 DEF FinitelyMany
<1>5. RunShape'
  <2>1. CASE run' = run /\ recovery' = recovery BY <1>2, <2>1 DEF RunShape
  <2>2. CASE run' = Retired /\ recovery'
    BY <1>0, <1>2, <2>2, RetiredRun DEF RunShape, Running
  <2> QED BY <1>3, <2>1, <2>2
<1> QED BY <1>4, <1>5

(* Cycles begin, windows close, timers fire. *)
LEMMA CyclesKeepShape ==
  ASSUME TypeOK, FinitelyMany, RunShape,
         Connect \/ ConnectivityResume \/ WindowCloses \/ RecoveryTimer \/ HeartbeatGrace
  PROVE  FinitelyMany' /\ RunShape'
<1>0. run \in RunRecords BY DEF TypeOK, RunRecords
<1>1. head' = head /\ buffer' = buffer /\ recovery' = recovery
  BY Zenon DEF Connect, ConnectivityResume, WindowCloses, RecoveryTimer, HeartbeatGrace, serverVars,
         logVars, gateVars
<1>2. run' = run \/ run' = Retired \/ run' = NewRun
  BY Zenon DEF Connect, ConnectivityResume, WindowCloses, RecoveryTimer, HeartbeatGrace, RunCatchUp
<1>3. FinitelyMany'
  <2>1. run'.page = run.page \/ run'.page = {} BY <1>0, <1>2, RetiredRun, FreshRuns
  <2> QED BY <1>1, <2>1, FS_EmptySet DEF FinitelyMany
<1>4. RunShape'
  <2>1. CASE run' = run BY <1>1, <2>1 DEF RunShape
  <2>2. CASE run' = Retired BY <1>0, <1>1, <2>2, RetiredRun DEF RunShape, Running
  <2>3. CASE run' = NewRun BY <1>1, <2>3, FreshRuns DEF RunShape, TypeOK, LogTypeOK
  <2> QED BY <1>2, <2>1, <2>2, <2>3
<1> QED BY <1>3, <1>4

LEMMA RunKeepsShape ==
  ASSUME TypeOK, FinitelyMany, RunShape,
         LoadCursor \/ FetchEntries \/ Reply \/ ApplyEntry \/ SnapshotRead \/ SnapshotLands
  PROVE  FinitelyMany' /\ RunShape'
<1>0. run \in RunRecords /\ head \in Nat BY DEF TypeOK, LogTypeOK, RunRecords
<1>1. head' = head /\ buffer' = buffer
  BY Zenon DEF LoadCursor, FetchEntries, Reply, ApplyEntry, SnapshotRead, SnapshotLands, serverVars,
         logVars, gateVars
<1>2. CASE LoadCursor
  <2>1. run' = [run EXCEPT !.pc = "fetch", !.through = cursor] /\ recovery' = recovery
    BY <1>2 DEF LoadCursor, engineVars
  <2> QED BY <1>0, <1>1, <2>1 DEF FinitelyMany, RunShape, RunRecords
<1>3. CASE FetchEntries
  <2>1. PICK S : S = FirstOf(Pending(run.through), PageLimit) OBVIOUS
  <2>2. IsFiniteSet(S) BY <2>1, PendingIsFinite, FirstOfIsSubset, FS_Subset
  <2>3. run' = [run EXCEPT !.pc = "reply", !.page = S] /\ recovery' = recovery
    BY <1>3, <2>1 DEF FetchEntries, engineVars
  <2> QED BY <1>0, <1>1, <2>2, <2>3 DEF FinitelyMany, RunShape, RunRecords
<1>4. CASE Reply
  <2>1. \/ BeginHeal(head)
        \/ run' = [run EXCEPT !.pc = "finish"]
        \/ /\ run.page # {}
           /\ \E n, b : run' = [run EXCEPT !.pc = "apply", !.head = head, !.pages = n, !.short = b]
    BY <1>4, Zenon DEF Reply
  <2>2. CASE BeginHeal(head)
    <3>1. run' = [run EXCEPT !.pc = "heal", !.head = head, !.page = {}] /\ recovery'
      BY <2>2 DEF BeginHeal
    <3> QED BY <1>0, <1>1, <3>1, FS_EmptySet DEF FinitelyMany, RunShape, RunRecords
  <2>3. CASE run' = [run EXCEPT !.pc = "finish"]
    BY <1>0, <1>1, <2>3 DEF FinitelyMany, RunShape, RunRecords
  <2>4. ASSUME run.page # {}, NEW n, NEW b,
               run' = [run EXCEPT !.pc = "apply", !.head = head, !.pages = n, !.short = b]
        PROVE  FinitelyMany' /\ RunShape'
    <3>1. /\ run'.pc = "apply" /\ run'.page = run.page /\ run'.head = head
          /\ run'.snapshot = run.snapshot
      BY <1>0, <2>4 DEF RunRecords
    <3> QED BY <1>0, <1>1, <2>4, <3>1 DEF FinitelyMany, RunShape
  <2> QED BY <2>1, <2>2, <2>3, <2>4
<1>5. CASE ApplyEntry
  <2>1. PICK i, r : /\ r = [run EXCEPT !.page = @ \ {i}, !.through = i]
                    /\ run' = AfterPage(r)
    BY <1>5 DEF ApplyEntry
  <2>2. r.pc = "apply" /\ r.page = run.page \ {i} /\ r.head = run.head
        /\ r.snapshot = run.snapshot
    BY <1>0, <1>5, <2>1 DEF ApplyEntry, RunRecords
  <2>3. \/ run' = r /\ r.page # {}
        \/ r.page = {} /\ \E pc \in {"finish", "fetch"} : run' = [r EXCEPT !.pc = pc]
    BY <2>1 DEF AfterPage
  <2>4. /\ run'.page = run.page \ {i} /\ run'.head = run.head /\ run'.snapshot = run.snapshot
        /\ \/ run'.pc = "apply" /\ run'.page # {}
           \/ run'.pc \in {"finish", "fetch"}
    <3>1. r = [pc |-> r.pc, stale |-> r.stale, through |-> r.through, page |-> r.page,
               short |-> r.short, pages |-> r.pages, head |-> r.head, snapshot |-> r.snapshot]
      BY <1>0, <2>1 DEF RunRecords
    <3>2. CASE run' = r /\ r.page # {} BY <2>2, <3>2
    <3>3. ASSUME r.page = {}, NEW pc \in {"finish", "fetch"}, run' = [r EXCEPT !.pc = pc]
          PROVE  run'.page = r.page /\ run'.head = r.head /\ run'.snapshot = r.snapshot
                 /\ run'.pc \in {"finish", "fetch"}
      BY <3>1, <3>3
    <3> QED BY <2>2, <2>3, <3>2, <3>3
  <2>5. recovery' = recovery BY <1>5 DEF ApplyEntry
  <2>6. IsFiniteSet(run'.page) BY <2>4, FS_Subset DEF FinitelyMany
  <2> QED BY <1>0, <1>1, <2>4, <2>5, <2>6, FreshRuns DEF FinitelyMany, RunShape, RunRecords
<1>6. CASE SnapshotRead
  <2>1. run' = [run EXCEPT !.pc = "land", !.snapshot = head] /\ recovery' = recovery
        /\ run.pc = "heal"
    BY <1>6 DEF SnapshotRead, engineVars
  <2> QED BY <1>0, <1>1, <2>1 DEF FinitelyMany, RunShape, RunRecords
<1>7. CASE SnapshotLands
  <2>1. PICK t : run' = [run EXCEPT !.pc = "finish", !.through = t]
    BY <1>7 DEF SnapshotLands
  <2> QED BY <1>0, <1>1, <2>1 DEF FinitelyMany, RunShape, RunRecords
<1> QED BY <1>2, <1>3, <1>4, <1>5, <1>6, <1>7
-----------------------------------------------------------------------------
LEMMA EndsKeepShape ==
  ASSUME TypeOK, FinitelyMany, RunShape,
         LeavePaused \/ TakeBuffer \/ SpliceNext \/ Reopen \/ RunFails
  PROVE  FinitelyMany' /\ RunShape'
<1>0. run \in RunRecords /\ head \in Nat BY DEF TypeOK, LogTypeOK, RunRecords
<1>1. head' = head
  BY Zenon DEF LeavePaused, TakeBuffer, SpliceNext, Reopen, RunFails, FetchFails, EntryFails,
         SnapshotFails, SpliceFails, serverVars, logVars
<1>2. ASSUME run' = IdleRun \/ run' = NewRun, IsFiniteSet(buffer')
      PROVE  FinitelyMany' /\ RunShape'
  BY <1>0, <1>1, <1>2, FreshRuns, FS_EmptySet DEF FinitelyMany, RunShape
<1>3. ASSUME NEW S, IsFiniteSet(S), IsFiniteSet(buffer'),
             run' = [run EXCEPT !.pc = "finish", !.page = S]
      PROVE  FinitelyMany' /\ RunShape'
  <2>1. /\ run'.pc = "finish" /\ run'.page = S /\ run'.head = run.head
        /\ run'.snapshot = run.snapshot
    BY <1>0, <1>3 DEF RunRecords
  <2> QED BY <1>0, <1>1, <1>3, <2>1 DEF FinitelyMany, RunShape
<1>4. IsFiniteSet(buffer) /\ IsFiniteSet(run.page) BY DEF FinitelyMany
<1>5. CASE LeavePaused
  <2>1. run' = IdleRun \/ run' = NewRun BY <1>5 DEF LeavePaused
  <2>2. IsFiniteSet(buffer') BY <1>4, <1>5, FS_Union DEF LeavePaused
  <2> QED BY <1>2, <2>1, <2>2
<1>6. CASE TakeBuffer
  <2>1. run' = [run EXCEPT !.pc = "finish", !.page = buffer]
    BY <1>0, <1>6 DEF TakeBuffer, RunRecords
  <2>2. buffer' = {} BY <1>6 DEF TakeBuffer
  <2> QED BY <1>3, <1>4, <2>1, <2>2, FS_EmptySet
<1>7. CASE SpliceNext
  <2>1. PICK i : run' = [run EXCEPT !.page = @ \ {i}] /\ run.pc = "finish"
    BY <1>7 DEF SpliceNext
  <2>2. PICK S : S = run.page \ {i} OBVIOUS
  <2>3. run' = [run EXCEPT !.pc = "finish", !.page = S] BY <1>0, <2>1, <2>2 DEF RunRecords
  <2>4. IsFiniteSet(S) BY <1>4, <2>2, FS_Subset
  <2>5. buffer' = buffer BY <1>7 DEF SpliceNext, gateVars
  <2> QED BY <1>3, <1>4, <2>3, <2>4, <2>5
<1>8. CASE Reopen
  BY <1>2, <1>4, <1>8 DEF Reopen
<1>9. CASE FetchFails
  BY <1>3, <1>4, <1>9, FS_EmptySet DEF FetchFails, gateVars
<1>10. CASE EntryFails
  <2>1. buffer' = buffer BY <1>10 DEF EntryFails, gateVars
  <2>2. \/ run' = [run EXCEPT !.pc = "finish", !.page = {}]
        \/ BeginHeal(run.head)
    BY <1>10 DEF EntryFails
  <2>3. CASE BeginHeal(run.head)
    <3>1. run' = [run EXCEPT !.pc = "heal", !.head = run.head, !.page = {}] /\ recovery'
      BY <2>3 DEF BeginHeal
    <3>2. /\ run'.pc = "heal" /\ run'.page = {} /\ run'.head = run.head
          /\ run'.snapshot = run.snapshot
      BY <1>0, <3>1 DEF RunRecords
    <3> QED BY <1>1, <1>4, <2>1, <3>1, <3>2, FS_EmptySet DEF FinitelyMany, RunShape
  <2> QED BY <1>3, <1>4, <2>1, <2>2, <2>3, FS_EmptySet
<1>11. CASE SnapshotFails
  <2>1. run' = [run EXCEPT !.pc = "finish", !.page = run.page]
    BY <1>0, <1>11 DEF SnapshotFails, RunRecords
  <2>2. buffer' = buffer BY <1>11 DEF SnapshotFails, gateVars
  <2> QED BY <1>3, <1>4, <2>1, <2>2
<1>12. CASE SpliceFails
  <2>1. IsFiniteSet(run.page \cup buffer) BY <1>4, FS_Union
  <2>2. IsFiniteSet(buffer') BY <1>12, <2>1, FirstOfIsSubset, FS_Subset DEF SpliceFails
  <2>3. run' = IdleRun BY <1>12 DEF SpliceFails
  <2> QED BY <1>2, <2>2, <2>3
<1> QED BY <1>5, <1>6, <1>7, <1>8, <1>9, <1>10, <1>11, <1>12 DEF RunFails

(* What holds of the tab whatever went wrong: retention included, every id   *)
(* above the floor can be read.                                              *)
TabInv == TypeOK /\ FinitelyMany /\ RunShape /\ FloorSound

LEMMA FloorStaysSound ==
  ASSUME TypeOK, FloorSound, Append \/ Prune \/ UNCHANGED logVars
  PROVE  FloorSound'
<1>1. head \in Nat /\ floor \in Nat /\ retained \subseteq 1..head BY DEF TypeOK, LogTypeOK
<1>2. CASE Append
  <2>1. head' = head + 1 /\ floor' = floor /\ retained' = retained \cup {head + 1}
    <3>1. (head + 1)..(head + 1) = {head + 1} BY <1>1
    <3> QED BY <1>2, <3>1 DEF Append, AppendEntries
  <2> QED BY <1>1, <2>1 DEF FloorSound
<1>3. CASE Prune
  <2>1. PICK victims \in SUBSET retained : PruneEntries(victims) BY <1>3 DEF Prune
  <2>2. PICK top \in victims : /\ \A s \in victims : s <= top
                               /\ floor' = IF top > floor THEN top ELSE floor
    BY <2>1 DEF PruneEntries
  <2>3. head' = head /\ retained' = retained \ victims BY <2>1 DEF PruneEntries
  <2>4. top \in Nat /\ floor' \in Nat /\ top <= floor' /\ floor <= floor' BY <1>1, <2>2
  <2>5. head \in Nat /\ floor \in Nat BY <1>1
  <2>6. ASSUME NEW f \in Nat, NEW t \in Nat, NEW g \in Nat, NEW h \in Nat,
               t <= g, f <= g, NEW k \in (g + 1)..h
        PROVE  k \in Nat /\ k > t /\ k \in (f + 1)..h
    BY <2>6
  <2>7. ASSUME NEW k \in (floor' + 1)..head PROVE k \in retained'
    <3>1. k \in Nat /\ k > top /\ k \in (floor + 1)..head BY <2>4, <2>5, <2>6
    <3>2. k \in retained BY <3>1, Zenon DEF FloorSound
    <3>3. k \notin victims
      <4>1. ~(k <= top) BY <2>4, <3>1
      <4> QED BY <2>2, <4>1, Zenon
    <3> QED BY <2>3, <3>2, <3>3
  <2> QED BY <2>3, <2>7, Zenon DEF FloorSound
<1>4. CASE UNCHANGED logVars BY <1>4 DEF logVars, FloorSound
<1> QED BY <1>2, <1>3, <1>4
-----------------------------------------------------------------------------
LEMMA TabStep == TabInv /\ [Next]_vars => TabInv'
<1> SUFFICES ASSUME TabInv, [Next]_vars PROVE TabInv'
  OBVIOUS
<1> USE DEF TabInv
<1>1. CASE Append \/ Prune
  <2>1. TypeOK' BY <1>1, ServerKeepsTypes
  <2>2. FinitelyMany' /\ RunShape' BY <1>1, ServerKeepsShape
  <2> QED BY <1>1, <2>1, <2>2, FloorStaysSound
<1>2. ASSUME ~(Append \/ Prune), Next PROVE FloorSound'
  <2>1. UNCHANGED logVars
    BY <1>2, Zenon DEF Next, Emit, EmitOutOfOrder, Deliver, EmitLost, Disconnect, Connect,
      ConnectivityResume, JoinRooms, WindowCloses, RunStep, LoadCursor, FetchEntries, Reply,
      ApplyEntry, SnapshotRead, SnapshotLands, LeavePaused, TakeBuffer, SpliceNext, Reopen,
      RunFails, FetchFails, EntryFails, SnapshotFails, SpliceFails, RecoveryTimer, LiveLands,
      LiveFails, Heartbeat, HeartbeatGrace, serverVars
  <2> QED BY <2>1, FloorStaysSound
<1>3. CASE EmitLost \/ Disconnect \/ JoinRooms \/ Heartbeat
  <2>1. TypeOK' BY <1>3, ServerKeepsTypes, LinkKeepsTypes, HeartbeatKeepsTypes
  <2>2. FinitelyMany' /\ RunShape' BY <1>3, ServerKeepsShape
  <2> QED BY <1>1, <1>2, <1>3, <2>1, <2>2 DEF Next
<1>4. CASE Emit \/ EmitOutOfOrder
  <2>1. unsent \in SUBSET Nat BY VisibleAssumption DEF TypeOK
  <2>2. PICK i \in unsent :
          /\ Deliver(i) /\ troubles' \in Nat
          /\ holes' \subseteq {"fetch", "entry", "live", "lost", "order", "early", "blind"}
    <3>1. CASE Emit
      BY <2>1, <3>1, SmallestIsLeast DEF Emit, historyVars, TypeOK
    <3>2. CASE EmitOutOfOrder
      BY <3>2 DEF EmitOutOfOrder, Fault, Trouble, TypeOK
    <3> QED BY <1>4, <3>1, <3>2
  <2>3. TypeOK' BY <2>2, DeliveryKeepsTypes
  <2>4. FinitelyMany' /\ RunShape' BY <2>2, DeliveryKeepsShape
  <2> QED BY <1>1, <1>2, <1>4, <2>3, <2>4 DEF Next
<1>5. CASE Connect \/ ConnectivityResume \/ WindowCloses \/ RecoveryTimer \/ HeartbeatGrace
  <2>1. TypeOK' BY <1>5, LinkKeepsTypes, EndsKeepTypes, HeartbeatKeepsTypes
  <2>2. FinitelyMany' /\ RunShape' BY <1>5, CyclesKeepShape
  <2> QED BY <1>1, <1>2, <1>5, <2>1, <2>2 DEF Next
<1>6. CASE RunStep
  <2>1. TypeOK'
    <3>1. run.page # {} \/ SnapshotLands \/ ~(ApplyEntry \/ SnapshotLands \/ SpliceNext)
      BY DEF RunShape, ApplyEntry, SpliceNext
    <3>2. CASE ApplyEntry \/ SnapshotLands \/ SpliceNext BY <3>1, <3>2, LandingsKeepTypes
    <3>3. CASE LoadCursor \/ FetchEntries \/ Reply \/ SnapshotRead BY <3>3, ReadsKeepTypes
    <3>4. CASE LeavePaused \/ TakeBuffer \/ Reopen BY <3>4, EndsKeepTypes
    <3> QED BY <1>6, <3>2, <3>3, <3>4 DEF RunStep
  <2>2. FinitelyMany' /\ RunShape' BY <1>6, RunKeepsShape, EndsKeepShape DEF RunStep
  <2> QED BY <1>1, <1>2, <1>6, <2>1, <2>2 DEF Next
<1>7. CASE RunFails
  <2>1. EntryFails => run.page # {} BY DEF EntryFails, RunShape
  <2>2. TypeOK' BY <1>7, <2>1, FailuresKeepTypes
  <2>3. FinitelyMany' /\ RunShape' BY <1>7, EndsKeepShape
  <2> QED BY <1>1, <1>2, <1>7, <2>2, <2>3 DEF Next
<1>8. CASE \E i \in inflight : LiveLands(i) \/ LiveFails(i)
  <2>1. \/ \E i \in inflight : LiveLands(i)
        \/ (\E i \in inflight : LiveFails(i)) /\ ~EntryFails
    <3>1. ASSUME NEW i \in inflight, LiveFails(i), EntryFails PROVE FALSE
      <4>1. run' = run /\ run.pc = "apply" /\ run'.pc # "apply"
        <5>1. run \in RunRecords BY DEF TypeOK, RunRecords
        <5> QED BY <3>1, <5>1 DEF LiveFails, EntryFails, BeginHeal, RunRecords
      <4> QED BY <4>1
    <3> QED BY <1>8, <3>1
  <2>2. TypeOK' BY <2>1, HeartbeatKeepsTypes, FailuresKeepTypes
  <2>3. FinitelyMany' /\ RunShape' BY <1>8, ServerKeepsShape
  <2> QED BY <1>1, <1>2, <1>8, <2>2, <2>3 DEF Next
<1>9. CASE UNCHANGED vars
  BY <1>9 DEF vars, serverVars, logVars, linkVars, gateVars, engineVars, landedVars, historyVars,
       TypeOK, LogTypeOK, FinitelyMany, RunShape, FloorSound
<1> QED BY <1>1, <1>3, <1>4, <1>5, <1>6, <1>7, <1>8, <1>9 DEF Next

(* Whatever fails, disconnects or overlaps, the tab keeps TabInv. *)
THEOREM TabInvHolds == Spec => []TabInv
<1>1. Init => TabInv
  <2> SUFFICES ASSUME Init PROVE TabInv OBVIOUS
  <2>1. IdleRun \in RunRecords BY DEF IdleRun, RunRecords, NoPosition
  <2>2. TypeOK
    BY <2>1 DEF Init, LogInit, TypeOK, LogTypeOK, RunRecords
  <2>3. FinitelyMany /\ RunShape
    BY FreshRuns, FS_EmptySet DEF Init, LogInit, FinitelyMany, RunShape
  <2>4. FloorSound
    <3>1. head = 0 /\ floor = 0 BY DEF Init, LogInit
    <3> QED BY <3>1 DEF FloorSound
  <2> QED BY <2>2, <2>3, <2>4 DEF TabInv
<1> QED BY <1>1, TabStep, PTL DEF Spec

(***************************************************************************)
(* The tab is well typed in every reachable state; above all the cursor is  *)
(* a position, also after a superseded snapshot left none behind.           *)
(***************************************************************************)
THEOREM TabTypes == Spec => []TypeOK
BY TabInvHolds, PTL DEF TabInv
-----------------------------------------------------------------------------
(* The gate.                                                                 *)

(* What will see to the gate once no run does: the end of a window, a        *)
(* reconnect, or a timer that finds recovery still required.                 *)
Awaited == window # "none" \/ ~online \/ (timer /\ recovery)

(* GateOwned is not inductive: a stale run leaves the gate paused when it    *)
(* settles, and a timer that fires after the recovery it was armed for does  *)
(* nothing. So a stale run has a run chained behind it, or something else is *)
(* awaited, and a timer counts only while recovery is required.              *)
GateInv ==
  /\ paused => Running \/ Awaited
  /\ run.stale => queued \/ Awaited

LEMMA GateStep == TabInv /\ GateInv /\ [Next]_vars => GateInv'
<1> SUFFICES ASSUME TabInv, GateInv, [Next]_vars PROVE GateInv'
  OBVIOUS
<1>0. run \in RunRecords /\ RunShape BY DEF TabInv, TypeOK, RunRecords
<1>b. /\ timer \in BOOLEAN /\ recovery \in BOOLEAN /\ queued \in BOOLEAN
      /\ paused \in BOOLEAN /\ online \in BOOLEAN
  BY DEF TabInv, TypeOK
<1>1. ASSUME run'.pc # "none", run'.stale => queued' \/ Awaited' PROVE GateInv'
  BY <1>1 DEF GateInv, Running
<1>2. ASSUME Awaited' PROVE GateInv'
  BY <1>2 DEF GateInv
<1>3. ASSUME ~paused', ~run'.stale PROVE GateInv'
  BY <1>3 DEF GateInv
<1>4. ASSUME UNCHANGED <<linkVars, paused, queued, recovery, timer>>,
             run'.pc = "none" <=> run.pc = "none", run'.stale = run.stale
      PROVE  GateInv'
  BY <1>4 DEF GateInv, Awaited, Running, linkVars
<1>5. CASE \/ Append \/ Prune \/ EmitLost \/ Heartbeat
           \/ \E i \in inflight : LiveLands(i) \/ LiveFails(i)
  BY <1>4, <1>5, Zenon
     DEF Append, Prune, EmitLost, Heartbeat, LiveLands, LiveFails, linkVars, gateVars, engineVars
<1>6. ASSUME NEW i \in unsent, Deliver(i) PROVE GateInv'
  <2>1. CASE ~paused' /\ run' = run /\ paused' = paused /\ UNCHANGED <<linkVars, queued, recovery, timer>>
    BY <1>4, <2>1
  <2>2. CASE recovery' /\ timer'
    BY <1>2, <2>2 DEF Awaited
  <2>3. CASE UNCHANGED <<linkVars, paused, queued, recovery, timer, run>>
    BY <1>4, <2>3
  <2> QED BY <1>6, <2>1, <2>2, <2>3, Zenon DEF Deliver, HandleIncoming, OnRecoveryRequired, gateVars
<1>7. CASE Emit \/ EmitOutOfOrder
  <2>1. unsent \in SUBSET Nat BY VisibleAssumption DEF TabInv, TypeOK
  <2>2. PICK i \in unsent : Deliver(i)
    <3>1. CASE Emit BY <2>1, <3>1, SmallestIsLeast DEF Emit
    <3> QED BY <1>7, <3>1 DEF EmitOutOfOrder
  <2> QED BY <1>6, <2>2
<1>8. CASE Disconnect BY <1>2, <1>8 DEF Disconnect, Awaited
<1>9. CASE Connect \/ ConnectivityResume
  BY <1>2, <1>9 DEF Connect, ConnectivityResume, Awaited
<1>10. CASE JoinRooms
  <2>1. /\ UNCHANGED <<window, online, paused, queued, recovery, timer, run>>
    BY <1>10, Zenon DEF JoinRooms, gateVars, engineVars
  <2> QED BY <2>1 DEF GateInv, Awaited, Running
<1>11. CASE WindowCloses
  <2>1. run'.pc # "none" /\ (run'.stale => queued')
    BY <1>11, CatchUpRuns DEF WindowCloses
  <2> QED BY <1>1, <2>1
<1>12. CASE RecoveryTimer
  <2>1. CASE recovery
    <3>1. RunCatchUp(run) BY <1>12, <2>1 DEF RecoveryTimer
    <3>2. run'.pc # "none" /\ (run'.stale => queued') BY <3>1, CatchUpRuns
    <3> QED BY <1>1, <3>2
  <2>2. CASE ~recovery
    <3>1. UNCHANGED <<linkVars, paused, queued, recovery, run>>
      BY <1>12, <2>2, Zenon DEF RecoveryTimer, gateVars
    <3> QED BY <2>2, <3>1 DEF GateInv, Awaited, Running, linkVars
  <2> QED BY <2>1, <2>2
<1>13. CASE HeartbeatGrace
  <2>1. CASE pendingHead <= HeartbeatPosition /\ UNCHANGED <<paused, timer, run, queued, troubles>>
    <3>1. UNCHANGED <<linkVars, recovery>> BY <1>13, Zenon DEF HeartbeatGrace
    <3> QED BY <1>4, <2>1, <3>1
  <2>2. CASE RunCatchUp(Retired)
    <3>1. Retired.pc = run.pc BY <1>0, RetiredRun
    <3>2. run'.pc # "none" /\ (run'.stale => queued') BY <2>2, <3>1, CatchUpRuns
    <3> QED BY <1>1, <3>2
  <2> QED BY <1>13, <2>1, <2>2 DEF HeartbeatGrace
<1>14. CASE LoadCursor \/ FetchEntries \/ SnapshotRead \/ FetchFails \/ SnapshotFails
            \/ TakeBuffer \/ SpliceNext
  <2>1. UNCHANGED <<linkVars, paused, queued, recovery, timer>>
    BY <1>14, Zenon DEF LoadCursor, FetchEntries, SnapshotRead, FetchFails, SnapshotFails,
         TakeBuffer, SpliceNext, gateVars, engineVars
  <2>2. run'.pc # "none" /\ run.pc # "none" /\ run'.stale = run.stale
    BY <1>0, <1>14 DEF LoadCursor, FetchEntries, SnapshotRead, FetchFails, SnapshotFails,
         TakeBuffer, SpliceNext, RunRecords
  <2> QED BY <1>4, <2>1, <2>2
<1>15. CASE Reply \/ EntryFails
  <2>1. UNCHANGED <<linkVars, queued, timer>> /\ (recovery => recovery')
    BY <1>15, <1>b, Zenon DEF Reply, EntryFails, BeginHeal
  <2>2. run'.pc # "none" /\ run'.stale = run.stale
    BY <1>0, <1>15 DEF Reply, EntryFails, BeginHeal, RunRecords
  <2> QED BY <1>1, <2>1, <2>2 DEF GateInv, Awaited, linkVars
<1>16. CASE ApplyEntry
  <2>1. UNCHANGED <<linkVars, paused, queued, recovery, timer>>
    BY <1>16, Zenon DEF ApplyEntry, gateVars
  <2>2. PICK i, r : r = [run EXCEPT !.page = @ \ {i}, !.through = i] /\ run' = AfterPage(r)
    BY <1>16 DEF ApplyEntry
  <2>3. r.pc = "apply" /\ r.stale = run.stale BY <1>0, <1>16, <2>2 DEF ApplyEntry, RunRecords
  <2>4. r \in [pc : {"apply"}, stale : {run.stale}, through : {r.through}, page : {r.page},
               short : {r.short}, pages : {r.pages}, head : {r.head}, snapshot : {r.snapshot}]
    BY <1>0, <2>2, <2>3 DEF RunRecords
  <2>5. run'.pc # "none" /\ run'.stale = run.stale BY <2>2, <2>4 DEF AfterPage
  <2>6. run.pc # "none" BY <1>16 DEF ApplyEntry
  <2> QED BY <1>4, <2>1, <2>5, <2>6
<1>17. CASE SnapshotLands
  <2>1. run'.pc = "finish" /\ run'.stale = run.stale
    BY <1>0, <1>17 DEF SnapshotLands, RunRecords
  <2>2. run.stale => UNCHANGED recovery BY <1>17, Zenon DEF SnapshotLands
  <2>3. UNCHANGED <<linkVars, queued, timer>> BY <1>17, Zenon DEF SnapshotLands
  <2> QED BY <1>1, <2>1, <2>2, <2>3 DEF GateInv, Awaited, linkVars
<1>18. CASE LeavePaused
  <2>1. CASE queued
    <3>1. run' = NewRun BY <1>18, <2>1 DEF LeavePaused
    <3> QED BY <1>1, <3>1, FreshRuns
  <2>2. CASE ~queued /\ run.stale
    <3>1. Awaited BY <2>2 DEF GateInv
    <3>2. UNCHANGED <<linkVars, recovery>> /\ (timer => timer') BY <1>18, <1>b, Zenon DEF LeavePaused
    <3> QED BY <1>2, <3>1, <3>2 DEF Awaited, linkVars
  <2>3. CASE ~queued /\ ~run.stale
    <3>1. recovery' /\ timer' BY <1>18, <1>b, <2>3, Zenon DEF LeavePaused, MayResume, RecoveryDue
    <3> QED BY <1>2, <3>1 DEF Awaited
  <2> QED BY <2>1, <2>2, <2>3
<1>19. CASE Reopen BY <1>3, <1>19, FreshRuns DEF Reopen
<1>20. CASE SpliceFails
  BY <1>2, <1>20 DEF SpliceFails, OnRecoveryRequired, Awaited
<1>21. CASE UNCHANGED vars
  BY <1>4, <1>21 DEF vars, gateVars, engineVars
<1> QED BY <1>5, <1>7, <1>8, <1>9, <1>10, <1>11, <1>12, <1>13, <1>14, <1>15, <1>16, <1>17, <1>18,
           <1>19, <1>20, <1>21 DEF Next, RunStep, RunFails

(***************************************************************************)
(* A paused gate is never abandoned (GateOwned): "the buffer must never     *)
(* strand". Whatever fails, and however reconnects, resumes, heartbeats and *)
(* overflows retire the runs in flight, a run, the recovery timer, a        *)
(* bootstrap window or the coming reconnect will deal with it.              *)
(***************************************************************************)
THEOREM GateIsOwned == Spec => []GateOwned
<1>1. Init => GateInv
  BY FreshRuns DEF Init, GateInv
<1>2. GateInv => GateOwned
  BY DEF GateInv, GateOwned, Awaited
<1> QED BY <1>1, <1>2, TabInvHolds, GateStep, PTL DEF Spec
-----------------------------------------------------------------------------
(* The cursor.                                                               *)

(* The losses that SyncClient names, other than the entry appended between   *)
(* the two reads of an empty page, were not met.                             *)
NoLoss == holes \subseteq {"blind"}

(* The entries that landed or are with the handlers, and those whose emit    *)
(* has been made.                                                            *)
Handed == applied \cup inflight
Sent == {j \in Visible : j <= head /\ j \notin unsent}

(* No entry at or below position n is missing from H. *)
Behind(n, H) == \A j \in Visible : j <= n => j \in H

(* An entry of S that lands after all smaller ones of S passes none by. *)
Closed(S, H) == \A i \in S : \A j \in Visible : j <= i => j \in H \cup S

(* A connected tab with the rooms not joined is in a bootstrap window with   *)
(* the gate paused, and no run, timer or heartbeat of this cycle reopens it. *)
LinkInv ==
  /\ joined => online
  /\ online /\ ~joined => /\ window # "none" /\ paused /\ ~timer /\ pendingHead = 0
                          /\ run.pc = "none" \/ run.stale

(* Emits go out in log order, and the buffer is spliced in that order.       *)
SentInv ==
  /\ unsent \subseteq 1..head
  /\ \A j \in Sent, u \in unsent : j < u
  /\ buffer \subseteq Sent
  /\ run.pc = "finish" => /\ run.page \subseteq Sent
                          /\ \A i \in run.page, b \in buffer : i < b

(* An open gate hands on every event that is emitted, so that none is        *)
(* missing below one that is with the handlers.                              *)
LiveInv ==
  /\ Closed(inflight, Handed)
  /\ ~paused /\ joined => Sent \subseteq Handed

(* What the run will have handed over once the gate reopens. *)
InHand ==
  (IF run.pc = "land" THEN {s \in Visible : s <= run.snapshot} ELSE run.page) \cup buffer

(* The run read the log, or a snapshot, in the current cycle: from then on   *)
(* the buffer has what its read did not cover.                               *)
HasRead ==
  /\ ~run.stale
  /\ \/ /\ run.pc = "reply" /\ floor <= run.through
        /\ Cardinality(run.page) < Collapse
     \/ run.pc \in {"apply", "land"}
     \/ run.pc = "finish" /\ ~recovery

(* A page that is not below the floor is complete up to its last entry, also *)
(* in the hands of a stale run.                                              *)
PageReplayable == run.pc = "apply" \/ (run.pc = "reply" /\ floor <= run.through)

RunInv ==
  /\ Behind(cursor, Handed)
  /\ Behind(run.through, Handed)
  /\ PageReplayable => Closed(run.page, Handed)
  /\ HasRead => Closed(InHand, Handed)
  /\ HasRead /\ joined => Sent \subseteq Handed \cup InHand

Lossless == SentInv /\ LiveInv /\ RunInv /\ failedEntry = 0

LEMMA NothingBelowStart ==
  ASSUME NEW H PROVE Behind(NoPosition, H) /\ Behind(0, H)
BY VisibleAssumption DEF Behind, NoPosition

LEMMA BehindGrows ==
  ASSUME NEW n, NEW H, NEW K, Behind(n, H), H \subseteq K
  PROVE  Behind(n, K)
BY DEF Behind

(* A set stays closed when elements leave it for the handlers. *)
LEMMA ClosedKept ==
  ASSUME NEW S, NEW T, NEW H, NEW K, Closed(S, H), H \subseteq K, T \subseteq S,
         S \subseteq T \cup K
  PROVE  Closed(T, K)
BY DEF Closed

(* It stays closed when the next event is added to what was sent. *)
LEMMA ClosedByNext ==
  ASSUME NEW S, NEW H, NEW E, NEW i \in Nat, Closed(S, H), E \subseteq H \cup S,
         \A j \in Visible : j < i => j \in E
  PROVE  Closed(S \cup {i}, H)
<1> SUFFICES ASSUME NEW k \in S \cup {i}, NEW j \in Visible, j <= k
             PROVE  j \in H \cup (S \cup {i})
  BY DEF Closed
<1>1. CASE k \in S BY <1>1 DEF Closed
<1>2. CASE k = i
  <2>1. j = i \/ j < i BY <1>2, VisibleAssumption
  <2> QED BY <2>1
<1> QED BY <1>1, <1>2

(* The smallest entry of a closed set may land. *)
LEMMA LandingLeast ==
  ASSUME NEW S \in SUBSET Nat, NEW H, NEW i \in S, Closed(S, H), \A t \in S : i <= t
  PROVE  Behind(i, H \cup {i})
<1> SUFFICES ASSUME NEW j \in Visible, j <= i PROVE j \in H \cup {i}
  BY DEF Behind
<1>1. j \in H \cup S BY DEF Closed
<1>2. j \in S => j = i BY VisibleAssumption
<1> QED BY <1>1, <1>2

(* Raising the cursor. *)
LEMMA LargerBehind ==
  ASSUME NEW a \in Nat, NEW b \in Nat, NEW H, Behind(a, H), Behind(b, H)
  PROVE  Behind(Larger(a, b), H)
BY LargerType

LEMMA LinkStep ==
  ASSUME TabInv, LinkInv, NoLoss', Next
  PROVE  LinkInv'
<1>0. run \in RunRecords /\ RunShape BY DEF TabInv, TypeOK, RunRecords
<1>b. /\ timer \in BOOLEAN /\ recovery \in BOOLEAN /\ queued \in BOOLEAN
      /\ paused \in BOOLEAN /\ online \in BOOLEAN /\ joined \in BOOLEAN
  BY DEF TabInv, TypeOK
<1>1. ASSUME UNCHANGED <<online, joined>>, joined \/ ~online PROVE LinkInv'
  BY <1>1, <1>b DEF LinkInv
<1>2. ASSUME UNCHANGED <<linkVars, paused, timer>>, pendingHead' = pendingHead,
             run.stale => run'.stale, run.pc = "none" => run'.pc = "none"
      PROVE  LinkInv'
  BY <1>2 DEF LinkInv, linkVars
<1>3. CASE \/ Append \/ Prune \/ EmitLost
           \/ \E i \in inflight : LiveLands(i) \/ LiveFails(i)
  BY <1>2, <1>3, Zenon
     DEF Append, Prune, EmitLost, LiveLands, LiveFails, linkVars, gateVars, engineVars
<1>4. ASSUME NEW i \in unsent, Deliver(i) PROVE LinkInv'
  <2>1. UNCHANGED <<linkVars, pendingHead>> BY <1>4, Zenon DEF Deliver
  <2>2. CASE joined BY <1>1, <2>1, <2>2 DEF linkVars
  <2>3. CASE ~joined
    <3>1. UNCHANGED <<paused, timer, run>> BY <1>4, <2>3, Zenon DEF Deliver, gateVars
    <3> QED BY <1>2, <2>1, <3>1
  <2> QED BY <2>2, <2>3
<1>5. CASE Emit \/ EmitOutOfOrder
  <2>1. unsent \in SUBSET Nat BY VisibleAssumption DEF TabInv, TypeOK
  <2>2. PICK i \in unsent : Deliver(i)
    <3>1. CASE Emit BY <2>1, <3>1, SmallestIsLeast DEF Emit
    <3> QED BY <1>5, <3>1 DEF EmitOutOfOrder
  <2> QED BY <1>4, <2>2
<1>6. CASE Disconnect BY <1>6 DEF Disconnect, LinkInv
<1>7. CASE Connect
  <2>1. /\ paused' /\ ~timer' /\ pendingHead' = 0 /\ window' # "none"
        /\ run' = Retired /\ online'
    BY <1>7 DEF Connect, BeginCatchUpCycle
  <2>2. run'.pc = "none" \/ run'.stale BY <1>0, <2>1, RetiredRun DEF Running
  <2> QED BY <2>1, <2>2 DEF LinkInv
<1>8. CASE ConnectivityResume
  <2>1. /\ paused' /\ ~timer' /\ window' # "none" /\ run' = Retired
        /\ UNCHANGED <<online, joined, pendingHead>>
    BY <1>8 DEF ConnectivityResume, BeginCatchUpCycle
  <2>2. run'.pc = "none" \/ run'.stale BY <1>0, <2>1, RetiredRun DEF Running
  <2> QED BY <2>1, <2>2 DEF LinkInv
<1>9. CASE JoinRooms BY <1>9 DEF JoinRooms, LinkInv
<1>10. CASE WindowCloses BY <1>1, <1>10 DEF WindowCloses
<1>11. CASE RecoveryTimer BY <1>1, <1>11 DEF RecoveryTimer, LinkInv, linkVars
<1>12. CASE Heartbeat BY <1>1, <1>12 DEF Heartbeat, linkVars
<1>13. CASE HeartbeatGrace BY <1>1, <1>13 DEF HeartbeatGrace, LinkInv, linkVars
<1>14. CASE LoadCursor \/ FetchEntries \/ SnapshotRead \/ Reply \/ SnapshotLands
            \/ FetchFails \/ EntryFails \/ SnapshotFails
  <2>1. UNCHANGED <<linkVars, paused, timer, pendingHead>>
    BY <1>14, Zenon DEF LoadCursor, FetchEntries, SnapshotRead, Reply, SnapshotLands, FetchFails,
         EntryFails, SnapshotFails, gateVars, engineVars
  <2>2. run.pc # "none" /\ run'.stale = run.stale
    BY <1>0, <1>14 DEF LoadCursor, FetchEntries, SnapshotRead, Reply, SnapshotLands, FetchFails,
         EntryFails, SnapshotFails, BeginHeal, RunRecords
  <2> QED BY <1>2, <2>1, <2>2
<1>15. CASE ApplyEntry
  <2>1. UNCHANGED <<linkVars, paused, timer, pendingHead>>
    BY <1>15, Zenon DEF ApplyEntry, gateVars
  <2>2. PICK i, r : r = [run EXCEPT !.page = @ \ {i}, !.through = i] /\ run' = AfterPage(r)
    BY <1>15 DEF ApplyEntry
  <2>3. r \in [pc : {r.pc}, stale : {run.stale}, through : {r.through}, page : {r.page},
               short : {r.short}, pages : {r.pages}, head : {r.head}, snapshot : {r.snapshot}]
    BY <1>0, <2>2 DEF RunRecords
  <2>4. run'.stale = run.stale BY <2>2, <2>3 DEF AfterPage
  <2>5. run.pc # "none" BY <1>15 DEF ApplyEntry
  <2> QED BY <1>2, <2>1, <2>4, <2>5
<1>16. CASE TakeBuffer \/ SpliceNext \/ Reopen \/ SpliceFails
  <2>1. UNCHANGED <<online, joined>>
    BY <1>16, Zenon DEF TakeBuffer, SpliceNext, Reopen, SpliceFails, linkVars
  <2>2. run.pc = "finish" /\ ~run.stale
    BY <1>16 DEF TakeBuffer, SpliceNext, Reopen, SpliceFails, MayResume
  <2> QED BY <1>1, <2>1, <2>2 DEF LinkInv
<1>17. CASE LeavePaused
  <2>1. UNCHANGED <<linkVars, paused, pendingHead>> BY <1>17, Zenon DEF LeavePaused
  <2>2. CASE joined \/ ~online BY <1>1, <2>1, <2>2 DEF linkVars
  <2>3. CASE online /\ ~joined
    <3>1. /\ window # "none" /\ paused /\ ~timer /\ pendingHead = 0 /\ run.stale
      BY <1>17, <2>3 DEF LinkInv, LeavePaused
    <3>2. ~queued
      <4>1. queued => "early" \in holes' BY <1>17, <2>3, <3>1 DEF LeavePaused
      <4> QED BY <4>1 DEF NoLoss
    <3>3. run'.pc = "none" BY <1>17, <3>2, FreshRuns DEF LeavePaused
    <3>4. ~timer' BY <1>17, <1>b, <3>1, Zenon DEF LeavePaused, RecoveryDue
    <3> QED BY <2>1, <3>1, <3>3, <3>4, <2>3 DEF LinkInv, linkVars
  <2> QED BY <2>2, <2>3, <1>b
<1> QED BY <1>3, <1>5, <1>6, <1>7, <1>8, <1>9, <1>10, <1>11, <1>12, <1>13, <1>14, <1>15, <1>16,
           <1>17 DEF Next, RunStep, RunFails
-----------------------------------------------------------------------------
(* A first page that fills the limit is large enough to be collapsed, so     *)
(* that a run reads one page: CATCHUP_COLLAPSE_THRESHOLD is below            *)
(* CATCHUP_PAGE_LIMIT.                                                       *)
OnePage ==
  /\ run.pc \in {"load", "fetch", "reply"} => run.pages = 0
  /\ run.pc = "apply" => run.short

LEMMA OnePageStep ==
  ASSUME Collapse <= PageLimit, TabInv, OnePage, [Next]_vars
  PROVE  OnePage'
<1>0. run \in RunRecords /\ RunShape BY DEF TabInv, TypeOK, RunRecords
<1>1. ASSUME run' = run \/ run' = Retired \/ run' = IdleRun \/ run' = NewRun PROVE OnePage'
  BY <1>0, <1>1, RetiredRun, FreshRuns DEF OnePage
<1>2. ASSUME run'.pc \in {"none", "heal", "land", "finish"} PROVE OnePage'
  BY <1>2 DEF OnePage
<1>3. CASE \/ Append \/ Prune \/ EmitLost \/ Disconnect \/ Connect \/ ConnectivityResume
           \/ JoinRooms \/ WindowCloses \/ RecoveryTimer \/ Heartbeat \/ HeartbeatGrace
           \/ Emit \/ EmitOutOfOrder
           \/ \E i \in inflight : LiveLands(i) \/ LiveFails(i)
  <2>1. run' = run \/ run' = Retired \/ run' = NewRun
    BY <1>3, Zenon DEF Append, Prune, EmitLost, Disconnect, Connect, ConnectivityResume, JoinRooms,
      WindowCloses, RecoveryTimer, Heartbeat, HeartbeatGrace, Emit, EmitOutOfOrder, Deliver,
      HandleIncoming, RunCatchUp, LiveLands, LiveFails
  <2> QED BY <1>1, <2>1
<1>4. CASE LeavePaused \/ Reopen \/ SpliceFails
  BY <1>1, <1>4 DEF LeavePaused, Reopen, SpliceFails
<1>5. CASE \/ SnapshotRead \/ SnapshotLands \/ TakeBuffer \/ SpliceNext \/ FetchFails \/ EntryFails
           \/ SnapshotFails
  <2>1. run'.pc \in {"none", "heal", "land", "finish"}
    BY <1>0, <1>5 DEF SnapshotRead, SnapshotLands, TakeBuffer, SpliceNext, FetchFails, EntryFails,
         SnapshotFails, BeginHeal, RunRecords
  <2> QED BY <1>2, <2>1
<1>6. CASE LoadCursor \/ FetchEntries
  <2>1. PICK S, t : \/ run' = [run EXCEPT !.pc = "fetch", !.through = t] /\ run.pc = "load"
                    \/ run' = [run EXCEPT !.pc = "reply", !.page = S] /\ run.pc = "fetch"
    BY <1>6 DEF LoadCursor, FetchEntries
  <2>2. run'.pc \in {"fetch", "reply"} /\ run'.pages = run.pages /\ run.pc \in {"load", "fetch"}
    BY <1>0, <2>1 DEF RunRecords
  <2> QED BY <2>2 DEF OnePage
<1>7. CASE Reply
  <2>1. CASE BeginHeal(head)
    <3>1. run'.pc = "heal" BY <1>0, <2>1 DEF BeginHeal, RunRecords
    <3> QED BY <1>2, <3>1
  <2>2. CASE run' = [run EXCEPT !.pc = "finish"]
    <3>1. run'.pc = "finish" BY <1>0, <2>2 DEF RunRecords
    <3> QED BY <1>2, <3>1
  <2>3. ASSUME ~CollapsesGap, NEW n,
               run' = [run EXCEPT !.pc = "apply", !.head = head, !.pages = n,
                                  !.short = Cardinality(run.page) < PageLimit]
        PROVE  OnePage'
    <3>1. Cardinality(run.page) \in Nat BY FS_CardinalityType DEF TabInv, FinitelyMany
    <3>2. Cardinality(run.page) < PageLimit
      <4>1. run.pages = 0 BY <1>7 DEF Reply, OnePage
      <4> QED BY <2>3, <3>1, <4>1, ClientLimitsAssumption DEF CollapsesGap
    <3>3. PICK b : b = (Cardinality(run.page) < PageLimit) OBVIOUS
    <3>4. b BY <3>2, <3>3, Zenon
    <3>5. run' = [run EXCEPT !.pc = "apply", !.head = head, !.pages = n, !.short = b]
      BY <2>3, <3>3, Zenon
    <3>6. run'.pc = "apply" /\ run'.short = b BY <1>0, <3>5 DEF RunRecords
    <3> QED BY <3>4, <3>6 DEF OnePage
  <2>4. \/ BeginHeal(head)
        \/ run' = [run EXCEPT !.pc = "finish"]
        \/ /\ ~CollapsesGap
           /\ \E n : run' = [run EXCEPT !.pc = "apply", !.head = head, !.pages = n,
                                        !.short = Cardinality(run.page) < PageLimit]
    BY <1>7, Zenon DEF Reply
  <2> QED BY <2>1, <2>2, <2>3, <2>4
<1>8. CASE ApplyEntry
  <2>1. PICK i, r : r = [run EXCEPT !.page = @ \ {i}, !.through = i] /\ run' = AfterPage(r)
    BY <1>8 DEF ApplyEntry
  <2>2. r.pc = "apply" /\ r.short = run.short /\ run.short
    BY <1>0, <1>8, <2>1 DEF ApplyEntry, RunRecords, OnePage
  <2>3. r \in [pc : {r.pc}, stale : {r.stale}, through : {r.through}, page : {r.page},
               short : {r.short}, pages : {r.pages}, head : {r.head}, snapshot : {r.snapshot}]
    BY <1>0, <2>1 DEF RunRecords
  <2>4. run' = r \/ run' = [r EXCEPT !.pc = "finish"]
    BY <2>1, <2>2 DEF AfterPage
  <2>5. CASE run' = r BY <2>2, <2>5 DEF OnePage
  <2>6. CASE run' = [r EXCEPT !.pc = "finish"]
    <3>1. run'.pc = "finish" BY <2>3, <2>6
    <3> QED BY <1>2, <3>1
  <2> QED BY <2>4, <2>5, <2>6
<1>9. CASE UNCHANGED vars BY <1>1, <1>9 DEF vars
<1> QED BY <1>3, <1>4, <1>5, <1>6, <1>7, <1>8, <1>9 DEF Next, RunStep, RunFails
-----------------------------------------------------------------------------
(* Steps that read nothing and hand nothing over. *)
LEMMA QuietKeepsAll ==
  ASSUME TabInv, Lossless,
         Sent' = Sent, unsent' \subseteq 1..head', \A j \in Sent, u \in unsent' : j < u,
         UNCHANGED <<buffer, inflight, applied, cursor, failedEntry>>,
         floor' \in Nat, floor <= floor', ~paused' => ~paused, joined' => joined,
         recovery => recovery',
         run' = run \/ run' = Retired \/ run' = IdleRun \/ run' = NewRun
  PROVE  Lossless'
<1>0. run \in RunRecords /\ RunShape /\ floor \in Nat
  BY DEF TabInv, TypeOK, LogTypeOK, RunRecords
<1>1. Handed' = Handed BY DEF Handed
<1>2. /\ run'.pc = "finish" => run.pc = "finish" /\ run'.page = run.page
      /\ run'.through = run.through \/ run'.through = NoPosition
      /\ run'.pc \in {"apply", "reply"} => /\ run'.pc = run.pc /\ run'.page = run.page
                                            /\ run'.through = run.through
      /\ ~run'.stale /\ run'.pc \notin {"none", "load"} => run' = run
  BY <1>0, RetiredRun, FreshRuns DEF Running
<1>3. SentInv' BY <1>2 DEF Lossless, SentInv
<1>4. LiveInv' BY <1>1 DEF Lossless, LiveInv
<1>5. Behind(cursor', Handed') /\ Behind(run'.through, Handed')
  BY <1>1, <1>2, NothingBelowStart DEF Lossless, RunInv
<1>6. PageReplayable' => PageReplayable /\ run'.page = run.page
  <2>1. ASSUME run'.pc = "reply", floor' <= run'.through PROVE floor <= run.through
    <3>1. run.through \in Int /\ run'.through = run.through
      BY <1>0, <1>2, <2>1 DEF RunRecords, NoPosition
    <3> QED BY <1>0, <2>1, <3>1
  <2> QED BY <1>2, <2>1 DEF PageReplayable
<1>7. HasRead' => HasRead /\ InHand' = InHand
  <2> SUFFICES ASSUME HasRead' PROVE HasRead /\ InHand' = InHand
    OBVIOUS
  <2>1. run' = run BY <1>2 DEF HasRead
  <2>2. run.pc = "reply" /\ floor' <= run.through => floor <= run.through
    BY <1>0 DEF RunRecords, NoPosition
  <2>3. ~recovery' => ~recovery OBVIOUS
  <2> QED BY <2>1, <2>2, <2>3 DEF HasRead, InHand
<1>8. RunInv' BY <1>1, <1>5, <1>6, <1>7 DEF Lossless, RunInv
<1>9. failedEntry' = 0 BY DEF Lossless
<1> QED BY <1>3, <1>4, <1>8, <1>9 DEF Lossless
-----------------------------------------------------------------------------
(* The log grows or is pruned, cycles begin and end. *)
LEMMA QuietSteps ==
  ASSUME TabInv, Lossless,
         \/ Append \/ Prune \/ Disconnect \/ Connect \/ ConnectivityResume \/ WindowCloses
         \/ RecoveryTimer \/ Heartbeat \/ HeartbeatGrace \/ UNCHANGED vars
  PROVE  Lossless'
<1>0. /\ head \in Nat /\ floor \in Nat /\ unsent \subseteq Visible
      /\ recovery \in BOOLEAN /\ paused \in BOOLEAN /\ joined \in BOOLEAN
  BY DEF TabInv, TypeOK, LogTypeOK
<1>1. UNCHANGED <<buffer, inflight, applied, cursor, failedEntry, recovery>>
  BY Zenon DEF Append, Prune, Disconnect, Connect, ConnectivityResume, WindowCloses, RecoveryTimer,
    Heartbeat, HeartbeatGrace, vars, gateVars, landedVars, engineVars
<1>2. run' = run \/ run' = Retired \/ run' = NewRun
  BY Zenon DEF Append, Prune, Disconnect, Connect, ConnectivityResume, WindowCloses, RecoveryTimer,
    Heartbeat, HeartbeatGrace, RunCatchUp, vars
<1>3. paused' = paused \/ paused'
  BY Zenon DEF Append, Prune, Disconnect, Connect, ConnectivityResume, WindowCloses, RecoveryTimer,
    Heartbeat, HeartbeatGrace, BeginCatchUpCycle, gateVars, vars
<1>4. joined' = joined \/ ~joined'
  BY Zenon DEF Append, Prune, Disconnect, Connect, ConnectivityResume, WindowCloses, RecoveryTimer,
    Heartbeat, HeartbeatGrace, linkVars, vars
<1>5. CASE Append
  <2>1. head' = head + 1 /\ floor' = floor BY <1>5 DEF Append, AppendEntries
  <2>2. unsent' = IF head + 1 \in Visible THEN unsent \cup {head + 1} ELSE unsent
    BY <1>5 DEF Append
  <2>3. Sent' = Sent
    <3>1. ASSUME NEW j \in Visible
          PROVE  (j <= head' /\ j \notin unsent') <=> (j <= head /\ j \notin unsent)
      <4>1. j \in Nat BY VisibleAssumption
      <4>2. CASE j = head + 1
        <5>1. j \in unsent' BY <2>2, <4>2
        <5>2. ~(j <= head) BY <1>0, <4>2
        <5> QED BY <5>1, <5>2
      <4>3. CASE j # head + 1
        <5>1. j <= head' <=> j <= head BY <1>0, <2>1, <4>1, <4>3
        <5>2. j \in unsent' <=> j \in unsent BY <2>2, <4>3
        <5> QED BY <5>1, <5>2
      <4> QED BY <4>2, <4>3
    <3> QED BY <3>1 DEF Sent
  <2>4. unsent' \subseteq 1..head'
    <3>1. unsent \subseteq 1..head BY DEF Lossless, SentInv
    <3> QED BY <1>0, <2>1, <2>2, <3>1
  <2>5. ASSUME NEW j \in Sent, NEW u \in unsent' PROVE j < u
    <3>1. j \in Nat /\ j <= head BY VisibleAssumption DEF Sent
    <3>2. CASE u \in unsent BY <3>2 DEF Lossless, SentInv
    <3>3. CASE u = head + 1 BY <1>0, <3>1, <3>3
    <3> QED BY <2>2, <3>2, <3>3
  <2> QED BY <1>0, <1>1, <1>2, <1>3, <1>4, <2>1, <2>3, <2>4, <2>5, QuietKeepsAll
<1>6. CASE ~Append
  <2>1. head' = head /\ unsent' = unsent
    BY <1>6, Zenon DEF Prune, PruneEntries, Disconnect, Connect, ConnectivityResume, WindowCloses,
      RecoveryTimer, Heartbeat, HeartbeatGrace, serverVars, logVars, vars
  <2>2. floor' \in Nat /\ floor <= floor'
    <3>1. CASE Prune
      <4>1. PICK victims \in SUBSET retained : PruneEntries(victims) BY <3>1 DEF Prune
      <4>2. PICK top \in victims : floor' = IF top > floor THEN top ELSE floor
        BY <4>1 DEF PruneEntries
      <4>3. top \in Nat BY DEF TabInv, TypeOK, LogTypeOK
      <4> QED BY <1>0, <4>2, <4>3
    <3>2. CASE ~Prune
      <4>1. floor' = floor
        BY <1>6, <3>2, Zenon DEF Disconnect, Connect, ConnectivityResume, WindowCloses,
          RecoveryTimer, Heartbeat, HeartbeatGrace, serverVars, logVars, vars
      <4> QED BY <1>0, <4>1
    <3> QED BY <3>1, <3>2
  <2>3. Sent' = Sent BY <2>1 DEF Sent
  <2>4. unsent' \subseteq 1..head' /\ \A j \in Sent, u \in unsent' : j < u
    BY <2>1 DEF Lossless, SentInv
  <2> QED BY <1>0, <1>1, <1>2, <1>3, <1>4, <2>2, <2>3, <2>4, QuietKeepsAll
<1> QED BY <1>5, <1>6

(* The rooms are joined only while the gate is paused and no run is to       *)
(* reopen it.                                                                *)
LEMMA JoinKeepsAll ==
  ASSUME TabInv, LinkInv, Lossless, JoinRooms
  PROVE  Lossless'
<1>1. paused /\ (run.pc = "none" \/ run.stale) BY DEF JoinRooms, LinkInv
<1>2. UNCHANGED <<head, floor, unsent, paused, buffer, failedEntry, recovery, cursor, applied,
                  inflight, run>>
  BY Zenon DEF JoinRooms, serverVars, logVars, gateVars, engineVars, landedVars
<1>3. Sent' = Sent /\ Handed' = Handed BY <1>2 DEF Sent, Handed
<1>4. SentInv' BY <1>2, <1>3 DEF Lossless, SentInv
<1>5. LiveInv' BY <1>1, <1>2, <1>3 DEF Lossless, LiveInv
<1>6. ~HasRead' BY <1>1, <1>2 DEF HasRead
<1>7. PageReplayable' = PageReplayable BY <1>2 DEF PageReplayable
<1>8. RunInv' BY <1>2, <1>3, <1>6, <1>7 DEF Lossless, RunInv
<1> QED BY <1>2, <1>4, <1>5, <1>8 DEF Lossless

(* An emit reaches the handlers or the buffer of a tab in the rooms. A tab   *)
(* outside of them misses it, and so does one whose buffer overflows; the    *)
(* claims about what was sent are then given up.                             *)
LEMMA EmitKeepsAll ==
  ASSUME TabInv, Lossless, Emit
  PROVE  Lossless'
<1> DEFINE i == Smallest(unsent)
<1>0. /\ run \in RunRecords /\ RunShape /\ unsent \subseteq Visible /\ unsent \in SUBSET Nat
      /\ joined \in BOOLEAN /\ paused \in BOOLEAN
  BY VisibleAssumption DEF TabInv, TypeOK, RunRecords
<1>1. i \in unsent /\ \A t \in unsent : i <= t BY <1>0, SmallestIsLeast DEF Emit
<1> HIDE DEF i
<1>2. Deliver(i) BY DEF Emit, i
<1>3. /\ UNCHANGED <<head, floor, failedEntry, cursor, applied, joined>>
      /\ unsent' = unsent \ {i}
  BY <1>2, Zenon DEF Deliver, logVars, linkVars
<1>4. i \in Visible /\ i \in Nat /\ i <= head
  BY <1>0, <1>1 DEF Lossless, SentInv
<1>5. Sent' = Sent \cup {i}
  BY <1>1, <1>3, <1>4 DEF Sent
<1>6. \A j \in Visible : j < i => j \in Sent
  <2>1. ASSUME NEW j \in Visible, j < i PROVE j \in Sent
    <3>1. j \in Nat /\ head \in Nat BY VisibleAssumption DEF TabInv, TypeOK, LogTypeOK
    <3>2. j \notin unsent BY <1>1, <1>4, <2>1, <3>1
    <3>3. j <= head BY <1>4, <2>1, <3>1
    <3> QED BY <3>2, <3>3 DEF Sent
  <2> QED BY <2>1
<1>7. \A j \in Sent : j < i BY <1>1 DEF Lossless, SentInv
<1>8. /\ unsent' \subseteq 1..head'
      /\ \A j \in Sent', u \in unsent' : j < u
  <2>1. unsent' \subseteq 1..head' BY <1>3 DEF Lossless, SentInv
  <2>2. ASSUME NEW u \in unsent' PROVE i < u
    <3>1. u \in unsent /\ u # i /\ u \in Nat BY <1>0, <1>3
    <3> QED BY <1>1, <1>4, <3>1
  <2>3. ASSUME NEW j \in Sent, NEW u \in unsent' PROVE j < u
    BY <1>3 DEF Lossless, SentInv
  <2> QED BY <1>5, <2>1, <2>2, <2>3
<1>9. CASE ~joined
  <2>1. UNCHANGED <<buffer, paused, inflight, recovery, run>>
    BY <1>2, <1>9, Zenon DEF Deliver, gateVars
  <2>2. Handed' = Handed BY <1>3, <2>1 DEF Handed
  <2>3. SentInv' BY <1>5, <1>8, <2>1 DEF Lossless, SentInv
  <2>4. LiveInv' BY <1>3, <1>9, <2>1, <2>2 DEF Lossless, LiveInv
  <2>5. HasRead' = HasRead /\ InHand' = InHand /\ PageReplayable' = PageReplayable
    BY <1>3, <2>1 DEF HasRead, InHand, PageReplayable
  <2>6. RunInv' BY <1>3, <1>9, <2>1, <2>2, <2>5 DEF Lossless, RunInv
  <2> QED BY <1>3, <2>3, <2>4, <2>6 DEF Lossless
<1>10. CASE joined /\ paused /\ buffer' = buffer \cup {i}
            /\ UNCHANGED <<paused, recovery, inflight, run>>
  <2>1. Handed' = Handed BY <1>3, <1>10 DEF Handed
  <2>2. SentInv' BY <1>5, <1>7, <1>8, <1>10 DEF Lossless, SentInv
  <2>3. LiveInv' BY <1>10, <2>1 DEF Lossless, LiveInv
  <2>4. /\ HasRead' = HasRead /\ PageReplayable' = PageReplayable
        /\ InHand' = InHand \cup {i}
    BY <1>3, <1>10 DEF HasRead, InHand, PageReplayable
  <2>5. HasRead => /\ Closed(InHand \cup {i}, Handed)
                   /\ Sent \cup {i} \subseteq Handed \cup (InHand \cup {i})
    <3> SUFFICES ASSUME HasRead PROVE /\ Closed(InHand \cup {i}, Handed)
                                      /\ Sent \cup {i} \subseteq Handed \cup (InHand \cup {i})
      OBVIOUS
    <3>1. Closed(InHand, Handed) /\ Sent \subseteq Handed \cup InHand
      BY <1>10 DEF Lossless, RunInv
    <3>2. Closed(InHand \cup {i}, Handed) BY <1>4, <1>6, <3>1, ClosedByNext
    <3> QED BY <3>1, <3>2
  <2>6. RunInv' BY <1>3, <1>5, <1>10, <2>1, <2>4, <2>5 DEF Lossless, RunInv
  <2> QED BY <1>3, <2>2, <2>3, <2>6 DEF Lossless
<1>11. CASE joined /\ paused' /\ buffer' = {} /\ inflight' = inflight /\ run' = Retired
  <2>1. Handed' = Handed BY <1>3, <1>11 DEF Handed
  <2>2. /\ run'.pc = run.pc /\ run'.page = run.page /\ run'.through = run.through
        /\ run'.pc # "none" => run'.stale
    BY <1>0, <1>11, RetiredRun DEF Running
  <2>3. SentInv' BY <1>5, <1>8, <1>11, <2>2 DEF Lossless, SentInv
  <2>4. LiveInv' BY <1>11, <2>1 DEF Lossless, LiveInv
  <2>5. ~HasRead' BY <2>2 DEF HasRead
  <2>6. PageReplayable' = PageReplayable BY <1>3, <2>2 DEF PageReplayable
  <2>7. RunInv' BY <1>3, <2>1, <2>2, <2>5, <2>6 DEF Lossless, RunInv
  <2> QED BY <1>3, <2>3, <2>4, <2>7 DEF Lossless
<1>12. CASE joined /\ ~paused /\ inflight' = inflight \cup {i}
            /\ UNCHANGED <<buffer, paused, recovery, run>>
  <2>1. Handed' = Handed \cup {i} BY <1>3, <1>12 DEF Handed
  <2>2. SentInv' BY <1>5, <1>8, <1>12 DEF Lossless, SentInv
  <2>3. Sent \subseteq Handed BY <1>12 DEF Lossless, LiveInv
  <2>4. LiveInv'
    <3>1. Closed(inflight, Handed) BY DEF Lossless, LiveInv
    <3>2. Closed(inflight \cup {i}, Handed) BY <1>4, <1>6, <2>3, <3>1, ClosedByNext
    <3>3. Closed(inflight \cup {i}, Handed \cup {i}) BY <3>2, ClosedKept
    <3>4. Sent' \subseteq Handed' BY <1>5, <2>1, <2>3
    <3> QED BY <1>12, <2>1, <3>3, <3>4 DEF LiveInv
  <2>5. /\ HasRead' = HasRead /\ PageReplayable' = PageReplayable /\ InHand' = InHand
    BY <1>3, <1>12 DEF HasRead, InHand, PageReplayable
  <2>6. RunInv'
    <3>1. Behind(cursor, Handed') /\ Behind(run.through, Handed')
      BY <2>1, BehindGrows DEF Lossless, RunInv
    <3>2. PageReplayable => Closed(run.page, Handed')
      BY <2>1, ClosedKept DEF Lossless, RunInv
    <3>3. HasRead => Closed(InHand, Handed') BY <2>1, ClosedKept DEF Lossless, RunInv
    <3>4. Sent' \subseteq Handed' \cup InHand' BY <1>5, <2>1, <2>3
    <3> QED BY <1>3, <1>12, <2>5, <3>1, <3>2, <3>3, <3>4 DEF RunInv
  <2> QED BY <1>3, <2>2, <2>4, <2>6 DEF Lossless
<1>13. joined =>
         \/ /\ paused /\ buffer' = buffer \cup {i}
            /\ UNCHANGED <<paused, recovery, inflight, run>>
         \/ paused' /\ buffer' = {} /\ inflight' = inflight /\ run' = Retired
         \/ /\ ~paused /\ inflight' = inflight \cup {i}
            /\ UNCHANGED <<buffer, paused, recovery, run>>
  BY <1>2, Zenon DEF Deliver, HandleIncoming, OnRecoveryRequired, gateVars
<1> QED BY <1>9, <1>10, <1>11, <1>12, <1>13
-----------------------------------------------------------------------------
(* The run reads: a page that reaches down to the floor leaves nothing out,  *)
(* and a short one nothing at all.                                           *)
LEMMA FetchKeepsAll ==
  ASSUME Collapse <= PageLimit, TabInv, Lossless, FetchEntries
  PROVE  Lossless'
<1> DEFINE P == Pending(run.through)
           F == FirstOf(P, PageLimit)
<1>0. /\ run \in RunRecords /\ head \in Nat /\ floor \in Nat /\ run.through \in Int
      /\ PageLimit \in Nat /\ Collapse \in Nat
  BY ClientLimitsAssumption DEF TabInv, TypeOK, LogTypeOK, RunRecords, NoPosition
<1>1. P \in SUBSET Nat /\ IsFiniteSet(P) BY PendingIsFinite DEF TabInv
<1>2. F \subseteq P BY FirstOfIsSubset
<1>3. run' = [run EXCEPT !.pc = "reply", !.page = F] BY DEF FetchEntries
<1>4. UNCHANGED <<head, floor, unsent, joined, paused, buffer, inflight, applied, cursor,
                  failedEntry, recovery>>
  BY Zenon DEF FetchEntries, serverVars, logVars, linkVars, gateVars, engineVars, landedVars
<1>5. Sent' = Sent /\ Handed' = Handed BY <1>4 DEF Sent, Handed
<1>6. ASSUME floor <= run.through, NEW j \in Visible, j <= head PROVE j \in Handed \/ j \in P
  <2>1. j \in Nat BY VisibleAssumption
  <2>2. CASE j <= run.through BY <2>2 DEF Lossless, RunInv, Behind
  <2>3. CASE j > run.through
    <3>1. j \in (floor + 1)..head BY <1>0, <1>6, <2>1, <2>3
    <3>2. j \in retained BY <3>1, Zenon DEF TabInv, FloorSound
    <3> QED BY <2>3, <3>2 DEF Pending
  <2> QED BY <1>0, <2>1, <2>2, <2>3
<1>7. \A i \in P \cup buffer : i \in Nat /\ i <= head
  <2>1. \A i \in P : i \in Nat /\ i <= head BY <1>0 DEF TabInv, TypeOK, LogTypeOK, Pending
  <2>2. \A i \in buffer : i \in Nat /\ i <= head
    BY VisibleAssumption DEF Lossless, SentInv, Sent
  <2> QED BY <2>1, <2>2
<1> HIDE DEF P
<1>8. floor <= run.through => Closed(F, Handed)
  <2> SUFFICES ASSUME floor <= run.through, NEW i \in F, NEW j \in Visible, j <= i
               PROVE  j \in Handed \cup F
    BY DEF Closed
  <2>1. j <= head
    <3>1. i \in Nat /\ i <= head /\ j \in Nat BY <1>2, <1>7, VisibleAssumption
    <3> QED BY <1>0, <3>1
  <2>2. j \in Handed \/ j \in P BY <1>6, <2>1
  <2>3. j \in P => j \in F BY <1>0, <1>1, FirstOfIsInitial
  <2> QED BY <2>2, <2>3
<1>9. floor <= run.through /\ Cardinality(F) < Collapse =>
        /\ Closed(F \cup buffer, Handed)
        /\ Sent \subseteq Handed \cup (F \cup buffer)
  <2> SUFFICES ASSUME floor <= run.through, Cardinality(F) < Collapse
               PROVE  /\ Closed(F \cup buffer, Handed)
                      /\ Sent \subseteq Handed \cup (F \cup buffer)
    OBVIOUS
  <2>1. F = P
    <3>1. Cardinality(F) \in Nat BY <1>1, <1>2, FS_Subset, FS_CardinalityType
    <3>2. Cardinality(F) < PageLimit
      <4> HIDE DEF F
      <4> QED BY <1>0, <3>1
    <3> QED BY <1>0, <1>1, <3>2, ShortIsComplete
  <2> HIDE DEF F
  <2>2. ASSUME NEW i \in F \cup buffer, NEW j \in Visible, j <= i PROVE j \in Handed \cup F
    <3>1. i \in Nat /\ i <= head /\ j \in Nat BY <1>7, <2>1, VisibleAssumption
    <3>2. j <= head BY <1>0, <2>2, <3>1
    <3> QED BY <1>6, <2>1, <3>2
  <2>3. Sent \subseteq Handed \cup F BY <1>6, <2>1 DEF Sent
  <2> QED BY <2>2, <2>3 DEF Closed
<1> HIDE DEF F
<1>10. /\ run'.pc = "reply" /\ run'.page = F /\ run'.through = run.through
       /\ run'.stale = run.stale
  BY <1>0, <1>3 DEF RunRecords
<1>11. SentInv' BY <1>4, <1>5, <1>10 DEF Lossless, SentInv
<1>12. LiveInv' BY <1>4, <1>5 DEF Lossless, LiveInv
<1>13. HasRead' => floor <= run.through /\ Cardinality(F) < Collapse
  BY <1>4, <1>10 DEF HasRead
<1>14. InHand' = F \cup buffer BY <1>4, <1>10 DEF InHand
<1>15. PageReplayable' => floor <= run.through BY <1>4, <1>10 DEF PageReplayable
<1>16. RunInv'
  BY <1>4, <1>5, <1>8, <1>9, <1>10, <1>13, <1>14, <1>15 DEF Lossless, RunInv
<1> QED BY <1>4, <1>11, <1>12, <1>16 DEF Lossless

LEMMA ReplyKeepsAll ==
  ASSUME TabInv, OnePage, Lossless, Reply
  PROVE  Lossless'
<1>0. /\ run \in RunRecords /\ floor \in Nat /\ run.through \in Int /\ Collapse \in Nat \ {0}
      /\ Cardinality(run.page) \in Nat
  <2>1. Cardinality(run.page) \in Nat BY FS_CardinalityType DEF TabInv, FinitelyMany
  <2> QED BY <2>1, ClientLimitsAssumption DEF TabInv, TypeOK, LogTypeOK, RunRecords, NoPosition
<1>1. UNCHANGED <<head, floor, unsent, joined, paused, buffer, inflight, applied, cursor,
                  failedEntry>>
  BY Zenon DEF Reply, serverVars, logVars, linkVars, gateVars, landedVars
<1>2. Sent' = Sent /\ Handed' = Handed BY <1>1 DEF Sent, Handed
<1>3. LiveInv' BY <1>1, <1>2 DEF Lossless, LiveInv
<1>4. CASE BeginHeal(head)
  <2>1. run' = [run EXCEPT !.pc = "heal", !.head = head, !.page = {}] BY <1>4 DEF BeginHeal
  <2>2. run'.pc = "heal" /\ run'.through = run.through BY <1>0, <2>1 DEF RunRecords
  <2>3. SentInv' BY <1>1, <1>2, <2>2 DEF Lossless, SentInv
  <2>4. ~HasRead' /\ ~PageReplayable' BY <2>2 DEF HasRead, PageReplayable
  <2>5. RunInv' BY <1>1, <1>2, <2>2, <2>4 DEF Lossless, RunInv
  <2> QED BY <1>1, <1>3, <2>3, <2>5 DEF Lossless
<1>5. ~MustHeal => floor <= run.through BY <1>0 DEF MustHeal
<1>6. run.pc = "reply" /\ run.pages = 0 BY DEF Reply, OnePage
<1>7. CASE ~MustHeal /\ run.page = {} /\ run' = [run EXCEPT !.pc = "finish"]
  <2>1. /\ run'.pc = "finish" /\ run'.through = run.through /\ run'.page = {}
        /\ run'.stale = run.stale
    BY <1>0, <1>7 DEF RunRecords
  <2>2. Cardinality(run.page) < Collapse BY <1>0, <1>7, FS_EmptySet
  <2>3. SentInv' BY <1>1, <1>2, <2>1 DEF Lossless, SentInv
  <2>4. HasRead' => HasRead BY <1>5, <1>6, <1>7, <2>1, <2>2 DEF HasRead
  <2>5. InHand' = InHand /\ ~PageReplayable'
    BY <1>1, <1>6, <1>7, <2>1 DEF InHand, PageReplayable
  <2>6. RunInv' BY <1>1, <1>2, <2>1, <2>4, <2>5 DEF Lossless, RunInv
  <2> QED BY <1>1, <1>3, <2>3, <2>6 DEF Lossless
<1>8. ASSUME ~MustHeal, ~CollapsesGap, NEW n, NEW b,
             run' = [run EXCEPT !.pc = "apply", !.head = head, !.pages = n, !.short = b]
      PROVE  Lossless'
  <2>1. /\ run'.pc = "apply" /\ run'.through = run.through /\ run'.page = run.page
        /\ run'.stale = run.stale
    BY <1>0, <1>8 DEF RunRecords
  <2>2. Cardinality(run.page) < Collapse BY <1>0, <1>6, <1>8 DEF CollapsesGap
  <2>3. SentInv' BY <1>1, <1>2, <2>1 DEF Lossless, SentInv
  <2>4. HasRead' => HasRead BY <1>5, <1>6, <1>8, <2>1, <2>2 DEF HasRead
  <2>5. InHand' = InHand BY <1>1, <1>6, <2>1 DEF InHand
  <2>6. PageReplayable BY <1>5, <1>6, <1>8 DEF PageReplayable
  <2>7. RunInv' BY <1>1, <1>2, <2>1, <2>4, <2>5, <2>6 DEF Lossless, RunInv
  <2> QED BY <1>1, <1>3, <2>3, <2>7 DEF Lossless
<1>9. \/ BeginHeal(head)
      \/ ~MustHeal /\ run.page = {} /\ run' = [run EXCEPT !.pc = "finish"]
      \/ /\ ~MustHeal /\ ~CollapsesGap
         /\ \E n, b : run' = [run EXCEPT !.pc = "apply", !.head = head, !.pages = n, !.short = b]
  BY Zenon DEF Reply
<1> QED BY <1>4, <1>7, <1>8, <1>9
-----------------------------------------------------------------------------
(* Entries of the page land in order. *)
LEMMA ApplyKeepsAll ==
  ASSUME TabInv, OnePage, Lossless, ApplyEntry
  PROVE  Lossless'
<1> DEFINE i == Smallest(run.page)
<1>0. /\ run \in RunRecords /\ run.pc = "apply" /\ run.page \in SUBSET Nat /\ run.page # {}
      /\ run.page \subseteq Visible /\ cursor \in Nat /\ run.short
  BY VisibleAssumption DEF TabInv, TypeOK, RunRecords, RunShape, ApplyEntry, OnePage
<1>1. i \in run.page /\ \A t \in run.page : i <= t BY <1>0, SmallestIsLeast
<1> HIDE DEF i
<1>2. Land(i) /\ run' = AfterPage([run EXCEPT !.page = @ \ {i}, !.through = i])
      /\ failedEntry' = 0
  BY DEF ApplyEntry, i
<1>3. UNCHANGED <<head, floor, unsent, joined, paused, buffer, recovery>>
  BY Zenon DEF ApplyEntry, serverVars, logVars, linkVars, gateVars
<1>4. Sent' = Sent /\ Handed' = Handed \cup {i} /\ inflight' = inflight
  BY <1>2, <1>3 DEF Sent, Handed, Land
<1>5. /\ run'.page = run.page \ {i} /\ run'.through = i /\ run'.stale = run.stale
      /\ run'.pc = "apply" \/ (run'.pc = "finish" /\ run'.page = {})
  <2>1. PICK r : r = [run EXCEPT !.page = @ \ {i}, !.through = i] OBVIOUS
  <2>2. /\ r.pc = "apply" /\ r.page = run.page \ {i} /\ r.through = i /\ r.stale = run.stale
        /\ r.short = run.short
    BY <1>0, <2>1 DEF RunRecords
  <2>3. r \in [pc : {r.pc}, stale : {r.stale}, through : {r.through}, page : {r.page},
               short : {r.short}, pages : {r.pages}, head : {r.head}, snapshot : {r.snapshot}]
    BY <1>0, <2>1 DEF RunRecords
  <2>4. \/ run' = r
        \/ run' = [r EXCEPT !.pc = "finish"] /\ r.page = {}
    BY <1>0, <1>2, <2>1, <2>2 DEF AfterPage
  <2>5. CASE run' = r BY <2>2, <2>5
  <2>6. CASE run' = [r EXCEPT !.pc = "finish"] /\ r.page = {}
    <3>1. /\ run'.pc = "finish" /\ run'.page = r.page /\ run'.through = r.through
          /\ run'.stale = r.stale
      BY <2>3, <2>6
    <3> QED BY <2>2, <2>6, <3>1
  <2> QED BY <2>4, <2>5, <2>6
<1>6. Closed(run.page, Handed) BY <1>0 DEF Lossless, RunInv, PageReplayable
<1>7. Behind(i, Handed') BY <1>0, <1>1, <1>4, <1>6, LandingLeast
<1>8. Behind(cursor', Handed')
  <2>1. Behind(cursor, Handed') BY <1>4, BehindGrows DEF Lossless, RunInv
  <2>2. cursor' = Larger(cursor, i) /\ i \in Nat BY <1>0, <1>1, <1>2 DEF Land
  <2> QED BY <1>0, <1>7, <2>1, <2>2, LargerBehind
<1>9. SentInv' BY <1>3, <1>4, <1>5 DEF Lossless, SentInv
<1>10. LiveInv'
  <2>1. Closed(inflight, Handed') BY <1>4, ClosedKept DEF Lossless, LiveInv
  <2> QED BY <1>3, <1>4, <2>1 DEF Lossless, LiveInv
<1>11. Closed(run'.page, Handed') BY <1>4, <1>5, <1>6, ClosedKept
<1>12. HasRead' => /\ Closed(InHand', Handed')
                   /\ joined' => Sent' \subseteq Handed' \cup InHand'
  <2> SUFFICES ASSUME HasRead' PROVE /\ Closed(InHand', Handed')
                                     /\ joined' => Sent' \subseteq Handed' \cup InHand'
    OBVIOUS
  <2>1. HasRead BY <1>0, <1>5 DEF HasRead
  <2>2. InHand = run.page \cup buffer /\ InHand' = (run.page \ {i}) \cup buffer
    BY <1>0, <1>3, <1>5 DEF InHand
  <2>3. Closed(InHand, Handed) /\ (joined => Sent \subseteq Handed \cup InHand)
    BY <2>1 DEF Lossless, RunInv
  <2>4. InHand' \subseteq InHand /\ InHand \subseteq InHand' \cup Handed' BY <1>4, <2>2
  <2>5. Closed(InHand', Handed') BY <1>4, <2>3, <2>4, ClosedKept
  <2> QED BY <1>3, <1>4, <2>3, <2>4, <2>5
<1>13. RunInv' BY <1>5, <1>7, <1>8, <1>11, <1>12 DEF RunInv
<1> QED BY <1>2, <1>9, <1>10, <1>13 DEF Lossless

(* The cursor is loaded; a snapshot is read, lands or fails. *)
LEMMA SnapshotKeepsAll ==
  ASSUME TabInv, Lossless, LoadCursor \/ SnapshotRead \/ SnapshotLands \/ SnapshotFails
  PROVE  Lossless'
<1>0. /\ run \in RunRecords /\ RunShape /\ head \in Nat /\ cursor \in Nat
  BY DEF TabInv, TypeOK, LogTypeOK, RunRecords
<1>1. UNCHANGED <<head, floor, unsent, joined, paused, buffer, failedEntry, inflight>>
  BY Zenon DEF LoadCursor, SnapshotRead, SnapshotLands, SnapshotFails, serverVars, logVars, linkVars,
    gateVars, engineVars, landedVars
<1>2. Sent' = Sent BY <1>1 DEF Sent
<1>3. CASE LoadCursor \/ SnapshotRead \/ SnapshotFails
  <2>1. cursor' = cursor /\ recovery' = recovery /\ Handed' = Handed
    <3>1. UNCHANGED <<cursor, applied, recovery>>
      BY <1>3, Zenon DEF LoadCursor, SnapshotRead, SnapshotFails, engineVars, landedVars
    <3> QED BY <1>1, <3>1 DEF Handed
  <2>2. LiveInv' BY <1>1, <1>2, <2>1 DEF Lossless, LiveInv
  <2>3. CASE LoadCursor
    <3>1. run' = [run EXCEPT !.pc = "fetch", !.through = cursor] BY <2>3 DEF LoadCursor
    <3>2. run'.pc = "fetch" /\ run'.through = cursor BY <1>0, <3>1 DEF RunRecords
    <3>3. SentInv' BY <1>1, <1>2, <3>2 DEF Lossless, SentInv
    <3>4. ~HasRead' /\ ~PageReplayable' BY <3>2 DEF HasRead, PageReplayable
    <3>5. RunInv' BY <2>1, <3>2, <3>4 DEF Lossless, RunInv
    <3> QED BY <1>1, <2>2, <3>3, <3>5 DEF Lossless
  <2>4. CASE SnapshotRead
    <3>1. run' = [run EXCEPT !.pc = "land", !.snapshot = head] BY <2>4 DEF SnapshotRead
    <3>2. run'.pc = "land" /\ run'.through = run.through /\ run'.snapshot = head
      BY <1>0, <3>1 DEF RunRecords
    <3>3. SentInv' BY <1>1, <1>2, <3>2 DEF Lossless, SentInv
    <3>4. ~PageReplayable' BY <3>2 DEF PageReplayable
    <3>5. InHand' = {s \in Visible : s <= head} \cup buffer
      BY <1>1, <3>2 DEF InHand
    <3>6. \A s \in Sent : s \in Visible /\ s <= head BY DEF Sent
    <3>7. Closed(InHand', Handed')
      <4> SUFFICES ASSUME NEW k \in InHand', NEW j \in Visible, j <= k PROVE j \in InHand'
        BY DEF Closed
      <4>1. k \in Visible /\ k <= head BY <3>5, <3>6 DEF Lossless, SentInv
      <4>2. j <= head BY <1>0, <4>1, VisibleAssumption
      <4> QED BY <3>5, <4>2
    <3>8. Sent' \subseteq InHand' BY <1>2, <3>5, <3>6
    <3>9. RunInv' BY <2>1, <3>2, <3>4, <3>7, <3>8 DEF Lossless, RunInv
    <3> QED BY <1>1, <2>2, <3>3, <3>9 DEF Lossless
  <2>5. CASE SnapshotFails
    <3>1. run' = [run EXCEPT !.pc = "finish"] /\ run.pc \in {"heal", "land"}
      BY <2>5 DEF SnapshotFails
    <3>2. run'.pc = "finish" /\ run'.through = run.through /\ run'.page = {} /\ recovery
      BY <1>0, <3>1 DEF RunRecords, RunShape
    <3>3. SentInv' BY <1>1, <1>2, <3>2 DEF Lossless, SentInv
    <3>4. ~HasRead' /\ ~PageReplayable' BY <2>1, <3>2 DEF HasRead, PageReplayable
    <3>5. RunInv' BY <2>1, <3>2, <3>4 DEF Lossless, RunInv
    <3> QED BY <1>1, <2>2, <3>3, <3>5 DEF Lossless
  <2> QED BY <1>3, <2>3, <2>4, <2>5
<1>4. CASE SnapshotLands
  <2> DEFINE L == {s \in Visible : s <= run.snapshot}
  <2>1. Handed' = Handed \cup L BY <1>1, <1>4 DEF SnapshotLands, Handed
  <2>2. LiveInv'
    <3>1. Closed(inflight, Handed') BY <2>1, ClosedKept DEF Lossless, LiveInv
    <3> QED BY <1>1, <1>2, <2>1, <3>1 DEF Lossless, LiveInv
  <2>3. run.pc = "land" /\ run.page = {} BY <1>0, <1>4 DEF SnapshotLands, RunShape
  <2>4. Behind(cursor, Handed') BY <2>1, BehindGrows DEF Lossless, RunInv
  <2>5. Behind(run.head, Handed')
    <3>1. run.head \in Nat /\ run.snapshot \in Nat /\ run.head <= run.snapshot
      BY <1>0, <2>3 DEF RunRecords, RunShape
    <3>2. ASSUME NEW j \in Visible, j <= run.head PROVE j <= run.snapshot
      BY <3>1, <3>2, VisibleAssumption
    <3> QED BY <2>1, <3>2 DEF Behind
  <2>6. CASE run.stale
    <3>1. run' = [run EXCEPT !.pc = "finish", !.through = NoPosition] /\ cursor' = cursor
      BY <1>4, <2>6 DEF SnapshotLands
    <3>2. run'.pc = "finish" /\ run'.through = NoPosition /\ run'.page = {} /\ run'.stale
      BY <1>0, <2>3, <2>6, <3>1 DEF RunRecords
    <3>3. SentInv' BY <1>1, <1>2, <3>2 DEF Lossless, SentInv
    <3>4. ~HasRead' /\ ~PageReplayable' BY <3>2 DEF HasRead, PageReplayable
    <3>5. RunInv' BY <2>4, <3>1, <3>2, <3>4, NothingBelowStart DEF RunInv
    <3> QED BY <1>1, <2>2, <3>3, <3>5 DEF Lossless
  <2>7. CASE ~run.stale
    <3>1. /\ run' = [run EXCEPT !.pc = "finish", !.through = run.head]
          /\ cursor' = Larger(cursor, run.head)
      BY <1>4, <2>7 DEF SnapshotLands
    <3>2. run'.pc = "finish" /\ run'.through = run.head /\ run'.page = {}
      BY <1>0, <2>3, <3>1 DEF RunRecords
    <3>3. SentInv' BY <1>1, <1>2, <3>2 DEF Lossless, SentInv
    <3>4. run.head \in Nat BY <1>0 DEF RunRecords
    <3>5. Behind(cursor', Handed') BY <1>0, <2>4, <2>5, <3>1, <3>4, LargerBehind
    <3>6. HasRead BY <2>3, <2>7 DEF HasRead
    <3>7. InHand = L \cup buffer /\ InHand' = buffer BY <1>1, <2>3, <3>2 DEF InHand
    <3>8. Closed(InHand, Handed) /\ (joined => Sent \subseteq Handed \cup InHand)
      BY <3>6 DEF Lossless, RunInv
    <3>9. InHand' \subseteq InHand /\ InHand \subseteq InHand' \cup Handed' BY <2>1, <3>7
    <3>10. Closed(InHand', Handed') BY <2>1, <3>8, <3>9, ClosedKept
    <3>11. ~PageReplayable' BY <3>2 DEF PageReplayable
    <3>12. joined' => Sent' \subseteq Handed' \cup InHand'
      BY <1>1, <1>2, <2>1, <3>8, <3>9
    <3>13. RunInv' BY <2>5, <3>2, <3>5, <3>10, <3>11, <3>12 DEF RunInv
    <3> QED BY <1>1, <2>2, <3>3, <3>13 DEF Lossless
  <2> QED BY <2>6, <2>7
<1> QED BY <1>3, <1>4
-----------------------------------------------------------------------------
(* The end of the run: the buffer is spliced behind what the run replayed.   *)
LEMMA SpliceKeepsAll ==
  ASSUME TabInv, Lossless, SpliceNext
  PROVE  Lossless'
<1> DEFINE i == Smallest(run.page)
<1>0. /\ run \in RunRecords /\ run.page \in SUBSET Nat /\ run.page # {} /\ run.pc = "finish"
      /\ run.page \subseteq Visible /\ cursor \in Nat /\ buffer \in SUBSET Nat
      /\ ~run.stale /\ ~recovery
  BY VisibleAssumption DEF TabInv, TypeOK, RunRecords, SpliceNext, MayResume
<1>1. i \in run.page /\ \A t \in run.page : i <= t BY <1>0, SmallestIsLeast
<1> HIDE DEF i
<1>2. /\ IF Splices(i) THEN Land(i) ELSE UNCHANGED landedVars
      /\ run' = [run EXCEPT !.page = @ \ {i}]
  BY DEF SpliceNext, i
<1>3. UNCHANGED <<head, floor, unsent, joined, paused, buffer, recovery, failedEntry>>
  BY Zenon DEF SpliceNext, serverVars, logVars, linkVars, gateVars, engineVars
<1>4. /\ run'.pc = "finish" /\ run'.page = run.page \ {i} /\ run'.through = run.through
      /\ run'.stale = run.stale
  BY <1>0, <1>2 DEF RunRecords
<1>5. Sent' = Sent BY <1>3 DEF Sent
<1>6. HasRead /\ InHand = run.page \cup buffer /\ InHand' = (run.page \ {i}) \cup buffer
  BY <1>0, <1>3, <1>4 DEF HasRead, InHand
<1>7. Closed(InHand, Handed) /\ (joined => Sent \subseteq Handed \cup InHand)
  BY <1>6 DEF Lossless, RunInv
<1>8. /\ inflight' = inflight /\ Handed \subseteq Handed' /\ i \in Handed'
      /\ Behind(cursor', Handed')
  <2>1. CASE Splices(i)
    <3>1. Land(i) BY <1>2, <2>1
    <3>2. inflight' = inflight /\ Handed' = Handed \cup {i} /\ cursor' = Larger(cursor, i)
      BY <3>1 DEF Land, Handed
    <3>3. \A t \in InHand : i <= t
      <4>1. \A b \in buffer : i < b BY <1>0, <1>1 DEF Lossless, SentInv
      <4>2. ASSUME NEW b \in buffer PROVE i <= b BY <1>0, <1>1, <4>1
      <4> QED BY <1>1, <1>6, <4>2
    <3>4. InHand \in SUBSET Nat /\ i \in InHand BY <1>0, <1>1, <1>6
    <3>5. Behind(i, Handed') BY <1>7, <3>2, <3>3, <3>4, LandingLeast
    <3>6. Behind(cursor, Handed') BY <3>2, BehindGrows DEF Lossless, RunInv
    <3>7. i \in Nat BY <1>0, <1>1
    <3>8. Behind(cursor', Handed') BY <1>0, <3>2, <3>5, <3>6, <3>7, LargerBehind
    <3> QED BY <3>2, <3>8
  <2>2. CASE ~Splices(i)
    <3>1. cursor' = cursor /\ applied' = applied /\ inflight' = inflight
      BY <1>2, <2>2 DEF landedVars
    <3>2. Handed' = Handed BY <3>1 DEF Handed
    <3>3. i <= run.through
      <4>1. run.through \in Int /\ i \in Int BY <1>0, <1>1 DEF RunRecords, NoPosition
      <4> QED BY <2>2, <4>1 DEF Splices
    <3>4. i \in Handed BY <1>0, <1>1, <3>3 DEF Lossless, RunInv, Behind
    <3> QED BY <3>1, <3>2, <3>4 DEF Lossless, RunInv
  <2> QED BY <2>1, <2>2
<1>9. SentInv'
  <2>1. /\ unsent \subseteq 1..head /\ buffer \subseteq Sent /\ run.page \subseteq Sent
        /\ \A j \in Sent, u \in unsent : j < u
        /\ \A k \in run.page, b \in buffer : k < b
    BY <1>0, Zenon DEF Lossless, SentInv
  <2>2. run'.page \subseteq run.page BY <1>4
  <2>3. run'.page \subseteq Sent /\ \A k \in run'.page, b \in buffer : k < b
    BY <2>1, <2>2, Zenon
  <2> QED BY <1>3, <1>5, <2>1, <2>3, Zenon DEF SentInv
<1>10. LiveInv'
  <2>1. Closed(inflight, Handed') BY <1>8, ClosedKept DEF Lossless, LiveInv
  <2> QED BY <1>3, <1>5, <1>8, <2>1 DEF Lossless, LiveInv
<1>11. InHand' \subseteq InHand /\ InHand \subseteq InHand' \cup Handed' BY <1>6, <1>8
<1>12. Closed(InHand', Handed') BY <1>7, <1>8, <1>11, ClosedKept
<1>13. joined' => Sent' \subseteq Handed' \cup InHand' BY <1>3, <1>5, <1>7, <1>8, <1>11
<1>14. Behind(run'.through, Handed') BY <1>4, <1>8, BehindGrows DEF Lossless, RunInv
<1>15. ~PageReplayable' BY <1>4 DEF PageReplayable
<1>16. RunInv' BY <1>8, <1>12, <1>13, <1>14, <1>15 DEF RunInv
<1> QED BY <1>3, <1>9, <1>10, <1>16 DEF Lossless

LEMMA EndsKeepAll ==
  ASSUME TabInv, Lossless, LeavePaused \/ TakeBuffer \/ Reopen \/ SpliceFails
  PROVE  Lossless'
<1>0. run \in RunRecords /\ run.pc = "finish"
  BY DEF TabInv, TypeOK, RunRecords, LeavePaused, TakeBuffer, Reopen, SpliceFails
<1>1. UNCHANGED <<head, floor, unsent, joined, failedEntry, cursor, applied, inflight>>
  BY Zenon DEF LeavePaused, TakeBuffer, Reopen, SpliceFails, serverVars, logVars, linkVars,
    engineVars, landedVars
<1>2. Sent' = Sent /\ Handed' = Handed BY <1>1 DEF Sent, Handed
<1>3. run.page \cup buffer \subseteq Sent BY <1>0 DEF Lossless, SentInv
<1>4. CASE TakeBuffer
  <2>1. /\ run' = [run EXCEPT !.page = buffer] /\ buffer' = {} /\ paused' = paused
        /\ recovery' = recovery /\ run.page = {}
    BY <1>4, Zenon DEF TakeBuffer, engineVars
  <2>2. /\ run'.pc = "finish" /\ run'.page = buffer /\ run'.through = run.through
        /\ run'.stale = run.stale
    BY <1>0, <2>1 DEF RunRecords
  <2>3. SentInv' BY <1>1, <1>2, <1>3, <2>1, <2>2 DEF Lossless, SentInv
  <2>4. LiveInv' BY <1>1, <1>2, <2>1 DEF Lossless, LiveInv
  <2>5. (HasRead' => HasRead) /\ InHand' = InHand /\ ~PageReplayable'
    BY <1>0, <2>1, <2>2 DEF HasRead, InHand, PageReplayable
  <2>6. RunInv' BY <1>1, <1>2, <2>2, <2>5 DEF Lossless, RunInv
  <2> QED BY <1>1, <2>3, <2>4, <2>6 DEF Lossless
<1>5. CASE LeavePaused \/ Reopen \/ SpliceFails
  <2>1. run' = IdleRun \/ run' = NewRun BY <1>5 DEF LeavePaused, Reopen, SpliceFails
  <2>2. run'.pc \in {"none", "load"} /\ run'.through = NoPosition BY <2>1, FreshRuns
  <2>3. buffer' \subseteq run.page \cup buffer
    BY <1>5, FirstOfIsSubset DEF LeavePaused, Reopen, SpliceFails
  <2>4. SentInv' BY <1>1, <1>2, <1>3, <2>2, <2>3 DEF Lossless, SentInv
  <2>5. ~HasRead' /\ ~PageReplayable' BY <2>2 DEF HasRead, PageReplayable
  <2>6. RunInv' BY <1>1, <1>2, <2>2, <2>5, NothingBelowStart DEF Lossless, RunInv
  <2>7. LiveInv'
    <3>1. CASE Reopen
      <4>1. ~run.stale /\ ~recovery /\ run.page = {} /\ buffer = {}
        BY <3>1 DEF Reopen, MayResume
      <4>2. HasRead /\ InHand = {} BY <1>0, <4>1 DEF HasRead, InHand
      <4>3. joined => Sent \subseteq Handed BY <4>2 DEF Lossless, RunInv
      <4> QED BY <1>1, <1>2, <4>3 DEF Lossless, LiveInv
    <3>2. CASE LeavePaused \/ SpliceFails
      <4>1. paused' = paused \/ paused'
        BY <3>2, Zenon DEF LeavePaused, SpliceFails, OnRecoveryRequired
      <4>2. paused \in BOOLEAN BY DEF TabInv, TypeOK
      <4> QED BY <1>1, <1>2, <4>1, <4>2 DEF Lossless, LiveInv
    <3> QED BY <1>5, <3>1, <3>2
  <2> QED BY <1>1, <2>4, <2>6, <2>7 DEF Lossless
<1> QED BY <1>4, <1>5

(* A live event lands: none below it is missing. *)
LEMMA LiveKeepsAll ==
  ASSUME TabInv, Lossless, NEW i \in inflight, LiveLands(i)
  PROVE  Lossless'
<1>1. UNCHANGED <<head, floor, unsent, joined, paused, buffer, recovery, failedEntry, run>>
  BY Zenon DEF LiveLands, serverVars, logVars, linkVars, gateVars, engineVars
<1>2. inflight' = inflight \ {i} /\ applied' = applied \cup {i} /\ cursor' = Larger(cursor, i)
  BY DEF LiveLands
<1>3. Sent' = Sent /\ Handed' = Handed BY <1>1, <1>2 DEF Sent, Handed
<1>4. i \in Nat /\ cursor \in Nat BY VisibleAssumption DEF TabInv, TypeOK
<1>5. Closed(inflight, Handed) BY DEF Lossless, LiveInv
<1>6. Behind(i, Handed) BY <1>5 DEF Closed, Behind, Handed
<1>7. Behind(cursor', Handed') BY <1>2, <1>3, <1>4, <1>6, LargerBehind DEF Lossless, RunInv
<1>8. Closed(inflight', Handed')
  <2>1. inflight \subseteq inflight' \cup Handed' BY <1>3 DEF Handed
  <2> QED BY <1>2, <1>3, <1>5, <2>1, ClosedKept
<1>9. SentInv' BY <1>1, <1>3 DEF Lossless, SentInv
<1>10. LiveInv' BY <1>1, <1>3, <1>8 DEF Lossless, LiveInv
<1>11. /\ HasRead' = HasRead /\ InHand' = InHand /\ PageReplayable' = PageReplayable
  BY <1>1 DEF HasRead, InHand, PageReplayable
<1>12. RunInv' BY <1>1, <1>3, <1>7, <1>11 DEF Lossless, RunInv
<1> QED BY <1>1, <1>9, <1>10, <1>12 DEF Lossless

(* The failures that do lose something say so. *)
LEMMA LossesAreNoted ==
  ASSUME TabInv, failedEntry = 0, NoLoss'
  PROVE  /\ ~EmitOutOfOrder /\ ~EmitLost /\ ~FetchFails /\ ~EntryFails
         /\ \A i \in inflight : ~LiveFails(i)
<1>1. ASSUME EmitOutOfOrder PROVE FALSE BY <1>1 DEF EmitOutOfOrder, NoLoss
<1>2. ASSUME EmitLost PROVE FALSE BY <1>2 DEF EmitLost, NoLoss
<1>3. ASSUME FetchFails PROVE FALSE BY <1>3 DEF FetchFails, NoLoss
<1>4. ASSUME EntryFails PROVE FALSE
  <2>1. run.page \in SUBSET Nat /\ run.page # {} /\ 0 \notin run.page
    BY <1>4, VisibleAssumption DEF TabInv, TypeOK, RunShape, EntryFails
  <2>2. Smallest(run.page) # 0 BY <2>1, SmallestIsLeast
  <2>3. "entry" \in holes' BY <1>4, <2>2 DEF EntryFails
  <2> QED BY <2>3 DEF NoLoss
<1>5. ASSUME NEW i \in inflight, LiveFails(i) PROVE FALSE BY <1>5 DEF LiveFails, NoLoss
<1> QED BY <1>1, <1>2, <1>3, <1>4, <1>5

LEMMA HolesStay ==
  ASSUME [Next]_vars, NoLoss'
  PROVE  NoLoss
<1>1. holes \subseteq holes'
  <2>1. \/ holes' = holes
        \/ \E h : holes' = holes \cup {h}
    BY Zenon DEF Next, Append, Prune, Emit, EmitOutOfOrder, EmitLost, Disconnect, Connect,
      ConnectivityResume, JoinRooms, WindowCloses, RunStep, LoadCursor, FetchEntries, Reply,
      ApplyEntry, SnapshotRead, SnapshotLands, LeavePaused, TakeBuffer, SpliceNext, Reopen,
      RunFails, FetchFails, EntryFails, SnapshotFails, SpliceFails, RecoveryTimer, LiveLands,
      LiveFails, Heartbeat, HeartbeatGrace, historyVars, vars
  <2> QED BY <2>1
<1> QED BY <1>1 DEF NoLoss

(* The inductive invariant of NothingPassedBy. *)
PassInv == NoLoss => LinkInv /\ Lossless

LEMMA PassStep ==
  ASSUME Collapse <= PageLimit, TabInv, OnePage, PassInv, [Next]_vars
  PROVE  PassInv'
<1> SUFFICES ASSUME NoLoss' PROVE LinkInv' /\ Lossless'
  BY DEF PassInv
<1>1. LinkInv /\ Lossless BY HolesStay DEF PassInv
<1>2. CASE UNCHANGED vars
  <2>1. Lossless' BY <1>1, <1>2, QuietSteps
  <2>2. LinkInv' BY <1>1, <1>2 DEF LinkInv, vars, linkVars, gateVars, engineVars
  <2> QED BY <2>1, <2>2
<1>3. CASE Next
  <2>1. LinkInv' BY <1>1, <1>3, LinkStep
  <2>2. failedEntry = 0 BY <1>1 DEF Lossless
  <2>3. /\ ~EmitOutOfOrder /\ ~EmitLost /\ ~FetchFails /\ ~EntryFails
        /\ \A i \in inflight : ~LiveFails(i)
    BY <2>2, LossesAreNoted
  <2>4. Lossless'
    BY <1>1, <1>3, <2>3, QuietSteps, JoinKeepsAll, EmitKeepsAll, FetchKeepsAll, ReplyKeepsAll,
       ApplyKeepsAll, SnapshotKeepsAll, SpliceKeepsAll, EndsKeepAll, LiveKeepsAll
       DEF Next, RunStep, RunFails
  <2> QED BY <2>1, <2>4
<1> QED BY <1>2, <1>3

(***************************************************************************)
(* As long as none of the named losses is met, the cursor passes no entry   *)
(* by (NothingPassedBy), whatever the reconnects, overlapping runs,         *)
(* snapshots that fail or are superseded, buffer overflows, failed splices  *)
(* and prunings. A run that could be cut off after MAX_CATCHUP_PAGES pages  *)
(* would splice past the rest of the log; that it never is takes a first    *)
(* page at the limit to be collapsed, as the code's 200 and 500 make it.    *)
(***************************************************************************)
THEOREM NothingIsPassedBy ==
  ASSUME Collapse <= PageLimit
  PROVE  Spec => []NothingPassedBy
<1>1. Init => OnePage /\ PassInv
  <2> SUFFICES ASSUME Init PROVE OnePage /\ PassInv OBVIOUS
  <2>1. /\ head = 0 /\ unsent = {} /\ joined /\ paused = FALSE /\ buffer = {} /\ inflight = {}
        /\ applied = {} /\ cursor = 0 /\ failedEntry = 0 /\ run = IdleRun
    BY DEF Init, LogInit
  <2>2. OnePage BY <2>1, FreshRuns DEF OnePage
  <2>3. LinkInv BY DEF Init, LinkInv
  <2>4. Sent = {}
    <3>1. \A j \in Visible : ~(j <= 0) BY VisibleAssumption
    <3> QED BY <2>1, <3>1 DEF Sent
  <2>5. SentInv BY <2>1, <2>4, FreshRuns DEF SentInv
  <2>6. LiveInv BY <2>1, <2>4 DEF LiveInv, Closed
  <2>7. ~HasRead /\ ~PageReplayable BY <2>1, FreshRuns DEF HasRead, PageReplayable
  <2>8. RunInv BY <2>1, <2>7, FreshRuns, NothingBelowStart DEF RunInv
  <2> QED BY <2>1, <2>2, <2>3, <2>5, <2>6, <2>8 DEF PassInv, Lossless
<1>2. TabInv /\ OnePage /\ PassInv /\ [Next]_vars => OnePage' /\ PassInv'
  BY OnePageStep, PassStep
<1>3. PassInv => NothingPassedBy
  BY DEF PassInv, NoLoss, Lossless, RunInv, Behind, Handed, NothingPassedBy, CursorOnlyPastHanded
<1> QED BY <1>1, <1>2, <1>3, TabInvHolds, PTL DEF Spec
=============================================================================
