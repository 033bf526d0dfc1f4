------------------------------ MODULE SyncClient ------------------------------
(***************************************************************************)
(* One browser tab keeping up with the sync log of a workspace              *)
(* (apps/frontend/src/sync): the cursor, the gate that buffers live events  *)
(* while the log is replayed, and the engine that decides when to replay.   *)
(* The server side is the abstract log of ReplayLog.tla, the broadcast of   *)
(* each entry in id order, and the heartbeat.                               *)
(*                                                                          *)
(* The tab starts after its first snapshot: the cursor stands at the head,  *)
(* the rooms are joined and the gate is open.  A reconnect or a resume      *)
(* pauses the gate, opens a bootstrap window in which the rooms are joined  *)
(* again, and ends the window with a catch-up run.  Runs are single-flight: *)
(* a run carries the pause cycle it was started in and is stale once a      *)
(* newer cycle began.                                                       *)
(***************************************************************************)
EXTENDS ReplayLog, FiniteSets

CONSTANTS
  Visible,       \* ids of the entries this user may see
  PageLimit,     \* CATCHUP_PAGE_LIMIT
  MaxPages,      \* MAX_CATCHUP_PAGES
  Collapse,      \* CATCHUP_COLLAPSE_THRESHOLD
  BufferLimit,   \* bufferLimit of the gate
  Faults,        \* the kinds of failure that happen in this instance
  SlowRuns,      \* runs may outlast any number of heartbeats
  MaxHead,       \* bound: ids appended
  MaxTroubles    \* bound: failures, disconnects, resumes, heartbeats during a run

FaultKinds == {"fetch", "entry", "live", "lost", "order", "snapshot", "splice"}

ASSUME VisibleAssumption == Visible \subseteq Nat \ {0}
ASSUME ClientLimitsAssumption ==
  /\ PageLimit \in Nat \ {0} /\ MaxPages \in Nat \ {0} /\ Collapse \in Nat \ {0}
  /\ BufferLimit \in Nat
ASSUME FaultsAssumption ==
  Faults \subseteq FaultKinds /\ SlowRuns \in BOOLEAN /\ MaxHead \in Nat /\ MaxTroubles \in Nat

VARIABLES
  unsent,     \* server: entries whose emit is still to come
  online,     \* the socket is connected
  joined,     \* its rooms are joined
  window,     \* the bootstrap window that is open, and what opened it
  cursor,     \* SyncLogCursor.value
  seenHead,   \* lastSeenHead
  paused, buffer,  \* SocketEventGate
  inflight,   \* live events handed to the handlers, which have not landed
  run,        \* activeCatchUp
  queued,     \* queuedCatchUp is set
  recovery,   \* snapshotRecoveryRequired
  timer,      \* snapshotRecoveryTimer is set for the current cycle
  failedEntry,\* failedEntrySyncId, 0 for null
  pendingHead,\* pendingHeartbeatHead, 0 for null
  applied,    \* history: the visible ids that landed, from any source
  holes,      \* history: the known ways of losing an entry that were met
  troubles    \* how many of MaxTroubles there were

serverVars == <<logVars, unsent>>
linkVars == <<online, joined, window>>
gateVars == <<paused, buffer>>
engineVars == <<queued, recovery, timer, failedEntry, seenHead, pendingHead>>
landedVars == <<cursor, applied, inflight>>
historyVars == <<holes, troubles>>
vars == <<serverVars, linkVars, gateVars, engineVars, landedVars, run, historyVars>>

Larger(a, b) == IF a > b THEN a ELSE b
Smallest(S) == CHOOSE s \in S : \A t \in S : s <= t

-----------------------------------------------------------------------------
(* The catch-up run: where it is, whether a newer pause cycle began, the    *)
(* position it replayed through, the entries of its page (or of the splice) *)
(* still to be applied, whether the page was short, the pages it read, the  *)
(* head of the last response and the head its snapshot covers.              *)

NoPosition == -1

IdleRun ==
  [pc |-> "none", stale |-> FALSE, through |-> NoPosition, page |-> {}, short |-> FALSE,
   pages |-> 0, head |-> 0, snapshot |-> 0]

NewRun == [IdleRun EXCEPT !.pc = "load"]

Running == run.pc # "none"

\* runCatchUp, called when the active run is r: start one, share the one of
\* this cycle, or chain one behind the run of an older cycle.
RunCatchUp(r) ==
  /\ run' = IF r.pc = "none" THEN NewRun ELSE r
  /\ queued' = (queued \/ (r.pc # "none" /\ r.stale))

\* beginCatchUpCycle: the run in flight is now of an older cycle, and so is
\* the recovery timer, which does nothing when it fires.
Retired == IF Running THEN [run EXCEPT !.stale = TRUE] ELSE run

BeginCatchUpCycle ==
  /\ paused' = TRUE
  /\ timer' = FALSE

\* onRecoveryRequired, called by the gate.
OnRecoveryRequired ==
  /\ recovery' = TRUE
  /\ paused' = TRUE
  /\ timer' = TRUE

Trouble ==
  /\ troubles < MaxTroubles
  /\ troubles' = troubles + 1

Fault(kind) == kind \in Faults /\ Trouble

Init ==
  /\ LogInit
  /\ unsent = {}
  /\ online = TRUE /\ joined = TRUE /\ window = "none"
  /\ cursor = 0 /\ seenHead = 0
  /\ paused = FALSE /\ buffer = {} /\ inflight = {}
  /\ run = IdleRun /\ queued = FALSE
  /\ recovery = FALSE /\ timer = FALSE /\ failedEntry = 0 /\ pendingHead = 0
  /\ applied = {} /\ holes = {} /\ troubles = 0

-----------------------------------------------------------------------------
(* The server.                                                              *)

Append ==
  /\ head < MaxHead
  /\ AppendEntries(1)
  /\ unsent' = IF head + 1 \in Visible THEN unsent \cup {head + 1} ELSE unsent
  /\ UNCHANGED <<linkVars, gateVars, engineVars, landedVars, run, historyVars>>

Prune ==
  /\ \E victims \in SUBSET retained : PruneEntries(victims)
  /\ UNCHANGED <<unsent, linkVars, gateVars, engineVars, landedVars, run, historyVars>>

\* handleIncoming: the paused gate buffers, or gives up on an overflow; the
\* open gate hands the event to the handlers without waiting for them.
HandleIncoming(i) ==
  \/ /\ paused /\ Cardinality(buffer) < BufferLimit
     /\ buffer' = buffer \cup {i}
     /\ UNCHANGED <<paused, recovery, timer, inflight, run>>
  \/ /\ paused /\ Cardinality(buffer) >= BufferLimit
     /\ buffer' = {}
     /\ OnRecoveryRequired
     /\ run' = Retired
     /\ UNCHANGED inflight
  \/ /\ ~paused
     /\ inflight' = inflight \cup {i}
     /\ UNCHANGED <<gateVars, recovery, timer, run>>

\* emitToGroups: the emit reaches the rooms' members of this moment.
Deliver(i) ==
  /\ unsent' = unsent \ {i}
  /\ IF joined THEN HandleIncoming(i)
     ELSE UNCHANGED <<gateVars, recovery, timer, inflight, run>>
  /\ UNCHANGED <<logVars, linkVars, queued, failedEntry, seenHead, pendingHead, cursor, applied>>

\* The broadcast handler emits a batch in log order.
Emit ==
  /\ unsent # {}
  /\ Deliver(Smallest(unsent))
  /\ UNCHANGED historyVars

\* The sweep of another process emits what it rescued in between.
EmitOutOfOrder ==
  /\ Fault("order")
  /\ \E i \in unsent : i # Smallest(unsent) /\ Deliver(i)
  /\ holes' = holes \cup {"order"}

\* A process stops between the append and the emit.
EmitLost ==
  /\ Fault("lost")
  /\ \E i \in unsent : unsent' = unsent \ {i}
  /\ holes' = holes \cup {"lost"}
  /\ UNCHANGED <<logVars, linkVars, gateVars, engineVars, landedVars, run>>

-----------------------------------------------------------------------------
(* The socket and the bootstrap windows.                                    *)

\* onDisconnect retires the recovery of a connect, not that of a resume,
\* which goes on over HTTP. The server forgets the rooms.
Disconnect ==
  /\ online /\ Trouble
  /\ online' = FALSE /\ joined' = FALSE
  /\ window' = IF window = "connect" THEN "none" ELSE window
  /\ UNCHANGED <<serverVars, gateVars, engineVars, landedVars, run, holes>>

(* Mutant: the gate is left to the catch-up run to pause. *)
ConnectUnpaused ==
  /\ ~online
  /\ online' = TRUE
  /\ window' = "connect"
  /\ run' = Retired
  /\ pendingHead' = 0
  /\ UNCHANGED <<serverVars, joined, gateVars, queued, recovery, timer, failedEntry, seenHead,
                 landedVars, historyVars>>

\* onConnect, up to its first await.
Connect ==
  /\ ~online
  /\ online' = TRUE
  /\ window' = "connect"
  /\ BeginCatchUpCycle
  /\ run' = Retired
  /\ pendingHead' = 0
  /\ UNCHANGED <<serverVars, joined, buffer, queued, recovery, failedEntry, seenHead,
                 landedVars, historyVars>>

\* refreshAfterConnectivityResume, up to its first await.
ConnectivityResume ==
  /\ Trouble
  /\ window' = "resume"
  /\ BeginCatchUpCycle
  /\ run' = Retired
  /\ UNCHANGED <<serverVars, online, joined, buffer, queued, recovery, failedEntry, seenHead,
                 pendingHead, landedVars, holes>>

\* The bootstrap, slim or forced by a heal, joins the rooms before it reads.
JoinRooms ==
  /\ online /\ ~joined
  /\ window # "none" \/ run.pc = "heal"
  /\ joined' = TRUE
  /\ UNCHANGED <<serverVars, online, window, gateVars, engineVars, landedVars, run, historyVars>>

\* The end of onConnect and of refreshAfterConnectivityResume.
WindowCloses ==
  /\ window # "none"
  /\ joined \/ ~online
  /\ window' = "none"
  /\ RunCatchUp(run)
  /\ UNCHANGED <<serverVars, online, joined, gateVars, recovery, timer, failedEntry,
                 seenHead, pendingHead, landedVars, historyVars>>

-----------------------------------------------------------------------------
(* The catch-up run.                                                        *)

\* performActiveCatchUp reads the cursor once.
LoadCursor ==
  /\ run.pc = "load"
  /\ run' = [run EXCEPT !.pc = "fetch", !.through = cursor]
  /\ UNCHANGED <<serverVars, linkVars, gateVars, engineVars, landedVars, historyVars>>

Pending(after) == {s \in retained \cap Visible : s > after}

FirstOf(S, n) == {s \in S : Cardinality({t \in S : t < s}) < n}

\* SyncService.catchUp, first statement: the entries.
FetchEntries ==
  /\ run.pc = "fetch"
  /\ run' = [run EXCEPT !.pc = "reply", !.page = FirstOf(Pending(run.through), PageLimit)]
  /\ UNCHANGED <<serverVars, linkVars, gateVars, engineVars, landedVars, historyVars>>

\* healGapWithSnapshot begins by asking for recovery, whatever its cycle.
BeginHeal(h) ==
  /\ run' = [run EXCEPT !.pc = "heal", !.head = h, !.page = {}]
  /\ recovery' = TRUE

RecoveryDue == recovery /\ ~run.stale

(* Mutant: the response is replayed although a snapshot is required. *)
MustHealBelowFloor == run.through < floor

\* Recovery was asked for in this cycle, or retention passed the cursor by.
MustHeal == RecoveryDue \/ run.through < floor

\* A large first page: one snapshot is cheaper than the replay.
CollapsesGap == run.pages = 0 /\ Cardinality(run.page) >= Collapse

(* Mutant: the head counts as seen after any response. *)
NoteAnyHead == Larger(seenHead, head)

\* noteSeenHead: only after an empty page.
NoteSeenHead == IF run.page = {} THEN Larger(seenHead, head) ELSE seenHead

\* SyncService.catchUp, second statement (head and floor), and what the run
\* does with the response.
Reply ==
  /\ run.pc = "reply"
  /\ \/ /\ MustHeal \/ CollapsesGap
        /\ BeginHeal(head)
        /\ UNCHANGED <<seenHead, holes>>
     \/ /\ ~MustHeal /\ run.page = {}
        /\ seenHead' = NoteSeenHead
        /\ holes' = IF Pending(run.through) = {} THEN holes ELSE holes \cup {"blind"}
        /\ run' = [run EXCEPT !.pc = "finish"]
        /\ UNCHANGED recovery
     \/ /\ ~MustHeal /\ ~CollapsesGap /\ run.page # {}
        /\ seenHead' = NoteSeenHead
        /\ run' = [run EXCEPT !.pc = "apply", !.head = head, !.pages = @ + 1,
                              !.short = Cardinality(run.page) < PageLimit]
        /\ UNCHANGED <<recovery, holes>>
  /\ UNCHANGED <<serverVars, linkVars, gateVars, queued, timer, failedEntry, pendingHead,
                 landedVars, troubles>>

\* The request fails: the run is abandoned, its finally still runs.
FetchFails ==
  /\ run.pc \in {"fetch", "reply"}
  /\ Fault("fetch")
  /\ holes' = holes \cup {"fetch"}
  /\ run' = [run EXCEPT !.pc = "finish", !.page = {}]
  /\ UNCHANGED <<serverVars, linkVars, gateVars, engineVars, landedVars>>

AfterPage(r) ==
  IF r.page # {} THEN r
  ELSE [r EXCEPT !.pc = IF r.short \/ r.pages = MaxPages THEN "finish" ELSE "fetch"]

Land(i) ==
  /\ applied' = applied \cup {i}
  /\ cursor' = Larger(cursor, i)
  /\ UNCHANGED inflight

ApplyEntry ==
  /\ run.pc = "apply"
  /\ LET i == Smallest(run.page) IN
       /\ Land(i)
       /\ failedEntry' = 0
       /\ run' = AfterPage([run EXCEPT !.page = @ \ {i}, !.through = i])
  /\ UNCHANGED <<serverVars, linkVars, gateVars, queued, recovery, timer, seenHead, pendingHead,
                 historyVars>>

\* A first failure abandons the run at the entry, a second one in a row heals
\* past it.
EntryFails ==
  /\ run.pc = "apply"
  /\ Fault("entry")
  /\ LET i == Smallest(run.page) IN
       \/ /\ failedEntry # i
          /\ failedEntry' = i
          /\ holes' = holes \cup {"entry"}
          /\ run' = [run EXCEPT !.pc = "finish", !.page = {}]
          /\ UNCHANGED recovery
       \/ /\ failedEntry = i
          /\ BeginHeal(run.head)
          /\ UNCHANGED <<failedEntry, holes>>
  /\ UNCHANGED <<serverVars, linkVars, gateVars, queued, timer, seenHead, pendingHead, landedVars>>

\* The forced bootstrap: rooms first, then the snapshot.
SnapshotRead ==
  /\ run.pc = "heal"
  /\ joined \/ ~online
  /\ run' = [run EXCEPT !.pc = "land", !.snapshot = head]
  /\ UNCHANGED <<serverVars, linkVars, gateVars, engineVars, landedVars, historyVars>>

\* The snapshot is written in any case; only a run of the current cycle moves
\* the cursor to the head that was read before it.
SnapshotLands ==
  /\ run.pc = "land"
  /\ applied' = applied \cup {s \in Visible : s <= run.snapshot}
  /\ \/ /\ run.stale
        /\ run' = [run EXCEPT !.pc = "finish", !.through = NoPosition]
        /\ UNCHANGED <<cursor, seenHead, recovery>>
     \/ /\ ~run.stale
        /\ cursor' = Larger(cursor, run.head)
        /\ seenHead' = Larger(seenHead, run.head)
        /\ recovery' = FALSE
        /\ run' = [run EXCEPT !.pc = "finish", !.through = run.head]
  /\ UNCHANGED <<serverVars, linkVars, gateVars, queued, timer, failedEntry, pendingHead, inflight,
                 historyVars>>

SnapshotFails ==
  /\ run.pc \in {"heal", "land"}
  /\ Fault("snapshot")
  /\ run' = [run EXCEPT !.pc = "finish"]
  /\ UNCHANGED <<serverVars, linkVars, gateVars, engineVars, landedVars, holes>>

-----------------------------------------------------------------------------
(* The end of the run: SocketEventGate.resume and the settling of the run.  *)

MayResume == ~recovery /\ ~run.stale

(* Mutant: a run that leaves the gate paused arms no timer. *)
LeavePausedForGood ==
  /\ run.pc = "finish" /\ ~MayResume
  /\ buffer' = buffer \cup run.page
  /\ run' = IF queued THEN NewRun ELSE IdleRun
  /\ queued' = FALSE
  /\ UNCHANGED <<serverVars, linkVars, paused, timer, recovery, failedEntry, seenHead, pendingHead,
                 landedVars, historyVars>>

\* The finally of a run that must not reopen the gate, and a splice that a
\* newer pause interrupted: what it had taken goes back to the buffer. Then the
\* run settles: it arms the recovery timer, or gives way to the run chained
\* behind it, which belongs to the cycle of this moment.
LeavePaused ==
  /\ run.pc = "finish" /\ ~MayResume
  /\ buffer' = buffer \cup run.page
  /\ timer' = (timer \/ RecoveryDue)
  /\ run' = IF queued THEN NewRun ELSE IdleRun
  /\ queued' = FALSE
  /\ holes' = IF queued /\ window # "none" /\ ~joined THEN holes \cup {"early"} ELSE holes
  /\ UNCHANGED <<serverVars, linkVars, paused, recovery, failedEntry, seenHead, pendingHead,
                 landedVars, troubles>>

Splices(i) == run.through = NoPosition \/ i > run.through

TakeBuffer ==
  /\ run.pc = "finish" /\ MayResume /\ run.page = {} /\ buffer # {}
  /\ run' = [run EXCEPT !.page = buffer]
  /\ buffer' = {}
  /\ UNCHANGED <<serverVars, linkVars, paused, engineVars, landedVars, historyVars>>

SpliceNext ==
  /\ run.pc = "finish" /\ MayResume /\ run.page # {}
  /\ LET i == Smallest(run.page) IN
       /\ IF Splices(i) THEN Land(i) ELSE UNCHANGED landedVars
       /\ run' = [run EXCEPT !.page = @ \ {i}]
  /\ UNCHANGED <<serverVars, linkVars, gateVars, engineVars, historyVars>>

\* retainForRecovery: the suffix is kept, the gate asks for a snapshot.
SpliceFails ==
  /\ run.pc = "finish" /\ MayResume /\ run.page # {}
  /\ Splices(Smallest(run.page))
  /\ Fault("splice")
  /\ buffer' = FirstOf(run.page \cup buffer, BufferLimit)
  /\ OnRecoveryRequired
  /\ run' = IdleRun
  /\ UNCHANGED <<serverVars, linkVars, queued, failedEntry, seenHead, pendingHead, landedVars, holes>>

Reopen ==
  /\ run.pc = "finish" /\ MayResume /\ run.page = {} /\ buffer = {}
  /\ paused' = FALSE
  /\ run' = IdleRun
  /\ UNCHANGED <<serverVars, linkVars, buffer, engineVars, landedVars, historyVars>>

\* The timer of scheduleSnapshotRecovery, armed in the current cycle.
RecoveryTimer ==
  /\ timer
  /\ timer' = FALSE
  /\ IF recovery THEN RunCatchUp(run) ELSE UNCHANGED <<run, queued>>
  /\ UNCHANGED <<serverVars, linkVars, gateVars, recovery, failedEntry, seenHead, pendingHead,
                 landedVars, historyVars>>

-----------------------------------------------------------------------------
(* Live events and the heartbeat.                                           *)

LiveLands(i) ==
  /\ i \in inflight
  /\ inflight' = inflight \ {i}
  /\ applied' = applied \cup {i}
  /\ cursor' = Larger(cursor, i)
  /\ UNCHANGED <<serverVars, linkVars, gateVars, engineVars, run, historyVars>>

\* The rejection is logged and the event is not applied.
LiveFails(i) ==
  /\ i \in inflight
  /\ Fault("live")
  /\ holes' = holes \cup {"live"}
  /\ inflight' = inflight \ {i}
  /\ UNCHANGED <<serverVars, linkVars, gateVars, engineVars, cursor, applied, run>>

HeartbeatPosition == Larger(cursor, seenHead)

\* tickOnce on the server, handleHeartbeat in the tab: a head above the
\* position starts the grace period or raises the head it waits for.
Heartbeat ==
  /\ joined
  /\ head > HeartbeatPosition /\ head > pendingHead
  /\ pendingHead' = head
  /\ UNCHANGED <<serverVars, linkVars, gateVars, queued, recovery, timer, failedEntry, seenHead,
                 landedVars, run, historyVars>>

\* The grace period ends: a position still below the head means a lost emit.
HeartbeatGrace ==
  /\ pendingHead # 0
  /\ pendingHead' = 0
  /\ \/ /\ pendingHead <= HeartbeatPosition
        /\ UNCHANGED <<paused, timer, run, queued, troubles>>
     \/ /\ pendingHead > HeartbeatPosition
        /\ BeginCatchUpCycle
        /\ RunCatchUp(Retired)
        /\ IF Running /\ ~SlowRuns THEN Trouble ELSE UNCHANGED troubles
  /\ UNCHANGED <<serverVars, linkVars, buffer, recovery, failedEntry, seenHead, landedVars, holes>>

-----------------------------------------------------------------------------
RunStep ==
  \/ LoadCursor \/ FetchEntries \/ Reply \/ ApplyEntry
  \/ SnapshotRead \/ SnapshotLands
  \/ LeavePaused \/ TakeBuffer \/ SpliceNext \/ Reopen

RunFails == FetchFails \/ EntryFails \/ SnapshotFails \/ SpliceFails

Next ==
  \/ Append \/ Prune \/ Emit \/ EmitOutOfOrder \/ EmitLost
  \/ Disconnect \/ Connect \/ ConnectivityResume \/ JoinRooms \/ WindowCloses
  \/ RunStep \/ RunFails \/ RecoveryTimer
  \/ \E i \in inflight : LiveLands(i) \/ LiveFails(i)
  \/ Heartbeat \/ HeartbeatGrace

Spec == Init /\ [][Next]_vars

(***************************************************************************)
(* The broadcast handler and the heartbeat worker keep running, socket.io   *)
(* reconnects, promises settle and timers fire.                             *)
(***************************************************************************)
Fairness ==
  /\ WF_vars(Emit)
  /\ WF_vars(Heartbeat \/ HeartbeatGrace)
  /\ WF_vars(Connect \/ JoinRooms \/ WindowCloses)
  /\ WF_vars(RunStep)
  /\ WF_vars(RecoveryTimer)
  /\ WF_vars(\E i \in inflight : LiveLands(i))

FairSpec == Spec /\ Fairness

-----------------------------------------------------------------------------
(***************************************************************************)
(* The variables keep their shape: in particular the cursor is always a     *)
(* position, whatever a superseded snapshot left behind.                    *)
(***************************************************************************)
TypeOK ==
  /\ LogTypeOK
  /\ unsent \subseteq Visible /\ buffer \subseteq Visible /\ inflight \subseteq Visible
  /\ applied \subseteq Visible
  /\ online \in BOOLEAN /\ joined \in BOOLEAN /\ window \in {"none", "connect", "resume"}
  /\ cursor \in Nat /\ seenHead \in Nat /\ failedEntry \in Nat /\ pendingHead \in Nat
  /\ paused \in BOOLEAN /\ queued \in BOOLEAN /\ recovery \in BOOLEAN /\ timer \in BOOLEAN
  /\ run \in [pc : {"none", "load", "fetch", "reply", "apply", "heal", "land", "finish"},
              stale : BOOLEAN, through : Nat \cup {NoPosition}, page : SUBSET Visible,
              short : BOOLEAN, pages : Nat, head : Nat, snapshot : Nat]
  /\ holes \subseteq {"fetch", "entry", "live", "lost", "order", "early", "blind"}
  /\ troubles \in Nat

(***************************************************************************)
(* "the cursor only ever moves past entries that were actually handed to    *)
(* handlers" (socket-event-gate.ts): every visible entry at or below the    *)
(* cursor has landed or is with the handlers.                               *)
(***************************************************************************)
CursorOnlyPastHanded == \A i \in Visible : i <= cursor => i \in applied \cup inflight

(***************************************************************************)
(* As long as no request, handler or emit fails and no chained run starts   *)
(* before the rooms are joined, reconnects, overlapping runs, snapshots     *)
(* that fail or are superseded, buffer overflow, failed splices and         *)
(* retention never let the cursor pass an entry by.                         *)
(***************************************************************************)
NothingPassedBy == holes \subseteq {"blind"} => CursorOnlyPastHanded

(***************************************************************************)
(* A paused gate is never abandoned: a run, the recovery timer, an open     *)
(* bootstrap window or the coming reconnect will deal with it ("the buffer  *)
(* must never strand", sync-engine.ts).                                     *)
(***************************************************************************)
GateOwned == paused => Running \/ timer \/ window # "none" \/ ~online

(***************************************************************************)
(* Every entry is eventually behind the cursor, with lost emits and failed  *)
(* requests too: the heartbeat starts another run. The exception is an      *)
(* entry appended between the two reads of an empty page, whose id the      *)
(* head of that response covers.                                            *)
(***************************************************************************)
EventuallyReached ==
  \A i \in Visible : (i <= head) ~> (i <= cursor \/ "blind" \in holes)

(***************************************************************************)
(* A paused gate eventually reopens, if runs do not outlast the heartbeats  *)
(* for ever.                                                                *)
(***************************************************************************)
GateReopens == paused ~> ~paused
=============================================================================
