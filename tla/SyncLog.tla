------------------------------- MODULE SyncLog -------------------------------
(***************************************************************************)
(* The sync log of one workspace (apps/backend/src/features/sync and the    *)
(* sequencing half of the broadcast handler): the durable, ordered record   *)
(* of outbox events that clients replay.                                    *)
(*                                                                          *)
(* Sequencers are runs of BroadcastHandler.processEvents: one at a time     *)
(* while the cursor lock is held, several when it was taken over.  Sweepers *)
(* are the reconciliation workers of the server processes.  Both append     *)
(* with appendForWorkspace, a transaction that locks the allocator row      *)
(* first.  The retention worker prunes, and readers are catch-up requests,  *)
(* which read the entries and then the floor in two statements.             *)
(*                                                                          *)
(* An outbox row's created_at is the start of the transaction that writes   *)
(* it, so rows appear with a date in the past.  That the cursor may pass a  *)
(* row by (a gap skipped, a batch dead-lettered) or see it again is the     *)
(* matter of OutboxCursor; here a sequencer takes any visible rows.         *)
(***************************************************************************)
EXTENDS Integers, FiniteSets

CONSTANTS
  Events,      \* ids of the outbox rows, without the types excluded from the log
  Routed,      \* those with a workspace and delivery groups: what the log is for
  Visible,     \* those the readers may see
  Sequencers, Sweepers, Readers,
  NoProc,      \* nobody holds the allocator row
  BatchSize,   \* batchSize of the sweep (and of the sequencer)
  MaxBatches,  \* maxBatchesPerRun of the sweep
  Delay,       \* delayMs
  Retention,   \* retentionMs
  MinKeep,     \* minKeep
  PruneLimit,  \* batchSize of the retention worker
  PageLimit,   \* limit of a catch-up request
  MaxBirth,    \* bound: the last instant at which an outbox row is written
  MaxClock,    \* bound: the last instant of the clock
  MaxFails     \* bound: transactions and sweeps that fail

ASSUME EventsAssumption ==
  /\ IsFiniteSet(Events) /\ Events \subseteq Nat
  /\ Routed \subseteq Events /\ Visible \subseteq Routed
ASSUME ProcsAssumption == Sequencers \cap Sweepers = {} /\ NoProc \notin Sequencers \cup Sweepers
ASSUME LimitsAssumption ==
  /\ BatchSize \in Nat \ {0} /\ MaxBatches \in Nat \ {0} /\ PruneLimit \in Nat \ {0}
  /\ PageLimit \in Nat \ {0} /\ MinKeep \in Nat \ {0} /\ MaxFails \in Nat
ASSUME TimesAssumption ==
  Delay \in Nat /\ Retention \in Nat /\ MaxBirth \in Nat /\ MaxClock \in Nat

Procs == Sequencers \cup Sweepers

VARIABLES
  clock,
  row,          \* outbox: where the transaction that writes each row stands
  bornAt,       \* outbox: created_at
  log,          \* sync_log
  issued,       \* history: every entry that was ever in sync_log
  nextSeq,      \* workspace_sync_sequences.next_sequence
  retainedFrom, \* sync_log_retention_state.retained_from
  sweptUntil,   \* sync_log_sweep_state.swept_until
  lock,         \* who holds the allocator row
  proc,         \* the local state of each sequencer and sweeper
  request,      \* the local state of each catch-up request
  fails         \* failures so far

vars == <<clock, row, bornAt, log, issued, nextSeq, retainedFrom, sweptUntil, lock,
          proc, request, fails>>
outboxVars == <<row, bornAt>>
tableVars == <<log, issued, nextSeq, retainedFrom>>

Entries == [sync : Nat, event : Events, at : Nat]
Head == nextSeq - 1
SyncIds(entries) == {r.sync : r \in entries}
EventsOf(entries) == {r.event : r \in entries}
Larger(a, b) == IF a > b THEN a ELSE b

\* The first n of a set of ids: ORDER BY id LIMIT n.
FirstOf(S, n) == {s \in S : Cardinality({t \in S : t < s}) < n}

Idle == [pc |-> "idle", since |-> 0, cutoff |-> 0, stragglers |-> {}, batches |-> 0,
         batch |-> {}, at |-> 0, start |-> 0, existing |-> {}]
NoRequest == [pc |-> "idle", after |-> 0, page |-> {}, seen |-> 0]

Init ==
  /\ clock = 0
  /\ row = [e \in Events |-> "none"]
  /\ bornAt = [e \in Events |-> 0]
  /\ log = {} /\ issued = {} /\ nextSeq = 1 /\ retainedFrom = 0
  /\ sweptUntil = 0
  /\ lock = NoProc
  /\ proc = [p \in Procs |-> Idle]
  /\ request = [r \in Readers |-> NoRequest]
  /\ fails = 0

-----------------------------------------------------------------------------
(* The outbox and the database clock *)

Tick ==
  /\ clock < MaxClock
  /\ clock' = clock + 1
  /\ UNCHANGED <<outboxVars, tableVars, sweptUntil, lock, proc, request, fails>>

\* A domain transaction that writes an outbox row starts; NOW() is its start.
BeginWrite(e) ==
  /\ row[e] = "none" /\ clock <= MaxBirth
  /\ row' = [row EXCEPT ![e] = "open"]
  /\ bornAt' = [bornAt EXCEPT ![e] = clock]
  /\ UNCHANGED <<clock, tableVars, sweptUntil, lock, proc, request, fails>>

EndWrite(e) ==
  /\ row[e] = "open"
  /\ \E outcome \in {"visible", "aborted"} : row' = [row EXCEPT ![e] = outcome]
  /\ UNCHANGED <<clock, bornAt, tableVars, sweptUntil, lock, proc, request, fails>>

VisibleRows == {e \in Events : row[e] = "visible"}

\* xact_start of the transactions that run: writers, and appenders.
RunningSince ==
  {bornAt[e] : e \in {d \in Events : row[d] = "open"}} \cup
  {proc[p].at : p \in {q \in Procs : proc[q].pc \in {"begun", "locked", "checked"}}}

-----------------------------------------------------------------------------
(* appendForWorkspace *)

Go(p, new) == proc' = [proc EXCEPT ![p] = new]

AppendBegin(p) ==
  /\ proc[p].pc = "batch"
  /\ Go(p, [proc[p] EXCEPT !.pc = "begun", !.at = clock])
  /\ UNCHANGED <<clock, outboxVars, tableVars, sweptUntil, lock, request, fails>>

\* The no-op upsert waits for the allocator row and returns its newest value.
AppendLock(p) ==
  /\ proc[p].pc = "begun" /\ lock = NoProc
  /\ lock' = p
  /\ Go(p, [proc[p] EXCEPT !.pc = "locked", !.start = nextSeq])
  /\ UNCHANGED <<clock, outboxVars, tableVars, sweptUntil, request, fails>>

\* The statement after the lock has a fresh snapshot (read committed).
AppendCheck(p) ==
  /\ proc[p].pc = "locked"
  /\ Go(p, [proc[p] EXCEPT !.pc = "checked", !.existing = proc[p].batch \cap EventsOf(log)])
  /\ UNCHANGED <<clock, outboxVars, tableVars, sweptUntil, lock, request, fails>>

(* Mutant: the batch is inserted without a look at what is there. *)
WholeBatch(p) == proc[p].batch

Missing(p) == proc[p].batch \ proc[p].existing

\* Consecutive ids from start, in the order of the outbox ids.
DenseIds(S, start) ==
  {ids \in [S -> start..(start + Cardinality(S) - 1)] :
     /\ \A d, e \in S : d < e => ids[d] < ids[e]
     /\ \A i \in start..(start + Cardinality(S) - 1) : \E e \in S : ids[e] = i}

\* What is left when the append has returned: a sweeper has its batch to finish.
AfterAppend(p) ==
  IF p \in Sweepers
  THEN [Idle EXCEPT !.pc = "next", !.since = proc[p].since, !.cutoff = proc[p].cutoff,
                    !.stragglers = proc[p].stragglers, !.batches = proc[p].batches]
  ELSE Idle

(* Mutant: next_sequence moves by the whole batch, present entries included. *)
AppendCommitAll(p) ==
  /\ proc[p].pc = "checked"
  /\ \E ids \in DenseIds(Missing(p), proc[p].start) :
       LET rows == {[sync |-> ids[e], event |-> e, at |-> proc[p].at] : e \in Missing(p)}
       IN log' = log \cup rows /\ issued' = issued \cup rows
  /\ nextSeq' = proc[p].start + Cardinality(proc[p].batch)
  /\ lock' = NoProc
  /\ Go(p, AfterAppend(p))
  /\ UNCHANGED <<clock, outboxVars, retainedFrom, sweptUntil, request, fails>>

AppendCommit(p) ==
  /\ proc[p].pc = "checked"
  /\ \E ids \in DenseIds(Missing(p), proc[p].start) :
       LET rows == {[sync |-> ids[e], event |-> e, at |-> proc[p].at] : e \in Missing(p)}
       IN log' = log \cup rows /\ issued' = issued \cup rows
  /\ nextSeq' = IF Missing(p) = {} THEN nextSeq
                ELSE proc[p].start + Cardinality(Missing(p))
  /\ lock' = NoProc
  /\ Go(p, AfterAppend(p))
  /\ UNCHANGED <<clock, outboxVars, retainedFrom, sweptUntil, request, fails>>

\* A statement fails, or the process dies: the transaction is rolled back.
\* The sequencer's cursor retries the batch, the sweep starts over.
Fail(p) ==
  /\ proc[p].pc # "idle" /\ fails < MaxFails
  /\ fails' = fails + 1
  /\ lock' = IF lock = p THEN NoProc ELSE lock
  /\ Go(p, Idle)
  /\ UNCHANGED <<clock, outboxVars, tableVars, sweptUntil, request>>

-----------------------------------------------------------------------------
(* BroadcastHandler.sequenceEvents: the client-routed part of a batch *)

SequenceEvents(p) ==
  /\ proc[p].pc = "idle"
  /\ \E events \in SUBSET VisibleRows :
       /\ Cardinality(events) <= BatchSize /\ events \cap Routed # {}
       /\ Go(p, [Idle EXCEPT !.pc = "batch", !.batch = events \cap Routed])
  /\ UNCHANGED <<clock, outboxVars, tableVars, sweptUntil, lock, request, fails>>

-----------------------------------------------------------------------------
(* SyncLogReconciliationWorker.sweepOnce *)

SweepStart(p) ==
  /\ proc[p].pc = "idle"
  /\ Go(p, [Idle EXCEPT !.pc = "window", !.since = sweptUntil])
  /\ UNCHANGED <<clock, outboxVars, tableVars, sweptUntil, lock, request, fails>>

(* Mutant: running transactions are not looked at. *)
DelayedCutoff == clock - Delay

\* Delay behind the clock, and not past the start of a running transaction.
FrozenCutoff ==
  LET bounds == RunningSince \cup {clock - Delay}
  IN CHOOSE t \in bounds : \A u \in bounds : t <= u

SweepWindow(p) ==
  /\ proc[p].pc = "window"
  /\ Go(p, IF FrozenCutoff <= proc[p].since THEN Idle
           ELSE [proc[p] EXCEPT !.pc = "list", !.cutoff = FrozenCutoff])
  /\ UNCHANGED <<clock, outboxVars, tableVars, sweptUntil, lock, request, fails>>

(* Mutant: rows that are in the log are listed again. *)
OutboxEvents(from, to) == {e \in VisibleRows : from <= bornAt[e] /\ bornAt[e] < to}

UnsequencedOutboxEvents(from, to) ==
  {e \in VisibleRows : from <= bornAt[e] /\ bornAt[e] < to /\ e \notin EventsOf(log)}

\* Lists one batch, and drops from it what lives outside the log's contract.
SweepList(p) ==
  /\ proc[p].pc = "list"
  /\ LET found == FirstOf(UnsequencedOutboxEvents(proc[p].since, proc[p].cutoff), BatchSize)
     IN Go(p, [proc[p] EXCEPT !.pc = IF found \cap Routed = {} THEN "next" ELSE "batch",
                              !.stragglers = found, !.batch = found \cap Routed])
  /\ UNCHANGED <<clock, outboxVars, tableVars, sweptUntil, lock, request, fails>>

\* A short batch exhausts the window.
Exhausted(p) == Cardinality(proc[p].stragglers) < BatchSize

SweepNext(p) ==
  /\ proc[p].pc = "next"
  /\ IF Exhausted(p)
     THEN /\ sweptUntil' = Larger(sweptUntil, proc[p].cutoff)
          /\ Go(p, Idle)
     ELSE /\ UNCHANGED sweptUntil
          /\ Go(p, IF proc[p].batches + 1 < MaxBatches
                   THEN [proc[p] EXCEPT !.pc = "list", !.batches = @ + 1, !.stragglers = {}]
                   ELSE Idle)
  /\ UNCHANGED <<clock, outboxVars, tableVars, lock, request, fails>>

-----------------------------------------------------------------------------
(* SyncLogRetentionWorker.pruneOnce: each batch is one statement, its cutoff *)
(* was computed when the run began                                           *)

Expired(cutoff) == {r \in log : r.at < cutoff /\ r.sync <= Head - MinKeep}

\* LIMIT without an order: any PruneLimit of them.
PruneBatches(cutoff) ==
  {victims \in SUBSET Expired(cutoff) :
     \/ victims = Expired(cutoff) /\ Cardinality(victims) <= PruneLimit
     \/ Cardinality(victims) = PruneLimit}

(* Mutant: the entries go, the floor is left for a statement of its own. *)
PruneOnly ==
  /\ \E cutoff \in 0..(clock - Retention) : \E victims \in PruneBatches(cutoff) :
       victims # {} /\ log' = log \ victims
  /\ UNCHANGED <<clock, outboxVars, issued, nextSeq, retainedFrom, sweptUntil, lock, proc, request, fails>>

Prune ==
  /\ \E cutoff \in 0..(clock - Retention) : \E victims \in PruneBatches(cutoff) :
       /\ victims # {}
       /\ log' = log \ victims
       /\ \E top \in SyncIds(victims) :
            /\ \A s \in SyncIds(victims) : s <= top
            /\ retainedFrom' = Larger(retainedFrom, top)
  /\ UNCHANGED <<clock, outboxVars, issued, nextSeq, sweptUntil, lock, proc, request, fails>>

-----------------------------------------------------------------------------
(* SyncService.catchUp *)

VisibleIds(entries) == SyncIds({r \in entries : r.event \in Visible})

ReadEntries(r) ==
  /\ request[r].pc = "idle"
  /\ \E after \in 0..Head :
       request' = [request EXCEPT ![r] =
         [pc |-> "page", after |-> after, seen |-> Head,
          page |-> FirstOf({s \in VisibleIds(log) : s > after}, PageLimit)]]
  /\ UNCHANGED <<clock, outboxVars, tableVars, sweptUntil, lock, proc, fails>>

(* Mutant: the floor is taken for the first id that is left. *)
BelowFirstLeft(after) == after + 1 < retainedFrom

RequiresBootstrap(after) == after < retainedFrom

\* The floor is read after the entries, and decides whether they are served.
Respond(r) ==
  /\ request[r].pc = "page"
  /\ request' = [request EXCEPT ![r] =
       IF RequiresBootstrap(request[r].after)
       THEN [NoRequest EXCEPT !.pc = "bootstrap"] ELSE NoRequest]
  /\ UNCHANGED <<clock, outboxVars, tableVars, sweptUntil, lock, proc, fails>>

\* The client's snapshot, which is outside the log.
Bootstrapped(r) ==
  /\ request[r].pc = "bootstrap"
  /\ request' = [request EXCEPT ![r] = NoRequest]
  /\ UNCHANGED <<clock, outboxVars, tableVars, sweptUntil, lock, proc, fails>>

-----------------------------------------------------------------------------
AppendNext(p) == AppendBegin(p) \/ AppendLock(p) \/ AppendCheck(p) \/ AppendCommit(p)
SweepStep(p) == SweepStart(p) \/ SweepWindow(p) \/ SweepList(p) \/ SweepNext(p)

Next ==
  \/ Tick \/ Prune
  \/ \E e \in Events : BeginWrite(e) \/ EndWrite(e)
  \/ \E p \in Procs : AppendNext(p) \/ Fail(p)
  \/ \E p \in Sequencers : SequenceEvents(p)
  \/ \E p \in Sweepers : SweepStep(p)
  \/ \E r \in Readers : ReadEntries(r) \/ Respond(r) \/ Bootstrapped(r)

Spec == Init /\ [][Next]_vars

\* Transactions end, the sweep's ticker fires and its statements return; a
\* writer that waits for the allocator row gets it in turn (the row's queue).
\* Nothing is assumed of the sequencers but that what they began they finish.
Fairness ==
  /\ WF_vars(Tick)
  /\ \A e \in Events : WF_vars(EndWrite(e))
  /\ \A p \in Procs : WF_vars(AppendNext(p)) /\ SF_vars(AppendLock(p))
  /\ \A p \in Sweepers : WF_vars(SweepStep(p))

FairSpec == Spec /\ Fairness
-----------------------------------------------------------------------------
(***************************************************************************)
(* The log is well-formed, and the allocator row belongs to exactly the     *)
(* transaction that is between its lock and its commit.                     *)
(***************************************************************************)
TypeOK ==
  /\ clock \in Nat /\ sweptUntil \in Nat /\ retainedFrom \in Nat /\ fails \in Nat
  /\ row \in [Events -> {"none", "open", "visible", "aborted"}]
  /\ bornAt \in [Events -> Nat]
  /\ issued \subseteq Entries /\ log \subseteq issued
  /\ nextSeq \in Nat \ {0}
  /\ lock \in Procs \cup {NoProc}
  /\ proc \in [Procs -> [pc : {"idle", "window", "list", "batch", "begun", "locked", "checked", "next"},
                        since : Nat, cutoff : Int, stragglers : SUBSET Events, batches : Nat,
                        batch : SUBSET Routed, at : Nat, start : Nat, existing : SUBSET Events]]
  /\ request \in [Readers -> [pc : {"idle", "page", "bootstrap"},
                             after : Nat, page : SUBSET Nat, seen : Nat]]
  /\ \A p \in Procs : proc[p].pc \in {"locked", "checked"} <=> lock = p

(***************************************************************************)
(* appendForWorkspace, with several writers: what a transaction is about to *)
(* insert is not in the log and its ids are the next ones, so neither the   *)
(* primary key nor the unique index on outbox_event_id can be violated      *)
(* ("any unique-index violation here means a writer broke the lock-first    *)
(* protocol"), and each event has one entry.                                *)
(***************************************************************************)
AppendsNeverCollide ==
  /\ \A p \in Procs : proc[p].pc = "checked" =>
       /\ proc[p].start = nextSeq
       /\ Missing(p) \cap EventsOf(log) = {}
  /\ \A r, s \in log : r.event = s.event => r = s

(***************************************************************************)
(* Sync ids are dense: every id below next_sequence was given to an entry,  *)
(* to one entry, and none above it; the newest MinKeep are in the table, so *)
(* MAX(sync_id), which catch-up and heartbeat report, is next_sequence - 1, *)
(* which the pruner uses.                                                   *)
(***************************************************************************)
IdsDense ==
  /\ SyncIds(issued) = 1..Head
  /\ \A r, s \in issued : r.sync = s.sync => r = s
  /\ (Larger(Head - MinKeep, 0) + 1)..Head \subseteq SyncIds(log)

(***************************************************************************)
(* SyncService.catchUp against a concurrent prune and concurrent appends: a *)
(* page that is served misses none of the reader's entries between its      *)
(* cursor and its last entry, and a page that is not full none that existed *)
(* when it was read, also those that retention has removed since the client *)
(* last asked.                                                              *)
(***************************************************************************)
Covers(q) ==
  \A s \in VisibleIds(issued) :
    (/\ s > q.after /\ s <= q.seen
     /\ \/ Cardinality(q.page) < PageLimit
        \/ \E last \in q.page : s <= last)
    => s \in q.page

Served(r) == request[r].pc = "page" /\ request'[r] = NoRequest

CatchUpHidesNothing == [][\A r \in Readers : Served(r) => Covers(request[r])]_vars

(***************************************************************************)
(* The reconciliation worker's invariant, "no client-routed outbox row older *)
(* than the sweep window lacks a log entry": the sweep never moves on past  *)
(* the date of a row that it missed, not even of one that was not visible   *)
(* when it passed.                                                          *)
(***************************************************************************)
SweptRowsLogged ==
  \A e \in Routed : row[e] = "visible" /\ bornAt[e] < sweptUntil => e \in EventsOf(issued)

(***************************************************************************)
(* "This sweep is the completeness guarantee": whatever the sequencers miss *)
(* is logged in the end.                                                    *)
(***************************************************************************)
EventuallyLogged == \A e \in Routed : row[e] = "visible" ~> e \in EventsOf(issued)

\* What clients rely on: the log as ids, without events, clocks and writers.
Replay == INSTANCE ReplayLog WITH
  head <- Head, floor <- retainedFrom, retained <- SyncIds(log), MaxAppend <- BatchSize

(***************************************************************************)
(* Every step of the tables is an append of consecutive ids or a prune that *)
(* moves the floor along, or leaves the log as clients see it unchanged.    *)
(***************************************************************************)
ImplementsReplayLog == Replay!LogSpec
=============================================================================
