--------------------------- MODULE ScheduledMessages ---------------------------
(***************************************************************************)
(* One scheduled message (apps/backend/src/features/scheduled-messages),    *)
(* the edit dialogs open on it (apps/frontend/src/components/scheduled) and *)
(* the queue jobs that fire it.                                             *)
(*                                                                          *)
(* Every operation of the service is one transaction that reads the row     *)
(* without locking it, checks what it read, and then changes the row with   *)
(* an UPDATE that repeats the check.  It is two actions here: the read, and *)
(* the UPDATE with all that follows it up to the commit, which the row lock *)
(* serialises.  NOW() is the time of the first.                             *)
(***************************************************************************)
EXTENDS Integers

CONSTANTS
  Editors,       \* dialogs of the author, on any device
  Workers,       \* queue workers
  NoWorker,
  Times,         \* the times an editor may choose
  MinOffset,     \* MIN_FUTURE_OFFSET_SECONDS
  EditTTL,       \* EDIT_LOCK_TTL_SECONDS
  MaxRetries,    \* maxRetries of the queue
  Skew,          \* how far the clock of a process may be from the database's
  Faults,        \* the kinds of failure that happen in this instance
  MaxSaves,      \* bound: versions of the text
  MaxClock,      \* bound: the last instant
  MaxTroubles    \* bound: failures and crashes

FaultKinds == {"crash", "denied", "early", "late", "sql"}

ASSUME NoWorkerAssumption == NoWorker \notin Workers
ASSUME ScheduleTimesAssumption ==
  /\ Times \subseteq Nat /\ MinOffset \in Nat /\ EditTTL \in Nat \ {0}
  /\ Skew \in Nat /\ MaxClock \in Nat
ASSUME ScheduleBoundsAssumption ==
  /\ MaxRetries \in Nat \ {0} /\ MaxSaves \in Nat \ {0} /\ MaxTroubles \in Nat
  /\ Faults \subseteq FaultKinds

VARIABLES
  clock,     \* the database's clock
  row,       \* the row of scheduled_messages
  message,   \* content of the message in the stream, by its client message id
  pub,       \* what the last upsert event said of the row
  jobs,      \* the rows of queue_messages for it
  ed,        \* the dialogs
  tx,        \* the transaction of each dialog's request
  work,      \* where each worker is with the job it claimed
  troubles   \* how many of MaxTroubles there were

vars == <<clock, row, message, pub, jobs, ed, tx, work, troubles>>

NotSent == 0

Promise == INSTANCE ScheduledPromise WITH status <- row.status, content <- row.content

-----------------------------------------------------------------------------
(* The row, the jobs and the clock.                                         *)

\* A date that is NULL is 0.
NoRow == [status |-> "none", content |-> 0, version |-> 0, at |-> 0, fence |-> 0, job |-> 0]

\* Each save that moves the time makes one job, and so does scheduling.
Jobs == 1..MaxSaves
NoJob == [state |-> "none", after |-> 0, fails |-> 0, holder |-> NoWorker]
FreshJob == CHOOSE j \in Jobs : jobs[j].state = "none"

\* Date.now() in some process.
AppNow == (clock - Skew .. clock + Skew) \cap Nat

Trouble ==
  /\ troubles < MaxTroubles
  /\ troubles' = troubles + 1

Fault(kind) == kind \in Faults /\ Trouble

View(r) == [content |-> r.content, version |-> r.version]

\* QueueRepository.cancelById skips a job that is claimed.
Cancelled(js, j) ==
  IF js[j].state = "waiting" THEN [js EXCEPT ![j].state = "cancelled"] ELSE js

\* enqueueSendJob: a job that is due when the row is, pinned to the row.
Enqueued(js, j, r) == [js EXCEPT ![j] = [NoJob EXCEPT !.state = "waiting", !.after = r.at]]
Pinned(r, j) == [r EXCEPT !.job = j, !.version = @ + 1]

(* Mutant: the fence is left to the check that came before. *)
CanStartFenced(r, now, bypassFence, force) == r.status = "pending" /\ (force \/ r.at <= now)

(* Mutant: the status is left to the check that came before. *)
CanStartSettled(r, now, bypassFence, force) ==
  (force \/ r.at <= now) /\ (bypassFence \/ r.fence <= now)

\* tryStartSend: its WHERE clause.
CanStart(r, now, bypassFence, force) ==
  /\ r.status = "pending"
  /\ force \/ r.at <= now
  /\ bypassFence \/ r.fence <= now

Started(r) == [r EXCEPT !.status = "sending", !.version = @ + 1]

\* markSent, after createMessage: a message that is already there is kept.
MarkSent(r) == [r EXCEPT !.status = "sent", !.version = @ + 1, !.fence = 0]
Created(r) == IF message = NotSent THEN r.content ELSE message

MarkFailed(r) ==
  IF r.status \in {"pending", "sending"}
  THEN [r EXCEPT !.status = "failed", !.version = @ + 1, !.fence = 0]
  ELSE r

-----------------------------------------------------------------------------
(* The dialogs and the requests of the author.                              *)

ClosedDialog == [open |-> FALSE, text |-> 0, version |-> 0,
                 until |-> 0, adopted |-> FALSE]

\* A request: what it asks for, what it read, the text the author saw.
NoTx == [op |-> "none", now |-> 0, at |-> 0, version |-> 0, seenAt |-> 0, seenJob |-> 0,
         text |-> 0, adopted |-> FALSE]

Idle == [phase |-> "idle", job |-> 0, at |-> 0, now |-> 0]

Init ==
  /\ clock = 0 /\ row = NoRow /\ message = NotSent /\ pub = View(NoRow)
  /\ jobs = [j \in Jobs |-> NoJob]
  /\ ed = [e \in Editors |-> ClosedDialog]
  /\ tx = [e \in Editors |-> NoTx]
  /\ work = [w \in Workers |-> Idle]
  /\ troubles = 0

\* schedule: a second request with the client message id gets the same row.
Schedule(t) ==
  /\ row.status = "none"
  /\ \E n \in AppNow :
       LET at == IF t < n + MinOffset THEN n + MinOffset ELSE t
           r  == Pinned([NoRow EXCEPT !.status = "pending", !.content = 1,
                                      !.version = 1, !.at = at], 1)
       IN  /\ at <= MaxClock
           /\ row' = r /\ pub' = View(r)
           /\ jobs' = Enqueued(jobs, 1, r)
  /\ UNCHANGED <<clock, message, ed, tx, work, troubles>>

\* The dialog opens on the row as the last event left it in the cache, and
\* sends a lockForEdit, which may get lost.
Open(e) ==
  /\ row.status = "pending" /\ ~ed[e].open /\ tx[e] = NoTx
  /\ ed' = [ed EXCEPT ![e] = [ClosedDialog EXCEPT !.open = TRUE, !.text = pub.content,
                                                  !.version = pub.version]]
  /\ \/ UNCHANGED tx
     \/ /\ clock + EditTTL <= MaxClock
        /\ tx' = [tx EXCEPT ![e] = [NoTx EXCEPT !.op = "lock", !.now = clock]]
  /\ UNCHANGED <<clock, row, message, pub, jobs, work, troubles>>

\* handleClose and releaseEditLock: the fence is gone, for every dialog.  A
\* dialog waits for its save, but not for its lock, which may then be taken
\* after the release.  A tab that dies is one that never closes its dialog.
Close(e) ==
  /\ ed[e].open /\ tx[e].op # "update"
  /\ ed' = [d \in Editors |-> IF d = e THEN ClosedDialog ELSE [ed[d] EXCEPT !.until = 0]]
  /\ row' = IF row.status = "pending" THEN [row EXCEPT !.fence = 0] ELSE row
  /\ UNCHANGED <<clock, message, pub, jobs, tx, work, troubles>>

\* BEGIN, the unlocked read of the row, assertRowPending.
Begin(e, request) ==
  /\ tx[e] = NoTx /\ row.status = "pending"
  /\ tx' = [tx EXCEPT ![e] = request]
  /\ UNCHANGED <<clock, row, message, pub, jobs, work, troubles>>

BeginUpdate(e, at) ==
  /\ ed[e].open /\ row.content < MaxSaves
  /\ Begin(e, [op |-> "update", now |-> clock, at |-> at, version |-> ed[e].version,
               seenAt |-> row.at, seenJob |-> row.job,
               text |-> ed[e].text, adopted |-> ed[e].adopted])
  /\ UNCHANGED ed

\* From the list of scheduled messages, or from a dialog that then closes.
BeginSendNow(e) ==
  /\ ~ed[e].open
  /\ Begin(e, [NoTx EXCEPT !.op = "sendNow", !.seenJob = row.job])
  /\ UNCHANGED ed

BeginCancel(e) ==
  /\ ~ed[e].open
  /\ Begin(e, [NoTx EXCEPT !.op = "cancel", !.seenJob = row.job])
  /\ UNCHANGED ed

\* The rest of a request's transaction; one that is refused changes nothing.
End(e, op) ==
  /\ tx[e].op = op
  /\ tx' = [tx EXCEPT ![e] = NoTx]
  /\ UNCHANGED <<clock, work>>

Refused == UNCHANGED <<row, message, pub, jobs, ed, troubles>>

\* bumpEditFence.  The dialog takes the version of the answer, and keeps the
\* text it opened with.
LockForEdit(e) ==
  /\ End(e, "lock")
  /\ \/ /\ row.status = "pending"
        /\ LET until == IF row.fence > tx[e].now + EditTTL THEN row.fence ELSE tx[e].now + EditTTL
           IN  /\ row' = [row EXCEPT !.fence = until]
               /\ ed' = IF ~ed[e].open THEN ed
                        ELSE [ed EXCEPT ![e].until = until, ![e].version = row.version,
                                        ![e].adopted = (row.content # ed[e].text)]
        /\ UNCHANGED <<message, pub, jobs, troubles>>
     \/ row.status # "pending" /\ Refused

\* finalizeSendInTx for an author who waits: an error rolls everything back.
SendForAuthor(e, r) ==
  \/ /\ row' = MarkSent(Started(r))
     /\ message' = Created(r)
     /\ pub' = View(MarkSent(Started(r)))
     /\ jobs' = Cancelled(jobs, tx[e].seenJob)
     /\ UNCHANGED <<ed, troubles>>
  \/ /\ \E kind \in {"early", "late", "sql"} : Fault(kind)
     /\ UNCHANGED <<row, message, pub, jobs, ed>>

(* Mutant: the last save wins. *)
UpdateAlwaysLands(e) == row.status = "pending"

\* The UPDATE of ScheduledMessagesRepository.update: its WHERE and its SET.
UpdateLands(e) == row.status = "pending" /\ row.version = tx[e].version
Saved(e) == [row EXCEPT !.content = @ + 1, !.at = tx[e].at, !.version = @ + 1]

(* Mutant: the job to cancel is taken from the row after the new one is pinned. *)
RescheduledAndCancelled(e) ==
  /\ row' = Pinned(Saved(e), FreshJob)
  /\ jobs' = Cancelled(Enqueued(jobs, FreshJob, Saved(e)), FreshJob)
  /\ pub' = View(Saved(e))
  /\ UNCHANGED <<message, ed, troubles>>

\* The event and the answer carry the row as it was before the job was pinned.
Rescheduled(e) ==
  /\ row' = Pinned(Saved(e), FreshJob)
  /\ jobs' = Enqueued(Cancelled(jobs, tx[e].seenJob), FreshJob, Saved(e))
  /\ pub' = View(Saved(e))
  /\ UNCHANGED <<message, ed, troubles>>

Update(e) ==
  /\ End(e, "update")
  /\ \/ ~UpdateLands(e) /\ Refused
     \/ /\ UpdateLands(e)
        /\ \E n \in AppNow :
             \/ /\ Saved(e).at <= n
                /\ \/ CanStart(Saved(e), tx[e].now, TRUE, FALSE) /\ SendForAuthor(e, Saved(e))
                   \/ ~CanStart(Saved(e), tx[e].now, TRUE, FALSE) /\ Refused
             \/ Saved(e).at > n /\ Saved(e).at # tx[e].seenAt /\ Rescheduled(e)
             \/ /\ Saved(e).at > n /\ Saved(e).at = tx[e].seenAt
                /\ row' = Saved(e) /\ pub' = View(Saved(e))
                /\ UNCHANGED <<message, jobs, ed, troubles>>

SendNow(e) ==
  /\ End(e, "sendNow")
  /\ \/ CanStart(row, tx[e].now, TRUE, TRUE) /\ SendForAuthor(e, row)
     \/ ~CanStart(row, tx[e].now, TRUE, TRUE) /\ Refused

(* Mutant: the status is left to the check that came before. *)
CancelAlwaysLands == TRUE

CancelLands == row.status = "pending"

Cancel(e) ==
  /\ End(e, "cancel")
  /\ \/ /\ CancelLands
        /\ row' = [row EXCEPT !.status = "cancelled", !.version = @ + 1, !.fence = 0]
        /\ jobs' = Cancelled(jobs, tx[e].seenJob)
        /\ UNCHANGED <<message, pub, ed, troubles>>
     \/ ~CancelLands /\ Refused

-----------------------------------------------------------------------------
(* The queue workers.  The backoff between attempts is left out: a job that *)
(* failed may be claimed again at any later time.                           *)

Move(w, phase) == [work EXCEPT ![w] = [@ EXCEPT !.phase = phase, !.at = 0, !.now = 0]]

(* Mutant: a claim never expires. *)
ClaimedForGood(j) == FALSE

\* The worker that claimed j crashed or went on to something else.
Orphaned(j) ==
  \A w \in Workers : ~(jobs[j].holder = w /\ work[w].phase # "idle" /\ work[w].job = j)

\* batchClaimMessages: a due job that is not claimed, or whose claim expired.
Claim(w, j) ==
  /\ work[w].phase = "idle"
  /\ jobs[j].state = "waiting" \/ (jobs[j].state = "claimed" /\ Orphaned(j))
  /\ \E n \in AppNow :
       /\ jobs[j].after <= n
       /\ work' = [work EXCEPT ![w] = [phase |-> "claimed", job |-> j, at |-> n, now |-> 0]]
  /\ jobs' = [jobs EXCEPT ![j].state = "claimed", ![j].holder = w]
  /\ UNCHANGED <<clock, row, message, pub, ed, tx, troubles>>

\* fire, to its first decision.  The process that claimed the job reads its
\* own clock again, and a clock does not go back.
FireReads(w) ==
  /\ work[w].phase = "claimed"
  /\ \E n \in AppNow :
       /\ n >= work[w].at
       /\ \/ /\ row.status # "pending" \/ row.at > n
             /\ work' = Move(w, "dropped")
          \/ /\ row.status = "pending" /\ row.at <= n /\ row.fence > n
             /\ work' = Move(w, "contended")
          \/ /\ row.status = "pending" /\ row.at <= n /\ row.fence <= n
             /\ work' = [work EXCEPT ![w] = [@ EXCEPT !.phase = "read", !.at = 0, !.now = clock]]
  /\ UNCHANGED <<clock, row, message, pub, jobs, ed, tx, troubles>>

\* The author may no longer write to the stream.
FireDenied(w) ==
  /\ work[w].phase = "read"
  /\ Fault("denied")
  /\ row' = MarkFailed(row) /\ pub' = View(MarkFailed(row))
  /\ work' = Move(w, "dropped")
  /\ UNCHANGED <<clock, message, jobs, ed, tx>>

\* The start-send UPDATE of the worker found nothing.
FireContended(w) ==
  /\ work[w].phase = "read"
  /\ ~CanStart(row, work[w].now, FALSE, FALSE)
  /\ work' = Move(w, "contended")
  /\ UNCHANGED <<clock, row, message, pub, jobs, ed, tx, troubles>>

FireSends(w) ==
  /\ work[w].phase = "read"
  /\ CanStart(row, work[w].now, FALSE, FALSE)
  /\ row' = MarkSent(Started(row)) /\ pub' = View(MarkSent(Started(row)))
  /\ message' = Created(row)
  /\ work' = Move(w, "dropped")
  /\ UNCHANGED <<clock, jobs, ed, tx, troubles>>

\* createMessage throws.  fire catches it inside the transaction, and commits
\* whatever was written before; after a database error it cannot commit.
FireThrows(w) ==
  /\ work[w].phase = "read"
  /\ CanStart(row, work[w].now, FALSE, FALSE)
  /\ \/ /\ \/ Fault("early") /\ UNCHANGED message
           \/ Fault("late") /\ message' = Created(row)
        /\ row' = MarkFailed(Started(row)) /\ pub' = View(MarkFailed(Started(row)))
        /\ work' = Move(w, "dropped")
     \/ /\ Fault("sql")
        /\ work' = Move(w, "contended")
        /\ UNCHANGED <<row, message, pub>>
  /\ UNCHANGED <<clock, jobs, ed, tx>>

\* The queue records the outcome, if the job is still the worker's own: a
\* handler that returned completes it, one that threw spends a retry.
Report(w) ==
  LET j == work[w].job IN
  /\ work[w].phase \in {"dropped", "contended"}
  /\ work' = [work EXCEPT ![w] = Idle]
  /\ jobs' = IF jobs[j].state # "claimed" \/ jobs[j].holder # w THEN jobs
             ELSE IF work[w].phase = "dropped" THEN [jobs EXCEPT ![j].state = "done"]
             ELSE [jobs EXCEPT ![j].fails = @ + 1, ![j].holder = NoWorker,
                     ![j].state = IF jobs[j].fails + 1 >= MaxRetries THEN "dead" ELSE "waiting"]
  /\ UNCHANGED <<clock, row, message, pub, ed, tx, troubles>>

\* The process dies; an open transaction is rolled back.
Crash(w) ==
  /\ work[w].phase # "idle"
  /\ Fault("crash")
  /\ work' = [work EXCEPT ![w] = Idle]
  /\ UNCHANGED <<clock, row, message, pub, jobs, ed, tx>>

Tick ==
  /\ clock < MaxClock
  /\ clock' = clock + 1
  /\ UNCHANGED <<row, message, pub, jobs, ed, tx, work, troubles>>

-----------------------------------------------------------------------------

Dialog(e) ==
  \/ Open(e) \/ Close(e) \/ BeginSendNow(e) \/ BeginCancel(e)
  \/ \E at \in Times : BeginUpdate(e, at)

Commit(e) == LockForEdit(e) \/ Update(e) \/ SendNow(e) \/ Cancel(e)

Fire(w) ==
  FireReads(w) \/ FireDenied(w) \/ FireContended(w) \/ FireSends(w) \/ FireThrows(w)

Next ==
  \/ \E t \in Times : Schedule(t)
  \/ \E e \in Editors : Dialog(e) \/ Commit(e)
  \/ \E w \in Workers :
       (\E j \in Jobs : Claim(w, j)) \/ Fire(w) \/ Report(w) \/ Crash(w)
  \/ Tick

Spec == Init /\ [][Next]_vars

\* Time passes, a due job is claimed, a handler that runs ends.  Nothing is
\* asked of the author.
Fairness ==
  /\ WF_vars(Tick)
  /\ \A w \in Workers :
       /\ WF_vars(\E j \in Jobs : Claim(w, j))
       /\ WF_vars(Fire(w))
       /\ WF_vars(Report(w))

FairSpec == Spec /\ Fairness

-----------------------------------------------------------------------------
(* What is claimed.                                                         *)

\* Types; a transaction that commits never leaves the row as "sending", so no
\* crash can strand it there.
TypeOK ==
  /\ clock \in 0..MaxClock
  /\ row \in [status : {"none", "pending", "sent", "failed", "cancelled"}, content : Nat,
              version : Nat, at : Nat, fence : Nat, job : Jobs \cup {0}]
  /\ message \in Nat
  /\ pub \in [content : Nat, version : Nat]
  /\ jobs \in [Jobs -> [state : {"none", "waiting", "claimed", "done", "cancelled", "dead"},
                        after : Nat, fails : 0..MaxRetries, holder : Workers \cup {NoWorker}]]
  /\ ed \in [Editors -> [open : BOOLEAN, text : Nat, version : Nat,
                         until : Nat, adopted : BOOLEAN]]
  /\ tx \in [Editors -> [op : {"none", "lock", "update", "sendNow", "cancel"}, now : Nat,
                         at : Nat, version : Nat, seenAt : Nat, seenJob : Jobs \cup {0},
                         text : Nat, adopted : BOOLEAN]]
  /\ work \in [Workers -> [phase : {"idle", "claimed", "read", "dropped", "contended"},
                           job : Jobs \cup {0}, at : Nat, now : Nat]]
  /\ troubles \in 0..MaxTroubles

\* A message is in the stream exactly when the row says it was sent, and its
\* text is the last one that was saved: a save that is acknowledged is never
\* left out of what is sent, a cancelled or failed row sent nothing.
SentAsSaved ==
  /\ (message # NotSent) <=> (row.status = "sent")
  /\ message # NotSent => message = row.content

\* The job pinned to a pending row is due when the row is, and is still to be
\* run: no cancellation, reschedule, lost claim or dropped attempt leaves a
\* row with nothing to fire it but a job that spent its retries.
PendingHasJob ==
  row.status = "pending" =>
    /\ jobs[row.job].state \in {"waiting", "claimed", "dead"}
    /\ jobs[row.job].after = row.at
    /\ \A w \in Workers :
         ~(work[w].phase = "dropped" /\ work[w].job = row.job /\ jobs[row.job].holder = w)

\* First save wins: a save lands only on the text its author was shown,
\* unless the answer to lockForEdit gave the dialog the version of a newer text.
FirstSaveWins ==
  [][(row.status = "pending" /\ row'.content # row.content) =>
       \E e \in Editors : /\ tx[e].op = "update" /\ tx'[e] = NoTx
                          /\ tx[e].text = row.content \/ tx[e].adopted]_vars

\* A worker never sends while an author is editing under a fence the server
\* granted and no dialog has dropped, although the fence may have been raised
\* after the worker looked at it.
NeverSentMidEdit ==
  [][(\E w \in Workers : work'[w] # work[w]) /\ row'.status = "sent" /\ row.status # "sent" =>
       \A e \in Editors : ed[e].until <= clock]_vars

\* The row, seen from outside, is the abstract scheduled message: one final
\* state, reached once, and no save after it.
ImplementsPromise == Promise!PromiseSpec

\* A row that is due is settled in the end, or its job spent its retries.
EventuallySettled ==
  row.status = "pending" ~> (row.status # "pending" \/ jobs[row.job].state = "dead")

\* A row that is marked failed sent nothing: a declared conversation that is
\* gone "rolls back the whole send" (event-service.ts:899).
FailedSentNothing == row.status = "failed" => message = NotSent
=============================================================================
