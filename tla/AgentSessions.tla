---------------------------- MODULE AgentSessions ----------------------------
(***************************************************************************)
(* The turns a persona takes in one companion stream                       *)
(* (apps/backend/src/features/agents): the listener that turns user        *)
(* messages into jobs, the worker that runs a job as a session, the sweep  *)
(* that fails orphaned sessions, and the handler that deletes the sessions *)
(* of a deleted message.                                                   *)
(*                                                                         *)
(* A message is its sequence number among the user's messages. While a     *)
(* session runs the listener sends no job: the turn is to pick the message *)
(* up itself, or to send a follow-up job for it once it has completed. The *)
(* queue is the one JobQueue.tla describes, seen from a handler: a job is  *)
(* retried until it failed MaxAttempts times, a crash costs no attempt.    *)
(* Reruns after an edit, mentions, scheduled follow-ups and subagents,     *)
(* which send jobs of their own to the same worker, are left out.          *)
(***************************************************************************)
EXTENDS Integers, Sequences, FiniteSets

CONSTANTS
  Workers,       \* handlers of the PERSONA_AGENT queue, over all processes
  None,          \* no worker
  MaxAttempts,   \* maxAttempts of the queue
  MaxMessages,   \* bound: messages the user posts
  Cost,          \* bound: what a trouble of each kind counts
  MaxTroubles    \* bound: what the troubles of a behaviour may count together

FaultKinds ==
  {"turn", "denied", "stop", "sql", "crash", "lapse", "heartbeat", "delete", "purge"}

ASSUME WorkersAssumption == None \notin Workers
ASSUME AttemptsAssumption == MaxAttempts \in Nat \ {0}
ASSUME TroublesAssumption ==
  Cost \in [FaultKinds -> Nat] /\ MaxMessages \in Nat /\ MaxTroubles \in Nat

VARIABLES
  posted,       \* user messages in the stream
  heard,        \* messages the companion listener is done with
  dispatching,  \* the listener has decided to send a job for the next one
  jobs,         \* the PERSONA_AGENT jobs, in the order they were sent
  sessions,     \* agent_sessions, in the order of created_at
  work,         \* what each worker is doing
  orphans,      \* sessions the sweep has found and not dealt with
  deletion,     \* how far the deletion of each message is
  doomed,       \* sessions the handler of a deletion has listed and not dealt with
  gone,         \* those of them that were listed as deleted
  purge,        \* the session whose replies it is deleting
  marked,       \* history: sessions that were ever marked deleted
  answered,     \* history: the last message a posted reply took into account
  excused,      \* history: the last message that the code may have dropped
  holes,        \* history: which of the named races were met
  troubles      \* what the troubles so far count

streamVars == <<posted, heard, dispatching>>
deletionVars == <<deletion, doomed, gone, purge, marked>>
historyVars == <<answered, excused, holes>>
vars == <<streamVars, jobs, sessions, work, orphans, deletionVars, historyVars, troubles>>

Messages == 1..MaxMessages
SessionIds == 1..Len(sessions)
Larger(a, b) == IF a > b THEN a ELSE b

Fault(kind) ==
  /\ troubles + Cost[kind] <= MaxTroubles
  /\ troubles' = troubles + Cost[kind]

\* The code may drop the messages posted so far: MessageReached asks for later
\* ones only.
Excuse == excused' = posted

-----------------------------------------------------------------------------
(* The table of sessions. A session is started for a trigger: a message, or *)
(* -j for the follow-up of job j.                                           *)

NewSession(trigger, initial) ==
  [trigger |-> trigger, status |-> "running", lastSeen |-> initial, event |-> "started",
   replied |-> FALSE]

Running == {s \in SessionIds : sessions[s].status = "running"}

\* findByTriggerMessage: the latest session of the trigger, 0 if there is none.
FindByTrigger(trigger) ==
  LET S == {s \in SessionIds : sessions[s].trigger = trigger}
  IN  IF S = {} THEN 0 ELSE CHOOSE s \in S : \A t \in S : t <= s

Status(s) == IF s = 0 THEN "none" ELSE sessions[s].status

\* updateStatus, with the stream event of the same transaction.
SetStatus(s, status, event) ==
  sessions' = [sessions EXCEPT ![s].status = status, ![s].event = event]

\* QueueManager.send.
Enqueued(trigger) ==
  Append(jobs, [trigger |-> trigger, state |-> "waiting", fails |-> 0, holder |-> None])

-----------------------------------------------------------------------------
(* The worker: where it is, its job and session, the attempt it counts as,  *)
(* lastProcessedSequence, the last message its draft was composed with,     *)
(* whether an error is retryable, and what it reports to the queue.         *)

Idle ==
  [pc |-> "idle", job |-> 0, session |-> 0, attempt |-> 0, last |-> 0, draft |-> 0,
   retryable |-> TRUE, throws |-> FALSE]

At(w, pc) == work[w].pc = pc
Goto(w, pc) == work' = [work EXCEPT ![w].pc = pc]
Session(w) == sessions[work[w].session]
Busy(w) == ~At(w, "idle")

\* The handler ends: it returns, or throws to the queue.
Ends(w, throws) ==
  work' = [work EXCEPT ![w] = [Idle EXCEPT !.pc = "report", !.throws = throws,
                                           !.job = work[w].job, !.attempt = work[w].attempt]]

\* The turn throws to withCompanionSession; its own variables are gone.
Throws(w, retryable) ==
  work' = [work EXCEPT ![w] = [@ EXCEPT !.pc = "threw", !.last = 0, !.draft = 0,
                                        !.retryable = retryable]]

\* withCompanionSession holds the session from its setup to its return, and
\* sends heartbeats meanwhile.
Driving(w, s) ==
  /\ work[w].session = s
  /\ work[w].pc \in {"hydrate", "compose", "send", "commit", "complete", "threw", "fail"}

Init ==
  /\ posted = 0 /\ heard = 0 /\ dispatching = FALSE
  /\ jobs = <<>> /\ sessions = <<>>
  /\ work = [w \in Workers |-> Idle]
  /\ orphans = {}
  /\ deletion = [m \in Messages |-> "no"]
  /\ doomed = {} /\ gone = {} /\ purge = {} /\ marked = {}
  /\ answered = 0 /\ excused = 0 /\ holes = {} /\ troubles = 0

-----------------------------------------------------------------------------
(* The user and the companion listener.                                     *)

Post ==
  /\ posted < MaxMessages
  /\ posted' = posted + 1
  /\ UNCHANGED <<heard, dispatching, jobs, sessions, work, orphans, deletionVars, historyVars,
                 troubles>>

\* Mutant: the boundary is off by one.
LeftToSessionTooMuch(m) ==
  /\ sessions # <<>>
  /\ LET last == sessions[Len(sessions)]
     IN  last.status = "running" \/ (last.status = "completed" /\ m <= last.lastSeen + 1)

\* The latest session is active, or has seen the message.
LeftToSession(m) ==
  /\ sessions # <<>>
  /\ LET last == sessions[Len(sessions)]
     IN  last.status = "running" \/ (last.status = "completed" /\ m <= last.lastSeen)

\* processEvent, up to its read of the latest session.
ListenerDecides ==
  /\ ~dispatching /\ heard < posted
  /\ \/ LeftToSession(heard + 1) /\ heard' = heard + 1 /\ UNCHANGED dispatching
     \/ ~LeftToSession(heard + 1) /\ dispatching' = TRUE /\ UNCHANGED heard
  /\ UNCHANGED <<posted, jobs, sessions, work, orphans, deletionVars, historyVars, troubles>>

ListenerSends ==
  /\ dispatching
  /\ jobs' = Enqueued(heard + 1)
  /\ heard' = heard + 1
  /\ dispatching' = FALSE
  /\ UNCHANGED <<posted, sessions, work, orphans, deletionVars, historyVars, troubles>>

-----------------------------------------------------------------------------
(* A turn.                                                                  *)

\* The queue hands a job over, and PersonaAgent.run reads the stream's latest
\* sequence.
Claim(w, j) ==
  /\ At(w, "idle")
  /\ jobs[j].state = "waiting"
  /\ jobs' = [jobs EXCEPT ![j].state = "claimed", ![j].holder = w]
  /\ work' = [work EXCEPT ![w] = [Idle EXCEPT !.pc = "setup", !.job = j, !.last = posted,
                                              !.attempt = jobs[j].fails]]
  /\ UNCHANGED <<streamVars, sessions, orphans, deletionVars, historyVars, troubles>>

Resumable(s) == Status(s) \in {"running", "failed"}

\* Phase 1 begins with a read of the trigger's session, which locks nothing.
SetupReads(w) ==
  /\ At(w, "setup")
  /\ LET s == FindByTrigger(jobs[work[w].job].trigger)
     IN  \/ Status(s) = "completed" /\ Ends(w, FALSE) /\ Excuse
         \/ /\ Status(s) # "completed"
            /\ work' = [work EXCEPT ![w].pc = "start", ![w].session = IF Resumable(s) THEN s ELSE 0]
            /\ UNCHANGED excused
  /\ UNCHANGED <<streamVars, jobs, sessions, orphans, deletionVars, answered, holes, troubles>>

\* updateStatus of the session that was read, unless it has meanwhile been
\* completed or deleted. The unique index on running sessions makes the
\* statement fail while another session runs.
Resume(w) ==
  /\ At(w, "start") /\ work[w].session # 0
  /\ LET s == work[w].session
     IN  \/ /\ Resumable(s) /\ Running \subseteq {s}
            /\ SetStatus(s, "running", sessions[s].event)
            /\ work' = [work EXCEPT ![w].pc = "hydrate", ![w].last = sessions[s].lastSeen]
            /\ UNCHANGED <<excused, holes>>
         \/ /\ Resumable(s) /\ ~(Running \subseteq {s})
            /\ Ends(w, TRUE)
            /\ holes' = holes \cup {"unstarted"}
            /\ UNCHANGED <<sessions, excused>>
         \/ /\ ~Resumable(s)
            /\ Ends(w, FALSE)
            /\ Excuse
            /\ UNCHANGED <<sessions, holes>>
  /\ UNCHANGED <<streamVars, jobs, orphans, deletionVars, answered, troubles>>

\* insertRunningOrSkip: the persona may be running on the stream already.
InsertRunningOrSkip(w) ==
  /\ At(w, "start") /\ work[w].session = 0
  /\ \/ /\ Running = {}
        /\ sessions' = Append(sessions, NewSession(jobs[work[w].job].trigger, work[w].last))
        /\ work' = [work EXCEPT ![w].pc = "hydrate", ![w].session = Len(sessions) + 1]
     \/ Running # {} /\ Ends(w, FALSE) /\ UNCHANGED sessions
  /\ UNCHANGED <<streamVars, jobs, orphans, deletionVars, historyVars, troubles>>

\* The turn goes on to the next call of the model with the conversation as it
\* is, unless shouldAbort finds the session deleted.
NextCall(w, last) ==
  IF Session(w).status = "deleted"
  THEN Throws(w, TRUE)
  ELSE work' = [work EXCEPT ![w].pc = "compose", ![w].last = last, ![w].draft = posted]

\* buildAgentContext reads the conversation, and the loop begins.
Hydrate(w) ==
  /\ At(w, "hydrate")
  /\ NextCall(w, work[w].last)
  /\ UNCHANGED <<streamVars, jobs, sessions, orphans, deletionVars, historyVars, troubles>>

\* newMessages.check and injectNewMessages after the model's call. Messages
\* that arrived are marked as seen and send the turn round again, unless a
\* plain text was reconsidered before or the iterations are used up: then the
\* text there is is sent without them. A worker whose claim lapsed may thus
\* mark a message as seen by a session that another worker has completed.
CheckNewMessages(w) ==
  /\ At(w, "compose")
  /\ \/ /\ posted <= work[w].last
        /\ Goto(w, "send")
        /\ UNCHANGED <<sessions, excused>>
     \/ /\ posted > work[w].last
        /\ sessions' = [sessions EXCEPT ![work[w].session].lastSeen = posted]
        /\ \/ /\ NextCall(w, posted)
              /\ excused' = IF Session(w).status = "completed" THEN posted ELSE excused
           \/ work' = [work EXCEPT ![w].pc = "send", ![w].last = posted] /\ Excuse
  /\ UNCHANGED <<streamVars, jobs, orphans, deletionVars, answered, holes, troubles>>

\* The user stops the turn, which then completes without a reply.
Stop(w) ==
  /\ At(w, "compose")
  /\ Fault("stop")
  /\ Goto(w, "complete")
  /\ Excuse
  /\ UNCHANGED <<streamVars, jobs, sessions, orphans, deletionVars, answered, holes>>

\* Mutant: the reply is posted without another look at the session.
SendMessageUnchecked(w) ==
  /\ At(w, "send")
  /\ Goto(w, "commit")
  /\ UNCHANGED <<streamVars, jobs, sessions, orphans, deletionVars, historyVars, troubles>>

\* doSendMessage reads the session first.
SendMessage(w) ==
  /\ At(w, "send")
  /\ IF Session(w).status = "running" THEN Goto(w, "commit") ELSE Throws(w, TRUE)
  /\ UNCHANGED <<streamVars, jobs, sessions, orphans, deletionVars, historyVars, troubles>>

CreateMessage(w) ==
  /\ At(w, "commit")
  /\ sessions' = [sessions EXCEPT ![work[w].session].replied = TRUE]
  /\ answered' = Larger(answered, work[w].draft)
  /\ work' = [work EXCEPT ![w].pc = "complete", ![w].draft = 0]
  /\ UNCHANGED <<streamVars, jobs, orphans, deletionVars, excused, holes, troubles>>

\* The turn throws: retryable, or a denial that a retry would only repeat.
TurnThrows(w) ==
  /\ work[w].pc \in {"hydrate", "compose", "send", "commit"}
  /\ \/ Fault("turn") /\ Throws(w, TRUE)
     \/ Fault("denied") /\ Throws(w, FALSE)
  /\ UNCHANGED <<streamVars, jobs, sessions, orphans, deletionVars, historyVars>>

Completed(w) ==
  [sessions EXCEPT ![work[w].session].status = "completed", ![work[w].session].event = "completed",
                   ![work[w].session].lastSeen = work[w].last]

\* Phase 3: completeSession, only of a running session.
CompleteSession(w) ==
  /\ At(w, "complete")
  /\ \/ /\ Session(w).status = "running"
        /\ sessions' = Completed(w)
        /\ Goto(w, "unseen")
     \/ /\ Session(w).status # "running"
        /\ Ends(w, FALSE)
        /\ UNCHANGED sessions
  /\ UNCHANGED <<streamVars, jobs, orphans, deletionVars, historyVars, troubles>>

\* The transaction fails, or commits and loses its answer.
CompletionFails(w) ==
  /\ At(w, "complete")
  /\ Fault("sql")
  /\ \/ UNCHANGED sessions
     \/ Session(w).status = "running" /\ sessions' = Completed(w)
  /\ Throws(w, TRUE)
  /\ UNCHANGED <<streamVars, jobs, orphans, deletionVars, historyVars>>

\* checkForUnseenMessages, after a completed turn only. A job that is run again
\* once its session was deleted may send its follow-up a second time: two jobs
\* then share a trigger.
CheckForUnseen(w) ==
  /\ At(w, "unseen")
  /\ \/ posted <= work[w].last /\ UNCHANGED <<jobs, holes>>
     \/ /\ posted > work[w].last
        /\ jobs' = Enqueued(-work[w].job)
        /\ holes' = IF \E j \in DOMAIN jobs : jobs[j].trigger = -work[w].job
                    THEN holes \cup {"repeated"} ELSE holes
  /\ Ends(w, FALSE)
  /\ UNCHANGED <<streamVars, sessions, orphans, deletionVars, answered, excused, troubles>>

\* The catch block reads the session, and then marks it failed whatever its
\* status has become.
Catch(w) ==
  /\ At(w, "threw")
  /\ IF Session(w).status = "deleted" THEN Ends(w, FALSE) ELSE Goto(w, "fail")
  /\ UNCHANGED <<streamVars, jobs, sessions, orphans, deletionVars, historyVars, troubles>>

\* A statement fails that nobody catches: of the setup, of the catch block's
\* read, of the check for unseen messages.
HandlerThrows(w) ==
  /\ work[w].pc \in {"setup", "start", "threw", "unseen"}
  /\ Fault("sql")
  /\ Ends(w, TRUE)
  /\ holes' = IF At(w, "setup") \/ At(w, "start") THEN holes \cup {"unstarted"} ELSE holes
  /\ UNCHANGED <<streamVars, jobs, sessions, orphans, deletionVars, answered, excused>>

\* Mutant: the last attempt promises another one.
WillRetryOnceMore(w) == work[w].retryable /\ work[w].attempt + 1 <= MaxAttempts

\* The card says "Interrupted, retrying" if this holds.
WillRetry(w) == work[w].retryable /\ work[w].attempt + 1 < MaxAttempts

\* updateStatus asks for no status: a session deleted since the catch block
\* read it is revived, and may be resumed.
MarkFailed(w) ==
  /\ At(w, "fail")
  /\ SetStatus(work[w].session, "failed", IF WillRetry(w) THEN "interrupted" ELSE "failed")
  /\ Ends(w, work[w].retryable)
  /\ holes' = IF Session(w).status = "deleted" THEN holes \cup {"revived"} ELSE holes
  /\ UNCHANGED <<streamVars, jobs, orphans, deletionVars, answered, excused, troubles>>

\* The transaction fails, which is only logged.
MarkFailedFails(w) ==
  /\ At(w, "fail")
  /\ Fault("sql")
  /\ Ends(w, work[w].retryable)
  /\ UNCHANGED <<streamVars, jobs, sessions, orphans, deletionVars, historyVars>>

Holds(w) ==
  jobs[work[w].job].state = "claimed" /\ jobs[work[w].job].holder = w

Outcome(w) ==
  IF ~work[w].throws THEN "done"
  ELSE IF work[w].attempt + 1 >= MaxAttempts THEN "dead" ELSE "waiting"

\* processMessage: the outcome counts only while the worker holds the claim.
\* Nobody follows up on a job that ends without a completed session.
Report(w) ==
  /\ At(w, "report")
  /\ LET j == work[w].job
     IN  \/ /\ Holds(w)
            /\ jobs' = [jobs EXCEPT ![j] =
                          [@ EXCEPT !.state = Outcome(w), !.holder = None,
                                    !.fails = IF work[w].throws THEN work[w].attempt + 1
                                              ELSE jobs[j].fails]]
            /\ excused' = IF \/ Outcome(w) = "dead"
                             \/ /\ Outcome(w) = "done"
                                /\ Status(FindByTrigger(jobs[j].trigger)) \in {"failed", "deleted"}
                          THEN posted ELSE excused
         \/ ~Holds(w) /\ UNCHANGED <<jobs, excused>>
  /\ work' = [work EXCEPT ![w] = Idle]
  /\ UNCHANGED <<streamVars, sessions, orphans, deletionVars, answered, holes, troubles>>

\* The process dies: nothing is rolled back, nobody checks for unseen messages.
Crash(w) ==
  /\ Busy(w)
  /\ Fault("crash")
  /\ work' = [work EXCEPT ![w] = Idle]
  /\ UNCHANGED <<streamVars, jobs, sessions, orphans, deletionVars, historyVars>>

Deserted(j) == \A w \in Workers : ~(Busy(w) /\ work[w].job = j)

\* A claim runs out: its holder died, or could not renew it and works on.
ClaimLapses(j) ==
  /\ jobs[j].state = "claimed"
  /\ \/ Deserted(j) /\ UNCHANGED <<holes, troubles>>
     \/ ~Deserted(j) /\ Fault("lapse") /\ holes' = holes \cup {"displaced"}
  /\ jobs' = [jobs EXCEPT ![j].state = "waiting", ![j].holder = None]
  /\ UNCHANGED <<streamVars, sessions, work, orphans, deletionVars, answered, excused>>

-----------------------------------------------------------------------------
(* Orphaned sessions and deleted messages.                                  *)

\* Mutant: the sweep looks only at sessions that got as far as a reply.
OrphanedOnceReplied(s) == sessions[s].replied /\ \A w \in Workers : ~Driving(w, s)

Orphaned(s) == \A w \in Workers : ~Driving(w, s)

\* findOrphaned: running sessions whose heartbeat is stale. Heartbeats may
\* fail to be written while the turn goes on.
FindOrphaned ==
  /\ orphans = {}
  /\ \/ /\ \E s \in Running : Orphaned(s)
        /\ orphans' = {t \in Running : Orphaned(t)}
        /\ UNCHANGED troubles
     \/ /\ Fault("heartbeat")
        /\ Running # {}
        /\ orphans' = Running
  /\ UNCHANGED <<streamVars, jobs, sessions, work, deletionVars, historyVars>>

\* A job of the trigger is still to be run, or being run.
Retrying(trigger) ==
  \E j \in DOMAIN jobs : jobs[j].trigger = trigger /\ jobs[j].state \in {"waiting", "claimed"}

\* failSessionWithLifecycle, whose guard is the status alone.
FailOrphan(s) ==
  /\ s \in orphans
  /\ orphans' = orphans \ {s}
  /\ \/ /\ sessions[s].status = "running"
        /\ SetStatus(s, "failed", "failed")
        /\ excused' = IF Retrying(sessions[s].trigger) THEN excused ELSE posted
     \/ sessions[s].status # "running" /\ UNCHANGED <<sessions, excused>>
  /\ UNCHANGED <<streamVars, jobs, work, deletionVars, answered, holes, troubles>>

\* The user deletes a message.
DeleteMessage(m) ==
  /\ m <= posted /\ deletion[m] = "no"
  /\ Fault("delete")
  /\ deletion' = [deletion EXCEPT ![m] = "asked"]
  /\ UNCHANGED <<streamVars, jobs, sessions, work, orphans, doomed, gone, purge, marked,
                 historyVars>>

\* handleInvokingMessageDeleted, one event at a time: the sessions of the
\* message are listed once.
ListSessions(m) ==
  /\ deletion[m] = "asked" /\ \A n \in Messages : deletion[n] # "listed"
  /\ LET found == {s \in SessionIds : sessions[s].trigger = m}
     IN  /\ deletion' = [deletion EXCEPT ![m] = IF found = {} THEN "done" ELSE "listed"]
         /\ doomed' = found
         /\ gone' = {s \in found : sessions[s].status = "deleted"}
  /\ UNCHANGED <<streamVars, jobs, sessions, work, orphans, purge, marked, historyVars, troubles>>

\* markSessionDeleted of the next session, the latest first, unless it was
\* listed as deleted. A worker past the check of doSendMessage is overtaken.
MarkDeleted(s) ==
  /\ s \in doomed /\ (\A t \in doomed : t <= s) /\ purge = {}
  /\ doomed' = doomed \ {s} /\ gone' = gone \ {s} /\ purge' = {s}
  /\ \/ s \in gone /\ UNCHANGED <<sessions, marked, holes>>
     \/ /\ s \notin gone
        /\ SetStatus(s, "deleted", "deleted")
        /\ marked' = marked \cup {s}
        /\ holes' = IF \E w \in Workers : At(w, "commit") /\ work[w].session = s
                    THEN holes \cup {"overtaken"} ELSE holes
  /\ UNCHANGED <<streamVars, jobs, work, orphans, deletion, answered, excused, troubles>>

\* The handler goes on to the next session, or is done with the message.
NextDoomed(s) ==
  /\ s \in purge
  /\ purge' = {}
  /\ deletion' = IF doomed = {} THEN [deletion EXCEPT ![sessions[s].trigger] = "done"] ELSE deletion

\* deleteSessionMessages.
PurgeReplies(s) ==
  /\ NextDoomed(s)
  /\ sessions' = [sessions EXCEPT ![s].replied = FALSE]
  /\ UNCHANGED <<streamVars, jobs, work, orphans, doomed, gone, marked, historyVars, troubles>>

\* A statement of deleteSessionMessages fails, which is only logged.
PurgeFails(s) ==
  /\ NextDoomed(s)
  /\ Fault("purge")
  /\ holes' = IF sessions[s].replied THEN holes \cup {"kept"} ELSE holes
  /\ UNCHANGED <<streamVars, jobs, sessions, work, orphans, doomed, gone, marked, answered,
                 excused>>

\* Another statement of the handler fails, or its process dies: the outbox
\* hands it the event again.
DeletionThrows(m) ==
  /\ deletion[m] = "listed"
  /\ Fault("purge")
  /\ deletion' = [deletion EXCEPT ![m] = "asked"]
  /\ doomed' = {} /\ gone' = {} /\ purge' = {}
  /\ UNCHANGED <<streamVars, jobs, sessions, work, orphans, marked, historyVars>>

-----------------------------------------------------------------------------
WorkerStep(w) ==
  \/ SetupReads(w) \/ Resume(w) \/ InsertRunningOrSkip(w)
  \/ Hydrate(w) \/ CheckNewMessages(w) \/ SendMessage(w)
  \/ CreateMessage(w) \/ CompleteSession(w) \/ CheckForUnseen(w) \/ Catch(w) \/ MarkFailed(w)
  \/ Report(w)

WorkerFails(w) ==
  \/ Stop(w) \/ TurnThrows(w) \/ HandlerThrows(w) \/ CompletionFails(w) \/ MarkFailedFails(w)
  \/ Crash(w)

Next ==
  \/ Post \/ ListenerDecides \/ ListenerSends
  \/ \E w \in Workers : WorkerStep(w) \/ WorkerFails(w) \/ \E j \in DOMAIN jobs : Claim(w, j)
  \/ \E j \in DOMAIN jobs : ClaimLapses(j)
  \/ FindOrphaned \/ \E s \in orphans : FailOrphan(s)
  \/ \E m \in Messages : DeleteMessage(m) \/ ListSessions(m) \/ DeletionThrows(m)
  \/ \E s \in doomed : MarkDeleted(s)
  \/ \E s \in purge : PurgeReplies(s) \/ PurgeFails(s)

Spec == Init /\ [][Next]_vars

(***************************************************************************)
(* The listener and the sweep keep running, the queue hands out its jobs   *)
(* and takes deserted ones back, model calls return. The user owes nothing *)
(* and neither does the handler of deletions, which no property waits for. *)
(***************************************************************************)
Fairness ==
  /\ WF_vars(ListenerDecides \/ ListenerSends)
  /\ \A w \in Workers : WF_vars(WorkerStep(w))
  /\ WF_vars(\E w \in Workers : \E j \in DOMAIN jobs : Claim(w, j))
  /\ WF_vars(\E j \in DOMAIN jobs : Deserted(j) /\ ClaimLapses(j))
  /\ WF_vars(FindOrphaned) /\ WF_vars(\E s \in orphans : FailOrphan(s))

FairSpec == Spec /\ Fairness
-----------------------------------------------------------------------------
(***************************************************************************)
(* The variables keep their shape, and the partial unique index keeps one  *)
(* running session per persona and stream.                                 *)
(***************************************************************************)
TypeOK ==
  /\ posted \in 0..MaxMessages /\ heard \in 0..posted /\ dispatching \in BOOLEAN
  /\ jobs \in Seq([trigger : Int, state : {"waiting", "claimed", "done", "dead"},
                   fails : 0..MaxAttempts, holder : Workers \cup {None}])
  /\ sessions \in Seq([trigger : Int, status : {"running", "completed", "failed", "deleted"},
                       lastSeen : 0..posted, replied : BOOLEAN,
                       event : {"started", "interrupted", "completed", "failed", "deleted"}])
  /\ Cardinality(Running) <= 1
  /\ \A w \in Workers :
       /\ work[w].job \in 0..Len(jobs) /\ work[w].session \in 0..Len(sessions)
       /\ work[w].last \in 0..posted /\ work[w].draft \in 0..posted
       /\ work[w].attempt \in 0..MaxAttempts
  /\ orphans \subseteq SessionIds /\ doomed \subseteq SessionIds /\ gone \subseteq doomed
  /\ purge \subseteq SessionIds /\ marked \subseteq SessionIds
  /\ deletion \in [Messages -> {"no", "asked", "listed", "done"}]
  /\ answered \in 0..posted /\ excused \in 0..posted
  /\ holes \subseteq {"unstarted", "displaced", "repeated", "overtaken", "revived", "kept"}
  /\ troubles \in 0..MaxTroubles

(***************************************************************************)
(* The queue "will retry the SAME session" when the card of a failed turn  *)
(* says "Interrupted, retrying": a job of its trigger is still open, which *)
(* needs willRetry of the session and the queue's count to agree. Excused  *)
(* are an attempt that fails in its setup, where no card is touched (the   *)
(* resume runs into the unique index while another session runs), a worker *)
(* that marks the session although its claim has lapsed, and two follow-up *)
(* jobs of the same trigger, whose sessions may be two as well: when the   *)
(* later one completes, the job of the earlier one finds nothing to do.    *)
(***************************************************************************)
CardHonest ==
  holes \cap {"unstarted", "displaced", "repeated"} = {} =>
  \A s \in SessionIds :
    sessions[s].status = "failed" /\ sessions[s].event = "interrupted"
      => Retrying(sessions[s].trigger)

(***************************************************************************)
(* Once the handler of a deleted message is done, no reply of a session it *)
(* ever marked is in the stream or comes up again, though the turn may go  *)
(* on or the handler be run twice: doSendMessage looks at the session      *)
(* first. Excused are a turn that the mark overtook between that look and  *)
(* the insert, a catch block that overwrote the mark with "failed", after  *)
(* which a retry resumes the session and replies, and a reply whose        *)
(* deletion failed.                                                        *)
(***************************************************************************)
RepliesPurged ==
  holes \cap {"overtaken", "revived", "kept"} = {} =>
  \A s \in marked : deletion[sessions[s].trigger] = "done" => ~sessions[s].replied

(***************************************************************************)
(* Every user message comes to be taken into account by a reply, whoever   *)
(* was to see to it: a job of its own, the running turn or its follow-up,  *)
(* through crashes, retries and sweeps. Excused are deleted messages and   *)
(* those posted before the code dropped something: a turn stopped, denied  *)
(* or failed for good, a draft sent although messages had arrived, a       *)
(* redelivered job that finds its session completed and checks nothing, a  *)
(* session cut off under its turn, or swept with no job left to resume it. *)
(***************************************************************************)
MessageReached ==
  \A m \in Messages : (m <= posted) ~> (m <= Larger(answered, excused) \/ deletion[m] # "no")

(***************************************************************************)
(* A session never keeps the persona's only slot in the stream for good,   *)
(* while the listener leaves all messages to it: its turn ends, is resumed *)
(* or is swept.                                                            *)
(***************************************************************************)
SlotFreed == Running # {} ~> Running = {}
=============================================================================
