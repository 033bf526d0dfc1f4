----------------------- MODULE ScheduledMessagesProofs -----------------------
(* Proofs about ScheduledMessages, for any number of dialogs and workers and *)
(* clocks that differ by any Skew.                                           *)
EXTENDS ScheduledMessages, FiniteSetTheorems, TLAPS

-----------------------------------------------------------------------------
(* The inductive invariant.                                                  *)

(* What the row says of the message in the stream.  Only a failure after the *)
(* message was created leaves one behind a failed row.                       *)
RowTells ==
  /\ row.status = "none" => row = NoRow
  /\ row.status # "none" => row.content # 0 /\ row.job \in Jobs
  /\ message # NotSent => message = row.content /\ row.status \in {"sent", "failed"}
  /\ row.status = "sent" => message # NotSent
  /\ row.status = "failed" /\ message # NotSent => "late" \in Faults

(* No dialog believes in a fence that the row does not have. *)
FencesKept == row.status \in {"none", "pending"} => \A e \in Editors : ed[e].until <= row.fence

(* NOW() of a transaction is not ahead of the clock. *)
ReadsInPast == \A w \in Workers : work[w].phase = "read" => work[w].now <= clock

(* Who has the row's version has its text, its time and its job: every       *)
(* change of those moves the version.                                        *)
VersionTells ==
  /\ pub.version <= row.version
  /\ pub.version = row.version => pub.content = row.content
  /\ \A e \in Editors :
       /\ ed[e].version <= row.version
       /\ ed[e].version = row.version /\ ed[e].open => ed[e].adopted \/ ed[e].text = row.content
       /\ tx[e].version <= row.version
       /\ tx[e].version = row.version /\ tx[e].op = "update" =>
            /\ row.content < MaxSaves
            /\ tx[e].seenAt = row.at
            /\ tx[e].adopted \/ tx[e].text = row.content

(* A save makes at most one job. *)
UsedJobs == {j \in Jobs : jobs[j].state # "none"}
JobsCounted == Cardinality(UsedJobs) <= row.content

RetriesLeft == \A j \in Jobs : jobs[j].state \in {"waiting", "claimed"} => jobs[j].fails < MaxRetries

(* A worker's job exists, and was due by the clock of the process. *)
WorkersHoldJobs ==
  \A w \in Workers : work[w].phase # "idle" =>
    /\ work[w].job \in UsedJobs
    /\ work[w].phase = "claimed" => jobs[work[w].job].after <= work[w].at

ScheduleInv ==
  /\ TypeOK /\ RowTells /\ FencesKept /\ ReadsInPast /\ VersionTells
  /\ JobsCounted /\ RetriesLeft /\ WorkersHoldJobs /\ PendingHasJob

(* Types.                                                                    *)

RowRecords ==
  [status : {"none", "pending", "sent", "failed", "cancelled"}, content : Nat,
   version : Nat, at : Nat, fence : Nat, job : Jobs \cup {0}]
PubRecords == [content : Nat, version : Nat]
JobRecords ==
  [state : {"none", "waiting", "claimed", "done", "cancelled", "dead"},
   after : Nat, fails : 0..MaxRetries, holder : Workers \cup {NoWorker}]
DialogRecords == [open : BOOLEAN, text : Nat, version : Nat, until : Nat, adopted : BOOLEAN]
TxRecords ==
  [op : {"none", "lock", "update", "sendNow", "cancel"}, now : Nat, at : Nat, version : Nat,
   seenAt : Nat, seenJob : Jobs \cup {0}, text : Nat, adopted : BOOLEAN]
WorkRecords ==
  [phase : {"idle", "claimed", "read", "dropped", "contended"}, job : Jobs \cup {0},
   at : Nat, now : Nat]

LEMMA TypesOfState ==
  TypeOK <=> /\ clock \in 0..MaxClock /\ row \in RowRecords /\ message \in Nat
             /\ pub \in PubRecords /\ jobs \in [Jobs -> JobRecords]
             /\ ed \in [Editors -> DialogRecords] /\ tx \in [Editors -> TxRecords]
             /\ work \in [Workers -> WorkRecords] /\ troubles \in 0..MaxTroubles
BY DEF TypeOK, RowRecords, PubRecords, JobRecords, DialogRecords, TxRecords, WorkRecords

LEMMA TypesOfConstants ==
  /\ NoRow \in RowRecords /\ NoJob \in JobRecords /\ ClosedDialog \in DialogRecords
  /\ NoTx \in TxRecords /\ Idle \in WorkRecords
  /\ 1 \in Jobs /\ 0 \notin Jobs /\ \A j \in Jobs : j \in Nat
<1>1. MaxRetries \in Nat /\ MaxSaves \in Nat \ {0} BY ScheduleBoundsAssumption
<1>2. 1 \in Jobs /\ 0 \notin Jobs /\ \A j \in Jobs : j \in Nat BY <1>1 DEF Jobs
<1>3. NoRow \in RowRecords /\ ClosedDialog \in DialogRecords /\ NoTx \in TxRecords /\ Idle \in WorkRecords
  BY DEF NoRow, RowRecords, ClosedDialog, DialogRecords, NoTx, TxRecords, Idle, WorkRecords
<1>4. NoJob \in JobRecords BY <1>1 DEF NoJob, JobRecords
<1> QED BY <1>2, <1>3, <1>4

LEMMA ViewTypes ==
  ASSUME NEW r \in RowRecords
  PROVE  View(r) \in PubRecords /\ View(r).content = r.content /\ View(r).version = r.version
BY DEF View, RowRecords, PubRecords

(* What the statements make of a row. *)
LEMMA RowStarted ==
  ASSUME NEW r \in RowRecords, NEW s, s = Started(r)
  PROVE  s = [status |-> "sending", content |-> r.content, version |-> r.version + 1,
              at |-> r.at, fence |-> r.fence, job |-> r.job]
BY DEF Started, RowRecords

LEMMA RowSent ==
  ASSUME NEW r \in RowRecords, NEW s, s = MarkSent(Started(r))
  PROVE  /\ s \in RowRecords /\ s.status = "sent" /\ s.content = r.content /\ s.job = r.job
         /\ s.version > r.version
<1>1. PICK b : b = Started(r) OBVIOUS
<1>2. b = [status |-> "sending", content |-> r.content, version |-> r.version + 1,
           at |-> r.at, fence |-> r.fence, job |-> r.job]
  BY <1>1, RowStarted
<1>3. s = [status |-> "sent", content |-> r.content, version |-> r.version + 1 + 1,
           at |-> r.at, fence |-> 0, job |-> r.job]
  <2>1. s = MarkSent(b) BY <1>1
  <2>2. s = [b EXCEPT !.status = "sent", !.version = @ + 1, !.fence = 0] BY <2>1 DEF MarkSent
  <2> QED BY <1>2, <2>2
<1>4. r.version \in Nat BY DEF RowRecords
<1>5. r.version + 1 + 1 \in Nat /\ r.version + 1 + 1 > r.version BY <1>4
<1>6. s \in RowRecords BY <1>3, <1>5 DEF RowRecords
<1> QED BY <1>3, <1>5, <1>6

LEMMA RowFailed ==
  ASSUME NEW r \in RowRecords, r.status = "pending", NEW s \in {r, Started(r)}
  PROVE  /\ MarkFailed(s) \in RowRecords /\ MarkFailed(s).status = "failed"
         /\ MarkFailed(s).content = r.content /\ MarkFailed(s).job = r.job
         /\ MarkFailed(s).version > r.version
<1>1. PICK v \in {r.version + 1, r.version + 1 + 1} :
        MarkFailed(s) = [status |-> "failed", content |-> r.content, version |-> v,
                         at |-> r.at, fence |-> 0, job |-> r.job]
  <2>1. CASE s = r BY <2>1 DEF MarkFailed, RowRecords
  <2>2. CASE s = Started(r)
    <3>1. s = [status |-> "sending", content |-> r.content, version |-> r.version + 1,
               at |-> r.at, fence |-> r.fence, job |-> r.job]
      BY <2>2, RowStarted
    <3> QED BY <3>1 DEF MarkFailed
  <2> QED BY <2>1, <2>2
<1>2. r.version \in Nat BY DEF RowRecords
<1>3. v \in Nat /\ v > r.version BY <1>2
<1> QED BY <1>1, <1>3 DEF RowRecords

LEMMA RowSaved ==
  ASSUME TypeOK, NEW e \in Editors
  PROVE  /\ Saved(e) \in RowRecords /\ Saved(e).status = row.status
         /\ Saved(e).content = row.content + 1 /\ Saved(e).version = row.version + 1
         /\ Saved(e).at = tx[e].at /\ Saved(e).fence = row.fence /\ Saved(e).job = row.job
<1>1. row \in RowRecords /\ tx[e] \in TxRecords BY TypesOfState
<1>2. row.content + 1 \in Nat /\ row.version + 1 \in Nat /\ tx[e].at \in Nat
  BY <1>1 DEF RowRecords, TxRecords
<1> QED BY <1>1, <1>2 DEF Saved, RowRecords

LEMMA RowPinned ==
  ASSUME NEW r \in RowRecords, NEW j \in Jobs
  PROVE  /\ Pinned(r, j) \in RowRecords /\ Pinned(r, j).status = r.status
         /\ Pinned(r, j).content = r.content /\ Pinned(r, j).version = r.version + 1
         /\ Pinned(r, j).at = r.at /\ Pinned(r, j).fence = r.fence /\ Pinned(r, j).job = j
<1>1. r.version + 1 \in Nat BY DEF RowRecords
<1> QED BY <1>1 DEF Pinned, RowRecords

(* What they make of the jobs. *)
LEMMA JobsCancelled ==
  ASSUME NEW js \in [Jobs -> JobRecords], NEW j
  PROVE  /\ Cancelled(js, j) \in [Jobs -> JobRecords]
         /\ \A i \in Jobs :
              /\ Cancelled(js, j)[i].after = js[i].after /\ Cancelled(js, j)[i].fails = js[i].fails
              /\ Cancelled(js, j)[i].holder = js[i].holder
              /\ \/ Cancelled(js, j)[i].state = js[i].state
                 \/ js[i].state = "waiting" /\ Cancelled(js, j)[i].state = "cancelled"
<1>1. CASE js[j].state = "waiting"
  <2>1. Cancelled(js, j) = [js EXCEPT ![j].state = "cancelled"] BY <1>1 DEF Cancelled
  <2>2. ASSUME NEW i \in Jobs, i # j PROVE Cancelled(js, j)[i] = js[i] BY <2>1, <2>2
  <2>3. ASSUME j \in Jobs PROVE Cancelled(js, j)[j] = [js[j] EXCEPT !.state = "cancelled"]
    BY <2>1, <2>3
  <2>4. ASSUME j \in Jobs
        PROVE /\ Cancelled(js, j)[j] \in JobRecords
              /\ Cancelled(js, j)[j].after = js[j].after /\ Cancelled(js, j)[j].fails = js[j].fails
              /\ Cancelled(js, j)[j].holder = js[j].holder
              /\ Cancelled(js, j)[j].state = "cancelled"
    <3>1. js[j] \in JobRecords BY <2>4
    <3> QED BY <2>3, <2>4, <3>1 DEF JobRecords
  <2>5. \A i \in Jobs : Cancelled(js, j)[i] \in JobRecords BY <2>2, <2>4
  <2>6. Cancelled(js, j) \in [Jobs -> JobRecords] BY <2>1, <2>5
  <2> QED BY <1>1, <2>2, <2>4, <2>6
<1>2. CASE js[j].state # "waiting" BY <1>2 DEF Cancelled
<1> QED BY <1>1, <1>2

LEMMA JobsEnqueued ==
  ASSUME NEW js \in [Jobs -> JobRecords], NEW j \in Jobs, NEW r \in RowRecords
  PROVE  /\ Enqueued(js, j, r) \in [Jobs -> JobRecords]
         /\ \A i \in Jobs \ {j} : Enqueued(js, j, r)[i] = js[i]
         /\ Enqueued(js, j, r)[j].state = "waiting" /\ Enqueued(js, j, r)[j].after = r.at
         /\ Enqueued(js, j, r)[j].fails = 0 /\ Enqueued(js, j, r)[j].holder = NoWorker
<1> DEFINE new == [NoJob EXCEPT !.state = "waiting", !.after = r.at]
<1>1. /\ new \in JobRecords /\ new.state = "waiting" /\ new.after = r.at
      /\ new.fails = 0 /\ new.holder = NoWorker
  BY TypesOfConstants DEF JobRecords, NoJob, RowRecords
<1>2. Enqueued(js, j, r) = [js EXCEPT ![j] = new] BY DEF Enqueued
<1> HIDE DEF new
<1> QED BY <1>1, <1>2

(* A save that makes a job finds one that was never used. *)
LEMMA FreshJobExists ==
  ASSUME TypeOK, JobsCounted, row.content < MaxSaves
  PROVE  FreshJob \in Jobs /\ jobs[FreshJob].state = "none"
<1>1. MaxSaves \in Nat /\ row.content \in Nat BY ScheduleBoundsAssumption DEF TypeOK
<1>2. IsFiniteSet(Jobs) /\ Cardinality(Jobs) = MaxSaves
  BY <1>1, FS_Interval DEF Jobs
<1>3. \E j \in Jobs : jobs[j].state = "none"
  <2> SUFFICES ASSUME \A j \in Jobs : jobs[j].state # "none" PROVE FALSE OBVIOUS
  <2>1. UsedJobs = Jobs BY DEF UsedJobs
  <2> QED BY <1>1, <1>2, <2>1 DEF JobsCounted
<1> QED BY <1>3 DEF FreshJob

-----------------------------------------------------------------------------
(* The kinds of step.                                                        *)

(* What a dialog, or a request, knows of the row as it is now. *)
DialogKnows(d) ==
  /\ d.version <= row.version
  /\ d.version = row.version /\ d.open => d.adopted \/ d.text = row.content
RequestKnows(x) ==
  /\ x.version <= row.version
  /\ x.version = row.version /\ x.op = "update" =>
       /\ row.content < MaxSaves
       /\ x.seenAt = row.at
       /\ x.adopted \/ x.text = row.content

LEMMA EveryoneKnows ==
  VersionTells <=> /\ pub.version <= row.version
                   /\ pub.version = row.version => pub.content = row.content
                   /\ \A e \in Editors : DialogKnows(ed[e]) /\ RequestKnows(tx[e])
BY DEF VersionTells, DialogKnows, RequestKnows

(* A dialog or a request moves; of the row at most the fence. *)
LEMMA ClientStep ==
  ASSUME ScheduleInv, UNCHANGED <<clock, message, pub, jobs, work, troubles>>,
         row' \in RowRecords, row.status = "none" => row' = row,
         row'.status = row.status, row'.content = row.content, row'.version = row.version,
         row'.at = row.at, row'.job = row.job,
         ed' \in [Editors -> DialogRecords], tx' \in [Editors -> TxRecords],
         \A e \in Editors : ed'[e].until <= row'.fence \/ row.status \notin {"none", "pending"},
         \A e \in Editors : DialogKnows(ed'[e]) /\ RequestKnows(tx'[e])
  PROVE  ScheduleInv'
<1>1. TypeOK' BY TypesOfState DEF ScheduleInv, TypeOK, RowRecords, DialogRecords, TxRecords
<1>2. RowTells' BY DEF ScheduleInv, RowTells
<1>3. FencesKept' BY DEF FencesKept
<1>4. VersionTells'
  BY DEF ScheduleInv, VersionTells, DialogKnows, RequestKnows
<1>5. (ReadsInPast /\ JobsCounted /\ RetriesLeft /\ WorkersHoldJobs)'
  BY DEF ScheduleInv, ReadsInPast, JobsCounted, RetriesLeft, WorkersHoldJobs, UsedJobs
<1>6. PendingHasJob' BY DEF ScheduleInv, PendingHasJob
<1> QED BY <1>1, <1>2, <1>3, <1>4, <1>5, <1>6 DEF ScheduleInv

(* A request ends without an effect, or a worker moves on. *)
LEMMA WorkStep ==
  ASSUME ScheduleInv, UNCHANGED <<clock, row, message, jobs, ed>>,
         pub' = pub \/ pub' = View(row), troubles' \in 0..MaxTroubles,
         tx' \in [Editors -> TxRecords], \A e \in Editors : tx'[e] = tx[e] \/ tx'[e] = NoTx,
         work' \in [Workers -> WorkRecords],
         \A w \in Workers :
           \/ work'[w] = work[w] \/ work'[w].phase = "idle"
           \/ /\ work[w].phase # "idle" /\ work'[w].job = work[w].job
              /\ work'[w].phase \in {"read", "dropped", "contended"}
              /\ work'[w].phase = "read" => work'[w].now <= clock
              /\ work'[w].phase = "dropped" => row.status # "pending" \/ work[w].job # row.job
  PROVE  ScheduleInv'
<1>0. TypeOK /\ row \in RowRecords BY TypesOfState DEF ScheduleInv
<1>1. pub' \in PubRecords BY <1>0, TypesOfState, ViewTypes
<1>2. TypeOK' BY <1>0, <1>1 DEF TypeOK, PubRecords, TxRecords, WorkRecords
<1>3. RowTells' /\ FencesKept' /\ JobsCounted' /\ RetriesLeft'
  BY DEF ScheduleInv, RowTells, FencesKept, JobsCounted, UsedJobs, RetriesLeft
<1>4. ReadsInPast' BY DEF ScheduleInv, ReadsInPast
<1>5. VersionTells'
  <2>1. NoTx.version = 0 /\ NoTx.op = "none" BY DEF NoTx
  <2>2. row.version \in Nat BY <1>0 DEF RowRecords
  <2>3. pub'.version <= row.version /\ (pub'.version = row.version => pub'.content = row.content)
    <3>1. CASE pub' = pub BY <3>1 DEF ScheduleInv, VersionTells
    <3>2. CASE pub' = View(row) BY <1>0, <2>2, <3>2, ViewTypes
    <3> QED BY <3>1, <3>2
  <2>4. ASSUME NEW e \in Editors PROVE DialogKnows(ed[e]) /\ RequestKnows(tx'[e])
    <3>1. DialogKnows(ed[e]) /\ RequestKnows(tx[e]) BY EveryoneKnows DEF ScheduleInv
    <3>2. RequestKnows(NoTx) BY <2>1, <2>2 DEF RequestKnows
    <3> QED BY <3>1, <3>2
  <2> QED BY <2>3, <2>4 DEF VersionTells, DialogKnows, RequestKnows
<1>6. WorkersHoldJobs' BY DEF ScheduleInv, WorkersHoldJobs, UsedJobs
<1>7. PendingHasJob'
  <2> SUFFICES ASSUME row.status = "pending", NEW w \in Workers, work'[w].phase = "dropped",
                      work'[w].job = row.job, jobs[row.job].holder = w
               PROVE  FALSE
    BY DEF ScheduleInv, PendingHasJob
  <2> QED BY DEF ScheduleInv, PendingHasJob
<1> QED BY <1>2, <1>3, <1>4, <1>5, <1>6, <1>7 DEF ScheduleInv

(* Jobs that stay, but for a waiting one that may be cancelled. *)
JobsKept ==
  \A i \in Jobs :
    /\ jobs'[i].after = jobs[i].after /\ jobs'[i].fails = jobs[i].fails
    /\ jobs'[i].holder = jobs[i].holder
    /\ \/ jobs'[i].state = jobs[i].state
       \/ jobs[i].state = "waiting" /\ jobs'[i].state = "cancelled"

(* A pending row is settled. *)
LEMMA SettleStep ==
  ASSUME ScheduleInv, row.status = "pending", UNCHANGED <<clock, ed>>,
         row' \in RowRecords, row'.status \in {"sent", "failed", "cancelled"},
         row'.job = row.job, row'.version > row.version,
         row'.content \in {row.content, row.content + 1},
         message' = row'.content \/ message' = NotSent,
         row'.status = "sent" => message' = row'.content,
         row'.status = "failed" /\ message' # NotSent => "late" \in Faults,
         row'.status = "cancelled" => message' = NotSent,
         pub' = pub \/ pub' = View(row'), troubles' \in 0..MaxTroubles,
         jobs' \in [Jobs -> JobRecords], JobsKept,
         tx' \in [Editors -> TxRecords], \A e \in Editors : tx'[e] = tx[e] \/ tx'[e] = NoTx,
         work' \in [Workers -> WorkRecords],
         \A w \in Workers : \/ work'[w] = work[w]
                            \/ /\ work[w].phase # "idle" /\ work'[w].job = work[w].job
                               /\ work'[w].phase = "dropped"
  PROVE  ScheduleInv'
<1>0. /\ TypeOK /\ row \in RowRecords /\ row.content \in Nat /\ row.version \in Nat
      /\ row'.version \in Nat /\ row'.content \in Nat
  BY TypesOfState DEF ScheduleInv, RowRecords
<1>1. pub' \in PubRecords BY <1>0, TypesOfState, ViewTypes
<1>2. TypeOK'
  <2>1. message' \in Nat BY <1>0 DEF NotSent
  <2> QED BY <1>0, <1>1, <2>1
          DEF TypeOK, RowRecords, PubRecords, JobRecords, TxRecords, WorkRecords
<1>3. RowTells'
  <2>1. row.content # 0 /\ row.job \in Jobs BY DEF ScheduleInv, RowTells
  <2>2. row'.content # 0 BY <1>0, <2>1
  <2> QED BY <2>1, <2>2 DEF RowTells, NotSent
<1>4. FencesKept' /\ PendingHasJob' BY DEF FencesKept, PendingHasJob
<1>5. ReadsInPast' BY DEF ScheduleInv, ReadsInPast
<1>6. VersionTells'
  <2>1. pub'.version <= row'.version /\ (pub'.version = row'.version => pub'.content = row'.content)
    <3>1. CASE pub' = pub
      <4>1. pub.version \in Nat /\ pub.version <= row.version
        BY <1>0, TypesOfState DEF ScheduleInv, VersionTells, PubRecords
      <4> QED BY <1>0, <3>1, <4>1
    <3>2. CASE pub' = View(row') BY <1>0, <3>2, ViewTypes
    <3> QED BY <3>1, <3>2
  <2>2. ASSUME NEW e \in Editors
        PROVE  /\ ed[e].version <= row'.version /\ ed[e].version # row'.version
               /\ tx'[e].version <= row'.version /\ tx'[e].version # row'.version
    <3>1. ed[e].version \in Nat /\ tx[e].version \in Nat
      BY <1>0, TypesOfState DEF DialogRecords, TxRecords
    <3>2. ed[e].version <= row.version /\ tx[e].version <= row.version
      BY DEF ScheduleInv, VersionTells
    <3>3. NoTx.version = 0 BY DEF NoTx
    <3> QED BY <1>0, <3>1, <3>2, <3>3
  <2> QED BY <2>1, <2>2 DEF VersionTells
<1>7. UsedJobs' = UsedJobs BY DEF UsedJobs, JobsKept
<1>8. JobsCounted'
  <2>1. IsFiniteSet(Jobs) BY ScheduleBoundsAssumption, FS_Interval DEF Jobs
  <2>2. Cardinality(UsedJobs) \in Nat
    BY <2>1, FS_Subset, FS_CardinalityType DEF UsedJobs
  <2>3. Cardinality(UsedJobs) <= row.content BY DEF ScheduleInv, JobsCounted
  <2>4. Cardinality(UsedJobs) <= row'.content BY <1>0, <2>2, <2>3
  <2> QED BY <1>7, <2>4 DEF JobsCounted
<1>9. RetriesLeft' BY DEF ScheduleInv, RetriesLeft, JobsKept
<1>10. WorkersHoldJobs'
  <2> SUFFICES ASSUME NEW w \in Workers, work'[w].phase # "idle"
               PROVE  /\ work'[w].job \in UsedJobs
                      /\ work'[w].phase = "claimed" => jobs'[work'[w].job].after <= work'[w].at
    BY <1>7 DEF WorkersHoldJobs
  <2>1. work'[w].job = work[w].job /\ work[w].phase # "idle" OBVIOUS
  <2>2. work[w].job \in UsedJobs /\ work[w].job \in Jobs
    BY <2>1 DEF ScheduleInv, WorkersHoldJobs, UsedJobs
  <2>3. jobs'[work[w].job].after = jobs[work[w].job].after BY <2>2 DEF JobsKept
  <2> QED BY <2>1, <2>2, <2>3 DEF ScheduleInv, WorkersHoldJobs
<1> QED BY <1>2, <1>3, <1>4, <1>5, <1>6, <1>8, <1>9, <1>10 DEF ScheduleInv

LEMMA UsedJobsFinite ==
  /\ IsFiniteSet(UsedJobs) /\ Cardinality(UsedJobs) \in Nat
  /\ IsFiniteSet(UsedJobs') /\ Cardinality(UsedJobs') \in Nat
<1>1. IsFiniteSet(Jobs) BY ScheduleBoundsAssumption, FS_Interval DEF Jobs
<1>2. UsedJobs \in SUBSET Jobs /\ UsedJobs' \in SUBSET Jobs BY DEF UsedJobs
<1> QED BY <1>1, <1>2, FS_Subset, FS_CardinalityType

(* A save: the version moves, and whoever has an older one lags behind. *)
LEMMA SaveKnown ==
  ASSUME ScheduleInv, row.status = "pending", row' \in RowRecords, row'.version > row.version,
         pub' \in PubRecords, pub'.version <= row'.version, pub'.content = row'.content,
         UNCHANGED ed,
         tx' \in [Editors -> TxRecords], \A e \in Editors : tx'[e] = tx[e] \/ tx'[e] = NoTx
  PROVE  VersionTells'
<1>0. /\ TypeOK /\ row \in RowRecords /\ row.version \in Nat /\ row'.version \in Nat
  BY TypesOfState DEF ScheduleInv, RowRecords
<1>1. ASSUME NEW e \in Editors
      PROVE  /\ ed[e].version <= row'.version /\ ed[e].version # row'.version
             /\ tx'[e].version <= row'.version /\ tx'[e].version # row'.version
  <2>1. ed[e].version \in Nat /\ tx[e].version \in Nat
    BY <1>0, TypesOfState DEF DialogRecords, TxRecords
  <2>2. ed[e].version <= row.version /\ tx[e].version <= row.version
    BY DEF ScheduleInv, VersionTells
  <2>3. NoTx.version = 0 BY DEF NoTx
  <2> QED BY <1>0, <2>1, <2>2, <2>3
<1> QED BY <1>1 DEF VersionTells

(* A save that leaves the time leaves the job. *)
LEMMA SaveInPlace ==
  ASSUME ScheduleInv, row.status = "pending", UNCHANGED <<clock, message, jobs, ed, work, troubles>>,
         row' \in RowRecords, row'.status = "pending", row'.content = row.content + 1,
         row'.version > row.version, row'.fence = row.fence,
         row'.at = row.at, row'.job = row.job,
         pub' \in PubRecords, pub'.version <= row'.version, pub'.content = row'.content,
         tx' \in [Editors -> TxRecords], \A e \in Editors : tx'[e] = tx[e] \/ tx'[e] = NoTx
  PROVE  ScheduleInv'
<1>0. /\ TypeOK /\ row \in RowRecords /\ row.content \in Nat BY TypesOfState DEF ScheduleInv, RowRecords
<1>1. TypeOK' BY <1>0 DEF TypeOK, RowRecords, PubRecords, TxRecords
<1>2. RowTells'
  <2>1. message = NotSent /\ row.job \in Jobs BY DEF ScheduleInv, RowTells
  <2>2. row'.content # 0 BY <1>0
  <2> QED BY <2>1, <2>2 DEF RowTells
<1>3. FencesKept' BY DEF ScheduleInv, FencesKept
<1>4. ReadsInPast' /\ RetriesLeft' /\ WorkersHoldJobs'
  BY DEF ScheduleInv, ReadsInPast, RetriesLeft, WorkersHoldJobs, UsedJobs
<1>5. VersionTells' BY SaveKnown
<1>6. JobsCounted'
  <2>1. UsedJobs' = UsedJobs BY DEF UsedJobs
  <2>2. Cardinality(UsedJobs) <= row'.content
    BY <1>0, UsedJobsFinite DEF ScheduleInv, JobsCounted
  <2> QED BY <2>1, <2>2 DEF JobsCounted
<1>7. PendingHasJob' BY DEF ScheduleInv, PendingHasJob
<1> QED BY <1>1, <1>2, <1>3, <1>4, <1>5, <1>6, <1>7 DEF ScheduleInv

(* One that moves it has a fresh job, which no worker has ever had. *)
LEMMA SaveMoved ==
  ASSUME ScheduleInv, row.status = "pending", UNCHANGED <<clock, message, ed, work, troubles>>,
         row' \in RowRecords, row'.status = "pending", row'.content = row.content + 1,
         row'.version > row.version, row'.fence = row.fence,
         NEW f \in Jobs, jobs[f].state = "none", row'.job = f,
         jobs' \in [Jobs -> JobRecords],
         jobs'[f].state = "waiting", jobs'[f].after = row'.at, jobs'[f].fails = 0,
         jobs'[f].holder = NoWorker,
         \A i \in Jobs \ {f} :
           /\ jobs'[i].after = jobs[i].after /\ jobs'[i].fails = jobs[i].fails
           /\ \/ jobs'[i].state = jobs[i].state
              \/ jobs[i].state = "waiting" /\ jobs'[i].state = "cancelled",
         pub' \in PubRecords, pub'.version <= row'.version, pub'.content = row'.content,
         tx' \in [Editors -> TxRecords], \A e \in Editors : tx'[e] = tx[e] \/ tx'[e] = NoTx
  PROVE  ScheduleInv'
<1>0. /\ TypeOK /\ row \in RowRecords /\ row.content \in Nat BY TypesOfState DEF ScheduleInv, RowRecords
<1>1. TypeOK' BY <1>0 DEF TypeOK, RowRecords, PubRecords, TxRecords, JobRecords
<1>2. RowTells'
  <2>1. message = NotSent BY DEF ScheduleInv, RowTells
  <2>2. row'.content # 0 BY <1>0
  <2> QED BY <2>1, <2>2 DEF RowTells
<1>3. FencesKept' /\ ReadsInPast' BY DEF ScheduleInv, FencesKept, ReadsInPast
<1>4. VersionTells' BY SaveKnown
<1>5. UsedJobs' = UsedJobs \cup {f} /\ f \notin UsedJobs BY DEF UsedJobs
<1>6. JobsCounted'
  <2>1. Cardinality(UsedJobs') = Cardinality(UsedJobs) + 1 BY <1>5, UsedJobsFinite, FS_AddElement
  <2>2. Cardinality(UsedJobs) <= row.content BY DEF ScheduleInv, JobsCounted
  <2>3. Cardinality(UsedJobs') <= row'.content BY <1>0, <2>1, <2>2, UsedJobsFinite
  <2> QED BY <2>3 DEF JobsCounted
<1>7. RetriesLeft'
  <2>1. 0 < MaxRetries BY ScheduleBoundsAssumption
  <2> QED BY <2>1 DEF ScheduleInv, RetriesLeft
<1>8. ASSUME NEW w \in Workers, work[w].phase # "idle" PROVE work[w].job \in UsedJobs /\ work[w].job # f
  BY <1>5, <1>8 DEF ScheduleInv, WorkersHoldJobs
<1>9. WorkersHoldJobs'
  <2> SUFFICES ASSUME NEW w \in Workers, work[w].phase # "idle"
               PROVE  /\ work[w].job \in UsedJobs'
                      /\ work[w].phase = "claimed" => jobs'[work[w].job].after <= work[w].at
    BY DEF WorkersHoldJobs
  <2>1. work[w].job \in Jobs \ {f} BY <1>8 DEF UsedJobs
  <2> QED BY <1>5, <1>8, <2>1 DEF ScheduleInv, WorkersHoldJobs
<1>10. PendingHasJob' BY NoWorkerAssumption DEF PendingHasJob
<1> QED BY <1>1, <1>2, <1>3, <1>4, <1>6, <1>7, <1>9, <1>10 DEF ScheduleInv

LEMMA ScheduleStep ==
  ASSUME ScheduleInv, NEW t \in Times, Schedule(t)
  PROVE  ScheduleInv'
<1>0. /\ TypeOK /\ jobs \in [Jobs -> JobRecords] /\ clock \in Nat
      /\ row = NoRow /\ row.status = "none" /\ 1 \in Jobs
      /\ MinOffset \in Nat /\ t \in Nat
  BY TypesOfState, TypesOfConstants, ScheduleTimesAssumption DEF ScheduleInv, RowTells, Schedule
<1>1. PICK n \in AppNow :
        LET at == IF t < n + MinOffset THEN n + MinOffset ELSE t
            r  == Pinned([NoRow EXCEPT !.status = "pending", !.content = 1,
                                       !.version = 1, !.at = at], 1)
        IN  row' = r /\ pub' = View(r) /\ jobs' = Enqueued(jobs, 1, r)
  BY DEF Schedule
<1> DEFINE at == IF t < n + MinOffset THEN n + MinOffset ELSE t
           fresh == [NoRow EXCEPT !.status = "pending", !.content = 1, !.version = 1, !.at = at]
<1>2. at \in Nat BY <1>0 DEF AppNow
<1>3. /\ fresh \in RowRecords /\ fresh.status = "pending" /\ fresh.content = 1 /\ fresh.version = 1
      /\ fresh.fence = 0
  <2> HIDE DEF at
  <2> QED BY <1>2, TypesOfConstants DEF NoRow, RowRecords
<1>4. row' = Pinned(fresh, 1) /\ pub' = View(row') /\ jobs' = Enqueued(jobs, 1, row')
  BY <1>1
<1> HIDE DEF fresh, at
<1>5. /\ row' \in RowRecords /\ row'.status = "pending" /\ row'.content = 1 /\ row'.version = 2
      /\ row'.job = 1 /\ row'.fence = 0
  BY <1>0, <1>3, <1>4, RowPinned
<1>6. pub' \in PubRecords /\ pub'.content = row'.content /\ pub'.version = row'.version
  BY <1>4, <1>5, ViewTypes
<1>7. /\ jobs' \in [Jobs -> JobRecords] /\ jobs'[1].state = "waiting" /\ jobs'[1].after = row'.at
      /\ jobs'[1].fails = 0 /\ jobs'[1].holder = NoWorker
      /\ \A i \in Jobs \ {1} : jobs'[i] = jobs[i]
  BY <1>0, <1>4, <1>5, JobsEnqueued
<1>8. /\ UNCHANGED <<clock, message, ed, tx, work, troubles>> BY DEF Schedule
<1>9. UsedJobs = {}
  <2>1. Cardinality(UsedJobs) <= 0 BY <1>0 DEF ScheduleInv, JobsCounted, NoRow
  <2>2. Cardinality(UsedJobs) = 0 BY <2>1, UsedJobsFinite
  <2> QED BY <2>2, UsedJobsFinite, FS_EmptySet
<1>10. TypeOK' BY <1>0, <1>5, <1>6, <1>7, <1>8 DEF TypeOK, RowRecords, PubRecords, JobRecords
<1>11. RowTells'
  <2>1. message = NotSent BY <1>0 DEF ScheduleInv, RowTells
  <2> QED BY <1>0, <1>5, <1>8, <2>1 DEF RowTells
<1>12. FencesKept'
  <2>1. \A e \in Editors : ed[e].until <= 0 BY <1>0 DEF ScheduleInv, FencesKept, NoRow
  <2> QED BY <1>5, <1>8, <2>1 DEF FencesKept
<1>13. ReadsInPast' BY <1>8 DEF ScheduleInv, ReadsInPast
<1>14. VersionTells'
  <2>1. ASSUME NEW e \in Editors
        PROVE  ed[e].version <= 0 /\ tx[e].version <= 0 /\ ed[e].version \in Nat /\ tx[e].version \in Nat
    BY <1>0, TypesOfState DEF ScheduleInv, VersionTells, NoRow, DialogRecords, TxRecords
  <2> QED BY <1>5, <1>6, <1>8, <2>1 DEF VersionTells
<1>15. JobsCounted'
  <2>1. UsedJobs' = {1} BY <1>0, <1>7, <1>9 DEF UsedJobs
  <2> QED BY <1>5, <2>1, FS_Singleton DEF JobsCounted
<1>16. RetriesLeft'
  <2>1. 0 < MaxRetries BY ScheduleBoundsAssumption
  <2> QED BY <1>7, <2>1 DEF ScheduleInv, RetriesLeft
<1>17. \A w \in Workers : work[w].phase = "idle" BY <1>9 DEF ScheduleInv, WorkersHoldJobs
<1>18. WorkersHoldJobs' BY <1>8, <1>17 DEF WorkersHoldJobs
<1>19. PendingHasJob' BY <1>5, <1>7, <1>8, <1>17 DEF PendingHasJob
<1> QED BY <1>10, <1>11, <1>12, <1>13, <1>14, <1>15, <1>16, <1>18, <1>19 DEF ScheduleInv

(* The queue: a claim of a job that is due, and the report of its outcome. *)
LEMMA ClaimStep ==
  ASSUME ScheduleInv, NEW w \in Workers, NEW j \in Jobs, Claim(w, j)
  PROVE  ScheduleInv'
<1>0. /\ TypeOK /\ jobs \in [Jobs -> JobRecords] /\ work \in [Workers -> WorkRecords]
      /\ UNCHANGED <<clock, row, message, pub, ed, tx, troubles>>
      /\ work[w].phase = "idle" /\ jobs[j].state \in {"waiting", "claimed"}
  BY TypesOfState DEF ScheduleInv, Claim
<1>1. PICK n \in AppNow :
        /\ jobs[j].after <= n
        /\ work' = [work EXCEPT ![w] = [phase |-> "claimed", job |-> j, at |-> n, now |-> 0]]
  BY DEF Claim
<1>2. n \in Nat BY DEF AppNow
<1>3. /\ jobs'[j].state = "claimed" /\ jobs'[j].holder = w
      /\ jobs'[j].after = jobs[j].after /\ jobs'[j].fails = jobs[j].fails
      /\ \A i \in Jobs \ {j} : jobs'[i] = jobs[i]
      /\ jobs' \in [Jobs -> JobRecords]
  <2>1. jobs' = [jobs EXCEPT ![j] = [jobs[j] EXCEPT !.state = "claimed", !.holder = w]]
    BY <1>0 DEF Claim
  <2> DEFINE new == [jobs[j] EXCEPT !.state = "claimed", !.holder = w]
  <2>2. /\ new \in JobRecords /\ new.state = "claimed" /\ new.holder = w
        /\ new.after = jobs[j].after /\ new.fails = jobs[j].fails
    BY <1>0 DEF JobRecords
  <2>3. jobs' = [jobs EXCEPT ![j] = new] BY <2>1
  <2> HIDE DEF new
  <2> QED BY <1>0, <2>2, <2>3
<1>4. /\ work'[w].phase = "claimed" /\ work'[w].job = j /\ work'[w].at = n
      /\ \A v \in Workers \ {w} : work'[v] = work[v]
      /\ work' \in [Workers -> WorkRecords]
  BY <1>0, <1>1, <1>2 DEF WorkRecords
<1>5. TypeOK' BY <1>0, <1>3, <1>4 DEF TypeOK, JobRecords, WorkRecords
<1>6. RowTells' /\ FencesKept' /\ VersionTells'
  BY <1>0 DEF ScheduleInv, RowTells, FencesKept, VersionTells
<1>7. ReadsInPast' BY <1>0, <1>4 DEF ScheduleInv, ReadsInPast
<1>8. UsedJobs' = UsedJobs /\ j \in UsedJobs BY <1>0, <1>3 DEF UsedJobs
<1>9. JobsCounted' BY <1>0, <1>8 DEF ScheduleInv, JobsCounted
<1>10. RetriesLeft' BY <1>0, <1>3 DEF ScheduleInv, RetriesLeft
<1>11. \A i \in Jobs : jobs'[i].after = jobs[i].after BY <1>3
<1>12. WorkersHoldJobs'
  <2> SUFFICES ASSUME NEW v \in Workers, work'[v].phase # "idle"
               PROVE  /\ work'[v].job \in UsedJobs
                      /\ work'[v].phase = "claimed" => jobs'[work'[v].job].after <= work'[v].at
    BY <1>8 DEF WorkersHoldJobs
  <2>1. CASE v = w BY <1>1, <1>3, <1>4, <1>8, <2>1
  <2>2. CASE v # w
    <3>1. work'[v] = work[v] /\ work[v].job \in UsedJobs
      BY <1>4, <2>2 DEF ScheduleInv, WorkersHoldJobs
    <3>2. work[v].job \in Jobs BY <3>1 DEF UsedJobs
    <3> QED BY <1>11, <3>1, <3>2 DEF ScheduleInv, WorkersHoldJobs
  <2> QED BY <2>1, <2>2
<1>13. PendingHasJob'
  <2> SUFFICES ASSUME row.status = "pending"
               PROVE  /\ jobs'[row.job].state \in {"waiting", "claimed", "dead"}
                      /\ jobs'[row.job].after = row.at
                      /\ \A v \in Workers : ~(work'[v].phase = "dropped" /\ work'[v].job = row.job
                                                /\ jobs'[row.job].holder = v)
    BY <1>0 DEF PendingHasJob
  <2>1. row.job \in Jobs BY DEF ScheduleInv, RowTells
  <2>2. /\ jobs[row.job].state \in {"waiting", "claimed", "dead"} /\ jobs[row.job].after = row.at
        /\ \A v \in Workers : ~(work[v].phase = "dropped" /\ work[v].job = row.job
                                  /\ jobs[row.job].holder = v)
    BY DEF ScheduleInv, PendingHasJob
  <2>3. CASE row.job = j BY <1>3, <1>4, <2>2, <2>3
  <2>4. CASE row.job # j BY <1>3, <1>4, <2>1, <2>2, <2>4
  <2> QED BY <2>3, <2>4
<1> QED BY <1>5, <1>6, <1>7, <1>9, <1>10, <1>12, <1>13 DEF ScheduleInv

LEMMA JobRetried ==
  ASSUME NEW job \in JobRecords, NEW state, NEW holder, NEW new,
         new = [job EXCEPT !.fails = @ + 1, !.holder = holder, !.state = state]
  PROVE  new = [state |-> state, after |-> job.after, fails |-> job.fails + 1, holder |-> holder]
BY DEF JobRecords

LEMMA ReportStep ==
  ASSUME ScheduleInv, NEW w \in Workers, Report(w)
  PROVE  ScheduleInv'
<1> DEFINE j == work[w].job
<1>0. /\ TypeOK /\ jobs \in [Jobs -> JobRecords] /\ work \in [Workers -> WorkRecords]
      /\ UNCHANGED <<clock, row, message, pub, ed, tx, troubles>>
      /\ work[w].phase \in {"dropped", "contended"} /\ work' = [work EXCEPT ![w] = Idle]
  BY TypesOfState DEF ScheduleInv, Report
<1>1. j \in UsedJobs /\ j \in Jobs BY <1>0 DEF ScheduleInv, WorkersHoldJobs, UsedJobs
<1>2. /\ work' \in [Workers -> WorkRecords] /\ work'[w].phase = "idle"
      /\ \A v \in Workers \ {w} : work'[v] = work[v]
  BY <1>0, TypesOfConstants DEF Idle
<1>3. CASE jobs' = jobs
  <2>1. TypeOK' BY <1>0, <1>2, <1>3 DEF TypeOK, WorkRecords
  <2>2. RowTells' /\ FencesKept' /\ VersionTells' /\ JobsCounted' /\ RetriesLeft'
    BY <1>0, <1>3 DEF ScheduleInv, RowTells, FencesKept, VersionTells, JobsCounted, RetriesLeft,
                      UsedJobs
  <2>3. ReadsInPast' /\ WorkersHoldJobs' /\ PendingHasJob'
    BY <1>0, <1>2, <1>3 DEF ScheduleInv, ReadsInPast, WorkersHoldJobs, PendingHasJob, UsedJobs
  <2> QED BY <2>1, <2>2, <2>3 DEF ScheduleInv
<1>4. CASE jobs' # jobs
  <2>0. jobs[j].state = "claimed" /\ jobs[j].holder = w BY <1>4 DEF Report
  <2>1. jobs[j] \in JobRecords /\ jobs[j].fails < MaxRetries
    BY <1>0, <1>1, <2>0 DEF ScheduleInv, RetriesLeft
  <2>2. MaxRetries \in Nat /\ jobs[j].fails \in 0..MaxRetries
    BY <2>1, ScheduleBoundsAssumption DEF JobRecords
  <2> DEFINE over == [jobs[j] EXCEPT !.state = "done"]
             again == [jobs[j] EXCEPT !.fails = @ + 1, !.holder = NoWorker,
                         !.state = IF jobs[j].fails + 1 >= MaxRetries THEN "dead" ELSE "waiting"]
  <2>3. /\ over \in JobRecords /\ over.state = "done" /\ over.after = jobs[j].after
    BY <2>1 DEF JobRecords
  <2>4. /\ again \in JobRecords /\ again.state \in {"dead", "waiting"} /\ again.after = jobs[j].after
        /\ again.holder = NoWorker
        /\ again.state = "waiting" => again.fails < MaxRetries
    <3>1. jobs[j].fails + 1 \in 0..MaxRetries BY <2>1, <2>2
    <3>2. again = [state |-> IF jobs[j].fails + 1 >= MaxRetries THEN "dead" ELSE "waiting",
                   after |-> jobs[j].after, fails |-> jobs[j].fails + 1, holder |-> NoWorker]
      BY <2>1, JobRetried
    <3>3. jobs[j].after \in Nat BY <2>1 DEF JobRecords
    <3> HIDE DEF again
    <3>4. /\ again.state = IF jobs[j].fails + 1 >= MaxRetries THEN "dead" ELSE "waiting"
          /\ again.after = jobs[j].after /\ again.holder = NoWorker
          /\ again.fails = jobs[j].fails + 1
      BY <3>2
    <3>5. again.state = "waiting" => again.fails < MaxRetries BY <2>2, <3>1, <3>4
    <3>6. again \in JobRecords BY <3>1, <3>2, <3>3 DEF JobRecords
    <3> QED BY <3>4, <3>5, <3>6
  <2>5. \/ work[w].phase = "dropped" /\ jobs' = [jobs EXCEPT ![j] = over]
        \/ work[w].phase = "contended" /\ jobs' = [jobs EXCEPT ![j] = again]
    BY <1>0, <1>1, <2>0 DEF Report
  <2> HIDE DEF over, again, j
  <2>6. PICK new \in {over, again} :
          /\ jobs' = [jobs EXCEPT ![j] = new]
          /\ new = over => work[w].phase = "dropped"
    BY <2>3, <2>4, <2>5
  <2>7. /\ new \in JobRecords /\ new.after = jobs[j].after
        /\ new.state \in {"done", "dead", "waiting"}
        /\ new.state = "done" => work[w].phase = "dropped"
        /\ new.state # "done" => new.holder = NoWorker
        /\ new.state = "waiting" => new.fails < MaxRetries
    BY <2>3, <2>4, <2>6
  <2>8. /\ jobs' \in [Jobs -> JobRecords] /\ jobs'[j] = new
        /\ \A i \in Jobs \ {j} : jobs'[i] = jobs[i]
    BY <1>0, <1>1, <2>6, <2>7
  <2>9. TypeOK' BY <1>0, <1>2, <2>8 DEF TypeOK, JobRecords, WorkRecords
  <2>10. RowTells' /\ FencesKept' /\ VersionTells'
    BY <1>0 DEF ScheduleInv, RowTells, FencesKept, VersionTells
  <2>11. ReadsInPast' BY <1>0, <1>2 DEF ScheduleInv, ReadsInPast
  <2>12. UsedJobs' = UsedJobs BY <1>1, <2>7, <2>8 DEF UsedJobs
  <2>13. JobsCounted' BY <1>0, <2>12 DEF ScheduleInv, JobsCounted
  <2>14. RetriesLeft' BY <2>7, <2>8 DEF ScheduleInv, RetriesLeft
  <2>15. \A i \in Jobs : jobs'[i].after = jobs[i].after BY <1>1, <2>7, <2>8
  <2>16. WorkersHoldJobs'
    <3> SUFFICES ASSUME NEW v \in Workers, work'[v].phase # "idle"
                 PROVE  /\ work'[v].job \in UsedJobs
                        /\ work'[v].phase = "claimed" => jobs'[work'[v].job].after <= work'[v].at
      BY <2>12 DEF WorkersHoldJobs
    <3>1. work'[v] = work[v] /\ work[v].job \in UsedJobs
      BY <1>2 DEF ScheduleInv, WorkersHoldJobs
    <3>2. work[v].job \in Jobs BY <3>1 DEF UsedJobs
    <3> QED BY <2>15, <3>1, <3>2 DEF ScheduleInv, WorkersHoldJobs
  <2>17. PendingHasJob'
    <3> SUFFICES ASSUME row.status = "pending"
                 PROVE  /\ jobs'[row.job].state \in {"waiting", "claimed", "dead"}
                        /\ jobs'[row.job].after = row.at
                        /\ \A v \in Workers : ~(work'[v].phase = "dropped" /\ work'[v].job = row.job
                                                  /\ jobs'[row.job].holder = v)
      BY <1>0 DEF PendingHasJob
    <3>1. row.job \in Jobs BY DEF ScheduleInv, RowTells
    <3>2. /\ jobs[row.job].state \in {"waiting", "claimed", "dead"} /\ jobs[row.job].after = row.at
          /\ \A v \in Workers : ~(work[v].phase = "dropped" /\ work[v].job = row.job
                                    /\ jobs[row.job].holder = v)
      BY DEF ScheduleInv, PendingHasJob
    <3>3. CASE row.job = j
      <4>1. new.state # "done" BY <2>0, <2>7, <3>2, <3>3 DEF j
      <4> QED BY <2>7, <2>8, <3>2, <3>3, <4>1, NoWorkerAssumption
    <3>4. CASE row.job # j BY <1>2, <2>8, <3>1, <3>2, <3>4
    <3> QED BY <3>3, <3>4
  <2> QED BY <2>9, <2>10, <2>11, <2>13, <2>14, <2>16, <2>17 DEF ScheduleInv
<1> QED BY <1>3, <1>4

LEMMA TickStep == ASSUME ScheduleInv, Tick PROVE ScheduleInv'
<1>0. /\ UNCHANGED <<row, message, pub, jobs, ed, tx, work, troubles>>
      /\ clock \in 0..MaxClock /\ clock < MaxClock /\ clock' = clock + 1 /\ MaxClock \in Nat
  BY ScheduleTimesAssumption DEF ScheduleInv, TypeOK, Tick
<1>1. TypeOK'
  <2>1. clock' \in 0..MaxClock BY <1>0
  <2> QED BY <1>0, <2>1 DEF ScheduleInv, TypeOK
<1>2. RowTells' /\ FencesKept' /\ VersionTells' /\ JobsCounted' /\ RetriesLeft'
  BY <1>0 DEF ScheduleInv, RowTells, FencesKept, VersionTells, JobsCounted, RetriesLeft, UsedJobs
<1>3. WorkersHoldJobs' /\ PendingHasJob'
  BY <1>0 DEF ScheduleInv, WorkersHoldJobs, PendingHasJob, UsedJobs
<1>4. ReadsInPast'
  <2>1. \A w \in Workers : work[w].now \in Nat BY TypesOfState DEF ScheduleInv, WorkRecords
  <2> QED BY <1>0, <2>1 DEF ScheduleInv, ReadsInPast
<1> QED BY <1>1, <1>2, <1>3, <1>4 DEF ScheduleInv

-----------------------------------------------------------------------------
(* The operations.                                                           *)

(* A request's transaction ends. *)
LEMMA RequestEnds ==
  ASSUME ScheduleInv, NEW e \in Editors, tx' = [tx EXCEPT ![e] = NoTx]
  PROVE  tx' \in [Editors -> TxRecords] /\ \A d \in Editors : tx'[d] = tx[d] \/ tx'[d] = NoTx
BY TypesOfState, TypesOfConstants DEF ScheduleInv

LEMMA RefusedStep ==
  ASSUME ScheduleInv, NEW e \in Editors, tx' = [tx EXCEPT ![e] = NoTx],
         UNCHANGED <<clock, work>>, UNCHANGED <<row, message, pub, jobs, ed>>,
         troubles' \in 0..MaxTroubles
  PROVE  ScheduleInv'
<1>1. work \in [Workers -> WorkRecords] BY TypesOfState DEF ScheduleInv
<1> QED BY <1>1, RequestEnds, WorkStep

(* The dialogs. *)
LEMMA DialogStep == ASSUME ScheduleInv, NEW e \in Editors, Dialog(e) PROVE ScheduleInv'
<1>0. /\ TypeOK /\ row \in RowRecords /\ ed \in [Editors -> DialogRecords]
      /\ tx \in [Editors -> TxRecords] /\ pub \in PubRecords /\ clock \in Nat
      /\ \A d \in Editors : DialogKnows(ed[d]) /\ RequestKnows(tx[d])
      /\ row.fence \in Nat /\ row.version \in Nat
  BY TypesOfState, EveryoneKnows DEF ScheduleInv, RowRecords
<1>1. \A d \in Editors : ed[d].until <= row.fence \/ row.status \notin {"none", "pending"}
  BY DEF ScheduleInv, FencesKept
<1>2. ASSUME NEW x \in TxRecords, x.version <= row.version, x.op # "update",
             tx' = [tx EXCEPT ![e] = x], UNCHANGED <<clock, row, message, pub, jobs, ed, work, troubles>>
      PROVE  ScheduleInv'
  <2>1. RequestKnows(x) BY <1>2 DEF RequestKnows
  <2>2. tx' \in [Editors -> TxRecords] /\ \A d \in Editors : RequestKnows(tx'[d])
    BY <1>0, <1>2, <2>1
  <2> QED BY <1>0, <1>1, <1>2, <2>2, ClientStep
<1>3. CASE Open(e)
  <2> DEFINE new == [ClosedDialog EXCEPT !.open = TRUE, !.text = pub.content, !.version = pub.version]
             ask == [NoTx EXCEPT !.op = "lock", !.now = clock]
  <2>1. /\ new \in DialogRecords /\ new.version = pub.version /\ new.text = pub.content /\ new.until = 0
    BY <1>0, TypesOfConstants DEF ClosedDialog, DialogRecords, PubRecords
  <2>2. ask \in TxRecords /\ ask.version = 0 /\ ask.op = "lock"
    BY <1>0, TypesOfConstants DEF NoTx, TxRecords
  <2>3. /\ ed' = [ed EXCEPT ![e] = new]
        /\ tx' = tx \/ tx' = [tx EXCEPT ![e] = ask]
        /\ UNCHANGED <<clock, row, message, pub, jobs, work, troubles>>
    BY <1>3 DEF Open
  <2> HIDE DEF new, ask
  <2>4. DialogKnows(new) BY <2>1 DEF DialogKnows, ScheduleInv, VersionTells
  <2>5. RequestKnows(ask) BY <1>0, <2>2 DEF RequestKnows
  <2>6. /\ ed' \in [Editors -> DialogRecords] /\ tx' \in [Editors -> TxRecords]
        /\ \A d \in Editors : DialogKnows(ed'[d]) /\ RequestKnows(tx'[d])
    BY <1>0, <2>1, <2>2, <2>3, <2>4, <2>5
  <2>7. \A d \in Editors : ed'[d].until <= row.fence \/ row.status \notin {"none", "pending"}
    BY <1>0, <1>1, <2>1, <2>3
  <2> QED BY <1>0, <2>3, <2>6, <2>7, ClientStep
<1>4. CASE Close(e)
  <2>1. /\ ed' = [d \in Editors |-> IF d = e THEN ClosedDialog ELSE [ed[d] EXCEPT !.until = 0]]
        /\ row' = IF row.status = "pending" THEN [row EXCEPT !.fence = 0] ELSE row
        /\ UNCHANGED <<clock, message, pub, jobs, tx, work, troubles>>
    BY <1>4 DEF Close
  <2>2. ASSUME NEW d \in Editors
        PROVE  ed'[d] \in DialogRecords /\ ed'[d].until = 0 /\ DialogKnows(ed'[d])
    <3>1. CASE d = e
      <4>1. ed'[d] = ClosedDialog BY <2>1, <3>1
      <4>2. ClosedDialog.version = 0 /\ ClosedDialog.until = 0 /\ ClosedDialog.open = FALSE
        BY DEF ClosedDialog
      <4> QED BY <1>0, <4>1, <4>2, TypesOfConstants DEF DialogKnows
    <3>2. CASE d # e
      <4>1. ed'[d] = [ed[d] EXCEPT !.until = 0] BY <2>1, <3>2
      <4>2. ed[d] \in DialogRecords /\ DialogKnows(ed[d]) BY <1>0
      <4>3. /\ ed'[d] \in DialogRecords /\ ed'[d].until = 0 /\ ed'[d].open = ed[d].open
            /\ ed'[d].text = ed[d].text /\ ed'[d].version = ed[d].version
            /\ ed'[d].adopted = ed[d].adopted
        BY <4>1, <4>2 DEF DialogRecords
      <4> QED BY <4>2, <4>3 DEF DialogKnows
    <3> QED BY <3>1, <3>2
  <2>3. /\ row' \in RowRecords /\ row'.status = row.status /\ row'.content = row.content
        /\ row'.version = row.version /\ row'.at = row.at /\ row'.job = row.job
        /\ row.status = "none" => row' = row
        /\ row'.fence = row.fence \/ row'.fence = 0
    BY <1>0, <2>1 DEF RowRecords
  <2>4. \A d \in Editors : ed'[d].until <= row'.fence BY <1>0, <2>2, <2>3
  <2>5. ed' \in [Editors -> DialogRecords] BY <2>1, <2>2
  <2> QED BY <1>0, <2>1, <2>2, <2>3, <2>4, <2>5, ClientStep
<1>5. CASE BeginSendNow(e) \/ BeginCancel(e)
  <2>1. PICK op \in {"sendNow", "cancel"} :
          tx' = [tx EXCEPT ![e] = [NoTx EXCEPT !.op = op, !.seenJob = row.job]]
    BY <1>5 DEF BeginSendNow, BeginCancel, Begin
  <2> DEFINE x == [NoTx EXCEPT !.op = op, !.seenJob = row.job]
  <2>2. x \in TxRecords /\ x.version = 0 /\ x.op # "update"
    BY <1>0, TypesOfConstants DEF NoTx, TxRecords, RowRecords
  <2>3. UNCHANGED <<clock, row, message, pub, jobs, ed, work, troubles>>
    BY <1>5 DEF BeginSendNow, BeginCancel, Begin
  <2>4. tx' = [tx EXCEPT ![e] = x] BY <2>1
  <2> HIDE DEF x
  <2>5. x.version <= row.version BY <1>0, <2>2
  <2>6. UNCHANGED clock /\ UNCHANGED row /\ UNCHANGED ed BY <2>3
  <2> QED BY <1>2, <2>2, <2>3, <2>4, <2>5, <2>6
<1>6. ASSUME NEW at \in Times, BeginUpdate(e, at) PROVE ScheduleInv'
  <2> DEFINE x == [op |-> "update", now |-> clock, at |-> at, version |-> ed[e].version,
                   seenAt |-> row.at, seenJob |-> row.job,
                   text |-> ed[e].text, adopted |-> ed[e].adopted]
  <2>0. ed[e].open /\ row.content < MaxSaves BY <1>6 DEF BeginUpdate
  <2>1. /\ tx' = [tx EXCEPT ![e] = x]
        /\ UNCHANGED <<clock, row, message, pub, jobs, ed, work, troubles>>
    BY <1>6 DEF BeginUpdate, Begin
  <2>2. x \in TxRecords
    BY <1>0, ScheduleTimesAssumption DEF TxRecords, RowRecords, DialogRecords
  <2>3. DialogKnows(ed[e]) BY <1>0
  <2>4. RequestKnows(x) BY <2>0, <2>3 DEF RequestKnows, DialogKnows
  <2> HIDE DEF x
  <2>5. tx' \in [Editors -> TxRecords] /\ \A d \in Editors : RequestKnows(tx'[d])
    BY <1>0, <2>1, <2>2, <2>4
  <2> QED BY <1>0, <1>1, <2>1, <2>5, ClientStep
<1> QED BY <1>3, <1>4, <1>5, <1>6 DEF Dialog

(* The dialog takes the answer to its lock. *)
Answered(d, until, version, content) ==
  [d EXCEPT !.until = until, !.version = version, !.adopted = (content # d.text)]

LEMMA DialogAnswered ==
  ASSUME NEW d \in DialogRecords, NEW until \in Nat, NEW version \in Nat, NEW content
  PROVE  LET new == Answered(d, until, version, content)
         IN  /\ new \in DialogRecords /\ new.until = until /\ new.version = version
             /\ new.adopted \/ new.text = content
<1>1. PICK new : new = Answered(d, until, version, content) OBVIOUS
<1>2. CASE content # d.text
  <2>1. (content # d.text) = TRUE BY <1>2
  <2>2. new = [d EXCEPT !.until = until, !.version = version, !.adopted = TRUE]
    BY <1>1, <2>1, Zenon DEF Answered
  <2>3. /\ new \in DialogRecords /\ new.until = until /\ new.version = version
        /\ new.adopted = TRUE
    BY <2>2 DEF DialogRecords
  <2> QED BY <1>1, <2>3, Zenon
<1>3. CASE content = d.text
  <2>1. (content # d.text) = FALSE BY <1>3
  <2>2. new = [d EXCEPT !.until = until, !.version = version, !.adopted = FALSE]
    BY <1>1, <2>1, Zenon DEF Answered
  <2>3. /\ new \in DialogRecords /\ new.until = until /\ new.version = version
        /\ new.text = content
    BY <1>3, <2>2 DEF DialogRecords
  <2> QED BY <1>1, <2>3, Zenon
<1> QED BY <1>2, <1>3

LEMMA LockStep == ASSUME ScheduleInv, NEW e \in Editors, LockForEdit(e) PROVE ScheduleInv'
<1>0. /\ TypeOK /\ row \in RowRecords /\ ed \in [Editors -> DialogRecords]
      /\ tx \in [Editors -> TxRecords] /\ tx' = [tx EXCEPT ![e] = NoTx]
      /\ \A d \in Editors : DialogKnows(ed[d]) /\ RequestKnows(tx[d])
      /\ row.fence \in Nat /\ row.version \in Nat /\ UNCHANGED <<clock, work>>
  BY TypesOfState, EveryoneKnows DEF ScheduleInv, RowRecords, LockForEdit, End
<1>1. CASE row.status # "pending"
  <2>1. UNCHANGED <<row, message, pub, jobs, ed, troubles>> BY <1>1 DEF LockForEdit, Refused
  <2>2. troubles' \in 0..MaxTroubles BY <2>1 DEF ScheduleInv, TypeOK
  <2> QED BY <1>0, <2>1, <2>2, RefusedStep
<1>2. CASE row.status = "pending"
  <2> DEFINE until == IF row.fence > tx[e].now + EditTTL THEN row.fence ELSE tx[e].now + EditTTL
             new == [ed[e] EXCEPT !.until = until, !.version = row.version,
                                  !.adopted = (row.content # ed[e].text)]
  <2>1. until \in Nat /\ row.fence <= until
    <3>1. tx[e].now \in Nat /\ EditTTL \in Nat BY <1>0, ScheduleTimesAssumption DEF TxRecords
    <3> QED BY <1>0, <3>1
  <2>2. /\ row' = [row EXCEPT !.fence = until]
        /\ ed' = ed \/ ed' = [ed EXCEPT ![e] = new]
        /\ UNCHANGED <<message, pub, jobs, troubles>>
    BY <1>0, <1>2 DEF LockForEdit, Refused
  <2> HIDE DEF until
  <2>3. /\ new \in DialogRecords /\ new.until = until /\ new.version = row.version
        /\ new.adopted \/ new.text = row.content
    <3>1. ed[e] \in DialogRecords BY <1>0
    <3>2. new = Answered(ed[e], until, row.version, row.content) BY DEF Answered
    <3>3. until \in Nat /\ row.version \in Nat BY <1>0, <2>1
    <3> HIDE DEF new
    <3> QED BY <3>1, <3>2, <3>3, DialogAnswered
  <2> HIDE DEF new
  <2>4. DialogKnows(new) BY <1>0, <2>3 DEF DialogKnows
  <2>5. /\ row' \in RowRecords /\ row'.status = row.status /\ row'.content = row.content
        /\ row'.version = row.version /\ row'.at = row.at /\ row'.job = row.job
        /\ row'.fence = until
    BY <1>0, <2>1, <2>2 DEF RowRecords
  <2>6. /\ ed' \in [Editors -> DialogRecords] /\ \A d \in Editors : DialogKnows(ed'[d])
    BY <1>0, <2>2, <2>3, <2>4
  <2>7. ASSUME NEW d \in Editors PROVE ed'[d].until <= row'.fence
    <3>1. ed[d].until <= row.fence /\ ed[d].until \in Nat
      BY <1>0, <1>2 DEF ScheduleInv, FencesKept, DialogRecords
    <3>2. ed'[d].until = ed[d].until \/ ed'[d].until = until BY <1>0, <2>2, <2>3
    <3> QED BY <1>0, <2>1, <2>5, <3>1, <3>2
  <2>8. RequestKnows(NoTx) BY <1>0 DEF RequestKnows, NoTx
  <2>9. tx' \in [Editors -> TxRecords] /\ \A d \in Editors : RequestKnows(tx'[d])
    BY <1>0, <2>8, TypesOfConstants
  <2> QED BY <1>0, <1>2, <2>2, <2>5, <2>6, <2>7, <2>9, ClientStep
<1> QED BY <1>1, <1>2

(* The author sends: at once, or by a save whose time has passed. *)
LEMMA SendStep ==
  ASSUME ScheduleInv, NEW e \in Editors, row.status = "pending",
         UNCHANGED <<clock, work>>, tx' = [tx EXCEPT ![e] = NoTx],
         NEW r \in RowRecords, r.job = row.job, r.version >= row.version,
         r.content \in {row.content, row.content + 1}, SendForAuthor(e, r)
  PROVE  ScheduleInv'
<1>0. /\ TypeOK /\ row \in RowRecords /\ jobs \in [Jobs -> JobRecords]
      /\ work \in [Workers -> WorkRecords] /\ row.version \in Nat /\ r.version \in Nat
  BY TypesOfState DEF ScheduleInv, RowRecords
<1>1. CASE UNCHANGED <<row, message, pub, jobs, ed>> /\ troubles' \in 0..MaxTroubles
  BY <1>1, RefusedStep
<1>2. CASE /\ row' = MarkSent(Started(r)) /\ message' = Created(r)
           /\ pub' = View(MarkSent(Started(r))) /\ jobs' = Cancelled(jobs, tx[e].seenJob)
           /\ UNCHANGED <<ed, troubles>>
  <2>1. /\ row' \in RowRecords /\ row'.status = "sent" /\ row'.content = r.content
        /\ row'.job = r.job /\ row'.version > r.version
    BY <1>2, RowSent
  <2>2. row'.version > row.version
    <3>1. row'.version \in Nat BY <2>1 DEF RowRecords
    <3> QED BY <1>0, <2>1, <3>1
  <2>3. message' = row'.content BY <1>2, <2>1 DEF Created, ScheduleInv, RowTells
  <2>4. jobs' \in [Jobs -> JobRecords] /\ JobsKept
    BY <1>0, <1>2, JobsCancelled DEF JobsKept
  <2>5. pub' = View(row') /\ troubles' \in 0..MaxTroubles /\ UNCHANGED ed
    BY <1>2 DEF ScheduleInv, TypeOK
  <2> QED BY <1>0, <2>1, <2>2, <2>3, <2>4, <2>5, RequestEnds, SettleStep
<1>3. ASSUME Trouble PROVE troubles' \in 0..MaxTroubles
  BY <1>3, ScheduleBoundsAssumption DEF Trouble, ScheduleInv, TypeOK
<1> QED BY <1>1, <1>2, <1>3 DEF SendForAuthor, Fault

LEMMA UpdateStep == ASSUME ScheduleInv, NEW e \in Editors, Update(e) PROVE ScheduleInv'
<1>0. /\ TypeOK /\ row \in RowRecords /\ jobs \in [Jobs -> JobRecords]
      /\ UNCHANGED <<clock, work>> /\ tx' = [tx EXCEPT ![e] = NoTx] /\ tx[e].op = "update"
      /\ row.version \in Nat /\ row.content \in Nat /\ troubles \in 0..MaxTroubles
  BY TypesOfState DEF ScheduleInv, RowRecords, Update, End
<1>1. /\ tx' \in [Editors -> TxRecords] /\ \A d \in Editors : tx'[d] = tx[d] \/ tx'[d] = NoTx
  BY <1>0, RequestEnds
<1>2. CASE Refused
  <2>1. UNCHANGED <<row, message, pub, jobs, ed>> /\ troubles' \in 0..MaxTroubles
    BY <1>0, <1>2 DEF Refused
  <2> QED BY <1>0, <2>1, RefusedStep
<1>3. CASE UpdateLands(e)
  <2>1. row.status = "pending" /\ row.version = tx[e].version BY <1>3 DEF UpdateLands
  <2>2. row.content < MaxSaves /\ tx[e].seenAt = row.at
    BY <1>0, <2>1 DEF ScheduleInv, VersionTells
  <2>3. PICK s : s = Saved(e) OBVIOUS
  <2>4. /\ s \in RowRecords /\ s.status = "pending" /\ s.content = row.content + 1
        /\ s.version = row.version + 1 /\ s.at = tx[e].at /\ s.fence = row.fence /\ s.job = row.job
    BY <1>0, <2>1, <2>3, RowSaved
  <2>5. View(s) \in PubRecords /\ View(s).content = s.content /\ View(s).version = s.version
    BY <2>4, ViewTypes
  <2>6. CASE SendForAuthor(e, s)
    <3>1. s.version >= row.version BY <1>0, <2>4
    <3>2. s.content \in {row.content, row.content + 1} BY <2>4
    <3> QED BY <1>0, <2>1, <2>4, <2>6, <3>1, <3>2, SendStep
  <2>7. CASE Rescheduled(e)
    <3> DEFINE f == FreshJob
    <3>1. f \in Jobs /\ jobs[f].state = "none" BY <1>0, <2>2, FreshJobExists DEF ScheduleInv
    <3>2. /\ row' = Pinned(s, f) /\ jobs' = Enqueued(Cancelled(jobs, tx[e].seenJob), f, s)
          /\ pub' = View(s) /\ UNCHANGED <<message, ed, troubles>>
      BY <2>3, <2>7 DEF Rescheduled
    <3> HIDE DEF f
    <3>3. PICK js : js = Cancelled(jobs, tx[e].seenJob) OBVIOUS
    <3>4. /\ js \in [Jobs -> JobRecords]
          /\ \A i \in Jobs : /\ js[i].after = jobs[i].after /\ js[i].fails = jobs[i].fails
                             /\ \/ js[i].state = jobs[i].state
                                \/ jobs[i].state = "waiting" /\ js[i].state = "cancelled"
      BY <1>0, <3>3, JobsCancelled
    <3>5. /\ jobs' \in [Jobs -> JobRecords]
          /\ \A i \in Jobs \ {f} : jobs'[i] = js[i]
          /\ jobs'[f].state = "waiting" /\ jobs'[f].after = s.at
          /\ jobs'[f].fails = 0 /\ jobs'[f].holder = NoWorker
      BY <2>4, <3>1, <3>2, <3>3, <3>4, JobsEnqueued
    <3>6. /\ row' \in RowRecords /\ row'.status = s.status /\ row'.content = s.content
          /\ row'.version = s.version + 1 /\ row'.at = s.at /\ row'.fence = s.fence /\ row'.job = f
      BY <2>4, <3>1, <3>2, RowPinned
    <3>7. row'.version > row.version /\ View(s).version <= row'.version
      BY <1>0, <2>4, <2>5, <3>6
    <3>8. \A i \in Jobs \ {f} :
            /\ jobs'[i].after = jobs[i].after /\ jobs'[i].fails = jobs[i].fails
            /\ \/ jobs'[i].state = jobs[i].state
               \/ jobs[i].state = "waiting" /\ jobs'[i].state = "cancelled"
      BY <3>4, <3>5
    <3>9. /\ row'.status = "pending" /\ row'.content = row.content + 1 /\ row'.fence = row.fence
          /\ jobs'[f].after = row'.at /\ pub' \in PubRecords /\ pub'.version <= row'.version
          /\ pub'.content = row'.content
      BY <2>4, <2>5, <3>2, <3>5, <3>6, <3>7
    <3>10. UNCHANGED <<clock, message, ed, work, troubles>> BY <1>0, <3>2
    <3> QED BY <1>1, <2>1, <3>1, <3>5, <3>6, <3>7, <3>8, <3>9, <3>10, SaveMoved
  <2>8. CASE /\ s.at = tx[e].seenAt /\ row' = s /\ pub' = View(s)
             /\ UNCHANGED <<message, jobs, ed, troubles>>
    <3>1. row'.version > row.version /\ pub'.version <= row'.version
      BY <1>0, <2>4, <2>5, <2>8
    <3>2. row'.at = row.at BY <2>2, <2>8
    <3>3. UNCHANGED <<clock, message, jobs, ed, work, troubles>> BY <1>0, <2>8
    <3>4. /\ row' \in RowRecords /\ row'.status = "pending" /\ row'.content = row.content + 1
          /\ row'.fence = row.fence /\ row'.job = row.job /\ pub' \in PubRecords
          /\ pub'.content = row'.content
      BY <2>4, <2>5, <2>8
    <3> QED BY <1>1, <2>1, <3>1, <3>2, <3>3, <3>4, SaveInPlace
  <2> QED BY <1>2, <1>3, <2>3, <2>6, <2>7, <2>8 DEF Update
<1> QED BY <1>2, <1>3 DEF Update

LEMMA SendNowStep == ASSUME ScheduleInv, NEW e \in Editors, SendNow(e) PROVE ScheduleInv'
<1>0. /\ row \in RowRecords /\ UNCHANGED <<clock, work>> /\ tx' = [tx EXCEPT ![e] = NoTx]
      /\ troubles \in 0..MaxTroubles /\ row.version \in Nat
  BY TypesOfState DEF ScheduleInv, SendNow, End, RowRecords
<1>1. CASE Refused
  <2>1. UNCHANGED <<row, message, pub, jobs, ed>> /\ troubles' \in 0..MaxTroubles
    BY <1>0, <1>1 DEF Refused
  <2> QED BY <1>0, <2>1, RefusedStep
<1>2. CASE row.status = "pending" /\ SendForAuthor(e, row)
  <2>1. row.version >= row.version /\ row.content \in {row.content, row.content + 1} BY <1>0
  <2> QED BY <1>0, <1>2, <2>1, SendStep
<1> QED BY <1>1, <1>2 DEF SendNow, CanStart

LEMMA RowCancelled ==
  ASSUME NEW r \in RowRecords, NEW s,
         s = [r EXCEPT !.status = "cancelled", !.version = @ + 1, !.fence = 0]
  PROVE  s = [status |-> "cancelled", content |-> r.content, version |-> r.version + 1,
              at |-> r.at, fence |-> 0, job |-> r.job]
BY DEF RowRecords

LEMMA CancelStep == ASSUME ScheduleInv, NEW e \in Editors, Cancel(e) PROVE ScheduleInv'
<1>0. /\ TypeOK /\ row \in RowRecords /\ UNCHANGED <<clock, work>> /\ tx' = [tx EXCEPT ![e] = NoTx]
      /\ troubles \in 0..MaxTroubles /\ row.version \in Nat /\ jobs \in [Jobs -> JobRecords]
      /\ work \in [Workers -> WorkRecords]
  BY TypesOfState DEF ScheduleInv, Cancel, End, RowRecords
<1>1. CASE ~CancelLands
  <2>1. UNCHANGED <<row, message, pub, jobs, ed>> /\ troubles' \in 0..MaxTroubles
    BY <1>0, <1>1 DEF Cancel, Refused
  <2> QED BY <1>0, <2>1, RefusedStep
<1>2. CASE CancelLands
  <2>1. /\ row.status = "pending" /\ jobs' = Cancelled(jobs, tx[e].seenJob)
        /\ row' = [row EXCEPT !.status = "cancelled", !.version = @ + 1, !.fence = 0]
        /\ UNCHANGED <<message, pub, ed, troubles>>
    BY <1>2 DEF Cancel, CancelLands
  <2>2. /\ row' \in RowRecords /\ row'.status = "cancelled" /\ row'.content = row.content
        /\ row'.job = row.job /\ row'.version = row.version + 1
    <3>1. row' = [status |-> "cancelled", content |-> row.content, version |-> row.version + 1,
                  at |-> row.at, fence |-> 0, job |-> row.job]
      BY <1>0, <2>1, RowCancelled
    <3>2. row.version + 1 \in Nat BY <1>0
    <3> QED BY <1>0, <3>1, <3>2 DEF RowRecords
  <2>3. row'.version > row.version BY <1>0, <2>2
  <2>4. jobs' \in [Jobs -> JobRecords] /\ JobsKept BY <1>0, <2>1, JobsCancelled DEF JobsKept
  <2>5. message' = NotSent BY <2>1 DEF ScheduleInv, RowTells
  <2> QED BY <1>0, <2>1, <2>2, <2>3, <2>4, <2>5, RequestEnds, SettleStep
<1> QED BY <1>1, <1>2

(* A worker moves on with its job. *)
LEMMA MoveWork ==
  ASSUME ScheduleInv, NEW w \in Workers, NEW phase \in {"dropped", "contended"},
         work' = Move(w, phase)
  PROVE  /\ work' \in [Workers -> WorkRecords] /\ work'[w].phase = phase
         /\ work'[w].job = work[w].job /\ \A v \in Workers \ {w} : work'[v] = work[v]
<1>1. work \in [Workers -> WorkRecords] BY TypesOfState DEF ScheduleInv
<1> DEFINE new == [work[w] EXCEPT !.phase = phase, !.at = 0, !.now = 0]
<1>2. new \in WorkRecords /\ new.phase = phase /\ new.job = work[w].job
  BY <1>1 DEF WorkRecords
<1>3. work' = [work EXCEPT ![w] = new] BY <1>1 DEF Move
<1> HIDE DEF new
<1> QED BY <1>1, <1>2, <1>3

(* fire reads the row: a job that it drops is not the one of a pending row,  *)
(* whose time has come by the clock that claimed it.                         *)
LEMMA FireReadsStep == ASSUME ScheduleInv, NEW w \in Workers, FireReads(w) PROVE ScheduleInv'
<1>0. /\ row \in RowRecords /\ work \in [Workers -> WorkRecords] /\ tx \in [Editors -> TxRecords]
      /\ troubles \in 0..MaxTroubles /\ clock \in Nat
      /\ work[w].phase = "claimed" /\ UNCHANGED <<clock, row, message, pub, jobs, ed, tx, troubles>>
  BY TypesOfState DEF ScheduleInv, FireReads
<1>1. PICK n \in AppNow :
        /\ n >= work[w].at
        /\ \/ (row.status # "pending" \/ row.at > n) /\ work' = Move(w, "dropped")
           \/ work' = Move(w, "contended")
           \/ work' = [work EXCEPT ![w] = [@ EXCEPT !.phase = "read", !.at = 0, !.now = clock]]
  BY DEF FireReads
<1>2. CASE (row.status # "pending" \/ row.at > n) /\ work' = Move(w, "dropped")
  <2>1. ASSUME row.status = "pending", work[w].job = row.job PROVE FALSE
    <3>1. jobs[row.job].after = row.at BY <2>1 DEF ScheduleInv, PendingHasJob
    <3>2. jobs[row.job].after <= work[w].at BY <1>0, <2>1 DEF ScheduleInv, WorkersHoldJobs
    <3>3. row.at \in Nat /\ work[w].at \in Nat /\ n \in Nat
      BY <1>0 DEF RowRecords, WorkRecords, AppNow
    <3>4. row.at <= work[w].at BY <3>1, <3>2
    <3> QED BY <1>1, <1>2, <2>1, <3>3, <3>4
  <2> QED BY <1>0, <1>2, <2>1, MoveWork, WorkStep
<1>3. CASE work' = Move(w, "contended") BY <1>0, <1>3, MoveWork, WorkStep
<1>4. CASE work' = [work EXCEPT ![w] = [@ EXCEPT !.phase = "read", !.at = 0, !.now = clock]]
  <2> DEFINE new == [work[w] EXCEPT !.phase = "read", !.at = 0, !.now = clock]
  <2>1. new \in WorkRecords /\ new.phase = "read" /\ new.job = work[w].job /\ new.now = clock
    BY <1>0 DEF WorkRecords
  <2>2. work' = [work EXCEPT ![w] = new] BY <1>0, <1>4
  <2> HIDE DEF new
  <2>3. /\ work' \in [Workers -> WorkRecords] /\ work'[w] = new
        /\ \A v \in Workers \ {w} : work'[v] = work[v]
    BY <1>0, <2>1, <2>2
  <2>4. work'[w].now <= clock BY <1>0, <2>1, <2>3
  <2> QED BY <1>0, <2>1, <2>3, <2>4, WorkStep
<1> QED BY <1>1, <1>2, <1>3, <1>4

(* fire settles the row, or leaves it for another attempt. *)
LEMMA FireStep == ASSUME ScheduleInv, NEW w \in Workers, Fire(w) PROVE ScheduleInv'
<1>0. /\ row \in RowRecords /\ work \in [Workers -> WorkRecords] /\ tx \in [Editors -> TxRecords]
      /\ troubles \in 0..MaxTroubles /\ jobs \in [Jobs -> JobRecords]
      /\ MaxTroubles \in Nat
  BY TypesOfState, ScheduleBoundsAssumption DEF ScheduleInv
<1>1. ASSUME Trouble PROVE troubles' \in 0..MaxTroubles BY <1>0, <1>1 DEF Trouble
<1>2. UNCHANGED jobs => jobs' \in [Jobs -> JobRecords] /\ JobsKept BY <1>0 DEF JobsKept
<1>3. CASE FireReads(w) BY <1>3, FireReadsStep
<1>4. CASE FireDenied(w)
  <2>1. /\ work[w].phase = "read" /\ troubles' \in 0..MaxTroubles /\ work' = Move(w, "dropped")
        /\ row' = MarkFailed(row) /\ pub' = View(MarkFailed(row))
        /\ UNCHANGED <<clock, message, jobs, ed, tx>>
    BY <1>1, <1>4 DEF FireDenied, Fault
  <2>2. CASE row.status = "pending"
    <3>1. /\ row' \in RowRecords /\ row'.status = "failed" /\ row'.content = row.content
          /\ row'.job = row.job /\ row'.version > row.version /\ pub' = View(row')
      BY <1>0, <2>1, <2>2, RowFailed
    <3>2. message' = NotSent BY <2>1, <2>2 DEF ScheduleInv, RowTells
    <3> QED BY <1>0, <1>2, <2>1, <2>2, <3>1, <3>2, MoveWork, SettleStep
  <2>3. CASE row.status # "pending"
    <3>1. row' = row /\ pub' = View(row) BY <1>0, <2>1, <2>3 DEF MarkFailed, RowRecords
    <3> QED BY <1>0, <2>1, <2>3, <3>1, MoveWork, WorkStep
  <2> QED BY <2>2, <2>3
<1>5. CASE FireContended(w)
  <2>1. /\ work[w].phase = "read" /\ work' = Move(w, "contended")
        /\ UNCHANGED <<clock, row, message, pub, jobs, ed, tx, troubles>>
    BY <1>5 DEF FireContended
  <2> QED BY <1>0, <2>1, MoveWork, WorkStep
<1>6. CASE FireSends(w)
  <2>1. /\ work[w].phase = "read" /\ row.status = "pending" /\ work' = Move(w, "dropped")
        /\ row' = MarkSent(Started(row)) /\ pub' = View(MarkSent(Started(row)))
        /\ message' = Created(row) /\ UNCHANGED <<clock, jobs, ed, tx, troubles>>
    BY <1>6 DEF FireSends, CanStart
  <2>2. /\ row' \in RowRecords /\ row'.status = "sent" /\ row'.content = row.content
        /\ row'.job = row.job /\ row'.version > row.version /\ pub' = View(row')
    BY <1>0, <2>1, RowSent
  <2>3. message' = row'.content BY <2>1, <2>2 DEF Created, ScheduleInv, RowTells
  <2> QED BY <1>0, <1>2, <2>1, <2>2, <2>3, MoveWork, SettleStep
<1>7. CASE FireThrows(w)
  <2>1. /\ work[w].phase = "read" /\ row.status = "pending" /\ troubles' \in 0..MaxTroubles
        /\ UNCHANGED <<clock, jobs, ed, tx>>
    BY <1>1, <1>7 DEF FireThrows, CanStart, Fault
  <2>2. CASE /\ UNCHANGED message \/ ("late" \in Faults /\ message' = Created(row))
             /\ row' = MarkFailed(Started(row)) /\ pub' = View(MarkFailed(Started(row)))
             /\ work' = Move(w, "dropped")
    <3>1. /\ row' \in RowRecords /\ row'.status = "failed" /\ row'.content = row.content
          /\ row'.job = row.job /\ row'.version > row.version /\ pub' = View(row')
      BY <1>0, <2>1, <2>2, RowFailed
    <3>2. message = NotSent BY <2>1 DEF ScheduleInv, RowTells
    <3>3. message' = NotSent \/ (message' = row'.content /\ "late" \in Faults)
      BY <2>2, <3>1, <3>2 DEF Created
    <3> QED BY <1>0, <1>2, <2>1, <2>2, <3>1, <3>3, MoveWork, SettleStep
  <2>3. CASE work' = Move(w, "contended") /\ UNCHANGED <<row, message, pub>>
    BY <1>0, <2>1, <2>3, MoveWork, WorkStep
  <2> QED BY <1>7, <2>2, <2>3 DEF FireThrows, Fault
<1> QED BY <1>3, <1>4, <1>5, <1>6, <1>7 DEF Fire

LEMMA CrashStep == ASSUME ScheduleInv, NEW w \in Workers, Crash(w) PROVE ScheduleInv'
<1>0. /\ work \in [Workers -> WorkRecords] /\ tx \in [Editors -> TxRecords]
      /\ troubles \in 0..MaxTroubles /\ MaxTroubles \in Nat
  BY TypesOfState, ScheduleBoundsAssumption DEF ScheduleInv
<1>1. /\ work' = [work EXCEPT ![w] = Idle] /\ troubles' \in 0..MaxTroubles
      /\ UNCHANGED <<clock, row, message, pub, jobs, ed, tx>>
  BY <1>0 DEF Crash, Fault, Trouble
<1>2. Idle \in WorkRecords /\ Idle.phase = "idle" BY TypesOfConstants DEF Idle
<1>3. /\ work' \in [Workers -> WorkRecords]
      /\ \A v \in Workers : work'[v] = work[v] \/ work'[v].phase = "idle"
  BY <1>0, <1>1, <1>2
<1> QED BY <1>0, <1>1, <1>3, WorkStep

LEMMA ScheduleInvInit == ASSUME Init PROVE ScheduleInv
<1>1. TypeOK
  <2>1. clock \in 0..MaxClock /\ troubles \in 0..MaxTroubles /\ message \in Nat
    BY ScheduleTimesAssumption, ScheduleBoundsAssumption DEF Init, NotSent
  <2>2. pub \in PubRecords BY TypesOfConstants, ViewTypes DEF Init
  <2> QED BY <2>1, <2>2, TypesOfConstants, TypesOfState DEF Init
<1>2. RowTells BY DEF Init, RowTells, NoRow, NotSent
<1>3. FencesKept
  <2>1. row.fence = 0 BY DEF Init, NoRow
  <2>2. \A e \in Editors : ed[e].until = 0 BY DEF Init, ClosedDialog
  <2>3. 0 <= 0 OBVIOUS
  <2>4. \A e \in Editors : ed[e].until <= row.fence BY <2>1, <2>2, <2>3, Zenon
  <2> QED BY <2>4 DEF FencesKept
<1>4. ReadsInPast /\ WorkersHoldJobs BY DEF Init, ReadsInPast, WorkersHoldJobs, Idle
<1>5. VersionTells BY DEF Init, VersionTells, NoRow, View, ClosedDialog, NoTx
<1>6. JobsCounted
  <2>1. UsedJobs = {} BY DEF Init, UsedJobs, NoJob
  <2> QED BY <2>1, FS_EmptySet DEF JobsCounted, Init, NoRow
<1>7. RetriesLeft BY DEF Init, RetriesLeft, NoJob
<1>8. PendingHasJob BY DEF Init, PendingHasJob, NoRow
<1> QED BY <1>1, <1>2, <1>3, <1>4, <1>5, <1>6, <1>7, <1>8 DEF ScheduleInv

LEMMA ScheduleInvStep == ASSUME ScheduleInv, [Next]_vars PROVE ScheduleInv'
<1>1. CASE UNCHANGED vars
  <2>1. UNCHANGED <<clock, row, message, pub, jobs, ed, tx, work, troubles>> BY <1>1 DEF vars
  <2>2. /\ troubles' \in 0..MaxTroubles /\ tx' \in [Editors -> TxRecords]
        /\ work' \in [Workers -> WorkRecords]
    BY <2>1, TypesOfState DEF ScheduleInv
  <2> QED BY <2>1, <2>2, WorkStep
<1> QED
  BY <1>1, ScheduleStep, DialogStep, LockStep, UpdateStep, SendNowStep, CancelStep, ClaimStep,
     FireStep, ReportStep, CrashStep, TickStep
     DEF Next, Commit

-----------------------------------------------------------------------------
(* What a step makes of the row, as its author sees it.                      *)

(* A save that landed: of a request that had the row's version. *)
SaveLanded ==
  \E e \in Editors : tx[e].op = "update" /\ tx'[e] = NoTx /\ tx[e].version = row.version

LEMMA RowMoves ==
  ASSUME ScheduleInv, [Next]_vars
  PROVE  \/ row'.status = row.status /\ row'.content = row.content /\ message' = message
         \/ row.status = "none" /\ row'.status = "pending" /\ row'.content = 1 /\ message' = message
         \/ /\ row.status = "pending" /\ row'.status = "pending" /\ message' = message
            /\ row'.content = row.content + 1 /\ SaveLanded
         \/ /\ row.status = "pending" /\ row'.status = "sent"
            /\ \/ row'.content = row.content
               \/ row'.content = row.content + 1 /\ SaveLanded
         \/ /\ row.status = "pending" /\ row'.status \in {"failed", "cancelled"}
            /\ row'.content = row.content
<1> DEFINE Goal ==
         \/ row'.status = row.status /\ row'.content = row.content /\ message' = message
         \/ row.status = "none" /\ row'.status = "pending" /\ row'.content = 1 /\ message' = message
         \/ /\ row.status = "pending" /\ row'.status = "pending" /\ message' = message
            /\ row'.content = row.content + 1 /\ SaveLanded
         \/ /\ row.status = "pending" /\ row'.status = "sent"
            /\ \/ row'.content = row.content
               \/ row'.content = row.content + 1 /\ SaveLanded
         \/ /\ row.status = "pending" /\ row'.status \in {"failed", "cancelled"}
            /\ row'.content = row.content
<1>0. TypeOK /\ row \in RowRecords /\ tx \in [Editors -> TxRecords] BY TypesOfState DEF ScheduleInv
<1>1. ASSUME UNCHANGED <<row, message>> PROVE Goal BY <1>1
<1>2. ASSUME NEW t \in Times, Schedule(t) PROVE Goal
  <2>1. PICK r \in RowRecords : row' = Pinned(r, 1) /\ r.status = "pending" /\ r.content = 1
    <3>1. PICK n \in AppNow :
            LET at == IF t < n + MinOffset THEN n + MinOffset ELSE t
            IN  row' = Pinned([NoRow EXCEPT !.status = "pending", !.content = 1,
                                            !.version = 1, !.at = at], 1)
      BY <1>2 DEF Schedule
    <3> DEFINE at == IF t < n + MinOffset THEN n + MinOffset ELSE t
               fresh == [NoRow EXCEPT !.status = "pending", !.content = 1, !.version = 1, !.at = at]
    <3>2. at \in Nat BY ScheduleTimesAssumption DEF AppNow
    <3>3. fresh \in RowRecords /\ fresh.status = "pending" /\ fresh.content = 1
      <4> HIDE DEF at
      <4> QED BY <3>2, TypesOfConstants DEF NoRow, RowRecords
    <3>4. row' = Pinned(fresh, 1) BY <3>1
    <3> HIDE DEF fresh
    <3> QED BY <3>3, <3>4
  <2>2. row'.status = "pending" /\ row'.content = 1 BY <2>1, RowPinned, TypesOfConstants
  <2> QED BY <1>2, <2>2 DEF Schedule
<1>3. ASSUME NEW e \in Editors, Dialog(e) PROVE Goal
  <2>1. row' = row \/ row' = [row EXCEPT !.fence = 0]
    BY <1>3 DEF Dialog, Open, Close, BeginSendNow, BeginCancel, BeginUpdate, Begin
  <2>2. message' = message
    BY <1>3 DEF Dialog, Open, Close, BeginSendNow, BeginCancel, BeginUpdate, Begin
  <2> QED BY <1>0, <2>1, <2>2 DEF RowRecords
<1>4. ASSUME NEW e \in Editors, LockForEdit(e) PROVE Goal
  <2>1. \/ row' = row
        \/ row' = [row EXCEPT !.fence =
                     IF row.fence > tx[e].now + EditTTL THEN row.fence ELSE tx[e].now + EditTTL]
    BY <1>4 DEF LockForEdit, Refused
  <2>2. message' = message BY <1>4 DEF LockForEdit, Refused
  <2> QED BY <1>0, <2>1, <2>2 DEF RowRecords
<1>5. ASSUME NEW e \in Editors, Update(e) PROVE Goal
  <2>0. tx'[e] = NoTx /\ tx[e].op = "update" BY <1>0, <1>5 DEF Update, End
  <2>1. CASE Refused BY <1>1, <2>1 DEF Refused
  <2>2. CASE UpdateLands(e)
    <3>1. row.status = "pending" /\ SaveLanded BY <2>0, <2>2 DEF UpdateLands, SaveLanded
    <3>2. PICK s : s = Saved(e) OBVIOUS
    <3>3. s \in RowRecords /\ s.status = "pending" /\ s.content = row.content + 1
      BY <1>0, <3>1, <3>2, RowSaved
    <3>4. CASE row' = MarkSent(Started(s)) BY <3>1, <3>3, <3>4, RowSent
    <3>5. CASE Rescheduled(e)
      <4>1. tx[e].version = row.version BY <2>2 DEF UpdateLands
      <4>2. row.content < MaxSaves BY <2>0, <4>1 DEF ScheduleInv, VersionTells
      <4>3. FreshJob \in Jobs BY <1>0, <4>2, FreshJobExists DEF ScheduleInv
      <4>4. row' = Pinned(s, FreshJob) /\ message' = message BY <3>2, <3>5 DEF Rescheduled
      <4> QED BY <3>1, <3>3, <4>3, <4>4, RowPinned
    <3>6. CASE row' = s /\ message' = message BY <3>1, <3>3, <3>6
    <3> QED BY <1>1, <1>5, <2>1, <2>2, <3>2, <3>4, <3>5, <3>6 DEF Update, SendForAuthor
  <2> QED BY <1>5, <2>1, <2>2 DEF Update
<1>6. ASSUME NEW e \in Editors, SendNow(e) PROVE Goal
  <2>1. CASE row.status = "pending" /\ row' = MarkSent(Started(row)) BY <1>0, <2>1, RowSent
  <2> QED BY <1>1, <1>6, <2>1 DEF SendNow, SendForAuthor, Refused, CanStart
<1>7. ASSUME NEW e \in Editors, Cancel(e) PROVE Goal
  <2>1. CASE /\ row.status = "pending"
             /\ row' = [row EXCEPT !.status = "cancelled", !.version = @ + 1, !.fence = 0]
    <3>1. row' = [status |-> "cancelled", content |-> row.content, version |-> row.version + 1,
                  at |-> row.at, fence |-> 0, job |-> row.job]
      BY <1>0, <2>1, RowCancelled
    <3>2. row'.status = "cancelled" /\ row'.content = row.content BY <3>1
    <3> QED BY <2>1, <3>2
  <2> QED BY <1>1, <1>7, <2>1 DEF Cancel, Refused, CancelLands
<1>8. ASSUME NEW w \in Workers, Fire(w) PROVE Goal
  <2>1. CASE row' = MarkFailed(row) /\ message' = message
    <3>1. CASE row.status = "pending" BY <1>0, <2>1, <3>1, RowFailed
    <3>2. CASE row.status # "pending"
      <4>1. row' = row BY <1>0, <2>1, <3>2 DEF MarkFailed, RowRecords
      <4> QED BY <2>1, <4>1
    <3> QED BY <3>1, <3>2
  <2>2. CASE row.status = "pending" /\ row' = MarkSent(Started(row)) BY <1>0, <2>2, RowSent
  <2>3. CASE row.status = "pending" /\ row' = MarkFailed(Started(row)) BY <1>0, <2>3, RowFailed
  <2> HIDE DEF Goal
  <2>4. CASE FireReads(w) \/ FireContended(w) BY <1>1, <2>4 DEF FireReads, FireContended
  <2>5. CASE FireDenied(w) BY <2>1, <2>5 DEF FireDenied
  <2>6. CASE FireSends(w) BY <2>2, <2>6 DEF FireSends, CanStart
  <2>7. CASE FireThrows(w)
    <3>1. \/ row.status = "pending" /\ row' = MarkFailed(Started(row))
          \/ UNCHANGED <<row, message>>
      BY <2>7 DEF FireThrows, CanStart
    <3> QED BY <1>1, <2>3, <3>1
  <2> QED BY <1>8, <2>4, <2>5, <2>6, <2>7 DEF Fire
<1>9. ASSUME NEW w \in Workers, NEW j \in Jobs, Claim(w, j) PROVE Goal BY <1>1, <1>9 DEF Claim
<1>10. ASSUME NEW w \in Workers, Report(w) \/ Crash(w) PROVE Goal BY <1>1, <1>10 DEF Report, Crash
<1>11. ASSUME Tick \/ UNCHANGED vars PROVE Goal BY <1>1, <1>11 DEF Tick, vars
<1> QED
  <2> SUFFICES Goal OBVIOUS
  <2> HIDE DEF Goal
  <2>1. CASE Next
    <3>1. CASE \E t \in Times : Schedule(t) BY <1>2, <3>1
    <3>2. CASE \E e \in Editors : Dialog(e) \/ Commit(e)
      BY <1>3, <1>4, <1>5, <1>6, <1>7, <3>2 DEF Commit
    <3>3. CASE \E w \in Workers :
                 (\E j \in Jobs : Claim(w, j)) \/ Fire(w) \/ Report(w) \/ Crash(w)
      BY <1>8, <1>9, <1>10, <3>3
    <3> QED BY <1>11, <2>1, <3>1, <3>2, <3>3 DEF Next
  <2> QED BY <1>11, <2>1

-----------------------------------------------------------------------------
(* Theorems.                                                                 *)

(* The invariant of the row, its readers and its jobs. *)
THEOREM ScheduleInvHolds == Spec => []ScheduleInv
BY ScheduleInvInit, ScheduleInvStep, PTL DEF Spec

(* Types: no committed transaction leaves the row as "sending". *)
THEOREM ScheduledTypes == Spec => []TypeOK
<1>1. ScheduleInv => TypeOK BY DEF ScheduleInv
<1> QED BY <1>1, ScheduleInvHolds, PTL

(* Unless createMessage throws after it has created the message ("late"), a  *)
(* message is in the stream exactly when the row says so, with the last text *)
(* that was saved.                                                           *)
THEOREM SendsWhatWasSaved == ASSUME "late" \notin Faults PROVE Spec => []SentAsSaved
<1>1. ScheduleInv => SentAsSaved BY DEF ScheduleInv, RowTells, SentAsSaved
<1> QED BY <1>1, ScheduleInvHolds, PTL

(* A pending row always has a job that is due with it and not done. *)
THEOREM PendingRowsHaveJobs == Spec => []PendingHasJob
<1>1. ScheduleInv => PendingHasJob BY DEF ScheduleInv
<1> QED BY <1>1, ScheduleInvHolds, PTL

(* The version check of ScheduledMessagesRepository.update makes the first   *)
(* save win: a later one lands only on a text that its dialog was given.     *)
THEOREM LaterSavesAreRefused == Spec => FirstSaveWins
<1>1. ASSUME ScheduleInv, [Next]_vars, row.status = "pending", row'.content # row.content
      PROVE  \E e \in Editors : /\ tx[e].op = "update" /\ tx'[e] = NoTx
                                /\ tx[e].text = row.content \/ tx[e].adopted
  <2>1. SaveLanded BY <1>1, RowMoves
  <2>2. PICK e \in Editors : tx[e].op = "update" /\ tx'[e] = NoTx /\ tx[e].version = row.version
    BY <2>1 DEF SaveLanded
  <2> QED BY <1>1, <2>2 DEF ScheduleInv, VersionTells
<1>2. ASSUME ScheduleInv, [Next]_vars
      PROVE  [(row.status = "pending" /\ row'.content # row.content) =>
                \E e \in Editors : /\ tx[e].op = "update" /\ tx'[e] = NoTx
                                   /\ tx[e].text = row.content \/ tx[e].adopted]_vars
  BY <1>1, <1>2
<1> QED BY <1>2, ScheduleInvHolds, PTL DEF Spec, FirstSaveWins

(* A worker never sends under a fence that a dialog was granted and none has *)
(* dropped, however far the clocks of the processes are apart.               *)
THEOREM WorkersWaitForEditors == Spec => NeverSentMidEdit
<1>1. ASSUME ScheduleInv, [Next]_vars, NEW w \in Workers, work'[w] # work[w],
             row'.status = "sent", row.status # "sent", NEW e \in Editors
      PROVE  ed[e].until <= clock
  <2>0. row \in RowRecords /\ ed \in [Editors -> DialogRecords] /\ work \in [Workers -> WorkRecords]
        /\ clock \in Nat
    BY <1>1, TypesOfState DEF ScheduleInv
  <2>1. row' # row /\ work' # work BY <1>1
  <2>2. PICK v \in Workers : Fire(v)
    <3>1. \A d \in Editors : ~Dialog(d)
      BY <2>1 DEF Dialog, Open, Close, BeginSendNow, BeginCancel, BeginUpdate, Begin
    <3>2. \A d \in Editors : ~Commit(d)
      BY <2>1 DEF Commit, LockForEdit, Update, SendNow, Cancel, End
    <3>3. /\ \A t \in Times : ~Schedule(t) /\ ~Tick /\ ~UNCHANGED vars
      BY <2>1 DEF Schedule, Tick, vars
    <3>4. \A v \in Workers : ~Report(v) /\ ~Crash(v) /\ \A j \in Jobs : ~Claim(v, j)
      BY <2>1 DEF Report, Crash, Claim
    <3> QED BY <1>1, <3>1, <3>2, <3>3, <3>4 DEF Next, vars, Tick
  <2>3. FireSends(v)
    <3>1. ASSUME FireDenied(v) PROVE FALSE
      <4>1. row' = MarkFailed(row) BY <3>1 DEF FireDenied
      <4>2. CASE row.status = "pending" BY <1>1, <2>0, <4>1, <4>2, RowFailed
      <4>3. CASE row.status # "pending" BY <1>1, <2>0, <4>1, <4>3 DEF MarkFailed, RowRecords
      <4> QED BY <4>2, <4>3
    <3>2. ASSUME FireThrows(v) PROVE FALSE
      <4>1. row.status = "pending" /\ row' = MarkFailed(Started(row))
        BY <2>1, <3>2 DEF FireThrows, CanStart
      <4> QED BY <1>1, <2>0, <4>1, RowFailed
    <3> QED BY <2>1, <2>2, <3>1, <3>2 DEF Fire, FireReads, FireContended
  <2>4. row.status = "pending" /\ row.fence <= work[v].now /\ work[v].phase = "read"
    BY <2>3 DEF FireSends, CanStart
  <2>5. work[v].now <= clock /\ ed[e].until <= row.fence
    BY <1>1, <2>4 DEF ScheduleInv, ReadsInPast, FencesKept
  <2>6. /\ work[v].now \in Nat /\ ed[e].until \in Nat /\ row.fence \in Nat
    BY <2>0 DEF WorkRecords, DialogRecords, RowRecords
  <2> QED BY <2>0, <2>4, <2>5, <2>6
<1>2. ASSUME ScheduleInv, [Next]_vars
      PROVE  [(\E w \in Workers : work'[w] # work[w]) /\ row'.status = "sent" /\ row.status # "sent" =>
                \A e \in Editors : ed[e].until <= clock]_vars
  BY <1>1, <1>2
<1> QED BY <1>2, ScheduleInvHolds, PTL DEF Spec, NeverSentMidEdit

(* Unless createMessage throws "late", the row with all its dialogs, workers *)
(* and clocks is the message that ScheduledPromise describes: edited while   *)
(* pending, settled once, sent with the text of the last save.               *)
THEOREM ScheduleKeepsPromise == ASSUME "late" \notin Faults PROVE Spec => ImplementsPromise
<1>1. Init => Promise!PromiseInit BY DEF Init, Promise!PromiseInit, NoRow, NotSent, Promise!NotSent
<1>2. ASSUME ScheduleInv, ScheduleInv', [Next]_vars
      PROVE  [Promise!PromiseNext]_Promise!promiseVars
  <2>1. /\ RowTells /\ RowTells' BY <1>2 DEF ScheduleInv
  <2>2. row.status = "pending" => message = NotSent BY <2>1 DEF RowTells
  <2>3. CASE row'.status = row.status /\ row'.content = row.content /\ message' = message
    BY <2>3 DEF Promise!promiseVars
  <2>4. CASE row.status = "none" /\ row'.status = "pending" /\ row'.content = 1 /\ message' = message
    BY <2>4 DEF Promise!PromiseNext, Promise!PromiseSchedule
  <2>5. CASE /\ row.status = "pending" /\ row'.status = "pending" /\ message' = message
             /\ row'.content = row.content + 1
    BY <2>5 DEF Promise!PromiseNext, Promise!PromiseSave
  <2>6. CASE /\ row.status = "pending" /\ row'.status = "sent"
             /\ row'.content \in {row.content, row.content + 1}
    <3>1. message' = row'.content BY <2>1, <2>6 DEF RowTells
    <3> QED BY <2>6, <3>1 DEF Promise!PromiseNext, Promise!PromiseSend
  <2>7. CASE /\ row.status = "pending" /\ row'.status \in {"failed", "cancelled"}
             /\ row'.content = row.content
    <3>1. message' = NotSent BY <2>1, <2>7 DEF RowTells
    <3>2. message' = message BY <2>2, <2>7, <3>1
    <3> QED BY <2>7, <3>2 DEF Promise!PromiseNext, Promise!PromiseGiveUp
  <2> QED BY <1>2, <2>3, <2>4, <2>5, <2>6, <2>7, RowMoves
<1> QED BY <1>1, <1>2, ScheduleInvHolds, PTL DEF Spec, ImplementsPromise, Promise!PromiseSpec
=============================================================================
