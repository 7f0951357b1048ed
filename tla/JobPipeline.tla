----------------------------- MODULE JobPipeline -----------------------------
(***************************************************************************)
(* The workout-video job service after an upload has been finalized: the   *)
(* tail of the API's finalize handler, the Go workers and the reaper, over *)
(* the two stores they share, Redis (the live queues and job hashes) and   *)
(* DynamoDB (the durable job record that GET /jobs/:id reports).           *)
(*                                                                         *)
(* Every Redis transaction (TxPipeline, or WATCH + EXEC) is one action,    *)
(* since Redis runs it atomically and WATCH makes EXEC fail if the hash it *)
(* read has changed.  Every DynamoDB call is an action of its own, so that *)
(* everything can happen between the two.                                  *)
(*                                                                         *)
(* Time is abstracted: "beat" says whether the last heartbeat of a job is  *)
(* younger than the reaper's stale timeout.                                *)
(***************************************************************************)
EXTENDS Integers, Sequences, FiniteSets

CONSTANTS
    Jobs, Workers, Reapers,   \* ids
    NoJob,                    \* the job of a worker that has none
    WorkerMaxRetries,         \* MAX_RETRIES in the worker's environment
    ReaperMaxRetries,         \* MAX_RETRIES in the reaper's environment
    Faults                    \* which failures the environment may cause

\* api:       a finalize request dies between its two stores (client gone,
\*            Redis error, API crash)
\* worker:    a worker is killed, or a Redis call of it fails, in mid-job
\* reaper:    the same for a reaper
\* durable:   a DynamoDB call fails
\* staleRead: DynamoDB's default, eventually consistent, read returns an
\*            earlier version of the record
\* stall:     a live worker misses its heartbeats for the stale timeout
FaultKinds == {"api", "worker", "reaper", "durable", "staleRead", "stall"}

ASSUME PipelineAssumption ==
    /\ NoJob \notin Jobs
    /\ WorkerMaxRetries \in Nat
    /\ ReaperMaxRetries \in Nat
    /\ Faults \subseteq FaultKinds

VARIABLES
    hash,        \* Redis job:{id}: status, retry_count, failure_type, heartbeat
    pending,     \* Redis list queue:pending
    processing,  \* Redis list queue:processing: how often it holds each job
    retryable,   \* Redis set set:retryable_failed
    stats,       \* Redis counters stats:*
    durable,     \* DynamoDB: the status in the durable record of each job
    finalizing,  \* jobs whose finalize request has written DynamoDB, not Redis
    worker,      \* what each worker is doing: step, job, expected retry_count
    reaper       \* what each reaper is doing: phase, jobs left in its scan and
                 \* the DynamoDB update it still has to write

redis == <<hash, pending, processing, retryable, stats>>
vars  == <<redis, durable, finalizing, worker, reaper>>

Statuses == {"none", "queued", "in_progress", "completed", "failed"}
Failures == {"none", "processing_error", "stale_timeout", "poison_pill"}
DurableStatuses == {"uploading", "queued", "in_progress", "completed", "failed"}
Counters == {"submitted", "completed", "failed", "poison", "recoveredStale",
             "recoveredFailed"}

\* The steps of processJob before markJobInProgress, and those after it during
\* which the worker believes it owns the attempt.
PreMark  == {"load", "check", "mark"}
PostMark == {"start", "download", "run"}
Steps    == {"idle"} \cup PreMark \cup PostMark \cup {"finish", "fail"}

JobHash     == [status : Statuses, retry : 0..ReaperMaxRetries, failure : Failures,
                beat : {"none", "fresh", "old"}]
WorkerState == [pc : Steps \ {"idle"}, job : Jobs, retry : 0..ReaperMaxRetries]
                   \cup {[pc |-> "idle", job |-> NoJob, retry |-> 0]}
Outcome     == [job : Jobs, status : {"queued", "failed"}]
ReaperState == [phase : {"processing", "failed"}, todo : SUBSET Jobs,
                outcome : SUBSET Outcome]

TypeOK ==
    /\ hash \in [Jobs -> JobHash]
    /\ pending \in Seq(Jobs)
    /\ processing \in [Jobs -> Nat]
    /\ retryable \subseteq Jobs
    /\ stats \in [Counters -> Nat]
    /\ durable \in [Jobs -> DurableStatuses]
    /\ finalizing \subseteq Jobs
    /\ worker \in [Workers -> WorkerState]
    /\ reaper \in [Reapers -> ReaperState]

\* Worker w may still start the attempt it dequeued; it believes it owns it.
Claiming(w) == worker[w].pc \in PreMark
Owning(w)   == worker[w].pc \in PostMark

Idle     == [pc |-> "idle", job |-> NoJob, retry |-> 0]
NewCycle == [phase |-> "failed", todo |-> {}, outcome |-> {}]

Init ==
    /\ hash = [j \in Jobs |-> [status |-> "none", retry |-> 0,
                               failure |-> "none", beat |-> "none"]]
    /\ pending = << >>
    /\ processing = [j \in Jobs |-> 0]
    /\ retryable = {}
    /\ stats = [c \in Counters |-> 0]
    /\ durable = [j \in Jobs |-> "uploading"]
    /\ finalizing = {}
    /\ worker = [w \in Workers |-> Idle]
    /\ reaper = [r \in Reapers |-> NewCycle]

-----------------------------------------------------------------------------
(* Helpers for the Redis commands.                                         *)

\* LREM queue:processing 1 j: removes one occurrence, if there is one.
LRem(j) == processing' = [processing EXCEPT ![j] = IF @ > 0 THEN @ - 1 ELSE 0]

\* INCR of each counter in C.
Incr(C) == stats' = [c \in Counters |-> IF c \in C THEN stats[c] + 1 ELSE stats[c]]

SetHash(j, status, retry, failure, beat) ==
    hash' = [hash EXCEPT ![j] = [status |-> status, retry |-> retry,
                                 failure |-> failure, beat |-> beat]]

SetBeat(j, beat) ==
    SetHash(j, hash[j].status, hash[j].retry, hash[j].failure, beat)

-----------------------------------------------------------------------------
(* API: the two writes of HybridJobStore.FinalizeUploadJob.                *)

\* DynamoDB PutItem with status queued.
PutQueuedJob(j) ==
    /\ durable[j] = "uploading"
    /\ durable' = [durable EXCEPT ![j] = "queued"]
    /\ finalizing' = finalizing \cup {j}
    /\ UNCHANGED <<redis, worker, reaper>>

\* Variant with a bug, to test the properties: the id is never pushed.
EnqueueJobUnpushed(j) ==
    /\ j \in finalizing
    /\ finalizing' = finalizing \ {j}
    /\ SetHash(j, "queued", 0, "none", "none")
    /\ Incr({"submitted"})
    /\ UNCHANGED <<pending, processing, retryable, durable, worker, reaper>>

\* The Redis transaction: the job hash, the pending queue and the counter.
EnqueueJob(j) ==
    /\ j \in finalizing
    /\ finalizing' = finalizing \ {j}
    /\ SetHash(j, "queued", 0, "none", "none")
    /\ pending' = Append(pending, j)
    /\ Incr({"submitted"})
    /\ UNCHANGED <<processing, retryable, durable, worker, reaper>>

\* The request ends between the two; its client gets an error or is gone.
AbortFinalize(j) ==
    /\ "api" \in Faults
    /\ j \in finalizing
    /\ finalizing' = finalizing \ {j}
    /\ UNCHANGED <<redis, durable, worker, reaper>>

-----------------------------------------------------------------------------
(* Worker: one processJob at a time.                                       *)

At(w, pc) == worker[w].pc = pc

SetWorker(w, pc, j, retry) ==
    worker' = [worker EXCEPT ![w] = [pc |-> pc, job |-> j, retry |-> retry]]

Goto(w, pc) == SetWorker(w, pc, worker[w].job, worker[w].retry)
Return(w)   == worker' = [worker EXCEPT ![w] = Idle]

\* BLMOVE queue:pending queue:processing LEFT RIGHT.
Dequeue(w) ==
    /\ At(w, "idle")
    /\ pending # << >>
    /\ LET j == Head(pending)
       IN  /\ processing' = [processing EXCEPT ![j] = @ + 1]
           /\ SetWorker(w, "load", j, 0)
    /\ pending' = Tail(pending)
    /\ UNCHANGED <<hash, retryable, stats, durable, finalizing, reaper>>

\* Variant with a bug: the worker expects retry_count 0, as if it never read it.
LoadHashBlindly(w) ==
    /\ At(w, "load")
    /\ SetWorker(w, "check", worker[w].job, 0)
    /\ UNCHANGED <<redis, durable, finalizing, reaper>>

\* HGETALL of the hash: the retry_count read here identifies the attempt.
LoadHash(w) ==
    /\ At(w, "load")
    /\ SetWorker(w, "check", worker[w].job, hash[worker[w].job].retry)
    /\ UNCHANGED <<redis, durable, finalizing, reaper>>

\* Variants with a bug: a check of the status only, or of the retry_count only.
OwnsAnyAttempt(w)  == hash[worker[w].job].status = "in_progress"
OwnsEndedAttempt(w) == hash[worker[w].job].retry = worker[w].retry

\* withActiveAttempt: the attempt is w's if the hash is in progress with the
\* retry_count w expects.  Otherwise the attempt is lost and w returns.
OwnsAttempt(w) ==
    /\ hash[worker[w].job].status = "in_progress"
    /\ hash[worker[w].job].retry = worker[w].retry

LoseAttempt(w) == ~OwnsAttempt(w) /\ Return(w) /\ UNCHANGED redis

\* Variant with a bug: a job to retry is not added to set:retryable_failed.
FailAttemptUnlisted(w) ==
    LET j == worker[w].job
    IN  /\ OwnsAttempt(w)
        /\ LRem(j)
        /\ SetHash(j, "failed", hash[j].retry, "processing_error", "fresh")
        /\ Goto(w, "fail")
        /\ UNCHANGED <<pending, retryable, stats>>

\* The Redis transaction of finalizeProcessingFailure.
FailAttempt(w) ==
    LET j == worker[w].job
    IN  /\ OwnsAttempt(w)
        /\ LRem(j)
        /\ IF worker[w].retry >= WorkerMaxRetries
           THEN /\ SetHash(j, "failed", hash[j].retry, "poison_pill", "fresh")
                /\ retryable' = retryable \ {j}
                /\ Incr({"failed", "poison"})
           ELSE /\ SetHash(j, "failed", hash[j].retry, "processing_error", "fresh")
                /\ retryable' = retryable \cup {j}
                /\ UNCHANGED stats
        /\ Goto(w, "fail")
        /\ UNCHANGED pending

FinalizeProcessingFailure(w) == FailAttempt(w) \/ LoseAttempt(w)

\* The worker reads the durable status and goes on only if it is queued.  An
\* eventually consistent read may return any earlier version of the record, and
\* every job was once uploading and once queued.
CheckAccepts(w) ==
    /\ At(w, "check")
    /\ durable[worker[w].job] = "queued" \/ "staleRead" \in Faults
    /\ Goto(w, "mark")
    /\ UNCHANGED <<redis, durable, finalizing, reaper>>

CheckRejects(w) ==
    /\ At(w, "check")
    /\ durable[worker[w].job] # "queued" \/ Faults \cap {"durable", "staleRead"} # {}
    /\ FinalizeProcessingFailure(w)
    /\ UNCHANGED <<durable, finalizing, reaper>>

\* markJobInProgress: an unconditional transaction, retry_count is untouched.
MarkInProgress(w) ==
    LET j == worker[w].job
    IN  /\ At(w, "mark")
        /\ SetHash(j, "in_progress", hash[j].retry, "none", "fresh")
        /\ retryable' = retryable \ {j}
        /\ Goto(w, "start")
        /\ UNCHANGED <<pending, processing, stats, durable, finalizing, reaper>>

\* DynamoDB MarkInProgress; its failure is only logged.
WriteStarted(w) ==
    /\ At(w, "start")
    /\ \/ durable' = [durable EXCEPT ![worker[w].job] = "in_progress"]
       \/ "durable" \in Faults /\ UNCHANGED durable
    /\ Goto(w, "download")
    /\ UNCHANGED <<redis, finalizing, reaper>>

\* The video is downloaded and probed, without heartbeats.
Probe(w) ==
    /\ At(w, "download")
    /\ Goto(w, "run")
    /\ UNCHANGED <<redis, durable, finalizing, reaper>>

\* Download or ffprobe fails.
ProbeFails(w) ==
    /\ At(w, "download")
    /\ FinalizeProcessingFailure(w)
    /\ UNCHANGED <<durable, finalizing, reaper>>

\* A tick of runProcessingWithHeartbeat.
Heartbeat(w) ==
    /\ At(w, "run")
    /\ \/ /\ OwnsAttempt(w)
          /\ SetBeat(worker[w].job, "fresh")
          /\ UNCHANGED <<pending, processing, retryable, stats, worker>>
       \/ LoseAttempt(w)
    /\ UNCHANGED <<durable, finalizing, reaper>>

\* Variant with a bug: a worker that lost its attempt goes on as if it had
\* completed it.
CompleteRegardless(w) ==
    LET j == worker[w].job
    IN  /\ At(w, "run")
        /\ IF OwnsAttempt(w)
           THEN /\ SetHash(j, "completed", hash[j].retry, "none", "fresh")
                /\ LRem(j)
                /\ retryable' = retryable \ {j}
                /\ Incr({"completed"})
                /\ UNCHANGED pending
           ELSE UNCHANGED redis
        /\ Goto(w, "finish")
        /\ UNCHANGED <<durable, finalizing, reaper>>

\* markJobCompleted.
CompleteAttempt(w) ==
    LET j == worker[w].job
    IN  /\ At(w, "run")
        /\ \/ /\ OwnsAttempt(w)
              /\ SetHash(j, "completed", hash[j].retry, "none", "fresh")
              /\ LRem(j)
              /\ retryable' = retryable \ {j}
              /\ Incr({"completed"})
              /\ Goto(w, "finish")
              /\ UNCHANGED pending
           \/ LoseAttempt(w)
        /\ UNCHANGED <<durable, finalizing, reaper>>

\* DynamoDB MarkCompleted or MarkFailed; a failure is only logged.
WriteResult(w) ==
    /\ \/ /\ At(w, "finish")
          /\ durable' = [durable EXCEPT ![worker[w].job] = "completed"]
       \/ /\ At(w, "fail")
          /\ durable' = [durable EXCEPT ![worker[w].job] = "failed"]
       \/ /\ worker[w].pc \in {"finish", "fail"}
          /\ "durable" \in Faults
          /\ UNCHANGED durable
    /\ Return(w)
    /\ UNCHANGED <<redis, finalizing, reaper>>

\* The worker is killed and restarted, or a Redis call fails and processJob
\* returns: in both cases the worker forgets the job and the stores stay as
\* they are.
AbandonJob(w) ==
    /\ "worker" \in Faults
    /\ ~At(w, "idle")
    /\ Return(w)
    /\ UNCHANGED <<redis, durable, finalizing, reaper>>

-----------------------------------------------------------------------------
(* Reaper: runRecoveryCycle, a scan of queue:processing and then one of    *)
(* set:retryable_failed.  Scans take a snapshot and then visit its jobs.   *)

NothingToWrite(r) == reaper[r].outcome = {}

SetReaper(r, phase, todo, outcome) ==
    reaper' = [reaper EXCEPT ![r] = [phase |-> phase, todo |-> todo,
                                     outcome |-> outcome]]

Scan(r, after, phase, jobs) ==
    /\ NothingToWrite(r)
    /\ reaper[r].phase = after
    /\ reaper[r].todo = {}
    /\ SetReaper(r, phase, jobs, {})
    /\ UNCHANGED <<redis, durable, finalizing, worker>>

ScanProcessing(r) == Scan(r, "failed", "processing", {j \in Jobs : processing[j] > 0})
ScanFailed(r)     == Scan(r, "processing", "failed", retryable)

\* Reaper r visits job j and leaves itself the update o of the durable record.
Visit(r, phase, j, o) ==
    /\ NothingToWrite(r)
    /\ reaper[r].phase = phase
    /\ j \in reaper[r].todo
    /\ SetReaper(r, phase, reaper[r].todo \ {j}, o)
    /\ UNCHANGED <<durable, finalizing, worker>>

\* RPUSH queue:pending j with the hash reset and retry_count + 1.
Requeue(j, failure) ==
    /\ SetHash(j, "queued", hash[j].retry + 1, failure, "none")
    /\ pending' = Append(pending, j)

IsStale(j)     == hash[j].status = "in_progress" /\ hash[j].beat = "old"
\* Variant with a bug: one retry too many.
RetriesLeftOrNone(j) == hash[j].retry <= ReaperMaxRetries
RetriesLeft(j) == hash[j].retry < ReaperMaxRetries
IsRetryable(j) == hash[j].status = "failed" /\ hash[j].failure = "processing_error"

\* recoverProcessingJob, a job that is no longer in progress: its entry goes.
DropEntry(r, j) ==
    /\ hash[j].status # "in_progress"
    /\ LRem(j)
    /\ Visit(r, "processing", j, {})
    /\ UNCHANGED <<hash, pending, retryable, stats>>

\* Variant with a bug: the entry of a job in progress is removed.
DropLiveEntry(r, j) ==
    /\ hash[j].status = "in_progress"
    /\ ~IsStale(j)
    /\ LRem(j)
    /\ Visit(r, "processing", j, {})
    /\ UNCHANGED <<hash, pending, retryable, stats>>

\* recoverProcessingJob, a job with a recent heartbeat.
LeaveEntry(r, j) ==
    /\ hash[j].status = "in_progress"
    /\ ~IsStale(j)
    /\ Visit(r, "processing", j, {})
    /\ UNCHANGED redis

\* Variants with a bug: the hash is not looked at again within the transaction, or
\* the entry stays in the processing list.
RequeueStaleUnwatched(r, j) ==
    /\ RetriesLeft(j)
    /\ LRem(j)
    /\ Requeue(j, "stale_timeout")
    /\ Incr({"recoveredStale"})
    /\ Visit(r, "processing", j, {[job |-> j, status |-> "queued"]})
    /\ UNCHANGED retryable

RequeueStaleLeavingEntry(r, j) ==
    /\ IsStale(j)
    /\ RetriesLeft(j)
    /\ Requeue(j, "stale_timeout")
    /\ Incr({"recoveredStale"})
    /\ Visit(r, "processing", j, {[job |-> j, status |-> "queued"]})
    /\ UNCHANGED <<processing, retryable>>

\* recoverProcessingJob, a stale job with retries left.
RequeueStale(r, j) ==
    /\ IsStale(j)
    /\ RetriesLeft(j)
    /\ LRem(j)
    /\ Requeue(j, "stale_timeout")
    /\ Incr({"recoveredStale"})
    /\ Visit(r, "processing", j, {[job |-> j, status |-> "queued"]})
    /\ UNCHANGED retryable

\* recoverProcessingJob, a stale job without retries left.
PoisonStale(r, j) ==
    /\ IsStale(j)
    /\ ~RetriesLeft(j)
    /\ LRem(j)
    /\ SetHash(j, "failed", hash[j].retry, "poison_pill", hash[j].beat)
    /\ retryable' = retryable \ {j}
    /\ Incr({"failed", "poison"})
    /\ Visit(r, "processing", j, {[job |-> j, status |-> "failed"]})
    /\ UNCHANGED pending

\* Variant with a bug: every job of the set is forgotten.
ForgetAnyFailed(r, j) ==
    /\ retryable' = retryable \ {j}
    /\ Visit(r, "failed", j, {})
    /\ UNCHANGED <<hash, pending, processing, stats>>

\* recoverFailedJob, a job that is not waiting for a retry any more.
ForgetFailed(r, j) ==
    /\ ~IsRetryable(j)
    /\ retryable' = retryable \ {j}
    /\ Visit(r, "failed", j, {})
    /\ UNCHANGED <<hash, pending, processing, stats>>

\* recoverFailedJob, a failed job with retries left.
RequeueFailed(r, j) ==
    /\ IsRetryable(j)
    /\ RetriesLeft(j)
    /\ retryable' = retryable \ {j}
    /\ Requeue(j, "processing_error")
    /\ Incr({"recoveredFailed"})
    /\ Visit(r, "failed", j, {[job |-> j, status |-> "queued"]})
    /\ UNCHANGED processing

\* Variant with a bug: the reaper trusts its scan.
PoisonFailedUnwatched(r, j) ==
    /\ ~RetriesLeft(j)
    /\ retryable' = retryable \ {j}
    /\ SetHash(j, "failed", hash[j].retry, "poison_pill", hash[j].beat)
    /\ Incr({"failed", "poison"})
    /\ Visit(r, "failed", j, {[job |-> j, status |-> "failed"]})
    /\ UNCHANGED <<pending, processing>>

\* recoverFailedJob, a failed job without retries left.
PoisonFailed(r, j) ==
    /\ IsRetryable(j)
    /\ ~RetriesLeft(j)
    /\ retryable' = retryable \ {j}
    /\ SetHash(j, "failed", hash[j].retry, "poison_pill", hash[j].beat)
    /\ Incr({"failed", "poison"})
    /\ Visit(r, "failed", j, {[job |-> j, status |-> "failed"]})
    /\ UNCHANGED <<pending, processing>>

\* DynamoDB MarkRecoveryOutcome, after the Redis transaction and outside it; a
\* failure is only logged.
WriteOutcome(r) ==
    /\ \E o \in reaper[r].outcome :
         \/ durable' = [durable EXCEPT ![o.job] = o.status]
         \/ "durable" \in Faults /\ UNCHANGED durable
    /\ SetReaper(r, reaper[r].phase, reaper[r].todo, {})
    /\ UNCHANGED <<redis, finalizing, worker>>

\* A Redis error during the visit of j: logged, the scan goes on.
VisitFails(r, j) ==
    /\ "reaper" \in Faults
    /\ Visit(r, reaper[r].phase, j, {})
    /\ UNCHANGED redis

\* The reaper is killed and restarted; an update it had to write is lost.
RestartReaper(r) ==
    /\ "reaper" \in Faults
    /\ reaper' = [reaper EXCEPT ![r] = NewCycle]
    /\ UNCHANGED <<redis, durable, finalizing, worker>>

-----------------------------------------------------------------------------
(* Time.                                                                   *)

\* Worker w is in the heartbeat loop of the current attempt of job j.
Beats(w, j) == At(w, "run") /\ worker[w].job = j /\ OwnsAttempt(w)

\* The stale timeout passes since the last heartbeat of j.  Nothing refreshes
\* the heartbeat before the loop starts, so a long download or DynamoDB call is
\* enough; in the loop the worker must stall.
HeartbeatExpires(j) ==
    /\ hash[j].status = "in_progress"
    /\ hash[j].beat = "fresh"
    /\ "stall" \in Faults \/ ~ \E w \in Workers : Beats(w, j)
    /\ SetBeat(j, "old")
    /\ UNCHANGED <<pending, processing, retryable, stats, durable, finalizing,
                   worker, reaper>>

-----------------------------------------------------------------------------
ApiStep(j) == PutQueuedJob(j) \/ EnqueueJob(j) \/ AbortFinalize(j)

WorkerStep(w) ==
    \/ LoadHash(w) \/ CheckAccepts(w) \/ CheckRejects(w) \/ MarkInProgress(w)
    \/ WriteStarted(w) \/ Probe(w) \/ ProbeFails(w) \/ CompleteAttempt(w)
    \/ WriteResult(w)

RecoverProcessingJob(r, j) ==
    DropEntry(r, j) \/ LeaveEntry(r, j) \/ RequeueStale(r, j) \/ PoisonStale(r, j)

RecoverFailedJob(r, j) ==
    ForgetFailed(r, j) \/ RequeueFailed(r, j) \/ PoisonFailed(r, j)

ReaperStep(r) ==
    \/ ScanProcessing(r) \/ ScanFailed(r) \/ WriteOutcome(r)
    \/ \E j \in Jobs : RecoverProcessingJob(r, j) \/ RecoverFailedJob(r, j)

Next ==
    \/ \E j \in Jobs : ApiStep(j) \/ HeartbeatExpires(j)
    \/ \E w \in Workers :
           Dequeue(w) \/ WorkerStep(w) \/ Heartbeat(w) \/ AbandonJob(w)
    \/ \E r \in Reapers :
           ReaperStep(r) \/ RestartReaper(r) \/ \E j \in Jobs : VisitFails(r, j)

Spec == Init /\ [][Next]_vars

\* A request in progress goes on, an idle worker takes a job, a worker makes
\* progress on its job, its analysis timer fires, the reaper's loop goes on, and
\* time passes.  Nothing is assumed of faults and heartbeats.
Fairness ==
    /\ \A j \in Jobs : WF_vars(EnqueueJob(j)) /\ WF_vars(HeartbeatExpires(j))
    /\ \A w \in Workers : WF_vars(Dequeue(w)) /\ WF_vars(WorkerStep(w))
    /\ \A r \in Reapers : WF_vars(ReaperStep(r))

FairSpec == Spec /\ Fairness

-----------------------------------------------------------------------------
(* Properties.                                                             *)

\* What entitles somebody to start an attempt of job j: an entry of the pending
\* queue, or a worker between BLMOVE and markJobInProgress.
Claims(j) ==
    {<<"entry", i>> : i \in {k \in DOMAIN pending : pending[k] = j}}
    \cup {<<"worker", w>> : w \in {v \in Workers : Claiming(v) /\ worker[v].job = j}}

\* At any time at most one entry or worker can start an attempt of a job, and
\* only while Redis says it is queued.  This is what makes the unconditional
\* markJobInProgress safe: nothing in that transaction checks the status.
SingleClaim ==
    \A j \in Jobs :
        /\ \A c, d \in Claims(j) : c = d
        /\ Claims(j) # {} => hash[j].status = "queued"

\* At most one worker passes the check of withActiveAttempt for a job, although
\* the check compares retry_count and never worker_id: a worker that was given
\* up as stale cannot act on the attempt of its successor.
OneOwner ==
    \A v, w \in Workers :
        /\ Owning(v) /\ OwnsAttempt(v)
        /\ Owning(w) /\ OwnsAttempt(w)
        /\ worker[v].job = worker[w].job
        => v = w

\* However workers, stale workers and the reaper move it around, a job id is in
\* the two Redis lists at most once, so a recovery never doubles the work.
OneQueueEntry ==
    \A j \in Jobs :
        Cardinality({i \in DOMAIN pending : pending[i] = j}) + processing[j] <= 1

\* set:retryable_failed holds exactly the jobs whose hash says that they failed
\* with a processing error: no failed job is left out of the reaper's scan.
RetryableIsExact ==
    \A j \in Jobs : j \in retryable <=> IsRetryable(j)

\* The API never reports a completion that Redis has not accepted, however late
\* a DynamoDB write of a superseded worker or reaper arrives.
DurableCompletionIsReal ==
    \A j \in Jobs : durable[j] = "completed" => hash[j].status = "completed"

\* The counters GET /metrics reports agree with the job hashes: no outcome is
\* counted twice or missed, and every recovery is a retry of some job.
CountersAgree ==
    LET NumberOf(status) == Cardinality({j \in Jobs : hash[j].status = status})
        Retries == {a \in Jobs \X (1..ReaperMaxRetries) : a[2] <= hash[a[1]].retry}
    IN  /\ stats["submitted"] = Cardinality(Jobs) - NumberOf("none")
        /\ stats["completed"] = NumberOf("completed")
        /\ stats["failed"] = Cardinality({j \in Jobs : hash[j].failure = "poison_pill"})
        /\ stats["poison"] = stats["failed"]
        /\ stats["recoveredStale"] + stats["recoveredFailed"] = Cardinality(Retries)

\* The inductive invariant behind these properties.

\* Entries and claiming workers hold queued jobs, and each job at most once.
ClaimInv ==
    /\ \A i \in DOMAIN pending : hash[pending[i]].status = "queued"
    /\ \A i, k \in DOMAIN pending : pending[i] = pending[k] => i = k
    /\ \A w \in Workers : Claiming(w) =>
           /\ hash[worker[w].job].status = "queued"
           /\ \A i \in DOMAIN pending : pending[i] # worker[w].job
    /\ \A v, w \in Workers :
           Claiming(v) /\ Claiming(w) /\ worker[v].job = worker[w].job => v = w

\* A retry_count identifies an attempt: the one a worker has loaded is current
\* until it marks the job, every later attempt of the job has a larger one, and
\* two workers never share one.
AttemptInv ==
    /\ \A w \in Workers : worker[w].pc \in {"check", "mark"} =>
           worker[w].retry = hash[worker[w].job].retry
    /\ \A w \in Workers : Owning(w) =>
           /\ hash[worker[w].job].status # "none"
           /\ worker[w].retry <= hash[worker[w].job].retry
           /\ hash[worker[w].job].status = "queued" =>
                  worker[w].retry < hash[worker[w].job].retry
    /\ \A v, w \in Workers :
           /\ Owning(v) /\ Owning(w)
           /\ worker[v].job = worker[w].job
           /\ worker[v].retry = worker[w].retry
           => v = w

\* Redis has no hash of a job before the Redis half of its finalize request.
AbsentInv ==
    \A j \in Jobs :
        /\ hash[j].status = "none" => hash[j].retry = 0
        /\ j \in finalizing => hash[j].status = "none"
        /\ durable[j] = "uploading" => hash[j].status = "none" /\ j \notin finalizing

\* The processing list holds a job at most once, and neither a job that is in the
\* pending list nor one whose attempt has ended.
ProcessingInv ==
    /\ \A j \in Jobs :
           /\ processing[j] <= 1
           /\ hash[j].status \in {"none", "completed", "failed"} => processing[j] = 0
    /\ \A i \in DOMAIN pending : processing[pending[i]] = 0

\* Only a worker whose completion Redis has accepted reports it to DynamoDB.
ResultInv ==
    /\ DurableCompletionIsReal
    /\ \A w \in Workers :
           worker[w].pc = "finish" => hash[worker[w].job].status = "completed"

IndInv ==
    /\ TypeOK /\ ClaimInv /\ AttemptInv /\ AbsentInv /\ ProcessingInv
    /\ ResultInv /\ RetryableIsExact

\* A worker that is alive, reads DynamoDB consistently and gets no error from it
\* never strands a first attempt, even when the reaper takes the entry of a slow
\* worker away: the job is claimed, or some worker owns it.
FirstAttemptIsHeld ==
    Faults \cap {"worker", "durable", "staleRead"} = {} =>
    \A j \in Jobs :
        /\ hash[j].status = "queued" /\ hash[j].retry = 0 => Claims(j) # {}
        /\ hash[j].status = "in_progress" =>
               \E w \in Workers : Owning(w) /\ worker[w].job = j /\ OwnsAttempt(w)

\* The service keeps the promise of JobLifecycle.
Phase(h) ==
    CASE h.status = "none"        -> "absent"
      [] h.status = "queued"      -> "waiting"
      [] h.status = "in_progress" -> "running"
      [] h.status = "completed"   -> "completed"
      [] h.status = "failed" /\ h.failure = "poison_pill" -> "poisoned"
      [] OTHER                    -> "failed"

Lifecycle == INSTANCE JobLifecycle WITH
    MaxRetries <- ReaperMaxRetries,
    job <- [j \in Jobs |-> [phase |-> Phase(hash[j]), attempt |-> hash[j].retry]]

ImplementsLifecycle == Lifecycle!LSpec

\* A job whose processing failed is given another attempt or declared a poison
\* pill, by a reaper that keeps running.
FailureIsHandled ==
    \A j \in Jobs : IsRetryable(j) ~> ~IsRetryable(j)

\* A job in progress whose worker has gone, and whose entry is still in the
\* processing list, does not stay in progress.
Abandoned(j) ==
    /\ hash[j].status = "in_progress"
    /\ processing[j] > 0
    /\ ~ \E w \in Workers : Owning(w) /\ worker[w].job = j /\ OwnsAttempt(w)

AbandonedIsRecovered ==
    \A j \in Jobs : Abandoned(j) ~> hash[j].status # "in_progress"

\* Without faults every accepted upload gets a first attempt that ends.
FirstAttemptEnds ==
    \A j \in Jobs :
        j \in finalizing ~> \/ hash[j].retry > 0
                            \/ hash[j].status \in {"completed", "failed"}

\* What the repository says of the service and the code does not keep.

\* "requeued after processing error" (reaper) says that the job is queued again: it
\* is in the pending list or a worker has just taken it from there.  A worker that
\* takes it before the reaper has updated DynamoDB gives it up: the durable status is
\* not queued, and the failure it then reports is not recorded, because the hash is
\* not in progress either.
RequeuedJobIsHeld ==
    \A j \in Jobs : hash[j].status = "queued" /\ hash[j].retry > 0 => Claims(j) # {}
=============================================================================
