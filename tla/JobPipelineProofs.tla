-------------------------- MODULE JobPipelineProofs --------------------------
(***************************************************************************)
(* Proofs about JobPipeline, for any jobs, workers, reapers, retry limits  *)
(* and faults: the types, the inductive invariant IndInv and the safety    *)
(* properties that follow from it, that the pipeline implements            *)
(* JobLifecycle, that the counters of /metrics add up, and that a first    *)
(* attempt is never left behind while no worker dies.                      *)
(***************************************************************************)
EXTENDS JobPipeline, FiniteSetTheorems, TLAPS

-----------------------------------------------------------------------------
(* Type correctness.  The first lemmas type the results of the helpers; the *)
(* actions are then typed with the helpers left closed.                     *)

LEMMA HashType ==
    ASSUME TypeOK, NEW j \in Jobs, NEW status \in Statuses,
           NEW retry \in 0..ReaperMaxRetries, NEW failure \in Failures,
           NEW beat \in {"none", "fresh", "old"},
           SetHash(j, status, retry, failure, beat)
    PROVE  hash' \in [Jobs -> JobHash]
  BY DEF TypeOK, SetHash, JobHash

LEMMA HashFields ==
    ASSUME TypeOK, NEW j \in Jobs
    PROVE  /\ hash[j].status \in Statuses
           /\ hash[j].retry \in 0..ReaperMaxRetries
           /\ hash[j].failure \in Failures
           /\ hash[j].beat \in {"none", "fresh", "old"}
  BY DEF TypeOK, JobHash

LEMMA BeatType ==
    ASSUME TypeOK, NEW j \in Jobs, NEW beat \in {"none", "fresh", "old"},
           SetBeat(j, beat)
    PROVE  hash' \in [Jobs -> JobHash]
  BY HashFields, HashType DEF SetBeat

LEMMA LRemType ==
    ASSUME TypeOK, NEW j \in Jobs, LRem(j)
    PROVE  processing' \in [Jobs -> Nat]
  BY DEF TypeOK, LRem

LEMMA IncrType ==
    ASSUME TypeOK, NEW C, Incr(C)
    PROVE  stats' \in [Counters -> Nat]
  BY DEF TypeOK, Incr

LEMMA WorkerType ==
    ASSUME TypeOK, NEW w \in Workers, NEW pc \in Steps \ {"idle"}, NEW j \in Jobs,
           NEW retry \in 0..ReaperMaxRetries, SetWorker(w, pc, j, retry)
    PROVE  worker' \in [Workers -> WorkerState]
  BY DEF TypeOK, SetWorker, WorkerState

LEMMA WorkerFields ==
    ASSUME TypeOK, NEW w \in Workers, worker[w].pc # "idle"
    PROVE  worker[w].job \in Jobs /\ worker[w].retry \in 0..ReaperMaxRetries
  BY DEF TypeOK, WorkerState

LEMMA GotoType ==
    ASSUME TypeOK, NEW w \in Workers, worker[w].pc # "idle",
           NEW pc \in Steps \ {"idle"}, Goto(w, pc)
    PROVE  worker' \in [Workers -> WorkerState]
  BY WorkerFields, WorkerType DEF Goto

LEMMA ReturnType ==
    ASSUME TypeOK, NEW w \in Workers, Return(w)
    PROVE  worker' \in [Workers -> WorkerState]
  BY DEF TypeOK, Return, Idle, WorkerState

LEMMA ReaperType ==
    ASSUME TypeOK, NEW r \in Reapers, NEW phase \in {"processing", "failed"},
           NEW todo \in SUBSET Jobs, NEW outcome \in SUBSET Outcome,
           SetReaper(r, phase, todo, outcome)
    PROVE  reaper' \in [Reapers -> ReaperState]
  BY DEF TypeOK, SetReaper, ReaperState

LEMMA ReaperFields ==
    ASSUME TypeOK, NEW r \in Reapers
    PROVE  /\ reaper[r].phase \in {"processing", "failed"}
           /\ reaper[r].todo \in SUBSET Jobs
           /\ reaper[r].outcome \in SUBSET Outcome
  BY DEF TypeOK, ReaperState

LEMMA VisitType ==
    ASSUME TypeOK, NEW r \in Reapers, NEW phase \in {"processing", "failed"},
           NEW j \in Jobs, NEW o \in SUBSET Outcome, Visit(r, phase, j, o)
    PROVE  /\ reaper' \in [Reapers -> ReaperState]
           /\ UNCHANGED <<durable, finalizing, worker>>
  BY ReaperFields, ReaperType DEF Visit

LEMMA TypeInit == Init => TypeOK
  BY PipelineAssumption
  DEF Init, TypeOK, JobHash, WorkerState, ReaperState, Statuses, Failures,
      DurableStatuses, Counters, Idle, NewCycle

LEMMA FailureType ==
    ASSUME TypeOK, NEW w \in Workers, worker[w].pc # "idle",
           FinalizeProcessingFailure(w), UNCHANGED <<finalizing, reaper, durable>>
    PROVE  TypeOK'
<1>1. CASE LoseAttempt(w)
  BY <1>1, ReturnType DEF LoseAttempt, redis, TypeOK
<1>2. CASE FailAttempt(w)
  <2> DEFINE j == worker[w].job
  <2>1. j \in Jobs
    BY WorkerFields
  <2>2. processing' \in [Jobs -> Nat]
    BY <1>2, <2>1, LRemType DEF FailAttempt
  <2>3. hash' \in [Jobs -> JobHash] /\ retryable' \subseteq Jobs
    BY <1>2, <2>1, HashFields, HashType DEF FailAttempt, Statuses, Failures, TypeOK
  <2>4. stats' \in [Counters -> Nat]
    BY <1>2, IncrType DEF FailAttempt, TypeOK
  <2>5. worker' \in [Workers -> WorkerState]
    BY <1>2, GotoType DEF FailAttempt, Steps, PreMark, PostMark
  <2>6. QED
    BY <1>2, <2>2, <2>3, <2>4, <2>5 DEF FailAttempt, TypeOK
<1>3. QED
  BY <1>1, <1>2 DEF FinalizeProcessingFailure

LEMMA RequeueType ==
    ASSUME TypeOK, NEW j \in Jobs, RetriesLeft(j), NEW failure \in Failures,
           Requeue(j, failure)
    PROVE  hash' \in [Jobs -> JobHash] /\ pending' \in Seq(Jobs)
<1>1. hash[j].retry + 1 \in 0..ReaperMaxRetries
  BY HashFields, PipelineAssumption DEF RetriesLeft
<1>2. hash' \in [Jobs -> JobHash]
  BY <1>1, HashType DEF Requeue, Statuses
<1>3. pending' \in Seq(Jobs)
  BY DEF Requeue, TypeOK
<1>4. QED
  BY <1>2, <1>3

LEMMA ApiType ==
    ASSUME TypeOK, NEW j \in Jobs, ApiStep(j) \/ HeartbeatExpires(j)
    PROVE  TypeOK'
<1>1. CASE PutQueuedJob(j)
  BY <1>1 DEF PutQueuedJob, TypeOK, redis, DurableStatuses
<1>2. CASE EnqueueJob(j)
  <2>1. hash' \in [Jobs -> JobHash]
    BY <1>2, HashType, PipelineAssumption DEF EnqueueJob, Statuses, Failures
  <2>2. stats' \in [Counters -> Nat]
    BY <1>2, IncrType DEF EnqueueJob
  <2>3. pending' \in Seq(Jobs)
    BY <1>2 DEF EnqueueJob, TypeOK
  <2>4. QED
    BY <1>2, <2>1, <2>2, <2>3 DEF EnqueueJob, TypeOK
<1>3. CASE AbortFinalize(j)
  BY <1>3 DEF AbortFinalize, TypeOK, redis
<1>4. CASE HeartbeatExpires(j)
  BY <1>4, BeatType DEF HeartbeatExpires, TypeOK
<1>5. QED
  BY <1>1, <1>2, <1>3, <1>4 DEF ApiStep

LEMMA WorkerStepType ==
    ASSUME TypeOK, NEW w \in Workers,
           Dequeue(w) \/ WorkerStep(w) \/ Heartbeat(w) \/ AbandonJob(w)
    PROVE  TypeOK'
<1> USE DEF At, Steps, PreMark, PostMark
<1>1. CASE Dequeue(w)
  <2> DEFINE j == Head(pending)
  <2>1. j \in Jobs /\ pending' \in Seq(Jobs)
    BY <1>1 DEF Dequeue, TypeOK
  <2>2. worker' \in [Workers -> WorkerState]
    BY <1>1, <2>1, WorkerType, PipelineAssumption DEF Dequeue
  <2>3. QED
    BY <1>1, <2>1, <2>2 DEF Dequeue, TypeOK
<1>2. CASE LoadHash(w)
  BY <1>2, WorkerFields, HashFields, WorkerType DEF LoadHash, TypeOK, redis
<1>3. CASE CheckAccepts(w)
  BY <1>3, GotoType DEF CheckAccepts, TypeOK, redis
<1>4. CASE CheckRejects(w) \/ ProbeFails(w)
  BY <1>4, FailureType DEF CheckRejects, ProbeFails
<1>5. CASE MarkInProgress(w)
  <2> DEFINE j == worker[w].job
  <2>1. j \in Jobs
    BY <1>5, WorkerFields DEF MarkInProgress
  <2>2. hash' \in [Jobs -> JobHash]
    BY <1>5, <2>1, HashFields, HashType DEF MarkInProgress, Statuses, Failures
  <2>3. worker' \in [Workers -> WorkerState]
    BY <1>5, GotoType DEF MarkInProgress
  <2>4. QED
    BY <1>5, <2>2, <2>3 DEF MarkInProgress, TypeOK
<1>6. CASE WriteStarted(w)
  BY <1>6, WorkerFields, GotoType DEF WriteStarted, TypeOK, redis, DurableStatuses
<1>7. CASE Probe(w)
  BY <1>7, GotoType DEF Probe, TypeOK, redis
<1>8. CASE Heartbeat(w)
  <2>1. hash' \in [Jobs -> JobHash]
    BY <1>8, WorkerFields, BeatType DEF Heartbeat, LoseAttempt, redis, TypeOK
  <2>2. worker' \in [Workers -> WorkerState]
    BY <1>8, ReturnType DEF Heartbeat, LoseAttempt, TypeOK
  <2>3. QED
    BY <1>8, <2>1, <2>2 DEF Heartbeat, LoseAttempt, redis, TypeOK
<1>9. CASE CompleteAttempt(w)
  <2> DEFINE j == worker[w].job
  <2>1. j \in Jobs
    BY <1>9, WorkerFields DEF CompleteAttempt
  <2>2. hash' \in [Jobs -> JobHash]
    BY <1>9, <2>1, HashFields, HashType
    DEF CompleteAttempt, LoseAttempt, redis, TypeOK, Statuses, Failures
  <2>3. processing' \in [Jobs -> Nat] /\ stats' \in [Counters -> Nat]
    BY <1>9, <2>1, LRemType, IncrType DEF CompleteAttempt, LoseAttempt, redis, TypeOK
  <2>4. worker' \in [Workers -> WorkerState]
    BY <1>9, GotoType, ReturnType DEF CompleteAttempt, LoseAttempt
  <2>5. QED
    BY <1>9, <2>2, <2>3, <2>4 DEF CompleteAttempt, LoseAttempt, redis, TypeOK
<1>10. CASE WriteResult(w)
  BY <1>10, WorkerFields, ReturnType DEF WriteResult, TypeOK, redis, DurableStatuses
<1>11. CASE AbandonJob(w)
  BY <1>11, ReturnType DEF AbandonJob, TypeOK, redis
<1>12. QED
  BY <1>1, <1>2, <1>3, <1>4, <1>5, <1>6, <1>7, <1>8, <1>9, <1>10, <1>11
  DEF WorkerStep

LEMMA RecoverProcessingType ==
    ASSUME TypeOK, NEW r \in Reapers, NEW j \in Jobs, RecoverProcessingJob(r, j)
    PROVE  TypeOK'
<1>1. CASE DropEntry(r, j)
  BY <1>1, LRemType, VisitType DEF DropEntry, TypeOK
<1>2. CASE LeaveEntry(r, j)
  BY <1>2, VisitType DEF LeaveEntry, TypeOK, redis
<1>3. CASE RequeueStale(r, j)
  <2>1. hash' \in [Jobs -> JobHash] /\ pending' \in Seq(Jobs)
    BY <1>3, RequeueType DEF RequeueStale, Failures
  <2>2. reaper' \in [Reapers -> ReaperState] /\ UNCHANGED <<durable, finalizing, worker>>
    BY <1>3, VisitType DEF RequeueStale, Outcome
  <2>3. QED
    BY <1>3, <2>1, <2>2, LRemType, IncrType DEF RequeueStale, TypeOK
<1>4. CASE PoisonStale(r, j)
  <2>1. hash' \in [Jobs -> JobHash]
    BY <1>4, HashFields, HashType DEF PoisonStale, Failures, Statuses
  <2>2. reaper' \in [Reapers -> ReaperState] /\ UNCHANGED <<durable, finalizing, worker>>
    BY <1>4, VisitType DEF PoisonStale, Outcome
  <2>3. QED
    BY <1>4, <2>1, <2>2, LRemType, IncrType DEF PoisonStale, TypeOK
<1>5. QED
  BY <1>1, <1>2, <1>3, <1>4 DEF RecoverProcessingJob

LEMMA RecoverFailedType ==
    ASSUME TypeOK, NEW r \in Reapers, NEW j \in Jobs, RecoverFailedJob(r, j)
    PROVE  TypeOK'
<1>1. CASE ForgetFailed(r, j)
  BY <1>1, VisitType DEF ForgetFailed, TypeOK
<1>2. CASE RequeueFailed(r, j)
  <2>1. hash' \in [Jobs -> JobHash] /\ pending' \in Seq(Jobs)
    BY <1>2, RequeueType DEF RequeueFailed, Failures
  <2>2. reaper' \in [Reapers -> ReaperState] /\ UNCHANGED <<durable, finalizing, worker>>
    BY <1>2, VisitType DEF RequeueFailed, Outcome
  <2>3. QED
    BY <1>2, <2>1, <2>2, IncrType DEF RequeueFailed, TypeOK
<1>3. CASE PoisonFailed(r, j)
  <2>1. hash' \in [Jobs -> JobHash]
    BY <1>3, HashFields, HashType DEF PoisonFailed, Failures, Statuses
  <2>2. reaper' \in [Reapers -> ReaperState] /\ UNCHANGED <<durable, finalizing, worker>>
    BY <1>3, VisitType DEF PoisonFailed, Outcome
  <2>3. QED
    BY <1>3, <2>1, <2>2, IncrType DEF PoisonFailed, TypeOK
<1>4. QED
  BY <1>1, <1>2, <1>3 DEF RecoverFailedJob

LEMMA ReaperStepType ==
    ASSUME TypeOK, NEW r \in Reapers,
           \/ ReaperStep(r) \/ RestartReaper(r)
           \/ \E j \in Jobs : VisitFails(r, j)
    PROVE  TypeOK'
<1>1. CASE ScanProcessing(r) \/ ScanFailed(r)
  <2>1. reaper' \in [Reapers -> ReaperState]
    BY <1>1, ReaperType DEF ScanProcessing, ScanFailed, Scan, TypeOK
  <2>2. QED
    BY <1>1, <2>1 DEF ScanProcessing, ScanFailed, Scan, TypeOK, redis
<1>2. CASE WriteOutcome(r)
  <2>1. reaper' \in [Reapers -> ReaperState]
    <3>1. SetReaper(r, reaper[r].phase, reaper[r].todo, {})
      BY <1>2 DEF WriteOutcome
    <3>2. /\ reaper[r].phase \in {"processing", "failed"}
          /\ reaper[r].todo \in SUBSET Jobs
          /\ {} \in SUBSET Outcome
      BY ReaperFields
    <3>3. QED
      BY <3>1, <3>2, ReaperType
  <2>2. durable' \in [Jobs -> DurableStatuses]
    <3>1. PICK o \in reaper[r].outcome :
              \/ durable' = [durable EXCEPT ![o.job] = o.status]
              \/ UNCHANGED durable
      BY <1>2 DEF WriteOutcome
    <3>2. o \in Outcome
      BY ReaperFields
    <3>3. o.job \in Jobs /\ o.status \in DurableStatuses
      BY <3>2 DEF Outcome, DurableStatuses
    <3>4. QED
      BY <3>1, <3>3 DEF TypeOK
  <2>3. QED
    BY <1>2, <2>1, <2>2 DEF WriteOutcome, TypeOK, redis
<1>3. CASE \E j \in Jobs : VisitFails(r, j)
  <2>1. PICK j \in Jobs : Visit(r, reaper[r].phase, j, {}) /\ UNCHANGED redis
    BY <1>3 DEF VisitFails
  <2>2. reaper' \in [Reapers -> ReaperState] /\ UNCHANGED <<durable, finalizing, worker>>
    BY <2>1, ReaperFields, VisitType
  <2>3. QED
    BY <2>1, <2>2 DEF TypeOK, redis
<1>4. CASE RestartReaper(r)
  BY <1>4 DEF RestartReaper, NewCycle, TypeOK, ReaperState, redis
<1>5. QED
  BY <1>1, <1>2, <1>3, <1>4, RecoverProcessingType, RecoverFailedType DEF ReaperStep

LEMMA TypeStep == TypeOK /\ [Next]_vars => TypeOK'
<1>1. CASE UNCHANGED vars
  BY <1>1 DEF vars, redis, TypeOK
<1>2. QED
  BY <1>1, ApiType, WorkerStepType, ReaperStepType DEF Next

\* Every variable keeps its type; in particular no sequence of recoveries takes
\* a retry_count beyond the reaper's MAX_RETRIES, whatever the workers' limit.
THEOREM PipelineTypeCorrect == Spec => []TypeOK
  BY TypeInit, TypeStep, PTL DEF Spec

-----------------------------------------------------------------------------
(* What the helpers do to one job or worker, and that they leave the others *)
(* alone: with these facts the proofs below need no EXCEPT.                 *)

LEMMA HashAfter ==
    ASSUME TypeOK, NEW j \in Jobs, NEW status, NEW retry, NEW failure, NEW beat,
           SetHash(j, status, retry, failure, beat)
    PROVE  /\ hash'[j].status = status
           /\ hash'[j].retry = retry
           /\ hash'[j].failure = failure
           /\ \A k \in Jobs \ {j} : hash'[k] = hash[k]
  BY DEF TypeOK, SetHash

LEMMA WorkerAfter ==
    ASSUME TypeOK, NEW w \in Workers, NEW pc, NEW j, NEW retry,
           SetWorker(w, pc, j, retry)
    PROVE  /\ worker'[w].pc = pc
           /\ worker'[w].job = j
           /\ worker'[w].retry = retry
           /\ \A v \in Workers \ {w} : worker'[v] = worker[v]
  BY DEF TypeOK, SetWorker

LEMMA GotoAfter ==
    ASSUME TypeOK, NEW w \in Workers, NEW pc, Goto(w, pc)
    PROVE  /\ worker'[w].pc = pc
           /\ worker'[w].job = worker[w].job
           /\ worker'[w].retry = worker[w].retry
           /\ \A v \in Workers \ {w} : worker'[v] = worker[v]
  BY WorkerAfter DEF Goto

LEMMA ReturnAfter ==
    ASSUME TypeOK, NEW w \in Workers, Return(w)
    PROVE  /\ worker'[w].pc = "idle"
           /\ \A v \in Workers \ {w} : worker'[v] = worker[v]
  BY DEF TypeOK, Return, Idle

LEMMA LRemAfter ==
    ASSUME TypeOK, NEW j \in Jobs, LRem(j)
    PROVE  /\ processing[j] <= 1 => processing'[j] = 0
           /\ \A k \in Jobs \ {j} : processing'[k] = processing[k]
  BY DEF TypeOK, LRem

LEMMA AppendAfter ==
    ASSUME TypeOK, NEW j \in Jobs, pending' = Append(pending, j)
    PROVE  /\ Len(pending) \in Nat
           /\ DOMAIN pending = 1..Len(pending)
           /\ DOMAIN pending' = 1..(Len(pending) + 1)
           /\ pending'[Len(pending) + 1] = j
           /\ \A i \in DOMAIN pending : pending'[i] = pending[i] /\ pending[i] \in Jobs
  BY DEF TypeOK

LEMMA TailAfter ==
    ASSUME TypeOK, pending # << >>, pending' = Tail(pending)
    PROVE  /\ Len(pending) \in Nat
           /\ DOMAIN pending = 1..Len(pending)
           /\ DOMAIN pending' = 1..(Len(pending) - 1)
           /\ 1 \in DOMAIN pending /\ Head(pending) = pending[1]
           /\ \A i \in DOMAIN pending' : /\ i + 1 \in DOMAIN pending
                                         /\ pending'[i] = pending[i + 1]
           /\ \A i \in DOMAIN pending : pending[i] \in Jobs
  BY DEF TypeOK

LEMMA EntryIsJob ==
    ASSUME TypeOK
    PROVE  \A i \in DOMAIN pending : pending[i] \in Jobs
  BY DEF TypeOK

LEMMA ClaimerHasJob ==
    ASSUME TypeOK, NEW w \in Workers, worker[w].pc # "idle"
    PROVE  worker[w].job \in Jobs /\ worker[w].retry \in Nat
  BY WorkerFields, PipelineAssumption

-----------------------------------------------------------------------------
(* What a step does, as seen by the invariant.  Each lemma shows that the   *)
(* part of the invariant about claims and attempts survives one kind of     *)
(* change; the actions are instances of these kinds.                        *)

Core == ClaimInv /\ AttemptInv

\* A job nobody has a claim on is queued with a retry_count that no worker holds:
\* the finalize request and the reaper's two ways to requeue.
LEMMA CoreRequeue ==
    ASSUME TypeOK, TypeOK', Core, NEW j \in Jobs, NEW retry \in Nat,
           hash[j].status # "queued",
           \/ hash[j].status = "none"
           \/ hash[j].retry < retry,
           hash'[j].status = "queued",
           hash'[j].retry = retry,
           \A k \in Jobs \ {j} : hash'[k] = hash[k],
           pending' = Append(pending, j),
           UNCHANGED worker
    PROVE  Core'
<1> USE DEF Core, Claiming, Owning
<1>1. ClaimInv'
  BY AppendAfter, ClaimerHasJob DEF ClaimInv, PreMark
<1>2. AttemptInv'
  <2>1. ASSUME NEW w \in Workers, Owning(w), worker[w].job = j
        PROVE  worker[w].retry < retry
    BY <2>1, ClaimerHasJob, HashFields, PipelineAssumption
    DEF AttemptInv, PostMark
  <2>2. ASSUME NEW w \in Workers, Claiming(w) PROVE worker[w].job # j
    BY <2>2 DEF ClaimInv
  <2>3. \A w \in Workers : worker[w].pc \in {"check", "mark"} =>
           worker'[w].retry = hash'[worker'[w].job].retry
    BY <2>2, ClaimerHasJob DEF AttemptInv, PreMark
  <2>4. \A w \in Workers : Owning(w) =>
           /\ hash'[worker[w].job].status # "none"
           /\ worker[w].retry <= hash'[worker[w].job].retry
           /\ hash'[worker[w].job].status = "queued" =>
                  worker[w].retry < hash'[worker[w].job].retry
    BY <2>1, ClaimerHasJob DEF AttemptInv, PostMark
  <2>5. QED
    BY <2>3, <2>4 DEF AttemptInv
<1>3. QED
  BY <1>1, <1>2

\* Attempts end, heartbeats and timeouts pass, workers move on or give up: no
\* retry_count changes, no job becomes queued or ceases to be, no worker gains
\* a claim or an attempt.
LEMMA CoreFrame ==
    ASSUME TypeOK, TypeOK', Core,
           \A k \in Jobs :
              /\ hash'[k].retry = hash[k].retry
              /\ hash'[k].status = "queued" <=> hash[k].status = "queued"
              /\ hash'[k].status = "none" => hash[k].status = "none",
           UNCHANGED pending,
           \A v \in Workers :
              /\ Claiming(v)' => Claiming(v) /\ worker'[v].job = worker[v].job
              /\ Owning(v)' => /\ Owning(v)
                               /\ worker'[v].job = worker[v].job
                               /\ worker'[v].retry = worker[v].retry
              /\ worker'[v].pc \in {"check", "mark"} =>
                    worker'[v].retry = hash[worker[v].job].retry
    PROVE  Core'
<1> USE DEF Core, Claiming, Owning
<1>1. \A v \in Workers : Claiming(v)' \/ Owning(v)' => worker'[v].job \in Jobs
  BY ClaimerHasJob DEF PreMark, PostMark
<1>2. ClaimInv'
  BY <1>1, EntryIsJob DEF ClaimInv
<1>3. \A v \in Workers : worker'[v].pc \in {"check", "mark"} =>
         worker'[v].retry = hash'[worker'[v].job].retry
  BY <1>1 DEF PreMark
<1>4. AttemptInv'
  BY <1>1, <1>3 DEF AttemptInv
<1>5. QED
  BY <1>2, <1>4

\* A worker takes the head of the pending list.
LEMMA CoreDequeue ==
    ASSUME TypeOK, TypeOK', Core, NEW w \in Workers, Dequeue(w)
    PROVE  Core'
<1> USE DEF Core, Claiming, Owning
<1> DEFINE j == Head(pending)
<1>1. /\ worker'[w].pc = "load" /\ worker'[w].job = j
      /\ \A v \in Workers \ {w} : worker'[v] = worker[v]
      /\ pending # << >> /\ pending' = Tail(pending) /\ hash' = hash
      /\ worker[w].pc = "idle"
  BY WorkerAfter DEF Dequeue, At
<1>2. j \in Jobs /\ hash[j].status = "queued"
  BY <1>1, TailAfter DEF ClaimInv
<1>3. \A i \in DOMAIN pending' : pending'[i] # j
  BY <1>1, TailAfter DEF ClaimInv
<1>4. \A v \in Workers : Claiming(v) => worker[v].job # j
  BY <1>1, TailAfter DEF ClaimInv
<1>5. ClaimInv'
  <2>1. /\ \A i \in DOMAIN pending' : hash'[pending'[i]].status = "queued"
        /\ \A i, k \in DOMAIN pending' : pending'[i] = pending'[k] => i = k
    BY <1>1, TailAfter DEF ClaimInv
  <2>2. \A v \in Workers : Claiming(v)' =>
           /\ hash'[worker'[v].job].status = "queued"
           /\ \A i \in DOMAIN pending' : pending'[i] # worker'[v].job
    BY <1>1, <1>2, <1>3, TailAfter DEF ClaimInv
  <2>3. \A u, v \in Workers :
           Claiming(u)' /\ Claiming(v)' /\ worker'[u].job = worker'[v].job => u = v
    BY <1>1, <1>4 DEF ClaimInv
  <2>4. QED
    BY <2>1, <2>2, <2>3 DEF ClaimInv
<1>6. AttemptInv'
  BY <1>1 DEF AttemptInv, PostMark
<1>7. QED
  BY <1>5, <1>6

\* markJobInProgress turns the only claim on a job into its current attempt.
LEMMA CoreMark ==
    ASSUME TypeOK, TypeOK', Core, NEW w \in Workers, MarkInProgress(w)
    PROVE  Core'
<1> USE DEF Core, Claiming, Owning
<1> DEFINE j == worker[w].job
<1>1. j \in Jobs /\ Claiming(w) /\ worker[w].retry = hash[j].retry
  BY ClaimerHasJob DEF MarkInProgress, At, PreMark, AttemptInv
<1>2. /\ hash'[j].status = "in_progress" /\ hash'[j].retry = hash[j].retry
      /\ \A k \in Jobs \ {j} : hash'[k] = hash[k]
      /\ pending' = pending
  BY <1>1, HashAfter DEF MarkInProgress
<1>3. /\ worker'[w].pc = "start" /\ worker'[w].job = j
      /\ worker'[w].retry = worker[w].retry
      /\ \A v \in Workers \ {w} : worker'[v] = worker[v]
  BY GotoAfter DEF MarkInProgress
<1>4. hash[j].status = "queued" /\ \A i \in DOMAIN pending : pending[i] # j
  BY <1>1 DEF ClaimInv
<1>5. \A v \in Workers \ {w} : Claiming(v) => worker[v].job # j
  BY <1>1 DEF ClaimInv
<1>6. \A v \in Workers : Owning(v) /\ worker[v].job = j =>
         worker[v].retry < hash[j].retry
  BY <1>4 DEF AttemptInv
<1>7. ClaimInv'
  <2>1. /\ \A i \in DOMAIN pending' : hash'[pending'[i]].status = "queued"
        /\ \A i, k \in DOMAIN pending' : pending'[i] = pending'[k] => i = k
    BY <1>2, <1>4, EntryIsJob DEF ClaimInv
  <2>2. \A v \in Workers : Claiming(v)' =>
           /\ hash'[worker'[v].job].status = "queued"
           /\ \A i \in DOMAIN pending' : pending'[i] # worker'[v].job
    BY <1>2, <1>3, <1>5, ClaimerHasJob DEF ClaimInv, PreMark
  <2>3. \A u, v \in Workers :
           Claiming(u)' /\ Claiming(v)' /\ worker'[u].job = worker'[v].job => u = v
    BY <1>3 DEF ClaimInv, PreMark
  <2>4. QED
    BY <2>1, <2>2, <2>3 DEF ClaimInv
<1>8. AttemptInv'
  <2>1. \A v \in Workers : worker'[v].pc \in {"check", "mark"} =>
           worker'[v].retry = hash'[worker'[v].job].retry
    BY <1>2, <1>3, <1>5, ClaimerHasJob DEF AttemptInv, PreMark
  <2>2. \A v \in Workers \ {w} : Owning(v) =>
           /\ hash'[worker[v].job].status # "none"
           /\ worker[v].retry <= hash'[worker[v].job].retry
           /\ hash'[worker[v].job].status = "queued" =>
                  worker[v].retry < hash'[worker[v].job].retry
    BY <1>2, <1>6, ClaimerHasJob DEF AttemptInv, PostMark
  <2>3. /\ hash'[j].status # "none" /\ hash'[j].status # "queued"
        /\ worker[w].retry <= hash'[j].retry
    BY <1>1, <1>2, HashFields
  <2>4. \A v \in Workers \ {w} : Owning(v) /\ worker[v].job = j =>
           worker[v].retry # worker[w].retry
    BY <1>1, <1>6, ClaimerHasJob, HashFields DEF PostMark
  <2>5. QED
    BY <1>3, <2>1, <2>2, <2>3, <2>4 DEF AttemptInv
<1>9. QED
  BY <1>7, <1>8

-----------------------------------------------------------------------------
(* The steps.                                                              *)

Rest == AbsentInv /\ ProcessingInv /\ ResultInv /\ RetryableIsExact

LEMMA IndInvParts ==
    /\ IndInv <=> TypeOK /\ Core /\ Rest
    /\ IndInv' <=> TypeOK' /\ Core' /\ Rest'
  BY DEF IndInv, Core, Rest

LEMMA InvInit == Init => IndInv
<1> SUFFICES ASSUME Init PROVE IndInv
  OBVIOUS
<1>1. TypeOK
  BY TypeInit
<1>2. Core
  BY DEF Init, Core, ClaimInv, AttemptInv, Claiming, Owning, Idle, PreMark, PostMark
<1>3. Rest
  BY DEF Init, Rest, AbsentInv, ProcessingInv, ResultInv, DurableCompletionIsReal,
         RetryableIsExact, IsRetryable, Idle
<1>4. QED
  BY <1>1, <1>2, <1>3, IndInvParts

LEMMA InvApi ==
    ASSUME IndInv, TypeOK', NEW j \in Jobs, ApiStep(j)
    PROVE  IndInv'
<1> USE IndInvParts
<1>1. CASE PutQueuedJob(j) \/ AbortFinalize(j)
  <2>1. Core'
    BY <1>1, CoreFrame DEF PutQueuedJob, AbortFinalize, redis, Core, AttemptInv,
                           Claiming, Owning
  <2>2. /\ UNCHANGED <<hash, pending, processing, retryable, worker>>
        /\ \A k \in Jobs \ {j} : durable'[k] = durable[k]
        /\ \A k \in Jobs \ {j} : k \in finalizing' => k \in finalizing
        /\ durable'[j] = "uploading" => durable[j] = "uploading" /\ j \notin finalizing'
        /\ durable'[j] = "completed" => durable[j] = "completed"
        /\ j \in finalizing' => durable[j] = "uploading" \/ j \in finalizing
    BY <1>1 DEF PutQueuedJob, AbortFinalize, redis, TypeOK, Rest, AbsentInv
  <2>3. AbsentInv'
    BY <2>2 DEF Rest, AbsentInv
  <2>4. ProcessingInv' /\ RetryableIsExact'
    BY <2>2 DEF Rest, ProcessingInv, RetryableIsExact, IsRetryable
  <2>5. ResultInv'
    BY <2>2 DEF Rest, ResultInv, DurableCompletionIsReal
  <2>6. QED
    BY <2>1, <2>3, <2>4, <2>5 DEF Rest
<1>2. CASE EnqueueJob(j)
  <2>1. hash[j].status = "none"
    BY <1>2 DEF EnqueueJob, Rest, AbsentInv
  <2>2. /\ hash'[j].status = "queued" /\ hash'[j].retry = 0
        /\ hash'[j].failure = "none"
        /\ \A k \in Jobs \ {j} : hash'[k] = hash[k]
        /\ pending' = Append(pending, j)
        /\ UNCHANGED <<processing, retryable, worker, durable>>
        /\ finalizing' = finalizing \ {j}
        /\ j \in finalizing
    BY <1>2, HashAfter DEF EnqueueJob
  <2>3. Core'
    BY <2>1, <2>2, CoreRequeue
  <2>4. AbsentInv'
    BY <2>2 DEF Rest, AbsentInv
  <2>5. ProcessingInv'
    <3>1. processing[j] = 0
      BY <2>1 DEF Rest, ProcessingInv
    <3>2. \A i \in DOMAIN pending' : processing[pending'[i]] = 0
      BY <2>2, <3>1, AppendAfter DEF Rest, ProcessingInv
    <3>3. \A k \in Jobs :
             /\ processing[k] <= 1
             /\ hash'[k].status \in {"none", "completed", "failed"} => processing[k] = 0
      BY <2>2, <3>1 DEF Rest, ProcessingInv
    <3>4. QED
      BY <2>2, <3>2, <3>3 DEF ProcessingInv
  <2>6. ResultInv'
    BY <2>1, <2>2, ClaimerHasJob DEF Rest, ResultInv, DurableCompletionIsReal
  <2>7. RetryableIsExact'
    BY <2>1, <2>2 DEF Rest, RetryableIsExact, IsRetryable
  <2>8. QED
    BY <2>3, <2>4, <2>5, <2>6, <2>7 DEF Rest
<1>3. QED
  BY <1>1, <1>2 DEF ApiStep

\* Steps of a worker that touch neither Redis nor anything but its own state and
\* the durable status of its job.
LEMMA InvWorkerLocal ==
    ASSUME IndInv, TypeOK', NEW w \in Workers, UNCHANGED <<redis, finalizing>>,
           worker[w].pc # "idle",
           \/ UNCHANGED durable
           \/ /\ Owning(w) \/ worker[w].pc \in {"finish", "fail"}
              /\ \E s \in {"in_progress", "completed", "failed"} :
                    /\ durable' = [durable EXCEPT ![worker[w].job] = s]
                    /\ s = "completed" => worker[w].pc = "finish",
           \A v \in Workers \ {w} : worker'[v] = worker[v],
           worker'[w].pc # "finish",
           \/ worker'[w].pc = "idle"
           \/ /\ worker'[w].job = worker[w].job
              /\ \/ /\ Claiming(w) /\ Claiming(w)'
                    /\ worker'[w].retry = hash[worker[w].job].retry
                 \/ /\ Owning(w) /\ Owning(w)'
                    /\ worker'[w].retry = worker[w].retry
    PROVE  IndInv'
<1> USE IndInvParts
<1>1. Core'
  BY CoreFrame DEF redis, Core, AttemptInv, Claiming, Owning, PreMark, PostMark
<1>2. /\ ProcessingInv' /\ RetryableIsExact'
  BY DEF Rest, ProcessingInv, RetryableIsExact, IsRetryable, redis
<1>3. ResultInv'
  <2>1. \A v \in Workers : worker'[v].pc = "finish" =>
           hash[worker'[v].job].status = "completed"
    BY DEF Rest, ResultInv
  <2>2. ASSUME NEW j \in Jobs, durable'[j] = "completed"
        PROVE  hash[j].status = "completed"
    <3>1. CASE durable'[j] = durable[j]
      BY <2>2, <3>1 DEF Rest, ResultInv, DurableCompletionIsReal
    <3>2. CASE durable'[j] # durable[j]
      <4>1. worker[w].job = j /\ worker[w].pc = "finish"
        BY <2>2, <3>2 DEF TypeOK
      <4>2. QED
        BY <4>1 DEF Rest, ResultInv
    <3>3. QED
      BY <3>1, <3>2
  <2>3. QED
    BY <2>1, <2>2 DEF ResultInv, DurableCompletionIsReal, redis
<1>4. ASSUME NEW j \in Jobs, durable'[j] = "uploading" PROVE durable[j] = "uploading"
  <2>1. CASE UNCHANGED durable
    BY <1>4, <2>1
  <2>2. CASE \E s \in {"in_progress", "completed", "failed"} :
                durable' = [durable EXCEPT ![worker[w].job] = s]
    BY <1>4, <2>2 DEF TypeOK
  <2>3. QED
    BY <2>1, <2>2
<1>5. AbsentInv'
  BY <1>4 DEF Rest, AbsentInv, redis
<1>6. QED
  BY <1>1, <1>2, <1>3, <1>5 DEF Rest

LEMMA InvLocalSteps ==
    ASSUME IndInv, TypeOK', NEW w \in Workers,
           \/ LoadHash(w) \/ CheckAccepts(w) \/ WriteStarted(w) \/ Probe(w)
           \/ WriteResult(w) \/ AbandonJob(w)
    PROVE  IndInv'
<1> USE IndInvParts DEF At, Claiming, Owning, PreMark, PostMark
<1>1. CASE LoadHash(w)
  BY <1>1, WorkerAfter, InvWorkerLocal DEF LoadHash
<1>2. CASE CheckAccepts(w)
  <2>1. worker[w].retry = hash[worker[w].job].retry
    BY <1>2 DEF CheckAccepts, Core, AttemptInv
  <2>2. QED
    BY <1>2, <2>1, GotoAfter, InvWorkerLocal DEF CheckAccepts
<1>3. CASE WriteStarted(w)
  BY <1>3, GotoAfter, InvWorkerLocal DEF WriteStarted
<1>4. CASE Probe(w)
  BY <1>4, GotoAfter, InvWorkerLocal DEF Probe
<1>5. CASE WriteResult(w)
  BY <1>5, ReturnAfter, InvWorkerLocal DEF WriteResult
<1>6. CASE AbandonJob(w)
  BY <1>6, ReturnAfter, InvWorkerLocal DEF AbandonJob
<1>7. QED
  BY <1>1, <1>2, <1>3, <1>4, <1>5, <1>6

LEMMA InvLose ==
    ASSUME IndInv, TypeOK', NEW w \in Workers, LoseAttempt(w), worker[w].pc # "idle",
           UNCHANGED <<durable, finalizing>>
    PROVE  IndInv'
  BY IndInvParts, ReturnAfter, InvWorkerLocal DEF LoseAttempt

-----------------------------------------------------------------------------
(* Steps of an owner on Redis.                                             *)

\* The owner of an attempt has a job that is in progress, so nobody has a claim on it.
LEMMA OwnedJob ==
    ASSUME IndInv, NEW w \in Workers, worker[w].pc # "idle", OwnsAttempt(w)
    PROVE  /\ worker[w].job \in Jobs
           /\ hash[worker[w].job].status = "in_progress"
           /\ processing[worker[w].job] <= 1
           /\ \A i \in DOMAIN pending : pending[i] # worker[w].job
           /\ durable[worker[w].job] \notin {"uploading", "completed"}
           /\ worker[w].job \notin finalizing
           /\ \A v \in Workers : worker[v].pc = "finish" => worker[v].job # worker[w].job
           /\ worker[w].job \notin retryable
<1> USE IndInvParts
<1>1. worker[w].job \in Jobs /\ hash[worker[w].job].status = "in_progress"
  BY ClaimerHasJob DEF OwnsAttempt
<1>2. \A i \in DOMAIN pending : pending[i] # worker[w].job
  BY <1>1 DEF Core, ClaimInv
<1>3. QED
  BY <1>1, <1>2
  DEF Rest, AbsentInv, ProcessingInv, ResultInv, DurableCompletionIsReal,
      RetryableIsExact, IsRetryable

\* A job in progress ends its attempt, for the retry, for good or not at all: the
\* part of the invariant that is not about claims and attempts.
LEMMA RestEnd ==
    ASSUME IndInv, TypeOK', NEW j \in Jobs,
           hash[j].status = "in_progress",
           hash'[j].status \in {"in_progress", "completed", "failed"},
           \A k \in Jobs \ {j} : hash'[k] = hash[k],
           UNCHANGED <<pending, durable, finalizing>>,
           \A k \in Jobs \ {j} : processing'[k] = processing[k],
           \/ processing'[j] = 0
           \/ hash'[j].status = "in_progress" /\ processing'[j] = processing[j],
           \A k \in Jobs \ {j} : k \in retryable' <=> k \in retryable,
           j \in retryable' <=> /\ hash'[j].status = "failed"
                               /\ hash'[j].failure = "processing_error",
           \A v \in Workers : worker'[v].pc = "finish" =>
              \/ worker[v].pc = "finish" /\ worker'[v].job = worker[v].job
              \/ worker'[v].job = j /\ hash'[j].status = "completed"
    PROVE  Rest'
<1> USE IndInvParts
<1>1. AbsentInv'
  BY DEF Rest, AbsentInv
<1>2. ProcessingInv'
  <2>1. \A i \in DOMAIN pending : pending[i] \in Jobs \ {j}
    BY EntryIsJob DEF Core, ClaimInv
  <2>2. \A k \in Jobs :
           /\ processing'[k] <= 1
           /\ hash'[k].status \in {"none", "completed", "failed"} => processing'[k] = 0
    BY DEF Rest, ProcessingInv
  <2>3. QED
    BY <2>1, <2>2 DEF Rest, ProcessingInv
<1>3. ResultInv'
  <2>1. \A v \in Workers : worker[v].pc = "finish" => worker[v].job \in Jobs \ {j}
    BY ClaimerHasJob DEF Rest, ResultInv
  <2>2. \A v \in Workers : worker'[v].pc = "finish" =>
           hash'[worker'[v].job].status = "completed"
    BY <2>1 DEF Rest, ResultInv
  <2>3. \A k \in Jobs : durable'[k] = "completed" => hash'[k].status = "completed"
    BY DEF Rest, ResultInv, DurableCompletionIsReal
  <2>4. QED
    BY <2>2, <2>3 DEF ResultInv, DurableCompletionIsReal
<1>4. RetryableIsExact'
  BY DEF Rest, RetryableIsExact, IsRetryable
<1>5. QED
  BY <1>1, <1>2, <1>3, <1>4 DEF Rest

LEMMA InvFail ==
    ASSUME IndInv, TypeOK', NEW w \in Workers, worker[w].pc # "idle", FailAttempt(w),
           UNCHANGED <<durable, finalizing>>
    PROVE  IndInv'
<1> USE IndInvParts
<1> DEFINE j == worker[w].job
<1>1. OwnsAttempt(w) /\ j \in Jobs
  BY OwnedJob DEF FailAttempt
<1>2. /\ LRem(j) /\ Goto(w, "fail") /\ pending' = pending
      /\ hash'[j].status = "failed" /\ hash'[j].retry = hash[j].retry
      /\ \A k \in Jobs \ {j} : hash'[k] = hash[k]
      /\ \/ hash'[j].failure = "poison_pill" /\ retryable' = retryable \ {j}
         \/ hash'[j].failure = "processing_error" /\ retryable' = retryable \cup {j}
  BY <1>1, HashAfter DEF FailAttempt
<1>3. /\ processing'[j] = 0
      /\ \A k \in Jobs \ {j} : processing'[k] = processing[k]
  BY <1>1, <1>2, OwnedJob, LRemAfter
<1>4. /\ worker'[w].pc = "fail" /\ worker'[w].job = j
      /\ \A v \in Workers \ {w} : worker'[v] = worker[v]
  BY <1>2, GotoAfter
<1>5. Core'
  <2>1. \A k \in Jobs : /\ hash'[k].retry = hash[k].retry
                        /\ hash'[k].status = "queued" <=> hash[k].status = "queued"
                        /\ hash'[k].status = "none" => hash[k].status = "none"
    BY <1>1, <1>2, OwnedJob
  <2>2. ~Claiming(w)' /\ ~Owning(w)' /\ worker'[w].pc \notin {"check", "mark"}
    BY <1>4 DEF Claiming, Owning, PreMark, PostMark
  <2>3. \A v \in Workers : worker[v].pc \in {"check", "mark"} =>
           worker[v].retry = hash[worker[v].job].retry
    BY DEF Core, AttemptInv
  <2>4. \A v \in Workers \ {w} :
           /\ Claiming(v)' = Claiming(v) /\ Owning(v)' = Owning(v)
           /\ worker'[v].job = worker[v].job /\ worker'[v].retry = worker[v].retry
           /\ worker'[v].pc = worker[v].pc
    BY <1>4 DEF Claiming, Owning
  <2>5. pending' = pending /\ Core
    BY <1>2
  <2>6. QED
    BY <2>1, <2>2, <2>3, <2>4, <2>5, CoreFrame
<1>6. Rest'
  BY <1>1, <1>2, <1>3, <1>4, OwnedJob, RestEnd
<1>7. QED
  BY <1>5, <1>6

LEMMA InvFinalizeFailure ==
    ASSUME IndInv, TypeOK', NEW w \in Workers, CheckRejects(w) \/ ProbeFails(w)
    PROVE  IndInv'
  BY InvFail, InvLose DEF CheckRejects, ProbeFails, FinalizeProcessingFailure, At

LEMMA InvHeartbeat ==
    ASSUME IndInv, TypeOK', NEW w \in Workers, Heartbeat(w)
    PROVE  IndInv'
<1> USE IndInvParts
<1> DEFINE j == worker[w].job
<1>1. CASE LoseAttempt(w)
  BY <1>1, InvLose DEF Heartbeat, At
<1>2. CASE OwnsAttempt(w) /\ SetBeat(j, "fresh")
           /\ UNCHANGED <<pending, processing, retryable, stats, worker>>
  <2>1. j \in Jobs /\ hash[j].status = "in_progress"
    BY <1>2, OwnedJob DEF Heartbeat, At
  <2>2. /\ hash'[j].status = "in_progress" /\ hash'[j].retry = hash[j].retry
        /\ \A k \in Jobs \ {j} : hash'[k] = hash[k]
    BY <1>2, <2>1, HashAfter DEF SetBeat
  <2>3. Core'
    BY <1>2, <2>1, <2>2, CoreFrame DEF Core, AttemptInv, Claiming, Owning
  <2>4. Rest'
    BY <1>2, <2>1, <2>2, OwnedJob, RestEnd DEF Heartbeat, At
  <2>5. QED
    BY <2>3, <2>4
<1>3. QED
  BY <1>1, <1>2 DEF Heartbeat

LEMMA InvExpires ==
    ASSUME IndInv, TypeOK', NEW j \in Jobs, HeartbeatExpires(j)
    PROVE  IndInv'
<1> USE IndInvParts
<1>1. hash[j].status = "in_progress"
      /\ UNCHANGED <<pending, processing, retryable, stats, durable, finalizing, worker>>
  BY DEF HeartbeatExpires
<1>2. /\ hash'[j].status = "in_progress" /\ hash'[j].retry = hash[j].retry
      /\ \A k \in Jobs \ {j} : hash'[k] = hash[k]
  BY <1>1, HashAfter DEF HeartbeatExpires, SetBeat
<1>3. j \notin retryable
  BY <1>1 DEF Rest, RetryableIsExact, IsRetryable
<1>4. Core'
  BY <1>1, <1>2, CoreFrame DEF Core, AttemptInv, Claiming, Owning
<1>5. Rest'
  BY <1>1, <1>2, <1>3, RestEnd
<1>6. QED
  BY <1>4, <1>5

LEMMA InvComplete ==
    ASSUME IndInv, TypeOK', NEW w \in Workers, CompleteAttempt(w)
    PROVE  IndInv'
<1> USE IndInvParts
<1> DEFINE j == worker[w].job
<1>1. CASE LoseAttempt(w)
  BY <1>1, InvLose DEF CompleteAttempt, At
<1>2. CASE OwnsAttempt(w) /\ ~LoseAttempt(w)
  <2>1. /\ j \in Jobs /\ LRem(j) /\ Goto(w, "finish")
        /\ retryable' = retryable \ {j}
        /\ UNCHANGED <<pending, durable, finalizing>>
        /\ SetHash(j, "completed", hash[j].retry, "none", "fresh")
    BY <1>2, OwnedJob DEF CompleteAttempt, At
  <2>2. /\ hash'[j].status = "completed" /\ hash'[j].retry = hash[j].retry
        /\ \A k \in Jobs \ {j} : hash'[k] = hash[k]
    BY <2>1, HashAfter
  <2>3. /\ processing'[j] = 0
        /\ \A k \in Jobs \ {j} : processing'[k] = processing[k]
    BY <1>2, <2>1, OwnedJob, LRemAfter DEF CompleteAttempt, At
  <2>4. /\ worker'[w].pc = "finish" /\ worker'[w].job = j
        /\ \A v \in Workers \ {w} : worker'[v] = worker[v]
    BY <2>1, GotoAfter
  <2>5. hash[j].status = "in_progress"
    BY <1>2 DEF OwnsAttempt
  <2>6. Core'
    BY <2>1, <2>2, <2>4, <2>5, CoreFrame
    DEF Core, AttemptInv, Claiming, Owning, PreMark, PostMark
  <2>7. Rest'
    BY <2>1, <2>2, <2>3, <2>4, <2>5, RestEnd
  <2>8. QED
    BY <2>6, <2>7
<1>3. QED
  BY <1>1, <1>2 DEF CompleteAttempt

LEMMA InvDequeue ==
    ASSUME IndInv, TypeOK', NEW w \in Workers, Dequeue(w)
    PROVE  IndInv'
<1> USE IndInvParts
<1> DEFINE j == Head(pending)
<1>1. /\ pending # << >> /\ pending' = Tail(pending)
      /\ processing' = [processing EXCEPT ![j] = @ + 1]
      /\ UNCHANGED <<hash, retryable, durable, finalizing>>
      /\ SetWorker(w, "load", j, 0)
  BY DEF Dequeue
<1>2. /\ j \in Jobs /\ hash[j].status = "queued" /\ processing[j] = 0
      /\ \A i \in DOMAIN pending' : pending'[i] \in Jobs \ {j}
  BY <1>1, TailAfter DEF Core, ClaimInv, Rest, ProcessingInv
<1>3. processing'[j] = 1 /\ \A k \in Jobs \ {j} : processing'[k] = processing[k]
  BY <1>1, <1>2 DEF TypeOK
<1>4. \A i \in DOMAIN pending' : processing[pending'[i]] = 0
  BY <1>1, TailAfter DEF Rest, ProcessingInv
<1>5. ProcessingInv'
  <2>1. \A k \in Jobs :
           /\ processing'[k] <= 1
           /\ hash[k].status \in {"none", "completed", "failed"} => processing'[k] = 0
    BY <1>2, <1>3 DEF Rest, ProcessingInv
  <2>2. QED
    BY <1>1, <1>2, <1>3, <1>4, <2>1 DEF ProcessingInv
<1>6. ResultInv'
  <2>1. worker'[w].pc = "load" /\ \A v \in Workers \ {w} : worker'[v] = worker[v]
    BY <1>1, WorkerAfter
  <2>2. QED
    BY <1>1, <2>1 DEF Rest, ResultInv, DurableCompletionIsReal
<1>7. AbsentInv' /\ RetryableIsExact'
  BY <1>1 DEF Rest, AbsentInv, RetryableIsExact, IsRetryable
<1>8. QED
  BY <1>5, <1>6, <1>7, CoreDequeue DEF Rest

LEMMA InvMark ==
    ASSUME IndInv, TypeOK', NEW w \in Workers, MarkInProgress(w)
    PROVE  IndInv'
<1> USE IndInvParts
<1> DEFINE j == worker[w].job
<1>1. /\ j \in Jobs /\ Claiming(w) /\ hash[j].status = "queued"
      /\ \A i \in DOMAIN pending : pending[i] # j
  BY ClaimerHasJob DEF MarkInProgress, At, Claiming, PreMark, Core, ClaimInv
<1>2. /\ hash'[j].status = "in_progress"
      /\ \A k \in Jobs \ {j} : hash'[k] = hash[k]
      /\ retryable' = retryable \ {j}
      /\ UNCHANGED <<pending, processing, durable, finalizing>>
  BY <1>1, HashAfter DEF MarkInProgress
<1>3. /\ worker'[w].pc = "start"
      /\ \A v \in Workers \ {w} : worker'[v] = worker[v]
  BY GotoAfter DEF MarkInProgress
<1>4. AbsentInv'
  BY <1>1, <1>2 DEF Rest, AbsentInv
<1>5. ProcessingInv'
  BY <1>1, <1>2 DEF Rest, ProcessingInv
<1>6. ResultInv'
  <2>1. \A v \in Workers : worker[v].pc = "finish" => worker[v].job \in Jobs \ {j}
    BY <1>1, ClaimerHasJob DEF Rest, ResultInv
  <2>2. QED
    BY <1>1, <1>2, <1>3, <2>1 DEF Rest, ResultInv, DurableCompletionIsReal
<1>7. RetryableIsExact'
  BY <1>1, <1>2 DEF Rest, RetryableIsExact, IsRetryable
<1>8. QED
  BY <1>4, <1>5, <1>6, <1>7, CoreMark DEF Rest

-----------------------------------------------------------------------------
(* Steps of a reaper.                                                      *)

\* A reaper moves on: nothing it does to its own state is in the invariant.
LEMMA InvReaperLocal ==
    ASSUME IndInv, TypeOK', UNCHANGED <<redis, finalizing, worker>>,
           \/ UNCHANGED durable
           \/ \E o \in Outcome : durable' = [durable EXCEPT ![o.job] = o.status]
    PROVE  IndInv'
<1> USE IndInvParts
<1>1. Core'
  BY CoreFrame DEF redis, Core, AttemptInv, Claiming, Owning
<1>2. ProcessingInv' /\ RetryableIsExact'
  BY DEF Rest, ProcessingInv, RetryableIsExact, IsRetryable, redis
<1>3. ASSUME NEW j \in Jobs
      PROVE  durable'[j] = durable[j] \/ durable'[j] \in {"queued", "failed"}
  BY DEF TypeOK, Outcome
<1>4. ResultInv'
  BY <1>3 DEF Rest, ResultInv, DurableCompletionIsReal, redis
<1>5. AbsentInv'
  BY <1>3 DEF Rest, AbsentInv, redis
<1>6. QED
  BY <1>1, <1>2, <1>4, <1>5 DEF Rest

LEMMA InvReaperLocalSteps ==
    ASSUME IndInv, TypeOK', NEW r \in Reapers,
           \/ ScanProcessing(r) \/ ScanFailed(r) \/ WriteOutcome(r) \/ RestartReaper(r)
           \/ \E j \in Jobs : LeaveEntry(r, j) \/ VisitFails(r, j)
    PROVE  IndInv'
<1> USE IndInvParts
<1>1. CASE WriteOutcome(r)
  <2>1. reaper[r].outcome \subseteq Outcome
    BY ReaperFields
  <2>2. QED
    BY <1>1, <2>1, InvReaperLocal DEF WriteOutcome
<1>2. CASE \/ ScanProcessing(r) \/ ScanFailed(r) \/ RestartReaper(r)
           \/ \E j \in Jobs : LeaveEntry(r, j) \/ VisitFails(r, j)
  <2>1. UNCHANGED <<redis, finalizing, worker, durable>>
    BY <1>2 DEF ScanProcessing, ScanFailed, Scan, RestartReaper, LeaveEntry, VisitFails, Visit
  <2>2. QED
    BY <2>1, InvReaperLocal
<1>3. QED
  BY <1>1, <1>2

LEMMA InvDrop ==
    ASSUME IndInv, TypeOK', NEW r \in Reapers, NEW j \in Jobs, DropEntry(r, j)
    PROVE  IndInv'
<1> USE IndInvParts
<1>1. /\ hash[j].status # "in_progress" /\ LRem(j)
      /\ UNCHANGED <<hash, pending, retryable, durable, finalizing, worker>>
  BY DEF DropEntry, Visit
<1>2. \A k \in Jobs : processing'[k] <= processing[k] /\ processing'[k] \in Nat
  BY <1>1 DEF TypeOK, LRem
<1>3. Core'
  BY <1>1, CoreFrame DEF Core, AttemptInv, Claiming, Owning
<1>4. ProcessingInv'
  <2>1. \A k \in Jobs : processing[k] \in Nat
    BY DEF TypeOK
  <2>2. \A k \in Jobs :
           /\ processing'[k] <= 1
           /\ hash[k].status \in {"none", "completed", "failed"} => processing'[k] = 0
    BY <1>2, <2>1 DEF Rest, ProcessingInv
  <2>3. \A i \in DOMAIN pending : processing'[pending[i]] = 0
    BY <1>2, <2>1, EntryIsJob DEF Rest, ProcessingInv
  <2>4. QED
    BY <1>1, <2>2, <2>3 DEF ProcessingInv
<1>5. AbsentInv' /\ ResultInv' /\ RetryableIsExact'
  BY <1>1 DEF Rest, AbsentInv, ResultInv, DurableCompletionIsReal, RetryableIsExact,
              IsRetryable
<1>6. QED
  BY <1>3, <1>4, <1>5 DEF Rest

\* The reaper gives job j, which is in progress or failed and has no entry any
\* more, another attempt.
LEMMA InvRequeue ==
    ASSUME IndInv, TypeOK', NEW j \in Jobs, NEW failure,
           hash[j].status \in {"in_progress", "failed"},
           Requeue(j, failure),
           processing'[j] = 0,
           \A k \in Jobs \ {j} : processing'[k] = processing[k],
           retryable' = retryable \ {j},
           UNCHANGED <<durable, finalizing, worker>>
    PROVE  IndInv'
<1> USE IndInvParts
<1>1. /\ hash'[j].status = "queued" /\ hash'[j].retry = hash[j].retry + 1
      /\ \A k \in Jobs \ {j} : hash'[k] = hash[k]
      /\ pending' = Append(pending, j)
  BY HashAfter DEF Requeue
<1>2. hash[j].retry \in Nat
  BY HashFields, PipelineAssumption
<1>3. Core'
  BY <1>1, <1>2, CoreRequeue
<1>4. AbsentInv'
  BY <1>1 DEF Rest, AbsentInv
<1>5. ProcessingInv'
  <2>1. \A k \in Jobs :
           /\ processing'[k] <= 1
           /\ hash'[k].status \in {"none", "completed", "failed"} => processing'[k] = 0
    BY <1>1 DEF Rest, ProcessingInv
  <2>2. \A i \in DOMAIN pending' : processing'[pending'[i]] = 0
    BY <1>1, AppendAfter DEF Rest, ProcessingInv
  <2>3. QED
    BY <2>1, <2>2 DEF ProcessingInv
<1>6. ResultInv'
  BY <1>1, ClaimerHasJob DEF Rest, ResultInv, DurableCompletionIsReal
<1>7. RetryableIsExact'
  BY <1>1 DEF Rest, RetryableIsExact, IsRetryable
<1>8. QED
  BY <1>3, <1>4, <1>5, <1>6, <1>7 DEF Rest

\* The reaper declares job j, which is in progress or failed, a poison pill.
LEMMA InvPoison ==
    ASSUME IndInv, TypeOK', NEW j \in Jobs,
           hash[j].status \in {"in_progress", "failed"},
           SetHash(j, "failed", hash[j].retry, "poison_pill", hash[j].beat),
           processing'[j] = 0,
           \A k \in Jobs \ {j} : processing'[k] = processing[k],
           retryable' = retryable \ {j},
           UNCHANGED <<pending, durable, finalizing, worker>>
    PROVE  IndInv'
<1> USE IndInvParts
<1>1. /\ hash'[j].status = "failed" /\ hash'[j].failure = "poison_pill"
      /\ hash'[j].retry = hash[j].retry
      /\ \A k \in Jobs \ {j} : hash'[k] = hash[k]
  BY HashAfter
<1>2. Core'
  BY <1>1, CoreFrame DEF Core, AttemptInv, Claiming, Owning
<1>3. AbsentInv' /\ ResultInv'
  BY <1>1, ClaimerHasJob DEF Rest, AbsentInv, ResultInv, DurableCompletionIsReal
<1>4. RetryableIsExact'
  BY <1>1 DEF Rest, RetryableIsExact, IsRetryable
<1>5. ProcessingInv'
  <2>1. \A i \in DOMAIN pending : pending[i] \in Jobs \ {j}
    BY EntryIsJob DEF Core, ClaimInv
  <2>2. QED
    BY <1>1, <2>1 DEF Rest, ProcessingInv
<1>6. QED
  BY <1>2, <1>3, <1>4, <1>5 DEF Rest

LEMMA InvRecoverStale ==
    ASSUME IndInv, TypeOK', NEW r \in Reapers, NEW j \in Jobs,
           RequeueStale(r, j) \/ PoisonStale(r, j)
    PROVE  IndInv'
<1> USE IndInvParts
<1>1. /\ hash[j].status = "in_progress" /\ LRem(j)
      /\ UNCHANGED <<durable, finalizing, worker>>
  BY DEF RequeueStale, PoisonStale, IsStale, Visit
<1>2. processing'[j] = 0 /\ \A k \in Jobs \ {j} : processing'[k] = processing[k]
  BY <1>1, LRemAfter DEF Rest, ProcessingInv
<1>3. j \notin retryable
  BY <1>1 DEF Rest, RetryableIsExact, IsRetryable
<1>4. CASE RequeueStale(r, j)
  BY <1>1, <1>2, <1>3, <1>4, InvRequeue DEF RequeueStale
<1>5. CASE PoisonStale(r, j)
  BY <1>1, <1>2, <1>3, <1>5, InvPoison DEF PoisonStale
<1>6. QED
  BY <1>4, <1>5

LEMMA InvRecoverFailed ==
    ASSUME IndInv, TypeOK', NEW r \in Reapers, NEW j \in Jobs, RecoverFailedJob(r, j)
    PROVE  IndInv'
<1> USE IndInvParts
<1>1. UNCHANGED <<durable, finalizing, worker>> /\ retryable' = retryable \ {j}
  BY DEF RecoverFailedJob, ForgetFailed, RequeueFailed, PoisonFailed, Visit
<1>2. CASE ForgetFailed(r, j)
  <2>1. j \notin retryable
    BY <1>2 DEF ForgetFailed, Rest, RetryableIsExact
  <2>2. UNCHANGED <<redis, finalizing, worker, durable>>
    BY <1>1, <1>2, <2>1 DEF ForgetFailed, redis
  <2>3. QED
    BY <2>2, InvReaperLocal
<1>3. CASE RequeueFailed(r, j) \/ PoisonFailed(r, j)
  <2>1. hash[j].status = "failed" /\ processing' = processing
    BY <1>3 DEF RequeueFailed, PoisonFailed, IsRetryable
  <2>2. processing'[j] = 0
    BY <2>1 DEF Rest, ProcessingInv
  <2>3. QED
    BY <1>1, <1>3, <2>1, <2>2, InvRequeue, InvPoison DEF RequeueFailed, PoisonFailed
<1>4. QED
  BY <1>2, <1>3 DEF RecoverFailedJob

LEMMA InvStep == IndInv /\ [Next]_vars => IndInv'
<1> SUFFICES ASSUME IndInv, [Next]_vars PROVE IndInv'
  OBVIOUS
<1> USE IndInvParts
<1>1. TypeOK'
  BY TypeStep
<1>2. ASSUME NEW j \in Jobs, ApiStep(j) \/ HeartbeatExpires(j) PROVE IndInv'
  BY <1>1, <1>2, InvApi, InvExpires
<1>3. ASSUME NEW w \in Workers,
             Dequeue(w) \/ WorkerStep(w) \/ Heartbeat(w) \/ AbandonJob(w)
      PROVE  IndInv'
  BY <1>1, <1>3, InvDequeue, InvHeartbeat, InvLocalSteps, InvFinalizeFailure, InvMark,
     InvComplete
  DEF WorkerStep
<1>4. ASSUME NEW r \in Reapers,
             ReaperStep(r) \/ RestartReaper(r) \/ \E j \in Jobs : VisitFails(r, j)
      PROVE  IndInv'
  BY <1>1, <1>4, InvReaperLocalSteps, InvDrop, InvRecoverStale, InvRecoverFailed
  DEF ReaperStep, RecoverProcessingJob
<1>5. CASE UNCHANGED vars
  BY <1>1, <1>5, InvReaperLocal DEF vars
<1>6. QED
  BY <1>2, <1>3, <1>4, <1>5 DEF Next

-----------------------------------------------------------------------------
(* The theorems.                                                           *)

\* The strengthened invariant: claims, attempt numbers, the processing list, the
\* retryable set and the durable completions are consistent with one another.
THEOREM PipelineInvariant == Spec => []IndInv
<1>1. Init => IndInv
  BY InvInit
<1>2. IndInv /\ [Next]_vars => IndInv'
  BY InvStep
<1>3. QED
  BY <1>1, <1>2, PTL DEF Spec

\* However many workers and reapers run and fail, a job is claimed at most once,
\* and only while it is queued.
THEOREM ClaimsAreExclusive == Spec => []SingleClaim
<1>1. IndInv => SingleClaim
  <2>1. ASSUME IndInv, NEW j \in Jobs, NEW c \in Claims(j)
        PROVE  /\ hash[j].status = "queued"
               /\ \A d \in Claims(j) : c = d
    BY <2>1 DEF IndInv, ClaimInv, Claims
  <2>2. QED
    BY <2>1 DEF SingleClaim
<1>2. QED
  BY <1>1, PipelineInvariant, PTL

\* Two workers never both pass the check of withActiveAttempt for a job, although
\* that check compares retry_count and never worker_id.
THEOREM AttemptsHaveOneOwner == Spec => []OneOwner
<1>1. IndInv => OneOwner
  BY DEF IndInv, AttemptInv, OneOwner, OwnsAttempt
<1>2. QED
  BY <1>1, PipelineInvariant, PTL

\* No failed job is left out of the reaper's scan, and no other is in it.
THEOREM RetryableSetIsExact == Spec => []RetryableIsExact
<1>1. IndInv => RetryableIsExact
  BY DEF IndInv
<1>2. QED
  BY <1>1, PipelineInvariant, PTL

\* The durable record reports a completion only if Redis has accepted it.
THEOREM DurableCompletionsAreReal == Spec => []DurableCompletionIsReal
<1>1. IndInv => DurableCompletionIsReal
  BY DEF IndInv, ResultInv
<1>2. QED
  BY <1>1, PipelineInvariant, PTL

\* A job is in the two queues together at most once.
THEOREM QueueEntriesAreUnique == Spec => []OneQueueEntry
<1>1. IndInv => OneQueueEntry
  <2>1. ASSUME IndInv, NEW j \in Jobs
        PROVE  Cardinality({i \in DOMAIN pending : pending[i] = j}) + processing[j] <= 1
    <3> DEFINE E == {i \in DOMAIN pending : pending[i] = j}
    <3>1. processing[j] \in Nat /\ processing[j] <= 1
      BY <2>1 DEF IndInv, TypeOK, ProcessingInv
    <3>2. CASE E = {}
      BY <3>1, <3>2, FS_EmptySet
    <3>3. CASE E # {}
      <4>1. PICK i \in E : TRUE
        BY <3>3
      <4>2. E = {i}
        BY <2>1, <4>1 DEF IndInv, ClaimInv
      <4>3. processing[j] = 0
        BY <2>1, <4>1 DEF IndInv, ProcessingInv
      <4>4. Cardinality(E) = 1
        BY <4>2, FS_Singleton
      <4>5. QED
        BY <4>3, <4>4
    <3>4. QED
      BY <3>2, <3>3
  <2>2. QED
    BY <2>1 DEF OneQueueEntry
<1>2. QED
  BY <1>1, PipelineInvariant, PTL

-----------------------------------------------------------------------------
(* Workers, queues, retries and reapers together implement JobLifecycle:    *)
(* every step of JobPipeline is a step of that specification, seen through  *)
(* the refinement mapping Lifecycle, or leaves what it shows unchanged.     *)

\* The value the refinement mapping gives to the variable of JobLifecycle.
View == [j \in Jobs |-> [phase |-> Phase(hash[j]), attempt |-> hash[j].retry]]

LEMMA ViewAfter ==
    ASSUME NEW j \in Jobs, \A k \in Jobs \ {j} : hash'[k] = hash[k]
    PROVE  /\ View[j].phase = Phase(hash[j]) /\ View[j].attempt = hash[j].retry
           /\ View' = [View EXCEPT ![j] = [phase |-> Phase(hash'[j]),
                                            attempt |-> hash'[j].retry]]
  BY DEF View

\* A step that keeps the attempt and moves job j to another phase.
LEMMA MoveStep ==
    ASSUME NEW j \in Jobs,
           \A k \in Jobs \ {j} : hash'[k] = hash[k],
           hash'[j].retry = hash[j].retry,
           \/ Phase(hash[j]) = "absent" /\ Phase(hash'[j]) = "waiting"
           \/ Phase(hash[j]) = "waiting" /\ Phase(hash'[j]) = "running"
           \/ /\ Phase(hash[j]) = "running"
              /\ Phase(hash'[j]) \in {"completed", "failed", "poisoned"}
           \/ Phase(hash[j]) = "failed" /\ Phase(hash'[j]) = "poisoned"
    PROVE  Lifecycle!LNext
  BY ViewAfter
  DEF View, Lifecycle!LNext, Lifecycle!Submit, Lifecycle!Start, Lifecycle!Complete,
      Lifecycle!Fail, Lifecycle!Poison, Lifecycle!Move

\* A step of the reaper that gives job j its next attempt.
LEMMA RetryStep ==
    ASSUME TypeOK, NEW j \in Jobs, NEW failure, Requeue(j, failure), RetriesLeft(j),
           Phase(hash[j]) \in {"running", "failed"}
    PROVE  Lifecycle!LNext
<1>1. /\ Phase(hash'[j]) = "waiting" /\ hash'[j].retry = hash[j].retry + 1
      /\ \A k \in Jobs \ {j} : hash'[k] = hash[k]
  BY HashAfter DEF Requeue, Phase
<1>2. QED
  BY <1>1, ViewAfter DEF View, Lifecycle!LNext, Lifecycle!Retry, RetriesLeft

LEMMA ViewSame ==
    ASSUME \A k \in Jobs : Phase(hash'[k]) = Phase(hash[k]) /\ hash'[k].retry = hash[k].retry
    PROVE  View' = View
  BY DEF View

\* A change of heartbeat is not visible.
LEMMA BeatStep ==
    ASSUME TypeOK, NEW j \in Jobs, NEW beat, SetBeat(j, beat)
    PROVE  View' = View
  BY HashAfter, ViewSame DEF SetBeat, Phase

LEMMA ApiRefines ==
    ASSUME IndInv, NEW j \in Jobs, ApiStep(j)
    PROVE  Lifecycle!LNext \/ View' = View
<1>1. CASE EnqueueJob(j)
  <2>1. hash[j].status = "none" /\ hash[j].retry = 0
    BY <1>1 DEF EnqueueJob, IndInv, AbsentInv
  <2>2. QED
    BY <1>1, <2>1, HashAfter, MoveStep DEF EnqueueJob, Phase, IndInv
<1>2. CASE PutQueuedJob(j) \/ AbortFinalize(j)
  BY <1>2 DEF PutQueuedJob, AbortFinalize, redis, View
<1>3. QED
  BY <1>1, <1>2 DEF ApiStep

LEMMA FailRefines ==
    ASSUME IndInv, NEW w \in Workers, worker[w].pc # "idle", FinalizeProcessingFailure(w)
    PROVE  Lifecycle!LNext \/ View' = View
<1>1. CASE FailAttempt(w)
  <2> DEFINE j == worker[w].job
  <2>1. j \in Jobs /\ hash[j].status = "in_progress"
    BY <1>1, OwnedJob DEF FailAttempt
  <2>2. /\ hash'[j].status = "failed" /\ hash'[j].retry = hash[j].retry
        /\ \A k \in Jobs \ {j} : hash'[k] = hash[k]
    BY <1>1, <2>1, HashAfter DEF FailAttempt, IndInv
  <2>3. QED
    BY <2>1, <2>2, MoveStep DEF Phase
<1>2. CASE LoseAttempt(w)
  BY <1>2 DEF LoseAttempt, redis, View
<1>3. QED
  BY <1>1, <1>2 DEF FinalizeProcessingFailure

LEMMA WorkerRefines ==
    ASSUME IndInv, NEW w \in Workers,
           Dequeue(w) \/ WorkerStep(w) \/ Heartbeat(w) \/ AbandonJob(w)
    PROVE  Lifecycle!LNext \/ View' = View
<1> DEFINE j == worker[w].job
<1> USE DEF At
<1>1. CASE \/ Dequeue(w) \/ LoadHash(w) \/ CheckAccepts(w) \/ WriteStarted(w)
           \/ Probe(w) \/ WriteResult(w) \/ AbandonJob(w)
  BY <1>1 DEF Dequeue, LoadHash, CheckAccepts, WriteStarted, Probe, WriteResult,
              AbandonJob, redis, View
<1>2. CASE CheckRejects(w) \/ ProbeFails(w)
  BY <1>2, FailRefines DEF CheckRejects, ProbeFails
<1>3. CASE MarkInProgress(w)
  <2>1. j \in Jobs /\ hash[j].status = "queued"
    BY <1>3, ClaimerHasJob DEF MarkInProgress, IndInv, ClaimInv, Claiming, PreMark
  <2>2. QED
    BY <1>3, <2>1, HashAfter, MoveStep DEF MarkInProgress, Phase, IndInv
<1>4. CASE Heartbeat(w)
  <2>1. CASE LoseAttempt(w)
    BY <2>1 DEF LoseAttempt, redis, View
  <2>2. CASE SetBeat(j, "fresh")
    BY <1>4, <2>2, ClaimerHasJob, BeatStep DEF Heartbeat, IndInv
  <2>3. QED
    BY <1>4, <2>1, <2>2 DEF Heartbeat
<1>5. CASE CompleteAttempt(w)
  <2>1. CASE LoseAttempt(w)
    BY <2>1 DEF LoseAttempt, redis, View
  <2>2. CASE OwnsAttempt(w) /\ ~LoseAttempt(w)
    <3>1. /\ j \in Jobs /\ hash[j].status = "in_progress"
          /\ SetHash(j, "completed", hash[j].retry, "none", "fresh")
      BY <1>5, <2>2, OwnedJob DEF CompleteAttempt
    <3>2. QED
      BY <3>1, HashAfter, MoveStep DEF Phase, IndInv
  <2>3. QED
    BY <1>5, <2>1, <2>2 DEF CompleteAttempt
<1>6. QED
  BY <1>1, <1>2, <1>3, <1>4, <1>5 DEF WorkerStep

LEMMA RecoverRefines ==
    ASSUME IndInv, NEW r \in Reapers, NEW j \in Jobs,
           RecoverProcessingJob(r, j) \/ RecoverFailedJob(r, j)
    PROVE  Lifecycle!LNext \/ View' = View
<1>1. CASE DropEntry(r, j) \/ LeaveEntry(r, j) \/ ForgetFailed(r, j)
  BY <1>1 DEF DropEntry, LeaveEntry, ForgetFailed, redis, View
<1>2. CASE RequeueStale(r, j) \/ RequeueFailed(r, j)
  <2>1. Phase(hash[j]) \in {"running", "failed"}
    BY <1>2 DEF RequeueStale, RequeueFailed, IsStale, IsRetryable, Phase
  <2>2. QED
    BY <1>2, <2>1, RetryStep DEF RequeueStale, RequeueFailed, IndInv
<1>3. CASE PoisonStale(r, j) \/ PoisonFailed(r, j)
  <2>1. Phase(hash[j]) \in {"running", "failed"}
    BY <1>3 DEF PoisonStale, PoisonFailed, IsStale, IsRetryable, Phase
  <2>2. /\ Phase(hash'[j]) = "poisoned" /\ hash'[j].retry = hash[j].retry
        /\ \A k \in Jobs \ {j} : hash'[k] = hash[k]
    BY <1>3, HashAfter DEF PoisonStale, PoisonFailed, Phase, IndInv
  <2>3. QED
    BY <2>1, <2>2, MoveStep
<1>4. QED
  BY <1>1, <1>2, <1>3 DEF RecoverProcessingJob, RecoverFailedJob

LEMMA NextRefines ==
    IndInv /\ [Next]_vars => [Lifecycle!LNext]_View
<1> SUFFICES ASSUME IndInv, [Next]_vars PROVE Lifecycle!LNext \/ View' = View
  OBVIOUS
<1>1. ASSUME NEW j \in Jobs, ApiStep(j) \/ HeartbeatExpires(j)
      PROVE  Lifecycle!LNext \/ View' = View
  BY <1>1, ApiRefines, BeatStep DEF HeartbeatExpires, IndInv
<1>2. ASSUME NEW w \in Workers,
             Dequeue(w) \/ WorkerStep(w) \/ Heartbeat(w) \/ AbandonJob(w)
      PROVE  Lifecycle!LNext \/ View' = View
  BY <1>2, WorkerRefines
<1>3. ASSUME NEW r \in Reapers,
             ReaperStep(r) \/ RestartReaper(r) \/ \E j \in Jobs : VisitFails(r, j)
      PROVE  Lifecycle!LNext \/ View' = View
  <2>1. CASE \E j \in Jobs : RecoverProcessingJob(r, j) \/ RecoverFailedJob(r, j)
    BY <2>1, RecoverRefines
  <2>2. CASE \/ ScanProcessing(r) \/ ScanFailed(r) \/ WriteOutcome(r)
             \/ RestartReaper(r) \/ \E j \in Jobs : VisitFails(r, j)
    BY <2>2 DEF ScanProcessing, ScanFailed, Scan, WriteOutcome, RestartReaper, VisitFails,
                redis, View
  <2>3. QED
    BY <1>3, <2>1, <2>2 DEF ReaperStep
<1>4. CASE UNCHANGED vars
  BY <1>4 DEF vars, redis, View
<1>5. QED
  BY <1>1, <1>2, <1>3, <1>4 DEF Next

\* The service keeps the promise of JobLifecycle for any number of jobs, workers and
\* reapers, and under every fault: a job is attempted at most ReaperMaxRetries + 1
\* times, one attempt at a time, and a completed or poisoned job stays so.
THEOREM PipelineImplementsLifecycle == Spec => ImplementsLifecycle
<1>1. Init => Lifecycle!LInit
  BY DEF Init, Lifecycle!LInit, Phase
<1>2. QED
  BY <1>1, NextRefines, PipelineInvariant, PTL
  DEF Spec, ImplementsLifecycle, Lifecycle!LSpec, View

-----------------------------------------------------------------------------
(* Every step as seen by the job hashes and the counters.                   *)

Counted(C) == stats' = [c \in Counters |-> IF c \in C THEN stats[c] + 1 ELSE stats[c]]

\* Job j goes from the statuses given to another, perhaps to its next attempt, perhaps with
\* another failure; the counters C count it.
Moves(j, from, to, retry, failure, C) ==
    /\ hash[j].status \in from /\ hash'[j].status = to
    /\ hash'[j].retry = retry /\ hash'[j].failure \in failure
    /\ \A k \in Jobs \ {j} : hash'[k] = hash[k]
    /\ Counted(C)

Submitted(j)  == Moves(j, {"none"}, "queued", hash[j].retry, {"none"}, {"submitted"})
Started(j)    == Moves(j, {"queued"}, "in_progress", hash[j].retry, {"none"}, {})
Completed(j)  == Moves(j, {"in_progress"}, "completed", hash[j].retry, {"none"}, {"completed"})
FailedOnce(j) == Moves(j, {"in_progress"}, "failed", hash[j].retry, {"processing_error"}, {})
Poisoned(j)   == /\ hash[j].status = "failed" => IsRetryable(j)
                 /\ Moves(j, {"in_progress", "failed"}, "failed", hash[j].retry,
                          {"poison_pill"}, {"failed", "poison"})
Retried(j)    == /\ hash[j].status = "failed" => IsRetryable(j)
                 /\ RetriesLeft(j)
                 /\ \E c \in {"recoveredStale", "recoveredFailed"} :
                        Moves(j, {"in_progress", "failed"}, "queued", hash[j].retry + 1,
                              {"stale_timeout", "processing_error"}, {c})
Kept          == /\ \A k \in Jobs : /\ hash'[k].status = hash[k].status
                                    /\ hash'[k].retry = hash[k].retry
                                    /\ hash'[k].failure = hash[k].failure
                 /\ stats' = stats

HashStep ==
    \/ Kept
    \/ \E j \in Jobs : \/ Submitted(j) \/ Started(j) \/ Completed(j) \/ FailedOnce(j)
                       \/ Poisoned(j) \/ Retried(j)

FailureInv == \A j \in Jobs : hash[j].failure = "poison_pill" => hash[j].status = "failed"

Fresh(j) == hash[j].status \in {"none", "queued"} /\ hash[j].retry = 0

\* Nobody who has started, or recovered, an earlier attempt of a job is about to write the
\* durable record of one that waits for its first.
FreshInv ==
    \A j \in Jobs : Fresh(j) =>
        /\ durable[j] \in {"uploading", "queued"}
        /\ \A w \in Workers : worker[w].pc \in {"start", "finish", "fail"} => worker[w].job # j
        /\ \A r \in Reapers : \A o \in reaper[r].outcome : o.job # j

LEMMA CountedMeans ==
    /\ \A C : Incr(C) <=> Counted(C)
    /\ TypeOK /\ stats' = stats => Counted({})
  BY DEF Incr, Counted, TypeOK

LEMMA BeatKeeps ==
    ASSUME TypeOK, NEW j \in Jobs, NEW beat, SetBeat(j, beat), UNCHANGED stats
    PROVE  Kept
  BY HashAfter DEF SetBeat, Kept

LEMMA ApiHash ==
    ASSUME IndInv, NEW j \in Jobs, ApiStep(j)
    PROVE  Kept \/ Submitted(j)
<1>1. CASE EnqueueJob(j)
  <2>1. hash[j].status = "none" /\ hash[j].retry = 0
    BY <1>1 DEF EnqueueJob, IndInv, AbsentInv
  <2>2. QED
    BY <1>1, <2>1, HashAfter, CountedMeans DEF EnqueueJob, Submitted, Moves, IndInv
<1>2. CASE PutQueuedJob(j) \/ AbortFinalize(j)
  BY <1>2 DEF PutQueuedJob, AbortFinalize, redis, Kept
<1>3. QED
  BY <1>1, <1>2 DEF ApiStep

LEMMA FailHash ==
    ASSUME IndInv, NEW w \in Workers, worker[w].pc # "idle", FinalizeProcessingFailure(w)
    PROVE  Kept \/ FailedOnce(worker[w].job) \/ Poisoned(worker[w].job)
<1> DEFINE j == worker[w].job
<1>1. CASE FailAttempt(w)
  <2>1. j \in Jobs /\ hash[j].status = "in_progress" /\ TypeOK
    BY <1>1, OwnedJob DEF FailAttempt, IndInv
  <2>2. CASE worker[w].retry >= WorkerMaxRetries
    BY <1>1, <2>1, <2>2, HashAfter, CountedMeans DEF FailAttempt, Poisoned, Moves
  <2>3. CASE ~(worker[w].retry >= WorkerMaxRetries)
    BY <1>1, <2>1, <2>3, HashAfter, CountedMeans DEF FailAttempt, FailedOnce, Moves
  <2>4. QED
    BY <2>2, <2>3
<1>2. CASE LoseAttempt(w)
  BY <1>2 DEF LoseAttempt, redis, Kept
<1>3. QED
  BY <1>1, <1>2 DEF FinalizeProcessingFailure

LEMMA WorkerHash ==
    ASSUME IndInv, NEW w \in Workers,
           Dequeue(w) \/ WorkerStep(w) \/ Heartbeat(w) \/ AbandonJob(w)
    PROVE  HashStep
<1> DEFINE j == worker[w].job
<1> USE DEF At
<1>1. CASE \/ Dequeue(w) \/ LoadHash(w) \/ CheckAccepts(w) \/ WriteStarted(w)
           \/ Probe(w) \/ WriteResult(w) \/ AbandonJob(w)
  BY <1>1 DEF Dequeue, LoadHash, CheckAccepts, WriteStarted, Probe, WriteResult,
              AbandonJob, redis, Kept, HashStep
<1>2. CASE CheckRejects(w) \/ ProbeFails(w)
  <2>1. worker[w].pc # "idle" /\ FinalizeProcessingFailure(w)
    BY <1>2 DEF CheckRejects, ProbeFails
  <2>2. j \in Jobs
    BY <2>1, ClaimerHasJob DEF IndInv
  <2>3. QED
    BY <2>1, <2>2, FailHash DEF HashStep
<1>3. CASE MarkInProgress(w)
  <2>1. j \in Jobs /\ hash[j].status = "queued" /\ TypeOK
    BY <1>3, ClaimerHasJob DEF MarkInProgress, IndInv, ClaimInv, Claiming, PreMark
  <2>2. Started(j)
    BY <1>3, <2>1, HashAfter, CountedMeans DEF MarkInProgress, Started, Moves
  <2>3. QED
    BY <2>1, <2>2 DEF HashStep
<1>4. CASE Heartbeat(w)
  <2>1. CASE LoseAttempt(w)
    BY <2>1 DEF LoseAttempt, redis, Kept, HashStep
  <2>2. CASE SetBeat(j, "fresh") /\ UNCHANGED stats
    BY <1>4, <2>2, ClaimerHasJob, BeatKeeps DEF Heartbeat, IndInv, HashStep
  <2>3. QED
    BY <1>4, <2>1, <2>2 DEF Heartbeat
<1>5. CASE CompleteAttempt(w)
  <2>1. CASE LoseAttempt(w)
    BY <2>1 DEF LoseAttempt, redis, Kept, HashStep
  <2>2. CASE OwnsAttempt(w) /\ ~LoseAttempt(w)
    <3>1. /\ j \in Jobs /\ hash[j].status = "in_progress" /\ TypeOK
          /\ SetHash(j, "completed", hash[j].retry, "none", "fresh")
          /\ Incr({"completed"})
      BY <1>5, <2>2, OwnedJob DEF CompleteAttempt, IndInv
    <3>2. Completed(j)
      BY <3>1, HashAfter, CountedMeans DEF Completed, Moves
    <3>3. QED
      BY <3>1, <3>2 DEF HashStep
  <2>3. QED
    BY <1>5, <2>1, <2>2 DEF CompleteAttempt
<1>6. QED
  BY <1>1, <1>2, <1>3, <1>4, <1>5 DEF WorkerStep

LEMMA RecoverHash ==
    ASSUME IndInv, NEW r \in Reapers, NEW j \in Jobs,
           RecoverProcessingJob(r, j) \/ RecoverFailedJob(r, j)
    PROVE  Kept \/ Retried(j) \/ Poisoned(j)
<1>1. CASE DropEntry(r, j) \/ LeaveEntry(r, j) \/ ForgetFailed(r, j)
  BY <1>1 DEF DropEntry, LeaveEntry, ForgetFailed, redis, Kept
<1>2. CASE RequeueStale(r, j) \/ RequeueFailed(r, j)
  <2>1. /\ hash[j].status \in {"in_progress", "failed"}
        /\ hash[j].status = "failed" => IsRetryable(j)
        /\ RetriesLeft(j) /\ TypeOK
    BY <1>2 DEF RequeueStale, RequeueFailed, IsStale, IsRetryable, IndInv
  <2>2. PICK failure \in {"stale_timeout", "processing_error"},
             c \in {"recoveredStale", "recoveredFailed"} :
            /\ SetHash(j, "queued", hash[j].retry + 1, failure, "none")
            /\ Counted({c})
    BY <1>2, CountedMeans DEF RequeueStale, RequeueFailed, Requeue
  <2>3. QED
    BY <2>1, <2>2, HashAfter DEF Retried, Moves
<1>3. CASE PoisonStale(r, j) \/ PoisonFailed(r, j)
  <2>1. /\ hash[j].status \in {"in_progress", "failed"}
        /\ hash[j].status = "failed" => IsRetryable(j)
        /\ TypeOK
    BY <1>3 DEF PoisonStale, PoisonFailed, IsStale, IsRetryable, IndInv
  <2>2. /\ SetHash(j, "failed", hash[j].retry, "poison_pill", hash[j].beat)
        /\ Counted({"failed", "poison"})
    BY <1>3, CountedMeans DEF PoisonStale, PoisonFailed
  <2>3. QED
    BY <2>1, <2>2, HashAfter DEF Poisoned, Moves
<1>4. QED
  BY <1>1, <1>2, <1>3 DEF RecoverProcessingJob, RecoverFailedJob

LEMMA NextHash ==
    ASSUME IndInv, [Next]_vars
    PROVE  HashStep
<1>1. ASSUME NEW j \in Jobs, ApiStep(j) \/ HeartbeatExpires(j)
      PROVE  HashStep
  BY <1>1, ApiHash, BeatKeeps DEF HeartbeatExpires, IndInv, HashStep
<1>2. ASSUME NEW w \in Workers,
             Dequeue(w) \/ WorkerStep(w) \/ Heartbeat(w) \/ AbandonJob(w)
      PROVE  HashStep
  BY <1>2, WorkerHash
<1>3. ASSUME NEW r \in Reapers,
             ReaperStep(r) \/ RestartReaper(r) \/ \E j \in Jobs : VisitFails(r, j)
      PROVE  HashStep
  <2>1. CASE \E j \in Jobs : RecoverProcessingJob(r, j) \/ RecoverFailedJob(r, j)
    BY <2>1, RecoverHash DEF HashStep
  <2>2. CASE \/ ScanProcessing(r) \/ ScanFailed(r) \/ WriteOutcome(r)
             \/ RestartReaper(r) \/ \E j \in Jobs : VisitFails(r, j)
    BY <2>2 DEF ScanProcessing, ScanFailed, Scan, WriteOutcome, RestartReaper, VisitFails,
                redis, Kept, HashStep
  <2>3. QED
    BY <1>3, <2>1, <2>2 DEF ReaperStep
<1>4. CASE UNCHANGED vars
  BY <1>4 DEF vars, redis, Kept, HashStep
<1>5. QED
  BY <1>1, <1>2, <1>3, <1>4 DEF Next

-----------------------------------------------------------------------------
(* The counters.                                                           *)

\* The sets CountersAgree counts.
With(status) == {j \in Jobs : hash[j].status = status}
PoisonPills  == {j \in Jobs : hash[j].failure = "poison_pill"}
Retries      == {a \in Jobs \X (1..ReaperMaxRetries) : a[2] <= hash[a[1]].retry}

Agree ==
    /\ stats["submitted"] = Cardinality(Jobs) - Cardinality(With("none"))
    /\ stats["completed"] = Cardinality(With("completed"))
    /\ stats["failed"] = Cardinality(PoisonPills)
    /\ stats["poison"] = stats["failed"]
    /\ stats["recoveredStale"] + stats["recoveredFailed"] = Cardinality(Retries)

CountInv == FailureInv /\ Agree

LEMMA AgreeMeans == Agree <=> CountersAgree
  BY DEF Agree, CountersAgree, With, PoisonPills, Retries

LEMMA SetsFinite ==
    ASSUME IsFiniteSet(Jobs)
    PROVE  /\ \A status : IsFiniteSet(With(status)) /\ Cardinality(With(status)) \in Nat
           /\ IsFiniteSet(PoisonPills) /\ Cardinality(PoisonPills) \in Nat
           /\ IsFiniteSet(Retries) /\ Cardinality(Retries) \in Nat
           /\ Cardinality(Jobs) \in Nat
<1>1. IsFiniteSet(Jobs \X (1..ReaperMaxRetries))
  <2>1. IsFiniteSet(1..ReaperMaxRetries)
    BY FS_Interval, PipelineAssumption
  <2>2. QED
    BY <2>1, FS_Product
<1>2. /\ \A status : With(status) \in SUBSET Jobs
      /\ PoisonPills \in SUBSET Jobs
      /\ Retries \in SUBSET (Jobs \X (1..ReaperMaxRetries))
  BY DEF With, PoisonPills, Retries
<1>3. QED
  BY <1>1, <1>2, FS_Subset, FS_CardinalityType

LEMMA CountersInitially == IsFiniteSet(Jobs) /\ Init => CountInv
<1> SUFFICES ASSUME IsFiniteSet(Jobs), Init PROVE CountInv
  OBVIOUS
<1>1. With("none") = Jobs /\ With("completed") = {} /\ PoisonPills = {} /\ Retries = {}
  BY DEF Init, With, PoisonPills, Retries
<1>2. \A c \in Counters : stats[c] = 0
  BY DEF Init
<1>3. Agree
  BY <1>1, <1>2, SetsFinite, FS_EmptySet DEF Counters, Agree
<1>4. QED
  BY <1>3 DEF CountInv, FailureInv, Init

\* What a step does to one job moves it from one of the sets to another.
LEMMA MovesMeans ==
    ASSUME TypeOK, TypeOK', NEW j \in Jobs, NEW from, NEW to, NEW retry, NEW failure, NEW C,
           Moves(j, from, to, retry, failure, C), to # "none"
    PROVE  /\ With("none")' = With("none") \ {j}
           /\ With("completed")' =
                  IF to = "completed" THEN With("completed") \cup {j} ELSE With("completed") \ {j}
           /\ PoisonPills' = IF hash'[j].failure = "poison_pill" THEN PoisonPills \cup {j}
                             ELSE PoisonPills \ {j}
           /\ retry = hash[j].retry => Retries' = Retries
           /\ retry = hash[j].retry + 1 => /\ Retries' = Retries \cup {<<j, retry>>}
                                           /\ <<j, retry>> \notin Retries
           /\ \A c \in Counters : stats'[c] = IF c \in C THEN stats[c] + 1 ELSE stats[c]
<1>1. /\ hash'[j].status = to /\ hash'[j].retry = retry
      /\ \A k \in Jobs \ {j} : hash'[k] = hash[k]
      /\ \A c \in Counters : stats'[c] = IF c \in C THEN stats[c] + 1 ELSE stats[c]
  BY DEF Moves, Counted
<1>2. /\ With("none")' = With("none") \ {j}
      /\ With("completed")' =
             IF to = "completed" THEN With("completed") \cup {j} ELSE With("completed") \ {j}
      /\ PoisonPills' = IF hash'[j].failure = "poison_pill" THEN PoisonPills \cup {j}
                        ELSE PoisonPills \ {j}
  BY <1>1 DEF With, PoisonPills
<1>3. retry = hash[j].retry => Retries' = Retries
  BY <1>1 DEF Retries
<1>4. ASSUME retry = hash[j].retry + 1
      PROVE  Retries' = Retries \cup {<<j, retry>>} /\ <<j, retry>> \notin Retries
  <2>1. hash[j].retry \in Nat /\ hash'[j].retry \in 0..ReaperMaxRetries
    BY HashFields, PipelineAssumption DEF TypeOK, JobHash
  <2>2. retry \in 1..ReaperMaxRetries
    BY <1>1, <1>4, <2>1, PipelineAssumption
  <2>3. ASSUME NEW k \in Jobs, NEW n \in 1..ReaperMaxRetries
        PROVE  n <= hash'[k].retry <=> n <= hash[k].retry \/ (k = j /\ n = retry)
    BY <1>1, <1>4, <2>1, PipelineAssumption
  <2>4. <<j, retry>> \notin Retries
    BY <1>4, <2>1 DEF Retries
  <2>5. QED
    BY <2>2, <2>3, <2>4 DEF Retries
<1>5. QED
  BY <1>1, <1>2, <1>3, <1>4

\* The counters C that agree with what happens to the job keep the counters right.
LEMMA MovesAgree ==
    ASSUME IsFiniteSet(Jobs), TypeOK, TypeOK', Agree, NEW j \in Jobs,
           NEW from, NEW to, NEW retry, NEW failure, NEW C,
           Moves(j, from, to, retry, failure, C), to # "none",
           hash[j].status # "completed", hash[j].failure # "poison_pill",
           "submitted" \in C <=> hash[j].status = "none",
           "completed" \in C <=> to = "completed",
           "failed" \in C <=> hash'[j].failure = "poison_pill",
           "poison" \in C <=> hash'[j].failure = "poison_pill",
           \/ retry = hash[j].retry /\ {"recoveredStale", "recoveredFailed"} \cap C = {}
           \/ /\ retry = hash[j].retry + 1
              /\ "recoveredStale" \in C <=> "recoveredFailed" \notin C
    PROVE  Agree'
<1>1. /\ With("none")' = With("none") \ {j}
      /\ With("completed")' =
             IF to = "completed" THEN With("completed") \cup {j} ELSE With("completed") \ {j}
      /\ PoisonPills' = IF hash'[j].failure = "poison_pill" THEN PoisonPills \cup {j}
                        ELSE PoisonPills \ {j}
      /\ retry = hash[j].retry => Retries' = Retries
      /\ retry = hash[j].retry + 1 => /\ Retries' = Retries \cup {<<j, retry>>}
                                      /\ <<j, retry>> \notin Retries
      /\ \A c \in Counters : stats'[c] = IF c \in C THEN stats[c] + 1 ELSE stats[c]
  BY MovesMeans
<1>2. \A c \in Counters : stats[c] \in Nat
  BY DEF TypeOK
<1>3. /\ IsFiniteSet(With("none")) /\ Cardinality(With("none")) \in Nat
      /\ IsFiniteSet(With("completed")) /\ Cardinality(With("completed")) \in Nat
      /\ IsFiniteSet(PoisonPills) /\ Cardinality(PoisonPills) \in Nat
      /\ IsFiniteSet(Retries) /\ Cardinality(Retries) \in Nat
      /\ Cardinality(Jobs) \in Nat
  BY SetsFinite
<1>4. stats'["submitted"] = Cardinality(Jobs) - Cardinality(With("none")')
  <2>1. j \in With("none") <=> "submitted" \in C
    BY DEF With
  <2>2. Cardinality(With("none")')
            = IF "submitted" \in C THEN Cardinality(With("none")) - 1 ELSE Cardinality(With("none"))
    BY <1>1, <1>3, <2>1, FS_RemoveElement
  <2>3. stats'["submitted"] = IF "submitted" \in C THEN stats["submitted"] + 1 ELSE stats["submitted"]
    BY <1>1 DEF Counters
  <2>4. QED
    BY <1>2, <1>3, <2>2, <2>3 DEF Agree, Counters
<1>5. stats'["completed"] = Cardinality(With("completed")')
  <2>1. j \notin With("completed") /\ With("completed") \ {j} = With("completed")
    BY DEF With
  <2>2. Cardinality(With("completed")')
            = IF "completed" \in C THEN Cardinality(With("completed")) + 1
              ELSE Cardinality(With("completed"))
    <3>1. With("completed")' = IF "completed" \in C THEN With("completed") \cup {j}
                               ELSE With("completed")
      BY <1>1, <2>1
    <3>2. Cardinality(With("completed") \cup {j}) = Cardinality(With("completed")) + 1
      BY <1>3, <2>1, FS_AddElement
    <3>3. QED
      BY <3>1, <3>2
  <2>3. stats'["completed"] = IF "completed" \in C THEN stats["completed"] + 1 ELSE stats["completed"]
    BY <1>1 DEF Counters
  <2>4. QED
    BY <2>2, <2>3 DEF Agree
<1>6. stats'["failed"] = Cardinality(PoisonPills') /\ stats'["poison"] = stats'["failed"]
  <2>1. j \notin PoisonPills /\ PoisonPills \ {j} = PoisonPills
    BY DEF PoisonPills
  <2>2. Cardinality(PoisonPills')
            = IF "failed" \in C THEN Cardinality(PoisonPills) + 1 ELSE Cardinality(PoisonPills)
    BY <1>1, <1>3, <2>1, FS_AddElement
  <2>3. /\ stats'["failed"] = IF "failed" \in C THEN stats["failed"] + 1 ELSE stats["failed"]
        /\ stats'["poison"] = IF "failed" \in C THEN stats["poison"] + 1 ELSE stats["poison"]
    BY <1>1 DEF Counters
  <2>4. QED
    BY <2>2, <2>3 DEF Agree
<1>7. stats'["recoveredStale"] + stats'["recoveredFailed"] = Cardinality(Retries')
  <2>1. CASE retry = hash[j].retry
    <3>1. hash[j].retry \in Nat
      BY HashFields, PipelineAssumption
    <3>2. "recoveredStale" \notin C /\ "recoveredFailed" \notin C
      BY <2>1, <3>1
    <3>3. QED
      BY <1>1, <2>1, <3>2 DEF Agree, Counters
  <2>2. CASE retry = hash[j].retry + 1 /\ ("recoveredStale" \in C <=> "recoveredFailed" \notin C)
    <3>1. Cardinality(Retries') = Cardinality(Retries) + 1
      <4>1. PICK a : Retries' = Retries \cup {a} /\ a \notin Retries
        BY <1>1, <2>2
      <4>2. Cardinality(Retries \cup {a}) = Cardinality(Retries) + 1
        BY <1>3, <4>1, FS_AddElement
      <4>3. QED
        BY <4>1, <4>2
    <3>2. \/ /\ stats'["recoveredStale"] = stats["recoveredStale"] + 1
             /\ stats'["recoveredFailed"] = stats["recoveredFailed"]
          \/ /\ stats'["recoveredStale"] = stats["recoveredStale"]
             /\ stats'["recoveredFailed"] = stats["recoveredFailed"] + 1
      BY <1>1, <2>2 DEF Counters
    <3>3. stats["recoveredStale"] \in Nat /\ stats["recoveredFailed"] \in Nat
      BY <1>2 DEF Counters
    <3>4. QED
      BY <3>1, <3>2, <3>3 DEF Agree
  <2>3. QED
    BY <2>1, <2>2
<1>8. QED
  BY <1>4, <1>5, <1>6, <1>7 DEF Agree

LEMMA CountStep ==
    ASSUME IsFiniteSet(Jobs), TypeOK, TypeOK', CountInv, HashStep
    PROVE  CountInv'
<1>1. FailureInv'
  BY DEF CountInv, FailureInv, HashStep, Kept, Submitted, Started, Completed, FailedOnce,
         Poisoned, Retried, Moves
<1>2. CASE Kept
  <2>1. /\ With("none")' = With("none") /\ With("completed")' = With("completed")
        /\ PoisonPills' = PoisonPills /\ Retries' = Retries /\ stats' = stats
    BY <1>2 DEF Kept, With, PoisonPills, Retries
  <2>2. QED
    BY <1>1, <2>1 DEF CountInv, Agree
<1>3. ASSUME NEW j \in Jobs,
             \/ Submitted(j) \/ Started(j) \/ Completed(j) \/ FailedOnce(j)
             \/ Poisoned(j) \/ Retried(j)
      PROVE  Agree'
  <2>1. /\ Agree /\ hash[j].retry \in Nat
        /\ hash[j].status # "completed" /\ hash[j].failure # "poison_pill"
    BY <1>3, HashFields, PipelineAssumption
    DEF CountInv, FailureInv, IsRetryable,
        Submitted, Started, Completed, FailedOnce, Poisoned, Retried, Moves
  <2>2. CASE Submitted(j)
    <3>1. hash[j].status = "none" /\ hash'[j].failure = "none"
      BY <2>2 DEF Submitted, Moves
    <3>2. QED
      BY <2>1, <2>2, <3>1, MovesAgree DEF Submitted
  <2>3. CASE Started(j)
    <3>1. hash[j].status = "queued" /\ hash'[j].failure = "none"
      BY <2>3 DEF Started, Moves
    <3>2. QED
      BY <2>1, <2>3, <3>1, MovesAgree DEF Started
  <2>4. CASE Completed(j)
    <3>1. hash[j].status = "in_progress" /\ hash'[j].failure = "none"
      BY <2>4 DEF Completed, Moves
    <3>2. QED
      BY <2>1, <2>4, <3>1, MovesAgree DEF Completed
  <2>5. CASE FailedOnce(j)
    <3>1. hash[j].status = "in_progress" /\ hash'[j].failure = "processing_error"
      BY <2>5 DEF FailedOnce, Moves
    <3>2. QED
      BY <2>1, <2>5, <3>1, MovesAgree DEF FailedOnce
  <2>6. CASE Poisoned(j)
    <3>1. hash[j].status # "none" /\ hash'[j].failure = "poison_pill"
      BY <2>6 DEF Poisoned, Moves
    <3>2. QED
      BY <2>1, <2>6, <3>1, MovesAgree DEF Poisoned
  <2>7. CASE Retried(j)
    <3>1. PICK c \in {"recoveredStale", "recoveredFailed"} :
              Moves(j, {"in_progress", "failed"}, "queued", hash[j].retry + 1,
                    {"stale_timeout", "processing_error"}, {c})
      BY <2>7 DEF Retried
    <3>2. hash[j].status # "none" /\ hash'[j].failure # "poison_pill"
      BY <3>1 DEF Moves
    <3>3. QED
      BY <2>1, <3>1, <3>2, MovesAgree
  <2>8. QED
    BY <1>3, <2>2, <2>3, <2>4, <2>5, <2>6, <2>7
<1>4. QED
  BY <1>1, <1>2, <1>3 DEF HashStep, CountInv

\* The counters of GET /metrics agree with the job hashes, for any finite number of jobs and
\* any retry limits: no outcome is counted twice or missed, though workers, reapers and their
\* restarts race for it (EnqueueJob, CompleteAttempt, FailAttempt, RequeueStale, ...).
THEOREM CountersAreExact ==
    ASSUME IsFiniteSet(Jobs)
    PROVE  Spec => []CountersAgree
<1>1. Init => CountInv
  BY CountersInitially
<1>2. CountInv /\ IndInv /\ [Next]_vars => CountInv'
  BY CountStep, NextHash, TypeStep DEF IndInv
<1>3. CountInv => CountersAgree
  BY AgreeMeans DEF CountInv
<1>4. QED
  BY <1>1, <1>2, <1>3, PipelineInvariant, PTL DEF Spec
-----------------------------------------------------------------------------
(* First attempts.                                                         *)

Late == {"start", "finish", "fail"}

LEMMA FreshBefore ==
    ASSUME TypeOK, HashStep, NEW j \in Jobs, Fresh(j)'
    PROVE  Fresh(j)
<1>1. hash[j].retry \in Nat
  BY HashFields, PipelineAssumption
<1>2. QED
  BY <1>1 DEF HashStep, Kept, Submitted, Started, Completed, FailedOnce, Poisoned, Retried,
              Moves, Fresh

LEMMA LateBefore ==
    ASSUME IndInv, NEW v \in Workers, [Next]_vars, worker'[v].pc \in Late
    PROVE  \/ worker[v].pc \in Late /\ worker'[v].job = worker[v].job
           \/ ~Fresh(worker[v].job)' /\ worker'[v].job = worker[v].job
<1> DEFINE Goal == \/ worker[v].pc \in Late /\ worker'[v].job = worker[v].job
                   \/ ~Fresh(worker[v].job)' /\ worker'[v].job = worker[v].job
<1> USE DEF Late
<1>0. TypeOK
  BY DEF IndInv
<1>1. CASE worker' = worker
  BY <1>1
<1>2. ASSUME NEW w \in Workers,
             Dequeue(w) \/ WorkerStep(w) \/ Heartbeat(w) \/ AbandonJob(w)
      PROVE  Goal
  <2>1. CASE \/ Dequeue(w) \/ LoadHash(w) \/ CheckAccepts(w) \/ WriteStarted(w) \/ Probe(w)
             \/ WriteResult(w) \/ AbandonJob(w)
    <3>1. worker'[w].pc \notin Late /\ \A u \in Workers \ {w} : worker'[u] = worker[u]
      BY <1>0, <2>1, WorkerAfter, GotoAfter, ReturnAfter
      DEF Dequeue, LoadHash, CheckAccepts, WriteStarted, Probe, WriteResult, AbandonJob
    <3>2. QED
      BY <3>1
  <2>2. CASE LoseAttempt(w)
    <3>1. worker'[w].pc \notin Late /\ \A u \in Workers \ {w} : worker'[u] = worker[u]
      BY <1>0, <2>2, ReturnAfter DEF LoseAttempt
    <3>2. QED
      BY <3>1
  <2>3. ASSUME NEW pc, Goto(w, pc), worker[w].pc # "idle", NEW status, status \notin {"none", "queued"},
               NEW retry, NEW failure, NEW beat, SetHash(worker[w].job, status, retry, failure, beat)
        PROVE  Goal
    <3>1. worker'[w].job = worker[w].job /\ \A u \in Workers \ {w} : worker'[u] = worker[u]
      BY <1>0, <2>3, GotoAfter
    <3>2. hash'[worker[w].job].status = status
      BY <1>0, <2>3, ClaimerHasJob, HashAfter
    <3>3. ~Fresh(worker[w].job)'
      BY <2>3, <3>1, <3>2 DEF Fresh
    <3>4. QED
      BY <3>1, <3>3
  <2>4. CASE MarkInProgress(w)
    BY <2>3, <2>4 DEF MarkInProgress, At
  <2>5. CASE CheckRejects(w) \/ ProbeFails(w)
    BY <2>2, <2>3, <2>5
    DEF CheckRejects, ProbeFails, FinalizeProcessingFailure, FailAttempt, At
  <2>6. CASE CompleteAttempt(w)
    BY <2>2, <2>3, <2>6 DEF CompleteAttempt, At
  <2>7. CASE Heartbeat(w)
    BY <1>1, <2>2, <2>7 DEF Heartbeat
  <2>8. QED
    BY <1>2, <2>1, <2>4, <2>5, <2>6, <2>7 DEF WorkerStep
<1>3. ASSUME NEW j \in Jobs, ApiStep(j) \/ HeartbeatExpires(j)
      PROVE  worker' = worker
  BY <1>3 DEF ApiStep, PutQueuedJob, EnqueueJob, AbortFinalize, HeartbeatExpires
<1>4. ASSUME NEW r \in Reapers,
             ReaperStep(r) \/ RestartReaper(r) \/ \E j \in Jobs : VisitFails(r, j)
      PROVE  worker' = worker
  BY <1>4 DEF ReaperStep, ScanProcessing, ScanFailed, Scan, WriteOutcome, RestartReaper,
              VisitFails, RecoverProcessingJob, RecoverFailedJob, DropEntry, LeaveEntry,
              RequeueStale, PoisonStale, ForgetFailed, RequeueFailed, PoisonFailed, Visit
<1>5. CASE UNCHANGED vars
  BY <1>1, <1>5 DEF vars
<1>6. QED
  BY <1>1, <1>2, <1>3, <1>4, <1>5 DEF Next

LEMMA OutcomeBefore ==
    ASSUME IndInv, NEW q \in Reapers, [Next]_vars, NEW o \in reaper'[q].outcome
    PROVE  o \in reaper[q].outcome \/ (o.job \in Jobs /\ ~Fresh(o.job)')
<1> DEFINE Goal == o \in reaper[q].outcome \/ (o.job \in Jobs /\ ~Fresh(o.job)')
<1>0. TypeOK
  BY DEF IndInv
<1>1. CASE reaper' = reaper
  BY <1>1
<1>2. ASSUME NEW r \in Reapers, NEW phase, NEW todo, NEW outcome, SetReaper(r, phase, todo, outcome),
             o \in outcome => o.job \in Jobs /\ ~Fresh(o.job)'
      PROVE  Goal
  <2>1. reaper'[r].outcome = outcome /\ \A s \in Reapers \ {r} : reaper'[s] = reaper[s]
    BY <1>0, <1>2 DEF SetReaper, TypeOK
  <2>2. QED
    BY <1>2, <2>1
<1>3. ASSUME NEW r \in Reapers, ReaperStep(r) \/ RestartReaper(r) \/ \E j \in Jobs : VisitFails(r, j)
      PROVE  Goal
  <2>1. CASE \/ ScanProcessing(r) \/ ScanFailed(r) \/ WriteOutcome(r)
             \/ \E j \in Jobs : \/ VisitFails(r, j) \/ DropEntry(r, j) \/ LeaveEntry(r, j)
                                \/ ForgetFailed(r, j)
    <3>1. PICK phase, todo : SetReaper(r, phase, todo, {})
      BY <2>1 DEF ScanProcessing, ScanFailed, Scan, WriteOutcome, VisitFails, DropEntry,
                  LeaveEntry, ForgetFailed, Visit
    <3>2. QED
      BY <1>2, <3>1
  <2>2. CASE RestartReaper(r)
    <3>1. reaper'[r].outcome = {} /\ \A s \in Reapers \ {r} : reaper'[s] = reaper[s]
      BY <1>0, <2>2 DEF RestartReaper, NewCycle, TypeOK
    <3>2. QED
      BY <3>1
  <2>3. ASSUME NEW j \in Jobs,
               \/ RequeueStale(r, j) \/ PoisonStale(r, j)
               \/ RequeueFailed(r, j) \/ PoisonFailed(r, j)
        PROVE  Goal
    <3>1. hash[j].retry \in Nat
      BY <1>0, HashFields, PipelineAssumption
    <3>2. ~Fresh(j)'
      BY <1>0, <2>3, <3>1, HashAfter
      DEF RequeueStale, PoisonStale, RequeueFailed, PoisonFailed, Requeue, Fresh
    <3>3. PICK phase, status : SetReaper(r, phase, reaper[r].todo \ {j}, {[job |-> j, status |-> status]})
      BY <2>3 DEF RequeueStale, PoisonStale, RequeueFailed, PoisonFailed, Visit
    <3>4. o \in {[job |-> j, status |-> status]} => o.job = j
      OBVIOUS
    <3>5. QED
      BY <1>2, <3>2, <3>3, <3>4
  <2>4. QED
    BY <1>3, <2>1, <2>2, <2>3 DEF ReaperStep, RecoverProcessingJob, RecoverFailedJob
<1>4. ASSUME NEW j \in Jobs, ApiStep(j) \/ HeartbeatExpires(j) PROVE reaper' = reaper
  BY <1>4 DEF ApiStep, PutQueuedJob, EnqueueJob, AbortFinalize, HeartbeatExpires
<1>5. ASSUME NEW w \in Workers, Dequeue(w) \/ WorkerStep(w) \/ Heartbeat(w) \/ AbandonJob(w)
      PROVE  reaper' = reaper
  BY <1>5 DEF Dequeue, WorkerStep, LoadHash, CheckAccepts, CheckRejects, MarkInProgress,
              WriteStarted, Probe, ProbeFails, CompleteAttempt, WriteResult, Heartbeat, AbandonJob
<1>6. CASE UNCHANGED vars
  BY <1>1, <1>6 DEF vars
<1>7. QED
  BY <1>1, <1>3, <1>4, <1>5, <1>6 DEF Next

LEMMA DurableBefore ==
    ASSUME IndInv, FreshInv, NEW j \in Jobs, Fresh(j), [Next]_vars
    PROVE  durable'[j] \in {"uploading", "queued"}
<1> DEFINE Goal == durable'[j] \in {"uploading", "queued"}
<1>0. TypeOK /\ durable[j] \in {"uploading", "queued"}
  BY DEF IndInv, FreshInv
<1>1. CASE durable' = durable
  BY <1>0, <1>1
<1>2. ASSUME NEW k \in Jobs, k # j, NEW status, durable' = [durable EXCEPT ![k] = status] PROVE Goal
  BY <1>0, <1>2 DEF TypeOK
<1>3. ASSUME NEW k \in Jobs, ApiStep(k) \/ HeartbeatExpires(k) PROVE Goal
  BY <1>0, <1>3 DEF TypeOK, ApiStep, PutQueuedJob, EnqueueJob, AbortFinalize, HeartbeatExpires
<1>4. ASSUME NEW w \in Workers, Dequeue(w) \/ WorkerStep(w) \/ Heartbeat(w) \/ AbandonJob(w)
      PROVE  Goal
  <2>1. CASE WriteStarted(w) \/ WriteResult(w)
    <3>1. worker[w].pc \in Late /\ worker[w].job \in Jobs
      BY <1>0, <2>1, ClaimerHasJob DEF WriteStarted, WriteResult, At, Late
    <3>2. worker[w].job # j
      BY <3>1 DEF FreshInv, Late
    <3>3. QED
      BY <1>1, <1>2, <2>1, <3>1, <3>2 DEF WriteStarted, WriteResult
  <2>2. CASE ~(WriteStarted(w) \/ WriteResult(w))
    BY <1>1, <1>4, <2>2
    DEF Dequeue, WorkerStep, LoadHash, CheckAccepts, CheckRejects, MarkInProgress,
        Probe, ProbeFails, CompleteAttempt, Heartbeat, AbandonJob
  <2>3. QED
    BY <2>1, <2>2
<1>5. ASSUME NEW r \in Reapers,
             ReaperStep(r) \/ RestartReaper(r) \/ \E k \in Jobs : VisitFails(r, k)
      PROVE  Goal
  <2>1. CASE WriteOutcome(r)
    <3>1. \A o \in reaper[r].outcome : o.job \in Jobs /\ o.job # j
      BY <1>0, ReaperFields DEF FreshInv, Outcome
    <3>2. QED
      BY <1>1, <1>2, <2>1, <3>1 DEF WriteOutcome
  <2>2. CASE ~WriteOutcome(r)
    BY <1>1, <1>5, <2>2
    DEF ReaperStep, ScanProcessing, ScanFailed, Scan, RestartReaper,
        VisitFails, RecoverProcessingJob, RecoverFailedJob, DropEntry, LeaveEntry,
        RequeueStale, PoisonStale, ForgetFailed, RequeueFailed, PoisonFailed, Visit
  <2>3. QED
    BY <2>1, <2>2
<1>6. CASE UNCHANGED vars
  BY <1>1, <1>6 DEF vars
<1>7. QED
  BY <1>3, <1>4, <1>5, <1>6 DEF Next

LEMMA FreshStep ==
    ASSUME IndInv, FreshInv, [Next]_vars
    PROVE  FreshInv'
<1> SUFFICES ASSUME NEW j \in Jobs, Fresh(j)'
             PROVE  /\ durable'[j] \in {"uploading", "queued"}
                    /\ \A w \in Workers : worker'[w].pc \in Late => worker'[w].job # j
                    /\ \A r \in Reapers : \A o \in reaper'[r].outcome : o.job # j
  BY DEF FreshInv, Late
<1>1. Fresh(j)
  BY FreshBefore, NextHash DEF IndInv
<1>2. \A w \in Workers : worker'[w].pc \in Late => worker'[w].job # j
  BY <1>1, LateBefore DEF FreshInv, Late, Fresh
<1>3. \A r \in Reapers : \A o \in reaper'[r].outcome : o.job # j
  BY <1>1, OutcomeBefore DEF FreshInv, Fresh
<1>4. QED
  BY <1>1, <1>2, <1>3, DurableBefore

\* FirstAttemptIsHeld, job by job.
HasClaim(j) ==
    \/ \E i \in DOMAIN pending : pending[i] = j
    \/ \E w \in Workers : Claiming(w) /\ worker[w].job = j
HasOwner(j) == \E w \in Workers : Owning(w) /\ worker[w].job = j /\ OwnsAttempt(w)
Held(j) ==
    /\ hash[j].status = "queued" /\ hash[j].retry = 0 => HasClaim(j)
    /\ hash[j].status = "in_progress" => HasOwner(j)

Calm == Faults \cap {"worker", "durable", "staleRead"} = {}

LEMMA ClaimsMean == \A j : Claims(j) # {} <=> HasClaim(j)
  BY DEF Claims, HasClaim

\* A job that keeps its attempt, its claim and its owner stays held.
LEMMA HeldFrame ==
    ASSUME NEW j \in Jobs, Held(j),
           hash'[j].status = hash[j].status, hash'[j].retry = hash[j].retry,
           HasClaim(j) => HasClaim(j)',
           \A w \in Workers : Owning(w) /\ worker[w].job = j /\ OwnsAttempt(w) =>
               Owning(w)' /\ worker'[w].job = j /\ worker'[w].retry = worker[w].retry
    PROVE  Held(j)'
<1>1. HasOwner(j) => HasOwner(j)'
  BY DEF HasOwner, OwnsAttempt, Owning
<1>2. QED
  BY <1>1 DEF Held

\* A step of worker w concerns the job of w alone.
LEMMA HeldByOthers ==
    ASSUME NEW w \in Workers, \A v \in Workers \ {w} : worker'[v] = worker[v],
           pending' = pending, NEW j \in Jobs, Held(j),
           hash'[j].status = hash[j].status, hash'[j].retry = hash[j].retry,
           worker[w].job = j =>
               /\ Claiming(w) => Claiming(w)' /\ worker'[w].job = j
               /\ Owning(w) /\ OwnsAttempt(w) =>
                      Owning(w)' /\ worker'[w].job = j /\ worker'[w].retry = worker[w].retry
    PROVE  Held(j)'
<1>1. HasClaim(j) => HasClaim(j)'
  BY DEF HasClaim, Claiming
<1>2. QED
  BY <1>1, HeldFrame DEF Owning

LEMMA HeldApi ==
    ASSUME IndInv, NEW j \in Jobs, ApiStep(j) \/ HeartbeatExpires(j), NEW k \in Jobs, Held(k)
    PROVE  Held(k)'
<1>0. TypeOK
  BY DEF IndInv
<1>1. CASE PutQueuedJob(j) \/ AbortFinalize(j) \/ HeartbeatExpires(j)
  <2>1. UNCHANGED <<pending, worker>>
    BY <1>1 DEF PutQueuedJob, AbortFinalize, HeartbeatExpires, redis
  <2>2. hash'[k].status = hash[k].status /\ hash'[k].retry = hash[k].retry
    BY <1>0, <1>1, HashAfter
    DEF PutQueuedJob, AbortFinalize, HeartbeatExpires, SetBeat, redis
  <2>3. QED
    BY <2>1, <2>2, HeldFrame DEF HasClaim, Claiming, Owning
<1>2. CASE EnqueueJob(j)
  <2>1. /\ hash'[j].status = "queued" /\ hash'[j].retry = 0
        /\ \A i \in Jobs \ {j} : hash'[i] = hash[i]
        /\ pending' = Append(pending, j) /\ worker' = worker
    BY <1>0, <1>2, HashAfter DEF EnqueueJob
  <2>2. CASE k = j
    <3>1. HasClaim(j)'
      BY <1>0, <2>1, AppendAfter DEF HasClaim
    <3>2. QED
      BY <2>1, <2>2, <3>1 DEF Held
  <2>3. CASE k # j
    <3>1. HasClaim(k) => HasClaim(k)'
      BY <1>0, <2>1, AppendAfter DEF HasClaim, Claiming
    <3>2. QED
      BY <2>1, <2>3, <3>1, HeldFrame DEF Owning
  <2>4. QED
    BY <2>2, <2>3
<1>3. QED
  BY <1>1, <1>2 DEF ApiStep

LEMMA HeldLose ==
    ASSUME IndInv, NEW w \in Workers, LoseAttempt(w), NEW k \in Jobs, Held(k),
           \/ ~Claiming(w)
           \/ worker[w].job = k => hash[k].status = "queued" /\ hash[k].retry # 0
    PROVE  Held(k)'
<1>1. /\ \A v \in Workers \ {w} : worker'[v] = worker[v]
      /\ UNCHANGED <<pending, hash>> /\ ~OwnsAttempt(w)
  BY ReturnAfter DEF LoseAttempt, redis, IndInv
<1>2. CASE worker[w].job = k /\ hash[k].status = "queued" /\ hash[k].retry # 0
  BY <1>1, <1>2 DEF Held
<1>3. CASE ~(worker[w].job = k /\ hash[k].status = "queued" /\ hash[k].retry # 0)
  BY <1>1, <1>3, HeldByOthers
<1>4. QED
  BY <1>2, <1>3

\* A worker ends the attempt it owns.
LEMMA HeldEnd ==
    ASSUME IndInv, NEW w \in Workers, worker[w].pc # "idle", NEW pc, Goto(w, pc),
           NEW status \in {"completed", "failed"},
           NEW retry, NEW failure, NEW beat, SetHash(worker[w].job, status, retry, failure, beat),
           pending' = pending, NEW k \in Jobs, Held(k)
    PROVE  Held(k)'
<1> DEFINE j == worker[w].job
<1>1. /\ j \in Jobs /\ hash'[j].status = status
      /\ \A i \in Jobs \ {j} : hash'[i] = hash[i]
      /\ \A v \in Workers \ {w} : worker'[v] = worker[v]
  BY ClaimerHasJob, HashAfter, GotoAfter DEF IndInv
<1>2. CASE k = j
  BY <1>1, <1>2 DEF Held
<1>3. CASE k # j
  BY <1>1, <1>3, HeldByOthers
<1>4. QED
  BY <1>2, <1>3

LEMMA HeldWorker ==
    ASSUME IndInv, FreshInv, Calm, NEW w \in Workers, NEW k \in Jobs, Held(k),
           Dequeue(w) \/ WorkerStep(w) \/ Heartbeat(w) \/ AbandonJob(w)
    PROVE  Held(k)'
<1> DEFINE j == worker[w].job
<1> USE DEF At
<1>0. TypeOK /\ ClaimInv /\ AttemptInv
  BY DEF IndInv
<1>1. CASE Dequeue(w)
  <2>1. /\ worker'[w].pc = "load" /\ worker'[w].job = Head(pending)
        /\ \A v \in Workers \ {w} : worker'[v] = worker[v]
        /\ worker[w].pc = "idle" /\ hash' = hash
        /\ pending # << >> /\ pending' = Tail(pending)
    BY <1>0, <1>1, WorkerAfter DEF Dequeue
  <2>2. HasClaim(k) => HasClaim(k)'
    <3>1. CASE k = Head(pending)
      BY <2>1, <3>1 DEF HasClaim, Claiming, PreMark
    <3>2. ASSUME k # Head(pending), NEW i \in DOMAIN pending, pending[i] = k
          PROVE  \E n \in DOMAIN pending' : pending'[n] = k
      <4>1. i # 1
        BY <1>0, <2>1, <3>2, TailAfter
      <4>2. i - 1 \in DOMAIN pending' /\ pending'[i - 1] = k
        BY <1>0, <2>1, <3>2, <4>1, TailAfter
      <4>3. QED
        BY <4>2
    <3>3. ASSUME NEW v \in Workers, Claiming(v), worker[v].job = k PROVE HasClaim(k)'
      BY <2>1, <3>3 DEF HasClaim, Claiming, PreMark
    <3>4. QED
      BY <3>1, <3>2, <3>3 DEF HasClaim
  <2>3. QED
    BY <2>1, <2>2, HeldFrame DEF Owning, PostMark
<1>2. CASE LoadHash(w) \/ CheckAccepts(w)
  <2>1. /\ Claiming(w) /\ ~Owning(w) /\ worker'[w].pc \in PreMark /\ worker'[w].job = j
        /\ \A v \in Workers \ {w} : worker'[v] = worker[v]
        /\ UNCHANGED <<pending, hash>>
    BY <1>0, <1>2, WorkerAfter, GotoAfter
    DEF LoadHash, CheckAccepts, Claiming, Owning, PreMark, PostMark, redis
  <2>2. QED
    BY <2>1, HeldByOthers DEF Claiming
<1>3. CASE CheckRejects(w)
  <2>1. /\ Claiming(w) /\ j \in Jobs /\ hash[j].status = "queued"
    BY <1>0, <1>3, ClaimerHasJob DEF CheckRejects, Claiming, PreMark, ClaimInv
  <2>2. ~OwnsAttempt(w) /\ LoseAttempt(w)
    BY <1>3, <2>1 DEF CheckRejects, FinalizeProcessingFailure, FailAttempt, OwnsAttempt
  <2>3. durable[j] # "queued" /\ durable[j] # "uploading"
    BY <1>3, <2>1 DEF CheckRejects, Calm, IndInv, AbsentInv
  <2>4. hash[j].retry # 0
    BY <2>1, <2>3 DEF FreshInv, Fresh
  <2>5. QED
    BY <2>1, <2>2, <2>4, HeldLose
<1>4. CASE MarkInProgress(w)
  <2>1. j \in Jobs /\ worker[w].retry = hash[j].retry /\ Claiming(w)
    BY <1>0, <1>4, ClaimerHasJob DEF MarkInProgress, AttemptInv, Claiming, PreMark
  <2>2. /\ hash'[j].status = "in_progress" /\ hash'[j].retry = hash[j].retry
        /\ \A i \in Jobs \ {j} : hash'[i] = hash[i]
        /\ pending' = pending
    BY <1>0, <1>4, <2>1, HashAfter DEF MarkInProgress
  <2>3. /\ worker'[w].pc = "start" /\ worker'[w].job = j /\ worker'[w].retry = worker[w].retry
        /\ \A v \in Workers \ {w} : worker'[v] = worker[v]
    BY <1>0, <1>4, GotoAfter DEF MarkInProgress
  <2>4. CASE k = j
    <3>1. Owning(w)' /\ OwnsAttempt(w)'
      BY <2>1, <2>2, <2>3 DEF Owning, OwnsAttempt, PostMark
    <3>2. HasOwner(k)'
      BY <2>3, <2>4, <3>1 DEF HasOwner
    <3>3. QED
      BY <2>2, <2>4, <3>2 DEF Held
  <2>5. CASE k # j
    BY <2>2, <2>3, <2>5, HeldByOthers
  <2>6. QED
    BY <2>4, <2>5
<1>5. CASE WriteStarted(w) \/ Probe(w)
  <2>1. /\ Owning(w) /\ ~Claiming(w) /\ worker'[w].pc \in PostMark /\ worker'[w].job = j
        /\ worker'[w].retry = worker[w].retry
        /\ \A v \in Workers \ {w} : worker'[v] = worker[v]
        /\ UNCHANGED <<pending, hash>>
    BY <1>0, <1>5, GotoAfter DEF WriteStarted, Probe, Claiming, Owning, PreMark, PostMark, redis
  <2>2. QED
    BY <2>1, HeldByOthers DEF Owning
<1>6. CASE ProbeFails(w)
  <2>1. worker[w].pc # "idle" /\ ~Claiming(w)
    BY <1>6 DEF ProbeFails, Claiming, PreMark
  <2>2. CASE LoseAttempt(w)
    BY <2>1, <2>2, HeldLose
  <2>3. CASE FailAttempt(w)
    BY <2>1, <2>3, HeldEnd DEF FailAttempt
  <2>4. QED
    BY <1>6, <2>2, <2>3 DEF ProbeFails, FinalizeProcessingFailure
<1>7. CASE CompleteAttempt(w)
  <2>1. worker[w].pc # "idle" /\ ~Claiming(w)
    BY <1>7 DEF CompleteAttempt, Claiming, PreMark
  <2>2. CASE LoseAttempt(w)
    BY <2>1, <2>2, HeldLose
  <2>3. CASE ~LoseAttempt(w)
    BY <1>7, <2>1, <2>3, HeldEnd DEF CompleteAttempt
  <2>4. QED
    BY <2>2, <2>3
<1>8. CASE WriteResult(w)
  <2>1. /\ ~Owning(w) /\ ~Claiming(w)
        /\ \A v \in Workers \ {w} : worker'[v] = worker[v]
        /\ UNCHANGED <<pending, hash>>
    BY <1>0, <1>8, ReturnAfter DEF WriteResult, Claiming, Owning, PreMark, PostMark, redis
  <2>2. QED
    BY <2>1, HeldByOthers
<1>9. CASE Heartbeat(w)
  <2>1. worker[w].pc # "idle" /\ ~Claiming(w)
    BY <1>9 DEF Heartbeat, Claiming, PreMark
  <2>2. CASE LoseAttempt(w)
    BY <2>1, <2>2, HeldLose
  <2>3. CASE SetBeat(j, "fresh") /\ UNCHANGED <<pending, worker>>
    <3>1. hash'[k].status = hash[k].status /\ hash'[k].retry = hash[k].retry
      BY <1>0, <2>1, <2>3, ClaimerHasJob, HashAfter DEF SetBeat
    <3>2. QED
      BY <2>3, <3>1, HeldFrame DEF HasClaim, Claiming, Owning
  <2>4. QED
    BY <1>9, <2>2, <2>3 DEF Heartbeat
<1>10. ~AbandonJob(w)
  BY DEF AbandonJob, Calm
<1>11. QED
  BY <1>1, <1>2, <1>3, <1>4, <1>5, <1>6, <1>7, <1>8, <1>9, <1>10 DEF WorkerStep

\* A reaper moves a job on to its next attempt or ends it; it takes claims and owners from
\* nobody else.
LEMMA HeldReaper ==
    ASSUME IndInv, NEW r \in Reapers, NEW k \in Jobs, Held(k),
           ReaperStep(r) \/ RestartReaper(r) \/ \E j \in Jobs : VisitFails(r, j)
    PROVE  Held(k)'
<1>0. TypeOK
  BY DEF IndInv
<1>1. ASSUME worker' = worker, pending' = pending \/ \E i \in Jobs : pending' = Append(pending, i),
             hash'[k].status = hash[k].status, hash'[k].retry = hash[k].retry
      PROVE  Held(k)'
  <2>1. HasClaim(k) => HasClaim(k)'
    BY <1>0, <1>1, AppendAfter DEF HasClaim, Claiming
  <2>2. QED
    BY <1>1, <2>1, HeldFrame DEF Owning
<1>2. CASE \/ ScanProcessing(r) \/ ScanFailed(r) \/ WriteOutcome(r) \/ RestartReaper(r)
           \/ \E j \in Jobs : \/ VisitFails(r, j) \/ DropEntry(r, j) \/ LeaveEntry(r, j)
                              \/ ForgetFailed(r, j)
  <2>1. UNCHANGED <<hash, pending, worker>>
    BY <1>2 DEF ScanProcessing, ScanFailed, Scan, WriteOutcome, RestartReaper, VisitFails,
                DropEntry, LeaveEntry, ForgetFailed, Visit, redis
  <2>2. QED
    BY <1>1, <2>1
<1>3. ASSUME NEW j \in Jobs,
             \/ RequeueStale(r, j) \/ PoisonStale(r, j)
             \/ RequeueFailed(r, j) \/ PoisonFailed(r, j)
      PROVE  Held(k)'
  <2>1. hash[j].retry \in Nat
    BY <1>0, HashFields, PipelineAssumption
  <2>2. /\ \A i \in Jobs \ {j} : hash'[i] = hash[i]
        /\ \/ hash'[j].status = "failed"
           \/ hash'[j].status = "queued" /\ hash'[j].retry # 0
        /\ worker' = worker /\ (pending' = pending \/ pending' = Append(pending, j))
    BY <1>0, <1>3, <2>1, HashAfter
    DEF RequeueStale, PoisonStale, RequeueFailed, PoisonFailed, Requeue, Visit
  <2>3. CASE k = j
    BY <2>2, <2>3 DEF Held
  <2>4. CASE k # j
    BY <1>1, <2>2, <2>4
  <2>5. QED
    BY <2>3, <2>4
<1>4. QED
  BY <1>2, <1>3 DEF ReaperStep, RecoverProcessingJob, RecoverFailedJob

\* While no worker dies and DynamoDB is read consistently, a first attempt always has a claim
\* and an attempt under way an owner, even when the reaper takes the entry of a slow worker
\* away (recoverProcessingJob, withActiveAttempt).
THEOREM FirstAttemptsAreHeld == Spec => []FirstAttemptIsHeld
<1> DEFINE HeldInv == Calm => \A j \in Jobs : Held(j)
<1>1. Init => FreshInv /\ HeldInv
  BY DEF Init, FreshInv, Idle, NewCycle, Held
<1>2. IndInv /\ FreshInv /\ HeldInv /\ [Next]_vars => FreshInv' /\ HeldInv'
  <2> SUFFICES ASSUME IndInv, FreshInv, HeldInv, [Next]_vars PROVE FreshInv' /\ HeldInv'
    OBVIOUS
  <2>1. ASSUME Calm, NEW k \in Jobs, Held(k) PROVE Held(k)'
    <3>1. CASE UNCHANGED vars
      BY <2>1, <3>1, HeldFrame DEF vars, redis, HasClaim, Claiming, Owning
    <3>2. QED
      BY <2>1, <3>1, HeldApi, HeldWorker, HeldReaper DEF Next
  <2>2. QED
    BY <2>1, FreshStep DEF Calm
<1>3. HeldInv => FirstAttemptIsHeld
  BY ClaimsMean DEF Held, HasOwner, Calm, FirstAttemptIsHeld
<1> HIDE DEF HeldInv
<1>4. QED
  BY <1>1, <1>2, <1>3, PipelineInvariant, PTL DEF Spec

====
