---------------------------- MODULE UploadSession ----------------------------
(***************************************************************************)
(* How a video becomes a queued job: the two handlers of the API that open *)
(* and finalize an upload session, over three stores without a transaction *)
(* between them: S3 (the multipart upload), DynamoDB (the durable record)  *)
(* and Redis (the pending queue).  Every call of a store is a step.        *)
(*                                                                         *)
(* Any number of finalize requests may run for one job.  Only S3 stands    *)
(* between them: the record is read and written without a condition, so a  *)
(* job is queued once only if S3 completes an upload id once.              *)
(***************************************************************************)
EXTENDS Integers, Sequences, FiniteSets

CONSTANTS
    Jobs,                   \* upload requests, by the job id each generates
    Requests,               \* finalize requests
    NoJob,                  \* the job of a request that has not been made
    RepeatedCompleteWorks,  \* does S3 accept a second CompleteMultipartUpload?
    Faults                  \* which failures the environment may cause

\* s3, durable, redis: a call of that store returns an error, done or not
\* staleRead: DynamoDB's eventually consistent read returns an earlier version
\* gone: the client disconnects, which cancels the context of its request
FaultKinds == {"s3", "durable", "redis", "staleRead", "gone"}

ASSUME UploadAssumption ==
    /\ NoJob \notin Jobs
    /\ RepeatedCompleteWorks \in BOOLEAN
    /\ Faults \subseteq FaultKinds

VARIABLES
    upload,    \* S3: the multipart upload of each job
    uploaded,  \* jobs whose client has uploaded all parts
    durable,   \* DynamoDB: the status in the record of each job
    pending,   \* Redis: queue:pending
    create,    \* what each upload request is doing
    finalize   \* what each finalize request is doing, and for which job

vars == <<upload, uploaded, durable, pending, create, finalize>>

Ended     == {"accepted", "failed", "gone"}
CreatePCs == {"new", "record", "abort"} \cup Ended
FinalPCs  == {"new", "load", "complete", "put", "enqueue", "error"} \cup Ended

TypeOK ==
    /\ upload \in [Jobs -> {"none", "open", "completed", "aborted"}]
    /\ uploaded \subseteq Jobs
    /\ durable \in [Jobs -> {"none", "uploading", "queued"}]
    /\ pending \in Seq(Jobs)
    /\ create \in [Jobs -> CreatePCs]
    /\ finalize \in [Requests -> [pc : FinalPCs \ {"new"}, job : Jobs]
                                    \cup {[pc |-> "new", job |-> NoJob]}]

Init ==
    /\ upload = [j \in Jobs |-> "none"]
    /\ uploaded = {}
    /\ durable = [j \in Jobs |-> "none"]
    /\ pending = << >>
    /\ create = [j \in Jobs |-> "new"]
    /\ finalize = [r \in Requests |-> [pc |-> "new", job |-> NoJob]]

-----------------------------------------------------------------------------
(* handleCreateUpload.                                                     *)

CreateStep(j, from, to) == create[j] = from /\ create' = [create EXCEPT ![j] = to]

\* CreateMultipartUpload; the URLs of the parts are then signed locally, and the
\* upload is aborted if that fails.
OpenUpload(j) ==
    /\ \/ CreateStep(j, "new", "record") \/ CreateStep(j, "new", "abort")
    /\ upload' = [upload EXCEPT ![j] = "open"]
    /\ UNCHANGED <<uploaded, durable, pending, finalize>>

OpenUploadFails(j) ==
    /\ "s3" \in Faults
    /\ CreateStep(j, "new", "failed")
    /\ UNCHANGED <<upload, uploaded, durable, pending, finalize>>

\* PutItem with status uploading; the client gets the job id and the part URLs.
RecordUpload(j) ==
    /\ CreateStep(j, "record", "accepted")
    /\ durable' = [durable EXCEPT ![j] = "uploading"]
    /\ UNCHANGED <<upload, uploaded, pending, finalize>>

RecordUploadFails(j) ==
    /\ "durable" \in Faults
    /\ CreateStep(j, "record", "abort")
    /\ durable' \in {durable, [durable EXCEPT ![j] = "uploading"]}
    /\ UNCHANGED <<upload, uploaded, pending, finalize>>

\* AbortMultipartUpload; its failure is only logged.
AbortUpload(j) ==
    /\ CreateStep(j, "abort", "failed")
    /\ \/ upload' = [upload EXCEPT ![j] = "aborted"]
       \/ "s3" \in Faults /\ UNCHANGED upload
    /\ UNCHANGED <<uploaded, durable, pending, finalize>>

\* The client disconnects.  The abort runs under the context of the request, so it
\* fails as well: the handler ends with the upload still open.
CreateGone(j) ==
    /\ "gone" \in Faults
    /\ CreateStep(j, "record", "gone") \/ CreateStep(j, "abort", "gone")
    /\ UNCHANGED <<upload, uploaded, durable, pending, finalize>>

-----------------------------------------------------------------------------
(* The client puts the parts to S3 itself, with the URLs it got.           *)

UploadParts(j) ==
    /\ create[j] = "accepted"
    /\ upload[j] = "open"
    /\ uploaded' = uploaded \cup {j}
    /\ UNCHANGED <<upload, durable, pending, create, finalize>>

-----------------------------------------------------------------------------
(* handleFinalizeUpload.                                                   *)

FinalStep(r, from, to) ==
    /\ finalize[r].pc = from
    /\ finalize' = [finalize EXCEPT ![r] = [pc |-> to, job |-> finalize[r].job]]

\* Variant with a bug: the request does not carry the id on.
AskWithoutJob(r, j) ==
    /\ finalize[r].pc = "new"
    /\ create[j] = "accepted"
    /\ finalize' = [finalize EXCEPT ![r] = [pc |-> "load", job |-> NoJob]]
    /\ UNCHANGED <<upload, uploaded, durable, pending, create>>

\* A client that was told the job id asks to finalize its upload.
Ask(r, j) ==
    /\ finalize[r].pc = "new"
    /\ create[j] = "accepted"
    /\ finalize' = [finalize EXCEPT ![r] = [pc |-> "load", job |-> j]]
    /\ UNCHANGED <<upload, uploaded, durable, pending, create>>

\* GetItem, and 409 unless the status is uploading.
LoadJob(r) ==
    /\ \/ /\ FinalStep(r, "load", "complete")
          /\ durable[finalize[r].job] = "uploading" \/ "staleRead" \in Faults
       \/ /\ FinalStep(r, "load", "failed")
          /\ \/ durable[finalize[r].job] # "uploading"
             \/ Faults \cap {"durable", "staleRead"} # {}
    /\ UNCHANGED <<upload, uploaded, durable, pending, create>>

\* S3 accepts CompleteMultipartUpload for an open upload that has its parts.
Completes(j) ==
    /\ j \in uploaded
    /\ \/ upload[j] = "open"
       \/ upload[j] = "completed" /\ RepeatedCompleteWorks

\* Variant with a bug: an S3 error is only logged.
CompleteUploadLogged(r) ==
    /\ FinalStep(r, "complete", "put")
    /\ upload' = IF Completes(finalize[r].job)
                 THEN [upload EXCEPT ![finalize[r].job] = "completed"] ELSE upload
    /\ UNCHANGED <<uploaded, durable, pending, create>>

CompleteUpload(r) ==
    LET j == finalize[r].job
        Completed == [upload EXCEPT ![j] = "completed"]
    IN  /\ \/ /\ FinalStep(r, "complete", "put")
              /\ Completes(j)
              /\ upload' = Completed
           \/ /\ FinalStep(r, "complete", "failed")
              /\ ~Completes(j)
              /\ UNCHANGED upload
           \/ /\ FinalStep(r, "complete", "failed")
              /\ "s3" \in Faults
              /\ upload' \in {upload} \cup (IF Completes(j) THEN {Completed} ELSE {})
        /\ UNCHANGED <<uploaded, durable, pending, create>>

\* PutItem with status queued: the whole record, without a condition.
PutQueuedJob(r) ==
    /\ \/ FinalStep(r, "put", "enqueue")
       \/ "durable" \in Faults /\ FinalStep(r, "put", "error")
    /\ durable' = [durable EXCEPT ![finalize[r].job] = "queued"]
    /\ UNCHANGED <<upload, uploaded, pending, create>>

PutQueuedJobFails(r) ==
    /\ "durable" \in Faults
    /\ FinalStep(r, "put", "failed")
    /\ UNCHANGED <<upload, uploaded, durable, pending, create>>

\* The Redis transaction: the hash, RPUSH queue:pending and the counter.
EnqueueJob(r) ==
    /\ \/ FinalStep(r, "enqueue", "accepted")
       \/ "redis" \in Faults /\ FinalStep(r, "enqueue", "failed")
    /\ pending' = Append(pending, finalize[r].job)
    /\ UNCHANGED <<upload, uploaded, durable, create>>

\* Variant with a bug: no return after a Redis error.
EnqueueErrorIgnored(r) ==
    /\ "redis" \in Faults
    /\ FinalStep(r, "enqueue", "accepted")
    /\ UNCHANGED <<upload, uploaded, durable, pending, create>>

\* The request answers 500 for a record it may have written.
EnqueueJobFails(r) ==
    /\ \/ "redis" \in Faults /\ FinalStep(r, "enqueue", "failed")
       \/ FinalStep(r, "error", "failed")
    /\ UNCHANGED <<upload, uploaded, durable, pending, create>>

FinalizeGone(r) ==
    /\ "gone" \in Faults
    /\ \E pc \in {"load", "complete", "put", "enqueue"} : FinalStep(r, pc, "gone")
    /\ UNCHANGED <<upload, uploaded, durable, pending, create>>

-----------------------------------------------------------------------------
CreateRequest(j) ==
    \/ OpenUpload(j) \/ OpenUploadFails(j) \/ RecordUpload(j) \/ RecordUploadFails(j)
    \/ AbortUpload(j) \/ CreateGone(j)

FinalizeRequest(r) ==
    \/ LoadJob(r) \/ CompleteUpload(r) \/ PutQueuedJob(r) \/ PutQueuedJobFails(r)
    \/ EnqueueJob(r) \/ EnqueueJobFails(r) \/ FinalizeGone(r)

Next ==
    \/ \E j \in Jobs : CreateRequest(j) \/ UploadParts(j)
    \/ \E r \in Requests : FinalizeRequest(r) \/ \E j \in Jobs : Ask(r, j)

Spec == Init /\ [][Next]_vars

-----------------------------------------------------------------------------
(* Properties.                                                             *)

\* Requests between CompleteMultipartUpload and their answer.
Finalizing(j) == {r \in Requests : /\ finalize[r].job = j
                                  /\ finalize[r].pc \in {"put", "enqueue", "error"}}

Queued(j) == \E i \in DOMAIN pending : pending[i] = j

\* However many finalize requests run at once, on records as old as DynamoDB may
\* return, one of them at most gets past S3, and a job is queued at most once.
QueuedOnce ==
    \A j \in Jobs :
        /\ Cardinality(Finalizing(j)) <= 1
        /\ \A i, k \in DOMAIN pending : pending[i] = j /\ pending[k] = j => i = k
        /\ Queued(j) => Finalizing(j) = {}

\* A worker that takes a job finds its video in S3 and its record queued: what
\* processJob requires, or else gives the job up.  An upload is aborted only if no client
\* can use it: its id was never given out.
QueuedIsReady ==
    \A j \in Jobs :
        /\ Queued(j) => durable[j] = "queued"
        /\ durable[j] = "queued" => upload[j] = "completed"
        /\ upload[j] = "aborted" => create[j] = "failed"

\* A request that was accepted has left its job in every store, and no later request
\* undoes that.
AcceptedIsQueued ==
    \A r \in Requests : finalize[r].pc = "accepted" =>
        /\ Queued(finalize[r].job)
        /\ durable[finalize[r].job] = "queued"

\* The actions PutQueuedJob, EnqueueJob and AbortFinalize of JobPipeline are what
\* these handlers do to DynamoDB and Redis: the pipeline without workers and reapers,
\* where "uploading" also stands for a record that does not exist yet.
Pipeline == INSTANCE JobPipeline WITH
    Workers <- {}, Reapers <- {}, WorkerMaxRetries <- 0, ReaperMaxRetries <- 0,
    Faults <- {"api"},
    hash <- [j \in Jobs |-> [status  |-> IF Queued(j) THEN "queued" ELSE "none",
                             retry   |-> 0,
                             failure |-> "none",
                             beat    |-> "none"]],
    pending <- pending,
    processing <- [j \in Jobs |-> 0],
    retryable <- {},
    stats <- [c \in {"submitted", "completed", "failed", "poison", "recoveredStale",
                      "recoveredFailed"} |-> IF c = "submitted" THEN Len(pending) ELSE 0],
    durable <- [j \in Jobs |-> IF durable[j] = "queued" THEN "queued" ELSE "uploading"],
    finalizing <- {j \in Jobs : \E r \in Requests : /\ finalize[r].job = j
                                                  /\ finalize[r].pc \in {"enqueue", "error"}},
    worker <- << >>,
    reaper <- << >>

FeedsPipeline == Pipeline!Spec
=============================================================================
