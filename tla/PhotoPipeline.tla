---------------------------- MODULE PhotoPipeline ----------------------------
(***************************************************************************)
(* The in-process pipeline of the album store: POST stages the upload on   *)
(* disk, inserts the row and submits the photo to a queue in memory; a     *)
(* pool of workers copies the file to S3 and completes the row; a recovery *)
(* loop submits again what the table says is still processing.             *)
(*                                                                         *)
(* Between two calls of a worker any handler, the recovery loop or a stop  *)
(* of the process may step in.  The queue has no order here: a sender that *)
(* found the channel full waits in a goroutine, and those race.            *)
(***************************************************************************)
EXTENDS PhotoStore

CONSTANT Workers

VARIABLES
    up,        \* serving, draining (ctx is cancelled), stopped (done is closed), down
    queue,     \* queue[p]: how many times p is in the channel or held by a sender
    enqueued,  \* the set of the same name: what Submit takes for under way
    worker,    \* what each worker is doing, and for which photo
    stale      \* what the recovery loop has listed and not submitted

vars == <<photoVars, up, queue, enqueued, worker, stale>>
pipelineVars == <<up, queue, enqueued, stale>>

\* finish and retry: processPhoto has returned, the mark is not cleared yet.
BusyPCs   == {"load", "open", "put", "complete", "undo", "clean", "fail", "finish", "retry"}
WorkerPCs == BusyPCs \cup {"idle", "backoff", "exited"}
IdleWorker == [pc |-> "idle", photo |-> NoPhoto]

TypeOK ==
    /\ PhotoTypeOK
    /\ up \in {"serving", "draining", "stopped", "down"}
    /\ queue \in [Photos -> Nat]
    /\ enqueued \subseteq Photos
    /\ worker \in [Workers -> [pc : WorkerPCs, photo : Photos \cup {NoPhoto}]]
    /\ stale \subseteq Photos

Init ==
    /\ PhotoInit
    /\ up = "serving"
    /\ queue = [p \in Photos |-> 0]
    /\ enqueued = {}
    /\ worker = [w \in Workers |-> IdleWorker]
    /\ stale = {}

\* A call made with the cancelled context returns an error as well.
CallFails(kind) == Fails(kind) \/ up # "serving"

-----------------------------------------------------------------------------
(* Submit: an error once done is closed; what is under way is not queued   *)
(* twice.                                                                  *)

\* Variant with a bug: Submit does not look at the set.
SubmitAlways(p) ==
    /\ enqueued' = enqueued \cup {p}
    /\ queue' = [queue EXCEPT ![p] = @ + 1]

Submit(p) ==
    IF p \in enqueued THEN UNCHANGED <<enqueued, queue>>
    ELSE /\ enqueued' = enqueued \cup {p}
         /\ queue' = [queue EXCEPT ![p] = @ + 1]

ClearEnqueued(p) == enqueued' = enqueued \ {p}

-----------------------------------------------------------------------------
(* POST /albums/:album_id/photos.                                          *)

SetUpload(p, s) == upload' = [upload EXCEPT ![p] = s]

SaveTemp(p) ==
    /\ up = "serving"
    /\ upload[p] = "new"
    /\ SetUpload(p, "saved")
    /\ temp' = temp \cup {p}
    /\ UNCHANGED <<faults, row, object, request, gone, pipelineVars, worker>>

\* CreatePhotoProcessing; the album exists.  On an error the file is removed, even if
\* the row has been committed.
CreatePhoto(p) ==
    /\ upload[p] = "saved"
    /\ \/ SetUpload(p, "inserted") /\ Write(p, InsertedRow) /\ UNCHANGED temp
       \/ /\ Fails("store")
          /\ SetUpload(p, "refused") /\ WriteFails(p, InsertedRow) /\ RemoveTemp(p)
    /\ UNCHANGED <<faults, object, request, gone, pipelineVars, worker>>

\* Variant with a bug: the file is removed once the photo has been submitted.
SubmitUploadAndClean(p) ==
    /\ upload[p] = "inserted"
    /\ Submit(p) /\ SetUpload(p, "accepted") /\ RemoveTemp(p)
    /\ UNCHANGED <<faults, row, object, request, gone, up, stale, worker>>

SubmitUpload(p) ==
    /\ upload[p] = "inserted"
    /\ IF up # "stopped"
       THEN Submit(p) /\ SetUpload(p, "accepted") /\ UNCHANGED temp
       ELSE SetUpload(p, "failing") /\ RemoveTemp(p) /\ UNCHANGED <<enqueued, queue>>
    /\ UNCHANGED <<faults, row, object, request, gone, up, stale, worker>>

\* The pipeline has stopped: MarkPhotoFailed, whose error is ignored, and 500.
RefuseUpload(p) ==
    /\ upload[p] = "failing"
    /\ SetUpload(p, "refused")
    /\ \/ Write(p, FailedRow(row[p]))
       \/ Fails("store") /\ WriteFails(p, FailedRow(row[p]))
    /\ UNCHANGED <<faults, temp, object, request, gone, pipelineVars, worker>>

Post(p) == SaveTemp(p) \/ CreatePhoto(p) \/ SubmitUpload(p) \/ RefuseUpload(p)

-----------------------------------------------------------------------------
(* runWorker and processPhoto.                                             *)

At(w, p, pc) == worker[w] = [pc |-> pc, photo |-> p]
Go(w, pc)    == worker' = [worker EXCEPT ![w].pc = pc]

\* Variant with a bug: the receive does not wait for a photo.
TakeEmpty(w, p) ==
    /\ worker[w].pc = "idle"
    /\ queue' = [queue EXCEPT ![p] = @ - 1]
    /\ worker' = [worker EXCEPT ![w] = [pc |-> "load", photo |-> p]]
    /\ UNCHANGED <<photoVars, up, enqueued, stale>>

Take(w, p) ==
    /\ up # "down"
    /\ worker[w].pc = "idle"
    /\ queue[p] > 0
    /\ queue' = [queue EXCEPT ![p] = @ - 1]
    /\ worker' = [worker EXCEPT ![w] = [pc |-> "load", photo |-> p]]
    /\ UNCHANGED <<photoVars, up, enqueued, stale>>

Retry(w) == Go(w, "retry") /\ UNCHANGED <<photoVars, pipelineVars>>

\* Variant with a bug: a photo already completed is processed again.
LoadAny(w, p) ==
    /\ At(w, p, "load")
    /\ IF Visible(row[p]) THEN Go(w, "open") ELSE Go(w, "finish")
    /\ UNCHANGED <<photoVars, pipelineVars>>

\* GetPhotoByID does not find a tombstoned row.
Load(w, p) ==
    /\ At(w, p, "load")
    /\ IF ~Visible(row[p]) \/ row[p].status = "completed" THEN Go(w, "finish")
       ELSE IF row[p].staged THEN Go(w, "open") ELSE Go(w, "fail")
    /\ UNCHANGED <<photoVars, pipelineVars>>

LoadFails(w, p) == At(w, p, "load") /\ CallFails("store") /\ Retry(w)

\* Any error of Open counts as a missing file, and is final.
Open(w, p) ==
    /\ At(w, p, "open")
    /\ \/ p \in temp /\ Go(w, "put")
       \/ (p \notin temp \/ Fails("disk")) /\ Go(w, "fail")
    /\ UNCHANGED <<photoVars, pipelineVars>>

Put(w, p) ==
    /\ At(w, p, "put")
    /\ PutObject(p)
    /\ Go(w, "complete")
    /\ UNCHANGED <<faults, upload, row, temp, request, gone, pipelineVars>>

PutFails(w, p) ==
    /\ At(w, p, "put")
    /\ CallFails("s3")
    /\ PutObjectFails(p)
    /\ Go(w, "retry")
    /\ UNCHANGED <<faults, upload, row, temp, request, gone, pipelineVars>>

\* Variant with a bug: NotFound is not told from success.
CompleteUnchecked(w, p) ==
    /\ At(w, p, "complete")
    /\ Write(p, CompletedRow(row[p]))
    /\ Go(w, "clean")
    /\ UNCHANGED <<faults, upload, temp, object, request, gone, pipelineVars>>

\* MarkPhotoCompleted; NotFound means a DELETE came in between.
Complete(w, p) ==
    /\ At(w, p, "complete")
    /\ Write(p, CompletedRow(row[p]))
    /\ Go(w, IF Visible(row[p]) THEN "clean" ELSE "undo")
    /\ UNCHANGED <<faults, upload, temp, object, request, gone, pipelineVars>>

CompleteFails(w, p) ==
    /\ At(w, p, "complete")
    /\ CallFails("store")
    /\ WriteFails(p, CompletedRow(row[p]))
    /\ Go(w, "retry")
    /\ UNCHANGED <<faults, upload, temp, object, request, gone, pipelineVars>>

\* The object of a photo deleted meanwhile is removed again; an error is only logged.
Undo(w, p) ==
    /\ At(w, p, "undo")
    /\ RemoveObject(p) \/ (CallFails("s3") /\ RemoveObjectFails(p))
    /\ Go(w, "clean")
    /\ UNCHANGED <<faults, upload, row, temp, request, gone, pipelineVars>>

Clean(w, p) ==
    /\ At(w, p, "clean")
    /\ RemoveTemp(p)
    /\ Go(w, "finish")
    /\ UNCHANGED <<faults, upload, row, object, request, gone, pipelineVars>>

\* MarkPhotoFailed; NotFound is no error.
Fail(w, p) ==
    /\ At(w, p, "fail")
    /\ Write(p, FailedRow(row[p]))
    /\ Go(w, "finish")
    /\ UNCHANGED <<faults, upload, temp, object, request, gone, pipelineVars>>

FailFails(w, p) ==
    /\ At(w, p, "fail")
    /\ CallFails("store")
    /\ WriteFails(p, FailedRow(row[p]))
    /\ Go(w, "retry")
    /\ UNCHANGED <<faults, upload, temp, object, request, gone, pipelineVars>>

Finish(w, p) ==
    /\ At(w, p, "finish")
    /\ ClearEnqueued(p)
    /\ worker' = [worker EXCEPT ![w] = IdleWorker]
    /\ UNCHANGED <<photoVars, up, queue, stale>>

\* Variant with a bug: the mark is left on the photo that is to be tried again.
RetryMarked(w, p) ==
    /\ At(w, p, "retry")
    /\ Go(w, "backoff")
    /\ UNCHANGED <<photoVars, pipelineVars>>

BackOff(w, p) ==
    /\ At(w, p, "retry")
    /\ ClearEnqueued(p)
    /\ Go(w, "backoff")
    /\ UNCHANGED <<photoVars, up, queue, stale>>

\* After defaultRetryBackoff; the recovery loop may have submitted the photo already.
Resubmit(w, p) ==
    /\ At(w, p, "backoff")
    /\ IF up # "stopped" THEN Submit(p) ELSE UNCHANGED <<enqueued, queue>>
    /\ worker' = [worker EXCEPT ![w] = IdleWorker]
    /\ UNCHANGED <<photoVars, up, stale>>

\* ctx.Done, in the two places where a worker waits.
Exit(w) ==
    /\ up \in {"draining", "stopped"}
    /\ worker[w].pc \in {"idle", "backoff"}
    /\ worker' = [worker EXCEPT ![w] = [IdleWorker EXCEPT !.pc = "exited"]]
    /\ UNCHANGED <<photoVars, pipelineVars>>

Process(w, p) ==
    \/ Take(w, p)
    \/ Load(w, p) \/ LoadFails(w, p)
    \/ Open(w, p)
    \/ Put(w, p) \/ PutFails(w, p)
    \/ Complete(w, p) \/ CompleteFails(w, p)
    \/ Undo(w, p) \/ Clean(w, p)
    \/ Fail(w, p) \/ FailFails(w, p)
    \/ Finish(w, p) \/ BackOff(w, p) \/ Resubmit(w, p)

-----------------------------------------------------------------------------
(* The recovery loop, and the process as a whole.                          *)

\* ListRecoverablePhotos; an error of the store is logged and nothing is submitted.
ListStale ==
    /\ up = "serving"
    /\ stale = {}
    /\ stale' = RecoverablePhotos
    /\ stale' # {}
    /\ UNCHANGED <<photoVars, up, queue, enqueued, worker>>

\* By now the photo may have been completed, deleted or submitted by somebody else.
SubmitStale(p) ==
    /\ p \in stale
    /\ IF up # "stopped" THEN Submit(p) /\ stale' = stale \ {p}
                         ELSE stale' = {} /\ UNCHANGED <<enqueued, queue>>
    /\ UNCHANGED <<photoVars, up, worker>>

\* SIGTERM, or the listener failed: workers and recovery stop, handlers go on.
Cancel ==
    /\ Fails("restart")
    /\ up = "serving"
    /\ up' = "draining"
    /\ UNCHANGED <<photoVars, queue, enqueued, worker, stale>>

\* Pipeline.Stop, at the latest 5 seconds later, whatever handlers are still running.
Stop ==
    /\ up = "draining"
    /\ up' = "stopped"
    /\ UNCHANGED <<photoVars, queue, enqueued, worker, stale>>

\* The process ends, after Stop or at any other time.
Crash ==
    /\ Fails("restart")
    /\ up # "down"
    /\ up' = "down"
    /\ upload' = [p \in Photos |-> IF upload[p] \in {"saved", "inserted", "failing"}
                                   THEN "refused" ELSE upload[p]]
    /\ request' = [d \in Deletes |-> Idle]
    /\ worker' = [w \in Workers |-> IdleWorker]
    /\ enqueued' = {}
    /\ queue' = [p \in Photos |-> 0]
    /\ stale' = {}
    /\ UNCHANGED <<faults, row, temp, object, gone>>

\* A new process runs RecoverStale before it starts its workers and listens.  (It ends
\* at once if the store returns an error.)
Boot ==
    /\ up = "down"
    /\ up' = "serving"
    /\ enqueued' = RecoverablePhotos
    /\ queue' = [p \in Photos |-> IF p \in enqueued' THEN 1 ELSE 0]
    /\ UNCHANGED <<photoVars, worker, stale>>

\* No new request is let in once the server shuts down.
Handle ==
    \/ \E p \in Photos : Post(p)
    \/ /\ \/ up = "serving" /\ \E d \in Deletes, p \in Photos : DeleteLoad(d, p)
          \/ \E d \in Deletes : DeleteMark(d) \/ DeleteFile(d) \/ DeleteObject(d)
       /\ UNCHANGED <<pipelineVars, worker>>

Next ==
    \/ Handle
    \/ \E w \in Workers, p \in Photos : Process(w, p)
    \/ \E w \in Workers : Exit(w)
    \/ ListStale
    \/ \E p \in Photos : SubmitStale(p)
    \/ Cancel \/ Stop \/ Crash \/ Boot

Spec == Init /\ [][Next]_vars

-----------------------------------------------------------------------------
(* Safety.                                                                 *)

Accepted(p)  == upload[p] = "accepted"
WorkingOn(p) == {w \in Workers : worker[w].photo = p /\ worker[w].pc \in BusyPCs}

\* Two workers never have the same photo, nor is it queued while one has it: the set
\* enqueued is exact, although Submit is called by handlers, workers and the recovery
\* loop with what they knew earlier.  (MarkPhotoCompleted and MarkPhotoFailed have no
\* condition on the status, so nothing else keeps a completed photo completed.)
OneInFlight ==
    \A p \in Photos :
        queue[p] + Cardinality(WorkingOn(p)) = IF p \in enqueued THEN 1 ELSE 0

\* "Accepted uploads must not be lost": a photo answered 202 and not deleted is either
\* still processing, with its file on disk and its row pointing at it, or completed and
\* in S3; it failed only if its file could not be opened.  While the process runs a
\* photo still processing is queued or in the hands of a worker, not left to a pass of
\* the recovery loop.
AcceptedIsSafe ==
    \A p \in Photos : Accepted(p) /\ ~row[p].deleted =>
        \/ /\ Recoverable(row[p]) /\ p \in temp
           /\ up = "serving" => p \in enqueued \/ \E w \in Workers : At(w, p, "backoff")
        \/ row[p].status = "completed" /\ p \in object
        \/ row[p].status = "failed" /\ Fails("disk")

\* A photo whose URL was once given out (it had been completed) is not in S3 after a
\* DELETE was answered 204.  A photo deleted earlier is there at most while a worker
\* is about to see the tombstone; unless a store, S3 or the process fails meanwhile.
DeletedStaysGone ==
    \A p \in gone :
        /\ row[p].deleted
        /\ row[p].status = "completed" => p \notin object
        /\ (p \in object /\ faults \subseteq {"disk"}) =>
               \E w \in Workers : At(w, p, "complete") \/ At(w, p, "undo")

\* What the client sees of a photo through GET is a behaviour of PhotoLifecycle.
phase == [p \in Photos |-> IF ~Accepted(p) THEN "absent"
                           ELSE IF row[p].deleted THEN "deleted" ELSE row[p].status]
Lifecycle == INSTANCE PhotoLifecycle
ImplementsLifecycle == Lifecycle!Spec

\* V1_DESIGN.md: "the previous public file URL must no longer return 200" after a
\* successful delete, and "deleted photos should stay gone and must not be recreated by
\* late worker activity".  The code does not keep this for a photo deleted while it was
\* processing: an error of MarkPhotoCompleted makes the worker try again, and it does
\* not find the photo then, nor the object it has just put into S3.
DeletedIsNotServed ==
    \A p \in gone : p \in object => \E w \in Workers : worker[w].photo = p

-----------------------------------------------------------------------------
(* Liveness.                                                               *)

\* A call that keeps being made succeeds at last: workers retry without a limit, and
\* each retry loads the photo anew.  Go runs every goroutine that can run.
Fairness ==
    /\ \A p \in Photos :
          /\ SF_vars(\E w \in Workers : Load(w, p))
          /\ SF_vars(\E w \in Workers : Put(w, p))
          /\ SF_vars(\E w \in Workers : Complete(w, p))
          /\ SF_vars(\E w \in Workers : Fail(w, p))
          /\ WF_vars(\E w \in Workers : \/ Take(w, p) \/ Open(w, p) \/ Undo(w, p)
                                        \/ Clean(w, p) \/ Finish(w, p)
                                        \/ BackOff(w, p) \/ Resubmit(w, p))
    /\ WF_vars(Stop)
    /\ WF_vars(up = "stopped" /\ Crash)
    /\ WF_vars(Boot)

FairSpec == Spec /\ Fairness

StaysUp == <>[](up = "serving")

Ended(p) == row[p].status \in {"completed", "failed"} \/ row[p].deleted

\* Once the process stays up, every accepted photo is completed, failed or deleted,
\* whatever retries, restarts and stale submissions came before.
AcceptedEnds == StaysUp => \A p \in Photos : Accepted(p) ~> Ended(p)
=============================================================================
