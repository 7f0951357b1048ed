----------------------------- MODULE PhotoOutbox -----------------------------
(***************************************************************************)
(* The other way of the album store: POST commits the row together with a  *)
(* pending job, worker services (cmd/worker) publish the pending jobs to   *)
(* SQS and process the messages they receive, each message of a batch in a *)
(* goroutine of its own, each call a step.                                 *)
(*                                                                         *)
(* Nothing stops two services from publishing a job twice, nor SQS from    *)
(* delivering a message twice; only the statements of the store do.        *)
(***************************************************************************)
EXTENDS PhotoStore, FiniteSetsExt

CONSTANTS
    Services,   \* the worker processes
    MaxCopies,  \* BOUND: copies of one photo's message that exist at a time
    MaxTasks    \* BOUND: deliveries of messages that are under way at a time

ASSUME OutboxAssumption == MaxCopies \in Nat \ {0} /\ MaxTasks \in Nat \ {0}

VARIABLES
    job,       \* the status of each photo's row in table photo_jobs
    messages,  \* SQS: the messages not deleted, <<photo, copy>>
    service,   \* what the main loop of each service is doing
    task       \* task[s][m]: how far service s is with message m

vars == <<photoVars, job, messages, service, task>>

Messages == Photos \X (1..MaxCopies)
PhotoOf(m) == m[1]

Closed  == {"completed", "failed"}
TaskPCs == {"none", "load", "open", "put", "complete", "close", "settle", "clean",
            "fail", "reject", "ack"}

\* bad: a message of this batch could not be processed; todo: the pending jobs that
\* PublishPendingJobs has listed; photo: the one it has just sent.
ServiceState == [pc : {"down", "receive", "batch", "publish", "send", "mark"}, bad : BOOLEAN,
                 todo : SUBSET Photos, photo : Photos \cup {NoPhoto}]
Receiving == [pc |-> "receive", bad |-> FALSE, todo |-> {}, photo |-> NoPhoto]
NoTasks   == [m \in Messages |-> "none"]

TypeOK ==
    /\ PhotoTypeOK
    /\ job \in [Photos -> {"none", "pending", "published"} \cup Closed]
    /\ messages \subseteq Messages
    /\ service \in [Services -> ServiceState]
    /\ task \in [Services -> [Messages -> TaskPCs]]
    /\ \A s \in Services :
          /\ service[s].pc # "batch" => task[s] = NoTasks
          /\ service[s].pc = "send" => service[s].todo # {}
          /\ service[s].pc = "mark" => service[s].photo \in service[s].todo

Init ==
    /\ PhotoInit
    /\ job = [p \in Photos |-> "none"]
    /\ messages = {}
    /\ service = [s \in Services |-> Receiving]
    /\ task = [s \in Services |-> NoTasks]

-----------------------------------------------------------------------------
(* The statements on photo_jobs.                                           *)

\* Variant with a bug: no condition on the status.
PublishedAnyJob(j) == "published"

PublishedJob(j) == IF j = "pending" THEN "published" ELSE j

WriteJob(p, j)      == job' = [job EXCEPT ![p] = j]
WriteJobFails(p, j) == Fails("store") /\ job' \in {job, [job EXCEPT ![p] = j]}

\* CreatePhotoProcessingJob: the row and its pending job in one transaction, the file
\* having been staged before.
CreatePhotoJob(p) ==
    /\ upload[p] = "new"
    /\ upload' = [upload EXCEPT ![p] = "accepted"]
    /\ temp' = temp \cup {p}
    /\ Write(p, InsertedRow)
    /\ WriteJob(p, "pending")
    /\ UNCHANGED <<faults, object, request, gone, messages, service, task>>

-----------------------------------------------------------------------------
(* Run and ProcessQueueBatch.                                              *)

Set(s, st) == service' = [service EXCEPT ![s] = st]

Held(m) == \E s \in Services : task[s][m] # "none"

\* SQS hides a message for its visibility timeout from when it is received.
Receivable == {m \in messages : Held(m) => Fails("redeliver")}

UnderWay == {d \in Services \X Messages : task[d[1]][d[2]] # "none"}

\* One receive; an error of it is tried again and changes nothing.  It returns empty
\* only after a long poll of 2 seconds, by when the ticker of 200 ms has fired.
Receive(s) ==
    /\ service[s].pc = "receive"
    /\ \E batch \in SUBSET Receivable :
          /\ batch = {} => \A m \in Receivable : Held(m)
          /\ Cardinality(UnderWay) + Cardinality(batch) <= MaxTasks
          /\ task' = [task EXCEPT ![s] = [m \in Messages |->
                                             IF m \in batch THEN "load" ELSE "none"]]
          /\ Set(s, [Receiving EXCEPT !.pc = IF batch = {} THEN "publish" ELSE "batch"])
    /\ UNCHANGED <<photoVars, job, messages>>

\* wg.Wait.  After an error the loop receives again; else it publishes if the ticker
\* has fired.
EndBatch(s) ==
    /\ service[s].pc = "batch"
    /\ task[s] = NoTasks
    /\ \/ Set(s, Receiving)
       \/ ~service[s].bad /\ Set(s, [Receiving EXCEPT !.pc = "publish"])
    /\ UNCHANGED <<photoVars, job, messages, task>>

-----------------------------------------------------------------------------
(* PublishPendingJobs.                                                     *)

ListPending(s) ==
    LET pending == {p \in Photos : job[p] = "pending"}
    IN  /\ service[s].pc = "publish"
        /\ Set(s, IF pending = {} THEN Receiving
                  ELSE [service[s] EXCEPT !.pc = "send", !.todo = pending])
        /\ UNCHANGED <<photoVars, job, messages, task>>

\* (With no pending job the error makes no difference.)
ListFails(s) ==
    /\ service[s].pc = "publish"
    /\ Fails("store")
    /\ \E p \in Photos : job[p] = "pending"
    /\ Set(s, Receiving)
    /\ UNCHANGED <<photoVars, job, messages, task>>

\* Variant with a bug: the end of the list is not seen.
NextJobUnchecked(s) ==
    [service[s] EXCEPT !.pc = "send", !.todo = @ \ {service[s].photo}, !.photo = NoPhoto]

\* The next job of the list.
NextJob(s) ==
    LET todo == service[s].todo \ {service[s].photo}
    IN  IF todo = {} THEN Receiving
        ELSE [service[s] EXCEPT !.pc = "send", !.todo = todo, !.photo = NoPhoto]

\* The copies of p's message that are neither in SQS nor with a service; and the first.
Free(p)  == {i \in 1..MaxCopies : <<p, i>> \notin messages /\ ~Held(<<p, i>>)}
Sent(p)  == messages \cup {<<p, Min(Free(p))>>}

\* SendMessage.
Send(s, p) ==
    /\ service[s].pc = "send"
    /\ p \in service[s].todo
    /\ Free(p) # {}
    /\ messages' = Sent(p)
    /\ Set(s, [service[s] EXCEPT !.pc = "mark", !.photo = p])
    /\ UNCHANGED <<photoVars, job, task>>

\* The message may have been sent; the job stays pending.  (At the bound: not sent.)
SendFails(s, p) ==
    /\ service[s].pc = "send"
    /\ p \in service[s].todo
    /\ \/ Fails("queue") /\ Free(p) # {} /\ messages' \in {messages, Sent(p)}
       \/ Free(p) = {} /\ UNCHANGED messages
    /\ LET rest == service[s].todo \ {p}
       IN  Set(s, IF rest = {} THEN Receiving ELSE [service[s] EXCEPT !.todo = rest])
    /\ UNCHANGED <<photoVars, job, task>>

\* MarkPhotoJobPublished; NotFound (the job is not pending any more) is only reported.
MarkPublished(s) ==
    LET p == service[s].photo
    IN  /\ service[s].pc = "mark"
        /\ WriteJob(p, PublishedJob(job[p]))
        /\ Set(s, NextJob(s))
        /\ UNCHANGED <<photoVars, messages, task>>

MarkPublishedFails(s) ==
    LET p == service[s].photo
    IN  /\ service[s].pc = "mark"
        /\ WriteJobFails(p, PublishedJob(job[p]))
        /\ Set(s, NextJob(s))
        /\ UNCHANGED <<photoVars, messages, task>>

-----------------------------------------------------------------------------
(* processMessage.                                                         *)

At(s, m, pc) == task[s][m] = pc
Go(s, m, pc) == task' = [task EXCEPT ![s][m] = pc]

\* Variant with a bug: the message is deleted even so.
GiveUpForGood(s, m) ==
    /\ Go(s, m, "ack")
    /\ UNCHANGED service

\* Returned with an error: the message stays in SQS.
GiveUp(s, m) == Go(s, m, "none") /\ service' = [service EXCEPT ![s].bad = TRUE]

\* Variant with a bug: the failed photo has been dealt with, the message is left.
RejectUnacknowledged(s, m) ==
    /\ At(s, m, "reject")
    /\ WriteJob(PhotoOf(m), "failed") \/ WriteJobFails(PhotoOf(m), "failed")
    /\ Go(s, m, "none")
    /\ UNCHANGED <<photoVars, messages, service>>

\* GetPhotoByID; close is what follows for a photo that is completed or deleted.
Load(s, m) ==
    LET r == row[PhotoOf(m)]
    IN  /\ At(s, m, "load")
        /\ Go(s, m, IF ~Visible(r) \/ r.status = "completed" THEN "close"
                    ELSE IF r.staged THEN "open" ELSE "fail")
        /\ UNCHANGED <<photoVars, job, messages, service>>

LoadFails(s, m) ==
    /\ At(s, m, "load")
    /\ Fails("store")
    /\ GiveUp(s, m)
    /\ UNCHANGED <<photoVars, job, messages>>

Open(s, m) ==
    /\ At(s, m, "open")
    /\ \/ PhotoOf(m) \in temp /\ Go(s, m, "put")
       \/ (PhotoOf(m) \notin temp \/ Fails("disk")) /\ Go(s, m, "fail")
    /\ UNCHANGED <<photoVars, job, messages, service>>

Put(s, m) ==
    /\ At(s, m, "put")
    /\ PutObject(PhotoOf(m))
    /\ Go(s, m, "complete")
    /\ UNCHANGED <<faults, upload, row, temp, request, gone, job, messages, service>>

PutFails(s, m) ==
    /\ At(s, m, "put")
    /\ Fails("s3")
    /\ PutObjectFails(PhotoOf(m))
    /\ GiveUp(s, m)
    /\ UNCHANGED <<faults, upload, row, temp, request, gone, job, messages>>

\* MarkPhotoCompleted; NotFound ends like a photo that was not found at first.
Complete(s, m) ==
    LET p == PhotoOf(m)
    IN  /\ At(s, m, "complete")
        /\ Write(p, CompletedRow(row[p]))
        /\ Go(s, m, IF Visible(row[p]) THEN "settle" ELSE "close")
        /\ UNCHANGED <<faults, upload, temp, object, request, gone, job, messages, service>>

CompleteFails(s, m) ==
    LET p == PhotoOf(m)
    IN  /\ At(s, m, "complete")
        /\ Fails("store")
        /\ WriteFails(p, CompletedRow(row[p]))
        /\ GiveUp(s, m)
        /\ UNCHANGED <<faults, upload, temp, object, request, gone, job, messages>>

\* MarkPhotoJobCompletedByPhotoID after MarkPhotoCompleted: an error keeps the message.
Settle(s, m) ==
    /\ At(s, m, "settle")
    /\ WriteJob(PhotoOf(m), "completed")
    /\ Go(s, m, "clean")
    /\ UNCHANGED <<photoVars, messages, service>>

SettleFails(s, m) ==
    /\ At(s, m, "settle")
    /\ WriteJobFails(PhotoOf(m), "completed")
    /\ GiveUp(s, m)
    /\ UNCHANGED <<photoVars, messages>>

\* The same for a photo that was completed before or is gone: errors are ignored.
Close(s, m) ==
    /\ At(s, m, "close")
    /\ WriteJob(PhotoOf(m), "completed") \/ WriteJobFails(PhotoOf(m), "completed")
    /\ Go(s, m, "ack")
    /\ UNCHANGED <<photoVars, messages, service>>

Clean(s, m) ==
    /\ At(s, m, "clean")
    /\ RemoveTemp(PhotoOf(m))
    /\ Go(s, m, "ack")
    /\ UNCHANGED <<faults, upload, row, object, request, gone, job, messages, service>>

\* MarkPhotoFailed: of any visible photo, a completed one too.
Fail(s, m) ==
    LET p == PhotoOf(m)
    IN  /\ At(s, m, "fail")
        /\ Write(p, FailedRow(row[p]))
        /\ Go(s, m, "reject")
        /\ UNCHANGED <<faults, upload, temp, object, request, gone, job, messages, service>>

FailFails(s, m) ==
    LET p == PhotoOf(m)
    IN  /\ At(s, m, "fail")
        /\ Fails("store")
        /\ WriteFails(p, FailedRow(row[p]))
        /\ GiveUp(s, m)
        /\ UNCHANGED <<faults, upload, temp, object, request, gone, job, messages>>

\* MarkPhotoJobFailedByPhotoID: errors are ignored.
Reject(s, m) ==
    /\ At(s, m, "reject")
    /\ WriteJob(PhotoOf(m), "failed") \/ WriteJobFails(PhotoOf(m), "failed")
    /\ Go(s, m, "ack")
    /\ UNCHANGED <<photoVars, messages, service>>

\* DeleteMessage.
Ack(s, m) ==
    /\ At(s, m, "ack")
    /\ messages' = messages \ {m}
    /\ Go(s, m, "none")
    /\ UNCHANGED <<photoVars, job, service>>

AckFails(s, m) ==
    /\ At(s, m, "ack")
    /\ Fails("queue")
    /\ messages' \in {messages, messages \ {m}}
    /\ GiveUp(s, m)
    /\ UNCHANGED <<photoVars, job>>

Process(s, m) ==
    \/ Load(s, m) \/ Open(s, m) \/ Put(s, m) \/ Complete(s, m)
    \/ Settle(s, m) \/ Close(s, m) \/ Clean(s, m)
    \/ Fail(s, m) \/ Reject(s, m)
    \/ Ack(s, m)

ProcessFails(s, m) ==
    \/ LoadFails(s, m) \/ PutFails(s, m) \/ CompleteFails(s, m)
    \/ SettleFails(s, m) \/ FailFails(s, m) \/ AckFails(s, m)

-----------------------------------------------------------------------------

\* The service stops, with or without SIGTERM.
Crash(s) ==
    /\ Fails("restart")
    /\ service[s].pc # "down"
    /\ Set(s, [Receiving EXCEPT !.pc = "down"])
    /\ task' = [task EXCEPT ![s] = NoTasks]
    /\ UNCHANGED <<photoVars, job, messages>>

Start(s) ==
    /\ service[s].pc = "down"
    /\ Set(s, Receiving)
    /\ UNCHANGED <<photoVars, job, messages, task>>

\* The main loop of a service.
Loop(s) ==
    \/ Start(s)
    \/ Receive(s) \/ EndBatch(s)
    \/ ListPending(s) \/ MarkPublished(s)
    \/ \E p \in Photos : Send(s, p)

Failure ==
    \E s \in Services :
        \/ ListFails(s) \/ MarkPublishedFails(s)
        \/ \E p \in Photos : SendFails(s, p)
        \/ \E m \in Messages : ProcessFails(s, m)
        \/ Crash(s)

Next ==
    \/ \E p \in Photos : CreatePhotoJob(p)
    \/ \E s \in Services : Loop(s) \/ \E m \in Messages : Process(s, m)
    \/ Failure
    \/ \E d \in Deletes : Delete(d) /\ UNCHANGED <<job, messages, service, task>>

Spec == Init /\ [][Next]_vars

-----------------------------------------------------------------------------
(* Safety.                                                                 *)

Accepted(p) == upload[p] = "accepted"

\* "Accepted uploads must not be lost": while a photo is processing its file is on disk
\* and its job is pending or has a message in SQS, whatever was published, delivered or
\* acknowledged twice; a completed photo is in S3, and so is one that failed although
\* no file operation did.
AcceptedIsSafe ==
    \A p \in Photos : Accepted(p) /\ ~row[p].deleted =>
        CASE row[p].status = "processing" ->
                /\ Recoverable(row[p]) /\ p \in temp
                /\ job[p] = "pending" \/ \E m \in messages : PhotoOf(m) = p
                /\ job[p] \notin Closed
          [] row[p].status = "completed" -> p \in object
          [] row[p].status = "failed" -> Fails("disk") \/ p \in object

\* A closed job is never published again: the publisher marks a job that a consumer of
\* its message may have closed in the meantime.
ClosedStaysClosed ==
    [][\A p \in Photos : job[p] \in Closed => job'[p] \in Closed]_job

\* What the client sees of a photo would be a behaviour of PhotoLifecycle, where an end
\* is final ("if the object cannot be finalized correctly, mark the photo failed", says
\* V1_DESIGN.md).  The code does not keep this: a second delivery of the message may
\* find the file removed and mark the completed photo failed.
phase == [p \in Photos |-> IF ~Accepted(p) THEN "absent"
                           ELSE IF row[p].deleted THEN "deleted" ELSE row[p].status]
Lifecycle == INSTANCE PhotoLifecycle
ImplementsLifecycle == Lifecycle!Spec

-----------------------------------------------------------------------------
(* Liveness.                                                               *)

\* Go runs the loop of every service and the goroutines of its batch.
Fairness ==
    \A s \in Services : WF_vars(Loop(s) \/ \E m \in Messages : Process(s, m))

FairSpec == Spec /\ Fairness

\* From some time on no call fails and no service stops.  (Steps that a failing call and
\* a successful one have in common happen only finitely often without failures.)
Calms == <>[][~Failure]_vars

Ended(p) == row[p].status \in {"completed", "failed"} \/ row[p].deleted

\* After any failures, every accepted photo is completed, failed or deleted, and its
\* messages are used up.
AcceptedEnds ==
    Calms => \A p \in Photos :
                 Accepted(p) ~> Ended(p) /\ \A m \in messages : PhotoOf(m) # p
=============================================================================
