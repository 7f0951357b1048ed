----------------------------- MODULE PhotoStore -----------------------------
(***************************************************************************)
(* What the API and the workers of the album store share: the photos table *)
(* of Postgres, the upload files staged on the host and the objects in S3, *)
(* with no transaction across the three.  Here are the statements of the   *)
(* store as functions on a row, the calls of the other two stores, and the *)
(* DELETE handler, whose every call is a step.  PhotoPipeline and          *)
(* PhotoOutbox add the two ways an uploaded photo gets to S3.              *)
(***************************************************************************)
EXTENDS Integers, FiniteSets

CONSTANTS
    Photos,     \* uploads, by the photo id each generates
    Deletes,    \* the DELETE requests that may run at one time
    NoPhoto,    \* the photo of a request or a worker that has none
    FaultSets   \* the environments: the sets of faults that may occur together

\* store, s3, queue: a call of Postgres, S3 or SQS returns an error, done or not done
\* disk: a staged file cannot be opened or removed
\* restart: the process stops, at once or gracefully, and starts again
\* redeliver: SQS hands out a message that a consumer still holds
FaultKinds == {"store", "s3", "queue", "disk", "restart", "redeliver"}

ASSUME PhotoAssumption ==
    /\ NoPhoto \notin Photos
    /\ FaultSets \subseteq SUBSET FaultKinds

VARIABLES
    faults,   \* the faults of this environment, which never change
    upload,   \* how far the POST request of each photo is
    row,      \* the row of each photo in table photos
    temp,     \* photos whose upload is staged on disk
    object,   \* photos whose object is in S3
    request,  \* what each DELETE request is doing, with its copy of the row
    gone      \* photos for which a DELETE has been answered 204

photoVars == <<faults, upload, row, temp, object, request, gone>>

Statuses  == {"none", "processing", "completed", "failed"}
Row       == [status : Statuses, staged : BOOLEAN, deleted : BOOLEAN]
NoRow     == [status |-> "none", staged |-> FALSE, deleted |-> FALSE]
UploadPCs == {"new", "saved", "inserted", "failing", "accepted", "refused"}
DeletePCs == {"idle", "mark", "file", "object"}
Idle      == [pc |-> "idle", photo |-> NoPhoto, staged |-> FALSE]

PhotoTypeOK ==
    /\ faults \in FaultSets
    /\ upload \in [Photos -> UploadPCs]
    /\ row \in [Photos -> Row]
    /\ temp \subseteq Photos
    /\ object \subseteq Photos
    /\ request \in [Deletes -> [pc : DeletePCs, photo : Photos \cup {NoPhoto},
                                staged : BOOLEAN]]
    /\ gone \subseteq Photos

PhotoInit ==
    /\ faults \in FaultSets
    /\ upload = [p \in Photos |-> "new"]
    /\ row = [p \in Photos |-> NoRow]
    /\ temp = {}
    /\ object = {}
    /\ request = [d \in Deletes |-> Idle]
    /\ gone = {}

Fails(kind) == kind \in faults

-----------------------------------------------------------------------------
(* The statements of the store.  staged stands for temp_path IS NOT NULL.  *)

\* deleted = FALSE is a condition of every statement but GetPhotoForDelete.
Visible(r) == r.status # "none" /\ ~r.deleted

InsertedRow == [status |-> "processing", staged |-> TRUE, deleted |-> FALSE]

\* Variant with a bug: a tombstoned row can still be completed.
CompletedAnyRow(r) == [r EXCEPT !.status = "completed", !.staged = FALSE, !.deleted = FALSE]

CompletedRow(r) ==
    IF Visible(r) THEN [r EXCEPT !.status = "completed", !.staged = FALSE] ELSE r

FailedRow(r) ==
    IF Visible(r) THEN [r EXCEPT !.status = "failed", !.staged = FALSE] ELSE r

DeletedRow(r) == IF Visible(r) THEN [r EXCEPT !.deleted = TRUE] ELSE r

Recoverable(r) == Visible(r) /\ r.status = "processing" /\ r.staged
RecoverablePhotos == {p \in Photos : Recoverable(row[p])}

\* The statement took effect and its reply arrived.
Write(p, r) == row' = [row EXCEPT ![p] = r]

\* The statement returned an error: the row may have been written all the same.
WriteFails(p, r) == row' \in {row, [row EXCEPT ![p] = r]}

-----------------------------------------------------------------------------
(* The calls of S3 and of the temp directory.                              *)

PutObject(p)         == object' = object \cup {p}
PutObjectFails(p)    == object' \in {object, object \cup {p}}
RemoveObject(p)      == object' = object \ {p}
RemoveObjectFails(p) == object' \in {object, object \ {p}}

\* The callers take no notice of an error of Delete.
RemoveTemp(p) == (temp' = temp \ {p}) \/ (Fails("disk") /\ temp' = temp)

-----------------------------------------------------------------------------
(* DELETE /albums/:album_id/photos/:photo_id.  A client knows the id of a  *)
(* photo once its upload has been accepted, and repeats the request as it  *)
(* likes: after an error, or while another one runs.                       *)

Known(p) == upload[p] = "accepted"

SetRequest(d, s)  == request' = [request EXCEPT ![d] = s]
FailRequest(d)    == SetRequest(d, Idle)

\* GetPhotoForDelete; an error of the store is answered 500 with nothing done.
DeleteLoad(d, p) ==
    /\ request[d].pc = "idle"
    /\ Known(p)
    /\ SetRequest(d, [pc |-> IF ~row[p].deleted THEN "mark"
                             ELSE IF row[p].staged THEN "file" ELSE "object",
                      photo |-> p, staged |-> row[p].staged])
    /\ UNCHANGED <<faults, upload, row, temp, object, gone>>

\* MarkPhotoDeleted; NotFound (another request was faster) keeps the copy.
DeleteMark(d) ==
    LET q == request[d]
        p == q.photo
    IN  /\ q.pc = "mark"
        /\ \/ LET staged == IF Visible(row[p]) THEN row[p].staged ELSE q.staged
              IN  /\ Write(p, DeletedRow(row[p]))
                  /\ SetRequest(d, [q EXCEPT !.pc = IF staged THEN "file" ELSE "object",
                                             !.staged = staged])
           \/ Fails("store") /\ WriteFails(p, DeletedRow(row[p])) /\ FailRequest(d)
        /\ UNCHANGED <<faults, upload, temp, object, gone>>

DeleteFile(d) ==
    /\ request[d].pc = "file"
    /\ RemoveTemp(request[d].photo)
    /\ SetRequest(d, [request[d] EXCEPT !.pc = "object"])
    /\ UNCHANGED <<faults, upload, row, object, gone>>

\* Variant with a bug: the answer is 204 although S3 returned an error.
DeleteObjectUnchecked(d) ==
    LET p == request[d].photo
    IN  /\ request[d].pc = "object"
        /\ RemoveObject(p) \/ (Fails("s3") /\ RemoveObjectFails(p))
        /\ gone' = gone \cup {p}
        /\ SetRequest(d, Idle)
        /\ UNCHANGED <<faults, upload, row, temp>>

DeleteObject(d) ==
    LET p == request[d].photo
    IN  /\ request[d].pc = "object"
        /\ \/ RemoveObject(p) /\ gone' = gone \cup {p} /\ SetRequest(d, Idle)
           \/ Fails("s3") /\ RemoveObjectFails(p) /\ UNCHANGED gone /\ FailRequest(d)
        /\ UNCHANGED <<faults, upload, row, temp>>

Delete(d) ==
    \/ \E p \in Photos : DeleteLoad(d, p)
    \/ DeleteMark(d)
    \/ DeleteFile(d)
    \/ DeleteObject(d)

=============================================================================
