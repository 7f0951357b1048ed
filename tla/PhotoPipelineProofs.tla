------------------------ MODULE PhotoPipelineProofs ------------------------
(***************************************************************************)
(* For every number of photos, workers and DELETE requests, and every set  *)
(* of faults: a photo is in flight once, an accepted photo is never lost,  *)
(* a deleted one stays gone, and what GET shows is a PhotoLifecycle.       *)
(***************************************************************************)
EXTENDS PhotoPipeline, PhotoStoreProofs, FiniteSetTheorems

\* The POST of p has committed the row and the process has not given it up.
Live(p) == upload[p] \in {"inserted", "accepted"}

Busy(w, p) == worker[w].photo = p /\ worker[w].pc \in BusyPCs

\* OneInFlight without a count.
FlightInv ==
    \A p \in Photos :
        /\ queue[p] \in {0, 1}
        /\ p \notin enqueued => queue[p] = 0 /\ \A w \in Workers : ~Busy(w, p)
        /\ p \in enqueued => queue[p] = 1 \/ \E w \in Workers : Busy(w, p)
        /\ \A w \in Workers : Busy(w, p) => queue[p] = 0
        /\ \A v, w \in Workers : Busy(v, p) /\ Busy(w, p) => v = w

\* What is done with a photo of which there is no row: nothing.
RowInv ==
    \A p \in Photos :
        /\ upload[p] \in {"new", "saved"} => row[p] = NoRow
        /\ upload[p] = "saved" => p \in temp
        /\ upload[p] \in {"inserted", "failing", "accepted"} => row[p].status # "none"
        /\ row[p].deleted => upload[p] = "accepted"
        /\ row[p].staged => row[p].status = "processing"
        /\ row[p].status = "none" =>
              p \notin enqueued /\ p \notin stale /\ \A w \in Workers : worker[w].photo # p

\* A process that is down has nothing in memory, and none ends without a restart.
DownInv ==
    /\ up # "serving" => Fails("restart")
    /\ up = "down" => /\ \A w \in Workers : worker[w] = IdleWorker
                      /\ \A p \in Photos : upload[p] \notin {"saved", "inserted", "failing"}
                      /\ stale = {}

\* What the worker that has photo p may rely on at each of its steps, whatever handlers
\* have done since the last one.
WorkSafe(w, p) ==
    /\ At(w, p, "open") \/ At(w, p, "put") \/ At(w, p, "complete") =>
          /\ row[p].status # "completed"
          /\ Live(p) /\ ~row[p].deleted => Recoverable(row[p])
    /\ At(w, p, "complete") /\ Live(p) /\ ~row[p].deleted => p \in object
    /\ At(w, p, "undo") => row[p].deleted
    /\ At(w, p, "clean") /\ Live(p) /\ ~row[p].deleted => row[p].status = "completed"
    /\ At(w, p, "fail") =>
          /\ row[p].status # "completed"
          /\ Live(p) /\ ~row[p].deleted => Fails("disk")
    /\ At(w, p, "finish") /\ Live(p) => ~Recoverable(row[p])
WorkInv == \A w \in Workers, p \in Photos : WorkSafe(w, p)

\* The first part of AcceptedIsSafe, from the moment the row is committed.
PhotoSafe(p) ==
    Live(p) /\ ~row[p].deleted =>
        \/ Recoverable(row[p]) /\ p \in temp
        \/ row[p].status = "completed" /\ p \in object
        \/ row[p].status = "failed" /\ Fails("disk")
SafeInv == \A p \in Photos : PhotoSafe(p)

\* The second part.
Handled(p) ==
    Accepted(p) /\ Recoverable(row[p]) /\ up = "serving" =>
        p \in enqueued \/ \E w \in Workers : At(w, p, "backoff")
HandledInv == \A p \in Photos : Handled(p)

\* DeletedStaysGone for one photo.
GoneSafe(p) ==
    p \in gone =>
        /\ row[p].deleted
        /\ row[p].status = "completed" => p \notin object
        /\ (p \in object /\ faults \subseteq {"disk"}) =>
               \E w \in Workers : At(w, p, "complete") \/ At(w, p, "undo")
GoneInv == \A p \in Photos : GoneSafe(p)

Inv == /\ TypeOK /\ FlightInv /\ RowInv /\ RequestInv /\ DownInv
       /\ WorkInv /\ SafeInv /\ HandledInv /\ GoneInv

-----------------------------------------------------------------------------
(* Facts about the operators.                                              *)

LEMMA GoMeans ==
  ASSUME TypeOK, NEW w \in Workers, NEW p \in Photos, NEW from, At(w, p, from),
         NEW pc \in WorkerPCs, Go(w, pc)
  PROVE  /\ worker' \in [Workers -> [pc : WorkerPCs, photo : Photos \cup {NoPhoto}]]
         /\ worker'[w] = [pc |-> pc, photo |-> p]
         /\ \A v \in Workers \ {w} : worker'[v] = worker[v]
  BY DEF TypeOK, At, Go

LEMMA GoTo ==
  ASSUME TypeOK, NEW w \in Workers, NEW p \in Photos, NEW from, At(w, p, from), NEW pc, Go(w, pc)
  PROVE  worker'[w] = [pc |-> pc, photo |-> p]
  BY DEF TypeOK, At, Go

LEMMA SubmitMeans ==
  ASSUME TypeOK, NEW p \in Photos, Submit(p)
  PROVE  /\ queue' \in [Photos -> Nat] /\ enqueued' \subseteq Photos
         /\ enqueued' = enqueued \cup {p}
         /\ queue'[p] = IF p \in enqueued THEN queue[p] ELSE queue[p] + 1
         /\ \A q \in Photos \ {p} : queue'[q] = queue[q]
  BY DEF TypeOK, Submit

-----------------------------------------------------------------------------
(* The actions of a worker all have the same form: the worker at one       *)
(* place, one effect, the next place.                                      *)

\* The steps of worker w with photo p from one call to the next.
Calls(w, p) ==
    \/ Load(w, p) \/ LoadFails(w, p)
    \/ Open(w, p)
    \/ Put(w, p) \/ PutFails(w, p)
    \/ Complete(w, p) \/ CompleteFails(w, p)
    \/ Undo(w, p) \/ Clean(w, p)
    \/ Fail(w, p) \/ FailFails(w, p)

\* From one place to the next worker w keeps photo p, and no other worker moves.
Keeps(w, p) ==
    /\ Busy(w, p) /\ Busy(w, p)'
    /\ worker' \in [Workers -> [pc : WorkerPCs, photo : Photos \cup {NoPhoto}]]
    /\ \A v \in Workers \ {w} : worker'[v] = worker[v]

LEMMA GoKeeps ==
  ASSUME TypeOK, NEW w \in Workers, NEW p \in Photos,
         NEW from \in BusyPCs, At(w, p, from), NEW pc \in BusyPCs, Go(w, pc)
  PROVE  Keeps(w, p)
<1>1. pc \in WorkerPCs
  BY DEF WorkerPCs
<1>2. Busy(w, p)
  BY DEF At, Busy
<1>3. /\ worker' \in [Workers -> [pc : WorkerPCs, photo : Photos \cup {NoPhoto}]]
      /\ worker'[w] = [pc |-> pc, photo |-> p]
      /\ \A v \in Workers \ {w} : worker'[v] = worker[v]
  BY <1>1, GoMeans
<1> QED BY <1>2, <1>3 DEF Busy, Keeps

LEMMA CallMeans ==
  ASSUME TypeOK, NEW w \in Workers, NEW p \in Photos, Calls(w, p)
  PROVE  /\ UNCHANGED <<faults, upload, request, gone, pipelineVars>>
         /\ Keeps(w, p)
         /\ row' \in [Photos -> Row]
         /\ \A q \in Photos \ {p} : row'[q] = row[q]
         /\ row'[p] \in {row[p], CompletedRow(row[p]), FailedRow(row[p])}
         /\ temp' \subseteq temp /\ temp \ {p} \subseteq temp'
         /\ object' \subseteq Photos
         /\ \A q \in Photos \ {p} : q \in object' <=> q \in object
<1>0. /\ row \in [Photos -> Row] /\ row[p] \in Row /\ object \subseteq Photos
      /\ PhotoTypeOK
  BY DEF TypeOK, PhotoTypeOK
<1>1. CASE Load(w, p) \/ LoadFails(w, p) \/ Open(w, p)
  <2>1. Keeps(w, p)
    BY <1>1, GoKeeps DEF Load, LoadFails, Open, Retry, BusyPCs
  <2>2. UNCHANGED <<photoVars, pipelineVars>>
    BY <1>1 DEF Load, LoadFails, Open, Retry
  <2> QED BY <1>0, <2>1, <2>2 DEF photoVars
<1>2. CASE Put(w, p) \/ PutFails(w, p)
  <2>1. Keeps(w, p)
    BY <1>2, GoKeeps DEF Put, PutFails, BusyPCs
  <2> QED BY <1>0, <1>2, <2>1 DEF Put, PutFails, PutObject, PutObjectFails
<1>3. CASE Complete(w, p) \/ CompleteFails(w, p)
  <2>1. Keeps(w, p)
    BY <1>3, GoKeeps DEF Complete, CompleteFails, BusyPCs
  <2>2. Write(p, CompletedRow(row[p])) \/ WriteFails(p, CompletedRow(row[p]))
    BY <1>3 DEF Complete, CompleteFails
  <2>3. /\ row' \in [Photos -> Row] /\ \A q \in Photos \ {p} : row'[q] = row[q]
        /\ row'[p] \in {row[p], CompletedRow(row[p])}
    BY <1>0, <2>2, RowTypes, WriteMeans
  <2> QED BY <1>0, <1>3, <2>1, <2>3 DEF Complete, CompleteFails
<1>4. CASE Undo(w, p)
  <2>1. Keeps(w, p)
    BY <1>4, GoKeeps DEF Undo, BusyPCs
  <2> QED BY <1>0, <1>4, <2>1 DEF Undo, RemoveObject, RemoveObjectFails
<1>5. CASE Clean(w, p)
  <2>1. Keeps(w, p)
    BY <1>5, GoKeeps DEF Clean, BusyPCs
  <2> QED BY <1>0, <1>5, <2>1 DEF Clean, RemoveTemp
<1>6. CASE Fail(w, p) \/ FailFails(w, p)
  <2>1. Keeps(w, p)
    BY <1>6, GoKeeps DEF Fail, FailFails, BusyPCs
  <2>2. Write(p, FailedRow(row[p])) \/ WriteFails(p, FailedRow(row[p]))
    BY <1>6 DEF Fail, FailFails
  <2>3. /\ row' \in [Photos -> Row] /\ \A q \in Photos \ {p} : row'[q] = row[q]
        /\ row'[p] \in {row[p], FailedRow(row[p])}
    BY <1>0, <2>2, RowTypes, WriteMeans
  <2> QED BY <1>0, <1>6, <2>1, <2>3 DEF Fail, FailFails
<1> QED BY <1>1, <1>2, <1>3, <1>4, <1>5, <1>6 DEF Calls

\* A worker between photos: it takes one, or is done with one.
Moves(w, p) == Take(w, p) \/ Finish(w, p) \/ BackOff(w, p) \/ Resubmit(w, p)

\* A DELETE handler makes its next call.
Deleting(d) == Delete(d) /\ UNCHANGED <<pipelineVars, worker>>

LEMMA RowsKnown == RowInv => KnownInv
  BY DEF RowInv, KnownInv, Known

LEMMA DeletingMeans ==
  ASSUME TypeOK, RowInv, RequestInv, NEW d \in Deletes, Deleting(d)
  PROVE  /\ UNCHANGED <<faults, upload, pipelineVars, worker>>
         /\ PhotoTypeOK' /\ RequestInv'
         /\ row' = row \/ \E p \in Photos : \A q \in Photos \ {p} : row'[q] = row[q]
         /\ \A q \in Photos : row'[q] = row[q] \/ (Known(q) /\ row'[q] = DeletedRow(row[q]))
         /\ temp' \subseteq temp /\ object' \subseteq object
         /\ \A q \in Photos : q \in (temp \ temp') \cup (object \ object') => row[q].deleted
         /\ gone \subseteq gone'
         /\ \A q \in gone' \ gone : row'[q].deleted /\ q \notin object'
  BY DeleteMeans, RowsKnown, Zenon DEF Deleting, TypeOK

LEMMA NextCases ==
  ASSUME [Next]_vars
  PROVE  \/ \E p \in Photos : Post(p)
         \/ \E w \in Workers, p \in Photos : Calls(w, p) \/ Moves(w, p)
         \/ \E w \in Workers : Exit(w)
         \/ \E d \in Deletes : Deleting(d)
         \/ ListStale \/ (\E p \in Photos : SubmitStale(p)) \/ Cancel \/ Stop \/ Crash \/ Boot
         \/ UNCHANGED vars
<1>1. ASSUME Handle PROVE (\E p \in Photos : Post(p)) \/ \E d \in Deletes : Deleting(d)
  BY <1>1, Zenon DEF Handle, Deleting, Delete
<1>2. ASSUME NEW w \in Workers, NEW p \in Photos, Process(w, p) PROVE Calls(w, p) \/ Moves(w, p)
  BY <1>2, Zenon DEF Process, Calls, Moves
<1> QED BY <1>1, <1>2, Zenon DEF Next

-----------------------------------------------------------------------------

LEMMA NextType ==
  ASSUME TypeOK, RowInv, RequestInv, [Next]_vars
  PROVE  TypeOK'
<1> USE DEF TypeOK, PhotoTypeOK, photoVars, pipelineVars
<1>1. ASSUME NEW p \in Photos, Post(p) PROVE TypeOK'
  <2>0. row[p] \in Row
    OBVIOUS
  <2>1. CASE SaveTemp(p)
    BY <2>1 DEF SaveTemp, SetUpload, UploadPCs
  <2>2. CASE CreatePhoto(p)
    BY <2>2, RowTypes, WriteMeans DEF CreatePhoto, SetUpload, UploadPCs, RemoveTemp
  <2>3. CASE SubmitUpload(p)
    BY <2>3, SubmitMeans DEF SubmitUpload, SetUpload, UploadPCs, RemoveTemp
  <2>4. CASE RefuseUpload(p)
    BY <2>0, <2>4, RowTypes, WriteMeans DEF RefuseUpload, SetUpload, UploadPCs
  <2> QED BY <1>1, <2>1, <2>2, <2>3, <2>4 DEF Post
<1>2. ASSUME NEW w \in Workers, NEW p \in Photos, Calls(w, p) PROVE TypeOK'
  BY <1>2, CallMeans DEF Keeps
<1>3. ASSUME NEW w \in Workers, NEW p \in Photos, Moves(w, p) PROVE TypeOK'
  <2> USE DEF WorkerPCs, BusyPCs, IdleWorker, At
  <2>1. CASE Take(w, p)
    BY <2>1 DEF Take
  <2>2. CASE Finish(w, p)
    BY <2>2 DEF Finish, ClearEnqueued
  <2>3. CASE BackOff(w, p)
    BY <2>3 DEF BackOff, ClearEnqueued, Go
  <2>4. CASE Resubmit(w, p)
    BY <2>4, SubmitMeans DEF Resubmit
  <2> QED BY <1>3, <2>1, <2>2, <2>3, <2>4 DEF Moves
<1>4. ASSUME NEW w \in Workers, Exit(w) PROVE TypeOK'
  BY <1>4 DEF Exit, WorkerPCs, IdleWorker
<1>5. ASSUME NEW d \in Deletes, Deleting(d) PROVE TypeOK'
  BY <1>5, DeletingMeans
<1>6. CASE ListStale \/ (\E p \in Photos : SubmitStale(p)) \/ Cancel \/ Stop
  BY <1>6, SubmitMeans DEF ListStale, RecoverablePhotos, SubmitStale, Cancel, Stop
<1>7. CASE Crash
  BY <1>7 DEF Crash, Idle, IdleWorker, DeletePCs, WorkerPCs, UploadPCs
<1>8. CASE Boot
  BY <1>8 DEF Boot, RecoverablePhotos
<1>9. CASE UNCHANGED vars
  BY <1>9 DEF vars
<1> QED BY <1>1, <1>2, <1>3, <1>4, <1>5, <1>6, <1>7, <1>8, <1>9, NextCases

-----------------------------------------------------------------------------
(* A photo is in flight once.                                              *)

LEMMA SubmitFlight ==
  ASSUME TypeOK, FlightInv, NEW p \in Photos, Submit(p),
         \A w \in Workers, q \in Photos : Busy(w, q)' <=> Busy(w, q)
  PROVE  FlightInv'
  BY SubmitMeans DEF FlightInv

LEMMA SameFlight ==
  ASSUME FlightInv, UNCHANGED <<queue, enqueued>>,
         \A w \in Workers, q \in Photos : Busy(w, q)' <=> Busy(w, q)
  PROVE  FlightInv'
  BY DEF FlightInv

LEMMA SameBusy ==
  ASSUME worker' = worker
  PROVE  \A w \in Workers, q \in Photos : Busy(w, q)' <=> Busy(w, q)
  BY DEF Busy

LEMMA NextFlight ==
  ASSUME TypeOK, FlightInv, DownInv, [Next]_vars
  PROVE  FlightInv'
<1>1. ASSUME NEW p \in Photos, Post(p) PROVE FlightInv'
  <2>1. worker' = worker /\ (Submit(p) \/ UNCHANGED <<queue, enqueued>>)
    BY <1>1 DEF Post, SaveTemp, CreatePhoto, SubmitUpload, RefuseUpload, pipelineVars
  <2> QED BY <2>1, SameBusy, SameFlight, SubmitFlight
<1>2. ASSUME NEW w \in Workers, NEW p \in Photos, Calls(w, p) PROVE FlightInv'
  <2>1. Keeps(w, p) /\ UNCHANGED <<queue, enqueued>>
    BY <1>2, CallMeans DEF pipelineVars
  <2>2. \A v \in Workers, q \in Photos : Busy(v, q)' <=> Busy(v, q)
    BY <2>1 DEF Keeps, Busy
  <2> QED BY <2>1, <2>2, SameFlight
<1>3. ASSUME NEW w \in Workers, NEW p \in Photos, Moves(w, p) PROVE FlightInv'
  <2> USE DEF BusyPCs, At, TypeOK
  <2>1. CASE Take(w, p)
    <3>1. /\ ~Busy(w, p) /\ Busy(w, p)' /\ p \in enqueued /\ queue[p] = 1
          /\ \A v \in Workers, q \in Photos : v # w \/ q # p => (Busy(v, q)' <=> Busy(v, q))
      BY <2>1 DEF Take, Busy, FlightInv
    <3>2. /\ queue'[p] = 0 /\ \A q \in Photos \ {p} : queue'[q] = queue[q]
          /\ enqueued' = enqueued
      BY <2>1, <3>1 DEF Take
    <3> QED BY <3>1, <3>2 DEF FlightInv
  <2>2. CASE Finish(w, p) \/ BackOff(w, p)
    <3>1. /\ Busy(w, p) /\ ~Busy(w, p)'
          /\ \A v \in Workers, q \in Photos : v # w \/ q # p => (Busy(v, q)' <=> Busy(v, q))
      BY <2>2, PhotoAssumption DEF Finish, BackOff, Busy, Go, IdleWorker
    <3>2. queue' = queue /\ enqueued' = enqueued \ {p}
      BY <2>2 DEF Finish, BackOff, ClearEnqueued
    <3> QED BY <3>1, <3>2 DEF FlightInv
  <2>3. CASE Resubmit(w, p)
    <3>1. \A v \in Workers, q \in Photos : Busy(v, q)' <=> Busy(v, q)
      BY <2>3, PhotoAssumption DEF Resubmit, Busy, IdleWorker
    <3>2. Submit(p) \/ UNCHANGED <<queue, enqueued>>
      BY <2>3 DEF Resubmit
    <3> QED BY <3>1, <3>2, SameFlight, SubmitFlight
  <2> QED BY <1>3, <2>1, <2>2, <2>3 DEF Moves
<1>4. ASSUME NEW w \in Workers, Exit(w) PROVE FlightInv'
  <2>1. \A v \in Workers, q \in Photos : Busy(v, q)' <=> Busy(v, q)
    BY <1>4, PhotoAssumption DEF Exit, Busy, BusyPCs, IdleWorker, TypeOK
  <2> QED BY <1>4, <2>1, SameFlight DEF Exit, pipelineVars
<1>5. ASSUME NEW d \in Deletes, Deleting(d) PROVE FlightInv'
  BY <1>5, SameBusy, SameFlight DEF Deleting, pipelineVars
<1>6. ASSUME NEW p \in Photos, SubmitStale(p) PROVE FlightInv'
  <2>1. worker' = worker /\ (Submit(p) \/ UNCHANGED <<queue, enqueued>>)
    BY <1>6 DEF SubmitStale
  <2> QED BY <2>1, SameBusy, SameFlight, SubmitFlight
<1>7. CASE ListStale \/ Cancel \/ Stop \/ UNCHANGED vars
  BY <1>7, SameBusy, SameFlight DEF ListStale, Cancel, Stop, vars
<1>8. CASE Crash
  <2>1. \A v \in Workers, q \in Photos : ~Busy(v, q)'
    BY <1>8, PhotoAssumption DEF Crash, Busy, BusyPCs, IdleWorker
  <2> QED BY <1>8, <2>1 DEF Crash, FlightInv
<1>9. CASE Boot
  <2>1. \A v \in Workers, q \in Photos : ~Busy(v, q)'
    BY <1>9, PhotoAssumption DEF Boot, Busy, BusyPCs, IdleWorker, DownInv
  <2> QED BY <1>9, <2>1 DEF Boot, FlightInv
<1> QED BY <1>1, <1>2, <1>3, <1>4, <1>5, <1>6, <1>7, <1>8, <1>9, NextCases

-----------------------------------------------------------------------------
(* The invariants of rows, requests and the process.                       *)

LEMMA NextRow ==
  ASSUME TypeOK, FlightInv, RowInv, RequestInv, DownInv, WorkInv, [Next]_vars
  PROVE  RowInv' /\ RequestInv' /\ DownInv'
<1>0. /\ row \in [Photos -> Row] /\ PhotoTypeOK /\ upload \in [Photos -> UploadPCs]
      /\ enqueued \subseteq Photos /\ stale \subseteq Photos
      /\ worker \in [Workers -> [pc : WorkerPCs, photo : Photos \cup {NoPhoto}]]
  BY DEF TypeOK, PhotoTypeOK
<1>1. ASSUME NEW p \in Photos, Post(p) PROVE RowInv' /\ RequestInv' /\ DownInv'
  <2>1. CASE SaveTemp(p)
    BY <1>0, <2>1 DEF SaveTemp, SetUpload, pipelineVars, RowInv, RequestInv, DownInv, Fails
  <2>2. CASE CreatePhoto(p)
    <3>1. /\ \A q \in Photos \ {p} : row'[q] = row[q] /\ upload'[q] = upload[q]
          /\ upload[p] = "saved" /\ row[p] = NoRow
          /\ row'[p] = InsertedRow \/ (row'[p] = NoRow /\ upload'[p] = "refused")
          /\ upload'[p] \in {"inserted", "refused"}
      BY <1>0, <2>2, RowTypes, WriteMeans DEF CreatePhoto, SetUpload, RowInv
    <3>2. temp \ {p} \subseteq temp' /\ UNCHANGED <<faults, request, pipelineVars, worker>>
      BY <2>2 DEF CreatePhoto, RemoveTemp
    <3>3. RowInv'
      BY <3>1, <3>2 DEF RowInv, NoRow, InsertedRow, pipelineVars
    <3> QED BY <3>1, <3>2, <3>3 DEF RequestInv, DownInv, pipelineVars, Fails
  <2>3. CASE SubmitUpload(p)
    <3>1. /\ upload[p] = "inserted" /\ upload'[p] \in {"accepted", "failing"}
          /\ \A q \in Photos \ {p} : upload'[q] = upload[q]
          /\ upload'[p] = "failing" => up = "stopped"
          /\ enqueued' \subseteq enqueued \cup {p}
          /\ temp \ {p} \subseteq temp'
          /\ UNCHANGED <<faults, request, up, stale, worker, row>>
      BY <1>0, <2>3 DEF SubmitUpload, SetUpload, Submit, RemoveTemp
    <3> QED BY <3>1 DEF RowInv, RequestInv, DownInv, Fails
  <2>4. CASE RefuseUpload(p)
    <3>1. row'[p] \in {row[p], FailedRow(row[p])} /\ \A q \in Photos \ {p} : row'[q] = row[q]
      BY <1>0, <2>4, RowTypes, WriteMeans DEF RefuseUpload
    <3>2. /\ upload[p] = "failing" /\ upload'[p] = "refused"
          /\ \A q \in Photos \ {p} : upload'[q] = upload[q]
          /\ UNCHANGED <<faults, temp, request, pipelineVars, worker>>
      BY <1>0, <2>4 DEF RefuseUpload, SetUpload
    <3>3. ~row[p].deleted /\ row[p].status # "none"
      BY <3>2 DEF RowInv
    <3> QED BY <1>0, <3>1, <3>2, <3>3, RowsStay DEF RowInv, RequestInv, DownInv, Fails, pipelineVars
  <2> QED BY <1>1, <2>1, <2>2, <2>3, <2>4 DEF Post
<1>2. ASSUME NEW w \in Workers, NEW p \in Photos, Calls(w, p)
      PROVE  RowInv' /\ RequestInv' /\ DownInv'
  <2>1. /\ Keeps(w, p) /\ UNCHANGED <<faults, upload, request, pipelineVars>>
        /\ \A q \in Photos \ {p} : row'[q] = row[q]
        /\ row'[p].deleted = row[p].deleted
        /\ row'[p].status # "none"
        /\ row'[p].staged => row[p].staged /\ row'[p].status = row[p].status
        /\ temp \ {p} \subseteq temp'
    BY <1>0, <1>2, CallMeans, RowsStay DEF Keeps, Busy, RowInv
  <2>2. upload[p] # "saved" /\ upload[p] # "new" /\ up # "down"
    BY <2>1, PhotoAssumption DEF RowInv, DownInv, Keeps, Busy, NoRow, IdleWorker
  <2>3. \A v \in Workers : worker'[v].photo = worker[v].photo
    BY <2>1 DEF Keeps, Busy
  <2>4. RowInv'
    BY <2>1, <2>2, <2>3 DEF RowInv, pipelineVars
  <2> QED BY <2>1, <2>2, <2>4 DEF RequestInv, DownInv, Fails, pipelineVars
<1>3. ASSUME NEW w \in Workers, NEW p \in Photos, Moves(w, p)
      PROVE  RowInv' /\ RequestInv' /\ DownInv'
  <2>1. UNCHANGED <<photoVars, up, stale>> /\ enqueued' \subseteq enqueued \cup {p}
    BY <1>3 DEF Moves, Take, Finish, BackOff, Resubmit, ClearEnqueued, Submit
  <2>2. /\ row[p].status # "none" /\ up # "down"
        /\ \A v \in Workers : worker'[v].photo \in {worker[v].photo, p, NoPhoto}
    <3>1. CASE Take(w, p)
      BY <1>0, <3>1 DEF Take, FlightInv, RowInv
    <3>2. CASE Finish(w, p) \/ BackOff(w, p) \/ Resubmit(w, p)
      BY <1>0, <3>2, PhotoAssumption
      DEF Finish, BackOff, Resubmit, At, Go, RowInv, DownInv, IdleWorker
    <3> QED BY <1>3, <3>1, <3>2 DEF Moves
  <2> QED BY <2>1, <2>2, PhotoAssumption DEF photoVars, RowInv, RequestInv, DownInv, Fails
<1>4. ASSUME NEW w \in Workers, Exit(w) PROVE RowInv' /\ RequestInv' /\ DownInv'
  <2>1. /\ up # "down" /\ UNCHANGED <<photoVars, pipelineVars>>
        /\ \A v \in Workers : worker'[v].photo \in {worker[v].photo, NoPhoto}
    BY <1>0, <1>4 DEF Exit, IdleWorker
  <2> QED BY <2>1, PhotoAssumption
          DEF photoVars, pipelineVars, RowInv, RequestInv, DownInv, Fails
<1>5. ASSUME NEW d \in Deletes, Deleting(d) PROVE RowInv' /\ RequestInv' /\ DownInv'
  <2>1. /\ UNCHANGED <<faults, upload, pipelineVars, worker>>
        /\ \A q \in Photos : \/ row'[q] = row[q]
                             \/ Known(q) /\ row'[q] = DeletedRow(row[q])
        /\ \A q \in Photos : q \in temp \ temp' => row[q].deleted
        /\ RequestInv'
    BY <1>5, DeletingMeans
  <2>2. RowInv'
    BY <1>0, <2>1, RowsStay DEF RowInv, Known, pipelineVars
  <2> QED BY <2>1, <2>2 DEF DownInv, Fails, pipelineVars
<1>6. ASSUME NEW p \in Photos, SubmitStale(p) PROVE RowInv' /\ RequestInv' /\ DownInv'
  <2>1. /\ UNCHANGED <<photoVars, up, worker>> /\ stale' \subseteq stale /\ p \in stale
        /\ enqueued' \subseteq enqueued \cup {p}
    BY <1>6 DEF SubmitStale, Submit
  <2> QED BY <2>1 DEF photoVars, RowInv, RequestInv, DownInv, Fails
<1>7. CASE ListStale \/ Cancel \/ Stop \/ UNCHANGED vars
  BY <1>7 DEF ListStale, RecoverablePhotos, Recoverable, Visible, Cancel, Stop, vars, photoVars,
              RowInv, RequestInv, DownInv, Fails
<1>8. CASE Crash
  BY <1>0, <1>8, PhotoAssumption DEF Crash, RowInv, RequestInv, DownInv, Fails, Idle, IdleWorker
<1>9. CASE Boot
  BY <1>9 DEF Boot, RecoverablePhotos, Recoverable, Visible, photoVars,
              RowInv, RequestInv, DownInv, Fails
<1> QED BY <1>1, <1>2, <1>3, <1>4, <1>5, <1>6, <1>7, <1>8, <1>9, NextCases

-----------------------------------------------------------------------------
(* What is known of a photo and of the worker that has it.                 *)

\* A step leaves what the invariants below say of photo p as it was.
SamePhoto(p) ==
    /\ faults' = faults /\ upload'[p] = upload[p] /\ row'[p] = row[p]
    /\ p \in temp' <=> p \in temp
    /\ p \in object' <=> p \in object
    /\ p \in gone' <=> p \in gone

LEMMA SameSafe ==
  ASSUME NEW p \in Photos, SamePhoto(p)
  PROVE  /\ \A w \in Workers : WorkSafe(w, p) /\ worker'[w] = worker[w] => WorkSafe(w, p)'
         /\ PhotoSafe(p) => PhotoSafe(p)'
  BY DEF SamePhoto, WorkSafe, PhotoSafe, Live, At, Fails

LEMMA SameGone ==
  ASSUME NEW p \in Photos, SamePhoto(p), GoneSafe(p),
         \A w \in Workers : At(w, p, "complete") \/ At(w, p, "undo") =>
             At(w, p, "complete")' \/ At(w, p, "undo")'
  PROVE  GoneSafe(p)'
  BY DEF SamePhoto, GoneSafe

\* A worker that has left the photo or waits relies on nothing.
LEMMA RestSafe ==
  ASSUME NEW w \in Workers, NEW p \in Photos,
         worker[w].pc \in {"idle", "load", "retry", "backoff", "exited"} \/ worker[w].photo # p
  PROVE  WorkSafe(w, p)
  BY DEF WorkSafe, At

\* Each call of a worker gives the next one what that relies on.
LEMMA CallSafe ==
  ASSUME Inv, NEW w \in Workers, NEW p \in Photos, Calls(w, p)
  PROVE  WorkSafe(w, p)' /\ PhotoSafe(p)' /\ GoneSafe(p)'
<1>0. /\ row[p] \in Row /\ row[p].status # "none"
      /\ row[p].staged => row[p].status = "processing"
      /\ WorkSafe(w, p) /\ PhotoSafe(p) /\ GoneSafe(p)
      /\ UNCHANGED <<faults, upload, gone, up>>
      /\ \A v \in Workers \ {w} : worker'[v] = worker[v]
  BY CallMeans DEF Inv, TypeOK, PhotoTypeOK, RowInv, WorkInv, SafeInv, GoneInv, Keeps, Busy,
                   pipelineVars
<1>00. /\ TypeOK /\ object \subseteq Photos /\ row \in [Photos -> Row] /\ PhotoTypeOK
       /\ \A kind \in {"store", "s3"} : faults \subseteq {"disk"} => ~CallFails(kind)
  BY DEF Inv, TypeOK, PhotoTypeOK, DownInv, CallFails, Fails
<1>1. CASE Load(w, p) \/ LoadFails(w, p) \/ Open(w, p)
  <2>1. SamePhoto(p)
    BY <1>1 DEF Load, LoadFails, Open, Retry, photoVars, SamePhoto
  <2>2. PhotoSafe(p)'
    BY <1>0, <2>1, SameSafe
  <2>3. GoneSafe(p)'
    <3>1. ~At(w, p, "complete") /\ ~At(w, p, "undo")
      BY <1>1 DEF Load, LoadFails, Open, At
    <3> QED BY <1>0, <2>1, <3>1, SameGone DEF At
  <2>4. WorkSafe(w, p)'
    <3>1. CASE LoadFails(w, p)
      <4>1. worker'[w] = [pc |-> "retry", photo |-> p]
        BY <3>1, <1>00, GoTo DEF LoadFails, Retry
      <4> QED BY <4>1 DEF WorkSafe, At
    <3>2. CASE Load(w, p)
      <4>0. PICK pc \in {"finish", "open", "fail"} :
                /\ Go(w, pc)
                /\ pc = "finish" => ~Visible(row[p]) \/ row[p].status = "completed"
                /\ pc = "open" => Visible(row[p]) /\ row[p].status # "completed" /\ row[p].staged
                /\ pc = "fail" => Visible(row[p]) /\ row[p].status # "completed" /\ ~row[p].staged
        BY <3>2 DEF Load
      <4>1. worker'[w] = [pc |-> pc, photo |-> p]
        BY <1>00, <3>2, <4>0, GoTo DEF Load
      <4> QED BY <1>0, <2>1, <4>0, <4>1
              DEF WorkSafe, PhotoSafe, At, Live, Recoverable, Visible, SamePhoto, Fails
    <3>3. CASE Open(w, p)
      <4>1. PICK pc \in {"put", "fail"} :
                /\ worker'[w] = [pc |-> pc, photo |-> p]
                /\ pc = "fail" => p \notin temp \/ Fails("disk")
        BY <3>3, <1>00, GoMeans DEF Open, WorkerPCs, BusyPCs
      <4> QED BY <1>0, <2>1, <3>3, <4>1
              DEF Open, WorkSafe, PhotoSafe, At, Live, Recoverable, Visible, SamePhoto, Fails
    <3> QED BY <1>1, <3>1, <3>2, <3>3
  <2> QED BY <2>2, <2>3, <2>4
<1>2. CASE Put(w, p) \/ PutFails(w, p)
  <2>1. At(w, p, "put") /\ UNCHANGED <<row, temp>>
    BY <1>2 DEF Put, PutFails
  <2>2. row[p].status # "completed" /\ (Live(p) /\ ~row[p].deleted => Recoverable(row[p]))
    BY <1>0, <2>1 DEF WorkSafe
  <2>3. PICK pc \in {"complete", "retry"} :
            /\ worker'[w] = [pc |-> pc, photo |-> p]
            /\ pc = "complete" => p \in object'
            /\ pc = "retry" => CallFails("s3")
    <3>1. CASE Put(w, p)
      BY <2>1, <3>1, <1>00, GoTo DEF Put, PutObject
    <3>2. CASE PutFails(w, p)
      BY <2>1, <3>2, <1>00, GoTo DEF PutFails
    <3> QED BY <1>2, <3>1, <3>2
  <2>4. WorkSafe(w, p)'
    BY <1>0, <2>1, <2>2, <2>3 DEF WorkSafe, At, Live
  <2>5. PhotoSafe(p)'
    BY <1>0, <2>1, <2>2 DEF PhotoSafe, Live, Recoverable, Visible
  <2>6. GoneSafe(p)'
    BY <1>0, <1>00, <2>1, <2>2, <2>3 DEF GoneSafe, At
  <2> QED BY <2>4, <2>5, <2>6
<1>3. CASE Complete(w, p) \/ CompleteFails(w, p)
  <2>1. At(w, p, "complete") /\ UNCHANGED <<object, temp>>
    BY <1>3 DEF Complete, CompleteFails
  <2>2. /\ row[p].status # "completed"
        /\ Live(p) /\ ~row[p].deleted => Recoverable(row[p]) /\ p \in object
    BY <1>0, <2>1 DEF WorkSafe
  <2>3. PICK pc \in {"clean", "undo", "retry"} :
            /\ worker'[w] = [pc |-> pc, photo |-> p]
            /\ row'[p] \in {row[p], CompletedRow(row[p])}
            /\ pc = "clean" => Visible(row[p]) /\ row'[p] = CompletedRow(row[p])
            /\ pc = "undo" => ~Visible(row[p])
            /\ pc = "retry" => CallFails("store")
    <3>1. PICK pc \in {"clean", "undo", "retry"} :
              /\ Go(w, pc)
              /\ pc = "clean" => Visible(row[p]) /\ Write(p, CompletedRow(row[p]))
              /\ pc = "undo" => ~Visible(row[p])
              /\ pc = "retry" => CallFails("store")
              /\ Write(p, CompletedRow(row[p])) \/ WriteFails(p, CompletedRow(row[p]))
      BY <1>3 DEF Complete, CompleteFails
    <3>2. worker'[w] = [pc |-> pc, photo |-> p]
      BY <1>00, <2>1, <3>1, GoTo
    <3>3. /\ row'[p] \in {row[p], CompletedRow(row[p])}
          /\ pc = "clean" => row'[p] = CompletedRow(row[p])
      BY <1>0, <1>00, <3>1, RowTypes, WriteMeans
    <3> QED BY <3>1, <3>2, <3>3
  <2>4. /\ row'[p].deleted <=> row[p].deleted
        /\ row[p].deleted => row'[p] = row[p]
        /\ row'[p] = row[p] \/ (Visible(row[p]) /\ row'[p].status = "completed")
        /\ Visible(row[p]) /\ pc = "clean" => row'[p].status = "completed"
        /\ pc = "undo" => row[p].deleted
    BY <1>0, <2>3, RowsEnd DEF Visible
  <2>5. WorkSafe(w, p)'
    BY <1>0, <2>1, <2>2, <2>3, <2>4 DEF WorkSafe, At, Live
  <2>6. PhotoSafe(p)'
    BY <1>0, <2>1, <2>2, <2>4 DEF PhotoSafe, Live, Recoverable, Visible, Fails
  <2>7. GoneSafe(p)'
    BY <1>0, <1>00, <2>1, <2>2, <2>3, <2>4 DEF GoneSafe, At, Visible
  <2> QED BY <2>5, <2>6, <2>7
<1>4. CASE Undo(w, p)
  <2>1. At(w, p, "undo") /\ UNCHANGED <<row, temp>> /\ row[p].deleted
    BY <1>0, <1>4 DEF Undo, WorkSafe
  <2>2. /\ worker'[w] = [pc |-> "clean", photo |-> p]
        /\ p \in object' => CallFails("s3") /\ p \in object
    BY <1>4, <1>00, GoMeans DEF Undo, RemoveObject, RemoveObjectFails, WorkerPCs, BusyPCs
  <2> QED BY <1>0, <1>00, <2>1, <2>2 DEF WorkSafe, PhotoSafe, GoneSafe, At, Live
<1>5. CASE Clean(w, p)
  <2>1. /\ At(w, p, "clean") /\ UNCHANGED <<row, object>>
        /\ Live(p) /\ ~row[p].deleted => row[p].status = "completed"
    BY <1>0, <1>5 DEF Clean, WorkSafe
  <2>2. worker'[w] = [pc |-> "finish", photo |-> p]
    BY <1>5, <1>00, GoMeans DEF Clean, WorkerPCs, BusyPCs
  <2> QED BY <1>0, <2>1, <2>2
          DEF WorkSafe, PhotoSafe, GoneSafe, At, Live, Recoverable, Visible
<1>6. CASE Fail(w, p) \/ FailFails(w, p)
  <2>1. At(w, p, "fail") /\ UNCHANGED <<object, temp>>
    BY <1>6 DEF Fail, FailFails
  <2>2. /\ row[p].status # "completed"
        /\ Live(p) /\ ~row[p].deleted => Fails("disk")
    BY <1>0, <2>1 DEF WorkSafe
  <2>3. PICK pc \in {"finish", "retry"} :
            /\ worker'[w] = [pc |-> pc, photo |-> p]
            /\ row'[p] \in {row[p], FailedRow(row[p])}
            /\ pc = "finish" => row'[p] = FailedRow(row[p])
    <3>1. PICK pc \in {"finish", "retry"} :
              /\ Go(w, pc)
              /\ pc = "finish" => Write(p, FailedRow(row[p]))
              /\ Write(p, FailedRow(row[p])) \/ WriteFails(p, FailedRow(row[p]))
      BY <1>6 DEF Fail, FailFails
    <3>2. worker'[w] = [pc |-> pc, photo |-> p]
      BY <1>00, <2>1, <3>1, GoTo
    <3>3. /\ row'[p] \in {row[p], FailedRow(row[p])}
          /\ pc = "finish" => row'[p] = FailedRow(row[p])
      BY <1>0, <1>00, <3>1, RowTypes, WriteMeans
    <3> QED BY <3>1, <3>2, <3>3
  <2>4. /\ row'[p].deleted <=> row[p].deleted
        /\ row[p].deleted => row'[p] = row[p]
        /\ row'[p] = row[p] \/ (Visible(row[p]) /\ row'[p].status = "failed")
        /\ pc = "finish" => ~Recoverable(row'[p])
    BY <1>0, <2>3, RowsEnd DEF Visible, Recoverable
  <2>5. WorkSafe(w, p)'
    BY <1>0, <2>3, <2>4 DEF WorkSafe, At, Live
  <2>6. PhotoSafe(p)'
    BY <1>0, <2>1, <2>2, <2>4 DEF PhotoSafe, Live, Recoverable, Visible, Fails
  <2>7. GoneSafe(p)'
    BY <1>0, <2>1, <2>2, <2>3, <2>4 DEF GoneSafe, At, Visible
  <2> QED BY <2>5, <2>6, <2>7
<1> QED BY <1>1, <1>2, <1>3, <1>4, <1>5, <1>6 DEF Calls

\* The invariants that speak of photos one by one.
AllSafe == WorkInv /\ SafeInv /\ GoneInv

\* It is enough to look at the photo a step is about, if no worker moves.
LEMMA OnePhoto ==
  ASSUME AllSafe, NEW p \in Photos, worker' = worker,
         \A q \in Photos \ {p} : SamePhoto(q),
         \A w \in Workers : WorkSafe(w, p)', PhotoSafe(p)', GoneSafe(p)'
  PROVE  AllSafe'
<1>1. ASSUME NEW q \in Photos \ {p}
      PROVE  (\A w \in Workers : WorkSafe(w, q)') /\ PhotoSafe(q)' /\ GoneSafe(q)'
  BY <1>1, SameSafe, SameGone DEF AllSafe, WorkInv, SafeInv, GoneInv, At
<1> QED BY <1>1 DEF AllSafe, WorkInv, SafeInv, GoneInv

\* Nothing happens to photos, and a worker that moves goes where it relies on nothing.
LEMMA NoPhotoChanges ==
  ASSUME AllSafe, \A q \in Photos : SamePhoto(q),
         \A w \in Workers : \/ worker'[w] = worker[w]
                            \/ /\ worker[w].pc \notin {"complete", "undo"}
                               /\ worker'[w].pc \in {"idle", "load", "retry", "backoff", "exited"}
  PROVE  AllSafe'
<1>1. ASSUME NEW q \in Photos, NEW w \in Workers PROVE WorkSafe(w, q)'
  <2>1. CASE worker'[w] = worker[w]
    BY <2>1, SameSafe DEF AllSafe, WorkInv
  <2>2. CASE worker'[w] # worker[w]
    BY <2>2 DEF WorkSafe, At
  <2> QED BY <2>1, <2>2
<1>2. ASSUME NEW q \in Photos PROVE PhotoSafe(q)' /\ GoneSafe(q)'
  <2>1. \A w \in Workers : At(w, q, "complete") \/ At(w, q, "undo") =>
            At(w, q, "complete")' \/ At(w, q, "undo")'
    BY DEF At
  <2> QED BY <2>1, SameSafe, SameGone DEF AllSafe, SafeInv, GoneInv
<1> QED BY <1>1, <1>2 DEF AllSafe, WorkInv, SafeInv, GoneInv

LEMMA PostSafe ==
  ASSUME Inv, NEW p \in Photos, Post(p)
  PROVE  AllSafe'
<1>0. /\ row \in [Photos -> Row] /\ PhotoTypeOK /\ upload \in [Photos -> UploadPCs]
      /\ row[p] \in Row /\ AllSafe
      /\ \A w \in Workers : WorkSafe(w, p)
      /\ PhotoSafe(p) /\ GoneSafe(p)
  BY DEF Inv, TypeOK, PhotoTypeOK, AllSafe, WorkInv, SafeInv, GoneInv
<1>1. CASE SaveTemp(p)
  <2>1. /\ UNCHANGED <<faults, row, object, gone, worker>>
        /\ \A q \in Photos \ {p} : SamePhoto(q)
        /\ ~Live(p) /\ ~Live(p)'
    BY <1>0, <1>1 DEF SaveTemp, SetUpload, SamePhoto, Live
  <2> QED BY <1>0, <2>1, OnePhoto DEF WorkSafe, PhotoSafe, GoneSafe, At
<1>2. CASE CreatePhoto(p)
  <2>1. /\ upload[p] = "saved" /\ row[p] = NoRow /\ p \in temp
        /\ \A w \in Workers : worker[w].photo # p
    BY <1>2 DEF CreatePhoto, Inv, RowInv, NoRow
  <2>2. /\ UNCHANGED <<faults, object, gone, worker>>
        /\ \A q \in Photos \ {p} : SamePhoto(q)
    BY <1>0, <1>2, <2>1, RowTypes, WriteMeans DEF CreatePhoto, SetUpload, SamePhoto, RemoveTemp
  <2>3. \/ upload'[p] = "inserted" /\ row'[p] = InsertedRow /\ temp' = temp
        \/ upload'[p] = "refused"
    BY <1>0, <1>2, RowTypes, WriteMeans DEF CreatePhoto, SetUpload
  <2>4. \A w \in Workers : WorkSafe(w, p)'
    BY <2>1, <2>2 DEF WorkSafe, At
  <2>5. PhotoSafe(p)'
    BY <2>1, <2>3 DEF PhotoSafe, Live, Recoverable, Visible, InsertedRow
  <2>6. GoneSafe(p)'
    BY <1>0, <2>1, <2>2 DEF GoneSafe, NoRow
  <2> QED BY <1>0, <2>2, <2>4, <2>5, <2>6, OnePhoto
<1>3. CASE SubmitUpload(p)
  <2>1. /\ UNCHANGED <<faults, row, object, gone, worker>>
        /\ \A q \in Photos \ {p} : SamePhoto(q)
        /\ Live(p)
        /\ Live(p)' => temp' = temp
    BY <1>0, <1>3 DEF SubmitUpload, SetUpload, SamePhoto, Live, RemoveTemp
  <2> QED BY <1>0, <2>1, OnePhoto DEF WorkSafe, PhotoSafe, GoneSafe, At, Fails
<1>4. CASE RefuseUpload(p)
  <2>1. /\ upload[p] = "failing" /\ upload'[p] = "refused" /\ ~row[p].deleted
        /\ UNCHANGED <<faults, object, temp, gone, worker>>
    BY <1>0, <1>4 DEF RefuseUpload, SetUpload, Inv, RowInv
  <2>2. /\ \A q \in Photos \ {p} : SamePhoto(q)
        /\ row'[p] \in {row[p], FailedRow(row[p])}
    BY <1>0, <1>4, RowTypes, WriteMeans DEF RefuseUpload, SetUpload, SamePhoto
  <2>3. row'[p] = row[p] \/ row'[p].status = "failed"
    BY <1>0, <2>2, RowsEnd
  <2>4. \A w \in Workers : WorkSafe(w, p)'
    BY <1>0, <2>1, <2>3 DEF WorkSafe, Live, At
  <2> QED BY <1>0, <2>1, <2>2, <2>4, OnePhoto DEF PhotoSafe, GoneSafe, Live
<1> QED BY <1>1, <1>2, <1>3, <1>4 DEF Post

LEMMA NextSafe ==
  ASSUME Inv, [Next]_vars
  PROVE  AllSafe'
<1>0. AllSafe /\ TypeOK
  BY DEF Inv, AllSafe
<1>1. ASSUME NEW w \in Workers, NEW p \in Photos, Calls(w, p) PROVE AllSafe'
  <2>1. /\ UNCHANGED <<faults, upload, gone>>
        /\ Keeps(w, p) /\ FlightInv
        /\ \A q \in Photos \ {p} : SamePhoto(q)
    BY <1>0, <1>1, CallMeans DEF SamePhoto, Inv
  <2>2. WorkSafe(w, p)' /\ PhotoSafe(p)' /\ GoneSafe(p)'
    BY <1>1, CallSafe
  <2>3. ASSUME NEW v \in Workers, NEW q \in Photos, v # w \/ q # p PROVE WorkSafe(v, q)'
    <3>1. CASE v = w \/ (q = p /\ worker[v].photo = p)
      <4>1. \/ worker'[v].photo # q
            \/ worker'[v].pc \in {"idle", "load", "retry", "backoff", "exited"}
        BY <2>1, <2>3, <3>1 DEF Keeps, Busy, FlightInv, BusyPCs, WorkerPCs
      <4> QED BY <4>1 DEF WorkSafe, At
    <3>2. CASE v # w /\ worker[v].photo # q
      BY <2>1, <3>2 DEF Keeps, WorkSafe, At
    <3>3. CASE v # w /\ q # p
      BY <1>0, <2>1, <3>3, SameSafe DEF Keeps, AllSafe, WorkInv
    <3> QED BY <2>3, <3>1, <3>2, <3>3
  <2>4. ASSUME NEW q \in Photos \ {p} PROVE PhotoSafe(q)' /\ GoneSafe(q)'
    <3>1. \A v \in Workers : At(v, q, "complete") \/ At(v, q, "undo") =>
              At(v, q, "complete")' \/ At(v, q, "undo")'
      BY <2>1 DEF Keeps, Busy, At
    <3> QED BY <1>0, <2>1, <3>1, SameSafe, SameGone DEF AllSafe, SafeInv, GoneInv
  <2> QED BY <2>2, <2>3, <2>4 DEF AllSafe, WorkInv, SafeInv, GoneInv
<1>2. ASSUME NEW w \in Workers, NEW p \in Photos, Moves(w, p) PROVE AllSafe'
  <2>1. \A q \in Photos : SamePhoto(q)
    BY <1>2 DEF Moves, Take, Finish, BackOff, Resubmit, photoVars, SamePhoto
  <2>2. /\ worker[w].pc \notin {"complete", "undo"}
        /\ worker'[w].pc \in {"idle", "load", "backoff"}
        /\ \A v \in Workers \ {w} : worker'[v] = worker[v]
    BY <1>0, <1>2 DEF Moves, Take, Finish, BackOff, Resubmit, At, Go, IdleWorker, TypeOK
  <2> QED BY <1>0, <2>1, <2>2, NoPhotoChanges
<1>3. ASSUME NEW w \in Workers, Exit(w) PROVE AllSafe'
  <2>1. \A q \in Photos : SamePhoto(q)
    BY <1>3 DEF Exit, photoVars, SamePhoto
  <2>2. /\ worker[w].pc \notin {"complete", "undo"} /\ worker'[w].pc = "exited"
        /\ \A v \in Workers \ {w} : worker'[v] = worker[v]
    BY <1>0, <1>3 DEF Exit, IdleWorker, TypeOK
  <2> QED BY <1>0, <2>1, <2>2, NoPhotoChanges
<1>4. ASSUME NEW d \in Deletes, Deleting(d) PROVE AllSafe'
  <2>1. /\ UNCHANGED <<faults, upload, worker>>
        /\ \A q \in Photos : row'[q] = row[q] \/ row'[q] = DeletedRow(row[q])
        /\ temp' \subseteq temp /\ object' \subseteq object
        /\ \A q \in Photos : q \in (temp \ temp') \cup (object \ object') => row[q].deleted
        /\ \A q \in gone' \ gone : row'[q].deleted /\ q \notin object'
    BY <1>0, <1>4, DeletingMeans DEF Inv
  <2>2. \A q \in Photos : /\ row'[q].status = row[q].status /\ row'[q].staged = row[q].staged
                          /\ row[q].deleted => row'[q].deleted
    BY <1>0, <2>1, RowsStay DEF TypeOK, PhotoTypeOK
  <2>3. ASSUME NEW q \in Photos, NEW w \in Workers PROVE WorkSafe(w, q)'
    <3>1. WorkSafe(w, q) /\ \A pc : At(w, q, pc)' <=> At(w, q, pc)
      BY <1>0, <2>1 DEF AllSafe, WorkInv, At
    <3>2. /\ row'[q].status = row[q].status
          /\ Live(q)' <=> Live(q)
          /\ row[q].deleted => row'[q].deleted
          /\ ~row'[q].deleted => (Recoverable(row'[q]) <=> Recoverable(row[q]))
          /\ Recoverable(row'[q]) => Recoverable(row[q])
          /\ q \in object /\ ~row'[q].deleted => q \in object'
      BY <2>1, <2>2 DEF Live, Recoverable, Visible
    <3> QED BY <2>1, <3>1, <3>2 DEF WorkSafe, Fails
  <2>4. \A q \in Photos : PhotoSafe(q)'
    BY <1>0, <2>1, <2>2 DEF AllSafe, SafeInv, PhotoSafe, Live, Recoverable, Visible, Fails
  <2>5. \A q \in Photos : GoneSafe(q)'
    BY <1>0, <2>1, <2>2 DEF AllSafe, GoneInv, GoneSafe, At
  <2> QED BY <2>3, <2>4, <2>5 DEF AllSafe, WorkInv, SafeInv, GoneInv
<1>5. CASE \/ ListStale \/ (\E p \in Photos : SubmitStale(p)) \/ Cancel \/ Stop \/ Boot
           \/ UNCHANGED vars
  <2>1. worker' = worker /\ \A q \in Photos : SamePhoto(q)
    BY <1>5 DEF ListStale, SubmitStale, Cancel, Stop, Boot, vars, photoVars, SamePhoto
  <2> QED BY <1>0, <2>1, NoPhotoChanges
<1>6. CASE Crash
  <2>1. /\ UNCHANGED <<faults, row, temp, object, gone>> /\ "restart" \in faults
        /\ \A w \in Workers : worker'[w].pc = "idle"
        /\ \A q \in Photos : Live(q)' => Live(q)
    BY <1>6 DEF Crash, Fails, IdleWorker, Live
  <2>2. WorkInv'
    BY <2>1 DEF WorkInv, WorkSafe, At
  <2>3. SafeInv'
    BY <1>0, <2>1 DEF AllSafe, SafeInv, PhotoSafe, Fails
  <2>4. GoneInv'
    BY <1>0, <2>1 DEF AllSafe, GoneInv, GoneSafe
  <2> QED BY <2>2, <2>3, <2>4 DEF AllSafe
<1> QED BY <1>1, <1>2, <1>3, <1>4, <1>5, <1>6, PostSafe, NextCases

LEMMA NextHandled ==
  ASSUME Inv, [Next]_vars
  PROVE  HandledInv'
<1>0. HandledInv /\ TypeOK /\ row \in [Photos -> Row]
  BY DEF Inv, TypeOK, PhotoTypeOK
<1>1. ASSUME NEW p \in Photos, Post(p) PROVE HandledInv'
  <2>0. UNCHANGED <<up, worker>> /\ enqueued \subseteq enqueued'
    BY <1>1 DEF Post, SaveTemp, CreatePhoto, SubmitUpload, RefuseUpload, Submit, pipelineVars
  <2>1. ASSUME NEW q \in Photos \ {p} PROVE row'[q] = row[q] /\ upload'[q] = upload[q]
    BY <1>0, <1>1, RowTypes, WriteMeans
    DEF Post, SaveTemp, CreatePhoto, SubmitUpload, RefuseUpload, SetUpload, TypeOK, PhotoTypeOK
  <2>2. ~Accepted(p)' \/ p \in enqueued'
    BY <1>0, <1>1 DEF Post, SaveTemp, CreatePhoto, SubmitUpload, RefuseUpload, SetUpload,
                      Submit, TypeOK, PhotoTypeOK, Accepted
  <2> QED BY <1>0, <2>0, <2>1, <2>2 DEF HandledInv, Handled, Accepted, At
<1>2. ASSUME NEW w \in Workers, NEW p \in Photos, Calls(w, p) PROVE HandledInv'
  <2>1. /\ Keeps(w, p) /\ UNCHANGED <<upload, pipelineVars>>
        /\ \A q \in Photos \ {p} : row'[q] = row[q]
        /\ row'[p] \in {row[p], CompletedRow(row[p]), FailedRow(row[p])}
    BY <1>0, <1>2, CallMeans
  <2>2. p \in enqueued
    BY <2>1 DEF Inv, FlightInv, Keeps
  <2>3. \A v \in Workers, q \in Photos : At(v, q, "backoff") => At(v, q, "backoff")'
    BY <2>1 DEF Keeps, Busy, BusyPCs, At
  <2> QED BY <1>0, <2>1, <2>2, <2>3 DEF HandledInv, Handled, Accepted, pipelineVars
<1>3. ASSUME NEW w \in Workers, NEW p \in Photos, Moves(w, p) PROVE HandledInv'
  <2>0. UNCHANGED <<photoVars, up>> /\ \A v \in Workers \ {w} : worker'[v] = worker[v]
    BY <1>0, <1>3 DEF Moves, Take, Finish, BackOff, Resubmit, Go, TypeOK
  <2>1. CASE Take(w, p)
    BY <1>0, <2>0, <2>1 DEF Take, HandledInv, Handled, Accepted, At, photoVars
  <2>2. CASE Finish(w, p)
    <3>1. Accepted(p) => ~Recoverable(row[p])
      BY <2>2 DEF Finish, Inv, WorkInv, WorkSafe, Accepted, Live
    <3> QED BY <1>0, <2>0, <2>2, <3>1
            DEF Finish, ClearEnqueued, HandledInv, Handled, Accepted, At, photoVars
  <2>3. CASE BackOff(w, p)
    <3>1. At(w, p, "backoff")'
      BY <1>0, <2>3, GoTo DEF BackOff, At
    <3> QED BY <1>0, <2>0, <2>3, <3>1
            DEF BackOff, ClearEnqueued, HandledInv, Handled, Accepted, At, photoVars
  <2>4. CASE Resubmit(w, p)
    <3>1. up = "serving" => p \in enqueued'
      BY <2>4 DEF Resubmit, Submit
    <3>2. enqueued \subseteq enqueued'
      BY <2>4 DEF Resubmit, Submit
    <3> QED BY <1>0, <2>0, <2>4, <3>1, <3>2
            DEF Resubmit, HandledInv, Handled, Accepted, At, photoVars
  <2> QED BY <1>3, <2>1, <2>2, <2>3, <2>4 DEF Moves
<1>4. ASSUME NEW d \in Deletes, Deleting(d) PROVE HandledInv'
  <2>1. /\ UNCHANGED <<upload, pipelineVars, worker>>
        /\ \A q \in Photos : row'[q] = row[q] \/ row'[q] = DeletedRow(row[q])
    BY <1>0, <1>4, DeletingMeans DEF Inv
  <2>2. \A q \in Photos : Recoverable(row'[q]) => Recoverable(row[q])
    BY <1>0, <2>1, RowsStay DEF Recoverable, Visible
  <2> QED BY <1>0, <2>1, <2>2 DEF HandledInv, Handled, Accepted, At, pipelineVars
<1>5. CASE (\E w \in Workers : Exit(w)) \/ Cancel \/ Stop \/ Crash
  BY <1>5 DEF Exit, Cancel, Stop, Crash, HandledInv, Handled, pipelineVars
<1>6. CASE ListStale \/ UNCHANGED vars
  BY <1>0, <1>6 DEF ListStale, vars, photoVars, HandledInv, Handled, Accepted, At
<1>7. ASSUME NEW p \in Photos, SubmitStale(p) PROVE HandledInv'
  <2>1. UNCHANGED <<photoVars, up, worker>> /\ enqueued \subseteq enqueued'
    BY <1>7 DEF SubmitStale, Submit
  <2> QED BY <1>0, <2>1 DEF photoVars, HandledInv, Handled, Accepted, At
<1>8. CASE Boot
  BY <1>8 DEF Boot, RecoverablePhotos, photoVars, HandledInv, Handled
<1> QED BY <1>1, <1>2, <1>3, <1>4, <1>5, <1>6, <1>7, <1>8, NextCases

-----------------------------------------------------------------------------

LEMMA InitInv == Init => Inv
<1> SUFFICES ASSUME Init PROVE Inv
  OBVIOUS
<1> USE PhotoAssumption DEF Init, PhotoInit, IdleWorker, NoRow, Idle
<1>1. TypeOK
  BY DEF TypeOK, PhotoTypeOK, UploadPCs, Row, Statuses, DeletePCs, WorkerPCs
<1>2. FlightInv
  BY DEF FlightInv, Busy, BusyPCs
<1>3. RowInv /\ RequestInv /\ DownInv
  BY DEF RowInv, RequestInv, DownInv
<1>4. WorkInv /\ SafeInv /\ HandledInv /\ GoneInv
  BY DEF WorkInv, WorkSafe, At, SafeInv, PhotoSafe, Live, HandledInv, Handled, Accepted, GoneInv, GoneSafe
<1> QED BY <1>1, <1>2, <1>3, <1>4 DEF Inv

LEMMA Invariance == Spec => []Inv
<1>1. Inv /\ [Next]_vars => Inv'
  BY NextType, NextFlight, NextRow, NextSafe, NextHandled DEF Inv, AllSafe
<1> QED BY InitInv, <1>1, PTL DEF Spec

\* The types of all variables, for every number of photos, workers and requests: a count of
\* the queue is never negative, a request that does something has a photo.
THEOREM PhotoTypeCorrect == Spec => []TypeOK
  BY Invariance, PTL DEF Inv

\* A photo is queued or with one worker exactly if Submit takes it for under way
\* (Submit, clearEnqueued, runWorker, RecoverStale).
THEOREM FlightIsExact == Spec => []OneInFlight
<1>1. ASSUME Inv, NEW p \in Photos
      PROVE  queue[p] + Cardinality(WorkingOn(p)) = IF p \in enqueued THEN 1 ELSE 0
  <2>1. WorkingOn(p) = {w \in Workers : Busy(w, p)}
    BY DEF WorkingOn, Busy
  <2>2. CASE \E w \in Workers : Busy(w, p)
    <3>1. PICK w \in Workers : Busy(w, p)
      BY <2>2
    <3>2. WorkingOn(p) = {w} /\ queue[p] = 0 /\ p \in enqueued
      BY <1>1, <2>1, <3>1 DEF Inv, FlightInv
    <3> QED BY <3>2, FS_Singleton
  <2>3. CASE ~\E w \in Workers : Busy(w, p)
    <3>1. WorkingOn(p) = {} /\ queue[p] = IF p \in enqueued THEN 1 ELSE 0
      BY <1>1, <2>1, <2>3 DEF Inv, FlightInv
    <3> QED BY <3>1, FS_EmptySet
  <2> QED BY <2>2, <2>3
<1>2. Inv => OneInFlight
  BY <1>1 DEF OneInFlight
<1> QED BY <1>2, Invariance, PTL

\* An accepted photo is processing with its file, completed with its object, or failed
\* because its file could not be opened; and while the process serves it is not left
\* to a pass of the recovery loop (createPhoto, processPhoto, retryPhoto).
THEOREM AcceptedPhotosAreSafe == Spec => []AcceptedIsSafe
<1>1. Inv => AcceptedIsSafe
  BY DEF Inv, SafeInv, PhotoSafe, HandledInv, Handled, AcceptedIsSafe, Accepted, Live
<1> QED BY <1>1, Invariance, PTL

\* A photo deleted after it was completed is not in S3 again, and without failing calls one
\* deleted before is there only until its worker has seen the tombstone
\* (deletePhoto, processPhoto).
THEOREM DeletedPhotosStayGone == Spec => []DeletedStaysGone
<1>1. Inv => DeletedStaysGone
  BY DEF Inv, TypeOK, PhotoTypeOK, GoneInv, GoneSafe, DeletedStaysGone
<1> QED BY <1>1, Invariance, PTL

-----------------------------------------------------------------------------
(* What GET shows.                                                         *)

\* What GET shows of one photo.
Shown(p) == IF ~Accepted(p) THEN "absent"
            ELSE IF row[p].deleted THEN "deleted" ELSE row[p].status

LEMMA ShownStep ==
  ASSUME NEW p \in Photos, \A q \in Photos \ {p} : Shown(q)' = Shown(q),
         \/ Shown(p)' = Shown(p)
         \/ Shown(p) = "absent" /\ Shown(p)' \in {"processing", "completed", "failed"}
         \/ Shown(p) = "processing" /\ Shown(p)' \in {"completed", "failed"}
         \/ Shown(p) # "absent" /\ Shown(p)' = "deleted"
  PROVE  Lifecycle!Next \/ phase' = phase
<1>1. phase = [q \in Photos |-> Shown(q)] /\ phase' = [q \in Photos |-> Shown(q)']
  BY Zenon DEF phase, Shown
<1> HIDE DEF phase, Shown
<1>2. phase' = [phase EXCEPT ![p] = Shown(p)'] /\ phase[p] = Shown(p)
  BY <1>1
<1>3. CASE Shown(p)' = Shown(p)
  BY <1>1, <1>3
<1> QED BY <1>2, <1>3
        DEF Lifecycle!Next, Lifecycle!Accept, Lifecycle!End, Lifecycle!Remove, Lifecycle!Set

LEMMA ShownSame ==
  ASSUME \A q \in Photos : Shown(q)' = Shown(q)
  PROVE  phase' = phase
  BY DEF phase, Shown

LEMMA NextRefines ==
  ASSUME Inv, [Next]_vars
  PROVE  Lifecycle!Next \/ phase' = phase
<1>0. /\ TypeOK /\ PhotoTypeOK /\ row \in [Photos -> Row] /\ upload \in [Photos -> UploadPCs]
  BY DEF Inv, TypeOK, PhotoTypeOK
<1>1. ASSUME NEW p \in Photos, Post(p) PROVE Lifecycle!Next \/ phase' = phase
  <2>1. ASSUME NEW q \in Photos \ {p} PROVE Shown(q)' = Shown(q)
    BY <1>0, <1>1, RowTypes, WriteMeans
    DEF Post, SaveTemp, CreatePhoto, SubmitUpload, RefuseUpload, SetUpload, Shown, Accepted
  <2>2. CASE SubmitUpload(p)
    <3>1. row' = row /\ ~row[p].deleted /\ row[p].status # "none" /\ ~Accepted(p)
      BY <2>2 DEF SubmitUpload, Inv, RowInv, Accepted
    <3>2. row[p].status \in {"processing", "completed", "failed"}
      BY <1>0, <3>1 DEF Row, Statuses
    <3> QED BY <2>1, <3>1, <3>2, ShownStep DEF Shown
  <2>3. CASE SaveTemp(p) \/ CreatePhoto(p) \/ RefuseUpload(p)
    <3>1. ~Accepted(p) /\ ~Accepted(p)'
      BY <1>0, <2>3 DEF SaveTemp, CreatePhoto, RefuseUpload, SetUpload, Accepted
    <3> QED BY <2>1, <3>1, ShownStep DEF Shown
  <2> QED BY <1>1, <2>2, <2>3 DEF Post
<1>2. ASSUME NEW w \in Workers, NEW p \in Photos, Calls(w, p)
      PROVE  Lifecycle!Next \/ phase' = phase
  <2>1. /\ upload' = upload /\ row[p] \in Row /\ row[p].status # "none"
        /\ \A q \in Photos \ {p} : row'[q] = row[q]
    BY <1>0, <1>2, CallMeans DEF Keeps, Busy, Inv, RowInv
  <2>2. \A q \in Photos \ {p} : Shown(q)' = Shown(q)
    BY <2>1 DEF Shown, Accepted
  <2>3. \/ row'[p] = row[p]
        \/ At(w, p, "complete") /\ row'[p] = CompletedRow(row[p])
        \/ At(w, p, "fail") /\ row'[p] = FailedRow(row[p])
    <3>1. CASE Complete(w, p) \/ CompleteFails(w, p)
      BY <1>0, <2>1, <3>1, RowTypes, WriteMeans DEF Complete, CompleteFails
    <3>2. CASE Fail(w, p) \/ FailFails(w, p)
      BY <1>0, <2>1, <3>2, RowTypes, WriteMeans DEF Fail, FailFails
    <3> QED BY <1>2, <3>1, <3>2
            DEF Calls, Load, LoadFails, Retry, Open, Put, PutFails, Undo, Clean, photoVars
  <2>4. CASE ~Accepted(p) \/ row'[p] = row[p] \/ ~Visible(row[p])
    <3>1. ~Accepted(p) \/ row'[p] = row[p]
      BY <2>1, <2>3, <2>4, RowsEnd
    <3> QED BY <2>1, <2>2, <3>1, ShownStep DEF Shown, Accepted
  <2>5. CASE Accepted(p) /\ row'[p] # row[p] /\ Visible(row[p])
    <3>1. /\ WorkSafe(w, p) /\ Live(p) /\ ~row[p].deleted
      BY <2>5 DEF Inv, WorkInv, Accepted, Live, Visible
    <3>2. CASE At(w, p, "complete") /\ row'[p] = CompletedRow(row[p])
      <4>1. Shown(p) = "processing" /\ Shown(p)' = "completed"
        BY <2>1, <2>5, <3>1, <3>2, RowsEnd DEF WorkSafe, Recoverable, Shown, Accepted
      <4> QED BY <2>2, <4>1, ShownStep
    <3>3. CASE At(w, p, "fail") /\ row'[p] = FailedRow(row[p])
      <4>1. row[p].status \in {"processing", "failed"}
        BY <2>1, <3>1, <3>3 DEF WorkSafe, Row, Statuses
      <4>2. Shown(p) = row[p].status /\ Shown(p)' = "failed"
        BY <2>1, <2>5, <3>1, <3>3, RowsEnd DEF Shown, Accepted
      <4> QED BY <2>2, <4>1, <4>2, ShownStep
    <3> QED BY <2>3, <2>5, <3>2, <3>3
  <2> QED BY <2>4, <2>5
<1>3. ASSUME NEW d \in Deletes, Deleting(d) PROVE Lifecycle!Next \/ phase' = phase
  <2>1. /\ upload' = upload
        /\ \A q \in Photos : \/ row'[q] = row[q]
                             \/ Known(q) /\ row'[q] = DeletedRow(row[q])
    BY <1>0, <1>3, DeletingMeans DEF Inv
  <2>2. row' = row \/ \E p \in Photos : \A q \in Photos \ {p} : row'[q] = row[q]
    BY <1>0, <1>3, DeletingMeans DEF Inv
  <2>3. CASE row' = row
    BY <2>1, <2>3, ShownSame DEF Shown, Accepted
  <2>4. ASSUME NEW p \in Photos, \A q \in Photos \ {p} : row'[q] = row[q]
        PROVE  Lifecycle!Next \/ phase' = phase
    <3>1. \A q \in Photos \ {p} : Shown(q)' = Shown(q)
      BY <2>1, <2>4 DEF Shown, Accepted
    <3>2. CASE row'[p] = row[p]
      BY <2>1, <3>1, <3>2, ShownStep DEF Shown, Accepted
    <3>3. CASE row'[p] # row[p]
      <4>1. row[p].status # "none" /\ Accepted(p) /\ row'[p] = DeletedRow(row[p])
        BY <2>1, <3>3 DEF Inv, RowInv, Accepted, Known
      <4>2. Shown(p) # "absent" /\ Shown(p)' = "deleted"
        BY <1>0, <2>1, <4>1, RowsStay DEF Shown, Accepted, Row, Statuses
      <4> QED BY <3>1, <4>2, ShownStep
    <3> QED BY <3>2, <3>3
  <2> QED BY <2>2, <2>3, <2>4
<1>4. CASE Crash
  <2>1. row' = row /\ \A q \in Photos : Accepted(q)' <=> Accepted(q)
    BY <1>0, <1>4 DEF Crash, Accepted
  <2> QED BY <2>1, ShownSame DEF Shown
<1>5. CASE \/ \E w \in Workers, p \in Photos : Moves(w, p)
           \/ \E w \in Workers : Exit(w)
           \/ ListStale \/ (\E p \in Photos : SubmitStale(p)) \/ Cancel \/ Stop \/ Boot
           \/ UNCHANGED vars
  <2>1. row' = row /\ upload' = upload
    BY <1>5 DEF Moves, Take, Finish, BackOff, Resubmit, Exit, ListStale, SubmitStale,
                Cancel, Stop, Boot, vars, photoVars
  <2> QED BY <2>1, ShownSame DEF Shown, Accepted
<1> QED BY <1>1, <1>2, <1>3, <1>4, <1>5, NextCases

\* What GET shows of a photo is a behaviour of PhotoLifecycle: an end is final although the
\* statements of the store do not look at the status, and a deleted photo stays so.
THEOREM PipelineImplementsLifecycle == Spec => ImplementsLifecycle
<1>1. Init => Lifecycle!Init
  BY DEF Init, PhotoInit, Lifecycle!Init, phase, Accepted
<1>2. Inv /\ [Next]_vars => [Lifecycle!Next]_phase
  BY NextRefines
<1> QED BY <1>1, <1>2, Invariance, PTL DEF Spec, ImplementsLifecycle, Lifecycle!Spec

=============================================================================
