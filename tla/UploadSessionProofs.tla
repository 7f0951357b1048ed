------------------------- MODULE UploadSessionProofs -------------------------
(***************************************************************************)
(* For every set of jobs and finalize requests and all faults: a job that  *)
(* can be taken is ready, an accepted job is queued, and if S3 completes   *)
(* an upload id once, a job is queued once, although the record of the job *)
(* is read and written without a condition, and the handlers implement the *)
(* API of JobPipeline.                                                     *)
(***************************************************************************)
EXTENDS UploadSession, FiniteSetTheorems, TLAPS

\* Past CompleteMultipartUpload.
Past == {"put", "enqueue", "error"}

\* Until its id has been given out, a job is known to its upload request alone.
IdInv ==
    \A j \in Jobs : create[j] # "accepted" =>
        /\ upload[j] # "completed" /\ j \notin uploaded /\ durable[j] # "queued"
        /\ \A r \in Requests : finalize[r].job # j

\* The stores are written in an order: S3, then DynamoDB, then Redis.
ReadyInv ==
    /\ QueuedIsReady
    /\ \A r \in Requests :
          /\ finalize[r].pc \in Past => upload[finalize[r].job] = "completed"
          /\ finalize[r].pc \in {"enqueue", "error"} => durable[finalize[r].job] = "queued"
          /\ finalize[r].pc = "accepted" => Queued(finalize[r].job)

\* One request of a job gets past S3, and the job is queued by that one.
OnceInv ==
    /\ \A r \in Requests : finalize[r].pc \in Past =>
          /\ ~Queued(finalize[r].job)
          /\ \A s \in Requests :
                finalize[s].pc \in Past /\ finalize[s].job = finalize[r].job => s = r
    /\ \A i, k \in DOMAIN pending : pending[i] = pending[k] => i = k

Inv == TypeOK /\ IdInv /\ ReadyInv /\ (~RepeatedCompleteWorks => OnceInv)

-----------------------------------------------------------------------------

Final == [pc : FinalPCs \ {"new"}, job : Jobs] \cup {[pc |-> "new", job |-> NoJob]}

\* What the steps of a request do to it.
LEMMA FinalMeans ==
  ASSUME TypeOK, NEW r \in Requests, NEW from \in FinalPCs \ {"new"},
         NEW to \in FinalPCs \ {"new"}, FinalStep(r, from, to)
  PROVE  /\ finalize[r].pc = from /\ finalize[r].job \in Jobs
         /\ finalize'[r].pc = to /\ finalize'[r].job = finalize[r].job
         /\ \A s \in Requests \ {r} : finalize'[s] = finalize[s]
         /\ finalize' \in [Requests -> Final]
<1>1. finalize \in [Requests -> Final]
  BY DEF TypeOK, Final
<1>2. finalize[r].pc = from /\ finalize[r].job \in Jobs
  BY <1>1 DEF Final, FinalStep
<1>3. finalize'[r] = [pc |-> to, job |-> finalize[r].job]
      /\ \A s \in Requests \ {r} : finalize'[s] = finalize[s]
  BY <1>1 DEF FinalStep
<1>4. finalize' \in [Requests -> Final]
  BY <1>1, <1>2 DEF FinalStep, Final
<1> QED BY <1>2, <1>3, <1>4

LEMMA AskMeans ==
  ASSUME TypeOK, NEW r \in Requests, NEW j \in Jobs, Ask(r, j)
  PROVE  /\ finalize'[r].pc = "load" /\ finalize'[r].job = j
         /\ \A s \in Requests \ {r} : finalize'[s] = finalize[s]
         /\ finalize' \in [Requests -> Final]
BY DEF TypeOK, Ask, Final, FinalPCs

LEMMA CreateMeans ==
  ASSUME TypeOK, NEW j \in Jobs, NEW from, NEW to \in CreatePCs, CreateStep(j, from, to)
  PROVE  /\ create[j] = from /\ create'[j] = to
         /\ \A q \in Jobs \ {j} : create'[q] = create[q]
         /\ create' \in [Jobs -> CreatePCs]
BY DEF TypeOK, CreateStep

LEMMA AppendMeans ==
  ASSUME TypeOK, NEW j \in Jobs, pending' = Append(pending, j)
  PROVE  /\ \A q \in Jobs : Queued(q)' <=> Queued(q) \/ q = j
         /\ pending' \in Seq(Jobs)
         /\ DOMAIN pending' = 1..(Len(pending) + 1) /\ pending'[Len(pending) + 1] = j
         /\ DOMAIN pending = 1..Len(pending)
         /\ \A i \in 1..Len(pending) : pending'[i] = pending[i]
<1>1. /\ pending' \in Seq(Jobs) /\ Len(pending) \in Nat
      /\ DOMAIN pending' = 1..(Len(pending) + 1) /\ pending'[Len(pending) + 1] = j
      /\ DOMAIN pending = 1..Len(pending)
      /\ \A i \in 1..Len(pending) : pending'[i] = pending[i]
  BY DEF TypeOK
<1>2. ASSUME NEW q \in Jobs PROVE Queued(q)' <=> Queued(q) \/ q = j
  <2>1. ASSUME Queued(q)' PROVE Queued(q) \/ q = j
    BY <2>1, <1>1 DEF Queued
  <2>2. ASSUME Queued(q) PROVE Queued(q)'
    BY <2>2, <1>1 DEF Queued
  <2>3. ASSUME q = j PROVE Queued(q)'
    BY <2>3, <1>1 DEF Queued
  <2> QED BY <2>1, <2>2, <2>3
<1> QED BY <1>1, <1>2

-----------------------------------------------------------------------------

LEMMA InitInv == Init => Inv
<1> SUFFICES ASSUME Init PROVE Inv
  OBVIOUS
<1>1. TypeOK
  BY DEF Init, TypeOK, CreatePCs
<1>2. IdInv /\ ReadyInv /\ OnceInv
  BY UploadAssumption DEF Init, IdInv, ReadyInv, QueuedIsReady, OnceInv, Queued, Past
<1> QED BY <1>1, <1>2 DEF Inv

\* How the two kinds of requests change the types of what they touch.
LEMMA NextTypeOK ==
  ASSUME TypeOK, [Next]_vars
  PROVE  TypeOK'
<1>1. ASSUME NEW j \in Jobs, CreateRequest(j) PROVE TypeOK'
  <2>1. create' \in [Jobs -> CreatePCs]
    BY <1>1, CreateMeans DEF CreateRequest, OpenUpload, OpenUploadFails, RecordUpload,
       RecordUploadFails, AbortUpload, CreateGone, CreatePCs, Ended
  <2>2. upload' \in [Jobs -> {"none", "open", "completed", "aborted"}]
    BY <1>1 DEF TypeOK, CreateRequest, OpenUpload, OpenUploadFails, RecordUpload,
       RecordUploadFails, AbortUpload, CreateGone
  <2>3. durable' \in [Jobs -> {"none", "uploading", "queued"}]
    BY <1>1 DEF TypeOK, CreateRequest, OpenUpload, OpenUploadFails, RecordUpload,
       RecordUploadFails, AbortUpload, CreateGone
  <2>4. uploaded' = uploaded /\ pending' = pending /\ finalize' = finalize
    BY <1>1 DEF CreateRequest, OpenUpload, OpenUploadFails, RecordUpload,
       RecordUploadFails, AbortUpload, CreateGone
  <2> QED BY <2>1, <2>2, <2>3, <2>4 DEF TypeOK
<1>2. ASSUME NEW j \in Jobs, UploadParts(j) PROVE TypeOK'
  BY <1>2 DEF TypeOK, UploadParts
<1>3. ASSUME NEW r \in Requests, NEW j \in Jobs, Ask(r, j) PROVE TypeOK'
  BY <1>3, AskMeans DEF TypeOK, Ask, Final
<1>4. ASSUME NEW r \in Requests, LoadJob(r) \/ FinalizeGone(r) \/ EnqueueJobFails(r)
                                 \/ PutQueuedJobFails(r)
      PROVE  TypeOK'
  <2>1. finalize' \in [Requests -> Final]
    BY <1>4, FinalMeans DEF LoadJob, FinalizeGone, EnqueueJobFails, PutQueuedJobFails,
       FinalPCs, Ended
  <2> QED BY <1>4, <2>1 DEF TypeOK, Final, LoadJob, FinalizeGone, EnqueueJobFails,
       PutQueuedJobFails
<1>5. ASSUME NEW r \in Requests, CompleteUpload(r) PROVE TypeOK'
  <2>1. finalize' \in [Requests -> Final]
    BY <1>5, FinalMeans DEF CompleteUpload, FinalPCs, Ended
  <2>2. upload' \in [Jobs -> {"none", "open", "completed", "aborted"}]
    BY <1>5 DEF TypeOK, CompleteUpload
  <2> QED BY <1>5, <2>1, <2>2 DEF TypeOK, Final, CompleteUpload
<1>6. ASSUME NEW r \in Requests, PutQueuedJob(r) PROVE TypeOK'
  <2>1. finalize' \in [Requests -> Final]
    BY <1>6, FinalMeans DEF PutQueuedJob, FinalPCs, Ended
  <2> QED BY <1>6, <2>1 DEF TypeOK, Final, PutQueuedJob
<1>7. ASSUME NEW r \in Requests, EnqueueJob(r) PROVE TypeOK'
  <2>1. finalize' \in [Requests -> Final] /\ finalize[r].job \in Jobs
    BY <1>7, FinalMeans DEF EnqueueJob, FinalPCs, Ended
  <2> QED BY <1>7, <2>1, AppendMeans DEF TypeOK, Final, EnqueueJob
<1>8. CASE UNCHANGED vars
  BY <1>8 DEF TypeOK, vars
<1> QED BY <1>1, <1>2, <1>3, <1>4, <1>5, <1>6, <1>7, <1>8 DEF Next, FinalizeRequest

-----------------------------------------------------------------------------

\* A finalize request that has been made is for a job whose id was given out.
LEMMA JobIsKnown ==
  ASSUME TypeOK, IdInv, NEW r \in Requests, finalize[r].job \in Jobs
  PROVE  create[finalize[r].job] = "accepted"
BY DEF IdInv

LEMMA NextIdInv ==
  ASSUME TypeOK, IdInv, [Next]_vars
  PROVE  IdInv'
<1>1. ASSUME NEW j \in Jobs, CreateRequest(j) PROVE IdInv'
  <2>1. create[j] # "accepted" /\ \A q \in Jobs \ {j} : create'[q] = create[q]
    BY <1>1 DEF TypeOK, CreateRequest, OpenUpload, OpenUploadFails, RecordUpload,
       RecordUploadFails, AbortUpload, CreateGone, CreateStep
  <2>2. /\ upload'[j] # "completed" /\ durable'[j] # "queued"
        /\ \A q \in Jobs \ {j} : upload'[q] = upload[q] /\ durable'[q] = durable[q]
    BY <1>1, <2>1 DEF TypeOK, IdInv, CreateRequest, OpenUpload, OpenUploadFails, RecordUpload,
       RecordUploadFails, AbortUpload, CreateGone
  <2>3. uploaded' = uploaded /\ finalize' = finalize
    BY <1>1 DEF CreateRequest, OpenUpload, OpenUploadFails, RecordUpload,
       RecordUploadFails, AbortUpload, CreateGone
  <2> QED BY <2>1, <2>2, <2>3 DEF IdInv
<1>2. ASSUME NEW j \in Jobs, UploadParts(j) PROVE IdInv'
  BY <1>2 DEF IdInv, UploadParts
<1>3. ASSUME NEW r \in Requests, NEW j \in Jobs, Ask(r, j) PROVE IdInv'
  BY <1>3, AskMeans DEF IdInv, Ask
<1>4. ASSUME NEW r \in Requests, FinalizeRequest(r) PROVE IdInv'
  <2> DEFINE j == finalize[r].job
  <2>1. /\ j \in Jobs /\ finalize'[r].job = j
        /\ \A s \in Requests \ {r} : finalize'[s] = finalize[s]
    BY <1>4, FinalMeans DEF FinalizeRequest, LoadJob, CompleteUpload, PutQueuedJob,
       PutQueuedJobFails, EnqueueJob, EnqueueJobFails, FinalizeGone, FinalPCs, Ended
  <2>2. create' = create /\ uploaded' = uploaded
    BY <1>4 DEF FinalizeRequest, LoadJob, CompleteUpload, PutQueuedJob,
       PutQueuedJobFails, EnqueueJob, EnqueueJobFails, FinalizeGone
  <2>3. \A q \in Jobs \ {j} : upload'[q] = upload[q] /\ durable'[q] = durable[q]
    BY <1>4 DEF TypeOK, FinalizeRequest, LoadJob, CompleteUpload, PutQueuedJob,
       PutQueuedJobFails, EnqueueJob, EnqueueJobFails, FinalizeGone
  <2>4. create[j] = "accepted"
    BY <2>1, JobIsKnown
  <2> HIDE DEF j
  <2>5. \A s \in Requests : finalize'[s].job = finalize[s].job
    BY <2>1 DEF j
  <2> QED BY <2>2, <2>3, <2>4, <2>5 DEF IdInv
<1>5. CASE UNCHANGED vars
  BY <1>5 DEF IdInv, vars
<1> QED BY <1>1, <1>2, <1>3, <1>4, <1>5 DEF Next

-----------------------------------------------------------------------------

\* The upload request of a job whose id is not out changes nothing a finalize request or
\* a worker can see.
LEMMA CreateIsPrivate ==
  ASSUME TypeOK, IdInv, NEW j \in Jobs, CreateRequest(j)
  PROVE  /\ create[j] \notin {"accepted", "failed"}
         /\ \A r \in Requests : finalize[r].job # j
         /\ finalize' = finalize /\ pending' = pending
         /\ upload[j] # "completed" /\ durable[j] # "queued" /\ durable'[j] # "queued"
         /\ upload'[j] = "aborted" => upload[j] = "aborted" \/ create'[j] = "failed"
         /\ \A q \in Jobs \ {j} : /\ create'[q] = create[q]
                                  /\ upload'[q] = upload[q] /\ durable'[q] = durable[q]
<1>1. create[j] \notin {"accepted", "failed"} /\ \A q \in Jobs \ {j} : create'[q] = create[q]
  BY DEF TypeOK, CreateRequest, OpenUpload, OpenUploadFails, RecordUpload,
     RecordUploadFails, AbortUpload, CreateGone, CreateStep
<1>2. /\ upload[j] # "completed" /\ durable[j] # "queued"
      /\ \A r \in Requests : finalize[r].job # j
  BY <1>1 DEF IdInv
<1>3. finalize' = finalize /\ pending' = pending
  BY DEF CreateRequest, OpenUpload, OpenUploadFails, RecordUpload,
     RecordUploadFails, AbortUpload, CreateGone
<1>4. durable'[j] # "queued" /\ \A q \in Jobs \ {j} : durable'[q] = durable[q]
  BY <1>2 DEF TypeOK, CreateRequest, OpenUpload, OpenUploadFails, RecordUpload,
     RecordUploadFails, AbortUpload, CreateGone
<1>5. /\ upload'[j] = "aborted" => upload[j] = "aborted" \/ create'[j] = "failed"
      /\ \A q \in Jobs \ {j} : upload'[q] = upload[q]
  BY DEF TypeOK, CreateRequest, OpenUpload, OpenUploadFails, RecordUpload,
     RecordUploadFails, AbortUpload, CreateGone, CreateStep
<1> QED BY <1>1, <1>2, <1>3, <1>4, <1>5

\* A finalize request only adds to the stores, and only for its own job.
LEMMA FinalizeAdds ==
  ASSUME TypeOK, NEW r \in Requests, FinalizeRequest(r)
  PROVE  /\ finalize[r].job \in Jobs /\ finalize'[r].job = finalize[r].job
         /\ \A s \in Requests \ {r} : finalize'[s] = finalize[s]
         /\ create' = create
         /\ \A q \in Jobs : /\ upload[q] = "completed" => upload'[q] = "completed"
                            /\ upload'[q] = "aborted" => upload[q] = "aborted"
                            /\ durable[q] = "queued" => durable'[q] = "queued"
                            /\ Queued(q) => Queued(q)'
                            /\ q # finalize[r].job =>
                                  durable'[q] = durable[q] /\ (Queued(q)' <=> Queued(q))
<1> DEFINE j == finalize[r].job
<1>1. /\ j \in Jobs /\ finalize'[r].job = j
      /\ \A s \in Requests \ {r} : finalize'[s] = finalize[s]
  BY FinalMeans DEF FinalizeRequest, LoadJob, CompleteUpload, PutQueuedJob,
     PutQueuedJobFails, EnqueueJob, EnqueueJobFails, FinalizeGone, FinalPCs, Ended
<1>2. create' = create
  BY DEF FinalizeRequest, LoadJob, CompleteUpload, PutQueuedJob,
     PutQueuedJobFails, EnqueueJob, EnqueueJobFails, FinalizeGone
<1>3. ASSUME NEW q \in Jobs
      PROVE  /\ upload[q] = "completed" => upload'[q] = "completed"
             /\ upload'[q] = "aborted" => upload[q] = "aborted"
  BY DEF TypeOK, FinalizeRequest, LoadJob, CompleteUpload, PutQueuedJob,
     PutQueuedJobFails, EnqueueJob, EnqueueJobFails, FinalizeGone
<1>4. ASSUME NEW q \in Jobs
      PROVE  /\ durable[q] = "queued" => durable'[q] = "queued"
             /\ q # j => durable'[q] = durable[q]
  BY DEF TypeOK, FinalizeRequest, LoadJob, CompleteUpload, PutQueuedJob,
     PutQueuedJobFails, EnqueueJob, EnqueueJobFails, FinalizeGone
<1>5. ASSUME NEW q \in Jobs
      PROVE  /\ Queued(q) => Queued(q)'
             /\ q # j => (Queued(q)' <=> Queued(q))
  <2>1. CASE EnqueueJob(r)
    <3>1. pending' = Append(pending, j)
      BY <2>1 DEF EnqueueJob
    <3> HIDE DEF j
    <3> QED BY <3>1, <1>1, AppendMeans
  <2>2. CASE pending' = pending
    BY <2>2 DEF Queued
  <2> QED BY <2>1, <2>2 DEF FinalizeRequest, LoadJob, CompleteUpload, PutQueuedJob,
     PutQueuedJobFails, EnqueueJobFails, FinalizeGone
<1> QED BY <1>1, <1>2, <1>3, <1>4, <1>5

\* ReadyInv for one request and its job.
NeedsStores(r, j) ==
    /\ finalize[r].pc \in Past => upload[j] = "completed"
    /\ finalize[r].pc \in {"enqueue", "error"} => durable[j] = "queued"
    /\ finalize[r].pc = "accepted" => Queued(j)

LEMMA NeedsStored ==
  ASSUME ReadyInv, NEW r \in Requests, NEW j, finalize[r].job = j
  PROVE  NeedsStores(r, j)
BY DEF ReadyInv, NeedsStores

LEMMA StoredNeeds ==
  ASSUME TypeOK', QueuedIsReady',
         \A r \in Requests : \A j \in Jobs : finalize'[r].job = j => NeedsStores(r, j)'
  PROVE  ReadyInv'
<1>1. ASSUME NEW r \in Requests, finalize'[r].pc = "new" \/ finalize'[r].job \in Jobs
      PROVE  /\ finalize'[r].pc \in Past => upload'[finalize'[r].job] = "completed"
             /\ finalize'[r].pc \in {"enqueue", "error"} => durable'[finalize'[r].job] = "queued"
             /\ finalize'[r].pc = "accepted" => Queued(finalize[r].job)'
  BY <1>1 DEF NeedsStores, Past, Queued
<1>2. \A r \in Requests : finalize'[r].pc = "new" \/ finalize'[r].job \in Jobs
  BY DEF TypeOK
<1> QED BY <1>1, <1>2 DEF ReadyInv

\* Every store is written only when the one before it has been.
LEMMA NextReadyInv ==
  ASSUME TypeOK, IdInv, ReadyInv, [Next]_vars
  PROVE  ReadyInv'
<1>1. ASSUME NEW j \in Jobs, CreateRequest(j) PROVE ReadyInv'
  <2>1. \A q \in Jobs : Queued(q)' <=> Queued(q)
    BY <1>1, CreateIsPrivate DEF Queued
  <2>2. ASSUME NEW q \in Jobs
        PROVE  /\ Queued(q)' => durable'[q] = "queued"
               /\ durable'[q] = "queued" => upload'[q] = "completed"
               /\ upload'[q] = "aborted" => create'[q] = "failed"
    BY <1>1, <2>1, CreateIsPrivate DEF ReadyInv, QueuedIsReady
  <2>3. QueuedIsReady'
    BY <2>2 DEF QueuedIsReady
  <2>4. ASSUME NEW r \in Requests, NEW q \in Jobs, finalize'[r].job = q
        PROVE  NeedsStores(r, q)'
    <3>1. finalize' = finalize /\ q # j
      BY <1>1, <2>4, CreateIsPrivate
    <3> QED BY <3>1, <1>1, <2>1, <2>4, NeedsStored, CreateIsPrivate DEF NeedsStores
  <2> QED BY <1>1, <2>3, <2>4, NextTypeOK, StoredNeeds DEF Next
<1>2. ASSUME NEW j \in Jobs, UploadParts(j) PROVE ReadyInv'
  BY <1>2 DEF ReadyInv, QueuedIsReady, UploadParts, Queued
<1>3. ASSUME NEW r \in Requests, NEW j \in Jobs, Ask(r, j) PROVE ReadyInv'
  BY <1>3, AskMeans DEF ReadyInv, QueuedIsReady, Ask, Queued, Past
<1>4. ASSUME NEW r \in Requests, FinalizeRequest(r) PROVE ReadyInv'
  <2>1. PICK j \in Jobs : finalize[r].job = j
    BY <1>4, FinalizeAdds
  \* What the request itself relies on at its next step.
  <2>2. NeedsStores(r, j)'
    <3>1. CASE LoadJob(r) \/ PutQueuedJobFails(r) \/ EnqueueJobFails(r) \/ FinalizeGone(r)
      <4>1. finalize'[r].pc \in {"complete", "failed", "gone"}
        BY <3>1, FinalMeans DEF LoadJob, PutQueuedJobFails, EnqueueJobFails, FinalizeGone,
           FinalPCs, Ended
      <4> QED BY <4>1 DEF NeedsStores, Past
    <3>2. CASE CompleteUpload(r)
      <4>1. finalize'[r].pc \in {"put", "failed"}
        BY <3>2, FinalMeans DEF CompleteUpload, FinalPCs, Ended
      <4>2. finalize'[r].pc = "put" => upload'[j] = "completed"
        BY <3>2, <2>1, FinalMeans DEF TypeOK, CompleteUpload, FinalPCs, Ended
      <4> QED BY <4>1, <4>2 DEF NeedsStores, Past
    <3>3. CASE PutQueuedJob(r)
      <4>1. finalize[r].pc = "put" /\ finalize'[r].pc \in {"enqueue", "error"}
        BY <3>3, FinalMeans DEF PutQueuedJob, FinalPCs, Ended
      <4>2. durable'[j] = "queued" /\ upload' = upload
        BY <3>3, <2>1 DEF TypeOK, PutQueuedJob
      <4> QED BY <4>1, <4>2, <2>1, NeedsStored DEF NeedsStores, Past
    <3>4. CASE EnqueueJob(r)
      <4>1. finalize'[r].pc \in {"accepted", "failed"}
        BY <3>4, FinalMeans DEF EnqueueJob, FinalPCs, Ended
      <4>2. Queued(j)'
        <5>1. pending' = Append(pending, j)
          BY <3>4, <2>1 DEF EnqueueJob
        <5> QED BY <5>1, AppendMeans
      <4> QED BY <4>1, <4>2 DEF NeedsStores, Past
    <3> QED BY <1>4, <3>1, <3>2, <3>3, <3>4 DEF FinalizeRequest
  \* What a worker relies on.
  <2>3. /\ Queued(j)' => durable'[j] = "queued"
        /\ durable'[j] = "queued" => upload'[j] = "completed"
    <3>1. CASE CompleteUpload(r) \/ LoadJob(r) \/ PutQueuedJobFails(r)
               \/ EnqueueJobFails(r) \/ FinalizeGone(r)
      <4>1. durable' = durable /\ pending' = pending
        BY <3>1 DEF CompleteUpload, LoadJob, PutQueuedJobFails, EnqueueJobFails, FinalizeGone
      <4> QED BY <4>1, <1>4, <2>1, FinalizeAdds DEF ReadyInv, QueuedIsReady, Queued
    <3>2. CASE PutQueuedJob(r)
      <4>1. finalize[r].pc = "put"
        BY <3>2, FinalMeans DEF PutQueuedJob, FinalPCs, Ended
      <4>2. durable'[j] = "queued" /\ upload' = upload
        BY <3>2, <2>1 DEF TypeOK, PutQueuedJob
      <4> QED BY <4>1, <4>2, <2>1 DEF ReadyInv, Past
    <3>3. CASE EnqueueJob(r)
      <4>1. finalize[r].pc = "enqueue"
        BY <3>3, FinalMeans DEF EnqueueJob, FinalPCs, Ended
      <4>2. durable' = durable /\ upload' = upload
        BY <3>3 DEF EnqueueJob
      <4> QED BY <4>1, <4>2, <2>1 DEF ReadyInv, QueuedIsReady, Past
    <3> QED BY <1>4, <3>1, <3>2, <3>3 DEF FinalizeRequest
  <2>4. ASSUME NEW q \in Jobs
        PROVE  /\ Queued(q)' => durable'[q] = "queued"
               /\ durable'[q] = "queued" => upload'[q] = "completed"
               /\ upload'[q] = "aborted" => create'[q] = "failed"
    BY <1>4, <2>1, <2>3, FinalizeAdds DEF ReadyInv, QueuedIsReady
  <2>5. QueuedIsReady'
    BY <2>4 DEF QueuedIsReady
  <2>6. ASSUME NEW s \in Requests, NEW q \in Jobs, finalize'[s].job = q
        PROVE  NeedsStores(s, q)'
    <3>1. CASE s = r
      BY <3>1, <1>4, <2>1, <2>2, <2>6, FinalizeAdds
    <3>2. CASE s # r
      BY <3>2, <1>4, <2>6, NeedsStored, FinalizeAdds DEF NeedsStores
    <3> QED BY <3>1, <3>2
  <2> QED BY <1>4, <2>5, <2>6, NextTypeOK, StoredNeeds DEF Next
<1>5. CASE UNCHANGED vars
  BY <1>5 DEF ReadyInv, QueuedIsReady, vars, Queued
<1> QED BY <1>1, <1>2, <1>3, <1>4, <1>5 DEF Next

-----------------------------------------------------------------------------

\* Where S3 completes an upload once, one request gets past it.
LEMMA NextOnceInv ==
  ASSUME TypeOK, IdInv, ReadyInv, OnceInv, ~RepeatedCompleteWorks, [Next]_vars
  PROVE  OnceInv'
<1>1. ASSUME finalize' = finalize, pending' = pending PROVE OnceInv'
  BY <1>1 DEF OnceInv, Queued
<1>2. ASSUME NEW j \in Jobs, CreateRequest(j) PROVE OnceInv'
  BY <1>1, <1>2, CreateIsPrivate
<1>3. ASSUME NEW r \in Requests, NEW j \in Jobs, Ask(r, j) PROVE OnceInv'
  <2>1. pending' = pending /\ finalize'[r].pc \notin Past
        /\ \A s \in Requests \ {r} : finalize'[s] = finalize[s]
    BY <1>3, AskMeans DEF Ask, Past
  <2> QED BY <2>1 DEF OnceInv, Queued
\* A request that does not get past S3 leaves the others alone.
<1>4. ASSUME NEW r \in Requests, pending' = pending,
             finalize'[r].pc \in Past => finalize[r].pc \in Past,
             finalize'[r].job = finalize[r].job,
             \A s \in Requests \ {r} : finalize'[s] = finalize[s]
      PROVE  OnceInv'
  <2>1. \A s \in Requests : /\ finalize'[s].pc \in Past => finalize[s].pc \in Past
                            /\ finalize'[s].job = finalize[s].job
    BY <1>4
  <2> QED BY <1>4, <2>1 DEF OnceInv, Queued
<1>5. ASSUME NEW r \in Requests,
             LoadJob(r) \/ PutQueuedJob(r) \/ PutQueuedJobFails(r) \/ EnqueueJobFails(r)
             \/ FinalizeGone(r)
      PROVE  OnceInv'
  <2>1. finalize'[r].pc \in Past => finalize[r].pc \in Past
    BY <1>5, FinalMeans DEF LoadJob, PutQueuedJob, PutQueuedJobFails, EnqueueJobFails,
       FinalizeGone, FinalPCs, Ended, Past
  <2>2. pending' = pending
    BY <1>5 DEF LoadJob, PutQueuedJob, PutQueuedJobFails, EnqueueJobFails, FinalizeGone
  <2> QED BY <1>4, <1>5, <2>1, <2>2, FinalizeAdds DEF FinalizeRequest
<1>6. ASSUME NEW r \in Requests, CompleteUpload(r) PROVE OnceInv'
  <2> DEFINE j == finalize[r].job
  <2>1. /\ j \in Jobs /\ finalize'[r].job = j
        /\ \A s \in Requests \ {r} : finalize'[s] = finalize[s]
    BY <1>6, FinalizeAdds DEF FinalizeRequest
  <2>2. pending' = pending
    BY <1>6 DEF CompleteUpload
  <2>3. CASE finalize'[r].pc = "put"
    <3>1. upload[j] = "open"
      BY <1>6, <2>3, FinalMeans DEF CompleteUpload, Completes, FinalPCs, Ended
    <3>2. ~Queued(j) /\ \A s \in Requests : ~(finalize[s].pc \in Past /\ finalize[s].job = j)
      BY <2>1, <3>1 DEF ReadyInv, QueuedIsReady
    <3> HIDE DEF j
    <3> QED BY <2>1, <2>2, <3>2 DEF OnceInv, Queued
  <2>4. CASE finalize'[r].pc # "put"
    <3>1. finalize'[r].pc = "failed"
      BY <1>6, <2>4, FinalMeans DEF CompleteUpload, FinalPCs, Ended
    <3> QED BY <1>4, <2>1, <2>2, <3>1 DEF Past
  <2> QED BY <2>3, <2>4
<1>7. ASSUME NEW r \in Requests, EnqueueJob(r) PROVE OnceInv'
  <2>1. /\ \E j \in Jobs : finalize[r].job = j
        /\ \A s \in Requests \ {r} : finalize'[s] = finalize[s]
    BY <1>7, FinalizeAdds DEF FinalizeRequest
  <2>0. PICK j \in Jobs : finalize[r].job = j
    BY <2>1
  <2>2. finalize[r].pc = "enqueue" /\ finalize'[r].pc \notin Past
    BY <1>7, FinalMeans DEF EnqueueJob, FinalPCs, Ended, Past
  <2>3. pending' = Append(pending, j)
    BY <1>7, <2>0 DEF EnqueueJob
  <2>4. ~Queued(j) /\ \A s \in Requests \ {r} : ~(finalize[s].pc \in Past /\ finalize[s].job = j)
    BY <2>0, <2>2 DEF OnceInv, Past
  <2>5. \A i, k \in DOMAIN pending' : pending'[i] = pending'[k] => i = k
    <3>1. \A i \in 1..Len(pending) : pending'[i] = pending[i] /\ pending'[i] # j
      BY <2>1, <2>3, <2>4, AppendMeans DEF Queued
    <3> QED BY <2>1, <2>3, <3>1, AppendMeans DEF OnceInv, TypeOK
  <2>6. ASSUME NEW s \in Requests, finalize'[s].pc \in Past
        PROVE  /\ ~Queued(finalize[s].job)'
               /\ \A t \in Requests :
                     finalize'[t].pc \in Past /\ finalize'[t].job = finalize'[s].job => t = s
    <3>1. s # r /\ finalize'[s] = finalize[s]
      BY <2>1, <2>2, <2>6
    <3>2. PICK q \in Jobs : finalize[s].job = q
      BY <2>6, <3>1 DEF TypeOK, Past
    <3>3. q # j /\ ~Queued(q)
      BY <2>4, <2>6, <3>1, <3>2 DEF OnceInv
    <3>4. ~Queued(q)'
      BY <2>3, <3>3, AppendMeans
    <3>5. ~Queued(finalize[s].job)'
      BY <3>1, <3>2, <3>4 DEF Queued
    <3>6. ASSUME NEW t \in Requests, finalize'[t].pc \in Past, finalize'[t].job = finalize'[s].job
          PROVE  t = s
      BY <2>1, <2>2, <2>6, <3>1, <3>6 DEF OnceInv
    <3> QED BY <3>5, <3>6
  <2> QED BY <2>5, <2>6 DEF OnceInv
<1>8. ASSUME NEW j \in Jobs, UploadParts(j) PROVE OnceInv'
  BY <1>1, <1>8 DEF UploadParts
<1>9. CASE UNCHANGED vars
  BY <1>1, <1>9 DEF vars
<1> QED BY <1>2, <1>3, <1>5, <1>6, <1>7, <1>8, <1>9 DEF Next, FinalizeRequest

-----------------------------------------------------------------------------

LEMMA Invariance == Spec => []Inv
<1>1. ASSUME Inv, [Next]_vars PROVE Inv'
  BY <1>1, NextTypeOK, NextIdInv, NextReadyInv, NextOnceInv DEF Inv
<1> QED BY InitInv, <1>1, PTL DEF Spec

\* The stores and requests keep their types whatever fails: no step of a request needs a
\* job it does not have (handleCreateUpload, handleFinalizeUpload).
THEOREM UploadTypeCorrect == Spec => []TypeOK
<1>1. Inv => TypeOK
  BY DEF Inv
<1> QED BY Invariance, <1>1, PTL

\* A job in the queue has its video in S3 and its record queued, even if S3 completed an
\* upload twice, and only an upload whose id was never given out is aborted
\* (handleFinalizeUpload writes S3, DynamoDB, Redis in this order).
THEOREM QueuedJobsAreReady == Spec => []QueuedIsReady
<1>1. Inv => QueuedIsReady
  BY DEF Inv, ReadyInv
<1> QED BY Invariance, <1>1, PTL

\* A finalize request that answered 202 has left its job in the queue and in the record.
THEOREM AcceptedJobsAreQueued == Spec => []AcceptedIsQueued
<1>1. ASSUME Inv PROVE AcceptedIsQueued
  <2>1. \A r \in Requests : finalize[r].pc = "accepted" => finalize[r].job \in Jobs
    BY <1>1 DEF Inv, TypeOK
  <2> QED BY <1>1, <2>1 DEF Inv, ReadyInv, QueuedIsReady, AcceptedIsQueued
<1> QED BY Invariance, <1>1, PTL

\* If S3 completes an upload id once, a job is queued once by at most one request, for
\* any number of finalize requests on records read stale (handleFinalizeUpload).
THEOREM JobsAreQueuedOnce == ~RepeatedCompleteWorks => (Spec => []QueuedOnce)
<1> SUFFICES ASSUME ~RepeatedCompleteWorks PROVE Spec => []QueuedOnce
  OBVIOUS
<1>1. ASSUME Inv PROVE QueuedOnce
  <2> SUFFICES ASSUME NEW j \in Jobs
               PROVE  /\ Cardinality(Finalizing(j)) <= 1
                      /\ \A i, k \in DOMAIN pending : pending[i] = j /\ pending[k] = j => i = k
                      /\ Queued(j) => Finalizing(j) = {}
    BY DEF QueuedOnce
  <2>1. \A r, s \in Finalizing(j) : r = s
    BY <1>1 DEF Inv, OnceInv, Finalizing, Past
  <2>2. Cardinality(Finalizing(j)) <= 1
    <3>1. CASE Finalizing(j) = {}
      <4>1. Cardinality({}) = 0
        BY FS_EmptySet
      <4> QED BY <3>1, <4>1
    <3>2. CASE Finalizing(j) # {}
      <4>1. PICK r : r \in Finalizing(j)
        BY <3>2
      <4>2. Finalizing(j) = {r}
        BY <4>1, <2>1
      <4>3. Cardinality({r}) = 1
        BY FS_Singleton
      <4> QED BY <4>2, <4>3
    <3> QED BY <3>1, <3>2
  <2>3. Queued(j) => Finalizing(j) = {}
    BY <1>1 DEF Inv, OnceInv, Finalizing, Past
  <2> QED BY <1>1, <2>2, <2>3 DEF Inv, OnceInv
<1> QED BY Invariance, <1>1, PTL

-----------------------------------------------------------------------------
(* What JobPipeline assumes of the API is what the handlers do.            *)

\* The request that is about to write the record is the first to write it.
PutInv == \A r \in Requests : finalize[r].pc = "put" => durable[finalize[r].job] # "queued"

\* The state of JobPipeline, as Pipeline gives it.
Hashes    == [j \in Jobs |-> [status  |-> IF Queued(j) THEN "queued" ELSE "none",
                              retry   |-> 0,
                              failure |-> "none",
                              beat    |-> "none"]]
Submitted == [c \in {"submitted", "completed", "failed", "poison", "recoveredStale",
                     "recoveredFailed"} |-> IF c = "submitted" THEN Len(pending) ELSE 0]
Records   == [j \in Jobs |-> IF durable[j] = "queued" THEN "queued" ELSE "uploading"]
Between   == {j \in Jobs : \E r \in Requests : /\ finalize[r].job = j
                                               /\ finalize[r].pc \in {"enqueue", "error"}}

LEMMA PutBefore ==
  ASSUME TypeOK, IdInv, ReadyInv, OnceInv, PutInv, ~RepeatedCompleteWorks, [Next]_vars
  PROVE  PutInv'
<1> SUFFICES ASSUME NEW r \in Requests, NEW j \in Jobs, finalize'[r].pc = "put",
                    finalize'[r].job = j
             PROVE  durable'[j] # "queued"
  <2>1. \A r \in Requests : finalize'[r].pc = "put" => finalize'[r].job \in Jobs
    BY NextTypeOK DEF TypeOK
  <2> QED BY <2>1 DEF PutInv
\* A request that was there before is the only one past S3.
<1>1. ASSUME finalize[r].pc = "put", finalize[r].job = j PROVE durable'[j] # "queued"
  <2>1. durable[j] # "queued"
    BY <1>1 DEF PutInv
  <2>2. ASSUME NEW q \in Jobs, CreateRequest(q) PROVE durable'[j] # "queued"
    BY <1>1, <2>1, <2>2, CreateIsPrivate
  <2>3. ASSUME NEW s \in Requests, PutQueuedJob(s) PROVE durable'[j] # "queued"
    <3>1. finalize[s].pc = "put" /\ finalize'[s].pc # "put" /\ finalize[s].job \in Jobs
      BY <2>3, FinalMeans DEF PutQueuedJob, FinalPCs, Ended
    <3>2. finalize[s].job # j
      BY <1>1, <3>1 DEF OnceInv, Past
    <3> QED BY <2>1, <2>3, <3>2 DEF TypeOK, PutQueuedJob
  <2>4. ASSUME durable' = durable PROVE durable'[j] # "queued"
    BY <2>1, <2>4
  <2> QED BY <2>2, <2>3, <2>4 DEF Next, FinalizeRequest, UploadParts, Ask, LoadJob,
       CompleteUpload, PutQueuedJobFails, EnqueueJob, EnqueueJobFails, FinalizeGone, vars
<1>2. CASE CompleteUpload(r)
  <2>1. /\ finalize[r].job = j /\ finalize[r].pc = "complete" /\ durable' = durable
    BY <1>2, FinalMeans DEF CompleteUpload, FinalPCs, Ended
  <2>2. upload[j] = "open"
    BY <1>2, <2>1, FinalMeans DEF CompleteUpload, Completes, FinalPCs, Ended
  <2> QED BY <2>1, <2>2 DEF ReadyInv, QueuedIsReady
\* No other step makes a request reach this point.
<1>3. ASSUME ~CompleteUpload(r) PROVE finalize[r].pc = "put" /\ finalize[r].job = j
  <2>1. ASSUME NEW s \in Requests, NEW q \in Jobs, Ask(s, q)
        PROVE  finalize'[r] = finalize[r]
    BY <2>1, AskMeans
  <2>2. ASSUME NEW s \in Requests, FinalizeRequest(s), s # r PROVE finalize'[r] = finalize[r]
    BY <2>2, FinalizeAdds
  <2>3. ASSUME FinalizeRequest(r) PROVE FALSE
    BY <1>3, <2>3, FinalMeans DEF FinalizeRequest, LoadJob, PutQueuedJob,
       PutQueuedJobFails, EnqueueJob, EnqueueJobFails, FinalizeGone, FinalPCs, Ended
  <2>4. ASSUME NEW q \in Jobs, CreateRequest(q) PROVE finalize' = finalize
    BY <2>4, CreateIsPrivate
  <2> QED BY <2>1, <2>2, <2>3, <2>4 DEF Next, UploadParts, vars
<1> QED BY <1>1, <1>2, <1>3

LEMMA Stutters ==
  ASSUME pending' = pending, Between' = Between,
         \A j \in Jobs : durable'[j] = "queued" <=> durable[j] = "queued"
  PROVE  UNCHANGED Pipeline!vars
<1>1. Hashes' = Hashes /\ Submitted' = Submitted
  BY DEF Hashes, Submitted, Queued
<1>2. Records' = Records
  BY DEF Records
<1> QED BY <1>1, <1>2 DEF Pipeline!vars, Pipeline!redis, Hashes, Submitted, Records, Between

LEMMA FeedsInitially == Init => Pipeline!Init
<1> SUFFICES ASSUME Init PROVE Pipeline!Init
  OBVIOUS
<1>1. Hashes = [j \in Jobs |-> [status |-> "none", retry |-> 0,
                               failure |-> "none", beat |-> "none"]]
  BY DEF Init, Hashes, Queued
<1>2. Submitted = [c \in {"submitted", "completed", "failed", "poison", "recoveredStale",
                     "recoveredFailed"} |-> 0]
  BY DEF Init, Submitted
<1>3. Records = [j \in Jobs |-> "uploading"]
  BY DEF Init, Records
<1>4. Between = {}
  BY DEF Init, Between
<1>5. pending = << >>
  BY DEF Init
<1>6. \A e : << >> = [w \in {} |-> e]
  OBVIOUS
<1> QED BY <1>1, <1>2, <1>3, <1>4, <1>5, <1>6
       DEF Pipeline!Init, Pipeline!Counters, Hashes, Submitted, Records, Between

\* The steps of one finalize request that the pipeline sees.
LEMMA PutFeeds ==
  ASSUME TypeOK, PutInv, NEW r \in Requests, NEW j \in Jobs, finalize[r].job = j,
         PutQueuedJob(r)
  PROVE  Pipeline!PutQueuedJob(j)
<1>1. finalize[r].pc = "put" /\ finalize'[r].pc \in {"enqueue", "error"} /\ finalize'[r].job = j
      /\ \A s \in Requests \ {r} : finalize'[s] = finalize[s]
  BY FinalMeans DEF PutQueuedJob, FinalPCs, Ended
<1>2. durable[j] # "queued" /\ durable' = [durable EXCEPT ![j] = "queued"] /\ pending' = pending
  BY <1>1 DEF PutInv, PutQueuedJob
<1>3. Records[j] = "uploading" /\ Records' = [Records EXCEPT ![j] = "queued"]
  BY <1>2 DEF Records, TypeOK
<1>4. Between' = Between \cup {j}
  <2>1. ASSUME NEW q \in Jobs PROVE q \in Between' <=> q \in Between \/ q = j
    BY <1>1 DEF Between
  <2> QED BY <2>1 DEF Between
<1>5. Hashes' = Hashes /\ Submitted' = Submitted
  BY <1>2 DEF Hashes, Submitted, Queued
<1> QED BY <1>2, <1>3, <1>4, <1>5
       DEF Pipeline!PutQueuedJob, Pipeline!redis, Hashes, Submitted, Records, Between

LEMMA EnqueueFeeds ==
  ASSUME TypeOK, OnceInv, NEW r \in Requests, NEW j \in Jobs, finalize[r].job = j,
         EnqueueJob(r)
  PROVE  Pipeline!EnqueueJob(j)
<1>1. finalize[r].pc = "enqueue" /\ finalize'[r].pc \notin Past /\ finalize'[r].job = j
      /\ \A s \in Requests \ {r} : finalize'[s] = finalize[s]
  BY FinalMeans DEF EnqueueJob, FinalPCs, Ended, Past
<1>2. durable' = durable /\ pending' = Append(pending, j)
  BY DEF EnqueueJob
<1>3. j \in Between /\ Between' = Between \ {j}
  <2>1. ASSUME NEW q \in Jobs PROVE q \in Between' <=> q \in Between /\ q # j
    BY <1>1 DEF Between, OnceInv, Past
  <2> QED BY <2>1, <1>1 DEF Between
<1>4. Hashes' = [Hashes EXCEPT ![j] = [status |-> "queued", retry |-> 0,
                                       failure |-> "none", beat |-> "none"]]
  BY <1>2, AppendMeans DEF Hashes
<1>5. Submitted' = [c \in {"submitted", "completed", "failed", "poison", "recoveredStale",
                           "recoveredFailed"} |->
                       IF c \in {"submitted"} THEN Submitted[c] + 1 ELSE Submitted[c]]
  <2>1. Len(pending') = Len(pending) + 1
    BY <1>2 DEF TypeOK
  <2> QED BY <2>1 DEF Submitted
<1>6. Records' = Records
  BY <1>2 DEF Records
<1> QED BY <1>2, <1>3, <1>4, <1>5, <1>6
       DEF Pipeline!EnqueueJob, Pipeline!SetHash, Pipeline!Incr, Pipeline!Counters,
           Hashes, Submitted, Records, Between

LEMMA AbortFeeds ==
  ASSUME TypeOK, OnceInv, NEW r \in Requests, NEW j \in Jobs, finalize[r].job = j,
         finalize[r].pc \in {"enqueue", "error"}, EnqueueJobFails(r) \/ FinalizeGone(r)
  PROVE  Pipeline!AbortFinalize(j)
<1>1. finalize'[r].pc \notin Past /\ finalize'[r].job = j
      /\ \A s \in Requests \ {r} : finalize'[s] = finalize[s]
  BY FinalMeans DEF EnqueueJobFails, FinalizeGone, FinalPCs, Ended, Past
<1>2. durable' = durable /\ pending' = pending
  BY DEF EnqueueJobFails, FinalizeGone
<1>3. j \in Between /\ Between' = Between \ {j}
  <2>1. ASSUME NEW q \in Jobs PROVE q \in Between' <=> q \in Between /\ q # j
    BY <1>1 DEF Between, OnceInv, Past
  <2> QED BY <2>1, <1>1 DEF Between
<1>4. Hashes' = Hashes /\ Submitted' = Submitted /\ Records' = Records
  BY <1>2 DEF Hashes, Submitted, Records, Queued
<1> QED BY <1>2, <1>3, <1>4
       DEF Pipeline!AbortFinalize, Pipeline!redis, Hashes, Submitted, Records, Between

LEMMA NextFeeds ==
  ASSUME TypeOK, IdInv, OnceInv, PutInv, [Next]_vars
  PROVE  [Pipeline!Next]_Pipeline!vars
<1>0. ASSUME NEW r \in Requests, finalize'[r].pc \notin {"enqueue", "error"},
             finalize[r].pc \notin {"enqueue", "error"},
             \A s \in Requests \ {r} : finalize'[s] = finalize[s]
      PROVE  Between' = Between
  BY <1>0 DEF Between
<1>1. ASSUME NEW j \in Jobs, CreateRequest(j) PROVE UNCHANGED Pipeline!vars
  <2>1. Between' = Between
    BY <1>1, CreateIsPrivate DEF Between
  <2> QED BY <1>1, <2>1, Stutters, CreateIsPrivate
<1>2. ASSUME NEW j \in Jobs, UploadParts(j) PROVE UNCHANGED Pipeline!vars
  BY <1>2, Stutters DEF UploadParts, Between
<1>3. ASSUME NEW r \in Requests, NEW j \in Jobs, Ask(r, j) PROVE UNCHANGED Pipeline!vars
  BY <1>0, <1>3, AskMeans, Stutters DEF Ask
<1>4. ASSUME NEW r \in Requests, FinalizeRequest(r)
      PROVE  \/ UNCHANGED Pipeline!vars
             \/ \E j \in Jobs : Pipeline!ApiStep(j)
  <2>1. PICK j \in Jobs : finalize[r].job = j
    BY <1>4, FinalizeAdds
  <2>2. CASE LoadJob(r) \/ CompleteUpload(r) \/ PutQueuedJobFails(r)
             \/ (FinalizeGone(r) /\ finalize[r].pc # "enqueue")
    <3>1. /\ finalize'[r].pc \notin {"enqueue", "error"} /\ finalize[r].pc \notin {"enqueue", "error"}
          /\ durable' = durable /\ pending' = pending
      BY <2>2, FinalMeans DEF LoadJob, CompleteUpload, PutQueuedJobFails, FinalizeGone,
         FinalPCs, Ended
    <3> QED BY <1>0, <1>4, <3>1, Stutters, FinalizeAdds
  <2>3. CASE PutQueuedJob(r)
    BY <2>1, <2>3, PutFeeds DEF Pipeline!ApiStep
  <2>4. CASE EnqueueJob(r)
    BY <2>1, <2>4, EnqueueFeeds DEF Pipeline!ApiStep
  <2>5. CASE EnqueueJobFails(r)
    <3>1. finalize[r].pc \in {"enqueue", "error"}
      BY <2>5, FinalMeans DEF EnqueueJobFails, FinalPCs, Ended
    <3> QED BY <2>1, <2>5, <3>1, AbortFeeds DEF Pipeline!ApiStep
  <2>6. CASE FinalizeGone(r) /\ finalize[r].pc = "enqueue"
    BY <2>1, <2>6, AbortFeeds DEF Pipeline!ApiStep
  <2> QED BY <1>4, <2>2, <2>3, <2>4, <2>5, <2>6 DEF FinalizeRequest
<1>5. CASE UNCHANGED vars
  BY <1>5, Stutters DEF vars, Between
<1> QED BY <1>1, <1>2, <1>3, <1>4, <1>5 DEF Next, Pipeline!Next

\* The handlers of the API do to DynamoDB and Redis what JobPipeline has the API do, so
\* that what is proved of the pipeline holds of the jobs they submit, if S3 completes an
\* upload id once (handleFinalizeUpload, FinalizeUploadJob).
THEOREM UploadsFeedPipeline == ~RepeatedCompleteWorks => (Spec => FeedsPipeline)
<1> SUFFICES ASSUME ~RepeatedCompleteWorks PROVE Spec => FeedsPipeline
  OBVIOUS
<1>1. Init => PutInv
  BY DEF Init, PutInv
<1>2. Inv /\ PutInv /\ [Next]_vars => PutInv'
  BY PutBefore DEF Inv
<1>3. Inv /\ PutInv /\ [Next]_vars => [Pipeline!Next]_Pipeline!vars
  BY NextFeeds DEF Inv
<1> QED BY <1>1, <1>2, <1>3, FeedsInitially, Invariance, PTL
       DEF Spec, FeedsPipeline, Pipeline!Spec
=============================================================================
