-------------------------- MODULE PhotoOutboxProofs --------------------------
(***************************************************************************)
(* For every number of photos, services and DELETE requests, every bound   *)
(* on messages and deliveries and every set of faults: an accepted photo   *)
(* is never lost, and a closed job is never published again.               *)
(***************************************************************************)
EXTENDS PhotoOutbox, PhotoStoreProofs, WellFoundedInduction

\* A photo and its job come into being together; DELETE and services touch no other.
RowInv ==
    \A p \in Photos :
        /\ upload[p] \in {"new", "accepted"}
        /\ upload[p] = "new" => row[p] = NoRow /\ job[p] = "none"
        /\ Accepted(p) => row[p].status # "none" /\ job[p] # "none"
        /\ row[p].staged <=> row[p].status = "processing"
HolderInv ==
    /\ \A m \in messages : Accepted(PhotoOf(m))
    /\ \A s \in Services, m \in Messages : task[s][m] # "none" => Accepted(PhotoOf(m))
    /\ \A s \in Services : \A p \in service[s].todo : Accepted(p)

HasMessage(p) == \E m \in messages : PhotoOf(m) = p

\* AcceptedIsSafe, by what has been lost: nothing while the photo is not ended.
PhotoSafe(p) ==
    Accepted(p) =>
        /\ job[p] \in Closed => Ended(p)
        /\ Ended(p) \/ (p \in temp /\ (job[p] = "pending" \/ HasMessage(p)))
        /\ row[p].status = "completed" /\ ~row[p].deleted => p \in object
        /\ row[p].status = "failed" /\ ~row[p].deleted => Fails("disk") \/ p \in object
SafeInv == \A p \in Photos : PhotoSafe(p)

\* What the delivery of message m may rely on at each of its steps, whatever other
\* deliveries of the photo have done since the last one.
TaskSafe(s, m) ==
    LET p == PhotoOf(m)
    IN  /\ At(s, m, "complete") => p \in object \/ row[p].deleted
        /\ At(s, m, "fail") => p \in object \/ row[p].deleted \/ Fails("disk")
        /\ task[s][m] \in {"settle", "close", "clean", "reject", "ack"} => Ended(p)
TaskInv == \A s \in Services, m \in Messages : TaskSafe(s, m)

\* A service about to mark a job as published has sent its message, which is used up only
\* when the photo has ended.
MarkSafe(s) ==
    service[s].pc = "mark" => Ended(service[s].photo) \/ HasMessage(service[s].photo)
MarkInv == \A s \in Services : MarkSafe(s)

Inv == /\ TypeOK /\ RequestInv /\ RowInv /\ HolderInv
       /\ SafeInv /\ TaskInv /\ MarkInv

\* What no step undoes.
Progress ==
    /\ faults' = faults
    /\ \A p \in Photos :
          /\ Accepted(p) => Accepted(p)'
          /\ Ended(p) => Ended(p)'
          /\ row[p].deleted => row'[p].deleted
          /\ p \in object => p \in object' \/ row[p].deleted
          /\ p \in temp => p \in temp' \/ Ended(p)
    /\ \A m \in messages : m \in messages' \/ Ended(PhotoOf(m))

-----------------------------------------------------------------------------
(* Messages.                                                               *)

LEMMA MessagePhotos ==
  /\ \A m \in Messages : PhotoOf(m) \in Photos
  /\ \A p \in Photos, i \in 1..MaxCopies : <<p, i>> \in Messages /\ PhotoOf(<<p, i>>) = p
  BY DEF Messages, PhotoOf

LEMMA NatMin ==
  ASSUME NEW T \in SUBSET Nat, T # {}
  PROVE  Min(T) \in T
<1>1. IsWellFoundedOn({ss \in Nat \X Nat : ss[1] < ss[2]}, Nat)
  BY NatLessThanWellFounded DEF OpToRel
<1>2. PICK x \in T : \A y \in T : ~ (<<y, x>> \in {ss \in Nat \X Nat : ss[1] < ss[2]})
  BY <1>1, WFMin
<1>3. \A y \in T : x <= y
  <2> TAKE y \in T
  <2>1. ~(y < x)
    BY <1>2
  <2> QED BY <2>1
<1> QED BY <1>3 DEF Min

\* SendMessage adds one message of its photo.
LEMMA SentMeans ==
  ASSUME NEW p \in Photos, Free(p) # {}
  PROVE  \E m \in Messages : PhotoOf(m) = p /\ Sent(p) = messages \cup {m}
<1>1. Min(Free(p)) \in Free(p)
  <2>1. Free(p) \in SUBSET Nat
    BY OutboxAssumption DEF Free
  <2> QED BY <2>1, NatMin
<1> QED BY <1>1, MessagePhotos DEF Free, Sent

-----------------------------------------------------------------------------
(* Steps of a delivery.                                                    *)

LEMMA GoMeans ==
  ASSUME TypeOK, NEW s \in Services, NEW m \in Messages, NEW pc \in TaskPCs, Go(s, m, pc)
  PROVE  /\ task' \in [Services -> [Messages -> TaskPCs]]
         /\ task'[s][m] = pc
         /\ \A r \in Services, n \in Messages : r # s \/ n # m => task'[r][n] = task[r][n]
  BY DEF TypeOK, Go

\* What the deliveries of a service have in common.
Delivery(s, m) ==
    /\ service[s].pc = "batch" /\ task[s][m] # "none"
    /\ task' \in [Services -> [Messages -> TaskPCs]]
    /\ \A r \in Services, n \in Messages : r # s \/ n # m => task'[r][n] = task[r][n]
    /\ service' \in {service, [service EXCEPT ![s].bad = TRUE]}

LEMMA DeliveryMeans ==
  ASSUME TypeOK, NEW s \in Services, NEW m \in Messages,
         task[s][m] # "none", NEW pc \in TaskPCs, Go(s, m, pc),
         service' = service \/ service' = [service EXCEPT ![s].bad = TRUE]
  PROVE  Delivery(s, m) /\ task'[s][m] = pc
<1>1. service[s].pc = "batch"
  BY DEF TypeOK, NoTasks
<1> QED BY <1>1, GoMeans DEF Delivery

\* The effects of a delivery of message m on the photo, its job and SQS.
Effect(m) ==
    LET p == PhotoOf(m)
    IN  /\ UNCHANGED <<faults, upload, request, gone>>
        /\ row' \in [Photos -> Row] /\ \A q \in Photos \ {p} : row'[q] = row[q]
        /\ \/ row'[p] = row[p]
           \/ /\ Visible(row[p]) /\ row'[p] \in {CompletedRow(row[p]), FailedRow(row[p])}
              /\ row'[p].status = "completed" => p \in object
              /\ row'[p].status = "failed" => p \in object \/ Fails("disk")
        /\ temp' \subseteq temp /\ \A q \in temp \ temp' : q = p /\ Ended(p)
        /\ object' \in {object, object \cup {p}}
        /\ job' \in [Photos -> {"none", "pending", "published"} \cup Closed]
        /\ \A q \in Photos \ {p} : job'[q] = job[q]
        /\ job'[p] = job[p] \/ (job'[p] \in Closed /\ Ended(p))
        /\ messages' \in {messages, messages \ {m}}
        /\ m \in messages \ messages' => Ended(p)

LEMMA EffectOfNone ==
  ASSUME TypeOK, NEW m \in Messages, UNCHANGED <<photoVars, job, messages>>
  PROVE  Effect(m)
  BY DEF TypeOK, PhotoTypeOK, Effect, photoVars

LEMMA EffectOfJob ==
  ASSUME TypeOK, NEW m \in Messages, NEW j \in Closed, Ended(PhotoOf(m)),
         WriteJob(PhotoOf(m), j) \/ WriteJobFails(PhotoOf(m), j),
         UNCHANGED <<photoVars, messages>>
  PROVE  Effect(m)
<1>1. /\ PhotoOf(m) \in Photos /\ row \in [Photos -> Row]
      /\ job \in [Photos -> {"none", "pending", "published"} \cup Closed]
  BY MessagePhotos DEF TypeOK, PhotoTypeOK
<1>2. /\ job' \in [Photos -> {"none", "pending", "published"} \cup Closed]
      /\ \A q \in Photos \ {PhotoOf(m)} : job'[q] = job[q]
      /\ job'[PhotoOf(m)] = job[PhotoOf(m)] \/ job'[PhotoOf(m)] = j
  BY <1>1 DEF WriteJob, WriteJobFails
<1> QED BY <1>1, <1>2 DEF Effect, photoVars

LEMMA EffectOfWrite ==
  ASSUME TypeOK, NEW m \in Messages, NEW r \in Row, Visible(row[PhotoOf(m)]) => 
         r \in {CompletedRow(row[PhotoOf(m)]), FailedRow(row[PhotoOf(m)])},
         ~Visible(row[PhotoOf(m)]) => r = row[PhotoOf(m)],
         Visible(row[PhotoOf(m)]) /\ r.status = "completed" => PhotoOf(m) \in object,
         Visible(row[PhotoOf(m)]) /\ r.status = "failed" => PhotoOf(m) \in object \/ Fails("disk"),
         Write(PhotoOf(m), r) \/ WriteFails(PhotoOf(m), r),
         UNCHANGED <<faults, upload, temp, object, request, gone, job, messages>>
  PROVE  Effect(m)
<1>1. PhotoOf(m) \in Photos /\ PhotoTypeOK
      /\ job \in [Photos -> {"none", "pending", "published"} \cup Closed]
  BY MessagePhotos DEF TypeOK
<1>2. /\ row' \in [Photos -> Row] /\ \A q \in Photos \ {PhotoOf(m)} : row'[q] = row[q]
      /\ row'[PhotoOf(m)] = row[PhotoOf(m)] \/ row'[PhotoOf(m)] = r
  BY <1>1, WriteMeans
<1> QED BY <1>1, <1>2 DEF Effect

\* Every step of a delivery does its effect and gives the next one what that relies on.
LEMMA StepMeans ==
  ASSUME Inv, NEW s \in Services, NEW m \in Messages, Process(s, m) \/ ProcessFails(s, m)
  PROVE  Effect(m) /\ Delivery(s, m) /\ TaskSafe(s, m)'
<1> DEFINE p == PhotoOf(m)
<1>0. /\ TypeOK /\ p \in Photos /\ row[p] \in Row
      /\ Accepted(p) => row[p].status # "none" /\ PhotoSafe(p)
      /\ row[p].staged <=> row[p].status = "processing"
      /\ task[s][m] # "none" => Accepted(p)
      /\ TaskSafe(s, m)
      /\ object \subseteq Photos
      /\ job \in [Photos -> {"none", "pending", "published"} \cup Closed]
  BY MessagePhotos DEF Inv, TypeOK, PhotoTypeOK, RowInv, HolderInv, SafeInv, TaskInv
<1>00. ASSUME NEW from \in TaskPCs, At(s, m, from), from # "none", NEW pc \in TaskPCs, Go(s, m, pc),
              service' = service \/ GiveUp(s, m)
       PROVE  Delivery(s, m) /\ task'[s][m] = pc
  BY <1>0, <1>00, DeliveryMeans DEF GiveUp, At
<1>1. CASE LoadFails(s, m)
  <2>1. Delivery(s, m) /\ task'[s][m] = "none"
    BY <1>1, <1>00 DEF LoadFails, GiveUp, TaskPCs
  <2> QED BY <1>0, <1>1, <2>1, EffectOfNone DEF LoadFails, TaskSafe, At
<1>2. CASE Load(s, m)
  <2>1. PICK pc \in {"close", "open", "fail"} :
            /\ Go(s, m, pc)
            /\ pc = "close" => ~Visible(row[p]) \/ row[p].status = "completed"
            /\ pc = "fail" => Visible(row[p]) /\ row[p].status # "completed" /\ ~row[p].staged
    BY <1>2 DEF Load
  <2>2. Delivery(s, m) /\ task'[s][m] = pc
    BY <1>2, <2>1, <1>00 DEF Load, TaskPCs
  <2>3. UNCHANGED <<photoVars, job, messages>> /\ Accepted(p)
    BY <1>0, <1>2 DEF Load, At
  <2>4. pc = "close" => Ended(p)
    BY <1>0, <2>1, <2>3 DEF Visible, Ended
  <2>5. pc = "fail" => p \in object \/ Fails("disk")
    BY <1>0, <2>1, <2>3 DEF Visible, PhotoSafe, Row, Statuses
  <2> QED BY <1>0, <2>2, <2>3, <2>4, <2>5, EffectOfNone DEF TaskSafe, At, photoVars, Ended, Fails
<1>3. CASE Open(s, m)
  <2>1. PICK pc \in {"put", "fail"} :
            Go(s, m, pc) /\ (pc = "fail" => p \notin temp \/ Fails("disk"))
    BY <1>3 DEF Open
  <2>2. Delivery(s, m) /\ task'[s][m] = pc
    BY <1>3, <2>1, <1>00 DEF Open, TaskPCs
  <2>3. UNCHANGED <<photoVars, job, messages>> /\ Accepted(p)
    BY <1>0, <1>3 DEF Open, At
  <2>4. pc = "fail" => p \in object \/ row[p].deleted \/ Fails("disk")
    BY <1>0, <2>1, <2>3 DEF PhotoSafe, Ended
  <2> QED BY <1>0, <2>2, <2>3, <2>4, EffectOfNone DEF TaskSafe, At, photoVars, Fails
<1>4. CASE Put(s, m)
  <2>1. Delivery(s, m) /\ task'[s][m] = "complete"
    BY <1>4, <1>00 DEF Put, TaskPCs
  <2>2. Effect(m) /\ p \in object'
    BY <1>0, <1>4 DEF Put, PutObject, Effect, TypeOK, PhotoTypeOK
  <2> QED BY <2>1, <2>2 DEF TaskSafe, At
<1>5. CASE PutFails(s, m)
  <2>1. Delivery(s, m) /\ task'[s][m] = "none"
    BY <1>5, <1>00 DEF PutFails, GiveUp, TaskPCs
  <2>2. Effect(m)
    BY <1>0, <1>5 DEF PutFails, PutObjectFails, Effect, TypeOK, PhotoTypeOK
  <2> QED BY <2>1, <2>2 DEF TaskSafe, At
<1>6. CASE Complete(s, m) \/ CompleteFails(s, m)
  <2>1. At(s, m, "complete") /\ (p \in object \/ row[p].deleted) /\ Accepted(p)
    BY <1>0, <1>6 DEF Complete, CompleteFails, TaskSafe, At
  <2>2. Effect(m)
    <3>1. CompletedRow(row[p]) \in Row
      BY <1>0, RowTypes
    <3>2. /\ ~Visible(row[p]) => CompletedRow(row[p]) = row[p]
          /\ Visible(row[p]) => CompletedRow(row[p]).status = "completed" /\ p \in object
      BY <1>0, <2>1, RowsEnd DEF Visible
    <3> QED BY <1>0, <1>6, <3>1, <3>2, EffectOfWrite DEF Complete, CompleteFails
  <2>3. CASE Complete(s, m)
    <3>1. PICK pc \in {"settle", "close"} : Go(s, m, pc) /\ (pc = "close" => ~Visible(row[p]))
      BY <2>3 DEF Complete
    <3>2. Delivery(s, m) /\ task'[s][m] = pc
      BY <2>1, <2>3, <3>1, <1>00 DEF Complete, TaskPCs
    <3>3. Ended(p)'
      BY <1>0, <2>1, <2>3, RowsEnd DEF Complete, Write, TypeOK, PhotoTypeOK, Ended, Visible
    <3> QED BY <2>2, <3>2, <3>3 DEF TaskSafe, At
  <2>4. CASE CompleteFails(s, m)
    <3>1. Delivery(s, m) /\ task'[s][m] = "none"
      BY <2>4, <1>00 DEF CompleteFails, GiveUp, TaskPCs
    <3> QED BY <2>2, <3>1 DEF TaskSafe, At
  <2> QED BY <1>6, <2>3, <2>4
<1>7. CASE Settle(s, m) \/ SettleFails(s, m) \/ Close(s, m) \/ Reject(s, m)
  <2>1. Ended(p)
    BY <1>0, <1>7 DEF Settle, SettleFails, Close, Reject, TaskSafe, At
  <2>2. PICK from \in {"settle", "close", "reject"}, pc \in {"clean", "none", "ack"} :
            At(s, m, from) /\ Go(s, m, pc) /\ (service' = service \/ GiveUp(s, m))
    BY <1>7 DEF Settle, SettleFails, Close, Reject, GiveUp
  <2>3. Delivery(s, m) /\ task'[s][m] = pc
    BY <2>2, <1>00 DEF TaskPCs
  <2>4. UNCHANGED <<photoVars, messages>>
    BY <1>7 DEF Settle, SettleFails, Close, Reject
  <2>5. \E j \in Closed : WriteJob(p, j) \/ WriteJobFails(p, j)
    BY <1>7 DEF Settle, SettleFails, Close, Reject, Closed
  <2>6. Effect(m)
    BY <1>0, <2>1, <2>4, <2>5, EffectOfJob
  <2> QED BY <2>1, <2>3, <2>4, <2>6 DEF TaskSafe, At, photoVars, Ended
<1>8. CASE Clean(s, m)
  <2>1. Ended(p)
    BY <1>0, <1>8 DEF Clean, TaskSafe, At
  <2>2. Delivery(s, m) /\ task'[s][m] = "ack"
    BY <1>8, <1>00 DEF Clean, TaskPCs
  <2>3. Effect(m) /\ row' = row
    BY <1>0, <1>8, <2>1 DEF Clean, RemoveTemp, Effect, TypeOK, PhotoTypeOK
  <2> QED BY <2>1, <2>2, <2>3 DEF TaskSafe, At, Ended
<1>9. CASE Fail(s, m) \/ FailFails(s, m)
  <2>1. /\ At(s, m, "fail") /\ Accepted(p)
        /\ p \in object \/ row[p].deleted \/ Fails("disk")
    BY <1>0, <1>9 DEF Fail, FailFails, TaskSafe, At
  <2>2. Effect(m)
    <3>1. FailedRow(row[p]) \in Row
      BY <1>0, RowTypes
    <3>2. /\ ~Visible(row[p]) => FailedRow(row[p]) = row[p]
          /\ Visible(row[p]) => /\ FailedRow(row[p]).status = "failed"
                                /\ p \in object \/ Fails("disk")
      BY <1>0, <2>1, RowsEnd DEF Visible
    <3> QED BY <1>0, <1>9, <3>1, <3>2, EffectOfWrite DEF Fail, FailFails
  <2>3. CASE Fail(s, m)
    <3>1. Delivery(s, m) /\ task'[s][m] = "reject"
      BY <2>3, <1>00 DEF Fail, TaskPCs
    <3>2. Ended(p)'
      BY <1>0, <2>1, <2>3, RowsEnd DEF Fail, Write, TypeOK, PhotoTypeOK, Ended, Visible
    <3> QED BY <2>2, <3>1, <3>2 DEF TaskSafe, At
  <2>4. CASE FailFails(s, m)
    <3>1. Delivery(s, m) /\ task'[s][m] = "none"
      BY <2>4, <1>00 DEF FailFails, GiveUp, TaskPCs
    <3> QED BY <2>2, <3>1 DEF TaskSafe, At
  <2> QED BY <1>9, <2>3, <2>4
<1>10. CASE Ack(s, m) \/ AckFails(s, m)
  <2>1. Ended(p)
    BY <1>0, <1>10 DEF Ack, AckFails, TaskSafe, At
  <2>2. Delivery(s, m) /\ task'[s][m] = "none"
    BY <1>10, <1>00 DEF Ack, AckFails, GiveUp, TaskPCs
  <2>3. Effect(m)
    BY <1>0, <1>10, <2>1 DEF Ack, AckFails, Effect, photoVars, TypeOK, PhotoTypeOK
  <2> QED BY <2>2, <2>3 DEF TaskSafe, At
<1> QED BY <1>1, <1>2, <1>3, <1>4, <1>5, <1>6, <1>7, <1>8, <1>9, <1>10, Zenon
        DEF Process, ProcessFails

-----------------------------------------------------------------------------
(* Steps of the main loop of a service.                                    *)

LoopStep(s) ==
    \/ Loop(s)
    \/ ListFails(s) \/ MarkPublishedFails(s) \/ (\E p \in Photos : SendFails(s, p)) \/ Crash(s)

JobStates == {"none", "pending", "published"} \cup Closed

\* A state of the main loop that TypeOK allows together with the deliveries t.
LoopOK(st, t) ==
    /\ st \in ServiceState /\ t \in [Messages -> TaskPCs]
    /\ st.pc # "batch" => t = NoTasks
    /\ st.pc = "send" => st.todo # {}
    /\ st.pc = "mark" => st.photo \in st.todo

LEMMA LoopTypes ==
  TypeOK <=> /\ PhotoTypeOK /\ job \in [Photos -> JobStates] /\ messages \subseteq Messages
             /\ service \in [Services -> ServiceState]
             /\ task \in [Services -> [Messages -> TaskPCs]]
             /\ \A s \in Services : LoopOK(service[s], task[s])
  BY DEF TypeOK, LoopOK, JobStates

LEMMA RestOK ==
  /\ \A pc \in {"receive", "publish", "down"} : LoopOK([Receiving EXCEPT !.pc = pc], NoTasks)
  /\ LoopOK(Receiving, NoTasks)
  BY DEF LoopOK, Receiving, NoTasks, ServiceState, TaskPCs

\* What a step of the main loop of s does to the service, its deliveries, jobs and SQS.
LoopEffect(s) ==
    /\ UNCHANGED photoVars
    /\ \E st, t : /\ LoopOK(st, t)
                  /\ service' = [service EXCEPT ![s] = st] /\ task' = [task EXCEPT ![s] = t]
                  /\ \A m \in Messages : \/ t[m] \in {task[s][m], "none"}
                                         \/ t[m] = "load" /\ m \in messages
                  /\ \A p \in st.todo : p \in service[s].todo \/ job[p] = "pending"
                  /\ st.pc = "mark" => \E m \in messages' : PhotoOf(m) = st.photo
    /\ messages \subseteq messages' /\ messages' \subseteq Messages
    /\ \A m \in messages' \ messages : PhotoOf(m) \in service[s].todo
    /\ \/ job' = job
       \/ /\ service[s].pc = "mark" /\ job[service[s].photo] = "pending"
          /\ job' = [job EXCEPT ![service[s].photo] = "published"]

LEMMA LoopMeans ==
  ASSUME TypeOK, NEW s \in Services, LoopStep(s)
  PROVE  LoopEffect(s)
<1>0. /\ LoopOK(service[s], task[s]) /\ messages \subseteq Messages
      /\ job \in [Photos -> JobStates] /\ service[s] \in ServiceState
      /\ service[s].todo \subseteq Photos
      /\ service \in [Services -> ServiceState] /\ task \in [Services -> [Messages -> TaskPCs]]
      /\ NoTasks \in [Messages -> TaskPCs] /\ \A m \in Messages : NoTasks[m] = "none"
  BY LoopTypes DEF ServiceState, NoTasks, TaskPCs
<1>1. CASE Start(s) \/ Crash(s)
  <2>1. /\ UNCHANGED <<photoVars, job, messages>>
        /\ \E pc \in {"receive", "down"} :
              service' = [service EXCEPT ![s] = [Receiving EXCEPT !.pc = pc]]
        /\ task' = [task EXCEPT ![s] = NoTasks]
    BY <1>0, <1>1 DEF Start, Crash, Set, Receiving, LoopOK
  <2>2. PICK pc \in {"receive", "down"} :
              service' = [service EXCEPT ![s] = [Receiving EXCEPT !.pc = pc]]
    BY <2>1
  <2> DEFINE st == [Receiving EXCEPT !.pc = pc]
  <2>3. LoopOK(st, NoTasks) /\ st.todo = {} /\ st.pc # "mark"
    BY RestOK DEF Receiving
  <2>4. service' = [service EXCEPT ![s] = st]
    BY <2>2
  <2> HIDE DEF st
  <2> QED BY <1>0, <2>1, <2>3, <2>4 DEF LoopEffect
<1>2. CASE Receive(s)
  <2>1. PICK batch \in SUBSET Receivable :
          /\ task' = [task EXCEPT ![s] = [m \in Messages |->
                                             IF m \in batch THEN "load" ELSE "none"]]
          /\ Set(s, [Receiving EXCEPT !.pc = IF batch = {} THEN "publish" ELSE "batch"])
    BY <1>2 DEF Receive
  <2> DEFINE t == [m \in Messages |-> IF m \in batch THEN "load" ELSE "none"]
             st == [Receiving EXCEPT !.pc = IF batch = {} THEN "publish" ELSE "batch"]
  <2>2. batch \subseteq messages
    BY DEF Receivable
  <2>3. LoopOK(st, t)
    BY <2>1 DEF LoopOK, Receiving, NoTasks, ServiceState, TaskPCs
  <2>4. /\ \A m \in Messages : t[m] = "none" \/ (t[m] = "load" /\ m \in messages)
        /\ st.todo = {} /\ st.pc # "mark"
    BY <2>2 DEF Receiving
  <2>5. UNCHANGED <<photoVars, job, messages>>
    BY <1>2 DEF Receive
  <2>6. service' = [service EXCEPT ![s] = st] /\ task' = [task EXCEPT ![s] = t]
    BY <2>1 DEF Set
  <2> HIDE DEF st, t
  <2> QED BY <1>0, <2>3, <2>4, <2>5, <2>6 DEF LoopEffect
<1>3. CASE EndBatch(s) \/ ListFails(s)
  <2>1. /\ UNCHANGED <<photoVars, job, messages, task>> /\ task[s] = NoTasks
        /\ \E pc \in {"receive", "publish"} :
              service' = [service EXCEPT ![s] = [Receiving EXCEPT !.pc = pc]]
    BY <1>0, <1>3 DEF EndBatch, ListFails, Set, Receiving, LoopOK
  <2>2. PICK pc \in {"receive", "publish"} :
              service' = [service EXCEPT ![s] = [Receiving EXCEPT !.pc = pc]]
    BY <2>1
  <2> DEFINE st == [Receiving EXCEPT !.pc = pc]
  <2>3. LoopOK(st, NoTasks) /\ st.todo = {} /\ st.pc # "mark"
    BY RestOK DEF Receiving
  <2>4. service' = [service EXCEPT ![s] = st] /\ task' = [task EXCEPT ![s] = NoTasks]
    BY <1>0, <2>1, <2>2
  <2> HIDE DEF st
  <2> QED BY <1>0, <2>1, <2>3, <2>4 DEF LoopEffect
<1>4. CASE ListPending(s)
  <2> DEFINE pending == {p \in Photos : job[p] = "pending"}
             st == IF pending = {} THEN Receiving
                   ELSE [service[s] EXCEPT !.pc = "send", !.todo = pending]
  <2>1. /\ UNCHANGED <<photoVars, job, messages, task>> /\ task[s] = NoTasks
        /\ service' = [service EXCEPT ![s] = st]
    BY <1>0, <1>4 DEF ListPending, Set, LoopOK
  <2>2. LoopOK(st, NoTasks) /\ st.todo \subseteq pending /\ st.pc # "mark"
    BY <1>0, RestOK DEF LoopOK, ServiceState, Receiving
  <2> QED BY <1>0, <2>1, <2>2 DEF LoopEffect
<1>5. ASSUME NEW p \in Photos, Send(s, p) PROVE LoopEffect(s)
  <2> DEFINE st == [service[s] EXCEPT !.pc = "mark", !.photo = p]
  <2>1. /\ UNCHANGED <<photoVars, job, task>> /\ task[s] = NoTasks
        /\ service' = [service EXCEPT ![s] = st]
        /\ p \in service[s].todo
    BY <1>0, <1>5 DEF Send, Set, LoopOK
  <2>2. PICK m \in Messages : PhotoOf(m) = p /\ messages' = messages \cup {m}
    BY <1>5, SentMeans DEF Send
  <2>3. LoopOK(st, NoTasks) /\ st.todo = service[s].todo /\ st.photo = p
    BY <1>0, <2>1 DEF LoopOK, ServiceState
  <2> QED BY <1>0, <2>1, <2>2, <2>3 DEF LoopEffect
<1>6. ASSUME NEW p \in Photos, SendFails(s, p) PROVE LoopEffect(s)
  <2> DEFINE rest == service[s].todo \ {p}
             st == IF rest = {} THEN Receiving ELSE [service[s] EXCEPT !.todo = rest]
  <2>1. /\ UNCHANGED <<photoVars, job, task>> /\ task[s] = NoTasks
        /\ service' = [service EXCEPT ![s] = st]
        /\ p \in service[s].todo /\ service[s].pc = "send"
    BY <1>0, <1>6 DEF SendFails, Set, LoopOK
  <2>2. /\ messages \subseteq messages' /\ messages' \subseteq Messages
        /\ \A m \in messages' \ messages : PhotoOf(m) = p
    <3>1. CASE UNCHANGED messages
      BY <1>0, <3>1
    <3>2. CASE Free(p) # {} /\ messages' = Sent(p)
      BY <1>0, <3>2, SentMeans
    <3> QED BY <1>6, <3>1, <3>2 DEF SendFails
  <2>3. LoopOK(st, NoTasks) /\ st.todo \subseteq service[s].todo /\ st.pc # "mark"
    BY <1>0, <2>1, RestOK DEF LoopOK, ServiceState, Receiving
  <2> QED BY <1>0, <2>1, <2>2, <2>3 DEF LoopEffect
<1>7. CASE MarkPublished(s) \/ MarkPublishedFails(s)
  <2> DEFINE st == NextJob(s)
  <2>1. /\ UNCHANGED <<photoVars, messages, task>> /\ task[s] = NoTasks
        /\ service' = [service EXCEPT ![s] = st]
        /\ service[s].pc = "mark" /\ service[s].photo \in Photos
    BY <1>0, <1>7 DEF MarkPublished, MarkPublishedFails, Set, LoopOK
  <2>2. LoopOK(st, NoTasks) /\ st.todo \subseteq service[s].todo /\ st.pc # "mark"
    BY <1>0, <2>1, RestOK DEF LoopOK, ServiceState, Receiving, NextJob
  <2>3. \/ job' = job
        \/ /\ job[service[s].photo] = "pending"
           /\ job' = [job EXCEPT ![service[s].photo] = "published"]
    BY <1>0, <1>7, <2>1 DEF MarkPublished, MarkPublishedFails, WriteJob, WriteJobFails, PublishedJob
  <2> QED BY <1>0, <2>1, <2>2, <2>3 DEF LoopEffect
<1> QED BY <1>1, <1>2, <1>3, <1>4, <1>5, <1>6, <1>7 DEF LoopStep, Loop

LEMMA NextCases ==
  ASSUME [Next]_vars
  PROVE  \/ \E p \in Photos : CreatePhotoJob(p)
         \/ \E s \in Services, m \in Messages : Process(s, m) \/ ProcessFails(s, m)
         \/ \E s \in Services : LoopStep(s)
         \/ \E d \in Deletes : Delete(d) /\ UNCHANGED <<job, messages, service, task>>
         \/ UNCHANGED vars
  BY Zenon DEF Next, Failure, LoopStep

-----------------------------------------------------------------------------
(* The invariants, one kind of step after the other.                       *)

\* The invariants that speak of no step under way.
StoreInv == TypeOK /\ RequestInv /\ RowInv /\ HolderInv /\ SafeInv

\* Deliveries and services that do not move keep what they rely on.
LEMMA TaskKept ==
  ASSUME Inv, Progress, NEW s \in Services, NEW m \in Messages,
         task'[s][m] \in {task[s][m], "none", "load"}
  PROVE  TaskSafe(s, m)'
<1>1. PhotoOf(m) \in Photos /\ TaskSafe(s, m)
  BY MessagePhotos DEF Inv, TaskInv
<1> DEFINE p == PhotoOf(m)
<1>2. At(s, m, "complete")' => (p \in object \/ row[p].deleted)
  BY <1>1 DEF TaskSafe, At
<1>3. At(s, m, "fail")' => (p \in object \/ row[p].deleted \/ Fails("disk"))
  BY <1>1 DEF TaskSafe, At
<1>4. task'[s][m] \in {"settle", "close", "clean", "reject", "ack"} => Ended(p)
  BY <1>1 DEF TaskSafe
<1> QED BY <1>1, <1>2, <1>3, <1>4 DEF Progress, TaskSafe, At, Fails

LEMMA MarkKept ==
  ASSUME Inv, Progress, NEW s \in Services,
         service'[s].pc = "mark" =>
             service[s].pc = "mark" /\ service'[s].photo = service[s].photo
  PROVE  MarkSafe(s)'
<1> SUFFICES ASSUME service'[s].pc = "mark" PROVE MarkSafe(s)'
  BY DEF MarkSafe
<1> DEFINE p == service[s].photo
<1>1. service[s].pc = "mark" /\ service'[s].photo = p
  OBVIOUS
<1>2. p \in Photos /\ MarkSafe(s)
  BY <1>1 DEF Inv, TypeOK, ServiceState, MarkInv
<1>3. Ended(p) => Ended(p)'
  BY <1>2 DEF Progress
<1>4. HasMessage(p) => Ended(p) \/ HasMessage(p)'
  BY <1>2 DEF Progress, HasMessage
<1> QED BY <1>1, <1>2, <1>3, <1>4 DEF MarkSafe, HasMessage, Ended

LEMMA CreateKeeps ==
  ASSUME Inv, NEW p \in Photos, CreatePhotoJob(p)
  PROVE  Progress /\ StoreInv'
<1>0. /\ TypeOK /\ RequestInv /\ RowInv /\ HolderInv /\ SafeInv
      /\ row \in [Photos -> Row] /\ upload \in [Photos -> UploadPCs] /\ temp \subseteq Photos
      /\ job \in [Photos -> {"none", "pending", "published"} \cup Closed]
  BY DEF Inv, TypeOK, PhotoTypeOK
<1>1. /\ UNCHANGED <<faults, object, request, gone, messages, service, task>>
      /\ upload[p] = "new" /\ row[p] = NoRow
      /\ upload' \in [Photos -> UploadPCs] /\ upload'[p] = "accepted"
      /\ row' \in [Photos -> Row] /\ row'[p] = InsertedRow
      /\ job' \in [Photos -> {"none", "pending", "published"} \cup Closed]
      /\ job'[p] = "pending" /\ temp' = temp \cup {p}
      /\ \A q \in Photos \ {p} : /\ upload'[q] = upload[q] /\ row'[q] = row[q]
                                 /\ job'[q] = job[q]
  BY <1>0, RowTypes DEF CreatePhotoJob, WriteJob, Write, UploadPCs, RowInv
<1>2. Progress
  BY <1>0, <1>1 DEF Progress, Accepted, Ended, NoRow
<1>3. TypeOK'
  BY <1>0, <1>1 DEF TypeOK, PhotoTypeOK
<1>4. RequestInv'
  BY <1>0, <1>1 DEF RequestInv
<1>5. RowInv'
  BY <1>0, <1>1 DEF RowInv, Accepted, InsertedRow
<1>6. HolderInv'
  <2>1. \A m \in Messages : PhotoOf(m) \in Photos
    BY MessagePhotos
  <2>2. messages \subseteq Messages /\ \A s \in Services : service[s].todo \subseteq Photos
    BY <1>0 DEF TypeOK, ServiceState
  <2>3. \A q \in Photos : Accepted(q) => Accepted(q)'
    BY <1>2 DEF Progress
  <2> QED BY <1>0, <1>1, <2>1, <2>2, <2>3 DEF HolderInv
<1>7. SafeInv'
  <2>1. PhotoSafe(p)'
    BY <1>1 DEF PhotoSafe, Closed, InsertedRow
  <2>2. ASSUME NEW q \in Photos \ {p} PROVE PhotoSafe(q)'
    <3>1. PhotoSafe(q)
      BY <1>0 DEF SafeInv
    <3> QED BY <1>1, <3>1 DEF PhotoSafe, Accepted, Ended, HasMessage, Fails
  <2> QED BY <2>1, <2>2 DEF SafeInv
<1> QED BY <1>2, <1>3, <1>4, <1>5, <1>6, <1>7 DEF StoreInv

LEMMA DeliveryKeeps ==
  ASSUME Inv, NEW s \in Services, NEW m \in Messages, Effect(m), Delivery(s, m)
  PROVE  Progress /\ StoreInv'
<1> DEFINE p == PhotoOf(m)
<1>0. /\ TypeOK /\ RequestInv /\ RowInv /\ HolderInv /\ SafeInv
      /\ p \in Photos /\ Accepted(p) /\ messages \subseteq Messages
      /\ row \in [Photos -> Row] /\ temp \subseteq Photos /\ object \subseteq Photos
      /\ job \in [Photos -> {"none", "pending", "published"} \cup Closed]
  BY MessagePhotos DEF Inv, TypeOK, PhotoTypeOK, HolderInv, Delivery
<1>1. /\ UNCHANGED <<faults, upload, request, gone>>
      /\ row' \in [Photos -> Row]
      /\ temp' \subseteq temp /\ object \subseteq object' /\ object' \subseteq Photos
      /\ job' \in [Photos -> {"none", "pending", "published"} \cup Closed]
      /\ messages' \subseteq messages
      /\ \A q \in Photos \ {p} : row'[q] = row[q] /\ job'[q] = job[q]
      /\ \A q \in temp \ temp' : q = p /\ Ended(p)
      /\ job'[p] = job[p] \/ (job'[p] \in Closed /\ Ended(p))
      /\ \A n \in messages \ messages' : n = m /\ Ended(p)
  BY <1>0 DEF Effect
<1>2. \/ row'[p] = row[p]
      \/ /\ Visible(row[p]) /\ row'[p].status \in {"completed", "failed"}
         /\ ~row'[p].staged /\ ~row'[p].deleted
         /\ row'[p].status = "completed" => p \in object
         /\ row'[p].status = "failed" => p \in object \/ Fails("disk")
  BY <1>0, RowsEnd DEF Effect
<1>3. Progress
  <2>1. ASSUME NEW q \in Photos
        PROVE  /\ Accepted(q) => Accepted(q)'
               /\ Ended(q) => Ended(q)'
               /\ row[q].deleted => row'[q].deleted
               /\ q \in object => q \in object' \/ row[q].deleted
               /\ q \in temp => q \in temp' \/ Ended(q)
    BY <1>0, <1>1, <1>2 DEF Accepted, Ended, Visible
  <2> QED BY <1>1, <2>1 DEF Progress
<1>4. TypeOK'
  <2>1. /\ task' \in [Services -> [Messages -> TaskPCs]]
        /\ \A r \in Services \ {s} : task'[r] = task[r] /\ service'[r] = service[r]
        /\ service[s].pc = "batch"
        /\ service' \in [Services -> ServiceState] /\ service'[s].pc = "batch"
    <3>2. /\ \A r \in Services \ {s} : service'[r] = service[r]
          /\ service' \in [Services -> ServiceState] /\ service'[s].pc = service[s].pc
      <4> DEFINE st == [service[s] EXCEPT !.bad = TRUE]
      <4>1. service \in [Services -> ServiceState]
        BY <1>0 DEF TypeOK
      <4>2. st \in ServiceState /\ st.pc = service[s].pc
        BY <4>1 DEF ServiceState
      <4>3. service' \in {service, [service EXCEPT ![s] = st]}
        BY DEF Delivery
      <4> HIDE DEF st
      <4> QED BY <4>1, <4>2, <4>3
    <3>1. ASSUME NEW r \in Services \ {s} PROVE task'[r] = task[r]
      <4>1. task' \in [Services -> [Messages -> TaskPCs]] /\ \A n \in Messages : task'[r][n] = task[r][n]
        BY <3>1 DEF Delivery
      <4>2. task[r] \in [Messages -> TaskPCs] /\ task'[r] \in [Messages -> TaskPCs]
        BY <1>0, <4>1 DEF TypeOK
      <4> QED BY <4>1, <4>2
    <3> QED BY <3>1, <3>2 DEF Delivery
  <2>2. PhotoTypeOK' /\ messages' \subseteq Messages
    BY <1>0, <1>1 DEF TypeOK, PhotoTypeOK
  <2> QED BY <1>0, <1>1, <2>1, <2>2 DEF TypeOK, NoTasks
<1>5. RequestInv'
  BY <1>0, <1>1, <1>3 DEF RequestInv, Progress
<1>6. RowInv'
  <2>1. row[p].status # "none" /\ job[p] # "none" /\ upload[p] = "accepted"
    BY <1>0 DEF RowInv, Accepted
  <2> QED BY <1>0, <1>1, <1>2, <2>1 DEF RowInv, Accepted, Closed
<1>7. HolderInv'
  <2>1. \A r \in Services, n \in Messages : task'[r][n] # "none" => Accepted(PhotoOf(n))
    BY <1>0 DEF Delivery, HolderInv
  <2>2. \A r \in Services : service'[r].todo = service[r].todo
    <3> DEFINE st == [service[s] EXCEPT !.bad = TRUE]
    <3>1. service \in [Services -> ServiceState]
      BY <1>0 DEF TypeOK
    <3>2. st.todo = service[s].todo
      BY <3>1 DEF ServiceState
    <3>3. service' = service \/ service' = [service EXCEPT ![s] = st]
      BY <1>0 DEF Delivery
    <3> HIDE DEF st
    <3> QED BY <3>1, <3>2, <3>3
  <2> QED BY <1>0, <1>1, <2>1, <2>2 DEF HolderInv, Accepted
<1>8. SafeInv'
  <2> SUFFICES ASSUME NEW q \in Photos, Accepted(q) PROVE PhotoSafe(q)'
    BY <1>1 DEF SafeInv, PhotoSafe, Accepted
  <2>1. PhotoSafe(q)
    BY <1>0 DEF SafeInv
  <2>2. job'[q] \in Closed => Ended(q)'
    <3>1. job'[q] = job[q] \/ Ended(q)
      BY <1>1
    <3> QED BY <1>3, <2>1, <3>1 DEF PhotoSafe, Progress
  <2>3. Ended(q)' \/ (q \in temp' /\ (job'[q] = "pending" \/ HasMessage(q)'))
    <3> SUFFICES ASSUME ~Ended(q)' PROVE q \in temp' /\ (job'[q] = "pending" \/ HasMessage(q)')
      OBVIOUS
    <3>1. ~Ended(q)
      BY <1>3 DEF Progress
    <3>2. q \in temp /\ (job[q] = "pending" \/ HasMessage(q))
      BY <2>1, <3>1 DEF PhotoSafe
    <3>3. job'[q] = job[q]
      BY <1>1, <3>1
    <3>4. HasMessage(q) => HasMessage(q)'
      BY <1>1, <3>1 DEF HasMessage
    <3> QED BY <1>1, <3>1, <3>2, <3>3, <3>4
  <2>4. row'[q].status = "completed" /\ ~row'[q].deleted => q \in object'
    BY <1>1, <1>2, <2>1 DEF PhotoSafe
  <2>5. row'[q].status = "failed" /\ ~row'[q].deleted => Fails("disk")' \/ q \in object'
    BY <1>1, <1>2, <2>1 DEF PhotoSafe, Fails
  <2> QED BY <2>2, <2>3, <2>4, <2>5 DEF PhotoSafe
<1> QED BY <1>3, <1>4, <1>5, <1>6, <1>7, <1>8 DEF StoreInv

LEMMA LoopKeeps ==
  ASSUME Inv, NEW s \in Services, LoopEffect(s)
  PROVE  /\ Progress /\ StoreInv'
         /\ \A r \in Services, m \in Messages : task'[r][m] \in {task[r][m], "none", "load"}
         /\ \A r \in Services : service'[r].pc = "mark" =>
               \/ service[r].pc = "mark" /\ service'[r].photo = service[r].photo
               \/ HasMessage(service[r].photo)'
<1>0. /\ TypeOK /\ RequestInv /\ RowInv /\ HolderInv /\ SafeInv /\ messages \subseteq Messages
      /\ service \in [Services -> ServiceState] /\ task \in [Services -> [Messages -> TaskPCs]]
      /\ job \in [Photos -> JobStates]
  BY LoopTypes DEF Inv
<1>1. PICK st, t :
          /\ LoopOK(st, t)
          /\ service' = [service EXCEPT ![s] = st] /\ task' = [task EXCEPT ![s] = t]
          /\ \A m \in Messages : \/ t[m] \in {task[s][m], "none"}
                                 \/ t[m] = "load" /\ m \in messages
          /\ \A p \in st.todo : p \in service[s].todo \/ job[p] = "pending"
          /\ st.pc = "mark" => \E m \in messages' : PhotoOf(m) = st.photo
  BY DEF LoopEffect
<1>2. /\ service' \in [Services -> ServiceState] /\ task' \in [Services -> [Messages -> TaskPCs]]
      /\ service'[s] = st /\ task'[s] = t
      /\ \A r \in Services \ {s} : service'[r] = service[r] /\ task'[r] = task[r]
      /\ st \in ServiceState
  BY <1>0, <1>1 DEF LoopOK
<1>3. /\ UNCHANGED photoVars
      /\ messages \subseteq messages' /\ messages' \subseteq Messages
      /\ \A m \in messages' \ messages : PhotoOf(m) \in service[s].todo
      /\ job' \in [Photos -> JobStates]
      /\ \A p \in Photos : job'[p] = job[p] \/ (job[p] = "pending" /\ job'[p] = "published")
  BY <1>0 DEF LoopEffect, JobStates
<1>4. job' # job => service[s].pc = "mark"
                    /\ \A p \in Photos : job'[p] # job[p] => p = service[s].photo
  BY <1>0 DEF LoopEffect
<1>5. Progress
  BY <1>3 DEF Progress, photoVars, Accepted, Ended
<1>6. TypeOK'
  <2>1. \A r \in Services : LoopOK(service'[r], task'[r])
    BY <1>0, <1>1, <1>2, LoopTypes
  <2>2. PhotoTypeOK'
    BY <1>0, <1>3 DEF TypeOK, PhotoTypeOK, photoVars
  <2> QED BY <1>2, <1>3, <2>1, <2>2 DEF TypeOK, LoopOK, JobStates
<1>7. RequestInv'
  BY <1>0, <1>3 DEF RequestInv, photoVars
<1>8. RowInv'
  BY <1>0, <1>3 DEF RowInv, Accepted, photoVars
<1>9. HolderInv'
  <2>1. \A p \in service[s].todo : Accepted(p)
    BY <1>0 DEF HolderInv
  <2>2. \A p \in st.todo : Accepted(p)
    <3> SUFFICES ASSUME NEW p \in st.todo PROVE Accepted(p)
      OBVIOUS
    <3>1. CASE job[p] = "pending"
      BY <1>0, <1>2, <3>1 DEF RowInv, ServiceState, Accepted
    <3> QED BY <1>1, <2>1, <3>1
  <2>3. \A m \in messages' : Accepted(PhotoOf(m))
    BY <1>0, <1>3, <2>1 DEF HolderInv
  <2>4. \A m \in Messages : t[m] # "none" => Accepted(PhotoOf(m))
    BY <1>0, <1>1 DEF HolderInv
  <2>5. \A p : Accepted(p)' <=> Accepted(p)
    BY <1>3 DEF Accepted, photoVars
  <2> QED BY <1>0, <1>2, <2>2, <2>3, <2>4, <2>5 DEF HolderInv
<1>10. SafeInv'
  <2> SUFFICES ASSUME NEW p \in Photos PROVE PhotoSafe(p)'
    BY DEF SafeInv
  <2>1. PhotoSafe(p)
    BY <1>0 DEF SafeInv
  <2>2. HasMessage(p) => HasMessage(p)'
    BY <1>3 DEF HasMessage
  <2>3. job'[p] # job[p] => Ended(p) \/ HasMessage(p)
    <3> SUFFICES ASSUME job'[p] # job[p] PROVE Ended(p) \/ HasMessage(p)
      OBVIOUS
    <3>1. p = service[s].photo /\ service[s].pc = "mark"
      BY <1>4
    <3> QED BY <3>1 DEF Inv, MarkInv, MarkSafe
  <2>4. job'[p] \in Closed => job[p] \in Closed
    BY <1>3 DEF Closed
  <2>5. UNCHANGED <<upload, row, temp, object, faults>>
    BY <1>3 DEF photoVars
  <2> QED BY <2>1, <2>2, <2>3, <2>4, <2>5 DEF PhotoSafe, Accepted, Ended, Fails
<1>11. \A r \in Services, m \in Messages : task'[r][m] \in {task[r][m], "none", "load"}
  BY <1>1, <1>2
<1>12. \A r \in Services : service'[r].pc = "mark" =>
               \/ service[r].pc = "mark" /\ service'[r].photo = service[r].photo
               \/ HasMessage(service[r].photo)'
  BY <1>1, <1>2 DEF HasMessage
<1> QED BY <1>5, <1>6, <1>7, <1>8, <1>9, <1>10, <1>11, <1>12 DEF StoreInv

LEMMA DeleteKeeps ==
  ASSUME Inv, NEW d \in Deletes, Delete(d), UNCHANGED <<job, messages, service, task>>
  PROVE  Progress /\ StoreInv'
<1>0. /\ TypeOK /\ PhotoTypeOK /\ RequestInv /\ RowInv /\ HolderInv /\ SafeInv
      /\ row \in [Photos -> Row]
  BY DEF Inv, TypeOK, PhotoTypeOK
<1>1. KnownInv
  BY <1>0 DEF KnownInv, Known, RowInv, Accepted
<1>2. /\ UNCHANGED <<faults, upload>>
      /\ PhotoTypeOK' /\ RequestInv'
      /\ \A q \in Photos : row'[q] = row[q] \/ (Known(q) /\ row'[q] = DeletedRow(row[q]))
      /\ temp' \subseteq temp /\ object' \subseteq object
      /\ \A q \in Photos : q \in (temp \ temp') \cup (object \ object') => row[q].deleted
  BY <1>0, <1>1, DeleteMeans
<1>3. \A q \in Photos : /\ row'[q].status = row[q].status /\ row'[q].staged = row[q].staged
                        /\ row[q].deleted => row'[q].deleted
                        /\ Known(q) \/ row'[q] = row[q]
  <2> SUFFICES ASSUME NEW q \in Photos
               PROVE  /\ row'[q].status = row[q].status /\ row'[q].staged = row[q].staged
                      /\ row[q].deleted => row'[q].deleted
                      /\ Known(q) \/ row'[q] = row[q]
    OBVIOUS
  <2>1. row[q] \in Row
    BY <1>0
  <2> QED BY <1>2, <2>1, RowsStay
<1>4. object \subseteq Photos /\ temp \subseteq Photos
  BY <1>0 DEF PhotoTypeOK
<1>5. Progress
  BY <1>2, <1>3, <1>4 DEF Progress, Accepted, Ended
<1>6. TypeOK'
  BY <1>0, <1>2 DEF TypeOK
<1>7. RowInv'
  BY <1>0, <1>2, <1>3 DEF RowInv, Accepted, Known
<1>8. HolderInv'
  BY <1>0, <1>2 DEF HolderInv, Accepted
<1>9. SafeInv'
  <2> SUFFICES ASSUME NEW p \in Photos PROVE PhotoSafe(p)'
    BY DEF SafeInv
  <2>1. PhotoSafe(p)
    BY <1>0 DEF SafeInv
  <2>2. Ended(p) => Ended(p)'
    BY <1>5 DEF Progress
  <2>3. (p \in temp => p \in temp' \/ Ended(p)) /\ (p \in object => p \in object' \/ row'[p].deleted)
    BY <1>3, <1>5 DEF Progress
  <2>4. /\ (Accepted(p)' <=> Accepted(p)) /\ (HasMessage(p)' <=> HasMessage(p))
        /\ (Fails("disk")' <=> Fails("disk"))
    BY <1>2 DEF Accepted, HasMessage, Fails
  <2> QED BY <1>3, <2>1, <2>2, <2>3, <2>4 DEF PhotoSafe
<1> QED BY <1>2, <1>5, <1>6, <1>7, <1>8, <1>9 DEF StoreInv

-----------------------------------------------------------------------------
(* The theorems.                                                           *)

LEMMA InitInv == Init => Inv
<1> SUFFICES ASSUME Init PROVE Inv
  OBVIOUS
<1>1. \A s \in Services : service[s] = Receiving /\ task[s] = NoTasks
  BY DEF Init
<1>2. PhotoTypeOK /\ RequestInv
  BY RowTypes DEF Init, PhotoInit, PhotoTypeOK, UploadPCs, Idle, DeletePCs, RequestInv
<1>3. TypeOK
  BY <1>1, <1>2 DEF Init, TypeOK, Receiving, NoTasks, ServiceState, TaskPCs
<1>4. \A p \in Photos : upload[p] = "new" /\ row[p] = NoRow /\ job[p] = "none"
  BY DEF Init, PhotoInit
<1>5. RowInv /\ SafeInv
  BY <1>4 DEF RowInv, SafeInv, PhotoSafe, Accepted, NoRow
<1>6. messages = {} /\ \A s \in Services, m \in Messages : task[s][m] = "none"
  BY <1>1 DEF Init, NoTasks
<1>7. \A s \in Services : service[s].todo = {} /\ service[s].pc = "receive"
  BY <1>1 DEF Receiving
<1>8. HolderInv /\ TaskInv /\ MarkInv
  BY <1>6, <1>7 DEF HolderInv, TaskInv, TaskSafe, At, MarkInv, MarkSafe
<1> QED BY <1>2, <1>3, <1>5, <1>8 DEF Inv

LEMMA NextInv ==
  ASSUME Inv, [Next]_vars
  PROVE  Inv'
<1> USE DEF StoreInv, TaskInv, MarkInv
<1>1. ASSUME NEW p \in Photos, CreatePhotoJob(p) PROVE Inv'
  <2>1. Progress /\ StoreInv'
    BY <1>1, CreateKeeps
  <2>2. UNCHANGED <<task, service>>
    BY <1>1 DEF CreatePhotoJob
  <2>3. TaskInv'
    BY <2>1, <2>2, TaskKept
  <2>4. MarkInv'
    BY <2>1, <2>2, MarkKept
  <2> QED BY <2>1, <2>3, <2>4 DEF Inv
<1>2. ASSUME NEW s \in Services, NEW m \in Messages, Process(s, m) \/ ProcessFails(s, m)
      PROVE  Inv'
  <2>1. Effect(m) /\ Delivery(s, m) /\ TaskSafe(s, m)'
    BY <1>2, StepMeans
  <2>2. Progress /\ StoreInv'
    BY <2>1, DeliveryKeeps
  <2>3. ASSUME NEW r \in Services, NEW n \in Messages PROVE TaskSafe(r, n)'
    <3>1. CASE r = s /\ n = m
      BY <2>1, <3>1
    <3>2. CASE r # s \/ n # m
      BY <2>1, <2>2, <3>2, TaskKept DEF Delivery
    <3> QED BY <3>1, <3>2
  <2>4. ASSUME NEW r \in Services PROVE MarkSafe(r)'
    <3>1. service'[r].pc = service[r].pc /\ service'[r].photo = service[r].photo
      BY <2>1 DEF Delivery, Inv, TypeOK, ServiceState
    <3> QED BY <2>2, <3>1, MarkKept
  <2> QED BY <2>2, <2>3, <2>4 DEF Inv
<1>3. ASSUME NEW s \in Services, LoopStep(s) PROVE Inv'
  <2>1. LoopEffect(s)
    BY <1>3, LoopMeans DEF Inv
  <2>2. /\ Progress /\ StoreInv'
        /\ \A r \in Services, m \in Messages : task'[r][m] \in {task[r][m], "none", "load"}
        /\ \A r \in Services : service'[r].pc = "mark" =>
               \/ service[r].pc = "mark" /\ service'[r].photo = service[r].photo
               \/ HasMessage(service[r].photo)'
    BY <2>1, LoopKeeps
  <2>3. TaskInv'
    BY <2>2, TaskKept
  <2>4. ASSUME NEW r \in Services PROVE MarkSafe(r)'
    <3>1. CASE HasMessage(service[r].photo)'
      BY <3>1 DEF MarkSafe, HasMessage
    <3>2. CASE ~HasMessage(service[r].photo)'
      BY <2>2, <3>2, MarkKept
    <3> QED BY <3>1, <3>2
  <2> QED BY <2>2, <2>3, <2>4 DEF Inv
<1>4. ASSUME NEW d \in Deletes, Delete(d), UNCHANGED <<job, messages, service, task>> PROVE Inv'
  <2>1. Progress /\ StoreInv'
    BY <1>4, DeleteKeeps
  <2>2. TaskInv'
    BY <1>4, <2>1, TaskKept
  <2>3. MarkInv'
    BY <1>4, <2>1, MarkKept
  <2> QED BY <2>1, <2>2, <2>3 DEF Inv
<1>5. CASE UNCHANGED vars
  BY <1>5 DEF vars, photoVars, Inv, TypeOK, PhotoTypeOK, RequestInv, RowInv, HolderInv, SafeInv,
              PhotoSafe, TaskSafe, MarkSafe, At, Ended, Accepted, HasMessage, Fails
<1> QED BY <1>1, <1>2, <1>3, <1>4, <1>5, NextCases

LEMMA Invariance == Spec => []Inv
  BY InitInv, NextInv, PTL DEF Spec

\* The types of all variables, for every number of photos, services and messages: a service
\* that sends has jobs left to send and one that marks has the job it has sent.
THEOREM OutboxTypeCorrect == Spec => []TypeOK
  BY Invariance, PTL DEF Inv

\* An accepted photo that is processing has its file and a pending job or a message, whatever
\* is published, delivered or acknowledged twice; one that is completed is in S3, and so is
\* one that failed without an error of the disk (PublishPendingJobs, processMessage).
THEOREM OutboxPhotosAreSafe == Spec => []AcceptedIsSafe
<1>1. ASSUME Inv, NEW p \in Photos, Accepted(p), ~row[p].deleted
      PROVE  CASE row[p].status = "processing" ->
                     /\ Recoverable(row[p]) /\ p \in temp
                     /\ job[p] = "pending" \/ \E m \in messages : PhotoOf(m) = p
                     /\ job[p] \notin Closed
               [] row[p].status = "completed" -> p \in object
               [] row[p].status = "failed" -> Fails("disk") \/ p \in object
  <2>1. /\ row[p] \in Row /\ row[p].status # "none" /\ PhotoSafe(p)
        /\ row[p].staged <=> row[p].status = "processing"
    BY <1>1 DEF Inv, TypeOK, PhotoTypeOK, RowInv, SafeInv
  <2>2. CASE row[p].status = "processing"
    <3>1. ~Ended(p) /\ Recoverable(row[p])
      BY <1>1, <2>1, <2>2 DEF Ended, Recoverable, Visible
    <3>2. /\ p \in temp /\ job[p] \notin Closed
          /\ job[p] = "pending" \/ \E m \in messages : PhotoOf(m) = p
      BY <1>1, <2>1, <3>1 DEF PhotoSafe, HasMessage
    <3> QED BY <2>2, <3>1, <3>2
  <2>3. CASE row[p].status = "completed"
    BY <1>1, <2>1, <2>3 DEF PhotoSafe
  <2>4. CASE row[p].status = "failed"
    BY <1>1, <2>1, <2>4 DEF PhotoSafe
  <2> QED BY <2>1, <2>2, <2>3, <2>4 DEF Row, Statuses
<1>2. Inv => AcceptedIsSafe
  BY <1>1 DEF AcceptedIsSafe
<1> QED BY <1>2, Invariance, PTL

\* A job that a consumer has closed is not published by the service that sent its message
\* (MarkPhotoJobPublished).
THEOREM ClosedJobsStayClosed == Spec => ClosedStaysClosed
<1>1. ASSUME Inv, [Next]_vars, NEW p \in Photos, job[p] \in Closed
      PROVE  job'[p] \in Closed
  <2>0. /\ job \in [Photos -> {"none", "pending", "published"} \cup Closed]
        /\ RowInv
    BY <1>1 DEF Inv, TypeOK
  <2>1. ASSUME NEW q \in Photos, CreatePhotoJob(q) PROVE job'[p] = job[p]
    BY <1>1, <2>0, <2>1 DEF CreatePhotoJob, WriteJob, RowInv, Closed
  <2>2. ASSUME NEW s \in Services, NEW m \in Messages, Process(s, m) \/ ProcessFails(s, m)
        PROVE  job'[p] \in Closed
    <3>1. Effect(m)
      BY <1>1, <2>2, StepMeans
    <3> QED BY <1>1, <3>1 DEF Effect
  <2>3. ASSUME NEW s \in Services, LoopStep(s) PROVE job'[p] = job[p]
    <3>1. LoopEffect(s)
      BY <1>1, <2>3, LoopMeans DEF Inv
    <3>2. \/ job' = job
          \/ /\ job[service[s].photo] = "pending"
             /\ job' = [job EXCEPT ![service[s].photo] = "published"]
      BY <3>1 DEF LoopEffect
    <3> QED BY <1>1, <2>0, <3>2 DEF Closed
  <2>4. CASE \/ \E d \in Deletes : Delete(d) /\ UNCHANGED <<job, messages, service, task>>
             \/ UNCHANGED vars
    BY <1>1, <2>4 DEF vars
  <2> QED BY <1>1, <2>1, <2>2, <2>3, <2>4, NextCases
<1>2. Inv /\ [Next]_vars => [\A p \in Photos : job[p] \in Closed => job'[p] \in Closed]_job
  BY <1>1
<1> QED BY <1>2, Invariance, PTL DEF Spec, ClosedStaysClosed

=============================================================================
