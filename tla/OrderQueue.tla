----------------------------- MODULE OrderQueue -----------------------------
(***************************************************************************)
(* Asynchronous orders of the flash sale: POST /orders/async publishes an  *)
(* event, the workers of the processors claim an event, take the payment   *)
(* and acknowledge.  Events are files of a shared directory or messages of *)
(* SQS.  A file is claimed by renaming it, and whoever lists the directory *)
(* works on what it has listed while others rename; a message is hidden    *)
(* while a consumer has it, and comes back if the consumer goes away.      *)
(***************************************************************************)
EXTENDS Integers, FiniteSets

CONSTANTS
    Orders, Processors,
    WorkerCount,  \* PROCESSOR_WORKER_COUNT
    NoOrder,      \* the order of a worker that has none
    MaxPaid,      \* BOUND: payments of one order that are told apart
    Settings      \* the environments the system may be started in

\* publish: a publication fails, with or without effect, or the API stops during it
\* exit: a processor ends (a signal, a crash, the first error of one of its workers)
\* redeliver: SQS hands out a message that a consumer still holds
Setting == [backend : {"file", "aws"}, faults : SUBSET {"publish", "exit", "redeliver"}]

ASSUME OrderAssumption ==
    /\ WorkerCount \in Nat \ {0}
    /\ NoOrder \notin Orders
    /\ MaxPaid \in Nat /\ MaxPaid > 1
    /\ Settings \subseteq Setting

Workers   == Processors \X (1..WorkerCount)
ProcOf(w) == w[1]

VARIABLES
    setting,  \* the environment, which never changes
    order,    \* how far the POST request of each order is
    event,    \* where the event of each order is
    alive,    \* the processors that run
    worker,   \* what each worker is doing, with what it has listed and claimed
    paid      \* how many payments have been taken for each order

vars == <<setting, order, event, alive, worker, paid>>

Idle        == [pc |-> "idle", list |-> {}, order |-> NoOrder]
Claiming(l) == [pc |-> "claim", list |-> l, order |-> NoOrder]
Has(o, pc)  == [pc |-> pc, list |-> {}, order |-> o]

\* tmp: written under the temporary name; claimed: renamed to .processing.  A message
\* of SQS is waiting until it is deleted.
TypeOK ==
    /\ setting \in Settings
    /\ order \in [Orders -> {"new", "writing", "accepted", "refused"}]
    /\ event \in [Orders -> {"none", "tmp", "waiting", "claimed", "removed"}]
    /\ alive \subseteq Processors
    /\ worker \in [Workers -> [pc : {"idle", "claim", "read", "verify", "ack"},
                               list : SUBSET Orders, order : Orders \cup {NoOrder}]]
    /\ paid \in [Orders -> 0..MaxPaid]
    /\ \A w \in Workers :
          /\ worker[w].pc = "claim" <=> worker[w].list # {}
          /\ worker[w].pc \in {"idle", "claim"} <=> worker[w].order = NoOrder
          /\ ProcOf(w) \notin alive => worker[w] = Idle

Init ==
    /\ setting \in Settings
    /\ order = [o \in Orders |-> "new"]
    /\ event = [o \in Orders |-> "none"]
    /\ alive = Processors
    /\ worker = [w \in Workers |-> Idle]
    /\ paid = [o \in Orders |-> 0]

OnFile      == setting.backend = "file"
Fails(kind) == kind \in setting.faults

-----------------------------------------------------------------------------
(* AcceptAsync with the publisher of the backend.                          *)

SetOrder(o, s) == order' = [order EXCEPT ![o] = s]
SetEvent(o, e) == event' = [event EXCEPT ![o] = e]

\* WriteFile of FilePublisher.
WriteTmp(o) ==
    /\ OnFile /\ order[o] = "new"
    /\ SetOrder(o, "writing")
    /\ SetEvent(o, "tmp")
    /\ UNCHANGED <<setting, alive, worker, paid>>

Publishing(o) == order[o] = IF OnFile THEN "writing" ELSE "new"

\* Variant with a bug: the file keeps its temporary name.
PublishTmp(o) ==
    /\ Publishing(o)
    /\ SetOrder(o, "accepted")
    /\ UNCHANGED <<setting, event, alive, worker, paid>>

\* Rename of FilePublisher, or Publish of SNSPublisher; then the answer 202.
\* (A worker may be faster than the answer; nothing depends on that.)
Publish(o) ==
    /\ Publishing(o)
    /\ SetOrder(o, "accepted")
    /\ SetEvent(o, "waiting")
    /\ UNCHANGED <<setting, alive, worker, paid>>

\* The event may be out all the same.
PublishFails(o) ==
    /\ Publishing(o)
    /\ Fails("publish")
    /\ SetOrder(o, "refused")
    /\ event' \in {event, [event EXCEPT ![o] = "waiting"]}
    /\ UNCHANGED <<setting, alive, worker, paid>>

-----------------------------------------------------------------------------
(* runWorker with the consumer of the backend.                             *)

Set(w, st) == worker' = [worker EXCEPT ![w] = st]
Runs(w)    == ProcOf(w) \in alive
Waiting    == {o \in Orders : event[o] = "waiting"}

\* ReadDir of claimNextFile; an empty directory is polled again.
List(w) ==
    /\ OnFile /\ Runs(w)
    /\ worker[w].pc = "idle"
    /\ Waiting # {}
    /\ Set(w, Claiming(Waiting))
    /\ UNCHANGED <<setting, order, event, alive, paid>>

Listed(w, o) == OnFile /\ worker[w].pc = "claim" /\ o \in worker[w].list

\* Variant with a bug: what was listed is taken to be there still.
ClaimListed(w, o) ==
    /\ Listed(w, o)
    /\ SetEvent(o, "claimed")
    /\ Set(w, Has(o, "read"))
    /\ UNCHANGED <<setting, order, alive, paid>>

\* Rename of one listed file.  (The order of the names is not modelled.)
Claim(w, o) ==
    /\ Listed(w, o)
    /\ event[o] = "waiting"
    /\ SetEvent(o, "claimed")
    /\ Set(w, Has(o, "read"))
    /\ UNCHANGED <<setting, order, alive, paid>>

\* Variant with a bug: the end of the list is not seen.
MissUnchecked(w, o) ==
    /\ Listed(w, o)
    /\ event[o] # "waiting"
    /\ Set(w, Claiming(worker[w].list \ {o}))
    /\ UNCHANGED <<setting, order, event, alive, paid>>

\* ErrNotExist: somebody else was faster; on with the next, or poll again.
Miss(w, o) ==
    LET rest == worker[w].list \ {o}
    IN  /\ Listed(w, o)
        /\ event[o] # "waiting"
        /\ Set(w, IF rest = {} THEN Idle ELSE Claiming(rest))
        /\ UNCHANGED <<setting, order, event, alive, paid>>

\* ReadFile of the claimed file.
Read(w) ==
    /\ worker[w].pc = "read"
    /\ Set(w, Has(worker[w].order, "verify"))
    /\ UNCHANGED <<setting, order, event, alive, paid>>

Held(o) == \E w \in Workers : worker[w].order = o

\* ReceiveMessage of SQSConsumer.
Receive(w) ==
    /\ ~OnFile /\ Runs(w)
    /\ worker[w].pc = "idle"
    /\ \E o \in Waiting :
          /\ Held(o) => Fails("redeliver")
          /\ Set(w, Has(o, "verify"))
    /\ UNCHANGED <<setting, order, event, alive, paid>>

\* Variant with a bug: the event is acknowledged before the payment.
VerifyAcknowledged(w) ==
    /\ worker[w].pc = "verify"
    /\ SetEvent(worker[w].order, "removed")
    /\ Set(w, Has(worker[w].order, "ack"))
    /\ UNCHANGED <<setting, order, alive, paid>>

\* Verify of the payment simulator, which has a slot for every worker.
Verify(w) ==
    LET o == worker[w].order
    IN  /\ worker[w].pc = "verify"
        /\ paid' = [paid EXCEPT ![o] = IF @ < MaxPaid THEN @ + 1 ELSE @]
        /\ Set(w, Has(worker[w].order, "ack"))
        /\ UNCHANGED <<setting, order, event, alive>>

\* Remove of the claimed file, or DeleteMessage.
Ack(w) ==
    /\ worker[w].pc = "ack"
    /\ SetEvent(worker[w].order, "removed")
    /\ Set(w, Idle)
    /\ UNCHANGED <<setting, order, alive, paid>>

Work(w) ==
    \/ List(w) \/ \E o \in Orders : Claim(w, o) \/ Miss(w, o)
    \/ Read(w) \/ Receive(w) \/ Verify(w) \/ Ack(w)

-----------------------------------------------------------------------------

\* Run returns, or the process is gone: none of its workers goes on.  Claimed files keep
\* their name; messages come back after the visibility timeout.  (After a signal Run
\* waits for workers that are about to acknowledge: they do it first, or not at all.)
Exit(p) ==
    /\ Fails("exit")
    /\ p \in alive
    /\ alive' = alive \ {p}
    /\ worker' = [w \in Workers |-> IF ProcOf(w) = p THEN Idle ELSE worker[w]]
    /\ UNCHANGED <<setting, order, event, paid>>

Start(p) ==
    /\ p \notin alive
    /\ alive' = alive \cup {p}
    /\ UNCHANGED <<setting, order, event, worker, paid>>

Next ==
    \/ \E o \in Orders : WriteTmp(o) \/ Publish(o) \/ PublishFails(o)
    \/ \E w \in Workers : Work(w)
    \/ \E p \in Processors : Exit(p) \/ Start(p)

Spec == Init /\ [][Next]_vars

-----------------------------------------------------------------------------
(* Safety.                                                                 *)

\* A claimed file whose worker is gone: no consumer looks at .processing files.
Stranded(o) == event[o] = "claimed" /\ ~Held(o)

\* The payment of an order is taken at most once: on files whatever happens, with SQS
\* unless a processor ends between payment and acknowledgement or SQS delivers twice.
\* Only the rename decides which of the workers that have listed a file gets it.
PaidOnce ==
    OnFile \/ setting.faults \subseteq {"publish"} => \A o \in Orders : paid[o] <= 1

\* An accepted order that has not been paid is waiting or in the hands of a worker that
\* runs, unless its file was left behind by a processor that ended: of the two backends
\* only SQS keeps every order.
UnpaidIsPending ==
    \A o \in Orders : order[o] = "accepted" /\ paid[o] = 0 =>
        \/ event[o] = "waiting"
        \/ \E w \in Workers : worker[w].order = o /\ Runs(w)
        \/ Stranded(o) /\ OnFile /\ Fails("exit")

-----------------------------------------------------------------------------
(* Liveness.                                                               *)

\* Go runs every worker; a processor that ended is started again.
Fairness ==
    /\ \A w \in Workers : WF_vars(Work(w))
    /\ \A p \in Processors : WF_vars(Start(p))

FairSpec == Spec /\ Fairness

\* Once the processors stay up, every accepted order is paid, but for a file that an
\* earlier processor left behind.
AcceptedIsPaid ==
    <>[](alive = Processors) =>
        \A o \in Orders : order[o] = "accepted" ~> paid[o] > 0 \/ Stranded(o)
=============================================================================
