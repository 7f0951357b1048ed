--------------------------- MODULE OrderQueueProofs ---------------------------
(***************************************************************************)
(* For every set of orders and processors, every number of workers and     *)
(* every environment: a payment is taken once where the backend can        *)
(* promise it, although workers claim from listings that are out of date.  *)
(***************************************************************************)
EXTENDS OrderQueue, TLAPS

\* What a worker may be: one line of TypeOK, for one worker.
State == [pc : {"idle", "claim", "read", "verify", "ack"},
          list : SUBSET Orders, order : Orders \cup {NoOrder}]
Sound(st) ==
    /\ st.pc = "claim" <=> st.list # {}
    /\ st.pc \in {"idle", "claim"} <=> st.order = NoOrder

\* A new state of one worker leaves the types of all of them intact.
LEMMA SetTypeOK ==
  ASSUME TypeOK, NEW w \in Workers, Runs(w),
         NEW st \in State, Sound(st), Set(w, st), alive' = alive
  PROVE  /\ worker' \in [Workers -> State]
         /\ \A v \in Workers : Sound(worker'[v]) /\ (ProcOf(v) \notin alive' => worker'[v] = Idle)
<1>1. worker \in [Workers -> State]
  BY DEF TypeOK, State
<1>2. worker' \in [Workers -> State]
  BY <1>1 DEF Set
<1>3. ASSUME NEW v \in Workers
      PROVE  Sound(worker'[v]) /\ (ProcOf(v) \notin alive' => worker'[v] = Idle)
  <2>1. CASE v = w
    BY <2>1, <1>1 DEF Set, Runs
  <2>2. CASE v # w
    <3>1. worker'[v] = worker[v]
      BY <2>2, <1>1 DEF Set
    <3> QED BY <3>1 DEF TypeOK, Sound
  <2> QED BY <2>1, <2>2
<1> QED BY <1>2, <1>3

\* A worker that has something to do runs, and what it has is of the right type.
LEMMA BusyRuns ==
  ASSUME TypeOK, NEW w \in Workers, worker[w].pc # "idle"
  PROVE  Runs(w)
<1>1. ProcOf(w) \notin alive => worker[w].pc = "idle"
  BY DEF TypeOK, Idle
<1> QED BY <1>1 DEF Runs

LEMMA WorkerType ==
  ASSUME TypeOK, NEW w \in Workers
  PROVE  worker[w] \in State /\ Sound(worker[w])
BY DEF TypeOK, State, Sound

LEMMA IdleType == Idle \in State /\ Sound(Idle)
BY OrderAssumption DEF Idle, State, Sound

\* The states a worker step leads to.
LEMMA ClaimState ==
  ASSUME NEW l \in SUBSET Orders, l # {}
  PROVE  Claiming(l) \in State /\ Sound(Claiming(l))
BY OrderAssumption DEF Claiming, State, Sound

LEMMA HasState ==
  ASSUME NEW o \in Orders, NEW c \in {"read", "verify", "ack"}
  PROVE  Has(o, c) \in State /\ Sound(Has(o, c))
BY OrderAssumption DEF Has, State, Sound

\* What is in the hands of a worker past "claim" is an order.
LEMMA HasOrder ==
  ASSUME TypeOK, NEW w \in Workers, worker[w].pc \in {"read", "verify", "ack"}
  PROVE  worker[w].order \in Orders
BY WorkerType DEF State, Sound

\* TypeOK alone is inductive: no step gives a worker a state that its program counter
\* does not allow, or an ended processor a worker that goes on.
LEMMA NextTypeOK ==
  ASSUME TypeOK, [Next]_vars
  PROVE  TypeOK'
<1> USE OrderAssumption
<1> DEFINE WorkersOK ==
      /\ worker' \in [Workers -> State]
      /\ \A v \in Workers : Sound(worker'[v]) /\ (ProcOf(v) \notin alive' => worker'[v] = Idle)
<1>0. ASSUME UNCHANGED <<worker, alive>> PROVE WorkersOK
  BY <1>0 DEF TypeOK, State, Sound
<1>a. ASSUME WorkersOK,
             setting' = setting, alive' \subseteq Processors,
             order' \in [Orders -> {"new", "writing", "accepted", "refused"}],
             event' \in [Orders -> {"none", "tmp", "waiting", "claimed", "removed"}],
             paid' \in [Orders -> 0..MaxPaid]
      PROVE  TypeOK'
  BY <1>a DEF TypeOK, State, Sound
<1> HIDE DEF WorkersOK
<1>1. ASSUME NEW o \in Orders, WriteTmp(o) PROVE TypeOK'
  BY <1>1, <1>0, <1>a DEF TypeOK, WriteTmp, SetOrder, SetEvent
<1>2. ASSUME NEW o \in Orders, Publish(o) PROVE TypeOK'
  BY <1>2, <1>0, <1>a DEF TypeOK, Publish, SetOrder, SetEvent
<1>3. ASSUME NEW o \in Orders, PublishFails(o) PROVE TypeOK'
  BY <1>3, <1>0, <1>a DEF TypeOK, PublishFails, SetOrder
<1>4. ASSUME NEW w \in Workers, List(w) PROVE TypeOK'
  <2>1. WorkersOK
    BY <1>4, SetTypeOK, ClaimState, Waiting \in SUBSET Orders DEF List, Waiting, WorkersOK
  <2> QED BY <2>1, <1>4, <1>a DEF TypeOK, List
<1>5. ASSUME NEW w \in Workers, NEW o \in Orders, Claim(w, o) PROVE TypeOK'
  <2>1. WorkersOK
    BY <1>5, SetTypeOK, HasState, BusyRuns DEF Claim, Listed, WorkersOK
  <2> QED BY <2>1, <1>5, <1>a DEF TypeOK, Claim, SetEvent
<1>6. ASSUME NEW w \in Workers, NEW o \in Orders, Miss(w, o) PROVE TypeOK'
  <2> DEFINE rest == worker[w].list \ {o}
             st   == IF rest = {} THEN Idle ELSE Claiming(rest)
  <2>1. st \in State /\ Sound(st)
    <3>1. CASE rest = {}
      BY <3>1, IdleType
    <3>2. CASE rest # {}
      BY <3>2, ClaimState, WorkerType DEF State
    <3> QED BY <3>1, <3>2
  <2>2. Set(w, st) /\ alive' = alive /\ Runs(w)
    BY <1>6, BusyRuns DEF Miss, Listed
  <2>3. WorkersOK
    <3> HIDE DEF st
    <3> QED BY <2>1, <2>2, SetTypeOK DEF WorkersOK
  <2> QED BY <2>3, <1>6, <1>a DEF TypeOK, Miss
<1>7. ASSUME NEW w \in Workers, Read(w) PROVE TypeOK'
  <2>1. WorkersOK
    BY <1>7, SetTypeOK, HasState, HasOrder, BusyRuns DEF Read, WorkersOK
  <2> QED BY <2>1, <1>7, <1>a DEF TypeOK, Read
<1>8. ASSUME NEW w \in Workers, Receive(w) PROVE TypeOK'
  <2>1. WorkersOK
    BY <1>8, SetTypeOK, HasState, Waiting \in SUBSET Orders DEF Receive, Waiting, WorkersOK
  <2> QED BY <2>1, <1>8, <1>a DEF TypeOK, Receive
<1>9. ASSUME NEW w \in Workers, Verify(w) PROVE TypeOK'
  <2>1. WorkersOK
    BY <1>9, SetTypeOK, HasState, HasOrder, BusyRuns DEF Verify, WorkersOK
  <2>2. paid' \in [Orders -> 0..MaxPaid]
    BY <1>9 DEF TypeOK, Verify
  <2> QED BY <2>1, <2>2, <1>9, <1>a DEF TypeOK, Verify
<1>10. ASSUME NEW w \in Workers, Ack(w) PROVE TypeOK'
  <2>1. WorkersOK
    BY <1>10, SetTypeOK, IdleType, BusyRuns DEF Ack, WorkersOK
  <2> QED BY <2>1, <1>10, <1>a DEF TypeOK, Ack, SetEvent
<1>11. ASSUME NEW p \in Processors, Exit(p) PROVE TypeOK'
  <2>1. WorkersOK
    BY <1>11, IdleType, WorkerType DEF TypeOK, Exit, WorkersOK
  <2> QED BY <2>1, <1>11, <1>a DEF TypeOK, Exit
<1>12. ASSUME NEW p \in Processors, Start(p) PROVE TypeOK'
  <2>1. WorkersOK
    BY <1>12, WorkerType DEF TypeOK, Start, State, WorkersOK
  <2> QED BY <2>1, <1>12, <1>a DEF TypeOK, Start
<1>13. CASE UNCHANGED vars
  BY <1>13, <1>0, <1>a DEF TypeOK, vars
<1> QED BY <1>1, <1>2, <1>3, <1>4, <1>5, <1>6, <1>7, <1>8, <1>9, <1>10, <1>11, <1>12, <1>13
        DEF Next, Work

-----------------------------------------------------------------------------

\* The environments in which a second payment is ruled out.
Exclusive == OnFile \/ setting.faults \subseteq {"publish"}

\* What an event is while a worker has it.
HeldAs == IF OnFile THEN "claimed" ELSE "waiting"

\* An event is published once, by its own request, and no worker has it before.
PublishInv ==
    \A o \in Orders : order[o] \in {"new", "writing"} =>
        /\ event[o] \in {"none", "tmp"}
        /\ \A w \in Workers : worker[w].order # o

\* An order has one worker at most, and its event is then claimed or hidden.
HolderInv ==
    /\ \A w \in Workers : worker[w].order \in Orders => event[worker[w].order] = HeldAs
    /\ \A v, w \in Workers :
          worker[v].order \in Orders /\ worker[v].order = worker[w].order => v = w

\* A worker that has not taken the payment yet takes the first; an order that can still be
\* handed out has not been paid, unless the worker that was paid still has it.
PaidInv ==
    /\ \A w \in Workers : worker[w].pc \in {"read", "verify"} => paid[worker[w].order] = 0
    /\ \A o \in Orders : event[o] \in {"none", "tmp", "waiting"} /\ paid[o] > 0 =>
          \E w \in Workers : worker[w].order = o /\ worker[w].pc = "ack"
    /\ \A o \in Orders : paid[o] <= 1

Inv == TypeOK /\ PublishInv /\ (Exclusive => HolderInv /\ PaidInv)

\* What the states of a worker say of its order.
LEMMA NoneHeld == NoOrder \notin Orders /\ Idle.order = NoOrder /\ Idle.pc = "idle"
                  /\ \A l : Claiming(l).order = NoOrder /\ Claiming(l).pc = "claim"
                  /\ \A o, c : Has(o, c).order = o /\ Has(o, c).pc = c
BY OrderAssumption DEF Idle, Claiming, Has

LEMMA InitInv == Init => Inv
<1> SUFFICES ASSUME Init PROVE Inv
  OBVIOUS
<1> USE OrderAssumption
<1>1. TypeOK
  BY DEF Init, TypeOK, Idle
<1>2. PublishInv
  BY NoneHeld DEF Init, PublishInv
<1>3. HolderInv /\ PaidInv
  BY DEF Init, HolderInv, PaidInv, Idle
<1> QED BY <1>1, <1>2, <1>3 DEF Inv

\* How a step changes the workers: w gets st, or they stay as they are.
LEMMA SetMeans ==
  ASSUME TypeOK, NEW w \in Workers, NEW st, Set(w, st)
  PROVE  /\ worker'[w] = st
         /\ \A v \in Workers \ {w} : worker'[v] = worker[v]
BY DEF TypeOK, Set

\* No step takes an event back before its publication, or gives it to a worker then.
LEMMA NextPublishInv ==
  ASSUME TypeOK, PublishInv, [Next]_vars
  PROVE  PublishInv'
<1>1. ASSUME NEW o \in Orders, WriteTmp(o) \/ Publish(o) \/ PublishFails(o) PROVE PublishInv'
  BY <1>1 DEF TypeOK, PublishInv, WriteTmp, Publish, PublishFails, SetOrder, SetEvent
<1>2. ASSUME NEW w \in Workers, NEW st, Set(w, st), st.order = NoOrder,
             order' = order, event' = event
      PROVE  PublishInv'
  BY <1>2, SetMeans, NoneHeld DEF PublishInv
<1>3. ASSUME NEW w \in Workers, NEW o \in Orders, Claim(w, o) PROVE PublishInv'
  BY <1>3, SetMeans, NoneHeld DEF TypeOK, PublishInv, Claim, SetEvent
<1>4. ASSUME NEW w \in Workers, Receive(w) PROVE PublishInv'
  BY <1>4, SetMeans, NoneHeld DEF TypeOK, PublishInv, Receive, Waiting
<1>5. ASSUME NEW w \in Workers, NEW c, worker[w].pc \in {"read", "verify", "ack"},
             Set(w, Has(worker[w].order, c)), order' = order, event' = event
      PROVE  PublishInv'
  BY <1>5, SetMeans, NoneHeld DEF PublishInv
<1>6. ASSUME NEW w \in Workers, Ack(w) PROVE PublishInv'
  BY <1>6, SetMeans, NoneHeld, HasOrder DEF TypeOK, PublishInv, Ack, SetEvent
<1>7. ASSUME NEW p \in Processors, Exit(p) PROVE PublishInv'
  BY <1>7, NoneHeld DEF PublishInv, Exit
<1>8. ASSUME UNCHANGED <<order, event, worker>> PROVE PublishInv'
  BY <1>8 DEF PublishInv
<1>9. ASSUME NEW w \in Workers, NEW o \in Orders, Miss(w, o) PROVE PublishInv'
  BY <1>9, <1>2, NoneHeld DEF Miss
<1>10. ASSUME NEW w \in Workers, Read(w) \/ Verify(w) PROVE PublishInv'
  BY <1>10, <1>5 DEF Read, Verify
<1>11. ASSUME NEW w \in Workers, List(w) PROVE PublishInv'
  BY <1>11, <1>2, NoneHeld DEF List
<1> QED
  BY <1>1, <1>3, <1>4, <1>6, <1>7, <1>8, <1>9, <1>10, <1>11 DEF Next, Work, Start, vars

-----------------------------------------------------------------------------

\* Where Exclusive holds, the type of a held event follows from that of its holder, and
\* every step keeps one holder per order and one payment.
LEMMA NextHolderPaid ==
  ASSUME TypeOK, PublishInv, HolderInv, PaidInv, Exclusive, [Next]_vars
  PROVE  HolderInv' /\ PaidInv'
<1>0. setting' = setting /\ HeldAs' = HeldAs
  <2>1. setting' = setting
    BY DEF Next, vars, WriteTmp, Publish, PublishFails, Work, List, Claim, Miss, Read,
           Receive, Verify, Ack, Exit, Start
  <2> QED BY <2>1 DEF HeldAs, OnFile
<1>1. ASSUME NEW o \in Orders, WriteTmp(o) \/ Publish(o) \/ PublishFails(o)
      PROVE  HolderInv' /\ PaidInv'
  <2>1. \A w \in Workers : worker[w].order # o
    BY <1>1 DEF PublishInv, WriteTmp, Publish, PublishFails, Publishing
  <2>2. worker' = worker /\ paid' = paid
    BY <1>1 DEF WriteTmp, Publish, PublishFails
  <2>3. event[o] \in {"none", "tmp"} /\ \A q \in Orders \ {o} : event'[q] = event[q]
    BY <1>1 DEF TypeOK, PublishInv, WriteTmp, Publish, PublishFails, Publishing, SetEvent
  <2>4. HolderInv'
    BY <1>0, <2>1, <2>2, <2>3 DEF HolderInv
  <2>5. PaidInv'
    BY <2>2, <2>3 DEF PaidInv
  <2> QED BY <2>4, <2>5
<1>2. ASSUME NEW w \in Workers, NEW o \in Orders, Miss(w, o) PROVE HolderInv' /\ PaidInv'
  <2>1. worker[w].pc # "ack" /\ worker'[w].order = NoOrder /\ worker'[w].pc \in {"idle", "claim"}
    BY <1>2, SetMeans, NoneHeld DEF Miss, Listed
  <2>2. (\A v \in Workers \ {w} : worker'[v] = worker[v]) /\ event' = event /\ paid' = paid
    BY <1>2, SetMeans DEF Miss
  <2>3. HolderInv'
    BY <1>0, <2>1, <2>2, NoneHeld DEF HolderInv
  <2>4. PaidInv'
    BY <2>1, <2>2, NoneHeld DEF PaidInv
  <2> QED BY <2>3, <2>4
<1>3. ASSUME NEW w \in Workers, List(w) PROVE HolderInv' /\ PaidInv'
  <2>1. worker[w].pc # "ack" /\ worker'[w].order = NoOrder /\ worker'[w].pc = "claim"
    BY <1>3, SetMeans, NoneHeld DEF List
  <2>2. (\A v \in Workers \ {w} : worker'[v] = worker[v]) /\ event' = event /\ paid' = paid
    BY <1>3, SetMeans DEF List
  <2>3. HolderInv'
    BY <1>0, <2>1, <2>2, NoneHeld DEF HolderInv
  <2>4. PaidInv'
    BY <2>1, <2>2, NoneHeld DEF PaidInv
  <2> QED BY <2>3, <2>4
\* The rename lets one worker through: nobody has a waiting file, or has paid for it.
<1>4. ASSUME NEW w \in Workers, NEW o \in Orders, Claim(w, o) PROVE HolderInv' /\ PaidInv'
  <2>1. /\ HeldAs = "claimed" /\ event[o] = "waiting" /\ worker[w].pc = "claim"
        /\ \A v \in Workers : worker[v].order # o
    BY <1>4 DEF Claim, Listed, HeldAs, HolderInv
  <2>2. paid[o] = 0
    BY <2>1 DEF TypeOK, PaidInv
  <2>3. /\ worker'[w].order = o /\ worker'[w].pc = "read"
        /\ \A v \in Workers \ {w} : worker'[v] = worker[v]
        /\ paid' = paid
    BY <1>4, SetMeans, NoneHeld DEF Claim
  <2>4. event'[o] = "claimed" /\ \A q \in Orders \ {o} : event'[q] = event[q]
    BY <1>4 DEF TypeOK, Claim, SetEvent
  <2>5. HolderInv'
    BY <1>0, <2>1, <2>3, <2>4 DEF HolderInv
  <2>6. PaidInv'
    BY <2>1, <2>2, <2>3, <2>4 DEF PaidInv
  <2> QED BY <2>5, <2>6
<1>5. ASSUME NEW w \in Workers, Receive(w) PROVE HolderInv' /\ PaidInv'
  <2>1. PICK o \in Orders : /\ event[o] = "waiting" /\ (Held(o) => Fails("redeliver"))
                            /\ Set(w, Has(o, "verify"))
    BY <1>5 DEF Receive, Waiting
  <2>2. HeldAs = "waiting" /\ worker[w].pc = "idle" /\ \A v \in Workers : worker[v].order # o
    BY <1>5, <2>1 DEF Receive, Exclusive, Held, Fails, HeldAs
  <2>3. paid[o] = 0
    BY <2>1, <2>2 DEF TypeOK, PaidInv
  <2>4. /\ worker'[w].order = o /\ worker'[w].pc = "verify"
        /\ \A v \in Workers \ {w} : worker'[v] = worker[v]
        /\ paid' = paid /\ event' = event
    BY <1>5, <2>1, SetMeans, NoneHeld DEF Receive
  <2>5. HolderInv'
    BY <1>0, <2>1, <2>2, <2>4 DEF HolderInv
  <2>6. PaidInv'
    BY <2>2, <2>3, <2>4 DEF PaidInv
  <2> QED BY <2>5, <2>6
<1>6. ASSUME NEW w \in Workers, Read(w) PROVE HolderInv' /\ PaidInv'
  <2>1. /\ worker'[w].order = worker[w].order /\ worker[w].pc = "read" /\ worker'[w].pc = "verify"
        /\ \A v \in Workers \ {w} : worker'[v] = worker[v]
        /\ paid' = paid /\ event' = event
    BY <1>6, SetMeans, NoneHeld DEF Read
  <2>2. HolderInv'
    BY <1>0, <2>1 DEF HolderInv
  <2>3. PaidInv'
    BY <2>1 DEF PaidInv
  <2> QED BY <2>2, <2>3
\* The payment: the only worker of the order takes the first one and keeps the order.
<1>7. ASSUME NEW w \in Workers, Verify(w) PROVE HolderInv' /\ PaidInv'
  <2> DEFINE o == worker[w].order
  <2>1. /\ worker[w].pc = "verify" /\ worker'[w].order = o /\ worker'[w].pc = "ack"
        /\ \A v \in Workers \ {w} : worker'[v] = worker[v]
        /\ event' = event
    BY <1>7, SetMeans, NoneHeld DEF Verify
  <2>2. o \in Orders /\ paid[o] = 0 /\ \A v \in Workers \ {w} : worker[v].order # o
    BY <2>1, HasOrder DEF HolderInv, PaidInv
  <2>3. paid'[o] = 1 /\ \A q \in Orders \ {o} : paid'[q] = paid[q]
    BY <1>7, <2>2, OrderAssumption DEF TypeOK, Verify
  <2> HIDE DEF o
  <2>4. HolderInv'
    <3>1. \A v \in Workers : worker'[v].order = worker[v].order
      BY <2>1 DEF o
    <3> QED BY <1>0, <2>1, <3>1 DEF HolderInv
  <2>5. PaidInv'
    <3>1. ASSUME NEW v \in Workers, worker'[v].pc \in {"read", "verify"}
          PROVE  paid'[worker'[v].order] = 0
      <4>1. v # w /\ worker'[v] = worker[v] /\ worker[v].order # o
        BY <2>1, <2>2, <3>1
      <4>2. worker[v].order \in Orders /\ paid[worker[v].order] = 0
        BY <3>1, <4>1, HasOrder DEF PaidInv
      <4> QED BY <4>1, <4>2, <2>3
    <3>2. ASSUME NEW q \in Orders, event'[q] \in {"none", "tmp", "waiting"}, paid'[q] > 0
          PROVE  \E v \in Workers : worker'[v].order = q /\ worker'[v].pc = "ack"
      <4>1. CASE q = o
        BY <4>1, <2>1
      <4>2. CASE q # o
        BY <4>2, <3>2, <2>1, <2>3 DEF PaidInv
      <4> QED BY <4>1, <4>2
    <3>3. \A q \in Orders : paid'[q] <= 1
      BY <2>3 DEF PaidInv
    <3> QED BY <3>1, <3>2, <3>3 DEF PaidInv
  <2> QED BY <2>4, <2>5
<1>8. ASSUME NEW w \in Workers, Ack(w) PROVE HolderInv' /\ PaidInv'
  <2> DEFINE o == worker[w].order
  <2>1. /\ worker[w].pc = "ack" /\ worker'[w].order = NoOrder /\ worker'[w].pc = "idle"
        /\ \A v \in Workers \ {w} : worker'[v] = worker[v]
        /\ paid' = paid
    BY <1>8, SetMeans, NoneHeld DEF Ack
  <2>2. o \in Orders /\ \A v \in Workers \ {w} : worker[v].order # o
    BY <2>1, HasOrder DEF HolderInv
  <2>3. event'[o] = "removed" /\ \A q \in Orders \ {o} : event'[q] = event[q]
    BY <1>8, <2>2 DEF TypeOK, Ack, SetEvent
  <2>4. HolderInv'
    BY <1>0, <2>1, <2>2, <2>3, NoneHeld DEF HolderInv
  <2>5. PaidInv'
    BY <2>1, <2>2, <2>3 DEF PaidInv
  <2> QED BY <2>4, <2>5
\* Only files outlive a processor here, and a claimed file is not handed out again.
<1>9. ASSUME NEW p \in Processors, Exit(p) PROVE HolderInv' /\ PaidInv'
  <2>1. OnFile /\ HeldAs = "claimed"
    BY <1>9 DEF Exit, Fails, Exclusive, HeldAs
  <2>2. /\ \A v \in Workers : worker'[v] = worker[v] \/ worker'[v] = Idle
        /\ event' = event /\ paid' = paid
    BY <1>9 DEF Exit
  <2>3. HolderInv'
    BY <1>0, <2>2, NoneHeld DEF HolderInv
  <2>4. \A o \in Orders : ~(event[o] \in {"none", "tmp", "waiting"} /\ paid[o] > 0)
    BY <2>1 DEF HolderInv, PaidInv
  <2>5. PaidInv'
    BY <2>2, <2>4, NoneHeld DEF PaidInv
  <2> QED BY <2>3, <2>5
<1>10. ASSUME UNCHANGED <<event, worker, paid>> PROVE HolderInv' /\ PaidInv'
  BY <1>0, <1>10 DEF HolderInv, PaidInv
<1> QED
  BY <1>1, <1>2, <1>3, <1>4, <1>5, <1>6, <1>7, <1>8, <1>9, <1>10 DEF Next, Work, Start, vars

-----------------------------------------------------------------------------

LEMMA Invariance == Spec => []Inv
<1>1. ASSUME Inv, [Next]_vars PROVE Inv'
  <2>1. setting' = setting
    BY <1>1 DEF Next, vars, WriteTmp, Publish, PublishFails, Work, List, Claim, Miss, Read,
                Receive, Verify, Ack, Exit, Start
  <2>2. TypeOK' /\ PublishInv'
    BY <1>1, NextTypeOK, NextPublishInv DEF Inv
  <2>3. Exclusive' => HolderInv' /\ PaidInv'
    BY <1>1, <2>1, NextHolderPaid DEF Inv, Exclusive, OnFile
  <2> QED BY <2>2, <2>3 DEF Inv
<1> QED BY InitInv, <1>1, PTL DEF Spec

-----------------------------------------------------------------------------

\* An event that is out is not lost: it goes away only after the payment, and a claimed
\* file has a worker unless a processor may have ended.
PendingInv ==
    /\ \A o \in Orders :
          /\ order[o] = "accepted" => event[o] \notin {"none", "tmp"}
          /\ event[o] = "removed" => paid[o] > 0
          /\ event[o] = "claimed" => OnFile /\ (Held(o) \/ Fails("exit"))
    /\ \A w \in Workers : worker[w].pc = "ack" => paid[worker[w].order] > 0

LEMMA NextPendingInv ==
  ASSUME TypeOK, PublishInv, PendingInv, [Next]_vars
  PROVE  PendingInv'
<1>0. setting' = setting
  BY DEF Next, vars, WriteTmp, Publish, PublishFails, Work, List, Claim, Miss, Read,
         Receive, Verify, Ack, Exit, Start
<1>1. ASSUME NEW o \in Orders, WriteTmp(o) \/ Publish(o) \/ PublishFails(o) PROVE PendingInv'
  <2>1. worker' = worker /\ paid' = paid
    BY <1>1 DEF WriteTmp, Publish, PublishFails
  <2>2. \A q \in Orders \ {o} : order'[q] = order[q] /\ event'[q] = event[q]
    BY <1>1 DEF TypeOK, WriteTmp, Publish, PublishFails, SetOrder, SetEvent
  <2>3. /\ event'[o] \in {"none", "tmp", "waiting"}
        /\ order'[o] = "accepted" => event'[o] = "waiting"
    BY <1>1 DEF TypeOK, PublishInv, WriteTmp, Publish, PublishFails, Publishing,
       SetOrder, SetEvent
  <2> QED BY <1>0, <2>1, <2>2, <2>3 DEF PendingInv, OnFile, Fails, Held
\* A step that leaves the event with its worker, or takes it from none.
<1>2. ASSUME NEW w \in Workers, order' = order, event' = event, paid' = paid,
             worker[w].order \in Orders => worker'[w].order = worker[w].order,
             worker'[w].pc # "ack",
             \A v \in Workers \ {w} : worker'[v] = worker[v]
      PROVE  PendingInv'
  <2>1. \A o \in Orders : Held(o) => Held(o)'
    BY <1>2 DEF Held
  <2> QED BY <1>0, <1>2, <2>1 DEF PendingInv, OnFile, Fails
<1>3. ASSUME NEW w \in Workers, List(w) PROVE PendingInv'
  BY <1>2, <1>3, SetMeans, NoneHeld, WorkerType DEF List, State, Sound
<1>4. ASSUME NEW w \in Workers, NEW o \in Orders, Miss(w, o) PROVE PendingInv'
  <2>1. /\ worker[w].order = NoOrder /\ worker'[w].pc # "ack"
        /\ \A v \in Workers \ {w} : worker'[v] = worker[v]
    BY <1>4, SetMeans, NoneHeld, WorkerType DEF Miss, Listed, State, Sound
  <2> QED BY <1>2, <1>4, <2>1, NoneHeld DEF Miss
<1>5. ASSUME NEW w \in Workers, Read(w) PROVE PendingInv'
  BY <1>2, <1>5, SetMeans, NoneHeld DEF Read
<1>6. ASSUME NEW w \in Workers, Receive(w) PROVE PendingInv'
  <2>1. worker[w].order = NoOrder
    BY <1>6, WorkerType DEF Receive, State, Sound
  <2>2. worker'[w].pc # "ack" /\ \A v \in Workers \ {w} : worker'[v] = worker[v]
    BY <1>6, SetMeans, NoneHeld DEF Receive
  <2> QED BY <1>2, <1>6, <2>1, <2>2, NoneHeld DEF Receive
<1>7. ASSUME NEW w \in Workers, NEW o \in Orders, Claim(w, o) PROVE PendingInv'
  <2>1. /\ OnFile /\ worker[w].order = NoOrder /\ order' = order /\ paid' = paid
        /\ event[o] = "waiting" /\ event'[o] = "claimed"
        /\ \A q \in Orders \ {o} : event'[q] = event[q]
    BY <1>7, WorkerType DEF TypeOK, Claim, Listed, SetEvent, State, Sound
  <2>2. /\ worker'[w].order = o /\ worker'[w].pc = "read"
        /\ \A v \in Workers \ {w} : worker'[v] = worker[v]
    BY <1>7, SetMeans, NoneHeld DEF Claim
  <2>3. Held(o)' /\ \A q \in Orders : Held(q) => Held(q)'
    BY <2>1, <2>2, NoneHeld DEF Held
  <2> QED BY <1>0, <2>1, <2>2, <2>3 DEF PendingInv, OnFile, Fails
<1>8. ASSUME NEW w \in Workers, Verify(w) PROVE PendingInv'
  <2>1. PICK o \in Orders : worker[w].order = o
    BY <1>8, HasOrder DEF Verify
  <2>2. /\ order' = order /\ event' = event
        /\ paid'[o] > 0 /\ \A q \in Orders \ {o} : paid'[q] = paid[q]
    BY <1>8, <2>1, OrderAssumption DEF TypeOK, Verify
  <2>3. worker'[w].order = o /\ \A v \in Workers \ {w} : worker'[v] = worker[v]
    BY <1>8, <2>1, SetMeans, NoneHeld DEF Verify
  <2>4. \A q \in Orders : Held(q) => Held(q)'
    BY <2>1, <2>3 DEF Held
  <2>5. \A v \in Workers : worker'[v].pc = "ack" => paid'[worker'[v].order] > 0
    <3> TAKE v \in Workers
    <3>1. CASE v = w
      BY <3>1, <2>2, <2>3
    <3>2. CASE v # w /\ worker[v].pc = "ack"
      <4>1. worker[v].order \in Orders /\ paid[worker[v].order] > 0
        BY <3>2, HasOrder DEF PendingInv
      <4> QED BY <3>2, <4>1, <2>2, <2>3
    <3> QED BY <3>1, <3>2, <2>3
  <2>6. \A q \in Orders : paid[q] > 0 => paid'[q] > 0
    BY <2>2
  <2> QED BY <1>0, <2>2, <2>4, <2>5, <2>6 DEF PendingInv, OnFile, Fails
<1>9. ASSUME NEW w \in Workers, Ack(w) PROVE PendingInv'
  <2>1. PICK o \in Orders : worker[w].order = o
    BY <1>9, HasOrder DEF Ack
  <2>2. /\ order' = order /\ paid' = paid /\ paid[o] > 0 /\ event'[o] = "removed"
        /\ \A q \in Orders \ {o} : event'[q] = event[q]
    BY <1>9, <2>1 DEF TypeOK, Ack, SetEvent, PendingInv
  <2>3. worker'[w].pc = "idle" /\ \A v \in Workers \ {w} : worker'[v] = worker[v]
    BY <1>9, SetMeans, NoneHeld DEF Ack
  <2>4. \A q \in Orders \ {o} : Held(q) => Held(q)'
    BY <2>1, <2>3 DEF Held
  <2> QED BY <1>0, <2>2, <2>3, <2>4 DEF PendingInv, OnFile, Fails
<1>10. ASSUME NEW p \in Processors, Exit(p) PROVE PendingInv'
  <2>1. /\ Fails("exit") /\ order' = order /\ event' = event /\ paid' = paid
        /\ \A v \in Workers : worker'[v] = worker[v] \/ worker'[v] = Idle
    BY <1>10 DEF Exit
  <2> QED BY <1>0, <2>1, NoneHeld DEF PendingInv, OnFile, Fails
<1>11. ASSUME UNCHANGED <<order, event, worker, paid>> PROVE PendingInv'
  BY <1>0, <1>11 DEF PendingInv, OnFile, Fails, Held
<1> QED
  BY <1>1, <1>3, <1>4, <1>5, <1>6, <1>7, <1>8, <1>9, <1>10, <1>11 DEF Next, Work, Start, vars

-----------------------------------------------------------------------------

\* The variables of the order queue keep their types, whatever fails: in particular a
\* worker works on an order exactly when its program counter says so, and the workers of
\* a processor that has ended do nothing.
THEOREM TypeCorrect == Spec => []TypeOK
<1>1. Inv => TypeOK
  BY DEF Inv
<1> QED BY Invariance, <1>1, PTL

\* The payment of an order is taken at most once, for any number of processors and
\* workers that claim from the same directory, and with SQS as long as nothing ends or is
\* delivered twice (AcceptAsync, claimNextFile, processOrder).
THEOREM PaysOnce == Spec => []PaidOnce
<1>1. Inv => PaidOnce
  BY DEF Inv, PaidOnce, PaidInv, Exclusive
<1> QED BY Invariance, <1>1, PTL

\* An accepted order is not lost, except that a file claimed by a processor that ended
\* stays behind (claimNextFile looks at no .processing files); no step removes an event
\* that has not been paid.
THEOREM UnpaidOrdersArePending == Spec => []UnpaidIsPending
<1>1. Init => PendingInv
  BY DEF Init, PendingInv, Idle
<1>2. ASSUME Inv, PendingInv, [Next]_vars PROVE PendingInv'
  BY <1>2, NextPendingInv DEF Inv
<1>3. ASSUME Inv, PendingInv PROVE UnpaidIsPending
  <2> SUFFICES ASSUME NEW o \in Orders, order[o] = "accepted", paid[o] = 0,
                      event[o] # "waiting",
                      ~\E w \in Workers : worker[w].order = o /\ Runs(w)
               PROVE  Stranded(o) /\ OnFile /\ Fails("exit")
    BY DEF UnpaidIsPending
  <2>1. ~Held(o)
    <3>1. \A w \in Workers : worker[w].order = o => Runs(w)
      BY <1>3, OrderAssumption DEF Inv, TypeOK, Idle, Runs
    <3> QED BY <3>1 DEF Held
  <2>2. event[o] = "claimed"
    BY <1>3 DEF Inv, TypeOK, PendingInv
  <2> QED BY <1>3, <2>1, <2>2 DEF PendingInv, Stranded
<1> QED BY Invariance, <1>1, <1>2, <1>3, PTL DEF Spec
=============================================================================
