-------------------------- MODULE ReplicatedKVProofs --------------------------
(***************************************************************************)
(* For every number of nodes, every W and R, both modes, and all requests  *)
(* lost or late: no node goes back to an older record, an acknowledged     *)
(* write is at W nodes, followers are never ahead of their leader, and     *)
(* reads are fresh.                                                        *)
(***************************************************************************)
EXTENDS ReplicatedKV, FiniteSetTheorems, WellFoundedInduction, TLAPS

\* The types of what nodes and writes keep; reads change none of it.
NodeType ==
    /\ setting \in Settings
    /\ store \in [Nodes -> [Keys -> Record]]
    /\ version \in [Nodes -> Nat]
    /\ write \in [Writes -> WriteState]
    /\ late \subseteq Writes \X Nodes

\* The counter of a node is as high as every version it has stored.
CounterInv == \A n \in Nodes, k \in Keys : store[n][k].version <= version[n]

\* Node n has the record of write u, or a later one.
HasWrite(n, u) == store[n][write[u].key].version >= write[u].version

\* A write is at its own node; while the client waits, at all nodes it has been sent to so
\* far, and at the current one once the request has arrived.
SentInv ==
    \A u \in Writes, n, t \in Nodes : Active(u) /\ write[u].node = n /\ write[u].to = t =>
        /\ HasWrite(n, u)
        /\ t # n
        /\ write[u].rpc = "arrived" => HasWrite(t, u)
        /\ write[u].pc = "sync" => \A p \in Others(n) : p < t => HasWrite(p, u)
        /\ write[u].pc = "background" => Cardinality({p \in Others(n) : p < t}) >= RequiredAcks

-----------------------------------------------------------------------------
(* Facts about the operators.                                              *)

LEMMA NatMin ==
  ASSUME NEW T \in SUBSET Nat, T # {}
  PROVE  Min(T) \in T /\ \A y \in T : Min(T) <= y
<1>1. IsWellFoundedOn({ss \in Nat \X Nat : ss[1] < ss[2]}, Nat)
  BY NatLessThanWellFounded DEF OpToRel
<1>2. PICK x \in T : \A y \in T : ~ (<<y, x>> \in {ss \in Nat \X Nat : ss[1] < ss[2]})
  BY <1>1, WFMin
<1>3. \A y \in T : x <= y
  <2> TAKE y \in T
  <2>1. ~(y < x)
    BY <1>2
  <2> QED BY <2>1
<1> QED BY <1>3 DEF Min

LEMMA NodesAreFinite ==
  /\ Nodes \subseteq Nat /\ Leader \in Nodes
  /\ IsFiniteSet(Nodes) /\ Cardinality(Nodes) = N
<1>1. Nodes \subseteq Nat /\ Leader \in Nodes
  BY KVAssumption DEF Nodes, Leader
<1>2. IsFiniteSet(1..N) /\ Cardinality(1..N) = N
  BY KVAssumption, FS_Interval
<1> QED BY <1>1, <1>2 DEF Nodes

LEMMA SettingType ==
  ASSUME NodeType
  PROVE  W \in Nodes /\ R \in Nodes /\ W \in 1..N
BY KVAssumption DEF NodeType, Setting, W, R, Nodes

\* A write goes on to the next node, if there is one.
LEMMA ReplicatingMeans ==
  ASSUME NEW k \in Keys, NEW n \in Nodes, NEW v \in Nat, NEW a \in Nat,
         NEW pc \in {"sync", "background"}
  PROVE  LET st == Replicating(k, n, v, pc, a)
         IN  /\ st \in WriteState
             /\ st.key = k /\ st.node = n /\ st.version = v /\ st.rpc = "sent"
             /\ \/ st.pc = "done" /\ After(n, a) = {}
                \/ /\ st.pc = pc /\ st.to \in After(n, a)
                   /\ \A p \in After(n, a) : st.to <= p
<1> DEFINE rest == After(n, a)
<1>1. rest \subseteq Nodes /\ rest \subseteq Nat
  BY NodesAreFinite DEF After, Others
<1>2. CASE rest = {}
  BY <1>2 DEF Replicating, WriteState
<1>3. CASE rest # {}
  <2>1. Min(rest) \in rest /\ \A p \in rest : Min(rest) <= p
    BY <1>1, <1>3, NatMin
  <2> QED BY <1>1, <1>3, <2>1 DEF Replicating, WriteState
<1> QED BY <1>2, <1>3

LEMMA GoOnMeans ==
  ASSUME NodeType, NEW u \in Writes, NEW pc \in {"sync", "background"}
  PROVE  LET st == GoOn(u, pc)
         IN  /\ st \in WriteState
             /\ st.key = write[u].key /\ st.node = write[u].node
             /\ st.version = write[u].version /\ st.rpc = "sent"
             /\ \/ st.pc = "done" /\ After(write[u].node, write[u].to) = {}
                \/ /\ st.pc = pc /\ st.to \in After(write[u].node, write[u].to)
                   /\ \A p \in After(write[u].node, write[u].to) : st.to <= p
<1>1. /\ write[u].key \in Keys /\ write[u].node \in Nodes /\ write[u].version \in Nat
      /\ write[u].to \in Nat
  BY NodesAreFinite DEF NodeType, WriteState
<1> QED BY <1>1, ReplicatingMeans DEF GoOn

LEMMA StateMeans ==
  ASSUME NEW st \in WriteState, NEW c \in {"failed"}
  PROVE  /\ [st EXCEPT !.pc = c] \in WriteState /\ [st EXCEPT !.pc = c].pc = c
         /\ [st EXCEPT !.rpc = "arrived"] \in WriteState
         /\ [st EXCEPT !.rpc = "arrived"] = [pc |-> st.pc, key |-> st.key, node |-> st.node,
               version |-> st.version, to |-> st.to, rpc |-> "arrived"]
BY DEF WriteState

LEMMA SetWriteMeans ==
  ASSUME NodeType, NEW u \in Writes, NEW st \in WriteState, SetWrite(u, st)
  PROVE  /\ write' \in [Writes -> WriteState]
         /\ write'[u] = st /\ \A v \in Writes \ {u} : write'[v] = write[v]
BY DEF NodeType, SetWrite

\* The record a node ends up with is the newer one, and its counter follows.
LEMMA PutMeans ==
  ASSUME NodeType, NEW n \in Nodes, NEW k \in Keys, NEW rec \in Record, PutRecord(n, k, rec)
  PROVE  /\ store' \in [Nodes -> [Keys -> Record]]
         /\ store'[n][k] = rec
         /\ \A m \in Nodes, q \in Keys : m # n \/ q # k => store'[m][q] = store[m][q]
BY DEF NodeType, PutRecord

LEMMA ReplicateMeans ==
  ASSUME NodeType, CounterInv, NEW n \in Nodes, NEW u \in Writes, Replicate(n, u)
  PROVE  /\ store' \in [Nodes -> [Keys -> Record]] /\ version' \in [Nodes -> Nat]
         /\ CounterInv'
         /\ \A m \in Nodes, q \in Keys : \/ store'[m][q] = store[m][q]
                                       \/ /\ m = n /\ q = write[u].key
                                          /\ store'[m][q] = [value |-> u, version |-> write[u].version]
                                          /\ store[m][q].version <= write[u].version
         /\ store'[n][write[u].key].version >= write[u].version
         /\ \A m \in Nodes \ {n} : version'[m] = version[m]
         /\ version'[n] >= version[n]
<1> DEFINE k == write[u].key
           v == write[u].version
           rec == [value |-> u, version |-> v]
<1>1. k \in Keys /\ v \in Nat /\ rec \in Record /\ store[n][k].version \in Nat
  BY DEF NodeType, WriteState, Record
<1>2. /\ version' \in [Nodes -> Nat] /\ version'[n] >= v /\ version'[n] >= version[n]
      /\ \A m \in Nodes \ {n} : version'[m] = version[m]
  BY <1>1 DEF NodeType, Replicate
<1>3. CASE v >= store[n][k].version
  <2>1. PutRecord(n, k, rec)
    BY <1>3 DEF Replicate, Takes
  <2>2. /\ store' \in [Nodes -> [Keys -> Record]] /\ store'[n][k] = rec
        /\ \A m \in Nodes, q \in Keys : m # n \/ q # k => store'[m][q] = store[m][q]
    BY <1>1, <2>1, PutMeans
  <2>3. CounterInv'
    <3>1. ASSUME NEW m \in Nodes, NEW q \in Keys PROVE store'[m][q].version <= version'[m]
      <4>1. store[m][q].version \in Nat /\ version[m] \in Nat /\ version'[m] \in Nat
        BY <1>2 DEF NodeType, Record
      <4>2. CASE m = n /\ q = k
        BY <4>2, <1>2, <2>2
      <4>3. CASE m # n \/ q # k
        BY <4>1, <4>3, <1>2, <2>2 DEF CounterInv
      <4> QED BY <4>2, <4>3
    <3> QED BY <3>1 DEF CounterInv
  <2> QED BY <1>1, <1>2, <1>3, <2>2, <2>3
<1>4. CASE ~(v >= store[n][k].version)
  <2>1. store' = store
    BY <1>4 DEF Replicate, Takes
  <2>2. CounterInv'
    BY <1>2, <2>1 DEF CounterInv, NodeType, Record
  <2> QED BY <1>1, <1>2, <1>4, <2>1, <2>2 DEF NodeType
<1> QED BY <1>3, <1>4

-----------------------------------------------------------------------------
(* What each action does to the nodes.                                     *)

Grows == \A n \in Nodes, k \in Keys : store'[n][k].version >= store[n][k].version

\* The record and the counter of a node that takes a write.
SetRecord(u, n, k) == [value |-> u, version |-> version[n] + 1]

LEMMA SetMeans ==
  ASSUME NodeType, CounterInv, NEW u \in Writes, NEW n \in Nodes, NEW k \in Keys, Set(u, n, k)
  PROVE  /\ store' \in [Nodes -> [Keys -> Record]] /\ version' \in [Nodes -> Nat]
         /\ store'[n][k] = SetRecord(u, n, k)
         /\ \A m \in Nodes, q \in Keys : m # n \/ q # k => store'[m][q] = store[m][q]
         /\ version'[n] = version[n] + 1 /\ \A m \in Nodes \ {n} : version'[m] = version[m]
         /\ write' \in [Writes -> WriteState] /\ \A v \in Writes \ {u} : write'[v] = write[v]
         /\ write'[u].key = k /\ write'[u].node = n /\ write'[u].version = version[n] + 1
         /\ write'[u].rpc = "sent"
         /\ \/ write'[u].pc = "done" /\ After(n, 0) = {}
            \/ /\ write'[u].pc = IF RequiredAcks = 0 THEN "background" ELSE "sync"
               /\ write'[u].to \in After(n, 0)
               /\ \A p \in After(n, 0) : write'[u].to <= p
         /\ CounterInv' /\ Grows /\ late' = late
<1> DEFINE pc == IF RequiredAcks = 0 THEN "background" ELSE "sync"
           st == Replicating(k, n, version[n] + 1, pc, 0)
<1>1. version[n] \in Nat /\ version[n] + 1 \in Nat /\ SetRecord(u, n, k) \in Record
  BY DEF NodeType, SetRecord, Record
<1>2. /\ store' \in [Nodes -> [Keys -> Record]] /\ store'[n][k] = SetRecord(u, n, k)
      /\ \A m \in Nodes, q \in Keys : m # n \/ q # k => store'[m][q] = store[m][q]
  BY <1>1, PutMeans DEF Set, SetRecord
<1>3. /\ version' \in [Nodes -> Nat] /\ version'[n] = version[n] + 1
      /\ \A m \in Nodes \ {n} : version'[m] = version[m]
  BY <1>1 DEF NodeType, Set
<1>4. /\ st \in WriteState
      /\ st.key = k /\ st.node = n /\ st.version = version[n] + 1 /\ st.rpc = "sent"
      /\ \/ st.pc = "done" /\ After(n, 0) = {}
         \/ st.pc = pc /\ st.to \in After(n, 0) /\ \A p \in After(n, 0) : st.to <= p
  <2>1. pc \in {"sync", "background"}
    OBVIOUS
  <2> HIDE DEF pc
  <2> QED BY <1>1, <2>1, ReplicatingMeans
<1>5. SetWrite(u, st)
  BY DEF Set
<1> HIDE DEF st
<1>6. /\ write' \in [Writes -> WriteState] /\ write'[u] = st
      /\ \A v \in Writes \ {u} : write'[v] = write[v]
  BY <1>4, <1>5, SetWriteMeans
<1>7. CounterInv' /\ Grows
  <2>1. ASSUME NEW m \in Nodes, NEW q \in Keys
        PROVE  store'[m][q].version <= version'[m] /\ store'[m][q].version >= store[m][q].version
    <3>1. store[m][q].version \in Nat /\ version[m] \in Nat /\ store[m][q].version <= version[m]
      BY DEF NodeType, Record, CounterInv
    <3>2. CASE m = n /\ q = k
      BY <3>1, <3>2, <1>2, <1>3 DEF SetRecord
    <3>3. CASE m # n \/ q # k
      BY <3>1, <3>3, <1>2, <1>3
    <3> QED BY <3>2, <3>3
  <2> QED BY <2>1 DEF CounterInv, Grows
<1> QED BY <1>2, <1>3, <1>4, <1>6, <1>7 DEF Set

LEMMA ReplicateGrows ==
  ASSUME NodeType, CounterInv, NEW n \in Nodes, NEW u \in Writes, Replicate(n, u)
  PROVE  Grows
<1> SUFFICES ASSUME NEW m \in Nodes, NEW q \in Keys
             PROVE  store'[m][q].version >= store[m][q].version
  BY DEF Grows
<1>1. store[m][q].version \in Nat /\ write[u].version \in Nat
  BY DEF NodeType, Record, WriteState
<1>2. \/ store'[m][q] = store[m][q]
      \/ /\ store'[m][q] = [value |-> u, version |-> write[u].version]
         /\ store[m][q].version <= write[u].version
  BY ReplicateMeans
<1>3. [value |-> u, version |-> write[u].version].version = write[u].version
  OBVIOUS
<1> QED BY <1>1, <1>2, <1>3

LEMMA ArriveMeans ==
  ASSUME NodeType, NEW u \in Writes, Arrive(u)
  PROVE  /\ write' \in [Writes -> WriteState] /\ \A v \in Writes \ {u} : write'[v] = write[v]
         /\ Active(u) /\ write'[u].pc = write[u].pc /\ write'[u].key = write[u].key
         /\ write'[u].node = write[u].node /\ write'[u].version = write[u].version
         /\ write'[u].to = write[u].to /\ late' = late /\ Replicate(write[u].to, u)
<1> DEFINE st == [write[u] EXCEPT !.rpc = "arrived"]
<1>1. write[u] \in WriteState
  BY DEF NodeType
<1>2. /\ st \in WriteState
      /\ st = [pc |-> write[u].pc, key |-> write[u].key, node |-> write[u].node,
               version |-> write[u].version, to |-> write[u].to, rpc |-> "arrived"]
  BY <1>1, StateMeans
<1>3. SetWrite(u, st) /\ Active(u) /\ late' = late /\ Replicate(write[u].to, u)
  BY DEF Arrive
<1> HIDE DEF st
<1>4. /\ write' \in [Writes -> WriteState] /\ write'[u] = st
      /\ \A v \in Writes \ {u} : write'[v] = write[v]
  BY <1>2, <1>3, SetWriteMeans
<1> QED BY <1>2, <1>3, <1>4

\* The next request of a write, as Reply and ReplicationFails make it.
LEMMA MoveOnMeans ==
  ASSUME NodeType, NEW u \in Writes, NEW pc \in {"sync", "background"},
         SetWrite(u, GoOn(u, pc))
  PROVE  /\ write' \in [Writes -> WriteState] /\ \A v \in Writes \ {u} : write'[v] = write[v]
         /\ write'[u].key = write[u].key /\ write'[u].node = write[u].node
         /\ write'[u].version = write[u].version /\ write'[u].rpc = "sent"
         /\ \/ write'[u].pc = "done" /\ After(write[u].node, write[u].to) = {}
            \/ /\ write'[u].pc = pc /\ write'[u].to \in After(write[u].node, write[u].to)
               /\ \A p \in After(write[u].node, write[u].to) : write'[u].to <= p
<1> DEFINE st == GoOn(u, pc)
<1>1. /\ st \in WriteState
      /\ st.key = write[u].key /\ st.node = write[u].node
      /\ st.version = write[u].version /\ st.rpc = "sent"
      /\ \/ st.pc = "done" /\ After(write[u].node, write[u].to) = {}
         \/ /\ st.pc = pc /\ st.to \in After(write[u].node, write[u].to)
            /\ \A p \in After(write[u].node, write[u].to) : st.to <= p
  BY GoOnMeans
<1> HIDE DEF st
<1>2. SetWrite(u, st)
  BY DEF st
<1>3. /\ write' \in [Writes -> WriteState] /\ write'[u] = st
      /\ \A v \in Writes \ {u} : write'[v] = write[v]
  BY <1>1, <1>2, SetWriteMeans
<1> QED BY <1>1, <1>3

LEMMA FailMeans ==
  ASSUME NodeType, NEW u \in Writes, SetWrite(u, [write[u] EXCEPT !.pc = "failed"])
  PROVE  /\ write' \in [Writes -> WriteState] /\ \A v \in Writes \ {u} : write'[v] = write[v]
         /\ write'[u].pc = "failed"
         /\ write'[u].key = write[u].key /\ write'[u].node = write[u].node
         /\ write'[u].version = write[u].version
<1> DEFINE st == [write[u] EXCEPT !.pc = "failed"]
<1>1. write[u] \in WriteState
  BY DEF NodeType
<1>2. /\ st \in WriteState /\ st.pc = "failed" /\ st.key = write[u].key
      /\ st.node = write[u].node /\ st.version = write[u].version
  BY <1>1 DEF WriteState
<1> HIDE DEF st
<1>3. SetWrite(u, st)
  BY DEF st
<1>4. /\ write' \in [Writes -> WriteState] /\ write'[u] = st
      /\ \A v \in Writes \ {u} : write'[v] = write[v]
  BY <1>2, <1>3, SetWriteMeans
<1> QED BY <1>2, <1>4

\* The kinds of steps, for every invariant below.
LEMMA Split ==
  ASSUME [Next]_vars
  PROVE  /\ setting' = setting
         /\ \/ \E u \in Writes, n \in Nodes, k \in Keys : Set(u, n, k)
            \/ \E u \in Writes : Arrive(u) \/ Reply(u) \/ ReplicationFails(u)
            \/ \E u \in Writes, n \in Nodes : ArriveLate(u, n)
            \/ UNCHANGED <<store, version, write, late>>
BY DEF Next, Step, vars, Replication, LocalRead, CoordinatedRead, StartRead, AskFollower,
       ReadFails

LEMMA NextNodeType ==
  ASSUME NodeType, CounterInv, [Next]_vars
  PROVE  NodeType' /\ CounterInv' /\ Grows
<1>0. setting' = setting
  BY Split
<1>00. ASSUME UNCHANGED <<store, version>> PROVE CounterInv' /\ Grows
  BY <1>00 DEF CounterInv, Grows, NodeType, Record
<1>1. ASSUME NEW u \in Writes, NEW n \in Nodes, NEW k \in Keys, Set(u, n, k)
      PROVE  NodeType' /\ CounterInv' /\ Grows
  BY <1>0, <1>1, SetMeans DEF NodeType
<1>2. ASSUME NEW u \in Writes, Arrive(u) PROVE NodeType' /\ CounterInv' /\ Grows
  <2>1. write[u].to \in Nodes
    BY DEF NodeType, WriteState
  <2> QED BY <1>0, <1>2, <2>1, ArriveMeans, ReplicateMeans, ReplicateGrows DEF NodeType
<1>3. ASSUME NEW u \in Writes, Reply(u) PROVE NodeType' /\ CounterInv' /\ Grows
  <2> DEFINE pc == IF AcksWith(u) >= RequiredAcks THEN "background" ELSE "sync"
  <2>1. pc \in {"sync", "background"} /\ SetWrite(u, GoOn(u, pc))
    BY <1>3 DEF Reply
  <2> HIDE DEF pc
  <2>2. write' \in [Writes -> WriteState]
    BY <2>1, MoveOnMeans
  <2> QED BY <1>0, <1>00, <1>3, <2>2 DEF NodeType, Reply
<1>4. ASSUME NEW u \in Writes, ReplicationFails(u) PROVE NodeType' /\ CounterInv' /\ Grows
  <2>1. write' \in [Writes -> WriteState]
    <3>1. CASE write[u].pc = "sync"
      BY <1>4, <3>1, FailMeans DEF ReplicationFails
    <3>2. CASE write[u].pc # "sync"
      BY <1>4, <3>2, MoveOnMeans DEF ReplicationFails
    <3> QED BY <3>1, <3>2
  <2>2. late' \subseteq Writes \X Nodes
    <3>1. write[u].to \in Nodes
      BY DEF NodeType, WriteState
    <3> QED BY <1>4, <3>1 DEF NodeType, ReplicationFails
  <2> QED BY <1>0, <1>00, <1>4, <2>1, <2>2 DEF NodeType, ReplicationFails
<1>5. ASSUME NEW u \in Writes, NEW n \in Nodes, ArriveLate(u, n)
      PROVE  NodeType' /\ CounterInv' /\ Grows
  BY <1>0, <1>5, ReplicateMeans, ReplicateGrows DEF NodeType, ArriveLate
<1>6. CASE UNCHANGED <<store, version, write, late>>
  BY <1>0, <1>00, <1>6 DEF NodeType
<1> QED BY <1>1, <1>2, <1>3, <1>4, <1>5, <1>6, Split

-----------------------------------------------------------------------------

\* What nodes have, they keep.
LEMMA HasKept ==
  ASSUME NodeType, NodeType', Grows, NEW v \in Writes, NEW p \in Nodes, HasWrite(p, v),
         write'[v].key = write[v].key, write'[v].version = write[v].version
  PROVE  HasWrite(p, v)'
<1>1. /\ write[v].key \in Keys /\ write[v].version \in Nat
      /\ store[p][write[v].key].version \in Nat /\ store'[p][write[v].key].version \in Nat
  BY DEF NodeType, WriteState, Record
<1> QED BY <1>1 DEF HasWrite, Grows

\* A write that has stayed as it was stays sent.
SentFrom(u, n, t) ==
    /\ HasWrite(n, u)
    /\ t # n
    /\ write[u].rpc = "arrived" => HasWrite(t, u)
    /\ write[u].pc = "sync" => \A p \in Others(n) : p < t => HasWrite(p, u)
    /\ write[u].pc = "background" => Cardinality({p \in Others(n) : p < t}) >= RequiredAcks

LEMMA SentKept ==
  ASSUME NodeType, NodeType', Grows, SentInv, setting' = setting,
         NEW v \in Writes, write'[v] = write[v],
         NEW n \in Nodes, NEW t \in Nodes, Active(v)', write'[v].node = n, write'[v].to = t
  PROVE  SentFrom(v, n, t)'
<1>1. SentFrom(v, n, t)
  BY DEF SentInv, SentFrom, Active
<1>2. \A p \in Nodes : HasWrite(p, v) => HasWrite(p, v)'
  BY HasKept
<1>3. RequiredAcks' = RequiredAcks
  BY DEF RequiredAcks, W
<1> QED BY <1>1, <1>2, <1>3 DEF SentFrom, Others

\* Sets of nodes are finite.
LEMMA CardType ==
  ASSUME NEW T, T \subseteq Nodes
  PROVE  IsFiniteSet(T) /\ Cardinality(T) \in Nat
BY NodesAreFinite, FS_Subset, FS_CardinalityType

LEMMA CardGrows ==
  ASSUME NEW S, NEW T, S \subseteq T, T \subseteq Nodes
  PROVE  Cardinality(S) <= Cardinality(T)
BY CardType, FS_Subset

LEMMA OthersKept ==
  ASSUME NodeType, NEW u \in Writes, Arrive(u) \/ Reply(u) \/ ReplicationFails(u)
  PROVE  \A v \in Writes \ {u} : write'[v] = write[v]
BY DEF NodeType, Arrive, Reply, ReplicationFails, SetWrite

Before(n, t) == {p \in Others(n) : p < t}
UpTo(n, t)   == {p \in Others(n) : p <= t}

LEMMA AskedGrows ==
  ASSUME NEW n \in Nodes, NEW s \in Nodes, NEW t \in Nodes
  PROVE  /\ Cardinality(Before(n, t)) \in Nat /\ Cardinality(UpTo(n, t)) \in Nat
         /\ Cardinality(Before(n, t)) <= Cardinality(UpTo(n, t))
         /\ s < t => Cardinality(UpTo(n, s)) <= Cardinality(Before(n, t))
<1>1. Before(n, t) \subseteq Nodes /\ UpTo(n, t) \subseteq Nodes /\ UpTo(n, s) \subseteq Nodes
  BY DEF Before, UpTo, Others
<1>2. s \in Nat /\ t \in Nat /\ \A p \in Others(n) : p \in Nat
  BY NodesAreFinite DEF Others
<1>3. Before(n, t) \subseteq UpTo(n, t) /\ (s < t => UpTo(n, s) \subseteq Before(n, t))
  BY <1>2 DEF Before, UpTo
<1>4. Cardinality(Before(n, t)) \in Nat /\ Cardinality(UpTo(n, t)) \in Nat
  BY <1>1, CardType
<1>5. Cardinality(Before(n, t)) <= Cardinality(UpTo(n, t))
  BY <1>1, <1>3, CardGrows
<1>6. s < t => Cardinality(UpTo(n, s)) <= Cardinality(Before(n, t))
  BY <1>1, <1>3, CardGrows
<1> QED BY <1>4, <1>5, <1>6

\* A write in the background stays there: it has been acknowledged by enough nodes.
LEMMA BackgroundIsAcked ==
  ASSUME NodeType, SentInv, NEW u \in Writes, write[u].pc = "background"
  PROVE  AcksWith(u) >= RequiredAcks
<1>1. PICK n \in Nodes, t \in Nodes : write[u].node = n /\ write[u].to = t
  BY DEF NodeType, WriteState
<1>2. Cardinality(Before(n, t)) >= RequiredAcks
  BY <1>1 DEF SentInv, Active, Before
<1>3. RequiredAcks \in Int
  BY SettingType, NodesAreFinite DEF RequiredAcks
<1>4. AcksWith(u) = Cardinality(UpTo(n, t))
  BY <1>1 DEF AcksWith, UpTo
<1> QED BY <1>2, <1>3, <1>4, AskedGrows

\* What a step does to one write.
LEMMA StepOf ==
  ASSUME NodeType, CounterInv, [Next]_vars, NEW v \in Writes
  PROVE  \/ write'[v] = write[v]
         \/ \E m \in Nodes, k \in Keys : Set(v, m, k)
         \/ Arrive(v) \/ Reply(v) \/ ReplicationFails(v)
<1>1. ASSUME NEW u \in Writes, NEW m \in Nodes, NEW k \in Keys, Set(u, m, k), u # v
      PROVE  write'[v] = write[v]
  BY <1>1, SetMeans
<1>2. ASSUME NEW u \in Writes, Arrive(u) \/ Reply(u) \/ ReplicationFails(u), u # v
      PROVE  write'[v] = write[v]
  BY <1>2, OthersKept
<1> QED BY <1>1, <1>2, Split DEF ArriveLate

LEMMA NextSentInv ==
  ASSUME NodeType, CounterInv, SentInv, [Next]_vars
  PROVE  SentInv'
<1>0. /\ NodeType' /\ Grows /\ setting' = setting /\ RequiredAcks' = RequiredAcks
      /\ RequiredAcks \in Nat
  BY NextNodeType, Split, SettingType, NodesAreFinite DEF RequiredAcks, W
<1> SUFFICES ASSUME NEW v \in Writes, NEW n \in Nodes, NEW t \in Nodes,
                    Active(v)', write'[v].node = n, write'[v].to = t
             PROVE  SentFrom(v, n, t)'
  BY DEF SentInv, SentFrom
<1>1. CASE write'[v] = write[v]
  BY <1>0, <1>1, SentKept
<1>2. ASSUME NEW m \in Nodes, NEW k \in Keys, Set(v, m, k) PROVE SentFrom(v, n, t)'
  <2>1. /\ m = n /\ t \in After(n, 0) /\ \A p \in After(n, 0) : t <= p
        /\ write'[v].rpc = "sent" /\ write'[v].key = k
        /\ store'[n][k] = SetRecord(v, n, k) /\ write'[v].version = version[n] + 1
    BY <1>2, SetMeans DEF Active
  <2>2. HasWrite(n, v)'
    BY <2>1 DEF HasWrite, SetRecord, NodeType
  <2>3. \A p \in Others(n) : ~(p < t)
    <3>1. \A p \in Others(n) : p \in After(n, 0) /\ p \in Nat
      BY NodesAreFinite DEF After, Others, Nodes
    <3>2. t \in Nat
      BY NodesAreFinite
    <3> QED BY <2>1, <3>1, <3>2
  <2>4. write'[v].pc = "background" => RequiredAcks = 0
    BY <1>2, SetMeans DEF Active
  <2>5. Cardinality({p \in Others(n) : p < t}) >= 0
    BY AskedGrows DEF Before
  <2> QED BY <1>0, <2>1, <2>2, <2>3, <2>4, <2>5 DEF SentFrom, After, Others
<1>3. CASE Arrive(v)
  <2>1. /\ Active(v) /\ write'[v].pc = write[v].pc /\ write'[v].key = write[v].key
        /\ write[v].node = n /\ write'[v].version = write[v].version
        /\ write[v].to = t /\ Replicate(t, v)
    BY <1>3, ArriveMeans
  <2>2. SentFrom(v, n, t)
    BY <2>1 DEF SentInv, SentFrom
  <2>3. \A p \in Nodes : HasWrite(p, v) => HasWrite(p, v)'
    BY <1>0, <2>1, HasKept
  <2>4. HasWrite(t, v)'
    BY <2>1, ReplicateMeans DEF HasWrite
  <2> QED BY <1>0, <2>1, <2>2, <2>3, <2>4 DEF SentFrom, Others
\* After an answer, or a failure in the background, the write is where it was.
<1>4. ASSUME NEW pc \in {"sync", "background"}, SetWrite(v, GoOn(v, pc)), Active(v),
             pc = "sync" => write[v].pc = "sync" /\ write[v].rpc = "arrived",
             pc = "background" => AcksWith(v) >= RequiredAcks
      PROVE  SentFrom(v, n, t)'
  <2>1. PICK s \in Nodes : write[v].to = s
    BY DEF NodeType, WriteState
  <2>2. /\ write'[v].key = write[v].key /\ write[v].node = n
        /\ write'[v].version = write[v].version /\ write'[v].rpc = "sent"
        /\ write'[v].pc = pc /\ t \in After(n, s) /\ \A p \in After(n, s) : t <= p
    BY <1>4, <2>1, MoveOnMeans DEF Active
  <2>3. SentFrom(v, n, s)
    BY <1>4, <2>1, <2>2 DEF SentInv, SentFrom
  <2>4. \A p \in Nodes : HasWrite(p, v) => HasWrite(p, v)'
    BY <1>0, <2>2, HasKept
  <2>5. ASSUME pc = "sync", NEW p \in Others(n), p < t PROVE HasWrite(p, v)
    <3>1. p \in Nat /\ s \in Nat /\ t \in Nat /\ p \in Nodes
      BY NodesAreFinite DEF Others
    <3>2. p < s \/ p = s
      BY <2>2, <2>5, <3>1 DEF After
    <3> QED BY <1>4, <2>3, <2>5, <3>2 DEF SentFrom
  <2>6. ASSUME pc = "background"
        PROVE  Cardinality({p \in Others(n) : p < t}) >= RequiredAcks
    <3>1. s < t
      BY <2>2, NodesAreFinite DEF After, Others
    <3>2. Cardinality(UpTo(n, s)) >= RequiredAcks
      BY <1>4, <2>1, <2>2, <2>6 DEF AcksWith, UpTo
    <3>3. Cardinality(Before(n, t)) >= RequiredAcks
      BY <1>0, <3>1, <3>2, AskedGrows
    <3> QED BY <3>3 DEF Before
  <2> QED BY <1>0, <2>2, <2>3, <2>4, <2>5, <2>6 DEF SentFrom, Others, After
<1>5. CASE Reply(v)
  <2> DEFINE pc == IF AcksWith(v) >= RequiredAcks THEN "background" ELSE "sync"
  <2>1. pc \in {"sync", "background"} /\ SetWrite(v, GoOn(v, pc)) /\ Active(v)
    BY <1>5 DEF Reply
  <2>2. write[v].pc = "background" => AcksWith(v) >= RequiredAcks
    BY <1>0, <2>1, BackgroundIsAcked
  <2>3. write[v].rpc = "arrived"
    BY <1>5 DEF Reply
  <2> QED BY <1>4, <2>1, <2>2, <2>3 DEF Active
<1>6. CASE ReplicationFails(v)
  <2>1. write[v].pc # "sync" /\ Active(v)
    BY <1>6, FailMeans DEF ReplicationFails, Active
  <2>2. AcksWith(v) >= RequiredAcks
    BY <1>0, <2>1, BackgroundIsAcked DEF Active
  <2> QED BY <1>4, <1>6, <2>1, <2>2 DEF ReplicationFails
<1>7. write'[v] = write[v] \/ (\E m \in Nodes, k \in Keys : Set(v, m, k))
      \/ Arrive(v) \/ Reply(v) \/ ReplicationFails(v)
  BY StepOf
<1> QED BY <1>1, <1>2, <1>3, <1>5, <1>6, <1>7

-----------------------------------------------------------------------------

Holders(u) == {n \in Nodes : HasWrite(n, u)}

\* The nodes that a write has been sent to, and its own, are W once it is acknowledged.
LEMMA CountHolders ==
  ASSUME NEW S \in SUBSET Nodes, NEW n \in S, NEW T \in SUBSET S, n \notin T
  PROVE  Cardinality(S) >= Cardinality(T) + 1
<1>1. S \subseteq Nodes /\ T \subseteq Nodes /\ IsFiniteSet(S) /\ IsFiniteSet(T)
  BY CardType
<1>2. Cardinality(T \cup {n}) = Cardinality(T) + 1
  BY <1>1, FS_AddElement
<1>3. Cardinality(T \cup {n}) <= Cardinality(S)
  BY <1>1, FS_Subset
<1>4. Cardinality(T) \in Nat /\ Cardinality(S) \in Nat
  BY <1>1, CardType
<1> QED BY <1>2, <1>3, <1>4

\* A write that is done at once is made in a cluster of one node.
LEMMA LastNode ==
  ASSUME NEW n \in Nodes, NEW t \in Nodes \cup {0}, After(n, t) = {}
  PROVE  Others(n) \subseteq {p \in Others(n) : p <= t}
<1> SUFFICES ASSUME NEW p \in Others(n) PROVE p <= t
  OBVIOUS
<1>1. p \in Nat /\ t \in Nat /\ ~(p > t)
  BY NodesAreFinite DEF After, Others
<1> QED BY <1>1

LEMMA NextAckedAtW ==
  ASSUME NodeType, CounterInv, SentInv, AckedAtW, [Next]_vars
  PROVE  AckedAtW'
<1>0. NodeType' /\ Grows /\ setting' = setting /\ W' = W /\ W \in 1..N /\ SentInv'
  BY NextNodeType, NextSentInv, Split, SettingType DEF W
<1> SUFFICES ASSUME NEW v \in Writes, Acked(v)'
             PROVE  Cardinality(Holders(v)') >= W
  BY <1>0 DEF AckedAtW, Holders, HasWrite
<1>1. ASSUME write'[v].key = write[v].key, write'[v].version = write[v].version,
             Cardinality(Holders(v)) >= W
      PROVE  Cardinality(Holders(v)') >= W
  <2>1. Holders(v) \subseteq Holders(v)'
    BY <1>0, <1>1, HasKept DEF Holders
  <2>2. Holders(v) \subseteq Nodes /\ Holders(v)' \subseteq Nodes
    BY DEF Holders
  <2>3. /\ Cardinality(Holders(v)) <= Cardinality(Holders(v)')
        /\ Cardinality(Holders(v)) \in Nat /\ Cardinality(Holders(v)') \in Nat
    BY <2>1, <2>2, CardGrows, CardType
  <2> QED BY <1>0, <1>1, <2>3
<1>2. Acked(v) => Cardinality(Holders(v)) >= W
  BY DEF AckedAtW, Holders, HasWrite
<1>3. ASSUME NEW m \in Nodes, NEW k \in Keys, Set(v, m, k)
      PROVE  Cardinality(Holders(v)') >= W
  <2>1. W = 1
    <3>1. CASE After(m, 0) = {}
      <4>1. \A p \in Nodes : p = m
        BY <3>1, KVAssumption DEF After, Others, Nodes
      <4>2. N \in Nodes /\ 1 \in Nodes
        BY KVAssumption DEF Nodes
      <4> QED BY <1>0, <4>1, <4>2
    <3>2. CASE After(m, 0) # {}
      BY <1>0, <1>3, <3>2, SetMeans DEF Acked, RequiredAcks
    <3> QED BY <3>1, <3>2
  <2>2. m \in Holders(v)'
    <3>1. /\ write'[v].key = k /\ write'[v].version = version[m] + 1
          /\ store'[m][k].version = version[m] + 1 /\ version[m] + 1 \in Nat
      <4>1. version[m] \in Nat /\ SetRecord(v, m, k).version = version[m] + 1
        BY DEF SetRecord, NodeType
      <4> QED BY <1>3, <4>1, SetMeans
    <3>2. HasWrite(m, v)'
      BY <3>1 DEF HasWrite
    <3> QED BY <3>2 DEF Holders
  <2>3. Holders(v)' \in SUBSET Nodes
    BY DEF Holders
  <2>4. Cardinality(Holders(v)') >= Cardinality({}) + 1
    BY <2>2, <2>3, CountHolders
  <2> QED BY <2>1, <2>4, FS_EmptySet
<1>4. CASE Arrive(v)
  <2>1. Acked(v) /\ write'[v].key = write[v].key /\ write'[v].version = write[v].version
    BY <1>4, ArriveMeans DEF Acked
  <2> QED BY <1>1, <1>2, <2>1
\* The answer that completes the acknowledgements.
<1>5. CASE Reply(v)
  <2>1. PICK n \in Nodes, t \in Nodes : write[v].node = n /\ write[v].to = t
    BY DEF NodeType, WriteState
  <2> DEFINE pc == IF AcksWith(v) >= RequiredAcks THEN "background" ELSE "sync"
  <2>2. /\ pc \in {"sync", "background"} /\ SetWrite(v, GoOn(v, pc))
        /\ Active(v) /\ write[v].rpc = "arrived" /\ store' = store
        /\ pc = "background" => AcksWith(v) >= RequiredAcks
    BY <1>5 DEF Reply
  <2> HIDE DEF pc
  <2>3. /\ write'[v].key = write[v].key /\ write'[v].version = write[v].version
        /\ \/ After(n, t) = {}
           \/ pc = "background"
    BY <2>1, <2>2, MoveOnMeans DEF Acked
  <2>4. CASE write[v].pc = "background"
    BY <1>1, <1>2, <2>3, <2>4 DEF Acked
  <2>5. CASE write[v].pc = "sync"
    <3>1. /\ HasWrite(n, v) /\ HasWrite(t, v) /\ n # t
          /\ \A p \in Others(n) : p < t => HasWrite(p, v)
      BY <2>1, <2>2, <2>5 DEF SentInv
    <3>2. UpTo(n, t) \subseteq Holders(v)
      <4> SUFFICES ASSUME NEW p \in Others(n), p <= t PROVE HasWrite(p, v)
        BY DEF UpTo, Holders, Others
      <4>1. p \in Nat /\ t \in Nat
        BY NodesAreFinite DEF Others
      <4>2. p < t \/ p = t
        BY <4>1
      <4> QED BY <3>1, <4>2
    <3>3. Holders(v) \in SUBSET Nodes /\ n \in Holders(v) /\ n \notin UpTo(n, t)
      BY <3>1 DEF Holders, UpTo, Others
    <3>4. Cardinality(Holders(v)) >= Cardinality(UpTo(n, t)) + 1
      BY <3>2, <3>3, CountHolders
    <3>5. Cardinality(UpTo(n, t)) \in Nat /\ Cardinality(Holders(v)) \in Nat
      BY <3>3, AskedGrows, CardType
    <3>6. CASE pc = "background"
      <4>1. Cardinality(UpTo(n, t)) >= W - 1
        BY <2>1, <2>2, <3>6 DEF AcksWith, UpTo, RequiredAcks
      <4> QED BY <1>0, <1>1, <2>3, <3>4, <3>5, <4>1
    <3>7. CASE After(n, t) = {}
      <4>1. Holders(v) = Nodes
        BY <3>2, <3>3, <3>7, LastNode DEF UpTo, Others
      <4>2. Cardinality(Holders(v)) >= W
        BY <1>0, <4>1, NodesAreFinite, KVAssumption
      <4> QED BY <1>1, <2>3, <4>2
    <3> QED BY <2>3, <3>6, <3>7
  <2> QED BY <2>2, <2>4, <2>5 DEF Active
<1>6. CASE ReplicationFails(v)
  <2>1. write[v].pc # "sync" /\ Active(v)
    BY <1>6, FailMeans DEF ReplicationFails, Active, Acked
  <2>2. write'[v].key = write[v].key /\ write'[v].version = write[v].version
    BY <1>6, <2>1, MoveOnMeans DEF ReplicationFails
  <2> QED BY <1>1, <1>2, <2>1, <2>2 DEF Active, Acked
<1>7. CASE write'[v] = write[v]
  BY <1>1, <1>2, <1>7 DEF Acked
<1>8. write'[v] = write[v] \/ (\E m \in Nodes, k \in Keys : Set(v, m, k))
      \/ Arrive(v) \/ Reply(v) \/ ReplicationFails(v)
  BY StepOf
<1> QED BY <1>3, <1>4, <1>5, <1>6, <1>7, <1>8

-----------------------------------------------------------------------------

(* With one leader, versions are names of writes.                          *)

Made(u) == write[u].pc # "new"

\* Every write is made at the leader, with a version of its own, and stays there; a node
\* has nothing but records of writes.
LeaderInv ==
    /\ \A u \in Writes : Made(u) =>
          /\ write[u].node = Leader /\ HasWrite(Leader, u)
          /\ write[u].version >= 1 /\ write[u].version <= version[Leader]
    /\ \A u, v \in Writes : Made(u) /\ Made(v) /\ write[u].version = write[v].version => u = v
    /\ \A n \in Nodes, k \in Keys : store[n][k] # Absent =>
          \E u \in Writes : /\ Made(u) /\ write[u].key = k
                            /\ store[n][k] = [value |-> u, version |-> write[u].version]
    /\ \A u \in Writes, n \in Nodes : <<u, n>> \in late => Made(u)

\* Without faults every node that a write has been sent to has it.
NoLossInv ==
    /\ late = {}
    /\ \A u \in Writes :
          /\ write[u].pc # "failed"
          /\ Active(u) => \A p \in Others(Leader) : p < write[u].to => HasWrite(p, u)
          /\ write[u].pc = "done" => \A p \in Nodes : HasWrite(p, u)

FollowInv == setting.mode = "leader_follower" =>
                 LeaderInv /\ (~setting.lossy => NoLossInv)

Inv == NodeType /\ CounterInv /\ SentInv /\ AckedAtW /\ FollowInv

LEMMA MadeKept ==
  ASSUME NodeType, CounterInv, [Next]_vars, NEW v \in Writes, Made(v)
  PROVE  /\ Made(v)' /\ write'[v].key = write[v].key
         /\ write'[v].node = write[v].node /\ write'[v].version = write[v].version
<1>1. ASSUME NEW m \in Nodes, NEW k \in Keys, Set(v, m, k) PROVE FALSE
  BY <1>1 DEF Set, Made
<1>2. CASE Arrive(v)
  BY <1>2, ArriveMeans DEF Made
<1>3. CASE Reply(v)
  <2> DEFINE pc == IF AcksWith(v) >= RequiredAcks THEN "background" ELSE "sync"
  <2>1. pc \in {"sync", "background"} /\ SetWrite(v, GoOn(v, pc))
    BY <1>3 DEF Reply
  <2> HIDE DEF pc
  <2> QED BY <2>1, MoveOnMeans DEF Made
<1>4. CASE ReplicationFails(v)
  <2>1. CASE write[v].pc = "sync"
    BY <1>4, <2>1, FailMeans DEF ReplicationFails, Made
  <2>2. CASE write[v].pc # "sync"
    BY <1>4, <2>2, MoveOnMeans DEF ReplicationFails, Made
  <2> QED BY <2>1, <2>2
<1>5. CASE write'[v] = write[v]
  BY <1>5 DEF Made
<1> QED BY <1>1, <1>2, <1>3, <1>4, <1>5, StepOf

\* The record a node keeps is of a write that was made.
LEMMA RecordKept ==
  ASSUME NodeType, CounterInv, LeaderInv, [Next]_vars, NEW n \in Nodes, NEW k \in Keys,
         store'[n][k] = store[n][k], store'[n][k] # Absent
  PROVE  \E u \in Writes : /\ Made(u)' /\ write'[u].key = k
                           /\ store'[n][k] = [value |-> u, version |-> write'[u].version]
<1>1. PICK u \in Writes : /\ Made(u) /\ write[u].key = k
                          /\ store[n][k] = [value |-> u, version |-> write[u].version]
  BY DEF LeaderInv
<1> QED BY <1>1, MadeKept

LEMMA NextLeaderInv ==
  ASSUME NodeType, CounterInv, SentInv, LeaderInv, setting.mode = "leader_follower", [Next]_vars
  PROVE  LeaderInv'
<1>0. NodeType' /\ Grows
  BY NextNodeType
<1>a. ASSUME NEW v \in Writes, Made(v)
      PROVE  write'[v].node = Leader /\ HasWrite(Leader, v)' /\ write'[v].version >= 1
  BY <1>0, <1>a, MadeKept, HasKept, NodesAreFinite DEF LeaderInv
<1>1. ASSUME NEW u \in Writes, NEW n \in Nodes, NEW k \in Keys, Set(u, n, k) PROVE LeaderInv'
  <2>1. n = Leader
    BY <1>1 DEF Set, Coordinators
  <2>2. /\ Made(u)' /\ write'[u].key = k /\ write'[u].node = Leader
        /\ write'[u].version = version[Leader] + 1 /\ version'[Leader] = version[Leader] + 1
        /\ store'[Leader][k] = SetRecord(u, Leader, k) /\ version[Leader] \in Nat
        /\ late' = late /\ \A v \in Writes \ {u} : write'[v] = write[v]
    <3>1. version[Leader] \in Nat
      BY NodesAreFinite DEF NodeType
    <3>2. Made(u)'
      BY <1>1, SetMeans DEF Made
    <3> QED BY <1>1, <2>1, <3>1, <3>2, SetMeans
  <2>3. SetRecord(u, Leader, k) = [value |-> u, version |-> write'[u].version]
    BY <2>2 DEF SetRecord
  <2>4. HasWrite(Leader, u)'
    BY <2>2, <2>3 DEF HasWrite
  <2>5. ASSUME NEW v \in Writes, Made(v)'
        PROVE  /\ write'[v].node = Leader /\ HasWrite(Leader, v)'
               /\ write'[v].version >= 1 /\ write'[v].version <= version'[Leader]
               /\ v # u => Made(v) /\ write'[v].version < write'[u].version
    <3>1. CASE v = u
      BY <3>1, <2>2, <2>4
    <3>2. CASE v # u
      <4>1. Made(v) /\ write'[v] = write[v] /\ write[v].version \in Nat
        BY <2>2, <2>5, <3>2 DEF Made, NodeType, WriteState
      <4>2. write[v].version <= version[Leader]
        BY <4>1 DEF LeaderInv
      <4> QED BY <1>a, <2>2, <4>1, <4>2
    <3> QED BY <3>1, <3>2
  <2>6. ASSUME NEW v \in Writes, NEW w \in Writes, Made(v)', Made(w)',
               write'[v].version = write'[w].version
        PROVE  v = w
    <3>0. /\ write'[u].version \in Nat /\ write'[v].version \in Nat
          /\ write'[w].version \in Nat
      BY <1>0 DEF NodeType, WriteState
    <3>1. CASE v = u \/ w = u
      BY <2>5, <2>6, <3>0, <3>1
    <3>2. CASE v # u /\ w # u
      BY <2>2, <2>5, <2>6, <3>2 DEF LeaderInv
    <3> QED BY <3>1, <3>2
  <2>7. ASSUME NEW m \in Nodes, NEW q \in Keys, store'[m][q] # Absent
        PROVE  \E v \in Writes : /\ Made(v)' /\ write'[v].key = q
                                 /\ store'[m][q] = [value |-> v, version |-> write'[v].version]
    <3>1. CASE m = Leader /\ q = k
      BY <3>1, <2>2, <2>3
    <3>2. CASE m # Leader \/ q # k
      <4>1. store'[m][q] = store[m][q]
        BY <1>1, <2>1, <3>2, SetMeans
      <4> QED BY <2>7, <4>1, RecordKept
    <3> QED BY <3>1, <3>2
  <2>8. \A v \in Writes, m \in Nodes : <<v, m>> \in late' => Made(v)'
    BY <2>2, MadeKept DEF LeaderInv
  <2> QED BY <2>5, <2>6, <2>7, <2>8 DEF LeaderInv
\* A write that arrives is one that was made; no new one is.
<1>2. ASSUME version'[Leader] >= version[Leader],
             \A v \in Writes : Made(v)' => Made(v),
             \A v \in Writes, m \in Nodes : <<v, m>> \in late' => Made(v),
             \A m \in Nodes, q \in Keys : \/ store'[m][q] = store[m][q]
                                         \/ \E u \in Writes : /\ Made(u) /\ write[u].key = q
                                               /\ store'[m][q] = [value |-> u, version |-> write[u].version]
      PROVE  LeaderInv'
  <2>1. ASSUME NEW v \in Writes, Made(v)'
        PROVE  /\ write'[v].node = Leader /\ HasWrite(Leader, v)'
               /\ write'[v].version >= 1 /\ write'[v].version <= version'[Leader]
    <3>1. Made(v) /\ write'[v].version = write[v].version /\ write[v].version <= version[Leader]
      BY <1>2, <2>1, MadeKept DEF LeaderInv
    <3>2. /\ write[v].version \in Nat /\ version[Leader] \in Nat /\ version'[Leader] \in Nat
      BY <1>0, NodesAreFinite DEF NodeType, WriteState
    <3> QED BY <1>a, <1>2, <3>1, <3>2
  <2>2. ASSUME NEW v \in Writes, NEW w \in Writes, Made(v)', Made(w)',
               write'[v].version = write'[w].version
        PROVE  v = w
    BY <1>2, <2>2, MadeKept DEF LeaderInv
  <2>3. ASSUME NEW m \in Nodes, NEW q \in Keys, store'[m][q] # Absent
        PROVE  \E v \in Writes : /\ Made(v)' /\ write'[v].key = q
                                 /\ store'[m][q] = [value |-> v, version |-> write'[v].version]
    <3>1. CASE store'[m][q] = store[m][q]
      BY <2>3, <3>1, RecordKept
    <3>2. ASSUME NEW u \in Writes, Made(u), write[u].key = q,
                 store'[m][q] = [value |-> u, version |-> write[u].version]
          PROVE  \E v \in Writes : /\ Made(v)' /\ write'[v].key = q
                                   /\ store'[m][q] = [value |-> v, version |-> write'[v].version]
      BY <3>2, MadeKept
    <3> QED BY <1>2, <3>1, <3>2
  <2>4. \A v \in Writes, m \in Nodes : <<v, m>> \in late' => Made(v)'
    BY <1>2, MadeKept
  <2> QED BY <2>1, <2>2, <2>3, <2>4 DEF LeaderInv
<1>3. ASSUME NEW u \in Writes, NEW n \in Nodes, Replicate(n, u), Made(u)
      PROVE  /\ version'[Leader] >= version[Leader]
             /\ \A m \in Nodes, q \in Keys : \/ store'[m][q] = store[m][q]
                                           \/ \E v \in Writes : /\ Made(v) /\ write[v].key = q
                                                 /\ store'[m][q] = [value |-> v, version |-> write[v].version]
  <2>1. version'[Leader] >= version[Leader]
    <3>1. version[Leader] \in Nat
      BY NodesAreFinite DEF NodeType
    <3>2. version'[n] >= version[n] /\ \A m \in Nodes \ {n} : version'[m] = version[m]
      BY <1>3, ReplicateMeans
    <3>3. CASE n = Leader
      BY <3>2, <3>3
    <3>4. CASE n # Leader
      BY <3>1, <3>2, <3>4, NodesAreFinite
    <3> QED BY <3>3, <3>4
  <2>2. ASSUME NEW m \in Nodes, NEW q \in Keys
        PROVE  \/ store'[m][q] = store[m][q]
               \/ \E v \in Writes : /\ Made(v) /\ write[v].key = q
                     /\ store'[m][q] = [value |-> v, version |-> write[v].version]
    BY <1>3, ReplicateMeans
  <2> QED BY <2>1, <2>2
<1>4. ASSUME NEW u \in Writes, Arrive(u) PROVE LeaderInv'
  <2>1. /\ write[u].to \in Nodes /\ Replicate(write[u].to, u) /\ Made(u) /\ late' = late
        /\ \A v \in Writes \ {u} : write'[v] = write[v]
    BY <1>4, ArriveMeans DEF NodeType, WriteState, Active, Made
  <2>2. \A v \in Writes : Made(v)' => Made(v)
    BY <2>1 DEF Made
  <2>3. \A v \in Writes, m \in Nodes : <<v, m>> \in late' => Made(v)
    BY <2>1 DEF LeaderInv
  <2> QED BY <1>2, <1>3, <2>1, <2>2, <2>3
<1>5. ASSUME NEW u \in Writes, Reply(u) \/ ReplicationFails(u) PROVE LeaderInv'
  <2>1. /\ Made(u) /\ store' = store /\ version' = version
        /\ \A v \in Writes \ {u} : write'[v] = write[v]
    BY <1>5, OthersKept DEF Reply, ReplicationFails, Active, Made
  <2>2. \A v \in Writes : Made(v)' => Made(v)
    BY <2>1 DEF Made
  <2>3. \A v \in Writes, m \in Nodes : <<v, m>> \in late' => Made(v)
    BY <1>5, <2>1 DEF LeaderInv, Reply, ReplicationFails
  <2>4. version'[Leader] >= version[Leader]
    BY <2>1, NodesAreFinite DEF NodeType
  <2> QED BY <1>2, <2>1, <2>2, <2>3, <2>4
<1>6. ASSUME NEW u \in Writes, NEW n \in Nodes, ArriveLate(u, n) PROVE LeaderInv'
  <2>1. /\ Made(u) /\ Replicate(n, u) /\ write' = write /\ late' \subseteq late
    BY <1>6 DEF ArriveLate, LeaderInv
  <2>2. \A v \in Writes : Made(v)' => Made(v)
    BY <2>1 DEF Made
  <2>3. \A v \in Writes, m \in Nodes : <<v, m>> \in late' => Made(v)
    BY <2>1 DEF LeaderInv
  <2> QED BY <1>2, <1>3, <2>1, <2>2, <2>3
<1>7. CASE UNCHANGED <<store, version, write, late>>
  BY <1>7 DEF LeaderInv, Made, HasWrite
<1> QED BY <1>1, <1>4, <1>5, <1>6, <1>7, Split

-----------------------------------------------------------------------------

LEMMA NextNoLossInv ==
  ASSUME NodeType, CounterInv, SentInv, LeaderInv, NoLossInv, ~setting.lossy,
         setting.mode = "leader_follower", [Next]_vars
  PROVE  NoLossInv'
<1>0. NodeType' /\ Grows /\ LeaderInv' /\ setting' = setting
  BY NextNodeType, NextLeaderInv, Split
<1>1. late' = {}
  BY Split, SetMeans, ArriveMeans DEF NoLossInv, Reply, ReplicationFails, ArriveLate
<1> SUFFICES ASSUME NEW v \in Writes
             PROVE  /\ write'[v].pc # "failed"
                    /\ Active(v)' => \A p \in Others(Leader) : p < write'[v].to => HasWrite(p, v)'
                    /\ write'[v].pc = "done" => \A p \in Nodes : HasWrite(p, v)'
  BY <1>1 DEF NoLossInv
<1>a. ASSUME Made(v) PROVE \A p \in Nodes : HasWrite(p, v) => HasWrite(p, v)'
  BY <1>0, <1>a, MadeKept, HasKept
<1>2. CASE write'[v] = write[v]
  <2>1. CASE Made(v)
    BY <1>2, <1>a, <2>1 DEF NoLossInv, Active, Others
  <2>2. CASE ~Made(v)
    BY <1>2, <2>2 DEF Active, Made
  <2> QED BY <2>1, <2>2
<1>3. ASSUME NEW m \in Nodes, NEW k \in Keys, Set(v, m, k)
      PROVE  /\ write'[v].pc # "failed"
             /\ Active(v)' => \A p \in Others(Leader) : p < write'[v].to => HasWrite(p, v)'
             /\ write'[v].pc = "done" => \A p \in Nodes : HasWrite(p, v)'
  <2>1. m = Leader
    BY <1>3 DEF Set, Coordinators
  <2>2. /\ \/ write'[v].pc = "done" /\ After(Leader, 0) = {}
           \/ /\ write'[v].pc \in {"sync", "background"} /\ write'[v].to \in After(Leader, 0)
              /\ \A p \in After(Leader, 0) : write'[v].to <= p
        /\ write'[v].pc # "new"
    BY <1>3, <2>1, SetMeans
  <2>3. HasWrite(Leader, v)'
    BY <1>0, <2>2 DEF LeaderInv, Made
  <2>4. \A p \in Others(Leader) : p \in After(Leader, 0) /\ p \in Nat
    BY KVAssumption DEF After, Others, Nodes
  <2>5. ASSUME Active(v)', NEW p \in Others(Leader), p < write'[v].to PROVE FALSE
    <3>1. write'[v].to \in Nat /\ write'[v].to <= p
      BY <2>2, <2>4, <2>5, NodesAreFinite DEF Active, After, Others
    <3> QED BY <2>4, <2>5, <3>1
  <2>6. ASSUME write'[v].pc = "done", NEW p \in Nodes PROVE HasWrite(p, v)'
    BY <2>2, <2>3, <2>4, <2>6 DEF Others
  <2> QED BY <2>2, <2>5, <2>6
<1>4. CASE Arrive(v)
  <2>1. /\ Active(v) /\ write'[v].pc = write[v].pc /\ write'[v].to = write[v].to
    BY <1>4, ArriveMeans
  <2> QED BY <1>a, <2>1 DEF NoLossInv, Active, Made, Others
<1>5. CASE Reply(v)
  <2>1. PICK t \in Nodes : write[v].to = t
    BY DEF NodeType, WriteState
  <2> DEFINE pc == IF AcksWith(v) >= RequiredAcks THEN "background" ELSE "sync"
  <2>2. /\ pc \in {"sync", "background"} /\ SetWrite(v, GoOn(v, pc))
        /\ Active(v) /\ write[v].rpc = "arrived" /\ Made(v)
    BY <1>5 DEF Reply, Active, Made
  <2> HIDE DEF pc
  <2>3. write[v].node = Leader /\ HasWrite(Leader, v)
    BY <2>2 DEF LeaderInv
  <2>4. \/ write'[v].pc = "done" /\ After(Leader, t) = {}
        \/ /\ write'[v].pc = pc /\ write'[v].to \in After(Leader, t)
           /\ \A p \in After(Leader, t) : write'[v].to <= p
    BY <2>1, <2>2, <2>3, MoveOnMeans
  <2>5. HasWrite(t, v) /\ \A p \in Others(Leader) : p < t => HasWrite(p, v)
    BY <2>1, <2>2, <2>3, NodesAreFinite DEF SentInv, NoLossInv
  <2>6. \A p \in Others(Leader) : p \in Nat /\ p \in Nodes /\ t \in Nat
    BY NodesAreFinite DEF Others
  <2>7. ASSUME NEW p \in Others(Leader), p \notin After(Leader, t) PROVE HasWrite(p, v)'
    <3>1. p < t \/ p = t
      BY <2>6, <2>7 DEF After
    <3> QED BY <1>a, <2>2, <2>5, <2>6, <3>1
  <2>8. ASSUME write'[v].pc # "done", NEW p \in Others(Leader), p < write'[v].to
        PROVE  p \notin After(Leader, t)
    <3>1. write'[v].to \in Nat
      BY <2>4, <2>8, NodesAreFinite DEF After, Others
    <3> QED BY <2>4, <2>6, <2>8, <3>1
  <2>9. ASSUME write'[v].pc = "done", NEW p \in Nodes PROVE HasWrite(p, v)'
    <3>1. After(Leader, t) = {}
      BY <2>2, <2>4, <2>9
    <3> QED BY <1>a, <2>2, <2>3, <2>7, <3>1 DEF Others
  <2>10. write'[v].pc # "failed"
    BY <2>2, <2>4
  <2> QED BY <2>7, <2>8, <2>9, <2>10 DEF Active
<1>6. ~ReplicationFails(v)
  BY DEF ReplicationFails
<1> QED BY <1>2, <1>3, <1>4, <1>5, <1>6, StepOf

-----------------------------------------------------------------------------

LEMMA InitInv == Init => Inv
<1> SUFFICES ASSUME Init PROVE Inv
  OBVIOUS
<1>1. NodeType
  <2>1. AnyKey \in Keys
    BY KVAssumption DEF AnyKey
  <2> QED BY <2>1, NodesAreFinite DEF Init, NodeType, WriteState, Record, Absent
<1>2. CounterInv
  BY DEF Init, CounterInv, Absent
<1>3. SentInv /\ AckedAtW
  BY DEF Init, SentInv, AckedAtW, Active, Acked
<1>4. FollowInv
  BY DEF Init, FollowInv, LeaderInv, NoLossInv, Made, Active
<1> QED BY <1>1, <1>2, <1>3, <1>4 DEF Inv

LEMMA Invariance == Spec => []Inv
<1>1. ASSUME Inv, [Next]_vars PROVE Inv'
  <2>1. NodeType' /\ CounterInv' /\ SentInv' /\ AckedAtW'
    BY <1>1, NextNodeType, NextSentInv, NextAckedAtW DEF Inv
  <2>2. FollowInv'
    <3>1. setting' = setting
      BY <1>1, Split
    <3> QED BY <1>1, <3>1, NextLeaderInv, NextNoLossInv DEF Inv, FollowInv
  <2> QED BY <2>1, <2>2 DEF Inv
<1> QED BY InitInv, <1>1, PTL DEF Spec

\* An acknowledged write is at W nodes, itself or overwritten, for every number of nodes
\* and every W, whatever requests are lost or late (setHandler, replicateToFollowers).
THEOREM AcknowledgedAtW == Spec => []AckedAtW
<1>1. Inv => AckedAtW
  BY DEF Inv
<1> QED BY Invariance, <1>1, PTL

\* No node ever goes back to an older record (setHandler, replicateHandler).
THEOREM NodesGoForward == Spec => NoNodeGoesBack
<1>1. ASSUME Inv, [Next]_vars
      PROVE  [\A n \in Nodes, k \in Keys : store'[n][k].version >= store[n][k].version]_store
  BY <1>1, NextNodeType DEF Inv, Grows
<1> QED BY Invariance, <1>1, PTL DEF Spec, NoNodeGoesBack

LEMMA FollowersBehind ==
  ASSUME Inv, setting.mode = "leader_follower", NEW n \in Nodes, NEW k \in Keys
  PROVE  /\ store[n][k].version <= store[Leader][k].version
         /\ store[n][k].version = store[Leader][k].version => store[n][k] = store[Leader][k]
<1> USE DEF Inv, FollowInv
<1>1. Leader \in Nodes /\ \A m \in Nodes : store[m][k].version \in Nat
  BY NodesAreFinite DEF NodeType, Record
<1>2. ASSUME NEW m \in Nodes, store[m][k] # Absent
      PROVE  \E u \in Writes : /\ Made(u) /\ write[u].key = k
                               /\ store[m][k] = [value |-> u, version |-> write[u].version]
                               /\ store[m][k].version = write[u].version
                               /\ write[u].version >= 1
                               /\ store[Leader][k].version >= write[u].version
  <2>1. PICK u \in Writes : /\ Made(u) /\ write[u].key = k
                            /\ store[m][k] = [value |-> u, version |-> write[u].version]
    BY <1>2 DEF LeaderInv
  <2> QED BY <2>1 DEF LeaderInv, HasWrite
<1>3. store[n][k].version <= store[Leader][k].version
  <2>1. CASE store[n][k] = Absent
    BY <1>1, <2>1 DEF Absent
  <2>2. CASE store[n][k] # Absent
    BY <1>1, <1>2, <2>2
  <2> QED BY <2>1, <2>2
<1>4. ASSUME store[n][k].version = store[Leader][k].version
      PROVE  store[n][k] = store[Leader][k]
  <2>1. CASE store[n][k] = Absent
    <3>1. store[Leader][k].version = 0
      BY <1>4, <2>1 DEF Absent
    <3>2. ASSUME store[Leader][k] # Absent PROVE FALSE
      <4>1. PICK u \in Writes : store[Leader][k].version = write[u].version /\ write[u].version >= 1
        BY <1>1, <1>2, <3>2
      <4> QED BY <3>1, <4>1
    <3> QED BY <2>1, <3>2
  <2>2. CASE store[n][k] # Absent
    <3>1. PICK u \in Writes : /\ Made(u) /\ store[n][k].version = write[u].version
                              /\ write[u].version >= 1
                              /\ store[n][k] = [value |-> u, version |-> write[u].version]
      BY <1>2, <2>2
    <3>2. store[Leader][k] # Absent
      <4>1. SUFFICES ASSUME store[Leader][k] = Absent PROVE FALSE
        OBVIOUS
      <4>2. store[Leader][k].version = 0
        BY <4>1 DEF Absent
      <4>3. write[u].version = 0 /\ write[u].version >= 1
        <5> HIDE DEF Inv, FollowInv
        <5> QED BY <1>4, <3>1, <4>2, Zenon
      <4> QED BY <4>3
    <3>3. PICK v \in Writes : /\ Made(v) /\ store[Leader][k].version = write[v].version
                              /\ store[Leader][k] = [value |-> v, version |-> write[v].version]
      BY <1>1, <1>2, <3>2
    <3>4. u = v
      BY <1>4, <3>1, <3>3 DEF LeaderInv
    <3> QED BY <3>1, <3>3, <3>4
  <2> QED BY <2>1, <2>2
<1> QED BY <1>3, <1>4

\* Behind a leader, no follower is ahead and versions name records, whatever is lost; if
\* nothing is lost the nodes hold the same records when no write is under way
\* (setHandler, replicateHandler, replicateToRemainingFollowers).
THEOREM FollowersFollow == Spec => []FollowersAgree
<1>1. ASSUME Inv, setting.mode = "leader_follower", NEW n \in Nodes, NEW k \in Keys
      PROVE  /\ store[n][k].version <= store[Leader][k].version
             /\ store[n][k].version = store[Leader][k].version => store[n][k] = store[Leader][k]
  BY <1>1, FollowersBehind
<1>2. ASSUME Inv, setting.mode = "leader_follower", ~setting.lossy,
             \A u \in Writes : write[u].pc \in {"new", "done"}, NEW n \in Nodes
      PROVE  store[n] = store[Leader]
  <2>0. /\ Leader \in Nodes /\ store[n] \in [Keys -> Record] /\ store[Leader] \in [Keys -> Record]
        /\ LeaderInv /\ NoLossInv
    BY <1>2, NodesAreFinite DEF Inv, NodeType, FollowInv
  <2>1. ASSUME NEW k \in Keys PROVE store[n][k] = store[Leader][k]
    <3>1. store[n][k].version \in Nat /\ store[Leader][k].version \in Nat
      BY <2>0 DEF Record
    <3>2. store[n][k].version >= store[Leader][k].version
      <4>1. CASE store[Leader][k] = Absent
        BY <3>1, <4>1 DEF Absent
      <4>2. CASE store[Leader][k] # Absent
        <5>1. PICK u \in Writes : /\ Made(u) /\ write[u].key = k
                                  /\ store[Leader][k] = [value |-> u, version |-> write[u].version]
          BY <2>0, <4>2 DEF LeaderInv
        <5>2. HasWrite(n, u)
          BY <1>2, <2>0, <5>1 DEF NoLossInv, Made
        <5> QED BY <5>1, <5>2 DEF HasWrite
      <4> QED BY <4>1, <4>2
    <3>3. store[n][k].version <= store[Leader][k].version
      BY <1>1, <1>2
    <3>4. store[n][k].version = store[Leader][k].version
      BY <3>1, <3>2, <3>3
    <3> QED BY <1>1, <1>2, <3>4
  <2> QED BY <2>0, <2>1
<1>3. Inv => FollowersAgree
  BY <1>1, <1>2 DEF FollowersAgree, QuietNodesAgree
<1> QED BY Invariance, <1>3, PTL

-----------------------------------------------------------------------------
(* Reads.                                                                  *)

ReadType == read \in [Reads -> ReadState]

\* There is a highest version: counters, writes and reads are below it.
Bounded ==
    \E b \in Nat : /\ \A n \in Nodes : version[n] <= b
                   /\ \A u \in Writes : write[u].version <= b
                   /\ \A q \in Reads : read[q].best.version <= b

\* A coordinated read has the leader's record, or the newer one of a follower: none is
\* newer than the leader's, and none older than what was acknowledged or read before.
ReadInv ==
    \A q \in Reads : read[q].pc \in {"reading", "answered"} =>
        /\ read[q].pc = "reading" => R > 1 /\ read[q].left >= 1
        /\ R > 1 => /\ read[q].best.version <= store[Leader][read[q].key].version
                    /\ read[q].best.version >= read[q].acked
                    /\ read[q].best.version >= read[q].seen

\* A local read has what was acknowledged if writes wait for all nodes.
LocalInv ==
    R = 1 /\ W = N => \A q \in Reads : read[q].pc = "answered" =>
        read[q].best.version >= read[q].acked

ReadsInv == ReadType /\ Bounded /\ ReadInv /\ LocalInv

LEMMA MaxOfMeans ==
  ASSUME NEW S \in SUBSET Nat, NEW b \in Nat, \A s \in S : s <= b
  PROVE  MaxOf(S) \in Nat /\ \A c \in Nat : (\A s \in S : s <= c) => MaxOf(S) <= c
<1>1. CASE S = {}
  BY <1>1 DEF MaxOf
<1>2. ASSUME S # {} PROVE MaxOf(S) \in S
  <2> DEFINE T == {b - s : s \in S}
  <2>1. T \in SUBSET Nat /\ T # {}
    <3>1. \A s \in S : s \in Nat /\ b - s \in Nat
      OBVIOUS
    <3> QED BY <1>2, <3>1
  <2>2. Min(T) \in T /\ \A y \in T : Min(T) <= y
    BY <2>1, NatMin
  <2>3. PICK x \in S : Min(T) = b - x
    BY <2>2
  <2>4. \A y \in S : b - x <= b - y
    BY <2>2, <2>3
  <2>5. \A y \in S : x >= y
    BY <2>4
  <2> QED BY <1>2, <2>5 DEF MaxOf, Max
<1> QED BY <1>1, <1>2

AckedVersions(k) == {write[u].version : u \in {v \in Writes : Acked(v) /\ write[v].key = k}}
SeenVersions(k) ==
    {read[p].best.version : p \in {o \in Reads : read[o].pc = "answered" /\ read[o].key = k}}

\* What a read starts with.
LEMMA StartMeans ==
  ASSUME NodeType, ReadType, Bounded, NEW q \in Reads, NEW k \in Keys, NEW n \in Nodes,
         NEW pc \in {"reading", "answered"}, NEW to \in Nodes, StartRead(q, k, n, pc, to)
  PROVE  /\ ReadType' /\ \A o \in Reads \ {q} : read'[o] = read[o]
         /\ read'[q].pc = pc /\ read'[q].key = k /\ read'[q].best = store[n][k]
         /\ read'[q].left = R - 1
         /\ read'[q].acked \in Nat /\ read'[q].seen \in Nat
         /\ \A c \in Nat : (\A v \in AckedVersions(k) : v <= c) => read'[q].acked <= c
         /\ \A c \in Nat : (\A v \in SeenVersions(k) : v <= c) => read'[q].seen <= c
<1> DEFINE acked == MaxOf(AckedVersions(k))
           seen  == MaxOf(SeenVersions(k))
           st == [pc |-> pc, key |-> k, best |-> store[n][k], to |-> to, left |-> R - 1,
                  acked |-> acked, seen |-> seen]
<1>1. PICK b \in Nat : /\ \A u \in Writes : write[u].version <= b
                       /\ \A o \in Reads : read[o].best.version <= b
  BY DEF Bounded
<1>2. AckedVersions(k) \in SUBSET Nat /\ \A v \in AckedVersions(k) : v <= b
  BY <1>1 DEF AckedVersions, NodeType, WriteState
<1>3. SeenVersions(k) \in SUBSET Nat /\ \A v \in SeenVersions(k) : v <= b
  BY <1>1 DEF SeenVersions, ReadType, ReadState, Record
<1>4. acked \in Nat /\ \A c \in Nat : (\A v \in AckedVersions(k) : v <= c) => acked <= c
  BY <1>2, MaxOfMeans
<1>5. seen \in Nat /\ \A c \in Nat : (\A v \in SeenVersions(k) : v <= c) => seen <= c
  BY <1>3, MaxOfMeans
<1>6. read' = [read EXCEPT ![q] = st]
  BY DEF StartRead, AckedVersions, SeenVersions
<1> HIDE DEF acked, seen
<1>7. R - 1 \in 0..N
  BY SettingType, KVAssumption DEF Nodes
<1>8. store[n][k] \in Record
  BY DEF NodeType
<1>9. st \in ReadState
  BY <1>4, <1>5, <1>7, <1>8 DEF ReadState
<1>10. read' \in [Reads -> ReadState] /\ read'[q] = st
       /\ \A o \in Reads \ {q} : read'[o] = read[o]
  <2> HIDE DEF st
  <2> QED BY <1>6, <1>9 DEF ReadType
<1> QED BY <1>4, <1>5, <1>10 DEF ReadType

\* What an answer of a follower adds.
LEMMA AskMeans ==
  ASSUME NodeType, ReadType, ReadInv, NEW q \in Reads, AskFollower(q)
  PROVE  /\ ReadType' /\ \A o \in Reads \ {q} : read'[o] = read[o]
         /\ read[q].pc = "reading" /\ read'[q].key = read[q].key
         /\ read'[q].acked = read[q].acked /\ read'[q].seen = read[q].seen
         /\ read'[q].best.version >= read[q].best.version
         /\ \/ read'[q].best = read[q].best
            \/ read'[q].best = store[read[q].to][read[q].key]
         /\ read'[q].pc = "reading" => read'[q].left >= 1
<1> DEFINE r == read[q]
           found == store[r.to][r.key]
           best == IF Newer(found, r.best) THEN found ELSE r.best
           st == [r EXCEPT !.best = best, !.to = NextFollower(r.to), !.left = r.left - 1,
                           !.pc = IF r.left = 1 THEN "answered" ELSE r.pc]
<1>1. read' = [read EXCEPT ![q] = st] /\ r.pc = "reading"
  BY DEF AskFollower
<1>2. r \in ReadState /\ r.left \in 1..N /\ R > 1 /\ found \in Record
  BY <1>1, KVAssumption DEF ReadType, ReadInv, ReadState, NodeType
<1> HIDE DEF best, found
<1>3. NextFollower(r.to) \in Nodes
  <2>1. N > 1
    BY <1>2, SettingType, KVAssumption DEF Nodes
  <2> QED BY <1>2, <2>1, KVAssumption DEF NextFollower, ReadState, Nodes, Leader
<1>4. /\ best \in Record /\ best.version >= r.best.version
      /\ best = r.best \/ best = found
  BY <1>2 DEF Newer, ReadState, Record, best
<1>5. /\ st \in ReadState /\ st.key = r.key /\ st.acked = r.acked /\ st.seen = r.seen
      /\ st.best = best /\ (st.pc = "reading" => st.left >= 1)
  <2>1. r.left - 1 \in 0..N /\ (r.left # 1 => r.left - 1 >= 1)
    BY <1>2, KVAssumption
  <2> QED BY <1>2, <1>3, <1>4, <2>1 DEF ReadState
<1> HIDE DEF st
<1>6. read' \in [Reads -> ReadState] /\ read'[q] = st
      /\ \A o \in Reads \ {q} : read'[o] = read[o]
  BY <1>1, <1>5 DEF ReadType
<1> QED BY <1>1, <1>4, <1>5, <1>6 DEF ReadType, found

LEMMA ReadFailsMeans ==
  ASSUME ReadType, NEW q \in Reads, ReadFails(q)
  PROVE  /\ ReadType' /\ \A o \in Reads \ {q} : read'[o] = read[o]
         /\ read'[q].pc = "failed" /\ read'[q].best = read[q].best
<1> DEFINE st == [read[q] EXCEPT !.pc = "failed"]
<1>1. st \in ReadState /\ st.pc = "failed" /\ st.best = read[q].best
  BY DEF ReadType, ReadState
<1>2. read' = [read EXCEPT ![q] = st]
  BY DEF ReadFails
<1> HIDE DEF st
<1>3. read' \in [Reads -> ReadState] /\ read'[q] = st
      /\ \A o \in Reads \ {q} : read'[o] = read[o]
  BY <1>1, <1>2 DEF ReadType
<1> QED BY <1>1, <1>3 DEF ReadType

LEMMA ReadSplit ==
  ASSUME [Next]_vars
  PROVE  \/ read' = read
         \/ /\ UNCHANGED <<store, version, write, late>>
            /\ \E q \in Reads :
                  \/ \E k \in Keys, n \in Nodes : LocalRead(q, k, n)
                  \/ \E k \in Keys, f \in Followers : CoordinatedRead(q, k, f)
                  \/ AskFollower(q)
                  \/ ReadFails(q)
BY DEF Next, Step, vars, Replication, Set, Arrive, Reply, ReplicationFails, ArriveLate,
       LocalRead, CoordinatedRead, StartRead, AskFollower, ReadFails

LEMMA NextBounded ==
  ASSUME Inv, ReadType, ReadInv, Bounded, [Next]_vars
  PROVE  Bounded'
<1>0. NodeType /\ CounterInv
  BY DEF Inv
<1>1. PICK b \in Nat : /\ \A n \in Nodes : version[n] <= b
                       /\ \A u \in Writes : write[u].version <= b
                       /\ \A q \in Reads : read[q].best.version <= b
  BY DEF Bounded
<1>2. /\ \A n \in Nodes : version[n] \in Nat
      /\ \A u \in Writes : write[u].version \in Nat
      /\ \A q \in Reads : read[q].best.version \in Nat
      /\ \A n \in Nodes, k \in Keys : store[n][k].version \in Nat /\ store[n][k].version <= b
  <2>1. \A n \in Nodes, k \in Keys : store[n][k].version \in Nat /\ version[n] \in Nat
    BY <1>0 DEF NodeType, Record
  <2>2. \A n \in Nodes, k \in Keys : store[n][k].version <= b
    BY <1>0, <1>1, <2>1 DEF CounterInv
  <2> QED BY <1>0, <2>1, <2>2 DEF NodeType, WriteState, ReadType, ReadState, Record
<1>3. \A n \in Nodes : version'[n] <= b + 1
  <2>1. ASSUME NEW m \in Nodes, NEW u \in Writes, Replicate(m, u), NEW n \in Nodes
        PROVE  version'[n] <= b + 1
    <3>1. version'[n] = version[n] \/ version'[n] = write[u].version
      BY <1>0, <2>1 DEF Replicate, NodeType
    <3> QED BY <1>1, <1>2, <3>1
  <2>2. ASSUME NEW u \in Writes, NEW m \in Nodes, NEW k \in Keys, Set(u, m, k), NEW n \in Nodes
        PROVE  version'[n] <= b + 1
    BY <1>0, <1>1, <1>2, <2>2, SetMeans
  <2>3. ASSUME version' = version, NEW n \in Nodes PROVE version'[n] <= b + 1
    BY <1>1, <1>2, <2>3
  <2>4. \A u \in Writes : write[u].to \in Nodes
    BY <1>0 DEF NodeType, WriteState
  <2> QED BY <2>1, <2>2, <2>3, <2>4, Split DEF Arrive, Reply, ReplicationFails, ArriveLate
<1>4. \A u \in Writes : write'[u].version <= b + 1
  <2> SUFFICES ASSUME NEW u \in Writes PROVE write'[u].version <= b + 1
    OBVIOUS
  <2>1. ASSUME write'[u].version = write[u].version PROVE write'[u].version <= b + 1
    BY <1>1, <1>2, <2>1
  <2>2. ASSUME NEW m \in Nodes, NEW k \in Keys, Set(u, m, k) PROVE write'[u].version <= b + 1
    BY <1>0, <1>1, <1>2, <2>2, SetMeans
  <2>3. Arrive(u) => write'[u].version = write[u].version
    BY <1>0, ArriveMeans
  <2>4. Reply(u) => write'[u].version = write[u].version
    BY <1>0, MoveOnMeans DEF Reply
  <2>5. ReplicationFails(u) => write'[u].version = write[u].version
    BY <1>0, MoveOnMeans, FailMeans DEF ReplicationFails
  <2> QED BY <1>0, <2>1, <2>2, <2>3, <2>4, <2>5, StepOf
<1>5. \A q \in Reads : read'[q].best.version <= b + 1
  <2> SUFFICES ASSUME NEW q \in Reads PROVE read'[q].best.version <= b + 1
    OBVIOUS
  <2>1. ASSUME read'[q].best = read[q].best PROVE read'[q].best.version <= b + 1
    BY <1>1, <1>2, <2>1
  <2>2. ASSUME NEW n \in Nodes, NEW k \in Keys, read'[q].best = store[n][k]
        PROVE  read'[q].best.version <= b + 1
    BY <1>2, <2>2
  <2>3. ASSUME NEW o \in Reads, NEW k \in Keys, NEW n \in Nodes, LocalRead(o, k, n)
        PROVE  read'[q].best.version <= b + 1
    BY <1>0, <2>1, <2>2, <2>3, NodesAreFinite, StartMeans DEF LocalRead
  <2>4. ASSUME NEW o \in Reads, NEW k \in Keys, NEW f \in Followers, CoordinatedRead(o, k, f)
        PROVE  read'[q].best.version <= b + 1
    BY <1>0, <2>1, <2>2, <2>4, NodesAreFinite, StartMeans DEF CoordinatedRead, Followers
  <2>5. ASSUME NEW o \in Reads, AskFollower(o) PROVE read'[q].best.version <= b + 1
    <3>1. read[o].to \in Nodes /\ read[o].key \in Keys
      BY DEF ReadType, ReadState
    <3> QED BY <1>0, <2>1, <2>2, <2>5, <3>1, AskMeans
  <2>6. ASSUME NEW o \in Reads, ReadFails(o) PROVE read'[q].best.version <= b + 1
    BY <2>1, <2>6, ReadFailsMeans
  <2> QED BY <2>1, <2>3, <2>4, <2>5, <2>6, ReadSplit
<1>6. b + 1 \in Nat
  OBVIOUS
<1> QED BY <1>3, <1>4, <1>5, <1>6 DEF Bounded

\* Behind a leader, the leader has every version of a key that was acknowledged.
LEMMA LeaderHasAll ==
  ASSUME Inv, NEW k \in Keys
  PROVE  /\ store[Leader][k].version \in Nat
         /\ R > 1 => /\ \A v \in AckedVersions(k) : v <= store[Leader][k].version
                     /\ \A n \in Nodes : store[n][k].version <= store[Leader][k].version
         /\ W = N => \A n \in Nodes : /\ store[n][k].version \in Nat
                                      /\ \A v \in AckedVersions(k) : v <= store[n][k].version
<1>1. NodeType /\ AckedAtW /\ FollowInv
  BY DEF Inv
<1>2. \A n \in Nodes : store[n][k].version \in Nat
  BY <1>1 DEF NodeType, Record
<1>3. R > 1 => setting.mode = "leader_follower"
  BY <1>1, KVAssumption DEF NodeType, Setting, R
<1>4. ASSUME R > 1, NEW u \in Writes, Acked(u), write[u].key = k
      PROVE  write[u].version <= store[Leader][k].version
  <2>1. Made(u) /\ LeaderInv
    BY <1>1, <1>3, <1>4 DEF Acked, Made, FollowInv
  <2>2. HasWrite(Leader, u) /\ write[u].version \in Nat
    BY <1>1, <2>1 DEF LeaderInv, NodeType, WriteState
  <2> QED BY <1>2, <1>4, <2>2, NodesAreFinite DEF HasWrite
<1>5. ASSUME R > 1, NEW n \in Nodes PROVE store[n][k].version <= store[Leader][k].version
  BY <1>3, <1>5, FollowersBehind
<1>6. ASSUME W = N, NEW u \in Writes, Acked(u), write[u].key = k, NEW n \in Nodes
      PROVE  write[u].version <= store[n][k].version
  <2> DEFINE H == {m \in Nodes : store[m][write[u].key].version >= write[u].version}
  <2>1. H \in SUBSET Nodes /\ Cardinality(H) >= N
    BY <1>1, <1>6 DEF AckedAtW
  <2>2. Cardinality(H) <= N /\ Cardinality(H) \in Nat /\ (Cardinality(H) = N => H = Nodes)
    BY <2>1, NodesAreFinite, FS_Subset, CardType
  <2>3. n \in H
    BY <2>1, <2>2, KVAssumption
  <2>4. write[u].version \in Nat
    BY <1>1 DEF NodeType, WriteState
  <2> QED BY <1>2, <1>6, <2>3, <2>4
<1> QED BY <1>2, <1>4, <1>5, <1>6, NodesAreFinite DEF AckedVersions

LEMMA NextReads ==
  ASSUME Inv, ReadsInv, [Next]_vars
  PROVE  ReadType' /\ ReadInv' /\ LocalInv'
<1>0. /\ NodeType /\ CounterInv /\ NodeType' /\ Grows
      /\ ReadType /\ Bounded /\ ReadInv /\ LocalInv /\ setting' = setting
      /\ R' = R /\ W' = W /\ R \in Nat
  BY NextNodeType, Split, SettingType, NodesAreFinite DEF Inv, ReadsInv, R, W
<1> DEFINE Good(q) ==
      /\ read[q].pc \in {"reading", "answered"} =>
            /\ read[q].pc = "reading" => R > 1 /\ read[q].left >= 1
            /\ R > 1 => /\ read[q].best.version <= store[Leader][read[q].key].version
                        /\ read[q].best.version >= read[q].acked
                        /\ read[q].best.version >= read[q].seen
      /\ R = 1 /\ W = N /\ read[q].pc = "answered" => read[q].best.version >= read[q].acked
<1>1. \A q \in Reads : Good(q)
  BY <1>0 DEF ReadInv, LocalInv
<1>2. \A k \in Keys : /\ store[Leader][k].version \in Nat /\ store'[Leader][k].version \in Nat
                      /\ store[Leader][k].version <= store'[Leader][k].version
  BY <1>0, NodesAreFinite DEF NodeType, Record, Grows
<1>3. \A q \in Reads : read[q].key \in Keys /\ read[q].best.version \in Nat
                       /\ read[q].acked \in Nat /\ read[q].seen \in Nat
  BY <1>0 DEF ReadType, ReadState, Record
<1>4. ASSUME NEW q \in Reads, read'[q] = read[q] PROVE Good(q)'
  <2>1. store'[Leader][read[q].key].version >= store[Leader][read[q].key].version
    BY <1>2, <1>3
  <2>2. store'[Leader][read[q].key].version \in Nat /\ store[Leader][read[q].key].version \in Nat
    BY <1>2, <1>3
  <2> QED BY <1>0, <1>1, <1>3, <1>4, <2>1, <2>2
<1>5. (\A q \in Reads : Good(q)') => ReadInv' /\ LocalInv'
  BY DEF ReadInv, LocalInv
<1> HIDE DEF Good
<1>6. CASE read' = read
  BY <1>0, <1>4, <1>5, <1>6 DEF ReadType
<1>7. ASSUME NEW q \in Reads, NEW k \in Keys, NEW n \in Nodes, LocalRead(q, k, n)
      PROVE  ReadType' /\ ReadInv' /\ LocalInv'
  <2>1. /\ ReadType' /\ \A o \in Reads \ {q} : read'[o] = read[o]
        /\ R = 1 /\ read'[q].pc = "answered" /\ read'[q].best = store[n][k]
        /\ \A c \in Nat : (\A v \in AckedVersions(k) : v <= c) => read'[q].acked <= c
        /\ read'[q].acked \in Nat
    BY <1>0, <1>7, NodesAreFinite, StartMeans DEF LocalRead
  <2>2. W = N => read'[q].acked <= store[n][k].version /\ store[n][k].version \in Nat
    BY <2>1, LeaderHasAll
  <2>3. Good(q)'
    BY <1>0, <2>1, <2>2 DEF Good
  <2> QED BY <1>4, <1>5, <2>1, <2>3
<1>8. ASSUME NEW q \in Reads, NEW k \in Keys, NEW f \in Followers, CoordinatedRead(q, k, f),
             store' = store
      PROVE  ReadType' /\ ReadInv' /\ LocalInv'
  <2>1. /\ ReadType' /\ \A o \in Reads \ {q} : read'[o] = read[o]
        /\ R > 1 /\ read'[q].pc = "reading" /\ read'[q].best = store[Leader][k]
        /\ read'[q].key = k /\ read'[q].left = R - 1
        /\ \A c \in Nat : (\A v \in AckedVersions(k) : v <= c) => read'[q].acked <= c
        /\ \A c \in Nat : (\A v \in SeenVersions(k) : v <= c) => read'[q].seen <= c
        /\ read'[q].acked \in Nat /\ read'[q].seen \in Nat
    BY <1>0, <1>8, NodesAreFinite, StartMeans DEF CoordinatedRead, Followers
  <2>2. \A v \in SeenVersions(k) : v <= store[Leader][k].version
    BY <1>0, <2>1 DEF SeenVersions, ReadInv
  <2>3. /\ read'[q].acked <= store[Leader][k].version /\ read'[q].seen <= store[Leader][k].version
        /\ store[Leader][k].version \in Nat
    BY <2>1, <2>2, LeaderHasAll
  <2>4. Good(q)'
    BY <1>0, <1>8, <2>1, <2>3 DEF Good
  <2> QED BY <1>4, <1>5, <2>1, <2>4
<1>9. ASSUME NEW q \in Reads, AskFollower(q), store' = store
      PROVE  ReadType' /\ ReadInv' /\ LocalInv'
  <2>1. /\ ReadType' /\ \A o \in Reads \ {q} : read'[o] = read[o]
        /\ read[q].pc = "reading" /\ read'[q].key = read[q].key
        /\ read'[q].acked = read[q].acked /\ read'[q].seen = read[q].seen
        /\ read'[q].best.version >= read[q].best.version
        /\ \/ read'[q].best = read[q].best
           \/ read'[q].best = store[read[q].to][read[q].key]
        /\ read'[q].pc = "reading" => read'[q].left >= 1
    BY <1>0, <1>9, AskMeans
  <2>2. /\ R > 1 /\ read[q].best.version <= store[Leader][read[q].key].version
        /\ read[q].best.version >= read[q].acked /\ read[q].best.version >= read[q].seen
    BY <1>0, <2>1 DEF ReadInv
  <2>3. read[q].to \in Nodes /\ read'[q].best.version \in Nat
    BY <1>0, <2>1 DEF ReadType, ReadState, Record
  <2>4. store[read[q].to][read[q].key].version <= store[Leader][read[q].key].version
    BY <1>3, <2>2, <2>3, LeaderHasAll
  <2>5. read'[q].best.version <= store[Leader][read[q].key].version
    BY <2>1, <2>2, <2>4
  <2>6. Good(q)'
    BY <1>0, <1>3, <1>9, <2>1, <2>2, <2>3, <2>5 DEF Good
  <2> QED BY <1>4, <1>5, <2>1, <2>6
<1>10. ASSUME NEW q \in Reads, ReadFails(q) PROVE ReadType' /\ ReadInv' /\ LocalInv'
  <2>1. /\ ReadType' /\ \A o \in Reads \ {q} : read'[o] = read[o]
        /\ read'[q].pc = "failed"
    BY <1>0, <1>10, ReadFailsMeans
  <2>2. Good(q)'
    BY <2>1 DEF Good
  <2> QED BY <1>4, <1>5, <2>1, <2>2
<1> QED BY <1>6, <1>7, <1>8, <1>9, <1>10, ReadSplit

LEMMA InitReads == Init => ReadsInv
<1> SUFFICES ASSUME Init PROVE ReadsInv
  OBVIOUS
<1>1. ReadType
  <2>1. AnyKey \in Keys
    BY KVAssumption DEF AnyKey
  <2> QED BY <2>1, NodesAreFinite, KVAssumption DEF Init, ReadType, ReadState, Record, Absent
<1>2. Bounded
  BY DEF Init, Bounded, Absent
<1>3. ReadInv /\ LocalInv
  BY DEF Init, ReadInv, LocalInv
<1> QED BY <1>1, <1>2, <1>3 DEF ReadsInv

LEMMA ReadInvariance == Spec => []ReadsInv
<1>1. ASSUME Inv, ReadsInv, [Next]_vars PROVE ReadsInv'
  BY <1>1, NextReads, NextBounded DEF ReadsInv
<1> QED BY InitReads, Invariance, <1>1, PTL DEF Spec

\* The types, those of the versions that reads compare included: a highest version exists
\* whatever the numbers of writes and reads (coordinatedRead).
THEOREM KVTypeCorrect == Spec => []TypeOK
<1>1. Inv /\ ReadsInv => TypeOK
  BY DEF Inv, ReadsInv, NodeType, ReadType, TypeOK
<1> QED BY Invariance, ReadInvariance, <1>1, PTL

\* No read is stale, lost and late requests included, provided that reads which ask one
\* node only go with writes that wait for all; any other W and R will do, overlapping or
\* not, because a coordinated read begins at the leader (getHandler, coordinatedRead).
THEOREM ReadsAreFresh ==
  ASSUME \A s \in Settings : s.r = 1 => s.w = N
  PROVE  Spec => []FreshReads
<1>1. ASSUME Inv, ReadsInv PROVE FreshReads
  <2>1. R \in Nat /\ R >= 1 /\ (R = 1 => W = N)
    BY <1>1, SettingType DEF Inv, NodeType, R, W, Nodes
  <2> QED BY <1>1, <2>1 DEF ReadsInv, ReadInv, LocalInv, FreshReads
<1> QED BY Invariance, ReadInvariance, <1>1, PTL
=============================================================================
