----------------------------- MODULE ReplicatedKV -----------------------------
(***************************************************************************)
(* The replicated key-value store of hw10: N nodes that keep their records *)
(* in memory.  In mode leader_follower node 1 takes the writes, answers    *)
(* when W nodes have them and goes on to the others in the background; a   *)
(* read asks R nodes.  In mode leaderless every node takes writes and      *)
(* answers when all nodes have them; a read is local.                      *)
(*                                                                         *)
(* A replication request and its reply are separate steps, since a reader  *)
(* can see the record of a node before the writer gets the reply.  A       *)
(* request that timed out may still arrive.  Nodes do not restart: they    *)
(* keep nothing on disk, and a node that restarts is a new, empty one.     *)
(***************************************************************************)
EXTENDS Integers, FiniteSets, FiniteSetsExt

CONSTANTS
    N,              \* the number of nodes
    Keys,
    Writes, Reads,  \* the requests of the clients; a write is also its value
    NoWrite,        \* the value of an absent record
    Settings        \* the environments the cluster may be started in

Nodes     == 1..N
Leader    == 1
Followers == Nodes \ {Leader}

\* w: the nodes a write waits for; r: those a read asks; lossy: may a request between
\* nodes fail or time out?  In mode leaderless the code takes no notice of W and R.
Setting == [mode : {"leader_follower", "leaderless"}, w : Nodes, r : Nodes,
            lossy : BOOLEAN]

ASSUME KVAssumption ==
    /\ N \in Nat \ {0}
    /\ Keys # {}
    /\ NoWrite \notin Writes
    /\ Settings \subseteq {s \in Setting : s.mode = "leaderless" => s.w = N /\ s.r = 1}

VARIABLES
    setting,  \* the environment of the processes, which never changes
    store,    \* store[n][k]: the record of key k at node n
    version,  \* the version counter of each node
    write,    \* what each write request is doing
    late,     \* replication requests that timed out and have not arrived
    read      \* what each read request is doing

vars == <<setting, store, version, write, late, read>>

W == setting.w
R == setting.r

\* The nodes that take writes.
Coordinators == IF setting.mode = "leaderless" THEN Nodes ELSE {Leader}

\* Variant with a bug, to test the properties: one acknowledgement too few.
AcksOffByOne == W - 2

\* How many other nodes a write waits for.
RequiredAcks == W - 1

Record == [value : Writes \cup {NoWrite}, version : Nat]
Absent == [value |-> NoWrite, version |-> 0]

\* sync: replicating, the client waits; background: replicating after the answer;
\* to: the node the current replication request goes to; rpc: has it arrived there?
WriteState ==
    [pc : {"new", "sync", "background", "done", "failed"},
     key : Keys, node : Nodes, version : Nat, to : Nodes, rpc : {"sent", "arrived"}]

\* best: the newest record so far; to: the next follower to ask; left: how many more.
\* acked and seen are kept for the properties only: the newest version of the key that
\* a write had been acknowledged with, or another read answered with, at the start.
ReadState ==
    [pc : {"new", "reading", "answered", "failed"},
     key : Keys, best : Record, to : Nodes, left : 0..N, acked : Nat, seen : Nat]

TypeOK ==
    /\ setting \in Settings
    /\ store \in [Nodes -> [Keys -> Record]]
    /\ version \in [Nodes -> Nat]
    /\ write \in [Writes -> WriteState]
    /\ late \subseteq Writes \X Nodes
    /\ read \in [Reads -> ReadState]

AnyKey == CHOOSE k \in Keys : TRUE

Init ==
    /\ setting \in Settings
    /\ store = [n \in Nodes |-> [k \in Keys |-> Absent]]
    /\ version = [n \in Nodes |-> 0]
    /\ write = [u \in Writes |-> [pc |-> "new", key |-> AnyKey, node |-> Leader,
                                  version |-> 0, to |-> Leader, rpc |-> "sent"]]
    /\ late = {}
    /\ read = [q \in Reads |-> [pc |-> "new", key |-> AnyKey, best |-> Absent,
                                to |-> Leader, left |-> 0, acked |-> 0, seen |-> 0]]

-----------------------------------------------------------------------------
(* Writes: setHandler, replicateToFollowers, replicateToPeers.             *)

\* The nodes node n replicates to, in the order of its configuration.
Others(n)   == Nodes \ {n}
After(n, t) == {p \in Others(n) : p > t}

\* The state of a write of version v for key k at node n with the replication requests up
\* to node after made, and the next one under way; with no node left it is done.
Replicating(k, n, v, pc, after) ==
    LET rest == After(n, after)
    IN  [pc |-> IF rest = {} THEN "done" ELSE pc, key |-> k, node |-> n, version |-> v,
         to |-> IF rest = {} THEN n ELSE Min(rest), rpc |-> "sent"]

\* Write u goes on to the node after the one it was sent to.
GoOn(u, pc) ==
    Replicating(write[u].key, write[u].node, write[u].version, pc, write[u].to)

SetWrite(u, st) == write' = [write EXCEPT ![u] = st]

PutRecord(n, k, rec) == store' = [store EXCEPT ![n] = [@ EXCEPT ![k] = rec]]

\* Variant with a bug: the version counter is read and not advanced.
SetUncounted(u, n, k) ==
    /\ write[u].pc = "new"
    /\ n \in Coordinators
    /\ PutRecord(n, k, [value |-> u, version |-> version[n] + 1])
    /\ SetWrite(u, Replicating(k, n, version[n] + 1,
                               IF RequiredAcks = 0 THEN "background" ELSE "sync", 0))
    /\ UNCHANGED <<version, late, read>>

Set(u, n, k) ==
    /\ write[u].pc = "new"
    /\ n \in Coordinators
    /\ version' = [version EXCEPT ![n] = @ + 1]
    /\ PutRecord(n, k, [value |-> u, version |-> version[n] + 1])
    /\ SetWrite(u, Replicating(k, n, version[n] + 1,
                               IF RequiredAcks = 0 THEN "background" ELSE "sync", 0))
    /\ UNCHANGED <<late, read>>

\* Variant with a bug: the last request to arrive wins.
TakesAll(current, v) == TRUE

\* Does a node with record current take a replicated record of version v?
Takes(current, v) == v >= current.version

\* replicateHandler at node n, for write u.
Replicate(n, u) ==
    LET k == write[u].key
        v == write[u].version
    IN  /\ IF Takes(store[n][k], v)
           THEN PutRecord(n, k, [value |-> u, version |-> v])
           ELSE UNCHANGED store
        /\ version' = [version EXCEPT ![n] = IF v > @ THEN v ELSE @]

Active(u) == write[u].pc \in {"sync", "background"}

Arrive(u) ==
    /\ Active(u)
    /\ write[u].rpc = "sent"
    /\ Replicate(write[u].to, u)
    /\ SetWrite(u, [write[u] EXCEPT !.rpc = "arrived"])
    /\ UNCHANGED <<late, read>>

\* The nodes before write[u].to have acknowledged as well: they are asked in order,
\* and the first error ends the request.
AcksWith(u) == Cardinality({p \in Others(write[u].node) : p <= write[u].to})

\* Variant with a bug: the nodes after the acknowledgement are forgotten.
ReplyAndStop(u) ==
    /\ Active(u)
    /\ write[u].rpc = "arrived"
    /\ SetWrite(u, IF AcksWith(u) >= RequiredAcks THEN [write[u] EXCEPT !.pc = "done"]
                   ELSE GoOn(u, "sync"))
    /\ UNCHANGED <<store, version, late, read>>

Reply(u) ==
    /\ Active(u)
    /\ write[u].rpc = "arrived"
    /\ SetWrite(u, GoOn(u, IF AcksWith(u) >= RequiredAcks THEN "background" ELSE "sync"))
    /\ UNCHANGED <<store, version, late, read>>

\* Variant with a bug: an error is never reported to the client.
ReplicationFailsSilently(u) ==
    /\ setting.lossy
    /\ Active(u)
    /\ late' = IF write[u].rpc = "sent" THEN late \cup {<<u, write[u].to>>} ELSE late
    /\ SetWrite(u, GoOn(u, write[u].pc))
    /\ UNCHANGED <<store, version, read>>

\* The request to a node fails: 502 to the client, or a log line in the background.
ReplicationFails(u) ==
    /\ setting.lossy
    /\ Active(u)
    /\ late' = IF write[u].rpc = "sent" THEN late \cup {<<u, write[u].to>>} ELSE late
    /\ SetWrite(u, IF write[u].pc = "sync" THEN [write[u] EXCEPT !.pc = "failed"]
                   ELSE GoOn(u, "background"))
    /\ UNCHANGED <<store, version, read>>

ArriveLate(u, n) ==
    /\ <<u, n>> \in late
    /\ late' = late \ {<<u, n>>}
    /\ Replicate(n, u)
    /\ UNCHANGED <<write, read>>

-----------------------------------------------------------------------------
(* Reads: getHandler, coordinatedRead.                                     *)

Acked(u) == write[u].pc \in {"background", "done"}

MaxOf(S) == IF S = {} THEN 0 ELSE Max(S)

\* How every read starts: with the record of the node that answers it.
StartRead(q, k, n, pc, to) ==
    /\ read[q].pc = "new"
    /\ read' = [read EXCEPT ![q] =
          [pc |-> pc, key |-> k, best |-> store[n][k], to |-> to, left |-> R - 1,
           acked |-> MaxOf({write[u].version : u \in {v \in Writes : Acked(v)
                                                          /\ write[v].key = k}}),
           seen  |-> MaxOf({read[p].best.version : p \in {o \in Reads :
                               read[o].pc = "answered" /\ read[o].key = k}})]]
    /\ UNCHANGED <<store, version, write, late>>

\* R = 1, or leaderless: the record of the node that was asked.
LocalRead(q, k, n) == R = 1 /\ StartRead(q, k, n, "answered", Leader)

\* Variant with a bug: the next follower after the last.
NextUnwrapped(f) == f + 1

\* The order in which followers are asked.
NextFollower(f) == IF f = N THEN Leader + 1 ELSE f + 1

\* Otherwise the leader reads its own record and then R - 1 followers, from one that
\* rotates with every read; a follower passes the request on to the leader.
CoordinatedRead(q, k, f) == R > 1 /\ StartRead(q, k, Leader, "reading", f)

\* Variant with a bug: the older record is kept.
Older(found, best) == found.version < best.version

Newer(found, best) == found.version > best.version

AskFollower(q) ==
    LET asked == read[q]
        found == store[asked.to][asked.key]
    IN  /\ asked.pc = "reading"
        /\ read' = [read EXCEPT ![q] =
              [asked EXCEPT !.best = IF Newer(found, asked.best) THEN found ELSE asked.best,
                            !.to   = NextFollower(asked.to),
                            !.left = asked.left - 1,
                            !.pc   = IF asked.left = 1 THEN "answered" ELSE asked.pc]]
        /\ UNCHANGED <<store, version, write, late>>

ReadFails(q) ==
    /\ setting.lossy
    /\ read[q].pc = "reading"
    /\ read' = [read EXCEPT ![q] = [@ EXCEPT !.pc = "failed"]]
    /\ UNCHANGED <<store, version, write, late>>

-----------------------------------------------------------------------------
Replication(u) == Arrive(u) \/ Reply(u)

Step ==
    \/ \E u \in Writes :
          \/ \E n \in Nodes, k \in Keys : Set(u, n, k)
          \/ Replication(u)
          \/ ReplicationFails(u)
          \/ \E n \in Nodes : ArriveLate(u, n)
    \/ \E q \in Reads :
          \/ \E k \in Keys : \/ \E n \in Nodes : LocalRead(q, k, n)
                             \/ \E f \in Followers : CoordinatedRead(q, k, f)
          \/ AskFollower(q)
          \/ ReadFails(q)

Next == Step /\ UNCHANGED setting

Spec == Init /\ [][Next]_vars

\* A replication request arrives, and its reply does.
FairSpec == Spec /\ \A u \in Writes : WF_vars(Replication(u) /\ UNCHANGED setting)

-----------------------------------------------------------------------------
(* Properties.                                                             *)

\* An acknowledged write is, itself or overwritten by a later one, at W nodes, however
\* background replication and late requests of several writes overtake one another.
AckedAtW ==
    \A u \in Writes : Acked(u) =>
        Cardinality({n \in Nodes : store[n][write[u].key].version >= write[u].version}) >= W

\* A read that starts after a write was acknowledged does not return an older record, and
\* a coordinated read none older than one that was answered before it started.  (A local
\* read may: another node had a record of a write in progress.)
FreshReads ==
    \A q \in Reads : read[q].pc = "answered" =>
        /\ read[q].best.version >= read[q].acked
        /\ R > 1 => read[q].best.version >= read[q].seen

\* When all replication has come to its end, the nodes hold the same records.
QuietNodesAgree ==
    (\A u \in Writes : write[u].pc \in {"new", "done"}) =>
    \A n \in Nodes : store[n] = store[Leader]

\* Behind a leader, no follower has a record the leader does not have, or has not
\* overwritten, and a version stands for the same record everywhere; if no request was
\* lost the nodes agree at the end, although background replication of several writes
\* overtakes.  (Leaderless, two coordinators may give two records the same version, and
\* the nodes differ for good.)
FollowersAgree ==
    setting.mode = "leader_follower" =>
        /\ \A n \in Nodes, k \in Keys :
              /\ store[n][k].version <= store[Leader][k].version
              /\ store[n][k].version = store[Leader][k].version =>
                     store[n][k] = store[Leader][k]
        /\ ~setting.lossy => QuietNodesAgree

\* A node never goes back to an older record.
NoNodeGoesBack ==
    [][\A n \in Nodes, k \in Keys : store'[n][k].version >= store[n][k].version]_store

\* Writes that are made without a fault reach every node.
Converges ==
    \A u \in Writes : Active(u) /\ ~setting.lossy ~>
        \A n \in Nodes : store[n][write[u].key].version >= write[u].version
=============================================================================
