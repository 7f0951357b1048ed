---------------------------- MODULE MCReplicatedKV ----------------------------
(* Settings and symmetry for the TLC runs of ReplicatedKV.                 *)
EXTENDS ReplicatedKV, TLC

Symmetry == Permutations(Writes) \cup Permutations(Reads)

LeaderSetting(w, r, lossy) ==
    [mode |-> "leader_follower", w |-> w, r |-> r, lossy |-> lossy]
Leaderless == [mode |-> "leaderless", w |-> N, r |-> 1, lossy |-> TRUE]

\* Every choice of W and R whose sets of nodes overlap, and one that only replicates
\* in the background, without faults.
AllSettings ==
    {LeaderSetting(w, N + 1 - w, TRUE) : w \in 2..N}
    \cup {LeaderSetting(1, N, FALSE), Leaderless}
===============================================================================
