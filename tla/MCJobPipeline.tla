---------------------------- MODULE MCJobPipeline ----------------------------
(* Model values and symmetry for the TLC runs of JobPipeline.              *)
EXTENDS JobPipeline, TLC

Symmetry == Permutations(Jobs) \cup Permutations(Workers) \cup Permutations(Reapers)

AllFaults == FaultKinds
AllButReaper == FaultKinds \ {"reaper"}
StallsAndRestarts == {"reaper", "stall"}
=============================================================================
