--------------------------- MODULE MCUploadSession ---------------------------
(* Model values and symmetry for the TLC runs of UploadSession.            *)
EXTENDS UploadSession, TLC

Symmetry == Permutations(Jobs) \cup Permutations(Requests)

AllFaults == FaultKinds
=============================================================================
