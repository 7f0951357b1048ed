--------------------------- MODULE MCPhotoPipeline ---------------------------
(* Fault sets for the TLC runs of PhotoPipeline.                           *)
EXTENDS PhotoPipeline

AllFaults == {"store", "s3", "disk", "restart"}

\* With every fault, and with those that no call of a store takes part in.
AllOrDisk == {AllFaults, {"disk"}}
=============================================================================
