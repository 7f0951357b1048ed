---------------------------- MODULE MCPhotoOutbox ----------------------------
(* Fault sets for the TLC runs of PhotoOutbox.                             *)
EXTENDS PhotoOutbox

NoFault   == {{}}
\* Every fault, in sets small enough for the temporal properties.
FaultsInFour == {{"store"}, {"disk"}, {"queue", "s3", "restart"}, {"redeliver"}}
=============================================================================
