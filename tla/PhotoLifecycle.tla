--------------------------- MODULE PhotoLifecycle ---------------------------
(***************************************************************************)
(* What the album store promises about one photo, as GET shows it to the   *)
(* client that uploaded it: once accepted it is processing, it ends        *)
(* completed or failed once and for all, and a deleted photo stays so.     *)
(***************************************************************************)
CONSTANT Photos
VARIABLE phase

Phases == {"absent", "processing", "completed", "failed", "deleted"}

Init == phase = [p \in Photos |-> "absent"]

Set(p, s) == phase' = [phase EXCEPT ![p] = s]

\* The recovery loop may have processed the photo before the POST is answered.
Accept(p) == phase[p] = "absent" /\ \E s \in {"processing", "completed", "failed"} : Set(p, s)
End(p)    == phase[p] = "processing" /\ \E s \in {"completed", "failed"} : Set(p, s)
Remove(p) == phase[p] # "absent" /\ Set(p, "deleted")

Next == \E p \in Photos : Accept(p) \/ End(p) \/ Remove(p)

Spec == Init /\ [][Next]_phase
=============================================================================
