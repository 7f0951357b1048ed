---------------------------- MODULE MCOrderQueue ----------------------------
(* Settings for the TLC runs of OrderQueue.                                *)
EXTENDS OrderQueue

With(backend, faults) == [backend |-> backend, faults |-> faults]

\* Both backends without faults and with all that may befall them.
BothBackends ==
    {With("file", {}), With("file", {"publish", "exit"}),
     With("aws", {}), With("aws", {"publish", "exit", "redeliver"})}
=============================================================================
