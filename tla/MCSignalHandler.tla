-------------------------- MODULE MCSignalHandler --------------------------
(* Values for model checking SignalHandler.                                *)
EXTENDS SignalHandler, TLC

CONSTANTS main, other, t1, t2, SEGV, ABRT

MCObserved == <<ABRT, SEGV>>
MCOriginal == (ABRT :> "handler") @@ (SEGV :> "default")
MCOriginalIgnored == (ABRT :> "ignore") @@ (SEGV :> "handler")
=============================================================================
