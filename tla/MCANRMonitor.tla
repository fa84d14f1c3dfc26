---------------------------- MODULE MCANRMonitor ----------------------------
(* Values for model checking ANRMonitor: the configurations give them all.  *)
EXTENDS ANRMonitor
=============================================================================
