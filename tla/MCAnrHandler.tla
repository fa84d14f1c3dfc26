---------------------------- MODULE MCAnrHandler ----------------------------
(* Values for model checking AnrHandler.                                   *)
EXTENDS AnrHandler

CONSTANT t1      \* another thread that does not block SIGQUIT
=============================================================================
