---------------------------- MODULE MCBacktrace ----------------------------
(* Values for model checking Backtrace.                                    *)
EXTENDS Backtrace, TLC

CONSTANTS self, t1, t2

\* The threads but the current one are alike.
MCSymmetry == Permutations({t1, t2})
=============================================================================
