--------------------------- MODULE MCReportStore ---------------------------
(* Values for model checking ReportStore.                                  *)
EXTENDS ReportStore

CONSTANTS crash, anr, exception, f1, f2

\* Reports of different kinds, or of different times, get different names.
MCNameOf == [r \in Reports |-> r]
=============================================================================
