------------------------- MODULE MCReportContainer -------------------------
(* A small instance of ReportContainer for TLC: page sizes 2 and 4 on both  *)
(* sides of the limit for graphs, and totals that 2 and 4 divide or not.    *)
EXTENDS ReportContainer
=============================================================================
