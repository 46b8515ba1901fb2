---------------------------- MODULE MCReportPage -----------------------------
(* Instances of ReportPage for TLC.                                        *)
EXTENDS ReportPage
=============================================================================
