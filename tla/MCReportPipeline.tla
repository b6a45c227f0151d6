-------------------------- MODULE MCReportPipeline --------------------------
(* The instance of ReportPipeline that TLC checks: two reports of one firm on *)
(* the first date, one of the other firm, a scan, on the second.              *)
EXTENDS ReportPipeline

MCDayOf == <<1, 1, 2>>
MCFirmOf == <<"koreainvest", "koreainvest", "shinhaninvest">>
MCReports == 1 .. 3
=============================================================================
