--------------------------- MODULE MCReportCommit ---------------------------
\* Instances of ReportCommit.
EXTENDS ReportCommit
=============================================================================
