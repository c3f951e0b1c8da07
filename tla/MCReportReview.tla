--------------------------- MODULE MCReportReview ---------------------------
\* Instances of ReportReview.  Liveness is checked in the same run, so the
\* sessions are not declared symmetric.
EXTENDS ReportReview
=============================================================================
