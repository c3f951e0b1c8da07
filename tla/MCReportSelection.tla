------------------------- MODULE MCReportSelection -------------------------
\* ReportSelection for TLC.
EXTENDS ReportSelection, TLC

TextSymmetry == Permutations(Texts)
=============================================================================
