--------------------------- MODULE MCMonthlyReports ---------------------------
(* Two requests at a time, through two closing dates.                       *)
EXTENDS MonthlyReports, TLC
CONSTANTS r1, r2
MCRequests == {r1, r2}
MCSymmetry == Permutations(MCRequests)
=============================================================================
