-------------------------- MODULE MCServiceRequests --------------------------
(* Two HTTP requests at a time over one service request, each call attempted *)
(* twice; service requests of different types share nothing.                 *)
EXTENDS ServiceRequests, TLC
CONSTANTS r1, r2, s1, a1, a2
MCRequests == {r1, r2}
MCSRs == {s1}
MCNeedsPdf == {}
MCAnswers == {a1, a2}
MCSymmetry == Permutations(MCRequests) \cup Permutations(MCAnswers)
=============================================================================
