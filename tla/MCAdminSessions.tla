--------------------------- MODULE MCAdminSessions ---------------------------
(* Two workers, two requests at a time, a lifetime of two ticks, AO steps 1-2. *)
EXTENDS AdminSessions, TLC
CONSTANTS r1, r2, w1, w2
MCWorkers == {w1, w2}
MCRequests == {r1, r2}
MCSymmetry == Permutations(MCRequests) \cup Permutations(MCWorkers)
=============================================================================
