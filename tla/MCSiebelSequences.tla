-------------------------- MODULE MCSiebelSequences --------------------------
(* Any two requests of one client, two PINs, two attempts.                    *)
EXTENDS SiebelSequences, TLC
CONSTANTS r1, r2, pin1, pin2
MCRequests == {r1, r2}
MCPins == {pin1, pin2}
MCSymmetry == Permutations(MCRequests)
=============================================================================
