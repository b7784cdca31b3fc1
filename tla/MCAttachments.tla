---------------------------- MODULE MCAttachments ----------------------------
(* Two processes, two submissions at a time, one clean and one infected file. *)
EXTENDS Attachments, TLC
CONSTANTS p1, p2, r1, r2, u1, u2, clean, infected
MCProcesses == {p1, p2}
MCRequests == {r1, r2}
MCUsers == {u1, u2}
MCScans == {clean, infected}
MCInfected == {infected}
MCSymmetry == Permutations(MCProcesses) \cup Permutations(MCRequests) \cup Permutations(MCUsers)
=============================================================================
