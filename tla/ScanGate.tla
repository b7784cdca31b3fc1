------------------------------- MODULE ScanGate -------------------------------
(***************************************************************************)
(* What the attachment endpoints promise, whatever becomes of their         *)
(* processes and messages: a file is attached to a service request only     *)
(* after the scanner has cleared it, and a file it found infected never is. *)
(***************************************************************************)
EXTENDS Naturals

CONSTANT Scans

VARIABLES verdict,  \* what the scanner found: "none", "CLEAN" or "INFECTED"
          copies    \* attachments Siebel holds of each file

vars == <<verdict, copies>>

Init ==
    /\ verdict = [s \in Scans |-> "none"]
    /\ copies = [s \in Scans |-> 0]

Find(s) ==
    /\ verdict[s] = "none"
    /\ \E v \in {"CLEAN", "INFECTED"} : verdict' = [verdict EXCEPT ![s] = v]
    /\ UNCHANGED copies

Attach(s) ==
    /\ verdict[s] = "CLEAN"
    /\ copies' = [copies EXCEPT ![s] = @ + 1]
    /\ UNCHANGED verdict

Next == \E s \in Scans : Find(s) \/ Attach(s)

Spec == Init /\ [][Next]_vars

=============================================================================
