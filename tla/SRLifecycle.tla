----------------------------- MODULE SRLifecycle -----------------------------
(***************************************************************************)
(* What the service request endpoints promise about a request and its       *)
(* draft, however their calls interleave and fail: drafts belong to         *)
(* requests Siebel knows, Siebel gets no answers the client did not save,   *)
(* and a draft goes only after Siebel has got its request.                  *)
(***************************************************************************)
CONSTANTS SRs, Answers, Empty, NoDraft, NotFinal

VARIABLES siebel,  \* status of each request in Siebel
          final,   \* the answers Siebel got at its last finalization
          draft,   \* the answers in the draft row
          saved    \* every answer set the client ever saved

vars == <<siebel, final, draft, saved>>

Init ==
    /\ siebel = [s \in SRs |-> "none"]
    /\ final = [s \in SRs |-> NotFinal]
    /\ draft = [s \in SRs |-> NoDraft]
    /\ saved = [s \in SRs |-> {}]

Open(s) ==
    /\ siebel[s] = "none"
    /\ siebel' = [siebel EXCEPT ![s] = "active"]
    /\ UNCHANGED <<final, draft, saved>>

StartDraft(s) ==
    /\ siebel[s] # "none" /\ draft[s] = NoDraft
    /\ draft' = [draft EXCEPT ![s] = Empty]
    /\ UNCHANGED <<siebel, final, saved>>

Save(s, a) ==
    /\ draft[s] # NoDraft
    /\ draft' = [draft EXCEPT ![s] = a]
    /\ saved' = [saved EXCEPT ![s] = @ \cup {a}]
    /\ UNCHANGED <<siebel, final>>

Finalize(s, a) ==
    /\ siebel[s] \in {"active", "submitted"}
    /\ a \in saved[s] \cup {Empty}
    /\ siebel' = [siebel EXCEPT ![s] = "submitted"]
    /\ final' = [final EXCEPT ![s] = a]
    /\ UNCHANGED <<draft, saved>>

DropDraft(s) ==
    /\ final[s] # NotFinal
    /\ draft' = [draft EXCEPT ![s] = NoDraft]
    /\ UNCHANGED <<siebel, final, saved>>

Withdraw(s) ==
    /\ siebel[s] \in {"active", "submitted"}
    /\ siebel' = [siebel EXCEPT ![s] = "withdrawn"]
    /\ UNCHANGED <<final, draft, saved>>

Next ==
    \E s \in SRs :
        \/ Open(s) \/ StartDraft(s) \/ DropDraft(s) \/ Withdraw(s)
        \/ \E a \in Answers : Save(s, a)
        \/ \E a \in Answers \cup {Empty} : Finalize(s, a)

Spec == Init /\ [][Next]_vars

=============================================================================
