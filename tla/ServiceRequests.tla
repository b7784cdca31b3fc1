--------------------------- MODULE ServiceRequests ---------------------------
(***************************************************************************)
(* Creating, saving, submitting and withdrawing service requests            *)
(* (app/domains/service_requests/service.py and draft_repository.py behind  *)
(* app/routers/service_requests.py) as concurrent HTTP requests of one      *)
(* client, served by any worker of any process: what they share is the      *)
(* sr_drafts table and Siebel.                                              *)
(*                                                                          *)
(* Every Siebel call of these endpoints that changes something is a POST    *)
(* that ICMClient sends up to MaxAttempts times.  Siebel may have carried   *)
(* out a call whose answer the client never sees or cannot read, and may    *)
(* carry it out after the client gave up on it (late).  A call the circuit  *)
(* breaker refuses looks like one that is lost on every attempt.            *)
(*                                                                          *)
(* Siebel is external: it refuses to open a second active request of a      *)
(* type, to finalize or cancel a withdrawn one, and may or may not take a   *)
(* second finalization.  Each type has at most one request here, which      *)
(* stands for its type (the bound on their number).                         *)
(***************************************************************************)
EXTENDS Naturals, FiniteSets

CONSTANTS Requests,     \* HTTP requests in progress at a time
          SRs,          \* service requests, one per type
          NeedsPdf,     \* those of a type in _PDF_TYPES
          Answers,      \* form contents a client may save
          MaxAttempts,  \* stop_after_attempt
          Empty,        \* the answers {} of a draft never saved
          NoDraft,      \* no row in sr_drafts
          NotFinal      \* never finalized in Siebel

ASSUME AttemptsAssumption == MaxAttempts \in Nat \ {0}
ASSUME TypesAssumption == SRs # {}
ASSUME PdfAssumption == NeedsPdf \subseteq SRs
ASSUME ValuesAssumption ==
    /\ Empty \notin Answers
    /\ NoDraft \notin Answers \cup {Empty}
    /\ NotFinal \notin Answers \cup {Empty}

VARIABLES siebel,   \* status of each request in Siebel
          final,    \* the answers of its last finalization
          draft,    \* sr_drafts: the answers of each row
          pc,       \* where each HTTP request is
          call,     \* the Siebel call it makes: kind, sr, answers
          attempt,  \* which attempt of the call
          wire,     \* that attempt: "none", "sent", or Siebel's result
          late,     \* calls given up on that Siebel may still carry out
          saved,    \* history: every answer set saved for a request
          overtaken,\* history: requests finalized before their row was inserted
          failed    \* history: something timed out, crashed, failed or was unreadable

handlers == <<pc, call, attempt, wire>>
vars == <<siebel, final, draft, handlers, late, saved, overtaken, failed>>

FormValues == Answers \cup {Empty}
Calls == [kind : {"create", "finalize", "cancel"}, sr : SRs, answers : FormValues]
Results == {"ok", "conflict", "rejected"}
Places == {"idle", "pin", "read", "siebel", "insert", "delete"}

TypeOK ==
    /\ siebel \in [SRs -> {"none", "active", "submitted", "withdrawn"}]
    /\ final \in [SRs -> FormValues \cup {NotFinal}]
    /\ draft \in [SRs -> FormValues \cup {NoDraft}]
    /\ pc \in [Requests -> Places]
    /\ call \in [Requests -> Calls]
    /\ attempt \in [Requests -> 1..MaxAttempts]
    /\ wire \in [Requests -> {"none", "sent", "garbled"} \cup Results]
    /\ late \subseteq Calls
    /\ saved \in [SRs -> SUBSET Answers]
    /\ overtaken \subseteq SRs
    /\ failed \in BOOLEAN

NoCall == [kind |-> "create", sr |-> CHOOSE s \in SRs : TRUE, answers |-> Empty]

Init ==
    /\ siebel = [s \in SRs |-> "none"]
    /\ final = [s \in SRs |-> NotFinal]
    /\ draft = [s \in SRs |-> NoDraft]
    /\ pc = [r \in Requests |-> "idle"]
    /\ call = [r \in Requests |-> NoCall]
    /\ attempt = [r \in Requests |-> 1]
    /\ wire = [r \in Requests |-> "none"]
    /\ late = {}
    /\ saved = [s \in SRs |-> {}]
    /\ overtaken = {}
    /\ failed = FALSE

-----------------------------------------------------------------------------
(* Siebel *)

\* Siebel carries out call m with result res.
CarriesOut(m, res) ==
    \/ /\ m.kind = "create"
       /\ IF siebel[m.sr] = "none"
            THEN res = "ok" /\ siebel' = [siebel EXCEPT ![m.sr] = "active"]
            ELSE res = "conflict" /\ UNCHANGED siebel
       /\ UNCHANGED final
    \/ /\ m.kind = "finalize"
       /\ \/ /\ siebel[m.sr] \in {"active", "submitted"}
             /\ res = "ok"
             /\ siebel' = [siebel EXCEPT ![m.sr] = "submitted"]
             /\ final' = [final EXCEPT ![m.sr] = m.answers]
          \/ /\ siebel[m.sr] # "active"
             /\ res = "rejected"
             /\ UNCHANGED <<siebel, final>>
    \/ /\ m.kind = "cancel"
       /\ IF siebel[m.sr] \in {"active", "submitted"}
            THEN res = "ok" /\ siebel' = [siebel EXCEPT ![m.sr] = "withdrawn"]
            ELSE res = "rejected" /\ UNCHANGED siebel
       /\ UNCHANGED final

\* A success whose body is no JSON raises a ValueError: an error for the client.
SiebelHandles(r) ==
    /\ wire[r] = "sent"
    /\ \E res \in Results :
        /\ CarriesOut(call[r], res)
        /\ \/ /\ wire' = [wire EXCEPT ![r] = res]
              /\ UNCHANGED failed
           \/ /\ res = "ok"
              /\ wire' = [wire EXCEPT ![r] = "garbled"]
              /\ failed' = TRUE
    /\ UNCHANGED <<draft, pc, call, attempt, late, saved, overtaken>>

SiebelHandlesLate(m) ==
    /\ m \in late
    /\ \E res \in Results : CarriesOut(m, res)
    /\ late' = late \ {m}
    /\ UNCHANGED <<draft, handlers, saved, overtaken, failed>>

-----------------------------------------------------------------------------
(* The handlers *)

Post(r, m) ==
    /\ pc' = [pc EXCEPT ![r] = "siebel"]
    /\ call' = [call EXCEPT ![r] = m]
    /\ attempt' = [attempt EXCEPT ![r] = 1]
    /\ wire' = [wire EXCEPT ![r] = "sent"]

Return(r) ==
    /\ pc' = [pc EXCEPT ![r] = "idle"]
    /\ call' = [call EXCEPT ![r] = NoCall]
    /\ attempt' = [attempt EXCEPT ![r] = 1]
    /\ wire' = [wire EXCEPT ![r] = "none"]

\* Two requests of a type only while the first is open, see the bound above.
BeginCreate(r, s) ==
    /\ pc[r] = "idle" /\ siebel[s] \in {"none", "active"}
    /\ Post(r, [kind |-> "create", sr |-> s, answers |-> Empty])
    /\ UNCHANGED <<siebel, final, draft, late, saved, overtaken, failed>>

BeginWithdraw(r, s) ==
    /\ pc[r] = "idle" /\ siebel[s] # "none"
    /\ Post(r, [kind |-> "cancel", sr |-> s, answers |-> Empty])
    /\ UNCHANGED <<siebel, final, draft, late, saved, overtaken, failed>>

BeginSubmit(r, s) ==
    /\ pc[r] = "idle" /\ siebel[s] # "none"
    /\ pc' = [pc EXCEPT ![r] = "pin"]
    /\ call' = [call EXCEPT ![r] = [kind |-> "finalize", sr |-> s, answers |-> Empty]]
    /\ UNCHANGED <<siebel, final, draft, attempt, wire, late, saved, overtaken, failed>>

\* The PIN was right; a wrong PIN or an error ends the request with nothing done.
PinChecked(r) ==
    /\ pc[r] = "pin"
    /\ \/ /\ pc' = [pc EXCEPT ![r] = "read"]
          /\ UNCHANGED <<call, attempt, wire>>
       \/ Return(r)
    /\ UNCHANGED <<siebel, final, draft, late, saved, overtaken, failed>>

\* A missing row has no type and no answers; a type that needs a PDF stops here,
\* because PDFGenerationService.generate is not implemented.
ReadDraft(r) ==
    LET s == call[r].sr
        answers == IF draft[s] = NoDraft THEN Empty ELSE draft[s]
    IN /\ pc[r] = "read"
       /\ IF draft[s] # NoDraft /\ s \in NeedsPdf
            THEN Return(r)
            ELSE Post(r, [kind |-> "finalize", sr |-> s, answers |-> answers])
       /\ UNCHANGED <<siebel, final, draft, late, saved, overtaken, failed>>

\* Mutant: the draft goes whatever Siebel answered.
DropAnyway(r) == call[r].kind = "finalize"

\* Mutant: only a draft that held answers is deleted.
FinalizedAnswers(r) ==
    call[r].kind = "finalize" /\ wire[r] = "ok" /\ call[r].answers # Empty

Finalized(r) == call[r].kind = "finalize" /\ wire[r] = "ok"

Answered(r) ==
    /\ pc[r] = "siebel" /\ wire[r] \in Results \cup {"garbled"}
    /\ IF wire[r] = "ok" /\ call[r].kind = "create"
         THEN pc' = [pc EXCEPT ![r] = "insert"] /\ UNCHANGED <<call, attempt, wire>>
         ELSE IF Finalized(r)
           THEN pc' = [pc EXCEPT ![r] = "delete"] /\ UNCHANGED <<call, attempt, wire>>
           ELSE Return(r)
    /\ UNCHANGED <<siebel, final, draft, late, saved, overtaken, failed>>

\* Mutant: one attempt too many.
AgainOnceMore(r) == attempt[r] <= MaxAttempts

Again(r) == attempt[r] < MaxAttempts

\* No answer in time: tenacity sends the call again, or the request fails.  What
\* Siebel has not carried out by then it may carry out later, or never.
TimesOut(r) ==
    /\ pc[r] = "siebel"
    /\ late' \in IF wire[r] = "sent" THEN {late, late \cup {call[r]}} ELSE {late}
    /\ IF Again(r)
         THEN /\ attempt' = [attempt EXCEPT ![r] = @ + 1]
              /\ wire' = [wire EXCEPT ![r] = "sent"]
              /\ UNCHANGED <<pc, call>>
         ELSE Return(r)
    /\ failed' = TRUE
    /\ UNCHANGED <<siebel, final, draft, saved, overtaken>>

\* The primary key admits one row per request.
InsertDraft(r) ==
    LET s == call[r].sr IN
    /\ pc[r] = "insert"
    /\ draft[s] = NoDraft
    /\ draft' = [draft EXCEPT ![s] = Empty]
    /\ overtaken' = IF final[s] # NotFinal THEN overtaken \cup {s} ELSE overtaken
    /\ Return(r)
    /\ UNCHANGED <<siebel, final, late, saved, failed>>

DeleteDraft(r) ==
    /\ pc[r] = "delete"
    /\ draft' = [draft EXCEPT ![call[r].sr] = NoDraft]
    /\ Return(r)
    /\ UNCHANGED <<siebel, final, late, saved, overtaken, failed>>

\* Mutant: the row is inserted when it is missing.
RowOrNew(s) == siebel[s] # "none"

RowExists(s) == draft[s] # NoDraft

\* update_form is one UPDATE ... RETURNING and its commit; without a row, 404.
SaveDraft(s, a) ==
    /\ RowExists(s)
    /\ draft' = [draft EXCEPT ![s] = a]
    /\ saved' = [saved EXCEPT ![s] = @ \cup {a}]
    /\ UNCHANGED <<siebel, final, handlers, late, overtaken, failed>>

\* The worker process dies, or the database refuses the statement.
Dies(r) ==
    /\ pc[r] # "idle"
    /\ late' = IF wire[r] = "sent" THEN late \cup {call[r]} ELSE late
    /\ Return(r)
    /\ failed' = TRUE
    /\ UNCHANGED <<siebel, final, draft, saved, overtaken>>

Next ==
    \/ \E r \in Requests :
        \/ \E s \in SRs : BeginCreate(r, s) \/ BeginWithdraw(r, s) \/ BeginSubmit(r, s)
        \/ PinChecked(r) \/ ReadDraft(r) \/ SiebelHandles(r) \/ Answered(r)
        \/ TimesOut(r) \/ InsertDraft(r) \/ DeleteDraft(r) \/ Dies(r)
    \/ \E s \in SRs, a \in Answers : SaveDraft(s, a)
    \/ \E m \in late : SiebelHandlesLate(m)

Spec == Init /\ [][Next]_vars

-----------------------------------------------------------------------------
(* Properties *)

\* A request without its draft is the mark of a failure: while nothing timed out, died,
\* failed or was answered unreadably, each open request has its row or the handler that will insert it.
OrphansOnlyByFailure ==
    ~failed => \A s \in SRs :
        siebel[s] # "none" /\ draft[s] = NoDraft /\ final[s] = NotFinal
            => \E r \in Requests : call[r].kind = "create" /\ call[r].sr = s
                                   /\ (wire[r] = "ok" \/ pc[r] = "insert")

\* The converse: the row of a finalized request is left over only by a failure, or when
\* the submission came before the row; otherwise a handler is about to delete it
\* (service.py:50-61, 141-151).
DraftsCleared ==
    ~failed => \A s \in SRs \ overtaken :
        final[s] # NotFinal /\ draft[s] # NoDraft
            => \E r \in Requests : call[r].kind = "finalize" /\ call[r].sr = s
                                   /\ wire[r] = "ok"

\* The endpoints keep the promises of SRLifecycle: the handlers, the Siebel calls on
\* their way and the retries are hidden, the draft rows and Siebel's state are not
\* (service.py:45-161).
L == INSTANCE SRLifecycle WITH siebel <- siebel, final <- final, draft <- draft, saved <- saved
KeepsPromises == L!Spec

\* Types in _PDF_TYPES "require auto-generated PDF on submit"
\* (sr_type_registry.py:27), and no PDF can be generated yet: none is finalized.
PdfBeforeFinalization == \A s \in NeedsPdf : final[s] = NotFinal

=============================================================================
