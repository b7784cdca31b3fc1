------------------------- MODULE ServiceRequestsProofs -------------------------
(* For any number of requests, handlers and attempts, the service request   *)
(* endpoints implement SRLifecycle, and drafts are orphaned, or left over   *)
(* although their row came first, by failures only.                         *)
(*                                                                          *)
(* The inductive invariant follows a call through the handler and through   *)
(* Siebel: where a handler stands determines its call (CallFits), a good    *)
(* answer it still holds has its effect in Siebel behind it (AnswersTrue),  *)
(* and whatever answers are on their way were saved before (AnswersSaved).  *)
EXTENDS ServiceRequests, TLAPS

CallFits ==
    \A r \in Requests :
        /\ pc[r] # "siebel" /\ pc[r] \notin {"insert", "delete"} => wire[r] = "none"
        /\ pc[r] \in {"pin", "read", "delete"} => call[r].kind = "finalize"
        /\ pc[r] = "insert" => call[r].kind = "create"
        /\ pc[r] \in {"insert", "delete"} => wire[r] = "ok"

AnswersTrue ==
    \A r \in Requests : wire[r] = "ok" =>
        /\ call[r].kind = "create" => siebel[call[r].sr] # "none"
        /\ call[r].kind = "finalize" => final[call[r].sr] # NotFinal

WasSaved(m) == m.kind = "finalize" => m.answers \in saved[m.sr] \cup {Empty}

AnswersSaved ==
    /\ \A s \in SRs : draft[s] # NoDraft => draft[s] \in saved[s] \cup {Empty}
    /\ \A m \in late : WasSaved(m)
    /\ \A r \in Requests : WasSaved(call[r])

LateByFailure == late # {} => failed

Invariant == TypeOK /\ CallFits /\ AnswersTrue /\ AnswersSaved /\ LateByFailure

\* What a call does to Siebel: only to its own request, and nothing is taken back.
LEMMA SiebelKeeps ==
    ASSUME TypeOK, NEW m \in Calls, NEW res, CarriesOut(m, res)
    PROVE  /\ siebel' \in [SRs -> {"none", "active", "submitted", "withdrawn"}]
           /\ final' \in [SRs -> FormValues \cup {NotFinal}]
           /\ res \in Results
           /\ \A s \in SRs : siebel[s] # "none" => siebel'[s] # "none"
           /\ \A s \in SRs : final[s] # NotFinal => final'[s] # NotFinal
           /\ res = "ok" /\ m.kind = "create" => siebel'[m.sr] # "none"
           /\ res = "ok" /\ m.kind = "finalize" => final'[m.sr] # NotFinal
<1> USE ValuesAssumption DEF TypeOK, Calls, FormValues, Results
<1>1. CASE m.kind = "create"
  BY <1>1 DEF CarriesOut
<1>2. CASE m.kind = "finalize"
  BY <1>2 DEF CarriesOut
<1>3. CASE m.kind = "cancel"
  BY <1>3 DEF CarriesOut
<1> QED
  BY <1>1, <1>2, <1>3

LEMMA NoCallIsCall == NoCall \in Calls /\ NoCall.kind = "create"
BY TypesAssumption DEF NoCall, Calls, FormValues

\* Every step keeps every variable in its type.
LEMMA TypingStep == TypeOK /\ [Next]_vars => TypeOK'
<1> SUFFICES ASSUME TypeOK, [Next]_vars
             PROVE  TypeOK'
  OBVIOUS
<1> USE AttemptsAssumption, NoCallIsCall DEF TypeOK, Places, Return, Post
<1>a. 1 \in 1..MaxAttempts
  OBVIOUS
<1>1. ASSUME NEW r \in Requests, NEW s \in SRs,
             BeginCreate(r, s) \/ BeginWithdraw(r, s) \/ BeginSubmit(r, s)
      PROVE  TypeOK'
  <2>1. call'[r] \in Calls /\ call' = [call EXCEPT ![r] = call'[r]]
    BY <1>1 DEF BeginCreate, BeginWithdraw, BeginSubmit, Calls, FormValues
  <2> QED
    BY <1>a, <1>1, <2>1 DEF BeginCreate, BeginWithdraw, BeginSubmit
<1>2. ASSUME NEW r \in Requests, PinChecked(r) PROVE TypeOK'
  BY <1>a, <1>2 DEF PinChecked
<1>3. ASSUME NEW r \in Requests, ReadDraft(r) PROVE TypeOK'
  <2>1. call[r].sr \in SRs
    BY DEF Calls
  <2>2. call'[r] \in Calls /\ call' = [call EXCEPT ![r] = call'[r]]
    BY <1>3, <2>1 DEF ReadDraft, Calls, FormValues
  <2> QED
    BY <1>a, <1>3, <2>2 DEF ReadDraft
<1>4. ASSUME NEW r \in Requests, SiebelHandles(r) PROVE TypeOK'
  <2>1. PICK res \in Results : /\ CarriesOut(call[r], res)
                               /\ \E w \in {res, "garbled"} : wire' = [wire EXCEPT ![r] = w]
    BY <1>4 DEF SiebelHandles
  <2>2. failed' \in BOOLEAN
    BY <1>4 DEF SiebelHandles
  <2>3. /\ siebel' \in [SRs -> {"none", "active", "submitted", "withdrawn"}]
        /\ final' \in [SRs -> FormValues \cup {NotFinal}]
    BY <2>1, SiebelKeeps
  <2>4. wire' \in [Requests -> {"none", "sent", "garbled"} \cup Results]
    BY <2>1
  <2> QED
    BY <1>4, <2>2, <2>3, <2>4 DEF SiebelHandles
<1>5. ASSUME NEW r \in Requests, Answered(r) PROVE TypeOK'
  BY <1>a, <1>5 DEF Answered
<1>6. ASSUME NEW r \in Requests, TimesOut(r) PROVE TypeOK'
  <2>1. CASE Again(r)
    <3>1. attempt[r] + 1 \in 1..MaxAttempts
      BY <2>1 DEF Again
    <3> QED
      BY <1>6, <2>1, <3>1 DEF TimesOut
  <2>2. CASE ~Again(r)
    BY <1>a, <1>6, <2>2 DEF TimesOut
  <2> QED
    BY <2>1, <2>2
<1>7. ASSUME NEW r \in Requests, InsertDraft(r) \/ DeleteDraft(r) PROVE TypeOK'
  <2>1. call[r] \in Calls
    OBVIOUS
  <2>2. call[r].sr \in SRs
    BY <2>1 DEF Calls
  <2>3. overtaken' \subseteq SRs
    BY <1>7, <2>2 DEF InsertDraft, DeleteDraft
  <2> QED
    BY <1>a, <1>7, <2>2, <2>3 DEF InsertDraft, DeleteDraft, FormValues
<1>8. ASSUME NEW r \in Requests, Dies(r) PROVE TypeOK'
  BY <1>a, <1>8 DEF Dies
<1>9. ASSUME NEW s \in SRs, NEW a \in Answers, SaveDraft(s, a) PROVE TypeOK'
  BY <1>9 DEF SaveDraft, handlers, FormValues
<1>10. ASSUME NEW m \in late, SiebelHandlesLate(m) PROVE TypeOK'
  BY <1>10, SiebelKeeps DEF SiebelHandlesLate, handlers
<1>11. ASSUME UNCHANGED vars PROVE TypeOK'
  BY <1>11 DEF vars, handlers
<1> QED
  BY <1>1, <1>2, <1>3, <1>4, <1>5, <1>6, <1>7, <1>8, <1>9, <1>10, <1>11 DEF Next

\* Where a handler stands determines its call and its answer.
LEMMA CallFitsStep ==
    ASSUME Invariant, [Next]_vars
    PROVE  CallFits'
<1> USE NoCallIsCall DEF Invariant, TypeOK, CallFits, Places, Return, Post
<1>1. ASSUME NEW r \in Requests, NEW s \in SRs,
             BeginCreate(r, s) \/ BeginWithdraw(r, s) \/ BeginSubmit(r, s)
      PROVE  CallFits'
  BY <1>1 DEF BeginCreate, BeginWithdraw, BeginSubmit
<1>2. ASSUME NEW r \in Requests, PinChecked(r) PROVE CallFits'
  BY <1>2 DEF PinChecked
<1>3. ASSUME NEW r \in Requests, ReadDraft(r) PROVE CallFits'
  BY <1>3 DEF ReadDraft
<1>4. ASSUME NEW r \in Requests, SiebelHandles(r) PROVE CallFits'
  BY <1>4 DEF SiebelHandles
<1>5. ASSUME NEW r \in Requests, Answered(r) PROVE CallFits'
  BY <1>5 DEF Answered, Finalized
<1>6. ASSUME NEW r \in Requests, TimesOut(r) PROVE CallFits'
  BY <1>6 DEF TimesOut
<1>7. ASSUME NEW r \in Requests, InsertDraft(r) \/ DeleteDraft(r) \/ Dies(r)
      PROVE  CallFits'
  BY <1>7 DEF InsertDraft, DeleteDraft, Dies
<1>8. ASSUME UNCHANGED handlers PROVE CallFits'
  BY <1>8 DEF handlers
<1> QED
  BY <1>1, <1>2, <1>3, <1>4, <1>5, <1>6, <1>7, <1>8
     DEF Next, vars, SaveDraft, SiebelHandlesLate

\* A good answer a handler holds stays true: Siebel takes nothing back.
LEMMA AnswersTrueStep ==
    ASSUME Invariant, [Next]_vars
    PROVE  AnswersTrue'
<1> USE NoCallIsCall DEF Invariant, TypeOK, AnswersTrue, Return, Post
<1>1. ASSUME NEW r \in Requests, SiebelHandles(r) PROVE AnswersTrue'
  <2>1. PICK res \in Results : /\ CarriesOut(call[r], res)
                               /\ \/ wire' = [wire EXCEPT ![r] = res]
                                  \/ wire' = [wire EXCEPT ![r] = "garbled"]
    BY <1>1 DEF SiebelHandles
  <2>2. call' = call /\ call[r] \in Calls
    BY <1>1 DEF SiebelHandles
  <2>3. \A q \in Requests : call[q].sr \in SRs
    BY DEF Calls
  <2> QED
    BY <2>1, <2>2, <2>3, SiebelKeeps
<1>2. ASSUME NEW m \in late, SiebelHandlesLate(m) PROVE AnswersTrue'
  <2>1. m \in Calls /\ \A q \in Requests : call[q].sr \in SRs
    BY DEF Calls
  <2>2. PICK res \in Results : CarriesOut(m, res)
    BY <1>2 DEF SiebelHandlesLate
  <2>3. UNCHANGED <<call, wire>>
    BY <1>2 DEF SiebelHandlesLate, handlers
  <2> QED
    BY <2>1, <2>2, <2>3, SiebelKeeps
<1>3. ASSUME NEW r \in Requests, NEW s \in SRs,
             BeginCreate(r, s) \/ BeginWithdraw(r, s) \/ BeginSubmit(r, s)
      PROVE  AnswersTrue'
  BY <1>3 DEF BeginCreate, BeginWithdraw, BeginSubmit, CallFits
<1>4. ASSUME NEW r \in Requests,
             PinChecked(r) \/ ReadDraft(r) \/ Answered(r) \/ TimesOut(r)
      PROVE  AnswersTrue'
  BY <1>4 DEF PinChecked, ReadDraft, Answered, TimesOut
<1>5. ASSUME NEW r \in Requests, InsertDraft(r) \/ DeleteDraft(r) \/ Dies(r)
      PROVE  AnswersTrue'
  BY <1>5 DEF InsertDraft, DeleteDraft, Dies
<1>6. ASSUME UNCHANGED <<siebel, final, handlers>> PROVE AnswersTrue'
  BY <1>6 DEF handlers
<1> QED
  BY <1>1, <1>2, <1>3, <1>4, <1>5, <1>6 DEF Next, vars, SaveDraft

\* Answers are taken from a draft row, and rows hold what was saved.
LEMMA AnswersSavedStep ==
    ASSUME Invariant, [Next]_vars
    PROVE  AnswersSaved'
<1> USE NoCallIsCall, ValuesAssumption
    DEF Invariant, TypeOK, AnswersSaved, WasSaved, Return, Post
<1>0. \A r \in Requests : call[r].sr \in SRs
  BY DEF Calls
<1>1. ASSUME NEW r \in Requests, NEW s \in SRs,
             BeginCreate(r, s) \/ BeginWithdraw(r, s) \/ BeginSubmit(r, s)
      PROVE  AnswersSaved'
  BY <1>1 DEF BeginCreate, BeginWithdraw, BeginSubmit
<1>2. ASSUME NEW r \in Requests, PinChecked(r) \/ Answered(r) PROVE AnswersSaved'
  BY <1>2 DEF PinChecked, Answered
<1>3. ASSUME NEW r \in Requests, ReadDraft(r) PROVE AnswersSaved'
  <2>1. UNCHANGED <<draft, saved, late>>
    BY <1>3 DEF ReadDraft
  <2>2. \A q \in Requests \ {r} : call'[q] = call[q]
    BY <1>3 DEF ReadDraft
  <2>3. WasSaved(call'[r])
    BY <1>0, <1>3 DEF ReadDraft
  <2> QED
    BY <2>1, <2>2, <2>3
<1>4. ASSUME NEW r \in Requests, SiebelHandles(r) \/ TimesOut(r) PROVE AnswersSaved'
  BY <1>4 DEF SiebelHandles, TimesOut
<1>5. ASSUME NEW r \in Requests, InsertDraft(r) \/ DeleteDraft(r) \/ Dies(r)
      PROVE  AnswersSaved'
  BY <1>0, <1>5 DEF InsertDraft, DeleteDraft, Dies
<1>6. ASSUME NEW s \in SRs, NEW a \in Answers, SaveDraft(s, a) PROVE AnswersSaved'
  <2>1. \A t \in SRs : saved[t] \subseteq saved'[t]
    BY <1>6 DEF SaveDraft
  <2>2. \A t \in SRs : draft'[t] # NoDraft => draft'[t] \in saved'[t] \cup {Empty}
    BY <1>6 DEF SaveDraft
  <2>3. UNCHANGED <<late, call>> /\ \A m \in late : m.sr \in SRs
    BY <1>6 DEF SaveDraft, handlers, Calls
  <2> QED
    BY <1>0, <2>1, <2>2, <2>3
<1>7. ASSUME NEW m \in late, SiebelHandlesLate(m) PROVE AnswersSaved'
  BY <1>7 DEF SiebelHandlesLate, handlers
<1>8. ASSUME UNCHANGED vars PROVE AnswersSaved'
  BY <1>8 DEF vars, handlers
<1> QED
  BY <1>1, <1>2, <1>3, <1>4, <1>5, <1>6, <1>7, <1>8 DEF Next

LEMMA LateStep ==
    ASSUME Invariant, [Next]_vars
    PROVE  LateByFailure'
BY DEF Invariant, LateByFailure, Next, vars, handlers, BeginCreate, BeginWithdraw,
   BeginSubmit, PinChecked, ReadDraft, SiebelHandles, Answered, TimesOut, InsertDraft,
   DeleteDraft, Dies, SaveDraft, SiebelHandlesLate

LEMMA InvariantInit == Init => Invariant
<1> SUFFICES ASSUME Init
             PROVE  Invariant
  OBVIOUS
<1>1. TypeOK
  <2>1. attempt \in [Requests -> 1..MaxAttempts]
    BY AttemptsAssumption DEF Init
  <2>2. failed \in BOOLEAN /\ late \subseteq Calls
    BY DEF Init
  <2>3. call \in [Requests -> Calls] /\ pc \in [Requests -> Places]
    BY NoCallIsCall DEF Init, Places
  <2> QED
    BY <2>1, <2>2, <2>3 DEF Init, TypeOK, FormValues
<1>2. CallFits /\ AnswersTrue /\ LateByFailure
  BY DEF Init, CallFits, AnswersTrue, LateByFailure
<1>3. AnswersSaved
  BY NoCallIsCall DEF Init, AnswersSaved, WasSaved
<1> QED
  BY <1>1, <1>2, <1>3 DEF Invariant

LEMMA InvariantStep == Invariant /\ [Next]_vars => Invariant'
BY TypingStep, CallFitsStep, AnswersTrueStep, AnswersSavedStep, LateStep DEF Invariant

LEMMA InvariantAlways == Spec => []Invariant
BY InvariantInit, InvariantStep, PTL DEF Spec

\* The variables keep their types for any requests, answers and attempts.
THEOREM TypeCorrect == Spec => []TypeOK
<1>1. Invariant => TypeOK
  BY DEF Invariant
<1> QED
  BY <1>1, InvariantAlways, PTL

-----------------------------------------------------------------------------
\* The request s has the handler that will insert its row.
Awaited(s) ==
    \E r \in Requests : /\ call[r].kind = "create" /\ call[r].sr = s
                        /\ wire[r] = "ok" \/ pc[r] = "insert"

\* Without a failure, a handler that holds the good answer of a creation keeps it
\* until it has inserted the row, and no other handler touches that row before.
LEMMA OrphanStep ==
    ASSUME Invariant, [Next]_vars, OrphansOnlyByFailure
    PROVE  OrphansOnlyByFailure'
<1> SUFFICES ASSUME ~failed', NEW s \in SRs,
                    siebel'[s] # "none", draft'[s] = NoDraft, final'[s] = NotFinal
             PROVE  Awaited(s)'
  BY DEF OrphansOnlyByFailure, Awaited
<1> USE NoCallIsCall DEF Invariant, TypeOK, Return, Post
<1>0. siebel[s] # "none" /\ draft[s] = NoDraft /\ final[s] = NotFinal /\ ~failed
        => Awaited(s)
  BY DEF OrphansOnlyByFailure, Awaited
<1>1. ASSUME NEW r \in Requests, SiebelHandles(r) PROVE Awaited(s)'
  <2>1. PICK res \in Results : /\ CarriesOut(call[r], res)
                               /\ wire' = [wire EXCEPT ![r] = res]
    BY <1>1 DEF SiebelHandles
  <2>2. call[r] \in Calls /\ draft' = draft /\ ~failed /\ call' = call /\ pc' = pc
    BY <1>1 DEF SiebelHandles
  <2>3. final[s] = NotFinal
    BY <2>1, <2>2, SiebelKeeps
  <2>4. CASE siebel[s] # "none"
    <3>1. PICK q \in Requests : /\ call[q].kind = "create" /\ call[q].sr = s
                                /\ wire[q] = "ok" \/ pc[q] = "insert"
      BY <1>0, <2>2, <2>3, <2>4 DEF Awaited
    <3>2. wire[r] = "sent" /\ (pc[q] = "insert" => wire[q] = "ok")
      BY <1>1 DEF SiebelHandles, CallFits
    <3> QED
      BY <2>1, <2>2, <3>1, <3>2 DEF Awaited
  <2>5. CASE siebel[s] = "none"
    <3>1. call[r].kind = "create" /\ call[r].sr = s /\ res = "ok"
      BY <2>1, <2>2, <2>5 DEF CarriesOut, Calls
    <3>2. wire'[r] = "ok"
      BY <2>1, <3>1
    <3> QED
      BY <2>2, <3>1, <3>2 DEF Awaited
  <2> QED
    BY <2>4, <2>5
<1>2. ASSUME NEW m \in late, SiebelHandlesLate(m) PROVE Awaited(s)'
  BY <1>2 DEF SiebelHandlesLate, LateByFailure
<1>3. ASSUME NEW r \in Requests, Answered(r) PROVE Awaited(s)'
  <2>1. PICK q \in Requests : /\ call[q].kind = "create" /\ call[q].sr = s
                              /\ wire[q] = "ok" \/ pc[q] = "insert"
    BY <1>0, <1>3 DEF Answered, Awaited
  <2>2. CASE q = r
    <3>1. call'[r] = call[r] /\ pc'[r] = "insert"
      BY <1>3, <2>1, <2>2 DEF Answered, CallFits
    <3> QED
      BY <2>1, <2>2, <3>1 DEF Awaited
  <2>3. CASE q # r
    <3>1. call'[q] = call[q] /\ pc'[q] = pc[q] /\ wire'[q] = wire[q]
      BY <1>3, <2>3 DEF Answered
    <3> QED
      BY <2>1, <3>1 DEF Awaited
  <2> QED
    BY <2>2, <2>3
<1>4. ASSUME NEW r \in Requests, NEW t \in SRs,
             BeginCreate(r, t) \/ BeginWithdraw(r, t) \/ BeginSubmit(r, t)
      PROVE  Awaited(s)'
  <2>1. pc[r] = "idle" /\ UNCHANGED <<siebel, final, draft, failed>>
    BY <1>4 DEF BeginCreate, BeginWithdraw, BeginSubmit
  <2>2. PICK q \in Requests : /\ call[q].kind = "create" /\ call[q].sr = s
                              /\ wire[q] = "ok" \/ pc[q] = "insert"
    BY <1>0, <2>1 DEF Awaited
  <2>3. q # r
    BY <2>1, <2>2 DEF CallFits
  <2>4. call'[q] = call[q] /\ pc'[q] = pc[q] /\ wire'[q] = wire[q]
    BY <1>4, <2>3 DEF BeginCreate, BeginWithdraw, BeginSubmit
  <2> QED
    BY <2>2, <2>4 DEF Awaited
<1>5. ASSUME NEW r \in Requests, PinChecked(r) \/ ReadDraft(r) PROVE Awaited(s)'
  <2>1. pc[r] \in {"pin", "read"} /\ UNCHANGED <<siebel, final, draft, failed>>
    BY <1>5 DEF PinChecked, ReadDraft
  <2>2. PICK q \in Requests : /\ call[q].kind = "create" /\ call[q].sr = s
                              /\ wire[q] = "ok" \/ pc[q] = "insert"
    BY <1>0, <2>1 DEF Awaited
  <2>3. q # r
    BY <2>1, <2>2 DEF CallFits
  <2>4. call'[q] = call[q] /\ pc'[q] = pc[q] /\ wire'[q] = wire[q]
    BY <1>5, <2>3 DEF PinChecked, ReadDraft
  <2> QED
    BY <2>2, <2>4 DEF Awaited
<1>6. ASSUME NEW r \in Requests, InsertDraft(r) PROVE Awaited(s)'
  <2>1. call[r].sr # s /\ draft[s] = NoDraft
    BY <1>6, ValuesAssumption DEF InsertDraft, Calls
  <2>2. PICK q \in Requests : /\ call[q].kind = "create" /\ call[q].sr = s
                              /\ wire[q] = "ok" \/ pc[q] = "insert"
    BY <1>0, <1>6, <2>1 DEF InsertDraft, Awaited
  <2>3. q # r
    BY <2>1, <2>2
  <2>4. call'[q] = call[q] /\ pc'[q] = pc[q] /\ wire'[q] = wire[q]
    BY <1>6, <2>3 DEF InsertDraft
  <2> QED
    BY <2>2, <2>4 DEF Awaited
<1>7. ASSUME NEW r \in Requests, DeleteDraft(r) PROVE Awaited(s)'
  <2>1. final[call[r].sr] # NotFinal /\ call[r].kind = "finalize" /\ call[r].sr \in SRs
    BY <1>7 DEF DeleteDraft, CallFits, AnswersTrue, Calls
  <2>2. draft[s] = NoDraft
    BY <1>7, <2>1 DEF DeleteDraft
  <2>3. PICK q \in Requests : /\ call[q].kind = "create" /\ call[q].sr = s
                              /\ wire[q] = "ok" \/ pc[q] = "insert"
    BY <1>0, <1>7, <2>2 DEF DeleteDraft, Awaited
  <2>4. q # r
    BY <2>1, <2>3
  <2>5. call'[q] = call[q] /\ pc'[q] = pc[q] /\ wire'[q] = wire[q]
    BY <1>7, <2>4 DEF DeleteDraft
  <2> QED
    BY <2>3, <2>5 DEF Awaited
<1>8. ASSUME NEW r \in Requests, TimesOut(r) \/ Dies(r) PROVE Awaited(s)'
  BY <1>8 DEF TimesOut, Dies
<1>9. ASSUME NEW t \in SRs, NEW a \in Answers, SaveDraft(t, a) PROVE Awaited(s)'
  <2>1. draft[s] = NoDraft
    BY <1>9, ValuesAssumption DEF SaveDraft, RowExists
  <2>2. Awaited(s)
    BY <1>0, <1>9, <2>1 DEF SaveDraft
  <2> QED
    BY <1>9, <2>2 DEF SaveDraft, handlers, Awaited
<1>10. ASSUME UNCHANGED vars PROVE Awaited(s)'
  BY <1>0, <1>10 DEF vars, handlers, Awaited
<1> QED
  BY <1>1, <1>2, <1>3, <1>4, <1>5, <1>6, <1>7, <1>8, <1>9, <1>10 DEF Next

\* A request without its draft is the mark of a failure (service.py:45-62).
THEOREM OrphansCorrect == Spec => []OrphansOnlyByFailure
<1>1. Init => OrphansOnlyByFailure
  BY DEF Init, OrphansOnlyByFailure
<1> QED
  BY <1>1, OrphanStep, InvariantAlways, PTL DEF Spec

-----------------------------------------------------------------------------
\* A handler is about to delete the row of s.
Clearing(s) ==
    \E r \in Requests : call[r].kind = "finalize" /\ call[r].sr = s /\ wire[r] = "ok"

\* Without a failure, a handler that holds the good answer of a finalization keeps it
\* until it has deleted the row.
LEMMA ClearedStep ==
    ASSUME Invariant, [Next]_vars, DraftsCleared
    PROVE  DraftsCleared'
<1> SUFFICES ASSUME ~failed', NEW s \in SRs, s \notin overtaken',
                    final'[s] # NotFinal, draft'[s] # NoDraft
             PROVE  Clearing(s)'
  BY DEF DraftsCleared, Clearing
<1> USE NoCallIsCall DEF Invariant, TypeOK, Return, Post
<1>0. final[s] # NotFinal /\ draft[s] # NoDraft /\ s \notin overtaken /\ ~failed
        => Clearing(s)
  BY DEF DraftsCleared, Clearing
<1>1. ASSUME NEW r \in Requests, SiebelHandles(r) PROVE Clearing(s)'
  <2>1. PICK res \in Results : /\ CarriesOut(call[r], res)
                               /\ \/ wire' = [wire EXCEPT ![r] = res]
                                  \/ failed'
    BY <1>1 DEF SiebelHandles
  <2>2. /\ call[r] \in Calls /\ draft' = draft /\ ~failed /\ call' = call
        /\ wire[r] = "sent" /\ overtaken' = overtaken /\ wire' = [wire EXCEPT ![r] = res]
    BY <1>1, <2>1 DEF SiebelHandles
  <2>3. CASE final[s] # NotFinal
    <3>1. PICK q \in Requests : call[q].kind = "finalize" /\ call[q].sr = s /\ wire[q] = "ok"
      BY <1>0, <2>2, <2>3 DEF Clearing
    <3> QED
      BY <2>2, <3>1 DEF Clearing
  <2>4. CASE final[s] = NotFinal
    <3>1. call[r].kind = "finalize" /\ call[r].sr = s /\ res = "ok"
      BY <2>1, <2>2, <2>4 DEF CarriesOut, Calls
    <3>2. wire'[r] = "ok"
      BY <2>2, <3>1
    <3> QED
      BY <2>2, <3>1, <3>2 DEF Clearing
  <2> QED
    BY <2>3, <2>4
<1>2. ASSUME NEW m \in late, SiebelHandlesLate(m) PROVE Clearing(s)'
  BY <1>2 DEF SiebelHandlesLate, LateByFailure
<1>3. ASSUME NEW r \in Requests, TimesOut(r) \/ Dies(r) PROVE Clearing(s)'
  BY <1>3 DEF TimesOut, Dies
<1>4. ASSUME NEW r \in Requests, NEW q \in Requests, q # r,
             call[q].kind = "finalize", call[q].sr = s, wire[q] = "ok",
             call'[q] = call[q], wire'[q] = wire[q]
      PROVE  Clearing(s)'
  BY <1>4 DEF Clearing
<1>5. ASSUME NEW r \in Requests, Answered(r) PROVE Clearing(s)'
  <2>1. PICK q \in Requests : call[q].kind = "finalize" /\ call[q].sr = s /\ wire[q] = "ok"
    BY <1>0, <1>5 DEF Answered, Clearing
  <2>2. CASE q = r
    <3>1. call'[r] = call[r] /\ wire'[r] = "ok"
      BY <1>5, <2>1, <2>2 DEF Answered, Finalized
    <3> QED
      BY <2>1, <2>2, <3>1 DEF Clearing
  <2>3. CASE q # r
    <3>1. call'[q] = call[q] /\ wire'[q] = wire[q]
      BY <1>5, <2>3 DEF Answered
    <3> QED
      BY <1>4, <2>1, <2>3, <3>1
  <2> QED
    BY <2>2, <2>3
<1>6. ASSUME NEW r \in Requests, NEW t \in SRs,
             BeginCreate(r, t) \/ BeginWithdraw(r, t) \/ BeginSubmit(r, t)
      PROVE  Clearing(s)'
  <2>1. pc[r] = "idle" /\ UNCHANGED <<final, draft, overtaken, failed>>
    BY <1>6 DEF BeginCreate, BeginWithdraw, BeginSubmit
  <2>2. PICK q \in Requests : call[q].kind = "finalize" /\ call[q].sr = s /\ wire[q] = "ok"
    BY <1>0, <2>1 DEF Clearing
  <2>3. q # r
    BY <2>1, <2>2 DEF CallFits
  <2>4. call'[q] = call[q] /\ wire'[q] = wire[q]
    BY <1>6, <2>3 DEF BeginCreate, BeginWithdraw, BeginSubmit
  <2> QED
    BY <1>4, <2>2, <2>3, <2>4
<1>7. ASSUME NEW r \in Requests, PinChecked(r) \/ ReadDraft(r) PROVE Clearing(s)'
  <2>1. pc[r] \in {"pin", "read"} /\ UNCHANGED <<final, draft, overtaken, failed>>
    BY <1>7 DEF PinChecked, ReadDraft
  <2>2. PICK q \in Requests : call[q].kind = "finalize" /\ call[q].sr = s /\ wire[q] = "ok"
    BY <1>0, <2>1 DEF Clearing
  <2>3. q # r
    BY <2>1, <2>2 DEF CallFits
  <2>4. call'[q] = call[q] /\ wire'[q] = wire[q]
    BY <1>7, <2>3 DEF PinChecked, ReadDraft
  <2> QED
    BY <1>4, <2>2, <2>3, <2>4
<1>8. ASSUME NEW r \in Requests, InsertDraft(r) PROVE Clearing(s)'
  <2>1. /\ final' = final /\ failed' = failed /\ overtaken \subseteq overtaken'
        /\ final[call[r].sr] # NotFinal => call[r].sr \in overtaken'
    BY <1>8 DEF InsertDraft
  <2>2. call[r].sr # s
    BY <2>1
  <2>3. draft[s] # NoDraft
    BY <1>8, <2>2 DEF InsertDraft
  <2>4. PICK q \in Requests : call[q].kind = "finalize" /\ call[q].sr = s /\ wire[q] = "ok"
    BY <1>0, <2>1, <2>3 DEF Clearing
  <2>5. q # r
    BY <2>2, <2>4
  <2>6. call'[q] = call[q] /\ wire'[q] = wire[q]
    BY <1>8, <2>5 DEF InsertDraft
  <2> QED
    BY <1>4, <2>4, <2>5, <2>6
<1>9. ASSUME NEW r \in Requests, DeleteDraft(r) PROVE Clearing(s)'
  <2>1. call[r].sr # s /\ draft[s] # NoDraft
    BY <1>9 DEF DeleteDraft, Calls
  <2>2. PICK q \in Requests : call[q].kind = "finalize" /\ call[q].sr = s /\ wire[q] = "ok"
    BY <1>0, <1>9, <2>1 DEF DeleteDraft, Clearing
  <2>3. q # r
    BY <2>1, <2>2
  <2>4. call'[q] = call[q] /\ wire'[q] = wire[q]
    BY <1>9, <2>3 DEF DeleteDraft
  <2> QED
    BY <1>4, <2>2, <2>3, <2>4
<1>10. ASSUME NEW t \in SRs, NEW a \in Answers, SaveDraft(t, a) PROVE Clearing(s)'
  <2>1. draft[s] # NoDraft
    BY <1>10 DEF SaveDraft, RowExists
  <2>2. Clearing(s)
    BY <1>0, <1>10, <2>1 DEF SaveDraft
  <2> QED
    BY <1>10, <2>2 DEF SaveDraft, handlers, Clearing
<1>11. ASSUME UNCHANGED vars PROVE Clearing(s)'
  BY <1>0, <1>11 DEF vars, handlers, Clearing
<1> QED
  BY <1>1, <1>2, <1>3, <1>5, <1>6, <1>7, <1>8, <1>9, <1>10, <1>11 DEF Next

\* The row of a finalized request is left over by a failure only, or because the
\* submission came before the row (service.py:50-61, 141-151).
THEOREM DraftsClearedCorrect == Spec => []DraftsCleared
<1>1. Init => DraftsCleared
  BY DEF Init, DraftsCleared
<1> QED
  BY <1>1, ClearedStep, InvariantAlways, PTL DEF Spec

-----------------------------------------------------------------------------
\* Every step is one SRLifecycle allows, or hidden from it.
LEMMA LifecycleStep ==
    ASSUME Invariant, [Next]_vars
    PROVE  [L!Next]_(L!vars)
<1> SUFFICES ASSUME ~UNCHANGED <<siebel, final, draft, saved>>
             PROVE  L!Next
  BY DEF L!vars
<1> USE DEF Invariant, TypeOK
<1>0. \A r \in Requests : call[r] \in Calls
  OBVIOUS
<1>1. ASSUME NEW m \in Calls, WasSaved(m), NEW res, CarriesOut(m, res),
             UNCHANGED <<draft, saved>>
      PROVE  L!Next
  <2>1. m.sr \in SRs /\ m.answers \in Answers \cup {Empty}
    BY DEF Calls, FormValues
  <2>2. CASE m.kind = "create"
    <3>1. L!Open(m.sr)
      BY <1>1, <2>1, <2>2 DEF CarriesOut, L!Open
    <3> QED
      BY <2>1, <3>1 DEF L!Next
  <2>3. CASE m.kind = "finalize"
    <3>1. L!Finalize(m.sr, m.answers)
      BY <1>1, <2>1, <2>3 DEF CarriesOut, WasSaved, L!Finalize
    <3> QED
      BY <2>1, <3>1 DEF L!Next
  <2>4. CASE m.kind = "cancel"
    <3>1. L!Withdraw(m.sr)
      BY <1>1, <2>1, <2>4 DEF CarriesOut, L!Withdraw
    <3> QED
      BY <2>1, <3>1 DEF L!Next
  <2> QED
    BY <2>2, <2>3, <2>4 DEF Calls
<1>2. ASSUME NEW r \in Requests, SiebelHandles(r) PROVE L!Next
  BY <1>0, <1>1, <1>2 DEF SiebelHandles, AnswersSaved
<1>3. ASSUME NEW m \in late, SiebelHandlesLate(m) PROVE L!Next
  BY <1>1, <1>3 DEF SiebelHandlesLate, AnswersSaved
<1>4. ASSUME NEW r \in Requests, InsertDraft(r) PROVE L!Next
  <2>1. call[r].sr \in SRs /\ siebel[call[r].sr] # "none"
    BY <1>4 DEF InsertDraft, CallFits, AnswersTrue, Calls
  <2>2. L!StartDraft(call[r].sr)
    BY <1>4, <2>1 DEF InsertDraft, L!StartDraft
  <2> QED
    BY <2>1, <2>2 DEF L!Next
<1>5. ASSUME NEW r \in Requests, DeleteDraft(r) PROVE L!Next
  <2>1. call[r].sr \in SRs /\ final[call[r].sr] # NotFinal
    BY <1>5 DEF DeleteDraft, CallFits, AnswersTrue, Calls
  <2>2. L!DropDraft(call[r].sr)
    BY <1>5, <2>1 DEF DeleteDraft, L!DropDraft
  <2> QED
    BY <2>1, <2>2 DEF L!Next
<1>6. ASSUME NEW s \in SRs, NEW a \in Answers, SaveDraft(s, a) PROVE L!Next
  <2>1. L!Save(s, a)
    BY <1>6 DEF SaveDraft, RowExists, L!Save
  <2> QED
    BY <2>1 DEF L!Next
<1> QED
  BY <1>2, <1>3, <1>4, <1>5, <1>6 DEF Next, vars, handlers, BeginCreate, BeginWithdraw,
     BeginSubmit, PinChecked, ReadDraft, Answered, TimesOut, Dies

\* The endpoints keep the promises of SRLifecycle, for any number of service
\* requests, HTTP requests and attempts (service.py:45-161).
THEOREM PromisesKept == Spec => KeepsPromises
<1>1. Init => L!Init
  BY DEF Init, L!Init
<1> QED
  BY <1>1, LifecycleStep, InvariantAlways, PTL DEF Spec, KeepsPromises, L!Spec

-----------------------------------------------------------------------------
(* What the promises come to, proved of SRLifecycle and so of the endpoints. *)

\* Each variable has a value for each request.
OverSRs == siebel = [s \in SRs |-> siebel[s]] /\ final = [s \in SRs |-> final[s]]
           /\ draft = [s \in SRs |-> draft[s]] /\ saved = [s \in SRs |-> saved[s]]

\* Final answers are answers the client saved, or none of them, and a draft row belongs
\* to a request Siebel knows.
AnswersAccounted ==
    \A s \in SRs :
        /\ final[s] \in saved[s] \cup {Empty, NotFinal}
        /\ draft[s] # NoDraft => siebel[s] # "none"

\* A draft row goes only once Siebel has final answers.
DraftsKept ==
    [][\A s \in SRs :
          draft[s] # NoDraft /\ draft'[s] = NoDraft => final[s] # NotFinal]_(L!vars)

LEMMA LifecycleAccounts ==
    ASSUME OverSRs, AnswersAccounted, [L!Next]_(L!vars)
    PROVE  OverSRs' /\ AnswersAccounted'
<1> USE DEF OverSRs, AnswersAccounted
<1>1. ASSUME NEW s \in SRs, L!Open(s) PROVE OverSRs' /\ AnswersAccounted'
  BY <1>1 DEF L!Open
<1>2. ASSUME NEW s \in SRs, L!StartDraft(s) PROVE OverSRs' /\ AnswersAccounted'
  BY <1>2 DEF L!StartDraft
<1>3. ASSUME NEW s \in SRs, NEW a \in Answers, L!Save(s, a)
      PROVE  OverSRs' /\ AnswersAccounted'
  BY <1>3 DEF L!Save
<1>4. ASSUME NEW s \in SRs, NEW a \in Answers \cup {Empty}, L!Finalize(s, a)
      PROVE  OverSRs' /\ AnswersAccounted'
  BY <1>4 DEF L!Finalize
<1>5. ASSUME NEW s \in SRs, L!DropDraft(s) PROVE OverSRs' /\ AnswersAccounted'
  BY <1>5 DEF L!DropDraft
<1>6. ASSUME NEW s \in SRs, L!Withdraw(s) PROVE OverSRs' /\ AnswersAccounted'
  BY <1>6 DEF L!Withdraw
<1>7. CASE UNCHANGED L!vars
  BY <1>7 DEF L!vars
<1> QED
  BY <1>1, <1>2, <1>3, <1>4, <1>5, <1>6, <1>7 DEF L!Next

LEMMA LifecycleAlways == L!Spec => [](OverSRs /\ AnswersAccounted)
<1>1. L!Init => OverSRs /\ AnswersAccounted
  BY DEF L!Init, OverSRs, AnswersAccounted
<1> QED
  BY <1>1, LifecycleAccounts, PTL DEF L!Spec

\* No answers reach Siebel that the client did not save, and no draft precedes its
\* request, whatever is lost, repeated or late (service.py:45-161).
THEOREM AnswersAccountedFor == Spec => []AnswersAccounted
  BY LifecycleAlways, PromisesKept, PTL DEF KeepsPromises

\* No draft is deleted before Siebel has final answers, though the row goes in a step of
\* its own, after a call that may be lost, repeated or late (service.py:128-161).
THEOREM DraftsOutliveDoubt == Spec => DraftsKept
<1>1. ASSUME OverSRs, [L!Next]_(L!vars), NEW s \in SRs,
             draft[s] # NoDraft, draft'[s] = NoDraft
      PROVE  final[s] # NotFinal
  <2> USE <1>1 DEF OverSRs
  <2>1. ASSUME NEW t \in SRs, L!Open(t) \/ L!Withdraw(t) PROVE FALSE
    BY <2>1 DEF L!Open, L!Withdraw
  <2>2. ASSUME NEW t \in SRs, NEW a \in Answers \cup {Empty}, L!Finalize(t, a) PROVE FALSE
    BY <2>2 DEF L!Finalize
  <2>3. ASSUME NEW t \in SRs, NEW a \in Answers, L!Save(t, a) PROVE FALSE
    BY <2>3, ValuesAssumption DEF L!Save
  <2>4. ASSUME NEW t \in SRs, L!StartDraft(t) PROVE FALSE
    BY <2>4, ValuesAssumption DEF L!StartDraft
  <2>5. ASSUME NEW t \in SRs, L!DropDraft(t) PROVE final[s] # NotFinal
    BY <2>5 DEF L!DropDraft
  <2>6. CASE UNCHANGED L!vars
    BY <2>6 DEF L!vars
  <2> QED
    BY <2>1, <2>2, <2>3, <2>4, <2>5, <2>6 DEF L!Next
<1>2. OverSRs /\ [L!Next]_(L!vars)
        => [\A s \in SRs :
              draft[s] # NoDraft /\ draft'[s] = NoDraft => final[s] # NotFinal]_(L!vars)
  BY <1>1
<1>3. L!Spec => DraftsKept
  BY <1>2, LifecycleAlways, PTL DEF L!Spec, DraftsKept
<1> QED
  BY <1>3, PromisesKept, PTL DEF KeepsPromises

=============================================================================
