----------------------- MODULE SiebelSequencesProofs -----------------------
(* What the answers of the PIN, account, plan and message endpoints are     *)
(* worth, for any number of requests, PINs and attempts.  The invariant     *)
(* follows each request from its calls to its answer: where it stands       *)
(* (Placed), what Siebel carried out and may still carry out (Ordered),     *)
(* what a result says of the current call (Heard), and what a request that  *)
(* nothing interrupted has said and done (Answering, Acknowledged).  The    *)
(* PIN comes from a request that set it (PinSource).  A step disturbs one   *)
(* request, so the invariant is proved for that one, action by action, and  *)
(* carried over for the others.                                             *)
EXTENDS SiebelSequences, TLAPS

Interrupted == doubtful \cup died

LastStep(r) == Len(Script[kind[r]])

\* The current call is one of the endpoint's; a request not made has left no trace.
Placed(r) ==
    /\ step[r] = 0 <=> wire[r] = "none"
    /\ step[r] # 0 => kind[r] \in Kinds /\ step[r] \in DOMAIN Script[kind[r]]
    /\ kind[r] = None => step[r] = 0 /\ answer[r] = "none" /\ r \notin Interrupted

\* What was carried out or may still be is a call of the request, no earlier than its
\* turn, and only an interrupted request has calls out of its hands.
Ordered(r) ==
    /\ \A i \in 1..2 : <<r, i>> \in carried => kind[r] \in Kinds /\ i \in DOMAIN Script[kind[r]]
    /\ step[r] = 2 \/ <<r, 2>> \in carried => <<r, 1>> \in carried
    /\ \A m \in late :
        m[1] = r => /\ kind[r] \in Kinds /\ m[2] \in DOMAIN Script[kind[r]]
                    /\ r \in Interrupted
                    /\ m[2] = 2 => <<r, 1>> \in carried

\* A result is what Siebel did with the current call, unless that was repeated.
Heard(r) ==
    /\ wire[r] \in {"ok", "garbled"} => <<r, step[r]>> \in carried
    /\ wire[r] = "garbled" => r \in doubtful
    /\ wire[r] = "no" => step[r] = 1
    /\ wire[r] \in {"sent", "no", "rejected"} /\ r \notin doubtful
         => <<r, step[r]>> \notin carried

\* A running request has answered for its background task at most, and one that was
\* not interrupted has had nothing done ahead of its call, or behind its answer.
Answering(r) ==
    /\ wire[r] # "none" => answer[r] \in {"none", "ok"} /\ r \notin died
    /\ r \in died => answer[r] \in {"ok", "unknown"}
    /\ r \notin Interrupted /\ wire[r] # "none"
         => \A i \in 1..2 : <<r, i>> \in carried => i <= step[r]
    /\ answer[r] = "refused" /\ r \notin doubtful => \A i \in 1..2 : <<r, i>> \notin carried
    /\ answer[r] = "error" /\ r \notin doubtful => <<r, LastStep(r)>> \notin carried
    /\ answer[r] = "ok"
         => /\ kind[r] \in Kinds
            /\ \A i \in DOMAIN Script[kind[r]] : InBackground(kind[r], i) \/ <<r, i>> \in carried

\* A request that is not interrupted and has had the PIN set says so, or is about to.
Acknowledged(r) ==
    kind[r] \in SetsPin /\ <<r, LastStep(r)>> \in carried /\ r \notin Interrupted
      => \/ wire[r] = "ok" /\ step[r] = LastStep(r)
         \/ wire[r] = "none" /\ answer[r] = "ok"

Consistent(r) == Placed(r) /\ Ordered(r) /\ Heard(r) /\ Answering(r) /\ Acknowledged(r)

\* The requests whose new PIN Siebel has taken.
Takers == {r \in Requests : kind[r] \in SetsPin /\ <<r, LastStep(r)>> \in carried}

PinSource == pin \in (IF Takers = {} THEN {FirstPin} ELSE {new[r] : r \in Takers})

EachConsistent == \A r \in Requests : Consistent(r)

Invariant == TypeOK /\ EachConsistent /\ PinSource

-----------------------------------------------------------------------------
(* The scripts.                                                             *)

LEMMA AllKinds ==
    Kinds = {"checkPin", "change", "resetRequest", "resetConfirm", "account", "updateContact",
             "postLoginSync", "plans", "signPlan", "inbox", "openMessage", "reply", "delete",
             "signMessage"}
  BY DEF Kinds, PinScripts, AccountScripts, PlanScripts, MessageScripts

LEMMA ScriptsByKind ==
    /\ \A k \in DOMAIN PinScripts : Script[k] = PinScripts[k]
    /\ \A k \in DOMAIN AccountScripts : Script[k] = AccountScripts[k]
    /\ \A k \in DOMAIN PlanScripts : Script[k] = PlanScripts[k]
    /\ \A k \in DOMAIN MessageScripts : Script[k] = MessageScripts[k]
  BY AllKinds, Zenon DEF Script, PinScripts, AccountScripts, PlanScripts, MessageScripts

\* An endpoint makes one call or two.
LEMMA ScriptLength ==
    \A k \in Kinds : /\ Len(Script[k]) \in 1..2
                     /\ DOMAIN Script[k] = 1..Len(Script[k])
<1>1. \A k \in DOMAIN PinScripts : Len(Script[k]) \in 1..2 /\ DOMAIN Script[k] = 1..Len(Script[k])
  BY ScriptsByKind DEF PinScripts, ChangePin
<1>2. \A k \in DOMAIN AccountScripts : Len(Script[k]) \in 1..2 /\ DOMAIN Script[k] = 1..Len(Script[k])
  BY ScriptsByKind DEF AccountScripts
<1>3. \A k \in DOMAIN PlanScripts : Len(Script[k]) \in 1..2 /\ DOMAIN Script[k] = 1..Len(Script[k])
  BY ScriptsByKind DEF PlanScripts
<1>4. \A k \in DOMAIN MessageScripts : Len(Script[k]) \in 1..2 /\ DOMAIN Script[k] = 1..Len(Script[k])
  BY ScriptsByKind DEF MessageScripts
<1> QED
  BY <1>1, <1>2, <1>3, <1>4 DEF Kinds

\* Only a first call can be told no, and only the last of a change or a reset sets the PIN.
LEMMA ScriptCalls ==
    \A k \in Kinds : \A i \in DOMAIN Script[k] :
        /\ Script[k][i] \in {"validate-pin", "detail", "pin-reset/confirm"} => i = 1
        /\ Script[k][i] \in {"change-pin", "pin-reset/confirm"}
             <=> k \in SetsPin /\ i = Len(Script[k])
<1> DEFINE Fits(k) ==
      \A i \in DOMAIN Script[k] :
        /\ Script[k][i] \in {"validate-pin", "detail", "pin-reset/confirm"} => i = 1
        /\ Script[k][i] \in {"change-pin", "pin-reset/confirm"}
             <=> k \in SetsPin /\ i = Len(Script[k])
<1>1. \A k \in DOMAIN PinScripts : Fits(k)
  <2>1. Fits("checkPin") /\ Fits("resetRequest")
    BY ScriptsByKind DEF PinScripts, SetsPin
  <2>2. Fits("change")
    <3>1. Script["change"] = <<"validate-pin", "change-pin">>
      BY ScriptsByKind DEF PinScripts, ChangePin
    <3> QED
      BY <3>1 DEF SetsPin
  <2>3. Fits("resetConfirm")
    <3>1. Script["resetConfirm"] = <<"pin-reset/confirm">>
      BY ScriptsByKind DEF PinScripts
    <3> QED
      BY <3>1 DEF SetsPin
  <2> QED
    BY <2>1, <2>2, <2>3 DEF PinScripts
<1>2. \A k \in DOMAIN AccountScripts : Fits(k)
  BY ScriptsByKind DEF AccountScripts, SetsPin
<1>3. \A k \in DOMAIN PlanScripts : Fits(k)
  BY ScriptsByKind DEF PlanScripts, SetsPin
<1>4. \A k \in DOMAIN MessageScripts : Fits(k)
  BY ScriptsByKind DEF MessageScripts, SetsPin
<1> QED
  BY <1>1, <1>2, <1>3, <1>4 DEF Kinds

\* A background call is the last of its endpoint, and sets no PIN.
LEMMA ScriptBackground ==
    \A k \in Kinds, i \in 1..2 :
        InBackground(k, i) => k \notin SetsPin /\ i = Len(Script[k])
<1>1. Len(Script["postLoginSync"]) = 1
  BY ScriptsByKind DEF AccountScripts
<1>2. Len(Script["openMessage"]) = 2
  BY ScriptsByKind DEF MessageScripts
<1> QED
  BY <1>1, <1>2 DEF InBackground, SetsPin

\* Every request begins as a call of some endpoint.
LEMMA BeginsAKind ==
    ASSUME NEW r \in Requests,
           BeginPin(r) \/ BeginAccount(r) \/ BeginPlan(r) \/ BeginMessage(r)
    PROVE  \E k \in Kinds, p, q \in Pins : Begin(r, k, p, q)
<1> USE PinsAssumption, AllKinds
<1>1. CASE BeginPin(r)
  BY <1>1 DEF BeginPin
<1>2. CASE BeginAccount(r)
  BY <1>2 DEF BeginAccount, Kinds
<1>3. CASE BeginPlan(r)
  BY <1>3 DEF BeginPlan, Kinds
<1>4. CASE BeginMessage(r)
  BY <1>4 DEF BeginMessage
<1> QED
  BY <1>1, <1>2, <1>3, <1>4

\* What a call changes in Siebel: the PIN only if it is one that sets it.
LEMMA CallEffect ==
    ASSUME TypeOK, NEW r \in Requests, NEW c, NEW res \in Results, CarriesOut(r, c, res)
    PROVE  /\ token' \in {"none", "live", "used"}
           /\ deleted' \in BOOLEAN
           /\ pin' = IF res = "ok" /\ c \in {"change-pin", "pin-reset/confirm"}
                       THEN new[r] ELSE pin
           /\ res = "no" => c \in {"validate-pin", "detail", "pin-reset/confirm"}
           /\ res # "garbled"
  BY DEF TypeOK, CarriesOut, Results, siebel

LEMMA StatusOf ==
    ASSUME NEW k
    PROVE  /\ Status(k, "no") = "refused"
           /\ Status(k, "rejected") = "error"
           /\ Status(k, "garbled") \in {"refused", "unknown"}
  BY DEF Status

-----------------------------------------------------------------------------
(* Types.                                                                   *)

\* Where a running request stands.
LEMMA Situation ==
    ASSUME TypeOK, NEW r \in Requests, Placed(r), wire[r] # "none"
    PROVE  /\ kind[r] \in Kinds
           /\ step[r] \in 1..2
           /\ step[r] \in DOMAIN Script[kind[r]]
           /\ LastStep(r) \in 1..2
           /\ step[r] <= LastStep(r)
<1>1. step[r] # 0
  BY DEF Placed
<1>2. kind[r] \in Kinds /\ step[r] \in DOMAIN Script[kind[r]]
  BY <1>1 DEF Placed
<1> QED
  BY <1>1, <1>2, ScriptLength DEF TypeOK, LastStep

\* Only an endpoint with two calls goes on, from the first to the second.
LEMMA FromFirstToLast ==
    ASSUME TypeOK, NEW r \in Requests, Placed(r), Continue(r)
    PROVE  kind[r] \in Kinds /\ step[r] = 1 /\ LastStep(r) = 2
<1>1. wire[r] = "ok" /\ step[r] < LastStep(r)
  BY DEF Continue, GoesOn, LastStep
<1>2. kind[r] \in Kinds /\ step[r] \in 1..2 /\ LastStep(r) \in 1..2
  BY <1>1, Situation
<1> QED
  BY <1>1, <1>2

\* Every step keeps every variable in its type.
LEMMA TypingStep ==
    ASSUME TypeOK, EachConsistent, [Next]_vars
    PROVE  TypeOK'
<1>0. ASSUME NEW r \in Requests PROVE Placed(r)
  BY DEF EachConsistent, Consistent
<1> USE AttemptsAssumption
<1>1. ASSUME NEW r \in Requests, NEW k \in Kinds, NEW p \in Pins, NEW q \in Pins,
             Begin(r, k, p, q)
      PROVE  TypeOK'
  BY <1>1 DEF TypeOK, Begin, siebel
<1>2. ASSUME NEW r \in Requests, SiebelHandles(r) PROVE TypeOK'
  <2>1. PICK res \in Results :
          /\ CarriesOut(r, Script[kind[r]][step[r]], res)
          /\ Carried(r, step[r], res)
          /\ \/ wire' = [wire EXCEPT ![r] = res] /\ UNCHANGED doubtful
             \/ wire' = [wire EXCEPT ![r] = "garbled"] /\ doubtful' = doubtful \cup {r}
    BY <1>2 DEF SiebelHandles
  <2>2. token' \in {"none", "live", "used"} /\ deleted' \in BOOLEAN /\ pin' \in Pins
    BY <2>1, CallEffect DEF TypeOK
  <2>3. carried' \subseteq Requests \X (1..2)
    BY <1>0, <1>2, <2>1, Situation DEF Carried, TypeOK, SiebelHandles
  <2>4. /\ wire' \in [Requests -> {"none", "sent"} \cup Results]
        /\ doubtful' \subseteq Requests
    BY <2>1 DEF TypeOK, Results
  <2>5. UNCHANGED <<kind, given, new, step, attempt, answer, late, died>>
    BY <1>2 DEF SiebelHandles, request
  <2> QED
    BY <2>2, <2>3, <2>4, <2>5 DEF TypeOK
<1>3. ASSUME NEW m \in late, SiebelHandlesLate(m) PROVE TypeOK'
  <2>1. m[1] \in Requests /\ m[2] \in 1..2
    BY DEF TypeOK, Attempts
  <2>2. PICK res \in Results :
          /\ CarriesOut(m[1], Script[kind[m[1]]][m[2]], res)
          /\ Carried(m[1], m[2], res)
    BY <1>3 DEF SiebelHandlesLate
  <2>3. token' \in {"none", "live", "used"} /\ deleted' \in BOOLEAN /\ pin' \in Pins
    BY <2>1, <2>2, CallEffect DEF TypeOK
  <2>4. carried' \subseteq Requests \X (1..2)
    BY <2>1, <2>2 DEF Carried, TypeOK
  <2>5. late' \subseteq Attempts
    BY <1>3 DEF SiebelHandlesLate, TypeOK
  <2>6. UNCHANGED <<kind, given, new, step, attempt, wire, answer, doubtful, died>>
    BY <1>3 DEF SiebelHandlesLate, request, progress
  <2> QED
    BY <2>3, <2>4, <2>5, <2>6 DEF TypeOK
<1>4. ASSUME NEW r \in Requests, Continue(r) PROVE TypeOK'
  <2>1. step[r] + 1 \in 0..2
    BY <1>0, <1>4, FromFirstToLast
  <2>2. answer' \in [Requests -> {"none", "ok", "refused", "error", "unknown"}]
    <3>1. Say(r, "ok") \/ UNCHANGED answer
      BY <1>4 DEF Continue
    <3> QED
      BY <3>1 DEF TypeOK, Say
  <2>3. /\ step' = [step EXCEPT ![r] = @ + 1]
        /\ attempt' = [attempt EXCEPT ![r] = 1]
        /\ wire' = [wire EXCEPT ![r] = "sent"]
        /\ UNCHANGED <<pin, token, deleted, kind, given, new, late, carried, doubtful, died>>
    BY <1>4 DEF Continue, siebel, request
  <2> QED
    BY <2>1, <2>2, <2>3 DEF TypeOK
<1>5. ASSUME NEW r \in Requests, Complete(r) PROVE TypeOK'
  BY <1>5 DEF TypeOK, Complete, Say, Stop, siebel, request
<1>6. ASSUME NEW r \in Requests, Refuse(r) PROVE TypeOK'
  <2>1. Status(kind[r], wire[r]) \in {"refused", "error", "unknown"}
    BY <1>6, StatusOf DEF Refuse
  <2>2. answer' \in [Requests -> {"none", "ok", "refused", "error", "unknown"}]
    <3>1. answer' = [answer EXCEPT ![r] = IF @ = "none" THEN Status(kind[r], wire[r]) ELSE @]
      BY <1>6 DEF Refuse, Say
    <3> QED
      BY <2>1, <3>1 DEF TypeOK
  <2>3. /\ step' = [step EXCEPT ![r] = 0]
        /\ attempt' = [attempt EXCEPT ![r] = 1]
        /\ wire' = [wire EXCEPT ![r] = "none"]
    BY <1>6 DEF Refuse, Stop
  <2>4. UNCHANGED <<pin, token, deleted, kind, given, new, late, carried, doubtful, died>>
    BY <1>6 DEF Refuse, siebel, request
  <2> QED
    BY <2>2, <2>3, <2>4 DEF TypeOK
<1>7. ASSUME NEW r \in Requests, wire[r] # "none",
             late' = IF wire[r] = "sent" THEN late \cup {<<r, step[r], attempt[r]>>} ELSE late
      PROVE  late' \subseteq Attempts
  BY <1>0, <1>7, Situation DEF TypeOK, Attempts
<1>8. ASSUME NEW r \in Requests, TimesOut(r) PROVE TypeOK'
  <2>1. late' \subseteq Attempts
    BY <1>7, <1>8 DEF TimesOut
  <2>2. CASE Again(r)
    <3>1. attempt[r] + 1 \in 1..MaxAttempts
      BY <2>2 DEF Again, TypeOK
    <3> QED
      BY <1>8, <2>1, <2>2, <3>1 DEF TypeOK, TimesOut, siebel, request
  <2>3. CASE ~Again(r)
    BY <1>8, <2>1, <2>3 DEF TypeOK, TimesOut, Say, Stop, Reported, siebel, request
  <2> QED
    BY <2>2, <2>3
<1>9. ASSUME NEW r \in Requests, Dies(r) PROVE TypeOK'
  <2>1. late' \subseteq Attempts
    BY <1>7, <1>9 DEF Dies
  <2> QED
    BY <1>9, <2>1 DEF TypeOK, Dies, Say, Stop, siebel, request
<1>10. CASE UNCHANGED vars
  BY <1>10 DEF TypeOK, vars, siebel, request, progress
<1> QED
  BY <1>1, <1>2, <1>3, <1>4, <1>5, <1>6, <1>8, <1>9, <1>10, BeginsAKind DEF Next

LEMMA InitTyped == Init => TypeOK
<1> SUFFICES ASSUME Init
             PROVE  TypeOK
  OBVIOUS
<1>1. /\ pin \in Pins /\ token \in {"none", "live", "used"} /\ deleted \in BOOLEAN
      /\ late \subseteq Attempts /\ carried \subseteq Requests \X (1..2)
      /\ doubtful \subseteq Requests /\ died \subseteq Requests
  BY PinsAssumption DEF Init
<1>2. /\ kind \in [Requests -> Kinds \cup {None}]
      /\ given \in [Requests -> Pins] /\ new \in [Requests -> Pins]
  BY PinsAssumption DEF Init
<1>3. /\ step \in [Requests -> 0..2] /\ attempt \in [Requests -> 1..MaxAttempts]
      /\ wire \in [Requests -> {"none", "sent"} \cup Results]
      /\ answer \in [Requests -> {"none", "ok", "refused", "error", "unknown"}]
  BY AttemptsAssumption DEF Init
<1> QED
  BY <1>1, <1>2, <1>3 DEF TypeOK

-----------------------------------------------------------------------------
(* One request at a time.                                                   *)

\* A step that leaves a request alone, and its calls at Siebel.
Undisturbed(q) ==
    /\ kind'[q] = kind[q] /\ step'[q] = step[q] /\ wire'[q] = wire[q] /\ answer'[q] = answer[q]
    /\ \A i \in 1..2 : <<q, i>> \in carried' <=> <<q, i>> \in carried
    /\ q \in doubtful' <=> q \in doubtful
    /\ q \in died' <=> q \in died
    /\ \A m \in late' : m[1] = q => m \in late

LEMMA UndisturbedStaysConsistent ==
    ASSUME TypeOK, NEW q \in Requests, Consistent(q), Undisturbed(q)
    PROVE  Consistent(q)'
<1>1. Placed(q)'
  BY DEF Consistent, Placed, Undisturbed, Interrupted
<1>2. Ordered(q)'
  BY DEF Consistent, Ordered, Undisturbed, Interrupted
<1>3. step[q] # 0 => step[q] \in 1..2
  BY DEF TypeOK
<1>4. Heard(q)'
  BY <1>3 DEF Consistent, Heard, Placed, Undisturbed
<1>5. kind[q] \in Kinds => LastStep(q) \in 1..2 /\ DOMAIN Script[kind[q]] \subseteq 1..2
  BY ScriptLength DEF LastStep
<1>6. Answering(q)'
  <2>1. answer[q] # "none" => kind[q] \in Kinds
    BY DEF TypeOK, Consistent, Placed
  <2>2. /\ kind'[q] = kind[q] /\ LastStep(q)' = LastStep(q)
        /\ step'[q] = step[q] /\ wire'[q] = wire[q] /\ answer'[q] = answer[q]
        /\ q \in doubtful' <=> q \in doubtful
        /\ q \in died' <=> q \in died
        /\ q \in Interrupted' <=> q \in Interrupted
    BY DEF Undisturbed, Interrupted, LastStep
  <2>3. \A i \in 1..2 : <<q, i>> \in carried' <=> <<q, i>> \in carried
    BY DEF Undisturbed
  <2> QED
    BY <1>5, <2>1, <2>2, <2>3 DEF Consistent, Answering
<1>7. SetsPin \subseteq Kinds
  BY AllKinds DEF SetsPin
<1>8. Acknowledged(q)'
  <2>1. /\ kind'[q] = kind[q] /\ LastStep(q)' = LastStep(q)
        /\ step'[q] = step[q] /\ wire'[q] = wire[q] /\ answer'[q] = answer[q]
        /\ q \in Interrupted' <=> q \in Interrupted
    BY DEF Undisturbed, Interrupted, LastStep
  <2>2. kind[q] \in SetsPin => (<<q, LastStep(q)>> \in carried' <=> <<q, LastStep(q)>> \in carried)
    BY <1>5, <1>7 DEF Undisturbed
  <2> QED
    BY <2>1, <2>2 DEF Consistent, Acknowledged
<1> QED
  BY <1>1, <1>2, <1>4, <1>6, <1>8 DEF Consistent

\* A request that begins has had nothing done yet.
LEMMA ConsistentAfterBegin ==
    ASSUME TypeOK, NEW r \in Requests, Consistent(r),
           NEW k \in Kinds, NEW p \in Pins, NEW n \in Pins, Begin(r, k, p, n)
    PROVE  Consistent(r)'
<1>1. /\ r \notin Interrupted /\ r \notin doubtful /\ r \notin died
      /\ \A i \in 1..2 : <<r, i>> \notin carried
      /\ \A m \in late : m[1] # r
  BY NoneAssumption DEF Begin, Consistent, Placed, Ordered, Interrupted
<1>2. /\ kind'[r] = k /\ step'[r] = 1 /\ wire'[r] = "sent"
      /\ answer'[r] = IF InBackground(k, 1) THEN "ok" ELSE "none"
      /\ UNCHANGED <<late, carried, doubtful, died, Interrupted>>
  BY DEF Begin, TypeOK, Interrupted
<1>3. /\ Len(Script[k]) \in 1..2
      /\ \A i : i \in DOMAIN Script[k] <=> i \in 1..Len(Script[k])
  BY ScriptLength
<1>4. Placed(r)'
  <2>1. k # None
    BY NoneAssumption
  <2>2. 1 \in DOMAIN Script[k]
    BY <1>3
  <2> QED
    BY <1>2, <2>1, <2>2 DEF Placed
<1>5. Ordered(r)'
  BY <1>1, <1>2 DEF Ordered
<1>6. Heard(r)'
  BY <1>1, <1>2 DEF Heard
<1>7. Answering(r)'
  <2>1. InBackground(k, 1) => DOMAIN Script[k] = {1}
    <3>1. InBackground(k, 1) => Len(Script[k]) = 1
      BY ScriptBackground
    <3> QED
      BY <1>3, <3>1
  <2>2. LastStep(r)' \in 1..2
    BY <1>2, <1>3 DEF LastStep
  <2> QED
    BY <1>1, <1>2, <2>1, <2>2 DEF Answering
<1>8. Acknowledged(r)'
  <2>1. LastStep(r)' \in 1..2
    BY <1>2, <1>3 DEF LastStep
  <2> QED
    BY <1>1, <1>2, <2>1 DEF Acknowledged
<1> QED
  BY <1>4, <1>5, <1>6, <1>7, <1>8 DEF Consistent

\* Siebel answers the attempt of a request that waits for it.
LEMMA ConsistentAfterSiebelHandles ==
    ASSUME TypeOK, NEW r \in Requests, Consistent(r), SiebelHandles(r)
    PROVE  Consistent(r)'
<1>1. wire[r] = "sent" /\ UNCHANGED <<kind, step, answer, late, died>>
  BY DEF SiebelHandles, request
<1>2. /\ kind[r] \in Kinds /\ step[r] \in 1..2 /\ step[r] \in DOMAIN Script[kind[r]]
      /\ LastStep(r) \in 1..2 /\ step[r] <= LastStep(r)
  BY <1>1, Situation DEF Consistent
<1>3. PICK res \in Results :
        /\ CarriesOut(r, Script[kind[r]][step[r]], res)
        /\ Carried(r, step[r], res)
        /\ \/ wire' = [wire EXCEPT ![r] = res] /\ UNCHANGED doubtful
           \/ /\ res = "ok"
              /\ wire' = [wire EXCEPT ![r] = "garbled"]
              /\ doubtful' = doubtful \cup {r}
  BY DEF SiebelHandles
<1>4. /\ res = "no" => step[r] = 1
      /\ res \in {"ok", "no", "rejected"}
  <2>1. res = "no" => Script[kind[r]][step[r]] \in {"validate-pin", "detail", "pin-reset/confirm"}
    BY <1>3, CallEffect
  <2>2. res # "garbled"
    BY <1>3, CallEffect
  <2> QED
    BY <1>2, <2>1, <2>2, ScriptCalls DEF Results
<1>5. /\ wire'[r] = res \/ (res = "ok" /\ wire'[r] = "garbled" /\ r \in doubtful')
      /\ doubtful \subseteq doubtful'
      /\ res # "ok" => doubtful' = doubtful
  BY <1>3 DEF TypeOK
<1>6. /\ \A i \in 1..2 : <<r, i>> \in carried'
                           <=> <<r, i>> \in carried \/ (res = "ok" /\ i = step[r])
      /\ carried \subseteq carried'
  BY <1>2, <1>3 DEF Carried
<1>7. /\ kind'[r] = kind[r] /\ step'[r] = step[r] /\ answer'[r] = answer[r]
      /\ late' = late /\ died' = died
      /\ LastStep(r)' = LastStep(r)
      /\ Interrupted \subseteq Interrupted'
      /\ r \notin Interrupted' => r \notin Interrupted
  BY <1>1, <1>5 DEF LastStep, Interrupted
<1>8. Placed(r)'
  BY <1>1, <1>2, <1>4, <1>5, <1>7, NoneAssumption DEF Consistent, Placed
<1>9. Ordered(r)'
  BY <1>2, <1>6, <1>7 DEF Consistent, Ordered
<1>10. Heard(r)'
  BY <1>1, <1>2, <1>4, <1>5, <1>6, <1>7 DEF Consistent, Heard
<1>11. Answering(r)'
  <2>1. answer[r] \in {"none", "ok"} /\ r \notin died
    BY <1>1 DEF Consistent, Answering
  <2>2. r \notin Interrupted' => \A i \in 1..2 : <<r, i>> \in carried' => i <= step[r]
    BY <1>1, <1>2, <1>6, <1>7 DEF Consistent, Answering
  <2>3. answer[r] = "ok"
          => \A i \in DOMAIN Script[kind[r]] : InBackground(kind[r], i) \/ <<r, i>> \in carried'
    BY <1>6 DEF Consistent, Answering
  <2> QED
    BY <1>2, <1>7, <2>1, <2>2, <2>3 DEF Answering
<1>12. Acknowledged(r)'
  <2>1. r \notin Interrupted /\ kind[r] \in SetsPin => <<r, LastStep(r)>> \notin carried
    BY <1>1 DEF Consistent, Acknowledged
  <2> QED
    BY <1>1, <1>2, <1>5, <1>6, <1>7, <2>1 DEF Acknowledged, Interrupted
<1> QED
  BY <1>8, <1>9, <1>10, <1>11, <1>12 DEF Consistent

\* Siebel carries out an attempt that was given up: its request was interrupted.
LEMMA ConsistentAfterSiebelHandlesLate ==
    ASSUME TypeOK, NEW m \in late, m[1] \in Requests, Consistent(m[1]), SiebelHandlesLate(m)
    PROVE  Consistent(m[1])'
<1> DEFINE r == m[1]
<1>1. r \in Requests /\ m[2] \in 1..2
  BY DEF TypeOK, Attempts
<1>2. UNCHANGED <<kind, step, wire, answer, doubtful, died>> /\ late' \subseteq late
  BY DEF SiebelHandlesLate, request, progress
<1>3. /\ kind[r] \in Kinds /\ m[2] \in DOMAIN Script[kind[r]] /\ r \in Interrupted
      /\ m[2] = 2 => <<r, 1>> \in carried
  BY <1>1 DEF Consistent, Ordered
<1>4. /\ carried \subseteq carried'
      /\ \A i \in 1..2 : <<r, i>> \in carried' => <<r, i>> \in carried \/ i = m[2]
  BY DEF SiebelHandlesLate, Carried
<1>5. /\ kind'[r] = kind[r] /\ step'[r] = step[r] /\ answer'[r] = answer[r] /\ wire'[r] = wire[r]
      /\ LastStep(r)' = LastStep(r) /\ Interrupted' = Interrupted
      /\ doubtful' = doubtful /\ died' = died
  BY <1>2 DEF LastStep, Interrupted
<1>6. Placed(r)'
  BY <1>5 DEF Consistent, Placed
<1>7. Ordered(r)'
  BY <1>1, <1>2, <1>3, <1>4, <1>5 DEF Consistent, Ordered
<1>8. r \notin doubtful => wire[r] = "none" /\ answer[r] \in {"ok", "unknown"}
  BY <1>1, <1>3 DEF Consistent, Answering, Interrupted
<1>9. Heard(r)'
  BY <1>1, <1>4, <1>5, <1>8 DEF Consistent, Heard
<1>10. Answering(r)'
  BY <1>1, <1>3, <1>4, <1>5, <1>8 DEF Consistent, Answering
<1>11. Acknowledged(r)'
  BY <1>3, <1>5 DEF Acknowledged
<1> QED
  BY <1>6, <1>7, <1>9, <1>10, <1>11 DEF Consistent

\* The next call begins once the one before it was carried out.
LEMMA ConsistentAfterContinue ==
    ASSUME TypeOK, NEW r \in Requests, Consistent(r), Continue(r)
    PROVE  Consistent(r)'
<1>1. kind[r] \in Kinds /\ step[r] = 1 /\ LastStep(r) = 2 /\ wire[r] = "ok"
  BY FromFirstToLast DEF Consistent, Continue, GoesOn
<1>2. \A i : i \in DOMAIN Script[kind[r]] <=> i \in 1..2
  BY <1>1, ScriptLength DEF LastStep
<1>3. /\ <<r, 1>> \in carried
      /\ answer[r] \in {"none", "ok"} /\ r \notin died
  BY <1>1 DEF Consistent, Heard, Answering
<1>4. /\ step'[r] = 2 /\ wire'[r] = "sent" /\ kind'[r] = kind[r]
      /\ LastStep(r)' = LastStep(r)
      /\ UNCHANGED <<late, carried, doubtful, died, Interrupted>>
  BY <1>1 DEF Continue, TypeOK, Interrupted, LastStep, request
<1>5. answer'[r] = IF InBackground(kind[r], 2) /\ answer[r] = "none" THEN "ok" ELSE answer[r]
  BY <1>1 DEF Continue, Say, TypeOK
<1>6. Placed(r)'
  BY <1>1, <1>2, <1>4, NoneAssumption DEF Placed
<1>7. Ordered(r)'
  BY <1>3, <1>4 DEF Consistent, Ordered
<1>8. r \notin Interrupted => <<r, 2>> \notin carried
  BY <1>1 DEF Consistent, Answering
<1>9. Heard(r)'
  BY <1>4, <1>8, <1>3 DEF Heard, Interrupted
<1>10. Answering(r)'
  <2>1. InBackground(kind[r], 2)
          => \A i \in DOMAIN Script[kind[r]] : InBackground(kind[r], i) \/ <<r, i>> \in carried
    BY <1>2, <1>3
  <2>2. answer[r] = "ok"
          => \A i \in DOMAIN Script[kind[r]] : InBackground(kind[r], i) \/ <<r, i>> \in carried
    BY DEF Consistent, Answering
  <2>3. answer'[r] \in {"none", "ok"}
    BY <1>3, <1>5
  <2> QED
    BY <1>1, <1>3, <1>4, <1>5, <2>1, <2>2, <2>3 DEF Answering
<1>11. Acknowledged(r)'
  BY <1>1, <1>4, <1>8 DEF Acknowledged
<1> QED
  BY <1>6, <1>7, <1>9, <1>10, <1>11 DEF Consistent

\* The endpoint answers a success when its last call was carried out.
LEMMA ConsistentAfterComplete ==
    ASSUME TypeOK, NEW r \in Requests, Consistent(r), Complete(r)
    PROVE  Consistent(r)'
<1>1. wire[r] = "ok" /\ step[r] = LastStep(r)
  BY DEF Complete, GoesOn, LastStep
<1>2. kind[r] \in Kinds /\ LastStep(r) \in 1..2
  BY <1>1, Situation DEF Consistent
<1>3. \A i : i \in DOMAIN Script[kind[r]] <=> i \in 1..LastStep(r)
  BY <1>2, ScriptLength DEF LastStep
<1>4. answer[r] \in {"none", "ok"} /\ r \notin died
  BY <1>1 DEF Consistent, Answering
<1>5. /\ step'[r] = 0 /\ wire'[r] = "none" /\ kind'[r] = kind[r] /\ answer'[r] = "ok"
      /\ LastStep(r)' = LastStep(r)
      /\ UNCHANGED <<late, carried, doubtful, died, Interrupted>>
  BY <1>4 DEF Complete, Say, Stop, TypeOK, Interrupted, LastStep, request
<1>6. \A i \in 1..LastStep(r) : <<r, i>> \in carried
  <2>1. <<r, LastStep(r)>> \in carried
    BY <1>1 DEF Consistent, Heard
  <2>2. LastStep(r) = 2 => <<r, 1>> \in carried
    BY <1>1 DEF Consistent, Ordered
  <2> QED
    BY <1>2, <2>1, <2>2
<1>7. Placed(r)'
  BY <1>2, <1>5, NoneAssumption DEF Placed
<1>8. Ordered(r)'
  BY <1>5 DEF Consistent, Ordered
<1>9. Heard(r)'
  BY <1>5 DEF Heard
<1>10. Answering(r)'
  BY <1>2, <1>3, <1>4, <1>5, <1>6 DEF Answering
<1>11. Acknowledged(r)'
  BY <1>5 DEF Acknowledged
<1> QED
  BY <1>7, <1>8, <1>9, <1>10, <1>11 DEF Consistent

\* The endpoint refuses, or passes an error on, when its call did nothing.
LEMMA ConsistentAfterRefuse ==
    ASSUME TypeOK, NEW r \in Requests, Consistent(r), Refuse(r)
    PROVE  Consistent(r)'
<1>1. wire[r] \in {"no", "rejected", "garbled"}
  BY DEF Refuse
<1>2. /\ kind[r] \in Kinds /\ LastStep(r) \in 1..2
      /\ step[r] \in 1..2 /\ step[r] <= LastStep(r)
  BY <1>1, Situation DEF Consistent
<1>3. answer[r] \in {"none", "ok"} /\ r \notin died
  BY <1>1 DEF Consistent, Answering
<1>4. /\ step'[r] = 0 /\ wire'[r] = "none" /\ kind'[r] = kind[r]
      /\ LastStep(r)' = LastStep(r)
      /\ UNCHANGED <<late, carried, doubtful, died, Interrupted>>
  BY DEF Refuse, Stop, TypeOK, Interrupted, LastStep, request
<1>5. answer'[r] = IF answer[r] = "none" THEN Status(kind[r], wire[r]) ELSE answer[r]
  BY DEF Refuse, Say, TypeOK
<1>6. /\ answer'[r] = "ok" => answer[r] = "ok"
      /\ answer'[r] = "refused" => wire[r] \in {"no", "garbled"}
      /\ answer'[r] = "error" => wire[r] = "rejected"
  BY <1>1, <1>3, <1>5, StatusOf
\* Neither the call nor, there being none before or after, any other.
<1>7. r \notin doubtful
        => /\ <<r, LastStep(r)>> \notin carried
           /\ wire[r] = "no" => \A i \in 1..2 : <<r, i>> \notin carried
  <2>1. r \notin doubtful => <<r, step[r]>> \notin carried /\ wire[r] # "garbled"
    BY <1>1 DEF Consistent, Heard
  <2>2. wire[r] = "no" => step[r] = 1
    BY DEF Consistent, Heard
  <2>3. <<r, 1>> \notin carried => <<r, 2>> \notin carried
    BY DEF Consistent, Ordered
  <2> QED
    BY <1>2, <2>1, <2>2, <2>3
<1>8. Placed(r)'
  BY <1>2, <1>4, NoneAssumption DEF Placed
<1>9. Ordered(r)'
  BY <1>4 DEF Consistent, Ordered
<1>10. Heard(r)'
  BY <1>4 DEF Heard
<1>11. Answering(r)'
  <2>1. answer'[r] = "refused" /\ r \notin doubtful => \A i \in 1..2 : <<r, i>> \notin carried
    BY <1>1, <1>6, <1>7 DEF Consistent, Heard
  <2>2. answer'[r] = "error" /\ r \notin doubtful => <<r, LastStep(r)>> \notin carried
    BY <1>7
  <2>3. answer'[r] = "ok"
          => \A i \in DOMAIN Script[kind[r]] : InBackground(kind[r], i) \/ <<r, i>> \in carried
    BY <1>6 DEF Consistent, Answering
  <2> QED
    BY <1>2, <1>3, <1>4, <2>1, <2>2, <2>3 DEF Answering
<1>12. Acknowledged(r)'
  BY <1>4, <1>7 DEF Acknowledged, Interrupted
<1> QED
  BY <1>8, <1>9, <1>10, <1>11, <1>12 DEF Consistent

\* The attempt given up may still be carried out, no earlier than its turn.
LEMMA OrderedWithAttemptLate ==
    ASSUME TypeOK, NEW r \in Requests, Consistent(r), wire[r] # "none",
           late' = IF wire[r] = "sent" THEN late \cup {<<r, step[r], attempt[r]>>} ELSE late,
           kind' = kind, carried' = carried, step'[r] \in {0, step[r]},
           Interrupted' = Interrupted \cup {r}
    PROVE  Ordered(r)'
<1>1. kind[r] \in Kinds /\ step[r] \in 1..2 /\ step[r] \in DOMAIN Script[kind[r]]
  BY Situation DEF Consistent
<1>2. step[r] = 2 => <<r, 1>> \in carried
  BY DEF Consistent, Ordered
<1>3. ASSUME NEW m \in late', m[1] = r
      PROVE  m[2] \in DOMAIN Script[kind[r]] /\ (m[2] = 2 => <<r, 1>> \in carried)
  <2>1. CASE m \in late
    BY <1>3, <2>1 DEF Consistent, Ordered
  <2>2. CASE m = <<r, step[r], attempt[r]>>
    BY <1>1, <1>2, <2>2
  <2> QED
    BY <2>1, <2>2
<1> QED
  BY <1>1, <1>2, <1>3 DEF Consistent, Ordered

\* Timing out, a request repeats its call or answers that it does not know.
LEMMA ConsistentAfterTimesOut ==
    ASSUME TypeOK, NEW r \in Requests, Consistent(r), TimesOut(r)
    PROVE  Consistent(r)'
<1>1. wire[r] # "none" /\ kind[r] \in Kinds /\ LastStep(r) \in 1..2
      /\ step[r] \in 1..2 /\ step[r] \in DOMAIN Script[kind[r]]
  BY Situation DEF Consistent, TimesOut
<1>2. answer[r] \in {"none", "ok"} /\ r \notin died
  BY <1>1 DEF Consistent, Answering
<1>3. /\ \/ step'[r] = step[r] /\ wire'[r] = "sent" /\ answer'[r] = answer[r]
         \/ /\ step'[r] = 0 /\ wire'[r] = "none"
            /\ answer'[r] = IF answer[r] = "none" THEN "unknown" ELSE answer[r]
      /\ kind' = kind /\ carried' = carried /\ died' = died
      /\ r \in doubtful' /\ Interrupted' = Interrupted \cup {r}
      /\ LastStep(r)' = LastStep(r)
  BY DEF TimesOut, Say, Stop, Reported, TypeOK, Interrupted, LastStep, request
<1>4. Placed(r)'
  BY <1>1, <1>3, NoneAssumption DEF Placed
<1>5. Ordered(r)'
  BY <1>1, <1>3, OrderedWithAttemptLate DEF TimesOut
<1>6. Heard(r)'
  BY <1>3 DEF Heard
<1>7. Answering(r)'
  <2>1. answer[r] = "ok"
          => \A i \in DOMAIN Script[kind[r]] : InBackground(kind[r], i) \/ <<r, i>> \in carried
    BY DEF Consistent, Answering
  <2>2. answer'[r] \in {"none", "ok", "unknown"} /\ (answer'[r] = "ok" => answer[r] = "ok")
    BY <1>2, <1>3
  <2>3. wire'[r] # "none" => answer'[r] \in {"none", "ok"}
    BY <1>2, <1>3
  <2>4. r \in Interrupted' /\ r \in doubtful' /\ r \notin died' /\ kind'[r] \in Kinds
    BY <1>1, <1>2, <1>3
  <2>5. kind'[r] = kind[r] /\ carried' = carried
    BY <1>3
  <2> QED
    BY <2>1, <2>2, <2>3, <2>4, <2>5 DEF Answering
<1>8. Acknowledged(r)'
  BY <1>3 DEF Acknowledged
<1> QED
  BY <1>4, <1>5, <1>6, <1>7, <1>8 DEF Consistent

\* The process dies with the request, which is interrupted from then on.
LEMMA ConsistentAfterDies ==
    ASSUME TypeOK, NEW r \in Requests, Consistent(r), Dies(r)
    PROVE  Consistent(r)'
<1>1. wire[r] # "none" /\ kind[r] \in Kinds /\ LastStep(r) \in 1..2
  BY Situation DEF Consistent, Dies
<1>2. answer[r] \in {"none", "ok"}
  BY <1>1 DEF Consistent, Answering
<1>3. /\ step'[r] = 0 /\ wire'[r] = "none"
      /\ answer'[r] = IF answer[r] = "none" THEN "unknown" ELSE answer[r]
      /\ kind' = kind /\ carried' = carried
      /\ Interrupted' = Interrupted \cup {r}
  BY DEF Dies, Say, Stop, TypeOK, Interrupted, request
<1>4. Placed(r)'
  BY <1>1, <1>3, NoneAssumption DEF Placed
<1>5. Ordered(r)'
  BY <1>1, <1>3, OrderedWithAttemptLate DEF Dies
<1>6. Heard(r)'
  BY <1>3 DEF Heard
<1>7. Answering(r)'
  <2>1. answer[r] = "ok"
          => \A i \in DOMAIN Script[kind[r]] : InBackground(kind[r], i) \/ <<r, i>> \in carried
    BY DEF Consistent, Answering
  <2>2. answer'[r] \in {"ok", "unknown"} /\ (answer'[r] = "ok" => answer[r] = "ok")
    BY <1>2, <1>3
  <2>3. wire'[r] = "none" /\ kind'[r] = kind[r] /\ kind[r] \in Kinds /\ carried' = carried
    BY <1>1, <1>3
  <2> QED
    BY <2>1, <2>2, <2>3 DEF Answering
<1>8. Acknowledged(r)'
  BY <1>3 DEF Acknowledged
<1> QED
  BY <1>4, <1>5, <1>6, <1>7, <1>8 DEF Consistent

\* A step of one request leaves the others alone.
LEMMA OthersUndisturbed ==
    ASSUME TypeOK, NEW r \in Requests, NEW q \in Requests, q # r,
           \/ \E k \in Kinds, p, n \in Pins : Begin(r, k, p, n)
           \/ SiebelHandles(r) \/ Continue(r) \/ Complete(r) \/ Refuse(r)
           \/ TimesOut(r) \/ Dies(r)
    PROVE  Undisturbed(q)
<1>1. CASE \E k \in Kinds, p, n \in Pins : Begin(r, k, p, n)
  BY <1>1 DEF Begin, TypeOK, Undisturbed
<1>2. CASE SiebelHandles(r)
  <2>1. /\ UNCHANGED <<kind, step, answer, late, died>>
        /\ wire'[q] = wire[q] /\ (q \in doubtful' <=> q \in doubtful)
        /\ carried' = carried \/ carried' = carried \cup {<<r, step[r]>>}
    BY <1>2 DEF SiebelHandles, Carried, TypeOK, request
  <2> QED
    BY <2>1 DEF Undisturbed
<1>3. CASE Continue(r)
  <2>1. /\ UNCHANGED <<kind, late, carried, doubtful, died>>
        /\ step'[q] = step[q] /\ wire'[q] = wire[q]
    BY <1>3 DEF Continue, TypeOK, request
  <2>2. answer'[q] = answer[q]
    BY <1>3 DEF Continue, Say, TypeOK
  <2> QED
    BY <2>1, <2>2 DEF Undisturbed
<1>4. CASE Complete(r) \/ Refuse(r)
  BY <1>4 DEF Complete, Refuse, Say, Stop, TypeOK, request, Undisturbed
<1>5. CASE TimesOut(r) \/ Dies(r)
  <2>1. \A m \in late' : m \in late \/ m[1] = r
    BY <1>5 DEF TimesOut, Dies
  <2>2. /\ UNCHANGED <<kind, carried>>
        /\ step'[q] = step[q] /\ wire'[q] = wire[q] /\ answer'[q] = answer[q]
        /\ q \in doubtful' <=> q \in doubtful
        /\ q \in died' <=> q \in died
    BY <1>5 DEF TimesOut, Dies, Say, Stop, TypeOK, request
  <2> QED
    BY <2>1, <2>2 DEF Undisturbed
<1> QED
  BY <1>1, <1>2, <1>3, <1>4, <1>5

LEMMA ConsistentStep ==
    ASSUME TypeOK, EachConsistent, [Next]_vars
    PROVE  EachConsistent'
<1> SUFFICES ASSUME NEW q \in Requests
             PROVE  Consistent(q)'
  BY DEF EachConsistent
<1>1. Consistent(q)
  BY DEF EachConsistent
<1>2. ASSUME NEW r \in Requests, BeginPin(r) \/ BeginAccount(r) \/ BeginPlan(r) \/ BeginMessage(r)
      PROVE  Consistent(q)'
  <2>1. PICK k \in Kinds, p, n \in Pins : Begin(r, k, p, n)
    BY <1>2, BeginsAKind
  <2>2. CASE q = r
    BY <1>1, <2>1, <2>2, ConsistentAfterBegin
  <2>3. CASE q # r
    BY <1>1, <2>1, <2>3, OthersUndisturbed, UndisturbedStaysConsistent
  <2> QED
    BY <2>2, <2>3
<1>3. ASSUME NEW r \in Requests,
             SiebelHandles(r) \/ Continue(r) \/ Complete(r) \/ Refuse(r) \/ TimesOut(r) \/ Dies(r)
      PROVE  Consistent(q)'
  <2>1. CASE q = r
    BY <1>1, <1>3, <2>1, ConsistentAfterSiebelHandles, ConsistentAfterContinue,
       ConsistentAfterComplete, ConsistentAfterRefuse, ConsistentAfterTimesOut,
       ConsistentAfterDies
  <2>2. CASE q # r
    BY <1>1, <1>3, <2>2, OthersUndisturbed, UndisturbedStaysConsistent
  <2> QED
    BY <2>1, <2>2
<1>4. ASSUME NEW m \in late, SiebelHandlesLate(m)
      PROVE  Consistent(q)'
  <2>1. m[1] \in Requests
    BY DEF TypeOK, Attempts
  <2>2. CASE q = m[1]
    BY <1>1, <1>4, <2>1, <2>2, ConsistentAfterSiebelHandlesLate
  <2>3. CASE q # m[1]
    <3>1. /\ UNCHANGED <<kind, step, wire, answer, doubtful, died>> /\ late' \subseteq late
          /\ carried' = carried \/ carried' = carried \cup {<<m[1], m[2]>>}
      BY <1>4 DEF SiebelHandlesLate, Carried, request, progress
    <3>2. Undisturbed(q)
      BY <2>3, <3>1 DEF Undisturbed
    <3> QED
      BY <1>1, <3>2, UndisturbedStaysConsistent
  <2> QED
    BY <2>2, <2>3
<1>5. CASE UNCHANGED vars
  <2>1. Undisturbed(q)
    BY <1>5 DEF vars, request, progress, Undisturbed
  <2> QED
    BY <1>1, <2>1, UndisturbedStaysConsistent
<1> QED
  BY <1>2, <1>3, <1>4, <1>5 DEF Next

-----------------------------------------------------------------------------
(* The PIN.                                                                 *)

\* A call carried out sets the PIN exactly if it makes its request one of the Takers.
LEMMA PinSourceAfterCall ==
    ASSUME TypeOK, EachConsistent, PinSource,
           NEW r \in Requests, kind[r] \in Kinds, NEW i \in DOMAIN Script[kind[r]],
           NEW res \in Results,
           CarriesOut(r, Script[kind[r]][i], res), Carried(r, i, res),
           UNCHANGED <<kind, new>>
    PROVE  PinSource'
<1> DEFINE Sets == kind[r] \in SetsPin /\ i = LastStep(r)
<1>1. pin' = IF res = "ok" /\ Sets THEN new[r] ELSE pin
  BY CallEffect, ScriptCalls DEF LastStep
<1>2. \A q \in Requests : LastStep(q)' = LastStep(q)
  BY DEF LastStep
<1>3. Takers' = IF res = "ok" /\ Sets THEN Takers \cup {r} ELSE Takers
  <2>1. CASE res = "ok"
    <3>1. carried' = carried \cup {<<r, i>>}
      BY <2>1 DEF Carried
    <3> QED
      BY <1>2, <2>1, <3>1 DEF Takers
  <2>2. CASE res # "ok"
    BY <1>2, <2>2 DEF Carried, Takers
  <2> QED
    BY <2>1, <2>2
<1>4. CASE res = "ok" /\ Sets
  BY <1>1, <1>3, <1>4 DEF PinSource
<1>5. CASE ~(res = "ok" /\ Sets)
  BY <1>1, <1>3, <1>5 DEF PinSource
<1> QED
  BY <1>4, <1>5

LEMMA PinSourceStep ==
    ASSUME TypeOK, EachConsistent, PinSource, [Next]_vars
    PROVE  PinSource'
<1>1. ASSUME UNCHANGED <<pin, kind, new, carried>> PROVE PinSource'
  BY <1>1 DEF PinSource, Takers, LastStep
<1>2. ASSUME NEW r \in Requests, BeginPin(r) \/ BeginAccount(r) \/ BeginPlan(r) \/ BeginMessage(r)
      PROVE  PinSource'
  <2>1. PICK k \in Kinds, p, n \in Pins : Begin(r, k, p, n)
    BY <1>2, BeginsAKind
  <2>2. \A i \in 1..2 : <<r, i>> \notin carried
    BY <2>1, NoneAssumption DEF Begin, EachConsistent, Consistent, Ordered
  <2>3. UNCHANGED <<pin, carried>>
    BY <2>1 DEF Begin, siebel
  <2>4. \A q \in Requests : q # r => kind'[q] = kind[q] /\ new'[q] = new[q]
    BY <2>1 DEF Begin, TypeOK
  <2>5. r \notin Takers /\ r \notin Takers'
    <3>1. \A x \in Kinds : Len(Script[x]) \in 1..2
      BY ScriptLength
    <3>2. kind'[r] = k /\ kind[r] = None
      BY <2>1 DEF Begin, TypeOK
    <3>3. None \notin SetsPin
      BY AllKinds, NoneAssumption DEF SetsPin
    <3> QED
      BY <2>2, <2>3, <3>1, <3>2, <3>3 DEF Takers, LastStep
  <2>6. Takers' = Takers
    BY <2>3, <2>4, <2>5 DEF Takers, LastStep
  <2> QED
    BY <2>3, <2>4, <2>5, <2>6 DEF PinSource, Takers
<1>3. ASSUME NEW r \in Requests, SiebelHandles(r) PROVE PinSource'
  <2>1. wire[r] # "none" /\ Placed(r)
    BY <1>3 DEF SiebelHandles, EachConsistent, Consistent
  <2>2. kind[r] \in Kinds /\ step[r] \in DOMAIN Script[kind[r]]
    BY <2>1, Situation
  <2>3. PICK res \in Results :
          CarriesOut(r, Script[kind[r]][step[r]], res) /\ Carried(r, step[r], res)
    BY <1>3 DEF SiebelHandles
  <2>4. UNCHANGED <<kind, new>>
    BY <1>3 DEF SiebelHandles, request
  <2> QED
    BY <2>2, <2>3, <2>4, PinSourceAfterCall
<1>4. ASSUME NEW m \in late, SiebelHandlesLate(m) PROVE PinSource'
  <2>1. m[1] \in Requests
    BY DEF TypeOK, Attempts
  <2>2. kind[m[1]] \in Kinds /\ m[2] \in DOMAIN Script[kind[m[1]]]
    BY <2>1 DEF EachConsistent, Consistent, Ordered
  <2>3. PICK res \in Results :
          CarriesOut(m[1], Script[kind[m[1]]][m[2]], res) /\ Carried(m[1], m[2], res)
    BY <1>4 DEF SiebelHandlesLate
  <2>4. UNCHANGED <<kind, new>>
    BY <1>4 DEF SiebelHandlesLate, request
  <2> QED
    BY <2>1, <2>2, <2>3, <2>4, PinSourceAfterCall
<1>5. ASSUME NEW r \in Requests,
             Continue(r) \/ Complete(r) \/ Refuse(r) \/ TimesOut(r) \/ Dies(r)
      PROVE  PinSource'
  BY <1>1, <1>5 DEF Continue, Complete, Refuse, TimesOut, Dies, siebel, request
<1>6. CASE UNCHANGED vars
  BY <1>1, <1>6 DEF vars, siebel, request
<1> QED
  BY <1>2, <1>3, <1>4, <1>5, <1>6 DEF Next

-----------------------------------------------------------------------------
(* What the runs check.                                                     *)

LEMMA InvariantInitially == Init => Invariant
<1> SUFFICES ASSUME Init
             PROVE  Invariant
  OBVIOUS
<1>1. ASSUME NEW r \in Requests PROVE Consistent(r)
  <2>1. /\ kind[r] = None /\ step[r] = 0 /\ wire[r] = "none" /\ answer[r] = "none"
        /\ late = {} /\ carried = {} /\ Interrupted = {} /\ died = {}
    BY DEF Init, Interrupted
  <2> QED
    BY <2>1 DEF Consistent, Placed, Ordered, Heard, Answering, Acknowledged
<1>2. PinSource
  BY DEF Init, PinSource, Takers
<1> QED
  BY <1>1, <1>2, InitTyped DEF Invariant, EachConsistent

LEMMA InvariantHolds == Spec => []Invariant
<1>1. Invariant /\ [Next]_vars => Invariant'
  BY TypingStep, ConsistentStep, PinSourceStep DEF Invariant
<1> QED
  BY InvariantInitially, <1>1, PTL DEF Spec

\* The state of every request and of Siebel keeps its type (pin_service.py:8-29,
\* client.py:191-220).
THEOREM TypeCorrect == Spec => []TypeOK
<1>1. Invariant => TypeOK
  BY DEF Invariant
<1> QED
  BY <1>1, InvariantHolds, PTL

\* Siebel carries out no call before the one it depends on, whatever timed out, was
\* repeated or came late (pin_service.py:17-21, service.py:23-31, 76-80).
THEOREM InOrderCorrect == Spec => []InOrder
<1>1. Invariant => InOrder
  BY DEF Invariant, EachConsistent, Consistent, Ordered, InOrder
<1> QED
  BY <1>1, InvariantHolds, PTL

\* A success means the calls were carried out; an error or a refusal of a request
\* that nothing made doubtful means they were not (pin_service.py:17-29,
\* exception_handlers.py:19-59).
THEOREM AnswersTrueCorrect == Spec => []AnswersTrue
<1>1. ASSUME Invariant, NEW r \in Requests
      PROVE  /\ answer[r] = "ok"
                  => \A i \in DOMAIN Script[kind[r]] :
                       InBackground(kind[r], i) \/ <<r, i>> \in carried
             /\ answer[r] = "refused" /\ r \notin doubtful => ~Changed(r)
             /\ answer[r] = "error" /\ r \notin doubtful
                  => <<r, Len(Script[kind[r]])>> \notin carried
  BY <1>1 DEF Invariant, EachConsistent, Consistent, Answering, Changed, LastStep
<1>2. Invariant => AnswersTrue
  BY <1>1 DEF AnswersTrue
<1> QED
  BY <1>2, InvariantHolds, PTL

\* A client all of whose requests were answered, none interrupted, knows its PIN
\* (pin_service.py:17-29).
THEOREM KnownPinCorrect == Spec => []KnownPin
<1>1. ASSUME Invariant, doubtful = {}, died = {}, \A r \in Requests : wire[r] = "none"
      PROVE  {r \in Requests : kind[r] \in SetsPin /\ answer[r] = "ok"} = Takers
  <2>1. ASSUME NEW r \in Takers PROVE answer[r] = "ok"
    BY <1>1 DEF Invariant, EachConsistent, Consistent, Acknowledged, Takers, Interrupted
  <2>2. ASSUME NEW r \in Requests, kind[r] \in SetsPin, answer[r] = "ok"
        PROVE  <<r, LastStep(r)>> \in carried
    <3>1. kind[r] \in Kinds
      BY <2>2, AllKinds DEF SetsPin
    <3>2. LastStep(r) \in 1..2 /\ LastStep(r) \in DOMAIN Script[kind[r]]
      BY <3>1, ScriptLength DEF LastStep
    <3>3. ~InBackground(kind[r], LastStep(r))
      BY <2>2, <3>1, <3>2, ScriptBackground
    <3> QED
      BY <1>1, <2>2, <3>2, <3>3 DEF Invariant, EachConsistent, Consistent, Answering
  <2> QED
    BY <2>1, <2>2 DEF Takers
<1>2. Invariant => KnownPin
  BY <1>1 DEF Invariant, KnownPin, PinSource
<1> QED
  BY <1>2, InvariantHolds, PTL

=============================================================================
