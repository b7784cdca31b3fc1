------------------------ MODULE MonthlyReportsProofs ------------------------
(* How far a cached period and a slow submission can lag behind the time,   *)
(* for any number of requests and any length of periods, keys and calls.    *)
(* The inductive invariant also follows an answer on its way, and a         *)
(* submission from one call to the next.                                    *)
EXTENDS MonthlyReports, TLAPS

\* Since the period was checked only the calls so far have taken time.
OnTime(r, earlier) == now <= Close(window[r]) + earlier + waited[r]

\* An answer on its way is as old as its call at most.
Timely(r) ==
    /\ pc[r] = "store" /\ window[r] # current => now <= rolledAt + waited[r]
    /\ pc[r] = "pin" => OnTime(r, 0)
    /\ pc[r] = "spouse" => OnTime(r, CallTime)
    /\ pc[r] = "submit" => OnTime(r, 2 * CallTime)

Invariant ==
    /\ TypeOK
    /\ rolledAt <= now
    /\ StaleKeyExpires
    /\ \A r \in Requests : Timely(r)

LEMMA CloseIsLater ==
    ASSUME NEW p \in Nat
    PROVE  Close(p) \in Nat /\ p <= Close(p)
<1>1. PeriodLength \in Nat /\ PeriodLength >= 1
  BY TimesAssumption
<1>2. p * PeriodLength \in Nat
  BY <1>1
<1>3. PeriodLength = 1 + (PeriodLength - 1) /\ PeriodLength - 1 \in Nat
  BY <1>1
<1>4. p * PeriodLength = p + p * (PeriodLength - 1) /\ p * (PeriodLength - 1) \in Nat
  BY <1>3
<1> QED
  BY <1>2, <1>4 DEF Close

LEMMA GotoTyped ==
    ASSUME TypeOK, NEW r \in Requests, NEW place \in Places, Goto(r, place)
    PROVE  pc' \in [Requests -> Places] /\ waited' \in [Requests -> 0..CallTime]
  BY TimesAssumption DEF TypeOK, Goto

LEMMA EndTyped ==
    ASSUME TypeOK, NEW r \in Requests,
           NEW how \in {"none", "closed", "pin", "sent", "error"}, End(r, how)
    PROVE  /\ pc' \in [Requests -> Places]
           /\ waited' \in [Requests -> 0..CallTime]
           /\ submits' \subseteq Requests
           /\ window' \in [Requests -> Periods \cup {0}]
           /\ answer' \in [Requests -> {"none", "closed", "pin", "sent", "error"}]
<1>1. Goto(r, "idle")
  BY DEF End
<1>2. pc' \in [Requests -> Places] /\ waited' \in [Requests -> 0..CallTime]
  BY <1>1, GotoTyped DEF Places
<1> QED
  BY <1>2 DEF TypeOK, End

LEMMA ProceedTyped ==
    ASSUME TypeOK, NEW r \in Requests, NEW p \in Periods \cup {0}, NEW b \in BOOLEAN,
           Proceed(r, p, b)
    PROVE  /\ pc' \in [Requests -> Places]
           /\ waited' \in [Requests -> 0..CallTime]
           /\ submits' \subseteq Requests
           /\ window' \in [Requests -> Periods \cup {0}]
           /\ answer' \in [Requests -> {"none", "closed", "pin", "sent", "error"}]
<1>1. CASE b /\ ~Closed(p)
  <2>1. Goto(r, "pin")
    BY <1>1 DEF Proceed
  <2>2. pc' \in [Requests -> Places] /\ waited' \in [Requests -> 0..CallTime]
    BY <2>1, GotoTyped DEF Places
  <2> QED
    BY <1>1, <2>2 DEF TypeOK, Proceed
<1>2. CASE ~(b /\ ~Closed(p))
  <2>1. PICK how \in {"none", "closed"} : End(r, how)
    BY <1>2 DEF Proceed
  <2> QED
    BY <2>1, EndTyped
<1> QED
  BY <1>1, <1>2

LEMMA InitTyped == Init => TypeOK
  BY MaxTimeAssumption, TimesAssumption DEF Init, TypeOK, Periods, Places

\* Every step keeps every variable in its type.
LEMMA TypingStep == TypeOK /\ [Next]_vars => TypeOK'
<1> SUFFICES ASSUME TypeOK, [Next]_vars
             PROVE  TypeOK'
  OBVIOUS
<1> USE DEF siebel, redis, request
<1>1. ASSUME NEW r \in Requests, NEW b \in BOOLEAN, Begin(r, b) PROVE TypeOK'
  <2>1. CASE Cached
    <3>1. Proceed(r, cache, b) /\ cache \in Periods
      BY <1>1, <2>1 DEF Begin, Cached, TypeOK
    <3> QED
      BY <1>1, <3>1, ProceedTyped DEF Begin, TypeOK
  <2>2. CASE ~Cached
    <3>1. Fetch(r, b) /\ Goto(r, "fetch")
      BY <1>1, <2>2 DEF Begin, Fetch
    <3>2. pc' \in [Requests -> Places] /\ waited' \in [Requests -> 0..CallTime]
      BY <3>1, GotoTyped DEF Places
    <3> QED
      BY <1>1, <3>1, <3>2 DEF Begin, Fetch, TypeOK
  <2> QED
    BY <2>1, <2>2
<1>2. ASSUME NEW r \in Requests, SiebelAnswers(r) PROVE TypeOK'
  BY <1>2 DEF SiebelAnswers, TypeOK, Places
<1>3. ASSUME NEW r \in Requests, Store(r) PROVE TypeOK'
  <2>1. window[r] \in Periods \cup {0} /\ (r \in submits) \in BOOLEAN
    BY <1>3 DEF TypeOK
  <2>2. Proceed(r, window[r], r \in submits)
    BY <1>3 DEF Store
  <2>3. /\ pc' \in [Requests -> Places]
        /\ waited' \in [Requests -> 0..CallTime]
        /\ submits' \subseteq Requests
        /\ window' \in [Requests -> Periods \cup {0}]
        /\ answer' \in [Requests -> {"none", "closed", "pin", "sent", "error"}]
    BY <2>1, <2>2, ProceedTyped, Zenon
  <2>4. cache' \in Periods \cup {0} /\ ttl' \in 0..CacheTtl
    BY <1>3, <2>1, TimesAssumption DEF Store
  <2> QED
    BY <1>3, <2>3, <2>4 DEF Store, TypeOK
<1>4. ASSUME NEW r \in Requests, NEW next \in {"spouse", "submit"}, Goto(r, next),
             UNCHANGED <<submits, window, answer, now, current, rolledAt, cache, ttl>>
      PROVE TypeOK'
  <2>1. pc' \in [Requests -> Places] /\ waited' \in [Requests -> 0..CallTime]
    BY <1>4, GotoTyped DEF Places
  <2> QED
    BY <1>4, <2>1 DEF TypeOK
<1>5. ASSUME NEW r \in Requests, NEW how \in {"pin", "sent", "error"}, End(r, how),
             UNCHANGED <<now, current, rolledAt, cache, ttl>>
      PROVE TypeOK'
  BY <1>5, EndTyped DEF TypeOK
<1>6. CASE Roll
  <2>1. current \in Nat /\ now \in 0..MaxTime /\ MaxTime \in Nat
    BY MaxTimeAssumption DEF TypeOK, Periods
  <2>2. current < now
    BY <1>6, <2>1, CloseIsLater DEF Roll
  <2>3. current + 1 \in Periods
    BY <2>1, <2>2 DEF Periods
  <2> QED
    BY <1>6, <2>1, <2>3 DEF Roll, TypeOK
<1>7. CASE Tick
  <2>1. waited' \in [Requests -> 0..CallTime]
    BY <1>7, TimesAssumption DEF Tick, TypeOK, Busy
  <2>2. now' \in 0..MaxTime /\ ttl' \in 0..CacheTtl /\ cache' \in Periods \cup {0}
    BY <1>7, TimesAssumption, MaxTimeAssumption DEF Tick, TypeOK
  <2> QED
    BY <1>7, <2>1, <2>2 DEF Tick, TypeOK
<1>8. CASE UNCHANGED vars
  BY <1>8 DEF vars, TypeOK
<1>9. ASSUME NEW r \in Requests, PinChecked(r) \/ SpousePinChecked(r) PROVE TypeOK'
  BY <1>4, <1>5, <1>9 DEF PinChecked, SpousePinChecked
<1>10. ASSUME NEW r \in Requests, Submitted(r) \/ Fails(r) PROVE TypeOK'
  BY <1>5, <1>10 DEF Submitted, Fails
<1> QED
  BY <1>1, <1>2, <1>3, <1>6, <1>7, <1>8, <1>9, <1>10 DEF Next

\* Time, Siebel, the cache and the requests keep their types.
THEOREM TypeCorrect == Spec => []TypeOK
  BY InitTyped, TypingStep, PTL DEF Spec

\* What a step does to one request it does to no other.
Untouched(r) ==
    \A q \in Requests \ {r} :
       pc'[q] = pc[q] /\ window'[q] = window[q] /\ waited'[q] = waited[q]

LEMMA OthersStayTimely ==
    ASSUME \A q \in Requests : Timely(q), NEW r \in Requests, Untouched(r), Timely(r)',
           UNCHANGED <<now, current, rolledAt>>
    PROVE  \A q \in Requests : Timely(q)'
<1> SUFFICES ASSUME NEW q \in Requests \ {r}
             PROVE  Timely(q)'
  OBVIOUS
<1> QED
  BY DEF Untouched, Timely, OnTime, Close

LEMMA EndTimely ==
    ASSUME TypeOK, NEW r \in Requests, NEW how, End(r, how)
    PROVE  Untouched(r) /\ Timely(r)'
  BY DEF TypeOK, End, Goto, Untouched, Timely

\* A submission goes on only before the close, with its calls still to come.
LEMMA ProceedTimely ==
    ASSUME TypeOK, NEW r \in Requests, NEW p \in Nat, NEW b \in BOOLEAN,
           Proceed(r, p, b), now' = now
    PROVE  Untouched(r) /\ Timely(r)'
<1>1. CASE b /\ ~Closed(p)
  <2>1. Goto(r, "pin") /\ window' = [window EXCEPT ![r] = p]
    BY <1>1 DEF Proceed
  <2>2. pc'[r] = "pin" /\ waited'[r] = 0 /\ window'[r] = p /\ Untouched(r)
    BY <2>1 DEF TypeOK, Goto, Untouched
  <2>3. now <= Close(p) /\ Close(p) \in Nat
    BY <1>1, CloseIsLater, MaxTimeAssumption DEF Closed, TypeOK
  <2> QED
    BY <2>2, <2>3 DEF Timely, OnTime, Close
<1>2. CASE ~(b /\ ~Closed(p))
  BY <1>2, EndTimely DEF Proceed
<1> QED
  BY <1>1, <1>2

LEMMA InvariantStep == Invariant /\ [Next]_vars => Invariant'
<1> SUFFICES ASSUME Invariant, [Next]_vars
             PROVE  Invariant'
  OBVIOUS
<1> USE TimesAssumption, MaxTimeAssumption
<1>0. TypeOK /\ TypeOK'
  BY TypingStep DEF Invariant
<1>n. /\ now \in Nat /\ now' \in Nat /\ rolledAt \in Nat /\ rolledAt' \in Nat
      /\ ttl \in Nat /\ CacheTtl \in Nat /\ CallTime \in Nat
      /\ current \in Nat /\ cache \in Nat
      /\ \A r \in Requests : /\ window[r] \in Nat /\ Close(window[r]) \in Nat
                             /\ waited[r] \in 0..CallTime
  BY <1>0, CloseIsLater DEF TypeOK, Periods
<1>1. ASSUME NEW r \in Requests, Untouched(r), Timely(r)',
             UNCHANGED <<now, current, rolledAt, cache, ttl>>
      PROVE Invariant'
  <2>1. \A q \in Requests : Timely(q)'
    BY <1>1, OthersStayTimely DEF Invariant
  <2> QED
    BY <1>0, <1>1, <2>1 DEF Invariant, StaleKeyExpires, Cached
<1>2. ASSUME NEW r \in Requests, NEW b \in BOOLEAN, Begin(r, b) PROVE Invariant'
  <2>1. CASE Cached
    BY <1>0, <1>n, <1>1, <1>2, <2>1, ProceedTimely DEF Begin, redis, siebel
  <2>2. CASE ~Cached
    <3>1. Untouched(r) /\ Timely(r)'
      BY <1>0, <1>2, <2>2 DEF Begin, Fetch, Goto, Untouched, Timely, TypeOK
    <3> QED
      BY <1>1, <1>2, <3>1 DEF Begin, redis, siebel
  <2> QED
    BY <2>1, <2>2
<1>3. ASSUME NEW r \in Requests, SiebelAnswers(r) PROVE Invariant'
  <2>1. Untouched(r) /\ Timely(r)'
    BY <1>0, <1>3 DEF SiebelAnswers, Untouched, Timely, TypeOK, siebel
  <2> QED
    BY <1>1, <1>3, <2>1 DEF SiebelAnswers, redis, siebel
<1>4. ASSUME NEW r \in Requests, Store(r) PROVE Invariant'
  <2>1. Proceed(r, window[r], r \in submits) /\ (r \in submits) \in BOOLEAN
    BY <1>4 DEF Store
  <2>2. Untouched(r) /\ Timely(r)'
    BY <1>0, <1>n, <1>4, <2>1, ProceedTimely DEF Store
  <2>3. \A q \in Requests : Timely(q)'
    BY <1>4, <2>2, OthersStayTimely DEF Invariant, Store, siebel
  <2>4. StaleKeyExpires'
    BY <1>n, <1>4 DEF Invariant, Timely, StaleKeyExpires, Cached, Store, siebel
  <2> QED
    BY <1>0, <1>4, <2>3, <2>4 DEF Invariant, Store, siebel
<1>5. ASSUME NEW r \in Requests, PinChecked(r) PROVE Invariant'
  <2>1. Untouched(r) /\ Timely(r)'
    <3>1. CASE \E next \in {"spouse", "submit"} :
                  Goto(r, next) /\ UNCHANGED <<submits, window, answer>>
      <4>1. PICK next \in {"spouse", "submit"} : Goto(r, next)
        BY <3>1
      <4>2. /\ pc'[r] = next /\ waited'[r] = 0 /\ Untouched(r)
            /\ window'[r] = window[r] /\ now' = now
        BY <1>0, <1>5, <3>1, <4>1 DEF PinChecked, Goto, Untouched, TypeOK
      <4>3. now <= Close(window[r]) + waited[r]
        BY <1>n, <1>5 DEF PinChecked, Invariant, Timely, OnTime
      <4>4. now <= Close(window[r]) + CallTime
        BY <1>n, <4>3
      <4>5. now' <= Close(window'[r]) + CallTime + waited'[r]
        BY <1>n, <4>2, <4>4
      <4>6. now' <= Close(window'[r]) + 2 * CallTime + waited'[r]
        BY <1>n, <4>2, <4>4
      <4> QED
        BY <4>2, <4>5, <4>6 DEF Timely, OnTime
    <3>2. CASE End(r, "pin")
      BY <1>0, <3>2, EndTimely
    <3> QED
      BY <1>5, <3>1, <3>2 DEF PinChecked
  <2> QED
    BY <1>1, <1>5, <2>1 DEF PinChecked, redis, siebel
<1>6. ASSUME NEW r \in Requests, SpousePinChecked(r) PROVE Invariant'
  <2>1. Untouched(r) /\ Timely(r)'
    <3>1. CASE Goto(r, "submit") /\ UNCHANGED <<submits, window, answer>>
      BY <1>0, <1>n, <1>6, <3>1
         DEF SpousePinChecked, Invariant, Timely, OnTime, Untouched, Goto, Close, TypeOK
    <3>2. CASE End(r, "pin")
      BY <1>0, <3>2, EndTimely
    <3> QED
      BY <1>6, <3>1, <3>2 DEF SpousePinChecked
  <2> QED
    BY <1>1, <1>6, <2>1 DEF SpousePinChecked, redis, siebel
<1>7. ASSUME NEW r \in Requests, Submitted(r) \/ Fails(r) PROVE Invariant'
  <2>1. Untouched(r) /\ Timely(r)'
    BY <1>0, <1>7, EndTimely DEF Submitted, Fails
  <2> QED
    BY <1>1, <1>7, <2>1 DEF Submitted, Fails, redis, siebel
<1>8. CASE Roll
  BY <1>0, <1>n, <1>8
     DEF Roll, Invariant, TypeOK, StaleKeyExpires, Cached, Timely, OnTime, Close, redis, request
<1>9. CASE Tick
  <2>1. \A r \in Requests : pc[r] # "idle" => waited'[r] = waited[r] + 1
    BY <1>9 DEF Tick, Busy
  <2>2. StaleKeyExpires'
    BY <1>n, <1>9 DEF Tick, Invariant, StaleKeyExpires, Cached, siebel
  <2>3. ASSUME NEW r \in Requests PROVE Timely(r)'
    BY <1>n, <1>9, <2>1 DEF Tick, Invariant, Timely, OnTime, Close, siebel
  <2> QED
    BY <1>0, <1>n, <1>9, <2>2, <2>3 DEF Tick, Invariant, siebel
<1>10. CASE UNCHANGED vars
  BY <1>0, <1>10 DEF vars, siebel, redis, request,
                     Invariant, StaleKeyExpires, Cached, Timely, OnTime, Close
<1> QED
  BY <1>2, <1>3, <1>4, <1>5, <1>6, <1>7, <1>8, <1>9, <1>10 DEF Next

LEMMA InvariantHolds == Spec => []Invariant
<1>1. Init => Invariant
  BY InitTyped, TimesAssumption
     DEF Init, Invariant, StaleKeyExpires, Cached, Timely
<1> QED
  BY <1>1, InvariantStep, PTL DEF Spec

\* A period left in the cache is gone CacheTtl + CallTime after Siebel moved on,
\* whatever answers come late and whoever reads it (service.py:33-48).
THEOREM StaleKeyExpiresAlways == Spec => []StaleKeyExpires
<1>1. Invariant => StaleKeyExpires
  BY DEF Invariant
<1> QED
  BY <1>1, InvariantHolds, PTL

\* A report goes out at most three calls after its closing date (service.py:79-97).
THEOREM SentInTime == Spec => []SentSoonAfterClose
<1>1. ASSUME Invariant PROVE SentSoonAfterClose
  <2> SUFFICES ASSUME NEW r \in Requests, pc[r] = "submit"
               PROVE  now <= Close(window[r]) + 3 * CallTime
    BY DEF SentSoonAfterClose
  <2>1. window[r] \in Nat /\ waited[r] \in 0..CallTime /\ now \in Nat /\ CallTime \in Nat
    BY <1>1, TimesAssumption, MaxTimeAssumption DEF Invariant, TypeOK, Periods
  <2>2. Close(window[r]) \in Nat
    BY <2>1, CloseIsLater
  <2>3. OnTime(r, 2 * CallTime)
    BY <1>1 DEF Invariant, Timely
  <2> QED
    BY <2>1, <2>2, <2>3 DEF OnTime
<1> QED
  BY <1>1, InvariantHolds, PTL

\* A refusal names a period that is over, or Siebel has just moved on
\* (service.py:79-86).
THEOREM RefusalsBrief == Spec => RefusedOnlyBriefly
<1>1. ASSUME Invariant, [Next]_vars, NEW r \in Requests,
             answer[r] # "closed", answer'[r] = "closed"
      PROVE  Closed(current) \/ now - rolledAt <= CacheTtl + CallTime
  <2> USE TimesAssumption, MaxTimeAssumption
  <2>1. /\ TypeOK /\ now \in Nat /\ rolledAt \in Nat /\ rolledAt <= now
        /\ ttl \in Nat /\ CacheTtl \in Nat /\ CallTime \in Nat
        /\ \A q \in Requests : waited[q] \in 0..CallTime
    BY <1>1 DEF Invariant, TypeOK
  <2>2. ASSUME NEW q \in Requests, NEW p, NEW b \in BOOLEAN, Proceed(q, p, b)
        PROVE  Closed(p)
    <3>1. ASSUME NEW how \in {"none", "closed"}, End(q, how) PROVE how = "closed"
      BY <1>1, <2>1, <3>1 DEF End, TypeOK
    <3> QED
      BY <1>1, <2>2, <3>1 DEF Proceed
  <2>3. ASSUME NEW q \in Requests, NEW b \in BOOLEAN, Begin(q, b)
        PROVE  Closed(current) \/ now - rolledAt <= CacheTtl + CallTime
    <3>1. CASE Cached
      BY <1>1, <2>1, <2>2, <2>3, <3>1 DEF Begin, Invariant, StaleKeyExpires
    <3>2. CASE ~Cached
      BY <1>1, <2>1, <2>3, <3>2 DEF Begin, Fetch, TypeOK
    <3> QED
      BY <3>1, <3>2
  <2>4. ASSUME NEW q \in Requests, Store(q)
        PROVE  Closed(current) \/ now - rolledAt <= CacheTtl + CallTime
    <3>1. Closed(window[q])
      <4>1. Proceed(q, window[q], q \in submits) /\ (q \in submits) \in BOOLEAN
        BY <2>4 DEF Store
      <4> QED
        BY <2>2, <4>1, Zenon
    <3>2. window[q] # current => now <= rolledAt + waited[q]
      BY <1>1, <2>4 DEF Invariant, Timely, Store
    <3> QED
      BY <2>1, <3>1, <3>2
  <2>5. ASSUME NEW q \in Requests,
               \/ SiebelAnswers(q) \/ PinChecked(q) \/ SpousePinChecked(q)
               \/ Submitted(q) \/ Fails(q)
        PROVE  FALSE
    BY <1>1, <2>1, <2>5
       DEF SiebelAnswers, PinChecked, SpousePinChecked, Submitted, Fails, End, TypeOK
  <2>6. CASE Roll \/ Tick \/ UNCHANGED vars
    BY <1>1, <2>6 DEF Roll, Tick, vars, request
  <2> QED
    BY <1>1, <2>3, <2>4, <2>5, <2>6 DEF Next
<1>2. Invariant /\ [Next]_vars =>
        \A r \in Requests : answer[r] # "closed" /\ answer'[r] = "closed"
          => Closed(current) \/ now - rolledAt <= CacheTtl + CallTime
  BY <1>1
<1> QED
  BY <1>2, InvariantHolds, PTL DEF Spec, RefusedOnlyBriefly
=============================================================================
