---------------------------- MODULE ICMClientProofs ----------------------------
(* What a breaker and an ICM client guarantee for any number of calls and   *)
(* attempts, any threshold and timeout, and any lifetimes and delays that   *)
(* fit the client's margin.                                                 *)
(*                                                                          *)
(* First the breaker by itself, under every behaviour of CircuitBreaker.    *)
(* Its invariant adds Spacing to the properties: an open circuit was opened *)
(* no earlier than its last probe was admitted, so a full timeout since the *)
(* opening is a full timeout since that probe.                              *)
(*                                                                          *)
(* Then the client: it drives its breaker as CircuitBreaker says, so all    *)
(* that holds of its breaker too.  For the token the invariant bounds what  *)
(* adds up: the age a token may have while it is usable (TokenFresh), and   *)
(* the age of a token on its way together with the time it may still take   *)
(* (OnTime).                                                                *)
EXTENDS ICMClient, FiniteSetTheorems, TLAPS

-----------------------------------------------------------------------------
(* The breaker by itself.                                                   *)

\* An open circuit has been open no longer than the time since the last probe.
Spacing == state = "OPEN" => openedFor <= probedFor

BreakerInvariant ==
    /\ TypeOK
    /\ HalfOpenAwaitsProbe
    /\ ClosedBelowThreshold
    /\ Spacing

\* Recording a failure keeps the breaker's own variables in their types.
LEMMA FailureTyped ==
    ASSUME TypeOK, RecordFailure
    PROVE  /\ state' \in States
           /\ failures' \in 0..FailMax
           /\ openedFor' \in 0..ResetTimeout
           /\ probeInFlight' \in BOOLEAN
<1>1. state' \in States /\ openedFor' \in 0..ResetTimeout
  BY FailMaxAssumption, ResetTimeoutAssumption DEF TypeOK, RecordFailure, States
<1>2. failures' \in 0..FailMax
  BY FailMaxAssumption, ResetTimeoutAssumption DEF TypeOK, RecordFailure, UpTo
<1>3. probeInFlight' \in BOOLEAN
  BY Zenon DEF TypeOK, RecordFailure
<1> QED
  BY <1>1, <1>2, <1>3

\* Every step keeps every variable in its type.
LEMMA BreakerTypingStep == TypeOK /\ [Next]_vars => TypeOK'
<1> SUFFICES ASSUME TypeOK, [Next]_vars
             PROVE  TypeOK'
  OBVIOUS
<1> USE FailMaxAssumption, ResetTimeoutAssumption
<1>1. ASSUME NEW c \in Calls, AdmitNormal(c) PROVE TypeOK'
  BY <1>1 DEF TypeOK, AdmitNormal, Roles
<1>2. ASSUME NEW c \in Calls, AdmitProbe(c) PROVE TypeOK'
  BY <1>2 DEF TypeOK, AdmitProbe, Roles, States
<1>3. ASSUME NEW c \in Calls, Refuse(c) PROVE TypeOK'
  BY <1>3 DEF TypeOK, Refuse, StateWhenAsked, States
<1>4. ASSUME NEW c \in Calls, Succeed(c) PROVE TypeOK'
  <2>1. probeInFlight' \in BOOLEAN
    BY <1>4, Zenon DEF Succeed, RecordSuccess
  <2>2. /\ role' \in [Calls -> Roles]
        /\ reply' \in [Calls -> Outcomes \cup {"none"}]
        /\ probedFor' \in 0..ResetTimeout
        /\ siebel' \in {"up", "down"}
        /\ outcome' \in Outcomes
    BY <1>4 DEF TypeOK, Succeed, Ended, Roles, Outcomes
  <2>3. state' \in States /\ failures' \in 0..FailMax /\ openedFor' \in 0..ResetTimeout
    BY <1>4 DEF TypeOK, Succeed, RecordSuccess, States
  <2> QED
    BY <2>1, <2>2, <2>3 DEF TypeOK
<1>5. ASSUME NEW c \in Calls, Fail(c) PROVE TypeOK'
  <2>1. RecordFailure
    BY <1>5 DEF Fail
  <2>2. /\ state' \in States
        /\ failures' \in 0..FailMax
        /\ openedFor' \in 0..ResetTimeout
        /\ probeInFlight' \in BOOLEAN
    BY <2>1, FailureTyped
  <2>3. /\ role' \in [Calls -> Roles]
        /\ reply' \in [Calls -> Outcomes \cup {"none"}]
        /\ probedFor' \in 0..ResetTimeout
        /\ siebel' \in {"up", "down"}
        /\ outcome' \in Outcomes
    BY <1>5 DEF TypeOK, Fail, Ended, Roles, Outcomes
  <2> QED
    BY <2>2, <2>3 DEF TypeOK
<1>6. CASE Tick
  BY <1>6 DEF TypeOK, Tick, UpTo
<1>7. CASE SiebelChanges
  BY <1>7 DEF TypeOK, SiebelChanges
<1>8. ASSUME NEW c \in Calls, Answered(c) \/ Errs(c) PROVE TypeOK'
  BY <1>8 DEF TypeOK, Answered, Errs, Outcomes
<1>9. CASE UNCHANGED vars
  BY <1>9 DEF TypeOK, vars
<1> QED
  BY <1>1, <1>2, <1>3, <1>4, <1>5, <1>6, <1>7, <1>8, <1>9 DEF Next, Start, Finish

LEMMA BreakerInitTyped == Init => TypeOK
<1> SUFFICES ASSUME Init
             PROVE  TypeOK
  OBVIOUS
<1>1. probeInFlight \in BOOLEAN
  BY Zenon DEF Init
<1>2. /\ state \in States /\ failures \in 0..FailMax
      /\ openedFor \in 0..ResetTimeout /\ probedFor \in 0..ResetTimeout
  BY FailMaxAssumption, ResetTimeoutAssumption DEF Init, States
<1>3. role \in [Calls -> Roles] /\ reply \in [Calls -> Outcomes \cup {"none"}]
      /\ siebel \in {"up", "down"} /\ outcome \in Outcomes
  BY DEF Init, Roles, Outcomes
<1> QED
  BY <1>1, <1>2, <1>3 DEF TypeOK

\* The variables of the breaker (client.py:38-45) always hold values of their types.
THEOREM BreakerTypeCorrect == Spec => []TypeOK
  BY BreakerInitTyped, BreakerTypingStep, PTL DEF Spec

\* The end of a call, however it ended, leaves the circuit closed or open.
LEMMA FinishSettles ==
    ASSUME BreakerInvariant, NEW c \in Calls, Finish(c)
    PROVE  /\ state' \in {"CLOSED", "OPEN"}
           /\ ~probeInFlight'
           /\ state' = "CLOSED" => failures' < FailMax
           /\ state' = "OPEN" => openedFor' <= probedFor'
<1> USE FailMaxAssumption, ResetTimeoutAssumption
<1>1. CASE Succeed(c)
  BY <1>1 DEF Succeed, RecordSuccess
<1>2. CASE Fail(c)
  <2>1. CASE state = "HALF_OPEN"
    <3>1. ~probeInFlight'
      BY <1>2, <2>1, Zenon DEF Fail, RecordFailure
    <3> QED
      BY <1>2, <2>1, <3>1 DEF Fail, RecordFailure, Ended, BreakerInvariant, TypeOK
  <2>2. CASE state # "HALF_OPEN"
    <3>1. ~probeInFlight'
      BY <1>2, <2>2, Zenon DEF Fail, RecordFailure, BreakerInvariant, HalfOpenAwaitsProbe
    <3>2. failures' = UpTo(FailMax, failures + 1) /\ probedFor' = probedFor
      BY <1>2 DEF Fail, RecordFailure, Ended
    <3>3. /\ failures + 1 >= FailMax => state' = "OPEN" /\ openedFor' = 0
          /\ failures + 1 < FailMax => state' = state /\ openedFor' = openedFor
      BY <1>2, <2>2 DEF Fail, RecordFailure, BreakerInvariant, TypeOK
    <3> QED
      BY <2>2, <3>1, <3>2, <3>3 DEF UpTo, BreakerInvariant, TypeOK, States, Spacing
  <2> QED
    BY <2>1, <2>2
<1> QED
  BY <1>1, <1>2 DEF Finish

LEMMA BreakerInvariantStep == BreakerInvariant /\ [Next]_vars => BreakerInvariant'
<1> SUFFICES ASSUME BreakerInvariant, [Next]_vars
             PROVE  BreakerInvariant'
  OBVIOUS
<1> USE FailMaxAssumption, ResetTimeoutAssumption
<1>0. TypeOK'
  BY BreakerTypingStep DEF BreakerInvariant
<1>1. ASSUME NEW c \in Calls, AdmitNormal(c) PROVE BreakerInvariant'
  BY <1>0, <1>1 DEF BreakerInvariant, AdmitNormal, HalfOpenAwaitsProbe, ClosedBelowThreshold, Spacing
<1>2. ASSUME NEW c \in Calls, AdmitProbe(c) PROVE BreakerInvariant'
  <2>1. HalfOpenAwaitsProbe'
    <3>1. role'[c] = "probe"
      BY <1>2 DEF AdmitProbe, BreakerInvariant, TypeOK
    <3> QED
      BY <1>2, <3>1 DEF AdmitProbe, HalfOpenAwaitsProbe
  <2> QED
    BY <1>0, <1>2, <2>1 DEF AdmitProbe, BreakerInvariant, ClosedBelowThreshold, Spacing
<1>3. ASSUME NEW c \in Calls, Refuse(c) PROVE BreakerInvariant'
  BY <1>0, <1>3 DEF BreakerInvariant, Refuse, IsOpen, StateWhenAsked, Elapsed,
                    HalfOpenAwaitsProbe, ClosedBelowThreshold, Spacing
<1>4. ASSUME NEW c \in Calls, Finish(c) PROVE BreakerInvariant'
  <2>1. /\ state' \in {"CLOSED", "OPEN"}
        /\ ~probeInFlight'
        /\ state' = "CLOSED" => failures' < FailMax
        /\ state' = "OPEN" => openedFor' <= probedFor'
    BY <1>4, FinishSettles
  <2> QED
    BY <1>0, <2>1 DEF BreakerInvariant, HalfOpenAwaitsProbe, ClosedBelowThreshold, Spacing
<1>5. CASE Tick
  BY <1>0, <1>5 DEF BreakerInvariant, TypeOK, Tick, UpTo,
                    HalfOpenAwaitsProbe, ClosedBelowThreshold, Spacing
<1>6. ASSUME UNCHANGED <<state, failures, openedFor, probeInFlight, role, probedFor>>
      PROVE  BreakerInvariant'
  BY <1>0, <1>6 DEF BreakerInvariant, HalfOpenAwaitsProbe, ClosedBelowThreshold, Spacing
<1>7. ASSUME NEW c \in Calls, Answered(c) \/ Errs(c) PROVE BreakerInvariant'
  BY <1>6, <1>7 DEF Answered, Errs
<1>8. CASE SiebelChanges \/ UNCHANGED vars
  BY <1>6, <1>8 DEF SiebelChanges, vars
<1> QED
  BY <1>1, <1>2, <1>3, <1>4, <1>5, <1>7, <1>8 DEF Next, Start

LEMMA BreakerInvariantHolds == Spec => []BreakerInvariant
<1>1. Init => HalfOpenAwaitsProbe
  BY Zenon DEF Init, HalfOpenAwaitsProbe
<1>2. Init => ClosedBelowThreshold /\ Spacing
  BY FailMaxAssumption, ResetTimeoutAssumption DEF Init, ClosedBelowThreshold, Spacing
<1>3. Init => BreakerInvariant
  BY <1>1, <1>2, BreakerInitTyped DEF BreakerInvariant
<1> QED
  BY <1>3, BreakerInvariantStep, PTL DEF Spec

\* A half-open circuit always waits for a probe that is still running, so it can
\* refuse calls only as long as that probe lasts (client.py:66-73, 80-84, 90-95).
THEOREM HalfOpenCorrect == Spec => []HalfOpenAwaitsProbe
<1>1. BreakerInvariant => HalfOpenAwaitsProbe
  BY DEF BreakerInvariant
<1> QED
  BY <1>1, BreakerInvariantHolds, PTL

\* Whatever closed the circuit reset the count with it (client.py:85-95).
THEOREM ClosedCorrect == Spec => []ClosedBelowThreshold
<1>1. BreakerInvariant => ClosedBelowThreshold
  BY DEF BreakerInvariant
<1> QED
  BY <1>1, BreakerInvariantHolds, PTL

\* Two probes are admitted at least reset_timeout apart, for any interleaving of
\* probes and stragglers (client.py:55-58, 80-88).
THEOREM ProbesSpacedCorrect == Spec => ProbesSpaced
<1>1. ASSUME BreakerInvariant, [Next]_vars, NEW c \in Calls,
             role[c] = "idle", role'[c] = "probe"
      PROVE  probedFor >= ResetTimeout
  <2>1. PICK d \in Calls : AdmitProbe(d)
    <3>1. ASSUME NEW d \in Calls, AdmitNormal(d) PROVE FALSE
      BY <1>1, <3>1 DEF AdmitNormal, BreakerInvariant, TypeOK
    <3>2. ASSUME NEW d \in Calls, Refuse(d) PROVE FALSE
      BY <1>1, <3>2 DEF Refuse
    <3>3. ASSUME NEW d \in Calls, Finish(d) PROVE FALSE
      BY <1>1, <3>3 DEF Finish, Succeed, Fail, Ended, BreakerInvariant, TypeOK
    <3>4. ASSUME NEW d \in Calls, Answered(d) \/ Errs(d) PROVE FALSE
      BY <1>1, <3>4 DEF Answered, Errs
    <3>5. CASE Tick \/ SiebelChanges \/ UNCHANGED vars
      BY <1>1, <3>5 DEF Tick, SiebelChanges, vars
    <3> QED
      BY <1>1, <3>1, <3>2, <3>3, <3>4, <3>5 DEF Next, Start
  <2>2. state = "OPEN" /\ Elapsed
    BY <1>1, <2>1 DEF AdmitProbe, StateWhenAsked, BreakerInvariant, HalfOpenAwaitsProbe
  <2> QED
    BY <1>1, <2>2, FailMaxAssumption, ResetTimeoutAssumption DEF Elapsed, BreakerInvariant, Spacing, TypeOK
<1>2. BreakerInvariant /\ [Next]_vars
        => [\A c \in Calls : role[c] = "idle" /\ role'[c] = "probe"
              => probedFor >= ResetTimeout]_vars
  BY <1>1
<1> QED
  BY <1>2, BreakerInvariantHolds, PTL DEF Spec, ProbesSpaced

\* The safety half of OutageOpens: in an outage each closing of the circuit takes one
\* of the good answers that were on their way when it began, and none is added, so
\* there are no more closings than such answers (client.py:75-95).
THEOREM OutageClosingsCorrect == Spec => OutageClosings
<1> DEFINE Uses == /\ Served' \subseteq Served
                   /\ state # "CLOSED" /\ state' = "CLOSED" => Served' # Served
<1>1. ASSUME TypeOK, [Next]_vars, siebel = "down"
      PROVE  Uses
  <2>1. ASSUME UNCHANGED reply, state' = "CLOSED" => state = "CLOSED" PROVE Uses
    BY <2>1 DEF Served
  <2>2. ASSUME NEW c \in Calls, Start(c) PROVE Uses
    BY <2>1, <2>2 DEF Start, AdmitNormal, AdmitProbe
  <2>3. ASSUME NEW c \in Calls, Refuse(c) PROVE Uses
    BY <2>1, <2>3 DEF Refuse, StateWhenAsked
  <2>4. ASSUME NEW c \in Calls, Answered(c) PROVE Uses
    BY <1>1, <2>4 DEF Answered
  <2>5. ASSUME NEW c \in Calls, Errs(c) PROVE Uses
    <3>1. PICK r \in {"none", "infra"} : reply' = [reply EXCEPT ![c] = r]
      BY <2>5 DEF Errs
    <3>2. Served' \subseteq Served
      BY <1>1, <3>1 DEF Served, TypeOK
    <3>3. state' = state
      BY <2>5 DEF Errs
    <3> QED
      BY <3>2, <3>3
  <2>6. ASSUME NEW c \in Calls, Succeed(c) PROVE Uses
    <3>1. c \in Served /\ reply' = [reply EXCEPT ![c] = "none"]
      BY <2>6 DEF Succeed, Ended, Served
    <3>2. Served' = Served \ {c}
      BY <1>1, <3>1 DEF Served, TypeOK
    <3> QED
      BY <3>1, <3>2
  <2>7. ASSUME NEW c \in Calls, Fail(c) PROVE Uses
    <3>1. reply' = [reply EXCEPT ![c] = "none"]
      BY <2>7 DEF Fail, Ended
    <3>2. Served' \subseteq Served
      BY <1>1, <3>1 DEF Served, TypeOK
    <3>3. state # "CLOSED" => state' # "CLOSED"
      BY <2>7 DEF Fail, RecordFailure
    <3> QED
      BY <3>2, <3>3
  <2>8. CASE Tick \/ SiebelChanges \/ UNCHANGED vars
    BY <2>1, <2>8 DEF Tick, SiebelChanges, vars
  <2> QED
    BY <1>1, <2>2, <2>3, <2>4, <2>5, <2>6, <2>7, <2>8 DEF Next, Finish
<1>2. TypeOK /\ [Next]_vars => [siebel = "down" => Uses]_vars
  BY <1>1
<1> QED
  BY <1>2, BreakerTypeCorrect, PTL DEF Spec, OutageClosings

-----------------------------------------------------------------------------
(* The client's breaker.                                                    *)

\* Every step of the client is a step of its breaker or leaves it alone.
LEMMA BreakerStep ==
    ASSUME TypeOK, [ClientNext]_clientVars
    PROVE  [Next]_vars
<1>1. ASSUME NEW c \in Calls, Begin(c) PROVE Next
  BY <1>1 DEF Begin, Next
<1>2. ASSUME NEW c \in Calls, Refused(c) PROVE Next
  BY <1>2 DEF Refused, Next
<1>3. ASSUME NEW c \in Calls, Answered(c) \/ Errs(c) PROVE Next
  BY <1>3 DEF Next
<1>4. ASSUME NEW c \in Calls, Finish(c) PROVE Next
  BY <1>4 DEF Next
<1>5. ASSUME ClientTick PROVE Next \/ UNCHANGED vars
  <2>1. /\ openedFor' = UpTo(ResetTimeout, openedFor + 1)
        /\ probedFor' = UpTo(ResetTimeout, probedFor + 1)
        /\ UNCHANGED <<state, failures, probeInFlight, role, reply, siebel, outcome>>
    BY <1>5 DEF ClientTick
  <2>2. CASE openedFor < ResetTimeout \/ probedFor < ResetTimeout
    BY <2>1, <2>2 DEF Tick, Next
  <2>3. CASE ~(openedFor < ResetTimeout \/ probedFor < ResetTimeout)
    <3>1. openedFor = ResetTimeout /\ probedFor = ResetTimeout
      BY <2>3, FailMaxAssumption, ResetTimeoutAssumption DEF TypeOK
    <3>2. openedFor' = ResetTimeout /\ probedFor' = ResetTimeout
      BY <2>1, <3>1, FailMaxAssumption, ResetTimeoutAssumption DEF UpTo
    <3> QED
      BY <2>1, <3>1, <3>2 DEF vars
  <2> QED
    BY <2>2, <2>3
<1>6. ASSUME ClientSiebelChanges PROVE Next
  BY <1>6 DEF ClientSiebelChanges, Next
<1>7. ASSUME UNCHANGED <<breaker, siebel>> PROVE UNCHANGED vars
  BY <1>7 DEF breaker, vars
<1> QED
  BY <1>1, <1>2, <1>3, <1>4, <1>5, <1>6, <1>7 DEF ClientNext, clientVars, TakeToken,
     UseCachedToken, BeginFetch, Answer, FetchSucceeds, FetchDenied, Arrive,
     RequestAnswered, AttemptErrs, Record, Revoke

\* The calls of a client drive its breaker as CircuitBreaker says (client.py:224-263).
THEOREM BreakerImplemented == ClientSpec => Spec
<1>1. ClientInit => Init
  BY DEF ClientInit
<1>2. Init => TypeOK
  BY BreakerInitTyped
<1>3. TypeOK /\ [ClientNext]_clientVars => TypeOK' /\ [Next]_vars
  BY BreakerStep, BreakerTypingStep
<1> QED
  BY <1>1, <1>2, <1>3, PTL DEF ClientSpec, Spec

\* So a client's circuit that is half open awaits a running probe (client.py:66-95),
THEOREM ClientHalfOpen == ClientSpec => []HalfOpenAwaitsProbe
  BY HalfOpenCorrect, BreakerImplemented, PTL

\* one that is closed has room for a failure (client.py:92-95),
THEOREM ClientClosed == ClientSpec => []ClosedBelowThreshold
  BY ClosedCorrect, BreakerImplemented, PTL

\* probes are a timeout apart (client.py:82-87),
THEOREM ClientProbesSpaced == ClientSpec => ProbesSpaced
  BY ProbesSpacedCorrect, BreakerImplemented, PTL

\* and in an outage each closing uses up a good answer from before it
\* (client.py:75-95).
THEOREM ClientOutageClosings == ClientSpec => OutageClosings
  BY OutageClosingsCorrect, BreakerImplemented, PTL

-----------------------------------------------------------------------------
(* The token.                                                               *)

OneFetch == \A c, d \in Calls : pc[c] = "fetch" /\ pc[d] = "fetch" => c = d

FetchWhenStale == \A c \in Calls : pc[c] = "fetch" => Stale

TokenFresh == tokenLeft > 0 => tokenAge + tokenLeft <= FetchDelay + UsableLifetime

OnTime ==
    \A c \in Calls :
        /\ pc[c] = "fetch" => delay[c] <= FetchDelay
        /\ pc[c] = "send" => /\ delay[c] <= SendDelay
                             /\ carried[c] + SendDelay < Lifetime + delay[c]

CallsTyped ==
    /\ pc \in [Calls -> Places]
    /\ attempt \in [Calls -> 1..MaxAttempts]
    /\ delay \in [Calls -> 0..(FetchDelay + SendDelay)]
    /\ carried \in [Calls -> 0..Lifetime]

TokenTyped == tokenAge \in 0..Lifetime /\ tokenLeft \in 0..Lifetime

FlagsTyped == hasToken \in BOOLEAN /\ revoked \in BOOLEAN

TokenInvariant ==
    CallsTyped /\ TokenTyped /\ FlagsTyped /\ OneFetch /\ FetchWhenStale /\ TokenFresh /\ OnTime

LEMMA Delays ==
    /\ Lifetime \in Nat /\ Margin \in Nat /\ FetchDelay \in Nat /\ SendDelay \in Nat
    /\ FetchDelay + SendDelay < Lifetime /\ FetchDelay + SendDelay <= Margin
    /\ UsableLifetime \in 0..Lifetime
    /\ UsableLifetime > 0 => UsableLifetime + Margin = Lifetime
<1>1. /\ Lifetime \in Nat /\ Margin \in Nat /\ FetchDelay \in Nat /\ SendDelay \in Nat
      /\ FetchDelay + SendDelay < Lifetime /\ FetchDelay + SendDelay <= Margin
  BY DelaysAssumption
<1> QED
  BY <1>1 DEF UsableLifetime

\* Booleans and numbers apart, which no prover here takes together.
LEMMA FlagsStep == FlagsTyped /\ [ClientNext]_clientVars => FlagsTyped'
BY Zenon DEF FlagsTyped, ClientNext, clientVars, token, TakeToken, Answer, Begin, Refused,
   UseCachedToken, BeginFetch, FetchSucceeds, FetchDenied, Arrive, RequestAnswered,
   AttemptErrs, Raise, Record, End, ClientTick, ClientSiebelChanges, Revoke

LEMMA CallsStep ==
    ASSUME TokenInvariant, [ClientNext]_clientVars
    PROVE  CallsTyped'
<1> USE Delays, AttemptsAssumption DEF TokenInvariant, CallsTyped, Places
<1>0. 1 \in 1..MaxAttempts /\ 0 \in 0..(FetchDelay + SendDelay) /\ 0 \in 0..Lifetime
  OBVIOUS
<1>1. ASSUME NEW c \in Calls, Begin(c) PROVE CallsTyped'
  BY <1>0, <1>1 DEF Begin
<1>2. ASSUME NEW c \in Calls, UseCachedToken(c) PROVE CallsTyped'
  BY <1>0, <1>2 DEF UseCachedToken, Send, TokenTyped
<1>3. ASSUME NEW c \in Calls, BeginFetch(c) PROVE CallsTyped'
  BY <1>0, <1>3 DEF BeginFetch
<1>4. ASSUME NEW c \in Calls, FetchSucceeds(c) PROVE CallsTyped'
  <2>1. delay[c] \in 0..Lifetime
    BY <1>4 DEF FetchSucceeds, OnTime
  <2> QED
    BY <1>0, <1>4, <2>1 DEF FetchSucceeds, Send
<1>5. ASSUME NEW c \in Calls, Arrive(c) PROVE CallsTyped'
  BY <1>0, <1>5 DEF Arrive
<1>6. ASSUME NEW c \in Calls, End(c) \/ Raise(c) PROVE CallsTyped'
  BY <1>0, <1>6 DEF End, Raise
<1>7. ASSUME NEW c \in Calls, AttemptErrs(c) PROVE CallsTyped'
  <2>1. CASE Raise(c)
    BY <1>6, <2>1
  <2>2. CASE ~Raise(c)
    <3>1. /\ attempt' = [attempt EXCEPT ![c] = UpTo(MaxAttempts, attempt[c] + 1)]
          /\ pc' = [pc EXCEPT ![c] = "token"]
          /\ delay' = [delay EXCEPT ![c] = 0]
          /\ carried' = [carried EXCEPT ![c] = 0]
      BY <1>7, <2>2 DEF AttemptErrs
    <3>2. UpTo(MaxAttempts, attempt[c] + 1) \in 1..MaxAttempts
      BY DEF UpTo
    <3> QED
      BY <1>0, <3>1, <3>2
  <2> QED
    BY <2>1, <2>2
<1>8. ASSUME ClientTick PROVE CallsTyped'
  <2>1. /\ UNCHANGED <<pc, attempt>>
        /\ delay' = [c \in Calls |-> IF pc[c] \in {"fetch", "send"} THEN delay[c] + 1 ELSE 0]
        /\ carried' = [c \in Calls |-> IF pc[c] = "send" THEN UpTo(Lifetime, carried[c] + 1)
                                                        ELSE 0]
    BY <1>8 DEF ClientTick
  <2>2. \A c \in Calls : pc[c] \in {"fetch", "send"} => delay[c] + 1 \in 0..(FetchDelay + SendDelay)
    BY <1>8 DEF ClientTick, Late, OnTime
  <2>3. \A c \in Calls : UpTo(Lifetime, carried[c] + 1) \in 0..Lifetime
    BY DEF UpTo
  <2>4. delay' \in [Calls -> 0..(FetchDelay + SendDelay)]
    BY <1>0, <2>1, <2>2
  <2>5. carried' \in [Calls -> 0..Lifetime]
    BY <1>0, <2>1, <2>3
  <2> QED
    BY <2>1, <2>4, <2>5
<1>9. ASSUME NEW c \in Calls, RequestAnswered(c) PROVE CallsTyped'
  BY <1>9 DEF RequestAnswered
<1>10. ASSUME UNCHANGED <<pc, attempt, delay, carried>> PROVE CallsTyped'
  BY <1>10
<1> QED
  BY <1>1, <1>2, <1>3, <1>4, <1>5, <1>6, <1>7, <1>8, <1>9, <1>10 DEF ClientNext, clientVars,
     TakeToken, Answer, Refused, Record, FetchDenied, ClientSiebelChanges, Revoke

LEMMA OlderByOne ==
    ASSUME NEW age \in Nat, NEW left \in 0..Lifetime, NEW next \in 0..Lifetime, left > 1,
           next <= age + 1, age + left <= FetchDelay + UsableLifetime
    PROVE  /\ left - 1 \in 0..Lifetime
           /\ next + (left - 1) <= FetchDelay + UsableLifetime
<1> HIDE DEF UsableLifetime
<1> QED
  BY Delays

\* A usable token is young: what it loses in usable time it gains in age.
LEMMA TokenStep ==
    ASSUME TokenInvariant, [ClientNext]_clientVars
    PROVE  TokenTyped' /\ TokenFresh'
<1> USE Delays DEF TokenInvariant, TokenTyped, TokenFresh
<1>1. ASSUME NEW c \in Calls, FetchSucceeds(c) PROVE TokenTyped' /\ TokenFresh'
  <2>1. /\ tokenAge' = delay[c] /\ tokenLeft' = UsableLifetime
        /\ delay[c] \in Nat /\ delay[c] <= FetchDelay
    BY <1>1 DEF FetchSucceeds, OnTime, CallsTyped
  <2> HIDE DEF UsableLifetime
  <2> QED
    BY <2>1
<1>2. ASSUME ClientTick PROVE TokenTyped' /\ TokenFresh'
  <2>1. /\ tokenAge' \in {0, UpTo(Lifetime, tokenAge + 1)}
        /\ tokenLeft' = IF tokenLeft > 0 THEN tokenLeft - 1 ELSE 0
    BY <1>2 DEF ClientTick
  <2>2. UpTo(Lifetime, tokenAge + 1) \in 0..Lifetime
        /\ UpTo(Lifetime, tokenAge + 1) <= tokenAge + 1
    BY DEF UpTo
  <2> HIDE DEF UsableLifetime
  <2>3. CASE tokenLeft > 1
    <3>1. tokenLeft' = tokenLeft - 1 /\ tokenAge' <= tokenAge + 1 /\ tokenAge' \in 0..Lifetime
      BY <2>1, <2>2, <2>3
    <3>2. /\ tokenLeft \in 0..Lifetime /\ tokenAge \in Nat
          /\ tokenAge + tokenLeft <= FetchDelay + UsableLifetime
      BY <2>3
    <3> QED
      BY <2>3, <3>1, <3>2, OlderByOne
  <2>4. CASE tokenLeft <= 1
    <3>1. tokenLeft' = 0 /\ tokenAge' \in 0..Lifetime
      BY <2>1, <2>2, <2>4
    <3> QED
      BY <3>1
  <2> QED
    BY <2>3, <2>4
<1>3. ASSUME UNCHANGED <<tokenAge, tokenLeft>> PROVE TokenTyped' /\ TokenFresh'
  BY <1>3
<1> QED
  BY <1>1, <1>2, <1>3 DEF ClientNext, clientVars, token, TakeToken, Answer, Begin, Refused,
     UseCachedToken, BeginFetch, FetchDenied, Arrive, RequestAnswered, AttemptErrs,
     Raise, Record, End, ClientSiebelChanges, Revoke

\* The lock admits one refresh, and nothing but its end makes the token usable.
LEMMA LockStep ==
    ASSUME TokenInvariant, [ClientNext]_clientVars
    PROVE  OneFetch' /\ FetchWhenStale'
<1> USE DEF TokenInvariant, CallsTyped, OneFetch, FetchWhenStale, Stale
<1>1. ASSUME NEW c \in Calls, BeginFetch(c) PROVE OneFetch' /\ FetchWhenStale'
  BY <1>1 DEF BeginFetch, Locked, token
<1>2. ASSUME NEW c \in Calls, FetchSucceeds(c) PROVE OneFetch' /\ FetchWhenStale'
  BY <1>2 DEF FetchSucceeds, Send
<1>3. ASSUME ClientTick PROVE OneFetch' /\ FetchWhenStale'
  BY <1>3 DEF ClientTick
<1>4. ASSUME \A c \in Calls : pc'[c] = "fetch" => pc[c] = "fetch",
             UNCHANGED <<hasToken, tokenLeft>>
      PROVE  OneFetch' /\ FetchWhenStale'
  BY <1>4
<1>5. ASSUME NEW c \in Calls, Begin(c) \/ UseCachedToken(c) \/ Arrive(c) \/ End(c)
                              \/ Raise(c) \/ RequestAnswered(c) \/ AttemptErrs(c)
      PROVE  OneFetch' /\ FetchWhenStale'
  BY <1>4, <1>5 DEF Begin, UseCachedToken, Send, Arrive, End, Raise, RequestAnswered,
                    AttemptErrs, token
<1> QED
  BY <1>1, <1>2, <1>3, <1>4, <1>5 DEF ClientNext, clientVars, token, TakeToken, Answer, Refused,
     FetchDenied, Record, ClientSiebelChanges, Revoke

\* What a request may still take was spared by the margin.
LEMMA OnTimeStep ==
    ASSUME TokenInvariant, [ClientNext]_clientVars
    PROVE  OnTime'
<1> USE Delays DEF TokenInvariant, CallsTyped, OnTime
<1>1. ASSUME NEW c \in Calls, UseCachedToken(c) PROVE OnTime'
  <2>1. tokenLeft \in Nat /\ tokenLeft > 0 /\ tokenAge \in Nat
    BY <1>1 DEF UseCachedToken, Stale, TokenTyped
  <2>2. tokenAge + SendDelay < Lifetime
    <3> HIDE DEF UsableLifetime
    <3> QED
      BY <2>1 DEF TokenFresh
  <2> QED
    BY <1>1, <2>2 DEF UseCachedToken, Send
<1>2. ASSUME NEW c \in Calls, BeginFetch(c) PROVE OnTime'
  BY <1>2 DEF BeginFetch
<1>3. ASSUME NEW c \in Calls, FetchSucceeds(c) PROVE OnTime'
  <2>1. delay[c] + SendDelay < Lifetime
    BY <1>3 DEF FetchSucceeds
  <2> QED
    BY <1>3, <2>1 DEF FetchSucceeds, Send
<1>4. ASSUME ClientTick PROVE OnTime'
  <2>1. /\ pc' = pc
        /\ delay' = [c \in Calls |-> IF pc[c] \in {"fetch", "send"} THEN delay[c] + 1 ELSE 0]
        /\ carried' = [c \in Calls |-> IF pc[c] = "send" THEN UpTo(Lifetime, carried[c] + 1)
                                                        ELSE 0]
        /\ \A c \in Calls : ~Late(c)
    BY <1>4 DEF ClientTick
  <2>2. \A c \in Calls : UpTo(Lifetime, carried[c] + 1) \in Nat
                         /\ UpTo(Lifetime, carried[c] + 1) <= carried[c] + 1
    BY DEF UpTo
  <2>3. ASSUME NEW c \in Calls, pc[c] = "fetch"
        PROVE  delay'[c] = delay[c] + 1 /\ delay[c] < FetchDelay
    BY <2>1, <2>3 DEF Late
  <2>4. ASSUME NEW c \in Calls, pc[c] = "send"
        PROVE  /\ delay'[c] = delay[c] + 1 /\ delay[c] < SendDelay
               /\ carried'[c] <= carried[c] + 1 /\ carried'[c] \in Nat
    BY <2>1, <2>2, <2>4 DEF Late
  <2> HIDE DEF CallsTyped
  <2>5. \A c \in Calls : delay[c] \in Nat /\ carried[c] \in Nat
    BY DEF CallsTyped
  <2>6. \A c \in Calls : pc'[c] = "fetch" => delay'[c] <= FetchDelay
    BY <2>1, <2>3, <2>5
  <2>7. \A c \in Calls : pc'[c] = "send" =>
          delay'[c] <= SendDelay /\ carried'[c] + SendDelay < Lifetime + delay'[c]
    BY <2>1, <2>4, <2>5
  <2> QED
    BY <2>6, <2>7
<1>5. ASSUME NEW c \in Calls, Begin(c) \/ Arrive(c) \/ End(c) \/ Raise(c)
                              \/ RequestAnswered(c) \/ AttemptErrs(c)
      PROVE  OnTime'
  BY <1>5 DEF Begin, Arrive, End, Raise, RequestAnswered, AttemptErrs
<1>6. ASSUME UNCHANGED <<pc, delay, carried>> PROVE OnTime'
  BY <1>6
<1> QED
  BY <1>1, <1>2, <1>3, <1>4, <1>5, <1>6 DEF ClientNext, clientVars, TakeToken, Answer, Refused,
     FetchDenied, Record, ClientSiebelChanges, Revoke

LEMMA TokenInvariantInit == ClientInit => TokenInvariant
<1> SUFFICES ASSUME ClientInit
             PROVE  TokenInvariant
  OBVIOUS
<1>1. 1 \in 1..MaxAttempts /\ 0 \in 0..(FetchDelay + SendDelay) /\ 0 \in 0..Lifetime
  BY Delays, AttemptsAssumption
<1>2. CallsTyped /\ TokenTyped
  BY <1>1 DEF ClientInit, CallsTyped, TokenTyped, Places
<1>3. FlagsTyped
  BY DEF ClientInit, FlagsTyped
<1>4. OneFetch /\ FetchWhenStale /\ TokenFresh /\ OnTime
  BY DEF ClientInit, OneFetch, FetchWhenStale, TokenFresh, OnTime
<1> QED
  BY <1>2, <1>3, <1>4 DEF TokenInvariant

LEMMA TokenInvariantAlways == ClientSpec => []TokenInvariant
<1>1. TokenInvariant /\ [ClientNext]_clientVars => TokenInvariant'
  <2>1. TokenInvariant => FlagsTyped
    BY DEF TokenInvariant
  <2> QED
    BY <2>1, FlagsStep, CallsStep, TokenStep, LockStep, OnTimeStep DEF TokenInvariant
<1> QED
  BY <1>1, TokenInvariantInit, PTL DEF ClientSpec

\* The variables of client and breaker keep their types.
THEOREM ClientTypeCorrect == ClientSpec => []ClientTypeOK
<1>1. TypeOK /\ TokenInvariant => ClientTypeOK
  BY DEF ClientTypeOK, TokenInvariant, CallsTyped, TokenTyped, FlagsTyped
<1> QED
  BY <1>1, BreakerTypeCorrect, BreakerImplemented, TokenInvariantAlways, PTL

\* One call refreshes at a time, and only while the token is not usable
\* (client.py:171-180).
THEOREM OneRefresherCorrect == ClientSpec => []OneRefresher
<1>1. ASSUME TokenInvariant PROVE OneRefresher
  <2> DEFINE F == {c \in Calls : pc[c] = "fetch"}
  <2>1. CASE F = {}
    <3>1. Cardinality(F) = 0
      BY <2>1, FS_EmptySet
    <3> QED
      BY <2>1, <3>1 DEF OneRefresher, Locked
  <2>2. CASE F # {}
    <3>1. PICK c \in F : TRUE
      BY <2>2
    <3>2. F = {c}
      BY <1>1, <3>1 DEF TokenInvariant, OneFetch
    <3>3. Cardinality(F) = 1
      BY <3>2, FS_Singleton
    <3>4. Stale
      BY <1>1, <3>1 DEF TokenInvariant, FetchWhenStale
    <3> QED
      BY <3>3, <3>4 DEF OneRefresher
  <2> QED
    BY <2>1, <2>2
<1> QED
  BY <1>1, TokenInvariantAlways, PTL

\* No request is on its way with an expired token, whatever the lifetime, as long as
\* the margin covers both delays (client.py:152, 169, 174).
THEOREM TokenAccepted == ClientSpec => []TokenAcceptedOnArrival
<1>1. ASSUME TokenInvariant PROVE TokenAcceptedOnArrival
  <2> SUFFICES ASSUME NEW c \in Calls, pc[c] = "send"
               PROVE  carried[c] < Lifetime
    BY DEF TokenAcceptedOnArrival
  <2>1. carried[c] \in Nat /\ delay[c] \in Nat /\ delay[c] <= SendDelay
        /\ carried[c] + SendDelay < Lifetime + delay[c]
    BY <1>1, Delays DEF TokenInvariant, CallsTyped, OnTime
  <2> QED
    BY <2>1, Delays
<1> QED
  BY <1>1, TokenInvariantAlways, PTL

=============================================================================
