------------------------------ MODULE ICMClient ------------------------------
(***************************************************************************)
(* One ICMClient object of one worker process (app/services/icm/client.py): *)
(* concurrent calls share its circuit breaker, its cached OAuth2 token and  *)
(* the lock under which the token is refreshed; each call makes up to       *)
(* MaxAttempts attempts, and every attempt gets a token and then sends its  *)
(* request.  _get, _post, _put, _delete and _get_bytes differ in what they  *)
(* do with the body only.                                                   *)
(*                                                                          *)
(* Siebel and its OAuth2 endpoint are external and are up or down together. *)
(* Time is in ticks: how old Siebel takes the cached token to be, how much  *)
(* longer the client will use it, and how long a message has been on its    *)
(* way.  The httpx timeouts bound the last: FetchDelay is the reading of    *)
(* the token response, SendDelay the pool, connect and write timeouts of a  *)
(* request (client.py:152), and Margin the 60 s of client.py:169.           *)
(***************************************************************************)
EXTENDS CircuitBreaker

CONSTANTS MaxAttempts,                    \* stop_after_attempt
          Lifetime,                       \* expires_in, in ticks
          Margin, FetchDelay, SendDelay

ASSUME AttemptsAssumption == MaxAttempts \in Nat \ {0}
ASSUME DelaysAssumption ==
    /\ {Lifetime, Margin, FetchDelay, SendDelay} \subseteq Nat
    /\ FetchDelay + SendDelay <= Margin
    /\ FetchDelay + SendDelay < Lifetime

VARIABLES pc,         \* where each call is
          attempt,    \* the attempt each running call is making
          delay,      \* ticks the current fetch or send has taken
          carried,    \* age of the token in a request on its way
          hasToken,   \* self._token is not None
          tokenAge,   \* age of the cached token as Siebel counts it, up to Lifetime
          tokenLeft,  \* self._token_expiry - time.monotonic(), down to 0
          revoked     \* Siebel no longer accepts the cached token

breaker == <<state, failures, openedFor, probeInFlight, role, reply, probedFor, outcome>>
token == <<hasToken, tokenAge, tokenLeft, revoked>>
clientVars == <<breaker, siebel, pc, attempt, delay, carried, token>>

\* "token": in _ensure_token, before the lock; "fetch": in _fetch_token, with the
\* lock; "send": the request is on its way; "await", "refused": it has arrived, and
\* Siebel took its token or did not; "answered": the answer is on its way back;
\* "raised": the call has left _call with an error.
Places == {"idle", "token", "fetch", "send", "await", "refused", "answered", "raised"}

ClientTypeOK ==
    /\ TypeOK
    /\ pc \in [Calls -> Places]
    /\ attempt \in [Calls -> 1..MaxAttempts]
    /\ delay \in [Calls -> 0..(FetchDelay + SendDelay)]
    /\ carried \in [Calls -> 0..Lifetime]
    /\ hasToken \in BOOLEAN
    /\ tokenAge \in 0..Lifetime
    /\ tokenLeft \in 0..Lifetime
    /\ revoked \in BOOLEAN

ClientInit ==
    /\ Init
    /\ pc = [c \in Calls |-> "idle"]
    /\ attempt = [c \in Calls |-> 1]
    /\ delay = [c \in Calls |-> 0]
    /\ carried = [c \in Calls |-> 0]
    /\ hasToken = FALSE
    /\ tokenAge = 0
    /\ tokenLeft = 0
    /\ revoked = FALSE

-----------------------------------------------------------------------------
(* The token *)

\* Mutant: the check of _ensure_token is made without the lock.
NeverLocked == FALSE

Locked == \E c \in Calls : pc[c] = "fetch"

\* Mutant: a token once fetched is never refreshed.
NeverRefreshed == ~hasToken

Stale == ~hasToken \/ tokenLeft = 0

\* Mutant: the token is used until Siebel's own expiry.
WholeLifetime == Lifetime

\* Mutant: the margin is added to the lifetime.
MarginAdded == Lifetime + Margin

\* _token_expiry = now + expires_in - 60, as time left.
UsableLifetime == IF Lifetime > Margin THEN Lifetime - Margin ELSE 0

Send(c, age) ==
    /\ pc' = [pc EXCEPT ![c] = "send"]
    /\ carried' = [carried EXCEPT ![c] = age]
    /\ delay' = [delay EXCEPT ![c] = 0]

UseCachedToken(c) ==
    /\ pc[c] = "token" /\ ~Locked /\ ~Stale
    /\ Send(c, tokenAge)
    /\ UNCHANGED <<breaker, siebel, attempt, token>>

BeginFetch(c) ==
    /\ pc[c] = "token" /\ ~Locked /\ Stale
    /\ pc' = [pc EXCEPT ![c] = "fetch"]
    /\ delay' = [delay EXCEPT ![c] = 0]
    /\ UNCHANGED <<breaker, siebel, attempt, carried, token>>

\* The new token is as old as its response was long under way.
FetchSucceeds(c) ==
    /\ pc[c] = "fetch" /\ siebel = "up"
    /\ hasToken' = TRUE
    /\ tokenAge' = delay[c]
    /\ tokenLeft' = UsableLifetime
    /\ revoked' = FALSE
    /\ Send(c, delay[c])
    /\ UNCHANGED <<breaker, siebel, attempt>>

-----------------------------------------------------------------------------
(* Calls and their attempts *)

\* Start leaves siebel alone; the refusal of a call is Refuse.
Begin(c) ==
    /\ Start(c)
    /\ pc' = [pc EXCEPT ![c] = "token"]
    /\ attempt' = [attempt EXCEPT ![c] = 1]
    /\ UNCHANGED <<delay, carried, token>>

Refused(c) ==
    /\ Refuse(c)
    /\ UNCHANGED <<pc, attempt, delay, carried, token>>

Arrive(c) ==
    /\ pc[c] = "send"
    /\ pc' = [pc EXCEPT ![c] = IF revoked \/ carried[c] >= Lifetime
                                 THEN "refused" ELSE "await"]
    /\ carried' = [carried EXCEPT ![c] = 0]
    /\ delay' = [delay EXCEPT ![c] = 0]
    /\ UNCHANGED <<breaker, siebel, attempt, token>>

\* A refused token gets a 4xx; like any other it is mapped, raised and not retried.
RequestAnswered(c) ==
    /\ pc[c] \in {"await", "refused"}
    /\ Answered(c)
    /\ pc[c] = "refused" => reply'[c] = "rejected"
    /\ pc' = [pc EXCEPT ![c] = "answered"]
    /\ UNCHANGED <<attempt, delay, carried, token>>

\* The call leaves _call with an error, a fetch gives the lock back.
Raise(c) ==
    /\ pc' = [pc EXCEPT ![c] = "raised"]
    /\ delay' = [delay EXCEPT ![c] = 0]
    /\ carried' = [carried EXCEPT ![c] = 0]
    /\ UNCHANGED <<attempt, token>>

\* The token endpoint refuses the credentials: a 4xx there ends the call as well.
FetchDenied(c) ==
    /\ pc[c] = "fetch"
    /\ Answered(c) /\ reply'[c] = "rejected"
    /\ Raise(c)

\* Mutant: the attempts are never exhausted.
AlwaysAgain(c) == TRUE

Again(c) == attempt[c] < MaxAttempts

\* A 5xx, a connect error or a timeout of the fetch or of the request: tenacity
\* tries again, from _ensure_token on; the last attempt's error is re-raised.
AttemptErrs(c) ==
    /\ pc[c] \in {"fetch", "send", "await", "refused", "answered"}
    /\ Errs(c)
    /\ \/ /\ Again(c)
          /\ reply'[c] = "none"
          /\ attempt' = [attempt EXCEPT ![c] = UpTo(MaxAttempts, @ + 1)]
          /\ pc' = [pc EXCEPT ![c] = "token"]
          /\ delay' = [delay EXCEPT ![c] = 0]
          /\ carried' = [carried EXCEPT ![c] = 0]
          /\ UNCHANGED token
       \/ /\ ~Again(c)
          /\ reply'[c] = "infra"
          /\ Raise(c)

End(c) ==
    /\ pc' = [pc EXCEPT ![c] = "idle"]
    /\ attempt' = [attempt EXCEPT ![c] = 1]
    /\ UNCHANGED <<delay, carried, token>>

\* Mutant: an error that is not an outage is not reported to the breaker.
RecordUnlessRejected(c) ==
    /\ pc[c] \in {"answered", "raised"}
    /\ IF reply[c] = "rejected"
         THEN Ended(c) /\ UNCHANGED <<state, failures, openedFor, probeInFlight>>
         ELSE Finish(c)
    /\ End(c)

\* The answer arrives or the error leaves _call; the breaker records it and the
\* caller gets it.
Record(c) ==
    /\ pc[c] \in {"answered", "raised"}
    /\ Finish(c)
    /\ End(c)

-----------------------------------------------------------------------------
(* Time and the world *)

Late(c) ==
    \/ pc[c] = "fetch" /\ delay[c] = FetchDelay
    \/ pc[c] = "send" /\ delay[c] = SendDelay

ClientTick ==
    /\ ~\E c \in Calls : Late(c)
    /\ openedFor' = UpTo(ResetTimeout, openedFor + 1)
    /\ probedFor' = UpTo(ResetTimeout, probedFor + 1)
    /\ delay' = [c \in Calls |-> IF pc[c] \in {"fetch", "send"} THEN delay[c] + 1 ELSE 0]
    /\ carried' = [c \in Calls |-> IF pc[c] = "send" THEN UpTo(Lifetime, carried[c] + 1)
                                                    ELSE 0]
    /\ tokenAge' = IF hasToken THEN UpTo(Lifetime, tokenAge + 1) ELSE 0
    /\ tokenLeft' = IF tokenLeft > 0 THEN tokenLeft - 1 ELSE 0
    /\ UNCHANGED <<state, failures, probeInFlight, role, reply, siebel, outcome,
                   pc, attempt, hasToken, revoked>>

ClientSiebelChanges ==
    /\ SiebelChanges
    /\ UNCHANGED <<pc, attempt, delay, carried, token>>

Revoke ==
    /\ hasToken /\ ~revoked
    /\ revoked' = TRUE
    /\ UNCHANGED <<breaker, siebel, pc, attempt, delay, carried, hasToken, tokenAge, tokenLeft>>

TakeToken(c) == UseCachedToken(c) \/ BeginFetch(c)

Answer(c) ==
    \/ FetchSucceeds(c) \/ FetchDenied(c) \/ Arrive(c)
    \/ RequestAnswered(c) \/ AttemptErrs(c) \/ Record(c)

ClientNext ==
    \/ \E c \in Calls : Begin(c) \/ Refused(c) \/ TakeToken(c) \/ Answer(c)
    \/ ClientTick \/ ClientSiebelChanges \/ Revoke

ClientSpec == ClientInit /\ [][ClientNext]_clientVars

\* asyncio.Lock wakes its waiters in order, so one that is passed over time and
\* again while the lock is released is reached; every httpx operation times out.
LockIsFair == \A c \in Calls : SF_clientVars(TakeToken(c))
NetworkAnswers == \A c \in Calls : WF_clientVars(Answer(c))
ClientTimePasses == WF_clientVars(ClientTick)
ClientTraffic == WF_clientVars(\E c \in Calls : Begin(c))

ClientFairSpec == ClientSpec /\ LockIsFair /\ NetworkAnswers /\ ClientTimePasses /\ ClientTraffic

-----------------------------------------------------------------------------
(* Properties *)

\* The lock prevents a thundering herd (docs/reference/siebel-integration.md:179):
\* one caller refreshes at a time, and only while the cached token is not usable,
\* so those that waited for a refresh use its token (client.py:171-180).
OneRefresher ==
    /\ Cardinality({c \in Calls : pc[c] = "fetch"}) <= 1
    /\ Locked => Stale

\* The 60 s taken off expires_in cover the response that was read late and the
\* request that is sent late: no request arrives with an expired token, unless
\* Siebel itself revoked it (client.py:152, 169, 174).
TokenAcceptedOnArrival == \A c \in Calls : pc[c] = "send" => carried[c] < Lifetime

\* Every admitted call ends, through retries, the queue at the token lock and
\* refreshes that fail (client.py:186-220).
CallsEnd == \A c \in Calls : pc[c] # "idle" ~> pc[c] = "idle"

\* A 401 triggers no refresh, but a revoked token is replaced all the same once its
\* usable lifetime is over, if Siebel stays up and its token endpoint does not go on
\* refusing (client.py:174, 200-216).
RevokedReplaced ==
    <>[](siebel = "up") /\ <>[][~\E c \in Calls : FetchDenied(c)]_clientVars
        => (revoked ~> ~revoked)

\* The calls of this client drive the breaker as CircuitBreaker says, and they
\* justify the fairness assumed there: every admitted call ends and is recorded.
ImplementsBreaker == Spec /\ CallsFinish

=============================================================================
