--------------------------- MODULE CircuitBreaker ---------------------------
(***************************************************************************)
(* _AsyncCircuitBreaker (app/services/icm/client.py): the breaker through   *)
(* which every call of one ICM client object of one worker process goes.    *)
(* Both critical sections of call_async hold self._lock and await nothing,  *)
(* so each is one action: the admission of a call, and the recording of its *)
(* result.  The call itself runs between the two, concurrently with others. *)
(*                                                                          *)
(* A call is answered before its result is recorded: reply holds what it    *)
(* ends with, and Siebel may go down or come back before the recording.     *)
(*                                                                          *)
(* Time is counted in ticks since the last opening; the count stops at      *)
(* ResetTimeout, the only value the code compares it with.  The failure     *)
(* count stops at FailMax for the same reason.  role, probedFor and outcome *)
(* are history: the code keeps no trace of how a call was admitted, when    *)
(* the last probe started or how the last call ended.  siebel is the world. *)
(***************************************************************************)
EXTENDS Naturals, FiniteSets

CONSTANTS Calls,         \* concurrent callers of the client
          FailMax,       \* fail_max: failures that open the circuit
          ResetTimeout   \* reset_timeout, in ticks

ASSUME FailMaxAssumption == FailMax \in Nat \ {0}
ASSUME ResetTimeoutAssumption == ResetTimeout \in Nat

VARIABLES state,          \* self._state
          failures,       \* self._failures, up to FailMax
          openedFor,      \* time.monotonic() - self._opened_at, up to ResetTimeout
          probeInFlight,  \* self._probe_in_flight
          role,           \* how each call was admitted, "idle" when it is not running
          reply,          \* what each running call will end with, "none" as long as it is open
          probedFor,      \* ticks since a probe was last admitted, up to ResetTimeout
          siebel,         \* whether Siebel answers at all
          outcome         \* how the last finished call ended

breakerVars == <<state, failures, openedFor, probeInFlight>>
vars == <<state, failures, openedFor, probeInFlight, role, reply, probedFor, siebel, outcome>>

States == {"CLOSED", "OPEN", "HALF_OPEN"}
Roles == {"idle", "normal", "probe"}

\* "infra" is a 5xx, a connect error or a timeout, which are tried again; "rejected"
\* is any other exception: a typed ICMError (4xx), or a success whose body is no JSON.
Outcomes == {"ok", "rejected", "infra"}

\* Mutant: the count runs one past its bound.
UpToAndOver(bound, n) == IF n <= bound THEN n ELSE bound + 1

UpTo(bound, n) == IF n < bound THEN n ELSE bound

TypeOK ==
    /\ state \in States
    /\ failures \in 0..FailMax
    /\ openedFor \in 0..ResetTimeout
    /\ probeInFlight \in BOOLEAN
    /\ role \in [Calls -> Roles]
    /\ reply \in [Calls -> Outcomes \cup {"none"}]
    /\ probedFor \in 0..ResetTimeout
    /\ siebel \in {"up", "down"}
    /\ outcome \in Outcomes

Init ==
    /\ state = "CLOSED"
    /\ failures = 0
    /\ openedFor = ResetTimeout     \* _opened_at is None, read as 0
    /\ probeInFlight = FALSE
    /\ role = [c \in Calls |-> "idle"]
    /\ reply = [c \in Calls |-> "none"]
    /\ probedFor = ResetTimeout
    /\ siebel = "up"
    /\ outcome = "ok"

-----------------------------------------------------------------------------
(* _is_open and the admission of a call *)

Elapsed == openedFor >= ResetTimeout

IsOpen == state = "OPEN" /\ ~Elapsed

\* _is_open's side effect: an open circuit whose timeout has elapsed is half open.
StateWhenAsked == IF state = "OPEN" /\ Elapsed THEN "HALF_OPEN" ELSE state

AdmitNormal(c) ==
    /\ role[c] = "idle"
    /\ state = "CLOSED"
    /\ role' = [role EXCEPT ![c] = "normal"]
    /\ UNCHANGED <<state, failures, openedFor, probeInFlight, reply, probedFor, siebel, outcome>>

AdmitProbe(c) ==
    /\ role[c] = "idle"
    /\ StateWhenAsked = "HALF_OPEN"
    /\ ~probeInFlight
    /\ state' = "HALF_OPEN"
    /\ probeInFlight' = TRUE
    /\ role' = [role EXCEPT ![c] = "probe"]
    /\ probedFor' = 0
    /\ UNCHANGED <<failures, openedFor, reply, siebel, outcome>>

\* The caller gets ICMServiceUnavailableError at once.
Refuse(c) ==
    /\ role[c] = "idle"
    /\ IsOpen \/ (StateWhenAsked = "HALF_OPEN" /\ probeInFlight)
    /\ state' = StateWhenAsked
    /\ UNCHANGED <<failures, openedFor, probeInFlight, role, reply, probedFor, siebel, outcome>>

-----------------------------------------------------------------------------
(* The call itself: what the breaker awaits *)

\* Siebel answers; the answer is on its way.
Answered(c) ==
    /\ role[c] # "idle" /\ reply[c] = "none"
    /\ siebel = "up"
    /\ \E r \in {"ok", "rejected"} : reply' = [reply EXCEPT ![c] = r]
    /\ UNCHANGED <<state, failures, openedFor, probeInFlight, role, probedFor, siebel, outcome>>

\* No answer comes, or the one on its way is lost: the call tries again or gives up.
Errs(c) ==
    /\ role[c] # "idle" /\ reply[c] # "infra"
    /\ siebel = "down"
    /\ \E r \in {"none", "infra"} : reply' = [reply EXCEPT ![c] = r]
    /\ UNCHANGED <<state, failures, openedFor, probeInFlight, role, probedFor, siebel, outcome>>

-----------------------------------------------------------------------------
(* The recording of a result *)

Ended(c) ==
    /\ role' = [role EXCEPT ![c] = "idle"]
    /\ reply' = [reply EXCEPT ![c] = "none"]
    /\ outcome' = reply[c]
    /\ UNCHANGED <<probedFor, siebel>>

RecordSuccess ==
    /\ failures' = 0
    /\ state' = "CLOSED"
    /\ probeInFlight' = FALSE
    /\ UNCHANGED openedFor

\* Mutant: a failed probe leaves its flag set.
FailKeepingFlag ==
    /\ failures' = UpTo(FailMax, failures + 1)
    /\ UNCHANGED probeInFlight
    /\ IF state = "HALF_OPEN" \/ failures + 1 >= FailMax
         THEN state' = "OPEN" /\ openedFor' = 0
         ELSE UNCHANGED <<state, openedFor>>

\* Mutant: a failed probe re-opens the circuit without restarting the timeout.
FailKeepingClock ==
    /\ failures' = UpTo(FailMax, failures + 1)
    /\ probeInFlight' = IF state = "HALF_OPEN" THEN FALSE ELSE probeInFlight
    /\ IF state = "HALF_OPEN"
         THEN state' = "OPEN" /\ UNCHANGED openedFor
         ELSE IF failures + 1 >= FailMax
           THEN state' = "OPEN" /\ openedFor' = 0
           ELSE UNCHANGED <<state, openedFor>>

\* Mutant: a failed probe closes the circuit, as if only the count mattered.
FailClosingProbe ==
    /\ failures' = UpTo(FailMax, failures + 1)
    /\ UNCHANGED openedFor
    /\ IF state = "HALF_OPEN"
         THEN state' = "CLOSED" /\ probeInFlight' = FALSE
         ELSE /\ UNCHANGED probeInFlight
              /\ state' = IF failures + 1 >= FailMax THEN "OPEN" ELSE state

RecordFailure ==
    /\ failures' = UpTo(FailMax, failures + 1)
    /\ IF state = "HALF_OPEN"
         THEN state' = "OPEN" /\ openedFor' = 0 /\ probeInFlight' = FALSE
         ELSE /\ UNCHANGED probeInFlight
              /\ IF failures + 1 >= FailMax
                   THEN state' = "OPEN" /\ openedFor' = 0
                   ELSE UNCHANGED <<state, openedFor>>

\* The result is recorded when the caller gets it, whatever became of Siebel since.
Succeed(c) ==
    /\ reply[c] = "ok"
    /\ RecordSuccess
    /\ Ended(c)

\* `except Exception`: a typed 4xx answer counts like an outage.
Fail(c) ==
    /\ reply[c] \in {"rejected", "infra"}
    /\ RecordFailure
    /\ Ended(c)

Finish(c) == Succeed(c) \/ Fail(c)

-----------------------------------------------------------------------------
(* Time and the world *)

Tick ==
    /\ openedFor < ResetTimeout \/ probedFor < ResetTimeout
    /\ openedFor' = UpTo(ResetTimeout, openedFor + 1)
    /\ probedFor' = UpTo(ResetTimeout, probedFor + 1)
    /\ UNCHANGED <<state, failures, probeInFlight, role, reply, siebel, outcome>>

SiebelChanges ==
    /\ siebel' = IF siebel = "up" THEN "down" ELSE "up"
    /\ UNCHANGED <<state, failures, openedFor, probeInFlight, role, reply, probedFor, outcome>>

Start(c) == AdmitNormal(c) \/ AdmitProbe(c)

Next ==
    \/ \E c \in Calls : Start(c) \/ Refuse(c) \/ Answered(c) \/ Errs(c) \/ Finish(c)
    \/ Tick
    \/ SiebelChanges

Spec == Init /\ [][Next]_vars

\* The httpx timeouts and the three attempts bound every call, and the clock runs.
CallsFinish == \A c \in Calls : WF_vars(Answered(c) \/ Errs(c) \/ Finish(c))
TimePasses == WF_vars(Tick)

\* The portal is in use: while a call would be admitted, some request makes one.
Traffic == WF_vars(\E c \in Calls : Start(c))

FairSpec == Spec /\ CallsFinish /\ TimePasses /\ Traffic

-----------------------------------------------------------------------------
(* Properties *)

\* While the circuit is half open its flag is up and the probe it waits for is
\* still running, so the breaker never refuses calls for the sake of a probe that
\* has ended, whatever stragglers report in the meantime (client.py:66-73, 80-95).
HalfOpenAwaitsProbe ==
    /\ probeInFlight <=> state = "HALF_OPEN"
    /\ state = "HALF_OPEN" => \E c \in Calls : role[c] = "probe"

\* A closed circuit has room for a failure: however it was closed, by a probe or
\* by a straggler's success, the count was reset with it (client.py:92-95).
ClosedBelowThreshold == state = "CLOSED" => failures < FailMax

\* Siebel is probed at most once per reset_timeout, through every way of opening
\* and closing in between: each opening restarts the timeout (client.py:82-87).
ProbesSpaced ==
    [][\A c \in Calls : role[c] = "idle" /\ role'[c] = "probe"
           => probedFor >= ResetTimeout]_vars

\* Auto-recovery (docs/ops/runbooks/troubleshooting.md:127): once Siebel stays up
\* and rejects nothing, the circuit closes for good without intervention.
Recovers ==
    <>[](siebel = "up" /\ outcome # "rejected") => <>[](state = "CLOSED")

\* The good answers on their way, or not yet recorded.
Served == {c \in Calls : reply[c] = "ok"}

\* A success is recorded however late its answer is, and closes the circuit even when
\* Siebel is down by then; but in an outage no good answer arises, and each closing
\* uses up one from before it (client.py:75, 90-95).
OutageClosings ==
    [][siebel = "down" =>
         /\ Served' \subseteq Served
         /\ state # "CLOSED" /\ state' = "CLOSED" => Served' # Served]_vars

\* Protection: in a lasting outage the circuit opens, and once the good answers from
\* before it are used up it is not closed again.
OutageOpens == <>[](siebel = "down") => <>[](state # "CLOSED")

\* What docs/reference/siebel-integration.md:77 and the comment at client.py:67
\* say of HALF_OPEN, "only one probe at a time", of the probes actually running.
OneProbeAtATime == Cardinality({c \in Calls : role[c] = "probe"}) <= 1

=============================================================================
