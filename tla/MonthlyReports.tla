--------------------------- MODULE MonthlyReports ---------------------------
(***************************************************************************)
(* Submitting a monthly report (app/domains/monthly_reports/service.py):    *)
(* the reporting period of a case is read through a Redis cache that both   *)
(* GET /current-period and the submission fill, the submission is refused   *)
(* once the period has closed, and then two PIN calls and the POST follow.  *)
(*                                                                          *)
(* Siebel is external: after a period has closed it moves, sooner or later, *)
(* to the next one.  A Redis command takes no time, a Siebel call with its  *)
(* retries at most CallTime ticks; Siebel makes up its answer anywhere in   *)
(* between.  Cases share nothing, so there is one.  The other endpoints     *)
(* hand a call through to Siebel and keep nothing.                          *)
(***************************************************************************)
EXTENDS Naturals

CONSTANTS Requests,      \* HTTP requests in progress at a time
          PeriodLength,  \* ticks from one closing date to the next
          CacheTtl,      \* ICM_CHEQUE_SCHEDULE_TTL
          CallTime,      \* the longest a Siebel call takes
          MaxTime        \* bound on the time

ASSUME TimesAssumption == {PeriodLength, CacheTtl, CallTime} \subseteq Nat \ {0}
ASSUME MaxTimeAssumption == MaxTime \in Nat

VARIABLES now,
          current,   \* the period Siebel reports
          rolledAt,  \* history: when it moved to that period
          cache,     \* the period under the case's key, 0 for no key
          ttl,       \* Redis's time to live of the key
          pc,        \* where each request is
          submits,   \* the requests that submit a report
          window,    \* the period each request has read, 0 before
          waited,    \* ticks its current call has taken
          answer     \* how its last submission ended

siebel == <<current, rolledAt>>
redis == <<cache, ttl>>
request == <<pc, submits, window, waited, answer>>
vars == <<now, siebel, redis, request>>

Periods == 1..(MaxTime + 1)

\* "fetch": asking Siebel for the period; "store": about to cache its answer.
Places == {"idle", "fetch", "store", "pin", "spouse", "submit"}

TypeOK ==
    /\ now \in 0..MaxTime
    /\ current \in Periods
    /\ rolledAt \in 0..MaxTime
    /\ cache \in Periods \cup {0}
    /\ ttl \in 0..CacheTtl
    /\ pc \in [Requests -> Places]
    /\ submits \subseteq Requests
    /\ window \in [Requests -> Periods \cup {0}]
    /\ waited \in [Requests -> 0..CallTime]
    /\ answer \in [Requests -> {"none", "closed", "pin", "sent", "error"}]

Init ==
    /\ now = 0
    /\ current = 1 /\ rolledAt = 0
    /\ cache = 0 /\ ttl = 0
    /\ pc = [r \in Requests |-> "idle"]
    /\ submits = {}
    /\ window = [r \in Requests |-> 0]
    /\ waited = [r \in Requests |-> 0]
    /\ answer = [r \in Requests |-> "none"]

-----------------------------------------------------------------------------
(* The period *)

\* period_close_date.
Close(p) == p * PeriodLength

\* Mutant: a period is taken to be open for as long as it is cached.
NeverClosed(p) == FALSE

Closed(p) == now > Close(p)

Goto(r, place) ==
    /\ pc' = [pc EXCEPT ![r] = place]
    /\ waited' = [waited EXCEPT ![r] = 0]

End(r, how) ==
    /\ Goto(r, "idle")
    /\ submits' = submits \ {r}
    /\ window' = [window EXCEPT ![r] = 0]
    /\ answer' = [answer EXCEPT ![r] = how]

\* What follows get_current_period at once: a submission checks the period,
\* the other endpoint answers with it.
Proceed(r, p, submitting) ==
    IF submitting /\ ~Closed(p)
    THEN /\ Goto(r, "pin")
         /\ submits' = submits \cup {r}
         /\ window' = [window EXCEPT ![r] = p]
         /\ UNCHANGED answer
    ELSE End(r, IF submitting THEN "closed" ELSE "none")

-----------------------------------------------------------------------------
(* get_current_period *)

Cached == cache # 0

Fetch(r, submitting) ==
    /\ Goto(r, "fetch")
    /\ submits' = IF submitting THEN submits \cup {r} ELSE submits
    /\ answer' = [answer EXCEPT ![r] = "none"]
    /\ UNCHANGED window

\* Mutant: a hit renews the key.
BeginRenewing(r, submitting) ==
    /\ pc[r] = "idle"
    /\ IF Cached
       THEN Proceed(r, cache, submitting) /\ ttl' = CacheTtl
       ELSE Fetch(r, submitting) /\ UNCHANGED ttl
    /\ UNCHANGED <<now, siebel, cache>>

\* A hit goes on without an await that another request could use.
Begin(r, submitting) ==
    /\ pc[r] = "idle"
    /\ IF Cached THEN Proceed(r, cache, submitting) ELSE Fetch(r, submitting)
    /\ UNCHANGED <<now, siebel, redis>>

\* Siebel makes up its answer, which is then on its way.
SiebelAnswers(r) ==
    /\ pc[r] = "fetch"
    /\ pc' = [pc EXCEPT ![r] = "store"]
    /\ window' = [window EXCEPT ![r] = current]
    /\ UNCHANGED <<now, siebel, redis, submits, waited, answer>>

\* Mutant: the key is set without a time to live that fits it.
StoreTooLong(r) ==
    /\ pc[r] = "store"
    /\ cache' = window[r]
    /\ ttl' = CacheTtl + 1
    /\ Proceed(r, window[r], r \in submits)
    /\ UNCHANGED <<now, siebel>>

\* The answer arrives and SETEX overwrites what another request has stored.
Store(r) ==
    /\ pc[r] = "store"
    /\ cache' = window[r]
    /\ ttl' = CacheTtl
    /\ Proceed(r, window[r], r \in submits)
    /\ UNCHANGED <<now, siebel>>

-----------------------------------------------------------------------------
(* The rest of submit_report *)

\* validate_or_raise; the spouse's PIN is optional.
PinChecked(r) ==
    /\ pc[r] = "pin"
    /\ \/ /\ \E next \in {"spouse", "submit"} : Goto(r, next)
          /\ UNCHANGED <<submits, window, answer>>
       \/ End(r, "pin")
    /\ UNCHANGED <<now, siebel, redis>>

SpousePinChecked(r) ==
    /\ pc[r] = "spouse"
    /\ \/ Goto(r, "submit") /\ UNCHANGED <<submits, window, answer>>
       \/ End(r, "pin")
    /\ UNCHANGED <<now, siebel, redis>>

Submitted(r) ==
    /\ pc[r] = "submit"
    /\ End(r, "sent")
    /\ UNCHANGED <<now, siebel, redis>>

\* A call of Siebel or Redis fails, or the process dies.
Fails(r) ==
    /\ pc[r] # "idle"
    /\ End(r, "error")
    /\ UNCHANGED <<now, siebel, redis>>

-----------------------------------------------------------------------------
(* Siebel and the time *)

\* Siebel moves to the next period, some time after the close.
Roll ==
    /\ now > Close(current)
    /\ current' = current + 1
    /\ rolledAt' = now
    /\ UNCHANGED <<now, redis, request>>

Busy == {r \in Requests : pc[r] # "idle"}

Tick ==
    /\ now < MaxTime
    /\ \A r \in Busy : waited[r] < CallTime
    /\ now' = now + 1
    /\ waited' = [r \in Requests |-> IF r \in Busy THEN waited[r] + 1 ELSE 0]
    /\ ttl' = IF ttl > 0 THEN ttl - 1 ELSE 0
    /\ cache' = IF ttl > 1 THEN cache ELSE 0
    /\ UNCHANGED <<siebel, pc, submits, window, answer>>

Next ==
    \/ \E r \in Requests :
          \/ \E submitting \in BOOLEAN : Begin(r, submitting)
          \/ SiebelAnswers(r) \/ Store(r)
          \/ PinChecked(r) \/ SpousePinChecked(r) \/ Submitted(r) \/ Fails(r)
    \/ Roll \/ Tick

Spec == Init /\ [][Next]_vars

-----------------------------------------------------------------------------
(* Properties *)

\* A report is refused only if the period Siebel reports is closed, or Siebel
\* has moved on within the last CacheTtl + CallTime: neither hits of the cache
\* nor a late answer that overwrites a newer one keep a closed period any longer.
\* (A second refusal in a row is one that is also possible as the first.)
RefusedOnlyBriefly ==
    [][\A r \in Requests :
          answer[r] # "closed" /\ answer'[r] = "closed"
          => Closed(current) \/ now - rolledAt <= CacheTtl + CallTime]_vars

\* What is left in the cache from an earlier period is on its way out: the time
\* since Siebel moved on and the time the key has left stay within one bound.
StaleKeyExpires ==
    Cached /\ cache # current => now - rolledAt + ttl <= CacheTtl + CallTime

\* The report is on its way to Siebel no later than three calls after the
\* closing date it was checked against (two PIN calls and the POST itself).
SentSoonAfterClose ==
    \A r \in Requests :
       pc[r] = "submit" => now <= Close(window[r]) + 3 * CallTime
=============================================================================
