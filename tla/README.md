# MySelfServe API: models and proofs

TLA+ models of the BC Income Assistance self-service API (`app/`), TLC runs over
small instances of them, and TLAPS proofs for every instance. Line numbers refer to
the repository at the commit these modules were written for.

## The system

The API is a FastAPI application served by `uvicorn --workers 2` in two replicas.
Within a process, handlers are coroutines of one event loop and interleave at every
`await`; between processes only three things are shared: PostgreSQL, Redis and
Siebel ICM, the case management system behind a REST interface. Almost every
endpoint is a handful of database, Redis or Siebel calls in a row with nothing that
ties them together, so the correctness of the program is that of the orders these
calls can take when handlers overlap, time out, are repeated or die.

| Component | State | Operations | What makes it correct |
|---|---|---|---|
| Circuit breaker (`services/icm/client.py:27-96`) | state, failure count, opening time, probe flag; one per client object and process | admit or refuse a call, record its result | half open always awaits a running probe; closed means below the threshold; probes are spaced; it recovers, and it protects |
| ICM client (`client.py:114-263`) | cached token and expiry, token lock | token refresh, request with up to 3 attempts, breaker around it | one refresh at a time, no expired token sent, every call ends and is recorded once |
| Service requests (`domains/service_requests`) | `sr_drafts` rows; requests in Siebel | create, save, submit, withdraw | a draft is not lost before Siebel has its request; Siebel gets only saved answers |
| Registration wizard (`domains/registration`) | one `registration_sessions` row each | start, personal info, invite task, verify, PIN | invites are single-use and replaced, steps only advance, the PIN comes after a verification |
| Worker sessions (`dependencies/session_store.py`, `routers/admin`) | Redis keys with a time to live; `expires_at` inside | create, use, AO step, expire, end | lifetime is absolute, an ended view stays ended, steps regress only by an overlap |
| Monthly reports (`domains/monthly_reports`) | reporting period cached in Redis for an hour | start, save, submit, restart | a report goes out at most three calls after the closing date it was checked against, in spite of the cache; the code does not keep it from going out after the date |
| PIN (`domains/account/pin_service.py`) | none (Siebel) | validate, change, reset | no PIN changes without the current one or an unused token |
| Attachments (`domains/attachments`) | `_scan_jobs` of one process | upload, scanner's webhook, submit | only files with a clean verdict reach Siebel, and what a client is told of its copies is true |
| Eligibility (`domains/eligibility`) | rates and limits cached in Redis for 24 h; migration 0003's tables | calculate, invalidate | an estimate uses either the built-in tables, however old, or tables superseded no longer ago than a day and the statements under way, and lies between the old and the new one; no family is worse off for a designation or a dependant as long as the tables rise |
| Registration forms (`registration/validators.py`, `schemas.py`) | none | SIN, PHN, name, PIN, age checks | one wrong digit is noticed, and so are two neighbours swapped but for known exceptions |
| Employment plans, messages, account (`domains/employment_plans`, `notifications`, `account`) | none (Siebel) | one or two Siebel calls in a row | no second call without the first; the answer is true |
| Payments, audit, rate limiter, authentication, e-mail, health | none, or best effort | single calls | stateless |

Interaction: handlers call domain services; services call a domain client, a
subclass of `ICMClient` whose one object per process and class holds token and
breaker; submissions call the PIN service first. Background tasks (the registration
invite, mark-read, login sync) run after the response, in the same process. The
hard behaviours are listed with their lines under `hazards` in `PROJECT.json`.

## Modules

| Module | Models | Notes |
|---|---|---|
| `CircuitBreaker` | `_AsyncCircuitBreaker` | each critical section of `call_async` is one action, the call runs in between |
| `ICMClient` | `ICMClient._call`, `_ensure_token`, `_fetch_token` | extends `CircuitBreaker`: the client's breaker is that breaker, and what both modules have carries the prefix `Client` here (`ClientInit`, `ClientNext`, `ClientTick`, ...) |
| `SRLifecycle` | | the promise of the service request endpoints, in terms of Siebel and the draft row only |
| `ServiceRequests` | the four changing endpoints, the draft repository, lost and late Siebel calls | implements `SRLifecycle` |
| `RegistrationForm` | the validators and the request schemas, as predicates | extended by `Registration` |
| `Registration` | the wizard over one row | its inputs are forms `RegistrationForm` accepts |
| `AdminSessions` | `RedisSessionStore` and its two users, by several workers | |
| `MonthlyReports` | the cached period of a case and `submit_report` with its PIN calls | |
| `ScanGate` | | the promise of the attachment endpoints: verdicts and copies only |
| `Attachments` | upload, webhook, submission and restarts over the jobs of several processes | implements `ScanGate` |
| `EligibilityCalculator` | the calculation and the tables of migration 0003, as operators | extended by `Eligibility` |
| `Eligibility` | the two cached tables, fallback, publication, invalidation | |
| `SiebelSequences` | PIN check, change and reset, account, plans, messages: every endpoint that is a sequence of Siebel calls, with its answer | |
| `ICMClientProofs`, `ServiceRequestsProofs`, `RegistrationProofs`, `AdminSessionsProofs`, `MonthlyReportsProofs`, `AttachmentsProofs`, `EligibilityProofs`, `SiebelSequencesProofs` | | the theorems about the module they extend, `ICMClientProofs` also those about `CircuitBreaker` |
| `MC*` | | callers, requests and values for TLC |

### How state and actions correspond to the code

*CircuitBreaker.* `state`, `failures`, `openedFor`, `probeInFlight` are `_state`,
`_failures`, `monotonic() - _opened_at` and `_probe_in_flight`; the count is cut at
`fail_max` and the clock at `reset_timeout`, since the code compares them with
nothing beyond. `AdmitNormal`, `AdmitProbe` and `Refuse` are the section at
61-73 with `_is_open` inlined, `Succeed` and `Fail` the sections at 78-95. `reply` is what
a call has come to: an answer Siebel gave (`Answered`, while it is up) is recorded when it
arrives, in an outage too, unless it is lost on the way (`Errs`). `role`, `probedFor` and
`outcome` are history: the code forgets how a call was admitted, and takes any failure in
half open for the probe's.

*ICMClient.* A call is at `token` (about to enter the lock), `fetch` (in `_fetch_token`
with the lock), `send` (request on its way), `await` or `refused` (arrived), `answered`
(the answer is on its way back), `raised` (an error leaves `_call`) or `idle`. One
action per await. `Record` is a call's end and the breaker's recording: the recording
takes a lock that nobody holds across an await. Backoff between attempts is time that
passes at `token`. Siebel and its token endpoint are external and fail together.

*ServiceRequests.* `wire` is the current attempt: sent, or Siebel's result. Siebel
carries a call out between the two, or later (`late`), or never; the client sees a
timeout in any of these cases, and sends the POST again up to `MaxAttempts` times. An
answer may also be unreadable (`garbled`: no JSON, or not the response model), which ends
the request as an error although Siebel did as asked. `overtaken` is history: the requests
finalized before their row was inserted.
`SaveDraft` is one statement and its commit. `ReadDraft` takes the answers, decides
about the PDF and posts the finalization, as `service.py:131-141` does without any
other shared state in between. `SR`s stand for their types.

*RegistrationForm.* Text is a sequence of characters of which ten are the digits; the
Luhn sum, the PHN's weighted sum, the lengths, the patterns (with Python's `$`, which
lets a trailing newline through) and the order of the checks are the code's.

*Registration.* Every UPDATE and its commit is one action; between the session check
of a handler and its UPDATE anything may happen, expiry included. The background task
is the `issue` place of the request that started it. Only forms that were accepted
become requests.

*AdminSessions.* Every Redis command is one action. `left` is the time to the
object's `expires_at`, `ttl` Redis's own; they differ because each write sets the
latter anew. `held` is the object a handler has in memory, `by` the worker who makes the
request: a support view's key names its worker, an AO token may be presented by any
worker and the handler compares (`ao.py:47-55`).

*Attachments.* `jobs` has one dictionary for each process; `Restart` empties it and
drops the submissions in progress there. A submission checks its job and starts its
POST in one step, for there is no await in between. `wire`, `late` and `attempt` are as
in `ServiceRequests`. The scanner finds one verdict for each file, and says so as often,
as late and to whichever process it likes. `untold` counts stored copies whose answer was
unreadable and became a 422.

*Eligibility.* `pc` is the statement a request waits for: Redis GET, SELECT, SETEX, for
the incomes and then for the assets. `quoted` is chosen at the start: whether the
database takes the unquoted column name `limit`, which PostgreSQL does not. Versions
number the published tables, 0 is the migration's and -1 the built-in ones, which are the
same. What is published is a parameter (`PublishedRates`, `PublishedLimits`): the code
checks no figure, so the assumption about them is only that they are amounts, as the
columns are. A missing row is a KeyError, a 500 that changes nothing.

*SiebelSequences.* `Script` is the sequence of calls of each endpoint, `step` and
`attempt` where a request is in it, `answer` what the router or the exception handlers
return. An optional last call (mark-read, login sync) does not change the answer.

*MonthlyReports.* `cache` and `ttl` are the key of one case; a submission reads the key
of the user's id and `GET /current-period` that of the case number it is given, so the
requests of the model are those that use one key. Periods are numbered, `Close` their
closing dates, one to each `PeriodLength`. A hit of the cache, the check of the closing
date and the start of the first PIN call are one step; a Redis command takes no time, a
Siebel call at most `CallTime`, and its answer may be overtaken on the way (`store`).
`rolledAt` is history. Start, save, restart and PDF keep nothing and are left out.

## Runs

| Run | Bounds | Shows |
|---|---|---|
| `circuit_breaker` | 3 calls, `FailMax` 2, timeout 2 ticks: 37 176 states | safety under stragglers, whose answers may be recorded late; `OutageClosings`; `Recovers`, `OutageOpens` under fairness |
| `icm_client` | 2 calls, 2 attempts, token of 3 ticks with margin 2, fetch and send of at most 1 tick: 154 036 | token safety, liveness of calls through retries and lock, and `ImplementsBreaker` |
| `service_requests` | 1 service request, 2 HTTP requests at a time, 2 attempts, 2 answers, symmetric: 529 176 | orphans and left-over rows (`DraftsCleared`) and refinement of `SRLifecycle` |
| `registration` | 2 requests, 2 addresses, 3 invites, forms good and bad: 25 189 | invites, verification, PIN; `InviteFollows` under fairness |
| `admin_sessions` | 2 workers, 2 requests, lifetime 2 ticks, steps 1 and 2, symmetric: 198 145 | lifetime, ownership, lost updates |
| `monthly_reports` | 2 requests, 6 ticks per period, keys of 2 ticks, calls of 1, 14 ticks, symmetric: 63 765 | age of cached periods, refusals, late submissions |
| `attachments` | 2 processes, 2 submissions, a clean and an infected file, 2 users, 2 attempts, 2 submissions of each file, symmetric: 219 801 | refinement of `ScanGate`, copies and answers agree |
| `eligibility` | 2 estimates, keys of 2 ticks, statements of 1, 2 publications, symmetric; families around the cap of 7, amounts around a rate and a limit; the first publication has a penalty, the second none: 109 481 | age of the tables, refills after an invalidation, mixed estimates between old and new, no penalty where tables rise |
| `siebel_sequences` | any 2 requests of one client, 2 PINs, 2 attempts, symmetric: 1 243 607 | truth of the answers, the client knows its PIN |
| `probes_overlap`, `finalized_without_pdf`, `pin_for_unverified_email` | as the runs above | counterexamples to what a comment or document says, see below |

Why the bounds are enough: three calls give a probe and two stragglers, of which one
re-opens and one closes the circuit; two failures make the threshold differ from one
failure; two ticks separate "now", "too early" and "elapsed". Two concurrent handlers
give every pairwise overlap, and the rows, service requests of different types and
worker keys share nothing. Two attempts give a first, a repeated and a last one.
Three invites give one that is current, one replaced, and one that is late. Fourteen
ticks hold two closing dates with time for a key, a late answer and a full submission
after each; a period is longer than all of these together, as a month is. Two processes
tell the one that has a job from one that has not; two publications make tables of two
old generations possible. The two requests of `siebel_sequences` are chosen freely among
all endpoints, so every pair overlaps.

Assumed of the world: a statement of Redis or PostgreSQL takes at most `StepTime`, a
Siebel call at most `CallTime`, a token response at most `FetchDelay` and a request
`SendDelay` before it arrives, which together fit the margin of 60 s (pool, connect and
write timeouts, `client.py:152`); the scanner has one honest verdict about each file;
rates are published "at most annually" (`rate_table_service.py:11`), incomes and limits at
once. The other `ASSUME`s
say that counts are natural numbers, that absent values differ from present ones, that
estimates are asked for with amounts of at least 0 (`ge=0` in `eligibility/models.py`), and
that the two kinds of session keys have different prefixes.

### Fairness

Safety needs none. `CallsFinish` and `NetworkAnswers`: httpx bounds every operation
by its timeouts (10 s connect, 30 s read, 10 s write, 5 s pool) and tenacity the
attempts, so a running call goes on. `LockIsFair`: `asyncio.Lock` wakes waiters in
order. `TimePasses`: the clock. `Traffic`: while a call would be admitted some client
makes one; a breaker nobody calls never leaves OPEN, by design. `Proceed` in
`Registration`: statements return, but a process may die instead (no fairness on
failures). Siebel's outages, rejections and revocations are never fair.

### Where code and words differ

- `probes_overlap`: "only one probe at a time" (`docs/reference/siebel-integration.md:77`).
  A straggler's failure re-opens the circuit under a running probe; one timeout later
  a second probe runs beside it. The probes are still spaced by the timeout
  (`ProbesSpaced`, proved).
- `finalized_without_pdf`: without a draft row the type is unknown, so the PDF a type
  requires (`sr_type_registry.py:27`) is skipped and empty answers are finalized. The row
  is missing before the creation's insert and after a lost one.
- `pin_for_unverified_email`: "Email verification must be completed first"
  (`registration.py:153`) is checked by step, and the step survives a change of address.

Seen while modelling, with no run:

- OPEN goes to CLOSED directly when a straggler succeeds (the docstring at
  `client.py:31` names no such edge), also in an outage if its answer is from before it;
  and business rejections count as failures, so `Recovers` needs Siebel to be up *and*
  to reject nothing.
- Exhausted retries surface as an httpx error, hence as a 500, not as the
  `ICMServiceUnavailableError` (503) of `siebel-integration.md:121`.
- A success without a JSON body (`client.py:218`) is a ValueError, which the PIN and
  plan routers answer as a wrong PIN, 403 or 410, for a change that was made, and the
  attachment router as a 422 for a file that was stored. `AnswersTrue` excepts it,
  `CopiesAccounted` counts it.
- `AORegistrationService.advance_step` (`ao_registration_service.py:71`, called at
  `ao.py:136`) moves the frontier past any submitted step at or beyond it, by its
  docstring only "if the submitted step is the current frontier".
- `has_open_case` is accepted without the identification, although its validator says
  "mandatory when has_open_case=True" (`schemas.py:146`).
- Swapping the last two digits of an accepted PHN leaves its weighted sum as it was
  modulo 11: the check digit does not notice (`PhnLastSwapAccepted`, proved).
- `rate_table_service.py:62` selects a column named `limit`, a reserved word of
  PostgreSQL, without quotes. A database that is up refuses the statement, and every
  estimate uses the built-in tables, which by the comment at `routers/eligibility.py:60` are
  for when it is unavailable. `eligibility` covers a database that refuses it and one that
  does not; what its properties say of published tables is about a corrected statement.
- Scan jobs, with the contents of their files, are never freed.
- `docs/guides/modifying-service-request.md:91` calls the draft save an upsert, it is an
  UPDATE.

## Proofs

Every state machine of the table but the two abstract specifications has its theorems,
for every value of the constants that the named `ASSUME`s of its module allow, and every
invariant and every safety action property that a run checks is one of them. Three are
proved only: `ClosedBelowThreshold`, `EndedStaysEnded` and `InOrder` are parts of the
invariants below, and no run repeats them. Each theorem about a state machine is `Spec
=> []P`, or `Spec => P` for an action property or a refinement, and follows from one
inductive invariant, which is:

`ICMClientProofs`, first part, about `CircuitBreaker` (`TypeOK`, `HalfOpenAwaitsProbe`,
`ClosedBelowThreshold`, `ProbesSpaced`, `OutageClosings`): the three state properties
and `Spacing`, that an open circuit has been open no longer than the time since the last
probe. `Spacing` is what `ProbesSpaced` needs at the step that admits a probe from OPEN;
it is preserved because every way into OPEN restarts the opening clock.
`HalfOpenAwaitsProbe` needs its first conjunct (flag up exactly in half open): a
finishing call always leaves half open ((`FinishSettles`). `OutageClosings` is the
safety half of `OutageOpens`: in an outage no good answer arises, and a closing uses one
up.

`ICMClientProofs`, second part, about `ICMClient` (`ClientTypeOK`, `OneRefresher`,
`TokenAcceptedOnArrival`, and `BreakerImplemented`): every step of the client is a step of
`CircuitBreaker` or leaves it alone, so the breaker's theorems hold of the client
(`ClientHalfOpen`, `ClientClosed`, `ClientProbesSpaced`, `ClientOutageClosings`). For the
token the invariant adds what adds up: a usable token is no older than `FetchDelay` plus
the usable time it has spent (`TokenFresh`), and the age of a token on its way with the
time it may still take is below `Lifetime` (`OnTime`). The second follows from the first
because the margin covers both delays.

`ServiceRequestsProofs` (`TypeOK`, `OrphansOnlyByFailure`, `DraftsCleared`,
`KeepsPromises`): where a handler stands determines its call (`CallFits`), a good answer
still held has its effect in Siebel behind it (`AnswersTrue`), whatever is on its way
was saved (`AnswersSaved`), and calls arrive late only after a failure. `KeepsPromises`
maps each step to a step of `SRLifecycle` or a stutter: the row may go only with the
finalization behind it, which is `AnswersTrue` at the delete. `DraftsCleared` follows
the row of a finalized request from the answer to the delete, with its handler
(`Clearing`). What that comes to is proved of `SRLifecycle` and carried over:
`AnswersAccountedFor` (Siebel gets only saved answers, no draft precedes its request)
and `DraftsOutliveDoubt` (no draft goes before Siebel has final answers).

`RegistrationProofs` (`TypeOK`, `InviteUsedOnce`, `OnlyNewestInvite`,
`VerifiedBeforePin`, `InviteForCurrentEmail`): the row holds the newest invite, no later
one was used, and its flag tells whether the newest was (`InviteState`); step 4 and a
request about to store a PIN have an accepted invite behind them (`PinState`); with no
task pending and none lost the newest invite is for the row's address (`AddressState`).
About the forms, for all nine and ten digits and not by enumeration: one wrong digit is
refused (`SinTypoRejected`, `PhnTypoRejected`), and so are two neighbours swapped,
except 0 and 9 in a SIN (`SinSwapRejected`) and the last two digits of a PHN
(`PhnSwapRejected`, `PhnLastSwapAccepted`): one digit changed changes the sum by the
change of its share (`LuhnStep`, `PhnStep`), a swap is two such changes, and the shares
of neighbours differ modulo 10 or 11. `AcceptedFromSixteenthBirthday` is about the age
check.

`AdminSessionsProofs` (`TypeOK`, `ServedWithinLifetime`, `EndedStaysEnded`,
`RegressOnlyByOverlap`): age and time left of every session, stored or in memory, make up
its lifetime (`Aged`), so the object's own check suffices although each write restarts
the key's time to live; what is under a support view key, or on its way there, is the
worker's (`Owned`); no creation is under way for an ended view (`NoneUnderWay`). For the
frontier: the login comes first (`LoginFirst`), and a writer that was not overtaken has
not fallen behind (`InStep`).

`MonthlyReportsProofs` (`TypeOK`, `StaleKeyExpires`, `SentSoonAfterClose`,
`RefusedOnlyBriefly`): the invariant adds `Timely`, that an answer on its way which
Siebel has outdated is no older than its call, and that a submission at its first, second
or third call is late by at most the calls before it and the time of this one. What a
submission is checked against may therefore close under it: the code does not exclude
that, it only bounds it.

`AttachmentsProofs` (`TypeOK`, `KeepsGate`, `CopiesAccounted`): a CLEAN webhook, a CLEAN
job, a submission and an attempt given up all have the scanner's verdict behind them,
which never changes, so each attachment is a step of `ScanGate`. So only cleared
files are attached (`OnlyClearedAttached`, proved of `ScanGate`). For the counts: a file's
copies and the attempts still left (as a set of attempts, where a sum would need
recursion) stay within what was begun, each answer has its copy, and without a timeout or
a death the only copies without a 201 are those whose answer was unreadable.

`EligibilityProofs` (`TypeOK`, `StaleAtMost`, `RefilledOnlyByRace`, `NoPenalty`,
`EstimateBetween`): rows just read are as old as the statement under way, a key holds
old rows no longer than its lifetime after they were stored, and the table read first
ages with each statement for the second. A publication finds only current tables since
all these bounds have passed; this is where "at most annually" is needed.
`RefilledOnlyByRace` adds that old rows about to be stored after an invalidation were on
their way when it happened.

The same module proves `NoPenalty`, for every combination of tables an estimate can have
read. Its condition, that tables rise with designation and family size (`RatesRise`,
`LimitsRise`), is proved of the code's own figures entry by entry (`CodeRatesRise`,
`CodeLimitsRise`) and left a condition on published ones, which nothing in the code checks;
the estimate then rises because it does with its rate and its limit (`EstimateRises`).
`EstimateBetween` needs no such condition, only that the last publication lowered no
figure: by `Good` each of the two tables is the current or the superseded one, and
`EstimateRises` applies to two pairs of tables. The families, incomes and assets are any
the request model accepts (`InputsAssumption`).

`SiebelSequencesProofs` (`TypeOK`, `InOrder`, `AnswersTrue`, `KnownPin`): the invariant
follows each request from its calls to its answer: its current call is one of its
endpoint's (`Placed`), what was carried out or may still be is no call before its turn
(`Ordered`), a result is what Siebel did unless the call was repeated (`Heard`), a
request that nothing interrupted has nothing done ahead of its call or behind its
answer (`Answering`), and says so when it set the PIN (`Acknowledged`). The PIN is the
first one or that of a request which set it (`PinSource`); with no request running and
none interrupted those are the requests that were answered "ok", which is `KnownPin`. A
step changes one request, so each action has a lemma for that one and
`OthersUndisturbed` covers the others. This needs the scripts one by one only in
`ScriptLength`, `ScriptCalls` and `ScriptBackground`.

Left to TLC: the temporal properties that need fairness, `Recovers`, `OutageOpens`,
`CallsEnd`, `RevokedReplaced`, `InviteFollows`, and the fair half of `ImplementsBreaker`
(`CallsFinish`): fairness and ENABLED are out of the prover's reach.

## Plan

1. The step-wise halves of the other liveness properties, as for `OutageOpens`: which
   steps can undo what `Recovers`, `RevokedReplaced` and `InviteFollows` wait for.
2. The name, PIN and telephone checks of `RegistrationForm`, as far as they are no induction
   over text.
3. The audit middleware: its insert is best effort after the response, and refusals (403)
   by the AO ownership check are not among what it records.

## Not modelled

Reads that change nothing. Payments: reads only. Authentication and roles: stateless
checks of a token. The audit insert: best effort, once the response is computed.
slowapi's limiter: a library with one counter in each process. The Celery tasks only
log. Health, configuration, wiring, the mock clients and seeds hold no behaviour of the
service. `RegistrationService.advance_step`, `complete_registration` and
`RedisSessionStore.clear` have no caller in the application, `link_bceid` is a
placeholder. Start, save, restart and PDF of a monthly report pass one call to Siebel
and keep nothing. Python's event loop, asyncpg, redis-py and httpx are taken to do what
their documentation says.
