----------------------------- MODULE Eligibility -----------------------------
(***************************************************************************)
(* The eligibility estimator: its two rate tables in PostgreSQL, each       *)
(* cached under a Redis key of its own for a day                            *)
(* (app/domains/eligibility/rate_table_service.py), and the endpoint that   *)
(* reads them one after the other and falls back to built-in tables on an   *)
(* error (app/routers/eligibility.py).                                      *)
(*                                                                          *)
(* New tables are published by an administrator with a new effective_from,  *)
(* both at once, and "at most annually": a publication is longer apart than *)
(* anything else here takes.  The program checks nothing of the figures: a  *)
(* published table is any table with its rows, and a missing row is a       *)
(* KeyError, an error 500 that changes nothing.  Time is in ticks; a Redis  *)
(* or database statement takes at most StepTime.                            *)
(***************************************************************************)
EXTENDS EligibilityCalculator

CONSTANTS Requests,     \* estimates in progress at a time
          Inputs,       \* what is estimated
          TTL,          \* CACHE_TTL_SECONDS
          StepTime,
          MaxVersion,   \* bound on the publications
          PublishedRates, PublishedLimits,  \* the tables of the publications
          None

ClientTypes == {"A", "B", "C", "D", "E"}
Categories == {"A", "B", "C", "D"}
FamilySizes == 1..MaxRateTableFamilySize

ASSUME TimesAssumption == {TTL, StepTime, MaxVersion} \subseteq Nat
ASSUME TablesAssumption ==
    \A v \in 1..MaxVersion : /\ PublishedRates[v] \in [FamilySizes -> [ClientTypes -> Int]]
                             /\ PublishedLimits[v] \in [Categories -> Int]
ASSUME NoneAssumption == None \notin Nat
ASSUME InputsAssumption == Inputs \subseteq EligibilityRequest(Nat)

VARIABLES version,   \* number of the tables in force in the database
          since,     \* ticks since they were published, up to Settled
          quoted,    \* whether the database takes the column name limit unquoted
          cache,     \* the version under each Redis key, or None
          ttl,       \* its time to live
          pc, table, \* what each request does, and with which table
          got,       \* the versions it has read, -1 for the built-in tables
          taken,     \* ticks its current statement takes
          flushed,   \* history: the cache was invalidated since the publication
          raced      \* history: tables of which an old version was then on its
                     \* way from the database to the cache

requests == <<pc, table, got, taken>>
vars == <<version, since, quoted, cache, ttl, requests, flushed, raced>>

Tables == {"income", "assets"}
BuiltIn == -1
Versions == 0..MaxVersion

\* A value is read, stored, found again, and the other table is read.
StaleBound == TTL + 4 * StepTime
Settled == StaleBound + 1

TypeOK ==
    /\ version \in Versions
    /\ since \in 0..Settled
    /\ quoted \in BOOLEAN
    /\ cache \in [Tables -> Versions \cup {None}]
    /\ ttl \in [Tables -> 0..TTL]
    /\ pc \in [Requests -> {"idle", "get", "select", "store", "ready"}]
    /\ table \in [Requests -> Tables]
    /\ got \in [Requests -> [Tables -> Versions \cup {BuiltIn, None}]]
    /\ taken \in [Requests -> 0..StepTime]
    /\ flushed \in BOOLEAN
    /\ raced \subseteq Tables

Nothing == [t \in Tables |-> None]
Fallback == [t \in Tables |-> BuiltIn]

Init ==
    /\ version = 0 /\ since = Settled
    /\ quoted \in BOOLEAN
    /\ cache = Nothing
    /\ ttl = [t \in Tables |-> 0]
    /\ pc = [r \in Requests |-> "idle"]
    /\ table = [r \in Requests |-> "income"]
    /\ got = [r \in Requests |-> Nothing]
    /\ taken = [r \in Requests |-> 0]
    /\ flushed = FALSE
    /\ raced = {}

Goto(r, place) ==
    /\ pc' = [pc EXCEPT ![r] = place]
    /\ taken' = [taken EXCEPT ![r] = 0]

-----------------------------------------------------------------------------
(* A request *)

Begin(r) ==
    /\ pc[r] = "idle"
    /\ Goto(r, "get")
    /\ UNCHANGED <<version, since, quoted, cache, ttl, table, got, flushed, raced>>

\* The incomes are followed by the assets, these by the calculation.
Proceed(r, v) ==
    /\ got' = [got EXCEPT ![r][table[r]] = v]
    /\ table' = [table EXCEPT ![r] = "assets"]
    /\ Goto(r, IF table[r] = "income" THEN "get" ELSE "ready")

Hit(r) ==
    /\ pc[r] = "get" /\ cache[table[r]] # None
    /\ Proceed(r, cache[table[r]])
    /\ UNCHANGED <<version, since, quoted, cache, ttl, flushed, raced>>

Miss(r) ==
    /\ pc[r] = "get" /\ cache[table[r]] = None
    /\ Goto(r, "select")
    /\ UNCHANGED <<version, since, quoted, cache, ttl, table, got, flushed, raced>>

\* Mutant: each read has an except clause of its own, for its own table.
FallsBackAlone(r) ==
    /\ Proceed(r, BuiltIn)
    /\ UNCHANGED <<version, since, quoted, cache, ttl, flushed, raced>>

\* SQLAlchemyError or RedisError: one except clause around both reads.
FallsBack(r) ==
    /\ got' = [got EXCEPT ![r] = Fallback]
    /\ Goto(r, "ready")
    /\ UNCHANGED <<version, since, quoted, cache, ttl, table, flushed, raced>>

\* The statement on the asset limits names a column limit without quotes.
Refused(r) == table[r] = "assets" /\ ~quoted

Select(r) ==
    /\ pc[r] = "select"
    /\ IF Refused(r)
         THEN FallsBack(r)
         ELSE /\ got' = [got EXCEPT ![r][table[r]] = version]
              /\ Goto(r, "store")
              /\ UNCHANGED <<version, since, quoted, cache, ttl, table, flushed, raced>>

\* Mutant: a value is found for two days.
TwoDays(t) == 2 * TTL

Lifetime(t) == TTL

\* SETEX, and the rows are returned.
Store(r) ==
    LET t == table[r] IN
    /\ pc[r] = "store"
    /\ cache' = [cache EXCEPT ![t] = got[r][t]]
    /\ ttl' = [ttl EXCEPT ![t] = Lifetime(t)]
    /\ Proceed(r, got[r][t])
    /\ UNCHANGED <<version, since, quoted, flushed, raced>>

\* Any statement may fail.
Fails(r) ==
    /\ pc[r] \in {"get", "select", "store"}
    /\ FallsBack(r)

Finish(r) ==
    /\ Goto(r, "idle")
    /\ table' = [table EXCEPT ![r] = "income"]
    /\ got' = [got EXCEPT ![r] = Nothing]
    /\ UNCHANGED <<version, since, quoted, cache, ttl, flushed, raced>>

\* The calculation follows without an await.
Answer(r) == pc[r] = "ready" /\ Finish(r)

\* An error of another kind, such as a connection refused to asyncpg, is a 500.
Aborts(r) == pc[r] \in {"get", "select", "store"} /\ Finish(r)

-----------------------------------------------------------------------------
(* Publications and time *)

\* Once a year at most, see above.
Publish ==
    /\ version < MaxVersion /\ since = Settled
    /\ version' = version + 1
    /\ since' = 0
    /\ flushed' = FALSE
    /\ raced' = {}
    /\ UNCHANGED <<quoted, cache, ttl, requests>>

OnItsWay(t) == \E r \in Requests : pc[r] = "store" /\ table[r] = t /\ got[r][t] # version

\* Mutant: only the key of the income rates is deleted.
IncomeKey == {"income"}

Invalidated == Tables

\* invalidate_cache, one DEL of both keys.
InvalidateCache ==
    /\ cache' = [t \in Tables |-> IF t \in Invalidated THEN None ELSE cache[t]]
    /\ ttl' = [t \in Tables |-> IF t \in Invalidated THEN 0 ELSE ttl[t]]
    /\ flushed' = TRUE
    /\ raced' = {t \in Tables : OnItsWay(t)}
    /\ UNCHANGED <<version, since, quoted, requests>>

Tick ==
    /\ \A r \in Requests : pc[r] # "ready" /\ (pc[r] # "idle" => taken[r] < StepTime)
    /\ since' = IF since < Settled THEN since + 1 ELSE Settled
    /\ ttl' = [t \in Tables |-> IF ttl[t] > 0 THEN ttl[t] - 1 ELSE 0]
    /\ cache' = [t \in Tables |-> IF ttl[t] > 1 THEN cache[t] ELSE None]
    /\ taken' = [r \in Requests |-> IF pc[r] = "idle" THEN 0 ELSE taken[r] + 1]
    /\ UNCHANGED <<version, quoted, pc, table, got, flushed, raced>>

Next ==
    \/ \E r \in Requests :
        Begin(r) \/ Hit(r) \/ Miss(r) \/ Select(r) \/ Store(r) \/ Fails(r) \/ Answer(r) \/ Aborts(r)
    \/ Publish \/ InvalidateCache \/ Tick

Spec == Init /\ [][Next]_vars

-----------------------------------------------------------------------------
(* Properties *)

\* The tables of a version: the migration's and the built-in ones are the same.
RatesOf(v) == IF v < 1 THEN IncomeRates2023 ELSE PublishedRates[v]
LimitsOf(v) == IF v < 1 THEN AssetLimits2023 ELSE PublishedLimits[v]

Amount(v, w, req) == Calculate(RatesOf(v), LimitsOf(w), req).estimated_amount

\* The families a column of the rates is for, by their size in the table.
HasRate(n, c) == IF c \in {"A", "C"} THEN n \in FamilySizes ELSE n \in FamilySizes \ {1}

\* Tables that rise with a designation and with the family.
RatesRise(rates) ==
    /\ \A n \in FamilySizes, c \in ClientTypes : HasRate(n, c) => rates[n][c] > 0
    /\ \A n \in FamilySizes : rates[n]["A"] <= rates[n]["C"]
    /\ \A n \in FamilySizes \ {1} :
         rates[n]["B"] <= rates[n]["D"] /\ rates[n]["C"] <= rates[n]["E"]
    /\ \A n \in 2..(MaxRateTableFamilySize - 1), c \in ClientTypes :
         rates[n][c] <= rates[n + 1][c]
    /\ rates[1]["A"] <= rates[2]["B"]
    /\ rates[1]["C"] <= rates[2]["D"]

LimitsRise(limits) ==
    limits["A"] <= limits["B"] /\ limits["B"] <= limits["C"] /\ limits["C"] <= limits["D"]

\* Each figure of version w is at least that of version v.
Raised(v, w) ==
    /\ \A n \in FamilySizes, c \in ClientTypes : RatesOf(v)[n][c] <= RatesOf(w)[n][c]
    /\ \A c \in Categories : LimitsOf(v)[c] <= LimitsOf(w)[c]

\* An estimate uses the built-in tables for both or two tables of the database that
\* were superseded no longer ago than a day and the statements under way, through
\* overlapping fills, expiry, publications, invalidations and errors of one statement
\* (rate_table_service.py:21-78, eligibility.py:56-68).
StaleAtMost ==
    \A r \in Requests : pc[r] = "ready" =>
        \/ got[r] = Fallback
        \/ \A t \in Tables :
             \/ got[r][t] = version
             \/ got[r][t] = version - 1 /\ version > 0 /\ since <= StaleBound

\* "Call after admin rate update to force fresh DB read on next request"
\* (rate_table_service.py:81): an old table is back in the cache only if a reader
\* was already taking it there.
RefilledOnlyByRace ==
    flushed => \A t \in Tables : cache[t] \in {None, version} \/ t \in raced

\* Over the code's own figures, and over published ones that rise with a designation
\* and with the family, each family has a rate, and neither a designation nor one more
\* dependant ever lowers the estimate, also where the two tables are of different
\* versions (calculator.py:33-113, migration 0003, eligibility.py:22-43).
NoPenalty ==
    \A r \in Requests :
        LET v == got[r]["income"]
            w == got[r]["assets"]
        IN /\ pc[r] = "ready"
           /\ v < 1 \/ RatesRise(RatesOf(v))
           /\ w < 1 \/ LimitsRise(LimitsOf(w))
           => \A req \in Inputs :
                /\ IncomeLimit(RatesOf(v), req) > 0
                /\ Amount(v, w, req) <= Amount(v, w, [req EXCEPT !.applicant_pwd = TRUE])
                /\ IsCouple(req)
                     => Amount(v, w, req) <= Amount(v, w, [req EXCEPT !.spouse_pwd = TRUE])
                /\ req.num_dependants < 20
                     => Amount(v, w, req) <= Amount(v, w, [req EXCEPT !.num_dependants = @ + 1])

\* The two tables are cached and read apart, so one estimate may mix an old table with
\* a new one (rate_table_service.py:21-78).  Where a publication lowered no figure, a
\* mixed estimate still lies between those of the superseded and of the new tables.
EstimateBetween ==
    \A r \in Requests :
        /\ pc[r] = "ready" /\ got[r] # Fallback
        /\ version > 0 /\ Raised(version - 1, version)
        => \A req \in Inputs :
             /\ Amount(version - 1, version - 1, req)
                  <= Amount(got[r]["income"], got[r]["assets"], req)
             /\ Amount(got[r]["income"], got[r]["assets"], req) <= Amount(version, version, req)

=============================================================================
