--------------------------- MODULE EligibilityProofs ---------------------------
(* How old the rates of an estimate may be, for any number of estimates at a *)
(* time, any lifetime of the keys, any time a statement takes and any number *)
(* of publications.                                                          *)
(*                                                                           *)
(* The inductive invariant dates what is on its way: rows just read are as   *)
(* old as the statement under way (Rows), a key holds old rows no longer     *)
(* than its lifetime after they were stored (Kept), and the first of the two *)
(* tables a request has read ages with each statement for the second         *)
(* (First).  A publication finds only current tables, since all of these     *)
(* bounds have passed.                                                       *)
(*                                                                           *)
(* The last section is about the estimate itself: where the tables rise with *)
(* a designation and the family, as the code's own do, so does the estimate  *)
(* (NoPenalty), and an estimate over tables of two ages lies between those   *)
(* over either (EstimateBetween).                                            *)
EXTENDS Eligibility, TLAPS

\* Rows of version v, when version now was published ago ticks ago: current, or
\* superseded age ticks ago at most.
Good(v, age, now, ago) == v = now \/ (v = now - 1 /\ now > 0 /\ ago <= age)

Spent(r) ==
    CASE pc[r] = "get" -> taken[r]
      [] pc[r] = "select" -> StepTime + taken[r]
      [] pc[r] = "store" -> 2 * StepTime + taken[r]
      [] OTHER -> 3 * StepTime

Rows(r) == pc[r] = "store" => Good(got[r][table[r]], taken[r], version, since)

First(r) ==
    pc[r] \in {"get", "select", "store"} /\ table[r] = "assets"
        => Good(got[r]["income"], TTL + StepTime + Spent(r), version, since)

Both(r) ==
    pc[r] = "ready" =>
        \/ got[r] = Fallback
        \/ \A t \in Tables : Good(got[r][t], StaleBound, version, since)

StartsWithIncome(r) == pc[r] = "idle" => table[r] = "income"

Dated(r) == Rows(r) /\ First(r) /\ Both(r) /\ StartsWithIncome(r)

Kept == \A t \in Tables :
    cache[t] # None => Good(cache[t], TTL + StepTime - ttl[t], version, since)

Invariant == TypeOK /\ Kept /\ \A r \in Requests : Dated(r)

-----------------------------------------------------------------------------
(* Types *)

LEMMA Times ==
    /\ TTL \in Nat /\ StepTime \in Nat /\ MaxVersion \in Nat
    /\ StaleBound \in Nat /\ Settled = StaleBound + 1
    /\ StaleBound = TTL + 4 * StepTime
<1>1. TTL \in Nat /\ StepTime \in Nat /\ MaxVersion \in Nat
  BY TimesAssumption
<1> QED
  BY <1>1 DEF StaleBound, Settled

LEMMA GotoTyped ==
    ASSUME TypeOK, NEW r \in Requests, NEW place, Goto(r, place),
           place \in {"idle", "get", "select", "store", "ready"}
    PROVE  /\ pc' \in [Requests -> {"idle", "get", "select", "store", "ready"}]
           /\ taken' \in [Requests -> 0..StepTime]
BY Times DEF TypeOK, Goto

LEMMA GotTyped ==
    ASSUME NEW V, NEW f \in [Requests -> [Tables -> V]],
           NEW g \in [Tables -> V], NEW r \in Requests
    PROVE  [f EXCEPT ![r] = g] \in [Requests -> [Tables -> V]]
OBVIOUS

LEMMA TypeStep ==
    ASSUME Invariant, [Next]_vars
    PROVE  TypeOK'
<1> USE DEF Invariant
<1> DEFINE V == Versions \cup {BuiltIn, None}
           Places == {"idle", "get", "select", "store", "ready"}
<1>1. ASSUME NEW r \in Requests, Begin(r) \/ Miss(r)
      PROVE  TypeOK'
  <2>1. pc' \in [Requests -> Places] /\ taken' \in [Requests -> 0..StepTime]
    BY <1>1, GotoTyped DEF Begin, Miss
  <2> QED
    BY <1>1, <2>1 DEF Begin, Miss, TypeOK
<1>2. ASSUME NEW r \in Requests, NEW v \in V, Proceed(r, v)
      PROVE  /\ pc' \in [Requests -> Places]
             /\ taken' \in [Requests -> 0..StepTime]
             /\ table' \in [Requests -> Tables]
             /\ got' \in [Requests -> [Tables -> V]]
  <2>1. pc' \in [Requests -> Places] /\ taken' \in [Requests -> 0..StepTime]
    BY <1>2, GotoTyped DEF Proceed
  <2>2. got' = [got EXCEPT ![r] = [got[r] EXCEPT ![table[r]] = v]]
    BY <1>2 DEF Proceed
  <2>3. [got[r] EXCEPT ![table[r]] = v] \in [Tables -> V]
    BY DEF TypeOK
  <2>4. table' \in [Requests -> Tables]
    BY <1>2 DEF Proceed, TypeOK, Tables
  <2>5. got' \in [Requests -> [Tables -> V]]
    <3>1. got \in [Requests -> [Tables -> V]]
      BY DEF TypeOK
    <3> HIDE DEF V
    <3> QED
      BY <2>2, <2>3, <3>1, GotTyped
  <2> QED
    BY <2>1, <2>4, <2>5
<1>3. ASSUME NEW r \in Requests, Hit(r)
      PROVE  TypeOK'
  <2>1. cache[table[r]] \in V
    BY DEF TypeOK
  <2> QED
    BY <1>2, <1>3, <2>1 DEF Hit, TypeOK
<1>4. ASSUME NEW r \in Requests, FallsBack(r)
      PROVE  TypeOK'
  <2>1. pc' \in [Requests -> Places] /\ taken' \in [Requests -> 0..StepTime]
    BY <1>4, GotoTyped DEF FallsBack
  <2>2. Fallback \in [Tables -> V]
    BY DEF Fallback
  <2> QED
    BY <1>4, <2>1, <2>2 DEF FallsBack, TypeOK
<1>5. ASSUME NEW r \in Requests, Select(r)
      PROVE  TypeOK'
  <2>1. CASE Refused(r)
    BY <1>4, <1>5, <2>1 DEF Select
  <2>2. CASE ~Refused(r)
    <3>1. pc' \in [Requests -> Places] /\ taken' \in [Requests -> 0..StepTime]
      BY <1>5, <2>2, GotoTyped DEF Select
    <3>2. got' = [got EXCEPT ![r] = [got[r] EXCEPT ![table[r]] = version]]
      BY <1>5, <2>2 DEF Select
    <3>3. [got[r] EXCEPT ![table[r]] = version] \in [Tables -> V]
      BY DEF TypeOK
    <3> QED
      BY <1>5, <2>2, <3>1, <3>2, <3>3 DEF Select, TypeOK
  <2> QED
    BY <2>1, <2>2
<1>6. ASSUME NEW r \in Requests, Store(r)
      PROVE  TypeOK'
  <2>1. got[r][table[r]] \in Versions
    BY <1>6, Times DEF Store, Dated, Rows, Good, TypeOK, Versions
  <2>2. /\ cache' = [cache EXCEPT ![table[r]] = got[r][table[r]]]
        /\ ttl' = [ttl EXCEPT ![table[r]] = TTL]
        /\ Proceed(r, got[r][table[r]])
        /\ UNCHANGED <<version, since, quoted, flushed, raced>>
    BY <1>6 DEF Store, Lifetime
  <2>3. /\ cache' \in [Tables -> Versions \cup {None}]
        /\ ttl' \in [Tables -> 0..TTL]
    BY <2>1, <2>2, Times DEF TypeOK
  <2> QED
    BY <1>2, <2>1, <2>2, <2>3 DEF TypeOK
<1>7. ASSUME NEW r \in Requests, Finish(r)
      PROVE  TypeOK'
  <2>1. pc' \in [Requests -> Places] /\ taken' \in [Requests -> 0..StepTime]
    BY <1>7, GotoTyped DEF Finish
  <2>2. Nothing \in [Tables -> V]
    BY DEF Nothing
  <2>3. table' \in [Requests -> Tables]
    BY <1>7 DEF Finish, TypeOK, Tables
  <2>4. got' \in [Requests -> [Tables -> V]]
    <3>1. got \in [Requests -> [Tables -> V]]
      BY DEF TypeOK
    <3> HIDE DEF V
    <3> QED
      BY <1>7, <2>2, <3>1, GotTyped DEF Finish
  <2>5. UNCHANGED <<version, since, quoted, cache, ttl, flushed, raced>>
    BY <1>7 DEF Finish
  <2> QED
    BY <2>1, <2>3, <2>4, <2>5 DEF TypeOK
<1>8. ASSUME Publish PROVE TypeOK'
  <2>1. version' \in Versions /\ since' \in 0..Settled
    BY <1>8, Times DEF Publish, TypeOK, Versions
  <2>2. flushed' \in BOOLEAN /\ raced' \subseteq Tables
    BY <1>8 DEF Publish
  <2>3. UNCHANGED <<quoted, cache, ttl, pc, table, got, taken>>
    BY <1>8 DEF Publish, requests
  <2> QED
    BY <2>1, <2>2, <2>3 DEF TypeOK
<1>9. ASSUME InvalidateCache PROVE TypeOK'
  BY <1>9, Times DEF InvalidateCache, TypeOK, requests
<1>10. ASSUME Tick PROVE TypeOK'
  <2>1. taken' \in [Requests -> 0..StepTime]
    <3>1. \A r \in Requests : pc[r] # "idle" => taken[r] + 1 \in 0..StepTime
      BY <1>10, Times DEF Tick, TypeOK
    <3> QED
      BY <1>10, <3>1, Times DEF Tick
  <2>2. since' \in 0..Settled /\ ttl' \in [Tables -> 0..TTL]
    BY <1>10, Times DEF Tick, TypeOK
  <2>3. cache' \in [Tables -> Versions \cup {None}]
    BY <1>10 DEF Tick, TypeOK
  <2> QED
    BY <1>10, <2>1, <2>2, <2>3 DEF Tick, TypeOK
<1>11. CASE UNCHANGED vars
  BY <1>11 DEF vars, requests, TypeOK
<1> QED
  BY <1>1, <1>3, <1>4, <1>5, <1>6, <1>7, <1>8, <1>9, <1>10, <1>11
     DEF Next, Fails, Answer, Aborts

-----------------------------------------------------------------------------
(* Ages *)

LEMMA GoodStays ==
    ASSUME NEW v, NEW a \in Int, NEW b \in Int, NEW now \in Nat, NEW ago \in Nat,
           Good(v, a, now, ago), a <= b
    PROVE  Good(v, b, now, ago)
BY DEF Good

LEMMA GoodAges ==
    ASSUME NEW v, NEW a \in Int, NEW now \in Nat, NEW ago \in Nat, NEW later \in Nat,
           Good(v, a, now, ago), later <= ago + 1
    PROVE  Good(v, a + 1, now, later)
BY DEF Good

\* What a publication finds within the bound is current, so it is only just old.
LEMMA GoodBeforePublish ==
    ASSUME NEW v, NEW a \in Int, NEW b \in Nat, NEW now \in Nat,
           Good(v, a, now, Settled), a <= StaleBound
    PROVE  Good(v, b, now + 1, 0)
<1>1. v = now
  BY Times DEF Good
<1> QED
  BY <1>1 DEF Good

LEMMA Numbers ==
    ASSUME TypeOK
    PROVE  /\ version \in Nat /\ since \in Nat
           /\ \A r \in Requests : taken[r] \in 0..StepTime /\ Spent(r) \in 0..(3 * StepTime)
           /\ \A t \in Tables : ttl[t] \in 0..TTL
<1>1. version \in Nat /\ since \in Nat
  BY Times DEF TypeOK, Versions
<1>2. ASSUME NEW r \in Requests
      PROVE  taken[r] \in 0..StepTime /\ Spent(r) \in 0..(3 * StepTime)
  <2>1. taken[r] \in 0..StepTime
    BY DEF TypeOK
  <2> QED
    BY <2>1, Times DEF Spent
<1> QED
  BY <1>1, <1>2 DEF TypeOK

\* Nobody else's request changes with a step of r.
LEMMA OthersStay ==
    ASSUME NEW q \in Requests, Dated(q), UNCHANGED <<version, since>>,
           pc'[q] = pc[q], table'[q] = table[q], got'[q] = got[q], taken'[q] = taken[q]
    PROVE  Dated(q)'
BY DEF Dated, Rows, First, Both, StartsWithIncome, Spent

\* What every step of a request r does and leaves alone.
StepOf(r) ==
    /\ UNCHANGED <<version, since>>
    /\ \A q \in Requests \ {r} : /\ pc'[q] = pc[q] /\ table'[q] = table[q]
                                 /\ got'[q] = got[q] /\ taken'[q] = taken[q]

RequestNext(r) ==
    Begin(r) \/ Hit(r) \/ Miss(r) \/ Select(r) \/ Store(r) \/ Fails(r) \/ Answer(r) \/ Aborts(r)

LEMMA StepsAreLocal ==
    ASSUME TypeOK, NEW r \in Requests, RequestNext(r)
    PROVE  StepOf(r)
BY DEF TypeOK, RequestNext, StepOf, Begin, Hit, Miss, Select, Store, Fails, Answer, Aborts,
   FallsBack, Finish, Proceed, Goto

\* A table no older than a key may be is read: the first, or the second after it.
LEMMA ProceedDated ==
    ASSUME Invariant, NEW r \in Requests, NEW v, Proceed(r, v), UNCHANGED <<version, since>>,
           pc[r] \in {"get", "store"}, Good(v, TTL + StepTime, version, since)
    PROVE  Dated(r)'
<1>0. /\ got'[r] = [got[r] EXCEPT ![table[r]] = v]
      /\ table'[r] = "assets" /\ taken'[r] = 0
      /\ pc'[r] = IF table[r] = "income" THEN "get" ELSE "ready"
      /\ table[r] \in Tables
      /\ got[r] \in [Tables -> Versions \cup {BuiltIn, None}]
  BY DEF Proceed, Goto, Invariant, TypeOK
<1>1. CASE table[r] = "income"
  <2>1. pc'[r] = "get" /\ got'[r]["income"] = v /\ Spent(r)' = 0
    BY <1>0, <1>1 DEF Tables, Spent
  <2>2. TTL + StepTime + 0 = TTL + StepTime
    BY Times
  <2> QED
    BY <1>0, <2>1, <2>2 DEF Dated, Rows, First, Both, StartsWithIncome
<1>2. CASE table[r] = "assets"
  <2>1. pc'[r] = "ready"
    BY <1>0, <1>2
  <2>2. got'[r]["assets"] = v /\ got'[r]["income"] = got[r]["income"]
    BY <1>0, <1>2 DEF Tables
  <2>3. Good(got[r]["income"], TTL + StepTime + Spent(r), version, since)
    BY <1>2 DEF Invariant, Dated, First
  <2>4. /\ version \in Nat /\ since \in Nat /\ TTL + StepTime \in Int
        /\ TTL + StepTime + Spent(r) \in Int /\ StaleBound \in Int
        /\ TTL + StepTime <= StaleBound /\ TTL + StepTime + Spent(r) <= StaleBound
    BY Times, Numbers DEF Invariant
  <2>5. Good(got[r]["income"], StaleBound, version, since)
    BY <2>3, <2>4, GoodStays
  <2>6. Good(v, StaleBound, version, since)
    BY <2>4, GoodStays
  <2> QED
    BY <2>1, <2>2, <2>5, <2>6 DEF Dated, Rows, First, Both, StartsWithIncome, Tables
<1> QED
  BY <1>0, <1>1, <1>2 DEF Tables

LEMMA RequestDated ==
    ASSUME Invariant, NEW r \in Requests, RequestNext(r)
    PROVE  Dated(r)'
<1>0. UNCHANGED <<version, since>>
  BY StepsAreLocal DEF StepOf, Invariant
<1>n. /\ version \in Nat /\ since \in Nat /\ taken[r] \in 0..StepTime
      /\ TTL \in Nat /\ StepTime \in Nat /\ Spent(r) \in 0..(3 * StepTime)
  BY Times, Numbers DEF Invariant
<1>t. /\ pc \in [Requests -> {"idle", "get", "select", "store", "ready"}]
      /\ table \in [Requests -> Tables]
      /\ got \in [Requests -> [Tables -> Versions \cup {BuiltIn, None}]]
      /\ taken \in [Requests -> 0..StepTime]
  BY DEF Invariant, TypeOK
<1>d. Rows(r) /\ First(r) /\ Both(r) /\ StartsWithIncome(r)
  BY DEF Invariant, Dated
<1>1. CASE Begin(r)
  <2>1. pc'[r] = "get" /\ table'[r] = "income"
    BY <1>1, <1>t, <1>d DEF Begin, Goto, StartsWithIncome
  <2> QED
    BY <2>1 DEF Dated, Rows, First, Both, StartsWithIncome
<1>2. CASE Hit(r)
  <2>1. Good(cache[table[r]], TTL + StepTime - ttl[table[r]], version, since)
    BY <1>2, <1>t DEF Hit, Invariant, Kept
  <2>2. ttl[table[r]] \in 0..TTL
    BY <1>t, Numbers DEF Invariant
  <2>3. /\ TTL + StepTime - ttl[table[r]] \in Int /\ TTL + StepTime \in Int
        /\ TTL + StepTime - ttl[table[r]] <= TTL + StepTime
    BY <1>n, <2>2
  <2>4. Good(cache[table[r]], TTL + StepTime, version, since)
    BY <1>n, <2>1, <2>3, GoodStays
  <2> QED
    BY <1>0, <1>2, <2>4, ProceedDated DEF Hit
<1>3. CASE Miss(r)
  <2>1. pc[r] = "get" /\ pc'[r] = "select" /\ table' = table /\ got' = got /\ taken'[r] = 0
    BY <1>3, <1>t DEF Miss, Goto
  <2>2. Spent(r) = taken[r] /\ Spent(r)' = StepTime + 0
    BY <2>1 DEF Spent
  <2>3. CASE table[r] = "assets"
    <3>1. Good(got[r]["income"], TTL + StepTime + Spent(r), version, since)
      BY <1>d, <2>1, <2>3 DEF First
    <3>2. Good(got[r]["income"], TTL + StepTime + Spent(r)', version, since)
      <4>1. /\ TTL + StepTime + Spent(r) \in Int /\ TTL + StepTime + Spent(r)' \in Int
            /\ TTL + StepTime + Spent(r) <= TTL + StepTime + Spent(r)'
        BY <1>n, <2>2
      <4> QED
        BY <1>n, <3>1, <4>1, GoodStays
    <3> QED
      BY <1>0, <2>1, <3>2 DEF Dated, Rows, First, Both, StartsWithIncome
  <2>4. CASE table[r] # "assets"
    BY <2>1, <2>4 DEF Dated, Rows, First, Both, StartsWithIncome
  <2> QED
    BY <2>3, <2>4
<1>4. ASSUME FallsBack(r), pc[r] # "idle" PROVE Dated(r)'
  <2>1. got'[r] = Fallback /\ pc'[r] = "ready"
    BY <1>4, <1>t DEF FallsBack, Goto
  <2> QED
    BY <2>1 DEF Dated, Rows, First, Both, StartsWithIncome
<1>5. ASSUME Select(r), ~Refused(r) PROVE Dated(r)'
  <2>1. /\ pc[r] = "select" /\ pc'[r] = "store" /\ table' = table /\ taken'[r] = 0
        /\ got'[r] = [got[r] EXCEPT ![table[r]] = version]
    BY <1>5, <1>t DEF Select, Goto
  <2>2. got'[r][table[r]] = version
    BY <1>t, <2>1
  <2>3. Rows(r)'
    BY <1>0, <2>1, <2>2 DEF Rows, Good
  <2>4. CASE table[r] = "assets"
    <3>1. Good(got[r]["income"], TTL + StepTime + Spent(r), version, since)
      BY <1>d, <2>1, <2>4 DEF First
    <3>2. Spent(r) = StepTime + taken[r] /\ Spent(r)' = 2 * StepTime + 0
      BY <2>1 DEF Spent
    <3>3. Good(got[r]["income"], TTL + StepTime + Spent(r)', version, since)
      <4>1. /\ TTL + StepTime + Spent(r) \in Int /\ TTL + StepTime + Spent(r)' \in Int
            /\ TTL + StepTime + Spent(r) <= TTL + StepTime + Spent(r)'
        BY <1>n, <3>2
      <4> QED
        BY <1>n, <3>1, <4>1, GoodStays
    <3>4. got'[r]["income"] = got[r]["income"]
      BY <1>t, <2>1, <2>4 DEF Tables
    <3> QED
      BY <1>0, <2>1, <2>3, <3>3, <3>4 DEF Dated, First, Both, StartsWithIncome
  <2>5. CASE table[r] # "assets"
    BY <2>1, <2>3, <2>5 DEF Dated, First, Both, StartsWithIncome
  <2> QED
    BY <2>4, <2>5
<1>6. CASE Store(r)
  <2>1. Good(got[r][table[r]], taken[r], version, since)
    BY <1>6, <1>d DEF Store, Rows
  <2>2. /\ taken[r] \in Int /\ TTL + StepTime \in Int /\ taken[r] <= TTL + StepTime
    BY <1>n
  <2>3. Good(got[r][table[r]], TTL + StepTime, version, since)
    BY <1>n, <2>1, <2>2, GoodStays
  <2> QED
    BY <1>0, <1>6, <2>3, ProceedDated DEF Store
<1>7. ASSUME Finish(r) PROVE Dated(r)'
  <2>1. pc'[r] = "idle" /\ table'[r] = "income"
    BY <1>7, <1>t DEF Finish, Goto
  <2> QED
    BY <2>1 DEF Dated, Rows, First, Both, StartsWithIncome
<1> QED
  BY <1>1, <1>2, <1>3, <1>4, <1>5, <1>6, <1>7 DEF RequestNext, Select, Fails, Answer, Aborts

LEMMA RequestKept ==
    ASSUME Invariant, NEW r \in Requests, RequestNext(r)
    PROVE  Kept'
<1>0. UNCHANGED <<version, since>>
  BY StepsAreLocal DEF StepOf, Invariant
<1>1. CASE Store(r)
  <2>1. Good(got[r][table[r]], taken[r], version, since)
    BY <1>1 DEF Store, Rows, Invariant, Dated
  <2>2. /\ taken[r] \in Int /\ version \in Nat /\ since \in Nat
        /\ TTL + StepTime - TTL \in Int /\ taken[r] <= TTL + StepTime - TTL
    BY Times, Numbers DEF Invariant
  <2>3. Good(got[r][table[r]], TTL + StepTime - TTL, version, since)
    BY <2>1, <2>2, GoodStays
  <2>4. /\ cache' = [cache EXCEPT ![table[r]] = got[r][table[r]]]
        /\ ttl' = [ttl EXCEPT ![table[r]] = TTL]
        /\ cache \in [Tables -> Versions \cup {None}] /\ ttl \in [Tables -> 0..TTL]
    BY <1>1 DEF Store, Lifetime, Invariant, TypeOK
  <2> QED
    BY <1>0, <2>3, <2>4 DEF Kept, Invariant
<1>2. ASSUME UNCHANGED <<cache, ttl>> PROVE Kept'
  BY <1>0, <1>2 DEF Kept, Invariant
<1> QED
  BY <1>1, <1>2 DEF RequestNext, Begin, Hit, Miss, Select, Fails, FallsBack, Answer,
     Aborts, Finish

LEMMA PublishStep ==
    ASSUME Invariant, Publish
    PROVE  Kept' /\ \A r \in Requests : Dated(r)'
<1> USE Times, Numbers DEF Invariant
<1>1. /\ since = Settled /\ version' = version + 1 /\ since' = 0
      /\ UNCHANGED <<cache, ttl, pc, table, got, taken>>
  BY DEF Publish, requests
<1>2. ASSUME NEW v, NEW a \in Nat, a <= StaleBound, Good(v, a, version, since)
      PROVE  Good(v, a, version', since')
  BY <1>1, <1>2, GoodBeforePublish
<1>3. Kept'
  <2>1. \A t \in Tables : TTL + StepTime - ttl[t] \in Nat /\ TTL + StepTime - ttl[t] <= StaleBound
    OBVIOUS
  <2> QED
    BY <1>1, <1>2, <2>1 DEF Kept
<1>4. ASSUME NEW r \in Requests PROVE Dated(r)'
  <2>1. Dated(r) /\ Spent(r)' = Spent(r)
    BY <1>1 DEF Spent
  <2>2. Rows(r)'
    <3>1. taken[r] \in Nat /\ taken[r] <= StaleBound
      OBVIOUS
    <3> QED
      BY <1>1, <1>2, <2>1, <3>1 DEF Dated, Rows
  <2>3. First(r)'
    <3>1. TTL + StepTime + Spent(r) \in Nat /\ TTL + StepTime + Spent(r) <= StaleBound
      OBVIOUS
    <3> QED
      BY <1>1, <1>2, <2>1, <3>1 DEF Dated, First
  <2>4. Both(r)'
    BY <1>1, <1>2, <2>1 DEF Dated, Both
  <2> QED
    BY <1>1, <2>1, <2>2, <2>3, <2>4 DEF Dated, StartsWithIncome
<1> QED
  BY <1>3, <1>4

LEMMA TickStep ==
    ASSUME Invariant, Tick
    PROVE  Kept' /\ \A r \in Requests : Dated(r)'
<1> USE Times, Numbers DEF Invariant
<1>1. /\ version' = version /\ since' \in Nat /\ since' <= since + 1
      /\ UNCHANGED <<pc, table, got>>
      /\ \A r \in Requests : pc[r] # "ready"
  BY DEF Tick
<1>2. ASSUME NEW v, NEW a \in Int, Good(v, a, version, since)
      PROVE  Good(v, a + 1, version', since')
  BY <1>1, <1>2, GoodAges
<1>3. Kept'
  <2>1. ASSUME NEW t \in Tables, cache'[t] # None
        PROVE  Good(cache'[t], TTL + StepTime - ttl'[t], version', since')
    <3>1. cache'[t] = cache[t] /\ ttl'[t] = ttl[t] - 1 /\ cache[t] # None
      BY <2>1 DEF Tick
    <3>2. Good(cache[t], TTL + StepTime - ttl[t], version, since)
      BY <2>1, <3>1 DEF Kept
    <3>3. TTL + StepTime - ttl[t] \in Int
      OBVIOUS
    <3>4. (TTL + StepTime - ttl[t]) + 1 = TTL + StepTime - ttl'[t]
      BY <3>1
    <3> QED
      BY <1>2, <3>1, <3>2, <3>3, <3>4
  <2> QED
    BY <2>1 DEF Kept
<1>4. ASSUME NEW r \in Requests PROVE Dated(r)'
  <2>1. Dated(r)
    OBVIOUS
  <2>2. CASE pc[r] = "idle"
    BY <1>1, <2>1, <2>2 DEF Dated, Rows, First, Both, StartsWithIncome
  <2>3. CASE pc[r] \in {"get", "select", "store"}
    <3>1. taken'[r] = taken[r] + 1
      BY <2>3 DEF Tick
    <3>2. Spent(r)' = Spent(r) + 1
      BY <1>1, <2>3, <3>1 DEF Spent
    <3>3. Rows(r)'
      BY <1>1, <1>2, <2>1, <3>1 DEF Dated, Rows
    <3>4. First(r)'
      <4>1. TTL + StepTime + Spent(r) \in Int
            /\ TTL + StepTime + Spent(r)' = (TTL + StepTime + Spent(r)) + 1
        BY <3>2
      <4> QED
        BY <1>1, <1>2, <2>1, <4>1 DEF Dated, First
    <3> QED
      BY <1>1, <2>3, <3>3, <3>4 DEF Dated, Both, StartsWithIncome
  <2> QED
    BY <1>1, <2>2, <2>3 DEF TypeOK
<1> QED
  BY <1>3, <1>4

LEMMA InvariantStep == Invariant /\ [Next]_vars => Invariant'
<1> SUFFICES ASSUME Invariant, [Next]_vars
             PROVE  Kept' /\ \A r \in Requests : Dated(r)'
  BY TypeStep DEF Invariant
<1>1. ASSUME NEW r \in Requests, RequestNext(r)
      PROVE  Kept' /\ \A q \in Requests : Dated(q)'
  <2>1. StepOf(r)
    BY <1>1, StepsAreLocal DEF Invariant
  <2>2. \A q \in Requests \ {r} : Dated(q)'
    BY <2>1, OthersStay DEF StepOf, Invariant
  <2> QED
    BY <1>1, <2>2, RequestDated, RequestKept
<1>2. CASE InvalidateCache
  <2>1. \A t \in Tables : cache'[t] = None
    BY <1>2 DEF InvalidateCache, Invalidated
  <2>2. \A r \in Requests : Dated(r)'
    BY <1>2, OthersStay DEF InvalidateCache, requests, Invariant
  <2> QED
    BY <2>1, <2>2 DEF Kept
<1>3. CASE UNCHANGED vars
  <2>1. \A r \in Requests : Dated(r)'
    BY <1>3, OthersStay DEF vars, requests, Invariant
  <2> QED
    BY <1>3, <2>1 DEF vars, Kept, Invariant
<1> QED
  BY <1>1, <1>2, <1>3, PublishStep, TickStep DEF Next, RequestNext

LEMMA InvariantInit == Init => Invariant
<1> SUFFICES ASSUME Init
             PROVE  Invariant
  OBVIOUS
<1>1. TypeOK
  <2>1. version \in Versions /\ since \in 0..Settled
    BY Times DEF Init, Versions
  <2>2. /\ cache \in [Tables -> Versions \cup {None}] /\ ttl \in [Tables -> 0..TTL]
        /\ pc \in [Requests -> {"idle", "get", "select", "store", "ready"}]
        /\ table \in [Requests -> Tables]
        /\ got \in [Requests -> [Tables -> Versions \cup {BuiltIn, None}]]
        /\ taken \in [Requests -> 0..StepTime]
    BY Times DEF Init, Nothing, Tables
  <2>3. quoted \in BOOLEAN /\ flushed \in BOOLEAN /\ raced \subseteq Tables
    BY DEF Init
  <2> QED
    BY <2>1, <2>2, <2>3 DEF TypeOK
<1>2. Kept
  BY DEF Init, Kept, Nothing
<1>3. \A r \in Requests : Dated(r)
  BY DEF Init, Dated, Rows, First, Both, StartsWithIncome
<1> QED
  BY <1>1, <1>2, <1>3 DEF Invariant

LEMMA InvariantAlways == Spec => []Invariant
BY InvariantInit, InvariantStep, PTL DEF Spec

-----------------------------------------------------------------------------
(* Theorems *)

\* The variables of the estimator keep their types.
THEOREM TypeCorrect == Spec => []TypeOK
BY InvariantAlways, PTL DEF Invariant

\* An estimate uses the built-in tables or tables superseded no longer ago than a
\* key lives and four statements take (rate_table_service.py:21-78,
\* eligibility.py:56-68).
THEOREM StaleAtMostCorrect == Spec => []StaleAtMost
<1>1. Invariant => StaleAtMost
  BY DEF Invariant, Dated, Both, Good, StaleAtMost
<1> QED
  BY <1>1, InvariantAlways, PTL

\* After an invalidation an old table is in the cache, or about to be stored there,
\* only if a reader then had it on its way.
OldRowsRaced ==
    flushed => \A r \in Requests :
        pc[r] = "store" /\ got[r][table[r]] # version => table[r] \in raced

\* The next request after an invalidation reads the database, unless a reader
\* overtaken by it refills the cache (rate_table_service.py:81).
THEOREM RefillCorrect == Spec => []RefilledOnlyByRace
<1>1. Init => RefilledOnlyByRace /\ OldRowsRaced
  BY DEF Init, RefilledOnlyByRace, OldRowsRaced
<1>2. ASSUME Invariant, RefilledOnlyByRace, OldRowsRaced, [Next]_vars
      PROVE  RefilledOnlyByRace' /\ OldRowsRaced'
  <2> USE <1>2 DEF RefilledOnlyByRace, OldRowsRaced
  <2>t. /\ pc \in [Requests -> {"idle", "get", "select", "store", "ready"}]
        /\ table \in [Requests -> Tables]
        /\ got \in [Requests -> [Tables -> Versions \cup {BuiltIn, None}]]
        /\ cache \in [Tables -> Versions \cup {None}]
    BY DEF Invariant, TypeOK
  <2>1. ASSUME NEW r \in Requests, Store(r)
        PROVE  RefilledOnlyByRace' /\ OldRowsRaced'
    <3>1. /\ cache' = [cache EXCEPT ![table[r]] = got[r][table[r]]] /\ pc[r] = "store"
          /\ UNCHANGED <<version, flushed, raced>> /\ pc'[r] # "store"
          /\ \A q \in Requests \ {r} : pc'[q] = pc[q] /\ table'[q] = table[q]
                                       /\ got'[q] = got[q]
      BY <2>t, <2>1 DEF Store, Proceed, Goto
    <3>2. OldRowsRaced'
      BY <3>1
    <3>3. RefilledOnlyByRace'
      BY <2>t, <3>1
    <3> QED
      BY <3>2, <3>3
  <2>2. ASSUME NEW r \in Requests, Select(r), ~Refused(r)
        PROVE  RefilledOnlyByRace' /\ OldRowsRaced'
    BY <2>t, <2>2 DEF Select, Goto
  <2>3. ASSUME NEW r \in Requests,
               Begin(r) \/ Hit(r) \/ Miss(r) \/ FallsBack(r) \/ Finish(r)
        PROVE  RefilledOnlyByRace' /\ OldRowsRaced'
    <3>1. /\ UNCHANGED <<version, cache, flushed, raced>> /\ pc'[r] # "store"
          /\ \A q \in Requests \ {r} : pc'[q] = pc[q] /\ table'[q] = table[q]
                                       /\ got'[q] = got[q]
      BY <2>t, <2>3 DEF Begin, Hit, Miss, FallsBack, Finish, Proceed, Goto
    <3> QED
      BY <3>1
  <2>4. CASE Publish
    BY <2>4 DEF Publish
  <2>5. CASE InvalidateCache
    BY <2>t, <2>5 DEF InvalidateCache, Invalidated, OnItsWay, requests
  <2>6. CASE Tick
    BY <2>6 DEF Tick
  <2>7. CASE UNCHANGED vars
    BY <2>7 DEF vars, requests
  <2> QED
    BY <2>1, <2>2, <2>3, <2>4, <2>5, <2>6, <2>7
       DEF Next, Select, Fails, Answer, Aborts
<1> QED
  BY <1>1, <1>2, InvariantAlways, PTL DEF Spec

-----------------------------------------------------------------------------
(* The estimate                                                              *)

LEMMA Sizes == MaxRateTableFamilySize = 7 /\ FamilySizes = 1..7 /\ FamilySizes \ {1} = 2..7
  BY DEF MaxRateTableFamilySize, FamilySizes

\* Tables of amounts.
RateTable(rates) == \A n \in FamilySizes, c \in ClientTypes : rates[n][c] \in Int
LimitTable(limits) == \A c \in Categories : limits[c] \in Int

\* The rates of 2023 rise with a designation and with the family, in every column.
LEMMA CodeRatesRise == RateTable(IncomeRates2023) /\ RatesRise(IncomeRates2023)
<1>1. /\ IncomeRates2023[1] = Row(106000,      0, 153550,      0,      0)
      /\ IncomeRates2023[2] = Row(165000, 140500, 212550, 188050, 265250)
      /\ IncomeRates2023[3] = Row(184500, 150000, 232050, 197550, 284750)
      /\ IncomeRates2023[4] = Row(189500, 155000, 237050, 202550, 289750)
      /\ IncomeRates2023[5] = Row(194500, 160000, 242050, 207550, 294750)
      /\ IncomeRates2023[6] = Row(199500, 165000, 247050, 212550, 299750)
      /\ IncomeRates2023[7] = Row(204500, 170000, 252050, 217550, 304750)
  BY DEF IncomeRates2023
<1>2. \A a, b, c, d, e :
        /\ Row(a, b, c, d, e)["A"] = a /\ Row(a, b, c, d, e)["B"] = b
        /\ Row(a, b, c, d, e)["C"] = c /\ Row(a, b, c, d, e)["D"] = d
        /\ Row(a, b, c, d, e)["E"] = e
  BY DEF Row
<1>3. \A n \in 1..7, c \in ClientTypes : IncomeRates2023[n][c] \in Int
  BY <1>1, <1>2 DEF ClientTypes
<1>4. \A n \in 1..7, c \in ClientTypes : HasRate(n, c) => IncomeRates2023[n][c] > 0
  BY <1>1, <1>2, Sizes DEF ClientTypes, HasRate
<1>5. \A n \in 1..7 : IncomeRates2023[n]["A"] <= IncomeRates2023[n]["C"]
  BY <1>1, <1>2
<1>6. \A n \in 2..7 : /\ IncomeRates2023[n]["B"] <= IncomeRates2023[n]["D"]
                      /\ IncomeRates2023[n]["C"] <= IncomeRates2023[n]["E"]
  BY <1>1, <1>2
<1>7. \A n \in 2..6, c \in ClientTypes : IncomeRates2023[n][c] <= IncomeRates2023[n + 1][c]
  BY <1>1, <1>2 DEF ClientTypes
<1>8. /\ IncomeRates2023[1]["A"] <= IncomeRates2023[2]["B"]
      /\ IncomeRates2023[1]["C"] <= IncomeRates2023[2]["D"]
  BY <1>1, <1>2
<1>9. MaxRateTableFamilySize - 1 = 6
  BY Sizes
<1> QED
  BY <1>3, <1>4, <1>5, <1>6, <1>7, <1>8, <1>9, Sizes DEF RateTable, RatesRise

LEMMA CodeLimitsRise == LimitTable(AssetLimits2023) /\ LimitsRise(AssetLimits2023)
  BY DEF AssetLimits2023, LimitTable, LimitsRise, Categories

\* Every table an estimate may be over.
LEMMA TablesOfAmounts ==
    ASSUME NEW v \in Versions \cup {BuiltIn}
    PROVE  RateTable(RatesOf(v)) /\ LimitTable(LimitsOf(v))
<1>1. CASE v < 1
  BY <1>1, CodeRatesRise, CodeLimitsRise DEF RatesOf, LimitsOf
<1>2. CASE ~(v < 1)
  <2>1. v \in 1..MaxVersion
    BY <1>2, TimesAssumption DEF Versions, BuiltIn
  <2>2. /\ PublishedRates[v] \in [FamilySizes -> [ClientTypes -> Int]]
        /\ PublishedLimits[v] \in [Categories -> Int]
    BY <2>1, TablesAssumption
  <2>3. RatesOf(v) = PublishedRates[v] /\ LimitsOf(v) = PublishedLimits[v]
    BY <1>2 DEF RatesOf, LimitsOf
  <2> QED
    BY <2>2, <2>3 DEF RateTable, LimitTable
<1> QED
  BY <1>1, <1>2

\* The code's own tables rise, so what NoPenalty asks of tables holds of all it is about.
LEMMA TablesRise ==
    ASSUME NEW v \in Versions \cup {BuiltIn}
    PROVE  /\ v < 1 \/ RatesRise(RatesOf(v)) => RatesRise(RatesOf(v))
           /\ v < 1 \/ LimitsRise(LimitsOf(v)) => LimitsRise(LimitsOf(v))
  BY CodeRatesRise, CodeLimitsRise DEF RatesOf, LimitsOf

\* A higher rate and a higher limit, of the same tables or others, give no lower estimate.
LEMMA EstimateRises ==
    ASSUME NEW rates, NEW limits, NEW others, NEW bounds, NEW p, NEW q,
           TotalAssets(p) \in Int, TotalAssets(q) = TotalAssets(p),
           TotalIncome(p) \in Int, TotalIncome(q) = TotalIncome(p),
           IncomeLimit(rates, p) \in Int, IncomeLimit(others, q) \in Int,
           limits[AssetLimitCategory(p)] \in Int, bounds[AssetLimitCategory(q)] \in Int,
           IncomeLimit(rates, p) <= IncomeLimit(others, q),
           limits[AssetLimitCategory(p)] <= bounds[AssetLimitCategory(q)]
    PROVE  Calculate(rates, limits, p).estimated_amount
             <= Calculate(others, bounds, q).estimated_amount
<1> DEFINE Estimate(r, l, req) ==
      IF TotalAssets(req) > l[AssetLimitCategory(req)] THEN 0
      ELSE IF IncomeLimit(r, req) - TotalIncome(req) <= 0 THEN 0
      ELSE IncomeLimit(r, req) - TotalIncome(req)
<1>1. \A r, l, req : Calculate(r, l, req).estimated_amount = Estimate(r, l, req)
  BY DEF Calculate, Response
<1>2. Estimate(rates, limits, p) <= Estimate(others, bounds, q)
  OBVIOUS
<1> QED
  BY <1>1, <1>2

LEMMA RequestFields ==
    ASSUME NEW req \in EligibilityRequest(Nat)
    PROVE  /\ req.relationship_status \in {"SINGLE", "COUPLE"}
           /\ req.num_dependants \in 0..20
           /\ req.applicant_pwd \in BOOLEAN /\ req.spouse_pwd \in BOOLEAN
           /\ TotalIncome(req) \in Nat /\ TotalAssets(req) \in Nat
           /\ ~IsCouple(req) => ~req.spouse_pwd
  BY DEF EligibilityRequest, Valid, IsCouple, TotalIncome, TotalAssets

\* What a request shares with one that differs in a field.
LEMMA WithOneField ==
    ASSUME NEW req \in EligibilityRequest(Nat), NEW value, NEW q,
           q \in {[req EXCEPT !.applicant_pwd = value], [req EXCEPT !.spouse_pwd = value],
                 [req EXCEPT !.num_dependants = value]}
    PROVE  /\ TotalAssets(q) = TotalAssets(req) /\ TotalIncome(q) = TotalIncome(req)
           /\ q.relationship_status = req.relationship_status
           /\ q = [req EXCEPT !.applicant_pwd = value]
                => /\ q.num_dependants = req.num_dependants
                   /\ q.applicant_pwd = value /\ q.spouse_pwd = req.spouse_pwd
           /\ q = [req EXCEPT !.spouse_pwd = value]
                => /\ q.num_dependants = req.num_dependants
                   /\ q.applicant_pwd = req.applicant_pwd /\ q.spouse_pwd = value
           /\ q = [req EXCEPT !.num_dependants = value]
                => /\ q.num_dependants = value
                   /\ q.applicant_pwd = req.applicant_pwd /\ q.spouse_pwd = req.spouse_pwd
<1>1. /\ TotalAssets(q) = TotalAssets(req) /\ TotalIncome(q) = TotalIncome(req)
      /\ q.relationship_status = req.relationship_status
  BY DEF EligibilityRequest, TotalAssets, TotalIncome
<1>2. q = [req EXCEPT !.applicant_pwd = value]
        => /\ q.num_dependants = req.num_dependants
           /\ q.applicant_pwd = value /\ q.spouse_pwd = req.spouse_pwd
  BY DEF EligibilityRequest
<1>3. q = [req EXCEPT !.spouse_pwd = value]
        => /\ q.num_dependants = req.num_dependants
           /\ q.applicant_pwd = req.applicant_pwd /\ q.spouse_pwd = value
  BY DEF EligibilityRequest
<1>4. q = [req EXCEPT !.num_dependants = value]
        => /\ q.num_dependants = value
           /\ q.applicant_pwd = req.applicant_pwd /\ q.spouse_pwd = req.spouse_pwd
  BY DEF EligibilityRequest
<1> QED
  BY <1>1, <1>2, <1>3, <1>4

\* Row of the table, and column, by the four things they depend on.
LEMMA FamilyRow ==
    ASSUME NEW req, req.num_dependants \in Nat
    PROVE  /\ Capped(FamilySize(req)) \in 1..7
           /\ IsCouple(req) \/ HasDependants(req) <=> Capped(FamilySize(req)) \in 2..7
  BY DEF Capped, FamilySize, MaxRateTableFamilySize, IsCouple, HasDependants

LEMMA FamilyRate ==
    ASSUME NEW rates, RateTable(rates), NEW req, req.num_dependants \in Nat
    PROVE  IncomeLimit(rates, req) \in Int
<1>1. Capped(FamilySize(req)) \in FamilySizes
  BY FamilyRow, Sizes
<1>2. ClassifyClientType(req) \in ClientTypes
  BY DEF ClassifyClientType, ClientTypes
<1> QED
  BY <1>1, <1>2 DEF RateTable, IncomeLimit

LEMMA FamilyLimit ==
    ASSUME NEW limits, LimitTable(limits), NEW req
    PROVE  AssetLimitCategory(req) \in Categories /\ limits[AssetLimitCategory(req)] \in Int
  BY DEF LimitTable, AssetLimitCategory, Categories

LEMMA FamilyHasRate ==
    ASSUME NEW rates, RatesRise(rates), NEW req, req.num_dependants \in Nat
    PROVE  IncomeLimit(rates, req) > 0
<1> DEFINE n == Capped(FamilySize(req))
           c == ClassifyClientType(req)
<1>1. n \in 1..7 /\ c \in ClientTypes
  BY FamilyRow DEF ClassifyClientType, ClientTypes
<1>2. IsCouple(req) \/ HasDependants(req) => n \in 2..7
  BY FamilyRow
<1>3. ~IsCouple(req) /\ ~HasDependants(req) => c \in {"A", "C"}
  BY DEF ClassifyClientType
<1>4. HasRate(n, c)
  <2>1. CASE IsCouple(req) \/ HasDependants(req)
    BY <1>1, <1>2, <2>1, Sizes DEF HasRate
  <2>2. CASE ~IsCouple(req) /\ ~HasDependants(req)
    BY <1>1, <1>3, <2>2, Sizes DEF HasRate
  <2> QED
    BY <2>1, <2>2
<1>5. IncomeLimit(rates, req) = rates[n][c]
  BY DEF IncomeLimit
<1> HIDE DEF n, c
<1> QED
  BY <1>1, <1>4, <1>5, Sizes DEF RatesRise

\* Two families of one size: the designations of one include those of the other.
LEMMA DesignationRises ==
    ASSUME NEW rates, NEW limits, RateTable(rates), LimitTable(limits),
           RatesRise(rates), LimitsRise(limits),
           NEW p, NEW q, p.num_dependants \in Nat,
           q.num_dependants = p.num_dependants, q.relationship_status = p.relationship_status,
           q.applicant_pwd \in {p.applicant_pwd, TRUE}, q.spouse_pwd \in {p.spouse_pwd, TRUE},
           IsCouple(p) \/ ~q.spouse_pwd
    PROVE  /\ IncomeLimit(rates, p) <= IncomeLimit(rates, q)
           /\ limits[AssetLimitCategory(p)] <= limits[AssetLimitCategory(q)]
<1> DEFINE n == Capped(FamilySize(p))
<1>0. (p.applicant_pwd => q.applicant_pwd) /\ (p.spouse_pwd => q.spouse_pwd)
  BY Zenon
<1>1. Capped(FamilySize(q)) = n /\ n \in 1..7
  BY FamilyRow DEF FamilySize, IsCouple
<1>2. (IsCouple(q) <=> IsCouple(p)) /\ (HasDependants(q) <=> HasDependants(p))
  BY DEF IsCouple, HasDependants
<1>3. LET c == ClassifyClientType(p)
          d == ClassifyClientType(q)
      IN  \/ d = c
          \/ c = "A" /\ d = "C"
          \/ n \in 2..7 /\ <<c, d>> \in {<<"A", "E">>, <<"B", "D">>, <<"C", "E">>}
  BY <1>0, <1>2, FamilyRow DEF ClassifyClientType
<1>4. IncomeLimit(rates, p) <= IncomeLimit(rates, q)
  <2>1. /\ IncomeLimit(rates, p) = rates[n][ClassifyClientType(p)]
        /\ IncomeLimit(rates, q) = rates[n][ClassifyClientType(q)]
    BY <1>1 DEF IncomeLimit
  <2>2. IncomeLimit(rates, p) \in Int
    BY FamilyRate
  <2>3. \A c \in ClientTypes : rates[n][c] \in Int
    BY <1>1, Sizes DEF RateTable
  <2> HIDE DEF n
  <2> QED
    BY <1>1, <1>3, <2>1, <2>2, <2>3, Sizes DEF RatesRise, ClientTypes
<1>5. limits[AssetLimitCategory(p)] <= limits[AssetLimitCategory(q)]
  <2>1. /\ limits["A"] \in Int /\ limits["B"] \in Int /\ limits["C"] \in Int /\ limits["D"] \in Int
        /\ limits["A"] <= limits["B"] /\ limits["B"] <= limits["C"] /\ limits["C"] <= limits["D"]
    BY DEF LimitTable, Categories, LimitsRise
  <2> QED
    BY <1>0, <1>2, <2>1 DEF AssetLimitCategory
<1> QED
  BY <1>4, <1>5

\* One dependant more: a single applicant changes column with the first one.
LEMMA DependantRises ==
    ASSUME NEW rates, NEW limits, RateTable(rates), LimitTable(limits),
           RatesRise(rates), LimitsRise(limits),
           NEW p, NEW q, p.num_dependants \in Nat,
           q.num_dependants = p.num_dependants + 1,
           q.relationship_status = p.relationship_status,
           q.applicant_pwd = p.applicant_pwd, q.spouse_pwd = p.spouse_pwd,
           ~IsCouple(p) => ~p.spouse_pwd
    PROVE  /\ IncomeLimit(rates, p) <= IncomeLimit(rates, q)
           /\ limits[AssetLimitCategory(p)] <= limits[AssetLimitCategory(q)]
<1> DEFINE n == Capped(FamilySize(p))
           m == Capped(FamilySize(q))
           c == ClassifyClientType(p)
           d == ClassifyClientType(q)
<1>1. n \in 1..7 /\ m = IF n < 7 THEN n + 1 ELSE 7
  BY DEF FamilySize, IsCouple, Capped, MaxRateTableFamilySize
<1>0. MaxRateTableFamilySize - 1 = 6
  BY Sizes
<1>2. (IsCouple(q) <=> IsCouple(p)) /\ HasDependants(q)
  BY DEF IsCouple, HasDependants
<1>3. c \in ClientTypes
  BY DEF ClassifyClientType, ClientTypes
<1>4. \/ n \in 2..7 /\ d = c
      \/ n = 1 /\ <<c, d>> \in {<<"A", "B">>, <<"C", "D">>}
  <2>1. CASE IsCouple(p) \/ HasDependants(p)
    <3>1. d = c
      BY <1>2, <2>1 DEF ClassifyClientType
    <3> QED
      BY <2>1, <3>1, FamilyRow
  <2>2. CASE ~IsCouple(p) /\ ~HasDependants(p)
    <3>1. <<c, d>> \in {<<"A", "B">>, <<"C", "D">>}
      BY <1>2, <2>2 DEF ClassifyClientType
    <3>2. n = 1
      BY <1>1, <2>2, FamilyRow
    <3> QED
      BY <3>1, <3>2
  <2> QED
    BY <2>1, <2>2
<1>5. IncomeLimit(rates, p) <= IncomeLimit(rates, q)
  <2>1. IncomeLimit(rates, p) = rates[n][c] /\ IncomeLimit(rates, q) = rates[m][d]
    BY DEF IncomeLimit
  <2>2. IncomeLimit(rates, p) \in Int
    BY FamilyRate
  <2> HIDE DEF n, m, c, d
  <2>3. CASE n \in 2..6 /\ d = c
    BY <1>0, <1>1, <1>3, <2>1, <2>3 DEF RatesRise
  <2>4. CASE n = 7 /\ d = c
    BY <1>1, <2>1, <2>2, <2>4
  <2>5. CASE n = 1 /\ <<c, d>> \in {<<"A", "B">>, <<"C", "D">>}
    BY <1>1, <2>1, <2>5 DEF RatesRise
  <2> QED
    BY <1>4, <2>3, <2>4, <2>5
<1>6. limits[AssetLimitCategory(p)] <= limits[AssetLimitCategory(q)]
  <2>1. /\ limits["A"] \in Int /\ limits["B"] \in Int /\ limits["C"] \in Int /\ limits["D"] \in Int
        /\ limits["A"] <= limits["B"] /\ limits["B"] <= limits["C"] /\ limits["C"] <= limits["D"]
    BY DEF LimitTable, Categories, LimitsRise
  <2> QED
    BY <1>2, <2>1 DEF AssetLimitCategory
<1> QED
  BY <1>5, <1>6

\* What a request that gives an estimate has read.
LEMMA ReadTables ==
    ASSUME Invariant, NEW r \in Requests, pc[r] = "ready"
    PROVE  /\ \A t \in Tables : got[r][t] \in Versions \cup {BuiltIn}
           /\ got[r] # Fallback /\ version > 0
                => \A t \in Tables : got[r][t] \in {version - 1, version}
<1>1. version \in Versions /\ MaxVersion \in Nat
  BY TimesAssumption DEF Invariant, TypeOK
<1>2. Both(r)
  BY DEF Invariant, Dated
<1>3. CASE got[r] = Fallback
  BY <1>3 DEF Fallback
<1>4. CASE got[r] # Fallback
  <2>1. \A t \in Tables : got[r][t] = version \/ (got[r][t] = version - 1 /\ version > 0)
    BY <1>2, <1>4 DEF Both, Good
  <2> QED
    BY <1>1, <2>1 DEF Versions
<1> QED
  BY <1>3, <1>4

\* Over the code's own figures, and over published ones that rise with a designation
\* and with the family, every family has a rate, and neither a designation nor one more
\* dependant lowers the estimate, for every valid request and every mixture of versions
\* (calculator.py:33-113, migration 0003, eligibility.py:22-43).
THEOREM NoPenaltyCorrect == Spec => []NoPenalty
<1>1. ASSUME NEW v \in Versions \cup {BuiltIn}, NEW w \in Versions \cup {BuiltIn},
             v < 1 \/ RatesRise(RatesOf(v)), w < 1 \/ LimitsRise(LimitsOf(w)),
             NEW req \in Inputs
      PROVE  /\ IncomeLimit(RatesOf(v), req) > 0
             /\ Amount(v, w, req) <= Amount(v, w, [req EXCEPT !.applicant_pwd = TRUE])
             /\ IsCouple(req)
                  => Amount(v, w, req) <= Amount(v, w, [req EXCEPT !.spouse_pwd = TRUE])
             /\ req.num_dependants < 20
                  => Amount(v, w, req) <= Amount(v, w, [req EXCEPT !.num_dependants = @ + 1])
  <2> DEFINE rates == RatesOf(v)
             limits == LimitsOf(w)
             Same(q) == /\ TotalAssets(q) = TotalAssets(req)
                        /\ TotalIncome(q) = TotalIncome(req)
                        /\ q.relationship_status = req.relationship_status
  <2>0. \A x : Amount(v, w, x) = Calculate(rates, limits, x).estimated_amount
    BY DEF Amount
  <2>1. /\ RateTable(rates) /\ LimitTable(limits)
        /\ RatesRise(rates) /\ LimitsRise(limits)
    BY <1>1, TablesOfAmounts, TablesRise
  <2>2. req \in EligibilityRequest(Nat)
    BY InputsAssumption
  <2>3. /\ req.num_dependants \in 0..20 /\ req.num_dependants \in Nat
        /\ TotalIncome(req) \in Nat /\ TotalAssets(req) \in Nat
        /\ ~IsCouple(req) => ~req.spouse_pwd
    BY <2>2, RequestFields
  <2> HIDE DEF rates, limits
  <2>4. ASSUME NEW q, Same(q), q.num_dependants \in Nat,
               IncomeLimit(rates, req) <= IncomeLimit(rates, q),
               limits[AssetLimitCategory(req)] <= limits[AssetLimitCategory(q)]
        PROVE  Amount(v, w, req) <= Amount(v, w, q)
    <3>1. IncomeLimit(rates, req) \in Int /\ IncomeLimit(rates, q) \in Int
      BY <2>1, <2>3, <2>4, FamilyRate
    <3>2. limits[AssetLimitCategory(req)] \in Int /\ limits[AssetLimitCategory(q)] \in Int
      BY <2>1, FamilyLimit
    <3>3. Calculate(rates, limits, req).estimated_amount
            <= Calculate(rates, limits, q).estimated_amount
      BY <2>3, <2>4, <3>1, <3>2, EstimateRises
    <3> QED
      BY <2>0, <3>3
  <2>5. IncomeLimit(rates, req) > 0
    BY <2>1, <2>3, FamilyHasRate
  <2>6. Amount(v, w, req) <= Amount(v, w, [req EXCEPT !.applicant_pwd = TRUE])
    <3> DEFINE q == [req EXCEPT !.applicant_pwd = TRUE]
    <3>1. /\ Same(q) /\ q.num_dependants = req.num_dependants
          /\ q.applicant_pwd = TRUE /\ q.spouse_pwd = req.spouse_pwd
      BY <2>2, WithOneField
    <3> HIDE DEF q
    <3>2. /\ q.applicant_pwd \in {req.applicant_pwd, TRUE}
          /\ q.spouse_pwd \in {req.spouse_pwd, TRUE}
          /\ IsCouple(req) \/ ~q.spouse_pwd
      BY <2>3, <3>1, Zenon
    <3>3. /\ IncomeLimit(rates, req) <= IncomeLimit(rates, q)
          /\ limits[AssetLimitCategory(req)] <= limits[AssetLimitCategory(q)]
      BY <2>1, <2>3, <3>1, <3>2, DesignationRises, Zenon
    <3>4. Amount(v, w, req) <= Amount(v, w, q)
      BY <2>3, <2>4, <3>1, <3>3
    <3> QED
      BY <3>4 DEF q
  <2>7. ASSUME IsCouple(req)
        PROVE  Amount(v, w, req) <= Amount(v, w, [req EXCEPT !.spouse_pwd = TRUE])
    <3> DEFINE q == [req EXCEPT !.spouse_pwd = TRUE]
    <3>1. /\ Same(q) /\ q.num_dependants = req.num_dependants
          /\ q.applicant_pwd = req.applicant_pwd /\ q.spouse_pwd = TRUE
      BY <2>2, WithOneField
    <3> HIDE DEF q
    <3>2. /\ q.applicant_pwd \in {req.applicant_pwd, TRUE}
          /\ q.spouse_pwd \in {req.spouse_pwd, TRUE}
          /\ IsCouple(req) \/ ~q.spouse_pwd
      BY <2>3, <2>7, <3>1, Zenon
    <3>3. /\ IncomeLimit(rates, req) <= IncomeLimit(rates, q)
          /\ limits[AssetLimitCategory(req)] <= limits[AssetLimitCategory(q)]
      BY <2>1, <2>3, <3>1, <3>2, DesignationRises, Zenon
    <3>4. Amount(v, w, req) <= Amount(v, w, q)
      BY <2>3, <2>4, <3>1, <3>3
    <3> QED
      BY <3>4 DEF q
  <2>8. Amount(v, w, req) <= Amount(v, w, [req EXCEPT !.num_dependants = @ + 1])
    <3> DEFINE q == [req EXCEPT !.num_dependants = @ + 1]
    <3>1. /\ Same(q) /\ q.num_dependants = req.num_dependants + 1
          /\ q.applicant_pwd = req.applicant_pwd /\ q.spouse_pwd = req.spouse_pwd
      <4>1. q = [req EXCEPT !.num_dependants = req.num_dependants + 1]
        OBVIOUS
      <4> HIDE DEF q
      <4> QED
        BY <2>2, <4>1, WithOneField
    <3> HIDE DEF q
    <3>2. /\ IncomeLimit(rates, req) <= IncomeLimit(rates, q)
          /\ limits[AssetLimitCategory(req)] <= limits[AssetLimitCategory(q)]
      BY <2>1, <2>3, <3>1, DependantRises
    <3>3. Amount(v, w, req) <= Amount(v, w, q)
      BY <2>3, <2>4, <3>1, <3>2
    <3> QED
      BY <3>3 DEF q
  <2> QED
    BY <2>5, <2>6, <2>7, <2>8 DEF rates
<1>2. ASSUME Invariant, NEW r \in Requests, pc[r] = "ready"
      PROVE  \A t \in Tables : got[r][t] \in Versions \cup {BuiltIn}
  BY <1>2, ReadTables
<1>3. Invariant => NoPenalty
  BY <1>1, <1>2 DEF NoPenalty, Tables
<1> QED
  BY <1>3, InvariantAlways, PTL

\* No figure is lower in the second pair of tables: nor is an estimate.
LEMMA RaisedEstimate ==
    ASSUME NEW v \in Versions \cup {BuiltIn}, NEW w \in Versions \cup {BuiltIn},
           NEW x \in Versions \cup {BuiltIn}, NEW y \in Versions \cup {BuiltIn},
           \A n \in FamilySizes, c \in ClientTypes : RatesOf(v)[n][c] <= RatesOf(x)[n][c],
           \A c \in Categories : LimitsOf(w)[c] <= LimitsOf(y)[c],
           NEW req \in Inputs
    PROVE  Amount(v, w, req) <= Amount(x, y, req)
<1>1. req.num_dependants \in Nat /\ TotalIncome(req) \in Int /\ TotalAssets(req) \in Int
  BY InputsAssumption, RequestFields
<1>2. IncomeLimit(RatesOf(v), req) \in Int /\ IncomeLimit(RatesOf(x), req) \in Int
  BY <1>1, TablesOfAmounts, FamilyRate
<1>3. /\ LimitsOf(w)[AssetLimitCategory(req)] \in Int
      /\ LimitsOf(y)[AssetLimitCategory(req)] \in Int
      /\ AssetLimitCategory(req) \in Categories
  BY TablesOfAmounts, FamilyLimit
<1>4. IncomeLimit(RatesOf(v), req) <= IncomeLimit(RatesOf(x), req)
  <2>1. Capped(FamilySize(req)) \in FamilySizes
    BY <1>1, FamilyRow, Sizes
  <2>2. ClassifyClientType(req) \in ClientTypes
    BY DEF ClassifyClientType, ClientTypes
  <2> QED
    BY <2>1, <2>2 DEF IncomeLimit
<1>5. LimitsOf(w)[AssetLimitCategory(req)] <= LimitsOf(y)[AssetLimitCategory(req)]
  BY <1>3
<1>6. Calculate(RatesOf(v), LimitsOf(w), req).estimated_amount
        <= Calculate(RatesOf(x), LimitsOf(y), req).estimated_amount
  BY <1>1, <1>2, <1>3, <1>4, <1>5, EstimateRises
<1> QED
  BY <1>6 DEF Amount

\* Where a publication lowered no figure, an estimate over an old and a new table lies
\* between the estimates over the superseded and over the new ones, whatever the figures
\* (rate_table_service.py:21-78, eligibility.py:56-68).
THEOREM EstimateBetweenCorrect == Spec => []EstimateBetween
<1>1. ASSUME Invariant, NEW r \in Requests, pc[r] = "ready", got[r] # Fallback,
             version > 0, Raised(version - 1, version), NEW req \in Inputs
      PROVE  /\ Amount(version - 1, version - 1, req)
                  <= Amount(got[r]["income"], got[r]["assets"], req)
             /\ Amount(got[r]["income"], got[r]["assets"], req)
                  <= Amount(version, version, req)
  <2> DEFINE v == got[r]["income"]
             w == got[r]["assets"]
             Below(x, y) == \A n \in FamilySizes, c \in ClientTypes :
                              RatesOf(x)[n][c] <= RatesOf(y)[n][c]
             Under(x, y) == \A c \in Categories : LimitsOf(x)[c] <= LimitsOf(y)[c]
  <2>1. v \in {version - 1, version} /\ w \in {version - 1, version}
    BY <1>1, ReadTables DEF Tables
  <2>2. version \in Versions /\ version - 1 \in Versions
    BY <1>1, TimesAssumption DEF Invariant, TypeOK, Versions
  <2>3. ASSUME NEW x \in Versions PROVE Below(x, x) /\ Under(x, x)
    BY TablesOfAmounts DEF RateTable, LimitTable
  <2>4. Below(version - 1, version) /\ Under(version - 1, version)
    BY <1>1 DEF Raised
  <2> HIDE DEF v, w, Below, Under
  <2>5. /\ Below(version - 1, v) /\ Below(v, version)
        /\ Under(version - 1, w) /\ Under(w, version)
    BY <2>1, <2>2, <2>3, <2>4
  <2>6. v \in Versions /\ w \in Versions
    BY <2>1, <2>2
  <2> USE DEF Below, Under
  <2>7. Amount(version - 1, version - 1, req) <= Amount(v, w, req)
    BY <2>2, <2>5, <2>6, RaisedEstimate
  <2>8. Amount(v, w, req) <= Amount(version, version, req)
    BY <2>2, <2>5, <2>6, RaisedEstimate
  <2> QED
    BY <2>7, <2>8 DEF v, w
<1>2. Invariant => EstimateBetween
  BY <1>1 DEF EstimateBetween
<1> QED
  BY <1>2, InvariantAlways, PTL

=============================================================================
