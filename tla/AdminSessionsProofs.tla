-------------------------- MODULE AdminSessionsProofs --------------------------
(* What the worker sessions guarantee for any number of workers, requests   *)
(* and steps, and any lifetime.                                             *)
(*                                                                          *)
(* The inductive invariant: a session's age and the time it has left always *)
(* make up its lifetime (Aged); what lies under a support view key, or is   *)
(* on its way there, belongs to the worker the key names (Owned); no        *)
(* creation is under way for an ended view (NoneUnderWay); the one AO login *)
(* comes before every AO session (LoginFirst); and a request that writes an *)
(* AO session back and was not overtaken has not fallen behind (InStep).    *)
EXTENDS AdminSessions, TLAPS

Sums(s) == s # None => s.left + s.age = Lifetime

Aged ==
    /\ \A k \in Keys : Sums(store[k])
    /\ \A r \in Requests : Sums(held[r])

Owned ==
    /\ \A w \in Workers : store[w] # None => store[w].worker = w
    /\ \A r \in Requests :
         /\ pc[r] \in {"creating", "storing"} =>
              /\ by[r] \in Workers
              /\ key[r] \in Workers => by[r] = key[r]
         /\ pc[r] = "storing" =>
              held[r] # None /\ held[r].worker = by[r] /\ held[r].step = 1
         /\ pc[r] = "writing" => key[r] = "ao" /\ held[r] # None

NoneUnderWay ==
    \A r \in Requests : pc[r] \in {"creating", "storing"} => key[r] \notin revoked

LoginFirst ==
    /\ \A r \in Requests :
         pc[r] \in {"creating", "storing"} /\ key[r] = "ao" =>
            /\ loggedIn /\ store["ao"] = None
            /\ \A q \in Requests \ {r} :
                 pc[q] \in {"creating", "storing", "writing"} => key[q] # "ao"
    /\ ~loggedIn => store["ao"] = None
                    /\ \A r \in Requests : pc[r] # "writing"

InStep ==
    \A r \in Requests :
        pc[r] = "writing" /\ r \notin stale /\ store["ao"] # None
            => store["ao"].step <= held[r].step

Invariant ==
    TypeOK /\ Aged /\ Owned /\ NoneUnderWay /\ ServedWithinLifetime /\ EndedStaysEnded

LEMMA OlderIsSession ==
    ASSUME NEW s \in AORegistrationSession \cup {None}, s # None => s.left + s.age = Lifetime
    PROVE  /\ Older(s) \in AORegistrationSession \cup {None}
           /\ s # None => Older(s) \in AORegistrationSession
           /\ Older(s) # None => /\ s # None
                                 /\ Older(s).worker = s.worker
                                 /\ Older(s).step = s.step
                                 /\ Older(s).left + Older(s).age = Lifetime
<1>1. CASE s = None
  BY <1>1 DEF Older
<1>2. CASE s # None
  <2> DEFINE left == IF s.left > 0 THEN s.left - 1 ELSE 0
             age == IF s.age < Lifetime THEN s.age + 1 ELSE Lifetime
  <2>1. /\ s.left \in 0..Lifetime /\ s.age \in 0..Lifetime
        /\ s.worker \in Workers /\ s.step \in 1..(MaxStep + 1)
        /\ s = [worker |-> s.worker, left |-> s.left, step |-> s.step, age |-> s.age]
    BY <1>2 DEF AORegistrationSession
  <2>2. left \in 0..Lifetime /\ age \in 0..Lifetime /\ left + age = Lifetime
    BY <1>2, <2>1, LifetimeAssumption
  <2>3. Older(s) = [worker |-> s.worker, left |-> left, step |-> s.step, age |-> age]
    BY <1>2, <2>1 DEF Older
  <2> HIDE DEF left, age
  <2> QED
    BY <1>2, <2>1, <2>2, <2>3 DEF AORegistrationSession
<1> QED
  BY <1>1, <1>2

LEMMA FreshIsSession ==
    ASSUME NEW w \in Workers
    PROVE  LET s == [worker |-> w, left |-> Lifetime, step |-> 1, age |-> 0]
           IN  s \in AORegistrationSession /\ s.left + s.age = Lifetime
<1>1. 1 \in 1..(MaxStep + 1) /\ 0 \in 0..Lifetime /\ Lifetime \in 0..Lifetime
  BY MaxStepAssumption, LifetimeAssumption
<1> QED
  BY <1>1, LifetimeAssumption DEF AORegistrationSession

LEMMA SubmittedIsSession ==
    ASSUME NEW s \in AORegistrationSession, NEW n \in 1..MaxStep
    PROVE  LET t == [s EXCEPT !.step = AdvanceStep(s.step, n)]
           IN  /\ t \in AORegistrationSession
               /\ t.worker = s.worker /\ t.left = s.left /\ t.age = s.age
               /\ s.step <= t.step
<1>1. /\ AdvanceStep(s.step, n) \in 1..(MaxStep + 1)
      /\ s.step <= AdvanceStep(s.step, n) /\ s.step \in 1..(MaxStep + 1)
  BY MaxStepAssumption DEF AdvanceStep, AORegistrationSession
<1> HIDE DEF AdvanceStep
<1> QED
  BY <1>1 DEF AORegistrationSession

\* What a handler stores is a session with its expiry, and fits its key.
LEMMA StoredIsSession ==
    ASSUME Invariant, NEW r \in Requests, pc[r] \in {"storing", "writing"}
    PROVE  /\ held[r] \in AORegistrationSession /\ Sums(held[r]) /\ key[r] \in Keys
           /\ key[r] \in Workers => /\ held[r].worker = key[r]
                                    /\ held[r] \in SupportViewSessionData
                                    /\ key[r] \notin revoked
BY WorkersAssumption
   DEF Invariant, TypeOK, Aged, Owned, NoneUnderWay, Keys, SupportViewSessionData

\* A usable session is young, and one under a support view key is its worker's.
LEMMA UsableIsYoung ==
    ASSUME Invariant, NEW k \in Keys, RequireSession(k)
    PROVE  /\ store[k] \in AORegistrationSession
           /\ store[k].age \in 0..Lifetime /\ store[k].age < Lifetime
           /\ store[k].worker \in Workers
BY LifetimeAssumption
   DEF Invariant, TypeOK, Aged, Sums, RequireSession, Unexpired, AORegistrationSession

\* The keys of Redis: what is stored fits its key and its lifetime, whoever writes.
LEMMA StoreStep ==
    ASSUME Invariant, [Next]_vars
    PROVE  /\ store' \in [Keys -> AORegistrationSession \cup {None}]
           /\ ttl' \in [Keys -> 0..Lifetime]
           /\ \A k \in Keys : Sums(store[k])'
           /\ \A w \in Workers : /\ store'[w] \in SupportViewSessionData \cup {None}
                                 /\ store'[w] # None => store'[w].worker = w
           /\ \A w \in Workers : store'[w] # None =>
                store[w] # None \/ \E r \in Requests : pc[r] = "storing" /\ key[r] = w
<1> DEFINE Kept ==
      /\ store' \in [Keys -> AORegistrationSession \cup {None}]
      /\ ttl' \in [Keys -> 0..Lifetime]
      /\ \A k \in Keys : Sums(store'[k])
      /\ \A w \in Workers : /\ store'[w] \in SupportViewSessionData \cup {None}
                            /\ store'[w] # None => store'[w].worker = w
      /\ \A w \in Workers : store'[w] # None =>
           store[w] # None \/ \E r \in Requests : pc[r] = "storing" /\ key[r] = w
<1>0. /\ store \in [Keys -> AORegistrationSession \cup {None}]
      /\ ttl \in [Keys -> 0..Lifetime]
      /\ \A k \in Keys : Sums(store[k])
      /\ \A w \in Workers : /\ store[w] \in SupportViewSessionData \cup {None}
                            /\ store[w] # None => store[w].worker = w
      /\ Workers \subseteq Keys /\ Lifetime \in 0..Lifetime /\ 0 \in 0..Lifetime
  BY LifetimeAssumption DEF Invariant, TypeOK, Aged, Owned, Keys
<1>1. ASSUME NEW r \in Requests, Store(r) PROVE Kept
  <2>1. /\ store' = [store EXCEPT ![key[r]] = held[r]]
        /\ ttl' = [ttl EXCEPT ![key[r]] = Lifetime]
        /\ pc[r] \in {"storing", "writing"}
    BY <1>1 DEF Store, SetEx
  <2>2. /\ held[r] \in AORegistrationSession /\ Sums(held[r]) /\ key[r] \in Keys
        /\ key[r] \in Workers => /\ held[r].worker = key[r]
                                 /\ held[r] \in SupportViewSessionData
    BY <2>1, StoredIsSession
  <2>3. key[r] \in Workers => pc[r] = "storing"
    BY <2>1, WorkersAssumption DEF Invariant, Owned
  <2> QED
    BY <1>0, <2>1, <2>2, <2>3
<1>2. ASSUME NEW k \in Keys, Delete(k) PROVE Kept
  BY <1>0, <1>2 DEF Delete, Sums
<1>3. ASSUME Tick PROVE Kept
  <2>1. /\ store' = [k \in Keys |-> IF ttl[k] <= 1 THEN None ELSE Older(store[k])]
        /\ ttl' = [k \in Keys |-> IF ttl[k] > 0 THEN ttl[k] - 1 ELSE 0]
    BY <1>3 DEF Tick
  <2>2. ttl' \in [Keys -> 0..Lifetime]
    BY <1>0, <2>1, LifetimeAssumption
  <2>3. \A k \in Keys :
          /\ store'[k] \in AORegistrationSession \cup {None}
          /\ store'[k] # None => /\ store[k] # None
                                 /\ store'[k].worker = store[k].worker
                                 /\ store'[k].step = store[k].step
                                 /\ store'[k].left + store'[k].age = Lifetime
    BY <1>0, <2>1, OlderIsSession DEF Sums
  <2> QED
    BY <1>0, <2>1, <2>2, <2>3 DEF Sums, SupportViewSessionData
<1>4. ASSUME UNCHANGED <<store, ttl>> PROVE Kept
  BY <1>0, <1>4
<1>5. Kept
  <2>1. ASSUME NEW r \in Requests, DeleteExpired(r) PROVE Kept
    BY <1>2, <2>1 DEF DeleteExpired, Invariant, TypeOK
  <2>2. ASSUME NEW w \in Workers, End(w) PROVE Kept
    BY <1>0, <1>2, <2>2 DEF End, EndSession
  <2> QED
    BY <1>1, <1>3, <1>4, <2>1, <2>2 DEF Next, vars, BeginLogin, BeginTombstone,
       FindExpired, BeginSubmit, Build, Dies, GetClientData, UseAOSession
<1> QED
  BY <1>5 DEF Sums

\* The requests: places, keys and objects fit together.
LEMMA RequestStep ==
    ASSUME Invariant, [Next]_vars
    PROVE  /\ pc' \in [Requests -> {"idle", "creating", "storing", "expiring", "writing"}]
           /\ by' \in [Requests -> Workers \cup {None}]
           /\ key' \in [Requests -> Keys]
           /\ held' \in [Requests -> AORegistrationSession \cup {None}]
           /\ \A r \in Requests : Sums(held'[r])
           /\ \A r \in Requests :
                /\ pc'[r] \in {"creating", "storing"} =>
                     /\ by'[r] \in Workers
                     /\ key'[r] \in Workers => by'[r] = key'[r]
                /\ pc'[r] = "storing" =>
                     held'[r] # None /\ held'[r].worker = by'[r] /\ held'[r].step = 1
                /\ pc'[r] = "writing" => key'[r] = "ao" /\ held'[r] # None
<1> DEFINE Fits(p, w, k, s) ==
      /\ p \in {"idle", "creating", "storing", "expiring", "writing"}
      /\ w \in Workers \cup {None} /\ k \in Keys
      /\ s \in AORegistrationSession \cup {None} /\ Sums(s)
      /\ p \in {"creating", "storing"} => w \in Workers /\ (k \in Workers => w = k)
      /\ p = "storing" => s # None /\ s.worker = w /\ s.step = 1
      /\ p = "writing" => k = "ao" /\ s # None
    Kept ==
      /\ pc' \in [Requests -> {"idle", "creating", "storing", "expiring", "writing"}]
      /\ by' \in [Requests -> Workers \cup {None}]
      /\ key' \in [Requests -> Keys]
      /\ held' \in [Requests -> AORegistrationSession \cup {None}]
      /\ \A r \in Requests : Fits(pc'[r], by'[r], key'[r], held'[r])
<1>0. /\ pc \in [Requests -> {"idle", "creating", "storing", "expiring", "writing"}]
      /\ by \in [Requests -> Workers \cup {None}]
      /\ key \in [Requests -> Keys]
      /\ held \in [Requests -> AORegistrationSession \cup {None}]
      /\ \A r \in Requests : Fits(pc[r], by[r], key[r], held[r])
  BY DEF Invariant, TypeOK, Aged, Owned
<1>a. Fits("idle", None, "ao", None)
  BY DEF Keys, Sums
<1> HIDE DEF Fits
<1>1. ASSUME NEW r \in Requests, NEW p, NEW w, NEW k, NEW s,
             p \in {"idle", "creating", "storing", "expiring", "writing"},
             w \in Workers \cup {None}, k \in Keys,
             s \in AORegistrationSession \cup {None}, Fits(p, w, k, s), Goto(r, p, w, k, s)
      PROVE  Kept
  BY <1>0, <1>1 DEF Goto
<1>2. ASSUME NEW r \in Requests, Return(r) PROVE Kept
  BY <1>1, <1>2, <1>a DEF Return, Keys
<1>3. ASSUME NEW r \in Requests, NEW w \in Workers, BeginLogin(r, w) PROVE Kept
  <2>1. Fits("creating", w, "ao", None)
    BY WorkersAssumption DEF Fits, Keys, Sums
  <2>2. Goto(r, "creating", w, "ao", None)
    BY <1>3 DEF BeginLogin
  <2> QED
    BY <1>1, <2>1, <2>2 DEF Keys
<1>4. ASSUME NEW r \in Requests, NEW w \in Workers, BeginTombstone(r, w) PROVE Kept
  <2>1. Fits("creating", w, w, None)
    BY DEF Fits, Keys, Sums
  <2>2. Goto(r, "creating", w, w, None)
    BY <1>4 DEF BeginTombstone
  <2> QED
    BY <1>1, <2>1, <2>2 DEF Keys
<1>5. ASSUME NEW r \in Requests, Build(r) PROVE Kept
  <2> DEFINE s == [worker |-> by[r], left |-> Lifetime, step |-> 1, age |-> 0]
  <2>1. by[r] \in Workers /\ key[r] \in Keys /\ (key[r] \in Workers => by[r] = key[r])
    BY <1>0, <1>5 DEF Build, Fits
  <2>2. s \in AORegistrationSession /\ Sums(s) /\ s.worker = by[r] /\ s.step = 1
    BY <2>1, FreshIsSession DEF Sums
  <2>3. Fits("storing", by[r], key[r], s)
    BY <2>1, <2>2, NoneAssumption DEF Fits
  <2> HIDE DEF s
  <2>4. CASE Return(r)
    BY <1>2, <2>4
  <2>5. CASE Goto(r, "storing", by[r], key[r], s)
    BY <1>1, <2>1, <2>2, <2>3, <2>5
  <2> QED
    BY <1>5, <2>4, <2>5 DEF Build, s
<1>6. ASSUME NEW r \in Requests, NEW w \in Workers, NEW k \in Keys, FindExpired(r, w, k)
      PROVE  Kept
  <2>1. Fits("expiring", w, k, None)
    BY DEF Fits, Sums
  <2>2. Goto(r, "expiring", w, k, None)
    BY <1>6 DEF FindExpired
  <2> QED
    BY <1>1, <2>1, <2>2
<1>7. ASSUME NEW r \in Requests, NEW w \in Workers, NEW n \in 1..MaxStep,
             BeginSubmit(r, w, n)
      PROVE  Kept
  <2> DEFINE s == store["ao"]
             t == [s EXCEPT !.step = AdvanceStep(s.step, n)]
  <2>1. s \in AORegistrationSession /\ Sums(s) /\ s # None
    BY <1>7 DEF BeginSubmit, RequireAOSession, RequireSession, Invariant, TypeOK, Aged, Keys
  <2>2. t \in AORegistrationSession /\ t.left = s.left /\ t.age = s.age
    BY <2>1, SubmittedIsSession
  <2>3. Fits("writing", w, "ao", t)
    BY <2>1, <2>2, NoneAssumption DEF Fits, Keys, Sums
  <2>4. Goto(r, "writing", w, "ao", t)
    BY <1>7 DEF BeginSubmit
  <2> HIDE DEF t
  <2> QED
    BY <1>1, <2>2, <2>3, <2>4 DEF Keys
<1>8. ASSUME Tick PROVE Kept
  <2>1. held' = [r \in Requests |-> Older(held[r])] /\ UNCHANGED <<pc, by, key>>
    BY <1>8 DEF Tick
  <2>2. \A r \in Requests : Fits(pc'[r], by'[r], key'[r], held'[r])
    <3> SUFFICES ASSUME NEW r \in Requests
                 PROVE  Fits(pc[r], by[r], key[r], Older(held[r]))
      BY <2>1
    <3>1. Fits(pc[r], by[r], key[r], held[r]) /\ held[r] \in AORegistrationSession \cup {None}
      BY <1>0
    <3>2. /\ Older(held[r]) \in AORegistrationSession \cup {None}
          /\ Older(held[r]) # None => /\ held[r] # None
                                      /\ Older(held[r]).worker = held[r].worker
                                      /\ Older(held[r]).step = held[r].step
                                      /\ Older(held[r]).left + Older(held[r]).age = Lifetime
      BY <3>1, OlderIsSession DEF Fits, Sums
    <3>3. held[r] # None => Older(held[r]) # None
      BY <3>1, NoneAssumption, OlderIsSession DEF Fits, Sums
    <3> QED
      BY <3>1, <3>2, <3>3 DEF Fits, Sums
  <2>3. held' \in [Requests -> AORegistrationSession \cup {None}]
    BY <2>1, <2>2 DEF Fits
  <2> QED
    BY <1>0, <2>1, <2>2, <2>3
<1>9. ASSUME UNCHANGED request PROVE Kept
  BY <1>0, <1>9 DEF request
<1>10. Kept
  BY <1>2, <1>3, <1>4, <1>5, <1>6, <1>7, <1>8, <1>9 DEF Next, vars, Store, DeleteExpired,
     Dies, GetClientData, UseAOSession, End
<1> QED
  BY <1>10 DEF Fits

\* A creation under way for an ended view would have kept it from being ended.
LEMMA ViewsStep ==
    ASSUME Invariant, [Next]_vars
    PROVE  revoked' \subseteq Workers /\ NoneUnderWay' /\ EndedStaysEnded'
<1> USE DEF Invariant, TypeOK
<1> DEFINE Creating(r) == pc[r] \in {"creating", "storing"}
<1>1. ASSUME revoked' = revoked,
             \A r \in Requests : pc'[r] \in {"creating", "storing"}
                                   => Creating(r) /\ key'[r] = key[r]
      PROVE  revoked' \subseteq Workers /\ NoneUnderWay' /\ EndedStaysEnded'
  <2>1. NoneUnderWay'
    BY <1>1 DEF NoneUnderWay
  <2>2. EndedStaysEnded'
    BY <1>1, StoreStep DEF NoneUnderWay, EndedStaysEnded
  <2> QED
    BY <1>1, <2>1, <2>2
<1>2. ASSUME NEW r \in Requests, NEW w \in Workers, BeginLogin(r, w)
      PROVE  revoked' \subseteq Workers /\ NoneUnderWay' /\ EndedStaysEnded'
  <2>1. revoked' = revoked /\ store' = store
        /\ pc' = [pc EXCEPT ![r] = "creating"] /\ key' = [key EXCEPT ![r] = "ao"]
    BY <1>2 DEF BeginLogin, Goto, history
  <2> QED
    BY <2>1, WorkersAssumption DEF NoneUnderWay, EndedStaysEnded
<1>3. ASSUME NEW r \in Requests, NEW w \in Workers, BeginTombstone(r, w)
      PROVE  revoked' \subseteq Workers /\ NoneUnderWay' /\ EndedStaysEnded'
  <2>1. revoked' = revoked \ {w} /\ store' = store
        /\ pc' = [pc EXCEPT ![r] = "creating"] /\ key' = [key EXCEPT ![r] = w]
    BY <1>3 DEF BeginTombstone, Goto
  <2> QED
    BY <2>1 DEF NoneUnderWay, EndedStaysEnded
<1>4. ASSUME NEW w \in Workers, End(w)
      PROVE  revoked' \subseteq Workers /\ NoneUnderWay' /\ EndedStaysEnded'
  <2>1. store' = [store EXCEPT ![w] = None] /\ UNCHANGED request
    BY <1>4 DEF End, EndSession, Delete
  <2>2. CASE \E r \in Requests : key[r] = w /\ Creating(r)
    BY <1>4, <2>1, <2>2 DEF End, request, NoneUnderWay, EndedStaysEnded
  <2>3. CASE ~\E r \in Requests : key[r] = w /\ Creating(r)
    <3>1. revoked' = revoked \cup {w}
      BY <1>4, <2>3 DEF End
    <3>2. NoneUnderWay'
      BY <2>1, <2>3, <3>1 DEF request, NoneUnderWay
    <3>3. EndedStaysEnded'
      BY <2>1, <3>1 DEF EndedStaysEnded, Keys
    <3> QED
      BY <3>1, <3>2, <3>3
  <2> QED
    BY <2>2, <2>3
<1>5. ASSUME NEW r \in Requests, Build(r)
      PROVE  revoked' \subseteq Workers /\ NoneUnderWay' /\ EndedStaysEnded'
  BY <1>1, <1>5 DEF Build, Goto, Return, history
<1>6. ASSUME NEW r \in Requests, Return(r), revoked' = revoked
      PROVE  revoked' \subseteq Workers /\ NoneUnderWay' /\ EndedStaysEnded'
  BY <1>1, <1>6 DEF Goto, Return
<1>7. ASSUME NEW r \in Requests, NEW w \in Workers,
             (\E k \in Keys : FindExpired(r, w, k)) \/ \E n \in 1..MaxStep : BeginSubmit(r, w, n)
      PROVE  revoked' \subseteq Workers /\ NoneUnderWay' /\ EndedStaysEnded'
  BY <1>1, <1>7 DEF FindExpired, BeginSubmit, Goto, history
<1>8. ASSUME UNCHANGED <<pc, key, revoked>>
      PROVE  revoked' \subseteq Workers /\ NoneUnderWay' /\ EndedStaysEnded'
  BY <1>1, <1>8
<1> QED
  BY <1>2, <1>3, <1>4, <1>5, <1>6, <1>7, <1>8 DEF Next, vars, request, history, Store,
     DeleteExpired, Dies, GetClientData, UseAOSession, Tick

\* Requests are served by young sessions of their own worker only.
LEMMA ServedStep ==
    ASSUME Invariant, [Next]_vars
    PROVE  /\ served' \in [age : 0..Lifetime, worker : Workers \cup {None},
                           to : Workers \cup {None}]
           /\ ServedWithinLifetime'
<1> USE DEF Invariant, TypeOK, ServedWithinLifetime
<1>1. ASSUME NEW w \in Workers, GetClientData(w)
      PROVE  /\ served' \in [age : 0..Lifetime, worker : Workers \cup {None},
                             to : Workers \cup {None}]
             /\ ServedWithinLifetime'
  <2>1. RequireSession(w) /\ w \in Keys
    BY <1>1 DEF GetClientData, Keys
  <2>2. store[w].worker = w
    BY <2>1 DEF Owned, RequireSession
  <2> QED
    BY <1>1, <2>1, <2>2, UsableIsYoung DEF GetClientData, Serves
<1>2. ASSUME NEW w \in Workers, RequireAOSession(w), Serves("ao", w)
      PROVE  /\ served' \in [age : 0..Lifetime, worker : Workers \cup {None},
                             to : Workers \cup {None}]
             /\ ServedWithinLifetime'
  BY <1>2, UsableIsYoung DEF RequireAOSession, VerifySessionOwnership, Serves, Keys
<1>3. ASSUME served' = served
      PROVE  /\ served' \in [age : 0..Lifetime, worker : Workers \cup {None},
                             to : Workers \cup {None}]
             /\ ServedWithinLifetime'
  BY <1>3
<1> QED
  BY <1>1, <1>2, <1>3 DEF Next, vars, history, BeginLogin, BeginTombstone, FindExpired,
     BeginSubmit, Build, Store, DeleteExpired, Dies, UseAOSession, End, Tick

LEMMA FlagsStep ==
    ASSUME TypeOK, [Next]_vars
    PROVE  loggedIn' \in BOOLEAN /\ stale' \subseteq Requests
BY DEF TypeOK, Next, vars, history, BeginLogin, BeginTombstone, FindExpired, BeginSubmit,
   Build, Store, DeleteExpired, Dies, GetClientData, UseAOSession, End, Tick, Overtaken

LEMMA InvariantInit == Init => Invariant
<1> SUFFICES ASSUME Init
             PROVE  Invariant
  OBVIOUS
<1>1. 0 \in 0..Lifetime /\ 0 < Lifetime
  BY LifetimeAssumption
<1>2. TypeOK
  BY <1>1 DEF Init, TypeOK, Keys
<1>3. Aged /\ Owned /\ NoneUnderWay
  BY DEF Init, Aged, Sums, Owned, NoneUnderWay, Keys
<1>4. ServedWithinLifetime /\ EndedStaysEnded
  BY <1>1 DEF Init, ServedWithinLifetime, EndedStaysEnded
<1> QED
  BY <1>2, <1>3, <1>4 DEF Invariant

LEMMA InvariantStep == Invariant /\ [Next]_vars => Invariant'
<1> SUFFICES ASSUME Invariant, [Next]_vars
             PROVE  Invariant'
  OBVIOUS
<1>1. TypeOK'
  BY StoreStep, RequestStep, ViewsStep, ServedStep, FlagsStep DEF Invariant, TypeOK
<1>2. Aged'
  BY StoreStep, RequestStep DEF Aged, Sums
<1>3. Owned'
  BY StoreStep, RequestStep DEF Owned
<1> QED
  BY <1>1, <1>2, <1>3, ViewsStep, ServedStep DEF Invariant

LEMMA InvariantAlways == Spec => []Invariant
BY InvariantInit, InvariantStep, PTL DEF Spec

\* The variables keep their types, for any workers, requests and lifetime.
THEOREM TypeCorrect == Spec => []TypeOK
<1>1. Invariant => TypeOK
  BY DEF Invariant
<1> QED
  BY <1>1, InvariantAlways, PTL

\* No request is served by a session older than its lifetime or of another worker
\* (session_store.py:26-44, ao.py:47-55).
THEOREM ServedCorrect == Spec => []ServedWithinLifetime
<1>1. Invariant => ServedWithinLifetime
  BY DEF Invariant
<1> QED
  BY <1>1, InvariantAlways, PTL

\* An ended support view stays ended, however creations, expiry and ends interleave
\* (support_view.py:114-134).
THEOREM EndedCorrect == Spec => []EndedStaysEnded
<1>1. Invariant => EndedStaysEnded
  BY DEF Invariant
<1> QED
  BY <1>1, InvariantAlways, PTL

-----------------------------------------------------------------------------
(* The AO frontier.                                                         *)

\* There is one login, and nothing is stored or written back before it.
LEMMA LoginStep ==
    ASSUME Invariant, LoginFirst, [Next]_vars
    PROVE  LoginFirst'
<1> USE WorkersAssumption DEF Invariant, TypeOK, LoginFirst, Keys
<1>1. ASSUME NEW r \in Requests, NEW w \in Workers, BeginLogin(r, w) PROVE LoginFirst'
  BY <1>1 DEF BeginLogin, Goto
<1>2. ASSUME NEW r \in Requests, NEW w \in Workers, BeginTombstone(r, w) PROVE LoginFirst'
  BY <1>2 DEF BeginTombstone, Goto
<1>3. ASSUME NEW r \in Requests, Build(r) PROVE LoginFirst'
  BY <1>3 DEF Build, Goto, Return
<1>4. ASSUME NEW r \in Requests, Store(r) PROVE LoginFirst'
  BY <1>4 DEF Store, SetEx, Goto, Return, Owned
<1>5. ASSUME NEW r \in Requests, NEW w \in Workers, NEW k \in Keys, FindExpired(r, w, k)
      PROVE  LoginFirst'
  BY <1>5 DEF FindExpired, Goto
<1>6. ASSUME NEW r \in Requests, DeleteExpired(r) PROVE LoginFirst'
  BY <1>6 DEF DeleteExpired, Delete, Goto, Return
<1>7. ASSUME NEW r \in Requests, NEW w \in Workers, NEW n \in 1..MaxStep,
             BeginSubmit(r, w, n)
      PROVE  LoginFirst'
  BY <1>7 DEF BeginSubmit, RequireAOSession, RequireSession, Goto
<1>8. ASSUME NEW w \in Workers, End(w) PROVE LoginFirst'
  BY <1>8 DEF End, EndSession, Delete, request
<1>9. ASSUME Tick PROVE LoginFirst'
  BY <1>9 DEF Tick, Older
<1>10. ASSUME NEW r \in Requests, Dies(r) PROVE LoginFirst'
  BY <1>10 DEF Dies, Goto, Return
<1>11. ASSUME UNCHANGED <<store, request, loggedIn>> PROVE LoginFirst'
  BY <1>11 DEF request
<1> QED
  BY <1>1, <1>2, <1>3, <1>4, <1>5, <1>6, <1>7, <1>8, <1>9, <1>10, <1>11
     DEF Next, vars, GetClientData, UseAOSession

\* A write marks every other submission under way as overtaken.
LEMMA InStepStep ==
    ASSUME Invariant, LoginFirst, InStep, [Next]_vars
    PROVE  InStep'
<1> USE WorkersAssumption DEF Invariant, TypeOK, InStep, Keys
<1>0. \A r \in Requests : pc[r] = "writing" => key[r] = "ao" /\ held[r] # None
  BY DEF Owned
<1>1. ASSUME NEW r \in Requests, NEW place, NEW w, NEW k, NEW s, place # "writing",
             Goto(r, place, w, k, s), stale' = stale \/ stale' = stale \ {r},
             store'["ao"] \in {store["ao"], None}
      PROVE  InStep'
  BY <1>1 DEF Goto
<1>2. ASSUME NEW r \in Requests, NEW w \in Workers, BeginLogin(r, w) PROVE InStep'
  BY <1>1, <1>2 DEF BeginLogin, history
<1>3. ASSUME NEW r \in Requests, NEW w \in Workers, BeginTombstone(r, w) PROVE InStep'
  BY <1>1, <1>3 DEF BeginTombstone
<1>4. ASSUME NEW r \in Requests, Build(r) PROVE InStep'
  BY <1>1, <1>4 DEF Build, Return, history
<1>5. ASSUME NEW r \in Requests, Store(r) PROVE InStep'
  <2>1. pc' = [pc EXCEPT ![r] = "idle"] /\ held' = [held EXCEPT ![r] = None]
        /\ stale' = (stale \cup Overtaken(r)) \ {r}
        /\ store' = [store EXCEPT ![key[r]] = held[r]]
    BY <1>5 DEF Store, SetEx, Return, Goto
  <2>2. CASE key[r] = "ao"
    BY <1>0, <2>1, <2>2 DEF Overtaken
  <2>3. CASE key[r] # "ao"
    BY <2>1, <2>3
  <2> QED
    BY <2>2, <2>3
<1>6. ASSUME NEW r \in Requests, NEW w \in Workers, NEW k \in Keys, FindExpired(r, w, k)
      PROVE  InStep'
  BY <1>1, <1>6 DEF FindExpired, history
<1>7. ASSUME NEW r \in Requests, DeleteExpired(r) PROVE InStep'
  BY <1>1, <1>7 DEF DeleteExpired, Delete, Return, history
<1>8. ASSUME NEW r \in Requests, NEW w \in Workers, NEW n \in 1..MaxStep,
             BeginSubmit(r, w, n)
      PROVE  InStep'
  <2> DEFINE t == [store["ao"] EXCEPT !.step = AdvanceStep(store["ao"].step, n)]
  <2>1. store["ao"] \in AORegistrationSession
    BY <1>8 DEF BeginSubmit, RequireAOSession, RequireSession
  <2>2. store["ao"].step <= t.step
    BY <2>1, SubmittedIsSession
  <2>3. Goto(r, "writing", w, "ao", t) /\ UNCHANGED <<store, stale>>
    BY <1>8 DEF BeginSubmit
  <2> HIDE DEF t
  <2> QED
    BY <2>2, <2>3 DEF Goto
<1>9. ASSUME NEW w \in Workers, End(w) PROVE InStep'
  BY <1>9 DEF End, EndSession, Delete, request
<1>10. ASSUME Tick PROVE InStep'
  <2>1. /\ store'["ao"] \in {None, Older(store["ao"])}
        /\ held' = [r \in Requests |-> Older(held[r])] /\ UNCHANGED <<pc, stale>>
    BY <1>10 DEF Tick, history
  <2>2. store'["ao"] # None =>
          store["ao"] # None /\ store'["ao"].step = store["ao"].step
    BY <2>1, OlderIsSession DEF Aged, Sums
  <2>3. \A r \in Requests : held[r] # None => held'[r].step = held[r].step
    <3> TAKE r \in Requests
    <3>1. held[r] \in AORegistrationSession \cup {None} /\ Sums(held[r])
      BY DEF Aged
    <3> QED
      BY <2>1, <3>1, OlderIsSession, NoneAssumption DEF Sums
  <2> QED
    BY <1>0, <2>1, <2>2, <2>3
<1>11. ASSUME NEW r \in Requests, Dies(r) PROVE InStep'
  BY <1>1, <1>11 DEF Dies, Return
<1>12. ASSUME UNCHANGED <<store, request, stale>> PROVE InStep'
  BY <1>12 DEF request
<1> QED
  BY <1>2, <1>3, <1>4, <1>5, <1>6, <1>7, <1>8, <1>9, <1>10, <1>11, <1>12
     DEF Next, vars, history, GetClientData, UseAOSession

\* The frontier falls back only by the write of a submission that was overtaken
\* (ao.py:136-138, ao_registration_service.py:70-74).
THEOREM RegressCorrect == Spec => RegressOnlyByOverlap
<1>1. Init => LoginFirst /\ InStep
  BY DEF Init, LoginFirst, InStep, Keys
<1>2. Invariant /\ LoginFirst /\ InStep /\ [Next]_vars => LoginFirst' /\ InStep'
  BY LoginStep, InStepStep
<1>3. ASSUME Invariant, LoginFirst, InStep, [Next]_vars
      PROVE  [store["ao"] # None /\ store'["ao"] # None
                /\ store'["ao"].step < store["ao"].step
                  => \E r \in stale : pc[r] = "writing" /\ pc'[r] = "idle"]_vars
  <2> SUFFICES ASSUME store["ao"] # None, store'["ao"] # None,
                      store'["ao"].step < store["ao"].step
               PROVE  \E r \in stale : pc[r] = "writing" /\ pc'[r] = "idle"
    OBVIOUS
  <2> USE <1>3, WorkersAssumption DEF Invariant, TypeOK, Keys
  <2>0. store["ao"] \in AORegistrationSession /\ store["ao"].step \in Nat
    BY MaxStepAssumption DEF AORegistrationSession
  <2>1. ASSUME NEW r \in Requests, Store(r), key[r] = "ao"
        PROVE  \E q \in stale : pc[q] = "writing" /\ pc'[q] = "idle"
    <3>1. store'["ao"] = held[r] /\ pc'[r] = "idle" /\ pc[r] \in {"storing", "writing"}
      BY <2>1 DEF Store, SetEx, Return, Goto
    <3>2. pc[r] = "writing"
      BY <2>1, <3>1 DEF LoginFirst
    <3>3. held[r] \in AORegistrationSession
      BY <3>1
    <3>4. held[r].step \in Nat
      BY <3>3, MaxStepAssumption DEF AORegistrationSession
    <3>5. r \in stale
      BY <2>0, <3>1, <3>2, <3>4 DEF InStep
    <3> QED
      BY <3>1, <3>2, <3>5
  <2>2. ASSUME Tick PROVE FALSE
    <3>1. store'["ao"] = Older(store["ao"])
      BY <2>2 DEF Tick
    <3>2. store'["ao"].step = store["ao"].step
      BY <3>1, OlderIsSession DEF Aged, Sums
    <3> QED
      BY <2>0, <3>2
  <2>3. ASSUME store'["ao"] \in {store["ao"], None} PROVE FALSE
    BY <2>0, <2>3
  <2> QED
    BY <2>1, <2>2, <2>3 DEF Next, vars, BeginLogin, BeginTombstone, FindExpired,
       BeginSubmit, Build, Store, SetEx, DeleteExpired, Delete, Dies, GetClientData,
       UseAOSession, End, EndSession
<1> QED
  BY <1>1, <1>2, <1>3, InvariantAlways, PTL DEF Spec, RegressOnlyByOverlap

=============================================================================
