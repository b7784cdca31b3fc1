---------------------------- MODULE AdminSessions ----------------------------
(***************************************************************************)
(* Worker sessions in Redis: RedisSessionStore                              *)
(* (app/dependencies/session_store.py) as the support view ("sv",           *)
(* app/routers/admin/support_view.py) and the AO registration ("ao",        *)
(* app/routers/admin/ao.py) use it.  Every Redis command is one step, and   *)
(* the handlers of any process interleave between commands.                 *)
(*                                                                          *)
(* A session carries its absolute expires_at; SETEX gives its key a time to *)
(* live of the same length that starts again at every write.  Both are in   *)
(* ticks to go.  A support view key names worker and client and is used     *)
(* again: here it is the worker, for one client.  An AO key is a fresh      *)
(* token, so there is one login here; another worker may present the token. *)
(***************************************************************************)
EXTENDS Naturals, FiniteSets

CONSTANTS Workers,   \* by idir_username
          Requests,  \* HTTP requests in progress at a time
          Lifetime,  \* 15 minutes or 30 days, in ticks
          MaxStep,   \* highest step of the AO wizard submitted
          None

ASSUME LifetimeAssumption == Lifetime \in Nat \ {0}
ASSUME MaxStepAssumption == MaxStep \in Nat \ {0}
ASSUME WorkersAssumption == "ao" \notin Workers   \* the keys have prefixes

VARIABLES store,    \* the value of each key
          ttl,      \* Redis's time to live of each key
          pc,       \* where each request is
          by,       \* the worker who makes it
          key,      \* the key it works on
          held,     \* the session object it has in memory
          loggedIn, \* the AO login was made
          served,   \* history: the session that last served a request, and whom
          revoked,  \* history: workers whose support view was ended and not begun again
          stale     \* history: requests whose object was overtaken by a write

request == <<pc, by, key, held>>
history == <<served, revoked, stale>>
vars == <<store, ttl, request, loggedIn, history>>

Keys == {"ao"} \cup Workers

\* left: ticks to expires_at; age is history, the ticks since the object was built.
AORegistrationSession ==
    [worker : Workers, left : 0..Lifetime, step : 1..(MaxStep + 1), age : 0..Lifetime]

ASSUME NoneAssumption == None \notin AORegistrationSession

\* A support view has no steps.
SupportViewSessionData == {s \in AORegistrationSession : s.step = 1}

TypeOK ==
    /\ store \in [Keys -> AORegistrationSession \cup {None}]
    /\ \A w \in Workers : store[w] \in SupportViewSessionData \cup {None}
    /\ ttl \in [Keys -> 0..Lifetime]
    /\ pc \in [Requests -> {"idle", "creating", "storing", "expiring", "writing"}]
    /\ by \in [Requests -> Workers \cup {None}]
    /\ key \in [Requests -> Keys]
    /\ held \in [Requests -> AORegistrationSession \cup {None}]
    /\ loggedIn \in BOOLEAN
    /\ served \in [age : 0..Lifetime, worker : Workers \cup {None}, to : Workers \cup {None}]
    /\ revoked \subseteq Workers
    /\ stale \subseteq Requests

Init ==
    /\ store = [k \in Keys |-> None]
    /\ ttl = [k \in Keys |-> 0]
    /\ pc = [r \in Requests |-> "idle"]
    /\ by = [r \in Requests |-> None]
    /\ key = [r \in Requests |-> "ao"]
    /\ held = [r \in Requests |-> None]
    /\ loggedIn = FALSE
    /\ served = [age |-> 0, worker |-> None, to |-> None]
    /\ revoked = {}
    /\ stale = {}

-----------------------------------------------------------------------------
(* The store *)

SetEx(k, s) ==
    /\ store' = [store EXCEPT ![k] = s]
    /\ ttl' = [ttl EXCEPT ![k] = Lifetime]

Delete(k) ==
    /\ store' = [store EXCEPT ![k] = None]
    /\ ttl' = [ttl EXCEPT ![k] = 0]

\* Mutant: the store leaves expiry to Redis.
AnyFound(s) == TRUE

\* `expires_at < now`: the instant expires_at itself belongs to the last tick.
Unexpired(s) == s.left > 0

Goto(r, place, w, k, s) ==
    /\ pc' = [pc EXCEPT ![r] = place]
    /\ by' = [by EXCEPT ![r] = w]
    /\ key' = [key EXCEPT ![r] = k]
    /\ held' = [held EXCEPT ![r] = s]

Return(r) == Goto(r, "idle", None, "ao", None)

-----------------------------------------------------------------------------
(* Creating a session *)

\* ao_login: one token, as the next login would get another.
BeginLogin(r, w) ==
    /\ pc[r] = "idle"
    /\ ~loggedIn
    /\ loggedIn' = TRUE
    /\ Goto(r, "creating", w, "ao", None)
    /\ UNCHANGED <<store, ttl, history>>

\* create_tombstone: the key names the worker.
BeginTombstone(r, w) ==
    /\ pc[r] = "idle"
    /\ Goto(r, "creating", w, w, None)
    /\ revoked' = revoked \ {w}
    /\ UNCHANGED <<store, ttl, loggedIn, served, stale>>

\* Both wait for ICM before they build the session.  It answers, or refuses: then the
\* request ends with 403 or 502.
Build(r) ==
    /\ pc[r] = "creating"
    /\ \/ Goto(r, "storing", by[r], key[r],
                [worker |-> by[r], left |-> Lifetime, step |-> 1, age |-> 0])
       \/ Return(r)
    /\ UNCHANGED <<store, ttl, loggedIn, history>>

Overtaken(r) == {q \in Requests \ {r} : pc[q] = "writing" /\ key[q] = key[r]}

Store(r) ==
    /\ pc[r] \in {"storing", "writing"}
    /\ SetEx(key[r], held[r])
    /\ Return(r)
    /\ stale' = (stale \cup Overtaken(r)) \ {r}
    /\ UNCHANGED <<loggedIn, served, revoked>>

-----------------------------------------------------------------------------
(* Using a session *)

\* get() of an expired session, here by w: the value was read, and is deleted in a
\* later step.
FindExpired(r, w, k) ==
    /\ pc[r] = "idle"
    /\ k \in {"ao", w}
    /\ store[k] # None /\ ~Unexpired(store[k])
    /\ Goto(r, "expiring", w, k, None)
    /\ UNCHANGED <<store, ttl, loggedIn, history>>

DeleteExpired(r) ==
    /\ pc[r] = "expiring"
    /\ Delete(key[r])
    /\ Return(r)
    /\ UNCHANGED <<loggedIn, history>>

\* 401 otherwise.
RequireSession(k) == store[k] # None /\ Unexpired(store[k])

\* 403 otherwise.
VerifySessionOwnership(s, w) == s.worker = w

\* require_ao_session, then the handler's own check.
RequireAOSession(w) == RequireSession("ao") /\ VerifySessionOwnership(store["ao"], w)

Serves(k, w) == served' = [age |-> store[k].age, worker |-> store[k].worker, to |-> w]

\* require_support_view_session: the key comes from the worker, and needs no check.
GetClientData(w) ==
    /\ RequireSession(w)
    /\ Serves(w, w)
    /\ UNCHANGED <<store, ttl, request, loggedIn, revoked, stale>>

\* get_registration_step and submit_ao_form, which sends nothing yet.
UseAOSession(w) ==
    /\ RequireAOSession(w)
    /\ Serves("ao", w)
    /\ UNCHANGED <<store, ttl, request, loggedIn, revoked, stale>>

\* Mutant: the frontier moves to whatever step was submitted.
FollowStep(reached, n) == n + 1

\* Mutant: the step counts twice.
SkipStep(reached, n) == IF n >= reached THEN n + 2 ELSE reached

\* advance_step.
AdvanceStep(reached, n) == IF n >= reached THEN n + 1 ELSE reached

\* submit_registration_step: the object read is changed and written back.
BeginSubmit(r, w, n) ==
    LET s == store["ao"] IN
    /\ pc[r] = "idle"
    /\ RequireAOSession(w)
    /\ Goto(r, "writing", w, "ao", [s EXCEPT !.step = AdvanceStep(s.step, n)])
    /\ Serves("ao", w)
    /\ UNCHANGED <<store, ttl, loggedIn, revoked, stale>>

EndSession(k) == Delete(k)

\* end_tombstone.
End(w) ==
    /\ EndSession(w)
    /\ revoked' = IF \E r \in Requests : key[r] = w /\ pc[r] \in {"creating", "storing"}
                    THEN revoked \ {w} ELSE revoked \cup {w}
    /\ UNCHANGED <<request, loggedIn, served, stale>>

-----------------------------------------------------------------------------
(* Time and failures *)

Older(s) == IF s = None THEN None
            ELSE [s EXCEPT !.left = IF @ > 0 THEN @ - 1 ELSE 0,
                           !.age = IF @ < Lifetime THEN @ + 1 ELSE Lifetime]

\* Redis drops a key whose time to live is over.
Tick ==
    /\ ttl' = [k \in Keys |-> IF ttl[k] > 0 THEN ttl[k] - 1 ELSE 0]
    /\ store' = [k \in Keys |-> IF ttl[k] <= 1 THEN None ELSE Older(store[k])]
    /\ held' = [r \in Requests |-> Older(held[r])]
    /\ UNCHANGED <<pc, by, key, loggedIn, history>>

Dies(r) ==
    /\ pc[r] # "idle"
    /\ Return(r)
    /\ stale' = stale \ {r}
    /\ UNCHANGED <<store, ttl, loggedIn, served, revoked>>

Next ==
    \/ \E r \in Requests :
        \/ \E w \in Workers :
            \/ BeginLogin(r, w) \/ BeginTombstone(r, w)
            \/ \E k \in Keys : FindExpired(r, w, k)
            \/ \E n \in 1..MaxStep : BeginSubmit(r, w, n)
        \/ Build(r) \/ Store(r) \/ DeleteExpired(r) \/ Dies(r)
    \/ \E w \in Workers : GetClientData(w) \/ UseAOSession(w) \/ End(w)
    \/ Tick

Spec == Init /\ [][Next]_vars

-----------------------------------------------------------------------------
(* Properties *)

\* No request is served by a session older than its lifetime, although every AO
\* step submission starts the key's time to live again, and none by the session of
\* another worker, whoever presents the key (session_store.py:26-44, ao.py:47-55,
\* 136-138).
ServedWithinLifetime == served.age < Lifetime /\ served.worker = served.to

\* An ended support view stays ended: only a session whose creation was under way
\* or came later brings the key back (support_view.py:114-134).
EndedStaysEnded == \A w \in revoked : store[w] = None

\* The AO frontier falls back only when two submissions overlapped and the one that
\* read first wrote last (ao.py:136-138, ao_registration_service.py:70-74).
RegressOnlyByOverlap ==
    [][store["ao"] # None /\ store'["ao"] # None
         /\ store'["ao"].step < store["ao"].step
           => \E r \in stale : pc[r] = "writing" /\ pc'[r] = "idle"]_vars

=============================================================================
