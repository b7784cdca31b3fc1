--------------------------- MODULE AttachmentsProofs ---------------------------
(* For any number of processes, users, files and submissions: only files    *)
(* the scanner has cleared are attached (KeepsGate), and every answer 201   *)
(* has its attachment, the only one unless something failed; an attachment  *)
(* without one goes back to a failure or to an answer nobody could read.    *)
(*                                                                          *)
(* The gate needs an invariant about everything that may lead to an         *)
(* attachment: a CLEAN webhook, a CLEAN job, a submission under way and an  *)
(* attempt given up all have the scanner's verdict behind them, which never *)
(* changes once it is there.                                                *)
EXTENDS Attachments, FiniteSetTheorems, FunctionTheorems, TLAPS

\* The types without the counters' upper bounds, which the counting invariant adds.
Typed ==
    /\ jobs \in [Processes -> [Scans -> Job \cup {NoJob}]]
    /\ verdict \in [Scans -> {"none", "CLEAN", "INFECTED"}]
    /\ webhooks \subseteq Scans \X ScanStatus
    /\ at \in [Requests -> Processes \cup {None}]
    /\ file \in [Requests -> Scans \cup {None}]
    /\ wire \in [Requests -> {"none", "sent", "ok", "garbled", "rejected"}]
    /\ late \in [Scans -> Nat]
    /\ copies \in [Scans -> Nat]
    /\ answered \in [Scans -> Nat]
    /\ untold \in [Scans -> Nat]

Cleared(s) == verdict[s] = "CLEAN"

WebhooksTrue == \A s \in Scans : <<s, "CLEAN">> \in webhooks => Cleared(s)

JobsTrue ==
    \A p \in Processes, s \in Scans :
        jobs[p][s] # NoJob /\ jobs[p][s].status = "CLEAN" => Cleared(s)

SubmissionsCleared ==
    \A r \in Requests : wire[r] # "none" => file[r] \in Scans /\ Cleared(file[r])

LateCleared == \A s \in Scans : late[s] > 0 => Cleared(s)

Gate == WebhooksTrue /\ JobsTrue /\ SubmissionsCleared /\ LateCleared

\* Requests that die carry their attempts over into late.
LEMMA DeadAreCounted ==
    ASSUME Typed, NEW p \in Processes, NEW s \in Scans
    PROVE  LET sent == {r \in {q \in Requests : at[q] = p} : file[r] = s /\ wire[r] = "sent"}
           IN  Cardinality(sent) \in Nat /\ (Cardinality(sent) > 0 => \E r \in sent : TRUE)
<1> DEFINE sent == {r \in {q \in Requests : at[q] = p} : file[r] = s /\ wire[r] = "sent"}
<1>1. sent \subseteq Requests
  OBVIOUS
<1>2. IsFiniteSet(sent) /\ Cardinality(sent) \in Nat
  BY <1>1, RequestsAssumption, FS_Subset, FS_CardinalityType
<1>3. ASSUME sent = {} PROVE Cardinality(sent) = 0
  BY <1>3, FS_EmptySet
<1> QED
  BY <1>2, <1>3

LEMMA OneMore ==
    ASSUME NEW f \in [Scans -> Nat], NEW s
    PROVE  [f EXCEPT ![s] = @ + 1] \in [Scans -> Nat]
<1>1. CASE s \in Scans
  BY <1>1
<1>2. CASE s \notin Scans
  BY <1>2
<1> QED
  BY <1>1, <1>2

LEMMA TypedInit == Init => Typed
BY DEF Init, Typed, NoJobs

\* Every step keeps the types.
LEMMA TypedStep == Typed /\ [Next]_vars => Typed'
<1> SUFFICES ASSUME Typed, [Next]_vars
             PROVE  Typed'
  OBVIOUS
<1> USE DEF Typed, Return, submissions, history
<1>1. ASSUME NEW p \in Processes, NEW s \in Scans, NEW u \in Users, Upload(p, s, u)
      PROVE  Typed'
  BY <1>1 DEF Upload, Job, ScanStatus
<1>2. ASSUME NEW s \in Scans, NEW status \in ScanStatus, Progress(s, status)
      PROVE  Typed'
  BY <1>2 DEF Progress
<1>3. ASSUME NEW s \in Scans, Find(s) PROVE Typed'
  BY <1>3 DEF Find, ScanStatus
<1>4. ASSUME NEW p \in Processes, NEW s \in Scans, NEW status \in ScanStatus,
             ProcessScanResult(p, s, status)
      PROVE  Typed'
  <2>1. jobs[p][s] \in Job
    BY <1>4 DEF ProcessScanResult
  <2>2. [jobs[p][s] EXCEPT !.status = status] \in Job
    BY <2>1 DEF Job
  <2> QED
    BY <1>4, <2>2 DEF ProcessScanResult
<1>5. ASSUME NEW p \in Processes, Restart(p) PROVE Typed'
  <2>1. late' \in [Scans -> Nat]
    <3> DEFINE sent(s) ==
          {r \in {q \in Requests : at[q] = p} : file[r] = s /\ wire[r] = "sent"}
    <3>1. late' = [s \in Scans |-> late[s] + Cardinality(sent(s))]
      BY <1>5 DEF Restart
    <3>2. \A s \in Scans : Cardinality(sent(s)) \in Nat
      BY DeadAreCounted
    <3> QED
      BY <3>1, <3>2
  <2>2. jobs' \in [Processes -> [Scans -> Job \cup {NoJob}]]
    BY <1>5 DEF Restart, NoJobs
  <2> QED
    BY <1>5, <2>1, <2>2 DEF Restart
<1>6. ASSUME NEW r \in Requests, NEW p \in Processes, NEW s \in Scans, NEW u \in Users,
             BeginSubmit(r, p, s, u)
      PROVE  Typed'
  BY <1>6 DEF BeginSubmit
<1>7. ASSUME NEW r \in Requests, SiebelHandles(r) PROVE Typed'
  <2>1. copies' \in [Scans -> Nat]
    <3>1. CASE copies' = copies
      BY <3>1
    <3>2. CASE copies' = [copies EXCEPT ![file[r]] = @ + 1]
      BY <3>2, OneMore
    <3> QED
      BY <1>7, <3>1, <3>2 DEF SiebelHandles
  <2>2. wire' \in [Requests -> {"none", "sent", "ok", "garbled", "rejected"}]
    BY <1>7 DEF SiebelHandles, Stored
  <2>3. UNCHANGED <<jobs, verdict, webhooks, at, file, late, answered, untold>>
    BY <1>7 DEF SiebelHandles
  <2> QED
    BY <2>1, <2>2, <2>3
<1>8. ASSUME NEW s \in Scans, SiebelHandlesLate(s) PROVE Typed'
  BY <1>8 DEF SiebelHandlesLate
<1>9. ASSUME NEW r \in Requests, Answered(r) PROVE Typed'
  <2>1. answered' \in [Scans -> Nat]
    <3>1. CASE answered' = answered
      BY <3>1
    <3>2. CASE answered' = [answered EXCEPT ![file[r]] = @ + 1]
      BY <3>2, OneMore
    <3> QED
      BY <1>9, <3>1, <3>2 DEF Answered
  <2>4. untold' \in [Scans -> Nat]
    <3>1. CASE untold' = untold
      BY <3>1
    <3>2. CASE untold' = [untold EXCEPT ![file[r]] = @ + 1]
      BY <3>2, OneMore
    <3> QED
      BY <1>9, <3>1, <3>2 DEF Answered
  <2>2. /\ at' \in [Requests -> Processes \cup {None}]
        /\ file' \in [Requests -> Scans \cup {None}]
        /\ wire' \in [Requests -> {"none", "sent", "ok", "garbled", "rejected"}]
    BY <1>9 DEF Answered
  <2>3. UNCHANGED <<jobs, verdict, webhooks, late, copies>>
    BY <1>9 DEF Answered
  <2> QED
    BY <2>1, <2>2, <2>3, <2>4
<1>10. ASSUME NEW r \in Requests, TimesOut(r) PROVE Typed'
  <2>1. late' \in [Scans -> Nat]
    <3>1. CASE late' = late
      BY <3>1
    <3>2. CASE late' = [late EXCEPT ![file[r]] = @ + 1]
      BY <3>2, OneMore
    <3> QED
      BY <1>10, <3>1, <3>2 DEF TimesOut
  <2>2. /\ at' \in [Requests -> Processes \cup {None}]
        /\ file' \in [Requests -> Scans \cup {None}]
        /\ wire' \in [Requests -> {"none", "sent", "ok", "garbled", "rejected"}]
    <3>1. CASE Again(r)
      <4>1. wire' = [wire EXCEPT ![r] = "sent"] /\ UNCHANGED <<at, file>>
        BY <1>10, <3>1 DEF TimesOut
      <4> QED
        BY <4>1
    <3>2. CASE ~Again(r)
      <4>1. /\ at' = [at EXCEPT ![r] = None]
            /\ file' = [file EXCEPT ![r] = None]
            /\ wire' = [wire EXCEPT ![r] = "none"]
        BY <1>10, <3>2 DEF TimesOut
      <4> QED
        BY <4>1
    <3> QED
      BY <3>1, <3>2
  <2>3. UNCHANGED <<jobs, verdict, webhooks, copies, answered, untold>>
    BY <1>10 DEF TimesOut
  <2> QED
    BY <2>1, <2>2, <2>3
<1>11. ASSUME UNCHANGED vars PROVE Typed'
  BY <1>11 DEF vars
<1> QED
  BY <1>1, <1>2, <1>3, <1>4, <1>5, <1>6, <1>7, <1>8, <1>9, <1>10, <1>11 DEF Next

\* What the scanner found and what Siebel holds change in these steps only.
LEMMA VisibleSteps ==
    ASSUME [Next]_vars
    PROVE  \/ \E s \in Scans : Find(s) \/ SiebelHandlesLate(s)
           \/ \E r \in Requests : SiebelHandles(r)
           \/ UNCHANGED <<verdict, copies>>
<1>1. ASSUME NEW p \in Processes, NEW s \in Scans, NEW u \in Users, Upload(p, s, u)
      PROVE  UNCHANGED <<verdict, copies>>
  BY <1>1 DEF Upload
<1>2. ASSUME NEW s \in Scans, NEW status \in ScanStatus, Progress(s, status)
      PROVE  UNCHANGED <<verdict, copies>>
  BY <1>2 DEF Progress
<1>3. ASSUME NEW p \in Processes, NEW s \in Scans, NEW status \in ScanStatus,
             ProcessScanResult(p, s, status)
      PROVE  UNCHANGED <<verdict, copies>>
  BY <1>3 DEF ProcessScanResult
<1>4. ASSUME NEW p \in Processes, Restart(p) PROVE UNCHANGED <<verdict, copies>>
  BY <1>4 DEF Restart
<1>5. ASSUME NEW r \in Requests, NEW p \in Processes, NEW s \in Scans, NEW u \in Users,
             BeginSubmit(r, p, s, u)
      PROVE  UNCHANGED <<verdict, copies>>
  BY <1>5 DEF BeginSubmit
<1>6. ASSUME NEW r \in Requests, Answered(r) \/ TimesOut(r)
      PROVE  UNCHANGED <<verdict, copies>>
  BY <1>6 DEF Answered, TimesOut
<1>7. ASSUME UNCHANGED vars PROVE UNCHANGED <<verdict, copies>>
  BY <1>7 DEF vars
<1> QED
  BY <1>1, <1>2, <1>3, <1>4, <1>5, <1>6, <1>7 DEF Next

\* A verdict stays.
LEMMA ClearedStays ==
    ASSUME Typed, [Next]_vars, NEW s \in Scans, Cleared(s)
    PROVE  Cleared(s)'
<1>1. ASSUME NEW t \in Scans, Find(t) PROVE Cleared(s)'
  BY <1>1 DEF Typed, Cleared, Find
<1>2. ASSUME NEW t \in Scans, SiebelHandlesLate(t) PROVE Cleared(s)'
  BY <1>2 DEF Cleared, SiebelHandlesLate
<1>3. ASSUME NEW r \in Requests, SiebelHandles(r) PROVE Cleared(s)'
  BY <1>3 DEF Cleared, SiebelHandles
<1>4. ASSUME UNCHANGED verdict PROVE Cleared(s)'
  BY <1>4 DEF Cleared
<1> QED
  BY <1>1, <1>2, <1>3, <1>4, VisibleSteps

\* Only the verdict makes a CLEAN webhook, and only the webhook a CLEAN job.
LEMMA JobsStep ==
    ASSUME Typed, Gate, [Next]_vars
    PROVE  WebhooksTrue' /\ JobsTrue'
<1> USE ClearedStays DEF Typed, Gate, WebhooksTrue, JobsTrue
<1>1. ASSUME NEW s \in Scans, NEW status \in ScanStatus, Progress(s, status)
      PROVE  WebhooksTrue' /\ JobsTrue'
  BY <1>1 DEF Progress
<1>2. ASSUME NEW s \in Scans, Find(s) PROVE WebhooksTrue' /\ JobsTrue'
  BY <1>2 DEF Find, Cleared
<1>3. ASSUME NEW p \in Processes, NEW s \in Scans, NEW u \in Users, Upload(p, s, u)
      PROVE  WebhooksTrue' /\ JobsTrue'
  BY <1>3 DEF Upload
<1>4. ASSUME NEW p \in Processes, NEW s \in Scans, NEW status \in ScanStatus,
             ProcessScanResult(p, s, status)
      PROVE  WebhooksTrue' /\ JobsTrue'
  <2>1. jobs[p][s] \in Job /\ UNCHANGED <<webhooks, verdict>>
    BY <1>4 DEF ProcessScanResult
  <2>2. jobs'[p][s].status = status
    BY <1>4, <2>1 DEF ProcessScanResult, Job
  <2>3. \A q \in Processes, t \in Scans : q # p \/ t # s => jobs'[q][t] = jobs[q][t]
    BY <1>4 DEF ProcessScanResult
  <2>4. <<s, status>> \in webhooks
    BY <1>4 DEF ProcessScanResult
  <2> QED
    BY <2>1, <2>2, <2>3, <2>4
<1>5. ASSUME NEW p \in Processes, Restart(p) PROVE WebhooksTrue' /\ JobsTrue'
  BY <1>5 DEF Restart, NoJobs
<1>6. ASSUME UNCHANGED <<jobs, webhooks, verdict>> PROVE WebhooksTrue' /\ JobsTrue'
  BY <1>6 DEF Cleared
<1> QED
  BY <1>1, <1>2, <1>3, <1>4, <1>5, <1>6 DEF Next, vars, submissions, history, BeginSubmit,
     SiebelHandles, SiebelHandlesLate, Answered, TimesOut

\* A submission starts from a CLEAN job, a late attempt from a submission.
LEMMA SubmissionsStep ==
    ASSUME Typed, Gate, [Next]_vars
    PROVE  SubmissionsCleared' /\ LateCleared'
<1> USE ClearedStays DEF Typed, Gate, SubmissionsCleared, LateCleared, Return
<1>1. ASSUME NEW r \in Requests, NEW p \in Processes, NEW s \in Scans, NEW u \in Users,
             BeginSubmit(r, p, s, u)
      PROVE  SubmissionsCleared' /\ LateCleared'
  <2>1. jobs[p][s] \in Job /\ jobs[p][s].status = "CLEAN"
    BY <1>1 DEF BeginSubmit, Allows, Job, ScanStatus
  <2>2. Cleared(s)
    BY <1>1, <2>1 DEF BeginSubmit, JobsTrue
  <2> QED
    BY <1>1, <2>2 DEF BeginSubmit, Cleared
<1>2. ASSUME NEW p \in Processes, Restart(p) PROVE SubmissionsCleared' /\ LateCleared'
  <2> DEFINE sent(s) ==
        {r \in {q \in Requests : at[q] = p} : file[r] = s /\ wire[r] = "sent"}
  <2>1. \A s \in Scans : /\ Cardinality(sent(s)) \in Nat
                         /\ Cardinality(sent(s)) > 0 => \E r \in sent(s) : TRUE
    BY DeadAreCounted
  <2>2. late' = [s \in Scans |-> late[s] + Cardinality(sent(s))]
    BY <1>2 DEF Restart
  <2>3. \A s \in Scans : late'[s] > 0 => late[s] > 0 \/ \E r \in sent(s) : TRUE
    BY <2>1, <2>2
  <2>4. \A s \in Scans : (\E r \in sent(s) : TRUE) => Cleared(s)
    OBVIOUS
  <2>5. LateCleared'
    BY <2>3, <2>4
  <2>6. SubmissionsCleared'
    BY <1>2 DEF Restart
  <2> QED
    BY <2>5, <2>6
<1>3. ASSUME NEW r \in Requests, SiebelHandles(r) PROVE SubmissionsCleared' /\ LateCleared'
  BY <1>3 DEF SiebelHandles
<1>4. ASSUME NEW s \in Scans, SiebelHandlesLate(s)
      PROVE  SubmissionsCleared' /\ LateCleared'
  BY <1>4 DEF SiebelHandlesLate, submissions
<1>5. ASSUME NEW r \in Requests, Answered(r) PROVE SubmissionsCleared' /\ LateCleared'
  BY <1>5 DEF Answered
<1>6. ASSUME NEW r \in Requests, TimesOut(r) PROVE SubmissionsCleared' /\ LateCleared'
  BY <1>6 DEF TimesOut
<1>7. ASSUME UNCHANGED <<submissions, late>> PROVE SubmissionsCleared' /\ LateCleared'
  BY <1>7 DEF submissions
<1> QED
  BY <1>1, <1>2, <1>3, <1>4, <1>5, <1>6, <1>7 DEF Next, vars, history, Upload, Progress,
     Find, ProcessScanResult

LEMMA GateAlways == Spec => [](Typed /\ Gate)
<1>1. Init => Gate
  BY DEF Init, Gate, WebhooksTrue, JobsTrue, SubmissionsCleared, LateCleared, NoJobs
<1>2. Typed /\ Gate /\ [Next]_vars => (Typed /\ Gate)'
  BY TypedStep, JobsStep, SubmissionsStep DEF Gate
<1> QED
  BY <1>1, <1>2, TypedInit, PTL DEF Spec

\* Only files the scanner has cleared are attached, for any number of processes,
\* webhooks, restarts, repeated and late calls (service.py:43-57).
THEOREM GateKept == Spec => KeepsGate
<1>1. Init => G!Init
  BY DEF Init, G!Init
<1>2. ASSUME Typed, Gate, [Next]_vars PROVE [G!Next]_(G!vars)
  <2> USE <1>2 DEF Typed, Gate
  <2>1. ASSUME NEW s \in Scans, Find(s) PROVE [G!Next]_(G!vars)
    <3>1. G!Find(s)
      BY <2>1 DEF Find, G!Find
    <3> QED
      BY <3>1 DEF G!Next
  <2>2. ASSUME NEW r \in Requests, SiebelHandles(r) PROVE [G!Next]_(G!vars)
    <3>1. file[r] \in Scans /\ verdict[file[r]] = "CLEAN"
      BY <2>2 DEF SiebelHandles, SubmissionsCleared, Cleared
    <3>2. UNCHANGED G!vars \/ G!Attach(file[r])
      BY <2>2, <3>1 DEF SiebelHandles, G!Attach, G!vars
    <3> QED
      BY <3>1, <3>2 DEF G!Next
  <2>3. ASSUME NEW s \in Scans, SiebelHandlesLate(s) PROVE [G!Next]_(G!vars)
    <3>1. verdict[s] = "CLEAN"
      BY <2>3 DEF SiebelHandlesLate, LateCleared, Cleared
    <3>2. UNCHANGED G!vars \/ G!Attach(s)
      BY <2>3, <3>1 DEF SiebelHandlesLate, G!Attach, G!vars
    <3> QED
      BY <3>2 DEF G!Next
  <2>4. ASSUME UNCHANGED <<verdict, copies>> PROVE [G!Next]_(G!vars)
    BY <2>4 DEF G!vars
  <2> QED
    BY <1>2, <2>1, <2>2, <2>3, <2>4, VisibleSteps
<1> QED
  BY <1>1, <1>2, GateAlways, PTL DEF Spec, KeepsGate, G!Spec

\* What the gate comes to: whatever Siebel holds a copy of, the scanner has cleared.
OnlyCleared == \A s \in Scans : copies[s] # 0 => verdict[s] = "CLEAN"

GateTyped ==
    verdict = [s \in Scans |-> verdict[s]] /\ copies = [s \in Scans |-> copies[s]]

\* No infected or unscanned file is ever attached (service.py:43-57).
THEOREM OnlyClearedAttached == Spec => []OnlyCleared
<1>1. G!Init => GateTyped /\ OnlyCleared
  BY DEF G!Init, GateTyped, OnlyCleared
<1>2. ASSUME GateTyped, OnlyCleared, [G!Next]_(G!vars)
      PROVE  GateTyped' /\ OnlyCleared'
  <2> USE <1>2 DEF GateTyped, OnlyCleared
  <2>1. ASSUME NEW s \in Scans, G!Find(s) PROVE GateTyped' /\ OnlyCleared'
    BY <2>1 DEF G!Find
  <2>2. ASSUME NEW s \in Scans, G!Attach(s) PROVE GateTyped' /\ OnlyCleared'
    BY <2>2 DEF G!Attach
  <2>3. CASE UNCHANGED G!vars
    BY <2>3 DEF G!vars
  <2> QED
    BY <2>1, <2>2, <2>3 DEF G!Next
<1>3. G!Spec => []OnlyCleared
  BY <1>1, <1>2, PTL DEF G!Spec
<1> QED
  BY <1>3, GateKept, PTL DEF KeepsGate

-----------------------------------------------------------------------------
(* Counting.  Instead of adding up over the requests, Left(s) is the set of *)
(* the attempts that submissions of s under way may still make.             *)

Attempts == 1..MaxAttempts

Left(s) ==
    {a \in Requests \X Attempts :
        /\ file[a[1]] = s
        /\ a[2] > attempt[a[1]] \/ (a[2] = attempt[a[1]] /\ wire[a[1]] = "sent")}

Running(s) == {r \in Requests : file[r] = s}
Good(s) == {r \in Requests : file[r] = s /\ wire[r] \in Stored}

Places ==
    /\ attempt \in [Requests -> Attempts]
    /\ begun \in [Scans -> 0..MaxSubmits]
    /\ \A r \in Requests :
         /\ at[r] = None => file[r] = None /\ attempt[r] = 1 /\ wire[r] = "none"
         /\ at[r] # None => file[r] \in Scans /\ wire[r] # "none"

Budget ==
    \A s \in Scans :
        copies[s] + late[s] + Cardinality(Left(s)) <= MaxAttempts * begun[s]

AnsweredOnce ==
    \A s \in Scans : answered[s] + untold[s] + Cardinality(Running(s)) <= begun[s]

HaveCopies ==
    /\ \A s \in Scans : answered[s] + untold[s] + Cardinality(Good(s)) <= copies[s]
    /\ \A s \in Scans : ~failed => late[s] = 0
    /\ \A s \in Scans : ~failed => copies[s] = answered[s] + untold[s] + Cardinality(Good(s))

LEMMA CountableAttempts ==
    ASSUME NEW S, S \subseteq Requests \X Attempts
    PROVE  IsFiniteSet(S) /\ Cardinality(S) \in Nat
<1>1. IsFiniteSet(Attempts)
  BY BoundsAssumption, FS_Interval DEF Attempts
<1>2. IsFiniteSet(Requests \X Attempts)
  BY <1>1, RequestsAssumption, FS_Product
<1> QED
  BY <1>2, FS_Subset, FS_CardinalityType

LEMMA CountableRequests ==
    ASSUME NEW S, S \subseteq Requests
    PROVE  IsFiniteSet(S) /\ Cardinality(S) \in Nat
BY RequestsAssumption, FS_Subset, FS_CardinalityType

\* A running submission stays or returns; a new one starts at a free request.
LEMMA PlacesStep ==
    ASSUME Typed, Places, [Next]_vars
    PROVE  Places'
<1> USE BoundsAssumption, ValuesAssumption DEF Typed, Places, Attempts
<1>0. ASSUME NEW r \in Requests, Return(r), UNCHANGED begun PROVE Places'
  <2>1. attempt' \in [Requests -> Attempts]
    BY <1>0 DEF Return
  <2>2. /\ at'[r] = None /\ file'[r] = None /\ attempt'[r] = 1 /\ wire'[r] = "none"
        /\ \A q \in Requests \ {r} : /\ at'[q] = at[q] /\ file'[q] = file[q]
                                     /\ attempt'[q] = attempt[q] /\ wire'[q] = wire[q]
    BY <1>0 DEF Return
  <2> QED
    BY <1>0, <2>1, <2>2
<1>1. ASSUME NEW r \in Requests, NEW p \in Processes, NEW s \in Scans, NEW u \in Users,
             BeginSubmit(r, p, s, u)
      PROVE  Places'
  <2>1. begun[s] + 1 \in 0..MaxSubmits
    BY <1>1 DEF BeginSubmit
  <2>2. begun' \in [Scans -> 0..MaxSubmits] /\ attempt' = attempt
    BY <1>1, <2>1 DEF BeginSubmit
  <2> QED
    BY <1>1, <2>2 DEF BeginSubmit
<1>2. ASSUME NEW p \in Processes, Restart(p) PROVE Places'
  BY <1>2 DEF Restart
<1>3. ASSUME NEW r \in Requests, SiebelHandles(r) PROVE Places'
  BY <1>3 DEF SiebelHandles, Stored, history
<1>4. ASSUME NEW r \in Requests, Answered(r) PROVE Places'
  BY <1>0, <1>4 DEF Answered
<1>5. ASSUME NEW r \in Requests, TimesOut(r) PROVE Places'
  <2>1. CASE Again(r)
    <3>1. attempt[r] + 1 \in 1..MaxAttempts
      BY <2>1 DEF Again
    <3> QED
      BY <1>5, <2>1, <3>1 DEF TimesOut
  <2>2. CASE ~Again(r)
    BY <1>0, <1>5, <2>2 DEF TimesOut
  <2> QED
    BY <2>1, <2>2
<1>6. ASSUME UNCHANGED <<submissions, begun>> PROVE Places'
  BY <1>6 DEF submissions
<1> QED
  BY <1>1, <1>2, <1>3, <1>4, <1>5, <1>6 DEF Next, vars, history, Upload, Progress,
     Find, ProcessScanResult, SiebelHandlesLate

LEMMA OneMoreTime ==
    ASSUME NEW a \in Nat, NEW b \in Nat
    PROVE  a * (b + 1) = a * b + a
OBVIOUS

\* An attempt under way that is given up or carried out leaves the budget; only a new
\* submission adds to it.
LEMMA BudgetStep ==
    ASSUME Typed, Places, Budget, [Next]_vars
    PROVE  Budget'
<1> USE BoundsAssumption, ValuesAssumption
<1>0. \A s : IsFiniteSet(Left(s)) /\ Cardinality(Left(s)) \in Nat
  BY CountableAttempts DEF Left
<1>a. \A s : Left(s)' \subseteq Requests \X Attempts
  BY DEF Left
<1>b. \A s : IsFiniteSet(Left(s)') /\ Cardinality(Left(s)') \in Nat
  BY <1>a, CountableAttempts
<1>c. \A s : Left(s)' \subseteq Left(s) => Cardinality(Left(s)') <= Cardinality(Left(s))
  BY <1>0, FS_Subset
<1>d. \A s \in Scans : MaxAttempts * begun[s] \in Nat
  BY DEF Places
<1>1. ASSUME NEW r \in Requests, NEW p \in Processes, NEW f \in Scans, NEW u \in Users,
             BeginSubmit(r, p, f, u)
      PROVE  Budget'
  <2> DEFINE New == {r} \X Attempts
  <2>1. file[r] = None /\ attempt' = attempt /\ file' = [file EXCEPT ![r] = f]
        /\ wire' = [wire EXCEPT ![r] = "sent"]
    BY <1>1 DEF BeginSubmit, Places
  <2>2. Left(f)' \subseteq Left(f) \cup New
    BY <2>1 DEF Left, Typed
  <2>3. \A t \in Scans \ {f} : Left(t)' \subseteq Left(t)
    BY <2>1 DEF Left, Typed
  <2>4. IsFiniteSet(New) /\ Cardinality(New) = MaxAttempts
    <3>1. IsFiniteSet({r}) /\ Cardinality({r}) = 1
      BY FS_Singleton
    <3>2. IsFiniteSet(Attempts) /\ Cardinality(Attempts) = MaxAttempts
      BY FS_Interval DEF Attempts
    <3>3. IsFiniteSet(New) /\ Cardinality(New) = 1 * MaxAttempts
      BY <3>1, <3>2, FS_Product
    <3> QED
      BY <3>3
  <2>5. Cardinality(Left(f)') <= Cardinality(Left(f)) + MaxAttempts
    <3>1. Cardinality(Left(f) \cap New) \in Nat
      BY <2>4, FS_Intersection, FS_CardinalityType
    <3>2. /\ IsFiniteSet(Left(f) \cup New)
          /\ Cardinality(Left(f) \cup New)
               = Cardinality(Left(f)) + MaxAttempts - Cardinality(Left(f) \cap New)
      BY <1>0, <2>4, FS_Union
    <3>3. Cardinality(Left(f)') <= Cardinality(Left(f) \cup New)
      BY <2>2, <3>2, FS_Subset
    <3> QED
      BY <1>0, <1>b, <3>1, <3>2, <3>3
  <2>6. begun' = [begun EXCEPT ![f] = @ + 1] /\ copies' = copies /\ late' = late
    BY <1>1 DEF BeginSubmit
  <2>7. MaxAttempts * begun'[f] = MaxAttempts * begun[f] + MaxAttempts
    BY <2>6, OneMoreTime DEF Places
  <2>8. copies'[f] + late'[f] + Cardinality(Left(f)') <= MaxAttempts * begun'[f]
    BY <1>0, <1>b, <1>d, <2>5, <2>6, <2>7 DEF Budget, Typed
  <2>9. \A t \in Scans \ {f} :
          copies'[t] + late'[t] + Cardinality(Left(t)') <= MaxAttempts * begun'[t]
    <3> SUFFICES ASSUME NEW t \in Scans \ {f}
                 PROVE  copies'[t] + late'[t] + Cardinality(Left(t)') <= MaxAttempts * begun'[t]
      OBVIOUS
    <3>1. begun'[t] = begun[t] /\ Cardinality(Left(t)') <= Cardinality(Left(t))
      BY <1>c, <2>3, <2>6 DEF Places
    <3> QED
      BY <1>0, <1>b, <1>d, <2>6, <3>1 DEF Budget, Typed
  <2> QED
    BY <2>8, <2>9 DEF Budget
<1>2. ASSUME NEW p \in Processes, Restart(p) PROVE Budget'
  <2> DEFINE dead == {r \in Requests : at[r] = p}
             sent(s) == {r \in {q \in Requests : at[q] = p} : file[r] = s /\ wire[r] = "sent"}
             Gone == dead \X Attempts
  <2> SUFFICES ASSUME NEW s \in Scans
               PROVE  copies'[s] + late'[s] + Cardinality(Left(s)') <= MaxAttempts * begun'[s]
    BY DEF Budget
  <2>1. late'[s] = late[s] + Cardinality(sent(s)) /\ copies' = copies /\ begun' = begun
    BY <1>2 DEF Restart
  <2>2. Left(s)' \subseteq Left(s) \ Gone
    BY <1>2 DEF Left, Restart, Typed
  <2>3. Cardinality(sent(s)) <= Cardinality(Left(s) \cap Gone)
    <3> DEFINE f == [r \in sent(s) |-> <<r, attempt[r]>>]
    <3>1. \A r \in sent(s) : <<r, attempt[r]>> \in Left(s) \cap Gone
      BY DEF Left, Places
    <3>2. f \in [sent(s) -> Left(s) \cap Gone]
      BY <3>1
    <3>3. \A a, b \in sent(s) : f[a] = f[b] => a = b
      OBVIOUS
    <3>4. f \in Injection(sent(s), Left(s) \cap Gone)
      BY <3>2, <3>3, Fun_IsInj
    <3>5. IsFiniteSet(Left(s) \cap Gone)
      BY <1>0, FS_Intersection
    <3> QED
      BY <3>4, <3>5, FS_Injection
  <2>4. Cardinality(sent(s)) \in Nat
    BY DeadAreCounted
  <2>5. /\ IsFiniteSet(Left(s) \ Gone)
        /\ Cardinality(Left(s) \ Gone) = Cardinality(Left(s)) - Cardinality(Left(s) \cap Gone)
    BY <1>0, FS_Difference
  <2>6. Cardinality(Left(s)') <= Cardinality(Left(s) \ Gone)
    BY <2>2, <2>5, FS_Subset
  <2>7. Cardinality(Left(s) \cap Gone) \in Nat
    BY <1>0, FS_Intersection, FS_CardinalityType
  <2> QED
    BY <1>0, <1>b, <1>d, <2>1, <2>3, <2>4, <2>5, <2>6, <2>7 DEF Budget, Typed
<1>3. ASSUME NEW r \in Requests, wire[r] = "sent", NEW f \in Scans, file[r] = f,
             Left(f)' \subseteq Left(f) \ {<<r, attempt[r]>>}
      PROVE  Cardinality(Left(f)') <= Cardinality(Left(f)) - 1
  <2>1. <<r, attempt[r]>> \in Left(f)
    BY <1>3 DEF Left, Places
  <2>2. /\ IsFiniteSet(Left(f) \ {<<r, attempt[r]>>})
        /\ Cardinality(Left(f) \ {<<r, attempt[r]>>}) = Cardinality(Left(f)) - 1
    BY <1>0, <2>1, FS_RemoveElement
  <2> QED
    BY <1>3, <2>2, FS_Subset
<1>4. ASSUME NEW r \in Requests, SiebelHandles(r) PROVE Budget'
  <2>0. PICK f \in Scans : f = file[r]
    BY <1>4 DEF SiebelHandles, Places
  <2>1. file[r] = f /\ wire[r] = "sent" /\ UNCHANGED <<file, attempt, late, begun>>
    BY <1>4, <2>0 DEF SiebelHandles, history
  <2>2. PICK res \in {"ok", "garbled", "rejected"} : wire' = [wire EXCEPT ![r] = res]
    BY <1>4 DEF SiebelHandles, Stored
  <2>3. \A t \in Scans : Left(t)' \subseteq Left(t)
    BY <2>1, <2>2 DEF Left, Typed
  <2>4. Left(f)' \subseteq Left(f) \ {<<r, attempt[r]>>}
    <3>1. wire'[r] # "sent" /\ attempt'[r] = attempt[r] /\ attempt[r] \in Nat
      BY <2>1, <2>2 DEF Typed, Places, Attempts
    <3>2. <<r, attempt[r]>> \notin Left(f)'
      BY <3>1 DEF Left
    <3> QED
      BY <2>3, <3>2
  <2>5. Cardinality(Left(f)') <= Cardinality(Left(f)) - 1
    BY <1>3, <2>1, <2>4
  <2>6. copies' = copies \/ copies' = [copies EXCEPT ![f] = @ + 1]
    BY <1>4, <2>1 DEF SiebelHandles
  <2>7. copies'[f] + late'[f] + Cardinality(Left(f)') <= MaxAttempts * begun'[f]
    BY <1>0, <1>b, <1>d, <2>1, <2>5, <2>6 DEF Budget, Typed
  <2>8. \A t \in Scans \ {f} :
          copies'[t] + late'[t] + Cardinality(Left(t)') <= MaxAttempts * begun'[t]
    BY <1>0, <1>b, <1>c, <1>d, <2>1, <2>3, <2>6 DEF Budget, Typed
  <2> QED
    BY <2>7, <2>8 DEF Budget
<1>5. ASSUME NEW f \in Scans, SiebelHandlesLate(f) PROVE Budget'
  <2>1. Left(f)' = Left(f) /\ \A t \in Scans : Left(t)' = Left(t)
    BY <1>5 DEF SiebelHandlesLate, submissions, Left
  <2> QED
    BY <1>0, <1>5, <1>d, <2>1 DEF SiebelHandlesLate, history, Budget, Typed
<1>6. ASSUME NEW r \in Requests, Answered(r) PROVE Budget'
  <2>1. \A t \in Scans : Left(t)' \subseteq Left(t)
    BY <1>6 DEF Answered, Return, Left, Typed
  <2>2. UNCHANGED <<late, copies, begun>>
    BY <1>6 DEF Answered
  <2> QED
    BY <1>0, <1>b, <1>c, <1>d, <2>1, <2>2 DEF Budget, Typed
<1>7. ASSUME NEW r \in Requests, TimesOut(r) PROVE Budget'
  <2>0. PICK f \in Scans : f = file[r]
    BY <1>7 DEF TimesOut, Places
  <2>1. file[r] = f /\ UNCHANGED <<copies, begun>>
    BY <1>7, <2>0 DEF TimesOut
  <2>2. \A t \in Scans : Left(t)' \subseteq Left(t)
    <3>1. CASE Again(r)
      BY <1>7, <3>1 DEF TimesOut, Left, Typed, Places, Attempts
    <3>2. CASE ~Again(r)
      <4>1. Return(r)
        BY <1>7, <3>2 DEF TimesOut
      <4> QED
        BY <4>1 DEF Return, Left, Typed
    <3> QED
      BY <3>1, <3>2
  <2>3. CASE wire[r] # "sent"
    <3>1. late' = late
      BY <1>7, <2>3 DEF TimesOut
    <3> QED
      BY <1>0, <1>b, <1>c, <1>d, <2>1, <2>2, <3>1 DEF Budget, Typed
  <2>4. CASE wire[r] = "sent"
    <3>1. late' = [late EXCEPT ![f] = @ + 1]
      BY <1>7, <2>1, <2>4 DEF TimesOut
    <3>2. <<r, attempt[r]>> \notin Left(f)'
      <4>1. CASE Again(r)
        BY <1>7, <4>1 DEF TimesOut, Left, Typed, Places, Attempts
      <4>2. CASE ~Again(r)
        <5>1. file'[r] # f
          BY <1>7, <4>2 DEF TimesOut, Return, Typed
        <5> QED
          BY <5>1 DEF Left
      <4> QED
        BY <4>1, <4>2
    <3>3. Cardinality(Left(f)') <= Cardinality(Left(f)) - 1
      BY <1>3, <2>1, <2>2, <2>4, <3>2
    <3>4. copies'[f] + late'[f] + Cardinality(Left(f)') <= MaxAttempts * begun'[f]
      BY <1>0, <1>b, <1>d, <2>1, <3>1, <3>3 DEF Budget, Typed
    <3>5. \A t \in Scans \ {f} :
            copies'[t] + late'[t] + Cardinality(Left(t)') <= MaxAttempts * begun'[t]
      BY <1>0, <1>b, <1>c, <1>d, <2>1, <2>2, <3>1 DEF Budget, Typed
    <3> QED
      BY <3>4, <3>5 DEF Budget
  <2> QED
    BY <2>3, <2>4
<1>8. ASSUME UNCHANGED <<submissions, late, copies, begun>> PROVE Budget'
  <2>1. \A t \in Scans : Left(t)' = Left(t)
    BY <1>8 DEF submissions, Left
  <2> QED
    BY <1>8, <2>1 DEF Budget
<1> QED
  BY <1>1, <1>2, <1>4, <1>5, <1>6, <1>7, <1>8 DEF Next, vars, history, Upload, Progress,
     Find, ProcessScanResult

\* A submission under way is answered at most once.
LEMMA AnsweredOnceStep ==
    ASSUME Typed, Places, AnsweredOnce, [Next]_vars
    PROVE  AnsweredOnce'
<1> USE ValuesAssumption
<1>0. \A s : IsFiniteSet(Running(s)) /\ Cardinality(Running(s)) \in Nat
  BY CountableRequests DEF Running
<1>a. \A s : IsFiniteSet(Running(s)') /\ Cardinality(Running(s)') \in Nat
  BY CountableRequests DEF Running
<1>b. \A s \in Scans : begun[s] \in Nat
  BY BoundsAssumption DEF Places
<1>1. ASSUME NEW r \in Requests, NEW p \in Processes, NEW f \in Scans, NEW u \in Users,
             BeginSubmit(r, p, f, u)
      PROVE  AnsweredOnce'
  <2>1. /\ file[r] = None /\ file' = [file EXCEPT ![r] = f]
        /\ begun' = [begun EXCEPT ![f] = @ + 1] /\ UNCHANGED <<answered, untold>>
    BY <1>1 DEF BeginSubmit, Places
  <2>2. Running(f)' = Running(f) \cup {r} /\ r \notin Running(f)
    BY <2>1 DEF Running, Typed
  <2>3. Cardinality(Running(f)') = Cardinality(Running(f)) + 1
    BY <1>0, <2>2, FS_AddElement
  <2>4. \A t \in Scans \ {f} : Running(t)' = Running(t)
    BY <2>1 DEF Running, Typed
  <2>5. begun'[f] = begun[f] + 1 /\ \A t \in Scans \ {f} : begun'[t] = begun[t]
    BY <2>1 DEF Places
  <2>6. answered[f] \in Nat /\ untold[f] \in Nat
    BY DEF Typed
  <2>7. answered'[f] + untold'[f] + Cardinality(Running(f)') <= begun'[f]
    <3>1. answered[f] + untold[f] + Cardinality(Running(f)) <= begun[f]
      BY DEF AnsweredOnce
    <3>2. answered'[f] = answered[f] /\ untold'[f] = untold[f]
      BY <2>1
    <3> QED
      BY <1>0, <1>b, <2>3, <2>5, <2>6, <3>1, <3>2
  <2>8. ASSUME NEW t \in Scans \ {f}
        PROVE  answered'[t] + untold'[t] + Cardinality(Running(t)') <= begun'[t]
    <3>1. answered[t] + untold[t] + Cardinality(Running(t)) <= begun[t]
      BY DEF AnsweredOnce
    <3>2. /\ answered'[t] = answered[t] /\ untold'[t] = untold[t] /\ begun'[t] = begun[t]
          /\ Running(t)' = Running(t)
      BY <2>1, <2>4, <2>5
    <3> QED
      BY <3>1, <3>2
  <2> QED
    BY <2>7, <2>8 DEF AnsweredOnce
<1>2. ASSUME NEW r \in Requests, Answered(r) PROVE AnsweredOnce'
  <2>1. PICK f \in Scans : f = file[r]
    BY <1>2 DEF Answered, Places, Stored
  <2>2. begun' = begun /\ file' = [file EXCEPT ![r] = None]
    BY <1>2, <2>1 DEF Answered, Return
  <2>6. \/ answered' = [answered EXCEPT ![f] = @ + 1] /\ untold' = untold
        \/ answered' = answered /\ untold' = [untold EXCEPT ![f] = @ + 1]
        \/ UNCHANGED <<answered, untold>>
    BY <1>2, <2>1 DEF Answered, Succeeded
  <2>3. Running(f)' = Running(f) \ {r} /\ r \in Running(f)
    BY <2>1, <2>2 DEF Running, Typed
  <2>4. Cardinality(Running(f)') = Cardinality(Running(f)) - 1
    BY <1>0, <2>3, FS_RemoveElement
  <2>5. \A t \in Scans \ {f} : Running(t)' = Running(t)
    BY <2>1, <2>2 DEF Running, Typed
  <2>7. answered'[f] + untold'[f] + Cardinality(Running(f)') <= begun'[f]
    BY <1>0, <1>b, <2>2, <2>4, <2>6 DEF AnsweredOnce, Typed
  <2>8. \A t \in Scans \ {f} : answered'[t] = answered[t] /\ untold'[t] = untold[t]
    BY <2>6 DEF Typed
  <2> QED
    BY <2>2, <2>5, <2>7, <2>8 DEF AnsweredOnce
<1>3. ASSUME \A s \in Scans : Running(s)' \subseteq Running(s),
             UNCHANGED <<begun, answered, untold>>
      PROVE  AnsweredOnce'
  <2>1. \A s \in Scans : Cardinality(Running(s)') <= Cardinality(Running(s))
    BY <1>0, <1>3, FS_Subset
  <2> QED
    BY <1>0, <1>a, <1>b, <1>3, <2>1 DEF AnsweredOnce, Typed
<1>4. ASSUME NEW p \in Processes, Restart(p) PROVE AnsweredOnce'
  BY <1>3, <1>4 DEF Restart, Running, Typed
<1>5. ASSUME NEW r \in Requests, TimesOut(r) PROVE AnsweredOnce'
  <2>1. file' = file \/ file' = [file EXCEPT ![r] = None]
    BY <1>5 DEF TimesOut, Return
  <2> QED
    BY <1>3, <1>5, <2>1 DEF TimesOut, Running, Typed
<1>6. ASSUME UNCHANGED <<file, begun, answered, untold>> PROVE AnsweredOnce'
  BY <1>3, <1>6 DEF Running
<1> QED
  BY <1>1, <1>2, <1>4, <1>5, <1>6 DEF Next, vars, submissions, history, Upload, Progress,
     Find, ProcessScanResult, SiebelHandles, SiebelHandlesLate

\* Siebel's good answer comes with its attachment; only a failure can lose the one or
\* double the other.
LEMMA HaveCopiesStep ==
    ASSUME Typed, Places, HaveCopies, [Next]_vars
    PROVE  HaveCopies'
<1> USE ValuesAssumption
<1>0. \A s : IsFiniteSet(Good(s)) /\ Cardinality(Good(s)) \in Nat
  BY CountableRequests DEF Good
<1>a. \A s : IsFiniteSet(Good(s)') /\ Cardinality(Good(s)') \in Nat
  BY CountableRequests DEF Good
<1>b. ASSUME \A s \in Scans : Good(s)' \subseteq Good(s), failed',
             UNCHANGED <<answered, untold, copies>>
      PROVE  HaveCopies'
  <2>1. \A s \in Scans : Cardinality(Good(s)') <= Cardinality(Good(s))
    BY <1>0, <1>b, FS_Subset
  <2> QED
    BY <1>0, <1>a, <1>b, <2>1 DEF HaveCopies, Typed
<1>c. ASSUME \A s \in Scans : Good(s)' = Good(s),
             UNCHANGED <<answered, untold, copies, late, failed>>
      PROVE  HaveCopies'
  BY <1>c DEF HaveCopies
<1>1. ASSUME NEW r \in Requests, NEW p \in Processes, NEW s \in Scans, NEW u \in Users,
             BeginSubmit(r, p, s, u)
      PROVE  HaveCopies'
  <2>1. /\ wire[r] = "none"
        /\ file' = [file EXCEPT ![r] = s] /\ wire' = [wire EXCEPT ![r] = "sent"]
        /\ UNCHANGED <<answered, untold, copies, late, failed>>
    BY <1>1 DEF BeginSubmit, Places
  <2> QED
    BY <1>c, <2>1 DEF Good, Typed, Stored
<1>2. ASSUME NEW r \in Requests, SiebelHandles(r) PROVE HaveCopies'
  <2>1. PICK f \in Scans : f = file[r]
    BY <1>2 DEF SiebelHandles, Places
  <2>2. wire[r] = "sent" /\ UNCHANGED <<file, late, answered, untold, failed>>
    BY <1>2 DEF SiebelHandles, history
  <2>3. CASE wire' = [wire EXCEPT ![r] = "rejected"] /\ UNCHANGED copies
    BY <1>c, <2>2, <2>3 DEF Good, Typed, Stored
  <2>4. CASE /\ \E answer \in Stored : wire' = [wire EXCEPT ![r] = answer]
             /\ copies' = [copies EXCEPT ![f] = @ + 1]
    <3>1. Good(f)' = Good(f) \cup {r} /\ r \notin Good(f)
      BY <2>1, <2>2, <2>4 DEF Good, Typed, Stored
    <3>2. Cardinality(Good(f)') = Cardinality(Good(f)) + 1
      BY <1>0, <3>1, FS_AddElement
    <3>3. \A t \in Scans \ {f} : Good(t)' = Good(t)
      BY <2>1, <2>2, <2>4 DEF Good, Typed
    <3>4. /\ answered[f] \in Nat /\ untold[f] \in Nat /\ copies[f] \in Nat
          /\ copies'[f] = copies[f] + 1 /\ \A t \in Scans \ {f} : copies'[t] = copies[t]
      BY <2>4 DEF Typed
    <3>5. /\ answered'[f] + untold'[f] + Cardinality(Good(f)') <= copies'[f]
          /\ ~failed' => copies'[f] = answered'[f] + untold'[f] + Cardinality(Good(f)')
      BY <1>0, <2>2, <3>2, <3>4 DEF HaveCopies
    <3>6. late' = late /\ answered' = answered /\ untold' = untold /\ failed' = failed
      BY <2>2
    <3>7. ASSUME NEW t \in Scans \ {f}
          PROVE  /\ answered'[t] + untold'[t] + Cardinality(Good(t)') <= copies'[t]
                 /\ ~failed' => copies'[t] = answered'[t] + untold'[t] + Cardinality(Good(t)')
      <4>1. copies'[t] = copies[t] /\ Good(t)' = Good(t)
        BY <3>3, <3>4
      <4> QED
        BY <3>6, <4>1 DEF HaveCopies
    <3> QED
      BY <3>5, <3>6, <3>7 DEF HaveCopies
  <2> QED
    BY <1>2, <2>1, <2>3, <2>4 DEF SiebelHandles
<1>3. ASSUME NEW s \in Scans, SiebelHandlesLate(s) PROVE HaveCopies'
  <2>1. failed
    BY <1>3 DEF SiebelHandlesLate, HaveCopies, Typed
  <2>2. /\ failed' /\ UNCHANGED <<answered, untold>>
        /\ \A t \in Scans : Good(t)' = Good(t)
    BY <1>3, <2>1 DEF SiebelHandlesLate, submissions, history, Good
  <2>3. \A t \in Scans : copies[t] \in Nat /\ copies'[t] \in Nat /\ copies[t] <= copies'[t]
    BY <1>3 DEF SiebelHandlesLate, Typed
  <2>4. ASSUME NEW t \in Scans
        PROVE  answered'[t] + untold'[t] + Cardinality(Good(t)') <= copies'[t]
    <3>1. answered[t] + untold[t] + Cardinality(Good(t)) <= copies[t]
      BY DEF HaveCopies
    <3>2. answered[t] \in Nat /\ untold[t] \in Nat
      BY DEF Typed
    <3> QED
      BY <1>0, <2>2, <2>3, <3>1, <3>2
  <2> QED
    BY <2>2, <2>4 DEF HaveCopies
<1>4. ASSUME NEW r \in Requests, Answered(r) PROVE HaveCopies'
  <2>1. PICK f \in Scans : f = file[r]
    BY <1>4 DEF Answered, Places, Stored
  <2>2. /\ file' = [file EXCEPT ![r] = None] /\ wire' = [wire EXCEPT ![r] = "none"]
        /\ UNCHANGED <<late, copies, failed>>
    BY <1>4 DEF Answered, Return
  <2>3. CASE wire[r] \in Stored
    <3>1. \/ answered' = [answered EXCEPT ![f] = @ + 1] /\ untold' = untold
          \/ answered' = answered /\ untold' = [untold EXCEPT ![f] = @ + 1]
      BY <1>4, <2>1, <2>3 DEF Answered, Succeeded, Stored
    <3>2. Good(f)' = Good(f) \ {r} /\ r \in Good(f)
      BY <2>1, <2>2, <2>3 DEF Good, Typed, Stored
    <3>3. Cardinality(Good(f)') = Cardinality(Good(f)) - 1
      BY <1>0, <3>2, FS_RemoveElement
    <3>4. \A t \in Scans \ {f} : Good(t)' = Good(t)
      BY <2>1, <2>2 DEF Good, Typed, Stored
    <3>5. answered'[f] + untold'[f] = answered[f] + untold[f] + 1
      BY <3>1 DEF Typed
    <3>6. \A t \in Scans \ {f} : answered'[t] = answered[t] /\ untold'[t] = untold[t]
      BY <3>1 DEF Typed
    <3>7. \A t \in Scans : answered'[t] \in Nat /\ untold'[t] \in Nat
      BY <3>1 DEF Typed
    <3>8. /\ answered'[f] + untold'[f] + Cardinality(Good(f)') <= copies'[f]
          /\ ~failed' => copies'[f] = answered'[f] + untold'[f] + Cardinality(Good(f)')
      BY <1>0, <1>a, <2>2, <3>3, <3>5, <3>7 DEF HaveCopies, Typed
    <3> QED
      BY <2>2, <3>4, <3>6, <3>8 DEF HaveCopies
  <2>4. CASE wire[r] \notin Stored
    <3>1. UNCHANGED <<answered, untold>>
      BY <1>4, <2>4 DEF Answered, Succeeded, Stored
    <3> QED
      BY <1>c, <2>2, <2>4, <3>1 DEF Good, Typed, Stored
  <2> QED
    BY <2>3, <2>4
<1>5. ASSUME NEW p \in Processes, Restart(p) PROVE HaveCopies'
  BY <1>b, <1>5 DEF Restart, Good, Typed, Stored
<1>6. ASSUME NEW r \in Requests, TimesOut(r) PROVE HaveCopies'
  <2>1. /\ wire' = [wire EXCEPT ![r] = wire'[r]] /\ wire'[r] \notin Stored
        /\ file' = [file EXCEPT ![r] = file'[r]]
    BY <1>6 DEF TimesOut, Return, Typed, Stored
  <2>2. \A s \in Scans : Good(s)' \subseteq Good(s)
    BY <2>1 DEF Good, Typed
  <2> QED
    BY <1>b, <1>6, <2>2 DEF TimesOut
<1>7. ASSUME UNCHANGED <<file, wire, late, copies, answered, untold, failed>> PROVE HaveCopies'
  BY <1>c, <1>7 DEF Good
<1> QED
  BY <1>1, <1>2, <1>3, <1>4, <1>5, <1>6, <1>7 DEF Next, vars, submissions, history, Upload,
     Progress, Find, ProcessScanResult

Counted == Places /\ Budget /\ AnsweredOnce /\ HaveCopies

LEMMA CountedAlways == Spec => [](Typed /\ Counted)
<1>1. ASSUME Init PROVE Counted
  <2> USE <1>1, BoundsAssumption, ValuesAssumption DEF Init
  <2>1. Places
    BY DEF Places, Attempts
  <2>2. \A s \in Scans : Left(s) = {} /\ Running(s) = {} /\ Good(s) = {}
    BY DEF Left, Running, Good, Stored
  <2>3. Cardinality({}) = 0
    BY FS_EmptySet
  <2>4. \A s \in Scans : MaxAttempts * begun[s] = 0
    OBVIOUS
  <2>5. \A s \in Scans : /\ Cardinality(Left(s)) = 0
                         /\ Cardinality(Running(s)) = 0 /\ Cardinality(Good(s)) = 0
    BY <2>2, <2>3
  <2>6. Budget /\ AnsweredOnce /\ HaveCopies
    BY <2>4, <2>5 DEF Budget, AnsweredOnce, HaveCopies
  <2> QED
    BY <2>1, <2>6 DEF Counted
<1>2. Typed /\ Counted /\ [Next]_vars => (Typed /\ Counted)'
  BY TypedStep, PlacesStep, BudgetStep, AnsweredOnceStep, HaveCopiesStep DEF Counted
<1> QED
  BY <1>1, <1>2, TypedInit, PTL DEF Spec

LEMMA TimesAtMost ==
    ASSUME NEW a \in Nat, NEW b \in Nat, NEW c \in 0..b
    PROVE  a * c \in Nat /\ a * b \in Nat /\ a * c <= a * b
OBVIOUS

LEMMA WithinBudget ==
    ASSUME Typed, Counted, NEW s \in Scans
    PROVE  /\ copies[s] <= MaxAttempts * begun[s]
           /\ late[s] \in 0..(MaxAttempts * MaxSubmits)
           /\ copies[s] \in 0..(MaxAttempts * MaxSubmits)
           /\ answered[s] \in 0..MaxSubmits
           /\ untold[s] \in 0..MaxSubmits
<1> USE BoundsAssumption
<1>1. Cardinality(Left(s)) \in Nat /\ Cardinality(Running(s)) \in Nat
  BY CountableAttempts, CountableRequests DEF Left, Running
<1>2. begun[s] \in 0..MaxSubmits /\ copies[s] \in Nat /\ late[s] \in Nat
      /\ answered[s] \in Nat /\ untold[s] \in Nat
  BY DEF Counted, Places, Typed
<1>3. /\ MaxAttempts * begun[s] \in Nat /\ MaxAttempts * MaxSubmits \in Nat
      /\ MaxAttempts * begun[s] <= MaxAttempts * MaxSubmits
  BY <1>2, TimesAtMost
<1>4. /\ copies[s] + late[s] + Cardinality(Left(s)) <= MaxAttempts * begun[s]
      /\ answered[s] + untold[s] + Cardinality(Running(s)) <= begun[s]
  BY DEF Counted, Budget, AnsweredOnce
<1> QED
  BY <1>1, <1>2, <1>3, <1>4

\* The variables keep their types, the counters their bounds, for any processes,
\* requests, files and attempts.
THEOREM TypeCorrect == Spec => []TypeOK
<1> DEFINE Flag == failed \in BOOLEAN
<1>1. Typed /\ Counted /\ Flag => TypeOK
  <2> SUFFICES ASSUME Typed, Counted, Flag
               PROVE  TypeOK
    OBVIOUS
  <2>1. \A s \in Scans : /\ late[s] \in 0..(MaxAttempts * MaxSubmits)
                         /\ copies[s] \in 0..(MaxAttempts * MaxSubmits)
                         /\ answered[s] \in 0..MaxSubmits
                         /\ untold[s] \in 0..MaxSubmits
    BY WithinBudget
  <2>2. /\ late \in [Scans -> 0..(MaxAttempts * MaxSubmits)]
        /\ copies \in [Scans -> 0..(MaxAttempts * MaxSubmits)]
        /\ answered \in [Scans -> 0..MaxSubmits]
        /\ untold \in [Scans -> 0..MaxSubmits]
    BY <2>1 DEF Typed
  <2>3. attempt \in [Requests -> 1..MaxAttempts] /\ begun \in [Scans -> 0..MaxSubmits]
    BY DEF Counted, Places, Attempts
  <2> HIDE DEF Flag
  <2>4. /\ jobs \in [Processes -> [Scans -> Job \cup {NoJob}]]
        /\ verdict \in [Scans -> {"none", "CLEAN", "INFECTED"}]
        /\ webhooks \subseteq Scans \X ScanStatus
        /\ at \in [Requests -> Processes \cup {None}]
        /\ file \in [Requests -> Scans \cup {None}]
        /\ wire \in [Requests -> {"none", "sent", "ok", "garbled", "rejected"}]
    BY DEF Typed
  <2> QED
    BY <2>2, <2>3, <2>4 DEF Flag, TypeOK
<1>2. Init => Flag
  BY DEF Init
<1>3. Flag /\ [Next]_vars => Flag'
  <2> SUFFICES ASSUME Flag, [Next]_vars
               PROVE  Flag'
    OBVIOUS
  <2>1. ASSUME NEW p \in Processes, Restart(p) PROVE Flag'
    BY <2>1 DEF Restart
  <2>2. ASSUME NEW r \in Requests, TimesOut(r) PROVE Flag'
    BY <2>2 DEF TimesOut
  <2>3. ASSUME UNCHANGED failed PROVE Flag'
    BY <2>3
  <2>4. ASSUME NEW s \in Scans, Find(s) \/ SiebelHandlesLate(s) PROVE UNCHANGED failed
    BY <2>4 DEF Find, SiebelHandlesLate, history
  <2>5. ASSUME NEW s \in Scans, NEW status \in ScanStatus, Progress(s, status)
        PROVE  UNCHANGED failed
    BY <2>5 DEF Progress, history
  <2>6. ASSUME NEW p \in Processes, NEW s \in Scans, NEW u \in Users, Upload(p, s, u)
        PROVE  UNCHANGED failed
    BY <2>6 DEF Upload, history
  <2>7. ASSUME NEW r \in Requests, NEW p \in Processes, NEW s \in Scans, NEW u \in Users,
               BeginSubmit(r, p, s, u)
        PROVE  UNCHANGED failed
    BY <2>7 DEF BeginSubmit
  <2>8. ASSUME NEW p \in Processes, NEW s \in Scans, NEW status \in ScanStatus,
               ProcessScanResult(p, s, status)
        PROVE  UNCHANGED failed
    BY <2>8 DEF ProcessScanResult, history
  <2>9. ASSUME NEW r \in Requests, SiebelHandles(r) \/ Answered(r) PROVE UNCHANGED failed
    BY <2>9 DEF SiebelHandles, Answered, history
  <2>10. ASSUME UNCHANGED vars PROVE UNCHANGED failed
    BY <2>10 DEF vars, history
  <2> HIDE DEF Flag
  <2> QED
    BY <2>1, <2>2, <2>3, <2>4, <2>5, <2>6, <2>7, <2>8, <2>9, <2>10 DEF Next
<1> HIDE DEF Flag
<1> QED
  BY <1>1, <1>2, <1>3, CountedAlways, PTL DEF Spec

\* Every 201 has its attachment and a submission leaves at most one for each attempt.
\* Unless something timed out or died none is doubled, and one that was not answered
\* 201 was answered 422 because its answer could not be read (service.py:54-62,
\* client.py:218, routers/attachments.py:136).
THEOREM CopiesCorrect == Spec => []CopiesAccounted
<1>1. ASSUME Typed, Counted PROVE CopiesAccounted
  <2>1. \A s \in Scans : Pending(s) = Cardinality(Good(s))
    BY DEF Pending, Good
  <2> QED
    BY <1>1, <2>1, WithinBudget DEF CopiesAccounted, Counted, HaveCopies
<1> QED
  BY <1>1, CountedAlways, PTL

=============================================================================
