----------------------------- MODULE Attachments -----------------------------
(***************************************************************************)
(* Uploading a file, the virus scanner's webhook and the submission of the  *)
(* file to a service request (app/domains/attachments/service.py behind     *)
(* app/routers/attachments.py).  The scan jobs are a dictionary in the      *)
(* memory of each worker process; whichever process a request reaches looks *)
(* in its own.  Jobs go only with their process.                            *)
(*                                                                          *)
(* A submission checks the job and starts its POST in one step, without an  *)
(* await in between, and carries the content along.  As every POST of       *)
(* ICMClient it is sent up to MaxAttempts times; Siebel may carry out an    *)
(* attempt whose answer is lost, or carry it out after it was given up.  A  *)
(* file stored with an answer nobody can read, no JSON or no id of the right *)
(* type, ends in the ValueError that the endpoint turns into a 422.         *)
(*                                                                          *)
(* The scanner is external: it reports progress and one verdict about each  *)
(* file, and its webhooks may arrive late, again, in any order and at any   *)
(* process.                                                                 *)
(***************************************************************************)
EXTENDS Naturals, FiniteSets

CONSTANTS Processes, Requests, Users,
          Scans,        \* the scan ids handed out, one per upload
          Infected,     \* those whose content the scanner will find infected
          MaxAttempts,  \* stop_after_attempt
          MaxSubmits,   \* bound on the submissions of each file
          NoJob, None

ASSUME BoundsAssumption == MaxAttempts \in Nat \ {0} /\ MaxSubmits \in Nat
ASSUME InfectedAssumption == Infected \subseteq Scans
ASSUME RequestsAssumption == IsFiniteSet(Requests)
ASSUME ValuesAssumption == None \notin Scans \cup Processes

VARIABLES jobs,      \* _scan_jobs of each process
          verdict,   \* the scanner's verdict about each file
          webhooks,  \* webhook calls it has made: <<scan_id, status>>
          at, file, attempt, wire,   \* submissions in progress: the process, the
                     \* file, the attempt, and "none", "sent" or Siebel's result
          late,      \* attempts given up that Siebel may still carry out
          copies,    \* attachments Siebel holds of each file
          begun, answered,  \* history: submissions begun, and answered 201
          untold,    \* history: submissions answered 422 although Siebel stored the file
          failed     \* history: something timed out or died

submissions == <<at, file, attempt, wire>>
history == <<begun, answered, untold, failed>>
vars == <<jobs, verdict, webhooks, submissions, late, copies, history>>

ScanStatus == {"PENDING", "SCANNING", "CLEAN", "INFECTED"}
Job == [user_id : Users, status : ScanStatus]

TypeOK ==
    /\ jobs \in [Processes -> [Scans -> Job \cup {NoJob}]]
    /\ verdict \in [Scans -> {"none", "CLEAN", "INFECTED"}]
    /\ webhooks \subseteq Scans \X ScanStatus
    /\ at \in [Requests -> Processes \cup {None}]
    /\ file \in [Requests -> Scans \cup {None}]
    /\ attempt \in [Requests -> 1..MaxAttempts]
    /\ wire \in [Requests -> {"none", "sent", "ok", "garbled", "rejected"}]
    /\ late \in [Scans -> 0..(MaxAttempts * MaxSubmits)]
    /\ copies \in [Scans -> 0..(MaxAttempts * MaxSubmits)]
    /\ begun \in [Scans -> 0..MaxSubmits]
    /\ answered \in [Scans -> 0..MaxSubmits]
    /\ untold \in [Scans -> 0..MaxSubmits]
    /\ failed \in BOOLEAN

NoJobs == [s \in Scans |-> NoJob]

Init ==
    /\ jobs = [p \in Processes |-> NoJobs]
    /\ verdict = [s \in Scans |-> "none"]
    /\ webhooks = {}
    /\ at = [r \in Requests |-> None]
    /\ file = [r \in Requests |-> None]
    /\ attempt = [r \in Requests |-> 1]
    /\ wire = [r \in Requests |-> "none"]
    /\ late = [s \in Scans |-> 0]
    /\ copies = [s \in Scans |-> 0]
    /\ begun = [s \in Scans |-> 0]
    /\ answered = [s \in Scans |-> 0]
    /\ untold = [s \in Scans |-> 0]
    /\ failed = FALSE

-----------------------------------------------------------------------------
(* Scan jobs *)

\* A fresh scan_id, in the process that got the upload; type and size were allowed.
\* An id that nothing refers to any more stands for a fresh one.
Upload(p, s, u) ==
    /\ \A q \in Processes : jobs[q][s] = NoJob
    /\ verdict[s] = "none" /\ \A status \in ScanStatus : <<s, status>> \notin webhooks
    /\ begun[s] = 0
    /\ jobs' = [jobs EXCEPT ![p][s] = [user_id |-> u, status |-> "PENDING"]]
    /\ UNCHANGED <<verdict, webhooks, submissions, late, copies, history>>

\* The scanner, once the file was uploaded, reports that it waits or scans,
Progress(s, status) ==
    /\ \E p \in Processes : jobs[p][s] # NoJob
    /\ status \in {"PENDING", "SCANNING"}
    /\ webhooks' = webhooks \cup {<<s, status>>}
    /\ UNCHANGED <<jobs, verdict, submissions, late, copies, history>>

\* and in the end what it found.
Find(s) ==
    LET v == IF s \in Infected THEN "INFECTED" ELSE "CLEAN" IN
    /\ \E p \in Processes : jobs[p][s] # NoJob
    /\ verdict[s] = "none"
    /\ verdict' = [verdict EXCEPT ![s] = v]
    /\ webhooks' = webhooks \cup {<<s, v>>}
    /\ UNCHANGED <<jobs, submissions, late, copies, history>>

\* The webhook reaches process p: 404 if the job is not there, else the status is
\* overwritten.
ProcessScanResult(p, s, status) ==
    /\ <<s, status>> \in webhooks
    /\ jobs[p][s] # NoJob
    /\ jobs' = [jobs EXCEPT ![p][s].status = status]
    /\ UNCHANGED <<verdict, webhooks, submissions, late, copies, history>>

\* The process dies, with its jobs and its requests.
Restart(p) ==
    LET dead == {r \in Requests : at[r] = p} IN
    /\ jobs' = [jobs EXCEPT ![p] = NoJobs]
    /\ at' = [r \in Requests |-> IF r \in dead THEN None ELSE at[r]]
    /\ file' = [r \in Requests |-> IF r \in dead THEN None ELSE file[r]]
    /\ attempt' = [r \in Requests |-> IF r \in dead THEN 1 ELSE attempt[r]]
    /\ wire' = [r \in Requests |-> IF r \in dead THEN "none" ELSE wire[r]]
    /\ late' = [s \in Scans |->
                  late[s] + Cardinality({r \in dead : file[r] = s /\ wire[r] = "sent"})]
    /\ failed' = TRUE
    /\ UNCHANGED <<verdict, webhooks, copies, begun, answered, untold>>

-----------------------------------------------------------------------------
(* Submission *)

\* The answers that come with a stored file.
Stored == {"ok", "garbled"}

\* Mutant: a scan in progress is let through.
AllowsUnlessInfected(status) == status # "INFECTED"

\* The two refusals, "Scan not complete" and "File failed virus scan".
Allows(status) == status \notin {"PENDING", "SCANNING"} /\ status # "INFECTED"

\* Another user's job is "not found".
BeginSubmit(r, p, s, u) ==
    /\ at[r] = None /\ begun[s] < MaxSubmits
    /\ jobs[p][s] # NoJob
    /\ jobs[p][s].user_id = u
    /\ Allows(jobs[p][s].status)
    /\ at' = [at EXCEPT ![r] = p]
    /\ file' = [file EXCEPT ![r] = s]
    /\ wire' = [wire EXCEPT ![r] = "sent"]
    /\ begun' = [begun EXCEPT ![s] = @ + 1]
    /\ UNCHANGED <<jobs, verdict, webhooks, attempt, late, copies, answered, untold, failed>>

\* Siebel stores the file, with a readable answer or not, or refuses it (no such
\* service request).
SiebelHandles(r) ==
    /\ wire[r] = "sent"
    /\ \/ /\ \E answer \in Stored : wire' = [wire EXCEPT ![r] = answer]
          /\ copies' = [copies EXCEPT ![file[r]] = @ + 1]
       \/ /\ wire' = [wire EXCEPT ![r] = "rejected"]
          /\ UNCHANGED copies
    /\ UNCHANGED <<jobs, verdict, webhooks, at, file, attempt, late, history>>

SiebelHandlesLate(s) ==
    /\ late[s] > 0
    /\ late' = [late EXCEPT ![s] = @ - 1]
    /\ copies' \in {copies, [copies EXCEPT ![s] = @ + 1]}
    /\ UNCHANGED <<jobs, verdict, webhooks, submissions, history>>

Return(r) ==
    /\ at' = [at EXCEPT ![r] = None]
    /\ file' = [file EXCEPT ![r] = None]
    /\ attempt' = [attempt EXCEPT ![r] = 1]
    /\ wire' = [wire EXCEPT ![r] = "none"]

\* Mutant: an error of Siebel is answered 201, with the scan_id for an attachment_id.
AnyAnswer(r) == wire[r] # "none"

Succeeded(r) == wire[r] = "ok"

Answered(r) ==
    /\ wire[r] \in Stored \cup {"rejected"}
    /\ answered' = IF Succeeded(r) THEN [answered EXCEPT ![file[r]] = @ + 1] ELSE answered
    /\ untold' = IF wire[r] = "garbled" THEN [untold EXCEPT ![file[r]] = @ + 1] ELSE untold
    /\ Return(r)
    /\ UNCHANGED <<jobs, verdict, webhooks, late, copies, begun, failed>>

\* Mutant: one attempt too many.
AgainOnceMore(r) == attempt[r] <= MaxAttempts

Again(r) == attempt[r] < MaxAttempts

TimesOut(r) ==
    /\ wire[r] # "none"
    /\ late' = IF wire[r] = "sent" THEN [late EXCEPT ![file[r]] = @ + 1] ELSE late
    /\ IF Again(r)
         THEN /\ attempt' = [attempt EXCEPT ![r] = @ + 1]
              /\ wire' = [wire EXCEPT ![r] = "sent"]
              /\ UNCHANGED <<at, file>>
         ELSE Return(r)
    /\ failed' = TRUE
    /\ UNCHANGED <<jobs, verdict, webhooks, copies, begun, answered, untold>>

Next ==
    \/ \E s \in Scans :
        \/ Find(s) \/ SiebelHandlesLate(s)
        \/ \E status \in ScanStatus : Progress(s, status)
    \/ \E p \in Processes :
        \/ Restart(p)
        \/ \E s \in Scans, u \in Users :
            \/ Upload(p, s, u)
            \/ \E r \in Requests : BeginSubmit(r, p, s, u)
        \/ \E s \in Scans, status \in ScanStatus : ProcessScanResult(p, s, status)
    \/ \E r \in Requests : SiebelHandles(r) \/ Answered(r) \/ TimesOut(r)

Spec == Init /\ [][Next]_vars

-----------------------------------------------------------------------------
(* Properties *)

\* Only files the scanner has cleared are attached, through overtaken and repeated
\* webhooks, restarts and repeated or late calls (service.py:43-57).
G == INSTANCE ScanGate WITH verdict <- verdict, copies <- copies
KeepsGate == G!Spec

Pending(s) == Cardinality({r \in Requests : file[r] = s /\ wire[r] \in Stored})

\* Every 201 has its attachment and a submission leaves at most one for each attempt.
\* Unless something timed out or died, no submission leaves two, and an attachment the
\* client was not told of goes back to an answer that could not be read, which the
\* endpoint turns into a 422 as if nothing had been stored (service.py:54-62,
\* client.py:192, 218, routers/attachments.py:136).
CopiesAccounted ==
    \A s \in Scans :
        /\ answered[s] + untold[s] + Pending(s) <= copies[s]
        /\ copies[s] <= MaxAttempts * begun[s]
        /\ ~failed => copies[s] = answered[s] + untold[s] + Pending(s)

=============================================================================
