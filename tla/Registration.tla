----------------------------- MODULE Registration -----------------------------
(***************************************************************************)
(* The registration wizard (app/domains/registration/service.py behind      *)
(* app/routers/registration.py) over one registration_sessions row: HTTP    *)
(* requests of any worker read the row, decide, and update it with single   *)
(* statements; the e-mail verification link is issued by a background task  *)
(* after the personal-info response.  Rows share nothing: an invite token   *)
(* is a fresh UUID, so one row is enough.                                   *)
(*                                                                          *)
(* step_reached = N means steps 1..N are done, 0 here that there is no row. *)
(* No mail is sent yet; an invite stands for the link to the address that   *)
(* the row held when it was issued.  The forms are checked before a handler *)
(* runs, as RegistrationForm says.  advance_step and complete_registration  *)
(* have no caller and are not modelled.                                     *)
(***************************************************************************)
EXTENDS RegistrationForm

CONSTANTS Requests,    \* HTTP requests in progress at a time
          Forms,       \* personal-info forms an applicant may post
          PinForms,    \* PIN forms
          Today,
          MaxInvites,  \* bound on the invites issued
          None

Emails == {form.email : form \in Forms}

ASSUME NoneAssumption == None \notin Emails
ASSUME InvitesAssumption == MaxInvites \in Nat

VARIABLES step,     \* step_reached
          email,    \* the address in registrant_data
          invite,   \* invite_token: the number of the invite, 0 for NULL
          used,     \* invite_token_used
          pinSet,   \* pin_hash is not NULL
          expired,  \* expires_at <= NOW()
          pc,       \* where each request is
          input,    \* the address a personal-info request carries
          issued,   \* number of invites issued so far
          sentTo,   \* history: the address each invite stands for
          uses,     \* history: how often each invite was accepted
          lost      \* history: a request or its background task died

row == <<step, email, invite, used, pinSet, expired>>
history == <<sentTo, uses, lost>>
vars == <<row, pc, input, issued, history>>

Invites == 1..MaxInvites

TypeOK ==
    /\ step \in 0..5
    /\ email \in Emails \cup {None}
    /\ invite \in 0..MaxInvites
    /\ used \in BOOLEAN
    /\ pinSet \in BOOLEAN
    /\ expired \in BOOLEAN
    /\ pc \in [Requests -> {"idle", "info", "issue", "pin"}]
    /\ input \in [Requests -> Emails \cup {None}]
    /\ issued \in 0..MaxInvites
    /\ sentTo \in [Invites -> Emails \cup {None}]
    /\ uses \in [Invites -> 0..2]
    /\ lost \in BOOLEAN

Init ==
    /\ step = 0 /\ email = None /\ invite = 0
    /\ used = FALSE /\ pinSet = FALSE /\ expired = FALSE
    /\ pc = [r \in Requests |-> "idle"]
    /\ input = [r \in Requests |-> None]
    /\ issued = 0
    /\ sentTo = [i \in Invites |-> None]
    /\ uses = [i \in Invites |-> 0]
    /\ lost = FALSE

\* Mutant: every statement counts a step.
CountStep(n) == step + 1

\* GREATEST(step_reached, n).
Reach(n) == IF step < n THEN n ELSE step

Goto(r, place) == pc' = [pc EXCEPT ![r] = place]

\* _require_session: the row exists and has not expired.
SessionValid == step > 0 /\ ~expired

-----------------------------------------------------------------------------
(* The endpoints *)

StartRegistration ==
    /\ step = 0
    /\ step' = 1
    /\ UNCHANGED <<email, invite, used, pinSet, expired, pc, input, issued, history>>

BeginPersonalInfo(r, form) ==
    /\ pc[r] = "idle" /\ SessionValid
    /\ PersonalInfoRequest(Today, form)
    /\ Goto(r, "info")
    /\ input' = [input EXCEPT ![r] = form.email]
    /\ UNCHANGED <<row, issued, history>>

\* The UPDATE does not look at expires_at again; the response leaves after it.
SaveRegistrantData(r) ==
    /\ pc[r] = "info"
    /\ email' = input[r]
    /\ step' = Reach(2)
    /\ Goto(r, "issue")
    /\ input' = [input EXCEPT ![r] = None]
    /\ UNCHANGED <<invite, used, pinSet, expired, issued, history>>

\* Mutant: an invite already there is kept.
OnlyFirst == invite = 0

\* Mutant: only an invite already there is replaced.
OnlyAgain == invite # 0

\* issue_invite_token replaces whatever invite the row holds.
Replaces == TRUE

\* The background task.
IssueInviteToken(r) ==
    /\ pc[r] = "issue" /\ issued < MaxInvites
    /\ IF Replaces
         THEN /\ issued' = issued + 1
              /\ invite' = issued + 1
              /\ used' = FALSE
              /\ step' = Reach(3)
              /\ sentTo' = [sentTo EXCEPT ![issued + 1] = email]
         ELSE UNCHANGED <<issued, invite, used, step, sentTo>>
    /\ Goto(r, "idle")
    /\ UNCHANGED <<email, pinSet, expired, input, uses, lost>>

\* Mutant: the UPDATE does not ask for invite_token_used = false.
Matches(i) == i = invite

\* Mutant: any link ever issued for the session is accepted.
EverIssued(i) == i \in 1..issued /\ uses[i] = 0

Accepts(i) == i = invite /\ ~used

\* verify_email: one UPDATE ... RETURNING; any other link gets 410.
ConsumeInviteToken(i) ==
    /\ Accepts(i) /\ ~expired
    /\ used' = TRUE
    /\ step' = Reach(4)
    /\ uses' = [uses EXCEPT ![i] = IF @ < 2 THEN @ + 1 ELSE 2]
    /\ UNCHANGED <<email, invite, pinSet, expired, pc, input, issued, sentTo, lost>>

\* Mutant: the guard of the PIN step is off by one.
PinAllowedEarly == step >= 3

PinAllowed == step >= 4

BeginPin(r, form) ==
    /\ pc[r] = "idle" /\ SessionValid /\ PinAllowed
    /\ PinRequest(form)
    /\ Goto(r, "pin")
    /\ UNCHANGED <<row, input, issued, history>>

SavePin(r) ==
    /\ pc[r] = "pin"
    /\ pinSet' = TRUE
    /\ step' = Reach(5)
    /\ Goto(r, "idle")
    /\ UNCHANGED <<email, invite, used, expired, input, issued, history>>

-----------------------------------------------------------------------------
(* Time and failures *)

Expire ==
    /\ step > 0 /\ ~expired
    /\ expired' = TRUE
    /\ UNCHANGED <<step, email, invite, used, pinSet, pc, input, issued, history>>

\* The process dies with the request or with its background task.
Dies(r) ==
    /\ pc[r] # "idle"
    /\ Goto(r, "idle")
    /\ input' = [input EXCEPT ![r] = None]
    /\ lost' = TRUE
    /\ UNCHANGED <<row, issued, sentTo, uses>>

Proceed(r) == SaveRegistrantData(r) \/ IssueInviteToken(r) \/ SavePin(r)

Next ==
    \/ StartRegistration
    \/ \E r \in Requests :
        \/ \E form \in Forms : BeginPersonalInfo(r, form)
        \/ \E form \in PinForms : BeginPin(r, form)
        \/ Proceed(r) \/ Dies(r)
    \/ \E i \in Invites : ConsumeInviteToken(i)
    \/ Expire

Spec == Init /\ [][Next]_vars

\* A request in progress goes on: its statements return.
FairSpec == Spec /\ \A r \in Requests : WF_vars(Proceed(r))

-----------------------------------------------------------------------------
(* Properties *)

\* BR-D1-09: an invite is accepted once, under concurrent clicks and re-issues
\* (service.py:164-184).
InviteUsedOnce == \A i \in Invites : uses[i] <= 1

\* A link that was replaced by a newer one is dead: whoever opens it, only the
\* newest invite of the session takes it to step 4 (service.py:147-184).
OnlyNewestInvite ==
    [][\A i \in Invites : uses'[i] > uses[i] => i = issued]_vars

\* A PIN is stored only for a session some invite of which was accepted
\* (registration.py:152-154).
VerifiedBeforePin == pinSet => \E i \in Invites : uses[i] > 0

\* Once the personal-info requests and their background tasks are through, the
\* invite in the row is the one for the address in the row, however they overlapped;
\* only a task that died breaks this (registration.py:129-137).
InviteForCurrentEmail ==
    ~lost /\ email # None /\ (\A r \in Requests : pc[r] # "issue")
        => sentTo[invite] = email

\* The link follows the personal data: the wizard does not stop at step 2 unless
\* the process died first (registration.py:137).
InviteFollows == step = 2 ~> step > 2 \/ lost \/ issued = MaxInvites

\* "Email verification must be completed first" (registration.py:153), of the
\* address on record when the PIN is stored.
PinForVerifiedEmail ==
    [][\A r \in Requests : pc[r] = "pin" /\ pinSet' /\ ~pinSet
          => \E i \in Invites : uses[i] > 0 /\ sentTo[i] = email]_vars

=============================================================================
