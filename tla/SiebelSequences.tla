--------------------------- MODULE SiebelSequences ---------------------------
(***************************************************************************)
(* The endpoints that keep nothing themselves and make one or two Siebel    *)
(* calls in a row: PIN check, change and reset                              *)
(* (app/domains/account/pin_service.py), the account                        *)
(* (app/domains/account/service.py), employment plans                       *)
(* (app/domains/employment_plans/service.py) and messages                   *)
(* (app/domains/notifications/service.py), with their routers and the       *)
(* application's exception handlers.  What ties the calls of an endpoint    *)
(* together is the answer it gives, and its client has nothing else to go   *)
(* by.                                                                      *)
(*                                                                          *)
(* ICMClient sends each call up to MaxAttempts times; Siebel may carry out  *)
(* an attempt whose answer is lost, or carry it out after it was given up.  *)
(* Siebel is external: it keeps the PIN, the reset token, one plan and one  *)
(* message, may reject any call with an error, and may answer a success     *)
(* with a body that is not JSON, which response.json() turns into a         *)
(* ValueError.                                                              *)
(***************************************************************************)
EXTENDS Naturals, Sequences

CONSTANTS Requests,     \* the requests of one client, each made once
          Pins, FirstPin,
          MaxAttempts,  \* stop_after_attempt
          None

ASSUME AttemptsAssumption == MaxAttempts \in Nat \ {0}
ASSUME PinsAssumption == FirstPin \in Pins /\ None \notin Pins

VARIABLES pin,      \* the client's PIN in Siebel
          token,    \* the reset token: "none", "live" or "used"
          deleted,  \* the message is gone
          kind,     \* the endpoint each request calls, or None
          given,    \* the PIN it gives, as the current one or to sign with
          new,      \* the new PIN it asks for
          step, attempt, wire,   \* its current call: index, attempt, and "none",
                    \* "sent" or Siebel's result
          answer,   \* what the endpoint answered
          late,     \* attempts given up that Siebel may still carry out
          carried,  \* history: the calls Siebel carried out, by request and step
          doubtful, \* history: requests a call of which timed out or whose answer
                    \* was unreadable
          died      \* history: requests whose process died

siebel == <<pin, token, deleted>>
request == <<kind, given, new>>
progress == <<step, attempt, wire, answer>>
vars == <<siebel, request, progress, late, carried, doubtful, died>>

\* Mutant: the PIN is changed before the old one is validated.
ChangeFirst == <<"change-pin", "validate-pin">>

ChangePin == <<"validate-pin", "change-pin">>

\* The Siebel calls of each endpoint, by service; "read" is any call that only reads.
PinScripts ==
    [checkPin     |-> <<"validate-pin">>,
     change       |-> ChangePin,
     resetRequest |-> <<"reset-pin">>,
     resetConfirm |-> <<"pin-reset/confirm">>]

AccountScripts ==
    [account       |-> <<"read">>,
     updateContact |-> <<"contact">>,
     postLoginSync |-> <<"sync">>]

PlanScripts ==
    [plans    |-> <<"read">>,
     signPlan |-> <<"send", "mark-submitted">>]

MessageScripts ==
    [inbox       |-> <<"read">>,
     openMessage |-> <<"detail", "mark-read">>,
     reply       |-> <<"detail", "messages">>,
     delete      |-> <<"delete">>,
     signMessage |-> <<"validate-pin", "sign">>]

Kinds == DOMAIN PinScripts \cup DOMAIN AccountScripts
           \cup DOMAIN PlanScripts \cup DOMAIN MessageScripts

ASSUME NoneAssumption == None \notin Kinds

Script ==
    [k \in Kinds |-> CASE k \in DOMAIN PinScripts     -> PinScripts[k]
                       [] k \in DOMAIN AccountScripts -> AccountScripts[k]
                       [] k \in DOMAIN PlanScripts    -> PlanScripts[k]
                       [] k \in DOMAIN MessageScripts -> MessageScripts[k]]

Reads == {"read", "validate-pin", "detail"}
Results == {"ok", "no", "rejected", "garbled"}

\* Background tasks: the answer leaves before the call is made.
InBackground(k, i) == <<k, i>> \in {<<"postLoginSync", 1>>, <<"openMessage", 2>>}

Attempts == Requests \X (1..2) \X (1..MaxAttempts)

TypeOK ==
    /\ pin \in Pins
    /\ token \in {"none", "live", "used"}
    /\ deleted \in BOOLEAN
    /\ kind \in [Requests -> Kinds \cup {None}]
    /\ given \in [Requests -> Pins]
    /\ new \in [Requests -> Pins]
    /\ step \in [Requests -> 0..2]
    /\ attempt \in [Requests -> 1..MaxAttempts]
    /\ wire \in [Requests -> {"none", "sent"} \cup Results]
    /\ answer \in [Requests -> {"none", "ok", "refused", "error", "unknown"}]
    /\ late \subseteq Attempts
    /\ carried \subseteq Requests \X (1..2)
    /\ doubtful \subseteq Requests
    /\ died \subseteq Requests

Init ==
    /\ pin = FirstPin
    /\ token \in {"none", "live"}
    /\ deleted = FALSE
    /\ kind = [r \in Requests |-> None]
    /\ given = [r \in Requests |-> FirstPin]
    /\ new = [r \in Requests |-> FirstPin]
    /\ step = [r \in Requests |-> 0]
    /\ attempt = [r \in Requests |-> 1]
    /\ wire = [r \in Requests |-> "none"]
    /\ answer = [r \in Requests |-> "none"]
    /\ late = {}
    /\ carried = {}
    /\ doubtful = {}
    /\ died = {}

-----------------------------------------------------------------------------
(* Siebel *)

\* What call c of request r does, with result res; "rejected" does nothing.
CarriesOut(r, c, res) ==
    \/ res = "rejected" /\ UNCHANGED siebel
    \/ /\ c = "validate-pin" /\ res = (IF given[r] = pin THEN "ok" ELSE "no")
       /\ UNCHANGED siebel
    \/ /\ c = "change-pin" /\ res = "ok"
       /\ pin' = new[r]
       /\ UNCHANGED <<token, deleted>>
    \/ /\ c = "reset-pin" /\ res = "ok"
       /\ token' = "live"
       /\ UNCHANGED <<pin, deleted>>
    \/ /\ c = "pin-reset/confirm" /\ token = "live" /\ res = "ok"
       /\ token' = "used"
       /\ pin' = new[r]
       /\ UNCHANGED deleted
    \/ /\ c = "pin-reset/confirm" /\ token # "live" /\ res = "no"
       /\ UNCHANGED siebel
    \/ /\ c = "detail" /\ ~deleted
       /\ res = "ok" \/ (res = "no" /\ kind[r] = "reply")   \* no: can_reply is false
       /\ UNCHANGED siebel
    \/ /\ c \in {"read", "contact", "sync", "send", "mark-submitted", "mark-read",
               "messages", "sign"}
       /\ res = "ok"
       /\ UNCHANGED siebel
    \/ /\ c = "delete" /\ ~deleted /\ res = "ok"
       /\ deleted' = TRUE
       /\ UNCHANGED <<pin, token>>

Carried(r, i, res) == carried' = IF res = "ok" THEN carried \cup {<<r, i>>} ELSE carried

SiebelHandles(r) ==
    /\ wire[r] = "sent"
    /\ \E res \in Results :
        /\ CarriesOut(r, Script[kind[r]][step[r]], res)
        /\ Carried(r, step[r], res)
        /\ \/ wire' = [wire EXCEPT ![r] = res] /\ UNCHANGED doubtful
           \/ /\ res = "ok"
              /\ wire' = [wire EXCEPT ![r] = "garbled"]
              /\ doubtful' = doubtful \cup {r}
    /\ UNCHANGED <<request, step, attempt, answer, late, died>>

SiebelHandlesLate(m) ==
    LET r == m[1] i == m[2] IN
    /\ m \in late
    /\ \E res \in Results : CarriesOut(r, Script[kind[r]][i], res) /\ Carried(r, i, res)
    /\ late' = late \ {m}
    /\ UNCHANGED <<request, progress, doubtful, died>>

-----------------------------------------------------------------------------
(* The endpoints *)

SetsPin == {"change", "resetConfirm"}

Begin(r, k, p, q) ==
    /\ kind[r] = None
    /\ kind' = [kind EXCEPT ![r] = k]
    /\ given' = [given EXCEPT ![r] = p]
    /\ new' = [new EXCEPT ![r] = q]
    /\ step' = [step EXCEPT ![r] = 1]
    /\ wire' = [wire EXCEPT ![r] = "sent"]
    /\ answer' = [answer EXCEPT ![r] = IF InBackground(k, 1) THEN "ok" ELSE "none"]
    /\ UNCHANGED <<siebel, attempt, late, carried, doubtful, died>>

BeginPin(r) ==
    \E p, q \in Pins :
        \/ Begin(r, "checkPin", p, FirstPin)
        \/ Begin(r, "change", p, q)
        \/ Begin(r, "resetRequest", FirstPin, FirstPin)
        \/ Begin(r, "resetConfirm", FirstPin, q)

BeginAccount(r) == \E k \in DOMAIN AccountScripts : Begin(r, k, FirstPin, FirstPin)

\* Siebel alone looks at the PIN a plan is signed with.
BeginPlan(r) == \E k \in DOMAIN PlanScripts : Begin(r, k, FirstPin, FirstPin)

BeginMessage(r) ==
    \/ \E k \in {"inbox", "openMessage", "reply", "delete"} : Begin(r, k, FirstPin, FirstPin)
    \/ \E p \in Pins : Begin(r, "signMessage", p, FirstPin)

\* The answer leaves once; a background task has none.
Say(r, a) == answer' = [answer EXCEPT ![r] = IF @ = "none" THEN a ELSE @]

Stop(r) ==
    /\ step' = [step EXCEPT ![r] = 0]
    /\ attempt' = [attempt EXCEPT ![r] = 1]
    /\ wire' = [wire EXCEPT ![r] = "none"]

\* The result lets the endpoint go on: a valid PIN, can_reply, success.
GoesOn(r) == wire[r] = "ok"

\* The next call; a message is returned before it is marked as read.
Continue(r) ==
    /\ GoesOn(r) /\ step[r] < Len(Script[kind[r]])
    /\ IF InBackground(kind[r], step[r] + 1) THEN Say(r, "ok") ELSE UNCHANGED answer
    /\ step' = [step EXCEPT ![r] = @ + 1]
    /\ attempt' = [attempt EXCEPT ![r] = 1]
    /\ wire' = [wire EXCEPT ![r] = "sent"]
    /\ UNCHANGED <<siebel, request, late, carried, doubtful, died>>

Complete(r) ==
    /\ GoesOn(r) /\ step[r] = Len(Script[kind[r]])
    /\ Say(r, "ok")
    /\ Stop(r)
    /\ UNCHANGED <<siebel, request, late, carried, doubtful, died>>

\* Routers that catch any ValueError, to refuse a PIN, a token or a signature.
CatchesValueError == {"change", "resetConfirm", "signPlan"}

\* "refused" is 403 or 410, "error" 409, 502 or 503, "unknown" the 500 of an exception
\* without a handler.
Status(k, res) ==
    [no       |-> "refused",
     rejected |-> "error",
     garbled  |-> IF k \in CatchesValueError THEN "refused" ELSE "unknown"][res]

Refuse(r) ==
    /\ wire[r] \in {"no", "rejected", "garbled"} /\ ~GoesOn(r)
    /\ Say(r, Status(kind[r], wire[r]))
    /\ Stop(r)
    /\ UNCHANGED <<siebel, request, late, carried, doubtful, died>>

\* Mutant: errors are logged, as in the background task.
Logged == "ok"

Reported == "unknown"

\* Mutant: one attempt too many.
AgainOnceMore(r) == attempt[r] <= MaxAttempts

Again(r) == attempt[r] < MaxAttempts

TimesOut(r) ==
    /\ wire[r] # "none"
    /\ late' = IF wire[r] = "sent" THEN late \cup {<<r, step[r], attempt[r]>>} ELSE late
    /\ IF Again(r)
         THEN /\ attempt' = [attempt EXCEPT ![r] = @ + 1]
              /\ wire' = [wire EXCEPT ![r] = "sent"]
              /\ UNCHANGED <<step, answer>>
         ELSE Say(r, Reported) /\ Stop(r)
    /\ doubtful' = doubtful \cup {r}
    /\ UNCHANGED <<siebel, request, carried, died>>

\* The worker process dies; the client sees its connection close.
Dies(r) ==
    /\ wire[r] # "none"
    /\ late' = IF wire[r] = "sent" THEN late \cup {<<r, step[r], attempt[r]>>} ELSE late
    /\ Say(r, "unknown")
    /\ Stop(r)
    /\ died' = died \cup {r}
    /\ UNCHANGED <<siebel, request, carried, doubtful>>

Next ==
    \/ \E r \in Requests :
        \/ BeginPin(r) \/ BeginAccount(r) \/ BeginPlan(r) \/ BeginMessage(r)
        \/ SiebelHandles(r) \/ Continue(r) \/ Complete(r) \/ Refuse(r)
        \/ TimesOut(r) \/ Dies(r)
    \/ \E m \in late : SiebelHandlesLate(m)

Spec == Init /\ [][Next]_vars

-----------------------------------------------------------------------------
(* Properties *)

Changed(r) == \E i \in 1..2 : <<r, i>> \in carried /\ Script[kind[r]][i] \notin Reads

\* No call is carried out before the one it depends on was, whatever is repeated or
\* late: no PIN change and no signature without a PIN Siebel found right, no plan
\* marked submitted that was not sent (pin_service.py:17-21, service.py:23-27 of the
\* plans, 76-80 of the messages), no message marked read that was not found.
InOrder ==
    \A r \in Requests :
        <<r, 2>> \in carried => <<r, 1>> \in carried

\* A success means that everything but background tasks was done, and an error of
\* Siebel or a refusal that nothing was, unless a call was repeated or its answer could
\* not be read: a confirmed reset whose answer was lost is answered 410, a change whose
\* answer is no JSON 403 (pin_service.py:17-29, client.py:218, exception_handlers.py).
\* A plan may have been sent when marking it fails.
AnswersTrue ==
    \A r \in Requests :
        /\ answer[r] = "ok"
             => \A i \in DOMAIN Script[kind[r]] : InBackground(kind[r], i) \/ <<r, i>> \in carried
        /\ answer[r] = "refused" /\ r \notin doubtful => ~Changed(r)
        /\ answer[r] = "error" /\ r \notin doubtful
             => <<r, Len(Script[kind[r]])>> \notin carried

\* The client knows its PIN: when all its requests are answered, without a timeout,
\* an unreadable answer or a dead process, the PIN is one that an answered change or
\* reset set, or the first if there was none, however the requests overlapped
\* (pin_service.py:17-29).
KnownPin ==
    LET setters == {r \in Requests : kind[r] \in SetsPin /\ answer[r] = "ok"}
    IN  doubtful = {} /\ died = {} /\ (\A r \in Requests : wire[r] = "none")
          => pin \in (IF setters = {} THEN {FirstPin} ELSE {new[r] : r \in setters})

=============================================================================
