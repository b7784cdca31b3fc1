-------------------------- MODULE RegistrationProofs --------------------------
(* What the registration wizard guarantees for any number of requests,      *)
(* forms and invites, and what its form checks catch.                       *)
(*                                                                          *)
(* The inductive invariant says more of the invites than the properties do: *)
(* the row always holds the newest one, no later one was used yet, and the  *)
(* row's flag tells whether the newest was.  For the PIN it adds that step  *)
(* 4 and a request on its way to store a PIN both have an accepted invite   *)
(* behind them.                                                             *)
EXTENDS Registration, TLAPS

InviteState ==
    /\ invite = issued
    /\ \A i \in Invites : uses[i] <= 1
    /\ \A i \in Invites : i > issued => uses[i] = 0
    /\ invite \in Invites /\ ~used => uses[invite] = 0

Verified == \E i \in Invites : uses[i] > 0

PinState ==
    /\ step >= 4 => Verified
    /\ (\E r \in Requests : pc[r] = "pin") => Verified
    /\ pinSet => Verified

AddressState ==
    ~lost /\ email # None /\ (\A r \in Requests : pc[r] # "issue")
        => invite \in Invites /\ sentTo[invite] = email

Invariant == TypeOK /\ InviteState /\ PinState /\ AddressState

\* Every step keeps every variable in its type.
LEMMA TypingStep == TypeOK /\ [Next]_vars => TypeOK'
<1> SUFFICES ASSUME TypeOK, [Next]_vars
             PROVE  TypeOK'
  OBVIOUS
<1> USE InvitesAssumption DEF TypeOK, Reach, Goto, Invites
<1>1. ASSUME StartRegistration PROVE TypeOK'
  BY <1>1 DEF StartRegistration, history
<1>2. ASSUME NEW r \in Requests, NEW form \in Forms, BeginPersonalInfo(r, form)
      PROVE  TypeOK'
  BY <1>2 DEF BeginPersonalInfo, row, history, Emails
<1>3. ASSUME NEW r \in Requests, NEW form \in PinForms, BeginPin(r, form)
      PROVE  TypeOK'
  BY <1>3 DEF BeginPin, row, history
<1>4. ASSUME NEW r \in Requests, SaveRegistrantData(r) PROVE TypeOK'
  BY <1>4 DEF SaveRegistrantData, history
<1>5. ASSUME NEW r \in Requests, IssueInviteToken(r) PROVE TypeOK'
  <2>1. issued + 1 \in 1..MaxInvites
    BY <1>5 DEF IssueInviteToken
  <2>2. /\ sentTo' = [sentTo EXCEPT ![issued + 1] = email]
        /\ issued' = issued + 1 /\ invite' = issued + 1 /\ used' = FALSE
        /\ step' = Reach(3)
    BY <1>5 DEF IssueInviteToken, Replaces
  <2>3. sentTo' \in [Invites -> Emails \cup {None}]
    BY <2>1, <2>2
  <2>4. pc' \in [Requests -> {"idle", "info", "issue", "pin"}]
    BY <1>5 DEF IssueInviteToken
  <2>5. UNCHANGED <<email, pinSet, expired, input, uses, lost>>
    BY <1>5 DEF IssueInviteToken
  <2>6. issued' \in 0..MaxInvites /\ invite' \in 0..MaxInvites /\ step' \in 0..5
    BY <2>1, <2>2
  <2> QED
    BY <2>2, <2>3, <2>4, <2>5, <2>6
<1>6. ASSUME NEW r \in Requests, SavePin(r) PROVE TypeOK'
  BY <1>6 DEF SavePin, history
<1>7. ASSUME NEW r \in Requests, Dies(r) PROVE TypeOK'
  BY <1>7 DEF Dies, row
<1>8. ASSUME NEW i \in Invites, ConsumeInviteToken(i) PROVE TypeOK'
  BY <1>8 DEF ConsumeInviteToken, Accepts
<1>9. ASSUME Expire PROVE TypeOK'
  BY <1>9 DEF Expire, history
<1>10. ASSUME UNCHANGED vars PROVE TypeOK'
  BY <1>10 DEF vars, row, history
<1> QED
  BY <1>1, <1>2, <1>3, <1>4, <1>5, <1>6, <1>7, <1>8, <1>9, <1>10 DEF Next, Proceed

\* The invites are touched by their issue and by their acceptance only.
LEMMA InviteStep ==
    ASSUME Invariant, [Next]_vars
    PROVE  InviteState'
<1> USE InvitesAssumption DEF Invariant, TypeOK, InviteState, Invites
<1>1. ASSUME NEW r \in Requests, IssueInviteToken(r) PROVE InviteState'
  <2>1. /\ issued' = issued + 1 /\ invite' = issued + 1
        /\ uses' = uses /\ issued + 1 \in 1..MaxInvites
    BY <1>1 DEF IssueInviteToken, Replaces
  <2> QED
    BY <2>1
<1>2. ASSUME NEW i \in Invites, ConsumeInviteToken(i) PROVE InviteState'
  <2>1. /\ i = invite /\ i = issued /\ uses[i] = 0
        /\ used' = TRUE /\ issued' = issued /\ invite' = invite
    BY <1>2 DEF ConsumeInviteToken, Accepts
  <2>2. uses' = [uses EXCEPT ![i] = 1]
    BY <1>2, <2>1 DEF ConsumeInviteToken
  <2> QED
    BY <2>1, <2>2
<1>3. ASSUME UNCHANGED <<invite, issued, used, uses>> PROVE InviteState'
  BY <1>3
<1> QED
  BY <1>1, <1>2, <1>3 DEF Next, vars, row, history, Proceed, StartRegistration,
     BeginPersonalInfo, BeginPin, SaveRegistrantData, SavePin, Dies, Expire

\* An accepted invite stays accepted.
LEMMA VerifiedStays ==
    ASSUME TypeOK, [Next]_vars, Verified
    PROVE  Verified'
<1>1. ASSUME NEW i \in Invites, ConsumeInviteToken(i) PROVE Verified'
  BY <1>1 DEF Verified, ConsumeInviteToken, TypeOK, Invites
<1>2. ASSUME uses' = uses PROVE Verified'
  BY <1>2 DEF Verified
<1> QED
  BY <1>1, <1>2 DEF Next, vars, row, history, Proceed, StartRegistration,
     BeginPersonalInfo, BeginPin, SaveRegistrantData, IssueInviteToken, Replaces,
     SavePin, Dies, Expire

\* Step 4 is reached by an acceptance; a PIN request starts from step 4.
LEMMA PinStep ==
    ASSUME Invariant, [Next]_vars
    PROVE  PinState'
<1>1. Verified => Verified'
  BY VerifiedStays DEF Invariant
<1>2. CASE Verified
  BY <1>1, <1>2 DEF PinState
<1>3. CASE ~Verified
  <2> USE <1>3 DEF Invariant, TypeOK, PinState, Reach, Goto
  <2>1. ASSUME NEW i \in Invites, ConsumeInviteToken(i) PROVE PinState'
    <3>1. uses'[i] > 0
      BY <2>1 DEF ConsumeInviteToken, Invites
    <3> QED
      BY <3>1 DEF Verified
  <2>2. ASSUME NEW r \in Requests, NEW form \in PinForms, BeginPin(r, form)
        PROVE  PinState'
    BY <2>2 DEF BeginPin, PinAllowed
  <2>3. ASSUME NEW r \in Requests, SavePin(r) PROVE PinState'
    BY <2>3 DEF SavePin
  <2>4. ASSUME NEW r \in Requests, IssueInviteToken(r) PROVE PinState'
    BY <2>4 DEF IssueInviteToken, Replaces
  <2>5. ASSUME NEW r \in Requests, SaveRegistrantData(r) PROVE PinState'
    BY <2>5 DEF SaveRegistrantData
  <2>6. ASSUME NEW r \in Requests, NEW form \in Forms, BeginPersonalInfo(r, form)
        PROVE  PinState'
    BY <2>6 DEF BeginPersonalInfo, row
  <2>7. ASSUME NEW r \in Requests, Dies(r) PROVE PinState'
    BY <2>7 DEF Dies, row
  <2>8. ASSUME StartRegistration \/ Expire \/ UNCHANGED vars PROVE PinState'
    BY <2>8 DEF StartRegistration, Expire, vars, row
  <2> QED
    BY <2>1, <2>2, <2>3, <2>4, <2>5, <2>6, <2>7, <2>8 DEF Next, Proceed
<1> QED
  BY <1>2, <1>3

\* Saving an address leaves its request with the invite to issue; the last request to
\* issue one takes the address of the row.
LEMMA AddressStep ==
    ASSUME Invariant, [Next]_vars
    PROVE  AddressState'
<1> USE InvitesAssumption DEF Invariant, TypeOK, AddressState, Goto
<1>1. ASSUME NEW r \in Requests, SaveRegistrantData(r) PROVE AddressState'
  <2>1. pc'[r] = "issue"
    BY <1>1 DEF SaveRegistrantData
  <2> QED
    BY <2>1
<1>2. ASSUME NEW r \in Requests, IssueInviteToken(r) PROVE AddressState'
  <2>1. /\ issued + 1 \in Invites /\ invite' = issued + 1 /\ email' = email
        /\ sentTo' = [sentTo EXCEPT ![issued + 1] = email]
    BY <1>2 DEF IssueInviteToken, Replaces, Invites
  <2> QED
    BY <2>1
<1>3. ASSUME NEW r \in Requests, Dies(r) PROVE AddressState'
  BY <1>3 DEF Dies
<1>4. ASSUME UNCHANGED <<email, invite, sentTo, lost>>,
             \A r \in Requests : pc[r] = "issue" => pc'[r] = "issue"
      PROVE  AddressState'
  BY <1>4
<1>5. ASSUME NEW r \in Requests, NEW form \in Forms, BeginPersonalInfo(r, form)
      PROVE  AddressState'
  BY <1>4, <1>5 DEF BeginPersonalInfo, row, history
<1>6. ASSUME NEW r \in Requests, NEW form \in PinForms, BeginPin(r, form)
      PROVE  AddressState'
  BY <1>4, <1>6 DEF BeginPin, row, history
<1>7. ASSUME NEW r \in Requests, SavePin(r) PROVE AddressState'
  BY <1>4, <1>7 DEF SavePin, history
<1>8. ASSUME NEW i \in Invites, ConsumeInviteToken(i) PROVE AddressState'
  BY <1>4, <1>8 DEF ConsumeInviteToken
<1>9. ASSUME StartRegistration \/ Expire \/ UNCHANGED vars PROVE AddressState'
  BY <1>4, <1>9 DEF StartRegistration, Expire, vars, row, history
<1> QED
  BY <1>1, <1>2, <1>3, <1>5, <1>6, <1>7, <1>8, <1>9 DEF Next, Proceed

\* The invariant holds throughout.
THEOREM InvariantHolds == Spec => []Invariant
<1>1. Init => Invariant
  <2> SUFFICES ASSUME Init PROVE Invariant
    OBVIOUS
  <2>1. TypeOK
    <3>1. 0 \in 0..MaxInvites
      BY InvitesAssumption
    <3>2. /\ sentTo \in [Invites -> Emails \cup {None}]
          /\ uses \in [Invites -> 0..2]
      BY DEF Init
    <3>3. /\ pc \in [Requests -> {"idle", "info", "issue", "pin"}]
          /\ input \in [Requests -> Emails \cup {None}]
      BY DEF Init
    <3>4. step \in 0..5 /\ invite \in 0..MaxInvites /\ issued \in 0..MaxInvites
      BY <3>1 DEF Init
    <3>5. used \in BOOLEAN /\ pinSet \in BOOLEAN /\ expired \in BOOLEAN /\ lost \in BOOLEAN
      BY DEF Init
    <3>6. email \in Emails \cup {None}
      BY DEF Init
    <3> QED
      BY <3>2, <3>3, <3>4, <3>5, <3>6 DEF TypeOK
  <2>2. InviteState
    BY InvitesAssumption DEF Init, InviteState, Invites
  <2>3. PinState /\ AddressState
    BY DEF Init, PinState, AddressState
  <2> QED
    BY <2>1, <2>2, <2>3 DEF Invariant
<1>2. Invariant /\ [Next]_vars => Invariant'
  BY TypingStep, InviteStep, PinStep, AddressStep DEF Invariant
<1> QED
  BY <1>1, <1>2, PTL DEF Spec

\* The row and its requests keep their types, for any bound on the invites.
THEOREM TypeCorrect == Spec => []TypeOK
  BY InvariantHolds, PTL DEF Invariant

\* No invite is accepted twice, however clicks, re-issues and requests interleave.
THEOREM UsedOnce == Spec => []InviteUsedOnce
<1>1. Invariant => InviteUsedOnce
  BY DEF Invariant, InviteState, InviteUsedOnce
<1> QED
  BY <1>1, InvariantHolds, PTL

\* A replaced link is dead: only the newest invite is ever accepted.
THEOREM OnlyNewest == Spec => OnlyNewestInvite
<1>1. ASSUME Invariant, [Next]_vars, NEW i \in Invites, uses'[i] > uses[i]
      PROVE  i = issued
  <2>1. ASSUME NEW j \in Invites, ConsumeInviteToken(j) PROVE i = issued
    <3>1. j = issued
      BY <1>1, <2>1 DEF ConsumeInviteToken, Accepts, Invariant, InviteState
    <3>2. i # j => uses'[i] = uses[i]
      BY <1>1, <2>1 DEF ConsumeInviteToken, Invariant, TypeOK
    <3>3. uses[i] \in Nat
      BY <1>1 DEF Invariant, TypeOK
    <3> QED
      BY <1>1, <3>1, <3>2, <3>3
  <2>2. ASSUME uses' = uses PROVE FALSE
    <3>1. uses[i] \in Nat
      BY <1>1 DEF Invariant, TypeOK
    <3> QED
      BY <1>1, <2>2, <3>1
  <2> QED
    BY <1>1, <2>1, <2>2 DEF Next, vars, row, history, Proceed, StartRegistration,
       BeginPersonalInfo, BeginPin, SaveRegistrantData, IssueInviteToken, Replaces,
       SavePin, Dies, Expire
<1>2. Invariant /\ [Next]_vars => [\A i \in Invites : uses'[i] > uses[i] => i = issued]_vars
  BY <1>1
<1> QED
  BY <1>2, InvariantHolds, PTL DEF Spec, OnlyNewestInvite

\* A PIN is stored only after some invite was accepted.
THEOREM PinAfterVerification == Spec => []VerifiedBeforePin
<1>1. Invariant => VerifiedBeforePin
  BY DEF Invariant, PinState, Verified, VerifiedBeforePin
<1> QED
  BY <1>1, InvariantHolds, PTL

\* However posts overlap, the link that counts is for the address on record.
THEOREM InviteFitsAddress == Spec => []InviteForCurrentEmail
<1>1. Invariant => InviteForCurrentEmail
  BY DEF Invariant, AddressState, InviteForCurrentEmail
<1> QED
  BY <1>1, InvariantHolds, PTL

-----------------------------------------------------------------------------
(* The form checks *)

\* The digits d with the i-th typed as x.
Mistyped(d, i, x) == [d EXCEPT ![i] = x]

Swapped(d, i) == [d EXCEPT ![i] = d[i + 1], ![i + 1] = d[i]]

LEMMA SameRemainder10 ==
    ASSUME NEW s \in Int, NEW a \in 0..9, NEW b \in 0..9,
           (s + a) % 10 = 0, (s + b) % 10 = 0
    PROVE  a = b
  BY SMT

LEMMA SameRemainder11 ==
    ASSUME NEW s \in Int, NEW a \in 0..9, NEW b \in 0..9, NEW w \in 1..10,
           (s + w * a) % 11 = 0, (s + w * b) % 11 = 0
    PROVE  a = b
<1>1. w = 1 \/ w = 2 \/ w = 3 \/ w = 4 \/ w = 5
       \/ w = 6 \/ w = 7 \/ w = 8 \/ w = 9 \/ w = 10
  BY SMT
<1> QED
  BY <1>1, SMT

\* Doubling, and taking 9 off, keeps different digits different.
LEMMA DoubledDigit ==
    ASSUME NEW a \in 0..9
    PROVE  /\ Doubled(a) \in 0..9
           /\ \A b \in 0..9 : Doubled(a) = Doubled(b) => a = b
  BY SMT DEF Doubled

\* One digit changed changes the total by the change of its share.
LEMMA LuhnStep ==
    ASSUME NEW d \in [1..9 -> 0..9], NEW e \in [1..9 -> 0..9], NEW i \in 1..9,
           \A j \in 1..9 : j # i => e[j] = d[j]
    PROVE  /\ LuhnTotal(d) \in Int
           /\ i \in {1, 3, 5, 7, 9} => LuhnTotal(e) = LuhnTotal(d) - d[i] + e[i]
           /\ i \in {2, 4, 6, 8} =>
                LuhnTotal(e) = LuhnTotal(d) - Doubled(d[i]) + Doubled(e[i])
<1>1. /\ d[1] \in Int /\ d[3] \in Int /\ d[5] \in Int /\ d[7] \in Int /\ d[9] \in Int
      /\ e[1] \in Int /\ e[3] \in Int /\ e[5] \in Int /\ e[7] \in Int /\ e[9] \in Int
  OBVIOUS
<1>2. \A j \in 1..9 : Doubled(d[j]) \in Int /\ Doubled(e[j]) \in Int
  BY DoubledDigit
<1>3. /\ Doubled(d[2]) \in Int /\ Doubled(d[4]) \in Int
      /\ Doubled(d[6]) \in Int /\ Doubled(d[8]) \in Int
      /\ Doubled(e[2]) \in Int /\ Doubled(e[4]) \in Int
      /\ Doubled(e[6]) \in Int /\ Doubled(e[8]) \in Int
  BY <1>2
<1>4. /\ i # 1 => e[1] = d[1]
      /\ i # 2 => e[2] = d[2]
      /\ i # 3 => e[3] = d[3]
      /\ i # 4 => e[4] = d[4]
      /\ i # 5 => e[5] = d[5]
      /\ i # 6 => e[6] = d[6]
      /\ i # 7 => e[7] = d[7]
      /\ i # 8 => e[8] = d[8]
      /\ i # 9 => e[9] = d[9]
  OBVIOUS
<1>5. i = 1 \/ i = 2 \/ i = 3 \/ i = 4 \/ i = 5 \/ i = 6 \/ i = 7 \/ i = 8 \/ i = 9
  BY SMT
<1>6. LuhnTotal(d) \in Int
  BY <1>1, <1>3 DEF LuhnTotal
<1>7. CASE i = 1
  BY <1>1, <1>3, <1>4, <1>6, <1>7, SMT DEF LuhnTotal
<1>8. CASE i = 2
  BY <1>1, <1>3, <1>4, <1>6, <1>8, SMT DEF LuhnTotal
<1>9. CASE i = 3
  BY <1>1, <1>3, <1>4, <1>6, <1>9, SMT DEF LuhnTotal
<1>10. CASE i = 4
  BY <1>1, <1>3, <1>4, <1>6, <1>10, SMT DEF LuhnTotal
<1>11. CASE i = 5
  BY <1>1, <1>3, <1>4, <1>6, <1>11, SMT DEF LuhnTotal
<1>12. CASE i = 6
  BY <1>1, <1>3, <1>4, <1>6, <1>12, SMT DEF LuhnTotal
<1>13. CASE i = 7
  BY <1>1, <1>3, <1>4, <1>6, <1>13, SMT DEF LuhnTotal
<1>14. CASE i = 8
  BY <1>1, <1>3, <1>4, <1>6, <1>14, SMT DEF LuhnTotal
<1>15. CASE i = 9
  BY <1>1, <1>3, <1>4, <1>6, <1>15, SMT DEF LuhnTotal
<1> QED
  BY <1>5, <1>7, <1>8, <1>9, <1>10, <1>11, <1>12, <1>13, <1>14, <1>15

\* BR-D1-02: a SIN with one digit mistyped is never accepted (validators.py:19-39).
THEOREM SinTypoRejected ==
    ASSUME NEW d \in [1..9 -> 0..9], NEW i \in 1..9, NEW x \in 0..9,
           SinAccepted(d), SinAccepted(Mistyped(d, i, x))
    PROVE  x = d[i]
<1> DEFINE e == Mistyped(d, i, x)
<1>1. e \in [1..9 -> 0..9] /\ e[i] = x /\ \A j \in 1..9 : j # i => e[j] = d[j]
  BY DEF Mistyped
<1>2. LuhnTotal(d) % 10 = 0 /\ LuhnTotal(e) % 10 = 0
  BY DEF SinAccepted
<1> HIDE DEF e
<1>3. d[i] \in 0..9 /\ Doubled(d[i]) \in 0..9 /\ Doubled(x) \in 0..9
  BY DoubledDigit
<1>4. /\ LuhnTotal(d) \in Int
      /\ i \in {1, 3, 5, 7, 9} => LuhnTotal(e) = LuhnTotal(d) - d[i] + x
      /\ i \in {2, 4, 6, 8} =>
           LuhnTotal(e) = LuhnTotal(d) - Doubled(d[i]) + Doubled(x)
  BY <1>1, LuhnStep
<1>5. CASE i \in {1, 3, 5, 7, 9}
  <2> DEFINE s == LuhnTotal(d) - d[i]
  <2>1. s \in Int /\ LuhnTotal(d) = s + d[i] /\ LuhnTotal(e) = s + x
    BY <1>3, <1>4, <1>5, SMT
  <2> HIDE DEF s
  <2> QED
    BY <1>2, <1>3, <2>1, SameRemainder10
<1>6. CASE i \in {2, 4, 6, 8}
  <2> DEFINE s == LuhnTotal(d) - Doubled(d[i])
  <2>1. s \in Int /\ LuhnTotal(d) = s + Doubled(d[i]) /\ LuhnTotal(e) = s + Doubled(x)
    BY <1>3, <1>4, <1>6, SMT
  <2> HIDE DEF s
  <2>2. Doubled(d[i]) = Doubled(x)
    BY <1>2, <1>3, <2>1, SameRemainder10
  <2> QED
    BY <1>3, <2>2, DoubledDigit
<1>7. i \in {1, 3, 5, 7, 9} \/ i \in {2, 4, 6, 8}
  BY SMT
<1> QED
  BY <1>5, <1>6, <1>7

\* 0 and 9 are the digits whose doubles differ from them by the same, modulo 10.
LEMMA LuhnSwap ==
    ASSUME NEW s \in Int, NEW a \in 0..9, NEW b \in 0..9,
           (s + a + Doubled(b)) % 10 = 0, (s + b + Doubled(a)) % 10 = 0
    PROVE  a = b \/ {a, b} = {0, 9}
<1>1. Doubled(a) \in 0..9 /\ Doubled(b) \in 0..9
  BY DoubledDigit
<1>2. a = b \/ (a = 0 /\ b = 9) \/ (a = 9 /\ b = 0)
  BY SMT DEF Doubled
<1> QED
  BY <1>2

\* BR-D1-02: two neighbours swapped are refused, unless they are 0 and 9
\* (validators.py:19-39).
THEOREM SinSwapRejected ==
    ASSUME NEW d \in [1..9 -> 0..9], NEW i \in 1..8,
           SinAccepted(d), SinAccepted(Swapped(d, i))
    PROVE  d[i] = d[i + 1] \/ {d[i], d[i + 1]} = {0, 9}
<1> DEFINE a == d[i]
           b == d[i + 1]
           m == Mistyped(d, i, b)
           e == Swapped(d, i)
<1>1. i \in 1..9 /\ i + 1 \in 1..9 /\ i # i + 1
  BY SMT
<1>2. a \in 0..9 /\ b \in 0..9
  BY <1>1
<1>3. /\ m \in [1..9 -> 0..9] /\ m[i] = b /\ m[i + 1] = b
      /\ \A j \in 1..9 : j # i => m[j] = d[j]
  BY <1>1, <1>2 DEF Mistyped
<1>4. /\ e \in [1..9 -> 0..9] /\ e[i + 1] = a
      /\ \A j \in 1..9 : j # i + 1 => e[j] = m[j]
  BY <1>1, <1>2 DEF Mistyped, Swapped
<1>5. LuhnTotal(d) % 10 = 0 /\ LuhnTotal(e) % 10 = 0
  BY DEF SinAccepted
<1> HIDE DEF e, m
<1>6. /\ LuhnTotal(d) \in Int /\ LuhnTotal(m) \in Int
      /\ i \in {1, 3, 5, 7, 9} => LuhnTotal(m) = LuhnTotal(d) - a + b
      /\ i \in {2, 4, 6, 8} => LuhnTotal(m) = LuhnTotal(d) - Doubled(a) + Doubled(b)
  BY <1>1, <1>3, <1>4, LuhnStep
<1>7. /\ i + 1 \in {1, 3, 5, 7, 9} => LuhnTotal(e) = LuhnTotal(m) - b + a
      /\ i + 1 \in {2, 4, 6, 8} => LuhnTotal(e) = LuhnTotal(m) - Doubled(b) + Doubled(a)
  BY <1>1, <1>3, <1>4, LuhnStep
<1>8. Doubled(a) \in 0..9 /\ Doubled(b) \in 0..9
  BY <1>2, DoubledDigit
<1> HIDE DEF a, b
<1>9. CASE i \in {1, 3, 5, 7}
  <2> DEFINE s == LuhnTotal(d) - a - Doubled(b)
  <2>1. i \in {1, 3, 5, 7, 9} /\ i + 1 \in {2, 4, 6, 8}
    BY <1>9
  <2>2. /\ s \in Int /\ LuhnTotal(d) = s + a + Doubled(b)
        /\ LuhnTotal(e) = s + b + Doubled(a)
    BY <1>2, <1>6, <1>7, <1>8, <2>1, SMT
  <2> HIDE DEF s
  <2>3. a = b \/ {a, b} = {0, 9}
    BY <1>2, <1>5, <2>2, LuhnSwap
  <2> QED
    BY <2>3 DEF a, b
<1>10. CASE i \in {2, 4, 6, 8}
  <2> DEFINE s == LuhnTotal(d) - Doubled(a) - b
  <2>1. i + 1 \in {1, 3, 5, 7, 9}
    BY <1>10
  <2>2. /\ s \in Int /\ LuhnTotal(d) = s + b + Doubled(a)
        /\ LuhnTotal(e) = s + a + Doubled(b)
    BY <1>2, <1>6, <1>7, <1>8, <1>10, <2>1, SMT
  <2> HIDE DEF s
  <2>3. a = b \/ {a, b} = {0, 9}
    BY <1>2, <1>5, <2>2, LuhnSwap
  <2> QED
    BY <2>3 DEF a, b
<1> QED
  BY <1>9, <1>10, SMT

\* The check digit completes the weighted sum of a PHN to a multiple of 11.
PhnSum(d) == PhnTotal(d) + d[10]

LEMMA PhnSumTyped ==
    ASSUME NEW d \in [1..10 -> 0..9]
    PROVE  PhnTotal(d) \in Int /\ PhnSum(d) \in Int
<1>1. /\ d[1] \in Int /\ d[2] \in Int /\ d[3] \in Int /\ d[4] \in Int /\ d[5] \in Int
      /\ d[6] \in Int /\ d[7] \in Int /\ d[8] \in Int /\ d[9] \in Int /\ d[10] \in Int
  OBVIOUS
<1>2. PhnTotal(d) \in Int
  BY <1>1, SMT DEF PhnTotal
<1> QED
  BY <1>1, <1>2 DEF PhnSum

LEMMA PhnAcceptedSum ==
    ASSUME NEW d \in [1..10 -> 0..9], PhnAccepted(d)
    PROVE  PhnSum(d) % 11 = 0
<1>1. \A t \in Int : (t + (IF t % 11 = 0 THEN 0 ELSE 11 - (t % 11))) % 11 = 0
  BY SMT
<1>2. PhnTotal(d) \in Int
  BY PhnSumTyped
<1> QED
  BY <1>1, <1>2 DEF PhnAccepted, PhnCheck, PhnSum

\* The weight of each digit, the check digit included (validators.py:58).
Weight(i) ==
    CASE i = 1 -> 2  [] i = 2 -> 4 [] i = 3 -> 8 [] i = 4 -> 5 [] i = 5 -> 10
      [] i = 6 -> 9  [] i = 7 -> 7 [] i = 8 -> 3 [] i = 9 -> 1 [] i = 10 -> 1

LEMMA WeightBounds == \A i \in 1..10 : Weight(i) \in 1..10
  BY DEF Weight

\* What a digit x of weight w adds to the sum.
Share(w, x) == w * x

\* One digit changed changes the sum by the change of its share.
LEMMA PhnStep ==
    ASSUME NEW d \in [1..10 -> 0..9], NEW e \in [1..10 -> 0..9], NEW i \in 1..10,
           \A j \in 1..10 : j # i => e[j] = d[j]
    PROVE  PhnSum(e) = PhnSum(d) - Share(Weight(i), d[i]) + Share(Weight(i), e[i])
<1>1. /\ d[1] \in Int /\ d[2] \in Int /\ d[3] \in Int /\ d[4] \in Int /\ d[5] \in Int
      /\ d[6] \in Int /\ d[7] \in Int /\ d[8] \in Int /\ d[9] \in Int /\ d[10] \in Int
      /\ e[1] \in Int /\ e[2] \in Int /\ e[3] \in Int /\ e[4] \in Int /\ e[5] \in Int
      /\ e[6] \in Int /\ e[7] \in Int /\ e[8] \in Int /\ e[9] \in Int /\ e[10] \in Int
  OBVIOUS
<1>2. /\ PhnSum(d)
            = Share(2, d[1]) + Share(4, d[2]) + Share(8, d[3]) + Share(5, d[4])
              + Share(10, d[5]) + Share(9, d[6]) + Share(7, d[7]) + Share(3, d[8]) + d[9] + d[10]
      /\ PhnSum(e)
            = Share(2, e[1]) + Share(4, e[2]) + Share(8, e[3]) + Share(5, e[4])
              + Share(10, e[5]) + Share(9, e[6]) + Share(7, e[7]) + Share(3, e[8]) + e[9] + e[10]
  BY <1>1 DEF PhnSum, PhnTotal, Share
<1>3. /\ Share(2, d[1]) \in Int /\ Share(4, d[2]) \in Int /\ Share(8, d[3]) \in Int
      /\ Share(5, d[4]) \in Int /\ Share(10, d[5]) \in Int /\ Share(9, d[6]) \in Int
      /\ Share(7, d[7]) \in Int /\ Share(3, d[8]) \in Int
      /\ Share(2, e[1]) \in Int /\ Share(4, e[2]) \in Int /\ Share(8, e[3]) \in Int
      /\ Share(5, e[4]) \in Int /\ Share(10, e[5]) \in Int /\ Share(9, e[6]) \in Int
      /\ Share(7, e[7]) \in Int /\ Share(3, e[8]) \in Int
      /\ Share(1, d[9]) = d[9] /\ Share(1, d[10]) = d[10]
      /\ Share(1, e[9]) = e[9] /\ Share(1, e[10]) = e[10]
  BY <1>1, SMT DEF Share
<1>4. i = 1 \/ i = 2 \/ i = 3 \/ i = 4 \/ i = 5 \/ i = 6 \/ i = 7 \/ i = 8 \/ i = 9 \/ i = 10
  BY SMT
<1>5. CASE i = 1
  <2>1. /\ e[2] = d[2] /\ e[3] = d[3] /\ e[4] = d[4] /\ e[5] = d[5] /\ e[6] = d[6]
        /\ e[7] = d[7] /\ e[8] = d[8] /\ e[9] = d[9] /\ e[10] = d[10]
    BY <1>5
  <2>2. PhnSum(e) = PhnSum(d) - Share(2, d[1]) + Share(2, e[1])
    BY <1>1, <1>2, <1>3, <2>1, SMT
  <2> QED
    BY <1>5, <2>2 DEF Weight
<1>6. CASE i = 2
  <2>1. /\ e[1] = d[1] /\ e[3] = d[3] /\ e[4] = d[4] /\ e[5] = d[5] /\ e[6] = d[6]
        /\ e[7] = d[7] /\ e[8] = d[8] /\ e[9] = d[9] /\ e[10] = d[10]
    BY <1>6
  <2>2. PhnSum(e) = PhnSum(d) - Share(4, d[2]) + Share(4, e[2])
    BY <1>1, <1>2, <1>3, <2>1, SMT
  <2> QED
    BY <1>6, <2>2 DEF Weight
<1>7. CASE i = 3
  <2>1. /\ e[1] = d[1] /\ e[2] = d[2] /\ e[4] = d[4] /\ e[5] = d[5] /\ e[6] = d[6]
        /\ e[7] = d[7] /\ e[8] = d[8] /\ e[9] = d[9] /\ e[10] = d[10]
    BY <1>7
  <2>2. PhnSum(e) = PhnSum(d) - Share(8, d[3]) + Share(8, e[3])
    BY <1>1, <1>2, <1>3, <2>1, SMT
  <2> QED
    BY <1>7, <2>2 DEF Weight
<1>8. CASE i = 4
  <2>1. /\ e[1] = d[1] /\ e[2] = d[2] /\ e[3] = d[3] /\ e[5] = d[5] /\ e[6] = d[6]
        /\ e[7] = d[7] /\ e[8] = d[8] /\ e[9] = d[9] /\ e[10] = d[10]
    BY <1>8
  <2>2. PhnSum(e) = PhnSum(d) - Share(5, d[4]) + Share(5, e[4])
    BY <1>1, <1>2, <1>3, <2>1, SMT
  <2> QED
    BY <1>8, <2>2 DEF Weight
<1>9. CASE i = 5
  <2>1. /\ e[1] = d[1] /\ e[2] = d[2] /\ e[3] = d[3] /\ e[4] = d[4] /\ e[6] = d[6]
        /\ e[7] = d[7] /\ e[8] = d[8] /\ e[9] = d[9] /\ e[10] = d[10]
    BY <1>9
  <2>2. PhnSum(e) = PhnSum(d) - Share(10, d[5]) + Share(10, e[5])
    BY <1>1, <1>2, <1>3, <2>1, SMT
  <2> QED
    BY <1>9, <2>2 DEF Weight
<1>10. CASE i = 6
  <2>1. /\ e[1] = d[1] /\ e[2] = d[2] /\ e[3] = d[3] /\ e[4] = d[4] /\ e[5] = d[5]
        /\ e[7] = d[7] /\ e[8] = d[8] /\ e[9] = d[9] /\ e[10] = d[10]
    BY <1>10
  <2>2. PhnSum(e) = PhnSum(d) - Share(9, d[6]) + Share(9, e[6])
    BY <1>1, <1>2, <1>3, <2>1, SMT
  <2> QED
    BY <1>10, <2>2 DEF Weight
<1>11. CASE i = 7
  <2>1. /\ e[1] = d[1] /\ e[2] = d[2] /\ e[3] = d[3] /\ e[4] = d[4] /\ e[5] = d[5]
        /\ e[6] = d[6] /\ e[8] = d[8] /\ e[9] = d[9] /\ e[10] = d[10]
    BY <1>11
  <2>2. PhnSum(e) = PhnSum(d) - Share(7, d[7]) + Share(7, e[7])
    BY <1>1, <1>2, <1>3, <2>1, SMT
  <2> QED
    BY <1>11, <2>2 DEF Weight
<1>12. CASE i = 8
  <2>1. /\ e[1] = d[1] /\ e[2] = d[2] /\ e[3] = d[3] /\ e[4] = d[4] /\ e[5] = d[5]
        /\ e[6] = d[6] /\ e[7] = d[7] /\ e[9] = d[9] /\ e[10] = d[10]
    BY <1>12
  <2>2. PhnSum(e) = PhnSum(d) - Share(3, d[8]) + Share(3, e[8])
    BY <1>1, <1>2, <1>3, <2>1, SMT
  <2> QED
    BY <1>12, <2>2 DEF Weight
<1>13. CASE i = 9
  <2>1. /\ e[1] = d[1] /\ e[2] = d[2] /\ e[3] = d[3] /\ e[4] = d[4] /\ e[5] = d[5]
        /\ e[6] = d[6] /\ e[7] = d[7] /\ e[8] = d[8] /\ e[10] = d[10]
    BY <1>13
  <2>2. PhnSum(e) = PhnSum(d) - Share(1, d[9]) + Share(1, e[9])
    BY <1>1, <1>2, <1>3, <2>1, SMT
  <2> QED
    BY <1>13, <2>2 DEF Weight
<1>14. CASE i = 10
  <2>1. /\ e[1] = d[1] /\ e[2] = d[2] /\ e[3] = d[3] /\ e[4] = d[4] /\ e[5] = d[5]
        /\ e[6] = d[6] /\ e[7] = d[7] /\ e[8] = d[8] /\ e[9] = d[9]
    BY <1>14
  <2>2. PhnSum(e) = PhnSum(d) - Share(1, d[10]) + Share(1, e[10])
    BY <1>1, <1>2, <1>3, <2>1, SMT
  <2> QED
    BY <1>14, <2>2 DEF Weight
<1> QED
  BY <1>4, <1>5, <1>6, <1>7, <1>8, <1>9, <1>10, <1>11, <1>12, <1>13, <1>14

\* BR-D1-03: a PHN with one digit mistyped is never accepted (validators.py:45-67).
THEOREM PhnTypoRejected ==
    ASSUME NEW d \in [1..10 -> 0..9], NEW i \in 1..10, NEW x \in 0..9,
           PhnAccepted(d), PhnAccepted(Mistyped(d, i, x))
    PROVE  x = d[i]
<1> DEFINE e == Mistyped(d, i, x)
<1>1. e \in [1..10 -> 0..9] /\ e[i] = x /\ \A j \in 1..10 : j # i => e[j] = d[j]
  BY DEF Mistyped
<1>2. PhnAccepted(e)
  OBVIOUS
<1> HIDE DEF e
<1>3. PhnSum(d) % 11 = 0 /\ PhnSum(e) % 11 = 0
  BY <1>1, <1>2, PhnAcceptedSum
<1> DEFINE w == Weight(i)
<1>4. /\ w \in 1..10
      /\ PhnSum(e) = PhnSum(d) - w * d[i] + w * x
  BY <1>1, WeightBounds, PhnStep DEF Share
<1> HIDE DEF w
<1>5. PhnSum(d) \in Int /\ d[i] \in 0..9
  BY PhnSumTyped
<1> DEFINE s == PhnSum(d) - w * d[i]
<1>6. w * d[i] \in Int /\ w * x \in Int
  BY <1>4, <1>5
<1>7. s \in Int /\ PhnSum(d) = s + w * d[i] /\ PhnSum(e) = s + w * x
  BY <1>4, <1>5, <1>6, SMT
<1> HIDE DEF s
<1> QED
  BY <1>3, <1>4, <1>5, <1>7, SameRemainder11

\* Weights of neighbours differ by no multiple of 11, but for the last two.
LEMMA SwapRemainder ==
    ASSUME NEW s \in Int, NEW a \in 0..9, NEW b \in 0..9, NEW i \in 1..8,
           (s + Weight(i) * a + Weight(i + 1) * b) % 11 = 0,
           (s + Weight(i) * b + Weight(i + 1) * a) % 11 = 0
    PROVE  a = b
<1>1. i = 1 \/ i = 2 \/ i = 3 \/ i = 4 \/ i = 5 \/ i = 6 \/ i = 7 \/ i = 8
  BY SMT
<1>2. CASE i = 1
  <2>1. Weight(i) = 2 /\ Weight(i + 1) = 4
    BY <1>2 DEF Weight
  <2>2. (s + 2 * a + 4 * b) % 11 = 0 /\ (s + 2 * b + 4 * a) % 11 = 0
    BY <2>1, Zenon
  <2> QED
    BY <2>2, SMT
<1>3. CASE i = 2
  <2>1. Weight(i) = 4 /\ Weight(i + 1) = 8
    BY <1>3 DEF Weight
  <2>2. (s + 4 * a + 8 * b) % 11 = 0 /\ (s + 4 * b + 8 * a) % 11 = 0
    BY <2>1, Zenon
  <2> QED
    BY <2>2, SMT
<1>4. CASE i = 3
  <2>1. Weight(i) = 8 /\ Weight(i + 1) = 5
    BY <1>4 DEF Weight
  <2>2. (s + 8 * a + 5 * b) % 11 = 0 /\ (s + 8 * b + 5 * a) % 11 = 0
    BY <2>1, Zenon
  <2> QED
    BY <2>2, SMT
<1>5. CASE i = 4
  <2>1. Weight(i) = 5 /\ Weight(i + 1) = 10
    BY <1>5 DEF Weight
  <2>2. (s + 5 * a + 10 * b) % 11 = 0 /\ (s + 5 * b + 10 * a) % 11 = 0
    BY <2>1, Zenon
  <2> QED
    BY <2>2, SMT
<1>6. CASE i = 5
  <2>1. Weight(i) = 10 /\ Weight(i + 1) = 9
    BY <1>6 DEF Weight
  <2>2. (s + 10 * a + 9 * b) % 11 = 0 /\ (s + 10 * b + 9 * a) % 11 = 0
    BY <2>1, Zenon
  <2> QED
    BY <2>2, SMT
<1>7. CASE i = 6
  <2>1. Weight(i) = 9 /\ Weight(i + 1) = 7
    BY <1>7 DEF Weight
  <2>2. (s + 9 * a + 7 * b) % 11 = 0 /\ (s + 9 * b + 7 * a) % 11 = 0
    BY <2>1, Zenon
  <2> QED
    BY <2>2, SMT
<1>8. CASE i = 7
  <2>1. Weight(i) = 7 /\ Weight(i + 1) = 3
    BY <1>8 DEF Weight
  <2>2. (s + 7 * a + 3 * b) % 11 = 0 /\ (s + 7 * b + 3 * a) % 11 = 0
    BY <2>1, Zenon
  <2> QED
    BY <2>2, SMT
<1>9. CASE i = 8
  <2>1. Weight(i) = 3 /\ Weight(i + 1) = 1
    BY <1>9 DEF Weight
  <2>2. (s + 3 * a + 1 * b) % 11 = 0 /\ (s + 3 * b + 1 * a) % 11 = 0
    BY <2>1, Zenon
  <2> QED
    BY <2>2, SMT
<1> QED
  BY <1>1, <1>2, <1>3, <1>4, <1>5, <1>6, <1>7, <1>8, <1>9

\* BR-D1-03: two neighbours among the first nine digits swapped are refused
\* (validators.py:45-67).
THEOREM PhnSwapRejected ==
    ASSUME NEW d \in [1..10 -> 0..9], NEW i \in 1..8,
           PhnAccepted(d), PhnAccepted(Swapped(d, i))
    PROVE  d[i] = d[i + 1]
<1> DEFINE a == d[i]
           b == d[i + 1]
           m == Mistyped(d, i, b)
           e == Swapped(d, i)
           w == Weight(i)
           v == Weight(i + 1)
<1>1. i \in 1..10 /\ i + 1 \in 1..10 /\ i # i + 1
  BY SMT
<1>2. a \in 0..9 /\ b \in 0..9
  BY <1>1
<1>3. /\ m \in [1..10 -> 0..9] /\ m[i] = b /\ m[i + 1] = b
      /\ \A j \in 1..10 : j # i => m[j] = d[j]
  BY <1>1, <1>2 DEF Mistyped
<1>4. /\ e \in [1..10 -> 0..9] /\ e[i + 1] = a
      /\ \A j \in 1..10 : j # i + 1 => e[j] = m[j]
  BY <1>1, <1>2 DEF Mistyped, Swapped
<1>5. PhnAccepted(e)
  OBVIOUS
<1> HIDE DEF e, m
<1>6. PhnSum(d) % 11 = 0 /\ PhnSum(e) % 11 = 0
  BY <1>4, <1>5, PhnAcceptedSum
<1>7. /\ PhnSum(m) = PhnSum(d) - Share(w, a) + Share(w, b)
      /\ PhnSum(e) = PhnSum(m) - Share(v, b) + Share(v, a)
  BY <1>1, <1>3, <1>4, PhnStep
<1>8. w \in 1..10 /\ v \in 1..10
  BY <1>1, WeightBounds
<1>9. PhnSum(d) \in Int /\ PhnSum(m) \in Int /\ PhnSum(e) \in Int
  BY <1>3, <1>4, PhnSumTyped
<1> HIDE DEF a, b, w, v
<1>10. /\ Share(w, a) \in Int /\ Share(w, b) \in Int
       /\ Share(v, a) \in Int /\ Share(v, b) \in Int
  BY <1>2, <1>8 DEF Share
<1> DEFINE s == PhnSum(d) - Share(w, a) - Share(v, b)
<1>11. /\ s \in Int /\ PhnSum(d) = s + Share(w, a) + Share(v, b)
       /\ PhnSum(e) = s + Share(w, b) + Share(v, a)
  BY <1>7, <1>9, <1>10, SMT
<1> HIDE DEF s
<1>12. a = b
  BY <1>2, <1>6, <1>11, SwapRemainder DEF Share, w, v
<1> QED
  BY <1>12 DEF a, b

\* The check digit and the digit before it have the same weight: their swap leaves the
\* sum a multiple of 11 and is not noticed (validators.py:58).
THEOREM PhnLastSwapAccepted ==
    ASSUME NEW d \in [1..10 -> 0..9], PhnAccepted(d)
    PROVE  PhnSum(Swapped(d, 9)) % 11 = 0
<1> DEFINE e == Swapped(d, 9)
<1>1. /\ e[1] = d[1] /\ e[2] = d[2] /\ e[3] = d[3] /\ e[4] = d[4] /\ e[5] = d[5]
      /\ e[6] = d[6] /\ e[7] = d[7] /\ e[8] = d[8] /\ e[9] = d[10] /\ e[10] = d[9]
  BY DEF Swapped
<1> HIDE DEF e
<1>2. /\ d[1] \in Int /\ d[2] \in Int /\ d[3] \in Int /\ d[4] \in Int /\ d[5] \in Int
      /\ d[6] \in Int /\ d[7] \in Int /\ d[8] \in Int /\ d[9] \in Int /\ d[10] \in Int
  OBVIOUS
<1>3. PhnSum(e) = PhnSum(d)
  BY <1>1, <1>2, SMT DEF PhnSum, PhnTotal
<1>4. PhnSum(e) % 11 = 0
  BY <1>3, PhnAcceptedSum
<1> QED
  BY <1>4 DEF e

\* BR-D1-01: an applicant is accepted from the sixteenth birthday on
\* (validators.py:98-104).
THEOREM AcceptedFromSixteenthBirthday ==
    ASSUME NEW today \in Date, NEW dob \in Date
    PROVE  ValidateAge(today, dob) <=>
             \/ today.year > dob.year + 16
             \/ today.year = dob.year + 16 /\ today.month > dob.month
             \/ today.year = dob.year + 16 /\ today.month = dob.month /\ today.day >= dob.day
  BY DEF ValidateAge, Age, BirthdayAhead, Date

=============================================================================
