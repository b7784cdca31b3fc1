--------------------------- MODULE RegistrationForm ---------------------------
(***************************************************************************)
(* What the registration wizard accepts: the field checks of                *)
(* app/domains/registration/validators.py and the request models of         *)
(* app/domains/registration/schemas.py, as predicates.  Registration takes  *)
(* up where they end: its inputs are forms that were accepted.              *)
(*                                                                          *)
(* Text is a sequence of characters; digits are the numbers 0..9, every     *)
(* other character is a member of Others.  Dates are year, month and day.   *)
(***************************************************************************)
EXTENDS Integers, Sequences

CONSTANTS Others,    \* characters that are no digits
          NameChars, \* those a name may have
          Blank, Newline,
          Null       \* a field that is absent

ASSUME OthersAssumption ==
    /\ Others \cap (0..9) = {}
    /\ NameChars \subseteq Others /\ {Blank, Newline} \subseteq Others
    /\ Newline \notin NameChars

Text == Seq(Others \cup 0..9)

\* re.sub(r"\D", "", raw)
IsDigit(c) == c \notin Others
Digits(raw) == SelectSeq(raw, IsDigit)

IsBlank(text) == \A i \in 1..Len(text) : text[i] \in {Blank, Newline}

-----------------------------------------------------------------------------
(* Field checks *)

\* A digit doubled, and 9 taken off if that has two digits.
Doubled(n) == IF 2 * n > 9 THEN 2 * n - 9 ELSE 2 * n

LuhnTotal(d) ==
    d[1] + Doubled(d[2]) + d[3] + Doubled(d[4]) + d[5] + Doubled(d[6]) + d[7]
         + Doubled(d[8]) + d[9]

SinAccepted(d) == (\E i \in 1..9 : d[i] # 0) /\ LuhnTotal(d) % 10 = 0

ValidateSin(raw) == Len(Digits(raw)) = 9 /\ SinAccepted(Digits(raw))

PhnTotal(d) ==
    2 * d[1] + 4 * d[2] + 8 * d[3] + 5 * d[4] + 10 * d[5] + 9 * d[6] + 7 * d[7]
        + 3 * d[8] + d[9]

PhnCheck(d) == IF PhnTotal(d) % 11 = 0 THEN 0 ELSE 11 - (PhnTotal(d) % 11)

PhnAccepted(d) == PhnCheck(d) # 10 /\ PhnCheck(d) = d[10]

\* Optional: a blank number is accepted, and stored as absent.
ValidatePhn(raw) ==
    IsBlank(raw) \/ (Len(Digits(raw)) = 10 /\ PhnAccepted(Digits(raw)))

NameMatches(name) ==
    Len(name) \in 2..50 /\ \A i \in 1..Len(name) : name[i] \in NameChars

\* The $ of the pattern also matches before a newline at the end.
ValidateName(name) ==
    \/ NameMatches(name)
    \/ /\ Len(name) > 0 /\ name[Len(name)] = Newline
       /\ NameMatches(SubSeq(name, 1, Len(name) - 1))

ValidatePin(pin) == Len(pin) = 4 /\ \A i \in 1..4 : IsDigit(pin[i])

Date == [year : Nat, month : 1..12, day : 1..31]

BirthdayAhead(today, dob) ==
    today.month < dob.month \/ (today.month = dob.month /\ today.day < dob.day)

Age(today, dob) == today.year - dob.year - (IF BirthdayAhead(today, dob) THEN 1 ELSE 0)

ValidateAge(today, dob) == Age(today, dob) >= 16

-----------------------------------------------------------------------------
(* Forms *)

Optional(value, Accepts(_)) == value # Null => Accepts(value)

PersonAccepted(today, p) ==
    /\ ValidateName(p.first_name) /\ ValidateName(p.last_name)
    /\ ValidateSin(p.sin)
    /\ Optional(p.phn, ValidatePhn)
    /\ ValidateAge(today, p.date_of_birth)

\* A spouse is checked when there is one; no middle name of a spouse is.
SpouseInfoRequest(today, s) == s # Null => PersonAccepted(today, s)

\* The payment amount is asked for only if the identification of the case was sent.
OpenCaseAccepted(form) ==
    form.has_open_case /\ form.open_case_identification # Null
        => form.open_case_identification.last_assistance_payment_amount \notin {Null, <<>>}

PersonalInfoRequest(today, form) ==
    /\ PersonAccepted(today, form)
    /\ Optional(form.middle_name, LAMBDA n : IsBlank(n) \/ ValidateName(n))
    /\ form.email = form.email_confirm
    /\ OpenCaseAccepted(form)
    /\ SpouseInfoRequest(today, form.spouse)

PinRequest(form) ==
    ValidatePin(form.pin) /\ ValidatePin(form.pin_confirm) /\ form.pin = form.pin_confirm

=============================================================================
