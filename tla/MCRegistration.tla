---------------------------- MODULE MCRegistration ----------------------------
(* One session, two requests at a time, two addresses, three invites; forms   *)
(* with a mistyped SIN, with addresses that differ, and of an applicant who   *)
(* is 16 tomorrow are refused.                                                *)
EXTENDS Registration
CONSTANTS r1, r2, e1, e2, a, hyphen
MCRequests == {r1, r2}
MCOthers == {a, hyphen, Blank, Newline}
MCNameChars == {a, hyphen, Blank}
MCToday == [year |-> 2026, month |-> 3, day |-> 24]
BornOn(d) == [year |-> 2010, month |-> 3, day |-> d]

Sin(last) == <<0, 4, 6, hyphen, 4, 5, 4, hyphen, 2, 8, last>>
Phn == <<9, 0, 0, 0, Blank, 0, 0, 0, 0, 0, 4>>

Form(address, confirm, sin, dob) ==
    [first_name |-> <<a, a>>, middle_name |-> <<Blank>>, last_name |-> <<a, hyphen, a>>,
     email |-> address, email_confirm |-> confirm, sin |-> sin, phn |-> Phn,
     date_of_birth |-> dob, has_open_case |-> TRUE,
     open_case_identification |-> Null, spouse |-> Null]

MCForms ==
    {Form(e, c, Sin(last), BornOn(d)) :
        e \in {e1, e2}, c \in {e1, e2}, last \in {6, 7}, d \in {24, 25}}

MCPinForms == {[pin |-> <<1, 2, 3, last>>, pin_confirm |-> <<1, 2, 3, 4>>] : last \in {4, a}}
=============================================================================
