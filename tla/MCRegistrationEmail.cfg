\* The PIN step against the address it is stored for.
SPECIFICATION Spec
CONSTANTS
    r1 = r1
    r2 = r2
    e1 = e1
    e2 = e2
    a = a
    hyphen = hyphen
    Blank = Blank
    Newline = Newline
    Null = Null
    Others <- MCOthers
    NameChars <- MCNameChars
    Today <- MCToday
    Forms <- MCForms
    PinForms <- MCPinForms
    None = None
    Requests <- MCRequests
    MaxInvites = 3
PROPERTIES
    PinForVerifiedEmail
\* An expired session is the end of a registration.
CHECK_DEADLOCK FALSE
