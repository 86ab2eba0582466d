\* Two chats and browsers, three user ids, three requests; one wrong password,
\* one resend and one code before the caps.
SPECIFICATION AccessSpec
CONSTANTS
    User = {u1, u2, u3}
    Request = {r1, r2, r3}
    MAX_PER_USER = 1
    Browsers = {b1, b2}
    LoginMax = 1
    MaxAttempts = 1
    MaxResends = 1
    MailCap = 1
    Chats = {c1, c2}
    Linkable = {u1, u2}
    Engineers = {u1}
SYMMETRY Symmetry
INVARIANTS AccessTypeOK AtMostOneOwner SetupMatchesOwner SecondFactor LaunchExplained
CHECK_DEADLOCK FALSE
