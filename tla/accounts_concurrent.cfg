SPECIFICATION Spec
CONSTANTS
    Addresses = {a1}
    Passwords = {p1, p2}
    UserIds = {u1, u2}
    Tokens = {t1, t2, t3}
    Requests = {r1, r2, r3, r4}
    NULL = NULL
    Second = 2
    Ttl = 1
    MaxTime = 2
    MaxConcurrent = 2
    MaxAborts = 1
SYMMETRY Symmetry
INVARIANTS
    AccountInv
    OneAccountPerAddress
    RegistrationAccounted
    RegisteredCanLogin
    ServedAsRegistrant
    TokenLifetime
PROPERTY ImplementsDirectory
