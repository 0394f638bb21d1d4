SPECIFICATION FairSpec
CONSTANTS
    Logins = {l1, l2}
    MaxFailures = 2
    Lockout = 2
    Passwords = {"old", "new"}
    MaxErrors = 1
INVARIANTS
    GuessesBounded
    GrantedWasValid
PROPERTY
    BlockEnds
