SPECIFICATION Spec
CONSTANTS
    Mailboxes = {inbox, archive}
    Messages = {a, b}
    Home = inbox
    Validity = 7
    Verbs = {"copy", "move", "store", "expunge"}
    Synced = {inbox, archive}
    MaxCommands = 2
    MaxUid = 4
    MaxFailures = 1
SYMMETRY Interchangeable
INVARIANTS
    MoveNeverLoses
    CopiesBounded
CHECK_DEADLOCK FALSE
