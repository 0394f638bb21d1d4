SPECIFICATION Spec
CONSTANTS
    ann = ann
    bob = bob
    mirrored = mirrored
    appended = appended
    shared = shared
    Accounts = {ann, bob}
    Ingests = {mirrored, appended, shared}
    Appends = {appended}
    AccountOf <- MCAccountOf
    Readers = {ann}
    Limit = 3
    Keep = 0
    MaxIngests = 2
    MaxPrunes = 1
    MaxFailures = 1
    MaxReads = 1
    None = None
INVARIANTS
    CountsCoverRows
    OthersKeepBlobs
    OverQuotaOnlyByOverlap
    TornOnlyUnderPut
CHECK_DEADLOCK FALSE
