SPECIFICATION FairSpec
CONSTANTS
    Syncs = {s1}
    Deletes = {d1}
    Clients = {c1}
    Ttl = 2
    MaxCrashes = 1
    MaxFailures = 2
    None = None
INVARIANTS
    FreshHolderOwns
    DeletionLeavesNoSyncedBlob
PROPERTY
    AbandonedLockFreed
CHECK_DEADLOCK FALSE
