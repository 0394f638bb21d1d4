SPECIFICATION FairSpec
CONSTANTS
    Messages = {a, b}
    Appended = {c}
    MaxUid = 2
    Workloads <- MCWorkloads
INVARIANTS
    CleanSyncMirrors
    RowsMatchUpstream
    AppendNeverLost
PROPERTIES
    
    SyncNeverWedged
