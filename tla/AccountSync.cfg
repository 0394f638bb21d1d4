SPECIFICATION Spec
CONSTANTS
    Syncs = {s1, s2}
    Names <- MCNames
    Inbox = "Inbox"
    Canonical <- MCCanonical
    Validity <- MCValidity
    None = None
    Mixed = Mixed
    MaxEvents = 3
SYMMETRY MCSymmetry
INVARIANTS
    QuietSyncMirrors
    UncountedOnlyIfCut
PROPERTIES
    RemovedWasMissing
CHECK_DEADLOCK FALSE
