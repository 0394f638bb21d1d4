SPECIFICATION FairSpec
CONSTANTS
    m1 = m1
    m2 = m2
    m3 = m3
    Workers = {w1}
    Accounts = {1, 2}
    Mutations = {m1, m2, m3}
    AccountOf <- MCAccountOf
    Poison = {m1}
    Unreachable = {}
    Pausable = {2}
    Deletable = {2}
    Interval = 2
    MaxDelay = 4
    AttemptCap = 2
    MaxFailures = 1
    MaxAborts = 1
    MaxDeletes = 1
INVARIANTS
    SucceededWasReplayed
    NotOvertaken
    StrandedOnlyByAbort
PROPERTIES
    ImplementsLedger
    Delivered
