SPECIFICATION Spec
CONSTANTS
    Messages = {a}
    Appended = {c}
    MaxUid = 2
    Workloads <- MCQuiet
PROPERTY AppendedKept
