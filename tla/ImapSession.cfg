SPECIFICATION Spec
CONSTANTS
    Conns = {c1, c2}
    Accounts = {a1, a2}
    Users = {a1, a2}
    None = None
    Names = {inbox, archive}
    Acceptor = TRUE
    MaxId = 2
    MaxFailures = 1
INVARIANTS
    GaugeExact
    RowsClosed
    ExpungesOwn
SYMMETRY Symmetry
CHECK_DEADLOCK FALSE
