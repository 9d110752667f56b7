CONSTANTS
    Endpoints = {e1, e2}
    NoEndpoint = noEndpoint
    Conns = {c1, c2}
    NoConn = noConn
    Dialers = {d1, d2}
    MaxDial = 1
    MaxOpen = 1
    Events = {"ice"}
SPECIFICATION Spec
SYMMETRY Symmetry
CHECK_DEADLOCK FALSE
INVARIANTS
    ListedIsAlive
