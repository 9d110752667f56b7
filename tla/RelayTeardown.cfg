CONSTANTS
    Endpoints = {e1}
    NoEndpoint = noEndpoint
    Conns = {c1, c2}
    NoConn = noConn
    Dialers = {d1}
    MaxDial = 1
    MaxOpen = 1
    Events = {"cleanup"}
SPECIFICATION FairSpec
CHECK_DEADLOCK FALSE
PROPERTIES
    HandshakeSettles
    ClosedChannelLeaves
    ImplementsView
