CONSTANTS
    Clients = {c1}
    Devices = {d1, d2}
    Relays = {r1}
    Event = event
    Ack = ack
    NoDevice = none
SPECIFICATION FairSpec
PROPERTIES
    OpenRelayConnects
    EndedIsTornDown
