CONSTANTS
    Clients = {c1, c2}
    Devices = {d1, d2}
    Relays = {r1}
    Event = event
    Ack = ack
    NoDevice = none
SPECIFICATION Spec
SYMMETRY Symmetry
INVARIANTS
    AnsweringDeviceEnds
    KeyedToAnsweringDevice
    AnsweringDeviceNotDismissed
    EndedIsReleased
PROPERTY CallSettles
