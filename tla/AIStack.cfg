CONSTANTS
    Requests = {r1, r2}
    Kinds = {"loopback", "grok", "gemini"}
    Room = 1
    None = none
    Callers = {c1, c2}
    MaxCount = 1
    NoProvider = noProvider
SPECIFICATION StackSpec
CHECK_DEADLOCK FALSE
INVARIANTS
    StackTypeOK
    StopReleases
    
PROPERTY StopSilences
