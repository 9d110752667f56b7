CONSTANTS
    j1 = j1
    j2 = j2
    Jobs = {j1, j2}
    Position <- OneBatch
    Instances = {i1}
    NoInstance = noInstance
    Loops = {l1, l2}
    NoLoop = noLoop
    Workers = {w1, w2}
    NoJob = noJob
    MaxAttempts = 1
    FirstAttempt = 0
    Limit = 0
    MaxCalls = 1
    Mode = "ai"
SPECIFICATION FairSpec
PROPERTY LeadsReached
