CONSTANTS
    j1 = j1
    j2 = j2
    Jobs = {j1, j2}
    Position <- OneBatch
    Instances = {i1}
    NoInstance = noInstance
    Loops = {l1, l2}
    NoLoop = noLoop
    Workers = {w1, w2}
    NoJob = noJob
    MaxAttempts = 1
    FirstAttempt = 0
    Limit = 0
    MaxCalls = 2
    Mode = "ai"
    e1 = e1
    e2 = e2
    Executions = {e1, e2}
    Contract <- Asked
    NoKey = noKey
    NoId = noId
    LeadsOf <- Leads
    Probes = {p1, p2}
    Threshold = 2
    Reports <- Costs
SPECIFICATION CampaignSpec
SYMMETRY Symmetry
INVARIANTS
    ClaimedOnce
    EnqueuedOnce
    
    BreakerAgrees
PROPERTY CalledOnce
