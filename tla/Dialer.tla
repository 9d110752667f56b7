-------------------------------- MODULE Dialer --------------------------------
(***************************************************************************)
(* A campaign of the dialer (internal/platform/dialer): the queue of leads *)
(* with its reservation locks, the scheduler with its campaign loops, and  *)
(* the goroutine that each claimed lead is dispatched in.  The instances   *)
(* (WhatsApp sessions) are the ones SessionManager offers: a call counts   *)
(* from createCall on until it leaves the session's registry.              *)
(*                                                                         *)
(* The loops and the dispatch goroutines share no lock: the loop's        *)
(* decision (LoopSelect), its claim of a lead (LoopClaim) and the steps of *)
(* the dispatch interleave with one another and with Start, Pause and Stop.*)
(* Time is abstract: a line that has just dialled is cooling, a lead whose *)
(* NextAttemptAt lies ahead is waiting, and either may be over at any time.*)
(***************************************************************************)
EXTENDS Integers, FiniteSets

CONSTANTS Jobs,          \* leads
          Position,      \* their positions; those of two batches may be the same
          Instances,     \* lines
          NoInstance,
          Loops,         \* goroutines that run campaignLoop; a bound on the restarts
          NoLoop,
          Workers,       \* goroutines that run dispatchCall; a bound
          NoJob,
          MaxAttempts,   \* of the campaign
          FirstAttempt,  \* Attempt of an enqueued lead: 0 from the HTTP API
          Limit,         \* MaxConcurrentCalls of the campaign, 0 for none
          MaxCalls,      \* -max-calls: MaxConcurrentCalls of a line
          Mode           \* "h2h" or "ai"

ASSUME NamesAssumption ==
    NoInstance \notin Instances /\ NoLoop \notin Loops /\ NoJob \notin Jobs
ASSUME NumbersAssumption ==
    /\ MaxAttempts \in Nat /\ FirstAttempt \in Nat /\ FirstAttempt <= MaxAttempts
    /\ Limit \in Nat /\ MaxCalls \in Nat
    /\ Position \in [Jobs -> Nat]

VARIABLES
    campaign,    \* DialerCampaign.Status
    running,     \* runningCampaigns[campaign]: the loop it cancels
    cancelled,   \* loops whose context is cancelled
    loop,        \* where each loop is
    chosen,      \* selectedInstance of each loop
    cooling,     \* lines that dialled less than the interval ago
    connected,   \* lines that are connected and paired
    live,        \* calls in the sessions' registries
    status,      \* DialerJob.Status, "absent" before Enqueue
    attempt,     \* DialerJob.Attempt
    waiting,     \* leads whose NextAttemptAt has not come
    locks,       \* InMemReservationEngine.locks
    worker,      \* where each dispatch is
    task,        \* its lead
    line,        \* its instance
    dials,       \* history: how often each lead was dispatched
    placed       \* history: leads whose call was placed

scheduler == <<campaign, running, cancelled, loop, chosen>>
lines == <<cooling, connected, live>>
queue == <<status, attempt, waiting, locks>>
dispatch == <<worker, task, line>>
history == <<dials, placed>>
vars == <<scheduler, lines, queue, dispatch, history>>

\* A faulty Eligible: a lead that has failed may be claimed before HandleRetry.
EligibleOrFailed == {"QUEUED", "RETRY_PENDING", "FAILED"}

Eligible == {"QUEUED", "RETRY_PENDING"}
InProgress == {"RESERVED", "DIALING", "RINGING", "AI_STARTING", "GREETING"}
Statuses == Eligible \cup InProgress \cup {"absent", "FAILED"}

Calls == [job : Jobs, dial : Nat, line : Instances]

TypeOK ==
    /\ campaign \in {"READY", "RUNNING", "PAUSED", "STOPPED"}
    /\ running \in Loops \cup {NoLoop}
    /\ cancelled \in SUBSET Loops
    /\ loop \in [Loops -> {"off", "select", "claim"}]
    /\ chosen \in [Loops -> Instances \cup {NoInstance}]
    /\ cooling \in SUBSET Instances
    /\ connected \in SUBSET Instances
    /\ live \in SUBSET Calls
    /\ status \in [Jobs -> Statuses]
    /\ attempt \in [Jobs -> 0 .. MaxAttempts]
    /\ waiting \in SUBSET Jobs
    /\ locks \in SUBSET Jobs
    /\ worker \in [Workers -> {"idle", "start", "call", "outcome", "ringing",
                               "ai_starting", "greeting", "failed", "retry"}]
    /\ task \in [Workers -> Jobs \cup {NoJob}]
    /\ line \in [Workers -> Instances \cup {NoInstance}]
    /\ dials \in [Jobs -> Nat]
    /\ placed \in SUBSET Jobs

Init ==
    /\ campaign = "READY"
    /\ running = NoLoop
    /\ cancelled = {}
    /\ loop = [l \in Loops |-> "off"]
    /\ chosen = [l \in Loops |-> NoInstance]
    /\ cooling = {}
    /\ connected = Instances
    /\ live = {}
    /\ status = [j \in Jobs |-> "absent"]
    /\ attempt = [j \in Jobs |-> FirstAttempt]
    /\ waiting = {}
    /\ locks = {}
    /\ worker = [w \in Workers |-> "idle"]
    /\ task = [w \in Workers |-> NoJob]
    /\ line = [w \in Workers |-> NoInstance]
    /\ dials = [j \in Jobs |-> 0]
    /\ placed = {}

-----------------------------------------------------------------------------
(* The queue *)

\* executeCampaign enqueues the leads of a request in a goroutine of its own.
Enqueue(batch) ==
    /\ batch # {} /\ \A j \in batch : status[j] = "absent"
    /\ status' = [j \in Jobs |-> IF j \in batch THEN "QUEUED" ELSE status[j]]
    /\ UNCHANGED <<scheduler, lines, attempt, waiting, locks, dispatch, history>>

Ready == {j \in Jobs : status[j] \in Eligible /\ j \notin waiting}

\* NextJob takes a ready lead of the lowest position (queue.jobs is a map: any of
\* them, when positions are equal) ...
Head(j) == j \in Ready /\ \A k \in Ready : Position[j] <= Position[k]

\* ... and reserves it, or fails when its lock is held.
Reserve(j) ==
    /\ j \notin locks
    /\ locks' = locks \cup {j}
    /\ status' = [status EXCEPT ![j] = "RESERVED"]

\* A faulty UpdateJobStatus: the lock is not released.
UpdateJobStatusKeepsLock(j, s) == status' = [status EXCEPT ![j] = s] /\ UNCHANGED locks

\* UpdateJobStatus releases the lock of a lead that is done.
UpdateJobStatus(j, s) ==
    /\ status' = [status EXCEPT ![j] = s]
    /\ locks' = IF s \in {"COMPLETED", "FAILED", "NO_ANSWER", "BUSY"}
                THEN locks \ {j} ELSE locks

\* Faulty HandleRetrys: the attempts are not counted; one attempt too many.
HandleRetryForever(j) ==
    /\ locks' = locks \ {j}
    /\ status' = [status EXCEPT ![j] = "RETRY_PENDING"]
    /\ waiting' = waiting \cup {j}
    /\ UNCHANGED attempt

HandleRetryOneMore(j) ==
    /\ locks' = locks \ {j}
    /\ IF attempt[j] <= MaxAttempts
       THEN /\ attempt' = [attempt EXCEPT ![j] = @ + 1]
            /\ status' = [status EXCEPT ![j] = "RETRY_PENDING"]
            /\ waiting' = waiting \cup {j}
       ELSE /\ status' = [status EXCEPT ![j] = "FAILED"]
            /\ UNCHANGED <<attempt, waiting>>

\* HandleRetry plans another attempt, with a backoff, or gives the lead up.
HandleRetry(j) ==
    /\ locks' = locks \ {j}
    /\ IF attempt[j] < MaxAttempts
       THEN /\ attempt' = [attempt EXCEPT ![j] = @ + 1]
            /\ status' = [status EXCEPT ![j] = "RETRY_PENDING"]
            /\ waiting' = waiting \cup {j}
       ELSE /\ status' = [status EXCEPT ![j] = "FAILED"]
            /\ UNCHANGED <<attempt, waiting>>

BackoffOver(j) ==
    /\ j \in waiting
    /\ waiting' = waiting \ {j}
    /\ UNCHANGED <<scheduler, lines, status, attempt, locks, dispatch, history>>

-----------------------------------------------------------------------------
(* The lines *)

CooldownOver(i) ==
    /\ i \in cooling
    /\ cooling' = cooling \ {i}
    /\ UNCHANGED <<scheduler, connected, live, queue, dispatch, history>>

Disconnect(i) ==
    /\ i \in connected
    /\ connected' = connected \ {i}
    /\ UNCHANGED <<scheduler, cooling, live, queue, dispatch, history>>

Connect(i) ==
    /\ i \notin connected
    /\ connected' = connected \cup {i}
    /\ UNCHANGED <<scheduler, cooling, live, queue, dispatch, history>>

CallEnds(k) ==
    /\ k \in live
    /\ live' = live \ {k}
    /\ UNCHANGED <<scheduler, cooling, connected, queue, dispatch, history>>

ActiveCalls(i) == Cardinality({k \in live : k.line = i})

EligibleInstances == {i \in connected : ActiveCalls(i) < MaxCalls}

\* The calls that campaignLoop counts are those of the eligible lines only.
AvailableSlots ==
    LET active == Cardinality({k \in live : k.line \in EligibleInstances})
        limit  == IF Limit > 0 THEN Limit ELSE MaxCalls * Cardinality(EligibleInstances)
    IN  limit - active

-----------------------------------------------------------------------------
(* The scheduler *)

StartCampaign(l) ==
    /\ loop[l] = "off" /\ l \notin cancelled
    /\ running = NoLoop
    /\ campaign' = "RUNNING"
    /\ running' = l
    /\ loop' = [loop EXCEPT ![l] = "select"]
    /\ UNCHANGED <<cancelled, chosen, lines, queue, dispatch, history>>

\* A faulty CancelLoop: the campaign's status is left as it is.
CancelLoopKeepsStatus(s) ==
    /\ running # NoLoop
    /\ cancelled' = cancelled \cup {running}
    /\ running' = NoLoop
    /\ UNCHANGED <<campaign, loop, chosen, lines, queue, dispatch, history>>

\* PauseCampaign and StopCampaign; without a running loop they change nothing.
CancelLoop(s) ==
    /\ running # NoLoop
    /\ cancelled' = cancelled \cup {running}
    /\ running' = NoLoop
    /\ campaign' = s
    /\ UNCHANGED <<loop, chosen, lines, queue, dispatch, history>>

PauseCampaign == CancelLoop("PAUSED")
StopCampaign == CancelLoop("STOPPED")

\* The context is done, or the campaign does not run.  select takes any of the
\* channels that are ready, so a cancelled loop may go round once more.
LoopExit(l) ==
    /\ loop[l] = "select"
    /\ l \in cancelled \/ campaign # "RUNNING"
    /\ loop' = [loop EXCEPT ![l] = "off"]
    /\ UNCHANGED <<campaign, running, cancelled, chosen, lines, queue, dispatch, history>>

\* A tick: rrIndex points into the eligible lines in the order of the pool, which
\* GetInstancesPool takes from a map: any of them.  One that cools is passed over.
LoopSelect(l) ==
    /\ loop[l] = "select"
    /\ campaign = "RUNNING"
    /\ AvailableSlots > 0
    /\ \E i \in EligibleInstances \ cooling : chosen' = [chosen EXCEPT ![l] = i]
    /\ loop' = [loop EXCEPT ![l] = "claim"]
    /\ UNCHANGED <<campaign, running, cancelled, lines, queue, dispatch, history>>

\* NextJob returns a lead: the line cools and the lead is dispatched.
LoopClaim(l, w) ==
    /\ loop[l] = "claim" /\ worker[w] = "idle"
    /\ \E j \in Jobs :
          /\ Head(j)
          /\ Reserve(j)
          /\ task' = [task EXCEPT ![w] = j]
    /\ cooling' = cooling \cup {chosen[l]}
    /\ worker' = [worker EXCEPT ![w] = "start"]
    /\ line' = [line EXCEPT ![w] = chosen[l]]
    /\ loop' = [loop EXCEPT ![l] = "select"]
    /\ chosen' = [chosen EXCEPT ![l] = NoInstance]
    /\ UNCHANGED <<campaign, running, cancelled, connected, live,
                   attempt, waiting, history>>

\* A faulty LoopNoJob: the loop ends with the queue.
LoopNoJobReturns(l) ==
    /\ loop[l] = "claim"
    /\ Ready = {} \/ \E j \in locks : Head(j)
    /\ loop' = [loop EXCEPT ![l] = "off"]
    /\ chosen' = [chosen EXCEPT ![l] = NoInstance]
    /\ UNCHANGED <<campaign, running, cancelled, lines, queue, dispatch, history>>

\* NextJob returns none, or an error: the tick is over.
LoopNoJob(l) ==
    /\ loop[l] = "claim"
    /\ Ready = {} \/ \E j \in locks : Head(j)
    /\ loop' = [loop EXCEPT ![l] = "select"]
    /\ chosen' = [chosen EXCEPT ![l] = NoInstance]
    /\ UNCHANGED <<campaign, running, cancelled, lines, queue, dispatch, history>>

-----------------------------------------------------------------------------
(* dispatchCall, in a goroutine of its own *)

WorkerGoes(w, here, there) ==
    /\ worker[w] = here
    /\ worker' = [worker EXCEPT ![w] = there]
    /\ UNCHANGED <<task, line>>

WorkerEnds(w, here) ==
    /\ worker[w] = here
    /\ worker' = [worker EXCEPT ![w] = "idle"]
    /\ task' = [task EXCEPT ![w] = NoJob]
    /\ line' = [line EXCEPT ![w] = NoInstance]

DispatchStart(w) ==
    /\ WorkerGoes(w, "start", "call")
    /\ UpdateJobStatus(task[w], "DIALING")
    /\ UNCHANGED <<scheduler, lines, attempt, waiting, history>>

\* startOutgoing registers the call before StartCall sends the offer.
DispatchCall(w) ==
    /\ WorkerGoes(w, "call", "outcome")
    /\ live' = live \cup {[job |-> task[w], dial |-> dials[task[w]] + 1, line |-> line[w]]}
    /\ dials' = [dials EXCEPT ![task[w]] = @ + 1]
    /\ UNCHANGED <<scheduler, cooling, connected, queue, placed>>

\* The session is gone or not paired.
DispatchNoSession(w) ==
    /\ WorkerGoes(w, "call", "failed")
    /\ UNCHANGED <<scheduler, lines, queue, history>>

\* A faulty DispatchPlaced: a call that went out is taken for one that failed.
DispatchPlacedAsError(w) ==
    /\ WorkerGoes(w, "outcome", "failed")
    /\ placed' = placed \cup {task[w]}
    /\ UNCHANGED <<scheduler, lines, queue, dials>>

DispatchPlaced(w) ==
    /\ WorkerGoes(w, "outcome", "ringing")
    /\ placed' = placed \cup {task[w]}
    /\ UNCHANGED <<scheduler, lines, queue, dials>>

\* StartCall failed: startOutgoing removes the call.
DispatchError(w) ==
    /\ WorkerGoes(w, "outcome", "failed")
    /\ live' = {k \in live : ~(k.job = task[w] /\ k.dial = dials[task[w]])}
    /\ UNCHANGED <<scheduler, cooling, connected, queue, history>>

DispatchRinging(w) ==
    /\ IF Mode = "ai"
       THEN WorkerGoes(w, "ringing", "ai_starting")
       ELSE WorkerEnds(w, "ringing")
    /\ UpdateJobStatus(task[w], "RINGING")
    /\ UNCHANGED <<scheduler, lines, attempt, waiting, history>>

DispatchAIStarting(w) ==
    /\ WorkerGoes(w, "ai_starting", "greeting")
    /\ UpdateJobStatus(task[w], "AI_STARTING")
    /\ UNCHANGED <<scheduler, lines, attempt, waiting, history>>

DispatchGreeting(w) ==
    /\ WorkerEnds(w, "greeting")
    /\ UpdateJobStatus(task[w], "GREETING")
    /\ UNCHANGED <<scheduler, lines, attempt, waiting, history>>

DispatchFailed(w) ==
    /\ WorkerGoes(w, "failed", "retry")
    /\ UpdateJobStatus(task[w], "FAILED")
    /\ UNCHANGED <<scheduler, lines, attempt, waiting, history>>

DispatchRetry(w) ==
    /\ WorkerEnds(w, "retry")
    /\ HandleRetry(task[w])
    /\ UNCHANGED <<scheduler, lines, history>>

-----------------------------------------------------------------------------
LoopStep(l) == LoopSelect(l) \/ (\E w \in Workers : LoopClaim(l, w)) \/ LoopNoJob(l)

DispatchStep(w) ==
    \/ DispatchStart(w) \/ DispatchCall(w) \/ DispatchNoSession(w)
    \/ DispatchPlaced(w) \/ DispatchError(w) \/ DispatchRinging(w)
    \/ DispatchAIStarting(w) \/ DispatchGreeting(w)
    \/ DispatchFailed(w) \/ DispatchRetry(w)

Next ==
    \/ \E batch \in SUBSET Jobs : Enqueue(batch)
    \/ \E j \in Jobs : BackoffOver(j)
    \/ \E i \in Instances : CooldownOver(i) \/ Disconnect(i) \/ Connect(i)
    \/ \E k \in live : CallEnds(k)
    \/ \E l \in Loops : StartCampaign(l) \/ LoopExit(l) \/ LoopStep(l)
    \/ PauseCampaign \/ StopCampaign
    \/ \E w \in Workers : DispatchStep(w)

Spec == Init /\ [][Next]_vars

\* The ticker keeps ticking, goroutines go on, delays pass; calls end (the
\* callee's doing) and so no line is full for ever.
Fairness ==
    /\ \A l \in Loops : WF_vars(LoopStep(l))
    /\ \A w \in Workers : WF_vars(DispatchStep(w))
    /\ \A j \in Jobs : WF_vars(BackoffOver(j))
    /\ \A i \in Instances : WF_vars(CooldownOver(i))
    /\ WF_vars(\E k \in live : CallEnds(k))

FairSpec == Spec /\ Fairness

-----------------------------------------------------------------------------
(* Properties *)

\* No lead is claimed twice: the dispatches that are under way, of however many
\* loops, are of different leads (NextJob, TestOrchestration_AtomicLeadClaimingScale).
ClaimedOnce ==
    \A v, w \in Workers :
        v # w /\ worker[v] # "idle" /\ worker[w] # "idle" => task[v] # task[w]

\* A lead that waits for its turn is never locked: NextJob would fail on it at
\* each tick and no other lead of the campaign would be dialled any more.
NoLockedHead == \A j \in locks : status[j] \in InProgress

\* A lead is dialled no more than its attempts allow (HandleRetry).
DialsBounded == \A j \in Jobs : dials[j] <= MaxAttempts - FirstAttempt + 1

\* A lead that was called is not called again: neither a retry nor a second loop
\* takes it up once its call was placed (dispatchCall).
CalledOnce == [][\A j \in placed : dials'[j] = dials[j]]_vars

\* While the campaign is running there is a loop that runs it: StartCampaign of a
\* campaign that is listed as running does nothing, so a loop that was lost could
\* not be replaced.
RunningHasLoop ==
    campaign = "RUNNING" =>
        running # NoLoop /\ running \notin cancelled /\ loop[running] # "off"

\* The leads of a campaign that is left running, and has a line, are called or
\* given up.
LeadsReached ==
    <>[](campaign = "RUNNING" /\ connected # {}) =>
        \A j \in Jobs : <>[](status[j] \in {"absent", "RINGING", "GREETING", "FAILED"})

\* "concurrency limit exceeded": the campaign's calls stay within its limit.
ConcurrencyLimitKept == Limit > 0 => Cardinality(live) <= Limit

\* "O lease do reservation engine expira": no lead stays reserved.
LeaseExpires == \A j \in Jobs : j \in locks ~> j \notin locks
=============================================================================
