---------------------------- MODULE Orchestration ----------------------------
(***************************************************************************)
(* The execution of a campaign's requests (executeCampaign): idempotency   *)
(* keys, execution jobs and their state machine (orchestration.go).  Each  *)
(* request is handled by a thread of its own and goes on in a goroutine    *)
(* after it has been answered; the registries have one lock each.          *)
(***************************************************************************)
EXTENDS Integers

CONSTANTS Executions,    \* requests
          Contract,      \* what each asks: [tenant, key, job]
          NoKey, NoId    \* a request without a key, without a job id

\* A request that names no job gets a new id.
IdOf(r) == IF Contract[r].job = NoId THEN r ELSE Contract[r].job
Ids == {IdOf(r) : r \in Executions}
Scope(r) == <<Contract[r].tenant, Contract[r].key>>
Scopes == {Scope(r) : r \in Executions}

VARIABLES
    keys,        \* scopes that are taken
    executions,  \* state of each execution job, and the request that created it
    at,          \* where each request is
    enqueued     \* history: requests whose leads were enqueued

orchestration == <<keys, executions, at, enqueued>>

JobStates == {"CREATED", "QUEUED", "RUNNING", "PAUSED", "DRAINING", "COMPLETED", "PARTIAL", "FAILED", "CANCELLED"}
NoExecution == [state |-> "none", by |-> NoId]

OrchestrationTypeOK ==
    /\ keys \subseteq Scopes
    /\ executions \in [Ids -> [state : JobStates, by : Executions] \cup {NoExecution}]
    /\ at \in [Executions -> {"idle", "create", "queue", "run", "enqueue", "complete", "done", "refused", "duplicate"}]
    /\ enqueued \subseteq Executions

OrchestrationInit ==
    /\ keys = {}
    /\ executions = [i \in Ids |-> NoExecution]
    /\ at = [r \in Executions |-> "idle"]
    /\ enqueued = {}

RequestGoes(r, from, to) == at[r] = from /\ at' = [at EXCEPT ![r] = to]

\* As if a key counted as taken when its job has been created.
KeyTakenByJob(r) ==
    \E i \in Ids : executions[i] # NoExecution /\ Scope(executions[i].by) = Scope(r)

KeyTaken(r) == Scope(r) \in keys

\* CheckOrRegister, after ValidateUnifiedContract has refused a request without a key.
CheckOrRegister(r) ==
    /\ RequestGoes(r, "idle", IF Contract[r].key = NoKey THEN "refused"
                              ELSE IF KeyTaken(r) THEN "duplicate" ELSE "create")
    /\ keys' = IF Contract[r].key = NoKey THEN keys ELSE keys \cup {Scope(r)}
    /\ UNCHANGED <<executions, enqueued>>

\* A job of that id is replaced, whatever its state.
CreateJob(r) ==
    /\ RequestGoes(r, "create", "queue")
    /\ executions' = [executions EXCEPT ![IdOf(r)] = [state |-> "CREATED", by |-> r]]
    /\ UNCHANGED <<keys, enqueued>>

Valid(from, to) ==
    CASE from = "CREATED"  -> to \in {"QUEUED", "CANCELLED"}
      [] from = "QUEUED"   -> to \in {"RUNNING", "CANCELLED"}
      [] from = "RUNNING"  -> to \in {"PAUSED", "DRAINING", "COMPLETED", "PARTIAL", "FAILED"}
      [] from = "PAUSED"   -> to \in {"RUNNING", "CANCELLED"}
      [] from = "DRAINING" -> to \in {"COMPLETED", "FAILED"}
      [] OTHER             -> FALSE

\* Transition; executeCampaign ignores its errors.
Transition(i, to) ==
    executions' = IF Valid(executions[i].state, to) THEN [executions EXCEPT ![i].state = to] ELSE executions

QueueJob(r) == RequestGoes(r, "queue", "run") /\ Transition(IdOf(r), "QUEUED") /\ UNCHANGED <<keys, enqueued>>

\* The goroutine of the request.
RunJob(r) == RequestGoes(r, "run", "enqueue") /\ Transition(IdOf(r), "RUNNING") /\ UNCHANGED <<keys, enqueued>>

EnqueueLeads(r) ==
    /\ RequestGoes(r, "enqueue", "complete")
    /\ enqueued' = enqueued \cup {r}
    /\ UNCHANGED <<keys, executions>>

CompleteJob(r) ==
    /\ RequestGoes(r, "complete", "done")
    /\ Transition(IdOf(r), "COMPLETED")
    /\ UNCHANGED <<keys, enqueued>>

Execute(r) == CheckOrRegister(r) \/ CreateJob(r) \/ QueueJob(r) \/ RunJob(r) \/ CompleteJob(r)

-----------------------------------------------------------------------------
(* A request that is sent again, while the first is handled or later, puts *)
(* no lead into the queue a second time: of the requests of a tenant with  *)
(* one key, one enqueues its leads (CheckOrRegister, executeCampaign).     *)
EnqueuedOnce == \A r, s \in enqueued : r # s => Scope(r) # Scope(s)
=============================================================================
