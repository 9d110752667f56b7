------------------------------ MODULE Campaign ------------------------------
(***************************************************************************)
(* The requests that execute a campaign (Orchestration) composed with its  *)
(* dialer (Dialer): the goroutine of a request enqueues the leads, which   *)
(* the loops claim.  Breaker and costs (Ledger) share nothing with them in *)
(* the server; a behaviour is about the ones or about the others.          *)
(***************************************************************************)
EXTENDS Dialer, Orchestration, Ledger

CONSTANT LeadsOf    \* the leads of each request

ASSUME CampaignAssumption == LeadsOf \in [Executions -> SUBSET Jobs]

VARIABLE part

CampaignTypeOK ==
    TypeOK /\ OrchestrationTypeOK /\ LedgerTypeOK /\ part \in {"campaign", "ledger"}

CampaignInit == Init /\ OrchestrationInit /\ LedgerInit /\ part \in {"campaign", "ledger"}

\* The goroutine of executeCampaign puts the leads of its request, if any, into the queue.
EnqueueStep(r) ==
    /\ EnqueueLeads(r)
    /\ IF LeadsOf[r] = {} THEN UNCHANGED vars ELSE Enqueue(LeadsOf[r])

ExecuteStep(r) == Execute(r) /\ UNCHANGED vars

\* Nothing but the goroutine of a request enqueues leads.
DialStep ==
    /\ Next
    /\ \A j \in Jobs : status[j] = "absent" => status'[j] = "absent"
    /\ UNCHANGED orchestration

CampaignStep == DialStep \/ \E r \in Executions : EnqueueStep(r) \/ ExecuteStep(r)

CampaignNext ==
    /\ UNCHANGED part
    /\ \/ part = "campaign" /\ CampaignStep /\ UNCHANGED ledgerVars
       \/ part = "ledger" /\ LedgerNext /\ UNCHANGED <<vars, orchestration>>

CampaignSpec == CampaignInit /\ [][CampaignNext]_<<vars, orchestration, ledgerVars, part>>
=============================================================================
