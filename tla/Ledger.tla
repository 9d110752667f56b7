------------------------------- MODULE Ledger -------------------------------
(***************************************************************************)
(* The circuit breaker and the cost engine of the dialer                   *)
(* (orchestration.go): calls of one provider pass the breaker and report   *)
(* how they went, at any later time; costs are reported by call and as     *)
(* transactions, any of them more than once.                               *)
(***************************************************************************)
EXTENDS Integers, FiniteSets

CONSTANTS Probes,      \* calls of the provider
          Threshold,   \* failures that open the breaker
          Reports      \* of costs: [kind, event, call, job, tenant, billable]

Blank == ""            \* an id that is left out

ASSUME LedgerAssumption ==
    /\ Threshold \in Nat \ {0}
    /\ \A t \in Reports : t.kind \in {"cost", "transaction"} /\ t.billable \in BOOLEAN

VARIABLES
    breaker,      \* state of the circuit
    failed,       \* its failures
    cooled,       \* has the cooldown passed since the last failure
    probe,        \* calls that have passed
    recorded,     \* recordedKeys
    costs, tenantCosts, transactions,
    booked        \* history: reports that were not refused

circuit == <<breaker, failed, cooled, probe>>
ledger == <<recorded, costs, tenantCosts, transactions, booked>>
ledgerVars == <<circuit, ledger>>

BilledJobs == {t.job : t \in Reports}
Tenants == {t.tenant : t \in Reports}

LedgerTypeOK ==
    /\ breaker \in {"CLOSED", "OPEN", "HALF-OPEN"} /\ cooled \in BOOLEAN
    /\ failed \in 0..(Threshold + 1) /\ probe \subseteq Probes
    /\ recorded \subseteq {t.event : t \in Reports} \cup {t.call : t \in Reports} \cup BilledJobs
    /\ costs \in [BilledJobs -> 0..Cardinality(Reports)]
    /\ tenantCosts \in [Tenants -> 0..Cardinality(Reports)]
    /\ transactions \subseteq booked /\ booked \subseteq Reports

LedgerInit ==
    /\ breaker = "CLOSED" /\ failed = 0 /\ cooled = TRUE /\ probe = {}
    /\ recorded = {} /\ transactions = {} /\ booked = {}
    /\ costs = [j \in BilledJobs |-> 0] /\ tenantCosts = [t \in Tenants |-> 0]

\* The first call after the cooldown half-opens the circuit; it lets all pass from then on.
Check(c) ==
    /\ c \notin probe /\ (breaker = "OPEN" => cooled)
    /\ probe' = probe \cup {c}
    /\ breaker' = IF breaker = "OPEN" THEN "HALF-OPEN" ELSE breaker
    /\ UNCHANGED <<failed, cooled, ledger>>

Cooldown == ~cooled /\ cooled' = TRUE /\ UNCHANGED <<breaker, failed, probe, ledger>>

\* As if a success did not clear the failures.
AfterSuccessKept == failed

AfterSuccess == 0

RecordSuccess(c) ==
    /\ c \in probe
    /\ probe' = probe \ {c} /\ failed' = AfterSuccess /\ breaker' = "CLOSED"
    /\ UNCHANGED <<cooled, ledger>>

\* The count goes on in an open circuit; it is cut off here above what tells states apart.
RecordFailure(c) ==
    /\ c \in probe
    /\ probe' = probe \ {c} /\ cooled' = FALSE
    /\ failed' = IF failed > Threshold THEN failed ELSE failed + 1
    /\ breaker' = IF failed + 1 >= Threshold THEN "OPEN" ELSE breaker
    /\ UNCHANGED ledger

\* As if a transaction without an id went by its job as well.
EventIdOfJob(t) == IF t.event # Blank THEN t.event ELSE t.job

\* What has no id of its own goes by its call or its job.
EventId(t) == IF t.event # Blank THEN t.event
              ELSE IF t.kind = "transaction" /\ t.call # Blank THEN t.call ELSE t.job

RecordCost(t) ==
    /\ t.kind = "cost" /\ EventId(t) \notin recorded
    /\ recorded' = recorded \cup {EventId(t)} /\ booked' = booked \cup {t}
    /\ costs' = [costs EXCEPT ![t.job] = @ + 1]
    /\ UNCHANGED <<circuit, tenantCosts, transactions>>

RecordTransaction(t) ==
    /\ t.kind = "transaction" /\ EventId(t) \notin recorded
    /\ recorded' = recorded \cup {EventId(t)} /\ booked' = booked \cup {t}
    /\ transactions' = transactions \cup {t}
    /\ IF t.billable
       THEN /\ costs' = [costs EXCEPT ![t.job] = @ + 1]
            /\ tenantCosts' = [tenantCosts EXCEPT ![t.tenant] = @ + 1]
       ELSE UNCHANGED <<costs, tenantCosts>>
    /\ UNCHANGED circuit

LedgerNext ==
    \/ \E c \in Probes : Check(c) \/ RecordSuccess(c) \/ RecordFailure(c)
    \/ Cooldown
    \/ \E t \in Reports : RecordCost(t) \/ RecordTransaction(t)

-----------------------------------------------------------------------------
(* The breaker goes by its count: it is open or half open exactly while    *)
(* the failures have reached the threshold, so that a probe that fails     *)
(* opens it again at once, however many calls of before the opening still  *)
(* report (Check, RecordSuccess, RecordFailure).                           *)
BreakerAgrees == (breaker = "CLOSED") <=> (failed < Threshold)

(* Of the reports of a call one is booked and the others are refused,      *)
(* whichever comes first, and what is refused is a repetition: no call is  *)
(* taken for another one of its job; the sums are those of the reports     *)
(* that were booked (RecordTransaction, RecordCost).                       *)
BookedExactly ==
    /\ \A t, u \in booked : t # u => t.call # u.call
    /\ \A t \in Reports : EventId(t) \in recorded => \E u \in booked : u.call = t.call
    /\ \A j \in BilledJobs :
           costs[j] = Cardinality({t \in booked : t.job = j /\ (t.kind = "cost" \/ t.billable)})
=============================================================================
