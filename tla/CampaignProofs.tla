--------------------------- MODULE CampaignProofs ---------------------------
(***************************************************************************)
(* Theorems about Dialer and Campaign, which contains it.  For any number  *)
(* of leads, lines, loops and dispatch goroutines and any limits, no lead  *)
(* is claimed twice, called twice or dialled more often than its attempts  *)
(* allow; a Campaign is a Dialer, so that this holds of it too; a key      *)
(* enqueues its leads once; the breaker goes by its count; and the sums of *)
(* the costs are those of what was booked.                                 *)
(***************************************************************************)
EXTENDS Campaign, FiniteSetTheorems, TLAPS

-----------------------------------------------------------------------------
(* The Dialer *)

\* A dispatch holds its lead's lock until the lead has failed, and what it does
\* with the lead shows in the lead's status.
Working ==
    \A w \in Workers : worker[w] # "idle" =>
        /\ task[w] \in Jobs
        /\ line[w] \in Instances
        /\ IF worker[w] = "retry"
           THEN task[w] \notin locks /\ status[task[w]] = "FAILED"
           ELSE task[w] \in locks /\ status[task[w]] \in InProgress

\* A loop that is about to claim a lead has a line for it.
Choosing == \A l \in Loops : loop[l] = "claim" => chosen[l] \in Instances

\* An attempt is dialled once: before its dial, and after HandleRetry has planned
\* the next one, the dials are those of the attempts before.
Counting ==
    /\ \A j \in Jobs : dials[j] <= attempt[j] - FirstAttempt + 1
    /\ \A j \in Jobs : status[j] \in Eligible \cup {"absent"} =>
                         dials[j] <= attempt[j] - FirstAttempt
    /\ \A w \in Workers : worker[w] \in {"start", "call"} =>
                         dials[task[w]] <= attempt[task[w]] - FirstAttempt

\* A lead that was called stays locked, and no dispatch goes back on it.
Placed ==
    \A j \in placed :
        /\ j \in locks
        /\ \A w \in Workers : worker[w] # "idle" /\ task[w] = j =>
                             worker[w] \in {"ringing", "ai_starting", "greeting"}

\* The entry of runningCampaigns is a loop that goes on.
Running ==
    /\ campaign = "RUNNING" <=> running # NoLoop
    /\ running # NoLoop =>
          running \in Loops /\ running \notin cancelled /\ loop[running] # "off"

Inv ==
    /\ TypeOK /\ Working /\ Choosing /\ ClaimedOnce /\ NoLockedHead
    /\ Counting /\ Placed /\ Running

-----------------------------------------------------------------------------
(* Type correctness *)

\* The campaign that has not started is well typed.
LEMMA TypeInit == Init => TypeOK
  BY NumbersAssumption DEF Init, TypeOK, Statuses

\* Every step keeps the variables in their types.
LEMMA TypeStep == TypeOK /\ Working /\ Choosing /\ [Next]_vars => TypeOK'
  <1> SUFFICES ASSUME TypeOK, Working, Choosing, [Next]_vars PROVE TypeOK'
    OBVIOUS
  <1> USE NumbersAssumption
      DEF TypeOK, Working, Choosing, scheduler, lines, queue, dispatch, history,
          Statuses, Eligible, InProgress, Calls
  <1>1. ASSUME NEW batch \in SUBSET Jobs, Enqueue(batch) PROVE TypeOK'
    BY <1>1 DEF Enqueue
  <1>2. ASSUME NEW j \in Jobs, BackoffOver(j) PROVE TypeOK'
    BY <1>2 DEF BackoffOver
  <1>3. ASSUME NEW i \in Instances, CooldownOver(i) PROVE TypeOK'
    BY <1>3 DEF CooldownOver
  <1>4. ASSUME NEW i \in Instances, Disconnect(i) PROVE TypeOK'
    BY <1>4 DEF Disconnect
  <1>5. ASSUME NEW i \in Instances, Connect(i) PROVE TypeOK'
    BY <1>5 DEF Connect
  <1>6. ASSUME NEW k \in live, CallEnds(k) PROVE TypeOK'
    BY <1>6 DEF CallEnds
  <1>7. ASSUME NEW l \in Loops, StartCampaign(l) PROVE TypeOK'
    BY <1>7 DEF StartCampaign
  <1>8. ASSUME NEW l \in Loops, LoopExit(l) PROVE TypeOK'
    BY <1>8 DEF LoopExit
  <1>9. ASSUME NEW l \in Loops, LoopSelect(l) PROVE TypeOK'
    BY <1>9 DEF LoopSelect, EligibleInstances
  <1>10. ASSUME NEW l \in Loops, NEW w \in Workers, LoopClaim(l, w) PROVE TypeOK'
    BY <1>10 DEF LoopClaim, Head, Ready, Reserve
  <1>11. ASSUME NEW l \in Loops, LoopNoJob(l) PROVE TypeOK'
    BY <1>11 DEF LoopNoJob
  <1>12. ASSUME PauseCampaign \/ StopCampaign PROVE TypeOK'
    BY <1>12 DEF PauseCampaign, StopCampaign, CancelLoop
  <1>13. ASSUME NEW w \in Workers, DispatchStart(w) PROVE TypeOK'
    BY <1>13 DEF DispatchStart, UpdateJobStatus, WorkerGoes
  <1>14. ASSUME NEW w \in Workers, DispatchCall(w) PROVE TypeOK'
    BY <1>14 DEF DispatchCall, WorkerGoes
  <1>15. ASSUME NEW w \in Workers, DispatchNoSession(w) PROVE TypeOK'
    BY <1>15 DEF DispatchNoSession, WorkerGoes
  <1>16. ASSUME NEW w \in Workers, DispatchPlaced(w) PROVE TypeOK'
    BY <1>16 DEF DispatchPlaced, WorkerGoes
  <1>17. ASSUME NEW w \in Workers, DispatchError(w) PROVE TypeOK'
    BY <1>17 DEF DispatchError, WorkerGoes
  <1>18. ASSUME NEW w \in Workers, DispatchRinging(w) PROVE TypeOK'
    BY <1>18 DEF DispatchRinging, UpdateJobStatus, WorkerGoes, WorkerEnds
  <1>19. ASSUME NEW w \in Workers, DispatchAIStarting(w) PROVE TypeOK'
    BY <1>19 DEF DispatchAIStarting, UpdateJobStatus, WorkerGoes
  <1>20. ASSUME NEW w \in Workers, DispatchGreeting(w) PROVE TypeOK'
    BY <1>20 DEF DispatchGreeting, UpdateJobStatus, WorkerEnds
  <1>21. ASSUME NEW w \in Workers, DispatchFailed(w) PROVE TypeOK'
    BY <1>21 DEF DispatchFailed, UpdateJobStatus, WorkerGoes
  <1>22. ASSUME NEW w \in Workers, DispatchRetry(w) PROVE TypeOK'
    BY <1>22 DEF DispatchRetry, HandleRetry, WorkerEnds
  <1>23. CASE UNCHANGED vars
    BY <1>23 DEF vars
  <1> QED
    BY <1>1, <1>2, <1>3, <1>4, <1>5, <1>6, <1>7, <1>8, <1>9, <1>10, <1>11, <1>12,
       <1>13, <1>14, <1>15, <1>16, <1>17, <1>18, <1>19, <1>20, <1>21, <1>22, <1>23
       DEF Next, LoopStep, DispatchStep

-----------------------------------------------------------------------------
(* Safety *)

\* What Inv says beyond the types.
Rest == Working /\ Choosing /\ ClaimedOnce /\ NoLockedHead /\ Counting /\ Placed /\ Running

\* Every step of the loops, the dispatches and the API keeps the inductive invariant.
LEMMA InvStep == Inv /\ TypeOK' /\ [Next]_vars => Inv'
  <1> SUFFICES ASSUME Inv, TypeOK', [Next]_vars PROVE Rest'
    BY DEF Inv, Rest
  <1> USE NumbersAssumption, NamesAssumption
      DEF Inv, Rest, Working, Choosing, ClaimedOnce, NoLockedHead, Counting, Placed, Running,
          TypeOK, scheduler, lines, queue, dispatch, history, Statuses, Eligible,
          InProgress
  <1>1. ASSUME NEW batch \in SUBSET Jobs, Enqueue(batch) PROVE Rest'
    BY <1>1 DEF Enqueue
  <1>2. ASSUME NEW j \in Jobs, BackoffOver(j) PROVE Rest'
    BY <1>2 DEF BackoffOver
  <1>3. ASSUME NEW i \in Instances, CooldownOver(i) PROVE Rest'
    BY <1>3 DEF CooldownOver
  <1>4. ASSUME NEW i \in Instances, Disconnect(i) PROVE Rest'
    BY <1>4 DEF Disconnect
  <1>5. ASSUME NEW i \in Instances, Connect(i) PROVE Rest'
    BY <1>5 DEF Connect
  <1>6. ASSUME NEW k \in live, CallEnds(k) PROVE Rest'
    BY <1>6 DEF CallEnds
  <1>7. ASSUME NEW l \in Loops, StartCampaign(l) PROVE Rest'
    BY <1>7 DEF StartCampaign
  <1>8. ASSUME NEW l \in Loops, LoopExit(l) PROVE Rest'
    BY <1>8 DEF LoopExit
  <1>9. ASSUME NEW l \in Loops, LoopSelect(l) PROVE Rest'
    BY <1>9 DEF LoopSelect, EligibleInstances
  <1>10. ASSUME NEW l \in Loops, NEW w \in Workers, LoopClaim(l, w) PROVE Rest'
    <2>1. Working' /\ Choosing'
      BY <1>10 DEF LoopClaim, Head, Ready, Reserve
    <2>2. ClaimedOnce'
      BY <1>10 DEF LoopClaim, Head, Ready, Reserve
    <2>3. NoLockedHead'
      BY <1>10 DEF LoopClaim, Head, Ready, Reserve
    <2>4. Counting'
      BY <1>10 DEF LoopClaim, Head, Ready, Reserve
    <2>5. Placed'
      BY <1>10 DEF LoopClaim, Head, Ready, Reserve
    <2>6. Running'
      BY <1>10 DEF LoopClaim
    <2> QED
      BY <2>1, <2>2, <2>3, <2>4, <2>5, <2>6
  <1>11. ASSUME NEW l \in Loops, LoopNoJob(l) PROVE Rest'
    BY <1>11 DEF LoopNoJob
  <1>12. ASSUME PauseCampaign \/ StopCampaign PROVE Rest'
    BY <1>12 DEF PauseCampaign, StopCampaign, CancelLoop
  <1>13. ASSUME NEW w \in Workers, DispatchStart(w) PROVE Rest'
    BY <1>13 DEF DispatchStart, UpdateJobStatus, WorkerGoes
  <1>14. ASSUME NEW w \in Workers, DispatchCall(w) PROVE Rest'
    BY <1>14 DEF DispatchCall, WorkerGoes
  <1>15. ASSUME NEW w \in Workers, DispatchNoSession(w) PROVE Rest'
    BY <1>15 DEF DispatchNoSession, WorkerGoes
  <1>16. ASSUME NEW w \in Workers, DispatchPlaced(w) PROVE Rest'
    BY <1>16 DEF DispatchPlaced, WorkerGoes
  <1>17. ASSUME NEW w \in Workers, DispatchError(w) PROVE Rest'
    BY <1>17 DEF DispatchError, WorkerGoes
  <1>18. ASSUME NEW w \in Workers, DispatchRinging(w) PROVE Rest'
    BY <1>18 DEF DispatchRinging, UpdateJobStatus, WorkerGoes, WorkerEnds
  <1>19. ASSUME NEW w \in Workers, DispatchAIStarting(w) PROVE Rest'
    BY <1>19 DEF DispatchAIStarting, UpdateJobStatus, WorkerGoes
  <1>20. ASSUME NEW w \in Workers, DispatchGreeting(w) PROVE Rest'
    BY <1>20 DEF DispatchGreeting, UpdateJobStatus, WorkerEnds
  <1>21. ASSUME NEW w \in Workers, DispatchFailed(w) PROVE Rest'
    BY <1>21 DEF DispatchFailed, UpdateJobStatus, WorkerGoes
  <1>22. ASSUME NEW w \in Workers, DispatchRetry(w) PROVE Rest'
    BY <1>22 DEF DispatchRetry, HandleRetry, WorkerEnds
  <1>23. CASE UNCHANGED vars
    BY <1>23 DEF vars
  <1> QED
    BY <1>1, <1>2, <1>3, <1>4, <1>5, <1>6, <1>7, <1>8, <1>9, <1>10, <1>11, <1>12,
       <1>13, <1>14, <1>15, <1>16, <1>17, <1>18, <1>19, <1>20, <1>21, <1>22, <1>23
       DEF Next, LoopStep, DispatchStep

\* The inductive invariant holds before the campaign is started.
LEMMA InvInit == Init => Inv
  <1> SUFFICES ASSUME Init PROVE Inv
    OBVIOUS
  <1>1. TypeOK
    BY TypeInit
  <1>2. Working /\ Choosing /\ ClaimedOnce /\ NoLockedHead /\ Placed
    BY DEF Init, Working, Choosing, ClaimedOnce, NoLockedHead, Placed
  <1>3. Counting /\ Running
    BY NumbersAssumption DEF Init, Counting, Running
  <1> QED
    BY <1>1, <1>2, <1>3 DEF Inv

\* The inductive invariant holds in every reachable state.
THEOREM Invariance == Spec => []Inv
  <1>1. Inv /\ [Next]_vars => Inv'
    BY InvStep, TypeStep DEF Inv
  <1> QED
    BY <1>1, InvInit, PTL DEF Spec

\* The scheduler, the queue and the dispatches keep their types.
THEOREM TypeCorrect == Spec => []TypeOK
  <1>1. Inv => TypeOK
    BY DEF Inv
  <1> QED
    BY <1>1, Invariance, PTL

\* Two dispatches never work on the same lead, whatever loops have claimed it.
THEOREM LeadsClaimedOnce == Spec => []ClaimedOnce
  <1>1. Inv => ClaimedOnce
    BY DEF Inv
  <1> QED
    BY <1>1, Invariance, PTL

\* NextJob never meets a lead whose lock is held, so the queue never blocks on one.
THEOREM HeadIsNeverLocked == Spec => []NoLockedHead
  <1>1. Inv => NoLockedHead
    BY DEF Inv
  <1> QED
    BY <1>1, Invariance, PTL

\* No lead is dialled more often than the campaign's attempts allow.
THEOREM DialsAreBounded == Spec => []DialsBounded
  <1>1. Inv => DialsBounded
    BY NumbersAssumption DEF Inv, TypeOK, Counting, DialsBounded
  <1> QED
    BY <1>1, Invariance, PTL

\* A campaign that is listed as running has a loop that is not cancelled.
THEOREM RunningCampaignsHaveALoop == Spec => []RunningHasLoop
  <1>1. Inv => RunningHasLoop
    BY DEF Inv, Running, RunningHasLoop
  <1> QED
    BY <1>1, Invariance, PTL

\* Only DispatchCall dials, and never a lead whose call was placed.
LEMMA CalledStep == Inv /\ [Next]_vars => \A j \in placed : dials'[j] = dials[j]
  <1> SUFFICES ASSUME Inv, [Next]_vars, NEW j \in placed PROVE dials'[j] = dials[j]
    OBVIOUS
  <1>1. UNCHANGED dials \/ \E w \in Workers : DispatchCall(w)
    BY DEF Next, LoopStep, DispatchStep, vars, history, Enqueue, BackoffOver,
           CooldownOver, Disconnect, Connect, CallEnds, StartCampaign, LoopExit,
           LoopSelect, LoopClaim, LoopNoJob, PauseCampaign, StopCampaign, CancelLoop,
           DispatchStart, DispatchNoSession, DispatchPlaced, DispatchError,
           DispatchRinging, DispatchAIStarting, DispatchGreeting, DispatchFailed,
           DispatchRetry
  <1>2. CASE UNCHANGED dials
    BY <1>2
  <1>3. ASSUME NEW w \in Workers, DispatchCall(w) PROVE dials'[j] = dials[j]
    <2>1. worker[w] = "call" /\ dials' = [dials EXCEPT ![task[w]] = @ + 1]
      BY <1>3 DEF DispatchCall, WorkerGoes
    <2>2. task[w] # j
      BY <2>1 DEF Inv, Placed
    <2> QED
      BY <2>1, <2>2 DEF Inv, TypeOK
  <1> QED
    BY <1>1, <1>2, <1>3

\* A lead whose call was placed is not dialled again, in any behaviour.
THEOREM LeadsCalledOnce == Spec => CalledOnce
  BY CalledStep, Invariance, PTL DEF Spec, CalledOnce

-----------------------------------------------------------------------------
(* The dialer's part of a Campaign *)

campaignVars == <<vars, orchestration, ledgerVars, part>>

LEMMA CampaignIsDialerStep == [CampaignNext]_campaignVars => [Next]_vars
  <1> SUFFICES ASSUME CampaignNext PROVE [Next]_vars
    BY DEF campaignVars
  <1>1. CASE \E r \in Executions : EnqueueStep(r)
    <2>1. PICK r \in Executions : EnqueueStep(r)
      BY <1>1
    <2>2. CASE LeadsOf[r] = {}
      BY <2>1, <2>2 DEF EnqueueStep
    <2>3. CASE LeadsOf[r] # {}
      <3>1. LeadsOf[r] \in SUBSET Jobs
        BY CampaignAssumption
      <3> QED
        BY <2>1, <2>3, <3>1 DEF EnqueueStep, Next
    <2> QED
      BY <2>2, <2>3
  <1>2. CASE DialStep
    BY <1>2 DEF DialStep
  <1>3. CASE \E r \in Executions : ExecuteStep(r)
    BY <1>3 DEF ExecuteStep
  <1>4. CASE UNCHANGED vars
    BY <1>4
  <1> QED
    BY <1>1, <1>2, <1>3, <1>4 DEF CampaignNext, CampaignStep

\* Whatever requests come, the campaign's dialer behaves as the dialer alone does.
THEOREM CampaignImplementsDialer == CampaignSpec => Spec
  BY CampaignIsDialerStep, PTL DEF CampaignSpec, CampaignInit, campaignVars, Spec

\* Two dispatches never work on one lead, however it came into the queue.
THEOREM CampaignClaimsOnce == CampaignSpec => []ClaimedOnce
  BY CampaignImplementsDialer, LeadsClaimedOnce, PTL

\* A lead whose call was placed is not dialled again, by no request and no loop.
THEOREM CampaignCallsOnce == CampaignSpec => CalledOnce
  BY CampaignImplementsDialer, LeadsCalledOnce, PTL

-----------------------------------------------------------------------------
(* The requests' part *)

Registered == {"create", "queue", "run", "enqueue", "complete", "done"}

\* A request that goes on has taken its key, and no other one with that key goes on.
KeysTaken ==
    /\ at \in [Executions -> {"idle", "refused", "duplicate"} \cup Registered]
    /\ \A r \in Executions : at[r] \in Registered => Scope(r) \in keys
    /\ \A r, s \in Executions :
           at[r] \in Registered /\ at[s] \in Registered /\ r # s => Scope(r) # Scope(s)
    /\ \A r \in enqueued : r \in Executions /\ at[r] \in Registered

LEMMA KeysTakenInit == OrchestrationInit => KeysTaken
  BY DEF OrchestrationInit, KeysTaken, Registered

LEMMA GoesKeeps ==
    ASSUME KeysTaken, NEW r \in Executions, NEW from \in Registered, NEW to \in Registered,
           RequestGoes(r, from, to), UNCHANGED keys, enqueued' \subseteq enqueued \cup {r}
    PROVE  KeysTaken'
  <1>1. /\ at' = [at EXCEPT ![r] = to] /\ at[r] = from
        /\ at \in [Executions -> {"idle", "refused", "duplicate"} \cup Registered]
    BY DEF RequestGoes, KeysTaken
  <1>2. \A s \in Executions : at'[s] \in Registered <=> at[s] \in Registered
    BY <1>1
  <1>3. at' \in [Executions -> {"idle", "refused", "duplicate"} \cup Registered]
    BY <1>1
  <1>4. \A s \in enqueued' : s \in Executions /\ at'[s] \in Registered
    BY <1>1, <1>2 DEF KeysTaken
  <1> QED
    BY <1>2, <1>3, <1>4 DEF KeysTaken, Scope

LEMMA CheckKeeps ==
    ASSUME KeysTaken, NEW r \in Executions, CheckOrRegister(r)
    PROVE  KeysTaken'
  <1> DEFINE to == IF Contract[r].key = NoKey THEN "refused"
                   ELSE IF KeyTaken(r) THEN "duplicate" ELSE "create"
  <1>1. at[r] = "idle" /\ at' = [at EXCEPT ![r] = to] /\ enqueued' = enqueued
    BY DEF CheckOrRegister, RequestGoes
  <1>2. at \in [Executions -> {"idle", "refused", "duplicate"} \cup Registered]
    BY DEF KeysTaken
  <1>3. at[r] \notin Registered /\ r \notin enqueued
    BY <1>1 DEF KeysTaken, Registered
  <1>4. CASE to = "create"
    <2>1. keys' = keys \cup {Scope(r)} /\ Scope(r) \notin keys
      BY <1>4 DEF CheckOrRegister, KeyTaken
    <2>2. \A s \in Executions : at'[s] \in Registered => s = r \/ at[s] \in Registered
      BY <1>1, <1>2
    <2>3. \A s \in Executions : at[s] \in Registered => Scope(s) # Scope(r)
      BY <2>1 DEF KeysTaken
    <2>4. \A s \in Executions : at[s] \in Registered => at'[s] \in Registered
      BY <1>1, <1>2, <1>3
    <2>5. at' \in [Executions -> {"idle", "refused", "duplicate"} \cup Registered]
      BY <1>1, <1>2, <1>4 DEF Registered
    <2> QED
      BY <1>1, <2>1, <2>2, <2>3, <2>4, <2>5 DEF KeysTaken, Scope
  <1>5. CASE to # "create"
    <2>1. keys \subseteq keys'
      BY DEF CheckOrRegister
    <2>2. \A s \in Executions : at'[s] \in Registered <=> at[s] \in Registered
      BY <1>1, <1>2, <1>3, <1>5 DEF Registered
    <2>3. at' \in [Executions -> {"idle", "refused", "duplicate"} \cup Registered]
      BY <1>1, <1>2, <1>5
    <2> QED
      BY <1>1, <2>1, <2>2, <2>3 DEF KeysTaken, Scope
  <1> QED
    BY <1>4, <1>5

LEMMA KeysTakenStep == KeysTaken /\ [CampaignNext]_campaignVars => KeysTaken'
  <1> SUFFICES ASSUME KeysTaken, [CampaignNext]_campaignVars PROVE KeysTaken'
    OBVIOUS
  <1>1. CASE UNCHANGED orchestration
    BY <1>1 DEF KeysTaken, orchestration, Scope
  <1>2. ASSUME NEW r \in Executions, EnqueueStep(r) PROVE KeysTaken'
    BY <1>2, GoesKeeps DEF EnqueueStep, EnqueueLeads, Registered
  <1>3. ASSUME NEW r \in Executions, ExecuteStep(r) PROVE KeysTaken'
    <2>1. CASE CheckOrRegister(r)
      BY <2>1, CheckKeeps
    <2>2. CASE CreateJob(r)
      BY <2>2, GoesKeeps DEF CreateJob, Registered
    <2>3. CASE QueueJob(r)
      BY <2>3, GoesKeeps DEF QueueJob, Registered
    <2>4. CASE RunJob(r)
      BY <2>4, GoesKeeps DEF RunJob, Registered
    <2>5. CASE CompleteJob(r)
      BY <2>5, GoesKeeps DEF CompleteJob, Registered
    <2> QED
      BY <1>3, <2>1, <2>2, <2>3, <2>4, <2>5 DEF ExecuteStep, Execute
  <1>4. \/ UNCHANGED orchestration
        \/ \E r \in Executions : EnqueueStep(r) \/ ExecuteStep(r)
    BY DEF CampaignNext, CampaignStep, DialStep, campaignVars
  <1> QED
    BY <1>1, <1>2, <1>3, <1>4

\* A request that is sent again enqueues nothing, whenever it comes and whatever the other
\* requests do (CheckOrRegister).
THEOREM KeysEnqueueOnce == CampaignSpec => []EnqueuedOnce
  <1>1. CampaignInit => KeysTaken
    BY KeysTakenInit DEF CampaignInit
  <1>2. KeysTaken => EnqueuedOnce
    BY DEF KeysTaken, EnqueuedOnce
  <1> QED
    BY <1>1, <1>2, KeysTakenStep, PTL DEF CampaignSpec, campaignVars

-----------------------------------------------------------------------------
(* The breaker *)

Counted ==
    /\ breaker \in {"CLOSED", "OPEN", "HALF-OPEN"}
    /\ failed \in Nat
    /\ BreakerAgrees

LEMMA CountedStep == Counted /\ [CampaignNext]_campaignVars => Counted'
  <1> SUFFICES ASSUME Counted, [CampaignNext]_campaignVars PROVE Counted'
    OBVIOUS
  <1> USE LedgerAssumption DEF Counted, BreakerAgrees
  <1>1. CASE UNCHANGED <<breaker, failed>>
    BY <1>1
  <1>2. ASSUME NEW c \in Probes, Check(c) PROVE Counted'
    BY <1>2 DEF Check
  <1>3. ASSUME NEW c \in Probes, RecordSuccess(c) PROVE Counted'
    BY <1>3 DEF RecordSuccess, AfterSuccess
  <1>4. ASSUME NEW c \in Probes, RecordFailure(c) PROVE Counted'
    BY <1>4 DEF RecordFailure
  <1>5. \/ UNCHANGED <<breaker, failed>>
        \/ \E c \in Probes : Check(c) \/ RecordSuccess(c) \/ RecordFailure(c)
    BY DEF CampaignNext, LedgerNext, Cooldown, RecordCost, RecordTransaction, campaignVars,
           ledgerVars, circuit
  <1> QED
    BY <1>1, <1>2, <1>3, <1>4, <1>5

\* The breaker is closed exactly while its failures are below the threshold, for any
\* threshold and however late the calls report.
THEOREM BreakerGoesByCount == CampaignSpec => []BreakerAgrees
  <1>1. CampaignInit => Counted
    BY LedgerAssumption DEF CampaignInit, LedgerInit, Counted, BreakerAgrees
  <1>2. Counted => BreakerAgrees
    BY DEF Counted
  <1> QED
    BY <1>1, <1>2, CountedStep, PTL DEF CampaignSpec, campaignVars

-----------------------------------------------------------------------------
(* The costs *)

Charged(j) == {t \in booked : t.job = j /\ (t.kind = "cost" \/ t.billable)}

\* What is booked has an id of its own, the ids that are recorded are those of what is
\* booked, and a job's sum counts what was charged to it.
Booking ==
    /\ booked \subseteq Reports /\ IsFiniteSet(booked)
    /\ recorded = {EventId(t) : t \in booked}
    /\ \A t, u \in booked : EventId(t) = EventId(u) => t = u
    /\ costs \in [BilledJobs -> Nat]
    /\ \A j \in BilledJobs : costs[j] = Cardinality(Charged(j))

LEMMA BookingInit == LedgerInit => Booking
  <1> SUFFICES ASSUME LedgerInit PROVE Booking
    OBVIOUS
  <1>1. booked = {} /\ recorded = {} /\ costs = [j \in BilledJobs |-> 0]
    BY DEF LedgerInit
  <1>2. \A j : Charged(j) = {}
    BY <1>1 DEF Charged
  <1> QED
    BY <1>1, <1>2, FS_EmptySet DEF Booking

\* A report that is booked brings an id that was not there.
LEMMA BookingGrows ==
    ASSUME Booking, NEW t \in Reports, EventId(t) \notin recorded,
           recorded' = recorded \cup {EventId(t)}, booked' = booked \cup {t}
    PROVE  /\ t \notin booked
           /\ booked' \subseteq Reports /\ IsFiniteSet(booked')
           /\ recorded' = {EventId(u) : u \in booked'}
           /\ \A u, v \in booked' : EventId(u) = EventId(v) => u = v
  <1>1. t \notin booked
    BY DEF Booking
  <1>2. booked' \subseteq Reports
    BY DEF Booking
  <1>3. IsFiniteSet(booked')
    BY FS_AddElement DEF Booking
  <1>4. recorded' = {EventId(u) : u \in booked'}
    BY DEF Booking
  <1>5. \A u \in booked : EventId(u) # EventId(t)
    BY DEF Booking
  <1>6. \A u, v \in booked' : EventId(u) = EventId(v) => u = v
    BY <1>5 DEF Booking
  <1> QED
    BY <1>1, <1>2, <1>3, <1>4, <1>6

\* The sum of a job goes up by one with a report that is charged to it.
LEMMA SumGrows ==
    ASSUME Booking, NEW t \in Reports, t \notin booked, t.kind = "cost" \/ t.billable,
           booked' = booked \cup {t}, costs' = [costs EXCEPT ![t.job] = costs[t.job] + 1]
    PROVE  /\ costs' \in [BilledJobs -> Nat]
           /\ \A j \in BilledJobs : costs'[j] = Cardinality(Charged(j)')
  <1>1. t.job \in BilledJobs /\ costs \in [BilledJobs -> Nat]
    BY DEF BilledJobs, Booking
  <1>2. costs' \in [BilledJobs -> Nat]
    BY <1>1
  <1>3. ASSUME NEW j \in BilledJobs PROVE costs'[j] = Cardinality(Charged(j)')
    <2>1. IsFiniteSet(Charged(j))
      BY FS_Subset DEF Booking, Charged
    <2>2. costs[j] = Cardinality(Charged(j))
      BY DEF Booking
    <2>3. CASE j = t.job
      <3>1. Charged(j)' = Charged(j) \cup {t} /\ t \notin Charged(j)
        BY <2>3 DEF Charged
      <3>2. Cardinality(Charged(j)') = Cardinality(Charged(j)) + 1
        BY <2>1, <3>1, FS_AddElement
      <3> QED
        BY <1>1, <2>2, <2>3, <3>2
    <2>4. CASE j # t.job
      <3>1. Charged(j)' = Charged(j)
        BY <2>4 DEF Charged
      <3> QED
        BY <1>1, <2>2, <2>4, <3>1
    <2> QED
      BY <2>3, <2>4
  <1> QED
    BY <1>2, <1>3

LEMMA BookingStep == Booking /\ [CampaignNext]_campaignVars => Booking'
  <1> SUFFICES ASSUME Booking, [CampaignNext]_campaignVars PROVE Booking'
    OBVIOUS
  <1>1. CASE UNCHANGED <<recorded, costs, booked>>
    BY <1>1 DEF Booking, Charged
  <1>2. ASSUME NEW t \in Reports, RecordCost(t) PROVE Booking'
    <2>1. /\ t.kind = "cost" /\ EventId(t) \notin recorded
          /\ recorded' = recorded \cup {EventId(t)} /\ booked' = booked \cup {t}
          /\ costs' = [costs EXCEPT ![t.job] = costs[t.job] + 1]
      BY <1>2 DEF RecordCost
    <2> QED
      BY <2>1, BookingGrows, SumGrows DEF Booking
  <1>3. ASSUME NEW t \in Reports, RecordTransaction(t) PROVE Booking'
    <2>1. /\ t.kind = "transaction" /\ EventId(t) \notin recorded
          /\ recorded' = recorded \cup {EventId(t)} /\ booked' = booked \cup {t}
      BY <1>3 DEF RecordTransaction
    <2>2. CASE t.billable
      <3>1. costs' = [costs EXCEPT ![t.job] = costs[t.job] + 1]
        BY <1>3, <2>2 DEF RecordTransaction
      <3> QED
        BY <2>1, <2>2, <3>1, BookingGrows, SumGrows DEF Booking
    <2>3. CASE ~t.billable
      <3>1. costs' = costs
        BY <1>3, <2>3 DEF RecordTransaction
      <3>2. \A j \in BilledJobs : Charged(j)' = Charged(j)
        BY <2>1, <2>3 DEF Charged
      <3> QED
        BY <2>1, <3>1, <3>2, BookingGrows DEF Booking
    <2> QED
      BY <2>2, <2>3
  <1>4. \/ UNCHANGED <<recorded, costs, booked>>
        \/ \E t \in Reports : RecordCost(t) \/ RecordTransaction(t)
    BY DEF CampaignNext, LedgerNext, Cooldown, Check, RecordSuccess, RecordFailure, campaignVars,
           ledgerVars, ledger
  <1> QED
    BY <1>1, <1>2, <1>3, <1>4

\* The sum of a job counts the reports of it that were booked and are charged.
SumsAgree == \A j \in BilledJobs : costs[j] = Cardinality(Charged(j))

\* No report is charged twice and none that was booked is left out of its job's sum, whatever
\* ids the reports have and in whichever order they come (RecordCost, RecordTransaction).
THEOREM SumsAreOfBookings == CampaignSpec => []SumsAgree
  <1>1. CampaignInit => Booking
    BY BookingInit DEF CampaignInit
  <1>2. Booking => SumsAgree
    BY DEF Booking, SumsAgree
  <1> QED
    BY <1>1, <1>2, BookingStep, PTL DEF CampaignSpec, campaignVars

\* The callers' part: the reports of a call go by one id, which is not that of another call.
\* RecordTransaction falls back to the call for it, RecordCost to the job, so that costs
\* without an id must be of the only call of their job.
OneIdPerCall == \A t, u \in Reports : EventId(t) = EventId(u) <=> t.call = u.call

\* Of the reports of a call exactly one is booked, the sums are those of what was booked, and
\* what is refused is a repetition, for any callers that keep to one id for each call
\* (RecordCost, RecordTransaction).
THEOREM CallsAreBookedOnce == OneIdPerCall /\ CampaignSpec => []BookedExactly
  <1>1. CampaignInit => Booking
    BY BookingInit DEF CampaignInit
  <1>2. OneIdPerCall /\ Booking => BookedExactly
    <2> SUFFICES ASSUME OneIdPerCall, Booking PROVE BookedExactly
      OBVIOUS
    <2>1. \A t, u \in booked : t # u => t.call # u.call
      BY DEF Booking, OneIdPerCall
    <2>2. \A t \in Reports : EventId(t) \in recorded => \E u \in booked : u.call = t.call
      BY DEF Booking, OneIdPerCall
    <2>3. \A j \in BilledJobs : costs[j]
              = Cardinality({t \in booked : t.job = j /\ (t.kind = "cost" \/ t.billable)})
      BY DEF Booking, Charged
    <2> QED
      BY <2>1, <2>2, <2>3 DEF BookedExactly
  <1>3. OneIdPerCall /\ Booking /\ [CampaignNext]_campaignVars => (OneIdPerCall /\ Booking)'
    BY BookingStep DEF OneIdPerCall, EventId
  <1> QED
    BY <1>1, <1>2, <1>3, PTL DEF CampaignSpec, campaignVars
=============================================================================
