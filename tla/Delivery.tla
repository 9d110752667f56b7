------------------------------ MODULE Delivery ------------------------------
(***************************************************************************)
(* What the bridge to Chatwoot promises a message of WhatsApp: once a      *)
(* delivery has begun, the message is delivered, or kept for another try,  *)
(* or given up for dead after its last one.  Only a fault can lose it, and *)
(* only before it is kept; what is kept survives faults and leaves only    *)
(* delivered, dead, or with its session.                                   *)
(***************************************************************************)
EXTENDS Naturals

CONSTANT Msgs

VARIABLES status,   \* "none", "trying", "kept", "dead" or "done"
          faults,   \* how many faults there have been
          removed   \* the session is gone

vars == <<status, faults, removed>>

Init == status = [m \in Msgs |-> "none"] /\ faults = 0 /\ removed = FALSE

Become(m, s) == status' = [status EXCEPT ![m] = s] /\ UNCHANGED removed

\* An event of the message arrives.
Try(m) == status[m] = "none" /\ Become(m, "trying") /\ UNCHANGED faults

\* It is delivered: by the first try, from the outbox, or by an import.
Finish(m) == status[m] # "done" /\ Become(m, "done") /\ UNCHANGED faults

\* A try has failed, or a message that was dead is tried and fails once more.
Keep(m) == status[m] \in {"trying", "dead"} /\ Become(m, "kept") /\ UNCHANGED faults

GiveUp(m) == status[m] = "kept" /\ Become(m, "dead") /\ UNCHANGED faults

\* Faults lose what is on its way and nothing else.
Fault ==
    /\ faults' = faults + 1 /\ UNCHANGED removed
    /\ \E M \in SUBSET {m \in Msgs : status[m] = "trying"} :
          status' = [m \in Msgs |-> IF m \in M THEN "none" ELSE status[m]]

\* The outbox of a session that is deleted is emptied.
Remove ==
    /\ ~removed /\ removed' = TRUE /\ UNCHANGED faults
    /\ \E M \in SUBSET {m \in Msgs : status[m] \in {"kept", "dead"}} :
          status' = [m \in Msgs |-> IF m \in M THEN "trying"
                                    ELSE IF status[m] \in {"kept", "dead"} THEN "none"
                                    ELSE status[m]]

Next == Fault \/ Remove \/ \E m \in Msgs : Try(m) \/ Finish(m) \/ Keep(m) \/ GiveUp(m)

Spec == Init /\ [][Next]_vars
=============================================================================
