------------------------------- MODULE RelayView -------------------------------
(***************************************************************************)
(* What SctpRelayManager promises the call manager: the relays it lists    *)
(* open or close one at a time, never more than MaxOpen of them are open,  *)
(* and every opening is followed by one call of onConnected.               *)
(***************************************************************************)
EXTENDS Naturals, FiniteSets

CONSTANTS Endpoints, MaxOpen

VARIABLES
    view,      \* each endpoint: none, connecting or open
    reports,   \* openings that onConnected has not been called for
    crashed    \* the process has panicked

vars == <<view, reports, crashed>>

Init ==
    /\ view = [e \in Endpoints |-> "none"]
    /\ reports = 0
    /\ crashed = FALSE

HasRoom == Cardinality({e \in Endpoints : view[e] = "open"}) < MaxOpen

\* Two dials of one endpoint may overlap: the later one replaces the earlier.
Dial(e) ==
    /\ view[e] \in {"none", "open"}
    /\ view' = [view EXCEPT ![e] = "connecting"]
    /\ UNCHANGED <<reports, crashed>>

Open(e) ==
    /\ view[e] = "connecting" /\ HasRoom
    /\ view' = [view EXCEPT ![e] = "open"]
    /\ reports' = reports + 1
    /\ UNCHANGED crashed

\* A connection that is no longer listed may still open, and is reported too.
OpenUnlisted ==
    /\ HasRoom
    /\ reports' = reports + 1
    /\ UNCHANGED <<view, crashed>>

Lose(e) ==
    /\ view[e] # "none"
    /\ view' = [view EXCEPT ![e] = "none"]
    /\ UNCHANGED <<reports, crashed>>

Report ==
    /\ ~crashed /\ reports > 0
    /\ reports' = reports - 1
    /\ UNCHANGED <<view, crashed>>

Cleanup ==
    /\ view' = [e \in Endpoints |-> "none"]
    /\ UNCHANGED <<reports, crashed>>

Panic == crashed' = TRUE /\ UNCHANGED <<view, reports>>

Next ==
    \/ \E e \in Endpoints : Dial(e) \/ Open(e) \/ Lose(e)
    \/ OpenUnlisted \/ Report \/ Cleanup \/ Panic

Spec == Init /\ [][Next]_vars /\ WF_vars(Report)
=============================================================================
