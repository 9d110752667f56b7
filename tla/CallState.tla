------------------------------ MODULE CallState ------------------------------
(***************************************************************************)
(* The state machine of one WhatsApp call: CallInfo.ApplyTransition of     *)
(* internal/voip/call/callstate.go.  A transition that the current state   *)
(* does not allow returns InvalidTransition and leaves the call as it is,  *)
(* so that an ignored error is a step that changes nothing.                *)
(***************************************************************************)

CallStates == {"initiating", "ringing", "incoming_ringing", "connecting",
               "active", "on_hold", "ended"}

Transitions == {"offer_sent", "offer_received", "remote_accepted",
                "local_accepted", "remote_rejected", "local_rejected",
                "media_connected", "terminated", "hold", "resume"}

\* Whether transition t may be applied in state s.
Allowed(s, t) ==
    \/ s = "initiating"       /\ t \in {"offer_sent", "offer_received"}
    \/ s = "ringing"          /\ t \in {"remote_accepted", "remote_rejected"}
    \/ s = "incoming_ringing" /\ t \in {"local_accepted", "local_rejected"}
    \/ s = "connecting"       /\ t = "media_connected"
    \/ s = "active"           /\ t = "hold"
    \/ s = "on_hold"          /\ t = "resume"
    \/ s \in CallStates \ {"ended"} /\ t = "terminated"

\* The state that a transition which is allowed leads to.
Target(t) ==
    IF t = "offer_sent" THEN "ringing"
    ELSE IF t = "offer_received" THEN "incoming_ringing"
    ELSE IF t \in {"remote_accepted", "local_accepted"} THEN "connecting"
    ELSE IF t \in {"media_connected", "resume"} THEN "active"
    ELSE IF t = "hold" THEN "on_hold"
    ELSE "ended"        \* terminated, remote_rejected, local_rejected

ApplyTransition(s, t) == IF Allowed(s, t) THEN Target(t) ELSE s

\* What the broker lists for a call in state s (mapStatus, cmd/server/session.go).
MapStatus(s) ==
    IF s \in {"active", "on_hold"} THEN "connected"
    ELSE IF s = "ended" THEN "ended"
    ELSE IF s = "initiating" THEN "starting"
    ELSE "ringing"
=============================================================================
