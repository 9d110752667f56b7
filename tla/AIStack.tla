------------------------------ MODULE AIStack ------------------------------
(***************************************************************************)
(* The AI layer of the server: a session (AISession) or the fabric         *)
(* (Fabric), which share no state in the server.  A behaviour is about one *)
(* of them.                                                                *)
(***************************************************************************)
EXTENDS AISession, Fabric

VARIABLE part

StackTypeOK == TypeOK /\ FabricTypeOK /\ part \in {"session", "fabric"}

StackInit == Init /\ FabricInit /\ part \in {"session", "fabric"}

StackNext ==
    /\ UNCHANGED part
    /\ \/ part = "session" /\ Next /\ UNCHANGED fabricVars
       \/ part = "fabric" /\ FabricNext /\ UNCHANGED vars

StackSpec == StackInit /\ [][StackNext]_<<vars, fabricVars, part>> /\ Fairness
=============================================================================
