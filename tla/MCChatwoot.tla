------------------------------ MODULE MCChatwoot ------------------------------
(* Instances of Chatwoot for TLC. *)
EXTENDS Chatwoot, TLC

CONSTANTS m1, c1, k1

OneChat == [m \in Msgs |-> c1]

\* m1 comes up to n times; the history sync has the messages of chunk.
Alone(k, n, chunk) ==
    [kind |-> (m1 :> k), most |-> (m1 :> n),
     chunk |-> k1 :> chunk]

\* Each way a message may take, one that is imported as well, one that comes twice.
EachWay ==
    {Alone(k, 1, {}) : k \in {"group", "channel", "ownGroup", "agent", "api", "alert", "groupEvent"}}
        \cup {Alone("own", 1, {m1}), Alone("direct", 2, {})}

Agent == {Alone("agent", 1, {})}
=============================================================================
