---------------------------- MODULE MCCallAudio ----------------------------
(* Instances of CallAudio for TLC. *)
EXTENDS CallAudio, TLC

CONSTANTS b1, b2, e1, e2

Plan(k1, k2, t1, t2, r, s) ==
    [kind |-> (b1 :> k1) @@ (b2 :> k2), task |-> (e1 :> t1) @@ (e2 :> t2),
     recording |-> r, talking |-> s, holding |-> t1 = "none"]

\* Two bridges of any kind while the call is hung up or the session is torn down.
Swaps ==
    {Plan("rtc", "rtc", "teardown", "none", FALSE, FALSE), Plan("ws", "ws", "request", "none", FALSE, FALSE),
     Plan("rtc", "ws", "request", "none", FALSE, FALSE)}
\* A recorded call is hung up, here or there, while its session is torn down.
Ends == {Plan("rtc", "none", "request", "teardown", TRUE, TRUE), Plan("ws", "none", "peer", "teardown", TRUE, TRUE)}
\* Bridges are swapped, and the call is held, while both sides speak.
Talks == {Plan("ws", "ws", "none", "none", FALSE, TRUE), Plan("rtc", "none", "none", "none", FALSE, TRUE)}

AllPlans == Swaps \cup Ends \cup Talks
WsOnly == {Plan("ws", "none", "none", "none", FALSE, TRUE)}
=============================================================================
