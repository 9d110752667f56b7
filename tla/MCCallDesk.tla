----------------------------- MODULE MCCallDesk -----------------------------
(* Instances of CallDesk and Broadcast for TLC.  No panel watches the transfer and the   *)
(* broadcast, which do not add to what a panel may miss.                                 *)
EXTENDS Broadcast, TLC

CONSTANTS c1, c2, n1, n2, k1, k2, k3

TwoNumbers == <<k1, k2>>

Does(op, k) == <<[op |-> op, call |-> k]>>
Opened(o, panels, r1, r2) ==
    [offers |-> o, open |-> panels, requests |-> (c1 :> r1) @@ (c2 :> r2)]
Work(o, r1, r2) == Opened(o, Panels, r1, r2)

\* Two clients answer, one rejects, one transfers a call to the other, which ends it.
Answer2 == Work({k1}, Does("accept", k1), Does("accept", k1))
AtWork ==
    {Answer2,
     Opened({k1}, {}, Does("accept", k1) \o Does("transfer", k1), Does("pickup", k1)),
     Work({k1}, Does("accept", k1) \o Does("hold", k1) \o Does("resume", k1), <<>>),
     Work({k1}, Does("accept", k1), Does("reject", k1)),
     Work({}, Does("start", k1), Does("end", k1)),
     Work({k1}, Does("start", k2), <<>>),
     Opened({}, {}, Does("broadcast", k1), Does("end", k1))}

Claiming == {Answer2}
Dialling2 == {Opened({}, {}, Does("broadcast", k1) \o Does("start", k3), <<>>)}
=============================================================================
