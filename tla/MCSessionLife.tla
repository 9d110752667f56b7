---------------------------- MODULE MCSessionLife ----------------------------
(* Instances of SessionLife for TLC. *)
EXTENDS SessionLife, TLC

CONSTANTS a1, a2, s1

Ask(op) == <<[op |-> op, id |-> s1, instance |-> FALSE]>>
AskI(op) == <<[op |-> op, id |-> s1, instance |-> TRUE]>>

\* A session or an instance is created, logged out, paired again and deleted by one admin,
\* or deleted while another pairs it.
Lives ==
    {(a1 :> Ask("create") \o Ask("logout") \o Ask("pair") \o Ask("delete")) @@ (a2 :> <<>>),
     (a1 :> Ask("create") \o Ask("delete")) @@ (a2 :> Ask("pairCode")),
     (a1 :> AskI("create") \o AskI("logout") \o AskI("pair")) @@ (a2 :> <<>>),
     (a1 :> AskI("create") \o AskI("delete")) @@ (a2 :> <<>>),
     (a1 :> Ask("create") \o Ask("proxy")) @@ (a2 :> <<>>)}

OneInstance == {(a1 :> AskI("create")) @@ (a2 :> <<>>)}
=============================================================================
