----------------------------- MODULE MCCampaign -----------------------------
(* Instances of Campaign for TLC. *)
EXTENDS Campaign, TLC

CONSTANTS j1, j2, e1, e2

OneBatch == [j \in Jobs |-> IF j = j1 THEN 0 ELSE 1]

\* A request and the same sent again.
Asked == (e1 :> [tenant |-> "A", key |-> "k1", job |-> "x"])
      @@ (e2 :> [tenant |-> "A", key |-> "k1", job |-> NoId])
Leads == (e1 :> Jobs) @@ (e2 :> {})

\* A call that is reported twice, and two more of its job.
Costs == {[kind |-> "transaction", event |-> "", call |-> "c1", job |-> "J", tenant |-> "A", billable |-> TRUE],
          [kind |-> "cost", event |-> "c1", call |-> "c1", job |-> "J", tenant |-> "A", billable |-> TRUE],
          [kind |-> "transaction", event |-> "v2", call |-> "c2", job |-> "J", tenant |-> "A", billable |-> FALSE],
          [kind |-> "transaction", event |-> "", call |-> "c3", job |-> "J", tenant |-> "A", billable |-> TRUE]}

Symmetry == Permutations(Instances) \cup Permutations(Loops) \cup Permutations(Workers)
=============================================================================
