--------------------------- MODULE MCElasticQuota ---------------------------
(* Instances of ElasticQuota for TLC. *)
EXTENDS ElasticQuota

mcAmounts == {[r \in Resources |-> n] : n \in 0..2}
mcLimits == {[r \in Resources |-> n] : n \in 1..2}
mcRequest == [u \in UnitIds |-> [r \in Resources |-> IF u = "u1" THEN 1 ELSE 2]]
mcOneQueue == [u \in UnitIds |-> 1]
mcTwoEach == [u \in UnitIds |-> [r \in Resources |-> 2]]
mcTwoQueues == [u \in UnitIds |-> IF u = "u1" THEN 1 ELSE 2]

\* root <- top <- a, b
mcTree ==
  [q \in Quotas \ {Root} |->
     [parent |-> IF q = "top" THEN Root ELSE "top",
      max |-> [r \in Resources |-> IF q = "a" THEN 1 ELSE 2]]]

mcLeaves == [u \in UnitIds |-> {"a", "b"}]
mcMoves == [u \in UnitIds |-> {"a", "top"}]
mcOwnLeaf == [u \in UnitIds |-> IF u = "u1" THEN {"a"} ELSE {"b"}]

mcNoWrites == {}

\* "a" moves between "top" and the root; "top" comes back after it was deleted.
mcWrites ==
  {[name |-> "a", parent |-> p, max |-> [r \in Resources |-> 1]] : p \in {"top", Root}}
    \cup {[name |-> "top", parent |-> Root, max |-> [r \in Resources |-> 2]]}

\* How far SelfUsed and ChildrenUsed may drift apart.
mcBounded == \A q \in DOMAIN quotas, r \in Resources : quotas[q].SelfUsed[r] \in -2..2
=============================================================================
