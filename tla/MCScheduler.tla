----------------------------- MODULE MCScheduler -----------------------------
(* Instances of Scheduler for TLC. *)
EXTENDS Scheduler

\* Dequeuing goroutines are interchangeable.
mcSymmetry == Permutations(Dequeuers)

\* Two goroutines that admit the same unit could go on adding replicas.
mcBounded == \A k \in DOMAIN api : \A n \in PodSets : Admitted(api[k], n) <= MaxReplicas

\* A slice that is out of order could go on collecting stale entries: what
\* follows the first one is left out.
mcListed == Len(queue) <= Cardinality(Keys)

mcNil == {<<>>}
mcTwoPriorities == {<<0>>, <<1>>}
mcOneOfA == {[n \in PodSets |-> 1]}
mcUpToTwo == {[n \in PodSets |-> 1], [n \in PodSets |-> 2]}
mcTwo == {[n \in PodSets |-> 2]}
mcSameQuota == [k \in Keys |-> "q1"]

mcConf(blocked, wait, preempt, deep) ==
  [blocked |-> blocked, waitPodsRunning |-> wait, enablePreempt |-> preempt, maxDepth |-> deep]

mcPriority == {mcConf(FALSE, FALSE, FALSE, 0)}
mcBothPolicies == {mcConf(FALSE, FALSE, FALSE, 0), mcConf(TRUE, FALSE, FALSE, 1)}
mcWait == {mcConf(FALSE, TRUE, TRUE, 0)}
mcLive == mcPriority \cup mcWait
mcAll == {mcConf(FALSE, FALSE, FALSE, 0), mcConf(TRUE, FALSE, FALSE, 1), mcConf(FALSE, TRUE, TRUE, 0)}
=============================================================================
