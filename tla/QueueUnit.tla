------------------------------ MODULE QueueUnit ------------------------------
(***************************************************************************)
(* The QueueUnit API object and the predicates of pkg/utils/util.go that   *)
(* the queues, the scheduler and the quota plugin evaluate on it.          *)
(*                                                                         *)
(* A unit is a record:                                                     *)
(*   key     namespace/name                                                *)
(*   uid     which incarnation of that name it is                          *)
(*   prio    Spec.Priority: <<>> for a nil pointer, <<p>> otherwise        *)
(*   active  Spec.Active                                                   *)
(*   routed  Spec.Queue names the queue the unit is scheduled from         *)
(*   count   Spec.PodSets: how many pods each pod set asks for             *)
(*   phase   Status.Phase                                                  *)
(*   adm     Status.Admissions, keyed by pod set name; reclaim = 0 is a    *)
(*           nil ReclaimState                                              *)
(* Admission.Resources (written only for in-flight Ray workers) is left    *)
(* out, so the amount a pod set holds is its number of replicas. Every     *)
(* unit has pod sets; the older form that has only Spec.Request is not     *)
(* modelled.                                                               *)
(***************************************************************************)
EXTENDS Integers, FiniteSets, Functions, Maps

CONSTANTS Keys,        \* namespace/name of the units
          PodSets,     \* names of the pod sets of a unit
          MaxReplicas, \* bound on the pods of one pod set
          Uids,        \* incarnations of one name (naturals, in creation order)
          Priorities   \* values of Spec.Priority: <<>> and one-element sequences

Phases == {"Enqueued", "Reserved", "Dequeued", "Running", "Succeed", "Failed",
           "SchedReady", "SchedSucceed", "SchedFailed", "Backoff"}

Admission == [replicas : Nat, running : Nat, reclaim : Nat]

IsUnit(u) ==
  /\ u \in [key : Keys, uid : Uids, prio : Priorities, active : BOOLEAN, routed : BOOLEAN,
            count : [PodSets -> Nat], phase : Phases, adm : {u.adm}]
  /\ DOMAIN u.adm \subseteq PodSets
  /\ \A n \in DOMAIN u.adm : u.adm[n] \in Admission

-----------------------------------------------------------------------------
(* Predicates of pkg/utils/util.go.                                        *)

IsQueueUnitAllRunning(u) ==
  /\ DOMAIN u.adm # {}
  /\ \A n \in DOMAIN u.adm : u.adm[n].running >= u.adm[n].replicas

IsQueueUnitReservedNotRun(u) == DOMAIN u.adm # {} /\ ~IsQueueUnitAllRunning(u)

IsQueueUnitReservedAnyResource(u) ==
  \E n \in DOMAIN u.adm : u.adm[n].replicas - u.adm[n].reclaim > 0

Admitted(u, n) == IF n \in DOMAIN u.adm THEN u.adm[n].replicas ELSE 0

IsQueueUnitSatisfied(u) ==
  \A n \in PodSets : n \in DOMAIN u.adm /\ u.adm[n].replicas >= u.count[n]

IsV1VersionDequeued(u) ==
  /\ DOMAIN u.adm = {}
  /\ u.phase \in {"Dequeued", "Reserved", "Running", "SchedReady", "SchedSucceed"}

IsQueueUnitAssigned(u) ==
  \/ DOMAIN u.adm # {}
  \/ u.phase \in {"Running", "Dequeued", "Reserved", "SchedReady"}

IsQueueUnitDequeued(u) ==
  \/ IsV1VersionDequeued(u)
  \/ u.phase \in {"Succeed", "Failed"}
  \/ IsQueueUnitSatisfied(u) /\ IsQueueUnitAllRunning(u)

\* Any change in the number of admitted pod sets counts as a release.
IsResourceReleased(old, new) ==
  \/ Cardinality(DOMAIN old.adm) # Cardinality(DOMAIN new.adm)
  \/ \E n \in DOMAIN old.adm : Admitted(new, n) < old.adm[n].replicas

podSetsChanged(old, new) == old.count # new.count

isAdmissionChanged(old, new) ==
  \/ DOMAIN old.adm # DOMAIN new.adm
  \/ \E n \in DOMAIN new.adm :
        \/ old.adm[n].running # new.adm[n].running
        \/ old.adm[n].replicas # new.adm[n].replicas

\* Spec.Priority is a pointer and the two objects of an informer update are
\* distinct, so the pointers are equal only when both are nil.
samePriorityPointer(old, new) == old.prio = <<>> /\ new.prio = <<>>

\* The pod sets, with their replicas, that can be taken back from a victim.
GetResourcesCanReclaim(u) ==
  [n \in {m \in DOMAIN u.adm : u.adm[m].replicas # u.adm[m].running /\ u.adm[m].reclaim = 0}
     |-> u.adm[n].replicas - u.adm[n].running]

-----------------------------------------------------------------------------
(* The order of a priority queue: higher priority first, then older first. *)

priorityOf(u) == IF u.prio = <<>> THEN 0 ELSE u.prio[1]

\* Creation time, ties broken by name. Keys are numbers in that order.
age(u) == u.uid * (Cardinality(Keys) + 1) + u.key

sameUnit(a, b) == a.key = b.key /\ a.uid = b.uid

before(a, b) ==
  \/ priorityOf(a) > priorityOf(b)
  \/ priorityOf(a) = priorityOf(b) /\ age(a) < age(b)

\* Negative: a is scheduled first. Two objects of the same unit compare equal
\* whatever their priorities are.
less(a, b) == IF sameUnit(a, b) THEN 0 ELSE IF before(a, b) THEN -1 ELSE 1
=============================================================================
