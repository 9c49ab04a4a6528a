---------------------------- MODULE PriorityQueue ----------------------------
(***************************************************************************)
(* The queue of policies "Priority" and "Block"                            *)
(* (pkg/queue/queuepolicies/schedulingqueuev2). Every method holds q.lock  *)
(* throughout, so each is one action here.                                 *)
(*                                                                         *)
(* QueueUnitInfo objects are shared by pointer: the slice q.queue, the map *)
(* q.queueUnits and the goroutines that got one from Next all see a change *)
(* of its Unit field. heap maps the live pointers to their Unit; held says *)
(* which pointer a caller of Next still uses. Pointers no one refers to    *)
(* are dropped from heap.                                                  *)
(***************************************************************************)
EXTENDS QueueUnit, Sequences, SequencesExt

CONSTANTS Callers,         \* goroutines that may hold a QueueUnitInfo
          MaxInfos,        \* bound on live QueueUnitInfo objects
          Quotas,
          QuotaOf,         \* GetQueueUnitQuotaName, per unit key
          Confs,           \* settings of the Queue object: see Conf
          QueueUnitActive, \* the feature gate
          ReclaimProtect,  \* reclaimProtectTime > 0
          ResetTimeouts    \* whether getQueueMaxResetDuration may elapse

VARIABLES queue,        \* q.queue: sequence of pointers
          queueUnits,   \* q.queueUnits: key -> pointer
          heap,         \* pointer -> Unit
          held,         \* caller -> pointer, 0 for none
          assumed,      \* q.assumed
          updating,     \* q.updating
          blockedQuota, \* q.blockedQuota
          nextIdx,      \* q.nextIdx, or Rewind when q.resetNextIdxFlag is set
          parked,       \* the scheduler waits on q.cond
          lastScheduled,\* q.lastScheduledQueueUnit as a set of at most one key
          conf          \* blocked, waitPodsRunning, enablePreempt, maxDepth

queueVars == <<queue, queueUnits, heap, held, assumed, updating, blockedQuota,
               nextIdx, parked, lastScheduled, conf>>

Rewind == -1

Infos == 1..MaxInfos

Conf == [blocked : BOOLEAN, waitPodsRunning : BOOLEAN, enablePreempt : BOOLEAN,
         maxDepth : Int]

QueueInit ==
  /\ queue = <<>>
  /\ queueUnits = [k \in {} |-> 0]
  /\ heap = [p \in {} |-> 0]
  /\ held = [c \in Callers |-> 0]
  /\ assumed = {} /\ updating = {} /\ blockedQuota = {}
  /\ nextIdx = 0
  /\ parked = FALSE
  /\ lastScheduled = {}
  /\ conf \in Confs

\* The same state again, after a restart of the process.
NewPriorityQueue ==
  /\ queue' = <<>>
  /\ queueUnits' = [k \in {} |-> 0]
  /\ heap' = [p \in {} |-> 0]
  /\ held' = [c \in Callers |-> 0]
  /\ assumed' = {} /\ updating' = {} /\ blockedQuota' = {}
  /\ nextIdx' = 0
  /\ parked' = FALSE
  /\ lastScheduled' = {}
  /\ UNCHANGED conf

\* Objects still referred to after the step; the others are garbage.
Collect(h) ==
  heap' = Restrict(h, DOMAIN h \cap (Range(queue') \cup Range(queueUnits') \cup Range(held')))

\* The pointer NewQueueUnitInfo returns.
FreshInfo == CHOOSE p \in Infos \ DOMAIN heap : \A r \in Infos \ DOMAIN heap : p <= r

-----------------------------------------------------------------------------
(* slices.BinarySearchFunc, slices.Insert, slices.Delete, slices.SortFunc. *)

unitsOf(q, h) == [i \in DOMAIN q |-> h[q[i]]]

\* The smallest index (from 0) whose element is not less than t, as the
\* bisection finds it: on a slice that is not sorted the answer depends on
\* which elements are probed.
searchIndex(s, t) ==
  LET bisect[i \in 0..Len(s), j \in 0..Len(s)] ==
        LET h == (i + j) \div 2
        IN  IF i >= j THEN i
            ELSE IF less(s[h + 1], t) < 0 THEN bisect[h + 1, j] ELSE bisect[i, h]
  IN  bisect[0, Len(s)]

searchFound(s, t) ==
  LET i == searchIndex(s, t) IN i < Len(s) /\ less(s[i + 1], t) = 0

insertSorted(q, h, p) == InsertAt(q, searchIndex(unitsOf(q, h), h[p]) + 1, p)

\* MUTANT: the element at the index goes, found or not.
removeFoundAnyway(q, h, t) ==
  LET i == searchIndex(unitsOf(q, h), t)
  IN  IF i < Len(q) THEN RemoveAt(q, i + 1) ELSE q

removeFound(q, h, t) ==
  LET s == unitsOf(q, h)
  IN  IF searchFound(s, t) THEN RemoveAt(q, searchIndex(s, t) + 1) ELSE q

\* Insertion sort, which SortFunc is on slices this short.
sortQueue(q, h) ==
  LET place(done, p) ==
        LET stop == {i \in DOMAIN done : less(h[p], h[done[i]]) >= 0}
        IN  InsertAt(done, 1 + Max(stop \cup {0}), p)
  IN  FoldLeft(place, <<>>, q)

-----------------------------------------------------------------------------
(* Next                                                                    *)

advance == IF nextIdx = Rewind THEN Rewind ELSE nextIdx + 1

depth == IF conf.maxDepth > 0 /\ conf.maxDepth < Len(queue) THEN conf.maxDepth ELSE Len(queue)


\* What findNextQueueUnit does not skip.
schedulable(u, blk) ==
  /\ u.key \notin updating
  /\ QueueUnitActive => u.active
  /\ ~IsQueueUnitSatisfied(u)
  /\ QuotaOf[u.key] \notin blk

\* The index findNextQueueUnit stops at; depth or more stands for nil.
findNextQueueUnit(from, blk) ==
  LET hits == {i \in from..(depth - 1) : schedulable(heap[queue[i + 1]], blk)}
  IN  IF hits = {} THEN Max({from, depth}) ELSE Min(hits)

handOut(c, i) ==
  /\ held' = [held EXCEPT ![c] = queue[i + 1]]
  /\ nextIdx' = i
  /\ lastScheduled' = {heap[queue[i + 1]].key}
  /\ parked' = FALSE

park ==
  /\ nextIdx' = Rewind
  /\ parked' = TRUE
  /\ UNCHANGED <<held, lastScheduled>>

\* Nothing to schedule, but quotas are blocked: clear them and look again.
\* With policy Block only after three minutes without a hand-out.
rejudge(c) ==
  LET i == findNextQueueUnit(0, {})
  IN  /\ blockedQuota # {}
      /\ blockedQuota' = {}
      /\ IF i < depth THEN handOut(c, i) ELSE park

NextQueueUnit(c) ==
  /\ ~parked
  /\ \E timeout \in {FALSE, ResetTimeouts} :
       LET from == IF nextIdx = Rewind \/ timeout THEN 0 ELSE nextIdx
           i    == findNextQueueUnit(from, blockedQuota)
       IN  \/ i >= depth /\ rejudge(c)
           \/ /\ i >= depth /\ (conf.blocked \/ blockedQuota = {})
              /\ park /\ UNCHANGED blockedQuota
           \/ /\ i < depth
              /\ handOut(c, i) /\ UNCHANGED blockedQuota
           \/ \* throttled: the same unit within five seconds
              /\ i < depth /\ conf.blocked
              /\ heap[queue[i + 1]].key \in lastScheduled
              /\ park /\ UNCHANGED blockedQuota
  /\ UNCHANGED <<queue, queueUnits, heap, assumed, updating, conf>>

\* wakeUpTimer fires.
WakeUp == parked /\ parked' = FALSE /\ UNCHANGED <<queue, queueUnits, heap, held, assumed,
                                         updating, blockedQuota, nextIdx, lastScheduled, conf>>

-----------------------------------------------------------------------------
(* Operations                                                              *)

\* cond.Broadcast
broadcast == parked' = FALSE

unblock(u) == blockedQuota' = blockedQuota \ {QuotaOf[u.key]}

\* MUTANT: after a restart, units that hold resources are not queued again.
AddUnassigned(u) ==
  LET p == FreshInfo
      h == Put(heap, p, u)
  IN  \/ IsQueueUnitAssigned(u) /\ UNCHANGED queueVars
      \/ /\ ~IsQueueUnitAssigned(u)
         /\ queueUnits' = Put(queueUnits, u.key, p)
         /\ queue' = insertSorted(queue, h, p)
         /\ nextIdx' = Rewind
         /\ unblock(u) /\ broadcast
         /\ UNCHANGED <<held, assumed, updating, lastScheduled, conf>>
         /\ Collect(h)

AddQueueUnitInfo(u) ==
  LET p == FreshInfo
      h == Put(heap, p, u)
  IN  \/ IsQueueUnitDequeued(u) /\ UNCHANGED queueVars
      \/ /\ ~IsQueueUnitDequeued(u)
         /\ UNCHANGED <<held, updating, lastScheduled, conf>>
         /\ assumed' = assumed \cup (IF IsQueueUnitReservedNotRun(u) THEN {u.key} ELSE {})
         /\ \/ /\ u.key \in DOMAIN queueUnits
               /\ UNCHANGED <<queue, queueUnits, heap, nextIdx, blockedQuota, parked>>
            \/ /\ u.key \notin DOMAIN queueUnits
               /\ queueUnits' = Put(queueUnits, u.key, p)
               /\ IF searchFound(unitsOf(queue, heap), u)
                  THEN UNCHANGED <<queue, nextIdx, blockedQuota, parked>>
                  ELSE /\ queue' = insertSorted(queue, h, p)
                       /\ nextIdx' = Rewind
                       /\ unblock(u) /\ broadcast
               /\ Collect(h)

\* MUTANT: the unit stays in q.queue.
DeleteFromIndex(u) ==
  /\ queueUnits' = Drop(queueUnits, u.key)
  /\ assumed' = assumed \ {u.key} /\ updating' = updating \ {u.key}
  /\ IF conf.blocked THEN unblock(u) ELSE UNCHANGED blockedQuota
  /\ nextIdx' = Rewind
  /\ broadcast
  /\ UNCHANGED <<queue, lastScheduled, conf>>
  /\ Collect(heap)

\* The caller may give up the object it holds in the same step.
Delete(u) ==
  LET k == u.key
      t == IF k \in DOMAIN queueUnits THEN heap[queueUnits[k]] ELSE u
  IN  /\ queue' = removeFound(queue, heap, t)
      /\ queueUnits' = Drop(queueUnits, k)
      /\ assumed' = assumed \ {k} /\ updating' = updating \ {k}
      /\ IF conf.blocked THEN unblock(u) ELSE UNCHANGED blockedQuota
      /\ nextIdx' = Rewind
      /\ broadcast
      /\ Collect(heap)
      /\ UNCHANGED <<lastScheduled, conf>>

\* The end of every Update whose unit is (still) in q.queueUnits: q is the
\* slice and h the heap, with the new Unit installed, at that point.
finishUpdate(old, new, q, h, rewind, wake) ==
  IF IsResourceReleased(old, new)
  THEN /\ queue' = IF new.phase # "SchedFailed" THEN sortQueue(q, h) ELSE q
       /\ nextIdx' = IF rewind \/ new.phase # "SchedFailed" THEN Rewind ELSE nextIdx
       /\ IF conf.blocked THEN unblock(new) ELSE UNCHANGED blockedQuota
       /\ broadcast
  ELSE /\ queue' = q
       /\ nextIdx' = IF rewind THEN Rewind ELSE nextIdx
       /\ UNCHANGED blockedQuota
       /\ IF wake \/ podSetsChanged(old, new) THEN broadcast ELSE UNCHANGED parked

\* MUTANT: the pod sets are not compared.
nothingToDoUnsized(old, new) ==
  /\ old.phase = new.phase /\ samePriorityPointer(old, new)
  /\ ~isAdmissionChanged(old, new)

nothingToDo(old, new) ==
  /\ old.phase = new.phase /\ samePriorityPointer(old, new)
  /\ ~podSetsChanged(old, new) /\ ~isAdmissionChanged(old, new)

\* Nothing the queue looks at changed: only the cached object is replaced.
updateRefresh(old, new) ==
  /\ UNCHANGED <<queueUnits, assumed, updating>>
  /\ IF new.key \in DOMAIN queueUnits
     THEN LET h == Put(heap, queueUnits[new.key], new)
          IN  finishUpdate(old, new, queue, h, FALSE, FALSE) /\ Collect(h)
     ELSE UNCHANGED <<queue, heap, nextIdx, blockedQuota, parked>>

\* MUTANT: the unit stays in q.queue.
updateDequeuedIndex(old, new) ==
  /\ assumed' = assumed \ {new.key}
  /\ updating' = updating \ {new.key}
  /\ queueUnits' = Drop(queueUnits, new.key)
  /\ nextIdx' = Rewind
  /\ broadcast
  /\ UNCHANGED <<queue, blockedQuota>>
  /\ Collect(heap)

\* The unit leaves the queue.
updateDequeued(old, new) ==
  LET k == new.key
      wasAssumed == k \in assumed
  IN  /\ assumed' = assumed \ {k}
      /\ updating' = updating \ {k}
      /\ queue' = removeFound(queue, heap, new)
      /\ queueUnits' = Drop(queueUnits, k)
      /\ nextIdx' = IF wasAssumed THEN Rewind ELSE nextIdx
      /\ blockedQuota' = IF wasAssumed /\ ~IsQueueUnitDequeued(old) /\ conf.waitPodsRunning
                         THEN {} ELSE blockedQuota
      /\ IF wasAssumed THEN broadcast ELSE UNCHANGED parked
      /\ Collect(heap)

activationChanged(old, new) == QueueUnitActive /\ old.active # new.active

\* MUTANT: updating is left to Dequeue and ErrorFunc.
followAssumedOnly(new) ==
  /\ assumed' = IF ~IsQueueUnitReservedAnyResource(new) THEN assumed \ {new.key}
                ELSE IF IsQueueUnitAllRunning(new) THEN assumed \ {new.key}
                ELSE assumed \cup {new.key}
  /\ UNCHANGED updating

\* MUTANT: a unit is no longer assumed as soon as its admission is visible.
followAdmitted(new) ==
  /\ assumed' = assumed \ {new.key}
  /\ updating' = IF ~IsQueueUnitReservedAnyResource(new) THEN updating \ {new.key} ELSE updating

\* assumed and updating follow the admissions the event carries.
followAdmissions(new) ==
  LET k == new.key
      reserved == IsQueueUnitReservedAnyResource(new)
      running == IsQueueUnitAllRunning(new)
  IN  /\ assumed' = CASE ~reserved                                -> assumed \ {k}
                      [] reserved /\ running /\ k \notin updating -> assumed \ {k}
                      [] reserved /\ running /\ k \in updating    -> assumed
                      [] reserved /\ ~running                     -> assumed \cup {k}
      /\ updating' = IF ~reserved /\ ~IsQueueUnitSatisfied(new) THEN updating \ {k} ELSE updating

\* MUTANT: a unit that stays in its place keeps its old object.
updateQueuedStale(old, new) ==
  LET k == new.key
      p == IF k \in DOMAIN queueUnits THEN queueUnits[k] ELSE FreshInfo
      h == IF k \in DOMAIN queueUnits THEN heap ELSE Put(heap, p, new)
  IN  /\ queueUnits' = Put(queueUnits, k, p)
      /\ followAdmissions(new)
      /\ finishUpdate(old, new, IF k \in DOMAIN queueUnits THEN queue ELSE insertSorted(queue, h, p),
                      h, FALSE, FALSE)
      /\ Collect(h)

\* MUTANT: a unit that is not active is taken out.
updateActiveOnly(old, new) ==
  LET p == FreshInfo
      h == Put(heap, p, new)
      q == removeFound(queue, heap, old)
  IN  /\ queueUnits' = IF new.active THEN Put(queueUnits, new.key, p) ELSE Drop(queueUnits, new.key)
      /\ followAdmissions(new)
      /\ finishUpdate(old, new, IF new.active THEN insertSorted(q, h, p) ELSE q, h, TRUE, TRUE)
      /\ Collect(h)

\* The unit stays in, or comes back to, the queue.
updateQueued(old, new) ==
  LET k == new.key
      reinsert == \/ k \notin DOMAIN queueUnits
                  \/ ~samePriorityPointer(old, new)
                  \/ activationChanged(old, new)
      p == IF reinsert THEN FreshInfo ELSE queueUnits[k]
      h == Put(heap, p, new)
      q == IF reinsert THEN insertSorted(removeFound(queue, heap, old), h, p) ELSE queue
      settled == /\ IsQueueUnitReservedAnyResource(new)
                 /\ IsQueueUnitAllRunning(new)
                 /\ k \notin updating
  IN  /\ queueUnits' = Put(queueUnits, k, p)
      /\ followAdmissions(new)
      /\ finishUpdate(old, new, q, h, activationChanged(old, new) \/ settled,
                      activationChanged(old, new))
      /\ Collect(h)

\* MUTANT: a unit leaves the queue before its pods run.
UpdateSatisfied(old, new) ==
  /\ UNCHANGED <<held, lastScheduled, conf>>
  /\ \/ nothingToDo(old, new) /\ updateRefresh(old, new)
     \/ ~nothingToDo(old, new) /\ IsQueueUnitSatisfied(new) /\ updateDequeued(old, new)
     \/ ~nothingToDo(old, new) /\ ~IsQueueUnitSatisfied(new) /\ updateQueued(old, new)

Update(old, new) ==
  /\ UNCHANGED <<held, lastScheduled, conf>>
  /\ \/ nothingToDo(old, new) /\ updateRefresh(old, new)
     \/ ~nothingToDo(old, new) /\ IsQueueUnitDequeued(new) /\ updateDequeued(old, new)
     \/ ~nothingToDo(old, new) /\ ~IsQueueUnitDequeued(new) /\ updateQueued(old, new)

-----------------------------------------------------------------------------
(* Reserve, preemption and giving a unit back                              *)

\* Assumed units that come after u in the queue order.
lowerAssumed(u) == {k \in assumed \cap DOMAIN queueUnits : less(u, heap[queueUnits[k]]) < 0}

\* Units admitted less than reclaimProtectTime ago, which are left alone.
protectedUnits == IF ReclaimProtect THEN SUBSET assumed ELSE {{}}


\* A queue that waits for pods to run admits nothing while a unit is assumed.
reserveRefused == conf.waitPodsRunning /\ assumed # {}

\* Reserve refuses: stale assumed entries go, victims are told to give back
\* what they have not started (the caller does that).
ReserveFail ==
  /\ reserveRefused
  /\ assumed' = assumed \cap DOMAIN queueUnits
  /\ UNCHANGED <<queue, queueUnits, heap, held, updating, blockedQuota, nextIdx,
                 parked, lastScheduled, conf>>

\* MUTANT: the unit is not marked as being dequeued.
ReserveUnmarked(k, c, d) ==
  /\ ~reserveRefused
  /\ nextIdx' = IF conf.blocked THEN Rewind ELSE advance
  /\ assumed' = assumed \cup {k}
  /\ held' = [held EXCEPT ![d] = held[c], ![c] = 0]
  /\ UNCHANGED <<queue, queueUnits, heap, updating, blockedQuota, parked, lastScheduled, conf>>

\* Reserve succeeds and the QueueUnitInfo goes from caller c to caller d.
ReserveOK(k, c, d) ==
  /\ ~reserveRefused
  /\ nextIdx' = IF conf.blocked THEN Rewind ELSE advance
  /\ assumed' = assumed \cup {k}
  /\ updating' = updating \cup {k}
  /\ held' = [held EXCEPT ![d] = held[c], ![c] = 0]
  /\ UNCHANGED <<queue, queueUnits, heap, blockedQuota, parked, lastScheduled, conf>>

replicasIn(ps) == MapThenSumSet(LAMBDA n : ps[n], DOMAIN ps)

\* dryRunPreemption: from the last assumed unit upwards, until what is taken
\* back covers what the preemptor asks for. A pod counts as one unit of the
\* resource asked for, whatever its pod set.
dryRunPreemption(u, shielded) ==
  LET gives(k) == GetResourcesCanReclaim(heap[queueUnits[k]])
      cands == {k \in lowerAssumed(u) \ shielded : DOMAIN gives(k) # {}}
      after(k) == {j \in cands : less(heap[queueUnits[k]], heap[queueUnits[j]]) < 0}
      released(S) == MapThenSumSet(LAMBDA k : replicasIn(gives(k)), S)
  IN  {k \in cands : released(after(k)) < replicasIn(u.count)}

\* Preempt is allowed in a queue that waits for pods and enables it.
canPreempt == conf.waitPodsRunning /\ conf.enablePreempt

\* MUTANT: the cursor stays at the unit that was refused.
AddUnschedulableHere(c, k, changed) ==
  /\ nextIdx' = IF changed \/ conf.blocked THEN Rewind ELSE nextIdx
  /\ blockedQuota' = blockedQuota \cup (IF conf.blocked /\ ~changed THEN {QuotaOf[k]} ELSE {})
  /\ assumed' = assumed \ {k}
  /\ updating' = updating \ {k}
  /\ held' = [held EXCEPT ![c] = 0]
  /\ UNCHANGED <<queue, queueUnits, parked, lastScheduled, conf>>
  /\ Collect(heap)

\* The last step of ErrorFunc for caller c, which is done with the object.
AddUnschedulableIfNotPresent(c, k, changed) ==
  /\ nextIdx' = IF changed \/ conf.blocked THEN Rewind ELSE advance
  /\ blockedQuota' = blockedQuota \cup (IF conf.blocked /\ ~changed THEN {QuotaOf[k]} ELSE {})
  /\ assumed' = assumed \ {k}
  /\ updating' = updating \ {k}
  /\ held' = [held EXCEPT ![c] = 0]
  /\ UNCHANGED <<queue, queueUnits, parked, lastScheduled, conf>>
  /\ Collect(heap)

-----------------------------------------------------------------------------
(* Maintenance                                                             *)

sorted(q, h) == \A i \in 1..(Len(q) - 1) : less(h[q[i]], h[q[i + 1]]) # 1

\* Every 30 seconds.
fixQueue ==
  /\ ~sorted(queue, heap)
  /\ queue' = sortQueue(queue, heap)
  /\ UNCHANGED <<queueUnits, heap, held, assumed, updating, blockedQuota, nextIdx,
                 parked, lastScheduled, conf>>

\* Queue.Update of the wrapper: ChangePolicy, then UpdateQueueCr.
ChangeConf(new) ==
  /\ conf' = new
  /\ broadcast
  /\ UNCHANGED <<queue, queueUnits, heap, held, assumed, updating, blockedQuota,
                 nextIdx, lastScheduled>>

-----------------------------------------------------------------------------
QueueTypeOK ==
  /\ queue \in Seq(Infos)
  /\ DOMAIN queueUnits \subseteq Keys /\ Range(queueUnits) \subseteq Infos
  /\ DOMAIN heap \subseteq Infos /\ \A p \in DOMAIN heap : IsUnit(heap[p])
  /\ held \in [Callers -> Infos \cup {0}]
  /\ Range(queue) \cup Range(queueUnits) \cup (Range(held) \ {0}) \subseteq DOMAIN heap
  /\ assumed \subseteq Keys /\ updating \subseteq Keys /\ blockedQuota \subseteq Quotas
  /\ nextIdx \in Nat \cup {Rewind}
  /\ parked \in BOOLEAN
  /\ lastScheduled \subseteq Keys
  /\ conf \in Confs
=============================================================================
