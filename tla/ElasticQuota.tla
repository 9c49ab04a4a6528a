---------------------------- MODULE ElasticQuota ----------------------------
(***************************************************************************)
(* The ElasticQuota plugin between its callers: the scheduling loops of    *)
(* the queues (pkg/scheduler), the goroutines that dequeue, the informer   *)
(* handlers for QueueUnits (pkg/controller/eventhandler.go) and for        *)
(* ElasticQuotas (elasticquota_handler.go). The calls of one plugin method *)
(* take the cache's lock one by one, so they are steps of their own.       *)
(*                                                                         *)
(* A stored unit is [quota, phase, has, amount]: its label; "pending",     *)
(* "dequeued" or "done"; whether Status.Admissions has entries, and what   *)
(* they add up to. A loop hands out a unit again only when no goroutine    *)
(* works on it and every event about it was handled (module Scheduler,     *)
(* OneDequeueInFlight, is about when the queues achieve that).             *)
(***************************************************************************)
EXTENDS QuotaCache, Sequences, FiniteSetsExt, Functions

CONSTANTS Loops,       \* queues, each with a scheduling loop
          QueueOf,     \* unit -> the queue it is in
          Request,     \* unit -> Spec.Resource
          InitLabels,  \* unit -> the quota labels it may have
          InitTree,    \* quota -> [parent, max]: the ElasticQuotas at the start
          QuotaWrites, \* [name, parent, max]: how ElasticQuotas are written later
          MaxEvents,   \* bound on watch events not yet handled
          Env          \* which of the actions outside the controller occur

ASSUME EnvAssumption ==
  Env \subseteq {"apiErrors", "wait", "delete", "release", "finish", "relabel", "quotas", "restart"}

VARIABLES stored,   \* unit -> the QueueUnit of the API server
          seen,     \* unit -> the object last handled, which the queue holds
          events,   \* watch events on their way: [uid, new], None for a deletion
          resizing, \* the handler is between IsScheduling and cache.Resize
          loop,     \* queue -> set of at most one unit its loop works on
          work,     \* unit -> how far its scheduling is, and the copy it works with
          born      \* units that were created; a UID is not used again

pluginVars == <<stored, seen, events, resizing, loop, work, born>>

allVars == <<cacheVars, pluginVars>>

None == [phase |-> "none"]

exists(s) == s.phase # "none"

\* utils.IsQueueUnitAssigned
assigned(s) == exists(s) /\ (s.has \/ s.phase = "dequeued")

seenOf(uid) == IF uid \in DOMAIN seen THEN seen[uid] ELSE None

\* The unit with what GetReservedResource says of it; no admissions in an
\* assigned phase means everything that is asked for (IsV1VersionDequeued).
object(uid, s) ==
  [uid |-> uid, quota |-> s.quota, amount |-> IF s.has THEN s.amount ELSE Request[uid]]

Idle == [pc |-> "idle", unit |-> None]

\* LoadQuotaAndQueueUnits finds the ElasticQuotas. It finds no QueueUnits:
\* their informer is started after the plugins are built.
LoadQuotaAndQueueUnits(tree) ==
  /\ quotas = [q \in DOMAIN tree |-> NewElasticQuotaInfo(tree[q].max)]
  /\ quotaParent = [q \in DOMAIN tree |-> tree[q].parent]

Init ==
  /\ LoadQuotaAndQueueUnits(InitTree)
  /\ reserved = Empty
  /\ scheduling = {}
  /\ stored = Empty
  /\ seen = Empty
  /\ events = <<>>
  /\ resizing = FALSE
  /\ loop = [l \in Loops |-> {}]
  /\ work = [u \in UnitIds |-> Idle]
  /\ born = {}

room == Len(events) < MaxEvents

write(uid, s) ==
  /\ stored' = Put(stored, uid, s)
  /\ events' = Append(events, [uid |-> uid, new |-> s])

goto(uid, pc) == work' = [work EXCEPT ![uid].pc = pc]

-----------------------------------------------------------------------------
(* schedule(), one unit at a time in each queue                            *)

satisfied(uid, s) == s.has /\ s.amount = Request[uid]

\* The loop takes a unit, and Filter finds room for all it asks for.
Filter(l, uid) ==
  /\ loop[l] = {} /\ work[uid].pc = "idle" /\ QueueOf[uid] = l
  /\ uid \in DOMAIN seen /\ seen[uid].phase # "done" /\ ~satisfied(uid, seen[uid])
  /\ \A i \in DOMAIN events : events[i].uid # uid
  /\ CheckUsage(seen[uid].quota, Request[uid])
  /\ loop' = [loop EXCEPT ![l] = {uid}]
  /\ work' = [work EXCEPT ![uid] = [pc |-> "filtered", unit |-> object(uid, seen[uid])]]
  /\ UNCHANGED <<cacheVars, stored, seen, events, resizing, born>>

\* Reserve: MarkScheduling ...
Mark(uid) ==
  /\ work[uid].pc = "filtered"
  /\ MarkScheduling(uid)
  /\ goto(uid, "marked")
  /\ UNCHANGED <<stored, seen, events, resizing, loop, born>>

\* ... then cache.Reserve.
Reserve(uid) ==
  LET u == work[uid].unit
  IN  /\ work[uid].pc = "marked"
      /\ reserve(u)
      /\ goto(uid, IF reserveFails(u) THEN "reserveFailed" ELSE "reserved")
      /\ UNCHANGED <<stored, seen, events, resizing, loop, born>>

\* The queue takes the unit, and a goroutine of its own dequeues it ...
QueueReserve(uid) ==
  /\ work[uid].pc = "reserved"
  /\ loop' = [loop EXCEPT ![QueueOf[uid]] = {}]
  /\ goto(uid, "dequeue")
  /\ UNCHANGED <<cacheVars, stored, seen, events, resizing, born>>

\* ... or it refuses: it waits for the pods of a unit admitted before.
QueueRefuses(uid) ==
  /\ "wait" \in Env /\ work[uid].pc = "reserved"
  /\ \E other \in UnitIds :
       /\ QueueOf[other] = QueueOf[uid]
       /\ assigned(seenOf(other)) \/ work[other].pc \in {"dequeue", "written", "reservedAgain"}
  /\ goto(uid, "unreserve")
  /\ UNCHANGED <<cacheVars, stored, seen, events, resizing, loop, born>>

\* Unreserve, then ErrorFunc gives the unit back. Unless Reserve failed, the
\* unit is the object the queue shares, which the handler may have replaced.
Unreserve(uid) ==
  /\ work[uid].pc \in {"reserveFailed", "unreserve"}
  /\ unreserve(IF uid \in DOMAIN seen /\ work[uid].pc = "unreserve"
               THEN object(uid, seen[uid]) ELSE work[uid].unit)
  /\ loop' = [loop EXCEPT ![QueueOf[uid]] = @ \ {uid}]
  /\ work' = [work EXCEPT ![uid] = Idle]
  /\ UNCHANGED <<stored, seen, events, resizing, born>>

\* Dequeue writes the admission of everything that is asked for.
DequeueWrite(uid) ==
  LET new == [stored[uid] EXCEPT !.phase = "dequeued", !.has = TRUE, !.amount = Request[uid]]
  IN  /\ work[uid].pc = "dequeue" /\ uid \in DOMAIN stored /\ room
      /\ write(uid, new)
      /\ work' = [work EXCEPT ![uid] = [pc |-> "written", unit |-> object(uid, new)]]
      /\ UNCHANGED <<cacheVars, seen, resizing, loop, born>>

DequeueFails(uid) ==
  /\ work[uid].pc = "dequeue"
  /\ "apiErrors" \in Env \/ uid \notin DOMAIN stored
  /\ goto(uid, "unreserve")
  /\ UNCHANGED <<cacheVars, stored, seen, events, resizing, loop, born>>

\* DequeueComplete: cache.Reserve of the unit as it was written ...
CompleteReserve(uid) ==
  /\ work[uid].pc = "written"
  /\ reserve(work[uid].unit)
  /\ goto(uid, "reservedAgain")
  /\ UNCHANGED <<stored, seen, events, resizing, loop, born>>


\* ... and ClearScheduling.
CompleteClear(uid) ==
  /\ work[uid].pc = "reservedAgain"
  /\ ClearScheduling(uid)
  /\ work' = [work EXCEPT ![uid] = Idle]
  /\ UNCHANGED <<stored, seen, events, resizing, loop, born>>

-----------------------------------------------------------------------------
(* The handler for QueueUnits                                              *)

handled ==
  LET e == Head(events)
  IN  /\ events' = Tail(events)
      /\ seen' = IF exists(e.new) THEN Put(seen, e.uid, e.new) ELSE Drop(seen, e.uid)

isResize(e) == assigned(seenOf(e.uid)) /\ assigned(e.new)


\* AddAssignedJob, Remove, or no call at all.
HandleEvent ==
  LET e == Head(events)
      old == seenOf(e.uid)
  IN  /\ events # <<>> /\ ~isResize(e)
      /\ \/ assigned(e.new) /\ reserve(object(e.uid, e.new))
         \/ assigned(old) /\ unreserve(object(e.uid, old))
         \/ ~assigned(old) /\ ~assigned(e.new) /\ UNCHANGED cacheVars
      /\ handled
      /\ UNCHANGED <<stored, resizing, loop, work, born>>

\* Resize is skipped while the unit is being scheduled ...
SkipResize ==
  /\ events # <<>> /\ isResize(Head(events)) /\ ~resizing
  /\ Head(events).uid \in scheduling
  /\ handled
  /\ UNCHANGED <<cacheVars, stored, resizing, loop, work, born>>

BeginResize ==
  /\ events # <<>> /\ isResize(Head(events)) /\ ~resizing
  /\ Head(events).uid \notin scheduling
  /\ resizing' = TRUE
  /\ UNCHANGED <<cacheVars, stored, seen, events, loop, work, born>>

\* ... but the test and cache.Resize take the lock separately.
EndResize ==
  LET e == Head(events)
  IN  /\ resizing
      /\ resizing' = FALSE
      /\ Resize(object(e.uid, seen[e.uid]), object(e.uid, e.new))
      /\ handled
      /\ UNCHANGED <<stored, loop, work, born>>

-----------------------------------------------------------------------------
(* Outside the controller                                                  *)

apiWrite(uid, s) ==
  /\ room /\ write(uid, s)
  /\ UNCHANGED <<cacheVars, seen, resizing, loop, work, born>>

CreateUnit(uid) ==
  /\ uid \notin born /\ room
  /\ born' = born \cup {uid}
  /\ \E q \in InitLabels[uid] :
       write(uid, [quota |-> q, phase |-> "pending", has |-> FALSE, amount |-> Zero])
  /\ UNCHANGED <<cacheVars, seen, resizing, loop, work>>

DeleteUnit(uid) ==
  /\ "delete" \in Env /\ room
  /\ stored' = Drop(stored, uid)
  /\ events' = Append(events, [uid |-> uid, new |-> None])
  /\ UNCHANGED <<cacheVars, seen, resizing, loop, work, born>>

\* Pods are deleted, time out or are reclaimed: the admission shrinks.
ReleasePods(uid) ==
  /\ "release" \in Env /\ stored[uid].has
  /\ \E a \in Amounts \ {stored[uid].amount} :
       /\ \A r \in Resources : a[r] <= stored[uid].amount[r]
       /\ apiWrite(uid, [stored[uid] EXCEPT !.amount = a])

\* The job ends, and its admissions are dropped.
JobFinished(uid) ==
  /\ "finish" \in Env /\ stored[uid].phase = "dequeued"
  /\ apiWrite(uid, [stored[uid] EXCEPT !.phase = "done", !.has = FALSE, !.amount = Zero])

Relabel(uid) ==
  /\ "relabel" \in Env
  /\ \E q \in InitLabels[uid] \ {stored[uid].quota} : apiWrite(uid, [stored[uid] EXCEPT !.quota = q])

\* The handlers for ElasticQuotas.
ChangeQuotas ==
  /\ "quotas" \in Env
  /\ \/ \E w \in QuotaWrites : AddOrUpdateQuota(w.name, w.parent, w.max)
     \/ \E q \in DOMAIN quotas : DeleteQuota(q)
  /\ UNCHANGED pluginVars

\* The controller restarts: its memory is gone and the informers list again.
Restart ==
  /\ "restart" \in Env
  /\ quotas' = [q \in DOMAIN quotas |-> NewElasticQuotaInfo(quotas[q].Max)]
  /\ reserved' = Empty
  /\ scheduling' = {}
  /\ \E order \in {s \in [1..Cardinality(DOMAIN stored) -> DOMAIN stored] : IsInjective(s)} :
       events' = [i \in DOMAIN order |-> [uid |-> order[i], new |-> stored[order[i]]]]
  /\ seen' = Empty
  /\ resizing' = FALSE
  /\ loop' = [l \in Loops |-> {}]
  /\ work' = [u \in UnitIds |-> Idle]
  /\ UNCHANGED <<stored, quotaParent, born>>

-----------------------------------------------------------------------------
Schedule(uid) ==
  \/ \E l \in Loops : Filter(l, uid)
  \/ Mark(uid) \/ Reserve(uid) \/ QueueReserve(uid) \/ QueueRefuses(uid) \/ Unreserve(uid)
  \/ DequeueWrite(uid) \/ DequeueFails(uid) \/ CompleteReserve(uid) \/ CompleteClear(uid)

Handle == HandleEvent \/ SkipResize \/ BeginResize \/ EndResize

Outside(uid) ==
  \/ CreateUnit(uid)
  \/ uid \in DOMAIN stored /\ (DeleteUnit(uid) \/ ReleasePods(uid) \/ JobFinished(uid) \/ Relabel(uid))

Next ==
  \/ \E uid \in UnitIds : Schedule(uid) \/ Outside(uid)
  \/ Handle \/ ChangeQuotas \/ Restart

Spec == Init /\ [][Next]_allVars

-----------------------------------------------------------------------------
(* Properties                                                              *)

PCs == {"idle", "filtered", "marked", "reserved", "reserveFailed", "unreserve",
        "dequeue", "written", "reservedAgain"}

IsStored(s) ==
  s \in [quota : Quotas, phase : {"pending", "dequeued", "done"}, has : BOOLEAN, amount : Amounts]

\* Every variable keeps its type; a loop works on a unit of its own queue.
TypeOK ==
  /\ CacheTypeOK
  /\ DOMAIN stored \subseteq UnitIds /\ \A u \in DOMAIN stored : IsStored(stored[u])
  /\ DOMAIN seen \subseteq UnitIds /\ \A u \in DOMAIN seen : IsStored(seen[u])
  /\ \A i \in DOMAIN events : events[i].uid \in UnitIds /\ (events[i].new = None \/ IsStored(events[i].new))
  /\ resizing \in BOOLEAN /\ (resizing => events # <<>>)
  /\ \A l \in Loops : Cardinality(loop[l]) <= 1 /\ \A u \in loop[l] : QueueOf[u] = l
  /\ \A u \in UnitIds : work[u].pc \in PCs /\ (work[u].unit = None \/ work[u].unit \in Objects)
  /\ born \subseteq UnitIds

sumOf(f(_), S) == MapThenSumSet(f, S)

\* AddQueueUnit, DeleteQueueUnit and ResizeQueueUnit keep Used equal to the sum of
\* what the objects in Reserved hold, whatever is relabelled, resized or lost.
UsedIsSum ==
  \A q \in DOMAIN quotas, r \in Resources :
    quotas[q].Used[r] = sumOf(LAMBDA u : quotas[q].Reserved[u].amount[r], DOMAIN quotas[q].Reserved)

\* Nothing is under way for the unit.
settled(uid) ==
  /\ work[uid] = Idle
  /\ \A i \in DOMAIN events : events[i].uid # uid


\* What is admitted in and below a quota stays within its limit, which Filter
\* checks (CheckUsage) some steps before the unit is counted and written.
AdmittedWithinMax ==
  \A q \in DOMAIN quotas \ {Root} : \A r \in DOMAIN quotas[q].Max \cap Resources :
    100 * sumOf(LAMBDA u : stored[u].amount[r], {u \in DOMAIN stored : q \in path(stored[u].quota)})
      <= Oversell * quotas[q].Max[r]

=============================================================================
