------------------------------ MODULE Scheduler ------------------------------
(***************************************************************************)
(* One scheduling loop of pkg/scheduler, the priority queue it drives, the *)
(* API server that stores the QueueUnits, and the informer that feeds      *)
(* their changes back to the queue (pkg/controller/eventhandler.go).       *)
(*                                                                         *)
(* The loop takes a unit with Next, filters and reserves it, and leaves    *)
(* writing its new status to a goroutine of its own, so that the next unit *)
(* can be scheduled meanwhile. Both end in ErrorFunc when a step fails.    *)
(* The quota plugin's answers are arbitrary here.                          *)
(***************************************************************************)
EXTENDS PriorityQueue

CONSTANTS Loop,        \* the scheduling goroutine of the queue
          Dequeuers,   \* goroutines that run handleDequeue
          MaxEvents,   \* bound on watch events not yet handled
          InitCounts,  \* pod set sizes of a new unit
          Env          \* which of the actions outside the scheduler occur

\* "apiErrors": API calls may fail for no reason the model shows; the others
\* name the actions of section "Job side" they switch on.
EnvActions == {"apiErrors", "delete", "priority", "activation", "deadline", "resize",
               "partialRun", "timeout", "podDeleted", "podLost", "running", "finished", "backoff",
               "settings", "restart"}

ASSUME EnvAssumption == Env \subseteq EnvActions

ApiErrors == "apiErrors" \in Env

ASSUME CallersAssumption == Callers = {Loop} \cup Dequeuers /\ Loop \notin Dequeuers

VARIABLES api,        \* key -> the stored QueueUnit
          events,     \* watch events on their way to the informer
          seen,       \* key -> the object in the informer's indexer
          proc,       \* caller -> where it is and what it carries
          finChanged, \* s.finished differs from what schedule() read
          finEver,    \* s.finished differs from 0
          born        \* key -> how many incarnations were created

vars == <<queueVars, api, events, seen, proc, finChanged, finEver, born>>

\* unit: the QueueUnit a goroutine works on. add: what Filter granted, per pod
\* set. preempted: the last argument of ErrorFunc.
NoUnit == [key |-> 0]

Idle == [pc |-> "idle", unit |-> NoUnit, add |-> [n \in {} |-> 0], preempted |-> FALSE]

Init ==
  /\ QueueInit
  /\ api = [k \in {} |-> NoUnit]
  /\ events = <<>>
  /\ seen = [k \in {} |-> NoUnit]
  /\ proc = [c \in Callers |-> Idle]
  /\ finChanged = FALSE
  /\ finEver = FALSE
  /\ born = [k \in Keys |-> 0]

-----------------------------------------------------------------------------
(* API server                                                              *)

\* A writer waits while the watch is MaxEvents behind.
room(n) == Len(events) + n <= MaxEvents

write(u) ==
  /\ api' = Put(api, u.key, u)
  /\ events' = Append(events, [put |-> TRUE, unit |-> u])

current(u) == u.key \in DOMAIN api /\ api[u.key] = u

goto(c, pc) == proc' = [proc EXCEPT ![c].pc = pc]

finish(c) == proc' = [proc EXCEPT ![c] = Idle]

-----------------------------------------------------------------------------
(* schedule()                                                              *)

\* finished := s.finished
Begin ==
  /\ proc[Loop].pc = "idle"
  /\ goto(Loop, "next")
  /\ finChanged' = FALSE
  /\ UNCHANGED <<queueVars, api, events, seen, finEver, born>>

Next1 ==
  /\ proc[Loop].pc = "next"
  /\ NextQueueUnit(Loop)
  /\ goto(Loop, IF held'[Loop] = 0 THEN "next" ELSE "filter")
  /\ UNCHANGED <<api, events, seen, finChanged, finEver, born>>

\* RunFilterPlugins: what is still missing per pod set. A pod set that holds
\* more than it asks for keeps its whole count in the request.
filterRequest(u) ==
  [n \in {m \in PodSets : u.count[m] # Admitted(u, m)} |->
     IF u.count[n] > Admitted(u, n) THEN u.count[n] - Admitted(u, n) ELSE u.count[n]]

\* What a victim k gives back: computed from the queue's object, written onto
\* the object of the lister.
victimUnit(k) ==
  LET u == api[k]
      ps == GetResourcesCanReclaim(heap[queueUnits[k]])
  IN  [u EXCEPT !.adm = [n \in DOMAIN u.adm |->
         IF n \in DOMAIN ps THEN [u.adm[n] EXCEPT !.reclaim = ps[n]] ELSE u.adm[n]]]

\* Nothing is written when the victim holds nothing or is being reclaimed.
preemptible(k) ==
  /\ k \in DOMAIN api
  /\ ~IsQueueUnitDequeued(api[k]) /\ IsQueueUnitReservedAnyResource(api[k])
  /\ \A n \in DOMAIN api[k].adm \cap DOMAIN GetResourcesCanReclaim(heap[queueUnits[k]]) :
        api[k].adm[n].reclaim = 0

\* The lister runs ahead of the handler. While it is behind the API server the
\* write conflicts, and is given up after a few retries.
preemptQueueUnits(victims) ==
  LET able == {k \in victims : preemptible(k)}
  IN  \E hit \in SUBSET able :
        /\ ApiErrors \/ \A k \in able \ hit : k \notin DOMAIN seen \/ seen[k] # api[k]
        /\ room(Cardinality(hit))
        /\ api' = [k \in DOMAIN api |-> IF k \in hit THEN victimUnit(k) ELSE api[k]]
        /\ events' = events \o [i \in 1..Cardinality(hit) |->
                                  [put |-> TRUE, unit |-> victimUnit(SetToSeq(hit)[i])]]

\* Filter refuses; Preempt may ask lower assumed units to give back.
FilterFail ==
  LET u == heap[held[Loop]]
  IN  /\ proc[Loop].pc = "filter"
      /\ \E shielded \in protectedUnits :
           LET victims == IF canPreempt THEN dryRunPreemption(u, shielded) ELSE {}
           IN  /\ preemptQueueUnits(victims)
               /\ proc' = [proc EXCEPT ![Loop].pc = "efGet", ![Loop].unit = u,
                                       ![Loop].preempted = victims # {}]
      /\ UNCHANGED <<queueVars, seen, finChanged, finEver, born>>

\* Filter and the reserve plugins accept the unit.
FilterOK ==
  LET u == heap[held[Loop]]
  IN  /\ proc[Loop].pc = "filter"
      /\ proc' = [proc EXCEPT ![Loop].pc = "reserve", ![Loop].unit = u,
                              ![Loop].add = filterRequest(u)]
      /\ UNCHANGED <<queueVars, api, events, seen, finChanged, finEver, born>>

\* A reserve plugin fails: ErrorFunc works on a copy, not on the shared object.
PluginReserveFail ==
  LET u == heap[held[Loop]]
  IN  /\ proc[Loop].pc = "filter"
      /\ proc' = [proc EXCEPT ![Loop].pc = "efGet", ![Loop].unit = u]
      /\ held' = [held EXCEPT ![Loop] = 0]
      /\ UNCHANGED <<queue, queueUnits, assumed, updating, blockedQuota, nextIdx,
                     parked, lastScheduled, conf, api, events, seen, finChanged, finEver, born>>
      /\ Collect(heap)

\* The queue accepts the unit: a new goroutine dequeues it.
ReserveStep ==
  /\ proc[Loop].pc = "reserve"
  /\ \E d \in Dequeuers :
       /\ proc[d] = Idle
       /\ ReserveOK(proc[Loop].unit.key, Loop, d)
       /\ proc' = [proc EXCEPT ![Loop] = Idle,
                               ![d] = [proc[Loop] EXCEPT !.pc = "dequeue"]]
  /\ UNCHANGED <<api, events, seen, finChanged, finEver, born>>

\* The queue refuses the unit, after asking lower assumed units to give back.
ReserveRefused ==
  /\ proc[Loop].pc = "reserve"
  /\ \E shielded \in protectedUnits :
       LET victims == lowerAssumed(proc[Loop].unit) \ shielded
       IN  /\ preemptQueueUnits(victims)
           /\ proc' = [proc EXCEPT ![Loop].pc = "efGet", ![Loop].preempted = victims # {}]
  /\ ReserveFail
  /\ UNCHANGED <<seen, finChanged, finEver, born>>

-----------------------------------------------------------------------------
(* handleDequeue                                                           *)

\* Dequeue copies the status of the unit as the shared object has it now, and
\* adds the granted replicas.
grant(u, add) ==
  [u EXCEPT !.phase = "Dequeued",
            !.adm = [n \in DOMAIN u.adm \cup DOMAIN add |->
              IF n \notin DOMAIN u.adm THEN [replicas |-> add[n], running |-> 0, reclaim |-> 0]
              ELSE IF n \notin DOMAIN add THEN u.adm[n]
              ELSE [u.adm[n] EXCEPT !.replicas = @ + add[n]]]]

DequeueRead(d) ==
  /\ proc[d].pc = "dequeue"
  /\ proc' = [proc EXCEPT ![d].pc = "route", ![d].unit = grant(heap[held[d]], proc[d].add)]
  /\ UNCHANGED <<queueVars, api, events, seen, finChanged, finEver, born>>

\* UpdateQueueUnitStatusAndAnnotations first writes Spec.Queue if it differs.
DequeueRoute(d) ==
  LET k == proc[d].unit.key
  IN  /\ proc[d].pc = "route"
      /\ k \in DOMAIN api
      /\ goto(d, "status")
      /\ IF api[k].routed THEN UNCHANGED <<api, events>>
         ELSE room(1) /\ write([api[k] EXCEPT !.routed = TRUE])
      /\ UNCHANGED <<queueVars, seen, finChanged, finEver, born>>

\* ... then replaces the whole status; conflicts are retried until it is done.
DequeueStatus(d) ==
  LET u == proc[d].unit
  IN  /\ proc[d].pc = "status"
      /\ u.key \in DOMAIN api
      /\ room(1)
      /\ write([api[u.key] EXCEPT !.phase = u.phase, !.adm = u.adm])
      /\ finish(d)
      /\ held' = [held EXCEPT ![d] = 0]
      /\ UNCHANGED <<queue, queueUnits, assumed, updating, blockedQuota, nextIdx,
                     parked, lastScheduled, conf, seen, finChanged, finEver, born>>
      /\ Collect(heap)

DequeueFail(d) ==
  /\ proc[d].pc \in {"route", "status"}
  /\ ApiErrors \/ proc[d].unit.key \notin DOMAIN api
  /\ goto(d, "efGet")
  /\ UNCHANGED <<queueVars, api, events, seen, finChanged, finEver, born>>

-----------------------------------------------------------------------------
(* ErrorFunc                                                               *)

ErrorGet(c) ==
  LET k == proc[c].unit.key
  IN  /\ proc[c].pc = "efGet"
      /\ proc' = IF k \in DOMAIN api
                 THEN [proc EXCEPT ![c].pc = "efUpdate", ![c].unit = api[k]]
                 ELSE [proc EXCEPT ![c].pc = "efDelete"]
      /\ UNCHANGED <<queueVars, api, events, seen, finChanged, finEver, born>>

\* The unit is gone: take its key out of the queue.
ErrorDelete(c) ==
  /\ proc[c].pc = "efDelete"
  /\ finish(c)
  /\ held' = [held EXCEPT ![c] = 0]
  /\ Delete(IF held[c] = 0 THEN proc[c].unit ELSE heap[held[c]])
  /\ UNCHANGED <<api, events, seen, finChanged, finEver, born>>

\* UpdateStatus with the new message.
ErrorUpdateOK(c) ==
  /\ proc[c].pc = "efUpdate"
  /\ current(proc[c].unit) /\ room(1)
  /\ write(proc[c].unit)
  /\ goto(c, "efInstall")
  /\ UNCHANGED <<queueVars, seen, finChanged, finEver, born>>

\* A conflict, or any other error but NotFound, is ignored.
ErrorUpdateFail(c) ==
  /\ proc[c].pc = "efUpdate"
  /\ proc[c].unit.key \in DOMAIN api
  /\ ApiErrors \/ ~current(proc[c].unit)
  /\ goto(c, "efInstall")
  /\ UNCHANGED <<queueVars, api, events, seen, finChanged, finEver, born>>

\* NotFound ends ErrorFunc.
ErrorUpdateGone(c) ==
  /\ proc[c].pc = "efUpdate"
  /\ proc[c].unit.key \notin DOMAIN api
  /\ finish(c)
  /\ held' = [held EXCEPT ![c] = 0]
  /\ UNCHANGED <<queue, queueUnits, assumed, updating, blockedQuota, nextIdx,
                 parked, lastScheduled, conf, api, events, seen, finChanged, finEver, born>>
  /\ Collect(heap)

\* s.finished # finished, or a preemption was started. handleDequeue passes
\* finished = 0.
allocatableChanged(c) == IF c = Loop THEN finChanged \/ proc[c].preempted ELSE finEver

\* queueUnit.Unit = newQueueUnit, without the queue's lock ...
ErrorInstall(c) ==
  /\ proc[c].pc = "efInstall"
  /\ goto(c, "efRequeue")
  /\ heap' = IF held[c] = 0 THEN heap ELSE Put(heap, held[c], proc[c].unit)
  /\ UNCHANGED <<queue, queueUnits, held, assumed, updating, blockedQuota, nextIdx,
                 parked, lastScheduled, conf, api, events, seen, finChanged, finEver, born>>

\* ... then back to the queue.
ErrorRequeue(c) ==
  /\ proc[c].pc = "efRequeue"
  /\ finish(c)
  /\ AddUnschedulableIfNotPresent(c, proc[c].unit.key, allocatableChanged(c))
  /\ UNCHANGED <<api, events, seen, finChanged, finEver, born>>

\* Get failed for another reason: the object is given back as it is.
ErrorGetFail(c) ==
  /\ ApiErrors
  /\ proc[c].pc = "efGet"
  /\ goto(c, "efRequeue")
  /\ UNCHANGED <<queueVars, api, events, seen, finChanged, finEver, born>>

-----------------------------------------------------------------------------
(* The informer's handler for QueueUnits                                   *)

HandleEvent ==
  /\ events # <<>>
  /\ events' = Tail(events)
  /\ LET u == Head(events).unit IN
     \/ /\ Head(events).put /\ u.key \notin DOMAIN seen
        /\ AddQueueUnitInfo(u)
        /\ seen' = Put(seen, u.key, u)
        /\ UNCHANGED <<finChanged, finEver>>
     \/ /\ Head(events).put /\ u.key \in DOMAIN seen
        /\ Update(seen[u.key], u)
        /\ seen' = Put(seen, u.key, u)
        /\ UNCHANGED <<finChanged, finEver>>
     \/ /\ ~Head(events).put
        /\ UNCHANGED held /\ Delete(u)
        /\ seen' = Drop(seen, u.key)
        /\ finChanged' = TRUE /\ finEver' = TRUE
  /\ UNCHANGED <<api, proc, born>>

-----------------------------------------------------------------------------
(* Job side: the writes of the job extensions (pkg/jobext) that the queue  *)
(* has to follow                                                           *)

jobWrite(k, u) ==
  /\ room(1) /\ write(u)
  /\ UNCHANGED <<queueVars, seen, proc, finChanged, finEver, born>>

CreateUnit(k) ==
  /\ k \notin DOMAIN api /\ born[k] \in Uids
  /\ room(1)
  /\ born' = [born EXCEPT ![k] = @ + 1]
  /\ \E prio \in Priorities, count \in InitCounts :
       write([key |-> k, uid |-> born[k], prio |-> prio, active |-> TRUE, routed |-> FALSE,
              count |-> count, phase |-> "Enqueued", adm |-> [n \in {} |-> 0]])
  /\ UNCHANGED <<queueVars, seen, proc, finChanged, finEver>>

DeleteUnit(k) ==
  /\ "delete" \in Env /\ room(1)
  /\ api' = Drop(api, k)
  /\ events' = Append(events, [put |-> FALSE, unit |-> api[k]])
  /\ UNCHANGED <<queueVars, seen, proc, finChanged, finEver, born>>

\* updateQueueUnitPriority
EditPriority(k) ==
  /\ "priority" \in Env
  /\ \E prio \in Priorities \ {api[k].prio} : jobWrite(k, [api[k] EXCEPT !.prio = prio])

\* updateQueueUnitReplicas, and reconcilePodSets of the resource reporter
EditReplicas(k) ==
  /\ "resize" \in Env
  /\ \E count \in InitCounts \ {api[k].count} : jobWrite(k, [api[k] EXCEPT !.count = count])

\* syncQueueUnitActivation
EditActive(k) ==
  /\ "activation" \in Env
  /\ jobWrite(k, [api[k] EXCEPT !.active = ~@])

\* reconcileMaxExecutionTime: the pods of the unit run for too long.
MaxExecutionTime(k) ==
  /\ "deadline" \in Env
  /\ api[k].active /\ api[k].phase = "Running"
  /\ jobWrite(k, [api[k] EXCEPT !.active = FALSE])

\* The reconciler deals with an inactive unit before it looks at the job's status.
evicting(u) == QueueUnitActive /\ ~u.active /\ u.phase \notin {"Succeed", "Failed"}

\* reconcileDeactivation: an inactive unit goes back to Enqueued and its job is
\* suspended, again and again for as long as it holds something. The admissions
\* are left to the resource reporter.
Deactivated(k) ==
  LET u == api[k]
  IN  /\ evicting(u)
      /\ \A n \in DOMAIN u.adm : u.adm[n].reclaim = 0
      /\ IsQueueUnitReservedAnyResource(u) \/ u.phase # "Enqueued"
      /\ jobWrite(k, [u EXCEPT !.phase = "Enqueued"])

\* Choices of one number of pods, from 0..MaxReplicas, per admitted pod set.
PerPodSet(k) == [DOMAIN api[k].adm -> 0..MaxReplicas]

\* syncInFlightWorkers: Running becomes the number of pods that have a node. It
\* goes down after reconcilePodDeletion, or with the pods of a running job.
PodsScheduled(k) ==
  LET u == api[k]
  IN  /\ u.phase \in {"Dequeued", "Running"}
      /\ \E r \in PerPodSet(k) :
           /\ \A n \in DOMAIN u.adm :
                \/ r[n] = u.adm[n].running
                \/ /\ r[n] <= u.adm[n].replicas
                   /\ r[n] = u.adm[n].replicas \/ "partialRun" \in Env
                   /\ \/ r[n] > u.adm[n].running
                      \/ u.adm[n].running > u.adm[n].replicas
                      \/ u.phase = "Running" /\ "podLost" \in Env
           /\ \E n \in DOMAIN u.adm : r[n] # u.adm[n].running
           /\ jobWrite(k, [u EXCEPT !.adm = [n \in DOMAIN u.adm |->
                [u.adm[n] EXCEPT !.running = r[n]]]])

\* reconcileReclaim: pods without a node are given up for the reclaims asked
\* for; every ReclaimState is cleared.
Reclaimed(k) ==
  LET u == api[k]
      waiting(n) == Max({0, u.adm[n].replicas - u.adm[n].running})
  IN  \E give \in PerPodSet(k) :
        /\ \A n \in DOMAIN u.adm : give[n] <= Min({u.adm[n].reclaim, waiting(n)})
        /\ \E n \in DOMAIN u.adm : give[n] > 0
        /\ jobWrite(k, [u EXCEPT !.adm = [n \in DOMAIN u.adm |->
             [u.adm[n] EXCEPT !.replicas = @ - give[n], !.reclaim = 0]]])

\* reconcileOveradmission: what exceeds the request and has no live pod is
\* released, and counts for the reclaim asked for.
Overadmitted(k) ==
  LET u == api[k]
  IN  \E give \in PerPodSet(k) :
        /\ \A n \in DOMAIN u.adm :
             give[n] <= Max({0, u.adm[n].replicas - Max({u.count[n], u.adm[n].running})})
        /\ \E n \in DOMAIN u.adm : give[n] > 0
        /\ jobWrite(k, [u EXCEPT !.adm = [n \in DOMAIN u.adm |->
             [u.adm[n] EXCEPT !.replicas = @ - give[n], !.reclaim = Max({0, @ - give[n]})]]])

\* reconcilePartialRunningTimeout
PartialRunningTimeout(k) ==
  LET u == api[k]
      late == {n \in DOMAIN u.adm : u.adm[n].running < u.adm[n].replicas}
  IN  /\ "timeout" \in Env
      /\ u.phase \in {"Dequeued", "Running"}
      /\ \E S \in SUBSET late \ {{}} :
           jobWrite(k, [u EXCEPT !.adm = [n \in DOMAIN u.adm |->
             IF n \in S THEN [u.adm[n] EXCEPT !.replicas = u.adm[n].running] ELSE u.adm[n]]])

\* MUTANT: the admission goes down even when it is zero.
PodDeletedBelowZero(k) ==
  LET u == api[k]
  IN  /\ "podDeleted" \in Env /\ u.phase = "Dequeued"
      /\ \E gone \in PerPodSet(k) :
           /\ \A n \in DOMAIN u.adm : gone[n] > 0 => u.adm[n].reclaim = 0
           /\ \E n \in DOMAIN u.adm : gone[n] > 0
           /\ jobWrite(k, [u EXCEPT !.adm = [n \in DOMAIN u.adm |->
                [u.adm[n] EXCEPT !.replicas = @ - gone[n]]]])

\* reconcilePodDeletion: pods that were seen before, with "podLost" also pods
\* that had a node, are gone. Running is left to syncInFlightWorkers.
PodDeleted(k) ==
  LET u == api[k]
  IN  /\ "podDeleted" \in Env /\ u.phase = "Dequeued"
      /\ \E gone \in PerPodSet(k) :
           /\ \A n \in DOMAIN u.adm :
                /\ gone[n] <= u.adm[n].replicas
                /\ gone[n] > 0 => u.adm[n].reclaim = 0
                /\ gone[n] > Max({0, u.adm[n].replicas - u.adm[n].running}) => "podLost" \in Env
           /\ \E n \in DOMAIN u.adm : gone[n] > 0
           /\ jobWrite(k, [u EXCEPT !.adm = [n \in DOMAIN u.adm |->
                [u.adm[n] EXCEPT !.replicas = @ - gone[n]]]])

\* A job that was resumed, when the unit was dequeued, may run and end whatever
\* became of the unit since.
resumed(u) == ~evicting(u) /\ DOMAIN u.adm # {}

\* The job's status becomes Running; with enableRunningToPending a running job
\* that is pending again returns to Dequeued.
JobRunning(k) ==
  /\ "running" \in Env /\ resumed(api[k])
  /\ jobWrite(k, [api[k] EXCEPT !.phase = IF @ = "Running" THEN "Dequeued" ELSE "Running"])

\* The end of the job drops the admissions.
JobFinished(k) ==
  /\ "finished" \in Env /\ resumed(api[k])
  /\ \E phase \in {"Succeed", "Failed"} :
       jobWrite(k, [api[k] EXCEPT !.phase = phase, !.adm = [n \in {} |-> 0]])

\* The job did not start in time, and returns to the queue after the backoff.
JobBackoff(k) ==
  /\ "backoff" \in Env /\ ~evicting(api[k])
  /\ \/ /\ api[k].phase = "Dequeued"
        /\ jobWrite(k, [api[k] EXCEPT !.phase = "Backoff"])
     \/ /\ api[k].phase = "Backoff"
        /\ jobWrite(k, [api[k] EXCEPT !.phase = "Enqueued"])

ChangeSettings ==
  /\ "settings" \in Env
  /\ \E new \in Confs \ {conf} : ChangeConf(new)
  /\ UNCHANGED <<api, events, seen, proc, finChanged, finEver, born>>

\* The controller stops and starts again: its memory is gone, and the informer
\* lists what is stored.
Restart ==
  /\ "restart" \in Env
  /\ NewPriorityQueue
  /\ proc' = [c \in Callers |-> Idle]
  /\ seen' = [k \in {} |-> NoUnit]
  /\ \E order \in SetToSeqs(DOMAIN api) :
       events' = [i \in DOMAIN order |-> [put |-> TRUE, unit |-> api[order[i]]]]
  /\ finChanged' = FALSE /\ finEver' = FALSE
  /\ UNCHANGED <<api, born>>

TimerFires == WakeUp /\ UNCHANGED <<api, events, seen, proc, finChanged, finEver, born>>

FixQueue == fixQueue /\ UNCHANGED <<api, events, seen, proc, finChanged, finEver, born>>

-----------------------------------------------------------------------------
LoopStep == Begin \/ Next1 \/ FilterFail \/ FilterOK \/ PluginReserveFail
              \/ ReserveStep \/ ReserveRefused

DequeueStep(d) == DequeueRead(d) \/ DequeueRoute(d) \/ DequeueStatus(d) \/ DequeueFail(d)

ErrorStep(c) == ErrorGet(c) \/ ErrorDelete(c) \/ ErrorUpdateOK(c) \/ ErrorUpdateFail(c)
                  \/ ErrorUpdateGone(c) \/ ErrorInstall(c) \/ ErrorRequeue(c) \/ ErrorGetFail(c)

JobStep(k) ==
  \/ CreateUnit(k)
  \/ /\ k \in DOMAIN api
     /\ \/ DeleteUnit(k) \/ EditPriority(k) \/ EditActive(k)
        \/ EditReplicas(k) \/ MaxExecutionTime(k) \/ Deactivated(k)
        \/ PodsScheduled(k) \/ PodDeleted(k)
        \/ Reclaimed(k) \/ Overadmitted(k) \/ PartialRunningTimeout(k)
        \/ JobRunning(k) \/ JobFinished(k) \/ JobBackoff(k)

Next ==
  \/ LoopStep
  \/ \E d \in Dequeuers : DequeueStep(d)
  \/ \E c \in Callers : ErrorStep(c)
  \/ HandleEvent
  \/ TimerFires \/ FixQueue \/ ChangeSettings \/ Restart
  \/ \E k \in Keys : JobStep(k)

Spec == Init /\ [][Next]_vars

\* The goroutines run, the informer delivers and armed timers fire; nothing is
\* assumed about what Filter answers or about the jobs. The code that writes to
\* the API server is never kept waiting by a full informer channel, MaxEvents
\* is: strong fairness gives those goroutines back what the bound takes.
Fairness ==
  /\ WF_vars(LoopStep)
  /\ \A d \in Dequeuers : SF_vars(DequeueStep(d))
  /\ \A c \in Callers : SF_vars(ErrorStep(c))
  /\ WF_vars(HandleEvent)
  /\ WF_vars(TimerFires)

FairSpec == Spec /\ Fairness

\* The resource reporter runs again whenever pods come or go, and the job
\* reconciler every DefaultRequeuePeriod.
Reconcile(k) ==
  k \in DOMAIN api /\ (Deactivated(k) \/ PodsScheduled(k) \/ Reclaimed(k) \/ Overadmitted(k))

Report(k) == k \in DOMAIN api /\ PodDeleted(k)

FairJobSpec == FairSpec /\ \A k \in Keys : SF_vars(Reconcile(k)) /\ SF_vars(Report(k))

-----------------------------------------------------------------------------
(* Properties                                                              *)

PCs == {"idle", "next", "filter", "reserve", "dequeue", "route", "status",
        "efGet", "efDelete", "efUpdate", "efInstall", "efRequeue"}

\* Every variable keeps its type: pointers the queue and the goroutines use are
\* live, and stored, cached and queued objects are QueueUnits.
TypeOK ==
  /\ QueueTypeOK
  /\ DOMAIN api \subseteq Keys /\ \A k \in DOMAIN api : IsUnit(api[k]) /\ api[k].key = k
  /\ Len(events) <= MaxEvents
  /\ \A i \in DOMAIN events : events[i].put \in BOOLEAN /\ IsUnit(events[i].unit)
  /\ DOMAIN seen \subseteq Keys /\ \A k \in DOMAIN seen : IsUnit(seen[k]) /\ seen[k].key = k
  /\ \A c \in Callers :
       /\ proc[c].pc \in PCs /\ (proc[c].unit = NoUnit \/ IsUnit(proc[c].unit))
       /\ proc[c].preempted \in BOOLEAN
  /\ finChanged \in BOOLEAN /\ finEver \in BOOLEAN
  /\ born \in [Keys -> Nat]

dequeuing(d) == proc[d].pc \in {"dequeue", "route", "status"}

\* No two goroutines write the admission of the same unit: once Reserve put the
\* unit into q.updating, findNextQueueUnit does not hand it out again before
\* its Dequeue ended (comment of DequeueSuccess).
OneDequeueInFlight ==
  \A d, e \in Dequeuers :
    dequeuing(d) /\ dequeuing(e) /\ proc[d].unit.key = proc[e].unit.key => d = e


\* q.queue and q.queueUnits hold the same QueueUnitInfo objects, each once and
\* under its own key.
QueueMatchesIndex ==
  /\ IsInjective(queue)
  /\ Range(queue) = Range(queueUnits)
  /\ \A k \in DOMAIN queueUnits : heap[queueUnits[k]].key = k

\* Every unit of q.queueUnits is in q.queue, where findNextQueueUnit looks for
\* it: a search in a slice that is out of order may leave an entry behind, but
\* never takes the wrong one out.
IndexedUnitsListed == Range(queueUnits) \subseteq Range(queue)

drained == events = <<>>

\* Once the informer delivered everything, exactly the stored units whose
\* requirements are not satisfied by running pods are in the queue (comment of
\* IsQueueUnitDequeued).
PendingUnitsQueued ==
  drained => DOMAIN queueUnits = {k \in DOMAIN api : ~IsQueueUnitDequeued(api[k])}

idle(k) == \A c \in Callers : proc[c].unit.key # k

\* What findNextQueueUnit, Filter and the queue order read of a unit.
decisive(u) == <<u.prio, u.active, u.count, [n \in PodSets |-> Admitted(u, n)]>>

\* Once the informer delivered everything and no goroutine works on the unit,
\* the queue decides on what is stored: there is no resync that would repair
\* an outdated copy (comment in Update, on the activation change).
QueueCopyIsCurrent ==
  \A k \in DOMAIN queueUnits :
    drained /\ idle(k) /\ k \in DOMAIN api => decisive(heap[queueUnits[k]]) = decisive(api[k])

\* A unit that lacks pods, has none left to wait for, and that no goroutine
\* works on, is not held back by q.updating: nothing would schedule it again.
NotStuckUpdating ==
  \A k \in DOMAIN queueUnits :
    /\ drained /\ idle(k) /\ k \in DOMAIN api
    /\ ~IsQueueUnitSatisfied(api[k]) /\ ~IsQueueUnitReservedNotRun(api[k])
    => k \notin updating

\* Once the informer delivered everything, a unit that holds resources its pods
\* do not use yet, and that no goroutine works on, is in q.assumed: Reserve
\* and Preempt rely on that set.
AssumedCoversStarting ==
  \A k \in DOMAIN api :
    /\ drained /\ idle(k)
    /\ IsQueueUnitReservedAnyResource(api[k]) /\ ~IsQueueUnitAllRunning(api[k])
    => k \in assumed


\* A unit that is set inactive eventually holds nothing: its job is suspended, and
\* once the pods are gone the resource reporter shrinks the admitted replicas
\* (comment of reconcileDeactivation).
DeactivatedUnitsGiveBack ==
  \A k \in Keys :
    k \in DOMAIN api /\ ~api[k].active
      ~> k \notin DOMAIN api \/ api[k].active \/ ~IsQueueUnitReservedAnyResource(api[k])

\* The loop runs the filter plugins for unit k.
tried(k) == proc[Loop].pc = "filter" /\ heap[held[Loop]].key = k

\* Under policy Priority every unit that lacks pods is eventually tried, however
\* often the units before it are refused: the cursor passes them, starts over
\* at the end, and no wake-up is lost for good.
PendingUnitsAreTried ==
  \A k \in Keys :
    k \in DOMAIN api /\ ~IsQueueUnitSatisfied(api[k])
      ~> tried(k) \/ k \notin DOMAIN api \/ IsQueueUnitSatisfied(api[k])
=============================================================================
