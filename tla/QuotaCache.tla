----------------------------- MODULE QuotaCache -----------------------------
(***************************************************************************)
(* The accounting of the ElasticQuota plugin: cacheImpl and                *)
(* ElasticQuotaInfo of pkg/framework/plugins/elasticquotav1alpha1. Every   *)
(* method of the cache holds its lock, so each is one action.              *)
(*                                                                         *)
(* A queue unit is seen here as an object [uid, quota, amount]: the UID,   *)
(* the quota its label names, and GetReservedResource. A unit that is      *)
(* reserved counts in the quota of its label and in every ancestor of it.  *)
(* Min is never read, and GuaranteedUsed, SelfGuaranteedUsed and           *)
(* ChildrenGuaranteedUsed repeat Used, SelfUsed and ChildrenUsed: they are *)
(* left out.                                                               *)
(***************************************************************************)
EXTENDS Integers, Maps

CONSTANTS UnitIds,   \* UIDs of queue units
          Quotas,    \* names of ElasticQuotas
          Root,      \* KoordRootQuota; an ElasticQuota of that name may exist
          Resources, \* resource names
          Amounts,   \* resource amounts units may hold
          Limits,    \* values of Spec.Max: functions from a set of resources
          Oversell   \* OversellRate, in percent

\* "": the parent of the root quota.
NoParent == "no parent"

ASSUME AmountsAssumption == Amounts \subseteq [Resources -> Nat]

ASSUME RootAssumption == Root \in Quotas

Objects == [uid : UnitIds, quota : Quotas, amount : Amounts]

VARIABLES reserved,    \* c.reserved: UID -> quota name
          scheduling,  \* c.scheduling
          quotas,      \* c.quotas: name -> ElasticQuotaInfo
          quotaParent  \* c.quotaParent

cacheVars == <<reserved, scheduling, quotas, quotaParent>>

-----------------------------------------------------------------------------
(* ElasticQuotaInfo                                                        *)

Zero == [r \in Resources |-> 0]

NewElasticQuotaInfo(max) ==
  [Max |-> max, Used |-> Zero, SelfUsed |-> Zero, ChildrenUsed |-> Zero,
   Reserved |-> Empty]

UpdateUsage(a, b, m) == [r \in Resources |-> a[r] + m * b[r]]

AddQueueUnit(info, q, u) ==
  IF u.uid \in DOMAIN info.Reserved THEN info
  ELSE [info EXCEPT !.Reserved = Put(@, u.uid, u),
                    !.Used = UpdateUsage(@, u.amount, 1),
                    !.SelfUsed = IF u.quota = q THEN UpdateUsage(@, u.amount, 1) ELSE @,
                    !.ChildrenUsed = IF u.quota = q THEN @ ELSE UpdateUsage(@, u.amount, 1)]

\* MUTANT: ChildrenUsed is forgotten.
DeleteFromSelf(info, q, uid) ==
  LET old == info.Reserved[uid]
  IN  IF uid \notin DOMAIN info.Reserved THEN info
      ELSE [info EXCEPT !.Reserved = Drop(@, uid),
                        !.Used = UpdateUsage(@, old.amount, -1),
                        !.SelfUsed = IF old.quota = q THEN UpdateUsage(@, old.amount, -1) ELSE @]

\* MUTANT: the usage is kept.
DeleteKeepUsed(info, q, uid) == [info EXCEPT !.Reserved = Drop(@, uid)]

\* What is given back is what the stored object holds.
DeleteQueueUnit(info, q, uid) ==
  LET old == info.Reserved[uid]
  IN  IF uid \notin DOMAIN info.Reserved THEN info
      ELSE [info EXCEPT !.Reserved = Drop(@, uid),
                        !.Used = UpdateUsage(@, old.amount, -1),
                        !.SelfUsed = IF old.quota = q THEN UpdateUsage(@, old.amount, -1) ELSE @,
                        !.ChildrenUsed = IF old.quota = q THEN @ ELSE UpdateUsage(@, old.amount, -1)]

\* MUTANT: only the stored object is swapped.
ResizeSwapOnly(info, q, u) ==
  IF u.uid \notin DOMAIN info.Reserved THEN info ELSE [info EXCEPT !.Reserved = Put(@, u.uid, u)]

\* An unchanged amount only swaps the stored object.
ResizeQueueUnit(info, q, u) ==
  IF u.uid \notin DOMAIN info.Reserved THEN info
  ELSE IF info.Reserved[u.uid].amount = u.amount
       THEN [info EXCEPT !.Reserved = Put(@, u.uid, u)]
       ELSE AddQueueUnit(DeleteQueueUnit(info, q, u.uid), q, u)

\* checkResource, with info.CheckUsage's refusal of an empty limit.
fits(info, request) ==
  /\ DOMAIN info.Max # {}
  /\ \A r \in DOMAIN info.Max \cap Resources :
       100 * (info.Used[r] + request[r]) <= Oversell * info.Max[r]

-----------------------------------------------------------------------------
(* The walk to the root                                                    *)

closedUpwards(S, parent, names) == \A s \in S : parent[s] \in names => parent[s] \in S

\* The quotas met from q upwards, until one is not known or was met before: the
\* smallest set with q that is closed under taking the parent.
walk(q, parent, names) ==
  {r \in names : \A S \in SUBSET names :
                  {q} \cap names \subseteq S /\ closedUpwards(S, parent, names) => r \in S}

path(q) == walk(q, quotaParent, DOMAIN quotas)

\* MUTANT: only the unit's own quota is asked.
CheckOwnUsage(q, request) == q = Root \/ (q \in DOMAIN quotas /\ fits(quotas[q], request))

\* CheckUsage stops below the root quota; it fails unless it gets there.
CheckUsage(q, request) ==
  LET limited == walk(q, quotaParent, DOMAIN quotas \ {Root})
  IN  q = Root \/ /\ \E r \in limited : quotaParent[r] = Root
                  /\ \A r \in limited : fits(quotas[r], request)

-----------------------------------------------------------------------------
(* Methods that change the cache. The quota a method is called with is the *)
(* label of the unit it is called with.                                    *)

\* MUTANT: only the unit's own quota counts it.
addOwn(qs, u) ==
  [q \in DOMAIN qs |-> IF q = u.quota THEN AddQueueUnit(qs[q], q, u) ELSE qs[q]]

\* MUTANT: every level counts the unit as its own.
addEverywhereSelf(qs, u) ==
  [q \in DOMAIN qs |->
     IF q \in path(u.quota) THEN AddQueueUnit(qs[q], q, [u EXCEPT !.quota = q]) ELSE qs[q]]

addAlong(qs, u) ==
  [q \in DOMAIN qs |-> IF q \in path(u.quota) THEN AddQueueUnit(qs[q], q, u) ELSE qs[q]]

\* MUTANT: the walk starts at the parent.
deleteAbove(qs, u) ==
  [q \in DOMAIN qs |-> IF q \in path(u.quota) \ {u.quota} THEN DeleteQueueUnit(qs[q], q, u.uid)
                       ELSE qs[q]]

deleteAlong(qs, u) ==
  [q \in DOMAIN qs |-> IF q \in path(u.quota) THEN DeleteQueueUnit(qs[q], q, u.uid) ELSE qs[q]]

resizeAlong(qs, u) ==
  [q \in DOMAIN qs |-> IF q \in path(u.quota) THEN ResizeQueueUnit(qs[q], q, u) ELSE qs[q]]

known(u) == u.quota \in DOMAIN quotas

isReserved(u) == u.uid \in DOMAIN reserved

\* reserve returns an error.
reserveFails(u) == IF isReserved(u) THEN reserved[u.uid] # u.quota ELSE ~known(u)

\* Nothing happens, with or without an error, if the unit is reserved already.
reserve(u) ==
  /\ IF isReserved(u) \/ ~known(u) THEN UNCHANGED <<reserved, quotas>>
     ELSE /\ reserved' = Put(reserved, u.uid, u.quota)
          /\ quotas' = addAlong(quotas, u)
  /\ UNCHANGED <<scheduling, quotaParent>>

unreserve(u) ==
  /\ IF ~isReserved(u) \/ ~known(u) THEN UNCHANGED <<reserved, quotas>>
     ELSE /\ reserved' = Drop(reserved, u.uid)
          /\ quotas' = deleteAlong(quotas, u)
  /\ UNCHANGED <<scheduling, quotaParent>>

resizeInPlace(u) ==
  /\ reserved' = reserved
  /\ quotas' = IF isReserved(u) /\ known(u) THEN resizeAlong(quotas, u) ELSE quotas
  /\ UNCHANGED <<scheduling, quotaParent>>

\* Another label: unreserve, then reserve unless that failed.
moveReservation(old, new) ==
  IF ~isReserved(old) THEN reserve(new)
  ELSE /\ IF ~known(old) THEN UNCHANGED <<reserved, quotas>>
          ELSE IF known(new)
          THEN /\ reserved' = Put(reserved, new.uid, new.quota)
               /\ quotas' = addAlong(deleteAlong(quotas, old), new)
          ELSE /\ reserved' = Drop(reserved, old.uid)
               /\ quotas' = deleteAlong(quotas, old)
       /\ UNCHANGED <<scheduling, quotaParent>>

Resize(old, new) ==
  IF old.quota = new.quota THEN resizeInPlace(new) ELSE moveReservation(old, new)

AddOrUpdateQuota(q, parent, max) ==
  /\ quotas' = IF q \in DOMAIN quotas THEN [quotas EXCEPT ![q].Max = max]
               ELSE Put(quotas, q, NewElasticQuotaInfo(max))
  /\ quotaParent' = Put(quotaParent, q, parent)
  /\ UNCHANGED <<reserved, scheduling>>

\* MUTANT: the parent is kept.
DeleteQuotaOnly(q) == quotas' = Drop(quotas, q) /\ UNCHANGED <<reserved, scheduling, quotaParent>>

DeleteQuota(q) ==
  /\ quotas' = Drop(quotas, q)
  /\ quotaParent' = Drop(quotaParent, q)
  /\ UNCHANGED <<reserved, scheduling>>

MarkScheduling(uid) ==
  scheduling' = scheduling \cup {uid} /\ UNCHANGED <<reserved, quotas, quotaParent>>

ClearScheduling(uid) ==
  scheduling' = scheduling \ {uid} /\ UNCHANGED <<reserved, quotas, quotaParent>>

-----------------------------------------------------------------------------
(* The cache by itself                                                     *)

\* Quotas may be loaded already.
CacheInit ==
  /\ reserved = Empty
  /\ scheduling = {}
  /\ quotas = [q \in DOMAIN quotas |-> NewElasticQuotaInfo(quotas[q].Max)]
  /\ DOMAIN quotas \subseteq Quotas /\ \A q \in DOMAIN quotas : quotas[q].Max \in Limits
  /\ quotaParent \in [DOMAIN quotas -> Quotas \cup {NoParent}]

ResizeCall(old, new) == old.uid = new.uid /\ Resize(old, new)

MarkCall == \E uid \in UnitIds : MarkScheduling(uid) \/ ClearScheduling(uid)

QuotaCall ==
  \/ \E q \in Quotas, parent \in Quotas \cup {NoParent}, max \in Limits :
       AddOrUpdateQuota(q, parent, max)
  \/ \E q \in Quotas : DeleteQuota(q)

\* Any calls at all.
OpenNext ==
  \/ \E u \in Objects : reserve(u) \/ unreserve(u)
  \/ \E old, new \in Objects : ResizeCall(old, new)
  \/ MarkCall \/ QuotaCall

OpenSpec == CacheInit /\ [][OpenNext]_cacheVars

\* The label of u is the one u was reserved with.
honest(u) == isReserved(u) => reserved[u.uid] = u.quota

\* No quota above a reserved unit comes, goes or moves.
pathsKept ==
  \A uid \in DOMAIN reserved :
    /\ reserved[uid] \in DOMAIN quotas'
    /\ walk(reserved[uid], quotaParent', DOMAIN quotas') = path(reserved[uid])

\* Callers that name a unit by the quota it is reserved in, while the quotas
\* above reserved units stay where they are.
CacheNext ==
  \/ \E u \in Objects : reserve(u) \/ (honest(u) /\ unreserve(u))
  \/ \E old, new \in Objects : honest(old) /\ ResizeCall(old, new)
  \/ MarkCall
  \/ QuotaCall /\ pathsKept

CacheSpec == CacheInit /\ [][CacheNext]_cacheVars

-----------------------------------------------------------------------------
(* Properties                                                              *)

IsInfo(info) ==
  /\ info \in [Max : Limits, Used : [Resources -> Int], SelfUsed : [Resources -> Int],
               ChildrenUsed : [Resources -> Int], Reserved : {info.Reserved}]
  /\ IsMap(info.Reserved, UnitIds, Objects)

\* Every variable of the cache keeps its type, and the two maps about quotas
\* have the same keys.
CacheTypeOK ==
  /\ IsMap(reserved, UnitIds, Quotas)
  /\ scheduling \subseteq UnitIds
  /\ quotas = [q \in DOMAIN quotas |-> quotas[q]] /\ DOMAIN quotas \subseteq Quotas
  /\ \A q \in DOMAIN quotas : IsInfo(quotas[q])
  /\ quotaParent \in [DOMAIN quotas -> Quotas \cup {NoParent}]

\* A unit counts in exactly the quotas from the one it is reserved in up to the
\* root: reserve, unreserve and Resize find every level they left it in.
PathConsistent ==
  /\ \A uid \in DOMAIN reserved : reserved[uid] \in DOMAIN quotas
  /\ \A q \in DOMAIN quotas, uid \in UnitIds :
       uid \in DOMAIN quotas[q].Reserved
         <=> uid \in DOMAIN reserved /\ q \in path(reserved[uid])

\* Every level counts the same object for a unit, under its own UID and with
\* the label it is reserved with: what one level gave, all levels get back.
LevelsAgree ==
  \A q, r \in DOMAIN quotas :
    \A uid \in DOMAIN quotas[q].Reserved \cap DOMAIN quotas[r].Reserved :
      /\ quotas[q].Reserved[uid] = quotas[r].Reserved[uid]
      /\ quotas[q].Reserved[uid].uid = uid
      /\ quotas[q].Reserved[uid].quota = reserved[uid]

\* What counts in a quota counts in its parent, as CheckUsage of the parent
\* relies on.
ParentCountsChildren ==
  \A q \in DOMAIN quotas : quotaParent[q] \in DOMAIN quotas =>
    DOMAIN quotas[q].Reserved \subseteq DOMAIN quotas[quotaParent[q]].Reserved

\* Used is what the quota's own units and those of its descendants use.
UsedIsSelfAndChildren ==
  \A q \in DOMAIN quotas, r \in Resources :
    quotas[q].Used[r] = quotas[q].SelfUsed[r] + quotas[q].ChildrenUsed[r]
=============================================================================
