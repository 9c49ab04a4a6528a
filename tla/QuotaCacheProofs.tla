-------------------------- MODULE QuotaCacheProofs --------------------------
(***************************************************************************)
(* What the quota cache promises, for any units, quotas and amounts. The   *)
(* walk to the root is used only through the lemmas about walk; what a     *)
(* level does with a unit only through those about ElasticQuotaInfo.       *)
(***************************************************************************)
EXTENDS QuotaCache, TLAPS

-----------------------------------------------------------------------------
(* Maps                                                                    *)

\* m[k] = v changes the value of k and nothing else.
LEMMA PutLemma ==
  ASSUME NEW S, NEW T, NEW f, IsMap(f, S, T), NEW k \in S, NEW v \in T
  PROVE  /\ IsMap(Put(f, k, v), S, T)
         /\ DOMAIN Put(f, k, v) = DOMAIN f \cup {k}
         /\ Put(f, k, v)[k] = v
         /\ \A x \in DOMAIN f : x # k => Put(f, k, v)[x] = f[x]
BY DEF IsMap, Put

\* delete(m, k) takes k out and changes nothing else.
LEMMA DropLemma ==
  ASSUME NEW S, NEW T, NEW f, IsMap(f, S, T), NEW k
  PROVE  /\ IsMap(Drop(f, k), S, T)
         /\ DOMAIN Drop(f, k) = DOMAIN f \ {k}
         /\ \A x \in DOMAIN f : x # k => Drop(f, k)[x] = f[x]
BY DEF IsMap, Drop

-----------------------------------------------------------------------------
(* The walk to the root                                                    *)

\* The walk visits only quotas the cache knows.
LEMMA WalkKnown ==
  ASSUME NEW q, NEW parent, NEW names
  PROVE  walk(q, parent, names) \subseteq names
BY DEF walk

\* The walk does not stop below a quota the cache knows.
LEMMA WalkClosed ==
  ASSUME NEW q, NEW parent, NEW names, NEW r \in walk(q, parent, names), parent[r] \in names
  PROVE  parent[r] \in walk(q, parent, names)
BY DEF walk, closedUpwards

-----------------------------------------------------------------------------
(* ElasticQuotaInfo                                                        *)

\* Used splits into SelfUsed and ChildrenUsed.
splits(info) == \A r \in Resources : info.Used[r] = info.SelfUsed[r] + info.ChildrenUsed[r]

\* Adding or taking away an amount gives integers.
LEMMA UsageLemma ==
  ASSUME NEW a \in [Resources -> Int], NEW b \in Amounts, NEW m \in {1, -1}
  PROVE  /\ UpdateUsage(a, b, m) \in [Resources -> Int]
         /\ \A r \in Resources : UpdateUsage(a, b, m)[r] = a[r] + m * b[r] /\ b[r] \in Int
<1>1. b \in [Resources -> Nat]
  BY AmountsAssumption
<1>2. CASE m = 1
  BY <1>1, <1>2 DEF UpdateUsage
<1>3. CASE m = -1
  BY <1>1, <1>3 DEF UpdateUsage
<1>4. QED
  BY <1>2, <1>3

\* A new quota counts nothing.
LEMMA NewInfo ==
  ASSUME NEW max \in Limits
  PROVE  /\ IsInfo(NewElasticQuotaInfo(max)) /\ splits(NewElasticQuotaInfo(max))
         /\ DOMAIN NewElasticQuotaInfo(max).Reserved = {}
BY DEF IsInfo, NewElasticQuotaInfo, IsMap, Empty, Zero, splits

\* AddQueueUnit counts a unit that is not counted yet, and no other.
LEMMA AddLemma ==
  ASSUME NEW info, IsInfo(info), NEW q, NEW u \in Objects
  PROVE  LET new == AddQueueUnit(info, q, u)
         IN  /\ IsInfo(new)
             /\ DOMAIN new.Reserved = DOMAIN info.Reserved \cup {u.uid}
             /\ u.uid \notin DOMAIN info.Reserved => new.Reserved[u.uid] = u
             /\ \A v \in DOMAIN info.Reserved : new.Reserved[v] = info.Reserved[v]
             /\ splits(info) => splits(new)
<1> DEFINE new == AddQueueUnit(info, q, u)
<1>1. CASE u.uid \in DOMAIN info.Reserved
  BY <1>1 DEF AddQueueUnit
<1>2. CASE u.uid \notin DOMAIN info.Reserved
  <2> DEFINE res == Put(info.Reserved, u.uid, u)
             used == UpdateUsage(info.Used, u.amount, 1)
             self == UpdateUsage(info.SelfUsed, u.amount, 1)
             children == UpdateUsage(info.ChildrenUsed, u.amount, 1)
  <2>1. u.uid \in UnitIds /\ u.amount \in Amounts
    BY DEF Objects
  <2>2. /\ IsMap(res, UnitIds, Objects) /\ DOMAIN res = DOMAIN info.Reserved \cup {u.uid}
        /\ res[u.uid] = u /\ \A v \in DOMAIN info.Reserved : res[v] = info.Reserved[v]
    BY <1>2, <2>1, PutLemma DEF IsInfo
  <2>3. /\ used \in [Resources -> Int] /\ self \in [Resources -> Int] /\ children \in [Resources -> Int]
        /\ \A r \in Resources :
             /\ used[r] = info.Used[r] + u.amount[r]
             /\ self[r] = info.SelfUsed[r] + u.amount[r]
             /\ children[r] = info.ChildrenUsed[r] + u.amount[r]
             /\ u.amount[r] \in Int
    BY <2>1, UsageLemma DEF IsInfo
  <2>4. /\ new = [info EXCEPT !.Reserved = res, !.Used = used,
                   !.SelfUsed = IF u.quota = q THEN self ELSE info.SelfUsed,
                   !.ChildrenUsed = IF u.quota = q THEN info.ChildrenUsed ELSE children]
    BY <1>2 DEF AddQueueUnit, IsInfo
  <2> HIDE DEF new, res, used, self, children
  <2>5. IsInfo(new) /\ new.Reserved = res
    BY <2>2, <2>3, <2>4 DEF IsInfo
  <2>6. splits(info) => splits(new)
    BY <2>3, <2>4 DEF splits, IsInfo
  <2>7. QED
    BY <1>2, <2>2, <2>5, <2>6 DEF new
<1>3. QED
  BY <1>1, <1>2

\* DeleteQueueUnit forgets a unit, and no other.
LEMMA DeleteLemma ==
  ASSUME NEW info, IsInfo(info), NEW q, NEW uid
  PROVE  LET new == DeleteQueueUnit(info, q, uid)
         IN  /\ IsInfo(new)
             /\ DOMAIN new.Reserved = DOMAIN info.Reserved \ {uid}
             /\ \A v \in DOMAIN info.Reserved : v # uid => new.Reserved[v] = info.Reserved[v]
             /\ splits(info) => splits(new)
<1> DEFINE new == DeleteQueueUnit(info, q, uid)
<1>1. CASE uid \notin DOMAIN info.Reserved
  BY <1>1 DEF DeleteQueueUnit
<1>2. CASE uid \in DOMAIN info.Reserved
  <2> DEFINE old == info.Reserved[uid]
             res == Drop(info.Reserved, uid)
             used == UpdateUsage(info.Used, old.amount, -1)
             self == UpdateUsage(info.SelfUsed, old.amount, -1)
             children == UpdateUsage(info.ChildrenUsed, old.amount, -1)
  <2>1. old.amount \in Amounts
    BY <1>2 DEF Objects, IsInfo, IsMap
  <2>2. /\ IsMap(res, UnitIds, Objects) /\ DOMAIN res = DOMAIN info.Reserved \ {uid}
        /\ \A v \in DOMAIN info.Reserved : v # uid => res[v] = info.Reserved[v]
    <3>1. IsMap(info.Reserved, UnitIds, Objects)
      BY DEF IsInfo
    <3>2. QED
      BY <3>1 DEF IsMap, Drop
  <2>3. /\ used \in [Resources -> Int] /\ self \in [Resources -> Int] /\ children \in [Resources -> Int]
        /\ \A r \in Resources :
             /\ used[r] = info.Used[r] + (-1) * old.amount[r]
             /\ self[r] = info.SelfUsed[r] + (-1) * old.amount[r]
             /\ children[r] = info.ChildrenUsed[r] + (-1) * old.amount[r]
             /\ old.amount[r] \in Int
    BY <2>1, UsageLemma DEF IsInfo
  <2>4. /\ new = [info EXCEPT !.Reserved = res, !.Used = used,
                   !.SelfUsed = IF old.quota = q THEN self ELSE info.SelfUsed,
                   !.ChildrenUsed = IF old.quota = q THEN info.ChildrenUsed ELSE children]
    BY <1>2 DEF DeleteQueueUnit, IsInfo
  <2> HIDE DEF new, old, res, used, self, children
  <2>5. IsInfo(new) /\ new.Reserved = res
    BY <2>2, <2>3, <2>4 DEF IsInfo
  <2>6. splits(info) => splits(new)
    BY <2>3, <2>4 DEF splits, IsInfo
  <2>7. QED
    BY <2>2, <2>5, <2>6 DEF new
<1>3. QED
  BY <1>1, <1>2

\* ResizeQueueUnit replaces the object of a counted unit, and no other.
LEMMA ResizeLemma ==
  ASSUME NEW info, IsInfo(info), NEW q, NEW u \in Objects
  PROVE  LET new == ResizeQueueUnit(info, q, u)
         IN  /\ IsInfo(new)
             /\ DOMAIN new.Reserved = DOMAIN info.Reserved
             /\ u.uid \in DOMAIN info.Reserved => new.Reserved[u.uid] = u
             /\ \A v \in DOMAIN info.Reserved : v # u.uid => new.Reserved[v] = info.Reserved[v]
             /\ splits(info) => splits(new)
<1> DEFINE new == ResizeQueueUnit(info, q, u)
<1>1. CASE u.uid \notin DOMAIN info.Reserved
  BY <1>1 DEF ResizeQueueUnit
<1>2. CASE u.uid \in DOMAIN info.Reserved /\ info.Reserved[u.uid].amount = u.amount
  <2> DEFINE res == Put(info.Reserved, u.uid, u)
  <2>1. /\ IsMap(res, UnitIds, Objects) /\ DOMAIN res = DOMAIN info.Reserved
        /\ res[u.uid] = u
        /\ \A v \in DOMAIN info.Reserved : v # u.uid => res[v] = info.Reserved[v]
    <3>1. IsMap(info.Reserved, UnitIds, Objects) /\ u.uid \in UnitIds
      BY DEF IsInfo, Objects
    <3>2. QED
      BY <1>2, <3>1 DEF IsMap, Put
  <2>2. new = [info EXCEPT !.Reserved = res]
    BY <1>2 DEF ResizeQueueUnit
  <2> HIDE DEF new, res
  <2>3. IsInfo(new) /\ new.Reserved = res /\ (splits(info) => splits(new))
    BY <2>1, <2>2 DEF IsInfo, splits
  <2>4. QED
    BY <2>1, <2>3 DEF new
<1>3. CASE u.uid \in DOMAIN info.Reserved /\ info.Reserved[u.uid].amount # u.amount
  <2> DEFINE mid == DeleteQueueUnit(info, q, u.uid)
  <2>1. /\ IsInfo(mid) /\ DOMAIN mid.Reserved = DOMAIN info.Reserved \ {u.uid}
        /\ \A v \in DOMAIN info.Reserved : v # u.uid => mid.Reserved[v] = info.Reserved[v]
        /\ splits(info) => splits(mid)
    BY DeleteLemma
  <2>2. new = AddQueueUnit(mid, q, u)
    BY <1>3 DEF ResizeQueueUnit
  <2> HIDE DEF new, mid
  <2>3. /\ IsInfo(new) /\ DOMAIN new.Reserved = DOMAIN mid.Reserved \cup {u.uid}
        /\ u.uid \notin DOMAIN mid.Reserved => new.Reserved[u.uid] = u
        /\ \A v \in DOMAIN mid.Reserved : new.Reserved[v] = mid.Reserved[v]
        /\ splits(mid) => splits(new)
    BY <2>1, <2>2, AddLemma
  <2>4. QED
    BY <1>3, <2>1, <2>3 DEF new
<1>4. QED
  BY <1>1, <1>2, <1>3

-----------------------------------------------------------------------------
(* All levels at once                                                      *)

infosOK(qs) ==
  /\ qs = [q \in DOMAIN qs |-> qs[q]] /\ DOMAIN qs \subseteq Quotas
  /\ \A q \in DOMAIN qs : IsInfo(qs[q])

allSplit(qs) == \A q \in DOMAIN qs : splits(qs[q])

\* The three ways a method changes the levels of a path: types are kept, and
\* Used still splits on every level.
LEMMA AlongLemma ==
  ASSUME NEW qs, infosOK(qs), NEW u \in Objects
  PROVE  /\ infosOK(addAlong(qs, u)) /\ DOMAIN addAlong(qs, u) = DOMAIN qs
         /\ infosOK(deleteAlong(qs, u)) /\ DOMAIN deleteAlong(qs, u) = DOMAIN qs
         /\ infosOK(resizeAlong(qs, u)) /\ DOMAIN resizeAlong(qs, u) = DOMAIN qs
         /\ allSplit(qs) => /\ allSplit(addAlong(qs, u)) /\ allSplit(deleteAlong(qs, u))
                            /\ allSplit(resizeAlong(qs, u))
<1>1. \A q \in DOMAIN qs : IsInfo(qs[q])
  BY DEF infosOK
<1>2. infosOK(addAlong(qs, u)) /\ (allSplit(qs) => allSplit(addAlong(qs, u)))
  <2>1. \A q \in DOMAIN qs :
          /\ IsInfo(AddQueueUnit(qs[q], q, u))
          /\ splits(qs[q]) => splits(AddQueueUnit(qs[q], q, u))
    BY <1>1, AddLemma
  <2>2. QED
    BY <1>1, <2>1 DEF infosOK, allSplit, addAlong
<1>3. infosOK(deleteAlong(qs, u)) /\ (allSplit(qs) => allSplit(deleteAlong(qs, u)))
  <2>1. \A q \in DOMAIN qs :
          /\ IsInfo(DeleteQueueUnit(qs[q], q, u.uid))
          /\ splits(qs[q]) => splits(DeleteQueueUnit(qs[q], q, u.uid))
    BY <1>1, DeleteLemma
  <2>2. QED
    BY <1>1, <2>1 DEF infosOK, allSplit, deleteAlong
<1>4. infosOK(resizeAlong(qs, u)) /\ (allSplit(qs) => allSplit(resizeAlong(qs, u)))
  <2>1. \A q \in DOMAIN qs :
          /\ IsInfo(ResizeQueueUnit(qs[q], q, u))
          /\ splits(qs[q]) => splits(ResizeQueueUnit(qs[q], q, u))
    BY <1>1, ResizeLemma
  <2>2. QED
    BY <1>1, <2>1 DEF infosOK, allSplit, resizeAlong
<1>5. QED
  BY <1>2, <1>3, <1>4 DEF addAlong, deleteAlong, resizeAlong

\* CacheTypeOK and UsedIsSelfAndChildren in the terms of these lemmas.
OpenInv ==
  /\ IsMap(reserved, UnitIds, Quotas)
  /\ scheduling \subseteq UnitIds
  /\ infosOK(quotas) /\ allSplit(quotas)
  /\ quotaParent \in [DOMAIN quotas -> Quotas \cup {NoParent}]

LEMMA OpenInvMeaning == OpenInv <=> CacheTypeOK /\ UsedIsSelfAndChildren
BY DEF OpenInv, CacheTypeOK, UsedIsSelfAndChildren, infosOK, allSplit, splits

\* A new cache satisfies it.
LEMMA OpenInit == CacheInit => OpenInv
<1> SUFFICES ASSUME CacheInit PROVE OpenInv
  OBVIOUS
<1>1. \A q \in DOMAIN quotas : IsInfo(quotas[q]) /\ splits(quotas[q])
  <2>1. \A q \in DOMAIN quotas : quotas[q] = NewElasticQuotaInfo(quotas[q].Max) /\ quotas[q].Max \in Limits
    BY DEF CacheInit
  <2>2. QED
    BY <2>1, NewInfo
<1>2. IsMap(reserved, UnitIds, Quotas) /\ scheduling \subseteq UnitIds
  BY DEF CacheInit, IsMap, Empty
<1>3. QED
  BY <1>1, <1>2 DEF CacheInit, OpenInv, infosOK, allSplit

\* reserve keeps types and the split of Used.
LEMMA OpenReserve ==
  ASSUME OpenInv, NEW u \in Objects, reserve(u)
  PROVE  OpenInv'
<1>1. CASE isReserved(u) \/ ~known(u)
  BY <1>1 DEF reserve, OpenInv, infosOK, allSplit
<1>2. CASE ~(isReserved(u) \/ ~known(u))
  <2>1. reserved' = Put(reserved, u.uid, u.quota) /\ quotas' = addAlong(quotas, u)
    BY <1>2 DEF reserve
  <2>2. IsMap(reserved', UnitIds, Quotas)
    BY <2>1 DEF OpenInv, Objects, IsMap, Put
  <2>3. infosOK(quotas') /\ allSplit(quotas') /\ DOMAIN quotas' = DOMAIN quotas
    BY <2>1, AlongLemma DEF OpenInv
  <2>4. QED
    BY <2>2, <2>3 DEF OpenInv, reserve
<1>3. QED
  BY <1>1, <1>2

\* So does unreserve.
LEMMA OpenUnreserve ==
  ASSUME OpenInv, NEW u \in Objects, unreserve(u)
  PROVE  OpenInv'
<1>1. CASE ~isReserved(u) \/ ~known(u)
  BY <1>1 DEF unreserve, OpenInv, infosOK, allSplit
<1>2. CASE ~(~isReserved(u) \/ ~known(u))
  <2>1. reserved' = Drop(reserved, u.uid) /\ quotas' = deleteAlong(quotas, u)
    BY <1>2 DEF unreserve
  <2>2. IsMap(reserved', UnitIds, Quotas)
    BY <2>1 DEF OpenInv, IsMap, Drop
  <2>3. infosOK(quotas') /\ allSplit(quotas') /\ DOMAIN quotas' = DOMAIN quotas
    BY <2>1, AlongLemma DEF OpenInv
  <2>4. QED
    BY <2>2, <2>3 DEF OpenInv, unreserve
<1>3. QED
  BY <1>1, <1>2

\* So does Resize, in place or into another quota.
LEMMA OpenResize ==
  ASSUME OpenInv, NEW old \in Objects, NEW new \in Objects, ResizeCall(old, new)
  PROVE  OpenInv'
<1>1. CASE old.quota = new.quota
  <2>1. reserved' = reserved /\ scheduling' = scheduling /\ quotaParent' = quotaParent
    BY <1>1 DEF ResizeCall, Resize, resizeInPlace
  <2>2. quotas' = resizeAlong(quotas, new) \/ quotas' = quotas
    BY <1>1 DEF ResizeCall, Resize, resizeInPlace
  <2>3. infosOK(quotas') /\ allSplit(quotas') /\ DOMAIN quotas' = DOMAIN quotas
    BY <2>2, AlongLemma DEF OpenInv
  <2>4. QED
    BY <2>1, <2>3 DEF OpenInv
<1>2. CASE old.quota # new.quota /\ ~isReserved(old)
  <2>1. reserve(new)
    BY <1>2 DEF ResizeCall, Resize, moveReservation
  <2>2. QED
    BY <2>1, OpenReserve
<1>3. CASE old.quota # new.quota /\ isReserved(old)
  <2>1. scheduling' = scheduling /\ quotaParent' = quotaParent
    BY <1>3 DEF ResizeCall, Resize, moveReservation
  <2>2. \/ reserved' = reserved /\ quotas' = quotas
        \/ /\ reserved' = Put(reserved, new.uid, new.quota)
           /\ quotas' = addAlong(deleteAlong(quotas, old), new)
        \/ reserved' = Drop(reserved, old.uid) /\ quotas' = deleteAlong(quotas, old)
    BY <1>3 DEF ResizeCall, Resize, moveReservation
  <2>3. IsMap(reserved', UnitIds, Quotas)
    BY <2>2 DEF OpenInv, Objects, IsMap, Put, Drop
  <2>4. infosOK(deleteAlong(quotas, old)) /\ allSplit(deleteAlong(quotas, old))
          /\ DOMAIN deleteAlong(quotas, old) = DOMAIN quotas
    BY AlongLemma DEF OpenInv
  <2>5. LET qs == addAlong(deleteAlong(quotas, old), new)
        IN  infosOK(qs) /\ allSplit(qs) /\ DOMAIN qs = DOMAIN quotas
    BY <2>4, AlongLemma
  <2>6. infosOK(quotas') /\ allSplit(quotas') /\ DOMAIN quotas' = DOMAIN quotas
    BY <2>2, <2>4, <2>5 DEF OpenInv
  <2>7. QED
    BY <2>1, <2>3, <2>6 DEF OpenInv
<1>4. QED
  BY <1>1, <1>2, <1>3

\* So do the handlers for ElasticQuotas.
LEMMA OpenQuotaCall ==
  ASSUME OpenInv, QuotaCall
  PROVE  OpenInv'
<1>1. ASSUME NEW q \in Quotas, NEW parent \in Quotas \cup {NoParent}, NEW max \in Limits,
             AddOrUpdateQuota(q, parent, max)
      PROVE  OpenInv'
  <2>1. /\ DOMAIN quotas' = DOMAIN quotas \cup {q} /\ quotas' = [r \in DOMAIN quotas' |-> quotas'[r]]
        /\ \A r \in DOMAIN quotas : r # q => quotas'[r] = quotas[r]
        /\ quotas'[q] = IF q \in DOMAIN quotas THEN [quotas[q] EXCEPT !.Max = max]
                        ELSE NewElasticQuotaInfo(max)
    BY <1>1 DEF AddOrUpdateQuota, OpenInv, infosOK, Put
  <2>2. IsInfo(quotas'[q]) /\ splits(quotas'[q])
    <3>1. CASE q \in DOMAIN quotas
      <4>1. IsInfo(quotas[q]) /\ splits(quotas[q])
        BY <3>1 DEF OpenInv, infosOK, allSplit
      <4>2. QED
        BY <2>1, <3>1, <4>1 DEF IsInfo, splits
    <3>2. CASE q \notin DOMAIN quotas
      BY <2>1, <3>2, NewInfo
    <3>3. QED
      BY <3>1, <3>2
  <2>3. infosOK(quotas') /\ allSplit(quotas')
    BY <2>1, <2>2 DEF OpenInv, infosOK, allSplit
  <2>4. quotaParent' \in [DOMAIN quotas' -> Quotas \cup {NoParent}]
    BY <1>1, <2>1 DEF AddOrUpdateQuota, OpenInv, Put
  <2>5. QED
    BY <1>1, <2>3, <2>4 DEF OpenInv, AddOrUpdateQuota
<1>2. ASSUME NEW q \in Quotas, DeleteQuota(q)
      PROVE  OpenInv'
  BY <1>2 DEF DeleteQuota, OpenInv, infosOK, allSplit, Drop
<1>3. QED
  BY <1>1, <1>2 DEF QuotaCall

\* Every call keeps types and the split of Used.
LEMMA OpenStep == OpenInv /\ [OpenNext]_cacheVars => OpenInv'
<1> SUFFICES ASSUME OpenInv, [OpenNext]_cacheVars PROVE OpenInv'
  OBVIOUS
<1>1. ASSUME NEW u \in Objects, reserve(u) PROVE OpenInv'
  BY <1>1, OpenReserve
<1>2. ASSUME NEW u \in Objects, unreserve(u) PROVE OpenInv'
  BY <1>2, OpenUnreserve
<1>3. ASSUME NEW old \in Objects, NEW new \in Objects, ResizeCall(old, new) PROVE OpenInv'
  BY <1>3, OpenResize
<1>4. CASE MarkCall
  BY <1>4 DEF MarkCall, MarkScheduling, ClearScheduling, OpenInv, infosOK, allSplit
<1>5. CASE QuotaCall
  BY <1>5, OpenQuotaCall
<1>6. CASE UNCHANGED cacheVars
  BY <1>6 DEF cacheVars, OpenInv, infosOK, allSplit
<1>7. QED
  BY <1>1, <1>2, <1>3, <1>4, <1>5, <1>6 DEF OpenNext

\* Whatever is called, every variable of the cache keeps its type.
THEOREM CacheTyping == OpenSpec => []CacheTypeOK
<1>1. OpenInv => CacheTypeOK
  BY OpenInvMeaning
<1>2. QED
  BY <1>1, OpenInit, OpenStep, PTL DEF OpenSpec

\* Whatever is called - with outdated labels, with quotas that come, go and
\* move meanwhile - Used stays the sum of SelfUsed and ChildrenUsed.
THEOREM UsedSplits == OpenSpec => []UsedIsSelfAndChildren
<1>1. OpenInv => UsedIsSelfAndChildren
  BY OpenInvMeaning
<1>2. QED
  BY <1>1, OpenInit, OpenStep, PTL DEF OpenSpec

-----------------------------------------------------------------------------
(* Paths, for callers that name a unit by the quota it is reserved in      *)

PathInv == OpenInv /\ PathConsistent /\ LevelsAgree

\* Calls about units leave every path as it is.
LEMMA SamePaths ==
  ASSUME DOMAIN quotas' = DOMAIN quotas, quotaParent' = quotaParent
  PROVE  \A x : path(x)' = path(x)
BY DEF path

\* A unit that is not reserved is counted nowhere; one that is reserved is
\* counted along its path.
LEMMA Counted ==
  ASSUME PathInv, NEW q \in DOMAIN quotas
  PROVE  /\ IsInfo(quotas[q])
         /\ \A uid \in DOMAIN quotas[q].Reserved :
              uid \in UnitIds /\ uid \in DOMAIN reserved /\ q \in path(reserved[uid])
         /\ \A uid \in DOMAIN reserved :
              q \in path(reserved[uid]) => uid \in DOMAIN quotas[q].Reserved
<1>1. IsInfo(quotas[q]) /\ DOMAIN quotas[q].Reserved \subseteq UnitIds
  BY DEF PathInv, OpenInv, infosOK, IsInfo, IsMap
<1>2. DOMAIN reserved \subseteq UnitIds
  BY DEF PathInv, OpenInv, IsMap
<1>3. QED
  BY <1>1, <1>2 DEF PathInv, PathConsistent

\* What every call about a unit u amounts to: u is counted along the path of
\* its label (keep) or nowhere (~keep), and nothing changes for other units.
recountLevel(q, u, keep) ==
  LET old == quotas[q].Reserved
      new == quotas'[q].Reserved
      in == keep /\ q \in path(u.quota)
  IN  /\ DOMAIN new = (DOMAIN old \ {u.uid}) \cup (IF in THEN {u.uid} ELSE {})
      /\ in => new[u.uid] = u
      /\ \A v \in DOMAIN old : v # u.uid => new[v] = old[v]

recount(u, keep) ==
  /\ DOMAIN quotas' = DOMAIN quotas /\ quotaParent' = quotaParent
  /\ \A q \in DOMAIN quotas : recountLevel(q, u, keep)
  /\ DOMAIN reserved' = (DOMAIN reserved \ {u.uid}) \cup (IF keep THEN {u.uid} ELSE {})
  /\ keep => reserved'[u.uid] = u.quota /\ u.quota \in DOMAIN quotas
  /\ \A v \in DOMAIN reserved : v # u.uid => reserved'[v] = reserved[v]

\* Such a call keeps units on exactly their paths, with one object each.
LEMMA RecountLemma ==
  ASSUME PathInv, NEW u \in Objects, NEW keep \in BOOLEAN, recount(u, keep)
  PROVE  PathConsistent' /\ LevelsAgree'
<1>1. DOMAIN quotas' = DOMAIN quotas /\ \A x : path(x)' = path(x)
  BY SamePaths DEF recount
<1>2. ASSUME NEW q \in DOMAIN quotas
      PROVE  /\ DOMAIN quotas'[q].Reserved = (DOMAIN quotas[q].Reserved \ {u.uid})
                  \cup (IF keep /\ q \in path(u.quota) THEN {u.uid} ELSE {})
             /\ keep /\ q \in path(u.quota) => quotas'[q].Reserved[u.uid] = u
             /\ \A v \in DOMAIN quotas[q].Reserved :
                  v # u.uid => quotas'[q].Reserved[v] = quotas[q].Reserved[v]
  BY DEF recount, recountLevel
<1>3. /\ DOMAIN reserved' = (DOMAIN reserved \ {u.uid}) \cup (IF keep THEN {u.uid} ELSE {})
      /\ keep => reserved'[u.uid] = u.quota /\ u.quota \in DOMAIN quotas
      /\ \A v \in DOMAIN reserved : v # u.uid => reserved'[v] = reserved[v]
  BY DEF recount
<1>4. PathConsistent'
  <2>1. \A uid \in DOMAIN reserved' : reserved'[uid] \in DOMAIN quotas'
    BY <1>1, <1>3 DEF PathInv, PathConsistent
  <2>2. ASSUME NEW q \in DOMAIN quotas, NEW uid \in UnitIds
        PROVE  uid \in DOMAIN quotas'[q].Reserved
                 <=> uid \in DOMAIN reserved' /\ q \in path(reserved'[uid])
    <3>1. CASE uid = u.uid
      BY <1>2, <1>3, <3>1
    <3>2. CASE uid # u.uid
      BY <1>2, <1>3, <3>2, Counted
    <3>3. QED
      BY <3>1, <3>2
  <2>3. QED
    BY <1>1, <2>1, <2>2 DEF PathConsistent
<1>5. LevelsAgree'
  <2>1. ASSUME NEW q \in DOMAIN quotas, NEW r \in DOMAIN quotas,
               NEW uid \in DOMAIN quotas'[q].Reserved \cap DOMAIN quotas'[r].Reserved
        PROVE  /\ quotas'[q].Reserved[uid] = quotas'[r].Reserved[uid]
               /\ quotas'[q].Reserved[uid].uid = uid
               /\ quotas'[q].Reserved[uid].quota = reserved'[uid]
    <3>1. CASE uid = u.uid
      BY <1>2, <1>3, <3>1
    <3>2. CASE uid # u.uid
      <4>1. uid \in DOMAIN quotas[q].Reserved \cap DOMAIN quotas[r].Reserved
        BY <1>2, <3>2
      <4>2. uid \in DOMAIN reserved
        BY <4>1, Counted
      <4>3. QED
        BY <1>2, <1>3, <3>2, <4>1, <4>2 DEF PathInv, LevelsAgree
    <3>3. QED
      BY <3>1, <3>2
  <2>2. QED
    BY <1>1, <2>1 DEF LevelsAgree
<1>6. QED
  BY <1>4, <1>5

\* A reserve that changes anything counts the unit along its whole path.
LEMMA PathReserve ==
  ASSUME PathInv, NEW u \in Objects, reserve(u)
  PROVE  PathConsistent' /\ LevelsAgree'
<1>1. CASE isReserved(u) \/ ~known(u)
  BY <1>1 DEF reserve, PathInv, PathConsistent, LevelsAgree, path
<1>2. CASE ~isReserved(u) /\ known(u)
  <2>1. /\ reserved' = Put(reserved, u.uid, u.quota) /\ quotas' = addAlong(quotas, u)
        /\ quotaParent' = quotaParent
    BY <1>2 DEF reserve
  <2>2. ASSUME NEW q \in DOMAIN quotas
        PROVE  recountLevel(q, u, TRUE)
    <3>1. u.uid \notin DOMAIN quotas[q].Reserved /\ IsInfo(quotas[q])
      BY <1>2, Counted DEF isReserved
    <3>2. quotas'[q] = IF q \in path(u.quota) THEN AddQueueUnit(quotas[q], q, u) ELSE quotas[q]
      BY <2>1 DEF addAlong
    <3>3. CASE q \in path(u.quota)
      BY <3>1, <3>2, <3>3, AddLemma DEF recountLevel
    <3>4. CASE q \notin path(u.quota)
      BY <3>1, <3>2, <3>4 DEF recountLevel
    <3>5. QED
      BY <3>3, <3>4
  <2>3. recount(u, TRUE)
    BY <1>2, <2>1, <2>2 DEF recount, addAlong, Put, isReserved, known
  <2>4. QED
    BY <2>3, RecountLemma
<1>3. QED
  BY <1>1, <1>2

\* Taking a unit out along the path it is reserved on leaves it nowhere.
LEMMA DeletedEverywhere ==
  ASSUME PathInv, NEW u \in Objects, isReserved(u), honest(u), NEW q \in DOMAIN quotas
  PROVE  LET old == quotas[q].Reserved
             new == deleteAlong(quotas, u)[q].Reserved
         IN  /\ IsInfo(deleteAlong(quotas, u)[q])
             /\ DOMAIN new = DOMAIN old \ {u.uid}
             /\ \A v \in DOMAIN old : v # u.uid => new[v] = old[v]
<1>1. IsInfo(quotas[q]) /\ (q \notin path(u.quota) => u.uid \notin DOMAIN quotas[q].Reserved)
  BY Counted DEF honest, isReserved
<1>2. deleteAlong(quotas, u)[q]
        = IF q \in path(u.quota) THEN DeleteQueueUnit(quotas[q], q, u.uid) ELSE quotas[q]
  BY DEF deleteAlong
<1>3. CASE q \in path(u.quota)
  BY <1>1, <1>2, <1>3, DeleteLemma
<1>4. CASE q \notin path(u.quota)
  BY <1>1, <1>2, <1>4
<1>5. QED
  BY <1>3, <1>4

\* An unreserve that changes anything takes the unit off its whole path.
LEMMA PathUnreserve ==
  ASSUME PathInv, NEW u \in Objects, honest(u), unreserve(u)
  PROVE  PathConsistent' /\ LevelsAgree'
<1>1. CASE ~isReserved(u) \/ ~known(u)
  BY <1>1 DEF unreserve, PathInv, PathConsistent, LevelsAgree, path
<1>2. CASE isReserved(u) /\ known(u)
  <2>1. /\ reserved' = Drop(reserved, u.uid) /\ quotas' = deleteAlong(quotas, u)
        /\ quotaParent' = quotaParent
    BY <1>2 DEF unreserve
  <2>2. \A q \in DOMAIN quotas : recountLevel(q, u, FALSE)
    BY <1>2, <2>1, DeletedEverywhere DEF recountLevel
  <2>3. recount(u, FALSE)
    BY <2>1, <2>2 DEF recount, deleteAlong, Drop
  <2>4. QED
    BY <2>3, RecountLemma
<1>3. QED
  BY <1>1, <1>2

\* Resize replaces the object on the whole path, or moves the unit to another.
LEMMA PathResize ==
  ASSUME PathInv, NEW old \in Objects, NEW new \in Objects, honest(old), ResizeCall(old, new)
  PROVE  PathConsistent' /\ LevelsAgree'
<1>0. old.uid = new.uid /\ Resize(old, new)
  BY DEF ResizeCall
<1>1. CASE old.quota = new.quota /\ ~(isReserved(new) /\ known(new))
  BY <1>0, <1>1 DEF Resize, resizeInPlace, PathInv, PathConsistent, LevelsAgree, path
<1>2. CASE old.quota = new.quota /\ isReserved(new) /\ known(new)
  <2>1. reserved' = reserved /\ quotas' = resizeAlong(quotas, new) /\ quotaParent' = quotaParent
    BY <1>0, <1>2 DEF Resize, resizeInPlace
  <2>2. new.uid \in DOMAIN reserved /\ reserved[new.uid] = new.quota /\ new.quota \in DOMAIN quotas
    BY <1>0, <1>2 DEF honest, isReserved, known
  <2>3. ASSUME NEW q \in DOMAIN quotas
        PROVE  recountLevel(q, new, TRUE)
    <3>1. IsInfo(quotas[q]) /\ (q \in path(new.quota) <=> new.uid \in DOMAIN quotas[q].Reserved)
      BY <2>2, Counted
    <3>2. quotas'[q] = IF q \in path(new.quota) THEN ResizeQueueUnit(quotas[q], q, new) ELSE quotas[q]
      BY <2>1 DEF resizeAlong
    <3>3. CASE q \in path(new.quota)
      BY <3>1, <3>2, <3>3, ResizeLemma DEF recountLevel
    <3>4. CASE q \notin path(new.quota)
      BY <3>1, <3>2, <3>4 DEF recountLevel
    <3>5. QED
      BY <3>3, <3>4
  <2>4. recount(new, TRUE)
    BY <2>1, <2>2, <2>3 DEF recount, resizeAlong
  <2>5. QED
    BY <2>4, RecountLemma
<1>3. CASE old.quota # new.quota /\ ~isReserved(old)
  BY <1>0, <1>3, PathReserve DEF Resize, moveReservation
<1>4. CASE old.quota # new.quota /\ isReserved(old)
  <2>1. known(old) /\ quotaParent' = quotaParent
    BY <1>0, <1>4 DEF honest, isReserved, known, PathInv, PathConsistent, Resize, moveReservation
  <2>2. CASE ~known(new)
    <3>1. reserved' = Drop(reserved, old.uid) /\ quotas' = deleteAlong(quotas, old)
      BY <1>0, <1>4, <2>1, <2>2 DEF Resize, moveReservation
    <3>2. \A q \in DOMAIN quotas : recountLevel(q, old, FALSE)
      BY <1>4, <3>1, DeletedEverywhere DEF recountLevel
    <3>3. recount(old, FALSE)
      BY <2>1, <3>1, <3>2 DEF recount, deleteAlong, Drop
    <3>4. QED
      BY <3>3, RecountLemma
  <2>3. CASE known(new)
    <3>1. /\ reserved' = Put(reserved, new.uid, new.quota)
          /\ quotas' = addAlong(deleteAlong(quotas, old), new)
      BY <1>0, <1>4, <2>1, <2>3 DEF Resize, moveReservation
    <3>2. ASSUME NEW q \in DOMAIN quotas
          PROVE  recountLevel(q, new, TRUE)
      <4> DEFINE mid == deleteAlong(quotas, old)[q]
      <4>1. /\ IsInfo(mid) /\ DOMAIN mid.Reserved = DOMAIN quotas[q].Reserved \ {new.uid}
            /\ \A v \in DOMAIN quotas[q].Reserved : v # new.uid => mid.Reserved[v] = quotas[q].Reserved[v]
        BY <1>0, <1>4, DeletedEverywhere
      <4>2. quotas'[q] = IF q \in path(new.quota) THEN AddQueueUnit(mid, q, new) ELSE mid
        BY <3>1 DEF addAlong, deleteAlong
      <4> HIDE DEF mid
      <4>3. CASE q \in path(new.quota)
        BY <4>1, <4>2, <4>3, AddLemma DEF recountLevel
      <4>4. CASE q \notin path(new.quota)
        BY <4>1, <4>2, <4>4 DEF recountLevel
      <4>5. QED
        BY <4>3, <4>4
    <3>3. recount(new, TRUE)
      BY <1>0, <2>1, <2>3, <3>1, <3>2 DEF recount, addAlong, deleteAlong, Put, known
    <3>4. QED
      BY <3>3, RecountLemma
  <2>4. QED
    BY <2>2, <2>3
<1>5. QED
  BY <1>1, <1>2, <1>3, <1>4

\* Quotas may come, go and move where no reserved unit is below them.
LEMMA PathQuotaCall ==
  ASSUME PathInv, QuotaCall, pathsKept
  PROVE  PathConsistent' /\ LevelsAgree'
<1>1. reserved' = reserved
  BY DEF QuotaCall, AddOrUpdateQuota, DeleteQuota
<1>2. ASSUME NEW q \in DOMAIN quotas'
      PROVE  \/ q \in DOMAIN quotas /\ quotas'[q].Reserved = quotas[q].Reserved
             \/ q \notin DOMAIN quotas /\ DOMAIN quotas'[q].Reserved = {}
  <2>1. ASSUME NEW p \in Quotas, NEW parent \in Quotas \cup {NoParent}, NEW max \in Limits,
               AddOrUpdateQuota(p, parent, max)
        PROVE  \/ q \in DOMAIN quotas /\ quotas'[q].Reserved = quotas[q].Reserved
               \/ q \notin DOMAIN quotas /\ DOMAIN quotas'[q].Reserved = {}
    <3>1. CASE p \in DOMAIN quotas
      <4>1. IsInfo(quotas[p])
        BY <3>1, Counted
      <4>2. q \in DOMAIN quotas /\ quotas'[q] = IF q = p THEN [quotas[q] EXCEPT !.Max = max] ELSE quotas[q]
        BY <2>1, <3>1 DEF AddOrUpdateQuota
      <4>3. QED
        BY <4>1, <4>2 DEF IsInfo
    <3>2. CASE p \notin DOMAIN quotas
      <4>1. /\ q = p \/ q \in DOMAIN quotas
            /\ quotas'[q] = IF q = p THEN NewElasticQuotaInfo(max) ELSE quotas[q]
        BY <2>1, <3>2 DEF AddOrUpdateQuota, Put
      <4>2. QED
        BY <3>2, <4>1, NewInfo
    <3>3. QED
      BY <3>1, <3>2
  <2>2. ASSUME NEW p \in Quotas, DeleteQuota(p)
        PROVE  q \in DOMAIN quotas /\ quotas'[q].Reserved = quotas[q].Reserved
    BY <2>2 DEF DeleteQuota, Drop
  <2>3. QED
    BY <2>1, <2>2 DEF QuotaCall
<1>3. ASSUME NEW uid \in DOMAIN reserved
      PROVE  /\ reserved[uid] \in DOMAIN quotas'
             /\ path(reserved[uid])' = path(reserved[uid])
             /\ path(reserved[uid]) \subseteq DOMAIN quotas
  BY <1>1, WalkKnown DEF pathsKept, path
<1>4. PathConsistent'
  <2>1. ASSUME NEW q \in DOMAIN quotas', NEW uid \in UnitIds
        PROVE  uid \in DOMAIN quotas'[q].Reserved
                 <=> uid \in DOMAIN reserved /\ q \in path(reserved[uid])
    BY <1>2, <1>3, Counted
  <2>2. QED
    BY <1>1, <1>3, <2>1 DEF PathConsistent
<1>5. LevelsAgree'
  BY <1>1, <1>2 DEF LevelsAgree, PathInv
<1>6. QED
  BY <1>4, <1>5

\* A new cache counts no unit anywhere.
LEMMA PathInit == CacheInit => PathInv
<1> SUFFICES ASSUME CacheInit PROVE PathInv
  OBVIOUS
<1>1. DOMAIN reserved = {} /\ \A q \in DOMAIN quotas : DOMAIN quotas[q].Reserved = {}
  BY NewInfo DEF CacheInit, Empty
<1>2. QED
  BY <1>1, OpenInit DEF PathInv, PathConsistent, LevelsAgree

\* Every call that names a unit by the quota it is reserved in keeps PathInv.
LEMMA PathStep == PathInv /\ [CacheNext]_cacheVars => PathInv'
<1> SUFFICES ASSUME PathInv, [CacheNext]_cacheVars PROVE PathInv'
  OBVIOUS
<1>1. OpenInv'
  BY OpenStep DEF PathInv, CacheNext, OpenNext
<1>2. ASSUME NEW u \in Objects, reserve(u) PROVE PathConsistent' /\ LevelsAgree'
  BY <1>2, PathReserve
<1>3. ASSUME NEW u \in Objects, honest(u), unreserve(u) PROVE PathConsistent' /\ LevelsAgree'
  BY <1>3, PathUnreserve
<1>4. ASSUME NEW old \in Objects, NEW new \in Objects, honest(old), ResizeCall(old, new)
      PROVE  PathConsistent' /\ LevelsAgree'
  BY <1>4, PathResize
<1>5. ASSUME MarkCall PROVE PathConsistent' /\ LevelsAgree'
  BY <1>5 DEF MarkCall, MarkScheduling, ClearScheduling, PathInv, PathConsistent, LevelsAgree, path
<1>6. ASSUME QuotaCall, pathsKept PROVE PathConsistent' /\ LevelsAgree'
  BY <1>6, PathQuotaCall
<1>7. ASSUME UNCHANGED cacheVars PROVE PathConsistent' /\ LevelsAgree'
  BY <1>7 DEF cacheVars, PathInv, PathConsistent, LevelsAgree, path
<1>8. PathConsistent' /\ LevelsAgree'
  BY <1>2, <1>3, <1>4, <1>5, <1>6, <1>7 DEF CacheNext
<1>9. QED
  BY <1>1, <1>8 DEF PathInv

\* A reserved unit counts in exactly the quotas from its own up to the root:
\* reserve, unreserve and Resize never leave a level behind.
THEOREM PathsConsistent == CacheSpec => []PathConsistent
<1>1. PathInv => PathConsistent
  BY DEF PathInv
<1>2. QED
  BY <1>1, PathInit, PathStep, PTL DEF CacheSpec

\* All levels count the same object for a unit, so that DeleteQueueUnit and
\* ResizeQueueUnit give back on each level what was taken there.
THEOREM LevelsAgreed == CacheSpec => []LevelsAgree
<1>1. PathInv => LevelsAgree
  BY DEF PathInv
<1>2. QED
  BY <1>1, PathInit, PathStep, PTL DEF CacheSpec

\* What counts in a quota counts in its parent: CheckUsage of an ancestor sees
\* every unit below it.
THEOREM ParentsCount == CacheSpec => []ParentCountsChildren
<1>1. PathInv => ParentCountsChildren
  <2> SUFFICES ASSUME PathInv, NEW q \in DOMAIN quotas, quotaParent[q] \in DOMAIN quotas,
                      NEW uid \in DOMAIN quotas[q].Reserved
               PROVE  uid \in DOMAIN quotas[quotaParent[q]].Reserved
    BY DEF ParentCountsChildren
  <2>1. uid \in DOMAIN reserved /\ q \in path(reserved[uid])
    BY Counted
  <2>2. quotaParent[q] \in path(reserved[uid])
    BY <2>1, WalkClosed DEF path
  <2>3. QED
    BY <2>1, <2>2, Counted
<1>2. QED
  BY <1>1, PathInit, PathStep, PTL DEF CacheSpec
=============================================================================
