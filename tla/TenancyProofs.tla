---------------------------- MODULE TenancyProofs ----------------------------
(***************************************************************************)
(* Proofs about the parts of MCTenancy, the DSN cache, the tenants of the  *)
(* registry and their databases, and about the three side by side, for any *)
(* tenants, callers, requests, slugs, releases, migrating processes and    *)
(* bounds.                                                                 *)
(***************************************************************************)
EXTENDS MCTenancy, TLAPS

-----------------------------------------------------------------------------
(* DsnCache.                                                               *)

\* What is known of x's entry: it is no older than the last invalidation, and
\* its version was current at some time since the question it answered.
EntryOK(x) ==
  cache[x] # NoEntry =>
    /\ cache[x].version >= floor[x]
    /\ cache[x].expiry <= time + Ttl
    /\ CurrentFrom(x, cache[x].version, cache[x].expiry - Ttl)

\* What is known of a call under way: what it has been told is worth storing
\* as long as the epoch it saw is the current one.
CallOK(t) ==
  /\ atEpoch[t] <= epoch
  /\ stage[t] # "out" =>
       /\ tenant[t] \in Served
       /\ started[t] <= time
       /\ least[t] <= floor[tenant[t]]
  /\ stage[t] = "told" =>
       /\ found[t] >= least[t]
       /\ epoch = atEpoch[t] => found[t] >= floor[tenant[t]]
       /\ CurrentFrom(tenant[t], found[t], started[t])
  /\ stage[t] = "answered" =>
       /\ found[t] >= least[t]
       /\ CurrentFrom(tenant[t], found[t], started[t] - Ttl)

CacheInv ==
  /\ CacheTypeOK
  /\ \A x \in Served : floor[x] <= version[x] /\ EntryOK(x)
  /\ \A t \in Callers : CallOK(t)

\* A version that was current from w on was current from any earlier time on.
LEMMA CurrentFromEarlier ==
  ASSUME CacheTypeOK, NEW x \in Served, NEW v \in Nat, NEW w \in Int, NEW e \in Int,
         CurrentFrom(x, v, w), e <= w
  PROVE  CurrentFrom(x, v, e)
<1>1. v < version[x] => since[x][v + 1] \in Nat
  BY CacheAssumption DEF CacheTypeOK
<1> QED BY <1>1 DEF CurrentFrom

\* What was told before a change was current until time.
LEMMA CurrentFromChange ==
  ASSUME CacheTypeOK, NEW y \in Served, Change(y),
         NEW x \in Served, NEW v \in Nat, NEW w \in Int, CurrentFrom(x, v, w), w <= time
  PROVE  CurrentFrom(x, v, w)'
<1>1. CASE x = y
  <2>1. version'[x] = version[x] + 1 /\ since'[x] = [since[x] EXCEPT ![version[x] + 1] = time]
    BY <1>1 DEF Change, CacheTypeOK
  <2>2. version[x] \in Nat /\ version[x] + 1 \in 0..MaxVersion /\ time \in Nat
    BY <1>1, CacheAssumption DEF Change, CacheTypeOK
  <2>3. since'[x][version[x] + 1] = time
    BY <2>1, <2>2 DEF CacheTypeOK
  <2>4. v < version[x] => since'[x][v + 1] = since[x][v + 1]
    BY <2>1, <2>2 DEF CacheTypeOK
  <2> QED BY <2>1, <2>2, <2>3, <2>4 DEF CurrentFrom
<1>2. CASE x # y
  BY <1>2 DEF Change, CacheTypeOK, CurrentFrom
<1> QED BY <1>1, <1>2

LEMMA CacheInitOK == CacheInit => CacheInv
BY CacheAssumption DEF CacheInit, CacheInv, CacheTypeOK, EntryOK, CallOK, CacheStages

LEMMA CallStep ==
  ASSUME CacheInv, NEW t \in Callers, (\E x \in Served : Call(t, x)) \/ Resolve(t) \/ Return(t)
  PROVE  CacheInv'
<1> USE CacheAssumption DEF CacheInv
<1>0. UNCHANGED <<time, version, since, epoch, floor>>
  BY DEF Call, Resolve, Return, Hit, Miss, Ask, Deny, Remember, resolver, shared
<1>1. \A x \in Served, v \in Nat, w \in Int : CurrentFrom(x, v, w)' <=> CurrentFrom(x, v, w)
  BY <1>0 DEF CurrentFrom
<1>2. \A s \in Callers : s # t =>
        /\ stage'[s] = stage[s] /\ tenant'[s] = tenant[s] /\ started'[s] = started[s]
        /\ least'[s] = least[s] /\ atEpoch'[s] = atEpoch[s] /\ found'[s] = found[s]
  BY DEF CacheTypeOK, Call, Resolve, Return, Hit, Miss, Ask, Deny, Remember, Step, callVars
<1>3. ASSUME NEW s \in Callers, s # t PROVE CallOK(s)'
  <2>1. /\ stage'[s] = stage[s] /\ tenant'[s] = tenant[s] /\ started'[s] = started[s]
        /\ least'[s] = least[s] /\ atEpoch'[s] = atEpoch[s] /\ found'[s] = found[s]
    BY <1>2, <1>3
  <2>2. CallOK(s) /\ found[s] \in Nat /\ started[s] \in Int /\ started[s] - Ttl \in Int
    BY DEF CacheTypeOK
  <2> HIDE DEF CacheInv
  <2> QED BY <1>0, <1>1, <2>1, <2>2 DEF CallOK
<1>4. ASSUME UNCHANGED cache
      PROVE  \A x \in Served : floor'[x] <= version'[x] /\ EntryOK(x)'
  BY <1>0, <1>1, <1>4 DEF EntryOK, CacheTypeOK, CacheEntry
<1>5. ASSUME NEW x \in Served, Call(t, x) PROVE CacheInv'
  <2>1. CacheTypeOK' /\ UNCHANGED cache
    BY <1>5 DEF Call, Step, CacheTypeOK, CacheStages, resolver, shared
  <2>2. /\ stage'[t] = "entered" /\ tenant'[t] = x /\ started'[t] = time
        /\ least'[t] = floor[x] /\ atEpoch'[t] = atEpoch[t] /\ stage[t] = "out"
    BY <1>5 DEF Call, Step, CacheTypeOK
  <2>3. CallOK(t)'
    BY <1>0, <2>2 DEF CacheTypeOK, CallOK
  <2> QED BY <1>3, <1>4, <2>1, <2>3
<1>6. CASE Return(t)
  <2>1. CacheTypeOK' /\ UNCHANGED cache
    BY <1>6 DEF Return, Step, CacheTypeOK, CacheStages, resolver, shared
  <2>2. stage'[t] = "out" /\ atEpoch'[t] = 0 /\ epoch \in Nat
    BY <1>6 DEF Return, Step, CacheTypeOK
  <2>3. CallOK(t)'
    BY <1>0, <2>2 DEF CallOK
  <2> QED BY <1>3, <1>4, <2>1, <2>3
<1>7. CASE Hit(t)
  <2> DEFINE x == tenant[t]
  <2>1. /\ x \in Served /\ cache[x] \in CacheEntry /\ cache[x].expiry > started[t]
        /\ cache[x].version \in Nat /\ cache[x].expiry \in Nat /\ started[t] \in Nat
    BY <1>7 DEF Hit, Fresh, CallOK, CacheTypeOK, CacheEntry
  <2>2. /\ found' = [found EXCEPT ![t] = cache[x].version]
        /\ stage' = [stage EXCEPT ![t] = "answered"]
        /\ UNCHANGED <<cache, tenant, started, least, atEpoch>> /\ stage[t] = "entered"
    BY <1>7 DEF Hit, Step, shared, callVars
  <2>3. CacheTypeOK'
    BY <1>0, <2>1, <2>2 DEF CacheTypeOK, CacheStages
  <2>4. EntryOK(x) /\ CallOK(t) /\ cache[x] # NoEntry
    BY <2>1, <1>7 DEF Hit, Fresh
  <2>5. CurrentFrom(x, cache[x].version, started[t] - Ttl)
    BY <2>1, <2>4, CurrentFromEarlier DEF EntryOK
  <2>6. cache[x].version >= least[t]
    BY <2>1, <2>2, <2>4 DEF EntryOK, CallOK, CacheTypeOK
  <2>7. CallOK(t)'
    BY <1>0, <1>1, <2>1, <2>2, <2>4, <2>5, <2>6 DEF CallOK, CacheTypeOK
  <2> QED BY <1>3, <1>4, <2>2, <2>3, <2>7
<1>8. CASE Miss(t) \/ Deny(t)
  <2>1. CacheTypeOK' /\ UNCHANGED cache
    BY <1>8 DEF Miss, Deny, Step, CacheTypeOK, CacheStages, resolver, shared, callVars
  <2>2. /\ stage'[t] \in {"missed", "denied"} /\ stage[t] \in {"entered", "missed"}
        /\ UNCHANGED <<tenant, started, least>>
        /\ atEpoch'[t] \in {epoch, atEpoch[t]} /\ epoch \in Nat /\ CallOK(t)
    BY <1>8 DEF Miss, Deny, Step, CacheTypeOK, callVars
  <2>3. CallOK(t)'
    BY <1>0, <2>2 DEF CallOK
  <2> QED BY <1>3, <1>4, <2>1, <2>3
<1>9. CASE Ask(t)
  <2> DEFINE x == tenant[t]
  <2>1. /\ found' = [found EXCEPT ![t] = version[x]]
        /\ stage' = [stage EXCEPT ![t] = "told"]
        /\ UNCHANGED <<cache, tenant, started, least, atEpoch>> /\ stage[t] = "missed"
    BY <1>9 DEF Ask, Step, shared, callVars
  <2>2. x \in Served /\ version[x] \in Nat /\ CallOK(t) /\ floor[x] <= version[x]
    BY <2>1 DEF CallOK, CacheTypeOK
  <2>3. CacheTypeOK'
    BY <1>0, <2>1, <2>2 DEF CacheTypeOK, CacheStages
  <2>4. CurrentFrom(x, version[x], started[t])
    BY <2>2 DEF CurrentFrom
  <2>5. CallOK(t)'
    BY <1>0, <1>1, <2>1, <2>2, <2>4 DEF CallOK, CacheTypeOK
  <2> QED BY <1>3, <1>4, <2>1, <2>3, <2>5
<1>10. CASE Remember(t)
  <2> DEFINE x == tenant[t]
             e == [version |-> found[t], expiry |-> started[t] + Ttl]
  <2>1. /\ cache' = IF epoch = atEpoch[t] THEN [cache EXCEPT ![x] = e] ELSE cache
        /\ stage' = [stage EXCEPT ![t] = "answered"]
        /\ UNCHANGED <<tenant, started, least, atEpoch, found>> /\ stage[t] = "told"
    BY <1>10 DEF Remember, Step, callVars
  <2>2. /\ x \in Served /\ CallOK(t) /\ found[t] \in Nat /\ started[t] \in Nat /\ Ttl \in Nat
        /\ found[t] >= least[t] /\ CurrentFrom(x, found[t], started[t])
    BY <2>1 DEF CallOK, CacheTypeOK
  <2>3. CacheTypeOK'
    <3>1. e \in CacheEntry
      BY <2>2 DEF CacheEntry
    <3> HIDE DEF e
    <3>2. cache' \in [Served -> CacheEntry \cup {NoEntry}]
      BY <2>1, <2>2, <3>1 DEF CacheTypeOK
    <3> QED BY <1>0, <2>1, <2>2, <3>2 DEF CacheTypeOK, CacheStages
  <2>4. CurrentFrom(x, found[t], started[t] - Ttl)
    BY <2>2, CurrentFromEarlier
  <2>5. CallOK(t)'
    BY <1>0, <1>1, <2>1, <2>2, <2>4 DEF CallOK, CacheTypeOK
  <2>6. ASSUME NEW y \in Served PROVE EntryOK(y)'
    <3>1. CASE epoch = atEpoch[t] /\ y = x
      <4>1. /\ cache'[y] = e /\ e.version = found[t] /\ e.expiry = started[t] + Ttl
            /\ e.expiry - Ttl = started[t]
        BY <2>1, <2>2, <3>1 DEF CacheTypeOK
      <4> HIDE DEF e
      <4>2. found[t] >= floor[x] /\ started[t] <= time
        BY <2>1, <2>2, <3>1 DEF CallOK
      <4>3. CurrentFrom(y, cache[y].version, cache[y].expiry - Ttl)'
        BY <1>0, <2>2, <3>1, <4>1 DEF CurrentFrom
      <4> QED BY <1>0, <2>2, <3>1, <4>1, <4>2, <4>3 DEF EntryOK, CacheTypeOK
    <3>2. CASE ~ (epoch = atEpoch[t] /\ y = x)
      <4>1. cache'[y] = cache[y]
        BY <2>1, <2>2, <3>2 DEF CacheTypeOK
      <4> QED BY <1>0, <1>1, <4>1 DEF EntryOK, CacheTypeOK, CacheEntry
    <3> QED BY <3>1, <3>2
  <2> QED BY <1>0, <1>3, <2>3, <2>5, <2>6
<1> QED BY <1>5, <1>6, <1>7, <1>8, <1>9, <1>10 DEF Resolve

LEMMA InvalidateStep ==
  ASSUME CacheInv, NEW X \in SUBSET Served, Invalidate(X)
  PROVE  CacheInv'
<1> USE CacheAssumption DEF CacheInv
<1>1. /\ epoch' = epoch + 1 /\ epoch \in Nat
      /\ cache' = [x \in Served |-> IF x \in X THEN NoEntry ELSE cache[x]]
      /\ floor' = [x \in Served |-> IF x \in X THEN version[x] ELSE floor[x]]
      /\ UNCHANGED <<time, version, since, stage, tenant, started, least, atEpoch, found>>
  BY DEF Invalidate, resolver, callVars, CacheTypeOK
<1>2. CacheTypeOK'
  BY <1>1 DEF CacheTypeOK
<1>3. ASSUME NEW x \in Served
      PROVE  floor'[x] <= version'[x] /\ EntryOK(x)' /\ floor[x] <= floor'[x]
  BY <1>1 DEF EntryOK, CacheTypeOK, CurrentFrom
<1>4. ASSUME NEW t \in Callers PROVE CallOK(t)'
  BY <1>1, <1>3 DEF CallOK, CacheTypeOK, CurrentFrom
<1> QED BY <1>2, <1>3, <1>4

LEMMA EnvironmentStep ==
  ASSUME CacheInv, Elapse \/ \E y \in Served : Change(y)
  PROVE  CacheInv'
<1> USE CacheAssumption DEF CacheInv
<1>1. /\ UNCHANGED <<cache, epoch, floor, stage, tenant, started, least, atEpoch, found>>
      /\ time' \in Nat /\ time <= time' /\ time \in Nat
  BY DEF Elapse, Change, shared, callVars, CacheTypeOK
<1>2. CacheTypeOK' /\ \A x \in Served : version[x] <= version'[x]
  <2>1. CASE Elapse
    BY <1>1, <2>1 DEF CacheTypeOK, Elapse
  <2>2. ASSUME NEW y \in Served, Change(y)
        PROVE  CacheTypeOK' /\ \A x \in Served : version[x] <= version'[x]
    <3>1. /\ version[y] \in 0..MaxVersion /\ version[y] + 1 \in 0..MaxVersion
          /\ version' = [version EXCEPT ![y] = version[y] + 1]
      BY <2>2 DEF Change, CacheTypeOK
    <3>2. version' \in [Served -> 0..MaxVersion]
      BY <3>1 DEF CacheTypeOK
    <3>3. since' = [since EXCEPT ![y] = [since[y] EXCEPT ![version[y] + 1] = time]]
      BY <2>2 DEF Change
    <3>4. [since[y] EXCEPT ![version[y] + 1] = time] \in [0..MaxVersion -> Nat]
      BY DEF CacheTypeOK
    <3>5. since' \in [Served -> [0..MaxVersion -> Nat]]
      BY <3>3, <3>4 DEF CacheTypeOK
    <3>6. \A x \in Served : version[x] <= version'[x]
      BY <3>1 DEF CacheTypeOK
    <3> QED BY <1>1, <3>2, <3>5, <3>6 DEF CacheTypeOK
  <2> QED BY <2>1, <2>2
<1>3. ASSUME NEW x \in Served, NEW v \in Nat, NEW w \in Int, CurrentFrom(x, v, w), w <= time
      PROVE  CurrentFrom(x, v, w)'
  BY <1>3, CurrentFromChange DEF Elapse, CurrentFrom
<1>4. ASSUME NEW x \in Served PROVE floor'[x] <= version'[x] /\ EntryOK(x)'
  <2>1. cache[x] # NoEntry =>
          /\ cache[x].version \in Nat /\ cache[x].expiry - Ttl \in Int
          /\ cache[x].expiry - Ttl <= time
    BY DEF EntryOK, CacheTypeOK, CacheEntry
  <2>2. cache[x] # NoEntry => CurrentFrom(x, cache[x].version, cache[x].expiry - Ttl)'
    <3>1. cache[x] # NoEntry => CurrentFrom(x, cache[x].version, cache[x].expiry - Ttl)
      BY DEF EntryOK
    <3> HIDE DEF CacheInv
    <3> QED BY <1>1, <1>3, <2>1, <3>1 DEF CurrentFrom
  <2>3. floor'[x] <= version'[x]
    BY <1>1, <1>2 DEF CacheTypeOK
  <2> QED BY <1>1, <2>1, <2>2, <2>3 DEF EntryOK, CacheTypeOK, CacheEntry
<1>5. ASSUME NEW t \in Callers PROVE CallOK(t)'
  <2>1. CASE stage[t] = "out"
    BY <1>1, <2>1 DEF CallOK
  <2>2. CASE stage[t] # "out"
    <3>1. /\ tenant[t] \in Served /\ found[t] \in Nat
          /\ started[t] \in Int /\ started[t] <= time
          /\ started[t] - Ttl \in Int /\ started[t] - Ttl <= time
      BY <2>2 DEF CallOK, CacheTypeOK
    <3>2. /\ stage[t] = "told" => CurrentFrom(tenant[t], found[t], started[t])'
          /\ stage[t] = "answered" => CurrentFrom(tenant[t], found[t], started[t] - Ttl)'
      <4>1. /\ stage[t] = "told" => CurrentFrom(tenant[t], found[t], started[t])
            /\ stage[t] = "answered" => CurrentFrom(tenant[t], found[t], started[t] - Ttl)
        BY <2>2 DEF CallOK
      <4> HIDE DEF CacheInv
      <4> QED BY <1>1, <1>3, <3>1, <4>1 DEF CurrentFrom
    <3> QED BY <1>1, <2>2, <3>1, <3>2 DEF CallOK, CacheTypeOK
  <2> QED BY <2>1, <2>2
<1> QED BY <1>2, <1>4, <1>5

LEMMA CacheNextKeeps == CacheInv /\ [CacheNext]_cacheVars => CacheInv'
<1> SUFFICES ASSUME CacheInv, [CacheNext]_cacheVars PROVE CacheInv'
  OBVIOUS
<1>1. CASE UNCHANGED cacheVars
  BY <1>1 DEF cacheVars, resolver, shared, callVars, CacheInv, CacheTypeOK, EntryOK, CallOK, CurrentFrom
<1>2. CASE CacheNext
  <2>1. ASSUME NEW x \in Served, Invalidate({x}) PROVE CacheInv'
    BY <2>1, InvalidateStep
  <2>2. CASE Invalidate(Served)
    BY <2>2, InvalidateStep
  <2> QED
    BY <1>2, <2>1, <2>2, CallStep, EnvironmentStep DEF CacheNext, Environment
<1> QED BY <1>1, <1>2

\* The inductive invariant holds in every reachable state.
THEOREM CacheInvariance == CacheSpec => []CacheInv
BY CacheInitOK, CacheNextKeeps, PTL DEF CacheSpec

\* Every variable keeps its type.
THEOREM CacheTypesTheorem == CacheSpec => []CacheTypeOK
<1>1. CacheInv => CacheTypeOK
  BY DEF CacheInv
<1> QED BY <1>1, CacheInvariance, PTL

\* Whoever asks after an invalidation is never given a DSN from before it,
\* whatever resolutions were under way: the epoch check in _resolve_dsn.
THEOREM Freshness == CacheSpec => []FreshAfterInvalidation
<1>1. CacheInv => FreshAfterInvalidation
  BY DEF CacheInv, CallOK, FreshAfterInvalidation
<1> QED BY <1>1, CacheInvariance, PTL

\* The TTL bounds the age of every answer, however long a resolution takes.
THEOREM BoundedStaleness == CacheSpec => []StalenessBounded
<1>1. CacheInv => StalenessBounded
  BY DEF CacheInv, CallOK, StalenessBounded
<1> QED BY <1>1, CacheInvariance, PTL

-----------------------------------------------------------------------------
(* TenantLifecycle.                                                        *)

Suspending == {"suspend", "deactivate", "reactivate"}
Claiming   == {"register", "rename", "provision"}

\* A tenant has a status when it has a slug; its events add up.
TenantOK(x) ==
  /\ status[x] = None <=> slug[x] = None
  /\ reactivates[x] <= suspends[x]
  /\ status[x] = "suspended" => reactivates[x] < suspends[x]

\* What a request is about, at each statement it may have reached.
RequestOK(t) ==
  /\ tx[t].kind \in Suspending => tx[t].tenant \in Tenants
  /\ tx[t].kind \in Claiming => tx[t].slug \in Slugs
  /\ tx[t].kind = "rename" => tx[t].tenant \in Tenants
  /\ pc[t] \in {"locking", "locked"} => tx[t].kind \in Suspending
  /\ pc[t] = "guarding" => tx[t].kind \in {"rename", "deactivate"}
  /\ pc[t] \in {"pre_live", "pre_history", "loading", "live", "history", "dropping",
                "retiring", "writing"} => tx[t].kind \in Claiming
  /\ pc[t] \in {"loading", "dropping", "retiring"} => tx[t].kind = "rename"
  /\ pc[t] \in {"finding", "reading"} => tx[t].kind = "provision"
  /\ pc[t] = "reading" => tx[t].tenant \in Tenants

\* A history row the request has let pass had expired.
SawOK(t) == tx[t].saw # None => tx[t].saw.until <= now

\* A rename that has been let in, and a provisioning that has found its tenant,
\* are about a tenant that exists.
RenameOK(t) ==
  /\ tx[t].kind = "rename" /\ pc[t] \notin {"new", "guarding", "done"} =>
       /\ slug[tx[t].tenant] # None
       /\ pc[t] \in {"live", "history", "dropping", "retiring", "writing"} => tx[t].old \in Slugs
  /\ tx[t].kind = "provision" /\ tx[t].tenant # None => slug[tx[t].tenant] # None

\* What was read under the lock is still so.
LockOK(t) ==
  pc[t] = "locked" =>
    /\ tenantLock[tx[t].tenant] = t
    /\ tx[t].seen = status[tx[t].tenant] /\ tx[t].seen # None

SessionOK(t) == RequestOK(t) /\ SawOK(t) /\ RenameOK(t) /\ LockOK(t)

TenantInv ==
  /\ TenantTypeOK
  /\ \A x \in Tenants : TenantOK(x)
  /\ \A t \in Requests : SessionOK(t)

-----------------------------------------------------------------------------
LEMMA ClosedFacts ==
  /\ Closed \in Session
  /\ Closed.kind = None /\ Closed.saw = None
  /\ None \notin Kinds
BY TenantAssumption DEF Closed, Opened, Session, Kinds

\* What COMMIT and ROLLBACK do.
LEMMA FinishFacts ==
  ASSUME TenantTypeOK, NEW t \in Requests, Finish(t)
  PROVE  /\ pc' \in [Requests -> Stages] /\ pc'[t] = "done"
         /\ tx' \in [Requests -> Session] /\ tx'[t] = Closed
         /\ \A u \in Requests \ {t} : pc'[u] = pc[u] /\ tx'[u] = tx[u]
         /\ tenantLock' \in [Tenants -> Requests \cup {None}]
         /\ \A x \in Tenants : \A u \in Requests \ {t} :
              tenantLock[x] = u => tenantLock'[x] = u
BY ClosedFacts, TenantAssumption DEF Finish, Goto, Read, TenantTypeOK, Stages

\* A step of t that leaves the registry as it is has only t's session to keep
\* right, and the locks of the others.
LEMMA SessionStep ==
  ASSUME TenantInv, NEW t \in Requests, UNCHANGED <<now, registry>>,
         pc' \in [Requests -> Stages], tx' \in [Requests -> Session],
         tenantLock' \in [Tenants -> Requests \cup {None}],
         \A u \in Requests \ {t} : pc'[u] = pc[u] /\ tx'[u] = tx[u],
         \A x \in Tenants : \A u \in Requests \ {t} :
           tenantLock[x] = u => tenantLock'[x] = u,
         SessionOK(t)'
  PROVE  TenantInv'
<1>0. UNCHANGED <<now, status, slug, history, suspends, reactivates>>
  BY DEF registry, events
<1>1. TenantTypeOK'
  BY <1>0 DEF TenantInv, TenantTypeOK
<1>2. \A x \in Tenants : TenantOK(x)'
  BY <1>0 DEF TenantInv, TenantOK
<1>3. ASSUME NEW u \in Requests, u # t PROVE SessionOK(u)'
  <2>1. pc'[u] = pc[u] /\ tx'[u] = tx[u] /\ SessionOK(u)
    BY <1>3 DEF TenantInv
  <2>2. LockOK(u)'
    <3>1. pc[u] = "locked" => tx[u].tenant \in Tenants
      BY <2>1 DEF SessionOK, RequestOK
    <3> QED BY <1>0, <1>3, <2>1, <3>1 DEF SessionOK, LockOK
  <2> QED BY <1>0, <2>1, <2>2 DEF SessionOK, RequestOK, SawOK, RenameOK
<1> QED BY <1>1, <1>2, <1>3 DEF TenantInv

\* Ending a transaction without having written anything.
LEMMA ClosedSession ==
  ASSUME NEW t \in Requests, pc'[t] = "done", tx'[t] = Closed
  PROVE  SessionOK(t)'
<1>1. Closed.kind \notin Suspending \cup Claiming
  BY ClosedFacts DEF Suspending, Claiming, Kinds
<1> QED BY <1>1, ClosedFacts DEF SessionOK, RequestOK, SawOK, RenameOK, LockOK, Suspending, Claiming

LEMMA AbandonKeeps ==
  ASSUME TenantInv, NEW t \in Requests, Abandon(t)
  PROVE  TenantInv'
<1>1. Finish(t) /\ UNCHANGED <<now, registry>> /\ TenantTypeOK
  BY DEF Abandon, TenantInv
<1> QED BY <1>1, FinishFacts, ClosedSession, SessionStep

\* A transaction that commits changes of the registry keeps the invariant when
\* the registry stays in order, no tenant loses its slug, and nobody else's
\* locked tenant changes its status.
LEMMA CommitStep ==
  ASSUME TenantInv, NEW t \in Requests, Finish(t), now' = now,
         status' \in [Tenants -> Statuses \cup {None}],
         slug'   \in [Tenants -> Slugs \cup {None}],
         history' \in [Slugs -> Entry \cup {None}],
         suspends' \in [Tenants -> Nat], reactivates' \in [Tenants -> Nat],
         \A x, y \in Tenants : slug'[x] = slug'[y] => x = y \/ slug'[x] = None,
         \A x \in Tenants : TenantOK(x)',
         \A x \in Tenants : slug[x] # None => slug'[x] # None,
         \A x \in Tenants : \A u \in Requests \ {t} :
           tenantLock[x] = u => status'[x] = status[x] \/ status[x] = None
  PROVE  TenantInv'
<1>0. TenantTypeOK
  BY DEF TenantInv
<1>1. TenantTypeOK'
  BY <1>0, FinishFacts DEF TenantTypeOK
<1>2. ASSUME NEW u \in Requests, u # t PROVE SessionOK(u)'
  <2>1. pc'[u] = pc[u] /\ tx'[u] = tx[u] /\ SessionOK(u)
    BY <1>0, <1>2, FinishFacts DEF TenantInv
  <2>2. RenameOK(u)'
    <3>1. tx[u].tenant \in Tenants \cup {None}
      BY <1>0 DEF TenantTypeOK, Session
    <3> QED BY <2>1, <3>1 DEF SessionOK, RenameOK, RequestOK
  <2>3. LockOK(u)'
    <3>1. CASE pc[u] = "locked"
      <4>1. tx[u].tenant \in Tenants
        BY <2>1, <3>1 DEF SessionOK, RequestOK
      <4>2. tenantLock'[tx[u].tenant] = u /\ status'[tx[u].tenant] = status[tx[u].tenant]
        BY <1>0, <1>2, <2>1, <3>1, <4>1, FinishFacts DEF SessionOK, LockOK
      <4> QED BY <2>1, <3>1, <4>2 DEF SessionOK, LockOK
    <3>2. CASE pc[u] # "locked"
      BY <2>1, <3>2 DEF LockOK
    <3> QED BY <3>1, <3>2
  <2> QED BY <2>1, <2>2, <2>3 DEF SessionOK, RequestOK, SawOK
<1>3. SessionOK(t)'
  BY <1>0, FinishFacts, ClosedSession
<1> QED BY <1>1, <1>2, <1>3 DEF TenantInv

\* Going on to the next statement, with the session r.
LEMMA ContinueStep ==
  ASSUME TenantInv, NEW t \in Requests, NEW onto \in Stages, NEW r \in Session,
         Continue(t, onto), tx' = [tx EXCEPT ![t] = r],
         pc'[t] = onto /\ tx'[t] = r => SessionOK(t)'
  PROVE  TenantInv'
<1>1. /\ pc \in [Requests -> Stages] /\ tx \in [Requests -> Session]
      /\ tenantLock \in [Tenants -> Requests \cup {None}]
  BY DEF TenantInv, TenantTypeOK
<1>2. pc' = [pc EXCEPT ![t] = onto] /\ UNCHANGED <<now, registry, tenantLock>>
  BY DEF Continue, Goto
<1> QED BY <1>1, <1>2, SessionStep

\* The statements that only read.
LEMMA ReadingStep ==
  ASSUME TenantInv, NEW t \in Requests,
         Arrive(t) \/ Guard(t) \/ CheckLive(t) \/ CheckHistory(t)
         \/ LoadTenant(t) \/ DropHistory(t) \/ FindHistory(t) \/ FindTenant(t) \/ ReadStatus(t)
  PROVE  TenantInv'
<1>1. /\ TenantTypeOK /\ SessionOK(t) /\ tx[t] \in Session /\ pc[t] \in Stages
      /\ tx = [tx EXCEPT ![t] = tx[t]]
  BY DEF TenantInv, TenantTypeOK
<1>2. ASSUME NEW onto, Continue(t, onto)
      PROVE  UNCHANGED <<now, status, slug, history, suspends, reactivates, tenantLock>>
  BY <1>2 DEF Continue, registry, events
<1>3. CASE Arrive(t)
  <2>1. PICK asked \in Asked :
          /\ Read(t, Opened(asked))
          /\ Continue(t, CASE asked.kind \in {"rename", "deactivate"}     -> "guarding"
                           [] asked.kind = "register"                     -> "pre_live"
                           [] asked.kind = "provision"                    -> "finding"
                           [] asked.kind \in {"suspend", "reactivate"}    -> "locking")
    BY <1>3 DEF Arrive
  <2>2. Opened(asked) \in Session
    BY DEF Asked, Opened, Session, Kinds
  <2>3. /\ Opened(asked).kind = asked.kind /\ Opened(asked).tenant = asked.tenant
        /\ Opened(asked).slug = asked.slug
        /\ Opened(asked).saw = None
    BY DEF Opened
  <2>4. CASE asked.kind = "rename"
    <3>1. Continue(t, "guarding") /\ asked.tenant \in Tenants /\ asked.slug \in Slugs
      BY <2>1, <2>4 DEF Asked
    <3> QED BY <2>1, <2>2, <2>3, <2>4, <3>1, ContinueStep
            DEF Read, SessionOK, RequestOK, SawOK, RenameOK, LockOK, Suspending, Claiming, Stages
  <2>5. CASE asked.kind = "deactivate"
    <3>1. Continue(t, "guarding") /\ asked.tenant \in Tenants
      BY <2>1, <2>5 DEF Asked
    <3> QED BY <2>1, <2>2, <2>3, <2>5, <3>1, ContinueStep
            DEF Read, SessionOK, RequestOK, SawOK, RenameOK, LockOK, Suspending, Claiming, Stages
  <2>6. CASE asked.kind = "register"
    <3>1. Continue(t, "pre_live") /\ asked.slug \in Slugs
      BY <2>1, <2>6 DEF Asked
    <3> QED BY <2>1, <2>2, <2>3, <2>6, <3>1, ContinueStep
            DEF Read, SessionOK, RequestOK, SawOK, RenameOK, LockOK, Suspending, Claiming, Stages
  <2>7. CASE asked.kind = "provision"
    <3>1. Continue(t, "finding") /\ asked.slug \in Slugs /\ asked.tenant = None
      BY <2>1, <2>7 DEF Asked
    <3> QED BY <2>1, <2>2, <2>3, <2>7, <3>1, ContinueStep
            DEF Read, SessionOK, RequestOK, SawOK, RenameOK, LockOK, Suspending, Claiming, Stages
  <2>8. CASE asked.kind \in {"suspend", "reactivate"}
    <3>1. Continue(t, "locking") /\ asked.tenant \in Tenants
      BY <2>1, <2>8 DEF Asked
    <3> QED BY <2>1, <2>2, <2>3, <2>8, <3>1, ContinueStep
            DEF Read, SessionOK, RequestOK, SawOK, RenameOK, LockOK, Suspending, Claiming, Stages
  <2> QED BY <2>4, <2>5, <2>6, <2>7, <2>8 DEF Asked
<1>4. CASE Guard(t)
  <2>1. CASE Abandon(t)
    BY <2>1, AbandonKeeps
  <2>2. CASE /\ pc[t] = "guarding" /\ status[tx[t].tenant] = "active" /\ UNCHANGED tx
             /\ tx[t].kind = "rename" /\ Continue(t, "pre_live")
    <3>1. slug[tx[t].tenant] # None
      BY <1>1, <2>2, TenantAssumption DEF TenantInv, TenantOK, SessionOK, RequestOK, Statuses
    <3>2. pc'[t] = "pre_live" => SessionOK(t)'
      BY <1>1, <1>2, <2>2, <3>1
      DEF SessionOK, RequestOK, SawOK, RenameOK, LockOK, Suspending, Claiming
    <3> QED BY <1>1, <2>2, <3>2, ContinueStep DEF Stages
  <2>3. CASE /\ pc[t] = "guarding" /\ UNCHANGED tx
             /\ tx[t].kind # "rename" /\ Continue(t, "locking")
    <3>1. pc'[t] = "locking" => SessionOK(t)'
      BY <1>1, <1>2, <2>3
      DEF SessionOK, RequestOK, SawOK, RenameOK, LockOK, Suspending, Claiming
    <3> QED BY <1>1, <2>3, <3>1, ContinueStep DEF Stages
  <2> QED BY <1>4, <2>1, <2>2, <2>3 DEF Guard
<1>5. CASE CheckLive(t)
  <2>1. CASE Abandon(t)
    BY <2>1, AbandonKeeps
  <2>2. ASSUME pc[t] \in {"pre_live", "live"}, UNCHANGED tx,
               NEW onto \in {"history", "pre_history"}, Continue(t, onto),
               pc[t] = "live" <=> onto = "history"
        PROVE  TenantInv'
    <3>1. pc'[t] = onto => SessionOK(t)'
      BY <1>1, <1>2, <2>2
      DEF SessionOK, RequestOK, SawOK, RenameOK, LockOK, Suspending, Claiming
    <3> QED BY <1>1, <2>2, <3>1, ContinueStep DEF Stages
  <2> QED BY <1>5, <2>1, <2>2 DEF CheckLive
<1>6. CASE CheckHistory(t)
  <2>1. CASE Abandon(t)
    BY <2>1, AbandonKeeps
  <2>2. CASE ~ IsCooling(tx[t].slug)
    <3> DEFINE r == [tx[t] EXCEPT !.saw = history[tx[t].slug]]
    <3>1. /\ Read(t, r) /\ pc[t] \in {"pre_history", "history"}
          /\ \E onto \in {"loading", "live", "dropping", "writing"} :
               /\ Continue(t, onto)
               /\ onto \in {"loading", "dropping"} => tx[t].kind = "rename"
               /\ onto \in {"live", "writing"} => tx[t].kind # "rename"
               /\ onto \in {"dropping", "writing"} => pc[t] = "history"
      <4>1. pc[t] \in {"pre_history", "history"} /\ Read(t, r)
        BY <1>6, <1>1, <2>1, <2>2 DEF CheckHistory
      <4>2. Continue(t, CASE pc[t] = "pre_history" -> IF tx[t].kind = "rename" THEN "loading" ELSE "live"
                          [] pc[t] = "history" -> IF tx[t].kind = "rename" THEN "dropping" ELSE "writing")
        BY <1>6, <2>2 DEF CheckHistory
      <4>3. CASE pc[t] = "pre_history"
        BY <4>1, <4>2, <4>3
      <4>4. CASE pc[t] = "history"
        BY <4>1, <4>2, <4>4
      <4> QED BY <4>1, <4>3, <4>4
    <3>2. tx[t].slug \in Slugs /\ history[tx[t].slug] \in Entry \cup {None} /\ now \in Nat
      BY <1>1, <3>1 DEF SessionOK, RequestOK, TenantTypeOK
    <3>3. r \in Session
      BY <1>1, <3>2 DEF Session
    <3>4. /\ r.kind = tx[t].kind /\ r.tenant = tx[t].tenant /\ r.slug = tx[t].slug
          /\ r.old = tx[t].old /\ r.saw = history[tx[t].slug]
      BY <1>1 DEF Session
    <3>5. r.saw # None => r.saw.until <= now
      BY <2>2, <3>2, <3>4 DEF IsCooling, Entry
    <3>6. PICK onto \in {"loading", "live", "dropping", "writing"} :
            /\ Continue(t, onto)
            /\ onto \in {"loading", "dropping"} => tx[t].kind = "rename"
            /\ onto \in {"live", "writing"} => tx[t].kind # "rename"
            /\ onto \in {"dropping", "writing"} => pc[t] = "history"
      BY <3>1
    <3> HIDE DEF r
    <3>7. pc'[t] = onto /\ tx'[t] = r => SessionOK(t)'
      BY <1>1, <1>2, <3>1, <3>4, <3>5, <3>6
      DEF SessionOK, RequestOK, SawOK, RenameOK, LockOK, Suspending, Claiming
    <3> QED BY <3>1, <3>3, <3>6, <3>7, ContinueStep DEF Read, Stages
  <2> QED BY <1>6, <2>1, <2>2 DEF CheckHistory
<1>7. CASE LoadTenant(t)
  <2> DEFINE r == [tx[t] EXCEPT !.old = slug[tx[t].tenant]]
  <2>1. pc[t] = "loading" /\ Read(t, r) /\ Continue(t, "live")
    BY <1>7 DEF LoadTenant
  <2>2. tx[t].tenant \in Tenants /\ slug[tx[t].tenant] \in Slugs
    BY <1>1, <2>1 DEF SessionOK, RequestOK, RenameOK, TenantTypeOK
  <2>3. r \in Session
    BY <1>1, <2>2 DEF Session
  <2>4. /\ r.kind = tx[t].kind /\ r.tenant = tx[t].tenant /\ r.slug = tx[t].slug
        /\ r.saw = tx[t].saw /\ r.old = slug[tx[t].tenant]
    BY <1>1 DEF Session
  <2> HIDE DEF r
  <2>5. pc'[t] = "live" /\ tx'[t] = r => SessionOK(t)'
    BY <1>1, <1>2, <2>1, <2>2, <2>4
    DEF SessionOK, RequestOK, SawOK, RenameOK, LockOK, Suspending, Claiming
  <2> QED BY <2>1, <2>3, <2>5, ContinueStep DEF Read, Stages
<1>8. ASSUME NEW r \in Session, NEW onto \in {"retiring", "writing"},
             tx' = [tx EXCEPT ![t] = r], Continue(t, onto),
             pc[t] \in {"dropping", "retiring"},
             r.kind = tx[t].kind, r.tenant = tx[t].tenant, r.slug = tx[t].slug,
             r.saw = tx[t].saw, r.old = tx[t].old
      PROVE  TenantInv'
  <2>1. pc'[t] = onto /\ tx'[t] = r => SessionOK(t)'
    BY <1>1, <1>2, <1>8
    DEF SessionOK, RequestOK, SawOK, RenameOK, LockOK, Suspending, Claiming
  <2> QED BY <1>8, <2>1, ContinueStep DEF Stages
<1>9. CASE DropHistory(t)
  <2> DEFINE d == history[tx[t].slug] # None
             r == [tx[t] EXCEPT !.drop = d]
  <2>1. pc[t] = "dropping" /\ tx' = [tx EXCEPT ![t] = r] /\ Continue(t, "retiring")
    BY <1>9 DEF DropHistory, Read
  <2>2. d \in BOOLEAN
    OBVIOUS
  <2> HIDE DEF d
  <2>3. r \in Session
    BY <1>1, <2>2 DEF Session
  <2>4. /\ r.kind = tx[t].kind /\ r.tenant = tx[t].tenant /\ r.slug = tx[t].slug
        /\ r.saw = tx[t].saw /\ r.old = tx[t].old
    BY <1>1 DEF Session
  <2> HIDE DEF r
  <2> QED BY <1>8, <2>1, <2>3, <2>4
<1>10. CASE FindHistory(t)
  <2> DEFINE d == history[tx[t].old] # None /\ ~ (tx[t].drop /\ tx[t].slug = tx[t].old)
             r == [tx[t] EXCEPT !.found = d]
  <2>1. pc[t] = "retiring" /\ tx' = [tx EXCEPT ![t] = r] /\ Continue(t, "writing")
    BY <1>10 DEF FindHistory, Read
  <2>2. d \in BOOLEAN
    OBVIOUS
  <2> HIDE DEF d
  <2>3. r \in Session
    BY <1>1, <2>2 DEF Session
  <2>4. /\ r.kind = tx[t].kind /\ r.tenant = tx[t].tenant /\ r.slug = tx[t].slug
        /\ r.saw = tx[t].saw /\ r.old = tx[t].old
    BY <1>1 DEF Session
  <2> HIDE DEF r
  <2> QED BY <1>8, <2>1, <2>3, <2>4
<1>11. CASE FindTenant(t)
  <2>1. pc[t] = "finding" /\ tx[t].kind = "provision"
    BY <1>1, <1>11 DEF FindTenant, SessionOK, RequestOK
  <2>2. ASSUME NEW x \in Tenants, slug[x] = tx[t].slug,
               Read(t, [tx[t] EXCEPT !.tenant = x]), Continue(t, "reading")
        PROVE  TenantInv'
    <3> DEFINE r == [tx[t] EXCEPT !.tenant = x]
    <3>1. /\ r \in Session /\ r.kind = tx[t].kind /\ r.tenant = x /\ r.slug = tx[t].slug
          /\ r.saw = tx[t].saw
      BY <1>1 DEF Session
    <3>2. tx' = [tx EXCEPT ![t] = r]
      BY <2>2 DEF Read
    <3> HIDE DEF r
    <3>3. pc'[t] = "reading" /\ tx'[t] = r => SessionOK(t)'
      BY <1>1, <1>2, <2>1, <2>2, <3>1, TenantAssumption
      DEF SessionOK, RequestOK, SawOK, RenameOK, LockOK, Suspending, Claiming
    <3> QED BY <2>2, <3>1, <3>2, <3>3, ContinueStep DEF Stages
  <2>3. CASE Continue(t, "live") /\ UNCHANGED tx
    <3>1. pc'[t] = "live" => SessionOK(t)'
      BY <1>1, <1>2, <2>1, <2>3
      DEF SessionOK, RequestOK, SawOK, RenameOK, LockOK, Suspending, Claiming
    <3> QED BY <1>1, <2>3, <3>1, ContinueStep DEF Stages
  <2> QED BY <1>11, <2>2, <2>3 DEF FindTenant
<1>12. CASE ReadStatus(t)
  <2>1. CASE Abandon(t)
    BY <2>1, AbandonKeeps
  <2>2. CASE Read(t, [tx[t] EXCEPT !.seen = status[tx[t].tenant]]) /\ Continue(t, "writing")
    <3> DEFINE r == [tx[t] EXCEPT !.seen = status[tx[t].tenant]]
    <3>1. pc[t] = "reading" /\ tx[t].kind = "provision" /\ tx[t].tenant \in Tenants
      BY <1>1, <1>12 DEF ReadStatus, SessionOK, RequestOK
    <3>2. status[tx[t].tenant] \in Statuses \cup {None}
      BY <1>1, <3>1 DEF TenantTypeOK
    <3>3. /\ r \in Session /\ r.kind = tx[t].kind /\ r.tenant = tx[t].tenant
          /\ r.slug = tx[t].slug /\ r.saw = tx[t].saw
      BY <1>1, <3>2 DEF Session
    <3>4. tx' = [tx EXCEPT ![t] = r]
      BY <2>2 DEF Read
    <3> HIDE DEF r
    <3>5. pc'[t] = "writing" /\ tx'[t] = r => SessionOK(t)'
      BY <1>1, <1>2, <2>2, <3>1, <3>3
      DEF SessionOK, RequestOK, SawOK, RenameOK, LockOK, Suspending, Claiming
    <3> QED BY <2>2, <3>3, <3>4, <3>5, ContinueStep DEF Stages
  <2> QED BY <1>12, <2>1, <2>2 DEF ReadStatus
<1> QED BY <1>3, <1>4, <1>5, <1>6, <1>7, <1>9, <1>10, <1>11, <1>12

LEMMA LockStep ==
  ASSUME TenantInv, NEW t \in Requests, LockTenant(t)
  PROVE  TenantInv'
<1>1. CASE Abandon(t)
  BY <1>1, AbandonKeeps
<1>2. CASE ~ Abandon(t)
  <2> DEFINE x == tx[t].tenant
             r == [tx[t] EXCEPT !.seen = status[x]]
  <2>1. /\ pc[t] = "locking" /\ status[x] # None /\ tenantLock[x] = None
        /\ tenantLock' = [tenantLock EXCEPT ![x] = t]
        /\ pc' = [pc EXCEPT ![t] = "locked"] /\ tx' = [tx EXCEPT ![t] = r]
        /\ UNCHANGED <<now, registry>>
    BY <1>2 DEF LockTenant, Unlocked, Goto, Read
  <2>2. TenantTypeOK /\ SessionOK(t) /\ tx[t] \in Session
    BY DEF TenantInv, TenantTypeOK
  <2>3. x \in Tenants /\ tx[t].kind \in Suspending /\ status[x] \in Statuses
    BY <2>1, <2>2 DEF SessionOK, RequestOK, TenantTypeOK
  <2>4. /\ r \in Session /\ r.kind = tx[t].kind /\ r.tenant = x /\ r.slug = tx[t].slug
        /\ r.saw = tx[t].saw /\ r.seen = status[x]
    BY <2>2, <2>3 DEF Session
  <2>5. UNCHANGED <<now, status>>
    BY <2>1 DEF registry
  <2> HIDE DEF r
  <2>6. pc'[t] = "locked" /\ tx'[t] = r /\ tenantLock'[x] = t
    BY <2>1, <2>2, <2>3 DEF TenantTypeOK
  <2>7. SessionOK(t)'
    BY <2>1, <2>2, <2>3, <2>4, <2>5, <2>6
    DEF SessionOK, RequestOK, SawOK, RenameOK, LockOK, Suspending, Claiming
  <2>8. /\ pc' \in [Requests -> Stages] /\ tx' \in [Requests -> Session]
        /\ tenantLock' \in [Tenants -> Requests \cup {None}]
        /\ \A u \in Requests \ {t} : pc'[u] = pc[u] /\ tx'[u] = tx[u]
        /\ \A y \in Tenants : \A u \in Requests \ {t} :
             tenantLock[y] = u => tenantLock'[y] = u
    BY <2>1, <2>2, <2>3, <2>4, TenantAssumption DEF TenantTypeOK, Stages
  <2> QED BY <2>1, <2>7, <2>8, SessionStep
<1> QED BY <1>1, <1>2

LEMMA RenameStep ==
  ASSUME TenantInv, NEW t \in Requests, RenameSlug(t)
  PROVE  TenantInv'
<1>1. CASE Abandon(t)
  BY <1>1, AbandonKeeps
<1>2. CASE ~ Abandon(t)
  <2> DEFINE x == tx[t].tenant
             s == tx[t].slug
             o == tx[t].old
             e == [tenant |-> x, until |-> now + Cooling]
  <2>1. /\ pc[t] = "writing" /\ tx[t].kind = "rename" /\ ~ RenameConflict(t)
        /\ RetireSlug(t) /\ Finish(t) /\ slug' = [slug EXCEPT ![x] = IF s = o THEN @ ELSE s]
        /\ UNCHANGED <<now, status, suspends, reactivates>>
    BY <1>2 DEF RenameSlug, events
  <2>2. TenantTypeOK /\ SessionOK(t)
    BY DEF TenantInv
  <2>3. x \in Tenants /\ s \in Slugs /\ o \in Slugs /\ slug[x] \in Slugs
    BY <2>1, <2>2 DEF SessionOK, RequestOK, RenameOK, Claiming, TenantTypeOK
  <2>4. /\ e \in Entry
        /\ history' = [history EXCEPT ![s] = IF tx[t].drop THEN None ELSE @, ![o] = e]
    BY <2>1, <2>2, <2>3, TenantAssumption DEF RetireSlug, Entry, TenantTypeOK
  <2>5. history' \in [Slugs -> Entry \cup {None}]
    BY <2>2, <2>3, <2>4 DEF TenantTypeOK
  <2>6. slug' \in [Tenants -> Slugs \cup {None}] /\ s # None
    BY <2>1, <2>2, <2>3, TenantAssumption DEF TenantTypeOK
  <2>7. ASSUME NEW y \in Tenants, y # x PROVE slug'[y] = slug[y] /\ (s # o => slug[y] # s)
    BY <2>1, <2>2, <2>7 DEF TenantTypeOK, RenameConflict, IsLive
  <2>8. slug'[x] = IF s = o THEN slug[x] ELSE s
    BY <2>1, <2>2, <2>3 DEF TenantTypeOK
  <2>9. \A y, z \in Tenants : slug'[y] = slug'[z] => y = z \/ slug'[y] = None
    BY <2>2, <2>7, <2>8 DEF TenantTypeOK
  <2>10. \A y \in Tenants : (slug'[y] = None <=> slug[y] = None)
    BY <2>3, <2>6, <2>7, <2>8, TenantAssumption
  <2>11. \A y \in Tenants : TenantOK(y)'
    BY <2>1, <2>10 DEF TenantInv, TenantOK
  <2> HIDE DEF e
  <2> QED BY <2>1, <2>2, <2>5, <2>6, <2>9, <2>10, <2>11, CommitStep DEF TenantTypeOK
<1> QED BY <1>1, <1>2

LEMMA RegisterStep ==
  ASSUME TenantInv, NEW t \in Requests, RegisterTenant(t)
  PROVE  TenantInv'
<1>1. CASE Abandon(t)
  BY <1>1, AbandonKeeps
<1>2. CASE ~ Abandon(t)
  <2> DEFINE s == tx[t].slug
  <2>1. /\ pc[t] = "writing" /\ ~ IsLive(s) /\ Finish(t)
        /\ UNCHANGED <<now, history, suspends, reactivates>>
        /\ \E x \in Tenants :
             /\ status[x] = None
             /\ status' = [status EXCEPT ![x] = "active"]
             /\ slug'   = [slug EXCEPT ![x] = s]
    BY <1>2 DEF RegisterTenant, events
  <2>2. TenantTypeOK /\ SessionOK(t)
    BY DEF TenantInv
  <2>3. s \in Slugs /\ s # None
    BY <2>1, <2>2, TenantAssumption DEF SessionOK, RequestOK
  <2>4. PICK x \in Tenants :
          /\ status[x] = None
          /\ status' = [status EXCEPT ![x] = "active"]
          /\ slug'   = [slug EXCEPT ![x] = s]
    BY <2>1
  <2>5. /\ status' \in [Tenants -> Statuses \cup {None}]
        /\ slug'   \in [Tenants -> Slugs \cup {None}]
        /\ status'[x] = "active" /\ slug'[x] = s /\ "active" # None
        /\ \A y \in Tenants \ {x} : status'[y] = status[y] /\ slug'[y] = slug[y]
    BY <2>2, <2>3, <2>4, TenantAssumption DEF TenantTypeOK, Statuses
  <2>6. \A y, z \in Tenants : slug'[y] = slug'[z] => y = z \/ slug'[y] = None
    BY <2>1, <2>2, <2>5 DEF TenantTypeOK, IsLive
  <2>7. \A y \in Tenants : TenantOK(y)'
    BY <2>1, <2>3, <2>5 DEF TenantInv, TenantOK
  <2>8. \A y \in Tenants : slug[y] # None => slug'[y] # None
    BY <2>3, <2>5
  <2>9. \A y \in Tenants : \A u \in Requests \ {t} :
          tenantLock[y] = u => status'[y] = status[y] \/ status[y] = None
    BY <2>4, <2>5
  <2> QED BY <2>1, <2>2, <2>5, <2>6, <2>7, <2>8, <2>9, CommitStep DEF TenantTypeOK
<1> QED BY <1>1, <1>2

\* A step that only changes the status of one tenant, and its events with it.
LEMMA StatusStep ==
  ASSUME TenantInv, NEW t \in Requests, NEW x \in Tenants, NEW st \in Statuses,
         Finish(t), UNCHANGED <<now, slug, history>>, status[x] # None,
         status' = [status EXCEPT ![x] = st],
         suspends' \in [Tenants -> Nat], reactivates' \in [Tenants -> Nat],
         \A y \in Tenants \ {x} : suspends'[y] = suspends[y] /\ reactivates'[y] = reactivates[y],
         reactivates'[x] <= suspends'[x],
         st = "suspended" => reactivates'[x] < suspends'[x],
         tenantLock[x] \in {None, t}
  PROVE  TenantInv'
<1>1. TenantTypeOK
  BY DEF TenantInv
<1>2. /\ status' \in [Tenants -> Statuses \cup {None}] /\ st # None
      /\ status'[x] = st /\ \A y \in Tenants \ {x} : status'[y] = status[y]
  BY <1>1, TenantAssumption DEF TenantTypeOK
<1>3. \A y \in Tenants : TenantOK(y)'
  BY <1>2 DEF TenantInv, TenantOK
<1>4. \A y \in Tenants : \A u \in Requests \ {t} :
        tenantLock[y] = u => status'[y] = status[y] \/ status[y] = None
  BY <1>2, TenantAssumption
<1> QED BY <1>1, <1>2, <1>3, <1>4, CommitStep DEF TenantTypeOK

LEMMA ResumeStep ==
  ASSUME TenantInv, NEW t \in Requests, ResumeTenant(t)
  PROVE  TenantInv'
<1> DEFINE x == tx[t].tenant
<1>1. /\ tx[t].kind = "provision" /\ x # None /\ tenantLock[x] = None
      /\ status' = [status EXCEPT ![x] = "active"]
      /\ Finish(t) /\ UNCHANGED <<now, slug, history, suspends, reactivates>>
  BY DEF ResumeTenant, Unlocked, events
<1>2. TenantTypeOK /\ SessionOK(t) /\ x \in Tenants
  BY <1>1 DEF TenantInv, TenantTypeOK, Session
<1>3. status[x] # None /\ reactivates[x] <= suspends[x]
  BY <1>1, <1>2 DEF TenantInv, SessionOK, RenameOK, TenantOK
<1> QED BY <1>1, <1>2, <1>3, StatusStep DEF TenantTypeOK, Statuses

\* An operator's suspension, or the tenant admin's.
LEMMA DeactivateStep ==
  ASSUME TenantInv, NEW t \in Requests, DeactivateTenant(t)
  PROVE  TenantInv'
<1>1. CASE Abandon(t)
  BY <1>1, AbandonKeeps
<1>2. CASE ~ Abandon(t)
  <2> DEFINE x == tx[t].tenant
  <2>1. /\ pc[t] = "locked" /\ Finish(t) /\ UNCHANGED <<now, slug, history, reactivates>>
        /\ status'   = [status EXCEPT ![x] = "suspended"]
        /\ suspends' = [suspends EXCEPT ![x] = @ + 1]
    BY <1>2 DEF DeactivateTenant
  <2>2. /\ TenantTypeOK /\ x \in Tenants /\ tenantLock[x] = t
        /\ status[x] # None /\ reactivates[x] <= suspends[x]
    BY <2>1 DEF TenantInv, SessionOK, RequestOK, LockOK, TenantOK
  <2>3. /\ suspends' \in [Tenants -> Nat] /\ suspends'[x] = suspends[x] + 1
        /\ \A y \in Tenants \ {x} : suspends'[y] = suspends[y]
        /\ reactivates'[x] < suspends'[x]
    BY <2>1, <2>2 DEF TenantTypeOK
  <2>4. reactivates' \in [Tenants -> Nat] /\ reactivates'[x] <= suspends'[x]
    BY <2>1, <2>2, <2>3 DEF TenantTypeOK
  <2> QED BY <2>1, <2>2, <2>3, <2>4, StatusStep DEF Statuses
<1> QED BY <1>1, <1>2

LEMMA ReactivateStep ==
  ASSUME TenantInv, NEW t \in Requests, ReactivateTenant(t)
  PROVE  TenantInv'
<1>1. CASE Abandon(t)
  BY <1>1, AbandonKeeps
<1>2. CASE ~ Abandon(t)
  <2> DEFINE x == tx[t].tenant
  <2>1. /\ pc[t] = "locked" /\ tx[t].seen = "suspended" /\ Finish(t)
        /\ UNCHANGED <<now, slug, history, suspends>>
        /\ status'      = [status EXCEPT ![x] = "active"]
        /\ reactivates' = [reactivates EXCEPT ![x] = @ + 1]
    BY <1>2 DEF ReactivateTenant
  <2>2. /\ TenantTypeOK /\ x \in Tenants /\ tenantLock[x] = t
        /\ status[x] # None /\ reactivates[x] < suspends[x]
    BY <2>1 DEF TenantInv, SessionOK, RequestOK, LockOK, TenantOK
  <2>3. /\ reactivates' \in [Tenants -> Nat] /\ suspends' \in [Tenants -> Nat]
        /\ \A y \in Tenants \ {x} : reactivates'[y] = reactivates[y]
        /\ reactivates'[x] <= suspends'[x]
    BY <2>1, <2>2 DEF TenantTypeOK
  <2> QED BY <2>1, <2>2, <2>3, StatusStep DEF Statuses
<1> QED BY <1>1, <1>2

LEMMA TickStep ==
  ASSUME TenantInv, Tick
  PROVE  TenantInv'
<1>1. /\ now' = now + 1 /\ now \in Nat
      /\ UNCHANGED <<status, slug, history, suspends, reactivates, tenantLock, pc, tx>>
  BY DEF Tick, registry, events, TenantInv, TenantTypeOK
<1>2. TenantTypeOK'
  BY <1>1 DEF TenantInv, TenantTypeOK
<1>3. \A x \in Tenants : TenantOK(x)'
  BY <1>1 DEF TenantInv, TenantOK
<1>4. ASSUME NEW t \in Requests PROVE SessionOK(t)'
  <2>1. SessionOK(t) /\ tx[t].saw \in Entry \cup {None}
    BY DEF TenantInv, TenantTypeOK, Session
  <2>2. SawOK(t)'
    BY <1>1, <2>1 DEF SessionOK, SawOK, Entry
  <2> QED BY <1>1, <2>1, <2>2 DEF SessionOK, RequestOK, RenameOK, LockOK
<1> QED BY <1>2, <1>3, <1>4 DEF TenantInv

LEMMA TenantInitOK == TenantInit => TenantInv
<1> SUFFICES ASSUME TenantInit PROVE TenantInv
  OBVIOUS
<1>1. PICK s \in StartingStates : status = s.status /\ slug = s.slug
  BY DEF TenantInit
<1>2. /\ s \in [status : [Tenants -> Statuses \cup {None}], slug : [Tenants -> Slugs \cup {None}]]
      /\ \A x, y \in Tenants :
           /\ s.status[x] # "suspended"
           /\ s.status[x] = None <=> s.slug[x] = None
           /\ s.slug[x] = s.slug[y] => x = y \/ s.slug[x] = None
  BY TenantAssumption
<1>3. /\ now = 0 /\ history = [h \in Slugs |-> None]
      /\ suspends = [x \in Tenants |-> 0] /\ reactivates = [x \in Tenants |-> 0]
      /\ tenantLock = [x \in Tenants |-> None]
      /\ pc = [t \in Requests |-> "new"] /\ tx = [t \in Requests |-> Closed]
  BY DEF TenantInit
<1>4. TenantTypeOK
  BY <1>1, <1>2, <1>3, ClosedFacts DEF TenantTypeOK, Stages
<1>5. ASSUME NEW x \in Tenants PROVE TenantOK(x)
  <2>1. status[x] # "suspended" /\ (status[x] = None <=> slug[x] = None)
    BY <1>1, <1>2
  <2>2. reactivates[x] = 0 /\ suspends[x] = 0
    BY <1>3
  <2> QED BY <2>1, <2>2 DEF TenantOK
<1>6. ASSUME NEW t \in Requests PROVE SessionOK(t)
  <2>1. pc[t] = "new" /\ tx[t] = Closed /\ Closed.kind \notin Suspending \cup Claiming
    BY <1>3, ClosedFacts DEF Suspending, Claiming, Kinds
  <2> QED BY <2>1, ClosedFacts
          DEF SessionOK, RequestOK, SawOK, RenameOK, LockOK, Suspending, Claiming
<1> QED BY <1>4, <1>5, <1>6 DEF TenantInv

LEMMA TenantNextKeeps == TenantInv /\ [TenantNext]_tenantVars => TenantInv'
<1> SUFFICES ASSUME TenantInv, [TenantNext]_tenantVars PROVE TenantInv'
  OBVIOUS
<1>1. CASE UNCHANGED tenantVars
  BY <1>1 DEF tenantVars, registry, events, TenantInv, TenantTypeOK, TenantOK, SessionOK,
              RequestOK, SawOK, RenameOK, LockOK
<1>2. CASE Tick
  BY <1>2, TickStep
<1>3. ASSUME NEW t \in Requests,
             \/ Arrive(t) \/ Guard(t) \/ CheckLive(t) \/ CheckHistory(t)
             \/ Rename(t) \/ RegisterTenant(t) \/ Provision(t) \/ Suspension(t)
             \/ Die(t)
      PROVE  TenantInv'
  BY <1>3, ReadingStep, LockStep, RenameStep, RegisterStep, ResumeStep, DeactivateStep,
     ReactivateStep, AbandonKeeps DEF Rename, Provision, Suspension, Die
<1> QED BY <1>1, <1>2, <1>3 DEF TenantNext

THEOREM TenantInvariance == TenantSpec => []TenantInv
BY TenantInitOK, TenantNextKeeps, PTL DEF TenantSpec

-----------------------------------------------------------------------------
\* Every variable keeps its type and live slugs stay distinct, whatever
\* registrations and renames run at once.
THEOREM TenantTypesTheorem == TenantSpec => []TenantTypeOK
<1>1. TenantInv => TenantTypeOK
  BY DEF TenantInv
<1> QED BY <1>1, TenantInvariance, PTL

\* Suspensions and reactivations alternate: the audit never shows a
\* reactivation without the suspension it ends.
THEOREM Reactivations == TenantSpec => []ReactivationsAnswerSuspensions
<1>1. TenantInv => ReactivationsAnswerSuspensions
  BY DEF TenantInv, TenantOK, ReactivationsAnswerSuspensions
<1> QED BY <1>1, TenantInvariance, PTL

\* A transaction that commits 'suspend' or 'reactivate' changes the status.
EventIsChange(x) ==
  /\ suspends'[x] # suspends[x] => status[x] # "suspended" /\ status'[x] = "suspended"
  /\ reactivates'[x] # reactivates[x] => status[x] = "suspended" /\ status'[x] = "active"

LEMMA EventStep ==
  ASSUME TenantInv, [TenantNext]_tenantVars, NEW x \in Tenants
  PROVE  EventIsChange(x)
<1>1. CASE suspends' = suspends /\ reactivates' = reactivates
  BY <1>1 DEF EventIsChange
<1>2. ASSUME NEW t \in Requests, DeactivateTenant(t), ~ UNCHANGED <<suspends, reactivates>>
      PROVE  EventIsChange(x)
  <2>1. /\ pc[t] = "locked" /\ tx[t].seen # "suspended" /\ reactivates' = reactivates
        /\ status'   = [status EXCEPT ![tx[t].tenant] = "suspended"]
        /\ suspends' = [suspends EXCEPT ![tx[t].tenant] = @ + 1]
    BY <1>2 DEF DeactivateTenant, Abandon, registry, events
  <2>2. TenantTypeOK /\ tx[t].seen = status[tx[t].tenant] /\ tx[t].tenant \in Tenants
    BY <2>1 DEF TenantInv, SessionOK, RequestOK, LockOK
  <2> QED BY <2>1, <2>2 DEF EventIsChange, TenantTypeOK
<1>3. ASSUME NEW t \in Requests, ReactivateTenant(t), ~ UNCHANGED <<suspends, reactivates>>
      PROVE  EventIsChange(x)
  <2>1. /\ pc[t] = "locked" /\ tx[t].seen = "suspended" /\ suspends' = suspends
        /\ status'      = [status EXCEPT ![tx[t].tenant] = "active"]
        /\ reactivates' = [reactivates EXCEPT ![tx[t].tenant] = @ + 1]
    BY <1>3 DEF ReactivateTenant, Abandon, registry, events
  <2>2. TenantTypeOK /\ tx[t].seen = status[tx[t].tenant] /\ tx[t].tenant \in Tenants
    BY <2>1 DEF TenantInv, SessionOK, RequestOK, LockOK
  <2> QED BY <2>1, <2>2 DEF EventIsChange, TenantTypeOK
<1>4. ASSUME NEW t \in Requests,
             \/ Arrive(t) \/ Guard(t) \/ CheckLive(t) \/ CheckHistory(t)
             \/ Rename(t) \/ RegisterTenant(t) \/ Provision(t) \/ LockTenant(t) \/ Die(t)
      PROVE  UNCHANGED <<suspends, reactivates>>
  BY <1>4 DEF Arrive, Guard, CheckLive, CheckHistory, Rename, LoadTenant, DropHistory,
              FindHistory, RenameSlug, RegisterTenant, Provision, FindTenant, ReadStatus,
              ResumeTenant, LockTenant, Die, Abandon, Continue, registry, events
<1>5. Tick \/ UNCHANGED tenantVars => UNCHANGED <<suspends, reactivates>>
  BY DEF Tick, tenantVars, registry, events
<1> QED BY <1>1, <1>2, <1>3, <1>4, <1>5 DEF TenantNext, Suspension

\* No phantom events, whatever operators and tenant admins do at once.
THEOREM EventsTheorem == TenantSpec => EventsAreChanges
<1>1. TenantInv /\ [TenantNext]_tenantVars =>
        [\A x \in Tenants :
           /\ suspends'[x] # suspends[x] =>
                status[x] # "suspended" /\ status'[x] = "suspended"
           /\ reactivates'[x] # reactivates[x] =>
                status[x] = "suspended" /\ status'[x] = "active"]_tenantVars
  BY EventStep DEF EventIsChange
<1> QED BY <1>1, TenantInvariance, PTL DEF TenantSpec, EventsAreChanges

\* A cooling slug is claimed only by a request that checked it before it was retired.
THEOREM CoolingTheorem == TenantSpec => CoolingClaimedOnlyInRace
<1>1. ASSUME TenantInv, NEW t \in Requests, Claims(t), IsCooling(tx[t].slug)
      PROVE  history[tx[t].slug] # tx[t].saw
  <2>1. tx[t].saw # None => tx[t].saw.until <= now
    BY <1>1 DEF TenantInv, SessionOK, SawOK
  <2>2. history[tx[t].slug] # None /\ history[tx[t].slug].until > now
    BY <1>1 DEF IsCooling
  <2>3. pc[t] = "writing" => tx[t].slug \in Slugs
    BY <1>1 DEF TenantInv, SessionOK, RequestOK
  <2>4. pc[t] = "writing" /\ now \in Nat
    BY <1>1 DEF Claims, TenantInv, TenantTypeOK
  <2>5. history[tx[t].slug] \in Entry
    BY <1>1, <2>2, <2>3, <2>4 DEF TenantInv, TenantTypeOK
  <2> QED BY <2>1, <2>2, <2>4, <2>5 DEF Entry
<1>2. TenantInv /\ [TenantNext]_tenantVars =>
        [\A t \in Requests :
           Claims(t) /\ IsCooling(tx[t].slug) => history[tx[t].slug] # tx[t].saw]_tenantVars
  BY <1>1
<1> QED BY <1>2, TenantInvariance, PTL DEF TenantSpec, CoolingClaimedOnlyInRace

\* The slug a rename gives up redirects to its tenant, when the rename is fresh.
Cools(t) ==
  LET x == tx[t].tenant IN
  /\ pc[t] = "writing" /\ pc'[t] = "done" /\ tx[t].kind = "rename"
  /\ slug'[x] # slug[x] /\ tx[t].old = slug[x]
  => history'[slug[x]] = [tenant |-> x, until |-> now + Cooling]
LEMMA CoolsStep ==
  ASSUME TenantInv, [TenantNext]_tenantVars, NEW t \in Requests
  PROVE  Cools(t)
<1> DEFINE x == tx[t].tenant
<1> SUFFICES ASSUME pc[t] = "writing", pc'[t] = "done", tx[t].kind = "rename",
                    slug'[x] # slug[x], tx[t].old = slug[x]
             PROVE  history'[slug[x]] = [tenant |-> x, until |-> now + Cooling]
  BY DEF Cools
<1>1. TenantTypeOK /\ x \in Tenants /\ slug[x] \in Slugs
  BY DEF TenantInv, SessionOK, RequestOK, RenameOK, TenantTypeOK
<1>2. CASE RenameSlug(t)
  <2>1. RetireSlug(t)
    BY <1>2 DEF RenameSlug, Abandon, registry
  <2>2. history' = [history EXCEPT ![tx[t].slug] = IF tx[t].drop THEN None ELSE @,
                                   ![slug[x]] = [tenant |-> x, until |-> now + Cooling]]
    BY <2>1 DEF RetireSlug
  <2> QED BY <1>1, <2>2 DEF TenantTypeOK
<1>3. ASSUME NEW u \in Requests, u # t, Finish(u) PROVE pc'[t] = pc[t]
  BY <1>1, <1>3 DEF Finish, Goto, TenantTypeOK
<1>4. ASSUME NEW u \in Requests, RenameSlug(u) \/ RegisterTenant(u), u # t PROVE FALSE
  BY <1>3, <1>4 DEF RenameSlug, RegisterTenant, Abandon
<1>5. RegisterTenant(t) => FALSE
  BY DEF RegisterTenant
<1>6. ASSUME NEW u \in Requests,
             \/ Arrive(u) \/ Guard(u) \/ CheckLive(u) \/ CheckHistory(u)
             \/ LoadTenant(u) \/ DropHistory(u) \/ FindHistory(u)
             \/ Provision(u) \/ Suspension(u) \/ Die(u)
      PROVE  slug' = slug
  BY <1>6 DEF Arrive, Guard, CheckLive, CheckHistory, LoadTenant, DropHistory, FindHistory,
              Provision, FindTenant, ReadStatus, ResumeTenant, Suspension, LockTenant,
              DeactivateTenant, ReactivateTenant, Die, Abandon, Continue, registry
<1>7. Tick \/ UNCHANGED tenantVars => slug' = slug
  BY DEF Tick, tenantVars, registry
<1> QED BY <1>2, <1>4, <1>5, <1>6, <1>7 DEF TenantNext, Rename

\* Every rename that saw the tenant as it still is leaves the old slug cooling.
THEOREM FreshRename == TenantSpec => FreshRenameCools
<1>1. TenantInv /\ [TenantNext]_tenantVars =>
        [\A t \in Requests :
           LET x == tx[t].tenant IN
           /\ pc[t] = "writing" /\ pc'[t] = "done" /\ tx[t].kind = "rename"
           /\ slug'[x] # slug[x] /\ tx[t].old = slug[x]
           => history'[slug[x]] = [tenant |-> x, until |-> now + Cooling]]_tenantVars
  BY CoolsStep DEF Cools
<1> QED BY <1>1, TenantInvariance, PTL DEF TenantSpec, FreshRenameCools

-----------------------------------------------------------------------------
(* TenantDatabases.                                                        *)

Planes == {"control", "default"}

TenantsTyped ==
  /\ standing \in [Clients -> {"none", "provisioning", "active", "suspended"}]
  /\ dsn \in [Clients -> {"own", "placeholder"}]
  /\ database \in [Clients -> Nat]
  /\ setup \in [Clients -> [step : {"none", "creating", "migrating", "activating"},
                            image : Nat]]
  /\ orders \in 0..MaxOrders /\ early \subseteq Clients

RunsTyped ==
  /\ planes \in [Planes -> Nat]
  /\ report \in [Migrations ->
       [step : {"none", "control", "default", "listing", "tenants", "ended"},
        image : Nat, targets : SUBSET Clients, left : SUBSET Clients,
        failed : SUBSET (Clients \cup Planes)]]

\* Every revision is that of a release, or of a database that has none yet.
Released ==
  /\ \A t \in Clients : database[t] \in Releases \cup {0, 1}
  /\ \A p \in Planes : planes[p] \in Releases \cup {1}

\* What a run knows at each step: the shared databases are at its release, or
\* their failure is on record, and so is each tenant it has gone through.
RunOK(r) ==
  /\ report[r].image \in Releases \cup {0}
  /\ report[r].left \subseteq report[r].targets
  /\ report[r].failed \subseteq report[r].targets \cup Planes
  /\ report[r].step \in {"default", "listing", "tenants"} => planes.control >= report[r].image
  /\ report[r].step = "ended" /\ "control" \notin report[r].failed =>
       report[r].left = {} /\ planes.control >= report[r].image
  /\ report[r].step \in {"listing", "tenants", "ended"} /\ Planes \cap report[r].failed = {} =>
       planes.default >= report[r].image
  /\ report[r].step \in {"none", "control", "default", "listing"} =>
       report[r].targets = {} /\ report[r].left = {}
  /\ \A t \in report[r].targets :
       /\ standing[t] # "none"
       /\ t \in report[r].left \cup report[r].failed \/ database[t] >= report[r].image

\* What a provisioning has reached, and what an active or suspended tenant has.
DatabaseOK(t) ==
  /\ setup[t].step # "none" => setup[t].image \in Releases
  /\ setup[t].step = "activating" => database[t] > 1
  /\ standing[t] \in {"active", "suspended"} /\ database[t] <= 1 =>
       t \in early \/ dsn[t] = "placeholder"

DatabasesInv ==
  /\ TenantsTyped /\ RunsTyped /\ Released
  /\ \A r \in Migrations : RunOK(r)
  /\ \A t \in Clients : DatabaseOK(t)

LEMMA ReleaseNumbers == Releases \subseteq Nat /\ \A n \in Releases : n > 1
BY DatabasesAssumption

LEMMA DatabasesInitOK == DatabasesInit => DatabasesInv
BY DatabasesAssumption DEF DatabasesInit, DatabasesInv, TenantsTyped, RunsTyped, Released, RunOK,
                            DatabaseOK, Unstarted, NoSetup, Planes

-----------------------------------------------------------------------------
(* The runs                                                                *)

\* What the actions of a run have in common: only its own report changes, the
\* shared databases move forward, and no tenant's database goes back.
Forward ==
  /\ UNCHANGED tenantRows
  /\ planes' \in [Planes -> Nat]
  /\ \A p \in Planes : planes'[p] >= planes[p]
  /\ database' \in [Clients -> Nat]
  /\ \A t \in Clients : database'[t] >= database[t]
  /\ Released'

LEMMA ForwardKeeps ==
  ASSUME DatabasesInv, Forward, NEW r \in Migrations, NEW rec,
         report' = [report EXCEPT ![r] = rec],
         rec \in [step : {"none", "control", "default", "listing", "tenants", "ended"},
                  image : Nat, targets : SUBSET Clients,
                  left : SUBSET Clients, failed : SUBSET (Clients \cup Planes)],
         RunOK(r)'
  PROVE  DatabasesInv'
<1>1. TenantsTyped'
  BY DEF DatabasesInv, TenantsTyped, Forward, tenantRows
<1>2. RunsTyped'
  BY DEF DatabasesInv, RunsTyped, Forward
<1>3. ASSUME NEW s \in Migrations PROVE RunOK(s)'
  <2>1. CASE s = r
    BY <2>1
  <2>2. CASE s # r
    <3>1. report'[s] = report[s]
      BY <2>2 DEF DatabasesInv, RunsTyped
    <3>2. /\ report[s].image \in Nat /\ report[s].targets \subseteq Clients
          /\ planes.control \in Nat /\ planes'.control \in Nat
          /\ planes.default \in Nat /\ planes'.default \in Nat
          /\ planes'.control >= planes.control /\ planes'.default >= planes.default
      BY DEF DatabasesInv, RunsTyped, Forward, Planes
    <3>3. ASSUME NEW t \in Clients
          PROVE  database[t] \in Nat /\ database'[t] \in Nat /\ database'[t] >= database[t]
      BY DEF DatabasesInv, TenantsTyped, Forward
    <3>4. RunOK(s) /\ standing' = standing
      BY DEF DatabasesInv, Forward, tenantRows
    <3> QED
      BY <3>1, <3>2, <3>3, <3>4 DEF RunOK
  <2> QED
    BY <2>1, <2>2
<1>4. ASSUME NEW t \in Clients PROVE DatabaseOK(t)'
  <2>1. database[t] \in Nat /\ database'[t] \in Nat /\ database'[t] >= database[t]
    BY DEF DatabasesInv, TenantsTyped, Forward
  <2> QED
    BY <2>1 DEF DatabasesInv, DatabaseOK, Forward, tenantRows
<1> QED
  BY <1>1, <1>2, <1>3, <1>4 DEF DatabasesInv, Forward

\* The types of a run's own report and of the shared databases.
LEMMA ReportTyped ==
  ASSUME DatabasesInv, NEW r \in Migrations
  PROVE  /\ report[r] \in
              [step : {"none", "control", "default", "listing", "tenants", "ended"},
               image : Nat, targets : SUBSET Clients,
               left : SUBSET Clients, failed : SUBSET (Clients \cup Planes)]
         /\ report[r].image \in Nat /\ planes.control \in Nat /\ planes.default \in Nat
         /\ \A t \in Clients : database[t] \in Nat
         /\ RunOK(r)
         /\ UNCHANGED <<database, planes>> /\ UNCHANGED tenantRows => Forward
<1>1. RunsTyped /\ TenantsTyped /\ Released /\ RunOK(r)
  BY DEF DatabasesInv
<1>2. planes.control \in Nat /\ planes.default \in Nat
  BY <1>1 DEF RunsTyped, Planes
<1>3. UNCHANGED <<database, planes>> /\ UNCHANGED tenantRows => Forward
  BY <1>1, <1>2 DEF RunsTyped, TenantsTyped, Released, Forward, Planes
<1> QED
  BY <1>1, <1>2, <1>3 DEF RunsTyped, TenantsTyped

LEMMA BeginOK ==
  ASSUME DatabasesInv, NEW r \in Migrations, NEW image \in Releases, Begin(r, image)
  PROVE  DatabasesInv'
<1> DEFINE rec == [Unstarted EXCEPT !.step = "control", !.image = image]
<1>1. Forward /\ report' = [report EXCEPT ![r] = rec]
  BY ReportTyped DEF Begin, Writes
<1>2. report'[r] = rec
  BY <1>1 DEF DatabasesInv, RunsTyped
<1>3. RunOK(r)'
  BY <1>2, ReleaseNumbers DEF RunOK, Unstarted
<1>4. rec \in [step : {"none", "control", "default", "listing", "tenants", "ended"},
               image : Nat, targets : SUBSET Clients,
               left : SUBSET Clients, failed : SUBSET (Clients \cup Planes)]
  BY ReleaseNumbers DEF Unstarted
<1> QED
  BY <1>1, <1>3, <1>4, ForwardKeeps

\* One of the shared databases is led to the release of the run.
LEMMA UpgradedForward ==
  ASSUME DatabasesInv, NEW r \in Migrations, NEW which \in Planes, Upgraded(r, which),
         UNCHANGED database, UNCHANGED tenantRows
  PROVE  Forward /\ planes'[which] = report[r].image
<1>1. /\ planes \in [Planes -> Nat] /\ database \in [Clients -> Nat]
      /\ report[r].image \in Nat
  BY DEF DatabasesInv, RunsTyped, TenantsTyped
<1>2. planes' = [planes EXCEPT ![which] = report[r].image] /\ planes[which] <= report[r].image
      /\ planes[which] # 0
  BY DEF Upgraded, MayUpgrade
<1>3. report[r].image \in Releases
  BY <1>1, <1>2 DEF DatabasesInv, RunOK
<1>4. planes' \in [Planes -> Nat] /\ planes'[which] = report[r].image
  BY <1>1, <1>2
<1>5. ASSUME NEW p \in Planes PROVE planes'[p] >= planes[p]
  BY <1>1, <1>2
<1>6. \A t \in Clients : database'[t] >= database[t]
  BY <1>1
<1>7. Released'
  BY <1>1, <1>2, <1>3 DEF DatabasesInv, Released
<1> QED
  BY <1>1, <1>4, <1>5, <1>6, <1>7 DEF Forward

LEMMA UpgradeControlOK ==
  ASSUME DatabasesInv, NEW r \in Migrations, UpgradeControl(r)
  PROVE  DatabasesInv'
<1> USE DEF Planes
<1>1. CASE Upgraded(r, "control") /\ Writes(r, [report[r] EXCEPT !.step = "default"])
  <2> DEFINE rec == [report[r] EXCEPT !.step = "default"]
  <2>1. Forward /\ planes'.control = report[r].image /\ report' = [report EXCEPT ![r] = rec]
    BY <1>1, UpgradedForward DEF UpgradeControl, Writes
  <2>2. report'[r] = rec
    BY <2>1 DEF DatabasesInv, RunsTyped
  <2>3. RunOK(r)'
    BY <2>1, <2>2, ReportTyped DEF RunOK, UpgradeControl
  <2> QED
    BY <2>1, <2>3, ReportTyped, ForwardKeeps
<1>2. CASE UNCHANGED planes /\ Writes(r, Ended(report[r], {"control"}))
  <2> DEFINE rec == Ended(report[r], {"control"})
  <2>1. Forward /\ report' = [report EXCEPT ![r] = rec]
    BY <1>2, ReportTyped DEF UpgradeControl, Writes
  <2>2. report'[r] = rec
    BY <2>1 DEF DatabasesInv, RunsTyped
  <2>3. RunOK(r)'
    BY <2>1, <2>2, ReportTyped DEF RunOK, UpgradeControl, Ended
  <2>4. rec \in [step : {"none", "control", "default", "listing", "tenants", "ended"},
               image : Nat, targets : SUBSET Clients,
               left : SUBSET Clients, failed : SUBSET (Clients \cup Planes)]
    BY ReportTyped DEF Ended
  <2> QED
    BY <2>1, <2>3, <2>4, ForwardKeeps
<1> QED
  BY <1>1, <1>2 DEF UpgradeControl

LEMMA UpgradeDefaultOK ==
  ASSUME DatabasesInv, NEW r \in Migrations, UpgradeDefault(r)
  PROVE  DatabasesInv'
<1> USE DEF Planes
<1>1. CASE Upgraded(r, "default") /\ Writes(r, [report[r] EXCEPT !.step = "listing"])
  <2> DEFINE rec == [report[r] EXCEPT !.step = "listing"]
  <2>1. Forward /\ planes'.default = report[r].image /\ report' = [report EXCEPT ![r] = rec]
    BY <1>1, UpgradedForward DEF UpgradeDefault, Writes
  <2>2. report'[r] = rec
    BY <2>1 DEF DatabasesInv, RunsTyped
  <2>3. planes'.control = planes.control
    BY <1>1 DEF Upgraded, DatabasesInv, RunsTyped
  <2>4. RunOK(r)'
    BY <2>1, <2>2, <2>3, ReportTyped DEF RunOK, UpgradeDefault
  <2> QED
    BY <2>1, <2>4, ReportTyped, ForwardKeeps
<1>2. CASE /\ UNCHANGED planes
           /\ Writes(r, [report[r] EXCEPT !.step = "listing", !.failed = @ \cup {"default"}])
  <2> DEFINE rec == [report[r] EXCEPT !.step = "listing", !.failed = @ \cup {"default"}]
  <2>1. Forward /\ report' = [report EXCEPT ![r] = rec]
    BY <1>2, ReportTyped DEF UpgradeDefault, Writes
  <2>2. report'[r] = rec
    BY <2>1 DEF DatabasesInv, RunsTyped
  <2>3. RunOK(r)'
    BY <1>2, <2>1, <2>2, ReportTyped DEF RunOK, UpgradeDefault
  <2> QED
    BY <2>1, <2>3, ReportTyped, ForwardKeeps
<1> QED
  BY <1>1, <1>2 DEF UpgradeDefault

LEMMA EnumerateOK ==
  ASSUME DatabasesInv, NEW r \in Migrations, Enumerate(r)
  PROVE  DatabasesInv'
<1>1. Forward
  BY ReportTyped DEF Enumerate, Writes
<1>2. CASE Writes(r, [report[r] EXCEPT !.step = "tenants", !.targets = Active, !.left = Active])
  <2> DEFINE rec == [report[r] EXCEPT !.step = "tenants", !.targets = Active, !.left = Active]
  <2>1. report' = [report EXCEPT ![r] = rec] /\ report'[r] = rec
    BY <1>2 DEF DatabasesInv, RunsTyped, Writes
  <2>2. UNCHANGED <<planes, database, standing>>
    BY <1>2 DEF Enumerate, Writes, tenantRows
  <2>3. RunOK(r)'
    BY <2>1, <2>2, ReportTyped DEF RunOK, Enumerate, Active
  <2>4. rec \in [step : {"none", "control", "default", "listing", "tenants", "ended"},
               image : Nat, targets : SUBSET Clients,
               left : SUBSET Clients, failed : SUBSET (Clients \cup Planes)]
    BY ReportTyped DEF Active
  <2> QED
    BY <1>1, <2>1, <2>3, <2>4, ForwardKeeps
<1>3. CASE Writes(r, Ended(report[r], {"control"}))
  <2> DEFINE rec == Ended(report[r], {"control"})
  <2>1. report' = [report EXCEPT ![r] = rec] /\ report'[r] = rec
    BY <1>3 DEF DatabasesInv, RunsTyped, Writes
  <2>2. UNCHANGED <<planes, database, standing>>
    BY <1>3 DEF Enumerate, Writes, tenantRows
  <2>3. RunOK(r)'
    BY <2>1, <2>2, ReportTyped DEF RunOK, Enumerate, Ended, Planes
  <2>4. rec \in [step : {"none", "control", "default", "listing", "tenants", "ended"},
               image : Nat, targets : SUBSET Clients,
               left : SUBSET Clients, failed : SUBSET (Clients \cup Planes)]
    BY ReportTyped DEF Ended, Planes
  <2> QED
    BY <1>1, <2>1, <2>3, <2>4, ForwardKeeps
<1> QED
  BY <1>2, <1>3 DEF Enumerate

LEMMA MigrateTenantOK ==
  ASSUME DatabasesInv, NEW r \in Migrations, NEW t \in Clients, MigrateTenant(r, t)
  PROVE  DatabasesInv'
<1>1. CASE /\ MayUpgrade(report[r].image, database[t])
           /\ database' = [database EXCEPT ![t] = report[r].image]
           /\ Writes(r, [report[r] EXCEPT !.left = @ \ {t}])
  <2> DEFINE rec == [report[r] EXCEPT !.left = @ \ {t}]
  <2>1. report' = [report EXCEPT ![r] = rec] /\ report'[r] = rec
    BY <1>1 DEF DatabasesInv, RunsTyped, Writes
  <2>2. report[r].image \in Releases /\ database[t] <= report[r].image
    <3>1. report[r].image \in Nat /\ database[t] \in Nat
      BY ReportTyped
    <3>2. report[r].image # 0
      BY <3>1, <1>1 DEF MayUpgrade
    <3> QED
      BY <3>1, <3>2, <1>1, ReportTyped DEF MayUpgrade, RunOK
  <2>3. Forward
    <3>1. /\ database \in [Clients -> Nat] /\ planes \in [Planes -> Nat]
          /\ report[r].image \in Nat /\ Released
      BY ReportTyped DEF DatabasesInv, RunsTyped, TenantsTyped
    <3>2. database' \in [Clients -> Nat] /\ \A u \in Clients : database'[u] >= database[u]
      BY <1>1, <2>2, <3>1
    <3>3. Released'
      BY <1>1, <2>2, <3>1 DEF Released, MigrateTenant
    <3>4. \A p \in Planes : planes'[p] >= planes[p]
      BY <3>1 DEF MigrateTenant
    <3> QED
      BY <1>1, <3>1, <3>2, <3>3, <3>4 DEF Forward, MigrateTenant, Writes
  <2>4. /\ UNCHANGED <<planes, standing>> /\ database'[t] = report[r].image
        /\ \A u \in Clients \ {t} : database'[u] = database[u]
    BY <1>1 DEF MigrateTenant, Writes, tenantRows, DatabasesInv, TenantsTyped
  <2>5. RunOK(r)'
    BY <2>1, <2>4, ReportTyped DEF RunOK, MigrateTenant
  <2> QED
    BY <2>1, <2>3, <2>5, ReportTyped, ForwardKeeps
<1>2. CASE /\ UNCHANGED database
           /\ Writes(r, [report[r] EXCEPT !.left = @ \ {t}, !.failed = @ \cup {t}])
  <2> DEFINE rec == [report[r] EXCEPT !.left = @ \ {t}, !.failed = @ \cup {t}]
  <2>1. report' = [report EXCEPT ![r] = rec] /\ report'[r] = rec
    BY <1>2 DEF DatabasesInv, RunsTyped, Writes
  <2>2. Forward
    BY <1>2, ReportTyped DEF MigrateTenant, Writes
  <2>3. UNCHANGED <<planes, database, standing>>
    BY <1>2 DEF MigrateTenant, Writes, tenantRows
  <2>4. RunOK(r)'
    BY <2>1, <2>3, ReportTyped DEF RunOK, MigrateTenant, Planes
  <2> QED
    <3>1. rec \in [step : {"none", "control", "default", "listing", "tenants", "ended"},
                   image : Nat, targets : SUBSET Clients,
                   left : SUBSET Clients, failed : SUBSET (Clients \cup Planes)]
      BY ReportTyped
    <3> QED
      BY <2>1, <2>2, <2>4, <3>1, ForwardKeeps
<1> QED
  BY <1>1, <1>2 DEF MigrateTenant

LEMMA TellOK ==
  ASSUME DatabasesInv, NEW r \in Migrations, Tell(r)
  PROVE  DatabasesInv'
<1> DEFINE rec == Ended(report[r], {})
<1>1. report' = [report EXCEPT ![r] = rec] /\ report'[r] = rec
  BY DEF DatabasesInv, RunsTyped, Tell, Writes
<1>2. Forward /\ UNCHANGED <<planes, database, standing>>
  BY ReportTyped DEF Tell, Writes, tenantRows
<1>3. RunOK(r)'
  BY <1>1, <1>2, ReportTyped DEF RunOK, Tell, Ended
<1>4. rec \in [step : {"none", "control", "default", "listing", "tenants", "ended"},
               image : Nat, targets : SUBSET Clients,
               left : SUBSET Clients, failed : SUBSET (Clients \cup Planes)]
  BY ReportTyped DEF Ended
<1> QED
  BY <1>1, <1>2, <1>3, <1>4, ForwardKeeps

-----------------------------------------------------------------------------
(* The tenants                                                             *)

\* What the tenants' actions have in common: the runs and what they rely on are
\* left alone.
Undisturbed ==
  /\ UNCHANGED <<planes, report>>
  /\ \A t \in Clients : database'[t] \in Releases \cup {0, 1}
  /\ \A t \in Clients : standing[t] # "none" =>
       standing'[t] # "none" /\ database'[t] >= database[t]

LEMMA UndisturbedKeeps ==
  ASSUME DatabasesInv, Undisturbed, TenantsTyped', \A t \in Clients : DatabaseOK(t)'
  PROVE  DatabasesInv'
<1>1. RunsTyped'
  BY DEF DatabasesInv, RunsTyped, Undisturbed
<1>2. ASSUME NEW r \in Migrations PROVE RunOK(r)'
  <2>1. report'[r] = report[r] /\ planes' = planes /\ RunOK(r)
    BY DEF Undisturbed, DatabasesInv
  <2>2. report[r].image \in Nat /\ report[r].targets \subseteq Clients
    BY ReportTyped
  <2>3. ASSUME NEW t \in report[r].targets
        PROVE  /\ standing'[t] # "none"
               /\ t \in report[r].left \cup report[r].failed \/ database'[t] >= report[r].image
    <3>1. t \in Clients /\ standing[t] # "none"
      BY <2>1, <2>2 DEF RunOK
    <3>2. database[t] \in Nat /\ database'[t] \in Nat /\ database'[t] >= database[t]
      BY <3>1 DEF DatabasesInv, TenantsTyped, Undisturbed
    <3> QED
      BY <2>1, <2>2, <3>1, <3>2 DEF RunOK, Undisturbed
  <2> QED
    BY <2>1, <2>3 DEF RunOK
<1>3. Released'
  BY DEF DatabasesInv, Released, Undisturbed
<1> QED
  BY <1>1, <1>2, <1>3 DEF DatabasesInv

\* Each action of a tenant disturbs no run, keeps the types, and leaves the
\* tenant's provisioning and its database in agreement.
LEMMA TenantStepOK ==
  ASSUME DatabasesInv, NEW t \in Clients,
         \/ \E image \in Releases : OpenProvisioning(t, image)
         \/ Register(t) \/ ProvisionTenant(t) \/ SignUp(t) \/ Suspend(t) \/ Reactivate(t)
  PROVE  DatabasesInv'
<1> USE DEF TenantsTyped, Rows, NoSetup
<1>0. /\ TenantsTyped
      /\ \A u \in Clients : DatabaseOK(u) /\ database[u] \in Nat
      /\ \A u \in Clients : database[u] \in Releases \cup {0, 1}
      /\ \A n \in Releases : n \in Nat /\ n > 1
      /\ MaxOrders \in Nat
  BY ReleaseNumbers, DatabasesAssumption DEF DatabasesInv, Released
<1>1. CASE \E image \in Releases : OpenProvisioning(t, image)
  <2>1. PICK image \in Releases : OpenProvisioning(t, image)
    BY <1>1
  <2>2. Undisturbed /\ TenantsTyped'
    BY <1>0, <2>1 DEF OpenProvisioning, Undisturbed
  <2>3. \A u \in Clients : DatabaseOK(u)'
    BY <1>0, <2>1 DEF OpenProvisioning, DatabaseOK
  <2> QED
    BY <2>2, <2>3, UndisturbedKeeps
<1>2. CASE Register(t)
  <2>1. Undisturbed /\ TenantsTyped'
    BY <1>0, <1>2 DEF Register, Undisturbed
  <2>2. \A u \in Clients : DatabaseOK(u)'
    BY <1>0, <1>2 DEF Register, DatabaseOK
  <2> QED
    BY <2>1, <2>2, UndisturbedKeeps
<1>3. CASE CreateDatabase(t)
  <2>1. Undisturbed /\ TenantsTyped'
    BY <1>0, <1>3 DEF CreateDatabase, Undisturbed
  <2>2. \A u \in Clients : DatabaseOK(u)'
    BY <1>0, <1>3 DEF CreateDatabase, DatabaseOK
  <2> QED
    BY <2>1, <2>2, UndisturbedKeeps
<1>4. CASE MigrateNew(t)
  <2>1. setup[t].image \in Releases /\ setup[t].image > 1 /\ database[t] <= setup[t].image
    BY <1>0, <1>4 DEF MigrateNew, MayUpgrade, DatabaseOK
  <2>2. Undisturbed /\ TenantsTyped'
    BY <1>0, <1>4, <2>1 DEF MigrateNew, Undisturbed
  <2>3. \A u \in Clients : DatabaseOK(u)'
    BY <1>0, <1>4, <2>1 DEF MigrateNew, DatabaseOK
  <2> QED
    BY <2>2, <2>3, UndisturbedKeeps
<1>5. CASE ActivateTenant(t)
  <2>1. Undisturbed /\ TenantsTyped'
    BY <1>0, <1>5 DEF ActivateTenant, Undisturbed
  <2>2. \A u \in Clients : DatabaseOK(u)'
    BY <1>0, <1>5 DEF ActivateTenant, DatabaseOK
  <2> QED
    BY <2>1, <2>2, UndisturbedKeeps
<1>6. CASE GiveUp(t)
  <2>1. Undisturbed /\ TenantsTyped'
    BY <1>0, <1>6 DEF GiveUp, Undisturbed
  <2>2. \A u \in Clients : DatabaseOK(u)'
    BY <1>0, <1>6 DEF GiveUp, DatabaseOK
  <2> QED
    BY <2>1, <2>2, UndisturbedKeeps
<1>7. CASE SignUp(t)
  <2>1. Undisturbed /\ TenantsTyped'
    BY <1>0, <1>7 DEF SignUp, Undisturbed
  <2>2. \A u \in Clients : DatabaseOK(u)'
    BY <1>0, <1>7 DEF SignUp, DatabaseOK
  <2> QED
    BY <2>1, <2>2, UndisturbedKeeps
<1>8. CASE Suspend(t)
  <2>1. Undisturbed /\ TenantsTyped'
    BY <1>0, <1>8 DEF Suspend, Undisturbed
  <2>2. \A u \in Clients : DatabaseOK(u)'
    BY <1>0, <1>8 DEF Suspend, DatabaseOK
  <2> QED
    BY <2>1, <2>2, UndisturbedKeeps
<1>9. CASE Reactivate(t)
  <2>1. Undisturbed /\ TenantsTyped'
    BY <1>0, <1>9 DEF Reactivate, Undisturbed
  <2>2. \A u \in Clients : DatabaseOK(u)'
    BY <1>0, <1>9 DEF Reactivate, DatabaseOK
  <2> QED
    BY <2>1, <2>2, UndisturbedKeeps
<1> QED
  BY <1>1, <1>2, <1>3, <1>4, <1>5, <1>6, <1>7, <1>8, <1>9 DEF ProvisionTenant

-----------------------------------------------------------------------------
LEMMA DatabasesNextOK == DatabasesInv /\ [DatabasesNext]_databaseVars => DatabasesInv'
<1> SUFFICES ASSUME DatabasesInv, [DatabasesNext]_databaseVars PROVE DatabasesInv'
  OBVIOUS
<1>1. CASE \E r \in Migrations : \E image \in Releases : Begin(r, image)
  BY <1>1, BeginOK
<1>2. ASSUME NEW r \in Migrations, UpgradeAll(r) PROVE DatabasesInv'
  BY <1>2, UpgradeControlOK, UpgradeDefaultOK, EnumerateOK, MigrateTenantOK, TellOK
     DEF UpgradeAll
<1>3. ASSUME NEW t \in Clients,
             \/ \E image \in Releases : OpenProvisioning(t, image)
             \/ Register(t) \/ ProvisionTenant(t) \/ SignUp(t) \/ Suspend(t) \/ Reactivate(t)
      PROVE  DatabasesInv'
  BY <1>3, TenantStepOK
<1>4. CASE UNCHANGED databaseVars
  <2>1. UNCHANGED <<standing, dsn, setup, orders, early, database, planes, report>>
    BY <1>4 DEF databaseVars, tenantRows
  <2> QED
    BY <2>1 DEF DatabasesInv, TenantsTyped, RunsTyped, Released, RunOK, DatabaseOK
<1> QED
  BY <1>1, <1>2, <1>3, <1>4 DEF DatabasesNext

LEMMA DatabasesInvTypes == DatabasesInv => DatabasesTypeOK
  BY DEF DatabasesInv, TenantsTyped, RunsTyped, Released, RunOK, DatabasesTypeOK, Planes

\* The invariant holds in every reachable state.
THEOREM DatabasesInvariance == DatabasesSpec => []DatabasesInv
BY DatabasesInitOK, DatabasesNextOK, PTL DEF DatabasesSpec

\* Every variable keeps its type, for any number of tenants, releases and runs.
THEOREM DatabasesTypesTheorem == DatabasesSpec => []DatabasesTypeOK
<1>1. DatabasesInv => DatabasesTypeOK
  BY DatabasesInvTypes
<1> QED
  BY <1>1, DatabasesInvariance, PTL

\* What upgrade_all reports of a run is so, and a tenant that is active has a
\* migrated database but for the two cases the property names.
THEOREM DatabasesTheorem == DatabasesSpec => []DatabasesAreAsTold
<1>1. DatabasesInv => ReportIsTrue
  BY ReportTyped DEF DatabasesInv, RunOK, ReportIsTrue, Planes
<1>2. DatabasesInv => ActiveHasDatabase
  BY DEF DatabasesInv, DatabaseOK, ActiveHasDatabase
<1> QED
  BY <1>1, <1>2, DatabasesInvariance, PTL DEF DatabasesAreAsTold

\* upgrade_all leads the control plane to its release before it touches a tenant.
THEOREM ControlTheorem == DatabasesSpec => ControlLeads
<1> DEFINE Leads == \A r \in Migrations, t \in Clients :
                      report'[r] # report[r] /\ database'[t] # database[t]
                        => planes.control >= report[r].image
<1>1. ASSUME DatabasesInv, DatabasesNext PROVE Leads
  <2> SUFFICES ASSUME NEW r \in Migrations, NEW t \in Clients,
                      report'[r] # report[r], database'[t] # database[t]
               PROVE  planes.control >= report[r].image
    OBVIOUS
  <2>1. PICK s \in Migrations, u \in Clients : MigrateTenant(s, u)
    BY <1>1 DEF DatabasesNext, Begin, UpgradeAll, UpgradeControl, UpgradeDefault, Enumerate, Tell,
                OpenProvisioning, Register, ProvisionTenant, CreateDatabase, MigrateNew,
                ActivateTenant, GiveUp, SignUp, Suspend, Reactivate, Rows, Writes
  <2>2. r = s
    BY <1>1, <2>1 DEF MigrateTenant, Writes, DatabasesInv, RunsTyped
  <2> QED
    BY <1>1, <2>1, <2>2 DEF MigrateTenant, DatabasesInv, RunOK
<1>2. DatabasesInv /\ [DatabasesNext]_databaseVars => [Leads]_databaseVars
  BY <1>1
<1>3. DatabasesSpec => [][Leads]_databaseVars
  BY <1>2, DatabasesInvariance, PTL DEF DatabasesSpec
<1> QED
  BY <1>3 DEF ControlLeads
-----------------------------------------------------------------------------
(* The three parts together.                                               *)

\* A behaviour of the three is, to each part, a behaviour of its own.
LEMMA TenancyPartsInit == TenancyInit => CacheInit /\ TenantInit /\ DatabasesInit
  BY DEF TenancyInit

LEMMA TenancyPartsNext ==
  [TenancyNext]_<<part, tenantVars, cacheVars, databaseVars>> =>
    [CacheNext]_cacheVars /\ [TenantNext]_tenantVars /\ [DatabasesNext]_databaseVars
  BY DEF TenancyNext

LEMMA TenancyInvTypes ==
  /\ CacheInv => CacheTypeOK
  /\ TenantInv => TenantTypeOK
  /\ DatabasesInv => DatabasesTypeOK
  BY DatabasesInvTypes DEF CacheInv, TenantInv

\* Every variable of the three parts keeps its type, whichever of them moves:
\* sessions of the cache, transactions of the registry, runs of the migrations.
THEOREM TenancyTypesTheorem == TenancySpec => []TenancyTypes
<1>1. TenancyInit => CacheInv /\ TenantInv /\ DatabasesInv
  BY TenancyPartsInit, CacheInitOK, TenantInitOK, DatabasesInitOK
<1>2. CacheInv /\ TenantInv /\ DatabasesInv
        /\ [TenancyNext]_<<part, tenantVars, cacheVars, databaseVars>>
        => (CacheInv /\ TenantInv /\ DatabasesInv)'
  BY TenancyPartsNext, CacheNextKeeps, TenantNextKeeps, DatabasesNextOK
<1>3. CacheInv /\ TenantInv /\ DatabasesInv => TenancyTypes
  BY TenancyInvTypes DEF TenancyTypes
<1> QED
  BY <1>1, <1>2, <1>3, PTL DEF TenancySpec
=============================================================================
