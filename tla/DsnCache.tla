------------------------------- MODULE DsnCache -------------------------------
(***************************************************************************)
(* The process-wide cache of tenant DSNs (tenancy/session.py).  A request  *)
(* that misses calls the resolver without the lock, and stores what it was *)
(* told only if nothing was invalidated meanwhile (the epoch).             *)
(*                                                                         *)
(* A DSN is modelled by its version: what the resolver answers for a       *)
(* tenant changes from one version to the next (the resolver is a seam:    *)
(* the default reads the control row, a deployment may register another).  *)
(* Version 0: the tenant is unknown, and the resolver raises LookupError.  *)
(***************************************************************************)
EXTENDS Integers

CONSTANTS
  Callers,     \* the threads that call _resolve_dsn
  Served,      \* the tenants whose DSN is asked for
  Ttl,         \* settings.tenant_dsn_cache_ttl_seconds
  MaxVersion,  \* bound: how often what the resolver answers changes
  MaxClock,    \* bound: how far the monotonic clock runs
  MaxEpoch,    \* bound: how often the cache is invalidated
  NoEntry      \* no cache entry, no answer

ASSUME CacheAssumption ==
  /\ Ttl \in Nat /\ MaxVersion \in Nat /\ MaxClock \in Nat /\ MaxEpoch \in Nat
  /\ NoEntry \notin Nat \cup Served \cup [version : Nat, expiry : Nat]

VARIABLES
  time,      \* time.monotonic()
  version,   \* version[x]: the version of x's DSN the resolver answers with
  since,     \* since[x][v]: when version v of x's DSN became the current one
  cache,     \* _dsn_cache: [version, expiry], or NoEntry
  epoch,     \* _dsn_cache_epoch
  floor,     \* the version that was current at the last invalidation
  stage,     \* where each caller is in _resolve_dsn
  tenant,    \* the tenant it was called for
  started,   \* its `time`
  atEpoch,   \* its cache_epoch
  least,     \* the floor of its tenant when it was called
  found      \* the version it was told, or answers with

resolver  == <<time, version, since>>
shared    == <<cache, epoch, floor>>
callVars  == <<tenant, started, least>>
cacheVars == <<resolver, shared, stage, callVars, atEpoch, found>>

CacheEntry       == [version : Nat, expiry : Nat]
CacheStages == {"out", "entered", "missed", "told", "answered", "denied"}

Step(t, s) == stage' = [stage EXCEPT ![t] = s]

\* Whether v is still what the resolver answers, or was at some time from w on.
CurrentFrom(x, v, w) ==
  v <= version[x] /\ (v < version[x] => since[x][v + 1] >= w)

-----------------------------------------------------------------------------
(* _resolve_dsn                                                            *)

Call(t, x) ==
  /\ stage[t] = "out"
  /\ tenant'  = [tenant EXCEPT ![t] = x]
  /\ started' = [started EXCEPT ![t] = time]
  /\ least'   = [least EXCEPT ![t] = floor[x]]
  /\ Step(t, "entered")
  /\ UNCHANGED <<resolver, shared, atEpoch, found>>

Fresh(t) == cache[tenant[t]] # NoEntry /\ cache[tenant[t]].expiry > started[t]

\* Mutant: the expiry of the entry is not looked at.
HitAnyEntry(t) ==
  /\ stage[t] = "entered" /\ cache[tenant[t]] # NoEntry
  /\ found' = [found EXCEPT ![t] = cache[tenant[t]].version]
  /\ Step(t, "answered")
  /\ UNCHANGED <<resolver, shared, callVars, atEpoch>>

Hit(t) ==
  /\ stage[t] = "entered" /\ Fresh(t)
  /\ found' = [found EXCEPT ![t] = cache[tenant[t]].version]
  /\ Step(t, "answered")
  /\ UNCHANGED <<resolver, shared, callVars, atEpoch>>

Miss(t) ==
  /\ stage[t] = "entered" /\ ~ Fresh(t)
  /\ atEpoch' = [atEpoch EXCEPT ![t] = epoch]
  /\ Step(t, "missed")
  /\ UNCHANGED <<resolver, shared, callVars, found>>

Ask(t) ==
  /\ stage[t] = "missed" /\ version[tenant[t]] > 0
  /\ found' = [found EXCEPT ![t] = version[tenant[t]]]
  /\ Step(t, "told")
  /\ UNCHANGED <<resolver, shared, callVars, atEpoch>>

\* The tenant is unknown, or the resolver raises or returns no string.
Deny(t) ==
  /\ stage[t] = "missed"
  /\ Step(t, "denied")
  /\ UNCHANGED <<resolver, shared, callVars, atEpoch, found>>

\* Mutant: what was resolved is stored whatever happened meanwhile.
RememberAlways(t) ==
  /\ stage[t] = "told"
  /\ cache' = [cache EXCEPT ![tenant[t]] =
                 [version |-> found[t], expiry |-> started[t] + Ttl]]
  /\ Step(t, "answered")
  /\ UNCHANGED <<resolver, epoch, floor, callVars, atEpoch, found>>

\* The DSN is returned, and stored unless the epoch has moved.
Remember(t) ==
  /\ stage[t] = "told"
  /\ cache' = IF epoch = atEpoch[t]
                THEN [cache EXCEPT ![tenant[t]] =
                        [version |-> found[t], expiry |-> started[t] + Ttl]]
                ELSE cache
  /\ Step(t, "answered")
  /\ UNCHANGED <<resolver, epoch, floor, callVars, atEpoch, found>>

\* The caller goes on with the DSN, or with the LookupError.
Return(t) ==
  /\ stage[t] \in {"answered", "denied"}
  /\ Step(t, "out")
  /\ tenant'  = [tenant EXCEPT ![t] = NoEntry]
  /\ started' = [started EXCEPT ![t] = 0]
  /\ least'   = [least EXCEPT ![t] = 0]
  /\ atEpoch' = [atEpoch EXCEPT ![t] = 0]
  /\ found'   = [found EXCEPT ![t] = 0]
  /\ UNCHANGED <<resolver, shared>>

-----------------------------------------------------------------------------
(* invalidate_dsn_cache, and the environment                               *)

\* invalidate_dsn_cache(x), and invalidate_dsn_cache() with X all the tenants.
Invalidate(X) ==
  /\ epoch < MaxEpoch
  /\ epoch' = epoch + 1
  /\ cache' = [x \in Served |-> IF x \in X THEN NoEntry ELSE cache[x]]
  /\ floor' = [x \in Served |-> IF x \in X THEN version[x] ELSE floor[x]]
  /\ UNCHANGED <<resolver, stage, callVars, atEpoch, found>>

\* The tenant's row is created, or its credentials are rotated.
Change(x) ==
  /\ version[x] < MaxVersion
  /\ version' = [version EXCEPT ![x] = @ + 1]
  /\ since'   = [since EXCEPT ![x][version[x] + 1] = time]
  /\ UNCHANGED <<time, shared, stage, callVars, atEpoch, found>>

Elapse ==
  /\ time < MaxClock
  /\ time' = time + 1
  /\ UNCHANGED <<version, since, shared, stage, callVars, atEpoch, found>>

-----------------------------------------------------------------------------
CacheInit ==
  /\ time     = 0
  /\ version = [x \in Served |-> 0]
  /\ since   = [x \in Served |-> [v \in 0..MaxVersion |-> 0]]
  /\ cache   = [x \in Served |-> NoEntry]
  /\ epoch   = 0
  /\ floor   = [x \in Served |-> 0]
  /\ stage   = [t \in Callers |-> "out"]
  /\ tenant  = [t \in Callers |-> NoEntry]
  /\ started = [t \in Callers |-> 0]
  /\ atEpoch = [t \in Callers |-> 0]
  /\ least   = [t \in Callers |-> 0]
  /\ found   = [t \in Callers |-> 0]

Resolve(t) == Hit(t) \/ Miss(t) \/ Ask(t) \/ Deny(t) \/ Remember(t)

Environment ==
  \/ \E x \in Served : Invalidate({x}) \/ Change(x)
  \/ Invalidate(Served)
  \/ Elapse

CacheNext ==
  \/ \E t \in Callers : (\E x \in Served : Call(t, x)) \/ Resolve(t) \/ Return(t)
  \/ Environment

CacheSpec == CacheInit /\ [][CacheNext]_cacheVars

-----------------------------------------------------------------------------
(* Properties                                                              *)

\* Every variable has its type.
CacheTypeOK ==
  /\ time     \in Nat
  /\ version \in [Served -> 0..MaxVersion]
  /\ since   \in [Served -> [0..MaxVersion -> Nat]]
  /\ cache   \in [Served -> CacheEntry \cup {NoEntry}]
  /\ epoch   \in Nat
  /\ floor   \in [Served -> Nat]
  /\ stage   \in [Callers -> CacheStages]
  /\ tenant  \in [Callers -> Served \cup {NoEntry}]
  /\ started \in [Callers -> Nat]
  /\ atEpoch \in [Callers -> Nat]
  /\ least   \in [Callers -> Nat]
  /\ found   \in [Callers -> Nat]

\* Once a tenant has been invalidated, nobody who asks afterwards is given a
\* DSN from before: a resolution under way cannot put the old one back.
FreshAfterInvalidation ==
  \A t \in Callers : stage[t] = "answered" => found[t] >= least[t]

\* Without any invalidation, a DSN that is answered was current at some time
\* within the TTL before the question.
StalenessBounded ==
  \A t \in Callers :
    stage[t] = "answered" => CurrentFrom(tenant[t], found[t], started[t] - Ttl)
=============================================================================
