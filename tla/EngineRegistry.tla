---------------------------- MODULE EngineRegistry ----------------------------
(***************************************************************************)
(* The process-wide cache of tenant engines (tenancy/engine_registry.py):  *)
(* a bounded LRU per database endpoint, shared by the worker threads.      *)
(* get() looks the DSN up under the lock, builds and validates an engine   *)
(* outside it, and takes the lock again to evict and to store.  A thread   *)
(* then works with the engine it was given: it checks a connection out of  *)
(* the engine's pool and gives it back.                                    *)
(*                                                                         *)
(* dispose() closes the idle connections and replaces the pool: those that *)
(* are checked out live on until they are returned, and whoever still has  *)
(* the engine may open new ones (SQLAlchemy's Engine.dispose).             *)
(***************************************************************************)
EXTENDS Naturals, Sequences, FiniteSets, SequencesExt

CONSTANTS
  Threads,       \* the worker threads of the process
  Dsns,          \* the tenant DSNs
  Endpoints,     \* the host:port pairs
  EndpointOf,    \* endpoint_of(dsn)
  Objects,       \* bound: the identities of the engines of one DSN
  MaxCached,     \* settings.max_cached_engines
  PoolMax,       \* settings.tenant_pool_size + settings.tenant_max_overflow
  Affordable,    \* the endpoints whose live max_connections leave room for the plan
  None

ASSUME EndpointAssumption == EndpointOf \in [Dsns -> Endpoints]
ASSUME MaxCachedAssumption == MaxCached \in Nat \ {0} /\ PoolMax \in Nat \ {0}
ASSUME FiniteAssumption == IsFiniteSet(Dsns)
ASSUME NoneAssumption == None \notin Dsns \cup Threads \cup [url : Dsns, object : Objects]

VARIABLES
  engines,    \* _engines: the engine cached for a DSN, or None
  order,      \* the keys of _engines, least recently used first
  validated,  \* _validated: the endpoints whose budget has been probed
  lock,       \* who is inside the critical section that stores an engine
  pc,         \* where each thread is in get(), or what it does with the engine
  dsn,        \* the DSN the thread asked for
  eng,        \* the engine the thread has built or been given
  needs,      \* the thread's needs_validation
  open,       \* engines built and not disposed
  conn,       \* the engine whose connection the thread has checked out
  stale       \* threads whose connection belongs to a pool since disposed

calls        == <<dsn, eng, needs>>
connections  == <<conn, stale>>
registryVars == <<engines, order, validated, lock, pc, calls, open, connections>>

\* An Engine object, with the URL it was created for.
Engines == [url : Dsns, object : Objects]

InGet  == {"building", "validating", "acquiring", "storing"}
Stages == {"idle", "using", "connected"} \cup InGet

Cached       == {d \in Dsns : engines[d] # None}
CachedAt(ep) == {d \in Cached : EndpointOf[d] = ep}
At(t)        == EndpointOf[dsn[t]]

GoTo(t, stage) == pc' = [pc EXCEPT ![t] = stage]

MoveToEnd(d) ==
  \E i \in 1..Len(order) : order[i] = d /\ order' = Append(RemoveAt(order, i), d)

\* get() returns e, or raises (e = None): its locals are gone.
Return(t, e, stage) ==
  /\ dsn'   = [dsn EXCEPT ![t] = None]
  /\ eng'   = [eng EXCEPT ![t] = e]
  /\ needs' = [needs EXCEPT ![t] = FALSE]
  /\ GoTo(t, stage)

Dispose(es) ==
  /\ open'  = open \ es
  /\ stale' = stale \cup {s \in Threads : conn[s] \in es}

-----------------------------------------------------------------------------
(* get                                                                     *)

\* Mutant: the endpoint counts as probed from the first lookup on.
ProbedAtLookup(t, d) ==
  /\ pc[t] = "idle" /\ lock = None
  /\ engines[d] = None
  /\ GoTo(t, "building")
  /\ dsn'   = [dsn EXCEPT ![t] = d]
  /\ needs' = [needs EXCEPT ![t] = EndpointOf[d] \notin validated]
  /\ validated' = validated \cup {EndpointOf[d]}
  /\ UNCHANGED <<engines, order, lock, eng, open, connections>>

\* The first critical section: a hit is returned, a miss decides whether the
\* endpoint has to be probed.
Lookup(t, d) ==
  /\ pc[t] = "idle" /\ lock = None
  /\ \/ /\ engines[d] # None
        /\ MoveToEnd(d)
        /\ Return(t, engines[d], "using")
     \/ /\ engines[d] = None
        /\ dsn'   = [dsn EXCEPT ![t] = d]
        /\ needs' = [needs EXCEPT ![t] = EndpointOf[d] \notin validated]
        /\ GoTo(t, "building")
        /\ UNCHANGED <<order, eng>>
  /\ UNCHANGED <<engines, validated, lock, open, connections>>

\* An object nobody refers to: which one it is does not matter.
Unused(d) ==
  {e \in Engines : e.url = d} \ (open \cup {eng[t] : t \in Threads})

Build(t) ==
  /\ pc[t] = "building"
  /\ Unused(dsn[t]) # {}
  /\ LET e == CHOOSE e \in Unused(dsn[t]) : TRUE IN
       /\ eng'  = [eng EXCEPT ![t] = e]
       /\ open' = open \cup {e}
  /\ GoTo(t, IF needs[t] THEN "validating" ELSE "acquiring")
  /\ UNCHANGED <<engines, order, validated, lock, dsn, needs, connections>>

ProbePasses(t) ==
  /\ pc[t] = "validating" /\ At(t) \in Affordable
  /\ GoTo(t, "acquiring")
  /\ UNCHANGED <<engines, order, validated, lock, calls, open, connections>>

\* BudgetExceeded, or the endpoint cannot be reached: the caller gets the error.
ProbeFails(t) ==
  /\ pc[t] = "validating"
  /\ Dispose({eng[t]})
  /\ Return(t, None, "idle")
  /\ UNCHANGED <<engines, order, validated, lock, conn>>

\* Mutant: the engine that lost the race is forgotten without dispose().
ForgetDuplicate(t) ==
  /\ pc[t] = "acquiring" /\ lock = None
  /\ engines[dsn[t]] # None
  /\ MoveToEnd(dsn[t])
  /\ Return(t, engines[dsn[t]], "using")
  /\ UNCHANGED <<engines, validated, lock, open, connections>>

\* The second critical section: another thread has cached one meanwhile ...
LoseRace(t) ==
  /\ pc[t] = "acquiring" /\ lock = None
  /\ engines[dsn[t]] # None
  /\ Dispose({eng[t]})
  /\ MoveToEnd(dsn[t])
  /\ Return(t, engines[dsn[t]], "using")
  /\ UNCHANGED <<engines, validated, lock, conn>>

\* Mutant: the second lookup is missing, and a key that is there is listed again.
AcquireUnchecked(t) ==
  /\ pc[t] = "acquiring" /\ lock = None
  /\ lock' = t
  /\ GoTo(t, "storing")
  /\ UNCHANGED <<engines, order, validated, calls, open, connections>>

\* ... or there is none yet, and the lock is kept until the engine is stored.
Acquire(t) ==
  /\ pc[t] = "acquiring" /\ lock = None
  /\ engines[dsn[t]] = None
  /\ lock' = t
  /\ GoTo(t, "storing")
  /\ UNCHANGED <<engines, order, validated, calls, open, connections>>

Full(ep) == Cardinality(CachedAt(ep)) >= MaxCached

\* Mutant: the loop looks only at the oldest key of all.
EvictHead(t) ==
  /\ pc[t] = "storing" /\ Full(At(t)) /\ order # <<>>
  /\ EndpointOf[Head(order)] = At(t)
  /\ order'   = Tail(order)
  /\ engines' = [engines EXCEPT ![Head(order)] = None]
  /\ Dispose({engines[Head(order)]})
  /\ UNCHANGED <<validated, lock, pc, calls, conn>>

\* One turn of _evict_if_full: the oldest engine of the endpoint goes.
EvictOldest(t) ==
  /\ pc[t] = "storing" /\ Full(At(t))
  /\ \E i \in 1..Len(order) :
       /\ EndpointOf[order[i]] = At(t)
       /\ \A j \in 1..(i - 1) : EndpointOf[order[j]] # At(t)
       /\ order'   = RemoveAt(order, i)
       /\ engines' = [engines EXCEPT ![order[i]] = None]
       /\ Dispose({engines[order[i]]})
  /\ UNCHANGED <<validated, lock, pc, calls, conn>>

\* Mutant: _evict_if_full runs only when the cap has been passed.
StoreAtCap(t) ==
  /\ pc[t] = "storing" /\ Cardinality(CachedAt(At(t))) <= MaxCached
  /\ validated' = IF needs[t] THEN validated \cup {At(t)} ELSE validated
  /\ engines' = [engines EXCEPT ![dsn[t]] = eng[t]]
  /\ order' = Append(order, dsn[t])
  /\ lock' = None
  /\ Return(t, eng[t], "using")
  /\ UNCHANGED <<open, connections>>

Store(t) ==
  /\ pc[t] = "storing" /\ ~ Full(At(t))
  /\ validated' = IF needs[t] THEN validated \cup {At(t)} ELSE validated
  /\ engines' = [engines EXCEPT ![dsn[t]] = eng[t]]
  /\ order' = Append(order, dsn[t])
  /\ lock' = None
  /\ Return(t, eng[t], "using")
  /\ UNCHANGED <<open, connections>>

-----------------------------------------------------------------------------
(* The session that uses the engine, and reset                             *)

\* The pool has a connection to give: PoolMax at most from each pool.
CheckOut(t) ==
  /\ pc[t] = "using"
  /\ Cardinality({s \in Threads \ stale : conn[s] = eng[t]}) < PoolMax
  /\ conn' = [conn EXCEPT ![t] = eng[t]]
  /\ GoTo(t, "connected")
  /\ UNCHANGED <<engines, order, validated, lock, calls, open, stale>>

\* The session closes, with or without having used a connection.
CloseSession(t) ==
  /\ pc[t] \in {"using", "connected"}
  /\ conn'  = [conn EXCEPT ![t] = None]
  /\ stale' = stale \ {t}
  /\ eng'   = [eng EXCEPT ![t] = None]
  /\ GoTo(t, "idle")
  /\ UNCHANGED <<engines, order, validated, lock, dsn, needs, open>>

\* At shutdown, or between tests: with requests possibly still in flight.
Reset ==
  /\ lock = None
  /\ Dispose({engines[d] : d \in Cached})
  /\ engines'   = [d \in Dsns |-> None]
  /\ order'     = <<>>
  /\ validated' = {}
  /\ UNCHANGED <<lock, pc, calls, conn>>

-----------------------------------------------------------------------------
RegistryInit ==
  /\ engines   = [d \in Dsns |-> None]
  /\ order     = <<>>
  /\ validated = {}
  /\ lock      = None
  /\ pc        = [t \in Threads |-> "idle"]
  /\ dsn       = [t \in Threads |-> None]
  /\ eng       = [t \in Threads |-> None]
  /\ needs     = [t \in Threads |-> FALSE]
  /\ open      = {}
  /\ conn      = [t \in Threads |-> None]
  /\ stale     = {}

\* What a thread that has entered get() goes on to do.
Get(t) ==
  \/ Build(t)
  \/ ProbePasses(t)
  \/ ProbeFails(t)
  \/ LoseRace(t)
  \/ Acquire(t)
  \/ EvictOldest(t)
  \/ Store(t)

Use(t) == CheckOut(t) \/ CloseSession(t)

Serve == \E t \in Threads : (\E d \in Dsns : Lookup(t, d)) \/ Get(t) \/ Use(t)

RegistryNext == Serve \/ Reset

RegistrySpec == RegistryInit /\ [][RegistryNext]_registryVars

\* The requests only: no test or shutdown resets the registry under them.
ServingSpec == RegistryInit /\ [][Serve]_registryVars

\* A thread inside get() runs on, as long as nobody else holds the lock.
RegistryFairSpec == RegistrySpec /\ \A t \in Threads : WF_registryVars(Get(t))

-----------------------------------------------------------------------------
(* Properties                                                              *)

\* Every variable has its type, and the LRU order lists the cached DSNs once each.
RegistryTypeOK ==
  /\ engines   \in [Dsns -> Engines \cup {None}]
  /\ order     \in Seq(Dsns)
  /\ \A d \in Dsns : d \in Cached <=> \E i \in 1..Len(order) : order[i] = d
  /\ \A i, j \in 1..Len(order) : order[i] = order[j] => i = j
  /\ validated \in SUBSET Endpoints
  /\ lock      \in Threads \cup {None}
  /\ pc        \in [Threads -> Stages]
  /\ dsn       \in [Threads -> Dsns \cup {None}]
  /\ eng       \in [Threads -> Engines \cup {None}]
  /\ needs     \in [Threads -> BOOLEAN]
  /\ open      \in SUBSET Engines
  /\ conn      \in [Threads -> Engines \cup {None}]
  /\ stale     \in SUBSET Threads

\* However many threads miss at once, an endpoint never has more engines cached
\* than the plan allows (_evict_if_full and the second lookup).
CapRespected == \A ep \in Endpoints : Cardinality(CachedAt(ep)) <= MaxCached

\* No engine is lost open: each is cached, or in the hands of a thread that
\* has still to store or dispose it ("leaks no engine").
NoEngineLeaked ==
  \A e \in open :
    \/ \E d \in Cached : engines[d] = e
    \/ \E t \in Threads : eng[t] = e /\ pc[t] \in InGet

\* No DSN is served an engine that was disposed while it was cached, one that
\* another DSN shares, or one that was built for another database.
CachedEnginesSound ==
  \A d \in Cached :
    /\ engines[d] \in open
    /\ engines[d].url = d

\* "fail-closed must stay closed": whatever the threads race for, no engine is
\* ever cached for an endpoint whose plan exceeds its budget.
FailsClosed == \A d \in Cached : EndpointOf[d] \in Affordable

\* The eviction loop ends, so the lock every other get() waits for is released.
LockReleased == []<>(lock = None)

\* required_connections, without the control plane's share.
RequiredConnections == MaxCached * PoolMax

\* "Worst-case connections against one endpoint": no more connections are open
\* at an endpoint than the plan that was validated.
WorstCaseHolds ==
  \A ep \in Endpoints :
    Cardinality({t \in Threads : conn[t] # None /\ EndpointOf[conn[t].url] = ep})
      <= RequiredConnections

\* What get() keeps to with any number of threads that miss, build, probe, race
\* and evict: the cap, each open engine in somebody's hands, the cached ones
\* open and affordable.
RegistrySound == CapRespected /\ NoEngineLeaked /\ CachedEnginesSound /\ FailsClosed
=============================================================================
