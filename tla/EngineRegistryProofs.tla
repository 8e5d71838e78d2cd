------------------------- MODULE EngineRegistryProofs -------------------------
(***************************************************************************)
(* Proofs about EngineRegistry, for any threads, DSNs, endpoints and cap.  *)
(***************************************************************************)
EXTENDS EngineRegistry, SequenceTheorems, FiniteSetTheorems, TLAPS

\* Stages in which a thread has built an engine and not yet returned.
Holding == {"validating", "acquiring", "storing"}

\* Only the thread that holds the lock is storing, and its DSN is still free.
LockOK ==
  \A t \in Threads :
    /\ pc[t] = "storing" => lock = t /\ engines[dsn[t]] = None
    /\ lock = t => pc[t] = "storing"

\* The locals of a thread inside get().
LocalsOK ==
  \A t \in Threads :
    /\ pc[t] \in InGet => dsn[t] \in Dsns
    /\ pc[t] \in Holding => eng[t] \in open /\ eng[t].url = dsn[t]

\* What a thread has built is in no other hands until get() returns it.
BuiltPrivately ==
  \A t \in Threads : pc[t] \in Holding =>
    /\ \A d \in Dsns : engines[d] # eng[t]
    /\ \A s \in Threads : s # t => eng[s] # eng[t]

\* An endpoint passes for probed only when the plan fits it.
Probed ==
  /\ validated \subseteq Affordable
  /\ \A t \in Threads :
       /\ pc[t] \in InGet /\ ~ needs[t]       => At(t) \in Affordable
       /\ pc[t] \in {"acquiring", "storing"}  => At(t) \in Affordable

\* NoEngineLeaked, with the stages at which the hands hold an engine.
NoneLost ==
  \A e \in open :
    \/ \E d \in Dsns : engines[d] = e
    \/ \E t \in Threads : eng[t] = e /\ pc[t] \in Holding

\* RegistryTypeOK without what it says of the LRU order.
Types ==
  /\ engines   \in [Dsns -> Engines \cup {None}]
  /\ validated \in SUBSET Endpoints
  /\ lock      \in Threads \cup {None}
  /\ pc        \in [Threads -> Stages]
  /\ dsn       \in [Threads -> Dsns \cup {None}]
  /\ eng       \in [Threads -> Engines \cup {None}]
  /\ needs     \in [Threads -> BOOLEAN]
  /\ open      \in SUBSET Engines
  /\ conn      \in [Threads -> Engines \cup {None}]
  /\ stale     \in SUBSET Threads

\* The sequence o lists the set K, a subset of S, each once.
Lists(S, o, K) ==
  /\ o \in Seq(S)
  /\ \A d \in S : d \in K <=> \E i \in 1..Len(o) : o[i] = d
  /\ \A i, j \in 1..Len(o) : o[i] = o[j] => i = j

\* What is inductive without counting or ordering anything.
Core ==
  /\ Types
  /\ LockOK
  /\ LocalsOK
  /\ BuiltPrivately
  /\ CachedEnginesSound
  /\ NoneLost
  /\ Probed
  /\ FailsClosed

IInv == Core /\ Lists(Dsns, order, Cached) /\ CapRespected

-----------------------------------------------------------------------------
(* Sequences                                                               *)

LEMMA RemoveAtProperties ==
  ASSUME NEW S, NEW s \in Seq(S), NEW i \in 1..Len(s)
  PROVE  /\ RemoveAt(s, i) \in Seq(S)
         /\ Len(RemoveAt(s, i)) = Len(s) - 1
         /\ \A j \in 1..(Len(s) - 1) : RemoveAt(s, i)[j] = IF j < i THEN s[j] ELSE s[j + 1]
<1> DEFINE a == SubSeq(s, 1, i - 1)
           b == SubSeq(s, i + 1, Len(s))
<1>1. /\ a \in Seq(S) /\ Len(a) = i - 1
      /\ \A j \in 1..(i - 1) : a[j] = s[j]
  BY SubSeqProperties
<1>2. /\ b \in Seq(S) /\ Len(b) = Len(s) - i
      /\ \A j \in 1..(Len(s) - i) : b[j] = s[j + i]
  BY SubSeqProperties
<1>3. RemoveAt(s, i) = a \o b
  BY DEF RemoveAt
<1> HIDE DEF a, b
<1>4. /\ a \o b \in Seq(S) /\ Len(a \o b) = Len(a) + Len(b)
      /\ \A j \in 1..(Len(a) + Len(b)) : (a \o b)[j] = IF j <= Len(a) THEN a[j] ELSE b[j - Len(a)]
  BY <1>1, <1>2, ConcatProperties
<1>5. ASSUME NEW j \in 1..(Len(s) - 1)
      PROVE  (a \o b)[j] = IF j < i THEN s[j] ELSE s[j + 1]
  <2>1. CASE j < i
    BY <1>1, <1>2, <1>4, <2>1
  <2>2. CASE ~ (j < i)
    <3>1. j - (i - 1) \in 1..(Len(s) - i)
      BY <2>2
    <3>2. b[j - (i - 1)] = s[j + 1]
      BY <1>2, <2>2, <3>1
    <3> QED BY <1>1, <1>2, <1>4, <2>2, <3>2
  <2> QED BY <2>1, <2>2
<1> QED BY <1>1, <1>2, <1>3, <1>4, <1>5

LEMMA ListsWithout ==
  ASSUME NEW S, NEW K, NEW o, Lists(S, o, K), NEW i \in 1..Len(o)
  PROVE  Lists(S, RemoveAt(o, i), K \ {o[i]})
<1> DEFINE r == RemoveAt(o, i)
           n == Len(o)
<1>1. /\ r \in Seq(S) /\ Len(r) = n - 1 /\ n \in Nat
      /\ \A j \in 1..(n - 1) : r[j] = IF j < i THEN o[j] ELSE o[j + 1]
  <2>1. o \in Seq(S) /\ n \in Nat
    BY DEF Lists
  <2> QED BY <2>1, RemoveAtProperties
<1> HIDE DEF r
<1>2. \A j, k \in 1..(n - 1) : r[j] = r[k] => j = k
  BY <1>1 DEF Lists
<1>3. ASSUME NEW d \in S
      PROVE  d \in K \ {o[i]} <=> \E j \in 1..(n - 1) : r[j] = d
  <2>1. ASSUME NEW j \in 1..(n - 1), r[j] = d
        PROVE  d \in K \ {o[i]}
    <3>1. CASE j < i
      <4>1. j \in 1..n /\ o[j] = d /\ j # i
        BY <1>1, <2>1, <3>1
      <4> QED BY <4>1 DEF Lists
    <3>2. CASE ~ (j < i)
      <4>1. j + 1 \in 1..n /\ o[j + 1] = d /\ j + 1 # i
        BY <1>1, <2>1, <3>2
      <4> QED BY <4>1 DEF Lists
    <3> QED BY <3>1, <3>2
  <2>2. ASSUME d \in K, d # o[i]
        PROVE  \E j \in 1..(n - 1) : r[j] = d
    <3>1. PICK k \in 1..n : o[k] = d
      BY <2>2 DEF Lists
    <3>2. CASE k < i
      <4>1. k \in 1..(n - 1) /\ r[k] = d
        BY <1>1, <3>1, <3>2
      <4> QED BY <4>1
    <3>3. CASE ~ (k < i)
      <4>1. k - 1 \in 1..(n - 1) /\ r[k - 1] = d
        <5>1. k # i
          BY <2>2, <3>1
        <5>2. k - 1 \in 1..(n - 1) /\ ~ (k - 1 < i)
          BY <1>1, <3>3, <5>1
        <5> QED BY <1>1, <3>1, <5>2
      <4> QED BY <4>1
    <3> QED BY <3>2, <3>3
  <2> QED BY <2>1, <2>2
<1> QED BY <1>1, <1>2, <1>3 DEF Lists, r

LEMMA ListsWith ==
  ASSUME NEW S, NEW K, NEW o, Lists(S, o, K), NEW d \in S, d \notin K
  PROVE  Lists(S, Append(o, d), K \cup {d})
<1> DEFINE a == Append(o, d)
<1>1. /\ a \in Seq(S) /\ Len(a) = Len(o) + 1 /\ Len(o) \in Nat
      /\ \A i \in 1..Len(o) : a[i] = o[i]
      /\ a[Len(o) + 1] = d
  BY DEF Lists
<1> HIDE DEF a
<1>2. \A i \in 1..Len(o) : o[i] # d
  BY DEF Lists
<1>3. \A i, j \in 1..Len(a) : a[i] = a[j] => i = j
  <2> SUFFICES ASSUME NEW i \in 1..(Len(o) + 1), NEW j \in 1..(Len(o) + 1), a[i] = a[j]
               PROVE  i = j
    BY <1>1
  <2>1. CASE i \in 1..Len(o) /\ j \in 1..Len(o)
    BY <1>1, <2>1 DEF Lists
  <2>2. CASE i = Len(o) + 1 \/ j = Len(o) + 1
    BY <1>1, <1>2, <2>2
  <2> QED BY <1>1, <2>1, <2>2
<1>4. ASSUME NEW x \in S
      PROVE  x \in K \cup {d} <=> \E i \in 1..(Len(o) + 1) : a[i] = x
  <2>1. CASE x = d
    <3>1. Len(o) + 1 \in 1..(Len(o) + 1)
      BY <1>1
    <3> QED BY <1>1, <2>1, <3>1
  <2>2. CASE x # d
    <3>1. ASSUME x \in K PROVE \E i \in 1..(Len(o) + 1) : a[i] = x
      <4>1. PICK i \in 1..Len(o) : o[i] = x
        BY <3>1 DEF Lists
      <4>2. i \in 1..(Len(o) + 1) /\ a[i] = x
        BY <1>1, <4>1
      <4> QED BY <4>2
    <3>2. ASSUME NEW i \in 1..(Len(o) + 1), a[i] = x PROVE x \in K
      <4>1. i \in 1..Len(o) /\ o[i] = x
        BY <1>1, <2>2, <3>2
      <4> QED BY <4>1 DEF Lists
    <3> QED BY <2>2, <3>1, <3>2
  <2> QED BY <2>1, <2>2
<1> QED BY <1>1, <1>3, <1>4 DEF Lists, a

LEMMA MoveToEndLists ==
  ASSUME NEW K \in SUBSET Dsns, Lists(Dsns, order, K), NEW d \in Dsns, MoveToEnd(d)
  PROVE  Lists(Dsns, order', K)
<1>1. PICK i \in 1..Len(order) : order[i] = d /\ order' = Append(RemoveAt(order, i), d)
  BY DEF MoveToEnd
<1>2. Lists(Dsns, order', (K \ {d}) \cup {d})
  BY <1>1, ListsWithout, ListsWith
<1>3. (K \ {d}) \cup {d} = K
  BY <1>1 DEF Lists
<1> QED BY <1>2, <1>3

-----------------------------------------------------------------------------
(* The core                                                                *)

LEMMA NoneIsNothing == None \notin Dsns /\ None \notin Threads /\ None \notin Engines
BY NoneAssumption DEF Engines

LEMMA CoreLookup ==
  ASSUME Core, NEW t \in Threads, NEW d \in Dsns, Lookup(t, d)
  PROVE  Core'
<1> USE DEF Core, Types, LockOK, LocalsOK, BuiltPrivately, CachedEnginesSound, NoneLost,
        Probed, FailsClosed, Cached, At, Holding, InGet, Stages
<1>1. CASE engines[d] # None
  <2>1. UNCHANGED <<engines, validated, lock, open, conn, stale>>
        /\ dsn' = [dsn EXCEPT ![t] = None] /\ eng' = [eng EXCEPT ![t] = engines[d]]
        /\ needs' = [needs EXCEPT ![t] = FALSE] /\ pc' = [pc EXCEPT ![t] = "using"]
        /\ pc[t] = "idle"
    BY <1>1 DEF Lookup, Return, GoTo, connections
  <2> QED BY <1>1, <2>1, NoneIsNothing
<1>2. CASE engines[d] = None
  <2>1. UNCHANGED <<engines, validated, lock, open, conn, stale, eng>>
        /\ dsn' = [dsn EXCEPT ![t] = d]
        /\ needs' = [needs EXCEPT ![t] = EndpointOf[d] \notin validated]
        /\ pc' = [pc EXCEPT ![t] = "building"]
        /\ pc[t] = "idle"
    BY <1>2 DEF Lookup, GoTo, connections
  <2>2. needs' \in [Threads -> BOOLEAN] /\ (~ needs'[t] => EndpointOf[d] \in validated)
        /\ \A s \in Threads : s # t => needs'[s] = needs[s]
    BY <2>1
  <2>3. Types' /\ LockOK' /\ LocalsOK'
    BY <1>2, <2>1, <2>2, NoneIsNothing
  <2>4. BuiltPrivately' /\ CachedEnginesSound' /\ NoneLost' /\ FailsClosed'
    BY <1>2, <2>1, <2>2, NoneIsNothing
  <2>5. Probed'
    BY <1>2, <2>1, <2>2, NoneIsNothing
  <2> QED BY <2>3, <2>4, <2>5
<1> QED BY <1>1, <1>2

LEMMA CoreBuild ==
  ASSUME Core, NEW t \in Threads, Build(t)
  PROVE  Core'
<1> USE DEF Core, Types, LockOK, LocalsOK, BuiltPrivately, CachedEnginesSound, NoneLost,
        Probed, FailsClosed, Cached, At, Holding, InGet, Stages
<1>1. PICK e \in Engines :
        /\ e.url = dsn[t] /\ e \notin open /\ \A s \in Threads : eng[s] # e
        /\ eng' = [eng EXCEPT ![t] = e] /\ open' = open \cup {e}
  <2> DEFINE new == CHOOSE e \in Unused(dsn[t]) : TRUE
  <2>1. new \in Unused(dsn[t])
    BY DEF Build
  <2>2. eng' = [eng EXCEPT ![t] = new] /\ open' = open \cup {new}
    BY DEF Build
  <2> HIDE DEF new
  <2>3. new \in Engines /\ new.url = dsn[t] /\ new \notin open
    BY <2>1 DEF Unused
  <2>4. \A s \in Threads : eng[s] # new
    BY <2>1 DEF Unused
  <2> QED BY <2>2, <2>3, <2>4
<1>2. /\ UNCHANGED <<engines, validated, lock, dsn, needs, conn, stale>>
      /\ pc[t] = "building"
      /\ pc' = [pc EXCEPT ![t] = IF needs[t] THEN "validating" ELSE "acquiring"]
  BY DEF Build, GoTo, connections
<1> QED BY <1>1, <1>2, NoneIsNothing

LEMMA CoreProbe ==
  ASSUME Core, NEW t \in Threads, ProbePasses(t) \/ ProbeFails(t)
  PROVE  Core'
<1> USE DEF Core, Types, LockOK, LocalsOK, BuiltPrivately, CachedEnginesSound, NoneLost,
        Probed, FailsClosed, Cached, At, Holding, InGet, Stages
<1>1. CASE ProbePasses(t)
  <2>1. UNCHANGED <<engines, validated, lock, dsn, eng, needs, open, conn, stale>>
        /\ pc[t] = "validating" /\ At(t) \in Affordable
        /\ pc' = [pc EXCEPT ![t] = "acquiring"]
    BY <1>1 DEF ProbePasses, GoTo, connections, calls
  <2> QED BY <2>1
<1>2. CASE ProbeFails(t)
  <2>1. UNCHANGED <<engines, validated, lock, conn>>
        /\ dsn' = [dsn EXCEPT ![t] = None] /\ eng' = [eng EXCEPT ![t] = None]
        /\ needs' = [needs EXCEPT ![t] = FALSE] /\ pc' = [pc EXCEPT ![t] = "idle"]
        /\ open' = open \ {eng[t]} /\ stale' \in SUBSET Threads
        /\ pc[t] = "validating"
    BY <1>2 DEF ProbeFails, Return, GoTo, Dispose
  <2> QED BY <2>1, NoneIsNothing
<1> QED BY <1>1, <1>2

LEMMA CoreRace ==
  ASSUME Core, NEW t \in Threads, LoseRace(t) \/ Acquire(t)
  PROVE  Core'
<1> USE DEF Core, Types, LockOK, LocalsOK, BuiltPrivately, CachedEnginesSound, NoneLost,
        Probed, FailsClosed, Cached, At, Holding, InGet, Stages
<1>1. CASE LoseRace(t)
  <2>1. UNCHANGED <<engines, validated, lock, conn>>
        /\ dsn' = [dsn EXCEPT ![t] = None] /\ eng' = [eng EXCEPT ![t] = engines[dsn[t]]]
        /\ needs' = [needs EXCEPT ![t] = FALSE] /\ pc' = [pc EXCEPT ![t] = "using"]
        /\ open' = open \ {eng[t]} /\ stale' \in SUBSET Threads
        /\ pc[t] = "acquiring" /\ engines[dsn[t]] # None
    BY <1>1 DEF LoseRace, Return, GoTo, Dispose
  <2>2. dsn[t] \in Dsns /\ engines[dsn[t]] \in Engines
    BY <2>1
  <2> QED BY <2>1, <2>2, NoneIsNothing
<1>2. CASE Acquire(t)
  <2>1. UNCHANGED <<engines, validated, dsn, eng, needs, open, conn, stale>>
        /\ pc[t] = "acquiring" /\ lock = None /\ lock' = t /\ engines[dsn[t]] = None
        /\ pc' = [pc EXCEPT ![t] = "storing"]
    BY <1>2 DEF Acquire, GoTo, connections, calls
  <2> QED BY <2>1, NoneIsNothing
<1> QED BY <1>1, <1>2

LEMMA CoreEvict ==
  ASSUME Core, order \in Seq(Dsns), NEW t \in Threads, EvictOldest(t)
  PROVE  Core'
<1> USE DEF Core, Types, LockOK, LocalsOK, BuiltPrivately, CachedEnginesSound, NoneLost,
        Probed, FailsClosed, Cached, At, Holding, InGet, Stages
<1>1. PICK d \in Dsns :
        /\ engines' = [engines EXCEPT ![d] = None]
        /\ open' = open \ {engines[d]}
        /\ stale' \in SUBSET Threads
        /\ UNCHANGED <<validated, lock, pc, dsn, eng, needs, conn>>
  <2>1. PICK i \in 1..Len(order) :
          /\ engines' = [engines EXCEPT ![order[i]] = None]
          /\ Dispose({engines[order[i]]})
    BY DEF EvictOldest
  <2>2. order[i] \in Dsns
    BY <2>1
  <2> QED BY <2>1, <2>2 DEF EvictOldest, Dispose, calls
<1>2. Types'
  BY <1>1
<1>3. LockOK' /\ LocalsOK'
  BY <1>1, NoneIsNothing
<1>4. BuiltPrivately' /\ CachedEnginesSound' /\ FailsClosed'
  BY <1>1, NoneIsNothing
<1>5. NoneLost' /\ Probed'
  BY <1>1, NoneIsNothing
<1> QED BY <1>2, <1>3, <1>4, <1>5

LEMMA CoreStore ==
  ASSUME Core, NEW t \in Threads, Store(t)
  PROVE  Core'
<1> USE DEF Core, Types, LockOK, LocalsOK, BuiltPrivately, CachedEnginesSound, NoneLost,
        Probed, FailsClosed, Cached, At, Holding, InGet, Stages
<1>1. /\ pc[t] = "storing" /\ lock = t /\ lock' = None /\ dsn[t] \in Dsns
      /\ validated' = IF needs[t] THEN validated \cup {At(t)} ELSE validated
      /\ engines' = [engines EXCEPT ![dsn[t]] = eng[t]] /\ engines[dsn[t]] = None
      /\ dsn' = [dsn EXCEPT ![t] = None] /\ eng' = [eng EXCEPT ![t] = eng[t]]
      /\ needs' = [needs EXCEPT ![t] = FALSE] /\ pc' = [pc EXCEPT ![t] = "using"]
      /\ UNCHANGED <<open, conn, stale>>
      /\ eng[t] \in open /\ eng[t].url = dsn[t]
      /\ EndpointOf[dsn[t]] \in Affordable /\ EndpointOf[dsn[t]] \in Endpoints
  BY EndpointAssumption DEF Store, Return, GoTo, connections
<1>2. Types'
  BY <1>1, NoneIsNothing
<1>3. LockOK' /\ LocalsOK'
  BY <1>1, NoneIsNothing
<1>4. BuiltPrivately'
  BY <1>1, NoneIsNothing
<1>5. CachedEnginesSound' /\ FailsClosed'
  BY <1>1, NoneIsNothing
<1>6. NoneLost'
  BY <1>1, NoneIsNothing
<1>7. Probed'
  BY <1>1, NoneIsNothing
<1> QED BY <1>2, <1>3, <1>4, <1>5, <1>6, <1>7

LEMMA CoreUse ==
  ASSUME Core, NEW t \in Threads, Use(t)
  PROVE  Core'
<1> USE DEF Core, Types, LockOK, LocalsOK, BuiltPrivately, CachedEnginesSound, NoneLost,
        Probed, FailsClosed, Cached, At, Holding, InGet, Stages
<1>1. CASE CheckOut(t)
  <2>1. UNCHANGED <<engines, validated, lock, dsn, eng, needs, open, stale>>
        /\ pc[t] = "using" /\ conn' = [conn EXCEPT ![t] = eng[t]]
        /\ pc' = [pc EXCEPT ![t] = "connected"]
    BY <1>1 DEF CheckOut, GoTo, calls
  <2> QED BY <2>1
<1>2. CASE CloseSession(t)
  <2>1. UNCHANGED <<engines, validated, lock, dsn, needs, open>>
        /\ pc[t] \in {"using", "connected"} /\ conn' = [conn EXCEPT ![t] = None]
        /\ stale' = stale \ {t} /\ eng' = [eng EXCEPT ![t] = None]
        /\ pc' = [pc EXCEPT ![t] = "idle"]
    BY <1>2 DEF CloseSession, GoTo
  <2> QED BY <2>1, NoneIsNothing
<1> QED BY <1>1, <1>2 DEF Use

LEMMA CoreReset ==
  ASSUME Core, Reset
  PROVE  Core'
<1> USE DEF Core, Types, LockOK, LocalsOK, BuiltPrivately, CachedEnginesSound, NoneLost,
        Probed, FailsClosed, Cached, At, Holding, InGet, Stages
<1>1. /\ lock = None /\ engines' = [d \in Dsns |-> None] /\ validated' = {}
      /\ open' = open \ {engines[d] : d \in {d \in Dsns : engines[d] # None}}
      /\ stale' \in SUBSET Threads
      /\ UNCHANGED <<lock, pc, dsn, eng, needs, conn>>
  BY DEF Reset, Dispose, calls
<1> QED BY <1>1, NoneIsNothing

-----------------------------------------------------------------------------
(* The LRU order and the cap                                               *)

LEMMA OrderAndCapKept ==
  ASSUME Lists(Dsns, order, Cached), CapRespected, UNCHANGED engines,
         order' = order \/ \E d \in Dsns : MoveToEnd(d)
  PROVE  Lists(Dsns, order, Cached)' /\ CapRespected'
<1>1. Cached' = Cached /\ Cached \in SUBSET Dsns
  BY DEF Cached
<1>2. CapRespected'
  BY <1>1 DEF CapRespected, CachedAt
<1>3. Lists(Dsns, order', Cached)
  BY <1>1, MoveToEndLists
<1>4. Lists(Dsns, order, Cached)' <=> Lists(Dsns, order', Cached')
  BY DEF Lists
<1> QED BY <1>1, <1>2, <1>3, <1>4

\* Losing keys respects the cap.
LEMMA FewerRespectCap ==
  ASSUME CapRespected, Cached' \subseteq Cached
  PROVE  CapRespected'
<1> SUFFICES ASSUME NEW ep \in Endpoints
             PROVE  Cardinality(CachedAt(ep)') <= MaxCached
  BY DEF CapRespected
<1>1. CachedAt(ep)' \subseteq CachedAt(ep) /\ CachedAt(ep) \subseteq Dsns
  BY DEF CachedAt, Cached
<1>2. /\ IsFiniteSet(CachedAt(ep)) /\ IsFiniteSet(CachedAt(ep)')
      /\ Cardinality(CachedAt(ep)') <= Cardinality(CachedAt(ep))
  BY <1>1, FiniteAssumption, FS_Subset
<1>3. Cardinality(CachedAt(ep)') \in Nat /\ Cardinality(CachedAt(ep)) \in Nat
  BY <1>2, FS_CardinalityType
<1> QED BY <1>2, <1>3, MaxCachedAssumption DEF CapRespected

LEMMA EvictKeepsOrderAndCap ==
  ASSUME IInv, NEW t \in Threads, EvictOldest(t)
  PROVE  Lists(Dsns, order, Cached)' /\ CapRespected'
<1>1. PICK i \in 1..Len(order) :
        order' = RemoveAt(order, i) /\ engines' = [engines EXCEPT ![order[i]] = None]
  BY DEF EvictOldest
<1>2. order[i] \in Dsns
  BY <1>1 DEF IInv, Lists
<1>3. Cached' = Cached \ {order[i]}
  BY <1>1, <1>2 DEF Cached, IInv, Core, Types
<1>4. Lists(Dsns, order', Cached \ {order[i]})
  BY <1>1, ListsWithout DEF IInv
<1>5. Lists(Dsns, order, Cached)' <=> Lists(Dsns, order', Cached')
  BY DEF Lists
<1> QED BY <1>3, <1>4, <1>5, FewerRespectCap DEF IInv

LEMMA StoreKeepsOrderAndCap ==
  ASSUME IInv, NEW t \in Threads, Store(t)
  PROVE  Lists(Dsns, order, Cached)' /\ CapRespected'
<1> DEFINE d == dsn[t]
<1>1. /\ d \in Dsns /\ d \notin Cached /\ eng[t] \in Engines
      /\ order' = Append(order, d) /\ engines' = [engines EXCEPT ![d] = eng[t]]
      /\ ~ Full(EndpointOf[d])
  BY DEF IInv, Core, Types, LockOK, LocalsOK, Cached, Store, Holding, InGet, At
<1>2. Cached' = Cached \cup {d}
  BY <1>1, NoneIsNothing DEF Cached, IInv, Core, Types
<1>3. Lists(Dsns, order, Cached)'
  <2>1. Lists(Dsns, order', Cached \cup {d})
    BY <1>1, ListsWith DEF IInv
  <2>2. Lists(Dsns, order, Cached)' <=> Lists(Dsns, order', Cached')
    BY DEF Lists
  <2> QED BY <1>2, <2>1, <2>2
<1>4. ASSUME NEW ep \in Endpoints
      PROVE  Cardinality(CachedAt(ep)') <= MaxCached
  <2>1. CASE ep # EndpointOf[d]
    <3>1. CachedAt(ep)' = CachedAt(ep)
      BY <1>2, <2>1 DEF CachedAt
    <3> QED BY <3>1 DEF IInv, CapRespected
  <2>2. CASE ep = EndpointOf[d]
    <3>1. CachedAt(ep)' = CachedAt(ep) \cup {d} /\ d \notin CachedAt(ep)
      BY <1>1, <1>2, <2>2 DEF CachedAt
    <3>2. IsFiniteSet(CachedAt(ep))
      BY FiniteAssumption, FS_Subset DEF CachedAt, Cached
    <3>3. Cardinality(CachedAt(ep) \cup {d}) = Cardinality(CachedAt(ep)) + 1
      BY <3>1, <3>2, FS_AddElement
    <3>4. Cardinality(CachedAt(ep)) \in Nat /\ Cardinality(CachedAt(ep)) < MaxCached
      BY <1>1, <2>2, <3>2, FS_CardinalityType, MaxCachedAssumption DEF Full
    <3> QED BY <3>1, <3>3, <3>4, MaxCachedAssumption
  <2> QED BY <2>1, <2>2
<1> QED BY <1>3, <1>4 DEF CapRespected

LEMMA ResetKeepsOrderAndCap ==
  ASSUME IInv, Reset
  PROVE  Lists(Dsns, order, Cached)' /\ CapRespected'
<1>1. Cached' = {} /\ order' = <<>>
  BY DEF Reset, Cached
<1>2. Lists(Dsns, <<>>, {})
  BY DEF Lists
<1>3. Lists(Dsns, order, Cached)' <=> Lists(Dsns, order', Cached')
  BY DEF Lists
<1> QED BY <1>1, <1>2, <1>3, FewerRespectCap DEF IInv

LEMMA NextKeeps == IInv /\ [RegistryNext]_registryVars => IInv'
<1> SUFFICES ASSUME IInv, [RegistryNext]_registryVars PROVE IInv'
  OBVIOUS
<1> USE DEF IInv
<1>0. order \in Seq(Dsns)
  BY DEF Lists
<1>1. ASSUME NEW t \in Threads, NEW d \in Dsns, Lookup(t, d) PROVE IInv'
  <2>1. UNCHANGED engines /\ (order' = order \/ MoveToEnd(d))
    BY <1>1 DEF Lookup
  <2> QED BY <1>1, <2>1, CoreLookup, OrderAndCapKept
<1>2. ASSUME NEW t \in Threads, Get(t) PROVE IInv'
  <2>1. CASE EvictOldest(t)
    BY <1>0, <2>1, CoreEvict, EvictKeepsOrderAndCap
  <2>2. CASE Store(t)
    BY <2>2, CoreStore, StoreKeepsOrderAndCap
  <2>3. CASE LoseRace(t)
    <3>1. UNCHANGED engines /\ MoveToEnd(dsn[t]) /\ dsn[t] \in Dsns
      BY <2>3 DEF LoseRace, Core, LocalsOK, InGet
    <3> QED BY <2>3, <3>1, CoreRace, OrderAndCapKept
  <2>4. CASE Build(t) \/ ProbePasses(t) \/ ProbeFails(t) \/ Acquire(t)
    <3>1. UNCHANGED <<engines, order>>
      BY <2>4 DEF Build, ProbePasses, ProbeFails, Acquire
    <3> QED BY <2>4, <3>1, CoreBuild, CoreProbe, CoreRace, OrderAndCapKept
  <2> QED BY <1>2, <2>1, <2>2, <2>3, <2>4 DEF Get
<1>3. ASSUME NEW t \in Threads, Use(t) PROVE IInv'
  <2>1. UNCHANGED <<engines, order>>
    BY <1>3 DEF Use, CheckOut, CloseSession
  <2> QED BY <1>3, <2>1, CoreUse, OrderAndCapKept
<1>4. CASE Reset
  BY <1>4, CoreReset, ResetKeepsOrderAndCap
<1>5. CASE UNCHANGED registryVars
  <2>1. UNCHANGED <<engines, order, validated, lock, pc, dsn, eng, needs, open, conn, stale>>
    BY <1>5 DEF registryVars, calls, connections
  <2>2. Core'
    BY <2>1 DEF Core, Types, LockOK, LocalsOK, BuiltPrivately, CachedEnginesSound, NoneLost,
       Probed, FailsClosed, Cached, At
  <2> QED BY <2>1, <2>2, OrderAndCapKept
<1> QED BY <1>1, <1>2, <1>3, <1>4, <1>5 DEF RegistryNext, Serve

LEMMA InitOK == RegistryInit => IInv
<1> SUFFICES ASSUME RegistryInit PROVE IInv
  OBVIOUS
<1>1. Core
  BY NoneIsNothing DEF RegistryInit, Core, Types, LockOK, LocalsOK, BuiltPrivately,
     CachedEnginesSound, NoneLost, Probed, FailsClosed, Cached, Holding, InGet, Stages
<1>2. Cached = {} /\ order = <<>>
  BY DEF RegistryInit, Cached
<1>3. Lists(Dsns, order, Cached)
  BY <1>2 DEF Lists
<1>4. CapRespected
  <2>1. \A ep : CachedAt(ep) = {}
    BY <1>2 DEF CachedAt
  <2> QED BY <2>1, FS_EmptySet, MaxCachedAssumption DEF CapRespected
<1> QED BY <1>1, <1>3, <1>4 DEF IInv

-----------------------------------------------------------------------------
(* The theorems                                                            *)

\* The inductive invariant holds in every reachable state.
THEOREM Invariance == RegistrySpec => []IInv
BY InitOK, NextKeeps, PTL DEF RegistrySpec

\* Every variable keeps its type, and the LRU order the keys of the cache.
THEOREM TypeCorrect == RegistrySpec => []RegistryTypeOK
<1>1. IInv => RegistryTypeOK
  BY DEF IInv, Core, Types, Lists, RegistryTypeOK
<1> QED BY <1>1, Invariance, PTL

\* max_cached_engines bounds the engines cached for an endpoint, whatever the
\* number of threads that miss together.
THEOREM CapTheorem == RegistrySpec => []CapRespected
<1>1. IInv => CapRespected
  BY DEF IInv
<1> QED BY <1>1, Invariance, PTL

\* No engine is lost open: neither by a failed probe, nor by a lost race, nor by
\* an eviction or a reset that comes between.
THEOREM NoLeakTheorem == RegistrySpec => []NoEngineLeaked
<1>1. IInv => NoEngineLeaked
  <2> SUFFICES ASSUME IInv, NEW e \in open
               PROVE  \/ \E d \in Cached : engines[d] = e
                      \/ \E t \in Threads : eng[t] = e /\ pc[t] \in InGet
    BY DEF NoEngineLeaked
  <2>1. e # None
    BY NoneIsNothing DEF IInv, Core, Types
  <2> QED BY <2>1 DEF IInv, Core, NoneLost, Cached, Holding, InGet
<1> QED BY <1>1, Invariance, PTL

\* A cached engine is open and is its own DSN's.
THEOREM SoundCacheTheorem == RegistrySpec => []CachedEnginesSound
<1>1. IInv => CachedEnginesSound
  BY DEF IInv, Core
<1> QED BY <1>1, Invariance, PTL

\* Fail-closed stays closed, even when a reset forgets what was probed.
THEOREM FailsClosedTheorem == RegistrySpec => []FailsClosed
<1>1. IInv => FailsClosed
  BY DEF IInv, Core
<1> QED BY <1>1, Invariance, PTL

\* All that get() keeps to, together: the cap, no engine lost, none cached that
\* is closed, foreign or beyond its endpoint's budget.
THEOREM RegistrySafety == RegistrySpec => []RegistrySound
<1>1. CapRespected /\ NoEngineLeaked /\ CachedEnginesSound /\ FailsClosed => RegistrySound
  BY DEF RegistrySound
<1> QED BY <1>1, CapTheorem, NoLeakTheorem, SoundCacheTheorem, FailsClosedTheorem, PTL
=============================================================================
