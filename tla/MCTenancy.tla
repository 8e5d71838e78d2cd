------------------------------- MODULE MCTenancy -------------------------------
(***************************************************************************)
(* The tenants of the control plane, the cache of their DSNs in a process  *)
(* of the data plane, and their databases, side by side: a behaviour is    *)
(* one of one part, `part', while the others rest in a first state.        *)
(*                                                                         *)
(* Registry: one tenant, active or half provisioned, an id not yet used,   *)
(* three slugs and a few requests.  Cache: two callers and one tenant,     *)
(* created and then rotated; time for two entries to expire.  Databases:   *)
(* two tenants, two processes that migrate, from images of two releases,   *)
(* and three orders.                                                       *)
(***************************************************************************)
EXTENDS TenantLifecycle, DsnCache, TenantDatabases, TLC

CONSTANTS acme, globex, a, b, c

VARIABLE part

Founded(st) == [status |-> (acme :> st) @@ (globex :> None),
                slug   |-> (acme :> a) @@ (globex :> None)]

MCStartingStates == {Founded("active"), Founded("provisioning")}

TenancyInit == /\ part \in {"registry", "cache", "databases"}
               /\ TenantInit /\ CacheInit /\ DatabasesInit
               /\ part # "registry" => status[acme] = "active"

TenancyNext ==
  /\ UNCHANGED part
  /\ \/ part = "registry"  /\ TenantNext    /\ UNCHANGED <<cacheVars, databaseVars>>
     \/ part = "cache"     /\ CacheNext     /\ UNCHANGED <<tenantVars, databaseVars>>
     \/ part = "databases" /\ DatabasesNext /\ UNCHANGED <<tenantVars, cacheVars>>

TenancySpec == TenancyInit /\ [][TenancyNext]_<<part, tenantVars, cacheVars, databaseVars>>

\* The callers, which migrate as well, differ in nothing but their name; nor
\* do the requests, nor the slugs nobody has at the start, nor the clients,
\* which are named after them.
TenancySymmetry == Permutations(Requests) \cup Permutations({b, c}) \cup Permutations(Callers)

-----------------------------------------------------------------------------

\* Every variable of the three parts keeps its type.
TenancyTypes == TenantTypeOK /\ CacheTypeOK /\ DatabasesTypeOK
=============================================================================
