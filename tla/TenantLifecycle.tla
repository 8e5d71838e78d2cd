--------------------------- MODULE TenantLifecycle ---------------------------
(***************************************************************************)
(* The control-plane registry of tenants (tenancy/registry.py): their      *)
(* status, their slugs and the slugs they have retired, as the tenant      *)
(* routes, signup and the provisioning tooling change them.                *)
(*                                                                         *)
(* Every request is one READ COMMITTED transaction.  A SELECT whose result *)
(* a later statement relies on is an action of its own; the statements     *)
(* after the last such SELECT and the commit are one action.  Refusals and *)
(* errors roll back, and are not told apart.  A slug here is well formed   *)
(* and not reserved.                                                       *)
(***************************************************************************)
EXTENDS Naturals

CONSTANTS
  Tenants,         \* the opaque ids, used or not yet
  Slugs,
  Requests,        \* the requests that arrive, each handled once
  Cooling,         \* settings.slug_cooling_days
  MaxTime,         \* bound: the days the clock runs
  StartingStates,  \* [status, slug] pairs the registry may start from
  None

Statuses == {"provisioning", "active", "suspended"}
Kinds    == {"register", "rename", "suspend", "deactivate", "reactivate", "provision"}

ASSUME TenantAssumption ==
  /\ Cooling \in Nat \ {0} /\ MaxTime \in Nat
  /\ None \notin Tenants \cup Slugs \cup Requests \cup Statuses \cup Kinds
                 \cup [tenant : Tenants, until : Nat]
  /\ StartingStates \subseteq [status : [Tenants -> Statuses \cup {None}],
                               slug   : [Tenants -> Slugs \cup {None}]]
  /\ \A s \in StartingStates : \A x, y \in Tenants :
       /\ s.status[x] # "suspended"    \* no suspension from before the audit
       /\ s.status[x] = None <=> s.slug[x] = None
       /\ s.slug[x] = s.slug[y] => x = y \/ s.slug[x] = None

VARIABLES
  now,          \* the day
  status,       \* status[x]: None while no tenant has the id x
  slug,         \* slug[x]
  history,      \* tenant_slug_history: history[s] is a row, or None
  suspends,     \* suspends[x]: the 'suspend' events recorded for x
  reactivates,  \* reactivates[x]: the 'reactivate' events
  tenantLock,   \* who holds x's row FOR UPDATE
  pc,           \* the statement each request has reached
  tx            \* what each request asks for, and what it has read so far

events   == <<suspends, reactivates>>
registry == <<status, slug, history, events>>
tenantVars == <<now, registry, tenantLock, pc, tx>>

Entry == [tenant : Tenants, until : Nat]

Stages == {"new", "guarding", "pre_live", "pre_history", "loading", "live", "history",
           "dropping", "retiring", "writing", "locking", "locked", "finding", "reading",
           "done"}

Asked == [kind : {"register", "provision"}, tenant : {None}, slug : Slugs]
    \cup [kind : {"rename"}, tenant : Tenants, slug : Slugs]
    \cup [kind : {"suspend", "deactivate", "reactivate"}, tenant : Tenants, slug : {None}]

\* A session: the request, the status and the slug of the tenant it has loaded,
\* the history row its check read, whether it deletes the row of the new slug,
\* and whether it found a row for the old one.
Session == [kind : Kinds \cup {None}, tenant : Tenants \cup {None}, slug : Slugs \cup {None},
            seen : Statuses \cup {None}, old : Slugs \cup {None}, saw : Entry \cup {None},
            drop : BOOLEAN, found : BOOLEAN]

Opened(a) == [kind |-> a.kind, tenant |-> a.tenant, slug |-> a.slug, seen |-> None,
              old |-> None, saw |-> None, drop |-> FALSE, found |-> FALSE]
Closed == Opened([kind |-> None, tenant |-> None, slug |-> None])

-----------------------------------------------------------------------------
IsLive(s) == \E x \in Tenants : slug[x] = s

\* is_slug_cooling, and what makes resolve_slug answer with a redirect.
IsCooling(s) == history[s] # None /\ history[s].until > now

Unlocked(x) == tenantLock[x] = None

Goto(t, stage) == pc' = [pc EXCEPT ![t] = stage]
Read(t, r)     == tx' = [tx EXCEPT ![t] = r]

\* COMMIT or ROLLBACK: the locks of t are released and its session is gone.
Finish(t) ==
  /\ Goto(t, "done")
  /\ Read(t, Closed)
  /\ tenantLock' = [x \in Tenants |-> IF tenantLock[x] = t THEN None ELSE tenantLock[x]]

Abandon(t) == Finish(t) /\ UNCHANGED <<now, registry>>

Continue(t, stage) == Goto(t, stage) /\ UNCHANGED <<now, registry, tenantLock>>

-----------------------------------------------------------------------------
(* The routes                                                              *)

Arrive(t) ==
  /\ pc[t] = "new"
  /\ \E a \in Asked :
       /\ Read(t, Opened(a))
       /\ Continue(t, CASE a.kind \in {"rename", "deactivate"}     -> "guarding"
                        [] a.kind = "register"                     -> "pre_live"
                        [] a.kind = "provision"                    -> "finding"
                        [] a.kind \in {"suspend", "reactivate"}    -> "locking")

\* guard: a tenant route is 404 unless the tenant is active.
Guard(t) ==
  /\ pc[t] = "guarding"
  /\ \/ /\ status[tx[t].tenant] # "active"
        /\ Abandon(t)
     \/ /\ status[tx[t].tenant] = "active"
        /\ Continue(t, IF tx[t].kind = "rename" THEN "pre_live" ELSE "locking")
        /\ UNCHANGED tx

\* resolve_slug in the route, and _assert_slug_claimable in the service: each
\* looks for a live tenant with the slug, and then for a cooling history row.
CheckLive(t) ==
  /\ pc[t] \in {"pre_live", "live"}
  /\ \/ /\ IsLive(tx[t].slug)
        /\ Abandon(t)
     \/ /\ ~ IsLive(tx[t].slug)
        /\ Continue(t, IF pc[t] = "live" THEN "history" ELSE "pre_history")
        /\ UNCHANGED tx

\* Mutant: the history row is read, but its expiry is not looked at.
CheckRowExists(t) ==
  /\ pc[t] \in {"pre_history", "history"}
  /\ Read(t, [tx[t] EXCEPT !.saw = history[tx[t].slug]])
  /\ Continue(t, CASE pc[t] = "pre_history" -> IF tx[t].kind = "rename" THEN "loading" ELSE "live"
                   [] pc[t] = "history"     -> IF tx[t].kind = "rename" THEN "dropping" ELSE "writing")

CheckHistory(t) ==
  /\ pc[t] \in {"pre_history", "history"}
  /\ \/ /\ IsCooling(tx[t].slug)
        /\ Abandon(t)
     \/ /\ ~ IsCooling(tx[t].slug)
        /\ Read(t, [tx[t] EXCEPT !.saw = history[tx[t].slug]])
        /\ Continue(t,
             CASE pc[t] = "pre_history" -> IF tx[t].kind = "rename" THEN "loading" ELSE "live"
               [] pc[t] = "history"     -> IF tx[t].kind = "rename" THEN "dropping" ELSE "writing")

-----------------------------------------------------------------------------
(* rename_slug                                                             *)

\* The route loads the tenant; rename_slug finds it, as it was, in the session.
LoadTenant(t) ==
  /\ pc[t] = "loading"
  /\ Read(t, [tx[t] EXCEPT !.old = slug[tx[t].tenant]])
  /\ Continue(t, "live")

\* Nobody else has deleted the history row of s and not yet committed.
RowFree(t, s) == \A u \in Requests \ {t} : tx[u].drop => tx[u].slug # s

\* delete_slug_history of the new slug, flushed at once: the row is locked.
DropHistory(t) ==
  /\ pc[t] = "dropping" /\ RowFree(t, tx[t].slug)
  /\ Read(t, [tx[t] EXCEPT !.drop = history[tx[t].slug] # None])
  /\ Continue(t, "retiring")

\* add_slug_history looks for a row of the old slug (not the one just deleted).
FindHistory(t) ==
  LET s == tx[t].old IN
  /\ pc[t] = "retiring"
  /\ Read(t, [tx[t] EXCEPT
       !.found = history[s] # None /\ ~ (tx[t].drop /\ tx[t].slug = s)])
  /\ Continue(t, "writing")

\* Mutant: a row the old slug has from an earlier retirement is left as it is.
KeepOldRow(t) ==
  LET x == tx[t].tenant  s == tx[t].slug  IN
  history' = [history EXCEPT ![tx[t].old] = IF tx[t].found THEN @
                                            ELSE [tenant |-> x, until |-> now + Cooling],
                             ![s] = IF tx[t].drop THEN None ELSE @]

\* The row of the new slug goes, the row of the old one is inserted or updated.
RetireSlug(t) ==
  LET x == tx[t].tenant  s == tx[t].slug  IN
  history' = [history EXCEPT ![s] = IF tx[t].drop THEN None ELSE @,
                             ![tx[t].old] = [tenant |-> x, until |-> now + Cooling]]

\* What the flush would run into: a row where it inserts, none where it updates
\* (a dropped row it inserts again is its own), or a slug that has become live.
RenameConflict(t) ==
  LET s == tx[t].slug  o == tx[t].old IN
  \/ ~ (tx[t].drop /\ s = o) /\ tx[t].found # (history[o] # None)
  \/ s # o /\ IsLive(s)

\* UPDATE of the slug, unless the session loaded the tenant with that slug.
RenameSlug(t) ==
  LET x == tx[t].tenant  s == tx[t].slug  IN
  /\ pc[t] = "writing" /\ tx[t].kind = "rename"
  /\ Unlocked(x) /\ RowFree(t, tx[t].old)
  /\ \/ RenameConflict(t) /\ Abandon(t)
     \/ /\ ~ RenameConflict(t)
        /\ RetireSlug(t)
        /\ slug' = [slug EXCEPT ![x] = IF s = tx[t].old THEN @ ELSE s]
        /\ Finish(t)
        /\ UNCHANGED <<now, status, events>>

-----------------------------------------------------------------------------
(* register_tenant and activate_tenant, in one transaction                 *)

\* Mutant: nothing stops two tenants from having one slug.
RegisterDuplicate(t) ==
  LET s == tx[t].slug IN
  /\ pc[t] = "writing" /\ tx[t].kind \in {"register", "provision"} /\ tx[t].tenant = None
  /\ \E x \in Tenants :
       /\ status[x] = None
       /\ status' = [status EXCEPT ![x] = "active"]
       /\ slug'   = [slug EXCEPT ![x] = s]
  /\ Finish(t)
  /\ UNCHANGED <<now, history, events>>

RegisterTenant(t) ==
  LET s == tx[t].slug IN
  /\ pc[t] = "writing" /\ tx[t].kind \in {"register", "provision"} /\ tx[t].tenant = None
  /\ \/ IsLive(s) /\ Abandon(t)
     \/ /\ ~ IsLive(s)
        /\ \E x \in Tenants :
             /\ status[x] = None
             /\ status' = [status EXCEPT ![x] = "active"]
             /\ slug'   = [slug EXCEPT ![x] = s]
        /\ Finish(t)
        /\ UNCHANGED <<now, history, events>>

-----------------------------------------------------------------------------
(* provision_tenant (tenancy/provision.py)                                 *)

\* A live tenant with the slug is resumed, else one is registered.
FindTenant(t) ==
  /\ pc[t] = "finding"
  /\ \/ \E x \in Tenants :
          /\ slug[x] = tx[t].slug
          /\ Read(t, [tx[t] EXCEPT !.tenant = x])
          /\ Continue(t, "reading")
     \/ ~ IsLive(tx[t].slug) /\ Continue(t, "live") /\ UNCHANGED tx

ReadStatus(t) ==
  /\ pc[t] = "reading"
  /\ \/ status[tx[t].tenant] = "active" /\ Abandon(t)
     \/ /\ status[tx[t].tenant] # "active"
        /\ Read(t, [tx[t] EXCEPT !.seen = status[tx[t].tenant]])
        /\ Continue(t, "writing")

\* The database has been created and migrated; activate_tenant sets the status
\* of the tenant loaded before that, whatever it has become.
ResumeTenant(t) ==
  /\ pc[t] = "writing" /\ tx[t].kind = "provision" /\ tx[t].tenant # None
  /\ Unlocked(tx[t].tenant)
  /\ status' = [status EXCEPT ![tx[t].tenant] = "active"]
  /\ Finish(t)
  /\ UNCHANGED <<now, slug, history, events>>

-----------------------------------------------------------------------------
(* deactivate_tenant and reactivate_tenant                                 *)

\* Mutant: the tenant is read without FOR UPDATE.
ReadTenant(t) ==
  /\ pc[t] = "locking"
  /\ \/ status[tx[t].tenant] = None /\ Abandon(t)
     \/ /\ status[tx[t].tenant] # None
        /\ Goto(t, "locked")
        /\ Read(t, [tx[t] EXCEPT !.seen = status[tx[t].tenant]])
        /\ UNCHANGED <<now, registry, tenantLock>>

LockTenant(t) ==
  /\ pc[t] = "locking"
  /\ \/ status[tx[t].tenant] = None /\ Abandon(t)
     \/ /\ status[tx[t].tenant] # None
        /\ Unlocked(tx[t].tenant)
        /\ tenantLock' = [tenantLock EXCEPT ![tx[t].tenant] = t]
        /\ Goto(t, "locked")
        /\ Read(t, [tx[t] EXCEPT !.seen = status[tx[t].tenant]])
        /\ UNCHANGED <<now, registry>>

DeactivateTenant(t) ==
  LET x == tx[t].tenant IN
  /\ pc[t] = "locked" /\ tx[t].kind \in {"suspend", "deactivate"}
  /\ \/ tx[t].seen = "suspended" /\ Abandon(t)
     \/ /\ tx[t].seen # "suspended"
        /\ status'   = [status EXCEPT ![x] = "suspended"]
        /\ suspends' = [suspends EXCEPT ![x] = @ + 1]
        /\ Finish(t)
        /\ UNCHANGED <<now, slug, history, reactivates>>

ReactivateTenant(t) ==
  LET x == tx[t].tenant IN
  /\ pc[t] = "locked" /\ tx[t].kind = "reactivate"
  /\ \/ tx[t].seen # "suspended" /\ Abandon(t)
     \/ /\ tx[t].seen = "suspended"
        /\ status'      = [status EXCEPT ![x] = "active"]
        /\ reactivates' = [reactivates EXCEPT ![x] = @ + 1]
        /\ Finish(t)
        /\ UNCHANGED <<now, slug, history, suspends>>

-----------------------------------------------------------------------------
\* The worker dies, or a step outside the registry fails: ROLLBACK.
Die(t) == pc[t] \notin {"new", "done"} /\ Abandon(t)

Tick ==
  /\ now < MaxTime
  /\ now' = now + 1
  /\ UNCHANGED <<registry, tenantLock, pc, tx>>

Rename(t) == LoadTenant(t) \/ DropHistory(t) \/ FindHistory(t) \/ RenameSlug(t)

Provision(t) == FindTenant(t) \/ ReadStatus(t) \/ ResumeTenant(t)

Suspension(t) == LockTenant(t) \/ DeactivateTenant(t) \/ ReactivateTenant(t)

TenantNext ==
  \/ \E t \in Requests :
       \/ Arrive(t) \/ Guard(t) \/ CheckLive(t) \/ CheckHistory(t)
       \/ Rename(t) \/ RegisterTenant(t) \/ Provision(t) \/ Suspension(t)
       \/ Die(t)
  \/ Tick

TenantInit ==
  /\ now = 0
  /\ \E s \in StartingStates :
       /\ status = s.status
       /\ slug   = s.slug
  /\ history     = [s \in Slugs |-> None]
  /\ suspends    = [x \in Tenants |-> 0]
  /\ reactivates = [x \in Tenants |-> 0]
  /\ tenantLock  = [x \in Tenants |-> None]
  /\ pc          = [t \in Requests |-> "new"]
  /\ tx          = [t \in Requests |-> Closed]

TenantSpec == TenantInit /\ [][TenantNext]_tenantVars

-----------------------------------------------------------------------------
(* Properties                                                              *)

\* Every variable has its type, and live slugs are distinct (uq_tenant_slug).
TenantTypeOK ==
  /\ now \in Nat
  /\ status      \in [Tenants -> Statuses \cup {None}]
  /\ slug        \in [Tenants -> Slugs \cup {None}]
  /\ history     \in [Slugs -> Entry \cup {None}]
  /\ suspends    \in [Tenants -> Nat]
  /\ reactivates \in [Tenants -> Nat]
  /\ tenantLock  \in [Tenants -> Requests \cup {None}]
  /\ pc          \in [Requests -> Stages]
  /\ tx          \in [Requests -> Session]
  /\ \A x, y \in Tenants : slug[x] = slug[y] => x = y \/ slug[x] = None

\* No phantom events: each 'suspend' and each 'reactivate' is a real change of
\* status, however many operators act at once (deactivate_tenant's FOR UPDATE).
EventsAreChanges ==
  [][\A x \in Tenants :
       /\ suspends'[x] # suspends[x] =>
            status[x] # "suspended" /\ status'[x] = "suspended"
       /\ reactivates'[x] # reactivates[x] =>
            status[x] = "suspended" /\ status'[x] = "active"]_tenantVars

\* Every reactivation answers a suspension of its own (reactivate_tenant's FOR
\* UPDATE), and a tenant is never suspended without an event that says so.
ReactivationsAnswerSuspensions ==
  \A x \in Tenants :
    /\ reactivates[x] <= suspends[x]
    /\ status[x] = "suspended" => reactivates[x] < suspends[x]

\* t gives some tenant the slug it asks for.
Claims(t) ==
  /\ pc[t] = "writing" /\ pc'[t] = "done"
  /\ \E x \in Tenants : slug[x] # tx[t].slug /\ slug'[x] = tx[t].slug

\* A cooling slug is never claimed, except by a request whose check came before
\* the slug was retired (_assert_slug_claimable reads, and does not lock).
CoolingClaimedOnlyInRace ==
  [][\A t \in Requests :
       Claims(t) /\ IsCooling(tx[t].slug) => history[tx[t].slug] # tx[t].saw]_tenantVars

\* The slug that a rename gives up redirects to its tenant for the cooling window,
\* unless the rename wrote from a stale copy of the tenant (rename_slug).
FreshRenameCools ==
  [][\A t \in Requests :
       LET x == tx[t].tenant IN
       /\ pc[t] = "writing" /\ pc'[t] = "done" /\ tx[t].kind = "rename"
       /\ slug'[x] # slug[x] /\ tx[t].old = slug[x]
       => history'[slug[x]] = [tenant |-> x, until |-> now + Cooling]]_tenantVars

\* "Rename a tenant's slug with a cooling/redirect window on the old slug": the
\* slug a tenant gives up redirects to it.
OldSlugCools ==
  [][\A x \in Tenants :
       slug[x] # None /\ slug'[x] # slug[x] =>
         /\ history'[slug[x]] # None
         /\ history'[slug[x]].tenant = x /\ history'[slug[x]].until > now]_tenantVars

\* "Append-only audit of tenant-lifecycle mutations": a suspended tenant does
\* not become active again without a 'reactivate' event.
ReactivationAudited ==
  [][\A x \in Tenants :
       status[x] = "suspended" /\ status'[x] = "active"
         => reactivates'[x] > reactivates[x]]_tenantVars
=============================================================================
