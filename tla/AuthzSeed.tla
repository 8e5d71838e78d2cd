------------------------------ MODULE AuthzSeed ------------------------------
(***************************************************************************)
(* seed_authz: every replica that starts writes the permissions, the roles *)
(* and the bundles of its own release into the control database.  One      *)
(* transaction, statement by statement; a row it has written stays locked  *)
(* until its end, and its writes are seen by nobody before.  Replicas of   *)
(* different releases may start side by side (a rolling deployment), and   *)
(* any of them may be killed.                                              *)
(***************************************************************************)
EXTENDS Naturals, Sequences, SequencesExt, FiniteSets

CONSTANTS
  Replicas,
  Releases,   \* what the replicas may be releases of: functions from Replicas to catalogs
              \* [perms: <<[name, domain, live]>>, roles: <<[name, domain, bundle]>>]
  PermNames,
  RoleNames,
  SeedStarts, \* [perm, role, rows]: what the tables may hold first
  Absent      \* no such row, or no write of it

VARIABLES
  perm,      \* permission: [domain, live]
  role,      \* role: [domain, live]
  rows,      \* role_permission: <<role, permission>>
  release,   \* the catalog of each replica
  phase,     \* the part of seed_authz each is in
  todo,      \* what is left of it: a sequence, or a set where the order is not fixed
  own,       \* what its transaction has written: [perm, role, rows]
  keys,      \* the rows it has locked
  last       \* history: the replica whose seed committed last, Absent before any

tables   == <<perm, role, rows>>
seedVars == <<tables, release, phase, todo, own, keys, last>>

Phases == {"shadow", "perms", "unlist", "roles", "bundle", "delist", "reconcile",
           "seeded", "failed"}

CatalogNames(c) == {c.perms[i].name : i \in DOMAIN c.perms}
RoleEntries(c)  == {c.roles[i] : i \in DOMAIN c.roles}
CatalogRoles(c) == {r.name : r \in RoleEntries(c)}

\* The check constraint on the two tables' domain.
Domains == {"tenant", "platform", "resource"}

TableRow == [domain : Domains, live : BOOLEAN]
Catalogs == [perms : Seq([name : PermNames, domain : Domains, live : BOOLEAN]),
             roles : Seq([name : RoleNames, domain : Domains, bundle : SUBSET PermNames])]

\* The catalogs that replicas start side by side with name each permission once,
\* and have one in common: the routes every release ships ask for it by name.
Compatible(rel) ==
  /\ rel \in [Replicas -> Catalogs]
  /\ \A s \in Replicas : \A i, j \in DOMAIN rel[s].perms :
       rel[s].perms[i].name = rel[s].perms[j].name => i = j
  /\ \A s, o \in Replicas : CatalogNames(rel[s]) \cap CatalogNames(rel[o]) # {}

\* The foreign keys of a bundle's rows.
References(start) == \A rp \in start.rows : start.role[rp[1]] # Absent /\ start.perm[rp[2]] # Absent

ASSUME SeedAssumption ==
  /\ Absent \notin Replicas /\ Absent \notin TableRow
  /\ \A rel \in Releases : Compatible(rel)
  /\ \A start \in SeedStarts :
       /\ start \in [perm : [PermNames -> TableRow \cup {Absent}],
                     role : [RoleNames -> TableRow \cup {Absent}], rows : SUBSET (RoleNames \X PermNames)]
       /\ References(start)

Nothing == [perm |-> [n \in PermNames |-> Absent], role |-> [r \in RoleNames |-> Absent],
            rows |-> {}]

\* What the transaction of s sees.
Sees(s, table, n)  == LET mine == own[s][table][n] IN
                      IF mine # Absent THEN mine ELSE IF table = "perm" THEN perm[n] ELSE role[n]
SeesRow(s, rp)     == rp \in rows \cup own[s].rows

PermKey(n) == <<"permission", n>>
RoleKey(r) == <<"role", r>>

Unlocked(s, key) == \A o \in Replicas \ {s} : key \notin keys[o]
Lock(s, key)     == keys' = [keys EXCEPT ![s] = @ \cup {key}]
Enter(s, p, left) == phase' = [phase EXCEPT ![s] = p] /\ todo' = [todo EXCEPT ![s] = left]

\* Mutant: the bundle rows are written in transactions of their own.
RollbackToRows(s) ==
  /\ Enter(s, "failed", {})
  /\ rows' = rows \cup own[s].rows
  /\ own' = [own EXCEPT ![s] = Nothing] /\ keys' = [keys EXCEPT ![s] = {}]
  /\ UNCHANGED <<perm, role, release, last>>

\* The transaction ends without a trace: an error, or the process was killed.
Rollback(s) ==
  /\ Enter(s, "failed", {})
  /\ own' = [own EXCEPT ![s] = Nothing] /\ keys' = [keys EXCEPT ![s] = {}]
  /\ UNCHANGED <<tables, release, last>>

-----------------------------------------------------------------------------
\* No custom role has the name of a built-in one.
ShadowGuard(s) ==
  /\ phase[s] = "shadow"
  /\ IF Cardinality(CatalogRoles(release[s])) = Len(release[s].roles)
     THEN Enter(s, "perms", release[s].perms) /\ UNCHANGED <<tables, release, own, keys, last>>
     ELSE Rollback(s)

\* Mutant: the catalog is a set, upserted in any order.
UpsertAnyPermission(s) ==
  /\ phase[s] = "perms" /\ todo[s] # <<>>
  /\ \E i \in DOMAIN todo[s] :
       LET p == todo[s][i] IN
       /\ Unlocked(s, PermKey(p.name)) /\ Lock(s, PermKey(p.name))
       /\ own' = [own EXCEPT ![s].perm[p.name] = [domain |-> p.domain, live |-> p.live]]
       /\ Enter(s, "perms", RemoveAt(todo[s], i))
  /\ UNCHANGED <<tables, release, last>>

\* INSERT ... ON CONFLICT DO UPDATE, permission by permission.
UpsertPermission(s) ==
  /\ phase[s] = "perms" /\ todo[s] # <<>>
  /\ LET p == Head(todo[s]) IN
     /\ Unlocked(s, PermKey(p.name)) /\ Lock(s, PermKey(p.name))
     /\ own' = [own EXCEPT ![s].perm[p.name] = [domain |-> p.domain, live |-> p.live]]
  /\ Enter(s, "perms", Tail(todo[s]))
  /\ UNCHANGED <<tables, release, last>>

\* UPDATE permission ... NOT IN the catalog: the rows of its snapshot, one by one.
SweepPermissions(s) ==
  /\ phase[s] = "perms" /\ todo[s] = <<>>
  /\ Enter(s, "unlist", {n \in PermNames \ CatalogNames(release[s]) : perm[n] # Absent})
  /\ UNCHANGED <<tables, release, own, keys, last>>

DeactivatePermission(s, n) ==
  /\ phase[s] = "unlist" /\ n \in todo[s]
  /\ Unlocked(s, PermKey(n)) /\ Lock(s, PermKey(n))
  /\ own' = [own EXCEPT ![s].perm[n] = [perm[n] EXCEPT !.live = FALSE]]
  /\ Enter(s, "unlist", todo[s] \ {n})
  /\ UNCHANGED <<tables, release, last>>

BeginRoles(s) ==
  /\ phase[s] = "unlist" /\ todo[s] = {}
  /\ Enter(s, "roles", release[s].roles)
  /\ UNCHANGED <<tables, release, own, keys, last>>

-----------------------------------------------------------------------------
\* Mutant: ON CONFLICT DO NOTHING.
InsertRole(s) ==
  /\ phase[s] = "roles" /\ todo[s] # <<>>
  /\ LET r == Head(todo[s]) IN
     /\ Unlocked(s, RoleKey(r.name))
     /\ IF role[r.name] # Absent THEN UNCHANGED <<own, keys>>
        ELSE /\ Lock(s, RoleKey(r.name))
             /\ own' = [own EXCEPT ![s].role[r.name] = [domain |-> r.domain, live |-> TRUE]]
  /\ Enter(s, "bundle", todo[s])
  /\ UNCHANGED <<tables, release, last>>

\* _seed_role: the upsert of the role, which leaves the domain of a row that is
\* there as it is.
UpsertRole(s) ==
  /\ phase[s] = "roles" /\ todo[s] # <<>>
  /\ LET r == Head(todo[s]) IN
     /\ Unlocked(s, RoleKey(r.name)) /\ Lock(s, RoleKey(r.name))
     /\ own' = [own EXCEPT ![s].role[r.name] =
                  [domain |-> IF role[r.name] = Absent THEN r.domain ELSE role[r.name].domain,
                   live   |-> TRUE]]
  /\ Enter(s, "bundle", todo[s])
  /\ UNCHANGED <<tables, release, last>>

Missing(s) == {p \in Head(todo[s]).bundle : ~SeesRow(s, <<Head(todo[s]).name, p>>)}

\* Its bundle rows, in the order of a Python set: ON CONFLICT DO NOTHING.  One
\* that names no permission breaks the foreign key.
InsertBundleRow(s, p) ==
  LET rp == <<Head(todo[s]).name, p>> IN
  /\ phase[s] = "bundle" /\ p \in Missing(s) /\ Unlocked(s, rp)
  /\ IF Sees(s, "perm", p) = Absent THEN Rollback(s)
     ELSE /\ Lock(s, rp)
          /\ own' = [own EXCEPT ![s].rows = @ \cup {rp}]
          /\ UNCHANGED <<tables, release, phase, todo, last>>

NextRole(s) ==
  /\ phase[s] = "bundle" /\ Missing(s) = {}
  /\ Enter(s, "roles", Tail(todo[s]))
  /\ UNCHANGED <<tables, release, own, keys, last>>

\* UPDATE role ... NOT IN the declared ones.
RetireRoles(s) ==
  /\ phase[s] = "roles" /\ todo[s] = <<>>
  /\ Enter(s, "delist", {r \in RoleNames \ CatalogRoles(release[s]) : role[r] # Absent})
  /\ UNCHANGED <<tables, release, own, keys, last>>

DeactivateRole(s, r) ==
  /\ phase[s] = "delist" /\ r \in todo[s]
  /\ Unlocked(s, RoleKey(r)) /\ Lock(s, RoleKey(r))
  /\ own' = [own EXCEPT ![s].role[r] = [role[r] EXCEPT !.live = FALSE]]
  /\ Enter(s, "delist", todo[s] \ {r})
  /\ UNCHANGED <<tables, release, last>>

BeginReconcile(s) ==
  /\ phase[s] = "delist" /\ todo[s] = {}
  /\ Enter(s, "reconcile", {})
  /\ UNCHANGED <<tables, release, own, keys, last>>

-----------------------------------------------------------------------------
\* Mutant: the permissions a bundle names need only exist.
Exists(s, r, p) == Sees(s, "perm", p) # Absent /\ Sees(s, "perm", p).domain = r.domain

\* _check_bundle: known, live, and of the role's domain, as the code declares it.
Sound(s, r, p) ==
  LET row == Sees(s, "perm", p) IN row # Absent /\ row.live /\ row.domain = r.domain

Merge(mine, table) == [n \in DOMAIN table |-> IF mine[n] # Absent THEN mine[n] ELSE table[n]]

\* reconcile_authz, then the caller's commit.
Reconcile(s) ==
  /\ phase[s] = "reconcile"
  /\ IF \E r \in RoleEntries(release[s]) : \E p \in r.bundle : ~Sound(s, r, p) THEN Rollback(s)
     ELSE /\ perm' = Merge(own[s].perm, perm)
          /\ role' = Merge(own[s].role, role)
          /\ rows' = rows \cup own[s].rows
          /\ own' = [own EXCEPT ![s] = Nothing] /\ keys' = [keys EXCEPT ![s] = {}]
          /\ Enter(s, "seeded", {})
          /\ last' = s
          /\ UNCHANGED release

\* The rows s may be waiting for next.
Awaited(s) ==
  CASE phase[s] = "perms" /\ todo[s] # <<>> -> {PermKey(Head(todo[s]).name)}
    [] phase[s] = "unlist" -> {PermKey(n) : n \in todo[s]}
    [] phase[s] = "roles" /\ todo[s] # <<>> -> {RoleKey(Head(todo[s]).name)}
    [] phase[s] = "delist" -> {RoleKey(r) : r \in todo[s]}
    [] phase[s] = "bundle" -> {<<Head(todo[s]).name, p>> : p \in Missing(s)}
    [] OTHER -> {}

Delays(o, s) == o # s /\ keys[o] \cap Awaited(s) # {}

Entangled(S) == /\ S # {}
                /\ \A s \in S : \E o \in S : Delays(o, s)

SeedDeadlock(s) ==
  /\ \E S \in SUBSET Replicas : s \in S /\ Entangled(S) /\ \A o \in S : \E t \in S : Delays(o, t)
  /\ Rollback(s)

Kill(s) == phase[s] \notin {"seeded", "failed"} /\ Rollback(s)

SeedInit ==
  /\ \E start \in SeedStarts : perm = start.perm /\ role = start.role /\ rows = start.rows
  /\ release \in Releases
  /\ phase = [s \in Replicas |-> "shadow"]
  /\ todo = [s \in Replicas |-> {}]
  /\ own = [s \in Replicas |-> Nothing]
  /\ keys = [s \in Replicas |-> {}]
  /\ last = Absent

SeedPermissions(s) == UpsertPermission(s) \/ SweepPermissions(s)
                      \/ \E n \in PermNames : DeactivatePermission(s, n)
SeedRole(s)  == UpsertRole(s) \/ NextRole(s) \/ \E p \in PermNames : InsertBundleRow(s, p)
SeedRoles(s) == BeginRoles(s) \/ SeedRole(s) \/ RetireRoles(s) \/ BeginReconcile(s)
                \/ \E r \in RoleNames : DeactivateRole(s, r)

SeedAuthz(s) == ShadowGuard(s) \/ SeedPermissions(s) \/ SeedRoles(s) \/ Reconcile(s)

SeedNext == \E s \in Replicas : SeedAuthz(s) \/ SeedDeadlock(s) \/ Kill(s)

SeedSpec == SeedInit /\ [][SeedNext]_seedVars
-----------------------------------------------------------------------------
SeedTypeOK ==
  /\ perm \in [PermNames -> TableRow \cup {Absent}]
  /\ role \in [RoleNames -> TableRow \cup {Absent}]
  /\ rows \subseteq RoleNames \X PermNames
  /\ \A rp \in rows : perm[rp[2]] # Absent /\ role[rp[1]] # Absent
  /\ phase \in [Replicas -> Phases]
  /\ last \in Replicas \cup {Absent}

\* The flags are those of one release, the one that was seeded last, whatever
\* others started beside it: its live permissions and its roles are live, with
\* their bundles, and nothing else is.
LastSeedWins ==
  last # Absent =>
    LET c == release[last] IN
    /\ {n \in PermNames : perm[n] # Absent /\ perm[n].live}
         = {p.name : p \in {c.perms[i] : i \in {j \in DOMAIN c.perms : c.perms[j].live}}}
    /\ {r \in RoleNames : role[r] # Absent /\ role[r].live} = CatalogRoles(c)
    /\ \A r \in RoleEntries(c) : {r.name} \X r.bundle \subseteq rows

\* No role in force is left without a permission its release bundles with it.
BundlesInForce ==
  last # Absent =>
    \A r \in RoleEntries(release[last]), p \in PermNames :
      p \in r.bundle => perm[p] # Absent /\ perm[p].live /\ perm[p].domain = r.domain

\* Replicas of one release never deadlock, although each inserts its bundles in
\* an order of its own: the catalog's first permission lets one of them through.
OneReleaseNeverDeadlocks ==
  (\A s, o \in Replicas : release[s] = release[o]) => ~\E S \in SUBSET Replicas : Entangled(S)

\* "the code catalog and role bundles are the source of truth" (authz/seed.py:7):
\* a role in force grants what the release seeded last bundles with it.
BundlesAreTheCode ==
  last # Absent =>
    \A r \in RoleEntries(release[last]), p \in PermNames :
      <<r.name, p>> \in rows /\ perm[p].live => p \in r.bundle

\* Seeds that run side by side leave one release's roles, whole.
SeedsConverge == LastSeedWins /\ BundlesInForce
=============================================================================
