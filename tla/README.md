# TLA+ models of swiftwater-framework

The repository is a command line, `framework`, that generates and maintains FastAPI services from a
Copier template (`src/src/framework_cli/template`). Its own logic has two halves: the code it puts
into every generated service (the *template*; batteries such as `multitenantauth`, `workers`,
`webhooks`) and the code that looks after projects (the *CLI*: integrity manifest, batteries,
upgrades, the gate and the review tooling). This directory holds TLA+ models of both, the TLC
configurations that check them on small instances, and TLAPS proofs for every value of the
constants.

Paths below are relative to the repository; `MTA` stands for
`src/framework_cli/template/src/{{package_name}}/{% if "multitenantauth" in batteries %}multitenantauth{% endif %}`,
`APP` for `src/framework_cli/template/src/{{package_name}}`, `TPL` for `src/framework_cli/template`,
`CLI` for `src/framework_cli`.

    tlc -workers 2 -config access.cfg MCAccess
    tlapm RoleServiceProofs.tla

`PROJECT.json` maps each definition to the lines it models, and lists the runs, the theorems, the
disagreements met, the hazards, and for each property a mutation of the model that breaks it.

## 1. The system

| Component | State | Operations | Hard because | Correct when |
|---|---|---|---|---|
| Role service `MTA/authz/service.py`, `routes/roles.py` | assignment rows, memberships, audit of grants and revocations, in PostgreSQL | grant, revoke, add and remove a member | READ COMMITTED snapshots, `FOR UPDATE`, deadlocks | a tenant keeps an admin; every row that goes has its event; every request is answered |
| Authentication `MTA/routes/auth.py`, `authn/` | accounts, sessions, invitations | login, logout, sign-up, set password | a login races a change of password; a sign-up inserts three unique keys | a new password ends every older session; an invitation is used once; a sign-up is whole |
| Route guard `MTA/deps.py`, `csrf.py`, `authz/resolution.py`, `authz/expr.py` | none of its own | resolve the session, the tenant, the grants; evaluate an expression | several reads of a database that changes; recursion; deny by default | who is let in was entitled; who is not a member learns nothing |
| Seeding `MTA/authz/seed.py` | permissions, roles, bundles | `seed_authz` at each start | several replicas, several releases | one release's catalog is in force; replicas do not deadlock |
| Tenant registry `MTA/tenancy/registry.py`, `provision.py`, `routes/tenants.py` | status, slug, retired slugs, lifecycle audit | register, provision, suspend, reactivate, rename | checks without locks, a long provisioning in the middle | unique slugs, the cooling window, an audit that says what happened |
| Tenant databases `MTA/tenancy/migrate.py`, `provision.py` | a schema revision per tenant, and those of the shared databases | the migration fan-out, provisioning | images of several releases; one failure among many | the report is true; the control plane leads |
| DSN cache `MTA/tenancy/session.py` | TTL entries, an invalidation epoch | `_resolve_dsn`, `invalidate_dsn_cache` | the resolver is called without the lock | no answer older than the last invalidation, or than one TTL |
| Engine registry `MTA/tenancy/engine_registry.py` | an LRU of engines per endpoint, one lock | `get`, `reset`, sessions that use engines | the engine is built and probed outside the lock; eviction disposes engines in use | caps and budgets hold, no engine is lost open or served disposed |
| Webhook inbox `APP/routes/webhooks.py`, `APP/webhooks/` | inbox rows, the broker's queue | receive | redelivery, two stores and no common commit | each event is handled, twice only after a failure |
| Background tasks `APP/tasks/` | task messages, dead letters | run, retry, bury | a worker dies at any point | a task succeeds or is buried |
| WebSocket manager `APP/websockets/` | the list of connections, a gauge | connect, broadcast, disconnect | the list changes at every await | a dead socket is reaped |
| Deployment `TPL/infra/deploy/`, the deploy workflows | release histories, what runs, the schema | deploy, roll back | each step may fail with or without its effect | what runs is on record; code meets its schema; a rollback restores |
| Worktrees `TPL/scripts/worktree.py` | a `.env` per worktree; stacks, volumes and ports of one box | up, down | branches are renamed; ports are chosen, then bound | no stack is lost, the ports a worktree selects were free |
| Project life `CLI/upskill.py`, `downskill.py`, `upgrade.py`, `batteries.py`, `migrations.py`, `integrity/` | the project's files, answers, manifest, chain of migrations | new, upskill, downskill, upgrade, restore, integrity | several files updated one after another, failures in between | choices survive; the manifest tells the truth; migrations stay a chain |
| Review audit `CLI/review/audit/`, `checkpoint.py` | a directory of checkpoints | run, crash, give up, resume | threads, crashes, half-written files, changing inputs | nothing recorded is lost, nothing stale is published |
| Gate and audit commands `CLI/cli.py`, `review/engine.py`, `baselines.py` | one directory of records for both, a marker, preserved reports | gate, regrade, audit, delta, resume | whatever the last command left behind is there | the marker is earned; deltas leave no commit out |
| Review jobs `CLI/cli.py`, `review/agentic.py`, `aggregate.py`, `comment.py` | files, checks, a sticky comment | review, aggregate | jobs die, pushes overlap, the model runs a loop | red only for findings; green hides no failure |
| Evaluation `CLI/review/evals.py` | scores | `framework eval` | a pool of threads that stop one another; a run may be skipped | exit code 0 means all were scored, or that nothing had to be |

How they interact: a request passes the guard, which reads the session, the tenant's status and the
caller's grants, kept by authentication, the tenant registry and the role service; it then opens a
tenant session, which asks the DSN cache and, with the DSN, the engine registry. Lifecycle and
provisioning invalidate the DSN cache, and provisioning creates the database the fan-out migrates.
Every container's start runs the fan-out and the seeding, and a deployment starts containers. The
webhook inbox feeds the background tasks. On the CLI's side upskill, downskill and upgrade rewrite a
project, regenerate its manifest and compute its migrations. The gate and `framework audit` share
their directory; the checkpointed audit has one of its own.

## 2. The modules

| Modules | Model | Checked as | Proofs |
|---|---|---|---|
| `RoleService` | role service, over PostgreSQL's locks | part *roles* of `MCAccess`; `MCRoleService` | `RoleServiceProofs` |
| `AuthSessions` | authentication | part *auth* of `MCAccess` | `AccessProofs` |
| `RouteGuard` | the guard and permission expressions | part *guard* of `MCAccess` | `AccessProofs` |
| `AuthzSeed` | seeding | part *seed* of `MCAccess` | `AccessProofs` |
| `TenantLifecycle` | tenant registry, provisioning | part *registry* of `MCTenancy` | `TenancyProofs` |
| `DsnCache` | DSN cache, the resolver it calls | part *cache* of `MCTenancy` | `TenancyProofs` |
| `TenantDatabases` | the fan-out and provisioning, over databases | part *databases* of `MCTenancy` | `TenancyProofs` |
| `EngineRegistry` | engine registry and its sessions | part *engines* of `MCServices` | `EngineRegistryProofs` |
| `Deployment` | deploys and rollbacks | part *deploy* of `MCServices` | `ServicesProofs` |
| `Deliveries` | webhook inbox, broker, workers, dead letters | part *deliveries* of `MCServices` | `ServicesProofs` |
| `Connections` | WebSocket manager | part *sockets* of `MCServices` | `ServicesProofs` |
| `Worktrees` | stacks of worktrees on one box | part *worktrees* of `MCServices` | `ServicesProofs` |
| `ProjectLifecycle` | batteries, upgrades, integrity, migrations | `MCProjectLifecycle` | `ProjectLifecycleProofs` |
| `AuditPipeline` | review audit: stages, threads, crashes, resumes | `MCAuditPipeline` | `AuditPipelineProofs` |
| `WorkQueue` | what a checkpointed stage promises (abstract) | implemented by `AuditPipeline` | |
| `ReviewGate` | gate and audit commands | part *gate* of `MCReviews` | `ReviewsProofs` |
| `ReviewJobs` | review jobs of a pull request | part *jobs* of `MCReviews` | `ReviewsProofs` |
| `EvalRun` | evaluation | part *eval* of `MCReviews` | `ReviewsProofs` |

`MCAccess`, `MCTenancy`, `MCServices` and `MCReviews` check several modules in one run. The modules
of a run share no state, so that the product of their behaviours would tell nothing more than each:
a behaviour is one of *one* part, named by the variable `part`, while the others rest in a fixed
first state. The states of a run are then the sum of its parts', not their product, and an invariant
of the run is checked on every state of its part.

### RoleService

A request is a transaction, `pc[t]` the SQL statement it has reached. Each statement whose *result*
a later one relies on is an action: loading the membership (`LoadMembership`), the snapshot of the
admin rows a `SELECT ... FOR UPDATE` is made of (`SnapshotAdmins`), each row lock it waits for
(`LockAssignmentRow`, `LockMembershipRow`; a row deleted meanwhile drops out, `SkipDeletedRow`), the
count (`CountAdmins`), the select and the delete of the assignment. The last flush and the commit
are one action: what a flush has written is locked and invisible until the commit. `DeadlockAbort`
is PostgreSQL's detector: it fires only for a request on a cycle of `Blockers`. `joined[u]` numbers
the membership rows `u` has had, so a request that loaded an old one is told from one that loaded
the live one. A grant is a tenant role or a role on a resource: the two pairs of functions in the
code are alike, but only the tenant role `Admin` is guarded.

### AuthSessions

Again one transaction a request, `at[t]` its statement. `Needed(t)` is the row its next statement
has to lock (or the unique key it inserts), `holds[t]` the rows it has locked; `BreakDeadlock`
aborts a member of a cycle. A login is two steps, the read with the check of the password
(`Verify`) and the commit of the session and the re-hash (`CommitLogin`); set-password is its
`UPDATE ... RETURNING` (`Redeem`), the deletion of the sessions its snapshot has (`DeleteSessions`)
and the ORM's flush of account and membership at commit. A sign-up meets the unique slug and the
unique email one after the other. `by` and `pw` of a session and `overtaken` are history: they name
the password a session was opened with, and the accounts where a login raced a reset.

### RouteGuard

One request, read by read (`stop`): the CSRF middleware, the session, the account, the tenant, the
membership, the grants of each scope, the resolver the project registers (it may grant, refuse, stay
silent or raise), the expression. What the database says is a set of `facts`; others end facts
between the reads (`MaxChanges`). `before` is what the database has said since the request arrived. A
permission expression is the sequence of its nodes, the root first and children after their parent;
`Verdicts` gives each node's verdict from its children's, a recursive function on the places of the
sequence, where `evaluate_async` recurses on the tree. The early ends of its loops are left out: a
child that is not looked at would change no verdict. The reference `Entitles` says which
facts entitle to what, without the order of the reads and without recursion: some set of nodes, the
root among them, bear each other out.

### AuthzSeed

A replica's transaction is the upsert of each permission, the flags of those that went, the roles,
the bundles, the validation, the commit; rows it has written stay locked. `release[s]` is the
catalog of replica `s`: replicas of several releases start together and may be killed. A catalog names
each permission once (`MTA/authz/permissions.py`: "name must be globally unique"), and two catalogs have
a permission in common: the battery's own routes, in every release, ask for permissions by name.

### TenantLifecycle

Requests register, rename, suspend, deactivate (the tenant's own admin), reactivate and provision.
A `SELECT` whose result is used later is an action (`CheckLive`, `CheckHistory`, `LoadTenant`,
`FindHistory`, `LockTenant`, `ReadStatus`); what follows the last of them and the commit is one
action. All refusals and errors roll back and are not told apart. Slugs are well formed and not
reserved (others are refused before anything is read). Registration and activation by the signup
route are one commit. The clock counts days.

### DsnCache

A DSN is its version; the resolver (a seam that deployments may replace) answers with whatever
version is current at some moment of the call. `Hit`/`Miss`, `Ask`/`Deny`, `Remember` are the
critical section before the call, the call, and the one after it. `floor[x]` (the version at the last
invalidation) and `since[x][v]` (when a version became current) say which answers would be too old. The
cache belongs to one process: other processes learn of a change after a TTL at the latest, which is
what `StalenessBounded` bounds.

### TenantDatabases

A release is a number, its image leads a database to that revision; Alembic's `upgrade head` is one
step that succeeds only on a database that exists and is not ahead of the image. `report[r]` is one
run of `upgrade_all`: the control plane first (its failure ends the run), the default database (its
failure is recorded), the list of active tenants, each tenant, the report. Beside it tenants are
registered, provisioned by an image of any release (which may fail and be resumed), signed up on a
placeholder, suspended and reactivated.

### EngineRegistry

`get` is two critical sections and what happens between them: `Lookup` (hit, or miss that also
reads whether the endpoint has been probed), `Build`, `ProbePasses`/`ProbeFails`, and then under
the lock `Acquire`, `LoseRace`, `EvictOldest` step by step, and `Store`. Identities of engines are
`[url, object]`; `dispose` closes what is idle and leaves what is checked out open, and whoever
still has a disposed engine may open new connections, as in SQLAlchemy. Only checked-out
connections are counted; the probe's own connection and the pool's timeout are left out.

### Deployment

An operation is `deploy` or `rollback` of `strategy.sh`, one action per step and host: record, migrate,
roll, check; for a rollback the choice of the target, the guard, the downgrade with the newest image,
roll, record. A rollback of a multi-tenant project (`tenants`) is image-only: no downgrade, and placing the image
runs `upgrade head` first, as a deployment does. Every step may fail with or without its effect (the connection is
lost), and the workflow then rolls back. `releases[h]` is the history file on host `h`; `Revision[n]` the
revision release `n` brings. A run of the workflow takes an image and a checkout, which need not
be of one release. Only the compose-ssh target is modelled: the other targets are stubs.

### Deliveries

A delivery inserts the event's key, sends a task, and commits, or fails after any of these; the
provider delivers again. A message is acknowledged late: a lost worker gives it back, with the
retries its message says. A failure publishes it again, at most `MaxRetries` times, and then writes a
dead-letter row, or swallows that it could not. The broker is the
set of the messages that are ready; `life` tells a message from the one that a lost worker gave back
before.

### Connections

One handler a connection, on one event loop: an action runs from one await to the next. A broadcast
is a copy of the list, one send an action; a peer that has gone raises inside whoever sends to it.

### Worktrees

`env[w]` is the worktree's `.env` (instance, offset, marker), `stacks[i]` what the box has under the
instance's name: containers, volumes, ports. `up` plans (and, with `--ports`, looks at the ports in
use), then starts; `down` removes and then releases. Either may be stopped between its steps. Two
branches may have one label. `started[w]` is history: the stacks that were started since the worktree's `up` looked at
the ports, and since the look its selected offset comes from.

### ProjectLifecycle

A file's content is what it was rendered from: a release and the batteries its text depends on; of
a migration, the revision before it. A command is its writes one after another: Copier's update
(`RunUpdate`, a merge file by file, which leaves answers out of its answers file), `RecordBatteries`,
`RecordChannels`, `RecordIdentity`, `WriteManifest`; for a removal `Unlink` and `Splice` of each file.
`Crash` may come before any of them, inside Copier with some of the files merged, or inside a write with the file
truncated. The builder edits, deletes, damages, commits, restores, allows drift, deploys.

### AuditPipeline, WorkQueue

A directory outlives the runs over it: `stamp` is `audit-provenance.json`, `plan[s]` and `done[s]`
a stage's `run-state.json`, `rec[i]` the record of an item, `recon` the changelist of stage 2. A
file written with `write_text` is `Torn` from its truncation to its end; `run-state.json` is
replaced atomically. The reports, changelists and verdicts are abstracted to the pieces they were made
from: the number of the audit, and the version of the inputs it read. `run_stage`'s thread pool is
`todo` and `work`, one action per step of `_do` (`TakeUp`, `Exhaust`, `SkipRest`, `BeginRecord`,
`WriteRecord`, `MarkDone`); the serial path is the same with one worker. `Crash` may happen
anywhere, the inputs may change at any time, a resume may follow anything. History variables
(`audit`, `opened`, `edited`, `leftover`) only let the properties tell audits apart. `WorkQueue`
is the promise of `append_record` ("resume never re-runs a completed agent or loses a written
record") as a specification of its own; both stages implement it (`StagesAreQueues`).

### ReviewGate

One command runs at a time over `.framework/audit/latest`: `op` and `step` where it is, `state` its
`run-state.json`, `findings` and `records` the files of the agents, `marker` what the gate writes for the
commit, `baselines` the reports preserved by audits. The developer stages, commits and retires a
decision between and during the commands. `judged`, `reviewed`, `kin`, `spoiled` are history.

### ReviewJobs, EvalRun

`job[p][a]` is the job of agent `a` for push `p`: begin, the loop of tool turns with its
recoveries, the last call, the posting of the check, the file. `agg[p]` is the aggregation, which
runs whatever became of the jobs: read the files, list the comments, write one.

`EvalRun` is one `framework eval`: what it was asked (`required`: `--require-key`, `--require-fixtures`) and found (`backend`;
`fixtures`, with the bad cases that `load_fixtures` leaves out in silence, `unnamed`) is fixed for the run. Without a back end it
ends at once (`SkipRun`); it may be refused or fail before the pool (`PrepareFails`); then threads score the targets, each of which
may stop the others, and the exit code is computed (`Tell`).

## 3. The runs

| Run | Instance | Shows |
|---|---|---|
| `access` | *roles*: 3 requests (two that take roles away, a third of any kind), 2 users, 2 grants, 3 starts; *auth*: any 3 of 8 asks (two logins, a logout, two redemptions, a removal, two sign-ups), 3 starts; *guard*: every combination of credentials and origins on an easy route, five expressions with every resolver, every single missing fact, one change; *seed*: 3 replicas over 9 mixtures of releases. 537 761 states | below |
| `tenancy` | *registry*: 3 requests, an existing tenant (active or half provisioned) and a free id, 3 slugs, 1 day of cooling, 2 days; *cache*: 2 callers, 1 tenant, TTL 1, 2 versions, 3 ticks, 2 epochs; *databases*: 2 tenants, 2 runs, 2 releases, 3 orders. 1 332 278 states | below |
| `services` | *engines*: 2 threads, 5 DSNs over 3 endpoints (three for a cap of two; one alone; one whose server cannot carry the plan); *deploy*: 3 operations, 2 hosts, 4 releases of which the second and the fourth migrate, the last over a contract floor, an image with another's checkout; *deliveries*: an event delivered twice, 2 workers, 1 retry, 1 loss; *sockets*: 3, with 2 messages; *worktrees*: 2, with 3 branches of 2 labels, 3 commands. 1 137 241 states | below |
| `projects` | 3 batteries (one requires another, two have migrations), 2 releases, 8 files of every kind, 2 commands, 1 edit. 1 726 726 states | below |
| `audit` | 2 versions of the inputs (auditing {a, b} and {b}), 2 possible edits, 2 workers, 3 runs, 2 changes. 1 089 596 states | below |
| `reviews` | *gate*: 2 agents, 3 stagings, 2 commits, 2 runs, 1 preserved report; *jobs*: 2 agents, 2 pushes, 2 turns, 1 recovery; *eval*: 3 agents, 2 threads, 2 repeats, with and without a back end and either option. 681 554 states | below |
| `roles_orphan` | founder and member, 3 requests | *violation*: the last admin can be revoked |
| `auth_reset` | as `access` | *violation*: a session outlives the reset of its password |
| `projects_chain` | as `projects` | *violation*: a database that never runs a battery's migration |
| `deploy_forward` | as `services` | *violation*: an image-only rollback cannot run the prior image |
| `deploy_rollback` | as `services` | *violation*: a rollback goes back one release too far |
| `migrate_placeholder` | as `tenancy` | *violation*: the fan-out targets a tenant without a database |

The properties. Each run checks one conjunction of type invariants (`AccessTypes`, `TenancyTypes`,
`ServicesTypes`, `LifecycleTypeOK`, `ReviewsTypes`; for the audit it is part of `CheckpointsSound`).

*Access.* `EveryRemovalAudited`: no assignment goes without its event, however it goes.
`CountedRemovalsKeepAnAdmin`: a removal whose row was counted under the lock leaves another admin.
`RequestsAreWhole`: `InvitesSingleUse` and `SignupsWhole`. `ResetEndsSessions`: but for a login that
raced it, a reset leaves no session of the old password. `GuardSound`: `AllowedWasEntitled`,
`StrangersLearnNothing`, `CookieWritesAreOwn`. `QuietAnswer`: if nothing changes, the guard answers
what the facts call for, both ways. `SeedsConverge`: `LastSeedWins`, `BundlesInForce`.
`OneReleaseNeverDeadlocks`. `RequestsAnswered`: `EveryRequestAnswered` and `AuthAnswered`, lock
cycles included.

*Tenancy.* `FreshAfterInvalidation`, `StalenessBounded`. `EventsAreChanges`: the audit has no event
without its change. `CoolingClaimedOnlyInRace`, `FreshRenameCools`: the cooling window of slugs.
`DatabasesAreAsTold`: `ReportIsTrue` and `ActiveHasDatabase`. `ControlLeads`: no run touches a tenant
while the control plane is behind its release.

*Services.* `RegistrySound`: `CapRespected`, `NoEngineLeaked`, `CachedEnginesSound`, `FailsClosed`.
`DeploySound`: `RunningIsTracked`, `CurrentIsLive`, `RollbackUndoes`. `PlacedOnItsSchema`.
`DeliveriesSound`: `RecordedWasSent`, `TwiceOnlyAfterFailure`, `NoTaskVanishes`,
`DeadLettersAreFinal`. `SelectedPortsWereFree`: while a worktree keeps an offset it has selected, only stacks started after its look
hold ports of its window; two that look before either starts do select one window, and the second to start is refused the ports.
`NoStackIsLost`: `DownLeavesNothing`,
`StacksAreNamed`. `ServicesSettle`: `LockReleased`, `TasksSettle`, `GoneAreReaped`.

*Projects.* `ChoicesAreKept`: `RequirementsClosed` and `UpdatesKeepChoices`, wherever a command dies.
`FindingsAreSound`: `ReportsWhatChanged` and `FindingsRestorable`. `UntouchedFilesAreRendered`: without half-finished
commands, what nobody touched is what a fresh render gives.

*Audit.* `CheckpointsSound`: types, `RecordsWhole`, `StagesLoseNothing`. `OwnCheckpointsBind`.
`StagesAreQueues`: the refinement of `WorkQueue` by both stages. `EveryRunEnds`.

*Reviews.* `VerdictsAreEarned`: `FailIsOfThisStage` and `PassIsEarned`. `AuditsBuildOnReviews`:
`DoneIsRecorded`, `ReportIsOwn`, `DeltaContinues`. `ReviewsAreSound`: `RedOnlyByFindings`,
`PassHidesNoFailure`, `CallsBounded`, `OneComment`. `GreenMeansAll`: what exit code 0 of the evaluation stands for, for each
combination of its options. `ReviewsEnd`: `EveryCommandEnds`,
`EveryPushIsAggregated`.

Why the bounds are enough to be interesting. Two removals and a third request are the least with
which removals race a grant; the starts include two admins and a role that is inactive. Two
invitations of one account, two accounts' worth of keys and three requests make every cycle of two
waits, and a third that runs into it. Three replicas are two releases and a third that comes after
either. Three DSNs on an endpoint with a cap of two make each insertion evict; the second endpoint
tells its keys from the LRU order of all. With TTL 1 an entry expires while a caller is in flight,
and one is read at the very instant of its expiry. One day of cooling and two days let a slug cool,
be free, and be claimed over its expired row. Three operations are two deployments and one that
fails between them, each with its rollback; of four releases two migrate, so that a rollback may meet a schema ahead of its image
with no contract floor between them, and with one. One loss and one retry are enough for a message to be
delivered again at every stage of its handling. Three runs of an audit are one that leaves something
behind, one that begins afresh and leaves something, one that resumes. Two commands on a project are
one that is broken off and the next. The histories stop at the named bounds (`MaxTime`,
`MaxVersion`, `MaxEpoch`, `MaxOrders`, `MaxOperations`, `MaxCommands`, `MaxRuns`, ...); that, and
requests that arrive once, is why runs stop, and why the configurations switch the deadlock check
off: a system with nothing left to do has stopped rightly. Lock cycles are properties instead
(`RequestsAnswered`, `OneReleaseNeverDeadlocks`, `ServicesSettle`). Symmetry is used in `tenancy`
only, which checks no liveness: over requests, callers, slugs nobody owns at the start.

Fairness, always weak, of what a scheduler runs without anyone's doing: a request that was begun
(`Serve`, `AuthStep`; the server's workers run on, a statement that waits for a lock goes on when it
gets it) and PostgreSQL's detector (`DeadlockAbort`, `BreakDeadlock`); a thread inside
`get`; Celery's workers (`Work`); the handlers of the event loop (`Handler`); a command that runs
(`Proceed`); the jobs of a workflow that were queued and the aggregation; the audit's pipeline as a
whole (calls of the back end return or raise, threads run). Nothing makes anyone send a request,
call `get`, deliver a webhook, start or resume a command, or give a connection back. Safety never
uses fairness. As every run has finitely many requests, "each one that was begun ends" is stated as
"again and again none is open" (`[]<>`).

## 4. The proofs

Each `...Proofs` module proves, for every value of the constants that meets the named assumptions,
`Spec => []Inv` for an inductive `Inv`, and from it the invariants the runs check. The argument is
the same everywhere: `Init => Inv`; one lemma per action, with a step for each part of `Inv` the action
can disturb; then PTL. TLC checked each `Inv` before it was proved. With that, every safety
property of every passing run is a theorem: all invariants, the action properties and the
refinement. What the inductive invariants say, and why the properties need it:

*Access* (`RoleServiceProofs`, `AccessProofs`).

* **RoleService.** `TypeCorrect`, `RemovalsAudited`, `CountedRemovals`. The properties
  need what every request knows and whether that is still so. Each part of `RequestOK`
  says it for one kind of statement: rows a request holds locked are live (`LockedRowsLive`), a
  request past the count still holds the rows it counted (`PastTheCount`), and a request removing a
  member holds the membership row, so nobody can grant to the member between the capture and the
  CASCADE (`RemoverHoldsMembership`).
* **AuthSessions.** `AuthTypes`, `RequestsWhole`, `ResetsEndSessions`. Locks exclude one another
  (`LocksExclusive`); a redemption keeps its invitation locked and fresh until it commits; a login has
  seen the password it was given; every session of a reset's account is one the reset is
  about to delete, or of an account a login has overtaken (`AskOK`). The last is what makes the exception in
  `ResetEndsSessions` exact: no other interleaving leaves an old session.
* **RouteGuard.** `GuardTypes`, `GuardTheorem`, `QuietTheorem`, for every well-formed expression, of any
  size. What the request has been told was so at some moment since it arrived (`ToldOK`, `PermitsOK`), and if
  nothing has changed it is all there is (`QuietOK`). For the evaluation two lemmas relate a recursive function
  to a set: of a satisfied expression, the satisfied nodes bear each other out (`SatisfiedIsEntitled`); and
  of an entitled one, the last unsatisfied node among those that bear it out cannot exist
  (`EntitledIsSatisfied`). That the recursion defines a function at all is `VerdictsDefined`: children come
  after their parent, so the places that have no verdicts yet have a last one (`LastPlace`).
* **AuthzSeed.** `SeedTypes`, `SeedsTheorem`, `NoDeadlockTheorem`. Each replica's view holds what it
  has been through of its catalog (`PermsOK`, `UnlistedOK`, `RolesOK`, `DelistedOK`), and it holds no
  row before its catalog's first permission (`HoldsFirst`). A replica past its upserts has locked every
  permission of its catalog, one of which every other catalog has too; so only one at a time is
  between its sweep and its commit (`SeedsAlone`), and its snapshots stay true. Replicas of one release ask
  for the same first permission, so one that waits for it holds nothing, and no cycle of waits closes.
* `AccessParts`: a behaviour of the composition is one of each part; `AccessTypesTheorem` and `AccessTheorem`
  carry all of these over to it.

*Tenancy* (`TenancyProofs`).

* **DsnCache.** `CacheTypesTheorem`, `Freshness`, `BoundedStaleness`. An entry is no older than the floor
  of its tenant, and neither is what a caller has been told, unless the epoch has moved since it
  missed, in which case it is not stored.
* **TenantLifecycle.** `TenantTypesTheorem`, `EventsTheorem`, `Reactivations`, `CoolingTheorem`,
  `FreshRename`. What each open transaction has seen is related to what is so now (`SawOK`,
  `RenameOK`, `LockOK`).
* **TenantDatabases.** `DatabasesTypesTheorem`, `DatabasesTheorem`, `ControlTheorem`. What a run reports at its end must
  have been kept since each step: no database goes back (`Forward`, `Undisturbed`), none of a tenant with a row is taken
  away, and `RunOK` says what the run knows of the shared databases and of each tenant it has gone through. `DatabaseOK`
  ties a provisioning to the database it has reached.
* `TenancyTypesTheorem` for the three side by side.

*Services* (`EngineRegistryProofs`, `ServicesProofs`).

* **EngineRegistry.** `TypeCorrect`, `CapTheorem`, `NoLeakTheorem`, `SoundCacheTheorem`,
  `FailsClosedTheorem`, together `RegistrySafety`. The invariant says who holds the lock where, that a built engine is in
  exactly one pair of hands, that the LRU order lists the cached DSNs once each, and that the cap is
  exceeded by nobody, the storing thread included.
* **Deliveries.** `DeliveriesTypes`, `DeliveriesSafety`. Where a task is: its tokens, the messages of it and the
  workers busy with one, are one per life (`TokensDiffer`); a task that was sent has a token or an end
  (`Accounted`); and its ends and tokens together are no more than one and the losses (`Counted`), so that only a
  lost worker has a task end twice.
* **Deployment.** `DeployTypes`, `DeploySafety`, `PlacementTheorem`. What an operation places is in the history
  first (`RecordsOK`), a step that passed a host has done its work there (`PlacementOK`), the schema is that of
  an honest promotion's image while it rolls (`SchemaOK`), the release that was live can be found at the depth the rollback
  will look (`UndoOK`), and a history is no longer than two records an operation (`CountOK`).
* **Worktrees.** `WorktreesTypes`, `PortsTheorem`, `NoStackLostTheorem`. A command that is past its plan is about
  the stack its worktree's `.env` names (`CommandOK`); what is held now and was not seen at a look has been started since, and so has what
  holds a port of a selected window (`HeldOK`); a stack with
  volumes is named by whoever made it, or was abandoned (`StackOK`).
* **Connections.** `SocketsTypes` (its other property is liveness). `ServicesTypeTheorem` for the five side by side.

*Projects* (`ProjectLifecycleProofs`). `LifecycleTypes`, `ChoicesTheorem`, `FilesTheorem`, `FindingsTheorem`. Choices survive
because of what is true between any two writes of a command: what an update carries in its head
includes every choice (`UpdateInv`), a removal has taken nothing but what it was asked to (`RemoveInv`), and an
answers file that has an identity has the choices (`IdentityInv`). For the files, each place of a command says
of each file whether it is as before, as after, or on its way (`FileInv`), and the manifest of a project at rest
agrees with the disk but for what was touched (`ManifestInv`).

*Audit* (`AuditPipelineProofs`). `TypeCorrect`, `WholeRecords`, `NothingLost`, `OwnResults`, `CheckpointSafety`, and the
refinement `StagesImplementQueues`. `RunOK` says what a run knows at each place, `DiskOK` what the files hold
of each other, `PoolOK` that items are in one place and only the lock's holder appends (this is
what makes `seen[i] = done[stage]`, so that replacing `run-state.json` loses nothing), `CompleteOK`
that a stage this audit began is planned for all of it, `OwnOK` that an audit that met no older
checkpoint works on its own results.

*Reviews* (`ReviewsProofs`).

* **EvalRun.** `EvalTypes`, `GreenTheorem`. Only those at work when the first error stops the pool can fail
  after it, so there are at most as many errors as threads (`ErrorsOK`); nothing ends without a result but after an
  error (`ResultOK`); nothing is begun without a back end (`BegunOK`); and exit code 0 is that of a skipped run or the code computed from what all
  targets left (`ExitOK`).
* **ReviewJobs.** `JobsTypes`, `ReviewsTheorem`. Per place, what a job has spent and said (`JobOK`); an aggregation
  has seen jobs that are over (`AggregateOK`); until two of them meet, the comment one has found is still the one there is
  (`StickyOK`).
* **ReviewGate.** `GateTypes`, `AuditsTheorem`, `VerdictsTheorem`. Of an audit's checkpoint, what it calls done has a
  record and has been shown all there was (`AuditOK`); what a preserved report lists was shown every commit up to it
  (`BaselinesOK`); the records of a gate are of what was staged when it began (`GateOK`).
* `ReviewsTypesTheorem` for the three side by side.

Assumptions: the constants are sets; `None`-like values differ from the values beside them; caps,
bounds and the TTL are naturals (caps positive, the set of DSNs and that of the evaluated agents finite); starting
states have the type of a state and its foreign keys; plans and situations are of the program's kinds; expressions are
well formed, which their constructors enforce; reviewers and edits have different ids; the revisions of releases do not go
back; hosts are listed once; catalogs are as §2 says. TLC evaluates each on every run of its module.

Only model-checked: the four temporal properties under fairness (`RequestsAnswered`, `ServicesSettle`,
`EveryRunEnds`, `ReviewsEnd`): neither liveness under fairness nor `ENABLED` is in reach of the proof
system.

## 5. Where the code and its own words part

Runs show these:

* `roles_orphan`: `MTA/authz/service.py:4-7` promises that a tenant is never left without an admin. A
  revocation counts the admins of a snapshot and afterwards selects the row it deletes; a row
  granted in between was never counted, and can be the last. `CountedRemovalsKeepAnAdmin` is what does hold.
* `auth_reset`: `MTA/routes/auth.py:20-22`: a credential reset must not leave old sessions live. A login
  that has verified the old password commits its session after the reset has deleted the others, and a
  login that renews an outdated hash writes the old password back. `ResetEndsSessions` is what does hold.
* `projects_chain`: `CLI/migrations.py` computes the chain of revisions anew from the batteries that are
  present. A battery added later is put in the middle, under a revision the deployed database is already
  at, and its migration never runs; `CLI/migrations.py:51-52` and `documentation/using/batteries-add-remove.md:49` promise otherwise.
* `deploy_forward`: `TPL/infra/deploy/strategy.sh.jinja:110-111` has the expand-only contract guarantee that "the prior image runs
  against the current (forward) schema", and `README.md.jinja:126-127` that every migration is additive, "so the prior image runs against the
  current schema". An image-only rollback calls `__target_place_image` without the `__target_migrate` that sets `_migrated`, so
  `compose-ssh.sh:84-85` runs `upgrade head` from the prior image, to which the schema's revision is unknown: Alembic fails and nothing is
  placed, whatever the guard has let through. `PlacedOnItsSchema` is what does hold: what is placed meets its own schema.
* `deploy_rollback`: `TPL/infra/deploy/README.md.jinja:68` says a rollback reverts to the immediately prior
  release. A deployment that fails before it has recorded itself rolls back past the release that runs.
  `RollbackUndoes` is what does hold.
* `migrate_placeholder`: sign-up and `POST /tenants` make a tenant active on a placeholder DSN; the fan-out
  takes it for one with a database, its failure fails the start of the container
  (`db/control/repository.py:49`, and an assessment in `docs/superpowers/assessments` that says the same).

These are stated in the modules as properties that do not hold, and are in no run (the names are the
definitions'):

* `NoPhantomRevoke` (`RoleService`): two revocations of a role that is not the admin's both find the row;
  the second deletes nothing and records an event (`service.py:186-187`).
* `WorstCaseHolds` (`EngineRegistry`): connections of evicted engines stay open until they are returned and
  are not in the figure `engine_registry.py:27-28` calls the worst case.
* `OldSlugCools`, `ReactivationAudited` (`TenantLifecycle`): of two renames at once the second retires the slug it
  read, not the one it replaces (`registry.py:228`); provisioning resumes a suspended tenant without the
  audit `models/tenant.py:138` speaks of.
* `NoStaleBinding` (`AuditPipeline`): a fresh run that stops before stage 2 leaves an older audit's changelist under the new
  stamp, which a resume loads (`review/audit/pipeline.py:28-31`). `OwnCheckpointsBind` is what does hold.
* `BundlesAreTheCode` (`AuthzSeed`): a permission taken out of a bundle keeps its row (`authz/seed.py:7`: the code
  catalog is the source of truth).
* `ToolsAreNoDrift` (`ReviewGate`): `CLI/review/analyze.py:268` allows `Read`, `Grep`, `Glob`; the agents' tool loop records
  `read_file`, `grep`, `glob`: every agentic review counts as drift and fails the gate.
* `CodeLeavesFirst` (`Deployment`): `README.md.jinja:37-38` says a rollback reverses the migration "**after** the code is rolled
  back"; `strategy.sh.jinja:145-147` reverses it first, under the code that still runs, as line 68 of the same document has it.
* `SchemaLeads` (`Deployment`): after some failures a host runs code on a schema older than its own.
* `DeltaSinceLastReview`, `ResumeCompletes` (`ReviewGate`): a preserved report may list an agent that never finished,
  and a delta then starts after commits it was never shown; a resumed audit may end without a review of every
  agent it was asked for.

And these were met while modelling, and are part of the models:

* Seeding: the domain of a role is not updated by the upsert; `seed.py:155-157` speaks of DO NOTHING where the code
  does DO UPDATE; a replica of an old release that starts late re-seeds the old catalog.
* Guard: a resolver that is synchronous and hangs is not timed out (`deps.py:172-178`).
* Deployment: rolling back twice does not toggle, as `README.md.jinja:68` has it; redeploying an older tag
  fails at `upgrade head`; an image promoted from another checkout is recorded with the wrong revision; when Alembic fails
  in `repo_head_revision` the revision recorded is empty; the histories of the hosts may differ.
* Gate and audit: `cli.py:884-887` says "Resume with `framework gate`", which never resumes; `audit --resume` without a
  run state raises; a gate that raises exits 0 with the old marker in place; a regrade grades whatever findings are on disk; the design's
  delta (`docs/superpowers/specs/2026-05-30-audit-semantics-design.md:35`) starts at the last review, the code's at the newest report that lists the agent.
* Review jobs: the check run ignores that findings were acknowledged; the aggregation passes in silence when a job died
  before its file; overlapping aggregations may post two comments.
* Evaluation: without a back end and without `--require-key` it prints "skipped" and exits 0 with nothing scored (`cli.py:1205-1215`);
  `SECRETS.md:42` and line 3 of `.github/workflows/agent-evals.yml` say that the scheduled run asks for a key, which lines 39-43 of that workflow have
  dropped; a bad fixture whose `expect.json` does not name a file is left out in silence (`evals.py:331-337`), and an agent that has no others then counts as one without fixtures; recall is 1.0 of an agent without bad fixtures.
* Projects: `write_manifest` after upskill and downskill takes an edited locked file for the new truth; a crash between
  `record_batteries` and `write_manifest` leaves a manifest of other batteries; a crash in an upgrade and an upskill after it mix two
  releases; downskill does not ask for the matching release under `FRAMEWORK_NO_DISPATCH`.
* Tenants: a suspended tenant is skipped by the fan-out and comes back at an old revision; provisioning does
  nothing on a tenant that is active on a placeholder; a provisioning that is rolled back leaves its database behind.
* Worktrees: two branches of one label share a stack; `up` on a renamed branch abandons the stack of the old name (the design, `docs/superpowers/specs/2026-06-28-fwk74-worktree-provisioning-design.md:32`, says there is nothing to leak);
  two that look before either starts select one window, and an `up` that was broken off keeps its selection: what `worktree.py:287-291` says of a stale offset
  holds only if `down` has run; a lost race for ports is retried as it is until `down`; `up` without `--ports` moves the stack to offset 0.
* Tasks: a worker lost between the dead-letter row and its acknowledgement gives a second row (`dead_letter.py:28`:
  "One row per task"). Sockets: a broadcast that meets a peer that has gone ends the sender's connection with it.

## 6. Not modelled

* `change_role` (called by no route), platform roles, `render_pool_gauges`; cycles of row locks among four or more renames.
* The control-plane engine's double-checked lock: it is disposed at shutdown only, so no running service reaches its race.
* `APP/resilience` and its observability (tenacity's and pybreaker's state machines), the LLM and agents batteries (sequential calls of a
  third-party SDK), data-store repositories, GraphQL, item routes, health and metrics: one statement or one counter each.
* Compose files, observability configuration, generated tests, the other deployment targets (stubs).
* Of the modelled parts: hashing, tokens and throttling; pruning of inbox rows and dead letters; the beat
  schedule; `provision_tenant(run_physical=False)` (`provision.py:70`, `87-89`: it activates without a database; no shipped route asks for it) and the
  resumption of a suspended tenant on a placeholder DSN; the two `SELECT`s of a user's permissions (`authz/resolution.py:32-40`), taken as one
  read, and the reads of a resource's grants for each leaf of an expression (`deps.py:322-359`), taken at once; how the evaluation's back end is resolved (a choice); file-system errors and two audits at once in one directory; duplicate ids when a reconciliation names one
  reviewer twice; prompts, parsing of answers and cost accounting; scorecards; the wizard, argument parsing, the
  dispatch to an installed version, the dogfood scripts (subprocesses around the commands).

## 7. Plan

*Done:* a module for every component of §1 that keeps state or interleaves, over six runs; proofs of every
invariant, every action property and the refinement that they check.

*Next:* A composition of `TenantLifecycle`, `DsnCache` and `EngineRegistry` that implements a map from tenants
to databases. An abstract specification of a delivery, at least once and once where its row is committed,
implemented by `Deliveries`, and one of a seed, whose step is the commit of a catalog, implemented by
`AuthzSeed`.
