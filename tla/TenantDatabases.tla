---------------------------- MODULE TenantDatabases ----------------------------
(***************************************************************************)
(* The databases of the tenants and their revisions: the migration fan-out *)
(* (multitenantauth/tenancy/migrate.py), run when a container starts or by *)
(* an operator before a roll, from images of several releases, beside the  *)
(* provisioning, signup, suspension and reactivation of tenants.  Alembic's*)
(* `upgrade head' is one step: it leads a database to the image's own head *)
(* or fails, as it always does on a revision the image does not know.      *)
(***************************************************************************)
EXTENDS Naturals, FiniteSets

CONSTANTS
  Clients,       \* the tenants
  Releases,      \* numbers over 1: the image of release n brings revision n
  Migrations,    \* the processes that run migrate.py
  MaxOrders      \* bound: provisionings, suspensions and reactivations

ASSUME DatabasesAssumption == Releases \subseteq Nat \ {0, 1} /\ MaxOrders \in Nat

VARIABLES
  standing,   \* standing[t]: the status of t's row; "none": no row is committed
  dsn,        \* dsn[t]: "own", or the "placeholder" of a signup
  database,   \* database[t]: 0: there is none, 1: it is empty, else its revision
  planes,     \* the revisions of the control plane's and the default database
  report,     \* report[r]: [step, image, targets, left, failed]
  setup,      \* setup[t]: the provisioning of t: [step, image]
  orders,     \* provisionings, suspensions and reactivations so far
  early       \* history: the tenants suspended before they were provisioned

tenantRows   == <<standing, dsn, setup, orders, early>>
databaseVars == <<tenantRows, database, planes, report>>

Unstarted == [step |-> "none", image |-> 0, targets |-> {}, left |-> {}, failed |-> {}]
NoSetup   == [step |-> "none", image |-> 0]

\* alembic upgrade head: a missing database has no answer, and a later
\* revision is unknown to the image.
MayUpgrade(image, revision) == revision # 0 /\ revision <= image

Writes(r, rec) == report' = [report EXCEPT ![r] = rec] /\ UNCHANGED tenantRows

Ended(rec, failures) == [rec EXCEPT !.step = "ended", !.failed = @ \cup failures]

-----------------------------------------------------------------------------
(* upgrade_all, and main's report                                          *)

Begin(r, image) ==
  /\ report[r].step = "none"
  /\ Writes(r, [Unstarted EXCEPT !.step = "control", !.image = image])
  /\ UNCHANGED <<database, planes>>

\* Alembic on one of the shared databases.
Upgraded(r, which) == /\ MayUpgrade(report[r].image, planes[which])
                      /\ planes' = [planes EXCEPT ![which] = report[r].image]

\* Mutant: the failure is recorded, and the run goes on.
UpgradeControlOrGoOn(r) ==
  /\ report[r].step = "control" /\ UNCHANGED database
  /\ \/ Upgraded(r, "control") /\ Writes(r, [report[r] EXCEPT !.step = "default"])
     \/ /\ UNCHANGED planes
        /\ Writes(r, [report[r] EXCEPT !.step = "default", !.failed = {"control"}])

\* When the control plane fails, no tenant is touched.
UpgradeControl(r) ==
  /\ report[r].step = "control" /\ UNCHANGED database
  /\ \/ Upgraded(r, "control") /\ Writes(r, [report[r] EXCEPT !.step = "default"])
     \/ UNCHANGED planes /\ Writes(r, Ended(report[r], {"control"}))

\* A failure of the default database is recorded, and the run goes on.
UpgradeDefault(r) ==
  /\ report[r].step = "default" /\ UNCHANGED database
  /\ \/ Upgraded(r, "default") /\ Writes(r, [report[r] EXCEPT !.step = "listing"])
     \/ /\ UNCHANGED planes
        /\ Writes(r, [report[r] EXCEPT !.step = "listing", !.failed = @ \cup {"default"}])

Active == {t \in Clients : standing[t] = "active"}

\* active_tenant_dsns: a failure of it counts as the control plane's.
Enumerate(r) ==
  /\ report[r].step = "listing" /\ UNCHANGED <<database, planes>>
  /\ \/ Writes(r, [report[r] EXCEPT !.step = "tenants", !.targets = Active, !.left = Active])
     \/ Writes(r, Ended(report[r], {"control"}))

\* Mutant: the tenant that failed is reported as "ok".
MigrateAsOk(r, t) ==
  /\ report[r].step = "tenants" /\ t \in report[r].left /\ UNCHANGED planes
  /\ Writes(r, [report[r] EXCEPT !.left = @ \ {t}])
  /\ \/ UNCHANGED database
     \/ /\ MayUpgrade(report[r].image, database[t])
        /\ database' = [database EXCEPT ![t] = report[r].image]

\* migrate_tenant; one that fails is recorded, and the others are still tried.
MigrateTenant(r, t) ==
  /\ report[r].step = "tenants" /\ t \in report[r].left /\ UNCHANGED planes
  /\ \/ /\ MayUpgrade(report[r].image, database[t])
        /\ database' = [database EXCEPT ![t] = report[r].image]
        /\ Writes(r, [report[r] EXCEPT !.left = @ \ {t}])
     \/ /\ UNCHANGED database
        /\ Writes(r, [report[r] EXCEPT !.left = @ \ {t}, !.failed = @ \cup {t}])

Tell(r) ==
  /\ report[r].step = "tenants" /\ report[r].left = {} /\ UNCHANGED <<database, planes>>
  /\ Writes(r, Ended(report[r], {}))

-----------------------------------------------------------------------------
(* The tenants                                                             *)

Rows(t, status, step, image) ==
  /\ standing' = [standing EXCEPT ![t] = status]
  /\ setup' = [setup EXCEPT ![t] = [step |-> step, image |-> image]]
  /\ UNCHANGED <<dsn, planes, report, early>>

\* register_tenant by itself, committed: a provisioning that is to be resumed.
Register(t) ==
  /\ standing[t] = "none" /\ setup[t] = NoSetup
  /\ Rows(t, "provisioning", "none", 0) /\ UNCHANGED <<database, orders>>

\* provision_tenant, from an image of any release: it adds the row of the
\* tenant, which its caller commits at the end, or resumes one not active.
OpenProvisioning(t, image) ==
  /\ setup[t] = NoSetup /\ standing[t] # "active" /\ dsn[t] = "own"
  /\ orders < MaxOrders /\ orders' = orders + 1
  /\ Rows(t, standing[t], "creating", image) /\ UNCHANGED database

CreateDatabase(t) ==
  /\ setup[t].step = "creating"
  /\ database' = [database EXCEPT ![t] = IF @ = 0 THEN 1 ELSE @]
  /\ Rows(t, standing[t], "migrating", setup[t].image) /\ UNCHANGED orders

MigrateNew(t) ==
  /\ setup[t].step = "migrating" /\ MayUpgrade(setup[t].image, database[t])
  /\ database' = [database EXCEPT ![t] = setup[t].image]
  /\ Rows(t, standing[t], "activating", setup[t].image) /\ UNCHANGED orders

\* Mutant: the tenant is active before it has a database.
ActivateFirst(t) ==
  /\ setup[t].step \in {"creating", "activating"}
  /\ Rows(t, "active", "none", 0) /\ UNCHANGED <<database, orders>>

ActivateTenant(t) ==
  /\ setup[t].step = "activating"
  /\ Rows(t, "active", "none", 0) /\ UNCHANGED <<database, orders>>

\* The provisioning fails, and is rolled back; it may be run again.  The
\* database of a row that was not committed is left behind: the next row has
\* another id, and so another database.
GiveUp(t) ==
  /\ setup[t] # NoSetup /\ Rows(t, standing[t], "none", 0)
  /\ database' = [database EXCEPT ![t] = IF standing[t] = "none" THEN 0 ELSE @]
  /\ UNCHANGED orders

\* signup, and the route that provisions: active at once, on a placeholder.
SignUp(t) ==
  /\ standing[t] = "none" /\ setup[t] = NoSetup
  /\ standing' = [standing EXCEPT ![t] = "active"] /\ dsn' = [dsn EXCEPT ![t] = "placeholder"]
  /\ UNCHANGED <<database, planes, report, setup, orders, early>>

Suspend(t) ==
  /\ standing[t] \in {"provisioning", "active"} /\ orders < MaxOrders
  /\ standing' = [standing EXCEPT ![t] = "suspended"] /\ orders' = orders + 1
  /\ early' = IF standing[t] = "provisioning" THEN early \cup {t} ELSE early
  /\ UNCHANGED <<dsn, database, planes, report, setup>>

Reactivate(t) ==
  /\ standing[t] = "suspended" /\ orders < MaxOrders
  /\ standing' = [standing EXCEPT ![t] = "active"] /\ orders' = orders + 1
  /\ UNCHANGED <<dsn, database, planes, report, setup, early>>

-----------------------------------------------------------------------------
DatabasesInit ==
  /\ standing = [t \in Clients |-> "none"] /\ dsn = [t \in Clients |-> "own"]
  /\ database = [t \in Clients |-> 0]
  /\ planes = [control |-> 1, default |-> 1]
  /\ report = [r \in Migrations |-> Unstarted] /\ setup = [t \in Clients |-> NoSetup]
  /\ orders = 0 /\ early = {}

UpgradeAll(r) == \/ UpgradeControl(r) \/ UpgradeDefault(r) \/ Enumerate(r) \/ Tell(r)
                 \/ \E t \in Clients : MigrateTenant(r, t)

ProvisionTenant(t) == CreateDatabase(t) \/ MigrateNew(t) \/ ActivateTenant(t) \/ GiveUp(t)

DatabasesNext ==
  \/ \E r \in Migrations : (\E image \in Releases : Begin(r, image)) \/ UpgradeAll(r)
  \/ \E t \in Clients : \/ \E image \in Releases : OpenProvisioning(t, image)
                        \/ Register(t) \/ ProvisionTenant(t) \/ SignUp(t)
                        \/ Suspend(t) \/ Reactivate(t)

DatabasesSpec == DatabasesInit /\ [][DatabasesNext]_databaseVars

-----------------------------------------------------------------------------
DatabasesTypeOK ==
  /\ standing \in [Clients -> {"none", "provisioning", "active", "suspended"}]
  /\ dsn \in [Clients -> {"own", "placeholder"}]
  /\ database \in [Clients -> Releases \cup {0, 1}]
  /\ planes \in [{"control", "default"} -> Releases \cup {1}]
  /\ \A r \in Migrations :
       /\ report[r].step \in {"none", "control", "default", "listing", "tenants", "ended"}
       /\ report[r].left \subseteq report[r].targets /\ report[r].targets \subseteq Clients
       /\ report[r].failed \subseteq report[r].targets \cup {"control", "default"}
  /\ orders \in 0..MaxOrders /\ early \subseteq Clients

\* What a run reports is so: of what it has gone through, all it does not name
\* as failed is at its release or beyond, whatever other runs, provisionings
\* and failures came between; and one tenant's failure costs no other its
\* migration.
ReportIsTrue ==
  \A r \in Migrations :
    report[r].step = "ended" /\ "control" \notin report[r].failed =>
      /\ planes.control >= report[r].image
      /\ "default" \notin report[r].failed => planes.default >= report[r].image
      /\ \A t \in report[r].targets \ report[r].failed : database[t] >= report[r].image

\* No run touches a tenant while the control plane is behind its release.
ControlLeads ==
  [][\A r \in Migrations, t \in Clients :
       report'[r] # report[r] /\ database'[t] # database[t]
         => planes.control >= report[r].image]_databaseVars

\* A tenant that is active has a migrated database, but if it signed up, or was
\* suspended before its provisioning was over.
ActiveHasDatabase ==
  \A t \in Clients : standing[t] = "active" /\ database[t] <= 1 =>
    t \in early \/ dsn[t] = "placeholder"

\* The tenants a run goes through have a database to migrate.
TargetsHaveDatabases ==
  \A r \in Migrations : \A t \in report[r].left : t \notin early => database[t] # 0

\* Reports and statuses tell the truth about the databases.
DatabasesAreAsTold == ReportIsTrue /\ ActiveHasDatabase
===============================================================================
