------------------------------ MODULE Deployment ------------------------------
(***************************************************************************)
(* Deploying a generated project: infra/deploy/strategy.sh with its target *)
(* compose-ssh, several app hosts on one database, run by the workflows    *)
(* deploy-staging and deploy-prod, which roll back whenever a step fails,  *)
(* or by an operator.  The runs are serialized; each may fail at every     *)
(* step, with or without the step's effect, or be cancelled.               *)
(*                                                                         *)
(* Release n is its image; its migrations lead the database to revision    *)
(* Revision[n] (Alembic's chain; later releases have the later revisions). *)
(***************************************************************************)
EXTENDS Naturals, FiniteSets, Sequences, SequencesExt

CONSTANTS
  Revision,      \* Revision[n]: the revision release n brings
  Hosts,         \* DEPLOY_HOSTS, a sequence
  Promotions,    \* the runs of a workflow: [image, checkout]
  Floors,        \* the revisions marked `# deploy: contract'
  MaxOperations  \* bound

ASSUME DeploymentAssumption ==
  /\ Revision \in Seq(Nat \ {0}) /\ Revision # <<>>
  /\ \A m, n \in DOMAIN Revision : m <= n => Revision[m] <= Revision[n]
  /\ Hosts \in Seq(STRING) /\ Hosts # <<>> /\ IsInjective(Hosts) /\ MaxOperations \in Nat
  /\ Promotions \subseteq [image : DOMAIN Revision, checkout : DOMAIN Revision]

VARIABLES
  tenants,    \* the project has the multitenantauth battery
  schema,     \* the revision of the shared database, 0: empty
  running,    \* running[h]: the image h runs, 0: none
  releases,   \* releases[h]: the file releases-<env>.tsv on h: [image, rev], rev 0: none named
  doing,      \* the operation that runs: "deploy", "rollback" or "idle"
  step,       \* where it is
  passed,     \* the hosts it has gone through in this step
  target,     \* [image, rev]: what it is to place
  checkout,   \* the release the runner has checked out
  operations, \* begun so far
  last,       \* history: how the last operation ended
  before,     \* history: what was live when the workflow began, 0: no one release
  recorded    \* history: the workflow's release is in the first host's file

plane      == <<schema, running, releases>>
kept       == <<checkout, operations, before, tenants>>
deployVars == <<plane, doing, step, passed, target, last, recorded, kept>>

Images  == DOMAIN Revision
HostSet == {Hosts[i] : i \in DOMAIN Hosts}
First   == Hosts[1]
History == releases[First]     \* __target_release_history
Nothing == [image |-> 0, rev |-> 0]

\* The release that is live: the history's last, when every host runs it.
Live == IF History # <<>> /\ \A h \in HostSet : running[h] = Last(History).image
        THEN Last(History).image ELSE 0

Enter(s) == step' = s /\ passed' = 0

MoveOn(s) == Enter(s) /\ UNCHANGED <<doing, target, last, kept>>

NextHost == passed' = passed + 1 /\ UNCHANGED <<doing, step, target, last, kept>>

End(result) ==
  /\ doing' = "idle" /\ Enter("none") /\ target' = Nothing /\ last' = result
  /\ UNCHANGED kept

\* `set -e': a step that fails ends the operation, and a workflow that was
\* deploying rolls back ("if: failure()").
Fail ==
  IF doing = "deploy"
  THEN /\ doing' = "rollback" /\ Enter("choosing") /\ target' = Nothing
       /\ UNCHANGED <<last, kept>>
  ELSE End("failed")

-----------------------------------------------------------------------------
(* strategy.sh deploy.  A step that has had its effect may still fail: the *)
(* connection is lost, the host does not become healthy.                   *)

Deploy(p) ==
  /\ doing = "idle" /\ operations < MaxOperations
  /\ doing' = "deploy" /\ Enter("preparing")
  /\ target' = [image |-> p.image, rev |-> Revision[p.checkout]] /\ checkout' = p.checkout
  /\ operations' = operations + 1 /\ last' = "none"
  /\ before' = Live /\ recorded' = FALSE
  /\ UNCHANGED <<plane, tenants>>

\* uv sync, check_alert_secrets, repo_head_revision: several heads are
\* refused, but when alembic itself fails no revision is named.
Prepare ==
  /\ step = "preparing"
  /\ \E rev \in {target.rev, 0} : target' = [target EXCEPT !.rev = rev]
  /\ Enter("recording")
  /\ UNCHANGED <<plane, doing, last, recorded, kept>>

\* __target_record_release, on one host after the other.
RecordRelease ==
  /\ step = "recording" /\ passed < Len(Hosts)
  /\ releases' = [releases EXCEPT ![Hosts[passed + 1]] = Append(@, target)]
  /\ recorded' = (recorded \/ doing = "deploy")
  /\ NextHost \/ Fail
  /\ UNCHANGED <<schema, running>>

\* The release is recorded before it is placed; a rollback, after.
Recorded ==
  /\ step = "recording" /\ passed = Len(Hosts)
  /\ IF doing = "deploy" THEN MoveOn("migrating") ELSE End("rolled back")
  /\ UNCHANGED <<plane, recorded>>

\* Alembic, run from an image, must know the revision the database is at.
Knows(image) == schema <= Revision[image]

\* Mutant: `_migrated' is taken for set.
NoUpgrade ==
  /\ step = "migrating"
  /\ MoveOn("rolling")
  /\ UNCHANGED <<plane, recorded>>

\* _migrate_once upgrade head, from the image that is to be placed.
Upgrade ==
  /\ step = "migrating" /\ Knows(target.image)
  /\ schema' = Revision[target.image]
  /\ MoveOn("rolling") \/ Fail
  /\ UNCHANGED <<running, releases, recorded>>

\* _roll_host: up -d, then the host's /health.
RollHost ==
  /\ step = "rolling" /\ passed < Len(Hosts)
  /\ running' = [running EXCEPT ![Hosts[passed + 1]] = target.image]
  /\ NextHost \/ Fail
  /\ UNCHANGED <<schema, releases, recorded>>

\* Mutant: a rollback is not recorded.
RolledUnrecorded ==
  /\ step = "rolling" /\ passed = Len(Hosts)
  /\ IF doing = "deploy" THEN MoveOn("checking") ELSE End("rolled back")
  /\ UNCHANGED <<plane, recorded>>

Rolled ==
  /\ step = "rolling" /\ passed = Len(Hosts)
  /\ MoveOn(IF doing = "deploy" THEN "checking" ELSE "recording")
  /\ UNCHANGED <<plane, recorded>>

\* await-healthy, smoke, sniff, E2E, load.
Accept ==
  /\ step = "checking"
  /\ End("deployed")
  /\ UNCHANGED <<plane, recorded>>

-----------------------------------------------------------------------------
(* strategy.sh rollback                                                    *)

\* By an operator.
Rollback ==
  /\ doing = "idle" /\ operations < MaxOperations
  /\ doing' = "rollback" /\ Enter("choosing")
  /\ operations' = operations + 1 /\ last' = "none" /\ before' = 0
  /\ UNCHANGED <<plane, target, checkout, recorded, tenants>>

\* rollback_guard.py: refused over a floor between the revision to land on and
\* the checkout's head, or when the checkout does not know that revision.
Refused(rev) == \/ rev \notin 1..Revision[checkout]
                \/ \E f \in Floors : rev < f /\ f <= Revision[checkout]

\* Mutant: the last release.
Latest == Last(History)

\* The release before the last.
Previous == History[Len(History) - 1]

Choose ==
  /\ step = "choosing" /\ Len(History) >= 2
  /\ tenants => ~Refused(Previous.rev)
  /\ target' = Previous
  /\ Enter(IF tenants THEN "migrating" ELSE "downgrading")
  /\ UNCHANGED <<plane, doing, last, recorded, kept>>

\* __target_migrate downgrade, from the last release's image, which must know
\* both revisions; `_migrated' spares the image its upgrade.
Downgrade ==
  /\ step = "downgrading" /\ Knows(Last(History).image) /\ target.rev \in 1..schema
  /\ schema' = target.rev
  /\ MoveOn("rolling") \/ Fail
  /\ UNCHANGED <<running, releases, recorded>>

-----------------------------------------------------------------------------
\* A step fails before it has an effect.
Break == doing # "idle" /\ Fail /\ UNCHANGED <<plane, recorded>>

\* The workflow is cancelled, or its runner lost: nothing is rolled back.
Cancel == doing # "idle" /\ End("cancelled") /\ UNCHANGED <<plane, recorded>>

DeployInit ==
  /\ tenants \in BOOLEAN
  /\ schema = 0 /\ running = [h \in HostSet |-> 0] /\ releases = [h \in HostSet |-> <<>>]
  /\ doing = "idle" /\ step = "none" /\ passed = 0 /\ target = Nothing
  /\ checkout = 1 /\ operations = 0
  /\ last = "none" /\ before = 0 /\ recorded = FALSE

Operation == \/ Prepare \/ RecordRelease \/ Recorded \/ Upgrade \/ RollHost \/ Rolled \/ Accept
             \/ Choose \/ Downgrade

DeployNext == \/ \E p \in Promotions : Deploy(p)
              \/ Rollback \/ Operation \/ Break \/ Cancel

DeploySpec == DeployInit /\ [][DeployNext]_deployVars

-----------------------------------------------------------------------------
\* An operation records at most twice: a deployment and its rollback.
DeployTypeOK ==
  /\ tenants \in BOOLEAN /\ schema \in Nat
  /\ running \in [HostSet -> Images \cup {0}] /\ before \in Images \cup {0}
  /\ \A h \in HostSet : /\ releases[h] \in Seq([image : Images, rev : Nat])
                        /\ Len(releases[h]) <= 2 * operations
  /\ doing \in {"idle", "deploy", "rollback"} /\ passed \in 0..Len(Hosts)
  /\ target = Nothing \/ target.image \in Images
  /\ checkout \in Images /\ operations \in 0..MaxOperations
  /\ last \in {"none", "deployed", "rolled back", "failed", "cancelled"}

\* What a host runs is in the history a rollback reads, wherever a deployment
\* stopped: no release is live that rollback does not know.
RunningIsTracked ==
  \A h \in HostSet : running[h] # 0 => \E i \in DOMAIN History : History[i].image = running[h]

\* Every revision on record is its image's.
Honest == \A i \in DOMAIN History : History[i].rev = Revision[History[i].image]

\* What is placed, by a deployment or a rollback and whatever failed before, is
\* placed on exactly the schema of its own release, as long as the record is
\* honest.  The code brings the schema there first, up or down, and what it
\* cannot bring it there for it does not place: an image-only rollback places
\* nothing once the schema is ahead of the prior image, and a downgrade is made
\* under the code that is still running.  The documents promise otherwise of
\* both: PriorImageRuns and CodeLeavesFirst.
PlacedOnItsSchema ==
  [][\A h \in HostSet : running'[h] # running[h] /\ Honest => schema = Revision[running'[h]]]_deployVars

\* After an operation that succeeded, every host runs the current release that
\* every host's history names.
CurrentIsLive ==
  last \in {"deployed", "rolled back"} =>
    \A h, g \in HostSet : releases[g] # <<>> /\ running[h] = Last(releases[g]).image

\* A workflow that found one release live, and rolled back after it had
\* recorded its own, leaves that release on every host.
RollbackUndoes ==
  last = "rolled back" /\ before # 0 /\ recorded => Live = before

\* The same of any workflow that rolled back.
RollbackRestores == last = "rolled back" /\ before # 0 => Live = before

\* An image-only rollback that the guard lets through runs the prior image on
\* the forward schema (strategy.sh and the README of infra/deploy).  It does
\* not: place_image runs `upgrade head' from that image first, to which the
\* schema's revision is unknown.
PriorImageRuns ==
  tenants /\ doing = "rollback" /\ step = "migrating" => Knows(target.image)

\* A rollback reverses the migration after the code is rolled back (the README
\* of infra/deploy).  The code reverses it first.
CodeLeavesFirst ==
  [][schema' < schema => \A h \in HostSet : running[h] = target.image]_deployVars

\* The schema leads: no host runs code whose migrations are not there.
SchemaLeads == \A h \in HostSet : running[h] # 0 => Revision[running[h]] <= schema

\* What an operation leaves behind, wherever those before it have failed: the
\* history names what runs, and a rollback undoes what its workflow recorded.
DeploySound == RunningIsTracked /\ CurrentIsLive /\ RollbackUndoes
===============================================================================
