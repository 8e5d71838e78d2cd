------------------------------ MODULE MCServices ------------------------------
(***************************************************************************)
(* What a deployed project runs, and what brings it up: the engines of its *)
(* tenants, its webhooks and tasks, its sockets, a deployment, and the     *)
(* stacks of its worktrees.  They share no state: a behaviour is one of    *)
(* one part, `part', while the others rest.                                *)
(***************************************************************************)
EXTENDS EngineRegistry, Deployment, Deliveries, Connections, Worktrees, TLC

CONSTANTS d1, d2, d3, d4, d5, busy, quiet, full, p1, p2

VARIABLE part

\* Three DSNs on one endpoint, one more than fit; one on a second, and one on a
\* third whose server cannot carry the plan.
MCEndpointOf == (d1 :> busy) @@ (d2 :> busy) @@ (d3 :> busy) @@ (d4 :> quiet) @@ (d5 :> full)

\* The second release brings a migration, the third none, the fourth one that is
\* a contract (Floors); a run of the workflow may be given the first image with
\* the second's checkout.
MCRevision   == <<1, 2, 2, 3>>
MCHosts      == <<"h1", "h2">>
MCPromotions == {[image |-> i, checkout |-> i] : i \in DOMAIN MCRevision}
                \cup {[image |-> 1, checkout |-> 2]}

\* One event, delivered twice.
MCEventOf == (p1 :> "k") @@ (p2 :> "k")

\* Two branches whose label is the same.
MCLabel == ("feat/a" :> "x") @@ ("feat-a" :> "x") @@ ("main" :> "y")

servicesVars == <<part, registryVars, deployVars, deliveryVars, socketVars, worktreeVars>>

ServicesInit ==
  /\ part \in {"engines", "deploy", "deliveries", "sockets", "worktrees"}
  /\ RegistryInit /\ DeployInit /\ DeliveriesInit /\ SocketsInit /\ WorktreesInit
  /\ part # "deploy" => ~tenants

EnginesRest    == UNCHANGED registryVars
DeployRests    == UNCHANGED deployVars
DeliveriesRest == UNCHANGED deliveryVars
SocketsRest    == UNCHANGED socketVars
WorktreesRest  == UNCHANGED worktreeVars

ServicesNext ==
  /\ UNCHANGED part
  /\ \/ /\ part = "engines" /\ RegistryNext
        /\ DeployRests /\ DeliveriesRest /\ SocketsRest /\ WorktreesRest
     \/ /\ part = "deploy" /\ DeployNext
        /\ EnginesRest /\ DeliveriesRest /\ SocketsRest /\ WorktreesRest
     \/ /\ part = "deliveries" /\ DeliveriesNext
        /\ EnginesRest /\ DeployRests /\ SocketsRest /\ WorktreesRest
     \/ /\ part = "sockets" /\ SocketsNext
        /\ EnginesRest /\ DeployRests /\ DeliveriesRest /\ WorktreesRest
     \/ /\ part = "worktrees" /\ WorktreesNext
        /\ EnginesRest /\ DeployRests /\ DeliveriesRest /\ SocketsRest

\* A part at rest has nothing begun for fairness to end.
ServicesSpec ==
  /\ ServicesInit /\ [][ServicesNext]_servicesVars
  /\ \A t \in Threads : WF_registryVars(Get(t))
  /\ DeliveriesFairness /\ SocketsFairness

-----------------------------------------------------------------------------

\* Every variable of the five parts keeps its type.
ServicesTypes == /\ RegistryTypeOK /\ DeployTypeOK /\ DeliveriesTypeOK /\ SocketsTypeOK
                 /\ WorktreesTypeOK

\* What a service begins it ends: a get() of the registry gives its lock back, a
\* task comes to rest, and a socket whose peer has gone is reaped.
ServicesSettle == LockReleased /\ TasksSettle /\ GoneAreReaped
===============================================================================
