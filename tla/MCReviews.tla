------------------------------ MODULE MCReviews -------------------------------
(***************************************************************************)
(* Three commands that run reviewers and share no state: the gate and the  *)
(* audit of a checkout, the jobs of a pull request, the scoring of the     *)
(* agents.  A behaviour is one of one part, `part', while the others rest. *)
(***************************************************************************)
EXTENDS ReviewGate, ReviewJobs, EvalRun, TLC

CONSTANTS security, coverage, docs

VARIABLE part

\* A reviewer that blocks, and one that explores the tree and is advisory.
MCStagings == {{<<"thresholds">>}, {<<"readme">>, Prompt(security)}, {<<"template">>}}
MCFindings == (security :> {"none", "blocking", "acknowledged"}) @@ (coverage :> {"blocking"})

\* The second push changes nothing that concerns coverage.
MCTriggered == <<{security, coverage}, {security}>>

\* An agent with fixtures of both kinds, one of whose fixtures one may have
\* drifted, and one with none, or none that names its seeded file.
Fixtures(b, g, d, u) == [bad |-> b, good |-> g, drifted |-> d, unnamed |-> u]
MCCorpora == {(security :> Fixtures(2, 1, 0, 0)) @@ (coverage :> Fixtures(1, 1, d, 0))
              @@ (docs :> Fixtures(0, 0, 0, u)) : d \in {0, 1}, u \in {0, 1}}

ReviewsInit == /\ part \in {"gate", "jobs", "eval"}
               /\ GateInit /\ JobsInit /\ EvalInit
               /\ part # "eval" =>
                    /\ backend /\ required = [key |-> FALSE, fixtures |-> FALSE]
                    /\ fixtures[coverage].drifted = 0 /\ fixtures[docs].unnamed = 0

ReviewsNext ==
  /\ UNCHANGED part
  /\ \/ part = "gate" /\ GateNext /\ UNCHANGED <<jobVars, evalVars>>
     \/ part = "jobs" /\ JobsNext /\ UNCHANGED <<gateVars, evalVars>>
     \/ part = "eval" /\ EvalNext /\ UNCHANGED <<gateVars, jobVars>>

reviewsVars == <<part, gateVars, jobVars, evalVars>>

\* No command is begun, no push made and no score taken in a part at rest.
ReviewsSpec == /\ ReviewsInit /\ [][ReviewsNext]_reviewsVars
               /\ WF_gateVars(Proceed) /\ JobsFairness

-----------------------------------------------------------------------------

\* Every variable of the three parts keeps its type.
ReviewsTypes == GateTypeOK /\ JobsTypeOK /\ EvalTypeOK

\* Every command that is not killed ends, and every push is aggregated.
ReviewsEnd == EveryCommandEnds /\ EveryPushIsAggregated
===============================================================================
