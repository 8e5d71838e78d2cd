------------------------------- MODULE EvalRun --------------------------------
(***************************************************************************)
(* `framework eval` (cli.py, eval_agents): a pool of threads scores the    *)
(* agents against their fixtures.  A thread that meets an exhausted back   *)
(* end, an API error or anything unexpected stops the others; the first    *)
(* error in err is the run's.  What a run answers is its exit code, and 0  *)
(* is what a release leans on: what it stands for depends on what the run  *)
(* was asked, for one without a back end is skipped and answers 0 as well. *)
(***************************************************************************)
EXTENDS Integers, FiniteSets, Sequences, FiniteSetsExt

CONSTANTS
  Scored,        \* the targets of the run
  Corpora,       \* what is in the fixtures' directories: [bad, good, drifted, unnamed]
  Workers,       \* --concurrency
  Repeat,        \* --repeat
  RecallMin, FpMax   \* the thresholds, per cent

ASSUME EvalAssumption ==
  /\ IsFiniteSet(Scored)
  /\ Corpora \subseteq [Scored -> [bad : Nat, good : Nat, drifted : Nat, unnamed : Nat]]
  /\ Workers \in Nat \ {0} /\ Repeat \in Nat \ {0}
  /\ RecallMin \in Nat /\ FpMax \in Nat

VARIABLES
  fixtures, \* fixtures[a]: their numbers, fixed for the run
  backend,  \* resolve_backend has found one
  required, \* [key: --require-key, fixtures: --require-fixtures]
  task,     \* task[a]: "queued", "scoring", "over"
  stop,     \* the event
  err,      \* the errors, in the order they were recorded
  results,  \* results[a]: "none" or what _score_one_agent returned
  exit,     \* the exit code, or -1
  met       \* history: met[a]: scoring a met its thresholds

given    == <<fixtures, backend, required>>
evalVars == <<given, task, stop, err, results, exit, met>>

Errors == {"exhausted", "api", "unknown agent", "crash"}

\* h of n in per cent, rounded as it is printed.
Percent(h, n) == (200 * h + n) \div (2 * n)

\* score_agent over the hits of all repeats; no fixture of a kind, no fault.
Passed(a, hits, blocks) ==
  LET f == fixtures[a]
      recall == IF f.bad = 0 THEN 100 ELSE Percent(hits, f.bad * Repeat)
      fp     == IF f.good = 0 THEN 0 ELSE Percent(blocks, f.good * Repeat)
  IN  recall >= RecallMin /\ fp <= FpMax

\* load_fixtures leaves out, in silence, the bad cases whose expect.json does
\* not name the seeded file (unnamed): an agent that has no others has none.
HasFixtures(a) == fixtures[a].bad + fixtures[a].good + fixtures[a].drifted > 0

-----------------------------------------------------------------------------
\* Mutant: whatever was required, a run without a back end is skipped.
SkipRequired ==
  /\ exit = -1 /\ ~backend
  /\ exit' = 0
  /\ UNCHANGED <<given, task, stop, err, results, met>>

\* No back end: an error if one is required, else the run says it is skipped,
\* and that is no error.
SkipRun ==
  /\ exit = -1 /\ ~backend
  /\ exit' = IF required.key THEN 1 ELSE 0
  /\ UNCHANGED <<given, task, stop, err, results, met>>

\* Before the pool: an option is refused (2), or the thresholds, a fixture or a
\* base cannot be loaded or rendered, which nothing catches (1).
PrepareFails ==
  /\ exit = -1 /\ backend /\ \A a \in Scored : task[a] = "queued"
  /\ exit' \in {1, 2}
  /\ UNCHANGED <<given, task, stop, err, results, met>>

ScoreNext(a) ==
  /\ exit = -1 /\ backend
  /\ task[a] = "queued" /\ ~stop
  /\ Cardinality({b \in Scored : task[b] = "scoring"}) < Workers
  /\ task' = [task EXCEPT ![a] = "scoring"]
  /\ UNCHANGED <<given, stop, err, results, exit, met>>

\* The event is set: what is queued is not begun.
Skip(a) ==
  /\ task[a] = "queued" /\ stop
  /\ task' = [task EXCEPT ![a] = "over"]
  /\ UNCHANGED <<given, stop, err, results, exit, met>>

\* _score_one_agent, over the fixtures that can be realized; an answer that
\* cannot be parsed is no findings.
Score(a) ==
  /\ task[a] = "scoring"
  /\ \E hits \in 0..(fixtures[a].bad * Repeat), blocks \in 0..(fixtures[a].good * Repeat) :
       LET passed == Passed(a, hits, blocks) IN
       /\ met' = [met EXCEPT ![a] = HasFixtures(a) /\ passed]
       /\ results' = [results EXCEPT ![a] =
            IF ~HasFixtures(a) THEN "missing" ELSE IF passed THEN "passed" ELSE "failed"]
  /\ task' = [task EXCEPT ![a] = "over"]
  /\ UNCHANGED <<given, stop, err, exit>>

\* Mutant: those it was written for; the executor swallows the others.
CaughtExpected == Errors \ {"crash"}

\* The errors a thread records: all of them.
Caught == Errors

Fail(a) ==
  /\ task[a] = "scoring"
  /\ \E e \in Errors :
       /\ err'  = IF e \in Caught THEN Append(err, e) ELSE err
       /\ stop' = (stop \/ e \in Caught)
  /\ task' = [task EXCEPT ![a] = "over"]
  /\ UNCHANGED <<given, results, exit, met>>

Drifted == {a \in Scored : results[a] \in {"passed", "failed"} /\ fixtures[a].drifted > 0}

\* Mutant: the scores first, drifted fixtures only in words.
CodeWithoutDrift ==
  IF err # <<>> THEN CASE err[1] = "exhausted" -> 4 [] err[1] = "api" -> 3 [] OTHER -> 1
  ELSE IF \E a \in Scored : results[a] = "failed" THEN 1 ELSE 0

\* The answer: the first error's, then drifted fixtures, then the scores.
Code ==
  IF err # <<>> THEN CASE err[1] = "exhausted" -> 4 [] err[1] = "api" -> 3 [] OTHER -> 1
  ELSE IF Drifted # {} THEN 5
  ELSE IF \/ \E a \in Scored : results[a] = "failed"
          \/ required.fixtures /\ \E a \in Scored : results[a] = "missing" THEN 1
  ELSE 0

Tell ==
  /\ exit = -1 /\ backend /\ \A a \in Scored : task[a] = "over"
  /\ exit' = Code
  /\ UNCHANGED <<given, task, stop, err, results, met>>

EvalInit ==
  /\ fixtures \in Corpora /\ backend \in BOOLEAN
  /\ required \in [key : BOOLEAN, fixtures : BOOLEAN]
  /\ task = [a \in Scored |-> "queued"] /\ stop = FALSE /\ err = <<>>
  /\ results = [a \in Scored |-> "none"] /\ exit = -1
  /\ met = [a \in Scored |-> FALSE]

EvalNext == \/ SkipRun \/ PrepareFails
            \/ \E a \in Scored : ScoreNext(a) \/ Skip(a) \/ Score(a) \/ Fail(a)
            \/ Tell

EvalSpec == EvalInit /\ [][EvalNext]_evalVars

EvalTypeOK ==
  /\ fixtures \in Corpora /\ backend \in BOOLEAN
  /\ required \in [key : BOOLEAN, fixtures : BOOLEAN] /\ task \in [Scored -> {"queued", "scoring", "over"}] /\ stop \in BOOLEAN
  /\ results \in [Scored -> {"none", "passed", "failed", "missing"}]
  /\ exit \in {-1, 0, 1, 2, 3, 4, 5} /\ Len(err) <= Workers

\* What exit code 0 means.  Either nothing was scored, for want of a back end
\* that --require-key did not ask for; or every target was scored to its end,
\* with every fixture of it that load_fixtures takes, and met its thresholds,
\* but for those without such a fixture, unless --require-fixtures asked for
\* them.  With both options 0 means that all was scored and met: no thread's
\* error, no skipped agent and no drifted fixture hides behind a green run.
GreenMeansAll ==
  exit = 0 =>
    \/ ~backend /\ ~required.key
    \/ /\ backend
       /\ \A a \in Scored : \/ met[a] /\ fixtures[a].drifted = 0
                            \/ ~HasFixtures(a) /\ ~required.fixtures
===============================================================================
