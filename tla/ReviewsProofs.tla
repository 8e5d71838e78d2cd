----------------------------- MODULE ReviewsProofs -----------------------------
(***************************************************************************)
(* Proofs about the commands that run reviewers, for any agents, any       *)
(* triggers and thresholds, any paths a developer stages, and any bounds:  *)
(* the scoring of the agents (EvalRun), the jobs of a pull request         *)
(* (ReviewJobs), the gate and the audit of a checkout (ReviewGate), and    *)
(* the three as MCReviews puts them side by side.                          *)
(***************************************************************************)
EXTENDS MCReviews, TLAPS, FiniteSetTheorems, WellFoundedInduction

-----------------------------------------------------------------------------
(* EvalRun                                                                 *)

Scoring == {a \in Scored : task[a] = "scoring"}

\* The first error stops the pool, and only those at work can fail after it.
ErrorsOK ==
  /\ err \in Seq(Errors)
  /\ stop \in BOOLEAN /\ (stop <=> err # <<>>)
  /\ Len(err) + Cardinality(Scoring) <= Workers

\* A result tells what the thresholds said, and nothing ends without one but by
\* an error or after one.
ResultOK(a) ==
  /\ results[a] = "passed" <=> met[a]
  /\ results[a] = "missing" => ~HasFixtures(a)
  /\ results[a] = "none" /\ task[a] = "over" => stop

\* Without a back end nothing is begun, and nothing stops before a task is over.
BegunOK ==
  /\ ~backend => \A a \in Scored : task[a] = "queued"
  /\ stop => \E a \in Scored : task[a] = "over"

\* The three ways to an exit code: without a back end, before the pool, after it.
ExitOK ==
  exit # -1 =>
    \/ ~backend /\ exit = IF required.key THEN 1 ELSE 0
    \/ backend /\ exit \in {1, 2} /\ \A a \in Scored : task[a] = "queued"
    \/ backend /\ exit = Code /\ \A a \in Scored : task[a] = "over"

EvalInv ==
  /\ fixtures \in Corpora /\ backend \in BOOLEAN
  /\ required \in [key : BOOLEAN, fixtures : BOOLEAN]
  /\ task \in [Scored -> {"queued", "scoring", "over"}]
  /\ results \in [Scored -> {"none", "passed", "failed", "missing"}]
  /\ met \in [Scored -> BOOLEAN]
  /\ exit \in {-1, 0, 1, 2, 3, 4, 5}
  /\ ErrorsOK
  /\ \A a \in Scored : ResultOK(a) /\ (task[a] # "over" => results[a] = "none")
  /\ BegunOK /\ ExitOK

LEMMA EvalInitially == EvalInit => EvalInv
<1> SUFFICES ASSUME EvalInit PROVE EvalInv
  OBVIOUS
<1>1. Scoring = {}
  BY DEF Scoring, EvalInit
<1>2. ErrorsOK
  <2>1. err \in Seq(Errors) /\ Len(err) = 0 /\ err = <<>>
    BY DEF EvalInit
  <2>2. stop \in BOOLEAN /\ ~stop
    <3>1. stop = FALSE
      BY DEF EvalInit
    <3> QED
      BY <3>1, Zenon
  <2>3. Cardinality(Scoring) = 0
    BY <1>1, FS_EmptySet
  <2>4. Workers \in Nat \ {0}
    BY EvalAssumption
  <2> QED
    BY <2>1, <2>3, <2>4, <2>2 DEF ErrorsOK
<1>3. \A a \in Scored : ResultOK(a) /\ (task[a] # "over" => results[a] = "none")
  BY DEF ResultOK, EvalInit
<1>4. BegunOK /\ ExitOK
  <2>1. stop = FALSE /\ exit = -1 /\ \A a \in Scored : task[a] = "queued"
    BY DEF EvalInit
  <2> QED
    BY <2>1 DEF BegunOK, ExitOK
<1> QED
  BY <1>2, <1>3, <1>4 DEF EvalInv, EvalInit

\* Scoring is finite, and an agent that begins or ends counts for one.
LEMMA ScoringFinite == IsFiniteSet(Scoring) /\ Cardinality(Scoring) \in Nat
<1>1. Scoring \subseteq Scored
  BY DEF Scoring
<1> QED
  BY <1>1, EvalAssumption, FS_Subset, FS_CardinalityType

LEMMA ScoringBegins ==
  ASSUME EvalInv, NEW a \in Scored, task[a] = "queued", task' = [task EXCEPT ![a] = "scoring"]
  PROVE  Cardinality(Scoring') = Cardinality(Scoring) + 1
<1>1. Scoring' = Scoring \cup {a} /\ a \notin Scoring
  BY DEF EvalInv, Scoring
<1> QED
  BY <1>1, ScoringFinite, FS_AddElement

LEMMA ScoringEnds ==
  ASSUME EvalInv, NEW a \in Scored, task[a] = "scoring", task' = [task EXCEPT ![a] = "over"]
  PROVE  /\ Cardinality(Scoring') = Cardinality(Scoring) - 1
         /\ Cardinality(Scoring') \in Nat
<1>1. Scoring' = Scoring \ {a} /\ a \in Scoring
  BY DEF EvalInv, Scoring
<1>2. IsFiniteSet(Scoring') /\ Cardinality(Scoring') = Cardinality(Scoring) - 1
  BY <1>1, ScoringFinite, FS_RemoveElement
<1> QED
  BY <1>2, FS_CardinalityType

\* While a task is at work, or is yet to be passed over, the run goes on.
LEMMA StillRunning ==
  ASSUME EvalInv, NEW a \in Scored,
         task[a] = "scoring" \/ (task[a] = "queued" /\ stop)
  PROVE  exit = -1 /\ backend
<1>1. ~(\A b \in Scored : task[b] = "queued")
  BY DEF EvalInv, BegunOK
<1>2. backend
  BY <1>1 DEF EvalInv, BegunOK
<1>3. ~(\A b \in Scored : task[b] = "over")
  OBVIOUS
<1> QED
  BY <1>1, <1>2, <1>3 DEF EvalInv, ExitOK

\* The errors recorded are errors, and one more is one more.
LEMMA OneMoreError ==
  ASSUME err \in Seq(Errors), NEW e \in Errors
  PROVE  /\ Append(err, e) \in Seq(Errors) /\ Append(err, e) # <<>>
         /\ Len(Append(err, e)) = Len(err) + 1 /\ Len(err) \in Nat
OBVIOUS

LEMMA ScoreNextStep ==
  ASSUME EvalInv, NEW a \in Scored, ScoreNext(a)
  PROVE  EvalInv'
<1>1. Cardinality(Scoring') = Cardinality(Scoring) + 1 /\ Cardinality(Scoring) < Workers
  BY ScoringBegins DEF ScoreNext, Scoring
<1>2. err = <<>>
  BY DEF ScoreNext, EvalInv, ErrorsOK
<1>3. ErrorsOK'
  BY <1>1, <1>2, ScoringFinite, EvalAssumption DEF ScoreNext, EvalInv, ErrorsOK
<1>4. \A b \in Scored : ResultOK(b)' /\ (task'[b] # "over" => results'[b] = "none")
  BY DEF ScoreNext, given, EvalInv, ResultOK, HasFixtures
<1>5. BegunOK' /\ ExitOK'
  BY DEF ScoreNext, given, BegunOK, ExitOK
<1> QED
  BY <1>3, <1>4, <1>5 DEF ScoreNext, given, EvalInv

LEMMA SkipStep ==
  ASSUME EvalInv, NEW a \in Scored, Skip(a)
  PROVE  EvalInv'
<1>1. Scoring' = Scoring
  BY DEF Skip, EvalInv, Scoring
<1>2. ErrorsOK'
  BY <1>1 DEF Skip, EvalInv, ErrorsOK
<1>3. \A b \in Scored : ResultOK(b)' /\ (task'[b] # "over" => results'[b] = "none")
  BY DEF Skip, given, EvalInv, ResultOK, HasFixtures
<1>4. BegunOK' /\ ExitOK'
  BY StillRunning DEF Skip, given, EvalInv, BegunOK, ExitOK
<1> QED
  BY <1>2, <1>3, <1>4 DEF Skip, given, EvalInv

LEMMA ScoreStep ==
  ASSUME EvalInv, NEW a \in Scored, Score(a)
  PROVE  EvalInv'
<1>1. ErrorsOK'
  <2>1. Cardinality(Scoring') = Cardinality(Scoring) - 1
    BY ScoringEnds DEF Score
  <2>2. Len(err) \in Nat
    BY DEF EvalInv, ErrorsOK
  <2> QED
    BY <2>1, <2>2, ScoringFinite, EvalAssumption DEF Score, EvalInv, ErrorsOK
<1>2. PICK passed \in BOOLEAN :
        /\ met' = [met EXCEPT ![a] = HasFixtures(a) /\ passed]
        /\ results' = [results EXCEPT ![a] =
             IF ~HasFixtures(a) THEN "missing" ELSE IF passed THEN "passed" ELSE "failed"]
  <2>1. \A hits, blocks : Passed(a, hits, blocks) \in BOOLEAN
    BY DEF Passed
  <2> QED
    BY <2>1 DEF Score
<1>3. \A b \in Scored : HasFixtures(b) \in BOOLEAN /\ HasFixtures(b)' = HasFixtures(b)
  BY DEF Score, given, HasFixtures
<1>4. /\ results' \in [Scored -> {"none", "passed", "failed", "missing"}]
      /\ met' \in [Scored -> BOOLEAN]
  BY <1>2, <1>3 DEF EvalInv
<1>5. \A b \in Scored : ResultOK(b)' /\ (task'[b] # "over" => results'[b] = "none")
  BY <1>2, <1>3 DEF Score, EvalInv, ResultOK
<1>6. BegunOK' /\ ExitOK'
  BY StillRunning DEF Score, given, EvalInv, BegunOK, ExitOK
<1> QED
  BY <1>1, <1>4, <1>5, <1>6 DEF Score, given, EvalInv

LEMMA FailStep ==
  ASSUME EvalInv, NEW a \in Scored, Fail(a)
  PROVE  EvalInv'
<1>1. PICK e \in Errors : err' = Append(err, e) /\ stop'
  BY DEF Fail, Caught
<1>2. ErrorsOK'
  <2>1. Cardinality(Scoring') = Cardinality(Scoring) - 1
    BY ScoringEnds DEF Fail
  <2>2. Len(err') = Len(err) + 1 /\ Len(err) \in Nat /\ err' \in Seq(Errors) /\ err' # <<>>
    BY <1>1, OneMoreError DEF EvalInv, ErrorsOK
  <2>3. stop' \in BOOLEAN
    BY <1>1 DEF Fail
  <2> QED
    BY <1>1, <2>1, <2>2, <2>3, ScoringFinite, EvalAssumption DEF EvalInv, ErrorsOK
<1>3. \A b \in Scored : ResultOK(b)' /\ (task'[b] # "over" => results'[b] = "none")
  BY <1>1 DEF Fail, given, EvalInv, ResultOK, HasFixtures
<1>4. BegunOK' /\ ExitOK'
  BY StillRunning DEF Fail, given, EvalInv, BegunOK, ExitOK
<1> QED
  BY <1>2, <1>3, <1>4 DEF Fail, given, EvalInv

LEMMA TellStep ==
  ASSUME EvalInv, Tell
  PROVE  EvalInv'
<1>1. Code \in {0, 1, 3, 4, 5} /\ Code' = Code
  BY DEF Tell, given, Code, Drifted
<1>2. Scoring' = Scoring /\ ErrorsOK'
  BY DEF Tell, EvalInv, ErrorsOK, Scoring
<1>3. \A b \in Scored : ResultOK(b)' /\ (task'[b] # "over" => results'[b] = "none")
  BY DEF Tell, given, EvalInv, ResultOK, HasFixtures
<1>4. BegunOK' /\ ExitOK'
  BY <1>1 DEF Tell, given, EvalInv, BegunOK, ExitOK
<1> QED
  BY <1>1, <1>2, <1>3, <1>4 DEF Tell, given, EvalInv

\* The two ends before the pool.
LEMMA EarlyEnd ==
  ASSUME EvalInv, SkipRun \/ PrepareFails
  PROVE  EvalInv'
<1>1. UNCHANGED <<given, task, stop, err, results, met>> /\ exit' \in {0, 1, 2}
  BY DEF SkipRun, PrepareFails
<1>2. Scoring' = Scoring /\ ErrorsOK'
  BY <1>1 DEF EvalInv, ErrorsOK, Scoring
<1>3. \A b \in Scored : ResultOK(b)' /\ (task'[b] # "over" => results'[b] = "none")
  BY <1>1 DEF given, EvalInv, ResultOK, HasFixtures
<1>4. BegunOK'
  BY <1>1 DEF given, EvalInv, BegunOK
<1>5. ExitOK'
  <2>1. CASE SkipRun
    BY <2>1 DEF SkipRun, given, ExitOK
  <2>2. CASE PrepareFails
    BY <2>2 DEF PrepareFails, given, ExitOK
  <2> QED
    BY <2>1, <2>2
<1> QED
  BY <1>1, <1>2, <1>3, <1>4, <1>5 DEF given, EvalInv

LEMMA EvalStuttering ==
  ASSUME EvalInv, UNCHANGED evalVars
  PROVE  EvalInv'
<1>1. Code' = Code /\ Scoring' = Scoring
  BY DEF evalVars, given, Code, Drifted, Scoring
<1>2. ErrorsOK'
  BY <1>1 DEF evalVars, given, EvalInv, ErrorsOK
<1>3. \A b \in Scored : ResultOK(b)' /\ (task'[b] # "over" => results'[b] = "none")
  BY DEF evalVars, given, EvalInv, ResultOK, HasFixtures
<1>4. BegunOK' /\ ExitOK'
  BY <1>1 DEF evalVars, given, EvalInv, BegunOK, ExitOK
<1> QED
  BY <1>1, <1>2, <1>3, <1>4 DEF evalVars, given, EvalInv

LEMMA EvalStep == EvalInv /\ [EvalNext]_evalVars => EvalInv'
BY EarlyEnd, ScoreNextStep, SkipStep, ScoreStep, FailStep, TellStep, EvalStuttering DEF EvalNext

\* The bookkeeping of a run of the evaluation: its results, its errors and its
\* exit code.
THEOREM EvalInvariance == EvalSpec => []EvalInv
BY EvalInitially, EvalStep, PTL DEF EvalSpec

LEMMA EvalTyping == EvalInv => EvalTypeOK
<1> SUFFICES ASSUME EvalInv PROVE EvalTypeOK
  OBVIOUS
<1>1. Len(err) \in Nat
  BY DEF EvalInv, ErrorsOK
<1>2. Len(err) <= Workers /\ stop \in BOOLEAN
  BY <1>1, ScoringFinite, EvalAssumption DEF EvalInv, ErrorsOK
<1> QED
  BY <1>2 DEF EvalInv, EvalTypeOK

\* There are no more errors than workers, whatever their order and number of
\* threads that fail at once: the first error stops the pool.
THEOREM EvalTypes == EvalSpec => []EvalTypeOK
BY EvalInvariance, EvalTyping, PTL

\* What exit code 0 stands for, for any number of workers, any corpus, any
\* thresholds and any options: a run without a back end that was not to require
\* one, or every target scored to its end, within its thresholds and without a
\* drifted fixture, but for those without fixtures where none are required.
THEOREM GreenTheorem == EvalSpec => []GreenMeansAll
<1>1. EvalInv => GreenMeansAll
  <2> SUFFICES ASSUME EvalInv, exit = 0, backend \/ required.key, NEW a \in Scored
               PROVE  /\ backend
                      /\ \/ met[a] /\ fixtures[a].drifted = 0
                         \/ ~HasFixtures(a) /\ ~required.fixtures
    BY DEF GreenMeansAll, EvalInv, ExitOK
  <2>1. backend /\ Code = 0 /\ task[a] = "over"
    BY DEF EvalInv, ExitOK
  <2>2. /\ err = <<>> /\ Drifted = {} /\ \A b \in Scored : results[b] # "failed"
        /\ required.fixtures => results[a] # "missing"
    BY <2>1 DEF Code
  <2>3. results[a] \in {"passed", "missing"}
    BY <2>1, <2>2 DEF EvalInv, ResultOK, ErrorsOK
  <2>4. results[a] = "passed" => ~(fixtures[a].drifted > 0)
    BY <2>2 DEF Drifted
  <2>5. fixtures[a].drifted \in Nat
    BY EvalAssumption DEF EvalInv
  <2>6. CASE results[a] = "passed"
    <3>1. fixtures[a].drifted = 0
      BY <2>4, <2>5, <2>6
    <3>2. met[a]
      BY <2>6 DEF EvalInv, ResultOK
    <3> QED
      BY <2>1, <3>1, <3>2, Zenon
  <2>7. CASE results[a] = "missing"
    <3>1. ~HasFixtures(a)
      BY <2>7 DEF EvalInv, ResultOK
    <3>2. ~required.fixtures
      BY <2>2, <2>7, Zenon
    <3> QED
      BY <2>1, <3>1, <3>2, Zenon
  <2> QED
    BY <2>3, <2>6, <2>7, Zenon
<1> QED
  BY <1>1, EvalInvariance, PTL

-----------------------------------------------------------------------------
(* ReviewJobs                                                              *)

Stages == {"none", "begin", "looping", "asking", "posting", "emitting"} \cup Final
Conclusions == {NoFile, "success", "neutral", "failure"}
Said == {"nothing", "none", "slight", "severe"}

JobsTyped ==
  /\ pushed \in 0..MaxPushes
  /\ job \in [Pushes -> [Reviewers -> Stages]]
  /\ turn \in [Pushes -> [Reviewers -> 0..MaxTurns]]
  /\ recovered \in [Pushes -> [Reviewers -> 0..MaxRecoveries]]
  /\ verdict \in [Pushes -> [Reviewers -> Conclusions]]
  /\ file \in [Pushes -> [Reviewers -> Conclusions]]
  /\ said \in [Pushes -> [Reviewers -> Said]]
  /\ calls \in [Pushes -> [Reviewers -> Nat]]
  /\ agg \in [Pushes -> {"none", "loaded", "listed", "over"}]
  /\ overall \in [Pushes -> {"pass", "fail"}]
  /\ found \in [Pushes -> Nat]
  /\ comments \in Seq([push : Pushes, overall : {"pass", "fail"}])
  /\ raced \in BOOLEAN

\* What a job at each of its places has spent and said.
JobOK(p, a) ==
  /\ job[p][a] = "looping" => calls[p][a] = turn[p][a] /\ turn[p][a] < MaxTurns
  /\ job[p][a] = "asking"  => calls[p][a] <= MaxTurns
  /\ job[p][a] = "posting" => calls[p][a] <= MaxTurns + 1
  /\ job[p][a] \notin {"looping", "asking", "posting"} => calls[p][a] = 0 /\ turn[p][a] = 0
  /\ job[p][a] = "posting" /\ verdict[p][a] = "failure" => a \in Gating /\ said[p][a] = "severe"
  /\ job[p][a] = "over" => file[p][a] = verdict[p][a]
  /\ p > pushed => job[p][a] = "none"

\* An aggregation has seen jobs that are over, and read what they left.
AggregateOK(p) ==
  agg[p] # "none" => overall[p] = Aggregated(p) /\ \A a \in Reviewers : job[p][a] \in Final

CommentOK(c) == agg[c.push] = "over" /\ c.overall = overall[c.push]

\* Until two aggregations meet, what one of them found is still so.
StickyOK ==
  ~raced => /\ Len(comments) <= 1
            /\ \A p, q \in Pushes : agg[p] = "listed" /\ agg[q] = "listed" => p = q
            /\ \A p \in Pushes : agg[p] = "listed" => found[p] = Sticky

JobsInv ==
  /\ JobsTyped
  /\ \A p \in Pushes, a \in Reviewers : JobOK(p, a)
  /\ \A p \in Pushes : AggregateOK(p) /\ found[p] <= Len(comments)
  /\ \A i \in DOMAIN comments : CommentOK(comments[i])
  /\ StickyOK
\* g is f but at job a of push p, where it is v.
At(g, f, p, a, v) ==
  /\ g[p][a] = v
  /\ \A q \in Pushes, b \in Reviewers : q # p \/ b # a => g[q][b] = f[q][b]

LEMMA SetAt ==
  ASSUME NEW S, NEW f \in [Pushes -> [Reviewers -> S]], NEW p \in Pushes, NEW a \in Reviewers,
         NEW v \in S
  PROVE  Set(f, p, a, v) \in [Pushes -> [Reviewers -> S]] /\ At(Set(f, p, a, v), f, p, a, v)
<1>1. Set(f, p, a, v) = [f EXCEPT ![p] = [f[p] EXCEPT ![a] = v]]
  BY DEF Set
<1>2. [f[p] EXCEPT ![a] = v] \in [Reviewers -> S]
  OBVIOUS
<1> QED
  BY <1>1, <1>2 DEF At

\* What it is to set an entry of each of the jobs' variables.
LEMMA SetEntry ==
  ASSUME JobsTyped, NEW p \in Pushes, NEW a \in Reviewers
  PROVE  /\ \A v \in Stages : /\ Set(job, p, a, v) \in [Pushes -> [Reviewers -> Stages]]
                               /\ At(Set(job, p, a, v), job, p, a, v)
         /\ \A v \in Conclusions :
              /\ Set(verdict, p, a, v) \in [Pushes -> [Reviewers -> Conclusions]]
              /\ At(Set(verdict, p, a, v), verdict, p, a, v)
              /\ Set(file, p, a, v) \in [Pushes -> [Reviewers -> Conclusions]]
              /\ At(Set(file, p, a, v), file, p, a, v)
         /\ \A v \in 0..MaxTurns : /\ Set(turn, p, a, v) \in [Pushes -> [Reviewers -> 0..MaxTurns]]
                                   /\ At(Set(turn, p, a, v), turn, p, a, v)
         /\ \A v \in 0..MaxRecoveries :
              Set(recovered, p, a, v) \in [Pushes -> [Reviewers -> 0..MaxRecoveries]]
         /\ \A v \in Nat : /\ Set(calls, p, a, v) \in [Pushes -> [Reviewers -> Nat]]
                            /\ At(Set(calls, p, a, v), calls, p, a, v)
         /\ \A v \in Said : /\ Set(said, p, a, v) \in [Pushes -> [Reviewers -> Said]]
                             /\ At(Set(said, p, a, v), said, p, a, v)
<1>1. ASSUME NEW v \in Stages
      PROVE  /\ Set(job, p, a, v) \in [Pushes -> [Reviewers -> Stages]]
             /\ At(Set(job, p, a, v), job, p, a, v)
  BY SetAt DEF JobsTyped
<1>2. ASSUME NEW v \in Conclusions
      PROVE  /\ Set(verdict, p, a, v) \in [Pushes -> [Reviewers -> Conclusions]]
             /\ At(Set(verdict, p, a, v), verdict, p, a, v)
  BY SetAt DEF JobsTyped
<1>3. ASSUME NEW v \in Conclusions
      PROVE  /\ Set(file, p, a, v) \in [Pushes -> [Reviewers -> Conclusions]]
             /\ At(Set(file, p, a, v), file, p, a, v)
  BY SetAt DEF JobsTyped
<1> DEFINE T == 0..MaxTurns
           R == 0..MaxRecoveries
<1>4. turn \in [Pushes -> [Reviewers -> T]] /\ recovered \in [Pushes -> [Reviewers -> R]]
  BY DEF JobsTyped
<1> HIDE DEF T, R
<1>5. ASSUME NEW v \in T
      PROVE  /\ Set(turn, p, a, v) \in [Pushes -> [Reviewers -> T]]
             /\ At(Set(turn, p, a, v), turn, p, a, v)
  BY <1>4, SetAt
<1>6. ASSUME NEW v \in R PROVE Set(recovered, p, a, v) \in [Pushes -> [Reviewers -> R]]
  BY <1>4, SetAt
<1>7. ASSUME NEW v \in Nat
      PROVE  /\ Set(calls, p, a, v) \in [Pushes -> [Reviewers -> Nat]]
             /\ At(Set(calls, p, a, v), calls, p, a, v)
  BY SetAt DEF JobsTyped
<1>8. ASSUME NEW v \in Said
      PROVE  /\ Set(said, p, a, v) \in [Pushes -> [Reviewers -> Said]]
             /\ At(Set(said, p, a, v), said, p, a, v)
  BY SetAt DEF JobsTyped
<1> USE DEF T, R
<1> QED
  BY <1>1, <1>2, <1>3, <1>5, <1>6, <1>7, <1>8

\* A step of job a of push p leaves the other jobs alone.
Elsewhere(p, a) ==
  \A q \in Pushes, b \in Reviewers : q # p \/ b # a =>
    /\ job'[q][b] = job[q][b] /\ turn'[q][b] = turn[q][b] /\ calls'[q][b] = calls[q][b]
    /\ verdict'[q][b] = verdict[q][b] /\ file'[q][b] = file[q][b] /\ said'[q][b] = said[q][b]

LEMMA JobsInitially == JobsInit => JobsInv
<1> SUFFICES ASSUME JobsInit PROVE JobsInv
  OBVIOUS
<1>1. comments = <<>> /\ Len(comments) = 0 /\ DOMAIN comments = {}
  BY DEF JobsInit
<1>2. JobsTyped
  <2>1. job \in [Pushes -> [Reviewers -> Stages]] /\ pushed \in 0..MaxPushes
    BY JobsAssumption DEF JobsInit, Stages
  <2>2. /\ turn \in [Pushes -> [Reviewers -> 0..MaxTurns]]
        /\ recovered \in [Pushes -> [Reviewers -> 0..MaxRecoveries]]
        /\ calls \in [Pushes -> [Reviewers -> Nat]]
    BY JobsAssumption DEF JobsInit
  <2>3. /\ verdict \in [Pushes -> [Reviewers -> Conclusions]]
        /\ file \in [Pushes -> [Reviewers -> Conclusions]]
    BY DEF JobsInit, Conclusions
  <2>4. said \in [Pushes -> [Reviewers -> Said]]
    BY DEF JobsInit, Said
  <2>5. /\ agg \in [Pushes -> {"none", "loaded", "listed", "over"}]
        /\ overall \in [Pushes -> {"pass", "fail"}] /\ found \in [Pushes -> Nat]
        /\ comments \in Seq([push : Pushes, overall : {"pass", "fail"}])
    BY <1>1 DEF JobsInit
  <2>6. raced \in BOOLEAN
    BY DEF JobsInit
  <2> QED
    BY <2>1, <2>2, <2>3, <2>4, <2>5, <2>6 DEF JobsTyped
<1>3. \A p \in Pushes, a \in Reviewers : JobOK(p, a)
  BY DEF JobOK, JobsInit, Final
<1>4. \A p \in Pushes : AggregateOK(p) /\ found[p] <= Len(comments)
  BY <1>1 DEF AggregateOK, JobsInit
<1>5. StickyOK
  BY <1>1 DEF StickyOK, JobsInit
<1> QED
  BY <1>1, <1>2, <1>3, <1>4, <1>5 DEF JobsInv

\* A step of one job that is neither over nor to come keeps the invariant when it
\* keeps that job's part of it.
LEMMA OneJob ==
  ASSUME JobsInv, NEW p \in Pushes, NEW a \in Reviewers,
         job[p][a] \notin Final \cup {"none"}, Elsewhere(p, a), JobsTyped', JobOK(p, a)',
         UNCHANGED <<pushed, agg, overall, found, comments, raced>>
  PROVE  JobsInv'
<1>1. ASSUME NEW q \in Pushes, NEW b \in Reviewers PROVE JobOK(q, b)'
  <2>1. CASE q = p /\ b = a
    BY <2>1
  <2>2. CASE q # p \/ b # a
    <3>1. JobOK(q, b)
      BY DEF JobsInv
    <3>2. /\ job'[q][b] = job[q][b] /\ turn'[q][b] = turn[q][b] /\ calls'[q][b] = calls[q][b]
          /\ verdict'[q][b] = verdict[q][b] /\ file'[q][b] = file[q][b]
          /\ said'[q][b] = said[q][b] /\ pushed' = pushed
      BY <2>2 DEF Elsewhere
    <3> QED
      BY <3>1, <3>2 DEF JobOK
  <2> QED
    BY <2>1, <2>2
<1>2. ASSUME NEW q \in Pushes PROVE AggregateOK(q)' /\ found'[q] <= Len(comments')
  <2>1. AggregateOK(q) /\ found[q] <= Len(comments)
    BY DEF JobsInv
  <2>2. ASSUME agg[q] # "none"
        PROVE  overall[q] = Aggregated(q)' /\ \A b \in Reviewers : job'[q][b] \in Final
    <3>1. q # p
      BY <2>1, <2>2 DEF AggregateOK
    <3>2. \A b \in Reviewers : job'[q][b] = job[q][b] /\ file'[q][b] = file[q][b]
      BY <3>1 DEF Elsewhere
    <3> QED
      BY <2>1, <2>2, <3>2 DEF AggregateOK, Aggregated
  <2> QED
    BY <2>1, <2>2 DEF AggregateOK
<1>3. (\A i \in DOMAIN comments : CommentOK(comments[i]))'
  BY DEF JobsInv, CommentOK
<1>4. StickyOK'
  BY DEF JobsInv, StickyOK, Sticky
<1> QED
  BY <1>1, <1>2, <1>3, <1>4 DEF JobsInv

LEMMA PushStep ==
  ASSUME JobsInv, Push
  PROVE  JobsInv'
<1> DEFINE n == pushed + 1
           begun == [a \in Reviewers |-> "begin"]
<1>1. n \in Pushes /\ begun \in [Reviewers -> Stages] /\ pushed \in Nat
  BY JobsAssumption DEF JobsInv, JobsTyped, Push, Stages, Pushes
<1>2. /\ job' \in [Pushes -> [Reviewers -> Stages]]
      /\ \A q \in Pushes : job'[q] = IF q = n THEN begun ELSE job[q]
  BY <1>1 DEF JobsInv, JobsTyped, Push
<1>3. JobsTyped'
  <2>1. pushed' \in 0..MaxPushes
    BY JobsAssumption DEF JobsInv, JobsTyped, Push
  <2> QED
    BY <1>2, <2>1 DEF JobsInv, JobsTyped, Push
<1>4. ASSUME NEW q \in Pushes, NEW b \in Reviewers PROVE JobOK(q, b)'
  <2>1. JobOK(q, b) /\ q \in Nat
    BY JobsAssumption DEF JobsInv, Pushes
  <2>2. CASE q = n
    <3>1. job[q][b] = "none" /\ job'[q][b] = "begin"
      BY <1>1, <1>2, <2>1, <2>2 DEF JobOK
    <3> QED
      BY <1>1, <2>1, <2>2, <3>1 DEF JobOK, Push, Final
  <2>3. CASE q # n
    <3>1. job'[q][b] = job[q][b] /\ (q > pushed' => q > pushed)
      BY <1>1, <1>2, <2>1, <2>3 DEF Push
    <3> QED
      BY <2>1, <3>1 DEF JobOK, Push
  <2> QED
    BY <2>2, <2>3
<1>5. ASSUME NEW q \in Pushes PROVE AggregateOK(q)' /\ found'[q] <= Len(comments')
  <2>1. AggregateOK(q) /\ found[q] <= Len(comments) /\ \A b \in Reviewers : JobOK(q, b)
    BY DEF JobsInv
  <2>2. ASSUME agg[q] # "none"
        PROVE  overall[q] = Aggregated(q)' /\ \A b \in Reviewers : job'[q][b] \in Final
    <3>1. \A b \in Reviewers : job[q][b] \in Final
      BY <2>1, <2>2 DEF AggregateOK
    <3>2. \A b \in Reviewers : job'[q][b] = job[q][b]
      BY <1>1, <1>2, <2>1, <3>1 DEF JobOK, Final
    <3> QED
      BY <2>1, <2>2, <3>1, <3>2 DEF AggregateOK, Aggregated, Push
  <2> QED
    BY <2>1, <2>2 DEF AggregateOK, Push
<1>6. (\A i \in DOMAIN comments : CommentOK(comments[i]))'
  BY DEF JobsInv, CommentOK, Push
<1>7. StickyOK'
  BY DEF JobsInv, StickyOK, Sticky, Push
<1> QED
  BY <1>3, <1>4, <1>5, <1>6, <1>7 DEF JobsInv
LEMMA SkipsStep ==
  ASSUME JobsInv, NEW p \in Pushes, NEW a \in Reviewers, Skips(p, a)
  PROVE  JobsInv'
<1>1. JobOK(p, a) /\ job[p][a] = "begin" /\ "posting" \in Stages /\ "neutral" \in Conclusions
  BY DEF JobsInv, Skips, Stages, Conclusions
<1>2. job' = Set(job, p, a, "posting") /\ verdict' = Set(verdict, p, a, "neutral")
  BY DEF Skips, Conclude
<1>3. JobsTyped'
  BY <1>1, <1>2, SetEntry DEF JobsInv, JobsTyped, Skips
<1>4. At(job', job, p, a, "posting") /\ At(verdict', verdict, p, a, "neutral")
  BY <1>1, <1>2, SetEntry DEF JobsInv
<1>5. JobOK(p, a)' /\ Elsewhere(p, a)
  BY <1>1, <1>4, JobsAssumption DEF JobOK, Skips, Elsewhere, At
<1>6. job[p][a] \notin Final \cup {"none"}
  BY <1>1 DEF Final
<1> QED
  BY <1>3, <1>4, <1>5, <1>6, OneJob DEF Skips

LEMMA StartReviewStep ==
  ASSUME JobsInv, NEW p \in Pushes, NEW a \in Reviewers, StartReview(p, a)
  PROVE  JobsInv'
<1> DEFINE next == IF a \in Looping THEN "looping" ELSE "asking"
<1>1. JobOK(p, a) /\ job[p][a] = "begin" /\ next \in Stages /\ next \in {"looping", "asking"}
  BY DEF JobsInv, StartReview, Stages
<1>2. job' = Set(job, p, a, next)
  BY DEF StartReview
<1> HIDE DEF next
<1>3. job' \in [Pushes -> [Reviewers -> Stages]] /\ At(job', job, p, a, next)
  BY <1>1, <1>2, SetEntry DEF JobsInv
<1>4. JobsTyped'
  BY <1>3 DEF JobsInv, JobsTyped, StartReview
<1>5. JobOK(p, a)' /\ Elsewhere(p, a)
  BY <1>1, <1>3, JobsAssumption DEF JobOK, StartReview, Final, Elsewhere, At
<1>6. job[p][a] \notin Final \cup {"none"}
  BY <1>1 DEF Final
<1> QED
  BY <1>4, <1>3, <1>5, <1>6, OneJob DEF StartReview

\* The call counts, and the rest of the job is as the answer has it.
LEMMA CallAt ==
  ASSUME JobsTyped, NEW p \in Pushes, NEW a \in Reviewers, Call(p, a)
  PROVE  /\ calls' \in [Pushes -> [Reviewers -> Nat]]
         /\ calls'[p][a] = calls[p][a] + 1 /\ calls[p][a] \in Nat
         /\ \A q \in Pushes, b \in Reviewers :
              q # p \/ b # a => calls'[q][b] = calls[q][b]
<1>1. calls \in [Pushes -> [Reviewers -> Nat]] /\ calls[p][a] + 1 \in Nat /\ calls[p][a] \in Nat
  BY DEF JobsTyped
<1>2. calls' = Set(calls, p, a, calls[p][a] + 1)
  BY DEF Call, Set
<1> QED
  BY <1>1, <1>2, SetEntry DEF At

\* A conclusion, reached by an answer or by none: red is severe and gating.
LEMMA ConcludedAt ==
  ASSUME JobsTyped, NEW p \in Pushes, NEW a \in Reviewers, Answered(p, a) \/ Unreviewed(p, a)
  PROVE  /\ job' \in [Pushes -> [Reviewers -> Stages]]
         /\ verdict' \in [Pushes -> [Reviewers -> Conclusions]]
         /\ said' \in [Pushes -> [Reviewers -> Said]]
         /\ job'[p][a] = "posting"
         /\ verdict'[p][a] = "failure" => a \in Gating /\ said'[p][a] = "severe"
         /\ \A q \in Pushes, b \in Reviewers : q # p \/ b # a =>
              job'[q][b] = job[q][b] /\ verdict'[q][b] = verdict[q][b] /\ said'[q][b] = said[q][b]
<1>1. /\ job \in [Pushes -> [Reviewers -> Stages]] /\ "posting" \in Stages
      /\ verdict \in [Pushes -> [Reviewers -> Conclusions]]
      /\ said \in [Pushes -> [Reviewers -> Said]]
  BY DEF JobsTyped, Stages
<1>2. CASE Answered(p, a)
  <2>1. PICK findings_ \in {"none", "slight", "severe"} :
          /\ said' = Set(said, p, a, findings_)
          /\ Conclude(p, a, Conclusion(a, findings_))
    BY <1>2 DEF Answered
  <2> DEFINE c == Conclusion(a, findings_)
  <2>2. c \in Conclusions /\ (c = "failure" => a \in Gating /\ findings_ = "severe")
    BY DEF Conclusion, Conclusions
  <2>3. job' = Set(job, p, a, "posting") /\ verdict' = Set(verdict, p, a, c)
    BY <2>1 DEF Conclude
  <2> HIDE DEF c
  <2>4. /\ job' \in [Pushes -> [Reviewers -> Stages]] /\ At(job', job, p, a, "posting")
        /\ verdict' \in [Pushes -> [Reviewers -> Conclusions]] /\ At(verdict', verdict, p, a, c)
    BY <1>1, <2>2, <2>3, SetEntry
  <2>5. /\ said' \in [Pushes -> [Reviewers -> Said]] /\ At(said', said, p, a, findings_)
    BY <2>1, SetEntry DEF Said
  <2> QED
    BY <2>2, <2>4, <2>5 DEF At
<1>3. CASE Unreviewed(p, a)
  <2>1. /\ job' = Set(job, p, a, "posting") /\ verdict' = Set(verdict, p, a, "neutral")
        /\ said' = said /\ "neutral" \in Conclusions
    BY <1>3 DEF Unreviewed, Conclude, Conclusions
  <2>2. /\ job' \in [Pushes -> [Reviewers -> Stages]] /\ At(job', job, p, a, "posting")
        /\ verdict' \in [Pushes -> [Reviewers -> Conclusions]]
        /\ At(verdict', verdict, p, a, "neutral")
    BY <1>1, <2>1, SetEntry
  <2> QED
    BY <1>1, <2>1, <2>2 DEF At
<1> QED
  BY <1>2, <1>3

LEMMA AskOnceStep ==
  ASSUME JobsInv, NEW p \in Pushes, NEW a \in Reviewers, AskOnce(p, a)
  PROVE  JobsInv'
<1>1. JobsTyped /\ JobOK(p, a) /\ job[p][a] = "asking"
  BY DEF JobsInv, AskOnce
<1>2. Call(p, a) /\ (Answered(p, a) \/ Unreviewed(p, a))
  BY DEF AskOnce
<1>3. JobsTyped'
  BY <1>1, <1>2, CallAt, ConcludedAt DEF JobsTyped, AskOnce
<1>4. Elsewhere(p, a)
  BY <1>1, <1>2, CallAt, ConcludedAt DEF Elsewhere, AskOnce
<1>5. JobOK(p, a)'
  <2>1. job'[p][a] = "posting" /\ calls'[p][a] = calls[p][a] + 1 /\ calls[p][a] \in Nat
    BY <1>1, <1>2, CallAt, ConcludedAt
  <2>2. verdict'[p][a] = "failure" => a \in Gating /\ said'[p][a] = "severe"
    BY <1>1, <1>2, ConcludedAt
  <2> QED
    BY <1>1, <2>1, <2>2, JobsAssumption DEF JobOK, AskOnce
<1>6. job[p][a] \notin Final \cup {"none"}
  BY <1>1 DEF Final
<1> QED
  BY <1>3, <1>4, <1>5, <1>6, OneJob DEF AskOnce

\* A round counts, and the last leads to the call without tools.
LEMMA NextTurnAt ==
  ASSUME JobsTyped, NEW p \in Pushes, NEW a \in Reviewers, job[p][a] = "looping",
         turn[p][a] < MaxTurns, NextTurn(p, a)
  PROVE  /\ job' \in [Pushes -> [Reviewers -> Stages]]
         /\ turn' \in [Pushes -> [Reviewers -> 0..MaxTurns]]
         /\ turn'[p][a] = turn[p][a] + 1
         /\ job'[p][a] = IF turn[p][a] + 1 = MaxTurns THEN "asking" ELSE "looping"
         /\ \A q \in Pushes, b \in Reviewers : q # p \/ b # a =>
              job'[q][b] = job[q][b] /\ turn'[q][b] = turn[q][b]
<1>1. /\ job \in [Pushes -> [Reviewers -> Stages]] /\ "asking" \in Stages
      /\ turn \in [Pushes -> [Reviewers -> 0..MaxTurns]] /\ MaxTurns \in Nat
      /\ turn[p][a] \in 0..MaxTurns
  BY JobsAssumption DEF JobsTyped, Stages
<1>2. turn' = Set(turn, p, a, turn[p][a] + 1) /\ turn[p][a] + 1 \in 0..MaxTurns
  BY <1>1 DEF NextTurn, Set
<1>3. /\ turn' \in [Pushes -> [Reviewers -> 0..MaxTurns]] /\ turn'[p][a] = turn[p][a] + 1
      /\ \A q \in Pushes, b \in Reviewers : q # p \/ b # a => turn'[q][b] = turn[q][b]
  BY <1>1, <1>2, SetEntry DEF At
<1>4. job' = IF turn[p][a] + 1 = MaxTurns THEN Set(job, p, a, "asking") ELSE job
  BY <1>3 DEF NextTurn
<1>5. CASE turn[p][a] + 1 = MaxTurns
  <2>1. job' \in [Pushes -> [Reviewers -> Stages]] /\ At(job', job, p, a, "asking")
    BY <1>1, <1>4, <1>5, SetEntry
  <2> QED
    BY <1>3, <1>5, <2>1 DEF At
<1>6. CASE turn[p][a] + 1 # MaxTurns
  BY <1>1, <1>3, <1>4, <1>6
<1> QED
  BY <1>5, <1>6

LEMMA TurnStep ==
  ASSUME JobsInv, NEW p \in Pushes, NEW a \in Reviewers, Turn(p, a)
  PROVE  JobsInv'
<1>1. JobsTyped /\ JobOK(p, a) /\ job[p][a] = "looping" /\ Call(p, a)
  BY DEF JobsInv, Turn
<1>2. calls[p][a] = turn[p][a] /\ turn[p][a] < MaxTurns /\ turn[p][a] \in 0..MaxTurns
      /\ calls'[p][a] = calls[p][a] + 1
  BY <1>1, CallAt DEF JobOK, JobsTyped
<1>3. job[p][a] \notin Final \cup {"none"}
  BY <1>1 DEF Final
<1>4. CASE NextTurn(p, a) /\ recovered' \in [Pushes -> [Reviewers -> 0..MaxRecoveries]]
  <2>1. JobsTyped'
    BY <1>1, <1>2, <1>4, CallAt, NextTurnAt DEF JobsTyped, Turn, NextTurn
  <2>2. Elsewhere(p, a)
    <3>1. UNCHANGED <<verdict, said, file>>
      BY <1>4 DEF Turn, NextTurn
    <3>2. \A q \in Pushes, b \in Reviewers : q # p \/ b # a =>
            job'[q][b] = job[q][b] /\ turn'[q][b] = turn[q][b]
      BY <1>1, <1>2, <1>4, NextTurnAt
    <3>3. \A q \in Pushes, b \in Reviewers : q # p \/ b # a => calls'[q][b] = calls[q][b]
      BY <1>1, CallAt
    <3> QED
      BY <3>1, <3>2, <3>3 DEF Elsewhere
  <2>3. JobOK(p, a)'
    <3>1. turn'[p][a] = turn[p][a] + 1
          /\ job'[p][a] = IF turn[p][a] + 1 = MaxTurns THEN "asking" ELSE "looping"
      BY <1>1, <1>2, <1>4, NextTurnAt
    <3> QED
      BY <1>1, <1>2, <3>1, JobsAssumption DEF JobOK, Turn, Final
  <2> QED
    BY <1>3, <2>1, <2>2, <2>3, OneJob DEF Turn
<1>5. CASE UNCHANGED <<turn, recovered>> /\ (Answered(p, a) \/ Unreviewed(p, a))
  <2>1. JobsTyped'
    BY <1>1, <1>5, CallAt, ConcludedAt DEF JobsTyped, Turn
  <2>2. Elsewhere(p, a)
    BY <1>1, <1>5, CallAt, ConcludedAt DEF Elsewhere, Turn
  <2>3. JobOK(p, a)'
    <3>1. /\ job'[p][a] = "posting"
          /\ verdict'[p][a] = "failure" => a \in Gating /\ said'[p][a] = "severe"
      BY <1>1, <1>5, ConcludedAt
    <3> QED
      BY <1>1, <1>2, <3>1, JobsAssumption DEF JobOK, Turn
  <2> QED
    BY <1>3, <2>1, <2>2, <2>3, OneJob DEF Turn
<1>6. CASE Recover(p, a)
  <2>1. recovered' = Set(recovered, p, a, recovered[p][a] + 1)
    BY <1>6 DEF Recover, Set
  <2>2. recovered[p][a] + 1 \in 0..MaxRecoveries
    BY <1>1, <1>6, JobsAssumption DEF Recover, JobsTyped
  <2>3. recovered' \in [Pushes -> [Reviewers -> 0..MaxRecoveries]]
    BY <1>1, <2>1, <2>2, SetEntry DEF JobsTyped
  <2> QED
    BY <1>4, <1>6, <2>3 DEF Recover
<1>7. CASE UNCHANGED recovered /\ NextTurn(p, a)
  BY <1>1, <1>4, <1>7 DEF JobsTyped
<1> QED
  BY <1>5, <1>6, <1>7 DEF Turn
\* What a job needed while it ran is gone when it posts or dies.
LEMMA EmptiedAt ==
  ASSUME JobsTyped, NEW p \in Pushes, NEW a \in Reviewers,
         turn' = Set(turn, p, a, 0), recovered' = Set(recovered, p, a, 0),
         calls' = Set(calls, p, a, 0), said' = Set(said, p, a, "nothing")
  PROVE  /\ turn' \in [Pushes -> [Reviewers -> 0..MaxTurns]] /\ At(turn', turn, p, a, 0)
         /\ recovered' \in [Pushes -> [Reviewers -> 0..MaxRecoveries]]
         /\ calls' \in [Pushes -> [Reviewers -> Nat]] /\ At(calls', calls, p, a, 0)
         /\ said' \in [Pushes -> [Reviewers -> Said]] /\ At(said', said, p, a, "nothing")
<1>1. 0 \in 0..MaxTurns /\ 0 \in 0..MaxRecoveries /\ 0 \in Nat /\ "nothing" \in Said
  BY JobsAssumption DEF Said
<1> QED
  BY <1>1, SetEntry

LEMMA PostStep ==
  ASSUME JobsInv, NEW p \in Pushes, NEW a \in Reviewers, Post(p, a)
  PROVE  JobsInv'
<1>1. JobsTyped /\ JobOK(p, a) /\ job[p][a] = "posting" /\ "emitting" \in Stages
  BY DEF JobsInv, Post, Stages
<1>2. job' \in [Pushes -> [Reviewers -> Stages]] /\ At(job', job, p, a, "emitting")
  BY <1>1, SetEntry DEF Post
<1>3. JobsTyped'
  BY <1>1, <1>2, EmptiedAt DEF JobsTyped, Post
<1>4. At(turn', turn, p, a, 0) /\ At(calls', calls, p, a, 0) /\ At(said', said, p, a, "nothing")
  BY <1>1, EmptiedAt DEF Post
<1>5. JobOK(p, a)' /\ Elsewhere(p, a)
  BY <1>1, <1>2, <1>4 DEF JobOK, Post, Elsewhere, At
<1>6. job[p][a] \notin Final \cup {"none"}
  BY <1>1 DEF Final
<1> QED
  BY <1>3, <1>5, <1>6, OneJob DEF Post

LEMMA EmitStep ==
  ASSUME JobsInv, NEW p \in Pushes, NEW a \in Reviewers, Emit(p, a)
  PROVE  JobsInv'
<1>1. /\ JobsTyped /\ JobOK(p, a) /\ job[p][a] = "emitting" /\ "over" \in Stages
      /\ verdict[p][a] \in Conclusions
  BY DEF JobsInv, JobsTyped, Emit, Stages, Final
<1>2. job' \in [Pushes -> [Reviewers -> Stages]] /\ At(job', job, p, a, "over")
  BY <1>1, SetEntry DEF Emit
<1>3. file' \in [Pushes -> [Reviewers -> Conclusions]] /\ At(file', file, p, a, verdict[p][a])
  BY <1>1, SetEntry DEF Emit
<1>4. JobsTyped'
  BY <1>1, <1>2, <1>3 DEF JobsTyped, Emit
<1>5. JobOK(p, a)' /\ Elsewhere(p, a)
  BY <1>1, <1>2, <1>3 DEF JobOK, Emit, Elsewhere, At
<1>6. job[p][a] \notin Final \cup {"none"}
  BY <1>1 DEF Final
<1> QED
  BY <1>4, <1>5, <1>6, OneJob DEF Emit

LEMMA DieStep ==
  ASSUME JobsInv, NEW p \in Pushes, NEW a \in Reviewers, Die(p, a)
  PROVE  JobsInv'
<1>1. /\ JobsTyped /\ JobOK(p, a) /\ job[p][a] \notin Final \cup {"none"} /\ "dead" \in Stages
      /\ NoFile \in Conclusions
  BY DEF JobsInv, Die, Stages, Final, Conclusions
<1>2. job' \in [Pushes -> [Reviewers -> Stages]] /\ At(job', job, p, a, "dead")
  BY <1>1, SetEntry DEF Die
<1>3. verdict' \in [Pushes -> [Reviewers -> Conclusions]] /\ At(verdict', verdict, p, a, NoFile)
  BY <1>1, SetEntry DEF Die
<1>4. At(turn', turn, p, a, 0) /\ At(calls', calls, p, a, 0) /\ At(said', said, p, a, "nothing")
  BY <1>1, EmptiedAt DEF Die
<1>5. JobsTyped'
  BY <1>1, <1>2, <1>3, EmptiedAt DEF JobsTyped, Die
<1>6. JobOK(p, a)' /\ Elsewhere(p, a)
  BY <1>1, <1>2, <1>3, <1>4 DEF JobOK, Die, Elsewhere, At
<1> QED
  BY <1>1, <1>5, <1>6, OneJob DEF Die

\* The steps of an aggregation leave the jobs and what they wrote.
JobsRest == UNCHANGED <<pushed, job, turn, recovered, verdict, file, calls, said>>

LEMMA AggregationJobs ==
  ASSUME JobsInv, JobsRest
  PROVE  \A q \in Pushes : /\ \A b \in Reviewers : JobOK(q, b)'
                           /\ Aggregated(q)' = Aggregated(q)
  BY DEF JobsInv, JobsRest, JobOK, Aggregated

LEMMA AggregateStep ==
  ASSUME JobsInv, NEW p \in Pushes, Aggregate(p)
  PROVE  JobsInv'
<1>1. /\ JobsTyped /\ AggregateOK(p) /\ JobsRest /\ agg[p] = "none"
      /\ Aggregated(p) \in {"pass", "fail"}
  BY DEF JobsInv, Aggregate, JobsRest, Aggregated
<1>2. /\ agg' \in [Pushes -> {"none", "loaded", "listed", "over"}]
      /\ overall' \in [Pushes -> {"pass", "fail"}]
      /\ agg'[p] = "loaded" /\ overall'[p] = Aggregated(p)
      /\ \A q \in Pushes : q # p => agg'[q] = agg[q] /\ overall'[q] = overall[q]
  BY <1>1 DEF JobsTyped, Aggregate
<1>3. JobsTyped'
  BY <1>1, <1>2 DEF JobsTyped, Aggregate
<1>4. ASSUME NEW q \in Pushes PROVE AggregateOK(q)' /\ found'[q] <= Len(comments')
  BY <1>2, AggregationJobs DEF JobsInv, AggregateOK, Aggregate, JobsRest
<1>5. (\A i \in DOMAIN comments : CommentOK(comments[i]))'
  BY <1>1, <1>2 DEF JobsInv, JobsTyped, CommentOK, Aggregate
<1>6. StickyOK'
  BY <1>1, <1>2 DEF JobsInv, StickyOK, Sticky, Aggregate
<1> QED
  BY <1>1, <1>3, <1>4, <1>5, <1>6, AggregationJobs DEF JobsInv

LEMMA ListStep ==
  ASSUME JobsInv, NEW p \in Pushes, List(p)
  PROVE  JobsInv'
<1>1. JobsTyped /\ JobsRest /\ agg[p] = "loaded" /\ Sticky \in Nat /\ Sticky <= Len(comments)
  <2>1. comments # <<>> => Len(comments) >= 1
    BY DEF JobsInv, JobsTyped
  <2> QED
    BY <2>1 DEF JobsInv, JobsTyped, List, JobsRest, Sticky
<1>2. /\ agg' \in [Pushes -> {"none", "loaded", "listed", "over"}] /\ found' \in [Pushes -> Nat]
      /\ agg'[p] = "listed" /\ found'[p] = Sticky
      /\ \A q \in Pushes : q # p => agg'[q] = agg[q] /\ found'[q] = found[q]
  BY <1>1 DEF JobsTyped, List
<1>3. raced' \in BOOLEAN /\ (~raced' => ~raced /\ \A q \in Pushes : agg[q] # "listed")
  BY <1>1 DEF JobsTyped, List
<1>4. JobsTyped'
  BY <1>1, <1>2, <1>3 DEF JobsTyped, List
<1>5. ASSUME NEW q \in Pushes PROVE AggregateOK(q)' /\ found'[q] <= Len(comments')
  BY <1>1, <1>2, AggregationJobs DEF JobsInv, AggregateOK, List, JobsRest
<1>6. (\A i \in DOMAIN comments : CommentOK(comments[i]))'
  BY <1>1, <1>2 DEF JobsInv, JobsTyped, CommentOK, List
<1>7. StickyOK'
  BY <1>1, <1>2, <1>3 DEF JobsInv, StickyOK, Sticky, List
<1> QED
  BY <1>1, <1>4, <1>5, <1>6, <1>7, AggregationJobs DEF JobsInv

\* A comment that is written anew or replaced is one more or as many.
LEMMA Commented ==
  ASSUME NEW S, NEW s \in Seq(S), NEW c \in S, NEW n \in Nat, n <= Len(s)
  PROVE  LET t == IF n = 0 THEN Append(s, c) ELSE [s EXCEPT ![n] = c] IN
         /\ t \in Seq(S) /\ Len(s) <= Len(t)
         /\ Len(t) = IF n = 0 THEN Len(s) + 1 ELSE Len(s)
         /\ \A i \in DOMAIN t : t[i] = c \/ (i \in DOMAIN s /\ t[i] = s[i])
<1>1. CASE n = 0
  BY <1>1
<1>2. CASE n # 0
  BY <1>2
<1> QED
  BY <1>1, <1>2

LEMMA PostCommentStep ==
  ASSUME JobsInv, NEW p \in Pushes, PostComment(p)
  PROVE  JobsInv'
<1> DEFINE c == [push |-> p, overall |-> overall[p]]
           C == [push : Pushes, overall : {"pass", "fail"}]
<1>1. /\ JobsTyped /\ JobsRest /\ agg[p] = "listed" /\ c \in C /\ comments \in Seq(C)
      /\ found[p] \in Nat /\ found[p] <= Len(comments)
  BY DEF JobsInv, JobsTyped, PostComment, JobsRest
<1>2. comments' = IF found[p] = 0 THEN Append(comments, c) ELSE [comments EXCEPT ![found[p]] = c]
  BY DEF PostComment
<1>c. c.push = p /\ c.overall = overall[p]
  OBVIOUS
<1> HIDE DEF c, C
<1>3. /\ comments' \in Seq(C) /\ Len(comments) <= Len(comments')
      /\ Len(comments') = IF found[p] = 0 THEN Len(comments) + 1 ELSE Len(comments)
      /\ \A i \in DOMAIN comments' :
           comments'[i] = c \/ (i \in DOMAIN comments /\ comments'[i] = comments[i])
  BY <1>1, <1>2, Commented
<1>4. /\ agg' \in [Pushes -> {"none", "loaded", "listed", "over"}] /\ agg'[p] = "over"
      /\ \A q \in Pushes : q # p => agg'[q] = agg[q]
  BY <1>1 DEF JobsTyped, PostComment
<1>5. JobsTyped'
  BY <1>1, <1>3, <1>4 DEF JobsTyped, PostComment, C
<1>6. ASSUME NEW q \in Pushes PROVE AggregateOK(q)' /\ found'[q] <= Len(comments')
  <2>1. Len(comments) \in Nat /\ Len(comments') \in Nat /\ found[q] \in Nat /\ found' = found
    BY <1>1, <1>3 DEF JobsTyped, PostComment
  <2> QED
    BY <1>1, <1>3, <1>4, <2>1, AggregationJobs DEF JobsInv, AggregateOK, PostComment, JobsRest
<1>7. ASSUME NEW i \in DOMAIN comments'
      PROVE  agg'[comments'[i].push] = "over" /\ comments'[i].overall = overall'[comments'[i].push]
  <2>1. overall' = overall
    BY DEF PostComment
  <2>2. CASE comments'[i] = c
    BY <1>c, <1>4, <2>1, <2>2
  <2>3. CASE i \in DOMAIN comments /\ comments'[i] = comments[i]
    <3>1. comments[i] \in C /\ CommentOK(comments[i])
      BY <1>1, <2>3 DEF JobsInv
    <3>2. comments[i].push \in Pushes
      BY <3>1 DEF C
    <3> QED
      BY <1>1, <1>4, <2>1, <2>3, <3>1, <3>2 DEF CommentOK
  <2> QED
    BY <1>3, <2>2, <2>3
<1>8. StickyOK'
  <2> SUFFICES ASSUME ~raced'
               PROVE  Len(comments') <= 1 /\ \A q \in Pushes : agg'[q] # "listed"
    BY DEF StickyOK
  <2>1. ~raced
    BY DEF PostComment
  <2>2. /\ Len(comments) <= 1 /\ found[p] = Sticky
        /\ \A q \in Pushes : agg[q] = "listed" => q = p
    BY <1>1, <2>1 DEF JobsInv, StickyOK
  <2>3. found[p] = 0 => Len(comments) = 0
    BY <1>1, <2>2 DEF Sticky
  <2> QED
    BY <1>1, <1>3, <1>4, <2>2, <2>3
<1>9. (\A i \in DOMAIN comments : CommentOK(comments[i]))'
  BY <1>7 DEF CommentOK
<1> QED
  BY <1>1, <1>5, <1>6, <1>8, <1>9, AggregationJobs DEF JobsInv

LEMMA CommentFailsStep ==
  ASSUME JobsInv, NEW p \in Pushes, CommentFails(p)
  PROVE  JobsInv'
<1>1. JobsTyped /\ JobsRest /\ agg[p] \in {"loaded", "listed"}
  BY DEF JobsInv, CommentFails, JobsRest
<1>2. /\ agg' \in [Pushes -> {"none", "loaded", "listed", "over"}] /\ agg'[p] = "over"
      /\ \A q \in Pushes : q # p => agg'[q] = agg[q]
  BY <1>1 DEF JobsTyped, CommentFails
<1>3. JobsTyped'
  BY <1>1, <1>2 DEF JobsTyped, CommentFails
<1>4. ASSUME NEW q \in Pushes PROVE AggregateOK(q)' /\ found'[q] <= Len(comments')
  BY <1>1, <1>2, AggregationJobs DEF JobsInv, AggregateOK, CommentFails, JobsRest
<1>5. (\A i \in DOMAIN comments : CommentOK(comments[i]))'
  BY <1>1, <1>2 DEF JobsInv, JobsTyped, CommentOK, CommentFails
<1>6. StickyOK'
  BY <1>1, <1>2 DEF JobsInv, StickyOK, Sticky, CommentFails
<1> QED
  BY <1>1, <1>3, <1>4, <1>5, <1>6, AggregationJobs DEF JobsInv

LEMMA JobsStuttering ==
  ASSUME JobsInv, UNCHANGED jobVars
  PROVE  JobsInv'
BY DEF JobsInv, jobVars, JobsTyped, JobOK, AggregateOK, Aggregated, CommentOK, StickyOK, Sticky

LEMMA JobsStep == JobsInv /\ [JobsNext]_jobVars => JobsInv'
<1>1. ASSUME JobsInv, NEW p \in Pushes, NEW a \in Reviewers, Job(p, a) \/ Die(p, a)
      PROVE  JobsInv'
  BY <1>1, SkipsStep, StartReviewStep, AskOnceStep, TurnStep, PostStep, EmitStep, DieStep DEF Job
<1>2. ASSUME JobsInv, NEW p \in Pushes, Aggregation(p)
      PROVE  JobsInv'
  BY <1>2, AggregateStep, ListStep, PostCommentStep, CommentFailsStep DEF Aggregation
<1> QED
  BY <1>1, <1>2, PushStep, JobsStuttering DEF JobsNext

\* What the jobs of a pull request's pushes have spent, said and left.
THEOREM JobsInvariance == JobsSpec => []JobsInv
BY JobsInitially, JobsStep, PTL DEF JobsSpec

LEMMA JobsTyping == JobsInv => JobsTypeOK
<1> SUFFICES ASSUME JobsInv PROVE JobsTypeOK
  OBVIOUS
<1>1. JobsTyped /\ \A p \in Pushes : found[p] <= Len(comments)
  BY DEF JobsInv
<1> QED
  BY <1>1 DEF JobsTyped, JobsTypeOK, Stages, Conclusions, Said

\* The jobs keep to their places and bounds.
THEOREM JobsTypes == JobsSpec => []JobsTypeOK
BY JobsTyping, JobsInvariance, PTL

\* No failure turns a pull request red, no lost job turns it green, an agent's
\* review costs a bounded number of calls, and there is one comment unless two
\* aggregations ran into each other: for any agents, triggers and pushes, and
\* whichever jobs die at whatever step.
THEOREM ReviewsTheorem == JobsSpec => []ReviewsAreSound
<1>1. JobsInv => ReviewsAreSound
  <2> SUFFICES ASSUME JobsInv PROVE ReviewsAreSound
    OBVIOUS
  <2>1. RedOnlyByFindings
    BY DEF JobsInv, JobOK, RedOnlyByFindings
  <2>2. PassHidesNoFailure
    <3> SUFFICES ASSUME NEW i \in DOMAIN comments, comments[i].overall = "pass",
                        NEW a \in Reviewers, job[comments[i].push][a] = "over"
                 PROVE  verdict[comments[i].push][a] # "failure"
      BY DEF PassHidesNoFailure
    <3> DEFINE p == comments[i].push
    <3>1. CommentOK(comments[i])
      BY DEF JobsInv
    <3> DEFINE C == [push : Pushes, overall : {"pass", "fail"}]
    <3>2. comments \in Seq(C)
      BY DEF JobsInv, JobsTyped
    <3>3. comments[i] \in C
      <4> HIDE DEF C
      <4> QED
        BY <3>2
    <3>4. p \in Pushes /\ agg[p] = "over" /\ overall[p] = "pass"
      BY <3>1, <3>3 DEF CommentOK
    <3>5. Aggregated(p) = "pass"
      BY <3>4 DEF JobsInv, AggregateOK
    <3>6. file[p][a] # "failure" /\ file[p][a] = verdict[p][a]
      BY <3>4, <3>5 DEF Aggregated, JobsInv, JobOK
    <3> QED
      BY <3>6
  <2>3. CallsBounded
    <3> SUFFICES ASSUME NEW p \in Pushes, NEW a \in Reviewers PROVE calls[p][a] <= MaxTurns + 1
      BY DEF CallsBounded
    <3>1. /\ JobOK(p, a) /\ calls[p][a] \in Nat /\ turn[p][a] \in 0..MaxTurns /\ MaxTurns \in Nat
      BY JobsAssumption DEF JobsInv, JobsTyped
    <3> QED
      BY <3>1 DEF JobOK
  <2>4. OneComment
    BY DEF JobsInv, StickyOK, OneComment
  <2> QED
    BY <2>1, <2>2, <2>3, <2>4 DEF ReviewsAreSound
<1> QED
  BY <1>1, JobsInvariance, PTL

-----------------------------------------------------------------------------
(* ReviewGate                                                              *)

Signatures == Nat \X Nat
Checkpoints == [planned : SUBSET Agents, done : SUBSET Agents, sig : Signatures]
Baselines == [sha : Nat, agents : SUBSET Agents]

GateTyped ==
  /\ head \in 1..MaxCommits /\ accepted \in BOOLEAN
  /\ index \in [paths : Stagings \cup {{}}, version : 0..MaxStagings]
  /\ findings \in [Agents -> Record \cup {None}] /\ records \in [Agents -> Record \cup {None}]
  /\ state \in Checkpoints \cup {None}
  /\ marker = None \/ marker.verdict \in {"PASS", "FAIL"}
  /\ baselines \in Seq(Baselines)
  /\ op \in {"idle", "gate", "audit"} /\ items \subseteq Agents
  /\ step \in {"none", "looping", "exhausted", "partial", "complete"} \cup Agents
  /\ base \in [Agents -> Nat \cup {None}]
  /\ run \in 0..MaxRuns /\ kin \subseteq 1..run
  /\ reviewed \in [Agents -> SUBSET Nat] /\ spoiled \in BOOLEAN
  /\ DOMAIN judged = Agents

\* A command works on what its checkpoint plans, is at one item at a time, and has
\* the record of the item it is at.
CommandOK ==
  /\ state # None => state.done \subseteq state.planned /\ state.sig[1] <= head
  /\ op = "idle" => step = "none" /\ items = {}
  /\ op # "idle" => /\ state \in Checkpoints /\ items \subseteq state.planned \ state.done
                    /\ state.done \subseteq state.planned /\ state.sig[1] <= head
                    /\ sig = state.sig /\ run > 0 /\ step # "none"
  /\ step \in Agents => /\ step \in items /\ op # "idle"
                        /\ findings[step] # None /\ records[step] # None
  /\ step \in {"partial", "complete"} => op = "gate"

\* The checkpoint of an audit: what it calls done has a record on disk, what is
\* on disk is the audit's, and what succeeded has been shown all there was.
AuditOK ==
  kin # {} =>
    /\ state \in Checkpoints /\ op # "gate" /\ (op = "audit" => run \in kin)
    /\ \A a \in state.done : findings[a] # None
    /\ \A a \in Agents : findings[a] # None =>
         /\ findings[a].run \in kin
         /\ ~spoiled /\ findings[a].ok => 1..state.sig[1] \subseteq reviewed[a]

\* What a preserved report lists was shown every commit up to the report's, and
\* a delta starts no later than that.
BaselinesOK ==
  ~spoiled =>
    /\ \A i \in DOMAIN baselines : \A a \in baselines[i].agents :
         1..baselines[i].sha \subseteq reviewed[a]
    /\ op = "audit" => \A a \in items : base[a] # None => 1..base[a] \subseteq reviewed[a]

\* The records of a gate are of what was staged when it began, and it has one of
\* every agent concerned that it is not still to look at.
GateOK ==
  /\ \A a \in Agents : judged[a] # <<>> => a \in Affected(judged[a][1][1])
  /\ op = "gate" =>
       /\ Affected(hash[1]) = items \cup Recorded(records)
       /\ \A a \in Recorded(records) : judged[a] = <<hash, records[a]>>
       /\ step \in {"partial", "complete"} => \A a \in Agents : findings[a] = None
       /\ step = "complete" => items = {}

GateInv == GateTyped /\ CommandOK /\ AuditOK /\ BaselinesOK /\ GateOK

NoRecords == [a \in Agents |-> None]

LEMMA GateInitially == GateInit => GateInv
<1> SUFFICES ASSUME GateInit PROVE GateInv
  OBVIOUS
<1>1. /\ MaxCommits \in Nat /\ MaxCommits > 0 /\ MaxStagings \in Nat /\ MaxRuns \in Nat
      /\ Agents \cap {"none", "looping", "exhausted", "partial", "complete"} = {}
  BY ReviewersAssumption
<1>2. GateTyped
  <2>1. index \in [paths : Stagings \cup {{}}, version : 0..MaxStagings]
    BY <1>1 DEF GateInit
  <2>2. baselines \in Seq(Baselines)
    BY DEF GateInit
  <2>3. head \in 1..MaxCommits /\ run \in 0..MaxRuns /\ kin \subseteq 1..run
    BY <1>1 DEF GateInit
  <2> QED
    BY <2>1, <2>2, <2>3 DEF GateInit, GateTyped
<1>3. CommandOK
  <2>1. state = None /\ op = "idle" /\ step = "none" /\ items = {}
    BY DEF GateInit
  <2> QED
    BY <1>1, <2>1 DEF CommandOK
<1>4. AuditOK /\ BaselinesOK /\ GateOK
  BY DEF GateInit, AuditOK, BaselinesOK, GateOK
<1> QED
  BY <1>2, <1>3, <1>4 DEF GateInv

-----------------------------------------------------------------------------
(* What a step leaves                                                      *)

\* What the developer does, and a marker, disturb nothing else.
LEMMA QuietStep ==
  ASSUME GateInv, GateTyped', head <= head',
         UNCHANGED <<findings, state, baselines, command, history>>
  PROVE  GateInv'
<1>1. CommandOK'
  <2>1. ASSUME state # None \/ op # "idle" PROVE state.sig[1] <= head'
    <3>1. state.sig[1] \in Nat /\ state.sig[1] <= head /\ head \in Nat /\ head' \in Nat
      BY <2>1, ReviewersAssumption DEF GateInv, GateTyped, CommandOK, Checkpoints, Signatures
    <3> QED
      BY <3>1
  <2> QED
    BY <2>1 DEF GateInv, CommandOK, command, history
<1>2. AuditOK' /\ BaselinesOK'
  BY DEF GateInv, AuditOK, BaselinesOK, command, history
<1>3. GateOK'
  <2>1. Recorded(records)' = Recorded(records)
    BY DEF Recorded, command
  <2> QED
    BY <2>1 DEF GateInv, GateOK, command, history
<1> QED
  BY <1>1, <1>2, <1>3 DEF GateInv

LEMMA StageStep ==
  ASSUME GateInv, NEW paths \in Stagings, Stage(paths)
  PROVE  GateInv'
<1>1. index' \in [paths : Stagings \cup {{}}, version : 0..MaxStagings]
  BY ReviewersAssumption DEF GateInv, GateTyped, Stage
<1>2. GateTyped' /\ head <= head'
  BY <1>1 DEF GateInv, GateTyped, Stage, disk, command, history
<1> QED
  BY <1>2, QuietStep DEF Stage, disk

LEMMA CommitStep ==
  ASSUME GateInv, Commit
  PROVE  GateInv'
<1>1. head' \in 1..MaxCommits /\ head <= head'
  BY ReviewersAssumption DEF GateInv, GateTyped, Commit
<1>2. index' \in [paths : Stagings \cup {{}}, version : 0..MaxStagings]
  BY DEF GateInv, GateTyped, Commit
<1>3. GateTyped'
  BY <1>1, <1>2 DEF GateInv, GateTyped, Commit, disk, command, history
<1> QED
  BY <1>1, <1>3, QuietStep DEF Commit, disk

LEMMA RetireStep ==
  ASSUME GateInv, Retire
  PROVE  GateInv'
<1>1. head' = head /\ head <= head
  BY ReviewersAssumption DEF GateInv, GateTyped, Retire
<1>2. accepted' \in BOOLEAN
  BY DEF Retire
<1>3. GateTyped'
  BY <1>1, <1>2 DEF GateInv, GateTyped, Retire, disk, command, history
<1> QED
  BY <1>1, <1>3, QuietStep DEF Retire, disk

\* A marker alone.
LEMMA MarkerStep ==
  ASSUME GateInv, UNCHANGED <<tree, findings, state, baselines, command, history>>,
         marker'.verdict \in {"PASS", "FAIL"}
  PROVE  GateInv'
<1>1. GateTyped' /\ head <= head'
  BY DEF GateInv, GateTyped, tree, command, history
<1> QED
  BY <1>1, QuietStep

LEMMA SkipGateStep ==
  ASSUME GateInv, SkipGate
  PROVE  GateInv'
<1>1. marker'.verdict = "PASS"
  BY DEF SkipGate, PassUnreviewed, WriteMarker
<1> QED
  BY <1>1, MarkerStep DEF SkipGate

LEMMA RegradeStep ==
  ASSUME GateInv, Regrade
  PROVE  GateInv'
<1>1. marker'.verdict \in {"PASS", "FAIL"}
  BY DEF Regrade, WriteMarker, Verdict
<1> QED
  BY <1>1, MarkerStep DEF Regrade

\* A command that ends leaves nothing of itself but what is on disk.
LEMMA EndStep ==
  ASSUME GateInv, EndCommand
  PROVE  /\ op' = "idle" /\ step' = "none" /\ items' = {} /\ step' \notin Agents
         /\ records' = NoRecords /\ base' \in [Agents -> Nat \cup {None}]
         /\ records' \in [Agents -> Record \cup {None}]
BY ReviewersAssumption DEF EndCommand, NoRecords

LEMMA KillStep ==
  ASSUME GateInv, Kill
  PROVE  GateInv'
<1>1. /\ op' = "idle" /\ step' = "none" /\ items' = {} /\ step' \notin Agents
      /\ base' \in [Agents -> Nat \cup {None}] /\ records' \in [Agents -> Record \cup {None}]
  BY EndStep DEF Kill
<1>2. GateTyped'
  BY <1>1 DEF GateInv, GateTyped, Kill, tree, disk, history
<1>3. CommandOK'
  BY <1>1 DEF GateInv, CommandOK, Kill, tree, disk, history
<1>4. AuditOK' /\ BaselinesOK' /\ GateOK'
  BY <1>1 DEF GateInv, AuditOK, BaselinesOK, GateOK, Kill, tree, disk, history
<1> QED
  BY <1>2, <1>3, <1>4 DEF GateInv
-----------------------------------------------------------------------------
(* A command begins                                                        *)

\* Every set of places in a sequence has a last one.
LEMMA Greatest ==
  ASSUME NEW n \in Nat, NEW S \in SUBSET (1 .. n), S # {}
  PROVE  \E i \in S : \A j \in S : j <= i
<1> DEFINE R == OpToRel(<, Nat)
<1>1. \A x, y \in Nat : <<y, x>> \in R <=> y < x
  BY DEF OpToRel
<1>2. IsWellFoundedOn(R, Nat)
  BY NatLessThanWellFounded
<1> HIDE DEF R
<1> DEFINE T == {n - i : i \in S}
<1>3. \A i \in S : i \in Nat /\ n - i \in Nat
  OBVIOUS
<1>4. T \in SUBSET Nat /\ T # {}
  BY <1>3
<1>5. PICK x \in T : \A y \in T : ~(<<y, x>> \in R)
  <2> HIDE DEF T
  <2> QED
    BY <1>2, <1>4, WFMin
<1>6. PICK i \in S : x = n - i
  OBVIOUS
<1>7. ASSUME NEW j \in S PROVE j <= i
  <2>1. n - j \in T
    OBVIOUS
  <2>2. ~(<<n - j, n - i>> \in R)
    BY <1>5, <1>6, <2>1
  <2>3. i \in Nat /\ j \in Nat /\ n - j \in Nat /\ n - i \in Nat
    OBVIOUS
  <2>4. ~(n - j < n - i)
    BY <1>1, <2>2, <2>3
  <2> QED
    BY <2>3, <2>4
<1> QED
  BY <1>7

\* What an audit takes for an agent's base is a snapshot, or the commit of a
\* report that lists the agent.
LEMMA BaseOfReport ==
  ASSUME GateInv, NEW a \in Agents, NEW how \in Hows, AuditBase(a, how) # None
  PROVE  /\ AuditBase(a, how) \in Nat
         /\ \E i \in DOMAIN baselines :
              a \in baselines[i].agents /\ AuditBase(a, how) = baselines[i].sha
<1> DEFINE Of(i) == a \in baselines[i].agents /\ AuditBase(a, how) = baselines[i].sha
<1>1. \A i \in DOMAIN baselines : baselines[i] \in Baselines /\ baselines[i].sha \in Nat
  <2>1. baselines \in Seq(Baselines)
    BY DEF GateInv, GateTyped
  <2>2. \A i \in DOMAIN baselines : baselines[i] \in Baselines
    BY <2>1
  <2> QED
    BY <2>2 DEF Baselines
<1>2. CASE how = <<"auto">>
  <2> DEFINE at == {i \in DOMAIN baselines : a \in baselines[i].agents}
             last == CHOOSE i \in at : \A j \in at : j <= i
  <2>1. AuditBase(a, how) = Newest(a)
    BY <1>2 DEF AuditBase
  <2>2. at # {}
    BY <2>1 DEF Newest
  <2>3. AuditBase(a, how) = baselines[last].sha
    BY <2>1, <2>2 DEF Newest
  <2>4. Len(baselines) \in Nat /\ at \subseteq 1 .. Len(baselines)
    BY DEF GateInv, GateTyped
  <2>5. \E i \in at : \A j \in at : j <= i
    <3> HIDE DEF at
    <3> QED
      BY <2>2, <2>4, Greatest
  <2>6. last \in at
    <3> HIDE DEF at
    <3> QED
      BY <2>5
  <2>7. last \in DOMAIN baselines /\ Of(last)
    BY <2>3, <2>6
  <2> QED
    BY <1>1, <2>7
<1>3. CASE how # <<"auto">>
  <2>1. PICK i \in DOMAIN baselines : how = <<"since", i>>
    <3>1. how # <<"snapshot">>
      BY DEF AuditBase
    <3> QED
      BY <1>3, <3>1 DEF Hows
  <2>2. Of(i)
    BY <2>1 DEF AuditBase
  <2> QED
    BY <1>1, <2>2
<1> QED
  BY <1>2, <1>3

\* The agents a change concerns are those its relevant part concerns.
LEMMA RelevantConcerns ==
  ASSUME NEW paths
  PROVE  Affected(Relevant(paths)) = Affected(paths)
BY DEF Affected, Relevant, Prompt, Fixture

\* A checkpoint begun.
LEMMA CheckpointBegun ==
  ASSUME GateInv, NEW agents \in SUBSET Agents, InitRun(agents)
  PROVE  /\ state' \in Checkpoints /\ state'.planned = agents /\ state'.done = {}
         /\ state'.sig = Signature /\ Signature[1] = head /\ head \in Nat
<1>1. Signature \in Signatures /\ Signature[1] = head /\ head \in Nat
  BY ReviewersAssumption DEF GateInv, GateTyped, Signature, Signatures
<1> QED
  BY <1>1 DEF InitRun, Checkpoints

LEMMA StartGateStep ==
  ASSUME GateInv, StartGate
  PROVE  GateInv'
<1> DEFINE agents == Affected(index.paths)
<1>1. agents \in SUBSET Agents /\ GateRun(agents)
  BY DEF Affected, StartGate
<1> HIDE DEF agents
<1>2. /\ state' \in Checkpoints /\ state'.planned = agents /\ state'.done = {}
      /\ state'.sig = Signature /\ Signature[1] = head /\ head \in Nat
  BY <1>1, CheckpointBegun DEF GateRun
<1>3. /\ op' = "gate" /\ step' = "looping" /\ items' = agents /\ sig' = Signature
      /\ hash' = StagedHash /\ records' = NoRecords /\ base' = NoRecords
  BY <1>1 DEF GateRun, Launch, NoRecords
<1>4. run' \in 1..MaxRuns /\ run' > 0
  BY ReviewersAssumption DEF GateInv, GateTyped, StartGate
<1>5. "looping" \notin Agents
  BY ReviewersAssumption
<1>6. GateTyped'
  <2>1. /\ records' \in [Agents -> Record \cup {None}] /\ base' \in [Agents -> Nat \cup {None}]
    BY <1>3 DEF NoRecords
  <2>2. kin' = {}
    BY DEF StartGate
  <2> QED
    BY <1>1, <1>2, <1>3, <1>4, <2>1, <2>2 DEF GateInv, GateTyped, StartGate, tree
<1>7. CommandOK'
  BY <1>2, <1>3, <1>4, <1>5 DEF CommandOK, StartGate, tree
<1>8. AuditOK'
  BY DEF AuditOK, StartGate
<1>9. BaselinesOK'
  BY <1>3 DEF GateInv, BaselinesOK, StartGate
<1>10. GateOK'
  <2>1. Recorded(records)' = {}
    BY <1>3 DEF Recorded, NoRecords
  <2>2. StagedHash[1] = Relevant(index.paths)
    BY DEF StagedHash, StartGate, Mode
  <2>3. Affected(StagedHash[1]) = agents
    BY <2>2, RelevantConcerns DEF agents
  <2> QED
    BY <1>3, <2>1, <2>3 DEF GateInv, GateOK, StartGate
<1> QED
  BY <1>6, <1>7, <1>8, <1>9, <1>10 DEF GateInv

\* The bases an audit begins with.
LEMMA AuditBases ==
  ASSUME GateInv, NEW agents \in SUBSET Agents, NEW how \in Hows, NEW f,
         f = [a \in Agents |-> IF a \in agents THEN AuditBase(a, how) ELSE None]
  PROVE  /\ f \in [Agents -> Nat \cup {None}]
         /\ ~spoiled => \A a \in agents : f[a] # None => 1..f[a] \subseteq reviewed[a]
<1>1. f \in [Agents -> Nat \cup {None}]
  BY BaseOfReport
<1>2. ASSUME ~spoiled, NEW a \in agents, f[a] # None PROVE 1..f[a] \subseteq reviewed[a]
  <2>1. f[a] = AuditBase(a, how) /\ a \in Agents
    OBVIOUS
  <2>2. PICK i \in DOMAIN baselines :
          a \in baselines[i].agents /\ AuditBase(a, how) = baselines[i].sha
    BY <1>2, <2>1, BaseOfReport
  <2> QED
    BY <1>2, <2>1, <2>2 DEF GateInv, BaselinesOK
<1> QED
  BY <1>1, <1>2
LEMMA FreshAuditStep ==
  ASSUME GateInv, NEW agents \in SUBSET Agents, NEW how \in Hows, FreshAudit(agents, how)
  PROVE  GateInv'
<1> DEFINE bases == [a \in Agents |-> IF a \in agents THEN AuditBase(a, how) ELSE None]
<1>1. /\ bases \in [Agents -> Nat \cup {None}]
      /\ ~spoiled => \A a \in agents : bases[a] # None => 1..bases[a] \subseteq reviewed[a]
  BY AuditBases
<1>2. /\ state' \in Checkpoints /\ state'.planned = agents /\ state'.done = {}
      /\ state'.sig = Signature /\ Signature[1] = head /\ head \in Nat
  BY CheckpointBegun DEF FreshAudit
<1>3. /\ op' = "audit" /\ step' = "looping" /\ items' = agents /\ base' = bases
      /\ sig' = Signature /\ records' = NoRecords
  BY DEF FreshAudit, Launch, NoRecords
<1> HIDE DEF bases
<1>4. /\ findings' = NoRecords /\ NoRecords \in [Agents -> Record \cup {None}]
      /\ \A a \in Agents : NoRecords[a] = None
  BY DEF FreshAudit, ClearOutput, NoRecords
<1>5. run' \in 1..MaxRuns /\ run' > 0 /\ kin' = {run'} /\ run' \in Nat
  BY ReviewersAssumption DEF GateInv, GateTyped, FreshAudit
<1>6. "looping" \notin Agents
  BY ReviewersAssumption
<1>7. GateTyped'
  BY <1>1, <1>2, <1>3, <1>4, <1>5 DEF GateInv, GateTyped, FreshAudit, tree
<1>8. CommandOK'
  BY <1>2, <1>3, <1>5, <1>6 DEF CommandOK, FreshAudit, tree
<1>9. AuditOK'
  BY <1>2, <1>3, <1>4, <1>5 DEF AuditOK
<1>10. BaselinesOK'
  BY <1>1, <1>3 DEF GateInv, BaselinesOK, FreshAudit
<1>11. GateOK'
  BY <1>3 DEF GateInv, GateOK, FreshAudit
<1> QED
  BY <1>7, <1>8, <1>9, <1>10, <1>11 DEF GateInv

LEMMA ResumeAuditStep ==
  ASSUME GateInv, NEW agents \in SUBSET Agents, NEW how \in Hows, ResumeAudit(agents, how)
  PROVE  GateInv'
<1> DEFINE bases == [a \in Agents |-> IF a \in agents THEN AuditBase(a, how) ELSE None]
<1>1. /\ bases \in [Agents -> Nat \cup {None}]
      /\ ~spoiled => \A a \in agents : bases[a] # None => 1..bases[a] \subseteq reviewed[a]
  BY AuditBases
<1>2. /\ state \in Checkpoints /\ state.sig = Signature
      /\ state.done \subseteq state.planned /\ state.sig[1] <= head
  BY DEF GateInv, GateTyped, CommandOK, ResumeAudit, MayResume
<1>3. /\ op' = "audit" /\ step' = "looping" /\ items' = agents \cap Pending(state) /\ base' = bases
      /\ sig' = Signature /\ records' = NoRecords
  BY DEF ResumeAudit, Launch, NoRecords
<1> HIDE DEF bases
<1>4. NoRecords \in [Agents -> Record \cup {None}]
  BY DEF NoRecords
<1>5. run' \in 1..MaxRuns /\ run' = run + 1 /\ run \in Nat /\ run' > 0
  BY ReviewersAssumption DEF GateInv, GateTyped, ResumeAudit
<1>6. kin' \subseteq 1..run' /\ (kin' # {} => kin # {} /\ run' \in kin' /\ kin \subseteq kin')
  <2>1. kin \subseteq 1..run /\ kin' = IF kin = {} THEN {} ELSE kin \cup {run'}
    BY <1>5 DEF GateInv, GateTyped, ResumeAudit
  <2>2. 1..run \subseteq 1..run' /\ run' \in 1..run'
    BY <1>5
  <2> QED
    BY <2>1, <2>2
<1>7. "looping" \notin Agents
  BY ReviewersAssumption
<1>8. UNCHANGED <<head, index, accepted, findings, state, marker, baselines, reviewed, spoiled,
                  judged>>
  BY DEF ResumeAudit, tree, disk
<1>9. GateTyped'
  BY <1>1, <1>3, <1>4, <1>5, <1>6, <1>8 DEF GateInv, GateTyped
<1>10. CommandOK'
  BY <1>2, <1>3, <1>5, <1>7, <1>8 DEF CommandOK, Pending
<1>11. AuditOK'
  BY <1>2, <1>3, <1>6, <1>8 DEF GateInv, AuditOK
<1>12. BaselinesOK'
  BY <1>1, <1>3, <1>8 DEF GateInv, BaselinesOK
<1>13. GateOK'
  BY <1>3, <1>8 DEF GateInv, GateOK
<1> QED
  BY <1>9, <1>10, <1>11, <1>12, <1>13 DEF GateInv

-----------------------------------------------------------------------------
(* A command proceeds                                                      *)

\* What a review may come to is a record of this run.
LEMMA AnswersAreRecords ==
  ASSUME GateInv, op # "idle", NEW a \in Agents, NEW r \in Answers(a) \cup {Failure}
  PROVE  r \in Record /\ r # None /\ r.run = run /\ r.ok \in BOOLEAN
<1>1. run \in 1..MaxRuns
  BY ReviewersAssumption DEF GateInv, GateTyped, CommandOK
<1>2. Findings[a] \subseteq FindingKinds /\ "none" \in FindingKinds
  BY ReviewersAssumption DEF FindingKinds
<1>3. r \in Record /\ r.run = run
  <2>1. CASE r = Failure
    BY <1>1, <1>2, <2>1 DEF Failure, Record
  <2>2. CASE r \in Answers(a)
    <3>1. r \in [run : {run}, ok : {TRUE}, finding : Findings[a], tools : BOOLEAN]
      BY <2>2 DEF Answers
    <3> QED
      BY <1>1, <1>2, <3>1 DEF Record
  <2> QED
    BY <2>1, <2>2
<1> QED
  BY <1>3, NoRecordAssumption DEF Record

\* What an agent is shown on top of what its base says it has been shown is all.
LEMMA ShownCompletes ==
  ASSUME GateInv, op = "audit", ~spoiled, NEW a \in items
  PROVE  /\ 1..state.sig[1] \subseteq reviewed[a] \cup Shown(base[a])
         /\ Shown(base[a]) \subseteq Nat
<1>1. /\ state \in Checkpoints /\ state.sig[1] \in Nat /\ sig = state.sig /\ state.sig[1] <= head
      /\ head \in Nat /\ a \in Agents
  BY ReviewersAssumption DEF GateInv, GateTyped, CommandOK, Checkpoints, Signatures
<1>2. CASE base[a] = None
  BY <1>1, <1>2 DEF Shown, Commits
<1>3. CASE base[a] # None
  <2>1. base[a] \in Nat /\ 1..base[a] \subseteq reviewed[a]
    BY <1>1, <1>3 DEF GateInv, GateTyped, BaselinesOK
  <2> QED
    BY <1>1, <1>3, <2>1 DEF Shown
<1> QED
  BY <1>2, <1>3

LEMMA ShownNumbers ==
  ASSUME GateInv, op = "audit", NEW a \in Agents
  PROVE  Shown(base[a]) \subseteq Nat
<1>1. state \in Checkpoints /\ sig = state.sig /\ sig[1] \in Nat /\ head \in Nat
  BY ReviewersAssumption DEF GateInv, GateTyped, CommandOK, Checkpoints, Signatures
<1>2. CASE base[a] = None
  BY <1>1, <1>2 DEF Shown, Commits
<1>3. CASE base[a] # None
  <2>1. base[a] \in Nat
    BY <1>3 DEF GateInv, GateTyped
  <2> QED
    BY <1>1, <1>3, <2>1 DEF Shown
<1> QED
  BY <1>2, <1>3

LEMMA RunAgentStep ==
  ASSUME GateInv, NEW a \in Agents, RunAgent(a)
  PROVE  GateInv'
<1>1. step = "looping" /\ a \in items /\ op # "idle" /\ op \in {"gate", "audit"}
  BY DEF GateInv, GateTyped, CommandOK, RunAgent
<1>2. PICK r \in Answers(a) \cup {Failure} :
        /\ WriteRecord(a, r)
        /\ reviewed' = IF op = "audit" /\ r.ok
                       THEN [reviewed EXCEPT ![a] = @ \cup Shown(base[a])] ELSE reviewed
        /\ judged' = IF op = "gate" THEN [judged EXCEPT ![a] = <<hash, r>>] ELSE judged
  BY DEF RunAgent
<1>3. r \in Record /\ r # None /\ r.run = run /\ r.ok \in BOOLEAN
  BY <1>1, AnswersAreRecords
<1>4. /\ findings' \in [Agents -> Record \cup {None}] /\ findings'[a] = r
      /\ \A b \in Agents \ {a} : findings'[b] = findings[b]
  BY <1>2, <1>3 DEF GateInv, GateTyped, WriteRecord
<1>5. /\ records' \in [Agents -> Record \cup {None}] /\ records'[a] = r
      /\ \A b \in Agents \ {a} : records'[b] = records[b]
  BY <1>2, <1>3 DEF GateInv, GateTyped, WriteRecord
<1>6. /\ reviewed' \in [Agents -> SUBSET Nat]
      /\ \A b \in Agents : reviewed[b] \subseteq reviewed'[b]
      /\ op = "audit" /\ r.ok => reviewed'[a] = reviewed[a] \cup Shown(base[a])
  BY <1>2, ShownNumbers DEF GateInv, GateTyped
<1>7. /\ UNCHANGED <<head, index, accepted, state, marker, baselines, op, items, base, sig, hash,
                     run, kin, asked, spoiled>>
      /\ step' = a
  BY <1>2 DEF RunAgent, WriteRecord, tree
<1>8. GateTyped'
  <2>1. DOMAIN judged' = Agents
    BY <1>2 DEF GateInv, GateTyped
  <2> QED
    BY <1>4, <1>5, <1>6, <1>7, <2>1 DEF GateInv, GateTyped
<1>9. a \notin {"none", "partial", "complete"}
  BY ReviewersAssumption
<1>10. CommandOK'
  BY <1>1, <1>3, <1>4, <1>5, <1>7, <1>9 DEF GateInv, CommandOK
<1>11. AuditOK'
  <2> SUFFICES ASSUME kin # {}
               PROVE  /\ state \in Checkpoints /\ op # "gate" /\ run \in kin
                      /\ \A b \in state.done : findings'[b] # None
                      /\ \A b \in Agents : findings'[b] # None =>
                           /\ findings'[b].run \in kin
                           /\ ~spoiled /\ findings'[b].ok => 1..state.sig[1] \subseteq reviewed'[b]
    BY <1>7 DEF AuditOK
  <2>1. state \in Checkpoints /\ op = "audit" /\ run \in kin
    BY <1>1 DEF GateInv, AuditOK
  <2>2. \A b \in state.done : findings'[b] # None
    BY <1>3, <1>4, <2>1 DEF GateInv, AuditOK, Checkpoints
  <2>3. ASSUME NEW b \in Agents \ {a}, findings'[b] # None
        PROVE  /\ findings'[b].run \in kin
               /\ ~spoiled /\ findings'[b].ok => 1..state.sig[1] \subseteq reviewed'[b]
    BY <1>4, <1>6, <2>3 DEF GateInv, AuditOK
  <2>4. ~spoiled /\ r.ok => 1..state.sig[1] \subseteq reviewed'[a]
    BY <1>1, <1>6, <2>1, ShownCompletes
  <2> QED
    BY <1>3, <1>4, <2>1, <2>2, <2>3, <2>4
<1>12. BaselinesOK'
  <2>1. \A i \in DOMAIN baselines : baselines[i].agents \subseteq Agents
    <3>1. baselines \in Seq(Baselines)
      BY DEF GateInv, GateTyped
    <3>2. \A i \in DOMAIN baselines : baselines[i] \in Baselines
      BY <3>1
    <3> QED
      BY <3>2 DEF Baselines
  <2>2. items \subseteq Agents
    BY DEF GateInv, GateTyped
  <2> QED
    BY <1>6, <1>7, <2>1, <2>2 DEF GateInv, BaselinesOK
<1>13. GateOK'
  <2>1. CASE op = "audit"
    BY <1>2, <1>7, <2>1 DEF GateInv, GateOK
  <2>2. CASE op = "gate"
    <3>1. /\ judged'[a] = <<hash, r>> /\ \A b \in Agents \ {a} : judged'[b] = judged[b]
      BY <1>2, <2>2 DEF GateInv, GateTyped
    <3>2. Recorded(records)' = Recorded(records) \cup {a}
      BY <1>3, <1>5 DEF Recorded
    <3>3. Affected(hash[1]) = items \cup Recorded(records) /\ a \in items
      BY <1>1, <2>2 DEF GateInv, GateOK
    <3>4. \A b \in Agents : judged'[b] # <<>> => b \in Affected(judged'[b][1][1])
      BY <3>1, <3>3 DEF GateInv, GateOK
    <3>5. \A b \in Recorded(records)' : judged'[b] = <<hash, records'[b]>>
      BY <1>5, <2>2, <3>1, <3>2 DEF GateInv, GateOK, Recorded
    <3> QED
      BY <1>7, <1>9, <3>2, <3>3, <3>4, <3>5 DEF GateOK
  <2> QED
    BY <1>1, <2>1, <2>2
<1> QED
  BY <1>8, <1>10, <1>11, <1>12, <1>13 DEF GateInv
LEMMA MarkDoneStep ==
  ASSUME GateInv, NEW a \in Agents, MarkDone(a)
  PROVE  GateInv'
<1>1. /\ step = a /\ op # "idle" /\ a \in items /\ findings[a] # None /\ records[a] # None
      /\ state \in Checkpoints /\ items \subseteq state.planned \ state.done
      /\ state.done \subseteq state.planned /\ state.sig[1] <= head /\ sig = state.sig
  BY DEF GateInv, CommandOK, MarkDone
<1>2. /\ state' = [state EXCEPT !.done = @ \cup {a}] /\ items' = items \ {a} /\ step' = "looping"
      /\ UNCHANGED <<tree, findings, marker, baselines, op, base, sig, hash, records, history>>
  BY DEF MarkDone
<1>3. /\ state' \in Checkpoints /\ state'.planned = state.planned /\ state'.sig = state.sig
      /\ state'.done = state.done \cup {a}
  BY <1>1, <1>2 DEF Checkpoints
<1>4. "looping" \notin Agents
  BY ReviewersAssumption
<1>5. GateTyped'
  BY <1>2, <1>3 DEF GateInv, GateTyped, tree, history
<1>6. CommandOK'
  BY <1>1, <1>2, <1>3, <1>4 DEF GateInv, CommandOK, tree, history
<1>7. AuditOK'
  BY <1>1, <1>2, <1>3 DEF GateInv, AuditOK, tree, history
<1>8. BaselinesOK'
  BY <1>2 DEF GateInv, BaselinesOK, history
<1>9. GateOK'
  <2>1. Recorded(records)' = Recorded(records) /\ a \in Recorded(records)
    BY <1>1, <1>2 DEF Recorded
  <2> QED
    BY <1>2, <2>1 DEF GateInv, GateOK, history
<1> QED
  BY <1>5, <1>6, <1>7, <1>8, <1>9 DEF GateInv

LEMMA ExhaustStep ==
  ASSUME GateInv, Exhaust
  PROVE  GateInv'
<1>1. "exhausted" \notin Agents /\ "looping" \notin Agents
  BY ReviewersAssumption
<1>2. GateTyped' /\ AuditOK' /\ BaselinesOK'
  BY DEF GateInv, GateTyped, AuditOK, BaselinesOK, Exhaust, tree, disk, history
<1>3. CommandOK'
  BY <1>1 DEF GateInv, CommandOK, Exhaust, tree, disk, history
<1>4. GateOK'
  <2>1. Recorded(records)' = Recorded(records)
    BY DEF Recorded, Exhaust
  <2> QED
    BY <2>1 DEF GateInv, GateOK, Exhaust, history
<1> QED
  BY <1>2, <1>3, <1>4 DEF GateInv

LEMMA ClearGateStep ==
  ASSUME GateInv, ClearGate
  PROVE  GateInv'
<1>1. /\ "exhausted" \notin Agents /\ "looping" \notin Agents
      /\ "partial" \notin Agents /\ "complete" \notin Agents
  BY ReviewersAssumption
<1>2. /\ findings' = NoRecords /\ NoRecords \in [Agents -> Record \cup {None}]
      /\ \A a \in Agents : NoRecords[a] = None
  BY DEF ClearGate, ClearStale, NoRecords
<1>3. /\ step' \in {"partial", "complete"} /\ (step' = "complete" => items = {}) /\ op = "gate"
      /\ UNCHANGED <<tree, state, marker, baselines, op, items, base, sig, hash, records, history>>
  BY DEF ClearGate, Finished
<1>4. GateTyped'
  BY <1>2, <1>3 DEF GateInv, GateTyped, tree, history
<1>5. CommandOK'
  BY <1>1, <1>3 DEF GateInv, CommandOK, tree, history
<1>6. AuditOK' /\ BaselinesOK'
  BY <1>3 DEF GateInv, AuditOK, BaselinesOK, history
<1>7. GateOK'
  <2>1. Recorded(records)' = Recorded(records)
    BY <1>3 DEF Recorded
  <2> QED
    BY <1>2, <1>3, <2>1 DEF GateInv, GateOK, history
<1> QED
  BY <1>4, <1>5, <1>6, <1>7 DEF GateInv

\* What a gate grades is what its own agents said.
LEMMA GradedIsRecorded ==
  ASSUME GateInv, FinishGate
  PROVE  findings' = records
<1>1. \A a \in Agents : findings[a] = None
  BY DEF GateInv, GateOK, FinishGate
<1> QED
  BY <1>1 DEF FinishGate, GateInv, GateTyped

LEMMA FinishGateStep ==
  ASSUME GateInv, FinishGate
  PROVE  GateInv'
<1>1. /\ op' = "idle" /\ step' = "none" /\ items' = {} /\ step' \notin Agents
      /\ base' \in [Agents -> Nat \cup {None}] /\ records' \in [Agents -> Record \cup {None}]
  BY EndStep DEF FinishGate
<1>2. findings' \in [Agents -> Record \cup {None}]
  BY GradedIsRecorded DEF GateInv, GateTyped
<1>3. marker'.verdict \in {"PASS", "FAIL"}
  BY DEF FinishGate, WriteMarker, Verdict
<1>4. kin = {} /\ UNCHANGED <<tree, state, baselines, history>>
  BY DEF GateInv, AuditOK, FinishGate
<1>5. GateTyped'
  BY <1>1, <1>2, <1>3, <1>4 DEF GateInv, GateTyped, tree, history
<1>6. CommandOK'
  BY <1>1, <1>4 DEF GateInv, CommandOK, tree, history
<1>7. AuditOK' /\ BaselinesOK' /\ GateOK'
  BY <1>1, <1>4 DEF GateInv, AuditOK, BaselinesOK, GateOK, history
<1> QED
  BY <1>5, <1>6, <1>7 DEF GateInv

LEMMA FinishAuditStep ==
  ASSUME GateInv, NEW preserve \in BOOLEAN, FinishAudit(preserve)
  PROVE  GateInv'
<1> DEFINE report == [sha |-> head, agents |-> Recorded(findings)]
<1>1. /\ op' = "idle" /\ step' = "none" /\ items' = {} /\ step' \notin Agents
      /\ base' \in [Agents -> Nat \cup {None}] /\ records' \in [Agents -> Record \cup {None}]
  BY EndStep DEF FinishAudit
<1>2. /\ UNCHANGED <<tree, findings, state, marker, run, kin, asked, reviewed, judged>>
      /\ baselines' = IF preserve THEN Append(baselines, report) ELSE baselines
      /\ op = "audit"
  BY DEF FinishAudit, Loaded
<1>3. /\ report \in Baselines /\ report.sha = head /\ report.agents = Recorded(findings)
      /\ baselines \in Seq(Baselines)
  BY ReviewersAssumption DEF GateInv, GateTyped, Baselines, Recorded
<1> HIDE DEF report
<1>4. /\ baselines' \in Seq(Baselines)
      /\ \A i \in DOMAIN baselines' :
           \/ i \in DOMAIN baselines /\ baselines'[i] = baselines[i]
           \/ preserve /\ baselines'[i] = report
  <2>1. CASE preserve
    BY <1>2, <1>3, <2>1
  <2>2. CASE ~preserve
    BY <1>2, <1>3, <2>2
  <2> QED
    BY <2>1, <2>2
<1>5. /\ spoiled' \in BOOLEAN
      /\ ~spoiled' => ~spoiled /\ (preserve => /\ head = sig[1]
                                              /\ \A a \in Recorded(findings) :
                                                   findings[a].ok /\ findings[a].run \in kin)
  BY DEF GateInv, GateTyped, FinishAudit
<1>6. GateTyped'
  BY <1>1, <1>2, <1>4, <1>5 DEF GateInv, GateTyped, tree
<1>7. CommandOK'
  BY <1>1, <1>2 DEF GateInv, CommandOK, tree
<1>8. AuditOK'
  BY <1>1, <1>2, <1>5 DEF GateInv, AuditOK
<1>9. BaselinesOK'
  <2> SUFFICES ASSUME ~spoiled', NEW i \in DOMAIN baselines', NEW a \in baselines'[i].agents
               PROVE  1..(baselines'[i].sha) \subseteq reviewed[a]
    BY <1>1, <1>2 DEF BaselinesOK
  <2>1. CASE i \in DOMAIN baselines /\ baselines'[i] = baselines[i]
    BY <1>5, <2>1 DEF GateInv, BaselinesOK
  <2>2. CASE preserve /\ baselines'[i] = report
    <3>1. a \in Recorded(findings) /\ baselines'[i].sha = head
      BY <1>3, <2>2
    <3>2. head = sig[1] /\ sig = state.sig /\ findings[a].ok /\ kin # {} /\ ~spoiled
      BY <1>2, <1>5, <2>2, <3>1 DEF GateInv, CommandOK
    <3>3. a \in Agents /\ findings[a] # None
      BY <3>1 DEF Recorded
    <3> QED
      BY <3>1, <3>2, <3>3 DEF GateInv, AuditOK
  <2> QED
    BY <1>4, <2>1, <2>2
<1>10. GateOK'
  BY <1>1, <1>2 DEF GateInv, GateOK
<1> QED
  BY <1>6, <1>7, <1>8, <1>9, <1>10 DEF GateInv

LEMMA GateStuttering ==
  ASSUME GateInv, UNCHANGED gateVars
  PROVE  GateInv'
<1>1. Recorded(records)' = Recorded(records)
  BY DEF Recorded, gateVars, command
<1>2. GateTyped' /\ CommandOK' /\ AuditOK' /\ BaselinesOK'
  BY DEF GateInv, GateTyped, CommandOK, AuditOK, BaselinesOK, gateVars, tree, disk, command, history
<1>3. GateOK'
  BY <1>1 DEF GateInv, GateOK, gateVars, disk, command, history
<1> QED
  BY <1>2, <1>3 DEF GateInv

LEMMA GateStep == GateInv /\ [GateNext]_gateVars => GateInv'
<1>1. ASSUME GateInv, Developer PROVE GateInv'
  BY <1>1, StageStep, CommitStep, RetireStep DEF Developer
<1>2. ASSUME GateInv, Begin PROVE GateInv'
  <2>1. ASSUME NEW agents \in Selections, NEW how \in Hows,
               FreshAudit(agents, how) \/ ResumeAudit(agents, how)
        PROVE  GateInv'
    <3>1. agents \in SUBSET Agents
      BY ReviewersAssumption
    <3> QED
      BY <1>2, <2>1, <3>1, FreshAuditStep, ResumeAuditStep
  <2>2. ASSUME NoopGate PROVE GateInv'
    BY <1>2, <2>2, SkipGateStep DEF NoopGate
  <2> QED
    BY <1>2, <2>1, <2>2, SkipGateStep, RegradeStep, StartGateStep DEF Begin
<1>3. ASSUME GateInv, Proceed PROVE GateInv'
  BY <1>3, RunAgentStep, MarkDoneStep, ExhaustStep, ClearGateStep, FinishGateStep, FinishAuditStep
     DEF Proceed
<1> QED
  BY <1>1, <1>2, <1>3, KillStep, GateStuttering DEF GateNext

\* What is on disk, the command at work and what the agents have been shown and
\* have said hang together, whoever stages, commits or kills a command, and when.
THEOREM GateInvariance == GateSpec => []GateInv
BY GateInitially, GateStep, PTL DEF GateSpec

LEMMA GateTyping == GateInv => GateTypeOK
<1> SUFFICES ASSUME GateInv PROVE GateTypeOK
  OBVIOUS
<1>1. state # None => state.planned \subseteq Agents /\ state.done \subseteq state.planned
  BY DEF GateInv, GateTyped, CommandOK, Checkpoints
<1> QED
  BY <1>1 DEF GateInv, GateTyped, GateTypeOK

\* A checkpoint has done no more than it planned, and the files are of the agents.
THEOREM GateTypes == GateSpec => []GateTypeOK
BY GateTyping, GateInvariance, PTL

\* What an audit skips has its record, what it reports is its own, and a delta
\* begins no later than what the agent has been shown, as long as every report
\* kept is of reviews that happened: for any agents, commits and runs, resumed
\* and killed at any step.
THEOREM AuditsTheorem == GateSpec => []AuditsBuildOnReviews
<1>1. GateInv => AuditsBuildOnReviews
  <2> SUFFICES ASSUME GateInv PROVE AuditsBuildOnReviews
    OBVIOUS
  <2>1. DoneIsRecorded
    BY DEF GateInv, AuditOK, Checkpoints, DoneIsRecorded
  <2>2. ReportIsOwn
    BY DEF GateInv, AuditOK, Recorded, ReportIsOwn
  <2>3. DeltaContinues
    BY DEF GateInv, BaselinesOK, DeltaContinues, DeltaSinceLastReview
  <2> QED
    BY <2>1, <2>2, <2>3 DEF AuditsBuildOnReviews
<1> QED
  BY <1>1, GateInvariance, PTL
\* Nothing but a gate that ends writes a marker that is neither a regrade's nor
\* that of a commit without reviews.
LEMMA WhoWritesMarkers ==
  ASSUME [GateNext]_gateVars, marker' # marker
  PROVE  \/ FinishGate
         \/ marker'.verdict = "PASS" /\ marker'.mode = "noop"
         \/ marker'.mode = "regrade"
<1>1. CASE Developer
  BY <1>1 DEF Developer, Stage, Commit, Retire, disk
<1>2. CASE Begin
  <2>1. CASE SkipGate \/ NoopGate
    BY <2>1 DEF NoopGate, SkipGate, PassUnreviewed, WriteMarker
  <2>2. CASE Regrade
    BY <2>2 DEF Regrade, WriteMarker
  <2>3. CASE StartGate
    BY <2>3 DEF StartGate
  <2>4. ASSUME NEW agents, NEW how, FreshAudit(agents, how) \/ ResumeAudit(agents, how) PROVE FALSE
    BY <2>4 DEF FreshAudit, ResumeAudit, disk
  <2> QED
    BY <1>2, <2>1, <2>2, <2>3, <2>4 DEF Begin
<1>3. CASE Proceed
  BY <1>3 DEF Proceed, RunAgent, MarkDone, Exhaust, ClearGate, FinishAudit, disk
<1>4. CASE Kill
  BY <1>4 DEF Kill, disk
<1>5. CASE UNCHANGED gateVars
  BY <1>5 DEF gateVars, disk
<1> QED
  BY <1>1, <1>2, <1>3, <1>4, <1>5 DEF GateNext

\* FAIL is for a record of this gate, and the agent's last review is that record.
LEMMA FailHasItsReview ==
  ASSUME GateInv, FinishGate, marker'.verdict = "FAIL"
  PROVE  Objection(marker'.hash)
<1>1. marker' = [hash |-> hash, verdict |-> Verdict(findings'), mode |-> marker'.mode]
  BY DEF FinishGate, WriteMarker
<1>2. Verdict(records) = "FAIL" /\ marker'.hash = hash
  BY <1>1, GradedIsRecorded
<1>3. PICK a \in Recorded(records) : Objects(a, records[a]) \/ Drifts(a, records[a])
  BY <1>2 DEF Verdict
<1>4. a \in Agents /\ judged[a] = <<hash, records[a]>>
  BY <1>3 DEF GateInv, GateOK, FinishGate, Recorded
<1>5. judged[a] # <<>> /\ judged[a][1] = hash /\ judged[a][2] = records[a]
  BY <1>4
<1> QED
  BY <1>2, <1>3, <1>4, <1>5 DEF Objection, Drifts

\* An agent that has objected to the content concerns it, so that a gate that is
\* complete has its record, and the record is that objection.
LEMMA PassHasNoObjection ==
  ASSUME GateInv, FinishGate, marker'.verdict = "PASS", marker'.mode = "gate"
  PROVE  ~Objection(marker'.hash)
<1>1. marker' = [hash |-> hash, verdict |-> Verdict(findings'), mode |-> marker'.mode]
  BY DEF FinishGate, WriteMarker
<1>2. Verdict(records) = "PASS" /\ marker'.hash = hash
  BY <1>1, GradedIsRecorded
<1>3. step = "complete"
  BY DEF FinishGate, WriteMarker
<1> SUFFICES ASSUME NEW a \in Agents, judged[a] # <<>>, judged[a][1] = hash,
                    Objects(a, judged[a][2]) \/ judged[a][2].tools
             PROVE  FALSE
  BY <1>2 DEF Objection
<1>4. a \in Affected(hash[1])
  BY DEF GateInv, GateOK
<1>5. a \in Recorded(records) /\ judged[a] = <<hash, records[a]>>
  BY <1>3, <1>4 DEF GateInv, GateOK, FinishGate
<1>6. Objects(a, records[a]) \/ Drifts(a, records[a])
  BY <1>5 DEF Drifts
<1> QED
  BY <1>2, <1>5, <1>6 DEF Verdict

\* The marker a commit is let through or held up by is earned by reviews of the
\* staged content: for any agents, any paths staged and any order of staging,
\* gates, audits and kills.
THEOREM VerdictsTheorem == GateSpec => VerdictsAreEarned
<1>1. GateInv /\ [GateNext]_gateVars =>
        [marker' # marker /\ marker'.verdict = "FAIL" /\ marker'.mode # "regrade"
           => Objection(marker'.hash)]_gateVars
  BY WhoWritesMarkers, FailHasItsReview
<1>2. GateInv /\ [GateNext]_gateVars =>
        [marker' # marker /\ marker'.verdict = "PASS" /\ marker'.mode = "gate"
           => ~Objection(marker'.hash)]_gateVars
  BY WhoWritesMarkers, PassHasNoObjection
<1>3. GateSpec => FailIsOfThisStage
  BY <1>1, GateInvariance, PTL DEF GateSpec, FailIsOfThisStage
<1>4. GateSpec => PassIsEarned
  BY <1>2, GateInvariance, PTL DEF GateSpec, PassIsEarned
<1> QED
  BY <1>3, <1>4, PTL DEF VerdictsAreEarned

-----------------------------------------------------------------------------
(* The three side by side                                                  *)

ReviewsInv == GateInv /\ JobsInv /\ EvalInv

LEMMA ReviewsStep == ReviewsInv /\ [ReviewsNext]_reviewsVars => ReviewsInv'
<1>1. ASSUME ReviewsInv, [ReviewsNext]_reviewsVars
      PROVE  [GateNext]_gateVars /\ [JobsNext]_jobVars /\ [EvalNext]_evalVars
  BY <1>1 DEF ReviewsNext, reviewsVars
<1> QED
  BY <1>1, GateStep, JobsStep, EvalStep DEF ReviewsInv

\* Side by side the three commands keep what each keeps alone.
THEOREM ReviewsInvariance == ReviewsSpec => []ReviewsInv
<1>1. ReviewsInit => ReviewsInv
  BY GateInitially, JobsInitially, EvalInitially DEF ReviewsInit, ReviewsInv
<1> QED
  BY <1>1, ReviewsStep, PTL DEF ReviewsSpec

\* Every variable of the three commands keeps its type.
THEOREM ReviewsTypesTheorem == ReviewsSpec => []ReviewsTypes
<1>1. ReviewsInv => ReviewsTypes
  BY GateTyping, JobsTyping, EvalTyping DEF ReviewsInv, ReviewsTypes
<1> QED
  BY <1>1, ReviewsInvariance, PTL
================================================================================
