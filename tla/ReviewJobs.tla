------------------------------ MODULE ReviewJobs ------------------------------
(***************************************************************************)
(* The reviews of a pull request: every push starts one job per agent      *)
(* (`framework review`: cli.py, review), whose call of the model may be a  *)
(* loop of tool turns (agentic.py), and then a job that aggregates the     *)
(* files they left into one comment (aggregate.py, comment.py).  The jobs  *)
(* run in parallel, may die at any step (the runner is lost, a later push  *)
(* cancels them), and the aggregation runs whatever became of them.  The   *)
(* workflows are external; pushes may overlap.                             *)
(***************************************************************************)
EXTENDS Naturals, FiniteSets, Sequences, SequencesExt

CONSTANTS
  Reviewers,
  Gating,       \* those with a block_threshold
  Looping,      \* those that run the tool loop
  Triggered,    \* Triggered[p]: those whose trigger globs push p's change matches
  Enabled,      \* a back end is configured
  MaxTurns,     \* max_agentic_turns
  MaxRecoveries,
  MaxPushes,    \* bound
  NoFile

ASSUME JobsAssumption ==
  /\ Gating \subseteq Reviewers /\ Looping \subseteq Reviewers
  /\ MaxPushes \in Nat /\ Triggered \in [1..MaxPushes -> SUBSET Reviewers]
  /\ MaxTurns \in Nat \ {0} /\ MaxRecoveries \in Nat

VARIABLES
  pushed,     \* pushes so far
  job,        \* job[p][a]: where the job is
  turn,       \* turn[p][a]: tool rounds it has had
  recovered,  \* recovered[p][a]: unparseable answers it has been nudged over
  verdict,    \* verdict[p][a]: the payload's conclusion, once there is one
  file,       \* file[p][a]: the conclusion in its findings file, NoFile: none
  agg,        \* agg[p]: where the aggregation is
  overall,    \* overall[p]: its result
  found,      \* found[p]: the comment it found, 0: none
  comments,   \* the summary comments on the pull request: [push, overall]
  calls,      \* history: calls[p][a]: calls of the model
  said,       \* history: said[p][a]: the findings the agent answered with
  raced       \* history: two aggregations were between listing and writing

jobVars == <<pushed, job, turn, recovered, verdict, file, agg, overall, found, comments,
            calls, said, raced>>

Pushes == 1..MaxPushes
Final  == {"over", "dead"}

Set(f, p, a, v) == [f EXCEPT ![p][a] = v]

Push ==
  /\ pushed < MaxPushes
  /\ pushed' = pushed + 1
  /\ job' = [job EXCEPT ![pushed + 1] = [a \in Reviewers |-> "begin"]]
  /\ UNCHANGED <<turn, recovered, verdict, file, agg, overall, found, comments, calls, said, raced>>

-----------------------------------------------------------------------------
(* framework review                                                        *)

\* neutral_payload, and to_check_run: an advisory agent blocks nothing.
Conclusion(a, findings) ==
  IF findings = "none" THEN "success"
  ELSE IF findings = "severe" /\ a \in Gating THEN "failure" ELSE "neutral"

\* The review is concluded: what is left is to post and to write it.
Conclude(p, a, conclusion) ==
  /\ verdict' = Set(verdict, p, a, conclusion)
  /\ job'     = Set(job, p, a, "posting")

\* No back end, or no file the agent is triggered by.
Skips(p, a) ==
  /\ job[p][a] = "begin"
  /\ ~Enabled \/ a \notin Triggered[p]
  /\ Conclude(p, a, "neutral")
  /\ UNCHANGED <<pushed, turn, recovered, file, agg, overall, found, comments, calls, said, raced>>

StartReview(p, a) ==
  /\ job[p][a] = "begin" /\ Enabled /\ a \in Triggered[p]
  /\ job' = Set(job, p, a, IF a \in Looping THEN "looping" ELSE "asking")
  /\ UNCHANGED <<pushed, turn, recovered, verdict, file, agg, overall, found, comments, calls,
                 said, raced>>

Call(p, a) == calls' = [calls EXCEPT ![p][a] = @ + 1]

\* Mutant: an agent that could not run fails its check.
UnreviewedIsRed(p, a) == Conclude(p, a, "failure") /\ UNCHANGED said

\* The call raises: the infrastructure, or an answer that cannot be parsed.
Unreviewed(p, a) == Conclude(p, a, "neutral") /\ UNCHANGED said

\* The answer is a findings array.
Answered(p, a) ==
  \E findings \in {"none", "slight", "severe"} :
    /\ said' = Set(said, p, a, findings)
    /\ Conclude(p, a, Conclusion(a, findings))

\* run_agent, or the loop's last call, which offers no tools.
AskOnce(p, a) ==
  /\ job[p][a] = "asking"
  /\ Call(p, a)
  /\ Answered(p, a) \/ Unreviewed(p, a)
  /\ UNCHANGED <<pushed, turn, recovered, file, agg, overall, found, comments, raced>>

\* A turn is over without findings; after the last the model is asked once
\* more.
NextTurn(p, a) ==
  /\ turn' = [turn EXCEPT ![p][a] = @ + 1]
  /\ job'  = IF turn'[p][a] = MaxTurns THEN Set(job, p, a, "asking") ELSE job
  /\ UNCHANGED <<verdict, said>>

\* An answer without tool calls that is no findings array: the model is
\* nudged, twice.
Recover(p, a) ==
  /\ recovered[p][a] < MaxRecoveries
  /\ recovered' = [recovered EXCEPT ![p][a] = @ + 1]
  /\ NextTurn(p, a)

Turn(p, a) ==
  /\ job[p][a] = "looping"
  /\ Call(p, a)
  /\ \/ UNCHANGED recovered /\ NextTurn(p, a)
     \/ Recover(p, a)
     \/ UNCHANGED <<turn, recovered>> /\ Answered(p, a)
     \/ UNCHANGED <<turn, recovered>> /\ Unreviewed(p, a)
  /\ UNCHANGED <<pushed, file, agg, overall, found, comments, raced>>

\* post_or_skip: the check run is posted, or silently is not.  What the
\* review itself needed is gone.
Post(p, a) ==
  /\ job[p][a] = "posting"
  /\ job'  = Set(job, p, a, "emitting")
  /\ turn' = Set(turn, p, a, 0) /\ recovered' = Set(recovered, p, a, 0)
  /\ calls' = Set(calls, p, a, 0) /\ said' = Set(said, p, a, "nothing")
  /\ UNCHANGED <<pushed, verdict, file, agg, overall, found, comments, raced>>

\* Mutant: a red job exits before it writes its findings.
EmitUnlessRed(p, a) ==
  /\ job[p][a] = "emitting"
  /\ file' = IF verdict[p][a] = "failure" THEN file ELSE Set(file, p, a, verdict[p][a])
  /\ job'  = Set(job, p, a, "over")
  /\ UNCHANGED <<pushed, turn, recovered, verdict, agg, overall, found, comments, calls, said, raced>>

\* write_findings; the job's exit code is its verdict's.
Emit(p, a) ==
  /\ job[p][a] = "emitting"
  /\ file' = Set(file, p, a, verdict[p][a])
  /\ job'  = Set(job, p, a, "over")
  /\ UNCHANGED <<pushed, turn, recovered, verdict, agg, overall, found, comments, calls, said, raced>>

Die(p, a) ==
  /\ job[p][a] \notin Final \cup {"none"}
  /\ job'  = Set(job, p, a, "dead")
  /\ turn' = Set(turn, p, a, 0) /\ recovered' = Set(recovered, p, a, 0)
  /\ calls' = Set(calls, p, a, 0) /\ said' = Set(said, p, a, "nothing")
  /\ verdict' = Set(verdict, p, a, NoFile)
  /\ UNCHANGED <<pushed, file, agg, overall, found, comments, raced>>

-----------------------------------------------------------------------------
(* framework review-aggregate                                              *)

\* aggregate over load_results: a file that is not there is not missed.
Aggregated(p) == IF \E a \in Reviewers : file[p][a] = "failure" THEN "fail" ELSE "pass"

\* Mutant: a lost job keeps the aggregation from running.
AggregateUnlessLost(p) ==
  /\ agg[p] = "none" /\ \A a \in Reviewers : job[p][a] = "over"
  /\ agg'     = [agg EXCEPT ![p] = "loaded"]
  /\ overall' = [overall EXCEPT ![p] = Aggregated(p)]
  /\ UNCHANGED <<pushed, job, turn, recovered, verdict, file, found, comments, calls, said, raced>>

\* needs: review, if: always().
Aggregate(p) ==
  /\ agg[p] = "none" /\ \A a \in Reviewers : job[p][a] \in Final
  /\ agg'     = [agg EXCEPT ![p] = "loaded"]
  /\ overall' = [overall EXCEPT ![p] = Aggregated(p)]
  /\ UNCHANGED <<pushed, job, turn, recovered, verdict, file, found, comments, calls, said, raced>>

\* Mutant: the comment is not recognised.
NeverSticky == 0

\* find_sticky_comment: the first comment with the marker.
Sticky == IF comments = <<>> THEN 0 ELSE 1

List(p) ==
  /\ agg[p] = "loaded"
  /\ agg'   = [agg EXCEPT ![p] = "listed"]
  /\ found' = [found EXCEPT ![p] = Sticky]
  /\ raced' = (raced \/ \E q \in Pushes : agg[q] = "listed")
  /\ UNCHANGED <<pushed, job, turn, recovered, verdict, file, overall, comments, calls, said>>

\* The comment found is replaced; else a new one is written.
PostComment(p) ==
  /\ agg[p] = "listed"
  /\ LET c == [push |-> p, overall |-> overall[p]] IN
       comments' = IF found[p] = 0 THEN Append(comments, c) ELSE [comments EXCEPT ![found[p]] = c]
  /\ agg' = [agg EXCEPT ![p] = "over"]
  /\ UNCHANGED <<pushed, job, turn, recovered, verdict, file, overall, found, calls, said, raced>>

\* A call of the API fails, and the command ends without a word.
CommentFails(p) ==
  /\ agg[p] \in {"loaded", "listed"}
  /\ agg' = [agg EXCEPT ![p] = "over"]
  /\ UNCHANGED <<pushed, job, turn, recovered, verdict, file, overall, found, comments, calls,
                 said, raced>>

-----------------------------------------------------------------------------
JobsInit ==
  /\ pushed = 0
  /\ job       = [p \in Pushes |-> [a \in Reviewers |-> "none"]]
  /\ turn      = [p \in Pushes |-> [a \in Reviewers |-> 0]]
  /\ recovered = [p \in Pushes |-> [a \in Reviewers |-> 0]]
  /\ verdict   = [p \in Pushes |-> [a \in Reviewers |-> NoFile]]
  /\ file      = [p \in Pushes |-> [a \in Reviewers |-> NoFile]]
  /\ agg       = [p \in Pushes |-> "none"]
  /\ overall   = [p \in Pushes |-> "pass"]
  /\ found     = [p \in Pushes |-> 0]
  /\ comments  = <<>>
  /\ calls     = [p \in Pushes |-> [a \in Reviewers |-> 0]]
  /\ said      = [p \in Pushes |-> [a \in Reviewers |-> "nothing"]]
  /\ raced     = FALSE

Job(p, a) == Skips(p, a) \/ StartReview(p, a) \/ AskOnce(p, a) \/ Turn(p, a) \/ Post(p, a) \/ Emit(p, a)

Aggregation(p) == Aggregate(p) \/ List(p) \/ PostComment(p) \/ CommentFails(p)

JobsNext == \/ Push
            \/ \E p \in Pushes, a \in Reviewers : Job(p, a) \/ Die(p, a)
            \/ \E p \in Pushes : Aggregation(p)

JobsSpec == JobsInit /\ [][JobsNext]_jobVars

\* The runners go on with the jobs of every push, in some order.
JobsFairness ==
  \A p \in Pushes : WF_jobVars((\E a \in Reviewers : Job(p, a)) \/ Aggregation(p))

-----------------------------------------------------------------------------
JobsTypeOK ==
  /\ pushed \in 0..MaxPushes
  /\ \A p \in Pushes, a \in Reviewers :
       /\ job[p][a] \in {"none", "begin", "looping", "asking", "posting", "emitting"} \cup Final
       /\ turn[p][a] \in 0..MaxTurns /\ recovered[p][a] \in 0..MaxRecoveries
       /\ {verdict[p][a], file[p][a]} \subseteq {NoFile, "success", "neutral", "failure"}
       /\ said[p][a] \in {"nothing", "none", "slight", "severe"}
  /\ \A p \in Pushes : agg[p] \in {"none", "loaded", "listed", "over"} /\ found[p] <= Len(comments)

\* A check is red only over severe findings of a gating agent: no failure of
\* the back end, of the loop or of the agent's own protocol turns a pull
\* request red.
RedOnlyByFindings ==
  \A p \in Pushes, a \in Reviewers :
    job[p][a] = "posting" /\ verdict[p][a] = "failure" => a \in Gating /\ said[p][a] = "severe"

\* The comment does not say that a push passed when a job of it that ran to
\* its end was red, whichever of them were lost.
PassHidesNoFailure ==
  \A i \in DOMAIN comments : comments[i].overall = "pass" =>
    \A a \in Reviewers : job[comments[i].push][a] = "over" =>
      verdict[comments[i].push][a] # "failure"

\* Whatever an agent does, its review costs at most max_turns calls and the
\* last one.
CallsBounded == \A p \in Pushes, a \in Reviewers : calls[p][a] <= MaxTurns + 1

\* There is one summary comment, unless two aggregations ran into each other
\* between listing the comments and writing theirs.
OneComment == raced \/ Len(comments) <= 1

\* Every push gets its aggregation, whatever becomes of its jobs.
EveryPushIsAggregated == []<>(\A p \in 1..pushed : agg[p] = "over")

\* Neither a red check nor a green comment comes from anything but findings, and
\* the jobs keep to their bounds.
ReviewsAreSound == RedOnlyByFindings /\ PassHidesNoFailure /\ CallsBounded /\ OneComment
===============================================================================
