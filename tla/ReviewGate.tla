------------------------------ MODULE ReviewGate ------------------------------
(***************************************************************************)
(* The two commands that run review agents in the process: `framework gate`*)
(* over what is staged, before a commit, and `framework audit` over the    *)
(* tree, whose preserved reports are the baselines of later audits (cli.py;*)
(* review/engine.py, checkpoint.py, baselines.py).  Both keep their        *)
(* records and run-state.json in ONE directory, .framework/audit/latest,   *)
(* and each may stop half-way: the back end is exhausted, the process is   *)
(* killed.  The developer stages, commits and retires a design decision    *)
(* meanwhile.  One command runs at a time.                                 *)
(*                                                                         *)
(* A commit is its number; what is staged is a set of paths and a version  *)
(* of their content.  A path is a tuple, <<"prompt", a>> the prompt of a.  *)
(***************************************************************************)
EXTENDS Naturals, FiniteSets, Sequences, SequencesExt

CONSTANTS
  Agents,
  Blocking,      \* those with a block_threshold; the others are advisory
  Agentic,       \* those that explore the tree with tools
  Stagings,      \* the sets of paths the developer stages
  Findings,      \* Findings[a]: what a review of a may come to
  Selections,    \* the sets of agents an audit is asked for
  MaxCommits, MaxStagings, MaxRuns, MaxBaselines,  \* bounds
  None

FindingKinds == {"none", "minor", "blocking", "acknowledged", "stale"}

ASSUME ReviewersAssumption ==
  /\ Blocking \subseteq Agents /\ Agentic \subseteq Agents
  /\ Findings \in [Agents -> SUBSET FindingKinds]
  /\ Selections \subseteq SUBSET Agents
  /\ {MaxCommits, MaxStagings, MaxRuns, MaxBaselines} \subseteq Nat /\ MaxCommits > 0
  /\ Agents \cap {"none", "looping", "exhausted", "partial", "complete"} = {}

VARIABLES
  head,       \* the commit checked out
  index,      \* [paths, version]: what is staged
  accepted,   \* the decision that findings acknowledge is still active
  findings,   \* findings[a]: findings/<a>.json, None: no file
  state,      \* run-state.json: [planned, done, sig], None: no file
  marker,     \* marker.json: [hash, verdict, mode], None: no file
  baselines,  \* meta.json of the preserved reports, [sha, agents], oldest first
  op,         \* the command that runs, or "idle"
  step,       \* where it is
  items,      \* the agents it has still to look at
  base,       \* base[a]: the commit a's diff starts from, None: a snapshot
  sig,        \* the signature of the tree when it began
  hash,       \* the staged hash when it began
  records,    \* EngineResult.records: [agent -> record], None: not run
  run,        \* runs begun
  kin,        \* history: the runs of the audit the checkpoint belongs to
  asked,      \* history: the agents that audit was asked for
  reviewed,   \* history: reviewed[a]: the commits audits have shown to a
  spoiled,    \* history: a preserved report lists a review that did not happen
  judged      \* history: judged[a]: a's last review in a gate, and of what

tree    == <<head, index, accepted>>
disk    == <<findings, state, marker, baselines>>
command == <<op, step, items, base, sig, hash, records>>
history == <<run, kin, asked, reviewed, spoiled, judged>>
gateVars == <<tree, disk, command, history>>

Commits == 1..head

-----------------------------------------------------------------------------
(* What is staged                                                          *)

Prompt(a)  == <<"prompt", a>>
Fixture(a) == <<"fixture", a>>

\* _is_review_relevant
Relevant(paths) == paths \ {<<"readme">>}

\* _affected_agents, its set
Affected(paths) ==
  {a \in Agents :
     \/ Prompt(a) \in paths \/ Fixture(a) \in paths
     \/ <<"runner">> \in paths /\ a \notin Agentic
     \/ <<"agentic">> \in paths /\ a \in Agentic
     \/ <<"registry">> \in paths \/ <<"template">> \in paths}

\* _affected_agents, its mode
Mode(paths) ==
  IF Relevant(paths) = {} THEN "noop"
  ELSE IF Relevant(paths) = {<<"thresholds">>} THEN "regrade" ELSE "gate"

\* _staged_hash: of the relevant content only
StagedHash == IF Relevant(index.paths) = {} THEN <<{}, 0>>
              ELSE <<Relevant(index.paths), index.version>>

\* tree_signature: HEAD, and the uncommitted content
Signature == <<head, index.version>>

Stage(paths) ==
  /\ index.version < MaxStagings
  /\ index' = [paths |-> paths, version |-> index.version + 1]
  /\ UNCHANGED <<head, accepted, disk, command, history>>

Commit ==
  /\ index.paths # {} /\ head < MaxCommits
  /\ head'  = head + 1
  /\ index' = [index EXCEPT !.paths = {}]
  /\ UNCHANGED <<accepted, disk, command, history>>

Retire ==
  /\ accepted
  /\ accepted' = FALSE
  /\ UNCHANGED <<head, index, disk, command, history>>

-----------------------------------------------------------------------------
(* Records and the checkpoint                                              *)

Record == [run : 1..MaxRuns, ok : BOOLEAN, finding : FindingKinds, tools : BOOLEAN]

\* What stands for no file is no record.
ASSUME NoRecordAssumption == None \notin Record

\* What _run_one may return for a: an agent that has no tools calls none.
Answers(a) ==
  {r \in [run : {run}, ok : {TRUE}, finding : Findings[a], tools : BOOLEAN] : r.tools => a \in Agentic}

\* _failure_record: empty findings and an error.
Failure == [run |-> run, ok |-> FALSE, finding |-> "none", tools |-> FALSE]

Recorded(recs) == {a \in Agents : recs[a] # None}

\* Mutant: what an earlier run has done counts.
InitKeepingDone(agents) ==
  state' = [planned |-> agents, sig |-> Signature,
            done |-> IF state = None THEN {} ELSE state.done \cap agents]

\* init_run
InitRun(agents) == state' = [planned |-> agents, done |-> {}, sig |-> Signature]

\* Mutant: whatever is not done is pending, planned or not.
PendingOfAll(s) == Agents \ s.done

\* pending_items
Pending(s) == s.planned \ s.done

\* analyze.load_records, _load_records_from_checkpoint
Loaded == findings

\* _finalize_gate's `blocking`, and flags: an acknowledgement of a decision
\* that is no longer active, or that the agent calls stale, exempts nothing.
Objects(a, r) ==
  /\ a \in Blocking
  /\ \/ r.finding \in {"blocking", "stale"}
     \/ r.finding = "acknowledged" /\ ~accepted

\* drift_check: the whitelist has the names of another harness's tools, so
\* that every tool the loop offers is outside it.
Drifts(a, r) == r.tools

Verdict(recs) ==
  IF \E a \in Recorded(recs) : Objects(a, recs[a]) \/ Drifts(a, recs[a]) THEN "FAIL" ELSE "PASS"

\* The command is over, by its end, an error it swallows or a kill.
EndCommand ==
  /\ op'      = "idle"
  /\ step'    = "none"
  /\ items'   = {}
  /\ base'    = [a \in Agents |-> None]
  /\ records' = [a \in Agents |-> None]
  /\ sig'     = None
  /\ hash'    = None

Kill ==
  /\ op # "idle"
  /\ EndCommand
  /\ UNCHANGED <<tree, disk, history>>

\* The loop of run_engine begins.
Launch(name, agents, bases) ==
  /\ op'      = name
  /\ step'    = "looping"
  /\ items'   = agents
  /\ base'    = bases
  /\ sig'     = Signature
  /\ hash'    = StagedHash
  /\ records' = [a \in Agents |-> None]

-----------------------------------------------------------------------------
(* framework gate                                                          *)

WriteMarker(h, verdict, mode) == marker' = [hash |-> h, verdict |-> verdict, mode |-> mode]

\* No back end, or nothing relevant staged: a fresh PASS, whatever is on disk.
PassUnreviewed ==
  WriteMarker(StagedHash, "PASS", "noop")

SkipGate ==
  /\ op = "idle"
  /\ PassUnreviewed
  /\ UNCHANGED <<tree, findings, state, baselines, command, history>>

NoopGate == Mode(index.paths) = "noop" /\ SkipGate

\* Only the thresholds are staged: the findings on disk are graded again.
Regrade ==
  /\ op = "idle" /\ Mode(index.paths) = "regrade"
  /\ WriteMarker(StagedHash, Verdict(Loaded), "regrade")
  /\ UNCHANGED <<tree, findings, state, baselines, command, history>>

\* Mutant: the gate resumes, as its own message has it.
GateResumes(agents) ==
  IF state # None /\ state.sig = Signature
  THEN state' = state /\ Launch("gate", agents \cap Pending(state), [a \in Agents |-> None])
  ELSE InitRun(agents) /\ Launch("gate", agents, [a \in Agents |-> None])

\* Every gate begins its run afresh, whatever run-state.json says.
GateRun(agents) ==
  /\ InitRun(agents)
  /\ Launch("gate", agents, [a \in Agents |-> None])

StartGate ==
  /\ op = "idle" /\ run < MaxRuns
  /\ Mode(index.paths) = "gate"
  /\ GateRun(Affected(index.paths))
  /\ run' = run + 1
  /\ kin' = {}
  /\ UNCHANGED <<tree, findings, marker, baselines, asked, reviewed, spoiled, judged>>

-----------------------------------------------------------------------------
(* framework audit                                                         *)

\* Mutant: the newest baseline, whoever is in it.
NewestOfAny(a) == IF baselines = <<>> THEN None ELSE Last(baselines).sha

\* find_latest_baseline_for_agent: the newest that lists the agent.
Newest(a) ==
  LET at == {i \in DOMAIN baselines : a \in baselines[i].agents}
  IN  IF at = {} THEN None ELSE baselines[CHOOSE i \in at : \A j \in at : j <= i].sha

\* _resolve_audit_base.  --since names a baseline, by its place.
AuditBase(a, how) ==
  CASE how = <<"snapshot">> -> None
    [] how = <<"auto">>     -> Newest(a)
    [] OTHER -> IF a \in baselines[how[2]].agents THEN baselines[how[2]].sha ELSE None

Hows == {<<"snapshot">>, <<"auto">>} \cup {<<"since", i>> : i \in DOMAIN baselines}

\* What the agent is shown: the tree, or the delta to HEAD as the command
\* began.
Shown(b) == IF b = None THEN Commits ELSE (b + 1)..sig[1]

\* Mutant: an earlier run's records stay.
KeepOutput == UNCHANGED findings

\* --fresh, or no --resume: what an earlier run left is removed.
ClearOutput == findings' = [a \in Agents |-> None]

FreshAudit(agents, how) ==
  /\ op = "idle" /\ run < MaxRuns
  /\ ClearOutput
  /\ InitRun(agents)
  /\ Launch("audit", agents, [a \in Agents |-> IF a \in agents THEN AuditBase(a, how) ELSE None])
  /\ run' = run + 1
  /\ kin' = {run + 1} /\ asked' = agents
  /\ UNCHANGED <<tree, marker, baselines, reviewed, spoiled, judged>>

\* --resume: refused when the tree is not the checkpoint's, and impossible
\* without one.
MayResume == state # None /\ state.sig = Signature

ResumeAudit(agents, how) ==
  /\ op = "idle" /\ run < MaxRuns
  /\ MayResume
  /\ Launch("audit", agents \cap Pending(state),
            [a \in Agents |-> IF a \in agents THEN AuditBase(a, how) ELSE None])
  /\ run' = run + 1
  /\ kin' = IF kin = {} THEN {} ELSE kin \cup {run + 1}
  /\ asked' = IF asked \subseteq agents THEN asked ELSE {}
  /\ UNCHANGED <<tree, disk, reviewed, spoiled, judged>>

-----------------------------------------------------------------------------
(* run_engine                                                              *)

\* The item is reviewed, or fails, and its record is written.
WriteRecord(a, r) ==
  /\ findings' = [findings EXCEPT ![a] = r]
  /\ records'  = [records EXCEPT ![a] = r]
  /\ step'     = a

RunAgent(a) ==
  /\ step = "looping" /\ a \in items
  /\ \E r \in Answers(a) \cup {Failure} :
       /\ WriteRecord(a, r)
       /\ reviewed' = IF op = "audit" /\ r.ok
                      THEN [reviewed EXCEPT ![a] = @ \cup Shown(base[a])] ELSE reviewed
       /\ judged' = IF op = "gate" THEN [judged EXCEPT ![a] = <<hash, r>>] ELSE judged
  /\ UNCHANGED <<tree, state, marker, baselines, op, items, base, sig, hash, run, kin,
                 asked, spoiled>>

\* Mutant: a failed item is put back.
RetryFailed(a) ==
  /\ step = a
  /\ state' = [state EXCEPT !.done = @ \cup {a}]
  /\ items' = IF findings[a].ok THEN items \ {a} ELSE items
  /\ step'  = "looping"
  /\ UNCHANGED <<tree, findings, marker, baselines, op, base, sig, hash, records, history>>

\* append_record marks it done in run-state.json.
MarkDone(a) ==
  /\ step = a
  /\ state' = [state EXCEPT !.done = @ \cup {a}]
  /\ items' = items \ {a}
  /\ step'  = "looping"
  /\ UNCHANGED <<tree, findings, marker, baselines, op, base, sig, hash, records, history>>

\* BackendExhausted: no further item is scheduled.
Exhaust ==
  /\ step = "looping" /\ items # {}
  /\ step' = "exhausted"
  /\ UNCHANGED <<tree, disk, op, items, base, sig, hash, records, history>>

Finished == step = "exhausted" \/ (step = "looping" /\ items = {})

-----------------------------------------------------------------------------
(* _finalize_gate and _finalize_audit                                      *)

\* Mutant: they stay.
KeepStale(next) == UNCHANGED findings

\* The records of earlier runs are removed from the directory ...
ClearStale(next) == findings' = [a \in Agents |-> None]

ClearGate ==
  /\ op = "gate" /\ Finished
  /\ ClearStale(step)
  /\ step' = IF step = "exhausted" THEN "partial" ELSE "complete"
  /\ UNCHANGED <<tree, state, marker, baselines, op, items, base, sig, hash, records, history>>

\* ... and this run's written, all are loaded and graded, and the marker is
\* written.
FinishGate ==
  /\ op = "gate" /\ step \in {"partial", "complete"}
  /\ findings' = [a \in Agents |-> IF records[a] # None THEN records[a] ELSE findings[a]]
  /\ WriteMarker(hash, Verdict(findings'),
       IF step = "complete" /\ \A a \in Recorded(records) : records[a].ok THEN "gate" ELSE "open")
  /\ EndCommand
  /\ UNCHANGED <<tree, state, baselines, history>>

\* Every record in the directory is in the report, whose sha is HEAD now.
FinishAudit(preserve) ==
  /\ op = "audit" /\ Finished
  /\ preserve => Len(baselines) < MaxBaselines
  /\ baselines' = IF preserve THEN Append(baselines, [sha |-> head, agents |-> Recorded(Loaded)])
                  ELSE baselines
  /\ spoiled' = (spoiled \/ (preserve /\ (\/ head # sig[1]
                                        \/ \E a \in Recorded(findings) :
                                             ~findings[a].ok \/ findings[a].run \notin kin)))
  /\ EndCommand
  /\ UNCHANGED <<tree, findings, state, marker, run, kin, asked, reviewed, judged>>

-----------------------------------------------------------------------------
GateInit ==
  /\ head = 1 /\ index = [paths |-> {}, version |-> 0] /\ accepted = TRUE
  /\ findings = [a \in Agents |-> None]
  /\ state = None /\ marker = None /\ baselines = <<>>
  /\ op = "idle" /\ step = "none" /\ items = {}
  /\ base = [a \in Agents |-> None] /\ records = [a \in Agents |-> None]
  /\ sig = None /\ hash = None
  /\ run = 0 /\ kin = {} /\ asked = {} /\ spoiled = FALSE
  /\ reviewed = [a \in Agents |-> {}] /\ judged = [a \in Agents |-> <<>>]

Developer == (\E paths \in Stagings : Stage(paths)) \/ Commit \/ Retire

Begin == \/ SkipGate \/ NoopGate \/ Regrade \/ StartGate
         \/ \E agents \in Selections, how \in Hows :
              FreshAudit(agents, how) \/ ResumeAudit(agents, how)

Proceed == \/ \E a \in Agents : RunAgent(a) \/ MarkDone(a)
           \/ Exhaust \/ ClearGate \/ FinishGate
           \/ \E preserve \in BOOLEAN : FinishAudit(preserve)

GateNext == Developer \/ Begin \/ Proceed \/ Kill

GateSpec == GateInit /\ [][GateNext]_gateVars

\* A model call answers or fails, and nothing else keeps a command waiting.
GateFairSpec == GateSpec /\ WF_gateVars(Proceed)

-----------------------------------------------------------------------------
GateTypeOK ==
  /\ head \in 1..MaxCommits /\ accepted \in BOOLEAN
  /\ index \in [paths : Stagings \cup {{}}, version : 0..MaxStagings]
  /\ findings \in [Agents -> Record \cup {None}] /\ records \in [Agents -> Record \cup {None}]
  /\ state = None \/ (state.planned \subseteq Agents /\ state.done \subseteq state.planned)
  /\ marker = None \/ marker.verdict \in {"PASS", "FAIL"}
  /\ op \in {"idle", "gate", "audit"} /\ items \subseteq Agents
  /\ step \in {"none", "looping", "exhausted", "partial", "complete"} \cup Agents

\* An agent of a gate objected to content h when it last reviewed it.
Objection(h) == \E a \in Agents : /\ judged[a] # <<>> /\ judged[a][1] = h
                                 /\ (Objects(a, judged[a][2]) \/ judged[a][2].tools)

\* A gate writes FAIL for what is staged only if an agent of a gate objected
\* to that very content: neither an earlier run's findings in the shared
\* directory, nor an audit's, nor an infrastructure failure blocks a commit.
\* (A regrade grades earlier findings on purpose.)
FailIsOfThisStage ==
  [][marker' # marker /\ marker'.verdict = "FAIL" /\ marker'.mode # "regrade"
     => Objection(marker'.hash)]_gateVars

\* The converse: a gate that was neither exhausted nor lost an agent writes
\* PASS only if none of the agents objected when it last reviewed that
\* content, in this run or in one that was given up before.
PassIsEarned ==
  [][marker' # marker /\ marker'.verdict = "PASS" /\ marker'.mode = "gate"
     => ~Objection(marker'.hash)]_gateVars

\* While the checkpoint is an audit's, every agent it calls done has its
\* record on disk, and the record is of that audit: a resume skips no agent
\* whose review was lost, and reports no other run's review as this one's.
DoneIsRecorded ==
  kin # {} => \A a \in state.done : findings[a] # None /\ findings[a].run \in kin

\* A report of an audit that no gate interfered with is made of the records
\* of that audit alone.
ReportIsOwn ==
  op = "audit" /\ kin # {} => \A a \in Recorded(findings) : findings[a].run \in kin

\* A command that is not killed ends: an agent that keeps failing, or a back
\* end that stays exhausted, does not hold the commit.
EveryCommandEnds == (op # "idle") ~> (op = "idle")

\* A delta review starts where the agent's last review of this target ended:
\* all commits before the base have been shown to it.
DeltaSinceLastReview ==
  op = "audit" => \A a \in items : base[a] # None => 1..base[a] \subseteq reviewed[a]

\* It does so as long as every preserved report is of reviews that happened,
\* at the commit it names.
DeltaContinues == ~spoiled => DeltaSinceLastReview

\* An audit that was given up and is resumed, and not exhausted again, ends
\* with a review of every agent the audit was asked for.
ResumeCompletes ==
  op = "audit" /\ step = "looping" /\ items = {} => \A a \in asked : findings[a] # None

\* A gate whose agents raise nothing, and use the tools they are given, does
\* not block the commit.
ToolsAreNoDrift ==
  [][marker' # marker /\ marker'.verdict = "FAIL" /\ marker'.mode = "gate" =>
       \E a \in Blocking : records[a] # None /\ records[a].finding # "none"]_gateVars

\* The marker a commit is let through or held up by is earned by reviews of the
\* staged content, both ways.
VerdictsAreEarned == FailIsOfThisStage /\ PassIsEarned

\* An audit builds on its own work and on reviews that happened: what it skips,
\* what it reports and where its deltas begin.
AuditsBuildOnReviews == DoneIsRecorded /\ ReportIsOwn /\ DeltaContinues
===============================================================================
