----------------------------- MODULE AuditPipeline -----------------------------
(***************************************************************************)
(* The reviewer audit (review/audit/pipeline.py, run_audit): an audit of   *)
(* every target, one reconciliation of the reports into a changelist, and  *)
(* a refutation of every edit it proposes.  The first and the last are     *)
(* checkpointed stages (orchestrator.py, run_stage; checkpoint.py) whose   *)
(* worker threads record one item at a time under a lock; the changelist   *)
(* is a checkpoint of its own.  All of it lies in one directory, which     *)
(* outlives the process: a run may crash or be given up when the back end  *)
(* is exhausted, and the next one may resume or begin again.               *)
(*                                                                         *)
(* A file is torn from the moment write_text truncates it until all of it  *)
(* is written; run-state.json is replaced atomically.  What a report, a    *)
(* changelist or a verdict was made from is a set of pieces: which audit,  *)
(* and which version of the inputs it read.  One run at a time.            *)
(***************************************************************************)
EXTENDS Naturals, FiniteSets

CONSTANTS
  Inputs,       \* versions of what _audit_provenance fingerprints
  Targets,      \* the reviewers
  TargetsOf,    \* TargetsOf[v]: the reviewers a run on version v audits
  Edits,        \* the ids of the edits a reconciliation may propose
  Concurrency,  \* worker threads of a stage
  MaxRuns,      \* bound: runs started
  MaxEdits,     \* bound: changes of the inputs
  None, Torn

ASSUME TargetsAssumption == TargetsOf \in [Inputs -> SUBSET Targets]
ASSUME DisjointAssumption == Targets \cap Edits = {}

VARIABLES
  inputs,    \* what is in the tree now
  stamp,     \* audit-provenance.json: the version it names, None or Torn
  plan,      \* plan[s]: "planned" of the stage's run-state.json; None: no file
  done,      \* done[s]: its "done"
  rec,       \* findings/<id>.json: what it was made from, None or Torn
  recon,     \* stage2-reconcile.json: the changelist, None or Torn
  pc,        \* where the run is, or "idle"
  resume,    \* the run's --resume
  cur,       \* the version the run has fingerprinted
  stage,     \* the stage the run is in
  cl,        \* the changelist the run works with
  todo,      \* items submitted to the pool and not taken up
  work,      \* work[i]: what a worker does with i
  made,      \* made[i]: what the record of i in the worker's hands is made from
  seen,      \* seen[i]: "done" as the worker recording i has read it
  stopped,   \* the stop event
  lock,      \* whose record is being appended
  audit,     \* history: the number of audits begun afresh
  opened,    \* history: opened[s]: the audit that last began stage s afresh
  edited,    \* history: the inputs changed during a run of this audit
  leftover,  \* history: the run resumed over files of an earlier audit
  runs, changes  \* counters for the bounds

disk    == <<stamp, plan, done, rec, recon>>
locals  == <<resume, cur, stage, cl>>
pool    == <<todo, work, made, seen, stopped, lock>>
history == <<audit, opened, edited, leftover>>
bounds  == <<runs, changes>>
vars    == <<inputs, disk, pc, locals, pool, history, bounds>>

Stages     == {"audit", "refute"}
Items      == Targets \cup Edits
Piece      == [audit : Nat, inputs : Inputs]
Report     == [pieces : SUBSET Piece]
Changelist == [pieces : SUBSET Piece, edits : SUBSET Edits]

ASSUME MissingAssumption ==
  /\ None # Torn
  /\ {None, Torn} \cap (Inputs \cup Items \cup Report \cup Changelist) = {}
  /\ \A S \in SUBSET Items : S # None

Places == {"idle", "stamping", "opening", "running", "reconciling", "saving", "publishing"}
Steps  == {"none", "working", "writing", "marking"}

\* The ids run_stage is called with.
Ids == IF stage = "audit" THEN TargetsOf[cur] ELSE cl.edits

Busy == {i \in Items : work[i] # "none"}

\* What run_stage returns is made from these.
Returned(s) == UNION {rec[i].pieces : i \in Ids \cap done[s]}

-----------------------------------------------------------------------------
(* The process                                                             *)

ClearPool ==
  /\ todo'    = {}
  /\ work'    = [i \in Items |-> "none"]
  /\ made'    = [i \in Items |-> {}]
  /\ seen'    = [i \in Items |-> {}]
  /\ stopped' = FALSE
  /\ lock'    = None

\* The process is gone, by an exception, a crash or its end.
EndRun ==
  /\ pc'     = "idle"
  /\ resume' = FALSE
  /\ cur'    = None
  /\ stage'  = "audit"
  /\ cl'     = None
  /\ ClearPool
  /\ UNCHANGED <<inputs, disk, history, bounds>>

Crash == pc # "idle" /\ EndRun

\* The developer changes the code, a fixture, the baseline or the roster.
ChangeInputs(v) ==
  /\ changes < MaxEdits
  /\ v # inputs
  /\ inputs'  = v
  /\ edited'  = (edited \/ pc # "idle")
  /\ changes' = changes + 1
  /\ UNCHANGED <<disk, pc, locals, pool, audit, opened, leftover, runs>>

-----------------------------------------------------------------------------
(* The provenance stamp                                                    *)

\* The checkpoint holds something an audit before number a has made.
Foreign(a) ==
  \/ \E s \in Stages : plan[s] # None /\ opened[s] # a
  \/ recon \notin {None, Torn} /\ \E p \in recon.pieces : p.audit # a

\* A fresh run, or a resume of a directory that has no stamp.
StartAudit(r) ==
  /\ r => stamp = None
  /\ audit'    = audit + 1
  /\ edited'   = FALSE
  /\ leftover' = (r /\ Foreign(audit + 1))

\* Mutant: any stamp will do.
ResumeAnyAudit ==
  /\ stamp \in Inputs
  /\ leftover' = Foreign(audit)
  /\ UNCHANGED <<audit, edited>>

\* A resume: the fingerprint must match the stamp.
ResumeAudit ==
  /\ stamp = inputs
  /\ leftover' = Foreign(audit)
  /\ UNCHANGED <<audit, edited>>

\* The fingerprint is taken and checked, and the stamp's file truncated.
Start(r) ==
  /\ pc = "idle" /\ runs < MaxRuns
  /\ StartAudit(r) \/ (r /\ ResumeAudit)
  /\ pc'     = "stamping"
  /\ resume' = r
  /\ cur'    = inputs
  /\ stamp'  = Torn
  /\ runs'   = runs + 1
  /\ UNCHANGED <<inputs, plan, done, rec, recon, stage, cl, pool, opened, changes>>

\* CheckpointProvenanceError, or a stamp that cannot be read.
RefuseResume ==
  /\ pc = "idle" /\ runs < MaxRuns
  /\ stamp \notin {None, inputs}
  /\ runs' = runs + 1
  /\ UNCHANGED <<inputs, disk, pc, locals, pool, history, changes>>

WriteStamp ==
  /\ pc = "stamping"
  /\ stamp' = cur
  /\ pc'    = "opening"
  /\ UNCHANGED <<inputs, plan, done, rec, recon, locals, pool, history, bounds>>

-----------------------------------------------------------------------------
(* run_stage                                                               *)

\* init_run, unless the run resumes and there is a run-state.json; then what
\* is pending is submitted to the pool.
OpenStage ==
  LET fresh   == ~ resume \/ plan[stage] = None
      planned == IF fresh THEN Ids ELSE plan[stage]
      before  == IF fresh THEN {} ELSE done[stage] IN
  /\ pc = "opening"
  /\ plan'   = [plan EXCEPT ![stage] = planned]
  /\ done'   = [done EXCEPT ![stage] = before]
  /\ opened' = [opened EXCEPT ![stage] = IF fresh THEN audit ELSE @]
  /\ todo'   = Ids \cap (planned \ before)
  /\ pc'     = "running"
  /\ UNCHANGED <<inputs, stamp, rec, recon, locals, work, made, seen, stopped, lock,
                 audit, edited, leftover, bounds>>

\* What run_stage does to its pool touches neither the stamp nor the changelist.
InStage ==
  /\ pc = "running"
  /\ UNCHANGED <<inputs, stamp, plan, recon, pc, locals, history, bounds>>

\* A worker takes an item up and calls the back end with what it reads now.
TakeUp(i) ==
  /\ InStage
  /\ i \in todo /\ ~ stopped
  /\ Cardinality(Busy) < Concurrency
  /\ todo' = todo \ {i}
  /\ work' = [work EXCEPT ![i] = "working"]
  /\ made' = [made EXCEPT ![i] =
                {[audit |-> audit, inputs |-> inputs]}
                \cup IF stage = "refute" THEN cl.pieces ELSE {}]
  /\ UNCHANGED <<done, rec, seen, stopped, lock>>

\* BackendExhausted: nothing is recorded, and nothing more is scheduled.
Exhaust(i) ==
  /\ InStage
  /\ work[i] = "working"
  /\ stopped' = TRUE
  /\ work' = [work EXCEPT ![i] = "none"]
  /\ made' = [made EXCEPT ![i] = {}]
  /\ UNCHANGED <<done, rec, todo, seen, lock>>

\* The stop event is set: what has not been taken up stays pending.
SkipRest ==
  /\ InStage
  /\ stopped /\ todo # {}
  /\ todo' = {}
  /\ UNCHANGED <<done, rec, work, made, seen, stopped, lock>>

\* Mutant: append_record without the lock.
WriteUnlocked(i) ==
  /\ InStage
  /\ work[i] = "working"
  /\ rec'  = [rec EXCEPT ![i] = Torn]
  /\ work' = [work EXCEPT ![i] = "writing"]
  /\ UNCHANGED <<done, todo, made, seen, stopped, lock>>

\* append_record, under the lock: the record's file is truncated ...
BeginRecord(i) ==
  /\ InStage
  /\ work[i] = "working" /\ lock = None
  /\ lock' = i
  /\ rec'  = [rec EXCEPT ![i] = Torn]
  /\ work' = [work EXCEPT ![i] = "writing"]
  /\ UNCHANGED <<done, todo, made, seen, stopped>>

\* Mutant: the item is marked before its record is written.
WriteMarked(i) ==
  /\ InStage
  /\ work[i] = "writing"
  /\ seen' = [seen EXCEPT ![i] = done[stage]]
  /\ done' = [done EXCEPT ![stage] = @ \cup {i}]
  /\ work' = [work EXCEPT ![i] = "marking"]
  /\ UNCHANGED <<rec, todo, made, stopped, lock>>

\* ... and written, and run-state.json is read ...
WriteRecord(i) ==
  /\ InStage
  /\ work[i] = "writing"
  /\ rec'  = [rec EXCEPT ![i] = [pieces |-> made[i]]]
  /\ seen' = [seen EXCEPT ![i] = done[stage]]
  /\ work' = [work EXCEPT ![i] = "marking"]
  /\ UNCHANGED <<done, todo, made, stopped, lock>>

\* Mutant: run-state.json is replaced by one that names this item only.
MarkOnly(i) ==
  /\ InStage
  /\ work[i] = "marking"
  /\ done' = [done EXCEPT ![stage] = {i}]
  /\ seen' = [seen EXCEPT ![i] = {}]
  /\ made' = [made EXCEPT ![i] = {}]
  /\ work' = [work EXCEPT ![i] = "none"]
  /\ lock' = None
  /\ UNCHANGED <<rec, todo, stopped>>

\* ... and replaced by one that names this item too.
MarkDone(i) ==
  /\ InStage
  /\ work[i] = "marking"
  /\ done' = [done EXCEPT ![stage] = seen[i] \cup {i}]
  /\ seen' = [seen EXCEPT ![i] = {}]
  /\ made' = [made EXCEPT ![i] = {}]
  /\ work' = [work EXCEPT ![i] = "none"]
  /\ lock' = None
  /\ UNCHANGED <<rec, todo, stopped>>

\* Mutant: the exhaustion of the back end is never raised.
EndUnstopped ==
  /\ pc = "running" /\ todo = {} /\ Busy = {}
  /\ ~ stopped
  /\ pc' = IF stage = "audit" THEN "reconciling" ELSE "publishing"
  /\ UNCHANGED <<inputs, disk, locals, pool, history, bounds>>

\* The pool has drained: BackendExhausted is raised, or the stage is over.
EndStage ==
  /\ pc = "running" /\ todo = {} /\ Busy = {}
  /\ \/ stopped /\ EndRun
     \/ /\ ~ stopped
        /\ pc' = IF stage = "audit" THEN "reconciling" ELSE "publishing"
        /\ UNCHANGED <<inputs, disk, locals, pool, history, bounds>>

-----------------------------------------------------------------------------
(* The reconciliation, and the end                                         *)

Reuse == resume /\ recon # None

LoadChangelist ==
  /\ pc = "reconciling" /\ Reuse /\ recon # Torn
  /\ cl'    = recon
  /\ stage' = "refute"
  /\ pc'    = "opening"
  /\ UNCHANGED <<inputs, disk, resume, cur, pool, history, bounds>>

\* The back end answers with some edits; the file is truncated.
Reconcile(es) ==
  /\ pc = "reconciling" /\ ~ Reuse
  /\ cl'    = [pieces |-> Returned("audit") \cup {[audit |-> audit, inputs |-> cur]},
               edits  |-> es]
  /\ recon' = Torn
  /\ pc'    = "saving"
  /\ UNCHANGED <<inputs, stamp, plan, done, rec, resume, cur, stage, pool, history, bounds>>

SaveChangelist ==
  /\ pc = "saving"
  /\ recon' = cl
  /\ stage' = "refute"
  /\ pc'    = "opening"
  /\ UNCHANGED <<inputs, stamp, plan, done, rec, resume, cur, cl, pool, history, bounds>>

\* A torn changelist cannot be read; the back end is exhausted, or its answer
\* is no changelist.
ReconcileFails ==
  /\ pc = "reconciling"
  /\ Reuse => recon = Torn
  /\ EndRun

\* What the changelist that is written out is made from.
Result == cl.pieces \cup Returned("refute")

Publish == pc = "publishing" /\ EndRun

-----------------------------------------------------------------------------
Init ==
  /\ inputs  \in Inputs
  /\ stamp   = None
  /\ plan    = [s \in Stages |-> None]
  /\ done    = [s \in Stages |-> {}]
  /\ rec     = [i \in Items |-> None]
  /\ recon   = None
  /\ pc      = "idle"
  /\ resume  = FALSE
  /\ cur     = None
  /\ stage   = "audit"
  /\ cl      = None
  /\ todo    = {}
  /\ work    = [i \in Items |-> "none"]
  /\ made    = [i \in Items |-> {}]
  /\ seen    = [i \in Items |-> {}]
  /\ stopped = FALSE
  /\ lock    = None
  /\ audit   = 0
  /\ opened  = [s \in Stages |-> 0]
  /\ edited  = FALSE
  /\ leftover = FALSE
  /\ runs    = 0
  /\ changes = 0

Proceed ==
  \/ WriteStamp
  \/ OpenStage
  \/ SkipRest
  \/ \E i \in Items : TakeUp(i) \/ Exhaust(i) \/ BeginRecord(i) \/ WriteRecord(i) \/ MarkDone(i)
  \/ EndStage
  \/ LoadChangelist
  \/ \E es \in SUBSET Edits : Reconcile(es)
  \/ SaveChangelist
  \/ ReconcileFails
  \/ Publish

Next ==
  \/ \E r \in BOOLEAN : Start(r)
  \/ RefuseResume
  \/ \E v \in Inputs : ChangeInputs(v)
  \/ Crash
  \/ Proceed

PipelineSpec == Init /\ [][Next]_vars

\* A run that has begun goes on: every call of the back end returns or raises,
\* and the worker threads run.  Nothing makes anyone start or resume one.
PipelineFairSpec == PipelineSpec /\ WF_vars(Proceed)

-----------------------------------------------------------------------------
(* Properties                                                              *)

\* Every variable has its type, and the lock is held by whoever is appending.
PipelineTypeOK ==
  /\ inputs  \in Inputs
  /\ stamp   \in Inputs \cup {None, Torn}
  /\ plan    \in [Stages -> (SUBSET Items) \cup {None}]
  /\ done    \in [Stages -> SUBSET Items]
  /\ rec     \in [Items -> Report \cup {None, Torn}]
  /\ recon   \in Changelist \cup {None, Torn}
  /\ pc      \in Places
  /\ resume  \in BOOLEAN
  /\ cur     \in Inputs \cup {None}
  /\ stage   \in Stages
  /\ cl      \in Changelist \cup {None}
  /\ todo    \in SUBSET Items
  /\ work    \in [Items -> Steps]
  /\ made    \in [Items -> SUBSET Piece]
  /\ seen    \in [Items -> SUBSET Items]
  /\ stopped \in BOOLEAN
  /\ lock    \in Items \cup {None}
  /\ audit   \in Nat
  /\ opened  \in [Stages -> Nat]
  /\ edited  \in BOOLEAN
  /\ leftover \in BOOLEAN
  /\ runs    \in Nat
  /\ changes \in Nat

\* A report or verdict run_stage returns is whole, whatever crashed while it was written
\* (append_record writes the record before it marks the item).
RecordsWhole == \A s \in Stages : \A i \in done[s] : rec[i] \notin {None, Torn}

\* A stage that ends, in an audit that met no older checkpoint, has a record of
\* every item it was called with (run_stage: the lock around append_record).
StagesLoseNothing ==
  pc \in {"reconciling", "publishing"} /\ ~ leftover => Ids \subseteq done[stage]

\* An audit that met no older checkpoint publishes only what it has made itself,
\* from the inputs its stamp names (run_audit: the provenance guard).
OwnCheckpointsBind ==
  pc = "publishing" /\ ~ leftover /\ ~ edited
    => \A p \in Result : p = [audit |-> audit, inputs |-> stamp]

\* Each stage is a work queue that survives crashes: nothing recorded is worked
\* on again or lost, and nothing is worked on twice at once (append_record).
AuditQueue == INSTANCE WorkQueue WITH
  planned  <- plan["audit"],
  recorded <- done["audit"],
  running  <- IF stage = "audit" THEN Busy ELSE {}

RefuteQueue == INSTANCE WorkQueue WITH
  planned  <- plan["refute"],
  recorded <- done["refute"],
  running  <- IF stage = "refute" THEN Busy ELSE {}

StagesAreQueues == AuditQueue!Spec /\ RefuteQueue!Spec

\* A run ends: the pool drains even when the back end is exhausted under it.
EveryRunEnds == pc # "idle" ~> pc = "idle"

\* "a stale checkpoint must not silently bind to the wrong inputs": what an audit
\* that has begun its first stage afresh publishes was made from the inputs its
\* stamp names.
NoStaleBinding ==
  pc = "publishing" /\ ~ edited /\ opened["audit"] = audit
    => \A p \in Result : p.inputs = stamp

\* The checkpoints hold what was done, whole, whatever crashed.
CheckpointsSound == PipelineTypeOK /\ RecordsWhole /\ StagesLoseNothing
===============================================================================
