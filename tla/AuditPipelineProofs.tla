------------------------- MODULE AuditPipelineProofs -------------------------
(***************************************************************************)
(* What is proved of AuditPipeline for every set of inputs, reviewers and  *)
(* edits, any number of worker threads, and any number of runs, crashes,   *)
(* resumes and changes of the inputs within the bounds.                    *)
(*                                                                         *)
(* None of the properties is inductive: that a record is whole rests on    *)
(* the lock and on what the lock's holder has read; that a stage loses     *)
(* nothing, on what run-state.json was planned for; that an audit works    *)
(* on its own results, on which audit began each stage.  IInv joins these, *)
(* each action keeps every part of it, and the properties follow.          *)
(***************************************************************************)
EXTENDS AuditPipeline, TLAPS

\* The version of the inputs the checkpoint's stamp names, or is about to.
Version == IF pc = "idle" THEN stamp ELSE cur

Own(P)     == \A p \in P : p.audit = audit
Sound(P)   == \A p \in P :
                /\ p.audit <= audit
                /\ p.audit = audit /\ ~ edited /\ Version \in Inputs => p.inputs = Version
Kinds(s)   == IF s = "audit" THEN Targets ELSE Edits
Appending  == {"writing", "marking"}

\* Where the run is, and what it knows there.
RunOK ==
  /\ pc = "idle" => stage = "audit" /\ cl = None /\ ~ resume
  /\ pc # "idle" => cur \in Inputs /\ (edited \/ inputs = cur)
  /\ pc \in {"stamping", "reconciling", "saving"} => stage = "audit"
  /\ pc = "publishing" => stage = "refute"
  /\ pc = "saving" \/ stage = "refute" => cl \in Changelist /\ Sound(cl.pieces)
  /\ pc = "saving" => recon = Torn
  /\ stage = "refute" => recon = cl
  /\ pc = "stamping" => stamp = Torn
  /\ pc \notin {"idle", "stamping"} => stamp = cur

\* The files of the two stages and of the changelist.
DiskOK ==
  /\ \A s \in Stages :
       /\ opened[s] <= audit
       /\ done[s] \subseteq Kinds(s)
       /\ plan[s] = None => done[s] = {}
       /\ plan[s] # None => done[s] \subseteq plan[s] /\ plan[s] \subseteq Kinds(s)
       /\ \A i \in done[s] : rec[i] \in Report /\ Sound(rec[i].pieces)
  /\ recon \notin {None, Torn} => recon \in Changelist /\ Sound(recon.pieces)
  /\ recon = None => plan["refute"] = None
  /\ stamp = None => \A s \in Stages : plan[s] = None
  /\ stamp = None => recon = None /\ pc = "idle"

\* The worker threads.
PoolOK ==
  /\ pc # "running" => todo = {} /\ Busy = {} /\ lock = None
  /\ pc = "running" =>
       /\ plan[stage] # None
       /\ todo \cup Busy \subseteq plan[stage] \ done[stage]
       /\ todo \cap Busy = {}
  /\ \A i \in Items :
       /\ work[i] \in Appending <=> lock = i
       /\ work[i] = "marking" => seen[i] = done[stage] /\ rec[i] = [pieces |-> made[i]]
       /\ work[i] = "none" => made[i] = {}
       /\ Sound(made[i])

\* A stage this audit has begun is planned for all of it, and nothing is lost.
CompleteOK ==
  /\ opened["audit"] = audit /\ plan["audit"] # None /\ Version \in Inputs
       => plan["audit"] = TargetsOf[Version]
  /\ opened["refute"] = audit /\ plan["refute"] # None
       => recon \in Changelist /\ plan["refute"] = recon.edits
  /\ pc = "running" /\ ~ leftover /\ ~ stopped => Ids \subseteq done[stage] \cup todo \cup Busy
  /\ pc \in {"reconciling", "publishing"} /\ ~ leftover => Ids \subseteq done[stage]

\* What an audit that met no older checkpoint has made, and works with, is its own.
OwnOK ==
  /\ opened["audit"] = audit => \A i \in done["audit"] : Own(rec[i].pieces)
  /\ opened["refute"] = audit /\ recon \in Changelist /\ Own(recon.pieces)
       => \A i \in done["refute"] : Own(rec[i].pieces)
  /\ \A i \in Items : stage = "audit" => Own(made[i])
  /\ \A i \in Items : stage = "refute" /\ Own(cl.pieces) => Own(made[i])
  /\ pc # "idle" /\ ~ resume /\ stage = "audit" => opened["refute"] # audit
  /\ pc # "idle" /\ ~ leftover =>
       /\ resume => ~ Foreign(audit)
       /\ pc \in {"running", "reconciling", "saving"} \/ stage = "refute" => opened["audit"] = audit
       /\ cl # None => Own(cl.pieces)
       /\ pc \in {"running", "publishing"} /\ stage = "refute" => opened["refute"] = audit

IInv == PipelineTypeOK /\ RunOK /\ DiskOK /\ PoolOK /\ CompleteOK /\ OwnOK

USE DEF vars, disk, locals, pool, history, bounds

-----------------------------------------------------------------------------
(* Each action keeps the invariant                                        *)

\* The empty directory, before any run.
LEMMA Initially ==
  ASSUME Init
  PROVE  IInv
<1>1. PipelineTypeOK
  <2>1. made \in [Items -> SUBSET Piece] /\ seen \in [Items -> SUBSET Items] /\ work \in [Items -> Steps]
    BY DEF Init, Steps
  <2>2. rec \in [Items -> Report \cup {None, Torn}] /\ recon \in Changelist \cup {None, Torn}
    BY DEF Init
  <2>3. plan \in [Stages -> (SUBSET Items) \cup {None}] /\ done \in [Stages -> SUBSET Items]
    BY DEF Init
  <2> QED
    BY <2>1, <2>2, <2>3 DEF PipelineTypeOK, Init, Places, Stages
<1>2. RunOK
  BY DEF IInv, RunOK, Init
<1>3. DiskOK
  BY DEF Stages, DiskOK, IInv, Init
<1>4. PoolOK
  BY MissingAssumption DEF IInv, PoolOK, Busy, Appending, Sound, Init
<1>5. CompleteOK
  BY DEF IInv, CompleteOK, Stages, Init
<1>6. OwnOK
  BY DEF Stages, Own, OwnOK, IInv, Init
<1> QED
  BY <1>1, <1>2, <1>3, <1>4, <1>5, <1>6 DEF IInv

\* A process that is gone takes its workers' hands with it; the files stay
\* as they are, a torn one included.
LEMMA EndRunKeeps ==
  ASSUME IInv, pc # "idle", EndRun
  PROVE  IInv'
<1>1. PipelineTypeOK'
  <2>1. made' \in [Items -> SUBSET Piece] /\ seen' \in [Items -> SUBSET Items] /\ work' \in [Items -> Steps]
    BY DEF EndRun, ClearPool, Steps
  <2> QED
    BY <2>1 DEF IInv, PipelineTypeOK, EndRun, ClearPool, Places, Stages
<1>2. RunOK'
  BY DEF IInv, RunOK, EndRun
<1>3. DiskOK'
  BY MissingAssumption DEF IInv, DiskOK, RunOK, Sound, Version, EndRun
<1>4. PoolOK'
  BY MissingAssumption DEF IInv, PoolOK, Busy, Appending, Sound, EndRun, ClearPool
<1>5. CompleteOK'
  BY MissingAssumption DEF IInv, CompleteOK, RunOK, Version, EndRun
<1>6. OwnOK'
  BY DEF IInv, OwnOK, Own, EndRun, ClearPool
<1> QED
  BY <1>1, <1>2, <1>3, <1>4, <1>5, <1>6 DEF IInv

\* A change of the inputs during a run is remembered: from then on nothing is
\* claimed of the version this audit has read.
LEMMA ChangeInputsKeeps ==
  ASSUME NEW v \in Inputs, IInv, ChangeInputs(v)
  PROVE  IInv'
<1>1. PipelineTypeOK'
  BY DEF IInv, PipelineTypeOK, ChangeInputs
<1>2. RunOK'
  BY DEF IInv, PipelineTypeOK, RunOK, ChangeInputs, Sound, Version
<1>3. DiskOK'
  BY DEF IInv, DiskOK, Sound, Version, ChangeInputs
<1>4. PoolOK'
  BY DEF IInv, PoolOK, Busy, Sound, ChangeInputs
<1>5. CompleteOK'
  BY DEF IInv, CompleteOK, Ids, Busy, Version, ChangeInputs
<1>6. OwnOK'
  BY DEF IInv, OwnOK, Own, Foreign, ChangeInputs
<1> QED
  BY <1>1, <1>2, <1>3, <1>4, <1>5, <1>6 DEF IInv

\* A fresh run (run_audit) opens a new audit, so nothing in the directory is its
\* own yet; a resume matches the stamp and goes on with the audit it names.
LEMMA StartKeeps ==
  ASSUME NEW r \in BOOLEAN, IInv, Start(r)
  PROVE  IInv'
<1>1. PipelineTypeOK'
  <2>1. audit' \in Nat /\ edited' \in BOOLEAN
    <3>1. audit \in Nat /\ edited \in BOOLEAN
      BY DEF IInv, PipelineTypeOK
    <3>2. audit' \in {audit, audit + 1} /\ edited' \in {edited, FALSE}
      BY DEF Start, StartAudit, ResumeAudit
    <3>3. audit' \in Nat
      BY <3>1, <3>2
    <3>4. edited' \in BOOLEAN
      BY <3>1, <3>2, Zenon
    <3> QED
      BY <3>3, <3>4
  <2>2. \A a : Foreign(a) \in BOOLEAN
    BY DEF Foreign
  <2>3. leftover' \in BOOLEAN
    BY <2>2, Zenon DEF Start, StartAudit, ResumeAudit
  <2> QED
    BY <2>1, <2>3 DEF IInv, PipelineTypeOK, Start, Places
<1>2. RunOK'
  BY DEF IInv, PipelineTypeOK, RunOK, Start
<1>3. DiskOK'
  <2>1. CASE StartAudit(r)
    <3>1. \A P \in SUBSET Piece : Sound(P) => Sound(P)'
      BY <2>1 DEF IInv, PipelineTypeOK, StartAudit, Sound, Piece
    <3> QED
      BY <2>1, <3>1, MissingAssumption
      DEF IInv, PipelineTypeOK, RunOK, DiskOK, Start, StartAudit, Report, Changelist
  <2>2. CASE r /\ ResumeAudit
    BY <2>2, MissingAssumption
    DEF IInv, PipelineTypeOK, RunOK, DiskOK, Start, ResumeAudit, Sound, Version
  <2> QED
    BY <2>1, <2>2 DEF Start
<1>4. PoolOK'
  BY DEF IInv, PipelineTypeOK, RunOK, PoolOK, Start, StartAudit, ResumeAudit, Sound,
         Version, Busy, Piece
<1>5. CompleteOK'
  BY DEF IInv, PipelineTypeOK, RunOK, DiskOK, CompleteOK, Start, StartAudit, ResumeAudit,
         Version, Stages
<1>6. OwnOK'
  <2>1. CASE StartAudit(r)
    <3>1. opened'["audit"] # audit' /\ opened'["refute"] # audit'
      BY <2>1 DEF IInv, PipelineTypeOK, DiskOK, Start, StartAudit, Stages
    <3>2. Busy = {} /\ pc = "idle" /\ stage = "audit" /\ cl = None
      BY DEF IInv, RunOK, PoolOK, Start
    <3>3. stage' = "audit" /\ pc' = "stamping" /\ cl' = None /\ \A i \in Items : made'[i] = {}
      BY <3>2 DEF IInv, PipelineTypeOK, PoolOK, Start, Busy
    <3>4. ~ leftover' /\ resume' => ~ Foreign(audit)'
      BY <2>1 DEF Start, StartAudit, Foreign
    <3> QED
      BY <3>1, <3>3, <3>4 DEF OwnOK, Own
  <2>2. CASE r /\ ResumeAudit
    BY <2>2 DEF IInv, PipelineTypeOK, RunOK, DiskOK, OwnOK, Start, ResumeAudit, Own, Foreign
  <2> QED
    BY <2>1, <2>2 DEF Start
<1> QED
  BY <1>1, <1>2, <1>3, <1>4, <1>5, <1>6 DEF IInv

\* A refused resume (CheckpointProvenanceError) touches no file.
LEMMA RefuseResumeKeeps ==
  ASSUME IInv, RefuseResume
  PROVE  IInv'
<1>1. PipelineTypeOK'
  BY DEF IInv, PipelineTypeOK, RefuseResume
<1>2. RunOK'
  BY DEF IInv, RunOK, RefuseResume
<1>3. DiskOK'
  BY DEF IInv, DiskOK, Sound, Version, RefuseResume
<1>4. PoolOK'
  BY DEF IInv, PoolOK, Busy, Sound, RefuseResume
<1>5. CompleteOK'
  BY DEF IInv, CompleteOK, Version, RefuseResume
<1>6. OwnOK'
  BY DEF IInv, OwnOK, Own, RefuseResume
<1> QED
  BY <1>1, <1>2, <1>3, <1>4, <1>5, <1>6 DEF IInv

\* The stamp, once written, names the version the run has fingerprinted.
LEMMA WriteStampKeeps ==
  ASSUME IInv, WriteStamp
  PROVE  IInv'
<1>1. PipelineTypeOK'
  BY DEF Places, PipelineTypeOK, IInv, WriteStamp
<1>2. RunOK'
  BY DEF IInv, RunOK, WriteStamp
<1>3. DiskOK'
  BY MissingAssumption DEF IInv, DiskOK, RunOK, Sound, Version, WriteStamp
<1>4. PoolOK'
  BY DEF IInv, PoolOK, Busy, Sound, WriteStamp
<1>5. CompleteOK'
  BY DEF IInv, CompleteOK, Version, WriteStamp
<1>6. OwnOK'
  BY DEF IInv, OwnOK, Own, Foreign, WriteStamp
<1> QED
  BY <1>1, <1>2, <1>3, <1>4, <1>5, <1>6 DEF IInv

\* init_run plans the stage for the items it is called with; a resumed stage
\* of this audit was planned for the same ones.
LEMMA OpenStageKeeps ==
  ASSUME IInv, OpenStage
  PROVE  IInv'
<1>1. PipelineTypeOK'
  BY TargetsAssumption
  DEF Items, Changelist, Stages, Places, Ids, PipelineTypeOK, RunOK, IInv, OpenStage
<1>2. RunOK'
  BY DEF IInv, RunOK, Sound, Version, OpenStage
<1>3. DiskOK'
  BY MissingAssumption, TargetsAssumption
  DEF Changelist, Stages, Ids, Version, Sound, Kinds, PipelineTypeOK, RunOK, DiskOK, IInv,
      OpenStage
<1>4. PoolOK'
  BY MissingAssumption, TargetsAssumption
  DEF Items, Changelist, Stages, Steps, Ids, Busy, Foreign, Sound, PipelineTypeOK, RunOK,
      PoolOK, IInv, OpenStage
<1>5. CompleteOK'
  BY DEF Stages, Ids, Foreign, Version, PipelineTypeOK, RunOK, CompleteOK, OwnOK, IInv,
         OpenStage
<1>6. OwnOK'
  BY DEF Stages, Foreign, Own, PipelineTypeOK, OwnOK, IInv, OpenStage
<1> QED
  BY <1>1, <1>2, <1>3, <1>4, <1>5, <1>6 DEF IInv

\* What the stop event keeps back stays pending.
LEMMA SkipRestKeeps ==
  ASSUME IInv, SkipRest
  PROVE  IInv'
<1>1. PipelineTypeOK'
  BY DEF IInv, PipelineTypeOK, SkipRest, InStage
<1>2. RunOK'
  BY DEF IInv, RunOK, Sound, Version, SkipRest, InStage
<1>3. DiskOK'
  BY DEF IInv, DiskOK, Sound, Version, SkipRest, InStage
<1>4. PoolOK'
  BY DEF IInv, PoolOK, Busy, Sound, Version, SkipRest, InStage
<1>5. CompleteOK'
  BY DEF IInv, CompleteOK, Version, SkipRest, InStage
<1>6. OwnOK'
  BY DEF IInv, OwnOK, Own, Foreign, SkipRest, InStage
<1> QED
  BY <1>1, <1>2, <1>3, <1>4, <1>5, <1>6 DEF IInv

\* A worker takes up a pending item nobody else has, and what it makes is made
\* from the inputs of now and, in the last stage, from the changelist.
LEMMA TakeUpKeeps ==
  ASSUME NEW i \in Items, IInv, TakeUp(i)
  PROVE  IInv'
<1>1. PipelineTypeOK'
  BY DEF Changelist, Piece, Steps, PipelineTypeOK, RunOK, IInv, TakeUp, InStage
<1>2. RunOK'
  BY DEF IInv, RunOK, Sound, Version, TakeUp, InStage
<1>3. DiskOK'
  BY DEF IInv, DiskOK, Sound, Version, TakeUp, InStage
<1>4. PoolOK'
  <2>1. Busy' = Busy \cup {i} /\ todo' = todo \ {i}
    BY DEF IInv, PipelineTypeOK, TakeUp, Busy
  <2>2. work[i] = "none"
    BY DEF IInv, PoolOK, TakeUp, InStage, Busy
  <2>3. \A j \in Items : Sound(made[j])'
    BY DEF IInv, PipelineTypeOK, RunOK, DiskOK, PoolOK, TakeUp, InStage, Sound, Version,
           Changelist, Piece
  <2>4. \A j \in Items :
          /\ work'[j] \in Appending <=> lock' = j
          /\ work'[j] = "marking" => seen'[j] = done'[stage'] /\ rec'[j] = [pieces |-> made'[j]]
    BY <2>2 DEF IInv, PipelineTypeOK, PoolOK, TakeUp, InStage, Appending
  <2>5. /\ plan' = plan /\ done' = done /\ stage' = stage /\ pc' = "running"
        /\ i \in todo /\ todo \cup Busy \subseteq plan[stage] \ done[stage]
        /\ todo \cap Busy = {} /\ plan[stage] # None
    BY DEF IInv, PoolOK, TakeUp, InStage
  <2>6. \A j \in Items : work'[j] = "none" => made'[j] = {}
    BY DEF IInv, PipelineTypeOK, PoolOK, TakeUp
  <2> QED
    BY <2>1, <2>3, <2>4, <2>5, <2>6 DEF PoolOK
<1>5. CompleteOK'
  BY DEF IInv, PipelineTypeOK, CompleteOK, Ids, Busy, Version, TakeUp, InStage
<1>6. OwnOK'
  BY DEF IInv, OwnOK, Own, Foreign, TakeUp, InStage
<1> QED
  BY <1>1, <1>2, <1>3, <1>4, <1>5, <1>6 DEF IInv

\* An exhausted back end leaves no record.
LEMMA ExhaustKeeps ==
  ASSUME NEW i \in Items, IInv, Exhaust(i)
  PROVE  IInv'
<1>1. PipelineTypeOK'
  BY DEF Steps, PipelineTypeOK, IInv, Exhaust, InStage
<1>2. RunOK'
  BY DEF IInv, RunOK, Sound, Version, Exhaust, InStage
<1>3. DiskOK'
  BY DEF IInv, DiskOK, Sound, Version, Exhaust, InStage
<1>4. PoolOK'
  <2>1. Busy' = Busy \ {i}
    BY DEF IInv, PipelineTypeOK, Exhaust, Busy
  <2>2. \A j \in Items :
          /\ work'[j] \in Appending <=> lock' = j
          /\ work'[j] = "marking" => seen'[j] = done'[stage'] /\ rec'[j] = [pieces |-> made'[j]]
          /\ work'[j] = "none" => made'[j] = {}
          /\ Sound(made[j])'
    BY DEF IInv, PipelineTypeOK, PoolOK, Exhaust, InStage, Appending, Sound, Version
  <2> QED
    BY <2>1, <2>2 DEF IInv, PoolOK, Exhaust, InStage
<1>5. CompleteOK'
  BY DEF IInv, CompleteOK, Version, Exhaust, InStage
<1>6. OwnOK'
  BY DEF IInv, OwnOK, Own, Foreign, Exhaust, InStage
<1> QED
  BY <1>1, <1>2, <1>3, <1>4, <1>5, <1>6 DEF IInv

\* Only the lock's holder truncates a record, and never one that is marked done.
LEMMA BeginRecordKeeps ==
  ASSUME NEW i \in Items, IInv, BeginRecord(i)
  PROVE  IInv'
<1>1. PipelineTypeOK'
  BY DEF Steps, PipelineTypeOK, IInv, BeginRecord, InStage
<1>2. RunOK'
  BY DEF IInv, RunOK, Sound, Version, BeginRecord, InStage
<1>3. DiskOK'
  BY DisjointAssumption
  DEF Stages, Busy, Version, Sound, Kinds, PipelineTypeOK, DiskOK, PoolOK, IInv,
      BeginRecord, InStage
<1>4. PoolOK'
  BY MissingAssumption
  DEF IInv, PipelineTypeOK, PoolOK, Busy, Appending, Sound, Version, BeginRecord, InStage
<1>5. CompleteOK'
  BY DEF IInv, CompleteOK, Ids, Busy, Version, BeginRecord, InStage
<1>6. OwnOK'
  BY DisjointAssumption
  DEF Stages, Busy, Foreign, Own, Kinds, PipelineTypeOK, DiskOK, PoolOK, OwnOK, IInv,
      BeginRecord, InStage
<1> QED
  BY <1>1, <1>2, <1>3, <1>4, <1>5, <1>6 DEF IInv

\* The record is whole, and run-state.json has been read, before the item is marked.
LEMMA WriteRecordKeeps ==
  ASSUME NEW i \in Items, IInv, WriteRecord(i)
  PROVE  IInv'
<1>1. PipelineTypeOK'
  BY DEF Report, Steps, PipelineTypeOK, IInv, WriteRecord, InStage
<1>2. RunOK'
  BY DEF IInv, RunOK, Sound, Version, WriteRecord, InStage
<1>3. DiskOK'
  BY DEF Report, Version, Sound, PipelineTypeOK, DiskOK, PoolOK, IInv, WriteRecord, InStage
<1>4. PoolOK'
  BY DEF IInv, PipelineTypeOK, PoolOK, Busy, Appending, Sound, Version, WriteRecord, InStage
<1>5. CompleteOK'
  BY DEF IInv, CompleteOK, Ids, Busy, Version, WriteRecord, InStage
<1>6. OwnOK'
  BY DisjointAssumption
  DEF Stages, Busy, Foreign, Own, Kinds, PipelineTypeOK, DiskOK, PoolOK, OwnOK, IInv,
      WriteRecord, InStage
<1> QED
  BY <1>1, <1>2, <1>3, <1>4, <1>5, <1>6 DEF IInv

\* The run-state.json that is replaced is still the one that was read, so every
\* item marked before stays marked.
LEMMA MarkDoneKeeps ==
  ASSUME NEW i \in Items, IInv, MarkDone(i)
  PROVE  IInv'
<1>1. PipelineTypeOK'
  BY DEF Steps, PipelineTypeOK, IInv, MarkDone, InStage
<1>2. RunOK'
  BY DEF IInv, RunOK, Sound, Version, MarkDone, InStage
<1>3. DiskOK'
  <2>1. /\ rec[i] = [pieces |-> made[i]] /\ Sound(made[i]) /\ made[i] \in SUBSET Piece
        /\ i \in plan[stage] /\ plan[stage] # None /\ seen[i] = done[stage] /\ stage \in Stages
    BY DEF IInv, PipelineTypeOK, PoolOK, MarkDone, InStage, Busy
  <2>2. rec[i] \in Report /\ rec[i].pieces = made[i]
    BY <2>1 DEF Report
  <2>3. done' = [done EXCEPT ![stage] = @ \cup {i}]
    BY <2>1 DEF IInv, PipelineTypeOK, MarkDone
  <2>4. \A s \in Stages :
          /\ done'[s] \subseteq Kinds(s)
          /\ plan[s] # None => done'[s] \subseteq plan[s]
          /\ plan[s] = None => done'[s] = {}
          /\ \A j \in done'[s] : rec[j] \in Report /\ Sound(rec[j].pieces)
    BY <2>1, <2>2, <2>3 DEF IInv, PipelineTypeOK, DiskOK
  <2> QED
    BY <2>4 DEF IInv, DiskOK, MarkDone, InStage, Sound, Version, Kinds
<1>4. PoolOK'
  <2>1. lock = i /\ seen[i] = done[stage] /\ stage \in Stages
    BY DEF IInv, PipelineTypeOK, PoolOK, MarkDone, Appending
  <2>2. Busy' = Busy \ {i} /\ done'[stage] = done[stage] \cup {i}
    BY <2>1 DEF IInv, PipelineTypeOK, MarkDone, Busy
  <2>3. \A j \in Items : work'[j] \notin Appending /\ lock' # j /\ (work'[j] = "none" => made'[j] = {})
    BY <2>1, MissingAssumption DEF IInv, PipelineTypeOK, PoolOK, MarkDone, Appending
  <2>4. \A j \in Items : Sound(made[j])'
    BY DEF IInv, PipelineTypeOK, PoolOK, MarkDone, InStage, Sound, Version
  <2>5. i \in Busy
    BY DEF MarkDone, Busy
  <2> QED
    BY <2>2, <2>3, <2>4, <2>5 DEF IInv, PoolOK, MarkDone, InStage, Appending
<1>5. CompleteOK'
  <2>1. seen[i] = done[stage] /\ stage \in Stages
    BY DEF IInv, PipelineTypeOK, PoolOK, MarkDone
  <2>2. Busy' = Busy \ {i} /\ done'[stage] = done[stage] \cup {i}
    BY <2>1 DEF IInv, PipelineTypeOK, MarkDone, Busy
  <2> QED
    BY <2>2 DEF IInv, CompleteOK, MarkDone, InStage, Version, Ids
<1>6. OwnOK'
  <2>1. /\ rec[i] = [pieces |-> made[i]] /\ seen[i] = done[stage] /\ stage \in Stages
    BY DEF IInv, PipelineTypeOK, PoolOK, MarkDone
  <2>2. done' = [done EXCEPT ![stage] = @ \cup {i}]
    BY <2>1 DEF IInv, PipelineTypeOK, MarkDone
  <2>3. opened["audit"] = audit => \A j \in done'["audit"] : Own(rec[j].pieces)
    BY <2>1, <2>2 DEF IInv, PipelineTypeOK, OwnOK, Stages
  <2>4. opened["refute"] = audit /\ recon \in Changelist /\ Own(recon.pieces)
          => \A j \in done'["refute"] : Own(rec[j].pieces)
    BY <2>1, <2>2 DEF IInv, PipelineTypeOK, RunOK, OwnOK, Stages
  <2>5. \A j \in Items : made'[j] = made[j] \/ made'[j] = {}
    BY DEF IInv, PipelineTypeOK, MarkDone
  <2>6. \A j \in Items : /\ stage = "audit" => Own(made'[j])
                         /\ stage = "refute" /\ Own(cl.pieces) => Own(made'[j])
    BY <2>5 DEF IInv, OwnOK, Own
  <2> QED
    BY <2>3, <2>4, <2>6 DEF IInv, OwnOK, MarkDone, InStage, Own, Foreign
<1> QED
  BY <1>1, <1>2, <1>3, <1>4, <1>5, <1>6 DEF IInv

\* A resumed changelist is whole, and its own audit's unless files were left over.
LEMMA LoadChangelistKeeps ==
  ASSUME IInv, LoadChangelist
  PROVE  IInv'
<1>1. PipelineTypeOK'
  BY DEF Stages, Places, PipelineTypeOK, IInv, LoadChangelist
<1>2. RunOK'
  BY DEF Version, Sound, RunOK, DiskOK, IInv, LoadChangelist, Reuse
<1>3. DiskOK'
  BY DEF IInv, DiskOK, Sound, Version, LoadChangelist
<1>4. PoolOK'
  BY DEF IInv, PoolOK, Busy, Sound, LoadChangelist
<1>5. CompleteOK'
  BY DEF IInv, CompleteOK, Version, LoadChangelist
<1>6. OwnOK'
  BY DEF IInv, OwnOK, RunOK, Own, Foreign, LoadChangelist, Reuse
<1> QED
  BY <1>1, <1>2, <1>3, <1>4, <1>5, <1>6 DEF IInv

\* A new changelist is made from the reports of the first stage; the second has
\* not been opened for it.
LEMMA ReconcileKeeps ==
  ASSUME NEW es \in SUBSET Edits, IInv, Reconcile(es)
  PROVE  IInv'
<1>1. PipelineTypeOK'
  BY DEF Report, Changelist, Piece, Places, Returned, PipelineTypeOK, RunOK, DiskOK, IInv,
         Reconcile
<1>2. RunOK'
  BY DEF Report, Changelist, Piece, Returned, Version, Sound, PipelineTypeOK, RunOK, DiskOK,
         IInv, Reconcile
<1>3. DiskOK'
  BY MissingAssumption DEF IInv, DiskOK, Sound, Version, Reconcile
<1>4. PoolOK'
  BY DEF IInv, PoolOK, Busy, Sound, Reconcile
<1>5. CompleteOK'
  BY DEF Version, RunOK, DiskOK, CompleteOK, OwnOK, IInv, Reconcile, Reuse
<1>6. OwnOK'
  BY DEF Stages, Returned, Foreign, Own, RunOK, DiskOK, OwnOK, IInv, Reconcile, Reuse
<1> QED
  BY <1>1, <1>2, <1>3, <1>4, <1>5, <1>6 DEF IInv

\* The changelist is whole in the file before the last stage is opened.
LEMMA SaveChangelistKeeps ==
  ASSUME IInv, SaveChangelist
  PROVE  IInv'
<1>1. PipelineTypeOK'
  BY DEF Stages, Places, PipelineTypeOK, IInv, SaveChangelist
<1>2. RunOK'
  BY DEF IInv, RunOK, Sound, Version, SaveChangelist
<1>3. DiskOK'
  BY MissingAssumption
  DEF IInv, PipelineTypeOK, RunOK, DiskOK, SaveChangelist, Sound, Version
<1>4. PoolOK'
  BY DEF IInv, PoolOK, Busy, Sound, SaveChangelist
<1>5. CompleteOK'
  BY MissingAssumption
  DEF IInv, PipelineTypeOK, RunOK, DiskOK, CompleteOK, OwnOK, SaveChangelist, Version
<1>6. OwnOK'
  <2>1. cl \in Changelist /\ pc = "saving" /\ stage = "audit" /\ recon = Torn
    BY DEF IInv, RunOK, SaveChangelist
  <2>2. opened["refute"] = audit => done["refute"] = {}
    BY <2>1, MissingAssumption DEF IInv, DiskOK, CompleteOK, Stages
  <2>3. \A i \in Items : made[i] = {}
    BY <2>1 DEF IInv, PipelineTypeOK, PoolOK, Busy
  <2>4. ~ leftover => opened["audit"] = audit /\ Own(cl.pieces)
    BY <2>1, MissingAssumption DEF IInv, OwnOK
  <2>5. ~ leftover /\ resume => ~ Foreign(audit)'
    BY <2>1, <2>4 DEF IInv, OwnOK, SaveChangelist, Foreign, Own
  <2> QED
    BY <2>1, <2>2, <2>3, <2>4, <2>5 DEF IInv, OwnOK, SaveChangelist, Own
<1> QED
  BY <1>1, <1>2, <1>3, <1>4, <1>5, <1>6 DEF IInv

\* A stage that ends without exhaustion has drained: everything it was called
\* with is done.
LEMMA MoveOnKeeps ==
  ASSUME IInv, EndStage, ~ stopped
  PROVE  IInv'
<1>1. PipelineTypeOK'
  BY DEF Places, PipelineTypeOK, IInv, EndStage
<1>2. RunOK'
  BY DEF Stages, Version, Sound, PipelineTypeOK, RunOK, IInv, EndStage
<1>3. DiskOK'
  BY DEF IInv, DiskOK, Sound, Version, EndStage
<1>4. PoolOK'
  BY DEF IInv, PipelineTypeOK, PoolOK, EndStage, Appending, Sound, Version, Busy
<1>5. CompleteOK'
  BY DEF IInv, CompleteOK, Ids, Version, EndStage
<1>6. OwnOK'
  BY DEF IInv, OwnOK, Own, Foreign, EndStage
<1> QED
  BY <1>1, <1>2, <1>3, <1>4, <1>5, <1>6 DEF IInv

-----------------------------------------------------------------------------
(* The invariant, and what follows                                         *)

\* Every step of the pipeline preserves the invariant.
LEMMA NextKeeps ==
  ASSUME IInv, [Next]_vars
  PROVE  IInv'
<1>1. ASSUME NEW r \in BOOLEAN, Start(r) PROVE IInv'
  BY <1>1, StartKeeps
<1>2. ASSUME NEW v \in Inputs, ChangeInputs(v) PROVE IInv'
  BY <1>2, ChangeInputsKeeps
<1>3. CASE RefuseResume
  BY <1>3, RefuseResumeKeeps
<1>4. CASE Crash \/ ReconcileFails \/ Publish
  BY <1>4, EndRunKeeps DEF Crash, ReconcileFails, Publish
<1>5. CASE WriteStamp
  BY <1>5, WriteStampKeeps
<1>6. CASE OpenStage
  BY <1>6, OpenStageKeeps
<1>7. CASE SkipRest
  BY <1>7, SkipRestKeeps
<1>8. ASSUME NEW i \in Items,
             TakeUp(i) \/ Exhaust(i) \/ BeginRecord(i) \/ WriteRecord(i) \/ MarkDone(i)
      PROVE  IInv'
  BY <1>8, TakeUpKeeps, ExhaustKeeps, BeginRecordKeeps, WriteRecordKeeps, MarkDoneKeeps
<1>9. CASE EndStage
  <2>1. CASE stopped
    BY <2>1, <1>9, EndRunKeeps DEF EndStage
  <2>2. CASE ~ stopped
    BY <2>2, <1>9, MoveOnKeeps
  <2> QED
    BY <2>1, <2>2
<1>10. CASE LoadChangelist
  BY <1>10, LoadChangelistKeeps
<1>11. ASSUME NEW es \in SUBSET Edits, Reconcile(es) PROVE IInv'
  BY <1>11, ReconcileKeeps
<1>12. CASE SaveChangelist
  BY <1>12, SaveChangelistKeeps
<1>13. CASE UNCHANGED vars
  BY <1>13 DEF IInv, PipelineTypeOK, RunOK, DiskOK, PoolOK, CompleteOK, OwnOK,
               Busy, Ids, Sound, Own, Version, Foreign
<1> QED
  BY <1>1, <1>2, <1>3, <1>4, <1>5, <1>6, <1>7, <1>8, <1>9, <1>10, <1>11, <1>12, <1>13
  DEF Next, Proceed

\* The inductive invariant holds throughout: what the stamp, the checkpoints and the
\* workers' hands hold of each other, over any number of runs, crashes and edits.
THEOREM Invariance == PipelineSpec => []IInv
<1>1. Init => IInv
  BY Initially
<1>2. IInv /\ [Next]_vars => IInv'
  BY NextKeeps
<1> QED
  BY <1>1, <1>2, PTL DEF PipelineSpec

\* Every variable has its type, for any inputs, targets, edits and workers.
THEOREM TypeCorrect == PipelineSpec => []PipelineTypeOK
<1>1. IInv => PipelineTypeOK
  BY DEF IInv
<1> QED
  BY <1>1, Invariance, PTL

\* A record that is marked done is whole: append_record writes it first.
THEOREM WholeRecords == PipelineSpec => []RecordsWhole
<1>1. IInv => RecordsWhole
  BY MissingAssumption DEF IInv, DiskOK, RecordsWhole
<1> QED
  BY <1>1, Invariance, PTL

\* A stage that ends has a record of every item (run_stage).
THEOREM NothingLost == PipelineSpec => []StagesLoseNothing
<1>1. IInv => StagesLoseNothing
  BY DEF IInv, CompleteOK, StagesLoseNothing
<1> QED
  BY <1>1, Invariance, PTL

\* What an audit that met no older checkpoint publishes is its own, and was made
\* from the inputs its stamp names (run_audit).
THEOREM OwnResults == PipelineSpec => []OwnCheckpointsBind
<1>1. ASSUME IInv, pc = "publishing", ~ leftover, ~ edited, NEW p \in Result
      PROVE  p = [audit |-> audit, inputs |-> stamp]
  <2>1. /\ stage = "refute" /\ stamp = cur /\ cur \in Inputs /\ Version = cur
        /\ cl \in Changelist /\ recon = cl
        /\ Sound(cl.pieces) /\ Own(cl.pieces) /\ opened["refute"] = audit
    BY <1>1, MissingAssumption DEF IInv, RunOK, OwnOK, Version
  <2>2. PICK P \in SUBSET Piece : p \in P /\ Sound(P) /\ Own(P)
    <3>1. CASE p \in cl.pieces
      BY <3>1, <2>1 DEF Changelist
    <3>2. ASSUME NEW i \in done["refute"], p \in rec[i].pieces
          PROVE  rec[i].pieces \in SUBSET Piece /\ Sound(rec[i].pieces) /\ Own(rec[i].pieces)
      <4>1. Own(rec[i].pieces)
        BY <1>1, <2>1, <3>2 DEF IInv, OwnOK
      <4>2. rec[i] \in Report /\ Sound(rec[i].pieces)
        BY <1>1, <3>2 DEF IInv, DiskOK, Stages
      <4> QED
        BY <4>1, <4>2 DEF Report
    <3> QED
      BY <1>1, <3>1, <3>2 DEF Result, Returned
  <2>3. p \in Piece /\ p.audit = audit /\ p.inputs = cur
    BY <1>1, <2>1, <2>2 DEF Sound, Own
  <2> QED
    BY <2>1, <2>3 DEF Piece
<1>2. IInv => OwnCheckpointsBind
  BY <1>1 DEF OwnCheckpointsBind
<1> QED
  BY <1>2, Invariance, PTL

-----------------------------------------------------------------------------
(* The refinement                                                          *)

Running(s) == IF stage = s THEN Busy ELSE {}

\* What a step may do to a stage: begin it afresh, drop work in hand, take an
\* item up, or record one.
QueueStep(s) ==
  \/ Running(s) = {} /\ Running(s)' = {} /\ done'[s] = {} /\ plan'[s] \in (SUBSET Items) \ {None}
  \/ Running(s)' \subseteq Running(s) /\ plan'[s] = plan[s] /\ done'[s] = done[s]
  \/ \E i \in Items :
       /\ plan[s] # None /\ plan'[s] = plan[s] /\ done'[s] = done[s]
       /\ i \in plan[s] \ (done[s] \cup Running(s))
       /\ Running(s)' = Running(s) \cup {i}
  \/ \E i \in Running(s) :
       /\ plan'[s] = plan[s]
       /\ done'[s] = done[s] \cup {i}
       /\ Running(s)' = Running(s) \ {i}

\* A process that is gone leaves both stages as they are.
LEMMA EndRunIsQueueStep ==
  ASSUME EndRun, NEW s \in Stages
  PROVE  QueueStep(s)
BY DEF EndRun, ClearPool, QueueStep, Running, Busy

\* init_run begins its own stage afresh and leaves the other alone.
LEMMA OpenStageIsQueueStep ==
  ASSUME IInv, OpenStage, NEW s \in Stages
  PROVE  QueueStep(s)
<1>1. Busy = {} /\ Busy' = {} /\ stage' = stage /\ stage \in Stages
  BY DEF IInv, PipelineTypeOK, PoolOK, OpenStage, Busy
<1>2. Ids \in SUBSET Items /\ Ids # None
  <2>1. Ids \in SUBSET Items
    BY TargetsAssumption, MissingAssumption
    DEF IInv, PipelineTypeOK, RunOK, OpenStage, Ids, Items, Changelist, Stages
  <2> QED
    BY <2>1, MissingAssumption
<1>3. \/ plan'[s] = plan[s] /\ done'[s] = done[s]
      \/ plan'[s] = Ids /\ done'[s] = {}
  BY <1>1 DEF IInv, PipelineTypeOK, OpenStage
<1> QED
  BY <1>1, <1>2, <1>3 DEF QueueStep, Running

\* Taking an item up: it is pending, and no other worker has it.
LEMMA TakeUpIsQueueStep ==
  ASSUME IInv, NEW i \in Items, TakeUp(i), NEW s \in Stages
  PROVE  QueueStep(s)
<1>1. Busy' = Busy \cup {i} /\ stage' = stage /\ plan' = plan /\ done' = done
  BY DEF IInv, PipelineTypeOK, TakeUp, InStage, Busy
<1>2. plan[stage] # None /\ i \in plan[stage] \ (done[stage] \cup Busy)
  BY DEF IInv, PoolOK, TakeUp, InStage
<1> QED
  BY <1>1, <1>2 DEF QueueStep, Running

\* append_record adds its item and keeps the others.
LEMMA MarkDoneIsQueueStep ==
  ASSUME IInv, NEW i \in Items, MarkDone(i), NEW s \in Stages
  PROVE  QueueStep(s)
<1>1. seen[i] = done[stage] /\ stage \in Stages /\ i \in Busy
  BY DEF IInv, PipelineTypeOK, PoolOK, MarkDone, Busy
<1>2. Busy' = Busy \ {i} /\ stage' = stage /\ plan' = plan
  BY DEF IInv, PipelineTypeOK, MarkDone, InStage, Busy
<1>3. done'[stage] = done[stage] \cup {i} /\ (s # stage => done'[s] = done[s])
  BY <1>1 DEF IInv, PipelineTypeOK, MarkDone
<1> QED
  BY <1>1, <1>2, <1>3 DEF QueueStep, Running

\* Nothing else touches a record that is marked, or takes anything up.
LEMMA OtherIsQueueStep ==
  ASSUME IInv, NEW s \in Stages,
         UNCHANGED <<plan, done>>,
         Busy' \subseteq Busy,
         Busy # {} => stage' = stage
  PROVE  QueueStep(s)
BY DEF QueueStep, Running

\* Every step is a step of both queues, or touches neither.
LEMMA StepIsQueueStep ==
  ASSUME IInv, [Next]_vars, NEW s \in Stages
  PROVE  QueueStep(s)
<1>1. CASE Crash \/ ReconcileFails \/ Publish \/ (stopped /\ EndStage)
  BY <1>1, EndRunIsQueueStep DEF Crash, ReconcileFails, Publish, EndStage
<1>2. CASE OpenStage
  BY <1>2, OpenStageIsQueueStep
<1>3. ASSUME NEW i \in Items, TakeUp(i) PROVE QueueStep(s)
  BY <1>3, TakeUpIsQueueStep
<1>4. ASSUME NEW i \in Items, MarkDone(i) PROVE QueueStep(s)
  BY <1>4, MarkDoneIsQueueStep
<1>5. ASSUME NEW i \in Items, Exhaust(i) \/ BeginRecord(i) \/ WriteRecord(i) PROVE QueueStep(s)
  <2>1. UNCHANGED <<plan, done, stage>> /\ Busy' \subseteq Busy
    BY <1>5 DEF IInv, PipelineTypeOK, Exhaust, BeginRecord, WriteRecord, InStage, Busy
  <2> QED
    BY <2>1, OtherIsQueueStep
<1>6. CASE \/ \E r \in BOOLEAN : Start(r)
           \/ RefuseResume
           \/ \E v \in Inputs : ChangeInputs(v)
           \/ WriteStamp \/ SkipRest \/ (~ stopped /\ EndStage)
           \/ UNCHANGED vars
  <2>1. UNCHANGED <<plan, done, stage, work>>
    BY <1>6 DEF Start, RefuseResume, ChangeInputs, WriteStamp, SkipRest, InStage, EndStage
  <2> QED
    BY <2>1, OtherIsQueueStep DEF Busy
<1>7. CASE LoadChangelist \/ SaveChangelist \/ \E es \in SUBSET Edits : Reconcile(es)
  <2>1. UNCHANGED <<plan, done, work>> /\ pc # "running"
    BY <1>7 DEF LoadChangelist, SaveChangelist, Reconcile
  <2>2. Busy = {} /\ Busy' = {}
    BY <2>1 DEF IInv, PoolOK, Busy
  <2> QED
    BY <2>1, <2>2, OtherIsQueueStep
<1> QED
  BY <1>1, <1>2, <1>3, <1>4, <1>5, <1>6, <1>7 DEF Next, Proceed

\* Both checkpointed stages implement the work queue that survives crashes:
\* "resume never re-runs a completed agent or loses a written record"
\* (checkpoint.py, append_record).
THEOREM StagesImplementQueues == PipelineSpec => StagesAreQueues
<1>1. Init => AuditQueue!Init /\ RefuteQueue!Init
  BY DEF Init, AuditQueue!Init, RefuteQueue!Init, Stages, Busy
<1>2. IInv /\ [Next]_vars => [AuditQueue!Next]_(AuditQueue!queueVars)
  <2>1. QueueStep("audit") => AuditQueue!Next
    BY DEF QueueStep, Running, AuditQueue!Next, AuditQueue!BeginAfresh, AuditQueue!GiveUp,
           AuditQueue!TakeUp, AuditQueue!Record, Busy
  <2> QED
    BY <2>1, StepIsQueueStep DEF Stages
<1>3. IInv /\ [Next]_vars => [RefuteQueue!Next]_(RefuteQueue!queueVars)
  <2>1. QueueStep("refute") => RefuteQueue!Next
    BY DEF QueueStep, Running, RefuteQueue!Next, RefuteQueue!BeginAfresh, RefuteQueue!GiveUp,
           RefuteQueue!TakeUp, RefuteQueue!Record, Busy
  <2> QED
    BY <2>1, StepIsQueueStep DEF Stages
<1> QED
  BY <1>1, <1>2, <1>3, Invariance, PTL
  DEF PipelineSpec, StagesAreQueues, AuditQueue!Spec, RefuteQueue!Spec

\* The checkpoints hold what was done, whole, whatever crashed (checkpoint.py,
\* append_record).
THEOREM CheckpointSafety == PipelineSpec => []CheckpointsSound
<1>1. PipelineTypeOK /\ RecordsWhole /\ StagesLoseNothing => CheckpointsSound
  BY DEF CheckpointsSound
<1> QED BY <1>1, TypeCorrect, WholeRecords, NothingLost, PTL
===============================================================================
