---------------------------- MODULE MCAuditPipeline ----------------------------
(***************************************************************************)
(* Two versions of the inputs that audit different reviewers, two worker   *)
(* threads, up to two edits, three runs.                                   *)
(***************************************************************************)
EXTENDS AuditPipeline, TLC

CONSTANTS v1, v2, a, b

MCTargetsOf == (v1 :> {a, b}) @@ (v2 :> {b})
===============================================================================
