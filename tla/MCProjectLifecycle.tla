------------------------- MODULE MCProjectLifecycle -------------------------
(***************************************************************************)
(* Three batteries: two with migrations (the second with a tail migration, *)
(* as workers has), and one that requires the first; two releases; a file  *)
(* of every kind.                                                          *)
(***************************************************************************)
EXTENDS ProjectLifecycle, TLC

CONSTANTS webhooks, workers, replay

MCRequires == (webhooks :> {}) @@ (workers :> {}) @@ (replay :> {webhooks})

MCChain == <<"0002", "0003", "0007">>

MCFiles == {"compose", "worker.yml", "Taskfile", "main.py", "replay.py", "0002", "0003", "0007"}

MCKind == [f \in MCFiles |->
  CASE f \in {"compose", "worker.yml"} -> "locked"
    [] f = "Taskfile"                  -> "hybrid"
    [] f \in {"main.py", "replay.py"}  -> "plain"
    [] OTHER                           -> "migration"]

MCNeeds == [f \in MCFiles |->
  CASE f \in {"worker.yml", "0003", "0007"} -> {workers}
    [] f = "0002"                           -> {webhooks}
    [] f = "replay.py"                      -> {replay}
    [] OTHER                                -> {}]

MCReads == [f \in MCFiles |->
  CASE f = "Taskfile" -> {workers}
    [] f = "main.py"  -> {webhooks, replay}
    [] OTHER          -> {}]

MCProjects == [batteries : {{}, {workers}, {webhooks, workers}}, pin : {1}, channels : {"webhook"}]

MCListing == <<"main.py", "Taskfile", "0003", "compose", "worker.yml", "0002", "replay.py", "0007">>
=============================================================================
