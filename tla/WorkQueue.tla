------------------------------- MODULE WorkQueue -------------------------------
(***************************************************************************)
(* What a checkpointed stage promises (review/checkpoint.py, append_record:*)
(* "resume never re-runs a completed agent or loses a written record").    *)
(* Items are recorded one by one; only planned items that are not recorded *)
(* are worked on; a record goes only when the stage is begun afresh.  Work *)
(* in hand may be dropped at any time.                                     *)
(***************************************************************************)
CONSTANTS Items, None

VARIABLES
  planned,   \* the items of the stage, or None before it is first begun
  recorded,  \* the items whose outcome is kept
  running    \* the items being worked on

queueVars == <<planned, recorded, running>>

Init == planned = None /\ recorded = {} /\ running = {}

BeginAfresh ==
  /\ running = {}
  /\ planned' # None /\ planned' \in SUBSET Items
  /\ recorded' = {}
  /\ UNCHANGED running

TakeUp(i) ==
  /\ planned # None
  /\ i \in planned \ (recorded \cup running)
  /\ running' = running \cup {i}
  /\ UNCHANGED <<planned, recorded>>

Record(i) ==
  /\ i \in running
  /\ recorded' = recorded \cup {i}
  /\ running'  = running \ {i}
  /\ UNCHANGED planned

GiveUp ==
  /\ running' \in SUBSET running
  /\ UNCHANGED <<planned, recorded>>

Next == BeginAfresh \/ GiveUp \/ \E i \in Items : TakeUp(i) \/ Record(i)

Spec == Init /\ [][Next]_queueVars
===============================================================================
