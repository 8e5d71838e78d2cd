--------------------------- MODULE ProjectLifecycle ---------------------------
(***************************************************************************)
(* A generated project as the command line looks after it: the files it    *)
(* was rendered with, the answers it records, its integrity manifest and   *)
(* its chain of migrations, under `framework new`, `upskill`, `downskill`, *)
(* `upgrade`, `restore`, `integrity`, and under the hands of its builder.  *)
(*                                                                         *)
(* A command that changes the project is several writes one after another; *)
(* each is an action, and the process may die between any two of them.  A  *)
(* command that is refused changes nothing and is no action.  A file's     *)
(* content is what it was rendered from: a release and the batteries (or,  *)
(* of a migration, the revision before) that its text depends on.          *)
(***************************************************************************)
EXTENDS Naturals, FiniteSets, Sequences

CONSTANTS
  Batteries,
  Requires,      \* BatterySpec.requires
  Files,         \* the files of the template
  Kind,          \* "locked", "hybrid", "plain" (the builder's) or "migration"
  Needs,         \* Needs[f]: the batteries that ship f; {}: f is always there
  Reads,         \* Reads[f]: the batteries f's text depends on
  Chain,         \* the migrations in canonical order (MIGRATION_ORDER, then the tail)
  Versions,      \* the releases
  Channels, DefaultChannel,
  Projects,      \* what `framework new` is asked for: [batteries, pin, channels]
  Listing,       \* the files in the order Copier writes them
  Absent, Edited, Damaged,   \* a file that is not there; altered; without its markers
  None, Lost,
  MaxCommands, MaxEdits, MaxDeploys   \* bounds

\* Batteries require batteries, every migration has its place in the order, and
\* what marks a file, a manifest or a command is no content, manifest or task.
ASSUME LifecycleAssumption ==
  /\ Requires \in [Batteries -> SUBSET Batteries]
  /\ Kind \in [Files -> {"locked", "hybrid", "plain", "migration"}]
  /\ Needs \in [Files -> SUBSET Batteries]
  /\ Chain \in Seq(Files)
  /\ \A f \in Files : Kind[f] = "migration" => \E i \in DOMAIN Chain : Chain[i] = f
  /\ Listing \in Seq(Files) /\ DefaultChannel \in Channels
  /\ Projects \subseteq [batteries : SUBSET Batteries, pin : Versions, channels : Channels]
  /\ {Absent, Edited, Damaged} \cap (Versions \X SUBSET Batteries) = {}
  /\ {Absent, Edited, Damaged} \cap ({0} \X (Files \cup {None})) = {}
  /\ None # Lost
  /\ {None, Lost} \cap [op : {"update", "downskill"}, want : SUBSET Batteries,
                        target : Versions] = {}

VARIABLES
  disk,      \* disk[f]
  answers,   \* .copier-answers.yml
  lock,      \* .framework/integrity.lock: per file an entry or None; or Damaged
  cmd,       \* the command that runs
  dirty,     \* git sees changes that are not committed
  db,        \* the deployed database: its alembic revision, the migrations it ran, its deploys
  commands, edits,           \* so many so far
  chosen,    \* history: the batteries last recorded, the channels the project may have
  touched,   \* history: files changed by hand since their hash was recorded
  failed,    \* history: a command died or raised half way: Lost, or the removal to repeat
  bypassed   \* history: a downskill ran on another release than the project's

history == <<chosen, touched, failed, bypassed>>
lifecycleVars == <<disk, answers, lock, cmd, dirty, db, commands, edits, history>>

Migrations == {f \in Files : Kind[f] = "migration"}
Tracked    == {f \in Files : Kind[f] \in {"locked", "hybrid"}}

\* The selection with everything it requires (resolve).
Closed(S)  == \A b \in S : Requires[b] \subseteq S
Resolve(S) == {b \in Batteries : \A T \in SUBSET Batteries :
                                    S \subseteq T /\ Closed(T) => b \in T}

Position(m) == CHOOSE i \in DOMAIN Chain : Chain[i] = m

Shipped(f, S) == Needs[f] = {} \/ Needs[f] \cap S # {}

\* The nearest migration before m that is present; None is the baseline.
DownRevision(m, S) ==
  LET before == {i \in 1 .. (Position(m) - 1) : Shipped(Chain[i], S)}
  IN  IF before = {} THEN None
      ELSE Chain[CHOOSE i \in before : \A j \in before : j <= i]

\* What the template of release v renders for f with the batteries S.
Rendered(f, v, S) ==
  IF ~Shipped(f, S) THEN Absent
  ELSE IF f \in Migrations THEN <<0, DownRevision(f, S)>>
  ELSE <<v, S \cap Reads[f]>>

\* What a file can hold, and what a manifest can be that can be read.
Contents == {Absent, Edited, Damaged} \cup {Rendered(f, v, S) : f \in Files, v \in Versions,
                                                               S \in SUBSET Batteries}
Manifests == [Files -> {None} \cup [hash : Contents, drift : BOOLEAN]]

ASSUME ManifestAssumption == Damaged \notin Manifests

Answers == [batteries : SUBSET Batteries, channels : Channels,
            identity : BOOLEAN, pin : Versions \cup {None}]

\* Mutant: read_alert_channels without its default.
TornWithoutDefault == [batteries |-> {}, channels |-> None, identity |-> FALSE, pin |-> None]

\* What the readers make of an answers file that has been truncated.
TornAnswers == [batteries |-> {}, channels |-> DefaultChannel, identity |-> FALSE, pin |-> None]

Idle == [op |-> "none", pc |-> "idle", want |-> {}, channels |-> None, asked |-> None,
         target |-> None, todo |-> {}]
AtRest == cmd.pc = "idle"

-----------------------------------------------------------------------------
(* The integrity manifest.                                                 *)

Hash(f) == disk[f]
Entry(f) == [hash |-> Hash(f), drift |-> FALSE]

\* build_manifest raises unless every tracked file of the recorded batteries is
\* there, and every hybrid one has its markers.
Buildable == \A f \in Tracked : Shipped(f, answers.batteries) => disk[f] \notin {Absent, Damaged}

\* Mutant: the entries of files that are gone are kept.
BuildOnOldManifest == [f \in Files |-> IF f \in Tracked /\ Shipped(f, answers.batteries)
                                       THEN Entry(f) ELSE lock[f]]

BuildManifest == [f \in Files |-> IF f \in Tracked /\ Shipped(f, answers.batteries)
                                  THEN Entry(f) ELSE None]

\* The files `framework integrity` reports (it fails on a manifest it cannot read).
Findings == IF lock = Damaged THEN Files
            ELSE {f \in Files : /\ lock[f] # None
                                /\ ~lock[f].drift
                                /\ disk[f] \in {Absent, Damaged} \/ Hash(f) # lock[f].hash}

-----------------------------------------------------------------------------
Task(c) == [op |-> c.op, want |-> c.want, target |-> c.target]

\* A removal that died half way may be repeated; another command is not the
\* same any more.
Begin(c) ==
  /\ AtRest /\ commands < MaxCommands
  /\ cmd' = c
  /\ commands' = commands + 1
  /\ failed' = IF failed \in {None, Task(c)} THEN failed ELSE Lost

\* Mutant: _apply_update without its guard.
NotLookedAt == TRUE

\* _apply_update fails closed on answers without an identity.
IdentityRecorded == answers.identity

\* upskill: adds batteries or channels at the recorded release.
Upskill(adds, asked) ==
  /\ adds # {} \/ asked # None
  /\ IdentityRecorded
  /\ Begin([op |-> "update", pc |-> "merge", todo |-> {}, asked |-> asked,
            want |-> IF adds = {} THEN answers.batteries
                                  ELSE Resolve(answers.batteries \cup adds),
            channels |-> IF asked = None THEN answers.channels ELSE asked,
            target |-> answers.pin])
  /\ chosen' = [chosen EXCEPT !.channels = @ \cup ({asked} \ {None})]
  /\ UNCHANGED <<disk, answers, lock, dirty, db, edits, touched, bypassed>>

\* upgrade: the recorded batteries and channels at another release, from a clean tree.
Upgrade(target) ==
  /\ ~dirty /\ IdentityRecorded /\ target # answers.pin
  /\ Begin([op |-> "update", pc |-> "merge", todo |-> {}, asked |-> None,
            want |-> answers.batteries, channels |-> answers.channels, target |-> target])
  /\ UNCHANGED <<disk, answers, lock, dirty, db, edits, chosen, touched, bypassed>>

\* Copier's update of one file: a merge of the project's copy with what the old
\* and the new answers render.  A file the template no longer has goes.
Merged(f) ==
  LET old == Rendered(f, answers.pin, answers.batteries)
      new == Rendered(f, cmd.target, cmd.want)
      cur == disk[f]
  IN  IF cur \in {old, new} THEN new
      ELSE IF new \in {old, Absent} THEN IF new = old THEN cur ELSE Absent
      ELSE IF cur = Absent THEN Absent
      ELSE Edited

\* Its answers file: from the portable source it leaves out every answer whose
\* question the subdirectory declares; from a plain one it leaves out none.
Rewritten == {[TornAnswers EXCEPT !.pin = cmd.target],
              [batteries |-> cmd.want, channels |-> cmd.channels, identity |-> TRUE,
               pin |-> cmd.target]}

RunUpdate ==
  /\ cmd.pc = "merge"
  /\ disk' = [f \in Files |-> Merged(f)]
  /\ answers' \in Rewritten
  /\ cmd' = [cmd EXCEPT !.pc = "batteries"]
  /\ dirty' = TRUE
  /\ UNCHANGED <<lock, db, commands, edits, history>>

Record(from, to, recorded) ==
  /\ cmd.pc = from
  /\ answers' = recorded
  /\ cmd' = [cmd EXCEPT !.pc = to]
  /\ dirty' = TRUE
  /\ UNCHANGED <<disk, lock, db, commands, edits, touched, failed, bypassed>>

RecordBatteries ==
  /\ Record("batteries", IF cmd.op = "update" THEN "channels" ELSE "manifest",
            [answers EXCEPT !.batteries = cmd.want])
  /\ chosen' = [chosen EXCEPT !.batteries = cmd.want]

RecordChannels ==
  /\ Record("channels", "identity", [answers EXCEPT !.channels = cmd.channels])
  /\ chosen' = [chosen EXCEPT !.channels = {cmd.channels}]

RecordIdentity ==
  /\ Record("identity", "manifest", [answers EXCEPT !.identity = TRUE])
  /\ UNCHANGED chosen

\* write_manifest, or its AuthoringError; then `task test`, which changes nothing here.
WriteManifest ==
  /\ cmd.pc = "manifest"
  /\ cmd' = Idle
  /\ \/ /\ Buildable
        /\ lock' = BuildManifest /\ dirty' = TRUE /\ touched' = {}
        /\ failed' = IF failed = Task(cmd) THEN None ELSE failed
     \/ /\ ~Buildable
        /\ failed' = Lost
        /\ UNCHANGED <<lock, dirty, touched>>
  /\ UNCHANGED <<disk, answers, db, commands, edits, chosen, bypassed>>

-----------------------------------------------------------------------------
(* downskill: two renders, with and without the battery, by the release of *)
(* the command line that runs.                                             *)

With(f)    == Rendered(f, cmd.target, answers.batteries)
Without(f) == Rendered(f, cmd.target, cmd.want)

Owned(f, v, S, b) == Rendered(f, v, S) # Absent /\ Rendered(f, v, S \ {b}) = Absent

\* Mutant: blocking_dependents looks at the battery itself only.
NoDependents(b) == {c \in {b} : c \notin Batteries}

Dependents(b) == {c \in answers.batteries \ {b} : b \in Resolve({c})}

\* A refusal because the battery looks in use changes nothing, and --force
\* overrules it.
Downskill(b, v) ==
  /\ b \in answers.batteries /\ Dependents(b) = {}
  /\ LET S == answers.batteries
     IN  Begin([op |-> "downskill", pc |-> "unlink", asked |-> None, channels |-> None,
                want |-> S \ {b}, target |-> v,
                todo |-> {f \in Files \ Migrations : Owned(f, v, S, b)}])
  /\ bypassed' = (bypassed \/ v # answers.pin)
  /\ UNCHANGED <<disk, answers, lock, dirty, db, edits, chosen, touched>>

Unlink(f) ==
  /\ cmd.pc = "unlink" /\ f \in cmd.todo
  /\ disk' = [disk EXCEPT ![f] = Absent]
  /\ cmd' = [cmd EXCEPT !.todo = @ \ {f}]
  /\ dirty' = TRUE
  /\ UNCHANGED <<answers, lock, db, commands, edits, history>>

\* The files both renders have and the battery changes.
UnlinkDone ==
  /\ cmd.pc = "unlink" /\ cmd.todo = {}
  /\ cmd' = [cmd EXCEPT !.pc = "splice",
                        !.todo = {f \in Files : Absent \notin {With(f), Without(f)}
                                                /\ With(f) # Without(f)}]
  /\ UNCHANGED <<disk, answers, lock, dirty, db, commands, edits, history>>

\* A hybrid file's section is replaced, unless its markers are gone; another
\* file is replaced if nobody has changed it, and left with a warning otherwise.
Splice(f) ==
  /\ cmd.pc = "splice" /\ f \in cmd.todo
  /\ IF Kind[f] = "hybrid" /\ disk[f] \in {Absent, Damaged}
     THEN /\ cmd' = Idle /\ failed' = Lost
          /\ UNCHANGED <<disk, dirty, touched>>
     ELSE /\ disk' = [disk EXCEPT ![f] = IF Kind[f] = "hybrid" \/ @ = With(f)
                                         THEN Without(f) ELSE @]
          /\ touched' = IF Kind[f] = "hybrid" THEN touched \ {f} ELSE touched
          /\ cmd' = [cmd EXCEPT !.todo = @ \ {f}]
          /\ dirty' = TRUE
          /\ UNCHANGED failed
  /\ UNCHANGED <<answers, lock, db, commands, edits, chosen, bypassed>>

SpliceDone ==
  /\ cmd.pc = "splice" /\ cmd.todo = {}
  /\ cmd' = [cmd EXCEPT !.pc = "batteries"]
  /\ UNCHANGED <<disk, answers, lock, dirty, db, commands, edits, history>>

-----------------------------------------------------------------------------
\* Mutant: without require_version_sync.
AnyRelease(v) == v \in Versions

InSync(v) == v = answers.pin

\* Mutant: the entry keeps its hash.
KeptEntry(f, v) == [lock[f] EXCEPT !.drift = FALSE]

RestoredEntry(f, v) == [hash |-> Rendered(f, v, answers.batteries), drift |-> FALSE]

\* restore: the file as the running release renders it, which must be the
\* project's (require_version_sync), and its hash.  Copier does not render
\* without the identity.
RestoreFile(f, v) ==
  /\ AtRest /\ lock # Damaged /\ answers.identity
  /\ InSync(v)
  /\ lock[f] # None
  /\ Rendered(f, v, answers.batteries) # Absent
  /\ Kind[f] = "hybrid" => disk[f] \notin {Absent, Damaged}
  /\ disk' = [disk EXCEPT ![f] = Rendered(f, v, answers.batteries)]
  /\ lock' = [lock EXCEPT ![f] = RestoredEntry(f, v)]
  /\ touched' = touched \ {f}
  /\ dirty' = TRUE
  /\ UNCHANGED <<answers, cmd, db, commands, edits, chosen, failed, bypassed>>

\* integrity --allow-drift: this file may differ.
RecordDrift(f) ==
  /\ AtRest /\ lock # Damaged /\ lock[f] # None /\ ~lock[f].drift
  /\ edits < MaxEdits
  /\ lock' = [lock EXCEPT ![f].drift = TRUE]
  /\ edits' = edits + 1
  /\ dirty' = TRUE
  /\ UNCHANGED <<disk, answers, cmd, db, commands, history>>

\* The builder edits a file, deletes it, or damages its markers.
EditFile(f, how) ==
  /\ AtRest /\ edits < MaxEdits
  /\ f \notin Migrations
  /\ disk[f] \notin {Absent, Edited, Damaged}
  /\ how = Damaged => Kind[f] = "hybrid"
  /\ disk' = [disk EXCEPT ![f] = how]
  /\ edits' = edits + 1
  /\ touched' = touched \cup {f}
  /\ dirty' = TRUE
  /\ UNCHANGED <<answers, lock, cmd, db, commands, chosen, failed, bypassed>>

Commit ==
  /\ AtRest /\ dirty
  /\ dirty' = FALSE
  /\ UNCHANGED <<disk, answers, lock, cmd, db, commands, edits, history>>

\* The process dies: inside Copier with some of the files merged and the answers
\* rewritten or not; in a write with the file truncated.
Crash ==
  /\ ~AtRest
  /\ cmd' = Idle /\ dirty' = TRUE
  /\ \/ UNCHANGED <<disk, answers, lock>>
     \/ /\ cmd.pc = "merge"
        /\ \E n \in DOMAIN Listing :
             disk' = [f \in Files |-> IF f \in {Listing[i] : i \in 1 .. n}
                                      THEN Merged(f) ELSE disk[f]]
        /\ answers' \in Rewritten \cup {answers}
        /\ UNCHANGED lock
     \/ /\ cmd.pc \in {"batteries", "channels", "identity"}
        /\ answers' = TornAnswers
        /\ UNCHANGED <<disk, lock>>
     \/ /\ cmd.pc = "manifest"
        /\ lock' = Damaged
        /\ UNCHANGED <<disk, answers>>
  /\ failed' = IF failed # Lost /\ cmd.op = "downskill" /\ answers'.batteries # cmd.want
                  /\ answers'.identity
               THEN Task(cmd) ELSE Lost
  /\ UNCHANGED <<db, commands, edits, chosen, touched, bypassed>>

-----------------------------------------------------------------------------
(* The deployed database follows the project's migrations (alembic         *)
(* upgrade head).                                                          *)

Revisions == {m \in Migrations : disk[m] # Absent}
Heads     == {m \in Revisions : \A n \in Revisions : disk[n] # Edited => disk[n][2] # m}
Order(m)  == IF m = None THEN 0 ELSE Position(m)

\* Alembic refuses more than one head.  With one, the revisions are one chain.
MigrateDatabase ==
  /\ AtRest /\ db.deploys < MaxDeploys
  /\ Cardinality(Heads) = 1 /\ \A m \in Revisions : disk[m] # Edited
  /\ \E h \in Heads :
       /\ db.at # h /\ Order(db.at) < Order(h)
       /\ db' = [at |-> h, ran |-> db.ran \cup {m \in Revisions : Order(m) > Order(db.at)},
               deploys |-> db.deploys + 1]
  /\ UNCHANGED <<disk, answers, lock, cmd, dirty, commands, edits, history>>

-----------------------------------------------------------------------------
\* framework new: the project is rendered, its manifest and its source recorded.
LifecycleInit ==
  \E p \in Projects : LET S == Resolve(p.batteries) v == p.pin c == p.channels IN
    /\ disk = [f \in Files |-> Rendered(f, v, S)]
    /\ answers = [batteries |-> S, channels |-> c, identity |-> TRUE, pin |-> v]
    /\ lock = [f \in Files |-> IF f \in Tracked /\ Shipped(f, S)
                               THEN [hash |-> Rendered(f, v, S), drift |-> FALSE] ELSE None]
    /\ chosen = [batteries |-> S, channels |-> {c}]
    /\ cmd = Idle /\ dirty = TRUE
    /\ db = [at |-> None, ran |-> {}, deploys |-> 0]
    /\ commands = 0 /\ edits = 0
    /\ touched = {} /\ failed = None /\ bypassed = FALSE

Update == RunUpdate \/ RecordBatteries \/ RecordChannels \/ RecordIdentity \/ WriteManifest

Remove == UnlinkDone \/ SpliceDone \/ \E f \in Files : Unlink(f) \/ Splice(f)

LifecycleNext ==
  \/ \E adds \in SUBSET Batteries, asked \in Channels \cup {None} : Upskill(adds, asked)
  \/ \E v \in Versions : Upgrade(v)
  \/ \E b \in Batteries, v \in Versions : Downskill(b, v)
  \/ Update \/ Remove
  \/ \E f \in Files, v \in Versions : RestoreFile(f, v)
  \/ \E f \in Files : RecordDrift(f)
  \/ \E f \in Files, how \in {Absent, Edited, Damaged} : EditFile(f, how)
  \/ Commit \/ Crash \/ MigrateDatabase

LifecycleSpec == LifecycleInit /\ [][LifecycleNext]_lifecycleVars
-----------------------------------------------------------------------------
LifecycleTypeOK ==
  /\ \A f \in Files : disk[f] \in Contents
  /\ answers \in Answers
  /\ lock \in Manifests \cup {Damaged}
  /\ cmd.todo \subseteq Files /\ cmd.want \subseteq Batteries
  /\ db.at \in Migrations \cup {None} /\ db.ran \subseteq Migrations
  /\ touched \subseteq Files

\* The recorded batteries are closed under their requirements, whatever is added
\* and removed in whatever order and wherever a command dies: a template is
\* never rendered with a battery whose requirement is missing.
RequirementsClosed == Closed(answers.batteries) /\ Closed(cmd.want)

\* Copier's update strips the answers and the recorders put them back one by one,
\* the identity last: a command that follows one that died in between refuses,
\* and never renders the project without a battery, or with channels, that
\* nobody asked for.
UpdatesKeepChoices ==
  cmd.op = "update" /\ cmd.pc = "merge" =>
    /\ chosen.batteries \subseteq cmd.want
    /\ cmd.asked = None => cmd.channels \in chosen.channels

\* In a life without half-finished commands (a removal that died and was run
\* again is finished), `framework integrity` reports the
\* managed files changed by hand since they were last recorded (unless their
\* drift is allowed) and nothing else, whatever upskill, downskill, upgrade and
\* restore have done to files and manifest.
ReportsWhatChanged ==
  AtRest /\ failed = None => Findings = {f \in touched : lock[f] # None /\ ~lock[f].drift}

\* In such a life, with the matching release throughout, every file nobody has
\* touched is what a fresh render of the recorded answers gives: an upskill
\* and the downskill that undoes it, restores and upgrades leave no trace.  Only
\* the migrations of removed batteries stay.
UntouchedFilesAreRendered ==
  AtRest /\ failed = None /\ ~bypassed =>
    \A f \in Files : \/ disk[f] \in {Absent, Edited, Damaged,
                                    Rendered(f, answers.pin, answers.batteries)}
                     \/ f \in Migrations /\ ~Shipped(f, answers.batteries)

\* And what integrity reports, restore can put back, markers permitting.
FindingsRestorable ==
  AtRest /\ failed = None =>
    \A f \in Findings : Rendered(f, answers.pin, answers.batteries) # Absent

\* The migrations are one chain, and a database that is at its head has run the
\* migration of every battery the project has: "preserving migrations (so a
\* removal never orphans your database history)" (documentation/using/
\* batteries-add-remove.md:49), and a tail that "runs after every battery
\* migration" (migrations.py:51-52).
DatabaseFollowsProject ==
  AtRest /\ failed = None /\ edits = 0 =>
    /\ Cardinality(Heads) <= 1
    /\ \A h \in Heads : db.at = h =>
         \A m \in Migrations : Shipped(m, answers.batteries) => m \in db.ran

\* What the project has chosen survives every command, whole or broken off.
ChoicesAreKept == RequirementsClosed /\ UpdatesKeepChoices

\* What `framework integrity' finds is what was changed, and can be restored.
FindingsAreSound == ReportsWhatChanged /\ FindingsRestorable
=============================================================================
