------------------------ MODULE ProjectLifecycleProofs ------------------------
(***************************************************************************)
(* Proofs about ProjectLifecycle, for any batteries and what they require, *)
(* any files of any kind, any releases, channels and projects, and any     *)
(* order in which Copier writes.                                           *)
(***************************************************************************)
EXTENDS ProjectLifecycle, TLAPS, WellFoundedInduction

Tasks == [op : {"downskill"}, want : SUBSET Batteries, target : Versions]

Updates == [op : {"update"}, pc : {"merge", "batteries", "channels", "identity", "manifest"},
            want : SUBSET Batteries, channels : Channels, asked : Channels \cup {None},
            target : Versions, todo : {{}}]
Removals == [op : {"downskill"}, pc : {"unlink", "splice", "batteries", "manifest"},
             want : SUBSET Batteries, channels : {None}, asked : {None}, target : Versions,
             todo : SUBSET Files]

LifecycleTyped ==
  /\ disk \in [Files -> Contents]
  /\ answers \in Answers
  /\ lock \in Manifests \cup {Damaged}
  /\ cmd \in {Idle} \cup Updates \cup Removals
  /\ db.at \in Migrations \cup {None} /\ db.ran \subseteq Migrations
  /\ chosen \in [batteries : SUBSET Batteries, channels : SUBSET Channels]
  /\ touched \subseteq Files
  /\ failed \in {None, Lost} \cup Tasks
  /\ bypassed \in BOOLEAN

\* Answers with an identity hold every battery chosen, a channel chosen, and a release.
IdentityInv ==
  answers.identity => /\ answers.pin \in Versions
                      /\ chosen.batteries \subseteq answers.batteries
                      /\ answers.channels \in chosen.channels

\* What an update has put back of the answers.
UpdateInv ==
  cmd.op = "update" =>
    /\ chosen.batteries \subseteq cmd.want /\ cmd.channels \in chosen.channels
    /\ cmd.pc # "merge" => answers.pin = cmd.target
    /\ cmd.pc \in {"channels", "identity", "manifest"} => answers.batteries = cmd.want
    /\ cmd.pc \in {"identity", "manifest"} => answers.channels = cmd.channels

\* A removal leaves out one of the recorded batteries until it has recorded that.
RemoveInv ==
  cmd.op = "downskill" =>
    /\ IF cmd.pc = "manifest" THEN answers.batteries = cmd.want
       ELSE cmd.want \subseteq answers.batteries
    /\ ~bypassed => cmd.target = answers.pin

FailureInv ==
  /\ ~AtRest => failed \in {None, Lost, Task(cmd)}
  /\ AtRest /\ failed \in Tasks /\ ~bypassed => failed.target = answers.pin

ChoicesInv == LifecycleTyped /\ IdentityInv /\ UpdateInv /\ RemoveInv /\ RequirementsClosed /\ FailureInv

\* f is as the release v renders it with the batteries S, or as its builder left
\* it, or a migration that a removal has left behind.
Stands(f, v, S) ==
  \/ disk[f] \in {Absent, Edited, Damaged, Rendered(f, v, S)}
  \/ f \in Migrations /\ ~Shipped(f, S)

Recorded(f) == Stands(f, answers.pin, answers.batteries)

Removing(f) ==
  /\ Recorded(f) \/ disk[f] = Without(f)
  /\ cmd.pc = "unlink" =>
       (f \notin Migrations /\ With(f) # Absent /\ Without(f) = Absent /\ f \notin cmd.todo
          => disk[f] = Absent)
  /\ cmd.pc = "splice" =>
       IF f \in cmd.todo THEN disk[f] \in {Absent, Edited, Damaged, With(f), Without(f)}
                         ELSE Stands(f, cmd.target, cmd.want)
  /\ cmd.pc = "batteries" => Stands(f, cmd.target, cmd.want)

FileInv(f) ==
  IF AtRest THEN Recorded(f) \/ (failed # None /\ disk[f] = Rendered(f, failed.target, failed.want))
  ELSE IF cmd.op = "update" THEN IF cmd.pc = "merge" THEN Recorded(f)
                                 ELSE Stands(f, cmd.target, cmd.want)
  ELSE IF cmd.pc = "manifest" THEN Stands(f, cmd.target, cmd.want)
  ELSE Removing(f)

FilesInv == failed # Lost /\ ~bypassed => \A f \in Files : FileInv(f)

\* A managed file's entry, and whether integrity reports it.
EntryInv(f) ==
  lock[f] # None =>
    /\ f \in Tracked /\ Shipped(f, answers.batteries)
    /\ lock[f].hash = Edited => disk[f] = Edited
    /\ ~lock[f].drift =>
         (f \in touched <=> disk[f] \in {Absent, Damaged} \/ disk[f] # lock[f].hash)

ManifestInv ==
  AtRest /\ failed = None => lock # Damaged /\ \A f \in Files : EntryInv(f)

LEMMA TaskFacts ==
  /\ None # Lost /\ None \notin Tasks /\ Lost \notin Tasks
  /\ \A c \in Updates \cup Removals : Task(c) \notin {None, Lost}
<1>1. \A c \in Updates \cup Removals :
        Task(c) \in [op : {"update", "downskill"}, want : SUBSET Batteries, target : Versions]
  BY DEF Task, Updates, Removals
<1>2. Tasks \subseteq [op : {"update", "downskill"}, want : SUBSET Batteries, target : Versions]
  BY DEF Tasks
<1> QED
  BY <1>1, <1>2, LifecycleAssumption

-----------------------------------------------------------------------------
(* What a release renders.                                                 *)

\* The greatest of a set of places, which the order of the migrations asks for.
LEMMA Greatest ==
  ASSUME NEW n \in Nat, NEW S \in SUBSET (1 .. n), S # {}
  PROVE  \E i \in S : \A j \in S : j <= i
<1> DEFINE R == OpToRel(<, Nat)
<1>1. \A x, y \in Nat : <<y, x>> \in R <=> y < x
  BY DEF OpToRel
<1>2. IsWellFoundedOn(R, Nat)
  BY NatLessThanWellFounded
<1> HIDE DEF R
<1> DEFINE T == {n - i : i \in S}
<1>0. \A i \in S : i \in Nat /\ n - i \in Nat
  OBVIOUS
<1>3. T \in SUBSET Nat /\ T # {}
  BY <1>0
<1>4. PICK x \in T : \A y \in T : ~(<<y, x>> \in R)
  <2> HIDE DEF T
  <2> QED
    BY <1>2, <1>3, WFMin
<1>5. PICK i \in S : x = n - i
  OBVIOUS
<1>6. ASSUME NEW j \in S PROVE j <= i
  <2>1. n - j \in T
    OBVIOUS
  <2>2. ~(<<n - j, n - i>> \in R)
    BY <1>4, <1>5, <2>1
  <2>3. i \in Nat /\ j \in Nat /\ n - j \in Nat /\ n - i \in Nat
    OBVIOUS
  <2>4. ~(n - j < n - i)
    BY <1>1, <2>2, <2>3
  <2> QED
    BY <2>3, <2>4
<1> QED
  BY <1>6

LEMMA DownRevisionIn ==
  ASSUME NEW m \in Migrations, NEW S
  PROVE  DownRevision(m, S) \in Files \cup {None}
<1> DEFINE before == {i \in 1 .. (Position(m) - 1) : Shipped(Chain[i], S)}
<1>1. Chain \in Seq(Files) /\ Position(m) \in DOMAIN Chain
  BY LifecycleAssumption DEF Migrations, Position
<1>2. CASE before = {}
  BY <1>2 DEF DownRevision
<1>3. CASE before # {}
  <2>1. Position(m) - 1 \in Nat /\ before \in SUBSET (1 .. (Position(m) - 1))
    BY <1>1
  <2>2. \E i \in before : \A j \in before : j <= i
    <3> HIDE DEF before
    <3> QED
      BY <1>3, <2>1, Greatest
  <2>3. (CHOOSE i \in before : \A j \in before : j <= i) \in before
    BY <2>2
  <2>4. before \subseteq DOMAIN Chain
    BY <1>1
  <2> QED
    BY <1>1, <1>3, <2>3, <2>4 DEF DownRevision
<1> QED
  BY <1>2, <1>3

\* A file is absent exactly when no selected battery ships it, and a rendered one
\* is none of the marks.
LEMMA RenderedFacts ==
  ASSUME NEW f \in Files, NEW v, NEW S \in SUBSET Batteries
  PROVE  /\ ~Shipped(f, S) => Rendered(f, v, S) = Absent
         /\ v \in Versions => Rendered(f, v, S) \in Contents
         /\ v \in Versions /\ Shipped(f, S) => Rendered(f, v, S) \notin {Absent, Edited, Damaged}
<1>1. ~Shipped(f, S) => Rendered(f, v, S) = Absent
  BY DEF Rendered
<1>2. v \in Versions => Rendered(f, v, S) \in Contents
  BY DEF Contents
<1>3. ASSUME v \in Versions, Shipped(f, S)
      PROVE  Rendered(f, v, S) \notin {Absent, Edited, Damaged}
  <2>1. CASE f \in Migrations
    <3>1. Rendered(f, v, S) = <<0, DownRevision(f, S)>>
      BY <1>3, <2>1 DEF Rendered
    <3>2. Rendered(f, v, S) \in {0} \X (Files \cup {None})
      BY <2>1, <3>1, DownRevisionIn
    <3> QED
      BY <3>2, LifecycleAssumption
  <2>2. CASE f \notin Migrations
    <3>1. Rendered(f, v, S) = <<v, S \cap Reads[f]>>
      BY <1>3, <2>2 DEF Rendered
    <3>2. Rendered(f, v, S) \in Versions \X SUBSET Batteries
      BY <1>3, <3>1
    <3> QED
      BY <3>2, LifecycleAssumption
  <2> QED
    BY <2>1, <2>2
<1> QED
  BY <1>1, <1>2, <1>3

\* What is shipped with fewer batteries is shipped with more.
LEMMA ShippedGrows ==
  ASSUME NEW f, NEW S, NEW T, S \subseteq T, Shipped(f, S)
  PROVE  Shipped(f, T)
  BY DEF Shipped

\* What resolve returns is closed, and holds what it was given.
LEMMA ResolveFacts ==
  ASSUME NEW S \in SUBSET Batteries
  PROVE  Resolve(S) \in SUBSET Batteries /\ S \subseteq Resolve(S) /\ Closed(Resolve(S))
<1>1. Resolve(S) \in SUBSET Batteries /\ S \subseteq Resolve(S)
  BY DEF Resolve
<1>2. ASSUME NEW b \in Resolve(S), NEW r \in Requires[b] PROVE r \in Resolve(S)
  <2>1. b \in Batteries /\ r \in Batteries
    BY <1>2, LifecycleAssumption DEF Resolve
  <2>2. ASSUME NEW T \in SUBSET Batteries, S \subseteq T, Closed(T) PROVE r \in T
    <3>1. b \in T
      BY <1>2, <2>2 DEF Resolve
    <3> QED
      BY <1>2, <2>2, <3>1 DEF Closed
  <2> QED
    BY <2>1, <2>2 DEF Resolve
<1> QED
  BY <1>1, <1>2 DEF Closed

\* A battery nothing else depends on can go.
LEMMA RemovalClosed ==
  ASSUME answers.batteries \in SUBSET Batteries, Closed(answers.batteries),
         NEW b, Dependents(b) = {}
  PROVE  Closed(answers.batteries \ {b})
<1> SUFFICES ASSUME NEW c \in answers.batteries \ {b}, b \in Requires[c] PROVE FALSE
  BY DEF Closed
<1>1. c \in Batteries /\ {c} \in SUBSET Batteries
  OBVIOUS
<1>2. c \in Resolve({c}) /\ Closed(Resolve({c}))
  BY <1>1, ResolveFacts
<1>3. b \in Resolve({c})
  BY <1>2 DEF Closed
<1> QED
  BY <1>3 DEF Dependents
-----------------------------------------------------------------------------
(* The choices                                                             *)

\* A command is an update or a removal until it is over.
LEMMA CommandFacts ==
  ASSUME cmd \in {Idle} \cup Updates \cup Removals
  PROVE  /\ cmd.want \in SUBSET Batteries /\ cmd.todo \in SUBSET Files
         /\ AtRest => cmd = Idle
         /\ ~AtRest => cmd \in Updates \/ cmd \in Removals
         /\ cmd \in Updates => cmd.op = "update" /\ ~AtRest /\ cmd.channels \in Channels
         /\ cmd \in Removals => cmd.op = "downskill" /\ ~AtRest
         /\ cmd.op = "update" => cmd \in Updates
         /\ cmd.op = "downskill" => cmd \in Removals
         /\ ~AtRest => cmd.target \in Versions
         /\ cmd.pc \in {"merge", "channels", "identity"} => cmd \in Updates
         /\ cmd.pc \in {"unlink", "splice"} => cmd \in Removals
  BY DEF Idle, Updates, Removals, AtRest

\* A command begins only at rest, and keeps a failure only if it repeats it.
LEMMA BeginFacts ==
  ASSUME NEW c \in Updates \cup Removals, Begin(c), failed \in {None, Lost} \cup Tasks
  PROVE  /\ AtRest /\ cmd' = c /\ failed' \in {None, Lost, Task(c)} /\ failed' \in {failed, Lost}
         /\ failed' \in {None, Lost} \cup Tasks
         /\ failed' \notin {None, Lost} => c \in Removals /\ failed = Task(c)
         /\ failed' # Lost => failed \in {None, Task(c)} /\ failed' = failed
  BY DEF Begin, Updates, Removals, Task, Tasks

LEMMA UpskillOK ==
  ASSUME ChoicesInv, NEW adds \in SUBSET Batteries, NEW asked \in Channels \cup {None},
         Upskill(adds, asked)
  PROVE  ChoicesInv'
<1> DEFINE want == IF adds = {} THEN answers.batteries ELSE Resolve(answers.batteries \cup adds)
           c == [op |-> "update", pc |-> "merge", todo |-> {}, asked |-> asked, want |-> want,
                 channels |-> IF asked = None THEN answers.channels ELSE asked,
                 target |-> answers.pin]
<1>1. answers.identity /\ answers.pin \in Versions /\ answers.batteries \in SUBSET Batteries
      /\ answers.channels \in Channels
  BY DEF ChoicesInv, LifecycleTyped, IdentityInv, Upskill, IdentityRecorded, Answers
<1>2. want \in SUBSET Batteries /\ answers.batteries \subseteq want /\ Closed(want)
  <2>1. answers.batteries \cup adds \in SUBSET Batteries
    BY <1>1
  <2> QED
    BY <1>1, <2>1, ResolveFacts DEF ChoicesInv, RequirementsClosed
<1> HIDE DEF want
<1>3. c \in Updates
  BY <1>1, <1>2 DEF Updates
<1>4. Begin(c)
  BY DEF Upskill, want
<1>5. /\ c.want = want /\ c.pc = "merge" /\ c.op = "update"
      /\ c.channels = IF asked = None THEN answers.channels ELSE asked
  OBVIOUS
<1> HIDE DEF c
<1>6. /\ chosen' = [chosen EXCEPT !.channels = @ \cup ({asked} \ {None})]
      /\ UNCHANGED <<disk, answers, lock, dirty, db, edits, touched, bypassed>>
  BY DEF Upskill
<1>7. /\ chosen'.batteries = chosen.batteries /\ chosen.channels \subseteq chosen'.channels
      /\ asked # None => asked \in chosen'.channels
      /\ chosen' \in [batteries : SUBSET Batteries, channels : SUBSET Channels]
  BY <1>6 DEF ChoicesInv, LifecycleTyped
<1>8. cmd' = c /\ failed' \in {None, Lost, Task(c)} /\ failed' \in {None, Lost} \cup Tasks
  BY <1>3, <1>4, BeginFacts DEF ChoicesInv, LifecycleTyped
<1>9. ~AtRest'
  BY <1>5, <1>8 DEF AtRest
<1>10. LifecycleTyped'
  BY <1>3, <1>6, <1>7, <1>8 DEF ChoicesInv, LifecycleTyped
<1>11. IdentityInv' /\ UpdateInv' /\ RemoveInv'
  BY <1>1, <1>2, <1>5, <1>6, <1>7, <1>8 DEF ChoicesInv, IdentityInv, UpdateInv, RemoveInv
<1>12. RequirementsClosed' /\ FailureInv'
  BY <1>2, <1>5, <1>6, <1>8, <1>9 DEF ChoicesInv, RequirementsClosed, FailureInv
<1> QED
  BY <1>10, <1>11, <1>12 DEF ChoicesInv

LEMMA UpgradeOK ==
  ASSUME ChoicesInv, NEW target \in Versions, Upgrade(target)
  PROVE  ChoicesInv'
<1> DEFINE c == [op |-> "update", pc |-> "merge", todo |-> {}, asked |-> None,
                 want |-> answers.batteries, channels |-> answers.channels, target |-> target]
<1>1. answers.identity /\ answers.batteries \in SUBSET Batteries /\ answers.channels \in Channels
  BY DEF ChoicesInv, LifecycleTyped, Upgrade, IdentityRecorded, Answers
<1>2. c \in Updates
  BY <1>1 DEF Updates
<1>3. Begin(c)
  BY DEF Upgrade
<1>4. /\ c.want = answers.batteries /\ c.pc = "merge" /\ c.op = "update"
      /\ c.channels = answers.channels
  OBVIOUS
<1> HIDE DEF c
<1>5. UNCHANGED <<disk, answers, lock, dirty, db, edits, chosen, touched, bypassed>>
  BY DEF Upgrade
<1>6. cmd' = c /\ failed' \in {None, Lost, Task(c)} /\ failed' \in {None, Lost} \cup Tasks
  BY <1>2, <1>3, BeginFacts DEF ChoicesInv, LifecycleTyped
<1>7. ~AtRest'
  BY <1>4, <1>6 DEF AtRest
<1>8. LifecycleTyped'
  BY <1>2, <1>5, <1>6 DEF ChoicesInv, LifecycleTyped
<1>9. IdentityInv' /\ UpdateInv' /\ RemoveInv'
  BY <1>1, <1>4, <1>5, <1>6 DEF ChoicesInv, IdentityInv, UpdateInv, RemoveInv
<1>10. RequirementsClosed' /\ FailureInv'
  BY <1>4, <1>5, <1>6, <1>7 DEF ChoicesInv, RequirementsClosed, FailureInv
<1> QED
  BY <1>8, <1>9, <1>10 DEF ChoicesInv

LEMMA DownskillOK ==
  ASSUME ChoicesInv, NEW b \in Batteries, NEW v \in Versions, Downskill(b, v)
  PROVE  ChoicesInv'
<1> DEFINE S == answers.batteries
           gone == {f \in Files \ Migrations : Owned(f, v, S, b)}
           c == [op |-> "downskill", pc |-> "unlink", asked |-> None, channels |-> None,
                 want |-> S \ {b}, target |-> v, todo |-> gone]
<1>1. S \in SUBSET Batteries /\ Closed(S \ {b}) /\ gone \in SUBSET Files
  BY RemovalClosed DEF ChoicesInv, LifecycleTyped, RequirementsClosed, Downskill, Answers
<1>2. Begin(c)
  BY DEF Downskill
<1> HIDE DEF gone
<1>3. c \in Removals
  BY <1>1 DEF Removals
<1>4. c.want = answers.batteries \ {b} /\ c.pc = "unlink" /\ c.op = "downskill" /\ c.target = v
  OBVIOUS
<1> HIDE DEF c
<1>5. /\ bypassed' = (bypassed \/ v # answers.pin)
      /\ UNCHANGED <<disk, answers, lock, dirty, db, edits, chosen, touched>>
  BY DEF Downskill
<1>6. cmd' = c /\ failed' \in {None, Lost, Task(c)} /\ failed' \in {None, Lost} \cup Tasks
  BY <1>2, <1>3, BeginFacts DEF ChoicesInv, LifecycleTyped
<1>7. ~AtRest'
  BY <1>4, <1>6 DEF AtRest
<1>8. LifecycleTyped'
  BY <1>3, <1>5, <1>6 DEF ChoicesInv, LifecycleTyped
<1>9. IdentityInv' /\ UpdateInv' /\ RemoveInv'
  BY <1>1, <1>4, <1>5, <1>6 DEF ChoicesInv, IdentityInv, UpdateInv, RemoveInv
<1>10. RequirementsClosed' /\ FailureInv'
  BY <1>1, <1>4, <1>5, <1>6, <1>7 DEF ChoicesInv, RequirementsClosed, FailureInv
<1> QED
  BY <1>8, <1>9, <1>10 DEF ChoicesInv
\* Copier leaves in a file what the new answers render, what it holds, nothing, or a merge.
LEMMA MergedFacts ==
  ASSUME NEW f \in Files
  PROVE  Merged(f) \in {Absent, Edited, disk[f], Rendered(f, cmd.target, cmd.want)}
  BY DEF Merged

\* What Copier may leave in the answers file.
LEMMA RewrittenFacts ==
  ASSUME cmd \in Updates, NEW a \in Rewritten
  PROVE  /\ a \in Answers /\ a.pin = cmd.target /\ a.batteries \in {{}, cmd.want}
         /\ a.identity => a.batteries = cmd.want /\ a.channels = cmd.channels
<1>1. /\ cmd.want \in SUBSET Batteries /\ cmd.target \in Versions /\ cmd.channels \in Channels
      /\ DefaultChannel \in Channels
  BY LifecycleAssumption DEF Updates
<1>2. CASE a = [TornAnswers EXCEPT !.pin = cmd.target]
  BY <1>1, <1>2 DEF TornAnswers, Answers
<1>3. CASE a = [batteries |-> cmd.want, channels |-> cmd.channels, identity |-> TRUE,
                pin |-> cmd.target]
  BY <1>1, <1>3 DEF Answers
<1> QED
  BY <1>2, <1>3 DEF Rewritten

LEMMA RunUpdateOK ==
  ASSUME ChoicesInv, RunUpdate
  PROVE  ChoicesInv'
<1>1. /\ cmd \in Updates /\ cmd.pc = "merge" /\ cmd.want \in SUBSET Batteries
      /\ cmd.target \in Versions /\ cmd.op = "update" /\ cmd.channels \in Channels /\ ~AtRest
  BY CommandFacts DEF ChoicesInv, LifecycleTyped, RunUpdate
<1>2. /\ cmd' = [cmd EXCEPT !.pc = "batteries"]
      /\ UNCHANGED <<lock, db, commands, edits, history>>
  BY DEF RunUpdate
<1>3. /\ cmd' \in Updates /\ cmd'.pc = "batteries" /\ cmd'.want = cmd.want /\ cmd'.op = "update"
      /\ cmd'.channels = cmd.channels /\ cmd'.target = cmd.target /\ Task(cmd') = Task(cmd)
  BY <1>1, <1>2 DEF Updates, Task
<1>4. disk' \in [Files -> Contents]
  <2>1. ASSUME NEW f \in Files PROVE Merged(f) \in Contents
    BY <1>1, MergedFacts, RenderedFacts DEF ChoicesInv, LifecycleTyped, Contents
  <2> QED
    BY <2>1 DEF RunUpdate
<1>5. /\ answers' \in Answers /\ answers'.pin = cmd.target /\ answers'.batteries \in {{}, cmd.want}
      /\ answers'.identity => answers'.batteries = cmd.want /\ answers'.channels = cmd.channels
  BY <1>1, RewrittenFacts DEF RunUpdate
<1>6. LifecycleTyped'
  BY <1>2, <1>3, <1>4, <1>5 DEF ChoicesInv, LifecycleTyped, history
<1>7. IdentityInv' /\ UpdateInv' /\ RemoveInv'
  BY <1>1, <1>2, <1>3, <1>5 DEF ChoicesInv, IdentityInv, UpdateInv, RemoveInv, history
<1>8. RequirementsClosed'
  BY <1>3, <1>5 DEF ChoicesInv, RequirementsClosed, Closed
<1>9. FailureInv'
  BY <1>1, <1>2, <1>3 DEF ChoicesInv, FailureInv, history, AtRest
<1> QED
  BY <1>6, <1>7, <1>8, <1>9 DEF ChoicesInv

LEMMA RecordBatteriesOK ==
  ASSUME ChoicesInv, RecordBatteries
  PROVE  ChoicesInv'
<1> DEFINE next == IF cmd.op = "update" THEN "channels" ELSE "manifest"
<1>1. /\ cmd.pc = "batteries" /\ answers' = [answers EXCEPT !.batteries = cmd.want]
      /\ cmd' = [cmd EXCEPT !.pc = next] /\ chosen' = [chosen EXCEPT !.batteries = cmd.want]
      /\ UNCHANGED <<disk, lock, db, commands, edits, touched, failed, bypassed>>
  BY DEF RecordBatteries, Record
<1>2. ~AtRest
  BY <1>1 DEF AtRest
<1>3. /\ cmd.want \in SUBSET Batteries /\ (cmd \in Updates \/ cmd \in Removals)
      /\ cmd \in Updates => cmd.op = "update"
      /\ cmd \in Removals => cmd.op = "downskill"
  BY <1>2, CommandFacts DEF ChoicesInv, LifecycleTyped
<1>4. /\ cmd' \in Updates \cup Removals /\ cmd'.pc = next /\ cmd'.want = cmd.want
      /\ cmd'.op = cmd.op /\ cmd'.channels = cmd.channels /\ cmd'.target = cmd.target
      /\ Task(cmd') = Task(cmd)
  BY <1>1, <1>3 DEF Updates, Removals, Task
<1>5. /\ answers' \in Answers /\ answers'.batteries = cmd.want /\ answers'.pin = answers.pin
      /\ answers'.identity = answers.identity /\ answers'.channels = answers.channels
  BY <1>1, <1>3, CommandFacts DEF ChoicesInv, LifecycleTyped, Answers
<1>6. /\ chosen' \in [batteries : SUBSET Batteries, channels : SUBSET Channels]
      /\ chosen'.batteries = cmd.want /\ chosen'.channels = chosen.channels
  BY <1>1, <1>2, CommandFacts DEF ChoicesInv, LifecycleTyped
<1>7. LifecycleTyped'
  BY <1>1, <1>4, <1>5, <1>6 DEF ChoicesInv, LifecycleTyped
<1>8. IdentityInv' /\ UpdateInv' /\ RemoveInv'
  BY <1>1, <1>3, <1>4, <1>5, <1>6 DEF ChoicesInv, IdentityInv, UpdateInv, RemoveInv
<1>9. RequirementsClosed' /\ FailureInv'
  BY <1>1, <1>2, <1>4, <1>5 DEF ChoicesInv, RequirementsClosed, FailureInv, AtRest
<1> QED
  BY <1>7, <1>8, <1>9 DEF ChoicesInv

LEMMA RecordChannelsOK ==
  ASSUME ChoicesInv, RecordChannels
  PROVE  ChoicesInv'
<1>1. /\ cmd.pc = "channels" /\ answers' = [answers EXCEPT !.channels = cmd.channels]
      /\ cmd' = [cmd EXCEPT !.pc = "identity"] /\ chosen' = [chosen EXCEPT !.channels = {cmd.channels}]
      /\ UNCHANGED <<disk, lock, db, commands, edits, touched, failed, bypassed>>
  BY DEF RecordChannels, Record
<1>2. cmd \in Updates /\ cmd.op = "update" /\ ~AtRest /\ cmd.channels \in Channels
  BY <1>1, CommandFacts DEF ChoicesInv, LifecycleTyped
<1>3. /\ cmd' \in Updates /\ cmd'.pc = "identity" /\ cmd'.want = cmd.want
      /\ cmd'.op = cmd.op /\ cmd'.channels = cmd.channels /\ cmd'.target = cmd.target
      /\ Task(cmd') = Task(cmd)
  BY <1>1, <1>2 DEF Updates, Task
<1>4. /\ answers' \in Answers /\ answers'.batteries = answers.batteries
      /\ answers'.pin = answers.pin /\ answers'.identity = answers.identity
      /\ answers'.channels = cmd.channels
  BY <1>1, <1>2 DEF ChoicesInv, LifecycleTyped, Answers
<1>5. /\ chosen' \in [batteries : SUBSET Batteries, channels : SUBSET Channels]
      /\ chosen'.batteries = chosen.batteries /\ chosen'.channels = {cmd.channels}
  BY <1>1, <1>2 DEF ChoicesInv, LifecycleTyped
<1>6. LifecycleTyped'
  BY <1>1, <1>3, <1>4, <1>5 DEF ChoicesInv, LifecycleTyped
<1>7. IdentityInv' /\ UpdateInv' /\ RemoveInv'
  BY <1>1, <1>2, <1>3, <1>4, <1>5 DEF ChoicesInv, IdentityInv, UpdateInv, RemoveInv
<1>8. RequirementsClosed' /\ FailureInv'
  BY <1>1, <1>2, <1>3, <1>4 DEF ChoicesInv, RequirementsClosed, FailureInv, AtRest
<1> QED
  BY <1>6, <1>7, <1>8 DEF ChoicesInv

LEMMA RecordIdentityOK ==
  ASSUME ChoicesInv, RecordIdentity
  PROVE  ChoicesInv'
<1>1. /\ cmd.pc = "identity" /\ answers' = [answers EXCEPT !.identity = TRUE]
      /\ cmd' = [cmd EXCEPT !.pc = "manifest"]
      /\ UNCHANGED <<disk, lock, db, commands, edits, touched, failed, bypassed, chosen>>
  BY DEF RecordIdentity, Record
<1>2. cmd \in Updates /\ cmd.op = "update" /\ ~AtRest /\ cmd.target \in Versions
  BY <1>1, CommandFacts DEF ChoicesInv, LifecycleTyped
<1>3. /\ cmd' \in Updates /\ cmd'.pc = "manifest" /\ cmd'.want = cmd.want
      /\ cmd'.op = cmd.op /\ cmd'.channels = cmd.channels /\ cmd'.target = cmd.target
      /\ Task(cmd') = Task(cmd)
  BY <1>1, <1>2 DEF Updates, Task
<1>4. /\ answers' \in Answers /\ answers'.batteries = answers.batteries
      /\ answers'.pin = answers.pin /\ answers'.channels = answers.channels
  BY <1>1, <1>2 DEF ChoicesInv, LifecycleTyped, Answers
<1>5. LifecycleTyped'
  BY <1>1, <1>3, <1>4 DEF ChoicesInv, LifecycleTyped
<1>6. IdentityInv' /\ UpdateInv' /\ RemoveInv'
  BY <1>1, <1>2, <1>3, <1>4 DEF ChoicesInv, IdentityInv, UpdateInv, RemoveInv
<1>7. RequirementsClosed' /\ FailureInv'
  BY <1>1, <1>2, <1>3, <1>4 DEF ChoicesInv, RequirementsClosed, FailureInv, AtRest
<1> QED
  BY <1>5, <1>6, <1>7 DEF ChoicesInv

LEMMA WriteManifestOK ==
  ASSUME ChoicesInv, WriteManifest
  PROVE  ChoicesInv'
<1>1. /\ cmd.pc = "manifest" /\ cmd' = Idle
      /\ UNCHANGED <<disk, answers, db, commands, edits, chosen, bypassed>>
  BY DEF WriteManifest
<1>2. /\ ~AtRest /\ AtRest' /\ cmd'.op = "none" /\ cmd'.want = {} /\ cmd' \in {Idle}
  BY <1>1 DEF AtRest, Idle
<1>3. lock' \in Manifests \cup {Damaged}
  <2>1. BuildManifest \in Manifests
    BY DEF BuildManifest, Entry, Hash, Manifests, ChoicesInv, LifecycleTyped
  <2> QED
    BY <2>1 DEF WriteManifest, ChoicesInv, LifecycleTyped
<1>4. touched' \in SUBSET Files /\ failed' \in {None, Lost}
  BY <1>2 DEF WriteManifest, ChoicesInv, LifecycleTyped, FailureInv
<1>5. LifecycleTyped'
  BY <1>1, <1>2, <1>3, <1>4 DEF ChoicesInv, LifecycleTyped
<1>6. IdentityInv' /\ UpdateInv' /\ RemoveInv'
  BY <1>1, <1>2 DEF ChoicesInv, IdentityInv, UpdateInv, RemoveInv
<1>7. {None, Lost} \cap Tasks = {}
  BY TaskFacts
<1>8. RequirementsClosed' /\ FailureInv'
  BY <1>1, <1>2, <1>4, <1>7 DEF ChoicesInv, RequirementsClosed, FailureInv, Closed
<1> QED
  BY <1>5, <1>6, <1>8 DEF ChoicesInv
\* A step of a removal changes neither the answers nor what the command is.
RemovalMoves(to, todo) ==
  /\ cmd' = [cmd EXCEPT !.pc = to, !.todo = todo]
  /\ UNCHANGED <<answers, lock, db, commands, edits, chosen, failed, bypassed>>
  /\ disk' \in [Files -> Contents] /\ touched' \subseteq touched

LEMMA RemovalMovesOK ==
  ASSUME ChoicesInv, cmd.pc \in {"unlink", "splice"}, NEW to \in {"unlink", "splice", "batteries"},
         NEW todo \in SUBSET Files, RemovalMoves(to, todo)
  PROVE  /\ ChoicesInv'
         /\ cmd'.pc = to /\ cmd'.todo = todo /\ cmd'.want = cmd.want /\ cmd'.target = cmd.target
         /\ cmd'.op = "downskill" /\ Task(cmd') = Task(cmd)
<1>1. cmd \in Removals /\ cmd.op = "downskill" /\ ~AtRest
  BY CommandFacts DEF ChoicesInv, LifecycleTyped
<1>2. cmd' = [cmd EXCEPT !.pc = to, !.todo = todo]
  BY DEF RemovalMoves
<1>3. cmd' \in Removals
  BY <1>1, <1>2 DEF Removals
<1>4. /\ cmd'.pc = to /\ cmd'.todo = todo /\ cmd'.want = cmd.want
      /\ cmd'.op = cmd.op /\ cmd'.target = cmd.target /\ Task(cmd') = Task(cmd)
  BY <1>1, <1>2 DEF Removals, Task
<1>5. LifecycleTyped'
  BY <1>3 DEF RemovalMoves, ChoicesInv, LifecycleTyped
<1>6. IdentityInv' /\ UpdateInv' /\ RemoveInv'
  BY <1>1, <1>4 DEF RemovalMoves, ChoicesInv, IdentityInv, UpdateInv, RemoveInv
<1>7. RequirementsClosed' /\ FailureInv'
  BY <1>1, <1>4 DEF RemovalMoves, ChoicesInv, RequirementsClosed, FailureInv, AtRest
<1> QED
  BY <1>1, <1>4, <1>5, <1>6, <1>7 DEF ChoicesInv

\* Without(f) and With(f) are contents.
LEMMA SplicedFacts ==
  ASSUME ChoicesInv, cmd.pc \in {"unlink", "splice"}, NEW f \in Files
  PROVE  /\ With(f) \in Contents /\ Without(f) \in Contents
         /\ Without(f) # Absent => With(f) # Absent
         /\ Shipped(f, cmd.want) => Without(f) \notin {Absent, Edited, Damaged}
         /\ With(f) # Absent <=> Shipped(f, answers.batteries)
         /\ Without(f) # Absent <=> Shipped(f, cmd.want)
<1>1. /\ cmd \in Removals /\ cmd.op = "downskill" /\ cmd.target \in Versions
      /\ cmd.want \in SUBSET Batteries /\ answers.batteries \in SUBSET Batteries
      /\ cmd.want \subseteq answers.batteries
  BY CommandFacts DEF ChoicesInv, LifecycleTyped, RemoveInv, Answers, AtRest
<1> QED
  BY <1>1, RenderedFacts, ShippedGrows DEF With, Without

LEMMA UnlinkMoves ==
  ASSUME ChoicesInv, NEW f \in Files, Unlink(f)
  PROVE  RemovalMoves("unlink", cmd.todo \ {f}) /\ cmd.todo \ {f} \in SUBSET Files
<1>1. cmd \in Removals /\ disk \in [Files -> Contents] /\ cmd.pc = "unlink"
  BY CommandFacts DEF ChoicesInv, LifecycleTyped, Unlink
<1>2. Absent \in Contents
  BY DEF Contents
<1>3. cmd' = [cmd EXCEPT !.todo = cmd.todo \ {f}]
  BY DEF Unlink
<1>4. cmd' = [cmd EXCEPT !.pc = "unlink", !.todo = cmd.todo \ {f}]
  BY <1>1, <1>3 DEF Removals
<1> QED
  BY <1>1, <1>2, <1>4 DEF Unlink, RemovalMoves, history, Removals

LEMMA UnlinkDoneMoves ==
  ASSUME ChoicesInv, UnlinkDone
  PROVE  \E todo \in SUBSET Files :
           /\ todo = {f \in Files : Absent \notin {With(f), Without(f)} /\ With(f) # Without(f)}
           /\ RemovalMoves("splice", todo)
<1> DEFINE T == {f \in Files : Absent \notin {With(f), Without(f)} /\ With(f) # Without(f)}
<1>1. cmd' = [cmd EXCEPT !.pc = "splice", !.todo = T]
      /\ UNCHANGED <<disk, answers, lock, dirty, db, commands, edits, history>>
  BY DEF UnlinkDone
<1>2. T \in SUBSET Files
  OBVIOUS
<1>3. disk' \in [Files -> Contents] /\ touched' \subseteq touched
  BY <1>1 DEF ChoicesInv, LifecycleTyped, history
<1>4. RemovalMoves("splice", T)
  <2> HIDE DEF T
  <2> QED
    BY <1>1, <1>3 DEF RemovalMoves, history
<1> QED
  BY <1>2, <1>4

LEMMA SpliceDoneMoves ==
  ASSUME ChoicesInv, SpliceDone
  PROVE  RemovalMoves("batteries", {}) /\ {} \in SUBSET Files
<1>1. cmd \in Removals /\ disk \in [Files -> Contents] /\ cmd.todo = {}
  BY CommandFacts DEF ChoicesInv, LifecycleTyped, SpliceDone
<1>2. cmd' = [cmd EXCEPT !.pc = "batteries", !.todo = {}]
  BY <1>1 DEF SpliceDone, Removals
<1> QED
  BY <1>1, <1>2 DEF SpliceDone, RemovalMoves, history

\* A file is spliced, or its markers are gone and the command stops.
LEMMA SpliceMoves ==
  ASSUME ChoicesInv, NEW f \in Files, Splice(f)
  PROVE  \/ /\ cmd' = Idle /\ failed' = Lost
            /\ UNCHANGED <<disk, answers, lock, db, commands, edits, chosen, touched, bypassed>>
         \/ /\ RemovalMoves("splice", cmd.todo \ {f}) /\ cmd.todo \ {f} \in SUBSET Files
            /\ disk' = [disk EXCEPT ![f] = IF Kind[f] = "hybrid" \/ disk[f] = With(f)
                                           THEN Without(f) ELSE disk[f]]
<1>1. cmd \in Removals /\ disk \in [Files -> Contents] /\ cmd.pc = "splice"
  BY CommandFacts DEF ChoicesInv, LifecycleTyped, Splice
<1>2. CASE Kind[f] = "hybrid" /\ disk[f] \in {Absent, Damaged}
  BY <1>2 DEF Splice
<1>3. CASE ~(Kind[f] = "hybrid" /\ disk[f] \in {Absent, Damaged})
  <2>1. /\ disk' = [disk EXCEPT ![f] = IF Kind[f] = "hybrid" \/ disk[f] = With(f)
                                       THEN Without(f) ELSE disk[f]]
        /\ cmd' = [cmd EXCEPT !.todo = cmd.todo \ {f}]
        /\ touched' = IF Kind[f] = "hybrid" THEN touched \ {f} ELSE touched
        /\ UNCHANGED <<failed, answers, lock, db, commands, edits, chosen, bypassed>>
    BY <1>3 DEF Splice
  <2>2. cmd' = [cmd EXCEPT !.pc = "splice", !.todo = cmd.todo \ {f}]
    BY <1>1, <2>1 DEF Removals
  <2>3. disk' \in [Files -> Contents]
    BY <1>1, <2>1, SplicedFacts
  <2> QED
    BY <1>1, <2>1, <2>2, <2>3 DEF RemovalMoves, Removals
<1> QED
  BY <1>2, <1>3

LEMMA RemoveOK ==
  ASSUME ChoicesInv, Remove
  PROVE  ChoicesInv'
<1>1. CASE UnlinkDone
  BY <1>1, UnlinkDoneMoves, RemovalMovesOK DEF UnlinkDone
<1>2. CASE SpliceDone
  BY <1>2, SpliceDoneMoves, RemovalMovesOK DEF SpliceDone
<1>3. ASSUME NEW f \in Files, Unlink(f) PROVE ChoicesInv'
  BY <1>3, UnlinkMoves, RemovalMovesOK DEF Unlink
<1>4. ASSUME NEW f \in Files, Splice(f) PROVE ChoicesInv'
  <2>1. CASE cmd' = Idle /\ failed' = Lost
             /\ UNCHANGED <<disk, answers, lock, db, commands, edits, chosen, touched, bypassed>>
    <3>1. AtRest' /\ cmd'.op = "none" /\ cmd'.want = {} /\ cmd' \in {Idle}
      BY <2>1 DEF AtRest, Idle
    <3>2. LifecycleTyped'
      BY <2>1, <3>1 DEF ChoicesInv, LifecycleTyped
    <3>3. Lost \notin Tasks
      BY TaskFacts
    <3> QED
      BY <2>1, <3>1, <3>2, <3>3
         DEF ChoicesInv, IdentityInv, UpdateInv, RemoveInv, RequirementsClosed, FailureInv, Closed
  <2> QED
    BY <1>4, <2>1, SpliceMoves, RemovalMovesOK DEF Splice
<1> QED
  BY <1>1, <1>2, <1>3, <1>4 DEF Remove
LEMMA RestoreFileOK ==
  ASSUME ChoicesInv, NEW f \in Files, NEW v \in Versions, RestoreFile(f, v)
  PROVE  ChoicesInv'
<1>1. Rendered(f, v, answers.batteries) \in Contents
  BY DEF Contents, ChoicesInv, LifecycleTyped, Answers
<1>2. lock \in Manifests
  BY DEF RestoreFile, ChoicesInv, LifecycleTyped
<1>3. RestoredEntry(f, v) \in [hash : Contents, drift : BOOLEAN]
  BY <1>1 DEF RestoredEntry
<1>4. lock' \in Manifests /\ disk' \in [Files -> Contents] /\ touched' \subseteq Files
  BY <1>1, <1>2, <1>3 DEF RestoreFile, Manifests, ChoicesInv, LifecycleTyped
<1>5. UNCHANGED <<answers, cmd, db, commands, edits, chosen, failed, bypassed>>
  BY DEF RestoreFile
<1> QED
  BY <1>4, <1>5 DEF ChoicesInv, LifecycleTyped, IdentityInv, UpdateInv, RemoveInv,
                    RequirementsClosed, FailureInv, AtRest, Task

LEMMA RecordDriftOK ==
  ASSUME ChoicesInv, NEW f \in Files, RecordDrift(f)
  PROVE  ChoicesInv'
<1>1. lock \in Manifests /\ lock[f] # None
  BY DEF RecordDrift, ChoicesInv, LifecycleTyped
<1>2. lock' \in Manifests
  <2>1. lock[f] \in [hash : Contents, drift : BOOLEAN]
    BY <1>1 DEF Manifests
  <2>2. [lock[f] EXCEPT !.drift = TRUE] \in [hash : Contents, drift : BOOLEAN]
    BY <2>1
  <2>3. lock' = [lock EXCEPT ![f] = [lock[f] EXCEPT !.drift = TRUE]]
    BY DEF RecordDrift
  <2> QED
    BY <1>1, <2>2, <2>3 DEF Manifests
<1>3. UNCHANGED <<disk, answers, cmd, db, commands, history>>
  BY DEF RecordDrift
<1> QED
  BY <1>2, <1>3 DEF ChoicesInv, LifecycleTyped, IdentityInv, UpdateInv, RemoveInv, history,
                    RequirementsClosed, FailureInv, AtRest, Task

LEMMA EditFileOK ==
  ASSUME ChoicesInv, NEW f \in Files, NEW how \in {Absent, Edited, Damaged}, EditFile(f, how)
  PROVE  ChoicesInv'
<1>1. disk' \in [Files -> Contents] /\ touched' \subseteq Files
  BY DEF EditFile, Contents, ChoicesInv, LifecycleTyped
<1>2. UNCHANGED <<answers, lock, cmd, db, commands, chosen, failed, bypassed>>
  BY DEF EditFile
<1> QED
  BY <1>1, <1>2 DEF ChoicesInv, LifecycleTyped, IdentityInv, UpdateInv, RemoveInv,
                    RequirementsClosed, FailureInv, AtRest, Task

LEMMA MigrateDatabaseOK ==
  ASSUME ChoicesInv, MigrateDatabase
  PROVE  ChoicesInv'
<1>1. db'.at \in Migrations \cup {None} /\ db'.ran \subseteq Migrations
  <2>1. PICK h \in Heads : db' = [at |-> h, deploys |-> db.deploys + 1,
                                  ran |-> db.ran \cup {m \in Revisions : Order(m) > Order(db.at)}]
    BY DEF MigrateDatabase
  <2>2. h \in Migrations /\ Revisions \subseteq Migrations
    BY DEF Heads, Revisions
  <2> QED
    BY <2>1, <2>2 DEF ChoicesInv, LifecycleTyped
<1>2. UNCHANGED <<disk, answers, lock, cmd, dirty, commands, edits, history>>
  BY DEF MigrateDatabase
<1> QED
  BY <1>1, <1>2 DEF ChoicesInv, LifecycleTyped, IdentityInv, UpdateInv, RemoveInv, history,
                    RequirementsClosed, FailureInv, AtRest, Task

\* A command that dies leaves answers that were recorded, or that nobody can update from.
LEMMA CrashAnswers ==
  ASSUME ChoicesInv, Crash
  PROVE  /\ disk' \in [Files -> Contents] /\ lock' \in Manifests \cup {Damaged}
         /\ answers' \in Answers /\ Closed(answers'.batteries)
         /\ answers' = answers \/ (cmd.pc = "merge" /\ answers' \in Rewritten)
            \/ answers' = TornAnswers
<1>1. CASE UNCHANGED <<disk, answers, lock>>
  BY <1>1 DEF ChoicesInv, LifecycleTyped, RequirementsClosed
<1>2. DefaultChannel \in Channels /\ Listing \in Seq(Files)
  BY LifecycleAssumption
<1>3. CASE /\ cmd.pc = "merge"
           /\ \E n \in DOMAIN Listing :
                disk' = [f \in Files |-> IF f \in {Listing[i] : i \in 1 .. n}
                                         THEN Merged(f) ELSE disk[f]]
           /\ answers' \in Rewritten \cup {answers}
           /\ UNCHANGED lock
  <2>1. /\ cmd \in Updates /\ cmd.want \in SUBSET Batteries /\ cmd.target \in Versions
        /\ cmd.channels \in Channels
    BY <1>3, CommandFacts DEF ChoicesInv, LifecycleTyped
  <2>2. \A f \in Files : Merged(f) \in Contents
    BY <2>1, MergedFacts, RenderedFacts DEF ChoicesInv, LifecycleTyped, Contents
  <2>3. disk' \in [Files -> Contents]
    BY <1>3, <2>2 DEF ChoicesInv, LifecycleTyped
  <2>4. \A a \in Rewritten : a \in Answers /\ a.batteries \in {{}, cmd.want}
    BY <2>1, RewrittenFacts
  <2> QED
    BY <1>3, <2>3, <2>4 DEF ChoicesInv, LifecycleTyped, RequirementsClosed, Closed
<1>4. CASE /\ cmd.pc \in {"batteries", "channels", "identity"}
           /\ answers' = TornAnswers
           /\ UNCHANGED <<disk, lock>>
  BY <1>2, <1>4 DEF TornAnswers, Answers, Closed, ChoicesInv, LifecycleTyped
<1>5. CASE cmd.pc = "manifest" /\ lock' = Damaged /\ UNCHANGED <<disk, answers>>
  BY <1>5 DEF ChoicesInv, LifecycleTyped, RequirementsClosed
<1> QED
  BY <1>1, <1>3, <1>4, <1>5 DEF Crash

LEMMA CrashOK ==
  ASSUME ChoicesInv, Crash
  PROVE  ChoicesInv'
<1>1. /\ ~AtRest /\ cmd' = Idle /\ UNCHANGED <<db, commands, edits, chosen, touched, bypassed>>
      /\ failed' = IF failed # Lost /\ cmd.op = "downskill" /\ answers'.batteries # cmd.want
                      /\ answers'.identity
                   THEN Task(cmd) ELSE Lost
  BY DEF Crash
<1>2. /\ AtRest' /\ cmd'.op = "none" /\ cmd'.want = {} /\ cmd' \in {Idle}
  BY <1>1 DEF AtRest, Idle
<1>3. failed' \in Tasks => /\ cmd \in Removals /\ failed' = Task(cmd) /\ failed'.target = cmd.target
                           /\ answers'.identity
  <2>1. Lost \notin Tasks
    BY TaskFacts
  <2> QED
    BY <1>1, <2>1, CommandFacts DEF Task, ChoicesInv, LifecycleTyped
<1>4. failed' \in {None, Lost} \cup Tasks
  <2>1. CASE cmd.op = "downskill"
    <3>1. cmd \in Removals
      BY <2>1, CommandFacts DEF ChoicesInv, LifecycleTyped
    <3>2. Task(cmd) \in Tasks
      BY <3>1 DEF Task, Tasks, Removals
    <3> QED
      BY <1>1, <3>2
  <2> QED
    BY <1>1, <2>1
<1>5. LifecycleTyped'
  BY <1>1, <1>2, <1>4, CrashAnswers DEF ChoicesInv, LifecycleTyped
<1>6. IdentityInv'
  <2>1. CASE answers' = answers
    BY <1>1, <2>1 DEF ChoicesInv, IdentityInv
  <2>2. CASE cmd.pc = "merge" /\ answers' \in Rewritten
    <3>1. cmd \in Updates /\ cmd.op = "update" /\ cmd.target \in Versions
      BY <1>1, <2>2, CommandFacts DEF ChoicesInv, LifecycleTyped
    <3> QED
      BY <1>1, <2>2, <3>1 DEF Rewritten, TornAnswers, ChoicesInv, IdentityInv, UpdateInv
  <2>3. CASE answers' = TornAnswers
    BY <2>3 DEF TornAnswers, IdentityInv
  <2> QED
    BY <2>1, <2>2, <2>3, CrashAnswers
<1>7. UpdateInv' /\ RemoveInv' /\ RequirementsClosed'
  BY <1>2, CrashAnswers DEF UpdateInv, RemoveInv, RequirementsClosed, Closed
<1>8. FailureInv'
  <2> SUFFICES ASSUME failed' \in Tasks, ~bypassed' PROVE failed'.target = answers'.pin
    BY <1>2 DEF FailureInv
  <2>1. cmd \in Removals /\ cmd.op = "downskill" /\ answers'.identity /\ failed'.target = cmd.target
    BY <1>3, CommandFacts DEF ChoicesInv, LifecycleTyped
  <2>2. answers' = answers
    BY <2>1, CrashAnswers, CommandFacts DEF TornAnswers, Removals
  <2> QED
    BY <1>1, <2>1, <2>2 DEF ChoicesInv, RemoveInv
<1> QED
  BY <1>5, <1>6, <1>7, <1>8 DEF ChoicesInv
LEMMA LifecycleInitOK == LifecycleInit => ChoicesInv
<1> SUFFICES ASSUME LifecycleInit PROVE ChoicesInv
  OBVIOUS
<1>1. PICK p \in Projects :
        LET S == Resolve(p.batteries) v == p.pin c == p.channels IN
        /\ disk = [f \in Files |-> Rendered(f, v, S)]
        /\ answers = [batteries |-> S, channels |-> c, identity |-> TRUE, pin |-> v]
        /\ lock = [f \in Files |-> IF f \in Tracked /\ Shipped(f, S)
                                   THEN [hash |-> Rendered(f, v, S), drift |-> FALSE] ELSE None]
        /\ chosen = [batteries |-> S, channels |-> {c}]
        /\ cmd = Idle /\ dirty = TRUE
        /\ db = [at |-> None, ran |-> {}, deploys |-> 0]
        /\ touched = {} /\ failed = None /\ bypassed = FALSE
  BY DEF LifecycleInit
<1>2. /\ Resolve(p.batteries) \in SUBSET Batteries /\ Closed(Resolve(p.batteries))
      /\ p.pin \in Versions /\ p.channels \in Channels
  BY ResolveFacts, LifecycleAssumption
<1>3. \A f \in Files : Rendered(f, p.pin, Resolve(p.batteries)) \in Contents
  BY <1>2 DEF Contents
<1>4. disk \in [Files -> Contents] /\ lock \in Manifests
  BY <1>1, <1>3 DEF Manifests
<1>5. answers \in Answers
  BY <1>1, <1>2 DEF Answers
<1>6. chosen \in [batteries : SUBSET Batteries, channels : SUBSET Channels]
  BY <1>1, <1>2
<1>7. LifecycleTyped
  BY <1>1, <1>4, <1>5, <1>6 DEF LifecycleTyped
<1>8. IdentityInv
  BY <1>1, <1>2 DEF IdentityInv
<1>9. AtRest /\ cmd.op = "none" /\ cmd.want = {}
  BY <1>1 DEF AtRest, Idle
<1>10. None \notin Tasks
  BY TaskFacts
<1> QED
  BY <1>1, <1>2, <1>7, <1>8, <1>9, <1>10
     DEF ChoicesInv, UpdateInv, RemoveInv, FailureInv, RequirementsClosed, Closed

LEMMA ChoicesNextOK == ChoicesInv /\ [LifecycleNext]_lifecycleVars => ChoicesInv'
<1> SUFFICES ASSUME ChoicesInv, [LifecycleNext]_lifecycleVars PROVE ChoicesInv'
  OBVIOUS
<1>1. CASE UNCHANGED lifecycleVars
  BY <1>1 DEF lifecycleVars, history, ChoicesInv, LifecycleTyped, IdentityInv, UpdateInv, RemoveInv,
              RequirementsClosed, FailureInv, AtRest, Task
<1>2. CASE Commit
  BY <1>2 DEF Commit, history, ChoicesInv, LifecycleTyped, IdentityInv, UpdateInv, RemoveInv,
              RequirementsClosed, FailureInv, AtRest, Task
<1>3. CASE Update
  BY <1>3, RunUpdateOK, RecordBatteriesOK, RecordChannelsOK, RecordIdentityOK, WriteManifestOK
     DEF Update
<1> QED
  BY <1>1, <1>2, <1>3, UpskillOK, UpgradeOK, DownskillOK, RemoveOK, RestoreFileOK, RecordDriftOK,
     EditFileOK, CrashOK, MigrateDatabaseOK DEF LifecycleNext

LEMMA ChoicesInvHolds == LifecycleSpec => []ChoicesInv
  BY LifecycleInitOK, ChoicesNextOK, PTL DEF LifecycleSpec

\* Files, answers, manifest, command, database and histories keep their types,
\* wherever a command dies.
THEOREM LifecycleTypes == LifecycleSpec => []LifecycleTypeOK
<1>1. ChoicesInv => LifecycleTypeOK
  BY CommandFacts DEF ChoicesInv, LifecycleTyped, LifecycleTypeOK
<1> QED
  BY <1>1, ChoicesInvHolds, PTL

\* The recorded batteries stay closed under their requirements, and an update
\* never drops a battery or takes a channel that nobody chose: the identity is
\* put back last, and _apply_update refuses without it.
THEOREM ChoicesTheorem == LifecycleSpec => []ChoicesAreKept
<1>1. ChoicesInv => ChoicesAreKept
  <2> SUFFICES ASSUME ChoicesInv PROVE UpdatesKeepChoices
    BY DEF ChoicesAreKept, ChoicesInv
  <2> QED
    BY DEF ChoicesInv, UpdateInv, UpdatesKeepChoices
<1> QED
  BY <1>1, ChoicesInvHolds, PTL
-----------------------------------------------------------------------------
(* The files                                                               *)

\* A command that has not failed leaves, and a removal finds, answers with an identity.
KnownInv ==
  failed # Lost /\ (AtRest \/ cmd.op = "downskill" \/ cmd.pc = "manifest") => answers.identity

LEMMA KnownNextOK ==
  ASSUME ChoicesInv, KnownInv, [LifecycleNext]_lifecycleVars
  PROVE  KnownInv'
<1>1. ASSUME UNCHANGED <<cmd, answers, failed>> PROVE KnownInv'
  BY <1>1 DEF KnownInv, AtRest
<1>2. ASSUME NEW adds \in SUBSET Batteries, NEW asked \in Channels \cup {None}, Upskill(adds, asked)
      PROVE  KnownInv'
  BY <1>2 DEF KnownInv, Upskill, Begin, AtRest
<1>3. ASSUME NEW target \in Versions, Upgrade(target) PROVE KnownInv'
  BY <1>3 DEF KnownInv, Upgrade, Begin, AtRest
<1>4. ASSUME NEW b \in Batteries, NEW v \in Versions, Downskill(b, v) PROVE KnownInv'
  BY <1>4 DEF KnownInv, Downskill, Begin, AtRest
<1>5. CASE RunUpdate
  BY <1>5, CommandFacts DEF RunUpdate, KnownInv, ChoicesInv, LifecycleTyped, AtRest, Updates
<1>6. CASE RecordBatteries
  <2>1. /\ answers'.identity = answers.identity /\ failed' = failed
        /\ cmd' = [cmd EXCEPT !.pc = IF cmd.op = "update" THEN "channels" ELSE "manifest"]
        /\ ~AtRest
    BY <1>6 DEF RecordBatteries, Record, ChoicesInv, LifecycleTyped, Answers, AtRest
  <2>2. cmd \in Updates \/ cmd \in Removals
    BY <2>1, CommandFacts DEF ChoicesInv, LifecycleTyped
  <2> QED
    BY <2>1, <2>2 DEF KnownInv, AtRest, Updates, Removals
<1>7. CASE RecordChannels
  BY <1>7, CommandFacts DEF RecordChannels, Record, KnownInv, ChoicesInv, LifecycleTyped, AtRest, Updates
<1>8. CASE RecordIdentity
  BY <1>8 DEF RecordIdentity, Record, KnownInv, ChoicesInv, LifecycleTyped, Answers
<1>9. CASE WriteManifest
  BY <1>9, CommandFacts, TaskFacts
     DEF WriteManifest, KnownInv, AtRest, ChoicesInv, LifecycleTyped
<1>10. ASSUME NEW to \in {"unlink", "splice", "batteries"}, NEW todo \in SUBSET Files,
              RemovalMoves(to, todo), cmd.pc \in {"unlink", "splice"}
       PROVE  KnownInv'
  BY <1>10, CommandFacts DEF RemovalMoves, KnownInv, ChoicesInv, LifecycleTyped
<1>11. CASE Remove
  <2>1. ASSUME NEW f \in Files, Splice(f) PROVE KnownInv'
    BY <1>10, <2>1, SpliceMoves DEF Splice, KnownInv
  <2>2. ASSUME NEW f \in Files, Unlink(f) PROVE KnownInv'
    BY <1>10, <2>2, UnlinkMoves DEF Unlink
  <2> QED
    BY <1>10, <1>11, <2>1, <2>2, UnlinkDoneMoves, SpliceDoneMoves DEF Remove, UnlinkDone, SpliceDone
<1>12. CASE Crash
  BY <1>12 DEF Crash, KnownInv
<1>13. ASSUME NEW f \in Files, NEW v \in Versions, RestoreFile(f, v) PROVE KnownInv'
  BY <1>1, <1>13 DEF RestoreFile
<1>14. ASSUME NEW f \in Files, RecordDrift(f) PROVE KnownInv'
  BY <1>1, <1>14 DEF RecordDrift, history
<1>15. ASSUME NEW f \in Files, NEW how \in {Absent, Edited, Damaged}, EditFile(f, how) PROVE KnownInv'
  BY <1>1, <1>15 DEF EditFile
<1>16. CASE Commit \/ MigrateDatabase \/ UNCHANGED lifecycleVars
  BY <1>1, <1>16 DEF Commit, MigrateDatabase, lifecycleVars, history
<1> QED
  BY <1>2, <1>3, <1>4, <1>5, <1>6, <1>7, <1>8, <1>9, <1>11, <1>12, <1>13, <1>14, <1>15, <1>16
     DEF LifecycleNext, Update

\* Copier's merge turns what the old answers stand for into what the new ones do.
LEMMA MergedStands ==
  ASSUME NEW f \in Files, Recorded(f), disk'[f] = Merged(f), cmd.target \in Versions,
         cmd.want \in SUBSET Batteries, answers.batteries \in SUBSET Batteries
  PROVE  \/ disk'[f] \in {Absent, Edited, Damaged, Rendered(f, cmd.target, cmd.want)}
         \/ f \in Migrations /\ ~Shipped(f, cmd.want)
<1> DEFINE old == Rendered(f, answers.pin, answers.batteries)
           new == Rendered(f, cmd.target, cmd.want)
<1>1. new = Absent <=> ~Shipped(f, cmd.want)
  BY RenderedFacts
<1>2. ~Shipped(f, answers.batteries) => old = Absent
  BY RenderedFacts
<1> QED
  BY <1>1, <1>2 DEF Recorded, Stands, Merged
\* At rest and when nothing the files are compared with changes, they stand as they did.
LEMMA FilesKept ==
  ASSUME FilesInv, UNCHANGED <<disk, answers, cmd, failed, bypassed>>
  PROVE  FilesInv'
  BY DEF FilesInv, FileInv, Removing, Recorded, Stands, With, Without, AtRest

\* An update begins with the files as recorded.
LEMMA UpdateBegins ==
  ASSUME ChoicesInv, FilesInv, NEW c \in Updates, c.pc = "merge", Begin(c),
         UNCHANGED <<disk, answers, bypassed>>
  PROVE  FilesInv'
<1> SUFFICES ASSUME failed' # Lost, ~bypassed', NEW f \in Files PROVE FileInv(f)'
  BY DEF FilesInv
<1>1. AtRest /\ cmd' = c /\ failed' = failed /\ failed = None
  BY BeginFacts, CommandFacts DEF ChoicesInv, LifecycleTyped, Updates, Removals
<1>2. FileInv(f) /\ cmd'.op = "update" /\ cmd'.pc = "merge"
  BY <1>1 DEF FilesInv, Updates
<1>3. Recorded(f)
  BY <1>1, <1>2 DEF FileInv
<1> QED
  BY <1>2, <1>3 DEF FileInv, Recorded, Stands, AtRest

LEMMA UpskillFiles ==
  ASSUME ChoicesInv, FilesInv, NEW adds \in SUBSET Batteries,
         NEW asked \in Channels \cup {None}, Upskill(adds, asked)
  PROVE  FilesInv'
<1>1. \E c : Begin(c) /\ c.pc = "merge" /\ c.op = "update"
  <2> DEFINE want == IF adds = {} THEN answers.batteries
                                  ELSE Resolve(answers.batteries \cup adds)
             channels == IF asked = None THEN answers.channels ELSE asked
             c == [op |-> "update", pc |-> "merge", todo |-> {}, asked |-> asked, want |-> want,
                   channels |-> channels, target |-> answers.pin]
  <2>1. Begin(c)
    BY DEF Upskill
  <2> HIDE DEF want, channels
  <2> QED
    BY <2>1
<1>2. PICK c : Begin(c) /\ c.pc = "merge" /\ c.op = "update"
  BY <1>1
<1>3. ChoicesInv' /\ cmd' = c
  BY <1>2, UpskillOK DEF Begin
<1>4. c \in Updates
  BY <1>2, <1>3, CommandFacts DEF ChoicesInv, LifecycleTyped, Idle, Removals
<1>5. UNCHANGED <<disk, answers, bypassed>>
  BY DEF Upskill
<1> QED
  BY <1>2, <1>4, <1>5, UpdateBegins

LEMMA UpgradeFiles ==
  ASSUME ChoicesInv, FilesInv, NEW target \in Versions, Upgrade(target)
  PROVE  FilesInv'
<1>1. PICK c : /\ c.pc = "merge" /\ c.op = "update" /\ Begin(c) /\ c = cmd'
               /\ UNCHANGED <<disk, answers, bypassed>>
  BY DEF Upgrade, Begin
<1>2. ChoicesInv'
  BY UpgradeOK
<1>3. c \in Updates
  BY <1>1, <1>2, CommandFacts DEF ChoicesInv, LifecycleTyped, Idle, Removals
<1> QED
  BY <1>1, <1>3, UpdateBegins

\* A removal begins with the files as recorded, or half removed by itself.
LEMMA DownskillFiles ==
  ASSUME ChoicesInv, FilesInv, NEW b \in Batteries, NEW v \in Versions, Downskill(b, v)
  PROVE  FilesInv'
<1> SUFFICES ASSUME failed' # Lost, ~bypassed', NEW f \in Files PROVE FileInv(f)'
  BY DEF FilesInv
<1> DEFINE S == answers.batteries
           gone == {g \in Files \ Migrations : Owned(g, v, S, b)}
           c == [op |-> "downskill", pc |-> "unlink", asked |-> None, channels |-> None,
                 want |-> S \ {b}, target |-> v, todo |-> gone]
<1>1. Begin(c) /\ UNCHANGED <<disk, answers>> /\ ~bypassed
  BY DEF Downskill
<1>2. gone \in SUBSET Files /\ S \in SUBSET Batteries
  BY DEF ChoicesInv, LifecycleTyped, Answers
<1>3. f \notin Migrations /\ Rendered(f, v, S) # Absent /\ Rendered(f, v, S \ {b}) = Absent
        => f \in gone
  BY DEF Owned
<1> HIDE DEF gone
<1>4. c \in Removals
  BY <1>2 DEF Removals
<1>5. /\ c.want = S \ {b} /\ c.pc = "unlink" /\ c.op = "downskill" /\ c.target = v /\ c.todo = gone
      /\ Task(c) = [op |-> "downskill", want |-> S \ {b}, target |-> v]
  BY DEF Task
<1> HIDE DEF c
<1>6. AtRest /\ cmd' = c /\ failed' = failed /\ failed \in {None, Task(c)}
  BY <1>1, <1>4, BeginFacts DEF ChoicesInv, LifecycleTyped
<1>7. FileInv(f)
  BY <1>1, <1>6 DEF FilesInv
<1>8. Recorded(f) \/ disk[f] = Rendered(f, v, S \ {b})
  BY <1>5, <1>6, <1>7 DEF FileInv
<1>9. cmd'.op = "downskill" /\ cmd'.pc = "unlink"
  BY <1>5, <1>6
<1>10. With(f)' = Rendered(f, v, S) /\ Without(f)' = Rendered(f, v, S \ {b})
  BY <1>1, <1>5, <1>6 DEF With, Without
<1>11. Recorded(f) => Recorded(f)'
  BY <1>1 DEF Recorded, Stands
<1>12. Removing(f)'
  BY <1>1, <1>3, <1>5, <1>6, <1>8, <1>10, <1>11 DEF Removing
<1> QED
  BY <1>9, <1>12 DEF FileInv, AtRest

LEMMA UpdateFiles ==
  ASSUME ChoicesInv, FilesInv, Update
  PROVE  FilesInv'
<1> SUFFICES ASSUME failed' # Lost, ~bypassed', NEW f \in Files PROVE FileInv(f)'
  BY DEF FilesInv
<1>1. CASE RunUpdate
  <2>1. /\ cmd \in Updates /\ cmd.op = "update" /\ cmd.pc = "merge" /\ cmd.target \in Versions
        /\ cmd.want \in SUBSET Batteries /\ answers.batteries \in SUBSET Batteries /\ ~AtRest
    BY <1>1, CommandFacts DEF ChoicesInv, LifecycleTyped, RunUpdate, Answers
  <2>2. failed' = failed /\ bypassed' = bypassed /\ disk'[f] = Merged(f)
    BY <1>1 DEF RunUpdate, history
  <2>3. Recorded(f)
    BY <2>1, <2>2 DEF FilesInv, FileInv
  <2>4. cmd'.op = "update" /\ cmd'.pc = "batteries" /\ cmd'.want = cmd.want /\ cmd'.target = cmd.target
    BY <1>1, <2>1 DEF RunUpdate, Updates
  <2>5. Stands(f, cmd.target, cmd.want)'
    BY <2>1, <2>2, <2>3, <2>4, MergedStands DEF Stands
  <2> QED
    BY <2>4, <2>5 DEF FileInv, AtRest
<1>2. ASSUME NEW from \in {"batteries", "channels", "identity"},
             NEW to \in {"channels", "identity", "manifest"}, cmd.pc = from,
             cmd' = [cmd EXCEPT !.pc = to], UNCHANGED <<disk, failed, bypassed>>,
             cmd.op = "update" \/ to = "manifest"
      PROVE  FileInv(f)'
  <2>1. cmd \in Updates \/ (cmd \in Removals /\ from = "batteries")
    <3>1. ~AtRest
      BY <1>2 DEF AtRest
    <3>2. cmd \in Updates \/ cmd \in Removals
      BY <3>1, CommandFacts DEF ChoicesInv, LifecycleTyped
    <3> QED
      BY <1>2, <3>2 DEF Removals
  <2>2. /\ cmd.op \in {"update", "downskill"} /\ cmd'.op = cmd.op /\ cmd'.pc = to
        /\ cmd'.want = cmd.want /\ cmd'.target = cmd.target
    BY <1>2, <2>1 DEF Updates, Removals
  <2>3. FileInv(f) /\ ~AtRest
    BY <1>2 DEF FilesInv, AtRest
  <2>4. Stands(f, cmd.target, cmd.want)
    BY <1>2, <2>1, <2>2, <2>3, CommandFacts DEF FileInv, Removing, ChoicesInv, LifecycleTyped
  <2>5. Stands(f, cmd.target, cmd.want)'
    BY <1>2, <2>2, <2>4 DEF Stands
  <2>6. cmd'.op = "downskill" => to = "manifest"
    BY <1>2, <2>2
  <2> QED
    BY <2>2, <2>5, <2>6 DEF FileInv, AtRest
<1>3. CASE RecordBatteries
  BY <1>2, <1>3 DEF RecordBatteries, Record
<1>4. CASE RecordChannels \/ RecordIdentity
  <2>1. cmd.pc \in {"channels", "identity"}
    BY <1>4 DEF RecordChannels, RecordIdentity, Record
  <2>2. cmd.op = "update"
    BY <2>1, CommandFacts DEF ChoicesInv, LifecycleTyped
  <2> QED
    BY <1>2, <1>4, <2>2 DEF RecordChannels, RecordIdentity, Record
<1>5. CASE WriteManifest
  <2>1. /\ cmd.pc = "manifest" /\ cmd' = Idle /\ UNCHANGED <<disk, answers, bypassed>>
    BY <1>5 DEF WriteManifest
  <2>2. /\ ~AtRest /\ AtRest' /\ cmd \in Updates \cup Removals
        /\ cmd.op = "update" \/ cmd.op = "downskill"
    BY <2>1, CommandFacts DEF ChoicesInv, LifecycleTyped, AtRest, Idle
  <2>3. failed # Lost
    BY <1>5, <2>2, TaskFacts DEF WriteManifest
  <2>4. answers.batteries = cmd.want /\ answers.pin = cmd.target
    BY <2>1, <2>2 DEF ChoicesInv, UpdateInv, RemoveInv
  <2>5. Stands(f, cmd.target, cmd.want)
    BY <2>1, <2>2, <2>3 DEF FilesInv, FileInv
  <2>6. Recorded(f)'
    BY <2>1, <2>4, <2>5 DEF Recorded, Stands
  <2> QED
    BY <2>2, <2>6 DEF FileInv
<1> QED
  BY <1>1, <1>3, <1>4, <1>5 DEF Update
LEMMA RemoveFiles ==
  ASSUME ChoicesInv, FilesInv, Remove
  PROVE  FilesInv'
<1> SUFFICES ASSUME failed' # Lost, ~bypassed', NEW g \in Files PROVE FileInv(g)'
  BY DEF FilesInv
\* What a step of a removal keeps, and what is left to show for it.
<1>1. ASSUME NEW to \in {"unlink", "splice", "batteries"}, NEW todo \in SUBSET Files,
             RemovalMoves(to, todo), cmd.pc \in {"unlink", "splice"}
      PROVE  /\ Removing(g)
             /\ Removing(g)' => FileInv(g)'
             /\ With(g)' = With(g) /\ Without(g)' = Without(g)
             /\ cmd'.pc = to /\ cmd'.todo = todo
             /\ With(g) = Rendered(g, answers.pin, answers.batteries)
             /\ disk'[g] = disk[g] => (Recorded(g) => Recorded(g)')
             /\ disk'[g] \in {Absent, Edited, Damaged} => Recorded(g)'

             /\ cmd'.target = cmd.target /\ cmd'.want = cmd.want
             /\ Stands(g, cmd.target, cmd.want) /\ disk'[g] = disk[g]
                  => Stands(g, cmd.target, cmd.want)'
  <2>1. /\ cmd'.pc = to /\ cmd'.todo = todo /\ cmd'.want = cmd.want /\ cmd'.target = cmd.target
        /\ cmd'.op = "downskill"
    BY <1>1, RemovalMovesOK
  <2>2. UNCHANGED <<answers, failed, bypassed>>
    BY <1>1 DEF RemovalMoves
  <2>3. cmd \in Removals /\ cmd.op = "downskill" /\ ~AtRest
    BY <1>1, CommandFacts DEF ChoicesInv, LifecycleTyped
  <2>4. Removing(g)
    BY <1>1, <2>2, <2>3 DEF FilesInv, FileInv
  <2>5. Removing(g)' => FileInv(g)'
    BY <2>1 DEF FileInv, AtRest
  <2>6. cmd.target = answers.pin
    BY <2>2, <2>3 DEF ChoicesInv, RemoveInv
  <2> QED
    BY <2>1, <2>2, <2>4, <2>5, <2>6 DEF With, Without, Recorded, Stands
<1>2. CASE UnlinkDone
  <2>1. PICK todo \in SUBSET Files :
          /\ todo = {f \in Files : Absent \notin {With(f), Without(f)} /\ With(f) # Without(f)}
          /\ RemovalMoves("splice", todo)
    BY <1>2, UnlinkDoneMoves
  <2>2. cmd.pc = "unlink" /\ cmd.todo = {} /\ disk' = disk
    BY <1>2 DEF UnlinkDone
  <2>3. g \in todo <=> Absent \notin {With(g), Without(g)} /\ With(g) # Without(g)
    BY <2>1
  <2>4. /\ Recorded(g) \/ disk[g] = Without(g)
        /\ g \notin Migrations /\ With(g) # Absent /\ Without(g) = Absent => disk[g] = Absent
    BY <1>1, <2>1, <2>2 DEF Removing
  <2>5. With(g) = Rendered(g, answers.pin, answers.batteries)
    BY <1>1, <2>1, <2>2
  <2>6. /\ Without(g) # Absent => With(g) # Absent
        /\ With(g) # Absent <=> Shipped(g, answers.batteries)
        /\ Without(g) # Absent <=> Shipped(g, cmd.want)
    BY <2>2, SplicedFacts
  <2>7. g \in todo => disk[g] \in {Absent, Edited, Damaged, With(g), Without(g)}
    BY <2>3, <2>4, <2>5, <2>6 DEF Recorded, Stands
  <2>8. g \notin todo => Stands(g, cmd.target, cmd.want)
    <3>1. CASE With(g) = Without(g)
      BY <2>4, <2>5, <2>6, <3>1 DEF Recorded, Stands, Without
    <3>2. CASE With(g) # Without(g) /\ g \notin todo
      BY <2>3, <2>4, <2>6, <3>2 DEF Stands
    <3> QED
      BY <3>1, <3>2
  <2>9. Stands(g, cmd.target, cmd.want) => Stands(g, cmd.target, cmd.want)'
    BY <1>1, <2>1, <2>2
  <2>10. Removing(g)'
    <3>1. cmd'.pc = "splice" /\ cmd'.todo = todo /\ With(g)' = With(g) /\ Without(g)' = Without(g)
      BY <1>1, <2>1, <2>2
    <3>2. Recorded(g)' \/ disk'[g] = Without(g)'
      BY <1>1, <2>1, <2>2, <2>4, <3>1
    <3> QED
      BY <2>2, <2>7, <2>8, <2>9, <3>1, <3>2 DEF Removing
  <2> QED
    BY <1>1, <2>1, <2>2, <2>10
<1>3. CASE SpliceDone
  <2>1. RemovalMoves("batteries", {}) /\ {} \in SUBSET Files
    BY <1>3, SpliceDoneMoves
  <2>2. cmd.pc = "splice" /\ cmd.todo = {} /\ disk' = disk
    BY <1>3 DEF SpliceDone
  <2>3. Stands(g, cmd.target, cmd.want) /\ (Recorded(g) \/ disk[g] = Without(g))
    BY <1>1, <2>1, <2>2 DEF Removing
  <2>4. Removing(g)'
    <3>1. cmd'.pc = "batteries" /\ Without(g)' = Without(g) /\ Stands(g, cmd.target, cmd.want)'
      BY <1>1, <2>1, <2>2, <2>3
    <3>2. Recorded(g)' \/ disk'[g] = Without(g)'
      BY <1>1, <2>1, <2>2, <2>3, <3>1
    <3> QED
      BY <3>1, <3>2 DEF Removing
  <2> QED
    BY <1>1, <2>1, <2>2, <2>4
<1>4. ASSUME NEW f \in Files, Unlink(f) PROVE FileInv(g)'
  <2>1. RemovalMoves("unlink", cmd.todo \ {f}) /\ cmd.todo \ {f} \in SUBSET Files
    BY <1>4, UnlinkMoves
  <2>2. /\ cmd.pc = "unlink" /\ disk' = [disk EXCEPT ![f] = Absent]
        /\ disk \in [Files -> Contents]
    BY <1>4 DEF Unlink, ChoicesInv, LifecycleTyped
  <2>3. /\ Recorded(g) \/ disk[g] = Without(g)
        /\ g \notin Migrations /\ With(g) # Absent /\ Without(g) = Absent /\ g \notin cmd.todo
             => disk[g] = Absent
    BY <1>1, <2>1, <2>2 DEF Removing
  <2>4. /\ cmd'.pc = "unlink" /\ cmd'.todo = cmd.todo \ {f}
        /\ With(g)' = With(g) /\ Without(g)' = Without(g)
    BY <1>1, <2>1, <2>2
  <2>5. CASE g = f
    <3>1. disk'[g] = Absent
      BY <2>2, <2>5
    <3> QED
      BY <1>1, <2>1, <2>2, <2>4, <3>1 DEF Removing
  <2>6. CASE g # f
    <3>1. disk'[g] = disk[g]
      BY <2>2, <2>6
    <3>2. Recorded(g)' \/ disk'[g] = Without(g)'
      BY <1>1, <2>1, <2>2, <2>3, <2>4, <3>1
    <3>3. Removing(g)'
      BY <2>3, <2>4, <2>6, <3>1, <3>2 DEF Removing
    <3> QED
      BY <1>1, <2>1, <2>2, <3>3
  <2> QED
    BY <2>5, <2>6
<1>5. ASSUME NEW f \in Files, Splice(f) PROVE FileInv(g)'
  <2>1. /\ RemovalMoves("splice", cmd.todo \ {f}) /\ cmd.todo \ {f} \in SUBSET Files
        /\ disk' = [disk EXCEPT ![f] = IF Kind[f] = "hybrid" \/ disk[f] = With(f)
                                       THEN Without(f) ELSE disk[f]]
    BY <1>5, SpliceMoves
  <2>2. cmd.pc = "splice" /\ f \in cmd.todo /\ disk \in [Files -> Contents]
    BY <1>5 DEF Splice, ChoicesInv, LifecycleTyped
  <2>3. /\ Recorded(g) \/ disk[g] = Without(g)
        /\ IF g \in cmd.todo THEN disk[g] \in {Absent, Edited, Damaged, With(g), Without(g)}
                             ELSE Stands(g, cmd.target, cmd.want)
    BY <1>1, <2>1, <2>2 DEF Removing
  <2>4. /\ cmd'.pc = "splice" /\ cmd'.todo = cmd.todo \ {f}
        /\ With(g)' = With(g) /\ Without(g)' = Without(g)
        /\ cmd'.target = cmd.target /\ cmd'.want = cmd.want
    BY <1>1, <2>1, <2>2
  <2>5. CASE g = f
    <3>1. disk'[g] = Without(g) \/ (disk'[g] = disk[g] /\ disk[g] # With(g))
      BY <2>1, <2>2, <2>5
    <3>2. disk'[g] \in {Absent, Edited, Damaged, Without(g)}
      BY <2>2, <2>3, <2>5, <3>1
    <3>3. Stands(g, cmd.target, cmd.want)'
      BY <2>4, <3>2 DEF Stands, Without
    <3>4. Recorded(g)' \/ disk'[g] = Without(g)'
      BY <1>1, <2>1, <2>2, <2>4, <3>2
    <3>5. Removing(g)'
      BY <2>4, <2>5, <3>3, <3>4 DEF Removing
    <3> QED
      BY <1>1, <2>1, <2>2, <3>5
  <2>6. CASE g # f
    <3>1. disk'[g] = disk[g]
      BY <2>1, <2>2, <2>6
    <3>2. Recorded(g)' \/ disk'[g] = Without(g)'
      BY <1>1, <2>1, <2>2, <2>3, <2>4, <3>1
    <3>3. g \notin cmd.todo => Stands(g, cmd.target, cmd.want)'
      BY <1>1, <2>1, <2>2, <2>3, <3>1
    <3>4. Removing(g)'
      BY <2>3, <2>4, <2>6, <3>1, <3>2, <3>3 DEF Removing
    <3> QED
      BY <1>1, <2>1, <2>2, <3>4
  <2> QED
    BY <2>5, <2>6
<1> QED
  BY <1>2, <1>3, <1>4, <1>5 DEF Remove
LEMMA RestoreFiles ==
  ASSUME ChoicesInv, FilesInv, NEW f \in Files, NEW v \in Versions, RestoreFile(f, v)
  PROVE  FilesInv'
<1> SUFFICES ASSUME failed' # Lost, ~bypassed', NEW g \in Files PROVE FileInv(g)'
  BY DEF FilesInv
<1>1. /\ AtRest /\ v = answers.pin /\ UNCHANGED <<answers, cmd, failed, bypassed>>
      /\ disk' = [disk EXCEPT ![f] = Rendered(f, v, answers.batteries)]
      /\ disk \in [Files -> Contents]
  BY DEF RestoreFile, InSync, ChoicesInv, LifecycleTyped
<1>2. FileInv(g) /\ AtRest'
  BY <1>1 DEF FilesInv, AtRest
<1>3. CASE g = f
  BY <1>1, <1>2, <1>3 DEF FileInv, Recorded, Stands
<1>4. CASE g # f
  BY <1>1, <1>2, <1>4 DEF FileInv, Recorded, Stands
<1> QED
  BY <1>3, <1>4

LEMMA EditFiles ==
  ASSUME ChoicesInv, FilesInv, NEW f \in Files, NEW how \in {Absent, Edited, Damaged},
         EditFile(f, how)
  PROVE  FilesInv'
<1> SUFFICES ASSUME failed' # Lost, ~bypassed', NEW g \in Files PROVE FileInv(g)'
  BY DEF FilesInv
<1>1. /\ AtRest /\ UNCHANGED <<answers, cmd, failed, bypassed>>
      /\ disk' = [disk EXCEPT ![f] = how] /\ disk \in [Files -> Contents]
  BY DEF EditFile, ChoicesInv, LifecycleTyped
<1>2. FileInv(g) /\ AtRest'
  BY <1>1 DEF FilesInv, AtRest
<1>3. CASE g = f
  BY <1>1, <1>2, <1>3 DEF FileInv, Recorded, Stands
<1>4. CASE g # f
  BY <1>1, <1>2, <1>4 DEF FileInv, Recorded, Stands
<1> QED
  BY <1>3, <1>4

\* A removal that dies before it has recorded its result can be repeated.
LEMMA CrashFiles ==
  ASSUME ChoicesInv, FilesInv, Crash
  PROVE  FilesInv'
<1> SUFFICES ASSUME failed' # Lost, ~bypassed', NEW f \in Files PROVE FileInv(f)'
  BY DEF FilesInv
<1>1. /\ ~AtRest /\ cmd' = Idle /\ bypassed' = bypassed
      /\ failed # Lost /\ cmd.op = "downskill" /\ answers'.batteries # cmd.want
      /\ answers'.identity /\ failed' = Task(cmd)
  BY DEF Crash
<1>2. cmd \in Removals /\ AtRest'
  BY <1>1, CommandFacts DEF ChoicesInv, LifecycleTyped, AtRest, Idle
<1>3. answers' = answers
  BY <1>1, <1>2, CrashAnswers DEF TornAnswers, Removals
<1>4. cmd.pc # "manifest" /\ cmd.pc # "merge"
  BY <1>1, <1>2, <1>3 DEF ChoicesInv, RemoveInv, Removals
<1>5. disk' = disk
  BY <1>4 DEF Crash
<1>6. Removing(f)
  BY <1>1, <1>4 DEF FilesInv, FileInv
<1>7. failed' # None /\ failed'.target = cmd.target /\ failed'.want = cmd.want
  BY <1>1, <1>2, TaskFacts DEF Task
<1>8. Recorded(f)' \/ disk'[f] = Rendered(f, failed'.target, failed'.want)
  BY <1>3, <1>5, <1>6, <1>7 DEF Removing, Recorded, Stands, Without
<1> QED
  BY <1>2, <1>7, <1>8 DEF FileInv

LEMMA FilesInitOK == LifecycleInit => FilesInv /\ KnownInv
<1> SUFFICES ASSUME LifecycleInit PROVE FilesInv /\ KnownInv
  OBVIOUS
<1>1. PICK p \in Projects :
        LET S == Resolve(p.batteries) v == p.pin c == p.channels IN
        /\ disk = [f \in Files |-> Rendered(f, v, S)]
        /\ answers = [batteries |-> S, channels |-> c, identity |-> TRUE, pin |-> v]
        /\ cmd = Idle
  BY DEF LifecycleInit
<1>2. \A f \in Files : Recorded(f)
  BY <1>1 DEF Recorded, Stands
<1>3. AtRest /\ answers.identity
  BY <1>1 DEF AtRest, Idle
<1> QED
  BY <1>2, <1>3 DEF FilesInv, FileInv, KnownInv

LEMMA FilesNextOK == ChoicesInv /\ FilesInv /\ [LifecycleNext]_lifecycleVars => FilesInv'
<1> SUFFICES ASSUME ChoicesInv, FilesInv, [LifecycleNext]_lifecycleVars PROVE FilesInv'
  OBVIOUS
<1>1. CASE UNCHANGED lifecycleVars
  BY <1>1, FilesKept DEF lifecycleVars, history
<1>2. CASE Commit \/ MigrateDatabase
  BY <1>2, FilesKept DEF Commit, MigrateDatabase, history
<1>3. ASSUME NEW f \in Files, RecordDrift(f) PROVE FilesInv'
  BY <1>3, FilesKept DEF RecordDrift, history
<1> QED
  BY <1>1, <1>2, <1>3, UpskillFiles, UpgradeFiles, DownskillFiles, UpdateFiles, RemoveFiles,
     RestoreFiles, EditFiles, CrashFiles DEF LifecycleNext

-----------------------------------------------------------------------------
(* The manifest                                                            *)

LEMMA RestoreManifest ==
  ASSUME ChoicesInv, ManifestInv, NEW f \in Files, NEW v \in Versions, RestoreFile(f, v)
  PROVE  ManifestInv'
<1> SUFFICES ASSUME AtRest', failed' = None
             PROVE  lock' # Damaged /\ \A g \in Files : EntryInv(g)'
  BY DEF ManifestInv
<1> DEFINE text == Rendered(f, v, answers.batteries)
<1>1. /\ AtRest /\ failed = None /\ lock # Damaged /\ lock[f] # None /\ text # Absent
      /\ answers' = answers /\ touched' = touched \ {f}
      /\ disk' = [disk EXCEPT ![f] = text] /\ lock' = [lock EXCEPT ![f] = RestoredEntry(f, v)]
  BY DEF RestoreFile
<1>2. disk \in [Files -> Contents] /\ lock \in Manifests /\ answers.batteries \in SUBSET Batteries
  BY <1>1 DEF ChoicesInv, LifecycleTyped, Answers
<1>3. Shipped(f, answers.batteries) /\ text \notin {Absent, Edited, Damaged}
  BY <1>1, <1>2, RenderedFacts
<1>4. RestoredEntry(f, v) = [hash |-> text, drift |-> FALSE]
  BY DEF RestoredEntry
<1>5. text \in Contents
  BY <1>2, RenderedFacts
<1> HIDE DEF text
<1>6. lock' \in Manifests
  BY <1>1, <1>2, <1>4, <1>5 DEF Manifests
<1>7. \A g \in Files : EntryInv(g)
  BY <1>1 DEF ManifestInv
<1>8. EntryInv(f)'
  <2>1. disk'[f] = text /\ lock'[f].hash = text /\ f \notin touched' /\ f \in Tracked
    BY <1>1, <1>2, <1>4, <1>7 DEF Manifests, EntryInv
  <2> QED
    BY <1>1, <1>3, <2>1 DEF EntryInv
<1>9. ASSUME NEW g \in Files, g # f PROVE EntryInv(g)'
  <2>1. disk'[g] = disk[g] /\ lock'[g] = lock[g] /\ (g \in touched' <=> g \in touched)
    BY <1>1, <1>2, <1>9 DEF Manifests
  <2> QED
    BY <1>1, <1>7, <2>1 DEF EntryInv
<1> QED
  BY <1>6, <1>8, <1>9, ManifestAssumption

LEMMA DriftManifest ==
  ASSUME ChoicesInv, ManifestInv, NEW f \in Files, RecordDrift(f)
  PROVE  ManifestInv'
<1> SUFFICES ASSUME AtRest', failed' = None
             PROVE  lock' # Damaged /\ \A g \in Files : EntryInv(g)'
  BY DEF ManifestInv
<1>1. /\ AtRest /\ failed = None /\ lock # Damaged /\ lock[f] # None
      /\ lock' = [lock EXCEPT ![f] = [lock[f] EXCEPT !.drift = TRUE]]
      /\ UNCHANGED <<disk, answers, touched>>
  BY DEF RecordDrift, history
<1>2. lock \in Manifests
  BY <1>1 DEF ChoicesInv, LifecycleTyped
<1>3. ChoicesInv'
  BY RecordDriftOK
<1>4. \A g \in Files : EntryInv(g)
  BY <1>1 DEF ManifestInv
<1>5. lock[f] \in [hash : Contents, drift : BOOLEAN]
  BY <1>1, <1>2 DEF Manifests
<1>6. lock'[f].hash = lock[f].hash /\ lock'[f].drift
  BY <1>1, <1>2, <1>5 DEF Manifests
<1>7. lock' # Damaged
  <2>1. [lock[f] EXCEPT !.drift = TRUE] \in [hash : Contents, drift : BOOLEAN]
    BY <1>5
  <2>2. lock' \in Manifests
    BY <1>1, <1>2, <2>1 DEF Manifests
  <2> QED
    BY <2>2, ManifestAssumption
<1>8. EntryInv(f)'
  BY <1>1, <1>4, <1>6 DEF EntryInv
<1>9. ASSUME NEW g \in Files, g # f PROVE EntryInv(g)'
  <2>1. lock'[g] = lock[g]
    BY <1>1, <1>2, <1>9 DEF Manifests
  <2> QED
    BY <1>1, <1>4, <2>1 DEF EntryInv
<1> QED
  BY <1>7, <1>8, <1>9

LEMMA EditManifest ==
  ASSUME ChoicesInv, ManifestInv, NEW f \in Files, NEW how \in {Absent, Edited, Damaged},
         EditFile(f, how)
  PROVE  ManifestInv'
<1> SUFFICES ASSUME AtRest', failed' = None
             PROVE  lock' # Damaged /\ \A g \in Files : EntryInv(g)'
  BY DEF ManifestInv
<1>1. /\ AtRest /\ failed = None /\ disk[f] \notin {Absent, Edited, Damaged}
      /\ disk' = [disk EXCEPT ![f] = how] /\ touched' = touched \cup {f}
      /\ UNCHANGED <<answers, lock>>
  BY DEF EditFile
<1>2. disk \in [Files -> Contents]
  BY DEF ChoicesInv, LifecycleTyped
<1>3. lock # Damaged /\ \A g \in Files : EntryInv(g)
  BY <1>1 DEF ManifestInv
<1>4. EntryInv(f)'
  <2>1. disk'[f] = how /\ f \in touched'
    BY <1>1, <1>2
  <2> QED
    BY <1>1, <1>3, <2>1 DEF EntryInv
<1>5. ASSUME NEW g \in Files, g # f PROVE EntryInv(g)'
  <2>1. disk'[g] = disk[g] /\ (g \in touched' <=> g \in touched)
    BY <1>1, <1>2, <1>5
  <2> QED
    BY <1>1, <1>3, <2>1 DEF EntryInv
<1> QED
  BY <1>1, <1>3, <1>4, <1>5

LEMMA WriteManifestFresh ==
  ASSUME ChoicesInv, ManifestInv, WriteManifest
  PROVE  ManifestInv'
<1> SUFFICES ASSUME AtRest', failed' = None
             PROVE  lock' # Damaged /\ \A g \in Files : EntryInv(g)'
  BY DEF ManifestInv
<1>1. /\ Buildable /\ lock' = BuildManifest /\ touched' = {} /\ UNCHANGED <<disk, answers>>
  BY TaskFacts DEF WriteManifest
<1>2. BuildManifest \in Manifests
  BY DEF BuildManifest, Entry, Hash, Manifests, ChoicesInv, LifecycleTyped
<1>3. ASSUME NEW g \in Files PROVE EntryInv(g)'
  <2>1. CASE g \in Tracked /\ Shipped(g, answers.batteries)
    <3>1. lock'[g] = [hash |-> disk[g], drift |-> FALSE]
      BY <1>1, <2>1 DEF BuildManifest, Entry, Hash
    <3>2. disk[g] \notin {Absent, Damaged}
      BY <1>1, <2>1 DEF Buildable
    <3> QED
      BY <1>1, <2>1, <3>1, <3>2 DEF EntryInv
  <2>2. CASE ~(g \in Tracked /\ Shipped(g, answers.batteries))
    BY <1>1, <2>2 DEF BuildManifest, EntryInv
  <2> QED
    BY <2>1, <2>2
<1> QED
  BY <1>1, <1>2, <1>3, ManifestAssumption
LEMMA ManifestInitOK == LifecycleInit => ManifestInv
<1> SUFFICES ASSUME LifecycleInit PROVE ManifestInv
  OBVIOUS
<1>1. PICK p \in Projects :
        LET S == Resolve(p.batteries) v == p.pin c == p.channels IN
        /\ disk = [f \in Files |-> Rendered(f, v, S)]
        /\ answers = [batteries |-> S, channels |-> c, identity |-> TRUE, pin |-> v]
        /\ lock = [f \in Files |-> IF f \in Tracked /\ Shipped(f, S)
                                   THEN [hash |-> Rendered(f, v, S), drift |-> FALSE] ELSE None]
        /\ touched = {}
  BY DEF LifecycleInit
<1>2. Resolve(p.batteries) \in SUBSET Batteries /\ p.pin \in Versions
  BY ResolveFacts, LifecycleAssumption
<1>3. ChoicesInv
  BY LifecycleInitOK
<1>4. lock # Damaged
  <2>1. \A f \in Files : Rendered(f, p.pin, Resolve(p.batteries)) \in Contents
    BY <1>2 DEF Contents
  <2>2. lock \in Manifests
    BY <1>1, <2>1 DEF Manifests
  <2> QED
    BY <2>2, ManifestAssumption
<1>5. ASSUME NEW f \in Files PROVE EntryInv(f)
  <2>1. CASE f \in Tracked /\ Shipped(f, answers.batteries)
    <3>1. disk[f] = Rendered(f, p.pin, Resolve(p.batteries)) /\ answers.batteries = Resolve(p.batteries)
      BY <1>1
    <3>2. disk[f] \notin {Absent, Edited, Damaged}
      BY <1>2, <2>1, <3>1, RenderedFacts
    <3>3. lock[f] = [hash |-> disk[f], drift |-> FALSE]
      BY <1>1, <2>1, <3>1
    <3> QED
      BY <1>1, <2>1, <3>2, <3>3 DEF EntryInv
  <2>2. CASE ~(f \in Tracked /\ Shipped(f, answers.batteries))
    BY <1>1, <2>2 DEF EntryInv
  <2> QED
    BY <2>1, <2>2
<1> QED
  BY <1>4, <1>5 DEF ManifestInv

LEMMA ManifestNextOK ==
  ChoicesInv /\ ManifestInv /\ [LifecycleNext]_lifecycleVars => ManifestInv'
<1> SUFFICES ASSUME ChoicesInv, ManifestInv, [LifecycleNext]_lifecycleVars PROVE ManifestInv'
  OBVIOUS
<1>1. ASSUME cmd'.pc # "idle" PROVE ManifestInv'
  BY <1>1 DEF ManifestInv, AtRest
<1>2. ASSUME UNCHANGED <<disk, answers, lock, cmd, touched, failed>> PROVE ManifestInv'
  BY <1>2 DEF ManifestInv, EntryInv, AtRest
<1>3. ASSUME NEW adds \in SUBSET Batteries, NEW asked \in Channels \cup {None}, Upskill(adds, asked)
      PROVE  ManifestInv'
  BY <1>1, <1>3 DEF Upskill, Begin
<1>4. ASSUME NEW target \in Versions, Upgrade(target) PROVE ManifestInv'
  BY <1>1, <1>4 DEF Upgrade, Begin
<1>5. ASSUME NEW b \in Batteries, NEW v \in Versions, Downskill(b, v) PROVE ManifestInv'
  BY <1>1, <1>5 DEF Downskill, Begin
<1>6. ASSUME NEW to \in {"batteries", "channels", "identity", "manifest"},
              cmd' = [cmd EXCEPT !.pc = to], ~AtRest
       PROVE  ManifestInv'
  <2>1. cmd \in Updates \cup Removals
    BY <1>6, CommandFacts DEF ChoicesInv, LifecycleTyped
  <2> QED
    BY <1>1, <1>6, <2>1 DEF Updates, Removals
<1>7. CASE RunUpdate \/ RecordBatteries \/ RecordChannels \/ RecordIdentity
  BY <1>6, <1>7 DEF RunUpdate, RecordBatteries, RecordChannels, RecordIdentity, Record, AtRest
<1>8. CASE WriteManifest
  BY <1>8, WriteManifestFresh
<1>9. ASSUME NEW to \in {"unlink", "splice", "batteries"}, NEW todo \in SUBSET Files,
              RemovalMoves(to, todo), cmd.pc \in {"unlink", "splice"}
       PROVE  ManifestInv'
  BY <1>1, <1>9, RemovalMovesOK
<1>10. CASE Remove
  <2>1. ASSUME NEW f \in Files, Splice(f) PROVE ManifestInv'
    BY <1>9, <2>1, SpliceMoves, TaskFacts DEF Splice, ManifestInv
  <2>2. ASSUME NEW f \in Files, Unlink(f) PROVE ManifestInv'
    BY <1>9, <2>2, UnlinkMoves DEF Unlink
  <2> QED
    BY <1>9, <1>10, <2>1, <2>2, UnlinkDoneMoves, SpliceDoneMoves DEF Remove, UnlinkDone, SpliceDone
<1>11. CASE Crash
  <2>1. failed' # None
    <3>1. cmd \in Updates \cup Removals
      BY <1>11, CommandFacts DEF Crash, ChoicesInv, LifecycleTyped
    <3> QED
      BY <1>11, <3>1, TaskFacts DEF Crash
  <2> QED
    BY <2>1 DEF ManifestInv
<1>12. ASSUME NEW f \in Files, NEW v \in Versions, RestoreFile(f, v) PROVE ManifestInv'
  BY <1>12, RestoreManifest
<1>13. ASSUME NEW f \in Files, RecordDrift(f) PROVE ManifestInv'
  BY <1>13, DriftManifest
<1>14. ASSUME NEW f \in Files, NEW how \in {Absent, Edited, Damaged}, EditFile(f, how)
       PROVE  ManifestInv'
  BY <1>14, EditManifest
<1>15. CASE Commit \/ MigrateDatabase \/ UNCHANGED lifecycleVars
  BY <1>2, <1>15 DEF Commit, MigrateDatabase, lifecycleVars, history
<1> QED
  BY <1>3, <1>4, <1>5, <1>7, <1>8, <1>10, <1>11, <1>12, <1>13, <1>14, <1>15
     DEF LifecycleNext, Update

LEMMA LifecycleInvHolds == LifecycleSpec => [](ChoicesInv /\ KnownInv /\ FilesInv /\ ManifestInv)
<1>1. LifecycleInit => ChoicesInv /\ KnownInv /\ FilesInv /\ ManifestInv
  BY LifecycleInitOK, FilesInitOK, ManifestInitOK
<1>2. ChoicesInv /\ KnownInv /\ FilesInv /\ ManifestInv /\ [LifecycleNext]_lifecycleVars
        => (ChoicesInv /\ KnownInv /\ FilesInv /\ ManifestInv)'
  BY ChoicesNextOK, KnownNextOK, FilesNextOK, ManifestNextOK
<1> QED
  BY <1>1, <1>2, PTL DEF LifecycleSpec

\* Without half-finished commands and with the matching release, a file nobody has
\* touched is what a fresh render of the recorded answers gives, whatever was
\* added, removed, upgraded and restored before; a removal that died and was
\* repeated counts as finished.
THEOREM FilesTheorem == LifecycleSpec => []UntouchedFilesAreRendered
<1>1. ChoicesInv /\ FilesInv => UntouchedFilesAreRendered
  BY TaskFacts DEF FilesInv, FileInv, Recorded, Stands, UntouchedFilesAreRendered
<1> QED
  BY <1>1, LifecycleInvHolds, PTL

\* `framework integrity` reports the managed files changed by hand since they were
\* recorded, and no others, and restore can put each of them back.
THEOREM FindingsTheorem == LifecycleSpec => []FindingsAreSound
<1>1. ChoicesInv /\ KnownInv /\ ManifestInv => FindingsAreSound
  <2> SUFFICES ASSUME ChoicesInv, KnownInv, ManifestInv, AtRest, failed = None
               PROVE  /\ Findings = {f \in touched : lock[f] # None /\ ~lock[f].drift}
                      /\ \A f \in Findings : Rendered(f, answers.pin, answers.batteries) # Absent
    BY DEF FindingsAreSound, ReportsWhatChanged, FindingsRestorable
  <2>1. lock # Damaged /\ touched \subseteq Files /\ \A f \in Files : EntryInv(f)
    BY DEF ManifestInv, ChoicesInv, LifecycleTyped
  <2>2. Findings = {f \in Files : /\ lock[f] # None
                                  /\ ~lock[f].drift
                                  /\ disk[f] \in {Absent, Damaged} \/ disk[f] # lock[f].hash}
    BY <2>1 DEF Findings, Hash
  <2>3. Findings = {f \in touched : lock[f] # None /\ ~lock[f].drift}
    BY <2>1, <2>2 DEF EntryInv
  <2>4. answers.pin \in Versions /\ answers.batteries \in SUBSET Batteries
    BY TaskFacts DEF ChoicesInv, LifecycleTyped, KnownInv, IdentityInv, Answers
  <2>5. ASSUME NEW f \in Findings PROVE Rendered(f, answers.pin, answers.batteries) # Absent
    <3>1. f \in Files /\ Shipped(f, answers.batteries)
      BY <2>1, <2>2 DEF EntryInv
    <3> QED
      BY <2>4, <3>1, RenderedFacts
  <2> QED
    BY <2>3, <2>5
<1> QED
  BY <1>1, LifecycleInvHolds, PTL
===============================================================================
