------------------------------- MODULE Worktrees -------------------------------
(***************************************************************************)
(* scripts/worktree.py of a generated project: each git worktree of a box  *)
(* brings a stack of its own up and down.  What the worktrees share is the *)
(* box: the names of the compose projects, their volumes, and host ports.  *)
(* A stack's name is derived from the branch, and two branches may have    *)
(* one label; `up --ports' looks at the ports in use, and binds its own    *)
(* later.  A command runs by itself in its worktree, and may be stopped.   *)
(***************************************************************************)
EXTENDS Naturals, FiniteSets, FiniteSetsExt

CONSTANTS
  Trees,         \* the worktrees of the box
  Branches,      \* what they may have checked out, or be given by --instance
  Label,         \* sanitize_instance
  BasePorts, OffsetStep, MaxHostPort,
  Unset,
  MaxCommands    \* bound

ASSUME WorktreesAssumption ==
  /\ MaxHostPort \in Nat /\ BasePorts \subseteq 0..MaxHostPort /\ BasePorts # {}
  /\ OffsetStep \in Nat \ {0} /\ MaxCommands \in Nat
  /\ Label \in [Branches -> STRING] /\ Unset \notin STRING

VARIABLES
  env,        \* env[w]: the durable .env: [instance, offset, marker (PORT_OFFSET_FOR)]
  stacks,     \* stacks[i]: what compose project i has: [ports, volumes, by (history: who made it)]
  command,    \* command[w]: what runs there: [step, instance, ports, seen]
  commands,   \* begun so far
  abandoned,  \* history: the stacks an `up' under another name has left behind
  started     \* history: started[w]: the stacks started since the `up' that plans there
              \* looked at the ports, [look], and since the one that selected its offset, [offset]

worktreeVars == <<env, stacks, command, commands, abandoned, started>>

Instances == {Label[b] : b \in Branches}
Window(offset) == {p + offset : p \in BasePorts}
Occupied == UNION {stacks[i].ports : i \in Instances}      \* running_host_ports
Idle   == [step |-> "none", instance |-> Unset, ports |-> FALSE, seen |-> {}]
Absent == [ports |-> {}, volumes |-> FALSE, by |-> {}]
NoneStarted == [look |-> {}, offset |-> {}]

Command(w, changes) ==
  /\ command' = [command EXCEPT ![w] = changes]
  /\ UNCHANGED <<commands, abandoned>>

-----------------------------------------------------------------------------
(* worktree.py up                                                          *)

\* main, and provision's look at the running containers.
Up(w, b, ports) ==
  /\ command[w] = Idle /\ commands < MaxCommands
  /\ commands' = commands + 1
  /\ command' = [command EXCEPT ![w] =
       [step |-> "planning", instance |-> Label[b], ports |-> ports,
        seen |-> IF ports THEN Occupied ELSE {}]]
  /\ started' = [started EXCEPT ![w].look = {}]
  /\ UNCHANGED <<env, stacks, abandoned>>

Offsets == {n * OffsetStep : n \in 0..MaxHostPort}

\* select_port_offset
FreeOffsets(seen) ==
  {o \in Offsets : Max(BasePorts) + o <= MaxHostPort /\ Window(o) \cap seen = {}}

\* Mutant: an offset that is in the .env of this instance is taken for one that
\* was selected, the default as well.
RecordedBefore(w) == env[w].instance = command[w].instance

\* An offset selected for this instance is used again, whoever holds it now.
SelectedBefore(w) == env[w].marker = command[w].instance

Abandons(w) == env[w].instance # Unset /\ env[w].instance # command[w].instance

\* plan_provision and write_env; without a free window `up' ends here.
Plan(w) ==
  LET i == command[w].instance
      fresh == command[w].ports /\ ~SelectedBefore(w)
  IN /\ command[w].step = "planning"
     /\ fresh => FreeOffsets(command[w].seen) # {}
     /\ env' = [env EXCEPT ![w] =
          [instance |-> i,
           offset |-> IF fresh THEN Min(FreeOffsets(command[w].seen)) ELSE @.offset,
           marker |-> IF command[w].ports THEN i ELSE @.marker]]
     /\ abandoned' = IF Abandons(w) THEN abandoned \cup {env[w].instance} ELSE abandoned
     /\ command' = [command EXCEPT ![w].step = "starting"]
     /\ started' = [started EXCEPT ![w] =
          [NoneStarted EXCEPT !.offset = IF fresh THEN started[w].look ELSE started[w].offset]]
     /\ UNCHANGED <<stacks, commands>>

\* compose.sh shifts every port by the PORT_OFFSET that is exported, and not
\* by the one in .env.
Bound(w) == Window(IF command[w].ports THEN env[w].offset ELSE 0)

Others(i) == UNION {stacks[j].ports : j \in Instances \ {i}}

\* The history of v once stack i has been started: only of a look, and of an
\* offset, that are still of use.
WithStarted(v, i) ==
  [look   |-> started[v].look \cup {j \in {i} : command[v].step = "planning" /\ command[v].ports},
   offset |-> started[v].offset \cup {j \in {i} : env[v].marker # Unset}]

\* task dev:edge: compose brings the project up, or leaves some of it.
Start(w) ==
  LET i == command[w].instance
  IN /\ command[w].step = "starting"
     /\ \E held \in SUBSET (Bound(w) \ Others(i)) :
          stacks' = [stacks EXCEPT ![i] =
            [ports |-> held, volumes |-> TRUE, by |-> @.by \cup {w}]]
     /\ started' = [v \in Trees |-> WithStarted(v, i)]
     /\ Command(w, Idle) /\ UNCHANGED env

-----------------------------------------------------------------------------
(* worktree.py down                                                        *)

\* Mutant: the instance is derived from the branch once more.
ProvisionedByBranch(w, b) == Label[b]

\* resolve_provisioned_instance: what a prior `up' has recorded.
Provisioned(w, b) == env[w].instance

\* Mutant: the .env is cleared before the stack is down.
DownForgetting(w, b) ==
  /\ command[w] = Idle /\ commands < MaxCommands /\ env[w].instance # Unset
  /\ commands' = commands + 1
  /\ command' = [command EXCEPT ![w] =
       [Idle EXCEPT !.step = "stopping", !.instance = Provisioned(w, b)]]
  /\ env' = [env EXCEPT ![w].instance = Unset]
  /\ UNCHANGED <<stacks, abandoned, started>>

Down(w, b) ==
  /\ command[w] = Idle /\ commands < MaxCommands /\ env[w].instance # Unset
  /\ commands' = commands + 1
  /\ command' = [command EXCEPT ![w] =
       [Idle EXCEPT !.step = "stopping", !.instance = Provisioned(w, b)]]
  /\ UNCHANGED <<env, stacks, abandoned, started>>

\* docker compose down -v
RemoveStack(w) ==
  /\ command[w].step = "stopping"
  /\ stacks' = [stacks EXCEPT ![command[w].instance] = Absent]
  /\ Command(w, [command[w] EXCEPT !.step = "releasing"]) /\ UNCHANGED <<env, started>>

\* remove_env_vars: the offset is given back, the instance stays.
Release(w) ==
  /\ command[w].step = "releasing"
  /\ env' = [env EXCEPT ![w].marker = Unset, ![w].offset = 0]
  /\ started' = [started EXCEPT ![w].offset = {}]
  /\ Command(w, Idle) /\ UNCHANGED stacks

-----------------------------------------------------------------------------
\* A step fails, or the command is interrupted.
Stop(w) == /\ command[w] # Idle /\ Command(w, Idle)
           /\ started' = [started EXCEPT ![w].look = {}]
           /\ UNCHANGED <<env, stacks>>

WorktreesInit ==
  /\ env = [w \in Trees |-> [instance |-> Unset, offset |-> 0, marker |-> Unset]]
  /\ stacks = [i \in Instances |-> Absent]
  /\ command = [w \in Trees |-> Idle] /\ commands = 0 /\ abandoned = {}
  /\ started = [w \in Trees |-> NoneStarted]

Provision(w)   == Plan(w) \/ Start(w)
Deprovision(w) == RemoveStack(w) \/ Release(w)

WorktreesNext ==
  \E w \in Trees :
    \/ \E b \in Branches, ports \in BOOLEAN : Up(w, b, ports)
    \/ \E b \in Branches : Down(w, b)
    \/ Provision(w) \/ Deprovision(w) \/ Stop(w)

WorktreesSpec == WorktreesInit /\ [][WorktreesNext]_worktreeVars

-----------------------------------------------------------------------------
WorktreesTypeOK ==
  /\ \A w \in Trees : /\ env[w].instance \in Instances \cup {Unset}
                      /\ env[w].marker \in {Unset, env[w].instance} \cup Instances
                      /\ env[w].offset \in Offsets
                      /\ command[w].step \in {"none", "planning", "starting", "stopping", "releasing"}
                      /\ started[w].look \cup started[w].offset \subseteq Instances
  /\ \A i \in Instances : /\ stacks[i].ports \subseteq 0..MaxHostPort
                          /\ stacks[i].by \subseteq Trees
  /\ commands \in 0..MaxCommands /\ abandoned \subseteq Instances

\* Who holds a port of a window that a worktree has selected has come later.
\* As long as the worktree keeps the offset, over its commands and those of the
\* others, a port of its window is held only by stacks that were started after
\* it had looked at the ports (its own among them), never by one that was up
\* already, wherever the offset in its .env has come from.  Two that look
\* before either has started do select one window; the second to start is
\* refused the ports, and so is one whose stack was down, or never came up,
\* while another selected: that is all the code leaves to chance.
SelectedPortsWereFree ==
  \A w \in Trees, i \in Instances :
    /\ env[w].marker # Unset
    /\ stacks[i].ports \cap Window(env[w].offset) # {}
    => i \in started[w].offset

\* `down' finds the stack the worktree's last `up' has made, whatever branch it
\* is on by then: of its stacks none stays but those left behind before.
DownLeavesNothing ==
  \A w \in Trees, i \in Instances :
    command[w].step = "releasing" /\ w \in stacks[i].by => i \in abandoned

\* No stack is forgotten but those an `up' under another name left behind: the
\* .env of a worktree names every other, so a `down' finds it.
StacksAreNamed ==
  \A i \in Instances :
    stacks[i].volumes => i \in abandoned \/ \E w \in Trees : env[w].instance = i

\* No `down' misses a stack of its worktree, and no worktree forgets one.
NoStackIsLost == DownLeavesNothing /\ StacksAreNamed
===============================================================================
