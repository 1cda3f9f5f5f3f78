# kubeforward in TLA+

kubeforward reads a configuration of named environments, each a list of
`kubectl port-forward`s, and starts (`up`), watches (`up` without `--daemon`)
and stops (`down`) them. What it has started is recorded in a state file that all
commands share; there is no daemon. This directory models the part of it where
things happen in an order nobody chose: commands, kubectls and other programs
that come and go around one state file and one process table. It also models how a
configuration becomes the plan that these commands work from, where environments
inherit from one another.

Paths below are relative to the repository.

## Inventory

| part | source | state it keeps | operations | hard about it | modelled |
|---|---|---|---|---|---|
| session lifecycle | `src/cli/cli.cpp` | none of its own between commands; within one: the snapshot of the state file, the session being started or watched | `up`, attached `up`, `down` | works from a snapshot and stops processes by recorded pid; every step may fail, with what came before it to be undone | `Sessions`, `SessionRegistry` |
| port conflicts | `src/runtime/session_conflicts.cpp` | none | `CheckRuntimeSessionPortConflicts` | sessions that are recorded but do not listen yet | `Sessions` (`Conflict`) |
| state store | `src/runtime/state_store.cpp` | the state file, its lock file, temporary files | `LoadState`, `SaveState` | kills and failures in the middle of a save, loads meanwhile, locks on error paths | `StateStore`, `AtomicState` |
| process runner | `src/runtime/process_runner.cpp` | none (children are the kernel's) | `Start`, `Stop` | both halves of a fork run at once; zombies, children of another command, groups of several processes, bounded waits | `PosixProcessRunner`, `ProcessRunner`; in larger steps in `Sessions` |
| operating system, kubectl | external | processes, ports, parents | fork, exit, kill, waitpid, bind | recycled pids, orphans, taken ports | `ProcessTable` |
| configuration | `src/config/loader.cpp` | the configuration, its errors | `LoadConfigFromFile` | errors do not stop it; `extends` cycles, duplicate ports and names | `Configuration` (what concerns only the text is one bit) |
| plan resolution | `src/runtime/resolved_plan.cpp` | cache of resolved environments | `BuildResolvedPlan` | two recursions along `extends`, one with a visited set and one without; settings, guards and forwards are inherited by different rules | `PlanResolution` |
| `plan`, help, dispatch, logs, paths | `src/cli/cli.cpp` | none | printing and naming | nothing | no |
| no-op runner, test switches | `src/runtime/process_runner.cpp` | none | stand-ins for unit tests | nothing | no (`skip` is `KUBEFORWARD_SKIP_READINESS_CHECK`) |

How they interact: a command loads the state once (`LoadState`), decides, stops
and starts processes through the runner, and saves once (`SaveState`). Each of the
two calls holds the file's lock, nothing holds it in between. Commands meet only in
the state file and in the process table. Before any of this `up` loads its
configuration and resolves a plan from it; only an accepted configuration gets that
far, and neither touches what is shared. `down` does neither: it goes by the path of the
configuration and by what the state file records.

What makes each part correct:

- *lifecycle*: no kubectl runs that nobody will stop; what is recorded is a whole
  session, one per environment; replacing a session ends with a whole session; a
  command touches no process outside its scope and no foreign program; a `down`
  that reports success has cleared its scope; commands end.
- *conflicts*: two sessions never have kubectls for one local port.
- *store*: loads and saves are atomic, but that a file that cannot be opened loads as
  an empty state; the file is never partial, calls return.
- *runner*: a started process leads its own group before anybody knows its pid; a
  failed start leaves nothing, not even a zombie; a stop that succeeds has ended the
  kubectl; calls return, and what has been signalled ends.
- *configuration*: it is rejected for a cycle of `extends` exactly if there is one, and
  the environments blamed for it are on it.
- *plan*: resolving an accepted configuration ends and never fails for its graph;
  each environment gets the nearest setting and, but for empty lists, the nearest list of
  forwards of its line; no production environment has a foreground forward; no environment
  listens twice on a port.

The hazards behind these, line by line, are listed in `PROJECT.json`.

## Modules

| module | stands for |
|---|---|
| `ProcessTable` | the operating system and kubectl: process states, parents, ports, failures |
| `Sessions` | `up`, attached `up`, `down`; extends `ProcessTable` |
| `SessionRegistry` | what `Sessions` promises as long as commands do not overlap: each changes the record at one instant, or not at all |
| `SessionsProofs` | theorems about `Sessions` with any number of terminals |
| `SessionsSequentialProofs` | theorems about one terminal, with any failures |
| `SessionsRecoveryProofs` | theorems about one terminal, with the failures an `up` has to recover from |
| `SessionsRegistryProofs` | `Sessions` with one terminal implements `SessionRegistry` |
| `MCSessions` | the command lines of each run, symmetry |
| `ProcessRunner` | 2 commands, 2 pids, kills of commands, EPERM, fair | `TypeOK`, `StartedGroup`, `FailedStartLeavesNothing`, `ReattachedGroupGone`, `ImplementsProcessRunner`, `CallsReturn`, `StopEnds` |
| `PlanResolution` | every graph of 3 environments and an unknown name with every choice of production and foreground forwards; settings and lists along a chain and a fork; faulty lists; faulty, nameless and duplicate entries; no empty list where another one is extended; fair | `ConfigTypeOK`, `AcceptedAcyclic`, `CycleErrorsReal`, `PlanTypeOK`, `LoaderSuffices`, `InheritanceCorrect`, `ProductionDetached`, `PortsDistinctPostMerge`, `PlanEnds` |
| `SessionsStaleCleanup` | 2 attached terminals, no failure | finding 1 |
| `SessionsPsFails` | 1 terminal, `ps` fails once | finding 2 |
| `SessionsLegacy` | 1 terminal, a session without argv | finding 3 |
| `ProcessRunnerHelper` | 1 command, a kubectl with a helper | finding 4 |
| `PlanEmptyList` | 2 entries, empty lists included | finding 5 |

Why the bounds are enough. A session of two forwards has everything a longer one
has: a first, a last, a partly started and a partly stopped state. Replacing a
session of two by one of two while another environment runs needs five pids if none
is recycled and three if they are; with five, foreign programs and kubectls that have
survived a stop find room as well. Two environments that share a port give a conflict;
three ports let a plan change to one without. Two failures let the undo of a failure
fail. Two commands are the smallest number that interferes, and every property that
is about interference speaks of a pair; where it matters (`UniqueSessions`, `ScopeRespect`, ...)
the theorems remove the bound. In `SessionsConcurrent` two pids are one plan of two forwards and
nothing else, so that whatever another command starts runs on a pid that some snapshot
still has; and a plan of two can be partly started, by a failure, a hang or a kill after its first. Three files are enough for two clients of the store:
the lock lets only one of them write, so there are never more than the state file
and one temporary file for each pid. Two pids of the runner are a kubectl with a helper, or two
kubectls; its safety properties are proved for any number. One poll after SIGTERM and none after SIGKILL already let a process
end before, between and after the polls. Three environments are the smallest number
for a circle that is entered from outside, for a fork of the line, and for a value that
is inherited across an environment without one.

`Pids` and terminals, and in `ProcessRunnerHelper` the runner's pids, are symmetric in the runs
that check no liveness (they are compared for equality only); the runs with liveness use no
symmetry. In `StateStore` a save takes a fixed one of the unused files (`FixedChoice`): a file
that no client and no name refers to has nothing to tell it from another one.

What the properties are checked without, on purpose:

- `NoOrphan` and `DownClears` with one terminal and no kill before the save. The code does
  not keep them otherwise: two interleaved commands lose one another's records, and a
  Ctrl-C before line 1149, where the handlers are installed, leaves the started kubectls behind. Failures to stop are
  included, but a kubectl that has survived one may be forgotten, as it is by
  `StopStartedSession` and by the end of an attached `up`.
- `PortsDisjoint` with one failure: a restore does not ask for conflicts again
  (line 1060), which takes a second failure to matter.
- `ReplaceKeepsForwards` without failures of `ps` and of kubectl's own: finding 2 is the
  first, and a kubectl that dies is nothing `up` could prevent.
- `ForegroundRemovesItself` with one terminal: with two it is finding 1. So is
  `ImplementsRegistry`: two commands that save from their own snapshots do not take
  effect one after the other.
- `DownForgetsDead` without old state formats: with them it is finding 3.
- `ReattachedGroupGone` for a kubectl of another command: for one of its own it is
  finding 4.
- `StopEnds` unless the `Stop` is cut short (`CutShort`): a command that is killed after its
  SIGTERM sends no SIGKILL, nor does one to which `kill` is refused.
- `ScopeRespect` for environments whose port mappings are not found in one another. A pid that has
  been recycled as the kubectl of another session is told from the recorded one by the mapping
  alone: where two environments share one, or one's text contains the other's, the code stops the
  wrong kubectl. `ShouldSignalManagedProcess` can know no better.
- `InheritanceCorrect` without empty lists where another environment is extended: with them it is
  finding 5.

## Fairness

`FairSpec` of `Sessions` asks for weak fairness of each command's own steps and of
kubectl's opening its port or exiting. A command is a sequential program whose
waits are polls with a deadline (`WaitForForwardReady`, `WaitForProcessGroupExit`), so
it always runs on; nothing is asked of the user, of foreign programs or of
failures. Where one command waits for another to reap a child, the other's poll is
what the wait ends by in the run; the deadline behind it is the `stop` failure, which
the run does not need.

`FairSpec` of `StateStore` asks for weak fairness of each call's steps and strong
fairness of taking the lock: `flock` queues its waiters, and a process that asks again
and again while others come and go gets its turn. Without strong fairness readers
could starve a writer, which is a matter of the kernel, not of this code.

`FairSpec` of `PosixProcessRunner` asks for weak fairness of each call's steps, of each
child's steps up to its exec, and of the death of what has been killed or has got a
SIGTERM it is not deaf to. A call is sequential code, a child between `fork` and exec
as well, and the kernel delivers signals. Nothing is asked of kubectl: it may run as
long as it likes.

`FairSpec` of `PlanResolution` asks for weak fairness of the next step: a command runs on.
Every load and every plan then ends, because the search visits each environment once
and resolution never goes round a circle.

## Theorems

All of them hold for every value of the constants that the named assumptions in the
modules admit (names differ from one another, bounds are natural numbers). Some have
hypotheses of their own, which are named operators, so that a reader can see in one
place what is asked:

| hypothesis | means | asked for because |
|---|---|---|
| `Alone` | one terminal: commands do not overlap | two commands save from snapshots of their own and lose one another's sessions (finding 1, and the hazard at `src/cli/cli.cpp:1260`) |
| `"crash" \notin Faults` | no kill between the first start and the save | the handlers are installed at line 1149, so the kubectls that have been started are forgotten; a kill while watching is allowed |
| `Readable` | a state file that is there can be opened | it loads as empty otherwise, and the next save wipes the record |
| `PlansApart` | no port mapping of one environment's plans is found in the text of another's | the mapping is all that tells the kubectl on a recycled pid from the recorded one |
| `NoEmptyOverrides` | no environment that extends another one gives an empty list | the code takes the list for a missing one (finding 5) |
| `PidReuse = FALSE` | `fork` returns no recorded pid | a recycled pid that is a kubectl for the same ports cannot be told from the recorded one; in `Undisturbed` only |
| `Undisturbed` | that, no foreign programs, no failing `ps` or stop, no old formats | each makes a kubectl unstoppable or unrecognisable (findings 2 and 3, hazard at line 932) |
| `SingleFailure` | that, `Readable`, at most one failure, which neither kills an `up` before its save nor a kubectl, and plans that do not listen twice on a port | a second failure strikes the restore itself, and a restore does not ask for conflicts again (line 1060); the plans are those `PortsCorrect` lets through |
| `[]Roomy` | `fork` always finds a free pid | a full process table is one more failure, one that `Faults` does not count |

`SessionsProofs`:

- `TypeCorrect`. The types are not inductive alone: that what `down` visits are
  sequences needs the snapshot to be finite, and that `Append`, `Head` and `Tail`
  stay typed needs to know which stage has what in hand. `TypeInv` adds both
  (`RecordsFinite`, `ControlInv`).
- `UniqueCorrect`. Every save writes a snapshot without a key and at most one
  session of that key, so uniqueness passes from snapshot to file and back,
  whatever is lost in between.
- `ForeignCorrect`. A command changes a process only if it is its own child or
  passes `ShouldSignal`, which asks for a kubectl. `ForeignInv` says that a foreign
  program is never a child of a command, through any recycling of pids; without it
  the exit of a command could hand over a foreign process with its children.
- `WholeCorrect`. `WholeInv` carries the plan along: what has been started is a prefix
  of what is wanted, and what is wanted is a plan that was asked for, or the ports of a
  recorded session, which were one.
- `ScopeCorrect`, for `PlansApart` and any recycling of pids. `PlannedInv`: the file, every
  snapshot and all that is still to be stopped name only ports of a plan for the session's own
  environment, and so does the kubectl that now runs on a recorded pid for its own. A kubectl that
  `Recognises` accepts has a mapping in common with the recorded one, hence its environment.

`SessionsSequentialProofs`, for one terminal, a readable state file and any number of failures:

- `OrphanCorrect`, `DownCorrect`, without a kill before the save. `SequentialInv` follows
  every kubectl that must not be lost through the hands of the command: it is recorded
  in the file, or its environment is the one being started and it is among the
  started forwards, or it is in the part of the line of sessions that is still to be
  stopped, or its session could not be stopped and is kept (`KeptInv`). That the
  file does not change while a command runs (`FileInv`) is what makes the snapshot as good
  as the file. Neither property is inductive alone: `NoOrphan` does not say what is left to
  stop, nor `DownClears` what has been stopped since the file was read.
- `ForegroundCorrect`, also with kills. `CommandInv` alone: the snapshot of an attached
  `up` is the file it has written, with its own session in it once.

`SessionsRecoveryProofs`, for one terminal:

- `ForgetCorrect`, for `Undisturbed`, readable or not. `UndisturbedInv`: every live process is a kubectl on the
  port its record says (`RecordsInv`, `OnlyOurs`), so that every forward is stopped or gone
  and nothing is ever kept (`NoneKept`).
- `DisjointCorrect`, `ReplaceCorrect`, for `SingleFailure` and `[]Roomy`. `RecoveryInv`: as long as
  nothing has failed, what is recorded runs, each forward on a port of its own
  (`CalmInv`); the ports of an accepted plan stay free of other sessions (`PlanFree`); and an
  `up` that undoes or restores has had its one failure, so its own file is a calm
  one and every start of the restore succeeds (`RestoreInv`, `NoClash`). What is brought back
  then has the ports it had, and the others have not moved.

`SessionsRegistryProofs`, for one terminal, a readable state file, any other failures and kills:

- `RegistryCorrect`. Each step of `Sessions` is a step of `SessionRegistry` or a stutter. It takes
  `CommandInv` (the file is still the snapshot when a command saves), `WholeInv` (what is
  saved is the plan, or the ports of the old session), uniqueness (a restored session
  replaces exactly the one it was), and `VisitInv`: a `down` keeps only sessions in its
  scope, so it reports an error exactly if one of them is left.

`StateStoreProofs`:

- `TypeCorrect`, a part of the invariant below.
- `WholeFile`. `StoreInv`: the file under the state's name is complete, and the file
  under a temporary name is neither the state file nor another client's, nor
  one that is being read.
- `Implements`. Each step of the store is a step of `AtomicState` or a stutter, by
  `StoreInv`. Neither proof needs the lock: the rename and the name that carries the
  pid are enough. The lock would matter for processes that share a file but not a
  pid space.

`PosixProcessRunnerProofs`, for any number of commands, processes and polls:

- `TypeCorrect`, `GroupCorrect`, `FailureCorrect`, `ReattachedCorrect`. `RunnerInv` says of each
  process what its state means for its group and its parent (`ProcessInv`: a process
  that has come as far as its exec leads its group or is a helper in one), and of each
  call which process it has in hand (`CallInv`: the child of a `Start` is that command's
  until it is reaped). That the group exists before the pid is known follows from the
  parent's own `setpgid`, which comes before the read, or the child's, which comes
  before the exec.
- `Implements`. Each step is a step of `ProcessRunner` or a stutter, by `RunnerInv`.

`PlanResolutionProofs`, for any set of names, any fields and values, and any content of
the file:

- `LoadTypeCorrect`, `AcyclicCorrect`, `CyclesCorrect`. `LoadInv` is `ConfigTypeOK`, in which the
  stack is a path of distinct environments and those visited on it; `StageInv`, what has
  been validated at which stage; `SearchInv`: as long as there is no error, nothing that
  has been visited leads to what has not, and every circle has a member that has not
  been visited; and `CycleErrorsReal`. When the search is over nothing is unvisited, so there
  is no circle. An error is real because the stack from the parent up is a circle.
- `PlanTypeCorrect`, `LoaderCorrect`. `PlanInv`: a call in progress is for a defined
  environment that is not cached, each the parent of the one before; then a parent
  that is in progress closes a circle, which `LoadInv` excludes.
- `ProductionCorrect`. `CacheInv`: a cached environment has its parent cached, is production
  if that is, and has been looked at if no error was found. The cached
  environments that are not production are then closed under `extends`, so none
  of them has a production one in its line.
- `InheritCorrect`, for `NoEmptyOverrides`. `SourceInv`: every environment of the configuration has
  the entry it was parsed from, so that a list is not empty exactly if it is given or is the root's.
  `InheritInv` adds to the property that `walk` sees the same nearest list
  as the environment being resolved. The line of an environment is its parent's and
  itself, and is not in its parent's (no circle), so the nearest value is its own
  or its parent's nearest (`SettingStep`, `ListedStep`, `ProductionStep`).
- `PortsCorrect`. `PortsInv`: without an error every environment has distinct ports, and
  resolving a list of forwards changes none of them.

Every invariant, action property and refinement of the passing runs is proved. The
constants of `SessionsSequential` satisfy `Alone` and have no `crash`; those of `SessionsReplace`
satisfy `Alone` and `SingleFailure`, and its six pids `[]Roomy`; those of `SessionsConcurrent`, with
recycled pids and a mapping that is found in another one of the same environment, satisfy
`PlansApart`, and the files of `PlanResolution` `NoEmptyOverrides`: no theorem speaks of nothing.

Only model-checked are the liveness properties `CommandsFinish`, `ForegroundEnds`, `CallsReturn` of
both components, `StopEnds` and `PlanEnds`, because the prover does not reason about
fairness and enabledness. The five findings are counterexamples, which only the runs show.

## Findings

1. `src/cli/cli.cpp:1181`. The cleanup of an attached `up` saves the state it had
   saved when it started, less its own session. A session that another command has
   recorded since disappears from the file while it runs, and one that has been taken
   down comes back (`SessionsStaleCleanup`).
2. `src/cli/cli.cpp:1315`. When one forward of the session to replace cannot be
   stopped, `up` returns with the others stopped and does not restore them
   (`SessionsPsFails`), although existing sessions are to be preserved until the
   replacement succeeds.
3. `src/cli/cli.cpp:915`. `up` refuses to replace a session recorded without argv and
   says to run `down` first; `down` refuses it as well, even when its process is gone
   (`SessionsLegacy`).
4. `src/runtime/process_runner.cpp:46`. `Stop` of a kubectl that the command has started
   itself succeeds as soon as that kubectl is reaped, and sends no SIGKILL: a helper in
   its group that is deaf to SIGTERM runs on (`ProcessRunnerHelper`). For a kubectl of another
   command it waits for the whole group.

5. `src/runtime/resolved_plan.cpp:45`. An explicit empty list of `forwards`, which the loader
   accepts, is taken for a missing one, and the environment starts the forwards of the one it
   extends (`PlanEmptyList`), though "lists are replaced, not merged" (`docs/config-schema.md:51`).

One more place where the code and its documentation differ needs no run to be seen: an
environment that inherits forwards into a namespace of its own is refused if its parent has
none (`src/runtime/resolved_plan.cpp:138`), though the namespace is resolved in the
environment (`docs/config-schema.md:53`). The model does what the code does.

## Plan

Done, in this order: `ProcessTable` and `Sessions`; their runs; `SessionsProofs`;
`AtomicState`, `StateStore` and `StateStoreProofs`; `ProcessRunner`, `PosixProcessRunner` and
`PosixProcessRunnerProofs`; `Configuration`, `PlanResolution` and `PlanResolutionProofs`;
`SessionsSequentialProofs` and `SessionsRecoveryProofs`; `SessionRegistry` and
`SessionsRegistryProofs`.

Next:

1. Two claims of one local port: which exclude each other, which readiness confuses.
2. What is left of the guarantees when commands do overlap: which sessions a lost save
   can drop, stated for two terminals.

## Not modelled

Printing, option parsing, log files, and the hash that names a state file: they
change nothing that another part reads. The text of a configuration: a rule such as the
one for IPv4 literals depends on characters and on nothing else, and is tested one input at a time.
`NoopProcessRunner`: it stands in for the runner in unit tests. The order in which a file system
writes to its disk: only a power failure shows it.
