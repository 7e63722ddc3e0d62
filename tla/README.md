# Formal models of the GameAP daemon

This directory holds TLA+ models of the GameAP daemon (`src/`). It has:

- TLC configurations that model-check the models on small instances;
- TLAPS proofs of their main invariants for every instance.

`PROJECT.json` lists:

- the components;
- the runs and the mutants that show each checked property can fail;
- the map from every modelled definition to the Go lines it translates;
- the findings;
- the hazards of the code.

## 1. The system and its parts

| Part | Source | State | Operations |
|---|---|---|---|
| Task scheduler | `gdaemon_scheduler/task_manager.go` | `taskQueue.tasks` (in-memory GDTask objects); `commandsInProgress` (sync.Map task → command); `lastUpdated` | `Run` (`failWorkingTaskAfterRestart`, then the poll loop `updateTasksIfNeeded` every UpdatePeriod); `RunWorker` (a 100 ms ticker calling `runNext`); the goroutines of `executeCommand` / `executeGameCommand`; `Stats` |
| Command objects | `game_server_commands/commands.go`, `part_003` | `complete`, `result`, output buffer | `Execute`, `IsComplete`, `Result`, `ReadOutput`; `commandList` runs sub-commands in order; `nilCommand` |
| Command factory | `commands.go` `LoadServerCommand` | none | Builds a command per verb. Reinstall is a commandList of Delete and Install. Pause falls into an empty case and returns `nil`. |
| Server repository | `repositories/server_repository.go` | `servers` and `lastUpdated` (the cache with its TTL); the per-field modified flags of each Server | `FindByID` (first load, TTL refetch, merge), `Save` (onto the CallScheduler), `apiServerRepo.Save` / `SaveBulk` |
| CallScheduler | `limiter` package (not in `src/`), wired at `server_repository.go:43-84` | FIFO queue | `Put`; a tick every second takes one server (PUT) or, above the threshold, a batch (PATCH) |
| WinSW process manager | `processmanager/winsw.go` | service file; Windows service | `Start`, `Stop`, `Restart`, `Status`, `makeService`, 1053 retry |
| Builder, config loader | `builder.go`, `config/loader.go` | start-up only | wiring and parsing |

How the parts interact:

- The control plane holds each task's status. The scheduler reads tasks with `FindByStatus` and writes them with `Save`.
- The worker and the poller share the queue, which is guarded by its own RWMutex.
- The worker and a command goroutine share the GDTask object (status) and the command object (complete and result).
- A command works on servers through the repository and the process manager.
- The repository's `FindByID` holds `repo.mu`, but the scheduler goroutine that flushes does not. A command writes a Server's status fields under the Server's own lock, which is taken separately for each access.

## 2. What is modelled

### 2.1 `TaskManager.tla`

#### Constants

- `Tasks`: task ids.
- `RunAfter`: the predecessor of each task, or 0.
- `TaskKind`: one of Execute, Game, Reinstall, Pause or Invalid, following `taskServerCommandMap` and the factory.
- `MaxCrashes` and `MaxApiFailures`: the bounds on crashes of the daemon and on failed saves.

`TaskManagerAssumption` asks that the set of tasks is finite and that `RunAfter[t] < t`. The control plane creates a predecessor before its successor, and the code does not detect cycles.

#### Variables

| Variable | Models |
|---|---|
| `api` | the control plane's status of each task |
| `queue` | `taskQueue.tasks`, as a sequence of ids |
| `status` | the status of the in-memory GDTask object, or `None` when it is not queued |
| `inProgress` | the keys of `commandsInProgress` |
| `cmd` | each task's command: the goroutine's phase, `complete` and `result` |
| `poll` | a `FindByStatus(Waiting)` answer not yet inserted |
| `proc` | the process state: recovering or running |
| `crashes`, `apiFailures` | bounded counters |
| `outcome` | a history variable: what the last command of each task really produced |

#### Actions and the code they translate

| Action | Code |
|---|---|
| `Recover`, `RecoverFetchFails` | `failWorkingTaskAfterRestart`. Every Save may fail, up to the bound. |
| `PollFetch`, `PollInsert` | `updateTasksIfNeeded` split at the point where the answer has arrived. The worker can run between the two, which is the stale snapshot. |
| `RunNext` | `runNext`, one disjunct per branch. Each branch includes the trailing `queue.Next` rotation, the swap-remove of `taskQueue.Remove` and the final `Save`. |

The branches of `RunNext`:

- `WaitForPredecessor`;
- `ExecuteTask`: `executeTask`, which sets Working, saves, stores the command and starts the goroutine;
- `ExecuteInvalidTask`: the `ErrInvalidTaskError` path, which saves Working and then Error;
- `ProceedRunning`, `ProceedComplete` and `ProceedMissing`: `proceedTask`;
- `RemoveCompleted`: a task its goroutine failed.

The goroutine and the process:

- `CommandReturns(t)`: `Execute` returning.
  - For a single command, the result and `complete` are set together, and an error comes with `UnknownResult`.
  - For a `commandList`, a success leaves the object complete with no result yet. A failing sub-command sets the result and then completes. A sub-command error returns without completing.
- `CommandSetsResult(t)`: the trailing `SetResult`.
- `GoroutineFailsTask(t)`: the goroutine's error path, `failTask`. It does not delete the `commandsInProgress` entry.
- `NilCommandPanics(t)`: `Execute` on the nil command of Pause.
- `Crash`: a crash, after which `Run` starts again from the recovery step.

#### What is abstracted

- Task output (`appendTaskOutput`) is left out.
- Command strings are left out.
- The server object is left out.
- The poll period is left out. Any interleaving of the poller and the worker is allowed, which covers every timing of the two loops.

#### Properties

| Property | Kind | What it says |
|---|---|---|
| `TypeOK` | invariant | the type invariant |
| `WorkingHasCommand` | invariant | A Working in-memory task has its command registered (spec 8.6). |
| `SuccessMeansCommandSucceeded` | invariant | The control plane sees Success only after a successful command. |
| `FailureMeansCommandFailed` | invariant | The control plane sees Error only if the command did not succeed. |
| `NoOrphanWorking` | invariant | After recovery, every task the control plane holds as Working is queued. |
| `StatsConsistent` | invariant | Every key of `commandsInProgress` is queued, the premise of `Stats()`. |
| `DependencyHonored` | action property | A task's command starts only when its predecessor's command is not running and the predecessor has left Waiting. |
| `TerminalStatusStable` | action property | A terminal status at the control plane never changes (spec 8.1). |
| `LiveCommandKeepsTask` | invariant | While a task's command is live (running, between SetComplete and SetResult, or about to call failTask), the task is queued as the Working object executeTask made, so no poll hands it out again. |
| `AllTasksSettle` | liveness | Every task ends terminal and stays so. |

### 2.2 `ServerRepository.tla`

Constants:

- `Servers`;
- `MaxWrites`: the bound on local writes by commands;
- `MaxApiFailures`: the bound on failed GETs, PUTs and PATCHes;
- `BulkCallFromNum` and `BulkSize`: the scheduler's threshold and batch size. The code uses 5 and 100; the runs use 1 and 2, so that both paths occur with two queued saves.

Each server keeps its two dirty-tracked fields:

- `installationStatus`, as a version number, so that an old value can be told from a new one;
- the process status `active`.

| Variable | Models |
|---|---|
| `remote` | the API's copy of each server |
| `cached`, `local`, `modified`, `fresh` | `repo.servers`, the Server objects, their modified flags, and `lastUpdated` within the TTL |
| `unsaved` | a command has written the server and not yet called `Save` |
| `sq` | the CallScheduler queue |
| `fl` | the flush in progress: its batch, the index into it, and the save structs built so far |
| `fetch` | the `FindByID` in progress, which holds `repo.mu`: `answered` holds the GET's answer, `decided` the merged values |
| `lastWrite` | history variable: the last installationStatus written locally to each server |

| Action | Code |
|---|---|
| `FetchStart`, `FetchFails` | `ServerRepository.FindByID`'s test (not cached, or TTL passed and not modified), then the GET of `apiServerRepo.FindByID` answering or failing |
| `FetchNew` | `domain.NewServer` for a server not cached |
| `FetchDecide` | the two `IsValueModified` checks (283, 289) |
| `FetchSet` | `server.Set` (295) and the stores of lines 118-126. It is a separate step from `FetchDecide` because each takes the Server lock on its own. |
| `Expire` | the 10 s TTL passing |
| `Write` | a command setting a status field, which marks it modified. This is from spec section 2, because the domain package is not in `src/`. |
| `Save` | `ServerRepository.Save` under `repo.mu`, which enqueues the server |
| `FlushTake` | a scheduler tick: `q.Get()` or `q.GetN(BulkSize)` |
| `FlushSnap`, `FlushUnmark` | `saveStructFromServer` and then `UnmarkModifiedFlag`, for each server of the batch |
| `FlushSend` | the PUT or PATCH. It is applied by the API in order, or it fails. A failure is logged and the servers are not requeued. |

The CallScheduler's queue (the `limiter` package) is not in `src/`. Its FIFO order, threshold and batch size are modelled from spec 4.7 so that the repository's flush steps have the queue they run on. No property is stated about the queue's own order or progress: each would follow from those spec-modelled definitions, whatever the repository's code does.

Properties:

| Property | Kind | What it says |
|---|---|---|
| `TypeOK` | invariant | the type invariant |
| `DirtyUntilUploaded` | invariant | A local installationStatus the API lacks is still marked modified or on its way to the API. |
| `LocalWriteKept` | invariant | Until the API holds the daemon's last write, the daemon's copy keeps it (spec 2: local writes win until flushed). |
| `QuiescentActiveAgrees` | invariant | Once every save is flushed, the API's process_active agrees with the daemon's view. |

### 2.3 `WinSW.tla`

This module covers one server and the goroutines (`Callers`) that call the process manager for it. The environment is:

- the service file: absent, empty, or valid;
- the Windows service: installed or not, running or not.

winsw reads the file on every invocation. `Outcome(c)` gives the effect and exit code of each winsw command. Faults are bounded:

- an executor error;
- a non-zero exit with no effect;
- a config-build or `checkUser` failure;
- exit code 1053 on start.

| Action | Code |
|---|---|
| `Begin` | the entry of `Start`, `Restart`, `Stop` and `Status`, including `checkUser` and Status's `os.Stat` |
| `MakeServiceOpen` | the `OpenFile` of `makeService`: O_CREATE for a new file, O_TRUNC for an existing one |
| `MakeServiceWrite` | `buildServiceConfig` and the write. Install if the file is new, refresh if not. |
| `Exec` | `runWinSWCommand`. Every branch step after it reads its exit code and error. |
| `AfterInstall`, `AfterRefresh`, `AfterFallback`, `AfterCommand` | the branches of `command`, including the install fallback when refresh fails |
| `FixInstall`, `FixCheck`, `RetryDone` | `tryFixReinstallService` and the second start |
| `StopUninstall`, `StopRemove` | the rest of `Stop`, which ignores exit codes and only logs a failed `os.Remove` |
| `StatusDone` | Status's exit-code mapping |

Properties:

| Property | Kind | What it says |
|---|---|---|
| `StartSuccessMeansRunning` | action property | Start and Restart return success only when the service is then installed and running. |
| `InstalledHasValidFile` | invariant | Between calls, an installed service has a valid file. |

## 3. Runs

The scheduler runs use `MC_TaskManager.tla`, the repository runs `MC_ServerRepository.tla` and the process-manager runs `MC_WinSW.tla`.

| Run | Instance | Expect | Shows |
|---|---|---|---|
| `safety` | 5 tasks, one of each kind; chains 1→2 and 3→5; 1 crash; no save failures | pass (about 1.7M states, 1 min) | WorkingHasCommand, SuccessMeansCommandSucceeded, NoOrphanWorking, DependencyHonored and TypeOK hold under every interleaving, including a Pause panic and a crash. |
| `liveness` | 4 tasks (Execute, Reinstall, Pause, Invalid; 2 after 1); 1 crash | pass | Under the fairness below, every task settles. |
| `apifail` | 3 tasks (Execute, Reinstall, Game; 2 after 1); 1 crash; 1 failed fetch or Save | pass (about 290k states) | `LiveCommandKeepsTask` holds when a save or the recovery fetch fails. A failed Save of Working leaves the task Waiting at the control plane, so every poll returns it while its command runs. `queue.Insert`'s check against the queue is what keeps it from being handed out again. |
| `terminal` | 3 tasks | violation | A stale poll re-executes a finished task, and Success becomes Working. |
| `reinstall` | Game, Reinstall, Game | violation | A successful Reinstall is reported Error (SetComplete before SetResult). |
| `stats` | 3 tasks | violation | The goroutine's failTask leaks the `commandsInProgress` entry. |
| `savefail` | 3 tasks, 1 save failure | violation | After a restart, the recovery Save of a task left Working fails (`task_manager.go:130`). The task stays Working at the control plane and in no queue. The final Save after `queue.Remove` (176) has the same gap: TLC finds it in 9 states once the recovery steps cannot fail. |
| `flush` | 2 servers, 2 writes, 1 failed request; threshold 1, batch 2 | pass (about 220k states) | `TypeOK` holds for every interleaving of commands, refetches, merges and ticks, on both the single and the bulk path. The run fires every action of the repository model. |
| `putfail` | 1 server, 2 writes, 1 failed request | violation | `UnmarkModifiedFlag` runs before the PUT. When the PUT fails, the written installationStatus is neither marked nor queued, and the next refetch drops it. The same early unmark with a reliable API lets a refetch slip in before the PUT lands. With two writes, a write can also land between `saveStructFromServer` and the unmark (hazard at line 387). |
| `mergerace` | 1 server, 2 writes | violation | A command's write between the merge's `IsValueModified` check and `server.Set` is overwritten by the API's old value. |
| `winsw` | 1 caller, 4 calls, one of each fault | pass (about 16k states) | Start and Restart report success only for a running service, through the install fallback and the 1053 reinstall retry. |
| `truncate` | 1 caller, 1 build failure | violation | A Start whose config build fails truncates the file of an installed service and leaves it empty. |

The violations are recorded as findings in `PROJECT.json`.

Two further violations were found with TLC and are kept as hazards rather than runs, because of the cap of 12 runs:

- `QuiescentActiveAgrees` fails in a 9-state trace. `saveStructFromServer` always sends process_active, and it is 0 unless status is modified.
- `InstalledHasValidFile` fails with one non-zero uninstall. Stop removes the file whatever uninstall returned.

Why the bounds are enough:

- Five tasks hold every kind at once and two dependency chains.
- One crash reaches recovery with tasks in every phase.
- One save failure is enough to exhibit each partial-failure path.
- It also fires `RecoverFetchFails`.
- In the repository runs, two servers and two writes are enough to mix servers in a batch, to put a write inside each race window, and to take both the single and the bulk path. The shortest counterexamples have 8 or 9 states.
- In WinSW, four calls reach install, refresh, the fallback and the reinstall retry. One caller is used: concurrent calls for one server depend on the Windows share mode of `os.Remove` on an open file, which is outside this repository.
- The WinSW runs set `CHECK_DEADLOCK FALSE`, because the caller stops once `MaxOps` calls are made.

### Fairness

`FairSpec` puts weak fairness on these steps, because each happens whenever it is enabled:

- the worker step: a 100 ms ticker in `RunWorker`;
- the poller: the `Run` loop;
- the recovery step;
- each step of a started command goroutine.

Crashes and API failures get no fairness, because nothing forces them.

A consequence is the assumption that every command eventually returns. The code has no timeout, so a hung executor would hang its task (see the hazards).

The repository runs check only invariants, so `ServerRepository` has no fairness.

### Mutants

Each property of a passing run is broken by a plausible slip in the code it is about. `PROJECT.json` lists them:

- a Remove that leaves a hole in the queue;
- waiting only on a Waiting predecessor;
- a missing `commandsInProgress.Store`;
- treating every non-error result as success;
- a removal without Save;
- a goroutine that only logs its error;
- a `queue.Insert` that adds every fetched task, queued or not;
- expiry that evicts the server from the cache;
- an executor error returned as the raw result;
- a reinstall that returns success without the second start.

## 4. Proofs (checked by `tlapm`)

The scheduler proofs are in `TaskManagerProofs.tla`. They hold for every finite set of tasks and every bound, and assume only `TaskManagerAssumption`.

- **`TypeCorrect`: `Spec => []TypeOK`.** `TypeOK` is inductive. The proof has one lemma per group of steps (recovery and poll, worker, goroutine).
  - Its lemmas on the queue show that these keep the queue in `Seq(Tasks)`: `Rotate` (`taskQueue.Next`), `SwapRemove` (`taskQueue.Remove`), and appending any order of the fetched set (`SetToSeqs`).
  - The Insert lemma needs the finiteness of `Tasks`, which gives a finite fetched set and a natural cardinality.
- **`CommandRegistered`: `Spec => []WorkingHasCommand`.** The invariant alone is not inductive; it needs the type of `status` and `inProgress`. The inductive invariant is `IInvCommand == TypeOK /\ WorkingHasCommand`. The argument:
  - only `executeTask` makes an object Working, and it stores the command in the same step;
  - `proceedTask` deletes the command only in the step that removes the task;
  - the goroutine's failTask only moves Working to Error;
  - a crash clears both.

The remaining scheduler invariants are proved in `TaskManagerReliableProofs.tla`, under the hypothesis `ReliableApi == MaxApiFailures = 0`: every `repository.Save` succeeds. The hypothesis is part of the result. Once a save may fail, TLC finds counterexamples to all three. `savefail` shows this for `NoOrphanWorking`, and the `apifail` instance with one failed save violates `SuccessMeansCommandSucceeded` when TLC checks it there. The same instance also violates the action property `DependencyHonored`: a failed Save of Working leaves the predecessor Waiting at the control plane while its command has already been started.

- **`SuccessReported`: `Spec => []SuccessMeansCommandSucceeded`.**
- **`NoOrphan`: `Spec => []NoOrphanWorking`.**
- **`DependencyOrder`: `Spec => []DependencyHonored`.**

All three follow from one inductive invariant, `IInvReliable == TypeOK /\ WorkingHasCommand /\ QueueInv /\ OutcomeInv /\ PredInv`. Each conjunct is there because the properties alone are not inductive:

- `QueueInv` relates the queue, the in-memory statuses and the control plane. Memory is empty between a crash and recovery, and every in-memory task is queued. A task the daemon made Working is Working at the control plane. Once recovery has run, every task the control plane holds as Working is such a task. This is what `NoOrphanWorking` needs.
- `OutcomeInv` follows a command object. A running command belongs to a Working task and has no result. A commandList between `SetComplete` and `SetResult`, and any result equal to `SuccessResult`, come from a command that succeeded. `proceedTask` therefore saves Success only after success.
- `PredInv` says that a queued task whose `RunAfter` predecessor is still Waiting has that predecessor in the queue. For a task of the pending poll answer, the predecessor is in the answer or in the queue. `shouldTaskWaitForAnotherToComplete` only looks at the queue, and this conjunct is why that is enough.

The lemmas on `Range` of the queue (`RotateRange`, `SwapRemoveRange`, `SetToSeqsRange`, `ConcatRange`, `HeadRange`) show which ids each queue operation keeps.

`TaskManagerLiveProofs.tla` proves **`LiveTaskKept`: `Spec => []LiveCommandKeepsTask`** for every instance, including every bound on failed saves. The property alone is not inductive. The inductive invariant `IInvLive` adds three things:

- `TypeOK`;
- `WorkingHasCommand`, which rules out `proceedTask`'s missing-command branch for a live command;
- `RunningIncomplete`: a command inside Execute has not completed, so `proceedTask` never removes its task.

The argument runs over the steps:

- `executeTask` starts a command only for a Waiting head, which has no live command.
- `queue.Insert` adds only ids that are not queued, and a live command's task is queued.
- Each branch of `runNext` that removes the head does so only once the command is complete or failed, and `Detach` ends what is left of it.
- The range lemmas of `TaskManagerReliableProofs` show which ids each queue operation keeps.

`ServerRepositoryProofs.tla` proves **`TypeCorrect`: `Spec => []TypeOK`** for the repository, under the hypothesis `Servers # {}`. `IdleFetch` names its idle server with `CHOOSE s \in Servers : TRUE`, which is a server only when there is one. The inductive invariant `IInvType` adds what the steps need to `TypeOK`:

- the phases of the flush and of the fetch;
- that a batch index in the `snap` and `unmark` phases is within the batch;
- that a decided fetch is of a cached server.

`MaxOfBounded` shows that the write counter stays a natural number. It gets the maximum of a finite set of naturals from the well-founded order on `Nat` (`WFMin`), with no induction.

`WinSWProofs.tla` proves two theorems about the process manager:

- **`TypeCorrect`: `Spec => []TypeOK`.** The result of every WinSW command is typed (`OutcomeTyped`), and so is every step.
- **`StartSuccessSingleCaller`: with one caller, `Spec => StartSuccessMeansRunning`.** The inductive invariant `StartIInv` is `TypeOK` with three facts for the caller:
  - the stage of the call matches its operation: Start and Restart are in the start stages;
  - a branch awaiting a command result ran the command it expects: the operation itself, or `start` for the 1053 retry;
  - a successful result read after a command or the retry means the service is installed and running.

  Only the last fact needs the single caller, because another caller's steps change `installed` and `running`. With two callers, TLC finds a counterexample: a second caller's Stop runs between the first caller's `start` and the read of its result. The `winsw` run uses one caller for the reason given in section 3.

`Outcome`, `AfterRefresh` and `AfterCommand` are written as IF/ELSE chains in the order the code tests its conditions. A CASE with overlapping guards would leave the value unspecified for the prover, while TLC takes the first guard that holds.

Left to TLC:

- The liveness property `AllTasksSettle`. Liveness, and anything that uses ENABLED, are beyond TLAPS.
- The scheduler when saves fail. Of the properties above, only `TypeOK`, `WorkingHasCommand` and `LiveCommandKeepsTask` still hold then. All three are proved for every instance, and the `apifail` run checks `LiveCommandKeepsTask`.
- `StartSuccessMeansRunning` with several callers, which does not hold, as above.

## 5. Not modelled, and why

These parts change no state, or nothing in them runs concurrently:

- `builder.go` only wires objects at start-up;
- `config/loader.go` only parses;
- the string substitution of `makeFullCommand`;
- the XML of `buildServiceConfig`, reduced to valid or failed;
- `WinSW.GetOutput` and `SendInput`;
- `apiServerRepo.IDs`.

The executor and the domain package are not in `src/`. Their effect appears as nondeterministic exit codes and errors, and as the dirty flags, from spec section 2.

`defaultRestartServer` and task output (`appendTaskOutput` and the restart command's buffer swap) are not modelled yet. Their ordering hazards (`task_manager.go:291`, `part_003:42`) stay without a property.

The functional tests are not modelled: they exercise the same code through the API.
