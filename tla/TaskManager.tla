---------------------------- MODULE TaskManager ----------------------------
(***************************************************************************)
(* The daemon-task scheduler of gdaemon_scheduler/task_manager.go: the     *)
(* ingest loop that polls the control plane for waiting tasks, the worker  *)
(* loop that rotates the in-memory queue and runs one step of the head     *)
(* task, the goroutines that execute the commands, the crash of the        *)
(* daemon process and the recovery step at the start of Run.               *)
(*                                                                         *)
(* A task is its id.  Its command is abstracted to its completion          *)
(* protocol (IsComplete, Result, the error Execute returns); output is     *)
(* not modelled here.                                                      *)
(***************************************************************************)
EXTENDS Integers, Sequences, FiniteSets, SequencesExt

CONSTANTS
    Tasks,          \* ids of the daemon tasks the control plane holds
    RunAfter,       \* RunAfterID of each task, 0 = no predecessor
    TaskKind,       \* what the task asks for, see TaskKinds
    MaxCrashes,     \* bound on crashes of the daemon process
    MaxApiFailures  \* bound on API calls (task saves) that fail

(* Execute: GDTaskCommandExecute, run by executeCommand.                   *)
(* Game: a game-server verb whose command is a single command object.     *)
(* Reinstall: the verb the factory builds as a commandList.                *)
(* Pause: mapped to domain.Pause, for which LoadServerCommand returns nil. *)
(* Invalid: a task command missing from taskServerCommandMap.             *)
TaskKinds == {"Execute", "Game", "Reinstall", "Pause", "Invalid"}

ASSUME TaskManagerAssumption ==
    /\ Tasks \subseteq Nat \ {0}
    /\ IsFiniteSet(Tasks)
    /\ RunAfter \in [Tasks -> Tasks \cup {0}]
    \* the control plane creates a predecessor before its successor
    /\ \A t \in Tasks : RunAfter[t] < t
    /\ TaskKind \in [Tasks -> TaskKinds]
    /\ MaxCrashes \in Nat
    /\ MaxApiFailures \in Nat

\* Command result codes of game_server_commands/commands.go.
UnknownResult == -1
SuccessResult == 0
ErrorResult == 1

Statuses == {"Waiting", "Working", "Success", "Error"}
Terminal == {"Success", "Error"}
NoTask == "None"
NoPoll == [pending |-> FALSE, tasks |-> {}]

\* Phases of the goroutine that runs a command: not started, inside
\* Execute, between commandList's SetComplete and SetResult, after an
\* error return and before its failTask, finished.
Phases == {"Idle", "Running", "SetResult", "Failing", "Done"}
Outcomes == {"None", "Pending", "Ok", "Fail", "Err"}

IdleCmd == [phase |-> "Idle", complete |-> FALSE, result |-> UnknownResult]

VARIABLES
    api,         \* task status as stored by the control plane
    queue,       \* taskQueue.tasks, by id
    status,      \* status of the in-memory GDTask object, NoTask if none
    inProgress,  \* keys of commandsInProgress
    cmd,         \* the command object launched for each task
    poll,        \* the answer of FindByStatus(Waiting) not yet inserted
    proc,        \* "Recovering" until failWorkingTaskAfterRestart is done
    crashes,
    apiFailures,
    outcome      \* history: what the last command of each task produced

vars == <<api, queue, status, inProgress, cmd, poll, proc, crashes,
          apiFailures, outcome>>

-----------------------------------------------------------------------------
(* Helpers of the queue and the task repository.                           *)

\* taskQueue.Next: dequeue the head and insert it at the tail.
Rotate(q) == Append(Tail(q), Head(q))

\* Mutant of SwapRemove: the entry is cleared to nil instead of removed.
SwapRemoveNil(q, t) ==
    LET i == CHOOSE i \in DOMAIN q : q[i] = t
    IN  [q EXCEPT ![i] = 0]

\* taskQueue.Remove: overwrite the entry with the last one, drop the last.
SwapRemove(q, t) ==
    LET i == CHOOSE i \in DOMAIN q : q[i] = t
    IN  SubSeq([q EXCEPT ![i] = q[Len(q)]], 1, Len(q) - 1)

\* Mutant of ShouldWait: waits only while the predecessor is Waiting.
ShouldWaitStarted(t) ==
    /\ RunAfter[t] > 0
    /\ RunAfter[t] \in Range(queue)
    /\ status[RunAfter[t]] = "Waiting"

\* shouldTaskWaitForAnotherToComplete.
ShouldWait(t) ==
    /\ RunAfter[t] > 0
    /\ RunAfter[t] \in Range(queue)
    /\ status[RunAfter[t]] \notin Terminal

\* repository.Save of one status; the error is only logged.
SaveTo(t, s) ==
    \/ /\ api' = [api EXCEPT ![t] = s]
       /\ UNCHANGED apiFailures
    \/ /\ apiFailures < MaxApiFailures
       /\ apiFailures' = apiFailures + 1
       /\ UNCHANGED api

\* Two saves in one step: the later one that lands is what the API keeps.
SaveTwice(t, first, second) ==
    \E okFirst, okSecond \in BOOLEAN :
        LET fails == (IF okFirst THEN 0 ELSE 1) + (IF okSecond THEN 0 ELSE 1)
        IN  /\ apiFailures + fails <= MaxApiFailures
            /\ apiFailures' = apiFailures + fails
            /\ api' = IF okSecond THEN [api EXCEPT ![t] = second]
                      ELSE IF okFirst THEN [api EXCEPT ![t] = first]
                      ELSE api

\* The goroutine of a removed task only touches its discarded GDTask
\* object and its output, so its remaining steps are dropped.
Detach(t) ==
    cmd' = [cmd EXCEPT ![t].phase =
                IF @ \in {"SetResult", "Failing"} THEN "Done" ELSE @]

-----------------------------------------------------------------------------
(* Mutants of the worker and goroutine steps below, each a plausible slip *)
(* in the code it replaces.                                               *)

\* executeTask without commandsInProgress.Store.
ExecuteTaskNoStore(t) ==
    /\ status[t] = "Waiting"
    /\ TaskKind[t] # "Invalid"
    /\ status' = [status EXCEPT ![t] = "Working"]
    /\ SaveTo(t, "Working")
    /\ UNCHANGED inProgress
    /\ cmd' = [cmd EXCEPT ![t] = [IdleCmd EXCEPT !.phase = "Running"]]
    /\ outcome' = [outcome EXCEPT ![t] = "Pending"]
    /\ queue' = Rotate(queue)
    /\ UNCHANGED <<poll, proc, crashes>>

\* proceedTask treating every result but ErrorResult as success.
ProceedCompleteNotError(t) ==
    /\ status[t] = "Working"
    /\ t \in inProgress
    /\ cmd[t].complete
    /\ inProgress' = inProgress \ {t}
    /\ SaveTo(t, IF cmd[t].result # ErrorResult THEN "Success" ELSE "Error")
    /\ status' = [status EXCEPT ![t] = NoTask]
    /\ queue' = SwapRemove(Rotate(queue), t)
    /\ Detach(t)
    /\ UNCHANGED <<poll, proc, crashes, outcome>>

\* runNext removing a task failed by its goroutine without saving it.
RemoveCompletedNoSave(t) ==
    /\ status[t] \in Terminal
    /\ status' = [status EXCEPT ![t] = NoTask]
    /\ queue' = SwapRemove(Rotate(queue), t)
    /\ Detach(t)
    /\ UNCHANGED <<api, apiFailures, inProgress, poll, proc, crashes, outcome>>

\* The goroutine's error path only logging, without failTask.
GoroutineLogsOnly(t) ==
    /\ proc = "Running"
    /\ cmd[t].phase = "Failing"
    /\ cmd' = [cmd EXCEPT ![t].phase = "Done"]
    /\ UNCHANGED <<api, queue, status, inProgress, poll, proc, crashes,
                   apiFailures, outcome>>

\* Mutant of PollInsert: every fetched task is inserted, queued or not.
PollInsertNoDedup ==
    /\ proc = "Running"
    /\ poll.pending
    /\ \E order \in SetToSeqs(poll.tasks) : queue' = queue \o order
    /\ status' = [t \in Tasks |-> IF t \in poll.tasks THEN "Waiting"
                                  ELSE status[t]]
    /\ poll' = NoPoll
    /\ UNCHANGED <<api, inProgress, cmd, proc, crashes, apiFailures, outcome>>

-----------------------------------------------------------------------------
Init ==
    \* tasks left Working by a previous daemon process
    /\ api \in [Tasks -> {"Waiting", "Working"}]
    /\ queue = <<>>
    /\ status = [t \in Tasks |-> NoTask]
    /\ inProgress = {}
    /\ cmd = [t \in Tasks |-> IdleCmd]
    /\ poll = NoPoll
    /\ proc = "Recovering"
    /\ crashes = 0
    /\ apiFailures = 0
    /\ outcome = [t \in Tasks |-> "None"]

(* failWorkingTaskAfterRestart: every task the API holds as Working is    *)
(* set to Error and saved; a save that fails leaves it Working.           *)
Recover ==
    /\ proc = "Recovering"
    /\ LET W == {t \in Tasks : api[t] = "Working"}
       IN  \E lost \in SUBSET W :
              /\ apiFailures + Cardinality(lost) <= MaxApiFailures
              /\ apiFailures' = apiFailures + Cardinality(lost)
              /\ api' = [t \in Tasks |->
                            IF t \in W \ lost THEN "Error" ELSE api[t]]
    /\ proc' = "Running"
    /\ UNCHANGED <<queue, status, inProgress, cmd, poll, crashes, outcome>>

(* failWorkingTaskAfterRestart when FindByStatus(Working) fails.          *)
RecoverFetchFails ==
    /\ proc = "Recovering"
    /\ apiFailures < MaxApiFailures
    /\ apiFailures' = apiFailures + 1
    /\ proc' = "Running"
    /\ UNCHANGED <<api, queue, status, inProgress, cmd, poll, crashes, outcome>>

(* updateTasksIfNeeded, first half: FindByStatus(Waiting) answers.        *)
PollFetch ==
    /\ proc = "Running"
    /\ ~poll.pending
    /\ poll' = [pending |-> TRUE, tasks |-> {t \in Tasks : api[t] = "Waiting"}]
    /\ UNCHANGED <<api, queue, status, inProgress, cmd, proc, crashes,
                   apiFailures, outcome>>

(* updateTasksIfNeeded, second half: queue.Insert of the fetched tasks as *)
(* fresh Waiting objects, skipping ids already queued, in API order.      *)
PollInsert ==
    /\ proc = "Running"
    /\ poll.pending
    /\ LET new == poll.tasks \ Range(queue)
       IN  /\ \E order \in SetToSeqs(new) : queue' = queue \o order
           /\ status' = [t \in Tasks |-> IF t \in new THEN "Waiting"
                                         ELSE status[t]]
    /\ poll' = NoPoll
    /\ UNCHANGED <<api, inProgress, cmd, proc, crashes, apiFailures, outcome>>

-----------------------------------------------------------------------------
(* RunWorker tick: runNext on the head of a non-empty queue.               *)

\* The dependency is not complete: the task only moves to the tail.
WaitForPredecessor(t) ==
    /\ ShouldWait(t)
    /\ queue' = Rotate(queue)
    /\ UNCHANGED <<api, status, inProgress, cmd, poll, proc, crashes,
                   apiFailures, outcome>>

\* executeTask + executeCommand / executeGameCommand: Working, saved,
\* command stored in commandsInProgress and started on a goroutine.
ExecuteTask(t) ==
    /\ status[t] = "Waiting"
    /\ TaskKind[t] # "Invalid"
    /\ status' = [status EXCEPT ![t] = "Working"]
    /\ SaveTo(t, "Working")
    /\ inProgress' = inProgress \cup {t}
    /\ cmd' = [cmd EXCEPT ![t] = [IdleCmd EXCEPT !.phase = "Running"]]
    /\ outcome' = [outcome EXCEPT ![t] = "Pending"]
    /\ queue' = Rotate(queue)
    /\ UNCHANGED <<poll, proc, crashes>>

\* executeGameCommand returns ErrInvalidTaskError: runNext fails the task,
\* removes it and saves it.
ExecuteInvalidTask(t) ==
    /\ status[t] = "Waiting"
    /\ TaskKind[t] = "Invalid"
    /\ status' = [status EXCEPT ![t] = NoTask]
    /\ SaveTwice(t, "Working", "Error")
    /\ queue' = SwapRemove(Rotate(queue), t)
    /\ UNCHANGED <<inProgress, cmd, poll, proc, crashes, outcome>>

\* proceedTask while the command is still running.
ProceedRunning(t) ==
    /\ status[t] = "Working"
    /\ t \in inProgress
    /\ ~cmd[t].complete
    /\ queue' = Rotate(queue)
    /\ UNCHANGED <<api, status, inProgress, cmd, poll, proc, crashes,
                   apiFailures, outcome>>

\* proceedTask on a complete command: delete it from commandsInProgress,
\* Success iff Result() = SuccessResult; then remove and save the task.
ProceedComplete(t) ==
    /\ status[t] = "Working"
    /\ t \in inProgress
    /\ cmd[t].complete
    /\ inProgress' = inProgress \ {t}
    /\ SaveTo(t, IF cmd[t].result = SuccessResult THEN "Success" ELSE "Error")
    /\ status' = [status EXCEPT ![t] = NoTask]
    /\ queue' = SwapRemove(Rotate(queue), t)
    /\ Detach(t)
    /\ UNCHANGED <<poll, proc, crashes, outcome>>

\* proceedTask finds no command: its error fails the task.
ProceedMissing(t) ==
    /\ status[t] = "Working"
    /\ t \notin inProgress
    /\ SaveTo(t, "Error")
    /\ status' = [status EXCEPT ![t] = NoTask]
    /\ queue' = SwapRemove(Rotate(queue), t)
    /\ Detach(t)
    /\ UNCHANGED <<inProgress, poll, proc, crashes, outcome>>

\* The task was failed by its command's goroutine: runNext only removes
\* and saves it.
RemoveCompleted(t) ==
    /\ status[t] \in Terminal
    /\ SaveTo(t, status[t])
    /\ status' = [status EXCEPT ![t] = NoTask]
    /\ queue' = SwapRemove(Rotate(queue), t)
    /\ Detach(t)
    /\ UNCHANGED <<inProgress, poll, proc, crashes, outcome>>

RunNext ==
    /\ proc = "Running"
    /\ queue # <<>>
    /\ LET t == Head(queue)
       IN  \/ WaitForPredecessor(t)
           \/ /\ ~ShouldWait(t)
              /\ \/ ExecuteTask(t)
                 \/ ExecuteInvalidTask(t)
                 \/ ProceedRunning(t)
                 \/ ProceedComplete(t)
                 \/ ProceedMissing(t)
                 \/ RemoveCompleted(t)

-----------------------------------------------------------------------------
(* The goroutine running a command.                                        *)

\* Execute returns.  executeCommand and a single game command set result
\* and complete, and return an error only with UnknownResult.
\* commandList: on success SetComplete comes before SetResult; on a
\* failing sub-command the result is set, then complete; on a sub-command
\* error it returns without completing.
CommandReturns(t) ==
    /\ proc = "Running"
    /\ cmd[t].phase = "Running"
    /\ TaskKind[t] # "Pause"
    /\ \/ /\ TaskKind[t] \in {"Execute", "Game"}
          /\ \E r \in {SuccessResult, ErrorResult, UnknownResult} :
               /\ cmd' = [cmd EXCEPT ![t] =
                            [phase |-> IF r = UnknownResult THEN "Failing"
                                                            ELSE "Done",
                             complete |-> TRUE, result |-> r]]
               /\ outcome' = [outcome EXCEPT ![t] =
                                CASE r = SuccessResult -> "Ok"
                                  [] r = ErrorResult -> "Fail"
                                  [] OTHER -> "Err"]
       \/ /\ TaskKind[t] = "Reinstall"
          /\ \/ /\ cmd' = [cmd EXCEPT ![t].phase = "SetResult",
                                      ![t].complete = TRUE]
                /\ outcome' = [outcome EXCEPT ![t] = "Ok"]
             \/ /\ cmd' = [cmd EXCEPT ![t] = [phase |-> "Done",
                              complete |-> TRUE, result |-> ErrorResult]]
                /\ outcome' = [outcome EXCEPT ![t] = "Fail"]
             \/ /\ cmd' = [cmd EXCEPT ![t].phase = "Failing"]
                /\ outcome' = [outcome EXCEPT ![t] = "Err"]
    /\ UNCHANGED <<api, queue, status, inProgress, poll, proc, crashes,
                   apiFailures>>

\* commandList: the SetResult(SuccessResult) after SetComplete.
CommandSetsResult(t) ==
    /\ proc = "Running"
    /\ cmd[t].phase = "SetResult"
    /\ cmd' = [cmd EXCEPT ![t].phase = "Done", ![t].result = SuccessResult]
    /\ UNCHANGED <<api, queue, status, inProgress, poll, proc, crashes,
                   apiFailures, outcome>>

\* After an error: appendTaskOutput, then failTask; SetStatus(Error) is
\* rejected when the worker already ended the task.
GoroutineFailsTask(t) ==
    /\ proc = "Running"
    /\ cmd[t].phase = "Failing"
    /\ cmd' = [cmd EXCEPT ![t].phase = "Done"]
    /\ status' = [status EXCEPT ![t] = IF @ = "Working" THEN "Error" ELSE @]
    /\ UNCHANGED <<api, queue, inProgress, poll, proc, crashes,
                   apiFailures, outcome>>

-----------------------------------------------------------------------------
(* The daemon process dies: memory is lost, the API keeps its statuses,   *)
(* and Run starts again with the recovery step.                           *)

Restarted ==
    /\ queue' = <<>>
    /\ status' = [t \in Tasks |-> NoTask]
    /\ inProgress' = {}
    /\ cmd' = [t \in Tasks |-> IdleCmd]
    /\ poll' = NoPoll
    /\ proc' = "Recovering"
    /\ UNCHANGED <<api, apiFailures, outcome>>

Crash ==
    /\ crashes < MaxCrashes
    /\ crashes' = crashes + 1
    /\ Restarted

\* The goroutine calls Execute on the nil command LoadServerCommand
\* returned for Pause: the panic ends the process.
NilCommandPanics(t) ==
    /\ proc = "Running"
    /\ cmd[t].phase = "Running"
    /\ TaskKind[t] = "Pause"
    /\ UNCHANGED crashes
    /\ Restarted

-----------------------------------------------------------------------------
Next ==
    \/ Recover
    \/ RecoverFetchFails
    \/ PollFetch
    \/ PollInsert
    \/ RunNext
    \/ \E t \in Tasks :
          \/ CommandReturns(t)
          \/ CommandSetsResult(t)
          \/ GoroutineFailsTask(t)
          \/ NilCommandPanics(t)
    \/ Crash

\* The worker ticks every 100 ms and the poller every UpdatePeriod; a
\* started goroutine runs on; only crashes and API failures are not forced.
Fairness ==
    /\ WF_vars(Recover)
    /\ WF_vars(PollFetch)
    /\ WF_vars(PollInsert)
    /\ WF_vars(RunNext)
    /\ \A t \in Tasks :
          /\ WF_vars(CommandReturns(t))
          /\ WF_vars(CommandSetsResult(t))
          /\ WF_vars(GoroutineFailsTask(t))
          /\ WF_vars(NilCommandPanics(t))

Spec == Init /\ [][Next]_vars
FairSpec == Spec /\ Fairness

-----------------------------------------------------------------------------
(* Properties.                                                             *)

TypeOK ==
    /\ api \in [Tasks -> Statuses]
    /\ queue \in Seq(Tasks)
    /\ status \in [Tasks -> Statuses \cup {NoTask}]
    /\ inProgress \subseteq Tasks
    /\ cmd \in [Tasks -> [phase : Phases, complete : BOOLEAN,
                          result : {UnknownResult, SuccessResult, ErrorResult}]]
    /\ poll \in [pending : BOOLEAN, tasks : SUBSET Tasks]
    /\ proc \in {"Recovering", "Running"}
    /\ crashes \in 0..MaxCrashes
    /\ apiFailures \in 0..MaxApiFailures
    /\ outcome \in [Tasks -> Outcomes]


(* Spec 8.6: a queued task whose GDTask object is Working has its command *)
(* in commandsInProgress, so proceedTask will find it and end the task.   *)
WorkingHasCommand ==
    \A t \in Tasks : status[t] = "Working" => t \in inProgress

(* The control plane sees Success for a task only if the command the      *)
(* daemon last ran for it succeeded (proceedTask's Result() check).       *)
SuccessMeansCommandSucceeded ==
    \A t \in Tasks : api[t] = "Success" => outcome[t] = "Ok"

(* After the recovery step of Run, every task the control plane holds as  *)
(* Working is in the queue, where the worker will end it: no task hangs   *)
(* in Working (spec 4.6, crash recovery).                                 *)
NoOrphanWorking ==
    proc = "Running" =>
        \A t \in Tasks : api[t] = "Working" => t \in Range(queue)

(* Spec 5, ordering guarantee 2: a task's command starts only when the    *)
(* command of its RunAfterID predecessor is not running and the           *)
(* predecessor has left Waiting at the control plane.                     *)
DependencyHonored ==
    [][\A t \in Tasks :
          (/\ RunAfter[t] # 0
           /\ cmd[t].phase # "Running"
           /\ cmd'[t].phase = "Running")
          => /\ cmd[RunAfter[t]].phase # "Running"
             /\ api[RunAfter[t]] # "Waiting"]_vars

(* Every task the control plane handed over ends Success or Error there   *)
(* and stays so (no task is lost or hangs in Working).                    *)
AllTasksSettle ==
    <>[](\A t \in Tasks : api[t] \in Terminal)

(* Spec 8.1: once the control plane holds a terminal status for a task,   *)
(* the daemon never changes it again.                                     *)
TerminalStatusStable ==
    [][\A t \in Tasks : api[t] \in Terminal => api'[t] = api[t]]_vars

(* A task is reported Error only if its command did not succeed.          *)
FailureMeansCommandFailed ==
    \A t \in Tasks : api[t] = "Error" => outcome[t] # "Ok"

(* Stats(): every key of commandsInProgress belongs to a task still in    *)
(* the queue, so WorkingCount <= queue.Len() and WaitingCount >= 0.       *)
StatsConsistent ==
    inProgress \subseteq Range(queue)

(* A task whose command is still live (inside Execute, between            *)
(* commandList's SetComplete and SetResult, or on its way to failTask)    *)
(* stays queued as the object the daemon made Working: no poll hands it   *)
(* out again as a fresh Waiting task, although a failed Save of Working   *)
(* leaves it Waiting at the control plane, where every poll returns it    *)
(* (queue.Insert's check against the queue, runNext's Remove only after  *)
(* completion).                                                           *)
LiveCommandKeepsTask ==
    \A t \in Tasks :
        cmd[t].phase \in {"Running", "SetResult", "Failing"} =>
            /\ t \in Range(queue)
            /\ status[t] = "Working"

=============================================================================
