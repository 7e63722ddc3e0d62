----------------------- MODULE TaskManagerLiveProofs -----------------------
(***************************************************************************)
(* Proof that a task whose command is still live stays queued as the     *)
(* Working object the daemon started, for every finite set of tasks,     *)
(* every RunAfter relation, every crash bound and every bound on failed   *)
(* saves: no poll hands a running task out again, even while a failed    *)
(* Save of Working leaves it Waiting at the control plane.                *)
(***************************************************************************)
EXTENDS TaskManagerReliableProofs

\* The phases in which a command's goroutine can still act on its task.
LivePhases == {"Running", "SetResult", "Failing"}

\* A command inside Execute has not completed yet.
RunningIncomplete ==
    \A t \in Tasks : cmd[t].phase = "Running" => ~cmd[t].complete

\* The inductive invariant: the type, the registry of commands, the
\* property itself and RunningIncomplete, which shows that proceedTask
\* never removes a task whose command is inside Execute.
IInvLive ==
    /\ TypeOK
    /\ WorkingHasCommand
    /\ LiveCommandKeepsTask
    /\ RunningIncomplete

LEMMA InitLive == Init => IInvLive
BY InitType DEF Init, IInvLive, WorkingHasCommand, LiveCommandKeepsTask,
   RunningIncomplete, IdleCmd, NoTask

\* A live command belongs to a Working task.
LEMMA LiveIsWorking ==
    ASSUME IInvLive, NEW t \in Tasks, status[t] # "Working"
    PROVE  cmd[t].phase \notin LivePhases
BY DEF IInvLive, LiveCommandKeepsTask, LivePhases

\* The worker removes its head t: t's command is no longer live after the
\* step, every other task keeps its command and status, and the other
\* queued ids stay queued.
LEMMA RemoveHeadLive ==
    ASSUME IInvLive, queue # <<>>,
           NEW t \in Tasks, t = Head(queue),
           queue' = SwapRemove(Rotate(queue), t),
           status' = [status EXCEPT ![t] = NoTask],
           cmd'[t].phase \notin LivePhases,
           cmd'[t].phase = "Running" => ~cmd'[t].complete,
           \A u \in Tasks \ {t} : cmd'[u] = cmd[u]
    PROVE  LiveCommandKeepsTask' /\ RunningIncomplete'
<1>1. Range(queue) \ {t} \subseteq Range(queue')
    BY HeadRange DEF IInvLive
<1>. QED
    BY <1>1 DEF IInvLive, LiveCommandKeepsTask, RunningIncomplete,
       LivePhases, TypeOK, NoTask

\* A step of the worker keeps the invariant: executeTask starts the
\* command of a Waiting head, and every branch that removes the head does
\* so only when its command is no longer live.
LEMMA LiveRunNext ==
    ASSUME IInvLive, RunNext
    PROVE  LiveCommandKeepsTask' /\ RunningIncomplete'
<1>. DEFINE t == Head(queue)
<1>1. /\ queue # <<>> /\ t \in Tasks /\ t \in Range(queue)
      /\ Range(Rotate(queue)) = Range(queue)
    BY HeadRange DEF RunNext, IInvLive
<1>2. CASE WaitForPredecessor(t) \/ ProceedRunning(t)
    BY <1>1, <1>2 DEF WaitForPredecessor, ProceedRunning, IInvLive,
       LiveCommandKeepsTask, RunningIncomplete
<1>3. CASE ExecuteTask(t)
    <2>1. cmd[t].phase \notin LivePhases
        BY <1>1, <1>3, LiveIsWorking DEF ExecuteTask
    <2>2. /\ cmd'[t].phase = "Running" /\ ~cmd'[t].complete
          /\ status'[t] = "Working"
          /\ \A u \in Tasks \ {t} : cmd'[u] = cmd[u] /\ status'[u] = status[u]
        BY <1>1, <1>3 DEF ExecuteTask, IdleCmd, IInvLive, TypeOK
    <2>. QED
        BY <1>1, <1>3, <2>2 DEF ExecuteTask, IInvLive, LiveCommandKeepsTask,
           RunningIncomplete
<1>4. CASE ExecuteInvalidTask(t)
    <2>1. cmd[t].phase \notin LivePhases
        BY <1>1, <1>4, LiveIsWorking DEF ExecuteInvalidTask
    <2>. QED
        BY <1>1, <1>4, <2>1, RemoveHeadLive DEF ExecuteInvalidTask, LivePhases
<1>5. CASE ProceedComplete(t)
    <2>1. cmd[t].phase # "Running"
        BY <1>1, <1>5 DEF ProceedComplete, IInvLive, RunningIncomplete
    <2>2. /\ cmd'[t].phase \notin LivePhases
          /\ \A u \in Tasks \ {t} : cmd'[u] = cmd[u]
        BY <1>1, <1>5, <2>1 DEF ProceedComplete, Detach, LivePhases, IInvLive,
           TypeOK
    <2>. QED
        BY <1>1, <1>5, <2>2, RemoveHeadLive DEF ProceedComplete, LivePhases
<1>6. CASE ProceedMissing(t)
    BY <1>1, <1>6 DEF ProceedMissing, IInvLive, WorkingHasCommand
<1>7. CASE RemoveCompleted(t)
    <2>1. cmd[t].phase \notin LivePhases
        BY <1>1, <1>7, LiveIsWorking DEF RemoveCompleted, Terminal
    <2>2. /\ cmd'[t].phase \notin LivePhases
          /\ \A u \in Tasks \ {t} : cmd'[u] = cmd[u]
        BY <1>1, <1>7, <2>1 DEF RemoveCompleted, Detach, LivePhases, IInvLive,
           TypeOK
    <2>. QED
        BY <1>1, <1>7, <2>2, RemoveHeadLive DEF RemoveCompleted, LivePhases
<1>. QED
    BY <1>2, <1>3, <1>4, <1>5, <1>6, <1>7 DEF RunNext

\* A goroutine step: a command returning leaves Execute for good, and the
\* later steps only end the command.
LEMMA LiveGoroutine ==
    ASSUME IInvLive, NEW t \in Tasks,
           CommandReturns(t) \/ CommandSetsResult(t) \/ GoroutineFailsTask(t)
    PROVE  LiveCommandKeepsTask' /\ RunningIncomplete'
<1>. USE DEF IInvLive
<1>1. CASE CommandReturns(t)
    <2>1. /\ cmd[t].phase = "Running"
          /\ t \in Range(queue) /\ status[t] = "Working"
        BY <1>1 DEF CommandReturns, LiveCommandKeepsTask, LivePhases
    <2>2. UNCHANGED <<queue, status>>
        BY <1>1 DEF CommandReturns
    <2>3. \A u \in Tasks \ {t} : cmd'[u] = cmd[u]
        BY <1>1 DEF CommandReturns, TypeOK
    <2>4. cmd'[t].phase \in {"Done", "Failing", "SetResult"}
        <3>1. CASE TaskKind[t] \in {"Execute", "Game"}
            <4>. PICK r \in {SuccessResult, ErrorResult, UnknownResult} :
                     cmd' = [cmd EXCEPT ![t] =
                               [phase |-> IF r = UnknownResult THEN "Failing"
                                                               ELSE "Done",
                                complete |-> TRUE, result |-> r]]
                BY <1>1, <3>1 DEF CommandReturns
            <4>. QED
                BY DEF TypeOK
        <3>2. CASE TaskKind[t] = "Reinstall"
            BY <1>1, <3>2 DEF CommandReturns, TypeOK
        <3>. QED
            BY <1>1, <3>1, <3>2 DEF CommandReturns
    <2>. QED
        BY <2>1, <2>2, <2>3, <2>4 DEF LiveCommandKeepsTask, RunningIncomplete,
           LivePhases
<1>2. CASE CommandSetsResult(t) \/ GoroutineFailsTask(t)
    <2>1. /\ cmd'[t].phase = "Done"
          /\ \A u \in Tasks \ {t} : cmd'[u] = cmd[u]
          /\ UNCHANGED queue
          /\ \A u \in Tasks \ {t} : status'[u] = status[u]
        BY <1>2 DEF CommandSetsResult, GoroutineFailsTask, TypeOK
    <2>. QED
        BY <2>1 DEF LiveCommandKeepsTask, RunningIncomplete, LivePhases
<1>. QED
    BY <1>1, <1>2

\* Every step keeps the invariant.
LEMMA LiveStep ==
    IInvLive /\ [Next]_vars => IInvLive'
<1>. SUFFICES ASSUME IInvLive, [Next]_vars
              PROVE  IInvLive'
    OBVIOUS
<1>1. TypeOK' /\ WorkingHasCommand'
    BY NextType, CommandStep DEF IInvLive, IInvCommand
<1>2. LiveCommandKeepsTask' /\ RunningIncomplete'
    <2>1. CASE Recover \/ RecoverFetchFails \/ PollFetch
        BY <2>1 DEF Recover, RecoverFetchFails, PollFetch, IInvLive,
           LiveCommandKeepsTask, RunningIncomplete
    <2>2. CASE PollInsert
        <3>1. Range(queue) \subseteq Range(queue')
            BY <2>2, InsertRange DEF IInvLive
        <3>. QED
            BY <2>2, <3>1 DEF PollInsert, IInvLive, LiveCommandKeepsTask,
               RunningIncomplete
    <2>3. CASE Crash \/ \E t \in Tasks : NilCommandPanics(t)
        BY <2>3 DEF Crash, NilCommandPanics, Restarted, LiveCommandKeepsTask,
           RunningIncomplete, IdleCmd
    <2>4. CASE RunNext
        BY <2>4, LiveRunNext
    <2>5. CASE \E t \in Tasks : CommandReturns(t) \/ CommandSetsResult(t)
                                \/ GoroutineFailsTask(t)
        BY <2>5, LiveGoroutine
    <2>6. CASE UNCHANGED vars
        BY <2>6 DEF vars, IInvLive, LiveCommandKeepsTask, RunningIncomplete
    <2>. QED
        BY <2>1, <2>2, <2>3, <2>4, <2>5, <2>6 DEF Next
<1>. QED
    BY <1>1, <1>2 DEF IInvLive

(* For every set of tasks, RunAfter relation, crash bound and bound on    *)
(* failed saves: while a task's command is inside Execute, between        *)
(* commandList's SetComplete and SetResult, or on its way to failTask,    *)
(* the task is in the queue as the Working object executeTask made.       *)
(* queue.Insert skips queued ids and runNext removes a task only once its *)
(* command is complete or failed, so a poll that still sees the task     *)
(* Waiting at the control plane never hands it out a second time.        *)
THEOREM LiveTaskKept == Spec => []LiveCommandKeepsTask
<1>1. IInvLive => LiveCommandKeepsTask
    BY DEF IInvLive
<1>. QED
    BY InitLive, LiveStep, <1>1, PTL DEF Spec

=============================================================================
