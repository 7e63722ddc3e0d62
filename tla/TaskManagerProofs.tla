------------------------- MODULE TaskManagerProofs -------------------------
(***************************************************************************)
(* Proofs about the scheduler model of TaskManager, for every finite set  *)
(* of tasks and every bound: the type invariant, and that a task whose    *)
(* in-memory object is Working always has its command registered in       *)
(* commandsInProgress.                                                    *)
(***************************************************************************)
EXTENDS TaskManager, TLAPS, SequenceTheorems, FiniteSetTheorems

-----------------------------------------------------------------------------
(* Lemmas on the queue operations of taskQueue.                            *)

\* taskQueue.Next keeps the queue a sequence of task ids.
LEMMA RotateType ==
    ASSUME NEW q \in Seq(Tasks), q # <<>>
    PROVE  Rotate(q) \in Seq(Tasks) /\ Rotate(q) # <<>>
<1>1. Head(q) \in Tasks /\ Tail(q) \in Seq(Tasks)
    BY HeadTailProperties
<1>2. Append(Tail(q), Head(q)) \in Seq(Tasks)
      /\ Append(Tail(q), Head(q)) # <<>>
    <2>1. \A s \in Seq(Tasks), e \in Tasks :
            Append(s, e) \in Seq(Tasks) /\ Append(s, e) # <<>>
        BY AppendProperties
    <2>. QED
        BY <1>1, <2>1
<1>. QED
    BY <1>2 DEF Rotate

\* taskQueue.Remove keeps the queue a sequence of task ids: every entry
\* left is an old entry or the moved last one.
LEMMA SwapRemoveType ==
    ASSUME NEW q \in Seq(Tasks), q # <<>>, NEW t
    PROVE  SwapRemove(q, t) \in Seq(Tasks)
<1>. DEFINE i == CHOOSE i \in DOMAIN q : q[i] = t
            r == [q EXCEPT ![i] = q[Len(q)]]
<1>1. Len(q) \in Nat \ {0} /\ DOMAIN q = 1..Len(q) /\ q \in [1..Len(q) -> Tasks]
    BY EmptySeq, LenProperties
<1>2. q[Len(q)] \in Tasks
    BY <1>1
<1>3. \A j \in 1..(Len(q) - 1) : r[j] \in Tasks
    BY <1>1, <1>2
<1>4. SubSeq(r, 1, Len(q) - 1) \in Seq(Tasks)
    BY <1>1, <1>3, SubSeqProperties
<1>. QED
    BY <1>4 DEF SwapRemove

\* Every order in which Insert may append the fetched tasks is a sequence
\* of task ids.
LEMMA SetToSeqsType ==
    ASSUME NEW S \in SUBSET Tasks
    PROVE  SetToSeqs(S) \subseteq Seq(Tasks)
<1>1. IsFiniteSet(S)
    BY FS_Subset, TaskManagerAssumption
<1>2. Cardinality(S) \in Nat
    BY <1>1, FS_CardinalityType
<1>3. [1..Cardinality(S) -> S] \subseteq Seq(Tasks)
    BY <1>2, SeqDef
<1>. QED
    BY <1>3 DEF SetToSeqs

\* The appended order keeps the queue a sequence of task ids.
LEMMA InsertType ==
    ASSUME NEW q \in Seq(Tasks), NEW S \in SUBSET Tasks,
           NEW order \in SetToSeqs(S)
    PROVE  q \o order \in Seq(Tasks)
BY SetToSeqsType, ConcatProperties

\* The failures charged by the recovery step are a natural number.
LEMMA LostCardinality ==
    ASSUME NEW S \in SUBSET Tasks
    PROVE  Cardinality(S) \in Nat
BY FS_Subset, FS_CardinalityType, TaskManagerAssumption

-----------------------------------------------------------------------------
(* Type correctness, one lemma per kind of step.                           *)

\* A save of one status keeps the stored statuses and the failure count
\* in their ranges.
LEMMA SaveToType ==
    ASSUME TypeOK, NEW t \in Tasks, NEW s \in Statuses, SaveTo(t, s)
    PROVE  api' \in [Tasks -> Statuses] /\ apiFailures' \in 0..MaxApiFailures
BY TaskManagerAssumption DEF TypeOK, SaveTo

\* Dropping the goroutine steps of a removed task keeps cmd typed.
LEMMA DetachType ==
    ASSUME TypeOK, NEW t \in Tasks, Detach(t)
    PROVE  cmd' \in [Tasks -> [phase : Phases, complete : BOOLEAN,
                          result : {UnknownResult, SuccessResult, ErrorResult}]]
BY DEF TypeOK, Detach, Phases

\* The recovery step, the poller and a crash keep the state typed.
LEMMA RecoverAndPollType ==
    ASSUME TypeOK, Recover \/ RecoverFetchFails \/ PollFetch \/ PollInsert
                   \/ Crash
    PROVE  TypeOK'
<1>1. CASE Recover
    <2>. PICK lost \in SUBSET {t \in Tasks : api[t] = "Working"} :
              /\ apiFailures + Cardinality(lost) <= MaxApiFailures
              /\ apiFailures' = apiFailures + Cardinality(lost)
              /\ api' = [t \in Tasks |->
                            IF t \in {u \in Tasks : api[u] = "Working"} \ lost
                            THEN "Error" ELSE api[t]]
        BY <1>1 DEF Recover
    <2>1. Cardinality(lost) \in Nat
        BY LostCardinality
    <2>. QED
        BY <1>1, <2>1 DEF Recover, TypeOK, Statuses
<1>2. CASE RecoverFetchFails
    BY <1>2, TaskManagerAssumption DEF RecoverFetchFails, TypeOK
<1>3. CASE PollFetch
    BY <1>3 DEF PollFetch, TypeOK
<1>4. CASE PollInsert
    <2>. DEFINE new == poll.tasks \ Range(queue)
    <2>1. new \in SUBSET Tasks
        BY DEF TypeOK
    <2>2. PICK order \in SetToSeqs(new) : queue' = queue \o order
        BY <1>4 DEF PollInsert
    <2>3. queue' \in Seq(Tasks)
        BY <2>1, <2>2, InsertType DEF TypeOK
    <2>. QED
        BY <1>4, <2>3 DEF PollInsert, TypeOK, NoPoll, Statuses
<1>5. CASE Crash
    BY <1>5, TaskManagerAssumption, EmptySeq
       DEF Crash, Restarted, TypeOK, IdleCmd, NoPoll, Phases,
           UnknownResult, SuccessResult, ErrorResult
<1>. QED
    BY <1>1, <1>2, <1>3, <1>4, <1>5

\* A removal at the head keeps the queue a sequence of task ids.
LEMMA RemoveHeadType ==
    ASSUME TypeOK, queue # <<>>, NEW t
    PROVE  SwapRemove(Rotate(queue), t) \in Seq(Tasks)
BY RotateType, SwapRemoveType DEF TypeOK

\* One tick of the worker keeps the state typed.
LEMMA RunNextType ==
    ASSUME TypeOK, RunNext
    PROVE  TypeOK'
<1>. DEFINE t == Head(queue)
<1>1. queue # <<>> /\ t \in Tasks
    BY HeadTailProperties DEF RunNext, TypeOK
<1>2. Rotate(queue) \in Seq(Tasks)
    BY <1>1, RotateType DEF TypeOK
<1>3. SwapRemove(Rotate(queue), t) \in Seq(Tasks)
    BY <1>1, RemoveHeadType
<1>4. CASE WaitForPredecessor(t)
    BY <1>2, <1>4 DEF WaitForPredecessor, TypeOK
<1>5. CASE ExecuteTask(t)
    <2>1. api' \in [Tasks -> Statuses] /\ apiFailures' \in 0..MaxApiFailures
        BY <1>1, <1>5, SaveToType DEF ExecuteTask, Statuses
    <2>. QED
        BY <1>1, <1>2, <1>5, <2>1
        DEF ExecuteTask, TypeOK, IdleCmd, Phases, Statuses, Outcomes
<1>6. CASE ExecuteInvalidTask(t)
    <2>1. api' \in [Tasks -> Statuses] /\ apiFailures' \in 0..MaxApiFailures
        BY <1>1, <1>6, TaskManagerAssumption
        DEF ExecuteInvalidTask, SaveTwice, TypeOK, Statuses
    <2>. QED
        BY <1>1, <1>3, <1>6, <2>1 DEF ExecuteInvalidTask, TypeOK, NoTask
<1>7. CASE ProceedRunning(t)
    BY <1>2, <1>7 DEF ProceedRunning, TypeOK
<1>8. CASE ProceedComplete(t)
    <2>1. api' \in [Tasks -> Statuses] /\ apiFailures' \in 0..MaxApiFailures
        <3>. DEFINE s == IF cmd[t].result = SuccessResult THEN "Success"
                         ELSE "Error"
        <3>1. s \in Statuses /\ SaveTo(t, s)
            BY <1>8 DEF ProceedComplete, Statuses
        <3>. QED
            BY <1>1, <3>1, SaveToType
    <2>2. cmd' \in [Tasks -> [phase : Phases, complete : BOOLEAN,
                          result : {UnknownResult, SuccessResult, ErrorResult}]]
        BY <1>1, <1>8, DetachType DEF ProceedComplete
    <2>. QED
        BY <1>1, <1>3, <1>8, <2>1, <2>2 DEF ProceedComplete, TypeOK, NoTask
<1>9. CASE ProceedMissing(t)
    <2>1. api' \in [Tasks -> Statuses] /\ apiFailures' \in 0..MaxApiFailures
        BY <1>1, <1>9, SaveToType DEF ProceedMissing, Statuses
    <2>2. cmd' \in [Tasks -> [phase : Phases, complete : BOOLEAN,
                          result : {UnknownResult, SuccessResult, ErrorResult}]]
        BY <1>1, <1>9, DetachType DEF ProceedMissing
    <2>. QED
        BY <1>1, <1>3, <1>9, <2>1, <2>2 DEF ProceedMissing, TypeOK, NoTask
<1>10. CASE RemoveCompleted(t)
    <2>1. api' \in [Tasks -> Statuses] /\ apiFailures' \in 0..MaxApiFailures
        <3>1. status[t] \in Statuses /\ SaveTo(t, status[t])
            BY <1>10 DEF RemoveCompleted, Terminal, Statuses
        <3>. QED
            BY <1>1, <3>1, SaveToType
    <2>2. cmd' \in [Tasks -> [phase : Phases, complete : BOOLEAN,
                          result : {UnknownResult, SuccessResult, ErrorResult}]]
        BY <1>1, <1>10, DetachType DEF RemoveCompleted
    <2>. QED
        BY <1>1, <1>3, <1>10, <2>1, <2>2 DEF RemoveCompleted, TypeOK, NoTask
<1>. QED
    BY <1>4, <1>5, <1>6, <1>7, <1>8, <1>9, <1>10 DEF RunNext

\* A step of a command goroutine keeps the state typed.
LEMMA GoroutineType ==
    ASSUME TypeOK, NEW t \in Tasks,
           CommandReturns(t) \/ CommandSetsResult(t) \/ GoroutineFailsTask(t)
           \/ NilCommandPanics(t)
    PROVE  TypeOK'
<1>1. CASE CommandReturns(t)
    <2>. DEFINE CmdType == [phase : Phases, complete : BOOLEAN,
                      result : {UnknownResult, SuccessResult, ErrorResult}]
    <2>0. UNCHANGED <<api, queue, status, inProgress, poll, proc,
                      crashes, apiFailures>>
        BY <1>1 DEF CommandReturns
    <2>1. CASE TaskKind[t] \in {"Execute", "Game"}
        <3>. PICK r \in {SuccessResult, ErrorResult, UnknownResult} :
                 /\ cmd' = [cmd EXCEPT ![t] =
                              [phase |-> IF r = UnknownResult THEN "Failing"
                                                              ELSE "Done",
                               complete |-> TRUE, result |-> r]]
                 /\ outcome' = [outcome EXCEPT ![t] =
                                  CASE r = SuccessResult -> "Ok"
                                    [] r = ErrorResult -> "Fail"
                                    [] OTHER -> "Err"]
            BY <1>1, <2>1 DEF CommandReturns
        <3>1. cmd' \in [Tasks -> CmdType]
            BY DEF TypeOK, Phases
        <3>2. outcome' \in [Tasks -> Outcomes]
            <4>1. (CASE r = SuccessResult -> "Ok"
                     [] r = ErrorResult -> "Fail"
                     [] OTHER -> "Err") \in Outcomes
                BY Zenon DEF Outcomes, SuccessResult, ErrorResult,
                             UnknownResult
            <4>. QED
                BY <4>1 DEF TypeOK
        <3>. QED
            BY <2>0, <3>1, <3>2 DEF TypeOK
    <2>2. CASE TaskKind[t] = "Reinstall"
        <3>0. cmd[t] \in CmdType
            BY DEF TypeOK
        <3>1. cmd' \in [Tasks -> CmdType]
            <4>1. CASE cmd' = [cmd EXCEPT ![t].phase = "SetResult",
                                          ![t].complete = TRUE]
                BY <3>0, <4>1 DEF TypeOK, Phases
            <4>2. CASE cmd' = [cmd EXCEPT ![t] = [phase |-> "Done",
                                 complete |-> TRUE, result |-> ErrorResult]]
                BY <4>2 DEF TypeOK, Phases
            <4>3. CASE cmd' = [cmd EXCEPT ![t].phase = "Failing"]
                BY <3>0, <4>3 DEF TypeOK, Phases
            <4>. QED
                BY <1>1, <2>2, <4>1, <4>2, <4>3 DEF CommandReturns
        <3>2. outcome' \in [Tasks -> Outcomes]
            BY <1>1, <2>2 DEF CommandReturns, TypeOK, Outcomes
        <3>. QED
            BY <2>0, <3>1, <3>2 DEF TypeOK
    <2>. QED
        BY <1>1, <2>1, <2>2 DEF CommandReturns
<1>2. CASE CommandSetsResult(t)
    BY <1>2 DEF CommandSetsResult, TypeOK, Phases,
               UnknownResult, SuccessResult, ErrorResult
<1>3. CASE GoroutineFailsTask(t)
    BY <1>3 DEF GoroutineFailsTask, TypeOK, Phases, Statuses
<1>4. CASE NilCommandPanics(t)
    BY <1>4, EmptySeq
       DEF NilCommandPanics, Restarted, TypeOK, IdleCmd, NoPoll, Phases,
           UnknownResult, SuccessResult, ErrorResult
<1>. QED
    BY <1>1, <1>2, <1>3, <1>4

\* The initial states are typed: the control plane may hold tasks Waiting
\* or left Working, and the daemon starts with empty memory.
LEMMA InitType ==
    Init => TypeOK
BY EmptySeq, TaskManagerAssumption
DEF Init, TypeOK, IdleCmd, NoPoll, Phases, Statuses, Outcomes,
    UnknownResult, SuccessResult, ErrorResult

\* Every step of the scheduler keeps the state typed.
LEMMA NextType ==
    TypeOK /\ [Next]_vars => TypeOK'
<1>. SUFFICES ASSUME TypeOK, [Next]_vars PROVE TypeOK'
    OBVIOUS
<1>1. CASE Next
    <2>1. CASE Recover \/ RecoverFetchFails \/ PollFetch \/ PollInsert \/ Crash
        BY <2>1, RecoverAndPollType
    <2>2. CASE RunNext
        BY <2>2, RunNextType
    <2>3. CASE \E t \in Tasks :
                  \/ CommandReturns(t)
                  \/ CommandSetsResult(t)
                  \/ GoroutineFailsTask(t)
                  \/ NilCommandPanics(t)
        BY <2>3, GoroutineType
    <2>. QED
        BY <1>1, <2>1, <2>2, <2>3 DEF Next
<1>2. CASE UNCHANGED vars
    BY <1>2 DEF vars, TypeOK
<1>. QED
    BY <1>1, <1>2

(* Type correctness of the scheduler (task_manager.go): whatever the       *)
(* interleaving of the poller, the worker, the command goroutines, API     *)
(* failures and crashes, the queue only holds task ids, the statuses the   *)
(* daemon saves are task statuses, and the failure and crash counts stay   *)
(* within their bounds.                                                    *)
THEOREM TypeCorrect == Spec => []TypeOK
BY InitType, NextType, PTL DEF Spec

-----------------------------------------------------------------------------
(* A Working task always has its command in commandsInProgress.           *)

\* The inductive invariant: the type invariant and the property itself.
IInvCommand == TypeOK /\ WorkingHasCommand

\* Only executeTask makes an object Working, and it stores the command in
\* the same step; proceedTask deletes the command only when it removes the
\* task; a crash clears both.
LEMMA CommandStep ==
    IInvCommand /\ [Next]_vars => WorkingHasCommand'
<1>. SUFFICES ASSUME TypeOK, WorkingHasCommand, [Next]_vars
              PROVE  WorkingHasCommand'
    BY DEF IInvCommand
<1>. USE DEF WorkingHasCommand
<1>1. CASE Recover \/ RecoverFetchFails \/ PollFetch
    BY <1>1 DEF Recover, RecoverFetchFails, PollFetch
<1>2. CASE PollInsert
    BY <1>2 DEF PollInsert, TypeOK
<1>3. CASE Crash
    BY <1>3 DEF Crash, Restarted, NoTask
<1>4. CASE RunNext
    <2>. DEFINE t == Head(queue)
    <2>1. t \in Tasks
        BY <1>4, HeadTailProperties DEF RunNext, TypeOK
    <2>2. CASE WaitForPredecessor(t) \/ ProceedRunning(t)
        BY <2>2 DEF WaitForPredecessor, ProceedRunning
    <2>3. CASE ExecuteTask(t)
        BY <2>1, <2>3 DEF ExecuteTask, TypeOK
    <2>4. CASE ExecuteInvalidTask(t)
        BY <2>1, <2>4 DEF ExecuteInvalidTask, TypeOK, NoTask
    <2>5. CASE ProceedComplete(t)
        BY <2>1, <2>5 DEF ProceedComplete, TypeOK, NoTask
    <2>6. CASE ProceedMissing(t) \/ RemoveCompleted(t)
        BY <2>1, <2>6 DEF ProceedMissing, RemoveCompleted, TypeOK, NoTask
    <2>. QED
        BY <1>4, <2>2, <2>3, <2>4, <2>5, <2>6 DEF RunNext
<1>5. ASSUME NEW t \in Tasks,
             CommandReturns(t) \/ CommandSetsResult(t) \/ GoroutineFailsTask(t)
             \/ NilCommandPanics(t)
      PROVE  WorkingHasCommand'
    <2>1. CASE CommandReturns(t) \/ CommandSetsResult(t)
        BY <2>1 DEF CommandReturns, CommandSetsResult
    <2>2. CASE GoroutineFailsTask(t)
        BY <2>2 DEF GoroutineFailsTask, TypeOK
    <2>3. CASE NilCommandPanics(t)
        BY <2>3 DEF NilCommandPanics, Restarted, NoTask
    <2>. QED
        BY <1>5, <2>1, <2>2, <2>3
<1>6. CASE UNCHANGED vars
    BY <1>6 DEF vars
<1>. QED
    BY <1>1, <1>2, <1>3, <1>4, <1>5, <1>6 DEF Next

(* Spec 8.6, for every set of tasks and every bound: an in-memory task     *)
(* that executeTask made Working keeps its command in commandsInProgress   *)
(* until proceedTask removes it, whatever the goroutines and the poller    *)
(* do in between, so proceedTask never finds a Working task without its    *)
(* command.                                                                *)
THEOREM CommandRegistered == Spec => []WorkingHasCommand
<1>1. Init => IInvCommand
    BY InitType DEF Init, IInvCommand, WorkingHasCommand, NoTask
<1>2. IInvCommand /\ [Next]_vars => IInvCommand'
    BY NextType, CommandStep DEF IInvCommand
<1>3. IInvCommand => WorkingHasCommand
    BY DEF IInvCommand
<1>. QED
    BY <1>1, <1>2, <1>3, PTL DEF Spec

=============================================================================
