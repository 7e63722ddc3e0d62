--------------------- MODULE TaskManagerReliableProofs ---------------------
(***************************************************************************)
(* Proofs about the scheduler of TaskManager when every save to the       *)
(* control plane succeeds (MaxApiFailures = 0), for every finite set of   *)
(* tasks, every RunAfter relation and every crash bound: the control      *)
(* plane reports Success only for a command that succeeded, no task is    *)
(* left Working outside the queue after recovery, and a command starts    *)
(* only after its RunAfter predecessor has left Waiting and is not        *)
(* running.  The runs apifail and savefail show that each of these fails  *)
(* once a save may fail, so the hypothesis is part of what is proved.     *)
(***************************************************************************)
EXTENDS TaskManagerProofs

\* Every call of repository.Save succeeds.
ReliableApi == MaxApiFailures = 0

-----------------------------------------------------------------------------
(* Lemmas on the set of ids a queue holds (Range, from Functions).        *)

\* taskQueue.Next moves the head to the tail: the same ids stay queued.
LEMMA RotateRange ==
    ASSUME NEW q \in Seq(Tasks), q # <<>>
    PROVE  Range(Rotate(q)) = Range(q)
<1>1. Len(q) \in Nat \ {0}
    BY EmptySeq
<1>2. Tail(q) \in Seq(Tasks) /\ Len(Tail(q)) = Len(q) - 1
      /\ \A i \in 1..Len(Tail(q)) : Tail(q)[i] = q[i + 1]
    BY <1>1, HeadTailProperties
<1>3. /\ Len(Rotate(q)) = Len(q) /\ Rotate(q)[Len(q)] = q[1]
      /\ \A i \in 1..(Len(q) - 1) : Rotate(q)[i] = q[i + 1]
      /\ DOMAIN Rotate(q) = 1..Len(q) /\ DOMAIN q = 1..Len(q)
    BY <1>1, <1>2, AppendProperties, LenProperties DEF Rotate
<1>5. ASSUME NEW k \in 1..Len(q) PROVE Rotate(q)[k] \in Range(q)
    <2>1. CASE k < Len(q)
        <3>1. k + 1 \in DOMAIN q /\ Rotate(q)[k] = q[k + 1]
            BY <1>1, <1>3, <2>1
        <3>. QED
            BY <3>1 DEF Range
    <2>2. CASE k = Len(q)
        BY <1>1, <1>3, <2>2 DEF Range
    <2>. QED
        BY <1>1, <2>1, <2>2
<1>6. ASSUME NEW j \in 1..Len(q) PROVE q[j] \in Range(Rotate(q))
    <2>1. CASE j = 1
        BY <1>1, <1>3, <2>1 DEF Range
    <2>2. CASE j > 1
        <3>1. j - 1 \in DOMAIN Rotate(q) /\ Rotate(q)[j - 1] = q[j]
            BY <1>1, <1>3, <2>2
        <3>. QED
            BY <3>1 DEF Range
    <2>. QED
        BY <1>1, <2>1, <2>2
<1>. QED
    BY <1>3, <1>5, <1>6 DEF Range

\* taskQueue.Remove of a queued id keeps every other queued id.
LEMMA SwapRemoveRange ==
    ASSUME NEW q \in Seq(Tasks), NEW t \in Range(q)
    PROVE  Range(q) \ {t} \subseteq Range(SwapRemove(q, t))
<1>. DEFINE i == CHOOSE i \in DOMAIN q : q[i] = t
            r == [q EXCEPT ![i] = q[Len(q)]]
            n == Len(q)
<1>1. n \in Nat /\ DOMAIN q = 1..n
    BY LenProperties
<1>2. i \in 1..n /\ q[i] = t
    BY <1>1 DEF Range
<1>3. SubSeq(r, 1, n - 1) = [k \in 1..(n - 1) |-> r[k]]
    BY <1>1
<1>4. SUFFICES ASSUME NEW j \in 1..n, q[j] # t
               PROVE  \E k \in 1..(n - 1) : r[k] = q[j]
    BY <1>1, <1>3 DEF SwapRemove, Range
<1>5. CASE j < n
    BY <1>1, <1>2, <1>4, <1>5
<1>6. CASE j = n
    BY <1>1, <1>2, <1>4, <1>6
<1>. QED
    BY <1>1, <1>5, <1>6

\* Insert appends an order of the fetched set that holds all of it.
LEMMA SetToSeqsRange ==
    ASSUME NEW S \in SUBSET Tasks, NEW order \in SetToSeqs(S)
    PROVE  Range(order) = S
<1>. DEFINE n == Cardinality(S)
<1>1. IsFiniteSet(S) /\ n \in Nat
    BY FS_Subset, FS_CardinalityType, TaskManagerAssumption
<1>2. order \in Injection(1..n, S)
    BY DEF SetToSeqs, Injection, IsInjective
<1>3. Cardinality(1..n) = n
    BY <1>1, FS_Interval
<1>4. order \in Surjection(1..n, S)
    BY <1>1, <1>2, <1>3, FS_Injection
<1>. QED
    BY <1>4 DEF Surjection, Range

\* The ids of a concatenation are those of both parts.
LEMMA ConcatRange ==
    ASSUME NEW q \in Seq(Tasks), NEW o \in Seq(Tasks)
    PROVE  Range(q \o o) = Range(q) \cup Range(o)
<1>1. Len(q) \in Nat /\ Len(o) \in Nat
      /\ DOMAIN q = 1..Len(q) /\ DOMAIN o = 1..Len(o)
    BY LenProperties
<1>2. /\ DOMAIN (q \o o) = 1..(Len(q) + Len(o))
      /\ \A k \in 1..(Len(q) + Len(o)) :
            (q \o o)[k] = IF k <= Len(q) THEN q[k] ELSE o[k - Len(q)]
    BY ConcatProperties, LenProperties
<1>3. Range(q \o o) \subseteq Range(q) \cup Range(o)
    BY <1>1, <1>2 DEF Range
<1>4. Range(q) \subseteq Range(q \o o)
    <2>. SUFFICES ASSUME NEW k \in 1..Len(q)
                  PROVE  \E m \in 1..(Len(q) + Len(o)) : (q \o o)[m] = q[k]
        BY <1>1, <1>2 DEF Range
    <2>. QED
        BY <1>1, <1>2
<1>5. Range(o) \subseteq Range(q \o o)
    <2>. SUFFICES ASSUME NEW k \in 1..Len(o)
                  PROVE  \E m \in 1..(Len(q) + Len(o)) : (q \o o)[m] = o[k]
        BY <1>1, <1>2 DEF Range
    <2>1. Len(q) + k \in 1..(Len(q) + Len(o)) /\ ~(Len(q) + k <= Len(q))
        BY <1>1
    <2>. QED
        BY <1>1, <1>2, <2>1
<1>. QED
    BY <1>3, <1>4, <1>5

\* taskQueue.Remove leaves only ids that were queued.
LEMMA SwapRemoveRangeSub ==
    ASSUME NEW q \in Seq(Tasks), NEW t \in Range(q)
    PROVE  Range(SwapRemove(q, t)) \subseteq Range(q)
<1>. DEFINE i == CHOOSE i \in DOMAIN q : q[i] = t
            r == [q EXCEPT ![i] = q[Len(q)]]
            n == Len(q)
<1>1. n \in Nat /\ DOMAIN q = 1..n
    BY LenProperties
<1>2. i \in 1..n
    BY <1>1 DEF Range
<1>3. SubSeq(r, 1, n - 1) = [k \in 1..(n - 1) |-> r[k]]
    BY <1>1
<1>4. \A k \in 1..(n - 1) : r[k] \in Range(q)
    BY <1>1, <1>2 DEF Range
<1>. QED
    BY <1>3, <1>4 DEF SwapRemove, Range

\* What one tick of the worker does to the ids in the queue: the head is
\* queued, rotation keeps every id, and a removal of the head keeps every
\* other id and adds none.
LEMMA HeadRange ==
    ASSUME TypeOK, queue # <<>>
    PROVE  LET t == Head(queue)
           IN  /\ t \in Tasks
               /\ t \in Range(queue)
               /\ Range(Rotate(queue)) = Range(queue)
               /\ Range(queue) \ {t}
                     \subseteq Range(SwapRemove(Rotate(queue), t))
               /\ Range(SwapRemove(Rotate(queue), t)) \subseteq Range(queue)
<1>. DEFINE t == Head(queue)
<1>1. queue \in Seq(Tasks)
    BY DEF TypeOK
<1>2. t \in Tasks /\ 1 \in DOMAIN queue
    BY <1>1, EmptySeq, LenProperties, HeadTailProperties
<1>3. t \in Range(queue)
    BY <1>2 DEF Range
<1>4. Range(Rotate(queue)) = Range(queue) /\ Rotate(queue) \in Seq(Tasks)
    BY <1>1, RotateRange, RotateType
<1>5. Range(queue) \ {t} \subseteq Range(SwapRemove(Rotate(queue), t))
    BY <1>3, <1>4, SwapRemoveRange
<1>6. Range(SwapRemove(Rotate(queue), t)) \subseteq Range(queue)
    BY <1>3, <1>4, SwapRemoveRangeSub
<1>. QED
    BY <1>2, <1>3, <1>4, <1>5, <1>6

-----------------------------------------------------------------------------
(* The inductive invariant.                                                *)

\* The queue and the statuses: after a crash memory is empty until the
\* recovery step; every in-memory task is queued; a task the daemon has
\* made Working (or its goroutine failed) is Working at the control plane
\* until the worker removes and saves it; and once recovery is done every
\* task the control plane holds as Working is such a task.
QueueInv ==
    /\ proc = "Recovering" => \A t \in Tasks : status[t] = NoTask
    /\ \A t \in Tasks :
          /\ status[t] # NoTask => t \in Range(queue)
          /\ status[t] \in {"Working", "Error"} => api[t] = "Working"
          /\ proc = "Running" /\ api[t] = "Working"
                => status[t] \in {"Working", "Error"}

\* The command objects and what they produced: a running command belongs
\* to a Working task and has no result yet; a commandList between
\* SetComplete and SetResult and a command whose result is SuccessResult
\* both come from a command that succeeded; an in-memory task is never
\* Success; and the control plane holds Success only after success.
OutcomeInv ==
    \A t \in Tasks :
        /\ cmd[t].phase = "Running" =>
              /\ status[t] = "Working"
              /\ ~cmd[t].complete
              /\ cmd[t].result = UnknownResult
        /\ cmd[t].phase = "SetResult" => outcome[t] = "Ok"
        /\ cmd[t].result = SuccessResult => outcome[t] = "Ok"
        /\ status[t] # "Success"
        /\ api[t] = "Success" => outcome[t] = "Ok"

\* RunAfter predecessors still Waiting at the control plane: a queued task
\* has its predecessor queued too, and a task of the pending poll answer
\* has it in that answer or in the queue.
PredInv ==
    \A t \in Tasks :
        /\ t \in Range(queue) /\ RunAfter[t] # 0
           /\ api[RunAfter[t]] = "Waiting"
              => RunAfter[t] \in Range(queue)
        /\ t \in poll.tasks /\ RunAfter[t] # 0
           /\ api[RunAfter[t]] = "Waiting"
              => RunAfter[t] \in poll.tasks \cup Range(queue)

IInvReliable ==
    /\ TypeOK
    /\ WorkingHasCommand
    /\ QueueInv
    /\ OutcomeInv
    /\ PredInv

-----------------------------------------------------------------------------
(* The saves of a step when the API never fails.                           *)

\* repository.Save always stores the status.
LEMMA SaveToReliable ==
    ASSUME ReliableApi, TypeOK, NEW t \in Tasks, NEW s, SaveTo(t, s)
    PROVE  api' = [api EXCEPT ![t] = s] /\ apiFailures' = apiFailures
BY DEF ReliableApi, TypeOK, SaveTo

\* executeTask's failed path stores Working, then Error.
LEMMA SaveTwiceReliable ==
    ASSUME ReliableApi, TypeOK, NEW t \in Tasks, NEW a, NEW b,
           SaveTwice(t, a, b)
    PROVE  api' = [api EXCEPT ![t] = b] /\ apiFailures' = apiFailures
BY DEF ReliableApi, TypeOK, SaveTwice

\* failWorkingTaskAfterRestart fails every task left Working.
LEMMA RecoverReliable ==
    ASSUME ReliableApi, TypeOK, Recover
    PROVE  api' = [t \in Tasks |-> IF api[t] = "Working" THEN "Error"
                                   ELSE api[t]]
<1>. PICK lost \in SUBSET {t \in Tasks : api[t] = "Working"} :
          /\ apiFailures + Cardinality(lost) <= MaxApiFailures
          /\ api' = [t \in Tasks |->
                        IF t \in {u \in Tasks : api[u] = "Working"} \ lost
                        THEN "Error" ELSE api[t]]
    BY DEF Recover
<1>1. IsFiniteSet(lost) /\ Cardinality(lost) \in Nat
    BY FS_Subset, FS_CardinalityType, TaskManagerAssumption
<1>2. Cardinality(lost) = 0
    BY <1>1 DEF ReliableApi, TypeOK
<1>3. lost = {}
    BY <1>1, <1>2, FS_EmptySet
<1>. QED
    BY <1>3

-----------------------------------------------------------------------------
(* QueueInv is preserved.                                                   *)

\* The initial states satisfy the inductive invariant: the daemon starts
\* recovering with empty memory and no poll answer.
LEMMA InitReliable ==
    Init => IInvReliable
<1>. SUFFICES ASSUME Init PROVE IInvReliable
    OBVIOUS
<1>1. TypeOK /\ WorkingHasCommand
    BY InitType DEF Init, WorkingHasCommand, NoTask
<1>2. QueueInv
    BY DEF Init, QueueInv, NoTask
<1>3. OutcomeInv
    BY DEF Init, OutcomeInv, IdleCmd, NoTask, UnknownResult, SuccessResult
<1>4. PredInv
    BY DEF Init, PredInv, NoPoll, Range
<1>. QED
    BY <1>1, <1>2, <1>3, <1>4 DEF IInvReliable

\* A step of the worker keeps QueueInv: executeTask makes the head Working
\* at both ends, and each removal of the head saves a terminal status.
LEMMA QueueRunNext ==
    ASSUME ReliableApi, IInvReliable, RunNext
    PROVE  QueueInv'
<1>. DEFINE t == Head(queue)
<1>. USE DEF IInvReliable
<1>1. /\ queue # <<>> /\ proc = "Running" /\ proc' = "Running"
      /\ t \in Tasks /\ t \in Range(queue)
      /\ Range(Rotate(queue)) = Range(queue)
      /\ Range(queue) \ {t} \subseteq Range(SwapRemove(Rotate(queue), t))
    BY HeadRange DEF RunNext, WaitForPredecessor, ExecuteTask,
       ExecuteInvalidTask, ProceedRunning, ProceedComplete, ProceedMissing,
       RemoveCompleted
<1>2. CASE WaitForPredecessor(t) \/ ProceedRunning(t)
    BY <1>1, <1>2 DEF WaitForPredecessor, ProceedRunning, QueueInv
<1>3. CASE ExecuteTask(t)
    <2>1. api' = [api EXCEPT ![t] = "Working"]
        BY <1>1, <1>3, SaveToReliable DEF ExecuteTask
    <2>. QED
        BY <1>1, <1>3, <2>1 DEF ExecuteTask, QueueInv, TypeOK
\* The head leaves memory and the queue with a terminal status saved.
<1>4. ASSUME NEW v \in Terminal,
             api' = [api EXCEPT ![t] = v],
             status' = [status EXCEPT ![t] = NoTask],
             queue' = SwapRemove(Rotate(queue), t),
             proc' = proc
      PROVE  QueueInv'
    BY <1>1, <1>4 DEF QueueInv, TypeOK, Terminal, NoTask
<1>5. CASE ExecuteInvalidTask(t)
    <2>1. api' = [api EXCEPT ![t] = "Error"]
        BY <1>1, <1>5, SaveTwiceReliable DEF ExecuteInvalidTask
    <2>. QED
        BY <1>4, <1>5, <2>1 DEF ExecuteInvalidTask, Terminal
<1>6. CASE ProceedComplete(t)
    <2>. DEFINE v == IF cmd[t].result = SuccessResult THEN "Success"
                     ELSE "Error"
    <2>1. api' = [api EXCEPT ![t] = v]
        BY <1>1, <1>6, SaveToReliable DEF ProceedComplete
    <2>. QED
        BY <1>4, <1>6, <2>1 DEF ProceedComplete, Terminal
<1>7. CASE ProceedMissing(t)
    <2>1. api' = [api EXCEPT ![t] = "Error"]
        BY <1>1, <1>7, SaveToReliable DEF ProceedMissing
    <2>. QED
        BY <1>4, <1>7, <2>1 DEF ProceedMissing, Terminal
<1>8. CASE RemoveCompleted(t)
    <2>1. api' = [api EXCEPT ![t] = status[t]] /\ status[t] \in Terminal
        BY <1>1, <1>8, SaveToReliable DEF RemoveCompleted
    <2>. QED
        BY <1>4, <1>8, <2>1 DEF RemoveCompleted
<1>. QED
    BY <1>2, <1>3, <1>5, <1>6, <1>7, <1>8 DEF RunNext

\* The queue after Insert holds the old queue and the new ids.
LEMMA InsertRange ==
    ASSUME TypeOK, PollInsert
    PROVE  Range(queue') = Range(queue) \cup (poll.tasks \ Range(queue))
<1>. DEFINE new == poll.tasks \ Range(queue)
<1>1. PICK order \in SetToSeqs(new) : queue' = queue \o order
    BY DEF PollInsert
<1>2. new \in SUBSET Tasks /\ queue \in Seq(Tasks)
    BY DEF TypeOK
<1>3. Range(order) = new /\ order \in Seq(Tasks)
    BY <1>2, SetToSeqsRange, SetToSeqsType
<1>. QED
    BY <1>1, <1>2, <1>3, ConcatRange

\* Every step keeps QueueInv.
LEMMA QueueStep ==
    ASSUME ReliableApi, IInvReliable, [Next]_vars
    PROVE  QueueInv'
<1>. USE DEF IInvReliable
<1>1. CASE Recover
    <2>1. api' = [t \in Tasks |-> IF api[t] = "Working" THEN "Error"
                                  ELSE api[t]]
        BY <1>1, RecoverReliable
    <2>. QED
        BY <1>1, <2>1 DEF Recover, QueueInv, NoTask
<1>2. CASE RecoverFetchFails
    BY <1>2 DEF RecoverFetchFails, ReliableApi, TypeOK
<1>3. CASE PollFetch
    BY <1>3 DEF PollFetch, QueueInv
<1>4. CASE PollInsert
    <2>. DEFINE new == poll.tasks \ Range(queue)
    <2>1. Range(queue') = Range(queue) \cup new
        BY <1>4, InsertRange
    <2>2. \A t \in new : status[t] = NoTask /\ api[t] # "Working"
        BY <1>4 DEF PollInsert, QueueInv, TypeOK, NoTask
    <2>. QED
        BY <1>4, <2>1, <2>2 DEF PollInsert, QueueInv, NoTask
<1>5. CASE Crash
    BY <1>5 DEF Crash, Restarted, QueueInv, NoTask
<1>6. CASE RunNext
    BY <1>6, QueueRunNext
<1>7. ASSUME NEW t \in Tasks,
             CommandReturns(t) \/ CommandSetsResult(t) \/ GoroutineFailsTask(t)
             \/ NilCommandPanics(t)
      PROVE  QueueInv'
    <2>1. CASE CommandReturns(t) \/ CommandSetsResult(t)
        BY <2>1 DEF CommandReturns, CommandSetsResult, QueueInv
    <2>2. CASE GoroutineFailsTask(t)
        BY <2>2 DEF GoroutineFailsTask, QueueInv, TypeOK, NoTask
    <2>3. CASE NilCommandPanics(t)
        BY <2>3 DEF NilCommandPanics, Restarted, QueueInv, NoTask
    <2>. QED
        BY <1>7, <2>1, <2>2, <2>3
<1>8. CASE UNCHANGED vars
    BY <1>8 DEF vars, QueueInv
<1>. QED
    BY <1>1, <1>2, <1>3, <1>4, <1>5, <1>6, <1>7, <1>8 DEF Next

-----------------------------------------------------------------------------
(* OutcomeInv is preserved.                                                 *)

\* A step of the worker keeps OutcomeInv: proceedTask saves Success only
\* for a complete command whose result is SuccessResult, and never for a
\* task a goroutine failed.
LEMMA OutcomeRunNext ==
    ASSUME ReliableApi, IInvReliable, RunNext
    PROVE  OutcomeInv'
<1>. DEFINE t == Head(queue)
<1>. USE DEF IInvReliable
<1>1. t \in Tasks
    BY HeadRange DEF RunNext
<1>2. CASE WaitForPredecessor(t) \/ ProceedRunning(t)
    BY <1>2 DEF WaitForPredecessor, ProceedRunning, OutcomeInv
<1>3. CASE ExecuteTask(t)
    <2>1. api' = [api EXCEPT ![t] = "Working"]
        BY <1>1, <1>3, SaveToReliable DEF ExecuteTask
    <2>. QED
        BY <1>1, <1>3, <2>1
        DEF ExecuteTask, OutcomeInv, TypeOK, IdleCmd, UnknownResult,
            SuccessResult
<1>4. CASE ExecuteInvalidTask(t)
    <2>1. api' = [api EXCEPT ![t] = "Error"]
        BY <1>1, <1>4, SaveTwiceReliable DEF ExecuteInvalidTask
    <2>. QED
        BY <1>1, <1>4, <2>1 DEF ExecuteInvalidTask, OutcomeInv, TypeOK,
           NoTask
<1>5. CASE ProceedComplete(t)
    <2>. DEFINE v == IF cmd[t].result = SuccessResult THEN "Success"
                     ELSE "Error"
    <2>1. api' = [api EXCEPT ![t] = v]
        BY <1>1, <1>5, SaveToReliable DEF ProceedComplete
    <2>2. v = "Success" => outcome[t] = "Ok"
        BY <1>1 DEF OutcomeInv
    <2>3. cmd[t].phase # "Running"
        BY <1>1, <1>5 DEF ProceedComplete, OutcomeInv
    <2>. QED
        BY <1>1, <1>5, <2>1, <2>2, <2>3
        DEF ProceedComplete, Detach, OutcomeInv, TypeOK, NoTask
<1>6. CASE ProceedMissing(t)
    BY <1>1, <1>6 DEF ProceedMissing, WorkingHasCommand
<1>7. CASE RemoveCompleted(t)
    <2>1. api' = [api EXCEPT ![t] = status[t]]
        BY <1>1, <1>7, SaveToReliable DEF RemoveCompleted
    <2>2. status[t] = "Error" /\ cmd[t].phase # "Running"
        BY <1>1, <1>7 DEF RemoveCompleted, OutcomeInv, Terminal
    <2>. QED
        BY <1>1, <1>7, <2>1, <2>2
        DEF RemoveCompleted, Detach, OutcomeInv, TypeOK, NoTask
<1>. QED
    BY <1>2, <1>3, <1>4, <1>5, <1>6, <1>7 DEF RunNext

\* A command returning records its outcome with the result it sets; while
\* it runs its task is Working at the control plane, never Success.
LEMMA OutcomeCommandReturns ==
    ASSUME IInvReliable, NEW t \in Tasks, CommandReturns(t)
    PROVE  OutcomeInv'
<1>. USE DEF IInvReliable
<1>1. /\ cmd[t].phase = "Running"
      /\ cmd[t].result = UnknownResult
      /\ api[t] = "Working"
    BY DEF CommandReturns, OutcomeInv, QueueInv
<1>2. UNCHANGED <<api, status>>
    BY DEF CommandReturns
<1>3. \A u \in Tasks \ {t} : cmd'[u] = cmd[u] /\ outcome'[u] = outcome[u]
    BY DEF CommandReturns, TypeOK
<1>4. /\ cmd'[t].phase # "Running"
      /\ cmd'[t].phase = "SetResult" => outcome'[t] = "Ok"
      /\ cmd'[t].result = SuccessResult => outcome'[t] = "Ok"
    <2>1. CASE TaskKind[t] \in {"Execute", "Game"}
        <3>. PICK r \in {SuccessResult, ErrorResult, UnknownResult} :
                 /\ cmd' = [cmd EXCEPT ![t] =
                              [phase |-> IF r = UnknownResult THEN "Failing"
                                                              ELSE "Done",
                               complete |-> TRUE, result |-> r]]
                 /\ outcome' = [outcome EXCEPT ![t] =
                                  CASE r = SuccessResult -> "Ok"
                                    [] r = ErrorResult -> "Fail"
                                    [] OTHER -> "Err"]
            BY <2>1 DEF CommandReturns
        <3>1. r = SuccessResult => outcome'[t] = "Ok"
            BY DEF TypeOK, SuccessResult, ErrorResult, UnknownResult
        <3>. QED
            BY <3>1 DEF TypeOK
    <2>2. CASE TaskKind[t] = "Reinstall"
        <3>1. CASE /\ cmd' = [cmd EXCEPT ![t].phase = "SetResult",
                                        ![t].complete = TRUE]
                   /\ outcome' = [outcome EXCEPT ![t] = "Ok"]
            BY <1>1, <3>1 DEF TypeOK
        <3>2. CASE /\ cmd' = [cmd EXCEPT ![t] = [phase |-> "Done",
                                 complete |-> TRUE, result |-> ErrorResult]]
                   /\ outcome' = [outcome EXCEPT ![t] = "Fail"]
            BY <3>2 DEF TypeOK, ErrorResult, SuccessResult
        <3>3. CASE /\ cmd' = [cmd EXCEPT ![t].phase = "Failing"]
                   /\ outcome' = [outcome EXCEPT ![t] = "Err"]
            BY <1>1, <3>3 DEF TypeOK, UnknownResult, SuccessResult
        <3>. QED
            BY <2>2, <3>1, <3>2, <3>3 DEF CommandReturns
    <2>. QED
        BY <2>1, <2>2 DEF CommandReturns
<1>. QED
    BY <1>1, <1>2, <1>3, <1>4 DEF OutcomeInv

\* Every step keeps OutcomeInv.
LEMMA OutcomeStep ==
    ASSUME ReliableApi, IInvReliable, [Next]_vars
    PROVE  OutcomeInv'
<1>. USE DEF IInvReliable
<1>1. CASE Recover
    <2>1. api' = [t \in Tasks |-> IF api[t] = "Working" THEN "Error"
                                  ELSE api[t]]
        BY <1>1, RecoverReliable
    <2>. QED
        BY <1>1, <2>1 DEF Recover, OutcomeInv
<1>2. CASE RecoverFetchFails
    BY <1>2 DEF RecoverFetchFails, ReliableApi, TypeOK
<1>3. CASE PollFetch
    BY <1>3 DEF PollFetch, OutcomeInv
<1>4. CASE PollInsert
    <2>1. \A t \in poll.tasks \ Range(queue) : cmd[t].phase # "Running"
        BY DEF OutcomeInv, QueueInv, NoTask, TypeOK
    <2>. QED
        BY <1>4, <2>1 DEF PollInsert, OutcomeInv
<1>5. CASE Crash
    BY <1>5 DEF Crash, Restarted, OutcomeInv, IdleCmd, NoTask,
               UnknownResult, SuccessResult
<1>6. CASE RunNext
    BY <1>6, OutcomeRunNext
<1>7. ASSUME NEW t \in Tasks,
             CommandReturns(t) \/ CommandSetsResult(t) \/ GoroutineFailsTask(t)
             \/ NilCommandPanics(t)
      PROVE  OutcomeInv'
    <2>1. CASE CommandReturns(t)
        BY <2>1, OutcomeCommandReturns
    <2>2. CASE CommandSetsResult(t)
        BY <2>2 DEF CommandSetsResult, OutcomeInv, TypeOK
    <2>3. CASE GoroutineFailsTask(t)
        BY <2>3 DEF GoroutineFailsTask, OutcomeInv, TypeOK
    <2>4. CASE NilCommandPanics(t)
        BY <2>4 DEF NilCommandPanics, Restarted, OutcomeInv, IdleCmd,
                   NoTask, UnknownResult, SuccessResult
    <2>. QED
        BY <1>7, <2>1, <2>2, <2>3, <2>4
<1>8. CASE UNCHANGED vars
    BY <1>8 DEF vars, OutcomeInv
<1>. QED
    BY <1>1, <1>2, <1>3, <1>4, <1>5, <1>6, <1>7, <1>8 DEF Next

-----------------------------------------------------------------------------
(* PredInv is preserved.                                                    *)

\* A step of the worker keeps PredInv: rotation keeps the queued ids, and
\* the head leaves the queue only with a terminal status saved, so a
\* predecessor still Waiting stays queued.
LEMMA PredRunNext ==
    ASSUME ReliableApi, IInvReliable, RunNext
    PROVE  PredInv'
<1>. DEFINE t == Head(queue)
<1>. USE DEF IInvReliable
<1>1. /\ t \in Tasks
      /\ Range(Rotate(queue)) = Range(queue)
      /\ Range(queue) \ {t} \subseteq Range(SwapRemove(Rotate(queue), t))
      /\ Range(SwapRemove(Rotate(queue), t)) \subseteq Range(queue)
    BY HeadRange DEF RunNext
<1>2. CASE WaitForPredecessor(t) \/ ProceedRunning(t)
    BY <1>1, <1>2 DEF WaitForPredecessor, ProceedRunning, PredInv
<1>3. CASE ExecuteTask(t)
    <2>1. api' = [api EXCEPT ![t] = "Working"]
        BY <1>1, <1>3, SaveToReliable DEF ExecuteTask
    <2>. QED
        BY <1>1, <1>3, <2>1 DEF ExecuteTask, PredInv, TypeOK
\* The head leaves the queue with a status other than Waiting saved.
<1>4. ASSUME NEW v, v # "Waiting",
             api' = [api EXCEPT ![t] = v],
             queue' = SwapRemove(Rotate(queue), t),
             poll' = poll
      PROVE  PredInv'
    <2>1. \A u \in Tasks : api'[u] = "Waiting" => u # t /\ api[u] = "Waiting"
        BY <1>1, <1>4 DEF TypeOK
    <2>2. \A u \in Tasks : RunAfter[u] # 0 => RunAfter[u] \in Tasks
        BY TaskManagerAssumption
    <2>. QED
        BY <1>1, <1>4, <2>1, <2>2 DEF PredInv
<1>5. CASE ExecuteInvalidTask(t)
    <2>1. api' = [api EXCEPT ![t] = "Error"]
        BY <1>1, <1>5, SaveTwiceReliable DEF ExecuteInvalidTask
    <2>. QED
        BY <1>4, <1>5, <2>1 DEF ExecuteInvalidTask
<1>6. CASE ProceedComplete(t)
    <2>. DEFINE v == IF cmd[t].result = SuccessResult THEN "Success"
                     ELSE "Error"
    <2>1. api' = [api EXCEPT ![t] = v]
        BY <1>1, <1>6, SaveToReliable DEF ProceedComplete
    <2>. QED
        BY <1>4, <1>6, <2>1 DEF ProceedComplete
<1>7. CASE ProceedMissing(t)
    <2>1. api' = [api EXCEPT ![t] = "Error"]
        BY <1>1, <1>7, SaveToReliable DEF ProceedMissing
    <2>. QED
        BY <1>4, <1>7, <2>1 DEF ProceedMissing
<1>8. CASE RemoveCompleted(t)
    <2>1. api' = [api EXCEPT ![t] = status[t]] /\ status[t] \in Terminal
        BY <1>1, <1>8, SaveToReliable DEF RemoveCompleted
    <2>. QED
        BY <1>4, <1>8, <2>1 DEF RemoveCompleted, Terminal
<1>. QED
    BY <1>2, <1>3, <1>5, <1>6, <1>7, <1>8 DEF RunNext

\* Every step keeps PredInv: FindByStatus(Waiting) answers every Waiting
\* task at once, and Insert queues all of the answer not yet queued.
LEMMA PredStep ==
    ASSUME ReliableApi, IInvReliable, [Next]_vars
    PROVE  PredInv'
<1>. USE DEF IInvReliable
<1>1. CASE Recover
    <2>1. api' = [t \in Tasks |-> IF api[t] = "Working" THEN "Error"
                                  ELSE api[t]]
        BY <1>1, RecoverReliable
    <2>2. \A u \in Tasks : RunAfter[u] # 0 => RunAfter[u] \in Tasks
        BY TaskManagerAssumption
    <2>. QED
        BY <1>1, <2>1, <2>2 DEF Recover, PredInv
<1>2. CASE RecoverFetchFails
    BY <1>2 DEF RecoverFetchFails, ReliableApi, TypeOK
<1>3. CASE PollFetch
    <2>1. \A u \in Tasks : RunAfter[u] # 0 => RunAfter[u] \in Tasks
        BY TaskManagerAssumption
    <2>. QED
        BY <1>3, <2>1 DEF PollFetch, PredInv
<1>4. CASE PollInsert
    <2>1. Range(queue') = Range(queue) \cup (poll.tasks \ Range(queue))
        BY <1>4, InsertRange
    <2>. QED
        BY <1>4, <2>1 DEF PollInsert, PredInv, NoPoll
<1>5. CASE Crash
    BY <1>5 DEF Crash, Restarted, PredInv, NoPoll, Range
<1>6. CASE RunNext
    BY <1>6, PredRunNext
<1>7. ASSUME NEW t \in Tasks,
             CommandReturns(t) \/ CommandSetsResult(t) \/ GoroutineFailsTask(t)
             \/ NilCommandPanics(t)
      PROVE  PredInv'
    <2>1. CASE CommandReturns(t) \/ CommandSetsResult(t)
              \/ GoroutineFailsTask(t)
        BY <2>1 DEF CommandReturns, CommandSetsResult, GoroutineFailsTask,
                   PredInv
    <2>2. CASE NilCommandPanics(t)
        BY <2>2 DEF NilCommandPanics, Restarted, PredInv, NoPoll, Range
    <2>. QED
        BY <1>7, <2>1, <2>2
<1>8. CASE UNCHANGED vars
    BY <1>8 DEF vars, PredInv
<1>. QED
    BY <1>1, <1>2, <1>3, <1>4, <1>5, <1>6, <1>7, <1>8 DEF Next

-----------------------------------------------------------------------------
(* The theorems.                                                            *)

\* Every step keeps the whole inductive invariant.
LEMMA ReliableStep ==
    ASSUME ReliableApi, IInvReliable, [Next]_vars
    PROVE  IInvReliable'
<1>1. TypeOK' /\ WorkingHasCommand'
    BY NextType, CommandStep DEF IInvReliable, IInvCommand
<1>2. QueueInv' /\ OutcomeInv' /\ PredInv'
    BY QueueStep, OutcomeStep, PredStep
<1>. QED
    BY <1>1, <1>2 DEF IInvReliable

\* When no save fails the inductive invariant holds in every state.
LEMMA ReliableInvariant ==
    ASSUME ReliableApi
    PROVE  Spec => []IInvReliable
BY InitReliable, ReliableStep, PTL DEF Spec

(* When every save to the control plane succeeds, the control plane holds *)
(* Success for a task only if the command the daemon last ran for it      *)
(* succeeded, for every set of tasks, RunAfter relation and crash bound:  *)
(* proceedTask saves Success only for Result() = SuccessResult, a         *)
(* commandList sets that result only after its sub-commands succeeded,    *)
(* and re-executing a task first saves it Working.                        *)
THEOREM SuccessReported ==
    ASSUME ReliableApi
    PROVE  Spec => []SuccessMeansCommandSucceeded
<1>1. IInvReliable => SuccessMeansCommandSucceeded
    BY DEF IInvReliable, OutcomeInv, SuccessMeansCommandSucceeded
<1>. QED
    BY <1>1, ReliableInvariant, PTL

(* Crash recovery (spec 4.6) when every save succeeds: once               *)
(* failWorkingTaskAfterRestart has run, every task the control plane      *)
(* holds as Working is in the daemon's queue, so the worker will end it;  *)
(* no task is orphaned in Working by a crash at any point.                *)
THEOREM NoOrphan ==
    ASSUME ReliableApi
    PROVE  Spec => []NoOrphanWorking
<1>1. IInvReliable => NoOrphanWorking
    BY DEF IInvReliable, QueueInv, NoOrphanWorking, NoTask
<1>. QED
    BY <1>1, ReliableInvariant, PTL

\* Only executeTask starts a command, on the head of the queue and only
\* when shouldTaskWaitForAnotherToComplete said no.
LEMMA OnlyExecuteStarts ==
    ASSUME TypeOK, [Next]_vars, NEW s \in Tasks,
           cmd[s].phase # "Running", cmd'[s].phase = "Running"
    PROVE  /\ proc = "Running" /\ queue # <<>>
           /\ s = Head(queue) /\ ~ShouldWait(s)
<1>1. CASE Recover \/ RecoverFetchFails \/ PollFetch \/ PollInsert
    BY <1>1 DEF Recover, RecoverFetchFails, PollFetch, PollInsert
<1>2. CASE Crash
    BY <1>2 DEF Crash, Restarted, IdleCmd
<1>3. ASSUME NEW t \in Tasks,
             CommandReturns(t) \/ CommandSetsResult(t) \/ GoroutineFailsTask(t)
             \/ NilCommandPanics(t)
      PROVE  FALSE
    <2>1. CASE CommandReturns(t)
        <3>1. s # t => cmd'[s] = cmd[s]
            BY <2>1 DEF CommandReturns, TypeOK
        <3>2. cmd'[t].phase # "Running"
            <4>1. CASE TaskKind[t] \in {"Execute", "Game"}
                BY <2>1, <4>1 DEF CommandReturns, TypeOK
            <4>2. CASE TaskKind[t] = "Reinstall"
                BY <2>1, <4>2 DEF CommandReturns, TypeOK
            <4>. QED
                BY <2>1, <4>1, <4>2 DEF CommandReturns
        <3>. QED
            BY <3>1, <3>2
    <2>2. CASE CommandSetsResult(t)
        BY <2>2 DEF CommandSetsResult, TypeOK
    <2>4. CASE GoroutineFailsTask(t)
        BY <2>4 DEF GoroutineFailsTask, TypeOK
    <2>3. CASE NilCommandPanics(t)
        BY <2>3 DEF NilCommandPanics, Restarted, IdleCmd
    <2>. QED
        BY <1>3, <2>1, <2>2, <2>3, <2>4
<1>4. CASE RunNext
    <2>. DEFINE h == Head(queue)
    <2>1. h \in Tasks /\ queue # <<>> /\ proc = "Running"
        BY <1>4, HeadRange DEF RunNext
    <2>2. CASE WaitForPredecessor(h) \/ ProceedRunning(h)
        BY <2>2 DEF WaitForPredecessor, ProceedRunning
    <2>3. CASE ExecuteInvalidTask(h)
        BY <2>3 DEF ExecuteInvalidTask
    <2>4. CASE ProceedComplete(h) \/ ProceedMissing(h) \/ RemoveCompleted(h)
        BY <2>1, <2>4 DEF ProceedComplete, ProceedMissing, RemoveCompleted,
                         Detach, TypeOK
    <2>5. CASE ~ShouldWait(h) /\ ExecuteTask(h)
        BY <2>1, <2>5 DEF ExecuteTask, TypeOK
    <2>. QED
        BY <1>4, <2>1, <2>2, <2>3, <2>4, <2>5 DEF RunNext
<1>5. CASE UNCHANGED vars
    BY <1>5 DEF vars
<1>. QED
    BY <1>1, <1>2, <1>3, <1>4, <1>5 DEF Next

\* One step honours the RunAfter order.
LEMMA DependencyStep ==
    ASSUME IInvReliable, [Next]_vars
    PROVE  \A t \in Tasks :
              (/\ RunAfter[t] # 0
               /\ cmd[t].phase # "Running"
               /\ cmd'[t].phase = "Running")
              => /\ cmd[RunAfter[t]].phase # "Running"
                 /\ api[RunAfter[t]] # "Waiting"
<1>. SUFFICES ASSUME NEW t \in Tasks, RunAfter[t] # 0,
                     cmd[t].phase # "Running", cmd'[t].phase = "Running"
              PROVE  /\ cmd[RunAfter[t]].phase # "Running"
                     /\ api[RunAfter[t]] # "Waiting"
    OBVIOUS
<1>. DEFINE p == RunAfter[t]
<1>. USE DEF IInvReliable
<1>1. p \in Tasks
    BY TaskManagerAssumption
<1>2. queue # <<>> /\ t = Head(queue) /\ ~ShouldWait(t)
    BY OnlyExecuteStarts
<1>3. t \in Range(queue)
    BY <1>2, HeadRange
<1>4. cmd[p].phase = "Running" => p \in Range(queue) /\ status[p] = "Working"
    BY <1>1 DEF OutcomeInv, QueueInv, NoTask
<1>5. api[p] = "Waiting" => p \in Range(queue)
    BY <1>1, <1>3 DEF PredInv
<1>6. p \in Range(queue) => status[p] \in Terminal
    BY <1>1, <1>2, TaskManagerAssumption DEF ShouldWait
<1>7. status[p] \in Terminal => status[p] = "Error" /\ api[p] = "Working"
    BY <1>1 DEF OutcomeInv, QueueInv, Terminal
<1>. QED
    BY <1>4, <1>5, <1>6, <1>7 DEF Terminal

(* Spec 5, ordering guarantee 2, when every save succeeds: the daemon     *)
(* starts a task's command only when the command of its RunAfterID        *)
(* predecessor is not running and the control plane no longer holds the  *)
(* predecessor as Waiting, for every RunAfter relation and crash bound.  *)
(* shouldTaskWaitForAnotherToComplete only looks at the in-memory queue;  *)
(* this is enough because a poll answers every Waiting task at once and  *)
(* a task leaves the queue only with a terminal status saved.            *)
THEOREM DependencyOrder ==
    ASSUME ReliableApi
    PROVE  Spec => DependencyHonored
<1>1. IInvReliable /\ [Next]_vars
        => [\A t \in Tasks :
              (/\ RunAfter[t] # 0
               /\ cmd[t].phase # "Running"
               /\ cmd'[t].phase = "Running")
              => /\ cmd[RunAfter[t]].phase # "Running"
                 /\ api[RunAfter[t]] # "Waiting"]_vars
    BY DependencyStep
<1>. QED
    BY <1>1, ReliableInvariant, PTL DEF Spec, DependencyHonored

=============================================================================
