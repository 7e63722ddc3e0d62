------------------------------ MODULE WinSWProofs ------------------------------
(***************************************************************************)
(* Proofs about the WinSW process manager model: type correctness for    *)
(* every set of callers and every fault bound, and, for one caller at a   *)
(* time, that Start and Restart report success only for a running         *)
(* service.                                                               *)
(***************************************************************************)
EXTENDS WinSW, TLAPS

\* The type of one winsw invocation's effect.
OutcomeType == [code : Codes, inst : BOOLEAN, run : BOOLEAN]

\* The two shapes of Outcome's result: winsw exits 2 without effect, or 0
\* leaving the service installed <i> and running <r>.
FailOutcome == [code |-> ExitFailed, inst |-> installed, run |-> running]
OkOutcome(i, r) == [code |-> SuccessResult, inst |-> i, run |-> r]

-----------------------------------------------------------------------------
(* Type correctness.                                                       *)

\* What winsw does to the service, and the exit code, are well typed.
LEMMA OutcomeTyped ==
    ASSUME TypeOK, NEW c \in WinSWCommands
    PROVE  Outcome(c) \in OutcomeType
<1>1. /\ FailOutcome \in OutcomeType
      /\ OkOutcome(TRUE, running) \in OutcomeType
      /\ OkOutcome(FALSE, FALSE) \in OutcomeType
      /\ OkOutcome(TRUE, TRUE) \in OutcomeType
      /\ OkOutcome(installed, FALSE) \in OutcomeType
      /\ [code |-> IF running THEN ExitStatusActive ELSE SuccessResult,
          inst |-> installed, run |-> running] \in OutcomeType
    BY DEF FailOutcome, OkOutcome, TypeOK, OutcomeType, Codes, ExitFailed,
           SuccessResult, ExitStatusActive, ErrorResult, ErrorCodeCannotStart
<1>2. CASE file # "valid"
    <2>1. Outcome(c) = FailOutcome
        BY <1>2, Zenon DEF Outcome, FailOutcome, OkOutcome
    <2>. QED
        BY <1>1, <2>1
<1>3. CASE file = "valid"
    <2>1. CASE c = "install"
        <3>1. Outcome(c) = IF installed THEN FailOutcome
                           ELSE OkOutcome(TRUE, running)
            BY <1>3, <2>1, Zenon DEF Outcome, FailOutcome, OkOutcome
        <3>. QED
            BY <1>1, <3>1, Zenon
    <2>2. CASE c = "refresh"
        <3>1. Outcome(c) = IF installed THEN OkOutcome(TRUE, running)
                           ELSE FailOutcome
            BY <1>3, <2>2, Zenon DEF Outcome, FailOutcome, OkOutcome
        <3>. QED
            BY <1>1, <3>1, Zenon
    <2>3. CASE c = "uninstall"
        <3>1. Outcome(c) = IF installed THEN OkOutcome(FALSE, FALSE)
                           ELSE FailOutcome
            BY <1>3, <2>3, Zenon DEF Outcome, FailOutcome, OkOutcome
        <3>. QED
            BY <1>1, <3>1, Zenon
    <2>4. CASE c = "start"
        <3>1. Outcome(c) = IF installed /\ ~running THEN OkOutcome(TRUE, TRUE)
                           ELSE FailOutcome
            BY <1>3, <2>4, Zenon DEF Outcome, FailOutcome, OkOutcome
        <3>. QED
            BY <1>1, <3>1, Zenon
    <2>5. CASE c = "restart"
        <3>1. Outcome(c) = IF installed THEN OkOutcome(TRUE, TRUE)
                           ELSE FailOutcome
            BY <1>3, <2>5, Zenon DEF Outcome, FailOutcome, OkOutcome
        <3>. QED
            BY <1>1, <3>1, Zenon
    <2>6. CASE c = "stop"
        <3>1. Outcome(c) = IF running THEN OkOutcome(installed, FALSE)
                           ELSE FailOutcome
            BY <1>3, <2>6, Zenon DEF Outcome, FailOutcome, OkOutcome
        <3>. QED
            BY <1>1, <3>1, Zenon
    <2>7. CASE c = "status"
        <3>1. Outcome(c) = [code |-> IF running THEN ExitStatusActive
                                     ELSE SuccessResult,
                            inst |-> installed, run |-> running]
            BY <1>3, <2>7, Zenon DEF Outcome, FailOutcome, OkOutcome
        <3>. QED
            BY <1>1, <3>1
    <2>. QED
        BY <2>1, <2>2, <2>3, <2>4, <2>5, <2>6, <2>7 DEF WinSWCommands
<1>. QED
    BY <1>2, <1>3

\* The steps of Begin, makeService and the executor keep the state typed.
LEMMA StartStepsTyped ==
    ASSUME TypeOK, NEW p \in Callers,
           \/ \E o \in Ops : Begin(p, o)
           \/ MakeServiceOpen(p) \/ MakeServiceWrite(p) \/ Exec(p)
    PROVE  TypeOK'
<1>. USE WinSWAssumption DEF envVars, budgets, Unchanged
<1>1. CASE \E o \in Ops : Begin(p, o)
    <2>. PICK o \in Ops : Begin(p, o)
        BY <1>1
    <2>1. CASE o \in {"start", "restart"}
        BY <2>1 DEF Finish, Begin, TypeOK, Codes, ErrorResult
    <2>2. CASE o = "stop"
        BY <2>2 DEF Call, Begin, TypeOK, WinSWCommands, Branches
    <2>3. CASE o = "status"
        BY <2>3 DEF Call, Finish, Begin, TypeOK, WinSWCommands, Branches, Codes, ErrorResult
    <2>. QED
        BY <2>1, <2>2, <2>3 DEF Ops
<1>2. CASE MakeServiceOpen(p)
    BY <1>2 DEF MakeServiceOpen, TypeOK, FileStates
<1>3. CASE MakeServiceWrite(p)
    BY <1>3 DEF Call, Finish, MakeServiceWrite, TypeOK, FileStates, WinSWCommands, Branches,
        Codes, ErrorResult
<1>4. CASE Exec(p)
    <2>1. /\ pc' \in [Callers -> {"idle", "open", "write", "exec"} \cup Branches]
          /\ UNCHANGED <<op, wcmd, cont, created, res, ops, buildFailures>>
        BY <1>4 DEF Exec, TypeOK
    <2>2. CASE /\ execErrors < MaxExecErrors
               /\ execErrors' = execErrors + 1
               /\ err' = [err EXCEPT ![p] = TRUE]
               /\ UNCHANGED <<envVars, code, winswFailures, cannotStarts>>
        BY <2>1, <2>2 DEF TypeOK
    <2>3. CASE /\ winswFailures < MaxWinSWFailures
               /\ winswFailures' = winswFailures + 1
               /\ err' = [err EXCEPT ![p] = FALSE]
               /\ code' = [code EXCEPT ![p] = ExitFailed]
               /\ UNCHANGED <<envVars, execErrors, cannotStarts>>
        BY <2>1, <2>3 DEF TypeOK, Codes, ExitFailed
    <2>4. CASE /\ cannotStarts < MaxCannotStart
               /\ cannotStarts' = cannotStarts + 1
               /\ err' = [err EXCEPT ![p] = FALSE]
               /\ code' = [code EXCEPT ![p] = ErrorCodeCannotStart]
               /\ UNCHANGED <<envVars, execErrors, winswFailures>>
        BY <2>1, <2>4 DEF TypeOK, Codes, ErrorCodeCannotStart
    <2>5. CASE /\ err' = [err EXCEPT ![p] = FALSE]
               /\ code' = [code EXCEPT ![p] = Outcome(wcmd[p]).code]
               /\ installed' = Outcome(wcmd[p]).inst
               /\ running' = Outcome(wcmd[p]).run
               /\ UNCHANGED <<file, execErrors, winswFailures, cannotStarts>>
        <3>1. Outcome(wcmd[p]) \in OutcomeType
            BY OutcomeTyped DEF TypeOK
        <3>. QED
            BY <2>1, <2>5, <3>1 DEF TypeOK, OutcomeType
    <2>. QED
        BY <1>4, <2>2, <2>3, <2>4, <2>5 DEF Exec
<1>. QED
    BY <1>1, <1>2, <1>3, <1>4

\* The steps that read a command's result keep the state typed.
LEMMA BranchStepsTyped ==
    ASSUME TypeOK, NEW p \in Callers,
           \/ AfterInstall(p) \/ AfterRefresh(p) \/ AfterFallback(p)
           \/ AfterCommand(p) \/ FixInstall(p) \/ FixCheck(p) \/ RetryDone(p)
           \/ StopUninstall(p) \/ StopRemove(p) \/ StatusDone(p)
    PROVE  TypeOK'
<1>. USE WinSWAssumption DEF Unchanged, envVars, budgets
<1>0. op[p] \in WinSWCommands /\ code[p] \in Codes
    BY DEF TypeOK, Ops, WinSWCommands
<1>1. CASE AfterInstall(p) \/ AfterFallback(p)
    BY <1>0, <1>1 DEF Call, Finish, AfterInstall, AfterFallback, TypeOK, Branches, Codes, ErrorResult
<1>2. CASE AfterRefresh(p)
    BY <1>0, <1>2 DEF Call, Finish, AfterRefresh, TypeOK, Branches, WinSWCommands, Codes, ErrorResult
<1>3. CASE AfterCommand(p)
    BY <1>0, <1>3 DEF Call, Finish, AfterCommand, TypeOK, Branches, WinSWCommands, Codes, ErrorResult
<1>4. CASE FixInstall(p) \/ FixCheck(p)
    BY <1>4 DEF Call, Finish, FixInstall, FixCheck, TypeOK, Branches, WinSWCommands, Codes,
        ErrorResult
<1>5. CASE RetryDone(p) \/ StatusDone(p)
    BY <1>0, <1>5 DEF Finish, RetryDone, StatusDone, TypeOK, Codes, ErrorResult, SuccessResult
<1>6. CASE StopUninstall(p)
    BY <1>6 DEF Call, Finish, StopUninstall, TypeOK, Branches, WinSWCommands, Codes, ErrorResult
<1>7. CASE StopRemove(p)
    BY <1>7 DEF Finish, StopRemove, TypeOK, FileStates, Codes, ErrorResult, SuccessResult
<1>. QED
    BY <1>1, <1>2, <1>3, <1>4, <1>5, <1>6, <1>7

\* The initial state is well typed.
LEMMA InitTyped == Init => TypeOK
<1>. SUFFICES ASSUME Init PROVE TypeOK
    OBVIOUS
<1>1. /\ ops \in 0..MaxOps /\ execErrors \in 0..MaxExecErrors
      /\ winswFailures \in 0..MaxWinSWFailures
      /\ buildFailures \in 0..MaxBuildFailures
      /\ cannotStarts \in 0..MaxCannotStart
    BY WinSWAssumption DEF Init
<1>2. /\ file \in FileStates /\ installed \in BOOLEAN /\ running \in BOOLEAN
      /\ err \in [Callers -> BOOLEAN] /\ created \in [Callers -> BOOLEAN]
    BY Zenon DEF Init, FileStates
<1>3. /\ pc \in [Callers -> {"idle", "open", "write", "exec"} \cup Branches]
      /\ cont \in [Callers -> {"idle"} \cup Branches]
      /\ op \in [Callers -> Ops] /\ wcmd \in [Callers -> WinSWCommands]
      /\ code \in [Callers -> Codes] /\ res \in [Callers -> Codes]
    BY DEF Init, Ops, WinSWCommands, Codes
<1>. QED
    BY <1>1, <1>2, <1>3 DEF TypeOK

\* Every step keeps the state well typed.
LEMMA NextTyped == TypeOK /\ [Next]_vars => TypeOK'
<1>. SUFFICES ASSUME TypeOK, [Next]_vars PROVE TypeOK'
    OBVIOUS
<1>1. CASE Next
    BY <1>1, StartStepsTyped, BranchStepsTyped DEF Next
<1>2. CASE UNCHANGED vars
    BY <1>2 DEF vars, TypeOK
<1>. QED
    BY <1>1, <1>2

(* Type correctness of the process manager (winsw.go), for every set of   *)
(* callers and every fault bound: the service file, the service and every *)
(* caller's place, command, exit code and result stay in their ranges,    *)
(* and the budgets of calls and faults are never exceeded.                *)
THEOREM TypeCorrect == Spec => []TypeOK
BY InitTyped, NextTyped, PTL DEF Spec

-----------------------------------------------------------------------------
(* Start and Restart report success only for a running service, when one  *)
(* caller at a time drives the process manager.                          *)

\* Where a caller's operation stands: the branch it resumes at while the
\* executor runs, else its place.
Stage(p) == IF pc[p] = "exec" THEN cont[p] ELSE pc[p]

\* The places of Start and Restart (command, makeService,
\* tryFixReinstallService).
StartStages == {"open", "write", "after_install", "after_refresh",
                "after_fallback", "after_cmd", "fix_install", "fix_check",
                "retry_done"}

\* A busy caller runs Start or Restart exactly when it is at one of their
\* places.
OpMatchesStage(p) ==
    pc[p] # "idle" =>
        (op[p] \in {"start", "restart"} <=> Stage(p) \in StartStages)

\* The command whose exit code after_cmd reads is the operation itself, and
\* the one retry_done reads is the second start of tryFixReinstallService.
CommandOfBranch(p) ==
    pc[p] = "exec" =>
        /\ cont[p] = "after_cmd" => wcmd[p] = op[p]
        /\ cont[p] = "retry_done" => wcmd[p] = "start"

\* When after_cmd or retry_done reads a successful exit, the service is
\* installed and running.
SuccessReadIsRunning(p) ==
    /\ pc[p] \in {"after_cmd", "retry_done"}
    /\ ~err[p] /\ code[p] = SuccessResult
    => installed /\ running

StartInv(p) ==
    OpMatchesStage(p) /\ CommandOfBranch(p) /\ SuccessReadIsRunning(p)

\* The inductive invariant behind StartSuccessMeansRunning.
StartIInv == TypeOK /\ \A p \in Callers : StartInv(p)

\* Start and Restart exit 0 only when they leave the service installed and
\* running.
LEMMA OutcomeStartSuccess ==
    ASSUME TypeOK, NEW w \in {"start", "restart"},
           Outcome(w).code = SuccessResult
    PROVE  Outcome(w).inst /\ Outcome(w).run
<1>1. FailOutcome.code # SuccessResult
    BY DEF FailOutcome, ExitFailed, SuccessResult
<1>2. OkOutcome(TRUE, TRUE).inst /\ OkOutcome(TRUE, TRUE).run
    BY DEF OkOutcome
<1>3. CASE file # "valid"
    <2>1. Outcome(w) = FailOutcome
        BY <1>3, Zenon DEF Outcome, FailOutcome, OkOutcome
    <2>. QED
        BY <1>1, <2>1
<1>4. CASE file = "valid" /\ w = "start"
    <2>1. Outcome(w) = IF installed /\ ~running THEN OkOutcome(TRUE, TRUE)
                       ELSE FailOutcome
        BY <1>4, Zenon DEF Outcome, FailOutcome, OkOutcome
    <2>. QED
        BY <1>1, <1>2, <2>1
<1>5. CASE file = "valid" /\ w = "restart"
    <2>1. Outcome(w) = IF installed THEN OkOutcome(TRUE, TRUE)
                       ELSE FailOutcome
        BY <1>5, Zenon DEF Outcome, FailOutcome, OkOutcome
    <2>. QED
        BY <1>1, <1>2, <2>1
<1>. QED
    BY <1>3, <1>4, <1>5

\* Every step of a caller keeps that caller's part of the invariant.
LEMMA StartInvStep ==
    ASSUME TypeOK, TypeOK', NEW p \in Callers, StartInv(p),
           \/ \E o \in Ops : Begin(p, o)
           \/ MakeServiceOpen(p) \/ MakeServiceWrite(p) \/ Exec(p)
           \/ AfterInstall(p) \/ AfterRefresh(p) \/ AfterFallback(p)
           \/ AfterCommand(p) \/ FixInstall(p) \/ FixCheck(p) \/ RetryDone(p)
           \/ StopUninstall(p) \/ StopRemove(p) \/ StatusDone(p)
    PROVE  StartInv(p)'
<1>. USE DEF StartInv, OpMatchesStage, CommandOfBranch, SuccessReadIsRunning,
             Stage, StartStages, Unchanged, envVars, budgets
<1>1. CASE \E o \in Ops : Begin(p, o)
    BY <1>1 DEF Begin, Call, Finish, TypeOK, Ops
<1>2. CASE MakeServiceOpen(p)
    BY <1>2 DEF MakeServiceOpen, TypeOK
<1>3. CASE MakeServiceWrite(p)
    BY <1>3 DEF MakeServiceWrite, Call, Finish, TypeOK
<1>4. CASE Exec(p)
    <2>1. pc'[p] = cont[p] /\ cont[p] # "exec"
          /\ UNCHANGED <<op[p], cont[p], wcmd[p]>>
        BY <1>4 DEF Exec, TypeOK, Branches
    <2>2. OpMatchesStage(p)' /\ CommandOfBranch(p)'
        BY <2>1, <1>4 DEF Exec, TypeOK
    <2>3. ASSUME pc'[p] \in {"after_cmd", "retry_done"},
                 ~err'[p], code'[p] = SuccessResult
          PROVE  installed' /\ running'
        <3>1. wcmd[p] \in {"start", "restart"}
            BY <2>1, <2>3, <1>4 DEF Exec
        <3>2. /\ err' = [err EXCEPT ![p] = FALSE]
              /\ code' = [code EXCEPT ![p] = Outcome(wcmd[p]).code]
              /\ installed' = Outcome(wcmd[p]).inst
              /\ running' = Outcome(wcmd[p]).run
            BY <2>3, <1>4 DEF Exec, TypeOK, ExitFailed, ErrorCodeCannotStart,
                                SuccessResult
        <3>3. Outcome(wcmd[p]).code = SuccessResult
            BY <2>3, <3>2 DEF TypeOK
        <3>. QED
            BY <3>1, <3>2, <3>3, OutcomeStartSuccess
    <2>. QED
        BY <2>2, <2>3
<1>5. CASE AfterInstall(p) \/ AfterFallback(p)
    BY <1>5 DEF AfterInstall, AfterFallback, Call, Finish, TypeOK
<1>6. CASE AfterRefresh(p)
    BY <1>6 DEF AfterRefresh, Call, Finish, TypeOK
<1>7. CASE AfterCommand(p)
    BY <1>7 DEF AfterCommand, Call, Finish, TypeOK
<1>8. CASE FixInstall(p) \/ FixCheck(p)
    BY <1>8 DEF FixInstall, FixCheck, Call, Finish, TypeOK
<1>9. CASE RetryDone(p) \/ StatusDone(p) \/ StopRemove(p)
    BY <1>9 DEF RetryDone, StatusDone, StopRemove, Finish, TypeOK
<1>10. CASE StopUninstall(p)
    BY <1>10 DEF StopUninstall, Call, Finish, TypeOK
<1>. QED
    BY <1>1, <1>2, <1>3, <1>4, <1>5, <1>6, <1>7, <1>8, <1>9, <1>10

\* The step of a caller that ends its Start or Restart with SuccessResult
\* leaves the service installed and running.
LEMMA StartSuccessStep ==
    ASSUME TypeOK, NEW p \in Callers, StartInv(p),
           \/ \E o \in Ops : Begin(p, o)
           \/ MakeServiceOpen(p) \/ MakeServiceWrite(p) \/ Exec(p)
           \/ AfterInstall(p) \/ AfterRefresh(p) \/ AfterFallback(p)
           \/ AfterCommand(p) \/ FixInstall(p) \/ FixCheck(p) \/ RetryDone(p)
           \/ StopUninstall(p) \/ StopRemove(p) \/ StatusDone(p),
           pc[p] # "idle", pc'[p] = "idle", op[p] \in {"start", "restart"},
           res'[p] = SuccessResult
    PROVE  installed' /\ running'
<1>. USE DEF StartInv, OpMatchesStage, SuccessReadIsRunning, Stage,
             StartStages, Unchanged, envVars, budgets
<1>1. CASE \E o \in Ops : Begin(p, o)
    BY <1>1 DEF Begin
<1>2. CASE MakeServiceOpen(p) \/ Exec(p)
    BY <1>2 DEF MakeServiceOpen, Exec, TypeOK
<1>3. CASE \/ MakeServiceWrite(p) \/ AfterInstall(p) \/ AfterFallback(p)
           \/ AfterRefresh(p) \/ FixInstall(p) \/ FixCheck(p)
           \/ StopUninstall(p)
    BY <1>3 DEF MakeServiceWrite, AfterInstall, AfterFallback, AfterRefresh,
                FixInstall, FixCheck, StopUninstall, Call, Finish, TypeOK,
                ErrorResult, SuccessResult
<1>4. CASE AfterCommand(p) \/ RetryDone(p)
    BY <1>4 DEF AfterCommand, RetryDone, Call, Finish, TypeOK, ErrorResult,
                SuccessResult
<1>5. CASE StatusDone(p) \/ StopRemove(p)
    BY <1>5 DEF StatusDone, StopRemove
<1>. QED
    BY <1>1, <1>2, <1>3, <1>4, <1>5

\* With one caller, StartIInv is an invariant of the process manager.
LEMMA StartInvariant ==
    ASSUME NEW c, Callers = {c}
    PROVE  Spec => []StartIInv
<1>1. Init => StartIInv
    BY InitTyped DEF Init, StartIInv, StartInv, OpMatchesStage,
                     CommandOfBranch, SuccessReadIsRunning
<1>2. StartIInv /\ [Next]_vars => StartIInv'
    <2>. SUFFICES ASSUME StartIInv, [Next]_vars PROVE StartIInv'
        OBVIOUS
    <2>1. TypeOK'
        BY NextTyped DEF StartIInv
    <2>2. CASE Next
        <3>. PICK p \in Callers :
                \/ \E o \in Ops : Begin(p, o)
                \/ MakeServiceOpen(p) \/ MakeServiceWrite(p) \/ Exec(p)
                \/ AfterInstall(p) \/ AfterRefresh(p) \/ AfterFallback(p)
                \/ AfterCommand(p) \/ FixInstall(p) \/ FixCheck(p)
                \/ RetryDone(p) \/ StopUninstall(p) \/ StopRemove(p)
                \/ StatusDone(p)
            BY <2>2 DEF Next
        <3>1. StartInv(p)'
            BY <2>1, StartInvStep DEF StartIInv
        <3>. QED
            BY <2>1, <3>1 DEF StartIInv
    <2>3. CASE UNCHANGED vars
        BY <2>1, <2>3 DEF vars, StartIInv, StartInv, OpMatchesStage,
                          CommandOfBranch, SuccessReadIsRunning, Stage
    <2>. QED
        BY <2>2, <2>3
<1>. QED
    BY <1>1, <1>2, PTL DEF Spec

(* When one goroutine at a time calls the process manager (winsw.go      *)
(* Start, Restart), Start and Restart return SuccessResult only when the  *)
(* service is then installed and running: every exit 0 they return comes  *)
(* from a start or restart that left it so, including the second start of *)
(* tryFixReinstallService.  With two callers this fails (see README).     *)
THEOREM StartSuccessSingleCaller ==
    ASSUME NEW c, Callers = {c}
    PROVE  Spec => StartSuccessMeansRunning
<1>1. StartIInv /\ [Next]_vars =>
        [\A p \in Callers :
            (pc[p] # "idle" /\ pc'[p] = "idle" /\ op[p] \in {"start", "restart"}
             /\ res'[p] = SuccessResult) => installed' /\ running']_vars
    <2>. SUFFICES ASSUME StartIInv, [Next]_vars
                  PROVE  [\A p \in Callers :
                            (pc[p] # "idle" /\ pc'[p] = "idle"
                             /\ op[p] \in {"start", "restart"}
                             /\ res'[p] = SuccessResult)
                            => installed' /\ running']_vars
        OBVIOUS
    <2>1. CASE Next
        <3>. PICK p \in Callers :
                \/ \E o \in Ops : Begin(p, o)
                \/ MakeServiceOpen(p) \/ MakeServiceWrite(p) \/ Exec(p)
                \/ AfterInstall(p) \/ AfterRefresh(p) \/ AfterFallback(p)
                \/ AfterCommand(p) \/ FixInstall(p) \/ FixCheck(p)
                \/ RetryDone(p) \/ StopUninstall(p) \/ StopRemove(p)
                \/ StatusDone(p)
            BY <2>1 DEF Next
        <3>1. ASSUME pc[p] # "idle", pc'[p] = "idle",
                     op[p] \in {"start", "restart"}, res'[p] = SuccessResult
              PROVE  installed' /\ running'
            BY <3>1, StartSuccessStep DEF StartIInv
        <3>. QED
            BY <3>1
    <2>2. CASE UNCHANGED vars
        BY <2>2 DEF vars
    <2>. QED
        BY <2>1, <2>2
<1>. QED
    BY <1>1, StartInvariant, PTL DEF Spec, StartSuccessMeansRunning

=============================================================================
