------------------------------- MODULE WinSW -------------------------------
(***************************************************************************)
(* The WinSW process manager of processmanager/winsw.go for one game      *)
(* server: Start and Restart (checkUser, makeService, install or refresh  *)
(* with the install fallback, the command, the reinstall retry on exit    *)
(* code 1053), Stop (stop, uninstall, remove the service file) and        *)
(* Status.  Each winsw invocation (runWinSWCommand) is one step of its    *)
(* own, followed by the step that branches on its result.                 *)
(*                                                                         *)
(* The environment: the service file is absent, empty (opened and not    *)
(* yet written) or a valid configuration; the Windows service is         *)
(* installed or not and running or not.  winsw reads the file on every    *)
(* invocation and fails without effect when it is not valid.              *)
(***************************************************************************)
EXTENDS Integers

CONSTANTS
    Callers,          \* goroutines calling the process manager
    MaxOps,           \* bound on the calls made
    MaxExecErrors,    \* bound on executor errors (winsw not run)
    MaxWinSWFailures, \* bound on winsw exiting non-zero without effect
    MaxBuildFailures, \* bound on checkUser / buildServiceConfig failures
    MaxCannotStart    \* bound on start exiting with 1053

ASSUME WinSWAssumption ==
    /\ MaxOps \in Nat /\ MaxExecErrors \in Nat /\ MaxWinSWFailures \in Nat
    /\ MaxBuildFailures \in Nat /\ MaxCannotStart \in Nat

\* domain.Result values and the exit codes the code compares against.
SuccessResult == 0
ErrorResult == 1
ExitStatusActive == 1
\* What the executor reports as the exit code when it fails to run.
UnknownResult == -1
ErrorCodeCannotStart == 1053
\* Any other non-zero exit code of winsw.
ExitFailed == 2
Codes == {SuccessResult, ErrorResult, ExitFailed, ErrorCodeCannotStart}

Ops == {"start", "restart", "stop", "status"}
WinSWCommands == {"install", "refresh", "uninstall", "start", "restart",
                  "stop", "status"}
FileStates == {"absent", "empty", "valid"}
\* The branches that read a command's result.
Branches == {"after_install", "after_refresh", "after_fallback", "after_cmd",
             "fix_install", "fix_check", "retry_done", "stop_uninstall",
             "stop_remove", "status_done"}

VARIABLES
    file,        \* the service file servicesConfigPath\gameapServer<id>.xml
    installed,   \* the Windows service exists
    running,     \* the Windows service runs
    pc,          \* where each caller is
    op,          \* the operation each caller runs
    wcmd,        \* the winsw command a caller is about to run
    cont,        \* the branch that reads its result
    code,        \* exit code of the caller's last winsw command
    err,         \* the executor failed on the caller's last command
    created,     \* makeService created a new file
    res,         \* result of the caller's last finished operation
    ops, execErrors, winswFailures, buildFailures, cannotStarts

vars == <<file, installed, running, pc, op, wcmd, cont, code, err, created, res,
          ops, execErrors, winswFailures, buildFailures, cannotStarts>>
envVars == <<file, installed, running>>
budgets == <<ops, execErrors, winswFailures, buildFailures, cannotStarts>>

-----------------------------------------------------------------------------
\* What winsw <c> does to the service and the exit code it returns, when it
\* runs against a valid file and does not fail.
Outcome(c) ==
    LET fail == [code |-> ExitFailed, inst |-> installed, run |-> running]
        ok(i, r) == [code |-> SuccessResult, inst |-> i, run |-> r]
    IN  IF file # "valid" THEN fail ELSE
        CASE c = "install" -> IF installed THEN fail ELSE ok(TRUE, running)
          [] c = "refresh" -> IF installed THEN ok(TRUE, running) ELSE fail
          [] c = "uninstall" -> IF installed THEN ok(FALSE, FALSE) ELSE fail
          [] c = "start" -> IF installed /\ ~running THEN ok(TRUE, TRUE)
                            ELSE fail
          [] c = "restart" -> IF installed THEN ok(TRUE, TRUE) ELSE fail
          [] c = "stop" -> IF running THEN ok(installed, FALSE) ELSE fail
          [] c = "status" -> [code |-> IF running THEN ExitStatusActive
                                       ELSE SuccessResult,
                              inst |-> installed, run |-> running]

\* Hand command <c> to the executor, then continue at <k>.
Call(p, c, k) ==
    /\ wcmd' = [wcmd EXCEPT ![p] = c]
    /\ cont' = [cont EXCEPT ![p] = k]
    /\ pc' = [pc EXCEPT ![p] = "exec"]
\* The operation returns <r>.
Finish(p, r) ==
    /\ res' = [res EXCEPT ![p] = r]
    /\ pc' = [pc EXCEPT ![p] = "idle"]
    /\ UNCHANGED <<wcmd, cont>>
\* The exit code and error of the last command, as the branches read them.
Failed(p) == err[p] \/ code[p] # SuccessResult

-----------------------------------------------------------------------------
Init ==
    /\ file = "absent" /\ installed = FALSE /\ running = FALSE
    /\ pc = [p \in Callers |-> "idle"]
    /\ op = [p \in Callers |-> "status"]
    /\ wcmd = [p \in Callers |-> "status"]
    /\ cont = [p \in Callers |-> "idle"]
    /\ code = [p \in Callers |-> SuccessResult]
    /\ err = [p \in Callers |-> FALSE]
    /\ created = [p \in Callers |-> FALSE]
    /\ res = [p \in Callers |-> SuccessResult]
    /\ ops = 0 /\ execErrors = 0 /\ winswFailures = 0
    /\ buildFailures = 0 /\ cannotStarts = 0

(* A call of Start, Restart, Stop or Status begins.  Start and Restart    *)
(* run checkUser first, which fails when the server's user is unknown.    *)
Begin(p, o) ==
    /\ pc[p] = "idle"
    /\ ops < MaxOps
    /\ ops' = ops + 1
    /\ op' = [op EXCEPT ![p] = o]
    /\ \/ /\ o \in {"start", "restart"}
          /\ \/ /\ pc' = [pc EXCEPT ![p] = "open"]
                /\ UNCHANGED <<res, buildFailures>>
             \/ /\ buildFailures < MaxBuildFailures
                /\ buildFailures' = buildFailures + 1
                /\ Finish(p, ErrorResult)
          /\ UNCHANGED <<wcmd, cont>>
       \/ /\ o = "stop"
          /\ Call(p, "stop", "stop_uninstall")
          /\ UNCHANGED <<res, buildFailures>>
       \/ /\ o = "status"
          /\ IF file = "absent"
             THEN Finish(p, ErrorResult)
             ELSE Call(p, "status", "status_done") /\ UNCHANGED res
          /\ UNCHANGED buildFailures
    /\ UNCHANGED <<envVars, code, err, created, execErrors, winswFailures,
                   cannotStarts>>

(* makeService opens the service file: O_CREATE when it does not exist,   *)
(* O_TRUNC when it does.  Either way it is empty until written.           *)
MakeServiceOpen(p) ==
    /\ pc[p] = "open"
    /\ created' = [created EXCEPT ![p] = (file = "absent")]
    /\ file' = "empty"
    /\ pc' = [pc EXCEPT ![p] = "write"]
    /\ UNCHANGED <<installed, running, op, wcmd, cont, code, err, res,
                   budgets>>

(* buildServiceConfig and the write; on success install a new service or  *)
(* refresh an existing one.  A failing build returns with the file left   *)
(* as the open made it.                                                   *)
MakeServiceWrite(p) ==
    /\ pc[p] = "write"
    /\ \/ /\ file' = "valid"
          /\ IF created[p] THEN Call(p, "install", "after_install")
             ELSE Call(p, "refresh", "after_refresh")
          /\ UNCHANGED <<res, buildFailures>>
       \/ /\ buildFailures < MaxBuildFailures
          /\ buildFailures' = buildFailures + 1
          /\ Finish(p, ErrorResult)
          /\ UNCHANGED file
    /\ UNCHANGED <<installed, running, op, code, err, created, ops,
                   execErrors, winswFailures, cannotStarts>>

(* runWinSWCommand: the executor runs winsw, fails to, or winsw exits    *)
(* non-zero without effect; start may exit with 1053.                     *)
Exec(p) ==
    /\ pc[p] = "exec"
    /\ \/ /\ execErrors < MaxExecErrors
          /\ execErrors' = execErrors + 1
          /\ err' = [err EXCEPT ![p] = TRUE]
          /\ UNCHANGED <<envVars, code, winswFailures, cannotStarts>>
       \/ /\ winswFailures < MaxWinSWFailures
          /\ winswFailures' = winswFailures + 1
          /\ err' = [err EXCEPT ![p] = FALSE]
          /\ code' = [code EXCEPT ![p] = ExitFailed]
          /\ UNCHANGED <<envVars, execErrors, cannotStarts>>
       \/ /\ wcmd[p] = "start" /\ Outcome("start").code = SuccessResult
          /\ cannotStarts < MaxCannotStart
          /\ cannotStarts' = cannotStarts + 1
          /\ err' = [err EXCEPT ![p] = FALSE]
          /\ code' = [code EXCEPT ![p] = ErrorCodeCannotStart]
          /\ UNCHANGED <<envVars, execErrors, winswFailures>>
       \/ LET o == Outcome(wcmd[p])
          IN  /\ err' = [err EXCEPT ![p] = FALSE]
              /\ code' = [code EXCEPT ![p] = o.code]
              /\ installed' = o.inst
              /\ running' = o.run
              /\ UNCHANGED <<file, execErrors, winswFailures, cannotStarts>>
    /\ pc' = [pc EXCEPT ![p] = cont[p]]
    /\ UNCHANGED <<op, wcmd, cont, created, res, ops, buildFailures>>

\* The steps below read the result of the command just run; each leaves
\* the service and the budgets alone.
Unchanged == UNCHANGED <<envVars, op, code, err, created, budgets>>

(* command: the install of a new service must succeed, then the command.  *)
AfterInstall(p) ==
    /\ pc[p] = "after_install"
    /\ IF Failed(p) THEN Finish(p, ErrorResult) ELSE
          Call(p, op[p], "after_cmd") /\ UNCHANGED res
    /\ Unchanged

(* command: a refresh that exits non-zero falls back to install.          *)
AfterRefresh(p) ==
    /\ pc[p] = "after_refresh"
    /\ IF err[p] THEN Finish(p, ErrorResult)
       ELSE IF code[p] # SuccessResult
            THEN Call(p, "install", "after_fallback") /\ UNCHANGED res
            ELSE Call(p, op[p], "after_cmd") /\ UNCHANGED res
    /\ Unchanged

(* command: the fallback install must succeed, then the command.          *)
AfterFallback(p) ==
    /\ pc[p] = "after_fallback"
    /\ IF Failed(p) THEN Finish(p, ErrorResult) ELSE
          Call(p, op[p], "after_cmd") /\ UNCHANGED res
    /\ Unchanged

\* Mutant of AfterCommand: an executor error returns the executor's result.
AfterCommandRawResult(p) ==
    /\ pc[p] = "after_cmd"
    /\ IF err[p] THEN Finish(p, UnknownResult)
       ELSE IF code[p] = ErrorCodeCannotStart /\ op[p] = "start"
            THEN Call(p, "uninstall", "fix_install") /\ UNCHANGED res
            ELSE Finish(p, code[p])
    /\ Unchanged

(* command: start exiting with 1053 goes to tryFixReinstallService;      *)
(* otherwise the command's exit code is the result.                       *)
AfterCommand(p) ==
    /\ pc[p] = "after_cmd"
    /\ IF err[p] THEN Finish(p, ErrorResult)
       ELSE IF code[p] = ErrorCodeCannotStart /\ op[p] = "start"
            THEN Call(p, "uninstall", "fix_install") /\ UNCHANGED res
            ELSE Finish(p, code[p])
    /\ Unchanged

(* tryFixReinstallService: the uninstall's outcome is only logged, then   *)
(* install.                                                               *)
FixInstall(p) ==
    /\ pc[p] = "fix_install"
    /\ Call(p, "install", "fix_check")
    /\ UNCHANGED res
    /\ Unchanged

\* Mutant of FixCheck: the reinstall's success is returned without the
\* second start.
FixCheckNoRetry(p) ==
    /\ pc[p] = "fix_check"
    /\ Finish(p, IF Failed(p) THEN ErrorResult ELSE SuccessResult)
    /\ Unchanged

(* tryFixReinstallService: a failed install fails the command; else the   *)
(* start is run once more.                                                *)
FixCheck(p) ==
    /\ pc[p] = "fix_check"
    /\ IF Failed(p) THEN Finish(p, ErrorResult) ELSE
          Call(p, "start", "retry_done") /\ UNCHANGED res
    /\ Unchanged

(* command: the exit code of the second start is the result.              *)
RetryDone(p) ==
    /\ pc[p] = "retry_done"
    /\ Finish(p, IF err[p] THEN ErrorResult ELSE code[p])
    /\ Unchanged

(* Stop: the exit code of stop is not looked at; uninstall follows.       *)
StopUninstall(p) ==
    /\ pc[p] = "stop_uninstall"
    /\ IF err[p] THEN Finish(p, ErrorResult) ELSE
          Call(p, "uninstall", "stop_remove") /\ UNCHANGED res
    /\ Unchanged

(* Stop: whatever uninstall exited with, the service file is removed (a   *)
(* failing os.Remove is only logged) and Stop succeeds.                   *)
StopRemove(p) ==
    /\ pc[p] = "stop_remove"
    /\ \/ /\ err[p]
          /\ Finish(p, ErrorResult)
          /\ UNCHANGED <<file, execErrors>>
       \/ /\ ~err[p]
          /\ Finish(p, SuccessResult)
          /\ \/ file' = "absent" /\ UNCHANGED execErrors
             \/ /\ execErrors < MaxExecErrors
                /\ execErrors' = execErrors + 1
                /\ UNCHANGED file
    /\ UNCHANGED <<installed, running, op, code, err, created, ops,
                   winswFailures, buildFailures, cannotStarts>>

(* Status: exit code 1 is active; 0 and any other code are ErrorResult.   *)
StatusDone(p) ==
    /\ pc[p] = "status_done"
    /\ Finish(p, IF ~err[p] /\ code[p] = ExitStatusActive
                 THEN SuccessResult ELSE ErrorResult)
    /\ Unchanged

Next ==
    \E p \in Callers :
        \/ \E o \in Ops : Begin(p, o)
        \/ MakeServiceOpen(p) \/ MakeServiceWrite(p) \/ Exec(p)
        \/ AfterInstall(p) \/ AfterRefresh(p) \/ AfterFallback(p)
        \/ AfterCommand(p) \/ FixInstall(p) \/ FixCheck(p) \/ RetryDone(p)
        \/ StopUninstall(p) \/ StopRemove(p) \/ StatusDone(p)

Spec == Init /\ [][Next]_vars

-----------------------------------------------------------------------------
\* Type invariant.
TypeOK ==
    /\ file \in FileStates /\ installed \in BOOLEAN /\ running \in BOOLEAN
    /\ pc \in [Callers -> {"idle", "open", "write", "exec"} \cup Branches]
    /\ cont \in [Callers -> {"idle"} \cup Branches]
    /\ op \in [Callers -> Ops] /\ wcmd \in [Callers -> WinSWCommands]
    /\ code \in [Callers -> Codes] /\ err \in [Callers -> BOOLEAN]
    /\ created \in [Callers -> BOOLEAN] /\ res \in [Callers -> Codes]
    /\ ops \in 0..MaxOps /\ execErrors \in 0..MaxExecErrors
    /\ winswFailures \in 0..MaxWinSWFailures
    /\ buildFailures \in 0..MaxBuildFailures
    /\ cannotStarts \in 0..MaxCannotStart

\* No call is in progress.
AllIdle == \A p \in Callers : pc[p] = "idle"

\* Between calls, an installed Windows service has a valid service file, so
\* that winsw (and the service's on-failure restarts) can read it.
InstalledHasValidFile == AllIdle => (installed => file = "valid")

\* Start or Restart returns SuccessResult only when the service is then
\* installed and running: the result is the exit code of the last command.
StartSuccessMeansRunning ==
    [][\A p \in Callers :
         (pc[p] # "idle" /\ pc'[p] = "idle" /\ op[p] \in {"start", "restart"}
          /\ res'[p] = SuccessResult) => installed' /\ running']_vars

=============================================================================
