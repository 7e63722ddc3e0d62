--------------------------- MODULE MC_TaskManager ---------------------------
(***************************************************************************)
(* Instances of TaskManager for TLC.  Task 2 runs after task 1, as in the *)
(* RunAfterID chains the control plane emits; the kinds of the instances  *)
(* together cover every path of executeTask.                              *)
(***************************************************************************)
EXTENDS TaskManager

MCTasks == {1, 2, 3}
MCRunAfter == (1 :> 0) @@ (2 :> 1) @@ (3 :> 0)

\* five tasks, every path of executeTask at once
MCTasks5 == {1, 2, 3, 4, 5}
MCRunAfter5 == (1 :> 0) @@ (2 :> 1) @@ (3 :> 0) @@ (4 :> 0) @@ (5 :> 3)
MCKindsAll == (1 :> "Execute") @@ (2 :> "Reinstall") @@ (3 :> "Game")
              @@ (4 :> "Pause") @@ (5 :> "Invalid")

\* an ExecuteCommand task, a Reinstall after it, a plain game command
MCKindsCommands == (1 :> "Execute") @@ (2 :> "Reinstall") @@ (3 :> "Game")

\* four tasks for the liveness run: a command with a Reinstall after it,
\* a nil Pause command and an unknown verb
MCTasks4 == {1, 2, 3, 4}
MCRunAfter4 == (1 :> 0) @@ (2 :> 1) @@ (3 :> 0) @@ (4 :> 0)
MCKindsLive == (1 :> "Execute") @@ (2 :> "Reinstall") @@ (3 :> "Pause")
               @@ (4 :> "Invalid")

\* a Reinstall only, for the commandList completion race
MCKindsReinstall == (1 :> "Game") @@ (2 :> "Reinstall") @@ (3 :> "Game")
=============================================================================
