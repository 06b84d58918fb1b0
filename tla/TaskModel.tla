------------------------------ MODULE TaskModel ------------------------------
(* The vocabulary of model.rs that the other modules share: task statuses,    *)
(* stop reasons and termination records, without their JSON names.            *)

\* TaskStatus
Statuses == {"Starting", "Running", "Stopping", "Succeeded", "Failed",
             "TimedOut", "Cancelled", "Killed", "Interrupted"}

\* TaskStatus::is_finished
FinishedStatuses == Statuses \ {"Starting", "Running", "Stopping"}

ActiveStatuses == Statuses \ FinishedStatuses

\* StopReason
StopReasons == {"Timeout", "Cancelled", "ForceKilled", "ServerShutdown",
                "ServerRestart", "LoggingFailure", "ParentExited"}

\* Termination, without the wording (method, signal and message).
Terminations == [reason : StopReasons \cup {"none"}, graceful : BOOLEAN, forced : BOOLEAN]

\* TaskSnapshot::termination = None
NoTermination == [reason |-> "none", graceful |-> FALSE, forced |-> FALSE]
=============================================================================
