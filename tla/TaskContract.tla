---------------------------- MODULE TaskContract ----------------------------
(* What a client of the HTTP interface may rely on for every task: the life   *)
(* of its status, of the recorded termination and of the concurrency slot it  *)
(* occupies.  Nothing is said of processes, pipes, timers or the order of     *)
(* internal steps; TaskExecutor is shown to implement this specification.     *)

EXTENDS TaskModel

CONSTANT Tasks      \* requests that may become tasks

VARIABLES
    status,         \* the status a client reads, "Absent" before creation
    term,           \* the recorded termination of the task
    held            \* TRUE while the task occupies a concurrency slot

contractVars == <<status, term, held>>

-----------------------------------------------------------------------------
\* The terminal statuses a client may see after a recorded termination.  The
\* executor may fail at any time, so "Failed" is always among them.
Outcomes(tm) ==
    CASE tm.reason = "none" -> {"Succeeded", "Failed"}
      [] tm.reason = "Timeout" -> {"TimedOut", "Failed"}
      [] tm.reason = "Cancelled" -> {"Cancelled", "Failed"}
      [] tm.reason = "ForceKilled" -> {"Killed", "Failed"}
      [] tm.reason \in {"ServerShutdown", "ServerRestart", "ParentExited"} -> {"Interrupted", "Failed"}
      [] OTHER -> {"Failed"}

\* A recorded termination only becomes harsher: the forced flag is raised, and
\* the reason may change only to an explicit kill.
Harsher(old, new) ==
    /\ ~old.forced /\ new.forced
    /\ new.graceful = old.graceful
    /\ new.reason \in {old.reason, "ForceKilled"}

-----------------------------------------------------------------------------
Init ==
    /\ status = [t \in Tasks |-> "Absent"]
    /\ term = [t \in Tasks |-> NoTermination]
    /\ held = [t \in Tasks |-> FALSE]

\* A request obtains a slot before it becomes a task.
Admit(t) ==
    /\ status[t] = "Absent" /\ ~held[t]
    /\ held' = [held EXCEPT ![t] = TRUE]
    /\ UNCHANGED <<status, term>>

\* The slot is returned: the request is refused, or the task is about to end.
Release(t) ==
    /\ held[t]
    /\ status[t] \notin FinishedStatuses
    /\ held' = [held EXCEPT ![t] = FALSE]
    /\ UNCHANGED <<status, term>>

Create(t) ==
    /\ status[t] = "Absent" /\ held[t]
    /\ status' = [status EXCEPT ![t] = "Starting"]
    /\ UNCHANGED <<term, held>>

Run(t) ==
    /\ status[t] = "Starting" /\ held[t]
    /\ status' = [status EXCEPT ![t] = "Running"]
    /\ UNCHANGED <<term, held>>

\* The task is being stopped.  A stop is gentle at first unless it answers a
\* kill, or the deadline passed after the main script had ended.
Stop(t, new) ==
    /\ status[t] = "Running" /\ held[t]
    /\ new.reason # "none"
    /\ new.graceful # new.forced
    /\ new.forced => new.reason \in {"ForceKilled", "Timeout"}
    /\ status' = [status EXCEPT ![t] = "Stopping"]
    /\ term' = [term EXCEPT ![t] = new]
    /\ UNCHANGED held

Escalate(t, new) ==
    /\ status[t] = "Stopping" /\ held[t]
    /\ Harsher(term[t], new)
    /\ term' = [term EXCEPT ![t] = new]
    /\ UNCHANGED <<status, held>>

\* A terminal status is published only after the slot has been returned.
Finish(t, s) ==
    /\ status[t] \in ActiveStatuses /\ ~held[t]
    /\ s \in Outcomes(term[t])
    /\ status' = [status EXCEPT ![t] = s]
    /\ UNCHANGED <<term, held>>

Next ==
    \E t \in Tasks :
        \/ Admit(t) \/ Release(t) \/ Create(t) \/ Run(t)
        \/ \E new \in Terminations : Stop(t, new) \/ Escalate(t, new)
        \/ \E s \in FinishedStatuses : Finish(t, s)

Spec == Init /\ [][Next]_contractVars
=============================================================================
