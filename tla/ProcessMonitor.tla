--------------------------- MODULE ProcessMonitor ---------------------------
(***************************************************************************)
(* ProcessMonitor: the detached thread that polls one child with           *)
(* waitpid(WNOHANG) until the child is over, the parent stops or somebody  *)
(* clears monitor_.                                                        *)
(***************************************************************************)
EXTENDS ChildProcess, MessageQueue

VARIABLES
    monPc,    \* where the monitor thread of each pid is
    monitor_, \* the flag ProcessMonitor::monitor_ of each pid
    pauseMonitoring_  \* Synchro's flag, set by the console

monitorVars == <<monPc, monitor_, pauseMonitoring_>>

MonitorTypeOK ==
    /\ monPc \in [Pids -> {"none", "started", "loop", "report", "stop"}]
    /\ monitor_ \in [Pids -> BOOLEAN]
    /\ pauseMonitoring_ \in BOOLEAN

MonitorInit ==
    /\ monPc = [p \in Pids |-> "none"]
    /\ monitor_ = [p \in Pids |-> FALSE]
    /\ pauseMonitoring_ = FALSE

\* The thread is created; it has not run yet, so monitor_ is still FALSE.
CreateMonitorProcessThread(p) ==
    /\ monPc' = [monPc EXCEPT ![p] = "started"]
    /\ UNCHANGED <<monitor_, pauseMonitoring_>>

\* Mutant: monitoring() is not set.
MonitorBeginForgetsFlag(p) ==
    /\ parent = "up"
    /\ monPc[p] = "started"
    /\ monPc' = [monPc EXCEPT ![p] = "loop"]
    /\ UNCHANGED <<monitor_, pauseMonitoring_, childVars, queueVars>>

MonitorBegin(p) ==
    /\ parent = "up"
    /\ monPc[p] = "started"
    /\ monPc' = [monPc EXCEPT ![p] = "loop"]
    /\ monitor_' = [monitor_ EXCEPT ![p] = TRUE]
    /\ UNCHANGED <<pauseMonitoring_, childVars, queueVars>>

(***************************************************************************)
(* isProcessRunning() and waitpid(WNOHANG): a zombie still exists for      *)
(* kill(pid, 0), and waitpid reaps it.  Only a child that was killed by a  *)
(* signal is reported, since a child that exits reports itself.  While     *)
(* monitoring is paused the loop goes round without looking.               *)
(***************************************************************************)
\* Mutant: a child that exits is reported a second time.
AfterPollReportsExits(p) ==
    CASE proc[p] \in {"killed", "exited"} -> "report"
      [] proc[p] \in Unannounced \cup {"announced"} -> "loop"
      [] OTHER -> "stop"

\* Mutant: the result 0 of waitpid is taken for an error.
AfterPollGivesUp(p) == IF proc[p] = "killed" THEN "report" ELSE "stop"

AfterPoll(p) ==
    CASE proc[p] = "killed" -> "report"
      [] proc[p] \in Unannounced \cup {"announced"} -> "loop"
      [] OTHER -> "stop"

MonitorPoll(p) ==
    /\ parent = "up"
    /\ monPc[p] = "loop"
    /\ running_[Parent] /\ monitor_[p]
    /\ ~pauseMonitoring_
    /\ monPc' = [monPc EXCEPT ![p] = AfterPoll(p)]
    /\ proc' = [proc EXCEPT ![p] = IF @ \in {"killed", "exited"} THEN "reaped" ELSE @]
    /\ UNCHANGED <<monitor_, pauseMonitoring_, continue_, running_, parent, queueVars>>

\* while (running() && monitoring()) is over.
MonitorLeaves(p) ==
    /\ parent = "up"
    /\ monPc[p] = "loop"
    /\ ~(running_[Parent] /\ monitor_[p])
    /\ monPc' = [monPc EXCEPT ![p] = "stop"]
    /\ UNCHANGED <<monitor_, pauseMonitoring_, childVars, queueVars>>

\* Mutant: the message is not sent.
MonitorReportsNothing(p) ==
    /\ parent = "up"
    /\ monPc[p] = "report"
    /\ monPc' = [monPc EXCEPT ![p] = "stop"]
    /\ UNCHANGED <<monitor_, pauseMonitoring_, childVars, queueVars>>

MonitorReport(p) ==
    /\ parent = "up"
    /\ monPc[p] = "report"
    /\ monPc' = [monPc EXCEPT ![p] = "stop"]
    /\ SendTermination(p, running_[Parent])
    /\ UNCHANGED <<monitor_, pauseMonitoring_, childVars>>

MonitorStop(p) ==
    /\ parent = "up"
    /\ monPc[p] = "stop"
    /\ monPc' = [monPc EXCEPT ![p] = "none"]
    /\ monitor_' = [monitor_ EXCEPT ![p] = FALSE]
    /\ UNCHANGED <<pauseMonitoring_, childVars, queueVars>>
=============================================================================
