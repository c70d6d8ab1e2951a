---------------------------- MODULE ChildProcess ----------------------------
(***************************************************************************)
(* The children a ProcessMonitor forks (BaseProcess, Process,              *)
(* ProcessSimulator, NetworkProcess), with the part of the operating       *)
(* system they live in: the process table, signals, zombies.               *)
(*                                                                         *)
(* A static of the program is a function over processes, because fork()    *)
(* gives each child its own copy of it: continue_[p] is the flag           *)
(* BaseProcess::continue_ in process p, running_[p] the flag               *)
(* ProcessController::running_ in process p.                               *)
(***************************************************************************)
EXTENDS Naturals

CONSTANTS
    Pids,          \* process ids the operating system may give to a child
    Parent,        \* the process that runs main()
    ProcessType,   \* the -t option: "real", "simul", "network" or "clone"
    KillRace       \* TRUE: SIGKILL may fall between a child's last message and its _exit

ASSUME ChildAssumption ==
    /\ Parent \notin Pids
    /\ ProcessType \in {"real", "simul", "network", "clone"}
    /\ KillRace \in BOOLEAN

VARIABLES
    proc,      \* where each child is in its life, as its process table entry shows it
    continue_, \* BaseProcess::continue_, one copy per process
    running_,  \* ProcessController::running_, one copy per process
    parent     \* "up", "exited" (main returned) or "died" (any other end)

childVars == <<proc, continue_, running_, parent>>

Processes == Pids \cup {Parent}

\* A child that has not yet sent its termination message.
Unannounced == {"born", "working"}

\* A child whose work() is over, one way or the other.
Finished == {"announced", "exited", "killed", "reaped"}

ChildTypeOK ==
    /\ proc \in [Pids -> {"free"} \cup Unannounced \cup Finished]
    /\ continue_ \in [Processes -> BOOLEAN]
    /\ running_ \in [Processes -> BOOLEAN]
    /\ parent \in {"up", "exited", "died"}

ChildInit ==
    /\ proc = [p \in Pids |-> "free"]
    /\ continue_ = [p \in Processes |-> TRUE]
    /\ running_ = [p \in Processes |-> TRUE]
    /\ parent = "up"

(***************************************************************************)
(* The loop of work(): a real process runs until it is told to stop, the   *)
(* others also reach the end of their life.  getppid() answers 1 once the  *)
(* parent is gone, except in the pid namespace of a cloned child.          *)
(***************************************************************************)
SelfEnding == ProcessType # "real"

SeesParentGone == parent # "up" /\ ProcessType # "clone"

\* fork(): the child starts with a copy of the parent's statics.
ForkProcess(p) ==
    /\ proc' = [proc EXCEPT ![p] = "born"]
    /\ continue_' = [continue_ EXCEPT ![p] = continue_[Parent]]
    /\ running_' = [running_ EXCEPT ![p] = running_[Parent]]
    /\ UNCHANGED parent

\* preWork() up to and including sendCreationMessage; the caller adds the message.
PreWork(p) ==
    /\ proc[p] = "born"
    /\ proc' = [proc EXCEPT ![p] = "working"]
    /\ UNCHANGED <<continue_, running_, parent>>

\* Leaving the loop of work() and postWork() up to its send; the caller adds the message.
\* From here on nothing reads the child's copy of continue_; TRUE stands for any value.
PostWork(p) ==
    /\ proc[p] = "working"
    /\ ~continue_[p] \/ SelfEnding \/ SeesParentGone
    /\ proc' = [proc EXCEPT ![p] = "announced"]
    /\ continue_' = [continue_ EXCEPT ![p] = TRUE]
    /\ UNCHANGED <<running_, parent>>

\* _exit(): a zombie for the parent to wait for, or init's to reap at once.
ExitProcess(p) ==
    /\ proc[p] = "announced"
    /\ proc' = [proc EXCEPT ![p] = IF parent = "up" THEN "exited" ELSE "reaped"]
    /\ UNCHANGED <<continue_, running_, parent>>

(***************************************************************************)
(* Signals.  SIGTERM and SIGINT run signalHandler in the child, which was  *)
(* installed before the fork; SIGKILL ends a child that still runs.  A     *)
(* signal to a process that is over changes nothing.                       *)
(***************************************************************************)
Alive(p) == proc[p] \in Unannounced \cup (IF KillRace THEN {"announced"} ELSE {})

HandleStop(p) ==
    /\ continue_' = [continue_ EXCEPT ![p] = @ /\ proc[p] \notin Unannounced]
    /\ UNCHANGED proc

HandleKill(p) ==
    /\ proc' = [proc EXCEPT ![p] = IF Alive(p) THEN "killed" ELSE @]
    /\ continue_' = [continue_ EXCEPT ![p] = @ \/ Alive(p)]

Signal(sig, p) ==
    /\ sig \in {"SIGTERM", "SIGINT"} => HandleStop(p)
    /\ sig = "SIGKILL" => HandleKill(p)
    /\ UNCHANGED <<running_, parent>>

\* The parent ends: init inherits the children and reaps the zombies among them.
ParentEnds(how) ==
    /\ parent = "up"
    /\ parent' = how
    /\ proc' = [p \in Pids |->
                  IF proc[p] \in {"exited", "killed"} THEN "reaped" ELSE proc[p]]
    /\ UNCHANGED <<continue_, running_>>
=============================================================================
