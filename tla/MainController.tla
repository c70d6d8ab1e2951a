--------------------------- MODULE MainController ---------------------------
(***************************************************************************)
(* MainController: the thread of main() and the three threads it starts.   *)
(*   creator     CreateMonitoringThreads, a monitor thread per creation    *)
(*               message                                                   *)
(*   terminator  MonitorProcessTermination, one registry entry deceased    *)
(*               and one counter_ less per termination message             *)
(*   maker       createHandlers, run by main() for the first children and  *)
(*               by restoreHandlerCount for their replacements             *)
(* The naps between two turns of a loop are left out: a step that is not   *)
(* taken yet is a nap.                                                     *)
(***************************************************************************)
EXTENDS Integers, ProcessRegistry, ProcessMonitor, ThreadController

CONSTANTS
    NumProcesses,    \* the -n option
    RespawnAtStart,  \* the -s option
    Recycle,         \* TRUE: a pid that was reaped may be given out again
    NoPid            \* no process

ASSUME ControllerAssumption ==
    /\ NumProcesses \in Nat \ {0}
    /\ RespawnAtStart \in BOOLEAN
    /\ Recycle \in BOOLEAN
    /\ Pids \subseteq Senders
    /\ NoPid \notin Senders \cup Pids

VARIABLES
    counter_,    \* handlers created less termination messages received
    respawn_,    \* the flag ProcessController::respawn_
    creator,     \* where the thread CreateMonitoringThreads is
    terminator,  \* [pc, pid]: the termination message in hand
    maker,       \* [pc, left, pid]: handlers still to create, the child in hand
    mainPc       \* where the thread of main() is

controllerVars == <<counter_, respawn_, creator, terminator, maker, mainPc>>

componentVars == <<childVars, queueVars, registryVars, monitorVars, consoleVars>>

ControllerTypeOK ==
    /\ counter_ \in Int
    /\ respawn_ \in BOOLEAN
    /\ creator \in {"off", "receive", "ended"}
    /\ terminator \in [pc : {"off", "receive", "find", "mark", "ended"},
                       pid : Senders \cup {NoPid}]
    /\ maker \in [pc : {"create", "count", "register", "off", "check", "size", "ended"},
                  left : Nat, pid : Pids \cup {NoPid}]
    /\ mainPc \in {"init", "launch", "start", "predicate", "aboutToBlock", "blocked",
                   "join", "stopReader", "joinReader", "exit"}

\* initializeController has set numProcesses_ and calls createHandlers.
ControllerInit ==
    /\ counter_ = 0
    /\ respawn_ = RespawnAtStart
    /\ creator = "off"
    /\ terminator = [pc |-> "off", pid |-> NoPid]
    /\ maker = [pc |-> "create", left |-> NumProcesses, pid |-> NoPid]
    /\ mainPc = "init"

-----------------------------------------------------------------------------
(***************************************************************************)
(* createHandlers and createHandler: fork, ++counter_, addMonitorProcess.  *)
(* Other threads and the child itself run between the three.  The kernel   *)
(* comes back to a pid only after going through all the others, long after *)
(* every thread and message has done with the child that had it before.    *)
(***************************************************************************)
InUse(p) == monPc[p] # "none" \/ terminator.pid = p
                \/ p \in Named(creationQ) \cup Named(terminationQ)

Available(p) == proc[p] = "free" \/ (Recycle /\ proc[p] = "reaped" /\ ~InUse(p))

MakerFork(p) ==
    /\ parent = "up"
    /\ maker.pc = "create"
    /\ Available(p)
    /\ ForkProcess(p)
    /\ maker' = [maker EXCEPT !.pc = "count", !.pid = p]
    /\ UNCHANGED <<queueVars, registryVars, monitorVars, consoleVars,
                   counter_, respawn_, creator, terminator, mainPc>>

\* fork() may fail at any time, and does when no pid is left: launchChildProcess logs the
\* exception and calls exit(EXIT_FAILURE).
MakerForkFails ==
    /\ maker.pc = "create"
    /\ ParentEnds("died")
    /\ UNCHANGED <<queueVars, registryVars, monitorVars, consoleVars, controllerVars>>

\* Mutant: the handler is not counted.
MakerForgetsToCount ==
    /\ parent = "up"
    /\ maker.pc = "count"
    /\ maker' = [maker EXCEPT !.pc = "register"]
    /\ UNCHANGED <<componentVars, counter_, respawn_, creator, terminator, mainPc>>

MakerCount ==
    /\ parent = "up"
    /\ maker.pc = "count"
    /\ counter_' = counter_ + 1
    /\ maker' = [maker EXCEPT !.pc = "register"]
    /\ UNCHANGED <<componentVars, respawn_, creator, terminator, mainPc>>

\* addMonitorProcess; after the last one createHandlers returns, the first time to main().
MakerRegister ==
    /\ parent = "up"
    /\ maker.pc = "register"
    /\ AddMonitorProcess(maker.pid)
    /\ maker' = [pc |-> IF maker.left > 1 THEN "create"
                       ELSE IF mainPc = "init" THEN "off" ELSE "check",
                 left |-> maker.left - 1,
                 pid |-> NoPid]
    /\ mainPc' = IF mainPc = "init" /\ maker.left = 1 THEN "launch" ELSE mainPc
    /\ UNCHANGED <<childVars, queueVars, monitorVars, consoleVars,
                   counter_, respawn_, creator, terminator>>

(***************************************************************************)
(* restoreHandlerCount.  counter_ is read twice, once to see that handlers *)
(* are missing and once to compute how many.                               *)
(***************************************************************************)
\* Mutant: the last missing handler is not missed.
RestoreCheckOffByOne ==
    /\ parent = "up"
    /\ maker.pc = "check"
    /\ running_[Parent] /\ ~pauseMonitoring_ /\ respawn_
    /\ counter_ < NumProcesses - 1
    /\ maker' = [maker EXCEPT !.pc = "size"]
    /\ UNCHANGED <<componentVars, counter_, respawn_, creator, terminator, mainPc>>

RestoreCheck ==
    /\ parent = "up"
    /\ maker.pc = "check"
    /\ running_[Parent] /\ ~pauseMonitoring_ /\ respawn_
    /\ counter_ < NumProcesses
    /\ maker' = [maker EXCEPT !.pc = "size"]
    /\ UNCHANGED <<componentVars, counter_, respawn_, creator, terminator, mainPc>>

\* Mutant: one handler too many.
RestoreSizeOffByOne ==
    /\ parent = "up"
    /\ maker.pc = "size"
    /\ maker' = [maker EXCEPT !.pc = "create", !.left = NumProcesses - counter_ + 1]
    /\ UNCHANGED <<componentVars, counter_, respawn_, creator, terminator, mainPc>>

\* Mutant: the operands are swapped.
RestoreSizeSwapped ==
    /\ parent = "up"
    /\ maker.pc = "size"
    /\ maker' = [maker EXCEPT !.pc = "create", !.left = counter_ - NumProcesses]
    /\ UNCHANGED <<componentVars, counter_, respawn_, creator, terminator, mainPc>>

RestoreSize ==
    /\ parent = "up"
    /\ maker.pc = "size"
    /\ maker' = [maker EXCEPT !.pc = "create", !.left = NumProcesses - counter_]
    /\ UNCHANGED <<componentVars, counter_, respawn_, creator, terminator, mainPc>>

RestoreEnds ==
    /\ parent = "up"
    /\ maker.pc = "check"
    /\ ~running_[Parent]
    /\ maker' = [maker EXCEPT !.pc = "ended"]
    /\ UNCHANGED <<componentVars, counter_, respawn_, creator, terminator, mainPc>>

MakerStep ==
    \/ \E p \in Pids : MakerFork(p)
    \/ MakerForkFails
    \/ MakerCount
    \/ MakerRegister
    \/ RestoreCheck
    \/ RestoreSize
    \/ RestoreEnds

-----------------------------------------------------------------------------
(***************************************************************************)
(* CreateMonitoringThreads.  A message that names no handler, or one that  *)
(* is monitored, is dropped with a warning.  Receiving it and acting on it *)
(* is one step: until then it might as well be in the queue.               *)
(***************************************************************************)
CreateMonitorThread ==
    /\ parent = "up"
    /\ creator = "receive"
    /\ running_[Parent]
    /\ \E p \in Senders :
         /\ ReceiveCreation(p)
         /\ IF HasMonitor(p) /\ ~monitor_[p]
            THEN CreateMonitorProcessThread(p)
            ELSE UNCHANGED monitorVars
    /\ UNCHANGED <<childVars, registryVars, consoleVars, controllerVars>>

CreatorEnds ==
    /\ parent = "up"
    /\ creator = "receive"
    /\ ~running_[Parent]
    /\ creator' = "ended"
    /\ UNCHANGED <<componentVars, counter_, respawn_, terminator, maker, mainPc>>

CreatorStep == CreateMonitorThread \/ CreatorEnds

-----------------------------------------------------------------------------
(***************************************************************************)
(* MonitorProcessTermination.  counter_ goes down for every message,       *)
(* before anything is known of the pid it names.                           *)
(***************************************************************************)
TerminatorReceive ==
    /\ parent = "up"
    /\ terminator.pc = "receive"
    /\ running_[Parent]
    /\ \E p \in Senders :
         /\ ReceiveTermination(p)
         /\ terminator' = [pc |-> "find", pid |-> p]
    /\ counter_' = counter_ - 1
    /\ UNCHANGED <<childVars, registryVars, monitorVars, consoleVars,
                   respawn_, creator, maker, mainPc>>

\* findMonitor, and monitoring() = false: only this thread's own store ends the wait loop.
TerminatorFind ==
    /\ parent = "up"
    /\ terminator.pc = "find"
    /\ IF HasMonitor(terminator.pid)
       THEN /\ monitor_' = [monitor_ EXCEPT ![terminator.pid] = FALSE]
            /\ terminator' = [terminator EXCEPT !.pc = "mark"]
       ELSE /\ terminator' = [pc |-> "receive", pid |-> NoPid]
            /\ UNCHANGED monitor_
    /\ UNCHANGED <<childVars, queueVars, registryVars, monPc, pauseMonitoring_, consoleVars,
                   counter_, respawn_, creator, maker, mainPc>>

\* The second look at monitoring(): TRUE again means an exception and no mark.
TerminatorMark ==
    /\ parent = "up"
    /\ terminator.pc = "mark"
    /\ IF monitor_[terminator.pid]
       THEN UNCHANGED registryVars
       ELSE MarkProcessAsDeceased(terminator.pid)
    /\ terminator' = [pc |-> "receive", pid |-> NoPid]
    /\ UNCHANGED <<childVars, queueVars, monitorVars, consoleVars,
                   counter_, respawn_, creator, maker, mainPc>>

TerminatorEnds ==
    /\ parent = "up"
    /\ terminator.pc = "receive"
    /\ ~running_[Parent]
    /\ terminator' = [terminator EXCEPT !.pc = "ended"]
    /\ UNCHANGED <<componentVars, counter_, respawn_, creator, maker, mainPc>>

TerminatorStep ==
    TerminatorReceive \/ TerminatorFind \/ TerminatorMark \/ TerminatorEnds

-----------------------------------------------------------------------------
(***************************************************************************)
(* processLifecycleLoop, run by main(): start the threads, wait on cv      *)
(* until running_ is down, join the threads.  Between the test of the      *)
(* predicate and the wait, a notify finds nobody waiting.                  *)
(***************************************************************************)
StartThreads ==
    /\ parent = "up"
    /\ mainPc = "start"
    /\ creator' = "receive"
    /\ terminator' = [terminator EXCEPT !.pc = "receive"]
    /\ maker' = [maker EXCEPT !.pc = "check"]
    /\ mainPc' = "predicate"
    /\ UNCHANGED <<componentVars, counter_, respawn_>>

MainTestsPredicate ==
    /\ parent = "up"
    /\ mainPc = "predicate"
    /\ mainPc' = IF running_[Parent] THEN "aboutToBlock" ELSE "join"
    /\ UNCHANGED <<componentVars, counter_, respawn_, creator, terminator, maker>>

MainBlocks ==
    /\ parent = "up"
    /\ mainPc = "aboutToBlock"
    /\ mainPc' = "blocked"
    /\ UNCHANGED <<componentVars, counter_, respawn_, creator, terminator, maker>>

\* A condition variable may wake for no reason; unless the predicate has become true,
\* main() goes back to wait.
SpuriousWakeup ==
    /\ parent = "up"
    /\ mainPc = "blocked"
    /\ ~running_[Parent]
    /\ mainPc' = "join"
    /\ UNCHANGED <<componentVars, counter_, respawn_, creator, terminator, maker>>

JoinThreads ==
    /\ parent = "up"
    /\ mainPc = "join"
    /\ creator = "ended" /\ terminator.pc = "ended" /\ maker.pc = "ended"
    /\ mainPc' = "stopReader"
    /\ UNCHANGED <<componentVars, counter_, respawn_, creator, terminator, maker>>

MainRuns == StartThreads \/ MainTestsPredicate \/ MainBlocks \/ JoinThreads

MainStep == MainRuns \/ SpuriousWakeup

\* cv.notify_all(): wakes main() if it waits, and is lost otherwise.
NotifyMain ==
    mainPc' = IF mainPc = "blocked" THEN "predicate" ELSE mainPc
=============================================================================
