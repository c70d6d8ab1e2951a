------------------------------ MODULE Console ------------------------------
(***************************************************************************)
(* The console commands: doCommand, what api and ProcessController do for  *)
(* each, and the end of main().  The command "other" stands for every line *)
(* that changes no state: help, context, display pids, one not understood. *)
(***************************************************************************)
EXTENDS MainController

CONSTANTS
    Commands,         \* the commands the user types in this model
    StopNapSuffices   \* TRUE: the 100 ms nap of stop() outlasts main()'s step into its wait

ASSUME ConsoleAssumption ==
    /\ Commands \subseteq {"quit", "term all", "int all", "kill all", "term", "int", "kill",
                           "monitor off", "monitor on", "respawn off", "respawn on",
                           "other"}
    /\ StopNapSuffices \in BOOLEAN

\* Everything but the reader thread.
programVars == <<childVars, queueVars, registryVars, monitorVars, controllerVars>>

\* The controller without the thread of main().
threadVars == <<counter_, respawn_, creator, terminator, maker>>

ReaderLoop ==
    /\ parent = "up"
    /\ TestFlag \/ PeekEof
    /\ UNCHANGED programVars

\* The user types c, a command that is over at once.
Types(c) ==
    /\ parent = "up"
    /\ c \in Commands
    /\ RunCommand("head", "none")

OtherCommand ==
    /\ Types("other")
    /\ UNCHANGED programVars

\* monitor on, monitor off: the threads stay, and skip their work while paused.
PauseCommand ==
    /\ \/ Types("monitor off") /\ pauseMonitoring_' = TRUE
       \/ Types("monitor on") /\ pauseMonitoring_' = FALSE
    /\ UNCHANGED <<childVars, queueVars, registryVars, monPc, monitor_, controllerVars>>

RespawnCommand ==
    /\ \/ Types("respawn off") /\ respawn_' = FALSE
       \/ Types("respawn on") /\ respawn_' = TRUE
    /\ UNCHANGED <<childVars, queueVars, registryVars, monitorVars,
                   counter_, creator, terminator, maker, mainPc>>

\* The signal each command sends.
SignalOf(c) ==
    CASE c \in {"term", "term all", "quit"} -> "SIGTERM"
      [] c \in {"int", "int all"} -> "SIGINT"
      [] c \in {"kill", "kill all", "quit: kill"} -> "SIGKILL"

\* term <pid>, int <pid>, kill <pid>: any handler, one marked deceased included.
SignalOneCommand(c, p) ==
    /\ c \in {"term", "int", "kill"}
    /\ HasMonitor(p)
    /\ Types(c)
    /\ Signal(SignalOf(c), p)
    /\ UNCHANGED <<queueVars, registryVars, monitorVars, controllerVars>>

-----------------------------------------------------------------------------
(***************************************************************************)
(* quit, term all, int all, kill all: running_ goes down, then the signal  *)
(* goes to each handler of a snapshot of the registry, one after another.  *)
(* quit does this twice, with SIGTERM and with SIGKILL, and only quit      *)
(* notifies main().                                                        *)
(***************************************************************************)
StopCommand(c) ==
    /\ parent = "up"
    /\ c \in Commands \cap {"quit", "term all", "int all", "kill all"}
    /\ RunCommand("snapshot", c)
    /\ running_' = [running_ EXCEPT ![Parent] = FALSE]
    /\ UNCHANGED <<proc, continue_, parent, queueVars, registryVars, monitorVars,
                   controllerVars>>

TakeSnapshot ==
    /\ parent = "up"
    /\ console.pc = "snapshot"
    /\ console' = [console EXCEPT !.pc = "signal", !.todo = ActiveHandlers]
    /\ UNCHANGED <<stopFlag, stdin, programVars>>

SignalNext(p) ==
    /\ parent = "up"
    /\ console.pc = "signal"
    /\ p \in console.todo
    /\ Signal(SignalOf(console.job), p)
    /\ console' = [console EXCEPT !.todo = @ \ {p}]
    /\ UNCHANGED <<stopFlag, stdin, queueVars, registryVars, monitorVars, controllerVars>>

\* MainController::stop after terminateAll: the nap of 100 ms, then killAll.
QuitGoesOnToKill ==
    /\ parent = "up"
    /\ console.pc = "signal" /\ console.todo = {} /\ console.job = "quit"
    /\ StopNapSuffices => mainPc # "aboutToBlock"
    /\ console' = [console EXCEPT !.pc = "snapshot", !.job = "quit: kill"]
    /\ UNCHANGED <<stopFlag, stdin, programVars>>

\* Mutant: no cv.notify_all().
QuitForgetsToNotify ==
    /\ parent = "up"
    /\ console.pc = "signal" /\ console.todo = {} /\ console.job = "quit: kill"
    /\ console' = [console EXCEPT !.pc = "head", !.job = "none"]
    /\ UNCHANGED <<stopFlag, stdin, programVars>>

QuitNotifies ==
    /\ parent = "up"
    /\ console.pc = "signal" /\ console.todo = {} /\ console.job = "quit: kill"
    /\ NotifyMain
    /\ console' = [console EXCEPT !.pc = "head", !.job = "none"]
    /\ UNCHANGED <<stopFlag, stdin, childVars, queueVars, registryVars, monitorVars,
                   threadVars>>

\* term all, int all and kill all return without a word to main().
StopCommandReturns ==
    /\ parent = "up"
    /\ console.pc = "signal" /\ console.todo = {}
    /\ console.job \in {"term all", "int all", "kill all"}
    /\ console' = [console EXCEPT !.pc = "head", !.job = "none"]
    /\ UNCHANGED <<stopFlag, stdin, programVars>>

ReaderStep ==
    \/ ReaderLoop
    \/ TakeSnapshot
    \/ \E p \in Pids : SignalNext(p)
    \/ QuitGoesOnToKill
    \/ QuitNotifies
    \/ StopCommandReturns

UserStep ==
    \/ OtherCommand
    \/ PauseCommand
    \/ RespawnCommand
    \/ \E c \in Commands : StopCommand(c)
    \/ \E c \in Commands, p \in Pids : SignalOneCommand(c, p)

-----------------------------------------------------------------------------
\* main() calls consoleLoop() before api::execute().
StartReader ==
    /\ parent = "up"
    /\ mainPc = "launch"
    /\ RunReader
    /\ mainPc' = "start"
    /\ UNCHANGED <<childVars, queueVars, registryVars, monitorVars, threadVars>>

\* consoleLoop(false), first half: the stop flag.
StopReader ==
    /\ parent = "up"
    /\ mainPc = "stopReader"
    /\ RaiseStopFlag
    /\ mainPc' = "joinReader"
    /\ UNCHANGED <<childVars, queueVars, registryVars, monitorVars, threadVars>>

\* consoleLoop(false), second half: the join.
JoinReader ==
    /\ parent = "up"
    /\ mainPc = "joinReader"
    /\ ReaderHasStopped
    /\ mainPc' = "exit"
    /\ UNCHANGED <<consoleVars, childVars, queueVars, registryVars, monitorVars, threadVars>>

\* main() returns after its last nap.
MainReturns ==
    /\ mainPc = "exit"
    /\ ParentEnds("exited")
    /\ UNCHANGED <<queueVars, registryVars, monitorVars, controllerVars, consoleVars>>

ExitStep == StartReader \/ StopReader \/ JoinReader \/ MainReturns
=============================================================================
