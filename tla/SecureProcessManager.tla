------------------------ MODULE SecureProcessManager ------------------------
(***************************************************************************)
(* The whole program: the threads of the parent, its children, and what    *)
(* the world around them may do.                                           *)
(***************************************************************************)
EXTENDS Console, FiniteSets

CONSTANT Environment   \* what the world may do in this model

ASSUME EnvironmentAssumption == Environment \subseteq {"crash", "kill", "interrupt", "eof"}

vars == <<childVars, queueVars, registryVars, monitorVars, controllerVars, consoleVars>>

parentVars == <<registryVars, monitorVars, controllerVars, consoleVars>>

TypeOK ==
    /\ ChildTypeOK
    /\ QueueTypeOK
    /\ RegistryTypeOK
    /\ MonitorTypeOK
    /\ ControllerTypeOK
    /\ ConsoleTypeOK

Init ==
    /\ ChildInit
    /\ QueueInit
    /\ RegistryInit
    /\ MonitorInit
    /\ ControllerInit
    /\ ConsoleInit

-----------------------------------------------------------------------------
\* BaseProcess::preWork: the creation message of child p.
ChildSendsCreation(p) ==
    /\ PreWork(p)
    /\ SendCreation(p, running_[p])
    /\ UNCHANGED parentVars

\* BaseProcess::postWork: the termination message, unless the parent is seen to be gone.
ChildSendsTermination(p) ==
    /\ PostWork(p)
    /\ IF SeesParentGone THEN UNCHANGED queueVars ELSE SendTermination(p, running_[p])
    /\ UNCHANGED parentVars

ChildExits(p) ==
    /\ ExitProcess(p)
    /\ UNCHANGED <<queueVars, parentVars>>

ChildStep(p) == ChildSendsCreation(p) \/ ChildSendsTermination(p) \/ ChildExits(p)

-----------------------------------------------------------------------------
\* SIGKILL from outside to the parent.
Crash ==
    /\ "crash" \in Environment
    /\ ParentEnds("died")
    /\ UNCHANGED <<queueVars, parentVars>>

\* SIGKILL from outside to child p.
ExternalKill(p) ==
    /\ "kill" \in Environment
    /\ parent = "up"
    /\ Alive(p)
    /\ Signal("SIGKILL", p)
    /\ UNCHANGED <<queueVars, parentVars>>

\* Ctrl-C: SIGINT to the whole foreground process group.  The constructor of BaseProcess
\* ran in the parent, so signalHandler runs there too.
Interrupt ==
    /\ "interrupt" \in Environment
    /\ parent = "up"
    /\ continue_[Parent]
    /\ maker.pid # NoPid \/ handlers_ # {}
    /\ continue_' = [p \in Processes |->
                       continue_[p] /\ p # Parent /\ proc[p] \notin Unannounced]
    /\ UNCHANGED <<proc, running_, parent, queueVars, parentVars>>

\* The user closes the input.
CloseInput ==
    /\ "eof" \in Environment
    /\ stdin = "open"
    /\ stdin' = "eof"
    /\ UNCHANGED <<childVars, queueVars, registryVars, monitorVars, controllerVars,
                   console, stopFlag>>

EnvironmentStep ==
    \/ Crash
    \/ \E p \in Pids : ExternalKill(p)
    \/ Interrupt
    \/ CloseInput

-----------------------------------------------------------------------------
\* Everything but the monitor thread of a child.
monitorRest == <<registryVars, controllerVars, consoleVars>>

MonitorStep(p) ==
    \/ MonitorBegin(p) /\ UNCHANGED monitorRest
    \/ MonitorPoll(p) /\ UNCHANGED monitorRest
    \/ MonitorLeaves(p) /\ UNCHANGED monitorRest
    \/ MonitorReport(p) /\ UNCHANGED monitorRest
    \/ MonitorStop(p) /\ UNCHANGED monitorRest

\* Everything is over.
Done ==
    /\ parent # "up"
    /\ \A p \in Pids : proc[p] \in {"free", "reaped"}
    /\ UNCHANGED vars

Next ==
    \/ MakerStep \/ CreatorStep \/ TerminatorStep \/ MainStep
    \/ ReaderStep \/ UserStep \/ ExitStep
    \/ \E p \in Pids : ChildStep(p) \/ MonitorStep(p)
    \/ EnvironmentStep
    \/ Done

Spec == Init /\ [][Next]_vars

(***************************************************************************)
(* The operating system schedules every runnable thread and process.       *)
(* Nothing is asked of the user, who need not type nor close the input, or *)
(* of the world outside, whose signals need not come.                      *)
(***************************************************************************)
Fairness ==
    /\ WF_vars(MakerStep)
    /\ WF_vars(CreatorStep)
    /\ WF_vars(TerminatorStep)
    /\ WF_vars(MainRuns)
    /\ WF_vars(ReaderStep)
    /\ WF_vars(ExitStep)
    /\ \A p \in Pids : WF_vars(ChildStep(p)) /\ WF_vars(MonitorStep(p))

FairSpec == Spec /\ Fairness

\* An input that ends at last: that of a script, not that of a terminal.
ScriptedSpec == FairSpec /\ WF_vars(CloseInput)

-----------------------------------------------------------------------------
(***************************************************************************)
(* Safety.                                                                 *)
(***************************************************************************)
Uncounted == IF maker.pc = "count" THEN {maker.pid} ELSE {}

\* counter_ and the handlers the maker has still to count never exceed the number
\* asked for with -n, whatever the order of createHandler, RestoreSize and --counter_.
CounterBound ==
    LET uncounted == IF maker.pc \in {"create", "count"} THEN maker.left
                     ELSE IF maker.pc = "register" THEN maker.left - 1 ELSE 0
    IN counter_ + uncounted <= NumProcesses

\* A child marked deceased, which term all and kill all will pass over, is one whose
\* work is over.
DeceasedSound ==
    \A p \in deceasedProcesses_ : proc[p] \in Finished

\* Every child that runs, or whose end is not yet taken off counter_, has its unit in
\* counter_, or will get it from the maker: a replacement is started only for a child
\* that is over.
Owed ==
    {p \in Pids : \/ proc[p] \in Unannounced \cup {"killed"}
                  \/ monPc[p] = "report"
                  \/ p \in Named(terminationQ)}

SlotAccounting ==
    parent = "up" => Cardinality(Owed) <= counter_ + Cardinality(Uncounted)

\* Never more than -n children run at a time.
PopulationBound ==
    parent = "up" => Cardinality({p \in Pids : proc[p] \in Unannounced}) <= NumProcesses

\* A child gets one monitor thread: no second one is created while the first runs.
OneMonitorThread ==
    \A p \in handlers_ : p \in Named(creationQ) /\ ~monitor_[p] => monPc[p] = "none"

\* A registered child that works is monitored, or the message that will start its
\* monitor is on its way.
Monitored(p) == monPc[p] # "none" \/ p \in Named(creationQ)

EveryChildMonitored ==
    parent = "up" /\ running_[Parent] =>
        \A p \in handlers_ : proc[p] = "working" => Monitored(p)

\* The program does not exit until all processes are terminated: when main() has returned,
\* every child is over, or has at least been told to end.
NoOrphanAtExit ==
    parent = "exited" =>
        \A p \in Pids : ~(proc[p] \in Unannounced /\ continue_[p])

\* A child starts with its continue_ flag up: it works until it is itself told to stop.
StartsWorking == \A p \in Pids : proc[p] = "free" /\ proc'[p] = "born" => continue_'[p]

StartsWorkingAlways == [][StartsWorking]_vars

(***************************************************************************)
(* Liveness.                                                               *)
(***************************************************************************)
\* quit ends the program (README: "Gracefully exits the program").
QuitExits == console.job = "quit" ~> parent # "up"

\* After quit nothing is left to wait for but the user: running_ goes down, every thread
\* sees it, main() is woken and joins them all, and the program ends, unless the reader is
\* back in peek() by then and no line comes (MainController::stop, ThreadController::stop).
WaitsForInput == mainPc = "joinReader" /\ console.pc = "peek" /\ stdin = "open"

QuitExitsUnlessReading == console.job = "quit" ~> (parent # "up" \/ WaitsForInput)

\* term all ends the program.
TermAllExits == console.job = "term all" ~> parent # "up"

Undisturbed == parent = "up" /\ running_[Parent] /\ ~pauseMonitoring_

\* A child that is killed is reported: the monitor thread finds the zombie, reaps it and
\* sends the termination message that the child could not send, and the terminator takes it.
KilledIsReported ==
    \A p \in Pids :
        (Undisturbed /\ proc[p] = "killed" /\ monPc[p] # "none")
            ~> ((proc[p] = "reaped" /\ terminator.pid = p) \/ ~Undisturbed)

\* A missing child is replaced while respawn is on: restoreHandlerCount notices, and forks.
\* counter_ itself need not come back to -n, for the new child may be over before it counts.
MissingIsReplaced ==
    (Undisturbed /\ respawn_ /\ counter_ < NumProcesses)
        ~> (maker.pc = "count" \/ ~Undisturbed \/ ~respawn_)

-----------------------------------------------------------------------------
\* The promise: see Supervisor.
Promise ==
    INSTANCE Supervisor WITH
        Children <- Pids,
        Capacity <- NumProcesses,
        live <- {p \in Pids : proc[p] \in Unannounced},
        spent <- {p \in Pids : proc[p] \in Finished},
        up <- parent = "up"

KeepsPromise == Promise!SupervisorSpec
=============================================================================
