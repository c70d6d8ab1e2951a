--------------------------- MODULE ShutdownProofs ---------------------------
(***************************************************************************)
(* The children of a run that replaces nobody are those of createHandlers, *)
(* and none of them is left untold when main() returns.                    *)
(***************************************************************************)
EXTENDS AccountingProofs

-----------------------------------------------------------------------------
(***************************************************************************)
(* Without respawn the only children are those of createHandlers, which    *)
(* have all been registered when the console and the threads start.        *)
(***************************************************************************)
NoRespawn == ~RespawnAtStart /\ "respawn on" \notin Commands

Making == {"create", "count", "register"}

InHand == IF maker.pc \in {"count", "register"} THEN {maker.pid} ELSE {}

FirstOnly ==
    /\ respawn_ = FALSE
    /\ maker.pc # "size"
    /\ mainPc = "init" <=> maker.pc \in Making
    /\ \A p \in Pids : proc[p] # "free" => p \in handlers_ \cup InHand
    /\ console.pc # "off" => mainPc \notin {"init", "launch"}
    /\ creator # "off" => mainPc # "init"

\* main() is at its first createHandler, and nobody has set respawn_.
LEMMA InitFirst == NoRespawn /\ Init => FirstOnly
<1> SUFFICES ASSUME NoRespawn, Init PROVE FirstOnly
    OBVIOUS
<1>1. respawn_ = FALSE
    BY ControllerAssumption DEF NoRespawn, Init, ControllerInit
<1>2. /\ maker.pc = "create" /\ mainPc = "init" /\ creator = "off" /\ console.pc = "off"
      /\ \A p \in Pids : proc[p] = "free"
    BY DEF Init, ChildInit, ControllerInit, ConsoleInit
<1> QED
    BY <1>1, <1>2 DEF FirstOnly, Making

\* A step that leaves the makers of children alone, and in which no pid is given out.
LEMMA FirstKept ==
    ASSUME FirstOnly, UNCHANGED <<respawn_, maker, creator, mainPc, handlers_, console>>,
           \A p \in Pids : proc'[p] # "free" => proc[p] # "free"
    PROVE  FirstOnly'
BY DEF FirstOnly, InHand

\* What an outer step does to the controller: the console starts when main() launches it,
\* the threads when main() starts them, and nobody turns respawn on.
LEMMA OuterController ==
    ASSUME Typed, NoRespawn, OuterStep
    PROVE  /\ mainPc' \in {"init", "launch"} => UNCHANGED mainPc
           /\ mainPc = "init" => UNCHANGED mainPc
           /\ console'.pc # "off" => console.pc # "off" \/ (mainPc = "launch" /\ mainPc' = "start")
           /\ creator' # "off" => creator # "off" \/ mainPc = "start"
           /\ UNCHANGED handlers_
           /\ respawn_ = FALSE => respawn_' = FALSE
<1>1. CASE MainStep
    BY <1>1 DEF MainStep, MainRuns, StartThreads, MainTestsPredicate, MainBlocks,
                SpuriousWakeup, JoinThreads, componentVars, registryVars, consoleVars
<1>2. CASE ExitStep
    BY <1>2 DEF ExitStep, StartReader, StopReader, JoinReader, MainReturns, RaiseStopFlag,
                registryVars, controllerVars, consoleVars, threadVars
<1>3. CASE EnvironmentStep
    BY <1>3 DEF EnvironmentStep, Crash, ExternalKill, Interrupt, CloseInput, parentVars,
                registryVars, controllerVars, consoleVars
<1>4. CASE ReaderStep
  <2>1. console.pc # "off"
      BY <1>4 DEF ReaderStep, ReaderLoop, TestFlag, PeekEof, TakeSnapshot, SignalNext,
                  QuitGoesOnToKill, QuitNotifies, StopCommandReturns
  <2>2. UNCHANGED <<handlers_, respawn_, creator>>
        /\ mainPc' = (IF QuitNotifies /\ mainPc = "blocked" THEN "predicate" ELSE mainPc)
      BY <1>4 DEF ReaderStep, ReaderLoop, TakeSnapshot, SignalNext, QuitGoesOnToKill,
                  QuitNotifies, NotifyMain, StopCommandReturns, programVars, registryVars,
                  controllerVars, threadVars
  <2> QED
      BY <2>1, <2>2
<1>5. CASE UserStep
  <2>1. console.pc # "off"
      BY <1>5 DEF UserStep, OtherCommand, PauseCommand, RespawnCommand, StopCommand,
                  SignalOneCommand, Types, RunCommand
  <2>2. UNCHANGED <<handlers_, creator, mainPc>>
      BY <1>5 DEF UserStep, OtherCommand, PauseCommand, RespawnCommand, StopCommand,
                  SignalOneCommand, programVars, registryVars, controllerVars
  <2>3. respawn_ = FALSE => respawn_' = FALSE
      BY <1>5 DEF NoRespawn, UserStep, OtherCommand, PauseCommand, RespawnCommand, Types,
                  StopCommand, SignalOneCommand, programVars, controllerVars
  <2> QED
      BY <2>1, <2>2, <2>3
<1> QED
    BY <1>1, <1>2, <1>3, <1>4, <1>5 DEF OuterStep

\* The outer steps make no child.
LEMMA OuterFirst == Typed /\ NoRespawn /\ FirstOnly /\ OuterStep => FirstOnly'
<1> SUFFICES ASSUME Typed, NoRespawn, FirstOnly, OuterStep PROVE FirstOnly'
    OBVIOUS
<1>1. \A p \in Pids : proc'[p] # "free" => proc[p] # "free"
    BY OuterChildren DEF Killing, Reaping, Alive, Unannounced
<1>2. \/ UNCHANGED maker
      \/ mainPc = "start" /\ maker'.pc = "check" /\ maker.pc \notin Making
    BY OuterMaker DEF FirstOnly, Typed, TypeOK, ControllerTypeOK
<1>3. maker'.pc # "size" /\ (maker'.pc \in Making <=> maker.pc \in Making)
    BY <1>2 DEF FirstOnly, Making
<1>4. InHand' = InHand
    BY <1>2 DEF InHand, Making
<1> QED
    BY <1>1, <1>3, <1>4, OuterController DEF FirstOnly

\* createHandlers registers the children it forks; restoreHandlerCount forks none.
LEMMA MakerFirst == Typed /\ FirstOnly /\ MakerStep => FirstOnly'
<1> SUFFICES ASSUME Typed, FirstOnly, MakerStep PROVE FirstOnly'
    OBVIOUS
<1>1. UNCHANGED <<respawn_, creator, console>>
    BY DEF MakerStep, MakerFork, MakerForkFails, MakerCount, MakerRegister, RestoreCheck,
           RestoreSize, RestoreEnds, componentVars, consoleVars, controllerVars
<1>2. ASSUME NEW p \in Pids, MakerFork(p) PROVE FirstOnly'
  <2>1. /\ proc' = [proc EXCEPT ![p] = "born"]
        /\ maker.pc = "create"
        /\ maker' = [maker EXCEPT !.pc = "count", !.pid = p]
        /\ UNCHANGED <<mainPc, handlers_>>
      BY <1>2 DEF MakerFork, ForkProcess, registryVars
  <2>2. maker'.pc = "count" /\ maker'.pid = p
      BY <2>1 DEF Typed, TypeOK, ControllerTypeOK
  <2>3. \A r \in Pids : r # p => proc'[r] = proc[r]
      BY <2>1 DEF Typed, TypeOK, ChildTypeOK
  <2>4. InHand' = {p} /\ InHand = {}
      BY <2>1, <2>2 DEF InHand
  <2> QED
      BY <1>1, <2>1, <2>2, <2>3, <2>4 DEF FirstOnly, Making
<1>3. CASE MakerForkFails
  <2>1. Reaping /\ UNCHANGED <<maker, mainPc, handlers_>>
      BY <1>3, EndReaps DEF MakerForkFails, registryVars, controllerVars
  <2> QED
      BY <1>1, <2>1, FirstKept DEF Reaping
<1>4. CASE MakerCount \/ RestoreEnds
  <2>1. /\ UNCHANGED <<proc, mainPc, handlers_>>
        /\ \/ maker.pc = "count" /\ maker' = [maker EXCEPT !.pc = "register"]
           \/ maker.pc = "check" /\ maker' = [maker EXCEPT !.pc = "ended"]
      BY <1>4 DEF MakerCount, RestoreEnds, componentVars, childVars, registryVars
  <2>2. /\ maker'.pc # "size"
        /\ maker'.pc \in Making <=> maker.pc \in Making
        /\ InHand' = InHand
      BY <2>1 DEF Making, InHand, Typed, TypeOK, ControllerTypeOK
  <2> QED
      BY <1>1, <2>1, <2>2 DEF FirstOnly
<1>5. CASE MakerRegister
  <2>1. /\ maker.pc = "register" /\ mainPc = "init"
        /\ UNCHANGED proc
        /\ handlers_' = handlers_ \cup {maker.pid}
        /\ mainPc' = IF maker.left = 1 THEN "launch" ELSE "init"
        /\ maker'.pc = IF maker.left > 1 THEN "create" ELSE "off"
      BY <1>5 DEF MakerRegister, AddMonitorProcess, childVars, FirstOnly, Making
  <2>2. maker.left \in Nat /\ maker.left >= 1
      BY <2>1 DEF Typed, TypeOK, ControllerTypeOK, MakerOK
  <2>3. InHand = {maker.pid} /\ InHand' = {}
      BY <2>1 DEF InHand
  <2>4. console.pc = "off" /\ creator = "off"
      BY <2>1 DEF FirstOnly
  <2>5. mainPc' = "init" <=> maker'.pc \in Making
      BY <2>1, <2>2 DEF Making
  <2>6. maker'.pc # "size"
      BY <2>1
  <2> QED
      BY <1>1, <2>1, <2>3, <2>4, <2>5, <2>6 DEF FirstOnly
<1>6. ~RestoreCheck /\ ~RestoreSize
    BY DEF RestoreCheck, RestoreSize, FirstOnly
<1> QED
    BY <1>2, <1>3, <1>4, <1>5, <1>6 DEF MakerStep

\* Every step of the program keeps it.
LEMMA NextFirst == NoRespawn /\ Typed /\ FirstOnly /\ [Next]_vars => FirstOnly'
<1> SUFFICES ASSUME NoRespawn, Typed, FirstOnly, [Next]_vars PROVE FirstOnly'
    OBVIOUS
<1>1. CASE UNCHANGED vars
    BY <1>1, FirstKept DEF vars, childVars, registryVars, controllerVars, consoleVars
<1>2. CASE Done
    BY <1>1, <1>2 DEF Done
<1>3. CASE OuterStep
    BY <1>3, OuterFirst
<1>4. CASE MakerStep
    BY <1>4, MakerFirst
<1>5. CASE CreatorStep
  <2>1. /\ UNCHANGED <<proc, respawn_, maker, mainPc, handlers_, console>>
        /\ creator # "off"
      BY <1>5 DEF CreatorStep, CreateMonitorThread, CreatorEnds, componentVars, childVars,
                  registryVars, controllerVars, consoleVars
  <2> QED
      BY <2>1 DEF FirstOnly, InHand
<1>6. CASE TerminatorStep
  <2>1. UNCHANGED <<proc, respawn_, maker, creator, mainPc, handlers_, console>>
      BY <1>6 DEF TerminatorStep, TerminatorReceive, TerminatorFind, TerminatorMark,
                  TerminatorEnds, MarkProcessAsDeceased, componentVars, childVars,
                  registryVars, consoleVars
  <2> QED
      BY <2>1, FirstKept
<1>7. ASSUME NEW p \in Pids, ChildStep(p) \/ MonitorStep(p) PROVE FirstOnly'
  <2>1. UNCHANGED <<respawn_, maker, creator, mainPc, handlers_, console>>
      BY <1>7 DEF ChildStep, ChildSendsCreation, ChildSendsTermination, ChildExits,
                  MonitorStep, monitorRest, parentVars, registryVars, controllerVars,
                  consoleVars
  <2>2. \A r \in Pids : proc'[r] # "free" => proc[r] # "free"
      BY <1>7 DEF ChildStep, ChildSendsCreation, PreWork, ChildSendsTermination, PostWork,
                  ChildExits, ExitProcess, MonitorStep, MonitorBegin, MonitorPoll,
                  MonitorLeaves, MonitorReport, MonitorStop, childVars, Typed, TypeOK,
                  ChildTypeOK
  <2> QED
      BY <2>1, <2>2, FirstKept
<1> QED
    BY <1>1, <1>2, <1>3, <1>4, <1>5, <1>6, <1>7 DEF Next, OuterStep

-----------------------------------------------------------------------------
(***************************************************************************)
(* While main() makes them no thread waits for a child, so that no pid has *)
(* come free again: each of them has one of its own, also where the kernel *)
(* gives pids out a second time.                                           *)
(***************************************************************************)
NoneReaped ==
    mainPc = "init" /\ parent = "up" =>
        \A p \in Pids : monPc[p] = "none" /\ proc[p] # "reaped"

\* There is no child yet.
LEMMA InitNoneReaped == Init => NoneReaped
BY DEF Init, ChildInit, MonitorInit, NoneReaped

\* Every pid that these forks can get is a new one.
LEMMA FirstFresh == FirstOnly /\ NoneReaped => FreshPids
BY DEF FirstOnly, NoneReaped, FreshPids, Available, Making

\* A step in which no monitor starts and nobody is reaped.
LEMMA NoneReapedKept ==
    ASSUME NoneReaped, mainPc' = "init" => mainPc = "init", parent' = "up" => parent = "up",
           UNCHANGED monPc, \A p \in Pids : proc'[p] = "reaped" => proc[p] = "reaped"
    PROVE  NoneReaped'
BY DEF NoneReaped

\* Every step of the program keeps it: the threads that could wait for a child start later.
LEMMA NextNoneReaped ==
    NoRespawn /\ Typed /\ FirstOnly /\ NoneReaped /\ [Next]_vars => NoneReaped'
<1> SUFFICES ASSUME NoRespawn, Typed, FirstOnly, NoneReaped, [Next]_vars,
                    mainPc' = "init", parent' = "up"
             PROVE  NoneReaped'
    BY DEF NoneReaped
<1>1. CASE UNCHANGED vars
    BY <1>1, NoneReapedKept DEF vars, childVars, monitorVars, controllerVars
<1>2. CASE Done
    BY <1>1, <1>2 DEF Done
<1>3. CASE OuterStep
  <2>1. UNCHANGED <<mainPc, monPc>>
      BY <1>3, OuterController, OuterSlots DEF slotVars
  <2>2. UNCHANGED parent /\ \A p \in Pids : proc'[p] = "reaped" => proc[p] = "reaped"
      BY <1>3, OuterChildren DEF Killing, Reaping
  <2> QED
      BY <2>1, <2>2, NoneReapedKept
<1>4. CASE MakerStep
  <2>1. /\ UNCHANGED <<monPc, parent>> /\ mainPc = "init"
        /\ \A p \in Pids : proc'[p] = "reaped" => proc[p] = "reaped"
      BY <1>4 DEF MakerStep, MakerFork, MakerForkFails, MakerCount, MakerRegister,
                  RestoreCheck, RestoreSize, RestoreEnds, ParentEnds, ForkProcess,
                  componentVars, childVars, monitorVars, Typed, TypeOK, ChildTypeOK
  <2> QED
      BY <2>1, NoneReapedKept
<1>5. CASE CreatorStep
  <2>1. mainPc = "init" /\ creator # "off"
      BY <1>5 DEF CreatorStep, CreateMonitorThread, CreatorEnds, controllerVars
  <2> QED
      BY <2>1 DEF FirstOnly
<1>6. CASE TerminatorStep
  <2>1. UNCHANGED <<proc, parent, mainPc, monPc>>
      BY <1>6 DEF TerminatorStep, TerminatorReceive, TerminatorFind, TerminatorMark,
                  TerminatorEnds, componentVars, childVars, monitorVars
  <2> QED
      BY <2>1, NoneReapedKept
<1>7. ASSUME NEW p \in Pids, ChildStep(p) PROVE NoneReaped'
  <2>1. /\ UNCHANGED <<parent, mainPc, monPc>>
        /\ \A r \in Pids : proc'[r] = "reaped" => proc[r] = "reaped"
      BY <1>7 DEF ChildStep, ChildSendsCreation, PreWork, ChildSendsTermination, PostWork,
                  ChildExits, ExitProcess, parentVars, monitorVars, controllerVars, Typed,
                  TypeOK, ChildTypeOK
  <2> QED
      BY <2>1, NoneReapedKept
<1>8. ASSUME NEW p \in Pids, MonitorStep(p) PROVE FALSE
  <2>1. mainPc = "init" /\ parent = "up" /\ monPc[p] # "none"
      BY <1>8 DEF MonitorStep, MonitorBegin, MonitorPoll, MonitorLeaves, MonitorReport,
                  MonitorStop, monitorRest, controllerVars
  <2> QED
      BY <2>1 DEF NoneReaped
<1> QED
    BY <1>1, <1>2, <1>3, <1>4, <1>5, <1>6, <1>7, <1>8 DEF Next, OuterStep

-----------------------------------------------------------------------------
(***************************************************************************)
(* Nobody is left untold.  The commands that end the program lower         *)
(* running_ before they signal the children, and main() returns only when  *)
(* the console has stopped; so a child that has not been told to end is on *)
(* the list of a command that is still at work.                            *)
(***************************************************************************)
Untold(p) == proc[p] \in Unannounced /\ continue_[p]

ToBeTold(p) ==
    \/ console.pc = "snapshot"
    \/ console.pc = "signal" /\ p \in console.todo

Told ==
    /\ ~running_[Parent] =>
          console.pc # "off" /\ \A p \in Pids : Untold(p) => ToBeTold(p)
    /\ mainPc \in {"join", "stopReader", "joinReader", "exit"} => ~running_[Parent]
    /\ mainPc = "exit" => console.pc = "stopped"
    /\ parent = "exited" => mainPc = "exit"

\* No step but a fork makes a child untold.
Telling == \A p \in Pids : Untold(p)' => Untold(p)

\* There is no child to tell.
LEMMA InitTold == Init => Told
<1> SUFFICES ASSUME Init PROVE Told
    OBVIOUS
<1>1. running_[Parent] = TRUE
    BY DEF Init, ChildInit, Processes
<1>2. mainPc = "init" /\ parent = "up"
    BY DEF Init, ChildInit, ControllerInit
<1> QED
    BY <1>1, <1>2 DEF Told

\* A signal tells the child it is for, and makes no other untold.
LEMMA SignalTells ==
    ASSUME Typed, NEW p \in Pids, NEW sig \in {"SIGTERM", "SIGINT", "SIGKILL"}, Signal(sig, p)
    PROVE  Telling /\ ~Untold(p)'
<1>1. CASE sig = "SIGKILL"
  <2>1. /\ proc' = [proc EXCEPT ![p] = IF Alive(p) THEN "killed" ELSE proc[p]]
        /\ continue_' = [continue_ EXCEPT ![p] = continue_[p] \/ Alive(p)]
      BY <1>1 DEF Signal, HandleKill
  <2>2. proc'[p] \notin Unannounced
      BY <2>1 DEF Alive, Typed, TypeOK, ChildTypeOK, Unannounced
  <2>3. \A r \in Pids : r # p => proc'[r] = proc[r]
      BY <2>1 DEF Typed, TypeOK, ChildTypeOK
  <2>4. \A r \in Pids : r # p => continue_'[r] = continue_[r]
      BY <2>1, Zenon DEF Typed, TypeOK, ChildTypeOK, Processes
  <2> QED
      BY <2>2, <2>3, <2>4 DEF Telling, Untold
<1>2. CASE sig # "SIGKILL"
  <2>1. /\ continue_' = [continue_ EXCEPT ![p] = continue_[p] /\ proc[p] \notin Unannounced]
        /\ UNCHANGED proc
      BY <1>2 DEF Signal, HandleStop
  <2>2. \A r \in Pids : r # p => continue_'[r] = continue_[r]
      BY <2>1, Zenon DEF Typed, TypeOK, ChildTypeOK, Processes
  <2>3. continue_'[p] <=> continue_[p] /\ proc[p] \notin Unannounced
    <3>1. p \in Processes /\ continue_ \in [Processes -> BOOLEAN]
        BY DEF Processes, Typed, TypeOK, ChildTypeOK
    <3> QED
        BY <2>1, <3>1, Zenon
  <2> QED
      BY <2>1, <2>2, <2>3 DEF Telling, Untold
<1> QED
    BY <1>1, <1>2

\* The end of the parent.
LEMMA EndTells ==
    ASSUME NEW how, ParentEnds(how)
    PROVE  Telling /\ UNCHANGED running_
BY DEF ParentEnds, Telling, Untold, Unannounced

\* A step that leaves the console, main() and the flag of the parent alone.
LEMMA ToldKept ==
    ASSUME Told, Telling, UNCHANGED <<console, mainPc>>,
           running_'[Parent] = running_[Parent],
           parent' = "exited" => mainPc = "exit"
    PROVE  Told'
BY DEF Told, Telling, ToBeTold

\* A fork comes before the console, and so before any command.
LEMMA MakerTold == Typed /\ FirstOnly /\ Told /\ MakerStep => Told'
<1> SUFFICES ASSUME Typed, FirstOnly, Told, MakerStep PROVE Told'
    OBVIOUS
<1>1. UNCHANGED console
    BY DEF MakerStep, MakerFork, MakerForkFails, MakerCount, MakerRegister, RestoreCheck,
           RestoreSize, RestoreEnds, componentVars, consoleVars
<1>2. ASSUME NEW p \in Pids, MakerFork(p) PROVE Told'
  <2>1. /\ maker.pc = "create"
        /\ running_' = [running_ EXCEPT ![p] = running_[Parent]]
        /\ UNCHANGED <<mainPc, parent>>
      BY <1>2 DEF MakerFork, ForkProcess
  <2>2. running_'[Parent] = running_[Parent]
    <3>1. p # Parent /\ Parent \in Processes
        BY ChildAssumption DEF Processes
    <3> QED
        BY <2>1, <3>1, Zenon DEF Typed, TypeOK, ChildTypeOK
  <2>3. mainPc = "init" /\ console.pc = "off"
      BY <2>1 DEF FirstOnly, Making
  <2> QED
      BY <1>1, <2>1, <2>2, <2>3 DEF Told
<1>3. CASE MakerForkFails
  <2>1. Telling /\ UNCHANGED <<running_, mainPc>> /\ parent' = "died"
      BY <1>3, EndTells DEF MakerForkFails, ParentEnds, controllerVars
  <2> QED
      BY <1>1, <2>1, ToldKept
<1>4. CASE MakerCount \/ MakerRegister \/ RestoreCheck \/ RestoreSize \/ RestoreEnds
  <2>1. UNCHANGED <<proc, continue_, running_, parent>>
      BY <1>4 DEF MakerCount, MakerRegister, RestoreCheck, RestoreSize, RestoreEnds,
                  componentVars, childVars
  <2>2. mainPc' = mainPc \/ (mainPc = "init" /\ mainPc' = "launch")
      BY <1>4 DEF MakerCount, MakerRegister, RestoreCheck, RestoreSize, RestoreEnds
  <2> QED
      BY <1>1, <2>1, <2>2 DEF Told, Untold, ToBeTold
<1> QED
    BY <1>2, <1>3, <1>4 DEF MakerStep

\* main() goes to its end only when running_ is down.
LEMMA MainTold == Told /\ MainStep => Told'
<1> SUFFICES ASSUME Told, MainStep PROVE Told'
    OBVIOUS
<1>1. UNCHANGED <<proc, continue_, running_, parent, console>> /\ parent = "up"
    BY DEF MainStep, MainRuns, StartThreads, MainTestsPredicate, MainBlocks, SpuriousWakeup,
           JoinThreads, componentVars, childVars, consoleVars
<1>2. /\ mainPc' \in {"join", "stopReader", "joinReader", "exit"} => ~running_[Parent]
      /\ mainPc' # "exit"
    BY DEF MainStep, MainRuns, StartThreads, MainTestsPredicate, MainBlocks, SpuriousWakeup,
           JoinThreads, Told
<1> QED
    BY <1>1, <1>2 DEF Told, Untold, ToBeTold

\* It joins the console thread before it returns.
LEMMA ExitTold == Typed /\ FirstOnly /\ Told /\ ExitStep => Told'
<1> SUFFICES ASSUME Typed, FirstOnly, Told, ExitStep PROVE Told'
    OBVIOUS
<1>1. CASE MainReturns
  <2>1. Telling /\ UNCHANGED <<running_, mainPc, console>> /\ mainPc = "exit"
      BY <1>1, EndTells DEF MainReturns, controllerVars, consoleVars
  <2> QED
      BY <2>1, ToldKept
<1>2. CASE StartReader
  <2>1. /\ mainPc = "launch" /\ mainPc' = "start"
        /\ UNCHANGED <<running_, parent>> /\ parent = "up"
      BY <1>2 DEF StartReader, childVars
  <2>2. running_[Parent]
      BY <2>1 DEF FirstOnly, Told
  <2> QED
      BY <2>1, <2>2 DEF Told
<1>3. CASE StopReader \/ JoinReader
  <2>1. /\ UNCHANGED <<proc, continue_, running_, parent, console>> /\ parent = "up"
        /\ mainPc \in {"stopReader", "joinReader"}
        /\ mainPc' = "joinReader" \/ (mainPc' = "exit" /\ console.pc = "stopped")
      BY <1>3 DEF StopReader, JoinReader, RaiseStopFlag, ReaderHasStopped, childVars,
                  consoleVars
  <2> QED
      BY <2>1 DEF Told, Untold, ToBeTold
<1> QED
    BY <1>1, <1>2, <1>3 DEF ExitStep

\* The console goes through a snapshot of the handlers that leaves out only children that
\* are over, and is not done before the last of them has its signal.
LEMMA ReaderTold == Typed /\ FirstOnly /\ DeceasedSound /\ Told /\ ReaderStep => Told'
<1> SUFFICES ASSUME Typed, FirstOnly, DeceasedSound, Told, ReaderStep PROVE Told'
    OBVIOUS
<1>1. parent = "up" /\ UNCHANGED <<running_, parent>>
    BY DEF ReaderStep, ReaderLoop, TakeSnapshot, SignalNext, Signal, QuitGoesOnToKill,
           QuitNotifies, StopCommandReturns, programVars, childVars
<1>2. console.pc \notin {"off", "stopped"}
    BY DEF ReaderStep, ReaderLoop, TestFlag, PeekEof, TakeSnapshot, SignalNext,
           QuitGoesOnToKill, QuitNotifies, StopCommandReturns
<1>3. mainPc # "exit"
    BY <1>2 DEF Told
<1>4. mainPc' = mainPc \/ mainPc' = "predicate"
    BY DEF ReaderStep, ReaderLoop, TakeSnapshot, SignalNext, QuitGoesOnToKill, QuitNotifies,
           NotifyMain, StopCommandReturns, programVars, controllerVars
<1>5. ASSUME console'.pc # "off",
             ASSUME ~running_[Parent], NEW p \in Pids, Untold(p)' PROVE ToBeTold(p)'
      PROVE  Told'
    BY <1>1, <1>3, <1>4, <1>5 DEF Told
<1>6. CASE ReaderLoop
  <2>1. console'.pc \in {"stopped", "peek", "head"} /\ console.pc \in {"head", "peek"}
      BY <1>6 DEF ReaderLoop, TestFlag, PeekEof, Typed, TypeOK, ConsoleTypeOK
  <2>2. UNCHANGED <<proc, continue_>>
      BY <1>6 DEF ReaderLoop, programVars, childVars
  <2> QED
      BY <1>5, <2>1, <2>2 DEF Told, Untold, ToBeTold
<1>7. CASE TakeSnapshot
  <2>1. console'.pc = "signal" /\ console'.todo = handlers_ \ deceasedProcesses_
      BY <1>7 DEF TakeSnapshot, ActiveHandlers, Typed, TypeOK, ConsoleTypeOK
  <2>2. UNCHANGED <<proc, continue_>>
      BY <1>7 DEF TakeSnapshot, programVars, childVars
  <2>3. \A p \in Pids : proc[p] \in Unannounced => p \in handlers_
    <3>1. InHand = {}
        BY <1>2 DEF FirstOnly, Making, InHand
    <3> QED
        BY <3>1 DEF FirstOnly, Unannounced
  <2>4. \A p \in Pids : proc[p] \in Unannounced => p \notin deceasedProcesses_
      BY DEF DeceasedSound, Unannounced, Finished
  <2> QED
      BY <1>5, <2>1, <2>2, <2>3, <2>4 DEF Untold, ToBeTold
<1>8. ASSUME NEW p \in Pids, SignalNext(p) PROVE Told'
  <2>1. SignalOf(console.job) \in {"SIGTERM", "SIGINT", "SIGKILL"}
      BY <1>8 DEF SignalNext, SignalOf, Typed, TypeOK, ConsoleTypeOK, Jobs
  <2>2. Telling /\ ~Untold(p)'
      BY <1>8, <2>1, SignalTells DEF SignalNext
  <2>3. console.pc = "signal" /\ console'.pc = "signal" /\ console'.todo = console.todo \ {p}
      BY <1>8 DEF SignalNext, Typed, TypeOK, ConsoleTypeOK
  <2> QED
      BY <1>5, <2>2, <2>3 DEF Told, Telling, ToBeTold
<1>9. CASE QuitGoesOnToKill \/ QuitNotifies \/ StopCommandReturns
  <2>1. console.pc = "signal" /\ console.todo = {} /\ console'.pc \in {"snapshot", "head"}
      BY <1>9 DEF QuitGoesOnToKill, QuitNotifies, StopCommandReturns, Typed, TypeOK,
                  ConsoleTypeOK
  <2>2. UNCHANGED <<proc, continue_>>
      BY <1>9 DEF QuitGoesOnToKill, QuitNotifies, StopCommandReturns, programVars, childVars
  <2> QED
      BY <1>5, <2>1, <2>2 DEF Told, Untold, ToBeTold
<1> QED
    BY <1>6, <1>7, <1>8, <1>9 DEF ReaderStep

\* A command is run only when the one before it has returned.
LEMMA UserTold == Typed /\ FirstOnly /\ Told /\ UserStep => Told'
<1> SUFFICES ASSUME Typed, FirstOnly, Told, UserStep PROVE Told'
    OBVIOUS
<1>1. console.pc = "peek"
    BY DEF UserStep, OtherCommand, PauseCommand, RespawnCommand, StopCommand,
           SignalOneCommand, Types, RunCommand
<1>2. parent = "up" /\ UNCHANGED <<parent, mainPc>>
    BY DEF UserStep, OtherCommand, PauseCommand, RespawnCommand, StopCommand,
           SignalOneCommand, Signal, Types, programVars, childVars, controllerVars
<1>3. mainPc # "exit"
    BY <1>1 DEF Told
<1>4. ASSUME console'.pc = "head", Telling, UNCHANGED running_ PROVE Told'
    BY <1>1, <1>2, <1>3, <1>4 DEF Told, Telling, ToBeTold
<1>5. CASE OtherCommand \/ PauseCommand \/ RespawnCommand
  <2>1. console'.pc = "head"
      BY <1>5 DEF OtherCommand, PauseCommand, RespawnCommand, Types, RunCommand, Typed, TypeOK,
                  ConsoleTypeOK
  <2>2. UNCHANGED <<proc, continue_, running_>>
      BY <1>5 DEF OtherCommand, PauseCommand, RespawnCommand, programVars, childVars
  <2> QED
      BY <1>4, <2>1, <2>2 DEF Telling, Untold
<1>6. ASSUME NEW c \in Commands, NEW p \in Pids, SignalOneCommand(c, p) PROVE Told'
  <2>1. SignalOf(c) \in {"SIGTERM", "SIGINT", "SIGKILL"}
      BY <1>6 DEF SignalOneCommand, SignalOf
  <2>2. Telling /\ UNCHANGED running_
      BY <1>6, <2>1, SignalTells DEF SignalOneCommand, Signal
  <2>3. console'.pc = "head"
      BY <1>6 DEF SignalOneCommand, Types, RunCommand, Typed, TypeOK, ConsoleTypeOK
  <2> QED
      BY <1>4, <2>2, <2>3
<1>7. ASSUME NEW c \in Commands, StopCommand(c) PROVE Told'
  <2>1. console'.pc = "snapshot"
      BY <1>7 DEF StopCommand, RunCommand, Typed, TypeOK, ConsoleTypeOK
  <2>2. running_'[Parent] = FALSE
      BY <1>7 DEF StopCommand, Processes, Typed, TypeOK, ChildTypeOK
  <2> QED
      BY <1>2, <1>3, <2>1, <2>2 DEF Told, ToBeTold
<1> QED
    BY <1>5, <1>6, <1>7 DEF UserStep

\* What comes from outside untells nobody.
LEMMA EnvironmentTold == Typed /\ Told /\ EnvironmentStep => Told'
<1> SUFFICES ASSUME Typed, Told, EnvironmentStep PROVE Told'
    OBVIOUS
<1>1. UNCHANGED <<console, mainPc, running_>>
    BY DEF EnvironmentStep, Crash, ParentEnds, ExternalKill, Signal, Interrupt, CloseInput,
           parentVars, childVars, controllerVars, consoleVars
<1>2. parent' = "exited" => parent = "exited"
    BY DEF EnvironmentStep, Crash, ParentEnds, ExternalKill, Signal, Interrupt, CloseInput,
           childVars
<1>3. Telling
  <2>1. CASE Crash
      BY <2>1, EndTells DEF Crash
  <2>2. ASSUME NEW p \in Pids, ExternalKill(p) PROVE Telling
      BY <2>2, SignalTells DEF ExternalKill
  <2>3. CASE Interrupt
    <3>1. \A p \in Pids : continue_'[p] => continue_[p]
        BY <2>3, Zenon DEF Interrupt, Processes
    <3> QED
        BY <2>3, <3>1 DEF Interrupt, Telling, Untold
  <2>4. CASE CloseInput
      BY <2>4 DEF CloseInput, childVars, Telling, Untold
  <2> QED
      BY <2>1, <2>2, <2>3, <2>4 DEF EnvironmentStep
<1> QED
    BY <1>1, <1>2, <1>3, ToldKept DEF Told

\* Children and monitor threads untell nobody.
LEMMA ChildTold ==
    ASSUME Typed, Told, NEW p \in Pids, ChildStep(p) \/ MonitorStep(p)
    PROVE  Told'
<1>1. UNCHANGED <<console, mainPc, running_, parent>>
    BY DEF ChildStep, ChildSendsCreation, PreWork, ChildSendsTermination, PostWork, ChildExits,
           ExitProcess, MonitorStep, MonitorBegin, MonitorPoll, MonitorLeaves, MonitorReport,
           MonitorStop, childVars, monitorRest, parentVars, controllerVars, consoleVars
<1>2. Telling
  <2>1. CASE ChildSendsTermination(p)
    <3>1. /\ proc[p] = "working" /\ proc' = [proc EXCEPT ![p] = "announced"]
          /\ continue_' = [continue_ EXCEPT ![p] = TRUE]
        BY <2>1 DEF ChildSendsTermination, PostWork
    <3>2. /\ proc'[p] = "announced"
          /\ \A r \in Pids : r # p => proc'[r] = proc[r]
        BY <3>1 DEF Typed, TypeOK, ChildTypeOK
    <3>3. \A r \in Pids : r # p => continue_'[r] = continue_[r]
        BY <3>1, Zenon DEF Typed, TypeOK, ChildTypeOK, Processes
    <3> QED
        BY <3>2, <3>3 DEF Telling, Untold, Unannounced
  <2>2. CASE ~ChildSendsTermination(p)
    <3>1. UNCHANGED continue_
        BY <2>2 DEF ChildStep, ChildSendsCreation, PreWork, ChildExits, ExitProcess,
                    MonitorStep, MonitorBegin, MonitorPoll, MonitorLeaves, MonitorReport,
                    MonitorStop, childVars
    <3>2. \A r \in Pids : proc'[r] \in Unannounced => proc[r] \in Unannounced
        BY <2>2 DEF ChildStep, ChildSendsCreation, PreWork, ChildExits, ExitProcess,
                    MonitorStep, MonitorBegin, MonitorPoll, MonitorLeaves, MonitorReport,
                    MonitorStop, childVars, Typed, TypeOK, ChildTypeOK, Unannounced
    <3> QED
        BY <3>1, <3>2 DEF Telling, Untold
  <2> QED
      BY <2>1, <2>2
<1> QED
    BY <1>1, <1>2, ToldKept DEF Told

\* Every step of the program keeps it.
LEMMA NextTold == Typed /\ FirstOnly /\ Chain /\ Told /\ [Next]_vars => Told'
<1> SUFFICES ASSUME Typed, FirstOnly, Chain, Told, [Next]_vars PROVE Told'
    OBVIOUS
<1>1. CASE UNCHANGED vars
    BY <1>1 DEF vars, childVars, controllerVars, consoleVars, Told, Untold, ToBeTold
<1>2. CASE Done
    BY <1>1, <1>2 DEF Done
<1>3. CASE MakerStep \/ MainStep \/ ExitStep
    BY <1>3, MakerTold, MainTold, ExitTold
<1>4. CASE ReaderStep \/ UserStep \/ EnvironmentStep
    BY <1>4, ReaderTold, UserTold, EnvironmentTold DEF Chain
<1>5. CASE CreatorStep \/ TerminatorStep
  <2>1. UNCHANGED <<proc, continue_, running_, parent, console, mainPc>>
      BY <1>5 DEF CreatorStep, CreateMonitorThread, CreatorEnds, TerminatorStep,
                  TerminatorReceive, TerminatorFind, TerminatorMark, TerminatorEnds,
                  componentVars, childVars, controllerVars, consoleVars
  <2> QED
      BY <2>1, ToldKept DEF Telling, Untold, Told
<1>6. ASSUME NEW p \in Pids, ChildStep(p) \/ MonitorStep(p) PROVE Told'
    BY <1>6, ChildTold
<1> QED
    BY <1>1, <1>2, <1>3, <1>4, <1>5, <1>6 DEF Next

\* A program that replaces nobody has told every child to end, or seen it end, when main()
\* returns: by whichever command, with whatever Ctrl-C, signals and ends of children in
\* between, and also with messages lost.
THEOREM NobodyLeftUntold ==
    ASSUME NoRespawn, OwnLeftovers
    PROVE  Spec => []NoOrphanAtExit
<1> DEFINE Inv == Typed /\ Chain /\ FirstOnly /\ NoneReaped /\ Told
<1>1. Init => Inv
    BY InitTyped, InitChain, InitFirst, InitNoneReaped, InitTold
<1>2. Inv /\ [Next]_vars => Inv'
    BY NextTyped, NextChain, NextFirst, NextNoneReaped, FirstFresh, NextTold
<1>3. Inv => NoOrphanAtExit
    BY DEF Told, NoOrphanAtExit, Untold, ToBeTold
<1> QED
    BY <1>1, <1>2, <1>3, PTL DEF Spec
=============================================================================
