--------------------- MODULE SecureProcessManagerProofs ---------------------
(***************************************************************************)
(* Theorems about SecureProcessManager, for every number of processes,     *)
(* every set of pids, every set of commands and every environment.         *)
(***************************************************************************)
EXTENDS SecureProcessManager, TLAPS

-----------------------------------------------------------------------------
(***************************************************************************)
(* Types and the bound on counter_.  TypeOK is not inductive by itself:    *)
(* the number of handlers left to create is a natural number only because  *)
(* counter_ never passes NumProcesses.                                     *)
(***************************************************************************)
MakerOK ==
    /\ maker.pc \in {"create", "count", "register"} => maker.left >= 1
    /\ maker.pc \in {"count", "register"} => maker.pid \in Pids
    /\ maker.pc = "size" => counter_ < NumProcesses
    /\ CounterBound

Typed == TypeOK /\ MakerOK

\* The program starts in a state of the right types, with all handlers still to create.
LEMMA InitTyped == Init => Typed
<1> SUFFICES ASSUME Init PROVE Typed
    OBVIOUS
<1> USE ChildAssumption, QueueAssumption, ControllerAssumption DEF Init
<1>1. ChildTypeOK
    BY DEF ChildInit, ChildTypeOK, Unannounced, Finished
<1>2. QueueTypeOK
    BY DEF QueueInit, QueueTypeOK
<1>3. RegistryTypeOK
    BY DEF RegistryInit, RegistryTypeOK
<1>4. MonitorTypeOK
    BY DEF MonitorInit, MonitorTypeOK
<1>5. ControllerTypeOK
    BY DEF ControllerInit, ControllerTypeOK
<1>6. ConsoleTypeOK
    BY DEF ConsoleInit, ConsoleTypeOK, Jobs
<1>7. MakerOK
    BY DEF ControllerInit, MakerOK, CounterBound
<1> QED
    BY <1>1, <1>2, <1>3, <1>4, <1>5, <1>6, <1>7 DEF Typed, TypeOK

\* A child's own steps, the signals it gets and the end of its parent keep its types.
LEMMA ForkTyped ==
    ASSUME ChildTypeOK, NEW p \in Pids, ForkProcess(p)
    PROVE  ChildTypeOK'
BY DEF ChildTypeOK, ForkProcess, Processes, Unannounced, Finished

\* A signal leaves a child in one of the states a child can be in.
LEMMA SignalTyped ==
    ASSUME ChildTypeOK, NEW p \in Pids, NEW sig \in {"SIGTERM", "SIGINT", "SIGKILL"},
           Signal(sig, p)
    PROVE  ChildTypeOK'
<1>1. CASE sig = "SIGKILL"
  <2>1. proc' \in [Pids -> {"free"} \cup Unannounced \cup Finished]
      BY <1>1 DEF ChildTypeOK, Signal, HandleKill, Finished
  <2>2. continue_' \in [Processes -> BOOLEAN]
    <3>1. continue_' = [continue_ EXCEPT ![p] = continue_[p] \/ Alive(p)]
        BY <1>1 DEF Signal, HandleKill
    <3> QED
        BY <3>1, Zenon DEF ChildTypeOK
  <2> QED
      BY <2>1, <2>2 DEF ChildTypeOK, Signal
<1>2. CASE sig # "SIGKILL"
  <2>1. /\ continue_' = [continue_ EXCEPT ![p] = continue_[p] /\ proc[p] \notin Unannounced]
        /\ UNCHANGED <<proc, running_, parent>>
      BY <1>2 DEF Signal, HandleStop
  <2>2. continue_' \in [Processes -> BOOLEAN]
      BY <2>1, Zenon DEF ChildTypeOK
  <2> QED
      BY <2>1, <2>2 DEF ChildTypeOK
<1> QED
    BY <1>1, <1>2

\* So does the end of the program.
LEMMA ParentEndsTyped ==
    ASSUME ChildTypeOK, NEW how \in {"exited", "died"}, ParentEnds(how)
    PROVE  ChildTypeOK'
BY DEF ChildTypeOK, ParentEnds, Finished

\* Messages go in and out of the queue without a change of type.
LEMMA SendTyped ==
    ASSUME QueueTypeOK, NEW p \in Senders, NEW running \in BOOLEAN,
           SendCreation(p, running) \/ SendTermination(p, running)
    PROVE  QueueTypeOK'
<1>1. Append(creationQ, p) \in Seq(Senders) /\ Append(terminationQ, p) \in Seq(Senders)
    BY DEF QueueTypeOK
<1> QED
    BY <1>1 DEF QueueTypeOK, SendCreation, SendTermination

\* What is left of a queue after a receive is a queue.
LEMMA ReceiveTyped ==
    ASSUME QueueTypeOK, NEW p \in Senders,
           ReceiveCreation(p) \/ ReceiveTermination(p)
    PROVE  QueueTypeOK'
<1>1. /\ creationQ # <<>> => Tail(creationQ) \in Seq(Senders)
      /\ terminationQ # <<>> => Tail(terminationQ) \in Seq(Senders)
    BY DEF QueueTypeOK
<1> QED
    BY <1>1 DEF QueueTypeOK, ReceiveCreation, ReceiveTermination

\* createHandlers and restoreHandlerCount.
LEMMA MakerTyped == Typed /\ MakerStep => Typed'
<1> SUFFICES ASSUME Typed, MakerStep PROVE Typed'
    OBVIOUS
<1> USE ControllerAssumption DEF Typed, TypeOK, ControllerTypeOK, MakerOK, CounterBound,
        componentVars
<1>1. ASSUME NEW p \in Pids, MakerFork(p) PROVE Typed'
  <2>1. ChildTypeOK'
      BY <1>1, ForkTyped DEF MakerFork
  <2>2. (QueueTypeOK /\ RegistryTypeOK /\ MonitorTypeOK /\ ConsoleTypeOK)'
      BY <1>1 DEF MakerFork, queueVars, registryVars, monitorVars, consoleVars,
                  QueueTypeOK, RegistryTypeOK, MonitorTypeOK, ConsoleTypeOK
  <2> QED
      BY <1>1, <2>1, <2>2 DEF MakerFork
<1>2. CASE MakerForkFails
  <2>1. ChildTypeOK'
      BY <1>2, ParentEndsTyped DEF MakerForkFails
  <2>2. (QueueTypeOK /\ RegistryTypeOK /\ MonitorTypeOK /\ ConsoleTypeOK)'
      BY <1>2 DEF MakerForkFails, queueVars, registryVars, monitorVars, consoleVars,
                  QueueTypeOK, RegistryTypeOK, MonitorTypeOK, ConsoleTypeOK
  <2> QED
      BY <1>2, <2>1, <2>2 DEF MakerForkFails, controllerVars
<1>3. CASE MakerRegister
  <2>1. (ChildTypeOK /\ QueueTypeOK /\ MonitorTypeOK /\ ConsoleTypeOK)'
      BY <1>3 DEF MakerRegister, childVars, queueVars, monitorVars, consoleVars,
                  ChildTypeOK, QueueTypeOK, MonitorTypeOK, ConsoleTypeOK
  <2>2. RegistryTypeOK'
      BY <1>3 DEF MakerRegister, AddMonitorProcess, RegistryTypeOK
  <2> QED
      BY <1>3, <2>1, <2>2 DEF MakerRegister
<1>4. CASE MakerCount \/ RestoreCheck \/ RestoreSize \/ RestoreEnds
  <2>1. UNCHANGED componentVars
      BY <1>4 DEF MakerCount, RestoreCheck, RestoreSize, RestoreEnds
  <2>2. (ChildTypeOK /\ QueueTypeOK /\ RegistryTypeOK /\ MonitorTypeOK /\ ConsoleTypeOK)'
      BY <2>1 DEF childVars, queueVars, registryVars, monitorVars, consoleVars,
                  ChildTypeOK, QueueTypeOK, RegistryTypeOK, MonitorTypeOK, ConsoleTypeOK
  <2>3. (ControllerTypeOK /\ MakerOK)'
    <3>1. CASE MakerCount
        BY <3>1 DEF MakerCount
    <3>2. CASE RestoreCheck
        BY <3>2 DEF RestoreCheck
    <3>3. CASE RestoreSize
      <4>1. /\ maker' = [maker EXCEPT !.pc = "create", !.left = NumProcesses - counter_]
            /\ UNCHANGED <<counter_, respawn_, creator, terminator, mainPc>>
            /\ counter_ < NumProcesses
          BY <3>3 DEF RestoreSize
      <4>2. NumProcesses - counter_ \in Nat /\ NumProcesses - counter_ >= 1
          BY <4>1
      <4>3. /\ maker'.pc = "create"
            /\ maker'.left = NumProcesses - counter_
            /\ maker'.pid = maker.pid
          BY <4>1
      <4>4. ControllerTypeOK'
          BY <4>1, <4>2
      <4>5. MakerOK'
          BY <4>1, <4>2, <4>3
      <4> QED
          BY <4>4, <4>5
    <3>4. CASE RestoreEnds
        BY <3>4 DEF RestoreEnds
    <3> QED
        BY <1>4, <3>1, <3>2, <3>3, <3>4
  <2> QED
      BY <2>2, <2>3
<1> QED
    BY <1>1, <1>2, <1>3, <1>4 DEF MakerStep

\* CreateMonitoringThreads.
LEMMA CreatorTyped == Typed /\ CreatorStep => Typed'
<1> SUFFICES ASSUME Typed, CreatorStep PROVE Typed'
    OBVIOUS
<1> USE DEF Typed, TypeOK, ControllerTypeOK, MakerOK, CounterBound, controllerVars
<1>1. CASE CreateMonitorThread
  <2>1. (ChildTypeOK /\ RegistryTypeOK /\ ConsoleTypeOK)'
      BY <1>1 DEF CreateMonitorThread, childVars, registryVars, consoleVars,
                  ChildTypeOK, RegistryTypeOK, ConsoleTypeOK
  <2>2. QueueTypeOK'
      BY <1>1, ReceiveTyped DEF CreateMonitorThread
  <2>3. MonitorTypeOK'
      BY <1>1 DEF CreateMonitorThread, CreateMonitorProcessThread, monitorVars, MonitorTypeOK
  <2> QED
      BY <1>1, <2>1, <2>2, <2>3 DEF CreateMonitorThread
<1>2. CASE CreatorEnds
  <2>1. (ChildTypeOK /\ QueueTypeOK /\ RegistryTypeOK /\ MonitorTypeOK /\ ConsoleTypeOK)'
      BY <1>2 DEF CreatorEnds, componentVars, childVars, queueVars, registryVars, monitorVars,
                  consoleVars, ChildTypeOK, QueueTypeOK, RegistryTypeOK, MonitorTypeOK,
                  ConsoleTypeOK
  <2> QED
      BY <1>2, <2>1 DEF CreatorEnds
<1> QED
    BY <1>1, <1>2 DEF CreatorStep

\* MonitorProcessTermination.
LEMMA TerminatorTyped == Typed /\ TerminatorStep => Typed'
<1> SUFFICES ASSUME Typed, TerminatorStep PROVE Typed'
    OBVIOUS
<1> USE ControllerAssumption DEF Typed, TypeOK, ControllerTypeOK, MakerOK, CounterBound
<1>1. CASE TerminatorReceive
  <2>1. (ChildTypeOK /\ RegistryTypeOK /\ MonitorTypeOK /\ ConsoleTypeOK)'
      BY <1>1 DEF TerminatorReceive, childVars, registryVars, monitorVars, consoleVars,
                  ChildTypeOK, RegistryTypeOK, MonitorTypeOK, ConsoleTypeOK
  <2>2. QueueTypeOK'
      BY <1>1, ReceiveTyped DEF TerminatorReceive
  <2> QED
      BY <1>1, <2>1, <2>2 DEF TerminatorReceive
<1>2. CASE TerminatorFind
  <2>1. (ChildTypeOK /\ QueueTypeOK /\ RegistryTypeOK /\ ConsoleTypeOK)'
      BY <1>2 DEF TerminatorFind, childVars, queueVars, registryVars, consoleVars,
                  ChildTypeOK, QueueTypeOK, RegistryTypeOK, ConsoleTypeOK
  <2>2. MonitorTypeOK'
      BY <1>2 DEF TerminatorFind, MonitorTypeOK
  <2> QED
      BY <1>2, <2>1, <2>2 DEF TerminatorFind
<1>3. CASE TerminatorMark
  <2>1. (ChildTypeOK /\ QueueTypeOK /\ MonitorTypeOK /\ ConsoleTypeOK)'
      BY <1>3 DEF TerminatorMark, childVars, queueVars, monitorVars, consoleVars,
                  ChildTypeOK, QueueTypeOK, MonitorTypeOK, ConsoleTypeOK
  <2>2. RegistryTypeOK'
      BY <1>3 DEF TerminatorMark, MarkProcessAsDeceased, registryVars, RegistryTypeOK
  <2> QED
      BY <1>3, <2>1, <2>2 DEF TerminatorMark
<1>4. CASE TerminatorEnds
  <2>1. (ChildTypeOK /\ QueueTypeOK /\ RegistryTypeOK /\ MonitorTypeOK /\ ConsoleTypeOK)'
      BY <1>4 DEF TerminatorEnds, componentVars, childVars, queueVars, registryVars,
                  monitorVars, consoleVars, ChildTypeOK, QueueTypeOK, RegistryTypeOK,
                  MonitorTypeOK, ConsoleTypeOK
  <2> QED
      BY <1>4, <2>1 DEF TerminatorEnds
<1> QED
    BY <1>1, <1>2, <1>3, <1>4 DEF TerminatorStep

\* The thread of main(), up to the end of processLifecycleLoop.
LEMMA MainTyped == Typed /\ MainStep => Typed'
<1> SUFFICES ASSUME Typed, MainStep PROVE Typed'
    OBVIOUS
<1>1. UNCHANGED componentVars
    BY DEF MainStep, MainRuns, StartThreads, MainTestsPredicate, MainBlocks, SpuriousWakeup,
           JoinThreads
<1>2. (ChildTypeOK /\ QueueTypeOK /\ RegistryTypeOK /\ MonitorTypeOK /\ ConsoleTypeOK)'
    BY <1>1 DEF componentVars, childVars, queueVars, registryVars, monitorVars, consoleVars,
                Typed, TypeOK, ChildTypeOK, QueueTypeOK, RegistryTypeOK, MonitorTypeOK,
                ConsoleTypeOK
<1>3. (ControllerTypeOK /\ MakerOK)'
    BY ControllerAssumption
       DEF MainStep, MainRuns, StartThreads, MainTestsPredicate, MainBlocks, SpuriousWakeup,
           JoinThreads, Typed, TypeOK, ControllerTypeOK, MakerOK, CounterBound
<1> QED
    BY <1>2, <1>3 DEF Typed, TypeOK

\* A step that leaves the controller alone leaves MakerOK alone.
LEMMA ControllerUntouched ==
    ASSUME Typed, UNCHANGED controllerVars
    PROVE  (ControllerTypeOK /\ MakerOK)'
BY DEF Typed, TypeOK, ControllerTypeOK, MakerOK, CounterBound, controllerVars

\* Only mainPc changes: main() and the commands that wake it.
LEMMA ThreadsUntouched ==
    ASSUME Typed, UNCHANGED threadVars,
           mainPc' \in {"init", "launch", "start", "predicate", "aboutToBlock", "blocked",
                        "join", "stopReader", "joinReader", "exit"}
    PROVE  (ControllerTypeOK /\ MakerOK)'
BY DEF Typed, TypeOK, ControllerTypeOK, MakerOK, CounterBound, threadVars

\* The reader thread.
LEMMA ReaderTyped == Typed /\ ReaderStep => Typed'
<1> SUFFICES ASSUME Typed, ReaderStep PROVE Typed'
    OBVIOUS
<1> USE DEF Typed, TypeOK
<1>1. ASSUME ConsoleTypeOK', UNCHANGED programVars PROVE Typed'
  <2>1. (ChildTypeOK /\ QueueTypeOK /\ RegistryTypeOK /\ MonitorTypeOK)'
      BY <1>1 DEF programVars, childVars, queueVars, registryVars, monitorVars,
                  ChildTypeOK, QueueTypeOK, RegistryTypeOK, MonitorTypeOK
  <2>2. (ControllerTypeOK /\ MakerOK)'
      BY <1>1, ControllerUntouched DEF programVars
  <2> QED
      BY <1>1, <2>1, <2>2
<1>2. CASE ReaderLoop
    BY <1>1, <1>2 DEF ReaderLoop, TestFlag, PeekEof, ConsoleTypeOK
<1>3. CASE TakeSnapshot
    BY <1>1, <1>3 DEF TakeSnapshot, ConsoleTypeOK, ActiveHandlers, RegistryTypeOK
<1>4. CASE QuitGoesOnToKill
    BY <1>1, <1>4 DEF QuitGoesOnToKill, ConsoleTypeOK, Jobs
<1>5. CASE StopCommandReturns
    BY <1>1, <1>5 DEF StopCommandReturns, ConsoleTypeOK, Jobs
<1>6. ASSUME NEW p \in Pids, SignalNext(p) PROVE Typed'
  <2>1. SignalOf(console.job) \in {"SIGTERM", "SIGINT", "SIGKILL"}
      BY <1>6 DEF SignalNext, ConsoleTypeOK, Jobs, SignalOf
  <2>2. ChildTypeOK'
      BY <1>6, <2>1, SignalTyped DEF SignalNext
  <2>3. (QueueTypeOK /\ RegistryTypeOK /\ MonitorTypeOK /\ ConsoleTypeOK)'
      BY <1>6 DEF SignalNext, queueVars, registryVars, monitorVars, QueueTypeOK,
                  RegistryTypeOK, MonitorTypeOK, ConsoleTypeOK
  <2>4. (ControllerTypeOK /\ MakerOK)'
      BY <1>6, ControllerUntouched DEF SignalNext
  <2> QED
      BY <2>2, <2>3, <2>4
<1>7. CASE QuitNotifies
  <2>1. (ChildTypeOK /\ QueueTypeOK /\ RegistryTypeOK /\ MonitorTypeOK /\ ConsoleTypeOK)'
      BY <1>7 DEF QuitNotifies, childVars, queueVars, registryVars, monitorVars, ChildTypeOK,
                  QueueTypeOK, RegistryTypeOK, MonitorTypeOK, ConsoleTypeOK, Jobs
  <2>2. (ControllerTypeOK /\ MakerOK)'
      BY <1>7, ThreadsUntouched DEF QuitNotifies, NotifyMain, ControllerTypeOK
  <2> QED
      BY <2>1, <2>2
<1> QED
    BY <1>2, <1>3, <1>4, <1>5, <1>6, <1>7 DEF ReaderStep

\* The commands.
LEMMA UserTyped == Typed /\ UserStep => Typed'
<1> SUFFICES ASSUME Typed, UserStep PROVE Typed'
    OBVIOUS
<1> USE DEF Typed, TypeOK
<1>1. CASE PauseCommand
  <2>1. (ChildTypeOK /\ QueueTypeOK /\ RegistryTypeOK /\ MonitorTypeOK /\ ConsoleTypeOK)'
      BY <1>1 DEF PauseCommand, Types, RunCommand, childVars, queueVars, registryVars,
                  ChildTypeOK, QueueTypeOK, RegistryTypeOK, MonitorTypeOK, ConsoleTypeOK, Jobs
  <2> QED
      BY <1>1, <2>1, ControllerUntouched DEF PauseCommand
<1>2. CASE RespawnCommand
  <2>1. (ChildTypeOK /\ QueueTypeOK /\ RegistryTypeOK /\ MonitorTypeOK /\ ConsoleTypeOK)'
      BY <1>2 DEF RespawnCommand, Types, RunCommand, childVars, queueVars, registryVars,
                  monitorVars, ChildTypeOK, QueueTypeOK, RegistryTypeOK, MonitorTypeOK,
                  ConsoleTypeOK, Jobs
  <2>2. (ControllerTypeOK /\ MakerOK)'
    <3>1. respawn_' \in BOOLEAN /\ UNCHANGED <<counter_, creator, terminator, maker, mainPc>>
        BY <1>2 DEF RespawnCommand
    <3> QED
        BY <3>1 DEF ControllerTypeOK, MakerOK, CounterBound
  <2> QED
      BY <2>1, <2>2
<1>3. ASSUME NEW c \in Commands, StopCommand(c) PROVE Typed'
  <2>1. (QueueTypeOK /\ RegistryTypeOK /\ MonitorTypeOK /\ ConsoleTypeOK)'
      BY <1>3 DEF StopCommand, RunCommand, queueVars, registryVars, monitorVars, QueueTypeOK,
                  RegistryTypeOK, MonitorTypeOK, ConsoleTypeOK, Jobs
  <2>2. ChildTypeOK'
      BY <1>3 DEF StopCommand, ChildTypeOK
  <2> QED
      BY <1>3, <2>1, <2>2, ControllerUntouched DEF StopCommand
<1>4. ASSUME NEW c \in Commands, NEW p \in Pids, SignalOneCommand(c, p) PROVE Typed'
  <2>1. ChildTypeOK'
      BY <1>4, SignalTyped DEF SignalOneCommand, SignalOf
  <2>2. (QueueTypeOK /\ RegistryTypeOK /\ MonitorTypeOK /\ ConsoleTypeOK)'
      BY <1>4 DEF SignalOneCommand, Types, RunCommand, queueVars, registryVars, monitorVars,
                  QueueTypeOK, RegistryTypeOK, MonitorTypeOK, ConsoleTypeOK, Jobs
  <2> QED
      BY <1>4, <2>1, <2>2, ControllerUntouched DEF SignalOneCommand
<1>5. CASE OtherCommand
  <2>1. (ChildTypeOK /\ QueueTypeOK /\ RegistryTypeOK /\ MonitorTypeOK /\ ConsoleTypeOK)'
      BY <1>5 DEF OtherCommand, Types, RunCommand, programVars, childVars, queueVars,
                  registryVars, monitorVars, ChildTypeOK, QueueTypeOK, RegistryTypeOK,
                  MonitorTypeOK, ConsoleTypeOK, Jobs
  <2> QED
      BY <1>5, <2>1, ControllerUntouched DEF OtherCommand, programVars
<1> QED
    BY <1>1, <1>2, <1>3, <1>4, <1>5 DEF UserStep

\* The start and the end of the reader thread, and the end of main().
LEMMA ExitTyped == Typed /\ ExitStep => Typed'
<1> SUFFICES ASSUME Typed, ExitStep PROVE Typed'
    OBVIOUS
<1> USE DEF Typed, TypeOK
<1>1. CASE StartReader \/ StopReader \/ JoinReader
  <2>1. (ChildTypeOK /\ QueueTypeOK /\ RegistryTypeOK /\ MonitorTypeOK /\ ConsoleTypeOK)'
      BY <1>1 DEF StartReader, StopReader, JoinReader, RunReader, RaiseStopFlag, childVars,
                  queueVars, registryVars, monitorVars, consoleVars, ChildTypeOK, QueueTypeOK,
                  RegistryTypeOK, MonitorTypeOK, ConsoleTypeOK
  <2>2. (ControllerTypeOK /\ MakerOK)'
      BY <1>1, ThreadsUntouched DEF StartReader, StopReader, JoinReader
  <2> QED
      BY <2>1, <2>2
<1>2. CASE MainReturns
  <2>1. ChildTypeOK'
      BY <1>2, ParentEndsTyped DEF MainReturns
  <2>2. (QueueTypeOK /\ RegistryTypeOK /\ MonitorTypeOK /\ ConsoleTypeOK)'
      BY <1>2 DEF MainReturns, queueVars, registryVars, monitorVars, consoleVars, QueueTypeOK,
                  RegistryTypeOK, MonitorTypeOK, ConsoleTypeOK
  <2> QED
      BY <1>2, <2>1, <2>2, ControllerUntouched DEF MainReturns
<1> QED
    BY <1>1, <1>2 DEF ExitStep

\* The steps of a child.
LEMMA ChildTyped == ASSUME Typed, NEW p \in Pids, ChildStep(p) PROVE Typed'
<1> USE DEF Typed, TypeOK
<1>1. ASSUME ChildTypeOK', QueueTypeOK', UNCHANGED parentVars PROVE Typed'
  <2>1. (RegistryTypeOK /\ MonitorTypeOK /\ ConsoleTypeOK)'
      BY <1>1 DEF parentVars, registryVars, monitorVars, consoleVars, RegistryTypeOK,
                  MonitorTypeOK, ConsoleTypeOK
  <2> QED
      BY <1>1, <2>1, ControllerUntouched DEF parentVars
<1>2. p \in Senders /\ running_[p] \in BOOLEAN
    BY ControllerAssumption DEF ChildTypeOK, Processes
<1>3. CASE ChildSendsCreation(p)
  <2>1. ChildTypeOK'
      BY <1>3 DEF ChildSendsCreation, PreWork, ChildTypeOK, Unannounced
  <2> QED
      BY <1>1, <1>2, <1>3, <2>1, SendTyped DEF ChildSendsCreation
<1>4. CASE ChildSendsTermination(p)
  <2>1. ChildTypeOK'
      BY <1>4 DEF ChildSendsTermination, PostWork, ChildTypeOK, Finished
  <2>2. QueueTypeOK'
    <3>1. CASE SeesParentGone
        BY <1>4, <3>1 DEF ChildSendsTermination, queueVars, QueueTypeOK
    <3>2. CASE ~SeesParentGone
        BY <1>2, <1>4, <3>2, SendTyped DEF ChildSendsTermination
    <3> QED
        BY <3>1, <3>2
  <2> QED
      BY <1>1, <1>4, <2>1, <2>2 DEF ChildSendsTermination
<1>5. CASE ChildExits(p)
  <2>1. ChildTypeOK'
      BY <1>5 DEF ChildExits, ExitProcess, ChildTypeOK, Finished
  <2>2. QueueTypeOK'
      BY <1>5 DEF ChildExits, queueVars, QueueTypeOK
  <2> QED
      BY <1>1, <1>5, <2>1, <2>2 DEF ChildExits
<1> QED
    BY <1>3, <1>4, <1>5 DEF ChildStep

\* The steps of a monitor thread.
LEMMA MonitorTyped == ASSUME Typed, NEW p \in Pids, MonitorStep(p) PROVE Typed'
<1> USE DEF Typed, TypeOK
<1>1. ASSUME ChildTypeOK', QueueTypeOK', MonitorTypeOK', UNCHANGED monitorRest PROVE Typed'
  <2>1. (RegistryTypeOK /\ ConsoleTypeOK)'
      BY <1>1 DEF monitorRest, registryVars, consoleVars, RegistryTypeOK, ConsoleTypeOK
  <2> QED
      BY <1>1, <2>1, ControllerUntouched DEF monitorRest
<1>2. ASSUME MonitorTypeOK', UNCHANGED childVars, UNCHANGED queueVars, UNCHANGED monitorRest
      PROVE  Typed'
    BY <1>1, <1>2 DEF childVars, queueVars, ChildTypeOK, QueueTypeOK
<1>3. CASE MonitorBegin(p) /\ UNCHANGED monitorRest
    BY <1>2, <1>3 DEF MonitorBegin, MonitorTypeOK
<1>4. CASE MonitorPoll(p) /\ UNCHANGED monitorRest
  <2>1. AfterPoll(p) \in {"report", "loop", "stop"}
      BY DEF AfterPoll
  <2>2. MonitorTypeOK'
      BY <1>4, <2>1 DEF MonitorPoll, MonitorTypeOK
  <2>3. ChildTypeOK'
      BY <1>4 DEF MonitorPoll, ChildTypeOK, Finished
  <2>4. QueueTypeOK'
      BY <1>4 DEF MonitorPoll, queueVars, QueueTypeOK
  <2> QED
      BY <1>1, <1>4, <2>2, <2>3, <2>4
<1>5. CASE MonitorLeaves(p) /\ UNCHANGED monitorRest
    BY <1>2, <1>5 DEF MonitorLeaves, MonitorTypeOK
<1>6. CASE MonitorReport(p) /\ UNCHANGED monitorRest
  <2>1. MonitorTypeOK'
      BY <1>6 DEF MonitorReport, MonitorTypeOK
  <2>2. ChildTypeOK'
      BY <1>6 DEF MonitorReport, childVars, ChildTypeOK
  <2>3. p \in Senders /\ running_[Parent] \in BOOLEAN
      BY ControllerAssumption DEF ChildTypeOK, Processes
  <2>4. QueueTypeOK'
      BY <1>6, <2>3, SendTyped DEF MonitorReport
  <2> QED
      BY <1>1, <1>6, <2>1, <2>2, <2>4
<1>7. CASE MonitorStop(p) /\ UNCHANGED monitorRest
    BY <1>2, <1>7 DEF MonitorStop, MonitorTypeOK
<1> QED
    BY <1>3, <1>4, <1>5, <1>6, <1>7 DEF MonitorStep

\* What the world does.
LEMMA EnvironmentTyped == Typed /\ EnvironmentStep => Typed'
<1> SUFFICES ASSUME Typed, EnvironmentStep PROVE Typed'
    OBVIOUS
<1> USE DEF Typed, TypeOK
<1>1. ASSUME ChildTypeOK', UNCHANGED queueVars, UNCHANGED parentVars PROVE Typed'
  <2>1. (QueueTypeOK /\ RegistryTypeOK /\ MonitorTypeOK /\ ConsoleTypeOK)'
      BY <1>1 DEF parentVars, queueVars, registryVars, monitorVars, consoleVars, QueueTypeOK,
                  RegistryTypeOK, MonitorTypeOK, ConsoleTypeOK
  <2> QED
      BY <1>1, <2>1, ControllerUntouched DEF parentVars
<1>2. CASE Crash
    BY <1>1, <1>2, ParentEndsTyped DEF Crash
<1>3. ASSUME NEW p \in Pids, ExternalKill(p) PROVE Typed'
    BY <1>1, <1>3, SignalTyped DEF ExternalKill
<1>4. CASE Interrupt
  <2>1. ChildTypeOK'
    <3>1. continue_' = [p \in Processes |->
                          continue_[p] /\ p # Parent /\ proc[p] \notin Unannounced]
        BY <1>4 DEF Interrupt
    <3>2. continue_' \in [Processes -> BOOLEAN]
        BY <3>1, Zenon
    <3> QED
        BY <1>4, <3>2 DEF Interrupt, ChildTypeOK
  <2> QED
      BY <1>1, <1>4, <2>1 DEF Interrupt
<1>5. CASE CloseInput
  <2>1. (ChildTypeOK /\ QueueTypeOK /\ RegistryTypeOK /\ MonitorTypeOK /\ ConsoleTypeOK)'
      BY <1>5 DEF CloseInput, childVars, queueVars, registryVars, monitorVars, ChildTypeOK,
                  QueueTypeOK, RegistryTypeOK, MonitorTypeOK, ConsoleTypeOK
  <2> QED
      BY <1>5, <2>1, ControllerUntouched DEF CloseInput
<1> QED
    BY <1>2, <1>3, <1>4, <1>5 DEF EnvironmentStep

\* Every step keeps the types and the bound on counter_.
LEMMA NextTyped == Typed /\ [Next]_vars => Typed'
<1> SUFFICES ASSUME Typed, [Next]_vars PROVE Typed'
    OBVIOUS
<1>1. CASE UNCHANGED vars
    BY <1>1 DEF vars, childVars, queueVars, registryVars, monitorVars, controllerVars,
                consoleVars, Typed, TypeOK, ChildTypeOK, QueueTypeOK, RegistryTypeOK,
                MonitorTypeOK, ControllerTypeOK, ConsoleTypeOK, MakerOK, CounterBound
<1>2. CASE Done
    BY <1>1, <1>2 DEF Done
<1>3. CASE MakerStep \/ CreatorStep \/ TerminatorStep \/ MainStep
    BY <1>3, MakerTyped, CreatorTyped, TerminatorTyped, MainTyped
<1>4. CASE ReaderStep \/ UserStep \/ ExitStep \/ EnvironmentStep
    BY <1>4, ReaderTyped, UserTyped, ExitTyped, EnvironmentTyped
<1>5. ASSUME NEW p \in Pids, ChildStep(p) \/ MonitorStep(p) PROVE Typed'
    BY <1>5, ChildTyped, MonitorTyped
<1> QED
    BY <1>1, <1>2, <1>3, <1>4, <1>5 DEF Next

\* Every variable keeps its type, whatever the threads, the children and the world do.
THEOREM TypeCorrect == Spec => []TypeOK
<1>1. Typed => TypeOK
    BY DEF Typed
<1> QED
    BY <1>1, InitTyped, NextTyped, PTL DEF Spec

\* counter_, and what the maker has still to count, never pass the -n option: the two reads
\* of counter_ in restoreHandlerCount and the --counter_ of the other thread cannot make it
\* create too many by that count.
THEOREM CounterBounded == Spec => []CounterBound
<1>1. Typed => CounterBound
    BY DEF Typed, MakerOK
<1> QED
    BY <1>1, InitTyped, NextTyped, PTL DEF Spec

-----------------------------------------------------------------------------
(***************************************************************************)
(* A pid is marked deceased only when its child is over.  The mark comes   *)
(* at the end of a chain (the end of work() or the report of a monitor,    *)
(* the queue, the terminator), so the invariant says of every link what    *)
(* DeceasedSound says of the last.  It needs a pid not to come back while  *)
(* its mark stays, and a queue without messages of an earlier run about    *)
(* pids of this one, of either type.                                       *)
(***************************************************************************)
OwnLeftovers ==
    \A left \in Leftovers : (Named(left.creation) \cup Named(left.termination)) \cap Pids = {}

Chain ==
    /\ \A p \in Pids : p \in Named(terminationQ) => proc[p] \in Finished
    /\ \A p \in Pids : monPc[p] = "report" => proc[p] \in Finished
    /\ terminator.pc \in {"find", "mark"} /\ terminator.pid \in Pids
            => proc[terminator.pid] \in Finished
    /\ DeceasedSound

\* No step takes a child out of Finished.
Lasting == \A p \in Pids : proc[p] \in Finished => proc'[p] \in Finished

\* The pids of a queue, after an append and without its head.
LEMMA NamedAppend ==
    ASSUME NEW q \in Seq(Senders), NEW p \in Senders
    PROVE  Named(Append(q, p)) \subseteq Named(q) \cup {p}
<1> SUFFICES ASSUME NEW i \in DOMAIN Append(q, p)
             PROVE  Append(q, p)[i] \in Named(q) \cup {p}
    BY DEF Named
<1>1. i \in 1 .. Len(q) + 1 /\ Len(q) \in Nat /\ DOMAIN q = 1 .. Len(q)
    OBVIOUS
<1>2. CASE i = Len(q) + 1
    BY <1>2
<1>3. CASE i # Len(q) + 1
  <2>1. i \in DOMAIN q /\ Append(q, p)[i] = q[i]
      BY <1>1, <1>3
  <2> QED
      BY <2>1 DEF Named
<1> QED
    BY <1>2, <1>3

\* A receive names no pid that was not in the queue.
LEMMA NamedTail ==
    ASSUME NEW q \in Seq(Senders), q # <<>>
    PROVE  Head(q) \in Named(q) /\ Named(Tail(q)) \subseteq Named(q)
<1>1. DOMAIN q = 1 .. Len(q) /\ Len(q) \in Nat /\ Len(q) >= 1
    OBVIOUS
<1>2. Head(q) \in Named(q)
    BY <1>1 DEF Named
<1>3. ASSUME NEW i \in DOMAIN Tail(q) PROVE Tail(q)[i] \in Named(q)
  <2>1. i + 1 \in DOMAIN q /\ Tail(q)[i] = q[i + 1]
      BY <1>1
  <2> QED
      BY <2>1 DEF Named
<1> QED
    BY <1>2, <1>3 DEF Named

\* A signal, and the end of the parent, leave a child that is over as it is or reap it.
LEMMA SignalLasting ==
    ASSUME Typed, NEW p \in Pids, NEW sig \in {"SIGTERM", "SIGINT", "SIGKILL"},
           Signal(sig, p)
    PROVE  Lasting
BY DEF Typed, TypeOK, ChildTypeOK, Signal, HandleStop, HandleKill, Lasting, Finished

\* When the program ends, no finished child comes back.
LEMMA ParentEndsLasting ==
    ASSUME NEW how, ParentEnds(how)
    PROVE  Lasting
BY DEF ParentEnds, Lasting, Finished

\* No child has had any of the pids that fork() can give out now.
FreshPids ==
    parent = "up" /\ maker.pc = "create" => \A p \in Pids : Available(p) => proc[p] = "free"

\* Where pids do not come round that is always so.
LEMMA NoRecycleFresh == ~Recycle => FreshPids
BY DEF FreshPids, Available

\* A fork that gives out only free pids.
LEMMA ForkLasting ==
    ASSUME Typed, FreshPids, NEW p \in Pids, MakerFork(p)
    PROVE  Lasting
<1>1. proc[p] = "free" /\ proc' = [proc EXCEPT ![p] = "born"]
    BY DEF MakerFork, FreshPids, ForkProcess
<1> QED
    BY <1>1 DEF Typed, TypeOK, ChildTypeOK, Lasting, Finished

\* Where no link of the chain changes, Lasting is enough.
chainVars == <<terminationQ, monPc, terminator, deceasedProcesses_>>

\* A step that leaves the chain's variables alone, and no finished child unfinished, keeps
\* the chain.
LEMMA ChainKept ==
    ASSUME Typed, Chain, Lasting, UNCHANGED chainVars
    PROVE  Chain'
BY DEF Chain, Lasting, chainVars, DeceasedSound, Typed, TypeOK, RegistryTypeOK

\* At the start nobody is marked, and the queue names no child of this run.
LEMMA InitChain == OwnLeftovers /\ Init => Chain
BY DEF OwnLeftovers, Init, QueueInit, MonitorInit, ControllerInit, RegistryInit, Chain,
       DeceasedSound

\* A child sends its termination message as it finishes.
LEMMA ChildChain ==
    ASSUME Typed, Chain, NEW p \in Pids, ChildStep(p)
    PROVE  Chain'
<1>1. UNCHANGED <<monPc, terminator, deceasedProcesses_>>
    BY DEF ChildStep, ChildSendsCreation, ChildSendsTermination, ChildExits, parentVars,
           registryVars, monitorVars, controllerVars
<1>2. Lasting
    BY DEF ChildStep, ChildSendsCreation, ChildSendsTermination, ChildExits, PreWork, PostWork,
           ExitProcess, Lasting, Typed, TypeOK, ChildTypeOK, Finished
<1>3. CASE UNCHANGED terminationQ
    BY <1>1, <1>2, <1>3, ChainKept DEF chainVars
<1>4. CASE ChildSendsTermination(p) /\ terminationQ' # terminationQ
  <2>1. proc'[p] \in Finished
      BY <1>4 DEF ChildSendsTermination, PostWork, Typed, TypeOK, ChildTypeOK, Finished
  <2>2. terminationQ' = Append(terminationQ, p)
      BY <1>4 DEF ChildSendsTermination, SendTermination, queueVars
  <2>3. Named(terminationQ') \subseteq Named(terminationQ) \cup {p}
      BY <2>2, NamedAppend, ControllerAssumption DEF Typed, TypeOK, QueueTypeOK
  <2> QED
      BY <1>1, <1>2, <2>1, <2>3
         DEF Chain, Lasting, DeceasedSound, Typed, TypeOK, RegistryTypeOK
<1> QED
    BY <1>3, <1>4 DEF ChildStep, ChildSendsCreation, SendCreation, ChildExits, queueVars

\* A monitor thread reports only a child that was killed.
LEMMA MonitorChain ==
    ASSUME Typed, Chain, NEW p \in Pids, MonitorStep(p)
    PROVE  Chain'
<1>1. UNCHANGED <<terminator, deceasedProcesses_>>
    BY DEF MonitorStep, monitorRest, registryVars, controllerVars
<1>2. Lasting
    BY DEF MonitorStep, MonitorBegin, MonitorPoll, MonitorLeaves, MonitorReport, MonitorStop,
           childVars, Lasting, Typed, TypeOK, ChildTypeOK, Finished
<1>3. CASE MonitorBegin(p) \/ MonitorLeaves(p) \/ MonitorStop(p)
  <2>1. \A r \in Pids : monPc'[r] = "report" => monPc[r] = "report"
      BY <1>3 DEF MonitorBegin, MonitorLeaves, MonitorStop, Typed, TypeOK, MonitorTypeOK
  <2>2. UNCHANGED terminationQ
      BY <1>3 DEF MonitorBegin, MonitorLeaves, MonitorStop, queueVars
  <2> QED
      BY <1>1, <1>2, <2>1, <2>2
         DEF Chain, Lasting, DeceasedSound, Typed, TypeOK, RegistryTypeOK
<1>4. CASE MonitorPoll(p)
  <2>1. \A r \in Pids : monPc'[r] = "report" => proc[r] \in Finished
    <3>1. AfterPoll(p) = "report" => proc[p] \in Finished
        BY DEF AfterPoll, Finished
    <3> QED
        BY <1>4, <3>1 DEF MonitorPoll, Chain, Typed, TypeOK, MonitorTypeOK
  <2>2. UNCHANGED terminationQ
      BY <1>4 DEF MonitorPoll, queueVars
  <2> QED
      BY <1>1, <1>2, <2>1, <2>2
         DEF Chain, Lasting, DeceasedSound, Typed, TypeOK, RegistryTypeOK
<1>5. CASE MonitorReport(p)
  <2>1. proc[p] \in Finished
      BY <1>5 DEF MonitorReport, Chain
  <2>2. \A r \in Pids : monPc'[r] = "report" => monPc[r] = "report"
      BY <1>5 DEF MonitorReport, Typed, TypeOK, MonitorTypeOK
  <2>3. Named(terminationQ') \subseteq Named(terminationQ) \cup {p}
    <3>1. terminationQ' = terminationQ \/ terminationQ' = Append(terminationQ, p)
        BY <1>5 DEF MonitorReport, SendTermination
    <3> QED
        BY <3>1, NamedAppend, ControllerAssumption DEF Typed, TypeOK, QueueTypeOK
  <2> QED
      BY <1>1, <1>2, <2>1, <2>2, <2>3
         DEF Chain, Lasting, DeceasedSound, Typed, TypeOK, RegistryTypeOK
<1> QED
    BY <1>3, <1>4, <1>5 DEF MonitorStep

\* The terminator marks the pid of a message it took from the queue.
LEMMA TerminatorChain == Typed /\ Chain /\ TerminatorStep => Chain'
<1> SUFFICES ASSUME Typed, Chain, TerminatorStep PROVE Chain'
    OBVIOUS
<1>1. Lasting
    BY DEF TerminatorStep, TerminatorReceive, TerminatorFind, TerminatorMark, TerminatorEnds,
           componentVars, childVars, Lasting
<1>2. UNCHANGED monPc
    BY DEF TerminatorStep, TerminatorReceive, TerminatorFind, TerminatorMark, TerminatorEnds,
           componentVars, monitorVars
<1>3. CASE TerminatorReceive
  <2>1. /\ terminationQ # <<>>
        /\ terminationQ' = Tail(terminationQ)
        /\ terminator' = [pc |-> "find", pid |-> Head(terminationQ)]
      BY <1>3 DEF TerminatorReceive, ReceiveTermination
  <2>2. /\ Head(terminationQ) \in Named(terminationQ)
        /\ Named(terminationQ') \subseteq Named(terminationQ)
      BY <2>1, NamedTail DEF Typed, TypeOK, QueueTypeOK
  <2>3. UNCHANGED deceasedProcesses_
      BY <1>3 DEF TerminatorReceive, registryVars
  <2> QED
      BY <1>1, <1>2, <2>1, <2>2, <2>3
         DEF Chain, Lasting, DeceasedSound, Typed, TypeOK, RegistryTypeOK
<1>4. CASE TerminatorFind
  <2>1. UNCHANGED <<terminationQ, deceasedProcesses_>>
      BY <1>4 DEF TerminatorFind, queueVars, registryVars
  <2>2. /\ terminator.pc = "find"
        /\ terminator' \in {[terminator EXCEPT !.pc = "mark"],
                              [pc |-> "receive", pid |-> NoPid]}
      BY <1>4 DEF TerminatorFind
  <2> QED
      BY <1>1, <1>2, <2>1, <2>2
         DEF Chain, Lasting, DeceasedSound, Typed, TypeOK, RegistryTypeOK, ControllerTypeOK
<1>5. CASE TerminatorMark
  <2>1. UNCHANGED terminationQ
      BY <1>5 DEF TerminatorMark, queueVars
  <2>2. /\ terminator.pc = "mark"
        /\ terminator' = [pc |-> "receive", pid |-> NoPid]
        /\ deceasedProcesses_' \subseteq deceasedProcesses_ \cup ({terminator.pid} \cap Pids)
      BY <1>5 DEF TerminatorMark, MarkProcessAsDeceased, registryVars, Typed, TypeOK,
                  RegistryTypeOK
  <2> QED
      BY <1>1, <1>2, <2>1, <2>2
         DEF Chain, Lasting, DeceasedSound, Typed, TypeOK, RegistryTypeOK
<1>6. CASE TerminatorEnds
  <2>1. UNCHANGED <<terminationQ, deceasedProcesses_>>
      BY <1>6 DEF TerminatorEnds, componentVars, queueVars, registryVars
  <2>2. terminator'.pc = "ended"
      BY <1>6 DEF TerminatorEnds, Typed, TypeOK, ControllerTypeOK
  <2> QED
      BY <1>1, <1>2, <2>1, <2>2
         DEF Chain, Lasting, DeceasedSound, Typed, TypeOK, RegistryTypeOK
<1> QED
    BY <1>3, <1>4, <1>5, <1>6 DEF TerminatorStep

\* fork() touches no pid on the chain: those are finished, and a new child's pid was free.
LEMMA MakerChain == Typed /\ FreshPids /\ Chain /\ MakerStep => Chain'
<1> SUFFICES ASSUME Typed, FreshPids, Chain, MakerStep PROVE Chain'
    OBVIOUS
<1>1. UNCHANGED chainVars
    BY DEF chainVars, MakerStep, MakerFork, MakerForkFails, MakerCount, MakerRegister,
           RestoreCheck, RestoreSize, RestoreEnds, AddMonitorProcess, componentVars, queueVars,
           monitorVars, registryVars, controllerVars
<1>2. Lasting
  <2>1. CASE \E p \in Pids : MakerFork(p)
      BY <2>1, ForkLasting
  <2>2. CASE MakerForkFails
      BY <2>2, ParentEndsLasting DEF MakerForkFails
  <2>3. CASE UNCHANGED proc
      BY <2>3 DEF Lasting
  <2> QED
      BY <2>1, <2>2, <2>3
         DEF MakerStep, MakerCount, MakerRegister, RestoreCheck, RestoreSize, RestoreEnds,
             componentVars, childVars
<1> QED
    BY <1>1, <1>2, ChainKept

\* CreateMonitoringThreads starts a monitor, which reports nothing yet.
LEMMA CreatorChain == Typed /\ Chain /\ CreatorStep => Chain'
<1> SUFFICES ASSUME Typed, Chain, CreatorStep PROVE Chain'
    OBVIOUS
<1>1. UNCHANGED <<proc, terminationQ, terminator, deceasedProcesses_>>
    BY DEF CreatorStep, CreateMonitorThread, CreatorEnds, ReceiveCreation, componentVars,
           childVars, queueVars, registryVars, controllerVars
<1>2. \A p \in Pids : monPc'[p] = "report" => monPc[p] = "report"
    BY DEF CreatorStep, CreateMonitorThread, CreatorEnds, CreateMonitorProcessThread,
           componentVars, monitorVars, Typed, TypeOK, MonitorTypeOK
<1> QED
    BY <1>1, <1>2 DEF Chain, DeceasedSound

\* The thread of main() marks nobody, and its end lets no finished child come back.
LEMMA MainChain == Typed /\ Chain /\ (MainStep \/ ExitStep) => Chain'
<1> SUFFICES ASSUME Typed, Chain, MainStep \/ ExitStep PROVE Chain'
    OBVIOUS
<1>1. CASE StartThreads
    BY <1>1 DEF StartThreads, componentVars, childVars, queueVars, registryVars, monitorVars,
                Chain, DeceasedSound, Typed, TypeOK, ControllerTypeOK
<1>2. CASE ~StartThreads
  <2>1. UNCHANGED chainVars
      BY <1>2 DEF chainVars, MainStep, MainRuns, MainTestsPredicate, MainBlocks,
                  SpuriousWakeup, JoinThreads, ExitStep, StartReader, StopReader, JoinReader,
                  MainReturns, componentVars, queueVars, monitorVars, registryVars,
                  controllerVars, threadVars
  <2>2. Lasting
    <3>1. CASE MainReturns
        BY <3>1, ParentEndsLasting DEF MainReturns
    <3>2. CASE UNCHANGED proc
        BY <3>2 DEF Lasting
    <3> QED
        BY <1>2, <3>1, <3>2
           DEF MainStep, MainRuns, MainTestsPredicate, MainBlocks, SpuriousWakeup, JoinThreads,
               ExitStep, StartReader, StopReader, JoinReader, componentVars, childVars
  <2> QED
      BY <2>1, <2>2, ChainKept
<1> QED
    BY <1>1, <1>2

\* The console commands send signals, which bring no child back.
LEMMA ConsoleChain == Typed /\ Chain /\ (ReaderStep \/ UserStep) => Chain'
<1> SUFFICES ASSUME Typed, Chain, ReaderStep \/ UserStep PROVE Chain'
    OBVIOUS
<1>1. UNCHANGED chainVars
    BY DEF chainVars, ReaderStep, ReaderLoop, TakeSnapshot, SignalNext, QuitGoesOnToKill,
           QuitNotifies, StopCommandReturns, UserStep, OtherCommand, PauseCommand,
           RespawnCommand, StopCommand, SignalOneCommand, programVars, queueVars, monitorVars, registryVars,
           controllerVars, threadVars
<1>2. Lasting
  <2>1. ASSUME NEW p \in Pids, SignalNext(p) PROVE Lasting
    <3>1. SignalOf(console.job) \in {"SIGTERM", "SIGINT", "SIGKILL"}
        BY <2>1 DEF SignalNext, SignalOf, Typed, TypeOK, ConsoleTypeOK, Jobs
    <3> QED
        BY <2>1, <3>1, SignalLasting DEF SignalNext
  <2>2. ASSUME NEW c \in Commands, NEW p \in Pids, SignalOneCommand(c, p) PROVE Lasting
    <3>1. SignalOf(c) \in {"SIGTERM", "SIGINT", "SIGKILL"}
        BY <2>2 DEF SignalOneCommand, SignalOf
    <3> QED
        BY <2>2, <3>1, SignalLasting DEF SignalOneCommand
  <2>3. CASE UNCHANGED proc
      BY <2>3 DEF Lasting
  <2> QED
      BY <2>1, <2>2, <2>3
         DEF ReaderStep, ReaderLoop, TakeSnapshot, QuitGoesOnToKill, QuitNotifies,
             StopCommandReturns, UserStep, OtherCommand, PauseCommand, RespawnCommand,
             StopCommand, programVars, childVars
<1> QED
    BY <1>1, <1>2, ChainKept

\* Neither does anything from outside.
LEMMA EnvironmentChain == Typed /\ Chain /\ EnvironmentStep => Chain'
<1> SUFFICES ASSUME Typed, Chain, EnvironmentStep PROVE Chain'
    OBVIOUS
<1>1. UNCHANGED chainVars
    BY DEF chainVars, EnvironmentStep, Crash, ExternalKill, Interrupt, CloseInput, parentVars,
           queueVars, monitorVars, registryVars, controllerVars
<1>2. Lasting
  <2>1. CASE Crash
      BY <2>1, ParentEndsLasting DEF Crash
  <2>2. ASSUME NEW p \in Pids, ExternalKill(p) PROVE Lasting
      BY <2>2, SignalLasting DEF ExternalKill
  <2>3. CASE UNCHANGED proc
      BY <2>3 DEF Lasting
  <2> QED
      BY <2>1, <2>2, <2>3 DEF EnvironmentStep, Interrupt, CloseInput, childVars
<1> QED
    BY <1>1, <1>2, ChainKept

\* Every step of the program keeps the chain.
LEMMA NextChain == FreshPids /\ Typed /\ Chain /\ [Next]_vars => Chain'
<1> SUFFICES ASSUME FreshPids, Typed, Chain, [Next]_vars PROVE Chain'
    OBVIOUS
<1>1. CASE UNCHANGED vars
    BY <1>1 DEF vars, childVars, queueVars, registryVars, monitorVars, controllerVars, Chain,
                DeceasedSound
<1>2. CASE Done
    BY <1>1, <1>2 DEF Done
<1>3. CASE MakerStep \/ CreatorStep \/ TerminatorStep \/ MainStep
    BY <1>3, MakerChain, CreatorChain, TerminatorChain, MainChain
<1>4. CASE ReaderStep \/ UserStep \/ ExitStep \/ EnvironmentStep
    BY <1>4, ConsoleChain, MainChain, EnvironmentChain
<1>5. ASSUME NEW p \in Pids, ChildStep(p) \/ MonitorStep(p) PROVE Chain'
    BY <1>5, ChildChain, MonitorChain
<1> QED
    BY <1>1, <1>2, <1>3, <1>4, <1>5 DEF Next

\* A child marked deceased is over, so that the commands that pass over it leave no child
\* running: whatever the order of fork, registration, messages and reports.
THEOREM DeceasedAreOver ==
    ASSUME ~Recycle, OwnLeftovers
    PROVE  Spec => []DeceasedSound
<1>1. Init => Typed /\ Chain
    BY InitTyped, InitChain
<1>2. Typed /\ Chain /\ [Next]_vars => (Typed /\ Chain)'
    BY NextTyped, NextChain, NoRecycleFresh
<1>3. Typed /\ Chain => DeceasedSound
    BY DEF Chain
<1> QED
    BY <1>1, <1>2, <1>3, PTL DEF Spec
=============================================================================
