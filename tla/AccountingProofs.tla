-------------------------- MODULE AccountingProofs --------------------------
(***************************************************************************)
(* What the threads owe each other: a child gets one monitor thread, every *)
(* child that is not done with has its unit in counter_, so that no more   *)
(* than NumProcesses run, and the program implements Supervisor.           *)
(***************************************************************************)
EXTENDS SecureProcessManagerProofs, FiniteSetTheorems

\* A queue that names no pid of this run twice.
NoRepeat(q) == \A i, j \in DOMAIN q : q[i] = q[j] /\ q[i] \in Pids => i = j

\* A pid that is not in a queue can be appended to it, and is all that is added.
LEMMA AppendNew ==
    ASSUME NEW q \in Seq(Senders), NEW p \in Senders, NoRepeat(q), p \notin Named(q)
    PROVE  NoRepeat(Append(q, p)) /\ Named(Append(q, p)) = Named(q) \cup {p}
<1>1. /\ DOMAIN Append(q, p) = 1 .. Len(q) + 1
      /\ Len(q) \in Nat
      /\ DOMAIN q = 1 .. Len(q)
    OBVIOUS
<1>2. Append(q, p)[Len(q) + 1] = p
    BY <1>1
<1>3. \A i \in DOMAIN q : Append(q, p)[i] = q[i] /\ q[i] # p
    BY <1>1 DEF Named
<1>4. NoRepeat(Append(q, p))
  <2> SUFFICES ASSUME NEW i \in 1 .. Len(q) + 1, NEW j \in 1 .. Len(q) + 1,
                      Append(q, p)[i] = Append(q, p)[j], Append(q, p)[i] \in Pids
               PROVE  i = j
      BY <1>1 DEF NoRepeat
  <2>1. CASE i \in DOMAIN q /\ j \in DOMAIN q
      BY <2>1, <1>3 DEF NoRepeat
  <2>2. CASE i \notin DOMAIN q /\ j \notin DOMAIN q
      BY <2>2, <1>1
  <2>3. CASE i \in DOMAIN q /\ j \notin DOMAIN q
      BY <2>3, <1>1, <1>2, <1>3
  <2>4. CASE i \notin DOMAIN q /\ j \in DOMAIN q
      BY <2>4, <1>1, <1>2, <1>3
  <2> QED
      BY <2>1, <2>2, <2>3, <2>4
<1>5. Named(Append(q, p)) \subseteq Named(q) \cup {p}
    BY NamedAppend
<1>6. Named(q) \cup {p} \subseteq Named(Append(q, p))
    BY <1>1, <1>2, <1>3 DEF Named
<1> QED
    BY <1>4, <1>5, <1>6

\* A receive takes out a message, the only one that names its pid if that is of this run.
LEMMA TakeFirst ==
    ASSUME NEW q \in Seq(Senders), NoRepeat(q), q # <<>>
    PROVE  /\ NoRepeat(Tail(q))
           /\ Head(q) \in Named(q)
           /\ Named(Tail(q)) \subseteq Named(q)
           /\ Head(q) \in Pids => Named(Tail(q)) = Named(q) \ {Head(q)}
<1>1. /\ DOMAIN q = 1 .. Len(q)
      /\ Len(q) \in Nat \ {0}
      /\ DOMAIN Tail(q) = 1 .. Len(q) - 1
      /\ Head(q) = q[1]
    OBVIOUS
<1>2. \A i \in 1 .. Len(q) - 1 : Tail(q)[i] = q[i + 1] /\ i + 1 \in DOMAIN q
    BY <1>1
<1>3. NoRepeat(Tail(q))
  <2> SUFFICES ASSUME NEW i \in 1 .. Len(q) - 1, NEW j \in 1 .. Len(q) - 1,
                      Tail(q)[i] = Tail(q)[j], Tail(q)[i] \in Pids
               PROVE  i = j
      BY <1>1 DEF NoRepeat
  <2>1. i + 1 = j + 1
      BY <1>2 DEF NoRepeat
  <2> QED
      BY <2>1
<1>4. Head(q) \in Named(q) /\ Named(Tail(q)) \subseteq Named(q)
    BY NamedTail
<1>5. ASSUME Head(q) \in Pids PROVE Head(q) \notin Named(Tail(q))
  <2> SUFFICES ASSUME NEW i \in 1 .. Len(q) - 1, Tail(q)[i] = Head(q) PROVE FALSE
      BY <1>1 DEF Named
  <2>1. q[i + 1] = q[1] /\ i + 1 \in DOMAIN q /\ 1 \in DOMAIN q
      BY <1>1, <1>2
  <2>2. i + 1 = 1
      BY <1>5, <2>1 DEF NoRepeat
  <2> QED
      BY <2>2
<1>6. ASSUME NEW x \in Named(q), x # Head(q) PROVE x \in Named(Tail(q))
  <2>1. PICK i \in DOMAIN q : x = q[i]
      BY DEF Named
  <2>2. i - 1 \in 1 .. Len(q) - 1
      BY <1>1, <1>6, <2>1
  <2>3. Tail(q)[i - 1] = x
      BY <1>1, <1>2, <2>1, <2>2
  <2> QED
      BY <1>1, <2>2, <2>3 DEF Named
<1> QED
    BY <1>3, <1>4, <1>5, <1>6

-----------------------------------------------------------------------------
(***************************************************************************)
(* What main(), the console, the user and the world can do to the children *)
(* and the threads: kill children, end the parent, start the threads.      *)
(***************************************************************************)
OuterStep == MainStep \/ ReaderStep \/ UserStep \/ ExitStep \/ EnvironmentStep

\* One child is killed or none, or the parent ends and init reaps the zombies.
Killing ==
    /\ UNCHANGED parent
    /\ \A p \in Pids : proc'[p] = proc[p] \/ (Alive(p) /\ proc'[p] = "killed")
    /\ \A p, r \in Pids : proc'[p] # proc[p] /\ proc'[r] # proc[r] => p = r

Reaping ==
    /\ parent' # "up"
    /\ \A p \in Pids : proc'[p] = proc[p]
                         \/ (proc[p] \in {"exited", "killed"} /\ proc'[p] = "reaped")

\* A signal kills the child it is for, or none.
LEMMA SignalKills ==
    ASSUME Typed, NEW p \in Pids, NEW sig \in {"SIGTERM", "SIGINT", "SIGKILL"}, Signal(sig, p)
    PROVE  Killing
<1>1. CASE sig = "SIGKILL"
  <2>1. proc' = [proc EXCEPT ![p] = IF Alive(p) THEN "killed" ELSE proc[p]] /\ UNCHANGED parent
      BY <1>1 DEF Signal, HandleKill
  <2> QED
      BY <2>1 DEF Killing, Typed, TypeOK, ChildTypeOK
<1>2. CASE sig # "SIGKILL"
    BY <1>2 DEF Signal, HandleStop, Killing
<1> QED
    BY <1>1, <1>2

\* The end of the parent.
LEMMA EndReaps ==
    ASSUME Typed, NEW how \in {"exited", "died"}, ParentEnds(how)
    PROVE  Reaping
BY DEF ParentEnds, Reaping, Typed, TypeOK, ChildTypeOK

\* The children in an outer step.
LEMMA OuterChildren ==
    ASSUME Typed, OuterStep
    PROVE  Killing \/ Reaping
<1>1. CASE MainReturns \/ Crash
    BY <1>1, EndReaps DEF MainReturns, Crash
<1>2. ASSUME NEW p \in Pids, SignalNext(p) PROVE Killing
  <2>1. SignalOf(console.job) \in {"SIGTERM", "SIGINT", "SIGKILL"}
      BY <1>2 DEF SignalNext, SignalOf, Typed, TypeOK, ConsoleTypeOK, Jobs
  <2> QED
      BY <1>2, <2>1, SignalKills DEF SignalNext
<1>3. ASSUME NEW c \in Commands, NEW p \in Pids, SignalOneCommand(c, p) PROVE Killing
  <2>1. SignalOf(c) \in {"SIGTERM", "SIGINT", "SIGKILL"}
      BY <1>3 DEF SignalOneCommand, SignalOf
  <2> QED
      BY <1>3, <2>1, SignalKills DEF SignalOneCommand
<1>4. ASSUME NEW p \in Pids, ExternalKill(p) PROVE Killing
    BY <1>4, SignalKills DEF ExternalKill
<1>5. CASE UNCHANGED <<proc, parent>>
    BY <1>5 DEF Killing
<1> QED
    BY <1>1, <1>2, <1>3, <1>4, <1>5
       DEF OuterStep, MainStep, MainRuns, StartThreads, MainTestsPredicate, MainBlocks,
           SpuriousWakeup, JoinThreads, ExitStep, StartReader, StopReader, JoinReader,
           ReaderStep, ReaderLoop, TakeSnapshot, QuitGoesOnToKill, QuitNotifies,
           StopCommandReturns, UserStep, OtherCommand, PauseCommand, RespawnCommand,
           StopCommand, EnvironmentStep, Interrupt, CloseInput, componentVars, programVars,
           childVars

\* The queue, the monitor threads and counter_ in an outer step.
slotVars == <<creationQ, terminationQ, monPc, counter_>>

\* Main, the console and the environment leave them alone.
LEMMA OuterSlots ==
    ASSUME OuterStep
    PROVE  UNCHANGED slotVars
BY DEF OuterStep, MainStep, MainRuns, StartThreads, MainTestsPredicate, MainBlocks,
       SpuriousWakeup, JoinThreads, ExitStep, StartReader, StopReader, JoinReader,
       MainReturns, ReaderStep, ReaderLoop, TakeSnapshot, SignalNext, QuitGoesOnToKill,
       QuitNotifies, StopCommandReturns, UserStep, OtherCommand, PauseCommand, RespawnCommand,
       StopCommand, SignalOneCommand, EnvironmentStep, Crash, ExternalKill, Interrupt,
       CloseInput, componentVars, programVars, parentVars, childVars, queueVars,
       registryVars, monitorVars, controllerVars, consoleVars, threadVars, slotVars

\* The maker in an outer step: main() starts it once, after the first children.
LEMMA OuterMaker ==
    ASSUME Typed, OuterStep
    PROVE  /\ \/ UNCHANGED maker
              \/ mainPc = "start" /\ maker' = [maker EXCEPT !.pc = "check"]
           /\ mainPc' \in {"launch", "start"}
                => mainPc \in {"launch", "start"} /\ UNCHANGED maker
<1>1. CASE StartThreads
    BY <1>1 DEF StartThreads
<1>2. CASE ~StartThreads
  <2>1. UNCHANGED maker
      BY <1>2
         DEF OuterStep, MainStep, MainRuns, MainTestsPredicate, MainBlocks, SpuriousWakeup,
             JoinThreads, ExitStep, StartReader, StopReader, JoinReader, MainReturns,
             ReaderStep, ReaderLoop, TakeSnapshot, SignalNext, QuitGoesOnToKill,
             QuitNotifies, StopCommandReturns, UserStep, OtherCommand, PauseCommand,
             RespawnCommand, StopCommand, SignalOneCommand, EnvironmentStep, Crash,
             ExternalKill, Interrupt, CloseInput, componentVars, programVars, parentVars,
             controllerVars, threadVars
  <2>2. mainPc' \in {"launch", "start"} => mainPc \in {"launch", "start"}
      BY <1>2
         DEF OuterStep, MainStep, MainRuns, MainTestsPredicate, MainBlocks, SpuriousWakeup,
             JoinThreads, ExitStep, StartReader, StopReader, JoinReader, MainReturns,
             ReaderStep, ReaderLoop, TakeSnapshot, SignalNext, QuitGoesOnToKill,
             QuitNotifies, NotifyMain, StopCommandReturns, UserStep, OtherCommand,
             PauseCommand, RespawnCommand, StopCommand, SignalOneCommand, EnvironmentStep,
             Crash, ExternalKill, Interrupt, CloseInput, componentVars, programVars,
             parentVars, controllerVars, threadVars
  <2> QED
      BY <2>1, <2>2
<1> QED
    BY <1>1, <1>2

-----------------------------------------------------------------------------
(***************************************************************************)
(* A child gets one monitor thread.  It sends one creation message, as it  *)
(* leaves "born"; a pid is in the queue once; while it is there nobody     *)
(* monitors it.  All this is of the pids of this run: a creation message   *)
(* of an earlier run that named one of them could start a second thread.   *)
(***************************************************************************)
Unheard == {"free", "born"}

OnceMonitored ==
    /\ \A p \in Pids : proc[p] \in Unheard => p \notin Named(creationQ)
    /\ \A p \in Pids : proc[p] \in Unheard \/ p \in Named(creationQ) => monPc[p] = "none"
    /\ NoRepeat(creationQ)

\* No child is there, no message is about this run and no monitor runs.
LEMMA InitOnce == OwnLeftovers /\ Init => OnceMonitored
<1> SUFFICES ASSUME OwnLeftovers, Init PROVE OnceMonitored
    OBVIOUS
<1>1. \A p \in Pids : p \notin Named(creationQ) /\ monPc[p] = "none"
    BY DEF Init, QueueInit, MonitorInit, OwnLeftovers
<1> QED
    BY <1>1 DEF OnceMonitored, Named, NoRepeat

\* Nothing happens to the queue or the monitors, and nobody becomes unheard of.
LEMMA OnceKept ==
    ASSUME OnceMonitored, UNCHANGED <<creationQ, monPc>>,
           \A p \in Pids : proc'[p] \in Unheard => proc[p] \in Unheard
    PROVE  OnceMonitored'
BY DEF OnceMonitored

\* main(), the console and the world start no monitor and send no message.
LEMMA OuterOnce == Typed /\ OnceMonitored /\ OuterStep => OnceMonitored'
<1> SUFFICES ASSUME Typed, OnceMonitored, OuterStep PROVE OnceMonitored'
    OBVIOUS
<1>1. UNCHANGED <<creationQ, monPc>>
    BY OuterSlots DEF slotVars
<1>2. \A p \in Pids : proc'[p] \in Unheard => proc[p] \in Unheard
    BY OuterChildren DEF Killing, Reaping, Unheard
<1> QED
    BY <1>1, <1>2, OnceKept

\* fork() gives out a pid that nobody monitors and no message names.
LEMMA MakerOnce == Typed /\ OnceMonitored /\ MakerStep => OnceMonitored'
<1> SUFFICES ASSUME Typed, OnceMonitored, MakerStep PROVE OnceMonitored'
    OBVIOUS
<1>1. UNCHANGED <<creationQ, monPc>>
    BY DEF MakerStep, MakerFork, MakerForkFails, MakerCount, MakerRegister, RestoreCheck,
           RestoreSize, RestoreEnds, componentVars, queueVars, monitorVars
<1>2. ASSUME NEW p \in Pids, MakerFork(p) PROVE OnceMonitored'
  <2>1. proc' = [proc EXCEPT ![p] = "born"] /\ Available(p)
      BY <1>2 DEF MakerFork, ForkProcess
  <2>2. p \notin Named(creationQ) /\ monPc[p] = "none"
      BY <2>1 DEF Available, InUse, OnceMonitored, Unheard
  <2>3. \A r \in Pids : r # p => proc'[r] = proc[r]
      BY <2>1 DEF Typed, TypeOK, ChildTypeOK
  <2> QED
      BY <1>1, <2>2, <2>3 DEF OnceMonitored
<1>3. CASE MakerForkFails
  <2>1. Reaping
      BY <1>3, EndReaps DEF MakerForkFails
  <2> QED
      BY <1>1, <2>1, OnceKept DEF Reaping, Unheard
<1>4. CASE UNCHANGED proc
    BY <1>1, <1>4, OnceKept
<1> QED
    BY <1>2, <1>3, <1>4
       DEF MakerStep, MakerCount, MakerRegister, RestoreCheck, RestoreSize, RestoreEnds,
           componentVars, childVars

\* CreateMonitoringThreads takes the message out of the queue as it starts the monitor.
LEMMA CreatorOnce == Typed /\ OnceMonitored /\ CreatorStep => OnceMonitored'
<1> SUFFICES ASSUME Typed, OnceMonitored, CreatorStep PROVE OnceMonitored'
    OBVIOUS
<1>1. CASE CreatorEnds
    BY <1>1, OnceKept DEF CreatorEnds, componentVars, childVars, queueVars, monitorVars
<1>2. CASE CreateMonitorThread
  <2>1. PICK p \in Senders :
           /\ ReceiveCreation(p)
           /\ IF HasMonitor(p) /\ ~monitor_[p]
              THEN CreateMonitorProcessThread(p)
              ELSE UNCHANGED monitorVars
      BY <1>2 DEF CreateMonitorThread
  <2>2. UNCHANGED proc
      BY <1>2 DEF CreateMonitorThread, childVars
  <2>3. creationQ \in Seq(Senders) /\ creationQ # <<>> /\ p = Head(creationQ)
        /\ creationQ' = Tail(creationQ)
      BY <2>1 DEF ReceiveCreation, Typed, TypeOK, QueueTypeOK
  <2>4. /\ NoRepeat(creationQ')
        /\ p \in Named(creationQ)
        /\ Named(creationQ') \subseteq Named(creationQ)
        /\ p \in Pids => p \notin Named(creationQ')
      BY <2>3, TakeFirst DEF OnceMonitored
  <2>5. \A r \in Pids : r # p => monPc'[r] = monPc[r]
    <3>1. CASE HasMonitor(p) /\ ~monitor_[p]
        BY <2>1, <3>1 DEF CreateMonitorProcessThread, Typed, TypeOK, MonitorTypeOK
    <3>2. CASE ~(HasMonitor(p) /\ ~monitor_[p])
        BY <2>1, <3>2 DEF monitorVars
    <3> QED
        BY <3>1, <3>2
  <2> QED
      BY <2>2, <2>4, <2>5 DEF OnceMonitored
<1> QED
    BY <1>1, <1>2 DEF CreatorStep

\* MonitorProcessTermination has nothing to do with creation messages.
LEMMA TerminatorOnce == OnceMonitored /\ TerminatorStep => OnceMonitored'
BY OnceKept
   DEF TerminatorStep, TerminatorReceive, TerminatorFind, TerminatorMark, TerminatorEnds,
       ReceiveTermination, componentVars, childVars, queueVars, monitorVars

\* A child is heard of once.
LEMMA ChildOnce ==
    ASSUME Typed, OnceMonitored, NEW p \in Pids, ChildStep(p)
    PROVE  OnceMonitored'
<1>1. UNCHANGED monPc
    BY DEF ChildStep, ChildSendsCreation, ChildSendsTermination, ChildExits, parentVars,
           monitorVars
<1>2. CASE ChildSendsCreation(p)
  <2>1. proc[p] = "born" /\ proc' = [proc EXCEPT ![p] = "working"]
      BY <1>2 DEF ChildSendsCreation, PreWork
  <2>2. p \notin Named(creationQ)
      BY <2>1 DEF OnceMonitored, Unheard
  <2>3. creationQ' = creationQ \/ creationQ' = Append(creationQ, p)
      BY <1>2 DEF ChildSendsCreation, SendCreation
  <2>4. NoRepeat(creationQ') /\ Named(creationQ') \subseteq Named(creationQ) \cup {p}
    <3>1. p \in Senders /\ creationQ \in Seq(Senders) /\ NoRepeat(creationQ)
        BY ControllerAssumption DEF OnceMonitored, Typed, TypeOK, QueueTypeOK
    <3> QED
        BY <2>2, <2>3, <3>1, AppendNew
  <2>5. /\ proc'[p] = "working"
        /\ \A r \in Pids : r # p => proc'[r] = proc[r]
      BY <2>1 DEF Typed, TypeOK, ChildTypeOK
  <2>6. monPc[p] = "none"
      BY <2>1 DEF OnceMonitored, Unheard
  <2> QED
      BY <1>1, <2>4, <2>5, <2>6 DEF OnceMonitored, Unheard
<1>3. CASE ChildSendsTermination(p) \/ ChildExits(p)
  <2>1. UNCHANGED creationQ
      BY <1>3 DEF ChildSendsTermination, SendTermination, ChildExits, queueVars
  <2>2. \A r \in Pids : proc'[r] \in Unheard => proc[r] \in Unheard
      BY <1>3 DEF ChildSendsTermination, PostWork, ChildExits, ExitProcess, Typed, TypeOK,
                  ChildTypeOK, Unheard
  <2> QED
      BY <1>1, <2>1, <2>2, OnceKept
<1> QED
    BY <1>2, <1>3 DEF ChildStep

\* A monitor thread that runs is that of a child whose message is gone from the queue.
LEMMA MonitorOnce ==
    ASSUME Typed, OnceMonitored, NEW p \in Pids, MonitorStep(p)
    PROVE  OnceMonitored'
<1>1. UNCHANGED creationQ
    BY DEF MonitorStep, MonitorBegin, MonitorPoll, MonitorLeaves, MonitorReport, MonitorStop,
           SendTermination, queueVars
<1>2. \A r \in Pids : proc'[r] \in Unheard => proc[r] \in Unheard
    BY DEF MonitorStep, MonitorBegin, MonitorPoll, MonitorLeaves, MonitorReport, MonitorStop,
           childVars, Typed, TypeOK, ChildTypeOK, Unheard
<1>3. monPc[p] # "none" /\ \A r \in Pids : r # p => monPc'[r] = monPc[r]
    BY DEF MonitorStep, MonitorBegin, MonitorPoll, MonitorLeaves, MonitorReport, MonitorStop,
           Typed, TypeOK, MonitorTypeOK
<1> QED
    BY <1>1, <1>2, <1>3 DEF OnceMonitored

\* Every step of the program keeps it.
LEMMA NextOnce == Typed /\ OnceMonitored /\ [Next]_vars => OnceMonitored'
<1> SUFFICES ASSUME Typed, OnceMonitored, [Next]_vars PROVE OnceMonitored'
    OBVIOUS
<1>1. CASE UNCHANGED vars
    BY <1>1, OnceKept DEF vars, childVars, queueVars, monitorVars
<1>2. CASE Done
    BY <1>1, <1>2 DEF Done
<1>3. CASE OuterStep
    BY <1>3, OuterOnce
<1>4. CASE MakerStep \/ CreatorStep \/ TerminatorStep
    BY <1>4, MakerOnce, CreatorOnce, TerminatorOnce
<1>5. ASSUME NEW p \in Pids, ChildStep(p) \/ MonitorStep(p) PROVE OnceMonitored'
    BY <1>5, ChildOnce, MonitorOnce
<1> QED
    BY <1>1, <1>2, <1>3, <1>4, <1>5 DEF Next, OuterStep

\* No second monitor thread is created for a child while the first runs, even if pids come
\* round again: a creation message that may start one names a pid without any.  It holds
\* unless a message of an earlier run that is still in the queue names a pid of this run.
THEOREM OneMonitorEach ==
    ASSUME OwnLeftovers
    PROVE  Spec => []OneMonitorThread
<1>1. Init => Typed /\ OnceMonitored
    BY InitTyped, InitOnce
<1>2. Typed /\ OnceMonitored /\ [Next]_vars => (Typed /\ OnceMonitored)'
    BY NextTyped, NextOnce
<1>3. Typed /\ OnceMonitored => OneMonitorThread
    BY DEF OnceMonitored, OneMonitorThread, Typed, TypeOK, RegistryTypeOK
<1> QED
    BY <1>1, <1>2, <1>3, PTL DEF Spec

-----------------------------------------------------------------------------
(***************************************************************************)
(* The units of counter_.  Each child has one, from the fork (the maker    *)
(* still owes it in Uncounted) until its termination message is received.  *)
(* So each may be reported only once, by itself or by its monitor: that is *)
(* SaidOnce, and it needs a child not to be killed after its last message  *)
(* (~KillRace) and a queue without termination messages of an earlier run: *)
(* the terminator counts them off too, whatever pid they name.             *)
(***************************************************************************)
CleanLeftovers ==
    \A left \in Leftovers : left.termination = <<>> /\ Named(left.creation) \cap Pids = {}

\* The states of a child that reports itself.
SelfReported == {"announced", "exited", "reaped"}

SaidOnce ==
    /\ Named(terminationQ) \subseteq Pids
    /\ \A p \in Named(terminationQ) : proc[p] \in SelfReported /\ monPc[p] # "report"
    /\ NoRepeat(terminationQ)
    /\ \A p \in Pids : monPc[p] = "report" => proc[p] = "reaped"

\* main() starts the threads when createHandlers has returned.
MakerRests == mainPc \in {"launch", "start"} => maker.pc = "off"

Balance ==
    IsFiniteSet(Owed) /\ Cardinality(Owed) <= counter_ + Cardinality(Uncounted)

Accounts == SaidOnce /\ MakerRests /\ (parent = "up" => Balance)

\* The maker owes one unit or none.
LEMMA UncountedSize ==
    Cardinality(Uncounted) = IF maker.pc = "count" THEN 1 ELSE 0
BY FS_EmptySet, FS_Singleton DEF Uncounted

\* At the start there are no children and no messages.
LEMMA InitAccounts == CleanLeftovers /\ Init => Accounts
<1> SUFFICES ASSUME CleanLeftovers, Init PROVE Accounts
    OBVIOUS
<1>1. terminationQ = <<>> /\ Named(terminationQ) = {}
    BY DEF Init, QueueInit, CleanLeftovers, Named
<1>2. (\A p \in Pids : monPc[p] = "none" /\ proc[p] = "free") /\ counter_ = 0
      /\ maker.pc = "create" /\ mainPc = "init"
    BY DEF Init, MonitorInit, ChildInit, ControllerInit
<1>3. Owed = {}
    BY <1>1, <1>2 DEF Owed, Unannounced
<1>4. Balance
    BY <1>2, <1>3, UncountedSize, FS_EmptySet DEF Balance
<1>5. SaidOnce
    BY <1>1, <1>2 DEF SaidOnce, NoRepeat
<1> QED
    BY <1>2, <1>4, <1>5 DEF Accounts, MakerRests

\* A step without messages or reports, in which no child that reported itself changes its
\* mind.
LEMMA SaidKept ==
    ASSUME SaidOnce, UNCHANGED <<terminationQ, monPc>>,
           \A p \in Pids : /\ proc[p] \in SelfReported => proc'[p] \in SelfReported
                           /\ proc[p] = "reaped" => proc'[p] = "reaped"
    PROVE  SaidOnce'
BY DEF SaidOnce

\* Whoever stays owed was owed, and the counts stay.
LEMMA BalanceKept ==
    ASSUME Balance, Owed' \subseteq Owed, UNCHANGED <<counter_, Uncounted>>, counter_ \in Int
    PROVE  Balance'
<1>1. IsFiniteSet(Owed') /\ Cardinality(Owed') <= Cardinality(Owed)
    BY FS_Subset DEF Balance
<1>2. Cardinality(Owed) \in Nat /\ Cardinality(Owed') \in Nat /\ Cardinality(Uncounted) \in Nat
    BY <1>1, UncountedSize, FS_CardinalityType DEF Balance
<1>3. Cardinality(Uncounted') = Cardinality(Uncounted)
    OBVIOUS
<1> QED
    BY <1>1, <1>2, <1>3 DEF Balance

\* A killed child stays owed until its monitor has reported it.
LEMMA OuterAccounts == ~KillRace /\ Typed /\ Accounts /\ OuterStep => Accounts'
<1> SUFFICES ASSUME ~KillRace, Typed, Accounts, OuterStep PROVE Accounts'
    OBVIOUS
<1>1. UNCHANGED <<terminationQ, monPc, counter_>>
    BY OuterSlots DEF slotVars
<1>2. Killing \/ Reaping
    BY OuterChildren
<1>3. \A p \in Pids : Alive(p) => proc[p] \in Unannounced
    BY DEF Alive
<1>4. SaidOnce'
  <2>1. \A p \in Pids : /\ proc[p] \in SelfReported => proc'[p] \in SelfReported
                        /\ proc[p] = "reaped" => proc'[p] = "reaped"
      BY <1>2, <1>3 DEF Killing, Reaping, SelfReported, Unannounced
  <2> QED
      BY <1>1, <2>1, SaidKept DEF Accounts
<1>5. MakerRests'
    BY OuterMaker DEF Accounts, MakerRests
<1>6. ASSUME parent' = "up" PROVE Balance'
  <2>1. Killing
      BY <1>2, <1>6 DEF Reaping
  <2>2. parent = "up" /\ Balance
      BY <1>6, <2>1 DEF Killing, Accounts
  <2>3. Owed' \subseteq Owed
      BY <1>1, <1>3, <2>1 DEF Killing, Owed
  <2>4. UNCHANGED Uncounted
      BY OuterMaker DEF Accounts, MakerRests, Uncounted, Typed, TypeOK, ControllerTypeOK
  <2>5. counter_ \in Int
      BY DEF Typed, TypeOK, ControllerTypeOK
  <2> QED
      BY <1>1, <2>2, <2>3, <2>4, <2>5, BalanceKept
<1> QED
    BY <1>4, <1>5, <1>6 DEF Accounts

\* fork() adds a child and a unit that is owed; ++counter_ pays it.
LEMMA MakerAccounts == Typed /\ Accounts /\ MakerStep => Accounts'
<1> SUFFICES ASSUME Typed, Accounts, MakerStep PROVE Accounts'
    OBVIOUS
<1> DEFINE units == counter_ + Cardinality(Uncounted)
<1>1. UNCHANGED <<terminationQ, monPc>>
    BY DEF MakerStep, MakerFork, MakerForkFails, MakerCount, MakerRegister, RestoreCheck,
           RestoreSize, RestoreEnds, componentVars, queueVars, monitorVars
<1>2. counter_ \in Int /\ Cardinality(Uncounted) \in Nat /\ maker.left \in Nat
    BY UncountedSize DEF Typed, TypeOK, ControllerTypeOK
<1>3. ASSUME NEW p \in Pids, MakerFork(p) PROVE Accounts'
  <2>1. proc' = [proc EXCEPT ![p] = "born"] /\ Available(p) /\ parent = "up"
      BY <1>3 DEF MakerFork, ForkProcess
  <2>2. p \notin Named(terminationQ) /\ monPc[p] # "report"
      BY <2>1 DEF Available, InUse, Accounts, SaidOnce, SelfReported
  <2>3. \A r \in Pids : r # p => proc'[r] = proc[r]
      BY <2>1 DEF Typed, TypeOK, ChildTypeOK
  <2>4. SaidOnce'
      BY <1>1, <2>2, <2>3 DEF Accounts, SaidOnce
  <2>5. maker.pc = "create" /\ maker'.pc = "count" /\ UNCHANGED <<mainPc, counter_>>
      BY <1>3 DEF MakerFork, Typed, TypeOK, ControllerTypeOK
  <2>6. Balance'
    <3>1. Owed' \subseteq Owed \cup {p}
        BY <1>1, <2>3 DEF Owed
    <3>2. /\ IsFiniteSet(Owed \cup {p})
          /\ Cardinality(Owed \cup {p}) <= Cardinality(Owed) + 1
          /\ Cardinality(Owed) \in Nat
      <4>1. IsFiniteSet(Owed)
          BY <2>1 DEF Accounts, Balance
      <4> QED
          BY <4>1, FS_AddElement, FS_CardinalityType
    <3>3. /\ IsFiniteSet(Owed')
          /\ Cardinality(Owed') <= Cardinality(Owed \cup {p})
          /\ Cardinality(Owed') \in Nat
          /\ Cardinality(Owed \cup {p}) \in Nat
        BY <3>1, <3>2, FS_Subset, FS_CardinalityType
    <3>4. Cardinality(Uncounted) = 0 /\ Cardinality(Uncounted') = 1
        BY <2>5, UncountedSize, FS_Singleton DEF Uncounted
    <3> QED
        BY <1>2, <2>1, <2>5, <3>2, <3>3, <3>4 DEF Accounts, Balance
  <2> QED
      BY <2>4, <2>5, <2>6 DEF Accounts, MakerRests
<1>4. CASE MakerForkFails
  <2>1. Reaping /\ UNCHANGED <<maker, mainPc>>
      BY <1>4, EndReaps DEF MakerForkFails, controllerVars
  <2>2. SaidOnce'
      BY <1>1, <2>1, SaidKept DEF Reaping, Accounts, SelfReported
  <2> QED
      BY <2>1, <2>2 DEF Reaping, Accounts, MakerRests
<1>5. ASSUME UNCHANGED <<proc, parent>>, MakerRests', parent = "up",
             counter_' + Cardinality(Uncounted') = units
      PROVE  Accounts'
  <2>1. SaidOnce'
      BY <1>1, <1>5, SaidKept DEF Accounts
  <2>2. Owed' = Owed
      BY <1>1, <1>5 DEF Owed
  <2> QED
      BY <1>5, <2>1, <2>2 DEF Accounts, Balance
<1>6. CASE MakerCount
  <2>1. maker.pc = "count" /\ maker'.pc = "register" /\ counter_' = counter_ + 1
        /\ UNCHANGED <<mainPc, proc, parent>> /\ parent = "up"
      BY <1>6 DEF MakerCount, componentVars, childVars, Typed, TypeOK, ControllerTypeOK
  <2>2. Cardinality(Uncounted) = 1 /\ Cardinality(Uncounted') = 0
      BY <2>1, UncountedSize, FS_EmptySet DEF Uncounted
  <2>3. MakerRests'
      BY <2>1 DEF Accounts, MakerRests
  <2> QED
      BY <1>2, <1>5, <2>1, <2>2, <2>3
<1>7. CASE MakerRegister \/ RestoreCheck \/ RestoreSize \/ RestoreEnds
  <2>1. /\ maker.pc # "count" /\ maker'.pc # "count"
        /\ UNCHANGED <<counter_, proc, parent>> /\ parent = "up"
    <3>1. UNCHANGED <<counter_, proc, parent>> /\ parent = "up"
        BY <1>7 DEF MakerRegister, RestoreCheck, RestoreSize, RestoreEnds, componentVars,
                    childVars
    <3>2. maker.pc # "count" /\ maker'.pc # "count"
      <4>1. CASE MakerRegister
          BY <4>1 DEF MakerRegister
      <4>2. CASE RestoreCheck \/ RestoreSize \/ RestoreEnds
          BY <4>2 DEF RestoreCheck, RestoreSize, RestoreEnds, Typed, TypeOK, ControllerTypeOK
      <4> QED
          BY <1>7, <4>1, <4>2
    <3> QED
        BY <3>1, <3>2
  <2>2. Uncounted = {} /\ Uncounted' = {}
      BY <2>1 DEF Uncounted
  <2>3. MakerRests'
      BY <1>2, <1>7 DEF MakerRegister, RestoreCheck, RestoreSize, RestoreEnds, Accounts,
                        MakerRests, Typed, TypeOK, ControllerTypeOK
  <2> QED
      BY <1>5, <2>1, <2>2, <2>3
<1> QED
    BY <1>3, <1>4, <1>6, <1>7 DEF MakerStep

\* CreateMonitoringThreads reports nothing.
LEMMA CreatorAccounts == Typed /\ Accounts /\ CreatorStep => Accounts'
<1> SUFFICES ASSUME Typed, Accounts, CreatorStep PROVE Accounts'
    OBVIOUS
<1>1. UNCHANGED <<proc, parent, terminationQ, counter_, maker, mainPc>>
    BY DEF CreatorStep, CreateMonitorThread, CreatorEnds, ReceiveCreation, componentVars,
           childVars, queueVars, controllerVars
<1>2. \A p \in Pids : monPc'[p] = "report" => monPc[p] = "report"
    BY DEF CreatorStep, CreateMonitorThread, CreatorEnds, CreateMonitorProcessThread,
           componentVars, monitorVars, Typed, TypeOK, MonitorTypeOK
<1>3. SaidOnce'
    BY <1>1, <1>2 DEF Accounts, SaidOnce
<1>4. Owed' \subseteq Owed
    BY <1>1, <1>2 DEF Owed
<1>5. counter_ \in Int /\ UNCHANGED Uncounted
    BY <1>1 DEF Uncounted, Typed, TypeOK, ControllerTypeOK
<1> QED
    BY <1>1, <1>3, <1>4, <1>5, BalanceKept DEF Accounts, MakerRests

\* MonitorProcessTermination takes one child off the list with each unit.
LEMMA TerminatorAccounts == Typed /\ Accounts /\ TerminatorStep => Accounts'
<1> SUFFICES ASSUME Typed, Accounts, TerminatorStep PROVE Accounts'
    OBVIOUS
<1>1. UNCHANGED <<proc, parent, monPc, maker, mainPc>>
    BY DEF TerminatorStep, TerminatorReceive, TerminatorFind, TerminatorMark, TerminatorEnds,
           componentVars, childVars, monitorVars
<1>2. counter_ \in Int /\ UNCHANGED Uncounted
    BY <1>1 DEF Uncounted, Typed, TypeOK, ControllerTypeOK
<1>3. CASE TerminatorReceive
  <2>1. /\ terminationQ # <<>>
        /\ terminationQ' = Tail(terminationQ)
        /\ counter_' = counter_ - 1
        /\ parent = "up"
      BY <1>3 DEF TerminatorReceive, ReceiveTermination
  <2> DEFINE p == Head(terminationQ)
  <2>2. /\ NoRepeat(terminationQ')
        /\ p \in Named(terminationQ)
        /\ Named(terminationQ') = Named(terminationQ) \ {p}
    <3>1. terminationQ \in Seq(Senders) /\ NoRepeat(terminationQ)
          /\ Named(terminationQ) \subseteq Pids
        BY DEF Accounts, SaidOnce, Typed, TypeOK, QueueTypeOK
    <3>2. p \in Named(terminationQ)
        BY <2>1, <3>1, TakeFirst
    <3>3. p \in Pids
        BY <3>1, <3>2
    <3> QED
        BY <2>1, <3>1, <3>3, TakeFirst
  <2> HIDE DEF p
  <2>3. SaidOnce'
      BY <1>1, <2>2 DEF Accounts, SaidOnce
  <2>4. p \in Owed /\ Owed' \subseteq Owed \ {p}
    <3>1. p \in Pids /\ proc[p] \in SelfReported /\ monPc[p] # "report"
        BY <2>2 DEF Accounts, SaidOnce
    <3>2. p \notin Owed'
        BY <1>1, <2>2, <3>1 DEF Owed, SelfReported, Unannounced
    <3> QED
        BY <1>1, <2>2, <3>1, <3>2 DEF Owed
  <2>5. /\ IsFiniteSet(Owed \ {p})
        /\ Cardinality(Owed \ {p}) = Cardinality(Owed) - 1
        /\ Cardinality(Owed) \in Nat
    <3>1. IsFiniteSet(Owed)
        BY <2>1 DEF Accounts, Balance
    <3> QED
        BY <2>4, <3>1, FS_RemoveElement, FS_CardinalityType
  <2>6. IsFiniteSet(Owed') /\ Cardinality(Owed') <= Cardinality(Owed \ {p})
        /\ Cardinality(Owed') \in Nat
      BY <2>4, <2>5, FS_Subset, FS_CardinalityType
  <2>7. Cardinality(Uncounted') = Cardinality(Uncounted) /\ Cardinality(Uncounted) \in Nat
      BY <1>2, UncountedSize
  <2>8. Balance'
      BY <1>2, <2>1, <2>5, <2>6, <2>7 DEF Accounts, Balance
  <2> QED
      BY <1>1, <2>3, <2>8 DEF Accounts, MakerRests
<1>4. CASE TerminatorFind \/ TerminatorMark \/ TerminatorEnds
  <2>1. UNCHANGED <<terminationQ, counter_>>
      BY <1>4 DEF TerminatorFind, TerminatorMark, TerminatorEnds, componentVars, queueVars
  <2>2. SaidOnce'
      BY <1>1, <2>1, SaidKept DEF Accounts
  <2>3. Owed' = Owed
      BY <1>1, <2>1 DEF Owed
  <2> QED
      BY <1>1, <1>2, <2>1, <2>2, <2>3, BalanceKept DEF Accounts, MakerRests
<1> QED
    BY <1>3, <1>4 DEF TerminatorStep

\* A child sends one termination message, as it leaves "working".
LEMMA ChildAccounts ==
    ASSUME Typed, Accounts, NEW p \in Pids, ChildStep(p)
    PROVE  Accounts'
<1>1. UNCHANGED <<parent, monPc, maker, mainPc, counter_>>
    BY DEF ChildStep, ChildSendsCreation, ChildSendsTermination, ChildExits, PreWork, PostWork,
           ExitProcess, parentVars, monitorVars, controllerVars
<1>2. counter_ \in Int /\ UNCHANGED Uncounted
    BY <1>1 DEF Uncounted, Typed, TypeOK, ControllerTypeOK
<1>3. SaidOnce' /\ Owed' \subseteq Owed
  <2>1. CASE ChildSendsCreation(p) \/ ChildExits(p)
    <3>1. UNCHANGED terminationQ
        BY <2>1 DEF ChildSendsCreation, SendCreation, ChildExits, queueVars
    <3>2. \A r \in Pids : /\ proc[r] \in SelfReported => proc'[r] \in SelfReported
                          /\ proc[r] = "reaped" => proc'[r] = "reaped"
                          /\ proc'[r] \in Unannounced \cup {"killed"}
                               => proc[r] \in Unannounced \cup {"killed"}
        BY <2>1 DEF ChildSendsCreation, PreWork, ChildExits, ExitProcess, Typed, TypeOK,
                    ChildTypeOK, SelfReported, Unannounced
    <3> QED
        BY <1>1, <3>1, <3>2, SaidKept DEF Accounts, Owed
  <2>2. CASE ChildSendsTermination(p)
    <3>1. proc[p] = "working" /\ proc' = [proc EXCEPT ![p] = "announced"]
        BY <2>2 DEF ChildSendsTermination, PostWork
    <3>2. /\ proc'[p] = "announced"
          /\ \A r \in Pids : r # p => proc'[r] = proc[r]
        BY <3>1 DEF Typed, TypeOK, ChildTypeOK
    <3>3. p \notin Named(terminationQ) /\ monPc[p] # "report" /\ p \in Owed
        BY <3>1 DEF Accounts, SaidOnce, SelfReported, Owed, Unannounced
    <3>4. terminationQ' = terminationQ \/ terminationQ' = Append(terminationQ, p)
        BY <2>2 DEF ChildSendsTermination, SendTermination, queueVars
    <3>5. NoRepeat(terminationQ') /\ Named(terminationQ') \subseteq Named(terminationQ) \cup {p}
      <4>1. p \in Senders /\ terminationQ \in Seq(Senders) /\ NoRepeat(terminationQ)
          BY ControllerAssumption DEF Accounts, SaidOnce, Typed, TypeOK, QueueTypeOK
      <4> QED
          BY <3>3, <3>4, <4>1, AppendNew
    <3>6. SaidOnce'
        BY <1>1, <3>1, <3>2, <3>3, <3>5 DEF Accounts, SaidOnce, SelfReported
    <3>7. Owed' \subseteq Owed
        BY <1>1, <3>2, <3>3, <3>5 DEF Owed
    <3> QED
        BY <3>6, <3>7
  <2> QED
      BY <2>1, <2>2 DEF ChildStep
<1> QED
    BY <1>1, <1>2, <1>3, BalanceKept DEF Accounts, MakerRests

\* A monitor thread reports a child that was killed, once: it has reaped it.
LEMMA MonitorAccounts ==
    ASSUME Typed, Accounts, NEW p \in Pids, MonitorStep(p)
    PROVE  Accounts'
<1>1. UNCHANGED <<parent, maker, mainPc, counter_>>
    BY DEF MonitorStep, MonitorBegin, MonitorPoll, MonitorLeaves, MonitorReport, MonitorStop,
           childVars, monitorRest, controllerVars
<1>2. counter_ \in Int /\ UNCHANGED Uncounted
    BY <1>1 DEF Uncounted, Typed, TypeOK, ControllerTypeOK
<1>3. \A r \in Pids : r # p => monPc'[r] = monPc[r] /\ proc'[r] = proc[r]
    BY DEF MonitorStep, MonitorBegin, MonitorPoll, MonitorLeaves, MonitorReport, MonitorStop,
           childVars, Typed, TypeOK, MonitorTypeOK, ChildTypeOK
<1>4. SaidOnce' /\ Owed' \subseteq Owed
  <2>1. CASE MonitorBegin(p) \/ MonitorLeaves(p) \/ MonitorStop(p)
    <3>1. UNCHANGED <<proc, terminationQ>> /\ monPc'[p] # "report"
        BY <2>1 DEF MonitorBegin, MonitorLeaves, MonitorStop, childVars, queueVars, Typed,
                    TypeOK, MonitorTypeOK
    <3> QED
        BY <1>3, <3>1 DEF Accounts, SaidOnce, Owed
  <2>2. CASE MonitorPoll(p)
    <3>1. UNCHANGED terminationQ
        BY <2>2 DEF MonitorPoll, queueVars
    <3>2. /\ monPc[p] = "loop"
          /\ monPc'[p] = AfterPoll(p)
          /\ proc'[p] = IF proc[p] \in {"killed", "exited"} THEN "reaped" ELSE proc[p]
        BY <2>2 DEF MonitorPoll, Typed, TypeOK, MonitorTypeOK, ChildTypeOK
    <3>3. AfterPoll(p) = "report" <=> proc[p] = "killed"
        BY DEF AfterPoll, Unannounced
    <3>4. SaidOnce'
        BY <1>3, <3>1, <3>2, <3>3 DEF Accounts, SaidOnce, SelfReported
    <3>5. Owed' \subseteq Owed
        BY <1>3, <3>1, <3>2, <3>3 DEF Owed, Unannounced
    <3> QED
        BY <3>4, <3>5
  <2>3. CASE MonitorReport(p)
    <3>1. UNCHANGED proc /\ monPc[p] = "report" /\ monPc'[p] = "stop"
        BY <2>3 DEF MonitorReport, childVars, Typed, TypeOK, MonitorTypeOK
    <3>2. proc[p] = "reaped" /\ p \notin Named(terminationQ) /\ p \in Owed
        BY <3>1 DEF Accounts, SaidOnce, Owed
    <3>3. terminationQ' = terminationQ \/ terminationQ' = Append(terminationQ, p)
        BY <2>3 DEF MonitorReport, SendTermination
    <3>4. NoRepeat(terminationQ') /\ Named(terminationQ') \subseteq Named(terminationQ) \cup {p}
      <4>1. p \in Senders /\ terminationQ \in Seq(Senders) /\ NoRepeat(terminationQ)
          BY ControllerAssumption DEF Accounts, SaidOnce, Typed, TypeOK, QueueTypeOK
      <4> QED
          BY <3>2, <3>3, <4>1, AppendNew
    <3>5. SaidOnce'
        BY <1>3, <3>1, <3>2, <3>4 DEF Accounts, SaidOnce, SelfReported
    <3>6. Owed' \subseteq Owed
        BY <1>3, <3>1, <3>2, <3>4 DEF Owed
    <3> QED
        BY <3>5, <3>6
  <2> QED
      BY <2>1, <2>2, <2>3 DEF MonitorStep
<1> QED
    BY <1>1, <1>2, <1>4, BalanceKept DEF Accounts, MakerRests

\* Every step of the program keeps the accounts.
LEMMA NextAccounts == ~KillRace /\ Typed /\ Accounts /\ [Next]_vars => Accounts'
<1> SUFFICES ASSUME ~KillRace, Typed, Accounts, [Next]_vars PROVE Accounts'
    OBVIOUS
<1>1. CASE UNCHANGED vars
    BY <1>1 DEF vars, childVars, queueVars, monitorVars, controllerVars, Accounts, SaidOnce,
                MakerRests, Balance, Owed, Uncounted
<1>2. CASE Done
    BY <1>1, <1>2 DEF Done
<1>3. CASE OuterStep
    BY <1>3, OuterAccounts
<1>4. CASE MakerStep \/ CreatorStep \/ TerminatorStep
    BY <1>4, MakerAccounts, CreatorAccounts, TerminatorAccounts
<1>5. ASSUME NEW p \in Pids, ChildStep(p) \/ MonitorStep(p) PROVE Accounts'
    BY <1>5, ChildAccounts, MonitorAccounts
<1> QED
    BY <1>1, <1>2, <1>3, <1>4, <1>5 DEF Next, OuterStep

\* Every child that runs, or whose end is not yet received, has its unit in counter_ or will
\* get it from the maker: restoreHandlerCount replaces only children that are over, whatever
\* the order of fork, count, kill, report and receipt, and even if messages are lost.
THEOREM SlotsAccounted ==
    ASSUME ~KillRace, CleanLeftovers
    PROVE  Spec => []SlotAccounting
<1>1. Init => Typed /\ Accounts
    BY InitTyped, InitAccounts
<1>2. Typed /\ Accounts /\ [Next]_vars => (Typed /\ Accounts)'
    BY NextTyped, NextAccounts
<1>3. Accounts => SlotAccounting
    BY DEF Accounts, Balance, SlotAccounting
<1> QED
    BY <1>1, <1>2, <1>3, PTL DEF Spec

\* The children that run are among those that have a unit, and counter_ with what the maker
\* still owes is at most NumProcesses.
LEMMA PopulationSmall ==
    ASSUME Typed, Balance
    PROVE  LET running == {p \in Pids : proc[p] \in Unannounced}
           IN  /\ IsFiniteSet(running)
               /\ Cardinality(running) \in Nat
               /\ Cardinality(running) <= counter_ + Cardinality(Uncounted)
               /\ Cardinality(running) <= NumProcesses
<1> DEFINE running == {p \in Pids : proc[p] \in Unannounced}
<1>1. running \subseteq Owed /\ IsFiniteSet(Owed)
    BY DEF Owed, Balance
<1>2. /\ IsFiniteSet(running)
      /\ Cardinality(running) <= Cardinality(Owed)
      /\ Cardinality(running) \in Nat /\ Cardinality(Owed) \in Nat
    BY <1>1, FS_Subset, FS_CardinalityType
<1> HIDE DEF running
<1>3. counter_ \in Int /\ maker.left \in Nat /\ NumProcesses \in Nat
    BY ControllerAssumption DEF Typed, TypeOK, ControllerTypeOK
<1>4. counter_ + Cardinality(Uncounted) <= NumProcesses
    BY <1>3, UncountedSize DEF Typed, MakerOK, CounterBound
<1>5. Cardinality(running) <= counter_ + Cardinality(Uncounted)
    BY <1>2, <1>3, UncountedSize DEF Balance
<1> QED
    BY <1>2, <1>3, <1>4, <1>5, UncountedSize DEF running

\* Never more children than -n run at a time.
THEOREM PopulationBounded ==
    ASSUME ~KillRace, CleanLeftovers
    PROVE  Spec => []PopulationBound
<1>1. Init => Typed /\ Accounts
    BY InitTyped, InitAccounts
<1>2. Typed /\ Accounts /\ [Next]_vars => (Typed /\ Accounts)'
    BY NextTyped, NextAccounts
<1>3. Typed /\ Accounts => PopulationBound
    BY PopulationSmall DEF Accounts, PopulationBound
<1> QED
    BY <1>1, <1>2, <1>3, PTL DEF Spec

-----------------------------------------------------------------------------
(***************************************************************************)
(* The refinement of Supervisor: fork() is its Launch, the end of a        *)
(* child's work, or its death, its Conclude, the end of the parent its     *)
(* ShutDown, and every other step changes nothing of it.                   *)
(***************************************************************************)
\* The initial states map to initial states.
LEMMA InitPromise == Init => Promise!SupervisorInit
BY DEF Init, ChildInit, Promise!SupervisorInit, Unannounced, Finished

\* A step in which no child starts or ends.
LEMMA PromiseIdle ==
    ASSUME UNCHANGED parent,
           \A p \in Pids : /\ proc'[p] \in Unannounced <=> proc[p] \in Unannounced
                           /\ proc'[p] \in Finished <=> proc[p] \in Finished
    PROVE  UNCHANGED Promise!supervisorVars
BY DEF Promise!supervisorVars

\* A step in which child p, and no other, ends.
LEMMA PromiseConcludes ==
    ASSUME NEW p \in Pids, UNCHANGED parent,
           proc[p] \in Unannounced, proc'[p] \in Finished,
           \A r \in Pids : r # p => proc'[r] = proc[r]
    PROVE  Promise!Conclude(p)
<1>1. \A s \in Finished : s \notin Unannounced
    BY DEF Finished, Unannounced
<1> QED
    BY <1>1 DEF Promise!Conclude

\* The end of the parent.
LEMMA PromiseShutsDown ==
    ASSUME Reaping
    PROVE  [Promise!SupervisorNext]_Promise!supervisorVars
<1>1. \A p \in Pids : /\ proc'[p] \in Unannounced <=> proc[p] \in Unannounced
                      /\ proc'[p] \in Finished <=> proc[p] \in Finished
    BY DEF Reaping, Unannounced, Finished
<1>2. CASE parent = "up"
    BY <1>1, <1>2 DEF Reaping, Promise!ShutDown, Promise!SupervisorNext
<1>3. CASE parent # "up"
    BY <1>1, <1>3 DEF Reaping, Promise!supervisorVars
<1> QED
    BY <1>2, <1>3

\* Supervisor counts its children as this module does.
LEMMA PromiseCardinality ==
    ASSUME NEW S PROVE Promise!Cardinality(S) = Cardinality(S)
BY DEF Promise!Cardinality, Cardinality

\* A fork while a handler is still to create: counter_ is below NumProcesses, and so is the
\* number of children that run.
LEMMA PromiseLaunches ==
    ASSUME ~Recycle, Typed, Accounts, NEW p \in Pids, MakerFork(p)
    PROVE  Promise!Launch(p)
<1> DEFINE running == {r \in Pids : proc[r] \in Unannounced}
<1>1. /\ parent = "up"
      /\ maker.pc = "create"
      /\ proc[p] = "free"
      /\ proc' = [proc EXCEPT ![p] = "born"]
      /\ UNCHANGED parent
    BY DEF MakerFork, Available, ForkProcess
<1>2. \A r \in Pids : proc'[r] = IF r = p THEN "born" ELSE proc[r]
    BY <1>1 DEF Typed, TypeOK, ChildTypeOK
<1>3. Cardinality(running) < NumProcesses
  <2>1. /\ Cardinality(running) \in Nat
        /\ Cardinality(running) <= counter_ + Cardinality(Uncounted)
      BY <1>1, PopulationSmall DEF Accounts
  <2>2. counter_ \in Int /\ maker.left \in Nat /\ NumProcesses \in Nat
      BY ControllerAssumption DEF Typed, TypeOK, ControllerTypeOK
  <2>3. maker.left >= 1 /\ counter_ + maker.left <= NumProcesses
      BY <1>1 DEF Typed, MakerOK, CounterBound
  <2>4. Cardinality(Uncounted) = 0
      BY <1>1, UncountedSize
  <2> HIDE DEF running
  <2> QED
      BY <2>1, <2>2, <2>3, <2>4
<1>4. p \notin running /\ p \notin {r \in Pids : proc[r] \in Finished}
    BY <1>1 DEF Unannounced, Finished
<1>5. {r \in Pids : proc'[r] \in Unannounced} = running \cup {p}
    BY <1>2 DEF Unannounced
<1>6. {r \in Pids : proc'[r] \in Finished} = {r \in Pids : proc[r] \in Finished}
    BY <1>1, <1>2 DEF Finished
<1> QED
    BY <1>1, <1>3, <1>4, <1>5, <1>6, PromiseCardinality DEF Promise!Launch

\* Every step maps to a step or a stutter.
LEMMA NextPromise ==
    ASSUME ~KillRace, ~Recycle, Typed, Accounts, [Next]_vars
    PROVE  [Promise!SupervisorNext]_Promise!supervisorVars
<1>1. CASE UNCHANGED vars
    BY <1>1, PromiseIdle DEF vars, childVars
<1>2. CASE Done
    BY <1>1, <1>2 DEF Done
<1>3. CASE OuterStep
  <2>1. CASE Reaping
      BY <2>1, PromiseShutsDown
  <2>2. CASE Killing /\ \A p \in Pids : proc'[p] = proc[p]
      BY <2>2, PromiseIdle DEF Killing
  <2>3. ASSUME Killing, NEW p \in Pids, proc'[p] # proc[p]
        PROVE  Promise!Conclude(p)
    <3>1. proc[p] \in Unannounced /\ proc'[p] \in Finished
        BY <2>3 DEF Killing, Alive, Finished
    <3> QED
        BY <2>3, <3>1, PromiseConcludes DEF Killing
  <2> QED
      BY <1>3, <2>1, <2>2, <2>3, OuterChildren DEF Promise!SupervisorNext
<1>4. ASSUME NEW p \in Pids, MakerFork(p) PROVE Promise!Launch(p)
    BY <1>4, PromiseLaunches
<1>5. CASE MakerForkFails
    BY <1>5, EndReaps, PromiseShutsDown DEF MakerForkFails
<1>6. CASE MakerCount \/ MakerRegister \/ RestoreCheck \/ RestoreSize \/ RestoreEnds
             \/ CreatorStep \/ TerminatorStep
  <2>1. UNCHANGED <<proc, parent>>
      BY <1>6 DEF MakerCount, MakerRegister, RestoreCheck, RestoreSize, RestoreEnds,
                  CreatorStep, CreateMonitorThread, CreatorEnds, TerminatorStep,
                  TerminatorReceive, TerminatorFind, TerminatorMark, TerminatorEnds,
                  componentVars, childVars
  <2> QED
      BY <2>1, PromiseIdle
<1>7. ASSUME NEW p \in Pids, ChildSendsTermination(p) PROVE Promise!Conclude(p)
  <2>1. proc[p] = "working" /\ proc' = [proc EXCEPT ![p] = "announced"] /\ UNCHANGED parent
      BY <1>7 DEF ChildSendsTermination, PostWork
  <2>2. /\ proc'[p] = "announced"
        /\ \A r \in Pids : r # p => proc'[r] = proc[r]
      BY <2>1 DEF Typed, TypeOK, ChildTypeOK
  <2> QED
      BY <2>1, <2>2, PromiseConcludes DEF Unannounced, Finished
<1>8. ASSUME NEW p \in Pids, ChildSendsCreation(p) \/ ChildExits(p) \/ MonitorStep(p)
      PROVE  UNCHANGED Promise!supervisorVars
  <2>1. UNCHANGED parent
      BY <1>8 DEF ChildSendsCreation, PreWork, ChildExits, ExitProcess, MonitorStep,
                  MonitorBegin, MonitorPoll, MonitorLeaves, MonitorReport, MonitorStop,
                  childVars
  <2>2. \A r \in Pids : /\ proc'[r] \in Unannounced <=> proc[r] \in Unannounced
                        /\ proc'[r] \in Finished <=> proc[r] \in Finished
    <3>1. CASE ChildSendsCreation(p)
        BY <3>1 DEF ChildSendsCreation, PreWork, Typed, TypeOK, ChildTypeOK, Unannounced,
                    Finished
    <3>2. CASE ChildExits(p)
        BY <3>2 DEF ChildExits, ExitProcess, Typed, TypeOK, ChildTypeOK, Unannounced, Finished
    <3>3. CASE MonitorStep(p)
        BY <3>3 DEF MonitorStep, MonitorBegin, MonitorPoll, MonitorLeaves, MonitorReport,
                    MonitorStop, childVars, Typed, TypeOK, ChildTypeOK, Unannounced, Finished
    <3> QED
        BY <1>8, <3>1, <3>2, <3>3
  <2> QED
      BY <2>1, <2>2, PromiseIdle
<1> QED
    BY <1>1, <1>2, <1>3, <1>4, <1>5, <1>6, <1>7, <1>8
       DEF Next, OuterStep, MakerStep, ChildStep, Promise!SupervisorNext

\* The program implements Supervisor, whatever its threads, its children, the user and the
\* world do, as long as a child is reported once and pids do not return.
THEOREM ImplementsSupervisor ==
    ASSUME ~KillRace, CleanLeftovers, ~Recycle
    PROVE  Spec => KeepsPromise
<1>1. Init => Typed /\ Accounts
    BY InitTyped, InitAccounts
<1>2. Typed /\ Accounts /\ [Next]_vars => (Typed /\ Accounts)'
    BY NextTyped, NextAccounts
<1>3. Typed /\ Accounts /\ [Next]_vars => [Promise!SupervisorNext]_Promise!supervisorVars
    BY NextPromise
<1> QED
    BY <1>1, <1>2, <1>3, InitPromise, PTL DEF Spec, KeepsPromise, Promise!SupervisorSpec
=============================================================================
