------------------------ MODULE SystemProcessProofs ------------------------
(***************************************************************************)
(* Theorems about SystemProcess, the process type without fork, creation   *)
(* messages and monitors.  The steps that it shares with the other types   *)
(* are steps of Next, and keep what the lemmas about Next say.             *)
(***************************************************************************)
EXTENDS SystemProcess, AccountingProofs

\* The steps of MainController and Console that SystemNext takes over.
SharedStep ==
    \/ MakerCount \/ MakerRegister \/ RestoreCheck \/ RestoreSize \/ RestoreEnds
    \/ CreatorStep \/ TerminatorStep
    \/ OuterStep

\* Each is a step of Next.
LEMMA SharedNext == SharedStep => Next
BY DEF SharedStep, OuterStep, Next, MakerStep

\* What there is besides.
OwnStep ==
    \/ MakerWorks \/ MakerGetsPid \/ MakerTimesOut \/ MakerDies \/ WorkerFails
    \/ \E p \in Pids : WorkerSpawns(p) \/ WorkerReaps(p) \/ WorkerReports(p) \/ ProgramEnds(p)

\* Every step is one or the other, or changes nothing.
LEMMA SystemCases ==
    ASSUME [SystemNext]_allVars
    PROVE  \/ SharedStep /\ UNCHANGED systemVars
           \/ OwnStep
           \/ UNCHANGED <<vars, systemVars>>
BY DEF SystemNext, SystemMakerStep, WorkerStep, SystemDone, allVars, SharedStep, OuterStep,
       OwnStep

-----------------------------------------------------------------------------
(***************************************************************************)
(* Types.  The pid that the worker publishes becomes the maker's.          *)
(***************************************************************************)
SystemTyped == Typed /\ SystemTypeOK

\* The program starts in a state of the right types.
LEMMA InitSystemTyped == SystemInit => SystemTyped
BY InitTyped, ControllerAssumption DEF SystemInit, SystemTyped, SystemTypeOK, Typed

\* The maker waits for a pid.
LEMMA MakerSystemTyped ==
    ASSUME SystemTyped,
           MakerWorks \/ MakerGetsPid \/ MakerTimesOut \/ MakerDies \/ WorkerFails
    PROVE  SystemTyped'
<1>1. CASE MakerWorks \/ MakerTimesOut \/ WorkerFails
  <2>1. UNCHANGED vars
      BY <1>1 DEF MakerWorks, MakerTimesOut, WorkerFails
  <2>2. Typed'
      BY <2>1, NextTyped DEF SystemTyped
  <2>3. TypeOK'
      BY <2>2 DEF Typed
  <2> QED
      BY <1>1, <2>2, <2>3
         DEF MakerWorks, MakerTimesOut, WorkerFails, SystemTyped, SystemTypeOK
<1>2. CASE MakerGetsPid
  <2>1. newborn \in Pids /\ newborn' = NoPid
      BY <1>2 DEF MakerGetsPid, SystemTyped, SystemTypeOK
  <2>2. UNCHANGED <<childVars, queueVars, registryVars, monitorVars, consoleVars,
                    counter_, respawn_, creator, terminator, mainPc, spawner, worker, thrown>>
      BY <1>2 DEF MakerGetsPid
  <2>3. /\ maker.pc = "create"
        /\ maker' = [maker EXCEPT !.pc = "count", !.pid = newborn]
      BY <1>2 DEF MakerGetsPid
  <2>4. /\ maker' \in [pc : {"create", "count", "register", "off", "check", "size", "ended"},
                       left : Nat, pid : Pids \cup {NoPid}]
        /\ maker'.pc = "count" /\ maker'.left = maker.left /\ maker'.pid = newborn
      BY <2>1, <2>3 DEF SystemTyped, Typed, TypeOK, ControllerTypeOK
  <2>5. (ControllerTypeOK /\ MakerOK)'
      BY <2>1, <2>2, <2>3, <2>4
         DEF SystemTyped, Typed, TypeOK, ControllerTypeOK, MakerOK, CounterBound
  <2>6. (ChildTypeOK /\ QueueTypeOK /\ RegistryTypeOK /\ MonitorTypeOK /\ ConsoleTypeOK)'
      BY <2>2 DEF SystemTyped, Typed, TypeOK, childVars, queueVars, registryVars, monitorVars,
                  consoleVars, ChildTypeOK, QueueTypeOK, RegistryTypeOK, MonitorTypeOK,
                  ConsoleTypeOK
  <2>7. Typed' /\ TypeOK'
      BY <2>5, <2>6 DEF Typed, TypeOK
  <2> QED
      BY <2>1, <2>2, <2>7 DEF SystemTyped, SystemTypeOK
<1>3. CASE MakerDies
  <2>1. ChildTypeOK'
      BY <1>3, ParentEndsTyped DEF MakerDies, SystemTyped, Typed, TypeOK
  <2>2. (QueueTypeOK /\ RegistryTypeOK /\ MonitorTypeOK /\ ConsoleTypeOK)'
      BY <1>3 DEF MakerDies, SystemTyped, Typed, TypeOK, parentVars, queueVars,
                  registryVars, monitorVars, consoleVars, QueueTypeOK, RegistryTypeOK,
                  MonitorTypeOK, ConsoleTypeOK
  <2>3. (ControllerTypeOK /\ MakerOK)'
      BY <1>3, ControllerUntouched DEF MakerDies, SystemTyped, parentVars
  <2>4. Typed' /\ TypeOK'
      BY <2>1, <2>2, <2>3 DEF Typed, TypeOK
  <2> QED
      BY <1>3, <2>4 DEF MakerDies, systemVars, SystemTyped, SystemTypeOK
<1> QED
    BY <1>1, <1>2, <1>3

\* The worker, and the program it runs.
LEMMA WorkerSystemTyped ==
    ASSUME SystemTyped, NEW p \in Pids,
           WorkerSpawns(p) \/ WorkerReaps(p) \/ WorkerReports(p) \/ ProgramEnds(p)
    PROVE  SystemTyped'
<1>1. UNCHANGED <<continue_, running_, parent, parentVars>>
    BY DEF WorkerSpawns, WorkerReaps, WorkerReports, ProgramEnds, childVars
<1>2. ChildTypeOK'
    BY <1>1 DEF WorkerSpawns, WorkerReaps, WorkerReports, ProgramEnds, childVars,
                SystemTyped, Typed, TypeOK, ChildTypeOK, Unannounced, Finished
<1>3. QueueTypeOK'
  <2>1. CASE WorkerReports(p)
    <3>1. p \in Senders /\ running_[Parent] \in BOOLEAN /\ QueueTypeOK
        BY ControllerAssumption DEF SystemTyped, Typed, TypeOK, ChildTypeOK, Processes
    <3>2. SendTermination(p, running_[Parent]) \/ UNCHANGED queueVars
        BY <2>1 DEF WorkerReports
    <3> QED
        BY <3>1, <3>2, SendTyped DEF queueVars, QueueTypeOK
  <2>2. CASE ~WorkerReports(p)
      BY <2>2 DEF WorkerSpawns, WorkerReaps, ProgramEnds, queueVars, SystemTyped, Typed,
                  TypeOK, QueueTypeOK
  <2> QED
      BY <2>1, <2>2
<1>4. (RegistryTypeOK /\ MonitorTypeOK /\ ConsoleTypeOK)'
    BY <1>1 DEF SystemTyped, Typed, TypeOK, parentVars, registryVars, monitorVars,
                consoleVars, RegistryTypeOK, MonitorTypeOK, ConsoleTypeOK
<1>5. (ControllerTypeOK /\ MakerOK)'
    BY <1>1, ControllerUntouched DEF SystemTyped, parentVars
<1>6. Typed' /\ TypeOK'
    BY <1>2, <1>3, <1>4, <1>5 DEF Typed, TypeOK
<1>7. /\ spawner' \in {"none", "spawning", "failed"}
      /\ newborn' \in Pids \cup {NoPid}
      /\ worker' \in [Pids -> {"none", "waitpid", "postWork"}]
      /\ thrown' \in BOOLEAN
    BY DEF WorkerSpawns, WorkerReaps, WorkerReports, ProgramEnds, systemVars, SystemTyped,
           SystemTypeOK
<1> QED
    BY <1>6, <1>7 DEF SystemTyped, SystemTypeOK

\* Every step of the program keeps the types.
LEMMA NextSystemTyped == SystemTyped /\ [SystemNext]_allVars => SystemTyped'
<1> SUFFICES ASSUME SystemTyped, [SystemNext]_allVars PROVE SystemTyped'
    OBVIOUS
<1>1. CASE (SharedStep \/ UNCHANGED vars) /\ UNCHANGED systemVars
  <2>1. Typed'
      BY <1>1, SharedNext, NextTyped DEF SystemTyped
  <2>2. TypeOK'
      BY <2>1 DEF Typed
  <2> QED
      BY <1>1, <2>1, <2>2 DEF systemVars, SystemTyped, SystemTypeOK
<1>2. CASE OwnStep
    BY <1>2, MakerSystemTyped, WorkerSystemTyped DEF OwnStep
<1> QED
    BY <1>1, <1>2, SystemCases

\* Type correctness of the program with system processes.
THEOREM SystemTypeCorrect == SystemSpec => []SystemTypeOK
<1>1. SystemTyped => SystemTypeOK
    BY DEF SystemTyped
<1> QED
    BY <1>1, InitSystemTyped, NextSystemTyped, PTL DEF SystemSpec

\* The maker and the workers start no more than it takes to bring counter_ to the -n option.
THEOREM SystemCounterBounded == SystemSpec => []CounterBound
<1>1. SystemTyped => CounterBound
    BY DEF SystemTyped, Typed, MakerOK
<1> QED
    BY <1>1, InitSystemTyped, NextSystemTyped, PTL DEF SystemSpec

-----------------------------------------------------------------------------
(***************************************************************************)
(* The units of counter_.  A program has one from posix_spawn on: the      *)
(* worker publishes its pid in the same step, and newborn, then the maker, *)
(* owes the unit, and keeps it if getPid() has given up.  It is reported   *)
(* once, by its worker, after waitpid; no monitor thread can report it     *)
(* too, since nobody sends the creation message that would start one.      *)
(***************************************************************************)
NoMonitors ==
    /\ \A p \in Pids : p \notin Named(creationQ)
    /\ \A p \in Pids : monPc[p] = "none" /\ proc[p] \notin {"born", "announced"}

ReportedOnce ==
    /\ Named(terminationQ) \subseteq Pids
    /\ \A p \in Named(terminationQ) : proc[p] = "reaped" /\ worker[p] # "postWork"
    /\ NoRepeat(terminationQ)
    /\ \A p \in Pids : worker[p] = "postWork" => proc[p] = "reaped"

\* The pid of a new program is passed on before the maker does anything else.
InMaking ==
    /\ MakerRests
    /\ newborn # NoPid \/ spawner # "none" => maker.pc = "create"
    /\ spawner # "none" => newborn = NoPid

NewUnits == Uncounted \cup ({newborn} \ {NoPid})

SystemBalance ==
    /\ IsFiniteSet(SystemOwed)
    /\ Cardinality(SystemOwed) <= counter_ + Cardinality(NewUnits)

SystemAccounts ==
    NoMonitors /\ ReportedOnce /\ InMaking /\ (parent = "up" => SystemBalance)

\* The maker or the worker owes one unit, or none.
LEMMA NewUnitsSize ==
    ASSUME InMaking
    PROVE  Cardinality(NewUnits) = IF maker.pc = "count" \/ newborn # NoPid THEN 1 ELSE 0
<1>1. CASE maker.pc = "count"
  <2>1. NewUnits = {maker.pid}
      BY <1>1 DEF InMaking, NewUnits, Uncounted
  <2> QED
      BY <1>1, <2>1, FS_Singleton
<1>2. CASE maker.pc # "count" /\ newborn # NoPid
  <2>1. NewUnits = {newborn}
      BY <1>2 DEF NewUnits, Uncounted
  <2> QED
      BY <1>2, <2>1, FS_Singleton
<1>3. CASE maker.pc # "count" /\ newborn = NoPid
  <2>1. NewUnits = {}
      BY <1>3 DEF NewUnits, Uncounted
  <2> QED
      BY <1>3, <2>1, FS_EmptySet
<1> QED
    BY <1>1, <1>2, <1>3

\* At the start there are no programs and no messages.
LEMMA InitSystemAccounts == CleanLeftovers /\ SystemInit => SystemAccounts
<1> SUFFICES ASSUME CleanLeftovers, SystemInit PROVE SystemAccounts
    OBVIOUS
<1>1. /\ \A p \in Pids : p \notin Named(creationQ)
      /\ terminationQ = <<>> /\ Named(terminationQ) = {}
    BY DEF SystemInit, Init, QueueInit, CleanLeftovers, Named
<1>2. /\ \A p \in Pids : monPc[p] = "none" /\ proc[p] = "free" /\ worker[p] = "none"
      /\ counter_ = 0 /\ maker.pc = "create" /\ mainPc = "init"
      /\ newborn = NoPid /\ spawner = "none"
    BY DEF SystemInit, Init, MonitorInit, ChildInit, ControllerInit
<1>3. SystemOwed = {}
    BY <1>1, <1>2 DEF SystemOwed
<1>4. InMaking
    BY <1>2 DEF InMaking, MakerRests
<1>5. SystemBalance
    BY <1>2, <1>3, <1>4, NewUnitsSize, FS_EmptySet DEF SystemBalance
<1> QED
    BY <1>1, <1>2, <1>4, <1>5 DEF SystemAccounts, NoMonitors, ReportedOnce, NoRepeat

\* A step after which no more is owed than before, and no unit is lost.
LEMMA SystemBalanceKept ==
    ASSUME SystemTyped, InMaking, SystemBalance, SystemOwed' \subseteq SystemOwed,
           counter_' + Cardinality(NewUnits') = counter_ + Cardinality(NewUnits)
    PROVE  SystemBalance'
<1>1. /\ IsFiniteSet(SystemOwed') /\ Cardinality(SystemOwed') <= Cardinality(SystemOwed)
      /\ Cardinality(SystemOwed) \in Nat /\ Cardinality(SystemOwed') \in Nat
    BY FS_Subset, FS_CardinalityType DEF SystemBalance
<1>2. counter_ + Cardinality(NewUnits) \in Int
    BY NewUnitsSize DEF SystemTyped, Typed, TypeOK, ControllerTypeOK
<1> QED
    BY <1>1, <1>2 DEF SystemBalance

\* What main(), the console and the world do: a program that is killed stays owed.
LEMMA SystemOuterAccounts ==
    ASSUME SystemTyped, SystemTyped', SystemAccounts, OuterStep, UNCHANGED systemVars
    PROVE  SystemAccounts'
<1>1. UNCHANGED <<creationQ, terminationQ, monPc, counter_, worker, newborn, spawner>>
    BY OuterSlots DEF slotVars, systemVars
<1>2. Killing \/ Reaping
    BY OuterChildren DEF SystemTyped
<1>3. \A p \in Pids : proc'[p] = proc[p]
                     \/ (proc[p] = "working" /\ proc'[p] = "killed")
                     \/ (proc[p] \in {"exited", "killed"} /\ proc'[p] = "reaped")
  <2>1. \A p \in Pids : Alive(p) => proc[p] = "working"
      BY DEF Alive, Unannounced, SystemAccounts, NoMonitors
  <2> QED
      BY <1>2, <2>1 DEF Killing, Reaping
<1>4. NoMonitors'
    BY <1>1, <1>3 DEF SystemAccounts, NoMonitors
<1>5. ReportedOnce'
    BY <1>1, <1>3 DEF SystemAccounts, ReportedOnce
<1>6. InMaking' /\ UNCHANGED Uncounted
  <2>1. \/ UNCHANGED maker
        \/ /\ mainPc = "start" /\ maker' = [maker EXCEPT !.pc = "check"]
           /\ maker.pc = "off" /\ newborn = NoPid /\ spawner = "none"
      BY OuterMaker DEF SystemTyped, SystemAccounts, InMaking, MakerRests
  <2>2. UNCHANGED Uncounted
      BY <2>1 DEF Uncounted, SystemTyped, Typed, TypeOK, ControllerTypeOK
  <2>3. MakerRests'
      BY OuterMaker DEF SystemTyped, SystemAccounts, InMaking, MakerRests
  <2> QED
      BY <1>1, <2>1, <2>2, <2>3 DEF SystemAccounts, InMaking
<1>7. ASSUME parent' = "up" PROVE SystemBalance'
  <2>1. Killing /\ parent = "up"
      BY <1>2, <1>7 DEF Reaping, Killing
  <2>2. SystemOwed' \subseteq SystemOwed
      BY <1>1, <1>3 DEF SystemOwed
  <2>3. counter_' + Cardinality(NewUnits') = counter_ + Cardinality(NewUnits)
      BY <1>1, <1>6 DEF NewUnits
  <2> QED
      BY <2>1, <2>2, <2>3, SystemBalanceKept DEF SystemAccounts
<1> QED
    BY <1>4, <1>5, <1>6, <1>7 DEF SystemAccounts
\* ++counter_ pays what the maker owes; the rest of the maker's steps owe nothing.
LEMMA SystemMakerAccounts ==
    ASSUME SystemTyped, SystemTyped', SystemAccounts, UNCHANGED systemVars,
           MakerCount \/ MakerRegister \/ RestoreCheck \/ RestoreSize \/ RestoreEnds
    PROVE  SystemAccounts'
<1>1. /\ UNCHANGED <<proc, parent, creationQ, terminationQ, monPc>>
      /\ UNCHANGED <<worker, newborn, spawner>>
    BY DEF MakerCount, MakerRegister, RestoreCheck, RestoreSize, RestoreEnds, componentVars,
           childVars, queueVars, monitorVars, systemVars
<1>2. NoMonitors' /\ ReportedOnce' /\ SystemOwed' = SystemOwed
    BY <1>1 DEF SystemAccounts, NoMonitors, ReportedOnce, SystemOwed
<1>3. maker.pc # "create" /\ newborn = NoPid /\ spawner = "none"
    BY DEF MakerCount, MakerRegister, RestoreCheck, RestoreSize, RestoreEnds, SystemAccounts,
           InMaking
<1>4. counter_ \in Int /\ maker.left \in Nat
    BY DEF SystemTyped, Typed, TypeOK, ControllerTypeOK
<1>5. MakerRests'
  <2>1. CASE MakerRegister
    <3>1. /\ maker'.pc = IF maker.left > 1 THEN "create"
                         ELSE IF mainPc = "init" THEN "off" ELSE "check"
          /\ mainPc' = IF mainPc = "init" /\ maker.left = 1 THEN "launch" ELSE mainPc
          /\ maker.pc = "register"
        BY <2>1 DEF MakerRegister
    <3> QED
        BY <1>4, <3>1 DEF SystemAccounts, InMaking, MakerRests
  <2>2. CASE ~MakerRegister
    <3>1. UNCHANGED mainPc /\ maker.pc # "off"
        BY <2>2 DEF MakerCount, RestoreCheck, RestoreSize, RestoreEnds
    <3> QED
        BY <3>1 DEF SystemAccounts, InMaking, MakerRests
  <2> QED
      BY <2>1, <2>2
<1>6. InMaking'
    BY <1>1, <1>3, <1>5 DEF InMaking
<1>7. counter_' + Cardinality(NewUnits') = counter_ + Cardinality(NewUnits)
  <2>1. CASE MakerCount
    <3>1. maker.pc = "count" /\ maker'.pc = "register" /\ counter_' = counter_ + 1
        BY <2>1 DEF MakerCount, SystemTyped, Typed, TypeOK, ControllerTypeOK
    <3>2. NewUnits' = {} /\ Cardinality(NewUnits') = 0
        BY <1>1, <1>3, <3>1, FS_EmptySet DEF NewUnits, Uncounted
    <3>3. Cardinality(NewUnits) = 1
        BY <3>1, NewUnitsSize DEF SystemAccounts
    <3> QED
        BY <1>4, <3>1, <3>2, <3>3
  <2>2. CASE MakerRegister \/ RestoreCheck \/ RestoreSize \/ RestoreEnds
    <3>1. maker.pc # "count" /\ UNCHANGED counter_
        BY <2>2 DEF MakerRegister, RestoreCheck, RestoreSize, RestoreEnds
    <3>2. maker'.pc # "count"
      <4>1. CASE MakerRegister
          BY <4>1 DEF MakerRegister
      <4>2. CASE RestoreCheck \/ RestoreSize \/ RestoreEnds
          BY <4>2 DEF RestoreCheck, RestoreSize, RestoreEnds, SystemTyped, Typed, TypeOK,
                      ControllerTypeOK
      <4> QED
          BY <2>2, <4>1, <4>2
    <3>3. NewUnits' = NewUnits
        BY <1>1, <3>1, <3>2 DEF NewUnits, Uncounted
    <3> QED
        BY <3>1, <3>3
  <2> QED
      BY <2>1, <2>2
<1>8. parent' = "up" => SystemBalance'
    BY <1>1, <1>2, <1>7, SystemBalanceKept DEF SystemAccounts
<1> QED
    BY <1>2, <1>6, <1>8 DEF SystemAccounts

\* The creator finds no message about a program of this run; the terminator takes a program
\* off the list with each unit.
LEMMA SystemThreadAccounts ==
    ASSUME SystemTyped, SystemTyped', SystemAccounts, UNCHANGED systemVars,
           CreatorStep \/ TerminatorStep
    PROVE  SystemAccounts'
<1>1. /\ UNCHANGED <<proc, parent, monPc, maker, mainPc>>
      /\ UNCHANGED <<worker, newborn, spawner>>
      /\ \A p \in Pids : p \notin Named(creationQ')
  <2>1. CASE CreateMonitorThread
    <3>1. PICK p \in Senders :
             /\ ReceiveCreation(p)
             /\ IF HasMonitor(p) /\ ~monitor_[p]
                THEN CreateMonitorProcessThread(p)
                ELSE UNCHANGED monitorVars
        BY <2>1 DEF CreateMonitorThread
    <3>2. creationQ \in Seq(Senders) /\ creationQ # <<>> /\ p = Head(creationQ)
          /\ creationQ' = Tail(creationQ)
        BY <3>1 DEF ReceiveCreation, SystemTyped, Typed, TypeOK, QueueTypeOK
    <3>3. p \in Named(creationQ) /\ Named(creationQ') \subseteq Named(creationQ)
        BY <3>2, NamedTail
    <3>4. ~HasMonitor(p)
        BY <3>3 DEF SystemAccounts, NoMonitors, HasMonitor, SystemTyped, Typed, TypeOK,
                    RegistryTypeOK
    <3> QED
        BY <2>1, <3>1, <3>3, <3>4
           DEF CreateMonitorThread, SystemAccounts, NoMonitors, childVars, monitorVars,
               controllerVars, systemVars
  <2>2. CASE ~CreateMonitorThread
    <3>1. UNCHANGED <<proc, parent, creationQ, monPc, maker, mainPc>>
        BY <2>2 DEF CreatorStep, CreatorEnds, TerminatorStep, TerminatorReceive,
                    ReceiveTermination, TerminatorFind, TerminatorMark, TerminatorEnds,
                    componentVars, childVars, queueVars, monitorVars
    <3> QED
        BY <3>1 DEF SystemAccounts, NoMonitors, systemVars
  <2> QED
      BY <2>1, <2>2
<1>2. NoMonitors' /\ InMaking' /\ NewUnits' = NewUnits
    BY <1>1 DEF SystemAccounts, NoMonitors, InMaking, MakerRests, NewUnits, Uncounted
<1>3. CASE TerminatorReceive
  <2>1. /\ terminationQ # <<>>
        /\ terminationQ' = Tail(terminationQ)
        /\ counter_' = counter_ - 1
        /\ parent = "up"
      BY <1>3 DEF TerminatorReceive, ReceiveTermination
  <2> DEFINE p == Head(terminationQ)
  <2>2. /\ NoRepeat(terminationQ')
        /\ p \in Named(terminationQ)
        /\ Named(terminationQ') = Named(terminationQ) \ {p}
    <3>1. terminationQ \in Seq(Senders) /\ NoRepeat(terminationQ)
          /\ Named(terminationQ) \subseteq Pids
        BY DEF SystemAccounts, ReportedOnce, SystemTyped, Typed, TypeOK, QueueTypeOK
    <3>2. p \in Named(terminationQ)
        BY <2>1, <3>1, TakeFirst
    <3>3. p \in Pids
        BY <3>1, <3>2
    <3> QED
        BY <2>1, <3>1, <3>3, TakeFirst
  <2> HIDE DEF p
  <2>3. ReportedOnce'
      BY <1>1, <2>2 DEF SystemAccounts, ReportedOnce
  <2>4. p \in SystemOwed /\ SystemOwed' \subseteq SystemOwed \ {p}
    <3>1. p \in Pids /\ proc[p] = "reaped" /\ worker[p] # "postWork"
        BY <2>2 DEF SystemAccounts, ReportedOnce
    <3>2. p \notin SystemOwed'
        BY <1>1, <2>2, <3>1 DEF SystemOwed
    <3> QED
        BY <1>1, <2>2, <3>1, <3>2 DEF SystemOwed
  <2>5. /\ IsFiniteSet(SystemOwed \ {p})
        /\ Cardinality(SystemOwed \ {p}) = Cardinality(SystemOwed) - 1
        /\ Cardinality(SystemOwed) \in Nat
    <3>1. IsFiniteSet(SystemOwed)
        BY <2>1 DEF SystemAccounts, SystemBalance
    <3> QED
        BY <2>4, <3>1, FS_RemoveElement, FS_CardinalityType
  <2>6. /\ IsFiniteSet(SystemOwed')
        /\ Cardinality(SystemOwed') <= Cardinality(SystemOwed \ {p})
        /\ Cardinality(SystemOwed') \in Nat
      BY <2>4, <2>5, FS_Subset, FS_CardinalityType
  <2>7. counter_ \in Int /\ Cardinality(NewUnits) \in Nat
      BY NewUnitsSize DEF SystemAccounts, SystemTyped, Typed, TypeOK, ControllerTypeOK
  <2>8. SystemBalance'
      BY <1>2, <2>1, <2>5, <2>6, <2>7 DEF SystemAccounts, SystemBalance
  <2> QED
      BY <1>2, <2>3, <2>8 DEF SystemAccounts
<1>4. CASE ~TerminatorReceive
  <2>1. UNCHANGED <<terminationQ, counter_>>
      BY <1>4 DEF CreatorStep, CreateMonitorThread, ReceiveCreation, CreatorEnds,
                  TerminatorStep, TerminatorFind, TerminatorMark, TerminatorEnds,
                  componentVars, queueVars, controllerVars
  <2>2. ReportedOnce' /\ SystemOwed' = SystemOwed
      BY <1>1, <2>1 DEF SystemAccounts, ReportedOnce, SystemOwed
  <2>3. parent' = "up" => SystemBalance'
      BY <1>1, <1>2, <2>1, <2>2, SystemBalanceKept DEF SystemAccounts
  <2> QED
      BY <1>2, <2>2, <2>3 DEF SystemAccounts
<1> QED
    BY <1>3, <1>4

\* The maker takes over the unit that the worker has published.
LEMMA MakerOwnAccounts ==
    ASSUME SystemTyped, SystemTyped', SystemAccounts,
           MakerWorks \/ MakerGetsPid \/ MakerTimesOut \/ MakerDies \/ WorkerFails
    PROVE  SystemAccounts'
<1>1. CASE MakerWorks \/ MakerTimesOut \/ WorkerFails
  <2>1. /\ UNCHANGED <<proc, parent, creationQ, terminationQ, monPc, counter_, maker, mainPc>>
        /\ UNCHANGED <<newborn, worker>>
      BY <1>1 DEF MakerWorks, MakerTimesOut, WorkerFails, vars, childVars, queueVars,
                  monitorVars, controllerVars
  <2>2. maker.pc = "create" /\ newborn = NoPid
      BY <1>1 DEF MakerWorks, MakerTimesOut, WorkerFails, SystemAccounts, InMaking
  <2>3. NoMonitors' /\ ReportedOnce' /\ InMaking' /\ SystemOwed' = SystemOwed
      BY <2>1, <2>2 DEF SystemAccounts, NoMonitors, ReportedOnce, InMaking, MakerRests,
                        SystemOwed
  <2>4. NewUnits' = NewUnits
      BY <2>1 DEF NewUnits, Uncounted
  <2> QED
      BY <2>1, <2>3, <2>4, SystemBalanceKept DEF SystemAccounts
<1>2. CASE MakerGetsPid
  <2>1. /\ UNCHANGED <<proc, parent, creationQ, terminationQ, monPc, counter_, mainPc>>
        /\ UNCHANGED <<worker, spawner>>
      BY <1>2 DEF MakerGetsPid, childVars, queueVars, monitorVars
  <2>2. /\ newborn # NoPid /\ newborn' = NoPid
        /\ maker.pc = "create" /\ maker'.pc = "count" /\ maker'.pid = newborn
      BY <1>2 DEF MakerGetsPid, SystemTyped, Typed, TypeOK, ControllerTypeOK
  <2>3. spawner = "none" /\ mainPc \notin {"launch", "start"}
      BY <2>2 DEF SystemAccounts, InMaking, MakerRests, SystemTyped, SystemTypeOK
  <2>4. NoMonitors' /\ ReportedOnce' /\ InMaking' /\ SystemOwed' = SystemOwed
      BY <2>1, <2>2, <2>3 DEF SystemAccounts, NoMonitors, ReportedOnce, InMaking, MakerRests,
                              SystemOwed
  <2>5. NewUnits' = NewUnits
      BY <2>2 DEF NewUnits, Uncounted
  <2> QED
      BY <2>1, <2>4, <2>5, SystemBalanceKept DEF SystemAccounts
<1>3. CASE MakerDies
  <2>1. Reaping
      BY <1>3, EndReaps DEF MakerDies, SystemTyped
  <2>2. UNCHANGED <<creationQ, terminationQ, monPc, maker, mainPc, newborn, worker, spawner>>
      BY <1>3 DEF MakerDies, queueVars, parentVars, monitorVars, controllerVars,
                  systemVars
  <2> QED
      BY <2>1, <2>2 DEF Reaping, SystemAccounts, NoMonitors, ReportedOnce, InMaking,
                        MakerRests
<1> QED
    BY <1>1, <1>2, <1>3

\* A program starts with its unit on its way, and its end is reported once.
LEMMA WorkerAccounts ==
    ASSUME SystemTyped, SystemTyped', SystemAccounts, NEW p \in Pids,
           WorkerSpawns(p) \/ WorkerReaps(p) \/ WorkerReports(p) \/ ProgramEnds(p)
    PROVE  SystemAccounts'
<1>1. UNCHANGED <<parent, creationQ, monPc, counter_, maker, mainPc>>
    BY DEF WorkerSpawns, WorkerReaps, WorkerReports, SendTermination, ProgramEnds, childVars,
           queueVars, parentVars, monitorVars, controllerVars
<1>2. \A r \in Pids : r # p => proc'[r] = proc[r] /\ worker'[r] = worker[r]
    BY DEF WorkerSpawns, WorkerReaps, WorkerReports, ProgramEnds, childVars, systemVars,
           SystemTyped, SystemTypeOK, Typed, TypeOK, ChildTypeOK
<1>3. proc'[p] \notin {"born", "announced"}
  <2>1. proc'[p] = proc[p] \/ proc'[p] \in {"working", "reaped", "exited"}
      BY DEF WorkerSpawns, WorkerReaps, WorkerReports, ProgramEnds, childVars, SystemTyped,
             Typed, TypeOK, ChildTypeOK
  <2> QED
      BY <2>1 DEF SystemAccounts, NoMonitors
<1>4. NoMonitors'
    BY <1>1, <1>2, <1>3 DEF SystemAccounts, NoMonitors
<1>5. CASE WorkerSpawns(p)
  <2>1. /\ p \notin Named(terminationQ) /\ proc'[p] = "working"
        /\ worker[p] = "none" /\ worker'[p] = "waitpid"
        /\ spawner = "spawning" /\ spawner' = "none"
        /\ newborn' = p
        /\ parent = "up"
        /\ UNCHANGED terminationQ
    <3>1. p \notin Named(terminationQ)
        BY <1>5 DEF WorkerSpawns, Available, InUse, SystemAccounts, ReportedOnce
    <3> QED
        BY <1>5, <3>1 DEF WorkerSpawns, queueVars, SystemTyped, SystemTypeOK, Typed, TypeOK,
                          ChildTypeOK
  <2>2. maker.pc = "create" /\ newborn = NoPid
      BY <2>1 DEF SystemAccounts, InMaking
  <2>3. ReportedOnce'
      BY <1>2, <2>1 DEF SystemAccounts, ReportedOnce
  <2>4. InMaking'
      BY <1>1, <2>1, <2>2 DEF SystemAccounts, InMaking, MakerRests
  <2>5. SystemBalance'
    <3>1. SystemOwed' \subseteq SystemOwed \cup {p}
        BY <1>2, <2>1 DEF SystemOwed
    <3>2. /\ IsFiniteSet(SystemOwed \cup {p})
          /\ Cardinality(SystemOwed \cup {p}) <= Cardinality(SystemOwed) + 1
          /\ Cardinality(SystemOwed) \in Nat
          /\ Cardinality(SystemOwed \cup {p}) \in Nat
      <4>1. IsFiniteSet(SystemOwed)
          BY <2>1 DEF SystemAccounts, SystemBalance
      <4>2. /\ IsFiniteSet(SystemOwed \cup {p})
            /\ Cardinality(SystemOwed) \in Nat
          BY <4>1, FS_AddElement, FS_CardinalityType
      <4> QED
          BY <4>1, <4>2, FS_AddElement, FS_CardinalityType
    <3>3. /\ IsFiniteSet(SystemOwed')
          /\ Cardinality(SystemOwed') <= Cardinality(SystemOwed \cup {p})
          /\ Cardinality(SystemOwed') \in Nat
        BY <3>1, <3>2, FS_Subset, FS_CardinalityType
    <3>4. Cardinality(NewUnits) = 0
        BY <2>2, NewUnitsSize DEF SystemAccounts
    <3>5. Cardinality(NewUnits') = 1
      <4>1. NewUnits' = {p}
          BY <1>1, <2>1, <2>2, ControllerAssumption DEF NewUnits, Uncounted
      <4> QED
          BY <4>1, FS_Singleton
    <3>6. counter_ \in Int /\ counter_' = counter_
        BY <1>1 DEF SystemTyped, Typed, TypeOK, ControllerTypeOK
    <3> QED
        BY <2>1, <3>2, <3>3, <3>4, <3>5, <3>6 DEF SystemAccounts, SystemBalance
  <2> QED
      BY <1>4, <2>3, <2>4, <2>5 DEF SystemAccounts
<1>6. CASE ~WorkerSpawns(p)
  <2>1. UNCHANGED <<newborn, spawner>>
      BY <1>6 DEF WorkerReaps, WorkerReports, ProgramEnds, systemVars
  <2>2. InMaking' /\ NewUnits' = NewUnits
      BY <1>1, <2>1 DEF SystemAccounts, InMaking, MakerRests, NewUnits, Uncounted
  <2>3. ReportedOnce' /\ SystemOwed' \subseteq SystemOwed
    <3>1. CASE WorkerReaps(p)
      <4>1. /\ proc[p] \in {"exited", "killed"} /\ proc'[p] = "reaped"
            /\ UNCHANGED terminationQ
          BY <3>1 DEF WorkerReaps, queueVars, SystemTyped, Typed, TypeOK, ChildTypeOK
      <4>2. p \notin Named(terminationQ) /\ p \in SystemOwed
          BY <4>1 DEF SystemAccounts, ReportedOnce, SystemOwed
      <4> QED
          BY <1>2, <4>1, <4>2 DEF SystemAccounts, ReportedOnce, SystemOwed
    <3>2. CASE WorkerReports(p)
      <4>1. /\ worker[p] = "postWork" /\ worker'[p] = "none"
            /\ UNCHANGED proc
          BY <3>2 DEF WorkerReports, childVars, SystemTyped, SystemTypeOK
      <4>2. proc[p] = "reaped" /\ p \notin Named(terminationQ) /\ p \in SystemOwed
          BY <4>1 DEF SystemAccounts, ReportedOnce, SystemOwed
      <4>3. terminationQ' = terminationQ \/ terminationQ' = Append(terminationQ, p)
          BY <3>2 DEF WorkerReports, SendTermination, queueVars
      <4>4. /\ NoRepeat(terminationQ')
            /\ Named(terminationQ') \subseteq Named(terminationQ) \cup {p}
        <5>1. p \in Senders /\ terminationQ \in Seq(Senders) /\ NoRepeat(terminationQ)
            BY ControllerAssumption DEF SystemAccounts, ReportedOnce, SystemTyped, Typed,
                                        TypeOK, QueueTypeOK
        <5> QED
            BY <4>2, <4>3, <5>1, AppendNew
      <4>5. ReportedOnce'
          BY <1>2, <4>1, <4>2, <4>4 DEF SystemAccounts, ReportedOnce
      <4>6. SystemOwed' \subseteq SystemOwed
          BY <1>2, <4>1, <4>2, <4>4 DEF SystemOwed
      <4> QED
          BY <4>5, <4>6
    <3>3. CASE ProgramEnds(p)
      <4>1. /\ proc[p] = "working" /\ proc'[p] \in {"exited", "reaped"}
            /\ UNCHANGED <<terminationQ, worker>>
          BY <3>3 DEF ProgramEnds, queueVars, systemVars, SystemTyped, Typed, TypeOK,
                      ChildTypeOK
      <4>2. p \notin Named(terminationQ) /\ worker[p] # "postWork" /\ p \in SystemOwed
          BY <4>1 DEF SystemAccounts, ReportedOnce, SystemOwed
      <4> QED
          BY <1>2, <4>1, <4>2 DEF SystemAccounts, ReportedOnce, SystemOwed
    <3> QED
        BY <1>6, <3>1, <3>2, <3>3
  <2>4. parent' = "up" => SystemBalance'
      BY <1>1, <2>2, <2>3, SystemBalanceKept DEF SystemAccounts
  <2> QED
      BY <1>4, <2>2, <2>3, <2>4 DEF SystemAccounts
<1> QED
    BY <1>5, <1>6

\* Every step of the program keeps the accounts.
LEMMA NextSystemAccounts ==
    ASSUME SystemTyped, SystemAccounts, [SystemNext]_allVars
    PROVE  SystemAccounts'
<1>1. SystemTyped'
    BY NextSystemTyped
<1>2. CASE SharedStep /\ UNCHANGED systemVars
    BY <1>1, <1>2, SystemOuterAccounts, SystemMakerAccounts, SystemThreadAccounts
       DEF SharedStep
<1>3. CASE OwnStep
    BY <1>1, <1>3, MakerOwnAccounts, WorkerAccounts DEF OwnStep
<1>4. CASE UNCHANGED <<vars, systemVars>>
    BY <1>4 DEF vars, systemVars, childVars, queueVars, monitorVars, controllerVars,
                SystemAccounts, NoMonitors, ReportedOnce, InMaking, MakerRests, SystemBalance,
                SystemOwed, NewUnits, Uncounted
<1> QED
    BY <1>2, <1>3, <1>4, SystemCases

\* A program has its unit in counter_, or on its way there, from its start until the message
\* of its end is taken: no replacement is started for a program that still runs, whether it
\* ends by itself or is killed, and whichever thread is late: also when the worker comes with
\* its pid after getPid() has thrown and the program is on its way out.
THEOREM SystemSlotsAccounted ==
    ASSUME CleanLeftovers
    PROVE  SystemSpec => []SystemSlotAccounting
<1> DEFINE Inv == SystemTyped /\ SystemAccounts
<1>1. SystemInit => Inv
    BY InitSystemTyped, InitSystemAccounts
<1>2. Inv /\ [SystemNext]_allVars => Inv'
    BY NextSystemTyped, NextSystemAccounts
<1>3. Inv => SystemSlotAccounting
    BY DEF SystemAccounts, SystemBalance, SystemSlotAccounting, NewUnits
<1> QED
    BY <1>1, <1>2, <1>3, PTL DEF SystemSpec

-----------------------------------------------------------------------------
(***************************************************************************)
(* The same promise as the other process types: SystemProcess implements   *)
(* Supervisor.  posix_spawn is its Launch, the end of a program its        *)
(* Conclude.                                                               *)
(***************************************************************************)
\* While a handler is to be created, fewer than NumProcesses programs run.
LEMMA RoomToSpawn ==
    ASSUME SystemTyped, SystemAccounts, parent = "up", spawner = "spawning"
    PROVE  Promise!Cardinality({r \in Pids : proc[r] \in Unannounced}) < NumProcesses
<1> DEFINE running == {r \in Pids : proc[r] \in Unannounced}
<1>1. running \subseteq SystemOwed
    BY DEF SystemOwed, Unannounced, SystemAccounts, NoMonitors
<1>2. /\ Cardinality(running) <= Cardinality(SystemOwed)
      /\ Cardinality(SystemOwed) \in Nat /\ Cardinality(running) \in Nat
    BY <1>1, FS_Subset, FS_CardinalityType DEF SystemAccounts, SystemBalance
<1> HIDE DEF running
<1>3. maker.pc = "create" /\ newborn = NoPid
    BY DEF SystemAccounts, InMaking
<1>4. Cardinality(NewUnits) = 0
    BY <1>3, NewUnitsSize DEF SystemAccounts
<1>5. counter_ \in Int /\ maker.left \in Nat /\ NumProcesses \in Nat
    BY ControllerAssumption DEF SystemTyped, Typed, TypeOK, ControllerTypeOK
<1>6. maker.left >= 1 /\ counter_ + maker.left <= NumProcesses
    BY <1>3 DEF SystemTyped, Typed, MakerOK, CounterBound
<1>7. Cardinality(running) < NumProcesses
    BY <1>2, <1>4, <1>5, <1>6 DEF SystemAccounts, SystemBalance
<1> QED
    BY <1>7, PromiseCardinality DEF running

\* The start of a program.
LEMMA PromiseSpawns ==
    ASSUME ~Recycle, SystemTyped, SystemAccounts, NEW p \in Pids, WorkerSpawns(p)
    PROVE  Promise!Launch(p)
<1>1. /\ parent = "up" /\ UNCHANGED parent
      /\ spawner = "spawning"
      /\ proc[p] = "free"
      /\ proc' = [proc EXCEPT ![p] = "working"]
    BY DEF WorkerSpawns, Available
<1>2. \A r \in Pids : proc'[r] = IF r = p THEN "working" ELSE proc[r]
    BY <1>1 DEF SystemTyped, Typed, TypeOK, ChildTypeOK
<1>3. Promise!Cardinality({r \in Pids : proc[r] \in Unannounced}) < NumProcesses
    BY <1>1, RoomToSpawn
<1>4. p \notin {r \in Pids : proc[r] \in Unannounced}
      /\ p \notin {r \in Pids : proc[r] \in Finished}
    BY <1>1 DEF Unannounced, Finished
<1>5. {r \in Pids : proc'[r] \in Unannounced} = {r \in Pids : proc[r] \in Unannounced} \cup {p}
    BY <1>2 DEF Unannounced
<1>6. {r \in Pids : proc'[r] \in Finished} = {r \in Pids : proc[r] \in Finished}
    BY <1>1, <1>2 DEF Finished
<1> QED
    BY <1>1, <1>3, <1>4, <1>5, <1>6 DEF Promise!Launch

\* Every step maps to a step or a stutter.
LEMMA NextSystemPromise ==
    ASSUME ~Recycle, SystemTyped, SystemAccounts, [SystemNext]_allVars
    PROVE  [Promise!SupervisorNext]_Promise!supervisorVars
<1>1. CASE UNCHANGED <<proc, parent>>
    BY <1>1, PromiseIdle
<1>2. CASE OuterStep
  <2>1. CASE Reaping
      BY <2>1, PromiseShutsDown
  <2>2. CASE Killing /\ \A p \in Pids : proc'[p] = proc[p]
      BY <2>2, PromiseIdle DEF Killing
  <2>3. ASSUME Killing, NEW p \in Pids, proc'[p] # proc[p]
        PROVE  Promise!Conclude(p)
    <3>1. proc[p] \in Unannounced /\ proc'[p] \in Finished
        BY <2>3 DEF Killing, Alive, Finished, SystemAccounts, NoMonitors
    <3> QED
        BY <2>3, <3>1, PromiseConcludes DEF Killing
  <2> QED
      BY <1>2, <2>1, <2>2, <2>3, OuterChildren DEF SystemTyped, Promise!SupervisorNext
<1>3. CASE MakerDies
    BY <1>3, EndReaps, PromiseShutsDown DEF MakerDies, SystemTyped
<1>4. ASSUME NEW p \in Pids, WorkerSpawns(p) PROVE Promise!Launch(p)
    BY <1>4, PromiseSpawns
<1>5. ASSUME NEW p \in Pids, WorkerReaps(p) PROVE UNCHANGED Promise!supervisorVars
  <2>1. UNCHANGED parent
      BY <1>5 DEF WorkerReaps
  <2>2. \A r \in Pids : /\ proc'[r] \in Unannounced <=> proc[r] \in Unannounced
                        /\ proc'[r] \in Finished <=> proc[r] \in Finished
      BY <1>5 DEF WorkerReaps, SystemTyped, Typed, TypeOK, ChildTypeOK, Unannounced, Finished
  <2> QED
      BY <2>1, <2>2, PromiseIdle
<1>6. ASSUME NEW p \in Pids, ProgramEnds(p) PROVE Promise!Conclude(p)
  <2>1. /\ proc[p] = "working" /\ UNCHANGED parent
        /\ proc' = [proc EXCEPT ![p] = IF parent = "up" THEN "exited" ELSE "reaped"]
      BY <1>6 DEF ProgramEnds
  <2>2. /\ proc'[p] \in {"exited", "reaped"}
        /\ \A r \in Pids : r # p => proc'[r] = proc[r]
      BY <2>1 DEF SystemTyped, Typed, TypeOK, ChildTypeOK
  <2> QED
      BY <2>1, <2>2, PromiseConcludes DEF Unannounced, Finished
<1>7. CASE \/ MakerWorks \/ MakerGetsPid \/ MakerTimesOut \/ WorkerFails
           \/ \E p \in Pids : WorkerReports(p)
    BY <1>1, <1>7
       DEF MakerWorks, MakerGetsPid, MakerTimesOut, WorkerFails, WorkerReports, vars, childVars
<1>8. CASE MakerCount \/ MakerRegister \/ RestoreCheck \/ RestoreSize \/ RestoreEnds
             \/ CreatorStep \/ TerminatorStep
    BY <1>1, <1>8
       DEF MakerCount, MakerRegister, RestoreCheck, RestoreSize, RestoreEnds, CreatorStep,
           CreateMonitorThread, CreatorEnds, TerminatorStep, TerminatorReceive,
           TerminatorFind, TerminatorMark, TerminatorEnds, componentVars, childVars
<1>9. CASE UNCHANGED <<vars, systemVars>>
    BY <1>1, <1>9 DEF vars, childVars
<1> QED
    BY <1>2, <1>3, <1>4, <1>5, <1>6, <1>7, <1>8, <1>9, SystemCases
       DEF SharedStep, OwnStep, Promise!SupervisorNext

\* The initial states map to initial states.
LEMMA InitSystemPromise == SystemInit => Promise!SupervisorInit
BY InitPromise DEF SystemInit

\* The program with system processes implements Supervisor too: never more than -n programs
\* run, a new one starts only while there is room, and none starts after the end.
THEOREM SystemImplementsSupervisor ==
    ASSUME ~Recycle, CleanLeftovers
    PROVE  SystemSpec => KeepsPromise
<1> DEFINE Inv == SystemTyped /\ SystemAccounts
<1>1. SystemInit => Inv
    BY InitSystemTyped, InitSystemAccounts
<1>2. Inv /\ [SystemNext]_allVars => Inv'
    BY NextSystemTyped, NextSystemAccounts
<1>3. Inv /\ [SystemNext]_allVars => [Promise!SupervisorNext]_Promise!supervisorVars
    BY NextSystemPromise
<1> QED
    BY <1>1, <1>2, <1>3, InitSystemPromise, PTL
       DEF SystemSpec, KeepsPromise, Promise!SupervisorSpec

-----------------------------------------------------------------------------
\* The chain of SecureProcessManagerProofs, with the worker as its first link.
SystemChain ==
    Chain /\ \A p \in Pids : worker[p] = "postWork" => proc[p] \in Finished

\* The worker reports a program that it has reaped.
LEMMA NextSystemChain ==
    ASSUME ~Recycle, SystemTyped, SystemChain, [SystemNext]_allVars
    PROVE  SystemChain'
<1> DEFINE Reported == \A p \in Pids : worker[p] = "postWork" => proc[p] \in Finished
<1>1. CASE (SharedStep \/ UNCHANGED vars) /\ UNCHANGED systemVars
  <2>1. Chain'
      BY <1>1, SharedNext, NextChain, NoRecycleFresh DEF SystemTyped, SystemChain
  <2>2. Lasting
    <3>1. CASE OuterStep
        BY <3>1, OuterChildren DEF SystemTyped, Killing, Reaping, Lasting, Finished
    <3>2. CASE ~OuterStep
        BY <1>1, <3>2
           DEF SharedStep, MakerCount, MakerRegister, RestoreCheck, RestoreSize,
               RestoreEnds, CreatorStep, CreateMonitorThread, CreatorEnds, TerminatorStep,
               TerminatorReceive, TerminatorFind, TerminatorMark, TerminatorEnds,
               componentVars, vars, childVars, Lasting
    <3> QED
        BY <3>1, <3>2
  <2>3. Reported'
      BY <1>1, <2>2 DEF systemVars, SystemChain, Lasting
  <2> QED
      BY <2>1, <2>3 DEF SystemChain
<1>2. ASSUME Lasting, UNCHANGED chainVars,
             \A p \in Pids : worker'[p] = "postWork"
                               => worker[p] = "postWork" \/ proc'[p] \in Finished
      PROVE  SystemChain'
    BY <1>2, ChainKept DEF SystemTyped, SystemChain, Lasting
<1>3. CASE MakerWorks \/ MakerGetsPid \/ MakerTimesOut \/ WorkerFails
  <2>1. UNCHANGED <<proc, worker, chainVars>>
      BY <1>3 DEF MakerWorks, MakerGetsPid, MakerTimesOut, WorkerFails, vars, childVars, queueVars,
                  registryVars, monitorVars, controllerVars, chainVars
  <2> QED
      BY <1>2, <2>1 DEF Lasting
<1>4. CASE MakerDies
  <2>1. Lasting /\ UNCHANGED <<worker, chainVars>>
      BY <1>4, ParentEndsLasting
         DEF MakerDies, parentVars, queueVars, registryVars, monitorVars, controllerVars,
             systemVars, chainVars
  <2> QED
      BY <1>2, <2>1
<1>5. ASSUME NEW p \in Pids, WorkerSpawns(p) \/ WorkerReaps(p) \/ ProgramEnds(p)
      PROVE  SystemChain'
  <2>1. UNCHANGED chainVars
      BY <1>5 DEF WorkerSpawns, WorkerReaps, ProgramEnds, parentVars, queueVars, registryVars,
                  monitorVars, controllerVars, chainVars
  <2>2. Lasting
      BY <1>5 DEF WorkerSpawns, Available, WorkerReaps, ProgramEnds, Lasting, Finished,
                  SystemTyped, Typed, TypeOK, ChildTypeOK
  <2>3. \A r \in Pids : worker'[r] = "postWork"
                          => worker[r] = "postWork" \/ proc'[r] \in Finished
      BY <1>5 DEF WorkerSpawns, WorkerReaps, ProgramEnds, systemVars, Finished, SystemTyped,
                  SystemTypeOK, Typed, TypeOK, ChildTypeOK
  <2> QED
      BY <1>2, <2>1, <2>2, <2>3
<1>6. ASSUME NEW p \in Pids, WorkerReports(p) PROVE SystemChain'
  <2>1. /\ UNCHANGED <<proc, monPc, terminator, deceasedProcesses_>>
        /\ terminationQ' = terminationQ \/ terminationQ' = Append(terminationQ, p)
        /\ proc[p] \in Finished
        /\ \A r \in Pids : worker'[r] = "postWork" => worker[r] = "postWork"
      BY <1>6 DEF WorkerReports, SendTermination, childVars, queueVars, parentVars,
                  registryVars, monitorVars, controllerVars, SystemChain, SystemTyped,
                  SystemTypeOK
  <2>2. Named(terminationQ') \subseteq Named(terminationQ) \cup {p}
    <3>1. p \in Senders /\ terminationQ \in Seq(Senders)
        BY ControllerAssumption DEF SystemTyped, Typed, TypeOK, QueueTypeOK
    <3> QED
        BY <2>1, <3>1, NamedAppend
  <2> QED
      BY <2>1, <2>2 DEF SystemChain, Chain, DeceasedSound
<1> QED
    BY <1>1, <1>3, <1>4, <1>5, <1>6, SystemCases DEF OwnStep, systemVars

\* A program marked deceased is over: the commands that pass over the deceased leave no
\* program running.
THEOREM DeceasedProgramsAreOver ==
    ASSUME ~Recycle, OwnLeftovers
    PROVE  SystemSpec => []DeceasedSound
<1> DEFINE Inv == SystemTyped /\ SystemChain
<1>1. SystemInit => Inv
  <2>1. ASSUME SystemInit PROVE \A p \in Pids : worker[p] = "none"
      BY <2>1 DEF SystemInit
  <2> QED
      BY <2>1, InitSystemTyped, InitChain DEF SystemInit, SystemChain
<1>2. Inv /\ [SystemNext]_allVars => Inv'
    BY NextSystemTyped, NextSystemChain
<1>3. Inv => DeceasedSound
    BY DEF SystemChain, Chain
<1> QED
    BY <1>1, <1>2, <1>3, PTL DEF SystemSpec
=============================================================================
