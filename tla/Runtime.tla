------------------------------- MODULE Runtime -------------------------------
(***************************************************************************)
(* The program under SecureProcessManager: main() from the command line to *)
(* the first children, then the threads and the children as they share the *)
(* message queue, the mutex before it, the semaphore of the console and    *)
(* the memory that fork() and clone() copy.                                *)
(***************************************************************************)
EXTENDS CommandLine, Messenger, ConsoleLogger, FiniteSets

CONSTANTS
    Maker,        \* the thread in createHandlers: main(), then restoreHandlerCount
    Creator,      \* CreateMonitoringThreads
    Terminator,   \* MonitorProcessTermination
    MonitorOf,    \* the monitor thread of each pid
    Explored,     \* bound: the settings with which a run goes on beyond initialize()
    Threaded      \* bound: those of Explored with which it goes on beyond createHandlers()

ASSUME RuntimeAssumption ==
    /\ MonitorOf \in [Pids -> Threads \ {Maker, Creator, Terminator}]
    /\ \A p, q \in Pids : MonitorOf[p] = MonitorOf[q] => p = q
    /\ {Maker, Creator, Terminator} \subseteq Threads
    /\ Maker # Creator /\ Maker # Terminator /\ Creator # Terminator
    /\ NoPid \notin Pids

VARIABLES
    at,            \* where each thread and each child is
    inHand,        \* the pid that Maker, Creator or Terminator is busy with
    counter_,      \* MainController::counter_
    registered,    \* the pids that have a handler in the registry
    running_,      \* ProcessController::running_, one copy per process
    firstChildren, \* the children of initializeController, the first numProcesses
    torn,          \* the children that copied the buffer while a thread was inside log()
    stored,        \* the fields of ChildArgs that have been stored, by child
    knowsPid,      \* the children that know their pid
    spawned        \* the arguments of the system process

handlerVars == <<inHand, counter_, registered>>
childVars == <<running_, firstChildren, torn, stored, knowsPid>>
birthVars == <<childVars, spawned>>

vars == <<commandLineVars, messengerVars, loggerVars, at, handlerVars, birthVars>>

Receivers == {Creator, Terminator}
Busy == {Maker, Creator, Terminator}

Places == {"none", "idle", "make", "store", "log", "register", "receive",
           "poll", "warn", "report", "reportLost", "spin", "hello", "reset", "open",
           "announce", "announceLost", "work", "exited", "killed", "reaped"}

RuntimeInit ==
    /\ CommandLineInit
    /\ MessengerInit
    /\ LoggerInit
    /\ at = [t \in Actors |-> IF t = Maker THEN "idle" ELSE "none"]
    /\ inHand = [t \in Busy |-> NoPid]
    /\ counter_ = 0
    /\ registered = {}
    /\ running_ = [p \in Processes |-> TRUE]
    /\ firstChildren = {}
    /\ torn = {}
    /\ stored = {}
    /\ knowsPid = {}
    /\ spawned = <<>>

ParentUp == startup \in {"creating", "threads"}

Lives(c) == at[c] \notin {"none", "exited", "killed", "reaped"}

Clones == settings.processType = "clone"
OnConsole == settings.loggerType = "console"

Go(t, place) == at' = [at EXCEPT ![t] = place]
-----------------------------------------------------------------------------
(***************************************************************************)
(* Starting up.                                                            *)
(***************************************************************************)
Parse ==
    /\ (\E o \in Options : ReadOption(o)) \/ EndOfOptions
    /\ UNCHANGED <<messengerVars, loggerVars, at, handlerVars, birthVars>>

(***************************************************************************)
(* api::initialize.  A system process is spawned by a thread, which hands  *)
(* over no pid when it fails; getPid then throws, as createHandler does    *)
(* for a type that has no handler, and the program exits.                  *)
(***************************************************************************)
Initialize ==
    /\ startup = "initialize"
    /\ \/ /\ settings.processType \notin HandlerFactory
          /\ startup' = "failure"
          /\ UNCHANGED spawned
       \/ /\ settings.processType = "system"
          /\ LET map == ConfigMap(ConfigFiles[settings.configFile].lines)
             IN  /\ \E order \in Orders(map) : spawned' = CStyleArgs(Populate(map, order))
                 /\ startup' = IF Spawns(map) THEN "started" ELSE "failure"
       \/ /\ settings.processType \in HandlerFactory \ {"system"}
          /\ startup' = IF settings \in Explored THEN "creating" ELSE "started"
          /\ UNCHANGED spawned
    /\ typed' = <<>>
    /\ FirstUse(IF settings.complained THEN DefaultProcesses ELSE settings.numProcesses)
    /\ UNCHANGED <<settings, messengerVars, semName, semValue, sem_, logging, buffer, printed,
                   at, handlerVars, childVars>>

\* Mutant: the threads start when one child is still to be made.
AllMadeButOne == Cardinality(firstChildren) >= settings.numProcesses - 1

AllMade == Cardinality(firstChildren) >= settings.numProcesses

StartThreads ==
    /\ startup = "creating"
    /\ settings \in Threaded
    /\ AllMade
    /\ at[Maker] = "idle"
    /\ startup' = "threads"
    /\ at' = [t \in Actors |-> IF t \in Receivers THEN "receive" ELSE at[t]]
    /\ UNCHANGED <<settings, typed, messengerVars, loggerVars, handlerVars, birthVars>>
-----------------------------------------------------------------------------
(***************************************************************************)
(* Maker: createHandler and, in it, launchChildProcess.                    *)
(***************************************************************************)
MoreWanted ==
    \/ startup = "creating" /\ Cardinality(firstChildren) < settings.numProcesses
    \/ /\ startup = "threads"
       /\ running_[Parent] /\ settings.respawn
       /\ counter_ < settings.numProcesses

\* A pid is used once: with all of them used up nothing more is made.
Decides ==
    /\ MoreWanted
    /\ \E c \in Pids : at[c] = "none"
    /\ at[Maker] = "idle"
    /\ Go(Maker, "make")
    /\ UNCHANGED <<commandLineVars, messengerVars, loggerVars, handlerVars, birthVars>>

\* createLoggerType has something to do for a console.
PreWork == IF OnConsole THEN "reset" ELSE "announce"

Launch(c) ==
    /\ ParentUp
    /\ at[Maker] = "make"
    /\ at[c] = "none"
    /\ at' = [at EXCEPT ![Maker] = IF Clones THEN "store" ELSE "log",
                        ![c] = IF Clones THEN "spin" ELSE PreWork]
    /\ inHand' = [inHand EXCEPT ![Maker] = c]
    /\ running_' = [running_ EXCEPT ![c] = running_[Parent]]
    /\ firstChildren' = IF Cardinality(firstChildren) < settings.numProcesses
                        THEN firstChildren \cup {c} ELSE firstChildren
    /\ knowsPid' = IF Clones THEN knowsPid ELSE knowsPid \cup {c}
    /\ torn' = IF logging \cap Threads # {} THEN torn \cup {c} ELSE torn
    /\ ForkLogger(c)
    /\ ForkMessenger(c)
    /\ UNCHANGED <<commandLineVars, counter_, registered, stored, spawned>>

(***************************************************************************)
(* The two stores into ChildArgs after clone(): plain stores to shared     *)
(* memory.  The build makes them in the order of the program; nothing in   *)
(* the code asks for that order.                                           *)
(***************************************************************************)
\* Mutant: the flag is stored first.
StoreOrderSwapped == <<"pid_set", "real_pid">>

StoreOrder == <<"real_pid", "pid_set">>

HasStored(c, n) == <<c, StoreOrder[n]>> \in stored

StoreArg ==
    LET c == inHand[Maker]
        n == IF HasStored(c, 1) THEN 2 ELSE 1
    IN  /\ ParentUp
        /\ at[Maker] = "store"
        /\ stored' = stored \cup {<<c, StoreOrder[n]>>}
        /\ Go(Maker, IF n = 2 THEN "log" ELSE "store")
        /\ UNCHANGED <<commandLineVars, messengerVars, loggerVars, handlerVars, running_,
                       firstChildren, torn, knowsPid, spawned>>

Register ==
    /\ ParentUp
    /\ at[Maker] = "register"
    /\ registered' = registered \cup {inHand[Maker]}
    /\ inHand' = [inHand EXCEPT ![Maker] = NoPid]
    /\ Go(Maker, "idle")
    /\ UNCHANGED <<commandLineVars, messengerVars, loggerVars, counter_, birthVars>>
-----------------------------------------------------------------------------
(***************************************************************************)
(* Logging.  Every log entry of a thread or a child is a wait and a post   *)
(* on the console; FileLogger writes without a lock.                       *)
(***************************************************************************)
LogPlaces == {"log", "hello", "work", "warn", "announceLost", "reportLost"}

Active(t) == IF t \in Pids THEN Lives(t) ELSE ParentUp

LogBegin(t) ==
    /\ Active(t)
    /\ at[t] \in LogPlaces
    /\ OnConsole
    /\ SemWait(t)
    /\ UNCHANGED <<commandLineVars, messengerVars, at, handlerVars, birthVars>>

\* The message: the last word of a child is told apart from the rest.
Entry(t) == IF t \in Pids /\ at[t] = "work" THEN t ELSE Parent

LogEnd(t) ==
    IF OnConsole THEN WriteAndPost(t, Entry(t)) ELSE UNCHANGED loggerVars

\* ++counter_, which no other thread but Maker compares, and the log entry of the new child.
MakerLogs ==
    /\ ParentUp
    /\ at[Maker] = "log"
    /\ LogEnd(Maker)
    /\ counter_' = counter_ + 1
    /\ Go(Maker, "register")
    /\ UNCHANGED <<commandLineVars, messengerVars, inHand, registered, birthVars>>

\* The message is logged; createMonitorThread finds the handler, or not.
CreatorHandles ==
    LET p == inHand[Creator]
        found == p \in registered /\ at[MonitorOf[p]] = "none"
    IN  /\ ParentUp
        /\ at[Creator] = "log"
        /\ LogEnd(Creator)
        /\ at' = IF found THEN [at EXCEPT ![Creator] = "receive", ![MonitorOf[p]] = "poll"]
                 ELSE [at EXCEPT ![Creator] = "receive"]
        /\ inHand' = [inHand EXCEPT ![Creator] = NoPid]
        /\ UNCHANGED <<commandLineVars, messengerVars, counter_, registered, birthVars>>

\* The message is logged and counted off; the monitor, if it polls, is told to stop.
TerminatorHandles ==
    LET p == inHand[Terminator]
        found == p \in registered /\ at[MonitorOf[p]] = "poll"
    IN  /\ ParentUp
        /\ at[Terminator] = "log"
        /\ LogEnd(Terminator)
        /\ counter_' = counter_ - 1
        /\ at' = IF found THEN [at EXCEPT ![Terminator] = "receive", ![MonitorOf[p]] = "idle"]
                 ELSE [at EXCEPT ![Terminator] = "receive"]
        /\ inHand' = [inHand EXCEPT ![Terminator] = NoPid]
        /\ UNCHANGED <<commandLineVars, messengerVars, registered, birthVars>>
-----------------------------------------------------------------------------
(***************************************************************************)
(* Communication.                                                          *)
(***************************************************************************)
\* Whose turn it is to send, and what: a monitor for its child, a child for itself.
PidOf(c) == IF c \in knowsPid THEN c ELSE NoPid

Outgoing(t) ==
    IF t \in Pids
    THEN [msgType |-> IF at[t] = "announce" THEN CREATION_MSG ELSE TERMINATION_MSG,
          pid |-> PidOf(t)]
    ELSE [msgType |-> TERMINATION_MSG, pid |-> CHOOSE p \in Pids : MonitorOf[p] = t]

Sending(t) == Active(t) /\ at[t] \in {"announce", "report"}
Receiving(t) == ParentUp /\ at[t] = "receive"

Wanted(t) == IF t = Creator THEN CREATION_MSG ELSE TERMINATION_MSG

\* Where an actor goes when its message is sent, or is lost and the exception logged.
AfterSend(t) ==
    CASE t \notin Pids -> "idle"
      [] t \in Pids /\ at[t] \in {"announce", "announceLost"} -> "work"
      [] OTHER -> "exited"

WhenLost(t) == IF at[t] = "announce" THEN "announceLost" ELSE "reportLost"

OnlyQueue ==
    UNCHANGED <<commandLineVars, loggerVars, handlerVars, birthVars>>

TakeLock(t) ==
    /\ Sending(t) \/ Receiving(t)
    /\ running_[ProcessOf(t)]
    /\ Lock(t)
    /\ UNCHANGED at
    /\ OnlyQueue

SendOk(t) == Sending(t) /\ Send(t, Outgoing(t)) /\ Go(t, AfterSend(t)) /\ OnlyQueue

SendRetries(t) == Sending(t) /\ (SendNaps(t) \/ SendWakes(t)) /\ UNCHANGED at /\ OnlyQueue

\* The exception is caught in Communicator::sendMessage: it is logged, the message is lost.
GivesUp(t) == Sending(t) /\ SendTimesOut(t) /\ Go(t, WhenLost(t)) /\ OnlyQueue

SendFails(t) ==
    /\ Sending(t)
    /\ \/ QueueIsGone(t)
       \/ /\ call[t] \in {"loop", "retry"} /\ ~running_[ProcessOf(t)]
          /\ call' = [call EXCEPT ![t] = "loop"]
          /\ UNCHANGED <<queue, connected, mutexHolder>>
    /\ Go(t, WhenLost(t))
    /\ OnlyQueue

LogsException(t) ==
    /\ Active(t)
    /\ at[t] \in {"announceLost", "reportLost"}
    /\ LogEnd(t)
    /\ Go(t, AfterSend(t))
    /\ UNCHANGED <<commandLineVars, messengerVars, handlerVars, birthVars>>

ReceiveOk(t) ==
    /\ Receiving(t)
    /\ \E p \in Pids \cup {NoPid} :
          /\ Receive(t, Wanted(t), p)
          /\ inHand' = [inHand EXCEPT ![t] = p]
    /\ Go(t, "log")
    /\ UNCHANGED <<commandLineVars, loggerVars, counter_, registered, birthVars>>

ReceiveRetries(t) ==
    /\ Receiving(t)
    /\ ReceiveNothing(t, Wanted(t))
    /\ UNCHANGED at
    /\ OnlyQueue

ReceiverEnds(t) ==
    /\ Receiving(t)
    /\ call[t] = "loop" /\ ~running_[Parent]
    /\ Go(t, "idle")
    /\ UNCHANGED messengerVars
    /\ OnlyQueue
-----------------------------------------------------------------------------
(***************************************************************************)
(* Monitor threads.                                                        *)
(***************************************************************************)
Poll(p) ==
    LET m == MonitorOf[p]
    IN  /\ ParentUp /\ running_[Parent]
        /\ at[m] = "poll"
        /\ at[p] \in {"exited", "killed"}
        /\ at' = [at EXCEPT ![m] = IF at[p] = "killed" THEN "warn" ELSE "idle",
                            ![p] = "reaped"]
        /\ UNCHANGED messengerVars
        /\ OnlyQueue

\* displayProcessStatus.
MonitorWarns(p) ==
    LET m == MonitorOf[p]
    IN  /\ ParentUp
        /\ at[m] = "warn"
        /\ LogEnd(m)
        /\ Go(m, "report")
        /\ UNCHANGED <<commandLineVars, messengerVars, handlerVars, birthVars>>

PollEnds(p) ==
    /\ ParentUp /\ ~running_[Parent]
    /\ at[MonitorOf[p]] = "poll"
    /\ Go(MonitorOf[p], "idle")
    /\ UNCHANGED messengerVars
    /\ OnlyQueue
-----------------------------------------------------------------------------
(***************************************************************************)
(* Children.  A clone is process 1 of its own namespace: its getppid() is  *)
(* 0, and it never finds its parent gone.                                  *)
(***************************************************************************)
SpinEnds(c) ==
    /\ at[c] = "spin"
    /\ <<c, "pid_set">> \in stored
    /\ knowsPid' = IF <<c, "real_pid">> \in stored THEN knowsPid \cup {c} ELSE knowsPid
    /\ Go(c, "hello")
    /\ UNCHANGED <<commandLineVars, messengerVars, loggerVars, handlerVars, running_,
                   firstChildren, torn, stored, spawned>>

SaysHello(c) ==
    /\ at[c] = "hello"
    /\ LogEnd(c)
    /\ Go(c, PreWork)
    /\ UNCHANGED <<commandLineVars, messengerVars, handlerVars, birthVars>>

ResetLogger(c) ==
    /\ at[c] = "reset"
    /\ ResetInstance
    /\ Go(c, "open")
    /\ UNCHANGED <<commandLineVars, messengerVars, handlerVars, birthVars>>

CreateLogger(c) ==
    /\ at[c] = "open"
    /\ OpenSemaphore(c)
    /\ Go(c, "announce")
    /\ UNCHANGED <<commandLineVars, messengerVars, handlerVars, birthVars>>

\* logLifetime; an orphan reports to nobody.
Finishes(c) ==
    /\ at[c] = "work"
    /\ LogEnd(c)
    /\ Go(c, IF ParentUp \/ Clones THEN "report" ELSE "exited")
    /\ UNCHANGED <<commandLineVars, messengerVars, handlerVars, birthVars>>
-----------------------------------------------------------------------------
(***************************************************************************)
(* The end: quit, the exit of main() when its threads are home, SIGKILL.   *)
(***************************************************************************)
Quit ==
    /\ startup = "threads" /\ running_[Parent]
    /\ running_' = [running_ EXCEPT ![Parent] = FALSE]
    /\ UNCHANGED <<commandLineVars, messengerVars, loggerVars, at, handlerVars,
                   firstChildren, torn, stored, knowsPid, spawned>>

\* The threads of the supervisor and its memory go with it, the semaphore they held does not.
ParentGone(end) ==
    /\ startup' = end
    /\ at' = [t \in Actors |-> IF t \in Threads THEN "none" ELSE at[t]]
    /\ inHand' = [t \in Busy |-> NoPid]
    /\ counter_' = 0
    /\ registered' = {}
    /\ ForgetCalls
    /\ UNCHANGED <<settings, typed, firstChildren, torn, stored, knowsPid, spawned>>

Exit ==
    /\ startup = "threads" /\ ~running_[Parent]
    /\ \A t \in Busy : at[t] = "idle"
    /\ ParentGone("success")
    /\ RemoveQueue
    /\ CloseLogger
    /\ UNCHANGED running_

\* clone() or fork() fails: exit(), with what ~Messenger and the loggers do at it.
LaunchFails ==
    /\ ParentUp
    /\ at[Maker] = "make"
    /\ ParentGone("failure")
    /\ RemoveQueue
    /\ CloseLogger
    /\ UNCHANGED running_

Crash ==
    /\ ParentUp
    /\ ParentGone("crashed")
    /\ UNCHANGED <<queue, connected, loggerVars, running_>>

Killed(c) ==
    /\ Lives(c)
    /\ Go(c, "killed")
    /\ UNCHANGED messengerVars
    /\ OnlyQueue
-----------------------------------------------------------------------------
StartUp == Parse \/ Initialize \/ StartThreads

MakerSteps ==
    \/ \E c \in Pids : Launch(c)
    \/ Decides \/ StoreArg \/ LogBegin(Maker) \/ MakerLogs \/ Register

Sends(t) == SendOk(t) \/ SendRetries(t) \/ GivesUp(t) \/ SendFails(t)

ReceiverSteps(t) ==
    \/ TakeLock(t) \/ ReceiveOk(t) \/ ReceiveRetries(t) \/ ReceiverEnds(t)
    \/ LogBegin(t)
    \/ t = Creator /\ CreatorHandles
    \/ t = Terminator /\ TerminatorHandles

MonitorSteps(p) ==
    \/ Poll(p) \/ PollEnds(p)
    \/ LogBegin(MonitorOf[p]) \/ MonitorWarns(p) \/ LogsException(MonitorOf[p])
    \/ TakeLock(MonitorOf[p]) \/ Sends(MonitorOf[p])

ChildSteps(c) ==
    \/ SpinEnds(c) \/ LogBegin(c) \/ SaysHello(c) \/ ResetLogger(c) \/ CreateLogger(c)
    \/ TakeLock(c) \/ Sends(c) \/ LogsException(c) \/ Finishes(c)

Next ==
    \/ StartUp
    \/ MakerSteps
    \/ \E t \in Receivers : ReceiverSteps(t)
    \/ \E p \in Pids : MonitorSteps(p)
    \/ \E c \in Pids : ChildSteps(c) \/ Killed(c)
    \/ Quit \/ Exit \/ LaunchFails \/ Crash

(***************************************************************************)
(* Every thread and child that can go on does.  A sender that finds the    *)
(* queue full again and again sees its TIMEOUT_SECS pass.  Receivers nap   *)
(* outside the mutex, so a sender or the other receiver gets it.  A sender *)
(* naps inside: while one tries again, no receiver is sure of the mutex.   *)
(* Each monitor and each child takes finitely many steps before it is over *)
(* or has waited TIMEOUT_SECS, so what is fair to all of them is fair to   *)
(* each.                                                                   *)
(***************************************************************************)
SenderTakesLock == \E p \in Pids : TakeLock(MonitorOf[p])

SenderGivesUp == \E p \in Pids : GivesUp(MonitorOf[p]) \/ GivesUp(p)

Retrying == \E p \in Pids : call[MonitorOf[p]] = "retry"

Fairness ==
    /\ WF_vars(MakerSteps)
    /\ \A t \in Receivers : WF_vars(ReceiverSteps(t)) /\ SF_vars(~Retrying /\ TakeLock(t))
    /\ WF_vars(\E p \in Pids : MonitorSteps(p))
    /\ WF_vars(\E c \in Pids : ChildSteps(c))
    /\ SF_vars(SenderTakesLock) /\ SF_vars(SenderGivesUp)

RuntimeSpec == RuntimeInit /\ [][Next]_vars

FairRuntimeSpec == RuntimeSpec /\ Fairness
-----------------------------------------------------------------------------
\* The types of the state.
RuntimeTypeOK ==
    /\ startup \in {"options", "initialize", "creating", "threads", "started",
                    "success", "failure", "crashed"}
    /\ typed \in Seq(Options)
    /\ settings.numProcesses \in 1..MAX_PROCESSES
    /\ settings.processType \in ProcessTypes
    /\ MessengerTypeOK
    /\ LoggerTypeOK
    /\ at \in [Actors -> Places]
    /\ inHand \in [Busy -> Pids \cup {NoPid}]
    /\ counter_ \in Int
    /\ running_ \in [Processes -> BOOLEAN]
    /\ \A s \in {registered, firstChildren, torn, knowsPid} : s \subseteq Pids

(***************************************************************************)
(* What the operator asked for is what runs, or a warning has been logged: *)
(* without one, each setting is the last one typed (console_control.cpp).  *)
(* Respawning is on for every number but 0; what is no number turns it     *)
(* off, like 0 and without a word.                                         *)
(***************************************************************************)
LastTyped(opt, i) == typed[i].opt = opt /\ \A j \in (i + 1)..Len(typed) : typed[j].opt # opt

SettingsAsTyped ==
    startup = "initialize" /\ ~settings.complained =>
        \A i \in DOMAIN typed :
            LET arg == typed[i].arg
            IN  /\ LastTyped("n", i) => Number[arg] = settings.numProcesses
                /\ LastTyped("t", i) => arg = settings.processType
                /\ LastTyped("s", i) /\ arg \in DOMAIN LongNumber =>
                       settings.respawn = (LongNumber[arg] # 0)
                /\ LastTyped("s", i) /\ arg \notin DOMAIN LongNumber => ~settings.respawn
                /\ LastTyped("l", i) => arg = settings.loggerType
                /\ LastTyped("T", i) => arg = settings.napType
                /\ LastTyped("c", i) => arg = settings.configFile

(***************************************************************************)
(* A system process gets its program and, for each other key of the file,  *)
(* the flag and right behind it the last value the file gives, and nothing *)
(* else (SystemProcess::Arguments::populate, createCStyleArgs).            *)
(***************************************************************************)
SystemArguments ==
    startup = "started" /\ settings.processType = "system" =>
        LET lines == ConfigFiles[settings.configFile].lines
            last == {i \in DOMAIN lines :
                        /\ Stores(lines[i])
                        /\ \A j \in DOMAIN lines :
                              Stores(lines[j]) /\ lines[j].key = lines[i].key => j <= i}
        IN  /\ Len(spawned) = 2 * Cardinality(last) - 1
            /\ \A i \in last :
                  IF lines[i].key = "process_file" THEN spawned[1] = Word(lines[i].value)
                  ELSE \E j \in 2..(Len(spawned) - 1) :
                          /\ spawned[j] = Flag(lines[i].key)
                          /\ spawned[j + 1] = Word(lines[i].value)

(***************************************************************************)
(* "Execute the program using the command below" (README.md:217): a system *)
(* process with a number of children and no file.  parseArguments refuses  *)
(* it (console_control.cpp:126).                                           *)
(***************************************************************************)
Documented ==
    {line \in Seq(Options) :
        /\ Len(line) = 2
        /\ line[1].opt = "t" /\ line[1].arg = "system"
        /\ line[2].opt = "n" /\ ValidNumber(line[2].arg)}

DocumentedLinesStart == startup = "failure" => typed \notin Documented

(***************************************************************************)
(* A semaphore is at one, or somebody, alive or killed there, has it:      *)
(* whatever handles fork() copies and whatever names the children unlink   *)
(* (console_logger.cpp:56).                                                *)
(***************************************************************************)
SemaphoreCount ==
    \A s \in Processes :
        semValue[s] + Cardinality(Holders(s)) = IF sem_[s] = s THEN 1 ELSE 0

(***************************************************************************)
(* A forked child that is killed while it logs never has the semaphore of  *)
(* the supervisor: each goes on with another one before its first message. *)
(* A clone says hello on the one it inherits (process_monitor.cpp:127).    *)
(***************************************************************************)
ParentSemaphoreFree == ~Clones => Holders(Parent) \subseteq Threads

(***************************************************************************)
(* The children of initializeController are made before there are threads: *)
(* they copy no mutex that is held and no buffer that is being written.    *)
(* A respawned child may (process_monitor.cpp:211).                        *)
(***************************************************************************)
FirstGenerationIsClean == \A c \in firstChildren : ~Stuck(c) /\ c \notin torn

(***************************************************************************)
(* With one process and no complaint the buffer holds one message, and the *)
(* last word of a child reaches the console before _exit() drops the       *)
(* buffer (console_logger.cpp:41).                                         *)
(***************************************************************************)
SingleChildLogsAll ==
    OnConsole /\ settings.numProcesses = 1 /\ ~settings.complained =>
        \A c \in Pids : at[c] \in {"report", "reportLost", "exited"} => c \in printed

(***************************************************************************)
(* A clone that has left its spin has read the pid its parent stored, and  *)
(* every message names the child it is about (process_monitor.cpp:120).    *)
(***************************************************************************)
ChildKnowsItsPid ==
    /\ \A c \in Pids : Lives(c) /\ at[c] # "spin" => c \in knowsPid
    /\ \A i \in DOMAIN queue : queue[i].pid # NoPid

(***************************************************************************)
(* The one queue behind the mutex is the two streams that MessageQueue     *)
(* promises: a step of it is the announcement or the end of one child, a   *)
(* receiver taking the oldest of its own stream, or the end of the queue.  *)
(***************************************************************************)
Stream(type) ==
    LET s == Pick(queue, OfType(type)) IN [n \in DOMAIN s |-> s[n].pid]

Promise == INSTANCE MessageQueue WITH
    Senders <- Pids \cup {NoPid}, Leftovers <- {[creation |-> <<>>, termination |-> <<>>]},
    creationQ <- Stream(CREATION_MSG), terminationQ <- Stream(TERMINATION_MSG)

PromisedStep ==
    \/ \E c \in Pids : at[c] = "announce" /\ Promise!SendCreation(c, TRUE)
    \/ \E c \in Pids : /\ at[c] = "report" \/ at[MonitorOf[c]] = "report"
                       /\ Promise!SendTermination(c, TRUE)
    \/ Promise!ReceiveCreation(inHand'[Creator]) /\ at'[Creator] = "log"
    \/ Promise!ReceiveTermination(inHand'[Terminator]) /\ at'[Terminator] = "log"
    \/ startup' \in {"success", "failure"} /\ queue' = <<>>

KeepsQueuePromise == Promise!QueueInit /\ [][PromisedStep]_queue

(***************************************************************************)
(* A full queue does not block the program for ever, although its senders  *)
(* nap with the mutex the receivers need (messenger.cpp:63): it drains,    *)
(* unless a clone was killed with the semaphore the receivers log through. *)
(***************************************************************************)
QueueDrains ==
    startup = "threads" /\ Full ~>
        \/ ~Full \/ ~ParentUp \/ ~running_[Parent]
        \/ \E c \in Holders(Parent) \cap Pids : ~Lives(c)

(***************************************************************************)
(* A first child that the supervisor leaves behind, however it ended, does *)
(* not stay: its work ends when getppid() is 1, and neither a queue that   *)
(* is full, that nobody reads or that is gone (messenger.cpp:46) holds it, *)
(* nor the mutex it copied; only one killed on the semaphore it shares.    *)
(***************************************************************************)
OrphansEnd ==
    ~Clones /\ startup \in {"success", "failure", "crashed"} ~>
        \A c \in firstChildren :
            ~Lives(c) \/ \E d \in Holders(sem_[c]) \cap Pids : ~Lives(d)
=============================================================================
