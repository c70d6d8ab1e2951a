----------------------------- MODULE RuntimeProofs -----------------------------
(***************************************************************************)
(* Theorems about Runtime, for every set of pids and threads, every queue  *)
(* size, all options and configuration files, and all settings explored.   *)
(***************************************************************************)
EXTENDS Runtime, FiniteSetTheorems, SequenceTheorems, TLAPS

-----------------------------------------------------------------------------
(***************************************************************************)
(* The semaphore of the console.  Each operation on it keeps the count of  *)
(* every semaphore, provided that the process whose handle moves is not    *)
(* inside, and comes from the semaphore of the supervisor.                 *)
(***************************************************************************)
HandlesOK ==
    /\ semName \in Processes \cup {NoSemaphore}
    /\ semValue \in [Processes -> Nat]
    /\ sem_ \in [Processes -> Processes]
    /\ logging \subseteq Actors
    /\ IsFiniteSet(logging)
    /\ sem_[Parent] = Parent
    /\ semName # NoSemaphore => sem_[semName] = semName

Counted == HandlesOK /\ SemaphoreCount

LEMMA ProcessOfActor ==
    /\ \A t \in Actors : ProcessOf(t) \in Processes
    /\ \A c \in Pids : ProcessOf(c) = c
    /\ \A t \in Threads : ProcessOf(t) = Parent
BY ThreadAssumption DEF ProcessOf, Processes, Actors

LEMMA HoldersFinite ==
    ASSUME HandlesOK, NEW s
    PROVE  IsFiniteSet(Holders(s))
BY FS_Subset DEF HandlesOK, Holders

LEMMA CountedInit == LoggerInit => Counted
<1> SUFFICES ASSUME LoggerInit PROVE Counted
    OBVIOUS
<1>1. HandlesOK
    BY FS_EmptySet, ThreadAssumption DEF LoggerInit, HandlesOK, Processes
<1>2. \A s : Holders(s) = {}
    BY DEF LoggerInit, Holders
<1>3. SemaphoreCount
    BY <1>2, FS_EmptySet, ThreadAssumption DEF LoggerInit, SemaphoreCount, Processes
<1> QED
    BY <1>1, <1>3 DEF Counted

\* sem_wait takes one off the value and adds a holder.
LEMMA SemWaitCounted ==
    ASSUME Counted, NEW t \in Actors, SemWait(t)
    PROVE  Counted'
<1> DEFINE s == sem_[ProcessOf(t)]
<1>1. s \in Processes
    BY ProcessOfActor DEF Counted, HandlesOK
<1>2. semValue' = [semValue EXCEPT ![s] = @ - 1] /\ semValue[s] > 0
      /\ logging' = logging \cup {t} /\ t \notin logging /\ UNCHANGED <<semName, sem_>>
    BY DEF SemWait, Semaphore
<1>3. HandlesOK'
    BY <1>1, <1>2, FS_AddElement DEF Counted, HandlesOK
<1>4. Holders(s)' = Holders(s) \cup {t} /\ t \notin Holders(s)
    BY <1>2 DEF Holders, Semaphore
<1>5. Cardinality(Holders(s)') = Cardinality(Holders(s)) + 1
    BY <1>4, HoldersFinite, FS_AddElement DEF Counted
<1>6. \A q \in Processes \ {s} : Holders(q)' = Holders(q)
    BY <1>2 DEF Holders, Semaphore
<1>7. \A q \in Processes : Cardinality(Holders(q)) \in Nat
    BY HoldersFinite, FS_CardinalityType DEF Counted
<1>8. SemaphoreCount'
    BY <1>1, <1>2, <1>5, <1>6, <1>7 DEF SemaphoreCount, Counted, HandlesOK
<1> QED
    BY <1>3, <1>8 DEF Counted

\* sem_post gives it back.
LEMMA WriteAndPostCounted ==
    ASSUME Counted, NEW t \in Actors, NEW m, WriteAndPost(t, m)
    PROVE  Counted'
<1> DEFINE s == sem_[ProcessOf(t)]
<1>1. s \in Processes
    BY ProcessOfActor DEF Counted, HandlesOK
<1>2. semValue' = [semValue EXCEPT ![s] = @ + 1]
      /\ logging' = logging \ {t} /\ t \in logging /\ UNCHANGED <<semName, sem_>>
    BY DEF WriteAndPost, SemPost, Semaphore
<1>3. HandlesOK'
    BY <1>1, <1>2, FS_RemoveElement DEF Counted, HandlesOK
<1>4. Holders(s)' = Holders(s) \ {t} /\ t \in Holders(s)
    BY <1>2 DEF Holders, Semaphore
<1>5. Cardinality(Holders(s)') = Cardinality(Holders(s)) - 1
    BY <1>4, HoldersFinite, FS_RemoveElement DEF Counted
<1>6. \A q \in Processes \ {s} : Holders(q)' = Holders(q)
    BY <1>2 DEF Holders, Semaphore
<1>7. \A q \in Processes : Cardinality(Holders(q)) \in Nat
    BY HoldersFinite, FS_CardinalityType DEF Counted
<1>8. SemaphoreCount'
    BY <1>1, <1>2, <1>5, <1>6, <1>7 DEF SemaphoreCount, Counted, HandlesOK
<1> QED
    BY <1>3, <1>8 DEF Counted

\* A new child copies the handle of the supervisor, and had no other.
LEMMA ForkCounted ==
    ASSUME Counted, NEW c \in Pids, sem_[c] = Parent, ForkLogger(c)
    PROVE  Counted'
<1>1. sem_' = sem_
    BY DEF ForkLogger, Counted, HandlesOK
<1>2. \A q : Holders(q)' = Holders(q)
    BY <1>1 DEF ForkLogger, Holders, Semaphore
<1> QED
    BY <1>1, <1>2 DEF ForkLogger, Counted, HandlesOK, SemaphoreCount

\* The child opens the semaphore of the name, or creates one, while it is not inside.
LEMMA OpenCounted ==
    ASSUME Counted, NEW c \in Pids, sem_[c] = Parent, c \notin logging, OpenSemaphore(c)
    PROVE  Counted'
<1> USE ThreadAssumption DEF Processes
<1>1. c # Parent /\ c # NoSemaphore /\ semName # c
    BY DEF Counted, HandlesOK
<1>2. /\ semName' = IF semName = NoSemaphore THEN c ELSE semName
      /\ sem_' = [sem_ EXCEPT ![c] = semName']
      /\ semValue' = [semValue EXCEPT ![c] = IF semName = NoSemaphore THEN 1 ELSE @]
      /\ logging' = logging
    BY DEF OpenSemaphore
<1>3. HandlesOK'
    BY <1>1, <1>2 DEF Counted, HandlesOK
<1>4. \A q : Holders(q)' = Holders(q)
  <2> SUFFICES ASSUME NEW t \in logging
               PROVE  sem_'[ProcessOf(t)] = sem_[ProcessOf(t)]
      BY <1>2 DEF Holders, Semaphore
  <2>1. ProcessOf(t) # c
      BY <1>1 DEF ProcessOf, Counted, HandlesOK
  <2> QED
      BY <1>2, <2>1 DEF Counted, HandlesOK
<1>5. semValue[c] = 0 /\ Cardinality(Holders(c)) = 0
  <2>1. Cardinality(Holders(c)) \in Nat
      BY HoldersFinite, FS_CardinalityType DEF Counted
  <2>2. semValue[c] \in Nat /\ semValue[c] + Cardinality(Holders(c)) = 0
      BY <1>1 DEF Counted, HandlesOK, SemaphoreCount
  <2> QED
      BY <2>1, <2>2
<1>6. SemaphoreCount'
    BY <1>1, <1>2, <1>4, <1>5 DEF SemaphoreCount, Counted, HandlesOK
<1> QED
    BY <1>3, <1>6 DEF Counted

\* Unlinking the name moves no handle.
LEMMA UnlinkCounted ==
    ASSUME Counted, semName' = NoSemaphore, UNCHANGED <<semValue, sem_, logging>>
    PROVE  Counted'
<1>1. \A q : Holders(q)' = Holders(q)
    BY DEF Holders, Semaphore
<1> QED
    BY <1>1 DEF Counted, HandlesOK, SemaphoreCount

LEMMA NoLogCounted ==
    ASSUME Counted, UNCHANGED <<semName, semValue, sem_, logging>>
    PROVE  Counted'
<1>1. \A q : Holders(q)' = Holders(q)
    BY DEF Holders, Semaphore
<1> QED
    BY <1>1 DEF Counted, HandlesOK, SemaphoreCount
-----------------------------------------------------------------------------
(***************************************************************************)
(* The steps, one by one.                                                  *)
(***************************************************************************)
LEMMA ActorFacts ==
    /\ Maker \in Threads /\ Creator \in Threads /\ Terminator \in Threads
    /\ Maker # Creator /\ Maker # Terminator /\ Creator # Terminator
    /\ \A p \in Pids : MonitorOf[p] \in Threads \ {Maker, Creator, Terminator}
    /\ Actors = Pids \cup Threads /\ Pids \cap Threads = {}
    /\ Parent \notin Pids /\ Parent \notin Threads
BY ThreadAssumption, RuntimeAssumption DEF Actors

ParentStep ==
    \/ Parse \/ Initialize \/ StartThreads
    \/ Decides \/ StoreArg \/ MakerLogs \/ Register \/ \E c \in Pids : Launch(c)
    \/ CreatorHandles \/ TerminatorHandles
    \/ \E t \in Receivers : ReceiveOk(t) \/ ReceiveRetries(t) \/ ReceiverEnds(t)
    \/ \E p \in Pids : Poll(p) \/ PollEnds(p)
    \/ Quit \/ Exit \/ LaunchFails \/ Crash

Senders == Pids \cup {MonitorOf[p] : p \in Pids}

LoggedStep ==
    \/ \E p \in Pids : MonitorWarns(p)
    \/ \E t \in Senders : LogsException(t)

SharedStep == \E t \in Actors : LogBegin(t) \/ TakeLock(t) \/ (t \in Senders /\ Sends(t))

ChildStep ==
    \E c \in Pids : \/ SpinEnds(c) \/ SaysHello(c) \/ ResetLogger(c) \/ CreateLogger(c)
                    \/ Finishes(c) \/ Killed(c)

\* A step is one of the supervisor, one that threads and children share, a log entry behind
\* a poll or a send, or one of a child.
LEMMA StepKinds == Next => ParentStep \/ SharedStep \/ LoggedStep \/ ChildStep
<1> SUFFICES ASSUME Next PROVE ParentStep \/ SharedStep \/ LoggedStep \/ ChildStep
    OBVIOUS
<1> USE ActorFacts
<1>1. CASE StartUp \/ Quit \/ Exit \/ LaunchFails \/ Crash
    BY <1>1 DEF StartUp, ParentStep
<1>2. CASE MakerSteps
    BY <1>2 DEF MakerSteps, ParentStep, SharedStep
<1>3. CASE \E t \in Receivers : ReceiverSteps(t)
    BY <1>3 DEF ReceiverSteps, ParentStep, SharedStep, Receivers
<1>4. CASE \E p \in Pids : MonitorSteps(p)
    BY <1>4 DEF MonitorSteps, ParentStep, SharedStep, LoggedStep, Senders
<1>5. CASE \E c \in Pids : ChildSteps(c) \/ Killed(c)
    BY <1>5 DEF ChildSteps, ChildStep, SharedStep, LoggedStep, Senders
<1> QED
    BY <1>1, <1>2, <1>3, <1>4, <1>5 DEF Next

\* After the options the settings are fixed, and main() goes on or ends.
LEMMA LaterSteps ==
    ASSUME Next, ~Parse, ~Initialize
    PROVE  /\ UNCHANGED <<settings, typed>>
           /\ \/ startup' = startup
              \/ startup = "creating" /\ startup' = "threads"
              \/ startup' \in {"success", "failure", "crashed"}
<1>1. CASE ParentStep
    BY <1>1 DEF ParentStep, StartThreads, Decides, StoreArg, MakerLogs, Register, Launch,
                CreatorHandles, TerminatorHandles, ReceiveOk, ReceiveRetries, ReceiverEnds, Poll,
                PollEnds, OnlyQueue, Quit, Exit, LaunchFails, Crash, ParentGone, commandLineVars
<1>2. CASE SharedStep
    BY <1>2 DEF SharedStep, LogBegin, TakeLock, Sends, SendOk, SendRetries, GivesUp, SendFails,
                OnlyQueue, commandLineVars
<1>3. CASE ChildStep
    BY <1>3 DEF ChildStep, SpinEnds, SaysHello, ResetLogger, CreateLogger, Finishes, Killed,
                OnlyQueue, commandLineVars
<1>4. CASE LoggedStep
    BY <1>4 DEF LoggedStep, MonitorWarns, LogsException, commandLineVars
<1> QED
    BY <1>1, <1>2, <1>3, <1>4, StepKinds

(***************************************************************************)
(* A log entry behind a poll or a send: it moves the actor to its report,  *)
(* or beyond the message it has lost.                                      *)
(***************************************************************************)
AfterLog(t) == IF at[t] = "warn" THEN "report" ELSE AfterSend(t)

LEMMA LoggedFacts ==
    ASSUME LoggedStep
    PROVE  \E t \in Actors :
              /\ LogEnd(t)
              /\ at' = [at EXCEPT ![t] = AfterLog(t)]
              /\ at[t] \in {"warn", "announceLost", "reportLost"}
              /\ t \in Pids => at[t] # "warn" /\ Lives(t)
              /\ t \notin Pids => ParentUp /\ \E p \in Pids : t = MonitorOf[p]
              /\ UNCHANGED <<commandLineVars, messengerVars, handlerVars, birthVars>>
<1> USE ActorFacts DEF AfterLog, Go
<1>1. CASE \E p \in Pids : MonitorWarns(p)
    BY <1>1 DEF MonitorWarns
<1>2. CASE \E t \in Senders : LogsException(t)
    BY <1>2 DEF LogsException, Senders, Active
<1> QED
    BY <1>1, <1>2 DEF LoggedStep

\* Where it leads.
LEMMA LoggedPlaces ==
    ASSUME NEW t \in Actors
    PROVE  /\ t \in Pids /\ at[t] = "announceLost" => AfterLog(t) = "work"
           /\ t \in Pids /\ at[t] = "reportLost" => AfterLog(t) = "exited"
           /\ t \notin Pids => AfterLog(t) \in {"report", "idle"}
<1>1. CASE t \in Pids /\ at[t] = "announceLost"
    BY <1>1 DEF AfterLog, AfterSend
<1>2. CASE t \in Pids /\ at[t] = "reportLost"
    BY <1>2 DEF AfterLog, AfterSend
<1>3. CASE t \notin Pids
  <2>1. AfterSend(t) = "idle"
      BY <1>3 DEF AfterSend
  <2> QED
      BY <1>3, <2>1 DEF AfterLog
<1> QED
    BY <1>1, <1>2, <1>3

LEMMA SettingsKept ==
    ASSUME Next, startup # "options"
    PROVE  settings' = settings /\ startup' # "options"
BY LaterSteps DEF Parse, ReadOption, EndOfOptions, Initialize
-----------------------------------------------------------------------------
(***************************************************************************)
(* Where a child is, and what it may have to do with the semaphore there:  *)
(* it is on the one of the supervisor until it has opened its own, and     *)
(* inside only where it logs, or dead.                                     *)
(***************************************************************************)
NotOpened == {"none", "spin", "hello", "reset", "open"}
NeverInside == {"none", "spin", "reset", "open"}

PlacesOK ==
    /\ at \in [Actors -> Places]
    /\ \A c \in Pids : at[c] \in NotOpened => sem_[c] = Parent
    /\ \A c \in Pids : at[c] \in NeverInside => c \notin logging

SemaphoreInv == Counted /\ PlacesOK

LEMMA InitSemaphore == RuntimeInit => SemaphoreInv
<1> SUFFICES ASSUME RuntimeInit PROVE SemaphoreInv
    OBVIOUS
<1>1. Counted
    BY CountedInit DEF RuntimeInit
<1>2. PlacesOK
    BY ActorFacts DEF RuntimeInit, LoggerInit, PlacesOK, Places, Processes
<1> QED
    BY <1>1, <1>2 DEF SemaphoreInv

\* The supervisor moves its threads; of the children it makes one, or reaps one.
LEMMA ParentStepSemaphore ==
    ASSUME SemaphoreInv, ParentStep
    PROVE  SemaphoreInv'
<1> USE ActorFacts DEF SemaphoreInv, PlacesOK, Places, NotOpened, NeverInside, Go
<1>1. CASE Parse \/ Initialize \/ StartThreads \/ Quit \/ Crash
  <2>1. UNCHANGED <<semName, semValue, sem_, logging>>
      BY <1>1 DEF Parse, Initialize, StartThreads, Quit, Crash, loggerVars
  <2>2. Counted'
      BY <2>1, NoLogCounted
  <2>3. PlacesOK'
      BY <1>1, <2>1 DEF Parse, Initialize, StartThreads, Quit, Crash, ParentGone
  <2> QED
      BY <2>2, <2>3
<1>2. CASE Decides \/ StoreArg \/ Register
  <2>1. UNCHANGED <<semName, semValue, sem_, logging>>
      BY <1>2 DEF Decides, StoreArg, Register, loggerVars
  <2>2. Counted'
      BY <2>1, NoLogCounted
  <2>3. PlacesOK'
      BY <1>2, <2>1 DEF Decides, StoreArg, Register
  <2> QED
      BY <2>2, <2>3
<1>3. ASSUME NEW t \in Threads, LogEnd(t)
      PROVE  Counted' /\ sem_' = sem_ /\ logging' \subseteq logging
  <2>1. CASE OnConsole
      BY <1>3, <2>1, WriteAndPostCounted DEF LogEnd, WriteAndPost
  <2>2. CASE ~OnConsole
      BY <1>3, <2>2, NoLogCounted DEF LogEnd, loggerVars
  <2> QED
      BY <2>1, <2>2
<1>4. CASE MakerLogs
  <2>1. PlacesOK'
      BY <1>3, <1>4 DEF MakerLogs
  <2> QED
      BY <1>3, <1>4, <2>1 DEF MakerLogs
<1>5. CASE CreatorHandles
  <2>1. PlacesOK'
      BY <1>3, <1>5 DEF CreatorHandles
  <2> QED
      BY <1>3, <1>5, <2>1 DEF CreatorHandles
<1>6. CASE TerminatorHandles
  <2>1. PlacesOK'
      BY <1>3, <1>6 DEF TerminatorHandles
  <2> QED
      BY <1>3, <1>6, <2>1 DEF TerminatorHandles
<1>7. ASSUME NEW c \in Pids, Launch(c) PROVE SemaphoreInv'
  <2>1. Counted'
      BY <1>7, ForkCounted DEF Launch
  <2>2. sem_' = sem_ /\ logging' = logging
      BY <1>7 DEF Launch, ForkLogger, Counted, HandlesOK
  <2>3. PlacesOK'
      BY <1>7, <2>2 DEF Launch, PreWork
  <2> QED
      BY <2>1, <2>3
<1>8. ASSUME NEW t \in Receivers, ReceiveOk(t) \/ ReceiveRetries(t) \/ ReceiverEnds(t)
      PROVE  SemaphoreInv'
  <2>1. UNCHANGED <<semName, semValue, sem_, logging>>
      BY <1>8 DEF ReceiveOk, ReceiveRetries, ReceiverEnds, OnlyQueue, loggerVars
  <2>2. Counted'
      BY <2>1, NoLogCounted
  <2>3. PlacesOK'
      BY <1>8, <2>1 DEF ReceiveOk, ReceiveRetries, ReceiverEnds, Receivers
  <2> QED
      BY <2>2, <2>3
<1>9. ASSUME NEW p \in Pids, Poll(p) \/ PollEnds(p) PROVE SemaphoreInv'
  <2>1. UNCHANGED <<semName, semValue, sem_, logging>>
      BY <1>9 DEF Poll, PollEnds, OnlyQueue, loggerVars
  <2>2. Counted'
      BY <2>1, NoLogCounted
  <2>3. PlacesOK'
      BY <1>9, <2>1 DEF Poll, PollEnds
  <2> QED
      BY <2>2, <2>3
<1>10. CASE Exit \/ LaunchFails
  <2>1. semName' = NoSemaphore /\ UNCHANGED <<semValue, sem_, logging>>
      BY <1>10 DEF Exit, LaunchFails, CloseLogger
  <2>2. Counted'
      BY <2>1, UnlinkCounted
  <2>3. PlacesOK'
      BY <1>10, <2>1 DEF Exit, LaunchFails, ParentGone
  <2> QED
      BY <2>2, <2>3
<1> QED
    BY <1>1, <1>2, <1>4, <1>5, <1>6, <1>7, <1>8, <1>9, <1>10 DEF ParentStep

LEMMA SharedStepSemaphore ==
    ASSUME SemaphoreInv, SharedStep
    PROVE  SemaphoreInv'
<1> USE ActorFacts DEF SemaphoreInv, PlacesOK, Places, NotOpened, NeverInside, Go
<1>1. ASSUME NEW t \in Actors, LogBegin(t) PROVE SemaphoreInv'
  <2>1. Counted'
      BY <1>1, SemWaitCounted DEF LogBegin
  <2>2. sem_' = sem_ /\ logging' = logging \cup {t} /\ at' = at /\ at[t] \in LogPlaces
      BY <1>1 DEF LogBegin, SemWait
  <2>3. PlacesOK'
      BY <2>2 DEF LogPlaces
  <2> QED
      BY <2>1, <2>3
<1>2. ASSUME NEW t \in Actors, TakeLock(t) \/ Sends(t) PROVE SemaphoreInv'
  <2>1. UNCHANGED <<semName, semValue, sem_, logging>>
      BY <1>2 DEF TakeLock, Sends, SendOk, SendRetries, GivesUp, SendFails, OnlyQueue, loggerVars
  <2>2. Counted'
      BY <2>1, NoLogCounted
  <2>3. \/ at' = at
        \/ at' = [at EXCEPT ![t] = AfterSend(t)]
        \/ at' = [at EXCEPT ![t] = WhenLost(t)]
      BY <1>2 DEF TakeLock, Sends, SendOk, SendRetries, GivesUp, SendFails
  <2>4. /\ AfterSend(t) \in {"idle", "work", "exited"} /\ (t \in Pids => AfterSend(t) # "idle")
        /\ WhenLost(t) \in {"announceLost", "reportLost"}
      BY DEF AfterSend, WhenLost
  <2>5. PlacesOK'
      BY <2>1, <2>3, <2>4
  <2> QED
      BY <2>2, <2>5
<1> QED
    BY <1>1, <1>2 DEF SharedStep

LEMMA LoggedStepSemaphore ==
    ASSUME SemaphoreInv, LoggedStep
    PROVE  SemaphoreInv'
<1>1. PICK t \in Actors :
         /\ LogEnd(t)
         /\ at' = [at EXCEPT ![t] = AfterLog(t)]
         /\ at[t] \in {"warn", "announceLost", "reportLost"}
         /\ t \in Pids => at[t] # "warn"
    BY LoggedFacts
<1> USE ActorFacts DEF SemaphoreInv, PlacesOK, Places, NotOpened, NeverInside
<1>2. Counted' /\ sem_' = sem_ /\ logging' \subseteq logging
  <2>1. CASE OnConsole
      BY <1>1, <2>1, WriteAndPostCounted DEF LogEnd, WriteAndPost
  <2>2. CASE ~OnConsole
      BY <1>1, <2>2, NoLogCounted DEF LogEnd, loggerVars
  <2> QED
      BY <2>1, <2>2
<1>3. PlacesOK'
    BY <1>1, <1>2, LoggedPlaces
<1> QED
    BY <1>2, <1>3

LEMMA ChildStepSemaphore ==
    ASSUME SemaphoreInv, ChildStep
    PROVE  SemaphoreInv'
<1> SUFFICES ASSUME NEW c \in Pids,
                    \/ SpinEnds(c) \/ SaysHello(c) \/ ResetLogger(c) \/ CreateLogger(c)
                    \/ Finishes(c) \/ Killed(c)
             PROVE  SemaphoreInv'
    BY DEF ChildStep
<1> USE ActorFacts DEF SemaphoreInv, PlacesOK, Places, NotOpened, NeverInside, Go
<1>1. CASE SpinEnds(c) \/ Killed(c)
  <2>1. UNCHANGED <<semName, semValue, sem_, logging>>
      BY <1>1 DEF SpinEnds, Killed, OnlyQueue, loggerVars
  <2>2. Counted'
      BY <2>1, NoLogCounted
  <2>3. PlacesOK'
      BY <1>1, <2>1 DEF SpinEnds, Killed
  <2> QED
      BY <2>2, <2>3
<1>2. CASE SaysHello(c) \/ Finishes(c)
  <2>1. LogEnd(c)
      BY <1>2 DEF SaysHello, Finishes
  <2>2. CASE OnConsole
    <3>1. Counted' /\ sem_' = sem_ /\ logging' = logging \ {c}
        BY <2>1, <2>2, WriteAndPostCounted DEF LogEnd, WriteAndPost
    <3>2. PlacesOK'
        BY <1>2, <2>2, <3>1 DEF SaysHello, Finishes, PreWork
    <3> QED
        BY <3>1, <3>2
  <2>3. CASE ~OnConsole
    <3>1. Counted' /\ sem_' = sem_ /\ logging' = logging
        BY <2>1, <2>3, NoLogCounted DEF LogEnd, loggerVars
    <3>2. PlacesOK'
        BY <1>2, <2>3, <3>1 DEF SaysHello, Finishes, PreWork
    <3> QED
        BY <3>1, <3>2
  <2> QED
      BY <2>2, <2>3
<1>3. CASE ResetLogger(c)
  <2>1. Counted'
      BY <1>3, UnlinkCounted DEF ResetLogger, ResetInstance
  <2>2. PlacesOK'
      BY <1>3 DEF ResetLogger, ResetInstance
  <2> QED
      BY <2>1, <2>2
<1>4. CASE CreateLogger(c)
  <2>1. Counted'
      BY <1>4, OpenCounted DEF CreateLogger
  <2>2. /\ \A q \in Pids \ {c} : sem_'[q] = sem_[q]
        /\ logging' = logging
      BY <1>4 DEF CreateLogger, OpenSemaphore, Counted, HandlesOK, Processes
  <2>3. PlacesOK'
      BY <1>4, <2>2 DEF CreateLogger
  <2> QED
      BY <2>1, <2>3
<1> QED
    BY <1>1, <1>2, <1>3, <1>4

(***************************************************************************)
(* Whatever children unlink, open and inherit, and wherever they are       *)
(* killed: a semaphore is at one, or has exactly one holder                *)
(* (console_logger.cpp:56).                                                *)
(***************************************************************************)
THEOREM SemaphoreCounted == RuntimeSpec => []SemaphoreCount
<1>1. SemaphoreInv /\ [Next]_vars => SemaphoreInv'
  <2>1. ASSUME SemaphoreInv, UNCHANGED vars PROVE SemaphoreInv'
    <3>1. Counted'
        BY <2>1, NoLogCounted DEF vars, loggerVars, SemaphoreInv
    <3>2. PlacesOK'
        BY <2>1 DEF vars, loggerVars, SemaphoreInv, PlacesOK
    <3> QED
        BY <3>1, <3>2 DEF SemaphoreInv
  <2> QED
      BY <2>1, StepKinds, ParentStepSemaphore, SharedStepSemaphore, LoggedStepSemaphore,
         ChildStepSemaphore
<1>2. SemaphoreInv => SemaphoreCount
    BY DEF SemaphoreInv, Counted
<1> QED
    BY InitSemaphore, <1>1, <1>2, PTL DEF RuntimeSpec
-----------------------------------------------------------------------------
(***************************************************************************)
(* A forked child is off the supervisor's semaphore before its first log   *)
(* entry: it has unlinked the name that stood for it.                      *)
(***************************************************************************)
OnItsOwn(c) ==
    /\ at[c] \notin {"spin", "hello", "log", "warn"}
    /\ at[c] = "open" => semName # Parent
    /\ c \in logging => sem_[c] # Parent
    /\ OnConsole /\ at[c] \in {"announce", "announceLost", "work", "report", "reportLost"} =>
          sem_[c] # Parent

ForkedOK ==
    /\ startup = "options" => \A c \in Pids : at[c] = "none"
    /\ ~Clones => \A c \in Pids : OnItsOwn(c)

ForkedInv == SemaphoreInv /\ ForkedOK

\* While options are read there are no children, and reading them makes none.
LEMMA NoChildrenYet ==
    ASSUME SemaphoreInv, startup = "options", \A c \in Pids : at[c] = "none", Parse
    PROVE  ForkedOK'
<1>1. UNCHANGED <<at, semName, sem_, logging>>
    BY DEF Parse, loggerVars
<1> QED
    BY <1>1 DEF SemaphoreInv, PlacesOK, NeverInside, ForkedOK, OnItsOwn

LEMMA InitForked == RuntimeInit => ForkedInv
<1> SUFFICES ASSUME RuntimeInit PROVE ForkedInv
    OBVIOUS
<1>1. SemaphoreInv
    BY InitSemaphore
<1>2. ForkedOK
    BY ActorFacts DEF RuntimeInit, LoggerInit, ForkedOK, OnItsOwn
<1> QED
    BY <1>1, <1>2 DEF ForkedInv

LEMMA StepForked ==
    ASSUME ForkedInv, Next
    PROVE  ForkedInv'
<1>1. SemaphoreInv'
    BY StepKinds, ParentStepSemaphore, SharedStepSemaphore, LoggedStepSemaphore,
       ChildStepSemaphore DEF ForkedInv
<1> USE ActorFacts DEF ForkedInv, SemaphoreInv, PlacesOK, NeverInside, Go
<1>2. CASE startup = "options"
  <2>1. \A c \in Pids : at[c] = "none"
      BY <1>2 DEF ForkedOK
  <2>2. CASE Parse
      BY <1>1, <1>2, <2>1, <2>2, NoChildrenYet
  <2>3. CASE ~Parse /\ ParentStep
    <3>1. FALSE
        BY <1>2, <2>3 DEF ParentStep, Initialize, StartThreads, Decides, StoreArg, MakerLogs,
              Register, Launch, CreatorHandles, TerminatorHandles, ReceiveOk, ReceiveRetries,
              ReceiverEnds, Receiving, Poll, PollEnds, Quit, Exit, LaunchFails, Crash, ParentUp,
              MoreWanted
    <3> QED
        BY <3>1
  <2>4. CASE SharedStep
    <3>1. FALSE
        BY <1>2, <2>1, <2>4 DEF SharedStep, LogBegin, Active, Lives, ParentUp, TakeLock, Sending,
              Receiving, Sends, SendOk, SendRetries, GivesUp, SendFails
    <3> QED
        BY <3>1
  <2>5. CASE ChildStep
    <3>1. FALSE
        BY <2>1, <2>5 DEF ChildStep, SpinEnds, SaysHello, ResetLogger, CreateLogger, Finishes,
              Killed, Lives
    <3> QED
        BY <3>1
  <2>6. CASE LoggedStep
    <3>1. FALSE
        BY <1>2, <2>1, <2>6, LoggedFacts DEF ParentUp
    <3> QED
        BY <3>1
  <2> QED
      BY <1>1, <2>2, <2>3, <2>4, <2>5, <2>6, StepKinds
<1>3. CASE startup # "options" /\ Clones
    BY <1>1, <1>3, SettingsKept DEF ForkedOK, Clones
<1>4. CASE startup # "options" /\ ~Clones
  <2>1. settings' = settings /\ startup' # "options"
      BY <1>4, SettingsKept
  <2>2. SUFFICES ASSUME NEW c \in Pids PROVE OnItsOwn(c)'
      BY <1>1, <2>1 DEF ForkedOK
  <2>3. OnItsOwn(c)
      BY <1>4 DEF ForkedOK
  <2> USE DEF OnItsOwn
  <2>4. CASE ParentStep
    <3>1. CASE \E q \in Pids : Launch(q)
      <4>1. PICK q \in Pids : Launch(q)
          BY <3>1
      <4>2. UNCHANGED <<semName, sem_, logging>>
          BY <4>1 DEF Launch, ForkLogger, Counted, HandlesOK, NotOpened
      <4>3. CASE q = c
          BY <1>4, <2>1, <4>1, <4>2, <4>3 DEF Launch, PreWork, OnConsole, NotOpened
      <4>4. CASE q # c
          BY <2>1, <2>3, <4>1, <4>2, <4>4 DEF Launch, OnConsole
      <4> QED
          BY <4>3, <4>4
    <3>2. CASE Parse \/ Initialize \/ StartThreads \/ Decides \/ StoreArg \/ Register
               \/ Quit \/ Crash
        BY <2>1, <2>3, <3>2 DEF Parse, Initialize, StartThreads, Decides, StoreArg, Register,
              Quit, Crash, ParentGone, loggerVars, OnConsole, Receivers
    <3>3. CASE Exit \/ LaunchFails
        BY <2>1, <2>3, <3>3, ThreadAssumption DEF Exit, LaunchFails, ParentGone, CloseLogger,
              OnConsole
    <3>4. CASE MakerLogs \/ CreatorHandles \/ TerminatorHandles
      <4>1. /\ UNCHANGED <<semName, sem_>>
            /\ logging' \subseteq logging
          BY <3>4 DEF MakerLogs, CreatorHandles, TerminatorHandles, LogEnd, WriteAndPost,
                loggerVars
      <4>2. at'[c] \in {at[c], "poll", "idle"}
          BY <3>4 DEF MakerLogs, CreatorHandles, TerminatorHandles
      <4> QED
          BY <2>1, <2>3, <4>1, <4>2 DEF OnConsole
    <3>5. CASE \E t \in Receivers : ReceiveOk(t) \/ ReceiveRetries(t) \/ ReceiverEnds(t)
        BY <2>1, <2>3, <3>5 DEF ReceiveOk, ReceiveRetries, ReceiverEnds, OnlyQueue, loggerVars,
              OnConsole, Receivers
    <3>6. CASE \E p \in Pids : Poll(p) \/ PollEnds(p)
        BY <2>1, <2>3, <3>6 DEF Poll, PollEnds, OnlyQueue, loggerVars, OnConsole
    <3> QED
        BY <2>4, <3>1, <3>2, <3>3, <3>4, <3>5, <3>6 DEF ParentStep
  <2>5. CASE SharedStep
    <3>1. PICK t \in Actors : LogBegin(t) \/ TakeLock(t) \/ Sends(t)
        BY <2>5 DEF SharedStep
    <3>2. CASE LogBegin(t)
      <4>1. /\ at' = at /\ OnConsole /\ at[t] \in LogPlaces
            /\ logging' = logging \cup {t} /\ UNCHANGED <<semName, sem_>>
          BY <3>2 DEF LogBegin, SemWait
      <4>2. t \in Pids => at[t] # "warn"
          BY <1>4 DEF ForkedOK
      <4> QED
          BY <2>1, <2>3, <4>1, <4>2 DEF OnConsole, LogPlaces
    <3>3. CASE TakeLock(t) \/ Sends(t)
      <4>1. UNCHANGED <<semName, sem_, logging>>
          BY <3>3 DEF TakeLock, Sends, SendOk, SendRetries, GivesUp, SendFails, OnlyQueue,
                loggerVars
      <4>2. \/ at' = at
            \/ at' = [at EXCEPT ![t] = AfterSend(t)] /\ at[t] \in {"announce", "report"}
            \/ at' = [at EXCEPT ![t] = WhenLost(t)] /\ at[t] \in {"announce", "report"}
          BY <3>3 DEF TakeLock, Sends, SendOk, SendRetries, GivesUp, SendFails, Sending
      <4>3. t \in Pids /\ at[t] \in {"announce", "report"} =>
                /\ AfterSend(t) = IF at[t] = "announce" THEN "work" ELSE "exited"
                /\ WhenLost(t) = IF at[t] = "announce" THEN "announceLost" ELSE "reportLost"
          BY DEF AfterSend, WhenLost
      <4> QED
          BY <2>1, <2>3, <4>1, <4>2, <4>3 DEF OnConsole
    <3> QED
        BY <3>1, <3>2, <3>3
  <2>6. CASE ChildStep
    <3>1. PICK q \in Pids :
             \/ SpinEnds(q) \/ SaysHello(q) \/ ResetLogger(q) \/ CreateLogger(q)
             \/ Finishes(q) \/ Killed(q)
        BY <2>6 DEF ChildStep
    <3>2. ~SpinEnds(q) /\ ~SaysHello(q)
        BY <1>4 DEF ForkedOK, SpinEnds, SaysHello
    <3>3. CASE Killed(q)
        BY <2>1, <2>3, <3>3 DEF Killed, OnlyQueue, loggerVars, OnConsole
    <3>4. CASE ResetLogger(q)
        BY <2>1, <2>3, <3>4, ThreadAssumption DEF ResetLogger, ResetInstance, OnConsole
    <3>5. CASE CreateLogger(q)
      <4>1. semName # Parent
          BY <1>4, <3>5 DEF CreateLogger, ForkedOK
      <4>2. semName' # Parent /\ logging' = logging
            /\ sem_' = [sem_ EXCEPT ![q] = semName'] /\ at' = [at EXCEPT ![q] = "announce"]
          BY <3>5, <4>1, ThreadAssumption DEF CreateLogger, OpenSemaphore
      <4> QED
          BY <2>1, <2>3, <4>2 DEF OnConsole, Counted, HandlesOK, Processes
    <3>6. CASE Finishes(q)
      <4>1. UNCHANGED <<semName, sem_>> /\ logging' \subseteq logging
          BY <3>6 DEF Finishes, LogEnd, WriteAndPost, loggerVars
      <4> QED
          BY <2>1, <2>3, <3>6, <4>1 DEF Finishes, OnConsole
    <3> QED
        BY <3>1, <3>2, <3>3, <3>4, <3>5, <3>6
  <2>7. CASE LoggedStep
    <3>1. PICK t \in Actors :
             /\ LogEnd(t)
             /\ at' = [at EXCEPT ![t] = AfterLog(t)]
             /\ at[t] \in {"warn", "announceLost", "reportLost"}
             /\ t \in Pids => at[t] # "warn"
        BY <2>7, LoggedFacts
    <3>2. UNCHANGED <<semName, sem_>> /\ logging' \subseteq logging
        BY <3>1 DEF LogEnd, WriteAndPost, loggerVars
    <3> QED
        BY <2>1, <2>3, <3>1, <3>2, LoggedPlaces DEF OnConsole
  <2> QED
      BY <2>4, <2>5, <2>6, <2>7, StepKinds
<1> QED
    BY <1>2, <1>3, <1>4

(***************************************************************************)
(* No forked child, killed wherever it is, has the supervisor's semaphore. *)
(***************************************************************************)
THEOREM ParentSemaphoreStaysFree == RuntimeSpec => []ParentSemaphoreFree
<1>1. ForkedInv /\ [Next]_vars => ForkedInv'
  <2>1. ASSUME ForkedInv, UNCHANGED vars PROVE ForkedInv'
    <3>1. Counted'
        BY <2>1, NoLogCounted DEF vars, loggerVars, ForkedInv, SemaphoreInv
    <3>2. PlacesOK'
        BY <2>1 DEF vars, loggerVars, ForkedInv, SemaphoreInv, PlacesOK
    <3>3. ForkedOK'
        BY <2>1 DEF vars, loggerVars, commandLineVars, ForkedInv, ForkedOK, OnItsOwn, Clones,
              OnConsole
    <3> QED
        BY <3>1, <3>2, <3>3 DEF ForkedInv, SemaphoreInv
  <2> QED
      BY <2>1, StepForked
<1>2. ForkedInv => ParentSemaphoreFree
  <2> SUFFICES ASSUME ForkedInv, ~Clones, NEW t \in Holders(Parent)
               PROVE  t \in Threads
      BY DEF ParentSemaphoreFree
  <2>1. t \in logging /\ t \in Actors /\ sem_[ProcessOf(t)] = Parent
      BY DEF Holders, Semaphore, ForkedInv, SemaphoreInv, Counted, HandlesOK
  <2> QED
      BY <2>1, ActorFacts, ProcessOfActor DEF ForkedInv, ForkedOK, OnItsOwn
<1> QED
    BY InitForked, <1>1, <1>2, PTL DEF RuntimeSpec
-----------------------------------------------------------------------------
(***************************************************************************)
(* The command line.                                                       *)
(***************************************************************************)
SettingsType ==
    [numProcesses : 1..MAX_PROCESSES, processType : ProcessTypes, respawn : BOOLEAN,
     loggerType : {"console", "file"}, napType : {"MS", "SEC", "MIN"},
     configFile : DOMAIN ConfigFiles \cup {NoFile}, complained : BOOLEAN]

\* The setting that an option makes is its argument, or what the argument is taken for.
Respawns(s, o) == o.opt = "s" => (s.respawn <=> IsNonzero(o.arg))

Honours(s, o) ==
    /\ o.opt = "n" => Number[o.arg] = s.numProcesses
    /\ o.opt = "t" => o.arg = s.processType
    /\ o.opt = "l" => o.arg = s.loggerType
    /\ o.opt = "T" => o.arg = s.napType
    /\ o.opt = "c" => o.arg = s.configFile

LineOK ==
    /\ startup \in {"options", "initialize", "creating", "threads", "started",
                    "success", "failure", "crashed"}
    /\ settings \in SettingsType
    /\ typed \in Seq(Options)
    /\ settings.configFile # NoFile => Readable(settings.configFile)
    /\ startup \in {"options", "initialize"} /\ ~settings.complained =>
          \A i \in DOMAIN typed :
              LastTyped(typed[i].opt, i) =>
                  Honours(settings, typed[i]) /\ Respawns(settings, typed[i])

\* A system process has a file that can be read, and what is started has a handler.
StartsOnlyRunnable ==
    startup \in {"initialize", "started", "creating", "threads"} =>
        /\ settings.processType = "system" => Readable(settings.configFile)
        /\ startup # "initialize" => settings.processType \in HandlerFactory

LineInv == LineOK /\ StartsOnlyRunnable

\* What the loop over the options does with one of them.
LEMMA OneOption ==
    ASSUME settings \in SettingsType, NEW o, ReadOption(o)
    PROVE  /\ settings' \in SettingsType
           /\ settings'.configFile = settings.configFile \/ Readable(settings'.configFile)
           /\ ~settings'.complained => ~settings.complained /\ Honours(settings', o)
           /\ o.opt # "n" => settings'.numProcesses = settings.numProcesses
           /\ o.opt # "t" => settings'.processType = settings.processType
           /\ o.opt # "s" => (settings'.respawn <=> settings.respawn)
           /\ o.opt # "l" => settings'.loggerType = settings.loggerType
           /\ o.opt # "T" => settings'.napType = settings.napType
           /\ o.opt # "c" => settings'.configFile = settings.configFile
<1> USE DEF SettingsType, Honours
<1>1. CASE o.opt = "n"
  <2>1. SetNumProcesses(o.arg)
      BY <1>1 DEF ReadOption
  <2>2. CASE ValidNumber(o.arg)
      BY <1>1, <2>1, <2>2 DEF SetNumProcesses, Set, ValidNumber, MAX_PROCESSES
  <2>3. CASE ~ValidNumber(o.arg)
    <3>1. settings' = [settings EXCEPT !.numProcesses = 4, !.complained = TRUE]
        BY <2>1, <2>3 DEF SetNumProcesses, Set, DefaultProcesses
    <3>2. 4 \in 1..MAX_PROCESSES
        BY DEF MAX_PROCESSES
    <3> QED
        BY <1>1, <3>1, <3>2
  <2> QED
      BY <2>2, <2>3
<1>2. CASE o.opt = "t"
  <2>1. SetProcessType(o.arg)
      BY <1>2 DEF ReadOption
  <2> QED
      BY <1>2, <2>1 DEF SetProcessType, Set, ProcessTypes
<1>3. CASE o.opt = "s"
  <2>1. SetRespawn(o.arg)
      BY <1>3 DEF ReadOption
  <2> QED
      BY <1>3, <2>1 DEF SetRespawn, IsNonzero
<1>4. CASE o.opt = "l"
  <2>1. SetLoggerType(o.arg)
      BY <1>4 DEF ReadOption
  <2> QED
      BY <1>4, <2>1 DEF SetLoggerType, Set
<1>5. CASE o.opt = "T"
  <2>1. SetNapType(o.arg)
      BY <1>5 DEF ReadOption
  <2> QED
      BY <1>5, <2>1 DEF SetNapType, Set
<1>6. CASE o.opt = "c" /\ Readable(o.arg)
  <2>1. settings' = [settings EXCEPT !.configFile = o.arg]
      BY <1>6 DEF ReadOption
  <2> QED
      BY <1>6, <2>1 DEF Readable
<1>7. CASE o.opt \notin {"n", "t", "s", "l", "T"} /\ ~(o.opt = "c" /\ Readable(o.arg))
  <2>1. settings' = [settings EXCEPT !.complained = TRUE]
      BY <1>7 DEF ReadOption
  <2> QED
      BY <1>7, <2>1
<1> QED
    BY <1>1, <1>2, <1>3, <1>4, <1>5, <1>6, <1>7

LEMMA RespawnOption ==
    ASSUME settings \in SettingsType, NEW o, ReadOption(o)
    PROVE  Respawns(settings', o)
<1> SUFFICES ASSUME o.opt = "s" PROVE settings'.respawn <=> IsNonzero(o.arg)
    BY DEF Respawns
<1>1. SetRespawn(o.arg)
    BY DEF ReadOption
<1> QED
    BY <1>1 DEF SetRespawn, SettingsType

LEMMA OptionLine ==
    ASSUME LineInv, NEW o \in Options, ReadOption(o)
    PROVE  LineInv'
<1> USE DEF LineInv, LineOK
<1>1. startup = "options" /\ typed' = Append(typed, o)
      /\ startup' \in {"options", "success", "failure"}
    BY DEF ReadOption
<1>2. settings' \in SettingsType
    BY OneOption
<1>3. settings'.configFile # NoFile => Readable(settings'.configFile)
    BY OneOption
<1>4. ASSUME ~settings'.complained, NEW i \in DOMAIN typed', LastTyped(typed[i].opt, i)'
      PROVE  Honours(settings', typed'[i]) /\ Respawns(settings', typed'[i])
  <2>1. CASE i = Len(typed) + 1
      BY <1>1, <1>4, <2>1, OneOption, RespawnOption
  <2>2. CASE i \in DOMAIN typed
    <3>1. typed'[i] = typed[i] /\ Len(typed') = Len(typed) + 1 /\ typed'[Len(typed) + 1] = o
        BY <1>1, <2>2
    <3>2. o.opt # typed[i].opt /\ LastTyped(typed[i].opt, i)
        BY <1>1, <1>4, <2>2, <3>1 DEF LastTyped
    <3>3. Honours(settings, typed[i]) /\ Respawns(settings, typed[i])
        BY <1>1, <1>4, <2>2, <3>2, OneOption
    <3> QED
        BY <3>1, <3>2, <3>3, OneOption DEF Honours, Respawns
  <2> QED
      BY <1>1, <1>4, <2>1, <2>2
<1>5. StartsOnlyRunnable'
    BY <1>1 DEF StartsOnlyRunnable
<1> QED
    BY <1>1, <1>2, <1>3, <1>4, <1>5

\* Behind the options: the check for a file, and the types that have a handler.
LEMMA StartLine ==
    ASSUME LineInv, EndOfOptions \/ Initialize
    PROVE  LineInv'
<1> USE DEF LineInv, LineOK
<1>1. CASE EndOfOptions
  <2>1. settings' = settings /\ typed' = typed
        /\ startup' = IF NeedsFile THEN "failure" ELSE "initialize"
      BY <1>1 DEF EndOfOptions
  <2>2. StartsOnlyRunnable'
      BY <2>1 DEF StartsOnlyRunnable, NeedsFile, Readable
  <2> QED
      BY <1>1, <2>1, <2>2 DEF EndOfOptions, LastTyped, Readable
<1>2. CASE Initialize
  <2>1. settings' = settings /\ typed' = <<>> /\ startup = "initialize"
      BY <1>2 DEF Initialize
  <2>2. \/ startup' = "failure"
        \/ startup' \in {"creating", "started"} /\ settings.processType \in HandlerFactory
      BY <1>2 DEF Initialize, HandlerFactory
  <2>3. StartsOnlyRunnable'
      BY <2>1, <2>2 DEF StartsOnlyRunnable, Readable
  <2> QED
      BY <2>1, <2>2, <2>3 DEF Readable
<1> QED
    BY <1>1, <1>2

LEMMA LaterLine ==
    ASSUME LineInv, Next, ~Parse, ~Initialize
    PROVE  LineInv'
<1>1. UNCHANGED <<settings, typed>>
      /\ \/ startup' = startup
         \/ startup = "creating" /\ startup' = "threads"
         \/ startup' \in {"success", "failure", "crashed"}
    BY LaterSteps
<1> QED
    BY <1>1 DEF LineInv, LineOK, StartsOnlyRunnable, Readable, LastTyped

LEMMA StepLine == LineInv /\ [Next]_vars => LineInv'
<1>1. ASSUME LineInv, Parse PROVE LineInv'
    BY <1>1, OptionLine, StartLine DEF Parse
<1>2. ASSUME LineInv, UNCHANGED vars PROVE LineInv'
    BY <1>2 DEF vars, commandLineVars, LineInv, LineOK, StartsOnlyRunnable, Readable, LastTyped
<1> QED
    BY <1>1, <1>2, StartLine, LaterLine

LEMMA InitLine == RuntimeInit => LineInv
BY DEF RuntimeInit, CommandLineInit, Defaults, DefaultProcesses, MAX_PROCESSES, ProcessTypes,
       SettingsType, LineInv, LineOK, StartsOnlyRunnable

(***************************************************************************)
(* Without a warning every option that is not overridden has its argument; *)
(* respawning is on just when the last -s gives a number other than 0.     *)
(***************************************************************************)
THEOREM SettingsHonoured == RuntimeSpec => []SettingsAsTyped
<1>1. LineInv => SettingsAsTyped
  <2> SUFFICES ASSUME LineInv, startup = "initialize", ~settings.complained,
                      NEW i \in DOMAIN typed, NEW opt, LastTyped(opt, i)
               PROVE  /\ typed[i].opt = opt
                      /\ Honours(settings, typed[i]) /\ Respawns(settings, typed[i])
      BY DEF SettingsAsTyped, Honours, Respawns, IsNonzero, LineInv, LineOK, SettingsType
  <2>1. typed[i].opt = opt
      BY DEF LastTyped
  <2> QED
      BY <2>1 DEF LineInv, LineOK
<1> QED
    BY InitLine, StepLine, <1>1, PTL DEF RuntimeSpec
-----------------------------------------------------------------------------
(***************************************************************************)
(* Types.  They rest on where Maker is, which has a child in hand whenever *)
(* it needs one, and on senders having a child to send about.              *)
(***************************************************************************)
MakerPlaces == {"none", "idle", "make", "store", "log", "register"}

MakerInHand ==
    /\ at[Maker] \in MakerPlaces
    /\ at[Maker] \in {"store", "log", "register"} => inHand[Maker] \in Pids

\* The variables of Runtime itself.
OwnTypes ==
    /\ at \in [Actors -> Places]
    /\ inHand \in [Busy -> Pids \cup {NoPid}]
    /\ counter_ \in Int
    /\ running_ \in [Processes -> BOOLEAN]
    /\ registered \subseteq Pids /\ firstChildren \subseteq Pids
    /\ torn \subseteq Pids /\ knowsPid \subseteq Pids

TypeInv == LineInv /\ MessengerTypeOK /\ LoggerTypeOK /\ OwnTypes /\ MakerInHand

\* Turns of either loop of the Messenger that move no message.
LEMMA TurnTyped ==
    ASSUME MessengerTypeOK, NEW t \in Actors, NEW type,
           \/ Lock(t) \/ SendNaps(t) \/ SendWakes(t) \/ SendTimesOut(t) \/ QueueIsGone(t)
           \/ ReceiveNothing(t, type)
    PROVE  MessengerTypeOK'
<1>1. ProcessOf(t) \in Processes
    BY ProcessOfActor
<1> QED
    BY <1>1 DEF MessengerTypeOK, Lock, SendNaps, SendWakes, SendTimesOut, QueueIsGone,
         ReceiveNothing, Unlock

LEMMA SendTyped ==
    ASSUME MessengerTypeOK, NEW t \in Actors, NEW m \in Message, Send(t, m)
    PROVE  MessengerTypeOK'
<1>1. queue' \in Seq(Message)
    BY DEF MessengerTypeOK, Send, Stored
<1> QED
    BY <1>1, ProcessOfActor DEF MessengerTypeOK, Send, Unlock

\* msgrcv hands over a message of the queue, and leaves the others in their order.
LEMMA ReceiveTyped ==
    ASSUME MessengerTypeOK, NEW t \in Actors, NEW type, NEW p, Receive(t, type, p)
    PROVE  /\ MessengerTypeOK'
           /\ \E i \in DOMAIN queue : p = queue[i].pid
           /\ \A j \in DOMAIN queue' : \E k \in DOMAIN queue : queue'[j] = queue[k]
<1>1. PICK i \in OfType(type) :
         /\ p = queue[i].pid
         /\ queue' = [j \in 1..(Len(queue) - 1) |->
                        IF j < i THEN queue[j] ELSE queue[j + 1]]
    BY DEF Receive
<1>2. i \in 1..Len(queue) /\ Len(queue) \in Nat /\ DOMAIN queue = 1..Len(queue)
    BY DEF OfType, MessengerTypeOK
<1>3. \A j \in 1..(Len(queue) - 1) :
         IF j < i THEN j \in 1..Len(queue) /\ queue'[j] = queue[j]
         ELSE j + 1 \in 1..Len(queue) /\ queue'[j] = queue[j + 1]
    BY <1>1, <1>2
<1>4. \A j \in 1..(Len(queue) - 1) : queue'[j] \in Message
    BY <1>2, <1>3 DEF MessengerTypeOK
<1>5. queue' \in Seq(Message)
  <2>1. queue' = [j \in 1..(Len(queue) - 1) |-> queue'[j]]
      BY <1>1
  <2>2. Len(queue) - 1 \in Nat
      BY <1>2
  <2> QED
      BY <1>4, <2>1, <2>2, IsASeq
<1>6. MessengerTypeOK'
    BY <1>5, ProcessOfActor DEF MessengerTypeOK, Receive, Unlock
<1>7. DOMAIN queue' = 1..(Len(queue) - 1)
    BY <1>1
<1> QED
    BY <1>1, <1>2, <1>3, <1>6, <1>7

\* What a log entry does, whoever makes it.
LEMMA LogTyped ==
    ASSUME LoggerTypeOK, NEW t \in Actors, SemWait(t) \/ LogEnd(t)
    PROVE  LoggerTypeOK'
<1> USE ProcessOfActor DEF LoggerTypeOK
<1>1. CASE SemWait(t)
    BY <1>1 DEF SemWait, Semaphore
<1>2. CASE LogEnd(t) /\ ~OnConsole
    BY <1>2 DEF LogEnd, loggerVars
<1>3. CASE LogEnd(t) /\ OnConsole
  <2> DEFINE p == ProcessOf(t)
             b == Append(buffer[p], Entry(t))
  <2>1. p \in Processes /\ Entry(t) \in Processes
      BY ActorFacts DEF Entry, Processes
  <2>2. b \in Seq(Processes)
      BY <2>1
  <2>3. /\ buffer' = [buffer EXCEPT ![p] = IF Flushes(b) THEN <<>> ELSE b]
        /\ printed' = IF Flushes(b) THEN printed \cup LastMessages(b) ELSE printed
        /\ semValue' = [semValue EXCEPT ![sem_[p]] = @ + 1]
        /\ logging' = logging \ {t}
        /\ UNCHANGED <<semName, sem_, bufferLimit>>
      BY <1>3 DEF LogEnd, WriteAndPost, SemPost, Semaphore
  <2>4. buffer' \in [Processes -> Seq(Processes)]
      BY <2>1, <2>2, <2>3
  <2>5. printed' \subseteq Pids
      BY <2>3 DEF LastMessages
  <2> QED
      BY <2>1, <2>3, <2>4, <2>5
<1> QED
    BY <1>1, <1>2, <1>3

LEMMA CloseTyped ==
    ASSUME LoggerTypeOK, CloseLogger
    PROVE  LoggerTypeOK'
<1>1. printed' \subseteq Pids
    BY DEF LoggerTypeOK, CloseLogger, LastMessages
<1>2. buffer' \in [Processes -> Seq(Processes)]
  <2>1. buffer \in [Processes -> Seq(Processes)] /\ buffer' = [buffer EXCEPT ![Parent] = <<>>]
      BY DEF LoggerTypeOK, CloseLogger
  <2>2. <<>> \in Seq(Processes)
      OBVIOUS
  <2> QED
      BY <2>1, <2>2
<1> QED
    BY <1>1, <1>2 DEF LoggerTypeOK, CloseLogger

LEMMA InitType == RuntimeInit => TypeInv
<1> SUFFICES ASSUME RuntimeInit PROVE TypeInv
    OBVIOUS
<1> USE ActorFacts DEF RuntimeInit
<1>1. MessengerTypeOK
    BY DEF MessengerInit, MessengerTypeOK, Processes
<1>2. LoggerTypeOK
    BY DEF LoggerInit, LoggerTypeOK, Processes
<1>3. OwnTypes /\ MakerInHand
    BY DEF OwnTypes, MakerInHand, MakerPlaces, Places
<1> QED
    BY <1>1, <1>2, <1>3, InitLine DEF TypeInv

LEMMA ParentStepType ==
    ASSUME TypeInv, ParentStep
    PROVE  MessengerTypeOK' /\ LoggerTypeOK' /\ OwnTypes' /\ MakerInHand'
<1> USE ActorFacts DEF TypeInv, OwnTypes, MakerInHand, MakerPlaces, Places, Go, Busy
<1>1. CASE Parse \/ Decides \/ StoreArg \/ Register \/ Quit
  <2>1. MessengerTypeOK' /\ LoggerTypeOK'
      BY <1>1 DEF Parse, Decides, StoreArg, Register, Quit, messengerVars, loggerVars,
            MessengerTypeOK, LoggerTypeOK
  <2>2. OwnTypes' /\ MakerInHand'
    <3>1. CASE Parse
        BY <3>1 DEF Parse, handlerVars, birthVars, childVars
    <3>2. CASE Decides
        BY <3>2 DEF Decides, handlerVars, birthVars, childVars
    <3>3. CASE StoreArg
        BY <3>3 DEF StoreArg, handlerVars
    <3>4. CASE Register
        BY <3>4 DEF Register, birthVars, childVars
    <3>5. CASE Quit
        BY <3>5 DEF Quit, handlerVars, Processes
    <3> QED
        BY <1>1, <3>1, <3>2, <3>3, <3>4, <3>5
  <2> QED
      BY <2>1, <2>2
<1>2. CASE Initialize
  <2>1. bufferLimit' \in Nat
    <3>1. settings.numProcesses \in Nat
        BY DEF LineInv, LineOK, SettingsType, MAX_PROCESSES
    <3> QED
        BY <1>2, <3>1 DEF Initialize, FirstUse, DefaultProcesses, LoggerTypeOK
  <2> QED
      BY <1>2, <2>1 DEF Initialize, handlerVars, childVars, messengerVars, MessengerTypeOK,
            LoggerTypeOK
<1>3. CASE StartThreads
    BY <1>3 DEF StartThreads, handlerVars, birthVars, childVars, messengerVars, loggerVars,
          MessengerTypeOK, LoggerTypeOK, Receivers
<1>4. ASSUME NEW c \in Pids, Launch(c)
      PROVE  MessengerTypeOK' /\ LoggerTypeOK' /\ OwnTypes' /\ MakerInHand'
  <2>1. MessengerTypeOK'
      BY <1>4 DEF Launch, ForkMessenger, MessengerTypeOK, Processes
  <2>2. LoggerTypeOK'
    <3>1. buffer' \in [Processes -> Seq(Processes)]
        BY <1>4 DEF Launch, ForkLogger, LoggerTypeOK, Processes
    <3> QED
        BY <1>4, <3>1 DEF Launch, ForkLogger, LoggerTypeOK, Processes
  <2>3. OwnTypes'
    <3>1. at' \in [Actors -> Places]
        BY <1>4 DEF Launch, PreWork
    <3>2. running_' \in [Processes -> BOOLEAN]
        BY <1>4 DEF Launch, Processes
    <3> QED
        BY <1>4, <3>1, <3>2 DEF Launch
  <2>4. MakerInHand'
      BY <1>4 DEF Launch
  <2> QED
      BY <2>1, <2>2, <2>3, <2>4
<1>5. CASE MakerLogs \/ CreatorHandles \/ TerminatorHandles
  <2>1. LoggerTypeOK'
      BY <1>5, LogTyped DEF MakerLogs, CreatorHandles, TerminatorHandles
  <2>2. MessengerTypeOK'
      BY <1>5 DEF MakerLogs, CreatorHandles, TerminatorHandles, messengerVars, MessengerTypeOK
  <2>3. OwnTypes' /\ MakerInHand'
    <3>1. CASE MakerLogs
        BY <3>1 DEF MakerLogs, birthVars, childVars
    <3>2. CASE CreatorHandles
        BY <3>2 DEF CreatorHandles, birthVars, childVars
    <3>3. CASE TerminatorHandles
        BY <3>3 DEF TerminatorHandles, birthVars, childVars
    <3> QED
        BY <1>5, <3>1, <3>2, <3>3
  <2> QED
      BY <2>1, <2>2, <2>3
<1>6. ASSUME NEW t \in Receivers, ReceiveOk(t)
      PROVE  MessengerTypeOK' /\ LoggerTypeOK' /\ OwnTypes' /\ MakerInHand'
  <2>1. t \in Actors /\ t # Maker
      BY DEF Receivers
  <2>2. MessengerTypeOK'
      BY <1>6, <2>1, ReceiveTyped DEF ReceiveOk
  <2>3. LoggerTypeOK'
      BY <1>6 DEF ReceiveOk, loggerVars, LoggerTypeOK
  <2>4. PICK p \in Pids \cup {NoPid} : inHand' = [inHand EXCEPT ![t] = p]
      BY <1>6 DEF ReceiveOk
  <2>5. /\ at' = [at EXCEPT ![t] = "log"]
        /\ UNCHANGED <<counter_, registered, running_, firstChildren, torn, knowsPid>>
      BY <1>6 DEF ReceiveOk, birthVars, childVars
  <2>6. inHand' \in [Busy -> Pids \cup {NoPid}] /\ inHand'[Maker] = inHand[Maker]
      BY <2>1, <2>4
  <2>7. at' \in [Actors -> Places] /\ at'[Maker] = at[Maker]
      BY <2>1, <2>5
  <2> QED
      BY <2>2, <2>3, <2>5, <2>6, <2>7
<1>7. ASSUME NEW t \in Receivers, ReceiveRetries(t) \/ ReceiverEnds(t)
      PROVE  MessengerTypeOK' /\ LoggerTypeOK' /\ OwnTypes' /\ MakerInHand'
  <2>1. t \in Actors /\ t # Maker
      BY DEF Receivers
  <2>2. MessengerTypeOK'
      BY <1>7, <2>1, TurnTyped DEF ReceiveRetries, ReceiverEnds, messengerVars, MessengerTypeOK
  <2>3. LoggerTypeOK'
      BY <1>7 DEF ReceiveRetries, ReceiverEnds, OnlyQueue, loggerVars, LoggerTypeOK
  <2> QED
      BY <1>7, <2>1, <2>2, <2>3 DEF ReceiveRetries, ReceiverEnds, OnlyQueue, handlerVars,
            birthVars, childVars
<1>8. ASSUME NEW p \in Pids, Poll(p) \/ PollEnds(p)
      PROVE  MessengerTypeOK' /\ LoggerTypeOK' /\ OwnTypes' /\ MakerInHand'
  <2>1. UNCHANGED messengerVars /\ OnlyQueue
      BY <1>8 DEF Poll, PollEnds
  <2>2. MessengerTypeOK' /\ LoggerTypeOK'
      BY <2>1 DEF OnlyQueue, loggerVars, messengerVars, MessengerTypeOK, LoggerTypeOK
  <2>3. at' \in [Actors -> Places] /\ at'[Maker] = at[Maker]
      BY <1>8 DEF Poll, PollEnds
  <2>4. UNCHANGED <<handlerVars, running_, firstChildren, torn, knowsPid>>
      BY <2>1 DEF OnlyQueue, birthVars, childVars
  <2> QED
      BY <2>2, <2>3, <2>4 DEF handlerVars
<1>9. CASE Exit \/ LaunchFails \/ Crash
  <2>1. ParentGone(startup') /\ UNCHANGED running_
      BY <1>9 DEF Exit, LaunchFails, Crash, ParentGone
  <2>2. LoggerTypeOK'
      BY <1>9, CloseTyped DEF Exit, LaunchFails, Crash, loggerVars, LoggerTypeOK
  <2>3. queue' \in Seq(Message) /\ connected' \in [Processes -> {"no", "yes", "stale"}]
    <3>1. CASE RemoveQueue
        BY <3>1 DEF RemoveQueue, MessengerTypeOK
    <3>2. CASE UNCHANGED <<queue, connected>>
        BY <3>2 DEF MessengerTypeOK
    <3> QED
        BY <1>9, <3>1, <3>2 DEF Exit, LaunchFails, Crash
  <2>4. MessengerTypeOK'
      BY <2>1, <2>3 DEF ParentGone, ForgetCalls, MessengerTypeOK
  <2> QED
      BY <2>1, <2>2, <2>4 DEF ParentGone
<1> QED
    BY <1>1, <1>2, <1>3, <1>4, <1>5, <1>6, <1>7, <1>8, <1>9 DEF ParentStep

LEMMA OutgoingTyped ==
    ASSUME TypeInv, NEW t \in Senders
    PROVE  Outgoing(t) \in Message
BY ActorFacts DEF Outgoing, Message, PidOf, Senders

LEMMA SharedStepType ==
    ASSUME TypeInv, SharedStep
    PROVE  MessengerTypeOK' /\ LoggerTypeOK' /\ OwnTypes' /\ MakerInHand'
<1> PICK t \in Actors : LogBegin(t) \/ TakeLock(t) \/ (t \in Senders /\ Sends(t))
    BY DEF SharedStep
<1> USE ActorFacts DEF TypeInv
<1>1. CASE LogBegin(t)
  <2>1. LoggerTypeOK'
      BY <1>1, LogTyped DEF LogBegin
  <2> QED
      BY <1>1, <2>1 DEF LogBegin, messengerVars, MessengerTypeOK, handlerVars, birthVars,
            childVars, OwnTypes, MakerInHand
<1>2. CASE TakeLock(t)
  <2>1. MessengerTypeOK'
      BY <1>2, TurnTyped DEF TakeLock
  <2> QED
      BY <1>2, <2>1 DEF TakeLock, OnlyQueue, loggerVars, LoggerTypeOK, handlerVars, birthVars,
            childVars, OwnTypes, MakerInHand
<1>3. CASE t \in Senders /\ Sends(t)
  <2>1. MessengerTypeOK'
    <3>1. CASE SendOk(t)
        BY <1>3, <3>1, OutgoingTyped, SendTyped DEF SendOk
    <3>2. CASE SendRetries(t) \/ GivesUp(t)
        BY <3>2, TurnTyped DEF SendRetries, GivesUp
    <3>3. CASE SendFails(t)
        BY <3>3, TurnTyped DEF SendFails, MessengerTypeOK
    <3> QED
        BY <1>3, <3>1, <3>2, <3>3 DEF Sends
  <2>2. \/ at' = at
        \/ at' = [at EXCEPT ![t] = AfterSend(t)]
        \/ at' = [at EXCEPT ![t] = WhenLost(t)]
      BY <1>3 DEF Sends, SendOk, SendRetries, GivesUp, SendFails, Go
  <2>3. AfterSend(t) \in {"idle", "work", "exited"}
        /\ WhenLost(t) \in {"announceLost", "reportLost"}
      BY DEF AfterSend, WhenLost
  <2>4. t # Maker
      BY <1>3 DEF Senders
  <2>5. OnlyQueue
      BY <1>3 DEF Sends, SendOk, SendRetries, GivesUp, SendFails
  <2>6. LoggerTypeOK'
      BY <2>5 DEF OnlyQueue, loggerVars, LoggerTypeOK
  <2>7. OwnTypes' /\ MakerInHand'
      BY <2>2, <2>3, <2>4, <2>5 DEF OnlyQueue, handlerVars, birthVars, childVars, OwnTypes,
            MakerInHand, Places
  <2> QED
      BY <2>1, <2>6, <2>7
<1> QED
    BY <1>1, <1>2, <1>3

LEMMA LoggedStepType ==
    ASSUME TypeInv, LoggedStep
    PROVE  MessengerTypeOK' /\ LoggerTypeOK' /\ OwnTypes' /\ MakerInHand'
<1>1. PICK t \in Actors :
         /\ LogEnd(t)
         /\ at' = [at EXCEPT ![t] = AfterLog(t)]
         /\ t \notin Pids => \E p \in Pids : t = MonitorOf[p]
         /\ UNCHANGED <<commandLineVars, messengerVars, handlerVars, birthVars>>
    BY LoggedFacts
<1> USE ActorFacts DEF TypeInv
<1>2. LoggerTypeOK'
    BY <1>1, LogTyped
<1>3. MessengerTypeOK'
    BY <1>1 DEF messengerVars, MessengerTypeOK
<1>4. AfterLog(t) \in {"report", "idle", "work", "exited"}
    BY DEF AfterLog, AfterSend
<1>5. OwnTypes' /\ MakerInHand'
    BY <1>1, <1>4 DEF handlerVars, birthVars, childVars, OwnTypes, MakerInHand, Places
<1> QED
    BY <1>2, <1>3, <1>5

LEMMA ChildStepType ==
    ASSUME TypeInv, ChildStep
    PROVE  MessengerTypeOK' /\ LoggerTypeOK' /\ OwnTypes' /\ MakerInHand'
<1> PICK c \in Pids : \/ SpinEnds(c) \/ SaysHello(c) \/ ResetLogger(c) \/ CreateLogger(c)
                      \/ Finishes(c) \/ Killed(c)
    BY DEF ChildStep
<1> USE ActorFacts DEF TypeInv
<1>1. messengerVars' = messengerVars
    BY DEF SpinEnds, SaysHello, ResetLogger, CreateLogger, Finishes, Killed
<1>2. MessengerTypeOK'
    BY <1>1 DEF messengerVars, MessengerTypeOK
<1>3. LoggerTypeOK'
  <2>1. CASE SpinEnds(c) \/ Killed(c)
      BY <2>1 DEF SpinEnds, Killed, OnlyQueue, loggerVars, LoggerTypeOK
  <2>2. CASE SaysHello(c) \/ Finishes(c)
      BY <2>2, LogTyped DEF SaysHello, Finishes
  <2>3. CASE ResetLogger(c)
      BY <2>3 DEF ResetLogger, ResetInstance, LoggerTypeOK
  <2>4. CASE CreateLogger(c)
    <3>1. semName' \in Processes
        BY <2>4 DEF CreateLogger, OpenSemaphore, LoggerTypeOK, Processes
    <3> QED
        BY <2>4, <3>1 DEF CreateLogger, OpenSemaphore, LoggerTypeOK
  <2> QED
      BY <2>1, <2>2, <2>3, <2>4
<1>4. \E place \in Places : at' = [at EXCEPT ![c] = place]
    BY DEF SpinEnds, SaysHello, ResetLogger, CreateLogger, Finishes, Killed, Go, PreWork, Places
<1>5. handlerVars' = handlerVars
      /\ UNCHANGED <<running_, firstChildren, torn>> /\ knowsPid' \subseteq Pids
    BY DEF SpinEnds, SaysHello, ResetLogger, CreateLogger, Finishes, Killed, OnlyQueue, birthVars,
           childVars, OwnTypes
<1>6. OwnTypes' /\ MakerInHand'
    BY <1>4, <1>5 DEF OwnTypes, MakerInHand, handlerVars
<1> QED
    BY <1>2, <1>3, <1>6

LEMMA StepType == TypeInv /\ [Next]_vars => TypeInv'
<1>1. ASSUME TypeInv, Next PROVE TypeInv'
    BY <1>1, StepLine, StepKinds, ParentStepType, SharedStepType, LoggedStepType, ChildStepType
       DEF TypeInv
<1>2. ASSUME TypeInv, UNCHANGED vars PROVE TypeInv'
  <2>1. LineInv'
      BY <1>2, StepLine DEF TypeInv
  <2>2. MessengerTypeOK' /\ LoggerTypeOK'
      BY <1>2 DEF vars, messengerVars, loggerVars, TypeInv, MessengerTypeOK, LoggerTypeOK
  <2>3. OwnTypes' /\ MakerInHand'
      BY <1>2 DEF vars, handlerVars, birthVars, childVars, TypeInv, OwnTypes, MakerInHand
  <2> QED
      BY <2>1, <2>2, <2>3 DEF TypeInv
<1> QED
    BY <1>1, <1>2

(***************************************************************************)
(* Every variable of Runtime keeps its type.                               *)
(***************************************************************************)
THEOREM RuntimeTypeCorrect == RuntimeSpec => []RuntimeTypeOK
<1>1. TypeInv => RuntimeTypeOK
    BY DEF TypeInv, LineInv, LineOK, SettingsType, OwnTypes, RuntimeTypeOK
<1> QED
    BY InitType, StepType, <1>1, PTL DEF RuntimeSpec
-----------------------------------------------------------------------------
(***************************************************************************)
(* What a child knows.  The pid is stored before the flag that ends the    *)
(* spin of a clone, so whoever is past it has the pid to put in a message. *)
(***************************************************************************)
KnowOK ==
    /\ \A c \in Pids : <<c, "pid_set">> \in stored => <<c, "real_pid">> \in stored
    /\ ChildKnowsItsPid

KnowInv == TypeInv /\ KnowOK

LEMMA InitKnow == RuntimeInit => KnowInv
<1> SUFFICES ASSUME RuntimeInit PROVE KnowInv
    OBVIOUS
<1>1. KnowOK
    BY ActorFacts DEF RuntimeInit, MessengerInit, KnowOK, ChildKnowsItsPid, Lives
<1> QED
    BY <1>1, InitType DEF KnowInv

\* A sender has the pid of the child that its message is about.
LEMMA OutgoingNamesChild ==
    ASSUME KnowInv, NEW t \in Senders, Sending(t)
    PROVE  Outgoing(t).pid # NoPid
<1>1. NoPid \notin Pids
    BY RuntimeAssumption
<1>2. CASE t \in Pids
  <2>1. t \in knowsPid
      BY <1>2 DEF KnowInv, KnowOK, ChildKnowsItsPid, Sending, Active, Lives
  <2> QED
      BY <1>1, <1>2, <2>1 DEF Outgoing, PidOf
<1>3. CASE t \notin Pids
    BY <1>1, <1>3 DEF Outgoing, Senders
<1> QED
    BY <1>2, <1>3

\* The supervisor stores the pid first; its receivers only take messages away.
LEMMA ParentStepKnow ==
    ASSUME KnowInv, ParentStep
    PROVE  KnowOK'
<1> USE ActorFacts DEF KnowInv, KnowOK, ChildKnowsItsPid, Lives, Go
<1> USE DEF TypeInv, OwnTypes
<1>1. CASE Parse \/ Initialize \/ StartThreads \/ Decides \/ Register \/ Quit
    BY <1>1 DEF Parse, Initialize, StartThreads, Decides, Register, Quit, messengerVars, birthVars,
          childVars, Receivers
<1>2. CASE StoreArg
  <2>1. /\ at' = [at EXCEPT ![Maker] = IF HasStored(inHand[Maker], 1) THEN "log" ELSE "store"]
        /\ UNCHANGED <<queue, knowsPid>>
    <3>1. CASE HasStored(inHand[Maker], 1)
        BY <1>2, <3>1 DEF StoreArg, messengerVars
    <3>2. CASE ~HasStored(inHand[Maker], 1)
        BY <1>2, <3>2 DEF StoreArg, messengerVars
    <3> QED
        BY <3>1, <3>2
  <2>2. \/ stored' = stored \cup {<<inHand[Maker], "real_pid">>}
        \/ /\ <<inHand[Maker], "real_pid">> \in stored
           /\ stored' = stored \cup {<<inHand[Maker], "pid_set">>}
      BY <1>2 DEF StoreArg, HasStored, StoreOrder
  <2> QED
      BY <2>1, <2>2
<1>3. ASSUME NEW c \in Pids, Launch(c) PROVE KnowOK'
    BY <1>3 DEF Launch, ForkMessenger, PreWork
<1>4. CASE MakerLogs \/ CreatorHandles \/ TerminatorHandles
    BY <1>4 DEF MakerLogs, CreatorHandles, TerminatorHandles, messengerVars, birthVars, childVars
<1>5. ASSUME NEW t \in Receivers, ReceiveOk(t) PROVE KnowOK'
  <2>1. t \in Actors /\ t \notin Pids
      BY DEF Receivers
  <2>2. \A j \in DOMAIN queue' : \E k \in DOMAIN queue : queue'[j] = queue[k]
      BY <1>5, <2>1, ReceiveTyped DEF ReceiveOk
  <2>3. at' = [at EXCEPT ![t] = "log"] /\ UNCHANGED <<stored, knowsPid>>
      BY <1>5 DEF ReceiveOk, birthVars, childVars
  <2> QED
      BY <2>1, <2>2, <2>3
<1>6. ASSUME NEW t \in Receivers, ReceiveRetries(t) \/ ReceiverEnds(t) PROVE KnowOK'
    BY <1>6 DEF ReceiveRetries, ReceiveNothing, ReceiverEnds, OnlyQueue, messengerVars, birthVars,
          childVars, Receivers
<1>7. ASSUME NEW p \in Pids, Poll(p) \/ PollEnds(p) PROVE KnowOK'
    BY <1>7 DEF Poll, PollEnds, OnlyQueue, messengerVars, birthVars, childVars
<1>8. CASE Exit \/ LaunchFails \/ Crash
  <2>1. queue' = queue \/ queue' = <<>>
      BY <1>8 DEF Exit, LaunchFails, Crash, RemoveQueue
  <2>2. /\ at' = [t \in Actors |-> IF t \in Threads THEN "none" ELSE at[t]]
        /\ UNCHANGED <<stored, knowsPid>>
      BY <1>8 DEF Exit, LaunchFails, Crash, ParentGone
  <2> QED
      BY <2>1, <2>2
<1> QED
    BY <1>1, <1>2, <1>3, <1>4, <1>5, <1>6, <1>7, <1>8 DEF ParentStep

LEMMA SharedStepKnow ==
    ASSUME KnowInv, SharedStep
    PROVE  KnowOK'
<1> PICK t \in Actors : LogBegin(t) \/ TakeLock(t) \/ (t \in Senders /\ Sends(t))
    BY DEF SharedStep
<1> USE ActorFacts DEF KnowInv, KnowOK, ChildKnowsItsPid, Lives
<1>1. CASE LogBegin(t) \/ TakeLock(t)
    BY <1>1 DEF LogBegin, TakeLock, Lock, OnlyQueue, messengerVars, birthVars, childVars
<1>2. CASE t \in Senders /\ Sends(t)
  <2>1. UNCHANGED <<stored, knowsPid>> /\ Sending(t)
      BY <1>2 DEF Sends, SendOk, SendRetries, GivesUp, SendFails, OnlyQueue, birthVars, childVars
  <2>2. \E place \in Places : at' = [at EXCEPT ![t] = place]
      BY <1>2 DEF Sends, SendOk, SendRetries, GivesUp, SendFails, Go, AfterSend, WhenLost, Places,
            TypeInv, OwnTypes
  <2>3. \A c \in Pids : Lives(c)' => Lives(c) /\ (at'[c] # "spin" => at[c] # "spin")
    <3>1. t \in Pids => Lives(t) /\ at[t] # "spin"
        BY <2>1 DEF Sending, Active
    <3> QED
        BY <2>2, <3>1 DEF TypeInv, OwnTypes
  <2>4. queue' = queue \/ queue' = Append(queue, Outgoing(t))
      BY <1>2 DEF Sends, SendOk, Send, Stored, SendRetries, SendNaps, SendWakes, GivesUp,
            SendTimesOut, SendFails, QueueIsGone
  <2>5. \A i \in DOMAIN queue' : queue'[i].pid # NoPid
      BY <1>2, <2>1, <2>4, OutgoingNamesChild DEF TypeInv, MessengerTypeOK
  <2> QED
      BY <2>1, <2>3, <2>5
<1> QED
    BY <1>1, <1>2

LEMMA LoggedStepKnow ==
    ASSUME KnowInv, LoggedStep
    PROVE  KnowOK'
<1>1. PICK t \in Actors :
         /\ at' = [at EXCEPT ![t] = AfterLog(t)]
         /\ at[t] \in {"warn", "announceLost", "reportLost"}
         /\ t \in Pids => Lives(t)
         /\ UNCHANGED <<commandLineVars, messengerVars, handlerVars, birthVars>>
    BY LoggedFacts
<1> USE ActorFacts DEF KnowInv, KnowOK, ChildKnowsItsPid, Lives
<1>2. UNCHANGED <<queue, stored, knowsPid>>
    BY <1>1 DEF messengerVars, birthVars, childVars
<1>3. \A c \in Pids : Lives(c)' => \/ Lives(c) /\ at[c] # "spin"
                                  \/ at'[c] = at[c]
    BY <1>1 DEF TypeInv, OwnTypes
<1> QED
    BY <1>2, <1>3

\* A clone leaves its spin by the flag; the others have had their pid from getpid().
LEMMA ChildStepKnow ==
    ASSUME KnowInv, ChildStep
    PROVE  KnowOK'
<1> PICK c \in Pids : \/ SpinEnds(c) \/ SaysHello(c) \/ ResetLogger(c) \/ CreateLogger(c)
                      \/ Finishes(c) \/ Killed(c)
    BY DEF ChildStep
<1> USE ActorFacts DEF KnowInv, KnowOK, ChildKnowsItsPid, Lives, Go, TypeInv, OwnTypes
<1>1. CASE SpinEnds(c)
    BY <1>1 DEF SpinEnds, messengerVars
<1>2. CASE Killed(c)
    BY <1>2 DEF Killed, OnlyQueue, messengerVars, birthVars, childVars
<1>3. CASE SaysHello(c) \/ ResetLogger(c) \/ CreateLogger(c) \/ Finishes(c)
    BY <1>3 DEF SaysHello, ResetLogger, CreateLogger, Finishes, messengerVars, birthVars, childVars
<1> QED
    BY <1>1, <1>2, <1>3

\* Every step keeps what children know.
LEMMA KnowStep == KnowInv /\ [Next]_vars => KnowInv'
<1>1. ASSUME KnowInv, Next PROVE KnowOK'
    BY <1>1, StepKinds, ParentStepKnow, SharedStepKnow, LoggedStepKnow, ChildStepKnow
<1>2. ASSUME KnowInv, UNCHANGED vars PROVE KnowOK'
    BY <1>2 DEF vars, messengerVars, birthVars, childVars, KnowInv, KnowOK, ChildKnowsItsPid,
          Lives
<1> QED
    BY <1>1, <1>2, StepType DEF KnowInv

(***************************************************************************)
(* No child works or reports without its pid, and no message is about      *)
(* nobody, whatever the order in which clones and their parent run         *)
(* (process_monitor.cpp:120).                                              *)
(***************************************************************************)
THEOREM ChildrenKnowTheirPid == RuntimeSpec => []ChildKnowsItsPid
<1>1. KnowInv => ChildKnowsItsPid
    BY DEF KnowInv, KnowOK
<1> QED
    BY InitKnow, KnowStep, <1>1, PTL DEF RuntimeSpec
-----------------------------------------------------------------------------
(***************************************************************************)
(* The first children.  Until there are threads nobody but Maker can be    *)
(* inside a lock, and Maker is not while it launches; once there are, the  *)
(* first children have all been made.                                      *)
(***************************************************************************)
Early == startup \in {"options", "initialize", "creating"}

NobodyInside ==
    /\ \A t \in Threads \ {Maker} : at[t] = "none"
    /\ mutexHolder[Parent] = NoThread
    /\ logging \cap Threads \subseteq {Maker}
    /\ Maker \in logging => at[Maker] = "log" /\ OnConsole
    /\ startup # "creating" => at[Maker] = "idle"

FirstMade ==
    /\ startup = "threads" => AllMade
    /\ IsFiniteSet(firstChildren)
    /\ \A c \in firstChildren \cup torn : at[c] # "none"
    /\ FirstGenerationIsClean

FirstInv == TypeInv /\ (Early => NobodyInside) /\ FirstMade

LEMMA InitFirst == RuntimeInit => FirstInv
<1> SUFFICES ASSUME RuntimeInit PROVE FirstInv
    OBVIOUS
<1>1. NobodyInside /\ FirstMade
    BY ActorFacts, FS_EmptySet DEF RuntimeInit, CommandLineInit, MessengerInit, LoggerInit,
         NobodyInside, FirstMade, FirstGenerationIsClean, Processes
<1> QED
    BY <1>1, InitType DEF FirstInv

\* A step that makes no child and takes no lock away leaves the first children as they are.
LEMMA FirstKept ==
    ASSUME FirstInv, UNCHANGED <<firstChildren, torn, settings>>,
           startup' = startup \/ startup' \in {"initialize", "creating", "started", "success",
                                               "failure", "crashed"},
           \A c \in Pids : at[c] # "none" => at'[c] # "none",
           \A c \in Pids : mutexHolder'[c] \notin Threads \/ mutexHolder'[c] = mutexHolder[c]
    PROVE  FirstMade'
BY DEF FirstInv, FirstMade, FirstGenerationIsClean, Stuck, AllMade, TypeInv, OwnTypes

LEMMA ParentStepFirst ==
    ASSUME FirstInv, ParentStep
    PROVE  (Early => NobodyInside)' /\ FirstMade'
<1> USE ActorFacts DEF Go, Early
<1>0. at \in [Actors -> Places] /\ mutexHolder \in [Processes -> Actors \cup {NoThread}]
      /\ firstChildren \subseteq Pids
    BY DEF FirstInv, TypeInv, OwnTypes, MessengerTypeOK
<1>1. CASE Parse
  <2>1. UNCHANGED <<at, logging, mutexHolder, firstChildren, torn>>
        /\ startup = "options" /\ startup' # "creating" /\ startup' # "threads"
      BY <1>1 DEF Parse, ReadOption, EndOfOptions, messengerVars, loggerVars, birthVars, childVars
  <2> QED
      BY <2>1 DEF FirstInv, NobodyInside, FirstMade, FirstGenerationIsClean, Stuck
<1>2. CASE Initialize
  <2>1. UNCHANGED <<at, logging, mutexHolder, firstChildren, torn, settings>>
        /\ startup = "initialize" /\ startup' \in {"creating", "started", "failure"}
      BY <1>2 DEF Initialize, messengerVars, childVars
  <2> QED
      BY <2>1, FirstKept DEF FirstInv, NobodyInside
<1>3. CASE StartThreads
  <2>1. UNCHANGED <<mutexHolder, firstChildren, torn, settings>> /\ startup' = "threads" /\ AllMade
      BY <1>3 DEF StartThreads, messengerVars, birthVars, childVars
  <2>2. \A c \in Pids : at'[c] = at[c]
      BY <1>0, <1>3 DEF StartThreads, Receivers
  <2> QED
      BY <1>0, <2>1, <2>2 DEF FirstInv, TypeInv, OwnTypes, FirstMade, FirstGenerationIsClean,
            Stuck, AllMade
<1>4. CASE Decides \/ StoreArg \/ Register
  <2>1. UNCHANGED <<logging, mutexHolder, firstChildren, torn, settings, startup>>
      BY <1>4 DEF Decides, StoreArg, Register, commandLineVars, messengerVars, loggerVars,
            birthVars, childVars
  <2>2. \A t \in Actors \ {Maker} : at'[t] = at[t]
      BY <1>0, <1>4 DEF Decides, StoreArg, Register
  <2>3. FirstMade'
      BY <2>1, <2>2, FirstKept
  <2>4. Early => startup = "creating" /\ at[Maker] # "log"
      BY <1>4 DEF Decides, MoreWanted, StoreArg, Register, ParentUp
  <2> QED
      BY <2>1, <2>2, <2>3, <2>4 DEF FirstInv, NobodyInside
<1>5. ASSUME NEW c \in Pids, Launch(c) PROVE (Early => NobodyInside)' /\ FirstMade'
  <2>1. /\ UNCHANGED <<logging, settings, startup>> /\ at[c] = "none" /\ at[Maker] = "make"
        /\ startup \in {"creating", "threads"}
        /\ mutexHolder' = [mutexHolder EXCEPT ![c] = mutexHolder[Parent]]
        /\ firstChildren' = IF Cardinality(firstChildren) < settings.numProcesses
                            THEN firstChildren \cup {c} ELSE firstChildren
        /\ torn' = IF logging \cap Threads # {} THEN torn \cup {c} ELSE torn
      BY <1>5 DEF Launch, ForkMessenger, ForkLogger, ParentUp, commandLineVars
  <2>2. at'[c] # "none" /\ \A t \in Actors \ {c, Maker} : at'[t] = at[t]
      BY <1>0, <1>5 DEF Launch, PreWork
  <2>3. c \notin firstChildren /\ c \notin torn
      BY <2>1 DEF FirstInv, FirstMade
  <2>4. (Early => NobodyInside)'
      BY <1>0, <2>1, <2>2 DEF FirstInv, NobodyInside, Processes
  <2>5. CASE startup = "creating"
    <3>1. mutexHolder[Parent] = NoThread /\ logging \cap Threads = {}
        BY <2>1, <2>5 DEF FirstInv, NobodyInside
    <3>2. torn' = torn /\ ~Stuck(c)'
        BY <1>0, <2>1, <3>1, ThreadAssumption DEF Stuck, Processes
    <3>3. \A q \in Pids \ {c} : mutexHolder'[q] = mutexHolder[q]
        BY <1>0, <2>1 DEF Processes
    <3>4. FirstMade'
        BY <1>0, <2>1, <2>2, <2>3, <2>5, <3>2, <3>3, FS_AddElement DEF FirstInv, FirstMade,
              FirstGenerationIsClean, Stuck, TypeInv, OwnTypes
    <3> QED
        BY <2>4, <3>4
  <2>6. CASE startup = "threads"
    <3>1. firstChildren' = firstChildren
      <4>1. Cardinality(firstChildren) >= settings.numProcesses
            /\ settings.numProcesses \in Int
          BY <2>6 DEF FirstInv, FirstMade, AllMade, TypeInv, LineInv, LineOK, SettingsType
      <4>2. Cardinality(firstChildren) \in Nat
          BY FS_CardinalityType DEF FirstInv, FirstMade
      <4> QED
          BY <2>1, <4>1, <4>2
    <3>2. \A q \in Pids \ {c} : mutexHolder'[q] = mutexHolder[q]
        BY <1>0, <2>1 DEF Processes
    <3>3. FirstMade'
        BY <1>0, <2>1, <2>2, <2>3, <2>6, <3>1, <3>2 DEF FirstInv, FirstMade, AllMade,
              FirstGenerationIsClean, Stuck, TypeInv, OwnTypes
    <3> QED
        BY <2>4, <3>3
  <2> QED
      BY <2>1, <2>5, <2>6
<1>6. CASE MakerLogs
  <2>1. UNCHANGED <<mutexHolder, firstChildren, torn, settings, startup>>
        /\ startup \in {"creating", "threads"}
      BY <1>6 DEF MakerLogs, commandLineVars, messengerVars, birthVars, childVars, ParentUp
  <2>2. at' = [at EXCEPT ![Maker] = "register"]
        /\ logging' = IF OnConsole THEN logging \ {Maker} ELSE logging
      BY <1>6 DEF MakerLogs, LogEnd, WriteAndPost, loggerVars
  <2>3. FirstMade'
      BY <1>0, <2>1, <2>2, FirstKept
  <2> QED
      BY <1>0, <2>1, <2>2, <2>3 DEF FirstInv, NobodyInside
<1>7. CASE \/ CreatorHandles \/ TerminatorHandles
           \/ \E t \in Receivers : ReceiveOk(t) \/ ReceiveRetries(t) \/ ReceiverEnds(t)
           \/ \E p \in Pids : Poll(p) \/ PollEnds(p)
           \/ Quit
  <2>1. ~Early
      BY <1>7 DEF FirstInv, NobodyInside, CreatorHandles, TerminatorHandles, ReceiveOk,
            ReceiveRetries, ReceiverEnds, Receiving, Receivers, Poll, PollEnds, Quit
  <2>2. UNCHANGED <<firstChildren, torn, settings, startup>>
      BY <1>7 DEF CreatorHandles, TerminatorHandles, ReceiveOk, ReceiveRetries, ReceiverEnds,
            Poll, PollEnds, Quit, OnlyQueue, commandLineVars, birthVars, childVars
  <2>3. \A c \in Pids : at[c] # "none" => at'[c] # "none"
      BY <1>0, <1>7 DEF CreatorHandles, TerminatorHandles, ReceiveOk, ReceiveRetries,
            ReceiverEnds, Poll, PollEnds, Quit
  <2>4. \A c \in Pids : mutexHolder'[c] = mutexHolder[c]
    <3>1. \A t \in Receivers : ProcessOf(t) = Parent
        BY ProcessOfActor DEF Receivers
    <3> QED
        BY <1>0, <1>7, <3>1 DEF CreatorHandles, TerminatorHandles, ReceiveOk, Receive,
              ReceiveRetries, ReceiveNothing, Unlock, ReceiverEnds, Poll, PollEnds, Quit,
              messengerVars, Processes
  <2> QED
      BY <2>1, <2>2, <2>3, <2>4, FirstKept
<1>8. CASE Exit \/ LaunchFails \/ Crash
  <2>1. /\ UNCHANGED <<firstChildren, torn, settings>>
        /\ startup' \in {"success", "failure", "crashed"}
        /\ at' = [t \in Actors |-> IF t \in Threads THEN "none" ELSE at[t]]
        /\ mutexHolder' = [mutexHolder EXCEPT ![Parent] = NoThread]
      BY <1>8 DEF Exit, LaunchFails, Crash, ParentGone, ForgetCalls
  <2>2. \A c \in Pids : mutexHolder'[c] = mutexHolder[c] /\ at'[c] = at[c]
      BY <1>0, <2>1 DEF Processes
  <2> QED
      BY <2>1, <2>2, FirstKept
<1> QED
    BY <1>1, <1>2, <1>3, <1>4, <1>5, <1>6, <1>7, <1>8 DEF ParentStep

\* A child holds no mutex but its own copy; a thread can be inside only with its place.
LEMMA SharedStepFirst ==
    ASSUME FirstInv, SharedStep
    PROVE  (Early => NobodyInside)' /\ FirstMade'
<1> PICK t \in Actors : LogBegin(t) \/ TakeLock(t) \/ (t \in Senders /\ Sends(t))
    BY DEF SharedStep
<1> USE ActorFacts DEF Early
<1>0. at \in [Actors -> Places] /\ mutexHolder \in [Processes -> Actors \cup {NoThread}]
    BY DEF FirstInv, TypeInv, OwnTypes, MessengerTypeOK
<1>1. UNCHANGED <<firstChildren, torn, settings, startup>>
    BY DEF LogBegin, TakeLock, Sends, SendOk, SendRetries, GivesUp, SendFails, OnlyQueue,
         commandLineVars, birthVars, childVars
<1>2. CASE LogBegin(t)
  <2>1. /\ UNCHANGED <<at, mutexHolder>> /\ logging' = logging \cup {t} /\ OnConsole
        /\ at[t] \in LogPlaces
      BY <1>2 DEF LogBegin, SemWait, messengerVars
  <2>2. FirstMade'
      BY <1>1, <2>1, FirstKept
  <2>3. Early => t \in Pids \/ (t = Maker /\ at[t] = "log")
    <3>1. at[Maker] \in MakerPlaces
        BY DEF FirstInv, TypeInv, MakerInHand
    <3>2. at[t] # "none"
        BY <2>1 DEF LogPlaces
    <3> QED
        BY <2>1, <3>1, <3>2 DEF FirstInv, NobodyInside, LogPlaces, MakerPlaces
  <2> QED
      BY <1>1, <2>1, <2>2, <2>3 DEF FirstInv, NobodyInside, OnConsole
<1>3. CASE TakeLock(t) \/ (t \in Senders /\ Sends(t))
  <2>1. logging' = logging /\ (Sending(t) \/ Receiving(t))
      BY <1>3 DEF TakeLock, Sends, SendOk, SendRetries, GivesUp, SendFails, OnlyQueue, loggerVars
  <2>2. \/ at' = at
        \/ \E place \in {AfterSend(t), WhenLost(t)} : at' = [at EXCEPT ![t] = place]
      BY <1>3 DEF TakeLock, Sends, SendOk, SendRetries, GivesUp, SendFails, Go
  <2>3. \/ mutexHolder' = mutexHolder
        \/ \E h \in {t, NoThread} : mutexHolder' = [mutexHolder EXCEPT ![ProcessOf(t)] = h]
      BY <1>3 DEF TakeLock, Lock, Sends, SendOk, Send, SendRetries, SendNaps, SendWakes, GivesUp,
            SendTimesOut, SendFails, QueueIsGone, Unlock
  <2>4. \A c \in Pids : at[c] # "none" => at'[c] # "none"
    <3>1. AfterSend(t) # "none" /\ WhenLost(t) # "none"
        BY DEF AfterSend, WhenLost
    <3> QED
        BY <1>0, <2>2, <3>1
  <2>5. \A c \in Pids : mutexHolder'[c] \notin Threads \/ mutexHolder'[c] = mutexHolder[c]
    <3>1. NoThread \notin Threads
        BY ThreadAssumption
    <3>2. \A c \in Pids : ProcessOf(t) = c => t = c
        BY DEF ProcessOf
    <3> QED
        BY <1>0, <2>3, <3>1, <3>2 DEF Processes
  <2>6. FirstMade'
      BY <1>1, <2>4, <2>5, FirstKept
  <2>7. Early => t \in Pids
    <3>1. at[Maker] \in MakerPlaces
        BY DEF FirstInv, TypeInv, MakerInHand
    <3> QED
        BY <2>1, <3>1 DEF FirstInv, NobodyInside, MakerPlaces, Sending, Receiving
  <2>8. Early => NobodyInside'
    <3>1. Early => mutexHolder'[Parent] = mutexHolder[Parent] /\ \A s \in Threads : at'[s] = at[s]
        BY <1>0, <2>2, <2>3, <2>7, ProcessOfActor DEF Processes
    <3> QED
        BY <1>1, <2>1, <3>1 DEF FirstInv, NobodyInside, OnConsole
  <2> QED
      BY <1>1, <2>6, <2>8
<1> QED
    BY <1>2, <1>3

LEMMA LoggedStepFirst ==
    ASSUME FirstInv, LoggedStep
    PROVE  (Early => NobodyInside)' /\ FirstMade'
<1>1. PICK t \in Actors :
         /\ LogEnd(t)
         /\ at' = [at EXCEPT ![t] = AfterLog(t)]
         /\ at[t] \in {"warn", "announceLost", "reportLost"}
         /\ t \notin Pids => \E p \in Pids : t = MonitorOf[p]
         /\ UNCHANGED <<commandLineVars, messengerVars, handlerVars, birthVars>>
    BY LoggedFacts
<1> USE ActorFacts DEF Early
<1>2. UNCHANGED <<firstChildren, torn, settings, startup, mutexHolder>>
    BY <1>1 DEF commandLineVars, messengerVars, birthVars, childVars
<1>3. at \in [Actors -> Places]
    BY DEF FirstInv, TypeInv, OwnTypes
<1>4. AfterLog(t) # "none"
    BY DEF AfterLog, AfterSend
<1>5. FirstMade'
    BY <1>1, <1>2, <1>3, <1>4, FirstKept
<1>6. Early => t \in Pids
    BY <1>1 DEF FirstInv, NobodyInside
<1>7. Early => \A s \in Threads : at'[s] = at[s]
    BY <1>1, <1>3, <1>6
<1>8. logging' = logging \/ logging' = logging \ {t}
    BY <1>1 DEF LogEnd, WriteAndPost, loggerVars
<1> QED
    BY <1>2, <1>5, <1>6, <1>7, <1>8 DEF FirstInv, NobodyInside, OnConsole

LEMMA ChildStepFirst ==
    ASSUME FirstInv, ChildStep
    PROVE  (Early => NobodyInside)' /\ FirstMade'
<1> PICK c \in Pids : \/ SpinEnds(c) \/ SaysHello(c) \/ ResetLogger(c) \/ CreateLogger(c)
                      \/ Finishes(c) \/ Killed(c)
    BY DEF ChildStep
<1> USE ActorFacts DEF Early
<1>1. UNCHANGED <<firstChildren, torn, settings, startup, mutexHolder>>
    BY DEF SpinEnds, SaysHello, ResetLogger, CreateLogger, Finishes, Killed, OnlyQueue,
         commandLineVars, messengerVars, birthVars, childVars
<1>2. \E place \in Places \ {"none"} : at' = [at EXCEPT ![c] = place]
    BY DEF SpinEnds, SaysHello, ResetLogger, CreateLogger, Finishes, Killed, Go, PreWork, Places
<1>3. logging' = logging \/ logging' = logging \ {c}
    BY DEF SpinEnds, SaysHello, ResetLogger, ResetInstance, CreateLogger, OpenSemaphore, Finishes,
         Killed, OnlyQueue, LogEnd, WriteAndPost, loggerVars
<1>4. /\ \A q \in Pids : at[q] # "none" => at'[q] # "none"
      /\ \A t \in Threads : at'[t] = at[t]
    BY <1>2 DEF FirstInv, TypeInv, OwnTypes
<1>5. FirstMade'
    BY <1>1, <1>4, FirstKept
<1> QED
    BY <1>1, <1>3, <1>4, <1>5 DEF FirstInv, NobodyInside, OnConsole

(***************************************************************************)
(* No child of initializeController has copied a held mutex or a buffer    *)
(* that was being written (process_monitor.cpp:211).                       *)
(***************************************************************************)
THEOREM FirstGenerationStaysClean == RuntimeSpec => []FirstGenerationIsClean
<1>1. FirstInv /\ [Next]_vars => FirstInv'
  <2>1. ASSUME FirstInv, Next PROVE (Early => NobodyInside)' /\ FirstMade'
      BY <2>1, StepKinds, ParentStepFirst, SharedStepFirst, LoggedStepFirst, ChildStepFirst
  <2>2. ASSUME FirstInv, UNCHANGED vars PROVE (Early => NobodyInside)' /\ FirstMade'
      BY <2>2 DEF vars, commandLineVars, messengerVars, loggerVars, birthVars, childVars, Early,
            FirstInv, NobodyInside, FirstMade, FirstGenerationIsClean, Stuck, AllMade, OnConsole
  <2> QED
      BY <2>1, <2>2, StepType DEF FirstInv
<1>2. FirstInv => FirstGenerationIsClean
    BY DEF FirstInv, FirstMade
<1> QED
    BY InitFirst, <1>1, <1>2, PTL DEF RuntimeSpec
-----------------------------------------------------------------------------
(***************************************************************************)
(* The last word of a child.  With one process the limit is one message,   *)
(* so each entry is written out, and before it no child is done.           *)
(***************************************************************************)
Beginning == startup \in {"options", "initialize"}

OneMessage == OnConsole /\ settings.numProcesses = 1 /\ ~settings.complained

Done(c) == at[c] \in {"report", "reportLost", "exited"}

LastWordOK ==
    /\ Beginning => bufferLimit = 0 /\ \A c \in Pids : at[c] = "none"
    /\ OneMessage => bufferLimit <= 1
    /\ SingleChildLogsAll

LastWordInv == TypeInv /\ LastWordOK

LEMMA InitLastWord == RuntimeInit => LastWordInv
<1> SUFFICES ASSUME RuntimeInit PROVE LastWordInv
    OBVIOUS
<1>1. LastWordOK
    BY ActorFacts DEF RuntimeInit, CommandLineInit, LoggerInit, LastWordOK, Beginning,
         SingleChildLogsAll
<1> QED
    BY <1>1, InitType DEF LastWordInv

\* A step that ends the work of no child, and takes nothing off the console.
LEMMA LastWordKept ==
    ASSUME LastWordInv, ~Beginning, ~Beginning', UNCHANGED <<settings, bufferLimit>>,
           printed \subseteq printed',
           \A c \in Pids : Done(c)' => Done(c)
    PROVE  LastWordOK'
BY DEF LastWordInv, LastWordOK, OneMessage, SingleChildLogsAll, OnConsole, Done

\* A log entry lets nothing disappear, and with a limit of one it is written out.
LEMMA LastWordLogged ==
    ASSUME LastWordInv, NEW t \in Actors, LogEnd(t)
    PROVE  /\ bufferLimit' = bufferLimit /\ printed \subseteq printed'
           /\ OnConsole /\ bufferLimit <= 1 /\ Entry(t) \in Pids => Entry(t) \in printed'
<1>1. CASE ~OnConsole
    BY <1>1 DEF LogEnd, loggerVars
<1>2. CASE OnConsole
  <2> DEFINE p == ProcessOf(t)
             b == Append(buffer[p], Entry(t))
  <2>1. buffer[p] \in Seq(Processes) /\ Entry(t) \in Processes
      BY ActorFacts, ProcessOfActor DEF LastWordInv, TypeInv, LoggerTypeOK, Entry, Processes
  <2>2. Len(b) \in Nat /\ Len(b) >= 1 /\ b[Len(b)] = Entry(t) /\ Len(b) \in DOMAIN b
      BY <2>1
  <2>3. bufferLimit <= 1 => Flushes(b)
      BY <2>2 DEF Flushes, LastWordInv, TypeInv, LoggerTypeOK
  <2>4. Entry(t) \in Pids => Entry(t) \in LastMessages(b)
      BY <2>2 DEF LastMessages
  <2>5. bufferLimit' = bufferLimit
        /\ printed' = IF Flushes(b) THEN printed \cup LastMessages(b) ELSE printed
      BY <1>2 DEF LogEnd, WriteAndPost
  <2> QED
      BY <2>3, <2>4, <2>5
<1> QED
    BY <1>1, <1>2

LEMMA ParentStepLastWord ==
    ASSUME LastWordInv, ParentStep
    PROVE  LastWordOK'
<1> USE ActorFacts DEF Go, Beginning, Done
<1>0. at \in [Actors -> Places]
    BY DEF LastWordInv, TypeInv, OwnTypes
<1>1. CASE Parse
  <2>1. UNCHANGED <<at, bufferLimit>> /\ Beginning
      BY <1>1 DEF Parse, ReadOption, EndOfOptions, loggerVars
  <2> QED
      BY <2>1 DEF LastWordInv, LastWordOK, SingleChildLogsAll
<1>2. CASE Initialize
  <2>1. UNCHANGED <<at, settings>> /\ startup = "initialize" /\ ~Beginning'
        /\ FirstUse(IF settings.complained THEN DefaultProcesses ELSE settings.numProcesses)
      BY <1>2 DEF Initialize
  <2>2. \A c \in Pids : at[c] = "none"
      BY <2>1 DEF LastWordInv, LastWordOK
  <2>3. bufferLimit = 0
      BY <2>1 DEF LastWordInv, LastWordOK
  <2>4. OneMessage' => bufferLimit' <= 1
      BY <2>1, <2>3 DEF FirstUse, OneMessage
  <2> QED
      BY <2>1, <2>2, <2>4 DEF LastWordOK, SingleChildLogsAll
<1>3. ASSUME ~Parse, ~Initialize PROVE ~Beginning /\ ~Beginning' /\ settings' = settings
    BY <1>3 DEF ParentStep, StartThreads, Decides, MoreWanted, StoreArg, MakerLogs, Register,
          Launch, CreatorHandles, TerminatorHandles, ReceiveOk, ReceiveRetries, ReceiverEnds,
          Receiving, Poll, PollEnds, Quit, Exit, LaunchFails, Crash, ParentGone, ParentUp,
          OnlyQueue, commandLineVars
<1>4. CASE ~Parse /\ ~Initialize
  <2>1. ~Beginning /\ ~Beginning' /\ settings' = settings
      BY <1>3, <1>4
  <2>2. CASE MakerLogs \/ CreatorHandles \/ TerminatorHandles
    <3>1. bufferLimit' = bufferLimit /\ printed \subseteq printed'
        BY <2>2, LastWordLogged DEF MakerLogs, CreatorHandles, TerminatorHandles
    <3>2. \A c \in Pids : Done(c)' => Done(c)
        BY <1>0, <2>2 DEF MakerLogs, CreatorHandles, TerminatorHandles
    <3> QED
        BY <2>1, <3>1, <3>2, LastWordKept
  <2>3. CASE \/ StartThreads \/ Decides \/ StoreArg \/ Register \/ Quit \/ Crash
             \/ Exit \/ LaunchFails
    <3>1. bufferLimit' = bufferLimit /\ printed \subseteq printed'
        BY <2>3 DEF StartThreads, Decides, StoreArg, Register, Quit, Crash, Exit, LaunchFails,
              CloseLogger, loggerVars
    <3>2. \A c \in Pids : Done(c)' => Done(c)
        BY <1>0, <2>3 DEF StartThreads, Decides, StoreArg, Register, Quit, Crash, Exit,
              LaunchFails, ParentGone, Receivers
    <3> QED
        BY <2>1, <3>1, <3>2, LastWordKept
  <2>4. CASE \E c \in Pids : Launch(c)
    <3>1. bufferLimit' = bufferLimit /\ printed \subseteq printed'
        BY <2>4 DEF Launch, ForkLogger
    <3>2. \A c \in Pids : Done(c)' => Done(c)
        BY <1>0, <2>4 DEF Launch, PreWork
    <3> QED
        BY <2>1, <3>1, <3>2, LastWordKept
  <2>5. CASE \/ \E t \in Receivers : ReceiveOk(t) \/ ReceiveRetries(t) \/ ReceiverEnds(t)
             \/ \E p \in Pids : Poll(p) \/ PollEnds(p)
    <3>1. bufferLimit' = bufferLimit /\ printed \subseteq printed'
        BY <2>5 DEF ReceiveOk, ReceiveRetries, ReceiverEnds, Poll, PollEnds, OnlyQueue, loggerVars
    <3>2. \A c \in Pids : Done(c)' => Done(c)
        BY <1>0, <2>5 DEF ReceiveOk, ReceiveRetries, ReceiverEnds, Poll, PollEnds, Receivers
    <3> QED
        BY <2>1, <3>1, <3>2, LastWordKept
  <2> QED
      BY <1>4, <2>2, <2>3, <2>4, <2>5 DEF ParentStep
<1> QED
    BY <1>1, <1>2, <1>4

LEMMA SharedStepLastWord ==
    ASSUME LastWordInv, SharedStep
    PROVE  LastWordOK'
<1> PICK t \in Actors : LogBegin(t) \/ TakeLock(t) \/ (t \in Senders /\ Sends(t))
    BY DEF SharedStep
<1> USE ActorFacts DEF Done
<1>0. at \in [Actors -> Places]
    BY DEF LastWordInv, TypeInv, OwnTypes
<1>1. UNCHANGED <<startup, settings>>
    BY DEF LogBegin, TakeLock, Sends, SendOk, SendRetries, GivesUp, SendFails, OnlyQueue,
         commandLineVars
<1>2. UNCHANGED <<bufferLimit, printed>>
    BY DEF LogBegin, SemWait, TakeLock, Sends, SendOk, SendRetries, GivesUp, SendFails, OnlyQueue,
         loggerVars
<1>3. ~Beginning
  <2>1. Active(t) \/ ParentUp
      BY DEF LogBegin, TakeLock, Sends, SendOk, SendRetries, GivesUp, SendFails, Sending, Receiving
  <2> QED
      BY <2>1 DEF LastWordInv, LastWordOK, Active, Lives, ParentUp, Beginning
<1>4. \A c \in Pids : Done(c)' => Done(c)
  <2>1. \/ at' = at
        \/ /\ \E place \in {AfterSend(t), WhenLost(t)} : at' = [at EXCEPT ![t] = place]
           /\ Sending(t)
      BY DEF LogBegin, TakeLock, Sends, SendOk, SendRetries, GivesUp, SendFails, Go
  <2>2. CASE Sending(t) /\ at[t] = "report"
      BY <1>0, <2>1, <2>2
  <2>3. CASE Sending(t) /\ at[t] # "report"
    <3>1. at[t] = "announce"
        BY <2>3 DEF Sending
    <3>2. t \in Pids => AfterSend(t) = "work" /\ WhenLost(t) = "announceLost"
        BY <3>1 DEF AfterSend, WhenLost
    <3> QED
        BY <1>0, <2>1, <3>2
  <2> QED
      BY <1>0, <2>1, <2>2, <2>3
<1> QED
    BY <1>1, <1>2, <1>3, <1>4, LastWordKept DEF Beginning

LEMMA LoggedStepLastWord ==
    ASSUME LastWordInv, LoggedStep
    PROVE  LastWordOK'
<1>1. PICK t \in Actors :
         /\ LogEnd(t)
         /\ at' = [at EXCEPT ![t] = AfterLog(t)]
         /\ at[t] \in {"warn", "announceLost", "reportLost"}
         /\ t \in Pids => at[t] # "warn" /\ Lives(t)
         /\ t \notin Pids => ParentUp
         /\ UNCHANGED <<commandLineVars, messengerVars, handlerVars, birthVars>>
    BY LoggedFacts
<1> USE ActorFacts DEF Done
<1>2. at \in [Actors -> Places]
    BY DEF LastWordInv, TypeInv, OwnTypes
<1>3. UNCHANGED <<startup, settings>>
    BY <1>1 DEF commandLineVars
<1>4. ~Beginning
    BY <1>1 DEF LastWordInv, LastWordOK, Lives, ParentUp, Beginning
<1>5. \A c \in Pids : Done(c)' => Done(c)
    BY <1>1, <1>2, LoggedPlaces
<1> QED
    BY <1>1, <1>3, <1>4, <1>5, LastWordLogged, LastWordKept DEF Beginning

LEMMA ChildStepLastWord ==
    ASSUME LastWordInv, ChildStep
    PROVE  LastWordOK'
<1> PICK c \in Pids : \/ SpinEnds(c) \/ SaysHello(c) \/ ResetLogger(c) \/ CreateLogger(c)
                      \/ Finishes(c) \/ Killed(c)
    BY DEF ChildStep
<1> USE ActorFacts DEF Done, Go
<1>0. at \in [Actors -> Places]
    BY DEF LastWordInv, TypeInv, OwnTypes
<1>1. UNCHANGED <<startup, settings>>
    BY DEF SpinEnds, SaysHello, ResetLogger, CreateLogger, Finishes, Killed, OnlyQueue,
         commandLineVars
<1>2. bufferLimit' = bufferLimit /\ printed \subseteq printed'
  <2>1. CASE SaysHello(c) \/ Finishes(c)
      BY <2>1, LastWordLogged DEF SaysHello, Finishes
  <2>2. CASE SpinEnds(c) \/ ResetLogger(c) \/ CreateLogger(c) \/ Killed(c)
      BY <2>2 DEF SpinEnds, ResetLogger, ResetInstance, CreateLogger, OpenSemaphore, Killed,
            OnlyQueue, loggerVars
  <2> QED
      BY <2>1, <2>2
<1>3. ~Beginning
    BY DEF LastWordInv, LastWordOK, SpinEnds, SaysHello, ResetLogger, CreateLogger, Finishes,
         Killed, Lives
<1>4. CASE ~Finishes(c)
  <2>1. \A q \in Pids : Done(q)' => Done(q)
      BY <1>0, <1>4 DEF SpinEnds, SaysHello, ResetLogger, CreateLogger, Killed, PreWork
  <2> QED
      BY <1>1, <1>2, <1>3, <2>1, LastWordKept DEF Beginning
<1>5. CASE Finishes(c)
  <2>1. LogEnd(c) /\ Entry(c) = c /\ \A q \in Pids \ {c} : at'[q] = at[q]
      BY <1>0, <1>5 DEF Finishes, Entry
  <2>2. OneMessage => c \in printed'
      BY <2>1, LastWordLogged DEF LastWordInv, LastWordOK, OneMessage
  <2>3. SingleChildLogsAll'
      BY <1>1, <1>2, <2>1, <2>2 DEF LastWordInv, LastWordOK, SingleChildLogsAll, OneMessage,
            OnConsole
  <2> QED
      BY <1>1, <1>2, <1>3, <2>3 DEF LastWordInv, LastWordOK, OneMessage, OnConsole, Beginning
<1> QED
    BY <1>4, <1>5

(***************************************************************************)
(* With one process the report of a child has reached the console before   *)
(* the child announces its end (console_logger.cpp:41).                    *)
(***************************************************************************)
THEOREM SingleChildAlwaysLogs == RuntimeSpec => []SingleChildLogsAll
<1>1. LastWordInv /\ [Next]_vars => LastWordInv'
  <2>1. ASSUME LastWordInv, Next PROVE LastWordOK'
      BY <2>1, StepKinds, ParentStepLastWord, SharedStepLastWord, LoggedStepLastWord,
         ChildStepLastWord
  <2>2. ASSUME LastWordInv, UNCHANGED vars PROVE LastWordOK'
      BY <2>2 DEF vars, commandLineVars, loggerVars, LastWordInv, LastWordOK, OneMessage,
            Beginning, SingleChildLogsAll, OnConsole
  <2> QED
      BY <2>1, <2>2, StepType DEF LastWordInv
<1>2. LastWordInv => SingleChildLogsAll
    BY DEF LastWordInv, LastWordOK
<1> QED
    BY InitLastWord, <1>1, <1>2, PTL DEF RuntimeSpec
=============================================================================
