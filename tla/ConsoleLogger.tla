---------------------------- MODULE ConsoleLogger ----------------------------
(***************************************************************************)
(* Output to the console: the named semaphore "/console_logger_sem" and    *)
(* the buffer behind it.  ConsoleLogger::sem_ is a static that fork()      *)
(* copies; the semaphore it points to is shared memory.  A semaphore is    *)
(* named by the process that created it.                                   *)
(***************************************************************************)
EXTENDS ProcessThreads, Naturals, Sequences

VARIABLES
    semName,      \* the semaphore the name stands for, or NoSemaphore
    semValue,     \* the value of each semaphore
    sem_,         \* the semaphore each process uses
    logging,      \* the actors between sem_wait and sem_post, dead ones too
    buffer,       \* BufferedConsoleLogger::buffer_ of each process
    bufferLimit,  \* BufferedConsoleLogger::bufferLimit_, 0 before the first use
    printed       \* the children whose last message has reached the console

loggerVars == <<semName, semValue, sem_, logging, buffer, bufferLimit, printed>>

\* A message is named by the process it is about.
LoggerTypeOK ==
    /\ semName \in Processes \cup {NoSemaphore}
    /\ semValue \in [Processes -> Nat]
    /\ sem_ \in [Processes -> Processes]
    /\ logging \subseteq Actors
    /\ buffer \in [Processes -> Seq(Processes)]
    /\ bufferLimit \in Nat
    /\ printed \subseteq Pids

\* The static ConsoleLogger objects open the semaphore before main() begins.
LoggerInit ==
    /\ semName = Parent
    /\ semValue = [s \in Processes |-> IF s = Parent THEN 1 ELSE 0]
    /\ sem_ = [p \in Processes |-> Parent]
    /\ logging = {}
    /\ buffer = [p \in Processes |-> <<>>]
    /\ bufferLimit = 0
    /\ printed = {}

LastMessages(s) == {s[i] : i \in DOMAIN s} \cap Pids

Semaphore(t) == sem_[ProcessOf(t)]

SemWait(t) ==
    /\ t \notin logging
    /\ semValue[Semaphore(t)] > 0
    /\ semValue' = [semValue EXCEPT ![Semaphore(t)] = @ - 1]
    /\ logging' = logging \cup {t}
    /\ UNCHANGED <<semName, sem_, buffer, bufferLimit, printed>>

(***************************************************************************)
(* logger.log(message); sem_post(sem_).  The buffer goes to the console    *)
(* when it has reached its limit.                                          *)
(***************************************************************************)
\* Mutant: the limit must be exceeded.
FlushesLate(b) == Len(b) > bufferLimit

Flushes(b) == Len(b) >= bufferLimit

\* Mutant: sem_post is forgotten when the buffer is not written out.
SemPostOnFlushOnly(t, b) ==
    semValue' = [semValue EXCEPT ![Semaphore(t)] = IF Flushes(b) THEN @ + 1 ELSE @]

SemPost(t, b) == semValue' = [semValue EXCEPT ![Semaphore(t)] = @ + 1]

WriteAndPost(t, message) ==
    LET p == ProcessOf(t)
        b == Append(buffer[p], message)
    IN  /\ t \in logging
        /\ buffer' = [buffer EXCEPT ![p] = IF Flushes(b) THEN <<>> ELSE b]
        /\ printed' = IF Flushes(b) THEN printed \cup LastMessages(b) ELSE printed
        /\ SemPost(t, b)
        /\ logging' = logging \ {t}
        /\ UNCHANGED <<semName, sem_, bufferLimit>>

\* The buffer is a function static: its limit is numProcesses() at the first message.
FirstUse(numProcesses) ==
    bufferLimit' = IF bufferLimit = 0 THEN numProcesses ELSE bufferLimit

\* fork() and clone() copy the handle and the buffer.
ForkLogger(c) ==
    /\ sem_' = [sem_ EXCEPT ![c] = sem_[Parent]]
    /\ buffer' = [buffer EXCEPT ![c] = buffer[Parent]]
    /\ UNCHANGED <<semName, semValue, logging, bufferLimit, printed>>

(***************************************************************************)
(* LoggerManager::createLoggerType in a child.  Destroying the instance it *)
(* inherited unlinks the name; the new instance opens the name, or creates *)
(* another semaphore under it.                                             *)
(***************************************************************************)
ResetInstance ==
    /\ semName' = NoSemaphore
    /\ UNCHANGED <<semValue, sem_, logging, buffer, bufferLimit, printed>>

\* Mutant: the child goes on with the semaphore it has.
OpenKeepsHandle(c) == UNCHANGED loggerVars

OpenSemaphore(c) ==
    /\ semName' = IF semName = NoSemaphore THEN c ELSE semName
    /\ sem_' = [sem_ EXCEPT ![c] = semName']
    /\ semValue' = [semValue EXCEPT ![c] = IF semName = NoSemaphore THEN 1 ELSE @]
    /\ UNCHANGED <<logging, buffer, bufferLimit, printed>>

\* exit() of the supervisor: the buffer is written, the static loggers unlink the name.
CloseLogger ==
    /\ printed' = printed \cup LastMessages(buffer[Parent])
    /\ buffer' = [buffer EXCEPT ![Parent] = <<>>]
    /\ semName' = NoSemaphore
    /\ UNCHANGED <<semValue, sem_, logging, bufferLimit>>
-----------------------------------------------------------------------------
\* Whoever is inside on a semaphore, alive or killed there.
Holders(s) == {t \in logging : Semaphore(t) = s}
=============================================================================
