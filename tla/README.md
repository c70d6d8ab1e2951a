# SecureProcessManager in TLA+

A verification development kept beside the C++ program SecureProcessManager, a process
supervisor: it forks a fixed number of children (`-n`), watches each with a thread of its own,
replaces those that end, and obeys commands typed on a console. The modules here model the
threads of the program, its children, the message queue between them and the signals that fly
about. TLC checks them on small instances; TLAPS proves all their properties but the liveness ones
for every value of the constants, from hypotheses that section 4 names.

Source paths are relative to the repository.

## 1. The system

### 1.1 Components, their state and their operations

| Component | State | Operations that change it |
|---|---|---|
| `MainController` (`src/maincontroller`) | `counter_`, the threads `monitoringThread`, `terminationThread`, `restoreHandlerCountThread`, `mtx`, `cv` | `createHandlers`, `restoreHandlerCount`, `CreateMonitoringThreads`, `MonitorProcessTermination`, `processLifecycleLoop`, `stop` |
| `ProcessController` (`src/processcontroller`) | `running_`, `respawn_`, `numProcesses_`, `processType_` | `terminateAll`, `intAll`, `killAll`, the same by pid, `pauseMonitoring`, `continueMonitoring` |
| `ProcessRegistry` | `handlers_`, `deceasedProcesses_`, both under `mutex_` | `addMonitorProcess`, `markProcessAsDeceased`; `handlers()` and `findMonitor` read |
| `ProcessMonitor` (`src/processmonitors`) | `pid_`, `monitor_`, a detached thread | `launchChildProcess`, `createMonitorProcessThread`, `monitorProcessThread` |
| Children: `Process`, `ProcessSimulator`, `NetworkProcess` over `BaseProcess` (`src/process`) | `continue_`, `exitCode_` (one copy per process), the process table entry | `preWork`, `work`, `postWork`, `signalHandler` |
| `SystemProcess`, `SystemMonitor` | `pid_`, a detached worker | `work`, `getPid`, `SpawnChild::spawnProcess`, `postWork` |
| `Communicator`, `Messenger` (`src/concurrency`) | a System V queue that outlives the program, a mutex | `sendMessage`, `receiveMessage` |
| `Synchro` | `pauseMonitoring_` | set by the console |
| `doCommand`, `CLIController`, `ThreadController` (`src/consolecontroller`, `src/tools`) | the reader thread, `stopFlag`, `stopped` | `run`, `runThread`, `stop`, one branch per command |
| `api`, `main` | none | call the others in order |
| `parseArguments`, `ConfigReader` (`src/consolecontroller`, `src/config`) | settings, the map of the file, the arguments of a system process | one case per option, `parseConfigFile`, `Arguments::populate`; once, before there are threads |
| `ConsoleLogger`, `BufferedConsoleLogger`, `LoggerManager` (`src/logger`) | the named semaphore, `sem_`, `buffer_` | `outputLog`, `createLoggerType`, the destructors |
| `FileLogger`, `TimeManager`, helpers | files, durations | only write, or only compute |

### 1.2 How they interact

- The thread of `main()` creates the first handlers, starts the reader thread, starts three
  threads and waits on `cv`; woken, it joins the three, then the reader, naps and returns.
- A handler is made in three steps: `fork()` (in `launchChildProcess`), `++counter_`,
  `addMonitorProcess`. The child runs from the first one on.
- A child sends a *creation* message; `CreateMonitoringThreads` receives it and starts the
  monitor thread of the pid it names. When its work ends it sends a *termination* message and
  calls `_exit`. A child that is killed sends nothing; its monitor thread, polling with
  `waitpid(WNOHANG)`, sends the termination message in its place.
- `MonitorProcessTermination` takes one from `counter_` for each termination message, clears the
  monitor's flag and marks the pid deceased. `restoreHandlerCount` forks as many children as
  `counter_` falls short of `-n`.
- All messages go through one System V queue, which each process reaches through a `Messenger` of its
  own: a mutex for its threads, retries with naps, 5 s at most. `fork()` and `clone()` copy the mutex
  as it is.
- Every log entry on the console takes a named semaphore. The supervisor creates it before `main()`;
  each child unlinks the name and opens it again before its first message, so that children share a
  semaphore or have their own, as their steps fall.
- A cloned child waits, in memory it shares with its parent, for the parent to store its pid.
- The console commands change flags, and send signals to one handler or to a snapshot of all
  that are not marked deceased.

### 1.3 What is hard

Concurrency: five kinds of threads and the children interleave, and nearly every step of one
component can fall between two of another: the child against the registration of its handler, the
counter against the fork it counts, the snapshot of `killAll` against the restorer, a notification
against the wait for it. Failure: children are killed, `fork` fails, the queue fills up, the
program dies and leaves its queue to the next one. Termination: `quit` must bring all threads
home, one of which may be blocked reading the console. Shared memory: what `fork()` copies may be a
held mutex or a buffer in the middle of a write, and a process killed with the semaphore keeps it.
`PROJECT.json` lists these hazards, each
with its line and the properties that watch it.

### 1.4 What makes each component correct

| Component | It is correct when |
|---|---|
| `MainController` | `counter_` never promises more handlers than `-n` (`CounterBound`), every child that runs or whose end is unprocessed has its unit (`SlotAccounting`), hence at most `-n` run (`PopulationBound`); a missing one is replaced (`MissingIsReplaced`); `quit` brings `main()` home, which it does but for the read of the console (`QuitExits`, `QuitExitsUnlessReading`) |
| `ProcessRegistry` | nobody is marked deceased who still works (`DeceasedSound`) |
| `ProcessMonitor` | every registered child has a monitor or is about to (`EveryChildMonitored`), never two (`OneMonitorThread`), and a killed one is reaped, reported and its report received (`KilledIsReported`) |
| `ProcessController` | when the program is gone no child is left that was not told to end (`NoOrphanAtExit`) |
| `SystemProcess` | a program has its unit of `counter_` for as long as it runs (`SystemSlotAccounting`), and its end is noticed (`EndedIsReplaced`) |
| `Messenger` | its one queue is the two streams of `MessageQueue` (`KeepsQueuePromise`), a full queue drains although senders nap with the mutex (`QueueDrains`), and no child outlives the supervisor because of its queue or its mutex (`OrphansEnd`) |
| `ProcessMonitor`, forking | the first children copy no held mutex (`FirstGenerationIsClean`); a clone knows its pid (`ChildKnowsItsPid`) |
| `ConsoleLogger` | a semaphore is at one or somebody has it (`SemaphoreCount`), a killed child never has the supervisor's (`ParentSemaphoreFree`), one child's last word is seen (`SingleChildLogsAll`) |
| `parseArguments`, `ConfigReader` | without a warning each setting is as typed (`SettingsAsTyped`), the documented lines start the program (`DocumentedLinesStart`, which is false), a system process gets the arguments its file gives (`SystemArguments`) |
| the whole | it implements `Supervisor` (`KeepsPromise`) |

## 2. The modules

| Module | Models | Uses |
|---|---|---|
| `ChildProcess` | children from fork to reaping, signals, the end of the parent | |
| `MessageQueue` | what `Communicator` achieves: two bounded streams of pids | |
| `ProcessRegistry` | the registry | `ChildProcess` |
| `ProcessMonitor` | the monitor thread of each child, and `Synchro` | `ChildProcess`, `MessageQueue` |
| `ThreadController` | the reader thread | `ChildProcess` |
| `MainController` | the thread of `main()` up to the joins, and the three threads | the four above |
| `Console` | the commands, `api`, `ProcessController`, the end of `main()` | `MainController` |
| `SecureProcessManager` | the whole program, its environment, all properties | `Console` |
| `Supervisor` | the abstract promise: at most Capacity children, each ends once, none is started without a supervisor | |
| `SystemProcess` | the program with `-t system` | `SecureProcessManager` |
| `ProcessThreads` | which thread belongs to which process | |
| `Messenger` | `Messenger`: the queue with both types of message, the mutex, the turns of the two loops | `ProcessThreads` |
| `ConsoleLogger` | the semaphore of the console and the buffer behind it | `ProcessThreads` |
| `Selection` | the elements of a sequence at some of its indices, in order | |
| `ConfigReader` | the configuration file up to the arguments of `posix_spawn` | `Selection` |
| `CommandLine` | `parseArguments` | `ConfigReader` |
| `Runtime` | `main()` from its options to the first children; then threads and children as users of the queue, the mutex, the semaphore and copied memory | `CommandLine`, `Messenger`, `ConsoleLogger`; INSTANCE `MessageQueue` |
| `MCSecureProcessManager`, `MCSystemProcess`, `MCRuntime` | values for the constants | |
| `SecureProcessManagerProofs` | theorems: types, the counter, the marks | `SecureProcessManager` |
| `AccountingProofs` | theorems: one monitor each, the units of `counter_`, the refinement of `Supervisor` | `SecureProcessManagerProofs` |
| `ShutdownProofs` | theorem: nobody is left untold at the exit | `AccountingProofs` |
| `MonitoringProofs` | theorems: the queue has room, and every child is watched | `ShutdownProofs` |
| `SystemProcessProofs` | theorems about `-t system` | `SystemProcess`, `AccountingProofs` |
| `RuntimeProofs` | theorems: the semaphore, forked memory, command line, log | `Runtime` |
| `SelectionProofs` | theorems: the refinement of `MessageQueue`, the arguments of a system process | `RuntimeProofs` |

There are two models of the whole, and both are needed. `SecureProcessManager` has the registry, the
console, the monitors' flags and the signals, and takes the queue as `MessageQueue`. `Runtime` has what
lies under it, lock by lock, and keeps of the layer above only what decides who sends, receives, logs
and forks. `KeepsQueuePromise` is the joint: each step of the queue in `Runtime` is one that
`MessageQueue` allows.

### 2.1 State

- A static of the program is a function over processes, because `fork()` copies it:
  `continue_[p]`, `running_[p]`. A child forked after `running_` went down can send nothing; one
  forked after a Ctrl-C has reached the parent starts with `continue_` down.
- `proc[p]` is the life of the child with pid p: free, born (forked), working (creation message
  sent), announced (termination message sent), exited or killed (a zombie), reaped.
- `monPc[p]` and `monitor_[p]` are the monitor thread of p and its flag. They differ between the
  creation of the thread and its first step, and between the terminator's store and the thread's
  end.
- `maker` is where `createHandlers` is: `main()` runs it first, the thread `restoreHandlerCount`
  afterwards, never both. `terminator` holds the pid of the message in hand, `creator` is only a
  place, since receiving a creation message and acting on it are one step: nothing else reads
  that queue, and until it acts the message might as well still be there.
- `mainPc` splits the wait on `cv` in two, the test of the predicate and the wait, because `stop`
  writes and notifies without the mutex. `running_` going up again never happens.
- `console` holds the command the reader works on and the pids still to be signalled.

### 2.2 Actions

One action per handler, loop turn or step between two accesses to shared state; the table "map" of
`PROJECT.json` gives the lines of each. Naps are not actions: a step not yet taken is a nap. A
send that finds the queue full and then room is a send that is taken later; the action drops the
message only where the code, after 5 s, does. The monitor's loop test, `kill(pid, 0)` and
`waitpid` are one action, for a zombie is visible to both calls and only this thread reaps.
The flags tested in the condition of a loop or an `if` are tested in the step they guard, so a turn
of `CreateMonitoringThreads` or `MonitorProcessTermination` that is inside `receiveMessage` when
`running_` goes down ends there; in the code it may still take one message, which then changes only
`counter_`, monitor flags and marks that nothing but a snapshot still reads. The turns of the
restorer, whose late steps do matter, are split: after its test it forks, counts and registers
whatever the flags say by then. Reading a line and dispatching it is one action of the user; the commands that signal many
children then go on step by step.

### 2.3 Runtime

State. `call[t]` is where an actor (a thread of the supervisor, or a child, named by its pid) is in
`sendMessage` or `receiveMessage`: outside, with the mutex, asleep with it, or about to try again.
`mutexHolder[p]` is the mutex in the copy of process p. A child that copied it from a parent whose
thread held it has a holder that does not exist there, and waits for ever (`Stuck`). `connected[p]`
says whether p has a `Messenger` (it is made at the first use), and whether its queue has been removed
since. A semaphore is named by the process that created it; `sem_[p]` is the one p uses, `semName` the
one the name stands for now, `logging` the actors between `sem_wait` and `sem_post`, the dead included.
`at[t]` is where an actor is otherwise.

What it leaves to the other model: the monitor's flags and the deceased marks, the signals but SIGKILL,
pausing, and `Ctrl-C`. `createHandlers` decides anew before each child, where the code computes a
number first; `++counter_` is one step with the log entry behind it, for only the thread of
`createHandlers` compares `counter_`. A child makes two log entries at most: a clone's hello, and the
last word, which is the only message told apart from others. The warning of a monitor that finds its
child killed, and the exception of a message that is lost, are entries of their own, for they wait for
the semaphore before anything else happens. With `-l file` logging is no step: the
file of a process is opened by it alone. `exit()` is one step. A receiver's nap is no state, since it
naps without the mutex; a sender's is.

The two stores of `launchChildProcess` into the memory shared with a clone, and the two loads of
`child_func`, are unsynchronised. `StoreOrder` is the order the build gives them; another compiler
may choose the other, and the mutant of `ChildKnowsItsPid` shows what follows.

The command line is read option by option, `CommandLine` folding the `getopt` loop into `ReadOption`.
`Number` is what `std::stoi` makes of an argument, `LongNumber` what `strtol` does. `ConfigReader` has a
line of the file as its key and its value, the key "#" for every line that begins with that character;
the order of the `unordered_map` is any order.

`Pick(s, I)` of `Selection` is what SelectSeq computes, the elements of s at the indices I in order: the
n-th is at the index of rank n. SelectSeq is recursive, and the provers cannot see into it; ranks are
cardinalities, about which there are theorems. `Pick` is the loop of `createCStyleArgs`, and gives the
part of the queue that `msgrcv` sees when it asks for one type.

### 2.4 Abstractions

- A message is the pid it names. The text, its 100 bytes, and its parsing back are taken as
  right.
- Time: every duration is possible, so a simulated or networked child may end at any moment.
- `KillRace`: whether SIGKILL may hit a child between its last message and `_exit`.
- `Recycle`: whether the kernel may give a reaped pid out again. When it does, it has gone through
  all other pids first, so no thread or message still has to do with the pid (`InUse`).
- `StopNapSuffices`: that the 100 ms nap of `MainController::stop` outlasts the step of `main()`
  from its predicate into its wait. Without it the notification can be lost and `quit` hangs.
- `Leftovers`: what an earlier run may have left in the System V queue, messages of either type. With
  `-t system` a creation message of an earlier run that names a pid of this one is excluded by
  `SystemAssumption`: it would start a monitor thread beside the worker, which `SystemProcess` has not.
- `Environment`: what may come from outside: SIGKILL to a child (`kill`) or to the program
  (`crash`), Ctrl-C (`interrupt`), the end of the input (`eof`).

## 3. The runs

States and seconds are of TLC with two workers.

| Run | Instance | Shows | States | s |
|---|---|---|---|---|
| `accounting` | 2 simulated children, 3 pids, queue of 3 that may hold a creation message of an earlier run, SIGKILL to children and program from outside | `TypeOK`, `CounterBound`, `DeceasedSound`, `SlotAccounting`, `OneMonitorThread`, `KeepsPromise` | 2.2 M | 135 |
| `shutdown` | 2 real children, queue of 4, no respawn, `quit`, `int all`, Ctrl-C, KillRace | `EveryChildMonitored`, `NoOrphanAtExit` | 1.6 M | 45 |
| `respawn` | 1 real child, 2 pids that come round, `kill`, monitor and respawn on and off, other lines, end of input, fair | `PopulationBound`, `KilledIsReported`, `MissingIsReplaced` | 68 k | 35 |
| `system` | 1 system process, 2 pids, `kill`, monitor on and off, `quit`, crash, end of input, fair | `SystemTypeOK`, `SystemSlotAccounting`, `EndedIsReplaced`, `KeepsPromise`, `QuitExitsUnlessReading` | 0.26 M | 100 |
| `runtime` | all command lines of up to 3 of 21 options; 1 child forked, 1 cloned, 2 logging to files, each with threads to the end, 2 forked on the console up to their making; queue of 2, SIGKILL to children and program, fair | the eleven properties of `Runtime` | 0.15 M | 150 |
| `quit` | 1 child, `quit` at a terminal, fair | `QuitExits` fails | | |
| `unmonitored` | 1 real child with respawn, `kill` | `EveryChildMonitored` fails | | |
| `term_all` | 1 child, `term all`, an input that ends, fair | `TermAllExits` fails | | |
| `stale_queue` | 1 child, a termination message of an earlier run in the queue | `PopulationBound` fails | | |
| `orphan` | 1 child with respawn, `quit` | `NoOrphanAtExit` fails | | |
| `daemon` | 1 system process, the program a child of init, fair | `EndedIsReplaced` fails | | |
| `documented` | the command lines of up to 2 options | `DocumentedLinesStart` fails | | |

Why the bounds are enough. Three pids let a child end, be replaced and its replacement be replaced,
with messages about the first still under way. Two children at a time let two termination messages
cross, and a third pid be one too many. A queue of three fills up, so that messages are lost, and
sooner where an earlier run has left one. `shutdown` has no respawn
because with it `NoOrphanAtExit` fails (run `orphan`); its queue of four has the room that
section 4.4 asks for with two children. The runs with fairness have few pids, as
their properties are about one child at a time. Pids are interchangeable, and the runs without
fairness declare them symmetric.

In `runtime`, `MaxOptions` is three: a valid argument, an invalid one behind it and a third that
overrides either; two are enough for the line of `documented`. The constraint `PidsInOrder` gives the
first pid out first: pids are interchangeable, but symmetry is not sound for liveness, and a constraint
that only orders what is alike is. `Explored` and `Threaded` name the settings with which the run goes on after
`initialize()` and after `createHandlers()`; all others stop there. With one process the
respawned child is forked while threads run, so it can copy a held mutex and a torn buffer, and two
pids in all let one be restored; with two, messages of both types mix in a queue of two, which is full
while one sender naps and another waits. A third child would repeat these cases. Each pid is used once.

`CHECK_DEADLOCK FALSE` stands where nobody types and the pids can be used up: then everything
waits, as the program does on an idle console. The same holds for runs in which the only
commands name a child.

Four properties are weaker than they might be, on purpose. `KilledIsReported` is checked with `KillRace`
FALSE: a child killed after its own last message has reported itself, its monitor is told to stop, and
whether the zombie is reaped before that is chance. `OrphansEnd` is about forked children of
`initializeController`: a clone never sees its parent gone, and a respawned child may have copied a held
mutex. `MissingIsReplaced` ends when the restorer has forked, not when `counter_` is back at `-n`: the new child may be over, and its end
taken off, before `++counter_`. `NoOrphanAtExit` allows a child that has been told to end but has
not got round to it: after `int all` typed before `main()` waits, the program exits at once.

### 3.1 Fairness

`Fairness` is weak fairness of each thread and each child separately: the operating system schedules
whatever can run, and no thread here waits for a lock another can hold for ever. The user need
not type nor close the input, signals from outside need not come, and a condition variable need
not wake by itself, so none of these is fair. Hence `QuitExits` is false (run `quit`), and
`QuitExitsUnlessReading` names the one place where the program may stay. Only `term_all` has more,
`ScriptedSpec`: its input ends, as that of a script, so that what it shows is not this wait but that
nobody wakes `main()`. In `system` the threads are fair in the same way; a program need not end and
`posix_spawn` may take its time.

In `runtime`, `Fairness` is weak for each group of actors, and strong in three places. The groups are
the maker, each receiver, all monitors and all children. That is no weaker than fairness to each monitor
and each child: each takes finitely many steps before it is over, is blocked, or naps until its 5 s are
over, so a group that goes on without one of its members runs out of steps. `SenderGivesUp`:
the deadline of a sender is a steady clock's, so it does not find the queue full for ever without
seeing its 5 s over. `SenderTakesLock`: receivers nap outside the mutex, 10 ms in each turn, and a sender
that waits gets it in between. `TakeLock` of a receiver is strong only while no sender of the
supervisor tries again (`Retrying`): a sender naps inside the mutex and takes it back at once, and
nothing in the code lets a receiver in before. Without that restriction `QueueDrains` would show less
than the code has to achieve: with it, it is the time-out and nothing else that lets the receivers in.
Its mutant, a sender that never times out, leaves the queue full for ever.

### 3.2 What the violations say

Each contradicts a sentence of the repository, quoted in `PROJECT.json`.

- `quit`: after the command the reader goes back to `cin.peek()`, and nothing wakes it: at a terminal
  `main()` hangs in the join of `ThreadController::stop` until another line comes. "During the next loop
  iteration" (`src/README.md:105`) is the next line.
- `documented`: `-t system -n 2`, which `src/README.md` gives as the command to run the program (217)
  and again as an example (399), is refused for want of a configuration file
  (`src/src/consolecontroller/console_control.cpp:126`).
- `unmonitored`: a creation message that arrives before `addMonitorProcess` is dropped, and the
  child is never monitored; killed, it is neither reaped nor replaced.
- `term_all`: `term all`, `int all` and `kill all` do not notify `cv`; the README says they exit
  the program.
- `stale_queue`: a termination message of an earlier run lowers `counter_`, and `-n` plus one
  children run.
- `orphan`: the restorer can fork or register after the last snapshot of `quit`.
- `daemon`: `postWork` of a system process asks for the parent of the supervisor; if that is
  init, no end is reported and nothing respawned.

## 4. The theorems

Checked by TLAPS, for every value of the constants that meets the named assumptions. These assumptions
say little: `NumProcesses` and `QueueCap` are positive, the "nobody" values are no pids, each pid has its own
monitor thread, the lines of a configuration file are pairs of strings. Where a theorem needs more, it is
a hypothesis of that theorem:

| Hypothesis | Says | Why it is there |
|---|---|---|
| `~Recycle` | the kernel gives no pid out twice | a mark or a handler outlives its child, and then belongs to the next one with that pid |
| `~KillRace` | no SIGKILL between a child's last message and its `_exit` | the child's own message and its monitor's report would take two units for one child |
| `OwnLeftovers` | the queue starts without messages about pids of this run, of either type | a child would be marked before it has begun, or get a second monitor thread |
| `CleanLeftovers` | the queue starts without termination messages, and without creation messages about pids of this run | `counter_` loses a unit for every termination message an earlier run has left: run `stale_queue` |
| `EmptyLeftovers` | the queue starts empty | what an earlier run has left takes room in the queue, and may stand for a monitor |
| `NoRespawn` | respawn is off, and nobody types `respawn on` | a child made beside the threads may be unmonitored (run `unmonitored`) or left behind (run `orphan`) |
| `QueueCap >= 3 * NumProcesses - 2` | the queue has room | a full queue loses messages after 5 s; see 4.4 |

Without any one of the first six a property that needs it is false; where a run is named, it is the
counterexample. The last is sufficient but not tight: TLC finds `EveryChildMonitored` kept with two children and a queue of
three, and violated with a queue of two. `SecureProcessManager` with `Recycle` and `KillRace` FALSE, an
empty queue and `respawn off` is a run of the program like any other.

### 4.1 Types, counter and marks (`SecureProcessManagerProofs`)

- `TypeCorrect`: Spec => []TypeOK.
- `CounterBounded`: Spec => []CounterBound. Types and bound are proved together. That `maker.left`
  is a natural number rests on `counter_ < NumProcesses` at the second read of `counter_`; that in
  turn holds because only the maker itself raises `counter_`. `Typed == TypeOK /\ MakerOK` is
  the inductive invariant.
- `DeceasedAreOver`: Spec => []DeceasedSound, if pids do not return (`~Recycle`) and the queue
  starts without messages about pids of this run (`OwnLeftovers`). `DeceasedSound` is about the last
  link of a chain: the child's end or a monitor's report, the queue, the message in the terminator's
  hand, the mark. `Chain` says of every link that its pid is finished, and `Lasting`, that a finished
  child stays so, carries it over every other step. Both assumptions are needed: TLC finds
  `DeceasedSound` violated with `Recycle`, the mark outliving its child.

### 4.2 Monitors, units and the refinement of Supervisor (`AccountingProofs`)

- `OneMonitorEach`: Spec => []OneMonitorThread, with `OwnLeftovers`. A creation message starts a thread,
  so there must never be two for one child; one of an earlier run that named a pid of this run would be
  a second. `OnceMonitored`: the queue names no pid of this run twice, and while a child has still to
  announce itself, or its announcement is queued, it has no monitor thread. Creation messages about other
  pids may be in the queue: they find no handler (as `accounting` has it).
- `SlotsAccounted`: Spec => []SlotAccounting, with `~KillRace` and `CleanLeftovers`. `SlotAccounting`
  counts: the children that are not done with are at most `counter_` plus the child the maker has forked
  and not yet counted. What takes a unit is a message, so `SaidOnce` says that a child is reported once:
  the queue names it once, only after it has spoken for itself or its monitor has reaped it, and a monitor
  about to report holds a child of which the queue says nothing. `Balance` is the inequality of
  cardinalities. A step that adds a child to `Owed` adds it to `Uncounted`; one that takes a unit takes a
  child.
- `PopulationBounded`, under the same hypotheses, from `Balance` and `CounterBounded`: the children that
  run are among those that have a unit.
- `ImplementsSupervisor`: Spec => KeepsPromise, with `~Recycle` too. Step by step: `fork()` is `Launch`,
  which needs a free slot, and `Balance` with the maker's own count gives it; an end is `Conclude`;
  the end of the program is the supervisor's; all else is a stutter.

### 4.3 Shutdown (`ShutdownProofs`)

- `NobodyLeftUntold`: Spec => []NoOrphanAtExit, with `NoRespawn` and `OwnLeftovers`. `FirstOnly`:
  without respawn the only children are those of `createHandlers`, all registered before the console
  starts. `Told`: once `running_` is down, a child that has not been told is still in the list that the
  console is working through, and `main()` joins the reader, so it returns when that list is done.
  `DeceasedSound` enters because `killAll` passes over those marked deceased. Pids may come round:
  while `main()` makes its children no monitor has reaped any (`NoneReaped`), so their pids are new
  (`FreshPids`), and that is all that `Chain` needs.

### 4.4 Monitoring (`MonitoringProofs`)

- `QueueSuffices`: without respawn, from an empty queue and with room for 3 * NumProcesses messages,
  a child or monitor about to send never finds the queue full, even with `KillRace`. `Room` is the
  invariant: messages queued, plus those the present children and monitors may still send, plus three for
  each child still to be made, are at most 3 * NumProcesses.
- `EveryChildWatched`: Spec => []EveryChildMonitored, with two messages less, for it is only
  the creation message that must not be lost. `Watched`: a child that has announced itself is named
  in the creation queue or has a thread, and a thread that has stopped has a finished child.

The default queue of Linux holds 16384 bytes and a message is 100 (`src/include/concurrency/message.h:8`): more than
160 of them, and `-n` is at most 20 (`src/src/consolecontroller/console_control.cpp:10`).

### 4.5 System processes (`SystemProcessProofs`)

Over `SystemSpec`. The steps that `SystemProcess` shares with the rest keep what the lemmas about `Next`
say; only the steps of the maker and the workers are new.

- `SystemTypeCorrect`, `SystemCounterBounded`, without hypotheses.
- `SystemSlotsAccounted`, with `CleanLeftovers`; `SystemImplementsSupervisor`, with `~Recycle` too. SIGKILL at any
  moment is allowed here, since only the worker reports. `SystemAccounts`: no monitor thread exists
  (`NoMonitors`), the worker reports after `waitpid` and once (`ReportedOnce`), a new pid is passed on
  before the maker does anything else (`InMaking`), and the inequality with the unit that the pid in
  passing stands for (`SystemBalance`). A worker that comes with its pid after `getPid()` has thrown is
  one of these cases: nobody takes the pid over, and the unit stays with `newborn` until the program is
  gone (`MakerTimesOut`, `MakerDies`). A program spawned so late survives the supervisor, which nothing in
  the repository excludes.
- `DeceasedProgramsAreOver`, with `~Recycle` and `OwnLeftovers`: `Chain`, with the worker as one more link.

### 4.6 What lies under it (`RuntimeProofs`)

Without hypotheses, for any number of pids and threads, any queue size, all options, files and values of the bounds `Explored`,
`Threaded` and `MaxOptions`. All are of the form RuntimeSpec => [](property).

- `SemaphoreCounted`. One lemma per operation on the semaphore says that it keeps the count, if the
  process whose handle moves is not inside and comes from the supervisor's semaphore. `PlacesOK` gives
  both: a child that has not opened its own semaphore is on the supervisor's, and it is inside only
  where it logs. `HandlesOK` holds the rest: the name stands for a semaphore whose creator uses it, so
  a new one is never created over one in use.
- `ParentSemaphoreStaysFree`. `OnItsOwn`: when a forked child opens its semaphore, the name no longer
  stands for the supervisor's, because the child itself has unlinked it and only children create a new
  one. So where it logs it is on another. For a clone this is false, and the statement excludes it.
- `RuntimeTypeCorrect`. Rests on `MakerInHand`, that `Maker` has a child in hand where it uses one, and
  on senders being children or their monitors.
- `ChildrenKnowTheirPid`. The induction runs from the order of the two stores through `knowsPid` to the
  message sent and the queue, from which a receiver only takes messages away.
- `FirstGenerationStaysClean`. `NobodyInside`: until the threads start only `Maker` can be inside a
  lock, and it is not while it launches. `FirstMade`: the threads start only when the first children
  have all been made, so none of them is made later.
- `SingleChildAlwaysLogs`. The limit of the buffer is fixed at its first use, which is before the first
  child, and with one process it is one message (`LastWordOK`).
- `SettingsHonoured`: RuntimeSpec => []SettingsAsTyped. `LineOK` follows the loop over the options:
  without a warning, the last option of each kind agrees with the setting. For `-s` that is what the code
  makes of its argument: on for any number but 0, off for 0 and for what is no number.

### 4.7 The queue and the arguments (`SelectionProofs`)

Without hypotheses.

- Lemmas on `Rank` and `Pick`: the ranks of a finite set of numbers I are 1 to Cardinality(I), each that
  of one number (`RankOfNth`, `NthOfRank`); what is picked when an element is appended (`PickAppend`), when
  the first one picked is taken away (`PickFirst`) or one that is not picked (`PickWithout`). They rest on
  the library's theorems on finite sets, and replace an induction over the sequence.
- `QueuePromiseKept`: RuntimeSpec => KeepsQueuePromise, the refinement of `MessageQueue`. A send appends to
  the stream of its type and leaves the other alone (`SendPromised`). `msgrcv` takes the first message of its
  type: the head of one stream, and none of the other (`ReceivePromised`). `PromiseInv` adds to `KnowInv`
  that no thread announces a child, so that each step of the queue is one of the actor that `PromisedStep`
  names.
- `ArgumentsAsFiled`: RuntimeSpec => []SystemArguments, inductive next to `LineInv`. `MapOfLines`: the keys
  of the map and the last lines of the file match one to one. `ListedKeys`: whatever the order of the
  `unordered_map`, each key but `process_file` is listed once. `ParametersOf`, `ArgumentsOf`: the 2 n empty
  strings are exactly what `createCStyleArgs` drops, so behind the program come n - 1 flags, each with
  its value.

### 4.8 What stays with TLC

The liveness properties, since fairness and ENABLED are out of the prover's reach: `QuitExitsUnlessReading`,
`KilledIsReported`, `MissingIsReplaced`, `EndedIsReplaced`, `QueueDrains`, `OrphansEnd`. And the runs that
expect a violation, whose properties are false. Every other property of a run is a theorem.

## 5. Not modelled

- `TimeManager` and the random naps: how long a child lives. In the models every duration is possible.
- `FileLogger`, `currentMessageStream` and the text of the log: the threads of a process share a stream
  without a lock, and what that does to a library object has no bounds a model could use.
- The text of a message and its parsing (`createMessage`, `splitString`, `strToPid`), time stamps, file
  handles: a message is the pid it names.
- The sample network request, which goes through a third-party library and touches no state of the
  program, and `unlinksem`, a program of one call.
- Exit codes; malformed commands (`term` without an argument reads past the end of a vector,
  `src/src/consolecontroller/console_loop.cpp`); the destruction of statics while detached threads run;
  a semaphore that a killed run leaves to the next one; `sem_open` failing in a child.

Disagreements between the text of the repository and the code that the models show without a run of
their own:

- `-s on` and `-s yes` turn respawning off without a warning, as `strtol` makes 0 of them
  (`console_control.cpp:64`); every other option warns of an argument it cannot use. `src/README.md:133`
  documents 0 and 1 only.
- Type `custom` passes `parseArguments` (`console_control.cpp:45`) and is offered by the usage text, but
  no handler is registered for it: the program logs an exception and exits.
- `-l console`, which the usage text offers, logs "Invalid logging type" (`console_control.cpp:71`).
- `src/README.md:141` gives MS as the default of `-T`; without the option it is SEC
  (`src/src/tools/random_stuff.cpp:9`).
- With two or more processes on the console, what is left in a child's buffer at `_exit` is never seen,
  and what is in the supervisor's at `fork()` may be printed twice.
- The usage comment of `src/unlinksem.cpp` names the semaphore `/console_logger_semaphore`; the logger
  uses `/console_logger_sem`.

## 6. Plan

Done: the core with its refinement of `Supervisor`; system processes; `Messenger` with its refinement of
`MessageQueue`; the clone handshake; the semaphore; command line and configuration file; a theorem for
every property of a passing run that is not one of liveness.

Left, in order of importance:

1. Theorems with weaker hypotheses: the accounting with `KillRace`, where `counter_` may go below what runs
   by one for each child killed in that window; a queue that need only hold 2 * NumProcesses - 1 messages for
   `EveryChildWatched`, since a monitor reports only after the creation message has been taken off.
2. The semaphore of a killed run as an initial state of `Runtime`, with `unlinksem`.
