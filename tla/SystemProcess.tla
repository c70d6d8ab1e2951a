--------------------------- MODULE SystemProcess ---------------------------
(***************************************************************************)
(* The process type "system": instead of forking, the maker starts a       *)
(* detached worker thread that runs the program named in the configuration *)
(* with posix_spawn, waits for it and sends its termination message.  The  *)
(* maker itself waits at most 500 ms for the worker to publish the pid.    *)
(* There is no creation message and no monitor thread; the terminator, the *)
(* restorer, main() and the console are those of MainController.           *)
(***************************************************************************)
EXTENDS SecureProcessManager

CONSTANT StartedByInit   \* TRUE: the parent of the program itself has pid 1

\* With no monitor thread in this module, no message of an earlier run may ask for one.
ASSUME SystemAssumption ==
    /\ StartedByInit \in BOOLEAN
    /\ \A left \in Leftovers : Named(left.creation) \cap Pids = {}

VARIABLES
    spawner,   \* the worker of the handler in hand, until posix_spawn has returned
    newborn,   \* SystemProcess::pid_ of the handler in hand
    worker,    \* where the worker of each pid is, once it has one
    thrown     \* getPid() has thrown, and the program is on its way out

systemVars == <<spawner, newborn, worker, thrown>>

allVars == <<vars, systemVars>>

SystemTypeOK ==
    /\ TypeOK
    /\ spawner \in {"none", "spawning", "failed"}
    /\ newborn \in Pids \cup {NoPid}
    /\ worker \in [Pids -> {"none", "waitpid", "postWork"}]
    /\ thrown \in BOOLEAN

SystemInit ==
    /\ Init
    /\ spawner = "none"
    /\ newborn = NoPid
    /\ worker = [p \in Pids |-> "none"]
    /\ thrown = FALSE

-----------------------------------------------------------------------------
(***************************************************************************)
(* The maker: SystemProcess::work() starts the worker, getPid() waits for  *)
(* the pid.  Without one it throws, which ends the program: initialize-    *)
(* Controller exits, and in the thread restoreHandlerCount nobody catches  *)
(* the exception.  Until it is over, the other threads go on: the worker   *)
(* may come with its pid when nobody waits for it any more.                *)
(***************************************************************************)
MakerWorks ==
    /\ parent = "up"
    /\ maker.pc = "create"
    /\ spawner = "none" /\ newborn = NoPid /\ ~thrown
    /\ spawner' = "spawning"
    /\ UNCHANGED <<vars, newborn, worker, thrown>>

\* Mutant: getPid() returns without waiting for the pid.
MakerGetsPidAtOnce ==
    /\ parent = "up"
    /\ maker.pc = "create"
    /\ spawner # "none" /\ ~thrown
    /\ maker' = [maker EXCEPT !.pc = "count", !.pid = newborn]
    /\ newborn' = NoPid
    /\ UNCHANGED <<childVars, queueVars, registryVars, monitorVars, consoleVars,
                   counter_, respawn_, creator, terminator, mainPc,
                   spawner, worker, thrown>>

MakerGetsPid ==
    /\ parent = "up"
    /\ maker.pc = "create"
    /\ newborn # NoPid /\ ~thrown
    /\ maker' = [maker EXCEPT !.pc = "count", !.pid = newborn]
    /\ newborn' = NoPid
    /\ UNCHANGED <<childVars, queueVars, registryVars, monitorVars, consoleVars,
                   counter_, respawn_, creator, terminator, mainPc,
                   spawner, worker, thrown>>

MakerTimesOut ==
    /\ parent = "up"
    /\ maker.pc = "create"
    /\ spawner # "none" /\ ~thrown
    /\ thrown' = TRUE
    /\ UNCHANGED <<vars, spawner, newborn, worker>>

MakerDies ==
    /\ thrown
    /\ ParentEnds("died")
    /\ UNCHANGED <<queueVars, parentVars, systemVars>>

-----------------------------------------------------------------------------
(***************************************************************************)
(* The worker: posix_spawn, the blocking waitpid, postWork.  No pid comes  *)
(* of a file that is not there or cannot be executed.                      *)
(***************************************************************************)
WorkerSpawns(p) ==
    /\ parent = "up"
    /\ spawner = "spawning"
    /\ Available(p) /\ worker[p] = "none"
    /\ proc' = [proc EXCEPT ![p] = "working"]
    /\ newborn' = p
    /\ worker' = [worker EXCEPT ![p] = "waitpid"]
    /\ spawner' = "none"
    /\ UNCHANGED <<continue_, running_, parent, queueVars, parentVars, thrown>>

WorkerFails ==
    /\ parent = "up"
    /\ spawner = "spawning"
    /\ spawner' = "failed"
    /\ UNCHANGED <<vars, newborn, worker, thrown>>

\* Mutant: a program killed by a signal is not reported.
WorkerReapsExitsOnly(p) ==
    /\ parent = "up"
    /\ worker[p] = "waitpid"
    /\ proc[p] \in {"exited", "killed"}
    /\ proc' = [proc EXCEPT ![p] = "reaped"]
    /\ worker' = [worker EXCEPT ![p] = IF proc[p] = "exited" THEN "postWork" ELSE "none"]
    /\ UNCHANGED <<continue_, running_, parent, queueVars, parentVars,
                   spawner, newborn, thrown>>

\* Mutant: waitpid with WNOHANG, as in a monitor thread: the worker goes on at once.
WorkerReapsAtOnce(p) ==
    /\ parent = "up"
    /\ worker[p] = "waitpid"
    /\ proc' = [proc EXCEPT ![p] = IF @ \in {"exited", "killed"} THEN "reaped" ELSE @]
    /\ worker' = [worker EXCEPT ![p] = "postWork"]
    /\ UNCHANGED <<continue_, running_, parent, queueVars, parentVars,
                   spawner, newborn, thrown>>

WorkerReaps(p) ==
    /\ parent = "up"
    /\ worker[p] = "waitpid"
    /\ proc[p] \in {"exited", "killed"}
    /\ proc' = [proc EXCEPT ![p] = "reaped"]
    /\ worker' = [worker EXCEPT ![p] = "postWork"]
    /\ UNCHANGED <<continue_, running_, parent, queueVars, parentVars,
                   spawner, newborn, thrown>>

\* Mutant: the message goes out, and the worker waits and reports again.
WorkerReportsTwice(p) ==
    /\ parent = "up"
    /\ worker[p] = "postWork"
    /\ SendTermination(p, running_[Parent])
    /\ UNCHANGED <<childVars, parentVars, systemVars>>

\* postWork runs in the program itself, so getppid() asks for the parent of the program.
WorkerReports(p) ==
    /\ parent = "up"
    /\ worker[p] = "postWork"
    /\ IF StartedByInit THEN UNCHANGED queueVars ELSE SendTermination(p, running_[Parent])
    /\ worker' = [worker EXCEPT ![p] = "none"]
    /\ UNCHANGED <<childVars, parentVars, spawner, newborn, thrown>>

WorkerStep ==
    \/ \E p \in Pids : WorkerSpawns(p) \/ WorkerReaps(p) \/ WorkerReports(p)
    \/ WorkerFails

\* The program that was spawned ends, of itself or because it was told to.
ProgramEnds(p) ==
    /\ proc[p] = "working"
    /\ proc' = [proc EXCEPT ![p] = IF parent = "up" THEN "exited" ELSE "reaped"]
    /\ UNCHANGED <<continue_, running_, parent, queueVars, parentVars, systemVars>>

-----------------------------------------------------------------------------
\* With the rest of createHandlers and restoreHandlerCount.
SystemMakerStep ==
    \/ MakerWorks
    \/ MakerGetsPid
    \/ MakerTimesOut
    \/ MakerDies
    \/ (MakerCount \/ MakerRegister \/ RestoreCheck \/ RestoreSize \/ RestoreEnds)
           /\ UNCHANGED systemVars

\* Once the parent is gone nothing happens that is of interest here.
SystemDone ==
    /\ parent # "up"
    /\ UNCHANGED allVars

SystemNext ==
    \/ SystemMakerStep
    \/ WorkerStep
    \/ \E p \in Pids : ProgramEnds(p)
    \/ (CreatorStep \/ TerminatorStep \/ MainStep \/ ReaderStep \/ UserStep \/ ExitStep)
           /\ UNCHANGED systemVars
    \/ EnvironmentStep /\ UNCHANGED systemVars
    \/ SystemDone

SystemSpec == SystemInit /\ [][SystemNext]_allVars

\* As in FairSpec, wait_for included; a program need not end, and posix_spawn may take its
\* time.
SystemFairness ==
    /\ WF_allVars(SystemMakerStep)
    /\ WF_allVars(MainRuns /\ UNCHANGED systemVars)
    /\ WF_allVars(ExitStep /\ UNCHANGED systemVars)
    /\ WF_allVars(CreatorStep /\ UNCHANGED systemVars)
    /\ WF_allVars(TerminatorStep /\ UNCHANGED systemVars)
    /\ WF_allVars(ReaderStep /\ UNCHANGED systemVars)
    /\ \A p \in Pids : WF_allVars(WorkerReaps(p)) /\ WF_allVars(WorkerReports(p))

FairSystemSpec == SystemSpec /\ SystemFairness

-----------------------------------------------------------------------------
\* A program that was spawned has its unit in counter_, or will get it from the maker, until
\* its termination message is taken: no replacement is started for a program that still runs.
SystemOwed ==
    {p \in Pids : \/ proc[p] \in {"working", "exited", "killed"}
                  \/ worker[p] = "postWork"
                  \/ p \in Named(terminationQ)}

SystemSlotAccounting ==
    parent = "up" =>
        Cardinality(SystemOwed)
            <= counter_ + Cardinality(Uncounted \cup ({newborn} \ {NoPid}))

\* While respawn is on, a registered program that ends makes the restorer go to work: its
\* end is reported, counted and noticed.
EndedIsReplaced ==
    \A p \in Pids :
        (Undisturbed /\ respawn_ /\ p \in handlers_ /\ proc[p] \in {"exited", "killed"})
            ~> (maker.pc = "create" \/ ~Undisturbed \/ ~respawn_)
=============================================================================
