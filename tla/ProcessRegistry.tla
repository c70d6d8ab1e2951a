-------------------------- MODULE ProcessRegistry --------------------------
(***************************************************************************)
(* ProcessRegistry: the handlers by pid and the pids known to be dead.     *)
(* Every operation holds mutex_ throughout, so each is one atomic step.    *)
(* Nothing is ever erased: a handler stays for the life of the program.    *)
(***************************************************************************)
EXTENDS ChildProcess

VARIABLES
    handlers_,          \* the pids that have a ProcessMonitor
    deceasedProcesses_  \* the pids marked deceased

registryVars == <<handlers_, deceasedProcesses_>>

RegistryTypeOK ==
    /\ handlers_ \subseteq Pids
    /\ deceasedProcesses_ \subseteq Pids

RegistryInit ==
    /\ handlers_ = {}
    /\ deceasedProcesses_ = {}

\* Mutant: the test of deceasedProcesses_ is the wrong way round.
ActiveHandlersInverted == handlers_ \cap deceasedProcesses_

\* handlers(): a snapshot of the handlers not marked deceased.
ActiveHandlers == handlers_ \ deceasedProcesses_

\* findMonitor(): the handler of a pid, deceased or not, or nullptr.
HasMonitor(p) == p \in handlers_

\* addMonitorProcess(): a pid that is known keeps the handler it has.
AddMonitorProcess(p) ==
    /\ handlers_' = handlers_ \cup {p}
    /\ UNCHANGED deceasedProcesses_

MarkProcessAsDeceased(p) ==
    /\ deceasedProcesses_' = deceasedProcesses_ \cup ({p} \cap handlers_)
    /\ UNCHANGED handlers_
=============================================================================
