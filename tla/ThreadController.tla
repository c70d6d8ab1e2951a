-------------------------- MODULE ThreadController --------------------------
(***************************************************************************)
(* ThreadController and CLIController: the thread that reads the standard  *)
(* input and runs one command per line, and how main() stops it.           *)
(***************************************************************************)
EXTENDS ChildProcess

VARIABLES
    console,   \* [pc, job, todo]: the reader thread, its command, the pids still to signal
    stopFlag,  \* ThreadController::stopFlag
    stdin      \* "open" or "eof"

consoleVars == <<console, stopFlag, stdin>>

Jobs == {"none", "quit", "quit: kill", "term all", "int all", "kill all"}

ConsoleTypeOK ==
    /\ console \in [pc : {"off", "head", "peek", "snapshot", "signal", "stopped"},
                    job : Jobs, todo : SUBSET Pids]
    /\ console.pc \in {"snapshot", "signal"} => console.job # "none"
    /\ stopFlag \in BOOLEAN
    /\ stdin \in {"open", "eof"}

ConsoleInit ==
    /\ console = [pc |-> "off", job |-> "none", todo |-> {}]
    /\ stopFlag = FALSE
    /\ stdin = "open"

\* run(): the reader thread exists from now on.
RunReader ==
    /\ console' = [console EXCEPT !.pc = "head"]
    /\ stopFlag' = FALSE
    /\ UNCHANGED stdin

\* The nap of 100 ms, if any, and while (!stopFlag): on, to the blocking peek, or out with
\* stopped = true.
TestFlag ==
    /\ console.pc = "head"
    /\ console' = [console EXCEPT !.pc = IF stopFlag THEN "stopped" ELSE "peek"]
    /\ UNCHANGED <<stopFlag, stdin>>

\* peek() at the end of the input returns at once and no command is run.
PeekEof ==
    /\ console.pc = "peek"
    /\ stdin = "eof"
    /\ console' = [console EXCEPT !.pc = "head"]
    /\ UNCHANGED <<stopFlag, stdin>>

\* A line was read and commandFunc runs: job is what it has to do step by step.
RunCommand(pc, job) ==
    /\ console.pc = "peek"
    /\ stdin = "open"
    /\ console' = [console EXCEPT !.pc = pc, !.job = job]
    /\ UNCHANGED <<stopFlag, stdin>>

\* stop() raises the flag, then joins the thread; hasStopped() is TRUE by then.
RaiseStopFlag ==
    /\ stopFlag' = TRUE
    /\ UNCHANGED <<console, stdin>>

ReaderHasStopped == console.pc = "stopped"
=============================================================================
