------------------------------ MODULE MCRuntime ------------------------------
(***************************************************************************)
(* Runtime on two pids: the command lines of up to MaxOptions options, and *)
(* what follows from four of the settings that they can give.              *)
(***************************************************************************)
EXTENDS Runtime, TLC

CONSTANTS p1, p2, maker, creator, terminator, m1, m2

MCMonitorOf == p1 :> m1 @@ p2 :> m2

MCNumber == "1" :> 1 @@ "2" :> 2 @@ "21" :> 21 @@ "0" :> 0

\* "max" is a number too large for an int.
MCLongNumber == MCNumber @@ "max" :> 100

Option(opt, arg) == [opt |-> opt, arg |-> arg]

MCOptions ==
    {Option("n", arg) : arg \in {"1", "2", "21", "many"}}
    \cup {Option("t", arg) : arg \in {"simul", "clone", "system", "custom", "other"}}
    \cup {Option("c", arg) : arg \in {"good", "twice", "text", "missing"}}
    \cup {Option("s", arg) : arg \in {"0", "max", "on"}}
    \cup {Option("l", "file"), Option("l", "other"), Option("T", "MS"),
          Option("T", "other"), Option("h", "")}

Line(key, value) == [key |-> key, value |-> value]

\* A file of each kind: one key twice, a process_file that is no program, one not there.
MCConfigFiles ==
    "good" :> [exists |-> TRUE, restricted |-> FALSE,
               lines |-> <<Line("#", "comment"), Line("process_file", "prog"),
                           Line("d", "5"), Line(Empty, Empty), Line("v", "1")>>]
    @@ "twice" :> [exists |-> TRUE, restricted |-> FALSE,
               lines |-> <<Line("d", "5"), Line("process_file", "prog"),
                           Line("d", "7"), Line("q", Empty)>>]
    @@ "text" :> [exists |-> TRUE, restricted |-> FALSE,
               lines |-> <<Line("d", "5"), Line("process_file", "notes")>>]
    @@ "missing" :> [exists |-> FALSE, restricted |-> FALSE, lines |-> <<>>]

With(n, type, logger, respawn) ==
    [Defaults EXCEPT !.numProcesses = n, !.processType = type, !.loggerType = logger,
                     !.respawn = respawn]

\* Followed to the end; the last one only while the children are made.
MCThreaded ==
    {With(1, "simul", "console", TRUE), With(1, "clone", "console", FALSE),
     With(2, "simul", "file", TRUE)}

MCExplored == MCThreaded \cup {With(2, "simul", "console", TRUE)}

\* Nothing tells one pid from another but when it is given out: p1 comes first.
PidsInOrder == at[p2] # "none" => at[p1] # "none"
=============================================================================
