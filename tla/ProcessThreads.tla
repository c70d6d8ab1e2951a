--------------------------- MODULE ProcessThreads ---------------------------
(***************************************************************************)
(* Who can hold a lock: the threads of the supervisor and its children.    *)
(* A child has one thread, named by its pid.                               *)
(***************************************************************************)
CONSTANTS
    Parent,    \* the supervisor
    Pids,      \* the pids the kernel may give to children
    Threads,   \* the threads of the supervisor
    NoThread,      \* holds a mutex that is free
    NoSemaphore    \* what a name stands for that nobody uses

ASSUME ThreadAssumption ==
    /\ Parent \notin Pids \cup Threads
    /\ Pids \cap Threads = {}
    /\ NoThread \notin Pids \cup Threads
    /\ NoSemaphore \notin Pids \cup {Parent}

Processes == Pids \cup {Parent}

Actors == Pids \cup Threads

ProcessOf(t) == IF t \in Pids THEN t ELSE Parent

=============================================================================
