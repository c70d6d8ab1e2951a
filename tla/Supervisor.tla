----------------------------- MODULE Supervisor -----------------------------
(***************************************************************************)
(* What the program promises of its children, whatever its threads do: at  *)
(* most Capacity of them run at a time, each ends once, and none is        *)
(* started after the supervisor is gone.  SecureProcessManager implements  *)
(* it as long as every termination message is about a child of this run    *)
(* and is sent once.                                                       *)
(***************************************************************************)
EXTENDS Naturals, FiniteSets

CONSTANTS
    Children,   \* the children there may be
    Capacity    \* how many may run together

VARIABLES
    live,   \* the children that run
    spent,  \* the children that ran and ended
    up      \* whether the supervisor is there

supervisorVars == <<live, spent, up>>

SupervisorInit ==
    /\ live = {}
    /\ spent = {}
    /\ up = TRUE

Launch(p) ==
    /\ up
    /\ p \notin live \cup spent
    /\ Cardinality(live) < Capacity
    /\ live' = live \cup {p}
    /\ UNCHANGED <<spent, up>>

Conclude(p) ==
    /\ p \in live
    /\ live' = live \ {p}
    /\ spent' = spent \cup {p}
    /\ UNCHANGED up

ShutDown ==
    /\ up
    /\ up' = FALSE
    /\ UNCHANGED <<live, spent>>

SupervisorNext == ShutDown \/ \E p \in Children : Launch(p) \/ Conclude(p)

SupervisorSpec == SupervisorInit /\ [][SupervisorNext]_supervisorVars
=============================================================================
