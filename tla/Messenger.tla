------------------------------ MODULE Messenger ------------------------------
(***************************************************************************)
(* Messenger: msgsnd and msgrcv on the System V queue, each under a mutex  *)
(* that belongs to one process and that fork() copies as it is.            *)
(***************************************************************************)
EXTENDS ProcessThreads, Naturals, Sequences

CONSTANTS
    QueueCap,   \* messages the queue can hold (msg_qbytes / MSG_SIZE)
    NoPid       \* the pid of nobody

VARIABLES
    queue,        \* the System V queue: messages of both types, oldest first
    connected,    \* whether a process has constructed or inherited a Messenger,
                  \* and whether the queue that one opened has been removed since
    mutexHolder,  \* who holds the mutex, in each process's copy of it
    call          \* where each actor is in sendMessage or receiveMessage

messengerVars == <<queue, connected, mutexHolder, call>>

CREATION_MSG == "creation"
TERMINATION_MSG == "termination"

\* The text of a message matters by the pid it names, NoPid when that is 0.
Message == [msgType : {CREATION_MSG, TERMINATION_MSG}, pid : Pids \cup {NoPid}]

MessengerTypeOK ==
    /\ queue \in Seq(Message)
    /\ connected \in [Processes -> {"no", "yes", "stale"}]
    /\ mutexHolder \in [Processes -> Actors \cup {NoThread}]
    /\ call \in [Actors -> {"loop", "locked", "asleep", "retry"}]

MessengerInit ==
    /\ queue = <<>>
    /\ connected = [p \in Processes |-> "no"]
    /\ mutexHolder = [p \in Processes |-> NoThread]
    /\ call = [t \in Actors |-> "loop"]

\* The queue the process has opened is still there.
Reaches(t) == connected[ProcessOf(t)] = "yes"

Full == Len(queue) >= QueueCap

Unlock(t, place) ==
    /\ mutexHolder' = [mutexHolder EXCEPT ![ProcessOf(t)] = NoThread]
    /\ call' = [call EXCEPT ![t] = place]

(***************************************************************************)
(* The turn of either loop begins: lock_guard, after the first use of      *)
(* Communicator::getInstance() in the process has opened the queue,        *)
(* creating it if there is none.                                           *)
(***************************************************************************)
Lock(t) ==
    LET p == ProcessOf(t)
    IN  /\ call[t] \in {"loop", "retry"}
        /\ mutexHolder[p] = NoThread
        /\ mutexHolder' = [mutexHolder EXCEPT ![p] = t]
        /\ call' = [call EXCEPT ![t] = "locked"]
        /\ connected' = [connected EXCEPT ![p] = IF @ = "no" THEN "yes" ELSE @]
        /\ UNCHANGED queue

\* Mutant: the type of the message is not set.
StoredWrongType(m) == [m EXCEPT !.msgType = CREATION_MSG]

Stored(m) == m

Send(t, m) ==
    /\ call[t] = "locked"
    /\ Reaches(t) /\ ~Full
    /\ queue' = Append(queue, Stored(m))
    /\ Unlock(t, "loop")
    /\ UNCHANGED connected

\* EAGAIN: the nap is taken with the mutex held, and the next turn follows at once.
SendNaps(t) ==
    /\ call[t] = "locked"
    /\ Reaches(t) /\ Full
    /\ call' = [call EXCEPT ![t] = "asleep"]
    /\ UNCHANGED <<queue, connected, mutexHolder>>

SendWakes(t) ==
    /\ call[t] = "asleep"
    /\ Unlock(t, "retry")
    /\ UNCHANGED <<queue, connected>>

\* Mutant: start is set anew in each turn, the time never runs out.
SendNeverTimesOut(t) == FALSE

\* EAGAIN after TIMEOUT_SECS: the message is given up.
SendTimesOut(t) ==
    /\ call[t] = "locked"
    /\ Reaches(t) /\ Full
    /\ Unlock(t, "loop")
    /\ UNCHANGED <<queue, connected>>

\* Mutant: EIDRM is tried again like EAGAIN.
QueueIsGoneUnseen(t) == FALSE

\* Any other errno, here that the queue is gone: both calls throw.
QueueIsGone(t) ==
    /\ call[t] = "locked"
    /\ ~Reaches(t)
    /\ Unlock(t, "loop")
    /\ UNCHANGED <<queue, connected>>

(***************************************************************************)
(* msgrcv takes the oldest message of the type asked for.                  *)
(***************************************************************************)
OfType(type) == {i \in DOMAIN queue : queue[i].msgType = type}

\* Mutant: the newest message of the type.
TakenNewest(type, i) == \A j \in OfType(type) : i >= j

Taken(type, i) == \A j \in OfType(type) : i <= j

Receive(t, type, p) ==
    /\ call[t] = "locked"
    /\ Reaches(t)
    /\ \E i \in OfType(type) :
          /\ Taken(type, i)
          /\ p = queue[i].pid
          /\ queue' = [j \in 1..(Len(queue) - 1) |-> IF j < i THEN queue[j] ELSE queue[j + 1]]
    /\ Unlock(t, "loop")
    /\ UNCHANGED connected

\* ENOMSG: the nap is taken without the mutex, and after 5 s the caller is told nothing.
ReceiveNothing(t, type) ==
    /\ call[t] = "locked"
    /\ Reaches(t) /\ OfType(type) = {}
    /\ Unlock(t, "loop")
    /\ UNCHANGED <<queue, connected>>

\* The supervisor is gone: no thread of it is in a call any more.
ForgetCalls ==
    /\ mutexHolder' = [mutexHolder EXCEPT ![Parent] = NoThread]
    /\ call' = [t \in Actors |-> IF t \in Threads THEN "loop" ELSE call[t]]

\* fork() and clone() copy the Messenger, if there is one, with its mutex as it is.
ForkMessenger(c) ==
    /\ connected' = [connected EXCEPT ![c] = connected[Parent]]
    /\ mutexHolder' = [mutexHolder EXCEPT ![c] = mutexHolder[Parent]]
    /\ UNCHANGED <<queue, call>>

(***************************************************************************)
(* ~Messenger at exit() of the supervisor, if it ever constructed its      *)
(* Messenger: the queue goes, for all that have it open.                   *)
(***************************************************************************)
RemoveQueue ==
    /\ connected' = [p \in Processes |->
                        IF connected[Parent] = "yes" /\ connected[p] = "yes"
                        THEN "stale" ELSE connected[p]]
    /\ queue' = IF connected[Parent] = "yes" THEN <<>> ELSE queue
-----------------------------------------------------------------------------
\* A child whose mutex was held by a thread that it does not have.
Stuck(c) == mutexHolder[c] \in Threads
=============================================================================
