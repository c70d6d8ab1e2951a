---------------------------- MODULE MessageQueue ----------------------------
(***************************************************************************)
(* What Communicator promises to the rest of the program: two first-in     *)
(* first-out streams of messages, creation and termination, that share one *)
(* System V queue of bounded size.  A message is the pid it names, the     *)
(* only part of the text a receiver uses.                                  *)
(***************************************************************************)
EXTENDS Naturals, Sequences

CONSTANTS
    Senders,    \* every pid a message can name
    QueueCap,   \* messages the System V queue can hold (msg_qbytes / MSG_SIZE)
    Leftovers   \* what an earlier run may have left in the queue, of either type

ASSUME QueueAssumption ==
    /\ QueueCap \in Nat
    /\ Leftovers \subseteq [creation : Seq(Senders), termination : Seq(Senders)]

VARIABLES
    creationQ,     \* messages of type CREATION_MSG, oldest first
    terminationQ   \* messages of type TERMINATION_MSG, oldest first

queueVars == <<creationQ, terminationQ>>

QueueTypeOK ==
    /\ creationQ \in Seq(Senders)
    /\ terminationQ \in Seq(Senders)

\* msgget(IPC_CREAT) opens the queue that is already there, with what it holds.
QueueInit ==
    \E left \in Leftovers :
        /\ creationQ = left.creation
        /\ terminationQ = left.termination

\* The pids a queue names.
Named(q) == {q[i] : i \in DOMAIN q}

Full == Len(creationQ) + Len(terminationQ) >= QueueCap

(***************************************************************************)
(* A send fails, and the exception is logged and forgotten, when the       *)
(* sender's own running_ flag is down or the queue stays full for          *)
(* TIMEOUT_SECS.                                                           *)
(***************************************************************************)
\* Mutant: the creation message goes out under the other type.
SendCreationWrongType(p, running) ==
    /\ terminationQ' = IF running /\ ~Full THEN Append(terminationQ, p) ELSE terminationQ
    /\ UNCHANGED creationQ

\* Mutant: the send is tried again after it succeeded.
SendCreationTwice(p, running) ==
    /\ creationQ' = IF running /\ ~Full THEN creationQ \o <<p, p>> ELSE creationQ
    /\ UNCHANGED terminationQ

SendCreation(p, running) ==
    /\ creationQ' = IF running /\ ~Full THEN Append(creationQ, p) ELSE creationQ
    /\ UNCHANGED terminationQ

SendTermination(p, running) ==
    /\ terminationQ' = IF running /\ ~Full THEN Append(terminationQ, p) ELSE terminationQ
    /\ UNCHANGED creationQ

ReceiveCreation(p) ==
    /\ creationQ # <<>>
    /\ p = Head(creationQ)
    /\ creationQ' = Tail(creationQ)
    /\ UNCHANGED terminationQ

ReceiveTermination(p) ==
    /\ terminationQ # <<>>
    /\ p = Head(terminationQ)
    /\ terminationQ' = Tail(terminationQ)
    /\ UNCHANGED creationQ
=============================================================================
