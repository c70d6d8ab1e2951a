-------------------------- MODULE MonitoringProofs --------------------------
(***************************************************************************)
(* The children of a run that replaces nobody are watched: the queue has   *)
(* room for every message they and their monitors can send, so that no     *)
(* creation message is lost and each becomes a monitor thread.             *)
(***************************************************************************)
EXTENDS ShutdownProofs

-----------------------------------------------------------------------------
(***************************************************************************)
(* A handler costs at most three messages: the child's two, and the report *)
(* of a monitor that finds it killed.  SIGKILL may come after the child's  *)
(* own last message (KillRace), so all three may be sent.  The messages    *)
(* in the queue, those still to come and those of the children still to be *)
(* made are never more than three for each of NumProcesses handlers.       *)
(***************************************************************************)
Kinds == {"creation", "termination", "report"}

MayBeSent(kind, p) ==
    \/ kind = "creation" /\ proc[p] = "born"
    \/ kind = "termination" /\ proc[p] \in Unannounced
    \/ kind = "report" /\ (proc[p] \notin {"free", "reaped"} \/ monPc[p] = "report")

Unsent == {m \in Kinds \X Pids : MayBeSent(m[1], m[2])}

\* The handlers of createHandlers that have not been forked.
Remaining ==
    IF maker.pc = "create" THEN maker.left
    ELSE IF maker.pc \in {"count", "register"} THEN maker.left - 1 ELSE 0

Queued == Len(creationQ) + Len(terminationQ)

Room ==
    /\ IsFiniteSet(Unsent)
    /\ Queued + Cardinality(Unsent) + 3 * Remaining <= 3 * NumProcesses
    /\ \A p \in Pids : monPc[p] = "report" => proc[p] = "reaped"

\* The counts are natural numbers.
LEMMA RoomNumbers ==
    ASSUME Typed
    PROVE  /\ Queued \in Nat
           /\ Remaining \in Nat
           /\ NumProcesses \in Nat \ {0}
           /\ IsFiniteSet(Unsent) => Cardinality(Unsent) \in Nat
<1>1. Queued \in Nat
    BY DEF Queued, Typed, TypeOK, QueueTypeOK
<1>2. Remaining \in Nat
    BY DEF Remaining, Typed, TypeOK, ControllerTypeOK, MakerOK
<1> QED
    BY <1>1, <1>2, ControllerAssumption, FS_CardinalityType

\* No earlier run has left a message, which would take room and might start a monitor.
EmptyLeftovers == \A left \in Leftovers : left.creation = <<>> /\ left.termination = <<>>

\* At the start all handlers are still to be made.
LEMMA InitRoom == EmptyLeftovers /\ Init => Room
<1> SUFFICES ASSUME EmptyLeftovers, Init PROVE Room
    OBVIOUS
<1>1. creationQ = <<>> /\ terminationQ = <<>>
    BY DEF Init, QueueInit, EmptyLeftovers
<1>2. /\ \A p \in Pids : monPc[p] = "none" /\ proc[p] = "free"
      /\ maker.pc = "create" /\ maker.left = NumProcesses
    BY DEF Init, MonitorInit, ChildInit, ControllerInit
<1>3. Unsent = {}
    BY <1>2 DEF Unsent, MayBeSent, Unannounced
<1>4. Queued = 0 /\ Remaining = NumProcesses
    BY <1>1, <1>2 DEF Queued, Remaining
<1>5. IsFiniteSet(Unsent) /\ Cardinality(Unsent) = 0
    BY <1>3, FS_EmptySet
<1> QED
    BY <1>2, <1>4, <1>5, ControllerAssumption DEF Room

\* A step that sends nothing and forks nothing.
LEMMA RoomKept ==
    ASSUME Typed, Typed', Room, Unsent' \subseteq Unsent, Queued' <= Queued,
           Remaining' <= Remaining,
           \A p \in Pids : monPc'[p] = "report" => proc'[p] = "reaped"
    PROVE  Room'
<1>1. /\ IsFiniteSet(Unsent')
      /\ Cardinality(Unsent') <= Cardinality(Unsent)
      /\ Cardinality(Unsent) \in Nat /\ Cardinality(Unsent') \in Nat
    BY FS_Subset, FS_CardinalityType DEF Room
<1>2. Queued \in Nat /\ Remaining \in Nat /\ NumProcesses \in Nat
    BY RoomNumbers
<1>3. Queued' \in Nat /\ Remaining' \in Nat
    BY DEF Queued, Remaining, Typed, TypeOK, QueueTypeOK, ControllerTypeOK, MakerOK
<1> QED
    BY <1>1, <1>2, <1>3 DEF Room

\* A step that sends message m, or fails to, and will not send it again.
LEMMA RoomSpent ==
    ASSUME Typed, Typed', Room, NEW m \in Unsent, Unsent' \subseteq Unsent \ {m},
           Queued' <= Queued + 1, Remaining' = Remaining,
           \A p \in Pids : monPc'[p] = "report" => proc'[p] = "reaped"
    PROVE  Room'
<1>1. /\ IsFiniteSet(Unsent \ {m})
      /\ Cardinality(Unsent \ {m}) = Cardinality(Unsent) - 1
      /\ Cardinality(Unsent) \in Nat
    BY FS_RemoveElement, FS_CardinalityType DEF Room
<1>2. /\ IsFiniteSet(Unsent')
      /\ Cardinality(Unsent') <= Cardinality(Unsent \ {m})
      /\ Cardinality(Unsent') \in Nat
    BY <1>1, FS_Subset, FS_CardinalityType
<1>3. Queued \in Nat /\ Remaining \in Nat /\ NumProcesses \in Nat
    BY RoomNumbers
<1>4. Queued' \in Nat
    BY DEF Queued, Typed, TypeOK, QueueTypeOK
<1> QED
    BY <1>1, <1>2, <1>3, <1>4 DEF Room

\* The three messages of a handler.
LEMMA ThreeMore ==
    ASSUME NEW S, IsFiniteSet(S), NEW a, NEW b, NEW c
    PROVE  /\ IsFiniteSet(S \cup {a, b, c})
           /\ Cardinality(S \cup {a, b, c}) <= Cardinality(S) + 3
           /\ Cardinality(S) \in Nat
           /\ Cardinality(S \cup {a, b, c}) \in Nat
<1>1. ASSUME NEW T, IsFiniteSet(T), NEW x
      PROVE  /\ IsFiniteSet(T \cup {x})
             /\ Cardinality(T \cup {x}) <= Cardinality(T) + 1
             /\ Cardinality(T) \in Nat
             /\ Cardinality(T \cup {x}) \in Nat
  <2>1. /\ IsFiniteSet(T \cup {x})
        /\ Cardinality(T \cup {x}) = IF x \in T THEN Cardinality(T) ELSE Cardinality(T) + 1
      BY <1>1, FS_AddElement
  <2>2. Cardinality(T) \in Nat /\ Cardinality(T \cup {x}) \in Nat
      BY <1>1, <2>1, FS_CardinalityType
  <2> QED
      BY <2>1, <2>2
<1> DEFINE A == S \cup {a}
           B == A \cup {b}
           C == B \cup {c}
<1>2. IsFiniteSet(A) /\ Cardinality(A) <= Cardinality(S) + 1
      /\ Cardinality(S) \in Nat /\ Cardinality(A) \in Nat
    BY <1>1
<1>3. IsFiniteSet(B) /\ Cardinality(B) <= Cardinality(A) + 1 /\ Cardinality(B) \in Nat
  <2> HIDE DEF A
  <2> QED
      BY <1>1, <1>2
<1>4. IsFiniteSet(C) /\ Cardinality(C) <= Cardinality(B) + 1 /\ Cardinality(C) \in Nat
  <2> HIDE DEF B
  <2> QED
      BY <1>1, <1>3
<1>5. C = S \cup {a, b, c}
    OBVIOUS
<1> HIDE DEF A, B, C
<1> QED
    BY <1>2, <1>3, <1>4, <1>5

\* While a child is about to send its creation message, the three of it are not in the
\* queue: all the others fit below QueueCap.
LEMMA RoomForOne ==
    ASSUME Typed, Room, NEW p \in Pids, proc[p] = "born", QueueCap >= 3 * NumProcesses - 2
    PROVE  ~Full
<1> DEFINE c == <<"creation", p>>
           t == <<"termination", p>>
           r == <<"report", p>>
<1>1. c \in Unsent /\ t \in Unsent /\ r \in Unsent
    BY DEF Unsent, MayBeSent, Kinds, Unannounced
<1>2. c # t /\ c # r /\ t # r
    OBVIOUS
<1> HIDE DEF c, t, r
<1>3. 3 <= Cardinality(Unsent)
  <2>1. /\ IsFiniteSet(Unsent \ {c})
        /\ Cardinality(Unsent \ {c}) = Cardinality(Unsent) - 1
        /\ Cardinality(Unsent) \in Nat
      BY <1>1, FS_RemoveElement, FS_CardinalityType DEF Room
  <2>2. /\ IsFiniteSet((Unsent \ {c}) \ {t})
        /\ Cardinality((Unsent \ {c}) \ {t}) = Cardinality(Unsent \ {c}) - 1
      BY <1>1, <1>2, <2>1, FS_RemoveElement
  <2>3. /\ Cardinality(((Unsent \ {c}) \ {t}) \ {r}) = Cardinality((Unsent \ {c}) \ {t}) - 1
        /\ Cardinality(((Unsent \ {c}) \ {t}) \ {r}) \in Nat
      BY <1>1, <1>2, <2>2, FS_RemoveElement, FS_CardinalityType
  <2> QED
      BY <2>1, <2>2, <2>3
<1>4. Queued \in Nat /\ Remaining \in Nat /\ NumProcesses \in Nat /\ QueueCap \in Nat
      /\ Cardinality(Unsent) \in Nat
    BY RoomNumbers, QueueAssumption DEF Room
<1>5. Queued < QueueCap
    BY <1>3, <1>4 DEF Room
<1> QED
    BY <1>4, <1>5 DEF Full, Queued

\* A message is dropped from those to come when its child has moved on.
LEMMA UnsentKept ==
    ASSUME \A p \in Pids : \A kind \in Kinds : MayBeSent(kind, p)' => MayBeSent(kind, p)
    PROVE  Unsent' \subseteq Unsent
<1> SUFFICES ASSUME NEW m \in Unsent' PROVE m \in Unsent
    OBVIOUS
<1>1. m \in Kinds \X Pids /\ MayBeSent(m[1], m[2])'
    BY DEF Unsent
<1>2. m[1] \in Kinds /\ m[2] \in Pids
    BY <1>1
<1>3. MayBeSent(m[1], m[2])
    BY <1>1, <1>2
<1> QED
    BY <1>1, <1>3 DEF Unsent

\* A child that is killed, or reaped by init, sends less than before.
LEMMA OuterRoom == Typed /\ Typed' /\ Room /\ OuterStep => Room'
<1> SUFFICES ASSUME Typed, Typed', Room, OuterStep PROVE Room'
    OBVIOUS
<1>1. UNCHANGED <<creationQ, terminationQ, monPc>>
    BY OuterSlots DEF slotVars
<1>2. \A p \in Pids : /\ proc'[p] = "born" => proc[p] = "born"
                      /\ proc'[p] \in Unannounced => proc[p] \in Unannounced
                      /\ proc'[p] \notin {"free", "reaped"} => proc[p] \notin {"free", "reaped"}
                      /\ proc[p] = "reaped" => proc'[p] = "reaped"
    BY OuterChildren DEF Killing, Reaping, Alive, Unannounced
<1>3. Unsent' \subseteq Unsent
    BY <1>1, <1>2, UnsentKept DEF MayBeSent
<1>4. Remaining' <= Remaining
  <2>1. \/ UNCHANGED maker
        \/ maker' = [maker EXCEPT !.pc = "check"]
      BY OuterMaker
  <2>2. Remaining' = Remaining \/ Remaining' = 0
      BY <2>1 DEF Remaining, Typed, TypeOK, ControllerTypeOK
  <2> QED
      BY <2>2, RoomNumbers
<1>5. Queued' = Queued /\ Queued \in Nat
    BY <1>1, RoomNumbers DEF Queued
<1>6. \A p \in Pids : monPc'[p] = "report" => proc'[p] = "reaped"
    BY <1>1, <1>2 DEF Room
<1> QED
    BY <1>3, <1>4, <1>5, <1>6, RoomKept

\* fork() takes one handler off those that remain, and adds its three messages.
LEMMA MakerRoom == Typed /\ Typed' /\ FirstOnly /\ Room /\ MakerStep => Room'
<1> SUFFICES ASSUME Typed, Typed', FirstOnly, Room, MakerStep PROVE Room'
    OBVIOUS
<1>1. UNCHANGED <<creationQ, terminationQ, monPc>>
    BY DEF MakerStep, MakerFork, MakerForkFails, MakerCount, MakerRegister, RestoreCheck,
           RestoreSize, RestoreEnds, componentVars, queueVars, monitorVars
<1>2. Queued' = Queued /\ Queued \in Nat /\ Remaining \in Nat
    BY <1>1, RoomNumbers DEF Queued
<1>3. ASSUME NEW p \in Pids, MakerFork(p) PROVE Room'
  <2>1. proc' = [proc EXCEPT ![p] = "born"] /\ Available(p)
      BY <1>3 DEF MakerFork, ForkProcess
  <2>2. \A r \in Pids : r # p => proc'[r] = proc[r]
      BY <2>1 DEF Typed, TypeOK, ChildTypeOK
  <2>3. monPc[p] # "report"
      BY <2>1 DEF Available, InUse, Room
  <2>4. Unsent' \subseteq Unsent \cup {<<"creation", p>>, <<"termination", p>>, <<"report", p>>}
    <3> SUFFICES ASSUME NEW m \in Unsent', m[2] # p PROVE m \in Unsent
        BY DEF Unsent, Kinds
    <3>1. m \in Kinds \X Pids /\ MayBeSent(m[1], m[2])'
        BY DEF Unsent
    <3>2. m[2] \in Pids
        BY <3>1
    <3>3. MayBeSent(m[1], m[2])
        BY <1>1, <2>2, <3>1, <3>2 DEF MayBeSent
    <3> QED
        BY <3>1, <3>3 DEF Unsent
  <2> DEFINE More == Unsent \cup {<<"creation", p>>, <<"termination", p>>, <<"report", p>>}
  <2>5. /\ IsFiniteSet(More)
        /\ Cardinality(More) <= Cardinality(Unsent) + 3
        /\ Cardinality(More) \in Nat /\ Cardinality(Unsent) \in Nat
      BY ThreeMore DEF Room
  <2>6. /\ IsFiniteSet(Unsent')
        /\ Cardinality(Unsent') <= Cardinality(More)
        /\ Cardinality(Unsent') \in Nat
      BY <2>4, <2>5, FS_Subset, FS_CardinalityType
  <2> HIDE DEF More
  <2>7. Remaining' = Remaining - 1
      BY <1>3 DEF MakerFork, Remaining, Typed, TypeOK, ControllerTypeOK
  <2>8. Queued' + Cardinality(Unsent') + 3 * Remaining' <= 3 * NumProcesses
    <3>1. NumProcesses \in Nat
        BY RoomNumbers
    <3> QED
        BY <1>2, <2>5, <2>6, <2>7, <3>1 DEF Room
  <2>9. \A r \in Pids : monPc'[r] = "report" => proc'[r] = "reaped"
      BY <1>1, <2>2, <2>3 DEF Room
  <2> QED
      BY <2>6, <2>8, <2>9 DEF Room
<1>4. CASE MakerForkFails
  <2>1. Reaping /\ UNCHANGED maker
      BY <1>4, EndReaps DEF MakerForkFails, controllerVars
  <2>2. Unsent' \subseteq Unsent
      BY <1>1, <2>1, UnsentKept DEF Reaping, MayBeSent, Unannounced
  <2>3. Remaining' <= Remaining
      BY <1>2, <2>1 DEF Remaining
  <2>4. \A r \in Pids : monPc'[r] = "report" => proc'[r] = "reaped"
      BY <1>1, <2>1 DEF Room, Reaping
  <2> QED
      BY <1>2, <2>2, <2>3, <2>4, RoomKept
<1>5. CASE MakerCount \/ MakerRegister \/ RestoreEnds
  <2>1. UNCHANGED proc
      BY <1>5 DEF MakerCount, MakerRegister, RestoreEnds, componentVars, childVars
  <2>2. Unsent' \subseteq Unsent
      BY <1>1, <2>1, UnsentKept DEF MayBeSent
  <2>3. Remaining' <= Remaining
    <3>1. CASE MakerRegister
      <4>1. maker.left \in Nat /\ maker.left >= 1 /\ maker.pc = "register"
          BY <3>1 DEF MakerRegister, Typed, TypeOK, ControllerTypeOK, MakerOK
      <4>2. /\ maker'.left = maker.left - 1
            /\ maker'.pc = "create" => maker.left > 1
            /\ maker'.pc \notin {"count", "register"}
          BY <3>1 DEF MakerRegister
      <4> QED
          BY <4>1, <4>2 DEF Remaining
    <3>2. CASE MakerCount \/ RestoreEnds
        BY <1>2, <3>2 DEF MakerCount, RestoreEnds, Remaining, Typed, TypeOK, ControllerTypeOK
    <3> QED
        BY <1>5, <3>1, <3>2
  <2>4. \A r \in Pids : monPc'[r] = "report" => proc'[r] = "reaped"
      BY <1>1, <2>1 DEF Room
  <2> QED
      BY <1>2, <2>2, <2>3, <2>4, RoomKept
<1>6. ~RestoreSize /\ ~RestoreCheck
    BY DEF RestoreSize, RestoreCheck, FirstOnly
<1> QED
    BY <1>3, <1>4, <1>5, <1>6 DEF MakerStep

\* A receive makes room.
LEMMA ReceiverRoom ==
    Typed /\ Typed' /\ Room /\ (CreatorStep \/ TerminatorStep) => Room'
<1> SUFFICES ASSUME Typed, Typed', Room, CreatorStep \/ TerminatorStep PROVE Room'
    OBVIOUS
<1>1. UNCHANGED <<proc, maker>>
    BY DEF CreatorStep, CreateMonitorThread, CreatorEnds, TerminatorStep, TerminatorReceive,
           TerminatorFind, TerminatorMark, TerminatorEnds, componentVars, childVars,
           controllerVars
<1>2. \A p \in Pids : monPc'[p] = "report" => monPc[p] = "report"
    BY DEF CreatorStep, CreateMonitorThread, CreatorEnds, CreateMonitorProcessThread,
           TerminatorStep, TerminatorReceive, TerminatorFind, TerminatorMark, TerminatorEnds,
           componentVars, monitorVars, Typed, TypeOK, MonitorTypeOK
<1>3. Queued' <= Queued
  <2>1. creationQ \in Seq(Senders) /\ terminationQ \in Seq(Senders)
      BY DEF Typed, TypeOK, QueueTypeOK
  <2>2. CASE UNCHANGED <<creationQ, terminationQ>>
      BY <2>1, <2>2 DEF Queued
  <2>3. CASE /\ creationQ # <<>> /\ creationQ' = Tail(creationQ)
             /\ UNCHANGED terminationQ
      BY <2>1, <2>3 DEF Queued
  <2>4. CASE /\ terminationQ # <<>> /\ terminationQ' = Tail(terminationQ)
             /\ UNCHANGED creationQ
      BY <2>1, <2>4 DEF Queued
  <2> QED
      BY <2>2, <2>3, <2>4
         DEF CreatorStep, CreateMonitorThread, ReceiveCreation, CreatorEnds, TerminatorStep,
             TerminatorReceive, ReceiveTermination, TerminatorFind, TerminatorMark,
             TerminatorEnds, componentVars, queueVars
<1>4. Unsent' \subseteq Unsent
    BY <1>1, <1>2, UnsentKept DEF MayBeSent
<1>5. Remaining' <= Remaining
    BY <1>1, RoomNumbers DEF Remaining
<1>6. \A p \in Pids : monPc'[p] = "report" => proc'[p] = "reaped"
    BY <1>1, <1>2 DEF Room
<1> QED
    BY <1>3, <1>4, <1>5, <1>6, RoomKept

\* A child sends each of its messages once.
LEMMA ChildRoom ==
    ASSUME Typed, Typed', Room, NEW p \in Pids, ChildStep(p)
    PROVE  Room'
<1>1. UNCHANGED <<monPc, maker>>
    BY DEF ChildStep, ChildSendsCreation, ChildSendsTermination, ChildExits, parentVars,
           monitorVars, controllerVars
<1>2. Queued \in Nat /\ Remaining \in Nat /\ Remaining' = Remaining
    BY <1>1, RoomNumbers DEF Remaining
<1>3. Queued' <= Queued + 1
  <2>1. creationQ \in Seq(Senders) /\ terminationQ \in Seq(Senders) /\ p \in Senders
      BY ControllerAssumption DEF Typed, TypeOK, QueueTypeOK
  <2>2. \/ UNCHANGED <<creationQ, terminationQ>>
        \/ creationQ' = Append(creationQ, p) /\ UNCHANGED terminationQ
        \/ terminationQ' = Append(terminationQ, p) /\ UNCHANGED creationQ
      BY DEF ChildStep, ChildSendsCreation, SendCreation, ChildSendsTermination,
             SendTermination, ChildExits, queueVars
  <2> QED
      BY <2>1, <2>2 DEF Queued
<1>4. \A r \in Pids : r # p => proc'[r] = proc[r]
    BY DEF ChildStep, ChildSendsCreation, PreWork, ChildSendsTermination, PostWork,
           ChildExits, ExitProcess, Typed, TypeOK, ChildTypeOK
<1>5. proc[p] # "reaped"
    BY DEF ChildStep, ChildSendsCreation, PreWork, ChildSendsTermination, PostWork,
           ChildExits, ExitProcess
<1>6. \A r \in Pids : monPc'[r] = "report" => proc'[r] = "reaped"
    BY <1>1, <1>4, <1>5 DEF Room
<1>7. monPc[p] # "report"
    BY <1>5 DEF Room
<1>8. ASSUME NEW kind \in Kinds, MayBeSent(kind, p), ~MayBeSent(kind, p)',
             \A k \in Kinds : MayBeSent(k, p)' => MayBeSent(k, p)
      PROVE  Room'
  <2>1. \A r \in Pids : \A k \in Kinds : MayBeSent(k, r)' => MayBeSent(k, r)
    <3> SUFFICES ASSUME NEW r \in Pids, r # p, NEW k \in Kinds, MayBeSent(k, r)'
                 PROVE  MayBeSent(k, r)
        BY <1>8
    <3> QED
        BY <1>1, <1>4 DEF MayBeSent
  <2>2. Unsent' \subseteq Unsent
      BY <2>1, UnsentKept
  <2>3. <<kind, p>> \in Unsent /\ <<kind, p>> \notin Unsent'
      BY <1>8 DEF Unsent
  <2> QED
      BY <1>2, <1>3, <1>6, <2>2, <2>3, RoomSpent
<1>9. CASE ChildSendsCreation(p)
  <2>1. proc[p] = "born" /\ proc'[p] = "working"
      BY <1>9 DEF ChildSendsCreation, PreWork, Typed, TypeOK, ChildTypeOK
  <2> QED
      BY <1>8, <2>1 DEF MayBeSent, Kinds, Unannounced
<1>10. CASE ChildSendsTermination(p)
  <2>1. proc[p] = "working" /\ proc'[p] = "announced"
      BY <1>10 DEF ChildSendsTermination, PostWork, Typed, TypeOK, ChildTypeOK
  <2> QED
      BY <1>8, <2>1 DEF MayBeSent, Kinds, Unannounced
<1>11. CASE ChildExits(p)
  <2>1. proc[p] = "announced" /\ proc'[p] \in {"exited", "reaped"}
      BY <1>11 DEF ChildExits, ExitProcess, Typed, TypeOK, ChildTypeOK
  <2>2. \A r \in Pids : \A k \in Kinds : MayBeSent(k, r)' => MayBeSent(k, r)
      BY <1>1, <1>4, <2>1 DEF MayBeSent, Unannounced
  <2>3. Queued' <= Queued
      BY <1>2, <1>11 DEF ChildExits, queueVars, Queued
  <2> QED
      BY <1>2, <1>6, <2>2, <2>3, UnsentKept, RoomKept
<1> QED
    BY <1>9, <1>10, <1>11 DEF ChildStep

\* A monitor reports a child that it has reaped, once.
LEMMA MonitorRoom ==
    ASSUME Typed, Typed', Room, NEW p \in Pids, MonitorStep(p)
    PROVE  Room'
<1>1. UNCHANGED maker
    BY DEF MonitorStep, monitorRest, controllerVars
<1>2. Queued \in Nat /\ Remaining \in Nat /\ Remaining' = Remaining
    BY <1>1, RoomNumbers DEF Remaining
<1>3. \A r \in Pids : r # p => proc'[r] = proc[r] /\ monPc'[r] = monPc[r]
    BY DEF MonitorStep, MonitorBegin, MonitorPoll, MonitorLeaves, MonitorReport, MonitorStop,
           childVars, Typed, TypeOK, ChildTypeOK, MonitorTypeOK
<1>4. CASE MonitorReport(p)
  <2>1. /\ monPc[p] = "report" /\ monPc'[p] = "stop"
        /\ proc[p] = "reaped" /\ UNCHANGED proc
      BY <1>4 DEF MonitorReport, childVars, Room, Typed, TypeOK, MonitorTypeOK
  <2>2. \A r \in Pids : \A k \in Kinds : MayBeSent(k, r)' => MayBeSent(k, r)
      BY <1>3, <2>1 DEF MayBeSent, Unannounced
  <2>3. <<"report", p>> \in Unsent /\ <<"report", p>> \notin Unsent'
      BY <2>1 DEF Unsent, MayBeSent, Kinds
  <2>4. Queued' <= Queued + 1
    <3>1. terminationQ \in Seq(Senders) /\ creationQ \in Seq(Senders) /\ p \in Senders
        BY ControllerAssumption DEF Typed, TypeOK, QueueTypeOK
    <3>2. /\ terminationQ' = terminationQ \/ terminationQ' = Append(terminationQ, p)
          /\ UNCHANGED creationQ
        BY <1>4 DEF MonitorReport, SendTermination
    <3> QED
        BY <3>1, <3>2 DEF Queued
  <2>5. \A r \in Pids : monPc'[r] = "report" => proc'[r] = "reaped"
      BY <1>3, <2>1 DEF Room
  <2> QED
      BY <1>2, <2>2, <2>3, <2>4, <2>5, UnsentKept, RoomSpent
<1>5. CASE ~MonitorReport(p)
  <2>1. Queued' <= Queued
      BY <1>2, <1>5 DEF MonitorStep, MonitorBegin, MonitorPoll, MonitorLeaves, MonitorStop,
                        queueVars, Queued
  <2>2. monPc[p] # "report"
      BY <1>5 DEF MonitorStep, MonitorBegin, MonitorPoll, MonitorLeaves, MonitorStop
  <2>3. \/ proc'[p] = proc[p] /\ monPc'[p] # "report"
        \/ proc[p] \in {"killed", "exited"} /\ proc'[p] = "reaped"
    <3>1. CASE MonitorPoll(p)
        BY <3>1 DEF MonitorPoll, AfterPoll, Typed, TypeOK, ChildTypeOK, MonitorTypeOK,
                    Unannounced
    <3>2. CASE ~MonitorPoll(p)
        BY <1>5, <3>2 DEF MonitorStep, MonitorBegin, MonitorLeaves, MonitorStop, childVars,
                          Typed, TypeOK, MonitorTypeOK
    <3> QED
        BY <3>1, <3>2
  <2>4. \A r \in Pids : \A k \in Kinds : MayBeSent(k, r)' => MayBeSent(k, r)
      BY <1>3, <2>3 DEF MayBeSent, Unannounced
  <2>5. \A r \in Pids : monPc'[r] = "report" => proc'[r] = "reaped"
      BY <1>3, <2>3 DEF Room
  <2> QED
      BY <1>2, <2>1, <2>4, <2>5, UnsentKept, RoomKept
<1> QED
    BY <1>4, <1>5

\* Every step of the program keeps the room.
LEMMA NextRoom == Typed /\ FirstOnly /\ Room /\ [Next]_vars => Room'
<1> SUFFICES ASSUME Typed, FirstOnly, Room, [Next]_vars PROVE Room'
    OBVIOUS
<1>1. Typed'
    BY NextTyped
<1>2. CASE UNCHANGED vars
    BY <1>2 DEF vars, childVars, queueVars, monitorVars, controllerVars, Room, Unsent,
                MayBeSent, Queued, Remaining
<1>3. CASE Done
    BY <1>2, <1>3 DEF Done
<1>4. CASE OuterStep
    BY <1>1, <1>4, OuterRoom
<1>5. CASE MakerStep \/ CreatorStep \/ TerminatorStep
    BY <1>1, <1>5, MakerRoom, ReceiverRoom
<1>6. ASSUME NEW p \in Pids, ChildStep(p) \/ MonitorStep(p) PROVE Room'
    BY <1>1, <1>6, ChildRoom, MonitorRoom
<1> QED
    BY <1>2, <1>3, <1>4, <1>5, <1>6 DEF Next, OuterStep

-----------------------------------------------------------------------------
(***************************************************************************)
(* While the program runs, a child that works has a monitor thread or a    *)
(* creation message on its way.  The thread is not stopped before the      *)
(* child is over: only the terminator clears monitor_, and the chain of    *)
(* termination messages tells it only of children that are.                *)
(***************************************************************************)
WatchedChild(p) ==
    /\ proc[p] # "free" => running_[p]
    /\ proc[p] = "working" => Monitored(p)
    /\ monPc[p] = "loop" /\ proc[p] \in Unannounced => monitor_[p]
    /\ monPc[p] \in {"report", "stop"} => proc[p] \in Finished

Watched ==
    /\ Named(creationQ) \subseteq Pids
    /\ \A p \in Pids : monitor_[p] => monPc[p] \in {"loop", "report", "stop"}
    /\ parent = "up" /\ running_[Parent] => \A p \in Pids : WatchedChild(p)

\* At the start there is nobody to watch.
LEMMA InitWatched == EmptyLeftovers /\ Init => Watched
<1> SUFFICES ASSUME EmptyLeftovers, Init PROVE Watched
    OBVIOUS
<1>1. creationQ = <<>> /\ Named(creationQ) = {}
    BY DEF Init, QueueInit, EmptyLeftovers, Named
<1>2. \A p \in Pids : proc[p] = "free" /\ monPc[p] = "none"
    BY DEF Init, ChildInit, MonitorInit
<1>3. \A p \in Pids : ~monitor_[p]
    BY Zenon DEF Init, MonitorInit
<1> QED
    BY <1>1, <1>2, <1>3 DEF Watched, WatchedChild, Unannounced

\* Neither of the two flags that end the watch is ever raised again.
Ongoing ==
    /\ parent' = "up" => parent = "up"
    /\ running_'[Parent] => running_[Parent]

\* Every step of the program, a fork included, leaves them so.
LEMMA NextOngoing == Typed /\ [Next]_vars => Ongoing
<1> SUFFICES ASSUME Typed, [Next]_vars PROVE Ongoing
    OBVIOUS
<1>1. CASE UNCHANGED vars
    BY <1>1 DEF vars, childVars, Ongoing
<1>2. CASE Done
    BY <1>1, <1>2 DEF Done
<1>3. CASE OuterStep
  <2>1. parent' = "up" => parent = "up"
      BY <1>3, OuterChildren DEF Killing, Reaping
  <2>2. running_' = running_ \/ running_' = [running_ EXCEPT ![Parent] = FALSE]
      BY <1>3
         DEF OuterStep, MainStep, MainRuns, StartThreads, MainTestsPredicate, MainBlocks,
             SpuriousWakeup, JoinThreads, ExitStep, StartReader, StopReader, JoinReader,
             MainReturns, ParentEnds, ReaderStep, ReaderLoop, TakeSnapshot, SignalNext, Signal,
             QuitGoesOnToKill, QuitNotifies, StopCommandReturns, UserStep, OtherCommand,
             PauseCommand, RespawnCommand, StopCommand, SignalOneCommand, EnvironmentStep,
             Crash, ExternalKill, Interrupt, CloseInput, componentVars, programVars, childVars
  <2>3. running_'[Parent] => running_[Parent]
      BY <2>2, Zenon DEF Typed, TypeOK, ChildTypeOK, Processes
  <2> QED
      BY <2>1, <2>3 DEF Ongoing
<1>4. CASE MakerStep
  <2>1. ASSUME NEW p \in Pids, MakerFork(p) PROVE Ongoing
    <3>1. /\ running_' = [running_ EXCEPT ![p] = running_[Parent]]
          /\ UNCHANGED parent
        BY <2>1 DEF MakerFork, ForkProcess
    <3>2. p # Parent /\ Parent \in Processes
        BY ChildAssumption DEF Processes
    <3>3. running_'[Parent] = running_[Parent]
        BY <3>1, <3>2, Zenon DEF Typed, TypeOK, ChildTypeOK
    <3> QED
        BY <3>1, <3>3 DEF Ongoing
  <2>2. CASE MakerForkFails
      BY <2>2 DEF MakerForkFails, ParentEnds, Ongoing
  <2> QED
      BY <1>4, <2>1, <2>2
         DEF MakerStep, MakerCount, MakerRegister, RestoreCheck, RestoreSize, RestoreEnds,
             componentVars, childVars, Ongoing
<1>5. CASE CreatorStep \/ TerminatorStep
    BY <1>5 DEF CreatorStep, CreateMonitorThread, CreatorEnds, TerminatorStep,
                TerminatorReceive, TerminatorFind, TerminatorMark, TerminatorEnds,
                componentVars, childVars, Ongoing
<1>6. ASSUME NEW p \in Pids, ChildStep(p) \/ MonitorStep(p) PROVE Ongoing
    BY <1>6 DEF ChildStep, ChildSendsCreation, PreWork, ChildSendsTermination, PostWork,
                ChildExits, ExitProcess, MonitorStep, MonitorBegin, MonitorPoll,
                MonitorLeaves, MonitorReport, MonitorStop, childVars, Ongoing
<1> QED
    BY <1>1, <1>2, <1>3, <1>4, <1>5, <1>6 DEF Next, OuterStep

\* A step that starts no child and has to do with no monitor.
LEMMA WatchedKept ==
    ASSUME Watched, Ongoing, UNCHANGED <<creationQ, monPc, monitor_>>,
           \A p \in Pids : running_'[p] = running_[p],
           \A p \in Pids : proc'[p] = proc[p]
                             \/ (proc[p] # "free" /\ proc'[p] \in Finished)
    PROVE  Watched'
<1>1. \A s \in Finished : s \notin Unannounced \cup {"working", "free"}
    BY DEF Finished, Unannounced
<1>2. \A p \in Pids : WatchedChild(p) => WatchedChild(p)'
  <2> SUFFICES ASSUME NEW p \in Pids, WatchedChild(p) PROVE WatchedChild(p)'
      OBVIOUS
  <2> QED
      BY <1>1 DEF WatchedChild, Monitored
<1> QED
    BY <1>2 DEF Watched, Ongoing

\* main(), the console and the world only end children.
LEMMA OuterWatched == Typed /\ Ongoing /\ Watched /\ OuterStep => Watched'
<1> SUFFICES ASSUME Typed, Ongoing, Watched, OuterStep PROVE Watched'
    OBVIOUS
<1>1. UNCHANGED <<creationQ, monPc>>
    BY OuterSlots DEF slotVars
<1>2. UNCHANGED monitor_
    BY DEF OuterStep, MainStep, MainRuns, StartThreads, MainTestsPredicate, MainBlocks,
           SpuriousWakeup, JoinThreads, ExitStep, StartReader, StopReader, JoinReader,
           MainReturns, ReaderStep, ReaderLoop, TakeSnapshot, SignalNext,
           QuitGoesOnToKill, QuitNotifies, StopCommandReturns, UserStep, OtherCommand,
           PauseCommand, RespawnCommand, StopCommand, SignalOneCommand, EnvironmentStep,
           Crash, ExternalKill, Interrupt, CloseInput, componentVars, programVars, parentVars,
           monitorVars
<1>3. running_' = running_ \/ running_' = [running_ EXCEPT ![Parent] = FALSE]
    BY DEF OuterStep, MainStep, MainRuns, StartThreads, MainTestsPredicate, MainBlocks,
           SpuriousWakeup, JoinThreads, ExitStep, StartReader, StopReader, JoinReader,
           MainReturns, ParentEnds, ReaderStep, ReaderLoop, TakeSnapshot, SignalNext, Signal,
           QuitGoesOnToKill, QuitNotifies, StopCommandReturns, UserStep, OtherCommand,
           PauseCommand, RespawnCommand, StopCommand, SignalOneCommand, EnvironmentStep,
           Crash, ExternalKill, Interrupt, CloseInput, componentVars, programVars, childVars
<1>4. \A p \in Pids : running_'[p] = running_[p]
  <2>1. Parent \notin Pids
      BY ChildAssumption
  <2> QED
      BY <1>3, <2>1, Zenon DEF Typed, TypeOK, ChildTypeOK, Processes
<1>5. \A p \in Pids : proc'[p] = proc[p] \/ (proc[p] # "free" /\ proc'[p] \in Finished)
    BY OuterChildren DEF Killing, Reaping, Alive, Unannounced, Finished
<1> QED
    BY <1>1, <1>2, <1>4, <1>5, WatchedKept

\* A child that is forked has the flag of the parent, and no monitor of another before it.
LEMMA MakerWatched ==
    Typed /\ FreshPids /\ OnceMonitored /\ Ongoing /\ Watched /\ MakerStep => Watched'
<1> SUFFICES ASSUME Typed, FreshPids, OnceMonitored, Ongoing, Watched, MakerStep PROVE Watched'
    OBVIOUS
<1>1. UNCHANGED <<creationQ, monPc, monitor_>>
    BY DEF MakerStep, MakerFork, MakerForkFails, MakerCount, MakerRegister, RestoreCheck,
           RestoreSize, RestoreEnds, componentVars, queueVars, monitorVars
<1>2. ASSUME NEW p \in Pids, MakerFork(p) PROVE Watched'
  <2>1. /\ proc[p] = "free"
        /\ proc' = [proc EXCEPT ![p] = "born"]
        /\ running_' = [running_ EXCEPT ![p] = running_[Parent]]
      BY <1>2 DEF MakerFork, FreshPids, ForkProcess
  <2>2. monPc[p] = "none"
      BY <2>1 DEF OnceMonitored, Unheard
  <2>3. proc'[p] = "born" /\ \A r \in Pids : r # p => proc'[r] = proc[r]
      BY <2>1 DEF Typed, TypeOK, ChildTypeOK
  <2>4. p \in Processes
      BY DEF Processes
  <2>5. /\ running_'[p] = running_[Parent]
        /\ \A r \in Pids : r # p => running_'[r] = running_[r]
      BY <2>1, <2>4, Zenon DEF Typed, TypeOK, ChildTypeOK, Processes
  <2>6. ASSUME parent' = "up", running_'[Parent], NEW r \in Pids PROVE WatchedChild(r)'
    <3>1. parent = "up" /\ running_[Parent]
        BY <2>6 DEF Ongoing
    <3>2. WatchedChild(r)
        BY <3>1 DEF Watched
    <3>3. CASE r = p
        BY <1>1, <2>2, <2>3, <2>5, <3>1, <3>3 DEF WatchedChild
    <3>4. CASE r # p
        BY <1>1, <2>3, <2>5, <3>2, <3>4 DEF WatchedChild, Monitored
    <3> QED
        BY <3>3, <3>4
  <2> QED
      BY <1>1, <2>6 DEF Watched
<1>3. CASE MakerForkFails
  <2>1. Reaping /\ UNCHANGED running_
      BY <1>3, EndReaps DEF MakerForkFails, ParentEnds
  <2> QED
      BY <1>1, <2>1, WatchedKept DEF Reaping, Finished
<1>4. CASE MakerCount \/ MakerRegister \/ RestoreCheck \/ RestoreSize \/ RestoreEnds
  <2>1. UNCHANGED <<proc, running_>>
      BY <1>4 DEF MakerCount, MakerRegister, RestoreCheck, RestoreSize, RestoreEnds,
                  componentVars, childVars
  <2> QED
      BY <1>1, <2>1, WatchedKept
<1> QED
    BY <1>2, <1>3, <1>4 DEF MakerStep

\* A creation message becomes a monitor thread: the handler of its child is registered, and
\* has no thread yet.
LEMMA CreatorWatched ==
    Typed /\ FirstOnly /\ OnceMonitored /\ Ongoing /\ Watched /\ CreatorStep => Watched'
<1> SUFFICES ASSUME Typed, FirstOnly, OnceMonitored, Ongoing, Watched, CreatorStep
             PROVE  Watched'
    OBVIOUS
<1>1. UNCHANGED <<proc, running_, parent, monitor_>>
    BY DEF CreatorStep, CreateMonitorThread, CreatorEnds, CreateMonitorProcessThread,
           componentVars, childVars, monitorVars
<1>2. CASE CreatorEnds
    BY <1>1, <1>2, WatchedKept DEF CreatorEnds, componentVars, queueVars, monitorVars
<1>3. CASE CreateMonitorThread
  <2>1. PICK p \in Senders :
           /\ ReceiveCreation(p)
           /\ IF HasMonitor(p) /\ ~monitor_[p]
              THEN CreateMonitorProcessThread(p)
              ELSE UNCHANGED monitorVars
      BY <1>3 DEF CreateMonitorThread
  <2>2. creationQ \in Seq(Senders) /\ creationQ # <<>> /\ p = Head(creationQ)
        /\ creationQ' = Tail(creationQ) /\ NoRepeat(creationQ)
      BY <2>1 DEF ReceiveCreation, Typed, TypeOK, QueueTypeOK, OnceMonitored
  <2>3. p \in Named(creationQ) /\ Named(creationQ') = Named(creationQ) \ {p}
    <3>1. p \in Named(creationQ)
        BY <2>2, TakeFirst
    <3>2. p \in Pids
        BY <3>1 DEF Watched
    <3> QED
        BY <2>2, <3>2, TakeFirst
  <2>4. p \in Pids /\ proc[p] \notin Unheard /\ monPc[p] = "none"
      BY <2>3 DEF Watched, OnceMonitored
  <2>5. HasMonitor(p)
    <3>1. InHand = {}
        BY <1>3 DEF CreateMonitorThread, FirstOnly, Making, InHand
    <3> QED
        BY <2>4, <3>1 DEF FirstOnly, HasMonitor, Unheard
  <2>6. ~monitor_[p]
      BY <2>4 DEF Watched
  <2>7. monPc' = [monPc EXCEPT ![p] = "started"]
      BY <2>1, <2>5, <2>6 DEF CreateMonitorProcessThread
  <2>8. monPc'[p] = "started" /\ \A r \in Pids : r # p => monPc'[r] = monPc[r]
      BY <2>7, <2>4 DEF Typed, TypeOK, MonitorTypeOK
  <2>9. \A r \in Pids : WatchedChild(r) => WatchedChild(r)'
    <3> SUFFICES ASSUME NEW r \in Pids, WatchedChild(r) PROVE WatchedChild(r)'
        OBVIOUS
    <3>1. CASE r = p
        BY <1>1, <2>8, <3>1 DEF WatchedChild, Monitored
    <3>2. CASE r # p
        BY <1>1, <2>3, <2>8, <3>2 DEF WatchedChild, Monitored
    <3> QED
        BY <3>1, <3>2
  <2> QED
      BY <1>1, <2>3, <2>6, <2>8, <2>9 DEF Watched
<1> QED
    BY <1>2, <1>3 DEF CreatorStep

\* The terminator stops only the monitors of children that are over.
LEMMA TerminatorWatched == Typed /\ Chain /\ Ongoing /\ Watched /\ TerminatorStep => Watched'
<1> SUFFICES ASSUME Typed, Chain, Ongoing, Watched, TerminatorStep PROVE Watched'
    OBVIOUS
<1>1. UNCHANGED <<proc, running_, parent, monPc, creationQ>>
    BY DEF TerminatorStep, TerminatorReceive, ReceiveTermination, TerminatorFind,
           TerminatorMark, TerminatorEnds, componentVars, childVars, queueVars, monitorVars
<1>2. CASE UNCHANGED monitor_
    BY <1>1, <1>2, WatchedKept
<1>3. CASE TerminatorFind /\ HasMonitor(terminator.pid)
  <2> DEFINE p == terminator.pid
  <2>1. p \in Pids /\ proc[p] \in Finished
      BY <1>3 DEF TerminatorFind, HasMonitor, Chain, Typed, TypeOK, RegistryTypeOK
  <2>2. monitor_' = [monitor_ EXCEPT ![p] = FALSE]
      BY <1>3 DEF TerminatorFind
  <2> HIDE DEF p
  <2>3. /\ monitor_'[p] = FALSE
        /\ \A r \in Pids : r # p => monitor_'[r] = monitor_[r]
      BY <2>1, <2>2, Zenon DEF Typed, TypeOK, MonitorTypeOK
  <2>4. \A r \in Pids : WatchedChild(r) => WatchedChild(r)'
    <3> SUFFICES ASSUME NEW r \in Pids, WatchedChild(r) PROVE WatchedChild(r)'
        OBVIOUS
    <3>1. CASE r = p
        BY <1>1, <2>1, <3>1 DEF WatchedChild, Monitored, Finished, Unannounced
    <3>2. CASE r # p
        BY <1>1, <2>3, <3>2 DEF WatchedChild, Monitored
    <3> QED
        BY <3>1, <3>2
  <2> QED
      BY <1>1, <2>3, <2>4 DEF Watched, Ongoing
<1> QED
    BY <1>2, <1>3 DEF TerminatorStep, TerminatorReceive, TerminatorFind, TerminatorMark,
                      TerminatorEnds, componentVars, monitorVars

\* A child works only after its creation message is in the queue.
LEMMA ChildWatched ==
    ASSUME Typed, Room, Ongoing, Watched, QueueCap >= 3 * NumProcesses - 2,
           NEW p \in Pids, ChildStep(p)
    PROVE  Watched'
<1>1. UNCHANGED <<running_, monPc, monitor_>>
    BY DEF ChildStep, ChildSendsCreation, PreWork, ChildSendsTermination, PostWork, ChildExits,
           ExitProcess, parentVars, monitorVars
<1>2. CASE ChildSendsCreation(p)
  <2>1. /\ proc[p] = "born" /\ proc' = [proc EXCEPT ![p] = "working"]
        /\ creationQ' = IF running_[p] /\ ~Full THEN Append(creationQ, p) ELSE creationQ
      BY <1>2 DEF ChildSendsCreation, PreWork, SendCreation
  <2>2. proc'[p] = "working" /\ \A r \in Pids : r # p => proc'[r] = proc[r]
      BY <2>1 DEF Typed, TypeOK, ChildTypeOK
  <2>3. ~Full
      BY <2>1, RoomForOne
  <2>4. creationQ \in Seq(Senders) /\ p \in Senders
      BY ControllerAssumption DEF Typed, TypeOK, QueueTypeOK
  <2>5. Named(creationQ') \subseteq Named(creationQ) \cup {p}
      BY <2>1, <2>4, NamedAppend
  <2>6. Named(creationQ) \subseteq Named(creationQ')
      BY <2>1, <2>4 DEF Named
  <2>7. running_[p] => p \in Named(creationQ')
    <3> SUFFICES ASSUME running_[p] PROVE p \in Named(creationQ')
        OBVIOUS
    <3>1. creationQ' = Append(creationQ, p)
        BY <2>1, <2>3
    <3>2. Len(creationQ) + 1 \in DOMAIN creationQ' /\ creationQ'[Len(creationQ) + 1] = p
        BY <2>4, <3>1
    <3> QED
        BY <3>2 DEF Named
  <2>8. \A r \in Pids : WatchedChild(r) => WatchedChild(r)'
    <3> SUFFICES ASSUME NEW r \in Pids, WatchedChild(r) PROVE WatchedChild(r)'
        OBVIOUS
    <3>1. CASE r = p
      <4>1. running_[p] /\ monPc[p] \notin {"report", "stop"}
            /\ (monPc[p] = "loop" => monitor_[p])
          BY <2>1, <3>1 DEF WatchedChild, Unannounced, Finished
      <4> QED
          BY <1>1, <2>7, <3>1, <4>1 DEF WatchedChild, Monitored
    <3>2. CASE r # p
        BY <1>1, <2>2, <2>6, <3>2 DEF WatchedChild, Monitored
    <3> QED
        BY <3>1, <3>2
  <2> QED
      BY <1>1, <2>5, <2>8 DEF Watched, Ongoing
<1>3. CASE ChildSendsTermination(p) \/ ChildExits(p)
  <2>1. UNCHANGED creationQ
      BY <1>3 DEF ChildSendsTermination, SendTermination, ChildExits, queueVars
  <2>2. \A r \in Pids : proc'[r] = proc[r] \/ (proc[r] # "free" /\ proc'[r] \in Finished)
      BY <1>3 DEF ChildSendsTermination, PostWork, ChildExits, ExitProcess, Typed, TypeOK,
                  ChildTypeOK, Finished
  <2> QED
      BY <1>1, <2>1, <2>2, WatchedKept
<1> QED
    BY <1>2, <1>3 DEF ChildStep

\* A monitor thread goes on until its child is over.
LEMMA MonitorWatched ==
    ASSUME Typed, OnceMonitored, Room, Ongoing, Watched, NEW p \in Pids, MonitorStep(p)
    PROVE  Watched'
<1>1. UNCHANGED <<running_, creationQ>>
    BY DEF MonitorStep, MonitorBegin, MonitorPoll, MonitorLeaves, MonitorReport, MonitorStop,
           SendTermination, childVars, queueVars
<1>2. \A r \in Pids : r # p => proc'[r] = proc[r] /\ monPc'[r] = monPc[r]
    BY DEF MonitorStep, MonitorBegin, MonitorPoll, MonitorLeaves, MonitorReport, MonitorStop,
           childVars, Typed, TypeOK, ChildTypeOK, MonitorTypeOK
<1>3. \A r \in Pids : r # p => monitor_'[r] = monitor_[r]
  <2>1. \/ UNCHANGED monitor_
        \/ monitor_' = [monitor_ EXCEPT ![p] = TRUE]
        \/ monitor_' = [monitor_ EXCEPT ![p] = FALSE]
      BY DEF MonitorStep, MonitorBegin, MonitorPoll, MonitorLeaves, MonitorReport, MonitorStop
  <2> QED
      BY <2>1, Zenon DEF Typed, TypeOK, MonitorTypeOK
<1>4. proc[p] \notin Unheard
    BY DEF OnceMonitored, MonitorStep, MonitorBegin, MonitorPoll, MonitorLeaves, MonitorReport,
           MonitorStop
<1>5. ASSUME monitor_'[p] => monPc'[p] \in {"loop", "report", "stop"},
             parent = "up" /\ running_[Parent] /\ WatchedChild(p) => WatchedChild(p)'
      PROVE  Watched'
  <2>1. \A r \in Pids : r # p /\ WatchedChild(r) => WatchedChild(r)'
      BY <1>1, <1>2, <1>3 DEF WatchedChild, Monitored
  <2> QED
      BY <1>1, <1>2, <1>3, <1>5, <2>1 DEF Watched, Ongoing
<1>6. CASE MonitorBegin(p)
  <2>1. UNCHANGED proc /\ monPc'[p] = "loop"
      BY <1>6 DEF MonitorBegin, childVars, Typed, TypeOK, MonitorTypeOK
  <2>2. monitor_'[p] = TRUE
      BY <1>6, Zenon DEF MonitorBegin, Typed, TypeOK, MonitorTypeOK
  <2> QED
      BY <1>1, <1>5, <2>1, <2>2 DEF WatchedChild, Monitored
<1>7. CASE MonitorPoll(p)
  <2>1. UNCHANGED monitor_
      BY <1>7 DEF MonitorPoll
  <2>2. /\ proc'[p] = IF proc[p] \in {"killed", "exited"} THEN "reaped" ELSE proc[p]
        /\ monPc'[p] = AfterPoll(p) /\ monPc[p] = "loop"
      BY <1>7 DEF MonitorPoll, Typed, TypeOK, ChildTypeOK, MonitorTypeOK
  <2>3. proc[p] \in Unannounced \cup Finished
      BY <1>4 DEF Unheard, Typed, TypeOK, ChildTypeOK
  <2>4. \/ monPc'[p] = "loop" /\ proc'[p] = proc[p]
        \/ monPc'[p] \in {"report", "stop"} /\ proc'[p] = "reaped"
      BY <2>2, <2>3 DEF AfterPoll, Unannounced, Finished
  <2>5. parent = "up" /\ running_[Parent] /\ WatchedChild(p) => WatchedChild(p)'
      BY <1>1, <2>1, <2>2, <2>4 DEF WatchedChild, Monitored, Unannounced, Finished
  <2> QED
      BY <1>5, <2>4, <2>5
<1>8. CASE MonitorLeaves(p)
  <2>1. /\ UNCHANGED <<proc, monitor_>> /\ monPc'[p] = "stop" /\ monPc[p] = "loop"
        /\ ~(running_[Parent] /\ monitor_[p])
      BY <1>8 DEF MonitorLeaves, childVars, Typed, TypeOK, MonitorTypeOK
  <2>2. running_[Parent] /\ WatchedChild(p) => proc[p] \in Finished
      BY <1>4, <2>1 DEF WatchedChild, Unheard, Typed, TypeOK, ChildTypeOK
  <2> QED
      BY <1>1, <1>5, <2>1, <2>2 DEF WatchedChild, Monitored
<1>9. CASE MonitorReport(p)
  <2>1. UNCHANGED <<proc, monitor_>> /\ monPc'[p] = "stop" /\ monPc[p] = "report"
      BY <1>9 DEF MonitorReport, childVars, Typed, TypeOK, MonitorTypeOK
  <2> QED
      BY <1>1, <1>5, <2>1 DEF WatchedChild, Monitored
<1>10. CASE MonitorStop(p)
  <2>1. UNCHANGED proc /\ monPc'[p] = "none" /\ monPc[p] = "stop"
      BY <1>10 DEF MonitorStop, childVars, Typed, TypeOK, MonitorTypeOK
  <2>2. monitor_'[p] = FALSE
      BY <1>10, Zenon DEF MonitorStop, Typed, TypeOK, MonitorTypeOK
  <2>3. "working" \notin Finished
      BY DEF Finished
  <2> QED
      BY <1>1, <1>5, <2>1, <2>2, <2>3 DEF WatchedChild
<1> QED
    BY <1>6, <1>7, <1>8, <1>9, <1>10 DEF MonitorStep

\* Every step of the program keeps the watch.
LEMMA NextWatched ==
    ASSUME FreshPids, QueueCap >= 3 * NumProcesses - 2,
           Typed, Chain, OnceMonitored, FirstOnly, Room, Watched, [Next]_vars
    PROVE  Watched'
<1>1. Ongoing
    BY NextOngoing
<1>2. CASE UNCHANGED vars
    BY <1>1, <1>2, WatchedKept DEF vars, childVars, queueVars, monitorVars
<1>3. CASE Done
    BY <1>2, <1>3 DEF Done
<1>4. CASE OuterStep
    BY <1>1, <1>4, OuterWatched
<1>5. CASE MakerStep \/ CreatorStep \/ TerminatorStep
    BY <1>1, <1>5, MakerWatched, CreatorWatched, TerminatorWatched
<1>6. ASSUME NEW p \in Pids, ChildStep(p) \/ MonitorStep(p) PROVE Watched'
    BY <1>1, <1>6, ChildWatched, MonitorWatched
<1> QED
    BY <1>2, <1>3, <1>4, <1>5, <1>6 DEF Next, OuterStep

-----------------------------------------------------------------------------
\* A child that is about to send finds room in the queue.
SendersFindRoom ==
    (\E p \in Pids : proc[p] \in Unannounced \/ monPc[p] = "report") => ~Full

\* A queue of three messages for each handler loses none, whatever the order of sends,
\* receipts and kills.
THEOREM QueueSuffices ==
    ASSUME NoRespawn, EmptyLeftovers, QueueCap >= 3 * NumProcesses
    PROVE  Spec => []SendersFindRoom
<1> DEFINE Inv == Typed /\ FirstOnly /\ Room
<1>1. Init => Inv
    BY InitTyped, InitFirst, InitRoom
<1>2. Inv /\ [Next]_vars => Inv'
    BY NextTyped, NextFirst, NextRoom
<1>3. Inv => SendersFindRoom
  <2> SUFFICES ASSUME Inv, NEW p \in Pids, proc[p] \in Unannounced \/ monPc[p] = "report"
               PROVE  ~Full
      BY DEF SendersFindRoom
  <2>1. <<"report", p>> \in Unsent
      BY DEF Unsent, MayBeSent, Kinds, Unannounced
  <2>2. Cardinality(Unsent) # 0 /\ Cardinality(Unsent) \in Nat
    <3>1. IsFiniteSet(Unsent)
        BY DEF Room
    <3> QED
        BY <2>1, <3>1, FS_EmptySet, FS_CardinalityType
  <2>3. Queued \in Nat /\ Remaining \in Nat /\ NumProcesses \in Nat /\ QueueCap \in Nat
      BY RoomNumbers, QueueAssumption
  <2>4. Queued < QueueCap
      BY <2>2, <2>3 DEF Room
  <2> QED
      BY <2>3, <2>4 DEF Full, Queued
<1> QED
    BY <1>1, <1>2, <1>3, PTL DEF Spec

\* While the program runs, a registered child that works has a monitor thread, or a message
\* on its way that will start one.
THEOREM EveryChildWatched ==
    ASSUME NoRespawn, EmptyLeftovers, QueueCap >= 3 * NumProcesses - 2
    PROVE  Spec => []EveryChildMonitored
<1> DEFINE Inv == Typed /\ Chain /\ OnceMonitored /\ FirstOnly /\ NoneReaped /\ Room /\ Watched
<1>1. Init => Inv
  <2>1. OwnLeftovers
      BY DEF EmptyLeftovers, OwnLeftovers, Named
  <2> QED
      BY <2>1, InitTyped, InitChain, InitOnce, InitFirst, InitNoneReaped, InitRoom, InitWatched
<1>2. Inv /\ [Next]_vars => Inv'
    BY NextTyped, NextChain, NextOnce, NextFirst, NextNoneReaped, FirstFresh, NextRoom,
       NextWatched
<1>3. Inv => EveryChildMonitored
    BY DEF Watched, WatchedChild, EveryChildMonitored, Typed, TypeOK, RegistryTypeOK
<1> QED
    BY <1>1, <1>2, <1>3, PTL DEF Spec
=============================================================================
