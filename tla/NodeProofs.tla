----------------------------- MODULE NodeProofs -----------------------------
(***************************************************************************)
(* Proofs about Node, for every number of ports, queue length, packet set  *)
(* and clock width.                                                        *)
(*                                                                         *)
(* The two halves are implemented step by step, so that the theorems of    *)
(* DmxOutputProofs and DmxInputProofs hold of the whole loop; OutP and InP *)
(* are instances of those modules.  What the composition adds is the       *)
(* queue: the age of a datagram and the place it has reached go together   *)
(* (QueueMoves), which with BlackoutInTime of the output half bounds the   *)
(* age of what a line shows, and with FramesAreShown brings a look from an *)
(* input to the outputs of its universe (PassesThrough).                   *)
(***************************************************************************)
EXTENDS Node, TLAPS

InP == INSTANCE DmxInputProofs
         WITH Port <- {Rx},
              phase <- IF pc \in {"output", "input"} THEN "input" ELSE "sleep"

OutP == INSTANCE DmxOutputProofs
          WITH ArtnetPacket <- {}, ShownetPacket <- {},
               phase <- IF pc = "input" THEN "recv" ELSE pc,
               network <- "live"

(***************************************************************************)
(* The instances of the proof modules define the same behaviours.          *)
(***************************************************************************)

\* The input half of Node takes the steps of the module the proofs are about.
LEMMA SameInput == [In!Next]_(In!vars) => [InP!Next]_(InP!vars)
<1>2. In!Sleep => InP!Sleep
  BY DEF InP!Sleep, In!Sleep, In!prog, InP!prog, In!Later, InP!Later,
         In!Smaller, InP!Smaller
<1>3. In!LinkChanges => InP!LinkChanges
  BY DEF InP!LinkChanges, In!LinkChanges, In!prog, InP!prog, In!hist, InP!hist
<1>4. In!dmx_input_cycle => InP!dmx_input_cycle
  BY DEF InP!dmx_input_cycle, In!dmx_input_cycle, In!NoFrame, InP!NoFrame,
         In!Sends, InP!Sends, In!StoredAfter, InP!StoredAfter,
         In!sacn_tx_send, InP!sacn_tx_send, In!NextSeq, InP!NextSeq,
         In!KeepAliveOver, InP!KeepAliveOver, In!KeepAliveOpen,
         InP!KeepAliveOpen, In!Elapsed, InP!Elapsed
<1>5. UNCHANGED In!vars => UNCHANGED InP!vars
  BY DEF In!vars, InP!vars, In!prog, InP!prog, In!hist, InP!hist
<1> QED BY <1>2, <1>3, <1>4, <1>5 DEF In!Next, InP!Next

\* So does the output half.
LEMMA SameOutput == Out!Spec => OutP!Spec
<1>1. Out!Init => OutP!Init
  BY DEF Out!Init, OutP!Init, Out!OpenAtStart, OutP!OpenAtStart, Out!Dark,
         OutP!Dark, Out!Channel, OutP!Channel
<1>2. Out!Received <=> OutP!Received
  BY DEF Out!Received, OutP!Received
<1>3. ASSUME NEW took, NEW data, NEW priority,
             Out!Store(took, data, priority)
      PROVE  OutP!Store(took, data, priority)
  BY <1>3 DEF Out!Store, OutP!Store, Out!Overlay, OutP!Overlay, Out!Channel,
              OutP!Channel
<1>4. ASSUME NEW pkt, Out!ReceiveSacn(pkt) PROVE OutP!ReceiveSacn(pkt)
  BY <1>2, <1>3, <1>4
     DEF Out!ReceiveSacn, OutP!ReceiveSacn, Out!handle_sacn_packet,
         OutP!handle_sacn_packet, Out!Addressed, OutP!Addressed,
         Out!Outranks, OutP!Outranks, Out!Elapsed, OutP!Elapsed
<1>5. Out!Receive => OutP!Receive
  BY <1>2, <1>4
     DEF Out!Receive, OutP!Receive, Out!ReceiveOther, OutP!ReceiveOther,
         Out!ReceiveNothing, OutP!ReceiveNothing
<1>6. ASSUME NEW d, Out!Elapse(d) PROVE OutP!Elapse(d)
  BY <1>6 DEF Out!Elapse, OutP!Elapse, Out!Later, OutP!Later, Out!Wraps,
              OutP!Wraps, Out!Smaller, OutP!Smaller
<1>7. Out!Sleep => OutP!Sleep
  BY <1>6 DEF Out!Sleep, OutP!Sleep, Out!prog, OutP!prog
<1>8. Out!BlockedInRecv => OutP!BlockedInRecv
  BY <1>6 DEF Out!BlockedInRecv, OutP!BlockedInRecv, Out!prog, OutP!prog
<1>9. ASSUME NEW p PROVE /\ Out!Active(p) <=> OutP!Active(p)
                         /\ Out!Fresh(p) <=> OutP!Fresh(p)
                         /\ Out!Written(p) <=> OutP!Written(p)
                         /\ Out!Held(p) = OutP!Held(p)
  BY DEF Out!Active, OutP!Active, Out!Fresh, OutP!Fresh, Out!Written,
         OutP!Written, Out!Held, OutP!Held, Out!Blackout, OutP!Blackout,
         Out!TimedOut, OutP!TimedOut, Out!Dark, OutP!Dark, Out!Channel,
         OutP!Channel, Out!Elapsed, OutP!Elapsed
<1>10. Out!OutputCycle => OutP!OutputCycle
  BY <1>9 DEF Out!OutputCycle, OutP!OutputCycle, Out!dmx_tx_write,
              OutP!dmx_tx_write, Out!Outcome, OutP!Outcome, Out!FdAfter,
              OutP!FdAfter
<1>11. Out!NetworkLost => OutP!NetworkLost
  BY DEF Out!NetworkLost, OutP!NetworkLost, Out!prog, OutP!prog, Out!hist,
         OutP!hist
<1>12. UNCHANGED Out!vars => UNCHANGED OutP!vars
  BY DEF Out!vars, OutP!vars, Out!prog, OutP!prog, Out!hist, OutP!hist
<1>13. [Out!Next]_(Out!vars) => [OutP!Next]_(OutP!vars)
  BY <1>5, <1>7, <1>8, <1>10, <1>11, <1>12
     DEF Out!Next, OutP!Next, Out!Loop, OutP!Loop
<1> QED BY <1>1, <1>13, PTL DEF Out!Spec, OutP!Spec

(***************************************************************************)
(* The loop implements both halves.                                        *)
(***************************************************************************)

\* A node that has started is an output half that has started.
LEMMA InitOutput == Init => Out!Init
  BY DEF Init

\* And an input half that has started.
LEMMA InitInput == Init => In!Init
  BY DEF Init

\* Every step of the node is a step of the output half or leaves it alone.
LEMMA NextOutput == TypeOK /\ [Next]_vars => [Out!Next]_(Out!vars)
<1> SUFFICES ASSUME TypeOK, [Next]_vars PROVE [Out!Next]_(Out!vars)
  OBVIOUS
<1>1. CASE ReceivePacket
  <2>1. Head(queue) \in Datagram
    BY <1>1 DEF ReceivePacket, Due, TypeOK
  <2>2. Out!Receive
    BY <1>1, <2>1 DEF ReceivePacket, Out!Receive, Datagram
  <2> QED BY <2>2 DEF Out!Next, Out!Loop
<1>2. CASE ReceiveNothing
  BY <1>2 DEF ReceiveNothing, Out!Next, Out!Loop, Out!Receive
<1>3. CASE Sleep
  BY <1>3 DEF Sleep, Out!Next, Out!Loop
<1>4. CASE OutputCycle
  BY <1>4 DEF OutputCycle, Out!Next, Out!Loop
<1>5. CASE InputCycle
  BY <1>5 DEF InputCycle, In!dmx_input_cycle, outVars, Out!vars, Out!prog,
              Out!hist
<1>6. CASE LinkChanges
  BY <1>6 DEF LinkChanges, In!LinkChanges, outVars, Out!vars, Out!prog,
              Out!hist
<1>7. CASE Arrive \/ SourceLost \/ UNCHANGED vars
  BY <1>7 DEF Arrive, SourceLost, vars, outVars, Out!vars, Out!prog, Out!hist
<1> QED BY <1>1, <1>2, <1>3, <1>4, <1>5, <1>6, <1>7 DEF Next, Loop

\* Every step of the node is a step of the input half or leaves it alone.
LEMMA NextInput == TypeOK /\ [Next]_vars => [In!Next]_(In!vars)
<1> SUFFICES ASSUME TypeOK, [Next]_vars PROVE [In!Next]_(In!vars)
  OBVIOUS
<1>1. CASE ReceivePacket
  BY <1>1 DEF ReceivePacket, Out!ReceiveSacn, Out!Received, inVars, In!vars,
              In!prog, In!hist
<1>2. CASE ReceiveNothing
  BY <1>2 DEF ReceiveNothing, Out!ReceiveNothing, Out!Received, inVars,
              In!vars, In!prog, In!hist
<1>3. CASE Sleep
  BY <1>3 DEF Sleep, In!Next
<1>4. CASE OutputCycle
  BY <1>4 DEF OutputCycle, Out!OutputCycle, inVars, In!vars, In!prog, In!hist
<1>5. CASE InputCycle
  BY <1>5 DEF InputCycle, In!Next
<1>6. CASE LinkChanges
  BY <1>6 DEF LinkChanges, In!Next
<1>7. CASE Arrive \/ SourceLost \/ UNCHANGED vars
  BY <1>7 DEF Arrive, SourceLost, vars, inVars, In!vars, In!prog, In!hist
<1> QED BY <1>1, <1>2, <1>3, <1>4, <1>5, <1>6, <1>7 DEF Next, Loop

(***************************************************************************)
(* Types.                                                                  *)
(***************************************************************************)

\* What the assumptions of both halves say of the constants used here.
LEMMA Assumptions ==
    /\ MaxDelay \in Nat \ {0}
    /\ QueueCap \in Nat \ {0}
    /\ KeepAlive \in Nat
    /\ SacnTimeout \in Nat
    /\ MaxDelay < Wrap
    /\ QuietCap \in Nat \ {0}
    /\ \A g \in Config : g.hold \in Nat /\ g.protocol = "sacn"
<1>1. MaxDelay < QuietCap /\ QuietCap < Wrap
  BY HalvesAssumption, WrapAssumption DEF In!InputAssumption
<1> QED
  BY <1>1, HalvesAssumption, NodeAssumption, WrapAssumption
     DEF In!InputAssumption, Out!OutputAssumption

\* A keep-alive or a change is not sent in the instant of the last one.
Awake ==
    /\ In!TypeOK
    /\ g_config \in Config
    /\ pc \in {"output", "input"} => quiet[Rx] # 0

\* Time has passed since the last packet when the input cycle runs.
LEMMA NextAwake ==
    ASSUME TypeOK, Awake, [Next]_vars, In!TypeOK'
    PROVE  Awake'
<1> USE DEF Awake
<1>1. CASE ReceivePacket
  BY <1>1 DEF ReceivePacket, Out!ReceiveSacn, Out!Received
<1>2. CASE ReceiveNothing
  BY <1>2 DEF ReceiveNothing, Out!ReceiveNothing, Out!Received
<1>3. CASE Sleep
  <2>1. quiet[Rx] \in Nat
    BY DEF In!TypeOK
  <2>2. \E d \in 1 .. MaxDelay :
           quiet'[Rx] = In!Smaller(quiet[Rx] + d, QuietCap)
    BY <1>3 DEF Sleep, In!Sleep
  <2>3. quiet'[Rx] # 0
    BY <2>1, <2>2, Assumptions DEF In!Smaller
  <2> QED BY <1>3, <2>3 DEF Sleep, Out!Sleep, Out!prog
<1>4. CASE OutputCycle
  BY <1>4 DEF OutputCycle, Out!OutputCycle, inVars
<1>5. CASE InputCycle
  BY <1>5 DEF InputCycle, outVars
<1>6. CASE LinkChanges
  BY <1>6 DEF LinkChanges, In!LinkChanges, outVars, In!hist
<1>7. CASE Arrive \/ SourceLost \/ UNCHANGED vars
  BY <1>7 DEF Arrive, SourceLost, vars, inVars, outVars
<1> QED BY <1>1, <1>2, <1>3, <1>4, <1>5, <1>6, <1>7 DEF Next, Loop

\* A cycle that leaves the packet with age 0 has sent a frame of the line.
LEMMA SentIsTyped ==
    ASSUME TypeOK, Awake, InputCycle, Sent
    PROVE  OwnPacket(g_config, net'[Rx].data) \in SacnPacket
<1>1. quiet[Rx] # 0 /\ quiet'[Rx] = 0
  BY DEF Awake, InputCycle, Sent
<1>2. PICK read \in [{Rx} -> InFrame \cup {In!NoFrame}] :
         LET sends == {p \in {Rx} : ready[p] /\ In!Sends(p, read[p])}
             stored == [p \in {Rx} |->
                          IF ready[p] THEN In!StoredAfter(p, read[p])
                                      ELSE g_dmx_in[p]]
         IN  In!sacn_tx_send(sends, stored)
  BY DEF InputCycle, In!dmx_input_cycle
<1>3. /\ ready[Rx] /\ In!Sends(Rx, read[Rx])
      /\ net'[Rx].data = In!StoredAfter(Rx, read[Rx])
  BY <1>1, <1>2 DEF In!sacn_tx_send
<1>4. g_dmx_in[Rx] \in InFrame \cup {In!NoFrame}
  BY DEF Awake, In!TypeOK
<1>5. In!StoredAfter(Rx, read[Rx]) \in InFrame
  BY <1>3, <1>4 DEF In!StoredAfter, In!Sends
<1> QED BY <1>3, <1>5 DEF Awake, SacnPacket

\* What a full queue or a free place makes of a new datagram.
LEMMA EnqueuedType ==
    ASSUME queue \in Seq(Datagram), Len(queue) <= QueueCap,
           NEW pkt \in SacnPacket
    PROVE  Enqueued(pkt) \in Seq(Datagram) /\ Len(Enqueued(pkt)) <= QueueCap
<1>1. [pkt |-> pkt, age |-> 0] \in Datagram
  BY DEF Datagram
<1> QED BY <1>1, Assumptions DEF Enqueued

\* The sleep lasts as long as the clock says.
LEMMA ElapsedByLoop ==
    ASSUME Awake, Sleep
    PROVE  Elapsed(now', now) \in 1 .. MaxDelay
<1>1. now \in Time
  BY DEF Awake, In!TypeOK, In!Time, Time
<1>2. PICK d \in 1 .. MaxDelay : now' = Later(now, d)
  BY DEF Sleep, In!Sleep, In!Later, Later
<1>3. d \in Nat /\ d < Wrap
  BY Assumptions, WrapAssumption
<1>4. Elapsed(Later(now, d), now) = d
  BY <1>1, <1>3, WrapAssumption DEF Elapsed, Later, Time
<1> QED BY <1>2, <1>4

\* The settling time is a number of ticks.
LEMMA SettleType == SettleTime \in Nat
  BY Assumptions DEF SettleTime

\* The node starts well-typed.
LEMMA InitType == Init => TypeOK
  BY SettleType, Assumptions DEF Init, TypeOK

\* Every step keeps the types.
LEMMA NextType == TypeOK /\ Awake /\ [Next]_vars => TypeOK'
<1> SUFFICES ASSUME TypeOK, Awake, [Next]_vars PROVE TypeOK'
  OBVIOUS
<1> USE DEF TypeOK
<1>1. CASE ReceivePacket
  <2>1. Head(queue) \in Datagram /\ Tail(queue) \in Seq(Datagram)
        /\ Len(Tail(queue)) <= QueueCap
    BY <1>1, Assumptions DEF ReceivePacket, Due
  <2>2. lag' \in [Port -> Nat]
    BY <1>1, <2>1 DEF ReceivePacket, Datagram
  <2> QED BY <1>1, <2>1, <2>2 DEF ReceivePacket
<1>2. CASE ReceiveNothing
  BY <1>2 DEF ReceiveNothing, hist
<1>3. CASE Sleep
  <2>1. Elapsed(now', now) \in Nat
    BY <1>3, ElapsedByLoop
  <2>2. ASSUME NEW i \in 1 .. Len(queue)
        PROVE  [queue[i] EXCEPT !.age = @ + Elapsed(now', now)] \in Datagram
    <3>1. queue[i] \in Datagram
      OBVIOUS
    <3> QED BY <2>1, <3>1 DEF Datagram
  <2>3. queue' \in Seq(Datagram) /\ Len(queue') = Len(queue)
    BY <1>3, <2>2 DEF Sleep
  <2>4. steady' \in 0 .. SettleTime
    BY <1>3, <2>1, SettleType DEF Sleep, Smaller
  <2> QED BY <1>3, <2>3, <2>4 DEF Sleep
<1>4. CASE OutputCycle
  BY <1>4 DEF OutputCycle, hist
<1>5. CASE InputCycle
  <2>1. queue' \in Seq(Datagram) /\ Len(queue') <= QueueCap
    BY <1>5, SentIsTyped, EnqueuedType DEF InputCycle
  <2> QED BY <1>5, <2>1, SettleType DEF InputCycle
<1>6. CASE LinkChanges
  BY <1>6, SettleType DEF LinkChanges
<1>7. CASE Arrive
  <2>1. External \subseteq SacnPacket
    BY DEF SacnPacket
  <2>2. queue' \in Seq(Datagram) /\ Len(queue') <= QueueCap
    BY <1>7, <2>1, EnqueuedType DEF Arrive
  <2> QED BY <1>7, <2>2 DEF Arrive, hist
<1>8. CASE SourceLost \/ UNCHANGED vars
  BY <1>8 DEF SourceLost, vars, hist
<1> QED BY <1>1, <1>2, <1>3, <1>4, <1>5, <1>6, <1>7, <1>8 DEF Next, Loop

\* The input half starts well-typed.
LEMMA InitAwake == Init => Awake
<1> SUFFICES ASSUME Init PROVE Awake
  OBVIOUS
<1>1. In!Init
  BY InitInput
<1>2. In!TypeOK
  BY <1>1, HalvesAssumption, WrapAssumption
     DEF In!Init, In!TypeOK, In!InputAssumption, In!NoFrame, In!SeqNo, In!Time
<1> QED BY <1>2 DEF Init, Out!Init, Awake

\* The type invariant of the input half is inductive, by its own proof.
LEMMA NextInputType == In!TypeOK /\ [In!Next]_(In!vars) => In!TypeOK'
<1>1. InP!InputAssumption /\ InP!WrapAssumption
  BY HalvesAssumption, WrapAssumption
     DEF In!InputAssumption, InP!InputAssumption, InP!WrapAssumption,
         InP!Time, InP!NoFrame, In!NoFrame, In!Time
<1>2. (In!TypeOK <=> InP!TypeOK) /\ (In!TypeOK <=> InP!TypeOK)'
  BY DEF In!TypeOK, InP!TypeOK, In!NoFrame, InP!NoFrame, In!SeqNo, InP!SeqNo,
         In!Time, InP!Time
<1>3. InP!TypeOK /\ [InP!Next]_(InP!vars) => InP!TypeOK'
  BY <1>1, InP!NextType
<1> QED BY <1>2, <1>3, SameInput

\* The inductive invariant of the composition.
LEMMA NodeInvariant == Spec => [](TypeOK /\ Awake)
<1>1. TypeOK /\ Awake /\ [Next]_vars => In!TypeOK'
  BY NextInput, NextInputType DEF Awake
<1>2. TypeOK /\ Awake /\ [Next]_vars => (TypeOK /\ Awake)'
  BY <1>1, NextType, NextAwake
<1> QED BY <1>2, InitType, InitAwake, PTL DEF Spec

\* The composition's state is well-typed in every reachable state: the queue
\* holds datagrams, and never more than QueueCap of them.
THEOREM TypeCorrect == Spec => []TypeOK
<1> QED BY NodeInvariant, PTL

\* The event loop with its socket behaves as the input half alone does.
THEOREM InputImplemented == Spec => ImplementsInput
<1> QED BY NodeInvariant, InitInput, NextInput, PTL
        DEF Spec, ImplementsInput, In!Spec

\* The event loop with its socket behaves as the output half alone does.
THEOREM OutputImplemented == Spec => ImplementsOutput
<1> QED BY NodeInvariant, InitOutput, NextOutput, PTL
        DEF Spec, ImplementsOutput, Out!Spec

(***************************************************************************)
(* The queue.                                                              *)
(***************************************************************************)

\* How long a datagram at place i has waited at most, k sleeps from its turn.
Patience(i, k) == (QueueCap - i + k) * MaxDelay

\* A sleep, or a place further up, is worth MaxDelay ticks.
LEMMA PatienceSteps ==
    ASSUME NEW i \in Nat, i <= QueueCap
    PROVE  /\ Patience(i, 0) \in Nat
           /\ Patience(i, 1) = Patience(i, 0) + MaxDelay
           /\ Patience(i + 1, 1) = Patience(i, 0)
<1> DEFINE n == QueueCap - i
<1>1. n \in Nat /\ MaxDelay \in Nat
  BY Assumptions
<1>2. n * MaxDelay \in Nat
  BY <1>1
<1>3. (n + 1) * MaxDelay = n * MaxDelay + MaxDelay
  BY <1>1
<1>4. Patience(i, 0) = n * MaxDelay /\ Patience(i, 1) = (n + 1) * MaxDelay
  BY <1>1 DEF Patience
<1>5. QueueCap - (i + 1) + 1 = n
  BY Assumptions
<1>6. Patience(i + 1, 1) = n * MaxDelay
  BY <1>5 DEF Patience
<1> QED BY <1>1, <1>2, <1>3, <1>4, <1>6

\* Has the loop still to receive before it sleeps?
Turn == IF pc = "sleep" THEN 0 ELSE 1

\* QueueMoves in these terms.
LEMMA QueueMovesForm ==
    QueueMoves <=> \A i \in 1 .. Len(queue) : queue[i].age <= Patience(i, Turn)
  BY DEF QueueMoves, Patience, Turn

\* What was taken over had waited no longer than a full queue takes.
LagBounded == \A p \in Port : lag[p] <= QueueCap * MaxDelay

\* A datagram joins the queue with age 0, at a place that still has time.
LEMMA EnqueuedMoves ==
    ASSUME TypeOK, QueueMoves, NEW pkt \in SacnPacket
    PROVE  \A i \in 1 .. Len(Enqueued(pkt)) :
              Enqueued(pkt)[i].age <= Patience(i, Turn)
<1> SUFFICES ASSUME NEW i \in 1 .. Len(Enqueued(pkt))
             PROVE  Enqueued(pkt)[i].age <= Patience(i, Turn)
  OBVIOUS
<1>1. queue \in Seq(Datagram) /\ Len(queue) <= QueueCap
  BY DEF TypeOK
<1>2. CASE i \in 1 .. Len(queue)
  <2>1. Enqueued(pkt)[i] = queue[i]
    BY <1>1, <1>2, Assumptions DEF Enqueued
  <2> QED BY <1>2, <2>1, QueueMovesForm
<1>3. CASE i \notin 1 .. Len(queue)
  <2>1. i = Len(queue) + 1 /\ i <= QueueCap /\ i \in Nat
    BY <1>1, <1>3, Assumptions DEF Enqueued
  <2>2. Enqueued(pkt)[i] = [pkt |-> pkt, age |-> 0]
    BY <1>1, <2>1, Assumptions DEF Enqueued
  <2>3. Patience(i, 0) \in Nat /\ Patience(i, 1) \in Nat
    <3>1. /\ Patience(i, 0) \in Nat
          /\ Patience(i, 1) = Patience(i, 0) + MaxDelay
      BY <2>1, PatienceSteps, Zenon
    <3> QED BY <3>1, Assumptions
  <2> QED BY <2>2, <2>3 DEF Turn
<1> QED BY <1>2, <1>3

\* The queue starts empty.
LEMMA InitMoves == Init => QueueMoves /\ LagBounded
<1> SUFFICES ASSUME Init PROVE QueueMoves /\ LagBounded
  OBVIOUS
<1>1. QueueMoves
  BY DEF Init, QueueMoves
<1>2. 0 <= QueueCap * MaxDelay
  BY Assumptions
<1> QED BY <1>1, <1>2 DEF Init, LagBounded

\* A sleep ages every datagram, and each iteration moves it one place up.
LEMMA NextMoves ==
    TypeOK /\ Awake /\ QueueMoves /\ LagBounded /\ [Next]_vars
        => (QueueMoves /\ LagBounded)'
<1> SUFFICES ASSUME TypeOK, Awake, QueueMoves, LagBounded, [Next]_vars
             PROVE  QueueMoves' /\ LagBounded'
  OBVIOUS
<1> DEFINE Moves(q, k) == \A i \in 1 .. Len(q) : q[i].age <= Patience(i, k)
<1>a. Moves(queue, Turn)
  BY QueueMovesForm
<1>b. Moves(queue', Turn') => QueueMoves'
  BY DEF QueueMoves, Patience, Turn
<1>c. queue \in Seq(Datagram) /\ Len(queue) <= QueueCap
  BY DEF TypeOK
<1> HIDE DEF Moves
<1>1. CASE ReceivePacket
  <2>1. pc = "recv" /\ pc' = "sleep" /\ queue # <<>> /\ queue' = Tail(queue)
    BY <1>1 DEF ReceivePacket, Due
  <2>2. ASSUME NEW i \in 1 .. Len(queue')
        PROVE  queue'[i].age <= Patience(i, 0)
    <3>1. i \in Nat /\ i <= QueueCap /\ i + 1 \in 1 .. Len(queue)
          /\ queue'[i] = queue[i + 1]
      BY <1>c, <2>1, Assumptions
    <3>2. queue[i + 1].age <= Patience(i + 1, 1)
      BY <1>a, <2>1, <3>1 DEF Moves, Turn
    <3> QED BY <3>1, <3>2, PatienceSteps
  <2>3. Head(queue) = queue[1] /\ 1 \in 1 .. Len(queue)
    BY <1>c, <2>1
  <2>4. Head(queue).age <= Patience(1, 1)
    BY <1>a, <2>1, <2>3 DEF Moves, Turn
  <2>5. Patience(1, 1) = QueueCap * MaxDelay
    <3>1. QueueCap - 1 + 1 = QueueCap
      BY Assumptions
    <3> QED BY <3>1 DEF Patience
  <2>6. LagBounded'
    BY <1>1, <2>4, <2>5 DEF ReceivePacket, LagBounded
  <2> QED BY <1>b, <2>1, <2>2, <2>6 DEF Moves, Turn
<1>2. CASE ReceiveNothing
  <2>1. queue' = <<>> /\ lag' = lag
    BY <1>2 DEF ReceiveNothing, Due, hist
  <2> QED BY <2>1 DEF QueueMoves, LagBounded
<1>3. CASE Sleep
  <2>1. pc = "sleep" /\ pc' = "output" /\ lag' = lag
        /\ queue' = [i \in 1 .. Len(queue) |->
                       [queue[i] EXCEPT !.age = @ + Elapsed(now', now)]]
    BY <1>3 DEF Sleep
  <2>2. Elapsed(now', now) \in 1 .. MaxDelay
    BY <1>3, ElapsedByLoop
  <2>3. Len(queue') = Len(queue)
    BY <2>1, <1>c
  <2>4. ASSUME NEW i \in 1 .. Len(queue)
        PROVE  queue'[i].age <= Patience(i, 1)
    <3>0. queue[i] \in Datagram
      BY <1>c
    <3>1. queue[i].age \in Nat
      BY <3>0 DEF Datagram
    <3>2. queue'[i].age = queue[i].age + Elapsed(now', now)
      BY <2>1, <3>0 DEF Datagram
    <3>3. queue[i].age <= Patience(i, 0)
      BY <1>a, <2>1 DEF Moves, Turn
    <3>4. Patience(i, 0) \in Nat /\ Patience(i, 1) = Patience(i, 0) + MaxDelay
      <4>1. Len(queue) \in Nat
        BY <1>c
      <4>2. i \in Nat /\ i <= QueueCap
        BY <1>c, <4>1, Assumptions
      <4> QED BY <4>2, PatienceSteps, Zenon
    <3> QED BY <2>2, <3>1, <3>2, <3>3, <3>4, Assumptions
  <2>5. QueueMoves'
    BY <1>b, <2>1, <2>3, <2>4 DEF Moves, Turn
  <2> QED BY <2>1, <2>5 DEF LagBounded
<1>4. CASE OutputCycle
  BY <1>4, <1>a, <1>b DEF OutputCycle, hist, LagBounded, Turn
<1>5. CASE InputCycle
  <2>1. Turn' = Turn /\ lag' = lag
    BY <1>5 DEF InputCycle, Turn
  <2>2. Moves(queue', Turn)
    BY <1>5, <1>a, SentIsTyped, EnqueuedMoves DEF InputCycle, Moves
  <2> QED BY <2>1, <2>2, <1>b DEF LagBounded
<1>6. CASE LinkChanges
  BY <1>6, <1>a, <1>b DEF LinkChanges, LagBounded, Turn
<1>7. CASE Arrive
  <2>1. External \subseteq SacnPacket
    BY DEF SacnPacket
  <2>2. Moves(queue', Turn)
    BY <1>7, <2>1, EnqueuedMoves DEF Arrive, Moves
  <2>3. Turn' = Turn /\ lag' = lag
    BY <1>7 DEF Arrive, hist, Turn
  <2> QED BY <2>2, <2>3, <1>b DEF LagBounded
<1>8. CASE SourceLost \/ UNCHANGED vars
  BY <1>8, <1>a, <1>b DEF SourceLost, vars, hist, LagBounded, Turn
<1> QED BY <1>1, <1>2, <1>3, <1>4, <1>5, <1>6, <1>7, <1>8 DEF Next, Loop

\* Both bounds hold in every reachable state.
LEMMA MovesInvariant == Spec => [](QueueMoves /\ LagBounded)
<1> QED BY NodeInvariant, InitMoves, NextMoves, PTL DEF Spec

\* One datagram per iteration bounds how long each waits: its place in the queue
\* limits its age, for a queue of any length.
THEOREM QueueKeepsMoving == Spec => []QueueMoves
<1> QED BY MovesInvariant, PTL

\* What the proofs of the output half assume of its constants.
LEMMA OutputConstants == OutP!OutputAssumption /\ OutP!WrapAssumption
  BY HalvesAssumption, WrapAssumption
     DEF Out!OutputAssumption, OutP!OutputAssumption, OutP!WrapAssumption,
         Out!Time, OutP!Time, Out!Protocol, OutP!Protocol, Out!Mode, OutP!Mode,
         Out!Larger, OutP!Larger, Out!Priority, OutP!Priority, Out!Payload,
         OutP!Payload

\* A lit line shows a packet that reached the node no longer ago than the hold
\* time, the loop's delay and the time of a full queue: the output half's bound
\* (BlackoutInTime) and the queue's, put together.
THEOREM LookAgeIsBounded == Spec => []LookAgeBounded
<1>1. OutP!OutputAssumption /\ OutP!WrapAssumption
  BY OutputConstants
<1>2. OutP!Spec => []OutP!BlackoutDeadline
  BY <1>1, OutP!BlackoutInTime
<1>3. OutP!Spec => []OutP!TypeOK
  BY <1>1, OutP!TypeCorrect
<1>4. TypeOK /\ Awake /\ LagBounded /\ OutP!BlackoutDeadline /\ OutP!TypeOK
        => LookAgeBounded
  <2> SUFFICES ASSUME TypeOK, Awake, LagBounded, OutP!BlackoutDeadline,
                      OutP!TypeOK,
                      NEW p \in Port,
                      Out!Active(p) /\ ~missed[p],
                      heard[p].stamp # 0,
                      wire[p] # Out!Dark
               PROVE  heard[p].quiet + lag[p]
                        <= Out!Deadline + QueueCap * MaxDelay
    BY DEF LookAgeBounded
  <2>1. /\ g_config \in Config
        /\ g_config.protocol = "sacn"
        /\ g_config.hold \in Nat
    BY Assumptions DEF Awake
  <2>2. heard[p].quiet <= OutP!Deadline
    BY <2>1 DEF OutP!BlackoutDeadline, Out!Active, OutP!Active, Out!Dark,
                OutP!Dark, Out!Channel, OutP!Channel
  <2>3. Out!Deadline = OutP!Deadline
    BY DEF Out!Deadline, OutP!Deadline, Out!Larger, OutP!Larger
  <2>4. heard[p].quiet \in Nat
    BY <1>1 DEF OutP!TypeOK, OutP!Heard, OutP!OutputAssumption
  <2>5. Out!Deadline \in Nat
    BY <2>1, Assumptions DEF Out!Deadline, Out!Larger
  <2>6. lag[p] \in Nat /\ lag[p] <= QueueCap * MaxDelay
    BY DEF TypeOK, LagBounded
  <2>7. QueueCap * MaxDelay \in Nat
    BY Assumptions
  <2> QED BY <2>2, <2>3, <2>4, <2>5, <2>6, <2>7
<1> QED BY <1>2, <1>3, <1>4, OutputImplemented, SameOutput, NodeInvariant,
           MovesInvariant, PTL
        DEF ImplementsOutput

(***************************************************************************)
(* Pass-through.                                                           *)
(*                                                                         *)
(* While a look is steady, the other sources' packets leave the queue      *)
(* (OthersDrain), their priority runs out (Yields) and the node's own      *)
(* keep-alives go on (KeptAlive).  The first of them that is sent after    *)
(* that puts the look on the outputs, and the later ones keep it there     *)
(* (Reaches).                                                              *)
(***************************************************************************)

\* The packet the node sends for the frame last read.
Own == OwnPacket(g_config, current[Rx])

\* Every datagram in q but pkt has waited for s ticks.
Older(q, pkt, s) == \A i \in 1 .. Len(q) : q[i].pkt # pkt => s <= q[i].age

\* The time a full queue takes.
Drain == QueueCap * MaxDelay

\* After this time no other source keeps the node's own packets from an output.
Clear == Drain + SacnTimeout

\* A look is steady only in the circumstances the history variable is about.
SteadyMeans == steady # 0 => Undisturbed

\* The stored frame is the one last read, also when sending it failed.
Remembered == ready[Rx] => g_dmx_in[Rx] = current[Rx]

\* Packets of others, and of earlier looks, are older than the steady look.
OthersDrain == Older(queue, Own, steady)

\* No time stamp is ahead of the clock.
ClockAhead ==
    /\ last_send[Rx] <= now
    /\ \A p \in Port : g_dmx_out[p].last_update <= now

\* A higher priority on an output is from before the look was steady, or from
\* the backlog.
Yields ==
    \A p \in Port : g_dmx_out[p].priority > DefaultPriority =>
        steady + g_dmx_out[p].last_update <= now + Drain

\* A steady look is sent again when the keep-alive interval is over.
KeptAlive ==
    IF pc \in {"recv", "sleep"}
    THEN steady # 0 => now <= last_send[Rx] + KeepAlive
    ELSE steady <= MaxDelay \/ now <= last_send[Rx] + KeepAlive + MaxDelay

\* The outputs on the universe of the input.
Outlet == {p \in Port : /\ g_config.mode[p] = "TX"
                        /\ g_config.universe[p] = g_config.universe[Rx]}

\* Frame f covers the channels of x with x.
Shows(f, x) == \A c \in 1 .. Len(x) : f[c] = x[c]

\* Output p has the current look, from the last packet sent or a later one.
Fed(p) == /\ Shows(g_dmx_out[p].data, current[Rx])
          /\ last_send[Rx] <= g_dmx_out[p].last_update

\* The last packet sent has reached the output, or was sent before the way was
\* clear, or is still in the queue.
Reaches ==
    \A p \in Outlet : \/ Fed(p)
                      \/ steady + last_send[Rx] <= now + Clear
                      \/ pc = "recv" /\ queue # <<>>

\* When the next cycle is about to begin, a look that has been steady for long
\* enough is on the output.
Through ==
    pc = "recv" =>
        \A p \in Outlet : \/ Shows(g_dmx_out[p].data, current[Rx])
                          \/ steady <= Clear + KeepAlive + MaxDelay

\* The hold time spans the gaps between keep-alives, and the clock has not
\* wrapped.
Spans == ~wrapped /\ g_config.hold >= KeepAlive + MaxDelay

(***************************************************************************)
(* What the steps do to the two states the argument relates.               *)
(***************************************************************************)

\* The numbers the argument is about are natural numbers.
LEMMA LookTypes ==
    ASSUME TypeOK, Awake, Out!TypeOK
    PROVE  /\ now \in Nat /\ now < Wrap
           /\ last_send[Rx] \in Nat
           /\ steady \in Nat
           /\ g_config.hold \in Nat
           /\ \A p \in Port : /\ g_dmx_out[p].priority \in Nat
                              /\ g_dmx_out[p].last_update \in Nat
           /\ \A i \in 1 .. Len(queue) : queue[i].age \in Nat
           /\ Wrap \in Nat
<1>1. now \in Nat /\ now < Wrap /\ last_send[Rx] \in Nat /\ Wrap \in Nat
  BY WrapAssumption DEF Awake, In!TypeOK, In!Time
<1>2. steady \in Nat
  BY SettleType DEF TypeOK
<1>3. g_config.hold \in Nat
  BY Assumptions DEF Awake
<1>4. ASSUME NEW p \in Port
      PROVE  g_dmx_out[p].priority \in Nat /\ g_dmx_out[p].last_update \in Nat
  <2>1. g_dmx_out[p] \in Out!OutFrame
    BY DEF Out!TypeOK
  <2> QED BY <2>1, WrapAssumption DEF Out!OutFrame, Out!Priority, Out!Time
<1>5. ASSUME NEW i \in 1 .. Len(queue)
      PROVE  queue[i].age \in Nat
  <2>1. queue[i] \in Datagram
    BY DEF TypeOK
  <2> QED BY <2>1 DEF Datagram
<1> QED BY <1>1, <1>2, <1>3, <1>4, <1>5

\* The constants of the argument are natural numbers, and MaxDelay is the least.
LEMMA ClearTypes ==
    /\ Drain \in Nat /\ Clear \in Nat /\ MaxDelay <= Drain /\ MaxDelay > 0
    /\ SettleTime = Clear + KeepAlive + 2 * MaxDelay
    /\ Clear = Drain + SacnTimeout
<1>1. QueueCap \in Nat /\ QueueCap >= 1 /\ MaxDelay \in Nat /\ MaxDelay > 0
      /\ KeepAlive \in Nat /\ SacnTimeout \in Nat
  BY Assumptions
<1>2. PICK n \in Nat : QueueCap = n + 1
  BY <1>1
<1>3. n * MaxDelay \in Nat /\ (n + 1) * MaxDelay = n * MaxDelay + MaxDelay
  BY <1>1
<1>4. (QueueCap + 2) * MaxDelay = QueueCap * MaxDelay + 2 * MaxDelay
  BY <1>1
<1> QED BY <1>1, <1>2, <1>3, <1>4 DEF Drain, Clear, SettleTime

\* A difference of time stamps in order is the ordinary one.
LEMMA ElapsedInOrder ==
    ASSUME NEW t \in Nat, NEW since \in Nat, since <= t
    PROVE  Out!Elapsed(t, since) = t - since /\ In!Elapsed(t, since) = t - since
  BY DEF Out!Elapsed, In!Elapsed

\* A sleep of e ticks adds at most e to what the look has been steady for, and
\* e to the age of every datagram.
LEMMA SleepEffect ==
    ASSUME TypeOK, Awake, Sleep
    PROVE  \E e \in 1 .. MaxDelay :
              /\ ~wrapped' => ~wrapped /\ now' = now + e
              /\ steady' = 0 \/ (Undisturbed /\ steady' <= steady + e)
              /\ Len(queue') = Len(queue)
              /\ \A i \in 1 .. Len(queue) : /\ queue'[i].pkt = queue[i].pkt
                                            /\ queue'[i].age = queue[i].age + e
<1>1. PICK d \in 1 .. MaxDelay :
         now' = Out!Later(now, d) /\ wrapped' = (wrapped \/ Out!Wraps(now, d))
  BY DEF Sleep, Out!Sleep, Out!Elapse
<1>2. now \in Nat /\ now < Wrap /\ Wrap \in Nat /\ d \in Nat /\ d < Wrap
  BY Assumptions, WrapAssumption DEF Awake, In!TypeOK, In!Time
<1>3. Elapsed(now', now) = d
  BY <1>1, <1>2 DEF Out!Later, Elapsed
<1>4. ~wrapped' => ~wrapped /\ now' = now + d
  <2>1. ~Out!Wraps(now, d) => now' = now + d
    BY <1>1, <1>2 DEF Out!Later, Out!Wraps
  <2> QED BY <1>1, <2>1, Zenon
<1>5. steady \in Nat
  BY SettleType DEF TypeOK
<1>6. steady' = 0 \/ (Undisturbed /\ steady' <= steady + d)
  BY <1>2, <1>3, <1>5, SettleType DEF Sleep, Smaller
<1>7. queue \in Seq(Datagram) /\ Len(queue) \in Nat
  BY DEF TypeOK
<1>8. queue' = [i \in 1 .. Len(queue) |-> [queue[i] EXCEPT !.age = @ + d]]
  BY <1>3 DEF Sleep
<1>9. Len(queue') = Len(queue)
  BY <1>7, <1>8
<1>10. ASSUME NEW i \in 1 .. Len(queue)
       PROVE  queue'[i].pkt = queue[i].pkt /\ queue'[i].age = queue[i].age + d
  <2>1. queue[i] \in Datagram
    BY <1>7
  <2> QED BY <1>8, <2>1 DEF Datagram
<1> QED BY <1>4, <1>6, <1>9, <1>10

\* A sleep leaves the looks and the frames alone.
LEMMA SleepLeaves ==
    ASSUME Sleep
    PROVE  /\ pc = "sleep" /\ pc' = "output"
           /\ UNCHANGED <<g_config, g_dmx_out, ready, g_dmx_in, last_send,
                          link, current, joined, source>>
  BY DEF Sleep, Out!Sleep, Out!prog, In!Sleep, In!prog

\* Receiving a packet stores it in an output it is addressed to and outranks,
\* and leaves the others alone.
LEMMA ReceiveEffect ==
    ASSUME TypeOK, ReceivePacket, NEW p \in Port, NEW pkt, pkt = queue[1].pkt
    PROVE  \/ g_dmx_out'[p] =
                [data |-> Out!Overlay(g_dmx_out[p].data, pkt.data),
                 priority |-> pkt.priority, last_update |-> now]
           \/ /\ g_dmx_out'[p] = g_dmx_out[p]
              /\ ~(/\ pkt.start_code = 0
                   /\ g_config.universe[p] = pkt.universe
                   /\ g_config.mode[p] = "TX"
                   /\ Out!Outranks(p, pkt))
<1>1. Head(queue).pkt = pkt
  BY DEF ReceivePacket, Due, TypeOK
<1>2. Out!handle_sacn_packet(pkt)
  BY <1>1 DEF ReceivePacket, Out!ReceiveSacn
<1> QED BY <1>2 DEF Out!handle_sacn_packet, Out!Store, Out!Addressed

\* Receiving takes the first datagram and leaves the input half alone.
LEMMA ReceiveLeaves ==
    ASSUME TypeOK, ReceivePacket
    PROVE  /\ pc = "recv" /\ pc' = "sleep"
           /\ queue # <<>> /\ 1 \in 1 .. Len(queue)
           /\ Len(queue') = Len(queue) - 1
           /\ \A i \in 1 .. Len(queue') : queue'[i] = queue[i + 1]
           /\ UNCHANGED <<g_config, ready, g_dmx_in, last_send, link, current,
                          joined, source, steady, now, wrapped, wire, missed,
                          fds>>
  BY DEF ReceivePacket, Due, TypeOK, Out!ReceiveSacn, Out!Received, inVars

\* An output cycle blacks an output out after the hold time, or leaves its look
\* alone.
LEMMA OutputEffect ==
    ASSUME OutputCycle, NEW p \in Port
    PROVE  \/ g_dmx_out'[p] = g_dmx_out[p]
           \/ /\ g_dmx_out'[p].priority = 0 /\ g_dmx_out'[p].last_update = 0
              /\ Out!Elapsed(now, g_dmx_out[p].last_update) > g_config.hold
<1>1. g_dmx_out'[p] = Out!Held(p)
  BY DEF OutputCycle, Out!OutputCycle
<1> QED BY <1>1 DEF Out!Held, Out!Blackout, Out!TimedOut

\* An output cycle leaves everything else of the argument alone.
LEMMA OutputLeaves ==
    ASSUME OutputCycle
    PROVE  /\ pc = "output" /\ pc' = "input"
           /\ UNCHANGED <<g_config, ready, g_dmx_in, last_send, link, current,
                          joined, source, steady, now, wrapped, queue>>
  BY DEF OutputCycle, Out!OutputCycle, inVars, hist

\* An input cycle leaves the outputs and the circumstances alone.
LEMMA InputLeaves ==
    ASSUME InputCycle
    PROVE  /\ pc = "input" /\ pc' = "recv"
           /\ steady' = IF current' = current THEN steady ELSE 0
           /\ UNCHANGED <<g_config, g_dmx_out, ready, link, joined, source,
                          now, wrapped>>
  BY DEF InputCycle, In!dmx_input_cycle, outVars

\* An input cycle remembers the frame it reads.  When it sends, the packet with
\* that frame comes back to the node; when it does not send a steady look, the
\* keep-alive interval is not over.
LEMMA InputEffect ==
    ASSUME TypeOK, Awake, Remembered, InputCycle
    PROVE  /\ Remembered'
           /\ \/ /\ queue' = queue /\ last_send'[Rx] = last_send[Rx]
                 /\ Undisturbed /\ current' = current =>
                       In!Elapsed(now, last_send[Rx]) <= KeepAlive
              \/ /\ last_send'[Rx] = now
                 /\ queue' = IF LoopsBack
                             THEN Enqueued(OwnPacket(g_config, current'[Rx]))
                             ELSE queue
<1>1. PICK read \in [{Rx} -> InFrame \cup {In!NoFrame}] :
         LET sends == {p \in {Rx} : ready[p] /\ In!Sends(p, read[p])}
             stored == [p \in {Rx} |->
                          IF ready[p] THEN In!StoredAfter(p, read[p])
                                      ELSE g_dmx_in[p]]
         IN  /\ g_dmx_in' = stored
             /\ In!sacn_tx_send(sends, stored)
             /\ current' = [p \in {Rx} |->
                              IF ready[p] /\ read[p] # In!NoFrame
                              THEN read[p] ELSE current[p]]
  BY DEF InputCycle, In!dmx_input_cycle
<1> DEFINE frame == read[Rx]
           sent == ready[Rx] /\ In!Sends(Rx, frame) /\ link[Rx]
<1>2. /\ g_dmx_in'[Rx] = IF ready[Rx] THEN In!StoredAfter(Rx, frame)
                                      ELSE g_dmx_in[Rx]
      /\ current'[Rx] = IF ready[Rx] /\ frame # In!NoFrame
                        THEN frame ELSE current[Rx]
      /\ last_send'[Rx] = IF sent THEN now ELSE last_send[Rx]
      /\ quiet'[Rx] = IF sent THEN 0 ELSE quiet[Rx]
      /\ sent => net'[Rx].data = g_dmx_in'[Rx]
  BY <1>1 DEF In!sacn_tx_send
<1>3. quiet[Rx] # 0
  BY DEF Awake, InputCycle
<1>4. Sent <=> sent
  BY <1>2, <1>3 DEF Sent
<1>5. queue' = IF sent /\ LoopsBack
               THEN Enqueued(OwnPacket(g_config, net'[Rx].data)) ELSE queue
  BY <1>4 DEF InputCycle
<1>6. ready' = ready
  BY InputLeaves
<1> HIDE DEF frame
<1>7. ready[Rx] => g_dmx_in'[Rx] = current'[Rx]
  BY <1>2 DEF Remembered, In!StoredAfter, In!Sends
<1>8. Remembered'
  BY <1>6, <1>7 DEF Remembered
<1>9. CASE sent
  BY <1>2, <1>5, <1>7, <1>8, <1>9
<1>10. CASE ~sent
  <2>1. ASSUME Undisturbed, current' = current
        PROVE  In!Elapsed(now, last_send[Rx]) <= KeepAlive
    <3>1. /\ ready[Rx] /\ ~In!Sends(Rx, frame)
          /\ g_dmx_in[Rx] = current[Rx] /\ current[Rx] # In!NoFrame
      BY <1>10, <2>1 DEF Undisturbed, Remembered
    <3>2. frame # In!NoFrame => frame = g_dmx_in[Rx]
      BY <1>2, <2>1, <3>1
    <3>3. In!Elapsed(now, last_send[Rx]) \in Nat
      BY WrapAssumption DEF Awake, In!TypeOK, In!Time, In!Elapsed
    <3> QED BY <3>1, <3>2, <3>3, Assumptions
            DEF In!Sends, In!KeepAliveOver, In!KeepAliveOpen
  <2> QED BY <1>2, <1>5, <1>8, <1>10, <2>1
<1> QED BY <1>9, <1>10

(***************************************************************************)
(* The circumstances of a steady look, and the queue.                      *)
(***************************************************************************)

\* The part of the invariant that does not depend on the clock.
Circumstances == SteadyMeans /\ Remembered /\ OthersDrain

\* It holds at the start: no look is steady yet.
LEMMA InitCircumstances == Init => Circumstances
  BY DEF Init, In!Init, Circumstances, SteadyMeans, Remembered, OthersDrain,
         Older

\* Whatever is in a queue is at least 0 ticks old.
LEMMA OlderFresh ==
    ASSUME NEW q \in Seq(Datagram), NEW pkt
    PROVE  Older(q, pkt, 0)
<1> SUFFICES ASSUME NEW i \in 1 .. Len(q) PROVE 0 <= q[i].age
  BY DEF Older
<1>1. q[i] \in Datagram
  OBVIOUS
<1> QED BY <1>1 DEF Datagram

\* A datagram that joins a queue and is pkt, or the drop of one, leaves the
\* others as old as they are.
LEMMA OlderEnqueued ==
    ASSUME TypeOK, NEW pkt, NEW s, Older(queue, pkt, s)
    PROVE  Older(Enqueued(pkt), pkt, s)
<1>1. queue \in Seq(Datagram) /\ Len(queue) \in Nat
  BY DEF TypeOK
<1>2. CASE Enqueued(pkt) = queue
  BY <1>2
<1>3. CASE Enqueued(pkt) = Append(queue, [pkt |-> pkt, age |-> 0])
  <2> DEFINE new == [pkt |-> pkt, age |-> 0]
  <2>1. /\ Len(Append(queue, new)) = Len(queue) + 1
        /\ Append(queue, new)[Len(queue) + 1] = new
        /\ \A i \in 1 .. Len(queue) : Append(queue, new)[i] = queue[i]
    <3> HIDE DEF new
    <3> QED BY <1>1
  <2>2. ASSUME NEW i \in 1 .. Len(queue) + 1, Append(queue, new)[i].pkt # pkt
        PROVE  s <= Append(queue, new)[i].age
    <3>1. new.pkt = pkt
      OBVIOUS
    <3>2. i \in 1 .. Len(queue)
      <4> HIDE DEF new
      <4> QED BY <1>1, <2>1, <2>2, <3>1
    <3> HIDE DEF new
    <3> QED BY <2>1, <2>2, <3>2 DEF Older
  <2> HIDE DEF new
  <2>3. Older(Append(queue, new), pkt, s)
    BY <2>1, <2>2 DEF Older
  <2> QED BY <1>3, <2>3 DEF new
<1> QED BY <1>2, <1>3 DEF Enqueued

\* Every step keeps it.
LEMMA NextCircumstances ==
    ASSUME TypeOK, Awake, Out!TypeOK, Circumstances, [Next]_vars, TypeOK'
    PROVE  Circumstances'
<1> USE DEF Circumstances
<1>0. queue' \in Seq(Datagram)
  BY DEF TypeOK
<1>1. CASE ReceivePacket
  <2>1. SteadyMeans' /\ Remembered' /\ Own' = Own
    BY <1>1, ReceiveLeaves
       DEF SteadyMeans, Undisturbed, LoopsBack, Remembered, Own, OwnPacket
  <2>2. Older(queue', Own, steady)
    <3>1. ASSUME NEW i \in 1 .. Len(queue') PROVE i + 1 \in 1 .. Len(queue)
      <4>1. Len(queue) \in Nat
        BY DEF TypeOK
      <4> QED BY <1>1, <4>1, ReceiveLeaves
    <3> QED BY <1>1, <3>1, ReceiveLeaves DEF OthersDrain, Older
  <2> QED BY <1>1, <2>1, <2>2, ReceiveLeaves DEF OthersDrain
<1>2. CASE ReceiveNothing
  BY <1>2 DEF ReceiveNothing, Out!ReceiveNothing, Out!Received, inVars, hist,
              SteadyMeans, Undisturbed, LoopsBack, Remembered, OthersDrain,
              Own, OwnPacket
<1>3. CASE Sleep
  <2>1. PICK e \in 1 .. MaxDelay :
           /\ steady' = 0 \/ (Undisturbed /\ steady' <= steady + e)
           /\ Len(queue') = Len(queue)
           /\ \A i \in 1 .. Len(queue) : /\ queue'[i].pkt = queue[i].pkt
                                         /\ queue'[i].age = queue[i].age + e
    BY <1>3, SleepEffect
  <2>2. (Undisturbed' <=> Undisturbed) /\ Remembered' /\ Own' = Own
    BY <1>3, SleepLeaves DEF Undisturbed, LoopsBack, Remembered, Own, OwnPacket
  <2>3. SteadyMeans'
    BY <2>1, <2>2 DEF SteadyMeans
  <2>4. ASSUME steady' # 0, NEW i \in 1 .. Len(queue), queue[i].pkt # Own
        PROVE  steady' <= queue'[i].age
    <3>1. steady <= queue[i].age
      BY <2>4 DEF OthersDrain, Older
    <3>2. steady \in Nat /\ queue[i].age \in Nat /\ e \in Nat
      BY LookTypes, Assumptions
    <3>3. steady' \in Nat
      BY SettleType DEF TypeOK
    <3> QED BY <2>1, <2>4, <3>1, <3>2, <3>3
  <2>5. Older(queue', Own, steady')
    <3>1. CASE steady' = 0
      BY <1>0, <3>1, OlderFresh
    <3>2. CASE steady' # 0
      BY <2>1, <2>4, <3>2 DEF Older
    <3> QED BY <3>1, <3>2
  <2> QED BY <2>2, <2>3, <2>5 DEF OthersDrain
<1>4. CASE OutputCycle
  BY <1>4, OutputLeaves
     DEF SteadyMeans, Undisturbed, LoopsBack, Remembered, OthersDrain, Own,
         OwnPacket
<1>5. CASE InputCycle
  <2>1. Remembered'
    BY <1>5, InputEffect
  <2>2. CASE steady' = 0
    <3>1. Older(queue', Own', steady')
      BY <1>0, <2>2, OlderFresh
    <3> QED BY <2>1, <2>2, <3>1 DEF SteadyMeans, OthersDrain
  <2>3. CASE steady' # 0
    <3>1. current' = current /\ steady' = steady /\ Own' = Own
      BY <1>5, <2>3, InputLeaves DEF Own, OwnPacket
    <3>2. SteadyMeans'
      BY <1>5, <3>1, InputLeaves DEF SteadyMeans, Undisturbed, LoopsBack
    <3>3. queue' = queue \/ queue' = Enqueued(Own)
      BY <1>5, <3>1, InputEffect DEF Own
    <3>4. Older(queue', Own, steady)
      BY <3>3, OlderEnqueued DEF OthersDrain
    <3> QED BY <2>1, <3>1, <3>2, <3>4 DEF OthersDrain
  <2> QED BY <2>2, <2>3
<1>6. CASE LinkChanges
  <2>1. steady' = 0 /\ Remembered'
    BY <1>6 DEF LinkChanges, In!LinkChanges, In!prog, In!hist, Remembered
  <2>2. Older(queue', Own', steady')
    BY <1>0, <2>1, OlderFresh
  <2> QED BY <2>1, <2>2 DEF SteadyMeans, OthersDrain
<1>7. CASE Arrive
  <2>1. /\ source = "live"
        /\ UNCHANGED <<g_config, current, ready, g_dmx_in, steady>>
    BY <1>7 DEF Arrive, outVars, inVars, hist
  <2>2. steady = 0
    BY <2>1 DEF SteadyMeans, Undisturbed
  <2>3. Older(queue', Own', steady')
    BY <1>0, <2>1, <2>2, OlderFresh
  <2> QED BY <2>1, <2>2, <2>3 DEF SteadyMeans, Remembered, OthersDrain
<1>8. CASE SourceLost
  <2>1. /\ source = "live"
        /\ UNCHANGED <<g_config, current, ready, g_dmx_in, steady, queue>>
    BY <1>8 DEF SourceLost, outVars, inVars, hist
  <2>2. steady = 0
    BY <2>1 DEF SteadyMeans, Undisturbed
  <2>3. Own' = Own
    BY <2>1 DEF Own, OwnPacket
  <2> QED BY <2>1, <2>2, <2>3 DEF SteadyMeans, Remembered, OthersDrain
<1>9. CASE UNCHANGED vars
  BY <1>9 DEF vars, inVars, outVars, hist, SteadyMeans, Undisturbed, LoopsBack,
              Remembered, OthersDrain, Own, OwnPacket
<1> QED BY <1>1, <1>2, <1>3, <1>4, <1>5, <1>6, <1>7, <1>8, <1>9 DEF Next, Loop

(***************************************************************************)
(* Time stamps, priorities and keep-alives.                                *)
(***************************************************************************)

\* The part of the invariant that holds until the clock wraps.
Timely == ~wrapped => ClockAhead /\ Yields /\ KeptAlive

\* The datagram that is received next is the steady look's, or the look has
\* been steady for no longer than the queue takes.
LEMMA HeadIsOwn ==
    ASSUME TypeOK, Awake, Out!TypeOK, QueueMoves, OthersDrain,
           pc = "recv", queue # <<>>, queue[1].pkt # Own
    PROVE  steady <= Drain
<1>1. 1 \in 1 .. Len(queue)
  BY DEF TypeOK
<1>2. queue[1].age <= Patience(1, 1)
  BY <1>1, QueueMovesForm DEF Turn
<1>3. QueueCap - 1 + 1 = QueueCap
  BY Assumptions
<1>4. queue[1].age <= Drain
  BY <1>2, <1>3 DEF Patience, Drain
<1>5. steady <= queue[1].age
  BY <1>1 DEF OthersDrain, Older
<1>6. queue[1].age \in Nat /\ steady \in Nat
  BY <1>1, LookTypes
<1> QED BY <1>4, <1>5, <1>6, ClearTypes

\* At the start no packet was sent or taken over.
LEMMA InitTimely == Init => Timely
<1> SUFFICES ASSUME Init PROVE ClockAhead /\ Yields /\ KeptAlive
  BY DEF Timely
<1>1. Out!Init /\ In!Init
  BY InitOutput, InitInput
<1>2. now \in Nat
  BY <1>1, HalvesAssumption, WrapAssumption
     DEF Out!Init, Out!OutputAssumption, Out!Time
<1>3. \A p \in Port : /\ g_dmx_out[p].priority = 0
                      /\ g_dmx_out[p].last_update = 0
  BY <1>1 DEF Out!Init
<1>4. ~(0 > DefaultPriority)
  BY NodeAssumption
<1>5. last_send[Rx] = 0
  BY <1>1 DEF In!Init
<1> QED BY <1>2, <1>3, <1>4, <1>5 DEF Init, ClockAhead, Yields, KeptAlive

\* Every step keeps it.
LEMMA NextTimely ==
    ASSUME TypeOK, Awake, Out!TypeOK, QueueMoves, Circumstances, Timely,
           [Next]_vars, TypeOK'
    PROVE  Timely'
<1> SUFFICES ASSUME ~wrapped' PROVE ClockAhead' /\ Yields' /\ KeptAlive'
  BY DEF Timely
<1>a. /\ now \in Nat /\ last_send[Rx] \in Nat /\ steady \in Nat
      /\ \A p \in Port : /\ g_dmx_out[p].priority \in Nat
                         /\ g_dmx_out[p].last_update \in Nat
      /\ Drain \in Nat /\ MaxDelay \in Nat /\ KeepAlive \in Nat
      /\ DefaultPriority \in Nat
  BY LookTypes, ClearTypes, Assumptions, NodeAssumption
<1>b. ASSUME ~wrapped,
             UNCHANGED <<last_send, g_dmx_out, now, steady>>,
             pc' = pc \/ (pc = "recv" /\ pc' = "sleep")
      PROVE  ClockAhead' /\ Yields' /\ KeptAlive'
  BY <1>b DEF Timely, ClockAhead, Yields, KeptAlive
<1>1. CASE ReceivePacket
  <2>1. ~wrapped /\ UNCHANGED <<last_send, now, steady>>
        /\ pc = "recv" /\ pc' = "sleep" /\ queue # <<>>
    BY <1>1, ReceiveLeaves
  <2>2. ClockAhead /\ Yields /\ KeptAlive
    BY <2>1 DEF Timely
  <2>3. KeptAlive'
    BY <2>1, <2>2 DEF KeptAlive
  <2>4. ASSUME NEW p \in Port
        PROVE  /\ g_dmx_out'[p].last_update <= now
               /\ g_dmx_out'[p].priority > DefaultPriority =>
                     steady + g_dmx_out'[p].last_update <= now + Drain
    <3>1. CASE g_dmx_out'[p] = g_dmx_out[p]
      BY <2>2, <3>1 DEF ClockAhead, Yields
    <3>2. CASE g_dmx_out'[p].priority = queue[1].pkt.priority
               /\ g_dmx_out'[p].last_update = now
      <4>1. Own.priority = DefaultPriority
        BY DEF Own, OwnPacket
      <4>2. g_dmx_out'[p].priority > DefaultPriority => steady <= Drain
        <5>1. ASSUME queue[1].pkt # Own PROVE steady <= Drain
          BY <2>1, <5>1, HeadIsOwn DEF Circumstances
        <5>2. ~(DefaultPriority > DefaultPriority)
          BY <1>a
        <5> QED BY <3>2, <4>1, <5>1, <5>2
      <4> QED BY <1>a, <3>2, <4>2
    <3>3. \/ g_dmx_out'[p] =
                [data |-> Out!Overlay(g_dmx_out[p].data, queue[1].pkt.data),
                 priority |-> queue[1].pkt.priority, last_update |-> now]
          \/ g_dmx_out'[p] = g_dmx_out[p]
      BY <1>1, ReceiveEffect
    <3> QED BY <3>1, <3>2, <3>3
  <2> QED BY <2>1, <2>2, <2>3, <2>4 DEF ClockAhead, Yields
<1>2. CASE ReceiveNothing
  BY <1>2, <1>b
     DEF ReceiveNothing, Out!ReceiveNothing, Out!Received, inVars, hist
<1>3. CASE Sleep
  <2>1. PICK e \in 1 .. MaxDelay :
           /\ ~wrapped' => ~wrapped /\ now' = now + e
           /\ steady' = 0 \/ (Undisturbed /\ steady' <= steady + e)
    BY <1>3, SleepEffect
  <2>2. ~wrapped /\ now' = now + e /\ e \in Nat /\ e <= MaxDelay
    BY <2>1, <1>a
  <2>3. pc = "sleep" /\ pc' = "output" /\ UNCHANGED <<g_dmx_out, last_send>>
    BY <1>3, SleepLeaves
  <2>4. ClockAhead /\ Yields /\ KeptAlive
    BY <2>2 DEF Timely
  <2>5. steady' \in Nat /\ steady' <= steady + e
    <3>1. steady' \in Nat
      BY SettleType DEF TypeOK
    <3> QED BY <2>1, <2>2, <3>1, <1>a
  <2>6. ClockAhead'
    BY <1>a, <2>2, <2>3, <2>4 DEF ClockAhead
  <2>7. Yields'
    BY <1>a, <2>2, <2>3, <2>4, <2>5 DEF Yields
  <2>8. KeptAlive'
    BY <1>a, <2>2, <2>3, <2>4, <2>5 DEF KeptAlive
  <2> QED BY <2>6, <2>7, <2>8
<1>4. CASE OutputCycle
  <2>1. ~wrapped /\ UNCHANGED <<last_send, now, steady>>
        /\ pc = "output" /\ pc' = "input"
    BY <1>4, OutputLeaves
  <2>2. ClockAhead /\ Yields /\ KeptAlive
    BY <2>1 DEF Timely
  <2>3. KeptAlive'
    BY <2>1, <2>2 DEF KeptAlive
  <2>4. ASSUME NEW p \in Port
        PROVE  /\ g_dmx_out'[p].last_update <= now
               /\ g_dmx_out'[p].priority > DefaultPriority =>
                     steady + g_dmx_out'[p].last_update <= now + Drain
    <3>1. CASE g_dmx_out'[p] = g_dmx_out[p]
      BY <2>2, <3>1 DEF ClockAhead, Yields
    <3>2. CASE g_dmx_out'[p].priority = 0 /\ g_dmx_out'[p].last_update = 0
      BY <1>a, <3>2
    <3> QED BY <1>4, <3>1, <3>2, OutputEffect
  <2> QED BY <2>1, <2>2, <2>3, <2>4 DEF ClockAhead, Yields
<1>5. CASE InputCycle
  <2>1. ~wrapped /\ UNCHANGED <<now, g_dmx_out>>
        /\ pc = "input" /\ pc' = "recv"
        /\ steady' = IF current' = current THEN steady ELSE 0
    BY <1>5, InputLeaves
  <2>2. ClockAhead /\ Yields
    BY <2>1 DEF Timely
  <2>3. \/ last_send'[Rx] = now
        \/ /\ last_send'[Rx] = last_send[Rx]
           /\ steady' # 0 => In!Elapsed(now, last_send[Rx]) <= KeepAlive
    BY <1>5, <2>1, InputEffect DEF Circumstances, SteadyMeans
  <2>4. ClockAhead'
    BY <1>a, <2>1, <2>2, <2>3 DEF ClockAhead
  <2>5. Yields'
    BY <1>a, <2>1, <2>2 DEF Yields
  <2>6. In!Elapsed(now, last_send[Rx]) = now - last_send[Rx]
    BY <1>a, <2>2, ElapsedInOrder DEF ClockAhead
  <2>7. KeptAlive'
    BY <1>a, <2>1, <2>3, <2>6 DEF KeptAlive
  <2> QED BY <2>4, <2>5, <2>7
<1>6. CASE LinkChanges
  <2>1. ~wrapped /\ UNCHANGED <<last_send, g_dmx_out, now, pc>>
        /\ steady' = 0
    BY <1>6 DEF LinkChanges, In!LinkChanges, In!prog, outVars
  <2>2. ClockAhead /\ Yields /\ KeptAlive
    BY <2>1 DEF Timely
  <2>3. \A p \in Port : 0 + g_dmx_out[p].last_update <= now + Drain
    BY <1>a, <2>2 DEF ClockAhead
  <2> QED BY <1>a, <2>1, <2>2, <2>3 DEF ClockAhead, Yields, KeptAlive
<1>7. CASE Arrive \/ SourceLost \/ UNCHANGED vars
  BY <1>7, <1>b DEF Arrive, SourceLost, vars, outVars, inVars, hist
<1> QED BY <1>1, <1>2, <1>3, <1>4, <1>5, <1>6, <1>7 DEF Next, Loop

(***************************************************************************)
(* The look on its way to the outputs.                                     *)
(***************************************************************************)

\* The part of the invariant about the outputs.
Arriving == Spans => Reaches /\ Through

\* No look is steady at the start.
LEMMA InitArriving == Init => Arriving
<1> SUFFICES ASSUME Init PROVE Reaches /\ Through
  BY DEF Arriving
<1>1. Out!Init /\ In!Init
  BY InitOutput, InitInput
<1>2. now \in Nat /\ last_send[Rx] = 0 /\ steady = 0
  BY <1>1, HalvesAssumption, WrapAssumption
     DEF Init, In!Init, Out!Init, Out!OutputAssumption, Out!Time
<1> QED BY <1>2, ClearTypes, Assumptions DEF Reaches, Through

\* A packet of the steady look that is received when the way is clear is stored
\* in every output on its universe.
LEMMA ClearReceive ==
    ASSUME TypeOK, Awake, Out!TypeOK, QueueMoves, Circumstances, Timely,
           ReceivePacket, ~wrapped, steady > Clear, NEW p \in Outlet
    PROVE  Fed(p)'
<1>1. /\ now \in Nat /\ last_send[Rx] \in Nat /\ steady \in Nat
      /\ g_dmx_out[p].priority \in Nat /\ g_dmx_out[p].last_update \in Nat
      /\ Drain \in Nat /\ Clear = Drain + SacnTimeout /\ SacnTimeout \in Nat
      /\ DefaultPriority \in Nat
  <2>1. DefaultPriority \in Nat
    BY NodeAssumption
  <2>2. p \in Port
    BY DEF Outlet
  <2>3. g_dmx_out[p].priority \in Nat /\ g_dmx_out[p].last_update \in Nat
    BY <2>2, LookTypes
  <2>4. now \in Nat /\ last_send[Rx] \in Nat /\ steady \in Nat
    BY LookTypes
  <2> QED BY <2>1, <2>3, <2>4, ClearTypes, Assumptions
<1>2. ClockAhead /\ Yields
  BY DEF Timely
<1>3. queue[1].pkt = Own
  <2>1. pc = "recv" /\ queue # <<>>
    BY ReceiveLeaves
  <2>2. ~(steady <= Drain)
    BY <1>1
  <2> QED BY <2>1, <2>2, HeadIsOwn DEF Circumstances
<1>4. p \in Port /\ g_config.mode[p] = "TX"
      /\ g_config.universe[p] = g_config.universe[Rx]
  BY DEF Outlet
<1>5. Out!Outranks(p, Own)
  <2>1. Own.priority = DefaultPriority
    BY DEF Own, OwnPacket
  <2>2. g_dmx_out[p].last_update <= now
    BY <1>2, <1>4 DEF ClockAhead
  <2>3. Out!Elapsed(now, g_dmx_out[p].last_update)
          = now - g_dmx_out[p].last_update
    BY <1>1, <2>2, ElapsedInOrder
  <2>4. g_dmx_out[p].priority > DefaultPriority =>
           steady + g_dmx_out[p].last_update <= now + Drain
    BY <1>2, <1>4 DEF Yields
  <2>5. DefaultPriority >= g_dmx_out[p].priority
        \/ now - g_dmx_out[p].last_update > SacnTimeout
    BY <1>1, <2>2, <2>4
  <2> QED BY <2>1, <2>3, <2>5 DEF Out!Outranks
<1>6. /\ Own.start_code = 0 /\ Own.universe = g_config.universe[Rx]
      /\ Own.data = current[Rx]
  BY DEF Own, OwnPacket
<1>7. g_dmx_out'[p] =
         [data |-> Out!Overlay(g_dmx_out[p].data, current[Rx]),
          priority |-> Own.priority, last_update |-> now]
  BY <1>3, <1>4, <1>5, <1>6, ReceiveEffect
<1>8. UNCHANGED <<last_send, current, now>>
  BY ReceiveLeaves
<1>9. Shows(g_dmx_out'[p].data, current[Rx])
  <2>1. current[Rx] \in Seq(Level) /\ Len(current[Rx]) <= FrameSize
    <3>1. Own \in SacnPacket
      <4>1. 1 \in 1 .. Len(queue)
        BY ReceiveLeaves
      <4>2. queue[1] \in Datagram
        BY <4>1 DEF TypeOK
      <4> QED BY <1>3, <4>2 DEF Datagram
    <3>2. Own.data \in Out!Payload
      BY <3>1, HalvesAssumption DEF Out!OutputAssumption
    <3> QED BY <1>6, <3>2 DEF Out!Payload
  <2>2. ASSUME NEW c \in 1 .. Len(current[Rx])
        PROVE  g_dmx_out'[p].data[c] = current[Rx][c]
    <3>1. c \in Out!Channel /\ c <= Len(current[Rx])
      BY <2>1, HalvesAssumption DEF Out!Channel, Out!OutputAssumption
    <3> QED BY <1>7, <3>1 DEF Out!Overlay
  <2> QED BY <2>2 DEF Shows
<1> QED BY <1>2, <1>7, <1>8, <1>9 DEF Fed, ClockAhead

\* A look that has not been steady for long need not have reached anything.
LEMMA NotSteadyYet ==
    ASSUME TypeOK, Awake, Out!TypeOK, ~wrapped, Timely, steady <= Clear
    PROVE  steady + last_send[Rx] <= now + Clear
<1>1. last_send[Rx] <= now
  BY DEF Timely, ClockAhead
<1> QED BY <1>1, LookTypes, ClearTypes

\* Between keep-alives an output that was fed is not blacked out, unless the
\* look is new.
LEMMA StaysFed ==
    ASSUME TypeOK, Awake, Out!TypeOK, Timely, Spans, OutputCycle,
           NEW p \in Port, Fed(p), steady > MaxDelay
    PROVE  g_dmx_out'[p] = g_dmx_out[p]
<1>1. /\ now \in Nat /\ last_send[Rx] \in Nat /\ steady \in Nat
      /\ g_dmx_out[p].last_update \in Nat /\ g_config.hold \in Nat
      /\ KeepAlive \in Nat /\ MaxDelay \in Nat
  BY LookTypes, Assumptions
<1>2. ClockAhead /\ KeptAlive /\ g_config.hold >= KeepAlive + MaxDelay
  BY DEF Timely, Spans
<1>3. last_send[Rx] <= g_dmx_out[p].last_update
      /\ g_dmx_out[p].last_update <= now
  BY <1>2 DEF Fed, ClockAhead
<1>4. now <= last_send[Rx] + KeepAlive + MaxDelay
  <2>1. pc = "output"
    BY OutputLeaves
  <2> QED BY <1>1, <1>2, <2>1 DEF KeptAlive
<1>5. Out!Elapsed(now, g_dmx_out[p].last_update)
        = now - g_dmx_out[p].last_update
  BY <1>1, <1>3, ElapsedInOrder
<1>6. ~(now - g_dmx_out[p].last_update > g_config.hold)
  BY <1>1, <1>2, <1>3, <1>4
<1> QED BY <1>5, <1>6, OutputEffect

\* Every step keeps it: the first packet that is sent when the way is clear is
\* taken over before the next output cycle, and keeps the output lit until the
\* one after it.
LEMMA NextArriving ==
    ASSUME TypeOK, Awake, Out!TypeOK, QueueMoves, Circumstances, Timely,
           Arriving, [Next]_vars,
           TypeOK', Awake', Out!TypeOK', Circumstances', Timely'
    PROVE  Arriving'
<1> SUFFICES ASSUME Spans' PROVE Reaches' /\ Through'
  BY DEF Arriving
<1>a. /\ now \in Nat /\ last_send[Rx] \in Nat /\ steady \in Nat
      /\ Drain \in Nat /\ MaxDelay \in Nat /\ KeepAlive \in Nat
      /\ SacnTimeout \in Nat /\ Clear \in Nat /\ MaxDelay <= Clear
  <2>1. MaxDelay <= Drain /\ Clear = Drain + SacnTimeout /\ Drain \in Nat
    BY ClearTypes
  <2> QED BY <2>1, LookTypes, Assumptions
<1>b. now' \in Nat /\ last_send'[Rx] \in Nat
  BY WrapAssumption DEF Awake, In!TypeOK, In!Time
<1>c. last_send'[Rx] <= now'
  BY DEF Spans, Timely, ClockAhead
<1>d. ASSUME steady' = 0 PROVE Reaches' /\ Through'
  <2>1. steady' + last_send'[Rx] <= now' + Clear
    BY <1>a, <1>b, <1>c, <1>d
  <2>2. steady' <= Clear + KeepAlive + MaxDelay
    BY <1>a, <1>d
  <2> QED BY <2>1, <2>2 DEF Reaches, Through
<1>e. ASSUME ~wrapped, g_config' = g_config
      PROVE  Spans /\ Reaches /\ Through /\ Outlet' = Outlet
  BY <1>e DEF Spans, Arriving, Outlet
<1>1. CASE ReceivePacket
  <2>1. /\ UNCHANGED <<g_config, current, last_send, steady, now, wrapped>>
        /\ pc' = "sleep"
    BY <1>1, ReceiveLeaves
  <2>2. ~wrapped /\ Outlet' = Outlet
    BY <2>1, <1>e DEF Spans
  <2>3. ASSUME NEW p \in Outlet
        PROVE  Fed(p)' \/ steady + last_send[Rx] <= now + Clear
    <3>1. CASE steady <= Clear
      BY <2>2, <3>1, NotSteadyYet
    <3>2. CASE steady > Clear
      BY <1>1, <2>2, <3>2, ClearReceive
    <3> QED BY <1>a, <3>1, <3>2
  <2> QED BY <2>1, <2>2, <2>3 DEF Reaches, Through
<1>2. CASE ReceiveNothing
  <2>1. /\ UNCHANGED <<g_config, current, last_send, steady, now, wrapped,
                       g_dmx_out>>
        /\ queue = <<>> /\ pc' = "sleep"
    BY <1>2 DEF ReceiveNothing, Due, Out!ReceiveNothing, Out!Received, inVars,
                hist
  <2>2. ~wrapped /\ Outlet' = Outlet /\ Reaches
    BY <2>1, <1>e DEF Spans
  <2> QED BY <2>1, <2>2 DEF Reaches, Fed, Through
<1>3. CASE Sleep
  <2>1. PICK e \in 1 .. MaxDelay :
           /\ ~wrapped' => ~wrapped /\ now' = now + e
           /\ steady' = 0 \/ (Undisturbed /\ steady' <= steady + e)
    BY <1>3, SleepEffect
  <2>2. ~wrapped /\ now' = now + e /\ e \in Nat
    BY <2>1, <1>a DEF Spans
  <2>3. /\ pc = "sleep" /\ pc' = "output"
        /\ UNCHANGED <<g_config, g_dmx_out, last_send, current>>
    BY <1>3, SleepLeaves
  <2>4. Outlet' = Outlet /\ Reaches
    BY <2>2, <2>3, <1>e
  <2>5. steady' \in Nat /\ steady' <= steady + e
    <3>1. steady' \in Nat
      BY SettleType DEF TypeOK
    <3> QED BY <2>1, <2>2, <3>1, <1>a
  <2>6. steady + last_send[Rx] <= now + Clear =>
           steady' + last_send[Rx] <= now' + Clear
    BY <1>a, <2>2, <2>5
  <2>7. ASSUME NEW p \in Outlet
        PROVE  Fed(p)' \/ steady' + last_send'[Rx] <= now' + Clear
    BY <2>3, <2>4, <2>6 DEF Reaches, Fed
  <2> QED BY <2>3, <2>4, <2>7 DEF Reaches, Through
<1>4. CASE OutputCycle
  <2>1. /\ UNCHANGED <<g_config, current, last_send, steady, now, wrapped>>
        /\ pc = "output" /\ pc' = "input"
    BY <1>4, OutputLeaves
  <2>2. ~wrapped /\ Spans /\ Outlet' = Outlet /\ Reaches
    BY <2>1, <1>e DEF Spans
  <2>3. ASSUME NEW p \in Outlet
        PROVE  Fed(p)' \/ steady + last_send[Rx] <= now + Clear
    <3>1. CASE steady <= MaxDelay
      <4>1. steady <= Clear
        BY <1>a, <3>1
      <4> QED BY <2>2, <4>1, NotSteadyYet
    <3>2. CASE steady > MaxDelay /\ Fed(p)
      <4>1. g_dmx_out'[p] = g_dmx_out[p]
        BY <1>4, <2>2, <3>2, StaysFed DEF Outlet
      <4> QED BY <2>1, <3>2, <4>1 DEF Fed
    <3>3. CASE ~Fed(p)
      BY <2>1, <2>2, <3>3 DEF Reaches
    <3> QED BY <1>a, <3>1, <3>2, <3>3
  <2> QED BY <2>1, <2>2, <2>3 DEF Reaches, Through
<1>5. CASE InputCycle /\ steady' # 0
  <2>1. /\ UNCHANGED <<g_config, g_dmx_out, now, wrapped>>
        /\ current' = current /\ steady' = steady
        /\ pc = "input" /\ pc' = "recv"
    BY <1>5, InputLeaves
  <2>2. ~wrapped /\ Outlet' = Outlet /\ Reaches
    BY <2>1, <1>e DEF Spans
  <2>3. ASSUME NEW p \in Outlet
        PROVE  Shows(g_dmx_out[p].data, current[Rx])
               \/ steady <= Clear + KeepAlive + MaxDelay
    <3>1. Fed(p) \/ steady + last_send[Rx] <= now + Clear
      BY <2>1, <2>2 DEF Reaches
    <3>2. steady <= MaxDelay \/ now <= last_send[Rx] + KeepAlive + MaxDelay
      BY <2>1, <2>2 DEF Timely, KeptAlive
    <3>3. steady + last_send[Rx] <= now + Clear =>
             steady <= Clear + KeepAlive + MaxDelay
      BY <1>a, <3>2
    <3> QED BY <3>1, <3>3 DEF Fed
  <2>4. Through'
    BY <2>1, <2>2, <2>3 DEF Through
  <2>5. CASE queue' = queue /\ last_send'[Rx] = last_send[Rx]
    BY <2>1, <2>2, <2>4, <2>5 DEF Reaches, Fed
  <2>6. CASE steady <= Clear
    <3>1. steady' + last_send'[Rx] <= now' + Clear
      BY <1>a, <1>b, <1>c, <2>1, <2>6
    <3> QED BY <2>4, <3>1 DEF Reaches
  <2>7. CASE queue' = IF LoopsBack
                      THEN Enqueued(OwnPacket(g_config, current'[Rx]))
                      ELSE queue
    <3>1. LoopsBack
      BY <1>5, <2>1 DEF Circumstances, SteadyMeans, Undisturbed
    <3>2. queue' # <<>>
      <4>1. queue \in Seq(Datagram) /\ QueueCap \in Nat \ {0}
        BY Assumptions DEF TypeOK
      <4> QED BY <2>7, <3>1, <4>1 DEF Enqueued
    <3> QED BY <2>1, <2>4, <3>2 DEF Reaches
  <2> QED BY <1>5, <2>5, <2>7, InputEffect DEF Circumstances
<1>6. CASE LinkChanges
  BY <1>6, <1>d DEF LinkChanges
<1>7. CASE Arrive
  <2>1. steady' = 0
    BY <1>7 DEF Arrive, hist, Circumstances, SteadyMeans, Undisturbed
  <2> QED BY <2>1, <1>d
<1>8. CASE SourceLost \/ UNCHANGED vars
  <2>1. UNCHANGED <<g_config, g_dmx_out, current, last_send, steady, now,
                    wrapped, pc, queue>>
    BY <1>8 DEF SourceLost, vars, outVars, inVars, hist
  <2>2. ~wrapped /\ Outlet' = Outlet /\ Reaches /\ Through
    BY <2>1, <1>e DEF Spans
  <2> QED BY <2>1, <2>2 DEF Reaches, Fed, Through
<1> QED BY <1>d, <1>1, <1>2, <1>3, <1>4, <1>5, <1>6, <1>7, <1>8
        DEF Next, Loop

\* Where the line carries the look that was merged last.
AfterCycle == pc \in {"recv", "input"}

\* There the invariant and FrameShown of the output half give the property.
LEMMA PassesAfterCycle ==
    TypeOK /\ Awake /\ Out!TypeOK /\ Timely /\ Arriving /\ OutP!FrameShown
        => (AfterCycle => PassesThrough)
<1> SUFFICES ASSUME TypeOK, Awake, Out!TypeOK, Timely, Arriving,
                    OutP!FrameShown, AfterCycle,
                    steady = SettleTime, Spans,
                    NEW p \in Port, Out!Active(p), ~missed[p],
                    g_config.universe[p] = g_config.universe[Rx],
                    NEW c \in 1 .. Len(current[Rx])
             PROVE  wire[p][c] = current[Rx][c]
  BY DEF PassesThrough, Spans
<1>1. wire[p] = g_dmx_out[p].data
  BY DEF OutP!FrameShown, AfterCycle, Spans, Out!Active, OutP!Active
<1>2. p \in Outlet
  BY DEF Outlet, Out!Active
<1>3. /\ now \in Nat /\ last_send[Rx] \in Nat
      /\ MaxDelay \in Nat /\ MaxDelay > 0 /\ KeepAlive \in Nat
      /\ Clear \in Nat /\ steady = Clear + KeepAlive + 2 * MaxDelay
  BY LookTypes, ClearTypes, Assumptions
<1>4. Reaches /\ Through /\ KeptAlive
  BY DEF Arriving, Timely, Spans
<1>5. ~(steady <= Clear + KeepAlive + MaxDelay) /\ ~(steady <= MaxDelay)
  BY <1>3
<1>6. CASE pc = "recv"
  BY <1>1, <1>2, <1>4, <1>5, <1>6 DEF Through, Shows
<1>7. CASE pc = "input"
  <2>1. now <= last_send[Rx] + KeepAlive + MaxDelay
    BY <1>4, <1>5, <1>7 DEF KeptAlive
  <2>2. ~(steady + last_send[Rx] <= now + Clear)
    BY <1>3, <2>1
  <2> QED BY <1>1, <1>2, <1>4, <1>7, <2>2 DEF Reaches, Fed, Shows
<1> QED BY <1>6, <1>7 DEF AfterCycle

\* The other steps keep the property, since they leave the line alone.
LEMMA NextPasses ==
    TypeOK /\ Circumstances /\ PassesThrough /\ [Next]_vars
        => PassesThrough' \/ AfterCycle'
<1> SUFFICES ASSUME TypeOK, Circumstances, PassesThrough, [Next]_vars,
                    ~AfterCycle'
             PROVE  PassesThrough'
  OBVIOUS
<1>1. 0 # SettleTime
  BY ClearTypes, Assumptions
<1>2. ASSUME pc # "output",
             UNCHANGED <<g_config, fds, wire, missed, wrapped, current, steady>>
      PROVE  PassesThrough'
  BY <1>2 DEF PassesThrough, Out!Active
<1>3. CASE ReceivePacket
  <2>1. pc = "recv" /\ UNCHANGED <<g_config, fds, wire, missed, wrapped,
                                   current, steady>>
    BY <1>3, ReceiveLeaves
  <2> QED BY <2>1, <1>2
<1>4. CASE ReceiveNothing
  BY <1>4, <1>2 DEF ReceiveNothing, Out!ReceiveNothing, Out!Received, inVars,
                    hist
<1>5. CASE Sleep
  BY <1>5, SleepLeaves DEF PassesThrough
<1>6. CASE OutputCycle
  BY <1>6, OutputLeaves DEF AfterCycle
<1>7. CASE InputCycle
  BY <1>7, InputLeaves DEF AfterCycle
<1>8. CASE LinkChanges
  BY <1>1, <1>8 DEF LinkChanges, PassesThrough
<1>9. CASE Arrive
  <2>1. steady' = 0
    BY <1>9 DEF Arrive, hist, Circumstances, SteadyMeans, Undisturbed
  <2> QED BY <1>1, <2>1 DEF PassesThrough
<1>10. CASE SourceLost \/ UNCHANGED vars
  <2>1. UNCHANGED <<g_config, fds, wire, missed, wrapped, current, steady, pc>>
    BY <1>10 DEF SourceLost, vars, outVars, inVars, hist
  <2>2. CASE pc = "output"
    BY <2>1, <2>2 DEF PassesThrough
  <2> QED BY <2>1, <2>2, <1>2
<1> QED BY <1>3, <1>4, <1>5, <1>6, <1>7, <1>8, <1>9, <1>10 DEF Next, Loop

\* The output half keeps its types within the composition.
LEMMA OutputTypes == OutP!TypeOK => Out!TypeOK
  BY DEF OutP!TypeOK, Out!TypeOK, OutP!OutFrame, Out!OutFrame, OutP!Frame,
         Out!Frame, OutP!Channel, Out!Channel, OutP!Priority, Out!Priority,
         OutP!Time, Out!Time, OutP!Heard, Out!Heard

\* Pass-through, for every number of ports, queue length and timing: a look that
\* stays on its input line while the others are silent is on every output of its
\* universe once it has been there for SettleTime.
THEOREM LooksPassThrough == Spec => []PassesThrough
<1>1. OutP!Spec => []OutP!FrameShown
  BY OutputConstants, OutP!FramesAreShown
<1>2. OutP!Spec => []OutP!TypeOK
  BY OutputConstants, OutP!TypeCorrect
<1>3. Init => PassesThrough
  <2>1. 0 # SettleTime
    BY ClearTypes, Assumptions
  <2> QED BY <2>1 DEF Init, PassesThrough
<1>4. TypeOK /\ Awake /\ Out!TypeOK /\ Circumstances /\ [Next]_vars
      /\ TypeOK' => Circumstances'
  BY NextCircumstances
<1>5. TypeOK /\ Awake /\ Out!TypeOK /\ QueueMoves /\ Circumstances /\ Timely
      /\ [Next]_vars /\ TypeOK' => Timely'
  BY NextTimely
<1>6. TypeOK /\ Awake /\ Out!TypeOK /\ QueueMoves /\ Circumstances /\ Timely
      /\ Arriving /\ [Next]_vars
      /\ TypeOK' /\ Awake' /\ Out!TypeOK' /\ Circumstances' /\ Timely'
        => Arriving'
  BY NextArriving
<1> QED BY <1>1, <1>2, <1>3, <1>4, <1>5, <1>6, InitCircumstances, InitTimely,
           InitArriving, NextPasses, PassesAfterCycle, OutputTypes,
           OutputImplemented, SameOutput, NodeInvariant, MovesInvariant, PTL
        DEF Spec, ImplementsOutput
=============================================================================
