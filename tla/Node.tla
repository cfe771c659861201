-------------------------------- MODULE Node --------------------------------
(***************************************************************************)
(* The event loop of main() with both its halves and the sACN socket       *)
(* between it and the network:                                             *)
(*                                                                         *)
(*   "recv" --> "sleep" --> "output" --> "input" --> "recv" ...            *)
(*                                                                         *)
(* DmxOutput is the network-to-DMX half, DmxInput the DMX-to-network half; *)
(* they share the clock and the loop.  Here datagrams do not appear at the *)
(* moment they are received: they wait in the kernel's socket queue, of    *)
(* which the loop takes one per iteration, and which drops what arrives    *)
(* when it is full.  The node's own packets come back to it when it sends  *)
(* on the universe whose multicast group its socket has joined (the one of *)
(* port 0), since the kernel loops multicast packets back by default; a    *)
(* failed join is only logged.                                             *)
(*                                                                         *)
(* One port is an input and the others are outputs or off, the protocol is *)
(* sACN.                                                                   *)
(***************************************************************************)
EXTENDS Clock, Sequences

CONSTANTS
    Port, FrameSize, Level, Config, SacnTimeout, MaxDelay, QuietCap, StartTime,
    OpenMayFail,      \* as in DmxOutput
    InFrame, KeepAlive, SeqWrap,
                      \* as in DmxInput
    Rx,               \* the input port
    JoinPort,         \* the port whose universe the socket joins: ports[0]
    External,         \* the sACN packets other sources send
    DefaultPriority,  \* SACN_DEFAULT_PRIORITY (100)
    QueueCap,         \* the datagrams the socket queue holds
    Horizon           \* bound: the reading at which the clock stops

ASSUME NodeAssumption ==
    /\ Rx \in Port
    /\ JoinPort \in Port
    /\ QueueCap \in Nat \ {0}
    /\ DefaultPriority \in 0 .. 255
    /\ \A g \in Config :
          /\ g.protocol = "sacn"
          /\ \A p \in Port : g.mode[p] = "RX" <=> p = Rx

VARIABLES
    g_config, g_dmx_out, fds, last_write, wire, heard, missed, wrapped,
                      \* as in DmxOutput
    ready, g_dmx_in, last_send, sequence, link, net, current, failing,
    refused, quiet,   \* as in DmxInput
    now,              \* the clock of both
    pc,               \* where the loop stands
    joined,           \* whether sacn_init could join the multicast group
    queue,            \* the datagrams in the socket, with their age
    source,           \* "live", or "silent": nobody else sends any more
    lag,              \* history, per port: how long the packet last taken
                      \* over had waited in the queue
    steady            \* history: how long Undisturbed has held

outVars == <<g_config, g_dmx_out, fds, last_write, wire, heard, missed,
             wrapped>>
inVars == <<ready, g_dmx_in, last_send, sequence, link, net, current, failing,
            refused, quiet>>
hist == <<lag, steady>>
vars == <<outVars, inVars, now, pc, joined, queue, source, hist>>

\* What the kernel hands back of the node's own packets.
OwnPacket(g, data) ==
    [start_code |-> 0, universe |-> g.universe[Rx],
     priority |-> DefaultPriority, data |-> data]

SacnPacket ==
    External \cup {OwnPacket(g, data) : g \in Config, data \in InFrame}

\* In the output half the input cycle is the beginning of the next iteration.
Out == INSTANCE DmxOutput
         WITH ArtnetPacket <- {}, ShownetPacket <- {},
              phase <- IF pc = "input" THEN "recv" ELSE pc,
              network <- "live"

\* In the input half receiving is part of the sleep.
In == INSTANCE DmxInput
        WITH Port <- {Rx},
             phase <- IF pc \in {"output", "input"} THEN "input" ELSE "sleep"

\* What the two halves assume of their constants.
ASSUME HalvesAssumption == Out!OutputAssumption /\ In!InputAssumption

Init ==
    /\ pc = "recv"
    /\ joined \in BOOLEAN
    /\ queue = <<>>
    /\ source = "live"
    /\ lag = [p \in Port |-> 0]
    /\ steady = 0
    /\ Out!Init
    /\ In!Init
    /\ ready[Rx] => fds[Rx] = "open"

(***************************************************************************)
(* The socket.                                                             *)
(***************************************************************************)

\* Mutant of Enqueued: one datagram too many.
EnqueuedOverfull(pkt) == Append(queue, [pkt |-> pkt, age |-> 0])

\* A full queue drops what arrives.
Enqueued(pkt) ==
    IF Len(queue) < QueueCap THEN Append(queue, [pkt |-> pkt, age |-> 0])
                             ELSE queue

Arrive ==
    /\ source = "live"
    /\ \E pkt \in External : queue' = Enqueued(pkt)
    /\ UNCHANGED <<outVars, inVars, now, pc, joined, source, hist>>

SourceLost ==
    /\ source = "live"
    /\ source' = "silent"
    /\ UNCHANGED <<outVars, inVars, now, pc, joined, queue, hist>>

\* Do the node's own packets come back to it?  A failed join is logged and
\* leaves the socket to the packets that are sent to the node alone.
LoopsBack ==
    joined /\ g_config.universe[Rx] = g_config.universe[JoinPort]

\* Nothing but the node's own packets of a look that stays on its input line.
Undisturbed ==
    /\ source = "silent"
    /\ LoopsBack
    /\ ready[Rx] /\ link[Rx]
    /\ current[Rx] # In!NoFrame

\* The time in which such a look reaches the outputs: the backlog of the others
\* is taken over, its source times out, a keep-alive is due, and goes round.
SettleTime == (QueueCap + 2) * MaxDelay + SacnTimeout + KeepAlive

(***************************************************************************)
(* The loop.                                                               *)
(***************************************************************************)

\* Mutant of Due: the loop does not receive after it has sent.
DueUnlessSent == queue # <<>> /\ quiet[Rx] # 0

\* Mutant of Due: the loop waits for a full batch.
DueWhenFull == Len(queue) = QueueCap

\* Does recv() find a datagram?
Due == queue # <<>>

ReceivePacket ==
    /\ pc = "recv"
    /\ pc' = "sleep"
    /\ Due
    /\ Out!ReceiveSacn(Head(queue).pkt)
    /\ queue' = Tail(queue)
    /\ lag' = [p \in Port |-> IF heard'[p].quiet = 0 THEN Head(queue).age
                                                     ELSE lag[p]]
    /\ UNCHANGED <<inVars, joined, source, steady>>

ReceiveNothing ==
    /\ pc = "recv"
    /\ pc' = "sleep"
    /\ ~Due
    /\ Out!ReceiveNothing
    /\ UNCHANGED <<inVars, joined, queue, source, hist>>

Sleep ==
    /\ pc = "sleep"
    /\ pc' = "output"
    /\ now < Horizon
    /\ Out!Sleep
    /\ In!Sleep
    /\ queue' = [i \in 1 .. Len(queue) |->
                   [queue[i] EXCEPT !.age = @ + Elapsed(now', now)]]
    /\ steady' = IF Undisturbed
                 THEN Smaller(steady + Elapsed(now', now), SettleTime)
                 ELSE 0
    /\ UNCHANGED <<joined, source, lag>>

\* Mutant of OutputCycle: the loop skips it when there is nothing fresh.
OutputCycleWhenFresh ==
    /\ pc = "output"
    /\ pc' = "input"
    /\ \/ (\E p \in Port : Out!Fresh(p)) /\ Out!OutputCycle
       \/ (\A p \in Port : ~Out!Fresh(p)) /\ UNCHANGED outVars
    /\ UNCHANGED <<inVars, now, joined, queue, source, hist>>

OutputCycle ==
    /\ pc = "output"
    /\ pc' = "input"
    /\ Out!OutputCycle
    /\ UNCHANGED <<inVars, joined, queue, source, hist>>

\* Mutant of InputCycle: the loop skips it while datagrams are waiting.
InputCycleWhenIdle ==
    /\ pc = "input"
    /\ pc' = "recv"
    /\ \/ queue = <<>> /\ In!dmx_input_cycle
       \/ queue # <<>> /\ UNCHANGED inVars
    /\ UNCHANGED <<outVars, now, joined, queue, source, hist>>

\* Did the cycle send?
Sent == quiet'[Rx] = 0

InputCycle ==
    /\ pc = "input"
    /\ pc' = "recv"
    /\ In!dmx_input_cycle
    /\ queue' = IF Sent /\ LoopsBack
                THEN Enqueued(OwnPacket(g_config, net'[Rx].data))
                ELSE queue
    /\ UNCHANGED <<outVars, joined, source, lag>>
    /\ steady' = IF current' = current THEN steady ELSE 0

LinkChanges ==
    /\ UNCHANGED <<outVars, pc, joined, queue, source, lag>>
    /\ In!LinkChanges
    /\ steady' = 0

Loop ==
    \/ ReceivePacket \/ ReceiveNothing \/ Sleep \/ OutputCycle \/ InputCycle

Next == Loop \/ Arrive \/ SourceLost \/ LinkChanges

Spec == Init /\ [][Next]_vars

(***************************************************************************)
(* Properties.                                                             *)
(***************************************************************************)

Datagram == [pkt : SacnPacket, age : Nat]

\* The variables of the composition keep their types; the queue holds no more
\* than QueueCap packets.
TypeOK ==
    /\ pc \in {"recv", "sleep", "output", "input"}
    /\ joined \in BOOLEAN
    /\ queue \in Seq(Datagram)
    /\ Len(queue) <= QueueCap
    /\ source \in {"live", "silent"}
    /\ lag \in [Port -> Nat]
    /\ steady \in 0 .. SettleTime

\* The loop behaves as DmxOutput says, so that what is checked and proved there
\* holds of the daemon as a whole.
ImplementsOutput == Out!Spec

\* The loop behaves as DmxInput says, whatever the output half does.
ImplementsInput == In!Spec

\* One datagram per iteration is enough to bound what the queue adds: the place
\* a datagram has in the queue limits how long it has waited.
QueueMoves ==
    \A i \in 1 .. Len(queue) :
        queue[i].age <=
            (QueueCap - i + (IF pc = "sleep" THEN 0 ELSE 1)) * MaxDelay

\* Hold time on a whole, counted from when the datagram reached the node: a lit
\* line shows a packet that is no older than the hold time, the loop's own delay
\* and the time a full queue takes.
LookAgeBounded ==
    \A p \in Port :
        /\ Out!Active(p) /\ ~missed[p]
        /\ heard[p].stamp # 0
        /\ wire[p] # Out!Dark
        => heard[p].quiet + lag[p] <= Out!Deadline + QueueCap * MaxDelay

\* Pass-through: a look that stays on the input line is on the outputs of its
\* universe before long once the others are silent and sending works, even if
\* the queue or the network dropped the packet with the change in it.  Only
\* keep-alives feed such a look, so the hold time has to span the longest gap
\* between two of them: a shorter one lets the look blink (main.c:233).
PassesThrough ==
    /\ steady = SettleTime /\ ~wrapped /\ pc # "output"
    /\ g_config.hold >= KeepAlive + MaxDelay
    =>
        \A p \in Port :
            /\ Out!Active(p) /\ ~missed[p]
            /\ g_config.universe[p] = g_config.universe[Rx]
            => \A c \in 1 .. Len(current[Rx]) : wire[p][c] = current[Rx][c]
=============================================================================
