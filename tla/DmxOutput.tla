----------------------------- MODULE DmxOutput -----------------------------
(***************************************************************************)
(* The network-to-DMX half of the daemon (main.c): the event loop receives *)
(* at most one datagram, sleeps, and runs dmx_output_cycle over the ports. *)
(*                                                                         *)
(*   "recv"  --Receive...-->  "sleep"  --Sleep-->  "output"                *)
(*      ^                                             |                    *)
(*      +----------------- OutputCycle ---------------+                    *)
(*                                                                         *)
(* The daemon is single-threaded, so each call is one step.  Its partners  *)
(* are the network (which datagram arrives, and whether any arrives), the  *)
(* clock, and the kernel's DMX driver (whether open() succeeds).  Time     *)
(* passes in usleep() and in a blocking recvfrom(): a tick is one loop     *)
(* period, and what the calls themselves take is part of the sleep.        *)
(*                                                                         *)
(* The length, sequence and source_ip fields of dmx_frame_t are left out:  *)
(* the output path never reads them.                                       *)
(***************************************************************************)
EXTENDS Clock, Sequences

CONSTANTS
    Port,             \* the DMX ports (DMX_MAX_PORTS = 2 in the code)
    FrameSize,        \* DMX_UNIVERSE_SIZE (512)
    Level,            \* the channel values
    Config,           \* the configurations config_load may return
    SacnPacket,       \* the packets sacn_receive may return
    ArtnetPacket,     \* the packets artnet_receive may return
    ShownetPacket,    \* the packets shownet_receive may return
    SacnTimeout,      \* SACN_TIMEOUT_MS, in ticks
    MaxDelay,         \* the longest one loop iteration takes, in ticks
    QuietCap,         \* where the history variable "quiet" saturates
    StartTime,        \* the clock readings at which the daemon may start
    OpenMayFail       \* whether open() of a DMX device may fail

Channel == 1 .. FrameSize
Frame == [Channel -> Level]
Dark == [c \in Channel |-> 0]

Protocol == {"sacn", "artnet", "shownet", "none"}
Mode == {"OFF", "TX", "RX", "RAW"}
Priority == 0 .. 255

\* A parsed packet carries at most FrameSize channel values: every parser
\* clamps the length.
Payload == {d \in Seq(Level) : Len(d) <= FrameSize}

ASSUME OutputAssumption ==
    /\ FrameSize \in Nat
    /\ Level \subseteq Nat
    /\ 0 \in Level
    /\ SacnTimeout \in Nat
    /\ MaxDelay \in Nat \ {0}
    /\ StartTime \subseteq Time \ {0}
    /\ OpenMayFail \in BOOLEAN
    /\ \A g \in Config :
          /\ g.protocol \in Protocol
          /\ g.mode \in [Port -> Mode]
          /\ g.universe \in [Port -> Nat]
          /\ g.hold \in Nat
          /\ Larger(g.hold, MaxDelay) + MaxDelay < QuietCap
          /\ Larger(g.hold, SacnTimeout) < QuietCap
    /\ QuietCap \in Nat
    /\ QuietCap < Wrap
    /\ \A k \in SacnPacket :
          /\ k.start_code \in Nat
          /\ k.universe \in Nat
          /\ k.priority \in Priority
          /\ k.data \in Payload
    /\ \A k \in ArtnetPacket : k.universe \in Nat /\ k.data \in Payload
    /\ \A k \in ShownetPacket : k.net_slot \in Nat /\ k.data \in Payload

VARIABLES
    \* State of the program.
    g_config,     \* the configuration, read once at start
    g_dmx_out,    \* per port: the merged look, its priority and time stamp
    fds,          \* per port: descriptor in dmx_fds: "open", "none" (< 0),
                  \* or "closed" (a number >= 0 that is no longer open)
    last_write,   \* per port: dmx_last_write
    phase,        \* where the event loop stands
    \* State of the environment.
    now,          \* what now_ms() would return
    network,      \* "live", or "silent": no datagram arrives any more
    wire,         \* per port: the frame the DMX line carries
    \* History, read by the properties only.
    heard,        \* per port: the last packet taken over into g_dmx_out:
                  \* its priority, its time stamp, and its true age
    missed,       \* per port: the last dmx_tx_write could not open the device
    wrapped       \* whether the clock has wrapped since the daemon started

prog == <<g_config, g_dmx_out, fds, last_write>>
hist == <<heard, missed, wrapped>>
vars == <<prog, phase, now, network, wire, hist>>

OutFrame == [data : Frame, priority : Priority, last_update : Time]
Heard == [priority : Priority, stamp : Time, quiet : 0 .. QuietCap]

(***************************************************************************)
(* Program start: main() up to the event loop.                             *)
(***************************************************************************)

\* A port that is not OFF is opened; the daemon goes on when that fails.
OpenAtStart(g) ==
    {f \in [Port -> {"open", "none"}] :
        \A p \in Port : /\ g.mode[p] = "OFF" => f[p] = "none"
                        /\ f[p] = "none" => g.mode[p] = "OFF" \/ OpenMayFail}

Init ==
    /\ g_config \in Config
    /\ g_dmx_out = [p \in Port |->
                      [data |-> Dark, priority |-> 0, last_update |-> 0]]
    /\ fds \in OpenAtStart(g_config)
    /\ last_write = [p \in Port |-> 0]
    /\ phase = "recv"
    /\ now \in StartTime
    /\ network = "live"
    /\ wire = [p \in Port |-> Dark]
    /\ heard = [p \in Port |->
                  [priority |-> 0, stamp |-> now, quiet |-> QuietCap]]
    /\ missed = [p \in Port |-> FALSE]
    /\ wrapped = FALSE

(***************************************************************************)
(* Receiving: one datagram per loop iteration.                             *)
(***************************************************************************)

\* memcpy of the packet's channels: the channels beyond them keep their value.
Overlay(frame, data) ==
    [c \in Channel |-> IF c <= Len(data) THEN data[c] ELSE frame[c]]

\* The ports a packet for universe u concerns.
Addressed(u) ==
    {p \in Port : g_config.universe[p] = u /\ g_config.mode[p] = "TX"}

\* The ports of took get the packet's channels and the current time stamp.
Store(took, data, priority) ==
    /\ g_dmx_out' = [p \in Port |->
                       IF p \in took
                       THEN [data |-> Overlay(g_dmx_out[p].data, data),
                             priority |-> priority[p],
                             last_update |-> now]
                       ELSE g_dmx_out[p]]
    /\ heard' = [p \in Port |->
                   IF p \in took
                   THEN [priority |-> priority[p], stamp |-> now, quiet |-> 0]
                   ELSE heard[p]]

\* Mutant of Outranks: >= instead of > in the timeout test.
OutranksAtTimeout(p, pkt) ==
    \/ pkt.priority >= g_dmx_out[p].priority
    \/ Elapsed(now, g_dmx_out[p].last_update) >= SacnTimeout

\* Priority-based merging: a lower priority gets in only after a silence.
Outranks(p, pkt) ==
    \/ pkt.priority >= g_dmx_out[p].priority
    \/ Elapsed(now, g_dmx_out[p].last_update) > SacnTimeout

handle_sacn_packet(pkt) ==
    Store(IF pkt.start_code = 0
          THEN {p \in Addressed(pkt.universe) : Outranks(p, pkt)}
          ELSE {},
          pkt.data,
          [p \in Port |-> pkt.priority])

\* Art-Net and ShowNet have no priority: the field is left alone.
StoredPriority == [p \in Port |-> g_dmx_out[p].priority]

handle_artnet_packet(pkt) ==
    Store(Addressed(pkt.universe), pkt.data, StoredPriority)

\* (net_slot - 1) / 512 in C, where -1 / 512 is 0.
SlotUniverse(net_slot) ==
    IF net_slot = 0 THEN 0 ELSE (net_slot - 1) \div FrameSize

handle_shownet_packet(pkt) ==
    Store(Addressed(SlotUniverse(pkt.net_slot)), pkt.data, StoredPriority)

Received ==
    /\ phase = "recv"
    /\ phase' = "sleep"
    /\ UNCHANGED <<g_config, fds, last_write, now, network, wire, missed,
                   wrapped>>

ReceiveSacn(pkt) ==
    /\ g_config.protocol = "sacn"
    /\ network = "live"
    /\ Received
    /\ handle_sacn_packet(pkt)

ReceiveArtnet(pkt) ==
    /\ g_config.protocol = "artnet"
    /\ network = "live"
    /\ Received
    /\ handle_artnet_packet(pkt)

ReceiveShownet(pkt) ==
    /\ g_config.protocol = "shownet"
    /\ network = "live"
    /\ Received
    /\ handle_shownet_packet(pkt)

\* A datagram that is no DMX data (ArtPoll, a malformed packet): the receive
\* function returns -1.
ReceiveOther ==
    /\ network = "live"
    /\ g_config.protocol # "none"
    /\ Received
    /\ UNCHANGED <<g_dmx_out, heard>>

\* Mutant of ReceiveNothing: the sACN socket is left blocking.
ReceiveNothingBlocking ==
    /\ g_config.protocol = "none"
    /\ Received
    /\ UNCHANGED <<g_dmx_out, heard>>

\* Nothing to read.  Only the sACN socket is non-blocking.  With protocol "none"
\* there is no socket to read, which is also what a failed sacn_init,
\* artnet_init or shownet_init comes to.
ReceiveNothing ==
    /\ g_config.protocol \in {"sacn", "none"}
    /\ Received
    /\ UNCHANGED <<g_dmx_out, heard>>

(***************************************************************************)
(* Time.                                                                   *)
(***************************************************************************)

Elapse(d) ==
    /\ now' = Later(now, d)
    /\ wrapped' = (wrapped \/ Wraps(now, d))
    /\ heard' = [p \in Port |->
                   [heard[p] EXCEPT !.quiet = Smaller(@ + d, QuietCap)]]

\* usleep(23000), with whatever the scheduler adds.
Sleep ==
    /\ phase = "sleep"
    /\ phase' = "output"
    /\ \E d \in 1 .. MaxDelay : Elapse(d)
    /\ UNCHANGED <<prog, network, wire, missed>>

\* artnet_init and shownet_init leave their sockets blocking: recvfrom()
\* waits for a datagram, as long as it takes.
BlockedInRecv ==
    /\ phase = "recv"
    /\ g_config.protocol \in {"artnet", "shownet"}
    /\ Elapse(1)
    /\ UNCHANGED <<prog, phase, network, wire, missed>>

\* The network's last datagram has arrived.
NetworkLost ==
    /\ network = "live"
    /\ network' = "silent"
    /\ UNCHANGED <<prog, phase, now, wire, hist>>

(***************************************************************************)
(* dmx_output_cycle.                                                       *)
(***************************************************************************)

\* Ports the cycle does not skip.
Active(p) == fds[p] # "none" /\ g_config.mode[p] = "TX"

\* Mutant of Fresh: an off-by-one in the time stamp comparison.
FreshOneTickLate(p) == g_dmx_out[p].last_update > last_write[p] + 1

\* New data since the last write?
Fresh(p) == g_dmx_out[p].last_update > last_write[p]

\* Mutant of TimedOut: >= instead of > in the hold test.
TimedOutAtHold(p) ==
    /\ g_dmx_out[p].last_update > 0
    /\ Elapsed(now, g_dmx_out[p].last_update) >= g_config.hold

\* The source has been silent for longer than the hold time.
TimedOut(p) ==
    /\ g_dmx_out[p].last_update > 0
    /\ Elapsed(now, g_dmx_out[p].last_update) > g_config.hold

Blackout(p) == Active(p) /\ ~Fresh(p) /\ TimedOut(p)

\* Mutant of Written: the blackout clears the buffer but writes no frame.
WrittenIfFresh(p) == Active(p) /\ Fresh(p)

Written(p) == Active(p) /\ (Fresh(p) \/ TimedOut(p))

\* What becomes of the look of a port: zeroed when its source timed out.
Held(p) ==
    IF Blackout(p)
    THEN [data |-> Dark, priority |-> 0, last_update |-> 0]
    ELSE g_dmx_out[p]

\* dmx_tx_write closes the descriptor, opens the device, writes and closes it
\* (which transmits the frame), and opens it again.  A failure of the first
\* open leaves the closed number in fds; a failure of the second leaves -errno.
Outcome == IF OpenMayFail THEN {"done", "no_open", "no_reopen"} ELSE {"done"}

FdAfter(outcome) ==
    CASE outcome = "done" -> "open"
      [] outcome = "no_open" -> "closed"
      [] outcome = "no_reopen" -> "none"

dmx_tx_write(written, frame, outcome) ==
    /\ wire' = [p \in Port |->
                  IF p \in written /\ outcome[p] # "no_open"
                  THEN frame[p]
                  ELSE wire[p]]
    /\ fds' = [p \in Port |->
                 IF p \in written THEN FdAfter(outcome[p]) ELSE fds[p]]
    /\ missed' = [p \in Port |->
                    IF p \in written THEN outcome[p] = "no_open"
                                     ELSE missed[p]]

OutputCycle ==
    /\ phase = "output"
    /\ phase' = "recv"
    /\ g_dmx_out' = [p \in Port |-> Held(p)]
    /\ last_write' = [p \in Port |->
                        IF Active(p) /\ Fresh(p)
                        THEN g_dmx_out[p].last_update
                        ELSE last_write[p]]
    /\ \E outcome \in [Port -> Outcome] :
          dmx_tx_write({p \in Port : Written(p)},
                       [p \in Port |-> Held(p).data],
                       outcome)
    /\ UNCHANGED <<g_config, now, network, heard, wrapped>>

(***************************************************************************)
(* The specification.                                                      *)
(***************************************************************************)

Receive ==
    \/ \E pkt \in SacnPacket : ReceiveSacn(pkt)
    \/ \E pkt \in ArtnetPacket : ReceiveArtnet(pkt)
    \/ \E pkt \in ShownetPacket : ReceiveShownet(pkt)
    \/ ReceiveOther
    \/ ReceiveNothing

Loop == Receive \/ Sleep \/ OutputCycle

Next == Loop \/ BlockedInRecv \/ NetworkLost

Spec == Init /\ [][Next]_vars

\* The loop goes on whenever it is not waiting in a blocking recvfrom().
FairSpec == Spec /\ WF_vars(Loop)

(***************************************************************************)
(* Properties.                                                             *)
(***************************************************************************)

\* Every variable keeps its type: time stamps are uint32_t readings, looks are
\* full frames, priorities are bytes.
TypeOK ==
    /\ g_config \in Config
    /\ g_dmx_out \in [Port -> OutFrame]
    /\ fds \in [Port -> {"open", "closed", "none"}]
    /\ last_write \in [Port -> Time]
    /\ phase \in {"recv", "sleep", "output"}
    /\ now \in Time
    /\ network \in {"live", "silent"}
    /\ wire \in [Port -> Frame]
    /\ heard \in [Port -> Heard]
    /\ missed \in [Port -> BOOLEAN]
    /\ wrapped \in BOOLEAN

\* Until the clock wraps, no accepted packet is missed: when a cycle is over,
\* the line of every port whose device could be opened carries exactly the
\* merged look, although dmx_output_cycle decides by comparing millisecond
\* time stamps whether there is anything new (main.c:224).
FrameShown ==
    phase = "recv" /\ ~wrapped =>
        \A p \in Port : Active(p) /\ ~missed[p] => wire[p] = g_dmx_out[p].data

\* The longest a look may outlive the packet it came from.
Deadline == Larger(g_config.hold, MaxDelay) + MaxDelay

\* Hold time: with a receive call that does not block, a line that still carries
\* light was fed by a packet no older than the hold time plus the loop's own
\* delay, also when the clock wraps in between.  Left out are ports whose
\* device did not open, and a packet that arrived when now_ms() was 0, which
\* the code takes for "never" (main.c:233).
BlackoutDeadline ==
    g_config.protocol \in {"sacn", "none"} =>
        \A p \in Port :
            Active(p) /\ ~missed[p] /\ heard[p].stamp # 0 /\ wire[p] # Dark
                => heard[p].quiet <= Deadline

\* No premature blackout: a lit line goes dark only because a source sent
\* all-zero data, or because no packet was taken over for longer than the hold
\* time, however timeouts, priorities and failed writes interleave.
BlackoutJustified ==
    [][\A p \in Port :
          wire[p] # Dark /\ wire'[p] = Dark =>
              \/ g_dmx_out[p].data = Dark
              \/ heard[p].quiet > g_config.hold]_vars

\* Priority merge: a packet displaces one of a higher priority only after that
\* source has been silent for longer than SACN_TIMEOUT_MS, or for longer than
\* the hold time (the blackout resets the priority, main.c:239).
PriorityRespected ==
    [][\A p \in Port :
          heard'[p].priority < heard[p].priority =>
              \/ heard[p].quiet > SacnTimeout
              \/ heard[p].quiet > g_config.hold]_vars

\* Source loss: when no datagram arrives any more and the receive call does not
\* block, every usable TX port ends up dark (the loop's "zero DMX on timeout"),
\* also when its device fails to open now and then.
SourceLossGoesDark ==
    network = "silent" /\ g_config.protocol \in {"sacn", "none"} ~>
        \A p \in Port :
            Active(p) /\ ~missed[p] /\ heard[p].stamp # 0 => wire[p] = Dark

(***************************************************************************)
(* What the comments say, without the provisos above; the code departs     *)
(* from each of them.                                                      *)
(***************************************************************************)

\* "Write fresh DMX data to /dev/dmxN hardware" (main.c:12): FrameShown without
\* the proviso that the clock has not wrapped.
FreshDataWritten ==
    phase = "recv" =>
        \A p \in Port : Active(p) /\ ~missed[p] => wire[p] = g_dmx_out[p].data

\* "Check for source timeouts -> zero DMX on timeout" (main.c:13), for every
\* protocol and also for a port whose device once failed to open in
\* dmx_tx_write.
DarkOnTimeout ==
    \A p \in Port :
        g_config.mode[p] = "TX" /\ heard[p].stamp # 0 /\ wire[p] # Dark
            => heard[p].quiet <= Deadline

=============================================================================
