----------------------------- MODULE DmxInput ------------------------------
(***************************************************************************)
(* The DMX-to-network half of the daemon: dmx_input_cycle (main.c) reads   *)
(* every RX port once per loop iteration and sends sACN packets through    *)
(* sacn_tx_send (sacn_tx.c): at once when the frame has changed, and       *)
(* otherwise when the keep-alive interval is over.  The loop alternates    *)
(* between sleeping (where time passes) and the cycle.                     *)
(*                                                                         *)
(* The environment decides what a read returns and whether sendto()        *)
(* succeeds.  A frame is the sequence of the channel values read; the      *)
(* empty one stands for a read that returns 0 or fails.                    *)
(***************************************************************************)
EXTENDS Clock, Sequences

CONSTANTS
    Port,         \* the ports configured as DMX_MODE_RX
    InFrame,      \* the frames read_frame may return
    KeepAlive,    \* SACN_KEEPALIVE_MS, in ticks
    MaxDelay,     \* the longest one loop iteration takes, in ticks
    QuietCap,     \* where the history variable "quiet" saturates
    SeqWrap,      \* 2^8: tx->sequence is a uint8_t
    StartTime     \* the clock readings at which the daemon may start

NoFrame == <<>>

ASSUME InputAssumption ==
    /\ NoFrame \notin InFrame
    /\ KeepAlive \in Nat
    /\ MaxDelay \in Nat \ {0}
    /\ QuietCap \in Nat
    /\ KeepAlive + MaxDelay < QuietCap
    /\ QuietCap < Wrap
    /\ SeqWrap \in Nat \ {0}
    /\ StartTime \subseteq Time

VARIABLES
    \* State of the program.
    ready,        \* per port: the device was opened and sacn_tx_init succeeded
    g_dmx_in,     \* per port: the stored frame
    last_send,    \* per port: g_dmx_in_last_send
    sequence,     \* per port: the transmitter's next sequence number
    phase,        \* "sleep" or "input"
    \* State of the environment.
    now,          \* what now_ms() would return
    link,         \* per port: whether sendto() on its socket succeeds
    net,          \* per port: the last packet on the network
    \* History, read by the properties only.
    current,      \* per port: the last frame read from the line
    failing,      \* per port: a send failed since the last success
    refused,      \* per port: the send of the latest cycle failed
    quiet         \* per port: true time since the last packet was sent

prog == <<ready, g_dmx_in, last_send, sequence>>
hist == <<current, failing, refused, quiet>>
vars == <<prog, phase, now, link, net, hist>>

SeqNo == 0 .. (SeqWrap - 1)

\* Mutant of NextSeq: the counter is not truncated to a byte.
NextSeqUntruncated(s) == s + 1

NextSeq(s) == IF s + 1 = SeqWrap THEN 0 ELSE s + 1

Init ==
    /\ ready \in [Port -> BOOLEAN]
    /\ g_dmx_in = [p \in Port |-> NoFrame]
    /\ last_send = [p \in Port |-> 0]
    /\ sequence = [p \in Port |-> 0]
    /\ phase = "sleep"
    /\ now \in StartTime
    /\ link \in [Port -> BOOLEAN]
    /\ net = [p \in Port |-> [data |-> NoFrame, sequence |-> SeqWrap - 1]]
    /\ current = [p \in Port |-> NoFrame]
    /\ failing = [p \in Port |-> FALSE]
    /\ refused = [p \in Port |-> FALSE]
    /\ quiet = [p \in Port |-> QuietCap]

\* usleep(23000), the receive calls and the output cycle.
Sleep ==
    /\ phase = "sleep"
    /\ phase' = "input"
    /\ \E d \in 1 .. MaxDelay :
          /\ now' = Later(now, d)
          /\ quiet' = [p \in Port |-> Smaller(quiet[p] + d, QuietCap)]
    /\ UNCHANGED <<prog, link, net, current, failing, refused>>

\* The network becomes usable or unusable for sendto().
LinkChanges ==
    /\ \E p \in Port : link' = [link EXCEPT ![p] = ~@]
    /\ UNCHANGED <<prog, phase, now, net, hist>>

\* The keep-alive test of a read that returned nothing, and the one of a read
\* that returned the stored frame again: they differ when exactly KeepAlive
\* ticks have passed.
KeepAliveOpen(p) == Elapsed(now, last_send[p]) < KeepAlive

\* Mutant of KeepAliveOver: an off-by-one.
KeepAliveOverLate(p) == Elapsed(now, last_send[p]) > KeepAlive + 1

KeepAliveOver(p) == Elapsed(now, last_send[p]) > KeepAlive

\* Mutant of Sends: only changes are sent.
SendsChangesOnly(p, frame) == frame # NoFrame /\ frame # g_dmx_in[p]

\* Does the cycle call sacn_tx_send when the read of port p returned frame?
Sends(p, frame) ==
    IF frame = NoFrame
    THEN g_dmx_in[p] # NoFrame /\ KeepAliveOver(p)
    ELSE frame # g_dmx_in[p] \/ ~KeepAliveOpen(p)

\* The stored frame afterwards; it is updated before the send is tried.
StoredAfter(p, frame) ==
    IF frame # NoFrame /\ Sends(p, frame) THEN frame ELSE g_dmx_in[p]

\* Mutant of sacn_tx_send: the sequence number also advances when sendto()
\* fails.
sacn_tx_send_counts_failures(sends, frame) ==
    LET sent == {p \in sends : link[p]}
    IN  /\ net' = [p \in Port |->
                     IF p \in sent
                     THEN [data |-> frame[p], sequence |-> sequence[p]]
                     ELSE net[p]]
        /\ sequence' = [p \in Port |->
                          IF p \in sends THEN NextSeq(sequence[p])
                                         ELSE sequence[p]]
        /\ last_send' = [p \in Port |->
                           IF p \in sent THEN now ELSE last_send[p]]
        /\ quiet' = [p \in Port |-> IF p \in sent THEN 0 ELSE quiet[p]]
        /\ refused' = [p \in Port |-> p \in sends \ sent]
        /\ failing' = [p \in Port |->
                         p \notin sent /\ (failing[p] \/ p \in sends)]

\* sacn_tx_send for the ports of sends: a failed sendto() returns before the
\* sequence number is advanced, and the caller leaves last_send alone.
sacn_tx_send(sends, frame) ==
    LET sent == {p \in sends : link[p]}
    IN  /\ net' = [p \in Port |->
                     IF p \in sent
                     THEN [data |-> frame[p], sequence |-> sequence[p]]
                     ELSE net[p]]
        /\ sequence' = [p \in Port |->
                          IF p \in sent THEN NextSeq(sequence[p])
                                        ELSE sequence[p]]
        /\ last_send' = [p \in Port |->
                           IF p \in sent THEN now ELSE last_send[p]]
        /\ quiet' = [p \in Port |-> IF p \in sent THEN 0 ELSE quiet[p]]
        /\ refused' = [p \in Port |-> p \in sends \ sent]
        /\ failing' = [p \in Port |->
                         p \notin sent /\ (failing[p] \/ p \in sends)]

dmx_input_cycle ==
    /\ phase = "input"
    /\ phase' = "sleep"
    /\ \E read \in [Port -> InFrame \cup {NoFrame}] :
          LET sends == {p \in Port : ready[p] /\ Sends(p, read[p])}
              stored == [p \in Port |->
                           IF ready[p] THEN StoredAfter(p, read[p])
                                       ELSE g_dmx_in[p]]
          IN  /\ g_dmx_in' = stored
              /\ sacn_tx_send(sends, stored)
              /\ current' = [p \in Port |->
                               IF ready[p] /\ read[p] # NoFrame
                               THEN read[p] ELSE current[p]]
    /\ UNCHANGED <<ready, now, link>>

Next == Sleep \/ dmx_input_cycle \/ LinkChanges

Spec == Init /\ [][Next]_vars

\* The loop never blocks in this half of the daemon.
FairSpec == Spec /\ WF_vars(Sleep) /\ WF_vars(dmx_input_cycle)

(***************************************************************************)
(* Properties.                                                             *)
(***************************************************************************)

\* Every variable keeps its type: sequence numbers are bytes, stored frames
\* were read from the line.
TypeOK ==
    /\ ready \in [Port -> BOOLEAN]
    /\ g_dmx_in \in [Port -> InFrame \cup {NoFrame}]
    /\ last_send \in [Port -> Time]
    /\ sequence \in [Port -> SeqNo]
    /\ phase \in {"sleep", "input"}
    /\ now \in Time
    /\ link \in [Port -> BOOLEAN]
    /\ net \in [Port -> [data : InFrame \cup {NoFrame}, sequence : SeqNo]]
    /\ current \in [Port -> InFrame \cup {NoFrame}]
    /\ failing \in [Port -> BOOLEAN]
    /\ refused \in [Port -> BOOLEAN]
    /\ quiet \in [Port -> 0 .. QuietCap]

\* A change is never swallowed: after a cycle the network has the frame last
\* read from the line, unless a send has failed since; and then the loop is
\* either still being refused, or the suppression of "unchanged" frames
\* (main.c:286-289 compares with the frame stored before the failed send)
\* ends with the current keep-alive interval.
ChangeNotSwallowed ==
    phase = "sleep" =>
        \A p \in Port : net[p].data # current[p] =>
            /\ failing[p]
            /\ refused[p] \/ Elapsed(now, last_send[p]) <= KeepAlive

\* Keep-alive: as long as no send fails, a port that has ever received a frame
\* leaves no gap longer than the keep-alive interval between its packets, up
\* to the loop's own delay, whether the line is read or falls silent.
KeepAliveKept ==
    \A p \in Port : g_dmx_in[p] # NoFrame /\ ~failing[p] =>
        quiet[p] <= IF phase = "sleep" THEN KeepAlive ELSE KeepAlive + MaxDelay

\* Receivers see every sequence number once and in order, however many sends
\* fail in between.
SequenceContiguous ==
    [][\A p \in Port : net'[p] # net[p] =>
          net'[p].sequence = NextSeq(net[p].sequence)]_vars

\* Recovery: once sendto() works for good, the network ends up with the frame
\* last read, also when the line does not change any more.
NetworkCatchesUp ==
    \A p \in Port :
        <>[]link[p] => <>[](phase = "sleep" => net[p].data = current[p])
=============================================================================
