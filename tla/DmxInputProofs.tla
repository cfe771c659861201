--------------------------- MODULE DmxInputProofs ---------------------------
(***************************************************************************)
(* Proofs for DmxInput, for every number of ports, set of frames,          *)
(* keep-alive interval and clock width.                                    *)
(***************************************************************************)
EXTENDS DmxInput, TLAPS

(***************************************************************************)
(* Time stamps.                                                            *)
(***************************************************************************)

\* now_ms() stays a uint32_t reading.
LEMMA LaterInTime ==
    ASSUME NEW t \in Time, NEW d \in Nat, d < Wrap
    PROVE  Later(t, d) \in Time
BY WrapAssumption DEF Later, Time

\* The uint32_t difference of two readings is a natural number below Wrap.
LEMMA ElapsedType ==
    ASSUME NEW t \in Time, NEW s \in Time
    PROVE  Elapsed(t, s) \in Time
BY WrapAssumption DEF Elapsed, Time

\* Differences grow with the clock, also across the wrap, as long as they stay
\* below Wrap.
LEMMA ElapsedLater ==
    ASSUME NEW t \in Time, NEW s \in Time, NEW d \in Nat,
           Elapsed(t, s) + d < Wrap
    PROVE  Elapsed(Later(t, d), s) = Elapsed(t, s) + d
BY WrapAssumption DEF Elapsed, Later, Time

\* No time has passed since a packet that is stamped now.
LEMMA ElapsedZero ==
    ASSUME NEW t \in Time
    PROVE  Elapsed(t, t) = 0
BY DEF Elapsed, Time

\* The transmitter's next number follows the one last seen on the network.
SequenceInv == \A p \in Port : sequence[p] = NextSeq(net[p].sequence)

\* The stored frame is the one last read; the network has it unless a send has
\* failed; and a frame that is missing on the network is being retried or waits
\* for the end of the keep-alive interval.
ChangeInv ==
    \A p \in Port :
        /\ g_dmx_in[p] = current[p]
        /\ ~ready[p] => g_dmx_in[p] = NoFrame
        /\ ~failing[p] => net[p].data = g_dmx_in[p]
        /\ g_dmx_in[p] = NoFrame => net[p].data = NoFrame
        /\ phase = "sleep" /\ net[p].data # current[p] =>
              refused[p] \/ Elapsed(now, last_send[p]) <= KeepAlive

\* Without failures, last_send tells the true age of the last packet.
QuietInv ==
    \A p \in Port : g_dmx_in[p] # NoFrame /\ ~failing[p] =>
        /\ quiet[p] = Elapsed(now, last_send[p])
        /\ quiet[p] <= IF phase = "sleep" THEN KeepAlive
                                          ELSE KeepAlive + MaxDelay

(***************************************************************************)
(* Types.                                                                  *)
(***************************************************************************)

\* tx->sequence stays a byte.
LEMMA NextSeqType ==
    ASSUME NEW s \in SeqNo
    PROVE  NextSeq(s) \in SeqNo
BY InputAssumption DEF NextSeq, SeqNo

\* The zeroed state main() starts from is well-typed.
LEMMA InitType == Init => TypeOK
<1> SUFFICES ASSUME Init PROVE TypeOK
  OBVIOUS
<1>1. 0 \in Time /\ now \in Time /\ 0 \in SeqNo /\ SeqWrap - 1 \in SeqNo
      /\ QuietCap \in 0 .. QuietCap
  BY InputAssumption, WrapAssumption DEF Init, Time, SeqNo
<1> QED BY <1>1 DEF Init, TypeOK

\* The three things a cycle may do to a port whose read returned frame: send a
\* packet, try to and fail, or leave the transmitter alone.
PortSent(p, frame) ==
    /\ ready[p] /\ Sends(p, frame)
    /\ g_dmx_in'[p] = StoredAfter(p, frame)
    /\ net'[p].data = StoredAfter(p, frame)
    /\ net'[p].sequence = sequence[p]
    /\ sequence'[p] = NextSeq(sequence[p])
    /\ last_send'[p] = now
    /\ quiet'[p] = 0
    /\ ~refused'[p] /\ ~failing'[p]

PortRefused(p, frame) ==
    /\ ready[p] /\ Sends(p, frame)
    /\ g_dmx_in'[p] = StoredAfter(p, frame)
    /\ net'[p] = net[p] /\ sequence'[p] = sequence[p]
    /\ last_send'[p] = last_send[p] /\ quiet'[p] = quiet[p]
    /\ refused'[p] /\ failing'[p]

PortIdle(p, frame) ==
    /\ ~(ready[p] /\ Sends(p, frame))
    /\ g_dmx_in'[p] = g_dmx_in[p]
    /\ net'[p] = net[p] /\ sequence'[p] = sequence[p]
    /\ last_send'[p] = last_send[p] /\ quiet'[p] = quiet[p]
    /\ ~refused'[p] /\ (failing'[p] <=> failing[p])

\* What dmx_input_cycle does to one port: it sends, fails to send, or rests.
LEMMA CycleOnPort ==
    ASSUME TypeOK, dmx_input_cycle, NEW p \in Port
    PROVE  \E frame \in InFrame \cup {NoFrame} :
             /\ current'[p] = IF ready[p] /\ frame # NoFrame
                              THEN frame ELSE current[p]
             /\ \/ PortSent(p, frame)
                \/ PortRefused(p, frame)
                \/ PortIdle(p, frame)
<1>1. PICK read \in [Port -> InFrame \cup {NoFrame}] :
         LET sends == {q \in Port : ready[q] /\ Sends(q, read[q])}
             stored == [q \in Port |->
                          IF ready[q] THEN StoredAfter(q, read[q])
                                      ELSE g_dmx_in[q]]
         IN  /\ g_dmx_in' = stored
             /\ sacn_tx_send(sends, stored)
             /\ current' = [q \in Port |->
                              IF ready[q] /\ read[q] # NoFrame
                              THEN read[q] ELSE current[q]]
  BY DEF dmx_input_cycle
<1> DEFINE sends == {q \in Port : ready[q] /\ Sends(q, read[q])}
           sent == {q \in sends : link[q]}
           stored == [q \in Port |->
                        IF ready[q] THEN StoredAfter(q, read[q])
                                    ELSE g_dmx_in[q]]
<1>2. read[p] \in InFrame \cup {NoFrame}
  BY <1>1
<1>3. /\ g_dmx_in'[p] = stored[p]
      /\ net'[p] = IF p \in sent
                   THEN [data |-> stored[p], sequence |-> sequence[p]]
                   ELSE net[p]
      /\ sequence'[p] = IF p \in sent THEN NextSeq(sequence[p]) ELSE sequence[p]
      /\ last_send'[p] = IF p \in sent THEN now ELSE last_send[p]
      /\ quiet'[p] = IF p \in sent THEN 0 ELSE quiet[p]
      /\ refused'[p] <=> p \in sends \ sent
      /\ failing'[p] <=> p \notin sent /\ (failing[p] \/ p \in sends)
      /\ current'[p] = IF ready[p] /\ read[p] # NoFrame
                       THEN read[p] ELSE current[p]
  BY <1>1 DEF sacn_tx_send
<1>4. /\ p \in sends <=> ready[p] /\ Sends(p, read[p])
      /\ p \in sent <=> p \in sends /\ link[p]
      /\ stored[p] = IF ready[p] THEN StoredAfter(p, read[p]) ELSE g_dmx_in[p]
  OBVIOUS
<1>5. ~Sends(p, read[p]) => StoredAfter(p, read[p]) = g_dmx_in[p]
  BY DEF StoredAfter
<1> HIDE DEF sends, sent, stored
<1>6. CASE p \in sent
  <2>1. ready[p] /\ Sends(p, read[p]) /\ stored[p] = StoredAfter(p, read[p])
    BY <1>4, <1>6
  <2>2. PortSent(p, read[p])
    BY <1>3, <1>6, <2>1 DEF PortSent
  <2> QED BY <1>2, <1>3, <2>2
<1>7. CASE p \in sends /\ p \notin sent
  <2>1. ready[p] /\ Sends(p, read[p]) /\ stored[p] = StoredAfter(p, read[p])
    BY <1>4, <1>7
  <2>2. PortRefused(p, read[p])
    BY <1>3, <1>7, <2>1 DEF PortRefused
  <2> QED BY <1>2, <1>3, <2>2
<1>8. CASE p \notin sends
  <2>1. p \notin sent /\ stored[p] = g_dmx_in[p]
    BY <1>4, <1>5, <1>8
  <2>2. PortIdle(p, read[p])
    BY <1>3, <1>4, <1>8, <2>1 DEF PortIdle
  <2> QED BY <1>2, <1>3, <2>2
<1> QED BY <1>6, <1>7, <1>8

\* Every step keeps the types.
LEMMA NextType == TypeOK /\ [Next]_vars => TypeOK'
<1> SUFFICES ASSUME TypeOK, [Next]_vars PROVE TypeOK'
  OBVIOUS
<1>1. CASE Sleep
  <2>1. PICK d \in 1 .. MaxDelay :
           /\ now' = Later(now, d)
           /\ quiet' = [p \in Port |-> Smaller(quiet[p] + d, QuietCap)]
    BY <1>1 DEF Sleep
  <2>2. d \in Nat /\ d < Wrap
    BY InputAssumption, WrapAssumption
  <2>3. now' \in Time
    BY <2>1, <2>2, LaterInTime DEF TypeOK
  <2>4. \A p \in Port : Smaller(quiet[p] + d, QuietCap) \in 0 .. QuietCap
    BY <2>2, InputAssumption DEF Smaller, TypeOK
  <2> QED BY <1>1, <2>1, <2>3, <2>4 DEF Sleep, TypeOK, prog
<1>2. CASE dmx_input_cycle
  <2>1. PICK read \in [Port -> InFrame \cup {NoFrame}],
             sends \in SUBSET Port,
             stored \in [Port -> InFrame \cup {NoFrame}] :
             /\ g_dmx_in' = stored
             /\ sacn_tx_send(sends, stored)
             /\ current' = [q \in Port |->
                              IF ready[q] /\ read[q] # NoFrame
                              THEN read[q] ELSE current[q]]
    <3>1. PICK read \in [Port -> InFrame \cup {NoFrame}] :
             LET sends == {q \in Port : ready[q] /\ Sends(q, read[q])}
                 stored == [q \in Port |->
                              IF ready[q] THEN StoredAfter(q, read[q])
                                          ELSE g_dmx_in[q]]
             IN  /\ g_dmx_in' = stored
                 /\ sacn_tx_send(sends, stored)
                 /\ current' = [q \in Port |->
                                  IF ready[q] /\ read[q] # NoFrame
                                  THEN read[q] ELSE current[q]]
      BY <1>2 DEF dmx_input_cycle
    <3> DEFINE sends == {q \in Port : ready[q] /\ Sends(q, read[q])}
               stored == [q \in Port |->
                            IF ready[q] THEN StoredAfter(q, read[q])
                                        ELSE g_dmx_in[q]]
    <3>2. sends \in SUBSET Port
      OBVIOUS
    <3>3. stored \in [Port -> InFrame \cup {NoFrame}]
      BY DEF StoredAfter, TypeOK
    <3>4. /\ g_dmx_in' = stored
          /\ sacn_tx_send(sends, stored)
          /\ current' = [q \in Port |->
                           IF ready[q] /\ read[q] # NoFrame
                           THEN read[q] ELSE current[q]]
      BY <3>1
    <3> HIDE DEF sends, stored
    <3> QED BY <3>2, <3>3, <3>4
  <2>2. current' \in [Port -> InFrame \cup {NoFrame}]
    BY <2>1 DEF TypeOK
  <2>3. net' \in [Port -> [data : InFrame \cup {NoFrame}, sequence : SeqNo]]
    BY <2>1 DEF sacn_tx_send, TypeOK
  <2>4. sequence' \in [Port -> SeqNo]
    BY <2>1, NextSeqType DEF sacn_tx_send, TypeOK
  <2>5. last_send' \in [Port -> Time]
    BY <2>1 DEF sacn_tx_send, TypeOK
  <2>6. quiet' \in [Port -> 0 .. QuietCap]
    BY <2>1, InputAssumption DEF sacn_tx_send, TypeOK
  <2>7. refused' \in [Port -> BOOLEAN] /\ failing' \in [Port -> BOOLEAN]
    BY <2>1 DEF sacn_tx_send
  <2>8. UNCHANGED <<ready, now, link>> /\ phase' = "sleep"
    BY <1>2 DEF dmx_input_cycle
  <2> QED BY <2>1, <2>2, <2>3, <2>4, <2>5, <2>6, <2>7, <2>8 DEF TypeOK
<1>3. CASE LinkChanges
  BY <1>3 DEF LinkChanges, TypeOK, prog, hist
<1>4. CASE UNCHANGED vars
  BY <1>4 DEF vars, prog, hist, TypeOK
<1> QED BY <1>1, <1>2, <1>3, <1>4 DEF Next

\* The input side's state is well-typed in every reachable state.
THEOREM TypeCorrect == Spec => []TypeOK
<1> QED BY InitType, NextType, PTL DEF Spec

(***************************************************************************)
(* Sequence numbers.                                                       *)
(***************************************************************************)

\* The transmitter's counter is always one ahead of the last packet sent.
LEMMA SequenceInvariant == Spec => []SequenceInv
<1>1. Init => SequenceInv
  BY InputAssumption DEF Init, SequenceInv, NextSeq
<1>2. TypeOK /\ SequenceInv /\ [Next]_vars => SequenceInv'
  <2> SUFFICES ASSUME TypeOK, SequenceInv, [Next]_vars, NEW p \in Port
               PROVE  sequence'[p] = NextSeq(net'[p].sequence)
    BY DEF SequenceInv
  <2>1. CASE dmx_input_cycle
    <3>1. \/ net'[p] = net[p] /\ sequence'[p] = sequence[p]
          \/ /\ net'[p].sequence = sequence[p]
             /\ sequence'[p] = NextSeq(sequence[p])
      BY <2>1, CycleOnPort DEF PortSent, PortRefused, PortIdle
    <3> QED BY <3>1 DEF SequenceInv
  <2>2. CASE Sleep \/ LinkChanges \/ UNCHANGED vars
    BY <2>2 DEF Sleep, LinkChanges, vars, prog, SequenceInv
  <2> QED BY <2>1, <2>2 DEF Next
<1> QED BY <1>1, <1>2, TypeCorrect, PTL DEF Spec

\* Receivers see contiguous sequence numbers, modulo 256, whatever sends fail:
\* sacn_tx_send advances the counter only after a successful sendto().
THEOREM SequenceIsContiguous == Spec => SequenceContiguous
<1>1. TypeOK /\ SequenceInv /\ [Next]_vars =>
         [\A p \in Port : net'[p] # net[p] =>
             net'[p].sequence = NextSeq(net[p].sequence)]_vars
  <2> SUFFICES ASSUME TypeOK, SequenceInv, Next, NEW p \in Port,
                      net'[p] # net[p]
               PROVE  net'[p].sequence = NextSeq(net[p].sequence)
    OBVIOUS
  <2>1. dmx_input_cycle
    BY DEF Next, Sleep, LinkChanges
  <2>2. net'[p].sequence = sequence[p]
    BY <2>1, CycleOnPort DEF PortSent, PortRefused, PortIdle
  <2> QED BY <2>2 DEF SequenceInv
<1> QED BY <1>1, TypeCorrect, SequenceInvariant, PTL DEF Spec, SequenceContiguous

(***************************************************************************)
(* Changes and keep-alives.                                                *)
(***************************************************************************)

\* Stored frame, last frame read and last packet sent stay in step.
LEMMA ChangeInvariant == Spec => []ChangeInv
<1>1. Init => ChangeInv
  BY DEF Init, ChangeInv
<1>2. TypeOK /\ ChangeInv /\ [Next]_vars => ChangeInv'
  <2> SUFFICES ASSUME TypeOK, ChangeInv, [Next]_vars, NEW p \in Port
               PROVE  /\ g_dmx_in'[p] = current'[p]
                      /\ ~ready'[p] => g_dmx_in'[p] = NoFrame
                      /\ ~failing'[p] => net'[p].data = g_dmx_in'[p]
                      /\ g_dmx_in'[p] = NoFrame => net'[p].data = NoFrame
                      /\ phase' = "sleep" /\ net'[p].data # current'[p] =>
                            \/ refused'[p]
                            \/ Elapsed(now', last_send'[p]) <= KeepAlive
    BY DEF ChangeInv
  <2>1. CASE dmx_input_cycle
    <3>1. PICK frame \in InFrame \cup {NoFrame} :
             /\ current'[p] = IF ready[p] /\ frame # NoFrame
                              THEN frame ELSE current[p]
             /\ \/ PortSent(p, frame)
                \/ PortRefused(p, frame)
                \/ PortIdle(p, frame)
      BY <2>1, CycleOnPort
    <3>2. now' = now /\ ready' = ready
      BY <2>1 DEF dmx_input_cycle
    <3>3. Elapsed(now, last_send[p]) \in Nat /\ KeepAlive \in Nat
      BY ElapsedType, InputAssumption DEF TypeOK, Time
    <3>4. ASSUME ready[p], Sends(p, frame), g_dmx_in'[p] = StoredAfter(p, frame)
          PROVE  g_dmx_in'[p] = current'[p] /\ g_dmx_in'[p] # NoFrame
      <4>1. CASE frame = NoFrame
        BY <3>1, <3>4, <4>1 DEF ChangeInv, StoredAfter, Sends
      <4>2. CASE frame # NoFrame
        BY <3>1, <3>4, <4>2 DEF StoredAfter
      <4> QED BY <4>1, <4>2
    <3>5. CASE PortSent(p, frame)
      BY <3>2, <3>4, <3>5 DEF PortSent
    <3>6. CASE PortRefused(p, frame)
      BY <3>2, <3>4, <3>6 DEF PortRefused
    <3>7. CASE PortIdle(p, frame)
      <4>1. /\ g_dmx_in'[p] = g_dmx_in[p] /\ net'[p] = net[p]
            /\ last_send'[p] = last_send[p] /\ (failing'[p] <=> failing[p])
            /\ ~(ready[p] /\ Sends(p, frame))
        BY <3>7 DEF PortIdle
      <4>2. current'[p] = current[p]
        BY <3>1, <4>1 DEF Sends, ChangeInv
      <4>3. g_dmx_in[p] = NoFrame \/ Elapsed(now, last_send[p]) <= KeepAlive
        BY <3>3, <4>1 DEF Sends, KeepAliveOver, KeepAliveOpen, ChangeInv
      <4> QED BY <3>2, <4>1, <4>2, <4>3 DEF ChangeInv
    <3> QED BY <3>1, <3>5, <3>6, <3>7
  <2>2. CASE Sleep
    BY <2>2 DEF Sleep, prog, ChangeInv
  <2>3. CASE LinkChanges \/ UNCHANGED vars
    BY <2>3 DEF LinkChanges, vars, prog, hist, ChangeInv
  <2> QED BY <2>1, <2>2, <2>3 DEF Next
<1> QED BY <1>1, <1>2, TypeCorrect, PTL DEF Spec

\* A change of the incoming DMX data is never swallowed: it is on the network
\* after the cycle that read it, or the send failed and is retried at the latest
\* when the keep-alive interval ends.
THEOREM ChangesAreNotSwallowed == Spec => []ChangeNotSwallowed
<1>1. ChangeInv => ChangeNotSwallowed
  BY DEF ChangeInv, ChangeNotSwallowed
<1> QED BY <1>1, ChangeInvariant, PTL

\* last_send measures the true time since the last packet, across the wrap.
LEMMA QuietInvariant == Spec => []QuietInv
<1>1. Init => QuietInv
  BY DEF Init, QuietInv
<1>2. TypeOK /\ ChangeInv /\ QuietInv /\ [Next]_vars => QuietInv'
  <2> SUFFICES ASSUME TypeOK, ChangeInv, QuietInv, [Next]_vars, NEW p \in Port,
                      g_dmx_in'[p] # NoFrame, ~failing'[p]
               PROVE  /\ quiet'[p] = Elapsed(now', last_send'[p])
                      /\ quiet'[p] <= IF phase' = "sleep" THEN KeepAlive
                                      ELSE KeepAlive + MaxDelay
    BY DEF QuietInv
  <2>1. /\ KeepAlive \in Nat /\ MaxDelay \in Nat /\ QuietCap \in Nat
        /\ KeepAlive + MaxDelay < QuietCap /\ QuietCap < Wrap /\ Wrap \in Nat
        /\ now \in Time /\ last_send[p] \in Time /\ quiet[p] \in 0 .. QuietCap
    BY InputAssumption, WrapAssumption DEF TypeOK
  <2>2. CASE dmx_input_cycle
    <3>1. PICK frame \in InFrame \cup {NoFrame} :
             \/ PortSent(p, frame)
             \/ PortRefused(p, frame)
             \/ PortIdle(p, frame)
      BY <2>2, CycleOnPort
    <3>2. now' = now /\ phase' = "sleep" /\ phase = "input"
      BY <2>2 DEF dmx_input_cycle
    <3>3. CASE PortSent(p, frame)
      <4>1. quiet'[p] = 0 /\ last_send'[p] = now
        BY <3>3 DEF PortSent
      <4>2. Elapsed(now, now) = 0
        BY <2>1, ElapsedZero
      <4> QED BY <2>1, <3>2, <4>1, <4>2
    <3>4. CASE PortIdle(p, frame)
      <4>1. /\ g_dmx_in[p] # NoFrame /\ ~failing[p]
            /\ last_send'[p] = last_send[p] /\ quiet'[p] = quiet[p]
            /\ ~(ready[p] /\ Sends(p, frame))
        BY <3>4 DEF PortIdle
      <4>2. quiet[p] = Elapsed(now, last_send[p])
        BY <4>1 DEF QuietInv
      <4>3. ready[p]
        BY <4>1 DEF ChangeInv
      <4> QED BY <2>1, <3>2, <4>1, <4>2, <4>3
               DEF Sends, KeepAliveOver, KeepAliveOpen
    <3> QED BY <3>1, <3>3, <3>4 DEF PortRefused
  <2>3. CASE Sleep
    <3>1. PICK d \in 1 .. MaxDelay :
             /\ now' = Later(now, d)
             /\ quiet' = [q \in Port |-> Smaller(quiet[q] + d, QuietCap)]
      BY <2>3 DEF Sleep
    <3>2. /\ g_dmx_in' = g_dmx_in /\ last_send' = last_send /\ failing' = failing
          /\ phase = "sleep" /\ phase' = "input"
      BY <2>3 DEF Sleep, prog
    <3>3. quiet[p] = Elapsed(now, last_send[p]) /\ quiet[p] <= KeepAlive
      BY <3>2 DEF QuietInv
    <3>4. quiet[p] + d <= KeepAlive + MaxDelay /\ d \in Nat
      BY <2>1, <3>3
    <3>5. quiet'[p] = quiet[p] + d
      BY <2>1, <3>1, <3>4 DEF Smaller
    <3>6. Elapsed(now', last_send[p]) = quiet[p] + d
      BY <2>1, <3>1, <3>3, <3>4, ElapsedLater
    <3> QED BY <3>2, <3>4, <3>5, <3>6
  <2>4. CASE LinkChanges \/ UNCHANGED vars
    BY <2>4 DEF LinkChanges, vars, prog, hist, QuietInv
  <2> QED BY <2>2, <2>3, <2>4 DEF Next
<1> QED BY <1>1, <1>2, TypeCorrect, ChangeInvariant, PTL DEF Spec

\* While sends succeed, no two packets of a port are further apart than the
\* keep-alive interval plus one loop iteration, across the wrap of the clock.
THEOREM KeepAliveIsKept == Spec => []KeepAliveKept
<1>1. QuietInv => KeepAliveKept
  BY DEF QuietInv, KeepAliveKept
<1> QED BY <1>1, QuietInvariant, PTL
=============================================================================
