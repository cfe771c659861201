---------------------------- MODULE PacketsProofs ---------------------------
(***************************************************************************)
(* Proofs about Packets, for every frame, universe size and length field.  *)
(*                                                                         *)
(* A sender that follows its protocol is understood: what it hands to the  *)
(* network is parsed to what it means (Understood), whichever of the       *)
(* clamps of the receive functions apply to it.  Whatever else arrives,    *)
(* the clamps keep the copy inside what was received (Received).           *)
(*                                                                         *)
(* The run-length decoder is a recursion over its input.  Its rows are     *)
(* shown to satisfy the recursion, by induction over sets of numbers; then *)
(* that it returns only levels it was given, and that the tokens of an     *)
(* encoding that arrived whole are decoded to what they mean, token by     *)
(* token (Decoded).  The rest is bookkeeping, as a datagram and the packet *)
(* made of it are never there at the same time.                            *)
(***************************************************************************)
EXTENDS Packets, SequenceTheorems, WellFoundedInduction, TLAPS

(***************************************************************************)
(* Sequences.                                                              *)
(***************************************************************************)

LEMMA FrameType ==
    ASSUME NEW frame \in Frame
    PROVE  /\ frame \in Seq(Byte)
           /\ Len(frame) \in Nat
           /\ Len(frame) <= FrameSize
           /\ FrameSize \in Nat
           /\ ShownetRoom \in Nat
           /\ FrameSize <= ShownetRoom
<1>1. frame \in Seq(Byte) /\ Len(frame) <= FrameSize
  BY PacketsAssumption
<1> QED BY <1>1, LenProperties, PacketsAssumption

\* A text that fits the receive buffer arrives whole.
LEMMA FirstOfShort ==
    ASSUME NEW S, NEW text \in Seq(S), NEW n \in Nat, Len(text) <= n
    PROVE  First(n, text) = text
<1>1. Len(text) \in Nat
  BY LenProperties
<1>2. Smaller(n, Len(text)) = Len(text)
  BY <1>1 DEF Smaller
<1> QED BY <1>2, SubSeqFull DEF First

\* What of a longer one arrives is its beginning.
LEMMA FirstProperties ==
    ASSUME NEW S, NEW text \in Seq(S), NEW n \in Nat
    PROVE  /\ First(n, text) \in Seq(S)
           /\ Len(First(n, text)) = Smaller(n, Len(text))
           /\ \A i \in 1 .. Len(First(n, text)) : First(n, text)[i] = text[i]
<1> DEFINE k == Smaller(n, Len(text))
<1>1. Len(text) \in Nat /\ k \in Nat /\ k <= Len(text)
  BY LenProperties DEF Smaller
<1>2. \A i \in 1 .. k : text[i] \in S
  BY <1>1, ElementOfSeq
<1>3. /\ SubSeq(text, 1, k) \in Seq(S)
      /\ Len(SubSeq(text, 1, k)) = k
      /\ \A i \in 1 .. k : SubSeq(text, 1, k)[i] = text[i]
  <2>1. /\ SubSeq(text, 1, k) \in Seq(S)
        /\ Len(SubSeq(text, 1, k)) = IF 1 <= k THEN k - 1 + 1 ELSE 0
        /\ \A i \in 1 .. k - 1 + 1 : SubSeq(text, 1, k)[i] = text[1 + i - 1]
    BY <1>1, <1>2, SubSeqProperties
  <2> QED BY <1>1, <2>1
<1> QED BY <1>3 DEF First

\* memcpy of a text of which at least so many bytes have been received.
LEMMA Copied ==
    ASSUME NEW S, NEW text \in Seq(S), NEW bytes \in Seq(S),
           Len(text) <= Len(bytes),
           \A i \in 1 .. Len(text) : bytes[i] = text[i]
    PROVE  memcpy(bytes, Len(text)) = text
<1>1. Len(text) \in Nat /\ Len(bytes) \in Nat
  BY LenProperties
<1>2. text = [i \in 1 .. Len(text) |-> text[i]]
  BY LenProperties
<1>3. \A i \in 1 .. Len(text) : ByteAt(bytes, i) = text[i]
  BY <1>1 DEF ByteAt
<1> QED BY <1>2, <1>3 DEF memcpy

(***************************************************************************)
(* One datagram.                                                           *)
(***************************************************************************)

\* Another node's packet.
LEMMA SacnUnderstood ==
    ASSUME NEW tx \in sacn_tx_t, NEW frame \in Frame
    PROVE  Parsed(sacn_tx_build_packet(tx, frame)) =
             [protocol |-> "sacn", universe |-> tx.universe,
              priority |-> tx.priority, sequence |-> tx.sequence,
              start_code |-> 0, data |-> frame]
<1> DEFINE d == [protocol |-> "sacn", whole |-> TRUE, root_ok |-> TRUE,
                 dmp_ok |-> TRUE, universe |-> tx.universe,
                 priority |-> tx.priority, sequence |-> tx.sequence,
                 prop_count |-> 1 + Len(frame), start_code |-> 0,
                 data |-> frame]
<1>1. First(FrameSize, frame) = frame
  BY FrameType, FirstOfShort
<1>2. sacn_tx_build_packet(tx, frame) = d
  BY <1>1 DEF sacn_tx_build_packet
<1>3. [d EXCEPT !.data = First(FrameSize, @)] = d
  <2>1. /\ d \in [protocol : {"sacn"}, whole : BOOLEAN, root_ok : BOOLEAN,
                  dmp_ok : BOOLEAN, universe : Number,
                  priority : Priority, sequence : Sequence,
                  prop_count : Nat, start_code : {0}, data : Frame]
        /\ d.data = frame
    BY FrameType DEF sacn_tx_t
  <2> HIDE DEF d
  <2>2. [d EXCEPT !.data = frame] = d
    BY <2>1
  <2> QED BY <1>1, <2>1, <2>2, Zenon
<1>4. sacn_dmx_len(d) = Len(frame)
  BY FrameType DEF sacn_dmx_len, Smaller
<1>5. memcpy(frame, Len(frame)) = frame
  BY FrameType, Copied
<1>6. d.prop_count >= 1
  BY FrameType
<1>7. sacn_receive(d) = [protocol |-> "sacn", universe |-> tx.universe,
                         priority |-> tx.priority, sequence |-> tx.sequence,
                         start_code |-> 0, data |-> frame]
  BY <1>3, <1>4, <1>5, <1>6 DEF sacn_receive, sacn_parse
<1> QED BY <1>2, <1>7 DEF Parsed

\* What a controller may put behind a frame to make its length even.
Padding == {<<>>, <<0>>}

\* A controller's ArtDmx, padded or not.
LEMMA ArtDmxUnderstood ==
    ASSUME NEW u \in Number, NEW frame \in Frame,
           NEW padding \in Padding
    PROVE  Parsed([protocol |-> "artnet", whole |-> TRUE, magic_ok |-> TRUE,
                   opcode |-> "dmx", universe |-> u, length |-> Len(frame),
                   data |-> frame \o padding]) =
             [protocol |-> "artnet", universe |-> u, data |-> frame]
<1> DEFINE d == [protocol |-> "artnet", whole |-> TRUE, magic_ok |-> TRUE,
                 opcode |-> "dmx", universe |-> u, length |-> Len(frame),
                 data |-> frame \o padding]
           bytes == First(FrameSize, frame \o padding)
           in_buf == [d EXCEPT !.data = First(FrameSize, @)]
<1>1. padding \in Seq(Byte) /\ Len(padding) \in Nat
  <2>1. 0 \in Byte
    BY PacketsAssumption
  <2>2. <<>> \in Seq(Byte) /\ Len(<<>>) = 0
    BY EmptySeq
  <2>3. <<0>> \in Seq(Byte) /\ Len(<<0>>) = 1
    BY <2>1
  <2> QED BY <2>2, <2>3 DEF Padding
<1>2. /\ frame \o padding \in Seq(Byte)
      /\ Len(frame \o padding) = Len(frame) + Len(padding)
      /\ \A i \in 1 .. Len(frame) : (frame \o padding)[i] = frame[i]
  <2>1. /\ frame \o padding \in Seq(Byte)
        /\ Len(frame \o padding) = Len(frame) + Len(padding)
        /\ \A i \in 1 .. Len(frame) + Len(padding) :
              (frame \o padding)[i] = IF i <= Len(frame)
                                      THEN frame[i]
                                      ELSE padding[i - Len(frame)]
    BY <1>1, FrameType, ConcatProperties
  <2> QED BY <1>1, <2>1, FrameType
<1>3. /\ bytes \in Seq(Byte)
      /\ Len(bytes) \in Nat
      /\ Len(frame) <= Len(bytes)
      /\ \A i \in 1 .. Len(frame) : bytes[i] = frame[i]
  <2>1. /\ bytes \in Seq(Byte)
        /\ Len(bytes) = Smaller(FrameSize, Len(frame) + Len(padding))
        /\ \A i \in 1 .. Len(bytes) : bytes[i] = (frame \o padding)[i]
    BY <1>2, FrameType, FirstProperties
  <2>2. Len(bytes) \in Nat /\ Len(frame) <= Len(bytes)
    BY <1>1, <2>1, FrameType DEF Smaller
  <2> QED BY <1>2, <2>1, <2>2, FrameType
<1>4. in_buf.data = bytes /\ in_buf.length = Len(frame)
  OBVIOUS
<1>5. artnet_dmx_len(in_buf) = Len(frame)
  BY <1>3, <1>4, FrameType DEF artnet_dmx_len, Smaller
<1>6. memcpy(bytes, Len(frame)) = frame
  BY <1>3, FrameType, Copied
<1>7. artnet_receive(d) = [protocol |-> "artnet", universe |-> u,
                           data |-> memcpy(in_buf.data, artnet_dmx_len(in_buf))]
  BY DEF artnet_receive
<1> QED BY <1>4, <1>5, <1>6, <1>7 DEF Parsed

\* A console's plain frame.
LEMMA ShownetUnderstood ==
    ASSUME NEW slot \in Number, NEW frame \in Frame \ {<<>>}
    PROVE  Parsed([protocol |-> "shownet", whole |-> TRUE, net_slot |-> slot,
                   slot_count |-> Len(frame), rle |-> FALSE,
                   data |-> frame]) =
             [protocol |-> "shownet", net_slot |-> slot, data |-> frame]
<1> DEFINE d == [protocol |-> "shownet", whole |-> TRUE, net_slot |-> slot,
                 slot_count |-> Len(frame), rle |-> FALSE, data |-> frame]
<1>1. frame \in Frame /\ Len(frame) >= 1
  BY FrameType, EmptySeq
<1>2. First(ShownetRoom, frame) = frame
  BY <1>1, FrameType, FirstOfShort
<1>3. [d EXCEPT !.data = First(ShownetRoom, @)] = d
  <2>1. /\ d \in [protocol : {"shownet"}, whole : BOOLEAN,
                  net_slot : Number, slot_count : Nat, rle : BOOLEAN,
                  data : Frame]
        /\ d.data = frame
    BY <1>1, FrameType
  <2> HIDE DEF d
  <2>2. [d EXCEPT !.data = frame] = d
    BY <2>1
  <2> QED BY <1>2, <2>1, <2>2, Zenon
<1>4. Smaller(Smaller(Len(frame), FrameSize), Len(frame)) = Len(frame)
  BY <1>1, FrameType DEF Smaller
<1>5. memcpy(frame, Len(frame)) = frame
  BY <1>1, FrameType, Copied
<1>6. shownet_data(d) = frame
  BY <1>4, <1>5 DEF shownet_data
<1>7. shownet_receive(d) = [protocol |-> "shownet", net_slot |-> slot,
                            data |-> frame]
  BY <1>1, <1>3, <1>6 DEF shownet_receive
<1> QED BY <1>7 DEF Parsed

(***************************************************************************)
(* The invariant: a datagram under way that was sent by the rules will be  *)
(* understood, a packet that was received has been, and there are not both *)
(* at a time.                                                              *)
(***************************************************************************)

Ruled == meant.protocol \in {"sacn", "artnet", "shownet"}

Understood ==
    /\ wire # None /\ Ruled => Parsed(wire) = meant
    /\ Transparent
    /\ wire = None \/ got = None

\* Nothing has been sent at the start.
LEMMA UnderstoodInit == Init => Understood
  BY DEF Init, Understood, Transparent, Unclear, Ruled

\* Every step keeps it so.
LEMMA UnderstoodStep == Understood /\ [Next]_vars => Understood'
<1> SUFFICES ASSUME Understood, [Next]_vars
             PROVE  Understood'
  OBVIOUS
<1> USE DEF Understood, Transparent, Ruled
<1>1. ASSUME NEW d, NEW m, Hand(d, m), Ready,
             m.protocol \in {"sacn", "artnet", "shownet"} => Parsed(d) = m
      PROVE  Understood'
  BY <1>1 DEF Hand, Ready, Parsed, sacn_receive, artnet_receive,
              shownet_receive
<1>2. CASE SendSacn
  <2> PICK tx \in sacn_tx_t, frame \in Frame :
           Hand(sacn_tx_build_packet(tx, frame),
                [protocol |-> "sacn", universe |-> tx.universe,
                 priority |-> tx.priority, sequence |-> tx.sequence,
                 start_code |-> 0, data |-> frame])
    BY <1>2 DEF SendSacn
  <2> QED BY <1>1, <1>2, SacnUnderstood DEF SendSacn
<1>3. CASE SendArtDmx
  <2> PICK u \in Number, frame \in Frame, padding \in Padding :
           Hand([protocol |-> "artnet", whole |-> TRUE, magic_ok |-> TRUE,
                 opcode |-> "dmx", universe |-> u, length |-> Len(frame),
                 data |-> frame \o padding],
                [protocol |-> "artnet", universe |-> u, data |-> frame])
    BY <1>3 DEF SendArtDmx, Padding
  <2> QED BY <1>1, <1>3, ArtDmxUnderstood DEF SendArtDmx
<1>4. CASE SendShownet
  <2> PICK slot \in Number, frame \in Frame \ {<<>>} :
           Hand([protocol |-> "shownet", whole |-> TRUE, net_slot |-> slot,
                 slot_count |-> Len(frame), rle |-> FALSE, data |-> frame],
                [protocol |-> "shownet", net_slot |-> slot, data |-> frame])
    BY <1>4 DEF SendShownet
  <2> QED BY <1>1, <1>4, ShownetUnderstood DEF SendShownet
<1>5. CASE SendEncoded
  BY <1>5 DEF SendEncoded, Hand, Ready
<1>6. CASE SendAnything
  BY <1>6 DEF SendAnything, Hand, Ready, Unclear
<1>7. CASE Receive
  <2>1. got' = Parsed(wire) /\ wire' = None /\ meant' = meant /\ wire # None
    BY <1>7 DEF Receive
  <2> QED BY <2>1
<1>8. CASE Handled
  BY <1>8 DEF Handled, Unclear
<1>9. CASE UNCHANGED vars
  BY <1>9 DEF vars, Parsed, sacn_receive, artnet_receive, shownet_receive
<1>10. CASE SendPoll
  <2> PICK longer \in BOOLEAN :
           Hand([protocol |-> "artnet", whole |-> longer, magic_ok |-> TRUE,
                 opcode |-> "poll", universe |-> 0, length |-> 0,
                 data |-> <<>>],
                [protocol |-> "poll"])
    BY <1>10 DEF SendPoll
  <2> QED BY <1>1, <1>10 DEF SendPoll
<1> QED
  BY <1>2, <1>3, <1>4, <1>5, <1>6, <1>7, <1>8, <1>9, <1>10
     DEF Next

\* Every frame that another node's transmitter, an Art-Net controller or a
\* ShowNet console sends unencoded is taken over as it is, whatever its length:
\* the two clamps of each receive function cut nothing of it.
THEOREM SendersAreUnderstood == Spec => []Transparent
<1>1. Understood => Transparent
  BY DEF Understood
<1> QED BY <1>1, UnderstoodInit, UnderstoodStep, PTL DEF Spec

(***************************************************************************)
(* Induction, in the form of sets of numbers.                              *)
(***************************************************************************)

\* Every set of numbers has a least element.
LEMMA Least ==
    ASSUME NEW T \in SUBSET Nat, T # {}
    PROVE  \E x \in T : \A y \in T : x <= y
<1>1. PICK x \in T : \A y \in T : ~ (<<y, x>> \in OpToRel(<, Nat))
  BY NatLessThanWellFounded, WFMin
<1>2. \A y \in T : ~ (y < x)
  BY <1>1 DEF OpToRel
<1> QED BY <1>2

\* What holds of 0 and of the successor of every number it holds of.
LEMMA Induction ==
    ASSUME NEW S, 0 \in S, \A n \in Nat : n \in S => n + 1 \in S
    PROVE  \A n \in Nat : n \in S
<1> DEFINE T == {n \in Nat : n \notin S}
<1>1. SUFFICES ASSUME T # {} PROVE FALSE
  OBVIOUS
<1>2. PICK x \in T : \A y \in T : x <= y
  <2>1. T \in SUBSET Nat
    OBVIOUS
  <2> HIDE DEF T
  <2> QED BY <1>1, <2>1, Least
<1>3. x # 0 /\ x \in Nat /\ x - 1 \in Nat /\ x - 1 \notin T
  BY <1>2
<1>4. (x - 1) + 1 \in S
  BY <1>3
<1> QED BY <1>3, <1>4

(***************************************************************************)
(* The run-length decoder.                                                 *)
(***************************************************************************)

\* The levels decoded from byte i on into any room up to R, given those that
\* are decoded from the bytes behind it.
Row(e, R, f, i) ==
    [room \in 0 .. R |->
        IF i > Len(e) \/ room = 0
        THEN <<>>
        ELSE IF OpensRun(e, i)
        THEN LET n == Smaller(e[i + 1], room)
             IN  Repeat(ByteAt(e, i + 2), n) \o f[i + 3][room - n]
        ELSE <<e[i]>> \o f[i + 1][room - 1]]

\* The rows of a decoder.
Decodes(e, R, f) ==
    \A i \in 1 .. Len(e) + 3 : f[i] = Row(e, R, f, i)

\* A row depends on the next byte and on the one behind a run.
LEMMA RowSame ==
    ASSUME NEW e, NEW R, NEW f, NEW g, NEW i,
           i <= Len(e) => f[i + 1] = g[i + 1] /\ f[i + 3] = g[i + 3],
           i \in Int, Len(e) \in Nat
    PROVE  Row(e, R, f, i) = Row(e, R, g, i)
<1>1. CASE i > Len(e)
  <2>1. \A room \in 0 .. R : i > Len(e) \/ room = 0
    BY <1>1
  <2> QED BY <2>1 DEF Row
<1>2. CASE i <= Len(e)
  BY <1>2 DEF Row
<1> QED BY <1>1, <1>2

\* The recursion of the decoder has a solution.
LEMMA DecodeUnfolds ==
    ASSUME NEW e \in Seq(Byte), NEW R \in Nat
    PROVE  \E f : /\ Decodes(e, R, f)
                  /\ shownet_decode_rle(e, R) = f[1][R]
<1> DEFINE L == Len(e)
           Solves(f, m) == f = [i \in (L + 4 - m) .. (L + 3) |->
                                  Row(e, R, f, i)]
           Solved == {m \in Nat : \E f : Solves(f, m)}
           Rows(f) == f = [i \in 1 .. (L + 3) |-> Row(e, R, f, i)]
           decode == CHOOSE f : Rows(f)
<1>0. L \in Nat
  BY LenProperties
<1> HIDE DEF L
<1>1. 0 \in Solved
  <2>1. (L + 4 - 0) .. (L + 3) = {}
    BY <1>0
  <2>2. Solves([i \in {} |-> Row(e, R, e, i)], 0)
    <3>1. [i \in {} |-> Row(e, R, e, i)]
            = [i \in {} |-> Row(e, R, [j \in {} |-> Row(e, R, e, j)], i)]
      OBVIOUS
    <3> QED BY <2>1, <3>1
  <2> HIDE DEF Solves
  <2> QED BY <2>2
<1>2. ASSUME NEW m \in Nat, m \in Solved
      PROVE  m + 1 \in Solved
  <2>1. PICK f : Solves(f, m)
    BY <1>2
  <2> DEFINE D == (L + 4 - (m + 1)) .. (L + 3)
             g == [i \in D |-> IF i = L + 4 - (m + 1) THEN Row(e, R, f, i)
                                                      ELSE f[i]]
  <2>2. ASSUME NEW i \in D
        PROVE  g[i] = Row(e, R, g, i)
    <3>1. i \in Int /\ (i # L + 4 - (m + 1) => i \in (L + 4 - m) .. (L + 3))
      BY <1>0
    <3>2. g[i] = Row(e, R, f, i)
      <4>1. CASE i = L + 4 - (m + 1)
        BY <4>1
      <4>2. CASE i # L + 4 - (m + 1)
        <5>1. g[i] = f[i]
          BY <4>2
        <5> HIDE DEF g
        <5>2. f[i] = Row(e, R, f, i)
          BY <2>1, <3>1, <4>2
        <5> QED BY <5>1, <5>2
      <4> QED BY <4>1, <4>2
    <3>3. ASSUME i <= L
          PROVE  f[i + 1] = g[i + 1] /\ f[i + 3] = g[i + 3]
      <4>1. /\ i + 1 \in D /\ i + 1 # L + 4 - (m + 1)
            /\ i + 3 \in D /\ i + 3 # L + 4 - (m + 1)
        BY <1>0, <3>3
      <4> HIDE DEF D
      <4> QED BY <4>1
    <3>4. Row(e, R, f, i) = Row(e, R, g, i)
      <4> HIDE DEF g
      <4> QED BY <1>0, <3>1, <3>3, RowSame DEF L
    <3> HIDE DEF g
    <3> QED BY <3>2, <3>4
  <2>3. Solves(g, m + 1)
    <3> DEFINE h == [i \in D |-> Row(e, R, g, i)]
    <3>1. \A i \in D : g[i] = h[i]
      BY <2>2
    <3>2. /\ g = [i \in D |-> g[i]]
          /\ h = [i \in D |-> h[i]]
      OBVIOUS
    <3>3. g = h
      <4> HIDE DEF D, g, h
      <4> QED BY <3>1, <3>2
    <3> QED BY <3>3
  <2>4. \E s : Solves(s, m + 1)
    <3> HIDE DEF g, Solves
    <3> QED BY <2>3
  <2> HIDE DEF Solves
  <2> QED BY <2>4
<1>3. \A m \in Nat : m \in Solved
  <2> HIDE DEF Solved
  <2> QED BY <1>1, <1>2, Induction
<1>4. Rows(decode)
  <2>1. L + 3 \in Nat /\ L + 4 - (L + 3) = 1
    BY <1>0
  <2>2. PICK f : Solves(f, L + 3)
    BY <1>3, <2>1
  <2>3. Rows(f)
    BY <2>1, <2>2
  <2> HIDE DEF Rows
  <2> QED BY <2>3
<1>5. shownet_decode_rle(e, R) = decode[1][R]
  BY DEF shownet_decode_rle, Row, L
<1> HIDE DEF decode
<1>6. Decodes(e, R, decode)
  BY <1>4 DEF L, Decodes
<1> QED BY <1>5, <1>6

\* A run of a byte is a text.
LEMMA RepeatType ==
    ASSUME NEW v \in Byte, NEW n \in Nat
    PROVE  /\ Repeat(v, n) \in Seq(Byte) /\ Len(Repeat(v, n)) = n
           /\ \A i \in 1 .. n : Repeat(v, n)[i] = v
  BY DEF Repeat

\* What is decoded from byte i on into so much room: nothing, a level or a run,
\* and then what follows.
DecodedFrom(e, f, i, room) ==
    /\ i > Len(e) \/ room = 0 => f[i][room] = <<>>
    /\ i <= Len(e) /\ room # 0 /\ ~ OpensRun(e, i)
          => f[i][room] = <<e[i]>> \o f[i + 1][room - 1]
    /\ i <= Len(e) /\ room # 0 /\ OpensRun(e, i)
          => f[i][room] = Repeat(e[i + 2], Smaller(e[i + 1], room))
                            \o f[i + 3][room - Smaller(e[i + 1], room)]

\* The rows of a decoder say so.
LEMMA DecodeCases ==
    ASSUME NEW e \in Seq(Byte), NEW R \in Nat, NEW f, Decodes(e, R, f)
    PROVE  \A i \in 1 .. Len(e) + 3, room \in 0 .. R :
              DecodedFrom(e, f, i, room)
<1> TAKE i \in 1 .. Len(e) + 3, room \in 0 .. R
<1>0. Len(e) \in Nat
  BY LenProperties
<1>1. f[i][room] =
        IF i > Len(e) \/ room = 0
        THEN <<>>
        ELSE IF OpensRun(e, i)
        THEN LET n == Smaller(e[i + 1], room)
             IN  Repeat(ByteAt(e, i + 2), n) \o f[i + 3][room - n]
        ELSE <<e[i]>> \o f[i + 1][room - 1]
  BY DEF Row, Decodes
<1>2. OpensRun(e, i) => ByteAt(e, i + 2) = e[i + 2]
  BY <1>0 DEF OpensRun, ByteAt
<1>3. i <= Len(e) => ~ (i > Len(e))
  BY <1>0
<1> QED BY <1>1, <1>2, <1>3, Zenon DEF DecodedFrom

\* A run opens where there are two bytes behind the marker.
LEMMA RunBytes ==
    ASSUME NEW e \in Seq(Byte), NEW i \in 1 .. Len(e), OpensRun(e, i),
           NEW room \in Nat
    PROVE  /\ i + 3 \in 1 .. Len(e) + 3
           /\ e[i + 2] \in Byte
           /\ Smaller(e[i + 1], room) \in 0 .. room
<1>1. Len(e) \in Nat /\ i + 1 \in 1 .. Len(e) /\ i + 2 \in 1 .. Len(e)
  BY LenProperties DEF OpensRun
<1>2. e[i + 1] \in Byte /\ e[i + 2] \in Byte
  BY <1>1, ElementOfSeq
<1>3. e[i + 1] \in Nat
  BY <1>2, PacketsAssumption
<1> QED BY <1>1, <1>2, <1>3 DEF Smaller

\* What is decoded are levels that have been received, and no more than there is
\* room for.
LEMMA DecodedType ==
    ASSUME NEW e \in Seq(Byte), NEW R \in Nat, NEW f,
           Decodes(e, R, f),
           NEW j \in 1 .. Len(e) + 3, NEW left \in 0 .. R
    PROVE  f[j][left] \in Seq(Byte) /\ Len(f[j][left]) <= left
<1>0. Len(e) \in Nat
  BY LenProperties
<1>1. \A i \in 1 .. Len(e) + 3, room \in 0 .. R : DecodedFrom(e, f, i, room)
  BY DecodeCases
<1> DEFINE Fits(i) == \A room \in 0 .. R : /\ f[i][room] \in Seq(Byte)
                                           /\ Len(f[i][room]) <= room
           D == {m \in Nat : \A i \in 1 .. Len(e) + 3 :
                                i > Len(e) - m => Fits(i)}
<1>2. 0 \in D
  <2> SUFFICES ASSUME NEW i \in 1 .. Len(e) + 3, i > Len(e) - 0,
                      NEW room \in 0 .. R
               PROVE  f[i][room] \in Seq(Byte) /\ Len(f[i][room]) <= room
    OBVIOUS
  <2>1. i > Len(e)
    BY <1>0
  <2>2. f[i][room] = <<>>
    BY <1>1, <2>1, Zenon DEF DecodedFrom
  <2> QED BY <2>2, EmptySeq
<1>3. ASSUME NEW m \in Nat, m \in D
      PROVE  m + 1 \in D
  <2> SUFFICES ASSUME NEW i \in 1 .. Len(e) + 3, i > Len(e) - (m + 1),
                      NEW room \in 0 .. R
               PROVE  f[i][room] \in Seq(Byte) /\ Len(f[i][room]) <= room
    OBVIOUS
  <2>1. CASE i > Len(e) \/ room = 0
    <3>1. f[i][room] = <<>>
      BY <1>1, <2>1, Zenon DEF DecodedFrom
    <3> QED BY <3>1, EmptySeq
  <2>2. CASE i <= Len(e) /\ room # 0 /\ ~ OpensRun(e, i)
    <3>1. i + 1 \in 1 .. Len(e) + 3 /\ i + 1 > Len(e) - m
          /\ room - 1 \in 0 .. R /\ i \in 1 .. Len(e)
      BY <1>0, <2>2
    <3> DEFINE rest == f[i + 1][room - 1]
    <3>2. rest \in Seq(Byte) /\ Len(rest) <= room - 1
      BY <1>3, <3>1
    <3>3. e[i] \in Byte
      BY <3>1, ElementOfSeq
    <3>4. f[i][room] = <<e[i]>> \o rest
      BY <1>1, <2>2, Zenon DEF DecodedFrom
    <3> HIDE DEF rest
    <3> QED BY <3>2, <3>3, <3>4
  <2>3. CASE i <= Len(e) /\ room # 0 /\ OpensRun(e, i)
    <3> DEFINE n == Smaller(e[i + 1], room)
               run == Repeat(e[i + 2], n)
               rest == f[i + 3][room - n]
    <3>1. /\ i + 3 \in 1 .. Len(e) + 3 /\ e[i + 2] \in Byte
          /\ n \in 0 .. room
      <4>1. i \in 1 .. Len(e) /\ room \in Nat
        BY <1>0, <2>3
      <4> QED BY <2>3, <4>1, RunBytes
    <3>2. f[i][room] = run \o rest
      BY <1>1, <2>3, Zenon DEF DecodedFrom
    <3> HIDE DEF n
    <3>3. run \in Seq(Byte) /\ Len(run) = n
      <4>1. n \in Nat
        BY <3>1
      <4> QED BY <3>1, <4>1, RepeatType
    <3>4. i + 3 > Len(e) - m /\ room - n \in 0 .. R
      BY <1>0, <3>1
    <3>5. rest \in Seq(Byte) /\ Len(rest) <= room - n
      BY <1>3, <3>1, <3>4
    <3> HIDE DEF rest, run
    <3> QED BY <3>1, <3>2, <3>3, <3>5
  <2> QED BY <1>0, <2>1, <2>2, <2>3
<1>4. Len(e) \in D
  <2> HIDE DEF D
  <2> QED BY <1>0, <1>2, <1>3, Induction
<1>5. j > Len(e) - Len(e)
  BY <1>0
<1> QED BY <1>4, <1>5

\* So is what the decoder returns.
LEMMA DecodeType ==
    ASSUME NEW e \in Seq(Byte), NEW R \in Nat
    PROVE  /\ shownet_decode_rle(e, R) \in Seq(Byte)
           /\ Len(shownet_decode_rle(e, R)) <= R
<1>1. PICK f : /\ Decodes(e, R, f)
               /\ shownet_decode_rle(e, R) = f[1][R]
  BY DecodeUnfolds
<1>2. 1 \in 1 .. Len(e) + 3 /\ R \in 0 .. R
  BY LenProperties
<1> QED BY <1>1, <1>2, DecodedType

(***************************************************************************)
(* Texts one behind the other.                                             *)
(***************************************************************************)

\* The recursion inside Joined.
Chain(texts, n, f) ==
    f = [i \in 0 .. n |-> IF i = 0 THEN <<>> ELSE f[i - 1] \o texts[i]]

\* It has a solution.
LEMMA JoinedUnfolds ==
    ASSUME NEW texts, NEW n \in Nat
    PROVE  \E f : /\ f[0] = <<>>
                  /\ \A i \in 1 .. n : f[i] = f[i - 1] \o texts[i]
                  /\ Joined(texts, n) = f[n]
<1> DEFINE Solved == {m \in Nat : \E f : Chain(texts, m, f)}
           upto == CHOOSE f : Chain(texts, n, f)
<1>1. 0 \in Solved
  <2>1. Chain(texts, 0, [i \in 0 .. 0 |-> <<>>])
    BY DEF Chain
  <2> QED BY <2>1
<1>2. ASSUME NEW m \in Nat, m \in Solved
      PROVE  m + 1 \in Solved
  <2>1. PICK f : Chain(texts, m, f)
    BY <1>2
  <2> DEFINE g == [i \in 0 .. m + 1 |->
                     IF i <= m THEN f[i] ELSE f[m] \o texts[m + 1]]
  <2>2. ASSUME NEW i \in 0 .. m + 1
        PROVE  g[i] = IF i = 0 THEN <<>> ELSE g[i - 1] \o texts[i]
    <3>1. CASE i = 0
      BY <2>1, <3>1 DEF Chain
    <3>2. CASE i # 0 /\ i <= m
      <4>1. /\ i - 1 \in 0 .. m /\ i \in 0 .. m
            /\ g[i] = f[i] /\ g[i - 1] = f[i - 1]
        BY <3>2
      <4>2. f[i] = f[i - 1] \o texts[i]
        BY <2>1, <3>2, <4>1 DEF Chain
      <4> HIDE DEF g
      <4> QED BY <3>2, <4>1, <4>2
    <3>3. CASE i = m + 1
      <4>1. i # 0 /\ g[i - 1] = f[m]
        BY <3>3
      <4> QED BY <3>3, <4>1
    <3> QED BY <3>1, <3>2, <3>3
  <2>3. Chain(texts, m + 1, g)
    <3> DEFINE h == [i \in 0 .. m + 1 |->
                       IF i = 0 THEN <<>> ELSE g[i - 1] \o texts[i]]
    <3>1. \A i \in 0 .. m + 1 : g[i] = h[i]
      BY <2>2
    <3>2. /\ g = [i \in 0 .. m + 1 |-> g[i]]
          /\ h = [i \in 0 .. m + 1 |-> h[i]]
      OBVIOUS
    <3>3. g = h
      <4> HIDE DEF g, h
      <4> QED BY <3>1, <3>2
    <3> QED BY <3>3 DEF Chain
  <2> HIDE DEF g
  <2> QED BY <2>3
<1>3. n \in Solved
  <2> HIDE DEF Solved
  <2> QED BY <1>1, <1>2, Induction
<1>4. Chain(texts, n, upto)
  BY <1>3
<1>5. Joined(texts, n) = upto[n]
  BY DEF Joined, Chain
<1> HIDE DEF upto
<1>6. upto[0] = <<>>
  BY <1>4 DEF Chain
<1>7. ASSUME NEW i \in 1 .. n
      PROVE  upto[i] = upto[i - 1] \o texts[i]
  <2>1. i \in 0 .. n /\ i # 0
    OBVIOUS
  <2> QED BY <1>4, <2>1 DEF Chain
<1> QED BY <1>5, <1>6, <1>7

\* Nothing joined is nothing, and each text is put behind those before it.
LEMMA JoinedSteps ==
    ASSUME NEW texts, NEW n \in Nat
    PROVE  /\ Joined(texts, 0) = <<>>
           /\ Joined(texts, n + 1) = Joined(texts, n) \o texts[n + 1]
<1>1. Joined(texts, 0) = <<>>
  <2>1. PICK f : f[0] = <<>> /\ Joined(texts, 0) = f[0]
    BY JoinedUnfolds
  <2> QED BY <2>1
<1>2. PICK f : /\ f[0] = <<>>
               /\ \A i \in 1 .. n : f[i] = f[i - 1] \o texts[i]
               /\ Joined(texts, n) = f[n]
  BY JoinedUnfolds
<1>3. PICK g : /\ g[0] = <<>>
               /\ \A i \in 1 .. n + 1 : g[i] = g[i - 1] \o texts[i]
               /\ Joined(texts, n + 1) = g[n + 1]
  <2>1. n + 1 \in Nat
    OBVIOUS
  <2> QED BY <2>1, JoinedUnfolds
<1> DEFINE Same == {i \in Nat : i <= n => f[i] = g[i]}
<1>4. 0 \in Same
  BY <1>2, <1>3
<1>5. ASSUME NEW i \in Nat, i \in Same
      PROVE  i + 1 \in Same
  <2> SUFFICES ASSUME i + 1 <= n
               PROVE  f[i + 1] = g[i + 1]
    OBVIOUS
  <2>1. /\ i + 1 \in 1 .. n /\ i + 1 \in 1 .. n + 1
        /\ (i + 1) - 1 = i /\ f[i] = g[i]
    BY <1>5
  <2> QED BY <1>2, <1>3, <2>1
<1>6. f[n] = g[n]
  <2>1. n \in Same
    <3> HIDE DEF Same
    <3> QED BY <1>4, <1>5, Induction
  <2> QED BY <2>1
<1>7. n + 1 \in 1 .. n + 1 /\ (n + 1) - 1 = n
  OBVIOUS
<1>8. g[n + 1] = g[n] \o texts[n + 1]
  BY <1>3, <1>7
<1> QED BY <1>1, <1>2, <1>3, <1>6, <1>8

\* The bytes of a token: three for a run, one for a level.
LEMMA TokenType ==
    ASSUME NEW token \in Token
    PROVE  /\ token.run \in BOOLEAN /\ token.value \in Byte
           /\ token.count \in Byte /\ token.count \in Nat
           /\ Encoded(token) \in Seq(Byte)
           /\ Meaning(token) \in Seq(Byte)
           /\ token.run => /\ Len(Encoded(token)) = 3
                           /\ Encoded(token)[1] = Marker
                           /\ Encoded(token)[2] = token.count
                           /\ Encoded(token)[3] = token.value
                           /\ Meaning(token) = Repeat(token.value, token.count)
           /\ ~ token.run => /\ Len(Encoded(token)) = 1
                             /\ Encoded(token)[1] = token.value
                             /\ token.value # Marker
                             /\ Meaning(token) = <<token.value>>
<1>1. /\ token.run \in BOOLEAN /\ token.value \in Byte
      /\ token.count \in Byte /\ token.count \in Nat
      /\ ~ token.run => token.value # Marker
      /\ Marker \in Byte
  BY PacketsAssumption DEF Token
<1>2. Repeat(token.value, token.count) \in Seq(Byte)
  BY <1>1, RepeatType
<1>3. CASE token.run
  BY <1>1, <1>2, <1>3 DEF Encoded, Meaning
<1>4. CASE ~ token.run
  BY <1>1, <1>4 DEF Encoded, Meaning
<1> QED BY <1>1, <1>3, <1>4

\* One more token puts its bytes and its levels behind those before it.
LEMMA TokenStep ==
    ASSUME NEW tokens \in Seq(Token), NEW k \in Nat, k < Len(tokens)
    PROVE  /\ EncodedAll(tokens, 0) = <<>> /\ MeaningAll(tokens, 0) = <<>>
           /\ tokens[k + 1] \in Token
           /\ EncodedAll(tokens, k + 1)
                = EncodedAll(tokens, k) \o Encoded(tokens[k + 1])
           /\ MeaningAll(tokens, k + 1)
                = MeaningAll(tokens, k) \o Meaning(tokens[k + 1])
<1> DEFINE bytes == [i \in DOMAIN tokens |-> Encoded(tokens[i])]
           levels == [i \in DOMAIN tokens |-> Meaning(tokens[i])]
<1>1. k + 1 \in 1 .. Len(tokens) /\ k + 1 \in DOMAIN tokens
  BY LenProperties
<1>2. bytes[k + 1] = Encoded(tokens[k + 1])
      /\ levels[k + 1] = Meaning(tokens[k + 1])
  BY <1>1
<1>3. /\ EncodedAll(tokens, 0) = Joined(bytes, 0)
      /\ MeaningAll(tokens, 0) = Joined(levels, 0)
      /\ EncodedAll(tokens, k) = Joined(bytes, k)
      /\ MeaningAll(tokens, k) = Joined(levels, k)
      /\ EncodedAll(tokens, k + 1) = Joined(bytes, k + 1)
      /\ MeaningAll(tokens, k + 1) = Joined(levels, k + 1)
  BY DEF EncodedAll, MeaningAll
<1> HIDE DEF bytes, levels
<1> QED BY <1>1, <1>2, <1>3, JoinedSteps, ElementOfSeq

\* The bytes of an encoding, and the levels it stands for.
LEMMA TokensType ==
    ASSUME NEW tokens \in Seq(Token), NEW k \in Nat, k <= Len(tokens)
    PROVE  EncodedAll(tokens, k) \in Seq(Byte)
           /\ MeaningAll(tokens, k) \in Seq(Byte)
<1> DEFINE D == {m \in Nat : m <= Len(tokens) =>
                    /\ EncodedAll(tokens, m) \in Seq(Byte)
                    /\ MeaningAll(tokens, m) \in Seq(Byte)}
<1>1. 0 \in D
  <2>1. EncodedAll(tokens, 0) = <<>> /\ MeaningAll(tokens, 0) = <<>>
    BY JoinedSteps DEF EncodedAll, MeaningAll
  <2> QED BY <2>1, EmptySeq
<1>2. ASSUME NEW m \in Nat, m \in D
      PROVE  m + 1 \in D
  <2> SUFFICES ASSUME m + 1 <= Len(tokens)
               PROVE  /\ EncodedAll(tokens, m + 1) \in Seq(Byte)
                      /\ MeaningAll(tokens, m + 1) \in Seq(Byte)
    OBVIOUS
  <2>1. m < Len(tokens) /\ m <= Len(tokens)
    BY LenProperties
  <2>2. tokens[m + 1] \in Token
    BY <2>1, TokenStep
  <2>3. /\ EncodedAll(tokens, m + 1)
             = EncodedAll(tokens, m) \o Encoded(tokens[m + 1])
        /\ MeaningAll(tokens, m + 1)
             = MeaningAll(tokens, m) \o Meaning(tokens[m + 1])
    BY <2>1, TokenStep
  <2>4. /\ Encoded(tokens[m + 1]) \in Seq(Byte)
        /\ Meaning(tokens[m + 1]) \in Seq(Byte)
    BY <2>2, TokenType
  <2>5. /\ EncodedAll(tokens, m) \in Seq(Byte)
        /\ MeaningAll(tokens, m) \in Seq(Byte)
    BY <1>2, <2>1
  <2>6. \A s, t \in Seq(Byte) : s \o t \in Seq(Byte)
    BY ConcatProperties
  <2> QED BY <2>3, <2>4, <2>5, <2>6, Zenon
<1>3. k \in D
  <2> HIDE DEF D
  <2> QED BY <1>1, <1>2, Induction
<1> QED BY <1>3

(***************************************************************************)
(* Any datagram.                                                           *)
(***************************************************************************)

\* Bytes behind a header, and whatever the fields of the header claim.
Datagram ==
    [protocol : {"sacn"}, whole : BOOLEAN, root_ok : BOOLEAN,
     dmp_ok : BOOLEAN, universe : Nat, priority : Priority,
     sequence : Sequence, prop_count : Nat, start_code : {0, 1},
     data : Seq(Byte)]
    \cup
    [protocol : {"artnet"}, whole : BOOLEAN, magic_ok : BOOLEAN,
     opcode : {"dmx", "poll", "other"}, universe : Nat, length : Nat,
     data : Seq(Byte)]
    \cup
    [protocol : {"shownet"}, whole : BOOLEAN, net_slot : Nat,
     slot_count : Nat, rle : BOOLEAN, data : Seq(Byte)]

\* A universe of levels that were received.
Levels(data) ==
    Len(data) <= FrameSize /\ \A c \in 1 .. Len(data) : data[c] \in Byte

\* A clamped memcpy stays inside the bytes received.
LEMMA CopiedLevels ==
    ASSUME NEW bytes \in Seq(Byte), NEW n \in Int, n <= Len(bytes),
           n <= FrameSize, n >= 0
    PROVE  Levels(memcpy(bytes, n))
<1>1. Len(bytes) \in Nat
  BY LenProperties
<1>2. ASSUME NEW i \in 1 .. n
      PROVE  ByteAt(bytes, i) \in Byte
  <2>1. i \in 1 .. Len(bytes)
    BY <1>1, <1>2
  <2> QED BY <2>1, ElementOfSeq DEF ByteAt
<1>3. memcpy(bytes, n) = [i \in 1 .. n |-> ByteAt(bytes, i)]
  BY DEF memcpy
<1>4. memcpy(bytes, n) \in Seq(Byte) /\ Len(memcpy(bytes, n)) = n
  BY <1>2, <1>3
<1>5. \A c \in 1 .. n : memcpy(bytes, n)[c] \in Byte
  BY <1>2, <1>3
<1> QED BY <1>4, <1>5 DEF Levels

\* So does what the decoder returns.
LEMMA DecodedLevels ==
    ASSUME NEW bytes \in Seq(Byte)
    PROVE  Levels(shownet_decode_rle(bytes, FrameSize))
<1>1. FrameSize \in Nat
  BY PacketsAssumption
<1>2. /\ shownet_decode_rle(bytes, FrameSize) \in Seq(Byte)
      /\ Len(shownet_decode_rle(bytes, FrameSize)) <= FrameSize
  BY <1>1, DecodeType
<1> QED BY <1>2, ElementOfSeq DEF Levels

\* Whatever a header claims, the packet holds a universe of received levels.
LEMMA ParsedLevels ==
    ASSUME NEW d \in Datagram, Parsed(d) # Rejected
    PROVE  Levels(Parsed(d).data)
<1>0. /\ d.data \in Seq(Byte) /\ FrameSize \in Nat /\ ShownetRoom \in Nat
  BY PacketsAssumption DEF Datagram
<1>1. CASE d.protocol = "sacn"
  <2> DEFINE b == [d EXCEPT !.data = First(FrameSize, @)]
  <2>1. /\ b.data = First(FrameSize, d.data)
        /\ b.prop_count = d.prop_count /\ d.prop_count \in Nat
    BY <1>1 DEF Datagram
  <2>2. b.data \in Seq(Byte) /\ Len(b.data) \in Nat
    BY <1>0, <2>1, FirstProperties, LenProperties
  <2>3. Parsed(d) = sacn_parse(b)
    BY <1>1 DEF Parsed, sacn_receive
  <2> HIDE DEF b
  <2>4. /\ b.prop_count >= 1
        /\ Parsed(d).data = memcpy(b.data, sacn_dmx_len(b))
    BY <2>3 DEF sacn_parse
  <2>5. /\ sacn_dmx_len(b) \in Int /\ sacn_dmx_len(b) >= 0
        /\ sacn_dmx_len(b) <= Len(b.data) /\ sacn_dmx_len(b) <= FrameSize
    BY <1>0, <2>1, <2>2, <2>4 DEF sacn_dmx_len, Smaller
  <2> QED BY <2>2, <2>4, <2>5, CopiedLevels
<1>2. CASE d.protocol = "artnet"
  <2> DEFINE b == [d EXCEPT !.data = First(FrameSize, @)]
  <2>1. /\ b.data = First(FrameSize, d.data)
        /\ b.length = d.length /\ d.length \in Nat
    BY <1>2 DEF Datagram
  <2>2. b.data \in Seq(Byte) /\ Len(b.data) \in Nat
    BY <1>0, <2>1, FirstProperties, LenProperties
  <2>3. Parsed(d) = artnet_receive(d)
    BY <1>2 DEF Parsed
  <2>4. Parsed(d).data = memcpy(b.data, artnet_dmx_len(b))
    BY <2>3 DEF artnet_receive
  <2> HIDE DEF b
  <2>5. /\ artnet_dmx_len(b) \in Int /\ artnet_dmx_len(b) >= 0
        /\ artnet_dmx_len(b) <= Len(b.data) /\ artnet_dmx_len(b) <= FrameSize
    BY <1>0, <2>1, <2>2 DEF artnet_dmx_len, Smaller
  <2> QED BY <2>2, <2>4, <2>5, CopiedLevels
<1>3. CASE d.protocol = "shownet"
  <2> DEFINE b == [d EXCEPT !.data = First(ShownetRoom, @)]
  <2>1. /\ b.data = First(ShownetRoom, d.data)
        /\ b.slot_count = d.slot_count /\ d.slot_count \in Nat
    BY <1>3 DEF Datagram
  <2>2. b.data \in Seq(Byte) /\ Len(b.data) \in Nat
    BY <1>0, <2>1, FirstProperties, LenProperties
  <2>3. Parsed(d) = shownet_receive(d)
    BY <1>3 DEF Parsed
  <2>4. Parsed(d).data = shownet_data(b)
    BY <2>3 DEF shownet_receive
  <2> HIDE DEF b
  <2>5. CASE b.rle
    BY <2>2, <2>4, <2>5, DecodedLevels DEF shownet_data
  <2>6. CASE ~ b.rle
    <3> DEFINE n == Smaller(Smaller(Len(b.data), FrameSize), b.slot_count)
    <3>1. shownet_data(b) = memcpy(b.data, n)
      BY <2>6 DEF shownet_data
    <3>2. n \in Int /\ n >= 0 /\ n <= Len(b.data) /\ n <= FrameSize
      BY <1>0, <2>1, <2>2 DEF Smaller
    <3> HIDE DEF n
    <3> QED BY <2>2, <2>4, <3>1, <3>2, CopiedLevels
  <2> QED BY <2>5, <2>6
<1> QED BY <1>1, <1>2, <1>3 DEF Datagram

\* What senders put behind a header are bytes.
LEMMA PayloadType == Payload \subseteq Seq(Byte)
<1>1. Frame \subseteq Seq(Byte) /\ 0 \in Byte
  BY PacketsAssumption
<1>2. \A frame \in Frame : Append(frame, 0) \in Seq(Byte)
  BY <1>1, AppendProperties
<1> QED BY <1>1, <1>2 DEF Payload

\* Every sender makes a datagram.
LEMMA SentType ==
    /\ \A tx \in sacn_tx_t, frame \in Frame :
          sacn_tx_build_packet(tx, frame) \in Datagram
    /\ \A u \in Number, frame \in Frame, padding \in Padding :
          [protocol |-> "artnet", whole |-> TRUE, magic_ok |-> TRUE,
           opcode |-> "dmx", universe |-> u, length |-> Len(frame),
           data |-> frame \o padding] \in Datagram
    /\ \A longer \in BOOLEAN :
          [protocol |-> "artnet", whole |-> longer, magic_ok |-> TRUE,
           opcode |-> "poll", universe |-> 0, length |-> 0,
           data |-> <<>>] \in Datagram
    /\ \A slot \in Number, frame \in Frame :
          [protocol |-> "shownet", whole |-> TRUE, net_slot |-> slot,
           slot_count |-> Len(frame), rle |-> FALSE,
           data |-> frame] \in Datagram
    /\ \A slot \in Number, tokens \in Encoding :
          [protocol |-> "shownet", whole |-> TRUE, net_slot |-> slot,
           slot_count |-> Len(MeaningAll(tokens, Len(tokens))), rle |-> TRUE,
           data |-> EncodedAll(tokens, Len(tokens))] \in Datagram
    /\ SacnDatagram \cup ArtnetDatagram \cup ShownetDatagram
          \subseteq Datagram
<1>1. Number \subseteq Nat /\ 0 \in Byte
  BY PacketsAssumption
<1>2. ASSUME NEW tx \in sacn_tx_t, NEW frame \in Frame
      PROVE  sacn_tx_build_packet(tx, frame) \in Datagram
  <2>1. First(FrameSize, frame) = frame
    BY FrameType, FirstOfShort
  <2>2. /\ tx.universe \in Nat /\ tx.priority \in Priority
        /\ tx.sequence \in Sequence
    BY <1>1 DEF sacn_tx_t
  <2>3. frame \in Seq(Byte) /\ 1 + Len(frame) \in Nat
    BY FrameType
  <2>4. sacn_tx_build_packet(tx, frame) =
           [protocol |-> "sacn", whole |-> TRUE, root_ok |-> TRUE,
            dmp_ok |-> TRUE, universe |-> tx.universe,
            priority |-> tx.priority, sequence |-> tx.sequence,
            prop_count |-> 1 + Len(frame), start_code |-> 0, data |-> frame]
    BY <2>1 DEF sacn_tx_build_packet
  <2> QED BY <2>2, <2>3, <2>4 DEF Datagram
<1>3. ASSUME NEW u \in Number, NEW frame \in Frame, NEW padding \in Padding
      PROVE  [protocol |-> "artnet", whole |-> TRUE, magic_ok |-> TRUE,
              opcode |-> "dmx", universe |-> u, length |-> Len(frame),
              data |-> frame \o padding] \in Datagram
  <2>1. padding \in Seq(Byte)
    <3>1. <<>> \in Seq(Byte) /\ <<0>> \in Seq(Byte)
      BY <1>1, EmptySeq
    <3> QED BY <3>1 DEF Padding
  <2>2. u \in Nat /\ Len(frame) \in Nat /\ frame \o padding \in Seq(Byte)
    BY <1>1, <2>1, FrameType, ConcatProperties
  <2> QED BY <2>2 DEF Datagram
<1>4. ASSUME NEW slot \in Number, NEW frame \in Frame
      PROVE  [protocol |-> "shownet", whole |-> TRUE, net_slot |-> slot,
              slot_count |-> Len(frame), rle |-> FALSE,
              data |-> frame] \in Datagram
  <2>1. slot \in Nat /\ Len(frame) \in Nat /\ frame \in Seq(Byte)
    BY <1>1, FrameType
  <2> QED BY <2>1 DEF Datagram
<1>5. ASSUME NEW slot \in Number, NEW tokens \in Encoding
      PROVE  [protocol |-> "shownet", whole |-> TRUE, net_slot |-> slot,
              slot_count |-> Len(MeaningAll(tokens, Len(tokens))),
              rle |-> TRUE,
              data |-> EncodedAll(tokens, Len(tokens))] \in Datagram
  <2>1. tokens \in Seq(Token) /\ Len(tokens) \in Nat
    BY PacketsAssumption, LenProperties
  <2>2. /\ EncodedAll(tokens, Len(tokens)) \in Seq(Byte)
        /\ MeaningAll(tokens, Len(tokens)) \in Seq(Byte)
    BY <2>1, TokensType
  <2>3. slot \in Nat /\ Len(MeaningAll(tokens, Len(tokens))) \in Nat
    BY <1>1, <2>2, LenProperties
  <2> QED BY <2>2, <2>3 DEF Datagram
<1>6. SacnDatagram \cup ArtnetDatagram \cup ShownetDatagram
        \subseteq Datagram
  BY <1>1, PayloadType
     DEF SacnDatagram, ArtnetDatagram, ShownetDatagram, Datagram
<1>7. ASSUME NEW longer \in BOOLEAN
      PROVE  [protocol |-> "artnet", whole |-> longer, magic_ok |-> TRUE,
              opcode |-> "poll", universe |-> 0, length |-> 0,
              data |-> <<>>] \in Datagram
  <2>1. <<>> \in Seq(Byte)
    BY EmptySeq
  <2> QED BY <2>1 DEF Datagram
<1> QED BY <1>2, <1>3, <1>4, <1>5, <1>6, <1>7

\* The datagram under way is one, and a packet has levels.
Received ==
    /\ wire # None => wire \in Datagram
    /\ OnlyReceivedBytes

\* Nothing has been received at the start.
LEMMA ReceivedInit == Init => Received
  BY DEF Init, Received, OnlyReceivedBytes

\* Every step keeps it so.
LEMMA ReceivedStep == Received /\ [Next]_vars => Received'
<1> SUFFICES ASSUME Received, [Next]_vars PROVE Received'
  OBVIOUS
<1> USE DEF Received
<1>1. ASSUME NEW d \in Datagram, NEW m, Hand(d, m)
      PROVE  Received'
  BY <1>1 DEF Hand, OnlyReceivedBytes
<1>2. CASE SendSacn
  <2> PICK tx \in sacn_tx_t, frame \in Frame :
           Hand(sacn_tx_build_packet(tx, frame),
                [protocol |-> "sacn", universe |-> tx.universe,
                 priority |-> tx.priority, sequence |-> tx.sequence,
                 start_code |-> 0, data |-> frame])
    BY <1>2 DEF SendSacn
  <2> QED BY <1>1, SentType
<1>3. CASE SendArtDmx
  <2> PICK u \in Number, frame \in Frame, padding \in Padding :
           Hand([protocol |-> "artnet", whole |-> TRUE, magic_ok |-> TRUE,
                 opcode |-> "dmx", universe |-> u, length |-> Len(frame),
                 data |-> frame \o padding],
                [protocol |-> "artnet", universe |-> u, data |-> frame])
    BY <1>3 DEF SendArtDmx, Padding
  <2> QED BY <1>1, SentType
<1>4. CASE SendShownet
  <2> PICK slot \in Number, frame \in Frame :
           Hand([protocol |-> "shownet", whole |-> TRUE, net_slot |-> slot,
                 slot_count |-> Len(frame), rle |-> FALSE, data |-> frame],
                [protocol |-> "shownet", net_slot |-> slot, data |-> frame])
    BY <1>4 DEF SendShownet
  <2> QED BY <1>1, SentType
<1>5. CASE SendEncoded
  <2> PICK slot \in Number, tokens \in Encoding :
           Hand([protocol |-> "shownet", whole |-> TRUE, net_slot |-> slot,
                 slot_count |-> Len(MeaningAll(tokens, Len(tokens))),
                 rle |-> TRUE, data |-> EncodedAll(tokens, Len(tokens))],
                [protocol |-> "encoded", net_slot |-> slot,
                 tokens |-> tokens])
    BY <1>5 DEF SendEncoded
  <2> QED BY <1>1, SentType
<1>6. CASE SendAnything
  <2> PICK d \in SacnDatagram \cup ArtnetDatagram \cup ShownetDatagram :
           Hand(d, Unclear)
    BY <1>6 DEF SendAnything
  <2>1. d \in Datagram
    BY SentType
  <2> QED BY <1>1, <2>1
<1>7. CASE Receive
  <2>1. wire \in Datagram /\ got' = Parsed(wire) /\ wire' = None
    BY <1>7 DEF Receive
  <2>2. got' # Rejected => Levels(got'.data)
    BY <2>1, ParsedLevels
  <2> QED BY <2>1, <2>2 DEF OnlyReceivedBytes, Levels
<1>8. CASE Handled
  BY <1>8 DEF Handled, OnlyReceivedBytes
<1>9. CASE UNCHANGED vars
  BY <1>9 DEF vars, OnlyReceivedBytes
<1>10. CASE SendPoll
  <2> PICK longer \in BOOLEAN :
           Hand([protocol |-> "artnet", whole |-> longer, magic_ok |-> TRUE,
                 opcode |-> "poll", universe |-> 0, length |-> 0,
                 data |-> <<>>],
                [protocol |-> "poll"])
    BY <1>10 DEF SendPoll
  <2> QED BY <1>1, SentType
<1> QED
  BY <1>2, <1>3, <1>4, <1>5, <1>6, <1>7, <1>8, <1>9, <1>10
     DEF Next

\* It holds throughout.
LEMMA ReceivedAlways == Spec => []Received
<1> QED BY ReceivedInit, ReceivedStep, PTL DEF Spec

\* Whatever arrives and whatever its header claims, a packet handed to the loop
\* holds no more than a universe of levels, all of which were received: the
\* clamps and the run-length decoder stay inside the datagram.
THEOREM LevelsWereReceived == Spec => []OnlyReceivedBytes
<1>1. Received => OnlyReceivedBytes
  BY DEF Received
<1> QED BY <1>1, ReceivedAlways, PTL

(***************************************************************************)
(* Encoded frames.                                                         *)
(***************************************************************************)

\* Two texts of the same length with the same bytes are the same.
LEMMA SameText ==
    ASSUME NEW s \in Seq(Byte), NEW t \in Seq(Byte), Len(s) = Len(t),
           \A i \in 1 .. Len(s) : s[i] = t[i]
    PROVE  s = t
  OBVIOUS

\* The beginning of two texts, one behind the other.
LEMMA FirstOfConcat ==
    ASSUME NEW s \in Seq(Byte), NEW t \in Seq(Byte), NEW n \in Nat
    PROVE  /\ Len(s) >= n => First(n, s \o t) = First(n, s)
           /\ Len(s) < n => First(n, s \o t) = s \o First(n - Len(s), t)
<1>0. Len(s) \in Nat /\ Len(t) \in Nat
  BY LenProperties
<1>1. /\ s \o t \in Seq(Byte) /\ Len(s \o t) = Len(s) + Len(t)
      /\ \A i \in 1 .. Len(s) + Len(t) :
            (s \o t)[i] = IF i <= Len(s) THEN s[i] ELSE t[i - Len(s)]
  BY ConcatProperties
<1>2. /\ First(n, s \o t) \in Seq(Byte)
      /\ Len(First(n, s \o t)) = Smaller(n, Len(s) + Len(t))
      /\ \A i \in 1 .. Smaller(n, Len(s) + Len(t)) :
            First(n, s \o t)[i] = (s \o t)[i]
  <2> DEFINE u == s \o t
  <2>1. u \in Seq(Byte) /\ Len(u) = Len(s) + Len(t)
    BY <1>1
  <2> HIDE DEF u
  <2>2. /\ First(n, u) \in Seq(Byte)
        /\ Len(First(n, u)) = Smaller(n, Len(u))
        /\ \A i \in 1 .. Smaller(n, Len(u)) : First(n, u)[i] = u[i]
    BY <2>1, FirstProperties
  <2>3. /\ First(n, u) \in Seq(Byte)
        /\ Len(First(n, u)) = Smaller(n, Len(s) + Len(t))
        /\ \A i \in 1 .. Smaller(n, Len(s) + Len(t)) : First(n, u)[i] = u[i]
    BY <2>1, <2>2
  <2> QED BY <2>3 DEF u
<1>3. ASSUME Len(s) >= n
      PROVE  First(n, s \o t) = First(n, s)
  <2>1. /\ First(n, s) \in Seq(Byte) /\ Len(First(n, s)) = Smaller(n, Len(s))
        /\ \A i \in 1 .. Smaller(n, Len(s)) : First(n, s)[i] = s[i]
    BY FirstProperties
  <2>2. Smaller(n, Len(s)) = n /\ Smaller(n, Len(s) + Len(t)) = n
    BY <1>0, <1>3 DEF Smaller
  <2>3. \A i \in 1 .. n : First(n, s \o t)[i] = First(n, s)[i]
    BY <1>0, <1>1, <1>2, <1>3, <2>1, <2>2
  <2> QED BY <1>2, <2>1, <2>2, <2>3, SameText
<1>4. ASSUME Len(s) < n
      PROVE  First(n, s \o t) = s \o First(n - Len(s), t)
  <2> DEFINE m == n - Len(s)
             b == First(m, t)
             k == Smaller(m, Len(t))
  <2>0. m \in Nat /\ k \in Nat /\ k <= Len(t)
    BY <1>0, <1>4 DEF Smaller
  <2>1. b \in Seq(Byte) /\ Len(b) = k /\ \A i \in 1 .. k : b[i] = t[i]
    BY <2>0, FirstProperties
  <2>2. Smaller(n, Len(s) + Len(t)) = Len(s) + k
    BY <1>0, <1>4 DEF Smaller
  <2> HIDE DEF b, k, m
  <2>3. /\ s \o b \in Seq(Byte) /\ Len(s \o b) = Len(s) + k
        /\ \A i \in 1 .. Len(s) + k :
              (s \o b)[i] = IF i <= Len(s) THEN s[i] ELSE b[i - Len(s)]
    BY <2>1, ConcatProperties
  <2>4. ASSUME NEW i \in 1 .. Len(s) + k
        PROVE  First(n, s \o t)[i] = (s \o b)[i]
    <3>1. CASE i <= Len(s)
      BY <1>0, <1>1, <1>2, <2>0, <2>2, <2>3, <3>1
    <3>2. CASE i > Len(s)
      <4>1. i - Len(s) \in 1 .. k /\ i \in 1 .. Len(s) + Len(t)
            /\ ~ (i <= Len(s))
        BY <1>0, <2>0, <3>2
      <4>2. First(n, s \o t)[i] = t[i - Len(s)]
        BY <1>1, <1>2, <2>2, <4>1
      <4>3. (s \o b)[i] = b[i - Len(s)]
        BY <2>3, <4>1
      <4> QED BY <2>1, <4>1, <4>2, <4>3
    <3>3. i <= Len(s) \/ i > Len(s)
      BY <1>0, <2>0
    <3> QED BY <3>1, <3>2, <3>3, Zenon
  <2>5. First(n, s \o t) = s \o b
    BY <1>2, <2>2, <2>3, <2>4, SameText
  <2> QED BY <2>5 DEF b, m
<1> QED BY <1>3, <1>4

\* What is left of the room is for the second.
LEMMA FirstSplits ==
    ASSUME NEW s \in Seq(Byte), NEW t \in Seq(Byte), NEW n \in Nat
    PROVE  /\ n - Len(First(n, s)) \in 0 .. n
           /\ First(n, s \o t)
                = First(n, s) \o First(n - Len(First(n, s)), t)
<1>0. /\ Len(s) \in Nat /\ Len(t) \in Nat
      /\ First(n, s) \in Seq(Byte)
      /\ Len(First(n, s)) = Smaller(n, Len(s))
  BY LenProperties, FirstProperties
<1>1. CASE Len(s) < n
  <2>1. First(n, s) = s
    BY <1>0, <1>1, FirstOfShort
  <2>2. n - Len(s) \in 0 .. n
    BY <1>0, <1>1
  <2> QED BY <1>1, <2>1, <2>2, FirstOfConcat
<1>2. CASE Len(s) >= n
  <2>1. Len(First(n, s)) = n /\ n - Len(First(n, s)) = 0
    BY <1>0, <1>2 DEF Smaller
  <2>2. First(n, s \o t) = First(n, s)
    BY <1>2, FirstOfConcat
  <2>3. First(0, t) = <<>>
    <3>1. First(0, t) \in Seq(Byte) /\ Len(First(0, t)) = Smaller(0, Len(t))
      BY FirstProperties
    <3>2. Smaller(0, Len(t)) = 0
      BY <1>0 DEF Smaller
    <3> QED BY <3>1, <3>2, EmptySeq
  <2>4. First(n, s) \o <<>> = First(n, s)
    BY <1>0, ConcatEmptySeq
  <2>5. First(n - Len(First(n, s)), t) = <<>>
    BY <2>1, <2>3
  <2>6. n - Len(First(n, s)) \in 0 .. n
    BY <2>1
  <2> QED BY <2>2, <2>4, <2>5, <2>6
<1> QED BY <1>0, <1>1, <1>2

\* The beginning of a run is a run, that of a level is the level.
LEMMA FirstOfRepeat ==
    ASSUME NEW v \in Byte, NEW c \in Nat, NEW n \in Nat
    PROVE  /\ First(n, Repeat(v, c)) = Repeat(v, Smaller(c, n))
           /\ n >= 1 => First(n, <<v>>) = <<v>>
<1>1. Smaller(c, n) \in Nat /\ Smaller(n, c) = Smaller(c, n)
      /\ Smaller(c, n) <= c
  BY DEF Smaller
<1>2. /\ Repeat(v, c) \in Seq(Byte) /\ Len(Repeat(v, c)) = c
      /\ \A i \in 1 .. c : Repeat(v, c)[i] = v
  BY RepeatType
<1>3. /\ Repeat(v, Smaller(c, n)) \in Seq(Byte)
      /\ Len(Repeat(v, Smaller(c, n))) = Smaller(c, n)
      /\ \A i \in 1 .. Smaller(c, n) : Repeat(v, Smaller(c, n))[i] = v
  BY <1>1, RepeatType
<1>4. /\ First(n, Repeat(v, c)) \in Seq(Byte)
      /\ Len(First(n, Repeat(v, c))) = Smaller(n, c)
      /\ \A i \in 1 .. Smaller(n, c) :
            First(n, Repeat(v, c))[i] = Repeat(v, c)[i]
  BY <1>2, FirstProperties
<1>5. First(n, Repeat(v, c)) = Repeat(v, Smaller(c, n))
  <2>1. \A i \in 1 .. Smaller(c, n) :
           First(n, Repeat(v, c))[i] = Repeat(v, Smaller(c, n))[i]
    BY <1>1, <1>2, <1>3, <1>4
  <2> QED BY <1>1, <1>3, <1>4, <2>1, SameText
<1>6. n >= 1 => First(n, <<v>>) = <<v>>
  <2>1. <<v>> \in Seq(Byte) /\ Len(<<v>>) = 1
    OBVIOUS
  <2> QED BY <2>1, FirstOfShort
<1> QED BY <1>5, <1>6

\* A text lies in another one behind its first p bytes.
LiesAt(p, part, text) ==
    /\ p + Len(part) <= Len(text)
    /\ \A i \in 1 .. Len(part) : text[p + i] = part[i]

\* A text lies in what it is a part of, also if that lies in another one.
LEMMA LiesInside ==
    ASSUME NEW s \in Seq(Byte), NEW t \in Seq(Byte), NEW e \in Seq(Byte)
    PROVE  /\ LiesAt(0, s, s)
           /\ LiesAt(0, s, s \o t)
           /\ LiesAt(0, s \o t, e) => LiesAt(Len(s), t, e)
           /\ LiesAt(0, s, t) /\ LiesAt(0, t, e) => LiesAt(0, s, e)
<1>0. Len(s) \in Nat /\ Len(t) \in Nat /\ Len(e) \in Nat
  BY LenProperties
<1> DEFINE u == s \o t
<1>1. /\ Len(u) = Len(s) + Len(t)
      /\ \A i \in 1 .. Len(s) + Len(t) :
            u[i] = IF i <= Len(s) THEN s[i] ELSE t[i - Len(s)]
  BY ConcatProperties
<1> HIDE DEF u
<1>2. LiesAt(0, s, s)
  BY <1>0 DEF LiesAt
<1>3. LiesAt(0, s, u)
  BY <1>0, <1>1 DEF LiesAt
<1>4. ASSUME LiesAt(0, u, e)
      PROVE  LiesAt(Len(s), t, e)
  <2>1. ASSUME NEW i \in 1 .. Len(t)
        PROVE  e[Len(s) + i] = t[i]
    <3>1. /\ Len(s) + i \in 1 .. Len(s) + Len(t)
          /\ ~ (Len(s) + i <= Len(s)) /\ (Len(s) + i) - Len(s) = i
          /\ 0 + (Len(s) + i) = Len(s) + i
      BY <1>0
    <3>2. u[Len(s) + i] = t[i]
      BY <1>1, <3>1
    <3>3. e[0 + (Len(s) + i)] = u[Len(s) + i]
      BY <1>1, <1>4, <3>1 DEF LiesAt
    <3> QED BY <3>1, <3>2, <3>3
  <2>2. Len(s) + Len(t) <= Len(e)
    BY <1>0, <1>1, <1>4 DEF LiesAt
  <2> QED BY <2>1, <2>2 DEF LiesAt
<1>5. ASSUME LiesAt(0, s, t), LiesAt(0, t, e)
      PROVE  LiesAt(0, s, e)
  BY <1>0, <1>5 DEF LiesAt
<1> QED BY <1>2, <1>3, <1>4, <1>5 DEF u

\* The bytes of the first tokens are the first bytes.
LEMMA EncodedPrefix ==
    ASSUME NEW tokens \in Seq(Token), NEW k \in Nat, NEW m \in Nat,
           k <= m, m <= Len(tokens)
    PROVE  LiesAt(0, EncodedAll(tokens, k), EncodedAll(tokens, m))
<1> DEFINE E(j) == EncodedAll(tokens, j)
           D == {d \in Nat : k + d <= Len(tokens) =>
                                LiesAt(0, E(k), E(k + d))}
<1>0. Len(tokens) \in Nat /\ k <= Len(tokens)
  BY LenProperties
<1>1. \A j \in Nat : j <= Len(tokens) => E(j) \in Seq(Byte)
  BY TokensType
<1>2. \A j \in Nat : j < Len(tokens) =>
         /\ E(j + 1) = E(j) \o Encoded(tokens[j + 1])
         /\ Encoded(tokens[j + 1]) \in Seq(Byte)
  BY TokenStep, TokenType
<1> HIDE DEF E
<1>3. 0 \in D
  BY <1>0, <1>1, LiesInside
<1>4. ASSUME NEW d \in Nat, d \in D
      PROVE  d + 1 \in D
  <2> SUFFICES ASSUME k + (d + 1) <= Len(tokens)
               PROVE  LiesAt(0, E(k), E(k + (d + 1)))
    OBVIOUS
  <2>1. k + d \in Nat /\ k + d < Len(tokens) /\ k + d <= Len(tokens)
        /\ k + (d + 1) = k + d + 1
    BY <1>0
  <2> DEFINE s == E(k + d)
             t == Encoded(tokens[k + d + 1])
             r == E(k + (d + 1))
  <2>2. /\ E(k) \in Seq(Byte) /\ s \in Seq(Byte) /\ t \in Seq(Byte)
        /\ r = s \o t
    BY <1>0, <1>1, <1>2, <2>1
  <2>3. LiesAt(0, E(k), s)
    BY <1>4, <2>1
  <2> HIDE DEF s, t, r
  <2>4. LiesAt(0, s, r) /\ r \in Seq(Byte)
    BY <2>2, LiesInside, ConcatProperties
  <2>5. LiesAt(0, E(k), r)
    BY <2>2, <2>3, <2>4, LiesInside
  <2> QED BY <2>5 DEF r
<1>5. m - k \in D
  <2>1. m - k \in Nat
    OBVIOUS
  <2> HIDE DEF D
  <2> QED BY <1>3, <1>4, <2>1, Induction
<1>6. k + (m - k) = m
  OBVIOUS
<1> QED BY <1>5, <1>6 DEF E

\* There is a last token that fits into the receive buffer.
LEMMA FittingType ==
    ASSUME NEW tokens \in Seq(Token)
    PROVE  /\ Fitting(tokens) \in 0 .. Len(tokens)
           /\ Len(EncodedAll(tokens, Fitting(tokens))) <= ShownetRoom
           /\ Fitting(tokens) < Len(tokens) =>
                 Len(EncodedAll(tokens, Fitting(tokens) + 1)) > ShownetRoom
<1> DEFINE E(j) == EncodedAll(tokens, j)
           Beyond == {n \in 0 .. Len(tokens) :
                         n < Len(tokens) => Len(E(n + 1)) > ShownetRoom}
<1>0. Len(tokens) \in Nat /\ ShownetRoom \in Nat
  BY LenProperties, PacketsAssumption
<1>1. PICK n \in Beyond : \A m \in Beyond : n <= m
  <2>1. Beyond \in SUBSET Nat /\ Len(tokens) \in Beyond
    BY <1>0
  <2> HIDE DEF Beyond
  <2> QED BY <2>1, Least
<1>2. Len(E(n)) <= ShownetRoom
  <2>1. CASE n = 0
    <3>1. E(n) = <<>>
      BY <2>1, JoinedSteps DEF EncodedAll
    <3> HIDE DEF E
    <3> QED BY <1>0, <3>1, EmptySeq
  <2>2. CASE n # 0
    <3>1. /\ n - 1 \in 0 .. Len(tokens) /\ n - 1 < Len(tokens)
          /\ (n - 1) + 1 = n /\ n \in Nat /\ n <= Len(tokens)
      BY <1>0, <2>2
    <3>2. n - 1 \notin Beyond
      BY <1>1, <3>1
    <3>3. Len(E(n)) \in Nat
      BY <3>1, TokensType, LenProperties
    <3> HIDE DEF E
    <3> QED BY <1>0, <3>1, <3>2, <3>3
  <2> QED BY <2>1, <2>2
<1>3. n \in 0 .. Len(tokens) /\ (n < Len(tokens) => Len(E(n + 1)) > ShownetRoom)
  OBVIOUS
<1> QED BY <1>2, <1>3 DEF Fitting

\* Three texts can be put together from either end.
Together(s, t, u) == s \o (t \o u) = (s \o t) \o u

\* They always can.
LEMMA Associative == \A s, t, u \in Seq(Byte) : Together(s, t, u)
<1> TAKE s, t, u \in Seq(Byte)
<1>1. (s \o t) \o u = s \o (t \o u)
  BY ConcatAssociative
<1> QED BY <1>1 DEF Together

\* A token behind the first p bytes is decoded to its levels, as far as there
\* is room for them; what follows it is decoded into the room that is left.
DecodedToken(f, p, token, room) ==
    f[p + 1][room] =
      First(room, Meaning(token))
        \o f[p + Len(Encoded(token)) + 1]
            [room - Len(First(room, Meaning(token)))]

\* That is so of a token that arrived whole.
LEMMA DecodeToken ==
    ASSUME NEW e \in Seq(Byte), NEW R \in Nat, NEW f, Decodes(e, R, f),
           NEW token \in Token, NEW p \in Nat, NEW room \in 0 .. R,
           LiesAt(p, Encoded(token), e)
    PROVE  DecodedToken(f, p, token, room)
<1> USE DEF DecodedToken
<1> DEFINE b == Encoded(token)
           s == First(room, Meaning(token))
           q == p + Len(b) + 1
<1>0. Len(e) \in Nat /\ Len(b) \in 1 .. 3 /\ room \in Nat
      /\ p + Len(b) <= Len(e)
  BY LenProperties, TokenType DEF LiesAt
<1>1. /\ p + 1 \in 1 .. Len(e) /\ p + 1 \in 1 .. Len(e) + 3
      /\ q \in 1 .. Len(e) + 3
  <2>1. \A l \in 1 .. 3, L \in Nat : p + l <= L =>
           /\ p + 1 \in 1 .. L /\ p + 1 \in 1 .. L + 3
           /\ p + l + 1 \in 1 .. L + 3
    OBVIOUS
  <2> QED BY <1>0, <2>1, Zenon
<1>2. /\ s \in Seq(Byte) /\ Len(s) = Smaller(room, Len(Meaning(token)))
      /\ Len(Meaning(token)) \in Nat
  BY <1>0, TokenType, FirstProperties, LenProperties
<1>3. \A i \in 1 .. Len(e) + 3, r \in 0 .. R : DecodedFrom(e, f, i, r)
  BY DecodeCases
<1>4. CASE room = 0
  <2>1. Smaller(room, Len(Meaning(token))) = 0
    BY <1>2, <1>4 DEF Smaller
  <2>2. s = <<>> /\ Len(s) = 0
    BY <1>2, <2>1, EmptySeq
  <2>3. room - Len(s) = 0 /\ room - Len(s) \in 0 .. R
    BY <1>4, <2>2
  <2> HIDE DEF s, q
  <2>4. f[p + 1][room] = <<>> /\ f[q][room - Len(s)] = <<>>
    <3>1. 0 \in 0 .. R
      BY <1>4
    <3>2. \A i \in 1 .. Len(e) + 3 : f[i][0] = <<>>
      BY <1>3, <3>1, Zenon DEF DecodedFrom
    <3> QED BY <1>1, <1>4, <2>3, <3>2
  <2>5. <<>> \o <<>> = <<>>
    BY EmptySeq, ConcatEmptySeq
  <2>6. f[p + 1][room] = s \o f[q][room - Len(s)]
    BY <2>2, <2>4, <2>5
  <2> QED BY <2>6 DEF s, q
<1>5. CASE room # 0 /\ token.run
  <2>1. /\ Len(b) = 3 /\ b[1] = Marker /\ b[2] = token.count
        /\ b[3] = token.value /\ token.count \in Nat
        /\ token.value \in Byte
        /\ Meaning(token) = Repeat(token.value, token.count)
    BY <1>5, TokenType
  <2>2. /\ e[p + 1] = Marker
        /\ e[(p + 1) + 1] = token.count /\ e[(p + 1) + 2] = token.value
    <3>1. /\ e[p + 1] = b[1] /\ e[p + 2] = b[2] /\ e[p + 3] = b[3]
      BY <2>1 DEF LiesAt
    <3>2. (p + 1) + 1 = p + 2 /\ (p + 1) + 2 = p + 3
      OBVIOUS
    <3> HIDE DEF b
    <3> QED BY <2>1, <3>1, <3>2
  <2>3. (p + 1) + 2 <= Len(e) /\ q = (p + 1) + 3
    BY <1>0, <2>1
  <2>4. OpensRun(e, p + 1)
    BY <2>2, <2>3 DEF OpensRun
  <2>5. f[p + 1][room] = Repeat(token.value, Smaller(token.count, room))
                           \o f[q][room - Smaller(token.count, room)]
    <3>1. /\ p + 1 <= Len(e) /\ p + 1 \in 1 .. Len(e) + 3
          /\ room \in 0 .. R /\ room # 0
      BY <1>1, <1>5
    <3>2. f[p + 1][room] =
            Repeat(e[(p + 1) + 2], Smaller(e[(p + 1) + 1], room))
              \o f[(p + 1) + 3][room - Smaller(e[(p + 1) + 1], room)]
      BY <1>3, <2>4, <3>1, Zenon DEF DecodedFrom
    <3> HIDE DEF b, q
    <3> QED BY <2>2, <2>3, <3>2, Zenon
  <2>6. s = Repeat(token.value, Smaller(token.count, room))
    <3>1. \A v \in Byte, c \in Nat, n \in Nat :
             First(n, Repeat(v, c)) = Repeat(v, Smaller(c, n))
      BY FirstOfRepeat
    <3>2. /\ token.value \in Byte /\ token.count \in Nat /\ room \in Nat
          /\ Meaning(token) = Repeat(token.value, token.count)
      BY <1>0, <2>1
    <3> QED BY <3>1, <3>2, Zenon
  <2>7. Smaller(token.count, room) \in Nat
    BY <1>0, <2>1 DEF Smaller
  <2>8. Len(s) = Smaller(token.count, room)
    <3>1. \A v \in Byte, c \in Nat : Len(Repeat(v, c)) = c
      BY RepeatType
    <3> HIDE DEF s
    <3> QED BY <2>1, <2>6, <2>7, <3>1, Zenon
  <2> QED BY <2>5, <2>6, <2>8
<1>6. CASE room # 0 /\ ~ token.run
  <2>1. /\ Len(b) = 1 /\ b[1] = token.value /\ token.value # Marker
        /\ token.value \in Byte /\ Meaning(token) = <<token.value>>
    BY <1>6, TokenType
  <2>2. e[p + 1] = token.value
    <3>1. e[p + 1] = b[1]
      BY <2>1 DEF LiesAt
    <3> QED BY <2>1, <3>1
  <2>3. ~ OpensRun(e, p + 1) /\ p + 1 <= Len(e) /\ q = (p + 1) + 1
    BY <1>0, <1>1, <2>1, <2>2 DEF OpensRun
  <2>4. f[p + 1][room] = <<token.value>> \o f[q][room - 1]
    <3>1. p + 1 \in 1 .. Len(e) + 3 /\ room \in 0 .. R /\ room # 0
      BY <1>1, <1>6
    <3>2. f[p + 1][room] = <<e[p + 1]>> \o f[(p + 1) + 1][room - 1]
      BY <1>3, <2>3, <3>1, Zenon DEF DecodedFrom
    <3> HIDE DEF b, q
    <3> QED BY <2>2, <2>3, <3>2, Zenon
  <2>5. s = <<token.value>>
    BY <1>0, <1>6, <2>1, FirstOfRepeat
  <2>6. Len(s) = 1
    BY <2>5
  <2> QED BY <2>4, <2>5, <2>6
<1> QED BY <1>4, <1>5, <1>6

\* So are tokens one behind the other.
LEMMA DecodeTokens ==
    ASSUME NEW e \in Seq(Byte), NEW R \in Nat, NEW f, Decodes(e, R, f),
           NEW tokens \in Seq(Token), NEW n \in Nat, n <= Len(tokens),
           LiesAt(0, EncodedAll(tokens, n), e)
    PROVE  /\ R - Len(First(R, MeaningAll(tokens, n))) \in 0 .. R
           /\ f[1][R] =
                First(R, MeaningAll(tokens, n))
                  \o f[Len(EncodedAll(tokens, n)) + 1]
                      [R - Len(First(R, MeaningAll(tokens, n)))]
<1> DEFINE E(k) == EncodedAll(tokens, k)
           M(k) == MeaningAll(tokens, k)
           F(k) == First(R, M(k))
           Holds(k) ==
               /\ R - Len(F(k)) \in 0 .. R
               /\ f[1][R] = F(k) \o f[Len(E(k)) + 1][R - Len(F(k))]
           D == {k \in Nat : k <= n => Holds(k)}
<1>0. Len(tokens) \in Nat /\ Len(e) \in Nat
  BY LenProperties
<1>1. ASSUME NEW k \in Nat, k <= n
      PROVE  /\ E(k) \in Seq(Byte) /\ M(k) \in Seq(Byte)
             /\ F(k) \in Seq(Byte) /\ Len(E(k)) \in Nat
             /\ LiesAt(0, E(k), e)
  <2>1. k <= Len(tokens)
    BY <1>0, <1>1
  <2>2. E(k) \in Seq(Byte) /\ M(k) \in Seq(Byte) /\ Len(E(k)) \in Nat
    BY <2>1, TokensType, LenProperties
  <2>3. F(k) \in Seq(Byte)
    BY <2>2, FirstProperties
  <2>4. LiesAt(0, E(k), E(n)) /\ LiesAt(0, E(n), e) /\ E(n) \in Seq(Byte)
    BY <1>1, EncodedPrefix, TokensType
  <2> HIDE DEF E, F, M
  <2> QED BY <2>2, <2>3, <2>4, LiesInside
<1>2. Holds(0)
  <2>1. E(0) = <<>> /\ M(0) = <<>>
    BY JoinedSteps DEF EncodedAll, MeaningAll
  <2>2. Len(<<>>) = 0 /\ <<>> \in Seq(Byte)
    BY EmptySeq
  <2>3. F(0) = <<>>
    <3> HIDE DEF M, E
    <3>1. M(0) \in Seq(Byte) /\ Len(M(0)) = 0
      BY <2>1, <2>2, Zenon
    <3>2. Len(M(0)) <= R
      BY <3>1
    <3>3. First(R, M(0)) = M(0)
      BY <3>1, <3>2, FirstOfShort
    <3> QED BY <2>1, <3>3, Zenon
  <2> HIDE DEF E, F, M
  <2>4. Len(F(0)) = 0 /\ Len(E(0)) + 1 = 1
    BY <2>1, <2>2, <2>3
  <2>5. 1 \in 1 .. Len(e) + 3 /\ R \in 0 .. R /\ R - Len(F(0)) = R
    BY <1>0, <2>4
  <2>6. f[1][R] \in Seq(Byte)
    BY <2>5, DecodedType
  <2>7. f[1][R] = <<>> \o f[1][R]
    BY <2>6, ConcatEmptySeq
  <2> QED BY <2>3, <2>4, <2>5, <2>7
<1>3. ASSUME NEW k \in Nat, Holds(k), k + 1 <= n
      PROVE  Holds(k + 1)
  <2> DEFINE token == tokens[k + 1]
             b == Encoded(token)
             t == Meaning(token)
             p == Len(E(k))
             r == R - Len(F(k))
             s == First(r, t)
             rest == f[p + Len(b) + 1][r - Len(s)]
  <2>1. k <= n /\ k < Len(tokens) /\ k + 1 \in Nat
    BY <1>0, <1>3
  <2>2. /\ token \in Token /\ E(k + 1) = E(k) \o b /\ M(k + 1) = M(k) \o t
    BY <2>1, TokenStep
  <2>3. b \in Seq(Byte) /\ t \in Seq(Byte) /\ Len(b) \in Nat
    BY <2>2, TokenType, LenProperties
  <2>4. r \in 0 .. R /\ r \in Nat
    BY <1>3
  <2>5. f[1][R] = F(k) \o f[p + 1][r]
    BY <1>3
  <2>6. /\ E(k) \in Seq(Byte) /\ M(k) \in Seq(Byte) /\ F(k) \in Seq(Byte)
        /\ p \in Nat
    BY <1>1, <2>1
  <2> HIDE DEF Holds, E
  <2>7. LiesAt(p, b, e)
    <3>1. LiesAt(0, E(k) \o b, e)
      BY <1>1, <1>3, <2>1, <2>2
    <3> HIDE DEF b
    <3> QED BY <2>3, <2>6, <3>1, LiesInside
  <2>8. Len(E(k + 1)) = p + Len(b) /\ p + Len(b) <= Len(e)
    <3>1. Len(E(k) \o b) = Len(E(k)) + Len(b)
      BY <2>3, <2>6, ConcatProperties
    <3> HIDE DEF b
    <3> QED BY <2>2, <2>7, <3>1 DEF LiesAt
  <2>9. f[p + 1][r] = s \o rest
    <3>1. DecodedToken(f, p, token, r)
      <4> HIDE DEF p, r, token
      <4> QED BY <2>2, <2>4, <2>6, <2>7, DecodeToken
    <3> HIDE DEF p, r, token
    <3> QED BY <3>1, Zenon DEF DecodedToken
  <2>10. s \in Seq(Byte) /\ Len(s) \in Nat /\ r - Len(s) \in 0 .. r
    <3> HIDE DEF r, t
    <3>1. s \in Seq(Byte) /\ Len(s) = Smaller(r, Len(t)) /\ Len(t) \in Nat
      BY <2>3, <2>4, FirstProperties, LenProperties
    <3> HIDE DEF s
    <3> QED BY <2>4, <3>1 DEF Smaller
  <2>11. F(k + 1) = F(k) \o s
    <3>1. First(R, M(k) \o t) = F(k) \o s
      <4> HIDE DEF M, t
      <4> QED BY <2>3, <2>6, FirstSplits
    <3> HIDE DEF M, t, s
    <3> QED BY <2>2, <3>1
  <2> HIDE DEF F, s
  <2>12. Len(F(k + 1)) = Len(F(k)) + Len(s) /\ Len(F(k)) \in Nat
    <3>1. Len(F(k) \o s) = Len(F(k)) + Len(s)
      BY <2>6, <2>10, ConcatProperties
    <3> QED BY <2>6, <2>11, <3>1, LenProperties
  <2>13. R - Len(F(k + 1)) = r - Len(s) /\ r - Len(s) \in 0 .. R
    <3>1. \A a, l \in Nat : R - a \in 0 .. R /\ (R - a) - l \in 0 .. (R - a)
             => /\ R - (a + l) = (R - a) - l
                /\ (R - a) - l \in 0 .. R
      OBVIOUS
    <3> QED BY <2>4, <2>10, <2>12, <3>1, Zenon
  <2>14. rest \in Seq(Byte)
    <3>1. p + Len(b) + 1 \in 1 .. Len(e) + 3
      <4> HIDE DEF p, b
      <4> QED BY <1>0, <2>3, <2>6, <2>8
    <3> HIDE DEF p, b, r
    <3> QED BY <2>13, <3>1, DecodedType
  <2> HIDE DEF p, b, r
  <2>15. rest = f[Len(E(k + 1)) + 1][R - Len(F(k + 1))]
    BY <2>8, <2>13
  <2> HIDE DEF rest
  <2>16. F(k) \o (s \o rest) = (F(k) \o s) \o rest
    <3>1. F(k) \in Seq(Byte) /\ s \in Seq(Byte) /\ rest \in Seq(Byte)
      BY <2>6, <2>10, <2>14
    <3>2. Together(F(k), s, rest)
      BY <3>1, Associative
    <3> QED BY <3>2 DEF Together
  <2>17. f[1][R] = F(k + 1) \o rest
    BY <2>5, <2>9, <2>11, <2>16
  <2> QED BY <2>13, <2>15, <2>17 DEF Holds
<1>4. n \in D
  <2> HIDE DEF Holds
  <2>1. ASSUME NEW k \in Nat, k \in D
        PROVE  k + 1 \in D
    <3> SUFFICES ASSUME k + 1 <= n
                 PROVE  Holds(k + 1)
      OBVIOUS
    <3>1. k <= n
      OBVIOUS
    <3> QED BY <1>3, <2>1, <3>1
  <2>2. 0 \in D
    BY <1>2
  <2> HIDE DEF D
  <2> QED BY <2>1, <2>2, Induction
<1> QED BY <1>4

\* At the end of the input there is nothing to decode, and before it two bytes
\* of a run that was cut.
LEMMA DecodeTail ==
    ASSUME NEW e \in Seq(Byte), NEW R \in Nat, NEW f,
           Decodes(e, R, f),
           NEW j \in 1 .. Len(e) + 3, NEW room \in 0 .. R
    PROVE  /\ j > Len(e) \/ room = 0 => f[j][room] = <<>>
           /\ j > Len(e) - 2 => Len(f[j][room]) <= 2
<1>0. Len(e) \in Nat
  BY LenProperties
<1> DEFINE Short(m) == \A i \in 1 .. Len(e) + 3, r \in 0 .. R :
                          i > Len(e) - m => Len(f[i][r]) <= m
<1>1. \A i \in 1 .. Len(e) + 3, r \in 0 .. R : DecodedFrom(e, f, i, r)
  BY DecodeCases
<1>2. Short(0)
  <2> SUFFICES ASSUME NEW i \in 1 .. Len(e) + 3, NEW r \in 0 .. R,
                      i > Len(e) - 0
               PROVE  Len(f[i][r]) <= 0
    OBVIOUS
  <2>1. i > Len(e)
    BY <1>0
  <2>2. f[i][r] = <<>>
    BY <1>1, <2>1, Zenon DEF DecodedFrom
  <2> QED BY <2>2, EmptySeq
<1>3. ASSUME NEW m \in 0 .. 1, Short(m)
      PROVE  Short(m + 1)
  <2> SUFFICES ASSUME NEW i \in 1 .. Len(e) + 3, NEW r \in 0 .. R,
                      i > Len(e) - (m + 1)
               PROVE  Len(f[i][r]) <= m + 1
    OBVIOUS
  <2>1. CASE i > Len(e) \/ r = 0
    <3>1. f[i][r] = <<>>
      BY <1>1, <2>1, Zenon DEF DecodedFrom
    <3> QED BY <3>1, EmptySeq
  <2>2. CASE i <= Len(e) /\ r # 0
    <3> DEFINE rest == f[i + 1][r - 1]
    <3>1. /\ i \in 1 .. Len(e) /\ i + 1 \in 1 .. Len(e) + 3
          /\ i + 1 > Len(e) - m /\ r - 1 \in 0 .. R
          /\ ~ (i + 2 <= Len(e))
      BY <1>0, <2>2
    <3>2. f[i][r] = <<e[i]>> \o rest
      <4>1. ~ OpensRun(e, i)
        BY <3>1 DEF OpensRun
      <4> QED BY <1>1, <2>2, <4>1, Zenon DEF DecodedFrom
    <3>3. rest \in Seq(Byte)
      BY <3>1, DecodedType
    <3>4. Len(rest) <= m
      BY <1>3, <3>1
    <3>5. e[i] \in Byte
      BY <3>1, ElementOfSeq
    <3> HIDE DEF rest
    <3>6. <<e[i]>> \in Seq(Byte) /\ Len(<<e[i]>>) = 1
      BY <3>5
    <3>7. Len(f[i][r]) = 1 + Len(rest) /\ Len(rest) \in Nat
      BY <3>2, <3>3, <3>6, ConcatProperties, LenProperties
    <3> QED BY <3>4, <3>7
  <2> QED BY <1>0, <2>1, <2>2
<1>4. Short(2)
  <2>1. 0 + 1 = 1 /\ 1 + 1 = 2 /\ 0 \in 0 .. 1 /\ 1 \in 0 .. 1
    OBVIOUS
  <2> HIDE DEF Short
  <2> QED BY <1>2, <1>3, <2>1
<1>5. j > Len(e) \/ room = 0 => f[j][room] = <<>>
  BY <1>1, Zenon DEF DecodedFrom
<1> QED BY <1>4, <1>5

\* What RunsDecoded says of the levels made of an encoding.
DecodedAs(tokens, data) ==
    LET n == Fitting(tokens)
        plain == MeaningAll(tokens, n)
        levels == Len(data)
    IN  /\ First(Len(plain), data) = First(FrameSize, plain)
        /\ levels <= Len(First(FrameSize, plain)) + 2
        /\ n = Len(tokens) => levels <= Len(plain)

\* The bytes that arrive hold the tokens that fit whole, and less than a token
\* behind them.
LEMMA Arrived ==
    ASSUME NEW tokens \in Seq(Token) \ {<<>>}
    PROVE  LET n == Fitting(tokens)
               fits == EncodedAll(tokens, n)
               e == First(ShownetRoom, EncodedAll(tokens, Len(tokens)))
           IN  /\ e \in Seq(Byte) /\ Len(e) >= 1
               /\ LiesAt(0, fits, e)
               /\ Len(fits) + 1 > Len(e) - 2
               /\ n = Len(tokens) => Len(fits) + 1 > Len(e)
<1> DEFINE E(k) == EncodedAll(tokens, k)
           n == Fitting(tokens)
           N == Len(tokens)
           e == First(ShownetRoom, E(N))
<1>1. /\ N \in Nat /\ N >= 1 /\ tokens \in Seq(Token)
      /\ ShownetRoom \in Nat /\ ShownetRoom >= 1
  BY EmptySeq, PacketsAssumption
<1>2. /\ n \in 0 .. N /\ Len(E(n)) <= ShownetRoom
      /\ n < N => Len(E(n + 1)) > ShownetRoom
  BY FittingType
<1>3. ASSUME NEW k \in Nat, k <= N
      PROVE  E(k) \in Seq(Byte) /\ Len(E(k)) \in Nat /\ LiesAt(0, E(k), E(N))
  BY <1>1, <1>3, TokensType, LenProperties, EncodedPrefix
<1>4. ASSUME NEW k \in Nat, k < N
      PROVE  /\ Len(E(k + 1)) <= Len(E(k)) + 3
             /\ Len(E(k + 1)) >= Len(E(k)) + 1
  <2> DEFINE b == Encoded(tokens[k + 1])
  <2>1. E(k + 1) = E(k) \o b /\ b \in Seq(Byte) /\ Len(b) \in 1 .. 3
    <3>1. tokens[k + 1] \in Token /\ E(k + 1) = E(k) \o b
      BY <1>1, <1>4, TokenStep
    <3>2. b \in Seq(Byte) /\ (Len(b) = 3 \/ Len(b) = 1)
      <4>1. \A token \in Token :
               /\ Encoded(token) \in Seq(Byte)
               /\ Len(Encoded(token)) = 3 \/ Len(Encoded(token)) = 1
        BY TokenType
      <4> QED BY <3>1, <4>1, Zenon
    <3> HIDE DEF b
    <3> QED BY <3>1, <3>2
  <2>2. E(k) \in Seq(Byte) /\ Len(E(k)) \in Nat
    BY <1>1, <1>3, <1>4
  <2> HIDE DEF b, E
  <2>3. Len(E(k) \o b) = Len(E(k)) + Len(b)
    BY <2>1, <2>2, ConcatProperties
  <2>4. Len(E(k + 1)) = Len(E(k)) + Len(b)
    BY <2>1, <2>3
  <2>5. \A l \in Nat, m \in 1 .. 3 : l + m <= l + 3 /\ l + m >= l + 1
    OBVIOUS
  <2> QED BY <2>1, <2>2, <2>4, <2>5, Zenon
<1> HIDE DEF n, N, E
<1>5. /\ e \in Seq(Byte) /\ Len(e) = Smaller(ShownetRoom, Len(E(N)))
      /\ Len(E(N)) \in Nat
      /\ \A i \in 1 .. Len(e) : e[i] = E(N)[i]
  BY <1>1, <1>3, FirstProperties
<1>6. Len(E(N)) >= 1
  <2>1. Len(E(0 + 1)) >= Len(E(0)) + 1 /\ 0 + 1 = 1
        /\ Len(E(0)) \in Nat /\ Len(E(1)) \in Nat
        /\ LiesAt(0, E(1), E(N))
    BY <1>1, <1>3, <1>4
  <2>2. Len(E(1)) <= Len(E(N))
    BY <1>5, <2>1 DEF LiesAt
  <2> QED BY <1>5, <2>1, <2>2
<1>7. Len(e) >= 1
  <2> HIDE DEF e
  <2> QED BY <1>1, <1>5, <1>6 DEF Smaller
<1>8. n \in Nat /\ n <= N
  BY <1>1, <1>2
<1>9. E(n) \in Seq(Byte) /\ Len(E(n)) \in Nat /\ LiesAt(0, E(n), E(N))
  BY <1>3, <1>8
<1>10. LiesAt(0, E(n), e)
  <2> HIDE DEF e
  <2>1. Len(E(n)) <= Len(E(N)) /\ \A i \in 1 .. Len(E(n)) : E(N)[i] = E(n)[i]
    BY <1>5, <1>9 DEF LiesAt
  <2>2. Len(E(n)) <= Len(e) /\ Len(e) \in Nat
    BY <1>1, <1>2, <1>5, <1>9, <2>1 DEF Smaller
  <2>3. \A i \in 1 .. Len(E(n)) : e[i] = E(n)[i]
    BY <1>5, <1>9, <2>1, <2>2
  <2> QED BY <1>9, <2>2, <2>3 DEF LiesAt
<1>11. Len(E(n)) + 1 > Len(e) - 2 /\ (n = N => Len(E(n)) + 1 > Len(e))
  <2> HIDE DEF e
  <2>1. CASE n = N
    BY <1>1, <1>5, <1>9, <2>1 DEF Smaller
  <2>2. CASE n < N
    <3>1. Len(E(n + 1)) > ShownetRoom /\ Len(E(n + 1)) <= Len(E(n)) + 3
          /\ Len(E(n + 1)) \in Nat
      BY <1>1, <1>2, <1>3, <1>4, <1>8, <2>2
    <3>2. Len(e) <= ShownetRoom /\ Len(e) \in Nat
      BY <1>1, <1>5 DEF Smaller
    <3> QED BY <1>1, <1>9, <2>2, <3>1, <3>2
  <2> QED BY <1>1, <1>8, <2>1, <2>2
<1> QED BY <1>5, <1>7, <1>10, <1>11 DEF n, N, E

\* They are decoded to what the tokens mean.
LEMMA EncodingDecoded ==
    ASSUME NEW tokens \in Seq(Token) \ {<<>>}
    PROVE  LET e == First(ShownetRoom, EncodedAll(tokens, Len(tokens)))
           IN  DecodedAs(tokens, shownet_decode_rle(e, FrameSize))
<1> DEFINE n == Fitting(tokens)
           fits == EncodedAll(tokens, n)
           plain == MeaningAll(tokens, n)
           e == First(ShownetRoom, EncodedAll(tokens, Len(tokens)))
           R == FrameSize
           s == First(R, plain)
           data == shownet_decode_rle(e, R)
<1> SUFFICES DecodedAs(tokens, data)
  OBVIOUS
<1>0. /\ n \in Nat /\ n <= Len(tokens) /\ tokens \in Seq(Token)
      /\ R \in Nat /\ fits \in Seq(Byte) /\ Len(fits) \in Nat
      /\ plain \in Seq(Byte) /\ Len(plain) \in Nat
  <2>1. n \in 0 .. Len(tokens) /\ tokens \in Seq(Token) /\ Len(tokens) \in Nat
        /\ R \in Nat
    BY FittingType, LenProperties, PacketsAssumption
  <2> HIDE DEF n
  <2>2. n \in Nat /\ n <= Len(tokens)
    BY <2>1
  <2> QED BY <2>1, <2>2, TokensType, LenProperties
<1>1. /\ e \in Seq(Byte) /\ LiesAt(0, fits, e)
      /\ Len(fits) + 1 > Len(e) - 2
      /\ n = Len(tokens) => Len(fits) + 1 > Len(e)
  BY Arrived
<1> HIDE DEF n, e
<1>2. PICK f : Decodes(e, R, f) /\ data = f[1][R]
  BY <1>0, <1>1, DecodeUnfolds
<1> DEFINE room == R - Len(s)
           tail == f[Len(fits) + 1][room]
<1>3. room \in 0 .. R /\ data = s \o tail
  BY <1>0, <1>1, <1>2, DecodeTokens
<1>4. /\ s \in Seq(Byte) /\ Len(s) = Smaller(R, Len(plain))
      /\ Len(s) \in Nat
  BY <1>0, FirstProperties, LenProperties
<1>5. Len(fits) + 1 \in 1 .. Len(e) + 3
  <2>1. Len(fits) <= Len(e) /\ Len(e) \in Nat
    BY <1>0, <1>1, LenProperties DEF LiesAt
  <2> HIDE DEF fits
  <2> QED BY <1>0, <2>1
<1> HIDE DEF fits, plain
<1>6. /\ tail \in Seq(Byte) /\ Len(tail) \in Nat /\ Len(tail) <= 2
      /\ Len(fits) + 1 > Len(e) \/ room = 0 => tail = <<>>
  <2> HIDE DEF room
  <2>1. tail \in Seq(Byte)
    BY <1>0, <1>1, <1>2, <1>3, <1>5, DecodedType
  <2>2. /\ Len(fits) + 1 > Len(e) \/ room = 0 => tail = <<>>
        /\ Len(fits) + 1 > Len(e) - 2 => Len(tail) <= 2
    BY <1>0, <1>1, <1>2, <1>3, <1>5, DecodeTail
  <2> QED BY <1>1, <2>1, <2>2, LenProperties
<1> HIDE DEF s, tail
<1>7. Len(data) = Len(s) + Len(tail)
  <2>1. Len(s \o tail) = Len(s) + Len(tail)
    BY <1>4, <1>6, ConcatProperties
  <2> HIDE DEF data
  <2> QED BY <1>3, <2>1
<1> HIDE DEF data
<1>8. ASSUME First(Len(plain), data) = s, Len(data) <= Len(s) + 2,
              n = Len(tokens) => Len(data) <= Len(plain)
       PROVE  DecodedAs(tokens, data)
  BY <1>8, Zenon DEF DecodedAs, n, plain, s
<1>9. CASE Len(plain) <= R
  <2>1. s = plain
    BY <1>0, <1>9, FirstOfShort DEF s
  <2>2. First(Len(plain), plain \o tail) = First(Len(plain), plain)
    BY <1>0, <1>6, FirstOfConcat
  <2>3. First(Len(plain), plain) = plain
    BY <1>0, FirstOfShort
  <2>4. First(Len(plain), data) = s
    BY <1>3, <2>1, <2>2, <2>3
  <2>5. n = Len(tokens) => Len(tail) = 0
    BY <1>1, <1>6, EmptySeq
  <2>6. Len(data) <= Len(s) + 2
    BY <1>4, <1>6, <1>7
  <2>7. n = Len(tokens) => Len(data) <= Len(plain)
    BY <1>0, <1>4, <1>7, <2>1, <2>5
  <2> QED BY <1>8, <2>4, <2>6, <2>7, Zenon
<1>10. CASE Len(plain) > R
  <2>1. Len(s) = R /\ room = 0
    BY <1>0, <1>4, <1>10 DEF Smaller
  <2>2. tail = <<>> /\ Len(tail) = 0
    BY <1>6, <2>1, EmptySeq
  <2>3. data = s /\ Len(data) = R
    BY <1>3, <1>4, <1>7, <2>1, <2>2, ConcatEmptySeq
  <2>4. First(Len(plain), s) = s
    BY <1>0, <1>4, <1>10, <2>1, FirstOfShort
  <2>5. First(Len(plain), data) = s
    BY <2>3, <2>4
  <2>6. Len(data) <= Len(s) + 2 /\ Len(data) <= Len(plain)
    BY <1>0, <1>10, <2>1, <2>3
  <2> QED BY <1>8, <2>5, <2>6, Zenon
<1> QED BY <1>0, <1>9, <1>10

\* A console's encoded frame.
LEMMA EncodedUnderstood ==
    ASSUME NEW slot \in Number, NEW tokens \in Encoding
    PROVE  DecodedAs(tokens,
             Parsed([protocol |-> "shownet", whole |-> TRUE,
                     net_slot |-> slot,
                     slot_count |-> Len(MeaningAll(tokens, Len(tokens))),
                     rle |-> TRUE,
                     data |-> EncodedAll(tokens, Len(tokens))]).data)
<1> DEFINE bytes == EncodedAll(tokens, Len(tokens))
           d == [protocol |-> "shownet", whole |-> TRUE, net_slot |-> slot,
                 slot_count |-> Len(MeaningAll(tokens, Len(tokens))),
                 rle |-> TRUE, data |-> bytes]
           e == First(ShownetRoom, bytes)
           in_buf == [d EXCEPT !.data = First(ShownetRoom, @)]
<1>1. tokens \in Seq(Token) \ {<<>>}
  BY PacketsAssumption
<1>2. Len(e) >= 1
  BY <1>1, Arrived
<1>3. DecodedAs(tokens, shownet_decode_rle(e, FrameSize))
  BY <1>1, EncodingDecoded
<1> HIDE DEF bytes
<1>4. d.protocol = "shownet" /\ d.whole /\ in_buf.data = e /\ in_buf.rle
  OBVIOUS
<1>5. Parsed(d) = shownet_receive(d)
  BY <1>4 DEF Parsed
<1>6. shownet_receive(d).data = shownet_data(in_buf)
  <2> HIDE DEF e
  <2> QED BY <1>2, <1>4 DEF shownet_receive
<1> HIDE DEF in_buf, e
<1>7. shownet_data(in_buf) = shownet_decode_rle(e, FrameSize)
  BY <1>4 DEF shownet_data
<1>8. DecodedAs(tokens, Parsed(d).data)
  BY <1>3, <1>5, <1>6, <1>7
<1> QED BY <1>8 DEF bytes

(***************************************************************************)
(* The invariant: an encoding under way will be decoded to what it means,  *)
(* and one that was received has been.                                     *)
(***************************************************************************)

Decoded ==
    /\ wire # None /\ meant.protocol = "encoded" =>
          DecodedAs(meant.tokens, Parsed(wire).data)
    /\ got # None /\ meant.protocol = "encoded" =>
          DecodedAs(meant.tokens, got.data)
    /\ wire = None \/ got = None

\* Nothing has been sent at the start.
LEMMA DecodedInit == Init => Decoded
  BY DEF Init, Decoded, Unclear

\* Every step keeps it so.
LEMMA DecodedStep == Decoded /\ [Next]_vars => Decoded'
<1> SUFFICES ASSUME Decoded, [Next]_vars PROVE Decoded'
  OBVIOUS
<1>1. ASSUME NEW d, NEW m, Hand(d, m), Ready,
             m.protocol = "encoded" => DecodedAs(m.tokens, Parsed(d).data)
      PROVE  Decoded'
  <2>1. wire' = d /\ meant' = m /\ got' = None
    BY <1>1 DEF Hand, Ready
  <2>2. Parsed(wire)' = Parsed(d)
    BY <2>1 DEF Parsed, sacn_receive, artnet_receive, shownet_receive
  <2>3. m.protocol = "encoded" =>
           DecodedAs(meant.tokens, Parsed(wire).data)'
    BY <1>1, <2>1, <2>2 DEF DecodedAs
  <2> QED BY <2>1, <2>3 DEF Decoded
<1>2. CASE SendSacn
  <2> PICK tx \in sacn_tx_t, frame \in Frame :
           Hand(sacn_tx_build_packet(tx, frame),
                [protocol |-> "sacn", universe |-> tx.universe,
                 priority |-> tx.priority, sequence |-> tx.sequence,
                 start_code |-> 0, data |-> frame])
    BY <1>2 DEF SendSacn
  <2> QED BY <1>1, <1>2 DEF SendSacn
<1>3. CASE SendArtDmx
  <2> PICK u \in Number, frame \in Frame, padding \in Padding :
           Hand([protocol |-> "artnet", whole |-> TRUE, magic_ok |-> TRUE,
                 opcode |-> "dmx", universe |-> u, length |-> Len(frame),
                 data |-> frame \o padding],
                [protocol |-> "artnet", universe |-> u, data |-> frame])
    BY <1>3 DEF SendArtDmx, Padding
  <2> QED BY <1>1, <1>3 DEF SendArtDmx
<1>4. CASE SendShownet
  <2> PICK slot \in Number, frame \in Frame \ {<<>>} :
           Hand([protocol |-> "shownet", whole |-> TRUE, net_slot |-> slot,
                 slot_count |-> Len(frame), rle |-> FALSE, data |-> frame],
                [protocol |-> "shownet", net_slot |-> slot, data |-> frame])
    BY <1>4 DEF SendShownet
  <2> QED BY <1>1, <1>4 DEF SendShownet
<1>5. CASE SendEncoded
  <2> PICK slot \in Number, tokens \in Encoding :
           Hand([protocol |-> "shownet", whole |-> TRUE, net_slot |-> slot,
                 slot_count |-> Len(MeaningAll(tokens, Len(tokens))),
                 rle |-> TRUE, data |-> EncodedAll(tokens, Len(tokens))],
                [protocol |-> "encoded", net_slot |-> slot,
                 tokens |-> tokens])
    BY <1>5 DEF SendEncoded
  <2> QED BY <1>1, <1>5, EncodedUnderstood DEF SendEncoded
<1>6. CASE SendAnything
  <2> PICK d \in SacnDatagram \cup ArtnetDatagram \cup ShownetDatagram :
           Hand(d, Unclear)
    BY <1>6 DEF SendAnything
  <2> QED BY <1>1, <1>6 DEF SendAnything, Unclear
<1>7. CASE Receive
  <2>1. got' = Parsed(wire) /\ wire' = None /\ meant' = meant /\ wire # None
    BY <1>7 DEF Receive
  <2>2. meant.protocol = "encoded" => DecodedAs(meant.tokens, got.data)'
    BY <2>1 DEF Decoded, DecodedAs
  <2> QED BY <2>1, <2>2 DEF Decoded
<1>8. CASE Handled
  BY <1>8 DEF Handled, Decoded, Unclear
<1>9. CASE UNCHANGED vars
  BY <1>9 DEF vars, Decoded, DecodedAs, Parsed, sacn_receive,
              artnet_receive, shownet_receive
<1>10. CASE SendPoll
  <2> PICK longer \in BOOLEAN :
           Hand([protocol |-> "artnet", whole |-> longer, magic_ok |-> TRUE,
                 opcode |-> "poll", universe |-> 0, length |-> 0,
                 data |-> <<>>],
                [protocol |-> "poll"])
    BY <1>10 DEF SendPoll
  <2> QED BY <1>1, <1>10 DEF SendPoll
<1> QED
  BY <1>2, <1>3, <1>4, <1>5, <1>6, <1>7, <1>8, <1>9, <1>10
     DEF Next

\* Every run-length encoding of a frame is decoded to what it means, up to a
\* full universe; one that is longer than the receive buffer loses the tokens
\* that did not fit, and gains at most two levels.
THEOREM RunsAreDecoded == Spec => []RunsDecoded
<1>1. Decoded => RunsDecoded
  BY DEF Decoded, RunsDecoded, DecodedAs
<1> QED BY <1>1, DecodedInit, DecodedStep, PTL DEF Spec
=============================================================================
