------------------------------ MODULE Packets -------------------------------
(***************************************************************************)
(* The datagrams of the three protocols: what sacn_receive,                *)
(* artnet_receive and shownet_receive make of them, and what               *)
(* sacn_tx_build_packet puts into one.  A sender hands a datagram to the   *)
(* network, and the node receives it; the sender either follows the        *)
(* protocol, and then "meant" is what it wants the node to understand, or  *)
(* it does not, and then the fields of the datagram are anything.          *)
(*                                                                         *)
(* A datagram is a record of the header fields the code reads and the      *)
(* sequence of the bytes behind the header; "whole" says that the header   *)
(* is complete (SACN_MIN_PACKET_LEN, ARTNET_MIN_DMX_LEN).  Both sides use  *)
(* the same OFF_ constants, and the layout they give is left out.  So are  *)
(* the fields that nothing reads: cid, source_name, options, physical, and *)
(* the sequence number of an ArtDmx.                                       *)
(***************************************************************************)
EXTENDS Integers, Sequences

CONSTANTS
    Byte,           \* the values of a byte, which are levels and run lengths
    Marker,         \* 0x80, which opens a run in ShowNet's encoding
    FrameSize,      \* DMX_UNIVERSE_SIZE (512)
    ShownetRoom,    \* data bytes in shownet_receive's buffer (1500 - 15)
    Frame,          \* the frames senders send
    Number,         \* universes, net slots, and lengths claimed by headers
    Priority,       \* priorities of sACN sources
    Sequence,       \* sequence numbers of sACN packets
    Encoding        \* ShowNet's encodings of frames, as lists of tokens

\* A token of an encoding is a level that is not the marker, or a run.
Token == {token \in [run : BOOLEAN, count : Byte, value : Byte] :
             token.run \/ token.value # Marker}

ASSUME PacketsAssumption ==
    /\ Byte \subseteq Nat
    /\ {0, Marker} \subseteq Byte
    /\ FrameSize \in Nat \ {0}
    /\ ShownetRoom \in Nat
    /\ FrameSize <= ShownetRoom
    /\ Frame \subseteq Seq(Byte)
    /\ \A frame \in Frame : Len(frame) <= FrameSize
    /\ Number \subseteq Nat
    /\ Encoding \subseteq Seq(Token) \ {<<>>}

VARIABLES
    wire,       \* the datagram under way, or None
    meant,      \* what the node is to get of it, or Unclear
    got,        \* what the receive call returns: a packet, Rejected, or None
    answered    \* whether an ArtPollReply was sent for the last datagram

vars == <<wire, meant, got, answered>>

None == [protocol |-> "none"]
Unclear == [protocol |-> "unclear"]
Rejected == [protocol |-> "rejected"]

Smaller(a, b) == IF a <= b THEN a ELSE b

\* What memcpy finds behind the last byte received: the receive buffers are
\* not cleared.
Stale == -1

ByteAt(bytes, i) == IF i <= Len(bytes) THEN bytes[i] ELSE Stale

memcpy(bytes, n) == [i \in 1 .. n |-> ByteAt(bytes, i)]

First(n, bytes) == SubSeq(bytes, 1, Smaller(n, Len(bytes)))

\* What may lie behind a header: also more than a universe.
Payload == Frame \cup {Append(frame, 0) : frame \in Frame}

(***************************************************************************)
(* sACN.                                                                   *)
(***************************************************************************)

SacnDatagram ==
    [protocol : {"sacn"}, whole : BOOLEAN, root_ok : BOOLEAN,
     dmp_ok : BOOLEAN, universe : Number, priority : Priority,
     sequence : Sequence, prop_count : Number, start_code : {0, 1},
     data : Payload]

\* Mutant of sacn_dmx_len: the clamp to the bytes received is missing.
sacn_dmx_len_claimed(d) == Smaller(d.prop_count - 1, FrameSize)

\* The property count without the start code, clamped to a universe and to what
\* has been received.
sacn_dmx_len(d) ==
    LET claimed == Smaller(d.prop_count - 1, FrameSize)
    IN  IF claimed > Len(d.data) THEN Len(d.data) ELSE claimed

\* root_ok: preamble, ACN identifier and root vector; dmp_ok: the DMP vector.
sacn_parse(d) ==
    IF d.whole /\ d.root_ok /\ d.dmp_ok /\ d.prop_count >= 1
    THEN [protocol |-> "sacn", universe |-> d.universe,
          priority |-> d.priority, sequence |-> d.sequence,
          start_code |-> d.start_code,
          data |-> memcpy(d.data, sacn_dmx_len(d))]
    ELSE Rejected

\* recv() into SACN_MAX_PACKET_LEN bytes.
sacn_receive(d) == sacn_parse([d EXCEPT !.data = First(FrameSize, @)])

\* What of a transmitter's state goes into its packets.
sacn_tx_t == [universe : Number, priority : Priority, sequence : Sequence]

sacn_tx_build_packet(tx, frame) ==
    LET dmx == First(FrameSize, frame)
    IN  [protocol |-> "sacn", whole |-> TRUE, root_ok |-> TRUE,
         dmp_ok |-> TRUE, universe |-> tx.universe, priority |-> tx.priority,
         sequence |-> tx.sequence, prop_count |-> 1 + Len(dmx),
         start_code |-> 0, data |-> dmx]

(***************************************************************************)
(* Art-Net.                                                                *)
(***************************************************************************)

ArtnetDatagram ==
    [protocol : {"artnet"}, whole : BOOLEAN, magic_ok : BOOLEAN,
     opcode : {"dmx", "poll", "other"}, universe : Number, length : Number,
     data : Payload]

\* Mutant of artnet_dmx_len: the length field is not looked at.
artnet_dmx_len_received(d) == Smaller(Len(d.data), FrameSize)

artnet_dmx_len(d) ==
    LET claimed == Smaller(d.length, FrameSize)
    IN  IF claimed > Len(d.data) THEN Len(d.data) ELSE claimed

\* The length test comes first: only a datagram as long as the header of an
\* ArtDmx counts as an ArtPoll.
IsPoll(d) == d.whole /\ d.magic_ok /\ d.opcode = "poll"

\* recvfrom() into 18 + 512 bytes; an ArtPoll is answered and is no DMX data.
artnet_receive(d) ==
    IF d.whole /\ d.magic_ok /\ d.opcode = "dmx"
    THEN LET in_buf == [d EXCEPT !.data = First(FrameSize, @)]
         IN  [protocol |-> "artnet", universe |-> d.universe,
              data |-> memcpy(in_buf.data, artnet_dmx_len(in_buf))]
    ELSE Rejected

(***************************************************************************)
(* ShowNet.                                                                *)
(***************************************************************************)

\* A datagram without a byte of data is shorter than SHOWNET_MIN_PACKET.
ShownetDatagram ==
    [protocol : {"shownet"}, whole : BOOLEAN, net_slot : Number,
     slot_count : Number, rle : BOOLEAN, data : Payload]

\* Mutant of OpensRun: an off-by-one at the end of the input.
OpensRunInside(encoded, i) == encoded[i] = Marker /\ i + 2 < Len(encoded)

\* A marker with a count and a value behind it opens a run; any other byte, a
\* marker at the end included, is a level.
OpensRun(encoded, i) == encoded[i] = Marker /\ i + 2 <= Len(encoded)

Repeat(value, n) == [i \in 1 .. n |-> value]

\* decode[i][room]: the levels decoded from byte i on into so much room.
shownet_decode_rle(encoded, max_decoded_len) ==
    LET decode[i \in 1 .. Len(encoded) + 3] ==
            [room \in 0 .. max_decoded_len |->
                IF i > Len(encoded) \/ room = 0
                THEN <<>>
                ELSE IF OpensRun(encoded, i)
                THEN LET n == Smaller(encoded[i + 1], room)
                     IN  Repeat(ByteAt(encoded, i + 2), n)
                            \o decode[i + 3][room - n]
                ELSE <<encoded[i]>> \o decode[i + 1][room - 1]]
    IN  decode[1][max_decoded_len]

\* slot_count is not looked at when the data are encoded.
shownet_data(d) ==
    IF d.rle
    THEN shownet_decode_rle(d.data, FrameSize)
    ELSE memcpy(d.data,
                Smaller(Smaller(Len(d.data), FrameSize), d.slot_count))

shownet_receive(d) ==
    LET in_buf == [d EXCEPT !.data = First(ShownetRoom, @)]
    IN  IF d.whole /\ Len(in_buf.data) >= 1
        THEN [protocol |-> "shownet", net_slot |-> d.net_slot,
              data |-> shownet_data(in_buf)]
        ELSE Rejected

(***************************************************************************)
(* Senders that follow the protocols.                                      *)
(***************************************************************************)

\* The bytes of a token, and the levels it stands for.
Encoded(token) ==
    IF token.run THEN <<Marker, token.count, token.value>> ELSE <<token.value>>

Meaning(token) ==
    IF token.run THEN Repeat(token.value, token.count) ELSE <<token.value>>

\* The first n of a list of texts, one behind the other.
Joined(texts, n) ==
    LET upto[i \in 0 .. n] == IF i = 0 THEN <<>> ELSE upto[i - 1] \o texts[i]
    IN  upto[n]

EncodedAll(tokens, n) ==
    Joined([i \in DOMAIN tokens |-> Encoded(tokens[i])], n)
MeaningAll(tokens, n) ==
    Joined([i \in DOMAIN tokens |-> Meaning(tokens[i])], n)

Ready == wire = None /\ got = None

Hand(datagram, means) ==
    /\ wire' = datagram
    /\ meant' = means
    /\ UNCHANGED <<got, answered>>

\* Another node's sacn_tx_send.
SendSacn ==
    /\ Ready
    /\ \E tx \in sacn_tx_t, frame \in Frame :
           Hand(sacn_tx_build_packet(tx, frame),
                [protocol |-> "sacn", universe |-> tx.universe,
                 priority |-> tx.priority, sequence |-> tx.sequence,
                 start_code |-> 0, data |-> frame])

\* A controller's ArtDmx, which may be padded to an even length.
SendArtDmx ==
    /\ Ready
    /\ \E u \in Number, frame \in Frame, padding \in {<<>>, <<0>>} :
           Hand([protocol |-> "artnet", whole |-> TRUE, magic_ok |-> TRUE,
                 opcode |-> "dmx", universe |-> u, length |-> Len(frame),
                 data |-> frame \o padding],
                [protocol |-> "artnet", universe |-> u, data |-> frame])

\* A controller's ArtPoll.  An ArtPoll has 14 bytes, 4 less than the header of
\* an ArtDmx; a controller may append fields of a later protocol version.
SendPoll ==
    /\ Ready
    /\ \E longer \in BOOLEAN :
           Hand([protocol |-> "artnet", whole |-> longer, magic_ok |-> TRUE,
                 opcode |-> "poll", universe |-> 0, length |-> 0,
                 data |-> <<>>],
                [protocol |-> "poll"])

\* A console's ShowNet packet with a plain frame.
SendShownet ==
    /\ Ready
    /\ \E slot \in Number, frame \in Frame \ {<<>>} :
           Hand([protocol |-> "shownet", whole |-> TRUE, net_slot |-> slot,
                 slot_count |-> Len(frame), rle |-> FALSE, data |-> frame],
                [protocol |-> "shownet", net_slot |-> slot, data |-> frame])

\* A console's ShowNet packet with an encoded frame.
SendEncoded ==
    /\ Ready
    /\ \E slot \in Number, tokens \in Encoding :
           LET frame == MeaningAll(tokens, Len(tokens))
           IN  Hand([protocol |-> "shownet", whole |-> TRUE, net_slot |-> slot,
                     slot_count |-> Len(frame), rle |-> TRUE,
                     data |-> EncodedAll(tokens, Len(tokens))],
                    [protocol |-> "encoded", net_slot |-> slot,
                     tokens |-> tokens])

\* Any other datagram.
SendAnything ==
    /\ Ready
    /\ \E d \in SacnDatagram \cup ArtnetDatagram \cup ShownetDatagram :
           /\ d.whole \/ d.data = <<>>
           /\ Hand(d, Unclear)

(***************************************************************************)
(* The specification.                                                      *)
(***************************************************************************)

Init ==
    /\ wire = None
    /\ meant = Unclear
    /\ got = None
    /\ answered = FALSE

\* What the receive function of the datagram's protocol returns.
Parsed(d) ==
    IF d.protocol = "sacn" THEN sacn_receive(d)
    ELSE IF d.protocol = "artnet" THEN artnet_receive(d)
    ELSE shownet_receive(d)

Receive ==
    /\ wire # None
    /\ got' = Parsed(wire)
    /\ answered' = (wire.protocol = "artnet" /\ IsPoll(wire))
    /\ wire' = None
    /\ UNCHANGED meant

\* The loop has passed the packet to its handler, and forgets it.
Handled ==
    /\ got # None
    /\ got' = None
    /\ meant' = Unclear
    /\ answered' = FALSE
    /\ UNCHANGED wire

Next ==
    \/ SendSacn \/ SendArtDmx \/ SendPoll \/ SendShownet \/ SendEncoded
    \/ SendAnything
    \/ Receive
    \/ Handled

Spec == Init /\ [][Next]_vars

(***************************************************************************)
(* Properties.                                                             *)
(***************************************************************************)

\* Whatever arrives, a packet handed to the loop holds at most a universe of
\* levels, all of them bytes that were received: the clamps of every receive
\* function keep its memcpy inside the datagram and inside dmx_data.
OnlyReceivedBytes ==
    got \notin {None, Rejected} =>
        /\ Len(got.data) <= FrameSize
        /\ \A c \in 1 .. Len(got.data) : got.data[c] \in Byte

\* A sender that follows its protocol is understood: the node gets the universe
\* and the levels the sender means, and of an sACN packet, which may be another
\* node's, the priority that decides the merge and the sequence number too.
Transparent ==
    got # None /\ meant.protocol \in {"sacn", "artnet", "shownet"} =>
        got = meant

\* How many of the tokens fit into the receive buffer.
Fitting(tokens) ==
    CHOOSE n \in 0 .. Len(tokens) :
        /\ Len(EncodedAll(tokens, n)) <= ShownetRoom
        /\ n < Len(tokens) =>
              Len(EncodedAll(tokens, n + 1)) > ShownetRoom

\* An encoded frame is decoded to what it means, up to a full universe.  One
\* that does not fit into the receive buffer loses what does not fit, and shows
\* at most two bytes of a token that was cut as levels.
RunsDecoded ==
    got # None /\ meant.protocol = "encoded" =>
        LET n == Fitting(meant.tokens)
            plain == MeaningAll(meant.tokens, n)
            levels == Len(got.data)
        IN  /\ First(Len(plain), got.data) = First(FrameSize, plain)
            /\ levels <= Len(First(FrameSize, plain)) + 2
            /\ n = Len(meant.tokens) => levels <= Len(plain)
=============================================================================
