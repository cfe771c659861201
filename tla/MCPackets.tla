----------------------------- MODULE MCPackets ------------------------------
(***************************************************************************)
(* Instance of Packets for TLC: universes of three channels; bytes 0 to 3, *)
(* of which 2 opens a run; a ShowNet buffer shorter than the longest       *)
(* encoding.                                                               *)
(***************************************************************************)
EXTENDS Packets

MCFrame == UNION {[1 .. n -> Byte] : n \in 0 .. 3}

\* A level that is not the marker, and runs of no, one and three levels.
MCToken ==
    {[run |-> FALSE, count |-> 1, value |-> v] : v \in {0, 1}} \cup
    {[run |-> TRUE, count |-> n, value |-> v] : n \in {0, 1, 3}, v \in {1, 2}}

MCEncoding == UNION {[1 .. n -> MCToken] : n \in 1 .. 3}
=============================================================================
