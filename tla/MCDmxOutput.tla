---------------------------- MODULE MCDmxOutput ----------------------------
(***************************************************************************)
(* Instances of DmxOutput for TLC.  One tick stands for the time of one    *)
(* undelayed loop iteration (23 ms).                                       *)
(***************************************************************************)
EXTENDS DmxOutput

Cfg(protocol, mode0, mode1, u0, u1, hold) ==
    [protocol |-> protocol,
     mode |-> [p \in Port |-> IF p = 0 THEN mode0 ELSE mode1],
     universe |-> [p \in Port |-> IF p = 0 THEN u0 ELSE u1],
     hold |-> hold]

Pkt(start_code, universe, priority, data) ==
    [start_code |-> start_code, universe |-> universe, priority |-> priority,
     data |-> data]

\* One TX port beside an inactive one, with hold times below, at and above
\* SACN_TIMEOUT_MS.
MCSacnConfig == {Cfg("sacn", "TX", "OFF", 1, 1, h) : h \in {0, 2, 4}}

\* A full frame of priority 1, a short one of priority 2, an all-zero one, one
\* for another universe, and one with an alternate start code.
MCSacnPacket ==
    {Pkt(0, 1, 1, <<1, 1>>), Pkt(0, 1, 2, <<1>>), Pkt(0, 1, 1, <<0, 0>>),
     Pkt(0, 2, 2, <<1, 1>>), Pkt(7, 1, 2, <<1, 1>>)}

\* The protocols without priorities; the other port is an input.
MCLegacyConfig ==
    {Cfg(k, "TX", "RX", 1, 1, 2) : k \in {"artnet", "shownet", "none"}}

MCArtnetPacket ==
    {[universe |-> 1, data |-> <<1, 1>>], [universe |-> 1, data |-> <<0>>],
     [universe |-> 2, data |-> <<1>>]}

\* Slots 3 and 4 are the two channels of universe 1, slot 0 is malformed.
MCShownetPacket ==
    {[net_slot |-> 3, data |-> <<1, 1>>], [net_slot |-> 4, data |-> <<0>>],
     [net_slot |-> 0, data |-> <<1>>]}

\* Every protocol, one TX port each.
MCOnePortConfig == MCSacnConfig \cup MCLegacyConfig

MCArtnetConfig == {Cfg("artnet", "TX", "OFF", 1, 1, 2)}
MCOneSacnConfig == {Cfg("sacn", "TX", "OFF", 1, 1, 2)}
=============================================================================
