------------------------------ MODULE MCDmxFds ------------------------------
(***************************************************************************)
(* Instance of DmxFds for TLC: three ports, so that two TX ports can trade *)
(* a stale number while an RX port stands by.                              *)
(***************************************************************************)
EXTENDS DmxFds

MCPortOrder == [p \in Port |-> p]
MCModes == [Port -> Mode]

\* ENODEV and EMFILE.
MCErrno == {-19, -24}
=============================================================================
