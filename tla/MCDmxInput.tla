----------------------------- MODULE MCDmxInput -----------------------------
(***************************************************************************)
(* Instances of DmxInput for TLC: two frames of different lengths.         *)
(***************************************************************************)
EXTENDS DmxInput

MCInFrame == {<<1>>, <<1, 0>>}
=============================================================================
