------------------------------- MODULE MCNode -------------------------------
(***************************************************************************)
(* Instance of Node for TLC: port 0 is the input and port 1 the output, on *)
(* the same universe.                                                      *)
(***************************************************************************)
EXTENDS Node

MCConfig ==
    {[protocol |-> "sacn",
      mode |-> [p \in Port |-> IF p = 0 THEN "RX" ELSE "TX"],
      universe |-> [p \in Port |-> 1], hold |-> 5]}

MCExternal == {[start_code |-> 0, universe |-> 1, priority |-> 2,
                data |-> <<0>>]}

MCInFrame == {<<1>>}
=============================================================================
