----------------------------- MODULE MCMiniFile -----------------------------
(***************************************************************************)
(* Instance of MiniFile for TLC: buffers of two bytes, so that lines cross *)
(* them, and data shorter than, as long as and longer than a buffer.       *)
(***************************************************************************)
EXTENDS MiniFile

\* One file with a line longer than a buffer and one without its newline.
MCDisk == {[p \in Path |-> IF p = "read" THEN <<"a", "b", "n", "a">>
                                        ELSE <<>>]}

MCData == {<<"a">>, <<"b", "b", "n">>}
MCPrinted == {<<"b">>}

\* The file that is read is never extended, only emptied.
MCMaxLength == [p \in Path |-> CASE p = "read" -> 0
                                [] p = "save" -> 4
                                [] p = "log" -> 1]
=============================================================================
