---------------------------- MODULE MCConfigStore ---------------------------
(***************************************************************************)
(* Instance of ConfigStore for TLC.  The files are those a node may hold:  *)
(* one edited by hand with values out of range, duplicate keys and         *)
(* comments (its second save finds it too long for the buffer), two whose  *)
(* last line is not finished, and one that is missing.  The file for the   *)
(* flash has lines of Strand's own and a key that is not Strand's; after a *)
(* power loss there is none.                                               *)
(***************************************************************************)
EXTENDS ConfigStore

AllWords == Names \cup Managed \cup
            {"", "number", "glued", "fragment", "nodetype", "boottest", "dmx",
             "comment", "ShowNet", "ArtNet", "RX", "left"}

HandEdited ==
    FileOf(<<Other("comment"), Line("dmx_holdtime", Num(70000)),
             Line("protocol", Word("ShowNet")), Line("lcd_contrast", Num(300)),
             Line("dmx_holdtime", Num(-1)), Other("nodetype"),
             Line("protocol", Word("ArtNet")),
             Line("dmx_port0_mode", Word("RX"))>>)

Unfinished ==
    FileOf(<<Line("nodeaddr", Num(7)),
             [Other("comment") EXCEPT !.nl = FALSE]>>)

\* An interrupted write: it ends behind the key of a second line.
CutShort ==
    FileOf(<<Line("nodeaddr", Num(7)), Line("addr_mode", Word("dhcp_static")),
             Line("lcd_contrast", Num(20)), OpenKey("lcd_contrast")>>)

\* A file of comments, longer than the buffer.
LongFiles == {FileOf([i \in 1..11 |-> Other("comment")])}

FewFiles == {HandEdited, Unfinished, CutShort, NoFile}

OfStrand ==
    FileOf(<<Other("nodetype"), Line("nodeaddr", Num(8)), Other("boottest"),
             Line("lcd_contrast", Num(20)), Other("dmx")>>)

FewStrandFiles == {OfStrand}

\* One form sets the address only, the other everything but how it is used.
FewForms ==
    {[addr_mode |-> Word("dhcp"), ipaddr |-> Num(7)],
     [ipaddr |-> Num(9), protocol |-> Word("artnet"),
      dmx_hold_time |-> Num(400), port0_mode |-> Word("off"),
      port1_label |-> Word("left"), lcd_contrast |-> Num(-1)]}
=============================================================================
