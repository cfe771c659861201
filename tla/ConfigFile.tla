----------------------------- MODULE ConfigFile -----------------------------
(***************************************************************************)
(* The format of 220node.cfg (config/config.c): what config_load makes of  *)
(* a file and what a save makes of it.                                     *)
(*                                                                         *)
(* A file is a sequence of lines.  A line has                              *)
(*   key    a managed key, or "other": a comment, a blank, a line without  *)
(*          "=" or one with a key of Strand's own (nodetype, boottest);    *)
(*   text   what follows the "=" (for "other", what tells it from others); *)
(*   nl     whether it ends with a newline: the last line may not.         *)
(* A line of a managed key and "=" with nothing behind it is an "other"    *)
(* line too: sscanf() finds no value, so the key does not count.  Its word *)
(* is the key, for another line may come to stand behind it.               *)
(*                                                                         *)
(* Seven of the eighteen managed keys stand for the rest, one for every    *)
(* way a value is converted: nodeaddr (netmask, gateway) and addr_mode,    *)
(* which are coupled; protocol and dmx_port0_mode (dmx_port1_mode,         *)
(* lcd_backlight), names with a fall-back; dmx_holdtime (both universes),  *)
(* a number stored in 16 bits; lcd_contrast (both slot monitors), a number *)
(* that is clamped; dmx2_label, which is kept verbatim, as are host name,  *)
(* first label and MAC address, but of these it alone is no strand key.    *)
(***************************************************************************)
EXTENDS Integers, Sequences, SequencesExt

CONSTANTS
    ReadCap,    \* lines that fit into the 2047 bytes a save reads back
    Words       \* the words in files and forms

\* The names a save writes.
Names == {"sacn", "artnet", "shownet", "none", "tx", "rx", "off",
          "dhcp", "static", "dhcp_static"}

managed_keys == <<"nodeaddr", "protocol", "dmx_holdtime", "dmx_port0_mode",
                  "dmx2_label", "addr_mode", "lcd_contrast">>

\* Mutant of strand_keys: the port mode stays behind.
strand_keys_without_mode == <<"nodeaddr", "protocol", "dmx_holdtime">>

\* The keys that go to the flash; the rest are the extension keys.
strand_keys == <<"nodeaddr", "protocol", "dmx_holdtime", "dmx_port0_mode">>

Managed == ToSet(managed_keys)
Strand == ToSet(strand_keys)
Extension == Managed \ Strand

\* A file of one line for each of Strand's keys fits.
ASSUME ConfigFileAssumption ==
    /\ ReadCap \in Nat /\ ReadCap >= Len(strand_keys)
    /\ Names \cup Managed \cup {"", "number", "glued", "fragment"}
         \subseteq Words

\* The elements of seq that are in S, in their order.
Keep(seq, S) ==
    LET kept[n \in 0 .. Len(seq)] ==
            IF n = 0 THEN <<>>
            ELSE IF seq[n] \in S THEN Append(kept[n - 1], seq[n])
                                 ELSE kept[n - 1]
    IN  kept[Len(seq)]

(***************************************************************************)
(* Values as text.  A text reads as a word and as a number: atoi() of a    *)
(* word is 0.  An IP address is the number it stands for; text that is no  *)
(* address reads as 0.                                                     *)
(***************************************************************************)
Word(w) == [word |-> w, num |-> 0]
Num(n) == [word |-> "number", num |-> n]

Text == [word : Words, num : Int]

\* The lines with a key of K, and all lines.
Keyed(K) == [key : K, text : Text, nl : BOOLEAN]
AnyLine == Keyed(Managed \cup {"other"})

Line(k, t) == [key |-> k, text |-> t, nl |-> TRUE]
Other(w) == Line("other", Word(w))

\* A file ends behind a key and "=".
OpenKey(k) == [Other(k) EXCEPT !.nl = FALSE]

Clamp(n, lo, hi) == IF n < lo THEN lo ELSE IF n > hi THEN hi ELSE n

parse_protocol(t) ==
    CASE t.word \in {"sacn", "sACN"} -> "sacn"
      [] t.word \in {"artnet", "Art-Net"} -> "artnet"
      [] t.word \in {"shownet", "ShowNet"} -> "shownet"
      [] OTHER -> "none"

parse_mode(t) ==
    CASE t.word \in {"rx", "RX"} -> "rx"
      [] t.word \in {"off", "OFF"} -> "off"
      [] OTHER -> "tx"

parse_addr_mode(t) ==
    IF t.word \in {"dhcp", "dhcp_static"} THEN t.word ELSE "static"

parse_ip(t) == IF t.num < 0 THEN 0 ELSE t.num

\* Mutant of uint16: a field as wide as atoi()'s result.
uint16_wide(n) == n

UINT16_MAX == 65535

\* dmx_hold_time is a uint16_t.
uint16(n) == n % (UINT16_MAX + 1)

(***************************************************************************)
(* Loading.                                                                *)
(***************************************************************************)
config_defaults ==
    [nodeaddr |-> 0, protocol |-> "sacn", dmx_holdtime |-> 5,
     dmx_port0_mode |-> "tx", dmx2_label |-> Word(""),
     addr_mode |-> "sentinel", lcd_contrast |-> 128]

\* The last line with a key decides.
Mentions(lines, k) == {i \in DOMAIN lines : lines[i].key = k}
LastText(lines, k) ==
    lines[CHOOSE i \in Mentions(lines, k) :
              \A j \in Mentions(lines, k) : j <= i].text

\* What a key's text says.
parse_key(k, t) ==
    CASE k = "nodeaddr" -> parse_ip(t)
      [] k = "protocol" -> parse_protocol(t)
      [] k = "dmx_holdtime" -> uint16(t.num)
      [] k = "dmx_port0_mode" -> parse_mode(t)
      [] k = "dmx2_label" -> t
      [] k = "addr_mode" -> parse_addr_mode(t)
      [] k = "lcd_contrast" -> Clamp(t.num, 0, 255)

\* The fields as the lines set them, defaults where no line does.
Fields(lines) ==
    [k \in Managed |-> IF Mentions(lines, k) = {} THEN config_defaults[k]
                       ELSE parse_key(k, LastText(lines, k))]

\* Without an addr_mode line the mode follows from the address.
Inferred(c) ==
    IF c.addr_mode # "sentinel" THEN c
    ELSE [c EXCEPT !.addr_mode = IF c.nodeaddr = 0 THEN "dhcp" ELSE "static"]

\* A line without newline and the one after it read as one: behind a managed
\* key and "=" the next line is its value, otherwise there is no managed key.
\* A save leaves at most one such place.
Glued(l, next) ==
    [key |-> IF l.key = "other" /\ l.text.word \in Managed THEN l.text.word
                                                           ELSE l.key,
     text |-> Word("glued"), nl |-> next.nl]

Lines(pieces) ==
    LET open == {i \in 1..(Len(pieces) - 1) : ~pieces[i].nl}
        i == CHOOSE i \in open : TRUE
    IN IF open = {} THEN pieces
       ELSE SubSeq(pieces, 1, i - 1)
              \o <<Glued(pieces[i], pieces[i + 1])>>
              \o SubSeq(pieces, i + 2, Len(pieces))

\* A missing file leaves the defaults as they are, without inference.
config_load(file) ==
    IF file.there THEN Inferred(Fields(Lines(file.lines))) ELSE config_defaults

(***************************************************************************)
(* Saving.                                                                 *)
(***************************************************************************)
format_key(k, c) ==
    Line(k, CASE k = "nodeaddr" ->
                   Num(IF c.addr_mode = "dhcp" THEN 0 ELSE c.nodeaddr)
              [] k = "addr_mode" ->
                   Word(IF c.addr_mode = "sentinel" THEN "static"
                                                    ELSE c.addr_mode)
              [] k \in {"protocol", "dmx_port0_mode"} -> Word(c[k])
              [] k = "dmx2_label" -> c[k]
              [] OTHER -> Num(c[k]))

\* What the buffer may take of a line: a part of the key, or, before its
\* newline, all that counts; of a managed key's line also the key and "=" alone.
Fragment(l) ==
    {[Other("fragment") EXCEPT !.nl = FALSE], [l EXCEPT !.nl = FALSE]}
      \cup {OpenKey(k) : k \in Managed \cap {l.key}}

\* What a save reads of a file: all of it, or as much as the buffer takes, cut
\* between two lines or inside one.
Reads(file) ==
    LET lines == IF file.there THEN Lines(file.lines) ELSE <<>>
        head == SubSeq(lines, 1, ReadCap)
    IN IF Len(lines) <= ReadCap THEN {lines}
       ELSE {head} \cup {Append(head, f) : f \in Fragment(lines[ReadCap + 1])}

\* Mutant of Kept: of several lines with one key only the first is rewritten.
KeptFirst(existing, c, keys, skip_extension_keys) ==
    [i \in DOMAIN existing |->
        IF existing[i].key \in ToSet(keys)
             /\ \A j \in Mentions(existing, existing[i].key) : i <= j
        THEN format_key(existing[i].key, c) ELSE existing[i]]

\* Mutant of Kept: lines without a listed key are dropped.
KeptListed(existing, c, keys, skip_extension_keys) ==
    LET lines == Keep(existing, Keyed(ToSet(keys)))
    IN [i \in DOMAIN lines |-> format_key(lines[i].key, c)]

\* The lines a save keeps, each with a listed key rewritten in its place.
Kept(existing, c, keys, skip_extension_keys) ==
    LET passed == IF skip_extension_keys THEN ToSet(keys) ELSE Managed
        lines == Keep(existing, Keyed(passed \cup {"other"}))
    IN [i \in DOMAIN lines |->
           IF lines[i].key \in ToSet(keys) THEN format_key(lines[i].key, c)
                                           ELSE lines[i]]

\* Mutant of Missing: nothing is appended.
MissingNone(existing, keys) == <<>>

\* Mutant of Missing: every key is appended, present or not.
MissingAll(existing, keys) == keys

\* The listed keys no line has, in the order of the list.
Missing(existing, keys) ==
    Keep(keys, {k \in ToSet(keys) : Mentions(existing, k) = {}})

\* The output of a save: the kept lines and then the missing keys.
config_save_internal(existing, c, keys, skip_extension_keys) ==
    LET missing == Missing(existing, keys)
    IN Kept(existing, c, keys, skip_extension_keys)
         \o [i \in DOMAIN missing |-> format_key(missing[i], c)]
=============================================================================
