----------------------------- MODULE ConfigStore ----------------------------
(***************************************************************************)
(* The configuration files and the processes that use them: a web form is  *)
(* posted, the CGI program (cgi/cgi_config.c) loads the configuration,     *)
(* merges the form and saves three files in place, the script around it    *)
(* (tools/web/cfgpost.cgi) writes the second one to the flash; a daemon    *)
(* may load its configuration between any two of these steps, and the      *)
(* power may fail.                                                         *)
(*                                                                         *)
(*   "idle" -Post-> "config" -> "strand" -> "ifup" -> "script" -> "idle"   *)
(*                                                                         *)
(* A save truncates its file and writes it back in buffers.  One POST runs *)
(* at a time.  A load is one step.  That the CGI asks the network for a    *)
(* MAC address the file does not have changes no key that is modelled.     *)
(***************************************************************************)
EXTENDS ConfigFile

CONSTANTS
    InitFiles,    \* the configuration files the node may start with
    StrandFiles,  \* the files for the flash it may start with
    Forms,        \* the forms that may be posted
    FlushLines,   \* lines that fill the 256-byte buffer of a FILE
    PutLimit,     \* lines that make the 4096 bytes the script tests for
    MaxFails      \* how often fopen() may fail

\* Files hold any lines (a missing one none), the last one perhaps without
\* newline, and forms set text; what a save reads and what it adds for Strand's
\* keys do not make a file that is too large.
ASSUME StoreAssumption ==
    /\ \A file \in InitFiles \cup StrandFiles :
           /\ file \in [there : BOOLEAN, lines : Seq(AnyLine)]
           /\ \A i \in DOMAIN file.lines :
                 file.lines[i].nl \/ i = Len(file.lines)
           /\ file.there \/ file.lines = <<>>
    /\ \A form \in Forms : form \in [DOMAIN form -> Text]
    /\ FlushLines \in Nat \ {0}
    /\ PutLimit \in Nat /\ PutLimit > ReadCap + 1 + Len(strand_keys)
    /\ MaxFails \in Nat

VARIABLES
    config_file,   \* /etc/220node.cfg
    strand_file,   \* /etc/220node.cfg.strand
    ifup_file,     \* what /etc/ifup-eth0 sets up: a mode and an address
    flash,         \* the lines nodecfg put wrote
    pc,            \* where the POST in progress stands
    todo,          \* the lines the save in progress has not flushed
    cfg,           \* the CGI's configuration; the last one once it is done
    before,        \* history: config_file when the last POST began
    strand_before, \* history: strand_file then
    fails,         \* how often fopen() has failed
    failed,        \* history: it did in the last POST
    settled        \* history: what shows the last POST: "files" and flash, the
                   \* "flash" alone, or, not being complete, "nothing"

vars == <<config_file, strand_file, ifup_file, flash, pc, todo, cfg, before,
          strand_before, fails, failed, settled>>

NoFile == [there |-> FALSE, lines |-> <<>>]
FileOf(lines) == [there |-> TRUE, lines |-> lines]

NoScript == [addr_mode |-> "none", nodeaddr |-> 0]

\* The node starts with what nodecfg generated from the flash; nothing was
\* posted yet.
Init ==
    /\ config_file \in InitFiles
    /\ strand_file \in StrandFiles
    /\ ifup_file = NoScript
    /\ flash = config_file.lines
    /\ pc = "idle"
    /\ todo = <<>>
    /\ cfg = config_load(config_file)
    /\ before = config_file
    /\ strand_before = strand_file
    /\ fails = 0
    /\ failed = FALSE
    /\ settled = "nothing"

(***************************************************************************)
(* The CGI program.                                                        *)
(***************************************************************************)

\* The fields a form may set, with their clamps.  DHCP clears the address.
parse_formdata(form, c) ==
    LET has(k) == k \in DOMAIN form
        merged ==
            [nodeaddr |-> IF has("ipaddr") THEN parse_ip(form.ipaddr)
                                           ELSE c.nodeaddr,
             protocol |-> IF has("protocol") THEN parse_protocol(form.protocol)
                                             ELSE c.protocol,
             dmx_holdtime |-> IF has("dmx_hold_time")
                              THEN Clamp(form.dmx_hold_time.num, 0, 300)
                              ELSE c.dmx_holdtime,
             dmx_port0_mode |-> IF has("port0_mode")
                                THEN parse_mode(form.port0_mode)
                                ELSE c.dmx_port0_mode,
             dmx2_label |-> IF has("port1_label") THEN form.port1_label
                                                  ELSE c.dmx2_label,
             addr_mode |-> IF has("addr_mode")
                           THEN parse_addr_mode(form.addr_mode)
                           ELSE c.addr_mode,
             lcd_contrast |-> IF has("lcd_contrast")
                              THEN Clamp(form.lcd_contrast.num, 0, 255)
                              ELSE c.lcd_contrast]
    IN IF merged.addr_mode = "dhcp" THEN [merged EXCEPT !.nodeaddr = 0]
                                    ELSE merged

\* What takes the place of a file's content if fopen() fails.
IfFails(x) == IF fails < MaxFails THEN {x} ELSE {}

\* A form arrives: the CGI loads the configuration, or takes the defaults if it
\* cannot open the file, and merges the form.
Post(form) ==
    /\ pc = "idle"
    /\ \E loaded \in {config_load(config_file)}
                      \cup IfFails(config_defaults) :
           /\ cfg' = parse_formdata(form, loaded)
           /\ failed' = (loaded # config_load(config_file))
           /\ fails' = IF failed' THEN fails + 1 ELSE fails
    /\ before' = config_file
    /\ strand_before' = strand_file
    /\ settled' = "nothing"
    /\ pc' = "config"
    /\ UNCHANGED <<config_file, strand_file, ifup_file, flash, todo>>

\* The lines a save goes by: if the file cannot be opened, as if it were empty.
Existing(file) == Reads(file) \cup IfFails(<<>>)

\* config_save: the file is read back, truncated and its new content begun.
OpenConfig ==
    /\ pc = "config"
    /\ \E existing \in Existing(config_file) :
           /\ todo' = config_save_internal(existing, cfg, managed_keys, FALSE)
           /\ IF existing \in Reads(config_file)
              THEN UNCHANGED <<fails, failed>>
              ELSE fails' = fails + 1 /\ failed' = TRUE
    /\ config_file' = FileOf(<<>>)
    /\ pc' = "write config"
    /\ UNCHANGED <<strand_file, ifup_file, flash, cfg, before, strand_before,
                   settled>>

\* config_save_strand.  Its size check has no effect: the result is ignored.
OpenStrand ==
    /\ pc = "strand"
    /\ \E existing \in Existing(strand_file) :
           /\ todo' = config_save_internal(existing, cfg, strand_keys, TRUE)
           /\ IF existing \in Reads(strand_file)
              THEN UNCHANGED <<fails, failed>>
              ELSE fails' = fails + 1 /\ failed' = TRUE
    /\ strand_file' = FileOf(<<>>)
    /\ pc' = "write strand"
    /\ UNCHANGED <<config_file, ifup_file, flash, cfg, before, strand_before,
                   settled>>

\* The next buffer goes to the file; the last one when it is closed.
Buffer == SubSeq(todo, 1, IF Len(todo) < FlushLines THEN Len(todo)
                                                  ELSE FlushLines)
Rest == SubSeq(todo, FlushLines + 1, Len(todo))
Flushed(file) == FileOf(file.lines \o Buffer)

FlushConfig ==
    /\ pc = "write config"
    /\ config_file' = Flushed(config_file)
    /\ todo' = Rest
    /\ pc' = IF Rest = <<>> THEN "strand" ELSE pc
    /\ UNCHANGED <<strand_file, ifup_file, flash, cfg, before, strand_before,
                   fails, failed, settled>>

FlushStrand ==
    /\ pc = "write strand"
    /\ strand_file' = Flushed(strand_file)
    /\ todo' = Rest
    /\ pc' = IF Rest = <<>> THEN "ifup" ELSE pc
    /\ UNCHANGED <<config_file, ifup_file, flash, cfg, before, strand_before,
                   fails, failed, settled>>

After == [config |-> "strand", strand |-> "ifup", ifup |-> "script"]

\* A file that cannot be opened for writing is left as it is; the CGI ignores
\* the error and goes on with the next one.
OpenFails ==
    /\ fails < MaxFails
    /\ pc \in DOMAIN After
    /\ pc' = After[pc]
    /\ fails' = fails + 1
    /\ failed' = TRUE
    /\ UNCHANGED <<config_file, strand_file, ifup_file, flash, todo, cfg,
                   before, strand_before, settled>>

\* Mutant of IfupScript: DHCP with a fall-back sets up the fall-back only.
IfupScriptNoFallback(c) ==
    [addr_mode |-> IF c.addr_mode = "dhcp" THEN "dhcp" ELSE "static",
     nodeaddr |-> c.nodeaddr]

\* DHCP, DHCP with a static fall-back, or static.
IfupScript(c) ==
    [addr_mode |-> IF c.addr_mode \in {"dhcp", "dhcp_static"} THEN c.addr_mode
                                                              ELSE "static",
     nodeaddr |-> IF c.addr_mode = "dhcp" THEN 0 ELSE c.nodeaddr]

config_generate_ifup ==
    /\ pc = "ifup"
    /\ ifup_file' = IfupScript(cfg)
    /\ pc' = "script"
    /\ UNCHANGED <<config_file, strand_file, flash, todo, cfg, before,
                   strand_before, fails, failed, settled>>

\* Mutant of Put: the whole configuration goes to the flash.
PutConfig ==
    /\ pc = "script"
    /\ flash' = config_file.lines
    /\ pc' = "idle"
    /\ settled' = "files"
    /\ UNCHANGED <<config_file, strand_file, ifup_file, todo, cfg, before,
                   strand_before, fails, failed>>

\* cfgpost.cgi after the CGI: nodecfg put, if there is a file that is not too
\* large.
Put ==
    /\ pc = "script"
    /\ flash' = IF strand_file.there /\ Len(strand_file.lines) < PutLimit
                THEN strand_file.lines ELSE flash
    /\ pc' = "idle"
    /\ settled' = "files"
    /\ UNCHANGED <<config_file, strand_file, ifup_file, todo, cfg,
                   before, strand_before, fails, failed>>

(***************************************************************************)
(* The daemon and the power.                                               *)
(***************************************************************************)

\* What a daemon loads if the watchdog starts it now: once, and for good.
g_config == config_load(config_file)

\* What nodecfg generates from the flash: all that was put there, or of our keys
\* only those that Strand's own program knows.
Generated == {flash, Keep(Lines(flash), Keyed({"nodeaddr", "other"}))}

\* The power fails and comes back: /etc is as it was, or lost and generated
\* from the flash.
PowerLoss ==
    /\ \/ /\ UNCHANGED <<config_file, strand_file, ifup_file>>
          /\ settled' = IF pc = "idle" THEN settled ELSE "nothing"
       \/ /\ \E lines \in Generated : config_file' = FileOf(lines)
          /\ strand_file' = NoFile
          /\ ifup_file' = NoScript
          /\ settled' = IF pc = "idle" /\ settled # "nothing" THEN "flash"
                                                            ELSE "nothing"
    /\ pc' = "idle"
    /\ todo' = <<>>
    /\ IF settled' = "nothing"
       THEN /\ cfg' = config_load(config_file')
            /\ before' = config_file'
            /\ strand_before' = strand_file'
            /\ failed' = FALSE
       ELSE UNCHANGED <<cfg, before, strand_before, failed>>
    /\ UNCHANGED <<flash, fails>>

Save ==
    \/ OpenConfig
    \/ FlushConfig
    \/ OpenStrand
    \/ FlushStrand
    \/ OpenFails
    \/ config_generate_ifup
    \/ Put

Next ==
    \/ \E form \in Forms : Post(form)
    \/ Save
    \/ PowerLoss

Spec == Init /\ [][Next]_vars

(***************************************************************************)
(* Properties.                                                             *)
(***************************************************************************)
Config ==
    [nodeaddr : Nat, protocol : {"sacn", "artnet", "shownet", "none"},
     dmx_holdtime : 0..UINT16_MAX, dmx_port0_mode : {"tx", "rx", "off"},
     dmx2_label : Text,
     addr_mode : {"dhcp", "static", "dhcp_static", "sentinel"},
     lcd_contrast : 0..255]

\* Whatever the files contain, every configuration in use is in range.
TypeOK ==
    /\ cfg \in Config
    /\ g_config \in Config
    /\ pc \in {"idle", "config", "write config", "strand", "write strand",
               "ifup", "script"}
    /\ settled \in {"files", "flash", "nothing"}

\* What a save writes of a configuration: an address mode no one chose is
\* static.
AsSaved(c) ==
    [c EXCEPT !.addr_mode = IF @ = "sentinel" THEN "static" ELSE @]

Clean == settled = "files" /\ ~failed

\* Did the buffer of a save hold all of the file?
Fits(file) == Len(Lines(file.lines)) <= ReadCap

\* The keys a save of the lines found does not deliver.  If they end without a
\* newline in a line that is not rewritten, the first line appended becomes part
\* of it: its key gets lost, and a key the file ends behind gets its text.
Spoiled(found, keys) ==
    LET missing == Missing(found, keys)
    IN IF found = <<>> \/ missing = <<>> \/ Last(found).nl
            \/ Last(found).key # "other"
       THEN {}
       ELSE {Head(missing)} \cup (Managed \cap {Last(found).text.word})

\* Nothing is spoiled by a save of these keys, wherever the buffer cuts the
\* file.
Sound(file, keys) == \A found \in Reads(file) : Spoiled(found, keys) = {}

Others(lines) == Keep(lines, Keyed({"other"}))

\* A configuration that was saved is the one that is loaded, whatever mixture of
\* old, duplicate, missing and cut lines the file held, an interrupted save and
\* a file longer than the buffer included: all but the keys spoiled where the
\* lines that were read end.
SaveTakesEffect ==
    Clean =>
        \E found \in Reads(before) :
            \A k \in Managed \ Spoiled(found, managed_keys) :
                config_load(config_file)[k] = AsSaved(cfg)[k]

\* Comments and lines with unknown keys are kept, in their order, of a file that
\* fits the buffer and whose last line the save does not add to.
UnknownKept ==
    Clean /\ Fits(before) /\ Sound(before, managed_keys) =>
        Others(Lines(config_file.lines)) = Others(Lines(before.lines))

\* What is put into the flash has the DMX settings of the last POST and the
\* address it had chosen, DHCP for DHCP, for a program that reads them as this
\* one does.
FlashAgrees ==
    settled # "nothing" /\ ~failed /\ Sound(strand_before, strand_keys) =>
        LET c == config_load(FileOf(flash))
        IN /\ \A k \in {"protocol", "dmx_holdtime", "dmx_port0_mode"} :
                  c[k] = cfg[k]
           /\ cfg.addr_mode = "dhcp" => c.addr_mode = "dhcp"
           /\ cfg.nodeaddr # 0 =>
                  c.addr_mode = "static" /\ c.nodeaddr = cfg.nodeaddr

\* The flash has the lines of Strand's own that the file for it had, in their
\* order, and no extension key, which might not fit ("could cause nodecfg to
\* overflow flash", config.c:310-312), even if that file had one.
FlashForStrand ==
    settled # "nothing" /\ ~failed /\ Sound(strand_before, strand_keys)
      /\ Fits(strand_before) =>
        LET lines == Lines(flash)
        IN /\ Others(lines) = Others(Lines(strand_before.lines))
           /\ \A i \in DOMAIN lines : lines[i].key \notin Extension

\* The network script sets up what the configuration file says.
ScriptAgrees ==
    Clean /\ Sound(before, managed_keys) =>
        LET c == config_load(config_file)
        IN ifup_file = [addr_mode |-> c.addr_mode, nodeaddr |-> c.nodeaddr]

\* No sequence of saves makes a file grow: a save adds to what it read no more
\* than a line for each key that was missing, which it does once.
NoGrowth ==
    Clean =>
        LET absent(found, K) == {k \in K : Mentions(found, k) = {}}
        IN /\ \E found \in Reads(before) :
                 Len(config_file.lines)
                   <= Len(found) + Cardinality(absent(found, Managed))
           /\ \E found \in Reads(strand_before) :
                 Len(strand_file.lines)
                   <= Len(found) + Cardinality(absent(found, Strand))

\* Even if files cannot be opened, a POST leaves the configuration it was given
\* or the one it found, no mixture: all but the keys spoiled.
SavedOrKept ==
    settled = "files" =>
        \/ config_load(config_file) = config_load(before)
        \/ \E found \in Reads(before) :
               \A k \in Managed \ Spoiled(found, managed_keys) :
                   config_load(config_file)[k] = AsSaved(cfg)[k]

\* A daemon started while the configuration is being rewritten may load settings
\* nobody combined, but none that is neither the new one nor the default (its
\* address mode may also be the one its address implies), if it is not spoiled:
\* what it finds is never an old value or part of one.
PartialLoad ==
    pc = "write config" =>
        \E found \in Reads(before) :
            \A k \in Managed \ Spoiled(found, managed_keys) :
                \/ g_config[k] \in {AsSaved(cfg)[k], config_defaults[k]}
                \/ /\ k = "addr_mode"
                   /\ g_config =
                        Inferred([g_config EXCEPT !.addr_mode = "sentinel"])

(***************************************************************************)
(* What a comment says; the code departs from it.                          *)
(***************************************************************************)

\* "Preserves comments and unknown fields" (config.h:31): a save keeps them all,
\* however long the file is and whatever its last line is like.
UnknownPreserved ==
    Clean => Others(Lines(config_file.lines)) = Others(Lines(before.lines))
=============================================================================
