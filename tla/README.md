# A TLA+ verification of the SN110 DMX gateway

The repository is the open firmware of a Strand SN110 node: a daemon that turns
network lighting data (sACN, Art-Net, ShowNet) into DMX on two ports, and DMX
input into sACN, plus a web form that edits its configuration, on a uClinux
board without an MMU. This directory holds TLA+ modules translated from that
code, TLC configurations that check them on small instances, and TLAPS proofs.

Line numbers refer to `src/main.c` of the repository unless a file is named.

## 1. The system

### Parts, state and operations

| Part | State | Operations |
|---|---|---|
| **Output path** (`main.c`) | `g_dmx_out[port]` (look, priority, stamp), `dmx_last_write`, `dmx_fds` | `handle_sacn_packet`, `handle_artnet_packet`, `handle_shownet_packet` merge a packet into the ports of its universe; `dmx_output_cycle` writes fresh looks and blacks out a silent source; `dmx_tx_write` closes, opens, writes, closes and reopens the device |
| **Input path** (`main.c`, `sacn/sacn_tx.c`) | `g_dmx_in[port]`, `g_dmx_in_last_send`, `sacn_tx_t.sequence` | `dmx_input_cycle` reads each RX port, sends changes at once and repeats as keep-alive; `sacn_tx_send` |
| **Descriptors** (`main.c` and the `*_init`, `*_cleanup` functions) | the process's descriptor table and the variables that hold numbers of it | opened by `main()`, churned by `dmx_tx_write`, closed at shutdown |
| **Daemon** (`main.c`) | `g_running`, the PID file | start, `signal_handler`, shutdown; restarted by the `/etc/rc` watchdog |
| **Receivers** (`sacn/sacn.c`, `artnet/artnet.c`, `shownet/shownet.c`) | one UDP socket | parse one datagram per call; only the sACN socket is non-blocking |
| **Configuration** (`config/config.c`) | `/etc/220node.cfg`, the Strand subset, the ifup script | load, merge-and-save, size-checked save of the subset, script generation |
| **Web CGI** (`cgi/*`, `tools/web/cfgpost.cgi`) | none of its own | parse a form, save all three files, write the subset to flash |
| **Mini C library** (`oabi/*`) | an 8-entry FILE table, a bump heap | buffered I/O, threads, system calls |
| **Driver back ends** (`dmx/*`) | kernel device, or a mock | open, close, read, write, mode ioctl |

The daemon is one thread. Each iteration of its loop receives at most one
datagram, sleeps 23 ms, runs the output cycle and then the input cycle. Its
concurrency is with the outside: the network, the clock, a kernel driver whose
`open` may fail, signals, the watchdog, and CGI processes that rewrite the
configuration.

### What is hard

* **Time.** Stamps are `uint32_t` milliseconds that wrap after 49.7 days. Some
  decisions compare stamps (wrong across the wrap), others subtract them (right
  across it), and 0 doubles as "never".
* **Two timeouts that do not know of each other.** The hold time darkens a port
  and resets its priority; `SACN_TIMEOUT_MS` lets a lower priority in.
* **Partial failure.** `dmx_tx_write` has two opens that can fail, each leaving a
  different state behind, one of them a closed number that is closed again.
* **Blocking.** Two of the three receive calls block the loop that is supposed to
  notice that nothing arrives.
* **Retry.** A failed send leaves the frame marked as known, so the retry depends
  on the keep-alive.
* **Persistence.** Configuration files are truncated and rewritten in place,
  without a lock, by short-lived processes.

`PROJECT.json` lists these as hazards with their lines and the properties that
guard each.

### What makes each part correct

* Output: every accepted packet reaches the line; a line is dark in time after its
  source stops, and never earlier; priority decides between sources.
* Input: every change reaches the network, also after failures; keep-alives are
  regular; sequence numbers are contiguous.
* Descriptors: none leaks; none is closed behind its owner's back.
* Loop: the two halves do not disturb each other; a backlog in the socket delays a
  look by a bounded time; a look on the input line gets through to the outputs.
* Receivers: what a conforming sender means is what arrives; no length field makes
  a receive function read bytes that were not received.
* Files of the C library: buffers are not to be seen, whatever `read()` returns.
* Daemon: SIGTERM stops its loop within a cycle; a stale PID file has one of four
  reasons, and one signal of each kind is none of them.
* Configuration: what was saved is what is loaded, from the files and from the
  flash; a save keeps what it does not manage; a reader sees new settings or
  defaults, never parts of old ones; the flash gets Strand's keys and lines and no
  extension key. Where the last line of a file is not finished, a save spoils at
  most the two keys that meet there.

## 2. The modules

| Module | Models |
|---|---|
| `Clock` | `now_ms()`: readings modulo `Wrap`, unsigned differences |
| `DmxOutput` | the loop with receive, sleep and output cycle |
| `DmxInput` | the loop with sleep and input cycle |
| `DmxFds` | the descriptor table from start to shutdown |
| `Node` | both halves in one loop, with the sACN socket's queue between it and the network |
| `Packets` | the receive functions and the transmitter: from a datagram's fields to a packet and back |
| `Daemon` | the process: signals, running flag, PID file, shutdown, restart |
| `ConfigFile` | the file format: what a load and a save make of a file |
| `ConfigStore` | a POST's sequence of saves, the flash, power losses |
| `PlainFile` | abstract: what a caller may expect of files, without buffers |
| `MiniFile` | the C library's FILE table and buffers, which implement `PlainFile` |
| `MCDmxOutput`, `MCDmxInput`, `MCDmxFds`, `MCNode`, `MCPackets`, `MCConfigStore`, `MCMiniFile` | instances for TLC |
| `DmxOutputProofs`, `DmxInputProofs`, `DmxFdsProofs`, `NodeProofs`, `PacketsProofs`, `DaemonProofs`, `MiniFileProofs`, `ConfigStoreProofs` | theorems and proofs |

`Node` composes `DmxOutput` and `DmxInput`: its actions conjoin theirs, and its
properties `ImplementsOutput` and `ImplementsInput` say that it refines each. The
other modules share no state; where one abstracts what another details, its
section says so.

### `DmxOutput`

A `phase` variable follows the loop: `recv`, `sleep`, `output`. Each call is one
action, as the daemon is single-threaded.

| Action | Code |
|---|---|
| `ReceiveSacn`, `ReceiveArtnet`, `ReceiveShownet` | a packet arrives and its handler runs (413-439, 84-142) |
| `ReceiveOther` | a datagram that the receive function rejects |
| `ReceiveNothing` | the non-blocking `recv` finds nothing, or there is no socket |
| `BlockedInRecv` | time passes inside a blocking `recvfrom` |
| `Sleep` | `usleep(23000)` plus whatever the scheduler adds, `1..MaxDelay` ticks |
| `OutputCycle` | `dmx_output_cycle` with `dmx_tx_write` for every port it writes (188-245) |
| `NetworkLost` | environment: no datagram arrives any more |

`g_dmx_out`, `fds`, `last_write`, `g_config` keep the program's names. `wire` is
the frame the DMX line carries: the driver transmits when the descriptor is
closed, so a successful first open puts the frame there. `fds[p]` tells apart the
three states that matter: an open descriptor, a negative number, and the closed
number a failed open leaves behind; the numbers themselves are the subject of `DmxFds`.
`heard`, `missed` and `wrapped` are history variables, read only by properties:
the true age of the last packet taken over (saturating at `QuietCap`), whether the
last write failed to open the device, and whether the clock has wrapped.

Abstractions: a tick is one undelayed loop period, and the time the calls take is
part of the sleep, so the several `now_ms()` readings inside one call coincide.
Frames have `FrameSize` channels. The `length`, `sequence` and `source_ip` fields
of `dmx_frame_t` are never read by this path and are left out. A parsed packet is
a record of what the handler reads. Every configuration `config_load` could return
is a member of `Config`; the configuration never changes while the daemon runs.
Protocol `"none"` also stands for a receive socket that could not be created.

### `DmxInput`

Per RX port: the stored frame, the time of the last successful send, the next
sequence number. `dmx_input_cycle` is one action that reads any frame or nothing
on every port; `link` says whether `sendto()` succeeds and changes freely. The
stored frame is updated before the send is tried and `last_send` after it has
succeeded, as in the code. `MaxDelay` bounds one loop iteration, so the
module speaks of a daemon whose receive call does not block (sACN, or no
protocol); with Art-Net or ShowNet this half stalls together with the output half.

### `Node`

The whole loop with sACN: `recv`, `sleep`, `output`, `input`. Receiving is split from
arriving: datagrams wait in `queue`, of which the loop takes one per iteration
(413-416) and which drops what arrives when it holds `QueueCap`. `InputCycle` puts the
node's own packet into the queue when it sends on the universe whose group the socket
has joined, the one of `ports[0]` (357), as multicast is looped back by default. `Out`
and `In` are instances of the halves; for `Out` the input cycle belongs to the next
iteration's receive, for `In` receiving and output belong to the sleep. `joined` says
whether `sacn_init` could join the group: a failure is only logged (`sacn.c:77-82`),
and the node's own packets do not come back then. Every step of `Node` is a step of
each half or leaves it unchanged. `lag` and `steady` are history variables: how long
the packet last taken over had waited, and for how long the node has been the only
source with an unchanged input. `PassesThrough` asks for a hold time that spans a
keep-alive interval and one loop iteration. With a shorter one it is false: the
outputs go dark before each keep-alive and light up with it. In the code this is the
hold time 0, which the web form accepts, against a keep-alive interval of 900 ms; 1 s
is enough as long as an iteration takes no more than 100 ms.

### `Packets`

A datagram is a record of the header fields the code reads, each with a small range,
and the bytes that follow; `sacn_receive`, `artnet_receive` and `shownet_receive`
are operators that return the parsed packet or reject it, test by test in the code's
order, with the clamps of the length fields. The length that must not be
exceeded is what was received. `shownet_decode_rle` is a recursion over the input
bytes. A state holds one datagram (`wire`), what its sender meant (`meant`) and
what was made of it (`got`). `SendSacn` is `sacn_tx_build_packet`, so that what one
node sends is read by the other; `SendArtDmx`, `SendShownet` and `SendEncoded`
follow the protocols; `SendAnything` is any record of fields. An sACN packet carries
its priority and sequence number. `SendPoll` is an ArtPoll, of the protocol's 14 bytes
or longer; `artnet_receive` answers the longer ones (`answered`).

### `DmxFds`

The kernel's table maps numbers to objects (a device, a transmit socket, the
protocol socket) or `Free`. `OpenProtocolSocket`, `OpenPort`, `SkipPort` and
`EnterLoop` are the start of `main()`, port by port in the code's order;
`WriteFails` and `WriteFrame` are the outcomes of `dmx_tx_write`; `Shutdown`
closes whatever the variables hold. An `open` returns any free number, which
includes the lowest one the kernel would take, or the `-errno` of the bare system call
(`oabi/syscalls.S:6-9`), which `dmx_fds` then keeps (207, 381); `Errno` is the set of
these. Debug files opened and closed within one call are left out.

### `Daemon`

`pc` follows `main()`: handlers installed, PID file written, the test of
`g_running`, the receive call, one cycle, close, unlink. `Deliver` and `Kill` put
a SIGTERM or SIGINT between any two of these steps; `signal()` is the bare system
call of `oabi/syscalls.S`, so a handler runs once and the default action, death,
is back afterwards. A signal interrupts a receive call that waits, and is lost on
one that has not begun to. `write_pid_file` and `remove_pid_file` may fail, and
the daemon takes no notice (159-176). `Crash` ends the process anywhere, `Start` is the
watchdog. `blocking`, chosen by `Init`, says whether the protocol's receive call waits.
`seen`, `late` and `ended` are history variables: the signals a process has handled,
the cycles it has begun since SIGTERM, and how the last process ended. None of them
decides what the process does.

### `ConfigFile` and `ConfigStore`

A file is a sequence of lines with a key, a text and a newline that may be missing
at the end. Seven managed keys stand for the eighteen, one for each way a value is
converted (the module's head lists which stands for which), `dmx2_label` among them,
which is managed but no strand key. `config_load` is the last line of each key, with
defaults, fall-backs, truncation to 16 bits, clamps and the inference of the address
mode; `config_save_internal` rewrites listed keys in place, drops extension keys for
the flash, appends what is missing. `Reads` is the part of the old file that fits the
2047-byte buffer (`ReadCap` lines), cut between lines, inside one or before a newline.

A line without its newline is where a file and a save go wrong, so all its kinds are
there. A comment or a part of a key swallows the line appended behind it. A managed
key and `=` with nothing more (`OpenKey`) does not count as that key, because `sscanf`
at `config.c:460` finds one item and not two, so the save copies it verbatim and appends
the missing keys; but the line that results, `key =key = value`, has a value for
`config_load` (`Glued`). `Spoiled` names the keys this concerns: the first one appended
and the one the file ends behind. `Sound` says that there is none. `config_posts`
starts with files of both kinds and comes to files that the buffer cuts.

`ConfigStore` runs one POST at a time: `Post` loads and merges the form,
`OpenConfig` and `OpenStrand` read back and truncate, `FlushConfig` and
`FlushStrand` write a buffer of `FlushLines` lines, `OpenFails` skips a file,
`config_generate_ifup` and `Put` end the POST. An `fopen` for reading may fail as well
(`IfFails`): the CGI then starts from the defaults, or a save from an empty file.
`PowerLoss` may come after any of them; it keeps `/etc` or loses it to what `nodecfg`
generates from the flash, which of the two the device does being unknown (the plans
of the repository call it untested). `Generated` leaves open, as they do, whether
`nodecfg` gives back keys that its own program does not know. `g_config` is what a
daemon started now would load. `before`, `strand_before`, `failed` and `settled` are
history variables for the properties. `nodecfg` itself is external: `flash` is the
file it was given last.

A daemon may start at any of these moments and load what it finds; `g_config` is
what it would get, and `PartialLoad` bounds it during a save. A load is one
step: one that itself overlaps a save is left out, and so are lines longer than 255
bytes, which the code handles in pieces, an unfinished last line of blanks, the MAC
address that the CGI asks the network for when the file has none
(`cgi_config.c:293-295`), the addresses of `ifup` beyond the mode and the address, and
write errors. That writes arrive buffer by buffer and in order is what `MiniFile` is
shown to provide.

### `MiniFile` and `PlainFile`

`files` is `_files[]` with its slots, `disk` what has reached the files. `fopen`,
`fopen_fails`, `fclose`, `fwrite` (and `fputs`) and `fprintf` are one step each.
`fgets` and `fread` loop: `Begin`, then `Take` (a byte from the buffer), `Refill`
(`fgets` reads into the empty buffer), `ReadDirectly` (`fread` bypasses it) and
`Return`; a `read()` may deliver any part of what it is asked for. `fopen` empties
the file before it finds the table full (473). `Killed` may come between any two
steps and loses the buffers.

`PlainFile` has no buffers: a write changes the file at once, a read returns the
file's bytes from the stream's position, a line ends where its newline is, and the
death of a process leaves a first part of what it was writing. The refinement
mapping `Plain` takes a file's content to be what is on the disk and, behind it, the
buffer of the stream that writes it; and a stream's position to be the descriptor's,
less what is still in the buffer and in the call under way.

The model speaks of the way `config.c` uses streams: a path is open once, a stream is
used for `fprintf` or for `fputs` and `fwrite`, never both (mixing them would reorder
the output), and written streams are not read. A failing `read()` ends a call as the
end of the file does (514, 546) and is not told apart from it. `ungetc`, `fseek` and
the like do not exist in the library.

## 3. The runs

Passing runs:

| Run | Asks |
|---|---|
| `output_one_port` | One TX port under sACN (hold time 0, below and above `SACN_TIMEOUT_MS`), Art-Net, ShowNet and no protocol; packets with two priorities, short, all-zero, for another universe and with another start code; failing opens; a clock that starts near 0 and wraps; time passing inside a blocking receive call. Checks `TypeOK`, `FrameShown`, `BlackoutDeadline`, `BlackoutJustified`, `PriorityRespected` and, under fairness and for receive calls that do not block, `SourceLossGoesDark`. |
| `input` | One RX port, two frames of different lengths, an unreliable `sendto`, a sequence counter of 3 values and a clock of 11. Checks `TypeOK`, `ChangeNotSwallowed`, `KeepAliveKept`, `SequenceContiguous`, `NetworkCatchesUp`. |
| `descriptors` | Three ports in every combination of modes, five descriptor numbers, every open free to fail with one of two error numbers. Checks `TypeOK`, `BystandersKept`, `NoLeak`. Deadlock is not checked: a stopped daemon has no next step. |
| `daemon` | A daemon with either kind of receive call; SIGTERM, SIGINT and crashes anywhere, PID files that cannot be written or removed. Checks `OneCycleMore`, `StaleFileExplained` and, for a receive call that does not block and under fairness, `TermEnds`. |
| `node` | An input and an output on one universe, a multicast group that could be joined or not, another source with a higher priority, a queue of two datagrams, packets lost to a full queue and to failed sends. Checks `TypeOK`, `QueueMoves`, `LookAgeBounded`, `PassesThrough` and the refinements `ImplementsOutput` and `ImplementsInput`. |
| `packets` | Every record of header fields over small ranges, well-formed or not, with up to three bytes of data, and the senders of the three protocols. Checks `OnlyReceivedBytes`, `Transparent`, `RunsDecoded`. |
| `mini_file` | Three files over two slots, buffers of two bytes, data shorter and longer than a buffer, `read()` calls that deliver any part, failing opens, a full table, a killed process. Checks `TypeOK`, the refinement `ImplementsPlain` and, under fairness, `CallsReturn`. |
| `config_posts` | Any sequence of POSTs of two partial forms over a hand-edited file that its saves make longer than the buffer, two files whose last line is not finished and a missing file, with lines of Strand's own in the file for the flash, power losses and failing opens between any two steps. Checks `TypeOK`, `SaveTakesEffect`, `UnknownKept`, `FlashAgrees`, `FlashForStrand`, `ScriptAgrees`, `NoGrowth`, `SavedOrKept`, `PartialLoad`. |

Runs that show the code departing from what its comments and documents say:

| Run | What TLC finds |
|---|---|
| `output_wrap` | The comment at line 12 promises that fresh data is written. After the wrap new stamps are smaller than `last_write` (224) and the line is frozen while packets are accepted. |
| `output_artnet_hold` | Line 13 promises zero on timeout, and 410 non-blocking sockets. Art-Net's socket blocks; when the source stops, the line stays lit past the hold time. |
| `daemon_lights_on` | SAFETY.md:179 promises ports set to zero at shutdown. The shutdown closes the devices and writes nothing. |
| `config_unknown` | `config.h:31` says that a save preserves comments and unknown fields. It reads back 2047 bytes (`config.c:426`) and loses those behind them. |

Behaviour the models contain and no run reports, worth knowing when reading the code:

* A blackout whose `open` fails is lost for good: the stamp is cleared before the
  write (200, 207). `BlackoutDeadline` excepts a port whose last write failed.
* Strand's own lines (`nodetype`, `boottest`) are kept in the file that holds them.
  `config.c:13-14` preserves them "so nodecfg can still read them", but `nodecfg put` is
  given the other file, and where that does not exist yet, it is made without them.
  `FlashForStrand` speaks of the lines that the file for the flash held.
* `dmx2_label` is no strand key, though `dmx1_label` is: a regeneration from the flash
  forgets it.
* The first appended key is lost behind an unfinished last line, and a key the file ends
  behind is loaded with the appended line as its value. The page says
  "Configuration saved." when nothing could be opened; if a file could not be opened
  for reading, its other lines are gone after the save. An address mode nobody chose
  is inferred from the address, but saved as static with address 0 when there is no
  file.
* An ArtPoll of the protocol's 14 bytes is too short for the test at
  `artnet.c:138` and is not answered, where `docs/protocols.md:75-76` says that a
  controller sends it and nodes respond. `SendPoll` has it; no property is made of it,
  since one would either restate the test or fail.
* A daemon that ends in order leaves its PID file behind when `unlink()` fails (173-176).
* Only port 0's multicast group is joined (357), or none, with a line in the log. An
  input whose cable is pulled is kept alive for ever with its last frame (270). A
  ShowNet packet for the middle of a universe is copied to its channel 1. `slot_count`
  is ignored for encoded ShowNet data, and `shownet_decode_rle` never returns the -1
  its caller tests for.
* A SIGTERM between the test of `g_running` and a blocking receive waits for the
  next datagram (`TermEnds` leaves such daemons out).
* Form fields are cut at 191 bytes (`cgi_parse.h:85`), and the rest is read as the
  next key.

### Bounds

Ports do not influence one another in the output and input paths except through
the loop, so one active port, beside an inactive or an input port, carries the timing
properties; that they hold for every number of ports is what the proofs add. Two channels
are enough to tell a short packet from a full one, two levels to tell light from dark.
`SacnTimeout = 3`, hold times 0, 2 and 4 and `MaxDelay = 2` put every comparison below, at and beyond its boundary. `Wrap = 10`
is above `QuietCap`, as 2^32 ms is above every hold time the 16-bit field can
express in seconds, and small enough that every run wraps many times. `QuietCap`
is above every age a property compares with. `SeqWrap = 3` makes the sequence
number wrap. Three ports and five numbers let two TX ports trade a stale number
while an RX port with its two descriptors stands by, and let the table fill up.

`Daemon` is finite without bounds (`late` counts to 2). `ConfigStore` is finite
because forms and files are: nothing counts POSTs, so the runs cover any sequence of
them. The files hold duplicate keys, values out of range, words that need a fall-back,
and last lines that end in a comment or behind `key =`. `FlushLines = 6` splits a save
into several writes. `ReadCap = 10` lies between the lengths of the files: the
hand-edited one has eight lines and its first save appends three keys, so that the
next one cuts it, and the file of eleven comments of `config_unknown` is cut at once.
`PutLimit = 16` is above what a save for the flash can produce, as 4096 bytes are, so
the script's test never fires. `MaxFails = 1` lets one `fopen` fail, for reading or
writing, at any place.

`Node` stops its clock at `Horizon = 13`, which is beyond `SettleTime` and the hold
time of 5 ticks, so that a backlog is taken over, its source times out and the
node's own look comes round. `QueueCap = 2` and one datagram per iteration let the
queue fill up within two arrivals; the clock's `Wrap` of 16 lies beyond the horizon,
as the wrap is the subject of the `DmxOutput` runs and of the proofs. In `MiniFile`
a buffer of two bytes is crossed by lines and by writes, `MaxLength` bounds what is
written to each file, and two slots for three files let the table fill up. In
`Packets` universes of three channels, a ShowNet buffer of five bytes and length
fields up to 5 put every clamp below, at and above its limit; an encoding of three
runs is longer than the buffer.

### Fairness

`DmxOutput!FairSpec` has weak fairness on `Loop`: receive, sleep and cycle. The
process runs whenever it is not waiting, and `Receive` is not enabled while a
blocking receive has no datagram, so no fairness is claimed for a call that waits.
Nothing obliges the network to send. `DmxInput!FairSpec` has weak fairness on
`Sleep` and on the cycle, and none on `LinkChanges`: recovery is conditional on
the link staying up. `MiniFile!FairSpec` has weak fairness on the iterations of
a call that has begun: the process runs on, and `read()` of a file does not
wait. `Daemon!FairSpec` has weak fairness on the steps of the process and on the
watchdog, none on the network (`Arrive`), signals or crashes.

## 4. The proofs

All theorems are of the form `Spec => []P`, `Spec => [][A]_vars` or, for a
refinement, `Spec => Abstract!Spec`, for every value of the constants that satisfies
the named assumptions.

* **`DmxOutputProofs`** rests on three inductive invariants, and on lemmas about time
  stamps: `Elapsed` grows with the clock, also across the wrap, as long as the age
  stays below `Wrap`.
  * `Ledger`: the merge state of a port either describes the last packet taken
    over, stamp and priority, or was reset by a blackout after a silence longer than
    the hold time; and the recorded age is the true one unless saturated. It is
    needed because the code sees only stamps, the properties speak of true ages. It
    gives `BlackoutsAreJustified` and `PriorityIsRespected`.
  * `Synced`: before the wrap every stamp is at most `now`, `last_write` is below
    `now`, and a port without fresh data shows its look. The strict inequality is
    where the sleep between receiving and writing matters. It gives
    `FramesAreShown`.
  * `Aging`: a bound on the age of a look for each phase. It gives
    `BlackoutInTime`, for protocols whose receive call does not block; the
    Art-Net run shows that the restriction is needed.
* **`DmxInputProofs`**: `SequenceInv` (the counter is one ahead of the network)
  gives `SequenceIsContiguous`; `ChangeInv` (stored frame, last frame read and
  last packet stay in step, or a send has failed) gives `ChangesAreNotSwallowed`;
  `QuietInv` (`last_send` measures the true gap) gives `KeepAliveIsKept`.
* **`DmxFdsProofs`**: the invariant says that bystanders own their numbers (`Kept`),
  that a TX port's number, stale or not, refers to nothing but a TX port's device
  (`Strays`), and that every open number is held by a variable (`Accounted`). It
  gives `BystandersAreKept` and `NothingLeaks`: the second close of a stale number
  can only hit another TX port's device, which that port reopens anyway. `TypeCorrect`
  says that what the program keeps is a number it was given, -1 or an error, never one of
  the standard descriptors.
* **`DaemonProofs`**: `Stopping` relates the flag, the signals handled and the cycles
  begun: within the loop, past the test, no cycle has begun since SIGTERM. It gives
  `LoopStopsAtOnce`. `Handled` says that a handler which is gone has run, so a
  signal that kills after the start is the second of its kind; it gives
  `StaleFilesAreExplained`. Both hold for blocking and non-blocking receive calls.
* **`NodeProofs`**: `OutputImplemented` and `InputImplemented` show, action by
  action, that the loop implements each half, so the theorems of `DmxOutputProofs`
  and `DmxInputProofs` hold of the composition; `SameOutput` and `SameInput` connect
  the instances in which those proofs are reused. `QueueKeepsMoving` needs to know
  that a packet's age and place go together; `LookAgeIsBounded` combines it, through
  the bound on `lag`, with `BlackoutInTime` of the output half. `LooksPassThrough` is
  an argument about progress told as a safety invariant, by comparing `steady` with
  the clock. While a look is steady, whatever else is in the queue has waited at least
  as long (`OthersDrain`), so that after a full queue's time only the node's own
  packets are received; a higher priority left on an output is from before (`Yields`)
  and runs out after `SacnTimeout`; and the last packet was sent no longer ago than
  the keep-alive interval (`KeptAlive`). Hence the last packet sent has reached the
  outputs, or is still in the queue, or was sent before the way was clear (`Reaches`).
  An output that was reached is not blacked out, because the hold time spans the gap
  between keep-alives, and `FramesAreShown` of the output half puts its look on the
  line.
* **`PacketsProofs`**: `Understood` says that the datagram on the wire parses to what
  its sender means, and that a parsed packet is what was meant. Each of the three
  cases shows that the receive buffer and the clamps cut nothing of a conforming
  packet. It gives `SendersAreUnderstood`, for every universe size and frame, and for
  every priority and sequence number of an sACN packet.
  `Received` says the same of datagrams that follow nothing: whatever the header
  claims, what is copied lies inside what was received (`LevelsWereReceived`).
  The run-length decoder is a recursive function over the input. `DecodeUnfolds`
  shows, by an induction from the last byte to the first (`Induction`, over a set of
  numbers as in `ConfigStoreProofs`), that its recursion has a solution, which
  `CHOOSE` alone does not say; `DecodedType` that it returns levels it was given, no
  more than there is room for. `DecodeToken` decodes one token, `DecodeTokens` all
  that arrived whole, and `DecodeTail` bounds what a cut token adds, so `Decoded`
  gives `RunsAreDecoded`, for every list of tokens and every size of the buffers.
* **`MiniFileProofs`**: the invariant says that a path is open once (`Exclusive`),
  that a stream used for `fprintf` has an empty buffer (`Unbuffered`), that a read
  buffer holds the bytes before the descriptor's position (`ReadAhead`), and that a
  call under way has collected the bytes before those (`Collected`), no newline but
  the last among them (`Wanted`). With it, `Take`, `Refill` and `ReadDirectly` are
  stutters of `PlainFile`, `Return` is its `GetLine` or `Read`, and `Killed` its
  `Die`: this is `BuffersAreInvisible`, for every buffer size and content.
* **`ConfigStoreProofs`**: all nine properties of `ConfigStore`, for files of any
  length and content, any forms, any size of the buffers.
  * A save goes through a file line by line (`Keep`), so its effect is shown by
    induction on the length. The induction theorems of the library take an
    operator as a parameter, so `Induction` speaks of a set of numbers instead, and
    follows from the library's theorem that every set of numbers has a least one.
    `KeepAppend` and `KeepConcat` are what the rest uses of it.
  * `LinesShape` and `ReadsShape` say what is read of a file in which one line has
    lost its newline: lines of which only the last may be cut. `SaveShape` says that a
    save is the old lines, rewritten in place, and one new line for each key that was
    missing. `Saved` collects what follows of lines that were read: every listed key
    is there, with its new text on every line; the other lines are kept in their
    order; how long the output is; and that no newline is missing but at the cut,
    where the two lines that meet have the keys of `Spoiled`. `SaveOutput` proves it;
    `SaveWhole` and `SavePart` are about the lines a load sees of the output and of
    its first part, where the cut line and the first appended one are glued.
  * The invariant `IInv` follows a POST: the file as far as it has been flushed
    together with what is left to do (`todo`) is `SavedFrom` the file found, or from
    nothing if opening it may have failed (`ConfigDone`), and so for the file for the
    flash (`StrandDone`), the script (`ScriptDone`) and the flash (`FlashDone`).
    `Typed` says that no sequence of saves, failures and power losses leaves a file with
    two unfinished lines, or with one of a managed key that is not the last (`OneCut`): it is what makes the next POST's
    file one the lemmas speak of.
    `Merged` (no address with DHCP) is needed where the flash has no `addr_mode`
    and a load infers it.
  * The properties about loading follow from `IInv` because all lines with a key say
    the same, so that it does not matter which one is the last; `Spoiled` names the keys
    of which this is not true.

Assumptions: `OutputAssumption`, `InputAssumption`, `FdAssumption`,
`WrapAssumption`, `HalvesAssumption`, `NodeAssumption`, `PacketsAssumption` (a
full universe fits the ShowNet buffer, a universe is not empty, and an encoding is a
list of at least one token), `MiniFileAssumption`, `ConfigFileAssumption`
and `StoreAssumption` state the types of the constants and that timeouts plus one
loop iteration stay below the clock's width. `ConfigFileAssumption` also says that the
buffer of a save holds a line for each of Strand's keys, and that the words a save
writes are words; `StoreAssumption` that a file the node starts with has no unfinished
line but the last, and that the file for the flash stays below the size the script
tests for. TLC evaluates them in every run.

Only model-checked: the liveness properties `SourceLossGoesDark`,
`NetworkCatchesUp`, `TermEnds` and `CallsReturn`, as the prover does not handle
fairness. Every safety property of a passing run is stated by a theorem. `Daemon`'s type
invariant is only proved, and so are the timing properties of several TX ports at once
(the runs have one TX port).

## 5. Not modelled, and what could follow

Left out for good: log messages, debug files and statistics, the HTML output, the
contents of the ArtPollReply, CID generation, number and string formatting, the
bump allocator and the thread wrapper (nothing the daemon does depends on them), the
system call stubs, host-side scripts and test senders.

Left out so far:

1. Two POSTs at a time, each writing at its own offset: lost settings, overlapping
   bytes. `ConfigStore` would need a process identity and byte offsets.
2. The parsing of a form: `ConfigStore` starts from the fields that were parsed.
3. An abstract port (lit by its source, dark after a bounded silence) that
   `DmxOutput` implements by refinement.
4. A full disk: `MiniFile` lets every `write()` succeed, the library ignores its
   result.
