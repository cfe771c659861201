-------------------------- MODULE DmxOutputProofs --------------------------
(***************************************************************************)
(* Invariance proofs for DmxOutput, for every number of ports, frame size, *)
(* configuration, packet set, hold time and clock width.                   *)
(*                                                                         *)
(* Three inductive invariants carry them:                                  *)
(*   Ledger   what the merge state of a port says about the last packet    *)
(*            taken over, and how old that packet really is;               *)
(*   Synced   why comparing time stamps finds every new packet as long as  *)
(*            the clock has not wrapped;                                   *)
(*   Aging    how old a look can be in each phase of the loop, when the    *)
(*            receive call does not block.                                 *)
(***************************************************************************)
EXTENDS DmxOutput, TLAPS

(***************************************************************************)
(* Time stamps.                                                            *)
(***************************************************************************)

\* now_ms() stays a uint32_t reading.
LEMMA LaterInTime ==
    ASSUME NEW t \in Time, NEW d \in Nat, d < Wrap
    PROVE  Later(t, d) \in Time
BY WrapAssumption DEF Later, Time

\* Differences grow with the clock, also across the wrap, as long as they stay
\* below Wrap.
LEMMA ElapsedLater ==
    ASSUME NEW t \in Time, NEW s \in Time, NEW d \in Nat,
           Elapsed(t, s) + d < Wrap
    PROVE  Elapsed(Later(t, d), s) = Elapsed(t, s) + d
BY WrapAssumption DEF Elapsed, Later, Time

\* No time has passed since a packet that is stamped now.
LEMMA ElapsedZero ==
    ASSUME NEW t \in Time
    PROVE  Elapsed(t, t) = 0
BY DEF Elapsed, Time

\* The age kept in heard is the true one until it saturates, and the port's
\* entry in g_dmx_out either describes the last packet taken over or has been
\* reset by a blackout, which takes a silence longer than the hold time.
Ledger ==
    \A p \in Port :
        /\ \/ heard[p].quiet = QuietCap
           \/ heard[p].quiet = Elapsed(now, heard[p].stamp)
        /\ \/ /\ g_dmx_out[p].last_update = heard[p].stamp
              /\ g_dmx_out[p].priority = heard[p].priority
           \/ /\ g_dmx_out[p].last_update = 0
              /\ g_dmx_out[p].priority = 0
              /\ heard[p].quiet > g_config.hold

\* Whatever was received before the last sleep has been written.
Settled == phase = "recv" => \A p \in Port : Active(p) => ~Fresh(p)

\* Before the clock wraps, a packet is stamped later than every past write, and
\* a port without fresh data has its look on the line.
Synced ==
    /\ Settled
    /\ ~wrapped => \A p \in Port :
          /\ last_write[p] < now
          /\ g_dmx_out[p].last_update <= now
          /\ phase # "sleep" => g_dmx_out[p].last_update < now
          /\ Active(p) /\ ~missed[p] /\ ~Fresh(p) => wire[p] = g_dmx_out[p].data

NonBlocking == g_config.protocol \in {"sacn", "none"}

\* How old a look can be in each phase.
AgeLimit == IF phase = "output" THEN Deadline
                                ELSE Larger(g_config.hold, MaxDelay)

Aging ==
    /\ Settled
    /\ NonBlocking => \A p \in Port : Active(p) =>
          /\ g_dmx_out[p].last_update # 0 =>
                /\ g_dmx_out[p].last_update = heard[p].stamp
                /\ heard[p].quiet = Elapsed(now, heard[p].stamp)
                /\ heard[p].quiet <= AgeLimit
          /\ Fresh(p) => /\ phase = "sleep" => heard[p].quiet = 0
                         /\ phase = "output" => heard[p].quiet <= MaxDelay
          /\ ~missed[p] /\ heard[p].stamp # 0 /\ wire[p] # Dark =>
                g_dmx_out[p].last_update # 0

(***************************************************************************)
(* Types.                                                                  *)
(***************************************************************************)

\* What the assumptions on the constants give for the configuration in force.
LEMMA ConfigFacts ==
    ASSUME g_config \in Config
    PROVE  /\ g_config.mode \in [Port -> Mode]
           /\ g_config.hold \in Nat
           /\ MaxDelay \in Nat
           /\ Deadline \in Nat
           /\ Deadline < QuietCap
           /\ g_config.hold < QuietCap
           /\ SacnTimeout < QuietCap
           /\ QuietCap \in Nat
           /\ QuietCap < Wrap
           /\ MaxDelay < Wrap
BY OutputAssumption, WrapAssumption DEF Deadline, Larger

\* Overlay yields a full frame.
LEMMA OverlayType ==
    ASSUME NEW f \in Frame, NEW d \in Payload
    PROVE  Overlay(f, d) \in Frame
<1>1. ASSUME NEW c \in Channel
      PROVE  (IF c <= Len(d) THEN d[c] ELSE f[c]) \in Level
  <2>1. d \in Seq(Level) /\ Len(d) \in Nat
    BY DEF Payload
  <2>2. CASE c <= Len(d)
    <3>1. c \in 1 .. Len(d)
      BY <2>1, <2>2, <1>1, OutputAssumption DEF Channel
    <3>2. d[c] \in Level
      BY <2>1, <3>1
    <3> QED BY <2>2, <3>2
  <2>3. CASE ~(c <= Len(d))
    BY <2>3, <1>1 DEF Frame
  <2> QED BY <2>2, <2>3
<1> QED BY <1>1 DEF Overlay, Frame

\* The all-zero frame is a frame.
LEMMA DarkType == Dark \in Frame
BY OutputAssumption DEF Dark, Frame

\* Storing a packet keeps the merge state and the history well-typed.
LEMMA StoreType ==
    ASSUME TypeOK, NEW took, NEW data \in Payload,
           NEW priority \in [Port -> Priority],
           Store(took, data, priority)
    PROVE  g_dmx_out' \in [Port -> OutFrame] /\ heard' \in [Port -> Heard]
<1>1. ASSUME NEW p \in Port
      PROVE  [data |-> Overlay(g_dmx_out[p].data, data),
              priority |-> priority[p], last_update |-> now] \in OutFrame
  <2>1. g_dmx_out[p].data \in Frame
    BY DEF TypeOK, OutFrame
  <2>2. Overlay(g_dmx_out[p].data, data) \in Frame
    BY <2>1, OverlayType
  <2> QED BY <2>2 DEF OutFrame, TypeOK
<1>2. 0 \in 0 .. QuietCap
  BY OutputAssumption
<1>3. ASSUME NEW p \in Port
      PROVE  [priority |-> priority[p], stamp |-> now, quiet |-> 0] \in Heard
  BY <1>2 DEF Heard, TypeOK
<1> QED BY <1>1, <1>3 DEF Store, TypeOK

\* Blacking out a port keeps its merge state well-typed.
LEMMA HeldType ==
    ASSUME TypeOK, NEW p \in Port
    PROVE  Held(p) \in OutFrame
<1>1. [data |-> Dark, priority |-> 0, last_update |-> 0] \in OutFrame
  BY DarkType, WrapAssumption DEF OutFrame, Priority, Time
<1> QED BY <1>1 DEF Held, TypeOK

\* The passing of time keeps clock and history well-typed.
LEMMA ElapseType ==
    ASSUME TypeOK, NEW d \in 1 .. MaxDelay, Elapse(d)
    PROVE  now' \in Time /\ wrapped' \in BOOLEAN /\ heard' \in [Port -> Heard]
<1>1. d \in Nat /\ d < Wrap
  BY ConfigFacts, WrapAssumption DEF TypeOK
<1>2. now' \in Time
  BY <1>1, LaterInTime DEF Elapse, TypeOK
<1>3. ASSUME NEW p \in Port
      PROVE  [heard[p] EXCEPT !.quiet = Smaller(@ + d, QuietCap)] \in Heard
  <2>1. heard[p] \in Heard
    BY DEF TypeOK
  <2>2. Smaller(heard[p].quiet + d, QuietCap) \in 0 .. QuietCap
    BY <2>1, <1>1, OutputAssumption DEF Heard, Smaller
  <2> QED BY <2>1, <2>2 DEF Heard
<1> QED BY <1>2, <1>3 DEF Elapse, TypeOK

\* Type correctness of the initial states.
LEMMA InitType == Init => TypeOK
<1> SUFFICES ASSUME Init PROVE TypeOK
  OBVIOUS
<1>1. 0 \in Time /\ 0 \in Priority /\ now \in Time
  BY OutputAssumption, WrapAssumption DEF Init, Time, Priority
<1>2. g_dmx_out \in [Port -> OutFrame]
  BY <1>1, DarkType DEF Init, OutFrame
<1>3. heard \in [Port -> Heard]
  BY <1>1, OutputAssumption DEF Init, Heard
<1>4. fds \in [Port -> {"open", "closed", "none"}]
  <2>1. fds \in [Port -> {"open", "none"}]
    BY DEF Init, OpenAtStart
  <2> QED BY <2>1
<1> QED BY <1>1, <1>2, <1>3, <1>4, DarkType DEF Init, TypeOK

\* Every receive action comes down to Received and a Store, or to Received
\* alone.
LEMMA ReceiveForm ==
    ASSUME TypeOK, Receive
    PROVE  /\ Received
           /\ \/ UNCHANGED <<g_dmx_out, heard>>
              \/ \E took \in SUBSET Port, data \in Payload,
                    priority \in [Port -> Priority] :
                    /\ Store(took, data, priority)
                    /\ \A p \in took :
                          \/ priority[p] >= g_dmx_out[p].priority
                          \/ Elapsed(now, g_dmx_out[p].last_update) > SacnTimeout
<1>1. StoredPriority \in [Port -> Priority]
  BY DEF StoredPriority, TypeOK, OutFrame
<1>2. \A p \in Port : StoredPriority[p] >= g_dmx_out[p].priority
  <2>1. \A p \in Port : g_dmx_out[p].priority \in Priority
    BY DEF TypeOK, OutFrame
  <2>2. \A p \in Port : StoredPriority[p] = g_dmx_out[p].priority
    BY DEF StoredPriority
  <2> QED BY <2>1, <2>2 DEF Priority
<1>3. \A u : Addressed(u) \in SUBSET Port
  BY DEF Addressed
<1>4. ASSUME NEW pkt \in SacnPacket, ReceiveSacn(pkt)
      PROVE  \E took \in SUBSET Port, data \in Payload,
                priority \in [Port -> Priority] :
                /\ Store(took, data, priority)
                /\ \A p \in took :
                      \/ priority[p] >= g_dmx_out[p].priority
                      \/ Elapsed(now, g_dmx_out[p].last_update) > SacnTimeout
  <2> DEFINE T == IF pkt.start_code = 0
                  THEN {p \in Addressed(pkt.universe) : Outranks(p, pkt)}
                  ELSE {}
             P == [p \in Port |-> pkt.priority]
  <2>1. T \in SUBSET Port
    BY <1>3
  <2>2. pkt.data \in Payload /\ P \in [Port -> Priority]
    BY OutputAssumption
  <2>3. Store(T, pkt.data, P)
    BY <1>4 DEF ReceiveSacn, handle_sacn_packet
  <2>4. \A p \in T :
           \/ P[p] >= g_dmx_out[p].priority
           \/ Elapsed(now, g_dmx_out[p].last_update) > SacnTimeout
    BY <2>1 DEF Outranks
  <2> QED BY <2>1, <2>2, <2>3, <2>4
<1>5. ASSUME NEW u, NEW data \in Payload,
             Store(Addressed(u), data, StoredPriority)
      PROVE  \E took \in SUBSET Port, d \in Payload,
                priority \in [Port -> Priority] :
                /\ Store(took, d, priority)
                /\ \A p \in took :
                      \/ priority[p] >= g_dmx_out[p].priority
                      \/ Elapsed(now, g_dmx_out[p].last_update) > SacnTimeout
  BY <1>1, <1>2, <1>3, <1>5
<1>6. CASE \E pkt \in SacnPacket : ReceiveSacn(pkt)
  BY <1>6, <1>4 DEF ReceiveSacn
<1>7. CASE \E pkt \in ArtnetPacket : ReceiveArtnet(pkt)
  <2>1. PICK pkt \in ArtnetPacket : ReceiveArtnet(pkt)
    BY <1>7
  <2>2. pkt.data \in Payload
    BY OutputAssumption
  <2> QED BY <2>1, <2>2, <1>5 DEF ReceiveArtnet, handle_artnet_packet
<1>8. CASE \E pkt \in ShownetPacket : ReceiveShownet(pkt)
  <2>1. PICK pkt \in ShownetPacket : ReceiveShownet(pkt)
    BY <1>8
  <2>2. pkt.data \in Payload
    BY OutputAssumption
  <2> QED BY <2>1, <2>2, <1>5 DEF ReceiveShownet, handle_shownet_packet
<1>9. CASE ReceiveOther \/ ReceiveNothing
  BY <1>9 DEF ReceiveOther, ReceiveNothing
<1> QED BY <1>6, <1>7, <1>8, <1>9 DEF Receive

\* Every step keeps the types.
LEMMA NextType == TypeOK /\ [Next]_vars => TypeOK'
<1> SUFFICES ASSUME TypeOK, [Next]_vars PROVE TypeOK'
  OBVIOUS
<1>1. CASE Receive
  <2>1. g_dmx_out' \in [Port -> OutFrame] /\ heard' \in [Port -> Heard]
    BY <1>1, ReceiveForm, StoreType DEF TypeOK
  <2>2. Received
    BY <1>1, ReceiveForm
  <2> QED BY <2>1, <2>2 DEF Received, TypeOK
<1>2. CASE Sleep
  BY <1>2, ElapseType DEF Sleep, TypeOK, prog
<1>3. CASE BlockedInRecv
  <2>1. 1 \in 1 .. MaxDelay
    BY OutputAssumption
  <2> QED BY <1>3, <2>1, ElapseType DEF BlockedInRecv, TypeOK, prog
<1>4. CASE NetworkLost
  BY <1>4 DEF NetworkLost, TypeOK, prog, hist
<1>5. CASE OutputCycle
  <2>1. g_dmx_out' \in [Port -> OutFrame]
    BY <1>5, HeldType DEF OutputCycle
  <2>2. last_write' \in [Port -> Time]
    BY <1>5 DEF OutputCycle, TypeOK, OutFrame
  <2>3. PICK outcome \in [Port -> Outcome] :
           dmx_tx_write({p \in Port : Written(p)},
                        [p \in Port |-> Held(p).data], outcome)
    BY <1>5 DEF OutputCycle
  <2>4. \A p \in Port : Held(p).data \in Frame
    BY HeldType DEF OutFrame
  <2>5. wire' \in [Port -> Frame]
    BY <2>3, <2>4 DEF dmx_tx_write, TypeOK
  <2>6. \A p \in Port : FdAfter(outcome[p]) \in {"open", "closed", "none"}
    <3>1. \A p \in Port : outcome[p] \in {"done", "no_open", "no_reopen"}
      BY <2>3 DEF Outcome
    <3> QED BY <3>1 DEF FdAfter
  <2>7. fds' \in [Port -> {"open", "closed", "none"}]
    BY <2>3, <2>6 DEF dmx_tx_write, TypeOK
  <2>8. missed' \in [Port -> BOOLEAN]
    BY <2>3 DEF dmx_tx_write, TypeOK
  <2> QED BY <1>5, <2>1, <2>2, <2>5, <2>7, <2>8 DEF OutputCycle, TypeOK
<1>6. CASE UNCHANGED vars
  BY <1>6 DEF vars, prog, hist, TypeOK
<1> QED BY <1>1, <1>2, <1>3, <1>4, <1>5, <1>6 DEF Next, Loop

\* The daemon's state is well-typed in every reachable state: uint32_t time
\* stamps, byte priorities and full frames, across every wrap of the clock.
THEOREM TypeCorrect == Spec => []TypeOK
<1> QED BY InitType, NextType, PTL DEF Spec

(***************************************************************************)
(* Ledger.                                                                 *)
(***************************************************************************)

\* The state of one port in arithmetic terms.
LEMMA PortFacts ==
    ASSUME TypeOK, NEW p \in Port
    PROVE  /\ now \in Time
           /\ last_write[p] \in Time
           /\ g_dmx_out[p].last_update \in Time
           /\ g_dmx_out[p].priority \in 0 .. 255
           /\ g_dmx_out[p].data \in Frame
           /\ heard[p].priority \in 0 .. 255
           /\ heard[p].stamp \in Time
           /\ heard[p].quiet \in 0 .. QuietCap
BY DEF TypeOK, OutFrame, Heard, Priority

\* What the passing of d ticks does to the age of the last packet of a port.
LEMMA ElapsePort ==
    ASSUME TypeOK, NEW d \in 1 .. MaxDelay, Elapse(d), NEW p \in Port
    PROVE  /\ heard'[p].stamp = heard[p].stamp
           /\ heard'[p].priority = heard[p].priority
           /\ heard'[p].quiet >= heard[p].quiet
           /\ heard[p].quiet + d < QuietCap => heard'[p].quiet = heard[p].quiet + d
           /\ heard[p].quiet + d >= QuietCap => heard'[p].quiet = QuietCap
           /\ heard[p].quiet + d < QuietCap
                 /\ heard[p].quiet = Elapsed(now, heard[p].stamp)
              => Elapsed(now', heard'[p].stamp) = heard[p].quiet + d
<1>1. d \in Nat /\ QuietCap \in Nat /\ QuietCap < Wrap /\ Wrap \in Nat
  BY ConfigFacts, WrapAssumption DEF TypeOK
<1>2. heard[p] \in Heard
  BY DEF TypeOK
<1>3. /\ heard'[p].stamp = heard[p].stamp
      /\ heard'[p].priority = heard[p].priority
      /\ heard'[p].quiet = Smaller(heard[p].quiet + d, QuietCap)
  BY <1>2 DEF Elapse, Heard
<1>4. heard[p].quiet \in 0 .. QuietCap /\ heard[p].stamp \in Time /\ now \in Time
  BY PortFacts
<1>5. ASSUME heard[p].quiet + d < QuietCap,
             heard[p].quiet = Elapsed(now, heard[p].stamp)
      PROVE  Elapsed(now', heard'[p].stamp) = heard[p].quiet + d
  <2>1. Elapsed(now, heard[p].stamp) + d < Wrap
    BY <1>1, <1>4, <1>5
  <2>2. now' = Later(now, d)
    BY DEF Elapse
  <2> QED BY <2>1, <2>2, <1>1, <1>3, <1>4, <1>5, ElapsedLater
<1> QED BY <1>1, <1>3, <1>4, <1>5 DEF Smaller

\* The passing of time preserves Ledger.
LEMMA ElapseLedger ==
    ASSUME TypeOK, Ledger, NEW d \in 1 .. MaxDelay, Elapse(d),
           UNCHANGED <<g_dmx_out, g_config>>
    PROVE  Ledger'
<1> SUFFICES ASSUME NEW p \in Port
             PROVE  /\ \/ heard'[p].quiet = QuietCap
                       \/ heard'[p].quiet = Elapsed(now', heard'[p].stamp)
                    /\ \/ /\ g_dmx_out'[p].last_update = heard'[p].stamp
                          /\ g_dmx_out'[p].priority = heard'[p].priority
                       \/ /\ g_dmx_out'[p].last_update = 0
                          /\ g_dmx_out'[p].priority = 0
                          /\ heard'[p].quiet > g_config'.hold
  BY DEF Ledger
<1>1. d \in Nat /\ QuietCap \in Nat /\ g_config.hold \in Nat
  BY ConfigFacts DEF TypeOK
<1>2. heard[p].quiet \in 0 .. QuietCap
  BY PortFacts
<1>3. heard'[p].quiet \in 0 .. QuietCap
  BY ElapseType DEF Heard
<1>4. \/ heard'[p].quiet = QuietCap
      \/ heard'[p].quiet = Elapsed(now', heard'[p].stamp)
  BY <1>1, <1>2, ElapsePort DEF Ledger
<1>5. \/ /\ g_dmx_out[p].last_update = heard'[p].stamp
         /\ g_dmx_out[p].priority = heard'[p].priority
      \/ /\ g_dmx_out[p].last_update = 0
         /\ g_dmx_out[p].priority = 0
         /\ heard'[p].quiet > g_config.hold
  BY <1>1, <1>2, <1>3, ElapsePort DEF Ledger
<1> QED BY <1>4, <1>5

\* A source that timed out was silent for longer than the hold time.
LEMMA TimedOutQuiet ==
    ASSUME TypeOK, Ledger, NEW p \in Port, TimedOut(p)
    PROVE  heard[p].quiet > g_config.hold
<1>1. g_dmx_out[p].last_update # 0
  BY PortFacts DEF TimedOut, Time
<1>2. g_dmx_out[p].last_update = heard[p].stamp
  BY <1>1 DEF Ledger
<1>3. g_config.hold < QuietCap
  BY ConfigFacts DEF TypeOK
<1> QED BY <1>2, <1>3, ConfigFacts, PortFacts DEF Ledger, TimedOut, TypeOK

\* Ledger holds at start-up, when nothing has been heard.
LEMMA InitLedger == Init => Ledger
BY OutputAssumption DEF Init, Ledger, Larger

\* Every step preserves Ledger.
LEMMA NextLedger == TypeOK /\ Ledger /\ [Next]_vars => Ledger'
<1> SUFFICES ASSUME TypeOK, Ledger, [Next]_vars PROVE Ledger'
  OBVIOUS
<1>1. CASE Receive
  <2>1. Received
    BY <1>1, ReceiveForm
  <2>2. CASE UNCHANGED <<g_dmx_out, heard>>
    BY <2>1, <2>2 DEF Received, Ledger
  <2>3. CASE \E took \in SUBSET Port, data \in Payload,
                priority \in [Port -> Priority] : Store(took, data, priority)
    <3>1. PICK took \in SUBSET Port, data \in Payload,
               priority \in [Port -> Priority] : Store(took, data, priority)
      BY <2>3
    <3>2. Elapsed(now, now) = 0
      BY ElapsedZero DEF TypeOK
    <3> QED BY <2>1, <3>1, <3>2 DEF Received, Store, Ledger
  <2> QED BY <1>1, <2>2, <2>3, ReceiveForm
<1>2. CASE Sleep
  BY <1>2, ElapseLedger DEF Sleep, prog
<1>3. CASE BlockedInRecv
  <2>1. 1 \in 1 .. MaxDelay
    BY OutputAssumption
  <2> QED BY <1>3, <2>1, ElapseLedger DEF BlockedInRecv, prog
<1>4. CASE NetworkLost
  BY <1>4 DEF NetworkLost, Ledger, prog, hist
<1>5. CASE OutputCycle
  <2>1. UNCHANGED <<g_config, now, heard>>
    BY <1>5 DEF OutputCycle
  <2>2. g_dmx_out' = [p \in Port |-> Held(p)]
    BY <1>5 DEF OutputCycle
  <2>3. ASSUME NEW p \in Port, Blackout(p)
        PROVE  /\ g_dmx_out'[p].last_update = 0
               /\ g_dmx_out'[p].priority = 0
               /\ heard[p].quiet > g_config.hold
    BY <2>2, <2>3, TimedOutQuiet DEF Blackout, Held
  <2>4. ASSUME NEW p \in Port, ~Blackout(p)
        PROVE  g_dmx_out'[p] = g_dmx_out[p]
    BY <2>2, <2>4 DEF Held
  <2> QED BY <2>1, <2>3, <2>4 DEF Ledger
<1>6. CASE UNCHANGED vars
  BY <1>6 DEF vars, prog, hist, Ledger
<1> QED BY <1>1, <1>2, <1>3, <1>4, <1>5, <1>6 DEF Next, Loop

\* Ledger holds in every reachable state.
LEMMA LedgerInvariant == Spec => []Ledger
<1> QED BY InitLedger, NextLedger, TypeCorrect, PTL DEF Spec

(***************************************************************************)
(* The two action properties follow from Ledger.                           *)
(***************************************************************************)

\* No premature blackout, in every execution: neither the sentinel 0, the
\* uint32_t arithmetic nor a failed open makes the daemon darken a line before
\* its source has been silent for the hold time.
THEOREM BlackoutsAreJustified == Spec => BlackoutJustified
<1>1. TypeOK /\ Ledger /\ [Next]_vars =>
        [\A p \in Port :
            wire[p] # Dark /\ wire'[p] = Dark =>
                \/ g_dmx_out[p].data = Dark
                \/ heard[p].quiet > g_config.hold]_vars
  <2> SUFFICES ASSUME TypeOK, Ledger, Next, NEW p \in Port,
                      wire[p] # Dark, wire'[p] = Dark
               PROVE  \/ g_dmx_out[p].data = Dark
                      \/ heard[p].quiet > g_config.hold
    OBVIOUS
  <2>1. wire' # wire
    OBVIOUS
  <2>2. OutputCycle
    <3>1. ~Receive
      BY <2>1, ReceiveForm DEF Received
    <3> QED BY <2>1, <3>1 DEF Next, Loop, Sleep, BlockedInRecv, NetworkLost
  <2>3. wire'[p] = Held(p).data /\ Written(p)
    BY <2>2 DEF OutputCycle, dmx_tx_write, TypeOK
  <2>4. CASE Blackout(p)
    BY <2>4, TimedOutQuiet DEF Blackout
  <2>5. CASE ~Blackout(p)
    BY <2>3, <2>5 DEF Held
  <2> QED BY <2>4, <2>5
<1> QED BY <1>1, TypeCorrect, LedgerInvariant, PTL DEF Spec, BlackoutJustified

\* A smaller priority is not at least as large.
LEMMA BelowNotAbove ==
    ASSUME NEW a \in 0 .. 255, NEW b \in 0 .. 255, a < b
    PROVE  ~(a >= b)
OBVIOUS

\* Priority merge, in every execution: a higher-priority source loses a port
\* only after a silence longer than SACN_TIMEOUT_MS or the hold time.
THEOREM PriorityIsRespected == Spec => PriorityRespected
<1>1. TypeOK /\ Ledger /\ [Next]_vars =>
        [\A p \in Port :
            heard'[p].priority < heard[p].priority =>
                \/ heard[p].quiet > SacnTimeout
                \/ heard[p].quiet > g_config.hold]_vars
  <2> SUFFICES ASSUME TypeOK, Ledger, Next, NEW p \in Port,
                      heard'[p].priority < heard[p].priority,
                      ~(heard[p].quiet > g_config.hold)
               PROVE  heard[p].quiet > SacnTimeout
    OBVIOUS
  <2>1. /\ g_dmx_out[p].last_update = heard[p].stamp
        /\ g_dmx_out[p].priority = heard[p].priority
        /\ \/ heard[p].quiet = QuietCap
           \/ heard[p].quiet = Elapsed(now, heard[p].stamp)
    BY DEF Ledger
  <2>2. heard[p].priority \in 0 .. 255
    BY PortFacts
  <2>3. heard'[p].priority # heard[p].priority
    BY <2>2
  <2>4. ASSUME NEW d \in 1 .. MaxDelay
        PROVE  ~Elapse(d)
    BY <2>3, ElapsePort
  <2>5. 1 \in 1 .. MaxDelay
    BY OutputAssumption
  <2>6. Receive
    BY <2>3, <2>4, <2>5 DEF Next, Loop, Sleep, BlockedInRecv, NetworkLost,
                            OutputCycle, hist
  <2>7. PICK took \in SUBSET Port, data \in Payload,
             priority \in [Port -> Priority] :
             /\ Store(took, data, priority)
             /\ \A q \in took :
                   \/ priority[q] >= g_dmx_out[q].priority
                   \/ Elapsed(now, g_dmx_out[q].last_update) > SacnTimeout
    BY <2>3, <2>6, ReceiveForm
  <2>8. p \in took /\ heard'[p].priority = priority[p]
    BY <2>3, <2>7 DEF Store
  <2>9. ~(priority[p] >= g_dmx_out[p].priority)
    <3>1. priority[p] \in 0 .. 255
      BY <2>7 DEF Priority
    <3>2. priority[p] < g_dmx_out[p].priority
      BY <2>1, <2>8
    <3>3. g_dmx_out[p].priority \in 0 .. 255
      BY PortFacts
    <3> QED BY <3>1, <3>2, <3>3, BelowNotAbove
  <2>10. Elapsed(now, heard[p].stamp) > SacnTimeout
    BY <2>1, <2>7, <2>8, <2>9
  <2> QED BY <2>1, <2>10, ConfigFacts, OutputAssumption DEF TypeOK
<1> QED BY <1>1, TypeCorrect, LedgerInvariant, PTL DEF Spec, PriorityRespected

(***************************************************************************)
(* Synced.                                                                 *)
(***************************************************************************)

\* A port is used after a step only if it was used before: dmx_fds entries
\* that became -1 stay so.
LEMMA ActiveBefore ==
    ASSUME TypeOK, [Next]_vars, NEW p \in Port, Active(p)'
    PROVE  Active(p)
<1>1. CASE Receive
  BY <1>1, ReceiveForm DEF Received, Active
<1>2. CASE Sleep \/ BlockedInRecv \/ NetworkLost \/ UNCHANGED vars
  BY <1>2 DEF Sleep, BlockedInRecv, NetworkLost, vars, prog, Active
<1>3. CASE OutputCycle
  BY <1>3 DEF OutputCycle, dmx_tx_write, Written, Active, TypeOK
<1> QED BY <1>1, <1>2, <1>3 DEF Next, Loop

\* What one output cycle does to a port it does not skip.
LEMMA CycleOnPort ==
    ASSUME TypeOK, OutputCycle, NEW p \in Port, Active(p)
    PROVE  /\ Fresh(p) => /\ g_dmx_out'[p] = g_dmx_out[p]
                          /\ last_write'[p] = g_dmx_out[p].last_update
           /\ ~Fresh(p) => last_write'[p] = last_write[p]
           /\ Blackout(p) => /\ g_dmx_out'[p].last_update = 0
                             /\ g_dmx_out'[p].data = Dark
           /\ ~Blackout(p) => g_dmx_out'[p] = g_dmx_out[p]
           /\ Fresh(p) \/ Blackout(p) =>
                 missed'[p] \/ wire'[p] = g_dmx_out'[p].data
           /\ ~Fresh(p) /\ ~Blackout(p) =>
                 wire'[p] = wire[p] /\ missed'[p] = missed[p]
<1>1. g_dmx_out'[p] = Held(p)
  BY DEF OutputCycle
<1>2. Written(p) <=> Fresh(p) \/ Blackout(p)
  BY DEF Written, Blackout
<1>3. PICK outcome \in [Port -> Outcome] :
         dmx_tx_write({q \in Port : Written(q)},
                      [q \in Port |-> Held(q).data], outcome)
  BY DEF OutputCycle
<1>4. Written(p) => missed'[p] \/ wire'[p] = Held(p).data
  BY <1>3 DEF dmx_tx_write, TypeOK
<1>5. ~Written(p) => wire'[p] = wire[p] /\ missed'[p] = missed[p]
  BY <1>3 DEF dmx_tx_write, TypeOK
<1>6. Fresh(p) => ~Blackout(p)
  BY DEF Blackout
<1>7. /\ Fresh(p) => last_write'[p] = g_dmx_out[p].last_update
      /\ ~Fresh(p) => last_write'[p] = last_write[p]
  BY DEF OutputCycle
<1> QED BY <1>1, <1>2, <1>4, <1>5, <1>6, <1>7 DEF Held

\* Synced holds at start-up: all stamps are 0 and every line is dark.
LEMMA InitSynced == Init => Synced
<1> SUFFICES ASSUME Init PROVE Synced
  OBVIOUS
<1>1. now \in Time /\ now # 0
  BY OutputAssumption DEF Init
<1>2. 0 < now
  BY <1>1, WrapAssumption DEF Time
<1>3. ASSUME NEW p \in Port
      PROVE  /\ last_write[p] = 0
             /\ g_dmx_out[p].last_update = 0
             /\ wire[p] = g_dmx_out[p].data
  BY DEF Init
<1>4. \A p \in Port : ~Fresh(p)
  BY <1>3 DEF Fresh
<1> QED BY <1>1, <1>2, <1>3, <1>4 DEF Synced, Settled, Time

\* A step that leaves the ports alone preserves Settled.
LEMMA NextSettled == TypeOK /\ Settled /\ [Next]_vars => Settled'
<1> SUFFICES ASSUME TypeOK, Settled, [Next]_vars, phase' = "recv",
                    NEW p \in Port, Active(p)'
             PROVE  ~Fresh(p)'
  BY DEF Settled
<1>1. Active(p)
  BY ActiveBefore
<1>2. CASE OutputCycle
  <2>1. /\ last_write'[p] \in Time
        /\ g_dmx_out'[p].last_update \in Time
    BY NextType, PortFacts DEF TypeOK, OutFrame
  <2>2. CASE Fresh(p)
    BY <1>1, <1>2, <2>1, <2>2, CycleOnPort DEF Fresh, Time
  <2>3. CASE Blackout(p)
    BY <1>1, <1>2, <2>1, <2>3, CycleOnPort DEF Fresh, Time
  <2>4. CASE ~Fresh(p) /\ ~Blackout(p)
    BY <1>1, <1>2, <2>4, CycleOnPort DEF Fresh
  <2> QED BY <2>2, <2>3, <2>4
<1>3. CASE Receive \/ Sleep
  BY <1>3, ReceiveForm DEF Received, Sleep
<1>4. CASE BlockedInRecv \/ NetworkLost \/ UNCHANGED vars
  BY <1>1, <1>4 DEF BlockedInRecv, NetworkLost, vars, prog, Settled, Fresh
<1> QED BY <1>2, <1>3, <1>4 DEF Next, Loop

\* Time only moves forward until the clock wraps.
LEMMA ElapseForward ==
    ASSUME TypeOK, NEW d \in 1 .. MaxDelay, Elapse(d), ~wrapped'
    PROVE  ~wrapped /\ now < now'
<1>1. d \in Nat /\ d > 0 /\ now \in Nat /\ Wrap \in Nat
  BY ConfigFacts, WrapAssumption DEF TypeOK, Time
<1>2. ~wrapped /\ ~Wraps(now, d)
  BY DEF Elapse
<1>3. now' = now + d
  BY <1>1, <1>2 DEF Elapse, Later, Wraps
<1> QED BY <1>1, <1>2, <1>3

\* The passing of time preserves Synced.
LEMMA ElapseSynced ==
    ASSUME TypeOK, Synced, NEW d \in 1 .. MaxDelay, Elapse(d), ~wrapped',
           UNCHANGED <<prog, wire, missed>>, NEW p \in Port
    PROVE  /\ last_write'[p] < now'
           /\ g_dmx_out'[p].last_update < now'
           /\ Active(p)' /\ ~missed'[p] /\ ~Fresh(p)' =>
                 wire'[p] = g_dmx_out'[p].data
<1>1. ~wrapped /\ now < now'
  BY ElapseForward
<1>2. now' \in Time
  BY ElapseType
<1>3. last_write[p] < now /\ g_dmx_out[p].last_update <= now
  BY <1>1 DEF Synced
<1>4. last_write[p] < now' /\ g_dmx_out[p].last_update < now'
  BY <1>1, <1>2, <1>3, PortFacts DEF Time
<1>5. Active(p) /\ ~missed[p] /\ ~Fresh(p) => wire[p] = g_dmx_out[p].data
  BY <1>1 DEF Synced
<1> QED BY <1>4, <1>5 DEF prog, Active, Fresh

\* Every step preserves Synced.
LEMMA NextSynced == TypeOK /\ Synced /\ [Next]_vars => Synced'
<1> SUFFICES ASSUME TypeOK, Synced, [Next]_vars PROVE Synced'
  OBVIOUS
<1>1. Settled'
  BY NextSettled DEF Synced
<1> SUFFICES ASSUME ~wrapped', NEW p \in Port
             PROVE  /\ last_write'[p] < now'
                    /\ g_dmx_out'[p].last_update <= now'
                    /\ phase' # "sleep" => g_dmx_out'[p].last_update < now'
                    /\ Active(p)' /\ ~missed'[p] /\ ~Fresh(p)' =>
                          wire'[p] = g_dmx_out'[p].data
  BY <1>1 DEF Synced
<1>2. /\ now \in Nat /\ last_write[p] \in Nat
      /\ g_dmx_out[p].last_update \in Nat
  BY PortFacts DEF Time
<1>3. CASE Receive
  <2>1. Received
    BY <1>3, ReceiveForm
  <2>2. CASE UNCHANGED <<g_dmx_out, heard>>
    BY <1>2, <2>1, <2>2 DEF Received, Synced, Active, Fresh
  <2>3. CASE \E took \in SUBSET Port, data \in Payload,
                priority \in [Port -> Priority] : Store(took, data, priority)
    <3>1. PICK took \in SUBSET Port, data \in Payload,
               priority \in [Port -> Priority] : Store(took, data, priority)
      BY <2>3
    <3>2. CASE p \in took
      <4>1. g_dmx_out'[p].last_update = now /\ last_write'[p] < now'
        BY <2>1, <3>1, <3>2 DEF Received, Store, Synced
      <4> QED BY <1>2, <2>1, <4>1 DEF Received, Fresh
    <3>3. CASE p \notin took
      <4>1. g_dmx_out'[p] = g_dmx_out[p]
        BY <3>1, <3>3 DEF Store
      <4> QED BY <1>2, <2>1, <4>1 DEF Received, Synced, Active, Fresh
    <3> QED BY <3>2, <3>3
  <2> QED BY <1>3, <2>2, <2>3, ReceiveForm
<1>4. CASE Sleep
  <2>1. PICK d \in 1 .. MaxDelay : Elapse(d)
    BY <1>4 DEF Sleep
  <2>2. g_dmx_out'[p].last_update \in Time /\ now' \in Time
    BY NextType, ElapseType, <2>1 DEF TypeOK, OutFrame
  <2>3. UNCHANGED <<prog, wire, missed>>
    BY <1>4 DEF Sleep
  <2> QED BY <2>1, <2>2, <2>3, ElapseSynced DEF Time
<1>5. CASE BlockedInRecv
  <2>1. 1 \in 1 .. MaxDelay /\ Elapse(1)
    BY <1>5, OutputAssumption DEF BlockedInRecv
  <2>2. g_dmx_out'[p].last_update \in Time /\ now' \in Time
    BY NextType, ElapseType, <2>1 DEF TypeOK, OutFrame
  <2>3. UNCHANGED <<prog, wire, missed>>
    BY <1>5 DEF BlockedInRecv
  <2> QED BY <2>1, <2>2, <2>3, ElapseSynced DEF Time
<1>6. CASE OutputCycle
  <2>1. ~wrapped /\ now' = now /\ phase = "output" /\ phase' = "recv"
    BY <1>6 DEF OutputCycle
  <2>2. /\ last_write[p] < now
        /\ g_dmx_out[p].last_update < now
        /\ Active(p) /\ ~missed[p] /\ ~Fresh(p) =>
              wire[p] = g_dmx_out[p].data
    BY <2>1 DEF Synced
  <2>3. CASE ~Active(p)
    <3>1. g_dmx_out'[p] = g_dmx_out[p] /\ last_write'[p] = last_write[p]
      BY <1>6, <2>3 DEF OutputCycle, Held, Blackout
    <3>2. ~Active(p)'
      BY <2>3, ActiveBefore
    <3> QED BY <1>2, <2>1, <2>2, <3>1, <3>2
  <2>4. CASE Active(p)
    BY <1>2, <1>6, <2>1, <2>2, <2>4, CycleOnPort
  <2> QED BY <2>3, <2>4
<1>7. CASE NetworkLost \/ UNCHANGED vars
  BY <1>7 DEF NetworkLost, vars, prog, hist, Synced, Active, Fresh
<1> QED BY <1>3, <1>4, <1>5, <1>6, <1>7 DEF Next, Loop

\* Until the clock wraps no accepted packet is lost on its way to the line:
\* comparing millisecond time stamps finds every new look, because the loop
\* sleeps between receiving a packet and the write that follows it.
THEOREM FramesAreShown == Spec => []FrameShown
<1>1. Synced => FrameShown
  BY DEF Synced, Settled, FrameShown
<1> QED BY <1>1, InitSynced, NextSynced, TypeCorrect, PTL DEF Spec

(***************************************************************************)
(* Aging.                                                                  *)
(***************************************************************************)

\* The part of Aging about one port.
PortAging(p) ==
    /\ g_dmx_out[p].last_update # 0 =>
          /\ g_dmx_out[p].last_update = heard[p].stamp
          /\ heard[p].quiet = Elapsed(now, heard[p].stamp)
          /\ heard[p].quiet <= AgeLimit
    /\ Fresh(p) => /\ phase = "sleep" => heard[p].quiet = 0
                   /\ phase = "output" => heard[p].quiet <= MaxDelay
    /\ ~missed[p] /\ heard[p].stamp # 0 /\ wire[p] # Dark =>
          g_dmx_out[p].last_update # 0

\* Aging, port by port.
LEMMA AgingByPort ==
    Aging <=> Settled /\ (NonBlocking => \A p \in Port : Active(p) => PortAging(p))
BY DEF Aging, PortAging

\* Aging holds at start-up.
LEMMA InitAging == Init => Aging
<1> SUFFICES ASSUME Init PROVE Aging
  OBVIOUS
<1>1. ASSUME NEW p \in Port
      PROVE  /\ last_write[p] = 0
             /\ g_dmx_out[p].last_update = 0
             /\ wire[p] = Dark
  BY DEF Init
<1>2. \A p \in Port : ~Fresh(p)
  BY <1>1 DEF Fresh
<1> QED BY <1>1, <1>2 DEF Aging, Settled

\* A packet that is stored, or not stored, at a settled port.
LEMMA ReceiveAging ==
    ASSUME TypeOK, Settled, Receive, NEW p \in Port, Active(p), PortAging(p)
    PROVE  PortAging(p)'
<1>1. /\ Received /\ phase = "recv" /\ phase' = "sleep" /\ now' = now
      /\ last_write' = last_write /\ wire' = wire /\ missed' = missed
      /\ g_config' = g_config
  BY ReceiveForm DEF Received
<1>2. ~Fresh(p)
  BY <1>1 DEF Settled
<1>3. AgeLimit' = AgeLimit
  BY <1>1 DEF AgeLimit
<1>4. ASSUME g_dmx_out'[p] = g_dmx_out[p], heard'[p] = heard[p]
      PROVE  PortAging(p)'
  <2>1. ~Fresh(p)'
    BY <1>1, <1>2, <1>4 DEF Fresh
  <2> QED BY <1>1, <1>3, <1>4, <2>1 DEF PortAging
<1>5. CASE UNCHANGED <<g_dmx_out, heard>>
  BY <1>4, <1>5
<1>6. CASE \E took \in SUBSET Port, data \in Payload,
              priority \in [Port -> Priority] : Store(took, data, priority)
  <2>1. PICK took \in SUBSET Port, data \in Payload,
             priority \in [Port -> Priority] : Store(took, data, priority)
    BY <1>6
  <2>2. CASE p \in took
    <3>1. /\ g_dmx_out'[p].last_update = now
          /\ heard'[p].stamp = now
          /\ heard'[p].quiet = 0
      BY <2>1, <2>2 DEF Store
    <3>2. Elapsed(now, now) = 0
      BY ElapsedZero DEF TypeOK
    <3>3. AgeLimit \in Nat
      BY <1>1, ConfigFacts DEF AgeLimit, Larger, TypeOK
    <3>4. 0 <= AgeLimit /\ 0 <= MaxDelay
      BY <3>3, OutputAssumption
    <3> QED BY <1>1, <1>3, <3>1, <3>2, <3>4 DEF PortAging
  <2>3. CASE p \notin took
    <3>1. g_dmx_out'[p] = g_dmx_out[p] /\ heard'[p] = heard[p]
      BY <2>1, <2>3 DEF Store
    <3> QED BY <1>4, <3>1
  <2> QED BY <2>2, <2>3
<1> QED BY <1>5, <1>6, ReceiveForm

\* A sleep ages every look by the same amount, the saturated history too.
LEMMA SleepAging ==
    ASSUME TypeOK, Sleep, NEW p \in Port, PortAging(p)
    PROVE  PortAging(p)'
<1>1. PICK d \in 1 .. MaxDelay : Elapse(d)
  BY DEF Sleep
<1>2. /\ phase = "sleep" /\ phase' = "output" /\ g_dmx_out' = g_dmx_out
      /\ last_write' = last_write /\ wire' = wire /\ missed' = missed
      /\ g_config' = g_config
  BY DEF Sleep, prog
<1>3. /\ d \in Nat /\ d <= MaxDelay /\ MaxDelay \in Nat /\ QuietCap \in Nat
      /\ g_config.hold \in Nat
      /\ heard[p].quiet \in Nat
      /\ Deadline \in Nat /\ Deadline < QuietCap
  BY <1>1, ConfigFacts, PortFacts DEF TypeOK
<1>4. heard'[p].stamp = heard[p].stamp
  BY <1>1, ElapsePort
<1>5. ASSUME g_dmx_out[p].last_update # 0
      PROVE  /\ heard'[p].quiet = heard[p].quiet + d
             /\ heard'[p].quiet = Elapsed(now', heard'[p].stamp)
             /\ heard'[p].quiet <= Deadline
  <2>1. /\ heard[p].quiet = Elapsed(now, heard[p].stamp)
        /\ heard[p].quiet <= Larger(g_config.hold, MaxDelay)
    BY <1>2, <1>5 DEF PortAging, AgeLimit
  <2>2. heard[p].quiet + d <= Deadline
    BY <1>3, <2>1 DEF Deadline, Larger
  <2>3. heard[p].quiet + d < QuietCap
    BY <1>3, <2>2
  <2>4. heard'[p].quiet = heard[p].quiet + d
    BY <1>1, <2>3, ElapsePort
  <2>5. Elapsed(now', heard'[p].stamp) = heard[p].quiet + d
    BY <1>1, <2>1, <2>3, ElapsePort
  <2> QED BY <2>2, <2>4, <2>5
<1>6. ASSUME Fresh(p)'
      PROVE  heard'[p].quiet <= MaxDelay
  <2>1. Fresh(p) /\ heard[p].quiet = 0
    BY <1>2, <1>6 DEF Fresh, PortAging
  <2>2. g_dmx_out[p].last_update # 0
    BY <2>1, PortFacts DEF Fresh, Time
  <2> QED BY <1>3, <1>5, <2>1, <2>2
<1>7. AgeLimit' = Deadline
  BY <1>2 DEF AgeLimit, Deadline
<1>8. g_dmx_out[p].last_update # 0 =>
         g_dmx_out[p].last_update = heard[p].stamp
  BY DEF PortAging
<1>9. ~missed[p] /\ heard[p].stamp # 0 /\ wire[p] # Dark =>
         g_dmx_out[p].last_update # 0
  BY DEF PortAging
<1> QED BY <1>2, <1>4, <1>5, <1>6, <1>7, <1>8, <1>9 DEF PortAging

\* After a cycle a look is fresh or within the hold time, or the line is dark.
LEMMA CycleAging ==
    ASSUME TypeOK, OutputCycle, NEW p \in Port, Active(p), PortAging(p)
    PROVE  PortAging(p)'
<1>1. /\ phase = "output" /\ phase' = "recv" /\ now' = now
      /\ heard' = heard /\ g_config' = g_config
  BY DEF OutputCycle
<1>2. AgeLimit' = Larger(g_config.hold, MaxDelay)
  BY <1>1 DEF AgeLimit
<1>3. /\ g_config.hold \in Nat /\ MaxDelay \in Nat /\ heard[p].quiet \in Nat
  BY ConfigFacts, PortFacts DEF TypeOK
<1>4. CASE Fresh(p)
  <2>1. g_dmx_out'[p] = g_dmx_out[p] /\ heard[p].quiet <= MaxDelay
    BY <1>1, <1>4, CycleOnPort DEF PortAging
  <2>2. g_dmx_out[p].last_update # 0
    BY <1>4, PortFacts DEF Fresh, Time
  <2>3. heard[p].quiet <= Larger(g_config.hold, MaxDelay)
    BY <1>3, <2>1 DEF Larger
  <2> QED BY <1>1, <1>2, <2>1, <2>2, <2>3 DEF PortAging
<1>5. CASE Blackout(p)
  <2>1. g_dmx_out'[p].last_update = 0 /\ (missed'[p] \/ wire'[p] = Dark)
    BY <1>5, CycleOnPort
  <2> QED BY <1>1, <2>1 DEF PortAging
<1>6. CASE ~Fresh(p) /\ ~Blackout(p)
  <2>1. /\ g_dmx_out'[p] = g_dmx_out[p]
        /\ wire'[p] = wire[p] /\ missed'[p] = missed[p]
    BY <1>6, CycleOnPort
  <2>2. ~TimedOut(p)
    BY <1>6 DEF Blackout
  <2>3. ASSUME g_dmx_out[p].last_update # 0
        PROVE  heard[p].quiet <= Larger(g_config.hold, MaxDelay)
    <3>1. heard[p].quiet = Elapsed(now, g_dmx_out[p].last_update)
      BY <2>3 DEF PortAging
    <3>2. heard[p].quiet <= g_config.hold
      BY <1>3, <2>2, <2>3, <3>1, PortFacts DEF TimedOut, Time
    <3> QED BY <1>3, <3>2 DEF Larger
  <2> QED BY <1>1, <1>2, <2>1, <2>3 DEF PortAging
<1> QED BY <1>4, <1>5, <1>6

\* Every step preserves Aging.
LEMMA NextAging == TypeOK /\ Aging /\ [Next]_vars => Aging'
<1> SUFFICES ASSUME TypeOK, Aging, [Next]_vars PROVE Aging'
  OBVIOUS
<1>1. Settled'
  BY NextSettled DEF Aging
<1>2. ASSUME NonBlocking', NEW p \in Port, Active(p)'
      PROVE  PortAging(p)'
  <2>1. g_config' = g_config
    BY ReceiveForm DEF Next, Loop, Received, Sleep, OutputCycle, BlockedInRecv,
                       NetworkLost, vars, prog
  <2>2. NonBlocking
    BY <1>2, <2>1 DEF NonBlocking
  <2>3. Active(p) /\ Settled /\ PortAging(p)
    BY <1>2, <2>2, ActiveBefore, AgingByPort
  <2>4. CASE Receive
    BY <2>3, <2>4, ReceiveAging
  <2>5. CASE Sleep
    BY <2>3, <2>5, SleepAging
  <2>6. CASE OutputCycle
    BY <2>3, <2>6, CycleAging
  <2>7. CASE BlockedInRecv
    BY <2>2, <2>7 DEF BlockedInRecv, NonBlocking
  <2>8. CASE NetworkLost \/ UNCHANGED vars
    BY <2>3, <2>8 DEF NetworkLost, vars, prog, hist, PortAging, AgeLimit,
                      Deadline, Fresh
  <2> QED BY <2>4, <2>5, <2>6, <2>7, <2>8 DEF Next, Loop
<1> QED BY <1>1, <1>2 DEF Aging, PortAging

\* Hold time, in every execution with a non-blocking receive (sACN): a line
\* carries light at most hold time plus twice the loop's delay after the last
\* packet taken over, whenever that is, also across the wrap of the clock.
THEOREM BlackoutInTime == Spec => []BlackoutDeadline
<1>1. TypeOK /\ Aging => BlackoutDeadline
  <2> SUFFICES ASSUME TypeOK, Aging, NonBlocking, NEW p \in Port, Active(p),
                      ~missed[p], heard[p].stamp # 0, wire[p] # Dark
               PROVE  heard[p].quiet <= Deadline
    BY DEF BlackoutDeadline, NonBlocking
  <2>1. heard[p].quiet <= AgeLimit /\ heard[p].quiet \in Nat
    BY PortFacts, OutputAssumption DEF Aging
  <2>2. /\ g_config.hold \in Nat /\ MaxDelay \in Nat
    BY ConfigFacts DEF TypeOK
  <2> QED BY <2>1, <2>2 DEF AgeLimit, Deadline, Larger
<1> QED BY <1>1, InitAging, NextAging, TypeCorrect, PTL DEF Spec
=============================================================================
