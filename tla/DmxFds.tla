------------------------------- MODULE DmxFds -------------------------------
(***************************************************************************)
(* The file descriptors of the daemon.  main() opens the protocol socket,  *)
(* the DMX devices and one sACN transmit socket per RX port; from then on  *)
(* dmx_tx_write closes and reopens the device of a TX port for every       *)
(* frame.  When its first open() fails it returns with the number it has   *)
(* just closed still in dmx_fds, and the next call closes that number      *)
(* again, whoever owns it by then.                                         *)
(*                                                                         *)
(* The kernel side is the process's descriptor table: open() returns a     *)
(* free number, close() of a number that is not open does nothing.         *)
(***************************************************************************)
EXTENDS Integers, FiniteSets

CONSTANTS
    Port,        \* the DMX ports
    PortOrder,   \* the order in which main() visits them: Port -> 1..|Port|
    Modes,       \* the configured modes: functions from Port to Mode
    Fd,          \* the process's descriptor numbers (OPEN_MAX of them)
    Errno        \* what a failing open() returns: the system call's -errno

Mode == {"OFF", "TX", "RX", "RAW"}
NoFd == -1

\* What a descriptor refers to: a port's device, a port's transmit socket, or
\* the protocol socket.
Device == {"dmx"} \X Port
TxSocket == {"sacn_tx"} \X Port
ProtocolSocket == <<"protocol", "socket">>
Object == Device \cup TxSocket \cup {ProtocolSocket}
Free == <<"free", "free">>

\* The program's test for a descriptor it may use: fds[port] >= 0.
Holds(f) == f >= 0

ASSUME FdAssumption ==
    /\ Fd \subseteq Nat
    /\ Modes \subseteq [Port -> Mode]
    /\ PortOrder \in [Port -> Nat]
    /\ \A e \in Errno : e \in Int /\ e < 0

VARIABLES
    mode,      \* g_config.ports[].mode
    table,     \* the kernel's table: Fd -> Object, or Free
    sock,      \* the descriptor of the protocol socket, or NoFd
    fds,       \* dmx_fds: a number, -1 for a port that is OFF, or -errno
    tx,        \* g_sacn_tx[].sock_fd where g_sacn_tx_active[], else NoFd
    done,      \* the ports main() has set up
    stage      \* "socket", "ports", "loop", "stopped"

vars == <<mode, table, sock, fds, tx, done, stage>>

FreeFd(t) == {f \in Fd : t[f] = Free}

\* close(f): no effect unless f is open.
Close(t, f) == [g \in Fd |-> IF g = f THEN Free ELSE t[g]]

\* open() or socket() returning the free number f.  The kernel takes the lowest
\* one; nothing below depends on which.
Opened(t, f, object) == [t EXCEPT ![f] = object]

Init ==
    /\ mode \in Modes
    /\ table = [f \in Fd |-> Free]
    /\ sock = NoFd
    /\ fds = [p \in Port |-> NoFd]
    /\ tx = [p \in Port |-> NoFd]
    /\ done = {}
    /\ stage = "socket"

(***************************************************************************)
(* Start-up.                                                               *)
(***************************************************************************)

\* The receive socket of the active protocol; the daemon runs without it.
OpenProtocolSocket ==
    /\ stage = "socket"
    /\ stage' = "ports"
    /\ \/ \E f \in FreeFd(table) :
             /\ table' = Opened(table, f, ProtocolSocket)
             /\ sock' = f
       \/ UNCHANGED <<table, sock>>
    /\ UNCHANGED <<mode, fds, tx, done>>

NextPort(p) ==
    /\ stage = "ports"
    /\ p \in Port \ done
    /\ \A q \in Port \ done : PortOrder[p] <= PortOrder[q]
    /\ done' = done \cup {p}
    /\ UNCHANGED <<mode, sock, stage>>

\* Mutant of OpenPort: "if (dmx_fds[i] = ops->open(dev) < 0)" stores the result
\* of the comparison.
OpenPortTestStored(p) ==
    /\ NextPort(p)
    /\ mode[p] # "OFF"
    /\ \E f \in FreeFd(table) : table' = Opened(table, f, <<"dmx", p>>)
    /\ fds' = [fds EXCEPT ![p] = 0]
    /\ UNCHANGED tx

\* The device of an RX port is opened and then its transmit socket; every
\* other port gets at most the device.
OpenPort(p) ==
    /\ NextPort(p)
    /\ mode[p] # "OFF"
    /\ \E f \in FreeFd(table) :
          LET opened == Opened(table, f, <<"dmx", p>>)
          IN  /\ fds' = [fds EXCEPT ![p] = f]
              /\ \/ /\ mode[p] = "RX"
                    /\ \E g \in FreeFd(opened) :
                          /\ table' = Opened(opened, g, <<"sacn_tx", p>>)
                          /\ tx' = [tx EXCEPT ![p] = g]
                 \/ /\ table' = opened
                    /\ UNCHANGED tx

\* The port is OFF, or its device cannot be opened: the negative result of
\* ops->open is kept.
SkipPort(p) ==
    /\ NextPort(p)
    /\ \/ /\ mode[p] = "OFF"
          /\ fds' = [fds EXCEPT ![p] = NoFd]
       \/ /\ mode[p] # "OFF"
          /\ \E e \in Errno : fds' = [fds EXCEPT ![p] = e]
    /\ UNCHANGED <<table, tx>>

EnterLoop ==
    /\ stage = "ports"
    /\ done = Port
    /\ stage' = "loop"
    /\ UNCHANGED <<mode, table, sock, fds, tx, done>>

(***************************************************************************)
(* The loop: dmx_tx_write for one port.                                    *)
(***************************************************************************)

\* Mutant of Writable: the mode test is dropped.
WritableAnyMode(p) == stage = "loop" /\ Holds(fds[p])

Writable(p) == stage = "loop" /\ Holds(fds[p]) /\ mode[p] = "TX"

\* The first open() fails: fds[p] keeps the closed number.
WriteFails(p) ==
    /\ Writable(p)
    /\ table' = Close(table, fds[p])
    /\ UNCHANGED <<mode, sock, fds, tx, done, stage>>

\* The first open() succeeds; the descriptor it returns is closed again, which
\* sends the frame.  The result of the second open() is kept, a number or not.
WriteFrame(p) ==
    /\ Writable(p)
    /\ LET closed == Close(table, fds[p])
       IN  /\ FreeFd(closed) # {}
           /\ \/ \E f \in FreeFd(closed) :
                    /\ table' = Opened(closed, f, <<"dmx", p>>)
                    /\ fds' = [fds EXCEPT ![p] = f]
              \/ /\ table' = closed
                 /\ \E e \in Errno : fds' = [fds EXCEPT ![p] = e]
    /\ UNCHANGED <<mode, sock, tx, done, stage>>

\* Mutant of Shutdown: the transmit sockets are forgotten.
ShutdownWithoutTx ==
    /\ stage = "loop"
    /\ stage' = "stopped"
    /\ table' = [f \in Fd |->
                   IF f = sock \/ \E p \in Port : f = fds[p]
                   THEN Free ELSE table[f]]
    /\ UNCHANGED <<mode, sock, fds, tx, done>>

\* Shutdown closes whatever number each variable holds.
Shutdown ==
    /\ stage = "loop"
    /\ stage' = "stopped"
    /\ table' = [f \in Fd |->
                   IF f = sock \/ \E p \in Port : f = tx[p] \/ f = fds[p]
                   THEN Free ELSE table[f]]
    /\ UNCHANGED <<mode, sock, fds, tx, done>>

Next ==
    \/ OpenProtocolSocket
    \/ \E p \in Port : OpenPort(p) \/ SkipPort(p)
    \/ EnterLoop
    \/ \E p \in Port : WriteFails(p) \/ WriteFrame(p)
    \/ Shutdown

Spec == Init /\ [][Next]_vars

(***************************************************************************)
(* Properties.                                                             *)
(***************************************************************************)

\* Every variable keeps its type: the descriptors are the numbers the kernel
\* gave out, -1 or a failed call's -errno, never a standard descriptor (0 to 2).
TypeOK ==
    /\ mode \in Modes
    /\ table \in [Fd -> Object \cup {Free}]
    /\ sock \in Fd \cup {NoFd}
    /\ fds \in [Port -> Fd \cup Errno \cup {NoFd}]
    /\ tx \in [Port -> Fd \cup {NoFd}]
    /\ done \subseteq Port
    /\ stage \in {"socket", "ports", "loop", "stopped"}

\* The stale number that dmx_tx_write leaves behind after a failed open never
\* hits a bystander: while the loop runs, the protocol socket, the transmit
\* sockets and the devices of the other ports' RX lines stay open under the
\* numbers the program knows them by.
BystandersKept ==
    stage \in {"ports", "loop"} =>
        /\ sock # NoFd => table[sock] = ProtocolSocket
        /\ \A p \in Port :
              /\ tx[p] # NoFd => table[tx[p]] = <<"sacn_tx", p>>
              /\ Holds(fds[p]) /\ mode[p] # "TX" => table[fds[p]] = <<"dmx", p>>

\* No descriptor leaks: every open number is held by some variable of the
\* program, so a stopped daemon has closed them all.
NoLeak ==
    /\ \A f \in Fd : table[f] # Free =>
          f = sock \/ \E p \in Port : f = tx[p] \/ f = fds[p]
    /\ stage = "stopped" => \A f \in Fd : table[f] = Free
=============================================================================
