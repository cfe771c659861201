---------------------------- MODULE DmxFdsProofs ----------------------------
(***************************************************************************)
(* Proofs for DmxFds, for every number of ports, every configuration and   *)
(* every size of the descriptor table.                                     *)
(***************************************************************************)
EXTENDS DmxFds, TLAPS

TxDevice == {<<"dmx", q>> : q \in {r \in Port : mode[r] = "TX"}}

\* The numbers that dmx_tx_write may close are free or belong to some TX port.
Strays ==
    \A p \in Port : Holds(fds[p]) /\ mode[p] = "TX" =>
        table[fds[p]] = Free \/ table[fds[p]] \in TxDevice

\* Bystanders, in every stage but the last.
Kept ==
    /\ sock # NoFd => table[sock] = ProtocolSocket
    /\ \A p \in Port :
          /\ tx[p] # NoFd => table[tx[p]] = <<"sacn_tx", p>>
          /\ Holds(fds[p]) /\ mode[p] # "TX" => table[fds[p]] = <<"dmx", p>>

\* Ports that main() has not reached hold no descriptor.
Unopened ==
    /\ stage = "socket" => done = {} /\ sock = NoFd
    /\ \A p \in Port \ done : fds[p] = NoFd /\ tx[p] = NoFd

\* Until the loop runs, every number in dmx_fds is that of its own device.
Pristine ==
    stage \in {"socket", "ports"} =>
        \A p \in Port : Holds(fds[p]) => table[fds[p]] = <<"dmx", p>>

Accounted ==
    \A f \in Fd : table[f] # Free =>
        f = sock \/ \E p \in Port : f = tx[p] \/ f = fds[p]

IInv ==
    /\ Unopened
    /\ Pristine
    /\ stage # "stopped" => Kept /\ Strays
    /\ Accounted
    /\ stage = "stopped" => \A f \in Fd : table[f] = Free

USE DEF NoFd, Free, ProtocolSocket

(***************************************************************************)
(* Descriptor numbers and objects.                                         *)
(***************************************************************************)

\* -1 and a failed call's -errno are not descriptor numbers.
LEMMA NoFdNotFd ==
    /\ NoFd \notin Fd
    /\ ~Holds(NoFd)
    /\ \A e \in Errno : e \notin Fd /\ ~Holds(e)
BY FdAssumption DEF Holds

\* What passes the program's test for a descriptor is a descriptor number.
LEMMA HoldsFd ==
    ASSUME NEW g \in [Port -> Fd \cup Errno \cup {NoFd}], NEW p \in Port,
           Holds(g[p])
    PROVE  g[p] \in Fd
BY NoFdNotFd

\* Devices, transmit sockets and the protocol socket are different objects.
LEMMA ObjectsDiffer ==
    ASSUME NEW p, NEW q
    PROVE  /\ <<"dmx", p>> # Free
           /\ <<"sacn_tx", p>> # Free
           /\ ProtocolSocket # Free
           /\ <<"dmx", p>> # <<"sacn_tx", q>>
           /\ <<"dmx", p>> # ProtocolSocket
           /\ <<"sacn_tx", p>> # ProtocolSocket
           /\ <<"dmx", p>> = <<"dmx", q>> => p = q
OBVIOUS

\* Opening a free number changes nothing else.
LEMMA OpenedFacts ==
    ASSUME NEW t \in [Fd -> Object \cup {Free}], NEW f \in FreeFd(t), NEW o \in Object
    PROVE  /\ Opened(t, f, o) \in [Fd -> Object \cup {Free}]
           /\ f \in Fd
           /\ t[f] = Free
           /\ Opened(t, f, o)[f] = o
           /\ \A g \in Fd : g # f => Opened(t, f, o)[g] = t[g]
BY DEF Opened, FreeFd

\* close() frees one number and changes nothing else.
LEMMA CloseFacts ==
    ASSUME NEW t \in [Fd -> Object \cup {Free}], NEW f
    PROVE  /\ Close(t, f) \in [Fd -> Object \cup {Free}]
           /\ \A g \in Fd : Close(t, f)[g] = IF g = f THEN Free ELSE t[g]
BY DEF Close

\* What main() opens are objects of the descriptor table.
LEMMA ObjectFacts ==
    ASSUME NEW p \in Port
    PROVE  <<"dmx", p>> \in Object /\ <<"sacn_tx", p>> \in Object
           /\ ProtocolSocket \in Object
BY DEF Object, Device, TxSocket

(***************************************************************************)
(* Types.                                                                  *)
(***************************************************************************)

\* A daemon that has opened nothing is well-typed.
LEMMA InitType == Init => TypeOK
BY FdAssumption DEF Init, TypeOK

\* Every open, close and reopen keeps the types.
LEMMA NextType == TypeOK /\ [Next]_vars => TypeOK'
<1> SUFFICES ASSUME TypeOK, [Next]_vars PROVE TypeOK'
  OBVIOUS
<1>0. ProtocolSocket \in Object
  BY DEF Object
<1>1. CASE OpenProtocolSocket
  BY <1>0, <1>1, OpenedFacts DEF OpenProtocolSocket, TypeOK
<1>2. ASSUME NEW p \in Port, OpenPort(p) PROVE TypeOK'
  <2>1. PICK f \in FreeFd(table) :
           LET opened == Opened(table, f, <<"dmx", p>>)
           IN  /\ fds' = [fds EXCEPT ![p] = f]
               /\ \/ /\ mode[p] = "RX"
                     /\ \E g \in FreeFd(opened) :
                           /\ table' = Opened(opened, g, <<"sacn_tx", p>>)
                           /\ tx' = [tx EXCEPT ![p] = g]
                  \/ /\ table' = opened
                     /\ UNCHANGED tx
    BY <1>2 DEF OpenPort
  <2> DEFINE opened == Opened(table, f, <<"dmx", p>>)
  <2>2. opened \in [Fd -> Object \cup {Free}] /\ f \in Fd
    BY OpenedFacts, ObjectFacts DEF TypeOK
  <2>3. table' \in [Fd -> Object \cup {Free}] /\ tx' \in [Port -> Fd \cup {NoFd}]
    <3>1. CASE table' = opened /\ UNCHANGED tx
      BY <2>2, <3>1 DEF TypeOK
    <3>2. ASSUME NEW g \in FreeFd(opened),
                 table' = Opened(opened, g, <<"sacn_tx", p>>),
                 tx' = [tx EXCEPT ![p] = g]
          PROVE  /\ table' \in [Fd -> Object \cup {Free}]
                 /\ tx' \in [Port -> Fd \cup {NoFd}]
      <4> HIDE DEF opened
      <4>1. Opened(opened, g, <<"sacn_tx", p>>) \in [Fd -> Object \cup {Free}]
            /\ g \in Fd
        BY <2>2, ObjectFacts, OpenedFacts
      <4> QED BY <3>2, <4>1 DEF TypeOK
    <3> QED BY <2>1, <3>1, <3>2
  <2> QED BY <1>2, <2>1, <2>2, <2>3 DEF OpenPort, NextPort, TypeOK
<1>3. ASSUME NEW p \in Port, SkipPort(p) PROVE TypeOK'
  BY <1>3 DEF SkipPort, NextPort, TypeOK
<1>4. CASE EnterLoop
  BY <1>4 DEF EnterLoop, TypeOK
<1>5. ASSUME NEW p \in Port, WriteFails(p) PROVE TypeOK'
  BY <1>5, CloseFacts DEF WriteFails, TypeOK
<1>6. ASSUME NEW p \in Port, WriteFrame(p) PROVE TypeOK'
  <2> DEFINE closed == Close(table, fds[p])
  <2>1. closed \in [Fd -> Object \cup {Free}]
    BY CloseFacts DEF TypeOK
  <2>2. table' \in [Fd -> Object \cup {Free}] /\ fds' \in [Port -> Fd \cup Errno \cup {NoFd}]
    <3>1. ASSUME NEW e \in Errno, table' = closed, fds' = [fds EXCEPT ![p] = e]
          PROVE  /\ table' \in [Fd -> Object \cup {Free}]
                 /\ fds' \in [Port -> Fd \cup Errno \cup {NoFd}]
      BY <2>1, <3>1 DEF TypeOK
    <3>2. ASSUME NEW f \in FreeFd(closed),
                 table' = Opened(closed, f, <<"dmx", p>>),
                 fds' = [fds EXCEPT ![p] = f]
          PROVE  /\ table' \in [Fd -> Object \cup {Free}]
                 /\ fds' \in [Port -> Fd \cup Errno \cup {NoFd}]
      <4> HIDE DEF closed
      <4>1. Opened(closed, f, <<"dmx", p>>) \in [Fd -> Object \cup {Free}]
            /\ f \in Fd
        BY <2>1, ObjectFacts, OpenedFacts
      <4> QED BY <3>2, <4>1 DEF TypeOK
    <3> QED BY <1>6, <3>1, <3>2 DEF WriteFrame
  <2> QED BY <1>6, <2>2 DEF WriteFrame, TypeOK
<1>7. CASE Shutdown
  BY <1>7 DEF Shutdown, TypeOK
<1>8. CASE UNCHANGED vars
  BY <1>8 DEF vars, TypeOK
<1> QED BY <1>1, <1>2, <1>3, <1>4, <1>5, <1>6, <1>7, <1>8 DEF Next

\* The descriptor variables always hold numbers that the kernel gave out, -1 or
\* the -errno of a failed call, and the table known objects.
THEOREM TypeCorrect == Spec => []TypeOK
<1> QED BY InitType, NextType, PTL DEF Spec

(***************************************************************************)
(* The inductive invariant.                                                *)
(***************************************************************************)

\* The inductive invariant holds before anything is opened.
LEMMA InitInv == Init => IInv
BY NoFdNotFd DEF Init, IInv, Unopened, Pristine, Kept, Strays, Accounted

\* dmx_tx_write closes a number of its own port: bystanders stay, and no other
\* TX port's number comes to belong to a bystander.
LEMMA CloseKeeps ==
    ASSUME TypeOK, IInv, NEW p \in Port, Writable(p)
    PROVE  LET closed == Close(table, fds[p])
           IN  /\ fds[p] \in Fd
               /\ sock # NoFd => closed[sock] = ProtocolSocket
               /\ \A q \in Port :
                     /\ tx[q] # NoFd => closed[tx[q]] = <<"sacn_tx", q>>
                     /\ Holds(fds[q]) /\ mode[q] # "TX" =>
                           closed[fds[q]] = <<"dmx", q>>
                     /\ Holds(fds[q]) /\ mode[q] = "TX" =>
                           closed[fds[q]] = Free \/ closed[fds[q]] \in TxDevice
<1>1. fds[p] \in Fd /\ Holds(fds[p]) /\ Kept /\ Strays /\ mode[p] = "TX"
  BY HoldsFd DEF Writable, IInv, TypeOK
<1>2. \/ table[fds[p]] = Free
      \/ \E q \in Port : mode[q] = "TX" /\ table[fds[p]] = <<"dmx", q>>
  BY <1>1 DEF Strays, TxDevice
<1>3. table \in [Fd -> Object \cup {Free}]
  BY DEF TypeOK
<1>4. sock # NoFd => sock \in Fd /\ sock # fds[p]
  BY <1>1, <1>2, ObjectsDiffer DEF Kept, TypeOK
<1>5. ASSUME NEW q \in Port, tx[q] # NoFd
      PROVE  tx[q] \in Fd /\ tx[q] # fds[p]
  BY <1>1, <1>2, <1>5, ObjectsDiffer DEF Kept, TypeOK
<1>6. ASSUME NEW q \in Port, Holds(fds[q]), mode[q] # "TX"
      PROVE  fds[q] \in Fd /\ fds[q] # fds[p]
  <2>1. table[fds[q]] = <<"dmx", q>>
    BY <1>1, <1>6 DEF Kept
  <2>2. table[fds[q]] # table[fds[p]]
    BY <1>2, <1>6, <2>1, ObjectsDiffer
  <2> QED BY <1>6, <2>2, HoldsFd DEF TypeOK
<1>7. ASSUME NEW q \in Port, Holds(fds[q]) PROVE fds[q] \in Fd
  BY <1>7, HoldsFd DEF TypeOK
<1> QED BY <1>1, <1>3, <1>4, <1>5, <1>6, <1>7, CloseFacts DEF Kept, Strays

\* Opening a free number cannot hit a bystander either.
LEMMA NextInv == TypeOK /\ IInv /\ [Next]_vars => IInv'
<1> SUFFICES ASSUME TypeOK, IInv, [Next]_vars PROVE IInv'
  OBVIOUS
<1>0. table \in [Fd -> Object \cup {Free}]
  BY DEF TypeOK
<1>1. CASE OpenProtocolSocket
  <2>1. /\ stage = "socket" /\ stage' = "ports"
        /\ UNCHANGED <<mode, fds, tx, done>>
        /\ sock = NoFd
        /\ \A p \in Port : fds[p] = NoFd /\ tx[p] = NoFd
    BY <1>1 DEF OpenProtocolSocket, IInv, Unopened
  <2>2. CASE UNCHANGED <<table, sock>>
    BY <2>1, <2>2, NoFdNotFd DEF IInv, Unopened, Pristine, Kept, Strays, Accounted
  <2>3. ASSUME NEW f \in FreeFd(table),
               table' = Opened(table, f, ProtocolSocket), sock' = f
        PROVE  IInv'
    <3>1. ProtocolSocket \in Object
      BY DEF Object
    <3>2. /\ f \in Fd /\ table'[f] = ProtocolSocket
          /\ \A g \in Fd : g # f => table'[g] = table[g]
      BY <1>0, <2>3, <3>1, OpenedFacts
    <3>3. Accounted'
      BY <2>1, <2>3, <3>2, NoFdNotFd DEF IInv, Accounted
    <3> QED BY <2>1, <2>3, <3>2, <3>3, NoFdNotFd DEF IInv, Unopened, Pristine, Kept, Strays
  <2> QED BY <1>1, <2>2, <2>3 DEF OpenProtocolSocket
<1>2. ASSUME NEW p \in Port, SkipPort(p) PROVE IInv'
  <2>1. /\ stage = "ports" /\ p \notin done /\ done' = done \cup {p}
        /\ UNCHANGED <<mode, sock, stage, table, tx>>
        /\ fds[p] = NoFd
        /\ ~Holds(fds'[p]) /\ fds'[p] \notin Fd
        /\ \A q \in Port : q # p => fds'[q] = fds[q]
    BY <1>2, NoFdNotFd DEF SkipPort, NextPort, IInv, Unopened, TypeOK
  <2>2. Unopened' /\ Pristine'
    BY <2>1, NoFdNotFd DEF IInv, Unopened, Pristine
  <2>3. Kept' /\ Strays'
    BY <2>1 DEF IInv, Kept, Strays, TxDevice
  <2>4. Accounted'
    BY <2>1, NoFdNotFd DEF IInv, Accounted
  <2> QED BY <2>1, <2>2, <2>3, <2>4 DEF IInv
<1>3. CASE EnterLoop
  BY <1>3 DEF EnterLoop, IInv, Unopened, Pristine, Kept, Strays, Accounted, TxDevice
<1>4. ASSUME NEW p \in Port, OpenPort(p) PROVE IInv'
  <2>1. /\ stage = "ports" /\ p \notin done /\ done' = done \cup {p}
        /\ UNCHANGED <<mode, sock, stage>>
        /\ fds[p] = NoFd /\ tx[p] = NoFd
        /\ Kept /\ Accounted
        /\ \A q \in Port : Holds(fds[q]) => table[fds[q]] = <<"dmx", q>>
    BY <1>4 DEF OpenPort, NextPort, IInv, Unopened, Pristine
  <2>2. PICK f \in FreeFd(table) :
           LET opened == Opened(table, f, <<"dmx", p>>)
           IN  /\ fds' = [fds EXCEPT ![p] = f]
               /\ \/ /\ mode[p] = "RX"
                     /\ \E g \in FreeFd(opened) :
                           /\ table' = Opened(opened, g, <<"sacn_tx", p>>)
                           /\ tx' = [tx EXCEPT ![p] = g]
                  \/ /\ table' = opened
                     /\ UNCHANGED tx
    BY <1>4 DEF OpenPort
  <2> DEFINE opened == Opened(table, f, <<"dmx", p>>)
  <2>3. /\ opened \in [Fd -> Object \cup {Free}]
        /\ f \in Fd /\ table[f] = Free /\ opened[f] = <<"dmx", p>>
        /\ \A g \in Fd : g # f => opened[g] = table[g]
    <3>1. <<"dmx", p>> \in Object
      BY ObjectFacts
    <3> QED BY <1>0, <3>1, OpenedFacts
  <2>4. /\ fds'[p] = f /\ \A q \in Port : q # p => fds'[q] = fds[q]
        /\ \A q \in Port : Holds(fds[q]) => fds[q] \in Fd
    BY <2>2, HoldsFd DEF TypeOK
  <2>5. Unopened'
    <3>1. \A q \in Port : q # p => tx'[q] = tx[q]
      BY <2>2 DEF TypeOK
    <3> QED BY <2>1, <2>4, <3>1 DEF IInv, Unopened
  <2> HIDE DEF opened
  <2>6. CASE table' = opened /\ UNCHANGED tx
    <3>1. Kept'
      BY <2>1, <2>3, <2>4, <2>6, ObjectsDiffer DEF Kept, TypeOK
    <3>2. \A q \in Port : Holds(fds'[q]) => table'[fds'[q]] = <<"dmx", q>>
      BY <2>1, <2>3, <2>4, <2>6, ObjectsDiffer DEF TypeOK
    <3>3. Accounted'
      BY <2>1, <2>3, <2>4, <2>6, NoFdNotFd DEF Accounted
    <3>4. Strays' /\ Pristine'
      BY <3>2 DEF Strays, TxDevice, Pristine
    <3> QED BY <2>1, <2>5, <3>1, <3>3, <3>4 DEF IInv
  <2>7. ASSUME mode[p] = "RX", NEW g \in FreeFd(opened),
               table' = Opened(opened, g, <<"sacn_tx", p>>),
               tx' = [tx EXCEPT ![p] = g]
        PROVE  IInv'
    <3>1. /\ g \in Fd /\ opened[g] = Free /\ table'[g] = <<"sacn_tx", p>>
          /\ \A h \in Fd : h # g => table'[h] = opened[h]
      <4>1. <<"sacn_tx", p>> \in Object
        BY ObjectFacts
      <4>0. opened \in [Fd -> Object \cup {Free}]
        BY <2>3
      <4>2. LET t == Opened(opened, g, <<"sacn_tx", p>>)
            IN  /\ g \in Fd /\ opened[g] = Free /\ t[g] = <<"sacn_tx", p>>
                /\ \A h \in Fd : h # g => t[h] = opened[h]
        BY <4>0, <4>1, OpenedFacts
      <4> QED BY <2>7, <4>2
    <3>2. tx'[p] = g /\ \A q \in Port : q # p => tx'[q] = tx[q]
      BY <2>7 DEF TypeOK
    <3>3. g # f /\ table[g] = Free
      BY <2>3, <3>1, ObjectsDiffer
    <3>4. /\ table'[f] = <<"dmx", p>>
          /\ \A h \in Fd : table[h] # Free => table'[h] = table[h]
      BY <2>3, <3>1, <3>3
    <3>5. Kept'
      BY <2>1, <2>3, <2>4, <3>1, <3>2, <3>4, ObjectsDiffer DEF Kept, TypeOK
    <3>6. \A q \in Port : Holds(fds'[q]) => table'[fds'[q]] = <<"dmx", q>>
      BY <2>1, <2>4, <3>4, ObjectsDiffer DEF TypeOK
    <3>7. Accounted'
      BY <2>1, <2>3, <2>4, <3>1, <3>2, NoFdNotFd DEF Accounted
    <3>8. Strays' /\ Pristine'
      BY <3>6 DEF Strays, TxDevice, Pristine
    <3> QED BY <2>1, <2>5, <3>5, <3>7, <3>8 DEF IInv
  <2> QED BY <2>2, <2>6, <2>7 DEF opened
<1>5. ASSUME NEW p \in Port, WriteFails(p) PROVE IInv'
  <2>1. Writable(p) /\ stage = "loop"
    BY <1>5 DEF WriteFails, Writable
  <2>2. /\ table' = Close(table, fds[p])
        /\ UNCHANGED <<mode, sock, fds, tx, done, stage>>
    BY <1>5 DEF WriteFails
  <2>3. Kept' /\ Strays'
    BY <2>1, <2>2, CloseKeeps DEF Kept, Strays, TxDevice
  <2>4. Accounted'
    BY <1>0, <2>2, CloseFacts DEF IInv, Accounted
  <2> QED BY <2>1, <2>2, <2>3, <2>4 DEF IInv, Unopened, Pristine
<1>6. ASSUME NEW p \in Port, WriteFrame(p) PROVE IInv'
  <2> DEFINE closed == Close(table, fds[p])
  <2>1. /\ Writable(p) /\ stage = "loop" /\ mode[p] = "TX" /\ Holds(fds[p])
        /\ UNCHANGED <<mode, sock, tx, done, stage>>
    BY <1>6 DEF WriteFrame, Writable
  <2>2. /\ closed \in [Fd -> Object \cup {Free}]
        /\ \A g \in Fd : closed[g] = IF g = fds[p] THEN Free ELSE table[g]
    BY <1>0, CloseFacts
  <2>3. \A g \in Fd : closed[g] # Free =>
           g = sock \/ \E q \in Port : g = tx[q] \/ (g = fds[q] /\ q # p)
    BY <2>2 DEF IInv, Accounted
  <2>4. p \in done /\ \A q \in Port : Holds(fds[q]) => fds[q] \in Fd
    BY <2>1, NoFdNotFd, HoldsFd DEF IInv, Unopened, TypeOK
  <2>5. /\ sock # NoFd => closed[sock] = ProtocolSocket
        /\ \A q \in Port :
              /\ tx[q] # NoFd => closed[tx[q]] = <<"sacn_tx", q>>
              /\ Holds(fds[q]) /\ mode[q] # "TX" =>
                    closed[fds[q]] = <<"dmx", q>>
              /\ Holds(fds[q]) /\ mode[q] = "TX" =>
                    closed[fds[q]] = Free \/ closed[fds[q]] \in TxDevice
    BY <2>1, CloseKeeps
  <2> HIDE DEF closed
  <2>6. ASSUME NEW e \in Errno, table' = closed, fds' = [fds EXCEPT ![p] = e]
        PROVE  IInv'
    <3>1. /\ ~Holds(fds'[p]) /\ fds'[p] \notin Fd
          /\ \A q \in Port : q # p => fds'[q] = fds[q]
      BY <2>6, NoFdNotFd DEF TypeOK
    <3>2. Kept' /\ Strays'
      BY <2>1, <2>5, <2>6, <3>1 DEF Kept, Strays, TxDevice
    <3>3. Accounted'
      BY <2>1, <2>3, <2>6, <3>1 DEF Accounted
    <3>4. Unopened'
      BY <2>1, <2>4, <3>1 DEF IInv, Unopened
    <3> QED BY <2>1, <3>2, <3>3, <3>4 DEF IInv, Pristine
  <2>7. ASSUME NEW f \in FreeFd(closed),
               table' = Opened(closed, f, <<"dmx", p>>),
               fds' = [fds EXCEPT ![p] = f]
        PROVE  IInv'
    <3>1. /\ f \in Fd /\ closed[f] = Free /\ table'[f] = <<"dmx", p>>
          /\ \A g \in Fd : g # f => table'[g] = closed[g]
      <4>1. <<"dmx", p>> \in Object
        BY ObjectFacts
      <4>2. LET t == Opened(closed, f, <<"dmx", p>>)
            IN  /\ f \in Fd /\ closed[f] = Free /\ t[f] = <<"dmx", p>>
                /\ \A g \in Fd : g # f => t[g] = closed[g]
        BY <2>2, <4>1, OpenedFacts
      <4> QED BY <2>7, <4>2
    <3>2. fds'[p] = f /\ \A q \in Port : q # p => fds'[q] = fds[q]
      BY <2>7 DEF TypeOK
    <3>3. \A g \in Fd : closed[g] # Free => table'[g] = closed[g]
      BY <3>1
    <3>4. Kept'
      BY <2>1, <2>4, <2>5, <3>2, <3>3, ObjectsDiffer DEF Kept, TypeOK
    <3>5. Strays'
      <4>1. <<"dmx", p>> \in TxDevice
        BY <2>1 DEF TxDevice
      <4> SUFFICES ASSUME NEW q \in Port, Holds(fds'[q]), mode[q] = "TX"
                   PROVE  table'[fds'[q]] = Free \/ table'[fds'[q]] \in TxDevice
        BY <2>1 DEF Strays, TxDevice
      <4>2. CASE fds'[q] = f
        BY <3>1, <4>1, <4>2
      <4>3. CASE fds'[q] # f
        <5>1. q # p /\ fds'[q] = fds[q] /\ fds[q] \in Fd
          BY <2>4, <3>2, <4>3
        <5> QED BY <2>5, <3>1, <4>3, <5>1
      <4> QED BY <4>2, <4>3
    <3>6. Accounted'
      BY <2>1, <2>3, <3>1, <3>2 DEF Accounted
    <3>7. Unopened'
      BY <2>1, <2>4, <3>2 DEF IInv, Unopened
    <3> QED BY <2>1, <3>4, <3>5, <3>6, <3>7 DEF IInv, Pristine
  <2> QED BY <1>6, <2>6, <2>7 DEF WriteFrame, closed
<1>7. CASE Shutdown
  <2>1. /\ stage' = "stopped" /\ UNCHANGED <<mode, sock, fds, tx, done>>
        /\ \A f \in Fd : table'[f] =
              IF f = sock \/ \E p \in Port : f = tx[p] \/ f = fds[p]
              THEN Free ELSE table[f]
    BY <1>7 DEF Shutdown
  <2>2. \A f \in Fd : table'[f] = Free
    BY <2>1 DEF IInv, Accounted
  <2> QED BY <2>1, <2>2 DEF IInv, Unopened, Pristine, Accounted
<1>8. CASE UNCHANGED vars
  BY <1>8 DEF vars, IInv, Unopened, Pristine, Kept, Strays, Accounted, TxDevice
<1> QED BY <1>1, <1>2, <1>3, <1>4, <1>5, <1>6, <1>7, <1>8 DEF Next

\* The inductive invariant holds in every reachable state.
LEMMA InvInvariant == Spec => []IInv
<1> QED BY InitInv, NextInv, TypeCorrect, PTL DEF Spec

\* The stale number left by a failed open in dmx_tx_write never closes the
\* protocol socket, a transmit socket or the device of a port that is not TX.
THEOREM BystandersAreKept == Spec => []BystandersKept
<1>1. IInv => BystandersKept
  BY DEF IInv, Kept, BystandersKept
<1> QED BY <1>1, InvInvariant, PTL

\* dmx_tx_write leaks no descriptor, however often an open fails, and shutdown
\* closes every one.
THEOREM NothingLeaks == Spec => []NoLeak
<1>1. IInv => NoLeak
  BY DEF IInv, Accounted, NoLeak
<1> QED BY <1>1, InvInvariant, PTL
=============================================================================
