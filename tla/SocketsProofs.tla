---------------------------- MODULE SocketsProofs ----------------------------
(***************************************************************************)
(* Proofs about Sockets, for any number of threads, sockets, descriptors   *)
(* and ports.                                                              *)
(***************************************************************************)
EXTENDS Sockets, TLAPS

\* A nonzero num or sport is a port of the socket; until a sys_bind the two agree.
PortsOwned ==
  \A s \in Sks : /\ num[s] # 0 => udptable[num[s]] = s
                 /\ sport[s] # 0 => udptable[sport[s]] = s
                 /\ s \notin bound => sport[s] = num[s]

\* A descriptor's socket has been created.
MapsAllocated == \A fd \in Fds : socket_maps[fd] # NULL => ops[socket_maps[fd]] # "none"

IInv ==
  /\ TypeOK
  /\ PortsOwned
  /\ MapsAllocated
  /\ Reachable
  /\ AutoboundReplyReturns
  /\ SourceNotStolen
  /\ FewPorts
  /\ OnlyOwnDatagrams

\* Zero is a port and a descriptor, and both kinds are numbers.
LEMMA Sizes == /\ 0 \in Ports /\ Ports \subseteq Nat
               /\ 0 \in Fds /\ Fds \subseteq Nat
  BY SizesAssumption DEF Ports, Fds

\* A port udp_v4_get_port grants is free.
LEMMA GrantedIsFree ==
  ASSUME NEW snum, NEW p, Grants(snum, p)
  PROVE  udptable[p] = NULL
  BY DEF Grants, FirstFree

\* The invariant holds when the stack starts.
LEMMA InitIInv == Init => IInv
  <1> SUFFICES ASSUME Init PROVE IInv
    OBVIOUS
  <1>1. crashed \in BOOLEAN
    BY Zenon DEF Init
  <1>2. TypeOK
    BY <1>1, Sizes DEF Init, TypeOK
  <1>3. PortsOwned /\ MapsAllocated /\ Reachable /\ FewPorts
    BY Sizes DEF Init, PortsOwned, MapsAllocated, Reachable, FewPorts
  <1>4. AutoboundReplyReturns /\ SourceNotStolen /\ OnlyOwnDatagrams
    BY DEF Init, AutoboundReplyReturns, SourceNotStolen, OnlyOwnDatagrams
  <1> QED
    BY <1>2, <1>3, <1>4 DEF IInv

\* Taking a free port keeps every port that is taken, gives the socket only that
\* port, and leaves the numbers of the other sockets alone.
LEMMA GetPort ==
  ASSUME TypeOK, NEW s \in Sks, NEW snum, NEW p \in Ports,
         Grants(snum, p), udp_v4_get_port(s, p)
  PROVE  /\ udptable' \in [Ports -> Sks \cup {NULL}]
         /\ num' \in [Sks -> Ports]
         /\ udptable[p] = NULL
         /\ udptable'[p] = s
         /\ num'[s] = p
         /\ \A q \in Ports : q # p => udptable'[q] = udptable[q]
         /\ \A q \in Ports : udptable[q] # NULL => udptable'[q] = udptable[q]
         /\ \A r \in Sks : r # s => num'[r] = num[r]
  BY GrantedIsFree DEF TypeOK, udp_v4_get_port

\* A new socket takes a free descriptor or none.
LEMMA SocketKeeps ==
  ASSUME IInv, NEW t \in Apps, NEW s \in Sks, NEW protocol, SysSocket(t, s, protocol)
  PROVE  IInv'
  <1> USE DEF SysSocket, sockVars
  <1>0. TypeOK /\ MapsAllocated /\ Reachable
    BY DEF IInv
  <1>1. PICK fd \in Fds : \/ socket_maps[fd] = NULL /\ socket_maps' = [socket_maps EXCEPT ![fd] = s]
                          \/ socket_maps' = socket_maps
    BY Sizes DEF FirstFree
  <1>2. OpsOf(protocol) \in {"dgram", "raw"}
    BY DEF OpsOf
  <1>3. TypeOK'
    BY <1>0, <1>1, <1>2 DEF TypeOK
  <1>4. MapsAllocated'
    BY <1>0, <1>1, <1>2, NullAssumption DEF TypeOK, MapsAllocated
  <1>5. Reachable'
    <2>1. \A f \in Fds : socket_maps[f] # s
      BY <1>0, NullAssumption DEF TypeOK, MapsAllocated
    <2>2. \A f, g \in Fds : socket_maps'[f] = socket_maps'[g] /\ socket_maps'[f] # NULL => f = g
      BY <1>0, <1>1, <2>1 DEF TypeOK, Reachable
    <2>3. ASSUME NEW p \in Ports, udptable'[p] # NULL
          PROVE  ops'[udptable'[p]] = "dgram" /\ \E f \in Fds : socket_maps'[f] = udptable'[p]
      <3>1. udptable[p] \in Sks /\ ops[udptable[p]] = "dgram" /\ udptable[p] # s
        BY <1>0, <2>3 DEF TypeOK, Reachable
      <3>2. PICK f \in Fds : socket_maps[f] = udptable[p]
        BY <1>0, <2>3 DEF Reachable
      <3>3. socket_maps'[f] = udptable[p]
        BY <1>0, <1>1, <2>3, <3>2 DEF TypeOK
      <3> QED
        BY <1>0, <3>1, <3>3 DEF TypeOK
    <2> QED
      BY <2>2, <2>3 DEF Reachable
  <1>6. PortsOwned' /\ AutoboundReplyReturns' /\ SourceNotStolen' /\ FewPorts' /\ OnlyOwnDatagrams'
    BY DEF IInv, PortsOwned, AutoboundReplyReturns, SourceNotStolen, FewPorts, OnlyOwnDatagrams
  <1> QED
    BY <1>3, <1>4, <1>5, <1>6 DEF IInv

\* Binding takes a free port; the socket's earlier ones stay its own.
LEMMA BindKeeps ==
  ASSUME IInv, NEW t \in Apps, NEW fd \in Fds, NEW s \in Sks, NEW snum, NEW p \in Ports,
         SysBind(t, fd, s, snum, p)
  PROVE  IInv'
  <1> USE DEF SysBind, Calls
  <1>0. TypeOK
    BY DEF IInv
  <1>1. /\ udptable' \in [Ports -> Sks \cup {NULL}]
        /\ num' \in [Sks -> Ports]
        /\ udptable[p] = NULL
        /\ udptable'[p] = s
        /\ num'[s] = p
        /\ \A q \in Ports : q # p => udptable'[q] = udptable[q]
        /\ \A q \in Ports : udptable[q] # NULL => udptable'[q] = udptable[q]
        /\ \A r \in Sks : r # s => num'[r] = num[r]
    BY <1>0, GetPort
  <1>2. TypeOK'
    BY <1>0, <1>1 DEF TypeOK
  <1>3. PortsOwned'
    BY <1>0, <1>1, NullAssumption DEF IInv, TypeOK, PortsOwned
  <1>4. MapsAllocated' /\ Reachable'
    <2>1. \A q \in Ports : udptable'[q] = s \/ udptable'[q] = udptable[q]
      BY <1>1
    <2>2. ops[s] = "dgram" /\ socket_maps[fd] = s
      OBVIOUS
    <2> QED
      BY <2>1, <2>2 DEF IInv, MapsAllocated, Reachable
  <1>5. AutoboundReplyReturns' /\ SourceNotStolen'
    <2>1. \A d \in sent : d.sk \in Sks /\ d.src \in Ports
      BY <1>0 DEF TypeOK, Datagrams
    <2> QED
      BY <1>1, <2>1, NullAssumption DEF IInv, AutoboundReplyReturns, SourceNotStolen
  <1>6. FewPorts'
    <2>1. \A q \in Ports : udptable'[q] # s => udptable'[q] = udptable[q]
      BY <1>1
    <2>2. bound' = bound \cup {s}
      OBVIOUS
    <2> QED
      BY <1>1, <2>1, <2>2 DEF IInv, FewPorts
  <1>7. OnlyOwnDatagrams'
    <2>1. \A r \in Sks : \A i \in DOMAIN queue[r] : queue[r][i] \in Ports
      BY <1>0 DEF TypeOK
    <2> QED
      BY <1>1, <2>1, NullAssumption DEF IInv, OnlyOwnDatagrams
  <1> QED
    BY <1>2, <1>3, <1>4, <1>5, <1>6, <1>7 DEF IInv

\* Autobinding takes a free port and reports it in sport and num alike.
LEMMA AutobindKeeps ==
  ASSUME IInv, NEW t \in Apps, NEW fd \in Fds, NEW s \in Sks, NEW p \in Ports,
         NEW accepted \in BOOLEAN, SysSendtoAutobind(t, fd, s, p, accepted)
  PROVE  IInv'
  <1> USE DEF SysSendtoAutobind, Calls
  <1>0. TypeOK
    BY DEF IInv
  <1>1. /\ udptable' \in [Ports -> Sks \cup {NULL}]
        /\ num' \in [Sks -> Ports]
        /\ udptable[p] = NULL
        /\ udptable'[p] = s
        /\ num'[s] = p
        /\ \A q \in Ports : q # p => udptable'[q] = udptable[q]
        /\ \A q \in Ports : udptable[q] # NULL => udptable'[q] = udptable[q]
        /\ \A r \in Sks : r # s => num'[r] = num[r]
    BY <1>0, GetPort
  <1>2. /\ sport' \in [Sks -> Ports]
        /\ sport'[s] = p
        /\ \A r \in Sks : r # s => sport'[r] = sport[r]
    BY <1>0 DEF TypeOK
  <1>3. \A d \in sent' : d \in sent \/ (d.sk = s /\ d.src = p /\ d \in Datagrams)
    <2> DEFINE d0 == [sk |-> s, src |-> sport'[s],
                      by |-> IF s \in bound THEN "bind" ELSE "autobind"]
    <2>1. sent' = sent \/ sent' = sent \cup {d0}
      <3>1. CASE accepted
        BY <3>1 DEF udp_sendmsg
      <3>2. CASE ~ accepted
        BY <3>2 DEF udp_sendmsg
      <3> QED
        BY <3>1, <3>2
    <2>2. d0.sk = s /\ d0.src = p /\ d0 \in Datagrams
      BY <1>1, <1>2 DEF Datagrams
    <2> HIDE DEF d0
    <2> QED
      BY <2>1, <2>2
  <1>4. TypeOK'
    <2>1. sent' \subseteq Datagrams
      BY <1>0, <1>3 DEF TypeOK
    <2> QED
      BY <1>0, <1>1, <1>2, <2>1 DEF TypeOK
  <1>5. PortsOwned'
    BY <1>0, <1>1, <1>2, NullAssumption DEF IInv, TypeOK, PortsOwned
  <1>6. MapsAllocated' /\ Reachable'
    <2>1. \A q \in Ports : udptable'[q] = s \/ udptable'[q] = udptable[q]
      BY <1>1
    <2>2. ops[s] = "dgram" /\ socket_maps[fd] = s
      OBVIOUS
    <2> QED
      BY <2>1, <2>2 DEF IInv, MapsAllocated, Reachable
  <1>7. AutoboundReplyReturns' /\ SourceNotStolen'
    <2>1. \A d \in sent : d.sk \in Sks /\ d.src \in Ports
      BY <1>0 DEF TypeOK, Datagrams
    <2> QED
      BY <1>1, <1>3, <2>1, NullAssumption DEF IInv, AutoboundReplyReturns, SourceNotStolen
  <1>8. FewPorts'
    <2>1. ASSUME NEW q \in Ports, udptable'[q] # NULL, udptable'[q] \notin bound
          PROVE  q \in {0, num'[udptable'[q]]}
      <3>1. CASE q = p
        BY <3>1, <1>1
      <3>2. CASE q # p /\ udptable[q] = s
        <4>1. q \in {0, num[s]}
          BY <3>2, <2>1, <1>1, NullAssumption DEF IInv, FewPorts
        <4> QED
          BY <4>1
      <3>3. CASE q # p /\ udptable[q] # s
        BY <3>3, <2>1, <1>0, <1>1 DEF IInv, TypeOK, FewPorts
      <3> QED
        BY <3>1, <3>2, <3>3
    <2> QED
      BY <2>1 DEF FewPorts
  <1>9. OnlyOwnDatagrams'
    <2>1. \A r \in Sks : \A i \in DOMAIN queue[r] : queue[r][i] \in Ports
      BY <1>0 DEF TypeOK
    <2> QED
      BY <1>1, <2>1, NullAssumption DEF IInv, OnlyOwnDatagrams
  <1> QED
    BY <1>4, <1>5, <1>6, <1>7, <1>8, <1>9 DEF IInv

\* A socket with a port sends with its sport: one of its own ports, or 0 when it
\* was only ever bound.
LEMMA SendtoKeeps ==
  ASSUME IInv, NEW t \in Apps, NEW fd \in Fds, NEW s \in Sks, SysSendto(t, fd, s)
  PROVE  IInv'
  <1> USE DEF SysSendto, sockVars
  <1>0. TypeOK /\ PortsOwned
    BY DEF IInv
  <1>1. /\ sport[s] \in Ports /\ num[s] \in Ports
        /\ sent' = sent \cup {[sk |-> s, src |-> sport[s],
                                by |-> IF s \in bound THEN "bind" ELSE "autobind"]}
    BY <1>0 DEF TypeOK, udp_sendmsg
  <1>2. TypeOK'
    <2>1. sent' \subseteq Datagrams
      BY <1>0, <1>1 DEF TypeOK, Datagrams
    <2> QED
      BY <1>0, <2>1 DEF TypeOK
  <1>3. PortsOwned' /\ MapsAllocated' /\ Reachable' /\ FewPorts' /\ OnlyOwnDatagrams'
    BY DEF IInv, PortsOwned, MapsAllocated, Reachable, FewPorts, OnlyOwnDatagrams
  <1>4. AutoboundReplyReturns'
    BY <1>0, <1>1 DEF IInv, PortsOwned, AutoboundReplyReturns
  <1>5. SourceNotStolen'
    BY <1>0, <1>1 DEF IInv, PortsOwned, SourceNotStolen
  <1> QED
    BY <1>2, <1>3, <1>4, <1>5 DEF IInv

\* Receiving shortens a queue from its head.
LEMMA RecvKeeps ==
  ASSUME IInv, NEW t \in Apps, NEW s \in Sks, RecvReturns(t, s)
  PROVE  IInv'
  <1> USE DEF RecvReturns
  <1>0. TypeOK
    BY DEF IInv
  <1>1. /\ queue[s] \in Seq(Ports) /\ Tail(queue[s]) \in Seq(Ports)
        /\ \A i \in DOMAIN Tail(queue[s]) : i + 1 \in DOMAIN queue[s] /\ Tail(queue[s])[i] = queue[s][i + 1]
    BY <1>0 DEF TypeOK
  <1>2. TypeOK'
    BY <1>0, <1>1 DEF TypeOK
  <1>3. OnlyOwnDatagrams'
    BY <1>0, <1>1 DEF IInv, TypeOK, OnlyOwnDatagrams
  <1>4. /\ PortsOwned' /\ MapsAllocated' /\ Reachable' /\ AutoboundReplyReturns'
        /\ SourceNotStolen' /\ FewPorts'
    BY DEF IInv, PortsOwned, MapsAllocated, Reachable, AutoboundReplyReturns, SourceNotStolen, FewPorts
  <1> QED
    BY <1>2, <1>3, <1>4 DEF IInv

\* A datagram is queued at the socket that has its port.
LEMMA UdpRcvKeeps ==
  ASSUME IInv, NEW p \in Ports, NEW s \in Sks, UdpRcv(p, s)
  PROVE  IInv'
  <1> USE DEF UdpRcv
  <1>0. TypeOK
    BY DEF IInv
  <1>1. /\ queue[s] \in Seq(Ports) /\ Append(queue[s], p) \in Seq(Ports)
        /\ \A i \in DOMAIN Append(queue[s], p) :
             \/ Append(queue[s], p)[i] = p
             \/ i \in DOMAIN queue[s] /\ Append(queue[s], p)[i] = queue[s][i]
    BY <1>0 DEF TypeOK
  <1>2. TypeOK'
    BY <1>0, <1>1 DEF TypeOK
  <1>3. OnlyOwnDatagrams'
    BY <1>0, <1>1 DEF IInv, TypeOK, OnlyOwnDatagrams
  <1>4. /\ PortsOwned' /\ MapsAllocated' /\ Reachable' /\ AutoboundReplyReturns'
        /\ SourceNotStolen' /\ FewPorts'
    BY DEF IInv, PortsOwned, MapsAllocated, Reachable, AutoboundReplyReturns, SourceNotStolen, FewPorts
  <1> QED
    BY <1>2, <1>3, <1>4 DEF IInv

\* Every step keeps the invariant.
LEMMA NextIInv == IInv /\ [Next]_vars => IInv'
  <1> SUFFICES ASSUME IInv, [Next]_vars PROVE IInv'
    OBVIOUS
  <1>1. ASSUME NEW t \in Apps, NEW fd \in Fds, NEW s \in Sks, SysRecv(t, fd, s)
        PROVE  IInv'
    <2>1. TypeOK'
      BY <1>1 DEF IInv, TypeOK, SysRecv, sockVars
    <2> QED
      BY <1>1, <2>1 DEF IInv, SysRecv, sockVars, PortsOwned, MapsAllocated, Reachable,
                        AutoboundReplyReturns, SourceNotStolen, FewPorts, OnlyOwnDatagrams
  <1>2. ASSUME NEW t \in Apps, NEW fd \in Fds, NEW s \in Sks, RawFault(t, fd, s)
        PROVE  IInv'
    <2>1. crashed' \in BOOLEAN
      BY <1>2, Zenon DEF RawFault
    <2>2. TypeOK'
      BY <1>2, <2>1 DEF IInv, TypeOK, RawFault, sockVars
    <2> QED
      BY <1>2, <2>2 DEF IInv, RawFault, sockVars, PortsOwned, MapsAllocated, Reachable,
                        AutoboundReplyReturns, SourceNotStolen, FewPorts, OnlyOwnDatagrams
  <1>3. CASE UNCHANGED vars
    BY <1>3 DEF IInv, vars, sockVars, TypeOK, PortsOwned, MapsAllocated, Reachable,
                AutoboundReplyReturns, SourceNotStolen, FewPorts, OnlyOwnDatagrams
  <1>4. CASE \E t \in Apps, s \in Sks, fd \in Fds : Syscall(t, fd, s)
    <2> SUFFICES ASSUME NEW t \in Apps, NEW s \in Sks, NEW fd \in Fds, Syscall(t, fd, s) PROVE IInv'
      BY <1>4
    <2> QED
      BY <1>1, <1>2, BindKeeps, SendtoKeeps, AutobindKeeps, Zenon DEF Syscall
  <1> QED
    BY <1>3, <1>4, SocketKeeps, RecvKeeps, UdpRcvKeeps, Zenon DEF Next

\* The inductive invariant holds in every reachable state.
THEOREM Inductive == Spec => []IInv
  BY InitIInv, NextIInv, PTL DEF Spec

\* No port number leaves the UDP table and no descriptor the table of sockets,
\* for tables of any size: autobinding never runs off the end.
THEOREM TablesTyped == Spec => []TypeOK
  <1>1. IInv => TypeOK
    BY DEF IInv
  <1> QED
    BY <1>1, Inductive, PTL

\* sys_socket, sys_bind and autobinding never alias a descriptor, and a port is
\* always held by a UDP socket the application can still read from.
THEOREM NeverUnreachable == Spec => []Reachable
  <1>1. IInv => Reachable
    BY DEF IInv
  <1> QED
    BY <1>1, Inductive, PTL

\* The answer to a datagram of an unbound socket comes back to that socket, even
\* when port 0 made a later send autobind again.
THEOREM AutobindAnswerable == Spec => []AutoboundReplyReturns
  <1>1. IInv => AutoboundReplyReturns
    BY DEF IInv
  <1> QED
    BY <1>1, Inductive, PTL

\* udp_sendmsg never writes another socket's port as the source, 0 excepted.
THEOREM SourcesNotStolen == Spec => []SourceNotStolen
  <1>1. IInv => SourceNotStolen
    BY DEF IInv
  <1> QED
    BY <1>1, Inductive, PTL

\* However often an unbound socket sends, it holds at most two ports.
THEOREM FewPortsTaken == Spec => []FewPorts
  <1>1. IInv => FewPorts
    BY DEF IInv
  <1> QED
    BY <1>1, Inductive, PTL

\* sys_recv only returns datagrams that came in by a port of its socket.
THEOREM OwnDatagrams == Spec => []OnlyOwnDatagrams
  <1>1. IInv => OnlyOwnDatagrams
    BY DEF IInv
  <1> QED
    BY <1>1, Inductive, PTL

\* No step takes a port from the socket that holds it.
THEOREM OwnersKept == Spec => PortKeepsOwner
  <1> DEFINE Kept == \A p \in Ports : udptable[p] # NULL => udptable'[p] = udptable[p]
  <1>1. IInv /\ [Next]_vars => [Kept]_vars
    <2> SUFFICES ASSUME IInv, Next PROVE Kept
      OBVIOUS
    <2>1. TypeOK
      BY DEF IInv
    <2>2. ASSUME NEW t \in Apps, NEW fd \in Fds, NEW s \in Sks, NEW snum, NEW p \in Ports,
                 SysBind(t, fd, s, snum, p)
          PROVE  Kept
      BY <2>1, <2>2, GetPort DEF SysBind
    <2>3. ASSUME NEW t \in Apps, NEW fd \in Fds, NEW s \in Sks, NEW p \in Ports, NEW accepted,
                 SysSendtoAutobind(t, fd, s, p, accepted)
          PROVE  Kept
      BY <2>1, <2>3, GetPort DEF SysSendtoAutobind
    <2>4. CASE UNCHANGED udptable
      BY <2>4
    <2>5. ASSUME NEW t \in Apps, NEW fd \in Fds, NEW s \in Sks, Syscall(t, fd, s)
          PROVE  Kept
      BY <2>2, <2>3, <2>4, <2>5 DEF Syscall, SysSendto, SysRecv, RawFault
    <2> QED
      BY <2>4, <2>5 DEF Next, SysSocket, RecvReturns, UdpRcv
  <1> QED
    BY <1>1, Inductive, PTL DEF Spec, PortKeepsOwner
=============================================================================
