------------------------------- MODULE Sockets -------------------------------
(***************************************************************************)
(* The socket layer: the system calls of core/socket.c, the AF_INET        *)
(* operations of ipv4/af_inet.c and the port table and receive path of     *)
(* ipv4/udp.c, with core/sock.c and core/datagram.c.                       *)
(*                                                                         *)
(* A system call runs to completion except sys_recv, which waits for a     *)
(* datagram; the receive loop delivers datagrams between calls.  A call    *)
(* that fails before it changes anything is a stuttering step and is not   *)
(* written.  struct socket and its struct sock are one object here (they   *)
(* are created together and point to each other for good).  Ports are kept *)
(* in host order: htons is a bijection applied on every write of sport and *)
(* undone by __udp4_lib_lookup.                                            *)
(***************************************************************************)
EXTENDS Naturals, Sequences

CONSTANTS Apps,       \* application threads
          Sks,        \* heap addresses malloc may return for a socket
          NFd,        \* MAXSOCKETNUM
          NPort,      \* MAXUDPSOCKNUM
          MaxQueue,   \* bound on the datagrams waiting at a socket
          NULL

ASSUME SizesAssumption == NFd \in Nat \ {0} /\ NPort \in Nat \ {0} /\ MaxQueue \in Nat
ASSUME NullAssumption == NULL \notin Sks

Fds == 0 .. NFd - 1
Ports == 0 .. NPort - 1

VARIABLES
  ops,          \* sock->ops: "none" not allocated, "dgram" inet_dgram_ops, "raw" NULL
  socket_maps,  \* the socket of each descriptor; NULL when not used
  udptable,     \* the socket of each port; NULL when not used
  num,          \* inet->num
  sport,        \* inet->sport
  queue,        \* sk_receive_queue: the ports the waiting datagrams came in by
  waits,        \* the socket whose skb_recv_datagram a thread loops in
  bound,        \* sockets a sys_bind has succeeded on
  sent,         \* datagrams sent: socket, source port, how it got a port
  crashed       \* a thread went through a NULL pointer

sockVars == <<num, sport, queue, bound>>
vars == <<ops, socket_maps, udptable, sockVars, waits, sent, crashed>>

Init ==
  /\ ops = [s \in Sks |-> "none"]
  /\ socket_maps = [fd \in Fds |-> NULL]
  /\ udptable = [p \in Ports |-> NULL]
  /\ num = [s \in Sks |-> 0]
  /\ sport = [s \in Sks |-> 0]
  /\ queue = [s \in Sks |-> <<>>]
  /\ waits = [t \in Apps |-> NULL]
  /\ bound = {}
  /\ sent = {}
  /\ crashed = FALSE

-----------------------------------------------------------------------------
(* Tables *)

\* The slot a scan from index 0 stops at.
FirstFree(table, i) ==
  table[i] = NULL /\ \A j \in DOMAIN table : table[j] = NULL => i <= j

Full(table) == \A i \in DOMAIN table : table[i] # NULL

\* Mutant: snum may be a port in use.
Grants_InUse(snum, p) == IF snum = 0 THEN FirstFree(udptable, p) ELSE p = snum

\* udp_v4_get_port(sk, snum) finds port p: any port for 0, else snum itself,
\* provided it is inside the table and not used.
Grants(snum, p) ==
  IF snum = 0 THEN FirstFree(udptable, p) ELSE p = snum /\ udptable[p] = NULL

\* Mutant: snum is set after the loop has moved on.
udp_v4_get_port_Late(s, p) ==
  /\ udptable' = [udptable EXCEPT ![p] = s]
  /\ num' = [num EXCEPT ![s] = p + 1]

\* What it does with the port.
udp_v4_get_port(s, p) ==
  /\ udptable' = [udptable EXCEPT ![p] = s]
  /\ num' = [num EXCEPT ![s] = p]

\* The socket of a descriptor, seen by a thread that is not inside sys_recv.
\* sock_from_fd does not test that a descriptor is inside the table: applications
\* are taken to use only numbers sys_socket can return.
Calls(t, fd, s) == ~ crashed /\ waits[t] = NULL /\ s = socket_maps[fd] /\ s # NULL

-----------------------------------------------------------------------------
(* System calls *)

\* inet_create: SOCK_RAW entries of inetsw_array have no ops.
OpsOf(protocol) == IF protocol = "UDP" THEN "dgram" ELSE "raw"

\* Mutant: the test after the scan is lost and the last descriptor is reused.
SysSocket_Reuse(t, s, protocol) ==
  /\ ~ crashed /\ waits[t] = NULL
  /\ ops[s] = "none"
  /\ ops' = [ops EXCEPT ![s] = OpsOf(protocol)]
  /\ \E fd \in Fds : /\ FirstFree(socket_maps, fd) \/ Full(socket_maps)
                     /\ socket_maps' = [socket_maps EXCEPT ![fd] = s]
  /\ UNCHANGED <<udptable, sockVars, waits, sent, crashed>>

\* sys_socket: the socket is created first, so a full descriptor table leaves
\* it allocated and unreachable.
SysSocket(t, s, protocol) ==
  /\ ~ crashed /\ waits[t] = NULL
  /\ ops[s] = "none"
  /\ ops' = [ops EXCEPT ![s] = OpsOf(protocol)]
  /\ \/ \E fd \in Fds : /\ FirstFree(socket_maps, fd)
                        /\ socket_maps' = [socket_maps EXCEPT ![fd] = s]
     \/ Full(socket_maps) /\ UNCHANGED socket_maps
  /\ UNCHANGED <<udptable, sockVars, waits, sent, crashed>>

\* sys_bind, inet_bind: sport is left alone.
SysBind(t, fd, s, snum, p) ==
  /\ Calls(t, fd, s) /\ ops[s] = "dgram"
  /\ Grants(snum, p)
  /\ udp_v4_get_port(s, p)
  /\ bound' = bound \cup {s}
  /\ UNCHANGED <<ops, socket_maps, sport, queue, waits, sent, crashed>>

\* udp_sendmsg with a destination it accepts, or one it refuses (no AF_INET
\* address, port 0, no route, no neighbour).  Called without an address it reads
\* daddr and dport uninitialised, which is one or the other.
udp_sendmsg(s, accepted) ==
  sent' = IF accepted
            THEN sent \cup {[sk |-> s, src |-> sport'[s],
                               by |-> IF s \in bound THEN "bind" ELSE "autobind"]}
            ELSE sent

\* sys_sendto, inet_sendmsg on a socket with a port.
SysSendto(t, fd, s) ==
  /\ Calls(t, fd, s) /\ ops[s] = "dgram"
  /\ num[s] # 0
  /\ UNCHANGED <<ops, socket_maps, udptable, sockVars, waits, crashed>>
  /\ udp_sendmsg(s, TRUE)

\* Mutant: inet_autobind does not set sport.
SysSendtoAutobind_NoSport(t, fd, s, p, accepted) ==
  /\ Calls(t, fd, s) /\ ops[s] = "dgram"
  /\ num[s] = 0
  /\ Grants(0, p)
  /\ udp_v4_get_port(s, p)
  /\ UNCHANGED <<ops, socket_maps, sport, queue, waits, bound, crashed>>
  /\ udp_sendmsg(s, accepted)

\* Mutant: the test for num = 0 is lost, every send autobinds.
SysSendtoAutobind_Always(t, fd, s, p, accepted) ==
  /\ Calls(t, fd, s) /\ ops[s] = "dgram"
  /\ Grants(0, p)
  /\ udp_v4_get_port(s, p)
  /\ sport' = [sport EXCEPT ![s] = p]
  /\ UNCHANGED <<ops, socket_maps, queue, waits, bound, crashed>>
  /\ udp_sendmsg(s, accepted)

\* Mutant: sport is set to the port after the one taken.
SysSendtoAutobind_Sport(t, fd, s, p, accepted) ==
  /\ Calls(t, fd, s) /\ ops[s] = "dgram"
  /\ num[s] = 0
  /\ Grants(0, p)
  /\ udp_v4_get_port(s, p)
  /\ sport' = [sport EXCEPT ![s] = (p + 1) % NPort]
  /\ UNCHANGED <<ops, socket_maps, queue, waits, bound, crashed>>
  /\ udp_sendmsg(s, accepted)

\* sys_sendto on a socket whose num is 0: inet_autobind first, and what it did
\* stays when the send is then refused.
SysSendtoAutobind(t, fd, s, p, accepted) ==
  /\ Calls(t, fd, s) /\ ops[s] = "dgram"
  /\ num[s] = 0
  /\ Grants(0, p)
  /\ udp_v4_get_port(s, p)
  /\ sport' = [sport EXCEPT ![s] = p]
  /\ UNCHANGED <<ops, socket_maps, queue, waits, bound, crashed>>
  /\ udp_sendmsg(s, accepted)

\* sys_recv enters the loop of skb_recv_datagram ...
SysRecv(t, fd, s) ==
  /\ Calls(t, fd, s) /\ ops[s] = "dgram"
  /\ waits' = [waits EXCEPT ![t] = s]
  /\ UNCHANGED <<ops, socket_maps, udptable, sockVars, sent, crashed>>

\* ... and leaves it with the oldest datagram.
RecvReturns(t, s) ==
  /\ ~ crashed /\ waits[t] = s
  /\ queue[s] # <<>>
  /\ queue' = [queue EXCEPT ![s] = Tail(@)]
  /\ waits' = [waits EXCEPT ![t] = NULL]
  /\ UNCHANGED <<ops, socket_maps, udptable, num, sport, bound, sent, crashed>>

\* sock->ops->bind, sendmsg or recvmsg of a raw socket.
RawFault(t, fd, s) ==
  /\ Calls(t, fd, s) /\ ops[s] # "dgram"
  /\ crashed' = TRUE
  /\ UNCHANGED <<ops, socket_maps, udptable, sockVars, waits, sent>>

-----------------------------------------------------------------------------
(* The receive loop *)

\* Mutant: the lookup is off by one.
UdpRcv_OffByOne(p, s) ==
  /\ ~ crashed
  /\ s = udptable[(p + 1) % NPort] /\ s # NULL
  /\ Len(queue[s]) < MaxQueue
  /\ queue' = [queue EXCEPT ![s] = Append(@, p)]
  /\ UNCHANGED <<ops, socket_maps, udptable, num, sport, bound, waits, sent, crashed>>

\* __udp4_lib_lookup and sock_queue_rcv_skb; a datagram for a port nobody has,
\* or too short for a header, is dropped.
UdpRcv(p, s) ==
  /\ ~ crashed
  /\ s = udptable[p] /\ s # NULL
  /\ Len(queue[s]) < MaxQueue
  /\ queue' = [queue EXCEPT ![s] = Append(@, p)]
  /\ UNCHANGED <<ops, socket_maps, udptable, num, sport, bound, waits, sent, crashed>>

-----------------------------------------------------------------------------
Syscall(t, fd, s) ==
  \/ \E snum \in 0 .. NPort, p \in Ports : SysBind(t, fd, s, snum, p)
  \/ SysSendto(t, fd, s)
  \/ \E p \in Ports, accepted \in BOOLEAN : SysSendtoAutobind(t, fd, s, p, accepted)
  \/ SysRecv(t, fd, s)
  \/ RawFault(t, fd, s)

Next ==
  \/ \E t \in Apps, s \in Sks :
       \/ \E protocol \in {"UDP", "ICMP", "IP"} : SysSocket(t, s, protocol)
       \/ \E fd \in Fds : Syscall(t, fd, s)
       \/ RecvReturns(t, s)
  \/ \E p \in Ports, s \in Sks : UdpRcv(p, s)

Spec == Init /\ [][Next]_vars

-----------------------------------------------------------------------------
(* Properties *)

Datagrams == [sk : Sks, src : Ports, by : {"bind", "autobind"}]

\* Every variable stays in its type; a port number always fits the table.
TypeOK ==
  /\ ops \in [Sks -> {"none", "dgram", "raw"}]
  /\ socket_maps \in [Fds -> Sks \cup {NULL}]
  /\ udptable \in [Ports -> Sks \cup {NULL}]
  /\ num \in [Sks -> Ports]
  /\ sport \in [Sks -> Ports]
  /\ queue \in [Sks -> Seq(Ports)]
  /\ waits \in [Apps -> Sks \cup {NULL}]
  /\ bound \subseteq Sks
  /\ sent \subseteq Datagrams
  /\ crashed \in BOOLEAN

\* Descriptors never alias and ports never reach outside the descriptor's
\* world: two descriptors are two sockets, and a port belongs to a UDP socket
\* that still has a descriptor, so what is delivered to it can be received.
Reachable ==
  /\ \A f, g \in Fds : socket_maps[f] = socket_maps[g] /\ socket_maps[f] # NULL => f = g
  /\ \A p \in Ports : udptable[p] # NULL =>
       ops[udptable[p]] = "dgram" /\ \E fd \in Fds : socket_maps[fd] = udptable[p]

\* A port, once taken, keeps its socket: no later bind or autobind of another
\* socket diverts its datagrams.
PortKeepsOwner ==
  [][\A p \in Ports : udptable[p] # NULL => udptable'[p] = udptable[p]]_vars

\* A datagram of a socket that was never bound can be answered: its source port
\* is one of the sender's own, and stays so.  (The first autobind hands out port
\* 0, which leaves num = 0, so the next send autobinds again and the source port
\* changes under the application: both must lead back.)
AutoboundReplyReturns ==
  \A d \in sent : d.by = "autobind" => udptable[d.src] = d.sk

\* No datagram claims a port of another socket other than port 0.
SourceNotStolen ==
  \A d \in sent : d.src # 0 => udptable[d.src] = d.sk

\* Sends consume few ports: a socket that was never bound holds at most two, its
\* num and port 0.
FewPorts ==
  \A p \in Ports : udptable[p] # NULL /\ udptable[p] \notin bound => p \in {0, num[udptable[p]]}

\* What waits at a socket came in by a port of that socket, so sys_recv never
\* returns a datagram meant for another one.
OnlyOwnDatagrams ==
  \A s \in Sks : \A i \in DOMAIN queue[s] : udptable[queue[s][i]] = s
=============================================================================
