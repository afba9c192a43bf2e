--------------------------------- MODULE Fib ---------------------------------
(***************************************************************************)
(* The forwarding tables of ipv4/fib_hash.c, the routes that               *)
(* ipv4/fib_frontend.c derives from the addresses of an interface          *)
(* (ipv4/devinet.c), and what ipv4/route.c makes of them.                  *)
(*                                                                         *)
(* At boot the interface gets its addresses (config_netdevice,             *)
(* inet_insert_ifa) and then comes up, which fills the tables once.        *)
(*                                                                         *)
(* A table has one zone per prefix length; a zone is a list of nodes, the  *)
(* newest first.  Addresses have W bits (32 in the code) and are numbers,  *)
(* the first bit of the address being the most significant one.            *)
(***************************************************************************)
EXTENDS Naturals, Sequences

CONSTANTS W,       \* bits of an address
          Ifaddrs  \* addresses an interface may be given: [addr, plen]

\* 2^k, as a recursive function so that it can be reasoned about.
Pow2[k \in 0 .. W] == IF k = 0 THEN 1 ELSE 2 * Pow2[k - 1]

Addr == 0 .. Pow2[W] - 1

ASSUME WAssumption == W \in Nat \ {0}
ASSUME IfaddrsAssumption == Ifaddrs \subseteq [addr : Addr, plen : 1 .. W]

VARIABLES local_table,  \* ip_fib_local_table: the zones, by prefix length
          main_table,   \* ip_fib_main_table
          ifa_list,     \* in_dev->ifa_list, newest first
          up            \* fib_netdev_event has seen NETDEV_UP

vars == <<local_table, main_table, ifa_list, up>>

\* a & inet_make_mask(z): the first z bits.  Prefix length 0, where the macro
\* shifts by the width of int, is not an input.
Masked(a, z) == a - (a % Pow2[W - z])

\* a | ~inet_make_mask(z)
Filled(a, z) == Masked(a, z) + Pow2[W - z] - 1

\* Mutant: the node goes to the tail of its zone.
fn_hash_insert_Tail(table, dst, z, type, ifa) ==
  [table EXCEPT ![z] = Append(@, [fn_key |-> Masked(dst, z), type |-> type, prefsrc |-> ifa.addr])]

\* fn_hash_insert, fib_create_info: a node at the head of its zone.
fn_hash_insert(table, dst, z, type, ifa) ==
  [table EXCEPT ![z] = <<[fn_key |-> Masked(dst, z), type |-> type, prefsrc |-> ifa.addr]>> \o @]

\* fib_add_ifaddr on the local table (RTN_LOCAL and RTN_BROADCAST routes) ...
AddLocal(table, ifa) ==
  LET own == fn_hash_insert(table, ifa.addr, W, "LOCAL", ifa)
      low == fn_hash_insert(own, Masked(ifa.addr, ifa.plen), W, "BROADCAST", ifa)
  IN  IF ifa.plen < W - 1
        THEN fn_hash_insert(low, Filled(ifa.addr, ifa.plen), W, "BROADCAST", ifa)
        ELSE own

\* Mutant: the RTN_LOCAL route goes to the main table.
AddMain_Local(table, ifa) ==
  fn_hash_insert(table, ifa.addr, W, "LOCAL", ifa)

\* ... and on the main table (RTN_UNICAST).
AddMain(table, ifa) ==
  fn_hash_insert(table, Masked(ifa.addr, ifa.plen), ifa.plen, "UNICAST", ifa)

Empty == [z \in 0 .. W |-> <<>>]

Init ==
  /\ local_table = Empty
  /\ main_table = Empty
  /\ ifa_list = <<>>
  /\ up = FALSE

\* inet_insert_ifa.
Inserted(ifa) == <<ifa>> \o ifa_list

\* An address is given to the interface, each one once.  config_netdevice does so
\* for the one that is built in, FIXED_IP_ADDR; the tables are made for any number.
InetInsertIfa(ifa) ==
  /\ ~ up
  /\ \A i \in DOMAIN ifa_list : ifa_list[i] # ifa
  /\ ifa_list' = Inserted(ifa)
  /\ UNCHANGED <<local_table, main_table, up>>

\* fib_netdev_event: fib_add_ifaddr for each address of the list, in its order.
fib_netdev_event(list) ==
  LET tables[n \in 0 .. Len(list)] ==
        IF n = 0 THEN [local |-> Empty, main |-> Empty]
        ELSE [local |-> AddLocal(tables[n - 1].local, list[n]),
              main |-> AddMain(tables[n - 1].main, list[n])]
  IN  tables[Len(list)]

\* ether_init_module brings the interface up and fills the tables from the list,
\* which ends with the first address given.
NetdevUp ==
  /\ ~ up
  /\ up' = TRUE
  /\ local_table' = fib_netdev_event(ifa_list).local
  /\ main_table' = fib_netdev_event(ifa_list).main
  /\ UNCHANGED ifa_list

Next == NetdevUp \/ \E ifa \in Ifaddrs : InetInsertIfa(ifa)

Spec == Init /\ [][Next]_vars

-----------------------------------------------------------------------------
(* Lookup *)

NoRoute == [type |-> "none"]

\* Positions in zone z of the nodes a lookup of d accepts.
Hits(table, z, d) == {i \in DOMAIN table[z] : table[z][i].fn_key = Masked(d, z)}

\* fn_hash_lookup: the first node that matches, in the longest zone with one.
fn_hash_lookup(table, d) ==
  LET zones == {z \in 0 .. W : Hits(table, z, d) # {}}
  IN  IF zones = {}
        THEN NoRoute
        ELSE LET z == CHOOSE z \in zones : \A y \in zones : y <= z
                 i == CHOOSE i \in Hits(table, z, d) : \A j \in Hits(table, z, d) : i <= j
             IN  table[z][i]

\* Mutant: the main table first.
fib_lookup_MainFirst(d) ==
  LET m == fn_hash_lookup(main_table, d)
  IN  IF m # NoRoute THEN m ELSE fn_hash_lookup(local_table, d)

\* fib_lookup: the local table first.
fib_lookup(d) ==
  LET l == fn_hash_lookup(local_table, d)
  IN  IF l # NoRoute THEN l ELSE fn_hash_lookup(main_table, d)

\* ip_route_input_slow delivers what is for an own address and refuses the rest.
\* The source s goes into the key of the lookup, where nobody looks at it.
ip_route_input(d, s) == fib_lookup(d).type = "LOCAL"

\* Mutant: the source is taken from the destination's network.
ip_route_output_Network(d, src) ==
  LET res == fib_lookup(d)
  IN  IF res = NoRoute THEN NoRoute ELSE [type |-> res.type, src |-> IF src # 0 THEN src ELSE res.fn_key]

\* ip_route_output_slow and __mkroute_output: a source of 0 (a socket has none)
\* becomes the preferred source of the route; an echo reply brings its own.
ip_route_output(d, src) ==
  LET res == fib_lookup(d)
  IN  IF res = NoRoute THEN NoRoute ELSE [type |-> res.type, src |-> IF src # 0 THEN src ELSE res.prefsrc]

-----------------------------------------------------------------------------
(* Properties *)

\* Zones hold nodes of the kinds their table is for.
TypeOK ==
  /\ local_table \in [0 .. W -> Seq([fn_key : Addr, type : {"LOCAL", "BROADCAST"}, prefsrc : Addr])]
  /\ main_table \in [0 .. W -> Seq([fn_key : Addr, type : {"UNICAST"}, prefsrc : Addr])]
  /\ ifa_list \in Seq(Ifaddrs)
  /\ up \in BOOLEAN

\* Do the first n bits of two addresses agree?
SamePrefix(x, y, n) == x \div Pow2[W - n] = y \div Pow2[W - n]

Covers(i, d) == SamePrefix(ifa_list[i].addr, d, ifa_list[i].plen)

\* Addresses whose network has room for hosts also have two broadcast ones.
IsBroadcast(i, d) ==
  /\ ifa_list[i].plen < W - 1
  /\ Covers(i, d)
  /\ d % Pow2[W - ifa_list[i].plen] \in {0, Pow2[W - ifa_list[i].plen] - 1}

Special(i, d) == ifa_list[i].addr = d \/ IsBroadcast(i, d)

\* The one given to the interface first.
Oldest(S) == CHOOSE i \in S : \A j \in S : j <= i

\* What the tables should say about destination d, from the addresses alone: an
\* own or broadcast address is decided by the oldest interface address it is
\* special to; any other one goes out by the longest prefix that covers it, the
\* oldest one among equals, with that interface address as its source.
Reference(d) ==
  LET special == {i \in DOMAIN ifa_list : Special(i, d)}
      covering == {i \in DOMAIN ifa_list : Covers(i, d)}
      longest == {i \in covering : \A j \in covering : ifa_list[j].plen <= ifa_list[i].plen}
  IN  IF special # {}
        THEN LET i == Oldest(special)
             IN  [type |-> IF IsBroadcast(i, d) THEN "BROADCAST" ELSE "LOCAL",
                  prefsrc |-> ifa_list[i].addr]
        ELSE IF covering # {}
          THEN [type |-> "UNICAST", prefsrc |-> ifa_list[Oldest(longest)].addr]
          ELSE NoRoute

\* Once the interface is up fib_lookup decides every destination as the reference
\* does, whatever addresses it was given and in whatever order.
LookupIsReference ==
  up => \A d \in Addr :
    LET r == fib_lookup(d)
    IN  (IF r = NoRoute THEN NoRoute ELSE [type |-> r.type, prefsrc |-> r.prefsrc]) = Reference(d)

\* ip_route_input serves the interface's own address: with one address on the
\* interface, neither its network nor its broadcast address, that address and no
\* other is LOCAL, and exactly the addresses of its network have a route.
OwnAddressLocal ==
  up /\ Len(ifa_list) = 1 /\ ~ IsBroadcast(1, ifa_list[1].addr) =>
    \A d \in Addr : /\ fib_lookup(d).type = "LOCAL" <=> d = ifa_list[1].addr
                    /\ fib_lookup(d) # NoRoute <=> Covers(1, d)

\* Whatever is sent can be answered: the source ip_route_output gives a datagram
\* is an address ip_route_input accepts, unless it is also the broadcast address
\* of a network of the interface.
AnswersAccepted ==
  up => \A d \in Addr :
    LET sent == ip_route_output(d, 0)
    IN  sent # NoRoute => \/ ip_route_input(sent.src, d)
                          \/ \E i \in DOMAIN ifa_list : IsBroadcast(i, sent.src)
=============================================================================
