-------------------------------- MODULE MCFib --------------------------------
(* Instances of Fib for TLC. *)
EXTENDS Fib

\* Every address with every prefix length.
MCIfaddrs == [addr : Addr, plen : 1 .. W]

\* At most this many addresses.
MaxIfaddrs == 2

MCConfig(ifa) == Len(ifa_list) < MaxIfaddrs /\ InetInsertIfa(ifa)

MCNext == NetdevUp \/ \E ifa \in Ifaddrs : MCConfig(ifa)
MCSpec == Init /\ [][MCNext]_vars
=============================================================================
