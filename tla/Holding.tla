------------------------------- MODULE Holding -------------------------------
(***************************************************************************)
(* What the neighbour cache promises to the layer above it, whatever       *)
(* happens on the network: every packet accepted for an address is held,   *)
(* and the packets of one address leave in the order they were accepted,   *)
(* each at most once, none overtaken, none dropped.                        *)
(***************************************************************************)
EXTENDS Sequences

CONSTANTS Addrs, Skbs

VARIABLES held,     \* per address, the packets accepted and not yet sent
          gone      \* per address, the packets sent

hvars == <<held, gone>>

In(s, q) == \E i \in DOMAIN q : q[i] = s

Fresh(s) == \A k \in Addrs : ~ In(s, held[k]) /\ ~ In(s, gone[k])

HInit ==
  /\ held = [k \in Addrs |-> <<>>]
  /\ gone = [k \in Addrs |-> <<>>]

Accept(k, s) ==
  /\ Fresh(s)
  /\ held' = [held EXCEPT ![k] = Append(@, s)]
  /\ UNCHANGED gone

Release(k) ==
  /\ held[k] # <<>>
  /\ gone' = [gone EXCEPT ![k] = Append(@, Head(held[k]))]
  /\ held' = [held EXCEPT ![k] = Tail(@)]

HNext == \E k \in Addrs : Release(k) \/ \E s \in Skbs : Accept(k, s)

HSpec == HInit /\ [][HNext]_hvars
=============================================================================
