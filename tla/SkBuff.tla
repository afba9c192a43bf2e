-------------------------------- MODULE SkBuff --------------------------------
(***************************************************************************)
(* The geometry of a struct sk_buff (core/skbuff.c): where in its buffer   *)
(* the data starts and ends.  Offsets count bytes from skb->head.  The C   *)
(* functions print a message and return NULL when there is no room; no     *)
(* caller in the transmit path looks at that, so it is remembered in       *)
(* "refused" and shown never to happen.                                    *)
(***************************************************************************)
EXTENDS Naturals

\* data, tail, len: the fields; end: the size of the buffer; nh, h: where the
\* network and transport headers start.
Buffers == [data : Nat, tail : Nat, end : Nat, len : Nat, nh : Nat, h : Nat, refused : BOOLEAN]

\* alloc_skb, when both allocations succeed.
alloc_skb(size) ==
  [data |-> 0, tail |-> 0, end |-> size, len |-> 0, nh |-> 0, h |-> 0, refused |-> FALSE]

Refuse(b) == [b EXCEPT !.refused = TRUE]

\* Mutant: the room for the hardware header is not reserved.
skb_reserve_None(b, n) == b

\* Room in front of the data, for headers that are pushed later.
skb_reserve(b, n) ==
  IF b.data + n > b.end THEN Refuse(b)
  ELSE [b EXCEPT !.data = @ + n, !.tail = @ + n]

skb_put(b, n) ==
  IF b.tail + n > b.end THEN Refuse(b)
  ELSE [b EXCEPT !.tail = @ + n, !.len = @ + n]

skb_push(b, n) ==
  IF b.data < n THEN Refuse(b)
  ELSE [b EXCEPT !.data = @ - n, !.len = @ + n]

skb_pull(b, n) ==
  IF n > b.len THEN Refuse(b)
  ELSE [b EXCEPT !.data = @ + n, !.len = @ - n]
=============================================================================
