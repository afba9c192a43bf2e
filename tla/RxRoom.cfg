\* The comment at core/socket.c:171 against skb_copy_datagram_iovec.
SPECIFICATION Spec
CONSTANTS
  Sizes <- MCSizes
  Ihls = {5}
  TotLens <- MCTotLens
  IcmpTypes = {8}
  Rooms = {0, 4}
CHECK_DEADLOCK FALSE
INVARIANTS RecvInRoom
