\* The comment at ipv4/icmp.c:149 against the handler table.
SPECIFICATION Spec
CONSTANTS
  Sizes <- MCSizes
  Ihls = {5}
  TotLens <- MCTotLens
  IcmpTypes = {1, 8, 19}
  Rooms = {1024}
CHECK_DEADLOCK FALSE
INVARIANTS UnknownIcmpDiscarded
