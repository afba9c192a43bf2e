\* Two receivers and the receive loop, every interleaving of their loads and
\* stores.  Runs end when all packets have arrived, or in a fault.
SPECIFICATION Spec
CONSTANTS
  Skbs = {s1, s2, s3, s4}
  List = list
  Rx = rx
  Receivers = {r1, r2}
  NULL = null
SYMMETRY MCSymmetry
CHECK_DEADLOCK FALSE
INVARIANTS TypeOK ListIsQueue InOrder
