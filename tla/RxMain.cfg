\* One frame after another, all lengths around the header boundaries.  The
\* process may end in a fault.
SPECIFICATION Spec
CONSTANTS
  Sizes <- MCSizes
  Ihls = {0, 4, 5, 6, 15}
  TotLens <- MCTotLens
  IcmpTypes = {0, 8, 18, 19}
  Rooms = {0, 4, 8, 1024}
CHECK_DEADLOCK FALSE
INVARIANTS TypeOK ReadsInFrame DataEndsAtTail Released OnlyValidServed RecvWhole
