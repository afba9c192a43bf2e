\* One application thread, as in test/test.c; more sockets than descriptors and
\* fewer ports than they can ask for.  The process may end in a fault.
SPECIFICATION Spec
CONSTANTS
  Apps = {a1}
  Sks = {u1, u2, u3}
  NFd = 2
  NPort = 4
  MaxQueue = 1
  NULL = null
SYMMETRY MCSymmetry
CHECK_DEADLOCK FALSE
INVARIANTS TypeOK Reachable AutoboundReplyReturns SourceNotStolen FewPorts OnlyOwnDatagrams
PROPERTIES PortKeepsOwner
