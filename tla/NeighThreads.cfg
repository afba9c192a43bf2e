\* An application thread sends while the receive loop runs; each host keeps its
\* one hardware address.
SPECIFICATION Spec
CONSTANTS
  k1 = k1
  k2 = k2
  m1 = m1
  m2 = m1
  m3 = m3
  Apps = {a1}
  Rx = rx
  Addrs = {k1, k2}
  Macs = {m1, m3}
  MacsOf <- MCMacsOf
  ZeroMac = zero
  TornMac = torn
  Skbs = {s1, s2}
  Entries = {e1, e2, e3}
  NULL = null
SYMMETRY MCSymmetry
INVARIANTS TypeOK OneOwner RightHost OwnEntryOnce
PROPERTIES StaysReachable
