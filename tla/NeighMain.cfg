\* The program as shipped: only the receive loop sends (its ping replies).
SPECIFICATION FairSpec
CONSTANTS
  k1 = k1
  k2 = k2
  m1 = m1
  m2 = m2
  m3 = m3
  Apps = {}
  Rx = rx
  Addrs = {k1, k2}
  Macs = {m1, m2, m3}
  MacsOf <- MCMacsOf
  ZeroMac = zero
  TornMac = torn
  Skbs = {s1, s2}
  Entries = {e1, e2, e3}
  NULL = null
INVARIANTS NoStranded
PROPERTIES Holds FreshMac EventuallySent RxReturns Recovers
