\* The comment at ipv4/icmp.c:44 against what icmp_glue_bits sums.
SPECIFICATION Spec
CONSTANTS
  h1 = h1
  h2 = h2
  Apps = {a1, a2}
  Rx = rx
  Udps = {u1}
  Icmp = icmp
  Hosts = {h1, h2}
  Sends <- MCSends
  Echos <- MCEchos
  Skbs = {s1, s2}
  NULL = null
CHECK_DEADLOCK FALSE
INVARIANTS ReplyChecksummed
