\* Two threads send on one socket while the receive loop answers pings and ARP
\* requests.  Runs end when the buffers are used up, or in a fault.
SPECIFICATION Spec
CONSTANTS
  h1 = h1
  h2 = h2
  Apps = {a1, a2}
  Rx = rx
  Udps = {u1}
  Icmp = icmp
  Hosts = {h1, h2}
  Sends <- MCSends
  Echos <- MCPing
  Skbs = {s1, s2}
  NULL = null
CONSTRAINT TornBound
CHECK_DEADLOCK FALSE
INVARIANTS TypeOK NeverEmpty WholeFrame OwnHeaders SentOnce
PROPERTIES AllSent
