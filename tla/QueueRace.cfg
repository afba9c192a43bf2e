\* The comment at ipv4/udp.c:167 against the unlocked list.
SPECIFICATION Spec
CONSTANTS
  Skbs = {s1, s2}
  List = list
  Rx = rx
  Receivers = {r1}
  NULL = null
SYMMETRY MCSymmetry
CHECK_DEADLOCK FALSE
INVARIANTS ReturnsWhatIsThere
