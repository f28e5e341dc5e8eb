\* Two administrators on two servers, of either type.
SPECIFICATION Spec
CONSTANTS
  s1 = s1
  s2 = s2
  w1 = w1
  w2 = w2
  h1 = h1
  h2 = h2
  Servers = {s1, s2}
  Hosts = {h1, h2}
  Ports = {443}
  Workers = {w1, w2}
  MaxUpdates = 5
INVARIANTS DefaultUnique PortKept
PROPERTY DefaultKept
SYMMETRY Symmetry
CHECK_DEADLOCK FALSE
