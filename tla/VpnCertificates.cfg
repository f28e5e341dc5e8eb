\* One account: requests in order, two at a time, or with failures.
SPECIFICATION Spec
CONSTANTS
  a1 = a1
  s1 = s1
  s2 = s2
  n1 = n1
  n2 = n2
  w1 = w1
  w2 = w2
  Accounts = {a1}
  Scopes <- MCScopes
INVARIANTS DatabaseAgrees RevokedHasNoKeys
PROPERTY RevokedStays
CHECK_DEADLOCK FALSE
