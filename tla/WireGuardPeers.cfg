\* Two accounts: requests in order, failing, moving accounts, or two at a time.
SPECIFICATION Spec
CONSTANTS
  a1 = a1
  a2 = a2
  s1 = s1
  s2 = s2
  w1 = w1
  w2 = w2
  Accounts = {a1, a2}
  Scopes <- MCScopes
INVARIANTS PeersAgree AddressesDiffer RevokedHasNoPeer
CHECK_DEADLOCK FALSE
