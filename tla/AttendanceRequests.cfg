\* Two requests in order, or one request and two handlers, over two days.
SPECIFICATION FairSpec
CONSTANTS
  w1 = w1
  w2 = w2
  Workers = {w1, w2}
  MaxRequests = 2
  LastDay = 2
  Scopes <- MCScopes
INVARIANTS
  EffectsWereApproved
PROPERTIES
  DecidedIsFinal
  PromiseKept
  ApprovalsSettle
