\* One employee: clock records, a month with requests, or shift swaps.
SPECIFICATION Spec
CONSTANTS
  u1 = u1
  early = early
  night = night
  Users = {u1}
  DayLength = 4
  Scopes <- MCScopes
INVARIANTS
  MonthlyConsistent
PROPERTIES
  PresentNotAbsent
  OwnSwapKeepsShift
