\* One administrator whose requests may fail, or two at the same time.
SPECIFICATION RestSpec
CONSTANTS
  u1 = u1
  d1 = d1
  d2 = d2
  w1 = w1
  w2 = w2
  RestUsers = {u1}
  Departments = {d1, d2}
  DepartmentOf <- MCDepartmentOf
  MaxRules = 1
  MaxRestRequests = 2
  RestScopes <- MCScopes
INVARIANTS DepartmentsOfOneRequest RestAsAsked
