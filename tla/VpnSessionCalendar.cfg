\* One server over two days of one month, an account and a common name without one.
SPECIFICATION Spec
CONSTANTS
  s1 = s1
  s2 = s2
  alice = alice
  ghost = ghost
  dept = dept
  admin = admin
  Servers = {s1}
  Admins = {}
  CommonNames = {alice, ghost}
  Accounts = {alice}
  Certificates <- MCCertificates
  Departments = {dept}
  DepartmentOf <- MCDepartmentOf
  Months = {1}
  MonthOf <- MCTwoDays
  Rules <- MCCalendarRules
  ByteCounts = {0, 2}
  MaxSessions = 4
INVARIANTS
  LedgerExact
  AlertsAsExceeded
