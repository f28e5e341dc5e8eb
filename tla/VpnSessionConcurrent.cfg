\* Two servers report the same account while one administrator works: three sessions.
SPECIFICATION Spec
CONSTANTS
  s1 = s1
  s2 = s2
  alice = alice
  ghost = ghost
  dept = dept
  admin = admin
  Servers = {s1, s2}
  Admins = {admin}
  CommonNames = {alice}
  Accounts = {alice}
  Certificates <- MCCertificates
  Departments = {dept}
  DepartmentOf <- MCDepartmentOf
  Months = {1}
  MonthOf <- MCOneDay
  Rules <- MCConcurrentRules
  ByteCounts = {2}
  MaxSessions = 3
INVARIANTS
  AtMostOneOnline
  OnlineIsReal
  DepartmentNeverOvercounts
  AlertedCertificateRevoked
  TrafficOncePerSession
