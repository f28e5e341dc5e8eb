\* Two users and one role beside the built-in user: requests that overlap or fail.
SPECIFICATION Spec
CONSTANTS
  alice = alice
  bob = bob
  admin = admin
  clerk = clerk
  d1 = d1
  d2 = d2
  w1 = w1
  w2 = w2
  None = None
  Null = Null
  Places = {d1, d2}
  LogItems = 1
  Users = {admin, alice, bob}
  Roles = {clerk}
  Protected = {admin}
  Payloads <- MCPayloads
  RolePayloads <- MCRolePayloads
  Scopes <- MCScopes
INVARIANTS LogTells InactiveHasNoVpn
PROPERTY DeletionIsFinal
CHECK_DEADLOCK FALSE
