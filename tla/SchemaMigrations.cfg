\* Every release upgraded, interrupted, or taken back by one revision.
SPECIFICATION FairSpec
CONSTANT Scopes <- MCScopes
INVARIANTS
  FailuresKnown
  HeadHasModels
  GrantsReach
  EndpointsHaveCodes
  MembersKept
  DowngradeUndoes
PROPERTY UpgradeFinishes
CHECK_DEADLOCK FALSE
