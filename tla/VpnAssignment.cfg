\* Two servers; two rules for one kind of target, or one for either of two.
SPECIFICATION AssignmentSpec
CONSTANTS
  s1 = s1
  s2 = s2
  Servers = {s1, s2}
  AssignmentScopes <- MCScopes
  Priorities = {1}
  Statuses = {"online", "disabled"}
INVARIANTS  UpRuleUsed
