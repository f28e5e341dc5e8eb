CONSTANTS
  admin1 = admin1
  admin2 = admin2
  Admins = {admin1, admin2}
  Departments = {d1, d2, d3, d4}
  Users = {alice}
  None = None
  DeletedMarks = {TRUE, FALSE}
  Scopes <- MCScopes
SYMMETRY Symmetry
SPECIFICATION Spec
INVARIANT DescendantsCorrect
PROPERTIES BrokenOnlyByRestore StrayOnlyUnderDeleted
