--------------------------- MODULE DepartmentTree ---------------------------
(***************************************************************************)
(* The department tree (src/backend/app/services/department_service.py),   *)
(* the users it holds (user_service.py) and the descendant search that     *)
(* data_scope.py repeats over it.                                          *)
(*                                                                         *)
(* A request validates against the snapshot its queries read and leaves in *)
(* txn[w] the columns its flush will change; Commit writes them over       *)
(* whatever is stored by then.  Departments are only soft-deleted, and an  *)
(* update finds deleted departments too.  is_active is left out: an update *)
(* sets it at any time and nothing here but the choice of a user's         *)
(* department reads it.                                                    *)
(***************************************************************************)
EXTENDS Integers, FiniteSets

CONSTANTS
  Admins,       \* concurrent administrator requests
  Departments,  \* ids of departments
  Users,
  None,         \* no parent, no department
  DeletedMarks, \* values of is_deleted an update may carry
  Scopes        \* what is considered: records of the fields of scope

ASSUME NoneAssumption == None \notin Departments
ASSUME MarksAssumption == DeletedMarks \subseteq BOOLEAN
ASSUME DepartmentsAssumption == IsFiniteSet(Departments)

ASSUME ScopesAssumption == \A s \in Scopes : s.admins \subseteq Admins /\ s.departments \in Nat

VARIABLES
  scope,    \* the admins at work and the number of departments; never changes
  created,  \* departments with a row
  deleted,  \* rows marked is_deleted
  parent,   \* parent_id
  member,   \* the user's one user_departments row
  gone,     \* deleted users
  txn,      \* the uncommitted writes of each request
  overtaken \* requests whose snapshot is older than a commit of another (history)

vars == <<scope, created, deleted, parent, member, gone, txn, overtaken>>

Live == created \ deleted

-----------------------------------------------------------------------------
(* Searches *)

Children(ids) == {d \in Live : parent[d] \in ids}

\* Mutant: only the children and grandchildren are searched.
CollectTwoLevels(d) == Children({d}) \cup Children(Children({d}))
\* Breadth first, a level per round; no search has more levels than departments.
CollectDescendantIds(d) ==
  LET level[n \in 0..Cardinality(Departments)] ==
        IF n = 0 THEN [found |-> {}, pending |-> {d}]
        ELSE LET new == Children(level[n - 1].pending) \ level[n - 1].found
             IN [found |-> level[n - 1].found \cup new, pending |-> new]
  IN level[Cardinality(Departments)].found
DepartmentTreeIds(d) == {d} \cup CollectDescendantIds(d)

\* The search of data_scope.py: its result holds the departments it starts from.
DescendantDepartmentIds(ids) ==
  LET level[n \in 0..Cardinality(Departments)] ==
        IF n = 0 THEN [scoped |-> ids, pending |-> ids]
        ELSE LET new == Children(level[n - 1].pending) \ level[n - 1].scoped
             IN [scoped |-> level[n - 1].scoped \cup new, pending |-> new]
  IN level[Cardinality(Departments)].scoped

-----------------------------------------------------------------------------
(* What a request checks, and what it will write *)

\* Mutant: only the department itself is refused as its parent.
ValidParentButItself(p, d) == p = None \/ (p \in Live /\ p # d)
ValidParent(p, d) ==
  p = None \/ (p \in Live /\ p # d /\ p \notin CollectDescendantIds(d))

\* Mutant: the users of the descendants are not counted.
HasNoUsersItself(d) == \A u \in Users \ gone : member[u] # d
TreeHasNoUsers(d) == \A u \in Users \ gone : member[u] \notin DepartmentTreeIds(d)

ValidDepartments == Live

Idle == [kind |-> "none", create |-> {}, parents |-> {}, delete |-> {},
         restore |-> {}, members |-> {}, gone |-> {}]

CreateWrites(d, p) ==
  [Idle EXCEPT !.kind = "create", !.create = {d}, !.parents = {<<d, p>>}]

\* moves and marks are the fields the request carries: empty when it carries none.
UpdateWrites(d, moves, marks) ==
  [Idle EXCEPT !.kind = "update",
               !.parents = ({d} \X moves) \ {<<d, parent[d]>>},
               !.delete = IF TRUE \in marks THEN DepartmentTreeIds(d) \ deleted ELSE {},
               !.restore = IF FALSE \in marks THEN {d} \cap deleted ELSE {}]

DeleteWrites(d) == [Idle EXCEPT !.kind = "delete", !.delete = DepartmentTreeIds(d)]

-----------------------------------------------------------------------------
Init ==
  /\ scope \in Scopes
  /\ created = {}
  /\ deleted = {}
  /\ parent = [d \in Departments |-> None]
  /\ member = [u \in Users |-> None]
  /\ gone = {}
  /\ txn = [w \in Admins |-> Idle]
  /\ overtaken = {}

Begin(w, writes) ==
  /\ txn[w] = Idle
  /\ txn' = [txn EXCEPT ![w] = writes]
  /\ UNCHANGED <<scope, created, deleted, parent, member, gone, overtaken>>

\* The id is new: no other open request inserts it.
Taken == created \cup UNION {txn[v].create : v \in Admins}
CreateItem(w) ==
  \E d \in Departments \ Taken, p \in Departments \cup {None} :
    /\ Cardinality(Taken) < scope.departments
    /\ p = None \/ p \in Live
    /\ Begin(w, CreateWrites(d, p))

\* A deleted department is found, moved, restored, or deleted again: then its
\* users are not checked and its live descendants are deleted.
UpdateItem(w) ==
  \E d \in created,
     moves \in {{}} \cup {{p} : p \in Departments \cup {None}},
     marks \in {{}} \cup {{m} : m \in DeletedMarks} :
    /\ moves # {} \/ marks # {}
    /\ \A p \in moves : ValidParent(p, d)
    /\ TRUE \in marks /\ d \notin deleted => TreeHasNoUsers(d)
    /\ Begin(w, UpdateWrites(d, moves, marks))

DeleteItem(w) ==
  \E d \in Live : TreeHasNoUsers(d) /\ Begin(w, DeleteWrites(d))

\* At most one department is kept, the first of the request that is live.
ReplaceDepartments(w) ==
  \E u \in Users \ gone, d \in ValidDepartments \cup {None} :
    Begin(w, [Idle EXCEPT !.kind = "assign", !.members = {<<u, d>>}])

\* delete_user, delete_users, and an update with is_deleted: the department row stays.
DeleteUsers(w) ==
  \E us \in SUBSET (Users \ gone) :
    us # {} /\ Begin(w, [Idle EXCEPT !.kind = "user", !.gone = us])

Written(f, pairs) ==
  [x \in DOMAIN f |-> IF \E y \in pairs : y[1] = x
                      THEN (CHOOSE y \in pairs : y[1] = x)[2] ELSE f[x]]

Commit(w) ==
  /\ txn[w] # Idle
  /\ created' = created \cup txn[w].create
  /\ deleted' = (deleted \cup txn[w].delete) \ txn[w].restore
  /\ parent' = Written(parent, txn[w].parents)
  /\ member' = Written(member, txn[w].members)
  /\ gone' = gone \cup txn[w].gone
  /\ txn' = [txn EXCEPT ![w] = Idle]
  /\ overtaken' = (overtaken \cup {v \in Admins : txn[v] # Idle}) \ {w}
  /\ UNCHANGED scope

\* A name or code already taken, a database error, a crash.
Rollback(w) ==
  /\ txn[w] # Idle
  /\ txn' = [txn EXCEPT ![w] = Idle]
  /\ overtaken' = overtaken \ {w}
  /\ UNCHANGED <<scope, created, deleted, parent, member, gone>>

Next ==
  \E w \in scope.admins :
    \/ CreateItem(w) \/ UpdateItem(w) \/ DeleteItem(w)
    \/ ReplaceDepartments(w) \/ DeleteUsers(w)
    \/ Commit(w) \/ Rollback(w)

Spec == Init /\ [][Next]_vars

-----------------------------------------------------------------------------
(* Properties *)

\* The live departments under d: the least set that holds its live children
\* and theirs.
Descendants(d) ==
  LET closed == {s \in SUBSET Departments : Children(s \cup {d}) \subseteq s}
  IN {x \in Departments : \A s \in closed : x \in s}

\* collect_descendant_ids finds exactly the live departments under the one it
\* starts from, and ends, on the cyclic trees too that restoring can leave; the
\* search data_scope.py has of its own agrees, from any departments.
DescendantsCorrect ==
  /\ \A d \in created : CollectDescendantIds(d) = Descendants(d)
  /\ \A ids \in SUBSET created :
       DescendantDepartmentIds(ids) = ids \cup UNION {Descendants(d) : d \in ids}

\* No live department is under itself ("上级部门不能选择当前部门的子部门").
Acyclic == \A d \in Live : d \notin Descendants(d)

Restored == deleted \ deleted'
LateCommit == \E w \in overtaken : txn'[w] = Idle
Orphan(d) == d \in Live /\ parent[d] \in deleted

\* Only restoring a deleted department, or a request that validated before another
\* committed, breaks the tree: nothing else closes a cycle of live departments, or
\* leaves one under a deleted parent.
BrokenOnlyByRestore ==
  [][LateCommit \/
       /\ Acyclic => Acyclic' \/ Restored # {}
       /\ \A d \in Departments : Orphan(d)' => Orphan(d) \/ d \in Restored]_vars

\* No live user is in a deleted department ("当前部门或子部门下存在人员，不能删除").
Stray(u) == u \notin gone /\ member[u] \in deleted

\* A live user is only left in a deleted department when that department was live
\* under one deleted before, or a request validated before another committed.
StrayOnlyUnderDeleted ==
  [][\A u \in Users :
       Stray(u)' => \/ Stray(u) \/ LateCommit
                    \/ \E d \in deleted : member[u] \in Descendants(d)]_vars
=============================================================================
