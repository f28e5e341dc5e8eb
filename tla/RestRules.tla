------------------------------- MODULE RestRules -------------------------------
(***************************************************************************)
(* Rest rules and whom they give a day off                                 *)
(* (src/backend/app/services/attendance_service.py).                       *)
(*                                                                         *)
(* A create or update is up to three transactions: the rule itself, its    *)
(* departments, its users.  The departments are replaced by a deletion and *)
(* an insertion, between which other requests move.  What keeps two        *)
(* replacements apart are InnoDB's locks at its default isolation level,   *)
(* which app/database.py leaves as it is: a deletion locks the rows of the *)
(* rule, or, when there is none, the gap they would fill; several          *)
(* transactions may lock one gap, and none can insert into a gap another   *)
(* one locked.  Replacements that wait for each other end with one rolled  *)
(* back.  The users are replaced likewise, in one step here.               *)
(*                                                                         *)
(* The rules stand for one date: a rule matches it (by date or weekday,    *)
(* and of type "fixed") or does not.                                       *)
(***************************************************************************)
EXTENDS Integers, Sequences, FiniteSets

CONSTANTS
  RestUsers,       \* the users there are
  Departments,
  DepartmentOf,    \* the department of each user's schedule item
  MaxRules,        \* bound on the rules created
  MaxRestRequests, \* bound on the requests accepted for a rule
  RestScopes       \* what is considered: records of the fields of restScope

RuleIds == 1..MaxRules

ASSUME BoundsAssumption == MaxRules \in Nat /\ MaxRestRequests \in Nat
ASSUME DepartmentsAssumption == DepartmentOf \in [RestUsers -> Departments]
ASSUME RestScopesAssumption == \A s \in RestScopes : IsFiniteSet(s.workers) /\ s.failing \in BOOLEAN

VARIABLES
  restScope,     \* what happens in this behaviour; never changes
  rules,         \* attendance_rest_rules, in order of id
  departmentIds, \* attendance_rest_rule_departments of each rule
  userIds,       \* attendance_rest_rule_users of each rule
  validUsers,    \* users that are active and not deleted
  txn,           \* where each worker is
  asked,         \* the assignments accepted for each rule, in order (history)
  disturbed      \* rules whose last requests overlapped or failed (history)

restVars == <<restScope, rules, departmentIds, userIds, validUsers, txn, asked, disturbed>>

Workers == restScope.workers  \* concurrent request handlers
Failing == restScope.failing  \* whether requests may fail halfway

Rule == [active : BOOLEAN, matches : BOOLEAN]

-----------------------------------------------------------------------------
(* _is_rest_day *)

\* Nobody named: everybody.
Applies(assigned, u) ==
  \/ assigned.departments = {} /\ assigned.users = {}
  \/ DepartmentOf[u] \in assigned.departments
  \/ u \in assigned.users
Assigned(r) == [departments |-> departmentIds[r], users |-> userIds[r]]
IsRestDay(u) ==
  \E r \in DOMAIN rules : rules[r].active /\ rules[r].matches /\ Applies(Assigned(r), u)

-----------------------------------------------------------------------------
(* A handler: the rule to commit ("rule"), then what to replace.  A set of *)
(* at most one element is an optional field of the payload; "gone" is what *)
(* the deletion found.                                                     *)

Idle == [step |-> "idle", id |-> 0, rule |-> {}, departments |-> {}, users |-> {}, gone |-> {}]
At(w, step) == txn[w].step = step
Creating == {w \in Workers : At(w, "rule") /\ txn[w].id = 0}

RestInit ==
  /\ restScope \in RestScopes
  /\ rules = <<>>
  /\ departmentIds = [r \in RuleIds |-> {}]
  /\ userIds = [r \in RuleIds |-> {}]
  /\ validUsers = RestUsers
  /\ txn = [w \in Workers |-> Idle]
  /\ asked = [r \in RuleIds |-> <<>>]
  /\ disturbed = {}

\* A request disturbs the rule while another is handled; alone and naming both
\* departments and users it makes up for what went wrong before.
Handling(r) == {w \in Workers : ~At(w, "idle") /\ txn[w].id = r}
Disturbing(r, complete) ==
  disturbed' = IF Handling(r) # {} THEN disturbed \cup {r}
               ELSE IF complete THEN disturbed \ {r} ELSE disturbed

\* Unknown, inactive and deleted users are refused when the request is read.
CreateRestRule(w, rule, ds, us) ==
  /\ At(w, "idle")
  /\ Len(rules) + Cardinality(Creating) < MaxRules
  /\ us \subseteq validUsers
  /\ txn' = [txn EXCEPT ![w] = [step |-> "rule", id |-> 0, rule |-> {rule},
                                departments |-> {ds}, users |-> {us}, gone |-> {}]]
  /\ UNCHANGED <<restScope, rules, departmentIds, userIds, validUsers, asked, disturbed>>

UpdateRestRule(w, r, rule, ds, us) ==
  /\ At(w, "idle")
  /\ Len(asked[r]) < MaxRestRequests
  /\ \A s \in us : s \subseteq validUsers
  /\ txn' = [txn EXCEPT ![w] = [step |-> "rule", id |-> r, rule |-> {rule},
                                departments |-> ds, users |-> us, gone |-> {}]]
  /\ Disturbing(r, ds # {} /\ us # {})
  /\ UNCHANGED <<restScope, rules, departmentIds, userIds, validUsers, asked>>

DeleteRestRule(w, r) ==
  UpdateRestRule(w, r, [rules[r] EXCEPT !.active = FALSE], {}, {})

\* Fields the payload leaves out keep what is stored, and are not replaced.
Chosen(new, old) == IF new = {} THEN old ELSE CHOOSE s \in new : TRUE
CommitRule(w) ==
  /\ At(w, "rule")
  /\ LET t == txn[w]
         r == IF t.id = 0 THEN Len(rules) + 1 ELSE t.id
         rule == CHOOSE x \in t.rule : TRUE
     IN /\ rules' = IF t.id = 0 THEN Append(rules, rule) ELSE [rules EXCEPT ![r] = rule]
        /\ asked' = [asked EXCEPT ![r] = Append(@,
             [departments |-> Chosen(t.departments, departmentIds[r]),
              users |-> Chosen(t.users, userIds[r])])]
        /\ txn' = [txn EXCEPT ![w].step = IF t.departments = {} THEN "users" ELSE "departments",
                             ![w].id = r]
  /\ UNCHANGED <<restScope, departmentIds, userIds, validUsers, disturbed>>

\* Who deleted the departments of rule r and has not committed yet.
\* Mutant: isolation level READ COMMITTED, at which a deletion that finds no row locks nothing.
LockingRowsOnly(r) == {w \in Workers : At(w, "insert") /\ txn[w].id = r /\ txn[w].gone # {}}
Locking(r) == {w \in Workers : At(w, "insert") /\ txn[w].id = r}

\* The deletion waits for the rows another handler has deleted.
DeleteDepartments(w) ==
  /\ At(w, "departments")
  /\ LET r == txn[w].id
     IN /\ Locking(r) = {} \/ departmentIds[r] = {}
        /\ txn' = [txn EXCEPT ![w].step = "insert", ![w].gone = departmentIds[r]]
  /\ UNCHANGED <<restScope, rules, departmentIds, userIds, validUsers, asked, disturbed>>

\* The insertion waits for a gap another handler has locked; without rows there is none.
InsertDepartments(w) ==
  /\ At(w, "insert")
  /\ LET t == txn[w]
         ds == Chosen(t.departments, {})
     IN /\ ds = {} \/ Locking(t.id) \subseteq {w}
        /\ departmentIds' = [departmentIds EXCEPT ![t.id] = (@ \ t.gone) \cup ds]
        /\ txn' = [txn EXCEPT ![w].step = "users", ![w].gone = {}]
  /\ UNCHANGED <<restScope, rules, userIds, validUsers, asked, disturbed>>

\* Mutant: users are replaced only when the departments are as well.
ReplaceUsersWithDepartments(w) ==
  /\ At(w, "users")
  /\ userIds' = [userIds EXCEPT
       ![txn[w].id] = IF txn[w].departments = {} THEN @ ELSE Chosen(txn[w].users, @)]
  /\ txn' = [txn EXCEPT ![w] = Idle]
  /\ UNCHANGED <<restScope, rules, departmentIds, validUsers, asked, disturbed>>
ReplaceUsers(w) ==
  /\ At(w, "users")
  /\ userIds' = [userIds EXCEPT ![txn[w].id] = Chosen(txn[w].users, @)]
  /\ txn' = [txn EXCEPT ![w] = Idle]
  /\ UNCHANGED <<restScope, rules, departmentIds, validUsers, asked, disturbed>>

\* Two replacements that wait for each other's locks.
Deadlocked(w) ==
  \E v \in Workers \ {w} :
    /\ txn[v].id = txn[w].id
    /\ \/ At(w, "users") /\ At(v, "users")
       \/ At(w, "insert") /\ txn[v].step \in {"departments", "insert"}
       \/ At(v, "insert") /\ At(w, "departments")

\* A database error or a crash, or the database breaks a deadlock: what was committed stays.
Fail(w) ==
  /\ Failing \/ Deadlocked(w)
  /\ ~At(w, "idle")
  /\ txn' = [txn EXCEPT ![w] = Idle]
  /\ disturbed' = IF txn[w].id = 0 THEN disturbed ELSE disturbed \cup {txn[w].id}
  /\ UNCHANGED <<restScope, rules, departmentIds, userIds, validUsers, asked>>

\* A user is deactivated, deleted, or activated again.
ChangeUser(u) ==
  /\ validUsers' = IF u \in validUsers THEN validUsers \ {u} ELSE validUsers \cup {u}
  /\ UNCHANGED <<restScope, rules, departmentIds, userIds, txn, asked, disturbed>>

Continue(w) ==
  CommitRule(w) \/ DeleteDepartments(w) \/ InsertDepartments(w) \/ ReplaceUsers(w)
Optional(S) == {{}} \cup {{s} : s \in S}
Begin(w) ==
  \/ \E rule \in Rule, ds \in SUBSET Departments, us \in SUBSET RestUsers :
       CreateRestRule(w, rule, ds, us)
  \/ \E r \in DOMAIN rules :
       \/ \E rule \in Rule, ds \in Optional(SUBSET Departments), us \in Optional(SUBSET RestUsers) :
            UpdateRestRule(w, r, rule, ds, us)
       \/ DeleteRestRule(w, r)

RestNext ==
  \/ \E w \in Workers : Begin(w) \/ Continue(w) \/ Fail(w)
  \/ \E u \in RestUsers : ChangeUser(u)

RestSpec == RestInit /\ [][RestNext]_restVars

-----------------------------------------------------------------------------
(* Properties *)

\* The departments of a rule are those of one accepted request, or none: requests that
\* delete and insert them at the same time, on a rule with departments or without, never
\* leave a mixture, which would give people a day off whom nobody named together.
DepartmentsOfOneRequest ==
  \A r \in DOMAIN rules :
    departmentIds[r] # {} =>
      \E n \in DOMAIN asked[r] : asked[r][n].departments = departmentIds[r]

\* Once no request is being handled, a rule gives the day off to exactly those the last
\* accepted request meant, unless that request failed halfway or overlapped another: then
\* asking again, for departments and users, puts it right.
RestAsAsked ==
  (\A w \in Workers : At(w, "idle")) /\ disturbed = {} =>
    \A u \in RestUsers :
      IsRestDay(u) <=>
        \E r \in DOMAIN rules :
          rules[r].active /\ rules[r].matches /\ Applies(asked[r][Len(asked[r])], u)
=============================================================================
