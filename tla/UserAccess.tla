------------------------------- MODULE UserAccess -------------------------------
(***************************************************************************)
(* Users, their roles and their VPN accounts                               *)
(* (src/backend/app/services/user_service.py, role_service.py, and the     *)
(* enabling and disabling of accounts in openvpn_service.py).              *)
(*                                                                         *)
(* A request of an administrator reads what it needs, commits once or      *)
(* more, and at last records itself in the operation log, in a transaction *)
(* of its own; a registration is not recorded.  The log keeps what was     *)
(* asked, without nulls and with the first ids of a list only.  A commit   *)
(* writes the columns the request changed, compared with the row it read;  *)
(* replacing a list deletes and inserts under locks and is one step.  Who  *)
(* may send a request is decided before it starts and is not modelled; nor *)
(* are departments and positions that become invalid meanwhile (see        *)
(* DepartmentTree).  A role is refused permissions that do not exist.      *)
(***************************************************************************)
EXTENDS Integers, Sequences, FiniteSets

CONSTANTS
  Users,
  Roles,
  Protected,    \* the built-in user and the built-in role
  Payloads,     \* what a request may ask of a user: columns and lists
  RolePayloads, \* and of a role
  Places,       \* departments and positions that exist and are active
  LogItems,     \* the ids of a list that the log keeps
  None,         \* no VPN account
  Null,         \* a list given as null
  Scopes        \* what is considered: records of the fields of scope

ASSUME NamesAssumption == Users \cap Roles = {} /\ Protected \subseteq Users \cup Roles
ASSUME LogItemsAssumption == LogItems \in Nat \ {0}
ASSUME NoneAssumption == None \notin {"enabled", "disabled"}
ASSUME ScopesAssumption ==
  \A s \in Scopes :
    s.requests \in Nat /\ s.start \subseteq Users \cup Roles /\ Protected \subseteq s.start

Subjects == Users \cup Roles

VARIABLES
  scope,     \* what happens in this behaviour; never changes
  rows,      \* sys_users with the user's lists and VPN account, and sys_roles
  txn,       \* where each worker is
  sent,      \* number of requests sent
  logged,    \* what the log last told of each field (history)
  untold,    \* fields whose last request the log does not tell, or not whole (history)
  disturbed  \* fields whose last requests overlapped or failed (history)

log == <<logged, untold>>
vars == <<scope, rows, txn, sent, log, disturbed>>

Workers == scope.workers  \* concurrent request handlers
Failing == scope.failing  \* whether requests may fail halfway
MaxRequests == scope.requests  \* bound on the requests sent

NewUser == [active |-> TRUE, deleted |-> FALSE, vpn |-> None,
            department |-> {}, scope |-> {}, role |-> {}, positions |-> {}]
NewRole == [active |-> TRUE, deleted |-> FALSE, grants |-> {}]
\* The lists of a user, in the order in which a request replaces them.
UserLists == <<"department", "scope", "role", "positions">>
ListFields == {UserLists[i] : i \in DOMAIN UserLists}
FirstList(lists) ==
  UserLists[CHOOSE i \in DOMAIN UserLists :
              /\ UserLists[i] \in DOMAIN lists
              /\ \A j \in 1..(i - 1) : UserLists[j] \notin DOMAIN lists]

ASSUME PayloadsAssumption ==
  /\ \A p \in Payloads :
       /\ DOMAIN p.columns \subseteq {"active", "deleted"}
       /\ \A f \in DOMAIN p.columns : p.columns[f] \in BOOLEAN
       /\ DOMAIN p.lists \subseteq ListFields
  /\ \A p \in RolePayloads : DOMAIN p \subseteq DOMAIN NewRole

\* Lists are given as ids in some order, or null, which empties the relation.  Of a list of
\* departments, scope or roles only the first id is kept.
Lists == ListFields \cup {"grants"}
Single == {"department", "scope", "role"}
IdsOf(v) == IF v = Null THEN {} ELSE DOMAIN v
Taken(f, places) == {i \in places : f \in Single => \A j \in places : i <= j}
\* What a request that gives v makes of field f, when all ids are valid.
Value(f, v) == IF f \notin Lists THEN v ELSE {v[i] : i \in Taken(f, IdsOf(v))}
Values(asked) == [f \in DOMAIN asked |-> Value(f, asked[f])]
WithoutNulls(lists) == \A f \in DOMAIN lists : lists[f] # Null

\* What the log shows of it (sanitize_payload), and whether that is not all.
Shown(f, v) ==
  IF f \notin Lists THEN v ELSE {v[i] : i \in Taken(f, IdsOf(v)) \cap 1..LogItems}
Hidden(f, v) ==
  f \in Lists /\ (v = Null \/ ~(Taken(f, IdsOf(v)) \subseteq 1..LogItems))

\* Where a request stands: the rows it is about and how they were when it read them, the
\* columns and lists it has still to write, what it was asked, and the fields it touches.
Idle == [step |-> "idle", on |-> {}, read |-> <<>>, columns |-> <<>>, lists |-> <<>>,
         asked |-> <<>>, touches |-> {}, contested |-> {}, done |-> FALSE]
At(w, step) == txn[w].step = step
\* What is given over what holds by default.
Over(given, default) ==
  [f \in DOMAIN given \cup DOMAIN default |-> IF f \in DOMAIN given THEN given[f] ELSE default[f]]

\* Deleted rows are never found again.
Found(s) == s \in DOMAIN rows /\ ~rows[s].deleted
\* Mutant: the row is looked up whether deleted or not.
AnyRow(s) == s \in DOMAIN rows /\ s \notin Protected
Changeable(s) == Found(s) /\ s \notin Protected

Init ==
  /\ scope \in Scopes
  /\ rows = [s \in scope.start |-> IF s \in Users THEN NewUser ELSE NewRole]
  /\ txn = [w \in Workers |-> Idle]
  /\ sent = 0
  /\ logged = rows
  /\ untold = [s \in Subjects |-> {}]
  /\ disturbed = [s \in Subjects |-> {}]

-----------------------------------------------------------------------------
(* A request, and those it overlaps *)

\* Deactivating a user concerns its VPN account as well.
Deactivates(asked) == "active" \in DOMAIN asked /\ ~asked.active
Touches(asked) == DOMAIN asked \cup (IF Deactivates(asked) THEN {"vpn"} ELSE {})
Common(t, u) == IF t.on \cap u.on = {} THEN {} ELSE t.touches \cap u.touches

\* A handler starts at step; it and those it overlaps contest what both touch.
Begin(w, step, on, columns, lists, asked) ==
  LET new == [step |-> step, on |-> on, read |-> [s \in on \cap DOMAIN rows |-> rows[s]],
              columns |-> columns, lists |-> lists, asked |-> asked,
              touches |-> Touches(asked), contested |-> {}, done |-> FALSE]
      With(v) == Common(new, txn[v])
      all == UNION {With(v) : v \in Workers}
  IN /\ At(w, "idle") /\ sent < MaxRequests
     /\ sent' = sent + 1
     /\ txn' = [v \in Workers |->
          IF v = w THEN [new EXCEPT !.contested = all]
          ELSE [txn[v] EXCEPT !.contested = @ \cup With(v)]]
     /\ disturbed' = [s \in Subjects |->
          IF s \in on THEN disturbed[s] \cup all ELSE disturbed[s]]
     /\ UNCHANGED <<scope, rows, log>>

\* What went wrong stays wrong until a request asks for it again, alone.
End(w, settled) ==
  /\ txn' = [txn EXCEPT ![w] = Idle]
  /\ disturbed' = [s \in Subjects |->
       IF s \notin txn[w].on THEN disturbed[s]
       ELSE IF settled THEN disturbed[s] \ (txn[w].touches \ txn[w].contested)
       ELSE disturbed[s] \cup txn[w].touches]
Abandon(w) == txn' = [txn EXCEPT ![w] = Idle] /\ UNCHANGED disturbed

-----------------------------------------------------------------------------
(* Requests about users *)

\* create_user and create_admin_user: the name is still free.
CreateUser(w, u, payload) ==
  /\ u \notin DOMAIN rows
  /\ WithoutNulls(payload.lists)
  /\ LET lists == Over(payload.lists, [f \in ListFields |-> <<>>])
         active == ~Deactivates(payload.columns)
     IN Begin(w, "insert", {u}, [active |-> active], lists,
              Over(lists, [active |-> active, deleted |-> FALSE]))

\* Anyone may register: one commit, and nothing is logged.
Added(s, row) == [x \in DOMAIN rows \cup {s} |-> IF x = s THEN row ELSE rows[x]]
Register(w, u) ==
  /\ At(w, "idle") /\ sent < MaxRequests /\ u \notin DOMAIN rows
  /\ rows' = Added(u, NewUser)
  /\ untold' = [untold EXCEPT ![u] = DOMAIN NewUser]
  /\ sent' = sent + 1
  /\ UNCHANGED <<scope, txn, logged, disturbed>>

\* disable_user_openvpn, but for the sessions it closes (see VpnSession).
Disabling(columns) ==
  IF Deactivates(columns) THEN Over(columns, [vpn |-> "disabled"]) ELSE columns

\* update_admin_user: its first commit writes the profile only, then the row is read again.
UpdateUser(w, u, payload) ==
  /\ Changeable(u)
  /\ Begin(w, "reread", {u}, Disabling(payload.columns), payload.lists,
           Over(payload.lists, payload.columns))

\* delete_user and delete_users.
DeletedColumns == [deleted |-> TRUE, active |-> FALSE]
DeleteUsers(w, us) ==
  /\ us # {} /\ \A u \in us : Changeable(u)
  /\ Begin(w, "columns", us, Disabling(DeletedColumns), <<>>, DeletedColumns)

AssignRoles(w, u, lists) ==
  /\ Changeable(u)
  /\ "role" \in DOMAIN lists /\ DOMAIN lists \subseteq {"role", "scope"} /\ WithoutNulls(lists)
  /\ Begin(w, "lists", {u}, <<>>, lists, lists)

\* Mutant: the account of any user is enabled.
EnableAnyAccount(w, u) ==
  /\ Found(u)
  /\ Begin(w, "columns", {u}, [vpn |-> "enabled"], <<>>, [vpn |-> "enabled"])
EnableAccount(w, u) ==
  /\ Found(u) /\ rows[u].active
  /\ Begin(w, "columns", {u}, [vpn |-> "enabled"], <<>>, [vpn |-> "enabled"])

DisableAccount(w, u) ==
  /\ u \in DOMAIN rows /\ rows[u].vpn # None
  /\ Begin(w, "columns", {u}, [vpn |-> "disabled"], <<>>, [vpn |-> "disabled"])

-----------------------------------------------------------------------------
(* Requests about roles: one commit *)

CreateRole(w, r, columns) ==
  /\ r \notin DOMAIN rows /\ WithoutNulls(columns)
  /\ Begin(w, "insert", {r}, <<>>, <<>>,
           Over(columns, [active |-> TRUE, deleted |-> FALSE, grants |-> <<>>]))

UpdateRole(w, r, columns) ==
  /\ Changeable(r)
  /\ Begin(w, "columns", {r}, Values(columns), <<>>, columns)

DeleteRole(w, r) ==
  /\ Changeable(r)
  /\ Begin(w, "columns", {r}, DeletedColumns, <<>>, DeletedColumns)

-----------------------------------------------------------------------------
(* The steps of a handler *)

\* Names are unique: one of two creations fails, and neither left anything else.
Insert(w) ==
  /\ At(w, "insert")
  /\ LET s == CHOOSE x \in txn[w].on : TRUE
     IN IF s \in DOMAIN rows THEN Abandon(w) /\ UNCHANGED <<scope, rows, sent, log>>
        ELSE /\ rows' = Added(s, IF s \in Users THEN NewUser ELSE Values(txn[w].asked))
             /\ txn' = [txn EXCEPT ![w].step = IF s \in Users THEN "reread" ELSE "lists",
                                   ![w].done = TRUE]
             /\ UNCHANGED <<scope, sent, log, disturbed>>

\* BaseService.commit refreshes the row it committed, whether deleted since or not.
Reread(w) ==
  /\ At(w, "reread")
  /\ txn' = [txn EXCEPT ![w].step = "columns", ![w].done = TRUE,
                        ![w].read = [s \in txn[w].on |-> rows[s]]]
  /\ UNCHANGED <<scope, rows, sent, log, disturbed>>

\* Columns equal to what was read are not written; an account that was not there is not
\* disabled; the permissions of a role are deleted and inserted whatever they were.
Written(f, new, read) ==
  /\ f # "grants" => new # read[f]
  /\ f = "vpn" => new = "enabled" \/ read.vpn # None
\* Mutant: is_active is written back as it was read.
WriteRow(row, read, columns) ==
  [f \in DOMAIN row |->
     IF f \in DOMAIN columns THEN columns[f] ELSE IF f = "active" THEN read[f] ELSE row[f]]
WriteColumns(row, read, columns) ==
  [f \in DOMAIN row |->
     IF f \in DOMAIN columns /\ Written(f, columns[f], read) THEN columns[f] ELSE row[f]]

\* The account of a user is unique: the second to insert it fails.
AccountExists(w) ==
  \E s \in txn[w].on \cap Users :
    /\ "vpn" \in DOMAIN txn[w].columns /\ txn[w].columns.vpn = "enabled"
    /\ txn[w].read[s].vpn = None /\ rows[s].vpn # None

CommitColumns(w) ==
  /\ At(w, "columns")
  /\ IF AccountExists(w) THEN Abandon(w) /\ UNCHANGED <<scope, rows, sent, log>>
     ELSE /\ rows' = [s \in DOMAIN rows |->
               IF s \in txn[w].on THEN WriteColumns(rows[s], txn[w].read[s], txn[w].columns)
               ELSE rows[s]]
          /\ txn' = [txn EXCEPT ![w].step = "lists", ![w].done = TRUE]
          /\ UNCHANGED <<scope, sent, log, disturbed>>

\* Ids that do not exist, are inactive or deleted are left out, and the request goes on.
ValidIds(field, ids) ==
  {i \in IdsOf(ids) : IF field = "role" THEN Found(ids[i]) /\ rows[ids[i]].active
                      ELSE ids[i] \in Places}

\* One list is replaced by what is kept of the one given.
CommitList(w) ==
  /\ At(w, "lists") /\ DOMAIN txn[w].lists # {}
  /\ LET field == FirstList(txn[w].lists)
         given == txn[w].lists[field]
         valid == ValidIds(field, given)
         u == CHOOSE x \in txn[w].on : TRUE
         dropped == IF valid = IdsOf(given) THEN {} ELSE {field}
     IN /\ rows' = [rows EXCEPT ![u][field] = {given[i] : i \in Taken(field, valid)}]
        /\ disturbed' = [disturbed EXCEPT ![u] = @ \cup dropped]
        /\ txn' = [txn EXCEPT ![w].lists = [f \in DOMAIN @ \ {field} |-> @[f]], ![w].done = TRUE,
                              ![w].contested = @ \cup dropped]
  /\ UNCHANGED <<scope, sent, log>>

\* A request about several users names the first of them.
Record(w) ==
  /\ At(w, "lists") /\ DOMAIN txn[w].lists = {}
  /\ LET t == txn[w]
         hidden == {f \in DOMAIN t.asked : Hidden(f, t.asked[f])}
         told == [f \in DOMAIN t.asked \ hidden |-> Shown(f, t.asked[f])]
     IN \E named \in SUBSET t.on :
          /\ IF Cardinality(t.on) > LogItems THEN Cardinality(named) = LogItems ELSE named = t.on
          /\ logged' = [s \in DOMAIN logged \cup named |->
               IF s \notin named THEN logged[s]
               ELSE IF s \in DOMAIN logged THEN Over(told, logged[s]) ELSE told]
          /\ untold' = [s \in Subjects |->
               IF s \in named THEN (untold[s] \ DOMAIN told) \cup hidden
               ELSE IF s \in t.on THEN untold[s] \cup DOMAIN t.asked
               ELSE untold[s]]
  /\ End(w, TRUE)
  /\ UNCHANGED <<scope, rows, sent>>

\* A database error or a crash: what was committed stays, and is not logged.  An error
\* of the log itself is swallowed.
Fail(w) ==
  /\ Failing /\ ~At(w, "idle")
  /\ IF txn[w].done THEN End(w, FALSE) ELSE Abandon(w)
  /\ UNCHANGED <<scope, rows, sent, log>>

Continue(w) ==
  Insert(w) \/ Reread(w) \/ CommitColumns(w) \/ CommitList(w) \/ Record(w)

RequestUser(w) ==
  \/ \E u \in Users, p \in Payloads : CreateUser(w, u, p) \/ UpdateUser(w, u, p)
  \/ \E us \in SUBSET Users : DeleteUsers(w, us)
  \/ \E u \in Users, p \in Payloads : AssignRoles(w, u, p.lists)
  \/ \E u \in Users : Register(w, u) \/ EnableAccount(w, u) \/ DisableAccount(w, u)
RequestRole(w) ==
  \/ \E r \in Roles, p \in RolePayloads : CreateRole(w, r, p) \/ UpdateRole(w, r, p)
  \/ \E r \in Roles : DeleteRole(w, r)

Next == \E w \in Workers : RequestUser(w) \/ RequestRole(w) \/ Continue(w) \/ Fail(w)

Spec == Init /\ [][Next]_vars

-----------------------------------------------------------------------------
(* Properties *)

\* Fields of s some handler is still working on.
InProgress(s) == UNION {txn[w].touches : w \in {v \in Workers : s \in txn[v].on}}

\* The operation log tells how users and roles are: each field has the value that the last
\* logged request for it gives (the first id of a department, a scope or a role; all
\* positions and permissions), but for
\*  - fields in progress, and those whose last requests overlapped, failed halfway (which is
\*    not logged) or named something that was not valid (which is dropped, but logged);
\*  - fields the log does not tell: those of a user who registered, and of the users beyond
\*    the first of a batch; a list given as null, and one longer than the log keeps.
LogTells ==
  \A s \in DOMAIN rows : \A f \in DOMAIN rows[s] \ {"vpn"} :
    f \notin untold[s] \cup disturbed[s] \cup InProgress(s) => rows[s][f] = logged[s][f]

\* A user that is not active has no enabled VPN account, unless the last request about the
\* account overlapped another (enabling it, the one that deactivated the user: both read what
\* the other had not committed) or failed halfway.
InactiveHasNoVpn ==
  \A u \in Users \cap DOMAIN rows :
    ~rows[u].active /\ "vpn" \notin disturbed[u] => rows[u].vpn # "enabled"

\* Deletion is final for users and roles: only an update that was being handled when the
\* row was deleted brings a user back.
DeletionIsFinal ==
  [][\A s \in DOMAIN rows : rows[s].deleted /\ "deleted" \notin disturbed[s]
       => rows'[s].deleted]_vars
=============================================================================
