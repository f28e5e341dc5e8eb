-------------------------- MODULE SchemaStatements --------------------------
(***************************************************************************)
(* What one statement of an Alembic revision does to the MySQL database    *)
(* (src/backend/alembic/versions/*.py): the calls of alembic.op, the       *)
(* "if missing" helpers the later revisions wrap them in, and the SQL by   *)
(* which they keep the permission table, the grants and the moved data.    *)
(*                                                                         *)
(* A database is a record:                                                 *)
(*   cols     set of <<table, column>>; a table exists iff it has "id"     *)
(*   idx      set of <<table, columns, unique>>, unique constraints too    *)
(*   fks      set of <<table, column, referenced table>>                   *)
(*   perms    permission code -> its parent's code and is_active           *)
(*   grants   set of <<role, code>>: the rows of role_permissions          *)
(*   rules    the users and departments of a rest rule, by kind: the value *)
(*            of the legacy column and the rows of the link table          *)
(*   doubled  relation tables in which some user has two rows              *)
(*   nomail   some user has no e-mail address                              *)
(*   admin    a role with the code "admin" exists                          *)
(*                                                                         *)
(* Left out: column types, comments and defaults, names and order of       *)
(* indexes, labels, icons, paths and components of permissions.  An index  *)
(* or a constraint is named by its columns.  A table's primary key is its  *)
(* column "id".                                                            *)
(***************************************************************************)
EXTENDS Naturals, Sequences, FiniteSets, SequencesExt

None == "none"

HasTable(db, t) == <<t, "id">> \in db.cols
HasColumn(db, t, c) == <<t, c>> \in db.cols

-----------------------------------------------------------------------------
(* Statements.  "if" says what the revision asks the database first: "" for *)
(* a bare call, "missing" or "present" for a helper that skips the call.    *)

Statement(do, t, args) == [do |-> do, t |-> t, args |-> args, if |-> ""]
When(cond, s) == [i \in DOMAIN s |-> [s[i] EXCEPT !.if = cond]]

Indexes(t, columns) == [i \in DOMAIN columns |-> Statement("index", t, <<<<columns[i]>>, FALSE>>)]
Index(t, columns) == << Statement("index", t, <<columns, FALSE>>) >>
Unique(t, columns) == << Statement("index", t, <<columns, TRUE>>) >>
DropIndexes(t, columns) == [i \in DOMAIN columns |-> Statement("drop index", t, <<<<columns[i]>>, FALSE>>)]
DropIndex(t, columns) == << Statement("drop index", t, <<columns, FALSE>>) >>
DropUnique(t, columns) == << Statement("drop index", t, <<columns, TRUE>>) >>

AddColumns(t, columns) == [i \in DOMAIN columns |-> Statement("column", t, columns[i])]
DropColumns(t, columns) == [i \in DOMAIN columns |-> Statement("drop column", t, columns[i])]
ForeignKey(t, c, ref) == << Statement("fk", t, <<c, ref>>) >>
DropForeignKey(t, c, ref) == << Statement("drop fk", t, <<c, ref>>) >>

(* create_table: the table with its constraints, then, each a statement of  *)
(* its own, the indexes of the columns declared with index=True.            *)
Create(t, columns, indexed, uniques, references) ==
    << Statement("table", t, [cols |-> columns, uniques |-> uniques, fks |-> references]) >>
        \o Indexes(t, indexed)
Drop(t) == << Statement("drop table", t, "") >>
Rename(t, new) == << Statement("rename", t, new) >>

(* A call that changes no fact of the model: comments, types.               *)
Alter(t) == << Statement("alter", t, "") >>
(* Alembic refuses to alter a MySQL column whose type the call leaves out.   *)
AlterUntyped(t) == << Statement("alter untyped", t, "") >>
NoEmail(allowed) == << Statement("email", "users", allowed) >>

(* The statements on rows.                                                  *)
Upsert(t, parent, codes) == << Statement("upsert", t, [parent |-> parent, codes |-> codes]) >>
Reparent(t, parent, codes) == << Statement("reparent", t, [parent |-> parent, codes |-> codes]) >>
Activate(t, code, on) == << Statement("activate", t, [code |-> code, on |-> on]) >>
RemovePermissions(t, codes) == << Statement("remove", t, codes) >>
GrantAdmin(t, codes) == << Statement("grant admin", t, codes) >>
GrantHolders(t, codes, sources) == << Statement("grant holders", t, [codes |-> codes, sources |-> sources]) >>
Relabel(t) == << Statement("relabel", t, "") >>
Link(kind) == << Statement("link", "attendance_rest_rules", kind) >>
Unlink(kind) == << Statement("unlink", "attendance_rest_rules", kind) >>
Deduplicate(t) == << Statement("deduplicate", t, "") >>

RowStatements == { "upsert", "reparent", "activate", "remove", "grant admin", "grant holders", "relabel",
                   "link", "unlink", "deduplicate" }

-----------------------------------------------------------------------------
(* What the database answers.  InnoDB refuses to drop an index a foreign    *)
(* key of the table still needs, a column of a foreign key, and a table     *)
(* another table refers to.                                                 *)

Leads(columns, c) == columns[1] = c
NeededByForeignKey(db, t, columns, unique) ==
    \E fk \in db.fks :
        /\ fk[1] = t
        /\ Leads(columns, fk[2])
        /\ \A ix \in db.idx \ { <<t, columns, unique>> } : ix[1] = t => ~Leads(ix[2], fk[2])

LinkTable(kind) == IF kind = "user_id" THEN "attendance_rest_rule_users" ELSE "attendance_rest_rule_departments"

(* The object a helper looks up before it calls alembic.op.                 *)
Present(db, st) ==
    CASE st.do \in {"table", "drop table"} -> HasTable(db, st.t)
      [] st.do \in {"column", "drop column"} -> HasColumn(db, st.t, st.args)
      [] st.do \in {"index", "drop index"} -> <<st.t, st.args[1], st.args[2]>> \in db.idx
      [] st.do \in {"fk", "drop fk"} -> <<st.t, st.args[1], st.args[2]>> \in db.fks
      [] OTHER -> HasTable(db, st.t)

Skipped(db, st) ==
    \/ st.if = "missing" /\ Present(db, st)
    \/ st.if = "present" /\ ~Present(db, st)

(* The statement is an error, and the revision stops with it.               *)
Fails(db, st) ==
    \/ st.do = "table" /\ (HasTable(db, st.t) \/ \E fk \in st.args.fks : fk[2] # st.t /\ ~HasTable(db, fk[2]))
    \/ st.do # "table" /\ ~HasTable(db, st.t)
    \/ st.do \in {"column", "index", "fk"} /\ Present(db, st)
    \/ st.do \in {"drop column", "drop index", "drop fk"} /\ ~Present(db, st)
    \/ st.do = "index" /\ \E i \in DOMAIN st.args[1] : ~HasColumn(db, st.t, st.args[1][i])
    \/ st.do = "index" /\ st.args[2] /\ st.t \in db.doubled
    \/ st.do = "fk" /\ ~(HasColumn(db, st.t, st.args[1]) /\ HasTable(db, st.args[2]))
    \/ st.do = "drop index" /\ NeededByForeignKey(db, st.t, st.args[1], st.args[2])
    \/ st.do = "drop column" /\ \E fk \in db.fks : fk[1] = st.t /\ fk[2] = st.args
    \/ st.do = "drop table" /\ \E fk \in db.fks : fk[3] = st.t /\ fk[1] # st.t
    \/ st.do = "rename" /\ HasTable(db, st.args)
    \/ st.do = "alter untyped"
    \/ st.do = "email" /\ ~st.args /\ db.nomail
    \/ st.do \in {"link", "unlink"} /\ ~(HasTable(db, LinkTable(st.args)) /\ HasColumn(db, st.t, st.args))

-----------------------------------------------------------------------------
(* What a statement that is carried out leaves.                             *)

Renamed(S, i, t, new) == { IF x[i] = t THEN [x EXCEPT ![i] = new] ELSE x : x \in S }

DefineSchema(db, st) ==
    CASE st.do = "table" ->
           [db EXCEPT !.cols = @ \cup { <<st.t, c>> : c \in st.args.cols \cup {"id"} },
                      !.idx = @ \cup { <<st.t, u, TRUE>> : u \in st.args.uniques },
                      !.fks = @ \cup { <<st.t, fk[1], fk[2]>> : fk \in st.args.fks }]
      [] st.do = "drop table" ->
           [db EXCEPT !.cols = { x \in @ : x[1] # st.t }, !.idx = { x \in @ : x[1] # st.t },
                      !.fks = { x \in @ : x[1] # st.t }, !.doubled = @ \ {st.t},
                      !.rules = [k \in DOMAIN @ |-> IF LinkTable(k) = st.t THEN [@[k] EXCEPT !.rows = {}] ELSE @[k]]]
      [] st.do = "rename" ->
           [db EXCEPT !.cols = Renamed(@, 1, st.t, st.args), !.idx = Renamed(@, 1, st.t, st.args),
                      !.fks = Renamed(Renamed(@, 1, st.t, st.args), 3, st.t, st.args),
                      !.doubled = { IF t = st.t THEN st.args ELSE t : t \in @ }]
      [] st.do = "column" -> [db EXCEPT !.cols = @ \cup { <<st.t, st.args>> }]
      [] st.do = "drop column" ->
           [db EXCEPT !.cols = @ \ { <<st.t, st.args>> },
                      !.idx = { x \in @ : ~(x[1] = st.t /\ Leads(x[2], st.args)) },
                      !.rules = [k \in DOMAIN @ |-> IF st.t = "attendance_rest_rules" /\ k = st.args
                                                     THEN [@[k] EXCEPT !.legacy = 0] ELSE @[k]]]
      [] st.do = "index" -> [db EXCEPT !.idx = @ \cup { <<st.t, st.args[1], st.args[2]>> }]
      [] st.do = "drop index" -> [db EXCEPT !.idx = @ \ { <<st.t, st.args[1], st.args[2]>> }]
      [] st.do = "fk" -> [db EXCEPT !.fks = @ \cup { <<st.t, st.args[1], st.args[2]>> }]
      [] st.do = "drop fk" -> [db EXCEPT !.fks = @ \ { <<st.t, st.args[1], st.args[2]>> }]
      [] OTHER -> db

(* The parent is found by its code; a missing parent leaves a root.         *)
ParentOf(db, code) == IF code \in DOMAIN db.perms THEN code ELSE None
Roles == {"admin", "viewer"}

ChangeRows(db, st) ==
    LET a == st.args IN
    CASE st.do = "upsert" ->
           [db EXCEPT !.perms = [c \in a.codes |-> [parent |-> ParentOf(db, a.parent), on |-> TRUE]] @@ @]
      [] st.do = "reparent" ->
           [db EXCEPT !.perms = [c \in DOMAIN @ |-> IF c \in a.codes
                                                    THEN [@[c] EXCEPT !.parent = ParentOf(db, a.parent)]
                                                    ELSE @[c]]]
      [] st.do = "activate" ->
           [db EXCEPT !.perms = [c \in DOMAIN @ |-> IF c = a.code THEN [@[c] EXCEPT !.on = a.on] ELSE @[c]]]
      [] st.do = "remove" ->
           [db EXCEPT !.perms = [c \in DOMAIN @ \ a |->
                                    [@[c] EXCEPT !.parent = IF @ \in a THEN None ELSE @]],
                      !.grants = { g \in @ : g[2] \notin a }]
      [] st.do = "grant admin" ->
           [db EXCEPT !.grants = @ \cup { <<"admin", c>> : c \in IF db.admin THEN a ELSE {} }]
      [] st.do = "grant holders" ->
           [db EXCEPT !.grants = @ \cup { <<r, c>> : c \in a.codes,
                                          r \in { r \in Roles : \E s \in a.sources : <<r, s>> \in db.grants } }]
      [] st.do = "link" ->
           [db EXCEPT !.rules[a].rows = @ \cup ({db.rules[a].legacy} \ {0})]
      [] st.do = "unlink" ->
           [db EXCEPT !.rules[a].legacy = IF db.rules[a].rows = {} THEN @
                                          ELSE CHOOSE m \in db.rules[a].rows : \A n \in db.rules[a].rows : m <= n]
      [] st.do = "deduplicate" -> [db EXCEPT !.doubled = @ \ {st.t}]
      [] OTHER -> db

Execute(db, st) ==
    IF Skipped(db, st) THEN db
    ELSE IF st.do \in RowStatements THEN ChangeRows(db, st)
    ELSE DefineSchema(db, st)
=============================================================================
