-------------------------- MODULE SchemaMigrations --------------------------
(***************************************************************************)
(* The upgrade of the database: the Alembic revisions of                   *)
(* src/backend/alembic/versions, run one statement at a time by            *)
(* "alembic upgrade head" when the backend container starts                *)
(* (src/backend/docker-entrypoint.sh), and "alembic downgrade -1".         *)
(*                                                                         *)
(* MySQL commits before every statement that changes the schema, so the    *)
(* transaction Alembic opens around a revision protects only the rows      *)
(* written since the last such statement, and the revision number stored   *)
(* with them.  The process may stop between any two statements; what a     *)
(* revision remembers (Python variables, choices made by looking at the    *)
(* database) goes with it, and the next start of the container begins the  *)
(* revision again.  A statement that fails ends the process; the container *)
(* is restarted ("restart: unless-stopped") and tries again.               *)
(*                                                                         *)
(* Revisions are numbered 1 to 41 by their place in the chain: the two     *)
(* files 0027 are 27 and 28, so NNNN is NNNN + 1 from there on.            *)
(***************************************************************************)
EXTENDS MigrationsSystem, MigrationsAttendance, MigrationsVpn, SchemaModels, Endpoints, TLC

CONSTANT Scopes  \* what is considered: records of the fields of scope

Newest == 41
ASSUME ScopesAssumption ==
    \A s \in Scopes : s.starts \subseteq 0..Newest /\ s.crashes \in Nat /\ s.downs \in Nat

Upgrade(r, d) ==
    CASE r = 1 -> Up0001 [] r = 2 -> Up0002 [] r = 3 -> Up0003 [] r = 4 -> Up0004(d) [] r = 5 -> Up0005
      [] r = 6 -> Up0006 [] r = 7 -> Up0007 [] r = 8 -> Up0008 [] r = 9 -> Up0009 [] r = 10 -> Up0010
      [] r = 11 -> Up0011 [] r = 12 -> Up0012 [] r = 13 -> Up0013 [] r = 14 -> Up0014 [] r = 15 -> Up0015
      [] r = 16 -> Up0016 [] r = 17 -> Up0017 [] r = 18 -> Up0018 [] r = 19 -> Up0019 [] r = 20 -> Up0020
      [] r = 21 -> Up0021 [] r = 22 -> Up0022 [] r = 23 -> Up0023 [] r = 24 -> Up0024 [] r = 25 -> Up0025
      [] r = 26 -> Up0026(d) [] r = 27 -> Up0027Prefix [] r = 28 -> Up0027Cert [] r = 29 -> Up0028
      [] r = 30 -> Up0029 [] r = 31 -> Up0030 [] r = 32 -> Up0031 [] r = 33 -> Up0032 [] r = 34 -> Up0033
      [] r = 35 -> Up0034 [] r = 36 -> Up0035(d) [] r = 37 -> Up0036(d) [] r = 38 -> Up0037
      [] r = 39 -> Up0038 [] r = 40 -> Up0039(d) [] r = 41 -> Up0040(d)

Downgrade(r, d) ==
    CASE r = 1 -> Down0001 [] r = 2 -> Down0002 [] r = 3 -> Down0003 [] r = 4 -> Down0004 [] r = 5 -> Down0005
      [] r = 6 -> Down0006 [] r = 7 -> Down0007 [] r = 8 -> Down0008 [] r = 9 -> Down0009 [] r = 10 -> Down0010
      [] r = 11 -> Down0011 [] r = 12 -> Down0012 [] r = 13 -> Down0013 [] r = 14 -> Down0014 [] r = 15 -> Down0015
      [] r = 16 -> Down0016 [] r = 17 -> Down0017 [] r = 18 -> Down0018 [] r = 19 -> Down0019 [] r = 20 -> Down0020
      [] r = 21 -> Down0021 [] r = 22 -> Down0022 [] r = 23 -> Down0023 [] r = 24 -> Down0024 [] r = 25 -> Down0025(d)
      [] r = 26 -> Down0026 [] r = 27 -> Down0027Prefix [] r = 28 -> Down0027Cert [] r = 29 -> Down0028(d)
      [] r = 30 -> Down0029 [] r = 31 -> Down0030 [] r = 32 -> Down0031 [] r = 33 -> Down0032 [] r = 34 -> Down0033
      [] r = 35 -> Down0034 [] r = 36 -> Down0035 [] r = 37 -> Down0036 [] r = 38 -> Down0037
      [] r = 39 -> Down0038 [] r = 40 -> Down0039 [] r = 41 -> Down0040

-----------------------------------------------------------------------------
(* The databases an uninterrupted upgrade leaves, revision by revision.      *)

NoRule == [legacy |-> 0, rows |-> {}]
Empty ==
    [ cols |-> {}, idx |-> {}, fks |-> {}, perms |-> [c \in {} |-> None], grants |-> {},
      rules |-> [k \in {"user_id", "department_id"} |-> NoRule], doubled |-> {}, nomail |-> FALSE, admin |-> TRUE ]

After(d, program) == FoldLeft(LAMBDA acc, st : Execute(acc, st), d, program)
Databases ==
    FoldLeft(LAMBDA acc, r : Append(acc, After(acc[r], Upgrade(r, acc[r]))), <<Empty>>, [r \in 1..Newest |-> r])
DatabaseAt(r) == Databases[r + 1]

Rows(d) == [perms |-> d.perms, grants |-> d.grants, rules |-> d.rules, doubled |-> d.doubled]

-----------------------------------------------------------------------------

VARIABLES scope,    \* what happens in this behaviour; never changes
          db,       \* the database as the process sees it
          saved,    \* its rows as the last commit left them
          version,  \* the revision stored in alembic_version
          heading,  \* "none" outside a revision, else "up" or "down"
          todo,     \* the statements of the revision not yet carried out
          failed,   \* the revisions that have stopped at an error: <<heading, r>>
          crashes, downs,
          rested    \* the members the rest rule had when the upgrade began

vars == <<scope, db, saved, version, heading, todo, failed, crashes, downs, rested>>

Starts == scope.starts       \* revisions the database may be at when the container starts
MaxCrashes == scope.crashes  \* bound on how often the process stops inside a revision
MaxDowns == scope.downs      \* bound on the revisions taken back

Revision == IF heading = "down" THEN version ELSE version + 1

-----------------------------------------------------------------------------
(* A release has been in use at its last revision: roles hold permissions,   *)
(* rest rules have their users, some users have two roles or no address;     *)
(* or there are none of these.                                               *)

ParentsOf(d, codes) == { d.perms[c].parent : c \in codes } \ {None}
WithMenus(d, codes) ==
    LET menus == ParentsOf(d, codes) IN codes \cup menus \cup ParentsOf(d, menus)
                                          \cup ParentsOf(d, ParentsOf(d, menus))

DoubledTables(r) ==
    IF r < 2 \/ r = Newest THEN {} ELSE IF r < 27 THEN {"user_departments", "user_roles"}
    ELSE {"sys_user_departments", "sys_user_roles"} \cup (IF r = 40 THEN {DataScope} ELSE {})

RuleOf(r, kind) ==
    CASE r < 20 -> NoRule
      [] r < (IF kind = "user_id" THEN 21 ELSE 22) -> [legacy |-> 1, rows |-> {}]
      [] OTHER -> [legacy |-> 0, rows |-> {1, 2}]

InUse(r) ==
    LET d == DatabaseAt(r)
        active == { c \in DOMAIN d.perms : d.perms[c].on }
    IN  { [d EXCEPT !.grants = { <<"admin", c>> : c \in DOMAIN d.perms } \cup { <<"viewer", c>> : c \in WithMenus(d, seen) },
                    !.doubled = IF much THEN DoubledTables(r) ELSE {}, !.nomail = much /\ r >= 17,
                    !.rules = [k \in {"user_id", "department_id"} |-> IF much THEN RuleOf(r, k) ELSE NoRule]] :
            seen \in { {} } \cup { {c} : c \in { "ops:openvpn:server:query", "ops:openvpn:session:query",
                                                 "ops:openvpn:account:disable" } \cap active },
            much \in BOOLEAN }

Init ==
    /\ scope \in Scopes
    /\ version \in Starts
    /\ db \in InUse(version)
    /\ saved = Rows(db)
    /\ rested = [k \in DOMAIN db.rules |-> db.rules[k].rows \cup ({db.rules[k].legacy} \ {0})]
    /\ heading = "none" /\ todo = <<>> /\ failed = {} /\ crashes = 0 /\ downs = 0

-----------------------------------------------------------------------------

Begin ==
    /\ heading = "none" /\ version < Newest
    /\ heading' = "up" /\ todo' = Upgrade(version + 1, db)
    /\ UNCHANGED <<scope, db, saved, version, failed, crashes, downs, rested>>

BeginDown ==
    /\ heading = "none" /\ version > 0 /\ downs < MaxDowns
    /\ heading' = "down" /\ todo' = Downgrade(version, db)
    /\ downs' = downs + 1
    /\ UNCHANGED <<scope, db, saved, version, failed, crashes, rested>>

Restored(rows) ==
    [db EXCEPT !.perms = rows.perms, !.grants = rows.grants, !.rules = rows.rules, !.doubled = rows.doubled]
Commits(st) == ~Skipped(db, st) /\ st.do \notin RowStatements

Step ==
    /\ heading # "none" /\ todo # <<>>
    /\ Skipped(db, Head(todo)) \/ ~Fails(db, Head(todo))
    /\ db' = Execute(db, Head(todo))
    /\ saved' = IF Commits(Head(todo)) THEN Rows(db') ELSE saved
    /\ todo' = Tail(todo)
    /\ UNCHANGED <<scope, version, heading, failed, crashes, downs, rested>>

Stop(rows) == db' = Restored(rows) /\ saved' = rows /\ heading' = "none" /\ todo' = <<>>

Fail ==
    /\ heading # "none" /\ todo # <<>>
    /\ ~Skipped(db, Head(todo)) /\ Fails(db, Head(todo))
    /\ Stop(IF Commits(Head(todo)) THEN Rows(db) ELSE saved)
    /\ failed' = failed \cup { <<heading, Revision>> }
    /\ UNCHANGED <<scope, version, crashes, downs, rested>>

Crash ==
    /\ heading # "none" /\ crashes < MaxCrashes
    /\ crashes' = crashes + 1
    /\ Stop(saved)
    /\ UNCHANGED <<scope, version, failed, downs, rested>>

Finish ==
    /\ heading # "none" /\ todo = <<>>
    /\ version' = IF heading = "up" THEN version + 1 ELSE version - 1
    /\ heading' = "none"
    /\ saved' = Rows(db)
    /\ UNCHANGED <<scope, db, todo, failed, crashes, downs, rested>>

Next == Begin \/ BeginDown \/ Step \/ Fail \/ Crash \/ Finish

Spec == Init /\ [][Next]_vars
(* The container is started again for as long as it ends, and a process that *)
(* is not stopped carries out its next statement.                            *)
FairSpec == Spec /\ WF_vars(Begin) /\ WF_vars(Step) /\ WF_vars(Fail) /\ WF_vars(Finish)

-----------------------------------------------------------------------------

(* The revisions that alter the schema by bare calls: begun a second time    *)
(* they meet what they made the first time.                                  *)
Unguarded == {1, 2, 3, 5, 6, 9, 12, 18, 19, 20, 21, 22, 23, 26, 34, 35}
(* The revisions whose downgrade asks MySQL for what it refuses.             *)
OneWay == {2, 4, 13, 17, 19, 20, 21, 22, 26}

(* An upgrade that nobody interrupts never stops at an error, whatever roles,*)
(* addresses and rest rules the release before left; interrupted once, it    *)
(* fails when begun again only in the revisions without "if missing"         *)
(* helpers.  The downgrades that fail are those of OneWay.                   *)
FailuresKnown ==
    /\ \A r \in 1..Newest : <<"up", r>> \in failed => crashes > 0 /\ r \in Unguarded
    /\ \A r \in 1..Newest : <<"down", r>> \in failed => crashes > 0 \/ r \in OneWay

AtHead == version = Newest /\ heading = "none"
(* Nothing was taken back since the database was in use.                     *)
Forward == downs = 0
LinkTables == {"sys_user_departments", "sys_user_roles", "sys_role_permissions"}
(* However often it was interrupted, an upgrade that reports the newest      *)
(* revision has made every table, column and unique constraint of the models *)
(* of app/models, no other column, and their foreign keys, except those of   *)
(* the link tables: 0004 makes these again one by one, and what it had not   *)
(* come to when it was interrupted is never made.                            *)
HeadHasModels ==
    AtHead /\ Forward =>
        /\ db.cols = ModelColumns /\ { x \in ModelIndexes : x[3] } \subseteq db.idx
        /\ \A key \in ModelKeys \ db.fks : key[1] \in LinkTables /\ crashes > 0

(* Between two revisions, the role "admin", which nobody may edit            *)
(* (role_service.py, _ensure_not_builtin_admin), holds every permission added*)
(* since revision 0016, and any other role that holds a button or a menu also*)
(* holds the active menus above it: the menu trees of 0028 and 0030 take     *)
(* nothing out of anyone's reach (MenuService._build_tree).                  *)
GrantsReach ==
    heading = "none" /\ Forward =>
        /\ \A c \in DOMAIN db.perms \ DOMAIN DatabaseAt(15).perms : <<"admin", c>> \in db.grants
        /\ \A g \in db.grants :
             LET menu == db.perms[g[2]].parent
             IN  g[1] = "admin" \/ menu = None \/ ~db.perms[menu].on \/ <<g[1], menu>> \in db.grants

(* Every permission an endpoint asks for is in the table and active once the *)
(* newest revision is reported.                                              *)
EndpointsHaveCodes ==
    AtHead /\ Forward => \A c \in RequiredCodes : c \in DOMAIN db.perms /\ db.perms[c].on

(* The users and departments of a rest rule survive the move into the link   *)
(* tables.                                                                   *)
MembersKept ==
    heading = "none" /\ version >= 22 => \A k \in DOMAIN rested : db.rules[k].rows = rested[k]

(* Undisturbed, the schema is a function of the stored revision: a downgrade *)
(* takes back what its upgrade did.  Only 0025 brings back more than it took,*)
(* an index of telegram_user_id.                                             *)
DowngradeUndoes ==
    crashes = 0 /\ failed = {} /\ heading = "none" =>
        /\ db.cols = DatabaseAt(version).cols /\ db.fks = DatabaseAt(version).fks
        /\ DatabaseAt(version).idx \subseteq db.idx
        /\ db.idx \ DatabaseAt(version).idx \subseteq {<<"attendance_records", <<"telegram_user_id">>, FALSE>>}

(* The container comes up: the newest revision is reached and kept, however  *)
(* often the process stops, unless a revision without those helpers stopped. *)
Stuck == \E r \in Unguarded : <<"up", r>> \in failed
UpgradeFinishes == <>[](AtHead \/ Stuck)
=============================================================================
