-------------------------- MODULE MigrationsSystem --------------------------
(***************************************************************************)
(* The revisions of users, departments, roles, permissions, positions and  *)
(* domains: src/backend/alembic/versions/0001 to 0019 and 0024.  UpNNNN    *)
(* and DownNNNN are the statements of upgrade() and downgrade() of file    *)
(* NNNN_*.py, in order; SchemaStatements says what each of them does.      *)
(* Labels, icons, paths and components of permissions are left out, so a   *)
(* revision that sets only these is one "relabel".                         *)
(***************************************************************************)
EXTENDS SchemaStatements

Up0001 ==
    Create("users", {"username", "email", "hashed_password", "is_active", "is_admin", "created_at"},
           <<>>, {<<"username">>, <<"email">>}, {})
      \o Indexes("users", <<"id", "username", "email">>)
Down0001 == DropIndexes("users", <<"email", "username", "id">>) \o Drop("users")

-----------------------------------------------------------------------------

NamedTable(t) ==
    Create(t, {"name", "code", "description", "is_active", "created_at", "updated_at"},
           <<>>, {<<"name">>, <<"code">>}, {})
      \o Indexes(t, <<"id", "name", "code">>)

RelationTable(t, one, others, columns) ==
    Create(t, {one[1], others[1], "created_at"} \cup columns, <<>>, {<<one[1], others[1]>>}, {one, others})
      \o Indexes(t, <<"id", one[1], others[1]>>)

Up0002 ==
    NamedTable("departments") \o NamedTable("roles") \o NamedTable("permissions")
      \o RelationTable("user_departments", <<"user_id", "users">>, <<"department_id", "departments">>, {"is_primary"})
      \o RelationTable("user_roles", <<"user_id", "users">>, <<"role_id", "roles">>, {})
      \o RelationTable("role_permissions", <<"role_id", "roles">>, <<"permission_id", "permissions">>, {})

Down0002 ==
    FlattenSeq(<< DropIndexes("role_permissions", <<"permission_id", "role_id", "id">>), Drop("role_permissions"),
                  DropIndexes("user_roles", <<"role_id", "user_id", "id">>), Drop("user_roles"),
                  DropIndexes("user_departments", <<"department_id", "user_id", "id">>), Drop("user_departments"),
                  DropIndexes("permissions", <<"code", "name", "id">>), Drop("permissions"),
                  DropIndexes("roles", <<"code", "name", "id">>), Drop("roles"),
                  DropIndexes("departments", <<"code", "name", "id">>), Drop("departments") >>)

MainTables == << "users", "departments", "roles", "permissions" >>
OnMainTables(program(_)) == FlattenSeq([i \in DOMAIN MainTables |-> program(MainTables[i])])
OnMainTablesBack(program(_)) == FlattenSeq([i \in 1..4 |-> program(MainTables[5 - i])])

Up0003 ==
    OnMainTables(LAMBDA t : AddColumns(t, <<"created_by", "updated_by">>)) \o AddColumns("users", <<"updated_at">>)
Down0003 ==
    DropColumns("users", <<"updated_at">>)
      \o OnMainTablesBack(LAMBDA t : DropColumns(t, <<"updated_by", "created_by">>))

(* Comments are written with the foreign keys of the relation tables taken   *)
(* off.  The keys found at the start are kept in the process, not in the     *)
(* database, and put back at the end.                                        *)
RelationTables == { "user_departments", "user_roles", "role_permissions" }
CommentedTables == << "users", "departments", "roles", "permissions", "user_departments", "user_roles", "role_permissions" >>
KeysOfRelations(db) == SetToSeq({ fk \in db.fks : fk[1] \in RelationTables })

WithoutKeys(db, program) ==
    LET keys == KeysOfRelations(db)
    IN  FlattenSeq([i \in DOMAIN keys |-> DropForeignKey(keys[i][1], keys[i][2], keys[i][3])])
          \o program
          \o FlattenSeq([i \in DOMAIN keys |-> ForeignKey(keys[i][1], keys[i][2], keys[i][3])])

Up0004(db) == WithoutKeys(db, FlattenSeq([i \in DOMAIN CommentedTables |-> Alter(CommentedTables[i])]))
Down0004 == FlattenSeq([i \in DOMAIN CommentedTables |-> AlterUntyped(CommentedTables[i])])

Up0005 == OnMainTables(LAMBDA t : AddColumns(t, <<"is_deleted">>))
Down0005 == OnMainTablesBack(LAMBDA t : DropColumns(t, <<"is_deleted">>))

-----------------------------------------------------------------------------
(* Permissions become a tree of menus and buttons.                           *)

MenuWithButtons(t, parent, menu, buttons) == Upsert(t, parent, {menu}) \o Upsert(t, menu, buttons)

Codes0006 ==
    [ user |-> {"system:user:query", "system:user:create", "system:user:update", "system:user:delete"},
      department |-> {"system:department:query", "system:department:create", "system:department:update",
                      "system:department:delete"},
      role |-> {"system:role:query", "system:role:create", "system:role:update", "system:role:delete"} ]

Up0006 ==
    AddColumns("permissions", <<"parent_id", "type", "path", "component", "icon", "sort_order">>)
      \o Index("permissions", <<"parent_id">>)
      \o ForeignKey("permissions", "parent_id", "permissions")
      \o Upsert("permissions", None, {"system:settings"})
      \o MenuWithButtons("permissions", "system:settings", "system:user:list", Codes0006.user)
      \o MenuWithButtons("permissions", "system:settings", "system:department:list", Codes0006.department)
      \o MenuWithButtons("permissions", "system:settings", "system:role:list", Codes0006.role)
Down0006 ==
    RemovePermissions("permissions", {"system:settings", "system:user:list", "system:department:list", "system:role:list"}
                                     \cup Codes0006.user \cup Codes0006.department \cup Codes0006.role)
      \o DropForeignKey("permissions", "parent_id", "permissions")
      \o DropIndex("permissions", <<"parent_id">>)
      \o DropColumns("permissions", <<"sort_order", "icon", "component", "path", "type", "parent_id">>)

Up0007 == Relabel("permissions")
Down0007 == Relabel("permissions")
Up0008 == Relabel("permissions")
Down0008 == Relabel("permissions")

Up0009 == AddColumns("users", <<"nickname", "gender", "contacts">>)
Down0009 == DropColumns("users", <<"contacts", "gender", "nickname">>)

Up0010 == Relabel("permissions")
Down0010 == Relabel("permissions")

Codes0011 == {"system:user:reset-password", "system:user:assign-role"}
Up0011 == Upsert("permissions", "system:user:list", Codes0011)
Down0011 == RemovePermissions("permissions", Codes0011)

Up0012 ==
    AddColumns("departments", <<"parent_id">>) \o Index("departments", <<"parent_id">>)
      \o ForeignKey("departments", "parent_id", "departments")
Down0012 ==
    DropForeignKey("departments", "parent_id", "departments") \o DropIndex("departments", <<"parent_id">>)
      \o DropColumns("departments", <<"parent_id">>)

-----------------------------------------------------------------------------

Indexes0013 ==
    << <<"users", <<"is_deleted", "is_active", "id">> >>,
       <<"departments", <<"is_deleted", "is_active", "id">> >>,
       <<"roles", <<"is_deleted", "is_active", "id">> >>,
       <<"permissions", <<"is_deleted", "is_active", "type", "sort_order", "id">> >>,
       <<"user_departments", <<"department_id">> >>,
       <<"user_roles", <<"role_id">> >>,
       <<"role_permissions", <<"permission_id">> >> >>
Up0013 == When("missing", FlattenSeq([i \in 1..7 |-> Index(Indexes0013[i][1], Indexes0013[i][2])]))
Down0013 == When("present", FlattenSeq([i \in 1..7 |-> DropIndex(Indexes0013[8 - i][1], Indexes0013[8 - i][2])]))

Up0014 == When("missing", AddColumns("roles", <<"sort_order">>))
Down0014 == When("present", DropColumns("roles", <<"sort_order">>))

Up0015 == When("missing", AddColumns("users", <<"phone", "position", "remark">>))
Down0015 == When("present", DropColumns("users", <<"remark", "position", "phone">>))

Codes0016 == {"system:user:import", "system:user:export"}
Up0016 == Upsert("permissions", "system:user:list", Codes0016) \o GrantAdmin("permissions", Codes0016)
Down0016 == RemovePermissions("permissions", Codes0016)

Up0017 == NoEmail(TRUE)
Down0017 == NoEmail(FALSE)

-----------------------------------------------------------------------------

CodedColumns == {"code", "name", "sort_order", "status", "is_deleted", "created_by", "created_at", "updated_by",
                 "updated_at", "remark"}

Up0018 ==
    Create("positions", CodedColumns, <<>>, {<<"code">>, <<"name">>}, {})
      \o Indexes("positions", <<"id", "code", "name", "status", "is_deleted", "sort_order">>)
Down0018 ==
    DropIndexes("positions", <<"sort_order", "is_deleted", "status", "name", "code", "id">>) \o Drop("positions")

Buttons0019 == {"system:position:query", "system:position:create", "system:position:update", "system:position:delete"}
Codes0019 == {"system:position:list"} \cup Buttons0019
Up0019 ==
    RelationTable("user_positions", <<"user_id", "users">>, <<"position_id", "positions">>, {})
      \o MenuWithButtons("permissions", "system:settings", "system:position:list", Buttons0019)
      \o GrantAdmin("permissions", Codes0019)
Down0019 ==
    RemovePermissions("permissions", Codes0019)
      \o DropIndexes("user_positions", <<"position_id", "user_id", "id">>) \o Drop("user_positions")

Buttons0024 == {"system:domain:query", "system:domain:create", "system:domain:update", "system:domain:delete"}
Codes0024 == {"system:domain:list"} \cup Buttons0024
Up0024 ==
    When("missing", Create("domains", CodedColumns \cup {"registrar", "expiry_date"}, <<>>, {<<"code">>, <<"name">>}, {}))
      \o When("missing", Indexes("domains", <<"id", "code", "name", "status", "is_deleted", "sort_order", "expiry_date">>))
      \o MenuWithButtons("permissions", "system:settings", "system:domain:list", Buttons0024)
      \o GrantAdmin("permissions", Codes0024)
Down0024 ==
    RemovePermissions("permissions", Codes0024)
      \o DropIndexes("domains", <<"expiry_date", "sort_order", "is_deleted", "status", "name", "code", "id">>)
      \o Drop("domains")
=============================================================================
