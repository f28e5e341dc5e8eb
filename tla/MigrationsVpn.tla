---------------------------- MODULE MigrationsVpn ----------------------------
(***************************************************************************)
(* The revisions of the VPN module and of the operation and login logs:    *)
(* src/backend/alembic/versions/0026 to 0040.  Two files carry the number  *)
(* 0027: the prefix of the system tables and the columns of Easy-RSA.      *)
(* UpNNNN and DownNNNN are the statements of upgrade() and downgrade() of  *)
(* file NNNN_*.py, in order.                                               *)
(***************************************************************************)
EXTENDS SchemaStatements

OpsMenu == "ops"
VpnMenu == "ops:openvpn:list"

ServerCodes == {"ops:openvpn:server:query", "ops:openvpn:server:create", "ops:openvpn:server:update",
                "ops:openvpn:server:delete", "ops:openvpn:server:test", "ops:openvpn:server:set-default"}
AccountCodes == {"ops:openvpn:account:query", "ops:openvpn:account:enable", "ops:openvpn:account:disable",
                 "ops:openvpn:account:assign-server", "ops:openvpn:account:download-config",
                 "ops:openvpn:cert:query", "ops:openvpn:cert:issue", "ops:openvpn:cert:revoke",
                 "ops:openvpn:cert:renew"}
SessionCodes == {"ops:openvpn:session:query", "ops:openvpn:session:kick"}
LogCodes == {"ops:openvpn:log:query", "ops:openvpn:log:export"}
RuleCodes == {"ops:openvpn:rule:query", "ops:openvpn:rule:create", "ops:openvpn:rule:update",
              "ops:openvpn:rule:delete"}
Codes0026 == {OpsMenu, VpnMenu} \cup ServerCodes \cup AccountCodes \cup SessionCodes \cup LogCodes \cup RuleCodes

-----------------------------------------------------------------------------

Servers0026 ==
    Create("openvpn_servers",
           {"name", "code", "region", "host", "port", "protocol", "management_host", "management_port", "max_clients",
            "current_clients", "status", "is_default", "config_template", "remark", "is_active", "is_deleted",
            "created_by", "created_at", "updated_by", "updated_at"},
           <<>>, {<<"name">>, <<"code">>}, {})
      \o Indexes("openvpn_servers", <<"status", "is_deleted", "is_default">>)

AssignmentRules0026 ==
    Create("openvpn_assignment_rules",
           {"name", "server_id", "target_type", "target_id", "priority", "fallback_enabled", "is_active", "remark",
            "created_by", "created_at", "updated_by", "updated_at"},
           <<>>, {<<"target_type", "target_id", "server_id">>}, {<<"server_id", "openvpn_servers">>})
      \o Indexes("openvpn_assignment_rules", <<"server_id">>)
      \o Index("openvpn_assignment_rules", <<"target_type", "target_id">>)
      \o Index("openvpn_assignment_rules", <<"is_active", "priority">>)

Accounts0026 ==
    Create("openvpn_accounts",
           {"user_id", "server_id", "vpn_username", "status", "assign_source", "assignment_rule_id",
            "config_version", "last_config_generated_at", "last_connected_at", "last_virtual_ip", "last_real_ip",
            "remark", "created_by", "created_at", "updated_by", "updated_at"},
           <<>>, {<<"user_id">>, <<"vpn_username">>},
           {<<"user_id", "users">>, <<"server_id", "openvpn_servers">>,
            <<"assignment_rule_id", "openvpn_assignment_rules">>})
      \o Indexes("openvpn_accounts", <<"server_id", "status">>)

Certificates0026 ==
    Create("openvpn_certificates",
           {"account_id", "server_id", "common_name", "serial_number", "status", "issued_at", "expires_at",
            "revoked_at", "revoked_reason", "config_file_path", "created_by", "created_at"},
           <<>>, {<<"serial_number">>}, {<<"account_id", "openvpn_accounts">>, <<"server_id", "openvpn_servers">>})
      \o Indexes("openvpn_certificates", <<"account_id", "server_id", "common_name", "status", "expires_at">>)

Sessions0026 ==
    Create("openvpn_sessions",
           {"server_id", "account_id", "user_id", "common_name", "virtual_ip", "real_ip", "connected_at",
            "disconnected_at", "bytes_in", "bytes_out", "status"},
           <<>>, {},
           {<<"server_id", "openvpn_servers">>, <<"account_id", "openvpn_accounts">>, <<"user_id", "users">>})
      \o Indexes("openvpn_sessions", <<"server_id", "account_id", "user_id", "status">>)

ConnectionLogs0026 ==
    Create("openvpn_connection_logs",
           {"server_id", "account_id", "user_id", "action", "real_ip", "virtual_ip", "result", "message", "extra",
            "occurred_at"},
           <<>>, {},
           {<<"server_id", "openvpn_servers">>, <<"account_id", "openvpn_accounts">>, <<"user_id", "users">>})
      \o Indexes("openvpn_connection_logs", <<"server_id", "account_id", "user_id", "action", "occurred_at">>)

Permissions0026 ==
    FlattenSeq(<< Upsert("permissions", None, {OpsMenu}), Upsert("permissions", OpsMenu, {VpnMenu}),
                  Upsert("permissions", VpnMenu, Codes0026 \ {OpsMenu, VpnMenu}),
                  GrantAdmin("permissions", Codes0026) >>)

(* With all six tables there, the revision trusts the schema and only writes *)
(* the permissions.                                                          *)
Up0026(db) ==
    IF \A t \in {"openvpn_servers", "openvpn_assignment_rules", "openvpn_accounts", "openvpn_certificates",
                 "openvpn_sessions", "openvpn_connection_logs"} : HasTable(db, t)
    THEN Permissions0026
    ELSE FlattenSeq(<< Servers0026, AssignmentRules0026, Accounts0026, Certificates0026, Sessions0026,
                       ConnectionLogs0026, Permissions0026 >>)

Down0026 ==
    FlattenSeq(<< RemovePermissions("permissions", Codes0026),
                  DropIndexes("openvpn_connection_logs", <<"occurred_at", "action", "user_id", "account_id", "server_id">>),
                  Drop("openvpn_connection_logs"),
                  DropIndexes("openvpn_sessions", <<"status", "user_id", "account_id", "server_id">>),
                  Drop("openvpn_sessions"),
                  DropIndexes("openvpn_certificates", <<"expires_at", "status", "common_name", "server_id", "account_id">>),
                  Drop("openvpn_certificates"),
                  DropIndexes("openvpn_accounts", <<"status", "server_id">>), Drop("openvpn_accounts"),
                  DropIndex("openvpn_assignment_rules", <<"is_active", "priority">>),
                  DropIndex("openvpn_assignment_rules", <<"target_type", "target_id">>),
                  DropIndexes("openvpn_assignment_rules", <<"server_id">>), Drop("openvpn_assignment_rules"),
                  DropIndexes("openvpn_servers", <<"is_default", "is_deleted", "status">>), Drop("openvpn_servers") >>)

-----------------------------------------------------------------------------

TableRenames ==
    << "users", "departments", "roles", "permissions", "positions", "domains", "user_departments", "user_roles",
       "user_positions", "role_permissions" >>
Prefixed ==
    [ users |-> "sys_users", departments |-> "sys_departments", roles |-> "sys_roles",
      permissions |-> "sys_permissions", positions |-> "sys_positions", domains |-> "sys_domains",
      user_departments |-> "sys_user_departments", user_roles |-> "sys_user_roles",
      user_positions |-> "sys_user_positions", role_permissions |-> "sys_role_permissions" ]
Up0027Prefix == When("present", FlattenSeq([i \in 1..10 |-> Rename(TableRenames[i], Prefixed[TableRenames[i]])]))
Down0027Prefix ==
    When("present", FlattenSeq([i \in 1..10 |-> Rename(Prefixed[TableRenames[11 - i]], TableRenames[11 - i])]))

EasyRsaColumns == << "certificate_backend", "easy_rsa_dir", "pki_dir", "ca_cert_path", "tls_crypt_key_path", "crl_path",
                     "client_config_dir" >>
Up0027Cert ==
    When("missing", AddColumns("openvpn_servers", EasyRsaColumns)
                      \o AddColumns("openvpn_certificates", <<"cert_path", "key_path", "request_path">>))
Down0027Cert ==
    When("present", DropColumns("openvpn_certificates", <<"request_path", "key_path", "cert_path">>)
                      \o DropColumns("openvpn_servers", Reverse(EasyRsaColumns)))

-----------------------------------------------------------------------------
(* One VPN menu becomes five; whoever could use the old one sees them.       *)

SplitMenus ==
    << [menu |-> "ops:openvpn:server:list", query |-> "ops:openvpn:server:query", children |-> ServerCodes],
       [menu |-> "ops:openvpn:account:list", query |-> "ops:openvpn:account:query", children |-> AccountCodes],
       [menu |-> "ops:openvpn:session:list", query |-> "ops:openvpn:session:query", children |-> SessionCodes],
       [menu |-> "ops:openvpn:log:list", query |-> "ops:openvpn:log:query", children |-> LogCodes],
       [menu |-> "ops:openvpn:rule:list", query |-> "ops:openvpn:rule:query", children |-> RuleCodes] >>
MenuCodes == { SplitMenus[i].menu : i \in DOMAIN SplitMenus }

SplitMenu(item) ==
    Upsert("sys_permissions", OpsMenu, {item.menu}) \o Reparent("sys_permissions", item.menu, item.children)
      \o GrantHolders("sys_permissions", {item.menu}, {item.query, VpnMenu})
Up0028 ==
    FlattenSeq([i \in DOMAIN SplitMenus |-> SplitMenu(SplitMenus[i])]) \o Activate("sys_permissions", VpnMenu, FALSE)
Down0028(db) ==
    (IF VpnMenu \in DOMAIN db.perms
     THEN Upsert("sys_permissions", OpsMenu, {VpnMenu})
            \o Reparent("sys_permissions", VpnMenu, UNION { SplitMenus[i].children : i \in DOMAIN SplitMenus })
     ELSE <<>>) \o RemovePermissions("sys_permissions", MenuCodes)

Up0029 == Relabel("sys_permissions")
Down0029 == Relabel("sys_permissions")

(* The five menus move under the old one, active again. *)
Up0030 ==
    Upsert("sys_permissions", OpsMenu, {VpnMenu}) \o Reparent("sys_permissions", VpnMenu, MenuCodes)
      \o FlattenSeq([i \in DOMAIN SplitMenus |-> Activate("sys_permissions", SplitMenus[i].menu, TRUE)])
      \o GrantHolders("sys_permissions", {VpnMenu}, MenuCodes)
Down0030 == Reparent("sys_permissions", OpsMenu, MenuCodes) \o Activate("sys_permissions", VpnMenu, FALSE)

SshColumns == << "ssh_host", "ssh_port", "ssh_user", "ssh_key_path" >>
(* Mutant: the columns are added without asking. *)
Up0031Unguarded == AddColumns("openvpn_servers", SshColumns)
Up0031 == When("missing", AddColumns("openvpn_servers", SshColumns))
(* Mutant: one column stays. *)
Down0031Partial == When("present", DropColumns("openvpn_servers", Tail(Reverse(SshColumns))))
Down0031 == When("present", DropColumns("openvpn_servers", Reverse(SshColumns)))

(* Mutant: a code no endpoint asks for. *)
RevokeCodeMisspelt == "ops:openvpn:revoke"
RevokeCode == "ops:openvpn:account:revoke"
Up0032 ==
    Upsert("sys_permissions", "ops:openvpn:account:list", {RevokeCode})
      \o GrantHolders("sys_permissions", {RevokeCode}, {"ops:openvpn:account:disable", "ops:openvpn:cert:revoke"})
Down0032 == RemovePermissions("sys_permissions", {RevokeCode})

-----------------------------------------------------------------------------

Traffic0033 ==
    Create("openvpn_traffic_records",
           {"server_id", "account_id", "certificate_id", "user_id", "department_id", "session_id", "common_name",
            "virtual_ip", "real_ip", "bytes_in", "bytes_out", "bytes_total", "recorded_at", "created_at"},
           <<"id", "server_id", "account_id", "certificate_id", "user_id", "department_id", "session_id",
             "common_name", "recorded_at">>,
           {<<"session_id">>},
           {<<"server_id", "openvpn_servers">>, <<"account_id", "openvpn_accounts">>,
            <<"certificate_id", "openvpn_certificates">>, <<"user_id", "sys_users">>,
            <<"department_id", "sys_departments">>, <<"session_id", "openvpn_sessions">>})
      \o Create("openvpn_traffic_aggregates",
           {"period_type", "period_start", "dimension_type", "dimension_id", "server_id", "account_id",
            "certificate_id", "department_id", "bytes_in", "bytes_out", "bytes_total", "session_count", "updated_at"},
           <<"id", "period_type", "period_start", "dimension_type", "dimension_id", "server_id", "account_id",
             "certificate_id", "department_id">>,
           {<<"period_type", "period_start", "dimension_type", "dimension_id">>}, {})

Thresholds0033 ==
    Create("openvpn_traffic_threshold_rules",
           {"name", "target_type", "target_id", "period_type", "threshold_bytes", "action", "is_active", "remark",
            "created_by", "created_at", "updated_by", "updated_at"},
           <<"id", "target_type", "target_id">>, {<<"target_type", "target_id", "period_type">>}, {})
      \o Create("openvpn_traffic_alerts",
           {"rule_id", "target_type", "target_id", "server_id", "certificate_id", "account_id", "period_type",
            "period_start", "threshold_bytes", "actual_bytes", "action", "status", "message", "created_at",
            "processed_by", "processed_at", "process_note"},
           <<"id", "rule_id", "target_type", "target_id", "server_id", "certificate_id", "account_id",
             "period_start", "status">>,
           {<<"rule_id", "period_type", "period_start", "target_type", "target_id">>},
           {<<"rule_id", "openvpn_traffic_threshold_rules">>})

TrafficMenu == "ops:openvpn:traffic:list"
TrafficCodes == {"ops:openvpn:traffic:query", "ops:openvpn:traffic:threshold:query",
                 "ops:openvpn:traffic:threshold:create", "ops:openvpn:traffic:threshold:update",
                 "ops:openvpn:traffic:threshold:delete", "ops:openvpn:traffic:alert:query",
                 "ops:openvpn:traffic:alert:process"}
Up0033 ==
    FlattenSeq(<< Alter("openvpn_sessions"), Alter("openvpn_sessions"), Traffic0033, Thresholds0033,
                  Upsert("sys_permissions", VpnMenu, {TrafficMenu}),
                  GrantHolders("sys_permissions", {TrafficMenu},
                               {"ops:openvpn:session:query", "ops:openvpn:log:query", VpnMenu}),
                  Upsert("sys_permissions", TrafficMenu, TrafficCodes),
                  GrantHolders("sys_permissions", TrafficCodes,
                               {"ops:openvpn:session:query", "ops:openvpn:log:query", "ops:openvpn:server:query"}) >>)
Down0033 ==
    FlattenSeq(<< RemovePermissions("sys_permissions", {TrafficMenu} \cup TrafficCodes),
                  Drop("openvpn_traffic_alerts"), Drop("openvpn_traffic_threshold_rules"),
                  Drop("openvpn_traffic_aggregates"), Drop("openvpn_traffic_records"),
                  Alter("openvpn_sessions"), Alter("openvpn_sessions") >>)

Up0034 ==
    Index("openvpn_connection_logs", <<"server_id", "id">>) \o Index("openvpn_connection_logs", <<"user_id", "id">>)
      \o Index("openvpn_connection_logs", <<"action", "id">>) \o Index("openvpn_connection_logs", <<"occurred_at", "id">>)
Down0034 ==
    DropIndex("openvpn_connection_logs", <<"occurred_at", "id">>) \o DropIndex("openvpn_connection_logs", <<"action", "id">>)
      \o DropIndex("openvpn_connection_logs", <<"user_id", "id">>) \o DropIndex("openvpn_connection_logs", <<"server_id", "id">>)

-----------------------------------------------------------------------------
(* The two log tables.  The table is made with the index of its id when it  *)
(* is missing; the other indexes one by one when they are.                   *)

LogTable(db, t, columns, indexes) ==
    (IF HasTable(db, t) THEN <<>> ELSE Create(t, columns, <<"id">>, {}, {}))
      \o When("missing", FlattenSeq([i \in DOMAIN indexes |-> Index(t, indexes[i])]))
(* Mutant: the buttons are granted to nobody. *)
LogMenuWithoutButtons(menu, codes, sources) ==
    Upsert("sys_permissions", OpsMenu, {menu}) \o GrantHolders("sys_permissions", {menu}, sources)
      \o Upsert("sys_permissions", menu, codes)
LogMenu(menu, codes, sources) ==
    Upsert("sys_permissions", OpsMenu, {menu}) \o GrantHolders("sys_permissions", {menu}, sources)
      \o Upsert("sys_permissions", menu, codes) \o GrantHolders("sys_permissions", codes, sources)
DropLogTable(t, indexes) ==
    FlattenSeq([i \in DOMAIN indexes |-> DropIndex(t, indexes[Len(indexes) + 1 - i])]) \o Drop(t)

OperationLogIndexes ==
    << <<"action", "id">>, <<"created_at", "id">>, <<"department_id", "id">>, <<"module", "id">>,
       <<"operator_id", "id">>, <<"resource_type", "resource_id">>, <<"result", "id">>, <<"trace_id">> >>
OperationLogMenu == "ops:operation-log:list"
OperationLogCodes == {"ops:operation-log:query", "ops:operation-log:detail", "ops:operation-log:export"}
Up0035(db) ==
    LogTable(db, "operation_logs",
             {"trace_id", "operator_id", "operator_username", "operator_nickname", "department_id",
              "department_name", "module", "module_name", "resource_type", "resource_id", "resource_name", "action",
              "action_name", "method", "path", "request_params", "request_body", "response_params",
              "response_status", "result", "error_message", "client_ip", "user_agent", "duration_ms", "created_at"},
             OperationLogIndexes)
      \o LogMenu(OperationLogMenu, OperationLogCodes, {OpsMenu, VpnMenu, "ops:openvpn:server:query"})
Down0035 ==
    RemovePermissions("sys_permissions", {OperationLogMenu} \cup OperationLogCodes)
      \o DropLogTable("operation_logs", OperationLogIndexes)

LoginLogIndexes ==
    << <<"user_id", "id">>, <<"username", "id">>, <<"department_id", "id">>, <<"result", "id">>,
       <<"created_at", "id">>, <<"trace_id">> >>
LoginLogMenu == "ops:login-log:list"
LoginLogCodes == {"ops:login-log:query", "ops:login-log:detail", "ops:login-log:export"}
Up0036(db) ==
    LogTable(db, "login_logs",
             {"trace_id", "user_id", "username", "nickname", "department_id", "department_name", "login_type",
              "method", "path", "request_params", "request_body", "response_params", "response_status", "result",
              "error_message", "client_ip", "user_agent", "created_at"},
             LoginLogIndexes)
      \o Relabel("login_logs")
      \o LogMenu(LoginLogMenu, LoginLogCodes,
                 {"ops:operation-log:query", OperationLogMenu, "ops:openvpn:server:query"})
Down0036 ==
    RemovePermissions("sys_permissions", {LoginLogMenu} \cup LoginLogCodes)
      \o DropLogTable("login_logs", LoginLogIndexes)

-----------------------------------------------------------------------------

WireGuardServerColumns == << "vpn_type", "wg_interface", "wg_network_cidr", "wg_dns", "wg_allowed_ips",
                             "wg_persistent_keepalive", "wg_public_key" >>
WireGuardAccountColumns == << "wg_client_private_key", "wg_client_public_key", "wg_client_address" >>
(* Mutant: the columns of the accounts are forgotten. *)
Up0037ServersOnly == When("missing", AddColumns("openvpn_servers", WireGuardServerColumns))
Up0037 ==
    When("missing", AddColumns("openvpn_servers", WireGuardServerColumns)
                      \o AddColumns("openvpn_accounts", WireGuardAccountColumns))
Down0037 ==
    DropColumns("openvpn_accounts", Reverse(WireGuardAccountColumns))
      \o DropColumns("openvpn_servers", Reverse(WireGuardServerColumns))

Up0038 == When("present", Relabel("sys_permissions"))
Down0038 == When("present", Relabel("sys_permissions"))

DataScope == "sys_user_data_scope_departments"
(* Mutant: the revision does not ask whether its table is there. *)
Up0039Unguarded(db) ==
    Create(DataScope, {"user_id", "department_id", "created_at"}, <<>>, {<<"user_id", "department_id">>},
           {<<"department_id", "sys_departments">>, <<"user_id", "sys_users">>})
      \o Indexes(DataScope, <<"id", "user_id", "department_id">>)
Up0039(db) ==
    IF HasTable(db, DataScope) THEN <<>>
    ELSE Create(DataScope, {"user_id", "department_id", "created_at"}, <<>>, {<<"user_id", "department_id">>},
                {<<"department_id", "sys_departments">>, <<"user_id", "sys_users">>})
           \o Indexes(DataScope, <<"id", "user_id", "department_id">>)
Down0039 == When("present", Drop(DataScope))

(* One row per user: later rows go, and a constraint keeps it so.            *)
ScopeTables == << "sys_user_departments", "sys_user_roles", DataScope >>
Up0040(db) ==
    LET there == SelectSeq(ScopeTables, LAMBDA t : HasTable(db, t))
    IN  FlattenSeq([i \in DOMAIN there |-> Deduplicate(there[i])])
          \o When("missing", FlattenSeq([i \in DOMAIN there |-> Unique(there[i], <<"user_id">>)]))
Down0040 == When("present", FlattenSeq([i \in 1..3 |-> DropUnique(ScopeTables[4 - i], <<"user_id">>)]))
=============================================================================
