------------------------------ MODULE Endpoints ------------------------------
(***************************************************************************)
(* The endpoints of src/backend/app/controllers, one record each:          *)
(*   does     the service operation, or the name of the handler            *)
(*   code     the permission require_permission asks for, or none          *)
(*   scope    "all", "query" when the rows are cut to the caller's data    *)
(*            scope, "ensure" when the handler checks the target first     *)
(*   writes   the operation commits a change of its own                    *)
(*   logs     the handler records the operation afterwards                 *)
(* Left out: paths, filters, and the shape of the answers.                 *)
(***************************************************************************)
EXTENDS Naturals, Sequences

Anyone == "none"
Endpoint(does, code, scope, writes, logs) ==
    [does |-> does, code |-> code, scope |-> scope, writes |-> writes, logs |-> logs]

Read(does, code, scope) == Endpoint(does, code, scope, FALSE, FALSE)
Write(does, code, scope) == Endpoint(does, code, scope, TRUE, FALSE)
LoggedRead(does, code, scope) == Endpoint(does, code, scope, FALSE, TRUE)
LoggedWrite(does, code, scope) == Endpoint(does, code, scope, TRUE, TRUE)

AttendanceRuleEndpoints ==
    { Read("list_shifts", "attendance:shift:list", "all"),
      Write("create_shift", "attendance:shift:create", "all"),
      Write("update_shift", "attendance:shift:update", "all"),
      Write("delete_shift", "attendance:shift:delete", "all"),
      Read("list_rest_rules", "attendance:rest-rule:list", "all"),
      Write("create_rest_rule", "attendance:rest-rule:update", "all"),
      Write("update_rest_rule", "attendance:rest-rule:update", "all"),
      Write("delete_rest_rule", "attendance:rest-rule:update", "all"),
      Read("list_schedules", "attendance:schedule:list", "query"),
      Write("create_schedules", "attendance:schedule:create", "ensure"),
      Write("update_schedule", "attendance:schedule:update", "ensure"),
      Write("delete_schedule", "attendance:schedule:delete", "ensure") }

AttendanceRecordEndpoints ==
    { Read("list_records", "attendance:record:list", "query"),
      Write("create_record", "attendance:record:create", "ensure"),
      Write("update_record", "attendance:record:update", "ensure"),
      Write("delete_record", "attendance:record:delete", "ensure"),
      Read("list_requests", "attendance:request:list", "query"),
      Write("create_request", Anyone, "all"),
      Write("update_request", "attendance:request:create", "ensure"),
      Write("withdraw_request", Anyone, "all"),
      Write("approve_request", "attendance:approval:approve", "ensure") }

AttendanceReportEndpoints ==
    { Read("list_daily_results", "attendance:daily-report:list", "query"),
      Read("export_daily_results", "attendance:report:export", "query"),
      Write("rebuild_daily_results", "attendance:daily-report:list", "query"),
      Read("list_monthly_summaries", "attendance:monthly-report:list", "query"),
      Read("export_monthly_summaries", "attendance:report:export", "query"),
      Write("rebuild_monthly_summaries", "attendance:monthly-report:list", "query") }

DepartmentEndpoints ==
    { Read("list_departments", "system:department:query", "all"),
      LoggedWrite("create_department", "system:department:create", "all"),
      Read("get_department", "system:department:query", "all"),
      LoggedWrite("update_department", "system:department:update", "all"),
      LoggedWrite("delete_department", "system:department:delete", "all") }

DomainEndpoints ==
    { Read("list_domains", "system:domain:query", "all"),
      LoggedWrite("create_domain", "system:domain:create", "all"),
      Read("get_domain", "system:domain:query", "all"),
      LoggedWrite("update_domain", "system:domain:update", "all"),
      LoggedWrite("delete_domain", "system:domain:delete", "all") }

PositionEndpoints ==
    { Read("list_positions", "system:position:query", "all"),
      LoggedWrite("create_position", "system:position:create", "all"),
      Read("get_position", "system:position:query", "all"),
      LoggedWrite("update_position", "system:position:update", "all"),
      LoggedWrite("delete_position", "system:position:delete", "all") }

(* Permissions are kept by whoever may keep roles.                           *)
PermissionEndpoints ==
    { Read("list_permissions", "system:role:query", "all"),
      LoggedWrite("create_permission", "system:role:create", "all"),
      Read("get_permission", "system:role:query", "all"),
      LoggedWrite("update_permission", "system:role:update", "all"),
      LoggedWrite("delete_permission", "system:role:delete", "all") }

RoleEndpoints ==
    { Read("list_roles", "system:role:query", "all"),
      LoggedWrite("create_role", "system:role:create", "all"),
      Read("get_role", "system:role:query", "all"),
      Read("list_role_permissions", "system:role:query", "all"),
      LoggedWrite("update_role", "system:role:update", "all"),
      LoggedWrite("delete_role", "system:role:delete", "all") }

LoginLogEndpoints ==
    { Read("login_log_options", "ops:login-log:query", "all"),
      Read("list_login_logs", "ops:login-log:query", "query"),
      LoggedRead("export_login_logs", "ops:login-log:export", "query"),
      Read("get_login_log", "ops:login-log:detail", "ensure") }

OperationLogEndpoints ==
    { Read("operation_log_options", "ops:operation-log:query", "all"),
      Read("list_operation_logs", "ops:operation-log:query", "query"),
      LoggedRead("export_operation_logs", "ops:operation-log:export", "query"),
      Read("get_operation_log", "ops:operation-log:detail", "ensure") }

VpnServerEndpoints ==
    { Read("list_servers", "ops:openvpn:server:query", "all"),
      Read("list_options", "ops:openvpn:account:query", "query"),
      LoggedWrite("create_server", "ops:openvpn:server:create", "all"),
      Read("get_server", "ops:openvpn:server:query", "all"),
      LoggedWrite("update_server", "ops:openvpn:server:update", "all"),
      LoggedWrite("delete_server", "ops:openvpn:server:delete", "all"),
      LoggedWrite("set_default_server", "ops:openvpn:server:set-default", "all"),
      LoggedRead("test_server", "ops:openvpn:server:test", "all") }

VpnRuleEndpoints ==
    { Read("list_rules", "ops:openvpn:rule:query", "all"),
      LoggedWrite("create_rule", "ops:openvpn:rule:create", "all"),
      LoggedWrite("update_rule", "ops:openvpn:rule:update", "all"),
      LoggedWrite("delete_rule", "ops:openvpn:rule:delete", "all") }

VpnAccountEndpoints ==
    { Read("list_accounts", "ops:openvpn:account:query", "query"),
      LoggedWrite("enable_account", "ops:openvpn:account:enable", "ensure"),
      LoggedWrite("disable_account", "ops:openvpn:account:disable", "ensure"),
      LoggedWrite("revoke_account", "ops:openvpn:account:revoke", "ensure"),
      LoggedWrite("assign_account_server", "ops:openvpn:account:assign-server", "ensure"),
      Read("resolve_user_server", "ops:openvpn:account:query", "ensure"),
      LoggedWrite("generate_config", "ops:openvpn:account:download-config", "ensure") }

VpnCertificateEndpoints ==
    { Read("list_certificates", "ops:openvpn:cert:query", "query"),
      LoggedWrite("issue_certificate", "ops:openvpn:cert:issue", "ensure"),
      LoggedWrite("revoke_certificate", "ops:openvpn:cert:revoke", "ensure"),
      LoggedWrite("renew_certificate", "ops:openvpn:cert:renew", "ensure") }

VpnTrafficEndpoints ==
    { Read("traffic_overview", "ops:openvpn:traffic:query", "query"),
      Read("traffic_distribution", "ops:openvpn:traffic:query", "query"),
      Read("traffic_trend", "ops:openvpn:traffic:query", "query"),
      Read("traffic_ranking", "ops:openvpn:traffic:query", "query"),
      Read("list_traffic_threshold_rules", "ops:openvpn:traffic:threshold:query", "query"),
      LoggedWrite("create_traffic_threshold_rule", "ops:openvpn:traffic:threshold:create", "ensure"),
      LoggedWrite("update_traffic_threshold_rule", "ops:openvpn:traffic:threshold:update", "ensure"),
      LoggedWrite("delete_traffic_threshold_rule", "ops:openvpn:traffic:threshold:delete", "ensure"),
      Read("list_traffic_alerts", "ops:openvpn:traffic:alert:query", "query"),
      LoggedWrite("process_traffic_alert", "ops:openvpn:traffic:alert:process", "ensure") }

(* The hooks of the VPN servers bring a secret instead of a permission.      *)
VpnSessionEndpoints ==
    { Write("record_session_connect", Anyone, "all"),
      Write("record_session_disconnect", Anyone, "all"),
      Read("list_sessions", "ops:openvpn:session:query", "query"),
      LoggedWrite("kick_session", "ops:openvpn:session:kick", "ensure"),
      Read("list_logs", "ops:openvpn:log:query", "query"),
      LoggedRead("export_logs_csv", "ops:openvpn:log:export", "query") }

UserEndpoints ==
    { Read("read_current_user", Anyone, "all"),
      LoggedWrite("update_user", Anyone, "all"),
      Read("list_users", "system:user:query", "query"),
      LoggedWrite("create_admin_user", "system:user:create", "ensure"),
      LoggedWrite("delete_users", "system:user:delete", "ensure"),
      LoggedWrite("reset_password", "system:user:reset-password", "ensure"),
      Read("get_user", "system:user:query", "ensure"),
      Read("list_user_departments", "system:user:query", "ensure"),
      Read("list_data_scope_departments", "system:user:assign-role", "ensure"),
      Read("list_user_roles", "system:user:assign-role", "ensure"),
      Read("list_user_positions", "system:user:query", "ensure"),
      LoggedWrite("assign_roles", "system:user:assign-role", "ensure"),
      LoggedWrite("update_admin_user", "system:user:update", "ensure"),
      LoggedWrite("delete_user", "system:user:delete", "ensure") }

-----------------------------------------------------------------------------

Endpoints ==
    UNION { AttendanceRuleEndpoints, AttendanceRecordEndpoints, AttendanceReportEndpoints, DepartmentEndpoints,
            DomainEndpoints, PositionEndpoints, PermissionEndpoints, RoleEndpoints, LoginLogEndpoints,
            OperationLogEndpoints, VpnServerEndpoints, VpnRuleEndpoints, VpnAccountEndpoints,
            VpnCertificateEndpoints, VpnTrafficEndpoints, VpnSessionEndpoints, UserEndpoints }

RequiredCodes == { e.code : e \in Endpoints } \ {Anyone}
=============================================================================
