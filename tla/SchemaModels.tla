---------------------------- MODULE SchemaModels ----------------------------
(***************************************************************************)
(* The tables the application expects: the SQLAlchemy models of            *)
(* src/backend/app/models, and the permission codes the controllers of     *)
(* src/backend/app/controllers ask for.  A model is its table, columns,    *)
(* indexed columns, unique constraints and foreign keys; every table has   *)
(* the primary key "id".  Types, defaults and lengths are left out.        *)
(***************************************************************************)
EXTENDS Naturals, FiniteSets

Model(t, columns, indexes, uniques, references) ==
    [ cols |-> { <<t, c>> : c \in columns \cup {"id"} },
      idx |-> { <<t, ix, FALSE>> : ix \in indexes } \cup { <<t, u, TRUE>> : u \in uniques },
      fks |-> { <<t, fk[1], fk[2]>> : fk \in references } ]

User ==
    Model("sys_users",
          {"username", "nickname", "gender", "phone", "position", "remark", "contacts", "email",
           "hashed_password", "is_active", "is_deleted", "is_admin", "created_by", "created_at",
           "updated_by", "updated_at"},
          {<<"id">>}, {<<"username">>, <<"email">>},
          {})

Department ==
    Model("sys_departments",
          {"parent_id", "name", "code", "description", "is_active", "is_deleted", "created_by",
           "created_at", "updated_by", "updated_at"},
          {<<"id">>}, {<<"name">>, <<"code">>},
          {<<"parent_id", "sys_departments">>})

Role ==
    Model("sys_roles",
          {"name", "code", "sort_order", "description", "is_active", "is_deleted", "created_by",
           "created_at", "updated_by", "updated_at"},
          {<<"id">>}, {<<"name">>, <<"code">>},
          {})

Permission ==
    Model("sys_permissions",
          {"parent_id", "name", "code", "type", "path", "component", "icon", "sort_order", "description",
           "is_active", "is_deleted", "created_by", "created_at", "updated_by", "updated_at"},
          {<<"id">>, <<"parent_id">>}, {<<"name">>, <<"code">>},
          {<<"parent_id", "sys_permissions">>})

Position ==
    Model("sys_positions",
          {"code", "name", "sort_order", "status", "is_deleted", "created_by", "created_at", "updated_by",
           "updated_at", "remark"},
          {<<"id">>}, {<<"code">>, <<"name">>},
          {})

Domain ==
    Model("sys_domains",
          {"code", "name", "registrar", "expiry_date", "sort_order", "status", "is_deleted", "created_by",
           "created_at", "updated_by", "updated_at", "remark"},
          {<<"id">>}, {<<"code">>, <<"name">>},
          {})

UserDepartment ==
    Model("sys_user_departments",
          {"user_id", "department_id", "is_primary", "created_at"},
          {<<"id">>}, {<<"user_id">>, <<"user_id", "department_id">>},
          {<<"user_id", "sys_users">>, <<"department_id", "sys_departments">>})

UserRole ==
    Model("sys_user_roles",
          {"user_id", "role_id", "created_at"},
          {<<"id">>}, {<<"user_id">>, <<"user_id", "role_id">>},
          {<<"user_id", "sys_users">>, <<"role_id", "sys_roles">>})

UserPosition ==
    Model("sys_user_positions",
          {"user_id", "position_id", "created_at"},
          {<<"id">>}, {<<"user_id", "position_id">>},
          {<<"user_id", "sys_users">>, <<"position_id", "sys_positions">>})

RolePermission ==
    Model("sys_role_permissions",
          {"role_id", "permission_id", "created_at"},
          {<<"id">>}, {<<"role_id", "permission_id">>},
          {<<"role_id", "sys_roles">>, <<"permission_id", "sys_permissions">>})

UserDataScopeDepartment ==
    Model("sys_user_data_scope_departments",
          {"user_id", "department_id", "created_at"},
          {<<"id">>, <<"user_id">>, <<"department_id">>}, {<<"user_id">>, <<"user_id", "department_id">>},
          {<<"user_id", "sys_users">>, <<"department_id", "sys_departments">>})

OperationLog ==
    Model("operation_logs",
          {"trace_id", "operator_id", "operator_username", "operator_nickname", "department_id",
           "department_name", "module", "module_name", "resource_type", "resource_id", "resource_name",
           "action", "action_name", "method", "path", "request_params", "request_body", "response_params",
           "response_status", "result", "error_message", "client_ip", "user_agent", "duration_ms",
           "created_at"},
          {<<"operator_id", "id">>, <<"department_id", "id">>, <<"module", "id">>,
           <<"resource_type", "resource_id">>, <<"action", "id">>, <<"result", "id">>,
           <<"created_at", "id">>, <<"trace_id">>, <<"id">>}, {},
          {})

LoginLog ==
    Model("login_logs",
          {"trace_id", "user_id", "username", "nickname", "department_id", "department_name", "login_type",
           "method", "path", "request_params", "request_body", "response_params", "response_status",
           "result", "error_message", "client_ip", "user_agent", "created_at"},
          {<<"user_id", "id">>, <<"username", "id">>, <<"department_id", "id">>, <<"result", "id">>,
           <<"created_at", "id">>, <<"trace_id">>, <<"id">>}, {},
          {})

AttendanceShift ==
    Model("attendance_shifts",
          {"name", "code", "start_time", "end_time", "late_allowed_minutes", "early_leave_allowed_minutes",
           "is_cross_day", "is_flexible", "flexible_minutes", "is_active", "created_by", "created_at",
           "updated_by", "updated_at"},
          {<<"id">>}, {<<"name">>, <<"code">>},
          {})

AttendanceRestRule ==
    Model("attendance_rest_rules",
          {"name", "rest_type", "weekday", "rest_date", "is_active", "created_by", "created_at",
           "updated_by", "updated_at"},
          {<<"id">>}, {},
          {})

AttendanceRestRuleDepartment ==
    Model("attendance_rest_rule_departments",
          {"rest_rule_id", "department_id", "created_at"},
          {<<"id">>, <<"rest_rule_id">>, <<"department_id">>}, {<<"rest_rule_id", "department_id">>},
          {<<"rest_rule_id", "attendance_rest_rules">>, <<"department_id", "sys_departments">>})

AttendanceRestRuleUser ==
    Model("attendance_rest_rule_users",
          {"rest_rule_id", "user_id", "created_at"},
          {<<"id">>, <<"rest_rule_id">>, <<"user_id">>}, {<<"rest_rule_id", "user_id">>},
          {<<"rest_rule_id", "attendance_rest_rules">>, <<"user_id", "sys_users">>})

AttendanceScheduleItem ==
    Model("attendance_schedule_items",
          {"user_id", "department_id", "shift_id", "work_date", "source_type", "status", "is_temporary",
           "is_swapped", "remark", "created_by", "created_at", "updated_by", "updated_at"},
          {<<"id">>, <<"user_id">>, <<"department_id">>, <<"shift_id">>, <<"work_date">>}, {<<"user_id", "work_date", "shift_id">>},
          {<<"user_id", "sys_users">>, <<"department_id", "sys_departments">>,
           <<"shift_id", "attendance_shifts">>})

AttendanceRecord ==
    Model("attendance_records",
          {"user_id", "schedule_item_id", "shift_id", "record_type", "record_time", "source", "status",
           "late_minutes", "early_leave_minutes", "remark", "created_by", "created_at", "updated_at"},
          {<<"id">>, <<"user_id">>, <<"schedule_item_id">>, <<"shift_id">>, <<"record_time">>}, {},
          {<<"user_id", "sys_users">>, <<"schedule_item_id", "attendance_schedule_items">>,
           <<"shift_id", "attendance_shifts">>})

AttendanceRequest ==
    Model("attendance_requests",
          {"request_no", "user_id", "request_type", "start_at", "end_at", "duration_minutes",
           "related_record_id", "related_schedule_item_id", "reason", "status", "approver_id", "approved_at",
           "approval_remark", "created_at", "updated_at"},
          {<<"id">>, <<"user_id">>, <<"request_type">>, <<"status">>}, {<<"request_no">>},
          {<<"user_id", "sys_users">>, <<"related_record_id", "attendance_records">>,
           <<"related_schedule_item_id", "attendance_schedule_items">>, <<"approver_id", "sys_users">>})

AttendanceDailyResult ==
    Model("attendance_daily_results",
          {"user_id", "work_date", "shift_id", "schedule_item_id", "checkin_time", "checkout_time",
           "status", "late_minutes", "early_leave_minutes", "leave_minutes", "overtime_minutes",
           "work_minutes", "is_missing_checkin", "is_missing_checkout", "created_at", "updated_at"},
          {<<"id">>, <<"user_id">>, <<"work_date">>, <<"shift_id">>}, {<<"user_id", "work_date", "shift_id">>},
          {<<"user_id", "sys_users">>, <<"shift_id", "attendance_shifts">>,
           <<"schedule_item_id", "attendance_schedule_items">>})

AttendanceMonthlySummary ==
    Model("attendance_monthly_summaries",
          {"user_id", "year", "month", "work_days", "attendance_days", "rest_days", "late_count",
           "early_leave_count", "missing_count", "absent_days", "leave_minutes", "overtime_minutes",
           "business_trip_days", "created_at", "updated_at"},
          {<<"id">>, <<"user_id">>, <<"year">>, <<"month">>}, {<<"user_id", "year", "month">>},
          {<<"user_id", "sys_users">>})

OpenVpnServer ==
    Model("openvpn_servers",
          {"name", "code", "vpn_type", "region", "host", "port", "protocol", "management_host",
           "management_port", "max_clients", "current_clients", "status", "is_default",
           "certificate_backend", "ssh_host", "ssh_port", "ssh_user", "ssh_key_path", "easy_rsa_dir",
           "pki_dir", "ca_cert_path", "tls_crypt_key_path", "crl_path", "client_config_dir",
           "config_template", "wg_interface", "wg_network_cidr", "wg_dns", "wg_allowed_ips",
           "wg_persistent_keepalive", "wg_public_key", "remark", "is_active", "is_deleted", "created_by",
           "created_at", "updated_by", "updated_at"},
          {<<"id">>}, {<<"name">>, <<"code">>},
          {})

OpenVpnAssignmentRule ==
    Model("openvpn_assignment_rules",
          {"name", "server_id", "target_type", "target_id", "priority", "fallback_enabled", "is_active",
           "remark", "created_by", "created_at", "updated_by", "updated_at"},
          {<<"id">>}, {<<"target_type", "target_id", "server_id">>},
          {<<"server_id", "openvpn_servers">>})

OpenVpnAccount ==
    Model("openvpn_accounts",
          {"user_id", "server_id", "vpn_username", "status", "assign_source", "assignment_rule_id",
           "config_version", "last_config_generated_at", "last_connected_at", "last_virtual_ip",
           "last_real_ip", "wg_client_private_key", "wg_client_public_key", "wg_client_address", "remark",
           "created_by", "created_at", "updated_by", "updated_at"},
          {<<"id">>}, {<<"user_id">>, <<"vpn_username">>},
          {<<"user_id", "sys_users">>, <<"server_id", "openvpn_servers">>,
           <<"assignment_rule_id", "openvpn_assignment_rules">>})

OpenVpnCertificate ==
    Model("openvpn_certificates",
          {"account_id", "server_id", "common_name", "serial_number", "status", "issued_at", "expires_at",
           "revoked_at", "revoked_reason", "cert_path", "key_path", "request_path", "config_file_path",
           "created_by", "created_at"},
          {<<"id">>, <<"common_name">>}, {<<"serial_number">>},
          {<<"account_id", "openvpn_accounts">>, <<"server_id", "openvpn_servers">>})

OpenVpnSession ==
    Model("openvpn_sessions",
          {"server_id", "account_id", "user_id", "common_name", "virtual_ip", "real_ip", "connected_at",
           "disconnected_at", "bytes_in", "bytes_out", "status"},
          {<<"id">>}, {},
          {<<"server_id", "openvpn_servers">>, <<"account_id", "openvpn_accounts">>,
           <<"user_id", "sys_users">>})

OpenVpnConnectionLog ==
    Model("openvpn_connection_logs",
          {"server_id", "account_id", "user_id", "action", "real_ip", "virtual_ip", "result", "message",
           "extra", "occurred_at"},
          {<<"server_id", "id">>, <<"user_id", "id">>, <<"action", "id">>, <<"occurred_at", "id">>,
           <<"id">>}, {},
          {<<"server_id", "openvpn_servers">>, <<"account_id", "openvpn_accounts">>,
           <<"user_id", "sys_users">>})

OpenVpnTrafficRecord ==
    Model("openvpn_traffic_records",
          {"server_id", "account_id", "certificate_id", "user_id", "department_id", "session_id",
           "common_name", "virtual_ip", "real_ip", "bytes_in", "bytes_out", "bytes_total", "recorded_at",
           "created_at"},
          {<<"id">>, <<"server_id">>, <<"account_id">>, <<"certificate_id">>, <<"user_id">>,
           <<"department_id">>, <<"session_id">>, <<"common_name">>, <<"recorded_at">>}, {<<"session_id">>},
          {<<"server_id", "openvpn_servers">>, <<"account_id", "openvpn_accounts">>,
           <<"certificate_id", "openvpn_certificates">>, <<"user_id", "sys_users">>,
           <<"department_id", "sys_departments">>, <<"session_id", "openvpn_sessions">>})

OpenVpnTrafficAggregate ==
    Model("openvpn_traffic_aggregates",
          {"period_type", "period_start", "dimension_type", "dimension_id", "server_id", "account_id",
           "certificate_id", "department_id", "bytes_in", "bytes_out", "bytes_total", "session_count",
           "updated_at"},
          {<<"id">>, <<"period_type">>, <<"period_start">>, <<"dimension_type">>, <<"dimension_id">>,
           <<"server_id">>, <<"account_id">>, <<"certificate_id">>, <<"department_id">>}, {<<"period_type", "period_start", "dimension_type", "dimension_id">>},
          {})

OpenVpnTrafficThresholdRule ==
    Model("openvpn_traffic_threshold_rules",
          {"name", "target_type", "target_id", "period_type", "threshold_bytes", "action", "is_active",
           "remark", "created_by", "created_at", "updated_by", "updated_at"},
          {<<"id">>, <<"target_type">>, <<"target_id">>}, {<<"target_type", "target_id", "period_type">>},
          {})

OpenVpnTrafficAlert ==
    Model("openvpn_traffic_alerts",
          {"rule_id", "target_type", "target_id", "server_id", "certificate_id", "account_id",
           "period_type", "period_start", "threshold_bytes", "actual_bytes", "action", "status", "message",
           "created_at", "processed_by", "processed_at", "process_note"},
          {<<"id">>, <<"rule_id">>, <<"target_type">>, <<"target_id">>, <<"server_id">>,
           <<"certificate_id">>, <<"account_id">>, <<"period_start">>, <<"status">>}, {<<"rule_id", "period_type", "period_start", "target_type", "target_id">>},
          {<<"rule_id", "openvpn_traffic_threshold_rules">>})

-----------------------------------------------------------------------------

Models == { User, Department, Role, Permission, Position, Domain, UserDepartment, UserRole,
                  UserPosition, RolePermission, UserDataScopeDepartment, OperationLog, LoginLog,
                  AttendanceShift, AttendanceRestRule, AttendanceRestRuleDepartment, AttendanceRestRuleUser,
                  AttendanceScheduleItem, AttendanceRecord, AttendanceRequest, AttendanceDailyResult,
                  AttendanceMonthlySummary, OpenVpnServer, OpenVpnAssignmentRule, OpenVpnAccount,
                  OpenVpnCertificate, OpenVpnSession, OpenVpnConnectionLog, OpenVpnTrafficRecord,
                  OpenVpnTrafficAggregate, OpenVpnTrafficThresholdRule, OpenVpnTrafficAlert }

ModelColumns == UNION { m.cols : m \in Models }
ModelIndexes == UNION { m.idx : m \in Models }
ModelKeys == UNION { m.fks : m \in Models }
=============================================================================
