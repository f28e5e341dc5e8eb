------------------------ MODULE MigrationsAttendance ------------------------
(***************************************************************************)
(* The revisions of the attendance module: src/backend/alembic/versions/   *)
(* 0020 to 0023 and 0025.  UpNNNN and DownNNNN are the statements of       *)
(* upgrade() and downgrade() of file NNNN_*.py, in order.                  *)
(***************************************************************************)
EXTENDS SchemaStatements

TelegramBindings ==
    Create("telegram_user_bindings",
           {"user_id", "telegram_user_id", "telegram_username", "telegram_chat_id", "bind_code", "is_active",
            "bound_at", "created_at", "updated_at"},
           <<>>, {}, {<<"user_id", "users">>})
      \o Indexes("telegram_user_bindings", <<"user_id", "telegram_user_id", "bind_code">>)

TelegramSessions ==
    Create("telegram_attendance_sessions",
           {"telegram_user_id", "user_id", "shift_date", "shift_id", "schedule_item_id", "session_start_at",
            "session_end_at", "is_locked", "created_at"},
           <<>>, {<<"telegram_user_id", "shift_date", "shift_id">>},
           {<<"user_id", "users">>, <<"shift_id", "attendance_shifts">>,
            <<"schedule_item_id", "attendance_schedule_items">>})

TelegramLogs ==
    Create("telegram_attendance_logs",
           {"telegram_update_id", "telegram_user_id", "telegram_username", "chat_id", "message_text", "event_type",
            "raw_payload", "processed_status", "error_message", "received_at", "created_at"},
           <<>>, {<<"telegram_update_id">>}, {})

Shifts ==
    Create("attendance_shifts",
           {"name", "code", "start_time", "end_time", "late_allowed_minutes", "early_leave_allowed_minutes",
            "is_cross_day", "is_flexible", "flexible_minutes", "is_active", "created_by", "created_at",
            "updated_by", "updated_at"},
           <<>>, {<<"name">>, <<"code">>}, {})

RestRuleTable ==
    Create("attendance_rest_rules",
           {"name", "rest_type", "weekday", "rest_date", "department_id", "user_id", "is_active", "created_by",
            "created_at", "updated_by", "updated_at"},
           <<>>, {}, {<<"department_id", "departments">>, <<"user_id", "users">>})

ScheduleItems ==
    Create("attendance_schedule_items",
           {"user_id", "department_id", "shift_id", "work_date", "source_type", "status", "is_temporary", "is_swapped",
            "remark", "created_by", "created_at", "updated_by", "updated_at"},
           <<>>, {<<"user_id", "work_date", "shift_id">>},
           {<<"user_id", "users">>, <<"department_id", "departments">>, <<"shift_id", "attendance_shifts">>})
      \o Indexes("attendance_schedule_items", <<"user_id", "department_id", "shift_id", "work_date">>)

Records ==
    Create("attendance_records",
           {"user_id", "telegram_user_id", "schedule_item_id", "shift_id", "record_type", "record_time", "source",
            "source_log_id", "status", "late_minutes", "early_leave_minutes", "remark", "created_by", "created_at",
            "updated_at"},
           <<>>, {},
           {<<"user_id", "users">>, <<"schedule_item_id", "attendance_schedule_items">>,
            <<"shift_id", "attendance_shifts">>, <<"source_log_id", "telegram_attendance_logs">>})

Requests ==
    Create("attendance_requests",
           {"request_no", "user_id", "request_type", "start_at", "end_at", "duration_minutes", "related_record_id",
            "related_schedule_item_id", "reason", "status", "approver_id", "approved_at", "approval_remark",
            "created_at", "updated_at"},
           <<>>, {<<"request_no">>},
           {<<"user_id", "users">>, <<"approver_id", "users">>, <<"related_record_id", "attendance_records">>,
            <<"related_schedule_item_id", "attendance_schedule_items">>})

Results ==
    Create("attendance_daily_results",
           {"user_id", "work_date", "shift_id", "schedule_item_id", "checkin_time", "checkout_time", "status",
            "late_minutes", "early_leave_minutes", "leave_minutes", "overtime_minutes", "work_minutes",
            "is_missing_checkin", "is_missing_checkout", "created_at", "updated_at"},
           <<>>, {<<"user_id", "work_date", "shift_id">>},
           {<<"user_id", "users">>, <<"shift_id", "attendance_shifts">>,
            <<"schedule_item_id", "attendance_schedule_items">>})
      \o Create("attendance_monthly_summaries",
           {"user_id", "year", "month", "work_days", "attendance_days", "rest_days", "late_count",
            "early_leave_count", "missing_count", "absent_days", "leave_minutes", "overtime_minutes",
            "business_trip_days", "created_at", "updated_at"},
           <<>>, {<<"user_id", "year", "month">>}, {<<"user_id", "users">>})

-----------------------------------------------------------------------------

TelegramMenus == {"attendance:telegram-binding:list", "attendance:telegram-log:list"}
Menus0020 == TelegramMenus \cup
    {"attendance:shift:list", "attendance:rest-rule:list", "attendance:schedule:list", "attendance:record:list",
     "attendance:request:list", "attendance:approval:list", "attendance:daily-report:list",
     "attendance:monthly-report:list"}
Buttons0020 ==
    {"attendance:telegram-binding:update", "attendance:shift:create", "attendance:shift:update",
     "attendance:shift:delete", "attendance:rest-rule:update", "attendance:schedule:create",
     "attendance:schedule:update", "attendance:schedule:delete", "attendance:record:create",
     "attendance:record:update", "attendance:record:delete", "attendance:request:create",
     "attendance:request:withdraw", "attendance:approval:approve", "attendance:approval:reject",
     "attendance:report:export"}
Codes0020 == {"attendance:manage:list"} \cup Menus0020 \cup Buttons0020

Up0020 ==
    FlattenSeq(<< TelegramBindings, Shifts, RestRuleTable, ScheduleItems, TelegramSessions, TelegramLogs, Records,
                  Requests, Results,
                  Upsert("permissions", None, {"attendance:manage:list"}),
                  Upsert("permissions", "attendance:manage:list", Menus0020 \cup Buttons0020),
                  GrantAdmin("permissions", Codes0020) >>)

Down0020 ==
    FlattenSeq(<< RemovePermissions("permissions", Codes0020),
                  Drop("attendance_monthly_summaries"), Drop("attendance_daily_results"), Drop("attendance_requests"),
                  Drop("attendance_records"), Drop("telegram_attendance_logs"), Drop("telegram_attendance_sessions"),
                  DropIndexes("attendance_schedule_items", <<"work_date", "shift_id", "department_id", "user_id">>),
                  Drop("attendance_schedule_items"), Drop("attendance_rest_rules"), Drop("attendance_shifts"),
                  DropIndexes("telegram_user_bindings", <<"bind_code", "telegram_user_id", "user_id">>),
                  Drop("telegram_user_bindings") >>)

-----------------------------------------------------------------------------
(* A rest rule's one user and one department move into link tables, and the  *)
(* legacy columns go.                                                        *)

(* Mutant: the member in the legacy column is not carried over. *)
UpLinksUnmoved(t, kind, ref) ==
    Create(t, {"rest_rule_id", kind, "created_at"}, <<>>, {<<"rest_rule_id", kind>>},
           {<<"rest_rule_id", "attendance_rest_rules">>, <<kind, ref>>})
      \o Indexes(t, <<"id", "rest_rule_id", kind>>)
UpLinks(t, kind, ref) ==
    Create(t, {"rest_rule_id", kind, "created_at"}, <<>>, {<<"rest_rule_id", kind>>},
           {<<"rest_rule_id", "attendance_rest_rules">>, <<kind, ref>>})
      \o Indexes(t, <<"id", "rest_rule_id", kind>>) \o Link(kind)
DownLinks(t, kind) == Unlink(kind) \o DropIndexes(t, <<kind, "rest_rule_id", "id">>) \o Drop(t)

Up0021 == UpLinks("attendance_rest_rule_users", "user_id", "users")
Down0021 == DownLinks("attendance_rest_rule_users", "user_id")
Up0022 == UpLinks("attendance_rest_rule_departments", "department_id", "departments")
Down0022 == DownLinks("attendance_rest_rule_departments", "department_id")

Up0023 ==
    When("present", DropForeignKey("attendance_rest_rules", "department_id", "departments")
                      \o DropForeignKey("attendance_rest_rules", "user_id", "users")
                      \o DropIndexes("attendance_rest_rules", <<"department_id", "user_id">>))
      \o DropColumns("attendance_rest_rules", <<"department_id", "user_id">>)
Down0023 ==
    AddColumns("attendance_rest_rules", <<"department_id", "user_id">>)
      \o ForeignKey("attendance_rest_rules", "department_id", "departments")
      \o ForeignKey("attendance_rest_rules", "user_id", "users")
      \o Unlink("department_id") \o Unlink("user_id")

-----------------------------------------------------------------------------

Up0025 ==
    FlattenSeq(<< RemovePermissions("permissions", TelegramMenus \cup {"attendance:telegram-binding:update"}),
                  When("present",
                       FlattenSeq(<< DropForeignKey("attendance_records", "source_log_id", "telegram_attendance_logs"),
                                     DropIndexes("attendance_records", <<"source_log_id">>),
                                     DropColumns("attendance_records", <<"source_log_id">>),
                                     DropIndexes("attendance_records", <<"telegram_user_id">>),
                                     DropColumns("attendance_records", <<"telegram_user_id">>),
                                     Alter("attendance_records"),
                                     Drop("telegram_attendance_logs"), Drop("telegram_attendance_sessions"),
                                     Drop("telegram_user_bindings") >>)) >>)

(* The index of telegram_user_id is created only with its column.            *)
Down0025(db) ==
    FlattenSeq(<< IF HasColumn(db, "attendance_records", "telegram_user_id") THEN <<>>
                  ELSE AddColumns("attendance_records", <<"telegram_user_id">>)
                         \o Index("attendance_records", <<"telegram_user_id">>),
                  When("missing", AddColumns("attendance_records", <<"source_log_id">>)),
                  When("present", Alter("attendance_records")),
                  TelegramBindings, TelegramSessions, TelegramLogs,
                  ForeignKey("attendance_records", "source_log_id", "telegram_attendance_logs") >>)
=============================================================================
