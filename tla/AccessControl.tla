---------------------------- MODULE AccessControl ----------------------------
(***************************************************************************)
(* Who may call what: require_roles and its variants, and the role guard of *)
(* every route.  A pure module.  A route's service may narrow it further    *)
(* (get_operation shows an operation to those on it, a superintendent works *)
(* the runs he is assigned to); those checks belong to the services.        *)
(***************************************************************************)
EXTENDS StateMachine

NoRole == "none"
BunkerManager == {"bunker_manager"}
Everyone == UserRoles

\* The part of a users row that the guards read.
Caller == [role: UserRoles, acting_as_role: UserRoles \cup {NoRole}]

EffectiveRole(u) == IF u.acting_as_role = NoRole THEN u.role ELSE u.acting_as_role

RequireRoles(roles, strict, u) ==
  \/ ~strict /\ u.role = "bunker_manager"
  \/ (IF strict THEN u.role ELSE EffectiveRole(u)) \in roles

RequireOperationManager(u) == RequireRoles(OperationManagers, FALSE, u)

\* The services' own test, kept apart from the routes'.
IsOperationManager(u) ==
  u.role = "bunker_manager" \/ EffectiveRole(u) \in OperationManagers

\* The role a status transition is validated against.
ActingRole(u) == IF u.role = "bunker_manager" THEN u.role ELSE EffectiveRole(u)

ActAsEligibleRoles ==
  {"ops_supervisor", "logistics_officer", "cargo_superintendent", "finance_manager"}

-----------------------------------------------------------------------------
(* The routes, one table per group of handlers.                             *)

Gate(roles, strict, names) == {[name |-> n, roles |-> roles, strict |-> strict] : n \in names}
OpenTo(roles, names) == Gate(roles, FALSE, names)
OnlyTo(roles, names) == Gate(roles, TRUE, names)   \* allow_acting_as=False
SignedIn(names) == OpenTo(Everyone, names)         \* get_current_user alone

AuthRoutes ==
  OnlyTo(BunkerManager, {"act_as"})
    \cup SignedIn({"logout", "get_me", "clear_act_as", "update_me", "change_password"})

UserRoutes ==
  OpenTo(BunkerManager, {"list_users", "update_user", "delete_user", "resend_set_password_link"})
    \cup OpenTo({"bunker_manager", "finance_manager"}, {"create_user"})
    \cup OpenTo(OperationManagers, {"list_staff"})
    \cup OpenTo({"bunker_manager", "finance_manager", "cargo_superintendent", "ops_supervisor"},
                {"list_clients"})

SettingRoutes == OpenTo(BunkerManager, {"list_audit_logs", "get_settings", "update_setting"})

OperationRoutes ==
  OpenTo(OperationManagers,
         {"create_operation", "update_operation", "link_naval_clearance",
          "unlink_naval_clearance", "set_operation_color", "close_operation"})
    \cup SignedIn({"list_operations", "get_operation", "transition_operation"})

RevisionRoutes ==
  OpenTo(OperationManagers, {"pause_operation", "resume_operation", "delete_operation",
                             "reopen_operation", "get_operation_audit_log"})
    \cup OpenTo(OperationManagers \cup {"cargo_superintendent"},
                {"create_vessel_discharge_event"})
    \cup SignedIn({"get_operation_totals", "get_operation_timeline",
                   "list_operation_versions", "list_vessel_discharge_events"})

TaskRoutes == OpenTo(OperationManagers, {"create_task", "cancel_task"})
                \cup SignedIn({"list_tasks", "update_task", "get_my_tasks"})

FleetReaders == OperationManagers \cup {"logistics_officer"}

FleetRoutes ==
  OpenTo(FleetReaders, {"list_trucks", "get_truck", "get_truck_profile"})
    \cup OpenTo({"bunker_manager", "logistics_officer"}, {"create_truck"})
    \cup OpenTo({"bunker_manager", "marine_operator"},
                {"bulk_add_waivers", "update_waiver", "delete_waiver"})
    \cup OpenTo(FleetReaders \cup {"marine_operator"}, {"list_waivers"})

TruckRecordRoutes ==
  OpenTo(FleetReaders, {"report_truck_issue", "list_truck_issues"})
    \cup OpenTo(BunkerManager, {"resolve_truck_issue"})
    \cup OpenTo({"bunker_manager", "logistics_officer"},
                {"update_truck", "upload_truck_photo", "upload_truck_document"})

TruckRowRoutes ==
  OpenTo(BunkerManager, {"set_trucks_required", "remove_truck_from_operation"})
    \cup OpenTo({"logistics_officer"}, {"add_truck_to_operation", "link_waybill"})
    \cup OpenTo(FleetReaders, {"update_truck_operation", "submit_safety_audit"})
    \cup SignedIn({"list_addable_trucks", "list_truck_operations"})

TransitRoutes ==
  OpenTo({"logistics_officer"}, {"start_transit", "end_transit", "start_discharge", "end_discharge"})
    \cup OpenTo(BunkerManager, {"waive_audit_item", "approve_discharge", "edit_discharge_record"})

FeedbackRoutes ==
  OpenTo({"logistics_officer"}, {"submit_feedback"})
    \cup OpenTo(BunkerManager, {"approve_feedback", "reject_feedback"})
    \cup OpenTo({"bunker_manager", "logistics_officer"}, {"list_feedback"})

RoadRoutes ==
  OpenTo(FleetReaders, {"truck_depart_parking", "truck_arrived_loading", "truck_departed_loading",
                        "truck_arrived_discharge", "truck_add_event", "record_truck_loading_quantity"})
    \cup OpenTo({"logistics_officer", "ops_supervisor"}, {"submit_operation_completion"})
    \cup OpenTo(BunkerManager, {"correct_truck_loading_quantity"})

Stagers == OperationManagers \cup {"cargo_superintendent"}

RunRoutes ==
  OpenTo(OperationManagers, {"create_vessel_activity", "patch_initial_rob", "cancel_vessel_activity"})
    \cup OpenTo({"cargo_superintendent"}, {"list_my_vessel_activities"})
    \cup OpenTo(Stagers, {"list_vessel_activities", "get_vessel_activity", "start_vessel_activity",
                          "record_receipt", "record_bunkering", "record_discharge",
                          "complete_vessel_activity"})

StageRoutes ==
  OpenTo(Stagers, {"advance_stage", "add_comment", "list_comments", "set_cast_off_contacts",
                   "record_discharge_quantities", "commence_vessel_operation",
                   "add_vessel_activity_update", "list_vessel_activity_updates",
                   "complete_vessel_operation"})
    \cup OpenTo(OperationManagers, {"record_hse"})

LegRoutes ==
  OpenTo(Stagers, {"record_vessel_operation_quantities", "record_loading_receipt",
                   "list_vessel_activity_legs", "advance_leg_stage", "record_leg_quantities"})
    \cup OpenTo(OperationManagers, {"correct_vessel_operation_timing", "add_vessel_activity_leg",
                                    "record_leg_hse", "correct_leg_timing", "cancel_leg"})

RunEditRoutes ==
  OpenTo(Stagers, {"set_leg_adhoc_client"})
    \cup OpenTo(OperationManagers, {"edit_vessel_activity_update", "edit_vessel_activity_comment",
                                    "edit_vessel_activity_leg", "uncancel_vessel_activity_leg",
                                    "uncancel_vessel_activity"})

BdnRoutes ==
  OpenTo(OperationManagers, {"update_bdn", "delete_bdn", "approve_bdn", "reject_bdn"})
    \cup OpenTo({"ops_supervisor", "cargo_superintendent"}, {"create_bdn"})
    \cup OpenTo(Stagers, {"get_bdn"})
    \cup OpenTo(Stagers \cup {"finance_manager"}, {"list_bdns"})
    \cup OpenTo(BunkerManager, {"get_all_bdns"})

VesselBdnRoutes ==
  OpenTo({"ops_supervisor", "cargo_superintendent"}, {"create_vessel_bdn", "create_vessel_bdn_for_leg"})
    \cup OpenTo(Stagers \cup {"finance_manager"}, {"list_vessel_bdns"})
    \cup OpenTo(OperationManagers, {"update_vessel_bdn", "delete_vessel_bdn",
                                    "approve_vessel_bdn", "reject_vessel_bdn"})

TruckBdnRoutes ==
  OpenTo({"ops_supervisor", "logistics_officer"}, {"create_truck_bdn"})
    \cup OpenTo(FleetReaders \cup {"finance_manager"}, {"list_truck_bdns", "get_truck_bdn"})
    \cup OpenTo(OperationManagers, {"update_truck_bdn", "delete_truck_bdn",
                                    "approve_truck_bdn", "reject_truck_bdn"})
    \cup OpenTo(BunkerManager, {"get_all_truck_bdns"})

VesselRoutes ==
  OpenTo(BunkerManager, {"create_vessel", "update_vessel"})
    \cup OpenTo(FleetReaders \cup Stagers, {"list_vessels"})
    \cup OpenTo(OperationManagers, {"get_rob_ledger", "get_rob_summary"})
    \cup OpenTo({"ops_supervisor"}, {"record_rob_entry"})
    \cup OpenTo(Stagers, {"get_vessel", "get_cargo_ledger", "get_vessel_bdns"})

Loaders == Stagers \cup {"marine_operator"}

TerminalReceiptRoutes ==
  OpenTo(Loaders, {"create_terminal_receipt"})
    \cup OpenTo(Loaders \cup {"finance_manager"}, {"list_terminal_receipts", "get_quantity_summary"})

StsRoutes ==
  OpenTo(Loaders, {"create_sts_collection", "update_sts_collection", "advance_sts_stage",
                   "record_sts_hse", "submit_sts_receipt"})
    \cup OpenTo(Loaders \cup {"finance_manager"}, {"list_sts_collections"})
    \cup OpenTo(OperationManagers, {"approve_sts_receipt", "reject_sts_receipt",
                                    "correct_sts_receipt", "cancel_sts_collection"})

Licensers == {"cargo_superintendent", "marine_operator", "bunker_manager"}

LicenceRoutes ==
  OpenTo(Licensers, {"create_ppdl", "list_ppdls", "get_ppdl", "update_ppdl_product", "create_bfl",
                     "list_bfls", "list_active_bfls", "get_bfl", "update_bfl", "delete_bfl",
                     "create_naval_clearance", "list_naval_clearances", "get_naval_clearance",
                     "add_loading_location"})

ClearanceRoutes ==
  OpenTo(Licensers, {"remove_loading_location", "add_vessel", "remove_vessel",
                     "upload_naval_clearance_document", "get_eta_history"})
    \cup OpenTo(BunkerManager, {"set_eta"})

Financiers == {"bunker_manager", "finance_manager"}

PfiRoutes ==
  OpenTo(Financiers, {"generate_pfi", "list_pfis", "get_pfi", "update_pfi", "list_pfi_allocations"})
    \cup OpenTo(OperationManagers, {"allocate_pfi", "update_pfi_allocation"})
    \cup OpenTo(Financiers \cup OperationManagers, {"list_operation_allocations"})

PaymentRoutes ==
  OpenTo(OperationManagers, {"delete_pfi_allocation"})
    \cup OpenTo({"finance_manager"}, {"record_payment"})
    \cup OnlyTo({"finance_manager"}, {"confirm_payment", "confirm_pfi_payment"})
    \cup OpenTo(Financiers, {"list_payments", "create_standalone_pfi", "list_all_pfis"})

InvoiceRoutes ==
  OpenTo({"finance_manager"}, {"create_invoice", "create_standalone_invoice", "send_invoice",
                               "generate_invoice_pdf", "cancel_invoice"})
    \cup OnlyTo({"finance_manager"}, {"mark_invoice_paid"})
    \cup OpenTo(Financiers, {"list_invoices", "list_all_invoices", "get_invoice"})

VoucherRoutes ==
  OpenTo({"finance_manager"}, {"create_voucher", "create_vouchers_bulk",
                               "create_standalone_voucher", "submit_voucher"})
    \cup OpenTo(BunkerManager, {"approve_voucher", "reject_voucher"})
    \cup OpenTo(Financiers, {"list_operation_vouchers", "list_all_vouchers", "attach_receipt"})

ClientNoticeRoutes ==
  OpenTo(OperationManagers, {"list_recipients", "queue_notification", "approve_notifications",
                             "send_approved_notifications", "reject_pending_notification",
                             "list_pending_notifications", "get_notification_log"})

StaffNoticeRoutes ==
  OpenTo(OperationManagers, {"list_eligible_staff", "send_operation_notification",
                             "get_operation_notification_log"})

DocumentRoutes ==
  OpenTo(BunkerManager, {"list_all_documents", "unified_document_hub"})
    \cup SignedIn({"upload_document", "register_document_url", "list_documents",
                   "delete_document", "get_document_download_url"})

\* _require_client looks at the real role.
PortalRoutes ==
  OnlyTo({"client"}, {"portal_list_operations", "portal_get_operation", "portal_list_documents",
                      "portal_list_bdns", "portal_list_invoices"})

PortalSummaryRoutes == OnlyTo({"client"}, {"portal_list_milestones", "portal_dashboard"})

ReportRoutes ==
  OpenTo(OperationManagers, {"get_nmdpra_settings", "preview_nmdpra_sheet", "download_nmdpra_sheet"})
    \cup OpenTo(BunkerManager, {"put_nmdpra_settings"})

DatasetRoutes == OpenTo(BunkerManager, {"download_operations_dataset"})

AnalyticsRoutes ==
  OpenTo(Financiers \cup OperationManagers, {"get_dashboard", "get_monthly_operations"})

KpiTargetRoutes == OpenTo(BunkerManager, {"list_targets", "set_target"})
KpiGradeRoutes ==
  OpenTo(BunkerManager, {"set_grade", "list_gradable_metrics", "hr_pack", "close_period"})
    \cup SignedIn({"my_monthly_report"})

Routes ==
  UNION {AuthRoutes, UserRoutes, SettingRoutes, OperationRoutes, RevisionRoutes, TaskRoutes,
         FleetRoutes, TruckRecordRoutes, TruckRowRoutes, TransitRoutes, FeedbackRoutes, RoadRoutes,
         RunRoutes, StageRoutes, LegRoutes, RunEditRoutes, BdnRoutes, VesselBdnRoutes,
         TruckBdnRoutes, VesselRoutes, TerminalReceiptRoutes, StsRoutes, LicenceRoutes,
         ClearanceRoutes, PfiRoutes, PaymentRoutes, InvoiceRoutes, VoucherRoutes,
         ClientNoticeRoutes, StaffNoticeRoutes, DocumentRoutes, PortalRoutes, PortalSummaryRoutes,
         ReportRoutes, DatasetRoutes, AnalyticsRoutes, KpiTargetRoutes, KpiGradeRoutes}

Passes(u, route) == RequireRoles(route.roles, route.strict, u)
Reach(u) == {route.name : route \in {r \in Routes : Passes(u, r)}}
RouteOf == [n \in {r.name : r \in Routes} |-> CHOOSE r \in Routes : r.name = n]
May(u, name) == Passes(u, RouteOf[name])

\* The roles a route lets in.
Admitted(name) == {role \in UserRoles : May([role |-> role, acting_as_role |-> NoRole], name)}
=============================================================================
