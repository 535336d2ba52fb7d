------------------------------- MODULE DataModel -------------------------------
(***************************************************************************)
(* The tables that src/db/models and src/internal/db/models declare, their *)
(* foreign keys, and what the deletion of a row does to the rows that      *)
(* refer to it.                                                            *)
(*                                                                         *)
(* A foreign key says what becomes of the referring row: it goes too       *)
(* (CASCADE), it loses the reference (SET NULL), or the deletion is        *)
(* refused (NO ACTION, the default, and RESTRICT).  The services delete    *)
(* one row by its id and leave the rest to the database.  Columns that     *)
(* hold an id without a foreign key (customers.owner_id, tickets.assigned_ *)
(* to, user_roles.user_id, tasks.assigned_to and others) keep it.          *)
(***************************************************************************)
EXTENDS Naturals, FiniteSets

Key(column, table, onDelete) ==
    [column |-> column, to |-> table, onDelete |-> onDelete, nullable |-> FALSE]
Cascade(column, table) == Key(column, table, "cascade")
NoAction(column, table) == Key(column, table, "no action")
RestrictDelete(column, table) == Key(column, table, "restrict")
SetNull(column, table) == [Key(column, table, "set null") EXCEPT !.nullable = TRUE]
SetNullOfNotNull(column, table) == Key(column, table, "set null")
OfTenant == Cascade("tenant_id", "tenants")
OfUser == Cascade("user_id", "users")

Model(table, keys) == [table |-> table, keys |-> keys]

-----------------------------------------------------------------------------

TenantModel == Model("tenants", {})
UserModel == Model("users", {})
OrganizationModel == Model("organizations", {})
DepartmentModel == Model("departments", {NoAction("organization_id", "organizations")})
RoleModel == Model("roles", {})
PermissionModel == Model("permissions", {})
RolePermissionModel == Model("role_permissions",
    {Cascade("role_id", "roles"), Cascade("permission_id", "permissions")})
UserRoleModel == Model("user_roles", {Cascade("role_id", "roles")})

IdentityTenantModel == Model("identity_tenants", {})
OfIdentityTenant == RestrictDelete("tenant_id", "identity_tenants")
IdentityOrganizationModel == Model("identity_organizations", {OfIdentityTenant})
IdentityDepartmentModel == Model("identity_departments",
    {OfIdentityTenant, Cascade("organization_id", "identity_organizations"),
     SetNull("parent_id", "identity_departments")})
IdentityUserModel == Model("identity_users", {OfIdentityTenant})
IdentityRoleModel == Model("identity_roles", {OfIdentityTenant})
IdentityPermissionModel == Model("identity_permissions", {})
IdentityRolePermissionModel == Model("identity_role_permissions",
    {Cascade("role_id", "identity_roles"), Cascade("permission_id", "identity_permissions")})
IdentityUserRoleModel == Model("identity_user_roles",
    {OfIdentityTenant, Cascade("user_id", "identity_users"), Cascade("role_id", "identity_roles")})

RefreshTokenModel == Model("refresh_tokens", {OfUser, OfTenant})
UserCredentialModel == Model("user_credentials", {OfUser, OfTenant})
DeviceTrustModel == Model("device_trust", {OfUser, OfTenant})
WebAuthnChallengeModel == Model("webauthn_challenges", {OfUser, OfTenant})
ApiClientModel == Model("api_clients", {})

CustomerModel == Model("customers", {})
OfCustomer == Cascade("customer_id", "customers")
CustomerEnrichmentModel == Model("customer_enrichments",
    {NoAction("tenant_id", "tenants"), OfCustomer})
ChurnPredictionModel == Model("churn_predictions", {OfTenant, OfCustomer})
EngagementEventModel == Model("engagement_events", {OfTenant, OfCustomer})
RoutingRuleModel == Model("routing_rules", {})
ActivityModel == Model("activities", {})
TaskModel == Model("tasks", {})
ImportJobModel == Model("import_jobs", {})
ExportJobModel == Model("export_jobs", {})

CampaignModel == Model("campaigns", {})
OfCampaign == Cascade("campaign_id", "campaigns")
CampaignEventModel == Model("campaign_events", {OfCampaign, OfTenant, OfCustomer})
TriggerModel == Model("campaign_triggers", {[OfCampaign EXCEPT !.nullable = TRUE]})

PipelineModel == Model("pipelines", {})
PipelineStageModel == Model("pipeline_stages", {Cascade("pipeline_id", "pipelines")})
OpportunityModel == Model("opportunities", {})
OfOpportunity == Cascade("opportunity_id", "opportunities")
OpportunityActivityModel == Model("opportunity_activities", {OfOpportunity})
RecommendationModel == Model("recommendations", {OfTenant, OfOpportunity})
RiskSignalModel == Model("risk_signals", {OfTenant, OfOpportunity})

TicketModel == Model("tickets", {})
OfTicket == Cascade("ticket_id", "tickets")
TicketReplyModel == Model("ticket_replies", {OfTicket})
TicketCategorizationModel == Model("ticket_categorizations", {OfTicket})
CategorizationFeedbackModel == Model("categorization_feedback", {OfTicket})

NotificationModel == Model("notifications", {OfUser, OfTenant})
OfNotification == Cascade("notification_id", "notifications")
NotificationAnalytics == Model("notification_analytics", {OfNotification, OfTenant})
NotificationLogModel == Model("notification_logs", {OfNotification, OfTenant})
NotificationPreferenceModel == Model("notification_preferences", {OfUser, OfTenant})
NotificationTemplateModel == Model("notification_templates", {OfTenant})
SmartNotificationModel == Model("smart_notifications", {OfTenant})
ReminderModel == Model("reminders", {OfUser, NoAction("tenant_id", "tenants")})

(* created_by is declared NOT NULL and ON DELETE SET NULL                  *)
AutomationRuleModel == Model("automation_rules",
    {NoAction("tenant_id", "tenants"), SetNullOfNotNull("created_by", "users")})
(* a mutated form: the key has no ON DELETE                                *)
AutomationLogHeld == Model("automation_logs",
    {Cascade("rule_id", "automation_rules"), [NoAction("executed_by", "users") EXCEPT !.nullable = TRUE]})
AutomationLogModel == Model("automation_logs",
    {Cascade("rule_id", "automation_rules"), SetNull("executed_by", "users")})
WebhookModel == Model("webhooks", {NoAction("tenant_id", "tenants")})
WebhookDeliveryModel == Model("webhook_deliveries",
    {Cascade("webhook_id", "webhooks"), NoAction("tenant_id", "tenants")})

WorkflowModel == Model("workflows", {OfTenant, SetNull("created_by", "users")})
OfWorkflow == Cascade("workflow_id", "workflows")
(* a mutated form: a run goes with the user who triggered it               *)
WorkflowExecutionOfUser == Model("workflow_executions",
    {OfWorkflow, OfTenant, Cascade("triggered_by", "users")})
WorkflowExecutionModel == Model("workflow_executions",
    {OfWorkflow, OfTenant, SetNull("triggered_by", "users")})
WorkflowNodeModel == Model("workflow_nodes", {OfWorkflow, OfTenant})
WorkflowDefinitionModel == Model("workflow_definitions", {})
WorkflowInstanceModel == Model("workflow_instances",
    {Cascade("definition_id", "workflow_definitions")})
AgentTaskModel == Model("agent_tasks", {})

AIConversationModel == Model("ai_conversations", {OfTenant})
AIMessageModel == Model("ai_messages",
    {Cascade("conversation_id", "ai_conversations"), OfTenant})
ChatSessionModel == Model("chat_sessions", {})
ChatMessageModel == Model("chat_messages", {Cascade("session_id", "chat_sessions")})
ConversationModel == Model("conversations", {OfTenant, OfUser})
ConversationMessageModel == Model("conversation_messages",
    {Cascade("conversation_id", "conversations"), OfTenant})

DashboardModel == Model("dashboards", {})
ReportModel == Model("reports", {})
ChartDataModel == Model("chart_data", {NoAction("report_id", "reports")})
ReportDefinitionModel == Model("report_definitions", {})
ReportScheduleModel == Model("report_schedules", {})

Models == {
    TenantModel, UserModel, OrganizationModel, DepartmentModel, RoleModel,
    PermissionModel, RolePermissionModel, UserRoleModel, IdentityTenantModel,
    IdentityOrganizationModel, IdentityDepartmentModel, IdentityUserModel,
    IdentityRoleModel, IdentityPermissionModel, IdentityRolePermissionModel,
    IdentityUserRoleModel, RefreshTokenModel, UserCredentialModel,
    DeviceTrustModel, WebAuthnChallengeModel, ApiClientModel, CustomerModel,
    CustomerEnrichmentModel, ChurnPredictionModel, EngagementEventModel,
    RoutingRuleModel, ActivityModel, TaskModel, ImportJobModel, ExportJobModel,
    CampaignModel, CampaignEventModel, TriggerModel, PipelineModel,
    PipelineStageModel, OpportunityModel, OpportunityActivityModel,
    RecommendationModel, RiskSignalModel, TicketModel, TicketReplyModel,
    TicketCategorizationModel, CategorizationFeedbackModel, NotificationModel,
    NotificationAnalytics, NotificationLogModel, NotificationPreferenceModel,
    NotificationTemplateModel, SmartNotificationModel, ReminderModel,
    AutomationRuleModel, AutomationLogModel, WebhookModel, WebhookDeliveryModel,
    WorkflowModel, WorkflowExecutionModel, WorkflowNodeModel,
    WorkflowDefinitionModel, WorkflowInstanceModel, AgentTaskModel,
    AIConversationModel, AIMessageModel, ChatSessionModel, ChatMessageModel,
    ConversationModel, ConversationMessageModel, DashboardModel, ReportModel,
    ChartDataModel, ReportDefinitionModel, ReportScheduleModel}
=============================================================================
