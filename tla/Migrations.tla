------------------------------- MODULE Migrations -------------------------------
(***************************************************************************)
(* The Alembic history of the CRM's database (alembic/versions): what      *)
(* every revision does to the schema, and the commands `alembic upgrade`   *)
(* and `alembic downgrade` over the graph the revisions form.              *)
(*                                                                         *)
(* The schema is a set of objects: a table is <<t>>, a column, index or    *)
(* constraint p of t is <<t, p>>.  Every table is here, and the parts that *)
(* more than one revision names.  A table goes with its parts.             *)
(*                                                                         *)
(* env.py opens one transaction around all the revisions of a command, so  *)
(* a command takes effect as a whole or not at all; what is left open is   *)
(* which revisions a person asks for, and in which order.                  *)
(***************************************************************************)
EXTENDS DataModel, Sequences, SequencesExt

CONSTANT Goals      \* the revisions that commands name

VARIABLES
    applied,    \* revisions the database is at or past
    schema,     \* the objects in the database
    populated   \* the customers table has rows

migrationVars == <<applied, schema, populated>>

Tables(S) == {<<t>> : t \in S}
Parts(t, S) == {<<t, p>> : p \in S}
TableOf(o) == <<o[1]>>

-----------------------------------------------------------------------------
(* What a migration asks of the schema and does to it.  No revision needs  *)
(* its statements in an order of their own.                                *)

NoChange == [
    creates |-> {},     \* must not be there, and then are
    createsIf |-> {},   \* IF NOT EXISTS
    drops |-> {},       \* must be there, and then are not
    dropsIf |-> {},     \* IF EXISTS
    needs |-> {},       \* must be there
    refusedBy |-> {},   \* must not be there
    notNull |-> {},     \* created as NOT NULL columns without a default
    unless |-> {}]      \* the migration returns at once if they are there

Creates(objs) == [NoChange EXCEPT !.creates = objs]
Drops(objs) == [NoChange EXCEPT !.drops = objs]
DropsIf(objs) == [NoChange EXCEPT !.dropsIf = objs]
Swaps(old, new) == [NoChange EXCEPT !.creates = new, !.drops = old]
(* a table cannot be there and not be there                                *)
Raises == LET t == Tables({"any"}) IN [NoChange EXCEPT !.needs = t, !.refusedBy = t]

(* what is there once it has run                                           *)
Makes(m) == m.creates \cup m.createsIf \cup m.notNull

Skips(d, m) == m.unless # {} /\ m.unless \subseteq d.schema

Accepts(d, m) ==
    /\ (m.drops \cup m.needs) \subseteq d.schema
    /\ (m.creates \cup m.notNull \cup m.refusedBy) \cap d.schema = {}
    /\ \A o \in Makes(m) : TableOf(o) \in d.schema \cup m.creates
    /\ m.notNull # {} => ~d.populated

(* a dropped table takes its parts with it                                 *)
After(d, m) ==
    LET gone == m.drops \cup m.dropsIf IN
    {o \in d.schema : o \notin gone /\ TableOf(o) \notin gone} \cup Makes(m)

Migrate(d, m) ==
    IF ~d.ok \/ Skips(d, m) THEN d
    ELSE IF Accepts(d, m) THEN [d EXCEPT !.schema = After(d, m)]
    ELSE [d EXCEPT !.ok = FALSE]

Revision(id, from, up, down) ==
    [id |-> id, from |-> from, up |-> up, down |-> down]

(* the common shapes: add objects and drop them again; join branches       *)
Adds(id, from, objs) == Revision(id, from, Creates(objs), Drops(objs))
Joins(id, from) == Revision(id, from, NoChange, NoChange)

-----------------------------------------------------------------------------
(* The revisions, parents first.                                           *)

Initial == Joins("37fa45f0f9c4", {})

CrmTables ==
    Tables({"activities", "campaigns", "customers", "dashboards", "notifications",
            "opportunities", "pipelines", "reminders", "reports", "tasks"})
    \cup Parts("notifications", {"old columns"})
AccountTables ==
    Tables({"tenants", "tickets", "users", "workflows", "campaign_events",
            "pipeline_stages", "ticket_replies", "workflow_executions"})
    \cup Parts("campaign_events", {"ix_tenant_id", "ix_customer_id"})
    \cup Parts("workflows", {"created_by not null"})
CreateAllTables == Adds("b2c3dce4b714", {"37fa45f0f9c4"}, CrmTables \cup AccountTables)

RbacTables == Tables({"permissions", "roles", "role_permissions", "user_roles"})
SyncModels == Adds("3ea69d66514e", {"b2c3dce4b714"},
    RbacTables \cup Tables({"api_clients", "report_schedules"}))

AuthTables == {"refresh_tokens", "user_credentials", "device_trust", "webauthn_challenges"}
AuthIndexes == UNION {Parts(t, {"ix_tenant_id"}) : t \in AuthTables}
AddAuthTables == Adds("9d8e7f6a5b3c", {"3ea69d66514e"}, Tables(AuthTables))

AddAiConversations == Adds("c94d682d4b03", {"3ea69d66514e"},
    Tables({"ai_conversations", "ai_messages"}))

AuthAndAi == {"9d8e7f6a5b3c", "c94d682d4b03"}
MergeHeads6e == Joins("6e3746e84cc8", AuthAndAi)
MergeHeads82 == Joins("82ecf4a34e34", AuthAndAi)
MergeHeads8b == Joins("8b65fe079d37", AuthAndAi)
MergeHeadsAd == Joins("ad83ab21d36d", AuthAndAi)
MergeHeadsEe == Joins("eea413253aa1", AuthAndAi)
MergeHeadsF0 == Joins("f0c74d3d54f0", AuthAndAi)
AddOpportunityModel == Joins("7770543dc37d", {"f0c74d3d54f0"})

AddAgentTasks == Adds("add_agent_tasks_001", AuthAndAi,
    Tables({"agent_tasks"}) \cup Parts("agent_tasks", {"ix_task_id"}))

(* creates what SyncModels has created                                     *)
AddRbacSchema == Adds("195a79d95b41", {"c94d682d4b03"}, RbacTables)

AddRecommendations == Adds("3c19d099a7a9", {"6e3746e84cc8"},
    Tables({"recommendations", "risk_signals"}))

LeadColumns == Parts("customers", {"assigned_at", "recycle_count", "recycle_history"})
AutomationTables == Tables({"automation_rules", "automation_logs"})
AutomationTenantFks == Parts("automation_rules", {"fk_tenant_id"})
                       \cup Parts("automation_logs", {"fk_tenant_id"})

(* its downgrade drops constraints that have no name                       *)
DashboardObjects == AutomationTables \cup Tables({"routing_rules", "chart_data"})
AddDashboard == Revision("3d9f46ff44b8", {"8b65fe079d37"},
    [Creates(DashboardObjects \cup AuthIndexes) EXCEPT !.notNull = LeadColumns],
    Raises)

CustomersSchemaDrift == Adds("4001ca3d5d6f", {"82ecf4a34e34"}, LeadColumns)

(* A copy of eight other revisions, left out if import_jobs is there; its  *)
(* downgrade drops all of it whether it was left out or not.               *)
JobTables == Tables({"import_jobs", "export_jobs"})
ReplayedTables == JobTables \cup AutomationTables \cup Tables({"report_definitions", "conversations", "conversation_messages",
                          "opportunity_activities", "customer_enrichments"})
AgentTasksReplayed ==
    AutomationTenantFks \cup Tables({"agent_tasks"}) \cup Parts("agent_tasks", {"uq_task_id"})
SentAt == Parts("campaigns", {"sent_at"})
ReplayHeads == Revision("52b19ee00eaf", {"82ecf4a34e34"},
    [Creates(ReplayedTables \cup AgentTasksReplayed \cup SentAt) EXCEPT
        !.unless = Tables({"import_jobs"})],
    Drops(ReplayedTables \cup Tables({"agent_tasks"}) \cup SentAt))

NodePairIndex == Parts("workflow_nodes", {"ix_tenant_id_workflow_id"})
AddWorkflowNodes == Adds("185055a0d4f0", {"82ecf4a34e34"},
    Tables({"workflow_nodes"}) \cup NodePairIndex)

OldColumns == Parts("notifications", {"old columns"})
NewColumns == Parts("notifications", {"new columns"})
(* the downgrade drops the new columns and then reads them                 *)
AddNotificationIndexes == Revision("e7f6a5b3c12d", {"82ecf4a34e34"},
    Swaps(OldColumns, NewColumns), Raises)

(* DROP CONSTRAINT IF EXISTS wants the table                               *)
Templates == Tables({"notification_templates"})
AddNotificationTemplates == Revision("5d575a161b5d", {"e7f6a5b3c12d"},
    Creates(Templates), [DropsIf(Templates) EXCEPT !.needs = Templates])
(* a join whose downgrade drops a table of one of its parents              *)
MergeNt662 == Revision("merge_nt_662", {"52b19ee00eaf", "5d575a161b5d"},
    NoChange, DropsIf(Templates))
AddNotificationPreferences == Adds("663_notif_prefs", {"merge_nt_662"},
    Tables({"notification_preferences"}))
AddNotificationLogs == Adds("a785fd51c79e", {"52b19ee00eaf"}, Tables({"notification_logs"}))

(* creates indexes that CreateAllTables has created                        *)
AddCampaignTables == Adds("6042653c9d73", {"ad83ab21d36d"},
    Tables({"campaign_triggers"}) \cup Parts("campaign_events", {"ix_tenant_id", "ix_customer_id"}))

AddLeadScore == Adds("e8ad92ca62b3", {"eea413253aa1"}, Parts("customers", {"score columns"}))
AddEngagementEvents == Adds("a1b2c3d4e5f6", {"e8ad92ca62b3"}, Tables({"engagement_events"}))
CreateRoutingRules == Adds("7b1a2c3d4e5f", {"4001ca3d5d6f"}, Tables({"routing_rules"}))

IdentityTables == Tables({"identity_permissions", "identity_tenants", "identity_organizations",
    "identity_roles", "identity_users", "identity_departments", "identity_role_permissions",
    "identity_user_roles"})
TaskIdIndex == Parts("agent_tasks", {"ix_task_id"})
IdentityParts ==
    Parts("agent_tasks", {"uq_task_id"}) \cup AutomationTenantFks \cup AuthIndexes
(* a mutated form: the downgrade forgets the index that the upgrade drops   *)
AddIdentityHalf == Revision("db67d696b6ab", {"7b1a2c3d4e5f"},
    Swaps(TaskIdIndex, IdentityTables \cup IdentityParts),
    Drops(IdentityTables \cup IdentityParts))
AddIdentity == Revision("db67d696b6ab", {"7b1a2c3d4e5f"},
    Swaps(TaskIdIndex, IdentityTables \cup IdentityParts),
    Swaps(IdentityTables \cup IdentityParts, TaskIdIndex))

AddNotificationAnalytics == Adds("0596add_notification_analytics_tracking", {"db67d696b6ab"},
    Tables({"notification_analytics"}))

(* sa.JSONB does not exist                                                 *)
AddTenantSlug == Revision("9aad50c58f54", {"9d8e7f6a5b3c"},
    Raises, Drops(Parts("tenants", {"slug", "usage_limits"})))
AddImportExportJobs == Adds("a52e1317da90", {"9d8e7f6a5b3c"}, JobTables)
WebhookTables == Tables({"webhooks", "webhook_deliveries"})
AddWebhooks == Adds("63274a8b98b3c", {"9d8e7f6a5b3c"}, WebhookTables)
AddChurnPredictions == Adds("addcp001", {"9d8e7f6a5b3c"}, Tables({"churn_predictions"}))
AddSmartNotifications == Adds("127938d15761", {"9d8e7f6a5b3c"}, Tables({"smart_notifications"}))
AddTicketCategorization == Adds("a0000012", {"9d8e7f6a5b3c"}, Tables({"ticket_categorizations"}))
CreateAutomation == Adds("e646948c549a", {"9d8e7f6a5b3c"}, AutomationTables)
AddChatSessions == Adds("a2a592eec292", {"c94d682d4b03"}, Tables({"chat_sessions", "chat_messages"}))
AddSentAt == Adds("afa7c3f333bd", {"c94d682d4b03"}, SentAt)
AddReportDefinitions == Adds("c94d682d4b04", {"c94d682d4b03"}, Tables({"report_definitions"}))
AddConversations == Adds("db63fcd03ab9", {"c94d682d4b03"},
    Tables({"conversations", "conversation_messages"}))
CreateOpportunityActivities == Adds("e1f2a3b4c5d6", {"c94d682d4b03"},
    Tables({"opportunity_activities"}))
CreateCustomerEnrichments == Adds("f18b406b982a", {"c94d682d4b03"},
    Tables({"customer_enrichments"}))

MergeHeadsThird == Joins("merge_heads_third", {"185055a0d4f0", "addcp001", "db67d696b6ab"})

TenantColumn == Parts("workflow_executions", {"tenant_id"})
NoActionFk(t) == Parts(t, {"fk_tenant_id"})
CascadeFk(t) == Parts(t, {"fk_tenant_id on delete cascade"})
WorkflowExecutionsTenant == Adds("9e805b1493a6", {"merge_heads_third"},
    TenantColumn \cup NoActionFk("workflow_executions"))
(* the same column on the other branch                                     *)
AddTenantId == Revision("fcf9ff098f62447a", {"merge_heads_third"},
    Swaps(NodePairIndex, TenantColumn), Swaps(TenantColumn, NodePairIndex))
AddWebhookRetry == Adds("a940f167ad16", {"fcf9ff098f62447a"},
    Parts("webhook_deliveries", {"retry columns"}))
MergeHeadsFour == Joins("merge_heads_four", {"9aad50c58f54", "addcp001", "9e805b1493a6"})

(* undefined_table is none of the exceptions its DO blocks catch           *)
MergeHeads63274 == Revision("merge_heads_63274_addcp001",
    {"185055a0d4f0", "db67d696b6ab", "63274a8b98b3c", "addcp001"},
    [NoChange EXCEPT !.needs = AutomationTables,
                     !.createsIf = AutomationTenantFks \cup AuthIndexes],
    [Drops(AuthIndexes) EXCEPT !.needs = AutomationTables,
                               !.dropsIf = AutomationTenantFks])
(* its downgrade imports its parents from a package that has no such       *)
(* modules and swallows the exceptions                                     *)
MergeAllHeadsFinal == Joins("merge_all_heads_final",
    {"9aad50c58f54", "a52e1317da90", "add_agent_tasks_001", "63274a8b98b3c",
     "afa7c3f333bd", "c94d682d4b04", "db63fcd03ab9", "e1f2a3b4c5d6",
     "e646948c549a", "f18b406b982a", "a940f167ad16"})
AddCkAiMessagesRole == Adds("add_ck_ai_messages_role", {"merge_all_heads_final"},
    Parts("ai_messages", {"ck_role"}))
AddCategorizationFeedback == Adds("a0000013", {"add_ck_ai_messages_role"},
    Tables({"categorization_feedback"}))
Merge13Heads == Joins("045507a9a536",
    {"0596add_notification_analytics_tracking", "127938d15761", "195a79d95b41",
     "3c19d099a7a9", "6042653c9d73", "663_notif_prefs", "a0000012", "a0000013",
     "a2a592eec292", "a785fd51c79e", "a1b2c3d4e5f6",
     "merge_heads_63274_addcp001", "merge_heads_four"})

(* CREATE and DROP INDEX CONCURRENTLY are refused inside a transaction     *)
StatusIndex == Parts("workflows", {"ix_tenant_id_status"})
WorkflowCompositeIndex == Revision("a1c2d3e4f5a7", {"045507a9a536"},
    [NoChange EXCEPT !.needs = StatusIndex], [NoChange EXCEPT !.refusedBy = StatusIndex])
CreatedByNotNull == Parts("workflows", {"created_by not null"})
WorkflowCreatedByNullable == Revision("a1c2d3e4f5a8", {"a1c2d3e4f5a7"},
    DropsIf(CreatedByNotNull),
    [NoChange EXCEPT !.needs = Tables({"users"}), !.createsIf = CreatedByNotNull])

(* whatever key is there gives way; the downgrade of a key that was never  *)
(* there leaves one                                                        *)
Replaces(old, new) == [DropsIf(old) EXCEPT !.createsIf = new]
WorkflowExecutionsCascade == Revision("b3c4d5e6f708", {"a1c2d3e4f5a8"},
    [Replaces(NoActionFk("workflow_executions"), CascadeFk("workflow_executions"))
        EXCEPT !.needs = TenantColumn],
    Replaces(CascadeFk("workflow_executions"), NoActionFk("workflow_executions")))
(* a mutated form: its statements can be read                              *)
WorkflowNodesPlain == Revision("c4d5e6f70819", {"b3c4d5e6f708"},
    Replaces(NoActionFk("workflow_nodes"), CascadeFk("workflow_nodes")),
    Replaces(CascadeFk("workflow_nodes"), NoActionFk("workflow_nodes")))
(* both directions look for a key with ":table::regclass", which is no     *)
(* bound parameter                                                         *)
WorkflowNodesCascade == Revision("c4d5e6f70819", {"b3c4d5e6f708"}, Raises, Raises)

Chain == <<
    Initial, CreateAllTables, SyncModels, AddAuthTables, AddAiConversations,
    MergeHeads6e, MergeHeads82, MergeHeads8b, MergeHeadsAd, MergeHeadsEe,
    MergeHeadsF0, AddOpportunityModel, AddAgentTasks, AddRbacSchema,
    AddRecommendations, AddDashboard, CustomersSchemaDrift, AddImportExportJobs,
    CreateAutomation, ReplayHeads, AddWorkflowNodes, AddNotificationIndexes,
    AddNotificationTemplates, MergeNt662, AddNotificationPreferences,
    AddNotificationLogs, AddCampaignTables, AddLeadScore, AddEngagementEvents,
    CreateRoutingRules, AddIdentity, AddNotificationAnalytics, AddTenantSlug,
    AddWebhooks, AddChurnPredictions, AddSmartNotifications,
    AddTicketCategorization, AddChatSessions, AddSentAt, AddReportDefinitions,
    AddConversations, CreateOpportunityActivities, CreateCustomerEnrichments,
    MergeHeadsThird, WorkflowExecutionsTenant, AddTenantId, AddWebhookRetry,
    MergeHeadsFour, MergeHeads63274, MergeAllHeadsFinal, AddCkAiMessagesRole,
    AddCategorizationFeedback, Merge13Heads, WorkflowCompositeIndex,
    WorkflowCreatedByNullable, WorkflowExecutionsCascade, WorkflowNodesCascade >>

LastRevision == "c4d5e6f70819"
Revisions == {r.id : r \in ToSet(Chain)}

(* no command names a revision that no file holds                          *)
ASSUME MigrationsAssumption == Goals \subseteq Revisions

(* the closure of {g} under from                                           *)
Ancestors == [g \in Revisions |->
    LET found[n \in 0..Len(Chain)] ==
            IF n = 0 THEN {g}
            ELSE LET before == found[n - 1]
                     r == Chain[Len(Chain) - n + 1]
                 IN  before \cup IF r.id \in before THEN r.from ELSE {}
    IN  found[Len(Chain)]]

-----------------------------------------------------------------------------

Db(objs, rows) == [ok |-> TRUE, schema |-> objs, populated |-> rows]

(* the revisions of S in the order of the graph, or against it             *)
RunUp(d, S) ==
    LET at[n \in 0..Len(Chain)] ==
            IF n = 0 THEN d
            ELSE IF Chain[n].id \in S THEN Migrate(at[n - 1], Chain[n].up)
            ELSE at[n - 1]
    IN  at[Len(Chain)]
RunDown(d, S) ==
    LET at[n \in 0..Len(Chain)] ==
            IF n = 0 THEN d
            ELSE LET r == Chain[Len(Chain) - n + 1]
                 IN  IF r.id \in S THEN Migrate(at[n - 1], r.down)
                     ELSE at[n - 1]
    IN  at[Len(Chain)]

Missing(g) == Ancestors[g] \ applied
(* a mutated form of Undone: the revisions built on g stay applied         *)
UndoneAlone(g) == {g} \cap applied
Undone(g) == {r \in applied : g \in Ancestors[r]}
UpgradeOf(g) == RunUp(Db(schema, populated), Missing(g))
DowngradeOf(g) == RunDown(Db(schema, populated), Undone(g))

(* one transaction: a command that fails changes nothing                   *)
Upgrade(g) ==
    /\ Missing(g) # {}
    /\ UpgradeOf(g).ok
    /\ applied' = applied \cup Missing(g)
    /\ schema' = UpgradeOf(g).schema
    /\ UNCHANGED populated

Downgrade(g) ==
    /\ Undone(g) # {}
    /\ DowngradeOf(g).ok
    /\ applied' = applied \ Undone(g)
    /\ schema' = DowngradeOf(g).schema
    /\ populated' = (populated /\ <<"customers">> \in schema')

(* the application stores its first customer                               *)
Populate ==
    /\ <<"customers">> \in schema
    /\ ~populated
    /\ populated' = TRUE
    /\ UNCHANGED <<applied, schema>>

(* scripts/dev/create_schema.py: the tables as the ORM declares them,      *)
(* stamped with the head.  Four of them no revision creates.               *)
Declared ==
    Tables({m.table : m \in Models})
    \cup NewColumns \cup LeadColumns \cup SentAt \cup AuthIndexes
    \cup NodePairIndex \cup StatusIndex \cup TenantColumn
    \cup CascadeFk("workflow_executions") \cup CascadeFk("workflow_nodes")
    \cup AddLeadScore.up.creates \cup AddWebhookRetry.up.creates
    \cup AddCkAiMessagesRole.up.creates
    \cup AddTenantSlug.down.drops
    \cup Parts("campaign_events", {"ix_tenant_id", "ix_customer_id"})
StampSchema ==
    /\ applied = {}
    /\ schema = {}
    /\ applied' = Revisions
    /\ schema' = Declared
    /\ UNCHANGED populated

MigrationInit ==
    /\ applied = {}
    /\ schema = {}
    /\ populated = FALSE

MigrationNext ==
    \/ \E g \in Goals : Upgrade(g) \/ Downgrade(g)
    \/ Populate
    \/ StampSchema

MigrationSpec == MigrationInit /\ [][MigrationNext]_migrationVars

-----------------------------------------------------------------------------

SchemaObjects ==
    Declared \cup UNION {Makes(r.up) \cup Makes(r.down) : r \in ToSet(Chain)}

(* The revisions recorded as applied are closed under the graph's edges:   *)
(* no command leaves a revision applied without the ones it builds on      *)
(* (env.py's transaction around a whole command).                          *)
MigrationTypeOK ==
    /\ applied \subseteq Revisions
    /\ schema \subseteq SchemaObjects
    /\ populated \in BOOLEAN
    /\ \A r \in applied : Ancestors[r] \subseteq applied

(* objs is what a new database has that is upgraded to the revisions ids   *)
Follows(objs, ids) ==
    LET fresh == RunUp(Db({}, FALSE), ids)
    IN  fresh.ok /\ fresh.schema = objs

(* The five ways to take revisions back that do not undo them: of          *)
(* 52b19ee00eaf and a52e1317da90, where the first was skipped; of          *)
(* merge_nt_662 and of merge_heads_63274_addcp001, which drop what their   *)
(* parents made; of e646948c549a under db67d696b6ab, and of 63274a8b98b3c  *)
(* under a940f167ad16, which have keys and columns in their tables and do  *)
(* not build on them.                                                      *)
LeavesTraces ==
    LET back == applied \ applied' IN
    \/ /\ {ReplayHeads.id, AddImportExportJobs.id} \subseteq applied
       /\ {ReplayHeads.id, AddImportExportJobs.id} \cap back # {}
    \/ MergeNt662.id \in back
    \/ MergeHeads63274.id \in back
    \/ CreateAutomation.id \in back /\ AddIdentity.id \in applied'
    \/ AddWebhooks.id \in back /\ AddWebhookRetry.id \in applied'

(* The schema follows from the set of revisions applied, and not from the  *)
(* commands that led there: an upgrade or downgrade that starts with the   *)
(* tables, columns and keys of a new database upgraded to the same         *)
(* revisions also ends with those.  For this every downgrade in            *)
(* alembic/versions has to undo its upgrade; all do but the five above.    *)
(* (Stamping writes the models' schema instead of running revisions.)      *)
SchemaFollowsRevisions ==
    [][Follows(schema, applied) =>
           Follows(schema', applied') \/ LeavesTraces \/ applied' = Revisions]_migrationVars

(* A database that records 9aad50c58f54, or anything built on it up to the *)
(* last revision, is one that scripts/dev/create_schema.py has made and    *)
(* stamped, and it stays whole: it records the last revision and has the   *)
(* schema that the models declare, whatever commands come later.  No       *)
(* upgrade gets past 9aad50c58f54, and no downgrade past c4d5e6f70819.     *)
HeadIsAsDeclared ==
    AddTenantSlug.id \in applied => LastRevision \in applied /\ schema = Declared
=============================================================================
