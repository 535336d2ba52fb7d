SPECIFICATION UpkeepSpec
CONSTANTS
    Goals = {"c4d5e6f70819", "37fa45f0f9c4", "a52e1317da90", "e646948c549a", "3d9f46ff44b8", "7b1a2c3d4e5f",
             "4001ca3d5d6f", "185055a0d4f0", "5d575a161b5d", "e7f6a5b3c12d", "7770543dc37d", "add_agent_tasks_001",
             "52b19ee00eaf", "merge_nt_662", "db67d696b6ab", "63274a8b98b3c", "a940f167ad16", "merge_heads_63274_addcp001"}
    Stored = {"users", "workflows", "workflow_executions", "automation_rules", "automation_logs",
              "notifications", "notification_analytics", "customers", "campaigns", "campaign_events"}
    RowIds = {1, 2}
    MaxRows = 4
    Hosts = {"h1", "h2"}
    Syncs = {"p1", "p2", "p3"}
    HostOf <- RunsOnHosts
    Results = {"f", "g"}
    MaxVersion = 2
INVARIANTS UpkeepTypeOK  OnlyRulesHoldUsers
PROPERTIES SchemaFollowsRevisions UserDeletionKeepsRecords PublishedNeverGoesBack
CHECK_DEADLOCK FALSE
