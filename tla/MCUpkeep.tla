------------------------------- MODULE MCUpkeep -------------------------------
(* The stored data outside of requests: the database's schema, its rows,   *)
(* and the pipeline's repository of results; one of them in each behaviour.*)
EXTENDS Migrations, Deletions, SharedMemory

VARIABLE part

RunsOnHosts == [p \in Syncs |-> IF p = "p3" THEN "h2" ELSE "h1"]

UpkeepInit ==
    /\ part \in {"schema", "rows", "memory"}
    /\ MigrationInit
    /\ DeletionsInit
    /\ MemoryInit

SchemaStep == part = "schema" /\ MigrationNext /\ UNCHANGED <<part, rows, memoryVars>>
RowsStep == part = "rows" /\ DeletionsNext /\ UNCHANGED <<part, migrationVars, memoryVars>>
MemoryStep == part = "memory" /\ MemoryNext /\ UNCHANGED <<part, migrationVars, rows>>

UpkeepNext == SchemaStep \/ RowsStep \/ MemoryStep
UpkeepSpec == UpkeepInit /\ [][UpkeepNext]_<<part, migrationVars, rows, memoryVars>>

(* Each part keeps its type invariant.                                     *)
UpkeepTypeOK == MigrationTypeOK /\ RowsTypeOK /\ MemoryTypeOK
===============================================================================
