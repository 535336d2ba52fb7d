------------------------------- MODULE Deletions -------------------------------
(***************************************************************************)
(* Rows that refer to one another, and the deletions of the services       *)
(* (delete_user, delete_workflow, delete_rule, delete_customer and the     *)
(* others), over the foreign keys of DataModel in a database that          *)
(* scripts/dev/create_schema.py has made from the models.  Every service   *)
(* deletes one row by its id; what goes with it is up to the keys.         *)
(***************************************************************************)
EXTENDS DataModel

CONSTANTS Stored,       \* the tables of this instance
          RowIds,       \* ids of rows
          MaxRows       \* bound: rows at one time

ASSUME DeletionsAssumption ==
    /\ Stored \subseteq {m.table : m \in Models}
    /\ MaxRows \in Nat

VARIABLE rows           \* the rows: [table, id, refs], refs a function on columns

Row(t, i) == <<t, i>>
Null == Row("null", 0)
RowOf(r) == Row(r.table, r.id)
Present == {RowOf(r) : r \in rows}

(* the foreign keys of a table; those to tables that the instance leaves   *)
(* out are not followed                                                    *)
Followed == [t \in Stored |->
    {k \in UNION {m.keys : m \in {n \in Models : n.table = t}} : k.to \in Stored}]

Holds(refs, k) ==
    \/ refs[k.column] = Null /\ k.nullable
    \/ refs[k.column] \in {x \in Present : x[1] = k.to}

(* a service stores a row                                                  *)
Insert(t, i) ==
    /\ Cardinality(rows) < MaxRows
    /\ Row(t, i) \notin Present
    /\ \E refs \in [{k.column : k \in Followed[t]} -> Present \cup {Null}] :
           /\ \A k \in Followed[t] : Holds(refs, k)
           /\ rows' = rows \cup {[table |-> t, id |-> i, refs |-> refs]}

Refers(r, S, onDelete) ==
    \E k \in Followed[r.table] : k.onDelete = onDelete /\ r.refs[k.column] \in S

(* the row x, the rows that refer to it with CASCADE, and so on            *)
Goes(x) ==
    LET wave[n \in 0 .. MaxRows] ==
            IF n = 0 THEN {x}
            ELSE wave[n - 1] \cup
                 {RowOf(r) : r \in {s \in rows : Refers(s, wave[n - 1], "cascade")}}
    IN  wave[MaxRows]

(* NO ACTION looks at the rows that stay, RESTRICT at all of them; SET     *)
(* NULL fails on a column that is NOT NULL.                                *)
Refused(x) ==
    LET gone == Goes(x)
        stay == {r \in rows : RowOf(r) \notin gone}
    IN  \/ \E r \in stay : Refers(r, gone, "no action")
        \/ \E r \in rows : Refers(r, gone, "restrict")
        \/ \E r \in stay : \E k \in Followed[r.table] :
               k.onDelete = "set null" /\ ~k.nullable /\ r.refs[k.column] \in gone

Cleared(r, gone) ==
    [r EXCEPT !.refs = [c \in DOMAIN r.refs |->
        IF \E k \in Followed[r.table] :
               k.column = c /\ k.onDelete = "set null" /\ r.refs[c] \in gone
        THEN Null ELSE r.refs[c]]]

RemoveRow(x) ==
    /\ x \in Present
    /\ ~Refused(x)
    /\ LET gone == Goes(x)
       IN  rows' = {Cleared(r, gone) : r \in {s \in rows : RowOf(s) \notin gone}}

DeleteUser(i) == RemoveRow(Row("users", i))
DeleteWorkflow(i) == RemoveRow(Row("workflows", i))
DeleteRuleRow(i) == RemoveRow(Row("automation_rules", i))
DeleteCustomer(i) == RemoveRow(Row("customers", i))
DeleteCampaign(i) == RemoveRow(Row("campaigns", i))
DeleteNotification(i) == RemoveRow(Row("notifications", i))

DeletionsInit == rows = {}

DeletionsNext ==
    \E i \in RowIds :
        \/ \E t \in Stored : Insert(t, i)
        \/ DeleteUser(i)
        \/ DeleteWorkflow(i)
        \/ DeleteRuleRow(i)
        \/ DeleteCustomer(i)
        \/ DeleteCampaign(i)
        \/ DeleteNotification(i)

DeletionsSpec == DeletionsInit /\ [][DeletionsNext]_rows

-----------------------------------------------------------------------------

(* Rows are of the instance's tables, and every foreign key finds its row  *)
(* or is null where it may be.                                             *)
RowsTypeOK ==
    \A r \in rows :
        /\ r.table \in Stored
        /\ r.id \in RowIds
        /\ \A k \in Followed[r.table] : Holds(r.refs, k)

(* Deleting a user is refused only while the user has automation rules:    *)
(* whatever else a user has written goes with the user or loses its author *)
(* (user_service.delete_user and the keys of the models).                  *)
OnlyRulesHoldUsers ==
    \A x \in Present : x[1] = "users" /\ Refused(x) =>
        \E r \in rows : r.table = "automation_rules" /\ r.refs["created_by"] = x

(* Deleting a user takes the user's own rows (sessions, notifications,     *)
(* what hangs on those) and no record of the business: workflows and their *)
(* runs, campaigns and their events, rules and their logs stay.            *)
Records == {"workflows", "workflow_executions", "automation_rules", "automation_logs",
            "customers", "campaigns", "campaign_events"}
UserDeletionKeepsRecords ==
    [][\A i \in RowIds : DeleteUser(i) =>
          \A r \in rows : r.table \in Records => RowOf(r) \in Present']_rows
=============================================================================
